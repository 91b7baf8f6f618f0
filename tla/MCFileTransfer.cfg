SPECIFICATION Spec
CONSTANTS cert = cert  chain = chain  NoFile = nofile
          File <- Files  FirstFile = cert  FileSize <- SizeOfFile  Frames <- FramesOf
          FrameSize = 2  MaxSize = 4  VerifyInfo = 1
          MaxFiles = 2  RetryAllow = 2  Requests = 2
INVARIANTS TypeOK
PROPERTIES   EndsAgree BothEndsFree DeliverySpec
CHECK_DEADLOCK FALSE
