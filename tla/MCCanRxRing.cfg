SPECIFICATION RxSpec
CONSTANTS QueueSize = 4  CallbackNum = 2  MaxFrames = 14
INVARIANT RxRingInv
PROPERTIES OnlyNewer FeedSpec
CHECK_DEADLOCK FALSE
