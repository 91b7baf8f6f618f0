SPECIFICATION FairSpec
CONSTANTS
    shadow = shadow  temp = temp  byte = byte  direct = direct
    flash = flash  app = app  absent = absent
    NoMux = nomux
    Mux <- Mux1
    Object <- Object1
    ObjLen <- AllLen
    Backing <- AllBacking
    Writable = {shadow, temp, byte, flash, app}
    Readable = {shadow, temp, direct, app}
    Payload = {p}
    Factory = factory
    ReqLen <- ReqLenOf
    SegSize = 2
    ExpSize = 1
    Depth = 2
    Requests = 3
    Settings <- AllSettings
INVARIANTS MemorySafe EndsInStep
PROPERTIES UploadExact AtomicSpec BothEndsFree
CHECK_DEADLOCK FALSE
