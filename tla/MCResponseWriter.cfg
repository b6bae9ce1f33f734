SPECIFICATION WriterSpec
CONSTANTS
    Codes <- SomeCodes
    CanHijack = TRUE
    CanFlush = TRUE
    MaxBody = 12
INVARIANTS
    StatusIsWire
    SizeIsBody
    RefusalPanics
    HijackedClean
