CONSTANTS
    FsHdrSize = 64
    DsHdrSize = 76
    MsgHdrSize = 6
    TlmHdrSize = 16
    CmdHdrSize = 8
    CcsdsFlag = "unset"
    Images <- MCImages
    Cuts <- MCCuts
    MaxMessages = 2
    LenFields = {0, 3}

SPECIFICATION Spec

INVARIANTS
    TypeOK
    Tiles
    LayoutSettled
    WarnsOnce

PROPERTIES
    ModeSticks
    Terminates

\* The reader stops when it has closed or refused the file.
CHECK_DEADLOCK FALSE
