CONSTANTS
    MsgHdrSize = 6
    TlmHdrSize = 16
    CmdHdrSize = 8
    CcsdsFlag = "unset"
    Inputs <- MCInputs
    TypeFiles = {"none", "ok", "unreadable"}
    MaxMessages = 3

SPECIFICATION Spec

INVARIANTS
    TypeOK
    SummariesAreTheLogs
    StatusMeansWhatItSays

PROPERTY
    Terminates

\* The run ends.
CHECK_DEADLOCK FALSE
