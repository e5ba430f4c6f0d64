CONSTANTS
    MsgHdrSize = 6
    TlmHdrSize = 16
    CmdHdrSize = 8
    CcsdsFlag = "unset"
    Inputs <- MCInputs
    Dictionaries <- MCDictionaries
    Options <- MCOptions
    RawFile <- MCRawFile
    MaxMessages = 2
    Kinds = {"tlm", "shortTlm", "set", "noop", "shortCmd", "fcnOnly", "other"}
    Clashes = {FALSE, TRUE}
    Formats = {"csv", "jsonl"}

SPECIFICATION Spec

INVARIANTS
    TypeOK
    Aligned
    RowsAreTheLog
    RecordsAreTheirRows
    CountsAddUp

PROPERTY
    Terminates

\* The run ends.
CHECK_DEADLOCK FALSE
