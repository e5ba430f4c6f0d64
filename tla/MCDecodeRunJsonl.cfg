CONSTANTS
    MsgHdrSize = 6
    TlmHdrSize = 16
    CmdHdrSize = 8
    CcsdsFlag = "unset"
    Inputs <- MCInputs
    Dictionaries <- MCDictionaries
    Options <- MCOptions
    RawFile <- MCRawFile
    MaxMessages = 2
    Kinds = {"tlm", "set", "noop"}
    Clashes = {FALSE}
    Formats = {"jsonl"}

SPECIFICATION Spec

INVARIANT
    RowsKeepFixed

\* The run ends.
CHECK_DEADLOCK FALSE
