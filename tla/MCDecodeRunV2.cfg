CONSTANTS
    MsgHdrSize = 10
    TlmHdrSize = 20
    CmdHdrSize = 12
    CcsdsFlag = "unset"
    Inputs <- MCInputs
    Dictionaries <- MCDictionaries
    Options <- MCOptions
    RawFile <- MCRawFile
    MaxMessages = 2
    Kinds = {"tlm", "noop", "bareCmd"}
    Clashes = {FALSE}
    Formats = {"csv"}

SPECIFICATION Spec

INVARIANT
    Aligned

\* The run ends.
CHECK_DEADLOCK FALSE
