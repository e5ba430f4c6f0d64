CONSTANTS
    MsgHdrSize = 6
    TlmHdrSize = 16
    CmdHdrSize = 8
    CcsdsFlag = "unset"
    Inputs <- MCInputs
    Dictionaries <- MCDictionaries
    Options <- MCOptions
    RawFile <- MCRawFile
    MaxMessages = 2
    Kinds = {"tlm", "shortTlm", "set", "noop", "shortCmd", "fcnOnly", "other"}
    Clashes = {TRUE}
    Formats = {"csv"}

SPECIFICATION Spec

INVARIANT
    OneMessagePerFile

\* The run ends.
CHECK_DEADLOCK FALSE
