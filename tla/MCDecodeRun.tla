---------------------------- MODULE MCDecodeRun ----------------------------
(***************************************************************************)
(* Small runs of DecodeRun: two input files of up to two messages each, of *)
(* kinds chosen so that every way through HandlePacket is taken.           *)
(***************************************************************************)
EXTENDS DecodeRun, TLC

CONSTANTS MaxMessages, Kinds, Clashes, Formats

Msg(isCmd, secHdr, apid, len, b7, fcn) ==
    [version |-> 0, isCmd |-> isCmd, secHdr |-> secHdr, apid |-> apid,
     lenField |-> len - 7, byte7 |-> b7, fcnByte |-> fcn]

\* The messages the kinds of a cfg stand for.
Message == [tlm        |-> Msg(FALSE, TRUE, 1, 20, 0, 0),
            shortTlm   |-> Msg(FALSE, TRUE, 1, 12, 0, 0),
            set        |-> Msg(TRUE, TRUE, 2, 12, 0, 1),
            noop       |-> Msg(TRUE, TRUE, 2, 12, 0, 0),
            bareCmd    |-> Msg(TRUE, FALSE, 2, 12, 0, 0),
            shortCmd   |-> Msg(TRUE, TRUE, 2, 8, 0, 5),
            fcnOnly    |-> Msg(TRUE, TRUE, 3, 12, 0, 9),
            other      |-> Msg(FALSE, TRUE, 4, 12, 0, 0),
            otherCmd   |-> Msg(TRUE, TRUE, 5, 12, 0, 3)]

Logs == UNION {[1 .. n -> {Message[k] : k \in Kinds}] : n \in 0 .. MaxMessages}

Whole1(l, o) == [outcome |-> o, log |-> l, whole |-> Len(l), torn |-> FALSE]

\* A first file read to its end, torn, refused or lost; a second one whole.
MCInputs ==
    {<<a, Whole1(l, "ok")>> :
        l \in {l \in Logs : Len(l) < MaxMessages},
        a \in {Whole1(l, o) : l \in Logs, o \in {"ok", "refused", "lost"}}
              \cup {[outcome |-> "ok", log |-> l, whole |-> Len(l) - 1, torn |-> TRUE] :
                       l \in {l \in Logs : l # <<>>}}}

D(columns, header, sz) == [columns |-> columns, hasHeader |-> header, size |-> sz]

TlmEntry == [name |-> "HK", decoders |-> (None :> D(<<"Payload.A", "Payload.B">>, TRUE, 20)),
             file |-> (None :> "HK")]

\* Function 1 is mapped to its bare payload, which has a member named like a
\* fixed column.
CmdEntry(default) ==
    [name |-> "CMD",
     decoders |-> (1 :> D(<<"Mode", "time">>, FALSE, 4)) @@ (None :> D(<<>>, TRUE, 8)),
     file |-> (None :> default) @@ (1 :> "CMD_fcn1")]

FcnEntry == [name |-> "FCN", decoders |-> (2 :> D(<<"Payload.X">>, TRUE, 12)),
             file |-> (None :> "FCN") @@ (2 :> "FCN_fcn2")]

Id(k) == MsgId(Message[k])

\* With a clash the command's name reads as the telemetry's once safe_name()
\* has replaced what a file name cannot hold.
MCDictionaries ==
    {(Id("tlm") :> TlmEntry)
       @@ (Id("set") :> CmdEntry(IF clash THEN "HK" ELSE "CMD"))
       @@ (Id("fcnOnly") :> FcnEntry) : clash \in Clashes}

All == [all |-> TRUE, names |-> {}, ids |-> {}]
OnlyCmd == [all |-> FALSE, names |-> {"CMD"}, ids |-> {Id("other")}]

\* --only and --format do not meet in the code, so JSON is run without --only.
MCOptions == {[raw |-> raw, epoch |-> raw, wanted |-> w, format |-> f] :
                 raw \in BOOLEAN, w \in {All, OnlyCmd}, f \in Formats \ {"jsonl"}}
               \cup {[raw |-> raw, epoch |-> raw, wanted |-> All, format |-> f] :
                       raw \in BOOLEAN, f \in Formats \ {"csv"}}

MCRawFile == [m \in {MsgId(Message[k]) : k \in DOMAIN Message} |-> ToString(m)]
============================================================================
