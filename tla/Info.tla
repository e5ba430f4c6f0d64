-------------------------------- MODULE Info --------------------------------
(***************************************************************************)
(* One run of "dsdecode info" (cli.py, main and cmd_info; dsfile.py,       *)
(* summarize): every file is summarised in turn, through the promise       *)
(* DsFile keeps (RecordedLog), and what was found is printed to a reader   *)
(* that may stop reading.  Printing fills a buffer, which goes out when    *)
(* it is full or when main flushes it.                                     *)
(***************************************************************************)
EXTENDS CcsdsPacket, FiniteSets, Sequences

CONSTANTS
    Inputs,     \* the sequences of input files a run may be given
    TypeFiles   \* what may come of --types: "none", "ok" or "unreadable"

Input == [refused : BOOLEAN, log : Seq(Packet), whole : Nat, torn : BOOLEAN]

ASSUME InfoAssumption ==
    /\ Inputs \subseteq Seq(Input) \ {<<>>}
    /\ \A fs \in Inputs : \A f \in DOMAIN fs : fs[f].whole <= Len(fs[f].log)
    /\ TypeFiles \subseteq {"none", "ok", "unreadable"}

VARIABLES
    inputs, types, json,                        \* what the run is given
    pc, fileNo,                                 \* where it is
    log, whole, torn, delivered, status, cut,   \* the file being read
    counts, reports, failures,                  \* what was found
    printed, sent,                              \* written, and gone out of it
    attended,                                   \* the reader still reads
    exit                                        \* the exit status

given == <<inputs, types, json>>
reading == <<log, whole, torn, delivered, status, cut>>
found == <<counts, reports, failures>>
output == <<printed, sent>>
vars == <<given, pc, fileNo, reading, found, output, attended, exit>>

R == INSTANCE RecordedLog

Running == -1
Traceback == 1
EXIT_BROKEN_PIPE == 141

Init ==
    /\ inputs \in Inputs /\ types \in TypeFiles /\ json \in BOOLEAN
    /\ pc = "types" /\ fileNo = 0
    /\ log = <<>> /\ whole = {} /\ torn = FALSE
    /\ delivered = <<>> /\ status = "opening" /\ cut = FALSE
    /\ counts = <<>> /\ reports = <<>> /\ failures = 0
    /\ printed = <<>> /\ sent = 0
    /\ attended = TRUE
    /\ exit = Running

\* The reader of the output stops, as "head" does.
StopReading ==
    /\ attended
    /\ attended' = FALSE
    /\ UNCHANGED <<given, pc, fileNo, reading, found, output, exit>>

Exit(code) == pc' = "exited" /\ exit' = code

LoadTypes ==
    /\ pc = "types"
    /\ IF types = "unreadable" THEN Exit(Traceback) ELSE pc' = "next" /\ UNCHANGED exit
    /\ UNCHANGED <<given, fileNo, reading, found, output, attended>>

-----------------------------------------------------------------------------

\* A bug: the counts go on from the file before.
NextFileCounting ==
    /\ pc = "next" /\ fileNo < Len(inputs)
    /\ fileNo' = fileNo + 1
    /\ log' = inputs[fileNo'].log
    /\ whole' = 1 .. inputs[fileNo'].whole
    /\ torn' = inputs[fileNo'].torn
    /\ delivered' = <<>> /\ status' = "opening" /\ cut' = FALSE
    /\ pc' = "opening"
    /\ UNCHANGED <<given, found, output, attended, exit>>

NextFile ==
    /\ pc = "next" /\ fileNo < Len(inputs)
    /\ fileNo' = fileNo + 1
    /\ log' = inputs[fileNo'].log
    /\ whole' = 1 .. inputs[fileNo'].whole
    /\ torn' = inputs[fileNo'].torn
    /\ delivered' = <<>> /\ status' = "opening" /\ cut' = FALSE
    /\ counts' = <<>>
    /\ pc' = "opening"
    /\ UNCHANGED <<given, reports, failures, output, attended, exit>>

FileRefused ==
    /\ pc = "opening" /\ inputs[fileNo].refused
    /\ R!Refuse
    /\ failures' = failures + 1
    /\ pc' = "next"
    /\ UNCHANGED <<given, fileNo, counts, reports, output, attended, exit>>

FileOpens ==
    /\ pc = "opening" /\ ~inputs[fileNo].refused
    /\ R!Begin
    /\ pc' = "packets"
    /\ UNCHANGED <<given, fileNo, found, output, attended, exit>>

Lesser(a, b) == IF a < b THEN a ELSE b
Greater(a, b) == IF a < b THEN b ELSE a

Widened(entry, length) ==
    [packets |-> entry.packets + 1, low |-> Lesser(entry.low, length), high |-> Greater(entry.high, length)]

Tallied(byMsgId, p) ==
    [m \in DOMAIN byMsgId \cup {MsgId(p)} |->
        CASE m # MsgId(p) -> byMsgId[m]
          [] m = MsgId(p) /\ m \in DOMAIN byMsgId -> Widened(byMsgId[m], Total(p))
          [] OTHER -> [packets |-> 1, low |-> Total(p), high |-> Total(p)]]

CountPacket ==
    /\ pc = "packets"
    /\ R!Deliver
    /\ counts' = Tallied(counts, log[Len(delivered) + 1])
    /\ UNCHANGED <<given, pc, fileNo, reports, failures, output, attended, exit>>

FileEnds ==
    /\ pc = "packets"
    /\ R!End
    /\ reports' = Append(reports, [file |-> fileNo, packets |-> Len(delivered), truncated |-> cut', byMsgId |-> counts])
    /\ pc' = "next"
    /\ UNCHANGED <<given, fileNo, counts, failures, output, attended, exit>>

-----------------------------------------------------------------------------

\* All reports at once as JSON, or each in turn.
ToPrint == IF json THEN <<reports>> ELSE reports

StartPrinting ==
    /\ pc = "next" /\ fileNo = Len(inputs)
    /\ pc' = "printing"
    /\ UNCHANGED <<given, fileNo, reading, found, output, attended, exit>>

PrintReport ==
    /\ pc = "printing" /\ Len(printed) < Len(ToPrint)
    /\ printed' = Append(printed, ToPrint[Len(printed) + 1])
    /\ UNCHANGED <<given, pc, fileNo, reading, found, sent, attended, exit>>

Buffered == sent < Len(printed)

\* A bug: what is still to be printed is taken to have gone out.
SpillAhead ==
    /\ pc = "printing" /\ Buffered /\ attended
    /\ sent' = Len(ToPrint)
    /\ UNCHANGED <<given, pc, fileNo, reading, found, printed, attended, exit>>

\* The buffer goes out because it is full, wherever the printing is.
Spill ==
    /\ pc = "printing" /\ Buffered /\ attended
    /\ sent' = Len(printed)
    /\ UNCHANGED <<given, pc, fileNo, reading, found, printed, attended, exit>>

\* A bug: what did not go out is tried again.
BrokenPipeRetried ==
    /\ pc = "printing" /\ Buffered /\ ~attended
    /\ UNCHANGED vars

\* Nobody reads what goes out: main says so, and what is left is thrown away.
BrokenPipe ==
    /\ pc = "printing" /\ Buffered /\ ~attended
    /\ Exit(EXIT_BROKEN_PIPE)
    /\ UNCHANGED <<given, fileNo, reading, found, output, attended>>

Status == IF failures > 0 /\ reports = <<>> THEN 1 ELSE 0

\* A bug: the status is returned with output still in the buffer.
ReturnUnflushed ==
    /\ pc = "printing" /\ Len(printed) = Len(ToPrint)
    /\ Exit(Status)
    /\ UNCHANGED <<given, fileNo, reading, found, output, attended>>

\* cmd_info returns, and main once the buffer is empty.
Return ==
    /\ pc = "printing" /\ Len(printed) = Len(ToPrint) /\ ~Buffered
    /\ Exit(Status)
    /\ UNCHANGED <<given, fileNo, reading, found, output, attended>>

-----------------------------------------------------------------------------

Program == \/ LoadTypes \/ NextFile \/ FileRefused \/ FileOpens \/ CountPacket \/ FileEnds
           \/ StartPrinting \/ PrintReport \/ Spill \/ BrokenPipe \/ Return

Next == Program \/ StopReading

\* The run is one sequential program; nothing says that its reader stops.
Spec == Init /\ [][Next]_vars /\ WF_vars(Program)

-----------------------------------------------------------------------------

\* Every variable has its type.
TypeOK ==
    /\ pc \in {"types", "next", "opening", "packets", "printing", "exited"}
    /\ fileNo \in 0 .. Len(inputs)
    /\ log \in Seq(Packet) /\ delivered \in Seq(Packet)
    /\ status \in {"opening", "reading", "refused", "ended"}
    /\ failures \in Nat
    /\ sent \in 0 .. Len(printed)
    /\ attended \in BOOLEAN
    /\ exit \in {Running, 0, 1, EXIT_BROKEN_PIPE}

\* The places of a log that hold a message ID.
Of(packets, m) == {i \in DOMAIN packets : MsgId(packets[i]) = m}

\* The counts of what was read, message ID by message ID.
Counted(byMsgId, packets) ==
    /\ DOMAIN byMsgId = {MsgId(packets[i]) : i \in DOMAIN packets}
    /\ \A m \in DOMAIN byMsgId :
          LET lengths == {Total(packets[i]) : i \in Of(packets, m)}
          IN  /\ byMsgId[m].packets = Cardinality(Of(packets, m))
              /\ byMsgId[m].low \in lengths /\ byMsgId[m].high \in lengths
              /\ \A n \in lengths : byMsgId[m].low <= n /\ n <= byMsgId[m].high

\* A report counts the messages that were whole in its own file, by message ID,
\* with their least and greatest length, and says whether the file was torn
\* after them; every file that could be read has one, in the order given
\* (summarize, cmd_info).
SummariesAreTheLogs ==
    /\ pc = "packets" => Counted(counts, delivered)
    /\ \A r \in DOMAIN reports :
          LET file == inputs[reports[r].file]
              read == SubSeq(file.log, 1, file.whole)
          IN  /\ reports[r].packets = Len(read)
              /\ reports[r].truncated = file.torn
              /\ Counted(reports[r].byMsgId, read)
    /\ pc \in {"printing", "exited"} /\ types # "unreadable" =>
          {reports[r].file : r \in DOMAIN reports} = {f \in DOMAIN inputs : ~inputs[f].refused}
    /\ \A r, q \in DOMAIN reports : r < q => reports[r].file < reports[q].file

\* A status of 0 says that every report went out, wherever the reader stopped,
\* one of 1 that no file could be read, and one of 141 that the reader did stop:
\* a reader that stops early is no failure of the files (main, cmd_info).
StatusMeansWhatItSays ==
    /\ exit = 0 => /\ Len(printed) = Len(ToPrint) /\ sent = Len(printed)
                   /\ \A i \in DOMAIN printed : printed[i] = ToPrint[i]
                   /\ \E f \in DOMAIN inputs : ~inputs[f].refused
    /\ exit = 1 /\ types # "unreadable" => \A f \in DOMAIN inputs : inputs[f].refused
    /\ exit = EXIT_BROKEN_PIPE => ~attended

\* The run comes to an end, whether or not anybody reads what it prints.
Terminates == <>(pc = "exited")
=============================================================================
