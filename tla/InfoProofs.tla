----------------------------- MODULE InfoProofs -----------------------------
(***************************************************************************)
(* Proofs about a run of info: for all input files and wherever its reader *)
(* stops, its reports are those of the files, and its exit status says     *)
(* what happened.                                                          *)
(***************************************************************************)
EXTENDS Info, FiniteSetTheorems, TLAPS

\* The files before the one that is read, if one is.
Passed == IF pc \in {"opening", "packets"} THEN fileNo - 1 ELSE fileNo

\* The entries of by_msgid are made of numbers.
Entries == [packets : Nat, low : Nat, high : Nat]

\* What the run is given stays as it was given, and every file has a message
\* for each position it holds whole.
Given ==
    /\ inputs \in Inputs /\ types \in TypeFiles /\ json \in BOOLEAN
    /\ fileNo \in 0 .. Len(inputs)
    /\ failures \in Nat
    /\ attended \in BOOLEAN
    /\ exit \in {Running, 0, 1, EXIT_BROKEN_PIPE}
    /\ pc \in {"types", "next", "opening", "packets", "printing", "exited"}
    /\ status \in {"opening", "reading", "refused", "ended"}

\* The file being read is one of the input files, and what was read of it is
\* the first messages of its log, counted.
InFile ==
    /\ log \in Seq(Packet) /\ delivered \in Seq(Packet)
    /\ pc \in {"opening", "packets"} =>
          /\ fileNo \in 1 .. Len(inputs)
          /\ log = inputs[fileNo].log
          /\ whole = 1 .. inputs[fileNo].whole
          /\ torn = inputs[fileNo].torn
          /\ ~cut
    /\ pc = "opening" => delivered = <<>> /\ counts = <<>>
    /\ pc = "packets" =>
          /\ ~inputs[fileNo].refused
          /\ Len(delivered) <= inputs[fileNo].whole
          /\ \A i \in 1 .. Len(delivered) : delivered[i] = log[i]
          /\ counts \in [DOMAIN counts -> Entries]
          /\ Counted(counts, delivered)

\* A report is that of its file.
Faithful(report) ==
    LET file == inputs[report.file]
        read == SubSeq(file.log, 1, file.whole)
    IN  /\ report.packets = Len(read)
        /\ report.truncated = file.torn
        /\ Counted(report.byMsgId, read)

\* The files passed have a report or a failure, in their order.
Reported ==
    /\ \E S : reports \in Seq(S)
    /\ \A r \in DOMAIN reports : Faithful(reports[r])
    /\ {reports[r].file : r \in DOMAIN reports} = {f \in 1 .. Passed : ~inputs[f].refused}
    /\ \A r, q \in DOMAIN reports : r < q => reports[r].file < reports[q].file
    /\ (\E f \in 1 .. Passed : inputs[f].refused) => failures > 0

\* Where the run is says what has been printed, and how it ended.
Printing ==
    /\ \E S : printed \in Seq(S)
    /\ sent \in 0 .. Len(printed)
    /\ pc # "exited" => exit = Running
    /\ pc = "exited" => exit # Running
    /\ pc = "types" => fileNo = 0
    /\ pc \notin {"types", "exited"} => types # "unreadable"
    /\ pc \in {"printing", "exited"} /\ types # "unreadable" => fileNo = Len(inputs)
    /\ pc \notin {"printing", "exited"} => printed = <<>>
    /\ Len(printed) <= Len(ToPrint)
    /\ \A i \in 1 .. Len(printed) : printed[i] = ToPrint[i]

\* How the run ended.
Ended ==
    /\ exit = 0 => Len(printed) = Len(ToPrint) /\ sent = Len(printed) /\ Status = 0 /\ types # "unreadable"
    /\ exit = 1 /\ types # "unreadable" => Status = 1
    /\ exit = EXIT_BROKEN_PIPE => ~attended

InfoInv == Given /\ InFile /\ Reported /\ Printing /\ Ended

-----------------------------------------------------------------------------
(* Counting.                                                                *)

\* A place more, or none, for a message more.
LEMMA PlacesOfOneMore ==
    ASSUME NEW s \in Seq(Packet), NEW p \in Packet, NEW m
    PROVE  Of(Append(s, p), m) = IF MsgId(p) = m THEN Of(s, m) \cup {Len(s) + 1} ELSE Of(s, m)
<1>1. /\ Append(s, p) \in Seq(Packet) /\ Len(s) \in Nat
      /\ DOMAIN s = 1 .. Len(s)
      /\ DOMAIN Append(s, p) = 1 .. Len(s) + 1
      /\ \A i \in 1 .. Len(s) : Append(s, p)[i] = s[i]
      /\ Append(s, p)[Len(s) + 1] = p
  OBVIOUS
<1>2. 1 .. Len(s) + 1 = (1 .. Len(s)) \cup {Len(s) + 1}
  BY <1>1
<1>3. QED BY <1>1, <1>2, Zenon DEF Of

\* The places of a message ID are finitely many, and one more message is one
\* place more for its own ID.
LEMMA PlacesAreFinite ==
    ASSUME NEW s \in Seq(Packet), NEW m
    PROVE  IsFiniteSet(Of(s, m)) /\ Cardinality(Of(s, m)) \in Nat
<1>1. IsFiniteSet(1 .. Len(s))
  BY FS_Interval
<1>2. Of(s, m) \subseteq 1 .. Len(s)
  BY DEF Of
<1>3. IsFiniteSet(Of(s, m))
  BY <1>1, <1>2, FS_Subset
<1>4. QED BY <1>3, FS_CardinalityType

LEMMA PlacesCounted ==
    ASSUME NEW s \in Seq(Packet), NEW p \in Packet, NEW m
    PROVE  Cardinality(Of(Append(s, p), m)) = Cardinality(Of(s, m)) + (IF MsgId(p) = m THEN 1 ELSE 0)
<1>1. Len(s) + 1 \notin Of(s, m)
  BY DEF Of
<1>2. Cardinality(Of(s, m) \cup {Len(s) + 1}) = Cardinality(Of(s, m)) + 1
  BY <1>1, PlacesAreFinite, FS_AddElement
<1>3. CASE MsgId(p) = m
  <2>1. Of(Append(s, p), m) = Of(s, m) \cup {Len(s) + 1}
    BY <1>3, PlacesOfOneMore
  <2>2. QED BY <2>1, <1>2, <1>3
<1>4. CASE MsgId(p) # m
  <2>1. Of(Append(s, p), m) = Of(s, m)
    BY <1>4, PlacesOfOneMore
  <2>2. Cardinality(Of(s, m)) \in Nat
    BY PlacesAreFinite
  <2>3. QED BY <2>1, <2>2, <1>4
<1>5. QED BY <1>3, <1>4

\* The lengths of one message ID.
Lengths(s, m) == {Total(s[i]) : i \in Of(s, m)}

LEMMA LengthsOfOneMore ==
    ASSUME NEW s \in Seq(Packet), NEW p \in Packet, NEW m
    PROVE  Lengths(Append(s, p), m) = IF MsgId(p) = m THEN Lengths(s, m) \cup {Total(p)} ELSE Lengths(s, m)
<1>1. Of(s, m) \subseteq 1 .. Len(s) /\ Len(s) \in Nat
  BY DEF Of
<1>2. /\ \A i \in 1 .. Len(s) : Append(s, p)[i] = s[i]
      /\ Append(s, p)[Len(s) + 1] = p
  OBVIOUS
<1>3. CASE MsgId(p) = m
  <2>1. Of(Append(s, p), m) = Of(s, m) \cup {Len(s) + 1}
    BY <1>3, PlacesOfOneMore
  <2>2. QED BY <2>1, <1>1, <1>2, <1>3 DEF Lengths
<1>4. CASE MsgId(p) # m
  <2>1. Of(Append(s, p), m) = Of(s, m)
    BY <1>4, PlacesOfOneMore
  <2>2. QED BY <2>1, <1>1, <1>2, <1>4 DEF Lengths
<1>5. QED BY <1>3, <1>4

LEMMA TotalIsNat ==
    ASSUME NEW p \in Packet
    PROVE  Total(p) \in Nat
<1>1. p.lenField \in Uint16
  BY DEF Packet
<1>2. Uint16 \subseteq Nat
  BY DEF Uint16, MAX_LENGTH_FIELD
<1>3. p.lenField \in Nat
  BY <1>1, <1>2
<1>4. QED BY <1>3 DEF Total

\* One message more widens an entry as far as it has to.
LEMMA WidenedEntry ==
    ASSUME NEW e \in Entries, NEW n \in Nat
    PROVE  /\ Widened(e, n) \in Entries
           /\ Widened(e, n).packets = e.packets + 1
           /\ Widened(e, n).low = Lesser(e.low, n)
           /\ Widened(e, n).high = Greater(e.high, n)
<1>1. e.packets \in Nat /\ e.low \in Nat /\ e.high \in Nat
  BY DEF Entries
<1>2. Lesser(e.low, n) \in Nat /\ Greater(e.high, n) \in Nat
  BY <1>1 DEF Lesser, Greater
<1>3. QED BY <1>1, <1>2 DEF Widened, Entries

\* Counting as the code does keeps the counts those of what was read.
LEMMA TallyCounts ==
    ASSUME NEW s \in Seq(Packet), NEW p \in Packet,
           NEW c, c \in [DOMAIN c -> Entries], Counted(c, s)
    PROVE  LET d == Tallied(c, p)
           IN  d \in [DOMAIN d -> Entries] /\ Counted(d, Append(s, p))
<1> DEFINE d == Tallied(c, p)
           ids(t) == {MsgId(t[i]) : i \in DOMAIN t}
           right(e, t, m) == /\ e.packets = Cardinality(Of(t, m))
                             /\ e.low \in Lengths(t, m) /\ e.high \in Lengths(t, m)
                             /\ \A n \in Lengths(t, m) : e.low <= n /\ n <= e.high
<1>1. Total(p) \in Nat /\ \A m : \A n \in Lengths(s, m) : n \in Nat
  <2>1. \A q \in Packet : Total(q) \in Nat
    BY TotalIsNat
  <2>2. \A m : \A i \in Of(s, m) : s[i] \in Packet
    BY DEF Of
  <2>3. QED BY <2>1, <2>2 DEF Lengths
<1>2. \A m : m \notin DOMAIN c => Of(s, m) = {} /\ Lengths(s, m) = {}
  BY DEF Counted, Of, Lengths
<1>3. \A m \in DOMAIN c : right(c[m], s, m) /\ c[m] \in Entries
  BY DEF Counted, Lengths
<1>4. DOMAIN d = DOMAIN c \cup {MsgId(p)}
  BY DEF Tallied
<1>5. ids(Append(s, p)) = ids(s) \cup {MsgId(p)}
  <2>1. /\ DOMAIN s = 1 .. Len(s) /\ Len(s) \in Nat
        /\ DOMAIN Append(s, p) = (1 .. Len(s)) \cup {Len(s) + 1}
        /\ \A i \in 1 .. Len(s) : Append(s, p)[i] = s[i]
        /\ Append(s, p)[Len(s) + 1] = p
    OBVIOUS
  <2>2. QED BY <2>1, Zenon
<1>6. ASSUME NEW m \in DOMAIN d PROVE d[m] \in Entries /\ right(d[m], Append(s, p), m)
  <2>1. CASE m # MsgId(p)
    <3>1. m \in DOMAIN c /\ d[m] = c[m]
      BY <2>1, <1>4, <1>6 DEF Tallied
    <3>2. Of(Append(s, p), m) = Of(s, m) /\ Lengths(Append(s, p), m) = Lengths(s, m)
      BY <2>1, PlacesOfOneMore, LengthsOfOneMore
    <3>3. QED BY <3>1, <3>2, <1>3
  <2>2. CASE m = MsgId(p) /\ m \in DOMAIN c
    <3>1. d[m] = Widened(c[m], Total(p))
      BY <2>2 DEF Tallied
    <3>2. c[m] \in Entries /\ right(c[m], s, m)
      BY <2>2, <1>3
    <3>3. /\ Cardinality(Of(Append(s, p), m)) = Cardinality(Of(s, m)) + 1
          /\ Lengths(Append(s, p), m) = Lengths(s, m) \cup {Total(p)}
      BY <2>2, PlacesCounted, LengthsOfOneMore
    <3>4. /\ d[m] \in Entries
          /\ d[m].packets = c[m].packets + 1
          /\ d[m].low = Lesser(c[m].low, Total(p))
          /\ d[m].high = Greater(c[m].high, Total(p))
      BY <3>1, <3>2, <1>1, WidenedEntry
    <3>5. d[m].packets = Cardinality(Of(Append(s, p), m))
      BY <3>2, <3>3, <3>4
    <3>6. /\ d[m].low \in Lengths(Append(s, p), m) /\ d[m].high \in Lengths(Append(s, p), m)
          /\ \A n \in Lengths(Append(s, p), m) : d[m].low <= n /\ n <= d[m].high
      <4>1. c[m].low \in Nat /\ c[m].high \in Nat /\ c[m].low <= c[m].high
        BY <3>2, <1>1 DEF Entries
      <4>2. /\ d[m].low \in {c[m].low, Total(p)} /\ d[m].low <= c[m].low /\ d[m].low <= Total(p)
            /\ d[m].high \in {c[m].high, Total(p)} /\ c[m].high <= d[m].high /\ Total(p) <= d[m].high
            /\ d[m].low \in Nat /\ d[m].high \in Nat
        BY <4>1, <3>4, <1>1 DEF Lesser, Greater
      <4>3. QED
        <5>1. /\ d[m].low \in Lengths(Append(s, p), m) /\ d[m].high \in Lengths(Append(s, p), m)
          BY <4>2, <3>2, <3>3
        <5>2. ASSUME NEW n \in Lengths(Append(s, p), m) PROVE d[m].low <= n /\ n <= d[m].high
          <6>1. CASE n = Total(p) BY <6>1, <4>2
          <6>2. CASE n \in Lengths(s, m)
            <7>1. c[m].low <= n /\ n <= c[m].high /\ n \in Nat BY <6>2, <3>2, <1>1
            <7>2. QED BY <7>1, <4>1, <4>2
          <6>3. QED BY <5>2, <6>1, <6>2, <3>3
        <5>3. QED BY <5>1, <5>2
    <3>7. QED BY <3>4, <3>5, <3>6
  <2>3. CASE m = MsgId(p) /\ m \notin DOMAIN c
    <3>1. d[m] = [packets |-> 1, low |-> Total(p), high |-> Total(p)]
      BY <2>3 DEF Tallied
    <3>2. Cardinality(Of(Append(s, p), m)) = 1
      <4>1. Cardinality(Of(s, m)) = 0
        BY <2>3, <1>2, FS_EmptySet
      <4>2. QED BY <4>1, <2>3, PlacesCounted
    <3>3. Lengths(Append(s, p), m) = {Total(p)}
      BY <2>3, <1>2, LengthsOfOneMore
    <3>4. QED BY <3>1, <3>2, <3>3, <1>1 DEF Entries
  <2>4. QED BY <1>4, <1>6, <2>1, <2>2, <2>3
<1>7. DOMAIN d = ids(Append(s, p))
  BY <1>4, <1>5 DEF Counted
<1>8. d \in [DOMAIN d -> Entries]
  <2>1. d = [m \in DOMAIN d |-> d[m]]
    BY <1>4 DEF Tallied
  <2> HIDE DEF d
  <2>2. QED BY <1>6, <2>1
<1>9. Counted(d, Append(s, p))
  BY <1>6, <1>7 DEF Counted, Lengths
<1>10. QED BY <1>8, <1>9
-----------------------------------------------------------------------------
(* Each step keeps the invariant.                                           *)

LEMMA InitInv == Init => InfoInv
<1> SUFFICES ASSUME Init PROVE InfoInv
  OBVIOUS
<1>1. inputs \in Inputs /\ inputs \in Seq(Input)
  BY InfoAssumption DEF Init
<1>2. Given
  BY <1>1 DEF Init, Given, Running
<1>3. InFile
  BY DEF Init, InFile
<1>4. Reported
  <2>1. reports = <<>> /\ Passed = 0 /\ failures = 0
    BY DEF Init, Passed
  <2>2. <<>> \in Seq({}) /\ DOMAIN <<>> = {}
    OBVIOUS
  <2>3. 1 .. Passed = {}
    BY <2>1
  <2>4. QED BY <2>1, <2>2, <2>3, Zenon DEF Reported
<1>5. Printing
  <2>1. printed = <<>> /\ sent = 0 /\ reports = <<>> /\ pc = "types" /\ fileNo = 0 /\ exit = Running
    BY DEF Init
  <2>2. <<>> \in Seq({}) /\ Len(<<>>) = 0
    OBVIOUS
  <2>3. Len(ToPrint) \in Nat
    BY <2>1 DEF ToPrint
  <2>4. QED BY <2>1, <2>2, <2>3 DEF Printing
<1>6. Ended
  BY DEF Init, Ended, Running, EXIT_BROKEN_PIPE
<1>7. QED BY <1>2, <1>3, <1>4, <1>5, <1>6 DEF InfoInv

\* What the run has found stays, while no file is passed.
LEMMA ReportedKept ==
    ASSUME Reported, UNCHANGED <<inputs, reports, failures>>, Passed' = Passed
    PROVE  Reported'
<1>1. \A r \in DOMAIN reports : Faithful(reports[r])'
  BY DEF Reported, Faithful
<1>2. (\E S : reports \in Seq(S))'
  BY DEF Reported
<1>3. {reports[r].file : r \in DOMAIN reports}' = {f \in 1 .. Passed' : ~inputs'[f].refused}
  BY DEF Reported
<1>4. (\A r, q \in DOMAIN reports : r < q => reports[r].file < reports[q].file)'
  BY DEF Reported
<1>5. (\E f \in 1 .. Passed : inputs[f].refused)' => failures' > 0
  BY DEF Reported
<1>6. QED BY <1>1, <1>2, <1>3, <1>4, <1>5 DEF Reported

\* So does what it has printed.
LEMMA PrintingKept ==
    ASSUME Printing, UNCHANGED <<types, json, reports, printed, sent, exit>>,
           pc \notin {"printing", "exited"}, pc' \notin {"types", "printing", "exited"},
           pc = "types" => types # "unreadable"
    PROVE  Printing'
<1>1. ToPrint' = ToPrint
  BY DEF ToPrint
<1>2. QED BY <1>1 DEF Printing

\* A file that is not being read is not looked at.
LEMMA InFileKept ==
    ASSUME InFile, UNCHANGED <<log, delivered>>, pc' \notin {"opening", "packets"}
    PROVE  InFile'
BY DEF InFile

LEMMA StopReadingKeeps == ASSUME InfoInv, StopReading PROVE InfoInv'
<1>1. Given'
  BY DEF InfoInv, Given, StopReading, given, reading, found
<1>2. InFile'
  <2>1. UNCHANGED <<inputs, pc, fileNo, log, whole, torn, cut, delivered, counts>>
    BY DEF StopReading, given, reading, found
  <2>2. QED BY <2>1 DEF InfoInv, InFile
<1>3. Reported'
  <2>1. Passed' = Passed
    BY DEF StopReading, Passed
  <2>2. QED BY <2>1, ReportedKept DEF InfoInv, StopReading, given, found
<1>4. Printing'
  <2>1. ToPrint' = ToPrint
    BY DEF StopReading, given, found, ToPrint
  <2>2. QED BY <2>1 DEF InfoInv, Printing, StopReading, given, output
<1>5. Ended'
  <2>1. ToPrint' = ToPrint /\ Status' = Status
    BY DEF StopReading, given, found, ToPrint, Status
  <2>2. QED BY <2>1 DEF InfoInv, Ended, StopReading, given, output
<1>6. QED BY <1>1, <1>2, <1>3, <1>4, <1>5 DEF InfoInv

LEMMA LoadTypesKeeps == ASSUME InfoInv, LoadTypes PROVE InfoInv'
<1> USE DEF LoadTypes, given, reading, found, output, Exit, Traceback
<1>1. Given'
  BY DEF InfoInv, Given
<1>2. InFile'
  BY InFileKept DEF InfoInv
<1>3. Reported'
  <2>1. Passed' = Passed
    BY DEF Passed
  <2>2. QED BY <2>1, ReportedKept DEF InfoInv
<1>4. ToPrint' = ToPrint /\ exit = Running
  BY DEF ToPrint, InfoInv, Printing
<1>5. Printing'
  <2>1. CASE types # "unreadable"
    BY <2>1, <1>4, PrintingKept DEF InfoInv, Printing
  <2>2. CASE types = "unreadable"
    BY <2>2, <1>4 DEF InfoInv, Printing, Running
  <2>3. QED BY <2>1, <2>2
<1>6. Ended'
  BY <1>4 DEF Ended, Running, EXIT_BROKEN_PIPE
<1>7. QED BY <1>1, <1>2, <1>3, <1>5, <1>6 DEF InfoInv

LEMMA NextFileKeeps == ASSUME InfoInv, NextFile PROVE InfoInv'
<1> USE DEF NextFile, given, output
<1>1. /\ inputs \in Inputs /\ inputs \in Seq(Input) /\ fileNo' \in 1 .. Len(inputs)
      /\ fileNo \in Nat /\ fileNo' = fileNo + 1
  BY InfoAssumption DEF InfoInv, Given
<1>2. Given'
  BY <1>1 DEF InfoInv, Given
<1>3. InFile'
  <2>1. inputs[fileNo'].log \in Seq(Packet)
    <3>1. inputs[fileNo'] \in Input BY <1>1
    <3>2. QED BY <3>1 DEF Input
  <2>2. <<>> \in Seq(Packet)
    OBVIOUS
  <2>3. QED BY <1>1, <2>1, <2>2 DEF InFile
<1>4. Reported'
  <2>1. Passed' = Passed
    BY <1>1 DEF Passed
  <2>2. QED BY <2>1, ReportedKept DEF InfoInv
<1>5. Printing'
  BY PrintingKept DEF InfoInv
<1>6. Ended'
  <2>1. exit' = Running
    BY DEF InfoInv, Printing
  <2>2. QED BY <2>1 DEF Ended, Running, EXIT_BROKEN_PIPE
<1>7. QED BY <1>2, <1>3, <1>4, <1>5, <1>6 DEF InfoInv

\* What is known of the file that is being opened or read.
LEMMA TheFile ==
    ASSUME InfoInv, pc \in {"opening", "packets"}
    PROVE  /\ inputs \in Inputs /\ fileNo \in Nat \ {0} /\ fileNo \in DOMAIN inputs
           /\ log = inputs[fileNo].log /\ log \in Seq(Packet) /\ delivered \in Seq(Packet)
           /\ inputs[fileNo].whole \in Nat /\ inputs[fileNo].whole <= Len(log)
           /\ whole = 1 .. inputs[fileNo].whole
           /\ Passed = fileNo - 1
           /\ 1 .. fileNo = (1 .. Passed) \cup {fileNo}
           /\ exit = Running /\ printed = <<>>
<1>1. inputs \in Inputs /\ inputs \in Seq(Input) /\ fileNo \in 1 .. Len(inputs)
  BY InfoAssumption DEF InfoInv, Given, InFile
<1>2. inputs[fileNo] \in Input
  BY <1>1
<1>3. inputs[fileNo].whole \in Nat
  BY <1>2 DEF Input
<1>4. fileNo \in Nat \ {0} /\ fileNo \in DOMAIN inputs
  BY <1>1
<1>5. inputs[fileNo].whole <= Len(inputs[fileNo].log)
  BY <1>1, <1>4, InfoAssumption
<1>6. Passed = fileNo - 1 /\ 1 .. fileNo = (1 .. Passed) \cup {fileNo}
  BY <1>4 DEF Passed
<1>7. QED BY <1>1, <1>3, <1>4, <1>5, <1>6 DEF InfoInv, InFile, Printing

LEMMA FileRefusedKeeps == ASSUME InfoInv, FileRefused PROVE InfoInv'
<1> USE DEF FileRefused, given, output, R!Refuse
<1>1. pc = "opening" /\ pc' = "next" /\ inputs[fileNo].refused
      /\ UNCHANGED <<inputs, types, json, fileNo, log, delivered, counts, reports, printed, sent, attended, exit>>
      /\ failures' = failures + 1 /\ status' = "refused"
  OBVIOUS
<1> HIDE DEF FileRefused, R!Refuse
<1>2. Given'
  BY <1>1 DEF InfoInv, Given
<1>3. InFile'
  BY <1>1, InFileKept DEF InfoInv
<1>4. Reported'
  <2>1. Passed' = fileNo
    BY <1>1 DEF Passed
  <2>2. {f \in 1 .. Passed' : ~inputs'[f].refused} = {f \in 1 .. Passed : ~inputs[f].refused}
    BY <1>1, <2>1, TheFile
  <2>3. \A r \in DOMAIN reports : Faithful(reports[r])'
    BY <1>1 DEF InfoInv, Reported, Faithful
  <2>4. failures' > 0
    BY <1>1 DEF InfoInv, Given
  <2>5. QED BY <1>1, <2>2, <2>3, <2>4 DEF InfoInv, Reported
<1>5. Printing'
  BY <1>1, PrintingKept DEF InfoInv
<1>6. Ended'
  <2>1. exit' = Running BY <1>1, TheFile
  <2>2. QED BY <2>1 DEF Ended, Running, EXIT_BROKEN_PIPE
<1>7. QED BY <1>2, <1>3, <1>4, <1>5, <1>6 DEF InfoInv

LEMMA FileOpensKeeps == ASSUME InfoInv, FileOpens PROVE InfoInv'
<1>1. /\ pc = "opening" /\ pc' = "packets" /\ ~inputs[fileNo].refused /\ status' = "reading"
      /\ UNCHANGED <<inputs, types, json, fileNo, log, whole, torn, delivered, cut, counts, reports, failures,
                     printed, sent, attended, exit>>
  BY DEF FileOpens, given, output, found, R!Begin
<1>2. Given'
  BY <1>1 DEF InfoInv, Given
<1>3. InFile'
  <2>1. delivered = <<>> /\ counts = <<>>
    BY <1>1 DEF InfoInv, InFile
  <2>2. counts \in [DOMAIN counts -> Entries] /\ Counted(counts, delivered)
    BY <2>1 DEF Counted
  <2>3. Len(delivered) = 0 /\ 1 .. Len(delivered) = {}
    BY <2>1
  <2>4. Len(delivered) <= inputs[fileNo].whole
    BY <2>3, <1>1, TheFile
  <2>5. QED BY <1>1, <2>2, <2>3, <2>4 DEF InfoInv, InFile
<1>4. Reported'
  <2>1. Passed' = Passed BY <1>1 DEF Passed
  <2>2. QED BY <1>1, <2>1, ReportedKept DEF InfoInv
<1>5. Printing'
  BY <1>1, PrintingKept DEF InfoInv
<1>6. Ended'
  <2>1. exit' = Running BY <1>1, TheFile
  <2>2. QED BY <2>1 DEF Ended, Running, EXIT_BROKEN_PIPE
<1>7. QED BY <1>2, <1>3, <1>4, <1>5, <1>6 DEF InfoInv

LEMMA CountPacketKeeps == ASSUME InfoInv, CountPacket PROVE InfoInv'
<1> DEFINE n == Len(delivered) + 1
           p == log[n]
<1>1. /\ pc = "packets" /\ pc' = pc /\ n \in whole
      /\ delivered' = Append(delivered, p) /\ counts' = Tallied(counts, p)
      /\ UNCHANGED <<inputs, types, json, fileNo, log, whole, torn, status, cut, reports, failures,
                     printed, sent, attended, exit>>
  BY DEF CountPacket, given, output, R!Deliver, R!Next1
<1>2. Given'
  BY <1>1 DEF InfoInv, Given
<1>3. InFile'
  <2>1. n \in 1 .. Len(log) /\ n <= inputs[fileNo].whole /\ p \in Packet
    BY <1>1, TheFile
  <2>2. /\ delivered' \in Seq(Packet) /\ Len(delivered') = n
        /\ \A i \in 1 .. Len(delivered') : delivered'[i] = log[i]
    <3>1. delivered \in Seq(Packet) /\ \A i \in 1 .. Len(delivered) : delivered[i] = log[i]
      BY <1>1 DEF InfoInv, InFile
    <3>2. QED BY <1>1, <2>1, <3>1
  <2>3. counts' \in [DOMAIN counts' -> Entries] /\ Counted(counts, delivered)'
    <3>1. delivered \in Seq(Packet) /\ counts \in [DOMAIN counts -> Entries] /\ Counted(counts, delivered)
      BY <1>1 DEF InfoInv, InFile
    <3>2. LET d == Tallied(counts, p)
          IN  d \in [DOMAIN d -> Entries] /\ Counted(d, Append(delivered, p))
      BY <3>1, <2>1, TallyCounts
    <3>3. QED BY <1>1, <3>2
  <2>4. QED BY <1>1, <2>1, <2>2, <2>3 DEF InfoInv, InFile
<1>4. Reported'
  <2>1. Passed' = Passed BY <1>1 DEF Passed
  <2>2. QED BY <1>1, <2>1, ReportedKept DEF InfoInv
<1>5. Printing'
  BY <1>1, PrintingKept DEF InfoInv
<1>6. Ended'
  <2>1. exit' = Running BY <1>1, TheFile
  <2>2. QED BY <2>1 DEF Ended, Running, EXIT_BROKEN_PIPE
<1>7. QED BY <1>2, <1>3, <1>4, <1>5, <1>6 DEF InfoInv

LEMMA FileEndsKeeps == ASSUME InfoInv, FileEnds PROVE InfoInv'
<1> DEFINE file == inputs[fileNo]
           new  == [file |-> fileNo, packets |-> Len(delivered), truncated |-> cut', byMsgId |-> counts]
<1>1. /\ pc = "packets" /\ pc' = "next" /\ Len(delivered) + 1 \notin whole
      /\ cut' = torn /\ status' = "ended"
      /\ reports' = Append(reports, new)
      /\ UNCHANGED <<inputs, types, json, fileNo, log, whole, torn, delivered, counts, failures,
                     printed, sent, attended, exit>>
  BY DEF FileEnds, given, output, R!End, R!Next1
<1>2. /\ delivered \in Seq(Packet) /\ Len(delivered) <= file.whole /\ torn = file.torn /\ ~file.refused
      /\ \A i \in 1 .. Len(delivered) : delivered[i] = log[i]
      /\ Counted(counts, delivered)
  BY <1>1 DEF InfoInv, InFile
<1>3. Given'
  BY <1>1 DEF InfoInv, Given
<1>4. InFile'
  BY <1>1, InFileKept DEF InfoInv
<1>5. delivered = SubSeq(file.log, 1, file.whole)
  <2>1. Len(delivered) = file.whole
    BY <1>1, <1>2, TheFile
  <2>2. /\ SubSeq(log, 1, file.whole) \in Seq(Packet)
        /\ Len(SubSeq(log, 1, file.whole)) = file.whole
        /\ \A i \in 1 .. file.whole : SubSeq(log, 1, file.whole)[i] = log[i]
    <3>1. log \in Seq(Packet) /\ file.whole \in Nat /\ file.whole <= Len(log)
      BY <1>1, TheFile
    <3> HIDE DEF file
    <3>2. QED BY <3>1
  <2>3. delivered = SubSeq(log, 1, file.whole)
    <3> HIDE DEF file
    <3>1. QED BY <1>2, <2>1, <2>2
  <2>4. QED BY <1>1, <2>3, TheFile
<1>6. PICK S : reports \in Seq(S)
  BY DEF InfoInv, Reported
<1>7. /\ reports \in Seq(S \cup {new}) /\ reports' \in Seq(S \cup {new})
      /\ DOMAIN reports = 1 .. Len(reports) /\ Len(reports) \in Nat
      /\ DOMAIN reports' = DOMAIN reports \cup {Len(reports) + 1}
      /\ \A r \in DOMAIN reports : reports'[r] = reports[r]
      /\ reports'[Len(reports) + 1] = new
  <2> HIDE DEF new
  <2>1. reports \in Seq(S \cup {new})
    BY <1>6
  <2>2. QED BY <2>1, <1>1
<1>8. Reported'
  <2>1. Passed' = fileNo
    BY <1>1 DEF Passed
  <2>2. ASSUME NEW r \in DOMAIN reports' PROVE Faithful(reports[r])'
    <3>1. CASE r \in DOMAIN reports
      <4>1. Faithful(reports[r]) BY <3>1 DEF InfoInv, Reported
      <4>2. QED BY <4>1, <3>1, <1>1, <1>7 DEF Faithful
    <3>2. CASE r = Len(reports) + 1
      BY <3>2, <1>1, <1>2, <1>5, <1>7 DEF Faithful
    <3>3. QED BY <2>2, <3>1, <3>2, <1>7
  <2>3. {reports'[r].file : r \in DOMAIN reports'} = {f \in 1 .. Passed' : ~inputs'[f].refused}
    <3>1. {reports'[r].file : r \in DOMAIN reports'} = {reports[r].file : r \in DOMAIN reports} \cup {fileNo}
      <4> HIDE DEF new
      <4>1. new.file = fileNo BY DEF new
      <4>2. QED BY <1>7, <4>1
    <3>2. {f \in 1 .. fileNo : ~inputs[f].refused} = {f \in 1 .. Passed : ~inputs[f].refused} \cup {fileNo}
      BY <1>1, <1>2, TheFile
    <3>3. QED BY <3>1, <3>2, <2>1, <1>1 DEF InfoInv, Reported
  <2>4. \A r, q \in DOMAIN reports' : r < q => reports'[r].file < reports'[q].file
    <3>1. \A r \in DOMAIN reports : reports[r].file \in 1 .. Passed
      BY DEF InfoInv, Reported
    <3>2. \A r \in DOMAIN reports : reports[r].file < fileNo
      BY <3>1, <1>1, TheFile
    <3>3. new.file = fileNo
      OBVIOUS
    <3>4. \A r, q \in DOMAIN reports : r < q => reports[r].file < reports[q].file
      BY DEF InfoInv, Reported
    <3> HIDE DEF new
    <3>5. SUFFICES ASSUME NEW r \in DOMAIN reports', NEW q \in DOMAIN reports', r < q
                   PROVE  reports'[r].file < reports'[q].file
      OBVIOUS
    <3>6. r \in DOMAIN reports
      BY <3>5, <1>7
    <3>7. CASE q \in DOMAIN reports BY <3>4, <3>5, <3>6, <3>7, <1>7
    <3>8. CASE q = Len(reports) + 1 BY <3>2, <3>3, <3>6, <3>8, <1>7
    <3>9. QED BY <3>5, <3>7, <3>8, <1>7
  <2>5. (\E f \in 1 .. Passed' : inputs'[f].refused) => failures' > 0
    BY <2>1, <1>1, <1>2, TheFile DEF InfoInv, Reported
  <2>6. QED BY <1>7, <2>2, <2>3, <2>4, <2>5 DEF Reported
<1>9. Printing'
  <2>1. /\ exit = Running /\ printed = <<>> /\ fileNo \in Nat /\ sent = 0 /\ Len(printed) = 0
        /\ types # "unreadable"
    BY <1>1, TheFile DEF InfoInv, Printing
  <2>2. Len(ToPrint') \in Nat
    <3>1. Len(reports') \in Nat BY <1>7
    <3>2. Len(<<reports'>>) = 1 OBVIOUS
    <3>3. QED BY <3>1, <3>2 DEF ToPrint
  <2>3. <<>> \in Seq({}) /\ Len(<<>>) = 0
    OBVIOUS
  <2>4. QED BY <1>1, <2>1, <2>2, <2>3 DEF Printing
<1>10. Ended'
  <2>1. exit' = Running BY <1>1, TheFile
  <2>2. QED BY <2>1 DEF Ended, Running, EXIT_BROKEN_PIPE
<1>11. QED BY <1>3, <1>4, <1>8, <1>9, <1>10 DEF InfoInv

LEMMA StartPrintingKeeps == ASSUME InfoInv, StartPrinting PROVE InfoInv'
<1>1. /\ pc = "next" /\ pc' = "printing" /\ fileNo = Len(inputs)
      /\ UNCHANGED <<inputs, types, json, fileNo, log, delivered, status, reports, failures,
                     printed, sent, attended, exit>>
  BY DEF StartPrinting, given, output, found, reading
<1>2. Given'
  BY <1>1 DEF InfoInv, Given
<1>3. InFile'
  BY <1>1, InFileKept DEF InfoInv
<1>4. Reported'
  <2>1. Passed' = Passed BY <1>1 DEF Passed
  <2>2. QED BY <1>1, <2>1, ReportedKept DEF InfoInv
<1>5. Printing'
  <2>1. ToPrint' = ToPrint BY <1>1 DEF ToPrint
  <2>2. QED BY <1>1, <2>1 DEF InfoInv, Printing
<1>6. Ended'
  <2>1. exit' = Running BY <1>1 DEF InfoInv, Printing
  <2>2. QED BY <2>1 DEF Ended, Running, EXIT_BROKEN_PIPE
<1>7. QED BY <1>2, <1>3, <1>4, <1>5, <1>6 DEF InfoInv

LEMMA PrintReportKeeps == ASSUME InfoInv, PrintReport PROVE InfoInv'
<1> DEFINE n == Len(printed) + 1
<1>1. /\ pc = "printing" /\ pc' = "printing" /\ Len(printed) < Len(ToPrint)
      /\ printed' = Append(printed, ToPrint[n])
      /\ UNCHANGED <<inputs, types, json, fileNo, log, delivered, status, reports, failures,
                     sent, attended, exit>>
  BY DEF PrintReport, given, found, reading
<1>2. Given'
  BY <1>1 DEF InfoInv, Given
<1>3. InFile'
  BY <1>1, InFileKept DEF InfoInv
<1>4. Reported'
  <2>1. Passed' = Passed BY <1>1 DEF Passed
  <2>2. QED BY <1>1, <2>1, ReportedKept DEF InfoInv
<1>5. Printing'
  <2>1. ToPrint' = ToPrint BY <1>1 DEF ToPrint
  <2>2. PICK S : printed \in Seq(S)
    BY DEF InfoInv, Printing
  <2>3. /\ printed' \in Seq(S \cup {ToPrint[n]}) /\ Len(printed) \in Nat /\ Len(printed') = n
        /\ \A i \in 1 .. Len(printed) : printed'[i] = printed[i]
        /\ printed'[n] = ToPrint[n]
    <3>1. printed \in Seq(S \cup {ToPrint[n]})
      BY <2>2
    <3> DEFINE x == ToPrint[n]
    <3>2. printed \in Seq(S \cup {x}) /\ printed' = Append(printed, x)
      BY <3>1, <1>1
    <3>3. x = ToPrint[n] OBVIOUS
    <3> HIDE DEF x
    <3>4. QED BY <3>2, <3>3
  <2>4. Len(ToPrint) \in Nat
    <3>1. Len(reports) \in Nat BY DEF InfoInv, Reported
    <3>2. Len(<<reports>>) = 1 OBVIOUS
    <3>3. QED BY <3>1, <3>2 DEF ToPrint
  <2>5. \A i \in 1 .. n : printed'[i] = ToPrint[i]
    <3>1. \A i \in 1 .. n : i \in 1 .. Len(printed) \/ i = n
      BY <2>3
    <3>2. QED BY <3>1, <2>3 DEF InfoInv, Printing
  <2>6. n <= Len(ToPrint) /\ sent \in 0 .. n
    BY <1>1, <2>3, <2>4 DEF InfoInv, Printing
  <2> HIDE DEF n
  <2>7. QED BY <1>1, <2>1, <2>3, <2>5, <2>6 DEF InfoInv, Printing
<1>6. Ended'
  <2>1. exit' = Running BY <1>1 DEF InfoInv, Printing
  <2>2. QED BY <2>1 DEF Ended, Running, EXIT_BROKEN_PIPE
<1>7. QED BY <1>2, <1>3, <1>4, <1>5, <1>6 DEF InfoInv

LEMMA SpillKeeps == ASSUME InfoInv, Spill PROVE InfoInv'
<1>1. /\ pc = "printing" /\ pc' = "printing" /\ sent' = Len(printed)
      /\ UNCHANGED <<inputs, types, json, fileNo, log, delivered, status, reports, failures,
                     printed, attended, exit>>
  BY DEF Spill, given, found, reading
<1>2. Given'
  BY <1>1 DEF InfoInv, Given
<1>3. InFile'
  BY <1>1, InFileKept DEF InfoInv
<1>4. Reported'
  <2>1. Passed' = Passed BY <1>1 DEF Passed
  <2>2. QED BY <1>1, <2>1, ReportedKept DEF InfoInv
<1>5. Printing'
  <2>1. ToPrint' = ToPrint BY <1>1 DEF ToPrint
  <2>2. Len(printed) \in 0 .. Len(printed) BY DEF InfoInv, Printing
  <2>3. QED BY <1>1, <2>1, <2>2 DEF InfoInv, Printing
<1>6. Ended'
  <2>1. exit' = Running BY <1>1 DEF InfoInv, Printing
  <2>2. QED BY <2>1 DEF Ended, Running, EXIT_BROKEN_PIPE
<1>7. QED BY <1>2, <1>3, <1>4, <1>5, <1>6 DEF InfoInv

\* Both ways to end, by the status they end with.
LEMMA ExitKeeps ==
    ASSUME InfoInv, pc = "printing", pc' = "exited",
           UNCHANGED <<inputs, types, json, fileNo, log, delivered, status, reports, failures,
                       printed, sent, attended>>,
           \/ exit' = EXIT_BROKEN_PIPE /\ ~attended
           \/ exit' = Status /\ Len(printed) = Len(ToPrint) /\ ~Buffered
    PROVE  InfoInv'
<1>1. Status \in {0, 1}
  BY DEF Status
<1>2. Given'
  BY <1>1 DEF InfoInv, Given
<1>3. InFile'
  BY InFileKept DEF InfoInv
<1>4. Reported'
  <2>1. Passed' = Passed BY DEF Passed
  <2>2. QED BY <2>1, ReportedKept DEF InfoInv
<1>5. ToPrint' = ToPrint /\ Status' = Status
  BY DEF ToPrint, Status
<1>6. Printing'
  BY <1>1, <1>5 DEF InfoInv, Printing, Running, EXIT_BROKEN_PIPE
<1>7. Ended'
  <2>1. types # "unreadable" /\ sent \in 0 .. Len(printed) /\ Len(printed) \in Nat
    BY DEF InfoInv, Printing
  <2>2. CASE exit' = EXIT_BROKEN_PIPE /\ ~attended
    BY <2>2 DEF Ended, EXIT_BROKEN_PIPE
  <2>3. CASE exit' = Status /\ Len(printed) = Len(ToPrint) /\ ~Buffered
    BY <2>1, <2>3, <1>1, <1>5 DEF Ended, EXIT_BROKEN_PIPE, Buffered
  <2>4. QED BY <2>2, <2>3
<1>8. QED BY <1>2, <1>3, <1>4, <1>6, <1>7 DEF InfoInv

LEMMA BrokenPipeKeeps == ASSUME InfoInv, BrokenPipe PROVE InfoInv'
BY ExitKeeps DEF BrokenPipe, Exit, given, reading, found, output

LEMMA ReturnKeeps == ASSUME InfoInv, Return PROVE InfoInv'
BY ExitKeeps DEF Return, Exit, given, reading, found, output

LEMMA StutterKeeps == ASSUME InfoInv, UNCHANGED vars PROVE InfoInv'
<1>1. UNCHANGED <<inputs, types, json, pc, fileNo, log, whole, torn, delivered, status, cut, counts, reports,
                  failures, printed, sent, attended, exit>>
  BY DEF vars, given, reading, found, output
<1>2. Given'
  BY <1>1 DEF InfoInv, Given
<1>3. InFile'
  BY <1>1 DEF InfoInv, InFile
<1>4. Reported'
  <2>1. Passed' = Passed BY <1>1 DEF Passed
  <2>2. QED BY <1>1, <2>1, ReportedKept DEF InfoInv
<1>5. ToPrint' = ToPrint /\ Status' = Status
  BY <1>1 DEF ToPrint, Status
<1>6. Printing'
  BY <1>1, <1>5 DEF InfoInv, Printing
<1>7. Ended'
  BY <1>1, <1>5 DEF InfoInv, Ended
<1>8. QED BY <1>2, <1>3, <1>4, <1>6, <1>7 DEF InfoInv

-----------------------------------------------------------------------------

\* Whatever files the run is given, it is always as InfoInv says.
THEOREM InfoInvariance == Spec => []InfoInv
<1>1. Init => InfoInv
  BY InitInv
<1>2. InfoInv /\ [Next]_vars => InfoInv'
  <2> SUFFICES ASSUME InfoInv, [Next]_vars PROVE InfoInv'
    OBVIOUS
  <2>1. CASE LoadTypes BY <2>1, LoadTypesKeeps
  <2>2. CASE NextFile BY <2>2, NextFileKeeps
  <2>3. CASE FileRefused BY <2>3, FileRefusedKeeps
  <2>4. CASE FileOpens BY <2>4, FileOpensKeeps
  <2>5. CASE CountPacket BY <2>5, CountPacketKeeps
  <2>6. CASE FileEnds BY <2>6, FileEndsKeeps
  <2>7. CASE StartPrinting BY <2>7, StartPrintingKeeps
  <2>8. CASE PrintReport BY <2>8, PrintReportKeeps
  <2>9. CASE Spill BY <2>9, SpillKeeps
  <2>10. CASE BrokenPipe BY <2>10, BrokenPipeKeeps
  <2>11. CASE Return BY <2>11, ReturnKeeps
  <2>12. CASE StopReading BY <2>12, StopReadingKeeps
  <2>13. CASE UNCHANGED vars BY <2>13, StutterKeeps
  <2>14. QED
    BY <2>1, <2>2, <2>3, <2>4, <2>5, <2>6, <2>7, <2>8, <2>9, <2>10, <2>11, <2>12, <2>13 DEF Next, Program
<1>3. QED BY <1>1, <1>2, PTL DEF Spec

\* Every variable has its type throughout a run of info.
THEOREM InfoTypes == Spec => []TypeOK
<1>1. InfoInv => TypeOK
  BY DEF InfoInv, Given, InFile, Printing, TypeOK
<1>2. QED BY <1>1, InfoInvariance, PTL

\* A report counts the messages that were whole in its own file, and there is
\* one for each file that could be read, in the order given (cmd_info).
THEOREM ReportsAreTheLogs == Spec => []SummariesAreTheLogs
<1>1. InfoInv => SummariesAreTheLogs
  <2> SUFFICES ASSUME InfoInv PROVE SummariesAreTheLogs
    OBVIOUS
  <2>1. inputs \in Seq(Input)
    BY InfoAssumption DEF InfoInv, Given
  <2>2. pc = "packets" => Counted(counts, delivered)
    BY DEF InfoInv, InFile
  <2>3. \A r \in DOMAIN reports : Faithful(reports[r])
    BY DEF InfoInv, Reported
  <2>4. pc \in {"printing", "exited"} /\ types # "unreadable" =>
           {reports[r].file : r \in DOMAIN reports} = {f \in DOMAIN inputs : ~inputs[f].refused}
    <3>1. SUFFICES ASSUME pc \in {"printing", "exited"}, types # "unreadable"
                   PROVE  {reports[r].file : r \in DOMAIN reports} = {f \in DOMAIN inputs : ~inputs[f].refused}
      OBVIOUS
    <3>2. Passed = Len(inputs)
      BY <3>1 DEF InfoInv, Printing, Passed
    <3>3. DOMAIN inputs = 1 .. Passed
      BY <2>1, <3>2
    <3>4. QED BY <3>3 DEF InfoInv, Reported
  <2>5. \A r, q \in DOMAIN reports : r < q => reports[r].file < reports[q].file
    BY DEF InfoInv, Reported
  <2>6. QED BY <2>2, <2>3, <2>4, <2>5 DEF SummariesAreTheLogs, Faithful
<1>2. QED BY <1>1, InfoInvariance, PTL

\* The exit status of info says what happened, wherever its reader stopped.
THEOREM StatusIsRight == Spec => []StatusMeansWhatItSays
<1>1. InfoInv => StatusMeansWhatItSays
  <2> SUFFICES ASSUME InfoInv PROVE StatusMeansWhatItSays
    OBVIOUS
  <2>1. inputs \in Seq(Input) /\ inputs # <<>>
    BY InfoAssumption DEF InfoInv, Given
  <2>2. DOMAIN inputs = 1 .. Len(inputs) /\ 1 \in DOMAIN inputs
    BY <2>1
  <2>3. ASSUME exit \in {0, 1}, types # "unreadable"
        PROVE  /\ {reports[r].file : r \in DOMAIN reports} = {f \in DOMAIN inputs : ~inputs[f].refused}
               /\ (\E f \in DOMAIN inputs : inputs[f].refused) => failures > 0
    <3>1. pc = "exited"
      BY <2>3 DEF InfoInv, Printing, Running
    <3>2. Passed = Len(inputs)
      BY <2>3, <3>1 DEF InfoInv, Printing, Passed
    <3>3. QED BY <2>2, <3>2 DEF InfoInv, Reported
  <2>4. ASSUME exit = 0 PROVE \E f \in DOMAIN inputs : ~inputs[f].refused
    <3>1. types # "unreadable" /\ Status = 0
      BY <2>4 DEF InfoInv, Ended
    <3>2. CASE reports # <<>>
      <4>1. \E r : r \in DOMAIN reports
        <5>1. PICK S : reports \in Seq(S) BY DEF InfoInv, Reported
        <5>2. 1 \in DOMAIN reports BY <5>1, <3>2
        <5>3. QED BY <5>2
      <4>2. QED BY <4>1, <3>1, <2>3, <2>4
    <3>3. CASE reports = <<>>
      <4>1. ~(failures > 0) BY <3>1, <3>3 DEF Status
      <4>2. ~inputs[1].refused BY <4>1, <3>1, <2>2, <2>3, <2>4
      <4>3. QED BY <4>2, <2>2
    <3>4. QED BY <3>2, <3>3
  <2>5. ASSUME exit = 1, types # "unreadable" PROVE \A f \in DOMAIN inputs : inputs[f].refused
    <3>1. Status = 1
      BY <2>5 DEF InfoInv, Ended
    <3>2. reports = <<>>
      BY <3>1 DEF Status
    <3>3. {reports[r].file : r \in DOMAIN reports} = {}
      BY <3>2
    <3>4. QED BY <2>3, <2>5, <3>3
  <2>6. exit = 0 => /\ Len(printed) = Len(ToPrint) /\ sent = Len(printed)
                    /\ \A i \in DOMAIN printed : printed[i] = ToPrint[i]
    <3>1. DOMAIN printed = 1 .. Len(printed)
      BY DEF InfoInv, Printing
    <3>2. QED BY <3>1 DEF InfoInv, Printing, Ended
  <2>7. exit = EXIT_BROKEN_PIPE => ~attended
    BY DEF InfoInv, Ended
  <2>8. QED BY <2>4, <2>5, <2>6, <2>7 DEF StatusMeansWhatItSays
<1>2. QED BY <1>1, InfoInvariance, PTL
=============================================================================
