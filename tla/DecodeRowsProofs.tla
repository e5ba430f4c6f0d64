-------------------------- MODULE DecodeRowsProofs --------------------------
(***************************************************************************)
(* Proofs about what a decode run leaves behind: for all input files,      *)
(* dictionaries and options, in either format, every output file holds the *)
(* rows of the packets that go to it, in order, and the counts are those   *)
(* of the packets and of the rows.                                         *)
(***************************************************************************)
EXTENDS DecodeRunProofs, FiniteSetTheorems, FunctionTheorems

\* How many packets a file gives.
Held(f) == IF inputs[f].outcome = "ok" THEN inputs[f].whole ELSE 0

\* Where the run is in its input files.
Position ==
    /\ Place
    /\ fileNo \in 0 .. Len(inputs)
    /\ pc \in {"next", "opening", "packets", "reported", "aborted"}
    /\ status \in {"opening", "reading", "refused", "ended"}
    /\ torn \in BOOLEAN /\ cut \in BOOLEAN /\ closed \in BOOLEAN
    /\ pc \in {"opening", "packets"} =>
          /\ fileNo # 0
          /\ log = inputs[fileNo].log
          /\ whole = 1 .. inputs[fileNo].whole
          /\ torn = inputs[fileNo].torn
    /\ pc = "opening" => delivered = <<>>
    /\ pc = "packets" => /\ inputs[fileNo].outcome = "ok"
                         /\ Len(delivered) <= inputs[fileNo].whole
    /\ pc \notin {"opening", "packets"} =>
          Len(delivered) = IF fileNo = 0 THEN 0 ELSE Held(fileNo)
    /\ pc = "reported" => fileNo = Len(inputs)

-----------------------------------------------------------------------------
(* The packets of the input files.                                          *)

LEMMA InputFacts ==
    ASSUME inputs \in Inputs, NEW f \in 1 .. Len(inputs)
    PROVE  /\ inputs[f] \in Input /\ IsInput(inputs[f])
           /\ inputs[f].log \in Seq(Packet)
           /\ inputs[f].whole \in Nat /\ inputs[f].whole <= Len(inputs[f].log)
           /\ inputs[f].torn \in BOOLEAN
           /\ inputs[f].outcome \in {"ok", "refused", "lost"}
           /\ Held(f) \in Nat
<1>1. inputs \in Seq(Input)
  BY RunAssumption
<1>2. inputs[f] \in Input /\ IsInput(inputs[f])
  BY <1>1, RunAssumption
<1>3. QED BY <1>2 DEF Input, IsInput, Held

\* A file that was read to its end gave its whole packets.
LEMMA ReadPlaces ==
    ASSUME inputs \in Inputs, NEW f \in 1 .. Len(inputs)
    PROVE  ReadToTheEnd(f) = {<<f, i>> : i \in 1 .. Held(f)}
<1>1. inputs \in Seq(Input)
  BY RunAssumption
<1>2. f \in DOMAIN inputs /\ DOMAIN inputs[f].log = 1 .. Len(inputs[f].log)
  BY <1>1, InputFacts
<1>3. ASSUME NEW id
      PROVE  id \in Packets /\ id[1] = f <=> \E i \in 1 .. Len(inputs[f].log) : id = <<f, i>>
  BY <1>2 DEF Packets
<1>4. CASE inputs[f].outcome = "ok"
  <2>1. ASSUME NEW id
        PROVE  id \in ReadToTheEnd(f) <=> \E i \in 1 .. Held(f) : id = <<f, i>>
    BY <1>3, <1>4, InputFacts DEF ReadToTheEnd, Held
  <2>2. QED BY <2>1
<1>5. CASE inputs[f].outcome # "ok"
  <2>1. Held(f) = 0 /\ ReadToTheEnd(f) = {}
    BY <1>5 DEF Held, ReadToTheEnd
  <2>2. QED BY <2>1
<1>6. QED BY <1>4, <1>5

\* Every packet handled comes before the one the run is at.
LEMMA HandledBefore ==
    ASSUME Position
    PROVE  /\ \A id \in Handled : id \in Nat \X Nat /\ Earlier(id, Here)
           /\ Here \notin Handled
           /\ Here \in Nat \X Nat
<1>1. fileNo \in Nat /\ Len(delivered) \in Nat /\ fileNo <= Len(inputs) /\ inputs \in Inputs
  <2>1. inputs \in Seq(Input) /\ inputs \in Inputs /\ delivered \in Seq(Packet)
    BY RunAssumption DEF Position, Place
  <2>2. QED BY <2>1 DEF Position, Place
<1>2. ASSUME NEW f \in 1 .. fileNo - 1, NEW id \in ReadToTheEnd(f)
      PROVE  id \in Nat \X Nat /\ Earlier(id, Here)
  <2>1. f \in 1 .. Len(inputs)
    <3>1. Len(inputs) \in Nat
      BY RunAssumption, <1>1
    <3>2. QED BY <1>1, <3>1
  <2>2. PICK i \in 1 .. Held(f) : id = <<f, i>>
    BY <1>1, <2>1, ReadPlaces
  <2>3. i \in Nat
    BY <1>1, <2>1, InputFacts
  <2>4. f \in Nat /\ f < fileNo
    BY <1>1
  <2>5. QED BY <2>2, <2>3, <2>4 DEF Earlier, Here
<1>3. ASSUME NEW i \in 1 .. Len(delivered)
      PROVE  <<fileNo, i>> \in Nat \X Nat /\ Earlier(<<fileNo, i>>, Here)
  BY <1>1 DEF Earlier, Here
<1>4. ASSUME NEW id \in Handled
      PROVE  id \in Nat \X Nat /\ Earlier(id, Here)
  <2>1. \/ \E f \in 1 .. fileNo - 1 : id \in ReadToTheEnd(f)
        \/ \E i \in 1 .. Len(delivered) : id = <<fileNo, i>>
    BY DEF Handled
  <2>2. QED BY <1>2, <1>3, <2>1
<1>5. Here \in Nat \X Nat /\ ~Earlier(Here, Here)
  BY <1>1 DEF Here, Earlier
<1>6. QED BY <1>4, <1>5

-----------------------------------------------------------------------------
(* Where the run goes.                                                      *)

LEMMA PositionInit == Init => Position
<1> SUFFICES ASSUME Init PROVE Position
  OBVIOUS
<1>1. Place
  BY PlaceInit
<1>2. inputs \in Seq(Input)
  BY <1>1, RunAssumption DEF Place
<1>3. Len(inputs) \in Nat
  BY <1>2
<1>4. fileNo = 0 /\ pc = "next" /\ status = "opening" /\ torn = FALSE /\ cut = FALSE /\ closed = FALSE
  BY DEF Init, S!SinkInit
<1>5. Len(delivered) = 0
  BY DEF Init
<1>6. fileNo \in 0 .. Len(inputs)
  BY <1>3, <1>4
<1>7. QED BY <1>1, <1>4, <1>5, <1>6 DEF Position

LEMMA PositionKept == Position /\ [Next]_vars => Position'
<1> SUFFICES ASSUME Position, [Next]_vars PROVE Position'
  OBVIOUS
<1> USE DEF given, reading, counts
<1>1. Place' /\ inputs \in Inputs /\ Len(inputs) \in Nat /\ fileNo \in 0 .. Len(inputs)
  <2>1. inputs \in Seq(Input)
    BY RunAssumption DEF Position, Place
  <2>2. QED BY <2>1, PlaceKept DEF Position, Place
<1>2. CASE NextFile
  <2>1. fileNo + 1 \in 1 .. Len(inputs) /\ fileNo' = fileNo + 1 /\ inputs' = inputs
    BY <1>1, <1>2 DEF NextFile
  <2> DEFINE f == inputs[fileNo + 1]
  <2>2. f.torn \in BOOLEAN
    BY <1>1, <2>1, InputFacts
  <2>3. /\ log' = f.log /\ whole' = 1 .. f.whole /\ torn' = f.torn /\ delivered' = <<>>
        /\ status' = "opening" /\ cut' = FALSE /\ pc' = "opening" /\ closed' = closed
    BY <1>2, <2>1 DEF NextFile
  <2> HIDE DEF f
  <2>4. fileNo' # 0 /\ fileNo' \in 0 .. Len(inputs)' /\ inputs'[fileNo'] = f
    BY <1>1, <2>1 DEF f
  <2>5. QED BY <1>1, <2>2, <2>3, <2>4 DEF Position
<1>3. CASE FileRefused \/ FileLost
  <2>1. /\ UNCHANGED <<inputs, fileNo, log, whole, torn, delivered, cut>>
        /\ pc = "opening" /\ Outcome # "ok"
        /\ pc' \in {"next", "aborted"} /\ status' = "refused" /\ closed' \in BOOLEAN
    BY <1>3 DEF FileRefused, FileLost, R!Refuse, S!Close, Position
  <2>2. Len(delivered) = 0 /\ Held(fileNo)' = 0 /\ fileNo # 0
    BY <2>1 DEF Position, Held, Outcome
  <2>3. QED BY <1>1, <2>1, <2>2 DEF Position
<1>4. CASE FileOpens
  <2>1. /\ UNCHANGED <<inputs, fileNo, log, whole, torn, delivered, cut, closed>>
        /\ pc = "opening" /\ Outcome = "ok" /\ pc' = "packets" /\ status' = "reading"
    BY <1>4 DEF FileOpens, R!Begin
  <2>2. Len(delivered) = 0 /\ fileNo # 0 /\ inputs[fileNo].whole \in Nat
    BY <1>1, <2>1, InputFacts DEF Position
  <2>3. QED BY <1>1, <2>1, <2>2 DEF Position, Outcome
<1>5. CASE HandlePacket
  <2>1. /\ UNCHANGED <<inputs, fileNo, log, whole, torn, cut>>
        /\ pc = "packets" /\ status' = status
        /\ Len(delivered) + 1 \in whole
        /\ delivered' = Append(delivered, log[Len(delivered) + 1])
    BY <1>5 DEF HandlePacket, R!Deliver, R!Next1
  <2>2. pc' = "packets" /\ closed' = closed
    <3> DEFINE p == log[Len(delivered) + 1]
    <3>1. Unmapped(p) \/ Unwanted(p) \/ NoDecoder(p) \/ Decode(p)
      BY <1>5 DEF HandlePacket
    <3> HIDE DEF p
    <3>2. QED BY <2>1, <3>1 DEF Unmapped, Unwanted, NoDecoder, Decode, WriteRow, S!Write
  <2>3. delivered \in Seq(Packet)
    BY DEF Position, Place
  <2>4. Len(delivered') = Len(delivered) + 1
    BY <2>1, <2>3
  <2>5. Len(delivered') <= inputs[fileNo].whole
    BY <1>1, <2>1, <2>3, <2>4, InputFacts DEF Position
  <2>6. QED BY <1>1, <2>1, <2>2, <2>5 DEF Position
<1>6. CASE FileEnds
  <2>1. /\ UNCHANGED <<inputs, fileNo, log, whole, torn, delivered, closed>>
        /\ pc = "packets" /\ pc' = "next" /\ status' = "ended" /\ cut' = torn
        /\ Len(delivered) + 1 \notin whole
    BY <1>6 DEF FileEnds, R!End, R!Next1
  <2>2. Len(delivered) = Held(fileNo)
    <3>1. delivered \in Seq(Packet) /\ inputs[fileNo].whole \in Nat
      BY <1>1, <2>1, InputFacts DEF Position, Place
    <3>2. Len(delivered) = inputs[fileNo].whole
      BY <2>1, <3>1 DEF Position
    <3>3. QED BY <2>1, <3>2 DEF Position, Held
  <2>3. Held(fileNo)' = Held(fileNo)
    BY <2>1 DEF Held
  <2>4. QED BY <1>1, <2>1, <2>2, <2>3 DEF Position
<1>7. CASE Report
  <2>1. /\ UNCHANGED <<inputs, fileNo, reading>> /\ pc = "next" /\ pc' = "reported"
        /\ closed' = TRUE /\ fileNo = Len(inputs)
    BY <1>7 DEF Report, S!Close
  <2>2. Held(fileNo)' = Held(fileNo)
    BY <2>1 DEF Held
  <2>3. QED BY <1>1, <2>1, <2>2 DEF Position
<1>8. CASE UNCHANGED vars
  <2>1. Held(fileNo)' = Held(fileNo)
    BY <1>8 DEF vars, Held
  <2>2. QED BY <1>1, <1>8, <2>1 DEF vars, Position
<1>9. QED BY <1>2, <1>3, <1>4, <1>5, <1>6, <1>7, <1>8 DEF Next

\* What a packet of the input files is, and what is done with it, is settled by
\* what the run is given.
LEMMA FateStays ==
    ASSUME UNCHANGED given
    PROVE  /\ \A f : ReadToTheEnd(f)' = ReadToTheEnd(f)
           /\ \A id : PacketAt(id)' = PacketAt(id)
           /\ FileNames' = FileNames
<1>1. inputs' = inputs /\ dictionary' = dictionary
  BY DEF given
<1>2. Packets' = Packets
  BY <1>1 DEF Packets
<1>3. QED BY <1>1, <1>2 DEF ReadToTheEnd, PacketAt, FileNames

\* A file that is opened adds nothing to what was handled.
LEMMA HandledStays ==
    ASSUME Position, [Next]_vars, ~HandlePacket
    PROVE  Handled' = Handled
<1> USE DEF given, reading, counts
<1>1. CASE NextFile
  <2>1. /\ pc = "next" /\ fileNo < Len(inputs) /\ fileNo' = fileNo + 1 /\ delivered' = <<>>
        /\ UNCHANGED given
    BY <1>1 DEF NextFile
  <2>2. fileNo \in Nat /\ Len(inputs) \in Nat /\ inputs \in Inputs
    <3>1. inputs \in Seq(Input)
      BY RunAssumption DEF Position, Place
    <3>2. QED BY <3>1 DEF Position, Place
  <2>3. {<<fileNo', i>> : i \in 1 .. Len(delivered')} = {}
    BY <2>1
  <2>4. Handled' = UNION {ReadToTheEnd(f) : f \in 1 .. fileNo}
    <3>1. fileNo' - 1 = fileNo
      BY <2>1, <2>2
    <3>2. Handled' = (UNION {ReadToTheEnd(f)' : f \in 1 .. fileNo' - 1})
                       \cup {<<fileNo', i>> : i \in 1 .. Len(delivered')}
      BY DEF Handled
    <3>3. \A f : ReadToTheEnd(f)' = ReadToTheEnd(f)
      BY <2>1, FateStays
    <3>4. QED BY <2>3, <3>1, <3>2, <3>3
  <2>5. CASE fileNo = 0
    <3>1. Len(delivered) = 0
      BY <2>1, <2>5 DEF Position
    <3>2. 1 .. fileNo = {} /\ 1 .. fileNo - 1 = {} /\ 1 .. Len(delivered) = {}
      BY <2>5, <3>1
    <3>3. Handled = {}
      BY <3>2 DEF Handled
    <3>4. Handled' = {}
      BY <2>4, <3>2
    <3>5. QED BY <3>3, <3>4
  <2>6. CASE fileNo # 0
    <3>1. fileNo \in 1 .. Len(inputs) /\ Len(delivered) = Held(fileNo)
      BY <2>1, <2>2, <2>6 DEF Position
    <3>2. ReadToTheEnd(fileNo) = {<<fileNo, i>> : i \in 1 .. Len(delivered)}
      BY <2>2, <3>1, ReadPlaces
    <3>3. 1 .. fileNo = (1 .. fileNo - 1) \cup {fileNo}
      BY <2>2, <2>6
    <3>4. Handled' = (UNION {ReadToTheEnd(f) : f \in 1 .. fileNo - 1}) \cup ReadToTheEnd(fileNo)
      BY <2>4, <3>3
    <3>5. QED BY <3>2, <3>4 DEF Handled
  <2>7. QED BY <2>5, <2>6
<1>2. ASSUME UNCHANGED <<given, fileNo, delivered>>
      PROVE  Handled' = Handled
  BY <1>2, FateStays DEF Handled
<1>3. CASE FileRefused \/ FileLost \/ FileOpens \/ FileEnds
  BY <1>2, <1>3 DEF FileRefused, FileLost, FileOpens, FileEnds, R!Refuse, R!Begin, R!End
<1>4. CASE Report \/ UNCHANGED vars
  BY <1>2, <1>4 DEF Report, vars
<1>5. QED BY <1>1, <1>3, <1>4 DEF Next

\* The packet the run is at is that of its place, and handling it adds it.
LEMMA HandledGrows ==
    ASSUME Position, HandlePacket, NEW p, p = log[Len(delivered) + 1]
    PROVE  /\ Handled' = Handled \cup {Here}
           /\ PacketAt(Here) = p /\ p \in Packet /\ MsgId(p) \in DOMAIN RawFile
           /\ Unmapped(p) \/ Unwanted(p) \/ NoDecoder(p) \/ Decode(p)
           /\ UNCHANGED given
<1>1. /\ UNCHANGED given /\ fileNo' = fileNo /\ pc = "packets"
      /\ Len(delivered) + 1 \in whole
      /\ delivered' = Append(delivered, log[Len(delivered) + 1])
      /\ Unmapped(p) \/ Unwanted(p) \/ NoDecoder(p) \/ Decode(p)
  BY DEF HandlePacket, R!Deliver, R!Next1
<1>2. p \in Packet /\ MsgId(p) \in DOMAIN RawFile
  BY <1>1 DEF Position, Place
<1>3. PacketAt(Here) = p
  BY <1>1 DEF PacketAt, Here, Position
<1>4. Len(delivered') = Len(delivered) + 1 /\ Len(delivered) \in Nat
  BY <1>1, <1>2 DEF Position, Place
<1>5. 1 .. Len(delivered') = (1 .. Len(delivered)) \cup {Len(delivered) + 1}
  BY <1>4
<1>6. {<<fileNo, i>> : i \in 1 .. Len(delivered')}
        = {<<fileNo, i>> : i \in 1 .. Len(delivered)} \cup {Here}
  BY <1>5 DEF Here
<1>7. Handled' = (UNION {ReadToTheEnd(f) : f \in 1 .. fileNo - 1})
                   \cup {<<fileNo, i>> : i \in 1 .. Len(delivered')}
  BY <1>1, FateStays DEF Handled
<1>8. Handled' = Handled \cup {Here}
  BY <1>6, <1>7 DEF Handled
<1>9. QED BY <1>1, <1>2, <1>3, <1>8

-----------------------------------------------------------------------------
(* What a row looks like in its file.                                       *)

\* A column that occurs has a last place.
LEMMA LastPlace ==
    ASSUME NEW h, Len(h) \in Nat, NEW k \in 1 .. Len(h)
    PROVE  \E i \in 1 .. Len(h) : h[i] = h[k] /\ \A j \in 1 .. Len(h) : h[j] = h[k] => j <= i
<1> DEFINE T == {n \in Nat : n < Len(h) /\ h[Len(h) - n] = h[k]}
<1>1. Len(h) - k \in T /\ T \subseteq Nat
  <2>1. Len(h) \in Nat /\ Len(h) - k \in Nat /\ Len(h) - k < Len(h) /\ Len(h) - (Len(h) - k) = k
    OBVIOUS
  <2>2. QED BY <2>1
<1>2. \E m \in T : \A n \in T : ~ <<n, m>> \in OpToRel(<, Nat)
  BY <1>1, WFMin, NatLessThanWellFounded
<1>3. PICK m \in T : \A n \in T : ~(n < m)
  BY <1>1, <1>2 DEF OpToRel
<1>4. /\ Len(h) \in Nat /\ m \in Nat /\ Len(h) - m \in 1 .. Len(h)
      /\ h[Len(h) - m] = h[k]
  OBVIOUS
<1>5. ASSUME NEW j \in 1 .. Len(h), h[j] = h[k]
      PROVE  j <= Len(h) - m
  <2>1. Len(h) - j \in Nat /\ Len(h) - j < Len(h) /\ Len(h) - (Len(h) - j) = j
    BY <1>4
  <2>2. Len(h) - j \in T
    BY <1>5, <2>1
  <2>3. ~(Len(h) - j < m)
    BY <1>3, <2>2
  <2>4. QED BY <1>4, <2>3
<1>6. QED BY <1>4, <1>5

\* A record has the columns it was given, and under each the cell computed for
\* the last column of that name.
LEMMA RecordColumns ==
    ASSUME NEW h, NEW row, NEW rec, rec = S!Record(h, row),
           Len(h) \in Nat, DOMAIN h = 1 .. Len(h), DOMAIN row = 1 .. Len(h)
    PROVE  DOMAIN rec = {h[i] : i \in 1 .. Len(h)}
<1>1. DOMAIN h \cap DOMAIN row = 1 .. Len(h)
  OBVIOUS
<1>2. DOMAIN rec = {h[i] : i \in DOMAIN h \cap DOMAIN row}
  BY DEF S!Record
<1>3. QED BY <1>1, <1>2

LEMMA RecordCells ==
    ASSUME NEW h, NEW row, NEW rec, rec = S!Record(h, row),
           Len(h) \in Nat, DOMAIN h = 1 .. Len(h), DOMAIN row = 1 .. Len(h)
    PROVE  \A c \in DOMAIN rec : \E i \in 1 .. Len(h) :
              /\ h[i] = c /\ rec[c] = row[i]
              /\ \A j \in 1 .. Len(h) : h[j] = c => j <= i
<1> DEFINE P == DOMAIN h \cap DOMAIN row
           at(c) == CHOOSE i \in P : h[i] = c /\ \A j \in P : h[j] = c => j <= i
<1>1. P = 1 .. Len(h)
  OBVIOUS
<1>2. rec = [c \in {h[i] : i \in P} |-> row[at(c)]]
  BY DEF S!Record
<1>3. ASSUME NEW k \in P
      PROVE  /\ at(h[k]) \in P /\ h[at(h[k])] = h[k]
             /\ \A j \in P : h[j] = h[k] => j <= at(h[k])
  <2>1. k \in 1 .. Len(h)
    BY <1>1
  <2>2. \E i \in P : h[i] = h[k] /\ \A j \in P : h[j] = h[k] => j <= i
    BY <1>1, <2>1, LastPlace
  <2> HIDE DEF P
  <2>3. QED BY <2>2, Zenon
<1> HIDE DEF at, P
<1>4. QED BY <1>1, <1>2, <1>3

LEMMA HeadStays ==
    ASSUME NEW A, NEW s \in Seq(A), NEW t \in Seq(A), Len(s) >= 1
    PROVE  s \o t \in Seq(A) /\ Len(s \o t) >= 1 /\ (s \o t)[1] = s[1]
<1>1. s \o t \in Seq(A) /\ Len(s \o t) = Len(s) + Len(t) /\ Len(s) \in Nat /\ Len(t) \in Nat
  OBVIOUS
<1>2. 1 \in 1 .. Len(s) /\ 1 \in 1 .. Len(s) + Len(t)
  BY <1>1
<1>3. (s \o t)[1] = s[1]
  BY <1>2
<1>4. QED BY <1>1, <1>3

\* Every row begins with the file it is from.
LEMMA FirstColumn ==
    ASSUME NEW fcn, NEW g \in Seq(Column)
    PROVE  /\ Fixed(fcn) \o g \in Seq(Column)
           /\ Len(Fixed(fcn) \o g) >= 1
           /\ (Fixed(fcn) \o g)[1] = "file"
<1> DEFINE a == IF options.epoch THEN <<"time_utc">> ELSE <<>>
           b == IF fcn # None THEN <<"fcn_code">> ELSE <<>>
<1>1. /\ FIXED_COLUMNS \in Seq(Column) /\ Len(FIXED_COLUMNS) >= 1 /\ FIXED_COLUMNS[1] = "file"
  BY DEF FIXED_COLUMNS, Column
<1>2. a \in Seq(Column) /\ b \in Seq(Column)
  <2>1. <<"time_utc">> \in Seq(Column) /\ <<"fcn_code">> \in Seq(Column) /\ <<>> \in Seq(Column)
    BY DEF Column
  <2>2. a \in {<<"time_utc">>, <<>>} /\ b \in {<<"fcn_code">>, <<>>}
    OBVIOUS
  <2> HIDE DEF a, b
  <2>3. QED BY <2>1, <2>2
<1>3. Fixed(fcn) = FIXED_COLUMNS \o a \o b
  BY DEF Fixed
<1> HIDE DEF a, b
<1>4. /\ FIXED_COLUMNS \o a \in Seq(Column) /\ Len(FIXED_COLUMNS \o a) >= 1
      /\ (FIXED_COLUMNS \o a)[1] = "file"
  BY <1>1, <1>2, HeadStays, Zenon
<1>5. Fixed(fcn) \in Seq(Column) /\ Len(Fixed(fcn)) >= 1 /\ Fixed(fcn)[1] = "file"
  BY <1>2, <1>3, <1>4, HeadStays
<1>6. QED BY <1>5, HeadStays

\* Every file is one of rows, each of a packet.
Recorded ==
    \A n \in DOMAIN files :
        /\ \E A : files[n] \in [columns : Seq(Column), rows : Seq(A)]
        /\ Ids(n) \in Seq(Nat \X Nat)

\* A packet's row is known as the packet's, in either format.
LEMMA RowIsHere ==
    ASSUME Position, NEW f \in Seq(Column), NEW g \in Seq(Column),
           Len(f \o g) >= 1, (f \o g)[1] = "file"
    PROVE  IdOf(S!Render(options.format, f \o g, Cells(f, g))) = Here
<1> DEFINE h == f \o g
           row == Cells(f, g)
<1>1. h \in Seq(Column) /\ row \in Seq(Cell) /\ Len(row) = Len(h) /\ Len(h) \in Nat
  BY CellsStand DEF Position
<1>2. \A j \in 1 .. Len(h) : row[j].of = Here
  BY DEF Cells
<1>3. 1 \in 1 .. Len(h) /\ h[1] = "file"
  BY <1>1
<1> HIDE DEF h, row
<1>4. CASE options.format = "csv"
  BY <1>2, <1>3, <1>4 DEF IdOf, S!Render, h, row
<1>5. CASE options.format # "csv"
  <2>1. Len(h) \in Nat /\ DOMAIN h = 1 .. Len(h) /\ DOMAIN row = 1 .. Len(h)
    BY <1>1
  <2> DEFINE rec == S!Record(h, row)
  <2>2. rec = S!Record(h, row)
    OBVIOUS
  <2> HIDE DEF rec
  <2>3. DOMAIN rec = {h[i] : i \in 1 .. Len(h)}
    BY <2>1, <2>2, RecordColumns
  <2>4. \A c \in DOMAIN rec : \E i \in 1 .. Len(h) : h[i] = c /\ rec[c] = row[i]
    BY <2>1, <2>2, RecordCells
  <2>5. "file" \in DOMAIN rec
    BY <1>3, <2>3
  <2>6. rec["file"].of = Here
    BY <1>2, <2>4, <2>5
  <2>7. QED BY <1>5, <2>6 DEF IdOf, S!Render, h, row, rec
<1>6. QED BY <1>4, <1>5

\* How a row is known is settled by the format.
LEMMA IdStays ==
    ASSUME UNCHANGED given
    PROVE  \A row : IdOf(row)' = IdOf(row)
BY DEF IdOf, given

\* A row more is one at the end of its file, and no other file changes.
LEMMA RowAdded ==
    ASSUME Position, Recorded, NEW name, NEW f \in Seq(Column), NEW g \in Seq(Column),
           Len(f \o g) >= 1, (f \o g)[1] = "file", WriteRow(name, f, g), UNCHANGED given
    PROVE  /\ Recorded'
           /\ DOMAIN files' = DOMAIN files \cup {name}
           /\ \A n \in DOMAIN files : n # name => files'[n] = files[n]
           /\ files'[name].rows = Append(S!Opened(name, f \o g).rows, S!Render(options.format, f \o g, Cells(f, g)))
           /\ \A n : Ids(n)' = IF n = name THEN Append(Ids(n), Here) ELSE Ids(n)
<1> DEFINE rendered == S!Render(options.format, f \o g, Cells(f, g))
           file == S!Opened(name, f \o g)
<1>1. IdOf(rendered) = Here /\ Here \in Nat \X Nat
  BY RowIsHere, HandledBefore
<1>2. files' = [n \in DOMAIN files \cup {name} |->
                  IF n = name THEN [file EXCEPT !.rows = Append(@, rendered)] ELSE files[n]]
  BY DEF WriteRow, S!Write
<1>3. /\ \E A : file \in [columns : Seq(Column), rows : Seq(A)]
      /\ Ids(name) = [r \in DOMAIN file.rows |-> IdOf(file.rows[r])]
      /\ Ids(name) \in Seq(Nat \X Nat)
  <2>1. CASE name \in DOMAIN files
    BY <2>1 DEF S!Opened, Recorded, Ids
  <2>2. CASE name \notin DOMAIN files
    <3>1. file = [columns |-> f \o g, rows |-> <<>>] /\ Ids(name) = <<>>
      BY <2>2 DEF S!Opened, Ids
    <3>2. f \o g \in Seq(Column) /\ <<>> \in Seq(Nat \X Nat)
      OBVIOUS
    <3>3. file \in [columns : Seq(Column), rows : Seq({})]
      BY <3>1, <3>2
    <3>4. [r \in DOMAIN file.rows |-> IdOf(file.rows[r])] = <<>>
      BY <3>1
    <3>5. QED BY <3>1, <3>2, <3>3, <3>4
  <2>3. QED BY <2>1, <2>2
<1> HIDE DEF file, rendered
<1>4. PICK A : file \in [columns : Seq(Column), rows : Seq(A)]
  BY <1>3
<1> DEFINE rows == Append(file.rows, rendered)
<1>5. files'[name] = [columns |-> file.columns, rows |-> rows]
  BY <1>2, <1>4
<1>6. /\ rows \in Seq(A \cup {rendered}) /\ file.rows \in Seq(A)
      /\ DOMAIN rows = 1 .. Len(file.rows) + 1
      /\ \A r \in 1 .. Len(file.rows) : rows[r] = file.rows[r]
      /\ rows[Len(file.rows) + 1] = rendered
      /\ Len(file.rows) \in Nat
  BY <1>4
<1> HIDE DEF rows
<1>7. /\ DOMAIN files' = DOMAIN files \cup {name}
      /\ \A n \in DOMAIN files : n # name => files'[n] = files[n]
  BY <1>2
<1>8. \A n : n # name => Ids(n)' = Ids(n)
  <2>1. SUFFICES ASSUME NEW n, n # name PROVE Ids(n)' = Ids(n)
    OBVIOUS
  <2>2. CASE n \in DOMAIN files
    BY <1>7, <2>1, <2>2, IdStays DEF Ids
  <2>3. CASE n \notin DOMAIN files
    BY <1>7, <2>1, <2>3 DEF Ids
  <2>4. QED BY <2>2, <2>3
<1>9. [r \in DOMAIN rows |-> IdOf(rows[r])] = Append(Ids(name), Here)
  <2>1. Len(Ids(name)) = Len(file.rows) /\ DOMAIN Ids(name) = 1 .. Len(file.rows)
    BY <1>3, <1>6
  <2>2. \A r \in 1 .. Len(file.rows) : Ids(name)[r] = IdOf(file.rows[r])
    BY <1>3, <1>6
  <2> DEFINE ids == Append(Ids(name), Here)
  <2>3. /\ DOMAIN ids = 1 .. Len(file.rows) + 1
        /\ \A r \in 1 .. Len(file.rows) : ids[r] = Ids(name)[r]
        /\ ids[Len(file.rows) + 1] = Here
        /\ ids \in Seq(Nat \X Nat)
    BY <1>1, <1>3, <1>6, <2>1
  <2> HIDE DEF ids
  <2>4. \A r \in 1 .. Len(file.rows) + 1 : IdOf(rows[r]) = ids[r]
    <3>1. SUFFICES ASSUME NEW r \in 1 .. Len(file.rows) + 1 PROVE IdOf(rows[r]) = ids[r]
      OBVIOUS
    <3>2. CASE r = Len(file.rows) + 1
      BY <1>1, <1>6, <2>3, <3>2
    <3>3. CASE r \in 1 .. Len(file.rows)
      BY <1>6, <2>2, <2>3, <3>3
    <3>4. QED BY <1>6, <3>2, <3>3
  <2>5. ids = [r \in DOMAIN ids |-> ids[r]]
    BY <2>3
  <2>6. [r \in DOMAIN rows |-> IdOf(rows[r])] = ids
    BY <1>6, <2>3, <2>4, <2>5
  <2>7. QED BY <2>6 DEF ids
<1>10. Ids(name)' = Append(Ids(name), Here)
  <2>1. Ids(name)' = [r \in DOMAIN files'[name].rows |-> IdOf(files'[name].rows[r])]
    BY <1>7, IdStays DEF Ids
  <2>2. QED BY <1>5, <1>9, <2>1
<1>11. Recorded'
  <2>1. SUFFICES ASSUME NEW n \in DOMAIN files'
                 PROVE  /\ \E C : files'[n] \in [columns : Seq(Column), rows : Seq(C)]
                        /\ Ids(n)' \in Seq(Nat \X Nat)
    BY DEF Recorded
  <2>2. CASE n = name
    <3>1. files'[name] \in [columns : Seq(Column), rows : Seq(A \cup {rendered})]
      BY <1>4, <1>5, <1>6
    <3>2. Append(Ids(name), Here) \in Seq(Nat \X Nat)
      BY <1>1, <1>3
    <3>3. QED BY <1>10, <2>2, <3>1, <3>2
  <2>3. CASE n # name
    BY <1>7, <1>8, <2>3 DEF Recorded
  <2>4. QED BY <2>2, <2>3
<1>12. QED BY <1>5, <1>7, <1>8, <1>10, <1>11 DEF rows, file, rendered

-----------------------------------------------------------------------------
(* Every file holds the rows that go to it.                                 *)

\* Whether a packet of the input files is to have a row in a file.
Belongs(id, n) == GoesTo(PacketAt(id), n)

RowsInv ==
    \A n \in FileNames :
        /\ \A r \in 1 .. Len(Ids(n)) - 1 : Earlier(Ids(n)[r], Ids(n)[r + 1])
        /\ {Ids(n)[r] : r \in DOMAIN Ids(n)} = {id \in Handled : Belongs(id, n)}

LogInv == Position /\ Recorded /\ RowsInv

LEMMA BelongsStays ==
    ASSUME UNCHANGED given
    PROVE  \A id, n : Belongs(id, n)' <=> Belongs(id, n)
<1>1. inputs' = inputs /\ dictionary' = dictionary /\ options' = options
  BY DEF given
<1>2. SUFFICES ASSUME NEW id, NEW n
               PROVE  Belongs(id, n)' <=> Belongs(id, n)
  OBVIOUS
<1>3. PacketAt(id)' = PacketAt(id)
  BY <1>1 DEF PacketAt
<1> USE DEF GoesTo, Mapped, WantedMapped, WantedRaw, Wanted, Entry, HasDecoder, DecoderKey, OutputName
<1>4. Belongs(id, n)' <=> Belongs(id, n)
  BY <1>1, <1>3 DEF Belongs
<1>5. QED BY <1>4

\* What is done with a packet says where it belongs.
LEMMA WhereItGoes ==
    ASSUME NEW p, MsgId(p) \in DOMAIN RawFile, Place
    PROVE  /\ Unmapped(p) => \A n : GoesTo(p, n) <=> WantedRaw(p) /\ n = RawFile[MsgId(p)]
           /\ Decode(p) => \A n : GoesTo(p, n) <=> n = OutputName(p)
           /\ Unwanted(p) \/ NoDecoder(p) => \A n : ~GoesTo(p, n)
BY DEF Unmapped, Decode, Unwanted, NoDecoder, GoesTo

\* A file without a new row holds what goes to it still.
LEMMA FileKept ==
    ASSUME LogInv, UNCHANGED given, NEW n \in FileNames, Ids(n)' = Ids(n),
           \/ Handled' = Handled
           \/ Handled' = Handled \cup {Here} /\ ~Belongs(Here, n)
    PROVE  /\ \A r \in 1 .. Len(Ids(n)') - 1 : Earlier(Ids(n)'[r], Ids(n)'[r + 1])
           /\ {Ids(n)'[r] : r \in DOMAIN Ids(n)'} = {id \in Handled' : Belongs(id, n)'}
<1>1. /\ \A r \in 1 .. Len(Ids(n)) - 1 : Earlier(Ids(n)[r], Ids(n)[r + 1])
      /\ {Ids(n)[r] : r \in DOMAIN Ids(n)} = {id \in Handled : Belongs(id, n)}
  BY DEF LogInv, RowsInv
<1>2. {id \in Handled' : Belongs(id, n)'} = {id \in Handled : Belongs(id, n)}
  BY BelongsStays
<1>3. QED BY <1>1, <1>2

\* A file with a new row has it last, and for the packet the run was at.
LEMMA FileExtended ==
    ASSUME LogInv, UNCHANGED given, NEW n \in FileNames, Ids(n)' = Append(Ids(n), Here),
           Handled' = Handled \cup {Here}, Belongs(Here, n), Ids(n) \in Seq(Nat \X Nat)
    PROVE  /\ \A r \in 1 .. Len(Ids(n)') - 1 : Earlier(Ids(n)'[r], Ids(n)'[r + 1])
           /\ {Ids(n)'[r] : r \in DOMAIN Ids(n)'} = {id \in Handled' : Belongs(id, n)'}
<1> DEFINE ids == Ids(n)
           more == Append(ids, Here)
<1>1. /\ \A r \in 1 .. Len(ids) - 1 : Earlier(ids[r], ids[r + 1])
      /\ {ids[r] : r \in DOMAIN ids} = {id \in Handled : Belongs(id, n)}
      /\ ids \in Seq(Nat \X Nat)
  BY DEF LogInv, RowsInv
<1>2. Here \in Nat \X Nat /\ \A id \in Handled : Earlier(id, Here)
  BY HandledBefore DEF LogInv
<1> HIDE DEF ids
<1>3. /\ Len(more) = Len(ids) + 1 /\ Len(ids) \in Nat
      /\ DOMAIN ids = 1 .. Len(ids) /\ DOMAIN more = 1 .. Len(ids) + 1
      /\ \A r \in 1 .. Len(ids) : more[r] = ids[r]
      /\ more[Len(ids) + 1] = Here
  BY <1>1, <1>2
<1> HIDE DEF more
<1>4. \A r \in 1 .. Len(more) - 1 : Earlier(more[r], more[r + 1])
  <2>1. SUFFICES ASSUME NEW r \in 1 .. Len(ids) PROVE Earlier(more[r], more[r + 1])
    BY <1>3
  <2>2. CASE r = Len(ids)
    <3>1. ids[r] \in Handled
      BY <1>1, <1>3
    <3>2. QED BY <1>2, <1>3, <2>2, <3>1
  <2>3. CASE r # Len(ids)
    <3> DEFINE k == Len(ids)
    <3>1. k \in Nat /\ r \in 1 .. k /\ r # k
      BY <1>3, <2>3
    <3> HIDE DEF k
    <3>2. r \in 1 .. k - 1 /\ r + 1 \in 1 .. k
      BY <3>1
    <3>3. QED BY <1>1, <1>3, <3>2 DEF k
  <2>4. QED BY <2>2, <2>3
<1>5. {more[r] : r \in DOMAIN more} = {ids[r] : r \in DOMAIN ids} \cup {Here}
  <2>1. DOMAIN more = DOMAIN ids \cup {Len(ids) + 1}
    BY <1>3
  <2>2. QED BY <1>3, <2>1
<1>6. {id \in Handled' : Belongs(id, n)'} = {id \in Handled : Belongs(id, n)} \cup {Here}
  BY BelongsStays
<1>7. Ids(n)' = more
  BY DEF more, ids
<1>8. QED BY <1>1, <1>4, <1>5, <1>6, <1>7

LEMMA LogInit == Init => LogInv
<1> SUFFICES ASSUME Init PROVE LogInv
  OBVIOUS
<1>1. DOMAIN files = {} /\ delivered = <<>> /\ fileNo = 0
  BY DEF Init, S!SinkInit
<1>2. \A n : Ids(n) = <<>>
  BY <1>1 DEF Ids
<1>3. Handled = {}
  BY <1>1 DEF Handled
<1>4. RowsInv
  BY <1>2, <1>3 DEF RowsInv
<1>5. Recorded
  BY <1>1 DEF Recorded
<1>6. QED BY <1>4, <1>5, PositionInit DEF LogInv

\* Without a new row every file is as it was.
LEMMA RowsKept ==
    ASSUME LogInv, UNCHANGED <<given, files>>,
           \/ Handled' = Handled
           \/ Handled' = Handled \cup {Here} /\ \A n : ~Belongs(Here, n)
    PROVE  Recorded' /\ RowsInv'
<1>1. \A n : Ids(n)' = Ids(n)
  BY IdStays DEF Ids
<1>2. Recorded'
  BY <1>1 DEF LogInv, Recorded
<1>3. FileNames' = FileNames
  BY FateStays
<1>4. RowsInv'
  BY <1>1, <1>3, FileKept DEF RowsInv
<1>5. QED BY <1>2, <1>4

LEMMA RowsExtended ==
    ASSUME LogInv, UNCHANGED given, NEW name, NEW f \in Seq(Column), NEW g \in Seq(Column),
           Len(f \o g) >= 1, (f \o g)[1] = "file", WriteRow(name, f, g),
           Handled' = Handled \cup {Here}, \A n : Belongs(Here, n) <=> n = name
    PROVE  Recorded' /\ RowsInv'
<1>1. /\ Recorded'
      /\ \A n : Ids(n)' = IF n = name THEN Append(Ids(n), Here) ELSE Ids(n)
  BY RowAdded DEF LogInv
<1>2. SUFFICES ASSUME NEW n \in FileNames
               PROVE  /\ \A r \in 1 .. Len(Ids(n)') - 1 : Earlier(Ids(n)'[r], Ids(n)'[r + 1])
                      /\ {Ids(n)'[r] : r \in DOMAIN Ids(n)'} = {id \in Handled' : Belongs(id, n)'}
  BY <1>1, FateStays DEF RowsInv
<1>3. CASE n = name
  <2>1. Ids(n) \in Seq(Nat \X Nat)
    <3>1. CASE n \in DOMAIN files
      BY <3>1 DEF LogInv, Recorded
    <3>2. CASE n \notin DOMAIN files
      BY <3>2 DEF Ids
    <3>3. QED BY <3>1, <3>2
  <2>2. QED BY <1>1, <1>3, <2>1, FileExtended
<1>4. CASE n # name
  BY <1>1, <1>4, FileKept
<1>5. QED BY <1>3, <1>4

LEMMA LogStep == LogInv /\ [Next]_vars => LogInv'
<1> SUFFICES ASSUME LogInv, [Next]_vars PROVE LogInv'
  OBVIOUS
<1>1. Position /\ Position'
  BY PositionKept DEF LogInv
<1>2. CASE ~HandlePacket
  <2>1. Handled' = Handled
    BY <1>1, <1>2, HandledStays
  <2>2. UNCHANGED <<given, files>>
    BY <1>2 DEF Next, vars, given, NextFile, FileRefused, FileLost, FileOpens, FileEnds, Report, S!Close
  <2>3. QED BY <1>1, <2>1, <2>2, RowsKept DEF LogInv
<1>3. CASE HandlePacket
  <2> DEFINE p == log[Len(delivered) + 1]
  <2>1. /\ Handled' = Handled \cup {Here}
        /\ PacketAt(Here) = p /\ p \in Packet /\ MsgId(p) \in DOMAIN RawFile
        /\ Unmapped(p) \/ Unwanted(p) \/ NoDecoder(p) \/ Decode(p)
        /\ UNCHANGED given
    BY <1>1, <1>3, HandledGrows
  <2>2. Place
    BY <1>1 DEF Position
  <2> HIDE DEF p
  <2>3. \A n : Belongs(Here, n) <=> GoesTo(p, n)
    BY <2>1 DEF Belongs
  <2>4. CASE Unmapped(p) /\ WantedRaw(p)
    <3>1. \A n : Belongs(Here, n) <=> n = RawFile[MsgId(p)]
      BY <2>1, <2>2, <2>3, <2>4, WhereItGoes
    <3>2. WriteRow(RawFile[MsgId(p)], Fixed(None), <<"raw">>)
      BY <2>4 DEF Unmapped
    <3>3. Fixed(None) \in Seq(Column) /\ <<"raw">> \in Seq(Column)
      BY FixedColumns DEF Column
    <3>4. Len(Fixed(None) \o <<"raw">>) >= 1 /\ (Fixed(None) \o <<"raw">>)[1] = "file"
      BY <3>3, FirstColumn
    <3>5. QED BY <1>1, <2>1, <3>1, <3>2, <3>3, <3>4, RowsExtended DEF LogInv
  <2>5. CASE Decode(p)
    <3>1. \A n : Belongs(Here, n) <=> n = OutputName(p)
      BY <2>1, <2>2, <2>3, <2>5, WhereItGoes
    <3>2. WriteRow(OutputName(p), Fixed(FcnCode(p)), DecoderFor(p).columns)
      BY <2>5 DEF Decode
    <3>3. Fixed(FcnCode(p)) \in Seq(Column) /\ DecoderFor(p).columns \in Seq(Column)
      <4>1. DecoderFor(p).columns \in Seq(STRING)
        BY <2>2, <2>5, EntryFacts DEF Decode, Decoder
      <4>2. QED BY <4>1, FixedColumns DEF Column
    <3>4. /\ Len(Fixed(FcnCode(p)) \o DecoderFor(p).columns) >= 1
          /\ (Fixed(FcnCode(p)) \o DecoderFor(p).columns)[1] = "file"
      BY <3>3, FirstColumn
    <3>5. QED BY <1>1, <2>1, <3>1, <3>2, <3>3, <3>4, RowsExtended DEF LogInv
  <2>6. CASE (Unmapped(p) /\ ~WantedRaw(p)) \/ Unwanted(p) \/ NoDecoder(p)
    <3>1. UNCHANGED files
      BY <2>6 DEF Unmapped, Unwanted, NoDecoder
    <3>2. \A n : ~Belongs(Here, n)
      BY <2>1, <2>2, <2>3, <2>6, WhereItGoes
    <3>3. QED BY <1>1, <2>1, <3>1, <3>2, RowsKept DEF LogInv
  <2>7. QED BY <2>1, <2>4, <2>5, <2>6
<1>4. QED BY <1>2, <1>3

\* At the end every packet of the files that could be read was handled.
LEMMA AllHandled ==
    ASSUME Position, pc = "reported"
    PROVE  Handled = UNION {ReadToTheEnd(f) : f \in DOMAIN inputs}
<1>1. inputs \in Inputs /\ inputs \in Seq(Input) /\ DOMAIN inputs = 1 .. Len(inputs) /\ Len(inputs) \in Nat
  <2>1. inputs \in Inputs /\ inputs \in Seq(Input)
    BY RunAssumption DEF Position, Place
  <2>2. QED BY <2>1
<1>2. fileNo = Len(inputs) /\ Len(delivered) = IF fileNo = 0 THEN 0 ELSE Held(fileNo)
  BY DEF Position
<1>3. CASE fileNo = 0
  <2>1. 1 .. fileNo - 1 = {} /\ 1 .. Len(delivered) = {} /\ DOMAIN inputs = {}
    BY <1>1, <1>2, <1>3
  <2>2. QED BY <2>1 DEF Handled
<1>4. CASE fileNo # 0
  <2>1. fileNo \in 1 .. Len(inputs) /\ Len(delivered) = Held(fileNo)
    BY <1>1, <1>2, <1>4
  <2>2. ReadToTheEnd(fileNo) = {<<fileNo, i>> : i \in 1 .. Len(delivered)}
    BY <1>1, <2>1, ReadPlaces
  <2>3. DOMAIN inputs = (1 .. fileNo - 1) \cup {fileNo}
    BY <1>1, <1>2, <2>1
  <2>4. UNION {ReadToTheEnd(f) : f \in DOMAIN inputs}
          = (UNION {ReadToTheEnd(f) : f \in 1 .. fileNo - 1}) \cup ReadToTheEnd(fileNo)
    BY <2>3
  <2>5. QED BY <2>2, <2>4 DEF Handled
<1>5. QED BY <1>3, <1>4

\* Where the run is, and what it has written.
THEOREM RunInvariance == Spec => []LogInv
<1>1. QED BY LogInit, LogStep, PTL DEF Spec

\* Each output file holds exactly the rows of the packets that go to it, each
\* once and in the order they were recorded, in either format and for any
\* dictionary (cmd_decode, Sink).
THEOREM RowsFaithful == Spec => []RowsAreTheLog
<1>1. LogInv => RowsAreTheLog
  <2> SUFFICES ASSUME LogInv PROVE RowsAreTheLog
    OBVIOUS
  <2>1. ASSUME NEW n \in FileNames
        PROVE  /\ \A r \in 1 .. Len(Ids(n)) - 1 : Earlier(Ids(n)[r], Ids(n)[r + 1])
               /\ {Ids(n)[r] : r \in DOMAIN Ids(n)} = {id \in Handled : GoesTo(PacketAt(id), n)}
    BY DEF LogInv, RowsInv, Belongs
  <2>2. pc = "reported" => Handled = UNION {ReadToTheEnd(f) : f \in DOMAIN inputs}
    BY AllHandled DEF LogInv
  <2>3. QED BY <2>1, <2>2 DEF RowsAreTheLog
<1>2. QED BY <1>1, RunInvariance, PTL

-----------------------------------------------------------------------------
(* The counts.                                                              *)

\* What becomes of a packet of the input files.
Missed(id) == Unserved(PacketAt(id))
PassedOver(id) == Mapped(PacketAt(id)) /\ ~WantedMapped(PacketAt(id))
MissedAs(id, m) == MsgId(PacketAt(id)) = m /\ Unserved(PacketAt(id))
CutShort(id) == Served(PacketAt(id)) /\ IsShort(PacketAt(id))

\* The packet of a row is one that is decoded.
FromEntry(r) == Mapped(PacketAt(Ids(r[1])[r[2]]))

\* The counts are numbers, and of what can be counted.
Tallies ==
    /\ decoded \in Nat /\ short \in Nat /\ failures \in Nat
    /\ IsABag(unknown) /\ DOMAIN unknown \subseteq DOMAIN RawFile
    /\ IsABag(perName) /\ DOMAIN perName \subseteq FileNames

\* What the packets handled come to.
PacketCounts ==
    /\ IsFiniteSet(Handled)
    /\ decoded + Cardinality({id \in Handled : Missed(id)})
               + Cardinality({id \in Handled : PassedOver(id)}) = Cardinality(Handled)
    /\ \A m \in DOMAIN RawFile :
          Count(unknown, m) = Cardinality({id \in Handled : MissedAs(id, m)})
    /\ short = Cardinality({id \in Handled : CutShort(id)})

\* What the rows written come to.
RowCounts ==
    /\ IsFiniteSet(Rows)
    /\ decoded = Cardinality({r \in Rows : FromEntry(r)})
    /\ \A n \in FileNames :
          Count(perName, n) = Cardinality({r \in Rows : FromEntry(r) /\ r[1] = n})

CountsInv == Tallies /\ PacketCounts /\ RowCounts

LEMMA FatesStay ==
    ASSUME UNCHANGED given
    PROVE  /\ \A id : Missed(id)' <=> Missed(id)
           /\ \A id : PassedOver(id)' <=> PassedOver(id)
           /\ \A id, m : MissedAs(id, m)' <=> MissedAs(id, m)
           /\ \A id : CutShort(id)' <=> CutShort(id)
<1>1. inputs' = inputs /\ dictionary' = dictionary /\ options' = options
  BY DEF given
<1>2. \A id : PacketAt(id)' = PacketAt(id)
  BY <1>1 DEF PacketAt
<1> USE DEF Mapped, WantedMapped, Wanted, Entry, HasDecoder, DecoderFor, DecoderKey, Served, Unserved
<1>3. \A id : Missed(id)' <=> Missed(id)
  BY <1>1, <1>2 DEF Missed
<1>4. \A id : PassedOver(id)' <=> PassedOver(id)
  BY <1>1, <1>2 DEF PassedOver
<1>5. \A id, m : MissedAs(id, m)' <=> MissedAs(id, m)
  BY <1>1, <1>2 DEF MissedAs
<1>6. \A id : CutShort(id)' <=> CutShort(id)
  BY <1>1, <1>2 DEF CutShort, IsShort
<1>7. QED BY <1>3, <1>4, <1>5, <1>6

\* A set that may gain one element.
LEMMA OneMore ==
    ASSUME NEW A, IsFiniteSet(A), NEW x, x \notin A, NEW B, NEW b \in BOOLEAN,
           B = IF b THEN A \cup {x} ELSE A
    PROVE  /\ IsFiniteSet(B) /\ Cardinality(A) \in Nat
           /\ Cardinality(B) = Cardinality(A) + IF b THEN 1 ELSE 0
<1>1. Cardinality(A) \in Nat
  BY FS_CardinalityType
<1>2. CASE b
  BY <1>1, <1>2, FS_AddElement
<1>3. CASE ~b
  BY <1>1, <1>3
<1>4. QED BY <1>2, <1>3

\* A tally counts one more of what it is given.
LEMMA TallyCounts ==
    ASSUME NEW bag, IsABag(bag), NEW x
    PROVE  /\ IsABag(Tally(bag, x))
           /\ DOMAIN Tally(bag, x) = DOMAIN bag \cup {x}
           /\ \A y : Count(Tally(bag, x), y) = Count(bag, y) + IF y = x THEN 1 ELSE 0
           /\ \A y : Count(bag, y) \in Nat
<1>1. \A y \in DOMAIN bag : bag[y] \in Nat /\ bag[y] > 0
  BY DEF IsABag
<1>2. Tally(bag, x) = [y \in DOMAIN bag \cup {x} |->
                         (IF y \in DOMAIN bag THEN bag[y] ELSE 0) + (IF y \in {x} THEN 1 ELSE 0)]
  BY DEF Tally, SetToBag, (+)
<1>3. \A y : Count(bag, y) \in Nat
  BY <1>1 DEF Count
<1>4. \A y \in DOMAIN bag \cup {x} : Tally(bag, x)[y] = Count(bag, y) + IF y = x THEN 1 ELSE 0
  BY <1>2 DEF Count
<1>5. \A y \in DOMAIN bag \cup {x} : Tally(bag, x)[y] \in Nat /\ Tally(bag, x)[y] > 0
  BY <1>1, <1>2
<1>6. IsABag(Tally(bag, x))
  BY <1>2, <1>5 DEF IsABag
<1>7. \A y : Count(Tally(bag, x), y) = Count(bag, y) + IF y = x THEN 1 ELSE 0
  BY <1>2, <1>3, <1>4 DEF Count
<1>8. QED BY <1>2, <1>3, <1>6, <1>7

\* One packet more is one more of what it is.
LEMMA OneMoreHandled ==
    ASSUME UNCHANGED given, IsFiniteSet(Handled), Here \notin Handled, Handled' = Handled \cup {Here}
    PROVE  /\ IsFiniteSet(Handled')
           /\ Cardinality(Handled') = Cardinality(Handled) + 1
           /\ Cardinality({id \in Handled' : Missed(id)'})
                = Cardinality({id \in Handled : Missed(id)}) + IF Missed(Here) THEN 1 ELSE 0
           /\ Cardinality({id \in Handled' : PassedOver(id)'})
                = Cardinality({id \in Handled : PassedOver(id)}) + IF PassedOver(Here) THEN 1 ELSE 0
           /\ \A m : Cardinality({id \in Handled' : MissedAs(id, m)'})
                = Cardinality({id \in Handled : MissedAs(id, m)}) + IF MissedAs(Here, m) THEN 1 ELSE 0
           /\ Cardinality({id \in Handled' : CutShort(id)'})
                = Cardinality({id \in Handled : CutShort(id)}) + IF CutShort(Here) THEN 1 ELSE 0
<1>1. ASSUME NEW A \in SUBSET Handled, NEW B, NEW b \in BOOLEAN, B = IF b THEN A \cup {Here} ELSE A
      PROVE  Cardinality(B) = Cardinality(A) + IF b THEN 1 ELSE 0
  <2>1. IsFiniteSet(A) /\ Here \notin A
    BY FS_Subset
  <2>2. QED BY <1>1, <2>1, OneMore
<1>2. IsFiniteSet(Handled') /\ Cardinality(Handled') = Cardinality(Handled) + 1
  BY FS_AddElement
<1>3. Cardinality({id \in Handled' : Missed(id)'})
        = Cardinality({id \in Handled : Missed(id)}) + IF Missed(Here) THEN 1 ELSE 0
  <2> DEFINE A == {id \in Handled : Missed(id)}
             B == {id \in Handled' : Missed(id)'}
  <2>1. B = IF Missed(Here) THEN A \cup {Here} ELSE A
    BY FatesStay
  <2>2. A \in SUBSET Handled /\ Missed(Here) \in BOOLEAN
    BY DEF Missed, Unserved
  <2> HIDE DEF A, B
  <2>3. Cardinality(B) = Cardinality(A) + IF Missed(Here) THEN 1 ELSE 0
    BY <1>1, <2>1, <2>2
  <2>4. QED BY <2>3 DEF A, B
<1>4. Cardinality({id \in Handled' : PassedOver(id)'})
        = Cardinality({id \in Handled : PassedOver(id)}) + IF PassedOver(Here) THEN 1 ELSE 0
  <2> DEFINE A == {id \in Handled : PassedOver(id)}
             B == {id \in Handled' : PassedOver(id)'}
  <2>1. B = IF PassedOver(Here) THEN A \cup {Here} ELSE A
    BY FatesStay
  <2>2. A \in SUBSET Handled /\ PassedOver(Here) \in BOOLEAN
    BY DEF PassedOver
  <2> HIDE DEF A, B
  <2>3. Cardinality(B) = Cardinality(A) + IF PassedOver(Here) THEN 1 ELSE 0
    BY <1>1, <2>1, <2>2
  <2>4. QED BY <2>3 DEF A, B
<1>5. ASSUME NEW m
      PROVE  Cardinality({id \in Handled' : MissedAs(id, m)'})
               = Cardinality({id \in Handled : MissedAs(id, m)}) + IF MissedAs(Here, m) THEN 1 ELSE 0
  <2> DEFINE A == {id \in Handled : MissedAs(id, m)}
             B == {id \in Handled' : MissedAs(id, m)'}
  <2>1. B = IF MissedAs(Here, m) THEN A \cup {Here} ELSE A
    BY FatesStay
  <2>2. A \in SUBSET Handled /\ MissedAs(Here, m) \in BOOLEAN
    BY DEF MissedAs
  <2> HIDE DEF A, B
  <2>3. Cardinality(B) = Cardinality(A) + IF MissedAs(Here, m) THEN 1 ELSE 0
    BY <1>1, <2>1, <2>2
  <2>4. QED BY <2>3 DEF A, B
<1>6. Cardinality({id \in Handled' : CutShort(id)'})
        = Cardinality({id \in Handled : CutShort(id)}) + IF CutShort(Here) THEN 1 ELSE 0
  <2> DEFINE A == {id \in Handled : CutShort(id)}
             B == {id \in Handled' : CutShort(id)'}
  <2>1. B = IF CutShort(Here) THEN A \cup {Here} ELSE A
    BY FatesStay
  <2>2. A \in SUBSET Handled /\ CutShort(Here) \in BOOLEAN
    BY DEF CutShort
  <2> HIDE DEF A, B
  <2>3. Cardinality(B) = Cardinality(A) + IF CutShort(Here) THEN 1 ELSE 0
    BY <1>1, <2>1, <2>2
  <2>4. QED BY <2>3 DEF A, B
<1>7. QED BY <1>2, <1>3, <1>4, <1>5, <1>6

\* The rows are the places of the packets that have one.
LEMMA RowPlaces ==
    ASSUME NEW r
    PROVE  r \in Rows <=> \E n \in DOMAIN files : \E i \in DOMAIN Ids(n) : r = <<n, i>>
BY DEF Rows, Ids

\* One row more is one more in its file, and one of the decoded if its packet is.
LEMMA OneMoreRow ==
    ASSUME Position, Recorded, UNCHANGED given, IsFiniteSet(Rows),
           NEW name, NEW f \in Seq(Column), NEW g \in Seq(Column),
           Len(f \o g) >= 1, (f \o g)[1] = "file", WriteRow(name, f, g)
    PROVE  /\ IsFiniteSet(Rows')
           /\ Cardinality({r \in Rows' : FromEntry(r)'})
                = Cardinality({r \in Rows : FromEntry(r)}) + IF Mapped(PacketAt(Here)) THEN 1 ELSE 0
           /\ \A n : Cardinality({r \in Rows' : FromEntry(r)' /\ r[1] = n})
                = Cardinality({r \in Rows : FromEntry(r) /\ r[1] = n})
                    + IF Mapped(PacketAt(Here)) /\ n = name THEN 1 ELSE 0
<1> PICK k : k = Len(Ids(name)) + 1
  OBVIOUS
<1> DEFINE new == <<name, k>>
<1>1. /\ Recorded'
      /\ DOMAIN files' = DOMAIN files \cup {name}
      /\ \A n : Ids(n)' = IF n = name THEN Append(Ids(n), Here) ELSE Ids(n)
  BY RowAdded
<1>2. Ids(name) \in Seq(Nat \X Nat) /\ Here \in Nat \X Nat
  <2>1. CASE name \in DOMAIN files
    BY <2>1, HandledBefore DEF Recorded
  <2>2. CASE name \notin DOMAIN files
    BY <2>2, HandledBefore DEF Ids
  <2>3. QED BY <2>1, <2>2
<1>3. /\ DOMAIN Ids(name)' = DOMAIN Ids(name) \cup {k}
      /\ \A i \in DOMAIN Ids(name) : Ids(name)'[i] = Ids(name)[i]
      /\ Ids(name)'[k] = Here
      /\ k \notin DOMAIN Ids(name)
  <2> DEFINE ids == Ids(name)
             more == Append(ids, Here)
  <2>1. ids \in Seq(Nat \X Nat) /\ Here \in Nat \X Nat /\ k = Len(ids) + 1
    BY <1>2
  <2> HIDE DEF ids
  <2>2. /\ DOMAIN more = DOMAIN ids \cup {k}
        /\ \A i \in DOMAIN ids : more[i] = ids[i]
        /\ more[k] = Here
        /\ k \notin DOMAIN ids
    <3>1. Len(ids) \in Nat /\ DOMAIN ids = 1 .. Len(ids) /\ DOMAIN more = 1 .. Len(ids) + 1
      BY <2>1
    <3>2. 1 .. Len(ids) + 1 = (1 .. Len(ids)) \cup {k} /\ k \notin 1 .. Len(ids)
      BY <2>1, <3>1
    <3>3. more[k] = Here /\ \A i \in 1 .. Len(ids) : more[i] = ids[i]
      BY <2>1
    <3>4. QED BY <3>1, <3>2, <3>3
  <2> HIDE DEF more
  <2>3. Ids(name)' = more
    BY <1>1 DEF more, ids
  <2>4. QED BY <2>2, <2>3 DEF ids
<1>4. \A r : r \in Rows' <=> \E n \in DOMAIN files' : \E i \in DOMAIN Ids(n)' : r = <<n, i>>
  BY DEF Rows, Ids
<1>5. ASSUME name \notin DOMAIN files PROVE DOMAIN Ids(name) = {}
  BY <1>5 DEF Ids
<1>6. Rows' = Rows \cup {new} /\ new \notin Rows
  <2>1. new \notin Rows
    BY <1>3, RowPlaces
  <2>2. ASSUME NEW r PROVE r \in Rows' <=> r \in Rows \/ r = new
    BY <1>1, <1>3, <1>4, <1>5, RowPlaces
  <2>3. QED BY <2>1, <2>2
<1>7. inputs' = inputs /\ dictionary' = dictionary
  BY DEF given
<1>8. \A r \in Rows : FromEntry(r)' <=> FromEntry(r)
  <2>1. SUFFICES ASSUME NEW r \in Rows PROVE FromEntry(r)' <=> FromEntry(r)
    OBVIOUS
  <2>2. PICK n \in DOMAIN files : \E i \in DOMAIN Ids(n) : r = <<n, i>>
    BY RowPlaces
  <2>3. PICK i \in DOMAIN Ids(n) : r = <<n, i>>
    BY <2>2
  <2>4. Ids(r[1])'[r[2]] = Ids(r[1])[r[2]]
    BY <1>1, <1>3, <2>3
  <2>5. PacketAt(Ids(r[1])[r[2]])' = PacketAt(Ids(r[1])[r[2]])
    BY <1>7, <2>4 DEF PacketAt
  <2>6. QED BY <1>7, <2>5 DEF FromEntry, Mapped
<1>9. FromEntry(new)' <=> Mapped(PacketAt(Here))
  <2>1. Ids(new[1])'[new[2]] = Here
    BY <1>3
  <2>2. PacketAt(Ids(new[1])[new[2]])' = PacketAt(Here)
    BY <1>7, <2>1 DEF PacketAt
  <2>3. QED BY <1>7, <2>2 DEF FromEntry, Mapped
<1>10. new[1] = name
  OBVIOUS
<1> HIDE DEF new
<1>11. ASSUME NEW A \in SUBSET Rows, NEW B, NEW b \in BOOLEAN, B = IF b THEN A \cup {new} ELSE A
       PROVE  Cardinality(B) = Cardinality(A) + IF b THEN 1 ELSE 0
  <2>1. IsFiniteSet(A) /\ new \notin A
    BY <1>6, FS_Subset
  <2>2. QED BY <1>11, <2>1, OneMore
<1>12. IsFiniteSet(Rows')
  BY <1>6, FS_AddElement
<1>13. Cardinality({r \in Rows' : FromEntry(r)'})
         = Cardinality({r \in Rows : FromEntry(r)}) + IF Mapped(PacketAt(Here)) THEN 1 ELSE 0
  <2> DEFINE A == {r \in Rows : FromEntry(r)}
             B == {r \in Rows' : FromEntry(r)'}
             b == Mapped(PacketAt(Here))
  <2>1. A \in SUBSET Rows /\ b \in BOOLEAN
    BY DEF Mapped
  <2>2. B = IF b THEN A \cup {new} ELSE A
    <3>1. CASE b
      BY <1>6, <1>8, <1>9, <3>1
    <3>2. CASE ~b
      BY <1>6, <1>8, <1>9, <3>2
    <3>3. QED BY <2>1, <3>1, <3>2
  <2> HIDE DEF A, B, b
  <2>3. Cardinality(B) = Cardinality(A) + IF b THEN 1 ELSE 0
    BY <1>11, <2>1, <2>2
  <2>4. QED BY <2>3 DEF A, B, b
<1>14. ASSUME NEW n
       PROVE  Cardinality({r \in Rows' : FromEntry(r)' /\ r[1] = n})
                = Cardinality({r \in Rows : FromEntry(r) /\ r[1] = n})
                    + IF Mapped(PacketAt(Here)) /\ n = name THEN 1 ELSE 0
  <2> DEFINE A == {r \in Rows : FromEntry(r) /\ r[1] = n}
             B == {r \in Rows' : FromEntry(r)' /\ r[1] = n}
             b == Mapped(PacketAt(Here)) /\ n = name
  <2>1. A \in SUBSET Rows /\ b \in BOOLEAN
    BY DEF Mapped
  <2>2. B = IF b THEN A \cup {new} ELSE A
    <3>1. CASE b
      BY <1>6, <1>8, <1>9, <1>10, <3>1
    <3>2. CASE ~b
      BY <1>6, <1>8, <1>9, <1>10, <3>2
    <3>3. QED BY <2>1, <3>1, <3>2
  <2> HIDE DEF A, B, b
  <2>3. Cardinality(B) = Cardinality(A) + IF b THEN 1 ELSE 0
    BY <1>11, <2>1, <2>2
  <2>4. QED BY <2>3 DEF A, B, b
<1>15. QED BY <1>12, <1>13, <1>14

LEMMA RowCountsKept ==
    ASSUME RowCounts, UNCHANGED <<given, files, decoded, perName>>
    PROVE  RowCounts'
<1>1. inputs' = inputs /\ dictionary' = dictionary
  BY DEF given
<1>2. Rows' = Rows /\ FileNames' = FileNames
  BY FateStays DEF Rows
<1>3. \A n : Ids(n)' = Ids(n)
  BY IdStays DEF Ids
<1>4. \A r : FromEntry(r)' <=> FromEntry(r)
  <2>1. SUFFICES ASSUME NEW r PROVE FromEntry(r)' <=> FromEntry(r)
    OBVIOUS
  <2>2. PacketAt(Ids(r[1])[r[2]])' = PacketAt(Ids(r[1])[r[2]])
    BY <1>1, <1>3 DEF PacketAt
  <2>3. QED BY <1>1, <2>2 DEF FromEntry, Mapped
<1>5. QED BY <1>2, <1>4 DEF RowCounts

LEMMA PacketCountsKept ==
    ASSUME PacketCounts, UNCHANGED <<given, decoded, unknown, short>>, Handled' = Handled
    PROVE  PacketCounts'
BY FatesStay DEF PacketCounts

\* A step that handles no packet counts none.
LEMMA CountsKept ==
    ASSUME LogInv, CountsInv, [Next]_vars, ~HandlePacket
    PROVE  CountsInv'
<1> USE DEF given, counts
<1>1. UNCHANGED <<given, files, decoded, unknown, perName, short>>
  BY DEF Next, vars, NextFile, FileRefused, FileLost, FileOpens, FileEnds, Report, S!Close
<1>2. failures' = failures \/ failures' = failures + 1
  BY DEF Next, vars, NextFile, FileRefused, FileLost, FileOpens, FileEnds, Report
<1>3. failures' \in Nat
  BY <1>2 DEF CountsInv, Tallies
<1>4. Handled' = Handled
  BY HandledStays DEF LogInv
<1>5. Tallies'
  BY <1>1, <1>3, FateStays DEF CountsInv, Tallies
<1>6. QED BY <1>1, <1>4, <1>5, RowCountsKept, PacketCountsKept DEF CountsInv

\* What becomes of a packet is what its action does.
LEMMA FateOfPacket ==
    ASSUME NEW p, PacketAt(Here) = p
    PROVE  /\ Unmapped(p) \/ NoDecoder(p) => Missed(Here) /\ ~PassedOver(Here) /\ ~CutShort(Here)
           /\ Unwanted(p) => ~Missed(Here) /\ PassedOver(Here) /\ ~CutShort(Here)
           /\ Decode(p) => ~Missed(Here) /\ ~PassedOver(Here) /\ (CutShort(Here) <=> IsShort(p))
           /\ \A m : MissedAs(Here, m) <=> Missed(Here) /\ m = MsgId(p)
<1> USE DEF Missed, PassedOver, CutShort, MissedAs, Served, Unserved
<1>1. \A m : MissedAs(Here, m) <=> Missed(Here) /\ m = MsgId(p)
  OBVIOUS
<1>2. Unmapped(p) \/ NoDecoder(p) => Missed(Here) /\ ~PassedOver(Here) /\ ~CutShort(Here)
  BY DEF Unmapped, NoDecoder
<1>3. Unwanted(p) => ~Missed(Here) /\ PassedOver(Here) /\ ~CutShort(Here)
  BY DEF Unwanted
<1>4. Decode(p) => ~Missed(Here) /\ ~PassedOver(Here) /\ (CutShort(Here) <=> IsShort(p))
  BY DEF Decode
<1>5. QED BY <1>1, <1>2, <1>3, <1>4

\* A packet handled is counted as what it is.
LEMMA PacketCounted ==
    ASSUME LogInv, CountsInv, HandlePacket, NEW p, p = log[Len(delivered) + 1]
    PROVE  PacketCounts'
<1>1. /\ Handled' = Handled \cup {Here}
      /\ PacketAt(Here) = p /\ MsgId(p) \in DOMAIN RawFile
      /\ Unmapped(p) \/ Unwanted(p) \/ NoDecoder(p) \/ Decode(p)
      /\ UNCHANGED given
  BY HandledGrows DEF LogInv
<1>2. Here \notin Handled /\ IsFiniteSet(Handled)
  BY HandledBefore DEF LogInv, CountsInv, PacketCounts
<1> DEFINE all == Cardinality(Handled)
           missed == Cardinality({id \in Handled : Missed(id)})
           passed == Cardinality({id \in Handled : PassedOver(id)})
           cutShort == Cardinality({id \in Handled : CutShort(id)})
           missedAs(m) == Cardinality({id \in Handled : MissedAs(id, m)})
<1>3. /\ IsFiniteSet(Handled')
      /\ all' = all + 1
      /\ missed' = missed + IF Missed(Here) THEN 1 ELSE 0
      /\ passed' = passed + IF PassedOver(Here) THEN 1 ELSE 0
      /\ cutShort' = cutShort + IF CutShort(Here) THEN 1 ELSE 0
      /\ \A m : Cardinality({id \in Handled' : MissedAs(id, m)'})
                  = missedAs(m) + IF MissedAs(Here, m) THEN 1 ELSE 0
  BY <1>1, <1>2, OneMoreHandled
<1>4. all \in Nat /\ missed \in Nat /\ passed \in Nat /\ cutShort \in Nat
  BY <1>2, FS_CardinalityType, FS_Subset
<1>5. /\ decoded + missed + passed = all /\ short = cutShort
      /\ \A m \in DOMAIN RawFile : Count(unknown, m) = missedAs(m)
      /\ decoded \in Nat /\ IsABag(unknown)
  BY DEF CountsInv, PacketCounts, Tallies
<1> HIDE DEF all, missed, passed, cutShort, missedAs
<1>6. decoded' + missed' + passed' = all' /\ short' = cutShort'
  <2>1. CASE Unmapped(p) \/ NoDecoder(p)
    <3>1. decoded' = decoded /\ short' = short
      BY <2>1 DEF Unmapped, NoDecoder
    <3>2. Missed(Here) /\ ~PassedOver(Here) /\ ~CutShort(Here)
      BY <1>1, <2>1, FateOfPacket
    <3>3. QED BY <1>3, <1>4, <1>5, <3>1, <3>2
  <2>2. CASE Unwanted(p)
    <3>1. decoded' = decoded /\ short' = short
      BY <2>2 DEF Unwanted, counts
    <3>2. ~Missed(Here) /\ PassedOver(Here) /\ ~CutShort(Here)
      BY <1>1, <2>2, FateOfPacket
    <3>3. QED BY <1>3, <1>4, <1>5, <3>1, <3>2
  <2>3. CASE Decode(p)
    <3>1. decoded' = decoded + 1 /\ short' = IF IsShort(p) THEN short + 1 ELSE short
      BY <2>3 DEF Decode
    <3>2. ~Missed(Here) /\ ~PassedOver(Here) /\ (CutShort(Here) <=> IsShort(p))
      BY <1>1, <2>3, FateOfPacket
    <3>3. QED BY <1>3, <1>4, <1>5, <3>1, <3>2
  <2>4. QED BY <1>1, <2>1, <2>2, <2>3
<1>7. ASSUME NEW m \in DOMAIN RawFile
      PROVE  Count(unknown', m) = missedAs(m) + IF MissedAs(Here, m) THEN 1 ELSE 0
  <2>1. Count(unknown, m) = missedAs(m) /\ Count(unknown, m) \in Nat
    BY <1>5, TallyCounts
  <2>2. MissedAs(Here, m) <=> Missed(Here) /\ m = MsgId(p)
    BY <1>1, FateOfPacket
  <2>3. CASE Unmapped(p) \/ NoDecoder(p)
    <3>1. unknown' = Tally(unknown, MsgId(p))
      BY <2>3 DEF Unmapped, NoDecoder
    <3>2. Missed(Here)
      BY <1>1, <2>3, FateOfPacket
    <3>3. \A x : Count(Tally(unknown, MsgId(p)), x)
                    = Count(unknown, x) + IF x = MsgId(p) THEN 1 ELSE 0
      BY <1>5, TallyCounts
    <3>4. Count(unknown', m) = Count(unknown, m) + IF m = MsgId(p) THEN 1 ELSE 0
      BY <3>1, <3>3
    <3>5. QED BY <2>1, <2>2, <3>2, <3>4
  <2>4. CASE Unwanted(p) \/ Decode(p)
    <3>1. unknown' = unknown
      BY <2>4 DEF Unwanted, Decode, counts
    <3>2. ~Missed(Here)
      BY <1>1, <2>4, FateOfPacket
    <3>3. QED BY <2>1, <2>2, <3>1, <3>2
  <2>5. QED BY <1>1, <2>3, <2>4
<1>8. \A m \in DOMAIN RawFile :
         Count(unknown', m) = Cardinality({id \in Handled' : MissedAs(id, m)'})
  BY <1>3, <1>7
<1>9. QED BY <1>3, <1>6, <1>8 DEF PacketCounts, all, missed, passed, cutShort, Count

\* The row of a packet is counted if the packet is decoded.
LEMMA RowCounted ==
    ASSUME LogInv, CountsInv, HandlePacket, NEW p, p = log[Len(delivered) + 1]
    PROVE  RowCounts'
<1>1. /\ PacketAt(Here) = p /\ MsgId(p) \in DOMAIN RawFile
      /\ Unmapped(p) \/ Unwanted(p) \/ NoDecoder(p) \/ Decode(p)
      /\ UNCHANGED given
  BY HandledGrows DEF LogInv
<1>2. /\ IsFiniteSet(Rows) /\ decoded \in Nat /\ IsABag(perName)
      /\ decoded = Cardinality({r \in Rows : FromEntry(r)})
      /\ \A n \in FileNames :
            Count(perName, n) = Cardinality({r \in Rows : FromEntry(r) /\ r[1] = n})
  BY DEF CountsInv, Tallies, RowCounts
<1>3. FileNames' = FileNames
  BY <1>1, FateStays
<1>4. CASE Unmapped(p) /\ WantedRaw(p)
  <2>1. /\ WriteRow(RawFile[MsgId(p)], Fixed(None), <<"raw">>)
        /\ decoded' = decoded /\ perName' = perName /\ ~Mapped(p)
    BY <1>4 DEF Unmapped
  <2>2. Fixed(None) \in Seq(Column) /\ <<"raw">> \in Seq(Column)
    BY FixedColumns DEF Column
  <2>3. Len(Fixed(None) \o <<"raw">>) >= 1 /\ (Fixed(None) \o <<"raw">>)[1] = "file"
    BY <2>2, FirstColumn
  <2>4. /\ IsFiniteSet(Rows')
        /\ Cardinality({r \in Rows' : FromEntry(r)'})
             = Cardinality({r \in Rows : FromEntry(r)}) + IF Mapped(PacketAt(Here)) THEN 1 ELSE 0
        /\ \A n : Cardinality({r \in Rows' : FromEntry(r)' /\ r[1] = n})
             = Cardinality({r \in Rows : FromEntry(r) /\ r[1] = n})
                 + IF Mapped(PacketAt(Here)) /\ n = RawFile[MsgId(p)] THEN 1 ELSE 0
    BY <1>1, <1>2, <2>1, <2>2, <2>3, OneMoreRow DEF LogInv
  <2>5. Cardinality({r \in Rows' : FromEntry(r)'}) = decoded'
    BY <1>1, <1>2, <2>1, <2>4
  <2>6. \A n \in FileNames : Count(perName', n) = Cardinality({r \in Rows' : FromEntry(r)' /\ r[1] = n})
    <3>1. \A n \in FileNames : Count(perName, n) \in Nat
      BY <1>2, TallyCounts
    <3> DEFINE old(n) == Cardinality({r \in Rows : FromEntry(r) /\ r[1] = n})
               new(n) == Cardinality({r \in Rows' : FromEntry(r)' /\ r[1] = n})
    <3>2. \A n \in FileNames : Count(perName, n) = old(n)
      BY <1>2
    <3>3. \A n : new(n) = old(n) + 0
      BY <1>1, <2>1, <2>4
    <3> HIDE DEF old, new
    <3>4. \A n \in FileNames : Count(perName', n) = new(n)
      BY <2>1, <3>1, <3>2, <3>3
    <3>5. QED BY <3>4 DEF new
  <2>7. QED BY <1>3, <2>4, <2>5, <2>6 DEF RowCounts, Count
<1>5. CASE Decode(p)
  <2>1. /\ WriteRow(OutputName(p), Fixed(FcnCode(p)), DecoderFor(p).columns)
        /\ decoded' = decoded + 1 /\ perName' = Tally(perName, OutputName(p))
        /\ Mapped(p) /\ HasDecoder(p)
    BY <1>5 DEF Decode
  <2>2. Fixed(FcnCode(p)) \in Seq(Column) /\ DecoderFor(p).columns \in Seq(Column)
    <3>1. DecoderFor(p).columns \in Seq(STRING)
      BY <2>1, EntryFacts DEF LogInv, Position, Decoder
    <3>2. QED BY <3>1, FixedColumns DEF Column
  <2>3. /\ Len(Fixed(FcnCode(p)) \o DecoderFor(p).columns) >= 1
        /\ (Fixed(FcnCode(p)) \o DecoderFor(p).columns)[1] = "file"
    BY <2>2, FirstColumn
  <2>4. /\ IsFiniteSet(Rows')
        /\ Cardinality({r \in Rows' : FromEntry(r)'})
             = Cardinality({r \in Rows : FromEntry(r)}) + IF Mapped(PacketAt(Here)) THEN 1 ELSE 0
        /\ \A n : Cardinality({r \in Rows' : FromEntry(r)' /\ r[1] = n})
             = Cardinality({r \in Rows : FromEntry(r) /\ r[1] = n})
                 + IF Mapped(PacketAt(Here)) /\ n = OutputName(p) THEN 1 ELSE 0
    BY <1>1, <1>2, <2>1, <2>2, <2>3, OneMoreRow DEF LogInv
  <2>5. Cardinality({r \in Rows' : FromEntry(r)'}) = decoded'
    BY <1>1, <1>2, <2>1, <2>4
  <2>6. \A n : Count(perName', n) = Count(perName, n) + IF n = OutputName(p) THEN 1 ELSE 0
    <3>1. \A n : Count(Tally(perName, OutputName(p)), n)
                   = Count(perName, n) + IF n = OutputName(p) THEN 1 ELSE 0
      BY <1>2, TallyCounts
    <3>2. QED BY <2>1, <3>1
  <2>7. \A n \in FileNames : Count(perName', n) = Cardinality({r \in Rows' : FromEntry(r)' /\ r[1] = n})
    <3> DEFINE old(n) == Cardinality({r \in Rows : FromEntry(r) /\ r[1] = n})
               new(n) == Cardinality({r \in Rows' : FromEntry(r)' /\ r[1] = n})
    <3>1. \A n \in FileNames : Count(perName, n) = old(n)
      BY <1>2
    <3>2. \A n : new(n) = old(n) + IF n = OutputName(p) THEN 1 ELSE 0
      BY <1>1, <2>1, <2>4
    <3> HIDE DEF old, new
    <3>3. \A n \in FileNames : Count(perName', n) = new(n)
      BY <2>6, <3>1, <3>2
    <3>4. QED BY <3>3 DEF new
  <2>8. QED BY <1>3, <2>4, <2>5, <2>7 DEF RowCounts, Count
<1>6. CASE (Unmapped(p) /\ ~WantedRaw(p)) \/ Unwanted(p) \/ NoDecoder(p)
  <2>1. UNCHANGED <<files, decoded, perName>>
    BY <1>6 DEF Unmapped, Unwanted, NoDecoder, counts
  <2>2. QED BY <1>1, <2>1, RowCountsKept DEF CountsInv
<1>7. QED BY <1>1, <1>4, <1>5, <1>6

LEMMA TalliesKept ==
    ASSUME LogInv, CountsInv, HandlePacket, NEW p, p = log[Len(delivered) + 1]
    PROVE  Tallies'
<1>1. /\ MsgId(p) \in DOMAIN RawFile /\ UNCHANGED given
      /\ Unmapped(p) \/ Unwanted(p) \/ NoDecoder(p) \/ Decode(p)
  BY HandledGrows DEF LogInv
<1>2. Tallies /\ FileNames' = FileNames
  BY <1>1, FateStays DEF CountsInv
<1>3. CASE Unmapped(p) \/ NoDecoder(p)
  <2>1. /\ unknown' = Tally(unknown, MsgId(p))
        /\ UNCHANGED <<decoded, perName, short, failures>>
    BY <1>3 DEF Unmapped, NoDecoder
  <2>2. IsABag(unknown') /\ DOMAIN unknown' = DOMAIN unknown \cup {MsgId(p)}
    BY <1>2, <2>1, TallyCounts DEF Tallies
  <2>3. QED BY <1>1, <1>2, <2>1, <2>2 DEF Tallies
<1>4. CASE Unwanted(p)
  BY <1>2, <1>4 DEF Unwanted, counts, Tallies
<1>5. CASE Decode(p)
  <2>1. /\ perName' = Tally(perName, OutputName(p))
        /\ decoded' = decoded + 1 /\ short' \in {short, short + 1}
        /\ UNCHANGED <<unknown, failures>>
        /\ Mapped(p) /\ HasDecoder(p)
    BY <1>5 DEF Decode
  <2>2. IsABag(perName') /\ DOMAIN perName' = DOMAIN perName \cup {OutputName(p)}
    BY <1>2, <2>1, TallyCounts DEF Tallies
  <2>3. OutputName(p) \in FileNames
    <3>1. DecoderKey(Entry(p), FcnCode(p)) \in DOMAIN Entry(p).file
      BY <2>1, EntryFacts DEF LogInv, Position
    <3>2. QED BY <2>1, <3>1 DEF OutputName, Entry, Mapped, FileNames
  <2>4. QED BY <1>2, <2>1, <2>2, <2>3 DEF Tallies
<1>6. QED BY <1>1, <1>3, <1>4, <1>5

LEMMA CountsStep == LogInv /\ CountsInv /\ [Next]_vars => CountsInv'
BY CountsKept, PacketCounted, RowCounted, TalliesKept DEF CountsInv

LEMMA CountsInit == Init => CountsInv
<1> SUFFICES ASSUME Init PROVE CountsInv
  OBVIOUS
<1>1. DOMAIN files = {} /\ delivered = <<>> /\ fileNo = 0
  BY DEF Init, S!SinkInit
<1>2. decoded = 0 /\ short = 0 /\ failures = 0 /\ unknown = EmptyBag /\ perName = EmptyBag
  BY DEF Init
<1>3. IsABag(EmptyBag) /\ DOMAIN EmptyBag = {}
  BY DEF EmptyBag, SetToBag, IsABag
<1>4. Handled = {} /\ Rows = {}
  BY <1>1 DEF Handled, Rows
<1>5. IsFiniteSet({}) /\ Cardinality({}) = 0
  BY FS_EmptySet
<1>6. Tallies
  BY <1>2, <1>3 DEF Tallies
<1>7. PacketCounts
  <2>1. /\ {id \in Handled : Missed(id)} = {} /\ {id \in Handled : PassedOver(id)} = {}
        /\ {id \in Handled : CutShort(id)} = {} /\ \A m : {id \in Handled : MissedAs(id, m)} = {}
    BY <1>4
  <2>2. \A m : Count(unknown, m) = 0
    BY <1>2, <1>3 DEF Count
  <2>3. QED BY <1>2, <1>4, <1>5, <2>1, <2>2 DEF PacketCounts
<1>8. RowCounts
  <2>1. {r \in Rows : FromEntry(r)} = {} /\ \A n : {r \in Rows : FromEntry(r) /\ r[1] = n} = {}
    BY <1>4
  <2>2. \A n : Count(perName, n) = 0
    BY <1>2, <1>3 DEF Count
  <2>3. QED BY <1>2, <1>4, <1>5, <2>1, <2>2 DEF RowCounts
<1>9. QED BY <1>6, <1>7, <1>8 DEF CountsInv

\* Every packet read is counted once, as what became of it, and the counts of
\* decoded packets are those of the rows on disk (cmd_decode, _report).
THEOREM CountsCorrect == Spec => []CountsAddUp
<1>1. LogInv /\ CountsInv /\ [Next]_vars => LogInv' /\ CountsInv'
  BY LogStep, CountsStep
<1>2. CountsInv => CountsAddUp
  <2> SUFFICES ASSUME CountsInv PROVE CountsAddUp
    OBVIOUS
  <2> USE DEF CountsInv, Tallies, PacketCounts, RowCounts
  <2>1. decoded + Cardinality({id \in Handled : Unserved(PacketAt(id))})
          + Cardinality({id \in Handled : Mapped(PacketAt(id)) /\ ~WantedMapped(PacketAt(id))})
          = Cardinality(Handled)
    BY DEF Missed, PassedOver
  <2>2. \A m \in DOMAIN RawFile :
           Count(unknown, m) = Cardinality({id \in Handled : MsgId(PacketAt(id)) = m /\ Unserved(PacketAt(id))})
    BY DEF MissedAs
  <2>3. short = Cardinality({id \in Handled : Served(PacketAt(id)) /\ IsShort(PacketAt(id))})
    BY DEF CutShort
  <2>4. DecodedRows = {r \in Rows : FromEntry(r)}
    BY DEF DecodedRows, FromEntry
  <2>5. \A n : {r \in DecodedRows : r[1] = n} = {r \in Rows : FromEntry(r) /\ r[1] = n}
    BY <2>4
  <2>6. QED BY <2>1, <2>2, <2>3, <2>4, <2>5 DEF CountsAddUp
<1>3. QED BY LogInit, CountsInit, <1>1, <1>2, PTL DEF Spec

\* The state of a run is of the types its declarations give (cmd_decode).
THEOREM RunTypes == Spec => []TypeOK
<1>1. LogInv /\ CountsInv /\ [Next]_vars => LogInv' /\ CountsInv'
  BY LogStep, CountsStep
<1>2. LogInv /\ CountsInv => TypeOK
  <2> SUFFICES ASSUME LogInv, CountsInv PROVE TypeOK
    OBVIOUS
  <2>1. Position /\ Place /\ Tallies
    BY DEF LogInv, CountsInv, Position
  <2>2. \A f \in DOMAIN inputs : IsInput(inputs[f])
    <3>1. inputs \in Inputs /\ inputs \in Seq(Input)
      BY <2>1, RunAssumption DEF Place
    <3>2. QED BY <3>1, InputFacts
  <2>3. \A m \in DOMAIN dictionary : IsEntry(dictionary[m])
    BY <2>1, RunAssumption DEF Place
  <2>4. /\ options.raw \in BOOLEAN /\ options.epoch \in BOOLEAN
        /\ options.format \in {"csv", "jsonl"}
    BY <2>1, RunAssumption DEF Place
  <2>5. QED BY <2>1, <2>2, <2>3, <2>4 DEF TypeOK, Place, Position, Tallies
<1>3. QED BY LogInit, CountsInit, <1>1, <1>2, PTL DEF Spec

-----------------------------------------------------------------------------
(* The records of a JSON file.                                              *)

\* A record is that of the packet it is known by.
KeptWhole(rec) == IsRecordOf(rec, IdOf(rec))

Records == UNION {{files[n].rows[r] : r \in DOMAIN files[n].rows} : n \in DOMAIN files}

RecordsInv == options.format = "jsonl" => \A rec \in Records : KeptWhole(rec)

LEMMA RecordStays ==
    ASSUME UNCHANGED given, NEW CONSTANT rec, KeptWhole(rec)
    PROVE  KeptWhole(rec)'
<1>1. PICK id : id = IdOf(rec)
  OBVIOUS
<1>2. inputs' = inputs /\ dictionary' = dictionary /\ options' = options
  BY DEF given
<1>3. IdOf(rec)' = id
  BY <1>1, <1>2 DEF IdOf
<1>4. PICK p : p = PacketAt(id)
  OBVIOUS
<1>5. PacketAt(id)' = p
  BY <1>2, <1>4 DEF PacketAt
<1>6. ColumnsOf(p)' = ColumnsOf(p) /\ PayloadOf(p)' = PayloadOf(p)
  <2>1. (Mapped(p)' <=> Mapped(p)) /\ DecoderFor(p)' = DecoderFor(p)
    BY <1>2 DEF Mapped, DecoderFor, Entry
  <2>2. QED BY <2>1, ShapeStays DEF PayloadOf
<1>7. \A c : CellOf(id, c)' = CellOf(id, c)
  BY <1>4, <1>5, <1>6 DEF CellOf
<1>8. IsRecordOf(rec, id)
  BY <1>1 DEF KeptWhole
<1>9. IsRecordOf(rec, id)'
  BY <1>4, <1>5, <1>6, <1>7, <1>8 DEF IsRecordOf
<1>10. QED BY <1>3, <1>9 DEF KeptWhole

\* The two shares of a packet's row.
IsRowOf(f, g, p) == f \o g = ColumnsOf(p) /\ g = PayloadOf(p)

\* The last column of a name is the payload's, if the payload has the name.
LEMMA LastIsPayload ==
    ASSUME NEW f \in Seq(Column), NEW g \in Seq(Column), NEW i \in 1 .. Len(f \o g),
           \A j \in 1 .. Len(f \o g) : (f \o g)[j] = (f \o g)[i] => j <= i
    PROVE  i <= Len(f) <=> ~ \E k \in DOMAIN g : g[k] = (f \o g)[i]
<1> DEFINE h == f \o g
<1>1. /\ Len(f) \in Nat /\ Len(g) \in Nat /\ Len(h) = Len(f) + Len(g)
      /\ DOMAIN g = 1 .. Len(g)
      /\ \A k \in 1 .. Len(g) : h[Len(f) + k] = g[k]
  OBVIOUS
<1>2. i \in 1 .. Len(h) /\ \A j \in 1 .. Len(h) : h[j] = h[i] => j <= i
  OBVIOUS
<1> HIDE DEF h
<1>3. ASSUME NEW k \in DOMAIN g, g[k] = h[i]
      PROVE  ~(i <= Len(f))
  <2>1. Len(f) + k \in 1 .. Len(h) /\ h[Len(f) + k] = h[i] /\ k \in Nat /\ k >= 1
    BY <1>1, <1>3
  <2>2. Len(f) + k <= i
    BY <1>2, <2>1
  <2>3. QED BY <1>1, <1>2, <2>1, <2>2
<1>4. ASSUME ~(i <= Len(f))
      PROVE  \E k \in DOMAIN g : g[k] = h[i]
  <2>1. i - Len(f) \in 1 .. Len(g) /\ Len(f) + (i - Len(f)) = i
    BY <1>1, <1>2, <1>4
  <2>2. g[i - Len(f)] = h[i]
    BY <1>1, <2>1
  <2>3. QED BY <1>1, <2>1, <2>2
<1>5. QED BY <1>3, <1>4 DEF h

\* A record is a function on its columns.
LEMMA RecordIsFunction ==
    ASSUME NEW columns, NEW row
    PROVE  S!Record(columns, row) = [c \in DOMAIN S!Record(columns, row) |-> S!Record(columns, row)[c]]
BY DEF S!Record

LEMMA RecordMade ==
    ASSUME Position, options.format = "jsonl", NEW f \in Seq(Column), NEW g \in Seq(Column),
           Len(f \o g) >= 1, (f \o g)[1] = "file",
           IsRowOf(f, g, PacketAt(Here))
    PROVE  KeptWhole(S!Render(options.format, f \o g, Cells(f, g)))
<1> DEFINE h == f \o g
           row == Cells(f, g)
           rec == S!Record(h, row)
<1>1. /\ h \in Seq(Column) /\ Len(row) = Len(h) /\ Len(h) \in Nat
      /\ DOMAIN h = 1 .. Len(h) /\ DOMAIN row = 1 .. Len(h)
  <2>1. h \in Seq(Column)
    OBVIOUS
  <2>2. row \in Seq(Cell) /\ Len(row) = Len(h)
    BY CellsStand DEF Position
  <2> HIDE DEF h, row
  <2>3. QED BY <2>1, <2>2
<1>2. \A i \in 1 .. Len(h) :
         row[i] = [col |-> h[i], part |-> IF i <= Len(f) THEN "fixed" ELSE "payload", of |-> Here]
  BY DEF Cells
<1>3. IdOf(S!Render(options.format, h, row)) = Here
  BY RowIsHere
<1>4. h = ColumnsOf(PacketAt(Here)) /\ g = PayloadOf(PacketAt(Here))
  BY DEF IsRowOf
<1>5. S!Render(options.format, h, row) = rec
  BY DEF S!Render
<1>6. \A i \in 1 .. Len(h) : (\A j \in 1 .. Len(h) : h[j] = h[i] => j <= i) =>
         (i <= Len(f) <=> ~ \E k \in DOMAIN g : g[k] = h[i])
  BY LastIsPayload
<1>7. rec = S!Record(h, row)
  OBVIOUS
<1>7a. rec = [c \in DOMAIN rec |-> rec[c]]
  BY RecordIsFunction
<1> HIDE DEF h, row, rec
<1>8. DOMAIN rec = {h[i] : i \in DOMAIN h}
  <2>1. DOMAIN S!Record(h, row) = {h[i] : i \in 1 .. Len(h)}
    BY <1>1, RecordColumns
  <2>2. QED BY <1>1, <1>7, <2>1
<1>9. ASSUME NEW c \in DOMAIN rec
      PROVE  rec[c] = CellOf(Here, c)
  <2>1. PICK i \in 1 .. Len(h) : /\ h[i] = c /\ rec[c] = row[i]
                                 /\ \A j \in 1 .. Len(h) : h[j] = c => j <= i
    BY <1>1, <1>7, RecordCells
  <2>2. i <= Len(f) <=> ~ \E k \in DOMAIN g : g[k] = c
    BY <1>6, <2>1
  <2>3. rec[c] = [col |-> c, part |-> IF i <= Len(f) THEN "fixed" ELSE "payload", of |-> Here]
    BY <1>2, <2>1
  <2>4. QED BY <1>4, <2>2, <2>3 DEF CellOf
<1>10. rec = [c \in {h[i] : i \in DOMAIN h} |-> CellOf(Here, c)]
  BY <1>7a, <1>8, <1>9
<1>11. IsRecordOf(rec, Here)
  BY <1>4, <1>10 DEF IsRecordOf
<1>12. KeptWhole(rec)
  BY <1>3, <1>5, <1>11 DEF KeptWhole
<1>13. QED BY <1>5, <1>12 DEF h, row

LEMMA RecordsSame ==
    ASSUME RecordsInv, UNCHANGED <<given, files>>
    PROVE  RecordsInv'
<1>1. Records' = Records /\ options' = options
  BY DEF Records, given
<1>2. QED BY <1>1, RecordStays DEF RecordsInv

LEMMA RecordsExtended ==
    ASSUME LogInv, RecordsInv, options.format = "jsonl", UNCHANGED given,
           NEW name, NEW f \in Seq(Column), NEW g \in Seq(Column),
           Len(f \o g) >= 1, (f \o g)[1] = "file", WriteRow(name, f, g),
           IsRowOf(f, g, PacketAt(Here))
    PROVE  RecordsInv'
<1> DEFINE file == S!Opened(name, f \o g)
<1>1. PICK made : made = S!Render(options.format, f \o g, Cells(f, g))
  OBVIOUS
<1>2. KeptWhole(made)
  BY <1>1, RecordMade DEF LogInv
<1>3. /\ DOMAIN files' = DOMAIN files \cup {name}
      /\ \A n \in DOMAIN files : n # name => files'[n] = files[n]
      /\ files'[name].rows = Append(file.rows, made)
  BY <1>1, RowAdded DEF LogInv
<1>4. /\ \E A : file.rows \in Seq(A)
      /\ \A r \in DOMAIN file.rows : file.rows[r] \in Records
  <2>1. CASE name \in DOMAIN files
    BY <2>1 DEF LogInv, Recorded, Records, S!Opened
  <2>2. CASE name \notin DOMAIN files
    <3>1. file.rows = <<>> /\ <<>> \in Seq({}) /\ DOMAIN <<>> = {}
      BY <2>2 DEF S!Opened
    <3>2. QED BY <3>1
  <2>3. QED BY <2>1, <2>2
<1>5. PICK rows : rows = file.rows
  OBVIOUS
<1>6. PICK A : rows \in Seq(A)
  BY <1>4, <1>5
<1>7. /\ DOMAIN rows = 1 .. Len(rows) /\ Len(rows) \in Nat
      /\ DOMAIN Append(rows, made) = 1 .. Len(rows) + 1
      /\ \A r \in 1 .. Len(rows) : Append(rows, made)[r] = rows[r]
      /\ Append(rows, made)[Len(rows) + 1] = made
  BY <1>6
<1>8. files'[name].rows = Append(rows, made) /\ \A r \in DOMAIN rows : rows[r] \in Records
  BY <1>3, <1>4, <1>5
<1> HIDE DEF file
<1>9. ASSUME NEW n \in DOMAIN files', NEW r \in DOMAIN files'[n].rows
      PROVE  files'[n].rows[r] \in Records \cup {made}
  <2>1. CASE n = name /\ r = Len(rows) + 1
    BY <1>7, <1>8, <2>1
  <2>2. CASE n = name /\ r # Len(rows) + 1
    <3>1. r \in 1 .. Len(rows)
      BY <1>7, <1>8, <1>9, <2>2
    <3>2. QED BY <1>7, <1>8, <2>2, <3>1
  <2>3. CASE n # name
    BY <1>3, <1>9, <2>3 DEF Records
  <2>4. QED BY <2>1, <2>2, <2>3
<1>10. Records' \subseteq Records \cup {made}
  BY <1>9 DEF Records
<1>11. ASSUME NEW rec \in Records'
       PROVE  KeptWhole(rec)
  BY <1>2, <1>10 DEF RecordsInv
<1>12. QED BY <1>11, RecordStays DEF RecordsInv

LEMMA RecordsWritten ==
    ASSUME LogInv, RecordsInv, UNCHANGED given,
           NEW name, NEW f \in Seq(Column), NEW g \in Seq(Column),
           Len(f \o g) >= 1, (f \o g)[1] = "file", WriteRow(name, f, g),
           IsRowOf(f, g, PacketAt(Here))
    PROVE  RecordsInv'
<1>1. CASE options.format = "jsonl"
  BY <1>1, RecordsExtended
<1>2. CASE options.format # "jsonl"
  BY <1>2 DEF RecordsInv, given
<1>3. QED BY <1>1, <1>2

LEMMA RecordsStep ==
    ASSUME LogInv, RecordsInv, [Next]_vars
    PROVE  RecordsInv'
<1>1. Position /\ Place
  BY DEF LogInv, Position
<1>2. CASE ~HandlePacket
  <2>1. UNCHANGED <<given, files>>
    BY <1>2 DEF Next, vars, given, NextFile, FileRefused, FileLost, FileOpens, FileEnds, Report, S!Close
  <2>2. QED BY <2>1, RecordsSame
<1>3. CASE HandlePacket
  <2> DEFINE p == log[Len(delivered) + 1]
  <2>1. /\ PacketAt(Here) = p /\ UNCHANGED given
        /\ Unmapped(p) \/ Unwanted(p) \/ NoDecoder(p) \/ Decode(p)
    BY <1>1, <1>3, HandledGrows
  <2> HIDE DEF p
  <2>2. CASE Unmapped(p) /\ WantedRaw(p)
    <3>1. /\ WriteRow(RawFile[MsgId(p)], Fixed(None), <<"raw">>)
          /\ IsRowOf(Fixed(None), <<"raw">>, p)
      BY <2>2 DEF Unmapped, ColumnsOf, PayloadOf, IsRowOf
    <3>2. Fixed(None) \in Seq(Column) /\ <<"raw">> \in Seq(Column)
      BY FixedColumns DEF Column
    <3>3. Len(Fixed(None) \o <<"raw">>) >= 1 /\ (Fixed(None) \o <<"raw">>)[1] = "file"
      BY <3>2, FirstColumn
    <3>4. QED BY <2>1, <3>1, <3>2, <3>3, RecordsWritten
  <2>3. CASE Decode(p)
    <3>1. /\ WriteRow(OutputName(p), Fixed(FcnCode(p)), DecoderFor(p).columns)
          /\ Mapped(p) /\ HasDecoder(p)
          /\ IsRowOf(Fixed(FcnCode(p)), DecoderFor(p).columns, p)
      BY <2>3 DEF Decode, ColumnsOf, PayloadOf, IsRowOf
    <3>2. Fixed(FcnCode(p)) \in Seq(Column) /\ DecoderFor(p).columns \in Seq(Column)
      <4>1. DecoderFor(p).columns \in Seq(STRING)
        BY <1>1, <3>1, EntryFacts DEF Decoder
      <4>2. QED BY <4>1, FixedColumns DEF Column
    <3>3. /\ Len(Fixed(FcnCode(p)) \o DecoderFor(p).columns) >= 1
          /\ (Fixed(FcnCode(p)) \o DecoderFor(p).columns)[1] = "file"
      BY <3>2, FirstColumn
    <3>4. QED BY <2>1, <3>1, <3>2, <3>3, RecordsWritten
  <2>4. CASE (Unmapped(p) /\ ~WantedRaw(p)) \/ Unwanted(p) \/ NoDecoder(p)
    <3>1. UNCHANGED files
      BY <2>4 DEF Unmapped, Unwanted, NoDecoder
    <3>2. QED BY <2>1, <3>1, RecordsSame
  <2>5. QED BY <2>1, <2>2, <2>3, <2>4
<1>4. QED BY <1>2, <1>3

\* Every JSON record is its own packet's: it has that packet's columns, and under
\* each the cell of that packet, the payload's where a fixed column has the same
\* name (cmd_decode, JsonlSink.write).
THEOREM RecordsCorrect == Spec => []RecordsAreTheirRows
<1>1. Init => RecordsInv
  BY DEF Init, S!SinkInit, RecordsInv, Records
<1>2. LogInv /\ RecordsInv /\ [Next]_vars => LogInv' /\ RecordsInv'
  BY LogStep, RecordsStep
<1>3. RecordsInv => RecordsAreTheirRows
  <2> SUFFICES ASSUME RecordsInv, options.format = "jsonl",
                      NEW n \in DOMAIN files, NEW r \in DOMAIN files[n].rows
               PROVE  IsRecordOf(files[n].rows[r], Ids(n)[r])
    BY DEF RecordsAreTheirRows
  <2>1. KeptWhole(files[n].rows[r])
    BY DEF RecordsInv, Records
  <2>2. Ids(n)[r] = IdOf(files[n].rows[r])
    BY DEF Ids
  <2>3. QED BY <2>1, <2>2 DEF KeptWhole
<1>4. QED BY LogInit, <1>1, <1>2, <1>3, PTL DEF Spec
=============================================================================
