-------------------------- MODULE DecodeRunProofs --------------------------
(***************************************************************************)
(* Proofs about a decode run: in a version 1 build, the cells of every CSV *)
(* stand under their columns, for all input files, options and             *)
(* dictionaries whose output names are distinct.                           *)
(***************************************************************************)
EXTENDS DecodeRun, TLAPS

\* A build whose message IDs are stream IDs and whose commands reach their
\* function code as soon as they are longer than a primary header.
V1Build == ~CcsdsV2 /\ MsgHdrSize = CCSDS_PRIMARY_SIZE

\* The packets a row can be written for, the file it goes to.
Writes(p) == /\ p \in Packet
             /\ MsgId(p) \in DOMAIN RawFile
             /\ Mapped(p) => HasDecoder(p)

Dest(p) == IF Mapped(p) THEN OutputName(p) ELSE RawFile[MsgId(p)]

\* (The prover does not know a literal name for a string.)
Column == STRING \cup {"file", "pkt_index", "msgid", "apid", "seq", "length", "time_sec",
                       "time_subsec", "time", "time_utc", "fcn_code", "raw"}

Cell == [col : Column, part : {"fixed", "payload"}, of : Nat \X Nat]

\* Where the run is.
Place == /\ inputs \in Inputs
         /\ dictionary \in Dictionaries
         /\ options \in Options
         /\ fileNo \in Nat
         /\ log \in Seq(Packet)
         /\ whole \subseteq 1 .. Len(log)
         /\ delivered \in Seq(Packet)
         /\ \A k \in 1 .. Len(log) : MsgId(log[k]) \in DOMAIN RawFile

OutputFile == [columns : Seq(Column), rows : Seq(Seq(Cell))]

\* Every file was begun by a packet that goes to it, under its columns.
Begun == \A n \in DOMAIN files :
            /\ files[n] \in OutputFile
            /\ \E q \in Packet : Writes(q) /\ Dest(q) = n /\ files[n].columns = ColumnsOf(q)

CsvInv == Place /\ Begun /\ AllAligned

\* A run whose CSVs are promised to be aligned.
Promised == options.format = "csv" /\ NamesApart

RunInv == Place /\ (Promised => Begun /\ AllAligned)

-----------------------------------------------------------------------------

\* A version 1 message ID says whether a packet has a function code.
LEMMA IdTellsCode ==
    ASSUME V1Build, NEW p \in Packet, NEW q \in Packet, MsgId(p) = MsgId(q)
    PROVE  FcnCode(p) = None <=> FcnCode(q) = None
<1>1. ASSUME NEW r \in Packet
      PROVE  /\ r.version \in Nat /\ r.apid \in 0 .. 2047
             /\ r.fcnByte \in Nat /\ r.lenField \in Nat
  <2>1. r.version \in 0 .. 7
    BY DEF Packet
  <2>2. r.apid \in 0 .. 2047
    BY DEF Packet, Apid
  <2>3. r.fcnByte \in 0 .. 255
    BY DEF Packet, Byte
  <2>4. r.lenField \in Uint16
    BY DEF Packet
  <2>5. MAX_LENGTH_FIELD \in Nat
    BY DEF MAX_LENGTH_FIELD
  <2>6. r.lenField \in Nat
    BY <2>4, <2>5 DEF Uint16
  <2>7. QED BY <2>1, <2>2, <2>3, <2>6
<1>2. StreamId(p) = StreamId(q)
  BY DEF V1Build, MsgId, MsgIdV1
<1>3. /\ p.isCmd <=> q.isCmd
      /\ p.secHdr <=> q.secHdr
  <2> DEFINE c == IF p.isCmd THEN 1 ELSE 0
             d == IF q.isCmd THEN 1 ELSE 0
             s == IF p.secHdr THEN 1 ELSE 0
             t == IF q.secHdr THEN 1 ELSE 0
             v == p.version
             w == q.version
             a == p.apid
             b == q.apid
             k == 4 * (v - w) + 2 * (c - d) + (s - t)
  <2>1. /\ v * 8192 + c * 4096 + s * 2048 + a = w * 8192 + d * 4096 + t * 2048 + b
        /\ c \in {0, 1} /\ d \in {0, 1} /\ s \in {0, 1} /\ t \in {0, 1}
    BY <1>1, <1>2 DEF StreamId
  <2>2. (c = d => (p.isCmd <=> q.isCmd)) /\ (s = t => (p.secHdr <=> q.secHdr))
    OBVIOUS
  <2>3. v \in Nat /\ w \in Nat /\ a \in 0 .. 2047 /\ b \in 0 .. 2047
    BY <1>1
  <2> HIDE DEF c, d, s, t, v, w, a, b
  <2>4. /\ c \in Int /\ d \in Int /\ s \in Int /\ t \in Int
        /\ v \in Int /\ w \in Int /\ a \in Int /\ b \in Int
        /\ b - a < 2048 /\ b - a > -2048
    BY <2>1, <2>3
  <2>5. k \in Int /\ k * 2048 = b - a
    BY <2>1, <2>4
  <2>6. k = 0
    <3> HIDE DEF k
    <3>1. ~(k >= 1) /\ ~(k <= -1)
      BY <2>4, <2>5
    <3>2. QED BY <2>5, <3>1
  <2>7. s = t
    BY <2>1, <2>3, <2>4, <2>6
  <2>8. c = d
    BY <2>1, <2>3, <2>4, <2>6, <2>7
  <2>9. QED BY <2>2, <2>7, <2>8
<1>4. ASSUME NEW r \in Packet
      PROVE  FcnCode(r) = None <=> ~(r.secHdr /\ r.isCmd)
  <2>1. Total(r) > MsgHdrSize
    BY <1>1 DEF Total, V1Build, CCSDS_PRIMARY_SIZE
  <2>2. r.fcnByte % 128 # None
    BY <1>1 DEF None
  <2>3. QED BY <2>1, <2>2 DEF FcnCode
<1>5. QED BY <1>3, <1>4

\* What an entry of the dictionary has for a packet it decodes.
LEMMA EntryFacts ==
    ASSUME Place, NEW p, Mapped(p), HasDecoder(p)
    PROVE  /\ DecoderFor(p) \in Decoder
           /\ DecoderKey(Entry(p), FcnCode(p)) \in DOMAIN Entry(p).file
<1>1. dictionary \in Dictionaries /\ MsgId(p) \in DOMAIN dictionary
  BY DEF Place, Mapped
<1>2. IsEntry(Entry(p))
  BY <1>1, RunAssumption DEF Entry
<1>3. DecoderKey(Entry(p), FcnCode(p)) \in DOMAIN Entry(p).decoders
  BY DEF HasDecoder
<1>4. QED BY <1>2, <1>3 DEF IsEntry, DecoderFor

\* Packets that go to one file have rows of one shape.
LEMMA SameShape ==
    ASSUME V1Build, NamesApart, Place,
           NEW p, NEW q, Writes(p), Writes(q), Dest(p) = Dest(q)
    PROVE  ColumnsOf(p) = ColumnsOf(q)
<1>2. CASE Mapped(p) /\ Mapped(q)
  <2> DEFINE i == DecoderKey(Entry(p), FcnCode(p))
             j == DecoderKey(Entry(q), FcnCode(q))
  <2>1. /\ MsgId(p) \in DOMAIN dictionary /\ i \in DOMAIN dictionary[MsgId(p)].file
        /\ MsgId(q) \in DOMAIN dictionary /\ j \in DOMAIN dictionary[MsgId(q)].file
    BY <1>2, EntryFacts DEF Writes, Mapped, Entry
  <2>2. dictionary[MsgId(p)].file[i] = dictionary[MsgId(q)].file[j]
    BY <1>2 DEF Dest, OutputName, Entry
  <2> HIDE DEF i, j
  <2>3. MsgId(p) = MsgId(q) /\ i = j
    BY <2>1, <2>2 DEF NamesApart
  <2>4. DecoderFor(p) = DecoderFor(q)
    BY <2>3 DEF DecoderFor, Entry, i, j
  <2>5. FcnCode(p) = None <=> FcnCode(q) = None
    BY <2>3, IdTellsCode DEF Writes
  <2>6. Fixed(FcnCode(p)) = Fixed(FcnCode(q))
    BY <2>5 DEF Fixed
  <2>7. QED BY <1>2, <2>4, <2>6 DEF ColumnsOf
<1>3. CASE ~Mapped(p) /\ ~Mapped(q)
  BY <1>3 DEF ColumnsOf
<1>4. ASSUME NEW x, NEW y, Writes(x), Writes(y), Mapped(x), ~Mapped(y)
      PROVE  Dest(x) # Dest(y)
  <2> DEFINE i == DecoderKey(Entry(x), FcnCode(x))
  <2>1. MsgId(x) \in DOMAIN dictionary /\ i \in DOMAIN dictionary[MsgId(x)].file
    BY <1>4, EntryFacts DEF Writes, Mapped, Entry
  <2>2. MsgId(y) \in DOMAIN RawFile \ DOMAIN dictionary
    BY <1>4 DEF Writes, Mapped
  <2>3. Dest(x) = dictionary[MsgId(x)].file[i] /\ Dest(y) = RawFile[MsgId(y)]
    BY <1>4 DEF Dest, OutputName, Entry
  <2> HIDE DEF i
  <2>4. QED BY <2>1, <2>2, <2>3 DEF NamesApart
<1>5. QED BY <1>2, <1>3, <1>4

\* The columns are strings, and the cells of a row stand under them.
LEMMA FixedColumns ==
    ASSUME NEW fcn
    PROVE  Fixed(fcn) \in Seq(Column)
<1>1. FIXED_COLUMNS \in Seq(Column)
  BY DEF FIXED_COLUMNS, Column
<1>2. <<"time_utc">> \in Seq(Column) /\ <<"fcn_code">> \in Seq(Column) /\ <<>> \in Seq(Column)
  BY DEF Column
<1>3. QED BY <1>1, <1>2 DEF Fixed

LEMMA CellsStand ==
    ASSUME Place, NEW f \in Seq(Column), NEW g \in Seq(Column)
    PROVE  /\ f \o g \in Seq(Column)
           /\ Cells(f, g) \in Seq(Cell)
           /\ Len(Cells(f, g)) = Len(f \o g)
           /\ \A j \in 1 .. Len(f \o g) : Cells(f, g)[j].col = (f \o g)[j]
<1> DEFINE h == f \o g
<1>1. h \in Seq(Column) /\ Len(h) \in Nat
  OBVIOUS
<1>2. Here \in Nat \X Nat
  <2>1. fileNo \in Nat /\ Len(delivered) + 1 \in Nat
    BY DEF Place
  <2>2. QED BY <2>1 DEF Here
<1> HIDE DEF h
<1> DEFINE r(j) == [col |-> h[j], part |-> IF j <= Len(f) THEN "fixed" ELSE "payload", of |-> Here]
<1>3. \A j \in 1 .. Len(h) : r(j) \in Cell /\ r(j).col = h[j]
  <2>1. \A j \in 1 .. Len(h) : h[j] \in Column
    BY <1>1
  <2>2. QED BY <1>2, <2>1 DEF Cell
<1>4. Cells(f, g) = [j \in 1 .. Len(h) |-> r(j)]
  BY DEF Cells, h
<1> HIDE DEF r
<1>5. Cells(f, g) \in Seq(Cell) /\ Len(Cells(f, g)) = Len(h)
  BY <1>1, <1>3, <1>4
<1>6. \A j \in 1 .. Len(h) : Cells(f, g)[j].col = h[j]
  BY <1>3, <1>4
<1>7. QED BY <1>1, <1>5, <1>6 DEF h

\* What a packet's row looks like is settled by what the run is given.
LEMMA ShapeStays ==
    ASSUME UNCHANGED given, NEW CONSTANT q
    PROVE  (Writes(q)' <=> Writes(q)) /\ Dest(q)' = Dest(q) /\ ColumnsOf(q)' = ColumnsOf(q)
<1>1. dictionary' = dictionary /\ options' = options
  BY DEF given
<1>2. (Mapped(q)' <=> Mapped(q)) /\ Entry(q)' = Entry(q)
  BY <1>1 DEF Mapped, Entry
<1>3. /\ HasDecoder(q)' <=> HasDecoder(q)
      /\ DecoderFor(q)' = DecoderFor(q)
      /\ OutputName(q)' = OutputName(q)
  BY <1>2 DEF HasDecoder, DecoderFor, OutputName
<1>4. Writes(q)' <=> Writes(q)
  BY <1>2, <1>3 DEF Writes
<1>5. Dest(q)' = Dest(q)
  BY <1>2, <1>3 DEF Dest
<1>6. Fixed(FcnCode(q))' = Fixed(FcnCode(q)) /\ Fixed(None)' = Fixed(None)
  BY <1>1 DEF Fixed
<1>7. ColumnsOf(q)' = ColumnsOf(q)
  BY <1>2, <1>3, <1>6 DEF ColumnsOf
<1>8. QED BY <1>4, <1>5, <1>7

\* A row of a packet goes under the columns its file was begun with.
LEMMA RowWritten ==
    ASSUME CsvInv, V1Build, Promised, UNCHANGED given,
           NEW CONSTANT p, Writes(p), NEW f \in Seq(Column), NEW g \in Seq(Column),
           f \o g = ColumnsOf(p), WriteRow(Dest(p), f, g)
    PROVE  Begun' /\ AllAligned'
<1> DEFINE name == Dest(p)
           columns == f \o g
           row == Cells(f, g)
<1>1. /\ columns \in Seq(Column) /\ row \in Seq(Cell)
      /\ Len(row) = Len(columns)
      /\ \A j \in 1 .. Len(columns) : row[j].col = columns[j]
  BY CellsStand DEF CsvInv
<1>2. files' = [n \in DOMAIN files \cup {name} |->
                  IF n = name
                    THEN [S!Opened(name, columns) EXCEPT !.rows = Append(@, row)]
                    ELSE files[n]]
  BY DEF WriteRow, S!Write, S!Render, Promised
<1>3. columns = ColumnsOf(p)
  OBVIOUS
<1> HIDE DEF name, columns, row
<1>4. S!Opened(name, columns) \in OutputFile /\ S!Opened(name, columns).columns = columns
  <2>1. CASE name \in DOMAIN files
    <3>1. PICK q \in Packet : Writes(q) /\ Dest(q) = name /\ files[name].columns = ColumnsOf(q)
      BY <2>1 DEF CsvInv, Begun
    <3>2. ColumnsOf(q) = ColumnsOf(p)
      BY <3>1, SameShape DEF CsvInv, Promised, name
    <3>3. QED BY <1>3, <2>1, <3>1, <3>2 DEF CsvInv, Begun, S!Opened
  <2>2. CASE name \notin DOMAIN files
    BY <1>1, <2>2 DEF S!Opened, OutputFile
  <2>3. QED BY <2>1, <2>2
<1> DEFINE file == S!Opened(name, columns)
<1>5. \A r \in DOMAIN file.rows :
         /\ Len(file.rows[r]) = Len(file.columns)
         /\ \A j \in 1 .. Len(file.columns) : file.rows[r][j].col = file.columns[j]
  <2>1. CASE name \in DOMAIN files
    BY <2>1 DEF CsvInv, AllAligned, S!Opened
  <2>2. CASE name \notin DOMAIN files
    BY <2>2 DEF S!Opened
  <2>3. QED BY <2>1, <2>2
<1> HIDE DEF file
<1>6. files'[name] = [columns |-> columns, rows |-> Append(file.rows, row)]
  BY <1>2, <1>4 DEF OutputFile, file
<1>7. files'[name] \in OutputFile
  BY <1>1, <1>4, <1>6 DEF OutputFile, file
<1>8. \A n \in DOMAIN files' : n = name \/ (n \in DOMAIN files /\ files'[n] = files[n])
  BY <1>2
<1>9. Begun'
  <2>1. SUFFICES ASSUME NEW n \in DOMAIN files'
                 PROVE  /\ files'[n] \in OutputFile
                        /\ \E q \in Packet : /\ Writes(q)' /\ Dest(q)' = n
                                             /\ files'[n].columns = ColumnsOf(q)'
    BY DEF Begun
  <2>2. CASE n = name
    <3>1. Writes(p)' /\ Dest(p)' = name /\ ColumnsOf(p)' = ColumnsOf(p)
      BY ShapeStays DEF name
    <3>2. p \in Packet
      BY DEF Writes
    <3>3. files'[name].columns = columns
      BY <1>6
    <3>4. QED BY <1>3, <1>7, <2>2, <3>1, <3>2, <3>3
  <2>3. CASE n # name
    <3>1. n \in DOMAIN files /\ files'[n] = files[n]
      BY <1>8, <2>3
    <3>2. PICK q \in Packet : Writes(q) /\ Dest(q) = n /\ files[n].columns = ColumnsOf(q)
      BY <3>1 DEF CsvInv, Begun
    <3>3. Writes(q)' /\ Dest(q)' = n /\ ColumnsOf(q)' = ColumnsOf(q)
      BY <3>2, ShapeStays
    <3>4. QED BY <3>1, <3>2, <3>3 DEF CsvInv, Begun
  <2>4. QED BY <2>2, <2>3
<1>10. AllAligned'
  <2>1. SUFFICES ASSUME NEW n \in DOMAIN files', NEW r \in DOMAIN files'[n].rows
                 PROVE  /\ Len(files'[n].rows[r]) = Len(files'[n].columns)
                        /\ \A j \in 1 .. Len(files'[n].columns) :
                              files'[n].rows[r][j].col = files'[n].columns[j]
    BY DEF AllAligned
  <2>2. CASE n = name
    <3>1. file.rows \in Seq(Seq(Cell)) /\ file.columns = columns
      BY <1>4 DEF OutputFile, file
    <3>2. files'[n].rows = Append(file.rows, row) /\ files'[n].columns = columns
      BY <1>6, <2>2
    <3>3. r \in 1 .. Len(file.rows) + 1
      BY <1>1, <2>1, <3>1, <3>2
    <3>4. CASE r = Len(file.rows) + 1
      <4>1. Append(file.rows, row)[r] = row
        BY <1>1, <3>1, <3>4
      <4>2. QED BY <1>1, <3>2, <4>1
    <3>5. CASE r \in 1 .. Len(file.rows)
      <4>1. Append(file.rows, row)[r] = file.rows[r] /\ r \in DOMAIN file.rows
        BY <1>1, <3>1, <3>5
      <4>2. QED BY <1>5, <3>1, <3>2, <4>1
    <3>6. r = Len(file.rows) + 1 \/ r \in 1 .. Len(file.rows)
      <4>1. Len(file.rows) \in Nat
        BY <3>1
      <4>2. QED BY <3>3, <4>1
    <3>7. QED BY <3>4, <3>5, <3>6
  <2>3. CASE n # name
    BY <1>8, <2>1, <2>3 DEF CsvInv, AllAligned
  <2>4. QED BY <2>2, <2>3
<1>11. QED BY <1>9, <1>10

-----------------------------------------------------------------------------

LEMMA PlaceInit == Init => Place
<1> SUFFICES ASSUME Init PROVE Place
  OBVIOUS
<1>1. inputs \in Inputs /\ dictionary \in Dictionaries /\ options \in Options /\ fileNo = 0
  BY DEF Init
<1>2. log = <<>> /\ delivered = <<>> /\ whole = {}
  BY DEF Init
<1>3. QED BY <1>1, <1>2 DEF Place

LEMMA RunInit == Init => RunInv
<1> SUFFICES ASSUME Init PROVE RunInv
  OBVIOUS
<1>1. Place
  BY PlaceInit
<1>2. DOMAIN files = {}
  BY DEF Init, S!SinkInit
<1>3. QED BY <1>1, <1>2 DEF RunInv, Begun, AllAligned

\* A step that writes no row.
LEMMA NoRow ==
    ASSUME CsvInv, UNCHANGED <<given, files>>
    PROVE  Begun' /\ AllAligned'
<1>1. AllAligned'
  BY DEF CsvInv, AllAligned
<1>2. ASSUME NEW n \in DOMAIN files
      PROVE  /\ files[n] \in OutputFile
             /\ \E q \in Packet : Writes(q)' /\ Dest(q)' = n /\ files[n].columns = ColumnsOf(q)'
  <2>1. PICK q \in Packet : Writes(q) /\ Dest(q) = n /\ files[n].columns = ColumnsOf(q)
    BY DEF CsvInv, Begun
  <2>2. Writes(q)' /\ Dest(q)' = n /\ ColumnsOf(q)' = ColumnsOf(q)
    BY <2>1, ShapeStays
  <2>3. QED BY <2>1, <2>2 DEF CsvInv, Begun
<1>3. QED BY <1>1, <1>2 DEF Begun

LEMMA PlaceKept == Place /\ [Next]_vars => Place'
<1> SUFFICES ASSUME Place, [Next]_vars PROVE Place'
  OBVIOUS
<1> USE DEF given, reading, counts
<1>1. Place
  OBVIOUS
<1>2. ASSUME UNCHANGED <<given, fileNo, log, whole, delivered>>
      PROVE  Place'
  BY <1>1, <1>2 DEF Place
<1>3. CASE NextFile
  <2>1. fileNo + 1 \in 1 .. Len(inputs) /\ fileNo' = fileNo + 1
    BY <1>1, <1>3 DEF NextFile, Place
  <2> DEFINE f == inputs[fileNo + 1]
  <2>2. f \in Input /\ IsInput(f)
    <3>1. inputs \in Seq(Input)
      BY <1>1, RunAssumption DEF Place
    <3>2. f \in Input
      BY <2>1, <3>1
    <3>3. QED BY <1>1, <2>1, <3>2, RunAssumption DEF Place
  <2>3. log' = f.log /\ whole' = 1 .. f.whole /\ delivered' = <<>> /\ UNCHANGED given
    BY <1>3, <2>1 DEF NextFile
  <2> HIDE DEF f
  <2>4. /\ f.log \in Seq(Packet) /\ f.whole \in Nat /\ f.whole <= Len(f.log)
        /\ \A k \in 1 .. Len(f.log) : MsgId(f.log[k]) \in DOMAIN RawFile
    BY <2>2 DEF Input, IsInput
  <2>5. whole' \subseteq 1 .. Len(f.log)
    BY <2>3, <2>4
  <2>6. fileNo' \in Nat
    BY <1>1, <2>1 DEF Place
  <2>7. QED BY <1>1, <2>3, <2>4, <2>5, <2>6 DEF Place
<1>4. CASE FileRefused \/ FileLost
  BY <1>2, <1>4 DEF FileRefused, FileLost, R!Refuse
<1>5. CASE FileOpens \/ FileEnds
  BY <1>2, <1>5 DEF FileOpens, FileEnds, R!Begin, R!End
<1>6. CASE HandlePacket
  <2>1. UNCHANGED <<given, fileNo, log, whole>>
    BY <1>6 DEF HandlePacket, R!Deliver
  <2>2. /\ delivered' = Append(delivered, log[Len(delivered) + 1])
        /\ Len(delivered) + 1 \in whole
    BY <1>6 DEF HandlePacket, R!Deliver, R!Next1
  <2>3. log[Len(delivered) + 1] \in Packet
    BY <1>1, <2>2 DEF Place
  <2>4. delivered' \in Seq(Packet)
    BY <1>1, <2>2, <2>3 DEF Place
  <2>5. QED BY <1>1, <2>1, <2>4 DEF Place
<1>7. CASE Report \/ UNCHANGED vars
  BY <1>2, <1>7 DEF Report, vars
<1>8. QED BY <1>3, <1>4, <1>5, <1>6, <1>7 DEF Next

LEMMA AlignedKept ==
    ASSUME V1Build, Promised, CsvInv, [Next]_vars
    PROVE  Begun' /\ AllAligned'
<1> USE DEF given
<1>1. Place
  BY DEF CsvInv
<1>2. CASE NextFile \/ FileOpens \/ FileEnds
  BY <1>2, NoRow DEF NextFile, FileOpens, FileEnds
<1>3. CASE FileRefused
  BY <1>3, NoRow DEF FileRefused
<1>4. CASE FileLost
  BY <1>4, NoRow DEF FileLost, S!Close
<1>5. CASE Report
  BY <1>5, NoRow DEF Report, S!Close
<1>6. CASE HandlePacket
  <2> DEFINE p == log[Len(delivered) + 1]
  <2>1. /\ UNCHANGED given
        /\ Len(delivered) + 1 \in whole
        /\ Unmapped(p) \/ Unwanted(p) \/ NoDecoder(p) \/ Decode(p)
    BY <1>6 DEF HandlePacket, R!Deliver, R!Next1
  <2>2. p \in Packet /\ MsgId(p) \in DOMAIN RawFile
    BY <1>1, <2>1 DEF Place
  <2> HIDE DEF p
  <2>3. CASE Unmapped(p) /\ WantedRaw(p)
    <3>1. Writes(p) /\ Dest(p) = RawFile[MsgId(p)] /\ ColumnsOf(p) = Fixed(None) \o <<"raw">>
      BY <2>2, <2>3 DEF Unmapped, Writes, Dest, ColumnsOf
    <3>2. WriteRow(Dest(p), Fixed(None), <<"raw">>)
      BY <2>3, <3>1 DEF Unmapped
    <3>3. <<"raw">> \in Seq(Column)
      BY DEF Column
    <3>4. QED BY <2>1, <3>1, <3>2, <3>3, FixedColumns, RowWritten
  <2>4. CASE Decode(p)
    <3>1. Mapped(p) /\ HasDecoder(p)
      BY <2>4 DEF Decode
    <3>2. /\ Writes(p) /\ Dest(p) = OutputName(p)
          /\ ColumnsOf(p) = Fixed(FcnCode(p)) \o DecoderFor(p).columns
      BY <2>2, <3>1 DEF Writes, Dest, ColumnsOf
    <3>3. WriteRow(Dest(p), Fixed(FcnCode(p)), DecoderFor(p).columns)
      BY <2>4, <3>2 DEF Decode
    <3>4. DecoderFor(p).columns \in Seq(Column)
      <4>1. DecoderFor(p).columns \in Seq(STRING)
        BY <1>1, <3>1, EntryFacts DEF Decoder
      <4>2. QED BY <4>1 DEF Column
    <3>5. QED BY <2>1, <3>2, <3>3, <3>4, FixedColumns, RowWritten
  <2>5. CASE (Unmapped(p) /\ ~WantedRaw(p)) \/ Unwanted(p) \/ NoDecoder(p)
    BY <2>1, <2>5, NoRow DEF Unmapped, Unwanted, NoDecoder
  <2>6. QED BY <2>1, <2>3, <2>4, <2>5
<1>7. CASE UNCHANGED vars
  BY <1>7, NoRow DEF vars
<1>8. QED BY <1>2, <1>3, <1>4, <1>5, <1>6, <1>7 DEF Next

\* What is promised of a run is settled by what it is given.
LEMMA PromiseStays == [Next]_vars => (Promised' <=> Promised)
<1> SUFFICES ASSUME [Next]_vars PROVE Promised' <=> Promised
  OBVIOUS
<1>1. UNCHANGED given
  BY DEF Next, vars, given, NextFile, FileRefused, FileLost, FileOpens, HandlePacket, FileEnds, Report
<1>2. dictionary' = dictionary /\ options' = options
  BY <1>1 DEF given
<1>3. NamesApart' <=> NamesApart
  BY <1>2 DEF NamesApart
<1>4. QED BY <1>2, <1>3 DEF Promised

LEMMA RunStep ==
    ASSUME V1Build
    PROVE  RunInv /\ [Next]_vars => RunInv'
<1> SUFFICES ASSUME RunInv, [Next]_vars PROVE RunInv'
  OBVIOUS
<1>1. Place'
  BY PlaceKept DEF RunInv
<1>2. CASE Promised
  BY <1>1, <1>2, AlignedKept DEF RunInv, CsvInv
<1>3. CASE ~Promised
  BY <1>1, <1>3, PromiseStays DEF RunInv
<1>4. QED BY <1>2, <1>3

-----------------------------------------------------------------------------

\* In a version 1 build, where no two decoders write one file, the cells of
\* every CSV stand under the columns they were computed for (_fixed,
\* CsvSink.write).
THEOREM AlignedInV1 ==
    ASSUME V1Build
    PROVE  Spec => []Aligned
<1>1. RunInv /\ [Next]_vars => RunInv'
  BY RunStep
<1>2. RunInv => Aligned
  BY DEF RunInv, Promised, Aligned
<1>3. QED BY RunInit, <1>1, <1>2, PTL DEF Spec
=============================================================================
