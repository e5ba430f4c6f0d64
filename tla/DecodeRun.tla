------------------------------ MODULE DecodeRun ------------------------------
(***************************************************************************)
(* One run of "dsdecode decode" (cli.py, cmd_decode) once the types and    *)
(* the mapping are loaded: every input file is read in turn, through the   *)
(* promise DsFile keeps (RecordedLog), every packet is looked up in the    *)
(* dictionary and given a row of the file its message is written to        *)
(* (Sink), and the counts are kept that the run reports.                   *)
(***************************************************************************)
EXTENDS CcsdsPacket, Bags, FiniteSets, Sequences

CONSTANTS
    Inputs,         \* the sequences of input files a run may be given
    Dictionaries,   \* the dictionaries Dictionary.load may have built
    Options,        \* [raw, epoch, wanted, format]: --unknown raw, --epoch,
                    \* --only and --format
    RawFile         \* message ID -> safe_name("MID_0x%04X")

\* An entry of a dictionary: its decoders by function code, None being the
\* default, and the file each of them writes.
Decoder == [columns : Seq(STRING), hasHeader : BOOLEAN, size : Nat]

\* (A negative code in a mapping matches no packet.)
Codes == Nat \cup {None}

IsEntry(e) ==
    /\ e.name \in STRING
    /\ DOMAIN e.decoders \subseteq Codes /\ DOMAIN e.decoders # {}
    /\ \A c \in DOMAIN e.decoders : e.decoders[c] \in Decoder
    /\ None \in DOMAIN e.file
    /\ DOMAIN e.decoders \subseteq DOMAIN e.file

Input == [outcome : {"ok", "refused", "lost"},
          log     : Seq(Packet),
          whole   : Nat,
          torn    : BOOLEAN]

IsInput(f) == /\ f \in Input
              /\ f.whole <= Len(f.log)
              /\ \A k \in 1 .. Len(f.log) : MsgId(f.log[k]) \in DOMAIN RawFile

ASSUME RunAssumption ==
    /\ Inputs \subseteq Seq(Input)
    /\ \A fs \in Inputs : \A i \in 1 .. Len(fs) : IsInput(fs[i])
    /\ \A d \in Dictionaries : \A m \in DOMAIN d : IsEntry(d[m])
    /\ \A o \in Options : /\ o.raw \in BOOLEAN /\ o.epoch \in BOOLEAN
                          /\ o.wanted.all \in BOOLEAN
                          /\ o.format \in {"csv", "jsonl"}

VARIABLES
    inputs, dictionary, options,                    \* what the run is given
    fileNo, pc,                                     \* where it is
    log, whole, torn, delivered, status, cut,       \* the file being read
    files, closed,                                  \* the sink
    decoded, unknown, perName, short, failures      \* the counts it reports

given == <<inputs, dictionary, options>>
reading == <<log, whole, torn, delivered, status, cut>>
counts == <<decoded, unknown, perName, short, failures>>
vars == <<given, fileNo, pc, reading, files, closed, counts>>

R == INSTANCE RecordedLog
S == INSTANCE Sink

-----------------------------------------------------------------------------
(* Where a packet goes.                                                    *)

Mapped(p) == MsgId(p) \in DOMAIN dictionary

Entry(p) == dictionary[MsgId(p)]

Wanted(m, names) == \/ options.wanted.all
                    \/ names \cap options.wanted.names # {}
                    \/ m \in options.wanted.ids

WantedMapped(p) == Wanted(MsgId(p), {Entry(p).name})

WantedRaw(p) == options.raw /\ Wanted(MsgId(p), {})

\* The key of the decoder that serves a function code, if there is one.
DecoderKey(e, fcn) == IF fcn \in DOMAIN e.decoders THEN fcn ELSE None

HasDecoder(p) == DecoderKey(Entry(p), FcnCode(p)) \in DOMAIN Entry(p).decoders

DecoderFor(p) == Entry(p).decoders[DecoderKey(Entry(p), FcnCode(p))]

\* Commands that decode per function code get their own file.
OutputName(p) == Entry(p).file[DecoderKey(Entry(p), FcnCode(p))]

FIXED_COLUMNS == <<"file", "pkt_index", "msgid", "apid", "seq", "length",
                   "time_sec", "time_subsec", "time">>

\* A bug: the function code is tested for truth, and 0 is a function code.
FixedIfTruthy(fcn) == FIXED_COLUMNS \o (IF options.epoch THEN <<"time_utc">> ELSE <<>>)
                                    \o (IF fcn > 0 THEN <<"fcn_code">> ELSE <<>>)

Fixed(fcn) == FIXED_COLUMNS \o (IF options.epoch THEN <<"time_utc">> ELSE <<>>)
                            \o (IF fcn # None THEN <<"fcn_code">> ELSE <<>>)

\* A packet is known by its input file and its place in it.
Here == <<fileNo, Len(delivered) + 1>>

\* The cells of one row, each with the column it was computed for.
Cells(fixed, payload) ==
    [i \in 1 .. Len(fixed \o payload) |->
        [col  |-> (fixed \o payload)[i],
         part |-> IF i <= Len(fixed) THEN "fixed" ELSE "payload",
         of   |-> Here]]

WriteRow(name, fixed, payload) ==
    S!Write(options.format, name, fixed \o payload, Cells(fixed, payload))

IsShort(p) ==
    LET base == IF DecoderFor(p).hasHeader THEN 0 ELSE PayloadOffset(p)
    IN  Total(p) < base + DecoderFor(p).size

Tally(bag, x) == bag (+) SetToBag({x})

-----------------------------------------------------------------------------

Init == /\ inputs \in Inputs
        /\ dictionary \in Dictionaries
        /\ options \in Options
        /\ fileNo = 0
        /\ pc = "next"
        /\ log = <<>> /\ whole = {} /\ torn = FALSE
        /\ delivered = <<>> /\ status = "opening" /\ cut = FALSE
        /\ S!SinkInit
        /\ decoded = 0
        /\ unknown = EmptyBag
        /\ perName = EmptyBag
        /\ short = 0
        /\ failures = 0

\* A bug: the contents read are still those of the file before.
NextFileStale ==
    /\ pc = "next"
    /\ fileNo < Len(inputs)
    /\ fileNo' = fileNo + 1
    /\ whole' = 1 .. inputs[fileNo'].whole
    /\ torn' = inputs[fileNo'].torn
    /\ delivered' = <<>>
    /\ status' = "opening"
    /\ cut' = FALSE
    /\ pc' = "opening"
    /\ UNCHANGED <<given, log, files, closed, counts>>

NextFile ==
    /\ pc = "next"
    /\ fileNo < Len(inputs)
    /\ fileNo' = fileNo + 1
    /\ log' = inputs[fileNo'].log
    /\ whole' = 1 .. inputs[fileNo'].whole
    /\ torn' = inputs[fileNo'].torn
    /\ delivered' = <<>>
    /\ status' = "opening"
    /\ cut' = FALSE
    /\ pc' = "opening"
    /\ UNCHANGED <<given, files, closed, counts>>

Outcome == inputs[fileNo].outcome

\* A bug: a file that cannot be opened ends the run.
RefusedEndsRun ==
    /\ pc = "opening"
    /\ Outcome = "refused"
    /\ R!Refuse
    /\ failures' = failures + 1
    /\ S!Close
    /\ pc' = "reported"
    /\ UNCHANGED <<given, fileNo, decoded, unknown, perName, short>>

\* The first open() fails: the file is passed over.
FileRefused ==
    /\ pc = "opening"
    /\ Outcome = "refused"
    /\ R!Refuse
    /\ failures' = failures + 1
    /\ pc' = "next"
    /\ UNCHANGED <<given, fileNo, files, closed, decoded, unknown, perName, short>>

\* A bug: the sink is closed on the way to the report only.
LostUnclosed ==
    /\ pc = "opening"
    /\ Outcome = "lost"
    /\ R!Refuse
    /\ pc' = "aborted"
    /\ UNCHANGED <<given, fileNo, files, closed, counts>>

\* The open() of the with statement fails: nothing catches it, and the run ends
\* with the sink closed and nothing reported.
FileLost ==
    /\ pc = "opening"
    /\ Outcome = "lost"
    /\ R!Refuse
    /\ S!Close
    /\ pc' = "aborted"
    /\ UNCHANGED <<given, fileNo, counts>>

FileOpens ==
    /\ pc = "opening"
    /\ Outcome = "ok"
    /\ R!Begin
    /\ pc' = "packets"
    /\ UNCHANGED <<given, fileNo, files, closed, counts>>

\* No entry: counted, and written as hex when that is asked for.
Unmapped(p) ==
    /\ ~Mapped(p)
    /\ unknown' = Tally(unknown, MsgId(p))
    /\ IF WantedRaw(p)
         THEN WriteRow(RawFile[MsgId(p)], Fixed(None), <<"raw">>)
         ELSE UNCHANGED <<files, closed>>
    /\ UNCHANGED <<pc, decoded, perName, short, failures>>

\* An entry --only does not name: passed over without a trace.
Unwanted(p) ==
    /\ Mapped(p)
    /\ ~WantedMapped(p)
    /\ UNCHANGED <<pc, files, closed, counts>>

\* A bug: a command without a decoder for its function code leaves no trace.
NoDecoderUncounted(p) ==
    /\ Mapped(p)
    /\ WantedMapped(p)
    /\ ~HasDecoder(p)
    /\ UNCHANGED <<pc, files, closed, counts>>

\* An entry without a decoder for this function code: counted as unmapped.
NoDecoder(p) ==
    /\ Mapped(p)
    /\ WantedMapped(p)
    /\ ~HasDecoder(p)
    /\ unknown' = Tally(unknown, MsgId(p))
    /\ UNCHANGED <<pc, files, closed, decoded, perName, short, failures>>

\* A bug: a packet too short for its struct is counted and gets no row.
DecodeWhole(p) ==
    /\ Mapped(p)
    /\ WantedMapped(p)
    /\ HasDecoder(p)
    /\ short' = IF IsShort(p) THEN short + 1 ELSE short
    /\ IF IsShort(p)
         THEN UNCHANGED <<files, closed>>
         ELSE WriteRow(OutputName(p), Fixed(FcnCode(p)), DecoderFor(p).columns)
    /\ decoded' = decoded + 1
    /\ perName' = Tally(perName, OutputName(p))
    /\ UNCHANGED <<pc, unknown, failures>>

Decode(p) ==
    /\ Mapped(p)
    /\ WantedMapped(p)
    /\ HasDecoder(p)
    /\ short' = IF IsShort(p) THEN short + 1 ELSE short
    /\ WriteRow(OutputName(p), Fixed(FcnCode(p)), DecoderFor(p).columns)
    /\ decoded' = decoded + 1
    /\ perName' = Tally(perName, OutputName(p))
    /\ UNCHANGED <<pc, unknown, failures>>

HandlePacket ==
    /\ pc = "packets"
    /\ R!Deliver
    /\ LET p == log[Len(delivered) + 1]
       IN  Unmapped(p) \/ Unwanted(p) \/ NoDecoder(p) \/ Decode(p)
    /\ UNCHANGED <<given, fileNo>>

FileEnds ==
    /\ pc = "packets"
    /\ R!End
    /\ pc' = "next"
    /\ UNCHANGED <<given, fileNo, files, closed, counts>>

Report ==
    /\ pc = "next"
    /\ fileNo = Len(inputs)
    /\ S!Close
    /\ pc' = "reported"
    /\ UNCHANGED <<given, fileNo, reading, counts>>

Next == \/ NextFile \/ FileRefused \/ FileLost \/ FileOpens
        \/ HandlePacket \/ FileEnds \/ Report

\* The run is one sequential program over files of finite length.
Spec == Init /\ [][Next]_vars /\ WF_vars(Next)

-----------------------------------------------------------------------------
(* Properties.                                                             *)

TypeOK == /\ \A f \in DOMAIN inputs : IsInput(inputs[f])
          /\ \A m \in DOMAIN dictionary : IsEntry(dictionary[m])
          /\ options.raw \in BOOLEAN /\ options.epoch \in BOOLEAN
          /\ options.format \in {"csv", "jsonl"}
          /\ fileNo \in 0 .. Len(inputs)
          /\ pc \in {"next", "opening", "packets", "reported", "aborted"}
          /\ log \in Seq(Packet) /\ delivered \in Seq(Packet)
          /\ whole \subseteq 1 .. Len(log)
          /\ torn \in BOOLEAN /\ cut \in BOOLEAN /\ closed \in BOOLEAN
          /\ status \in {"opening", "reading", "refused", "ended"}
          /\ {decoded, short, failures} \subseteq Nat
          /\ IsABag(unknown) /\ IsABag(perName)

\* No two decoders of the run's dictionary write one file, and no unmapped
\* message ID writes a decoder's.
NamesApart ==
    \A m \in DOMAIN dictionary : \A c \in DOMAIN dictionary[m].file :
       /\ \A n \in DOMAIN dictionary : \A b \in DOMAIN dictionary[n].file :
             dictionary[m].file[c] = dictionary[n].file[b] => m = n /\ c = b
       /\ \A r \in DOMAIN RawFile \ DOMAIN dictionary : RawFile[r] # dictionary[m].file[c]

AllAligned ==
    \A n \in DOMAIN files :
      \A r \in DOMAIN files[n].rows :
        /\ Len(files[n].rows[r]) = Len(files[n].columns)
        /\ \A j \in 1 .. Len(files[n].columns) :
              files[n].rows[r][j].col = files[n].columns[j]

\* Every cell of a CSV stands under the column it was computed for, however
\* the packets of one message ID differ; where names clash, a file is not one
\* message ID's (_fixed, CsvSink.write).
Aligned == options.format = "csv" /\ NamesApart => AllAligned

PacketAt(id) == inputs[id[1]].log[id[2]]

\* Every packet of the input files, by its name.
Packets == UNION {{f} \X DOMAIN inputs[f].log : f \in DOMAIN inputs}

ReadToTheEnd(f) == {id \in Packets : /\ id[1] = f
                                     /\ inputs[f].outcome = "ok"
                                     /\ id[2] <= inputs[f].whole}

\* The packets handled so far: all that were whole in the files already left,
\* and those delivered from the present one.
Handled == (UNION {ReadToTheEnd(f) : f \in 1 .. fileNo - 1})
             \cup {<<fileNo, i>> : i \in 1 .. Len(delivered)}

\* The file a packet is to have a row in.
GoesTo(p, n) ==
    IF Mapped(p)
      THEN WantedMapped(p) /\ HasDecoder(p) /\ OutputName(p) = n
      ELSE WantedRaw(p) /\ RawFile[MsgId(p)] = n

IdOf(row) == IF options.format = "csv" THEN row[1].of ELSE row["file"].of

\* The packets that have a row in a file, in the order of the rows.
Ids(n) == IF n \in DOMAIN files
            THEN [r \in DOMAIN files[n].rows |-> IdOf(files[n].rows[r])]
            ELSE <<>>

Earlier(a, b) == a[1] < b[1] \/ (a[1] = b[1] /\ a[2] < b[2])

FileNames == {RawFile[m] : m \in DOMAIN RawFile}
               \cup UNION {{dictionary[m].file[c] : c \in DOMAIN dictionary[m].file} :
                             m \in DOMAIN dictionary}

\* Each file holds exactly the rows of the packets that go to it, each once
\* and in the order they were recorded, across input files, and whatever
\* became of the other input files (cmd_decode, Sink).
RowsAreTheLog ==
    /\ \A n \in FileNames :
          /\ \A r \in 1 .. Len(Ids(n)) - 1 : Earlier(Ids(n)[r], Ids(n)[r + 1])
          /\ {Ids(n)[r] : r \in DOMAIN Ids(n)} = {id \in Handled : GoesTo(PacketAt(id), n)}
    /\ pc = "reported" => Handled = UNION {ReadToTheEnd(f) : f \in DOMAIN inputs}

\* A packet that is decoded, and one that is counted as unmapped.
Served(p) == Mapped(p) /\ WantedMapped(p) /\ HasDecoder(p)

Unserved(p) == Mapped(p) => WantedMapped(p) /\ ~HasDecoder(p)

Rows == UNION {{<<n, r>> : r \in DOMAIN files[n].rows} : n \in DOMAIN files}

DecodedRows == {r \in Rows : Mapped(PacketAt(Ids(r[1])[r[2]]))}

Count(bag, x) == IF x \in DOMAIN bag THEN bag[x] ELSE 0

\* Every packet read is counted once: decoded, unknown under its own ID, or
\* passed over because --only leaves it out; and the counts of decoded packets
\* are those of the rows on disk (cmd_decode, _report).
CountsAddUp ==
    /\ decoded + Cardinality({id \in Handled : Unserved(PacketAt(id))})
         + Cardinality({id \in Handled : LET p == PacketAt(id)
                                         IN  Mapped(p) /\ ~WantedMapped(p)})
       = Cardinality(Handled)
    /\ DOMAIN unknown \subseteq DOMAIN RawFile
    /\ \A m \in DOMAIN RawFile :
          Count(unknown, m) = Cardinality({id \in Handled : LET p == PacketAt(id)
                                                               IN  MsgId(p) = m /\ Unserved(p)})
    /\ decoded = Cardinality(DecodedRows)
    /\ DOMAIN perName \subseteq FileNames
    /\ \A n \in FileNames :
          Count(perName, n) = Cardinality({r \in DecodedRows : r[1] = n})
    /\ short = Cardinality({id \in Handled : LET p == PacketAt(id)
                                              IN  Served(p) /\ IsShort(p)})

\* The columns of the row a packet gets.
ColumnsOf(p) == IF Mapped(p)
                  THEN Fixed(FcnCode(p)) \o DecoderFor(p).columns
                  ELSE Fixed(None) \o <<"raw">>

\* The columns of the decoder's share of it.
PayloadOf(p) == IF Mapped(p) THEN DecoderFor(p).columns ELSE <<"raw">>

\* The cell of a column in a packet's row; of two columns of one name it is the
\* payload's.
CellOf(id, c) ==
    [col  |-> c,
     part |-> IF \E i \in DOMAIN PayloadOf(PacketAt(id)) : PayloadOf(PacketAt(id))[i] = c
                THEN "payload" ELSE "fixed",
     of   |-> id]

IsRecordOf(rec, id) ==
    LET columns == ColumnsOf(PacketAt(id))
    IN  rec = [c \in {columns[i] : i \in DOMAIN columns} |-> CellOf(id, c)]

\* A JSON record is its own packet's, whatever other packets share its file: it
\* has the columns of that packet's row and no others, a cell of that packet
\* under each, and no value of the payload is lost to a fixed column of the same
\* name (cmd_decode, JsonlSink.write).
RecordsAreTheirRows ==
    options.format = "jsonl" =>
        \A n \in DOMAIN files : \A r \in DOMAIN files[n].rows :
            IsRecordOf(files[n].rows[r], Ids(n)[r])

\* What a row has for the i-th fixed column.
FixedCell(row, i) == IF options.format = "csv" THEN row[i] ELSE row[FIXED_COLUMNS[i]]

\* Every row starts with the same fixed columns, in either format, and what is
\* under them is of the packet and not of its payload (_fixed; README.md,
\* "Every row starts with the same fixed columns").
RowsKeepFixed ==
    \A n \in DOMAIN files : \A r \in DOMAIN files[n].rows : \A i \in DOMAIN FIXED_COLUMNS :
        FixedCell(files[n].rows[r], i) =
            [col |-> FIXED_COLUMNS[i], part |-> "fixed", of |-> Ids(n)[r]]

\* A file holds the rows of one message ID (writers.py: "one file per message
\* ID").
OneMessagePerFile ==
    \A n \in DOMAIN files :
      \A r, q \in DOMAIN files[n].rows :
        MsgId(PacketAt(Ids(n)[r])) = MsgId(PacketAt(Ids(n)[q]))

\* The run ends, with its files closed.
Terminates == <>(closed /\ pc \in {"reported", "aborted"})
=============================================================================
