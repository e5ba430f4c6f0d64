# dsdecode in TLA+

`dsdecode` turns cFS Data Storage (DS) log files into CSV or JSON Lines. `extract` reads
struct layouts from the DWARF of a build into a type file; `decode` reads recorded Software
Bus messages with those types and a mapping from message IDs to structs; `info` summarises a
log. This directory models the program, checks the models with TLC on small instances, and
proves what matters most of them with TLAPS. Every definition is written from the code under
`src/dsdecode/`; `PROJECT.json` ("map") says from which lines.

## The system

| Component | State | Operations | Interacts with | What makes it correct |
| --- | --- | --- | --- | --- |
| Packet headers, geometry (`dsfile.py` `Geometry`, `_make_packet`) | none (pure) | message ID, function code, payload offset | reader, decode | the ID and code of the build's CCSDS version |
| DS file reader (`dsfile.py` `DsFile`) | handle, header mode, data offset, truncated | `open`, `__enter__`, `_read_headers`, `packets`, `close` | the file, which the recorder may still extend; the caller, between two packets | packets tile the file; header state is consistent over both opens; torn is reported, once |
| Sinks (`writers.py`) | open files and their columns | `write`, `close` | decode | a cell is under its own column; one file per message ID; nothing lost |
| decode command (`cli.py` `cmd_decode`) | counts, the sink, the current file | the packet loop, the report, the exit code | all of the above | every packet is accounted for once; a bad file does not cost the others their rows |
| extract command (`cli.py` `cmd_extract`) | the type file | refuse the mapping, extract, open, dump | mapping, extractor; decode, through the file | a failed extract leaves the type file alone; what it filters by is enough for decode |
| info command (`cli.py` `main`, `cmd_info`; `dsfile.py` `summarize`) | counts, reports, the output buffer | one summary per file, printed to a reader that may stop | reader | a report is that of its own file; the exit status says what happened |
| Mapping (`dictionary.py` `read_mapping`) | none (pure) | hand-written and generated files to entries | extract, dictionary | both commands read one file alike; which item becomes which entry |
| Dictionary and names (`dictionary.py` `Dictionary.load`, `_NameIndex`; `dwarf.py` `NameFilter`) | entries by message ID | one mapping entry after another | registry, struct compiler | who wins when an ID is given twice; absent structs cost nothing else; both lookups agree |
| Struct compiler (`decode.py` `compile_struct`, `_Builder`, union plans) | fields, names used, what is dropped | walks a type into fields | registry | unique columns; a byte stored has a column or a report |
| Row decoding (`decode.py` `Decoder`) | none (pure) | one cell per column | decode | width is constant; a cell shows its own column's bytes, or nothing |
| DWARF extractor (`dwarf.py`) | registry, keys and entries being read, typedef names, filter | an entry at a time, per unit and file | registry | the layouts are the build's, whatever the order of the entries and the filter |
| Type registry (`typemodel.py`) | types | `resolve`, `typedef_chain`, `sizeof`, keys | extractor, compiler | resolution ends, also with cycles |
| Arguments, printing (`cli.py`) | none | | | not modelled: pure input and output |

The program has one thread. What is hard about it is outside: files that are still being
written, torn or gone when they are read; a reader that is opened twice; many inputs feeding
one set of outputs whose headers are fixed by the first row; mappings and type files made at
different times from different builds. The list, with lines, is "hazards" in `PROJECT.json`.

## The modules

* **`CcsdsPacket`**: `_make_packet` and `Geometry` as operators. A packet is the record of
  the header bits the code tells apart. Its payload is left out, and so is its time stamp.
* **`RecordedLog`**: the abstract promise of reading one log: `Refuse`, or `Begin`, one
  `Deliver` per whole message, `End`; the recorder's `Record` may come at any time. It knows
  nothing of bytes, offsets, headers or opens.
* **`DsFile`**: the reader. `image` is the file's whole content as the recorder will have laid
  it, `size` how many bytes of it are on disk, `exists` whether the path still names it; `Grow`
  and `Unlink` change them at any time. Each `read()` of the code is one action, because the
  file may change between two reads: `Open`/`OpenFails`; `SkipHeaders`, `ReadHeaderless`,
  `ReadFsHeader`, `ReadDsHeader`, `RefuseHeaders` for `_read_headers`; `Walk`, `ReadPrimary`,
  `Yield`, `Resume`, `EndClean`, `EndTorn` for the generator `packets()`; `Close`. `pc` is the
  place of the next read. `needed` is the number of opens the caller makes: `summarize` enters
  the reader (one), `cmd_decode` opens it and then enters it (two). `Log` is the refinement
  mapping to `RecordedLog`.
* **`Sink`**: the output files as functions from names to header and rows. A cell carries the
  column it was computed for, so that a cell under a wrong column can be told.
* **`DecodeRun`**: the loop of `cmd_decode`, one action per packet, composed of `RecordedLog`
  (instance `R`: what reading a file promises, which `DsFile` is shown to keep) and `Sink`
  (instance `S`). `HandlePacket` is the whole loop body in its four ways: `Unmapped`,
  `Unwanted`, `NoDecoder`, `Decode`. An input file is `ok`, `refused` (the guarded `open()`
  fails: `FileRefused`, next file) or `lost` (the `with` statement's `open()` fails: the
  exception leaves the loop through `finally`: `FileLost`). The dictionary is any that
  `Dictionary.load` can build: a decoder per function code and a default, with or without a
  header of its own.
* **`Info`**: a run of `info`, the second client of `RecordedLog`. `LoadTypes`; then per file
  `NextFile`, `FileRefused` or `FileOpens`, `CountPacket` for each packet, `FileEnds`; then
  `StartPrinting` and `PrintReport`. Printing goes into a buffer (`printed`, of which `sent` has
  gone out) that may `Spill` anywhere and must be empty before `Return`. `StopReading` is the
  reader at the other end of the pipe, who may leave at any time; the next write is then a
  `BrokenPipe`.
* **`TypeRegistry`**: keys, nodes and the lookups `resolve`, `typedef_chain` and `sizeof`, cycles
  included. A key is a sequence, so that the synthetic names of arrays, pointers and nameless
  types are told apart by what they are made from.
* **`Names`**: `NameFilter` (`Wants`, `Matches`, `Resolution`) and `_NameIndex` (`Found`), the two
  ways a mapping's struct name comes to a type. A name is the sequence of its parts; folding case
  is a constant function on parts, because it need not be injective.
* **`MsgHeader`**, **`Unions`**, **`StructCompiler`**: the header of a message type, the declared
  use of a union, and what the walk from a type to fields is made of: pieces, fields, their unique
  names, and how a field is read from a packet. Pure operators, none of them recursive.
* **`MessageDecoder`**: `compile_struct` and `Decoder`. The recursive calls of the code are `todo`,
  the list of what is still to be walked: each step takes the first of it and puts in its place what
  the code would call for. There is an action for each way a member or an element is dealt with:
  `WalkBits`, `Drop`, `WalkScalar`, `WalkMembers` (structs and untagged unions), `WalkTagged`,
  `WalkText`, `WalkVector`, `WalkElements`. The code collects an alternative's fields in a list of its
  own (`_collect`) and makes one `_Switch` of them; here a field says which list it is `into`, 1 being
  the message's own, and a task behind the alternatives makes the field (`MakeSwitch`) that takes those
  of their lists. The fields of all lists are in `made`, in the order they were made, and a switch
  refers to what it takes by its place there. `Refuse`, `Begin` and `Finish` are the rest of
  `compile_struct`; `Decode` is one packet of any length whose identifiers read as anything. `Places`
  and `Stores` are the reference: what a message stores, read off the types alone, level by level.
* **`DieReader`**: `_key_for_die` and what it calls, for every kind of entry. The recursion of the
  code is a stack, `calls`, the innermost call last: `Call` enters an entry whose type is not known
  yet; `TakeChild` takes a member in, its type read; `Build` is the end of `_build`, a disjunct for
  each kind of entry, and returns its key to the caller; `Unwind` is an exception, which leaves
  every call at once. An entry that was read or is being read is answered without a call
  (`Answered`). A call is the entry, whether its name was known when it was called (`known`), what
  it has still to read (`left`) and the members so far.
* **`Extractor`**: `extract` a step at a time: `OpenFile`, `ReadUnit`; for each entry the unit
  keeps, `CallType` (for the walk or for the entry being read), `ReadOn`, and `EndType` or, after an
  exception, `PassOver`; then `CloseFile` and `Finish`.
* **`Layouts`**: `DieLayout`, the reference for what an entry stores, read off the entries alone, and
  `NodeLayout`, the same of the registry. They follow types to any depth and are recursive; only
  TLC's runs use them.
* **`Mapping`**: `read_mapping` for both shapes of file, from parsed JSON on.
* **`Dictionary`**: `Dictionary.load`: `ResolveUnions`, then for each entry `FailEntry`,
  `DropEntry` or `AddEntry`, then `EndLoad`.
* **`Pipeline`**: composes `Extractor` and `Dictionary` through the type file: a session is a
  sequence of `extract` and `decode` commands. Opening the type file empties it (`OpenOutput`), and
  an interruption before `Dump` leaves it `Torn`.
* **`MCDsFile`, `MCDecodeRun`, `MCInfo`, `MCMessageDecoder`, `MCPipeline`**: the instances TLC
  checks.
* **`DsFileProofs`**, **`DecodeRunProofs`**, **`DecodeRowsProofs`**, **`DictionaryProofs`**,
  **`MessageDecoderProofs`**, **`PipelineProofs`**, **`InfoProofs`**: the theorems.
  **`RegistryProofs`**: lemmas on sequences, arrays and lookups that `MessageDecoderProofs` and
  `PipelineProofs` need.

`DsFile` implements `RecordedLog`, on which `DecodeRun` and `Info` are built; `DieReader` is in
`Extractor`, and that and `Dictionary` in `Pipeline`, which `MCPipeline` takes with `Layouts`; `StructCompiler` is in `MessageDecoder`.
`DecodeRun` takes any dictionary that `Pipeline` may load.

Definitions whose comment starts "A bug:" are mutations of the definition after them. Nothing
uses them; putting one in the place of its original shows that a property can fail.

## The runs

| Run | Shows |
| --- | --- |
| `dsfile` | `Tiles`: what is yielded covers the file from the data offset, gapless, numbered from 0, inside the bytes on disk. `LayoutSettled`, `ModeSticks`: header mode and data offset fit each other, and the second open does not overturn the first. `WarnsOnce`: no warning twice, and `truncated` is what was warned about. `Terminates`. |
| `dsfile_log` | `ReadsTheLog`: the reader implements `RecordedLog`, its fairness included. |
| `decode` | Both formats, version 1 headers. `Aligned`: a CSV's cells stand under their columns. `RowsAreTheLog`: a file holds the rows of its packets, each once, in order. `RecordsAreTheirRows`: a JSON record is its own packet's, whatever shares its file. `CountsAddUp`, `Terminates`. |
| `decode_json_fixed` | a finding: `RowsKeepFixed` fails when a payload's member is named like a fixed column. |
| `decode_v2_csv` | a finding: `Aligned` fails for CSV in version 2 builds. |
| `decode_names` | a finding: `OneMessagePerFile` fails when two names come to one file name. |
| `compile` | `ColumnsDistinct`; `EveryLeafAccounted`: whatever a message stores has a column or was reported; `ColumnsShowTheirLeaves`: a column shows the bytes its path names; `CellsAreTheirColumns`, `WholePacketFillsRow`: a row's cells for packets of any length. |
| `compile_nested` | a finding: `EveryLeafAccounted` fails for a tagged union inside an alternative of another. |
| `extract_load` | `CallsNest` of the reading of entries; `Closed`, `TypesStay`, `LayoutsAreTheBuilds`, `ConflictsReported` of the registry; `FilterMirrorsIndex` and `ExtractedLoads` between extract and decode; `FirstUsableWins`, `EveryEntryAccounted`, `DecodersAreTheStructs` of the dictionary. |
| `extract_forward` | a finding: `TypedefsFindTheirStruct` fails when the typedef is met first. |
| `extract_nameless` | a finding: `LayoutsAreTheBuilds` fails for nameless structs that differ in bit widths. |
| `info` | `SummariesAreTheLogs`, `StatusMeansWhatItSays`, `Terminates`. |

**Bounds.** A file has up to two messages, of 7 or 10 bytes (the smallest the length field
allows, and one that ends after a second read), with headers of the default 64 and 76 bytes or
none. It may be caught at any size that matters to a read: each header's and packet's end,
each primary header's end, and the byte before each of those. Two messages are needed for a
gap or an overlap; everything else shows with one. A decode has two input files of up to three
messages together, of up to seven kinds: telemetry whole and short; commands with a code that
has a decoder, one that has none but a default, one the entry does not know; a bare command;
an unmapped ID. Two files are needed for an order across files and for a bad file that must
not cost another its rows. `--unknown raw` with `--epoch`, the format and, for CSV, `--only` vary, and so
does whether two entries come to one file name. One command's payload has a member named `time`, as a
fixed column is.

`info` has one file or two, the first of up to three messages, of two message IDs and three
lengths, so that a least and a greatest length move apart and a count could go on into the next
file. A reader may stop at every step.

`compile` has 34 jobs: message types chosen so that every branch of the walk is taken, under each
way their unions may be declared and misdeclared. `MaxDepth` stands for the code's 32 and is 5, one
more than the nesting of every type but the one made to pass it; `Levels`, how deep the reference
looks, is more than `MaxDepth`. Packet lengths are below, at and
past field ends; identifiers are two declared values, 0 and one that is not declared. One identifier
is a float and cannot be read.

`extract_load` has 47 sessions over builds drawn from 80 entries: every kind of entry, several files
and units in several orders, a file that is not there, a unit that cannot be parsed, entries that
raise; mappings old, new, of both shapes, and some the program refuses. A build is bounded; the
order of the entries within a unit is fixed, and the orders of files are what varies it.

**Fairness.** `WF_vars(Reader)` and `WF_vars(Next)` of the run say that a sequential program
keeps running; its steps are never disabled by another party for ever. Nothing is assumed of
the recorder: the file may grow or not. `Terminates` of the reader holds on a file that grows,
because what the recorder will have written is finite. `WF_vars(Program)` of `Info` is the same for that command; whether its reader stops is left
open. `MessageDecoder` and `Pipeline` state no fairness. Each step of theirs consumes something
(a member, an entry, a unit, a command), and `extract_load` checks for deadlock, so that a session
cannot stick before its last command.

**Preconditions.** `ReadsTheLog` is stated for `InitLegible` starts: the caller does not ask for a
headerless file where there is a header, and `auto` finds the whole cFE header there. Otherwise
the code reads headers as packets, which is what `auto` documents. `Tiles` and the rest of
`dsfile` hold without it: `junk` is what a header reads as when it is taken for a packet.
`LayoutsAreTheBuilds` is stated for builds about which nothing was warned and no name is in
conflict: after a report, the layouts are no longer promised. `FilterMirrorsIndex` leaves out names
that match an enum: `NameFilter` matches enums and `_NameIndex` has none, so that such a name is
resolved when extracted and refused when decoded, with a message of its own. It is stated for
extractions in which no entry was passed over: what was entered before an exception is in the type
file and was not recorded for the name. `ExtractedLoads` is not about names that came to enums only, for
the same reason as `FilterMirrorsIndex`. `TypesStay` and `ConflictsReported` name the two ways in
which a typedef of a struct's name escapes them (see below).

## Findings

1. **Rows of one CSV differ in shape** (`decode_v2_csv`). `_fixed` adds `fcn_code` only if the
   packet has one. A version 1 message ID holds the command and secondary-header bits, so all
   packets of a file agree. A version 2 ID does not, and a command without a secondary header,
   or too short to reach its code, is written into the file of those that have one.
   `src/README.md:299` says "Every row starts with the same fixed columns".
2. **A record without a fixed column** (`decode_json_fixed`). The columns of a decoder are put behind
   the fixed ones (`src/dsdecode/cli.py:323`) and a record is `dict(zip(columns, row))`
   (`src/dsdecode/writers.py:101`), so that a member called `time`, `seq`, `length` or `file` takes the
   place of the packet's own. `src/README.md:299` says that every row has them, and its table what
   they are. `RecordsAreTheirRows` says what a record has instead: nothing else goes.
3. **Two message IDs in one file** (`decode_names`). The output name is `safe_name` of the
   entry's name, which is not injective; `src/dsdecode/writers.py:1` says "one file per message
   ID".
4. **Columns lost without a report** (`compile_nested`). The inner of two nested tagged unions
   whose identifiers are in one place stands where the outer's identifier is, and goes with the
   copies of it that are left out (`src/dsdecode/decode.py:585`). `src/README.md:175` says "The row
   keeps every alternative's columns". Nothing else gets lost: `LeavesAccountedAlways`.
5. **A typedef of void** (`extract_forward`). A typedef of a declared struct that is read before
   the struct's definition is registered with void as its target and stays that
   (`src/dsdecode/dwarf.py:532` and `:512`), though the definition is in the type file.
6. **Two layouts in one type** (`extract_nameless`). The signature of a nameless type leaves out
   the widths of bit fields (`src/dsdecode/dwarf.py:559`).

Met while modelling, and not checked as a property, because nothing says otherwise or only the
model's edge is touched:

* `NameFilter.wants` takes the own name of a type to have one part. A template instance whose
  arguments have parts of their own may be turned away although `match` would take it by its tail,
  against the comment at `src/dsdecode/dwarf.py:229` (`WantsWhatMatches` states the condition).
* A CSV has two columns of one name where a payload's member is named like a fixed column; both cells
  are there.
* A message type that is itself a union is walked member by member at the top, whatever `unions`
  declares for it.
* A member that cannot be read leaves its struct registered without members, and a good definition
  met later keeps that placeholder; the first one was reported.
* A typedef whose type reference is bad ends the whole extraction when it is noted
  (`src/dsdecode/dwarf.py:379`), where the same reference in an entry that is read costs that entry
  only (`:399`). The model has both (`crashed`, `failed`).
* Two definitions of one name and size but different layouts are not told apart (`:551`).
* Struct tags and typedef names share the registry's names, as they do not in C. A typedef has no
  size, so that a definition of another size under its name is not in conflict with it
  (`dwarf.py:550`); `ConflictsReported` leaves such names out.
* `_build_typedef` looks whether its name is taken, reads its target, and then enters the name without
  looking again (`dwarf.py:532`). Should a type met while the target is read have that name, the typedef
  replaces it. That takes two typedefs of one name, one in the other's target; typedefs local to
  functions are named as if they were global. `TypesStay` states this exception.
* The byte order in the type file is that of the last file read; `_Bits` reads little-endian.
* In a generated map, a function code that is not an object goes unmentioned; of one given twice
  the last struct counts.
* The alternatives of a tagged union whose identifier cannot be read have no columns. This is
  reported, under the identifier's name.
* The type file is written in place: an interrupted extract loses the one before.
* `decode` returns 0 though files were refused, if a packet was decoded (`cli.py:334`).

## Proofs

**`DsFileProofs`** proves, for every set of files, every set of sizes they may be caught at and
every geometry allowed by `GeometryAssumption` and `FileAssumption`: `TypeOK`, `Tiles`,
`LayoutSettled`, `WarnsOnce` as invariants of `Spec`, and `ModeSticks`.

`Tiles` says nothing about where the next packet is read, and is not inductive. `IndInv` adds
what each phase has established: while a packet is being read, `offset` is the frontier (the end
of the last packet yielded, or the data offset) and `index` the number of packets yielded, and
the frontier is inside the bytes on disk; after a yield, `offset` is still the start of the last
one; before the walk nothing is yielded, so that a new data offset cannot disturb what is; an
undecided mode means that nothing was warned about, so that "headerless" is said once; and
`truncated` is set only on the way to the end, so that "torn" is. `TypeKept`, `TilesKept`,
`PhasedKept` and `WarnedKept` show one conjunct each to be kept by every action, with a step per
action; `TilesYield` is the step where the cover grows.

The same module proves that the reader implements `RecordedLog`, its fairness aside
(`LogImplemented`). It adds to `IndInv` that the layout found is the one recorded
(`HeaderFound`) and that the packets yielded are the first messages, the next one beginning at
`offset` (`InStep`). A file ends no later than its last message, so a primary header that could
be read is that of a message there is (`RestIsNext`). The two ends of a walk need most: at a
clean end no message is torn (`NoneLeft`), at the other one the next message is (`NextIsTorn`).

**`DecodeRunProofs`** proves `AlignedInV1`: in a version 1 build with six-byte message headers
(`V1Build`), `Aligned` holds, that is, every cell of a CSV stands under its column where no two decoders
write one file (`NamesApart`). The invariant
(`Begun`) says that each file was begun by a packet that goes to it, under its columns. Two
packets that go to one file have one message ID and one decoder, and a version 1 message ID
holds the two bits that decide whether there is a function code (`IdTellsCode`), so they have
one shape (`SameShape`). Both conditions are needed: the findings are what happens without.

**`DecodeRowsProofs`** proves what a decode leaves behind, in both formats and for any version of
the headers: `RowsAreTheLog`, `CountsAddUp`, `TypeOK`, and `RecordsAreTheirRows` for JSON. None of
them needs names or columns to be distinct. The argument turns on `Handled`, the set of the
packets handled so far, each known by its file and its place in it: handling a packet adds the one
the run is at (`HandledGrows`), which comes after all the others (`HandledBefore`), and no other step
changes the set (`HandledStays`), not even the one that goes on to the next file; for that, `Position`
says how many packets a file that was left has given. A file is then the rows of the packets in
`Handled` that go to it (`RowsInv`): a new row is the last, and for the packet that is added
(`FileExtended`), and every other file is as it was (`FileKept`). `CountsInv` states the counts by
cardinalities of subsets of `Handled` and of the set of rows, each of which grows by one element or
none, so that nothing has to be summed. `RecordsInv` says of every record that it is that of the packet
it is known by, which a new record is (`RecordMade`) and no later step changes (`RecordStays`): what a
packet's record has depends on what the run was given only. Of two columns of one name, `dict(zip(...))`
keeps the last: there is one, by the well-foundedness of `<` (`LastPlace`), and it is the payload's
exactly if the payload has the name (`LastIsPayload`). Rows of one file differ in shape in version 2
builds and where names clash; the run has the second, the theorem both.

`FileAssumption` states that message starts increase, which follows from the lengths by an
induction over the messages that the prover cannot do.

**`DictionaryProofs`** proves, for every type file and every mapping `ReadMapping` may give
(`IsReading`), the three promises of `Dictionary.load`: `EveryEntryAccounted`, `FirstUsableWins` and
`DecodersAreTheStructs`, for one load after another (`LoadSpec`). That a kept entry came first is
not inductive: nothing says that what a message ID holds is usable, or that what a doubled entry gave
way to is there. `LoadInv` adds both (`KeptAreTheirs`, `DoubledAreKept`) and that a load begins with
nothing (`AtEntry`). `CompiledFaithfully` is the step where an entry is added: an entry none of whose
structs fails has for each code the one type its struct's name finds.

It also proves that the two name lookups agree, for every registry and mapping: the types
of the best rule recorded by `NameFilter` are those of the first table of `_NameIndex` that has any
(`FilterAgreesWithIndex`), once every type either may name was read (`AllRecorded`); and that
`NameFilter.wants` turns away nothing `match` accepts (`WantsWhatMatches`). Folding case is any
function on parts. What remains to TLC is that an extraction does read them all
(`FilterMirrorsIndex`).

**`MessageDecoderProofs`** proves, for every type file, message type, mapping of unions, option and
packet: `TypeOK`, `ColumnsDistinct`, `CellsAreTheirColumns`, `WholePacketFillsRow`,
`ColumnsShowTheirLeaves`, and `EveryLeafAccounted` under the condition the finding shows to be needed. The assumptions are what the code relies on without a look: nodes and declarations have the shape `typemodel.py` and
`UnionUse` give them (`TypesAssumption`, `JobsAssumption`), and members lie inside what they are members
of, and elements inside their array, as in anything a compiler laid out (`LayoutAssumption`).

* `Typed` types the work list and the fields: what is to be walked lies inside the message, a tagged
  union's task knows lists that were opened (`IsTask`), a switch takes fields made before it and has
  their names, one after another (`IsMade`). For that, a tag path must end inside the union
  (`TaggedFacts`), and rows and elements inside their array.
* Distinct names do not follow from `_unique` alone: the field of a tagged union has the names of what it
  takes, given once already. `Linked` is the invariant needed: a field is taken once at most, never one
  of the message's own and never one that a task still waits for (`TakenInner`, `TakenOnce`,
  `AwaitedOnce`), and two fields share a name only if the later one is a switch and the earlier one was
  taken, by it or by one made before it (`SharedTaken`). The columns are those of the message's own
  fields, which nothing takes.
* `CellsAreTheirColumns` relates a cell to a column through any nesting of alternatives. `Right` says
  of a field that each of its cells shows its name's bytes inside the packet and that every switch made
  so far which has that name is one whose identifier selects it (`ChosenBy`). It holds of a plain field
  because nothing made before can share its name, and of a switch because what it takes was taken by
  nothing else (`TakenAlone`); `AllRight` goes from field to field. `FlattenParallel` carries it to the
  row: what is laid end to end alike stays in the same places.
* `WholePacketFillsRow` follows in the same way, every field being inside the message (`AllFilled`).
* `ColumnsShowTheirLeaves` relates the walk of the code, a list of tasks with offsets and depths carried
  along, to the reference `Level`, which lays the type tree out level by level from the types alone.
  `Placed` says that each task still to be walked stands at a place of the level of its depth, with that
  place's path, bytes and bits, and that each name of each field made is that of something stored. One
  lemma for each way to walk shows it kept: what the code puts on its list for a member (`MembersPlaced`),
  an element (`ElementsPlace`), a row of text (`PlacedRows`) or an alternative (`PlacedTagged`) is what the
  reference has inside that place. A column is then one of the message's own fields' names, and those of a
  switch are those of plain fields (`AllNamed`).
* `EveryLeafAccounted` is the converse and is false of some mappings (see Findings). What is proved is
  that the finding is the only way to lose a leaf: `LeavesAccountedAlways` has it of every message in
  which no tagged union's own field was left out by the one around it (`LeftOut = {}`, which the jobs of
  `compile` all end with and one of `compile_nested` does not). Going down the types needs an invariant
  about what is *not* in any list yet. `Accounted` says that there are places, those walked so far, such
  that everything within them is one of them, or a task waits for it, or it was reported, or it has
  nothing within and all that it stores is held (`Closing`). Held is a leaf that was reported, that lies
  in the identifier of a union it is an alternative of, that is a text still to be added, or that has a
  field; and the field must be the message's own, taken by a switch, or into a list that a later task
  takes, whose identifier is one of those over the leaf (`OnTime`). So when a switch leaves a field out,
  the field lies in an identifier the leaf is a copy of (`CopiesInside`). One lemma for each way to walk
  shows that what waits at the head of the list is dealt with (`Passes`) and `AccountedStep` that the rest
  is kept. When nothing waits any more, every place of every level is one of them (`AllDone`), and from
  switch to switch each field's names are among the columns (`TakenShown`).

What a flattened sequence or an array's number of elements is, for any length, is proved as described
next (`RegistryProofs`).

**`PipelineProofs`** proves of every session, over every build, filter and mapping file, what one
command leaves to another. The assumptions are those on the input: entries refer to entries and hold
integers (`DiesAssumption`), no name in the build reads like one the extractor makes up
(`NamesAssumption`), units and sessions are sequences of such entries and of files that may be given
(`FilesAssumption`, `SessionsAssumption`), and no function code is the value that stands for the
default (`MappingsAssumption`). Nothing is assumed of the order of entries, of what raises or of what
is passed over.

* `Closed`, the registry refers to nothing it does not hold, is not inductive: an entry's members are
  gathered while it is read and only then enter the registry. `ReaderInv` types what the calls hold
  (`Frames`) and adds `NamesOK`: the placeholder of each composite being read is still there, and no
  call further in was made for that name. Each way to end an entry is shown to return a key of the
  registry that it leaves closed (`Returns`: `BaseReturns` to `VoidReturns`), so that `Return` hands
  its caller a key that is there (`ReturnKeeps`).
* `CallsNest` needs the place of the walk (`WalkInv`): the outermost call is the entry the walk is at.
* `TypesStay` is an action property: `StepStays` follows from the nesting of calls and `NamesOK`. An
  exception may leave a composite's placeholder as it is, without members (see Findings).
* `ConflictsReported` needs that a nameless type holds the size its key says (`AnonSized`), because a
  nameless definition met again is not compared by the code at all.
* `SessionsLoad`: a session implements `LoadSpec`, with stuttering for all that is not a load.
  `MappingRead` shows that `ReadMapping` gives what `IsReading` asks, for both shapes of mapping file.
  So what `DictionaryProofs` shows of `LoadSpec` is true of sessions (`SessionPromises`).
* `ExtractedLoads` relates an extraction to a load that may come several commands later, through the
  file. `RootsInv` carries it: what was recorded for a name is a match by its rule (`MatchedOK`), of the
  registry and of the file (`RootsMatch`), so the index has it (`MatchedIsFound`); and a load that
  stopped at an unknown struct stopped at one for which nothing was found (`UnknownIsUnknown`).
* `TypeOK` of `Pipeline` collects what the rest establishes.

`Keeping` and `TotalSize` are recursive functions of a number, of which the library's induction
cannot be used (it takes an operator). `RecursionExists` gets what is needed from the least number at
which it would fail (`LeastOf`): the function exists and satisfies its equation up to any length, which
`KeepingSteps` and `TotalSizeType` use. That sorted members are the same members is `SortedType`: as
many distinct places are taken as there are (`PlacesAreTaken`).

**`InfoProofs`** proves, for every sequence of input files, `TypeOK`, `SummariesAreTheLogs` and
`StatusMeansWhatItSays`. `InfoInv` has five parts: what was given stays; the packets read are the
first of the file's log, and counted (`InFile`); each file passed has a report of its own or a
failure, in order (`Reported`); what is printed is the first part of what there is to print
(`Printing`); and how the run ended (`Ended`). `Counted` states the counts by cardinalities of sets
of places, which grow by one place with a packet (`PlacesCounted`), so that no induction over the
log is needed: `TallyCounts` is the step.

Only model-checked:

* `Terminates` of the three specifications that have it, and the fairness part of `ReadsTheLog`:
  liveness is out of the prover's reach.
* `EveryLeafAccounted` of `MessageDecoder` without the condition under which it is proved: it does not
  hold of every mapping (see Findings).
* `LayoutsAreTheBuilds` follows types to any depth, by recursive operators; what those compute for every
  type is an induction over the type.
* `FilterMirrorsIndex`: `FilterAgreesWithIndex` is the half of it that is about the rules. The other,
  that every type an index finds was read for the name, holds only of builds in which no base type has
  the name of a struct, and in which an entry is reached by a reference only if its own unit parses; the
  sessions of `extract_load` have both.

## Not modelled

* **Argument parsing and reports**: `argparse`, the layout of what is printed, the wording of
  warnings.
* **ELF and DWARF bytes**: `pyelftools` finds units, entries and attributes. The model begins with
  parsed entries; what fails to parse is an input (`readable`, `parses`, a bad reference). Location
  expressions of member offsets are taken as the number they come to.
* **JSON**: the text of mapping and type files; a type file is whole or torn.
* **Values**: unpacking of numbers, text, enum labels and bit fields from bytes, and time stamps.
  A cell is the bytes it shows. That is where the bugs of layout and selection show, and the values
  themselves are single calls of `struct.unpack` that a unit test reaches. A bit field is therefore
  the bytes it lies in: `ColumnsShowTheirLeaves` and `CellsAreTheirColumns` tell a wrong byte, and
  not a wrong shift or mask within one.
* **A second source for the old bit offset**: before DWARF 4 a bit field's place is counted from the
  top of its storage unit, and `Layouts` comes from that to bits by the formula the code has. What
  `LayoutsAreTheBuilds` shows of such fields is that the place gets through base classes, nesting, byte
  orders and the sorting of members into the registry, and not that the formula is right.
* **The exit status of a decode whose loop has ended**: it may be either (`DecodeEnds`); no document
  says what it should be.
* **Disk errors while rows are written.**
