-------------------------- MODULE DictionaryProofs --------------------------
(***************************************************************************)
(* Proofs about loading a dictionary: for every type file and mapping, no  *)
(* entry is lost, a message ID decodes by its first usable entry, and an   *)
(* entry's decoders are those of the structs this build has.               *)
(***************************************************************************)
EXTENDS Dictionary, TLAPS

\* The load is at an entry of the mapping or past the last; before the first,
\* there are none.
AtEntry == /\ IsReading(mapping)
           /\ next \in Nat
           /\ loading = "unions" => next = 1 /\ entries = <<>> /\ dropped = {} /\ doubled = {}

\* What a doubled entry gave way to is there.
DoubledAreKept == \A i \in doubled : mapping.entries[i].value \in DOMAIN entries

\* A message ID's entry is one for that message ID, and usable.
KeptAreTheirs ==
    \A v \in DOMAIN entries : /\ UsableEntry(entries[v].index)
                              /\ mapping.entries[entries[v].index].value = v

LoadInv == /\ AtEntry /\ DoubledAreKept /\ KeptAreTheirs
           /\ EveryEntryAccounted /\ FirstUsableWins /\ DecodersAreTheStructs

-----------------------------------------------------------------------------

\* An entry without anything to compile is one whose structs are all absent.
LEMMA NothingToCompile ==
    ASSUME NEW entry
    PROVE  Compiled(entry) = {} <=> \A w \in Range(EntryStructs(entry)) : w \in typeFile.unresolved
BY DEF Compiled, Present, Range

\* The structs of an entry are its default and those of its function codes.
LEMMA StructsOfEntry ==
    ASSUME NEW entry, NEW S, entry.fcn \in Seq(S)
    PROVE  /\ entry.default # NoStruct =>
                 \E i \in DOMAIN EntryStructs(entry) : EntryStructs(entry)[i] = entry.default
           /\ \A j \in DOMAIN entry.fcn :
                 \E i \in DOMAIN EntryStructs(entry) : EntryStructs(entry)[i] = entry.fcn[j].struct
<1> DEFINE codes == [i \in DOMAIN entry.fcn |-> entry.fcn[i].struct]
           T == {entry.default} \cup {entry.fcn[i].struct : i \in DOMAIN entry.fcn}
<1>1. codes \in Seq(T) /\ Len(codes) = Len(entry.fcn) /\ DOMAIN codes = DOMAIN entry.fcn
  OBVIOUS
<1>2. CASE entry.default = NoStruct
  <2>1. EntryStructs(entry) = codes
    BY <1>1, <1>2 DEF EntryStructs
  <2>2. QED BY <1>2, <2>1
<1>3. CASE entry.default # NoStruct
  <2>1. EntryStructs(entry) = <<entry.default>> \o codes
    BY <1>3 DEF EntryStructs
  <2>2. <<entry.default>> \in Seq(T) /\ Len(<<entry.default>>) = 1
    OBVIOUS
  <2> HIDE DEF codes, T
  <2>3. /\ (<<entry.default>> \o codes)[1] = entry.default
        /\ DOMAIN (<<entry.default>> \o codes) = 1 .. 1 + Len(codes)
        /\ \A j \in 1 .. Len(codes) : (<<entry.default>> \o codes)[1 + j] = codes[j]
    BY <1>1, <2>2
  <2>4. \A j \in 1 .. Len(codes) : 1 + j \in 1 .. 1 + Len(codes)
    BY <1>1
  <2>5. 1 \in 1 .. 1 + Len(codes)
    BY <1>1
  <2>6. DOMAIN entry.fcn = 1 .. Len(codes)
    BY <1>1
  <2>7. \A j \in DOMAIN entry.fcn : codes[j] = entry.fcn[j].struct
    BY DEF codes
  <2>8. QED BY <2>1, <2>3, <2>4, <2>5, <2>6, <2>7
<1>4. QED BY <1>2, <1>3

\* A name that comes to a struct comes to one type only.
LEMMA FoundIsOne ==
    ASSUME NEW w, Outcome(w) = "found", NEW key, key = CHOOSE k \in Found(Types, w) : TRUE
    PROVE  Found(Types, w) = {key}
<1>1. Found(Types, w) # {}
  BY DEF Outcome
<1>2. ~Several(Found(Types, w))
  BY <1>1 DEF Outcome
<1>3. QED BY <1>1, <1>2 DEF Several

\* What DecodersAreTheStructs says of one entry and the decoders kept for it.
Faithful(entry, decoders) ==
    LET byCode(c) == {f.struct : f \in {f \in Range(entry.fcn) : f.code = c}}
        asked(c) == (IF c = NoDefault THEN {entry.default} \ {NoStruct} ELSE byCode(c)) \ typeFile.unresolved
    IN  \A c \in {NoDefault} \cup {f.code : f \in Range(entry.fcn)} :
            /\ c \in DOMAIN decoders <=> asked(c) # {}
            /\ \A w \in asked(c) : Found(Types, w) = {decoders[c].type}

\* An entry that compiles gets the decoders of exactly the structs that are there.
LEMMA CompiledFaithfully ==
    ASSUME IsReading(mapping), NEW i \in DOMAIN mapping.entries, Failing(mapping.entries[i]) = {}
    PROVE  Faithful(mapping.entries[i], Decoders(mapping.entries[i]))
<1> DEFINE entry == mapping.entries[i]
           byCode(c) == {f.struct : f \in {f \in Range(entry.fcn) : f.code = c}}
           asked(c) == (IF c = NoDefault THEN {entry.default} \ {NoStruct} ELSE byCode(c)) \ typeFile.unresolved
<1>1. PICK S : entry.fcn \in Seq(S)
  BY DEF IsReading
<1>2. \A j, k \in DOMAIN entry.fcn : entry.fcn[j].code = entry.fcn[k].code => j = k
  BY DEF IsReading
<1>3. \A j \in DOMAIN entry.fcn : entry.fcn[j].code # NoDefault
  BY DEF IsReading
<1>4. Failing(entry) = {}
  OBVIOUS
<1> HIDE DEF entry
<1>5. \A w : (\E k \in DOMAIN EntryStructs(entry) : EntryStructs(entry)[k] = w) /\ Present(w) => Outcome(w) = "found"
  BY <1>4 DEF Failing, Compiled
<1>6. entry.default # NoStruct /\ Present(entry.default) => Outcome(entry.default) = "found"
  BY <1>1, <1>5, StructsOfEntry
<1>7. \A j \in DOMAIN entry.fcn : Present(entry.fcn[j].struct) => Outcome(entry.fcn[j].struct) = "found"
  BY <1>1, <1>5, StructsOfEntry
<1>8. ASSUME NEW c \in {NoDefault} \cup {f.code : f \in Range(entry.fcn)}
      PROVE  /\ c \in DOMAIN Decoders(entry) <=> asked(c) # {}
             /\ \A w \in asked(c) : Found(Types, w) = {Decoders(entry)[c].type}
  <2>1. CASE c = NoDefault
    <3>1. asked(c) = IF entry.default # NoStruct /\ Present(entry.default) THEN {entry.default} ELSE {}
      BY <2>1 DEF Present
    <3>2. c \in DecoderCodes(entry) <=> entry.default # NoStruct /\ Present(entry.default)
      BY <1>3, <2>1 DEF DecoderCodes, Range
    <3>3. StructOf(entry, c) = entry.default
      BY <2>1 DEF StructOf
    <3>4. ASSUME entry.default # NoStruct, Present(entry.default)
          PROVE  Found(Types, entry.default) = {Decoders(entry)[c].type}
      <4>1. Decoders(entry)[c].type = CHOOSE k \in Found(Types, entry.default) : TRUE
        BY <3>2, <3>3, <3>4 DEF Decoders, Decoder
      <4>2. QED BY <1>6, <3>4, <4>1, FoundIsOne
    <3>5. DOMAIN Decoders(entry) = DecoderCodes(entry)
      BY DEF Decoders
    <3>6. QED BY <3>1, <3>2, <3>4, <3>5
  <2>2. CASE c # NoDefault
    <3>1. PICK j \in DOMAIN entry.fcn : entry.fcn[j].code = c
      BY <2>2 DEF Range
    <3>2. {f \in Range(entry.fcn) : f.code = c} = {entry.fcn[j]}
      BY <1>2, <3>1 DEF Range
    <3>3. asked(c) = IF Present(entry.fcn[j].struct) THEN {entry.fcn[j].struct} ELSE {}
      BY <2>2, <3>2 DEF Present
    <3>4. c \in DecoderCodes(entry) <=> Present(entry.fcn[j].struct)
      BY <2>2, <3>1, <3>2 DEF DecoderCodes
    <3>5. StructOf(entry, c) = entry.fcn[j].struct
      <4>1. (CHOOSE f \in Range(entry.fcn) : f.code = c) = entry.fcn[j]
        BY <3>2
      <4>2. QED BY <2>2, <4>1 DEF StructOf
    <3>6. ASSUME Present(entry.fcn[j].struct)
          PROVE  Found(Types, entry.fcn[j].struct) = {Decoders(entry)[c].type}
      <4>1. Decoders(entry)[c].type = CHOOSE k \in Found(Types, entry.fcn[j].struct) : TRUE
        BY <3>4, <3>5, <3>6 DEF Decoders, Decoder
      <4>2. QED BY <1>7, <3>6, <4>1, FoundIsOne
    <3>7. DOMAIN Decoders(entry) = DecoderCodes(entry)
      BY DEF Decoders
    <3>8. QED BY <3>3, <3>4, <3>6, <3>7
  <2>3. QED BY <2>1, <2>2
<1>9. QED BY <1>8 DEF Faithful, entry

\* What DecodersAreTheStructs is: every entry kept is faithful.
LEMMA DecodersUnfolded ==
    DecodersAreTheStructs <=>
        \A v \in DOMAIN entries : Faithful(mapping.entries[entries[v].index], entries[v].decoders)
BY DEF DecodersAreTheStructs, Faithful

-----------------------------------------------------------------------------

LEMMA LoadStarts == LoadInit => LoadInv
<1> SUFFICES ASSUME LoadInit PROVE LoadInv
  OBVIOUS
<1>1. /\ IsReading(mapping) /\ next = 0 /\ entries = <<>> /\ dropped = {} /\ doubled = {} /\ loading = "idle"
  BY DEF LoadInit, DictionaryInit
<1>2. DOMAIN mapping.entries \subseteq Nat
  BY <1>1 DEF IsReading
<1>3. DOMAIN entries = {}
  BY <1>1
<1>4. AtEntry
  BY <1>1 DEF AtEntry
<1>5. DoubledAreKept
  BY <1>1 DEF DoubledAreKept
<1>51. KeptAreTheirs
  BY <1>3 DEF KeptAreTheirs
<1>6. 1 .. next - 1 = {}
  BY <1>1
<1>7. EveryEntryAccounted
  BY <1>1, <1>3, <1>6 DEF EveryEntryAccounted
<1>8. FirstUsableWins
  BY <1>1, <1>2 DEF FirstUsableWins, UsableEntry
<1>9. DecodersAreTheStructs
  BY <1>3, DecodersUnfolded
<1>10. QED BY <1>4, <1>5, <1>51, <1>7, <1>8, <1>9 DEF LoadInv

\* The parts of the state the invariant is about.
invVars == <<typeFile, mapping, next, entries, dropped, doubled>>

LEMMA LoadInvStays ==
    ASSUME LoadInv, UNCHANGED invVars, loading' = "unions" => loading = "unions"
    PROVE  LoadInv'
<1>1. /\ typeFile' = typeFile /\ mapping' = mapping /\ next' = next
      /\ entries' = entries /\ dropped' = dropped /\ doubled' = doubled
  BY DEF invVars
<1>2. AtEntry'
  BY <1>1 DEF LoadInv, AtEntry, IsReading, NoDefault
<1>3. DoubledAreKept'
  BY <1>1 DEF LoadInv, DoubledAreKept
<1>31. KeptAreTheirs'
  BY <1>1 DEF LoadInv, KeptAreTheirs, UsableEntry, Compiled, Present
<1>4. EveryEntryAccounted'
  BY <1>1 DEF LoadInv, EveryEntryAccounted
<1>5. FirstUsableWins'
  BY <1>1 DEF LoadInv, FirstUsableWins, UsableEntry, Compiled, Present
<1>6. DecodersAreTheStructs'
  BY <1>1 DEF LoadInv, DecodersAreTheStructs, Types
<1>7. QED BY <1>2, <1>3, <1>31, <1>4, <1>5, <1>6 DEF LoadInv

\* A load starts over with nothing, whatever the one before it left.
LEMMA StartKeeps ==
    ASSUME NEW file, NEW read, NEW given, IsReading(read), StartLoad(file, read, given)
    PROVE  LoadInv'
<1>1. /\ mapping' = read /\ next' = 1 /\ entries' = <<>> /\ dropped' = {} /\ doubled' = {}
      /\ loading' = "unions"
  BY DEF StartLoad
<1>2. IsReading(mapping')
  BY <1>1
<1>3. DOMAIN entries' = {} /\ 1 .. next' - 1 = {}
  BY <1>1
<1>4. DOMAIN mapping'.entries \subseteq Nat \ {0}
  BY <1>2 DEF IsReading
<1>5. AtEntry'
  BY <1>1, <1>2 DEF AtEntry, IsReading, NoDefault
<1>6. DoubledAreKept'
  BY <1>1 DEF DoubledAreKept
<1>61. KeptAreTheirs'
  BY <1>3 DEF KeptAreTheirs
<1>7. EveryEntryAccounted'
  BY <1>1, <1>3 DEF EveryEntryAccounted
<1>8. FirstUsableWins'
  BY <1>1, <1>4 DEF FirstUsableWins, UsableEntry
<1>9. DecodersAreTheStructs'
  BY <1>3 DEF DecodersAreTheStructs
<1>10. QED BY <1>5, <1>6, <1>61, <1>7, <1>8, <1>9 DEF LoadInv

\* An entry that counts as usable after a step that leaves the mapping alone.
UsableAfter(i) == i < next' /\ Compiled(mapping.entries[i]) # {}

\* The invariant's parts about usable entries after such a step.
LEMMA Afterwards ==
    ASSUME UNCHANGED <<typeFile, mapping>>
    PROVE  /\ KeptAreTheirs' <=>
                 \A v \in DOMAIN entries' : /\ UsableAfter(entries'[v].index)
                                            /\ mapping.entries[entries'[v].index].value = v
           /\ FirstUsableWins' <=>
                 \A i \in DOMAIN mapping.entries :
                     LET v == mapping.entries[i].value
                     IN  UsableAfter(i) => /\ v \in DOMAIN entries' /\ entries'[v].index <= i
                                           /\ UsableAfter(entries'[v].index)
                                           /\ mapping.entries[entries'[v].index].value = v
BY DEF KeptAreTheirs, FirstUsableWins, UsableEntry, UsableAfter, Compiled, Present

\* What going on to the next entry keeps, whatever became of this one.
LEMMA EntryStep ==
    ASSUME LoadInv, LoadingEntry, next' = next + 1,
           UNCHANGED <<typeFile, mapping, loading>>
    PROVE  /\ AtEntry'
           /\ next \in Nat \ {0} /\ 1 .. next' - 1 = (1 .. next - 1) \cup {next} /\ next \notin 1 .. next - 1
           /\ \A i \in Nat : UsableAfter(i) <=> UsableEntry(i) \/ (i = next /\ Compiled(mapping.entries[i]) # {})
<1>1. typeFile' = typeFile /\ mapping' = mapping /\ loading' = loading /\ loading = "entries"
  BY DEF LoadingEntry
<1>2. PICK S : mapping.entries \in Seq(S)
  BY DEF LoadInv, AtEntry, IsReading
<1>3. next \in 1 .. Len(mapping.entries) /\ Len(mapping.entries) \in Nat
  BY <1>2 DEF LoadingEntry
<1>4. AtEntry'
  <2>1. IsReading(mapping)'
    BY <1>1 DEF LoadInv, AtEntry, IsReading, NoDefault
  <2>2. QED BY <1>1, <1>3, <2>1 DEF AtEntry
<1>5. /\ next \in Nat \ {0} /\ next' \in Nat
      /\ 1 .. next' - 1 = (1 .. next - 1) \cup {next} /\ next \notin 1 .. next - 1
  BY <1>3
<1>6. ASSUME NEW i \in Nat
      PROVE  UsableAfter(i) <=> UsableEntry(i) \/ (i = next /\ Compiled(mapping.entries[i]) # {})
  <2>1. i < next' <=> i < next \/ i = next
    BY <1>5
  <2>2. QED BY <2>1 DEF UsableEntry, UsableAfter
<1>7. QED BY <1>4, <1>5, <1>6

\* The place of a kept entry is behind the load.
LEMMA KeptBehind ==
    ASSUME LoadInv, NEW v \in DOMAIN entries
    PROVE  entries[v].index \in 1 .. next - 1
BY DEF LoadInv, EveryEntryAccounted

\* An entry all of whose structs are absent is counted so, and changes nothing else.
LEMMA DropKeeps ==
    ASSUME LoadInv, DropEntry
    PROVE  LoadInv'
<1>1. /\ LoadingEntry /\ Compiled(mapping.entries[next]) = {} /\ dropped' = dropped \cup {next}
      /\ next' = next + 1 /\ entries' = entries /\ doubled' = doubled
      /\ UNCHANGED <<typeFile, mapping, loading>>
  BY DEF DropEntry
<1>2. /\ AtEntry'
      /\ next \in Nat \ {0} /\ 1 .. next' - 1 = (1 .. next - 1) \cup {next} /\ next \notin 1 .. next - 1
      /\ \A i \in Nat : UsableAfter(i) <=> UsableEntry(i)
  BY <1>1, EntryStep
<1>3. DoubledAreKept'
  BY <1>1 DEF LoadInv, DoubledAreKept
<1>31. \A v \in DOMAIN entries : entries[v].index \in Nat
  BY KeptBehind
<1>32. KeptAreTheirs'
  BY <1>1, <1>2, <1>31, Afterwards DEF LoadInv, KeptAreTheirs
<1>4. EveryEntryAccounted'
  <2>1. next \in dropped' <=> \A w \in Range(EntryStructs(mapping.entries[next])) : w \in typeFile.unresolved
    BY <1>1, NothingToCompile
  <2>2. typeFile' = typeFile /\ mapping' = mapping
    BY <1>1
  <2> DEFINE kept == {entries[v].index : v \in DOMAIN entries}
             absent(i) == \A w \in Range(EntryStructs(mapping.entries[i])) : w \in typeFile.unresolved
  <2>3. /\ 1 .. next - 1 = kept \cup dropped \cup doubled
        /\ kept \cap dropped = {} /\ kept \cap doubled = {} /\ dropped \cap doubled = {}
        /\ dropped = {i \in 1 .. next - 1 : absent(i)}
        /\ \A i \in doubled : entries[mapping.entries[i].value].index < i
    BY DEF LoadInv, EveryEntryAccounted
  <2>4. absent(next)
    BY <1>1, <2>1
  <2> HIDE DEF kept, absent
  <2>5. /\ 1 .. next' - 1 = kept \cup dropped' \cup doubled'
        /\ kept \cap dropped' = {} /\ kept \cap doubled' = {} /\ dropped' \cap doubled' = {}
        /\ dropped' = {i \in 1 .. next' - 1 : absent(i)}
    BY <1>1, <1>2, <2>3, <2>4
  <2>6. QED BY <1>1, <2>2, <2>3, <2>5 DEF EveryEntryAccounted, kept, absent
<1>5. FirstUsableWins'
  <2>1. DOMAIN mapping.entries \subseteq Nat
    BY DEF LoadInv, AtEntry, IsReading
  <2>2. QED BY <1>1, <1>2, <1>31, <2>1, Afterwards DEF LoadInv, FirstUsableWins
<1>6. DecodersAreTheStructs'
  BY <1>1 DEF LoadInv, DecodersAreTheStructs, Types
<1>7. QED BY <1>2, <1>3, <1>32, <1>4, <1>5, <1>6 DEF LoadInv

\* An entry that compiles is kept if its message ID is free and counted as
\* doubled if it is not.
LEMMA AddKeeps ==
    ASSUME LoadInv, AddEntry
    PROVE  LoadInv'
<1> DEFINE entry == mapping.entries[next]
           value == entry.value
           new == [index |-> next, decoders |-> Decoders(entry)]
<1>1. /\ LoadingEntry /\ Compiled(entry) # {} /\ Failing(entry) = {}
      /\ KeepFirst(value, new)
      /\ next' = next + 1 /\ dropped' = dropped
      /\ UNCHANGED <<typeFile, mapping, loading>>
  BY DEF AddEntry
<1>2. /\ AtEntry'
      /\ next \in Nat \ {0} /\ 1 .. next' - 1 = (1 .. next - 1) \cup {next} /\ next \notin 1 .. next - 1
      /\ \A i \in Nat : UsableAfter(i) <=> UsableEntry(i) \/ (i = next /\ Compiled(mapping.entries[i]) # {})
  BY <1>1, EntryStep
<1>3. typeFile' = typeFile /\ mapping' = mapping
  BY <1>1
<1> DEFINE absent(i) == \A w \in Range(EntryStructs(mapping.entries[i])) : w \in typeFile.unresolved
           kept == {entries[v].index : v \in DOMAIN entries}
<1>4. ~absent(next)
  BY <1>1, NothingToCompile
<1>5. /\ 1 .. next - 1 = kept \cup dropped \cup doubled
      /\ kept \cap dropped = {} /\ kept \cap doubled = {} /\ dropped \cap doubled = {}
      /\ dropped = {i \in 1 .. next - 1 : absent(i)}
      /\ \A i \in doubled : entries[mapping.entries[i].value].index < i
      /\ \A i \in doubled : mapping.entries[i].value \in DOMAIN entries
  BY DEF LoadInv, EveryEntryAccounted, DoubledAreKept
<1>6. dropped' = {i \in 1 .. next' - 1 : absent(i)}
  <2> HIDE DEF absent, kept, entry, value, new
  <2>1. QED BY <1>1, <1>2, <1>4, <1>5
<1>7. DOMAIN mapping.entries \subseteq Nat /\ next \in DOMAIN mapping.entries
  BY <1>1 DEF LoadInv, AtEntry, IsReading, LoadingEntry
<1>8. \A v \in DOMAIN entries : entries[v].index \in 1 .. next - 1
  BY KeptBehind
<1>9. \A i \in DOMAIN mapping.entries :
         UsableEntry(i) => LET v == mapping.entries[i].value
                           IN  /\ v \in DOMAIN entries /\ entries[v].index <= i
                               /\ UsableEntry(entries[v].index)
                               /\ mapping.entries[entries[v].index].value = v
  BY DEF LoadInv, FirstUsableWins
<1>10. CASE value \in DOMAIN entries
  <2>1. entries' = entries /\ doubled' = doubled \cup {next}
    BY <1>1, <1>10 DEF KeepFirst
  <2>2. entries[value].index \in 1 .. next - 1
    BY <1>8, <1>10
  <2>3. entries[value].index < next
    BY <1>2, <2>2
  <2>4. DoubledAreKept'
    BY <1>3, <1>5, <1>10, <2>1 DEF DoubledAreKept
  <2>5. EveryEntryAccounted'
    <3>1. \A i \in doubled' : entries[mapping.entries[i].value].index < i
      BY <1>5, <2>1, <2>3
    <3> HIDE DEF kept, absent, entry, value, new
    <3>2. /\ 1 .. next' - 1 = kept \cup dropped' \cup doubled'
          /\ kept \cap dropped' = {} /\ kept \cap doubled' = {} /\ dropped' \cap doubled' = {}
      BY <1>1, <1>2, <1>5, <2>1
    <3>3. QED BY <1>3, <1>6, <2>1, <3>1, <3>2 DEF EveryEntryAccounted, kept, absent
  <2>6. KeptAreTheirs'
    BY <1>2, <1>3, <1>8, <2>1, Afterwards DEF LoadInv, KeptAreTheirs
  <2>7. FirstUsableWins'
    <3>1. entries[value].index <= next /\ UsableEntry(entries[value].index)
          /\ mapping.entries[entries[value].index].value = value
      BY <1>2, <1>10, <2>2, <2>3 DEF LoadInv, KeptAreTheirs
    <3>2. \A v \in DOMAIN entries : UsableEntry(entries[v].index) => UsableAfter(entries[v].index)
      BY <1>2, <1>8, <2>1
    <3> HIDE DEF kept, absent, new, entry, value
    <3>3. ASSUME NEW i \in DOMAIN mapping.entries, UsableAfter(i)
          PROVE  LET v == mapping.entries[i].value
                 IN  /\ v \in DOMAIN entries /\ entries[v].index <= i
                     /\ UsableAfter(entries[v].index)
                     /\ mapping.entries[entries[v].index].value = v
      <4>1. CASE UsableEntry(i)
        BY <1>9, <3>2, <4>1
      <4>2. CASE i = next
        BY <1>10, <3>1, <3>2, <4>2 DEF entry, value
      <4>3. QED BY <1>2, <1>7, <3>3, <4>1, <4>2
    <3>4. QED BY <1>3, <2>1, <3>3, Afterwards
  <2>8. DecodersAreTheStructs'
    BY <1>3, <2>1 DEF LoadInv, DecodersAreTheStructs, Types
  <2>9. QED BY <1>2, <2>4, <2>5, <2>6, <2>7, <2>8 DEF LoadInv
<1>11. CASE value \notin DOMAIN entries
  <2>1. entries' = [v \in DOMAIN entries \cup {value} |-> IF v = value THEN new ELSE entries[v]]
        /\ doubled' = doubled
    BY <1>1, <1>11 DEF KeepFirst, Store
  <2> HIDE DEF new
  <2>2. /\ DOMAIN entries' = DOMAIN entries \cup {value} /\ entries'[value] = new
        /\ \A v \in DOMAIN entries : entries'[v] = entries[v] /\ v # value
    BY <1>11, <2>1
  <2>3. new.index = next /\ new.decoders = Decoders(entry)
    BY DEF new
  <2>4. DoubledAreKept'
    BY <1>3, <1>5, <2>1, <2>2 DEF DoubledAreKept
  <2>5. EveryEntryAccounted'
    <3>1. \A i \in doubled' : entries'[mapping.entries[i].value].index < i
      BY <1>5, <2>1, <2>2
    <3> DEFINE kept2 == {entries'[v].index : v \in DOMAIN entries'}
    <3>2. kept2 = kept \cup {next}
      <4> HIDE DEF entry, value
      <4>1. QED BY <2>2, <2>3
    <3> HIDE DEF kept, kept2, absent, entry, value, new
    <3>3. /\ 1 .. next' - 1 = kept2 \cup dropped' \cup doubled'
          /\ kept2 \cap dropped' = {} /\ kept2 \cap doubled' = {} /\ dropped' \cap doubled' = {}
      BY <1>1, <1>2, <1>5, <2>1, <3>2
    <3>4. QED BY <1>3, <1>6, <3>1, <3>3 DEF EveryEntryAccounted, kept2, absent
  <2>6. UsableAfter(next)
    BY <1>1, <1>2
  <2>7. KeptAreTheirs'
    <3>1. \A v \in DOMAIN entries : UsableAfter(entries[v].index)
      BY <1>2, <1>8 DEF LoadInv, KeptAreTheirs
    <3>2. QED BY <1>3, <2>2, <2>3, <2>6, <3>1, Afterwards DEF LoadInv, KeptAreTheirs
  <2>8. FirstUsableWins'
    <3>1. ASSUME NEW i \in DOMAIN mapping.entries, UsableAfter(i)
          PROVE  LET v == mapping.entries[i].value
                 IN  v \in DOMAIN entries' /\ entries'[v].index <= i
      <4>1. CASE UsableEntry(i)
        BY <1>9, <2>2, <4>1
      <4>2. CASE i = next
        BY <1>2, <2>2, <2>3, <4>2
      <4>3. QED BY <1>2, <1>7, <3>1, <4>1, <4>2
    <3>2. QED BY <1>3, <2>7, <3>1, Afterwards
  <2>9. DecodersAreTheStructs'
    <3>1. Faithful(entry, Decoders(entry))
      <4>1. IsReading(mapping)
        BY DEF LoadInv, AtEntry
      <4>2. QED BY <1>1, <1>7, <4>1, CompiledFaithfully
    <3>2. \A v \in DOMAIN entries : Faithful(mapping.entries[entries[v].index], entries[v].decoders)
      BY DecodersUnfolded DEF LoadInv
    <3>3. \A v \in DOMAIN entries' : Faithful(mapping.entries[entries'[v].index], entries'[v].decoders)
      BY <2>2, <2>3, <3>1, <3>2
    <3>4. QED BY <1>3, <3>3 DEF DecodersAreTheStructs, Faithful, Types
  <2>10. QED BY <1>2, <2>4, <2>5, <2>7, <2>8, <2>9 DEF LoadInv
<1>12. QED BY <1>10, <1>11

\* Every step of a load keeps the invariant.
LEMMA LoadKeeps == LoadInv /\ [LoadNext]_dictionaryVars => LoadInv'
<1> SUFFICES ASSUME LoadInv, [LoadNext]_dictionaryVars PROVE LoadInv'
  OBVIOUS
<1>1. CASE \E file, read, given : IsReading(read) /\ StartLoad(file, read, given)
  BY <1>1, StartKeeps
<1>2. CASE ResolveUnions
  <2>1. /\ UNCHANGED invVars
        /\ loading = "unions"
    BY <1>2 DEF ResolveUnions, invVars
  <2>2. QED BY <2>1, LoadInvStays
<1>3. CASE FailEntry
  BY <1>3, LoadInvStays DEF FailEntry, FailLoad, invVars
<1>4. CASE DropEntry
  BY <1>4, DropKeeps
<1>5. CASE AddEntry
  BY <1>5, AddKeeps
<1>6. CASE EndLoad
  BY <1>6, LoadInvStays DEF EndLoad, FailLoad, invVars
<1>7. CASE Release
  BY <1>7, LoadInvStays DEF Release, invVars
<1>8. CASE UNCHANGED dictionaryVars
  BY <1>8, LoadInvStays DEF dictionaryVars, invVars
<1>9. QED BY <1>1, <1>2, <1>3, <1>4, <1>5, <1>6, <1>7, <1>8 DEF LoadNext, Load

-----------------------------------------------------------------------------

\* The invariant that the three properties of a load follow from.
THEOREM LoadInvariance == LoadSpec => []LoadInv
BY LoadStarts, LoadKeeps, PTL DEF LoadSpec

\* For every mapping and type file, every entry read decodes its message ID,
\* gave way to one before it or was counted as absent (Dictionary.load).
THEOREM NoEntryLost == LoadSpec => []EveryEntryAccounted
<1>1. LoadInv => EveryEntryAccounted
  BY DEF LoadInv
<1>2. QED BY <1>1, LoadInvariance, PTL

\* For every mapping and type file, a message ID decodes by the first entry
\* that has a struct in this build (Dictionary.load).
THEOREM FirstUsableKept == LoadSpec => []FirstUsableWins
<1>1. LoadInv => FirstUsableWins
  BY DEF LoadInv
<1>2. QED BY <1>1, LoadInvariance, PTL

\* For every mapping and type file, an entry's decoders are those of exactly
\* the structs this build has, each of the one type its name comes to
\* (_compile_entry).
THEOREM DecodersFaithful == LoadSpec => []DecodersAreTheStructs
<1>1. LoadInv => DecodersAreTheStructs
  BY DEF LoadInv
<1>2. QED BY <1>1, LoadInvariance, PTL

-----------------------------------------------------------------------------
(* The two ways a struct name finds a type agree, for every build, type     *)
(* file and mapping: NameFilter passes over nothing its rules accept, and   *)
(* what it records for a name is what _NameIndex finds for it.              *)

\* A name has a part.
IsName(name) == \E S : name \in Seq(S) /\ name # <<>>

\* Matches has each mapping name with each rule by which it takes the type.
LEMMA MatchesAreTiers ==
    ASSUME NEW wanted, NEW qualified, NEW w \in wanted, NEW t
    PROVE  <<w, t>> \in Matches(wanted, qualified) <=> t \in Tiers(w, qualified)
BY DEF Matches, Tiers

\* Folding case keeps the parts of a name apart.
LEMMA LowerLast ==
    ASSUME NEW a, IsName(a), NEW b, IsName(b), Lower(a) = Lower(b)
    PROVE  Lower(LastPart(a)) = Lower(LastPart(b))
<1>1. DOMAIN a = 1 .. Len(a) /\ Len(a) \in Nat \ {0} /\ DOMAIN b = 1 .. Len(b) /\ Len(b) \in Nat \ {0}
  BY DEF IsName
<1>2. DOMAIN a = DOMAIN b /\ \A i \in DOMAIN a : LowerCase[a[i]] = LowerCase[b[i]]
  BY DEF Lower
<1>3. Len(a) = Len(b)
  <2>1. \A m, n \in Nat \ {0} : 1 .. m = 1 .. n => m \in 1 .. n /\ n \in 1 .. m
    BY SMT
  <2>2. \A m, n \in Nat \ {0} : m \in 1 .. n /\ n \in 1 .. m => m = n
    BY SMT
  <2>3. 1 .. Len(a) = 1 .. Len(b)
    BY <1>1, <1>2
  <2>4. QED BY <1>1, <2>1, <2>2, <2>3
<1>4. LowerCase[a[Len(a)]] = LowerCase[b[Len(b)]]
  BY <1>1, <1>2, <1>3
<1>5. \A x : DOMAIN <<x>> = {1} /\ <<x>>[1] = x
  OBVIOUS
<1>6. /\ Lower(LastPart(a)) = [i \in {1} |-> LowerCase[a[Len(a)]]]
      /\ Lower(LastPart(b)) = [i \in {1} |-> LowerCase[b[Len(b)]]]
  BY <1>5 DEF Lower, LastPart
<1>7. QED BY <1>4, <1>6

\* NameFilter.wants, which looks at a type's own name before its qualified one
\* is worked out, turns away no type that some mapping name takes by any rule:
\* when the own name is the last part of the qualified one, as it is unless
\* template arguments bring parts of their own.
THEOREM WantsWhatMatches ==
    ASSUME NEW wanted, \A w \in wanted : IsName(w),
           NEW qualified, IsName(qualified),
           Matches(wanted, qualified) # {}
    PROVE  Wants(wanted, LastPart(qualified))
<1> DEFINE own == LastPart(qualified)
<1>1. PICK w \in wanted, t \in {TIER_EXACT, TIER_TAIL, TIER_CASE} : t \in Tiers(w, qualified)
  BY DEF Matches
<1>2. {w, LastPart(w), Lower(w), Lower(LastPart(w))} \subseteq Quick(wanted)
  BY DEF Quick
<1>3. \/ w = qualified
      \/ w = own
      \/ Lower(w) = Lower(qualified)
      \/ Lower(w) = Lower(own)
  BY <1>1 DEF Tiers
<1>4. own \in Quick(wanted) \/ Lower(own) \in Quick(wanted)
  <2>1. CASE w = qualified BY <2>1, <1>2
  <2>2. CASE w = own BY <2>2, <1>2
  <2>3. CASE Lower(w) = Lower(qualified)
    <3>1. Lower(LastPart(w)) = Lower(own) BY <2>3, LowerLast
    <3>2. QED BY <3>1, <1>2
  <2>4. CASE Lower(w) = Lower(own) BY <2>4, <1>2
  <2>5. QED BY <1>3, <2>1, <2>2, <2>3, <2>4
<1>5. QED BY <1>4 DEF Wants

-----------------------------------------------------------------------------

\* What the filter has recorded once every type that both may name was read.
AllRecorded(types, wanted, recorded) ==
    /\ \A r \in recorded : /\ r.key \in Indexed(types)
                           /\ r.tier \in Tiers(r.wanted, r.key)
    /\ \A k \in Indexed(types), w \in wanted :
          \A t \in Tiers(w, k) : \E r \in recorded : r.wanted = w /\ r.tier = t /\ r.key = k

\* The types a name takes by a rule, and those of the best rule.
TakenBy(types, w, t) == {k \in Indexed(types) : t \in Tiers(w, k)}

\* The best rule of a name, from what was recorded: the first that takes a type.
LEMMA ResolutionIsBest ==
    ASSUME NEW types, NEW wanted, NEW recorded, NEW w \in wanted,
           AllRecorded(types, wanted, recorded)
    PROVE  Resolution(recorded, w) =
              IF TakenBy(types, w, TIER_EXACT) # {} THEN TakenBy(types, w, TIER_EXACT)
              ELSE IF TakenBy(types, w, TIER_TAIL) # {} THEN TakenBy(types, w, TIER_TAIL)
              ELSE TakenBy(types, w, TIER_CASE)
<1> DEFINE best(s) == s.wanted = w /\ \A o \in recorded : o.wanted = w => s.tier <= o.tier
<1>1. Resolution(recorded, w) = {r.key : r \in {s \in recorded : best(s)}}
  BY DEF Resolution
<1>2. \A r \in recorded : r.wanted = w => r.key \in TakenBy(types, w, r.tier) /\ r.tier \in {0, 1, 2}
  BY DEF AllRecorded, TakenBy, Tiers, TIER_EXACT, TIER_TAIL, TIER_CASE
<1>3. \A t \in {0, 1, 2} : \A k \in TakenBy(types, w, t) :
         \E r \in recorded : r.wanted = w /\ r.tier = t /\ r.key = k
  BY DEF AllRecorded, TakenBy
<1>4. ASSUME NEW t \in {0, 1, 2}, TakenBy(types, w, t) # {}, \A u \in {0, 1, 2} : u < t => TakenBy(types, w, u) = {}
      PROVE  Resolution(recorded, w) = TakenBy(types, w, t)
  <2>1. \A r \in recorded : r.wanted = w => t <= r.tier
    BY <1>2, <1>4
  <2>2. PICK a \in recorded : a.wanted = w /\ a.tier = t
    BY <1>3, <1>4
  <2>3. \A s \in recorded : best(s) => s.tier = t
    BY <2>1, <2>2, <1>2
  <2>4. \A s \in recorded : s.wanted = w /\ s.tier = t => best(s)
    BY <2>1
  <2> HIDE DEF best
  <2>5. {r.key : r \in {s \in recorded : best(s)}} \subseteq TakenBy(types, w, t)
    <3>1. SUFFICES ASSUME NEW r \in recorded, best(r) PROVE r.key \in TakenBy(types, w, t)
      OBVIOUS
    <3>2. r.wanted = w BY <3>1 DEF best
    <3>3. QED BY <3>1, <3>2, <2>3, <1>2
  <2>6. TakenBy(types, w, t) \subseteq {r.key : r \in {s \in recorded : best(s)}}
    <3>1. SUFFICES ASSUME NEW k \in TakenBy(types, w, t) PROVE \E r \in recorded : best(r) /\ r.key = k
      OBVIOUS
    <3>2. QED BY <1>3, <2>4
  <2>7. QED BY <1>1, <2>5, <2>6
<1>5. CASE \A t \in {0, 1, 2} : TakenBy(types, w, t) = {}
  <2>1. \A s \in recorded : s.wanted # w BY <1>2, <1>5
  <2>2. Resolution(recorded, w) = {} BY <2>1 DEF Resolution
  <2>3. QED BY <2>2, <1>5 DEF TIER_EXACT, TIER_TAIL, TIER_CASE
<1>6. QED BY <1>4, <1>5 DEF TIER_EXACT, TIER_TAIL, TIER_CASE

\* What NameFilter resolved a mapping name to, in the build, is what _NameIndex
\* finds for that name in the type file, for every registry and whatever else
\* the mapping names: one type, several, or none, by the same rule.  (It is to
\* be one of the types both look at: enums are the filter's alone.)
THEOREM FilterAgreesWithIndex ==
    ASSUME NEW types, NEW wanted, NEW recorded, NEW w \in wanted,
           AllRecorded(types, wanted, recorded),
           w \in DOMAIN types => w \in Indexed(types)
    PROVE  Resolution(recorded, w) = Found(types, w)
<1>1. \A k : k \in Indexed(types) => k \in DOMAIN types
  BY DEF Indexed
<1>2. TakenBy(types, w, TIER_EXACT) = IF w \in DOMAIN types THEN {w} ELSE {}
  <2>1. \A k \in Indexed(types) : TIER_EXACT \in Tiers(w, k) <=> w = k
    BY DEF Tiers, TIER_EXACT, TIER_TAIL, TIER_CASE
  <2>2. CASE w \in DOMAIN types BY <2>1, <2>2 DEF TakenBy
  <2>3. CASE w \notin DOMAIN types BY <2>1, <2>3, <1>1 DEF TakenBy
  <2>4. QED BY <2>2, <2>3
<1>3. TakenBy(types, w, TIER_TAIL) = {k \in Indexed(types) : LastPart(k) = w}
  BY DEF TakenBy, Tiers, TIER_EXACT, TIER_TAIL, TIER_CASE
<1>4. TakenBy(types, w, TIER_CASE) = {k \in Indexed(types) : Lower(w) \in {Lower(k), Lower(LastPart(k))}}
  BY DEF TakenBy, Tiers, TIER_EXACT, TIER_TAIL, TIER_CASE
<1>5. QED BY <1>2, <1>3, <1>4, ResolutionIsBest DEF Found
=============================================================================
