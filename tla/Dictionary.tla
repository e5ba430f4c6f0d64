----------------------------- MODULE Dictionary -----------------------------
(***************************************************************************)
(* Loading the dictionary of a decode: the entries of a mapping, one after *)
(* another, against a type file (dictionary.py, Dictionary.load).          *)
(***************************************************************************)
EXTENDS Names, MsgHeader, Mapping, FiniteSetsExt

VARIABLES
    typeFile,   \* [types, filtered, roots, unresolved, headers]
    mapping,    \* as ReadMapping gives it
    options,    \* [unions, unionBytes, headers]: given, then merged
    next,       \* the entry to compile
    entries,    \* message ID -> [index, decoders]
    dropped,    \* entries without a struct in this build
    doubled,    \* entries whose message ID was taken
    loading,    \* "idle", "unions", "entries", "loaded" or "failed"
    failure     \* why

dictionaryVars == <<typeFile, mapping, options, next, entries, dropped, doubled, loading, failure>>

Types == typeFile.types

NoDefault == -1     \* decoders' key for the struct of every other function code

-----------------------------------------------------------------------------
(* Structs and their decoders.                                              *)

Several(found) == \E a, b \in found : a # b

\* What a struct name comes to, "found" if to a decoder.
Outcome(w) ==
    LET found == Found(Types, w)
    IN  CASE found = {} -> "unknown"
          [] Several(found) -> "ambiguous"
          [] OTHER -> IF \A k \in found : IsComposite(Resolve(Types, k)) THEN "found" ELSE "not a struct"

Decoder(w) ==
    LET key == CHOOSE k \in Found(Types, w) : TRUE
    IN  [type |-> key, header |-> HeaderSize(Types, key, options.headers)]

\* Structs this build does not have, as extract found, are passed over.
Present(struct) == struct \notin typeFile.unresolved

\* A bug: one absent struct leaves the whole entry out.
CompiledWhole(entry) ==
    IF \A w \in Range(EntryStructs(entry)) : Present(w) THEN DOMAIN EntryStructs(entry) ELSE {}

\* The places among an entry's structs that are compiled, and those that cannot be.
Compiled(entry) == {i \in DOMAIN EntryStructs(entry) : Present(EntryStructs(entry)[i])}

Failing(entry) == {i \in Compiled(entry) : Outcome(EntryStructs(entry)[i]) # "found"}

\* A bug: one absent struct drops the command.
DecoderCodesAll(entry) ==
    IF \A w \in Range(EntryStructs(entry)) : Present(w)
    THEN (IF entry.default = NoStruct THEN {} ELSE {NoDefault}) \cup {f.code : f \in Range(entry.fcn)} ELSE {}

\* A command keeps the function codes whose structs are present.
DecoderCodes(entry) ==
    (IF entry.default # NoStruct /\ Present(entry.default) THEN {NoDefault} ELSE {})
    \cup {f.code : f \in {f \in Range(entry.fcn) : Present(f.struct)}}

StructOf(entry, code) ==
    IF code = NoDefault THEN entry.default
    ELSE (CHOOSE f \in Range(entry.fcn) : f.code = code).struct

Decoders(entry) == [c \in DecoderCodes(entry) |-> Decoder(StructOf(entry, c))]

-----------------------------------------------------------------------------

\* Nothing is loaded, and no file read, at first.
DictionaryInit ==
    /\ next = 0 /\ entries = <<>> /\ dropped = {} /\ doubled = {}
    /\ loading = "idle" /\ failure = ""

FailLoad(why) == loading' = "failed" /\ failure' = why

\* Header types come from the command line, the mapping and the type file.
StartLoad(file, read, given) ==
    /\ loading = "idle"
    /\ typeFile' = file /\ mapping' = read
    /\ options' = [unions |-> <<>>,
                   unionBytes |-> IF read.unionBytes = "drop" THEN "drop" ELSE given.unionBytes,
                   headers |-> given.headers \cup read.headers \cup file.headers]
    /\ next' = 1 /\ entries' = <<>> /\ dropped' = {} /\ doubled' = {}
    /\ loading' = "unions" /\ failure' = ""

\* What a name under 'unions' comes to: unknown ones are passed over.
UnionOutcome(u) ==
    LET found == Found(Types, u.name)
        node  == Resolve(Types, CHOOSE k \in found : TRUE)
    IN  CASE found = {} -> "unknown"
          [] Several(found) -> "ambiguous"
          [] OTHER -> IF node.kind = "union" /\ UseFits(Types, node, u.use) THEN "found" ELSE "misfit"

UnionKey(u) == ChainEnd(Types, CHOOSE k \in Found(Types, u.name) : TRUE)

ResolveUnions ==
    /\ loading = "unions"
    /\ LET bad   == {i \in DOMAIN mapping.unions : UnionOutcome(mapping.unions[i]) \in {"ambiguous", "misfit"}}
           known == SelectSeq(mapping.unions, LAMBDA u : UnionOutcome(u) = "found")
       IN  IF bad # {} THEN FailLoad(UnionOutcome(mapping.unions[Min(bad)])) /\ UNCHANGED options
           ELSE /\ options' = [options EXCEPT !.unions =
                                  FoldLeft(LAMBDA acc, u : (UnionKey(u) :> u.use) @@ acc, <<>>, known)]
                /\ loading' = "entries" /\ UNCHANGED failure
    /\ UNCHANGED <<typeFile, mapping, next, entries, dropped, doubled>>

LoadingEntry == loading = "entries" /\ next \in DOMAIN mapping.entries

FailEntry ==
    /\ LoadingEntry
    /\ Failing(mapping.entries[next]) # {}
    /\ FailLoad(Outcome(EntryStructs(mapping.entries[next])[Min(Failing(mapping.entries[next]))]))
    /\ UNCHANGED <<typeFile, mapping, options, next, entries, dropped, doubled>>

DropEntry ==
    /\ LoadingEntry
    /\ Compiled(mapping.entries[next]) = {}
    /\ dropped' = dropped \cup {next}
    /\ next' = next + 1
    /\ UNCHANGED <<typeFile, mapping, options, entries, doubled, loading, failure>>

Store(value, kept) ==
    entries' = [v \in DOMAIN entries \cup {value} |-> IF v = value THEN kept ELSE entries[v]]

\* A bug: the last entry of a message ID replaces the first.
KeepLast(value, kept) == Store(value, kept) /\ UNCHANGED doubled

\* A message ID mapped twice keeps its first entry.
KeepFirst(value, kept) ==
    IF value \in DOMAIN entries
    THEN doubled' = doubled \cup {kept.index} /\ UNCHANGED entries
    ELSE Store(value, kept) /\ UNCHANGED doubled

AddEntry ==
    /\ LoadingEntry
    /\ LET entry == mapping.entries[next]
       IN  /\ Compiled(entry) # {} /\ Failing(entry) = {}
           /\ KeepFirst(entry.value, [index |-> next, decoders |-> Decoders(entry)])
    /\ next' = next + 1
    /\ UNCHANGED <<typeFile, mapping, options, dropped, loading, failure>>

EndLoad ==
    /\ loading = "entries" /\ next > Len(mapping.entries)
    /\ IF entries = <<>> THEN FailLoad("empty") ELSE loading' = "loaded" /\ UNCHANGED failure
    /\ UNCHANGED <<typeFile, mapping, options, next, entries, dropped, doubled>>

Load == ResolveUnions \/ FailEntry \/ DropEntry \/ AddEntry \/ EndLoad

\* The run that loaded the dictionary is over.
Release ==
    /\ loading \in {"loaded", "failed"}
    /\ loading' = "idle"
    /\ UNCHANGED <<typeFile, mapping, options, next, entries, dropped, doubled, failure>>

\* What ReadMapping gives: finitely many unions and entries, each entry with
\* finitely many function codes, no two of them the same and none the default's.
IsReading(read) ==
    /\ \E S : read.unions \in Seq(S)
    /\ \E S : read.entries \in Seq(S)
    /\ \A i \in DOMAIN read.entries :
          LET fcn == read.entries[i].fcn
          IN  /\ \E S : fcn \in Seq(S)
              /\ \A j \in DOMAIN fcn : fcn[j].code # NoDefault
              /\ \A j, k \in DOMAIN fcn : fcn[j].code = fcn[k].code => j = k

\* One load after another, of any mapping against any type file.
LoadInit == DictionaryInit /\ IsReading(mapping)

LoadNext == \/ \E file, read, given : IsReading(read) /\ StartLoad(file, read, given)
            \/ Load
            \/ Release

LoadSpec == LoadInit /\ [][LoadNext]_dictionaryVars

-----------------------------------------------------------------------------

\* An entry that ended up with a decoder when it was reached.
UsableEntry(i) == i < next /\ Compiled(mapping.entries[i]) # {}

\* A message ID decodes by the first entry of the mapping that has a struct in
\* this build, wherever the absent ones and the later ones stand (load).
FirstUsableWins ==
    \A i \in DOMAIN mapping.entries :
        LET v == mapping.entries[i].value
        IN  UsableEntry(i) => v \in DOMAIN entries /\ entries[v].index <= i /\ UsableEntry(entries[v].index)
                                /\ mapping.entries[entries[v].index].value = v

\* Every entry read so far decodes its message ID, gave way to an entry before
\* it, or was counted as absent, and is one of the three only (load).
EveryEntryAccounted ==
    LET kept == {entries[v].index : v \in DOMAIN entries}
    IN  /\ 1 .. next - 1 = kept \cup dropped \cup doubled
        /\ kept \cap dropped = {} /\ kept \cap doubled = {} /\ dropped \cap doubled = {}
        /\ dropped = {i \in 1 .. next - 1 : \A w \in Range(EntryStructs(mapping.entries[i])) : w \in typeFile.unresolved}
        /\ \A i \in doubled : entries[mapping.entries[i].value].index < i

\* An entry's decoders are those of exactly its structs this build has, under
\* the codes the mapping gives them, and each is a struct (_compile_entry).
DecodersAreTheStructs ==
    \A v \in DOMAIN entries :
        LET entry == mapping.entries[entries[v].index]
            byCode(c) == {f.struct : f \in {f \in Range(entry.fcn) : f.code = c}}
            asked(c) == (IF c = NoDefault THEN {entry.default} \ {NoStruct} ELSE byCode(c)) \ typeFile.unresolved
        IN  \A c \in {NoDefault} \cup {f.code : f \in Range(entry.fcn)} :
                /\ c \in DOMAIN entries[v].decoders <=> asked(c) # {}
                /\ \A w \in asked(c) : Found(Types, w) = {entries[v].decoders[c].type}
=============================================================================
