------------------------------ MODULE Mapping ------------------------------
(***************************************************************************)
(* Reading a mapping file (dictionary.py, read_mapping and what it calls): *)
(* from its items, in file order, to the entries Dictionary.load compiles. *)
(* An entry is [name, value, default, fcn]: default a struct name or none, *)
(* fcn a sequence of function codes with their structs.  An item has the   *)
(* fields of MCPipeline's Item.                                            *)
(***************************************************************************)
EXTENDS Unions

\* A struct name that is not given, and a number that is not one.
NoStruct == <<>>
NoNumber == -1
NotANumber == -2

UNRESOLVED_STRUCT == <<"UNKNOWN">>

\* The function codes in file order.  One written twice, as 1 and as 0x1, keeps
\* its first place and the struct of the last.
Codes(pairs) ==
    LET first == Keeping([i \in DOMAIN pairs |-> i],
                         {i \in DOMAIN pairs : \A j \in 1 .. i - 1 : pairs[j].code # pairs[i].code})
        last(c) == CHOOSE j \in DOMAIN pairs : pairs[j].code = c /\ \A k \in j + 1 .. Len(pairs) : pairs[k].code # c
    IN  [i \in DOMAIN first |-> [code |-> pairs[first[i]].code, struct |-> pairs[last(pairs[first[i]].code)].struct]]

Entry(name, value, default, fcn) == [name |-> name, value |-> value, default |-> default, fcn |-> fcn]

-----------------------------------------------------------------------------

\* The message ID of an item written by hand: 'value' before the key.
EntryValue(item) == IF item.value # NoNumber THEN item.value ELSE item.key

\* What an item written by hand must have, or the file is refused.
EntryReads(item) ==
    /\ item.shape \in {"name", "map"}
    /\ EntryValue(item) >= 0
    /\ item.default # NoStruct \/ item.fcn # <<>>
    /\ \A i \in DOMAIN item.fcn : item.fcn[i].code # NotANumber

ReadEntry(item) == Entry(item.name, EntryValue(item), item.default, Codes(item.fcn))

-----------------------------------------------------------------------------

Usable(struct) == struct \notin {NoStruct, UNRESOLVED_STRUCT}

\* A fcode that is not an object goes unmentioned; one without a struct or a
\* number is set aside.
UsableCodes(item) ==
    Keeping(item.fcn, {f \in Range(item.fcn) : f.object /\ Usable(f.struct) /\ ~f.null /\ f.code # NotANumber})

\* The usage that named no function code stands for every other one; the last
\* of several does.
AnyCode(item) == Keeping(item.fcn, {f \in Range(item.fcn) : f.object /\ Usable(f.struct) /\ f.null})

GeneratedDefault(item) ==
    CASE item.type = "command" /\ item.fcodes /\ AnyCode(item) # <<>> -> Last(AnyCode(item)).struct
      [] item.type # "command" /\ Usable(item.default) -> item.default
      [] OTHER -> NoStruct

GeneratedCodes(item) == IF item.type = "command" /\ item.fcodes THEN Codes(UsableCodes(item)) ELSE <<>>

\* The message ID and at least one struct were worked out by the scanner.
GeneratedReads(item) ==
    /\ item.shape = "map" /\ item.value >= 0
    /\ GeneratedDefault(item) # NoStruct \/ GeneratedCodes(item) # <<>>

\* Items of a generated file that say too little are passed over.
ReadGenerated(items) ==
    LET good == Keeping(items, {item \in Range(items) : GeneratedReads(item)})
    IN  [i \in DOMAIN good |-> Entry(good[i].name, good[i].value, GeneratedDefault(good[i]), GeneratedCodes(good[i]))]

-----------------------------------------------------------------------------

\* The shape of an item of 'unions': what it may say together with what.
UnionReads(item) ==
    /\ item.given \in {{"keep"}, {"drop"}, {"tag", "cases"}, {"tag", "cases", "keep"}}
    /\ "tag" \notin item.given => item.use.names # {}
    /\ "tag" \in item.given => item.use.tag # <<>> /\ item.use.cases # <<>>

ReadUnion(item) ==
    [item.use EXCEPT !.how = CASE "tag" \in item.given -> "tag"
                               [] "tag" \notin item.given /\ "keep" \in item.given -> "keep"
                               [] OTHER -> "drop"]

\* Only a generated map has function codes under a key of their own, the apps
\* that use a message, or the directories its scanner left out.
LooksGenerated(mapping) ==
    mapping.skippedApps \/ \E i \in DOMAIN mapping.items : mapping.items[i].shape = "map" /\ mapping.items[i].generated

\* What the file alone decides: extract and decode refuse it alike.
ReadsMapping(mapping) ==
    /\ mapping.items # <<>>
    /\ mapping.unionBytes \in {"", "keep", "drop"}
    /\ \A i \in DOMAIN mapping.unions : UnionReads(mapping.unions[i])
    /\ IF LooksGenerated(mapping) THEN ReadGenerated(mapping.items) # <<>>
       ELSE \A i \in DOMAIN mapping.items : EntryReads(mapping.items[i])

ReadMapping(mapping) ==
    [entries |-> IF LooksGenerated(mapping) THEN ReadGenerated(mapping.items)
                 ELSE [i \in DOMAIN mapping.items |-> ReadEntry(mapping.items[i])],
     unions |-> [i \in DOMAIN mapping.unions |->
                    [name |-> mapping.unions[i].name, use |-> ReadUnion(mapping.unions[i])]],
     unionBytes |-> mapping.unionBytes,
     headers |-> mapping.headers]

\* The structs an entry names, the default before those of function codes.
EntryStructs(entry) ==
    (IF entry.default = NoStruct THEN <<>> ELSE <<entry.default>>)
    \o [i \in DOMAIN entry.fcn |-> entry.fcn[i].struct]

StructNames(entries) == UNION {Range(EntryStructs(entries[i])) : i \in DOMAIN entries}
=============================================================================
