----------------------------- MODULE DieReader -----------------------------
(***************************************************************************)
(* From DWARF entries to registry types (dwarf.py, _key_for_die and what   *)
(* it calls).  The calls of _key_for_die nest as the entries do: one is    *)
(* called, takes in what the types of its members came to, and returns its *)
(* key, from which its caller goes on.  What is asked of an entry that was *)
(* read, or is being read, is answered without a call.                     *)
(***************************************************************************)
EXTENDS Names, SequencesExt

CONSTANT Dies       \* by name; an entry's fields are those of MCPipeline's Blank

VARIABLES
    types, conflicts,   \* the registry
    keys,               \* the key of each entry read in this file
    anon,               \* names that typedefs give nameless entries
    endian, pointer,    \* of the file
    calls               \* the entries being read, each [die, known, left, members]

readerVars == <<types, conflicts, keys, anon, endian, pointer, calls>>

\* What an attribute may refer to besides an entry.
NoRef == "none"
BadRef == "bad"

COMPOSITE_TAGS == {"struct", "class", "union"}
SCOPE_TAGS == COMPOSITE_TAGS \cup {"namespace"}
QUALIFIER_TAGS == {"const", "volatile", "restrict", "atomic"}
POINTER_TAGS == {"pointer", "reference"}
WALK_TAGS == COMPOSITE_TAGS \cup {"typedef", "enum"}

\* What an entry's attributes hold, NoSize for one that is not there.
ASSUME DiesAssumption ==
    /\ {NoRef, BadRef} \cap DOMAIN Dies = {}
    /\ \A d \in DOMAIN Dies :
          /\ Dies[d].ref \in DOMAIN Dies \cup {NoRef, BadRef}
          /\ Dies[d].children \in Seq(DOMAIN Dies)
          /\ {Dies[d].size, Dies[d].offset, Dies[d].bits, Dies[d].dataBit, Dies[d].legacyBit,
              Dies[d].count, Dies[d].upper, Dies[d].lower} \subseteq Int

\* The entry's own name, or that of the entry it was declared by.
DieName(d) ==
    IF Dies[d].name # <<>> \/ Dies[d].origin \in {NoRef, BadRef} THEN Dies[d].name
    ELSE Dies[Dies[d].origin].name

\* The names of the scopes from d outwards, outermost first.
Scope[d \in DOMAIN Dies \cup {NoRef}] ==
    IF d = NoRef THEN <<>>
    ELSE IF Dies[d].tag \in SCOPE_TAGS THEN Scope[Dies[d].parent] \o DieName(d) ELSE <<>>

Qualify(d) == Scope[Dies[d].parent] \o DieName(d)

\* No name of the source looks like the name of a type that has none.
ASSUME NamesAssumption ==
    \A d \in DOMAIN Dies : DieName(d) # <<>> => ~IsSynthetic(DieName(d)) /\ ~IsSynthetic(Qualify(d))

IsAnonymous(d) == Dies[d].tag \in COMPOSITE_TAGS \cup {"enum"} /\ DieName(d) = <<>>

\* An entry's key: its own name, or the one a typedef gives it.
Named(d) == DieName(d) # <<>> \/ d \in DOMAIN anon

OwnKey(d) == IF DieName(d) # <<>> THEN Qualify(d) ELSE anon[d]

IsComplete(d) == Dies[d].tag \in COMPOSITE_TAGS /\ ~Dies[d].decl /\ Dies[d].size # NoSize

Composite(d, members) ==
    [kind |-> IF Dies[d].tag = "union" THEN "union" ELSE "struct", size |-> Dies[d].size, members |-> members]

\* types[key] = node, and the same unless there is one.
Put(f, key, value) == [k \in DOMAIN f \cup {key} |-> IF k = key THEN value ELSE f[k]]

PutNew(f, key, value) == IF key \in DOMAIN f THEN f ELSE Put(f, key, value)

-----------------------------------------------------------------------------
(* Calls.                                                                   *)

\* Entries being read.
Busy == {calls[i].die : i \in DOMAIN calls}

\* No type, and one that is being read, are void.
Answered(ref) == ref \in DOMAIN keys \/ ref = NoRef \/ ref \in Busy

AnswerTo(ref) == IF ref \in DOMAIN keys THEN keys[ref] ELSE VOID_KEY

\* Pointers and named typedefs look at what they refer to before anything else.
Raises(ref) ==
    IF ref = BadRef THEN TRUE
    ELSE /\ ~Answered(ref) /\ Dies[ref].ref = BadRef
         /\ Dies[ref].tag \in POINTER_TAGS \/ (Dies[ref].tag = "typedef" /\ DieName(ref) # <<>>)

\* The name is taken: there is nothing to read.
Known(d) ==
    /\ (Dies[d].tag = "typedef" /\ DieName(d) # <<>>) \/ (IsComplete(d) /\ Named(d))
    /\ OwnKey(d) \in DOMAIN types

\* Static members, members at no offset the entry gives and virtual bases are
\* nowhere in the type.
Placed(c, d) ==
    \/ /\ Dies[c].tag = "member" /\ ~Dies[c].decl
       /\ Dies[c].offset # NoSize \/ Dies[c].dataBit # NoSize \/ Dies[d].tag = "union"
    \/ Dies[c].tag = "inheritance" /\ Dies[c].offset # NoSize

\* The entries whose types are read for d, itself or its members.
ToRead(d) ==
    CASE Known(d) -> <<>>
      [] ~Known(d) /\ Dies[d].tag \in QUALIFIER_TAGS \cup {"typedef", "array", "enum"} -> <<d>>
      [] ~Known(d) /\ IsComplete(d) -> Keeping(Dies[d].children, {c \in DOMAIN Dies : Placed(c, d)})
      [] OTHER -> <<>>

\* A composite's name is entered before its members are read.
Call(d) ==
    /\ calls' = Append(calls, [die |-> d, known |-> Known(d), left |-> ToRead(d), members |-> <<>>])
    /\ types' = IF IsComplete(d) /\ Named(d) THEN PutNew(types, OwnKey(d), Composite(d, <<>>)) ELSE types

\* The innermost entry being read, and what it asks for next.
Top == calls[Len(calls)]

Asks == calls # <<>> /\ Top.left # <<>>

Asked == Dies[Head(Top.left)].ref

Answer == AnswerTo(Asked)

\* A bug: an exception leaves the entries around it being read.
UnwindInnermost == calls' = SubSeq(calls, 1, Len(calls) - 1)

Unwind == calls' = <<>>

\* A key is remembered unless there was an exception.
Return(key) ==
    /\ keys' = Put(keys, Top.die, key)
    /\ calls' = SubSeq(calls, 1, Len(calls) - 1)

-----------------------------------------------------------------------------
(* Entering types.                                                          *)

Register(key, node) == types' = Put(types, key, node) /\ UNCHANGED conflicts

\* A bug: what is read of a key that is taken is not looked at.
NoteUnread(key, size) == UNCHANGED conflicts

\* Another size for a key that is taken is a conflict.
Note(key, size) ==
    conflicts' = IF key \in DOMAIN types /\ "size" \in DOMAIN types[key] /\ types[key].size # size
                 THEN conflicts \cup {key} ELSE conflicts

\* A key that is taken stays as it is.
RegisterNew(key, node) == types' = PutNew(types, key, node)

\* "char" alone is text; DWARF's other character encodings are numbers.
BaseEncoding(d) ==
    LET enc == Dies[d].encoding
    IN  CASE DieName(d) = <<"char">> \/ enc = "UTF" -> "char"
          [] DieName(d) # <<"char">> /\ enc \in {"float", "bool"} -> enc
          [] DieName(d) # <<"char">> /\ enc \in {"signed", "signed_char"} -> "int"
          [] OTHER -> "uint"

BaseKey(d) == IF DieName(d) = <<>> THEN <<"unnamed_base">> ELSE DieName(d)

OwnSize(d) == IF Dies[d].size = NoSize THEN 0 ELSE Dies[d].size

BuildBase(d) ==
    /\ Dies[d].tag = "base"
    /\ RegisterNew(BaseKey(d), [kind |-> "base", size |-> OwnSize(d), encoding |-> BaseEncoding(d)])
    /\ Note(BaseKey(d), OwnSize(d))
    /\ Return(BaseKey(d))

\* A qualifier is what it qualifies.
BuildQualified(d) ==
    /\ Dies[d].tag \in QUALIFIER_TAGS \/ (Dies[d].tag = "typedef" /\ DieName(d) = <<>>)
    /\ Return(Answer)
    /\ UNCHANGED <<types, conflicts>>

\* A bug: the first typedef is taken to have named the struct.
BuildTypedefNamed(d) ==
    /\ Dies[d].tag = "typedef" /\ DieName(d) # <<>>
    /\ IF Top.known \/ (Asked # NoRef /\ IsAnonymous(Asked)) THEN UNCHANGED <<types, conflicts>>
       ELSE Register(Qualify(d), [kind |-> "typedef", target |-> Answer])
    /\ Return(Qualify(d))

\* typedef struct {...} Foo_t: the struct took the name.
BuildTypedef(d) ==
    /\ Dies[d].tag = "typedef" /\ DieName(d) # <<>>
    /\ IF Top.known \/ Answer = Qualify(d) THEN UNCHANGED <<types, conflicts>>
       ELSE Register(Qualify(d), [kind |-> "typedef", target |-> Answer])
    /\ Return(Qualify(d))

-----------------------------------------------------------------------------
(* Structs.                                                                 *)

Byte(m) == IF m.bit = NoSize THEN m.offset ELSE m.bit \div 8

\* members.sort(key=...) keeps the order of members at the same byte: each goes
\* after as many as are before it.
Sorted(members) ==
    LET before(i, j) == \/ Byte(members[i]) < Byte(members[j])
                        \/ Byte(members[i]) = Byte(members[j]) /\ i <= j
        place(j) == Cardinality({i \in DOMAIN members : before(i, j)})
    IN  [n \in DOMAIN members |-> members[CHOOSE j \in DOMAIN members : place(j) = n]]

\* Where a bit field begins, counted from the start of the type.  Before DWARF
\* 4 it was counted from the top of a storage unit.
BitOffset(c, offset, key) ==
    LET die     == Dies[c]
        storage == IF die.size # NoSize THEN die.size ELSE SizeOr0(types, key)
    IN  IF die.dataBit # NoSize THEN die.dataBit
        ELSE IF endian = "little" THEN offset * 8 + storage * 8 - die.legacyBit - die.bits
        ELSE offset * 8 + die.legacyBit

\* key: what the member's type came to.
MemberRead(c, key) ==
    LET die    == Dies[c]
        offset == IF die.offset = NoSize THEN 0 ELSE die.offset
        bit    == BitOffset(c, offset, key)
        plain  == [name |-> DieName(c), offset |-> offset, type |-> key, bits |-> NoSize, bit |-> NoSize]
    IN  IF die.bits = NoSize \/ {die.dataBit, die.legacyBit} = {NoSize} THEN plain
        ELSE [plain EXCEPT !.offset = bit \div 8, !.bits = die.bits, !.bit = bit]

\* A bug: the members of a base class keep the offsets they have in it.
InheritedUnmoved(c, key) == IF IsComposite(Resolve(types, key)) THEN Resolve(types, key).members ELSE <<>>

\* A base class's members, moved to where the base is.
Inherited(c, key) ==
    LET base == Resolve(types, key)
        at   == Dies[c].offset
        moved(m) == [m EXCEPT !.offset = @ + at, !.bit = IF @ = NoSize THEN NoSize ELSE @ + at * 8]
    IN  IF IsComposite(base) THEN [i \in DOMAIN base.members |-> moved(base.members[i])] ELSE <<>>

\* The next child of a composite, its type read.
TakeChild ==
    /\ Asks /\ Dies[Top.die].tag \in COMPOSITE_TAGS /\ Answered(Asked)
    /\ LET c    == Head(Top.left)
           more == IF Dies[c].tag = "member" THEN <<MemberRead(c, Answer)>> ELSE Inherited(c, Answer)
       IN  calls' = [calls EXCEPT ![Len(calls)] = [Top EXCEPT !.left = Tail(@), !.members = @ \o more]]
    /\ UNCHANGED <<types, conflicts, keys>>

\* What the name of a nameless type is made from; the width of a bit field is not.
AnonKey(node) ==
    LET m == node.members
    IN  <<"@anon", node.kind, node.size,
          [i \in DOMAIN m |-> <<m[i].name, m[i].offset, m[i].type, m[i].bit>>]>>

\* A bug: the last definition of a name replaces the first.
BuildCompositeAnew(d) ==
    /\ IsComplete(d)
    /\ LET node == Composite(d, Sorted(Top.members))
       IN  IF Named(d) THEN Register(OwnKey(d), node) /\ Return(OwnKey(d))
           ELSE Register(AnonKey(node), node) /\ Return(AnonKey(node))

\* An incomplete type is void; a named one is entered again with its members.
BuildComposite(d) ==
    /\ IsComplete(d)
    /\ LET node == Composite(d, Sorted(Top.members))
       IN  CASE Top.known -> Note(OwnKey(d), node.size) /\ UNCHANGED types /\ Return(OwnKey(d))
             [] ~Top.known /\ Named(d) -> Register(OwnKey(d), node) /\ Return(OwnKey(d))
             [] OTHER -> RegisterNew(AnonKey(node), node) /\ UNCHANGED conflicts /\ Return(AnonKey(node))

-----------------------------------------------------------------------------

\* A subrange's extent; 0 for a flexible array.
Extent(d) ==
    LET die   == Dies[d]
        lower == IF die.lower = NoSize THEN 0 ELSE die.lower
        count == IF die.count # NoSize THEN die.count
                 ELSE IF die.upper # NoSize THEN die.upper - lower + 1 ELSE 0
    IN  IF count < 0 THEN 0 ELSE count

Extents(d) ==
    LET ranges == Keeping(Dies[d].children, {c \in DOMAIN Dies : Dies[c].tag = "subrange"})
    IN  IF ranges = <<>> THEN <<0>> ELSE [i \in DOMAIN ranges |-> Extent(ranges[i])]

\* elem_size times every extent.
TotalSize(size, dims) ==
    LET total[n \in 0 .. Len(dims)] == IF n = 0 THEN size ELSE total[n - 1] * dims[n]
    IN  total[Len(dims)]

ArrayNode(elem, dims, size) == [kind |-> "array", elem |-> elem, dims |-> dims, size |-> size]

BuildArray(d) ==
    LET total == TotalSize(SizeOr0(types, Answer), Extents(d))
        size  == IF Dies[d].size = NoSize THEN total ELSE Dies[d].size
        key   == ArrayKey(Answer, Extents(d))
    IN  /\ Dies[d].tag = "array"
        /\ RegisterNew(key, ArrayNode(Answer, Extents(d), size))
        /\ UNCHANGED conflicts
        /\ Return(key)

\* The last label of a value is its label.
EnumValues(d) ==
    LET labels == Keeping(Dies[d].children, {c \in DOMAIN Dies : Dies[c].tag = "enumerator"})
    IN  FoldLeft(LAMBDA acc, c : (Dies[c].value :> DieName(c)) @@ acc, <<>>, labels)

EnumSize(d) ==
    LET base  == SizeOr0(types, Answer)
    IN  IF Dies[d].size # NoSize THEN Dies[d].size ELSE IF Dies[d].ref # NoRef /\ base > 0 THEN base ELSE 4

EnumEncoding(d) ==
    LET base   == IF Dies[d].ref = NoRef THEN Absent ELSE Resolve(types, Answer)
        signed == IF \E v \in DOMAIN EnumValues(d) : v < 0 THEN "int" ELSE "uint"
    IN  IF "encoding" \in DOMAIN base /\ base.encoding \in {"int", "uint"} THEN base.encoding ELSE signed

BuildEnum(d) ==
    LET key  == IF Named(d) THEN OwnKey(d) ELSE <<"@enum", EnumSize(d), EnumValues(d)>>
        node == [kind |-> "enum", size |-> EnumSize(d), encoding |-> EnumEncoding(d), values |-> EnumValues(d)]
    IN  /\ Dies[d].tag = "enum"
        /\ RegisterNew(key, node)
        /\ Note(key, node.size)
        /\ Return(key)

\* What is pointed at is named but never read: that is where recursion ends.
BuildPointer(d) ==
    LET ref    == Dies[d].ref
        target == IF ref = NoRef \/ DieName(ref) = <<>> THEN <<>> ELSE Qualify(ref)
        size   == IF Dies[d].size = NoSize THEN pointer ELSE Dies[d].size
        key    == PointerKey(size, target)
    IN  /\ Dies[d].tag \in POINTER_TAGS
        /\ RegisterNew(key, [kind |-> "pointer", size |-> size])
        /\ UNCHANGED conflicts
        /\ Return(key)

TYPE_TAGS == COMPOSITE_TAGS \cup QUALIFIER_TAGS \cup POINTER_TAGS \cup {"base", "typedef", "array", "enum"}

\* A type without a definition, and what is no type, is void.
BuildVoid(d) ==
    /\ (Dies[d].tag \in COMPOSITE_TAGS /\ ~IsComplete(d)) \/ Dies[d].tag \notin TYPE_TAGS
    /\ Return(VOID_KEY)
    /\ UNCHANGED <<types, conflicts>>

\* The innermost entry has all it needs.
Build ==
    /\ calls # <<>>
    /\ Asks => Dies[Top.die].tag \notin COMPOSITE_TAGS /\ Answered(Asked)
    /\ \E d \in {Top.die} :
          \/ BuildQualified(d) \/ BuildBase(d) \/ BuildTypedef(d) \/ BuildComposite(d)
          \/ BuildArray(d) \/ BuildEnum(d) \/ BuildPointer(d) \/ BuildVoid(d)
=============================================================================
