--------------------------- MODULE StructCompiler ---------------------------
(***************************************************************************)
(* What the walk from a message type to its columns is made of (decode.py, *)
(* _Field and its kinds, _Builder).  The recursive calls of the walk are a *)
(* list of what is still to be walked, in order.  A field is added to the  *)
(* list of fields being collected at the time: 1 is the message's own, and *)
(* each alternative of a tagged union has one.                             *)
(***************************************************************************)
EXTENDS MsgHeader, Unions

\* How many elements an array has.
Product(dims) ==
    LET product[n \in 0 .. Len(dims)] == IF n = 0 THEN 1 ELSE product[n - 1] * dims[n]
    IN  product[Len(dims)]

HasFormat(encoding, size) == size \in (IF encoding = "float" THEN {4, 8} ELSE {1, 2, 4, 8})

\* What a node is unpacked as: an enum's and a pointer's own kind, or its encoding.
Encoding(node) == CASE node.kind = "pointer" -> "pointer"
                    [] node.kind \in {"enum", "base"} -> node.encoding
                    [] OTHER -> "none"

IsScalar(node) == node.kind \in {"enum", "pointer", "base"}

IsChar(node) == IsScalar(node) /\ Encoding(node) = "char" /\ node.size = 1

\* Element p of an array, row by row, as the index it is written with.
Index(dims, p) ==
    [i \in DOMAIN dims |->
        "[" \o ToString((p \div Product(SubSeq(dims, i + 1, Len(dims)))) % dims[i]) \o "]"]

Paths(column, dims) == [p \in 1 .. Product(dims) |-> column \o Index(dims, p - 1)]

-----------------------------------------------------------------------------
(* What is still to be walked.                                              *)

\* The first bit of a bit-field, in what it is a member of.
FirstBit(m) == IF m.bit = NoSize THEN m.offset * 8 ELSE m.bit

\* A bug: the bits of a nested struct are counted from the message's start.
PieceFlatBits(m, column, at, depth, into) ==
    [what |-> "piece", type |-> m.type, column |-> column \o m.name, at |-> at + m.offset,
     bits |-> m.bits, bit |-> FirstBit(m), depth |-> depth, into |-> into]

\* A bug: a bit-field is where its member is said to begin, to the bit.
PieceNoBit(m, column, at, depth, into) ==
    [what |-> "piece", type |-> m.type, column |-> column \o m.name, at |-> at + m.offset,
     bits |-> m.bits, bit |-> at * 8 + m.bit, depth |-> depth, into |-> into]

\* A member, or an element, of what is at the given place.
Piece(m, column, at, depth, into) ==
    [what |-> "piece", type |-> m.type, column |-> column \o m.name, at |-> at + m.offset,
     bits |-> m.bits, bit |-> at * 8 + FirstBit(m), depth |-> depth, into |-> into]

Pieces(members, column, at, depth, into) ==
    [i \in DOMAIN members |-> Piece(members[i], column, at, depth, into)]

Element(node, size, p) == [name |-> Index(node.dims, p - 1), offset |-> (p - 1) * size,
                           type |-> node.elem, bits |-> NoSize, bit |-> NoSize]

Elements(node, size) == [p \in 1 .. Product(node.dims) |-> Element(node, size, p)]

\* The rows of an array of characters, each of them one text.
Rows(node, column, at, into) ==
    LET row == Last(node.dims)
    IN  [p \in 1 .. Product(Front(node.dims)) |->
            [what |-> "text", column |-> column \o Index(Front(node.dims), p - 1),
             at |-> at + (p - 1) * row, width |-> row, into |-> into]]

BitsWidth(bit, bits) == ((bit % 8) + bits + 7) \div 8

\* Where the identifier is read, if the decoder can read it.
TagField(types, tag, at) ==
    LET node == Resolve(types, tag.type)
        bit  == FirstBit(tag) + at * 8
    IN  IF tag.bits # NoSize THEN {[at |-> bit \div 8, width |-> BitsWidth(bit, tag.bits)]}
        ELSE IF /\ node.kind \in {"enum", "base"}
                /\ node.encoding \in {"int", "uint", "bool", "char"}
                /\ HasFormat(node.encoding, node.size)
             THEN {[at |-> at + tag.offset, width |-> node.size]} ELSE {}

-----------------------------------------------------------------------------
(* Fields.  A column's name is the path to it, and which one of that path   *)
(* it is: the first, or with its number behind a "#".                       *)

\* A bug: a name met before is used again.
UniqueNot(asked, p) == [path |-> asked[p], copy |-> 0]

\* The name that the p-th column asked for gets.
Unique(asked, p) ==
    [path |-> asked[p], copy |-> Cardinality({i \in 1 .. p - 1 : asked[i] = asked[p]})]

\* One column for each path, one behind the other.
Plain(used, paths, at, each, into) ==
    [kind |-> "plain", names |-> [k \in DOMAIN paths |-> Unique(used \o paths, Len(used) + k)],
     at |-> at, width |-> Len(paths) * each, each |-> each, into |-> into, fields |-> <<>>, values |-> <<>>]

NamesOf(made, some) == FlattenSeq([k \in DOMAIN some |-> made[some[k]].names])

\* Some of the fields, in the order they were made.
AsMade(made, some) == Keeping([r \in DOMAIN made |-> r], some)

\* A bug: a field that only begins in the identifier is taken for a copy of it.
StartsInIdentifier(t, f) == t.from <= f.at /\ f.at < t.to

InsideIdentifier(t, f) == t.from <= f.at /\ f.at + f.width <= t.to

\* All the fields of a tagged union's alternatives but the copies of the
\* identifier, each with the identifier values it is for.
Switch(made, t) ==
    LET of(r) == made[r].into - t.first
        kept  == AsMade(made, {r \in DOMAIN made : of(r) \in DOMAIN t.values /\ ~InsideIdentifier(t, made[r])})
    IN  [kind |-> "switch", names |-> NamesOf(made, kept), at |-> t.at, width |-> t.width, each |-> 0,
         into |-> t.into, fields |-> kept, values |-> [k \in DOMAIN kept |-> t.values[of(kept[k])]]]

-----------------------------------------------------------------------------
(* Reading a packet into a row: a cell is the bytes it shows, or Null.      *)

Null == [at |-> NoSize, width |-> 0]

Nulls(n) == [i \in 1 .. n |-> Null]

\* A bug: the last byte of the packet is not used.
FieldFitsShort(f, p) == p.base + f.at + f.width < p.limit

\* A bug: only where a field begins is compared with the limit.
FieldFitsStart(f, p) == p.base + f.at <= p.limit

FieldFits(f, p) == p.base + f.at + f.width <= p.limit

\* The identifier chooses one alternative's columns, the others stay empty.
\* cells: those of the fields made before this one.
Read(f, cells, p) ==
    IF ~FieldFits(f, p) THEN Nulls(Len(f.names))
    ELSE IF f.kind = "plain" THEN [k \in DOMAIN f.names |-> [at |-> p.base + f.at + (k - 1) * f.each, width |-> f.each]]
    ELSE FlattenSeq([k \in DOMAIN f.fields |->
            IF p.reads[p.base + f.at] \in f.values[k] THEN cells[f.fields[k]]
            ELSE Nulls(Len(cells[f.fields[k]]))])

\* What each field reads as.
Cells(made, p) ==
    LET cells[n \in 0 .. Len(made)] ==
            IF n = 0 THEN <<>> ELSE LET before == cells[n - 1] IN Append(before, Read(made[n], before, p))
    IN  cells[Len(made)]
=============================================================================
