--------------------------- MODULE MessageDecoder ---------------------------
(***************************************************************************)
(* One message type compiled into a decoder, and then used on packets of   *)
(* any length (decode.py, compile_struct, _Builder and Decoder).           *)
(***************************************************************************)
EXTENDS StructCompiler

CONSTANTS
    Types,          \* the type file's registry
    Jobs,           \* message types, each with the options it is compiled under
    MaxDepth,       \* MAX_DEPTH
    PayloadOffset,  \* where a packet's payload starts, for a bare struct
    Limits,         \* packet lengths
    Identifiers,    \* what the identifier of a tagged union may read as
    Levels          \* how deep the types are looked into for what they store

\* Of what the type file gives a member, and of what a mapping gives a union.
IsMember(m) == m \in [name : Seq(STRING), offset : Nat, type : {m.type},
                      bits : {NoSize} \cup (Nat \ {0}), bit : {NoSize} \cup Nat]

IsUse(use) == /\ use \in [how : {"keep", "drop", "tag"}, names : SUBSET Seq(STRING), tag : Seq(Seq(STRING)),
                          cases : Seq(Range(use.cases))]
              /\ use.how = "tag" => use.tag # <<>>

\* Sizes and extents are counts, and a union's members differ in name.
WellFormed(node) ==
    /\ node.kind \in {"base", "enum", "pointer", "array", "struct", "union", "typedef"}
    /\ node.kind # "typedef" => node.size \in Nat
    /\ node.kind = "array" => node.dims \in Seq(Nat) \ {<<>>}
    /\ IsComposite(node) => /\ node.members \in Seq(Range(node.members))
                            /\ \A m \in Range(node.members) : IsMember(m)
    /\ node.kind = "union" => \A m, n \in Range(node.members) : m.name = n.name /\ m.name # <<>> => m = n

ASSUME BoundsAssumption == /\ MaxDepth \in Nat /\ Levels \in Nat /\ MaxDepth < Levels
                           /\ PayloadOffset \in Nat /\ Limits \subseteq Nat

ASSUME TypesAssumption == \A k \in DOMAIN Types : WellFormed(Types[k])

\* Whether a member lies in the first so many bytes, of something it begins at base of.
FitsIn(m, base, size) ==
    IF m.bits = NoSize THEN base + m.offset + SizeOr0(Types, m.type) <= size
    ELSE base * 8 + FirstBit(m) + m.bits <= size * 8 /\ ~IsComposite(Resolve(Types, m.type))

\* What a type is made of lies in it, as compilers lay types out.
ASSUME LayoutAssumption ==
    \A k \in DOMAIN Types :
        /\ IsComposite(Types[k]) => \A m \in Range(Types[k].members) : FitsIn(m, 0, Types[k].size)
        /\ Types[k].kind = "array" => Product(Types[k].dims) * SizeOr0(Types, Types[k].elem) <= Types[k].size

ASSUME JobsAssumption == \A j \in Jobs : \A u \in DOMAIN j.unions : IsUse(j.unions[u])

VARIABLES
    job,            \* the type and the options
    status,         \* "start", "walking", "ready" or "refused"
    todo,           \* what is still to be walked, the next of it first
    made,           \* the fields so far, of all lists
    lists,          \* how many lists of fields there are so far
    used,           \* the names asked for so far
    dropped,        \* what gets no column: what is reported, under what, and why
    headerSize,
    packet,         \* the packet last decoded: where it starts and ends, its identifiers
    row             \* its cells

vars == <<job, status, todo, made, lists, used, dropped, headerSize, packet, row>>

Message == Resolve(Types, job.key)

NoPacket == [base |-> 0, limit |-> 0, reads |-> <<>>]

Init == /\ job \in Jobs
        /\ status = "start"
        /\ todo = <<>>
        /\ made = <<>>
        /\ lists = 1
        /\ used = <<>>
        /\ dropped = {}
        /\ headerSize = 0
        /\ packet = NoPacket
        /\ row = <<>>

Compiles == /\ IsComposite(Message)
            /\ \A u \in DOMAIN job.unions :
                  /\ Node(Types, u).kind = "union"
                  /\ UseFits(Types, Types[u], job.unions[u])

Refuse == /\ status = "start"
          /\ ~Compiles
          /\ status' = "refused"
          /\ UNCHANGED <<job, todo, made, lists, used, dropped, headerSize, packet, row>>

\* The members to walk: all but the header; none of a message that is one.
Walked == IF IsHeader(Types, job.key, job.declared) THEN <<>>
          ELSE Keeping(Message.members, {m \in Range(Message.members) : ~LeadsWithHeader(Types, m, job.declared)})

Begin == /\ status = "start"
         /\ Compiles
         /\ status' = "walking"
         /\ headerSize' = HeaderSize(Types, job.key, job.declared)
         /\ todo' = Pieces(Walked, <<>>, 0, 1, 1)
         /\ UNCHANGED <<job, made, lists, used, dropped, packet, row>>

-----------------------------------------------------------------------------
(* The walk: one action for each way a member, or an element, is dealt with. *)

Now == Head(todo)

Inner == Resolve(Types, Now.type)

Elem == Resolve(Types, Inner.elem)

Use == UseOf(job.unions, ChainEnd(Types, Now.type))

\* Why there will be no column for what is walked.
Lack ==
    CASE Now.depth > MaxDepth -> "depth"
      [] Now.depth <= MaxDepth /\ Inner.kind = "absent" -> "no type"
      [] Now.depth <= MaxDepth /\ Inner.kind = "base" /\ Inner.size = 0 -> "no size"
      [] Now.depth <= MaxDepth /\ Inner.kind = "array" /\ Product(Inner.dims) <= 0 -> "flexible"
      [] Now.depth <= MaxDepth /\ Inner.kind = "array" /\ Product(Inner.dims) > 0
            /\ SizeOr0(Types, Inner.elem) <= 0 -> "no element type"
      [] OTHER -> "none"

Walking(kinds) == /\ status = "walking"
                  /\ todo # <<>>
                  /\ Now.what = "piece"
                  /\ Now.bits = NoSize
                  /\ Lack = "none"
                  /\ Inner.kind \in kinds

Replace(pieces) == todo' = pieces \o Tail(todo)

\* One column for each of the paths, one behind the other.
AddField(paths, at, each) ==
    /\ made' = Append(made, Plain(used, paths, at, each, Now.into))
    /\ used' = used \o paths
    /\ Replace(<<>>)
    /\ UNCHANGED <<job, status, lists, dropped, headerSize, packet, row>>

WalkBits ==
    /\ status = "walking"
    /\ todo # <<>>
    /\ Now.what = "piece"
    /\ Now.bits # NoSize
    /\ AddField(<<Now.column>>, Now.bit \div 8, BitsWidth(Now.bit, Now.bits))

\* _Builder.drop
Drop ==
    /\ status = "walking"
    /\ todo # <<>>
    /\ Now.what = "piece"
    /\ Now.bits = NoSize
    /\ Lack # "none"
    /\ dropped' = dropped \cup {[column |-> Now.column, under |-> Now.column, reason |-> Lack]}
    /\ Replace(<<>>)
    /\ UNCHANGED <<job, status, made, lists, used, headerSize, packet, row>>

WalkScalar ==
    /\ Walking({"base", "enum", "pointer"})
    /\ AddField(<<Now.column>>, Now.at, Inner.size)

WalkMembers ==
    /\ Walking({"struct", "union"})
    /\ Inner.kind = "union" => Use.how # "tag"
    /\ LET members == IF Inner.kind = "struct" THEN Inner.members
                      ELSE UnionMembers(Types, Inner, Use, job.unionBytes)
       IN  Replace(Pieces(members, Now.column, Now.at, Now.depth + 1, Now.into))
    /\ UNCHANGED <<job, status, made, lists, used, dropped, headerSize, packet, row>>

\* The members that are always there, then each alternative into a list of its
\* own, then one field for them all.
WalkTagged ==
    /\ Walking({"union"})
    /\ Use.how = "tag"
    /\ LET plan   == PlanUnion(Types, Inner, Use)
           tag    == TagField(Types, plan.tag, Now.at)
           always == Pieces(plan.always, Now.column, Now.at, Now.depth + 1, Now.into)
           alts   == [j \in DOMAIN plan.alternatives |->
                         Piece(plan.alternatives[j].member, Now.column, Now.at, Now.depth + 1, lists + j)]
       IN  \/ /\ tag = {}
              /\ Replace(always)
              /\ dropped' = dropped \cup {[column |-> Now.column \o FlattenSeq(Use.tag), under |-> Now.column,
                                           reason |-> "identifier"]}
              /\ UNCHANGED lists
           \/ \E f \in tag :
              /\ Replace(always \o alts \o
                     <<[what |-> "switch", at |-> f.at, width |-> f.width, from |-> Now.at + plan.from,
                        to |-> Now.at + plan.to, first |-> lists, into |-> Now.into,
                        values |-> [j \in DOMAIN plan.alternatives |-> plan.alternatives[j].values]]>>)
              /\ lists' = lists + Len(plan.alternatives)
              /\ UNCHANGED dropped
    /\ UNCHANGED <<job, status, made, used, headerSize, packet, row>>

\* All the alternatives of a tagged union were walked.
MakeSwitch ==
    /\ status = "walking"
    /\ todo # <<>>
    /\ Now.what = "switch"
    /\ made' = Append(made, Switch(made, Now))
    /\ Replace(<<>>)
    /\ UNCHANGED <<job, status, lists, used, dropped, headerSize, packet, row>>

TextArray == IsChar(Elem) /\ job.chars = "text"

Unpacked == IsScalar(Elem) /\ HasFormat(Encoding(Elem), Elem.size)

\* A text a row.
WalkText ==
    /\ Walking({"array"})
    /\ TextArray
    /\ Replace(Rows(Inner, Now.column, Now.at, Now.into))
    /\ UNCHANGED <<job, status, made, lists, used, dropped, headerSize, packet, row>>

AddText ==
    /\ status = "walking"
    /\ todo # <<>>
    /\ Now.what = "text"
    /\ AddField(<<Now.column>>, Now.at, Now.width)

\* An array of scalars is one field of many columns.
WalkVector ==
    /\ Walking({"array"})
    /\ ~TextArray
    /\ Unpacked
    /\ AddField(Paths(Now.column, Inner.dims), Now.at, Elem.size)

WalkElements ==
    /\ Walking({"array"})
    /\ ~TextArray
    /\ ~Unpacked
    /\ Replace(Pieces(Elements(Inner, Elem.size), Now.column, Now.at, Now.depth + 1, Now.into))
    /\ UNCHANGED <<job, status, made, lists, used, dropped, headerSize, packet, row>>

Finish == /\ status = "walking"
          /\ todo = <<>>
          /\ status' = "ready"
          /\ UNCHANGED <<job, todo, made, lists, used, dropped, headerSize, packet, row>>

Walk == \/ WalkBits \/ Drop \/ WalkScalar \/ WalkMembers \/ WalkTagged \/ MakeSwitch
        \/ WalkText \/ AddText \/ WalkVector \/ WalkElements

-----------------------------------------------------------------------------

\* The message's own fields; the others are in the alternatives.
Fields == AsMade(made, {r \in DOMAIN made : made[r].into = 1})

Columns == NamesOf(made, Fields)

Base == IF headerSize > 0 THEN 0 ELSE PayloadOffset

Switches == {r \in DOMAIN made : made[r].kind = "switch"}

Packets == [base : {Base}, limit : Limits, reads : [{Base + made[s].at : s \in Switches} -> Identifiers]]

RowOf(p) == LET cells == Cells(made, p)
                some  == Fields
            IN  FlattenSeq([k \in DOMAIN some |-> cells[some[k]]])

\* Decoder.decode and _read_fields
Decode == /\ status = "ready"
          /\ \E p \in Packets : packet' = p /\ row' = RowOf(p)
          /\ UNCHANGED <<job, status, todo, made, lists, used, dropped, headerSize>>

Next == Refuse \/ Begin \/ Walk \/ Finish \/ Decode

Spec == Init /\ [][Next]_vars

-----------------------------------------------------------------------------
(* What a message stores, read off the types alone.  A place is a member or *)
(* an element; copies holds the bytes of the identifiers of the tagged      *)
(* unions it is an alternative of, or in one of them.                       *)

MemberPlace(x, m, copies) ==
    [type |-> m.type, path |-> x.path \o m.name, at |-> x.at + m.offset, bits |-> m.bits,
     bit |-> x.at * 8 + FirstBit(m), copies |-> copies]

\* A union's members that were asked for; the rest get no columns by declaration.
AskedFor(node, use) ==
    LET views == {m \in Range(node.members) : IsByteView(Types, m.type)}
    IN  {m \in Range(node.members) :
            CASE use.how = "keep" -> m.name \in use.names
              [] use.how = "drop" -> m.name \notin use.names
              [] use.how = "tag" -> m.name \in use.names \cup {use.tag[1]} \cup {c.member : c \in Range(use.cases)}
              [] OTHER -> use.how = "undeclared" /\ job.unionBytes = "drop" /\ views # Range(node.members)
                             => m \notin views}

\* The bytes of the identifier, for what is an alternative.
Copied(x, node, use, m) ==
    LET head == Member(node, use.tag[1])
    IN  IF use.how = "tag" /\ m.name \in {c.member : c \in Range(use.cases)}
        THEN {[from |-> x.at + head.offset, to |-> x.at + head.offset + SizeOr0(Types, head.type)]} ELSE {}

IsText(node) == LET elem == Resolve(Types, node.elem)
                IN  Encoding(elem) = "char" /\ elem.size = 1 /\ job.chars = "text"

Empty(node) == SizeOr0(Types, node.elem) = 0 \/ Product(node.dims) = 0

\* The places a place is made of.
Within(x) ==
    LET node == Resolve(Types, x.type)
        use  == UseOf(job.unions, ChainEnd(Types, x.type))
        size == SizeOr0(Types, node.elem)
    IN  CASE x.bits # NoSize -> {}
          [] x.bits = NoSize /\ node.kind = "struct" -> {MemberPlace(x, m, x.copies) : m \in Range(node.members)}
          [] x.bits = NoSize /\ node.kind = "union" ->
                {MemberPlace(x, m, x.copies \cup Copied(x, node, use, m)) : m \in AskedFor(node, use)}
          [] x.bits = NoSize /\ node.kind = "array" /\ ~Empty(node) /\ ~IsText(node) ->
                {[x EXCEPT !.type = node.elem, !.path = @ \o Index(node.dims, p - 1), !.at = @ + (p - 1) * size,
                           !.bit = (x.at + (p - 1) * size) * 8] : p \in 1 .. Product(node.dims)}
          [] OTHER -> {}

\* What it stores itself, as the path to it and its bytes; what has no bytes
\* of its own is there with a width of 0.
Stores(x) ==
    LET node  == Resolve(Types, x.type)
        whole == {[path |-> x.path, at |-> x.at, width |-> IF IsScalar(node) THEN node.size ELSE 0]}
        rows  == Front(node.dims)
        long  == Last(node.dims)
    IN  CASE x.bits # NoSize ->
                {[path |-> x.path, at |-> x.bit \div 8, width |-> (x.bit + x.bits - 1) \div 8 - x.bit \div 8 + 1]}
          [] x.bits = NoSize /\ IsComposite(node) -> {}
          [] x.bits = NoSize /\ node.kind = "array" /\ ~Empty(node) ->
                IF IsText(node)
                THEN {[path |-> x.path \o Index(rows, p - 1), at |-> x.at + (p - 1) * long, width |-> long] :
                         p \in 1 .. Product(rows)}
                ELSE {}
          [] OTHER -> whole

\* The whole message, but for the header it starts with, level by level.
Level ==
    LET whole == [type |-> job.key, path |-> <<>>, at |-> 0, bits |-> NoSize, bit |-> 0, copies |-> {}]
        level[n \in 1 .. Levels] ==
            IF n > 1 THEN UNION {Within(x) : x \in level[n - 1]}
            ELSE IF IsHeader(Types, job.key, job.declared) THEN {}
            ELSE {MemberPlace(whole, m, {}) :
                     m \in {m \in Range(Message.members) : m.offset > 0 \/ ~IsHeader(Types, m.type, job.declared)}}
    IN  level

Places == UNION {Level[n] : n \in 1 .. Levels}

-----------------------------------------------------------------------------

Cell == [at : {NoSize} \cup Nat, width : Nat]

\* Every variable holds what the code keeps there.
TypeOK == /\ job \in Jobs
          /\ status \in {"start", "walking", "ready", "refused"}
          /\ lists \in Nat
          /\ headerSize \in Nat
          /\ \A c \in Range(row) : c \in Cell
          /\ \A d \in dropped : d.reason \in {"depth", "no type", "no size", "flexible",
                                              "no element type", "identifier"}
          /\ \A f \in Range(made) : /\ f.kind \in {"plain", "switch"}
                                    /\ f.at \in Nat /\ f.width \in Nat /\ f.each \in Nat
                                    /\ f.into \in 1 .. lists

\* Two columns of one message never have the same name, whatever anonymous
\* members, views and alternatives repeat (_unique).
ColumnsDistinct == \A i, j \in DOMAIN Columns : Columns[i] = Columns[j] => i = j

\* The bytes the fields of a name show.
Shows(name) ==
    UNION {{[path |-> name.path, at |-> made[r].at + (k - 1) * made[r].each, width |-> made[r].each] :
               k \in {k \in DOMAIN made[r].names : made[r].names[k] = name}} : r \in DOMAIN made \ Switches}

\* Nothing a message stores goes missing quietly: it has a column of its path
\* and bytes, or was reported as left out (drop and report), or is a copy of
\* an identifier that has one.
EveryLeafAccounted ==
    status = "ready" => \A x \in Places : \A leaf \in Stores(x) :
                 \/ \E c \in Range(Columns) : leaf \in Shows(c)
                 \/ \E d \in dropped : IsPrefix(d.under, leaf.path)
                 \/ \E id \in x.copies : id.from <= leaf.at /\ leaf.at + leaf.width <= id.to

\* A column shows the bytes its path names, through nesting, arrays of any
\* dimensions, bit fields and the alternatives of a union.
ColumnsShowTheirLeaves ==
    status = "ready" => \A c \in Range(Columns) : Shows(c) # {} /\ Shows(c) \subseteq UNION {Stores(x) : x \in Places}

\* The identifier values that each tagged union around a column has it for.
Chosen(c) ==
    \A s \in Switches : \A k \in DOMAIN made[s].fields :
        c \in Range(made[made[s].fields[k]].names) => packet.reads[packet.base + made[s].at] \in made[s].values[k]

\* A row has a cell for each column however short the packet is, and a cell
\* with a value shows that column's bytes, inside the packet, of the
\* alternative the identifier names.
CellsAreTheirColumns ==
    packet # NoPacket =>
        /\ Len(row) = Len(Columns)
        /\ \A i \in DOMAIN row : row[i] # Null =>
              /\ \E leaf \in Shows(Columns[i]) : row[i] = [at |-> packet.base + leaf.at, width |-> leaf.width]
              /\ row[i].at + row[i].width <= packet.limit
              /\ Chosen(Columns[i])

\* A packet as long as its struct leaves no cell empty but those of the
\* alternatives its identifier does not name.
WholePacketFillsRow ==
    packet # NoPacket /\ packet.limit >= packet.base + Message.size =>
        \A i \in DOMAIN row : Chosen(Columns[i]) => row[i] # Null
=============================================================================
