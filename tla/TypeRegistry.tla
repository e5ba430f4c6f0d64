---------------------------- MODULE TypeRegistry ----------------------------
(***************************************************************************)
(* The type registry (typemodel.py): nodes by key, every reference from    *)
(* one node to another a key.  A key is a sequence: the parts of a         *)
(* qualified name, or a tag and what the synthetic name is made from.      *)
(***************************************************************************)
EXTENDS Integers, Sequences, FiniteSets

\* The elements of s that are in T, in order.
Keeping(s, T) ==
    LET kept[n \in 0 .. Len(s)] ==
            IF n = 0 THEN <<>> ELSE IF s[n] \in T THEN Append(kept[n - 1], s[n]) ELSE kept[n - 1]
    IN  kept[Len(s)]

VOID_KEY == <<"void">>

VoidType == [kind |-> "base", size |-> 0, encoding |-> "void"]

\* What get() and resolve() return for a key that names nothing.
Absent == [kind |-> "absent"]

NoSize == -1

\* The header types whose sizes are kept apart from the registry.
GEOMETRY_TYPES == {<<"CFE_MSG_Message_t">>, <<"CFE_MSG_TelemetryHeader_t">>,
                   <<"CFE_MSG_CommandHeader_t">>, <<"CFE_MSG_TelemetrySecondaryHeader_t">>,
                   <<"CFE_MSG_CommandSecondaryHeader_t">>, <<"DS_FileHeader_t">>,
                   <<"CFE_FS_Header_t">>}

\* "%s[%s]": an array of arrays reads like one of more dimensions.
ArrayKey(elem, dims) ==
    IF Head(elem) = "[]" THEN <<"[]", elem[2], elem[3] \o dims>> ELSE <<"[]", elem, dims>>

\* A pointer is known by what it points at, or by its size when that has no name.
PointerKey(size, target) == IF target = <<>> THEN <<"*", <<>>, size>> ELSE <<"*", target, 0>>

IsSynthetic(key) == Head(key) \in {"[]", "*", "@anon", "@enum"}

Node(types, key) == IF key \in DOMAIN types THEN types[key] ELSE Absent

Typedefs(types) == {k \in DOMAIN types : types[k].kind = "typedef"}

Hop(types, key) == IF Node(types, key).kind = "typedef" THEN types[key].target ELSE key

\* Where n typedefs lead from key.
Link(types, key) ==
    LET link[n \in Nat] == IF n = 0 THEN key ELSE Hop(types, link[n - 1])
    IN  link

\* Each hop of a chain is another key, so that a chain still on a typedef
\* after as many hops as there are typedefs is a cycle.
ChainEnd(types, key) == Link(types, key)[Cardinality(Typedefs(types))]

Resolve(types, key) ==
    LET node == Node(types, ChainEnd(types, key))
    IN  IF node.kind = "typedef" THEN Absent ELSE node

TypedefChain(types, key) == {Link(types, key)[n] : n \in 0 .. Cardinality(Typedefs(types))}

SizeOf(types, key) == LET node == Resolve(types, key)
                      IN  IF node = Absent THEN NoSize ELSE node.size

SizeOr0(types, key) == IF SizeOf(types, key) = NoSize THEN 0 ELSE SizeOf(types, key)

IsComposite(node) == node.kind \in {"struct", "union"}
=============================================================================
