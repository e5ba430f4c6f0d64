-------------------------------- MODULE Unions --------------------------------
(***************************************************************************)
(* How a union is used: all of it, the members under 'keep' or not under   *)
(* 'drop', or by the identifier that 'tag' leads to (decode.py, UnionUse   *)
(* and plan_union; dictionary.py, _read_unions).                           *)
(***************************************************************************)
EXTENDS TypeRegistry, SequencesExt

Undeclared == [how |-> "undeclared", names |-> {}, tag |-> <<>>, cases |-> <<>>]

UseOf(unions, key) == IF key \in DOMAIN unions THEN unions[key] ELSE Undeclared

NamedMembers(node) == {m.name : m \in Range(node.members)} \ {<<>>}

Member(node, name) == CHOOSE m \in Range(node.members) : m.name = name

IsByteView(types, key) ==
    LET node == Resolve(types, key)
        elem == Resolve(types, node.elem)
    IN  node.kind = "array" /\ elem.kind = "base" /\ elem.size = 1 /\ elem.encoding \in {"int", "uint"}

UnionMembers(types, node, use, unionBytes) ==
    LET all  == Range(node.members)
        seen == {m \in all : ~IsByteView(types, m.type)}
        kept == CASE use.how = "keep" -> {m \in all : m.name \in use.names}
                  [] use.how = "drop" -> {m \in all : m.name \notin use.names}
                  \* A union that is nothing but byte views is left as it is.
                  [] use.how = "undeclared" /\ unionBytes = "drop" /\ seen # {} -> seen
                  [] OTHER -> all
    IN  Keeping(node.members, kept)

\* The member a tag path ends at, down nested structs, adding up offsets.
Follow(types, start, path) ==
    LET follow[n \in 0 .. Len(path)] ==
            IF n = 0 THEN [ok |-> TRUE, member |-> start, at |-> start.offset]
            ELSE LET acc   == follow[n - 1]
                     inner == Resolve(types, acc.member.type)
                 IN  IF acc.ok /\ IsComposite(inner) /\ path[n] \in NamedMembers(inner)
                     THEN [ok |-> TRUE, member |-> Member(inner, path[n]),
                           at |-> acc.at + Member(inner, path[n]).offset]
                     ELSE [acc EXCEPT !.ok = FALSE]
    IN  follow[Len(path)]

TagEnd(types, node, use) == Follow(types, Member(node, use.tag[1]), Tail(use.tag))

\* The number a case key stands for, if it stands for one.
TagValue(types, tagType, case) ==
    LET target == Resolve(types, tagType)
    IN  CASE case.label = "" -> {case.num}
          [] case.label # "" /\ target.kind = "enum" -> {v \in DOMAIN target.values : target.values[v] = case.label}
          [] OTHER -> {}

\* check_union_use, and the checks plan_union makes: what a mapping is refused for.
UseFits(types, node, use) ==
    LET end     == TagEnd(types, node, use)
        target  == Resolve(types, end.member.type)
        value(i) == TagValue(types, end.member.type, use.cases[i])
    IN  /\ use.names \subseteq NamedMembers(node)
        /\ use.how = "tag" =>
              /\ use.tag[1] \in NamedMembers(node)
              /\ use.cases # <<>>
              /\ end.ok
              /\ target.kind \in {"base", "enum"} /\ target.encoding # "float"
              /\ \A i \in DOMAIN use.cases :
                    /\ use.cases[i].member \in NamedMembers(node) \ ({use.tag[1]} \cup use.names)
                    /\ value(i) # {}
                    /\ \A j \in 1 .. i - 1 : value(i) # value(j)

\* A tagged union worked out: the identifier and the bytes of the member it is
\* in, the members always there, and each alternative with its values, in the
\* order the cases first name them.
PlanUnion(types, node, use) ==
    LET end   == TagEnd(types, node, use)
        tag   == end.member
        head  == Member(node, use.tag[1])
        cases == use.cases
        first == Keeping([i \in DOMAIN cases |-> i],
                         {i \in DOMAIN cases : \A j \in 1 .. i - 1 : cases[j].member # cases[i].member})
        values(name) == UNION {TagValue(types, tag.type, c) : c \in {c \in Range(cases) : c.member = name}}
    IN  [tag |-> [tag EXCEPT !.offset = end.at,
                             !.bit = IF @ = NoSize THEN NoSize ELSE @ + (end.at - tag.offset) * 8],
         from |-> head.offset,
         to |-> head.offset + SizeOr0(types, head.type),
         always |-> Keeping(node.members, {m \in Range(node.members) : m.name \in use.names \cup {use.tag[1]}}),
         alternatives |-> [i \in DOMAIN first |-> [member |-> Member(node, cases[first[i]].member),
                                                  values |-> values(cases[first[i]].member)]]]
=============================================================================
