------------------------ MODULE MessageDecoderProofs ------------------------
(***************************************************************************)
(* Proofs about compiling a message type and reading packets with it, for  *)
(* every type file, message type, mapping of unions and packet.            *)
(***************************************************************************)
EXTENDS MessageDecoder, RegistryProofs

-----------------------------------------------------------------------------
(* What the walk's operators return.                                        *)

KINDS == {"base", "enum", "pointer", "array", "struct", "union"}

\* A key leads to nothing, or to a node of the registry that is no typedef.
LEMMA ResolveFacts ==
    ASSUME NEW key
    PROVE  LET node == Resolve(Types, key)
           IN  \/ node.kind = "absent" /\ node = Absent
               \/ /\ node.kind \in KINDS /\ WellFormed(node) /\ node.size \in Nat /\ node # Absent
                  /\ ChainEnd(Types, key) \in DOMAIN Types /\ node = Types[ChainEnd(Types, key)]
<1> DEFINE end == ChainEnd(Types, key)
           node == Resolve(Types, key)
<1>1. CASE end \notin DOMAIN Types
  BY <1>1 DEF Resolve, Node, Absent
<1>2. CASE end \in DOMAIN Types /\ Types[end].kind = "typedef"
  BY <1>2 DEF Resolve, Node, Absent
<1>3. CASE end \in DOMAIN Types /\ Types[end].kind # "typedef"
  <2>1. node = Types[end]
    BY <1>3 DEF Resolve, Node
  <2>2. WellFormed(Types[end])
    BY <1>3, TypesAssumption
  <2>3. Types[end].kind \in KINDS /\ Types[end].size \in Nat
    BY <1>3, <2>2 DEF WellFormed, KINDS
  <2>4. Types[end] # Absent
    BY <2>3 DEF Absent, KINDS
  <2>5. QED BY <1>3, <2>1, <2>2, <2>3, <2>4
<1>4. QED BY <1>1, <1>2, <1>3

LEMMA SizeOr0Type ==
    ASSUME NEW key
    PROVE  SizeOr0(Types, key) \in Nat
<1>1. CASE Resolve(Types, key) = Absent
  BY <1>1 DEF SizeOr0, SizeOf, NoSize
<1>2. CASE Resolve(Types, key).size \in Nat /\ Resolve(Types, key) # Absent
  BY <1>2 DEF SizeOr0, SizeOf, NoSize
<1>3. QED BY <1>1, <1>2, ResolveFacts

LEMMA SizeOr0Size ==
    ASSUME NEW key, Resolve(Types, key).kind # "absent"
    PROVE  SizeOr0(Types, key) = Resolve(Types, key).size
<1>1. Resolve(Types, key).size \in Nat /\ Resolve(Types, key) # Absent
  BY ResolveFacts DEF Absent
<1>2. QED BY <1>1 DEF SizeOr0, SizeOf, NoSize

\* How many elements an array has is had one extent after another.
LEMMA ProductSteps ==
    ASSUME NEW dims \in Seq(Nat)
    PROVE  \E product : /\ Product(dims) = product[Len(dims)]
                        /\ \A i \in 0 .. Len(dims) :
                              /\ product[i] \in Nat
                              /\ product[i] = IF i = 0 THEN 1 ELSE product[i - 1] * dims[i]
<1> DEFINE N == Len(dims)
           step == [i \in 1 .. N |-> [r \in Nat |-> r * dims[i]]]
           product == CHOOSE f : f = [n \in 0 .. N |-> IF n = 0 THEN 1 ELSE f[n - 1] * dims[n]]
<1>1. Product(dims) = product[N]
  BY DEF Product
<1>2. N \in Nat /\ \A i \in 1 .. N : dims[i] \in Nat
  OBVIOUS
<1> HIDE DEF N
<1>3. \A i \in 1 .. N : \A r \in Nat : r * dims[i] \in Nat
  BY <1>2
<1>4. step \in [1 .. N -> [Nat -> Nat]] /\ \A i \in 1 .. N : \A r \in Nat : step[i][r] = r * dims[i]
  BY <1>3
<1> HIDE DEF step
<1>5. PICK g \in [0 .. N -> Nat] : \A i \in 0 .. N : g[i] = IF i = 0 THEN 1 ELSE step[i][g[i - 1]]
  <2>1. step \in Steps(Nat, N)
    BY <1>4 DEF Steps
  <2> DEFINE V == Nat
             one == 1
  <2>2. one \in V /\ step \in Steps(V, N)
    BY <2>1
  <2> HIDE DEF V, one
  <2>3. \E g \in [0 .. N -> V] : \A i \in 0 .. N : g[i] = IF i = 0 THEN one ELSE step[i][g[i - 1]]
    BY <1>2, <2>2, RecursionExists
  <2>4. QED BY <2>3 DEF V, one
<1>6. \A i \in 0 .. N : i # 0 => i \in 1 .. N /\ i - 1 \in 0 .. N
  BY <1>2
<1>7. \A i \in 0 .. N : g[i] = IF i = 0 THEN 1 ELSE g[i - 1] * dims[i]
  BY <1>4, <1>5, <1>6
<1>8. g = [n \in 0 .. N |-> IF n = 0 THEN 1 ELSE g[n - 1] * dims[n]]
  BY <1>5, <1>7
<1>9. product = [n \in 0 .. N |-> IF n = 0 THEN 1 ELSE product[n - 1] * dims[n]]
  BY <1>8
<1> HIDE DEF product
<1>10. \A i \in 0 .. N : product[i] = IF i = 0 THEN 1 ELSE product[i - 1] * dims[i]
  BY <1>9
<1> DEFINE H == {i \in 0 .. N : product[i] \in Nat}
<1>11. \A i \in 0 .. N : i \in H
  <2>1. 0 \in H
    BY <1>2, <1>10
  <2>2. ASSUME NEW i \in 1 .. N, i - 1 \in H PROVE i \in H
    <3>1. i \in 0 .. N /\ i # 0 /\ product[i - 1] \in Nat /\ dims[i] \in Nat
      BY <1>2, <2>2
    <3>2. product[i] = product[i - 1] * dims[i]
      BY <1>10, <3>1
    <3>3. product[i - 1] * dims[i] \in Nat
      BY <3>1
    <3>4. QED BY <3>1, <3>2, <3>3
  <2> HIDE DEF H
  <2>3. QED BY <1>2, <2>1, <2>2, UpTo
<1>12. QED BY <1>1, <1>10, <1>11 DEF N

LEMMA ProductType ==
    ASSUME NEW dims \in Seq(Nat)
    PROVE  Product(dims) \in Nat
<1>1. Len(dims) \in 0 .. Len(dims)
  OBVIOUS
<1>2. QED BY <1>1, ProductSteps

\* The rows of an array, and how many elements each has.
LEMMA ProductFront ==
    ASSUME NEW dims \in Seq(Nat), dims # <<>>
    PROVE  /\ Front(dims) \in Seq(Nat) /\ Last(dims) \in Nat
           /\ Product(dims) = Product(Front(dims)) * Last(dims)
<1> DEFINE N == Len(dims)
           front == Front(dims)
<1>1. N \in Nat /\ N # 0 /\ N \in 1 .. N /\ N - 1 \in 0 .. N
  OBVIOUS
<1>2. /\ front \in Seq(Nat) /\ Len(front) = N - 1 /\ \A i \in 1 .. N - 1 : front[i] = dims[i]
      /\ Last(dims) = dims[N] /\ dims[N] \in Nat
  <2>1. front = [i \in 1 .. N - 1 |-> dims[i]]
    BY <1>1 DEF Front
  <2>2. \A i \in 1 .. N : dims[i] \in Nat
    OBVIOUS
  <2>3. \A i \in 1 .. N - 1 : i \in 1 .. N
    BY <1>1
  <2>4. front \in [1 .. N - 1 -> Nat]
    BY <2>1, <2>2, <2>3
  <2> HIDE DEF front, N
  <2>5. front \in Seq(Nat) /\ Len(front) = N - 1
    BY <1>1, <2>4
  <2>6. QED BY <1>1, <2>1, <2>2, <2>5 DEF Last, N
<1>3. PICK p : /\ Product(dims) = p[N]
               /\ \A i \in 0 .. N : p[i] \in Nat /\ p[i] = IF i = 0 THEN 1 ELSE p[i - 1] * dims[i]
  BY ProductSteps
<1> HIDE DEF front
<1>4. PICK q : /\ Product(front) = q[N - 1]
               /\ \A i \in 0 .. N - 1 : q[i] \in Nat /\ q[i] = IF i = 0 THEN 1 ELSE q[i - 1] * front[i]
  <2>1. \E q : /\ Product(front) = q[Len(front)]
               /\ \A i \in 0 .. Len(front) : q[i] \in Nat /\ q[i] = IF i = 0 THEN 1 ELSE q[i - 1] * front[i]
    BY <1>2, ProductSteps
  <2>2. QED BY <1>2, <2>1
<1> DEFINE H == {i \in 0 .. N - 1 : p[i] = q[i]}
<1> HIDE DEF N
<1>5. 0 \in H
  BY <1>1, <1>3, <1>4
<1>6. ASSUME NEW i \in 1 .. N - 1, i - 1 \in H PROVE i \in H
  <2>1. i \in 0 .. N /\ i \in 0 .. N - 1 /\ i # 0
    BY <1>1
  <2>2. p[i] = p[i - 1] * dims[i] /\ q[i] = q[i - 1] * front[i] /\ front[i] = dims[i]
    BY <1>2, <1>3, <1>4, <2>1
  <2>3. p[i - 1] = q[i - 1]
    BY <1>6
  <2>4. QED BY <2>1, <2>2, <2>3
<1>7. \A i \in 0 .. N - 1 : i \in H
  <2>1. N - 1 \in Nat
    BY <1>1
  <2> HIDE DEF H
  <2>2. QED BY <1>5, <1>6, <2>1, UpTo
<1>8. p[N - 1] = q[N - 1]
  <2>1. N - 1 \in 0 .. N - 1
    BY <1>1
  <2>2. QED BY <1>7, <2>1
<1>9. p[N] = p[N - 1] * dims[N]
  <2>1. N \in 0 .. N
    BY <1>1
  <2>2. QED BY <1>1, <1>3, <2>1
<1>10. QED BY <1>2, <1>3, <1>4, <1>8, <1>9 DEF front

\* The members of the registry's structs and unions.
Members == UNION {Range(Types[k].members) : k \in {k \in DOMAIN Types : IsComposite(Types[k])}}

LEMMA MembersAre ==
    ASSUME NEW m \in Members
    PROVE  /\ m.offset \in Nat /\ m.bits \in {NoSize} \cup (Nat \ {0}) /\ m.bit \in {NoSize} \cup Nat
           /\ IsMember(m) /\ FirstBit(m) \in Nat
<1>1. IsMember(m)
  BY TypesAssumption DEF Members, WellFormed
<1>2. m.offset \in Nat /\ m.bits \in {NoSize} \cup (Nat \ {0}) /\ m.bit \in {NoSize} \cup Nat
  BY <1>1 DEF IsMember
<1>3. FirstBit(m) \in Nat
  BY <1>2 DEF FirstBit
<1>4. QED BY <1>1, <1>2, <1>3

\* A struct or a union that a key leads to.
LEMMA CompositeFacts ==
    ASSUME NEW key, IsComposite(Resolve(Types, key))
    PROVE  LET node == Resolve(Types, key)
           IN  /\ node.size \in Nat /\ IsSeq(node.members) /\ Range(node.members) \subseteq Members
               /\ \A m \in Range(node.members) : FitsIn(m, 0, node.size)
               /\ ChainEnd(Types, key) \in DOMAIN Types /\ node = Types[ChainEnd(Types, key)]
               /\ SizeOr0(Types, key) = node.size /\ WellFormed(node)
<1> DEFINE node == Resolve(Types, key)
           k == ChainEnd(Types, key)
<1>1. node.kind # "absent"
  BY DEF IsComposite
<1>2. /\ WellFormed(node) /\ node.size \in Nat /\ k \in DOMAIN Types /\ node = Types[k]
  BY <1>1, ResolveFacts
<1>3. IsSeq(node.members)
  BY <1>2 DEF WellFormed, IsSeq
<1>4. Range(node.members) \subseteq Members
  BY <1>2 DEF Members
<1>5. \A m \in Range(node.members) : FitsIn(m, 0, node.size)
  <2>1. IsComposite(Types[k])
    BY <1>2
  <2>2. QED BY <1>2, <2>1, LayoutAssumption
<1>6. SizeOr0(Types, key) = node.size
  BY <1>1, SizeOr0Size
<1>7. QED BY <1>2, <1>3, <1>4, <1>5, <1>6

LEMMA MemberIn ==
    ASSUME NEW node, NEW name \in NamedMembers(node)
    PROVE  Member(node, name) \in Range(node.members) /\ Member(node, name).name = name
BY DEF Member, NamedMembers

\* What a tag path has come to, of a member in the first size bytes.
Followed(size) == {a \in [ok : BOOLEAN, member : Members, at : Nat] :
                      a.member.offset <= a.at /\ FitsIn(a.member, a.at - a.member.offset, size)}

LEMMA FollowStep ==
    ASSUME NEW size \in Nat, NEW acc \in Followed(size), NEW part,
           IsComposite(Resolve(Types, acc.member.type)), part \in NamedMembers(Resolve(Types, acc.member.type))
    PROVE  LET m == Member(Resolve(Types, acc.member.type), part)
           IN  [ok |-> TRUE, member |-> m, at |-> acc.at + m.offset] \in Followed(size)
<1> DEFINE inner == Resolve(Types, acc.member.type)
           m == Member(inner, part)
           a == [ok |-> TRUE, member |-> m, at |-> acc.at + m.offset]
<1>1. /\ acc.member \in Members /\ acc.at \in Nat /\ acc.member.offset <= acc.at
      /\ FitsIn(acc.member, acc.at - acc.member.offset, size)
  BY DEF Followed
<1>2. m \in Range(inner.members)
  BY MemberIn
<1>3. m \in Members /\ FitsIn(m, 0, inner.size) /\ inner.size \in Nat /\ SizeOr0(Types, acc.member.type) = inner.size
  BY <1>2, CompositeFacts
<1>4. m.offset \in Nat /\ m.bits \in {NoSize} \cup (Nat \ {0}) /\ FirstBit(m) \in Nat
  BY <1>3, MembersAre
<1>5. acc.member.offset \in Nat
  BY <1>1, MembersAre
<1>6. acc.at + inner.size <= size
  <2>1. acc.member.bits = NoSize
    BY <1>1 DEF FitsIn
  <2>2. acc.at - acc.member.offset + acc.member.offset + SizeOr0(Types, acc.member.type) <= size
    BY <1>1, <2>1 DEF FitsIn
  <2>3. QED BY <1>1, <1>3, <1>5, <2>2
<1>7. SizeOr0(Types, m.type) \in Nat
  BY SizeOr0Type
<1>8. a.ok \in BOOLEAN /\ a.member = m /\ a.at = acc.at + m.offset /\ a \in [ok : BOOLEAN, member : Members, at : Nat]
  BY <1>1, <1>3, <1>4
<1>9. acc.at + m.offset - m.offset = acc.at /\ m.offset <= acc.at + m.offset
  BY <1>1, <1>4
<1>10. FitsIn(m, acc.at, size)
  <2>1. CASE m.bits = NoSize
    <3>1. 0 + m.offset + SizeOr0(Types, m.type) <= inner.size
      BY <1>3, <2>1 DEF FitsIn
    <3>2. acc.at + m.offset + SizeOr0(Types, m.type) <= size
      BY <1>1, <1>3, <1>4, <1>6, <1>7, <3>1
    <3>3. QED BY <2>1, <3>2 DEF FitsIn
  <2>2. CASE m.bits # NoSize
    <3>1. 0 * 8 + FirstBit(m) + m.bits <= inner.size * 8 /\ ~IsComposite(Resolve(Types, m.type))
      BY <1>3, <2>2 DEF FitsIn
    <3>2. acc.at * 8 + FirstBit(m) + m.bits <= size * 8
      <4>1. m.bits \in Nat
        BY <1>4, <2>2
      <4>2. QED BY <1>1, <1>3, <1>4, <1>6, <3>1, <4>1
    <3>3. QED BY <2>2, <3>1, <3>2 DEF FitsIn
  <2>3. QED BY <2>1, <2>2
<1> HIDE DEF a, m
<1>11. a.at - a.member.offset = acc.at /\ a.member.offset <= a.at
  <2>1. a.at = acc.at + m.offset /\ a.member.offset = m.offset
    BY <1>8
  <2>2. QED BY <1>1, <1>4, <2>1
<1>12. a \in Followed(size)
  BY <1>8, <1>10, <1>11 DEF Followed
<1>13. QED BY <1>12 DEF a, m

LEMMA FollowType ==
    ASSUME NEW size \in Nat, NEW start \in Members, FitsIn(start, 0, size), NEW path, IsSeq(path)
    PROVE  Follow(Types, start, path) \in Followed(size)
<1> DEFINE N == Len(path)
           S == Followed(size)
           first == [ok |-> TRUE, member |-> start, at |-> start.offset]
           body(i, acc) ==
               LET inner == Resolve(Types, acc.member.type)
               IN  IF acc.ok /\ IsComposite(inner) /\ path[i] \in NamedMembers(inner)
                   THEN [ok |-> TRUE, member |-> Member(inner, path[i]),
                         at |-> acc.at + Member(inner, path[i]).offset]
                   ELSE [acc EXCEPT !.ok = FALSE]
           follow == CHOOSE f : f = [n \in 0 .. N |-> IF n = 0 THEN first ELSE body(n, f[n - 1])]
           step == [i \in 1 .. N |-> [a \in S |-> body(i, a)]]
<1>1. Follow(Types, start, path) = follow[N]
  BY DEF Follow
<1>2. N \in Nat
  BY IsSeqFacts
<1>3. first \in S
  <2>1. start.offset \in Nat /\ start.offset - start.offset = 0
    BY MembersAre
  <2>2. first.at - first.member.offset = 0 /\ first.member.offset <= first.at
    BY <2>1
  <2>3. first \in [ok : BOOLEAN, member : Members, at : Nat] /\ first.member = start
    BY <2>1
  <2> HIDE DEF first
  <2>4. QED BY <2>2, <2>3 DEF Followed
<1>4. ASSUME NEW i \in 1 .. N, NEW a \in S
      PROVE  body(i, a) \in S
  <2>1. CASE a.ok /\ IsComposite(Resolve(Types, a.member.type)) /\ path[i] \in NamedMembers(Resolve(Types, a.member.type))
    BY <2>1, FollowStep
  <2>2. CASE ~(a.ok /\ IsComposite(Resolve(Types, a.member.type)) /\ path[i] \in NamedMembers(Resolve(Types, a.member.type)))
    <3> DEFINE b == [a EXCEPT !.ok = FALSE]
    <3>1. body(i, a) = b
      BY <2>2
    <3>2. a \in [ok : BOOLEAN, member : Members, at : Nat]
      BY DEF Followed
    <3>3. b \in [ok : BOOLEAN, member : Members, at : Nat] /\ b.member = a.member /\ b.at = a.at
      BY <3>2
    <3> HIDE DEF b, body
    <3>4. b \in S
      BY <3>3 DEF Followed
    <3>5. QED BY <3>1, <3>4
  <2>3. QED BY <2>1, <2>2
<1> HIDE DEF body, S, first, N
<1>5. step \in [1 .. N -> [S -> S]] /\ \A i \in 1 .. N : \A a \in S : step[i][a] = body(i, a)
  BY <1>4
<1> HIDE DEF step
<1>6. PICK g \in [0 .. N -> S] : \A i \in 0 .. N : g[i] = IF i = 0 THEN first ELSE step[i][g[i - 1]]
  <2>1. step \in Steps(S, N)
    BY <1>5 DEF Steps
  <2>2. QED BY <1>2, <1>3, <2>1, RecursionExists
<1>7. \A i \in 0 .. N : i # 0 => i \in 1 .. N /\ i - 1 \in 0 .. N
  BY <1>2
<1>8. \A i \in 0 .. N : g[i] = IF i = 0 THEN first ELSE body(i, g[i - 1])
  BY <1>5, <1>6, <1>7
<1>9. g = [n \in 0 .. N |-> IF n = 0 THEN first ELSE body(n, g[n - 1])]
  BY <1>6, <1>8
<1>10. follow = [n \in 0 .. N |-> IF n = 0 THEN first ELSE body(n, follow[n - 1])]
  BY <1>9
<1> HIDE DEF follow
<1>11. \A i \in 0 .. N : follow[i] = IF i = 0 THEN first ELSE body(i, follow[i - 1])
  BY <1>10
<1> DEFINE H == {i \in 0 .. N : follow[i] \in S}
<1>12. \A i \in 0 .. N : i \in H
  <2>1. 0 \in H
    BY <1>2, <1>3, <1>11
  <2>2. \A i \in 1 .. N : i - 1 \in H => i \in H
    BY <1>2, <1>4, <1>7, <1>11
  <2> HIDE DEF H
  <2>3. QED BY <1>2, <2>1, <2>2, UpTo
<1>13. N \in 0 .. N
  BY <1>2
<1>14. QED BY <1>1, <1>12, <1>13 DEF S

\* Bits lie in as many bytes as are counted for them.
LEMMA BitsLie ==
    ASSUME NEW bit \in Nat, NEW bits \in Nat, NEW size \in Nat, bit + bits <= size * 8
    PROVE  /\ bit \div 8 \in Nat /\ BitsWidth(bit, bits) \in Nat
           /\ bit \div 8 + BitsWidth(bit, bits) <= size
<1>1. /\ bit \div 8 \in Nat /\ bit % 8 \in 0 .. 7 /\ bit = (bit \div 8) * 8 + (bit % 8)
  OBVIOUS
<1> DEFINE q == bit \div 8
           r == bit % 8
           w == (r + bits + 7) \div 8
<1> HIDE DEF q, r
<1>2. q \in Nat /\ r \in 0 .. 7 /\ bit = q * 8 + r
  BY <1>1 DEF q, r
<1>3. w \in Nat /\ w * 8 <= r + bits + 7
  BY <1>2
<1> HIDE DEF w
<1>4. (q + w) * 8 <= size * 8 + 7
  BY <1>2, <1>3
<1>5. q + w <= size
  BY <1>2, <1>3, <1>4
<1>6. QED BY <1>2, <1>3, <1>5 DEF q, r, w, BitsWidth

\* Where the identifier is read lies in what it is a member of.
LEMMA TagFieldLies ==
    ASSUME NEW tag, NEW at \in Nat, NEW size \in Nat, FitsIn(tag, 0, size), tag.offset \in Nat,
           tag.bits \in {NoSize} \cup (Nat \ {0}), FirstBit(tag) \in Nat, NEW f \in TagField(Types, tag, at)
    PROVE  f.at \in Nat /\ f.width \in Nat /\ f.at + f.width <= at + size
<1>1. CASE tag.bits # NoSize
  <2> DEFINE bit == FirstBit(tag) + at * 8
  <2>1. 0 * 8 + FirstBit(tag) + tag.bits <= size * 8 /\ tag.bits \in Nat
    BY <1>1 DEF FitsIn
  <2>2. bit \in Nat /\ bit + tag.bits <= (at + size) * 8 /\ at + size \in Nat
    BY <2>1
  <2>3. f = [at |-> bit \div 8, width |-> BitsWidth(bit, tag.bits)]
    BY <1>1 DEF TagField
  <2> HIDE DEF bit
  <2>4. /\ bit \div 8 \in Nat /\ BitsWidth(bit, tag.bits) \in Nat
        /\ bit \div 8 + BitsWidth(bit, tag.bits) <= at + size
    BY <2>1, <2>2, BitsLie
  <2>5. QED BY <2>3, <2>4
<1>2. CASE tag.bits = NoSize
  <2> DEFINE node == Resolve(Types, tag.type)
  <2>1. f = [at |-> at + tag.offset, width |-> node.size] /\ node.kind \in {"enum", "base"}
    BY <1>2 DEF TagField
  <2>2. node.kind # "absent"
    BY <2>1
  <2>3. SizeOr0(Types, tag.type) = node.size /\ node.size \in Nat
    BY <2>2, SizeOr0Size, SizeOr0Type
  <2>4. 0 + tag.offset + SizeOr0(Types, tag.type) <= size
    BY <1>2 DEF FitsIn
  <2>5. QED BY <2>1, <2>3, <2>4
<1>3. QED BY <1>1, <1>2

\* A tagged union that fits its type, worked out.
LEMMA PlanFacts ==
    ASSUME NEW key, NEW use, Resolve(Types, key).kind = "union", IsUse(use), use.how = "tag",
           UseFits(Types, Resolve(Types, key), use)
    PROVE  LET node == Resolve(Types, key)
               plan == PlanUnion(Types, node, use)
               head == Member(node, use.tag[1])
           IN  /\ IsSeq(plan.always)
               /\ Range(plan.always) = {m \in Range(node.members) : m.name \in use.names \cup {use.tag[1]}}
               /\ IsSeq(plan.alternatives)
               /\ \A j \in 1 .. Len(plan.alternatives) : plan.alternatives[j].member \in Range(node.members)
               /\ \A c \in Range(use.cases) : \E j \in 1 .. Len(plan.alternatives) :
                     plan.alternatives[j].member = Member(node, c.member)
               /\ \A j \in 1 .. Len(plan.alternatives) : \E c \in Range(use.cases) :
                     plan.alternatives[j].member = Member(node, c.member) /\ c.member \in NamedMembers(node)
               /\ head \in Range(node.members)
               /\ plan.from = head.offset /\ plan.to = head.offset + SizeOr0(Types, head.type)
               /\ plan.from \in Nat /\ plan.to \in Nat
               /\ plan.tag.offset \in Nat /\ plan.tag.bits \in {NoSize} \cup (Nat \ {0})
               /\ FirstBit(plan.tag) \in Nat /\ FitsIn(plan.tag, 0, node.size)
<1> DEFINE node == Resolve(Types, key)
           plan == PlanUnion(Types, node, use)
           head == Member(node, use.tag[1])
           end == TagEnd(Types, node, use)
           tag == end.member
           cases == use.cases
           T == {i \in DOMAIN cases : \A j \in 1 .. i - 1 : cases[j].member # cases[i].member}
           first == Keeping([i \in DOMAIN cases |-> i], T)
<1>1. IsComposite(node)
  BY DEF IsComposite
<1>2. /\ node.size \in Nat /\ IsSeq(node.members) /\ Range(node.members) \subseteq Members
      /\ \A m \in Range(node.members) : FitsIn(m, 0, node.size)
  BY <1>1, CompositeFacts
<1>3. IsSeq(cases) /\ IsSeq(use.tag) /\ use.tag # <<>>
  <2>1. cases \in Seq(Range(cases)) /\ use.tag \in Seq(Seq(STRING))
    BY DEF IsUse
  <2>2. IsSeq(use.tag)
    BY <2>1, IsSeqOf
  <2>3. QED BY <2>1, <2>2 DEF IsSeq, IsUse
<1>4. /\ use.tag[1] \in NamedMembers(node)
      /\ \A i \in DOMAIN cases : cases[i].member \in NamedMembers(node)
  BY DEF UseFits
<1>5. head \in Range(node.members)
  BY <1>4, MemberIn
<1>6. head \in Members /\ FitsIn(head, 0, node.size) /\ head.offset \in Nat /\ SizeOr0(Types, head.type) \in Nat
  BY <1>2, <1>5, MembersAre, SizeOr0Type
<1>7. end \in Followed(node.size)
  <2>1. IsSeq(Tail(use.tag))
    BY <1>3, IsSeqTail
  <2>2. QED BY <1>2, <1>6, <2>1, FollowType DEF TagEnd
<1>8. /\ plan.from = head.offset /\ plan.to = head.offset + SizeOr0(Types, head.type)
      /\ plan.always = Keeping(node.members, {m \in Range(node.members) : m.name \in use.names \cup {use.tag[1]}})
      /\ plan.tag = [tag EXCEPT !.offset = end.at,
                                !.bit = IF @ = NoSize THEN NoSize ELSE @ + (end.at - tag.offset) * 8]
  BY DEF PlanUnion
<1>9. /\ DOMAIN plan.alternatives = DOMAIN first
      /\ plan.alternatives = [i \in DOMAIN first |-> plan.alternatives[i]]
      /\ \A i \in DOMAIN first : plan.alternatives[i].member = Member(node, cases[first[i]].member)
  BY DEF PlanUnion
<1>10. IsSeq(plan.always) /\ Range(plan.always) = {m \in Range(node.members) : m.name \in use.names \cup {use.tag[1]}}
  <2> DEFINE W == {m \in Range(node.members) : m.name \in use.names \cup {use.tag[1]}}
  <2>1. W \subseteq Range(node.members)
    OBVIOUS
  <2> HIDE DEF W, plan
  <2>2. IsSeq(Keeping(node.members, W)) /\ Range(Keeping(node.members, W)) = Range(node.members) \cap W
    BY <1>2, KeepingRange
  <2>3. QED BY <1>8, <2>1, <2>2 DEF W
<1> DEFINE n == Len(cases)
<1>11. n \in Nat /\ DOMAIN cases = 1 .. n /\ Range(cases) = {cases[i] : i \in 1 .. n}
  BY <1>3, IsSeqFacts
<1>12. /\ Len(first) \in Nat /\ DOMAIN first = 1 .. Len(first) /\ Range(first) = T
       /\ \A a \in 1 .. Len(first) : first[a] \in T
  <2>1. T = (1 .. n) \cap T
    BY <1>11
  <2> HIDE DEF T, n
  <2>2. first = Keeping([i \in 1 .. n |-> i], T)
    BY <1>11
  <2>3. QED BY <1>11, <2>1, <2>2, KeepingNumbers
<1>13. IsSeq(plan.alternatives) /\ Len(plan.alternatives) = Len(first)
  <2> HIDE DEF plan, first
  <2>1. QED BY <1>9, <1>12, IsSeqFrom
<1>14. \A i \in 1 .. n : \E a \in 1 .. n : a \in T /\ cases[a].member = cases[i].member
  <2>1. SUFFICES ASSUME NEW i \in 1 .. n PROVE \E a \in 1 .. n : a \in T /\ cases[a].member = cases[i].member
    OBVIOUS
  <2> DEFINE B == {a \in 1 .. n : cases[a].member = cases[i].member}
  <2>2. B \subseteq Nat /\ i \in B
    BY <1>11
  <2>3. PICK a \in B : \A b \in B : a <= b
    <3> HIDE DEF B
    <3>1. QED BY <2>2, LeastOf
  <2>4. a \in 1 .. n /\ cases[a].member = cases[i].member
    OBVIOUS
  <2>5. \A j \in 1 .. a - 1 : j \in 1 .. n /\ ~(a <= j)
    BY <1>11, <2>4
  <2>6. \A j \in 1 .. a - 1 : cases[j].member # cases[a].member
    BY <2>3, <2>4, <2>5
  <2>7. a \in T
    BY <1>11, <2>4, <2>6
  <2>8. QED BY <2>4, <2>7
<1>15. \A j \in 1 .. Len(first) : \E c \in Range(cases) :
          plan.alternatives[j].member = Member(node, c.member) /\ c.member \in NamedMembers(node)
  <2>1. SUFFICES ASSUME NEW j \in 1 .. Len(first)
                 PROVE  \E c \in Range(cases) : plan.alternatives[j].member = Member(node, c.member) /\ c.member \in NamedMembers(node)
    OBVIOUS
  <2>2. first[j] \in 1 .. n
    BY <1>11, <1>12
  <2> HIDE DEF first, plan, node, n, T
  <2>3. cases[first[j]] \in Range(cases) /\ cases[first[j]].member \in NamedMembers(node)
    BY <1>4, <1>11, <2>2
  <2>4. QED BY <1>9, <1>12, <2>3
<1>16. \A c \in Range(cases) : \E j \in 1 .. Len(first) : plan.alternatives[j].member = Member(node, c.member)
  <2>1. SUFFICES ASSUME NEW i \in 1 .. n
                 PROVE  \E j \in 1 .. Len(first) : plan.alternatives[j].member = Member(node, cases[i].member)
    BY <1>11
  <2>2. PICK a \in 1 .. n : a \in T /\ cases[a].member = cases[i].member
    BY <1>14
  <2> HIDE DEF first, plan, node, n, T
  <2>3. PICK j \in 1 .. Len(first) : first[j] = a
    BY <1>12, <2>2 DEF Range
  <2>4. QED BY <1>9, <1>12, <2>2, <2>3
<1>17. \A j \in 1 .. Len(first) : plan.alternatives[j].member \in Range(node.members)
  BY <1>15, MemberIn
<1>18. /\ tag \in Members /\ end.at \in Nat /\ tag.offset <= end.at /\ FitsIn(tag, end.at - tag.offset, node.size)
  BY <1>7 DEF Followed
<1>19. /\ tag.offset \in Nat /\ tag.bits \in {NoSize} \cup (Nat \ {0}) /\ tag.bit \in {NoSize} \cup Nat /\ IsMember(tag)
  BY <1>18, MembersAre
<1>20. /\ plan.tag.offset = end.at /\ plan.tag.bits = tag.bits /\ plan.tag.type = tag.type
       /\ plan.tag.bit = IF tag.bit = NoSize THEN NoSize ELSE tag.bit + (end.at - tag.offset) * 8
  <2>1. tag \in [name : Seq(STRING), offset : Nat, type : {tag.type},
                 bits : {NoSize} \cup (Nat \ {0}), bit : {NoSize} \cup Nat]
    BY <1>19 DEF IsMember
  <2> HIDE DEF plan, tag
  <2>2. QED BY <1>8, <2>1
<1> HIDE DEF plan, tag, node
<1>21. FirstBit(plan.tag) = FirstBit(tag) + (end.at - tag.offset) * 8 /\ FirstBit(plan.tag) \in Nat
  <2>1. CASE tag.bit = NoSize
    BY <1>18, <1>19, <1>20, <2>1 DEF FirstBit
  <2>2. CASE tag.bit # NoSize
    <3>1. tag.bit \in Nat /\ (end.at - tag.offset) * 8 \in Nat
      BY <1>18, <1>19, <2>2
    <3>2. plan.tag.bit = tag.bit + (end.at - tag.offset) * 8 /\ plan.tag.bit # NoSize
      BY <1>20, <2>2, <3>1 DEF NoSize
    <3>3. QED BY <2>2, <3>1, <3>2 DEF FirstBit
  <2>3. QED BY <2>1, <2>2
<1>22. FitsIn(plan.tag, 0, node.size)
  <2>1. FirstBit(tag) \in Nat /\ SizeOr0(Types, tag.type) \in Nat
    BY <1>18, MembersAre, SizeOr0Type
  <2>2. CASE tag.bits = NoSize
    <3>1. end.at - tag.offset + tag.offset + SizeOr0(Types, tag.type) <= node.size
      BY <1>18, <2>2 DEF FitsIn
    <3>2. 0 + plan.tag.offset + SizeOr0(Types, plan.tag.type) <= node.size
      BY <1>2, <1>18, <1>19, <1>20, <2>1, <3>1
    <3>3. QED BY <1>20, <2>2, <3>2 DEF FitsIn
  <2>3. CASE tag.bits # NoSize
    <3>1. (end.at - tag.offset) * 8 + FirstBit(tag) + tag.bits <= node.size * 8 /\ ~IsComposite(Resolve(Types, tag.type))
      BY <1>18, <2>3 DEF FitsIn
    <3>2. tag.bits \in Nat
      BY <1>19, <2>3
    <3>3. 0 * 8 + FirstBit(plan.tag) + plan.tag.bits <= node.size * 8
      BY <1>2, <1>18, <1>19, <1>20, <1>21, <2>1, <3>1, <3>2
    <3>4. QED BY <1>20, <2>3, <3>1, <3>3 DEF FitsIn
  <2>4. QED BY <2>2, <2>3
<1>23. plan.from \in Nat /\ plan.to \in Nat
  BY <1>6, <1>8
<1>24. /\ IsSeq(plan.always)
       /\ Range(plan.always) = {m \in Range(node.members) : m.name \in use.names \cup {use.tag[1]}}
       /\ IsSeq(plan.alternatives)
       /\ plan.tag.offset \in Nat /\ plan.tag.bits \in {NoSize} \cup (Nat \ {0})
  BY <1>10, <1>13, <1>18, <1>19, <1>20
<1>25. QED BY <1>5, <1>8, <1>13, <1>15, <1>16, <1>17, <1>21, <1>22, <1>23, <1>24 DEF plan, node

\* The members of a union that is not tagged that get walked are those asked for.
LEMMA UnionMembersFacts ==
    ASSUME NEW node, IsSeq(node.members), NEW use, use.how \in {"keep", "drop", "undeclared"}
    PROVE  /\ IsSeq(UnionMembers(Types, node, use, job.unionBytes))
           /\ Range(UnionMembers(Types, node, use, job.unionBytes)) = AskedFor(node, use)
<1> DEFINE all  == Range(node.members)
           seen == {m \in all : ~IsByteView(Types, m.type)}
           views == {m \in all : IsByteView(Types, m.type)}
           kept == CASE use.how = "keep" -> {m \in all : m.name \in use.names}
                     [] use.how = "drop" -> {m \in all : m.name \notin use.names}
                     [] use.how = "undeclared" /\ job.unionBytes = "drop" /\ seen # {} -> seen
                     [] OTHER -> all
<1>1. UnionMembers(Types, node, use, job.unionBytes) = Keeping(node.members, kept)
  BY DEF UnionMembers
<1>2. kept \subseteq all /\ kept = AskedFor(node, use)
  <2>1. seen # {} <=> views # all
    OBVIOUS
  <2>2. seen = {m \in all : m \notin views}
    OBVIOUS
  <2>3. AskedFor(node, use) =
            {m \in all : CASE use.how = "keep" -> m.name \in use.names
                           [] use.how = "drop" -> m.name \notin use.names
                           [] use.how = "tag" -> m.name \in use.names \cup {use.tag[1]} \cup {c.member : c \in Range(use.cases)}
                           [] OTHER -> use.how = "undeclared" /\ job.unionBytes = "drop" /\ views # all
                                           => m \notin views}
    BY DEF AskedFor
  <2> HIDE DEF seen, views, all
  <2>4. CASE use.how = "keep"
    BY <2>3, <2>4
  <2>5. CASE use.how = "drop"
    BY <2>3, <2>5
  <2>6. CASE use.how = "undeclared"
    <3>1. CASE job.unionBytes = "drop" /\ seen # {}
      BY <2>1, <2>2, <2>3, <2>6, <3>1
    <3>2. CASE ~(job.unionBytes = "drop" /\ seen # {})
      BY <2>1, <2>3, <2>6, <3>2
    <3>3. QED BY <3>1, <3>2
  <2>7. QED BY <2>4, <2>5, <2>6
<1> HIDE DEF kept, all
<1>3. IsSeq(Keeping(node.members, kept)) /\ Range(Keeping(node.members, kept)) = Range(node.members) \cap kept
  BY KeepingRange
<1>4. QED BY <1>1, <1>2, <1>3 DEF all

-----------------------------------------------------------------------------
(* What the variables hold.                                                 *)

\* What a piece is made of, a member or an element, in so many bytes.
Laid(m, size) == /\ m.offset \in Nat /\ m.bits \in {NoSize} \cup (Nat \ {0}) /\ FirstBit(m) \in Nat
                 /\ FitsIn(m, 0, size)

IsPiece(t, n, size) == /\ t.what = "piece" /\ t.at \in Nat /\ t.bits \in {NoSize} \cup (Nat \ {0}) /\ t.bit \in Nat
                       /\ t.depth \in Nat \ {0} /\ t.into \in 1 .. n
                       /\ t.bits = NoSize => t.at + SizeOr0(Types, t.type) <= size
                       /\ t.bits # NoSize => t.bit + t.bits <= size * 8

IsText1(t, n, size) == /\ t.what = "text" /\ t.at \in Nat /\ t.width \in Nat /\ t.into \in 1 .. n
                       /\ t.at + t.width <= size

IsSwitch(t, n, size) == /\ t.what = "switch" /\ t.at \in Nat /\ t.width \in Nat /\ t.from \in Nat /\ t.to \in Nat
                        /\ IsSeq(t.values) /\ t.first \in 1 .. n /\ t.first + Len(t.values) <= n
                        /\ t.into \in 1 .. t.first
                        /\ t.at + t.width <= size

\* What is still to be walked, of n lists and in a message of that size.
IsTask(t, n, size) == IsPiece(t, n, size) \/ IsText1(t, n, size) \/ IsSwitch(t, n, size)

IsField(f, n, size) == /\ f.kind \in {"plain", "switch"}
                       /\ f.at \in Nat /\ f.width \in Nat /\ f.each \in Nat /\ f.into \in 1 .. n
                       /\ IsSeq(f.names) /\ IsSeq(f.fields) /\ IsSeq(f.values) /\ Len(f.values) = Len(f.fields)
                       /\ f.at + f.width <= size

\* The names given so far.
Given == {Unique(used, p) : p \in 1 .. Len(used)}

\* A plain field has one column behind the other; a switch is of fields made
\* before it, and has their names.
IsMade(r) == /\ IsField(made[r], lists, Message.size)
             /\ made[r].names \in Seq(Given)
             /\ made[r].kind = "plain" => made[r].width = Len(made[r].names) * made[r].each
             /\ made[r].kind = "switch" => /\ \A k \in 1 .. Len(made[r].fields) : made[r].fields[k] \in 1 .. r - 1
                                           /\ made[r].names = NamesOf(made, made[r].fields)

REASONS == {"depth", "no type", "no size", "flexible", "no element type", "identifier"}

\* What the variables hold, but for the row.
Typed == /\ job \in Jobs
         /\ status \in {"start", "walking", "ready", "refused"}
         /\ status \in {"walking", "ready"} => Compiles
         /\ status = "start" => lists = 1 /\ made = <<>> /\ used = <<>>
         /\ status # "walking" => todo = <<>>
         /\ lists \in Nat \ {0}
         /\ headerSize \in Nat
         /\ IsSeq(used)
         /\ \A d \in dropped : d.reason \in REASONS
         /\ IsSeq(todo) /\ \A t \in Range(todo) : IsTask(t, lists, Message.size)
         /\ IsSeq(made) /\ \A r \in 1 .. Len(made) : IsMade(r)

-----------------------------------------------------------------------------

\* What is left of the message's type once it compiles.
LEMMA MessageFacts ==
    ASSUME Compiles
    PROVE  /\ Message.size \in Nat /\ IsSeq(Message.members) /\ Range(Message.members) \subseteq Members
           /\ \A m \in Range(Message.members) : Laid(m, Message.size)
<1>1. IsComposite(Resolve(Types, job.key))
  BY DEF Compiles, Message
<1>2. /\ Message.size \in Nat /\ IsSeq(Message.members) /\ Range(Message.members) \subseteq Members
      /\ \A m \in Range(Message.members) : FitsIn(m, 0, Message.size)
  BY <1>1, CompositeFacts DEF Message
<1>3. \A m \in Members : m.offset \in Nat /\ m.bits \in {NoSize} \cup (Nat \ {0}) /\ FirstBit(m) \in Nat
  BY MembersAre
<1>4. QED BY <1>2, <1>3 DEF Laid

LEMMA PieceFacts ==
    ASSUME NEW inner \in Nat, NEW m, Laid(m, inner), NEW column, NEW at \in Nat, NEW depth \in Nat \ {0},
           NEW n \in Nat, NEW into \in 1 .. n, NEW size \in Nat, at + inner <= size
    PROVE  IsPiece(Piece(m, column, at, depth, into), n, size)
<1> DEFINE t == Piece(m, column, at, depth, into)
<1>1. at + m.offset \in Nat /\ at * 8 + FirstBit(m) \in Nat
  BY DEF Laid
<1>2. /\ t.what = "piece" /\ t.at = at + m.offset /\ t.bits = m.bits /\ t.bit = at * 8 + FirstBit(m)
      /\ t.depth = depth /\ t.into = into /\ t.type = m.type
  BY DEF Piece
<1>3. m.bits = NoSize => at + m.offset + SizeOr0(Types, m.type) <= size
  <2>1. SizeOr0(Types, m.type) \in Nat
    BY SizeOr0Type
  <2>2. m.bits = NoSize => 0 + m.offset + SizeOr0(Types, m.type) <= inner
    BY DEF Laid, FitsIn
  <2>3. m.offset \in Nat
    BY DEF Laid
  <2>4. QED BY <2>1, <2>2, <2>3
<1>4. m.bits # NoSize => at * 8 + FirstBit(m) + m.bits <= size * 8
  <2>1. m.bits # NoSize => m.bits \in Nat /\ 0 * 8 + FirstBit(m) + m.bits <= inner * 8
    BY DEF Laid, FitsIn
  <2>2. FirstBit(m) \in Nat
    BY DEF Laid
  <2>3. QED BY <2>1, <2>2
<1> HIDE DEF t
<1>5. QED BY <1>1, <1>2, <1>3, <1>4 DEF IsPiece, Laid, t

LEMMA PiecesFacts ==
    ASSUME NEW members, IsSeq(members), NEW column, NEW at, NEW depth, NEW into
    PROVE  LET pieces == Pieces(members, column, at, depth, into)
           IN  /\ IsSeq(pieces) /\ Len(pieces) = Len(members)
               /\ \A i \in 1 .. Len(pieces) : pieces[i] = Piece(members[i], column, at, depth, into)
               /\ \A t \in Range(pieces) : \E m \in Range(members) : t = Piece(m, column, at, depth, into)
               /\ \A m \in Range(members) : Piece(m, column, at, depth, into) \in Range(pieces)
<1> DEFINE pieces == Pieces(members, column, at, depth, into)
           N == Len(members)
<1>1. N \in Nat /\ DOMAIN members = 1 .. N /\ Range(members) = {members[i] : i \in 1 .. N}
  BY IsSeqFacts
<1>2. pieces = [i \in 1 .. N |-> Piece(members[i], column, at, depth, into)]
  BY <1>1 DEF Pieces
<1> HIDE DEF pieces, N
<1>3. pieces = [i \in 1 .. N |-> pieces[i]]
  BY <1>2
<1>4. IsSeq(pieces) /\ Len(pieces) = N /\ DOMAIN pieces = 1 .. N
  BY <1>1, <1>3, IsSeqFrom
<1>5. Range(pieces) = {Piece(members[i], column, at, depth, into) : i \in 1 .. N}
  BY <1>2, <1>4 DEF Range
<1>6. \A t \in Range(pieces) : \E m \in Range(members) : t = Piece(m, column, at, depth, into)
  BY <1>1, <1>5
<1>7. \A m \in Range(members) : Piece(m, column, at, depth, into) \in Range(pieces)
  BY <1>1, <1>5
<1>8. \A i \in 1 .. Len(pieces) : pieces[i] = Piece(members[i], column, at, depth, into)
  BY <1>2, <1>4
<1>9. QED BY <1>4, <1>6, <1>7, <1>8 DEF N, pieces

\* A task stays one as there are more lists.
LEMMA MoreLists ==
    ASSUME NEW n \in Nat, NEW m \in Nat, n <= m, NEW size
    PROVE  /\ \A t : IsTask(t, n, size) => IsTask(t, m, size)
           /\ \A f : IsField(f, n, size) => IsField(f, m, size)
<1>1. 1 .. n \subseteq 1 .. m
  OBVIOUS
<1>2. \A t : IsPiece(t, n, size) => IsPiece(t, m, size)
  BY <1>1 DEF IsPiece
<1>3. \A t : IsText1(t, n, size) => IsText1(t, m, size)
  BY <1>1 DEF IsText1
<1>4. ASSUME NEW t, IsSwitch(t, n, size) PROVE IsSwitch(t, m, size)
  <2>1. Len(t.values) \in Nat /\ t.first \in Nat
    BY <1>4, IsSeqFacts DEF IsSwitch
  <2>2. t.first + Len(t.values) <= m
    BY <1>4, <2>1 DEF IsSwitch
  <2>3. QED BY <1>1, <1>4, <2>2 DEF IsSwitch
<1>5. \A f : IsField(f, n, size) => IsField(f, m, size)
  BY <1>1 DEF IsField
<1>6. QED BY <1>2, <1>3, <1>4, <1>5 DEF IsTask

\* What takes the place of what was walked.
LEMMA ReplaceFacts ==
    ASSUME IsSeq(todo), todo # <<>>, NEW pieces, IsSeq(pieces), Replace(pieces)
    PROVE  /\ IsSeq(todo') /\ Len(todo') = Len(pieces) + Len(todo) - 1 /\ Len(pieces) \in Nat /\ Len(todo) \in Nat \ {0}
           /\ \A i \in 1 .. Len(pieces) : todo'[i] = pieces[i]
           /\ \A i \in Len(pieces) + 1 .. Len(todo') : /\ todo'[i] = todo[i - Len(pieces) + 1]
                                                       /\ i - Len(pieces) + 1 \in 2 .. Len(todo)
           /\ Now = todo[1] /\ Now \in Range(todo) /\ Range(Tail(todo)) \subseteq Range(todo)
           /\ Range(todo') = Range(pieces) \cup Range(Tail(todo))
<1> DEFINE t == Tail(todo)
<1>1. /\ IsSeq(t) /\ Len(todo) \in Nat \ {0} /\ Len(t) = Len(todo) - 1
      /\ \A i \in 1 .. Len(t) : t[i] = todo[i + 1]
      /\ Head(todo) = todo[1] /\ Head(todo) \in Range(todo) /\ Range(t) \subseteq Range(todo)
  BY IsSeqTail
<1>2. todo' = pieces \o t
  BY DEF Replace
<1> HIDE DEF t
<1>3. IsSeq(pieces)
  OBVIOUS
<1>4. /\ IsSeq(todo') /\ Len(todo') = Len(pieces) + Len(t)
      /\ \A i \in 1 .. Len(pieces) : todo'[i] = pieces[i]
      /\ \A i \in Len(pieces) + 1 .. Len(todo') : todo'[i] = t[i - Len(pieces)] /\ i - Len(pieces) \in 1 .. Len(t)
      /\ Range(todo') = Range(pieces) \cup Range(t)
  <2> DEFINE u == pieces \o t
  <2>1. IsSeq(t)
    BY <1>1
  <2>2. /\ IsSeq(u) /\ Len(u) = Len(pieces) + Len(t)
        /\ \A i \in 1 .. Len(pieces) : u[i] = pieces[i]
        /\ \A i \in Len(pieces) + 1 .. Len(u) : u[i] = t[i - Len(pieces)] /\ i - Len(pieces) \in 1 .. Len(t)
        /\ Range(u) = Range(pieces) \cup Range(t)
    BY ONLY <1>3, <2>1, IsSeqConcat
  <2> HIDE DEF u
  <2>3. todo' = u
    BY <1>2 DEF u
  <2>4. QED BY <2>2, <2>3
<1>5. Len(pieces) \in Nat
  BY IsSeqFacts
<1>6. \A i \in Len(pieces) + 1 .. Len(todo') : /\ todo'[i] = todo[i - Len(pieces) + 1]
                                               /\ i - Len(pieces) + 1 \in 2 .. Len(todo)
  <2>1. SUFFICES ASSUME NEW i \in Len(pieces) + 1 .. Len(todo')
                 PROVE  todo'[i] = todo[i - Len(pieces) + 1] /\ i - Len(pieces) + 1 \in 2 .. Len(todo)
    OBVIOUS
  <2>2. todo'[i] = t[i - Len(pieces)] /\ i - Len(pieces) \in 1 .. Len(t)
    BY <1>4
  <2>3. t[i - Len(pieces)] = todo[(i - Len(pieces)) + 1]
    BY <1>1, <2>2
  <2>4. QED BY <1>1, <1>5, <2>1, <2>2, <2>3
<1>7. QED BY <1>1, <1>4, <1>5, <1>6 DEF Now, t

\* A part ends no later than as many of its size do.
LEMMA PartOf ==
    ASSUME NEW n \in Nat, NEW p \in 1 .. n, NEW each \in Nat
    PROVE  (p - 1) * each \in Nat /\ (p - 1) * each + each <= n * each
<1>1. p - 1 \in Nat /\ p \in Nat /\ n - p \in Nat
  OBVIOUS
<1>2. (n - p) * each \in Nat /\ (p - 1) * each \in Nat
  BY <1>1
<1>3. n * each = (n - p) * each + ((p - 1) * each + each)
  BY <1>1
<1> DEFINE a == (n - p) * each
           b == (p - 1) * each
           c == n * each
<1>4. a \in Nat /\ b \in Nat /\ c = a + (b + each)
  BY <1>2, <1>3
<1> HIDE DEF a, b, c
<1>5. b + each <= c
  BY <1>4
<1>6. QED BY <1>4, <1>5 DEF b, c

LEMMA ElementsFacts ==
    ASSUME NEW key, Resolve(Types, key).kind = "array", SizeOr0(Types, Resolve(Types, key).elem) > 0
    PROVE  LET node == Resolve(Types, key)
               size == Resolve(Types, node.elem).size
               elements == Elements(node, size)
           IN  /\ node.dims \in Seq(Nat) /\ node.dims # <<>> /\ Product(node.dims) \in Nat
               /\ size = SizeOr0(Types, node.elem) /\ size \in Nat \ {0}
               /\ Product(node.dims) * size <= node.size
               /\ IsSeq(elements) /\ Len(elements) = Product(node.dims)
               /\ \A p \in 1 .. Product(node.dims) : elements[p] = Element(node, size, p)
               /\ Range(elements) = {Element(node, size, p) : p \in 1 .. Product(node.dims)}
               /\ \A m \in Range(elements) : Laid(m, node.size)
<1> DEFINE node == Resolve(Types, key)
           size == Resolve(Types, node.elem).size
           elements == Elements(node, size)
           N == Product(node.dims)
<1>1. /\ ChainEnd(Types, key) \in DOMAIN Types /\ node = Types[ChainEnd(Types, key)]
      /\ WellFormed(node) /\ node.size \in Nat
  BY ResolveFacts DEF Absent
<1>2. node.dims \in Seq(Nat) /\ node.dims # <<>>
  BY <1>1 DEF WellFormed
<1>3. N \in Nat
  BY <1>2, ProductType
<1>4. Resolve(Types, node.elem).kind # "absent"
  <2>1. CASE Resolve(Types, node.elem) = Absent
    <3>1. SizeOr0(Types, node.elem) = 0
      BY <2>1 DEF SizeOr0, SizeOf, NoSize
    <3>2. QED BY <3>1
  <2>2. QED BY <2>1, ResolveFacts DEF KINDS
<1>5. size = SizeOr0(Types, node.elem) /\ size \in Nat \ {0}
  BY <1>4, SizeOr0Size, SizeOr0Type
<1>6. N * size <= node.size
  <2>1. Product(Types[ChainEnd(Types, key)].dims) * SizeOr0(Types, Types[ChainEnd(Types, key)].elem)
            <= Types[ChainEnd(Types, key)].size
    BY <1>1, LayoutAssumption
  <2>2. QED BY <1>1, <1>5, <2>1
<1>7. elements = [p \in 1 .. N |-> Element(node, size, p)]
  BY DEF Elements
<1>8. ASSUME NEW p \in 1 .. N PROVE Laid(Element(node, size, p), node.size)
  <2> DEFINE m == Element(node, size, p)
  <2>1. m.offset = (p - 1) * size /\ m.bits = NoSize /\ m.bit = NoSize /\ m.type = node.elem
    BY DEF Element
  <2>2. (p - 1) * size \in Nat /\ (p - 1) * size + size <= N * size
    BY <1>3, <1>5, PartOf
  <2>3. N * size \in Nat
    BY <1>3, <1>5
  <2> HIDE DEF m, size, N
  <2>4. m.offset \in Nat /\ m.offset + size <= node.size
    BY <1>1, <1>5, <1>6, <2>1, <2>2, <2>3
  <2>5. FirstBit(m) \in Nat
    BY <2>1, <2>4 DEF FirstBit
  <2>6. FitsIn(m, 0, node.size)
    BY <1>5, <2>1, <2>4 DEF FitsIn
  <2>7. QED BY <2>1, <2>4, <2>5, <2>6 DEF Laid, m
<1> HIDE DEF elements, N, size, node
<1>9. elements = [p \in 1 .. N |-> elements[p]]
  BY <1>7
<1>10. IsSeq(elements) /\ Len(elements) = N /\ DOMAIN elements = 1 .. N
  BY <1>3, <1>9, IsSeqFrom
<1>11. \A p \in 1 .. N : elements[p] = Element(node, size, p)
  BY <1>7
<1>12. Range(elements) = {Element(node, size, p) : p \in 1 .. N}
  BY <1>10, <1>11 DEF Range
<1>13. QED BY <1>2, <1>3, <1>5, <1>6, <1>8, <1>10, <1>11, <1>12 DEF elements, N, size, node

\* The text of row p of an array of characters.
RowText(node, column, at, into, p) ==
    [what |-> "text", column |-> column \o Index(Front(node.dims), p - 1),
     at |-> at + (p - 1) * Last(node.dims), width |-> Last(node.dims), into |-> into]

LEMMA RowsFacts ==
    ASSUME NEW node, node.dims \in Seq(Nat), node.dims # <<>>, NEW column, NEW at \in Nat, NEW into
    PROVE  LET rows == Rows(node, column, at, into)
               count == Product(Front(node.dims))
           IN  /\ IsSeq(rows) /\ Len(rows) = count /\ count \in Nat
               /\ \A t \in Range(rows) : \E p \in 1 .. count : t = RowText(node, column, at, into, p)
               /\ \A p \in 1 .. count : RowText(node, column, at, into, p) \in Range(rows)
               /\ \A p \in 1 .. count : rows[p] = RowText(node, column, at, into, p)
<1> DEFINE rows == Rows(node, column, at, into)
           count == Product(Front(node.dims))
           text(p) == RowText(node, column, at, into, p)
<1>1. count \in Nat
  BY ProductFront, ProductType
<1>2. rows = [p \in 1 .. count |-> text(p)]
  BY DEF Rows, RowText
<1> HIDE DEF text, count, rows
<1>3. rows = [p \in 1 .. count |-> rows[p]]
  BY <1>2
<1>4. IsSeq(rows) /\ Len(rows) = count /\ DOMAIN rows = 1 .. count
  BY <1>1, <1>3, IsSeqFrom
<1>5. Range(rows) = {text(p) : p \in 1 .. count}
  BY <1>2, <1>4 DEF Range
<1>6. \A p \in 1 .. count : rows[p] = text(p)
  BY <1>2
<1>7. QED BY <1>1, <1>4, <1>5, <1>6 DEF text, count, rows

\* It lies in the array.
LEMMA RowLies ==
    ASSUME NEW node, node.dims \in Seq(Nat), node.dims # <<>>, NEW column, NEW at \in Nat, NEW p \in 1 .. Product(Front(node.dims)),
           NEW n \in Nat, NEW into \in 1 .. n, NEW size \in Nat, at + Product(node.dims) <= size
    PROVE  IsText1(RowText(node, column, at, into, p), n, size) /\ RowText(node, column, at, into, p).into = into
<1> DEFINE long == Last(node.dims)
           count == Product(Front(node.dims))
           t == RowText(node, column, at, into, p)
<1>1. count \in Nat /\ long \in Nat /\ Product(node.dims) = count * long
  BY ProductFront, ProductType
<1>2. (p - 1) * long \in Nat /\ (p - 1) * long + long <= count * long
  BY <1>1, PartOf
<1>3. t.what = "text" /\ t.at = at + (p - 1) * long /\ t.width = long /\ t.into = into
  BY DEF RowText
<1>4. at + (p - 1) * long \in Nat /\ at + (p - 1) * long + long <= size
  <2> DEFINE a == (p - 1) * long
             b == count * long
  <2>1. a \in Nat /\ a + long <= b /\ at + b <= size /\ b \in Nat
    BY <1>1, <1>2
  <2> HIDE DEF a, b
  <2>2. at + a \in Nat /\ at + a + long <= size
    BY <1>1, <2>1
  <2>3. QED BY <2>2 DEF a
<1> HIDE DEF t
<1>5. IsText1(t, n, size)
  BY <1>1, <1>3, <1>4 DEF IsText1
<1>6. QED BY <1>3, <1>5 DEF t

-----------------------------------------------------------------------------
(* What a step of the walk does.                                            *)

\* A field of one column for each of the paths is added.
Adds(paths, at, each) ==
    /\ status = "walking" /\ todo # <<>> /\ Now.what \in {"piece", "text"}
    /\ IsSeq(paths) /\ at \in Nat /\ each \in Nat /\ at + Len(paths) * each <= Message.size
    /\ AddField(paths, at, each)

\* What is walked is given up, or other pieces, or texts, take its place.
Opens(pieces) ==
    /\ status = "walking" /\ todo # <<>> /\ Now.what = "piece"
    /\ IsSeq(pieces)
    /\ \A t \in Range(pieces) : /\ IsPiece(t, lists, Message.size) \/ IsText1(t, lists, Message.size)
                                /\ t.into = Now.into
    /\ Replace(pieces)
    /\ dropped \subseteq dropped' /\ \A d \in dropped' : d.reason \in REASONS
    /\ UNCHANGED <<job, status, made, lists, used, headerSize, packet, row>>

\* What is always there, the alternatives and the field for them take its place.
Tags(always, alts, t) ==
    /\ status = "walking" /\ todo # <<>> /\ Now.what = "piece"
    /\ IsSeq(always) /\ IsSeq(alts)
    /\ \A a \in Range(always) : IsPiece(a, lists, Message.size) /\ a.into = Now.into
    /\ \A j \in 1 .. Len(alts) : IsPiece(alts[j], lists + Len(alts), Message.size) /\ alts[j].into = lists + j
    /\ IsSwitch(t, lists + Len(alts), Message.size)
    /\ t.first = lists /\ t.into = Now.into /\ Len(t.values) = Len(alts)
    /\ Replace(always \o alts \o <<t>>)
    /\ lists' = lists + Len(alts)
    /\ UNCHANGED <<job, status, made, used, dropped, headerSize, packet, row>>

\* What is walked next.
LEMMA NowFacts ==
    ASSUME Typed, status = "walking", todo # <<>>
    PROVE  /\ IsTask(Now, lists, Message.size) /\ Message.size \in Nat /\ lists \in Nat \ {0}
           /\ Now.what = "piece" => IsPiece(Now, lists, Message.size)
           /\ Now.what = "text" => IsText1(Now, lists, Message.size)
           /\ Now.what = "switch" => IsSwitch(Now, lists, Message.size)
           /\ Now.into \in 1 .. lists
           /\ Now.what \in {"piece", "text", "switch"}
<1>1. IsSeq(todo) /\ \A t \in Range(todo) : IsTask(t, lists, Message.size)
  BY DEF Typed
<1>2. Now \in Range(todo)
  BY <1>1, IsSeqTail DEF Now
<1>3. IsTask(Now, lists, Message.size) /\ Message.size \in Nat /\ lists \in Nat \ {0}
  BY <1>1, <1>2, MessageFacts DEF Typed
<1>4. IsPiece(Now, lists, Message.size) => Now.what = "piece" /\ Now.into \in 1 .. lists
  BY DEF IsPiece
<1>5. IsText1(Now, lists, Message.size) => Now.what = "text" /\ Now.into \in 1 .. lists
  BY DEF IsText1
<1>6. IsSwitch(Now, lists, Message.size) => Now.what = "switch" /\ Now.into \in 1 .. lists
  <2>1. IsSwitch(Now, lists, Message.size) => Now.what = "switch" /\ Now.into \in 1 .. Now.first /\ Now.first \in 1 .. lists
    BY DEF IsSwitch
  <2>2. QED BY <1>3, <2>1
<1>7. QED BY <1>3, <1>4, <1>5, <1>6 DEF IsTask

\* What it is, when it is a piece that can be walked.
LEMMA WalkingFacts ==
    ASSUME Typed, NEW kinds, Walking(kinds)
    PROVE  /\ IsPiece(Now, lists, Message.size) /\ Message.size \in Nat /\ lists \in Nat \ {0} /\ Now.at \in Nat
           /\ Inner.kind \in kinds /\ Inner.kind \in KINDS /\ Inner.size \in Nat
           /\ Inner.size = SizeOr0(Types, Now.type) /\ Now.at + Inner.size <= Message.size
           /\ Now.depth \in Nat \ {0} /\ Now.depth <= MaxDepth /\ Now.into \in 1 .. lists
           /\ Inner.kind = "array" => Product(Inner.dims) > 0 /\ SizeOr0(Types, Inner.elem) > 0
           /\ Inner.kind = "base" => Inner.size # 0
<1>1. status = "walking" /\ todo # <<>> /\ Now.what = "piece" /\ Now.bits = NoSize /\ Lack = "none" /\ Inner.kind \in kinds
  BY DEF Walking
<1>2. IsPiece(Now, lists, Message.size) /\ Message.size \in Nat /\ lists \in Nat \ {0} /\ Now.into \in 1 .. lists
  BY <1>1, NowFacts
<1>3. Now.at \in Nat /\ Now.depth \in Nat \ {0} /\ Now.at + SizeOr0(Types, Now.type) <= Message.size
  BY <1>1, <1>2 DEF IsPiece
<1>4. Now.depth <= MaxDepth /\ Inner.kind # "absent"
  <2>1. MaxDepth \in Nat
    BY BoundsAssumption
  <2>2. Now.depth <= MaxDepth
    <3>1. CASE Now.depth > MaxDepth
      <4>1. ~(Now.depth <= MaxDepth)
        BY <1>3, <2>1, <3>1
      <4>2. Lack = "depth"
        BY <3>1, <4>1 DEF Lack
      <4>3. QED BY <1>1, <4>2
    <3>2. QED BY <1>3, <2>1, <3>1
  <2>3. Inner.kind # "absent"
    <3>1. CASE Inner.kind = "absent"
      <4>1. Lack = "no type"
        BY <1>3, <2>1, <2>2, <3>1 DEF Lack
      <4>2. QED BY <1>1, <4>1
    <3>2. QED BY <3>1
  <2>4. QED BY <2>2, <2>3
<1>5. Inner.kind \in KINDS /\ Inner.size \in Nat /\ Inner.size = SizeOr0(Types, Now.type)
  <2>1. Resolve(Types, Now.type).kind # "absent"
    BY <1>4 DEF Inner
  <2>2. QED BY <2>1, ResolveFacts, SizeOr0Size DEF Inner
<1>6. Inner.kind = "array" => Product(Inner.dims) > 0
  <2>1. CASE Inner.kind = "array"
    <3>1. WellFormed(Inner)
      BY <2>1, ResolveFacts DEF Inner, KINDS
    <3>2. Product(Inner.dims) \in Nat
      BY <2>1, <3>1, ProductType DEF WellFormed
    <3>3. CASE Product(Inner.dims) <= 0
      <4>1. ~(Now.depth > MaxDepth) /\ ~(Inner.kind = "absent") /\ ~(Inner.kind = "base")
        BY <1>3, <1>4, <2>1, BoundsAssumption
      <4>2. ~(Product(Inner.dims) > 0)
        BY <3>2, <3>3
      <4>3. Lack = "flexible"
        BY <1>4, <2>1, <3>3, <4>1, <4>2 DEF Lack
      <4>4. QED BY <1>1, <4>3
    <3>4. QED BY <3>2, <3>3
  <2>2. QED BY <2>1
<1>7. Inner.kind = "array" => SizeOr0(Types, Inner.elem) > 0
  <2>1. SizeOr0(Types, Inner.elem) \in Nat
    BY SizeOr0Type
  <2>2. CASE Inner.kind = "array" /\ SizeOr0(Types, Inner.elem) <= 0
    <3>1. ~(Now.depth > MaxDepth) /\ ~(Inner.kind = "absent") /\ ~(Inner.kind = "base")
      BY <1>3, <1>4, <2>2, BoundsAssumption
    <3>2. Product(Inner.dims) > 0 /\ ~(Product(Inner.dims) <= 0)
      <4>1. WellFormed(Inner)
        BY <2>2, ResolveFacts DEF Inner, KINDS
      <4>2. Product(Inner.dims) \in Nat
        BY <2>2, <4>1, ProductType DEF WellFormed
      <4>3. QED BY <1>6, <2>2, <4>2
    <3>3. Lack = "no element type"
      BY <1>4, <2>2, <3>1, <3>2 DEF Lack
    <3>4. QED BY <1>1, <3>3
  <2>3. QED BY <2>1, <2>2
<1>8. Inner.kind = "base" => Inner.size # 0
  <2>1. CASE Inner.kind = "base" /\ Inner.size = 0
    <3>1. ~(Now.depth > MaxDepth) /\ ~(Inner.kind = "absent") /\ ~(Inner.kind = "array")
      BY <1>3, <1>4, <2>1, BoundsAssumption
    <3>2. Lack = "no size"
      BY <1>4, <2>1, <3>1 DEF Lack
    <3>3. QED BY <1>1, <3>2
  <2>2. QED BY <2>1
<1>9. QED BY <1>1, <1>2, <1>3, <1>4, <1>5, <1>6, <1>7, <1>8

\* How a union is used fits it.
LEMMA UseFacts ==
    ASSUME Compiles, job \in Jobs, NEW key
    PROVE  LET use == UseOf(job.unions, ChainEnd(Types, key))
           IN  /\ use.how \in {"keep", "drop", "tag", "undeclared"}
               /\ use.how # "undeclared" => IsUse(use) /\ UseFits(Types, Types[ChainEnd(Types, key)], use)
               /\ use.how = "tag" => Resolve(Types, key).kind = "union"
<1> DEFINE end == ChainEnd(Types, key)
           use == UseOf(job.unions, end)
<1>1. CASE end \in DOMAIN job.unions
  <2>1. use = job.unions[end]
    BY <1>1 DEF UseOf
  <2>2. IsUse(use) /\ Node(Types, end).kind = "union" /\ UseFits(Types, Types[end], use)
    BY <1>1, <2>1, JobsAssumption DEF Compiles
  <2>3. use.how \in {"keep", "drop", "tag"}
    BY <2>2 DEF IsUse
  <2>4. Resolve(Types, key).kind = "union"
    BY <2>2 DEF Resolve
  <2>5. QED BY <2>2, <2>3, <2>4
<1>2. CASE end \notin DOMAIN job.unions
  BY <1>2 DEF UseOf, Undeclared
<1>3. QED BY <1>1, <1>2

LEMMA PathsFacts ==
    ASSUME NEW column, NEW dims \in Seq(Nat)
    PROVE  /\ IsSeq(Paths(column, dims)) /\ Len(Paths(column, dims)) = Product(dims) /\ Product(dims) \in Nat
           /\ \A p \in 1 .. Product(dims) : Paths(column, dims)[p] = column \o Index(dims, p - 1)
<1> DEFINE paths == Paths(column, dims)
           N == Product(dims)
<1>1. N \in Nat
  BY ProductType
<1>2. paths = [p \in 1 .. N |-> column \o Index(dims, p - 1)]
  BY DEF Paths
<1> HIDE DEF N, paths
<1>3. paths = [p \in 1 .. N |-> paths[p]]
  BY <1>2
<1>4. IsSeq(paths) /\ Len(paths) = N
  BY <1>1, <1>3, IsSeqFrom
<1>5. QED BY <1>1, <1>2, <1>4 DEF N, paths

LEMMA One ==
    ASSUME NEW e
    PROVE  IsSeq(<<e>>) /\ Len(<<e>>) = 1 /\ <<e>>[1] = e /\ Range(<<e>>) = {e}
<1>1. <<e>> \in Seq({e}) /\ Len(<<e>>) = 1 /\ <<e>>[1] = e /\ DOMAIN <<e>> = 1 .. 1
  OBVIOUS
<1>2. IsSeq(<<e>>)
  BY <1>1, IsSeqOf
<1>3. QED BY <1>1, <1>2 DEF Range

LEMMA None ==
    IsSeq(<<>>) /\ Len(<<>>) = 0 /\ Range(<<>>) = {}
BY DEF IsSeq, Range

LEMMA WalkBitsAdds ==
    ASSUME Typed, WalkBits
    PROVE  Adds(<<Now.column>>, Now.bit \div 8, BitsWidth(Now.bit, Now.bits))
<1>1. /\ status = "walking" /\ todo # <<>> /\ Now.what = "piece" /\ Now.bits # NoSize
      /\ AddField(<<Now.column>>, Now.bit \div 8, BitsWidth(Now.bit, Now.bits))
  BY DEF WalkBits
<1>2. IsPiece(Now, lists, Message.size) /\ Message.size \in Nat
  BY <1>1, NowFacts
<1>3. Now.bit \in Nat /\ Now.bits \in Nat /\ Now.bit + Now.bits <= Message.size * 8
  BY <1>1, <1>2 DEF IsPiece
<1>4. /\ Now.bit \div 8 \in Nat /\ BitsWidth(Now.bit, Now.bits) \in Nat
      /\ Now.bit \div 8 + BitsWidth(Now.bit, Now.bits) <= Message.size
  <2> DEFINE bit == Now.bit
             bits == Now.bits
             size == Message.size
  <2>1. bit \in Nat /\ bits \in Nat /\ size \in Nat /\ bit + bits <= size * 8
    BY <1>2, <1>3
  <2> HIDE DEF bit, bits, size
  <2>2. bit \div 8 \in Nat /\ BitsWidth(bit, bits) \in Nat /\ bit \div 8 + BitsWidth(bit, bits) <= size
    BY <2>1, BitsLie
  <2>3. QED BY <2>2 DEF bit, bits, size
<1> DEFINE at == Now.bit \div 8
           each == BitsWidth(Now.bit, Now.bits)
<1>5. at \in Nat /\ each \in Nat /\ at + 1 * each <= Message.size
  BY <1>4
<1> HIDE DEF at, each
<1>6. IsSeq(<<Now.column>>) /\ Len(<<Now.column>>) = 1
  BY One
<1>7. QED BY <1>1, <1>5, <1>6 DEF Adds, at, each

LEMMA WalkScalarAdds ==
    ASSUME Typed, WalkScalar
    PROVE  Adds(<<Now.column>>, Now.at, Inner.size)
<1>1. Walking({"base", "enum", "pointer"}) /\ AddField(<<Now.column>>, Now.at, Inner.size)
  BY DEF WalkScalar
<1>2. status = "walking" /\ todo # <<>> /\ Now.what = "piece"
  BY <1>1 DEF Walking
<1>3. Now.at \in Nat /\ Inner.size \in Nat /\ Now.at + Inner.size <= Message.size
  BY <1>1, WalkingFacts
<1>4. Now.at + 1 * Inner.size <= Message.size
  BY <1>3
<1>5. IsSeq(<<Now.column>>) /\ Len(<<Now.column>>) = 1
  BY One
<1>6. QED BY <1>1, <1>2, <1>3, <1>4, <1>5 DEF Adds

LEMMA AddTextAdds ==
    ASSUME Typed, AddText
    PROVE  Adds(<<Now.column>>, Now.at, Now.width)
<1>1. /\ status = "walking" /\ todo # <<>> /\ Now.what = "text"
      /\ AddField(<<Now.column>>, Now.at, Now.width)
  BY DEF AddText
<1>2. Now.at \in Nat /\ Now.width \in Nat /\ Now.at + Now.width <= Message.size
  BY <1>1, NowFacts DEF IsText1
<1>3. Now.at + 1 * Now.width <= Message.size
  BY <1>2
<1>4. IsSeq(<<Now.column>>) /\ Len(<<Now.column>>) = 1
  BY One
<1>5. QED BY <1>1, <1>2, <1>3, <1>4 DEF Adds

\* An array that is walked.
LEMMA ArrayFacts ==
    ASSUME Typed, Walking({"array"})
    PROVE  /\ Inner.dims \in Seq(Nat) /\ Inner.dims # <<>> /\ Product(Inner.dims) \in Nat
           /\ Elem.size \in Nat \ {0} /\ Elem.size = SizeOr0(Types, Inner.elem)
           /\ Product(Inner.dims) * Elem.size <= Inner.size
           /\ Now.at + Product(Inner.dims) * Elem.size <= Message.size
           /\ Now.at \in Nat /\ Inner.size \in Nat /\ Message.size \in Nat
           /\ IsSeq(Elements(Inner, Elem.size)) /\ \A m \in Range(Elements(Inner, Elem.size)) : Laid(m, Inner.size)
           /\ Range(Elements(Inner, Elem.size)) = {Element(Inner, Elem.size, p) : p \in 1 .. Product(Inner.dims)}
<1>1. /\ Resolve(Types, Now.type).kind = "array" /\ SizeOr0(Types, Resolve(Types, Now.type).elem) > 0
      /\ Now.at \in Nat /\ Inner.size \in Nat /\ Message.size \in Nat /\ Now.at + Inner.size <= Message.size
  <2>1. Inner.kind \in {"array"} /\ (Inner.kind = "array" => SizeOr0(Types, Inner.elem) > 0)
    BY WalkingFacts
  <2>2. Inner.kind = "array"
    BY <2>1
  <2>3. Now.at \in Nat /\ Inner.size \in Nat /\ Message.size \in Nat /\ Now.at + Inner.size <= Message.size
    BY WalkingFacts
  <2>4. QED BY <2>1, <2>2, <2>3 DEF Inner
<1>2. /\ Inner.dims \in Seq(Nat) /\ Inner.dims # <<>> /\ Product(Inner.dims) \in Nat
      /\ Elem.size \in Nat \ {0} /\ Elem.size = SizeOr0(Types, Inner.elem)
      /\ Product(Inner.dims) * Elem.size <= Inner.size
      /\ IsSeq(Elements(Inner, Elem.size)) /\ \A m \in Range(Elements(Inner, Elem.size)) : Laid(m, Inner.size)
      /\ Range(Elements(Inner, Elem.size)) = {Element(Inner, Elem.size, p) : p \in 1 .. Product(Inner.dims)}
  BY <1>1, ElementsFacts DEF Inner, Elem
<1> DEFINE whole == Product(Inner.dims) * Elem.size
<1>3. whole \in Nat /\ whole <= Inner.size
  BY <1>2
<1> HIDE DEF whole
<1>4. Now.at + whole <= Message.size
  BY <1>1, <1>3
<1>5. QED BY <1>1, <1>2, <1>4 DEF whole

LEMMA WalkVectorAdds ==
    ASSUME Typed, WalkVector
    PROVE  Adds(Paths(Now.column, Inner.dims), Now.at, Elem.size)
<1>1. Walking({"array"}) /\ AddField(Paths(Now.column, Inner.dims), Now.at, Elem.size)
  BY DEF WalkVector
<1>2. status = "walking" /\ todo # <<>> /\ Now.what = "piece"
  BY <1>1 DEF Walking
<1>3. /\ Inner.dims \in Seq(Nat) /\ Elem.size \in Nat /\ Now.at \in Nat
      /\ Now.at + Product(Inner.dims) * Elem.size <= Message.size
  BY <1>1, ArrayFacts
<1>4. IsSeq(Paths(Now.column, Inner.dims)) /\ Len(Paths(Now.column, Inner.dims)) = Product(Inner.dims)
  BY <1>3, PathsFacts
<1>5. QED BY <1>1, <1>2, <1>3, <1>4 DEF Adds

LEMMA DropOpens ==
    ASSUME Typed, Drop
    PROVE  Opens(<<>>)
<1>1. /\ status = "walking" /\ todo # <<>> /\ Now.what = "piece" /\ Lack # "none"
      /\ dropped' = dropped \cup {[column |-> Now.column, under |-> Now.column, reason |-> Lack]}
      /\ Replace(<<>>)
      /\ UNCHANGED <<job, status, made, lists, used, headerSize, packet, row>>
  BY DEF Drop
<1>2. Lack \in REASONS
  BY <1>1 DEF Lack, REASONS
<1>3. \A d \in dropped : d.reason \in REASONS
  BY DEF Typed
<1>4. dropped \subseteq dropped' /\ \A d \in dropped' : d.reason \in REASONS
  BY <1>1, <1>2, <1>3
<1>5. QED BY <1>1, <1>4, None DEF Opens

\* The members of what is walked, or those of a union that were asked for.
Chosen1 == IF Inner.kind = "struct" THEN Inner.members ELSE UnionMembers(Types, Inner, Use, job.unionBytes)

\* The members of a struct, or of a union, that is walked.
LEMMA InnerFacts ==
    ASSUME Typed, Walking({"struct", "union"})
    PROVE  /\ IsComposite(Inner) /\ IsSeq(Inner.members) /\ Range(Inner.members) \subseteq Members
           /\ \A m \in Range(Inner.members) : Laid(m, Inner.size)
           /\ Inner.size \in Nat /\ Now.at \in Nat /\ Message.size \in Nat /\ Now.at + Inner.size <= Message.size
           /\ Now.into \in 1 .. lists /\ lists \in Nat /\ Now.depth + 1 \in Nat \ {0}
<1>1. /\ Inner.kind \in {"struct", "union"}
      /\ Inner.size \in Nat /\ Now.at \in Nat /\ Message.size \in Nat /\ Now.at + Inner.size <= Message.size
      /\ Now.into \in 1 .. lists /\ lists \in Nat /\ Now.depth \in Nat
  BY WalkingFacts
<1>2. IsComposite(Resolve(Types, Now.type))
  BY <1>1 DEF IsComposite, Inner
<1>3. /\ IsSeq(Inner.members) /\ Range(Inner.members) \subseteq Members
      /\ \A m \in Range(Inner.members) : FitsIn(m, 0, Inner.size)
  BY <1>2, CompositeFacts DEF Inner
<1>4. \A m \in Range(Inner.members) : m.offset \in Nat /\ m.bits \in {NoSize} \cup (Nat \ {0}) /\ FirstBit(m) \in Nat
  BY <1>3, MembersAre
<1>5. QED BY <1>1, <1>2, <1>3, <1>4 DEF Laid, Inner

LEMMA Chosen1Facts ==
    ASSUME Typed, Walking({"struct", "union"}), Inner.kind = "union" => Use.how # "tag"
    PROVE  /\ IsSeq(Chosen1) /\ Range(Chosen1) \subseteq Range(Inner.members)
           /\ Range(Chosen1) = IF Inner.kind = "struct" THEN Range(Inner.members) ELSE AskedFor(Inner, Use)
<1>1. Inner.kind \in {"struct", "union"} /\ IsSeq(Inner.members)
  BY WalkingFacts, InnerFacts
<1>2. CASE Inner.kind = "struct"
  BY <1>1, <1>2 DEF Chosen1
<1>3. CASE Inner.kind # "struct"
  <2>1. Use.how \in {"keep", "drop", "undeclared"}
    <3>1. status = "walking" /\ Inner.kind = "union"
      BY <1>1, <1>3 DEF Walking
    <3>2. Compiles /\ job \in Jobs
      BY <3>1 DEF Typed
    <3>3. QED BY <3>1, <3>2, UseFacts DEF Use
  <2>2. IsSeq(Chosen1) /\ Range(Chosen1) = AskedFor(Inner, Use)
    BY <1>1, <1>3, <2>1, UnionMembersFacts DEF Chosen1
  <2>3. AskedFor(Inner, Use) \subseteq Range(Inner.members)
    BY DEF AskedFor
  <2>4. QED BY <1>3, <2>2, <2>3
<1>4. QED BY <1>2, <1>3

LEMMA WalkMembersOpens ==
    ASSUME Typed, WalkMembers
    PROVE  Opens(Pieces(Chosen1, Now.column, Now.at, Now.depth + 1, Now.into))
<1>1. /\ Walking({"struct", "union"}) /\ (Inner.kind = "union" => Use.how # "tag")
      /\ Replace(Pieces(Chosen1, Now.column, Now.at, Now.depth + 1, Now.into))
      /\ UNCHANGED <<job, status, made, lists, used, dropped, headerSize, packet, row>>
  BY DEF WalkMembers, Chosen1
<1>2. status = "walking" /\ todo # <<>> /\ Now.what = "piece"
  BY <1>1 DEF Walking
<1>3. /\ IsSeq(Chosen1) /\ \A m \in Range(Chosen1) : Laid(m, Inner.size)
      /\ Inner.size \in Nat /\ Now.at \in Nat /\ Message.size \in Nat /\ Now.at + Inner.size <= Message.size
      /\ Now.into \in 1 .. lists /\ lists \in Nat /\ Now.depth + 1 \in Nat \ {0}
  BY <1>1, Chosen1Facts, InnerFacts
<1> DEFINE pieces == Pieces(Chosen1, Now.column, Now.at, Now.depth + 1, Now.into)
<1>4. IsSeq(pieces) /\ \A t \in Range(pieces) : \E m \in Range(Chosen1) : t = Piece(m, Now.column, Now.at, Now.depth + 1, Now.into)
  BY <1>3, PiecesFacts
<1>5. \A t \in Range(pieces) : IsPiece(t, lists, Message.size) /\ t.into = Now.into
  <2>1. \A m : Piece(m, Now.column, Now.at, Now.depth + 1, Now.into).into = Now.into
    BY DEF Piece
  <2>2. \A m \in Range(Chosen1) : IsPiece(Piece(m, Now.column, Now.at, Now.depth + 1, Now.into), lists, Message.size)
    BY <1>3, <1>4, PieceFacts
  <2> HIDE DEF pieces
  <2>3. QED BY <1>4, <2>1, <2>2
<1>6. \A d \in dropped' : d.reason \in REASONS
  BY <1>1 DEF Typed
<1> HIDE DEF pieces
<1>7. QED BY <1>1, <1>2, <1>4, <1>5, <1>6 DEF Opens, pieces

LEMMA WalkElementsOpens ==
    ASSUME Typed, WalkElements
    PROVE  Opens(Pieces(Elements(Inner, Elem.size), Now.column, Now.at, Now.depth + 1, Now.into))
<1> DEFINE elements == Elements(Inner, Elem.size)
<1>1. /\ Walking({"array"})
      /\ Replace(Pieces(elements, Now.column, Now.at, Now.depth + 1, Now.into))
      /\ UNCHANGED <<job, status, made, lists, used, dropped, headerSize, packet, row>>
  BY DEF WalkElements
<1>2. status = "walking" /\ todo # <<>> /\ Now.what = "piece"
  BY <1>1 DEF Walking
<1>3. /\ IsSeq(elements) /\ \A m \in Range(elements) : Laid(m, Inner.size)
      /\ Inner.size \in Nat /\ Now.at \in Nat /\ Message.size \in Nat
  BY <1>1, ArrayFacts
<1>4. Now.at + Inner.size <= Message.size /\ Now.into \in 1 .. lists /\ lists \in Nat /\ Now.depth + 1 \in Nat \ {0}
  BY <1>1, WalkingFacts
<1> DEFINE pieces == Pieces(elements, Now.column, Now.at, Now.depth + 1, Now.into)
<1> HIDE DEF elements
<1>5. IsSeq(pieces) /\ \A t \in Range(pieces) : \E m \in Range(elements) : t = Piece(m, Now.column, Now.at, Now.depth + 1, Now.into)
  BY <1>3, PiecesFacts
<1>6. \A t \in Range(pieces) : IsPiece(t, lists, Message.size) /\ t.into = Now.into
  <2>1. \A m : Piece(m, Now.column, Now.at, Now.depth + 1, Now.into).into = Now.into
    BY DEF Piece
  <2>2. \A m \in Range(elements) : IsPiece(Piece(m, Now.column, Now.at, Now.depth + 1, Now.into), lists, Message.size)
    BY <1>3, <1>4, PieceFacts
  <2> HIDE DEF pieces
  <2>3. QED BY <1>5, <2>1, <2>2
<1>7. \A d \in dropped' : d.reason \in REASONS
  BY <1>1 DEF Typed
<1> HIDE DEF pieces
<1>8. QED BY <1>1, <1>2, <1>5, <1>6, <1>7 DEF Opens, pieces, elements

LEMMA WalkTextOpens ==
    ASSUME Typed, WalkText
    PROVE  Opens(Rows(Inner, Now.column, Now.at, Now.into))
<1> DEFINE rows == Rows(Inner, Now.column, Now.at, Now.into)
<1>1. /\ Walking({"array"}) /\ Replace(rows) /\ IsChar(Elem)
      /\ UNCHANGED <<job, status, made, lists, used, dropped, headerSize, packet, row>>
  BY DEF WalkText, TextArray
<1>2. status = "walking" /\ todo # <<>> /\ Now.what = "piece"
  BY <1>1 DEF Walking
<1>3. /\ Inner.dims \in Seq(Nat) /\ Inner.dims # <<>> /\ Now.at \in Nat /\ Message.size \in Nat
      /\ Now.at + Product(Inner.dims) * Elem.size <= Message.size /\ Product(Inner.dims) \in Nat
  BY <1>1, ArrayFacts
<1>4. Now.into \in 1 .. lists /\ lists \in Nat
  BY <1>1, WalkingFacts
<1>5. Elem.size = 1
  BY <1>1 DEF IsChar
<1>6. Now.at + Product(Inner.dims) <= Message.size
  BY <1>3, <1>5
<1>7. IsSeq(rows) /\ \A t \in Range(rows) : \E p \in 1 .. Product(Front(Inner.dims)) :
                           t = RowText(Inner, Now.column, Now.at, Now.into, p)
  <2> DEFINE node == Inner
             column == Now.column
             at == Now.at
             into == Now.into
  <2>1. node.dims \in Seq(Nat) /\ node.dims # <<>> /\ at \in Nat
    BY <1>3
  <2> HIDE DEF node, column, at, into
  <2>2. IsSeq(Rows(node, column, at, into))
    BY ONLY <2>1, RowsFacts
  <2>3. \A t \in Range(Rows(node, column, at, into)) : \E p \in 1 .. Product(Front(node.dims)) :
           t = RowText(node, column, at, into, p)
    BY ONLY <2>1, RowsFacts
  <2>4. QED BY <2>2, <2>3 DEF node, column, at, into
<1>8. \A t \in Range(rows) : IsText1(t, lists, Message.size) /\ t.into = Now.into
  <2>1. \A p \in 1 .. Product(Front(Inner.dims)) :
            LET t == RowText(Inner, Now.column, Now.at, Now.into, p)
            IN  IsText1(t, lists, Message.size) /\ t.into = Now.into
    BY <1>3, <1>4, <1>6, RowLies
  <2> HIDE DEF rows
  <2>2. QED BY <1>7, <2>1
<1>9. \A d \in dropped' : d.reason \in REASONS
  BY <1>1 DEF Typed
<1> HIDE DEF rows
<1>10. QED BY <1>1, <1>2, <1>7, <1>8, <1>9 DEF Opens, rows

\* The tagged union that is walked, worked out.
Plan == PlanUnion(Types, Inner, Use)

Always == Pieces(Plan.always, Now.column, Now.at, Now.depth + 1, Now.into)

Alternative(j) == Piece(Plan.alternatives[j].member, Now.column, Now.at, Now.depth + 1, lists + j)

Alternatives == [j \in DOMAIN Plan.alternatives |-> Alternative(j)]

Together(f) == [what |-> "switch", at |-> f.at, width |-> f.width, from |-> Now.at + Plan.from,
                to |-> Now.at + Plan.to, first |-> lists, into |-> Now.into,
                values |-> [j \in DOMAIN Plan.alternatives |-> Plan.alternatives[j].values]]

\* What PlanFacts says of it.
LEMMA TaggedFacts ==
    ASSUME Typed, Walking({"union"}), Use.how = "tag"
    PROVE  /\ IsSeq(Plan.always)
           /\ Range(Plan.always) = {m \in Range(Inner.members) : m.name \in Use.names \cup {Use.tag[1]}}
           /\ IsSeq(Plan.alternatives)
           /\ \A j \in 1 .. Len(Plan.alternatives) : Plan.alternatives[j].member \in Range(Inner.members)
           /\ \A c \in Range(Use.cases) : \E j \in 1 .. Len(Plan.alternatives) :
                 Plan.alternatives[j].member = Member(Inner, c.member)
           /\ \A j \in 1 .. Len(Plan.alternatives) : \E c \in Range(Use.cases) :
                 Plan.alternatives[j].member = Member(Inner, c.member) /\ c.member \in NamedMembers(Inner)
           /\ Member(Inner, Use.tag[1]) \in Range(Inner.members)
           /\ Plan.from = Member(Inner, Use.tag[1]).offset
           /\ Plan.to = Plan.from + SizeOr0(Types, Member(Inner, Use.tag[1]).type)
           /\ Plan.from \in Nat /\ Plan.to \in Nat
           /\ \A f \in TagField(Types, Plan.tag, Now.at) :
                 f.at \in Nat /\ f.width \in Nat /\ f.at + f.width <= Message.size
           /\ IsUse(Use) /\ UseFits(Types, Inner, Use)
           /\ IsSeq(Inner.members) /\ \A m \in Range(Inner.members) : Laid(m, Inner.size)
           /\ Inner.size \in Nat /\ Now.at \in Nat /\ Message.size \in Nat /\ Now.at + Inner.size <= Message.size
           /\ Now.into \in 1 .. lists /\ lists \in Nat \ {0} /\ Now.depth + 1 \in Nat \ {0}
           /\ Inner.kind = "union" /\ WellFormed(Inner)
<1>1. /\ Inner.kind = "union" /\ Inner.size \in Nat /\ Now.at \in Nat /\ Message.size \in Nat
      /\ Now.at + Inner.size <= Message.size /\ Now.into \in 1 .. lists /\ lists \in Nat \ {0} /\ Now.depth \in Nat
  BY WalkingFacts
<1>2. IsSeq(Inner.members) /\ Range(Inner.members) \subseteq Members /\ \A m \in Range(Inner.members) : Laid(m, Inner.size)
  <2>1. IsComposite(Resolve(Types, Now.type))
    BY <1>1 DEF IsComposite, Inner
  <2>2. /\ IsSeq(Inner.members) /\ Range(Inner.members) \subseteq Members
        /\ \A m \in Range(Inner.members) : FitsIn(m, 0, Inner.size)
    BY <2>1, CompositeFacts DEF Inner
  <2>3. \A m \in Range(Inner.members) : m.offset \in Nat /\ m.bits \in {NoSize} \cup (Nat \ {0}) /\ FirstBit(m) \in Nat
    BY <2>2, MembersAre
  <2>4. QED BY <2>2, <2>3 DEF Laid
<1>3. IsUse(Use) /\ UseFits(Types, Inner, Use) /\ WellFormed(Inner)
  <2>1. Compiles /\ job \in Jobs
    BY DEF Typed, Walking
  <2>2. IsUse(Use) /\ UseFits(Types, Types[ChainEnd(Types, Now.type)], Use)
    BY <2>1, UseFacts DEF Use
  <2>3. Resolve(Types, Now.type).kind # "absent"
    BY <1>1 DEF Inner
  <2>4. Inner = Types[ChainEnd(Types, Now.type)] /\ WellFormed(Inner)
    BY <2>3, ResolveFacts DEF Inner
  <2>5. QED BY <2>2, <2>4
<1>4. Resolve(Types, Now.type) = Inner
  BY DEF Inner
<1> DEFINE key == Now.type
           use == Use
           node == Resolve(Types, key)
           plan == PlanUnion(Types, node, use)
           head == Member(node, use.tag[1])
<1>5. node.kind = "union" /\ IsUse(use) /\ use.how = "tag" /\ UseFits(Types, node, use)
  BY <1>1, <1>3, <1>4
<1>6. node = Inner /\ plan = Plan /\ head = Member(Inner, Use.tag[1])
  BY <1>4 DEF Plan
<1> HIDE DEF key, use
<1>7. /\ IsSeq(plan.always)
      /\ Range(plan.always) = {m \in Range(node.members) : m.name \in use.names \cup {use.tag[1]}}
      /\ IsSeq(plan.alternatives)
      /\ \A j \in 1 .. Len(plan.alternatives) : plan.alternatives[j].member \in Range(node.members)
      /\ \A c \in Range(use.cases) : \E j \in 1 .. Len(plan.alternatives) :
            plan.alternatives[j].member = Member(node, c.member)
      /\ \A j \in 1 .. Len(plan.alternatives) : \E c \in Range(use.cases) :
            plan.alternatives[j].member = Member(node, c.member) /\ c.member \in NamedMembers(node)
      /\ head \in Range(node.members)
      /\ plan.from = head.offset /\ plan.to = head.offset + SizeOr0(Types, head.type)
      /\ plan.from \in Nat /\ plan.to \in Nat
      /\ plan.tag.offset \in Nat /\ plan.tag.bits \in {NoSize} \cup (Nat \ {0})
      /\ FirstBit(plan.tag) \in Nat /\ FitsIn(plan.tag, 0, node.size)
  BY ONLY <1>5, PlanFacts
<1> HIDE DEF node, plan, head
<1>8. \A f \in TagField(Types, plan.tag, Now.at) : f.at \in Nat /\ f.width \in Nat /\ f.at + f.width <= Message.size
  <2>1. SUFFICES ASSUME NEW f \in TagField(Types, plan.tag, Now.at)
                 PROVE  f.at \in Nat /\ f.width \in Nat /\ f.at + f.width <= Message.size
    OBVIOUS
  <2> DEFINE tag == plan.tag
             at == Now.at
             size == node.size
  <2>2. /\ at \in Nat /\ size \in Nat /\ FitsIn(tag, 0, size) /\ tag.offset \in Nat
        /\ tag.bits \in {NoSize} \cup (Nat \ {0}) /\ FirstBit(tag) \in Nat /\ f \in TagField(Types, tag, at)
    BY <1>1, <1>6, <1>7, <2>1
  <2>3. at + size <= Message.size /\ Message.size \in Nat
    BY <1>1, <1>6
  <2> HIDE DEF tag, at, size
  <2>4. f.at \in Nat /\ f.width \in Nat /\ f.at + f.width <= at + size
    BY ONLY <2>2, TagFieldLies
  <2>5. QED BY <2>2, <2>3, <2>4
<1>9. use = Use
  BY DEF use
<1>10. Now.depth + 1 \in Nat \ {0}
  BY <1>1
<1>11. QED BY <1>1, <1>2, <1>3, <1>6, <1>7, <1>8, <1>9, <1>10

LEMMA AlwaysFacts ==
    ASSUME Typed, Walking({"union"}), Use.how = "tag"
    PROVE  /\ IsSeq(Always) /\ \A t \in Range(Always) : IsPiece(t, lists, Message.size) /\ t.into = Now.into
           /\ \A t \in Range(Always) : \E m \in Range(Plan.always) :
                 t = Piece(m, Now.column, Now.at, Now.depth + 1, Now.into)
           /\ \A m \in Range(Plan.always) : Piece(m, Now.column, Now.at, Now.depth + 1, Now.into) \in Range(Always)
<1>1. /\ IsSeq(Plan.always) /\ \A m \in Range(Plan.always) : Laid(m, Inner.size)
      /\ Inner.size \in Nat /\ Now.at \in Nat /\ Message.size \in Nat /\ Now.at + Inner.size <= Message.size
      /\ Now.into \in 1 .. lists /\ lists \in Nat \ {0} /\ Now.depth + 1 \in Nat \ {0}
  BY TaggedFacts
<1>2. /\ IsSeq(Always)
      /\ \A t \in Range(Always) : \E m \in Range(Plan.always) :
            t = Piece(m, Now.column, Now.at, Now.depth + 1, Now.into)
      /\ \A m \in Range(Plan.always) : Piece(m, Now.column, Now.at, Now.depth + 1, Now.into) \in Range(Always)
  BY <1>1, PiecesFacts DEF Always
<1>3. \A m : Piece(m, Now.column, Now.at, Now.depth + 1, Now.into).into = Now.into
  BY DEF Piece
<1>4. \A m \in Range(Plan.always) : IsPiece(Piece(m, Now.column, Now.at, Now.depth + 1, Now.into), lists, Message.size)
  BY <1>1, PieceFacts
<1>5. QED BY <1>2, <1>3, <1>4

LEMMA AlternativesFacts ==
    ASSUME Typed, Walking({"union"}), Use.how = "tag"
    PROVE  /\ IsSeq(Alternatives) /\ Len(Alternatives) = Len(Plan.alternatives)
           /\ \A j \in 1 .. Len(Alternatives) : /\ Alternatives[j] = Alternative(j)
                                                /\ IsPiece(Alternatives[j], lists + Len(Alternatives), Message.size)
                                                /\ Alternatives[j].into = lists + j
<1> DEFINE n == Len(Plan.alternatives)
<1>1. /\ IsSeq(Plan.alternatives) /\ \A j \in 1 .. n : Laid(Plan.alternatives[j].member, Inner.size)
      /\ Inner.size \in Nat /\ Now.at \in Nat /\ Message.size \in Nat /\ Now.at + Inner.size <= Message.size
      /\ lists \in Nat \ {0} /\ Now.depth + 1 \in Nat \ {0}
  BY TaggedFacts
<1>2. n \in Nat /\ DOMAIN Plan.alternatives = 1 .. n
  BY <1>1, IsSeqFacts
<1>3. Alternatives = [j \in 1 .. n |-> Alternative(j)]
  BY <1>2 DEF Alternatives
<1> HIDE DEF n
<1>4. Alternatives = [j \in 1 .. n |-> Alternatives[j]]
  BY <1>3
<1>5. IsSeq(Alternatives) /\ Len(Alternatives) = n
  BY <1>2, <1>4, IsSeqFrom
<1>6. ASSUME NEW j \in 1 .. n
      PROVE  IsPiece(Alternative(j), lists + n, Message.size) /\ Alternative(j).into = lists + j
  <2>1. lists + j \in 1 .. lists + n /\ lists + n \in Nat
    BY <1>1, <1>2
  <2>2. Alternative(j).into = lists + j
    BY DEF Alternative, Piece
  <2>3. Laid(Plan.alternatives[j].member, Inner.size)
    BY <1>1
  <2>4. IsPiece(Alternative(j), lists + n, Message.size)
    BY <1>1, <2>1, <2>3, PieceFacts DEF Alternative
  <2>5. QED BY <2>2, <2>4
<1>7. QED BY <1>3, <1>5, <1>6 DEF n

LEMMA WalkTaggedOpens ==
    ASSUME Typed, WalkTagged
    PROVE  Opens(Always) \/ \E f \in TagField(Types, Plan.tag, Now.at) : Tags(Always, Alternatives, Together(f))
<1>1. Walking({"union"}) /\ Use.how = "tag" /\ UNCHANGED <<job, status, made, used, headerSize, packet, row>>
  BY DEF WalkTagged
<1>2. status = "walking" /\ todo # <<>> /\ Now.what = "piece"
  BY <1>1 DEF Walking
<1>3. /\ Replace(Always)
         /\ dropped' = dropped \cup {[column |-> Now.column \o FlattenSeq(Use.tag), under |-> Now.column, reason |-> "identifier"]}
         /\ UNCHANGED lists
      \/ \E f \in TagField(Types, Plan.tag, Now.at) :
            /\ Replace(Always \o Alternatives \o <<Together(f)>>)
            /\ lists' = lists + Len(Plan.alternatives)
            /\ UNCHANGED dropped
  BY DEF WalkTagged, Plan, Always, Alternatives, Alternative, Together
<1>4. /\ IsSeq(Always) /\ \A t \in Range(Always) : IsPiece(t, lists, Message.size) /\ t.into = Now.into
  BY <1>1, AlwaysFacts
<1>5. CASE /\ Replace(Always)
           /\ dropped' = dropped \cup {[column |-> Now.column \o FlattenSeq(Use.tag), under |-> Now.column, reason |-> "identifier"]}
           /\ UNCHANGED lists
  <2>1. dropped \subseteq dropped' /\ \A d \in dropped' : d.reason \in REASONS
    <3>1. "identifier" \in REASONS
      BY DEF REASONS
    <3>2. \A d \in dropped : d.reason \in REASONS
      BY DEF Typed
    <3> DEFINE d1 == [column |-> Now.column \o FlattenSeq(Use.tag), under |-> Now.column, reason |-> "identifier"]
    <3>3. d1.reason = "identifier" /\ dropped' = dropped \cup {d1}
      BY <1>5
    <3> HIDE DEF d1
    <3>4. QED BY <3>1, <3>2, <3>3
  <2>2. QED BY <1>1, <1>2, <1>4, <1>5, <2>1 DEF Opens
<1>6. ASSUME NEW f \in TagField(Types, Plan.tag, Now.at),
             Replace(Always \o Alternatives \o <<Together(f)>>),
             lists' = lists + Len(Plan.alternatives),
             UNCHANGED dropped
      PROVE  Tags(Always, Alternatives, Together(f))
  <2>1. /\ IsSeq(Alternatives) /\ Len(Alternatives) = Len(Plan.alternatives)
        /\ \A j \in 1 .. Len(Alternatives) : /\ IsPiece(Alternatives[j], lists + Len(Alternatives), Message.size)
                                             /\ Alternatives[j].into = lists + j
    BY <1>1, AlternativesFacts
  <2> DEFINE t == Together(f)
             n == Len(Alternatives)
  <2>2. /\ t.what = "switch" /\ t.at = f.at /\ t.width = f.width /\ t.from = Now.at + Plan.from
        /\ t.to = Now.at + Plan.to /\ t.first = lists /\ t.into = Now.into
        /\ t.values = [j \in DOMAIN Plan.alternatives |-> Plan.alternatives[j].values]
    BY DEF Together
  <2>3. n \in Nat
    BY <2>1, IsSeqFacts
  <2>4. IsSeq(t.values) /\ Len(t.values) = n
    <3>1. DOMAIN Plan.alternatives = 1 .. n
      BY <1>1, <2>1, TaggedFacts, IsSeqFacts
    <3>2. t.values = [j \in 1 .. n |-> t.values[j]]
      BY <2>2, <3>1
    <3> HIDE DEF n, t
    <3>3. QED BY <2>3, <3>2, IsSeqFrom
  <2> HIDE DEF n, t
  <2>5. /\ f.at \in Nat /\ f.width \in Nat /\ f.at + f.width <= Message.size
        /\ Plan.from \in Nat /\ Plan.to \in Nat /\ Now.at \in Nat /\ Now.into \in 1 .. lists /\ lists \in Nat \ {0}
    BY <1>1, TaggedFacts
  <2>6. Now.at + Plan.from \in Nat /\ Now.at + Plan.to \in Nat
    BY <2>5
  <2>7. lists \in 1 .. lists + n /\ lists + n <= lists + n
    BY <2>3, <2>5
  <2>8. IsSwitch(t, lists + n, Message.size)
    BY <2>2, <2>4, <2>5, <2>6, <2>7 DEF IsSwitch
  <2>9. QED BY <1>1, <1>2, <1>4, <1>6, <2>1, <2>2, <2>4, <2>8 DEF Tags, n, t
<1>7. QED BY <1>3, <1>5, <1>6

\* Every step of the walk is one of these, or makes a tagged union's field.
LEMMA WalkShapes ==
    ASSUME Typed, Walk
    PROVE  \/ \E paths, at, each : Adds(paths, at, each)
           \/ \E pieces : Opens(pieces)
           \/ \E always, alts, t : Tags(always, alts, t)
           \/ MakeSwitch
<1>1. CASE WalkBits
  BY <1>1, WalkBitsAdds
<1>2. CASE Drop
  BY <1>2, DropOpens
<1>3. CASE WalkScalar
  BY <1>3, WalkScalarAdds
<1>4. CASE WalkMembers
  BY <1>4, WalkMembersOpens
<1>5. CASE WalkTagged
  BY <1>5, WalkTaggedOpens
<1>6. CASE MakeSwitch
  BY <1>6
<1>7. CASE WalkText
  BY <1>7, WalkTextOpens
<1>8. CASE AddText
  BY <1>8, AddTextAdds
<1>9. CASE WalkVector
  BY <1>9, WalkVectorAdds
<1>10. CASE WalkElements
  BY <1>10, WalkElementsOpens
<1>11. QED BY <1>1, <1>2, <1>3, <1>4, <1>5, <1>6, <1>7, <1>8, <1>9, <1>10 DEF Walk

-----------------------------------------------------------------------------
(* Type correctness.                                                        *)

\* A name does not change as more are asked for.
LEMMA UniqueKeeps ==
    ASSUME NEW u, IsSeq(u), NEW paths, IsSeq(paths), NEW p \in 1 .. Len(u)
    PROVE  Unique(u \o paths, p) = Unique(u, p)
<1> DEFINE w == u \o paths
<1>1. /\ Len(u) \in Nat /\ \A i \in 1 .. Len(u) : w[i] = u[i]
  BY IsSeqConcat, IsSeqFacts
<1> HIDE DEF w
<1>2. \A i \in 1 .. p - 1 : w[i] = u[i]
  <2>1. \A i \in 1 .. p - 1 : i \in 1 .. Len(u)
    BY <1>1
  <2>2. QED BY <1>1, <2>1
<1>3. w[p] = u[p]
  BY <1>1
<1>4. {i \in 1 .. p - 1 : w[i] = w[p]} = {i \in 1 .. p - 1 : u[i] = u[p]}
  BY <1>2, <1>3
<1>5. QED BY <1>3, <1>4 DEF Unique, w

LEMMA GivenKeeps ==
    ASSUME IsSeq(used), NEW paths, IsSeq(paths), used' = used \o paths
    PROVE  /\ Given \subseteq Given' /\ IsSeq(used') /\ Len(used') = Len(used) + Len(paths)
           /\ Len(used) \in Nat /\ Len(paths) \in Nat
           /\ \A k \in 1 .. Len(paths) : Unique(used \o paths, Len(used) + k) \in Given'
           /\ \A k \in 1 .. Len(paths) : used'[Len(used) + k] = paths[k]
           /\ \A k \in 1 .. Len(used) : used'[k] = used[k]
<1> DEFINE w == used \o paths
<1>1. /\ IsSeq(w) /\ Len(w) = Len(used) + Len(paths)
      /\ \A i \in 1 .. Len(used) : w[i] = used[i]
      /\ \A i \in 1 .. Len(paths) : w[Len(used) + i] = paths[i]
  BY IsSeqConcat
<1>2. Len(used) \in Nat /\ Len(paths) \in Nat
  BY IsSeqFacts
<1>3. \A p \in 1 .. Len(used) : Unique(w, p) = Unique(used, p)
  BY UniqueKeeps
<1> HIDE DEF w
<1>4. used' = w
  BY DEF w
<1>5. Given' = {Unique(w, p) : p \in 1 .. Len(w)}
  BY <1>4 DEF Given
<1>6. \A p \in 1 .. Len(used) : p \in 1 .. Len(w)
  BY <1>1, <1>2
<1>7. \A k \in 1 .. Len(paths) : Len(used) + k \in 1 .. Len(w)
  BY <1>1, <1>2
<1>8. Given \subseteq Given'
  BY <1>3, <1>5, <1>6 DEF Given
<1>9. \A k \in 1 .. Len(paths) : Unique(w, Len(used) + k) \in Given'
  BY <1>5, <1>7
<1>10. QED BY <1>1, <1>2, <1>4, <1>8, <1>9 DEF w

LEMMA PlainNames ==
    ASSUME NEW u, NEW paths, IsSeq(paths), NEW at, NEW each, NEW into
    PROVE  LET f == Plain(u, paths, at, each, into)
           IN  /\ f.kind = "plain" /\ f.into = into /\ f.at = at /\ f.each = each
               /\ IsSeq(f.names) /\ Len(f.names) = Len(paths)
               /\ f.fields = <<>> /\ f.values = <<>>
<1> DEFINE f == Plain(u, paths, at, each, into)
           N == Len(paths)
<1>1. /\ f.kind = "plain" /\ f.at = at /\ f.each = each /\ f.into = into
      /\ f.fields = <<>> /\ f.values = <<>>
      /\ f.names = [k \in DOMAIN paths |-> Unique(u \o paths, Len(u) + k)]
  BY DEF Plain
<1>2. DOMAIN paths = 1 .. N /\ N \in Nat
  BY IsSeqFacts
<1> DEFINE names == f.names
<1>4. names = [k \in 1 .. N |-> names[k]]
  BY <1>1, <1>2
<1>5. IsSeq(names) /\ Len(names) = N
  <2> HIDE DEF names, N
  <2>1. QED BY <1>2, <1>4, IsSeqFrom
<1> HIDE DEF f
<1>6. QED BY <1>1, <1>5 DEF f

LEMMA PlainUnique ==
    ASSUME NEW u, NEW paths, IsSeq(paths), NEW at, NEW each, NEW into
    PROVE  \A k \in 1 .. Len(paths) : Plain(u, paths, at, each, into).names[k] = Unique(u \o paths, Len(u) + k)
<1>1. DOMAIN paths = 1 .. Len(paths)
  BY IsSeqFacts
<1>2. QED BY <1>1 DEF Plain

LEMMA PlainFacts ==
    ASSUME NEW u, NEW paths, IsSeq(paths), NEW at \in Nat, NEW each \in Nat, NEW n, NEW into \in 1 .. n,
           NEW size, at + Len(paths) * each <= size
    PROVE  IsField(Plain(u, paths, at, each, into), n, size)
<1> DEFINE f == Plain(u, paths, at, each, into)
<1>1. /\ f.kind = "plain" /\ f.into = into /\ f.at = at /\ f.each = each
      /\ IsSeq(f.names) /\ Len(f.names) = Len(paths)
      /\ f.fields = <<>> /\ f.values = <<>>
  <2> DEFINE a == at
             e == each
             g == Plain(u, paths, a, e, into)
  <2> HIDE DEF a, e
  <2>1. /\ g.kind = "plain" /\ g.into = into /\ g.at = a /\ g.each = e
        /\ IsSeq(g.names) /\ Len(g.names) = Len(paths)
        /\ g.fields = <<>> /\ g.values = <<>>
    BY PlainNames
  <2>2. QED BY <2>1 DEF a, e
<1>2. Len(paths) \in Nat /\ f.width = Len(paths) * each
  BY IsSeqFacts DEF Plain
<1> HIDE DEF f
<1>3. Len(paths) * each \in Nat
  BY <1>2
<1>4. IsSeq(f.fields) /\ IsSeq(f.values) /\ Len(f.values) = Len(f.fields)
  BY <1>1, None
<1>5. IsField(f, n, size)
  BY <1>1, <1>2, <1>3, <1>4 DEF IsField
<1>6. QED BY <1>5 DEF f

\* Some of the fields, in the order they were made.
LEMMA AsMadeFacts ==
    ASSUME NEW m, IsSeq(m), NEW some
    PROVE  LET kept == AsMade(m, some)
           IN  /\ IsSeq(kept) /\ Range(kept) = (1 .. Len(m)) \cap some /\ Len(kept) \in Nat /\ DOMAIN kept = 1 .. Len(kept)
               /\ \A k \in 1 .. Len(kept) : kept[k] \in 1 .. Len(m) /\ kept[k] \in some
               /\ \A a, b \in 1 .. Len(kept) : kept[a] = kept[b] => a = b
<1> DEFINE n == Len(m)
<1>1. n \in Nat /\ DOMAIN m = 1 .. n
  BY IsSeqFacts
<1>2. AsMade(m, some) = Keeping([i \in 1 .. n |-> i], some)
  BY <1>1 DEF AsMade
<1> HIDE DEF n
<1> DEFINE k == Keeping([i \in 1 .. n |-> i], some)
<1>3. /\ IsSeq(k) /\ Range(k) = (1 .. n) \cap some /\ Len(k) \in Nat /\ DOMAIN k = 1 .. Len(k)
      /\ \A a \in 1 .. Len(k) : k[a] \in (1 .. n) \cap some
      /\ \A a, b \in 1 .. Len(k) : k[a] = k[b] => a = b
  BY <1>1, KeepingNumbers
<1> HIDE DEF k
<1>4. QED BY <1>2, <1>3 DEF n, k

\* Their names.
LEMMA NamesOfFacts ==
    ASSUME NEW m, NEW A, NEW fields, IsSeq(fields),
           \A k \in 1 .. Len(fields) : m[fields[k]].names \in Seq(A)
    PROVE  /\ NamesOf(m, fields) \in Seq(A)
           /\ \A e : e \in Range(NamesOf(m, fields)) <=> \E k \in 1 .. Len(fields) : e \in Range(m[fields[k]].names)
<1> DEFINE n == Len(fields)
           ss == [k \in DOMAIN fields |-> m[fields[k]].names]
<1>1. n \in Nat /\ DOMAIN fields = 1 .. n
  BY IsSeqFacts
<1>2. NamesOf(m, fields) = FlattenSeq(ss)
  BY DEF NamesOf
<1>3. ss = [k \in 1 .. n |-> ss[k]] /\ \A k \in 1 .. n : ss[k] = m[fields[k]].names
  BY <1>1
<1> HIDE DEF ss, n
<1>4. IsSeq(ss) /\ Len(ss) = n
  BY <1>1, <1>3, IsSeqFrom
<1>5. \A k \in 1 .. Len(ss) : ss[k] \in Seq(A)
  BY <1>3, <1>4 DEF n
<1>6. /\ FlattenSeq(ss) \in Seq(A)
      /\ \A e : e \in Range(FlattenSeq(ss)) <=> \E k \in 1 .. Len(ss) : e \in Range(ss[k])
  BY <1>4, <1>5, FlattenRange
<1>7. QED BY <1>2, <1>3, <1>4, <1>6 DEF n

\* The fields that a tagged union's field takes its columns from.
Kept(t) == {r \in DOMAIN made : made[r].into - t.first \in DOMAIN t.values /\ ~InsideIdentifier(t, made[r])}

LEMMA SwitchFacts ==
    ASSUME Typed, MakeSwitch
    PROVE  LET f == Switch(made, Now)
           IN  /\ IsField(f, lists, Message.size) /\ f.kind = "switch" /\ f.into = Now.into /\ f.at = Now.at
               /\ f.names = NamesOf(made, f.fields) /\ f.names \in Seq(Given)
               /\ IsSeq(f.fields) /\ Range(f.fields) = Kept(Now)
               /\ \A k \in 1 .. Len(f.fields) : f.fields[k] \in 1 .. Len(made) /\ f.fields[k] \in Kept(Now)
               /\ \A a, b \in 1 .. Len(f.fields) : f.fields[a] = f.fields[b] => a = b
               /\ \A k \in 1 .. Len(f.fields) : f.values[k] = Now.values[made[f.fields[k]].into - Now.first]
<1> DEFINE f == Switch(made, Now)
           kept == AsMade(made, Kept(Now))
<1>1. IsSwitch(Now, lists, Message.size) /\ lists \in Nat \ {0} /\ IsSeq(made) /\ \A r \in 1 .. Len(made) : IsMade(r)
  <2>1. status = "walking" /\ todo # <<>> /\ Now.what = "switch"
    BY DEF MakeSwitch
  <2>2. IsSwitch(Now, lists, Message.size) /\ lists \in Nat \ {0}
    BY <2>1, NowFacts
  <2>3. QED BY <2>2 DEF Typed
<1>2. /\ f.kind = "switch" /\ f.names = NamesOf(made, kept) /\ f.at = Now.at /\ f.width = Now.width /\ f.each = 0
      /\ f.into = Now.into /\ f.fields = kept
      /\ f.values = [k \in DOMAIN kept |-> Now.values[made[kept[k]].into - Now.first]]
  BY DEF Switch, Kept
<1>3. Kept(Now) \subseteq 1 .. Len(made)
  <2>1. DOMAIN made = 1 .. Len(made)
    BY <1>1, IsSeqFacts
  <2>2. QED BY <2>1 DEF Kept
<1> HIDE DEF f
<1>4. /\ IsSeq(kept) /\ Range(kept) = Kept(Now) /\ Len(kept) \in Nat /\ DOMAIN kept = 1 .. Len(kept)
      /\ \A k \in 1 .. Len(kept) : kept[k] \in 1 .. Len(made) /\ kept[k] \in Kept(Now)
      /\ \A a, b \in 1 .. Len(kept) : kept[a] = kept[b] => a = b
  <2> DEFINE S == Kept(Now)
  <2>1. S \subseteq 1 .. Len(made)
    BY <1>3
  <2> HIDE DEF S
  <2>2. /\ IsSeq(AsMade(made, S)) /\ Range(AsMade(made, S)) = (1 .. Len(made)) \cap S
        /\ Len(AsMade(made, S)) \in Nat /\ DOMAIN AsMade(made, S) = 1 .. Len(AsMade(made, S))
        /\ \A k \in 1 .. Len(AsMade(made, S)) : AsMade(made, S)[k] \in 1 .. Len(made) /\ AsMade(made, S)[k] \in S
        /\ \A a, b \in 1 .. Len(AsMade(made, S)) : AsMade(made, S)[a] = AsMade(made, S)[b] => a = b
    BY <1>1, AsMadeFacts
  <2>3. QED BY <2>1, <2>2 DEF S
<1> HIDE DEF kept
<1>5. \A k \in 1 .. Len(kept) : made[kept[k]].names \in Seq(Given)
  BY <1>1, <1>4 DEF IsMade
<1>6. f.names \in Seq(Given) /\ IsSeq(f.names)
  <2>1. NamesOf(made, kept) \in Seq(Given)
    <3> DEFINE A == Given
    <3>1. \A k \in 1 .. Len(kept) : made[kept[k]].names \in Seq(A)
      BY <1>5
    <3> HIDE DEF A
    <3>2. NamesOf(made, kept) \in Seq(A)
      BY <1>4, <3>1, NamesOfFacts
    <3>3. QED BY <3>2 DEF A
  <2>2. QED BY <1>2, <2>1, IsSeqOf
<1>7. IsSeq(f.values) /\ Len(f.values) = Len(f.fields)
  <2> DEFINE values == f.values
             n == Len(kept)
  <2>1. n \in Nat /\ values = [k \in 1 .. n |-> values[k]]
    BY <1>2, <1>4
  <2> HIDE DEF values, n
  <2>2. IsSeq(values) /\ Len(values) = n
    BY <2>1, IsSeqFrom
  <2>3. QED BY <1>2, <2>2 DEF values, n
<1>8. \A k \in 1 .. Len(kept) : f.values[k] = Now.values[made[kept[k]].into - Now.first]
  BY <1>2, <1>4
<1>9. Now.at \in Nat /\ Now.width \in Nat /\ Now.into \in 1 .. lists /\ Now.at + Now.width <= Message.size
  <2>1. Now.at \in Nat /\ Now.width \in Nat /\ Now.into \in 1 .. Now.first /\ Now.first \in 1 .. lists
        /\ Now.at + Now.width <= Message.size
    BY <1>1 DEF IsSwitch
  <2>2. QED BY <1>1, <2>1
<1>10. IsField(f, lists, Message.size)
  BY <1>2, <1>4, <1>6, <1>7, <1>9 DEF IsField
<1>11. QED BY <1>2, <1>4, <1>6, <1>8, <1>10 DEF f

\* One field more.
LEMMA MadeOneMore ==
    ASSUME Typed, NEW f, made' = Append(made, f), UNCHANGED <<job, lists>>, Given \subseteq Given',
           IsField(f, lists, Message.size), f.names \in Seq(Given'),
           f.kind = "plain" => f.width = Len(f.names) * f.each,
           f.kind = "switch" => /\ \A k \in 1 .. Len(f.fields) : f.fields[k] \in 1 .. Len(made)
                                /\ f.names = NamesOf(made, f.fields)
    PROVE  /\ IsSeq(made') /\ Len(made') = Len(made) + 1 /\ Len(made) \in Nat
           /\ made'[Len(made) + 1] = f /\ \A r \in 1 .. Len(made) : made'[r] = made[r]
           /\ \A r \in 1 .. Len(made') : r \in 1 .. Len(made) \/ r = Len(made) + 1
           /\ \A r \in 1 .. Len(made') : IsMade(r)'
<1>1. IsSeq(made) /\ Len(made) \in Nat
  BY IsSeqFacts DEF Typed
<1> DEFINE m == Append(made, f)
<1>2. /\ IsSeq(m) /\ Len(m) = Len(made) + 1
      /\ m[Len(made) + 1] = f /\ \A r \in 1 .. Len(made) : m[r] = made[r]
  BY <1>1, IsSeqAppend
<1> HIDE DEF m
<1>3. made' = m
  BY DEF m
<1>4. Message' = Message
  BY DEF Message
<1>5. ASSUME NEW fields, IsSeq(fields), \A k \in 1 .. Len(fields) : fields[k] \in 1 .. Len(made)
      PROVE  NamesOf(m, fields) = NamesOf(made, fields)
  <2>1. DOMAIN fields = 1 .. Len(fields)
    BY <1>5, IsSeqFacts
  <2>2. \A k \in DOMAIN fields : m[fields[k]] = made[fields[k]]
    BY <1>2, <1>5, <2>1
  <2>3. QED BY <2>2 DEF NamesOf
<1>6. \A s : s \in Seq(Given) => s \in Seq(Given')
  OBVIOUS
<1>7. ASSUME NEW r \in 1 .. Len(made) PROVE IsMade(r)'
  <2>1. IsMade(r)
    BY DEF Typed
  <2>2. m[r] = made[r]
    BY <1>2
  <2>3. /\ IsField(made[r], lists, Message.size) /\ made[r].names \in Seq(Given)
        /\ made[r].kind = "plain" => made[r].width = Len(made[r].names) * made[r].each
        /\ made[r].kind = "switch" => /\ \A k \in 1 .. Len(made[r].fields) : made[r].fields[k] \in 1 .. r - 1
                                      /\ made[r].names = NamesOf(made, made[r].fields)
    BY <2>1 DEF IsMade
  <2>4. made[r].kind = "switch" => made[r].names = NamesOf(m, made[r].fields)
    <3>1. IsSeq(made[r].fields)
      BY <2>3 DEF IsField
    <3>2. \A k \in 1 .. r - 1 : k \in 1 .. Len(made)
      BY <1>1
    <3>3. QED BY <1>5, <2>3, <3>1, <3>2
  <2>5. made'[r] = made[r] /\ lists' = lists
    BY <1>3, <2>2
  <2>6. QED BY <1>3, <1>4, <1>6, <2>3, <2>4, <2>5 DEF IsMade
<1>8. ASSUME NEW r, r = Len(made) + 1 PROVE IsMade(r)'
  <2>1. made'[r] = f /\ lists' = lists /\ r - 1 = Len(made)
    BY <1>1, <1>2, <1>3, <1>8
  <2>2. f.kind = "switch" => f.names = NamesOf(m, f.fields)
    <3>1. IsSeq(f.fields)
      BY DEF IsField
    <3>2. QED BY <1>5, <3>1
  <2>3. QED BY <1>3, <1>4, <2>1, <2>2 DEF IsMade
<1>9. \A r \in 1 .. Len(m) : r \in 1 .. Len(made) \/ r = Len(made) + 1
  BY <1>1, <1>2
<1>10. QED BY <1>1, <1>2, <1>3, <1>7, <1>8, <1>9

LEMMA TypedAdds ==
    ASSUME Typed, NEW paths, NEW at, NEW each, Adds(paths, at, each)
    PROVE  Typed'
<1> DEFINE f == Plain(used, paths, at, each, Now.into)
<1>1. /\ status = "walking" /\ todo # <<>>
      /\ IsSeq(paths) /\ at \in Nat /\ each \in Nat /\ at + Len(paths) * each <= Message.size
      /\ made' = Append(made, f) /\ used' = used \o paths /\ Replace(<<>>)
      /\ UNCHANGED <<job, status, lists, dropped, headerSize, packet, row>>
  BY DEF Adds, AddField
<1>2. Now.into \in 1 .. lists /\ lists \in Nat \ {0} /\ Message.size \in Nat
  BY <1>1, NowFacts
<1>3. /\ IsField(f, lists, Message.size) /\ f.kind = "plain" /\ f.each = each
      /\ Len(f.names) = Len(paths) /\ f.width = Len(f.names) * each
      /\ \A k \in 1 .. Len(paths) : f.names[k] = Unique(used \o paths, Len(used) + k)
  <2> DEFINE into == Now.into
             size == Message.size
             g == Plain(used, paths, at, each, into)
  <2>1. IsSeq(paths) /\ at \in Nat /\ each \in Nat /\ into \in 1 .. lists /\ at + Len(paths) * each <= size
    BY <1>1, <1>2
  <2> HIDE DEF into, size
  <2>2. IsField(g, lists, size)
    BY ONLY <2>1, PlainFacts
  <2>3. /\ g.kind = "plain" /\ g.each = each
        /\ Len(g.names) = Len(paths)
        /\ \A k \in 1 .. Len(paths) : g.names[k] = Unique(used \o paths, Len(used) + k)
    BY ONLY <2>1, PlainNames, PlainUnique
  <2>4. g.width = Len(paths) * each
    BY DEF Plain
  <2>5. QED BY <2>2, <2>3, <2>4 DEF into, size
<1> HIDE DEF f
<1>4. /\ Given \subseteq Given' /\ IsSeq(used')
      /\ \A k \in 1 .. Len(paths) : Unique(used \o paths, Len(used) + k) \in Given'
  BY <1>1, GivenKeeps DEF Typed
<1>5. f.names \in Seq(Given')
  <2>1. \A k \in 1 .. Len(f.names) : f.names[k] \in Given'
    BY <1>3, <1>4
  <2>2. IsSeq(f.names)
    BY <1>3 DEF IsField
  <2>3. QED BY <2>1, <2>2 DEF IsSeq
<1>6. IsSeq(made') /\ \A r \in 1 .. Len(made') : IsMade(r)'
  <2>1. f.kind = "plain" => f.width = Len(f.names) * f.each
    BY <1>3
  <2>2. f.kind # "switch"
    BY <1>3
  <2>3. UNCHANGED <<job, lists>>
    BY <1>1
  <2>4. QED BY <1>1, <1>3, <1>4, <1>5, <2>1, <2>2, <2>3, MadeOneMore
<1>7. IsSeq(todo') /\ \A t \in Range(todo') : IsTask(t, lists, Message.size)
  <2>1. IsSeq(todo) /\ \A t \in Range(todo) : IsTask(t, lists, Message.size)
    BY DEF Typed
  <2>2. IsSeq(todo') /\ Range(Tail(todo)) \subseteq Range(todo) /\ Range(todo') = Range(<<>>) \cup Range(Tail(todo))
    BY <1>1, <2>1, None, ReplaceFacts
  <2>3. QED BY <2>1, <2>2, None
<1>8. Message' = Message /\ Compiles' = Compiles
  BY <1>1 DEF Message, Compiles
<1>9. QED BY <1>1, <1>2, <1>4, <1>6, <1>7, <1>8 DEF Typed

LEMMA TypedOpens ==
    ASSUME Typed, NEW pieces, Opens(pieces)
    PROVE  Typed'
<1>1. /\ status = "walking" /\ todo # <<>> /\ IsSeq(pieces)
      /\ \A t \in Range(pieces) : IsPiece(t, lists, Message.size) \/ IsText1(t, lists, Message.size)
      /\ Replace(pieces) /\ \A d \in dropped' : d.reason \in REASONS
      /\ UNCHANGED <<job, status, made, lists, used, headerSize, packet, row>>
  BY DEF Opens
<1>2. IsSeq(todo') /\ \A t \in Range(todo') : IsTask(t, lists, Message.size)
  <2>1. IsSeq(todo) /\ \A t \in Range(todo) : IsTask(t, lists, Message.size)
    BY DEF Typed
  <2>2. IsSeq(todo') /\ Range(Tail(todo)) \subseteq Range(todo) /\ Range(todo') = Range(pieces) \cup Range(Tail(todo))
    BY <1>1, <2>1, ReplaceFacts
  <2>3. \A t \in Range(pieces) : IsTask(t, lists, Message.size)
    BY <1>1 DEF IsTask
  <2>4. QED BY <2>1, <2>2, <2>3
<1>3. Message' = Message /\ Compiles' = Compiles
  BY <1>1 DEF Message, Compiles
<1>4. IsSeq(made') /\ \A r \in 1 .. Len(made') : IsMade(r)'
  <2>1. Given' = Given
    BY <1>1 DEF Given
  <2>2. \A r \in 1 .. Len(made) : IsMade(r)
    BY DEF Typed
  <2>3. \A r \in 1 .. Len(made) : IsMade(r)' = IsMade(r)
    BY <1>1, <1>3, <2>1 DEF IsMade
  <2>4. QED BY <1>1, <2>2, <2>3 DEF Typed
<1>5. QED BY <1>1, <1>2, <1>3, <1>4 DEF Typed

LEMMA TypedTags ==
    ASSUME Typed, NEW always, NEW alts, NEW t, Tags(always, alts, t)
    PROVE  Typed'
<1> DEFINE n == lists + Len(alts)
           size == Message.size
           pieces == always \o alts \o <<t>>
<1>1. /\ status = "walking" /\ todo # <<>> /\ IsSeq(always) /\ IsSeq(alts)
      /\ \A a \in Range(always) : IsPiece(a, lists, size)
      /\ \A j \in 1 .. Len(alts) : IsPiece(alts[j], n, size)
      /\ IsSwitch(t, n, size) /\ Replace(pieces) /\ lists' = n
      /\ UNCHANGED <<job, status, made, used, dropped, headerSize, packet, row>>
  BY DEF Tags
<1>2. lists \in Nat \ {0} /\ Len(alts) \in Nat
  BY <1>1, IsSeqFacts DEF Typed
<1>3. n \in Nat \ {0} /\ lists <= n
  BY <1>2
<1> HIDE DEF n
<1>4. /\ \A x : IsTask(x, lists, size) => IsTask(x, n, size)
      /\ \A f : IsField(f, lists, size) => IsField(f, n, size)
  BY <1>2, <1>3, MoreLists
<1>5. IsSeq(pieces) /\ \A x \in Range(pieces) : IsTask(x, n, size)
  <2>1. IsSeq(always \o alts) /\ Range(always \o alts) = Range(always) \cup Range(alts)
    BY <1>1, IsSeqConcat
  <2>2. IsSeq(pieces) /\ Range(pieces) = Range(always \o alts) \cup {t}
    BY <2>1, One, IsSeqConcat
  <2>3. \A x \in Range(always) : IsTask(x, n, size)
    BY <1>1, <1>4 DEF IsTask
  <2>4. \A x \in Range(alts) : IsTask(x, n, size)
    BY <1>1, IsSeqFacts DEF IsTask
  <2>5. IsTask(t, n, size)
    BY <1>1 DEF IsTask
  <2>6. QED BY <2>1, <2>2, <2>3, <2>4, <2>5
<1> HIDE DEF pieces
<1>6. IsSeq(todo') /\ \A x \in Range(todo') : IsTask(x, n, size)
  <2>1. IsSeq(todo) /\ \A x \in Range(todo) : IsTask(x, lists, size)
    BY DEF Typed
  <2>2. IsSeq(todo') /\ Range(Tail(todo)) \subseteq Range(todo) /\ Range(todo') = Range(pieces) \cup Range(Tail(todo))
    BY <1>1, <1>5, <2>1, ReplaceFacts
  <2>3. QED BY <1>4, <1>5, <2>1, <2>2
<1>7. Message' = Message /\ Compiles' = Compiles
  BY <1>1 DEF Message, Compiles
<1>8. IsSeq(made') /\ \A r \in 1 .. Len(made') : IsMade(r)'
  <2>1. Given' = Given
    BY <1>1 DEF Given
  <2>2. \A r \in 1 .. Len(made) : IsMade(r)
    BY DEF Typed
  <2>3. \A r \in 1 .. Len(made) : IsMade(r) => IsMade(r)'
    BY <1>1, <1>4, <1>7, <2>1 DEF IsMade
  <2>4. QED BY <1>1, <2>2, <2>3 DEF Typed
<1>9. QED BY <1>1, <1>3, <1>6, <1>7, <1>8 DEF Typed

LEMMA TypedMakeSwitch ==
    ASSUME Typed, MakeSwitch
    PROVE  Typed'
<1> DEFINE f == Switch(made, Now)
<1>1. /\ status = "walking" /\ todo # <<>> /\ Replace(<<>>) /\ made' = Append(made, f)
      /\ UNCHANGED <<job, status, lists, used, dropped, headerSize, packet, row>>
  BY DEF MakeSwitch
<1>2. /\ IsField(f, lists, Message.size) /\ f.kind = "switch" /\ f.names = NamesOf(made, f.fields) /\ f.names \in Seq(Given)
      /\ \A k \in 1 .. Len(f.fields) : f.fields[k] \in 1 .. Len(made)
  BY SwitchFacts
<1> HIDE DEF f
<1>3. Given' = Given
  BY <1>1 DEF Given
<1>4. IsSeq(made') /\ \A r \in 1 .. Len(made') : IsMade(r)'
  <2>1. f.kind # "plain"
    BY <1>2
  <2>2. UNCHANGED <<job, lists>>
    BY <1>1
  <2>3. QED BY <1>1, <1>2, <1>3, <2>1, <2>2, MadeOneMore
<1>5. IsSeq(todo') /\ \A t \in Range(todo') : IsTask(t, lists, Message.size)
  <2>1. IsSeq(todo) /\ \A t \in Range(todo) : IsTask(t, lists, Message.size)
    BY DEF Typed
  <2>2. IsSeq(todo') /\ Range(Tail(todo)) \subseteq Range(todo) /\ Range(todo') = Range(<<>>) \cup Range(Tail(todo))
    BY <1>1, <2>1, None, ReplaceFacts
  <2>3. QED BY <2>1, <2>2, None
<1>6. Message' = Message /\ Compiles' = Compiles
  BY <1>1 DEF Message, Compiles
<1>7. QED BY <1>1, <1>4, <1>5, <1>6 DEF Typed

\* What is walked of a message.
LEMMA WalkedFacts ==
    ASSUME Compiles
    PROVE  IsSeq(Walked) /\ Range(Walked) \subseteq Range(Message.members)
<1>1. IsSeq(Message.members)
  BY MessageFacts
<1>2. CASE IsHeader(Types, job.key, job.declared)
  BY <1>2, None DEF Walked
<1>3. CASE ~IsHeader(Types, job.key, job.declared)
  <2> DEFINE W == {m \in Range(Message.members) : ~LeadsWithHeader(Types, m, job.declared)}
  <2>1. Walked = Keeping(Message.members, W)
    BY <1>3 DEF Walked
  <2> HIDE DEF W
  <2>2. QED BY <1>1, <2>1, KeepingRange
<1>4. QED BY <1>2, <1>3

LEMMA HeaderSizeType ==
    ASSUME Compiles
    PROVE  HeaderSize(Types, job.key, job.declared) \in Nat
<1>1. Message.size \in Nat
  BY MessageFacts
<1>2. \A key : SizeOr0(Types, key) \in Nat
  BY SizeOr0Type
<1>3. QED BY <1>1, <1>2 DEF HeaderSize, Message

LEMMA TypedBegin ==
    ASSUME Typed, Begin
    PROVE  Typed'
<1>1. /\ status = "start" /\ Compiles /\ status' = "walking" /\ headerSize' = HeaderSize(Types, job.key, job.declared)
      /\ todo' = Pieces(Walked, <<>>, 0, 1, 1)
      /\ UNCHANGED <<job, made, lists, used, dropped, packet, row>>
  BY DEF Begin
<1>2. IsSeq(Walked) /\ (\A m \in Range(Walked) : Laid(m, Message.size)) /\ Message.size \in Nat
  BY <1>1, WalkedFacts, MessageFacts
<1>3. lists = 1 /\ made = <<>>
  BY <1>1 DEF Typed
<1>4. IsSeq(todo') /\ \A t \in Range(todo') : IsTask(t, 1, Message.size)
  <2>1. IsSeq(todo') /\ \A t \in Range(todo') : \E m \in Range(Walked) : t = Piece(m, <<>>, 0, 1, 1)
    BY <1>1, <1>2, PiecesFacts
  <2>2. ASSUME NEW m \in Range(Walked) PROVE IsPiece(Piece(m, <<>>, 0, 1, 1), 1, Message.size)
    <3> DEFINE column == <<>>
               at == 0
               into == 1
               size == Message.size
    <3>1. Laid(m, size) /\ at + size <= size /\ at \in Nat /\ into \in 1 .. 1 /\ size \in Nat /\ into \in Nat \ {0}
      BY <1>2
    <3> HIDE DEF column, at, size
    <3>2. IsPiece(Piece(m, column, at, into, into), 1, size)
      BY <3>1, PieceFacts
    <3>3. QED BY <3>2 DEF column, at, size
  <2>3. QED BY <2>1, <2>2 DEF IsTask
<1>5. Message' = Message /\ Compiles'
  BY <1>1 DEF Message, Compiles
<1>6. headerSize' \in Nat
  BY <1>1, HeaderSizeType
<1>7. IsSeq(made') /\ \A r \in 1 .. Len(made') : IsMade(r)'
  <2>1. made' = <<>>
    BY <1>1, <1>3
  <2>2. QED BY <2>1, None
<1>8. QED BY <1>1, <1>3, <1>4, <1>5, <1>6, <1>7 DEF Typed

LEMMA TypedInit == Init => Typed
<1>1. SUFFICES ASSUME Init PROVE Typed
  OBVIOUS
<1>2. Range(todo) = {} /\ IsSeq(todo) /\ IsSeq(made) /\ IsSeq(used) /\ Len(made) = 0
  BY <1>1, None DEF Init
<1>3. 1 .. Len(made) = {}
  BY <1>2
<1>4. QED BY <1>1, <1>2, <1>3 DEF Init, Typed

\* What a step that changes neither what is walked nor what was made keeps.
LEMMA TypedSame ==
    ASSUME Typed, UNCHANGED <<job, todo, made, lists, used, dropped, headerSize>>,
           \/ status' = status
           \/ status = "start" /\ status' = "refused"
           \/ status = "walking" /\ status' = "ready" /\ todo = <<>>
    PROVE  Typed'
<1>1. Message' = Message /\ Compiles' = Compiles /\ Given' = Given
  BY DEF Message, Compiles, Given
<1>2. \A r \in 1 .. Len(made) : IsMade(r)' = IsMade(r)
  BY <1>1 DEF IsMade
<1>3. /\ status' \in {"start", "walking", "ready", "refused"}
      /\ status' \in {"walking", "ready"} => Compiles
      /\ status' = "start" => lists = 1 /\ made = <<>> /\ used = <<>>
      /\ status' # "walking" => todo = <<>>
  BY DEF Typed
<1>4. QED BY <1>1, <1>2, <1>3 DEF Typed

LEMMA TypedNext == Typed /\ [Next]_vars => Typed'
<1>1. SUFFICES ASSUME Typed, [Next]_vars PROVE Typed'
  OBVIOUS
<1>2. CASE Refuse
  BY <1>1, <1>2, TypedSame DEF Refuse
<1>3. CASE Begin
  BY <1>1, <1>3, TypedBegin
<1>4. CASE Walk
  <2>1. CASE \E paths, at, each : Adds(paths, at, each)
    BY <1>1, <2>1, TypedAdds
  <2>2. CASE \E pieces : Opens(pieces)
    BY <1>1, <2>2, TypedOpens
  <2>3. CASE \E always, alts, t : Tags(always, alts, t)
    BY <1>1, <2>3, TypedTags
  <2>4. CASE MakeSwitch
    BY <1>1, <2>4, TypedMakeSwitch
  <2>5. QED BY <1>1, <1>4, <2>1, <2>2, <2>3, <2>4, WalkShapes
<1>5. CASE Finish
  BY <1>1, <1>5, TypedSame DEF Finish
<1>6. CASE Decode
  BY <1>1, <1>6, TypedSame DEF Decode
<1>7. CASE UNCHANGED vars
  BY <1>1, <1>7, TypedSame DEF vars
<1>8. QED BY <1>1, <1>2, <1>3, <1>4, <1>5, <1>6, <1>7 DEF Next

\* What the variables hold.
LEMMA TypedAlways == Spec => []Typed
BY TypedInit, TypedNext, PTL DEF Spec

-----------------------------------------------------------------------------
(* Reading a packet.                                                        *)

LEMMA NullsFacts ==
    ASSUME NEW n \in Nat
    PROVE  Nulls(n) \in Seq(Cell) /\ Len(Nulls(n)) = n /\ \A i \in 1 .. n : Nulls(n)[i] = Null
<1>1. Null \in Cell
  BY DEF Null, Cell
<1>2. Nulls(n) \in [1 .. n -> Cell] /\ \A i \in 1 .. n : Nulls(n)[i] = Null
  BY <1>1 DEF Nulls
<1> DEFINE s == Nulls(n)
           S == Cell
<1> HIDE DEF s, S
<1>3. s \in [1 .. n -> S]
  BY <1>2 DEF s, S
<1>4. s \in Seq(S) /\ Len(s) = n
  BY <1>3
<1>5. QED BY <1>2, <1>4 DEF s, S

IsPacket(p) == p.base \in Nat /\ p.limit \in Nat

LEMMA PlainReads ==
    ASSUME NEW f, IsSeq(f.names), f.at \in Nat, f.each \in Nat, f.kind = "plain", NEW p, IsPacket(p), FieldFits(f, p), NEW cells
    PROVE  LET read == Read(f, cells, p)
           IN  /\ read \in Seq(Cell) /\ Len(read) = Len(f.names)
               /\ \A k \in 1 .. Len(f.names) : read[k] = [at |-> p.base + f.at + (k - 1) * f.each, width |-> f.each]
<1> DEFINE n == Len(f.names)
           read == Read(f, cells, p)
           cell(k) == [at |-> p.base + f.at + (k - 1) * f.each, width |-> f.each]
           S == Cell
<1>1. n \in Nat /\ DOMAIN f.names = 1 .. n
  BY IsSeqFacts
<1>2. read = [k \in 1 .. n |-> cell(k)]
  BY <1>1 DEF Read
<1>3. \A k \in 1 .. n : cell(k) \in S
  <2>1. \A k \in 1 .. n : k - 1 \in Nat
    BY <1>1
  <2>2. \A k \in 1 .. n : (k - 1) * f.each \in Nat
    BY <2>1
  <2>3. \A k \in 1 .. n : p.base + f.at + (k - 1) * f.each \in Nat
    BY <2>2 DEF IsPacket
  <2>4. QED BY <2>3 DEF Cell
<1> HIDE DEF read, cell, S, n
<1>4. read \in [1 .. n -> S]
  BY <1>2, <1>3
<1>5. read \in Seq(S) /\ Len(read) = n
  BY <1>1, <1>4
<1>6. \A k \in 1 .. n : read[k] = cell(k)
  BY <1>2
<1>7. QED BY <1>5, <1>6 DEF read, cell, S, n

\* The identifier has a value that the field takes another one for.
Selects(f, k, p) == p.reads[p.base + f.at] \in f.values[k]

\* What a tagged union's field reads as, of the fields it is made of.
Parts(f, cells, p) ==
    [k \in DOMAIN f.fields |-> IF Selects(f, k, p) THEN cells[f.fields[k]] ELSE Nulls(Len(cells[f.fields[k]]))]

LEMMA PartsFacts ==
    ASSUME NEW f, IsSeq(f.fields), NEW p, NEW cells, \A k \in 1 .. Len(f.fields) : cells[f.fields[k]] \in Seq(Cell)
    PROVE  LET parts == Parts(f, cells, p)
           IN  /\ IsSeq(parts) /\ Len(parts) = Len(f.fields)
               /\ \A k \in 1 .. Len(f.fields) :
                     /\ parts[k] = (IF Selects(f, k, p) THEN cells[f.fields[k]] ELSE Nulls(Len(cells[f.fields[k]])))
                     /\ parts[k] \in Seq(Cell) /\ Len(parts[k]) = Len(cells[f.fields[k]])
<1> DEFINE n == Len(f.fields)
           parts == Parts(f, cells, p)
<1>1. n \in Nat /\ DOMAIN f.fields = 1 .. n
  BY IsSeqFacts
<1>2. parts = [k \in 1 .. n |-> IF Selects(f, k, p) THEN cells[f.fields[k]] ELSE Nulls(Len(cells[f.fields[k]]))]
  BY <1>1 DEF Parts
<1> HIDE DEF n, parts
<1>3. parts = [k \in 1 .. n |-> parts[k]]
  BY <1>2
<1>4. IsSeq(parts) /\ Len(parts) = n
  BY <1>1, <1>3, IsSeqFrom
<1>5. ASSUME NEW k \in 1 .. n
      PROVE  /\ parts[k] = (IF Selects(f, k, p) THEN cells[f.fields[k]] ELSE Nulls(Len(cells[f.fields[k]])))
             /\ parts[k] \in Seq(Cell) /\ Len(parts[k]) = Len(cells[f.fields[k]])
  <2> DEFINE c == cells[f.fields[k]]
             S == Cell
  <2>1. c \in Seq(S)
    BY DEF n
  <2> HIDE DEF c, S
  <2>2. Len(c) \in Nat
    BY <2>1
  <2>3. Nulls(Len(c)) \in Seq(S) /\ Len(Nulls(Len(c))) = Len(c)
    BY <2>2, NullsFacts DEF S
  <2>4. parts[k] = IF Selects(f, k, p) THEN c ELSE Nulls(Len(c))
    BY <1>2 DEF c
  <2>5. QED BY <2>1, <2>3, <2>4 DEF c, S
<1>6. QED BY <1>4, <1>5 DEF n, parts

\* A field reads as cells.
LEMMA ReadType ==
    ASSUME Typed, NEW r \in 1 .. Len(made), NEW p, IsPacket(p), NEW cells,
           \A k \in 1 .. r - 1 : cells[k] \in Seq(Cell)
    PROVE  Read(made[r], cells, p) \in Seq(Cell)
<1> DEFINE f == made[r]
<1>1. /\ IsField(f, lists, Message.size)
      /\ f.kind = "switch" => \A k \in 1 .. Len(f.fields) : f.fields[k] \in 1 .. r - 1
  BY DEF Typed, IsMade
<1> HIDE DEF f
<1>2. IsSeq(f.names) /\ f.at \in Nat /\ f.each \in Nat /\ f.kind \in {"plain", "switch"} /\ IsSeq(f.fields)
  BY <1>1 DEF IsField
<1>3. CASE ~FieldFits(f, p)
  <2>1. Len(f.names) \in Nat
    BY <1>2, IsSeqFacts
  <2>2. Read(f, cells, p) = Nulls(Len(f.names))
    BY <1>3 DEF Read
  <2>3. QED BY <2>1, <2>2, NullsFacts DEF f
<1>4. CASE FieldFits(f, p) /\ f.kind = "plain"
  BY <1>2, <1>4, PlainReads DEF f
<1>5. CASE FieldFits(f, p) /\ f.kind # "plain"
  <2>1. Read(f, cells, p) = FlattenSeq(Parts(f, cells, p))
    BY <1>5 DEF Read, Parts, Selects
  <2>2. \A k \in 1 .. Len(f.fields) : cells[f.fields[k]] \in Seq(Cell)
    BY <1>1, <1>2, <1>5
  <2> DEFINE ss == Parts(f, cells, p)
  <2>3. IsSeq(ss) /\ \A k \in 1 .. Len(ss) : ss[k] \in Seq(Cell)
    BY <1>2, <2>2, PartsFacts
  <2> HIDE DEF ss
  <2>4. FlattenSeq(ss) \in Seq(Cell)
    BY <2>3, FlattenRange
  <2>5. QED BY <2>1, <2>4 DEF ss, f
<1>6. QED BY <1>3, <1>4, <1>5

\* It reads only the fields made before it.
LEMMA ReadBefore ==
    ASSUME Typed, NEW r \in 1 .. Len(made), NEW p, NEW cells, NEW more, \A k \in 1 .. r - 1 : cells[k] = more[k]
    PROVE  Read(made[r], cells, p) = Read(made[r], more, p)
<1> DEFINE f == made[r]
<1>1. /\ IsField(f, lists, Message.size)
      /\ f.kind = "switch" => \A k \in 1 .. Len(f.fields) : f.fields[k] \in 1 .. r - 1
  BY DEF Typed, IsMade
<1> HIDE DEF f
<1>2. f.kind \in {"plain", "switch"} /\ DOMAIN f.fields = 1 .. Len(f.fields)
  BY <1>1, IsSeqFacts DEF IsField
<1>3. CASE f.kind = "plain"
  BY <1>3 DEF Read, f
<1>4. CASE f.kind # "plain"
  <2>1. \A k \in DOMAIN f.fields : cells[f.fields[k]] = more[f.fields[k]]
    BY <1>1, <1>2, <1>4
  <2>2. Parts(f, cells, p) = Parts(f, more, p)
    BY <2>1 DEF Parts
  <2>3. Read(f, cells, p) = Read(f, more, p)
    BY <1>4, <2>2 DEF Read, Parts, Selects
  <2>4. QED BY <2>3 DEF f
<1>5. QED BY <1>3, <1>4

\* What the fields read as.
LEMMA CellsFacts ==
    ASSUME Typed, NEW p, IsPacket(p)
    PROVE  LET cells == Cells(made, p)
           IN  /\ Len(cells) = Len(made)
               /\ \A r \in 1 .. Len(made) : cells[r] \in Seq(Cell) /\ cells[r] = Read(made[r], cells, p)
<1> DEFINE N == Len(made)
           T == Seq(Cell)
           S == Seq(T)
           body(i, x) == Append(x, Read(made[i], x, p))
           read(i, x) == IF Read(made[i], x, p) \in T THEN Read(made[i], x, p) ELSE <<>>
           step == [i \in 1 .. N |-> [x \in S |-> Append(x, read(i, x))]]
           cells == CHOOSE f : f = [n \in 0 .. N |-> IF n = 0 THEN <<>> ELSE body(n, f[n - 1])]
<1>1. Cells(made, p) = cells[N]
  BY DEF Cells
<1>2. N \in Nat
  BY IsSeqFacts DEF Typed
<1>3. ASSUME NEW i \in 1 .. N, NEW x \in S
      PROVE  Append(x, read(i, x)) \in S
  <2>1. <<>> \in T
    OBVIOUS
  <2>2. read(i, x) \in T
    BY <2>1
  <2> HIDE DEF T, read
  <2>3. QED BY <2>2
<1>4. ASSUME NEW i \in 1 .. N, NEW x \in S, Len(x) = i - 1
      PROVE  Read(made[i], x, p) \in T
  <2>1. \A k \in 1 .. i - 1 : x[k] \in Seq(Cell)
    <3> HIDE DEF T
    <3>1. \A k \in 1 .. i - 1 : x[k] \in T
      BY <1>4
    <3>2. QED BY <3>1 DEF T
  <2>2. QED BY <2>1, ReadType
<1>5. <<>> \in S
  OBVIOUS
<1> HIDE DEF body, S, N, T, read
<1>6. step \in [1 .. N -> [S -> S]] /\ \A i \in 1 .. N : \A x \in S : step[i][x] = Append(x, read(i, x))
  BY <1>3
<1> HIDE DEF step
<1>7. PICK g \in [0 .. N -> S] : \A i \in 0 .. N : g[i] = IF i = 0 THEN <<>> ELSE step[i][g[i - 1]]
  <2>1. step \in Steps(S, N)
    BY <1>6 DEF Steps
  <2> DEFINE none == <<>>
  <2>2. none \in S
    BY <1>5
  <2> HIDE DEF none
  <2>3. \E g \in [0 .. N -> S] : \A i \in 0 .. N : g[i] = IF i = 0 THEN none ELSE step[i][g[i - 1]]
    BY <1>2, <2>1, <2>2, RecursionExists
  <2>4. QED BY <2>3 DEF none
<1>8. \A i \in 0 .. N : i # 0 => i \in 1 .. N /\ i - 1 \in 0 .. N
  BY <1>2
<1> DEFINE H == {i \in 0 .. N : Len(g[i]) = i}
<1>9. ASSUME NEW i \in 1 .. N, i - 1 \in H PROVE i \in H /\ g[i] = body(i, g[i - 1])
  <2>1. i \in 0 .. N /\ i # 0 /\ i - 1 \in 0 .. N /\ Len(g[i - 1]) = i - 1
    BY <1>2, <1>9
  <2>2. g[i - 1] \in S
    BY <1>7, <2>1
  <2>3. Read(made[i], g[i - 1], p) \in T
    BY <1>4, <2>1, <2>2
  <2>4. g[i] = Append(g[i - 1], Read(made[i], g[i - 1], p))
    <3>1. g[i] = step[i][g[i - 1]]
      BY <1>7, <2>1
    <3>2. step[i][g[i - 1]] = Append(g[i - 1], read(i, g[i - 1]))
      BY <1>6, <2>2
    <3>3. QED BY <2>3, <3>1, <3>2 DEF read
  <2> DEFINE x == g[i - 1]
             e == Read(made[i], x, p)
  <2>5. x \in Seq(T) /\ Len(x) = i - 1 /\ g[i] = Append(x, e) /\ e \in T
    BY <2>1, <2>2, <2>3, <2>4 DEF S
  <2> HIDE DEF x, e
  <2>6. Len(Append(x, e)) = i
    BY <2>1, <2>5
  <2>7. QED BY <2>1, <2>4, <2>5, <2>6 DEF body
<1>10. \A i \in 0 .. N : i \in H
  <2>1. 0 \in H
    <3>1. 0 \in 0 .. N
      BY <1>2
    <3>2. g[0] = <<>>
      BY <1>7, <3>1
    <3>3. QED BY <3>1, <3>2
  <2>2. \A i \in 1 .. N : i - 1 \in H => i \in H
    BY <1>9
  <2> HIDE DEF H
  <2>3. QED BY <1>2, <2>1, <2>2, UpTo
<1>11. \A i \in 0 .. N : g[i] = IF i = 0 THEN <<>> ELSE body(i, g[i - 1])
  BY <1>7, <1>8, <1>9, <1>10
<1>12. g = [n \in 0 .. N |-> IF n = 0 THEN <<>> ELSE body(n, g[n - 1])]
  BY <1>7, <1>11
<1>13. cells = [n \in 0 .. N |-> IF n = 0 THEN <<>> ELSE body(n, cells[n - 1])]
  BY <1>12
<1> HIDE DEF cells
<1>14. \A i \in 0 .. N : cells[i] = IF i = 0 THEN <<>> ELSE body(i, cells[i - 1])
  BY <1>13
<1> DEFINE K == {i \in 0 .. N : /\ cells[i] \in S /\ Len(cells[i]) = i
                                /\ \A k \in 1 .. i : cells[i][k] = Read(made[k], cells[i], p)}
<1>15. ASSUME NEW i \in 1 .. N, i - 1 \in K PROVE i \in K
  <2>1. i \in 0 .. N /\ i # 0 /\ i - 1 \in 0 .. N
    BY <1>2
  <2> DEFINE x == cells[i - 1]
             e == Read(made[i], x, p)
             y == cells[i]
  <2>2. x \in Seq(T) /\ Len(x) = i - 1 /\ \A k \in 1 .. i - 1 : x[k] = Read(made[k], x, p)
    BY <1>15 DEF S
  <2>3. e \in T
    BY <1>4, <2>2 DEF S
  <2>4. y = Append(x, e)
    BY <1>14, <2>1 DEF body
  <2> HIDE DEF K, x, y
  <2>5. y \in Seq(T) /\ Len(y) = i /\ y[i] = e /\ \A k \in 1 .. i - 1 : y[k] = x[k]
    <3> DEFINE d == e
    <3>1. y = Append(x, d) /\ d \in T
      BY <2>3, <2>4
    <3> HIDE DEF d
    <3>2. y \in Seq(T) /\ Len(y) = i /\ y[i] = d /\ \A k \in 1 .. i - 1 : y[k] = x[k]
      BY <2>1, <2>2, <3>1
    <3>3. QED BY <3>2 DEF d
  <2>6. ASSUME NEW k \in 1 .. i PROVE y[k] = Read(made[k], y, p)
    <3>1. k \in 1 .. Len(made) /\ \A j \in 1 .. k - 1 : j \in 1 .. i - 1
      BY <2>1 DEF N
    <3>2. \A j \in 1 .. k - 1 : x[j] = y[j]
      BY <2>5, <3>1
    <3>3. Read(made[k], x, p) = Read(made[k], y, p)
      BY <3>1, <3>2, ReadBefore
    <3>4. y[k] = Read(made[k], x, p)
      <4>1. k = i \/ k \in 1 .. i - 1
        BY <2>1
      <4>2. QED BY <2>2, <2>5, <4>1
    <3>5. QED BY <3>3, <3>4
  <2>7. QED BY <2>1, <2>5, <2>6 DEF K, y, S
<1>16. \A i \in 0 .. N : i \in K
  <2>1. 0 \in K
    <3>1. 0 \in 0 .. N /\ 1 .. 0 = {}
      BY <1>2
    <3>2. cells[0] = <<>>
      BY <1>14, <3>1
    <3>3. Len(cells[0]) = 0
      BY <3>2
    <3>4. QED BY <1>5, <3>1, <3>2, <3>3
  <2>2. \A i \in 1 .. N : i - 1 \in K => i \in K
    BY <1>15
  <2> HIDE DEF K
  <2>3. QED BY <1>2, <2>1, <2>2, UpTo
<1>17. N \in K
  <2>1. N \in 0 .. N
    BY <1>2
  <2>2. QED BY <1>16, <2>1
<1> DEFINE y == cells[N]
<1>18. y \in Seq(T) /\ Len(y) = N /\ \A k \in 1 .. N : y[k] = Read(made[k], y, p)
  BY <1>17 DEF S
<1> HIDE DEF y
<1>19. \A k \in 1 .. N : y[k] \in T
  BY <1>18
<1>20. QED BY <1>1, <1>18, <1>19 DEF y, N, T

\* The message's own fields.
LEMMA FieldsFacts ==
    ASSUME Typed
    PROVE  /\ IsSeq(Fields) /\ Len(Fields) \in Nat /\ DOMAIN Fields = 1 .. Len(Fields)
           /\ \A k \in 1 .. Len(Fields) : Fields[k] \in 1 .. Len(made) /\ made[Fields[k]].into = 1
           /\ \A a, b \in 1 .. Len(Fields) : Fields[a] = Fields[b] => a = b
           /\ \A r \in 1 .. Len(made) : made[r].into = 1 => r \in Range(Fields)
<1> DEFINE S == {r \in DOMAIN made : made[r].into = 1}
<1>1. IsSeq(made) /\ DOMAIN made = 1 .. Len(made)
  BY IsSeqFacts DEF Typed
<1>2. Fields = AsMade(made, S)
  BY DEF Fields
<1>3. \A r \in 1 .. Len(made) : r \in S <=> made[r].into = 1
  BY <1>1
<1> HIDE DEF S
<1>4. /\ IsSeq(Fields) /\ Range(Fields) = (1 .. Len(made)) \cap S /\ Len(Fields) \in Nat /\ DOMAIN Fields = 1 .. Len(Fields)
      /\ \A k \in 1 .. Len(Fields) : Fields[k] \in 1 .. Len(made) /\ Fields[k] \in S
      /\ \A a, b \in 1 .. Len(Fields) : Fields[a] = Fields[b] => a = b
  BY <1>1, <1>2, AsMadeFacts
<1>5. QED BY <1>3, <1>4

\* The cells of the message's own fields, one field's behind the other's.
OwnCells(p) == [k \in DOMAIN Fields |-> Cells(made, p)[Fields[k]]]

LEMMA OwnCellsFacts ==
    ASSUME Typed, NEW p, IsPacket(p)
    PROVE  /\ RowOf(p) = FlattenSeq(OwnCells(p))
           /\ IsSeq(OwnCells(p)) /\ Len(OwnCells(p)) = Len(Fields)
           /\ \A k \in 1 .. Len(Fields) : OwnCells(p)[k] = Cells(made, p)[Fields[k]] /\ OwnCells(p)[k] \in Seq(Cell)
<1> DEFINE n == Len(Fields)
           some == Fields
           cells == Cells(made, p)
           own == OwnCells(p)
<1>1. n \in Nat /\ DOMAIN some = 1 .. n /\ \A k \in 1 .. n : some[k] \in 1 .. Len(made)
  BY FieldsFacts
<1>2. RowOf(p) = FlattenSeq(own)
  BY DEF RowOf, OwnCells
<1>3. own = [k \in 1 .. n |-> cells[some[k]]]
  BY <1>1 DEF OwnCells
<1>4. \A r \in 1 .. Len(made) : cells[r] \in Seq(Cell)
  BY CellsFacts
<1> HIDE DEF n, own, cells, some
<1>5. own = [k \in 1 .. n |-> own[k]]
  BY <1>3
<1>6. IsSeq(own) /\ Len(own) = n
  BY <1>1, <1>5, IsSeqFrom
<1>7. \A k \in 1 .. n : own[k] = cells[some[k]]
  BY <1>3
<1>8. \A k \in 1 .. n : own[k] \in Seq(Cell)
  BY <1>1, <1>4, <1>7
<1>9. QED BY <1>2, <1>6, <1>7, <1>8 DEF n, own, cells, some

LEMMA RowType ==
    ASSUME Typed, NEW p, IsPacket(p)
    PROVE  RowOf(p) \in Seq(Cell)
<1> DEFINE own == OwnCells(p)
<1>1. RowOf(p) = FlattenSeq(own) /\ IsSeq(own) /\ \A k \in 1 .. Len(own) : own[k] \in Seq(Cell)
  BY OwnCellsFacts
<1> HIDE DEF own
<1>2. QED BY <1>1, FlattenRange

LEMMA PacketsFacts ==
    ASSUME NEW p \in Packets
    PROVE  /\ IsPacket(p) /\ p.base = Base
           /\ \A s \in Switches : p.base + made[s].at \in DOMAIN p.reads
<1> DEFINE S == {Base + made[s].at : s \in Switches}
           R == [S -> Identifiers]
<1>1. p.base = Base /\ p.limit \in Limits /\ p.reads \in R
  <2>1. p \in [base : {Base}, limit : Limits, reads : R]
    BY DEF Packets
  <2> HIDE DEF R
  <2>2. QED BY <2>1
<1>2. Base \in Nat /\ p.limit \in Nat
  BY <1>1, BoundsAssumption DEF Base
<1>3. DOMAIN p.reads = S
  BY <1>1
<1>4. \A s \in Switches : p.base + made[s].at \in DOMAIN p.reads
  BY <1>1, <1>3
<1>5. QED BY <1>1, <1>2, <1>4 DEF IsPacket

\* The row is that of the packet last decoded.
RowIsDecoded == \/ packet = NoPacket /\ row = <<>>
                \/ status = "ready" /\ packet \in Packets /\ row = RowOf(packet)

LEMMA RowIsDecodedNext ==
    ASSUME Typed, RowIsDecoded, [Next]_vars
    PROVE  RowIsDecoded'
<1>1. CASE Decode
  <2>1. PICK p \in Packets : packet' = p /\ row' = RowOf(p)
    BY <1>1 DEF Decode
  <2>2. status = "ready" /\ UNCHANGED <<job, status, made, headerSize>>
    BY <1>1 DEF Decode
  <2>3. Packets' = Packets
    BY <2>2 DEF Packets, Base, Switches
  <2>4. RowOf(packet)' = RowOf(p)
    BY <2>1, <2>2 DEF RowOf, Fields
  <2>5. QED BY <2>1, <2>2, <2>3, <2>4 DEF RowIsDecoded
<1>2. CASE UNCHANGED <<packet, row>> /\ status # "ready"
  BY <1>2 DEF RowIsDecoded, NoPacket
<1>3. CASE UNCHANGED vars
  <2>1. UNCHANGED <<status, made, headerSize, packet, row>>
    BY <1>3 DEF vars
  <2>2. Packets' = Packets /\ RowOf(packet)' = RowOf(packet)
    BY <2>1 DEF Packets, Base, Switches, RowOf, Fields
  <2>3. QED BY <2>1, <2>2 DEF RowIsDecoded, NoPacket
<1>4. CASE Refuse \/ Begin \/ Finish
  BY <1>2, <1>4 DEF Refuse, Begin, Finish
<1>5. CASE Walk
  <2>1. status = "walking" /\ UNCHANGED <<packet, row>>
    BY <1>5, WalkShapes DEF Adds, AddField, Opens, Tags, MakeSwitch
  <2>2. QED BY <1>2, <2>1
<1>6. QED BY <1>1, <1>3, <1>4, <1>5 DEF Next

LEMMA RowIsDecodedInit == Init => RowIsDecoded
BY DEF Init, RowIsDecoded

LEMMA RowIsDecodedAlways == Spec => []RowIsDecoded
<1>1. Typed /\ RowIsDecoded /\ [Next]_vars => RowIsDecoded'
  BY RowIsDecodedNext
<1>2. QED BY <1>1, TypedAlways, RowIsDecodedInit, PTL DEF Spec

LEMMA TypeOKFrom ==
    ASSUME Typed, RowIsDecoded
    PROVE  TypeOK
<1>1. \A c \in Range(row) : c \in Cell
  <2>1. CASE packet = NoPacket /\ row = <<>>
    BY <2>1, None
  <2>2. CASE status = "ready" /\ packet \in Packets /\ row = RowOf(packet)
    <3>1. row \in Seq(Cell)
      BY <2>2, PacketsFacts, RowType
    <3>2. QED BY <3>1, IsSeqOf
  <2>3. QED BY <2>1, <2>2 DEF RowIsDecoded
<1>2. \A f \in Range(made) : /\ f.kind \in {"plain", "switch"}
                             /\ f.at \in Nat /\ f.width \in Nat /\ f.each \in Nat
                             /\ f.into \in 1 .. lists
  <2>1. \A r \in 1 .. Len(made) : IsField(made[r], lists, Message.size)
    BY DEF Typed, IsMade
  <2>2. Range(made) = {made[r] : r \in 1 .. Len(made)}
    BY IsSeqFacts DEF Typed
  <2>3. QED BY <2>1, <2>2 DEF IsField
<1>3. QED BY <1>1, <1>2 DEF Typed, TypeOK, REASONS

\* Every variable holds what the code keeps there.
THEOREM TypeOKAlways == Spec => []TypeOK
<1>1. Typed /\ RowIsDecoded => TypeOK
  BY TypeOKFrom
<1>2. QED BY <1>1, TypedAlways, RowIsDecodedAlways, PTL

-----------------------------------------------------------------------------
(* Columns have names of their own.                                         *)

\* Asked for the same path, the later name counts more of it before.
LEMMA UniqueDiffers ==
    ASSUME NEW w, NEW p \in Nat, NEW q \in Nat, 1 <= p, p < q
    PROVE  Unique(w, p) # Unique(w, q)
<1> DEFINE P == {i \in 1 .. p - 1 : w[i] = w[p]}
           Q == {i \in 1 .. q - 1 : w[i] = w[q]}
<1>1. SUFFICES ASSUME w[p] = w[q], Cardinality(P) = Cardinality(Q) PROVE FALSE
  BY DEF Unique
<1>2. IsFiniteSet(1 .. q - 1)
  BY FS_Interval
<1>3. IsFiniteSet(Q)
  BY <1>2, FS_Subset
<1>4. P \subseteq Q /\ p \in Q /\ p \notin P
  <2>1. 1 .. p - 1 \subseteq 1 .. q - 1 /\ p \in 1 .. q - 1 /\ p \notin 1 .. p - 1
    OBVIOUS
  <2>2. QED BY <1>1, <2>1
<1>5. P # Q
  BY <1>4
<1> HIDE DEF P, Q
<1>6. Cardinality(P) \in Nat /\ Cardinality(Q) \in Nat /\ Cardinality(P) < Cardinality(Q)
  <2>1. IsFiniteSet(P) /\ Cardinality(P) <= Cardinality(Q) /\ (Cardinality(P) = Cardinality(Q) => P = Q)
    BY <1>3, <1>4, FS_Subset
  <2>2. Cardinality(P) \in Nat /\ Cardinality(Q) \in Nat
    BY <1>3, <2>1, FS_CardinalityType
  <2>3. QED BY <1>5, <2>1, <2>2
<1>7. QED BY <1>1, <1>6

\* A tagged union's field takes another one for its own.
Takes(s, r) == made[s].kind = "switch" /\ \E k \in 1 .. Len(made[s].fields) : made[s].fields[k] = r

\* The field that is still to be made will take those of this list.
Awaits(t, l) == t.what = "switch" /\ l - t.first \in DOMAIN t.values

OnceIn(s) == \A a, b \in 1 .. Len(s) : s[a] = s[b] => a = b

\* No field has a name, or takes a field, twice.
NamedOnce == \A r \in 1 .. Len(made) : OnceIn(made[r].names) /\ OnceIn(made[r].fields)

\* What is taken is an alternative's, and is not awaited any more.
TakenInner == \A r, s \in 1 .. Len(made) :
                 Takes(s, r) => /\ made[r].into # 1
                                /\ \A i \in 1 .. Len(todo) : ~Awaits(todo[i], made[r].into)

TakenOnce == \A r, s, u \in 1 .. Len(made) : Takes(s, r) /\ Takes(u, r) => s = u

\* Two fields of one name are such a field and what it was taken for.
SharedTaken == \A r, s \in 1 .. Len(made) :
                  r < s /\ Range(made[r].names) \cap Range(made[s].names) # {} =>
                     made[s].kind = "switch" /\ \E u \in 1 .. s : Takes(u, r)

AwaitedOnce == \A i, j \in 1 .. Len(todo) : \A l \in Nat : Awaits(todo[i], l) /\ Awaits(todo[j], l) => i = j

\* How the fields of tagged unions and the fields they take hang together.
Linked == NamedOnce /\ TakenInner /\ TakenOnce /\ SharedTaken /\ AwaitedOnce

LEMMA AwaitsFacts ==
    ASSUME NEW t, NEW n \in Nat, NEW size, IsTask(t, n, size), NEW l \in Nat, Awaits(t, l)
    PROVE  IsSwitch(t, n, size) /\ l > 1 /\ l > t.first /\ l <= n
<1>1. IsSwitch(t, n, size)
  BY DEF Awaits, IsTask, IsPiece, IsText1
<1>2. DOMAIN t.values = 1 .. Len(t.values) /\ Len(t.values) \in Nat
  BY <1>1, IsSeqFacts DEF IsSwitch
<1>3. t.first \in 1 .. n /\ t.first + Len(t.values) <= n /\ l - t.first \in 1 .. Len(t.values)
  BY <1>1, <1>2 DEF IsSwitch, Awaits
<1>4. QED BY <1>1, <1>2, <1>3

\* What is awaited once the first task is replaced by others.
LEMMA AwaitedReplaced ==
    ASSUME Typed, AwaitedOnce, todo # <<>>, NEW pieces, IsSeq(pieces), Replace(pieces),
           \A i \in 1 .. Len(pieces) : pieces[i].what = "switch" =>
              i = Len(pieces) /\ \A l \in Nat : Awaits(pieces[i], l) => l > lists
    PROVE  /\ AwaitedOnce'
           /\ \A i \in 1 .. Len(todo') : \A l \in Nat :
                 Awaits(todo'[i], l) => l > lists \/ \E j \in 2 .. Len(todo) : Awaits(todo[j], l)
<1> DEFINE n == Len(pieces)
<1>1. IsSeq(todo) /\ (\A t \in Range(todo) : IsTask(t, lists, Message.size)) /\ lists \in Nat
  BY DEF Typed
<1>2. /\ \A i \in 1 .. n : todo'[i] = pieces[i]
      /\ \A i \in n + 1 .. Len(todo') : todo'[i] = todo[i - n + 1] /\ i - n + 1 \in 2 .. Len(todo)
      /\ n \in Nat /\ Len(todo) \in Nat \ {0} /\ Len(todo') = n + Len(todo) - 1
  BY <1>1, ReplaceFacts
<1> HIDE DEF n
<1>3. ASSUME NEW j \in 1 .. Len(todo), NEW l \in Nat, Awaits(todo[j], l)
      PROVE  l <= lists
  <2>1. IsTask(todo[j], lists, Message.size)
    BY <1>1, IsSeqFacts
  <2>2. QED BY <1>1, <1>3, <2>1, AwaitsFacts
<1>4. \A i \in 1 .. Len(todo') : i \in 1 .. n \/ i \in n + 1 .. Len(todo')
  BY <1>2
<1>5. ASSUME NEW i \in 1 .. n, NEW l \in Nat, Awaits(todo'[i], l)
      PROVE  l > lists /\ i = n
  <2>1. Awaits(pieces[i], l) /\ pieces[i].what = "switch"
    BY <1>2, <1>5 DEF Awaits
  <2>2. QED BY <2>1 DEF n
<1>6. ASSUME NEW i \in n + 1 .. Len(todo'), NEW l \in Nat, Awaits(todo'[i], l)
      PROVE  l <= lists /\ Awaits(todo[i - n + 1], l) /\ i - n + 1 \in 2 .. Len(todo)
  <2>1. Awaits(todo[i - n + 1], l) /\ i - n + 1 \in 2 .. Len(todo)
    BY <1>2, <1>6
  <2>2. i - n + 1 \in 1 .. Len(todo)
    BY <2>1, <1>2
  <2>3. QED BY <1>3, <2>1, <2>2
<1>7. ASSUME NEW i \in 1 .. Len(todo'), NEW j \in 1 .. Len(todo'), NEW l \in Nat, Awaits(todo'[i], l), Awaits(todo'[j], l)
      PROVE  i = j
  <2>1. CASE i \in 1 .. n /\ j \in 1 .. n
    BY <1>5, <1>7, <2>1
  <2>2. CASE i \in n + 1 .. Len(todo') /\ j \in n + 1 .. Len(todo')
    <3>1. Awaits(todo[i - n + 1], l) /\ Awaits(todo[j - n + 1], l) /\ i - n + 1 \in 1 .. Len(todo) /\ j - n + 1 \in 1 .. Len(todo)
      <4>1. Awaits(todo[i - n + 1], l) /\ i - n + 1 \in 2 .. Len(todo)
        BY <1>6, <1>7, <2>2
      <4>2. Awaits(todo[j - n + 1], l) /\ j - n + 1 \in 2 .. Len(todo)
        BY <1>6, <1>7, <2>2
      <4>3. QED BY <4>1, <4>2, <1>2
    <3>2. i - n + 1 = j - n + 1
      BY <3>1 DEF AwaitedOnce
    <3>3. QED BY <1>2, <3>2
  <2>3. CASE i \in 1 .. n /\ j \in n + 1 .. Len(todo')
    <3>1. l > lists /\ l <= lists
      BY <1>5, <1>6, <1>7, <2>3
    <3>2. QED BY <1>1, <3>1
  <2>4. CASE i \in n + 1 .. Len(todo') /\ j \in 1 .. n
    <3>1. l > lists /\ l <= lists
      BY <1>5, <1>6, <1>7, <2>4
    <3>2. QED BY <1>1, <3>1
  <2>5. QED BY <1>4, <2>1, <2>2, <2>3, <2>4
<1>8. AwaitedOnce'
  BY <1>7 DEF AwaitedOnce, Awaits
<1>9. ASSUME NEW i \in 1 .. Len(todo'), NEW l \in Nat, Awaits(todo'[i], l)
      PROVE  l > lists \/ \E j \in 2 .. Len(todo) : Awaits(todo[j], l)
  BY <1>4, <1>5, <1>6, <1>9
<1>10. QED BY <1>8, <1>9

\* What is made stays what it was as one more is made.
LEMMA TakesKeeps ==
    ASSUME NEW r \in 1 .. Len(made), made'[r] = made[r]
    PROVE  \A q : Takes(r, q)' <=> Takes(r, q)
BY DEF Takes

\* A field is put where another one was, or nothing is made.
LEMMA LinkedMadeSame ==
    ASSUME Typed, Linked, UNCHANGED made, AwaitedOnce',
           \A i \in 1 .. Len(todo') : \A l \in Nat :
              Awaits(todo'[i], l) => l > lists \/ \E j \in 1 .. Len(todo) : Awaits(todo[j], l)
    PROVE  Linked'
<1>1. \A r, s : Takes(s, r)' <=> Takes(s, r)
  BY DEF Takes
<1>2. NamedOnce' /\ TakenOnce' /\ SharedTaken'
  BY <1>1 DEF Linked, NamedOnce, TakenOnce, SharedTaken
<1>3. ASSUME NEW r \in 1 .. Len(made), NEW s \in 1 .. Len(made), Takes(s, r)
      PROVE  made[r].into # 1 /\ \A i \in 1 .. Len(todo') : ~Awaits(todo'[i], made[r].into)
  <2>1. made[r].into # 1 /\ \A i \in 1 .. Len(todo) : ~Awaits(todo[i], made[r].into)
    BY <1>3 DEF Linked, TakenInner
  <2>2. made[r].into \in 1 .. lists /\ lists \in Nat
    BY DEF Typed, IsMade, IsField
  <2> DEFINE l == made[r].into
  <2>3. l \in Nat /\ ~(l > lists)
    BY <2>2
  <2> HIDE DEF l
  <2>4. \A i \in 1 .. Len(todo') : ~Awaits(todo'[i], l)
    BY <2>1, <2>3 DEF l
  <2>5. QED BY <2>1, <2>4 DEF l
<1>4. TakenInner'
  BY <1>1, <1>3 DEF TakenInner, Awaits
<1>5. QED BY <1>2, <1>4 DEF Linked

LEMMA LinkedOpens ==
    ASSUME Typed, Linked, NEW pieces, Opens(pieces)
    PROVE  Linked'
<1>1. /\ todo # <<>> /\ IsSeq(pieces) /\ Replace(pieces) /\ UNCHANGED made
      /\ \A t \in Range(pieces) : IsPiece(t, lists, Message.size) \/ IsText1(t, lists, Message.size)
  BY DEF Opens
<1>2. \A i \in 1 .. Len(pieces) : pieces[i].what # "switch"
  BY <1>1, IsSeqFacts DEF IsPiece, IsText1
<1>3. /\ AwaitedOnce'
      /\ \A i \in 1 .. Len(todo') : \A l \in Nat :
            Awaits(todo'[i], l) => l > lists \/ \E j \in 2 .. Len(todo) : Awaits(todo[j], l)
  BY <1>1, <1>2, AwaitedReplaced DEF Linked
<1>4. 2 .. Len(todo) \subseteq 1 .. Len(todo)
  BY IsSeqFacts DEF Typed
<1>5. QED BY <1>1, <1>3, <1>4, LinkedMadeSame

LEMMA LinkedTags ==
    ASSUME Typed, Linked, NEW always, NEW alts, NEW t, Tags(always, alts, t)
    PROVE  Linked'
<1> DEFINE first == always \o alts
           pieces == first \o <<t>>
<1>1. /\ todo # <<>> /\ IsSeq(always) /\ IsSeq(alts) /\ Replace(pieces) /\ UNCHANGED made
      /\ \A a \in Range(always) : a.what = "piece"
      /\ \A j \in 1 .. Len(alts) : alts[j].what = "piece"
      /\ IsSwitch(t, lists + Len(alts), Message.size) /\ t.first = lists
  BY DEF Tags, IsPiece
<1>2. IsSeq(first) /\ \A x \in Range(first) : x.what = "piece"
  <2>1. IsSeq(first) /\ Range(first) = Range(always) \cup Range(alts)
    BY <1>1, IsSeqConcat
  <2>2. \A x \in Range(alts) : x.what = "piece"
    BY <1>1, IsSeqFacts
  <2>3. QED BY <1>1, <2>1, <2>2
<1> HIDE DEF first
<1>3. /\ IsSeq(pieces) /\ Len(pieces) = Len(first) + 1 /\ Len(first) \in Nat
      /\ pieces[Len(first) + 1] = t
      /\ \A i \in 1 .. Len(first) : pieces[i] = first[i]
  <2>1. IsSeq(<<t>>) /\ Len(<<t>>) = 1 /\ <<t>>[1] = t
    BY One
  <2>2. QED BY <1>2, <2>1, IsSeqConcat, IsSeqFacts
<1> HIDE DEF pieces
<1>4. \A i \in 1 .. Len(pieces) : pieces[i].what = "switch" => i = Len(pieces)
  <2>1. \A i \in 1 .. Len(pieces) : i \in 1 .. Len(first) \/ i = Len(pieces)
    BY <1>3
  <2>2. \A i \in 1 .. Len(first) : pieces[i].what = "piece"
    BY <1>2, <1>3, IsSeqFacts
  <2>3. QED BY <2>1, <2>2
<1>5. \A l \in Nat : Awaits(t, l) => l > lists
  <2>1. DOMAIN t.values = 1 .. Len(t.values) /\ lists \in Nat
    BY <1>1, IsSeqFacts DEF IsSwitch, Typed
  <2>2. QED BY <1>1, <2>1 DEF Awaits
<1>6. /\ AwaitedOnce'
      /\ \A i \in 1 .. Len(todo') : \A l \in Nat :
            Awaits(todo'[i], l) => l > lists \/ \E j \in 2 .. Len(todo) : Awaits(todo[j], l)
  <2>1. \A i \in 1 .. Len(pieces) : pieces[i].what = "switch" =>
              i = Len(pieces) /\ \A l \in Nat : Awaits(pieces[i], l) => l > lists
    BY <1>3, <1>4, <1>5
  <2>2. QED BY <1>1, <1>3, <2>1, AwaitedReplaced DEF Linked
<1>7. 2 .. Len(todo) \subseteq 1 .. Len(todo)
  BY IsSeqFacts DEF Typed
<1>8. QED BY <1>1, <1>6, <1>7, LinkedMadeSame

\* One field more, with names of its own but for those of the fields it takes.
LEMMA LinkedOneMore ==
    ASSUME Typed, Linked, todo # <<>>, Replace(<<>>), NEW f,
           IsSeq(made'), Len(made') = Len(made) + 1, made'[Len(made) + 1] = f,
           \A r \in 1 .. Len(made) : made'[r] = made[r],
           OnceIn(f.names), OnceIn(f.fields),
           \A k \in 1 .. Len(f.fields) : f.fields[k] \in 1 .. Len(made),
           f.kind = "switch" => \A k \in 1 .. Len(f.fields) : Awaits(todo[1], made[f.fields[k]].into),
           \A r \in 1 .. Len(made) : Range(made[r].names) \cap Range(f.names) # {} =>
              /\ f.kind = "switch"
              /\ (\E k \in 1 .. Len(f.fields) : f.fields[k] = r) \/ \E u \in 1 .. Len(made) : Takes(u, r)
    PROVE  Linked'
<1>0. PICK N : N = Len(made)
  OBVIOUS
<1>1. N \in Nat /\ \A r \in 1 .. Len(made') : r \in 1 .. N \/ r = N + 1
  BY <1>0, IsSeqFacts DEF Typed
<1>2. Len(made') = N + 1 /\ made'[N + 1] = f
  BY <1>0
<1>3. \A r \in 1 .. N : \A q : Takes(r, q)' <=> Takes(r, q)
  BY <1>0, TakesKeeps
<1>4. \A q : Takes(N + 1, q)' <=> f.kind = "switch" /\ \E k \in 1 .. Len(f.fields) : f.fields[k] = q
  BY <1>2 DEF Takes
<1>5. \A q : Takes(N + 1, q)' => q \in 1 .. N /\ Awaits(todo[1], made[q].into)
  BY <1>0, <1>4
<1>6. \A r \in 1 .. N : made[r].into \in 1 .. lists /\ made[r].into \in Nat /\ lists \in Nat
  <2>1. \A r \in 1 .. N : made[r].into \in 1 .. lists
    BY <1>0 DEF Typed, IsMade, IsField
  <2>2. QED BY <2>1 DEF Typed
<1>7. /\ IsSeq(todo) /\ Len(todo) \in Nat \ {0} /\ 1 \in 1 .. Len(todo)
      /\ \A t \in Range(todo) : IsTask(t, lists, Message.size)
  <2>1. IsSeq(todo) /\ \A t \in Range(todo) : IsTask(t, lists, Message.size)
    BY DEF Typed
  <2>2. Len(todo) \in Nat \ {0}
    BY <2>1, IsSeqTail
  <2>3. QED BY <2>1, <2>2
<1>8. /\ AwaitedOnce'
      /\ \A i \in 1 .. Len(todo') : \A l \in Nat :
            Awaits(todo'[i], l) => l > lists \/ \E j \in 2 .. Len(todo) : Awaits(todo[j], l)
  <2> DEFINE none == <<>>
  <2>1. IsSeq(none) /\ Replace(none) /\ \A i \in 1 .. Len(none) : FALSE
    BY None
  <2> HIDE DEF none
  <2>2. QED BY <1>7, <2>1, AwaitedReplaced DEF Linked
\* What was awaited is what is taken, or awaited still.
<1>9. ASSUME NEW l \in Nat, l <= lists, NEW i \in 1 .. Len(todo'), Awaits(todo'[i], l)
      PROVE  \E j \in 2 .. Len(todo) : Awaits(todo[j], l)
  <2>1. lists \in Nat
    BY DEF Typed
  <2>2. ~(l > lists)
    BY <1>9, <2>1
  <2>3. QED BY <1>8, <1>9, <2>2
<1>10. ASSUME NEW q \in 1 .. N, NEW s \in 1 .. N, Takes(s, q)
       PROVE  made[q].into # 1 /\ \A i \in 1 .. Len(todo) : ~Awaits(todo[i], made[q].into)
  BY <1>0, <1>10 DEF Linked, TakenInner
<1>11. NamedOnce'
  <2>1. ASSUME NEW r \in 1 .. Len(made') PROVE OnceIn(made'[r].names) /\ OnceIn(made'[r].fields)
    <3>1. CASE r \in 1 .. N
      BY <1>0, <3>1 DEF Linked, NamedOnce
    <3>2. CASE r = N + 1
      BY <1>2, <3>2
    <3>3. QED BY <1>1, <3>1, <3>2
  <2>2. QED BY <2>1 DEF NamedOnce, OnceIn
<1>12. ASSUME NEW q \in 1 .. Len(made'), NEW s \in 1 .. Len(made'), Takes(s, q)'
       PROVE  /\ q \in 1 .. N /\ made'[q] = made[q] /\ made[q].into # 1
              /\ \A i \in 1 .. Len(todo') : ~Awaits(todo'[i], made[q].into)
  <2>1. CASE s \in 1 .. N
    <3>1. Takes(s, q)
      BY <1>3, <1>12, <2>1
    <3>2. q \in 1 .. N
      <4>1. PICK k \in 1 .. Len(made[s].fields) : made[s].fields[k] = q /\ made[s].kind = "switch"
        BY <3>1 DEF Takes
      <4>2. q \in 1 .. s - 1
        BY <1>0, <2>1, <4>1 DEF Typed, IsMade
      <4>3. QED BY <1>1, <2>1, <4>2
    <3>3. made[q].into # 1 /\ \A i \in 1 .. Len(todo) : ~Awaits(todo[i], made[q].into)
      BY <1>10, <2>1, <3>1, <3>2
    <3> DEFINE l == made[q].into
    <3>4. l \in Nat /\ l <= lists
      BY <1>6, <3>2
    <3>5. 2 .. Len(todo) \subseteq 1 .. Len(todo)
      BY <1>7
    <3> HIDE DEF l
    <3>6. \A i \in 1 .. Len(todo') : ~Awaits(todo'[i], l)
      BY <1>9, <3>3, <3>4, <3>5 DEF l
    <3>7. QED BY <1>0, <3>2, <3>3, <3>6 DEF l
  <2>2. CASE s = N + 1
    <3> DEFINE l == made[q].into
    <3>1. q \in 1 .. N /\ Awaits(todo[1], l)
      BY <1>5, <1>12, <2>2
    <3>2. l \in Nat /\ l <= lists
      BY <1>6, <3>1
    <3> HIDE DEF l
    <3>3. l > 1
      <4>1. IsTask(todo[1], lists, Message.size)
        BY <1>7, IsSeqFacts
      <4>2. lists \in Nat
        BY DEF Typed
      <4>3. QED BY <3>1, <3>2, <4>1, <4>2, AwaitsFacts
    <3>4. \A i \in 1 .. Len(todo') : ~Awaits(todo'[i], l)
      <4>1. SUFFICES ASSUME NEW i \in 1 .. Len(todo'), Awaits(todo'[i], l) PROVE FALSE
        OBVIOUS
      <4>2. PICK j \in 2 .. Len(todo) : Awaits(todo[j], l)
        BY <1>9, <3>2, <4>1
      <4>3. j \in 1 .. Len(todo) /\ j # 1
        BY <1>7, <4>2
      <4>4. QED BY <1>7, <3>1, <3>2, <4>2, <4>3 DEF Linked, AwaitedOnce
    <3>5. l # 1
      BY <3>2, <3>3
    <3>6. QED BY <1>0, <3>1, <3>4, <3>5 DEF l
  <2>3. QED BY <1>1, <2>1, <2>2
<1>13. TakenInner'
  BY <1>12 DEF TakenInner, Awaits
<1>14. ASSUME NEW q \in 1 .. N, NEW s \in 1 .. N, Takes(s, q), Takes(N + 1, q)'
       PROVE  FALSE
  BY <1>5, <1>7, <1>10, <1>14
<1>15. TakenOnce'
  <2>1. ASSUME NEW q \in 1 .. Len(made'), NEW s \in 1 .. Len(made'), NEW u \in 1 .. Len(made'), Takes(s, q)', Takes(u, q)'
        PROVE  s = u
    <3>1. q \in 1 .. N
      BY <1>12, <2>1
    <3>2. CASE s \in 1 .. N /\ u \in 1 .. N
      BY <1>0, <1>3, <2>1, <3>1, <3>2 DEF Linked, TakenOnce
    <3>3. CASE s \in 1 .. N /\ u = N + 1
      BY <1>3, <1>14, <2>1, <3>1, <3>3
    <3>4. CASE u \in 1 .. N /\ s = N + 1
      BY <1>3, <1>14, <2>1, <3>1, <3>4
    <3>5. QED BY <1>1, <3>2, <3>3, <3>4
  <2>2. QED BY <2>1 DEF TakenOnce
<1>16. SharedTaken'
  <2>1. ASSUME NEW r \in 1 .. Len(made'), NEW s \in 1 .. Len(made'), r < s,
               Range(made'[r].names) \cap Range(made'[s].names) # {}
        PROVE  made'[s].kind = "switch" /\ \E u \in 1 .. s : Takes(u, r)'
    <3>1. CASE s \in 1 .. N
      <4>1. r \in 1 .. N
        BY <1>1, <2>1, <3>1
      <4>2. made[s].kind = "switch" /\ \E u \in 1 .. s : Takes(u, r)
        BY <1>0, <2>1, <3>1, <4>1 DEF Linked, SharedTaken
      <4>3. 1 .. s \subseteq 1 .. N
        BY <1>1, <3>1
      <4>4. QED BY <1>0, <1>3, <3>1, <4>2, <4>3
    <3>2. CASE s = N + 1
      <4>1. r \in 1 .. N
        BY <1>1, <2>1, <3>2
      <4>2. Range(made[r].names) \cap Range(f.names) # {}
        BY <1>2, <2>1, <3>2, <4>1, <1>0
      <4>6. f.kind = "switch" /\ made'[s].kind = "switch"
        BY <1>0, <1>2, <3>2, <4>1, <4>2
      <4>3. CASE \E k \in 1 .. Len(f.fields) : f.fields[k] = r
        <5>1. Takes(N + 1, r)' /\ N + 1 \in 1 .. s
          BY <1>1, <1>4, <3>2, <4>3, <4>6
        <5>2. QED BY <3>2, <4>6, <5>1
      <4>4. CASE \E u \in 1 .. N : Takes(u, r)
        <5>1. PICK u \in 1 .. N : Takes(u, r)
          BY <4>4
        <5>2. u \in 1 .. s /\ Takes(u, r)'
          BY <1>1, <1>3, <3>2, <5>1
        <5>3. QED BY <4>6, <5>2
      <4>5. QED BY <4>1, <4>2, <4>3, <4>4, <1>0
    <3>3. QED BY <1>1, <3>1, <3>2
  <2>2. QED BY <2>1 DEF SharedTaken
<1>17. QED BY <1>8, <1>11, <1>13, <1>15, <1>16 DEF Linked

LEMMA LinkedAdds ==
    ASSUME Typed, Linked, NEW paths, NEW at, NEW each, Adds(paths, at, each)
    PROVE  Linked'
<1> DEFINE f == Plain(used, paths, at, each, Now.into)
           w == used \o paths
           N == Len(used)
<1>1. todo # <<>> /\ IsSeq(paths) /\ made' = Append(made, f) /\ Replace(<<>>)
  BY DEF Adds, AddField
<1>2. /\ f.kind = "plain" /\ IsSeq(f.names) /\ Len(f.names) = Len(paths) /\ f.fields = <<>>
      /\ \A k \in 1 .. Len(paths) : f.names[k] = Unique(w, N + k)
  <2> DEFINE into == Now.into
             a == at
             e == each
             g == Plain(used, paths, a, e, into)
  <2> HIDE DEF into, a, e
  <2>1. /\ g.kind = "plain" /\ IsSeq(g.names) /\ Len(g.names) = Len(paths) /\ g.fields = <<>>
    BY <1>1, PlainNames
  <2>2. \A k \in 1 .. Len(paths) : g.names[k] = Unique(used \o paths, Len(used) + k)
    BY <1>1, PlainUnique
  <2>3. QED BY <2>1, <2>2 DEF into, a, e
<1> HIDE DEF f
<1>3. IsSeq(used) /\ IsSeq(made)
  BY DEF Typed
<1>4. N \in Nat /\ Len(paths) \in Nat /\ Len(made) \in Nat
  BY <1>1, <1>3, IsSeqFacts
<1>5. \A p \in 1 .. N : Unique(w, p) = Unique(used, p)
  BY <1>1, <1>3, UniqueKeeps
<1> HIDE DEF w, N
<1>6. OnceIn(f.names)
  <2>1. SUFFICES ASSUME NEW a \in 1 .. Len(paths), NEW b \in 1 .. Len(paths), f.names[a] = f.names[b], a # b
                 PROVE  FALSE
    BY <1>2 DEF OnceIn
  <2>2. Unique(w, N + a) = Unique(w, N + b)
    BY <1>2, <2>1
  <2>3. N + a \in Nat /\ N + b \in Nat /\ 1 <= N + a /\ 1 <= N + b /\ (N + a < N + b \/ N + b < N + a)
    BY <1>4, <2>1
  <2> DEFINE p == N + a
             q == N + b
  <2>4. p \in Nat /\ q \in Nat /\ 1 <= p /\ 1 <= q /\ (p < q \/ q < p) /\ Unique(w, p) = Unique(w, q)
    BY <2>2, <2>3
  <2> HIDE DEF p, q
  <2>5. QED BY <2>4, UniqueDiffers
<1>7. ASSUME NEW r \in 1 .. Len(made), Range(made[r].names) \cap Range(f.names) # {}
      PROVE  FALSE
  <2>1. made[r].names \in Seq(Given)
    BY DEF Typed, IsMade
  <2>2. Range(made[r].names) \subseteq Given
    <3> DEFINE G == Given
               s == made[r].names
    <3>1. s \in Seq(G)
      BY <2>1
    <3> HIDE DEF G, s
    <3>2. Range(s) \subseteq G
      BY <3>1, IsSeqOf
    <3>3. QED BY <3>2 DEF G, s
  <2>3. PICK c : c \in Given /\ c \in Range(f.names)
    BY <1>7, <2>2
  <2>4. PICK p \in 1 .. N : c = Unique(used, p)
    BY <2>3 DEF Given, N
  <2>5. PICK k \in 1 .. Len(paths) : c = f.names[k]
    BY <1>2, <2>3, IsSeqFacts
  <2> DEFINE q == N + k
  <2>6. Unique(w, p) = Unique(w, q)
    BY <1>2, <1>5, <2>4, <2>5
  <2>7. p \in Nat /\ q \in Nat /\ 1 <= p /\ p < q
    BY <1>4
  <2> HIDE DEF q
  <2>8. QED BY <2>6, <2>7, UniqueDiffers
<1>8. /\ IsSeq(made') /\ Len(made') = Len(made) + 1 /\ made'[Len(made) + 1] = f
      /\ \A r \in 1 .. Len(made) : made'[r] = made[r]
  BY <1>1, <1>3, IsSeqAppend
<1>9. OnceIn(f.fields) /\ \A k \in 1 .. Len(f.fields) : FALSE
  BY <1>2 DEF OnceIn
<1>10. f.kind # "switch"
  BY <1>2
<1>11. QED BY <1>1, <1>6, <1>7, <1>8, <1>9, <1>10, LinkedOneMore

LEMMA LinkedMakeSwitch ==
    ASSUME Typed, Linked, MakeSwitch
    PROVE  Linked'
<1> DEFINE f == Switch(made, Now)
           n == Len(f.fields)
<1>1. todo # <<>> /\ Now.what = "switch" /\ Now = todo[1] /\ made' = Append(made, f) /\ Replace(<<>>)
  <2>1. todo # <<>> /\ Now.what = "switch" /\ made' = Append(made, f) /\ Replace(<<>>)
    BY DEF MakeSwitch
  <2>2. Now = todo[1]
    BY <2>1, IsSeqTail DEF Typed, Now
  <2>3. QED BY <2>1, <2>2
<1>2. /\ IsField(f, lists, Message.size) /\ f.kind = "switch"
      /\ f.names = NamesOf(made, f.fields)
      /\ \A k \in 1 .. n : f.fields[k] \in 1 .. Len(made) /\ f.fields[k] \in Kept(Now)
      /\ \A a, b \in 1 .. n : f.fields[a] = f.fields[b] => a = b
  BY SwitchFacts
<1>3. IsSeq(f.fields) /\ IsSeq(f.names)
  BY <1>2 DEF IsField
<1> HIDE DEF f
<1>4. OnceIn(f.fields)
  BY <1>2 DEF OnceIn
<1>5. \A k \in 1 .. n : Awaits(todo[1], made[f.fields[k]].into)
  BY <1>1, <1>2 DEF Kept, Awaits
\* Nothing it takes was taken before.
<1>6. ASSUME NEW k \in 1 .. n, NEW u \in 1 .. Len(made), Takes(u, f.fields[k])
      PROVE  FALSE
  <2>1. 1 \in 1 .. Len(todo)
    <3>1. Len(todo) \in Nat \ {0}
      BY <1>1, IsSeqTail DEF Typed
    <3>2. QED BY <3>1
  <2>2. f.fields[k] \in 1 .. Len(made)
    BY <1>2
  <2>3. QED BY <1>5, <1>6, <2>1, <2>2 DEF Linked, TakenInner
<1>7. \A r \in 1 .. Len(made) : made[r].names \in Seq(Given) /\ OnceIn(made[r].names)
  BY DEF Typed, IsMade, Linked, NamedOnce
\* Fields it takes share no name.
<1>8. ASSUME NEW i \in 1 .. n, NEW j \in 1 .. n, i # j
      PROVE  Range(made[f.fields[i]].names) \cap Range(made[f.fields[j]].names) = {}
  <2>1. SUFFICES ASSUME Range(made[f.fields[i]].names) \cap Range(made[f.fields[j]].names) # {} PROVE FALSE
    OBVIOUS
  <2> DEFINE a == f.fields[i]
             b == f.fields[j]
  <2>2. a \in 1 .. Len(made) /\ b \in 1 .. Len(made) /\ a # b /\ Len(made) \in Nat
    BY <1>2, <1>8, IsSeqFacts DEF Typed
  <2>3. a < b \/ b < a
    BY <2>2
  <2>4. 1 .. a \subseteq 1 .. Len(made) /\ 1 .. b \subseteq 1 .. Len(made)
    BY <2>2
  <2>5. CASE a < b
    <3>1. \E u \in 1 .. b : Takes(u, a)
      BY <2>1, <2>2, <2>5 DEF Linked, SharedTaken
    <3>2. QED BY <1>6, <2>4, <3>1
  <2>6. CASE b < a
    <3>1. \E u \in 1 .. a : Takes(u, b)
      BY <2>1, <2>2, <2>6 DEF Linked, SharedTaken
    <3>2. QED BY <1>6, <2>4, <3>1
  <2>7. QED BY <2>3, <2>5, <2>6
<1> DEFINE ss == [k \in DOMAIN f.fields |-> made[f.fields[k]].names]
<1>9. n \in Nat /\ DOMAIN f.fields = 1 .. n
  BY <1>3, IsSeqFacts
<1>10. f.names = FlattenSeq(ss)
  BY <1>2 DEF NamesOf
<1>11. ss = [k \in 1 .. n |-> ss[k]] /\ \A k \in 1 .. n : ss[k] = made[f.fields[k]].names
  BY <1>9
<1> HIDE DEF ss, n
<1>12. IsSeq(ss) /\ Len(ss) = n
  BY <1>9, <1>11, IsSeqFrom
<1>13. \A k \in 1 .. n : ss[k] \in Seq(Given) /\ OnceIn(ss[k])
  BY <1>2, <1>7, <1>11
<1>14. OnceIn(f.names)
  <2> DEFINE G == Given
  <2>1. \A i \in 1 .. Len(ss) : ss[i] \in Seq(G)
    BY <1>12, <1>13
  <2>2. \A i \in 1 .. Len(ss) : \A a, b \in 1 .. Len(ss[i]) : ss[i][a] = ss[i][b] => a = b
    BY <1>12, <1>13 DEF OnceIn
  <2>3. \A i, j \in 1 .. Len(ss) : i < j => Range(ss[i]) \cap Range(ss[j]) = {}
    <3>1. \A i, j \in 1 .. n : i < j => i # j
      BY <1>9
    <3>2. QED BY <1>8, <1>11, <1>12, <3>1
  <2> HIDE DEF G
  <2>4. \A a, b \in 1 .. Len(FlattenSeq(ss)) : FlattenSeq(ss)[a] = FlattenSeq(ss)[b] => a = b
    BY ONLY <1>12, <2>1, <2>2, <2>3, FlattenDistinct
  <2>5. QED BY <1>10, <2>4 DEF OnceIn
<1>15. ASSUME NEW r \in 1 .. Len(made), Range(made[r].names) \cap Range(f.names) # {}
       PROVE  (\E k \in 1 .. n : f.fields[k] = r) \/ \E u \in 1 .. Len(made) : Takes(u, r)
  <2>1. PICK c : c \in Range(made[r].names) /\ c \in Range(f.names)
    BY <1>15
  <2>2. \E k \in 1 .. n : c \in Range(made[f.fields[k]].names)
    <3> DEFINE G == Given
    <3>1. \A k \in 1 .. Len(f.fields) : made[f.fields[k]].names \in Seq(G)
      BY <1>2, <1>7 DEF n
    <3> HIDE DEF G
    <3>2. \A e : e \in Range(NamesOf(made, f.fields)) <=> \E k \in 1 .. Len(f.fields) : e \in Range(made[f.fields[k]].names)
      BY <1>3, <3>1, NamesOfFacts
    <3>3. QED BY <1>2, <2>1, <3>2 DEF n
  <2>3. PICK k \in 1 .. n : c \in Range(made[f.fields[k]].names)
    BY <2>2
  <2> DEFINE b == f.fields[k]
  <2>4. b \in 1 .. Len(made) /\ Len(made) \in Nat /\ Range(made[r].names) \cap Range(made[b].names) # {}
    BY <1>2, <2>1, <2>3, IsSeqFacts DEF Typed, n
  <2>5. CASE r = b
    BY <2>5
  <2>6. CASE r < b
    <3>1. \E u \in 1 .. b : Takes(u, r)
      BY <2>4, <2>6 DEF Linked, SharedTaken
    <3>2. 1 .. b \subseteq 1 .. Len(made)
      BY <2>4
    <3>3. QED BY <3>1, <3>2
  <2>7. CASE b < r
    <3>1. \E u \in 1 .. r : Takes(u, b)
      <4>1. Range(made[b].names) \cap Range(made[r].names) # {}
        BY <2>4
      <4>2. QED BY <2>4, <2>7, <4>1 DEF Linked, SharedTaken
    <3>2. 1 .. r \subseteq 1 .. Len(made)
      BY <2>4
    <3>3. QED BY <1>6, <3>1, <3>2
  <2>8. r < b \/ r = b \/ b < r
    BY <2>4
  <2>9. QED BY <2>5, <2>6, <2>7, <2>8
<1>16. /\ IsSeq(made') /\ Len(made') = Len(made) + 1 /\ made'[Len(made) + 1] = f
       /\ \A r \in 1 .. Len(made) : made'[r] = made[r]
  BY <1>1, IsSeqAppend DEF Typed
<1>17. QED BY <1>1, <1>2, <1>4, <1>5, <1>14, <1>15, <1>16, LinkedOneMore DEF n

LEMMA LinkedStart ==
    ASSUME IsSeq(todo'), \A t \in Range(todo') : t.what # "switch", made' = <<>>
    PROVE  Linked'
<1>1. \A i \in 1 .. Len(todo') : todo'[i].what # "switch"
  BY IsSeqFacts
<1>2. Len(made') = 0 /\ 1 .. 0 = {}
  BY None
<1>3. QED BY <1>1, <1>2 DEF Linked, NamedOnce, TakenInner, TakenOnce, SharedTaken, AwaitedOnce, Awaits

LEMMA LinkedInit == Init => Linked
<1>1. SUFFICES ASSUME Init PROVE Linked
  OBVIOUS
<1>2. 1 .. Len(made) = {} /\ 1 .. Len(todo) = {}
  BY <1>1, None DEF Init
<1>3. QED BY <1>2 DEF Linked, NamedOnce, TakenInner, TakenOnce, SharedTaken, AwaitedOnce

LEMMA LinkedBegin ==
    ASSUME Typed, Begin
    PROVE  Linked'
<1>1. status = "start" /\ Compiles /\ todo' = Pieces(Walked, <<>>, 0, 1, 1) /\ made' = made
  BY DEF Begin
<1>2. made' = <<>>
  BY <1>1 DEF Typed
<1>3. IsSeq(todo') /\ \A t \in Range(todo') : \E m \in Range(Walked) : t = Piece(m, <<>>, 0, 1, 1)
  BY <1>1, WalkedFacts, PiecesFacts
<1>4. \A t \in Range(todo') : t.what # "switch"
  BY <1>3 DEF Piece
<1>5. QED BY <1>2, <1>3, <1>4, LinkedStart

LEMMA LinkedSame ==
    ASSUME Linked, UNCHANGED <<todo, made>>
    PROVE  Linked'
<1>1. \A r, s : Takes(s, r)' <=> Takes(s, r)
  BY DEF Takes
<1>2. NamedOnce' /\ TakenOnce' /\ SharedTaken'
  BY <1>1 DEF Linked, NamedOnce, TakenOnce, SharedTaken
<1>3. TakenInner'
  BY <1>1 DEF Linked, TakenInner
<1>4. AwaitedOnce'
  BY DEF Linked, AwaitedOnce
<1>5. QED BY <1>2, <1>3, <1>4 DEF Linked

LEMMA LinkedNext == Typed /\ Linked /\ [Next]_vars => Linked'
<1>1. SUFFICES ASSUME Typed, Linked, [Next]_vars PROVE Linked'
  OBVIOUS
<1>2. CASE Refuse
  BY <1>1, <1>2, LinkedSame DEF Refuse
<1>3. CASE Begin
  BY <1>1, <1>3, LinkedBegin
<1>4. CASE Walk
  <2>1. CASE \E paths, at, each : Adds(paths, at, each)
    BY <1>1, <2>1, LinkedAdds
  <2>2. CASE \E pieces : Opens(pieces)
    BY <1>1, <2>2, LinkedOpens
  <2>3. CASE \E always, alts, t : Tags(always, alts, t)
    BY <1>1, <2>3, LinkedTags
  <2>4. CASE MakeSwitch
    BY <1>1, <2>4, LinkedMakeSwitch
  <2>5. QED BY <1>1, <1>4, <2>1, <2>2, <2>3, <2>4, WalkShapes
<1>5. CASE Finish
  BY <1>1, <1>5, LinkedSame DEF Finish
<1>6. CASE Decode
  BY <1>1, <1>6, LinkedSame DEF Decode
<1>7. CASE UNCHANGED vars
  BY <1>1, <1>7, LinkedSame DEF vars
<1>8. QED BY <1>1, <1>2, <1>3, <1>4, <1>5, <1>6, <1>7 DEF Next

\* At any time of the walk, a field takes others once and for all, and only what
\* it takes has a name of its.
THEOREM LinkedAlways == Spec => []Linked
<1>1. Init => Typed /\ Linked
  BY TypedInit, LinkedInit
<1>2. (Typed /\ Linked) /\ [Next]_vars => (Typed /\ Linked)'
  BY TypedNext, LinkedNext
<1>3. QED BY <1>1, <1>2, PTL DEF Spec

LEMMA ColumnsDistinctFrom == Typed /\ Linked => ColumnsDistinct
<1>1. SUFFICES ASSUME Typed, Linked PROVE ColumnsDistinct
  OBVIOUS
<1> DEFINE n == Len(Fields)
           ss == [k \in DOMAIN Fields |-> made[Fields[k]].names]
<1>2. /\ n \in Nat /\ DOMAIN Fields = 1 .. n
      /\ \A k \in 1 .. n : Fields[k] \in 1 .. Len(made) /\ made[Fields[k]].into = 1
      /\ \A a, b \in 1 .. n : Fields[a] = Fields[b] => a = b
  BY <1>1, FieldsFacts
<1>3. \A r \in 1 .. Len(made) : made[r].names \in Seq(Given) /\ OnceIn(made[r].names)
  BY <1>1 DEF Typed, IsMade, Linked, NamedOnce
<1>4. Columns = FlattenSeq(ss)
  BY DEF Columns, NamesOf
<1>5. ss = [k \in 1 .. n |-> ss[k]] /\ \A k \in 1 .. n : ss[k] = made[Fields[k]].names
  BY <1>2
<1> HIDE DEF ss, n
<1>6. IsSeq(ss) /\ Len(ss) = n
  BY <1>2, <1>5, IsSeqFrom
<1>7. ASSUME NEW i \in 1 .. n, NEW j \in 1 .. n, i # j
      PROVE  Range(ss[i]) \cap Range(ss[j]) = {}
  <2>1. SUFFICES ASSUME Range(ss[i]) \cap Range(ss[j]) # {} PROVE FALSE
    OBVIOUS
  <2> DEFINE a == Fields[i]
             b == Fields[j]
  <2>2. /\ a \in 1 .. Len(made) /\ b \in 1 .. Len(made) /\ a # b /\ Len(made) \in Nat
        /\ made[a].into = 1 /\ made[b].into = 1
    BY <1>1, <1>2, <1>7, IsSeqFacts DEF Typed
  <2>3. Range(made[a].names) \cap Range(made[b].names) # {}
    BY <1>5, <2>1
  <2> HIDE DEF a, b
  <2>4. a < b \/ b < a
    BY <2>2
  <2>5. 1 .. a \subseteq 1 .. Len(made) /\ 1 .. b \subseteq 1 .. Len(made)
    BY <2>2
  <2>6. \A u \in 1 .. Len(made) : ~Takes(u, a) /\ ~Takes(u, b)
    BY <1>1, <2>2 DEF Linked, TakenInner
  <2>7. CASE a < b
    <3>1. \E u \in 1 .. b : Takes(u, a)
      BY <1>1, <2>2, <2>3, <2>7 DEF Linked, SharedTaken
    <3>2. QED BY <2>5, <2>6, <3>1
  <2>8. CASE b < a
    <3>1. \E u \in 1 .. a : Takes(u, b)
      BY <1>1, <2>2, <2>3, <2>8 DEF Linked, SharedTaken
    <3>2. QED BY <2>5, <2>6, <3>1
  <2>9. QED BY <2>4, <2>7, <2>8
<1> DEFINE G == Given
<1>8. \A i \in 1 .. Len(ss) : ss[i] \in Seq(G)
  BY <1>2, <1>3, <1>5, <1>6
<1>9. \A i \in 1 .. Len(ss) : \A a, b \in 1 .. Len(ss[i]) : ss[i][a] = ss[i][b] => a = b
  BY <1>2, <1>3, <1>5, <1>6 DEF OnceIn
<1>10. \A i, j \in 1 .. Len(ss) : i < j => Range(ss[i]) \cap Range(ss[j]) = {}
  <2>1. \A i, j \in 1 .. n : i < j => i # j
    BY <1>2
  <2>2. QED BY <1>6, <1>7, <2>1
<1> HIDE DEF G
<1>11. \A a, b \in 1 .. Len(FlattenSeq(ss)) : FlattenSeq(ss)[a] = FlattenSeq(ss)[b] => a = b
  BY ONLY <1>6, <1>8, <1>9, <1>10, FlattenDistinct
<1>12. IsSeq(Columns)
  <2>1. FlattenSeq(ss) \in Seq(G)
    BY ONLY <1>6, <1>8, FlattenRange
  <2>2. QED BY <1>4, <2>1, IsSeqOf
<1>13. DOMAIN Columns = 1 .. Len(Columns)
  BY <1>12, IsSeqFacts
<1>14. QED BY <1>4, <1>11, <1>13 DEF ColumnsDistinct

\* For every type file, message type, mapping of unions and option: two columns
\* of one message never have the same name (_unique).
THEOREM ColumnsDistinctAlways == Spec => []ColumnsDistinct
<1>1. Typed /\ Linked => ColumnsDistinct
  BY ColumnsDistinctFrom
<1>2. QED BY <1>1, TypedAlways, LinkedAlways, PTL

-----------------------------------------------------------------------------
(* What the cells of a row show.                                            *)

\* The cell shows bytes of that name, inside the packet.
ShowsIn(cell, c, p) == /\ \E leaf \in Shows(c) : cell = [at |-> p.base + leaf.at, width |-> leaf.width]
                       /\ cell.at + cell.width <= p.limit

\* The packet's identifiers are what the tagged unions' fields up to r have that name for.
ChosenBy(r, c, p) ==
    \A s \in 1 .. r : made[s].kind = "switch" =>
       \A k \in 1 .. Len(made[s].fields) :
          c \in Range(made[made[s].fields[k]].names) => Selects(made[s], k, p)

\* There is a cell for each name of the field, of that name if it has a value.
Right(r, p) ==
    /\ Len(Cells(made, p)[r]) = Len(made[r].names)
    /\ \A k \in 1 .. Len(made[r].names) :
          Cells(made, p)[r][k] # Null =>
             ShowsIn(Cells(made, p)[r][k], made[r].names[k], p) /\ ChosenBy(r, made[r].names[k], p)

\* Every cell has a value that the identifiers do not leave empty.
Filled(r, p) ==
    \A k \in 1 .. Len(made[r].names) :
       ChosenBy(Len(made), made[r].names[k], p) => Cells(made, p)[r][k] # Null

\* The fields, their names and what a switch takes.
LEMMA FieldFacts ==
    ASSUME Typed, NEW r \in 1 .. Len(made)
    PROVE  /\ IsField(made[r], lists, Message.size) /\ IsSeq(made[r].names) /\ IsSeq(made[r].fields)
           /\ made[r].names \in Seq(Given) /\ Len(made[r].names) \in Nat /\ Len(made[r].fields) \in Nat
           /\ made[r].kind \in {"plain", "switch"}
           /\ made[r].kind = "plain" => made[r].width = Len(made[r].names) * made[r].each
           /\ made[r].kind = "switch" => /\ \A k \in 1 .. Len(made[r].fields) : made[r].fields[k] \in 1 .. r - 1
                                         /\ made[r].names = NamesOf(made, made[r].fields)
           /\ Len(made) \in Nat /\ 1 .. r - 1 \subseteq 1 .. Len(made)
<1>1. IsMade(r) /\ IsSeq(made)
  BY DEF Typed
<1>2. IsField(made[r], lists, Message.size)
  BY <1>1 DEF IsMade
<1>3. IsSeq(made[r].names) /\ IsSeq(made[r].fields) /\ made[r].kind \in {"plain", "switch"}
  BY <1>2 DEF IsField
<1>4. Len(made[r].names) \in Nat /\ Len(made[r].fields) \in Nat /\ Len(made) \in Nat
  BY <1>1, <1>3, IsSeqFacts
<1>5. 1 .. r - 1 \subseteq 1 .. Len(made)
  BY <1>4
<1>6. QED BY <1>1, <1>2, <1>3, <1>4, <1>5 DEF IsMade

LEMMA ReadsShort ==
    ASSUME Typed, NEW r \in 1 .. Len(made), NEW p, IsPacket(p), ~FieldFits(made[r], p)
    PROVE  /\ Len(Cells(made, p)[r]) = Len(made[r].names)
           /\ \A k \in 1 .. Len(made[r].names) : Cells(made, p)[r][k] = Null
<1>1. Cells(made, p)[r] = Read(made[r], Cells(made, p), p)
  BY CellsFacts
<1>2. Cells(made, p)[r] = Nulls(Len(made[r].names))
  BY <1>1 DEF Read
<1>3. QED BY <1>2, FieldFacts, NullsFacts

LEMMA ReadsPlain ==
    ASSUME Typed, NEW r \in 1 .. Len(made), NEW p, IsPacket(p), FieldFits(made[r], p), made[r].kind = "plain"
    PROVE  /\ Len(Cells(made, p)[r]) = Len(made[r].names)
           /\ \A k \in 1 .. Len(made[r].names) :
                 LET cell == Cells(made, p)[r][k]
                 IN  cell # Null /\ ShowsIn(cell, made[r].names[k], p)
<1> DEFINE f == made[r]
           cells == Cells(made, p)
           n == Len(f.names)
<1>1. cells[r] = Read(f, cells, p)
  BY CellsFacts
<1>2. IsSeq(f.names) /\ n \in Nat /\ f.width = n * f.each /\ f.at \in Nat /\ f.each \in Nat
  BY FieldFacts DEF IsField
<1>3. f.kind = "plain" /\ FieldFits(f, p) /\ p.base \in Nat /\ p.limit \in Nat
  BY DEF IsPacket
<1>4. r \in DOMAIN made \ Switches
  BY <1>3, IsSeqFacts DEF Typed, Switches
<1> HIDE DEF cells
<1>5. /\ Len(cells[r]) = n
      /\ \A k \in 1 .. n : cells[r][k] = [at |-> p.base + f.at + (k - 1) * f.each, width |-> f.each]
  <2> HIDE DEF f, n
  <2>1. QED BY <1>1, <1>2, <1>3, PlainReads DEF n
<1>6. ASSUME NEW k \in 1 .. n
      PROVE  cells[r][k] # Null /\ ShowsIn(cells[r][k], f.names[k], p)
  <2> DEFINE b == (k - 1) * f.each
             at == f.at + b
             leaf == [path |-> f.names[k].path, at |-> at, width |-> f.each]
  <2>1. b \in Nat /\ b + f.each <= n * f.each
    <3> DEFINE e == f.each
               w == n
    <3>1. e \in Nat /\ w \in Nat /\ k \in 1 .. w
      BY <1>2
    <3> HIDE DEF e, w
    <3>2. (k - 1) * e \in Nat /\ (k - 1) * e + e <= w * e
      BY <3>1, PartOf
    <3>3. QED BY <3>2 DEF e, w
  <2>2. leaf \in Shows(f.names[k])
    <3>1. k \in DOMAIN f.names
      BY <1>2, IsSeqFacts
    <3>2. leaf \in {[path |-> f.names[k].path, at |-> f.at + (j - 1) * f.each, width |-> f.each] :
                       j \in {j \in DOMAIN f.names : f.names[j] = f.names[k]}}
      BY <3>1
    <3>3. QED BY <1>4, <3>2 DEF Shows
  <2> HIDE DEF b
  <2>3. p.base + f.at + b = p.base + at /\ p.base + at \in Nat /\ p.base + at + f.each <= p.limit
    <3>1. p.base + f.at + f.width <= p.limit
      BY <1>3 DEF FieldFits
    <3>2. b + f.each <= f.width
      BY <1>2, <2>1
    <3> DEFINE x == p.base
               y == f.at
               z == f.each
               w == f.width
               l == p.limit
    <3>3. x \in Nat /\ y \in Nat /\ z \in Nat /\ b \in Nat /\ l \in Nat /\ w \in Nat /\ x + y + w <= l /\ b + z <= w
      <4>1. w \in Nat
        BY FieldFacts DEF IsField
      <4>2. QED BY <1>2, <1>3, <2>1, <3>1, <3>2, <4>1
    <3> HIDE DEF x, y, z, w, l
    <3>4. x + y + b = x + (y + b) /\ x + (y + b) \in Nat /\ x + (y + b) + z <= l
      BY <3>3
    <3>5. QED BY <3>4 DEF x, y, z, l
  <2>4. cells[r][k] = [at |-> p.base + f.at + b, width |-> f.each]
    BY <1>5 DEF b
  <2>5. cells[r][k] = [at |-> p.base + leaf.at, width |-> leaf.width]
    BY <2>3, <2>4
  <2>6. cells[r][k].at = p.base + at /\ cells[r][k].width = f.each
    BY <2>5
  <2>7. cells[r][k] # Null
    <3>1. NoSize \notin Nat /\ Null.at = NoSize
      BY DEF Null, NoSize
    <3>2. QED BY <2>3, <2>6, <3>1
  <2> HIDE DEF leaf, at
  <2>8. \E one \in Shows(f.names[k]) : cells[r][k] = [at |-> p.base + one.at, width |-> one.width]
    BY <2>2, <2>5
  <2>9. QED BY <2>3, <2>6, <2>7, <2>8 DEF ShowsIn
<1>7. QED BY <1>5, <1>6 DEF cells

\* A tagged union's field reads as the fields it takes, or as nothing.
LEMMA ReadsSwitch ==
    ASSUME Typed, NEW r \in 1 .. Len(made), NEW p, IsPacket(p), FieldFits(made[r], p), made[r].kind = "switch",
           \A q \in 1 .. r - 1 : Len(Cells(made, p)[q]) = Len(made[q].names)
    PROVE  /\ Len(Cells(made, p)[r]) = Len(made[r].names)
           /\ \A a \in 1 .. Len(made[r].names) :
                 \E k \in 1 .. Len(made[r].fields) : \E b \in 1 .. Len(made[made[r].fields[k]].names) :
                    /\ made[r].names[a] = made[made[r].fields[k]].names[b]
                    /\ Cells(made, p)[r][a] = IF Selects(made[r], k, p)
                                              THEN Cells(made, p)[made[r].fields[k]][b] ELSE Null
<1> DEFINE f == made[r]
           cells == Cells(made, p)
           n == Len(f.fields)
           ss == [k \in DOMAIN f.fields |-> made[f.fields[k]].names]
           tt == Parts(f, cells, p)
           G == Given
           C == Cell
           on(k) == Selects(f, k, p)
<1>1. cells[r] = Read(f, cells, p) /\ \A q \in 1 .. Len(made) : cells[q] \in Seq(C)
  BY CellsFacts
<1>2. IsSeq(f.fields) /\ n \in Nat /\ f.names = NamesOf(made, f.fields) /\ Len(made) \in Nat
      /\ \A k \in 1 .. n : f.fields[k] \in 1 .. r - 1 /\ f.fields[k] \in 1 .. Len(made)
  BY FieldFacts
<1>3. \A q \in 1 .. Len(made) : made[q].names \in Seq(G)
  BY FieldFacts
<1>4. cells[r] = FlattenSeq(tt)
  BY <1>1 DEF Read, Parts, Selects
<1>5. f.names = FlattenSeq(ss)
  BY <1>2 DEF NamesOf
<1>6. DOMAIN f.fields = 1 .. n
  BY <1>2, IsSeqFacts
<1>7. ss = [k \in 1 .. n |-> ss[k]] /\ \A k \in 1 .. n : ss[k] = made[f.fields[k]].names
  BY <1>6
<1>8. \A k \in 1 .. n : Len(cells[f.fields[k]]) = Len(made[f.fields[k]].names)
  BY <1>2
<1> HIDE DEF ss, cells, f, G
<1>9. /\ IsSeq(tt) /\ Len(tt) = n
      /\ \A k \in 1 .. n : /\ tt[k] = (IF on(k) THEN cells[f.fields[k]] ELSE Nulls(Len(cells[f.fields[k]])))
                           /\ tt[k] \in Seq(C) /\ Len(tt[k]) = Len(cells[f.fields[k]])
  <2>1. \A k \in 1 .. n : cells[f.fields[k]] \in Seq(Cell)
    BY <1>1, <1>2
  <2>2. QED BY <1>2, <2>1, PartsFacts
<1> HIDE DEF tt, n, C
<1>10. IsSeq(ss) /\ Len(ss) = n
  BY <1>2, <1>7, IsSeqFrom
<1>11. \A k \in 1 .. Len(ss) : ss[k] \in Seq(G) /\ tt[k] \in Seq(C) /\ Len(tt[k]) = Len(ss[k])
  BY <1>2, <1>3, <1>7, <1>8, <1>9, <1>10
<1>12. /\ Len(FlattenSeq(tt)) = Len(FlattenSeq(ss))
       /\ \A a \in 1 .. Len(FlattenSeq(ss)) : \E k \in 1 .. Len(ss) : \E b \in 1 .. Len(ss[k]) :
             FlattenSeq(ss)[a] = ss[k][b] /\ FlattenSeq(tt)[a] = tt[k][b]
  <2>1. Len(tt) = Len(ss)
    BY <1>9, <1>10
  <2>2. IsSeq(tt) /\ IsSeq(ss)
    BY <1>9, <1>10
  <2>3. \A k \in 1 .. Len(ss) : IsSeq(ss[k]) /\ IsSeq(tt[k]) /\ Len(tt[k]) = Len(ss[k])
    BY <1>11, IsSeqOf
  <2> DEFINE u == ss
             v == tt
  <2> HIDE DEF u, v
  <2>4. IsSeq(u) /\ IsSeq(v) /\ Len(v) = Len(u) /\ \A k \in 1 .. Len(u) : IsSeq(u[k]) /\ IsSeq(v[k]) /\ Len(v[k]) = Len(u[k])
    BY <2>1, <2>2, <2>3 DEF u, v
  <2>5. Alongside(FlattenSeq(u), FlattenSeq(v), u, v)
    BY <2>4, FlattenParallel DEF SameLengths
  <2>6. QED BY <2>5 DEF u, v, Alongside
<1>13. ASSUME NEW a \in 1 .. Len(f.names)
       PROVE  \E k \in 1 .. n : \E b \in 1 .. Len(made[f.fields[k]].names) :
                 /\ f.names[a] = made[f.fields[k]].names[b]
                 /\ cells[r][a] = IF on(k) THEN cells[f.fields[k]][b] ELSE Null
  <2>0. PICK k \in 1 .. n : \E b \in 1 .. Len(ss[k]) : f.names[a] = ss[k][b] /\ cells[r][a] = tt[k][b]
    BY <1>4, <1>5, <1>10, <1>12
  <2>1. PICK b \in 1 .. Len(ss[k]) : f.names[a] = ss[k][b] /\ cells[r][a] = tt[k][b]
    BY <2>0
  <2>2. ss[k] = made[f.fields[k]].names /\ Len(cells[f.fields[k]]) = Len(made[f.fields[k]].names)
    BY <1>7, <1>8 DEF n
  <2> DEFINE w == Len(made[f.fields[k]].names)
  <2>3. b \in 1 .. w
    BY <2>1, <2>2
  <2>4. w \in Nat
    BY <1>2, FieldFacts DEF n
  <2>5. tt[k] = IF on(k) THEN cells[f.fields[k]] ELSE Nulls(w)
    BY <1>9, <2>2
  <2> HIDE DEF w
  <2>6. Nulls(w)[b] = Null
    BY <2>3, <2>4, NullsFacts
  <2>7. tt[k][b] = IF on(k) THEN cells[f.fields[k]][b] ELSE Null
    BY <2>5, <2>6
  <2>8. QED BY <2>1, <2>2, <2>3, <2>7 DEF w
<1>14. QED BY <1>4, <1>5, <1>12, <1>13 DEF f, n, cells

\* Two fields of one name, see SharedTaken.
LEMMA SharedBy ==
    ASSUME Linked, NEW q \in 1 .. Len(made), NEW r \in 1 .. Len(made), q < r, NEW c,
           c \in Range(made[q].names), c \in Range(made[r].names)
    PROVE  made[r].kind = "switch" /\ \E u \in 1 .. r : Takes(u, q)
<1>1. Range(made[q].names) \cap Range(made[r].names) # {}
  OBVIOUS
<1>2. QED BY <1>1 DEF Linked, SharedTaken

\* No other field that a switch takes has the name as well, and no switch in between.
LEMMA TakenAlone ==
    ASSUME Typed, Linked, NEW r \in 1 .. Len(made), NEW q \in 1 .. r - 1, Takes(r, q), NEW c, c \in Range(made[q].names)
    PROVE  \A s \in 1 .. r : s > q /\ c \in Range(made[s].names) => s = r
<1>1. SUFFICES ASSUME NEW s \in 1 .. r, s > q, c \in Range(made[s].names), s # r
               PROVE  FALSE
  OBVIOUS
<1>2. PICK n : n = Len(made)
  OBVIOUS
<1>3. n \in Nat /\ r \in 1 .. n
  BY <1>2, FieldFacts
<1>4. q \in 1 .. n /\ s \in 1 .. n /\ q < s /\ s < r /\ 1 .. s \subseteq 1 .. n
  BY <1>1, <1>3
<1>5. PICK u \in 1 .. s : Takes(u, q)
  BY <1>1, <1>2, <1>4, SharedBy
<1>6. u = r
  BY <1>2, <1>3, <1>4, <1>5 DEF Linked, TakenOnce
<1>7. QED BY <1>4, <1>5, <1>6

\* The names of what a tagged union's field takes are names of its own.
LEMMA TakesNames ==
    ASSUME Typed, NEW r \in 1 .. Len(made), made[r].kind = "switch", NEW k \in 1 .. Len(made[r].fields)
    PROVE  Range(made[made[r].fields[k]].names) \subseteq Range(made[r].names)
<1> DEFINE fields == made[r].fields
           G == Given
<1>1. IsSeq(fields) /\ \A j \in 1 .. Len(fields) : fields[j] \in 1 .. Len(made)
  BY FieldFacts
<1>2. \A j \in 1 .. Len(fields) : made[fields[j]].names \in Seq(G)
  BY <1>1, FieldFacts
<1>3. made[r].names = NamesOf(made, fields)
  BY FieldFacts
<1>4. k \in 1 .. Len(fields)
  OBVIOUS
<1> HIDE DEF fields, G
<1>5. \A e : e \in Range(NamesOf(made, fields)) <=> \E j \in 1 .. Len(fields) : e \in Range(made[fields[j]].names)
  BY <1>1, <1>2, NamesOfFacts
<1>6. \A e \in Range(made[fields[k]].names) : e \in Range(made[r].names)
  BY <1>3, <1>4, <1>5
<1>7. QED BY <1>6 DEF fields

LEMMA PlainRight ==
    ASSUME Typed, Linked, NEW r \in 1 .. Len(made), NEW p, IsPacket(p), made[r].kind = "plain"
    PROVE  Right(r, p)
<1>1. CASE ~FieldFits(made[r], p)
  BY <1>1, ReadsShort DEF Right
<1>2. CASE FieldFits(made[r], p)
  <2>1. /\ Len(Cells(made, p)[r]) = Len(made[r].names)
        /\ \A k \in 1 .. Len(made[r].names) :
              Cells(made, p)[r][k] # Null /\ ShowsIn(Cells(made, p)[r][k], made[r].names[k], p)
    BY <1>2, ReadsPlain
  <2>2. ASSUME NEW k \in 1 .. Len(made[r].names)
        PROVE  ChosenBy(r, made[r].names[k], p)
    <3> DEFINE c == made[r].names[k]
    <3>1. c \in Range(made[r].names)
      BY FieldFacts, IsSeqFacts
    <3> HIDE DEF c
    <3>2. SUFFICES ASSUME NEW s \in 1 .. r, made[s].kind = "switch", NEW j \in 1 .. Len(made[s].fields),
                          c \in Range(made[made[s].fields[j]].names)
                   PROVE  FALSE
      BY <3>2 DEF ChosenBy, c
    <3>3. s \in 1 .. r - 1 /\ s \in 1 .. Len(made)
      <4>1. s # r
        BY <3>2
      <4>2. QED BY <4>1, FieldFacts
    <3>4. c \in Range(made[s].names)
      BY <3>2, <3>3, TakesNames
    <3>5. s < r
      BY <3>3
    <3>6. QED BY <3>1, <3>3, <3>4, <3>5, SharedBy
  <2>3. QED BY <2>1, <2>2 DEF Right
<1>3. QED BY <1>1, <1>2

LEMMA SwitchRight ==
    ASSUME Typed, Linked, NEW r \in 1 .. Len(made), NEW p, IsPacket(p), made[r].kind = "switch",
           \A q \in 1 .. r - 1 : Right(q, p)
    PROVE  Right(r, p)
<1>1. CASE ~FieldFits(made[r], p)
  BY <1>1, ReadsShort DEF Right
<1>2. CASE FieldFits(made[r], p)
  <2>1. \A q \in 1 .. r - 1 : Len(Cells(made, p)[q]) = Len(made[q].names)
    BY DEF Right
  <2>2. /\ Len(Cells(made, p)[r]) = Len(made[r].names)
        /\ \A a \in 1 .. Len(made[r].names) :
              \E k \in 1 .. Len(made[r].fields) : \E b \in 1 .. Len(made[made[r].fields[k]].names) :
                 /\ made[r].names[a] = made[made[r].fields[k]].names[b]
                 /\ Cells(made, p)[r][a] = IF Selects(made[r], k, p)
                                           THEN Cells(made, p)[made[r].fields[k]][b] ELSE Null
    BY <1>2, <2>1, ReadsSwitch
  <2>3. ASSUME NEW a \in 1 .. Len(made[r].names), Cells(made, p)[r][a] # Null
        PROVE  ShowsIn(Cells(made, p)[r][a], made[r].names[a], p) /\ ChosenBy(r, made[r].names[a], p)
    <3> DEFINE fields == made[r].fields
               c == made[r].names[a]
    <3>1. PICK k \in 1 .. Len(fields) : \E b \in 1 .. Len(made[fields[k]].names) :
             /\ c = made[fields[k]].names[b]
             /\ Cells(made, p)[r][a] = IF Selects(made[r], k, p) THEN Cells(made, p)[fields[k]][b] ELSE Null
      BY <2>2
    <3>2. PICK b \in 1 .. Len(made[fields[k]].names) :
             /\ c = made[fields[k]].names[b]
             /\ Cells(made, p)[r][a] = IF Selects(made[r], k, p) THEN Cells(made, p)[fields[k]][b] ELSE Null
      BY <3>1
    <3> DEFINE q == fields[k]
    <3>3. q \in 1 .. r - 1 /\ q \in 1 .. Len(made) /\ Takes(r, q)
      BY FieldFacts DEF Takes
    <3>4. Selects(made[r], k, p) /\ Cells(made, p)[r][a] = Cells(made, p)[q][b] /\ Cells(made, p)[q][b] # Null
      BY <2>3, <3>2
    <3>5. c \in Range(made[q].names)
      BY <3>2, <3>3, FieldFacts, IsSeqFacts
    <3>6. ShowsIn(Cells(made, p)[q][b], c, p) /\ ChosenBy(q, c, p)
      BY <3>2, <3>3, <3>4 DEF Right
    <3>7. ASSUME NEW s \in 1 .. r, made[s].kind = "switch", NEW j \in 1 .. Len(made[s].fields),
                 c \in Range(made[made[s].fields[j]].names)
          PROVE  Selects(made[s], j, p)
      <4> HIDE DEF c, q
      <4>1. s \in 1 .. Len(made)
        BY FieldFacts
      <4>2. c \in Range(made[s].names)
        BY <3>7, <4>1, TakesNames
      <4>3. CASE s \in 1 .. q
        BY <3>6, <3>7, <4>3 DEF ChosenBy
      <4>4. CASE s \notin 1 .. q
        <5>1. s > q
          BY <3>3, <4>4
        <5>2. s = r
          BY <3>3, <3>5, <4>2, <5>1, TakenAlone
        <5> DEFINE x == fields[j]
        <5>3. x \in 1 .. r - 1 /\ x \in 1 .. Len(made) /\ Takes(r, x) /\ c \in Range(made[x].names)
          BY <3>7, <5>2, FieldFacts DEF Takes
        <5> HIDE DEF x
        <5>4. x = q
          <6>1. ~(x > q)
            <7>1. x \in 1 .. r /\ x # r
              BY <5>3
            <7>2. QED BY <3>3, <3>5, <5>3, <7>1, TakenAlone
          <6>2. ~(q > x)
            <7>1. q \in 1 .. r /\ q # r
              BY <3>3
            <7>2. QED BY <3>3, <3>5, <5>3, <7>1, TakenAlone
          <6>3. QED BY <3>3, <5>3, <6>1, <6>2
        <5>5. j = k
          <6>1. OnceIn(fields)
            BY DEF Linked, NamedOnce
          <6>2. fields[j] = fields[k] /\ j \in 1 .. Len(fields)
            BY <3>7, <5>2, <5>4 DEF x, q
          <6>3. QED BY <6>1, <6>2 DEF OnceIn
        <5>6. QED BY <3>4, <5>2, <5>5
      <4>5. QED BY <4>3, <4>4
    <3>8. ChosenBy(r, c, p)
      <4> HIDE DEF c
      <4>1. QED BY <3>7 DEF ChosenBy
    <3>9. QED BY <3>4, <3>6, <3>8
  <2>4. QED BY <2>2, <2>3 DEF Right
<1>3. QED BY <1>1, <1>2

\* Every field reads rightly, however its alternatives are nested.
LEMMA AllRight ==
    ASSUME Typed, Linked, NEW p, IsPacket(p)
    PROVE  \A r \in 1 .. Len(made) : Right(r, p)
<1>1. PICK n : n = Len(made)
  OBVIOUS
<1>2. n \in Nat
  BY <1>1, IsSeqFacts DEF Typed
<1> DEFINE H == {m \in 0 .. n : \A q \in 1 .. m : Right(q, p)}
<1>3. 0 \in H
  BY <1>2
<1>4. ASSUME NEW m \in 1 .. n, m - 1 \in H
      PROVE  m \in H
  <2>1. \A q \in 1 .. m - 1 : Right(q, p)
    BY <1>4
  <2>2. m \in 1 .. Len(made)
    BY <1>1
  <2>3. made[m].kind \in {"plain", "switch"}
    BY <2>2, FieldFacts
  <2>4. Right(m, p)
    BY <2>1, <2>2, <2>3, PlainRight, SwitchRight
  <2>5. \A q \in 1 .. m : q \in 1 .. m - 1 \/ q = m
    BY <1>2
  <2>6. m \in 0 .. n
    BY <1>2
  <2>7. QED BY <2>1, <2>4, <2>5, <2>6
<1> HIDE DEF H
<1>5. \A i \in 0 .. n : i \in H
  BY <1>2, <1>3, <1>4, UpTo
<1>6. n \in H
  BY <1>2, <1>5
<1>7. QED BY <1>1, <1>6 DEF H

\* The row has the cells of the message's own fields where the columns have their names.
LEMMA RowFacts ==
    ASSUME Typed, Linked, NEW p, IsPacket(p)
    PROVE  /\ Len(RowOf(p)) = Len(Columns) /\ Len(Columns) \in Nat
           /\ DOMAIN RowOf(p) = 1 .. Len(Columns) /\ DOMAIN Columns = 1 .. Len(Columns)
           /\ \A i \in 1 .. Len(Columns) : \E k \in 1 .. Len(Fields) : \E b \in 1 .. Len(made[Fields[k]].names) :
                 Columns[i] = made[Fields[k]].names[b] /\ RowOf(p)[i] = Cells(made, p)[Fields[k]][b]
<1> DEFINE n == Len(Fields)
           some == Fields
           cells == Cells(made, p)
           ss == [k \in DOMAIN some |-> made[some[k]].names]
           tt == OwnCells(p)
           G == Given
           C == Cell
<1>1. n \in Nat /\ DOMAIN some = 1 .. n /\ \A k \in 1 .. n : some[k] \in 1 .. Len(made)
  BY FieldsFacts
<1>2. RowOf(p) = FlattenSeq(tt) /\ IsSeq(tt) /\ Len(tt) = n
      /\ \A k \in 1 .. n : tt[k] = cells[some[k]] /\ tt[k] \in Seq(C)
  BY OwnCellsFacts
<1>3. Columns = FlattenSeq(ss)
  BY DEF Columns, NamesOf
<1>4. ss = [k \in 1 .. n |-> ss[k]] /\ \A k \in 1 .. n : ss[k] = made[some[k]].names
  BY <1>1
<1>5. \A r \in 1 .. Len(made) : made[r].names \in Seq(G) /\ Len(cells[r]) = Len(made[r].names)
  BY FieldFacts, AllRight DEF Right
<1> HIDE DEF ss, tt, some, cells, n, G, C
<1>6. IsSeq(ss) /\ Len(ss) = n
  BY <1>1, <1>4, IsSeqFrom
<1>7. \A k \in 1 .. n : ss[k] \in Seq(G) /\ Len(tt[k]) = Len(ss[k])
  BY <1>1, <1>2, <1>4, <1>5
<1>8. \A k \in 1 .. n : IsSeq(ss[k]) /\ IsSeq(tt[k])
  BY <1>2, <1>7, IsSeqOf
<1>9. Alongside(FlattenSeq(ss), FlattenSeq(tt), ss, tt)
  <2>1. SameLengths(ss, tt)
    BY <1>2, <1>6, <1>7, <1>8 DEF SameLengths
  <2>2. QED BY <2>1, FlattenParallel
<1>10. FlattenSeq(ss) \in Seq(G) /\ FlattenSeq(tt) \in Seq(C)
  <2>1. \A k \in 1 .. Len(ss) : ss[k] \in Seq(G)
    BY <1>6, <1>7
  <2>2. \A k \in 1 .. Len(tt) : tt[k] \in Seq(C)
    BY <1>2
  <2>3. FlattenSeq(ss) \in Seq(G)
    BY ONLY <1>6, <2>1, FlattenRange
  <2>4. FlattenSeq(tt) \in Seq(C)
    BY ONLY <1>2, <2>2, FlattenRange
  <2>5. QED BY <2>3, <2>4
<1>11. Columns \in Seq(G) /\ RowOf(p) \in Seq(C)
  BY <1>2, <1>3, <1>10
<1>12. /\ Len(RowOf(p)) = Len(Columns)
       /\ \A a \in 1 .. Len(Columns) : \E i \in 1 .. n : \E b \in 1 .. Len(ss[i]) :
             Columns[a] = ss[i][b] /\ RowOf(p)[a] = tt[i][b]
  BY <1>2, <1>3, <1>6, <1>9 DEF Alongside
<1>13. Len(Columns) \in Nat /\ DOMAIN RowOf(p) = 1 .. Len(Columns) /\ DOMAIN Columns = 1 .. Len(Columns)
  BY <1>11, <1>12, IsSeqOf, IsSeqFacts
<1>14. QED BY <1>2, <1>4, <1>12, <1>13 DEF n, some, cells

\* Nothing made after a message's own field is of a name of it.
LEMMA OwnChosen ==
    ASSUME Typed, Linked, NEW r \in 1 .. Len(made), made[r].into = 1, NEW c, c \in Range(made[r].names), NEW p,
           ChosenBy(r, c, p)
    PROVE  ChosenBy(Len(made), c, p)
<1>1. SUFFICES ASSUME NEW s \in 1 .. Len(made), made[s].kind = "switch", NEW j \in 1 .. Len(made[s].fields),
                      c \in Range(made[made[s].fields[j]].names)
               PROVE  Selects(made[s], j, p)
  BY <1>1 DEF ChosenBy
<1>2. c \in Range(made[s].names)
  BY <1>1, TakesNames
<1>3. PICK n : n = Len(made)
  OBVIOUS
<1>4. n \in Nat /\ r \in 1 .. n /\ s \in 1 .. n
  BY <1>3, IsSeqFacts DEF Typed
<1>5. ~(r < s)
  <2>1. SUFFICES ASSUME r < s PROVE FALSE
    OBVIOUS
  <2>2. PICK u \in 1 .. s : Takes(u, r)
    BY <1>2, <2>1, SharedBy
  <2>3. u \in 1 .. n
    BY <1>4
  <2>4. QED BY <1>3, <2>2, <2>3 DEF Linked, TakenInner
<1>6. s \in 1 .. r
  BY <1>4, <1>5
<1>7. QED BY <1>1, <1>6 DEF ChosenBy

\* What a column is chosen for, in the words of the fields.
LEMMA ChosenFacts ==
    ASSUME Typed, NEW c
    PROVE  Chosen(c) <=> ChosenBy(Len(made), c, packet)
<1>1. Switches = {s \in 1 .. Len(made) : made[s].kind = "switch"}
  BY IsSeqFacts DEF Switches, Typed
<1>2. \A s \in 1 .. Len(made) : DOMAIN made[s].fields = 1 .. Len(made[s].fields)
  BY FieldFacts, IsSeqFacts
<1>3. QED BY <1>1, <1>2 DEF Chosen, ChosenBy, Selects

LEMMA CellsAreTheirColumnsFrom ==
    ASSUME Typed, Linked, RowIsDecoded
    PROVE  CellsAreTheirColumns
<1>1. SUFFICES ASSUME packet # NoPacket
               PROVE  /\ Len(row) = Len(Columns)
                      /\ \A i \in DOMAIN row : row[i] # Null =>
                            /\ \E leaf \in Shows(Columns[i]) : row[i] = [at |-> packet.base + leaf.at, width |-> leaf.width]
                            /\ row[i].at + row[i].width <= packet.limit
                            /\ Chosen(Columns[i])
  BY DEF CellsAreTheirColumns
<1>2. packet \in Packets /\ row = RowOf(packet)
  BY <1>1 DEF RowIsDecoded
<1>3. IsPacket(packet)
  BY <1>2, PacketsFacts
<1>4. /\ Len(row) = Len(Columns) /\ DOMAIN row = 1 .. Len(Columns)
      /\ \A i \in 1 .. Len(Columns) : \E k \in 1 .. Len(Fields) : \E b \in 1 .. Len(made[Fields[k]].names) :
            Columns[i] = made[Fields[k]].names[b] /\ row[i] = Cells(made, packet)[Fields[k]][b]
  BY <1>2, <1>3, RowFacts
<1>5. ASSUME NEW i \in DOMAIN row, row[i] # Null
      PROVE  ShowsIn(row[i], Columns[i], packet) /\ Chosen(Columns[i])
  <2>1. PICK k \in 1 .. Len(Fields) : \E b \in 1 .. Len(made[Fields[k]].names) :
           Columns[i] = made[Fields[k]].names[b] /\ row[i] = Cells(made, packet)[Fields[k]][b]
    BY <1>4, <1>5
  <2>2. PICK b \in 1 .. Len(made[Fields[k]].names) :
           Columns[i] = made[Fields[k]].names[b] /\ row[i] = Cells(made, packet)[Fields[k]][b]
    BY <2>1
  <2> DEFINE r == Fields[k]
  <2>3. r \in 1 .. Len(made) /\ made[r].into = 1
    BY FieldsFacts
  <2>4. ShowsIn(row[i], Columns[i], packet) /\ ChosenBy(r, Columns[i], packet)
    BY <1>3, <1>5, <2>2, <2>3, AllRight DEF Right
  <2>5. Columns[i] \in Range(made[r].names)
    BY <2>2, <2>3, FieldFacts, IsSeqFacts
  <2> HIDE DEF r
  <2>6. ChosenBy(Len(made), Columns[i], packet)
    BY <2>3, <2>4, <2>5, OwnChosen
  <2>7. QED BY <2>4, <2>6, ChosenFacts
<1>6. QED BY <1>4, <1>5 DEF ShowsIn

\* For every type file, mapping and packet of any length: a row has a cell for
\* each column, and a cell with a value shows that column's bytes, inside the
\* packet, of the alternatives its identifiers name (Decoder.decode).
THEOREM CellsAreTheirColumnsAlways == Spec => []CellsAreTheirColumns
<1>1. Typed /\ Linked /\ RowIsDecoded => CellsAreTheirColumns
  BY CellsAreTheirColumnsFrom
<1>2. QED BY <1>1, TypedAlways, LinkedAlways, RowIsDecodedAlways, PTL

-----------------------------------------------------------------------------
(* A packet that is long enough.                                            *)

IsWhole(p) == IsPacket(p) /\ p.limit >= p.base + Message.size

\* Every field is inside the message, and so inside the packet.
LEMMA WholeFits ==
    ASSUME Typed, Compiles, NEW r \in 1 .. Len(made), NEW p, IsWhole(p)
    PROVE  FieldFits(made[r], p)
<1> DEFINE at == made[r].at
           width == made[r].width
           base == p.base
           limit == p.limit
           size == Message.size
<1>1. at \in Nat /\ width \in Nat /\ at + width <= size
  BY FieldFacts DEF IsField
<1>2. base \in Nat /\ limit \in Nat /\ limit >= base + size /\ size \in Nat
  BY MessageFacts DEF IsWhole, IsPacket
<1> HIDE DEF at, width, base, limit, size
<1>3. base + at + width <= limit
  BY <1>1, <1>2
<1>4. QED BY <1>3 DEF FieldFits, at, width, base, limit

LEMMA PlainFilled ==
    ASSUME Typed, Compiles, NEW r \in 1 .. Len(made), NEW p, IsWhole(p), made[r].kind = "plain"
    PROVE  Filled(r, p)
<1>1. FieldFits(made[r], p) /\ IsPacket(p)
  BY WholeFits DEF IsWhole
<1>2. \A k \in 1 .. Len(made[r].names) : Cells(made, p)[r][k] # Null
  BY <1>1, ReadsPlain
<1>3. QED BY <1>2 DEF Filled

LEMMA SwitchFilled ==
    ASSUME Typed, Linked, Compiles, NEW r \in 1 .. Len(made), NEW p, IsWhole(p), made[r].kind = "switch",
           \A q \in 1 .. r - 1 : Filled(q, p)
    PROVE  Filled(r, p)
<1>1. FieldFits(made[r], p) /\ IsPacket(p)
  BY WholeFits DEF IsWhole
<1>2. \A q \in 1 .. r - 1 : Len(Cells(made, p)[q]) = Len(made[q].names)
  BY <1>1, AllRight, FieldFacts DEF Right
<1>3. \A a \in 1 .. Len(made[r].names) :
         \E k \in 1 .. Len(made[r].fields) : \E b \in 1 .. Len(made[made[r].fields[k]].names) :
            /\ made[r].names[a] = made[made[r].fields[k]].names[b]
            /\ Cells(made, p)[r][a] = IF Selects(made[r], k, p)
                                      THEN Cells(made, p)[made[r].fields[k]][b] ELSE Null
  BY <1>1, <1>2, ReadsSwitch
<1>4. ASSUME NEW a \in 1 .. Len(made[r].names), ChosenBy(Len(made), made[r].names[a], p)
      PROVE  Cells(made, p)[r][a] # Null
  <2> DEFINE fields == made[r].fields
             c == made[r].names[a]
  <2>1. PICK k \in 1 .. Len(fields) : \E b \in 1 .. Len(made[fields[k]].names) :
           /\ c = made[fields[k]].names[b]
           /\ Cells(made, p)[r][a] = IF Selects(made[r], k, p) THEN Cells(made, p)[fields[k]][b] ELSE Null
    BY <1>3
  <2>2. PICK b \in 1 .. Len(made[fields[k]].names) :
           /\ c = made[fields[k]].names[b]
           /\ Cells(made, p)[r][a] = IF Selects(made[r], k, p) THEN Cells(made, p)[fields[k]][b] ELSE Null
    BY <2>1
  <2> DEFINE q == fields[k]
  <2>3. q \in 1 .. r - 1 /\ q \in 1 .. Len(made)
    BY FieldFacts
  <2>4. c \in Range(made[q].names)
    BY <2>2, <2>3, FieldFacts, IsSeqFacts
  <2>5. Selects(made[r], k, p)
    <3>1. \A s \in 1 .. Len(made) : made[s].kind = "switch" =>
             \A j \in 1 .. Len(made[s].fields) : c \in Range(made[made[s].fields[j]].names) => Selects(made[s], j, p)
      BY <1>4 DEF ChosenBy
    <3>2. QED BY <2>4, <3>1
  <2>6. ChosenBy(Len(made), made[q].names[b], p)
    BY <1>4, <2>2
  <2>7. Cells(made, p)[q][b] # Null
    BY <2>2, <2>3, <2>6 DEF Filled
  <2>8. QED BY <2>2, <2>5, <2>7
<1>5. QED BY <1>4 DEF Filled

LEMMA AllFilled ==
    ASSUME Typed, Linked, Compiles, NEW p, IsWhole(p)
    PROVE  \A r \in 1 .. Len(made) : Filled(r, p)
<1>1. PICK n : n = Len(made)
  OBVIOUS
<1>2. n \in Nat
  BY <1>1, IsSeqFacts DEF Typed
<1> DEFINE H == {m \in 0 .. n : \A q \in 1 .. m : Filled(q, p)}
<1>3. 0 \in H
  BY <1>2
<1>4. ASSUME NEW m \in 1 .. n, m - 1 \in H
      PROVE  m \in H
  <2>1. \A q \in 1 .. m - 1 : Filled(q, p)
    BY <1>4
  <2>2. m \in 1 .. Len(made)
    BY <1>1
  <2>3. made[m].kind \in {"plain", "switch"}
    BY <2>2, FieldFacts
  <2>4. Filled(m, p)
    BY <2>1, <2>2, <2>3, PlainFilled, SwitchFilled
  <2>5. \A q \in 1 .. m : q \in 1 .. m - 1 \/ q = m
    BY <1>2
  <2>6. m \in 0 .. n
    BY <1>2
  <2>7. QED BY <2>1, <2>4, <2>5, <2>6
<1> HIDE DEF H
<1>5. \A i \in 0 .. n : i \in H
  BY <1>2, <1>3, <1>4, UpTo
<1>6. n \in H
  BY <1>2, <1>5
<1>7. QED BY <1>1, <1>6 DEF H

LEMMA WholePacketFillsRowFrom ==
    ASSUME Typed, Linked, RowIsDecoded
    PROVE  WholePacketFillsRow
<1>1. SUFFICES ASSUME packet # NoPacket, packet.limit >= packet.base + Message.size,
                      NEW i \in DOMAIN row, Chosen(Columns[i])
               PROVE  row[i] # Null
  BY DEF WholePacketFillsRow
<1>2. packet \in Packets /\ row = RowOf(packet) /\ Compiles
  BY <1>1 DEF RowIsDecoded, Typed
<1>3. IsPacket(packet) /\ IsWhole(packet)
  BY <1>1, <1>2, PacketsFacts DEF IsWhole
<1>4. /\ DOMAIN row = 1 .. Len(Columns)
      /\ \A j \in 1 .. Len(Columns) : \E k \in 1 .. Len(Fields) : \E b \in 1 .. Len(made[Fields[k]].names) :
            Columns[j] = made[Fields[k]].names[b] /\ row[j] = Cells(made, packet)[Fields[k]][b]
  BY <1>2, <1>3, RowFacts
<1>5. PICK k \in 1 .. Len(Fields) : \E b \in 1 .. Len(made[Fields[k]].names) :
         Columns[i] = made[Fields[k]].names[b] /\ row[i] = Cells(made, packet)[Fields[k]][b]
  BY <1>4
<1>6. PICK b \in 1 .. Len(made[Fields[k]].names) :
         Columns[i] = made[Fields[k]].names[b] /\ row[i] = Cells(made, packet)[Fields[k]][b]
  BY <1>5
<1>7. Fields[k] \in 1 .. Len(made)
  BY FieldsFacts
<1>8. ChosenBy(Len(made), made[Fields[k]].names[b], packet)
  BY <1>1, <1>6, ChosenFacts
<1>9. QED BY <1>2, <1>3, <1>6, <1>7, <1>8, AllFilled DEF Filled

\* For every type file and mapping: a packet as long as its struct leaves no
\* cell empty but those of the alternatives that its identifiers do not name.
THEOREM WholePacketFillsRowAlways == Spec => []WholePacketFillsRow
<1>1. Typed /\ Linked /\ RowIsDecoded => WholePacketFillsRow
  BY WholePacketFillsRowFrom
<1>2. QED BY <1>1, TypedAlways, LinkedAlways, RowIsDecodedAlways, PTL

-----------------------------------------------------------------------------
(* What a message stores, level by level.                                   *)

\* The places that the walk begins at: the members of the message.
Outer ==
    LET whole == [type |-> job.key, path |-> <<>>, at |-> 0, bits |-> NoSize, bit |-> 0, copies |-> {}]
    IN  IF IsHeader(Types, job.key, job.declared) THEN {}
        ELSE {MemberPlace(whole, m, {}) :
                 m \in {m \in Range(Message.members) : m.offset > 0 \/ ~IsHeader(Types, m.type, job.declared)}}

LEMMA LevelSteps ==
    ASSUME NEW n \in 1 .. Levels
    PROVE  Level[n] = IF n > 1 THEN UNION {Within(x) : x \in Level[n - 1]} ELSE Outer
<1>1. Levels \in Nat
  BY BoundsAssumption
<1> DEFINE first == Outer
           within(X) == UNION {Within(x) : x \in X}
           good(g, k) == g = [i \in 1 .. k |-> IF i > 1 THEN within(g[i - 1]) ELSE first]
           H == {k \in 0 .. Levels : \E g : good(g, k)}
<1>2. Level = CHOOSE g : good(g, Levels)
  BY DEF Level, Outer
<1> HIDE DEF first, within
<1>3. 0 \in H
  <2>1. 0 \in 0 .. Levels
    BY <1>1
  <2> DEFINE g == [i \in 1 .. 0 |-> first]
  <2>2. good(g, 0)
    OBVIOUS
  <2>3. QED BY <2>1, <2>2
<1>4. ASSUME NEW k \in 1 .. Levels, k - 1 \in H
      PROVE  k \in H
  <2>1. PICK g : g = [i \in 1 .. k - 1 |-> IF i > 1 THEN within(g[i - 1]) ELSE first]
    BY <1>4
  <2> DEFINE h == [i \in 1 .. k |-> IF i < k THEN g[i] ELSE IF i > 1 THEN within(g[i - 1]) ELSE first]
  <2>2. ASSUME NEW i \in 1 .. k PROVE h[i] = IF i > 1 THEN within(h[i - 1]) ELSE first
    <3>1. i > 1 => h[i - 1] = g[i - 1]
      <4>1. i > 1 => i - 1 \in 1 .. k /\ i - 1 < k
        BY <1>1
      <4>2. QED BY <4>1
    <3>2. i < k => i \in 1 .. k - 1
      BY <1>1
    <3>3. i < k => h[i] = IF i > 1 THEN within(g[i - 1]) ELSE first
      BY <2>1, <3>2
    <3>4. ~(i < k) => h[i] = IF i > 1 THEN within(g[i - 1]) ELSE first
      OBVIOUS
    <3> HIDE DEF h
    <3>5. QED BY <3>1, <3>3, <3>4
  <2>3. good(h, k)
    <3>1. h = [i \in 1 .. k |-> h[i]]
      OBVIOUS
    <3> HIDE DEF h
    <3>2. QED BY <2>2, <3>1
  <2> HIDE DEF h
  <2>4. k \in 0 .. Levels
    BY <1>1
  <2>5. QED BY <2>3, <2>4
<1>5. Levels \in H
  <2> HIDE DEF H
  <2>1. \A i \in 0 .. Levels : i \in H
    BY <1>1, <1>3, <1>4, UpTo
  <2>2. QED BY <1>1, <2>1
<1>6. good(Level, Levels)
  <2>1. \E g : good(g, Levels)
    BY <1>5
  <2> HIDE DEF good
  <2>2. QED BY <1>2, <2>1
<1>7. QED BY <1>6 DEF first, within

\* A place is written as one.
IsPlace(x) == x = [type |-> x.type, path |-> x.path, at |-> x.at, bits |-> x.bits, bit |-> x.bit, copies |-> x.copies]

LEMMA MemberIsPlace ==
    ASSUME NEW x, NEW m, NEW copies
    PROVE  IsPlace(MemberPlace(x, m, copies))
BY DEF MemberPlace, IsPlace

\* The element p of an array at the place.
ElementPlace(x, node, size, p) ==
    [x EXCEPT !.type = node.elem, !.path = @ \o Index(node.dims, p - 1), !.at = @ + (p - 1) * size,
              !.bit = (x.at + (p - 1) * size) * 8]

IsElement(y, x, node, size, p) ==
    /\ IsPlace(y)
    /\ y.type = node.elem /\ y.path = x.path \o Index(node.dims, p - 1)
    /\ y.at = x.at + (p - 1) * size /\ y.bits = x.bits /\ y.copies = x.copies

LEMMA ElementIsPlace ==
    ASSUME NEW x, IsPlace(x), NEW node, NEW size, NEW p
    PROVE  IsElement(ElementPlace(x, node, size, p), x, node, size, p)
<1> DEFINE y == ElementPlace(x, node, size, p)
           path == x.path \o Index(node.dims, p - 1)
           at == x.at + (p - 1) * size
           bit == (x.at + (p - 1) * size) * 8
<1>1. y = [x EXCEPT !.type = node.elem, !.path = path, !.at = at, !.bit = bit]
  BY DEF ElementPlace
<1> HIDE DEF y, path, at, bit
<1>2. x = [type |-> x.type, path |-> x.path, at |-> x.at, bits |-> x.bits, bit |-> x.bit, copies |-> x.copies]
  BY DEF IsPlace
<1>3. y = [type |-> node.elem, path |-> path, at |-> at, bits |-> x.bits, bit |-> bit, copies |-> x.copies]
  BY <1>1, <1>2
<1>4. QED BY <1>3 DEF IsPlace, IsElement, y, path, at

\* What a place that is an array of anything but texts is made of.
LEMMA WithinArray ==
    ASSUME NEW x, x.bits = NoSize, Resolve(Types, x.type).kind = "array",
           ~Empty(Resolve(Types, x.type)), ~IsText(Resolve(Types, x.type))
    PROVE  LET node == Resolve(Types, x.type)
           IN  Within(x) = {ElementPlace(x, node, SizeOr0(Types, node.elem), p) : p \in 1 .. Product(node.dims)}
<1> DEFINE node == Resolve(Types, x.type)
<1>1. Within(x) =
         CASE x.bits # NoSize -> {}
           [] x.bits = NoSize /\ node.kind = "struct" -> {MemberPlace(x, m, x.copies) : m \in Range(node.members)}
           [] x.bits = NoSize /\ node.kind = "union" ->
                 LET use == UseOf(job.unions, ChainEnd(Types, x.type))
                 IN  {MemberPlace(x, m, x.copies \cup Copied(x, node, use, m)) : m \in AskedFor(node, use)}
           [] x.bits = NoSize /\ node.kind = "array" /\ ~Empty(node) /\ ~IsText(node) ->
                 {ElementPlace(x, node, SizeOr0(Types, node.elem), p) : p \in 1 .. Product(node.dims)}
           [] OTHER -> {}
  BY DEF Within, ElementPlace
<1> HIDE DEF node
<1>2. node.kind = "array" /\ ~Empty(node) /\ ~IsText(node)
  BY DEF node
<1>3. QED BY <1>1, <1>2 DEF node

LEMMA WithinStruct ==
    ASSUME NEW x, x.bits = NoSize, Resolve(Types, x.type).kind = "struct"
    PROVE  Within(x) = {MemberPlace(x, m, x.copies) : m \in Range(Resolve(Types, x.type).members)}
BY DEF Within

Asked(x, node, use) == {MemberPlace(x, m, x.copies \cup Copied(x, node, use, m)) : m \in AskedFor(node, use)}

LEMMA WithinUnion ==
    ASSUME NEW x, x.bits = NoSize, Resolve(Types, x.type).kind = "union"
    PROVE  Within(x) = Asked(x, Resolve(Types, x.type), UseOf(job.unions, ChainEnd(Types, x.type)))
BY DEF Within, Asked

\* Nothing is made of anything else.
LEMMA WithinElse ==
    ASSUME NEW x, NEW y \in Within(x)
    PROVE  /\ x.bits = NoSize
           /\ \/ IsComposite(Resolve(Types, x.type))
              \/ /\ Resolve(Types, x.type).kind = "array"
                 /\ ~Empty(Resolve(Types, x.type)) /\ ~IsText(Resolve(Types, x.type))
<1> DEFINE node == Resolve(Types, x.type)
           else == ~IsComposite(node) /\ ~(node.kind = "array" /\ ~Empty(node) /\ ~IsText(node))
<1>1. x.bits # NoSize => Within(x) = {}
  BY DEF Within
<1>2. ASSUME x.bits = NoSize, else PROVE Within(x) = {}
  <2>1. ~(x.bits = NoSize /\ node.kind = "struct") /\ ~(x.bits = NoSize /\ node.kind = "union")
    BY <1>2 DEF IsComposite
  <2>2. ~(x.bits = NoSize /\ node.kind = "array" /\ ~Empty(node) /\ ~IsText(node)) /\ ~(x.bits # NoSize)
    BY <1>2
  <2>3. QED BY <2>1, <2>2 DEF Within
<1>3. QED BY <1>1, <1>2

LEMMA WithinPlaces ==
    ASSUME NEW x, IsPlace(x), NEW y \in Within(x)
    PROVE  IsPlace(y)
<1> DEFINE node == Resolve(Types, x.type)
<1>1. /\ x.bits = NoSize
      /\ \/ node.kind = "struct" \/ node.kind = "union"
         \/ node.kind = "array" /\ ~Empty(node) /\ ~IsText(node)
  BY WithinElse DEF IsComposite
<1>2. CASE node.kind = "struct"
  BY <1>1, <1>2, WithinStruct, MemberIsPlace
<1>3. CASE node.kind = "union"
  <2> DEFINE use == UseOf(job.unions, ChainEnd(Types, x.type))
  <2>1. Within(x) = Asked(x, node, use)
    BY <1>1, <1>3, WithinUnion
  <2> HIDE DEF node, use
  <2>2. PICK m : y = MemberPlace(x, m, x.copies \cup Copied(x, node, use, m))
    BY <2>1 DEF Asked
  <2>3. QED BY <2>2, MemberIsPlace
<1>4. CASE node.kind = "array" /\ ~Empty(node) /\ ~IsText(node)
  <2>1. Within(x) = {ElementPlace(x, node, SizeOr0(Types, node.elem), p) : p \in 1 .. Product(node.dims)}
    BY <1>1, <1>4, WithinArray
  <2> HIDE DEF node
  <2>2. PICK p : y = ElementPlace(x, node, SizeOr0(Types, node.elem), p)
    BY <2>1
  <2>3. QED BY <2>2, ElementIsPlace DEF IsElement
<1>5. QED BY <1>1, <1>2, <1>3, <1>4

LEMMA PlacesAre ==
    ASSUME NEW n \in 1 .. Levels
    PROVE  \A x \in Level[n] : IsPlace(x)
<1>1. Levels \in Nat
  BY BoundsAssumption
<1> DEFINE H == {k \in 0 .. Levels : k > 0 => \A x \in Level[k] : IsPlace(x)}
<1>2. 0 \in H
  BY <1>1
<1>3. ASSUME NEW k \in 1 .. Levels, k - 1 \in H
      PROVE  k \in H
  <2>1. CASE k = 1
    <3>1. Level[k] = Outer
      <4>1. ~(k > 1)
        BY <2>1
      <4>2. Level[k] = IF k > 1 THEN UNION {Within(x) : x \in Level[k - 1]} ELSE Outer
        BY LevelSteps
      <4>3. QED BY <4>1, <4>2
    <3>2. \A x \in Outer : IsPlace(x)
      BY MemberIsPlace DEF Outer
    <3>3. QED BY <1>1, <3>1, <3>2
  <2>2. CASE k # 1
    <3>1. k > 1 /\ k - 1 \in 1 .. Levels /\ k - 1 > 0
      BY <1>1, <2>2
    <3>2. Level[k] = UNION {Within(x) : x \in Level[k - 1]}
      BY <3>1, LevelSteps
    <3>3. \A x \in Level[k - 1] : IsPlace(x)
      BY <1>3, <3>1
    <3>4. \A y \in Level[k] : IsPlace(y)
      BY <3>2, <3>3, WithinPlaces
    <3>5. QED BY <1>1, <3>4
  <2>3. QED BY <2>1, <2>2
<1> HIDE DEF H
<1>4. \A k \in 0 .. Levels : k \in H
  BY <1>1, <1>2, <1>3, UpTo
<1>5. n \in H /\ n > 0
  BY <1>1, <1>4
<1>6. QED BY <1>5 DEF H

\* What is within a place is of the next level.
LEMMA NextLevel ==
    ASSUME NEW n \in 1 .. Levels, n + 1 \in 1 .. Levels, NEW x \in Level[n]
    PROVE  Within(x) \subseteq Level[n + 1]
<1>1. n + 1 > 1 /\ (n + 1) - 1 = n
  BY BoundsAssumption
<1>2. Level[n + 1] = UNION {Within(y) : y \in Level[n]}
  BY <1>1, LevelSteps
<1>3. QED BY <1>2

-----------------------------------------------------------------------------
(* Where the walk stands in what the message stores.                        *)

\* A piece is for a place.
IsOf(t, x) == /\ t.type = x.type /\ t.column = x.path /\ t.at = x.at /\ t.bits = x.bits
              /\ t.bits # NoSize => t.bit = x.bit

\* Something of that path and those bytes is stored.
StoredAt(path, at, width) == \E x \in Places : [path |-> path, at |-> at, width |-> width] \in Stores(x)

TaskPlaced(t) == /\ t.what = "piece" => t.depth \in 1 .. Levels /\ \E x \in Level[t.depth] : IsOf(t, x)
                 /\ t.what = "text" => StoredAt(t.column, t.at, t.width)

FieldPlaced(f) ==
    f.kind = "plain" => \A k \in 1 .. Len(f.names) : StoredAt(f.names[k].path, f.at + (k - 1) * f.each, f.each)

\* All that is still to be walked, and all that was made, is of what the message stores.
Placed == /\ \A t \in Range(todo) : TaskPlaced(t)
          /\ \A r \in 1 .. Len(made) : FieldPlaced(made[r])

LEMMA LevelKeeps ==
    ASSUME job' = job
    PROVE  Level' = Level
BY DEF Level, Message, Within, MemberPlace, AskedFor, IsText, Copied

LEMMA StoredKeeps ==
    ASSUME job' = job
    PROVE  /\ \A path, at, width : StoredAt(path, at, width)' <=> StoredAt(path, at, width)
           /\ \A t : TaskPlaced(t)' <=> TaskPlaced(t)
           /\ \A f : FieldPlaced(f)' <=> FieldPlaced(f)
<1>1. Level' = Level
  BY LevelKeeps
<1>2. \A x : Stores(x)' = Stores(x)
  BY DEF Stores, IsText, Empty
<1>3. Places' = Places
  BY <1>1 DEF Places
<1>4. \A path, at, width : StoredAt(path, at, width)' <=> StoredAt(path, at, width)
  BY <1>2, <1>3 DEF StoredAt
<1>5. \A t : TaskPlaced(t)' <=> TaskPlaced(t)
  BY <1>1, <1>4 DEF TaskPlaced
<1>6. \A f : FieldPlaced(f)' <=> FieldPlaced(f)
  BY <1>4 DEF FieldPlaced
<1>7. QED BY <1>4, <1>5, <1>6

\* One column each.
PathsStored(paths, at, each) == \A k \in 1 .. Len(paths) : StoredAt(paths[k], at + (k - 1) * each, each)

LEMMA PlacedAdds ==
    ASSUME Typed, Placed, NEW paths, NEW at, NEW each, Adds(paths, at, each), PathsStored(paths, at, each)
    PROVE  Placed'
<1> DEFINE f == Plain(used, paths, at, each, Now.into)
           n == Len(made)
<1>1. /\ status = "walking" /\ todo # <<>> /\ IsSeq(paths) /\ at \in Nat /\ each \in Nat
      /\ made' = Append(made, f) /\ Replace(<<>>) /\ job' = job
  BY DEF Adds, AddField
<1>2. IsSeq(todo) /\ IsSeq(made) /\ IsSeq(used) /\ n \in Nat
  BY IsSeqFacts DEF Typed
<1>3. /\ f.kind = "plain" /\ f.at = at /\ f.each = each /\ Len(f.names) = Len(paths)
      /\ \A k \in 1 .. Len(paths) : f.names[k] = Unique(used \o paths, Len(used) + k)
  <2> DEFINE into == Now.into
  <2> HIDE DEF into
  <2>1. LET g == Plain(used, paths, at, each, into)
        IN  /\ g.kind = "plain" /\ g.at = at /\ g.each = each /\ Len(g.names) = Len(paths)
            /\ \A k \in 1 .. Len(paths) : g.names[k] = Unique(used \o paths, Len(used) + k)
    BY <1>1, PlainNames, PlainUnique
  <2>2. QED BY <2>1 DEF into
<1> HIDE DEF f, n
<1>4. \A k \in 1 .. Len(paths) : f.names[k].path = paths[k]
  <2>1. \A k \in 1 .. Len(paths) : (used \o paths)[Len(used) + k] = paths[k]
    BY <1>1, <1>2, IsSeqConcat
  <2>2. \A k \in 1 .. Len(paths) : f.names[k].path = (used \o paths)[Len(used) + k]
    <3>1. \A w, p : Unique(w, p).path = w[p]
      BY DEF Unique
    <3>2. QED BY <1>3, <3>1
  <2>3. QED BY <2>1, <2>2
<1>5. FieldPlaced(f)
  <2>1. \A k \in 1 .. Len(paths) : StoredAt(paths[k], at + (k - 1) * each, each)
    BY DEF PathsStored
  <2>2. QED BY <1>3, <1>4, <2>1 DEF FieldPlaced
<1>6. \A t \in Range(todo') : TaskPlaced(t)
  <2>1. Range(todo') = Range(<<>>) \cup Range(Tail(todo)) /\ Range(Tail(todo)) \subseteq Range(todo)
    BY <1>1, <1>2, None, ReplaceFacts
  <2>2. QED BY <2>1, None DEF Placed
<1>7. \A r \in 1 .. Len(made') : FieldPlaced(made'[r])
  <2>1. /\ Len(made') = n + 1 /\ made'[n + 1] = f /\ \A r \in 1 .. n : made'[r] = made[r]
    BY <1>1, <1>2, IsSeqAppend DEF n
  <2>2. \A r \in 1 .. Len(made') : r \in 1 .. n \/ r = n + 1
    BY <1>2, <2>1
  <2>3. \A r \in 1 .. n : FieldPlaced(made[r])
    BY DEF Placed, n
  <2>4. QED BY <1>5, <2>1, <2>2, <2>3
<1>8. QED BY <1>1, <1>6, <1>7, StoredKeeps DEF Placed

LEMMA PlacedOpens ==
    ASSUME Typed, Placed, NEW pieces, todo # <<>>, IsSeq(pieces), Replace(pieces), UNCHANGED <<job, made>>,
           \A t \in Range(pieces) : TaskPlaced(t)
    PROVE  Placed'
<1>1. IsSeq(todo)
  BY DEF Typed
<1>2. Range(todo') = Range(pieces) \cup Range(Tail(todo)) /\ Range(Tail(todo)) \subseteq Range(todo)
  BY <1>1, ReplaceFacts
<1>3. \A t \in Range(todo') : TaskPlaced(t)
  BY <1>2 DEF Placed
<1>4. job' = job
  OBVIOUS
<1>5. QED BY <1>3, <1>4, StoredKeeps DEF Placed

LEMMA PlacedSame ==
    ASSUME Placed, UNCHANGED <<job, todo, made>>
    PROVE  Placed'
<1>1. job' = job
  OBVIOUS
<1>2. QED BY <1>1, StoredKeeps DEF Placed

-----------------------------------------------------------------------------

\* The place of the piece that is walked.
LEMMA NowPlaced ==
    ASSUME Typed, Placed, status = "walking", todo # <<>>, Now.what = "piece"
    PROVE  /\ Now.depth \in 1 .. Levels
           /\ \E x \in Level[Now.depth] : IsOf(Now, x) /\ IsPlace(x) /\ x \in Places
<1>1. Now \in Range(todo)
  BY IsSeqTail DEF Typed, Now
<1>2. Now.depth \in 1 .. Levels
  BY <1>1 DEF Placed, TaskPlaced
<1>3. PICK x \in Level[Now.depth] : IsOf(Now, x)
  BY <1>1 DEF Placed, TaskPlaced
<1>4. IsPlace(x)
  BY <1>2, PlacesAre
<1>5. x \in Places
  BY <1>2 DEF Places
<1>6. QED BY <1>2, <1>3, <1>4, <1>5

\* There is a level below it, unless it is too deep to be walked.
LEMMA Deeper ==
    ASSUME Typed, NEW kinds, Walking(kinds), Now.depth \in 1 .. Levels
    PROVE  Now.depth + 1 \in 1 .. Levels
<1>1. Now.depth <= MaxDepth /\ Now.depth \in Nat \ {0}
  BY WalkingFacts
<1>2. QED BY <1>1, BoundsAssumption

\* A member's piece is for the member's place.
LEMMA PieceIsOf ==
    ASSUME NEW t, NEW x, t.column = x.path, t.at = x.at, NEW m, NEW depth, NEW into, NEW copies
    PROVE  IsOf(Piece(m, t.column, t.at, depth, into), MemberPlace(x, m, copies))
BY DEF IsOf, Piece, MemberPlace

LEMMA BytesOfBits ==
    ASSUME NEW bit \in Nat, NEW bits \in Nat \ {0}
    PROVE  BitsWidth(bit, bits) = (bit + bits - 1) \div 8 - bit \div 8 + 1
<1> DEFINE a == bit \div 8
           b == bit % 8
<1>1. a \in Nat /\ b \in 0 .. 7 /\ bit = 8 * a + b
  OBVIOUS
<1> HIDE DEF a, b
<1>2. (bit + bits - 1) \div 8 = a + (b + bits - 1) \div 8
  BY <1>1
<1>3. (b + bits + 7) \div 8 = (b + bits - 1) \div 8 + 1
  BY <1>1
<1>4. (b + bits - 1) \div 8 \in Int
  BY <1>1
<1>5. BitsWidth(bit, bits) = (b + bits + 7) \div 8
  BY DEF BitsWidth, b
<1>6. QED BY <1>1, <1>2, <1>3, <1>4, <1>5 DEF a

LEMMA PlacedBits ==
    ASSUME Typed, Placed, WalkBits
    PROVE  Placed'
<1> DEFINE at == Now.bit \div 8
           each == BitsWidth(Now.bit, Now.bits)
           paths == <<Now.column>>
<1>1. status = "walking" /\ todo # <<>> /\ Now.what = "piece" /\ Now.bits # NoSize
  BY DEF WalkBits
<1>2. Now.bit \in Nat /\ Now.bits \in Nat \ {0}
  BY <1>1, NowFacts DEF IsPiece
<1>3. PICK x \in Places : IsOf(Now, x)
  BY <1>1, NowPlaced
<1>4. x.path = Now.column /\ x.bits = Now.bits /\ x.bit = Now.bit
  BY <1>1, <1>3 DEF IsOf
<1>5. Stores(x) = {[path |-> x.path, at |-> x.bit \div 8, width |-> (x.bit + x.bits - 1) \div 8 - x.bit \div 8 + 1]}
  BY <1>1, <1>4 DEF Stores
<1>6. at \in Nat /\ each = (x.bit + x.bits - 1) \div 8 - x.bit \div 8 + 1
  <2> DEFINE bit == Now.bit
             bits == Now.bits
  <2>1. bit \in Nat /\ bits \in Nat \ {0}
    BY <1>2
  <2> HIDE DEF bit, bits
  <2>2. BitsWidth(bit, bits) = (bit + bits - 1) \div 8 - bit \div 8 + 1
    BY <2>1, BytesOfBits
  <2>3. bit \div 8 \in Nat
    BY <2>1
  <2>4. QED BY <1>4, <2>2, <2>3 DEF bit, bits
<1>7. StoredAt(Now.column, at, each)
  BY <1>3, <1>4, <1>5, <1>6 DEF StoredAt
<1>8. Adds(paths, at, each)
  BY WalkBitsAdds
<1>9. each \in Nat
  BY <1>8 DEF Adds
<1>10. PathsStored(paths, at, each)
  <2> HIDE DEF at, each
  <2>1. at + (1 - 1) * each = at
    BY <1>6, <1>9
  <2>2. \A k \in 1 .. Len(paths) : k = 1
    OBVIOUS
  <2>3. QED BY <1>7, <2>1, <2>2 DEF PathsStored
<1> HIDE DEF at, each, paths
<1>11. QED BY <1>8, <1>10, PlacedAdds

\* What is walked is at the place.
Stands(x) == /\ IsPlace(x) /\ x.path = Now.column /\ x.at = Now.at /\ x.bits = NoSize
             /\ x.type = Now.type /\ Resolve(Types, x.type) = Inner

\* And the place is one of its level.
Walks(x) == /\ Stands(x) /\ x \in Level[Now.depth] /\ x \in Places
            /\ Within(x) \subseteq Level[Now.depth + 1] /\ Within(x) \subseteq Places

LEMMA WalkedPlace ==
    ASSUME Typed, Placed, NEW kinds, Walking(kinds)
    PROVE  /\ Now.depth \in 1 .. Levels /\ Now.depth + 1 \in 1 .. Levels
           /\ \E x : Walks(x)
<1>1. status = "walking" /\ todo # <<>> /\ Now.what = "piece" /\ Now.bits = NoSize
  BY DEF Walking
<1>2. Now.depth \in 1 .. Levels
  BY <1>1, NowPlaced
<1>3. PICK x \in Level[Now.depth] : IsOf(Now, x) /\ IsPlace(x) /\ x \in Places
  BY <1>1, NowPlaced
<1>4. Now.depth + 1 \in 1 .. Levels
  BY <1>2, Deeper
<1>5. Within(x) \subseteq Level[Now.depth + 1]
  BY <1>2, <1>4, NextLevel
<1>6. Within(x) \subseteq Places
  BY <1>4, <1>5 DEF Places
<1>7. x.path = Now.column /\ x.at = Now.at /\ x.bits = NoSize /\ x.type = Now.type
  BY <1>1, <1>3 DEF IsOf
<1>8. Resolve(Types, x.type) = Inner
  BY <1>7 DEF Inner
<1>9. Walks(x)
  BY <1>3, <1>5, <1>6, <1>7, <1>8 DEF Walks, Stands
<1>10. QED BY <1>2, <1>4, <1>9

\* A scalar stores its own bytes.
LEMMA StoresScalar ==
    ASSUME NEW x, x.bits = NoSize, IsScalar(Resolve(Types, x.type))
    PROVE  Stores(x) = {[path |-> x.path, at |-> x.at, width |-> Resolve(Types, x.type).size]}
<1> DEFINE node == Resolve(Types, x.type)
<1>1. node.kind \in {"enum", "pointer", "base"}
  BY DEF IsScalar
<1>2. IsScalar(node) /\ ~IsComposite(node) /\ node.kind # "array"
  BY <1>1 DEF IsComposite
<1>3. ~(x.bits # NoSize) /\ ~(x.bits = NoSize /\ IsComposite(node)) /\ ~(x.bits = NoSize /\ node.kind = "array" /\ ~Empty(node))
  BY <1>2
<1>4. QED BY <1>2, <1>3 DEF Stores

LEMMA PlacedScalar ==
    ASSUME Typed, Placed, WalkScalar
    PROVE  Placed'
<1> DEFINE paths == <<Now.column>>
<1>1. Walking({"base", "enum", "pointer"})
  BY DEF WalkScalar
<1>2. PICK x : Walks(x)
  BY <1>1, WalkedPlace
<1>3. IsScalar(Inner) /\ Now.at \in Nat /\ Inner.size \in Nat
  BY <1>1, WalkingFacts DEF IsScalar
<1>4. Stores(x) = {[path |-> x.path, at |-> x.at, width |-> Inner.size]}
  BY <1>2, <1>3, StoresScalar DEF Walks, Stands
<1>5. StoredAt(Now.column, Now.at, Inner.size)
  BY <1>2, <1>4 DEF StoredAt, Walks, Stands
<1>6. Adds(paths, Now.at, Inner.size)
  BY WalkScalarAdds
<1>7. PathsStored(paths, Now.at, Inner.size)
  <2>1. Now.at + (1 - 1) * Inner.size = Now.at
    BY <1>3
  <2>2. \A k \in 1 .. Len(paths) : k = 1
    OBVIOUS
  <2>3. QED BY <1>5, <2>1, <2>2 DEF PathsStored
<1> HIDE DEF paths
<1>8. QED BY <1>6, <1>7, PlacedAdds

LEMMA PlacedText ==
    ASSUME Typed, Placed, AddText
    PROVE  Placed'
<1> DEFINE paths == <<Now.column>>
<1>1. status = "walking" /\ todo # <<>> /\ Now.what = "text"
  BY DEF AddText
<1>2. Now.at \in Nat /\ Now.width \in Nat
  BY <1>1, NowFacts DEF IsText1
<1>3. Now \in Range(todo)
  BY <1>1, IsSeqTail DEF Typed, Now
<1>4. StoredAt(Now.column, Now.at, Now.width)
  BY <1>1, <1>3 DEF Placed, TaskPlaced
<1>5. Adds(paths, Now.at, Now.width)
  BY AddTextAdds
<1>6. PathsStored(paths, Now.at, Now.width)
  <2>1. Now.at + (1 - 1) * Now.width = Now.at
    BY <1>2
  <2>2. \A k \in 1 .. Len(paths) : k = 1
    OBVIOUS
  <2>3. QED BY <1>4, <2>1, <2>2 DEF PathsStored
<1> HIDE DEF paths
<1>7. QED BY <1>5, <1>6, PlacedAdds

\* An array that is walked has elements, and is one of texts as the reference says.
LEMMA ArrayPlace ==
    ASSUME Typed, Walking({"array"})
    PROVE  /\ Inner.kind = "array" /\ ~Empty(Inner)
           /\ TextArray <=> IsText(Inner)
           /\ IsText(Inner) => Elem.size = 1
<1>1. Inner.kind = "array" /\ Product(Inner.dims) > 0 /\ SizeOr0(Types, Inner.elem) > 0
  BY WalkingFacts
<1>2. ~Empty(Inner)
  BY <1>1 DEF Empty
<1>3. Encoding(Elem) = "char" => IsScalar(Elem)
  BY DEF Encoding, IsScalar
<1>4. TextArray <=> Encoding(Elem) = "char" /\ Elem.size = 1 /\ job.chars = "text"
  BY <1>3 DEF TextArray, IsChar
<1>5. IsText(Inner) <=> Encoding(Elem) = "char" /\ Elem.size = 1 /\ job.chars = "text"
  BY DEF IsText, Elem
<1>6. QED BY <1>1, <1>2, <1>4, <1>5

\* The elements of an array that is not of texts.
LEMMA ElementsPlace ==
    ASSUME Typed, Walking({"array"}), ~TextArray, NEW x, Stands(x)
    PROVE  Within(x) = {ElementPlace(x, Inner, Elem.size, p) : p \in 1 .. Product(Inner.dims)}
<1>1. Inner.kind = "array" /\ ~Empty(Inner) /\ ~IsText(Inner)
  BY ArrayPlace
<1>2. Elem.size = SizeOr0(Types, Inner.elem)
  BY ArrayFacts
<1>3. x.bits = NoSize /\ Resolve(Types, x.type) = Inner
  BY DEF Stands
<1>4. QED BY <1>1, <1>2, <1>3, WithinArray

LEMMA PlacedVector ==
    ASSUME Typed, Placed, WalkVector
    PROVE  Placed'
<1> DEFINE paths == Paths(Now.column, Inner.dims)
<1>1. Walking({"array"}) /\ ~TextArray /\ Unpacked
  BY DEF WalkVector
<1>2. PICK x : Walks(x)
  BY <1>1, WalkedPlace
<1>3. Inner.dims \in Seq(Nat)
  BY <1>1, ArrayFacts
<1>4. Len(paths) = Product(Inner.dims) /\ \A p \in 1 .. Product(Inner.dims) : paths[p] = Now.column \o Index(Inner.dims, p - 1)
  BY <1>3, PathsFacts
<1> HIDE DEF paths
<1>5. ASSUME NEW p \in 1 .. Product(Inner.dims)
      PROVE  StoredAt(paths[p], Now.at + (p - 1) * Elem.size, Elem.size)
  <2> DEFINE y == ElementPlace(x, Inner, Elem.size, p)
  <2>1. y \in Within(x)
    BY <1>1, <1>2, ElementsPlace DEF Walks
  <2>2. /\ y.type = Inner.elem /\ y.path = x.path \o Index(Inner.dims, p - 1)
        /\ y.at = x.at + (p - 1) * Elem.size /\ y.bits = NoSize
    <3>1. IsPlace(x) /\ x.bits = NoSize
      BY <1>2 DEF Walks, Stands
    <3>2. IsElement(y, x, Inner, Elem.size, p)
      BY <3>1, ElementIsPlace
    <3> HIDE DEF y
    <3>3. QED BY <3>1, <3>2 DEF IsElement
  <2> HIDE DEF y
  <2>3. Resolve(Types, y.type) = Elem /\ IsScalar(Elem)
    BY <1>1, <2>2 DEF Elem, Unpacked
  <2>4. Stores(y) = {[path |-> y.path, at |-> y.at, width |-> Elem.size]}
    BY <2>2, <2>3, StoresScalar
  <2>5. y \in Places /\ x.path = Now.column /\ x.at = Now.at
    BY <1>2, <2>1 DEF Walks, Stands
  <2>6. y.path = paths[p] /\ y.at = Now.at + (p - 1) * Elem.size
    BY <1>4, <2>2, <2>5
  <2>7. QED BY <2>4, <2>5, <2>6 DEF StoredAt
<1>6. PathsStored(paths, Now.at, Elem.size)
  BY <1>4, <1>5 DEF PathsStored
<1>7. Adds(paths, Now.at, Elem.size)
  BY WalkVectorAdds DEF paths
<1>8. QED BY <1>6, <1>7, PlacedAdds

\* An element's piece is for the element's place.
LEMMA PlacedElements ==
    ASSUME Typed, Placed, WalkElements
    PROVE  Placed'
<1> DEFINE elements == Elements(Inner, Elem.size)
           depth == Now.depth + 1
           pieces == Pieces(elements, Now.column, Now.at, depth, Now.into)
<1>1. /\ Walking({"array"}) /\ ~TextArray /\ Replace(pieces)
      /\ UNCHANGED <<job, status, made, lists, used, dropped, headerSize, packet, row>>
  BY DEF WalkElements
<1>2. PICK x : Walks(x)
  BY <1>1, WalkedPlace
<1>3. depth \in 1 .. Levels
  BY <1>1, WalkedPlace
<1>4. IsSeq(elements) /\ Range(elements) = {Element(Inner, Elem.size, p) : p \in 1 .. Product(Inner.dims)}
  BY <1>1, ArrayFacts
<1> HIDE DEF elements, depth
<1>5. IsSeq(pieces) /\ \A t \in Range(pieces) : \E m \in Range(elements) : t = Piece(m, Now.column, Now.at, depth, Now.into)
  BY <1>4, PiecesFacts
<1> HIDE DEF pieces
<1>6. ASSUME NEW t \in Range(pieces) PROVE TaskPlaced(t)
  <2>1. PICK p \in 1 .. Product(Inner.dims) :
            t = Piece(Element(Inner, Elem.size, p), Now.column, Now.at, depth, Now.into)
    BY <1>4, <1>5
  <2> DEFINE y == ElementPlace(x, Inner, Elem.size, p)
  <2>2. y \in Within(x)
    BY <1>1, <1>2, ElementsPlace DEF Walks
  <2>3. IsElement(y, x, Inner, Elem.size, p)
    BY <1>2, ElementIsPlace DEF Walks, Stands
  <2> HIDE DEF y
  <2>4. /\ t.what = "piece" /\ t.type = Inner.elem /\ t.column = Now.column \o Index(Inner.dims, p - 1)
        /\ t.at = Now.at + (p - 1) * Elem.size /\ t.bits = NoSize /\ t.depth = depth
    BY <2>1 DEF Piece, Element
  <2>5. IsOf(t, y)
    BY <1>2, <2>3, <2>4 DEF IsOf, IsElement, Walks, Stands
  <2>6. y \in Level[depth]
    BY <1>2, <2>2 DEF Walks, Stands, depth
  <2>7. QED BY <1>3, <2>4, <2>5, <2>6 DEF TaskPlaced
<1>7. todo # <<>>
  BY <1>1 DEF Walking
<1>8. QED BY <1>1, <1>5, <1>6, <1>7, PlacedOpens

\* An array of texts stores one in each row.
RowsAt(x, node) == {[path |-> x.path \o Index(Front(node.dims), p - 1), at |-> x.at + (p - 1) * Last(node.dims),
                     width |-> Last(node.dims)] : p \in 1 .. Product(Front(node.dims))}

LEMMA StoresText ==
    ASSUME NEW x, x.bits = NoSize, Resolve(Types, x.type).kind = "array",
           ~Empty(Resolve(Types, x.type)), IsText(Resolve(Types, x.type))
    PROVE  Stores(x) = RowsAt(x, Resolve(Types, x.type))
<1> DEFINE node == Resolve(Types, x.type)
<1>1. ~(x.bits # NoSize) /\ ~(x.bits = NoSize /\ IsComposite(node)) /\ x.bits = NoSize /\ node.kind = "array" /\ ~Empty(node)
  BY DEF IsComposite
<1>2. QED BY <1>1 DEF Stores, RowsAt

LEMMA PlacedRows ==
    ASSUME Typed, Placed, WalkText
    PROVE  Placed'
<1> DEFINE rows == Rows(Inner, Now.column, Now.at, Now.into)
           long == Last(Inner.dims)
           index(p) == Index(Front(Inner.dims), p - 1)
           count == Product(Front(Inner.dims))
<1>1. /\ Walking({"array"}) /\ TextArray /\ Replace(rows)
      /\ UNCHANGED <<job, status, made, lists, used, dropped, headerSize, packet, row>>
  BY DEF WalkText
<1>2. PICK x : Walks(x)
  BY <1>1, WalkedPlace
<1>3. Inner.kind = "array" /\ ~Empty(Inner) /\ IsText(Inner)
  BY <1>1, ArrayPlace
<1>4. x.bits = NoSize /\ Resolve(Types, x.type) = Inner /\ x.path = Now.column /\ x.at = Now.at /\ x \in Places
  BY <1>2 DEF Walks, Stands
<1>5. Stores(x) = {[path |-> x.path \o index(p), at |-> x.at + (p - 1) * long, width |-> long] : p \in 1 .. count}
  <2>1. Stores(x) = RowsAt(x, Inner)
    BY <1>3, <1>4, StoresText
  <2>2. QED BY <2>1 DEF RowsAt
<1>6. Inner.dims \in Seq(Nat) /\ Inner.dims # <<>> /\ Now.at \in Nat
  BY <1>1, ArrayFacts
<1>7. /\ IsSeq(rows)
      /\ \A t \in Range(rows) : \E p \in 1 .. count : t = RowText(Inner, Now.column, Now.at, Now.into, p)
  <2> DEFINE node == Inner
             column == Now.column
             at == Now.at
             into == Now.into
  <2>1. node.dims \in Seq(Nat) /\ node.dims # <<>> /\ at \in Nat
    BY <1>6
  <2> HIDE DEF node, column, at, into
  <2>2. IsSeq(Rows(node, column, at, into))
    BY ONLY <2>1, RowsFacts
  <2>3. \A t \in Range(Rows(node, column, at, into)) : \E p \in 1 .. Product(Front(node.dims)) :
           t = RowText(node, column, at, into, p)
    BY ONLY <2>1, RowsFacts
  <2>4. QED BY <2>2, <2>3 DEF node, column, at, into
<1>8. \A p : LET t == RowText(Inner, Now.column, Now.at, Now.into, p)
             IN  t.what = "text" /\ t.column = Now.column \o index(p) /\ t.at = Now.at + (p - 1) * long /\ t.width = long
  BY DEF RowText
<1> HIDE DEF rows, long, index, count
<1>9. ASSUME NEW t \in Range(rows) PROVE TaskPlaced(t)
  <2>1. PICK p \in 1 .. count : t = RowText(Inner, Now.column, Now.at, Now.into, p)
    BY <1>7
  <2>2. t.what = "text" /\ t.column = x.path \o index(p) /\ t.at = x.at + (p - 1) * long /\ t.width = long
    BY <1>4, <1>8, <2>1
  <2>3. [path |-> t.column, at |-> t.at, width |-> t.width] \in Stores(x)
    BY <1>5, <2>2
  <2>4. QED BY <1>4, <2>2, <2>3 DEF TaskPlaced, StoredAt
<1>10. todo # <<>>
  BY <1>1 DEF Walking
<1>11. QED BY <1>1, <1>7, <1>9, <1>10, PlacedOpens

\* What a struct, or a union that is not tagged, is made of.
LEMMA MembersPlace ==
    ASSUME Typed, Walking({"struct", "union"}), Inner.kind = "union" => Use.how # "tag", NEW x, Stands(x)
    PROVE  Within(x) = {MemberPlace(x, m, x.copies) : m \in Range(Chosen1)}
<1>1. Inner.kind \in {"struct", "union"}
  BY WalkingFacts
<1>2. x.bits = NoSize /\ Resolve(Types, x.type) = Inner /\ x.type = Now.type
  BY DEF Stands
<1>3. Range(Chosen1) = IF Inner.kind = "struct" THEN Range(Inner.members) ELSE AskedFor(Inner, Use)
  BY Chosen1Facts
<1>4. CASE Inner.kind = "struct"
  BY <1>2, <1>3, <1>4, WithinStruct
<1>5. CASE Inner.kind = "union"
  <2>1. Within(x) = Asked(x, Inner, Use)
    <3>1. UseOf(job.unions, ChainEnd(Types, x.type)) = Use
      BY <1>2 DEF Use
    <3>2. QED BY <1>2, <1>5, <3>1, WithinUnion
  <2>2. \A m : Copied(x, Inner, Use, m) = {}
    BY <1>5 DEF Copied
  <2>3. \A m : x.copies \cup Copied(x, Inner, Use, m) = x.copies
    BY <2>2
  <2>4. QED BY <1>3, <1>5, <2>1, <2>3 DEF Asked
<1>6. QED BY <1>1, <1>4, <1>5

\* The pieces of members are for places within what is walked.
LEMMA MembersPlaced ==
    ASSUME NEW x, Walks(x), Now.depth + 1 \in 1 .. Levels, NEW m, NEW into,
           \E copies : MemberPlace(x, m, copies) \in Within(x)
    PROVE  TaskPlaced(Piece(m, Now.column, Now.at, Now.depth + 1, into))
<1> DEFINE depth == Now.depth + 1
           t == Piece(m, Now.column, Now.at, depth, into)
<1>1. PICK copies : MemberPlace(x, m, copies) \in Within(x)
  OBVIOUS
<1>2. MemberPlace(x, m, copies) \in Level[depth]
  BY <1>1 DEF Walks, Stands
<1>3. IsOf(t, MemberPlace(x, m, copies))
  BY PieceIsOf DEF Walks, Stands
<1> HIDE DEF depth
<1>4. t.what = "piece" /\ t.depth = depth
  BY DEF Piece
<1> HIDE DEF t
<1>5. TaskPlaced(t)
  BY <1>2, <1>3, <1>4 DEF TaskPlaced, depth
<1>6. QED BY <1>5 DEF t, depth

LEMMA PlacedMembers ==
    ASSUME Typed, Placed, WalkMembers
    PROVE  Placed'
<1> DEFINE pieces == Pieces(Chosen1, Now.column, Now.at, Now.depth + 1, Now.into)
<1>1. /\ Walking({"struct", "union"}) /\ (Inner.kind = "union" => Use.how # "tag") /\ Replace(pieces)
      /\ UNCHANGED <<job, status, made, lists, used, dropped, headerSize, packet, row>>
  BY DEF WalkMembers, Chosen1
<1>2. PICK x : Walks(x)
  BY <1>1, WalkedPlace
<1>3. Now.depth + 1 \in 1 .. Levels
  BY <1>1, WalkedPlace
<1>4. Within(x) = {MemberPlace(x, m, x.copies) : m \in Range(Chosen1)}
  BY <1>1, <1>2, MembersPlace DEF Walks
<1>5. IsSeq(Chosen1)
  BY <1>1, Chosen1Facts
<1>6. IsSeq(pieces) /\ \A t \in Range(pieces) : \E m \in Range(Chosen1) : t = Piece(m, Now.column, Now.at, Now.depth + 1, Now.into)
  BY <1>5, PiecesFacts
<1> HIDE DEF pieces
<1>7. ASSUME NEW t \in Range(pieces) PROVE TaskPlaced(t)
  <2>1. PICK m \in Range(Chosen1) : t = Piece(m, Now.column, Now.at, Now.depth + 1, Now.into)
    BY <1>6
  <2>2. MemberPlace(x, m, x.copies) \in Within(x)
    BY <1>4
  <2>3. QED BY <1>2, <1>3, <2>1, <2>2, MembersPlaced
<1>8. todo # <<>>
  BY <1>1 DEF Walking
<1>9. QED BY <1>1, <1>6, <1>7, <1>8, PlacedOpens

\* The members always there and the alternatives were asked for.
LEMMA TaggedAsked ==
    ASSUME Typed, Walking({"union"}), Use.how = "tag", NEW x, Stands(x)
    PROVE  /\ Within(x) = Asked(x, Inner, Use)
           /\ \A m \in Range(Plan.always) : m \in AskedFor(Inner, Use)
           /\ \A j \in 1 .. Len(Plan.alternatives) : Plan.alternatives[j].member \in AskedFor(Inner, Use)
<1> DEFINE wanted == Use.names \cup {Use.tag[1]} \cup {c.member : c \in Range(Use.cases)}
<1>1. /\ Range(Plan.always) = {m \in Range(Inner.members) : m.name \in Use.names \cup {Use.tag[1]}}
      /\ \A j \in 1 .. Len(Plan.alternatives) : \E c \in Range(Use.cases) :
            Plan.alternatives[j].member = Member(Inner, c.member) /\ c.member \in NamedMembers(Inner)
      /\ Inner.kind = "union"
  BY TaggedFacts
<1>2. AskedFor(Inner, Use) = {m \in Range(Inner.members) : m.name \in wanted}
  BY DEF AskedFor
<1>3. Within(x) = Asked(x, Inner, Use)
  <2>1. x.bits = NoSize /\ Resolve(Types, x.type) = Inner /\ UseOf(job.unions, ChainEnd(Types, x.type)) = Use
    BY DEF Stands, Use
  <2>2. QED BY <1>1, <2>1, WithinUnion
<1>4. \A m \in Range(Plan.always) : m \in AskedFor(Inner, Use)
  BY <1>1, <1>2
<1>5. ASSUME NEW j \in 1 .. Len(Plan.alternatives)
      PROVE  Plan.alternatives[j].member \in AskedFor(Inner, Use)
  <2>1. PICK c \in Range(Use.cases) :
            Plan.alternatives[j].member = Member(Inner, c.member) /\ c.member \in NamedMembers(Inner)
    BY <1>1
  <2>2. Plan.alternatives[j].member \in Range(Inner.members) /\ Plan.alternatives[j].member.name = c.member
    BY <2>1, MemberIn
  <2>3. c.member \in wanted
    OBVIOUS
  <2>4. QED BY <1>2, <2>2, <2>3
<1>6. QED BY <1>3, <1>4, <1>5

LEMMA PlacedTagged ==
    ASSUME Typed, Placed, WalkTagged
    PROVE  Placed'
<1>1. /\ Walking({"union"}) /\ Use.how = "tag" /\ UNCHANGED <<job, status, made, used, headerSize, packet, row>>
      /\ \/ Replace(Always)
         \/ \E f \in TagField(Types, Plan.tag, Now.at) : Replace(Always \o Alternatives \o <<Together(f)>>)
  BY DEF WalkTagged, Plan, Always, Alternatives, Alternative, Together
<1>2. PICK x : Walks(x)
  BY <1>1, WalkedPlace
<1>3. Now.depth + 1 \in 1 .. Levels /\ todo # <<>>
  BY <1>1, WalkedPlace DEF Walking
<1>4. \A m \in AskedFor(Inner, Use) : \E copies : MemberPlace(x, m, copies) \in Within(x)
  <2>1. Within(x) = {MemberPlace(x, m, x.copies \cup Copied(x, Inner, Use, m)) : m \in AskedFor(Inner, Use)}
    BY <1>1, <1>2, TaggedAsked DEF Asked, Walks
  <2>2. \A m \in AskedFor(Inner, Use) : MemberPlace(x, m, x.copies \cup Copied(x, Inner, Use, m)) \in Within(x)
    BY <2>1
  <2>3. QED BY <2>2
<1>5. IsSeq(Always) /\ \A t \in Range(Always) : TaskPlaced(t)
  <2>1. IsSeq(Always)
    BY <1>1, AlwaysFacts
  <2>2. ASSUME NEW t \in Range(Always) PROVE TaskPlaced(t)
    <3>1. PICK m \in Range(Plan.always) : t = Piece(m, Now.column, Now.at, Now.depth + 1, Now.into)
      BY <1>1, AlwaysFacts
    <3>2. m \in AskedFor(Inner, Use)
      BY <1>1, <1>2, TaggedAsked DEF Walks
    <3>3. QED BY <1>2, <1>3, <1>4, <3>1, <3>2, MembersPlaced
  <2>3. QED BY <2>1, <2>2
<1>6. IsSeq(Alternatives) /\ \A t \in Range(Alternatives) : TaskPlaced(t)
  <2>1. /\ IsSeq(Alternatives) /\ Len(Alternatives) = Len(Plan.alternatives)
        /\ \A j \in 1 .. Len(Alternatives) : Alternatives[j] = Alternative(j)
    BY <1>1, AlternativesFacts
  <2>2. ASSUME NEW j \in 1 .. Len(Alternatives) PROVE TaskPlaced(Alternatives[j])
    <3>1. Plan.alternatives[j].member \in AskedFor(Inner, Use)
      BY <1>1, <1>2, <2>1, TaggedAsked DEF Walks
    <3>2. TaskPlaced(Alternative(j))
      BY <1>2, <1>3, <1>4, <3>1, MembersPlaced DEF Alternative
    <3>3. QED BY <2>1, <3>2
  <2>3. QED BY <2>1, <2>2, IsSeqFacts
<1>7. CASE Replace(Always)
  BY <1>1, <1>3, <1>5, <1>7, PlacedOpens
<1>8. ASSUME NEW f, Replace(Always \o Alternatives \o <<Together(f)>>)
      PROVE  Placed'
  <2> DEFINE t == Together(f)
             pieces == Always \o Alternatives \o <<t>>
  <2>1. t.what = "switch"
    BY DEF Together
  <2> HIDE DEF t
  <2>2. IsSeq(Always \o Alternatives) /\ Range(Always \o Alternatives) = Range(Always) \cup Range(Alternatives)
    BY <1>5, <1>6, IsSeqConcat
  <2>3. IsSeq(pieces) /\ Range(pieces) = Range(Always \o Alternatives) \cup {t}
    BY <2>2, One, IsSeqConcat
  <2>4. \A u \in Range(pieces) : TaskPlaced(u)
    BY <1>5, <1>6, <2>1, <2>2, <2>3 DEF TaskPlaced
  <2>5. Replace(pieces)
    BY <1>8 DEF t
  <2> HIDE DEF pieces
  <2>6. QED BY <1>1, <1>3, <2>3, <2>4, <2>5, PlacedOpens
<1>9. QED BY <1>1, <1>7, <1>8

LEMMA PlacedMakeSwitch ==
    ASSUME Typed, Placed, MakeSwitch
    PROVE  Placed'
<1> DEFINE f == Switch(made, Now)
           n == Len(made)
<1>1. /\ status = "walking" /\ todo # <<>> /\ made' = Append(made, f) /\ Replace(<<>>) /\ job' = job
  BY DEF MakeSwitch
<1>2. IsSeq(todo) /\ IsSeq(made) /\ n \in Nat
  BY IsSeqFacts DEF Typed
<1>3. f.kind = "switch"
  BY DEF Switch
<1> HIDE DEF f, n
<1>4. \A t \in Range(todo') : TaskPlaced(t)
  <2>1. Range(todo') = Range(<<>>) \cup Range(Tail(todo)) /\ Range(Tail(todo)) \subseteq Range(todo)
    BY <1>1, <1>2, None, ReplaceFacts
  <2>2. QED BY <2>1, None DEF Placed
<1>5. \A r \in 1 .. Len(made') : FieldPlaced(made'[r])
  <2>1. /\ Len(made') = n + 1 /\ made'[n + 1] = f /\ \A r \in 1 .. n : made'[r] = made[r]
    BY <1>1, <1>2, IsSeqAppend DEF n
  <2>2. \A r \in 1 .. Len(made') : r \in 1 .. n \/ r = n + 1
    BY <1>2, <2>1
  <2>3. \A r \in 1 .. n : FieldPlaced(made[r])
    BY DEF Placed, n
  <2>4. FieldPlaced(f)
    BY <1>3 DEF FieldPlaced
  <2>5. QED BY <2>1, <2>2, <2>3, <2>4
<1>6. QED BY <1>1, <1>4, <1>5, StoredKeeps DEF Placed

\* The walk begins at the members that are not the header.
LEMMA WalkedMembers ==
    ASSUME Compiles
    PROVE  /\ IsSeq(Walked)
           /\ IsHeader(Types, job.key, job.declared) => Range(Walked) = {}
           /\ ~IsHeader(Types, job.key, job.declared) =>
                Range(Walked) = {m \in Range(Message.members) : m.offset > 0 \/ ~IsHeader(Types, m.type, job.declared)}
<1>1. IsSeq(Walked)
  BY WalkedFacts
<1>2. CASE IsHeader(Types, job.key, job.declared)
  BY <1>1, <1>2, None DEF Walked
<1>3. CASE ~IsHeader(Types, job.key, job.declared)
  <2> DEFINE W == {m \in Range(Message.members) : ~LeadsWithHeader(Types, m, job.declared)}
  <2>1. Walked = Keeping(Message.members, W)
    BY <1>3 DEF Walked
  <2>2. \A m \in Range(Message.members) : m.offset \in Nat
    BY MessageFacts DEF Laid
  <2>3. W = {m \in Range(Message.members) : m.offset > 0 \/ ~IsHeader(Types, m.type, job.declared)}
    <3>1. \A m \in Range(Message.members) : m.offset > 0 <=> m.offset # 0
      BY <2>2
    <3>2. QED BY <3>1 DEF LeadsWithHeader
  <2>4. W \subseteq Range(Message.members)
    OBVIOUS
  <2> HIDE DEF W
  <2>5. Range(Keeping(Message.members, W)) = Range(Message.members) \cap W
    BY MessageFacts, KeepingRange
  <2>6. Range(Walked) = W
    BY <2>1, <2>4, <2>5
  <2>7. QED BY <1>1, <1>3, <2>3, <2>6
<1>4. QED BY <1>2, <1>3

LEMMA PlacedBegin ==
    ASSUME Typed, Begin
    PROVE  Placed'
<1> DEFINE pieces == Pieces(Walked, <<>>, 0, 1, 1)
           whole == [type |-> job.key, path |-> <<>>, at |-> 0, bits |-> NoSize, bit |-> 0, copies |-> {}]
<1>1. status = "start" /\ Compiles /\ todo' = pieces /\ UNCHANGED <<job, made>>
  BY DEF Begin
<1>2. made' = <<>>
  BY <1>1 DEF Typed
<1>3. IsSeq(Walked)
  BY <1>1, WalkedMembers
<1>4. IsSeq(pieces) /\ \A t \in Range(pieces) : \E m \in Range(Walked) : t = Piece(m, <<>>, 0, 1, 1)
  BY <1>3, PiecesFacts
<1> HIDE DEF pieces
<1>5. 1 \in 1 .. Levels /\ Level[1] = Outer
  <2>1. 1 \in 1 .. Levels
    BY BoundsAssumption
  <2>2. Level[1] = IF 1 > 1 THEN UNION {Within(x) : x \in Level[1 - 1]} ELSE Outer
    BY <2>1, LevelSteps
  <2>3. QED BY <2>1, <2>2
<1>6. ASSUME NEW t \in Range(pieces) PROVE TaskPlaced(t)
  <2>1. PICK m \in Range(Walked) : t = Piece(m, <<>>, 0, 1, 1)
    BY <1>4
  <2>2. MemberPlace(whole, m, {}) \in Outer
    BY <1>1, <2>1, WalkedMembers DEF Outer
  <2>3. whole.path = <<>> /\ whole.at = 0
    OBVIOUS
  <2> HIDE DEF whole
  <2>4. t.what = "piece" /\ t.depth = 1
    BY <2>1 DEF Piece
  <2>5. IsOf(t, MemberPlace(whole, m, {}))
    BY <2>1, <2>3 DEF IsOf, Piece, MemberPlace
  <2>6. QED BY <1>5, <2>2, <2>4, <2>5 DEF TaskPlaced
<1>7. \A t \in Range(todo') : TaskPlaced(t)'
  BY <1>1, <1>6, StoredKeeps
<1>8. Len(made') = 0
  BY <1>2, None
<1>9. QED BY <1>7, <1>8 DEF Placed

LEMMA PlacedInit == Init => Placed
<1>1. SUFFICES ASSUME Init PROVE Placed
  OBVIOUS
<1>2. Range(todo) = {} /\ Len(made) = 0
  BY <1>1, None DEF Init
<1>3. QED BY <1>2 DEF Placed

LEMMA PlacedNext == Typed /\ Placed /\ [Next]_vars => Placed'
<1>1. SUFFICES ASSUME Typed, Placed, [Next]_vars PROVE Placed'
  OBVIOUS
<1>2. CASE Refuse
  BY <1>1, <1>2, PlacedSame DEF Refuse
<1>3. CASE Begin
  BY <1>1, <1>3, PlacedBegin
<1>4. CASE Walk
  <2>1. CASE Drop
    <3>1. todo # <<>> /\ Replace(<<>>) /\ UNCHANGED <<job, made>>
      BY <2>1 DEF Drop
    <3>2. IsSeq(<<>>) /\ \A t \in Range(<<>>) : TaskPlaced(t)
      BY None
    <3>3. QED BY <1>1, <3>1, <3>2, PlacedOpens
  <2>2. CASE WalkBits
    BY <1>1, <2>2, PlacedBits
  <2>3. CASE WalkScalar
    BY <1>1, <2>3, PlacedScalar
  <2>4. CASE WalkMembers
    BY <1>1, <2>4, PlacedMembers
  <2>5. CASE WalkTagged
    BY <1>1, <2>5, PlacedTagged
  <2>6. CASE MakeSwitch
    BY <1>1, <2>6, PlacedMakeSwitch
  <2>7. CASE WalkText
    BY <1>1, <2>7, PlacedRows
  <2>8. CASE AddText
    BY <1>1, <2>8, PlacedText
  <2>9. CASE WalkVector
    BY <1>1, <2>9, PlacedVector
  <2>10. CASE WalkElements
    BY <1>1, <2>10, PlacedElements
  <2>11. QED BY <1>4, <2>1, <2>2, <2>3, <2>4, <2>5, <2>6, <2>7, <2>8, <2>9, <2>10 DEF Walk
<1>5. CASE Finish
  BY <1>1, <1>5, PlacedSame DEF Finish
<1>6. CASE Decode
  BY <1>1, <1>6, PlacedSame DEF Decode
<1>7. CASE UNCHANGED vars
  BY <1>1, <1>7, PlacedSame DEF vars
<1>8. QED BY <1>1, <1>2, <1>3, <1>4, <1>5, <1>6, <1>7 DEF Next

\* All that is walked, and every column that is made, is of what the message
\* stores: the walk keeps paths, bytes and bits right however deep it is.
THEOREM PlacedAlways == Spec => []Placed
<1>1. Init => Typed /\ Placed
  BY TypedInit, PlacedInit
<1>2. Typed /\ Placed /\ [Next]_vars => Typed' /\ Placed'
  BY TypedNext, PlacedNext
<1>3. QED BY <1>1, <1>2, PTL DEF Spec

-----------------------------------------------------------------------------

\* A name is one of a field that reads bytes.
Named(c) == \E r \in 1 .. Len(made) : made[r].kind = "plain" /\ c \in Range(made[r].names)

\* So is a tagged union's: its field has the names of others.
LEMMA AllNamed ==
    ASSUME Typed
    PROVE  \A r \in 1 .. Len(made) : \A c \in Range(made[r].names) : Named(c)
<1>1. PICK n : n = Len(made)
  OBVIOUS
<1>2. n \in Nat
  BY <1>1, IsSeqFacts DEF Typed
<1> DEFINE H == {m \in 0 .. n : \A q \in 1 .. m : \A c \in Range(made[q].names) : Named(c)}
<1>3. 0 \in H
  BY <1>2
<1>4. ASSUME NEW m \in 1 .. n, m - 1 \in H
      PROVE  m \in H
  <2>1. \A q \in 1 .. m - 1 : \A c \in Range(made[q].names) : Named(c)
    BY <1>4
  <2>2. m \in 1 .. Len(made)
    BY <1>1
  <2>3. ASSUME NEW c \in Range(made[m].names) PROVE Named(c)
    <3>1. CASE made[m].kind = "plain"
      BY <2>2, <3>1 DEF Named
    <3>2. CASE made[m].kind = "switch"
      <4> DEFINE fields == made[m].fields
                 G == Given
      <4>1. IsSeq(fields) /\ (\A k \in 1 .. Len(fields) : fields[k] \in 1 .. m - 1) /\ 1 .. m - 1 \subseteq 1 .. Len(made)
        BY <2>2, <3>2, FieldFacts
      <4>2. \A k \in 1 .. Len(fields) : made[fields[k]].names \in Seq(G)
        BY <4>1, FieldFacts
      <4>3. made[m].names = NamesOf(made, fields)
        BY <2>2, <3>2, FieldFacts
      <4> HIDE DEF fields, G
      <4>4. \A e : e \in Range(NamesOf(made, fields)) <=> \E k \in 1 .. Len(fields) : e \in Range(made[fields[k]].names)
        BY <4>1, <4>2, NamesOfFacts
      <4>5. PICK k \in 1 .. Len(fields) : c \in Range(made[fields[k]].names)
        BY <4>3, <4>4
      <4>6. QED BY <2>1, <4>1, <4>5
    <3>3. made[m].kind \in {"plain", "switch"}
      BY <2>2, FieldFacts
    <3>4. QED BY <3>1, <3>2, <3>3
  <2>4. \A q \in 1 .. m : q \in 1 .. m - 1 \/ q = m
    BY <1>2
  <2>5. m \in 0 .. n
    BY <1>2
  <2>6. QED BY <2>1, <2>3, <2>4, <2>5
<1> HIDE DEF H
<1>5. \A i \in 0 .. n : i \in H
  BY <1>2, <1>3, <1>4, UpTo
<1>6. n \in H
  BY <1>2, <1>5
<1>7. QED BY <1>1, <1>6 DEF H

\* A column is named in one of the message's own fields.
LEMMA ColumnsNames ==
    ASSUME Typed, NEW c \in Range(Columns)
    PROVE  \E r \in 1 .. Len(made) : made[r].into = 1 /\ c \in Range(made[r].names)
<1> DEFINE some == Fields
           G == Given
<1>1. IsSeq(some) /\ \A k \in 1 .. Len(some) : some[k] \in 1 .. Len(made) /\ made[some[k]].into = 1
  BY FieldsFacts
<1>2. \A k \in 1 .. Len(some) : made[some[k]].names \in Seq(G)
  BY <1>1, FieldFacts
<1>3. Columns = NamesOf(made, some)
  BY DEF Columns
<1> HIDE DEF some, G
<1>4. \A e : e \in Range(NamesOf(made, some)) <=> \E k \in 1 .. Len(some) : e \in Range(made[some[k]].names)
  BY <1>1, <1>2, NamesOfFacts
<1>5. QED BY <1>1, <1>3, <1>4

LEMMA ColumnsShowTheirLeavesFrom == Typed /\ Placed => ColumnsShowTheirLeaves
<1>1. SUFFICES ASSUME Typed, Placed, NEW c \in Range(Columns)
               PROVE  Shows(c) # {} /\ Shows(c) \subseteq UNION {Stores(x) : x \in Places}
  BY DEF ColumnsShowTheirLeaves
<1> DEFINE leaf(r, k) == [path |-> c.path, at |-> made[r].at + (k - 1) * made[r].each, width |-> made[r].each]
<1>2. DOMAIN made = 1 .. Len(made)
  BY <1>1, IsSeqFacts DEF Typed
<1>3. \A r \in 1 .. Len(made) : made[r].kind = "plain" <=> r \notin Switches
  BY <1>1, <1>2, FieldFacts DEF Switches
<1>4. \A r \in 1 .. Len(made) : DOMAIN made[r].names = 1 .. Len(made[r].names)
                                /\ Range(made[r].names) = {made[r].names[k] : k \in 1 .. Len(made[r].names)}
  BY <1>1, FieldFacts, IsSeqFacts
<1>5. Shows(c) = UNION {{leaf(r, k) : k \in {k \in DOMAIN made[r].names : made[r].names[k] = c}} : r \in DOMAIN made \ Switches}
  BY DEF Shows
<1>6. Shows(c) # {}
  <2>1. Named(c)
    BY <1>1, ColumnsNames, AllNamed
  <2>2. PICK r \in 1 .. Len(made) : made[r].kind = "plain" /\ c \in Range(made[r].names)
    BY <2>1 DEF Named
  <2>3. PICK k \in 1 .. Len(made[r].names) : made[r].names[k] = c
    BY <1>4, <2>2
  <2> HIDE DEF leaf
  <2>4. leaf(r, k) \in Shows(c)
    BY <1>2, <1>3, <1>4, <1>5, <2>2, <2>3
  <2>5. QED BY <2>4
<1>7. ASSUME NEW l \in Shows(c) PROVE \E x \in Places : l \in Stores(x)
  <2>1. PICK r \in DOMAIN made \ Switches : l \in {leaf(r, k) : k \in {k \in DOMAIN made[r].names : made[r].names[k] = c}}
    BY <1>5, <1>7
  <2>2. PICK k \in DOMAIN made[r].names : made[r].names[k] = c /\ l = leaf(r, k)
    BY <2>1
  <2>3. r \in 1 .. Len(made) /\ made[r].kind = "plain" /\ k \in 1 .. Len(made[r].names)
    BY <1>2, <1>3, <1>4, <2>1, <2>2
  <2>4. FieldPlaced(made[r])
    BY <1>1, <2>3 DEF Placed
  <2>5. StoredAt(made[r].names[k].path, made[r].at + (k - 1) * made[r].each, made[r].each)
    BY <2>3, <2>4 DEF FieldPlaced
  <2>6. StoredAt(c.path, made[r].at + (k - 1) * made[r].each, made[r].each)
    BY <2>2, <2>5
  <2>7. QED BY <2>2, <2>6 DEF StoredAt
<1>8. QED BY <1>6, <1>7

\* For every type file, message type, mapping of unions and option: a column
\* shows bytes that its path names, through nesting, arrays of any dimensions,
\* bit fields and the alternatives of a union (compile_struct, _Builder).
THEOREM ColumnsShowTheirLeavesAlways == Spec => []ColumnsShowTheirLeaves
<1>1. Typed /\ Placed => ColumnsShowTheirLeaves
  BY ColumnsShowTheirLeavesFrom
<1>2. QED BY <1>1, TypedAlways, PlacedAlways, PTL

-----------------------------------------------------------------------------
(* Where all that a message stores is, on the way to its column.            *)

\* The bytes of the identifier of the tagged union that a task makes the field of.
Copy(t) == [from |-> t.from, to |-> t.to]

\* A list of fields is the message's own, or is taken after task i, for a
\* tagged union with one of these identifiers.
OnTime(tasks, l, i, copies) ==
    l = 1 \/ \E j \in i + 1 .. Len(tasks) : Awaits(tasks[j], l) /\ Copy(tasks[j]) \in copies

\* A place is still to be walked.
WaitsAt(tasks, i, x) == tasks[i].what = "piece" /\ IsOf(tasks[i], x) /\ OnTime(tasks, tasks[i].into, i, x.copies)

Waits(tasks, x) == \E i \in 1 .. Len(tasks) : WaitsAt(tasks, i, x)

\* What is there was reported.
Settled(gone, path) == \E d \in gone : IsSeq(d.under) /\ IsPrefix(d.under, path)

InsideCopy(leaf, copies) == \E id \in copies : id.from <= leaf.at /\ leaf.at + leaf.width <= id.to

ShownBy(f, leaf) ==
    /\ f.kind = "plain"
    /\ \E k \in 1 .. Len(f.names) : leaf = [path |-> f.names[k].path, at |-> f.at + (k - 1) * f.each, width |-> f.each]

TakenIn(fields, r) ==
    \E s \in 1 .. Len(fields) : fields[s].kind = "switch" /\ \E k \in 1 .. Len(fields[s].fields) : fields[s].fields[k] = r

\* It has a field, which is the message's own, was taken or will be.
HasField(tasks, fields, r, leaf, copies) ==
    ShownBy(fields[r], leaf) /\ (TakenIn(fields, r) \/ OnTime(tasks, fields[r].into, 0, copies))

\* It is a text that is still to be added.
TextAt(tasks, i, leaf, copies) ==
    /\ tasks[i].what = "text"
    /\ leaf = [path |-> tasks[i].column, at |-> tasks[i].at, width |-> tasks[i].width]
    /\ OnTime(tasks, tasks[i].into, i, copies)

\* What becomes of one of the things that a place stores.
Held(tasks, fields, gone, leaf, copies) ==
    \/ Settled(gone, leaf.path)
    \/ InsideCopy(leaf, copies)
    \/ \E r \in 1 .. Len(fields) : HasField(tasks, fields, r, leaf, copies)
    \/ \E i \in 1 .. Len(tasks) : TextAt(tasks, i, leaf, copies)

AllHeld(tasks, fields, gone, x) == \A leaf \in Stores(x) : Held(tasks, fields, gone, leaf, x.copies)

\* A place is to be walked, was reported, or was walked and has nothing within.
Known(tasks, fields, gone, x) ==
    \/ Waits(tasks, x)
    \/ Settled(gone, x.path)
    \/ Within(x) = {} /\ AllHeld(tasks, fields, gone, x)

\* All that is within these places is one of them, or known.
Closing(tasks, fields, gone, V) ==
    /\ \A y \in Outer : y \in V \/ Known(tasks, fields, gone, y)
    /\ \A x \in V : /\ IsPlace(x) /\ IsSeq(x.path) /\ AllHeld(tasks, fields, gone, x)
                    /\ \A y \in Within(x) : y \in V \/ Known(tasks, fields, gone, y)

\* Nothing is missing: V are the places walked so far.
Accounted == status \in {"walking", "ready"} => \E V : Closing(todo, made, dropped, V)

-----------------------------------------------------------------------------

\* A path longer than one reported under is reported too.
LEMMA PrefixGrows ==
    ASSUME NEW s, IsSeq(s), NEW p, IsSeq(p), NEW q, IsSeq(q), IsPrefix(s, p)
    PROVE  IsPrefix(s, p \o q)
<1> DEFINE n == Len(s)
           t == p \o q
<1>1. n \in Nat /\ Len(p) \in Nat /\ Len(q) \in Nat /\ n <= Len(p) /\ SubSeq(s, 1, n) = SubSeq(p, 1, n)
  BY IsSeqFacts DEF IsPrefix
<1>2. IsSeq(t) /\ Len(t) = Len(p) + Len(q) /\ \A i \in 1 .. Len(p) : t[i] = p[i]
  BY IsSeqConcat
<1> HIDE DEF t, n
<1>3. \A i \in 1 .. n : t[i] = p[i]
  BY <1>1, <1>2
<1>4. SubSeq(t, 1, n) = [i \in 1 .. n |-> t[i]] /\ SubSeq(p, 1, n) = [i \in 1 .. n |-> p[i]]
  <2>1. ASSUME NEW u, IsSeq(u), n <= Len(u) PROVE SubSeq(u, 1, n) = [i \in 1 .. n |-> u[i]]
    <3>1. u \in Seq(Range(u)) /\ Len(u) \in Nat
      BY <2>1, IsSeqFacts DEF IsSeq
    <3>2. SubSeq(u, 1, n) = [i \in 1 .. (1 + n) - 1 |-> u[i + 1 - 1]]
      BY <1>1, <3>1
    <3>3. (1 + n) - 1 = n /\ \A i \in 1 .. n : i + 1 - 1 = i
      BY <1>1
    <3>4. QED BY <3>2, <3>3
  <2>2. n <= Len(t)
    BY <1>1, <1>2
  <2>3. QED BY <1>1, <1>2, <2>1, <2>2
<1>5. SubSeq(t, 1, n) = SubSeq(p, 1, n) /\ n <= Len(t)
  BY <1>1, <1>2, <1>3, <1>4
<1>6. QED BY <1>1, <1>5 DEF IsPrefix, n, t

LEMMA PrefixSelf ==
    ASSUME NEW s, IsSeq(s)
    PROVE  IsPrefix(s, s)
<1>1. Len(s) \in Nat
  BY IsSeqFacts
<1>2. QED BY <1>1 DEF IsPrefix

LEMMA SettledGrows ==
    ASSUME NEW gone, NEW p, IsSeq(p), NEW q, IsSeq(q), Settled(gone, p)
    PROVE  Settled(gone, p \o q)
BY PrefixGrows DEF Settled

\* The index of an element is as long as its array has dimensions.
LEMMA IndexIsSeq ==
    ASSUME NEW dims \in Seq(Nat), NEW p
    PROVE  IsSeq(Index(dims, p))
<1> DEFINE n == Len(dims)
           s == Index(dims, p)
<1>1. n \in Nat /\ DOMAIN dims = 1 .. n
  OBVIOUS
<1>2. s = [i \in 1 .. n |-> s[i]]
  BY <1>1 DEF Index
<1> HIDE DEF n, s
<1>3. IsSeq(s)
  BY <1>1, <1>2, IsSeqFrom
<1>4. QED BY <1>3 DEF s

\* A member's name is a sequence, whichever of the registry's types it is of.
LEMMA NameIsSeq ==
    ASSUME NEW m \in Members
    PROVE  IsSeq(m.name)
<1>1. IsMember(m)
  BY MembersAre
<1>2. m.name \in Seq(STRING)
  BY <1>1 DEF IsMember
<1>3. QED BY <1>2, IsSeqOf

\* An array node, as it stands in the registry.
LEMMA DimsAre ==
    ASSUME NEW key, Resolve(Types, key).kind = "array"
    PROVE  Resolve(Types, key).dims \in Seq(Nat) /\ Resolve(Types, key).dims # <<>>
<1>1. WellFormed(Resolve(Types, key))
  BY ResolveFacts
<1>2. QED BY <1>1 DEF WellFormed

\* The path to what is within a place goes on from the place's.
LEMMA WithinBelow ==
    ASSUME NEW x, IsPlace(x), IsSeq(x.path), NEW y \in Within(x)
    PROVE  /\ IsPlace(y) /\ IsSeq(y.path)
           /\ \E q : IsSeq(q) /\ y.path = x.path \o q
<1> DEFINE node == Resolve(Types, x.type)
<1>1. IsPlace(y)
  BY WithinPlaces
<1>3. /\ x.bits = NoSize
      /\ \/ node.kind = "struct" \/ node.kind = "union"
         \/ node.kind = "array" /\ ~Empty(node) /\ ~IsText(node)
  BY WithinElse DEF IsComposite
<1>4. ASSUME NEW m \in Range(node.members), NEW copies, y = MemberPlace(x, m, copies), IsComposite(node)
      PROVE  \E q : IsSeq(q) /\ y.path = x.path \o q
  <2>1. m \in Members
    BY <1>4, CompositeFacts
  <2>2. IsSeq(m.name)
    BY <2>1, NameIsSeq
  <2>3. y.path = x.path \o m.name
    BY <1>4 DEF MemberPlace
  <2>4. QED BY <2>2, <2>3
<1>5. ASSUME node.kind = "struct" PROVE \E q : IsSeq(q) /\ y.path = x.path \o q
  <2>1. Within(x) = {MemberPlace(x, m, x.copies) : m \in Range(node.members)} /\ IsComposite(node)
    BY <1>3, <1>5, WithinStruct DEF IsComposite
  <2>2. QED BY <1>4, <2>1
<1>6. ASSUME node.kind = "union" PROVE \E q : IsSeq(q) /\ y.path = x.path \o q
  <2> DEFINE use == UseOf(job.unions, ChainEnd(Types, x.type))
  <2>1. Within(x) = Asked(x, node, use) /\ IsComposite(node)
    BY <1>3, <1>6, WithinUnion DEF IsComposite
  <2>2. AskedFor(node, use) \subseteq Range(node.members)
    BY DEF AskedFor
  <2> HIDE DEF use
  <2>3. PICK m \in AskedFor(node, use) : y = MemberPlace(x, m, x.copies \cup Copied(x, node, use, m))
    BY <2>1 DEF Asked
  <2>4. QED BY <1>4, <2>1, <2>2, <2>3
<1>7. ASSUME node.kind = "array", ~Empty(node), ~IsText(node) PROVE \E q : IsSeq(q) /\ y.path = x.path \o q
  <2>1. Within(x) = {ElementPlace(x, node, SizeOr0(Types, node.elem), p) : p \in 1 .. Product(node.dims)}
    BY <1>3, <1>7, WithinArray
  <2>2. node.dims \in Seq(Nat)
    BY <1>7, DimsAre
  <2> HIDE DEF node
  <2>3. PICK p : y = ElementPlace(x, node, SizeOr0(Types, node.elem), p)
    BY <2>1
  <2>4. y.path = x.path \o Index(node.dims, p - 1)
    <3>1. IsElement(y, x, node, SizeOr0(Types, node.elem), p)
      BY <2>3, ElementIsPlace
    <3>2. QED BY <3>1 DEF IsElement
  <2>5. QED BY <2>2, <2>4, IndexIsSeq
<1>8. PICK q : IsSeq(q) /\ y.path = x.path \o q
  BY <1>3, <1>5, <1>6, <1>7
<1>9. IsSeq(x.path \o q)
  BY <1>8, IsSeqConcat
<1>10. QED BY <1>1, <1>8, <1>9

\* A struct or a union stores what is within it only, and so does an array
\* of anything but texts.
LEMMA StoresNothing ==
    ASSUME NEW x, x.bits = NoSize,
           \/ IsComposite(Resolve(Types, x.type))
           \/ Resolve(Types, x.type).kind = "array" /\ ~Empty(Resolve(Types, x.type)) /\ ~IsText(Resolve(Types, x.type))
    PROVE  Stores(x) = {}
<1> DEFINE comp == IsComposite(Resolve(Types, x.type))
<1>1. x.bits = NoSize
  OBVIOUS
<1>2. Stores(x) = CASE x.bits # NoSize ->
                         {[path |-> x.path, at |-> x.bit \div 8, width |-> (x.bit + x.bits - 1) \div 8 - x.bit \div 8 + 1]}
                    [] x.bits = NoSize /\ comp -> {}
                    [] x.bits = NoSize /\ Resolve(Types, x.type).kind = "array" /\ ~Empty(Resolve(Types, x.type)) ->
                         IF IsText(Resolve(Types, x.type)) THEN RowsAt(x, Resolve(Types, x.type)) ELSE {}
                    [] OTHER -> {[path |-> x.path, at |-> x.at,
                                  width |-> IF IsScalar(Resolve(Types, x.type)) THEN Resolve(Types, x.type).size ELSE 0]}
  BY DEF Stores, RowsAt
<1> DEFINE bits == {[path |-> x.path, at |-> x.bit \div 8, width |-> (x.bit + x.bits - 1) \div 8 - x.bit \div 8 + 1]}
           array == Resolve(Types, x.type).kind = "array" /\ ~Empty(Resolve(Types, x.type))
           texts == IF IsText(Resolve(Types, x.type)) THEN RowsAt(x, Resolve(Types, x.type)) ELSE {}
           whole == {[path |-> x.path, at |-> x.at,
                      width |-> IF IsScalar(Resolve(Types, x.type)) THEN Resolve(Types, x.type).size ELSE 0]}
<1>3. Stores(x) = CASE x.bits # NoSize -> bits
                    [] x.bits = NoSize /\ comp -> {}
                    [] x.bits = NoSize /\ array -> texts
                    [] OTHER -> whole
  BY <1>2
<1>4. comp \/ (array /\ ~IsText(Resolve(Types, x.type)))
  OBVIOUS
<1>5. comp => ~array
  BY DEF IsComposite
<1>6. array /\ ~IsText(Resolve(Types, x.type)) => texts = {}
  OBVIOUS
<1>7. comp \/ (array /\ texts = {})
  BY <1>4, <1>6
<1> HIDE DEF comp, bits, array, texts, whole
<1>8. QED BY <1>1, <1>3, <1>5, <1>7

\* So does the path to what it stores.
LEMMA StoresBelow ==
    ASSUME NEW x, IsSeq(x.path), NEW leaf \in Stores(x)
    PROVE  leaf.path = x.path \/ \E q : IsSeq(q) /\ leaf.path = x.path \o q
<1> DEFINE node == Resolve(Types, x.type)
           text == x.bits = NoSize /\ node.kind = "array" /\ ~Empty(node) /\ IsText(node)
<1>1. CASE text
  <2>1. Stores(x) = RowsAt(x, node)
    BY <1>1, StoresText
  <2>2. Front(node.dims) \in Seq(Nat)
    BY <1>1, DimsAre, ProductFront
  <2> HIDE DEF node
  <2>3. PICK p \in 1 .. Product(Front(node.dims)) :
            leaf = [path |-> x.path \o Index(Front(node.dims), p - 1), at |-> x.at + (p - 1) * Last(node.dims),
                    width |-> Last(node.dims)]
    BY <2>1 DEF RowsAt
  <2>4. leaf.path = x.path \o Index(Front(node.dims), p - 1)
    BY <2>3
  <2>5. QED BY <2>2, <2>4, IndexIsSeq
<1>2. CASE ~text
  <2> DEFINE whole == {[path |-> x.path, at |-> x.at, width |-> IF IsScalar(node) THEN node.size ELSE 0]}
             bits == {[path |-> x.path, at |-> x.bit \div 8, width |-> (x.bit + x.bits - 1) \div 8 - x.bit \div 8 + 1]}
  <2>1. CASE x.bits # NoSize
    <3>1. Stores(x) = bits
      BY <2>1 DEF Stores
    <3>2. QED BY <3>1
  <2>2. CASE x.bits = NoSize /\ IsComposite(node)
    BY <2>2, StoresNothing
  <2>3. CASE x.bits = NoSize /\ node.kind = "array" /\ ~Empty(node)
    <3>1. ~(x.bits # NoSize) /\ ~(x.bits = NoSize /\ IsComposite(node)) /\ ~IsText(node)
      BY <1>2, <2>3 DEF IsComposite
    <3>2. Stores(x) = {}
      BY <2>3, <3>1 DEF Stores
    <3>3. QED BY <3>2
  <2>4. CASE ~(x.bits # NoSize) /\ ~(x.bits = NoSize /\ IsComposite(node)) /\ ~(x.bits = NoSize /\ node.kind = "array" /\ ~Empty(node))
    <3>1. Stores(x) = whole
      BY <2>4 DEF Stores
    <3>2. QED BY <3>1
  <2>5. QED BY <2>1, <2>2, <2>3, <2>4
<1>3. QED BY <1>1, <1>2

\* What lies under what was reported was reported.
LEMMA SettledWithin ==
    ASSUME NEW gone, NEW x, IsPlace(x), IsSeq(x.path), Settled(gone, x.path)
    PROVE  /\ \A y \in Within(x) : Settled(gone, y.path)
           /\ \A leaf \in Stores(x) : Settled(gone, leaf.path)
<1>1. ASSUME NEW y \in Within(x) PROVE Settled(gone, y.path)
  <2>1. PICK q : IsSeq(q) /\ y.path = x.path \o q
    BY WithinBelow
  <2>2. QED BY <2>1, SettledGrows
<1>2. ASSUME NEW leaf \in Stores(x) PROVE Settled(gone, leaf.path)
  <2>1. leaf.path = x.path \/ \E q : IsSeq(q) /\ leaf.path = x.path \o q
    BY StoresBelow
  <2>2. QED BY <2>1, SettledGrows
<1>3. QED BY <1>1, <1>2

-----------------------------------------------------------------------------
(* A step of the walk loses nothing that it does not walk.                  *)

LEMMA LaterKeeps ==
    ASSUME IsSeq(todo), todo # <<>>, NEW pieces, IsSeq(pieces), Replace(pieces), NEW l, NEW copies,
           NEW i \in 1 .. Len(todo), OnTime(todo, l, i, copies), NEW p \in 0 .. Len(pieces) + i - 1
    PROVE  OnTime(todo', l, p, copies)
<1> DEFINE n == Len(pieces)
<1>1. /\ \A k \in n + 1 .. Len(todo') : todo'[k] = todo[k - n + 1]
      /\ n \in Nat /\ Len(todo) \in Nat \ {0} /\ Len(todo') = n + Len(todo) - 1
  BY ReplaceFacts
<1>2. CASE l = 1
  BY <1>2 DEF OnTime
<1>3. CASE \E j \in i + 1 .. Len(todo) : Awaits(todo[j], l) /\ Copy(todo[j]) \in copies
  <2>1. PICK j \in i + 1 .. Len(todo) : Awaits(todo[j], l) /\ Copy(todo[j]) \in copies
    BY <1>3
  <2>2. p \in 0 .. n + i - 1
    OBVIOUS
  <2> HIDE DEF n
  <2> DEFINE k == j + n - 1
  <2>3. k \in n + 1 .. Len(todo') /\ k \in p + 1 .. Len(todo') /\ k - n + 1 = j
    BY <1>1, <2>2
  <2>4. todo'[k] = todo[j]
    BY <1>1, <2>3
  <2> HIDE DEF k
  <2>5. QED BY <2>1, <2>3, <2>4 DEF OnTime
<1>4. QED BY <1>2, <1>3 DEF OnTime

\* What is made or reported stays, and the first task is replaced.
Moves(pieces) == /\ IsSeq(todo) /\ todo # <<>> /\ IsSeq(pieces) /\ Replace(pieces) /\ job' = job
                 /\ IsSeq(made) /\ IsSeq(made') /\ Len(made) <= Len(made')
                 /\ \A r \in 1 .. Len(made) : made'[r] = made[r]
                 /\ dropped \subseteq dropped'

\* A task but the first is a later one.
LEMMA LaterTask ==
    ASSUME NEW pieces, Moves(pieces), NEW i \in 2 .. Len(todo)
    PROVE  LET k == i + Len(pieces) - 1
           IN  k \in 1 .. Len(todo') /\ todo'[k] = todo[i] /\ k \in 0 .. Len(pieces) + i - 1 /\ i \in 1 .. Len(todo)
<1> DEFINE n == Len(pieces)
           k == i + n - 1
<1>1. IsSeq(todo) /\ todo # <<>> /\ IsSeq(pieces) /\ Replace(pieces)
  BY DEF Moves
<1>2. /\ \A j \in n + 1 .. Len(todo') : todo'[j] = todo[j - n + 1]
      /\ n \in Nat /\ Len(todo) \in Nat \ {0} /\ Len(todo') = n + Len(todo) - 1
  BY <1>1, ReplaceFacts
<1> HIDE DEF n
<1>3. k \in n + 1 .. Len(todo') /\ k - n + 1 = i
  BY <1>2
<1>4. todo'[k] = todo[i]
  BY <1>2, <1>3
<1>5. k \in 1 .. Len(todo') /\ k \in 0 .. n + i - 1 /\ i \in 1 .. Len(todo)
  BY <1>2, <1>3
<1>6. QED BY <1>4, <1>5 DEF n

LEMMA WaitsKeeps ==
    ASSUME NEW pieces, Moves(pieces), NEW x, Waits(todo, x)
    PROVE  Waits(todo', x) \/ WaitsAt(todo, 1, x)
<1>1. PICK i \in 1 .. Len(todo) : WaitsAt(todo, i, x)
  BY DEF Waits
<1>2. CASE i = 1
  BY <1>1, <1>2
<1>3. CASE i # 1
  <2> DEFINE k == i + Len(pieces) - 1
             l == todo[i].into
             copies == x.copies
  <2>1. IsSeq(todo) /\ todo # <<>> /\ IsSeq(pieces) /\ Replace(pieces) /\ Len(todo) \in Nat
    BY IsSeqFacts DEF Moves
  <2>2. i \in 2 .. Len(todo)
    BY <1>3, <2>1
  <2>3. k \in 1 .. Len(todo') /\ todo'[k] = todo[i] /\ k \in 0 .. Len(pieces) + i - 1
    BY <2>2, LaterTask
  <2>4. OnTime(todo, l, i, copies)
    BY <1>1 DEF WaitsAt
  <2> HIDE DEF k, l, copies
  <2>5. OnTime(todo', l, k, copies)
    BY <2>1, <2>3, <2>4, LaterKeeps
  <2>6. WaitsAt(todo', k, x)
    BY <1>1, <2>3, <2>5 DEF WaitsAt, l, copies
  <2>7. QED BY <2>3, <2>6 DEF Waits
<1>4. QED BY <1>2, <1>3

LEMMA TextKeeps ==
    ASSUME NEW pieces, Moves(pieces), NEW leaf, NEW copies, NEW i \in 2 .. Len(todo), TextAt(todo, i, leaf, copies)
    PROVE  \E k \in 1 .. Len(todo') : TextAt(todo', k, leaf, copies)
<1> DEFINE k == i + Len(pieces) - 1
           l == todo[i].into
<1>1. IsSeq(todo) /\ todo # <<>> /\ IsSeq(pieces) /\ Replace(pieces)
  BY DEF Moves
<1>2. k \in 1 .. Len(todo') /\ todo'[k] = todo[i] /\ k \in 0 .. Len(pieces) + i - 1 /\ i \in 1 .. Len(todo)
  BY LaterTask
<1>3. OnTime(todo, l, i, copies)
  BY DEF TextAt
<1> HIDE DEF k, l
<1>4. OnTime(todo', l, k, copies)
  BY <1>1, <1>2, <1>3, LaterKeeps
<1>5. TextAt(todo', k, leaf, copies)
  BY <1>2, <1>4 DEF TextAt, l
<1>6. QED BY <1>2, <1>5

\* The tagged union whose field is made next is to take it.
Taking(leaf, copies) == \E r \in 1 .. Len(made) : ShownBy(made[r], leaf) /\ Awaits(todo[1], made[r].into) /\ Copy(todo[1]) \in copies

LEMMA FieldKeeps ==
    ASSUME NEW pieces, Moves(pieces), NEW leaf, NEW copies, NEW r \in 1 .. Len(made),
           HasField(todo, made, r, leaf, copies)
    PROVE  HasField(todo', made', r, leaf, copies) \/ Taking(leaf, copies)
<1> DEFINE l == made[r].into
<1>1. IsSeq(todo) /\ todo # <<>> /\ IsSeq(pieces) /\ Replace(pieces) /\ made'[r] = made[r]
      /\ Len(todo) \in Nat \ {0} /\ Len(pieces) \in Nat
  <2>1. IsSeq(todo) /\ todo # <<>> /\ IsSeq(pieces) /\ Replace(pieces) /\ made'[r] = made[r]
    BY DEF Moves
  <2>2. QED BY <2>1, ReplaceFacts
<1>2. ShownBy(made[r], leaf)
  BY DEF HasField
<1>3. CASE TakenIn(made, r)
  <2>1. PICK s \in 1 .. Len(made) : made[s].kind = "switch" /\ \E k \in 1 .. Len(made[s].fields) : made[s].fields[k] = r
    BY <1>3 DEF TakenIn
  <2>2. made'[s] = made[s] /\ s \in 1 .. Len(made')
    <3>1. Len(made) \in Nat /\ Len(made') \in Nat /\ Len(made) <= Len(made')
      BY IsSeqFacts DEF Moves
    <3>2. QED BY <3>1 DEF Moves
  <2>3. TakenIn(made', r)
    BY <2>1, <2>2 DEF TakenIn
  <2>4. QED BY <1>1, <1>2, <2>3 DEF HasField
<1>4. CASE OnTime(todo, l, 0, copies)
  <2>1. CASE OnTime(todo, l, 1, copies)
    <3>1. 1 \in 1 .. Len(todo) /\ 0 \in 0 .. Len(pieces) + 1 - 1
      BY <1>1
    <3> DEFINE m == l
    <3>2. OnTime(todo, m, 1, copies)
      BY <2>1
    <3> HIDE DEF m
    <3>3. OnTime(todo', m, 0, copies)
      BY <1>1, <3>1, <3>2, LaterKeeps
    <3>4. QED BY <1>1, <1>2, <3>3 DEF HasField, m
  <2>2. CASE ~OnTime(todo, l, 1, copies)
    <3>1. PICK j \in 0 + 1 .. Len(todo) : l # 1 /\ Awaits(todo[j], l) /\ Copy(todo[j]) \in copies
      BY <1>4, <2>2 DEF OnTime
    <3>2. j = 1 \/ j \in 1 + 1 .. Len(todo)
      BY <1>1
    <3>3. j = 1
      BY <2>2, <3>1, <3>2 DEF OnTime
    <3>4. QED BY <1>2, <3>1, <3>3 DEF Taking
  <2>3. QED BY <2>1, <2>2
<1>5. QED BY <1>3, <1>4 DEF HasField

\* What is held stays so, unless it is walked now.
LEMMA HeldKeeps ==
    ASSUME NEW pieces, Moves(pieces), NEW leaf, NEW copies, Held(todo, made, dropped, leaf, copies)
    PROVE  Held(todo', made', dropped', leaf, copies) \/ TextAt(todo, 1, leaf, copies) \/ Taking(leaf, copies)
<1>1. Len(made) \in Nat /\ Len(made') \in Nat /\ Len(made) <= Len(made') /\ Len(todo) \in Nat
  BY IsSeqFacts DEF Moves
<1>2. CASE Settled(dropped, leaf.path)
  <2>1. Settled(dropped', leaf.path)
    BY <1>2 DEF Settled, Moves
  <2>2. QED BY <2>1 DEF Held
<1>3. CASE InsideCopy(leaf, copies)
  BY <1>3 DEF Held
<1>4. CASE \E r \in 1 .. Len(made) : HasField(todo, made, r, leaf, copies)
  <2>1. PICK r \in 1 .. Len(made) : HasField(todo, made, r, leaf, copies)
    BY <1>4
  <2>2. r \in 1 .. Len(made')
    BY <1>1
  <2>3. HasField(todo', made', r, leaf, copies) \/ Taking(leaf, copies)
    BY <2>1, FieldKeeps
  <2>4. QED BY <2>2, <2>3 DEF Held
<1>5. CASE \E i \in 1 .. Len(todo) : TextAt(todo, i, leaf, copies)
  <2>1. PICK i \in 1 .. Len(todo) : TextAt(todo, i, leaf, copies)
    BY <1>5
  <2>2. CASE i = 1
    BY <2>1, <2>2
  <2>3. CASE i # 1
    <3>1. i \in 2 .. Len(todo)
      BY <1>1, <2>3
    <3>2. \E k \in 1 .. Len(todo') : TextAt(todo', k, leaf, copies)
      BY <2>1, <3>1, TextKeeps
    <3>3. QED BY <3>2 DEF Held
  <2>4. QED BY <2>2, <2>3
<1>6. QED BY <1>2, <1>3, <1>4, <1>5 DEF Held

\* All that is held stays so.
HeldStays == \A leaf, copies : Held(todo, made, dropped, leaf, copies) => Held(todo', made', dropped', leaf, copies)

LEMMA PieceHolds ==
    ASSUME NEW pieces, Moves(pieces), Now.what = "piece"
    PROVE  HeldStays
<1>1. todo[1] = Now
  BY ReplaceFacts DEF Moves
<1>2. \A leaf, copies : ~TextAt(todo, 1, leaf, copies) /\ ~Taking(leaf, copies)
  BY <1>1 DEF TextAt, Taking, Awaits
<1>3. QED BY <1>2, HeldKeeps DEF HeldStays

\* What a place has come to after the step.
KnownNow(x) == Known(todo', made', dropped', x)

HeldNow(x) == \A leaf \in Stores(x) : Held(todo', made', dropped', leaf, x.copies)

\* A place that was to be walked is dealt with.
Passes(x) == KnownNow(x) \/ (HeldNow(x) /\ \A y \in Within(x) : KnownNow(y))

LEMMA KnownKeeps ==
    ASSUME NEW pieces, Moves(pieces), HeldStays, NEW x, Known(todo, made, dropped, x)
    PROVE  KnownNow(x) \/ WaitsAt(todo, 1, x)
<1>1. CASE Waits(todo, x)
  BY <1>1, WaitsKeeps DEF KnownNow, Known
<1>2. CASE Settled(dropped, x.path)
  <2>1. Settled(dropped', x.path)
    BY <1>2 DEF Settled, Moves
  <2>2. QED BY <2>1 DEF KnownNow, Known
<1>3. CASE Within(x) = {} /\ AllHeld(todo, made, dropped, x)
  <2>1. \A leaf \in Stores(x) : Held(todo', made', dropped', leaf, x.copies)
    BY <1>3 DEF AllHeld, HeldStays
  <2>2. AllHeld(todo', made', dropped', x)
    BY <2>1 DEF AllHeld
  <2>3. QED BY <1>3, <2>2 DEF KnownNow, Known
<1>4. QED BY <1>1, <1>2, <1>3 DEF Known

\* The walk begins at places.
LEMMA OuterAre ==
    ASSUME Compiles, NEW y \in Outer
    PROVE  IsPlace(y) /\ IsSeq(y.path)
<1> DEFINE whole == [type |-> job.key, path |-> <<>>, at |-> 0, bits |-> NoSize, bit |-> 0, copies |-> {}]
<1>1. PICK m \in Range(Message.members) : y = MemberPlace(whole, m, {})
  BY DEF Outer
<1>2. IsPlace(y)
  BY <1>1, MemberIsPlace
<1>3. m \in Members
  BY MessageFacts
<1>4. IsSeq(m.name) /\ IsSeq(<<>>)
  BY <1>3, NameIsSeq, None
<1>5. y.path = <<>> \o m.name
  <2>1. whole.path = <<>>
    OBVIOUS
  <2> HIDE DEF whole
  <2>2. QED BY <1>1, <2>1 DEF MemberPlace
<1>6. QED BY <1>2, <1>4, <1>5, IsSeqConcat

\* What a message stores does not change while it is compiled.
LEMMA ClosingKeeps ==
    ASSUME job' = job, NEW V
    PROVE  Closing(todo, made, dropped, V)' <=> Closing(todo', made', dropped', V)
<1>1. \A x : Within(x)' = Within(x)
  BY DEF Within, AskedFor, IsText
<1>2. \A x : Stores(x)' = Stores(x)
  BY DEF Stores, IsText, Empty
<1>3. Outer' = Outer
  BY DEF Outer, Message
<1>4. QED BY <1>1, <1>2, <1>3 DEF Closing, Known, AllHeld

LEMMA AccountedStep ==
    ASSUME Typed, Accounted, status = "walking", NEW pieces, Moves(pieces), HeldStays,
           \A x : IsPlace(x) /\ IsSeq(x.path) /\ WaitsAt(todo, 1, x) => Passes(x)
    PROVE  Accounted'
<1>1. PICK V : Closing(todo, made, dropped, V)
  BY DEF Accounted
<1> DEFINE all == Outer \cup UNION {Within(z) : z \in V}
           W == {x \in all : WaitsAt(todo, 1, x) /\ ~KnownNow(x)}
           U == V \cup W
<1>2. ASSUME NEW x \in all PROVE IsPlace(x) /\ IsSeq(x.path)
  <2>1. CASE x \in Outer
    BY <2>1, OuterAre DEF Typed
  <2>2. ASSUME NEW z \in V, x \in Within(z) PROVE IsPlace(x) /\ IsSeq(x.path)
    <3>1. IsPlace(z) /\ IsSeq(z.path)
      BY <1>1 DEF Closing
    <3>2. QED BY <2>2, <3>1, WithinBelow
  <2>3. QED BY <2>1, <2>2
<1>3. ASSUME NEW x \in all, x \in V \/ Known(todo, made, dropped, x) PROVE x \in U \/ KnownNow(x)
  <2>1. CASE x \in V
    BY <2>1
  <2>2. CASE Known(todo, made, dropped, x)
    <3>1. KnownNow(x) \/ WaitsAt(todo, 1, x)
      BY <2>2, KnownKeeps
    <3>2. QED BY <3>1
  <2>3. QED BY <1>3, <2>1, <2>2
<1>4. \A y \in Outer : y \in U \/ KnownNow(y)
  BY <1>1, <1>3 DEF Closing
<1>5. ASSUME NEW x \in V
      PROVE  /\ IsPlace(x) /\ IsSeq(x.path) /\ HeldNow(x)
             /\ \A y \in Within(x) : y \in U \/ KnownNow(y)
  <2>1. IsPlace(x) /\ IsSeq(x.path) /\ AllHeld(todo, made, dropped, x)
    BY <1>1 DEF Closing
  <2>2. HeldNow(x)
    BY <2>1 DEF AllHeld, HeldStays, HeldNow
  <2>3. \A y \in Within(x) : y \in V \/ Known(todo, made, dropped, y)
    BY <1>1 DEF Closing
  <2>4. \A y \in Within(x) : y \in U \/ KnownNow(y)
    <3>1. Within(x) \subseteq all
      OBVIOUS
    <3> HIDE DEF all, U
    <3>2. QED BY <1>3, <2>3, <3>1
  <2>5. QED BY <2>1, <2>2, <2>4
<1>6. ASSUME NEW x \in W
      PROVE  /\ IsPlace(x) /\ IsSeq(x.path) /\ HeldNow(x)
             /\ \A y \in Within(x) : y \in U \/ KnownNow(y)
  <2>1. x \in all /\ WaitsAt(todo, 1, x) /\ ~KnownNow(x)
    OBVIOUS
  <2> HIDE DEF all, U, W
  <2>2. IsPlace(x) /\ IsSeq(x.path)
    BY <1>2, <2>1
  <2>3. HeldNow(x) /\ \A y \in Within(x) : KnownNow(y)
    BY <2>1, <2>2 DEF Passes
  <2>4. QED BY <2>2, <2>3
<1>7. \A x \in U : x \in V \/ x \in W
  OBVIOUS
<1> HIDE DEF U, W, all
<1>8. Closing(todo', made', dropped', U)
  <2>1. \A x : HeldNow(x) <=> AllHeld(todo', made', dropped', x)
    BY DEF HeldNow, AllHeld
  <2>2. \A x \in U : /\ IsPlace(x) /\ IsSeq(x.path) /\ HeldNow(x)
                     /\ \A y \in Within(x) : y \in U \/ KnownNow(y)
    BY <1>5, <1>6, <1>7
  <2>3. QED BY <1>4, <2>1, <2>2 DEF Closing, KnownNow
<1>9. job' = job
  BY DEF Moves
<1>10. PICK G : Closing(todo', made', dropped', G)
  BY <1>8
<1>11. Closing(todo, made, dropped, G)'
  BY <1>9, <1>10, ClosingKeeps
<1>12. QED BY <1>11 DEF Accounted

-----------------------------------------------------------------------------
(* What becomes of a place as it is walked.                                 *)

\* More identifiers make nothing late.
LEMMA OnTimeMore ==
    ASSUME NEW tasks, NEW l, NEW i, NEW copies, NEW more, copies \subseteq more, OnTime(tasks, l, i, copies)
    PROVE  OnTime(tasks, l, i, more)
BY DEF OnTime

\* What takes the place of a piece is as much on time as the piece was.
LEMMA PieceOnTime ==
    ASSUME NEW pieces, Moves(pieces), NEW copies, OnTime(todo, Now.into, 1, copies), NEW p \in 0 .. Len(pieces)
    PROVE  OnTime(todo', Now.into, p, copies)
<1> DEFINE l == Now.into
<1>1. IsSeq(todo) /\ todo # <<>> /\ IsSeq(pieces) /\ Replace(pieces)
  BY DEF Moves
<1>2. Len(todo) \in Nat \ {0} /\ Len(pieces) \in Nat
  BY <1>1, ReplaceFacts
<1>3. 1 \in 1 .. Len(todo) /\ p \in 0 .. Len(pieces) + 1 - 1 /\ OnTime(todo, l, 1, copies)
  BY <1>2
<1> HIDE DEF l
<1>4. OnTime(todo', l, p, copies)
  BY <1>1, <1>3, LaterKeeps
<1>5. QED BY <1>4 DEF l

\* A member's, or an element's, piece waits where its list is awaited.
LEMMA PieceWaits ==
    ASSUME NEW pieces, Moves(pieces), NEW i \in 1 .. Len(pieces), NEW y, NEW copies,
           pieces[i].what = "piece", IsOf(pieces[i], y), pieces[i].into = Now.into,
           OnTime(todo, Now.into, 1, copies), copies \subseteq y.copies
    PROVE  Waits(todo', y)
<1>1. todo'[i] = pieces[i] /\ i \in 1 .. Len(todo') /\ i \in 0 .. Len(pieces)
  <2>1. /\ \A k \in 1 .. Len(pieces) : todo'[k] = pieces[k]
        /\ Len(todo') = Len(pieces) + Len(todo) - 1 /\ Len(pieces) \in Nat /\ Len(todo) \in Nat \ {0}
    BY ReplaceFacts DEF Moves
  <2>2. QED BY <2>1
<1>2. OnTime(todo', Now.into, i, y.copies)
  <2> DEFINE l == Now.into
             more == y.copies
  <2>1. OnTime(todo', l, i, copies) /\ copies \subseteq more
    BY <1>1, PieceOnTime
  <2> HIDE DEF l, more
  <2>2. OnTime(todo', l, i, more)
    BY <2>1, OnTimeMore
  <2>3. QED BY <2>2 DEF l, more
<1>3. WaitsAt(todo', i, y)
  BY <1>1, <1>2 DEF WaitsAt
<1>4. QED BY <1>1, <1>3 DEF Waits

\* What is walked, if it is walked further.
LEMMA Standing ==
    ASSUME Typed, NEW kinds, Walking(kinds), NEW x, IsPlace(x), WaitsAt(todo, 1, x)
    PROVE  Stands(x) /\ OnTime(todo, Now.into, 1, x.copies)
<1>1. Now = todo[1]
  BY IsSeqTail DEF Typed, Now, Walking
<1>2. IsOf(Now, x) /\ OnTime(todo, Now.into, 1, x.copies)
  BY <1>1 DEF WaitsAt
<1>3. Now.bits = NoSize
  BY DEF Walking
<1>4. x.path = Now.column /\ x.at = Now.at /\ x.bits = NoSize /\ x.type = Now.type
  BY <1>2, <1>3 DEF IsOf
<1>5. QED BY <1>2, <1>4 DEF Stands, Inner

LEMMA OpensMoves ==
    ASSUME Typed, NEW pieces, Opens(pieces)
    PROVE  Moves(pieces) /\ HeldStays
<1>1. /\ todo # <<>> /\ IsSeq(pieces) /\ Replace(pieces) /\ job' = job /\ made' = made /\ dropped \subseteq dropped'
      /\ Now.what = "piece"
  BY DEF Opens
<1>2. IsSeq(todo) /\ IsSeq(made) /\ Len(made) \in Nat
  BY IsSeqFacts DEF Typed
<1>3. Moves(pieces)
  BY <1>1, <1>2 DEF Moves
<1>4. QED BY <1>1, <1>3, PieceHolds

\* A field is made, of the paths.
Adding(f, paths, at, each) ==
    /\ f.kind = "plain" /\ f.at = at /\ f.each = each /\ f.into = Now.into /\ Len(f.names) = Len(paths)
    /\ \A k \in 1 .. Len(paths) : f.names[k].path = paths[k]

LEMMA AddsMoves ==
    ASSUME Typed, NEW paths, NEW at, NEW each, Adds(paths, at, each)
    PROVE  /\ Moves(<<>>)
           /\ Len(made) + 1 \in 1 .. Len(made') /\ Adding(made'[Len(made) + 1], paths, at, each)
<1> DEFINE f == Plain(used, paths, at, each, Now.into)
           n == Len(made)
<1>1. /\ todo # <<>> /\ IsSeq(paths) /\ at \in Nat /\ each \in Nat
      /\ made' = Append(made, f) /\ Replace(<<>>) /\ job' = job /\ dropped' = dropped
  BY DEF Adds, AddField
<1>2. IsSeq(todo) /\ IsSeq(made) /\ IsSeq(used) /\ n \in Nat /\ IsSeq(<<>>)
  BY IsSeqFacts, None DEF Typed
<1>3. /\ f.kind = "plain" /\ f.at = at /\ f.each = each /\ f.into = Now.into /\ Len(f.names) = Len(paths)
      /\ \A k \in 1 .. Len(paths) : f.names[k] = Unique(used \o paths, Len(used) + k)
  <2> DEFINE into == Now.into
  <2> HIDE DEF into
  <2>1. LET g == Plain(used, paths, at, each, into)
        IN  /\ g.kind = "plain" /\ g.at = at /\ g.each = each /\ g.into = into /\ Len(g.names) = Len(paths)
            /\ \A k \in 1 .. Len(paths) : g.names[k] = Unique(used \o paths, Len(used) + k)
    BY <1>1, PlainNames, PlainUnique
  <2>2. QED BY <2>1 DEF into
<1> HIDE DEF f, n
<1>4. \A k \in 1 .. Len(paths) : f.names[k].path = paths[k]
  <2>1. \A k \in 1 .. Len(paths) : (used \o paths)[Len(used) + k] = paths[k]
    BY <1>1, <1>2, IsSeqConcat
  <2>2. \A k \in 1 .. Len(paths) : f.names[k].path = (used \o paths)[Len(used) + k]
    <3>1. \A w, p : Unique(w, p).path = w[p]
      BY DEF Unique
    <3>2. QED BY <1>3, <3>1
  <2>3. QED BY <2>1, <2>2
<1>5. IsSeq(made') /\ Len(made') = n + 1 /\ made'[n + 1] = f /\ \A r \in 1 .. n : made'[r] = made[r]
  BY <1>1, <1>2, IsSeqAppend DEF n
<1>6. Moves(<<>>)
  <2>1. Len(made) <= Len(made') /\ \A r \in 1 .. Len(made) : made'[r] = made[r]
    BY <1>2, <1>5 DEF n
  <2>2. QED BY <1>1, <1>2, <1>5, <2>1 DEF Moves
<1>7. Adding(made'[n + 1], paths, at, each)
  BY <1>3, <1>4, <1>5 DEF Adding
<1>8. n + 1 \in 1 .. Len(made')
  BY <1>2, <1>5
<1>9. QED BY <1>6, <1>7, <1>8 DEF n

\* What is stored at each of the paths is held by it.
LEMMA AddsHold ==
    ASSUME Typed, NEW paths, NEW at, NEW each, Adds(paths, at, each),
           NEW copies, OnTime(todo, Now.into, 1, copies), NEW k \in 1 .. Len(paths)
    PROVE  Held(todo', made', dropped', [path |-> paths[k], at |-> at + (k - 1) * each, width |-> each], copies)
<1> DEFINE leaf == [path |-> paths[k], at |-> at + (k - 1) * each, width |-> each]
           r == Len(made) + 1
<1>1. Moves(<<>>) /\ r \in 1 .. Len(made') /\ Adding(made'[r], paths, at, each)
  BY AddsMoves
<1>2. OnTime(todo', Now.into, 0, copies)
  <2>1. 0 \in 0 .. Len(<<>>)
    BY None
  <2>2. QED BY <1>1, <2>1, PieceOnTime
<1>3. ShownBy(made'[r], leaf)
  <2> DEFINE f == made'[r]
  <2>1. /\ f.kind = "plain" /\ f.at = at /\ f.each = each /\ Len(f.names) = Len(paths)
        /\ f.names[k].path = paths[k]
    BY <1>1 DEF Adding
  <2> HIDE DEF f, r
  <2>2. ShownBy(f, leaf)
    BY <2>1 DEF ShownBy
  <2>3. QED BY <2>2 DEF f
<1>4. made'[r].into = Now.into
  BY <1>1 DEF Adding
<1> HIDE DEF leaf, r
<1>5. HasField(todo', made', r, leaf, copies)
  BY <1>2, <1>3, <1>4 DEF HasField
<1>6. Held(todo', made', dropped', leaf, copies)
  BY <1>1, <1>5 DEF Held
<1>7. QED BY <1>6 DEF leaf

LEMMA AddsAccounted ==
    ASSUME Typed, Accounted, NEW paths, NEW at, NEW each, Adds(paths, at, each), HeldStays,
           \A x : IsPlace(x) /\ IsSeq(x.path) /\ WaitsAt(todo, 1, x) => Passes(x)
    PROVE  Accounted'
<1>1. Moves(<<>>) /\ status = "walking"
  BY AddsMoves DEF Adds
<1>2. QED BY <1>1, AccountedStep

LEMMA OpensAccounted ==
    ASSUME Typed, Accounted, NEW pieces, Opens(pieces),
           \A x : IsPlace(x) /\ IsSeq(x.path) /\ WaitsAt(todo, 1, x) => Passes(x)
    PROVE  Accounted'
<1>1. Moves(pieces) /\ HeldStays /\ status = "walking"
  BY OpensMoves DEF Opens
<1>2. QED BY <1>1, AccountedStep

\* The place that is walked.
LEMMA WalkedAt ==
    ASSUME Typed, todo # <<>>, NEW x, WaitsAt(todo, 1, x)
    PROVE  Now.what = "piece" /\ IsOf(Now, x) /\ OnTime(todo, Now.into, 1, x.copies)
<1>1. Now = todo[1]
  BY IsSeqTail DEF Typed, Now
<1>2. QED BY <1>1 DEF WaitsAt

\* One column holds what is stored at its path.
LEMMA OneHolds ==
    ASSUME Typed, NEW at, NEW each, Adds(<<Now.column>>, at, each), NEW copies, OnTime(todo, Now.into, 1, copies)
    PROVE  Held(todo', made', dropped', [path |-> Now.column, at |-> at, width |-> each], copies)
<1> DEFINE paths == <<Now.column>>
<1>1. at \in Nat /\ each \in Nat
  BY DEF Adds
<1>2. 1 \in 1 .. Len(paths) /\ paths[1] = Now.column
  OBVIOUS
<1>3. at + (1 - 1) * each = at
  BY <1>1
<1>4. Adds(paths, at, each)
  OBVIOUS
<1> HIDE DEF paths
<1>5. Held(todo', made', dropped', [path |-> paths[1], at |-> at + (1 - 1) * each, width |-> each], copies)
  BY <1>2, <1>4, AddsHold
<1>6. QED BY <1>2, <1>3, <1>5

LEMMA AddsStays ==
    ASSUME Typed, NEW paths, NEW at, NEW each, Adds(paths, at, each), Now.what = "piece"
    PROVE  HeldStays
<1>1. Moves(<<>>)
  BY AddsMoves
<1>2. QED BY <1>1, PieceHolds

LEMMA AccountedBits ==
    ASSUME Typed, Accounted, WalkBits
    PROVE  Accounted'
<1> DEFINE at == Now.bit \div 8
           each == BitsWidth(Now.bit, Now.bits)
           paths == <<Now.column>>
<1>1. status = "walking" /\ todo # <<>> /\ Now.what = "piece" /\ Now.bits # NoSize
  BY DEF WalkBits
<1>2. Now.bit \in Nat /\ Now.bits \in Nat \ {0}
  BY <1>1, NowFacts DEF IsPiece
<1>3. Adds(paths, at, each)
  BY WalkBitsAdds
<1>4. each = (Now.bit + Now.bits - 1) \div 8 - Now.bit \div 8 + 1
  BY <1>2, BytesOfBits
<1>5. ASSUME NEW x, WaitsAt(todo, 1, x) PROVE Passes(x)
  <2>1. IsOf(Now, x) /\ OnTime(todo, Now.into, 1, x.copies)
    BY <1>1, <1>5, WalkedAt
  <2>2. x.path = Now.column /\ x.bits = Now.bits /\ x.bit = Now.bit /\ x.bits # NoSize
    BY <1>1, <2>1 DEF IsOf
  <2>3. Stores(x) = {[path |-> x.path, at |-> x.bit \div 8, width |-> (x.bit + x.bits - 1) \div 8 - x.bit \div 8 + 1]}
    BY <2>2 DEF Stores
  <2>4. Stores(x) = {[path |-> Now.column, at |-> at, width |-> each]}
    BY <1>4, <2>2, <2>3
  <2>5. Within(x) = {}
    BY <2>2 DEF Within
  <2>6. Held(todo', made', dropped', [path |-> Now.column, at |-> at, width |-> each], x.copies)
    <3> DEFINE copies == x.copies
    <3>1. OnTime(todo, Now.into, 1, copies)
      BY <2>1
    <3> HIDE DEF at, each, copies
    <3>2. Held(todo', made', dropped', [path |-> Now.column, at |-> at, width |-> each], copies)
      BY <1>3, <3>1, OneHolds
    <3>3. QED BY <3>2 DEF copies
  <2>7. QED BY <2>4, <2>5, <2>6 DEF Passes, HeldNow
<1> HIDE DEF at, each, paths
<1>6. HeldStays
  BY <1>1, <1>3, AddsStays
<1>7. QED BY <1>3, <1>5, <1>6, AddsAccounted

LEMMA AccountedScalar ==
    ASSUME Typed, Accounted, WalkScalar
    PROVE  Accounted'
<1> DEFINE at == Now.at
           each == Inner.size
           paths == <<Now.column>>
<1>1. Walking({"base", "enum", "pointer"})
  BY DEF WalkScalar
<1>2. todo # <<>> /\ Now.what = "piece"
  BY <1>1 DEF Walking
<1>3. Adds(paths, at, each)
  BY WalkScalarAdds
<1>4. IsScalar(Inner)
  BY <1>1, WalkingFacts DEF IsScalar
<1>5. ASSUME NEW x, IsPlace(x), WaitsAt(todo, 1, x) PROVE Passes(x)
  <2>1. Stands(x) /\ OnTime(todo, Now.into, 1, x.copies)
    BY <1>1, <1>5, Standing
  <2>2. x.path = Now.column /\ x.at = at /\ x.bits = NoSize /\ Resolve(Types, x.type) = Inner
    BY <2>1 DEF Stands
  <2>3. Stores(x) = {[path |-> Now.column, at |-> at, width |-> each]}
    BY <1>4, <2>2, StoresScalar
  <2>4. Within(x) = {}
    BY <1>4, <2>2, WithinElse DEF IsScalar, IsComposite
  <2>5. Held(todo', made', dropped', [path |-> Now.column, at |-> at, width |-> each], x.copies)
    <3> DEFINE copies == x.copies
    <3>1. OnTime(todo, Now.into, 1, copies)
      BY <2>1
    <3> HIDE DEF at, each, copies
    <3>2. Held(todo', made', dropped', [path |-> Now.column, at |-> at, width |-> each], copies)
      BY <1>3, <3>1, OneHolds
    <3>3. QED BY <3>2 DEF copies
  <2>6. QED BY <2>3, <2>4, <2>5 DEF Passes, HeldNow
<1> HIDE DEF at, each, paths
<1>6. HeldStays
  BY <1>2, <1>3, AddsStays
<1>7. QED BY <1>3, <1>5, <1>6, AddsAccounted

\* Each element of a vector is held by its column.
LEMMA AccountedVector ==
    ASSUME Typed, Accounted, WalkVector
    PROVE  Accounted'
<1> DEFINE paths == Paths(Now.column, Inner.dims)
           at == Now.at
           each == Elem.size
<1>1. Walking({"array"}) /\ ~TextArray /\ Unpacked
  BY DEF WalkVector
<1>2. todo # <<>> /\ Now.what = "piece"
  BY <1>1 DEF Walking
<1>3. Inner.dims \in Seq(Nat)
  BY <1>1, ArrayFacts
<1>4. Len(paths) = Product(Inner.dims) /\ \A p \in 1 .. Product(Inner.dims) : paths[p] = Now.column \o Index(Inner.dims, p - 1)
  BY <1>3, PathsFacts
<1>5. Adds(paths, at, each)
  BY WalkVectorAdds
<1> HIDE DEF paths
<1>6. ASSUME NEW x, IsPlace(x), WaitsAt(todo, 1, x) PROVE Passes(x)
  <2>1. Stands(x) /\ OnTime(todo, Now.into, 1, x.copies)
    BY <1>1, <1>6, Standing
  <2>2. x.path = Now.column /\ x.at = at /\ x.bits = NoSize /\ Resolve(Types, x.type) = Inner
    BY <2>1 DEF Stands
  <2>3. Stores(x) = {}
    <3>1. Inner.kind = "array" /\ ~Empty(Inner) /\ ~IsText(Inner)
      BY <1>1, ArrayPlace
    <3>2. QED BY <2>2, <3>1, StoresNothing
  <2>4. Within(x) = {ElementPlace(x, Inner, each, p) : p \in 1 .. Product(Inner.dims)}
    BY <1>1, <2>1, ElementsPlace
  <2>5. ASSUME NEW p \in 1 .. Product(Inner.dims) PROVE KnownNow(ElementPlace(x, Inner, each, p))
    <3> DEFINE y == ElementPlace(x, Inner, each, p)
               leaf == [path |-> paths[p], at |-> at + (p - 1) * each, width |-> each]
    <3>1. IsElement(y, x, Inner, each, p)
      BY <1>6, ElementIsPlace
    <3> HIDE DEF y
    <3>2. /\ y.type = Inner.elem /\ y.path = paths[p] /\ y.at = at + (p - 1) * each /\ y.bits = NoSize
          /\ y.copies = x.copies
      BY <1>4, <2>2, <3>1 DEF IsElement
    <3>3. Resolve(Types, y.type) = Elem /\ IsScalar(Elem)
      BY <1>1, <3>2 DEF Elem, Unpacked
    <3>4. Stores(y) = {leaf}
      BY <3>2, <3>3, StoresScalar
    <3>5. Within(y) = {}
      BY <3>3, WithinElse DEF IsScalar, IsComposite
    <3>6. Held(todo', made', dropped', leaf, y.copies)
      <4> DEFINE copies == y.copies
      <4>1. OnTime(todo, Now.into, 1, copies) /\ p \in 1 .. Len(paths)
        BY <1>4, <2>1, <3>2
      <4> HIDE DEF at, each, copies
      <4>2. Held(todo', made', dropped', leaf, copies)
        BY <1>5, <4>1, AddsHold
      <4>3. QED BY <4>2 DEF copies
    <3> HIDE DEF leaf
    <3>7. AllHeld(todo', made', dropped', y)
      BY <3>4, <3>6 DEF AllHeld
    <3>8. KnownNow(y)
      BY <3>5, <3>7 DEF KnownNow, Known
    <3>9. QED BY <3>8 DEF y
  <2>6. QED BY <2>3, <2>4, <2>5 DEF Passes, HeldNow
<1> HIDE DEF at, each
<1>7. HeldStays
  BY <1>2, <1>5, AddsStays
<1>8. QED BY <1>5, <1>6, <1>7, AddsAccounted

\* A text that was to be added is, and so it is still held.
LEMMA AccountedText ==
    ASSUME Typed, Accounted, AddText
    PROVE  Accounted'
<1> DEFINE at == Now.at
           each == Now.width
           paths == <<Now.column>>
<1>1. todo # <<>> /\ Now.what = "text" /\ todo[1] = Now
  BY IsSeqTail DEF AddText, Typed, Now
<1>2. Adds(paths, at, each)
  BY AddTextAdds
<1>3. Moves(<<>>)
  <2> HIDE DEF at, each, paths
  <2>1. QED BY <1>2, AddsMoves
<1>4. ASSUME NEW leaf, NEW copies, Held(todo, made, dropped, leaf, copies)
      PROVE  Held(todo', made', dropped', leaf, copies)
  <2>1. CASE TextAt(todo, 1, leaf, copies)
    <3>1. leaf = [path |-> Now.column, at |-> at, width |-> each] /\ OnTime(todo, Now.into, 1, copies)
      BY <1>1, <2>1 DEF TextAt
    <3> HIDE DEF at, each
    <3>2. Held(todo', made', dropped', [path |-> Now.column, at |-> at, width |-> each], copies)
      BY <1>2, <3>1, OneHolds
    <3>3. QED BY <3>1, <3>2
  <2>2. ~Taking(leaf, copies)
    BY <1>1 DEF Taking, Awaits
  <2>3. QED BY <1>3, <1>4, <2>1, <2>2, HeldKeeps
<1>5. HeldStays
  BY <1>4 DEF HeldStays
<1>6. \A x : ~WaitsAt(todo, 1, x)
  BY <1>1 DEF WaitsAt
<1> HIDE DEF at, each, paths
<1>7. QED BY <1>2, <1>5, <1>6, AddsAccounted

\* What gets no column is reported.
LEMMA AccountedDrop ==
    ASSUME Typed, Accounted, Drop
    PROVE  Accounted'
<1>1. todo # <<>> /\ Now.what = "piece" /\ Now.bits = NoSize
  BY DEF Drop
<1>2. Opens(<<>>)
  BY DropOpens
<1>3. \E d \in dropped' : d.under = Now.column
  <2> DEFINE d == [column |-> Now.column, under |-> Now.column, reason |-> Lack]
  <2>1. d.under = Now.column
    OBVIOUS
  <2>2. d \in dropped'
    BY DEF Drop
  <2> HIDE DEF d
  <2>3. QED BY <2>1, <2>2
<1>4. ASSUME NEW x, IsSeq(x.path), WaitsAt(todo, 1, x) PROVE Passes(x)
  <2>1. x.path = Now.column
    BY <1>1, <1>4, WalkedAt DEF IsOf
  <2>2. Settled(dropped', x.path)
    BY <1>3, <1>4, <2>1, PrefixSelf DEF Settled
  <2>3. QED BY <2>2 DEF Passes, KnownNow, Known
<1>5. QED BY <1>2, <1>4, OpensAccounted

\* A member's piece waits for the member's place.
LEMMA AccountedMembers ==
    ASSUME Typed, Accounted, WalkMembers
    PROVE  Accounted'
<1> DEFINE pieces == Pieces(Chosen1, Now.column, Now.at, Now.depth + 1, Now.into)
<1>1. Walking({"struct", "union"}) /\ (Inner.kind = "union" => Use.how # "tag") /\ todo # <<>> /\ Now.what = "piece"
  BY DEF WalkMembers, Walking
<1>2. Opens(pieces)
  BY WalkMembersOpens
<1>3. IsSeq(Chosen1) /\ IsComposite(Inner)
  BY <1>1, Chosen1Facts, InnerFacts
<1>4. \A m \in Range(Chosen1) : Piece(m, Now.column, Now.at, Now.depth + 1, Now.into) \in Range(pieces)
  BY <1>3, PiecesFacts
<1> HIDE DEF pieces
<1>5. IsSeq(pieces) /\ Moves(pieces)
  BY <1>2, OpensMoves DEF Opens
<1>6. ASSUME NEW x, IsPlace(x), WaitsAt(todo, 1, x) PROVE Passes(x)
  <2>1. Stands(x) /\ OnTime(todo, Now.into, 1, x.copies)
    BY <1>1, <1>6, Standing
  <2>2. Within(x) = {MemberPlace(x, m, x.copies) : m \in Range(Chosen1)}
    BY <1>1, <2>1, MembersPlace
  <2>3. Stores(x) = {}
    BY <1>3, <2>1, StoresNothing DEF Stands
  <2>4. ASSUME NEW m \in Range(Chosen1) PROVE KnownNow(MemberPlace(x, m, x.copies))
    <3> DEFINE y == MemberPlace(x, m, x.copies)
               copies == x.copies
               t == Piece(m, Now.column, Now.at, Now.depth + 1, Now.into)
    <3>1. PICK i \in 1 .. Len(pieces) : pieces[i] = t
      BY <1>4, <1>5, IsSeqFacts
    <3>2. t.what = "piece" /\ t.into = Now.into
      BY DEF Piece
    <3>3. IsOf(t, y)
      BY <2>1, PieceIsOf DEF Stands
    <3>4. copies \subseteq y.copies
      BY DEF MemberPlace
    <3>5. OnTime(todo, Now.into, 1, copies)
      BY <2>1
    <3> HIDE DEF y, copies, t
    <3>6. Waits(todo', y)
      BY <1>5, <3>1, <3>2, <3>3, <3>4, <3>5, PieceWaits
    <3>7. KnownNow(y)
      BY <3>6 DEF KnownNow, Known
    <3>8. QED BY <3>7 DEF y
  <2>5. QED BY <2>2, <2>3, <2>4 DEF Passes, HeldNow
<1>7. QED BY <1>2, <1>6, OpensAccounted

\* And an element's for the element's.
LEMMA AccountedElements ==
    ASSUME Typed, Accounted, WalkElements
    PROVE  Accounted'
<1> DEFINE elements == Elements(Inner, Elem.size)
           pieces == Pieces(elements, Now.column, Now.at, Now.depth + 1, Now.into)
<1>1. Walking({"array"}) /\ ~TextArray /\ todo # <<>> /\ Now.what = "piece"
  BY DEF WalkElements, Walking
<1>2. Opens(pieces)
  BY WalkElementsOpens
<1>3. IsSeq(elements) /\ Range(elements) = {Element(Inner, Elem.size, p) : p \in 1 .. Product(Inner.dims)}
  BY <1>1, ArrayFacts
<1> HIDE DEF elements
<1>4. \A m \in Range(elements) : Piece(m, Now.column, Now.at, Now.depth + 1, Now.into) \in Range(pieces)
  BY <1>3, PiecesFacts
<1> HIDE DEF pieces
<1>5. IsSeq(pieces) /\ Moves(pieces)
  BY <1>2, OpensMoves DEF Opens
<1>6. ASSUME NEW x, IsPlace(x), WaitsAt(todo, 1, x) PROVE Passes(x)
  <2>1. Stands(x) /\ OnTime(todo, Now.into, 1, x.copies)
    BY <1>1, <1>6, Standing
  <2>2. Within(x) = {ElementPlace(x, Inner, Elem.size, p) : p \in 1 .. Product(Inner.dims)}
    BY <1>1, <2>1, ElementsPlace
  <2>3. Stores(x) = {}
    <3>1. Inner.kind = "array" /\ ~Empty(Inner) /\ ~IsText(Inner)
      BY <1>1, ArrayPlace
    <3>2. QED BY <2>1, <3>1, StoresNothing DEF Stands
  <2>4. ASSUME NEW p \in 1 .. Product(Inner.dims) PROVE KnownNow(ElementPlace(x, Inner, Elem.size, p))
    <3> DEFINE y == ElementPlace(x, Inner, Elem.size, p)
               copies == x.copies
               m == Element(Inner, Elem.size, p)
               t == Piece(m, Now.column, Now.at, Now.depth + 1, Now.into)
    <3>1. PICK i \in 1 .. Len(pieces) : pieces[i] = t
      BY <1>3, <1>4, <1>5, IsSeqFacts
    <3>2. IsElement(y, x, Inner, Elem.size, p)
      BY <1>6, ElementIsPlace
    <3>3. /\ t.what = "piece" /\ t.into = Now.into /\ t.type = Inner.elem
          /\ t.column = Now.column \o Index(Inner.dims, p - 1)
          /\ t.at = Now.at + (p - 1) * Elem.size /\ t.bits = NoSize
      BY DEF Piece, Element
    <3> HIDE DEF y, t
    <3>4. IsOf(t, y) /\ copies \subseteq y.copies
      BY <2>1, <3>2, <3>3 DEF IsOf, IsElement, Stands
    <3>5. OnTime(todo, Now.into, 1, copies)
      BY <2>1
    <3> HIDE DEF copies
    <3>6. Waits(todo', y)
      BY <1>5, <3>1, <3>3, <3>4, <3>5, PieceWaits
    <3>7. KnownNow(y)
      BY <3>6 DEF KnownNow, Known
    <3>8. QED BY <3>7 DEF y
  <2>5. QED BY <2>2, <2>3, <2>4 DEF Passes, HeldNow
<1>7. QED BY <1>2, <1>6, OpensAccounted

\* The texts of an array are to be added.
LEMMA AccountedRows ==
    ASSUME Typed, Accounted, WalkText
    PROVE  Accounted'
<1> DEFINE rows == Rows(Inner, Now.column, Now.at, Now.into)
           count == Product(Front(Inner.dims))
<1>1. Walking({"array"}) /\ TextArray /\ todo # <<>> /\ Now.what = "piece"
  BY DEF WalkText, Walking
<1>2. Opens(rows)
  BY WalkTextOpens
<1>3. Inner.kind = "array" /\ ~Empty(Inner) /\ IsText(Inner)
  BY <1>1, ArrayPlace
<1>4. Len(rows) = count /\ \A p \in 1 .. count : rows[p] = RowText(Inner, Now.column, Now.at, Now.into, p)
  <2> DEFINE node == Inner
             column == Now.column
             at == Now.at
             into == Now.into
  <2>1. node.dims \in Seq(Nat) /\ node.dims # <<>> /\ at \in Nat
    BY <1>1, ArrayFacts
  <2> HIDE DEF node, column, at, into
  <2>2. Len(Rows(node, column, at, into)) = Product(Front(node.dims))
    BY ONLY <2>1, RowsFacts
  <2>3. \A p \in 1 .. Product(Front(node.dims)) : Rows(node, column, at, into)[p] = RowText(node, column, at, into, p)
    BY DEF Rows, RowText
  <2>4. QED BY <2>2, <2>3 DEF node, column, at, into
<1> HIDE DEF rows
<1>5. Moves(rows)
  BY <1>2, OpensMoves
<1>6. \A p \in 1 .. count : todo'[p] = rows[p] /\ p \in 1 .. Len(todo') /\ p \in 0 .. Len(rows)
  <2>1. /\ \A k \in 1 .. Len(rows) : todo'[k] = rows[k]
        /\ Len(todo') = Len(rows) + Len(todo) - 1 /\ Len(rows) \in Nat /\ Len(todo) \in Nat \ {0}
    BY <1>5, ReplaceFacts DEF Moves
  <2>2. QED BY <1>4, <2>1
<1>7. ASSUME NEW x, IsPlace(x), WaitsAt(todo, 1, x) PROVE Passes(x)
  <2>1. Stands(x) /\ OnTime(todo, Now.into, 1, x.copies)
    BY <1>1, <1>7, Standing
  <2>2. x.path = Now.column /\ x.at = Now.at /\ x.bits = NoSize /\ Resolve(Types, x.type) = Inner
    BY <2>1 DEF Stands
  <2>3. Stores(x) = RowsAt(x, Inner)
    BY <1>3, <2>2, StoresText
  <2>4. Within(x) = {}
    BY <1>3, <2>2, WithinElse DEF IsComposite
  <2>5. ASSUME NEW leaf \in Stores(x) PROVE Held(todo', made', dropped', leaf, x.copies)
    <3>1. PICK p \in 1 .. count :
              leaf = [path |-> x.path \o Index(Front(Inner.dims), p - 1), at |-> x.at + (p - 1) * Last(Inner.dims),
                      width |-> Last(Inner.dims)]
      BY <2>3 DEF RowsAt
    <3>2. todo'[p] = RowText(Inner, Now.column, Now.at, Now.into, p) /\ p \in 1 .. Len(todo') /\ p \in 0 .. Len(rows)
      BY <1>4, <1>6
    <3>3. /\ todo'[p].what = "text" /\ todo'[p].column = leaf.path /\ todo'[p].at = leaf.at
          /\ todo'[p].width = leaf.width /\ todo'[p].into = Now.into
      <4> DEFINE t == RowText(Inner, Now.column, Now.at, Now.into, p)
                 index == Index(Front(Inner.dims), p - 1)
      <4>1. /\ t.what = "text" /\ t.column = Now.column \o index /\ t.at = Now.at + (p - 1) * Last(Inner.dims)
            /\ t.width = Last(Inner.dims) /\ t.into = Now.into
        BY DEF RowText
      <4>2. /\ leaf.path = Now.column \o index /\ leaf.at = Now.at + (p - 1) * Last(Inner.dims)
            /\ leaf.width = Last(Inner.dims)
        BY <2>2, <3>1
      <4>3. todo'[p] = t
        BY <3>2
      <4> HIDE DEF t, index
      <4>4. QED BY <4>1, <4>2, <4>3
    <3>4. leaf = [path |-> leaf.path, at |-> leaf.at, width |-> leaf.width]
      BY <3>1
    <3>5. OnTime(todo', Now.into, p, x.copies)
      <4> DEFINE copies == x.copies
      <4>1. OnTime(todo, Now.into, 1, copies)
        BY <2>1
      <4> HIDE DEF copies
      <4>2. OnTime(todo', Now.into, p, copies)
        BY <1>5, <3>2, <4>1, PieceOnTime
      <4>3. QED BY <4>2 DEF copies
    <3>6. TextAt(todo', p, leaf, x.copies)
      BY <3>3, <3>4, <3>5 DEF TextAt
    <3>7. QED BY <3>2, <3>6 DEF Held
  <2>6. QED BY <2>4, <2>5 DEF Passes, HeldNow
<1>8. QED BY <1>2, <1>7, OpensAccounted

\* What was asked for of a tagged union is always there or an alternative.
LEMMA AskedPlanned ==
    ASSUME Typed, Walking({"union"}), Use.how = "tag", NEW m \in AskedFor(Inner, Use)
    PROVE  \/ m \in Range(Plan.always)
           \/ /\ m.name \in {c.member : c \in Range(Use.cases)}
              /\ \E j \in 1 .. Len(Plan.alternatives) : Plan.alternatives[j].member = m
<1>1. /\ Range(Plan.always) = {n \in Range(Inner.members) : n.name \in Use.names \cup {Use.tag[1]}}
      /\ \A c \in Range(Use.cases) : \E j \in 1 .. Len(Plan.alternatives) :
            Plan.alternatives[j].member = Member(Inner, c.member)
  BY TaggedFacts
<1>2. IsUse(Use) /\ UseFits(Types, Inner, Use) /\ Inner.kind = "union" /\ WellFormed(Inner)
  BY TaggedFacts
<1>3. m \in Range(Inner.members) /\ m.name \in Use.names \cup {Use.tag[1]} \cup {c.member : c \in Range(Use.cases)}
  BY DEF AskedFor
<1>4. CASE m.name \in Use.names \cup {Use.tag[1]}
  BY <1>1, <1>3, <1>4
<1>5. CASE m.name \in {c.member : c \in Range(Use.cases)}
  <2>1. PICK c \in Range(Use.cases) : m.name = c.member
    BY <1>5
  <2>2. c.member \in NamedMembers(Inner)
    <3>1. PICK i \in DOMAIN Use.cases : c = Use.cases[i]
      BY DEF Range
    <3>2. Use.cases[i].member \in NamedMembers(Inner)
      BY <1>2 DEF UseFits
    <3>3. QED BY <3>1, <3>2
  <2>3. m.name # <<>>
    BY <2>1, <2>2 DEF NamedMembers
  <2>4. Member(Inner, c.member) \in Range(Inner.members) /\ Member(Inner, c.member).name = c.member
    BY <2>2, MemberIn
  <2>5. \A a, b \in Range(Inner.members) : a.name = b.name /\ a.name # <<>> => a = b
    BY <1>2 DEF WellFormed
  <2>6. m = Member(Inner, c.member)
    BY <1>3, <2>1, <2>3, <2>4, <2>5
  <2>7. QED BY <1>1, <1>5, <2>1, <2>6
<1>6. QED BY <1>3, <1>4, <1>5

\* The tasks of a tagged union: its members, and at the end what takes the
\* lists of its alternatives and has its identifier.
LEMMA TaggedPieces ==
    ASSUME Typed, Walking({"union"}), Use.how = "tag", NEW f
    PROVE  LET pieces == Always \o Alternatives \o <<Together(f)>>
               a      == Len(Always)
               b      == Len(Plan.alternatives)
           IN  /\ IsSeq(pieces) /\ Len(pieces) = a + b + 1 /\ a \in Nat /\ b \in Nat
               /\ \A i \in 1 .. a : pieces[i] = Always[i]
               /\ \A j \in 1 .. b : pieces[a + j] = Alternative(j)
               /\ pieces[a + b + 1] = Together(f)
<1> DEFINE t == Together(f)
           a == Len(Always)
           b == Len(Plan.alternatives)
           both == Always \o Alternatives
           pieces == both \o <<t>>
<1>1. IsSeq(Always) /\ IsSeq(Alternatives) /\ Len(Alternatives) = b /\ \A j \in 1 .. b : Alternatives[j] = Alternative(j)
  BY AlwaysFacts, AlternativesFacts
<1> HIDE DEF t
<1>2. a \in Nat /\ b \in Nat
  BY <1>1, IsSeqFacts
<1>3. /\ IsSeq(both) /\ Len(both) = a + b /\ \A i \in 1 .. a : both[i] = Always[i]
      /\ \A j \in 1 .. b : both[a + j] = Alternatives[j]
  <2>1. IsSeq(both) /\ Len(both) = a + Len(Alternatives) /\ \A i \in 1 .. a : both[i] = Always[i]
    BY <1>1, IsSeqConcat
  <2>2. \A j \in 1 .. Len(Alternatives) : both[a + j] = Alternatives[j]
    BY <1>1, IsSeqConcat
  <2> HIDE DEF a, b, both
  <2>3. QED BY <1>1, <2>1, <2>2
<1> HIDE DEF a, b, both
<1>4. /\ IsSeq(pieces) /\ Len(pieces) = Len(both) + 1 /\ \A i \in 1 .. Len(both) : pieces[i] = both[i]
      /\ pieces[Len(both) + 1] = t
  <2>1. IsSeq(<<t>>) /\ Len(<<t>>) = 1 /\ <<t>>[1] = t /\ 1 \in 1 .. Len(<<t>>)
    BY One
  <2>2. QED BY <1>3, <2>1, IsSeqConcat
<1> HIDE DEF pieces
<1>5. \A i \in 1 .. a : i \in 1 .. Len(both)
  BY <1>2, <1>3
<1>6. \A j \in 1 .. b : a + j \in 1 .. Len(both)
  BY <1>2, <1>3
<1>7. \A i \in 1 .. a : pieces[i] = Always[i]
  BY <1>3, <1>4, <1>5
<1>8. \A j \in 1 .. b : pieces[a + j] = Alternative(j)
  BY <1>1, <1>3, <1>4, <1>6
<1>9. Len(pieces) = a + b + 1 /\ pieces[a + b + 1] = t
  BY <1>3, <1>4
<1>10. QED BY <1>2, <1>4, <1>7, <1>8, <1>9 DEF a, b, t, both, pieces

\* An alternative waits for the list that will be taken with its identifier.
LEMMA AlternativeWaits ==
    ASSUME Typed, Walking({"union"}), Use.how = "tag", NEW f, Moves(Always \o Alternatives \o <<Together(f)>>),
           NEW x, Stands(x), NEW j \in 1 .. Len(Plan.alternatives), NEW m, Plan.alternatives[j].member = m,
           m.name \in {c.member : c \in Range(Use.cases)}
    PROVE  Waits(todo', MemberPlace(x, m, x.copies \cup Copied(x, Inner, Use, m)))
<1> DEFINE t == Together(f)
           a == Len(Always)
           b == Len(Plan.alternatives)
           pieces == Always \o Alternatives \o <<t>>
           y == MemberPlace(x, m, x.copies \cup Copied(x, Inner, Use, m))
           i == a + j
           n == a + b + 1
           task == Alternative(j)
<1>1. /\ Len(pieces) = n /\ a \in Nat /\ b \in Nat /\ pieces[i] = task /\ pieces[n] = t
  BY TaggedPieces
<1>2. /\ \A k \in 1 .. Len(pieces) : todo'[k] = pieces[k]
      /\ Len(todo') = Len(pieces) + Len(todo) - 1 /\ Len(pieces) \in Nat /\ Len(todo) \in Nat \ {0}
  BY ReplaceFacts DEF Moves
<1>3. IsOf(task, y) /\ task.what = "piece" /\ task.into = lists + j
  <2>1. Now.column = x.path /\ Now.at = x.at
    BY DEF Stands
  <2>2. task = Piece(m, Now.column, Now.at, Now.depth + 1, lists + j)
    BY DEF Alternative
  <2>3. IsOf(Piece(m, Now.column, Now.at, Now.depth + 1, lists + j), y)
    BY <2>1, PieceIsOf
  <2>4. QED BY <2>2, <2>3 DEF Piece
<1>4. /\ Plan.from = Member(Inner, Use.tag[1]).offset
      /\ Plan.to = Plan.from + SizeOr0(Types, Member(Inner, Use.tag[1]).type)
      /\ Plan.from \in Nat /\ Now.at \in Nat /\ lists \in Nat
      /\ IsSeq(Plan.alternatives)
  BY TaggedFacts
<1>5. Copy(t) \in y.copies
  <2>1. Copy(t) = [from |-> Now.at + Plan.from, to |-> Now.at + Plan.to]
    BY DEF Copy, Together
  <2>2. Copied(x, Inner, Use, m) = {[from |-> x.at + Member(Inner, Use.tag[1]).offset,
                                     to |-> x.at + Member(Inner, Use.tag[1]).offset + SizeOr0(Types, Member(Inner, Use.tag[1]).type)]}
    BY DEF Copied
  <2>3. x.at = Now.at
    BY DEF Stands
  <2>4. SizeOr0(Types, Member(Inner, Use.tag[1]).type) \in Nat
    BY SizeOr0Type
  <2>5. Now.at + Plan.to = Now.at + Plan.from + SizeOr0(Types, Member(Inner, Use.tag[1]).type)
    BY <1>4, <2>4
  <2>6. Copy(t) \in Copied(x, Inner, Use, m)
    BY <1>4, <2>1, <2>2, <2>3, <2>5
  <2>7. y.copies = x.copies \cup Copied(x, Inner, Use, m)
    BY DEF MemberPlace
  <2>8. QED BY <2>6, <2>7
<1>6. Awaits(t, lists + j)
  <2>1. t.what = "switch" /\ t.first = lists /\ DOMAIN t.values = DOMAIN Plan.alternatives
    BY DEF Together
  <2>2. DOMAIN Plan.alternatives = 1 .. b
    BY <1>4, IsSeqFacts
  <2>3. (lists + j) - lists = j
    BY <1>1, <1>4
  <2>4. QED BY <2>1, <2>2, <2>3 DEF Awaits
<1> HIDE DEF t, a, b, pieces, y, task
<1>7. i \in 1 .. Len(pieces) /\ n \in 1 .. Len(pieces) /\ i \in 1 .. Len(todo') /\ n \in i + 1 .. Len(todo')
  <2>1. j \in 1 .. b
    BY DEF b
  <2>2. QED BY <1>1, <1>2, <2>1
<1>8. todo'[i] = task /\ todo'[n] = t
  BY <1>1, <1>2, <1>7
<1> HIDE DEF i, n
<1>9. OnTime(todo', lists + j, i, y.copies)
  BY <1>5, <1>6, <1>7, <1>8 DEF OnTime
<1>10. WaitsAt(todo', i, y)
  BY <1>3, <1>8, <1>9 DEF WaitsAt
<1>11. Waits(todo', y)
  BY <1>7, <1>10 DEF Waits
<1>12. QED BY <1>11 DEF y

LEMMA AccountedTagged ==
    ASSUME Typed, Accounted, WalkTagged
    PROVE  Accounted'
<1>1. /\ Walking({"union"}) /\ Use.how = "tag" /\ UNCHANGED <<job, status, made, used, headerSize, packet, row>>
      /\ status = "walking" /\ todo # <<>> /\ Now.what = "piece"
  BY DEF WalkTagged, Walking
<1>2. \/ /\ Replace(Always) /\ \E d \in dropped' : d.under = Now.column
         /\ dropped \subseteq dropped'
      \/ \E f \in TagField(Types, Plan.tag, Now.at) :
            Replace(Always \o Alternatives \o <<Together(f)>>) /\ dropped' = dropped
  <2>1. CASE /\ Replace(Always)
             /\ dropped' = dropped \cup {[column |-> Now.column \o FlattenSeq(Use.tag), under |-> Now.column,
                                          reason |-> "identifier"]}
    <3> DEFINE d == [column |-> Now.column \o FlattenSeq(Use.tag), under |-> Now.column, reason |-> "identifier"]
    <3>1. d.under = Now.column /\ dropped' = dropped \cup {d}
      BY <2>1
    <3> HIDE DEF d
    <3>2. QED BY <2>1, <3>1
  <2>2. CASE \E f \in TagField(Types, Plan.tag, Now.at) :
                Replace(Always \o Alternatives \o <<Together(f)>>) /\ dropped' = dropped
    BY <2>2
  <2>3. QED BY <2>1, <2>2 DEF WalkTagged, Plan, Always, Alternatives, Alternative, Together
<1>3. IsSeq(todo) /\ IsSeq(made) /\ Len(made) \in Nat /\ IsSeq(Always)
  BY <1>1, IsSeqFacts, AlwaysFacts DEF Typed
<1>4. ASSUME Replace(Always), \E d \in dropped' : d.under = Now.column, dropped \subseteq dropped'
      PROVE  Accounted'
  <2>1. Moves(Always)
    BY <1>1, <1>3, <1>4 DEF Moves
  <2>2. HeldStays
    BY <1>1, <2>1, PieceHolds
  <2>3. ASSUME NEW x, IsPlace(x), IsSeq(x.path), WaitsAt(todo, 1, x) PROVE Passes(x)
    <3>1. x.path = Now.column
      BY <1>1, <2>3, Standing DEF Stands
    <3>2. Settled(dropped', x.path)
      BY <1>4, <2>3, <3>1, PrefixSelf DEF Settled
    <3>3. QED BY <3>2 DEF Passes, KnownNow, Known
  <2>4. QED BY <1>1, <2>1, <2>2, <2>3, AccountedStep
<1>5. ASSUME NEW f, Replace(Always \o Alternatives \o <<Together(f)>>), dropped' = dropped
      PROVE  Accounted'
  <2> DEFINE pieces == Always \o Alternatives \o <<Together(f)>>
  <2>1. /\ IsSeq(pieces) /\ Len(pieces) = Len(Always) + Len(Plan.alternatives) + 1
        /\ Len(Always) \in Nat /\ Len(Plan.alternatives) \in Nat
        /\ \A i \in 1 .. Len(Always) : pieces[i] = Always[i]
    BY <1>1, TaggedPieces
  <2>2. Moves(pieces)
    <3> HIDE DEF pieces
    <3>1. Replace(pieces)
      BY <1>5 DEF pieces
    <3>2. QED BY <1>1, <1>3, <1>5, <2>1, <3>1 DEF Moves
  <2>3. HeldStays
    BY <1>1, <2>2, PieceHolds
  <2>4. ASSUME NEW x, IsPlace(x), WaitsAt(todo, 1, x) PROVE Passes(x)
    <3>1. Stands(x) /\ OnTime(todo, Now.into, 1, x.copies)
      BY <1>1, <2>4, Standing
    <3>2. Within(x) = {MemberPlace(x, m, x.copies \cup Copied(x, Inner, Use, m)) : m \in AskedFor(Inner, Use)}
      BY <1>1, <3>1, TaggedAsked DEF Asked
    <3>3. Stores(x) = {}
      <4>1. IsComposite(Inner)
        BY <1>1, WalkingFacts DEF IsComposite
      <4>2. QED BY <3>1, <4>1, StoresNothing DEF Stands
    <3>4. ASSUME NEW m \in AskedFor(Inner, Use)
          PROVE  Waits(todo', MemberPlace(x, m, x.copies \cup Copied(x, Inner, Use, m)))
      <4>1. CASE m \in Range(Plan.always)
        <5> DEFINE copies == x.copies
                   more == x.copies \cup Copied(x, Inner, Use, m)
                   y == MemberPlace(x, m, more)
                   t == Piece(m, Now.column, Now.at, Now.depth + 1, Now.into)
        <5>1. t \in Range(Always)
          BY <1>1, <4>1, AlwaysFacts
        <5> HIDE DEF t
        <5>2. PICK i \in 1 .. Len(Always) : Always[i] = t
          BY <1>3, <5>1, IsSeqFacts
        <5>3. i \in 1 .. Len(pieces) /\ pieces[i] = t
          BY <2>1, <5>2
        <5>4. t.what = "piece" /\ t.into = Now.into
          BY DEF Piece, t
        <5>5. IsOf(t, y)
          BY <3>1, PieceIsOf DEF Stands, t
        <5>6. copies \subseteq more /\ y.copies = more
          BY DEF MemberPlace
        <5>7. OnTime(todo, Now.into, 1, copies)
          BY <3>1
        <5> HIDE DEF y, copies, more, pieces
        <5>8. Waits(todo', y)
          BY <2>2, <5>3, <5>4, <5>5, <5>6, <5>7, PieceWaits
        <5>9. QED BY <5>8 DEF y, more
      <4>2. CASE m \notin Range(Plan.always)
        <5>1. PICK j \in 1 .. Len(Plan.alternatives) : Plan.alternatives[j].member = m
          BY <1>1, <4>2, AskedPlanned
        <5>2. m.name \in {c.member : c \in Range(Use.cases)}
          BY <1>1, <4>2, AskedPlanned
        <5>3. QED BY <1>1, <2>2, <3>1, <5>1, <5>2, AlternativeWaits
      <4>3. QED BY <4>1, <4>2
    <3>5. \A y \in Within(x) : KnownNow(y)
      BY <3>2, <3>4 DEF KnownNow, Known
    <3>6. QED BY <3>3, <3>5 DEF Passes, HeldNow
  <2> HIDE DEF pieces
  <2>5. QED BY <1>1, <2>2, <2>3, <2>4, AccountedStep
<1>6. QED BY <1>2, <1>4, <1>5

\* What lies in a field that lies in the identifier is a copy of it.
LEMMA CopiesInside ==
    ASSUME Typed, todo # <<>>, status = "walking", Now.what = "switch", NEW r \in 1 .. Len(made), NEW leaf,
           ShownBy(made[r], leaf), InsideIdentifier(Now, made[r]), NEW copies, Copy(Now) \in copies
    PROVE  InsideCopy(leaf, copies)
<1> DEFINE f == made[r]
<1>1. IsField(f, lists, Message.size) /\ (f.kind = "plain" => f.width = Len(f.names) * f.each) /\ Len(f.names) \in Nat
  BY FieldFacts
<1>2. f.at \in Nat /\ f.each \in Nat
  BY <1>1 DEF IsField
<1>3. Now.from \in Nat /\ Now.to \in Nat
  BY NowFacts DEF IsSwitch
<1>4. Now.from <= f.at /\ f.at + f.width <= Now.to
  BY DEF InsideIdentifier
<1>5. PICK k \in 1 .. Len(f.names) : leaf = [path |-> f.names[k].path, at |-> f.at + (k - 1) * f.each, width |-> f.each]
  BY DEF ShownBy
<1>6. f.width = Len(f.names) * f.each
  BY <1>1 DEF ShownBy
<1> DEFINE n == Len(f.names)
           at == f.at
           each == f.each
           skip == (k - 1) * each
           all == n * each
<1>7. skip \in Nat /\ skip + each <= all
  <2>1. n \in Nat /\ k \in 1 .. n /\ each \in Nat
    BY <1>1, <1>2, <1>5
  <2> HIDE DEF n, each
  <2>2. QED BY <2>1, PartOf
<1>8. all \in Nat
  <2>1. n \in Nat /\ each \in Nat
    BY <1>1, <1>2
  <2> HIDE DEF n, each
  <2>2. QED BY <2>1
<1>9. leaf.at = at + skip /\ leaf.width = each /\ at \in Nat /\ each \in Nat /\ Now.from <= at /\ at + all <= Now.to
  BY <1>2, <1>4, <1>5, <1>6
<1> HIDE DEF f, n, at, each, skip, all
<1>10. Now.from <= leaf.at /\ leaf.at + leaf.width <= Now.to
  BY <1>3, <1>7, <1>8, <1>9
<1> DEFINE id == Copy(Now)
<1>11. id.from = Now.from /\ id.to = Now.to
  BY DEF Copy
<1> HIDE DEF id
<1>12. id.from <= leaf.at /\ leaf.at + leaf.width <= id.to /\ id \in copies
  BY <1>10, <1>11 DEF id
<1>13. QED BY <1>12 DEF InsideCopy

\* The fields of a tagged union's lists are taken, or are copies of its identifier.
LEMMA AccountedMakeSwitch ==
    ASSUME Typed, Accounted, MakeSwitch
    PROVE  Accounted'
<1> DEFINE f == Switch(made, Now)
           n == Len(made)
<1>1. /\ status = "walking" /\ todo # <<>> /\ made' = Append(made, f) /\ Replace(<<>>) /\ job' = job
      /\ dropped' = dropped /\ Now.what = "switch"
  BY DEF MakeSwitch
<1>2. IsSeq(todo) /\ IsSeq(made) /\ n \in Nat /\ IsSeq(<<>>) /\ todo[1] = Now
  BY <1>1, IsSeqFacts, None, IsSeqTail DEF Typed, Now
<1>3. f.kind = "switch" /\ IsSeq(f.fields) /\ Range(f.fields) = Kept(Now)
  BY SwitchFacts
<1> HIDE DEF f, n
<1>4. IsSeq(made') /\ Len(made') = n + 1 /\ made'[n + 1] = f /\ \A r \in 1 .. n : made'[r] = made[r]
  BY <1>1, <1>2, IsSeqAppend DEF n
<1>5. Moves(<<>>)
  <2>1. Len(made) <= Len(made') /\ \A r \in 1 .. Len(made) : made'[r] = made[r]
    BY <1>2, <1>4 DEF n
  <2>2. QED BY <1>1, <1>2, <1>4, <2>1 DEF Moves
<1>6. ASSUME NEW leaf, NEW copies, Taking(leaf, copies)
      PROVE  Held(todo', made', dropped', leaf, copies)
  <2>1. PICK r \in 1 .. n : ShownBy(made[r], leaf) /\ Awaits(Now, made[r].into) /\ Copy(Now) \in copies
    BY <1>2, <1>6 DEF Taking, n
  <2>2. CASE InsideIdentifier(Now, made[r])
    <3>1. InsideCopy(leaf, copies)
      BY <1>1, <2>1, <2>2, CopiesInside DEF n
    <3>2. QED BY <3>1 DEF Held
  <2>3. CASE ~InsideIdentifier(Now, made[r])
    <3>1. r \in DOMAIN made
      BY <1>2, IsSeqFacts DEF n
    <3>2. r \in Kept(Now)
      BY <2>1, <2>3, <3>1 DEF Kept, Awaits
    <3>3. \E k \in 1 .. Len(f.fields) : f.fields[k] = r
      BY <1>3, <3>2, IsSeqFacts
    <3>4. n + 1 \in 1 .. Len(made') /\ r \in 1 .. Len(made')
      BY <1>2, <1>4
    <3>5. TakenIn(made', r)
      BY <1>3, <1>4, <3>3, <3>4 DEF TakenIn
    <3>6. made'[r] = made[r]
      BY <1>4
    <3>7. HasField(todo', made', r, leaf, copies)
      BY <2>1, <3>5, <3>6 DEF HasField
    <3>8. QED BY <3>4, <3>7 DEF Held
  <2>4. QED BY <2>2, <2>3
<1>7. ASSUME NEW leaf, NEW copies, Held(todo, made, dropped, leaf, copies)
      PROVE  Held(todo', made', dropped', leaf, copies)
  <2>1. ~TextAt(todo, 1, leaf, copies)
    BY <1>1, <1>2 DEF TextAt
  <2>2. QED BY <1>5, <1>6, <1>7, <2>1, HeldKeeps
<1>8. HeldStays
  BY <1>7 DEF HeldStays
<1>9. \A x : ~WaitsAt(todo, 1, x)
  BY <1>1, <1>2 DEF WaitsAt
<1>10. QED BY <1>1, <1>5, <1>8, <1>9, AccountedStep

\* All the outermost places are to be walked.
LEMMA AccountedBegin ==
    ASSUME Typed, Begin
    PROVE  Accounted'
<1> DEFINE pieces == Pieces(Walked, <<>>, 0, 1, 1)
           whole == [type |-> job.key, path |-> <<>>, at |-> 0, bits |-> NoSize, bit |-> 0, copies |-> {}]
<1>1. Compiles /\ todo' = pieces /\ job' = job
  BY DEF Begin
<1>2. IsSeq(Walked)
  BY <1>1, WalkedMembers
<1>3. IsSeq(pieces) /\ \A m \in Range(Walked) : Piece(m, <<>>, 0, 1, 1) \in Range(pieces)
  BY <1>2, PiecesFacts
<1> HIDE DEF pieces
<1>4. ASSUME NEW y \in Outer PROVE Waits(todo', y)
  <2>1. ~IsHeader(Types, job.key, job.declared)
    BY DEF Outer
  <2>2. PICK m \in Range(Walked) : y = MemberPlace(whole, m, {})
    BY <1>1, <2>1, WalkedMembers DEF Outer
  <2> DEFINE t == Piece(m, <<>>, 0, 1, 1)
  <2>3. t \in Range(pieces)
    BY <1>3
  <2>4. t.what = "piece" /\ t.into = 1
    BY DEF Piece
  <2>5. whole.path = <<>> /\ whole.at = 0
    OBVIOUS
  <2> HIDE DEF whole
  <2>6. IsOf(t, y)
    BY <2>2, <2>5 DEF IsOf, Piece, MemberPlace
  <2> HIDE DEF t
  <2>7. PICK i \in 1 .. Len(todo') : todo'[i] = t
    BY <1>1, <1>3, <2>3, IsSeqFacts
  <2>8. WaitsAt(todo', i, y)
    BY <2>4, <2>6, <2>7 DEF WaitsAt, OnTime
  <2>9. QED BY <2>7, <2>8 DEF Waits
<1>5. Closing(todo', made', dropped', {})
  BY <1>4 DEF Closing, Known
<1>6. PICK G : Closing(todo', made', dropped', G)
  BY <1>5
<1>7. Closing(todo, made, dropped, G)'
  BY <1>1, <1>6, ClosingKeeps
<1>8. QED BY <1>7 DEF Accounted

LEMMA AccountedSame ==
    ASSUME Accounted, UNCHANGED <<job, todo, made, dropped>>, status' \in {"walking", "ready"} => status \in {"walking", "ready"}
    PROVE  Accounted'
<1>1. CASE status' \notin {"walking", "ready"}
  BY <1>1 DEF Accounted
<1>2. CASE status' \in {"walking", "ready"}
  <2>1. PICK V : Closing(todo, made, dropped, V)
    BY <1>2 DEF Accounted
  <2>2. Closing(todo', made', dropped', V)
    BY <2>1
  <2>3. PICK G : Closing(todo', made', dropped', G)
    BY <2>2
  <2>4. Closing(todo, made, dropped, G)'
    BY <2>3, ClosingKeeps
  <2>5. QED BY <2>4 DEF Accounted
<1>3. QED BY <1>1, <1>2

LEMMA AccountedInit == Init => Accounted
BY DEF Init, Accounted

LEMMA AccountedNext == Typed /\ Accounted /\ [Next]_vars => Accounted'
<1>1. SUFFICES ASSUME Typed, Accounted, [Next]_vars PROVE Accounted'
  OBVIOUS
<1>2. CASE Refuse
  BY <1>1, <1>2, AccountedSame DEF Refuse
<1>3. CASE Begin
  BY <1>1, <1>3, AccountedBegin
<1>4. CASE Walk
  <2>1. CASE Drop
    BY <1>1, <2>1, AccountedDrop
  <2>2. CASE WalkBits
    BY <1>1, <2>2, AccountedBits
  <2>3. CASE WalkScalar
    BY <1>1, <2>3, AccountedScalar
  <2>4. CASE WalkMembers
    BY <1>1, <2>4, AccountedMembers
  <2>5. CASE WalkTagged
    BY <1>1, <2>5, AccountedTagged
  <2>6. CASE MakeSwitch
    BY <1>1, <2>6, AccountedMakeSwitch
  <2>7. CASE WalkText
    BY <1>1, <2>7, AccountedRows
  <2>8. CASE AddText
    BY <1>1, <2>8, AccountedText
  <2>9. CASE WalkVector
    BY <1>1, <2>9, AccountedVector
  <2>10. CASE WalkElements
    BY <1>1, <2>10, AccountedElements
  <2>11. QED BY <1>4, <2>1, <2>2, <2>3, <2>4, <2>5, <2>6, <2>7, <2>8, <2>9, <2>10 DEF Walk
<1>5. CASE Finish
  BY <1>1, <1>5, AccountedSame DEF Finish
<1>6. CASE Decode
  BY <1>1, <1>6, AccountedSame DEF Decode
<1>7. CASE UNCHANGED vars
  BY <1>1, <1>7, AccountedSame DEF vars
<1>8. QED BY <1>1, <1>2, <1>3, <1>4, <1>5, <1>6, <1>7 DEF Next

\* Nothing is missing from what was walked, reported, or is still to be walked.
LEMMA AccountedAlways == Spec => []Accounted
<1>1. Init => Accounted
  BY AccountedInit
<1>2. Typed /\ Accounted /\ [Next]_vars => Accounted'
  BY AccountedNext
<1>3. QED BY <1>1, <1>2, TypedAlways, PTL DEF Spec

-----------------------------------------------------------------------------
(* What is accounted for when there is nothing more to walk.                *)

\* A place that was walked, or reported, or has nothing within.
Done(V, x) == /\ IsPlace(x) /\ IsSeq(x.path)
              /\ \/ x \in V /\ AllHeld(todo, made, dropped, x)
                 \/ Settled(dropped, x.path)
                 \/ Within(x) = {} /\ AllHeld(todo, made, dropped, x)

LEMMA NothingWaits ==
    ASSUME todo = <<>>
    PROVE  /\ \A x : ~Waits(todo, x)
           /\ \A l, copies : OnTime(todo, l, 0, copies) => l = 1
           /\ 1 .. Len(todo) = {}
<1>1. Len(todo) = 0
  BY None
<1>2. 1 .. Len(todo) = {}
  BY <1>1
<1>3. 0 + 1 .. Len(todo) = {}
  BY <1>1
<1>4. QED BY <1>2, <1>3 DEF Waits, OnTime

LEMMA BecomesDone ==
    ASSUME todo = <<>>, NEW V, Closing(todo, made, dropped, V), NEW y, IsPlace(y), IsSeq(y.path),
           y \in V \/ Known(todo, made, dropped, y)
    PROVE  Done(V, y)
<1>1. CASE y \in V
  BY <1>1 DEF Closing, Done
<1>2. CASE Known(todo, made, dropped, y)
  BY <1>2, NothingWaits DEF Known, Done
<1>3. QED BY <1>1, <1>2

\* Level by level, every place is.
LEMMA AllDone ==
    ASSUME Compiles, todo = <<>>, NEW V, Closing(todo, made, dropped, V), NEW n \in 1 .. Levels
    PROVE  \A x \in Level[n] : Done(V, x)
<1>1. Levels \in Nat
  BY BoundsAssumption
<1> DEFINE H == {k \in 0 .. Levels : k > 0 => \A x \in Level[k] : Done(V, x)}
<1>2. 0 \in H
  BY <1>1
<1>3. ASSUME NEW k \in 1 .. Levels, k - 1 \in H
      PROVE  k \in H
  <2>1. CASE k = 1
    <3>1. Level[k] = Outer
      <4>1. ~(k > 1)
        BY <2>1
      <4>2. Level[k] = IF k > 1 THEN UNION {Within(x) : x \in Level[k - 1]} ELSE Outer
        BY LevelSteps
      <4>3. QED BY <4>1, <4>2
    <3>2. ASSUME NEW x \in Outer PROVE Done(V, x)
      <4>1. x \in V \/ Known(todo, made, dropped, x)
        BY DEF Closing
      <4>2. QED BY <4>1, OuterAre, BecomesDone
    <3>3. QED BY <1>1, <3>1, <3>2
  <2>2. CASE k # 1
    <3>1. k > 1 /\ k - 1 \in 1 .. Levels /\ k - 1 > 0
      BY <1>1, <2>2
    <3>2. Level[k] = UNION {Within(x) : x \in Level[k - 1]}
      BY <3>1, LevelSteps
    <3>3. \A x \in Level[k - 1] : Done(V, x)
      BY <1>3, <3>1
    <3>4. ASSUME NEW x \in Level[k - 1], NEW y \in Within(x) PROVE Done(V, y)
      <4>1. Done(V, x)
        BY <3>3
      <4>2. IsPlace(y) /\ IsSeq(y.path)
        BY <4>1, WithinBelow DEF Done
      <4>3. CASE x \in V
        <5>1. y \in V \/ Known(todo, made, dropped, y)
          BY <4>3 DEF Closing
        <5>2. QED BY <4>2, <5>1, BecomesDone
      <4>4. CASE Settled(dropped, x.path)
        <5> DEFINE gone == dropped
        <5>1. Settled(gone, x.path)
          BY <4>4
        <5> HIDE DEF gone
        <5>2. Settled(gone, y.path)
          BY <4>1, <5>1, SettledWithin DEF Done
        <5>3. QED BY <4>2, <5>2 DEF Done, gone
      <4>5. Within(x) # {}
        OBVIOUS
      <4>6. QED BY <4>1, <4>3, <4>4, <4>5 DEF Done
    <3>5. \A y \in Level[k] : Done(V, y)
      BY <3>2, <3>4
    <3>6. QED BY <1>1, <3>5
  <2>3. QED BY <2>1, <2>2
<1> HIDE DEF H
<1>4. \A k \in 0 .. Levels : k \in H
  BY <1>1, <1>2, <1>3, UpTo
<1>5. n \in H /\ n > 0
  BY <1>1, <1>4
<1>6. QED BY <1>5 DEF H

\* So all that is stored is held, ...
LEMMA AllStoredHeld ==
    ASSUME Compiles, todo = <<>>, NEW V, Closing(todo, made, dropped, V), NEW x \in Places, NEW leaf \in Stores(x)
    PROVE  Held(todo, made, dropped, leaf, x.copies)
<1>1. PICK n \in 1 .. Levels : x \in Level[n]
  BY DEF Places
<1>2. Done(V, x)
  BY <1>1, AllDone
<1>3. CASE AllHeld(todo, made, dropped, x)
  BY <1>3 DEF AllHeld
<1>4. CASE Settled(dropped, x.path)
  <2> DEFINE gone == dropped
  <2>1. Settled(gone, x.path)
    BY <1>4
  <2> HIDE DEF gone
  <2>2. Settled(gone, leaf.path)
    BY <1>2, <2>1, SettledWithin DEF Done
  <2>3. QED BY <2>2 DEF Held, gone
<1>5. QED BY <1>2, <1>3, <1>4 DEF Done

\* ... by a field that is the message's own or was taken, if not reported or a copy.
LEMMA HeldAtLast ==
    ASSUME todo = <<>>, NEW leaf, NEW copies, Held(todo, made, dropped, leaf, copies)
    PROVE  \/ Settled(dropped, leaf.path)
           \/ InsideCopy(leaf, copies)
           \/ \E r \in 1 .. Len(made) : ShownBy(made[r], leaf) /\ (made[r].into = 1 \/ TakenIn(made, r))
<1>1. \A i \in 1 .. Len(todo) : ~TextAt(todo, i, leaf, copies)
  BY NothingWaits
<1>2. ASSUME NEW r \in 1 .. Len(made), HasField(todo, made, r, leaf, copies)
      PROVE  ShownBy(made[r], leaf) /\ (made[r].into = 1 \/ TakenIn(made, r))
  BY <1>2, NothingWaits DEF HasField
<1>3. QED BY <1>1, <1>2 DEF Held

\* The tagged unions whose own field went nowhere: it lay in the bytes of the
\* identifier of the one around it, and so it was left out with all its columns.
LeftOut == {r \in Switches : /\ made[r].into # 1
                             /\ \A s \in Switches : \A k \in DOMAIN made[s].fields : made[s].fields[k] # r}

\* The names of the message's own fields are its columns.
LEMMA OwnNames ==
    ASSUME Typed, NEW r \in 1 .. Len(made), made[r].into = 1
    PROVE  Range(made[r].names) \subseteq Range(Columns)
<1> DEFINE some == Fields
           G == Given
<1>1. IsSeq(some) /\ (\A k \in 1 .. Len(some) : some[k] \in 1 .. Len(made)) /\ r \in Range(some)
  BY FieldsFacts
<1>2. \A k \in 1 .. Len(some) : made[some[k]].names \in Seq(G)
  BY <1>1, FieldFacts
<1>3. Columns = NamesOf(made, some)
  BY DEF Columns
<1> HIDE DEF some, G
<1>4. PICK k \in 1 .. Len(some) : some[k] = r
  BY <1>1, IsSeqFacts
<1>5. \A e : e \in Range(NamesOf(made, some)) <=> \E j \in 1 .. Len(some) : e \in Range(made[some[j]].names)
  BY <1>1, <1>2, NamesOfFacts
<1>6. \A e \in Range(made[r].names) : e \in Range(Columns)
  BY <1>3, <1>4, <1>5
<1>7. QED BY <1>6

\* A field that a tagged union takes is one of its fields, and was made before it.
LEMMA TakenBy ==
    ASSUME Typed, NEW r \in 1 .. Len(made), TakenIn(made, r)
    PROVE  \E s \in r + 1 .. Len(made) : s \in Switches /\ Range(made[r].names) \subseteq Range(made[s].names)
<1>1. PICK s \in 1 .. Len(made) : made[s].kind = "switch" /\ \E k \in 1 .. Len(made[s].fields) : made[s].fields[k] = r
  BY DEF TakenIn
<1>2. PICK k \in 1 .. Len(made[s].fields) : made[s].fields[k] = r
  BY <1>1
<1>3. Range(made[r].names) \subseteq Range(made[s].names)
  BY <1>1, <1>2, TakesNames
<1>4. r \in 1 .. s - 1 /\ Len(made) \in Nat
  BY <1>1, <1>2, FieldFacts
<1>5. s \in r + 1 .. Len(made)
  BY <1>4
<1>6. s \in Switches
  BY <1>1, IsSeqFacts DEF Switches, Typed
<1>7. QED BY <1>3, <1>5, <1>6

\* From union to union, all of them are columns.
LEMMA TakenShown ==
    ASSUME Typed, LeftOut = {}
    PROVE  \A r \in 1 .. Len(made) : made[r].into = 1 \/ TakenIn(made, r) => Range(made[r].names) \subseteq Range(Columns)
<1> DEFINE Good(r) == made[r].into = 1 \/ TakenIn(made, r) => Range(made[r].names) \subseteq Range(Columns)
<1>1. PICK n : n = Len(made)
  OBVIOUS
<1>2. n \in Nat
  BY <1>1, IsSeqFacts DEF Typed
<1> DEFINE H == {m \in 0 .. n : \A q \in 1 .. n : q > n - m => Good(q)}
<1>3. 0 \in H
  BY <1>2
<1>4. ASSUME NEW m \in 1 .. n, m - 1 \in H
      PROVE  m \in H
  <2>1. \A q \in 1 .. n : q > n - (m - 1) => Good(q)
    BY <1>4
  <2>2. ASSUME NEW q \in 1 .. n, q > n - m PROVE Good(q)
    <3>1. CASE made[q].into = 1
      BY <1>1, <3>1, OwnNames
    <3>2. CASE TakenIn(made, q)
      <4>1. PICK s \in q + 1 .. n : s \in Switches /\ Range(made[q].names) \subseteq Range(made[s].names)
        BY <1>1, <3>2, TakenBy
      <4>2. s \in 1 .. n /\ s > n - (m - 1)
        BY <1>2, <2>2
      <4>3. made[s].into = 1 \/ TakenIn(made, s)
        <5>1. CASE made[s].into # 1
          <6>1. s \notin LeftOut
            OBVIOUS
          <6>2. PICK u \in Switches : \E k \in DOMAIN made[u].fields : made[u].fields[k] = s
            BY <4>1, <5>1, <6>1 DEF LeftOut
          <6>3. u \in 1 .. Len(made) /\ made[u].kind = "switch"
            BY <6>2, IsSeqFacts DEF Switches, Typed
          <6>4. DOMAIN made[u].fields = 1 .. Len(made[u].fields)
            BY <6>3, FieldFacts, IsSeqFacts
          <6>5. QED BY <6>2, <6>3, <6>4 DEF TakenIn
        <5>2. QED BY <5>1
      <4> HIDE DEF Good
      <4>4. Good(s)
        BY <2>1, <4>2
      <4>5. QED BY <4>1, <4>3, <4>4 DEF Good
    <3>3. QED BY <3>1, <3>2
  <2>3. m \in 0 .. n
    BY <1>2
  <2> HIDE DEF Good
  <2>4. QED BY <2>2, <2>3
<1> HIDE DEF H
<1>5. \A i \in 0 .. n : i \in H
  BY <1>2, <1>3, <1>4, UpTo
<1>6. n \in H
  BY <1>2, <1>5
<1> HIDE DEF Good
<1>7. \A q \in 1 .. n : q > n - n => Good(q)
  BY <1>6 DEF H
<1>8. \A q \in 1 .. n : q > n - n
  BY <1>2
<1>9. QED BY <1>1, <1>7, <1>8 DEF Good

\* A column shows what its field does.
LEMMA ShownIn ==
    ASSUME Typed, NEW r \in 1 .. Len(made), NEW leaf, ShownBy(made[r], leaf)
    PROVE  \E c \in Range(made[r].names) : leaf \in Shows(c)
<1>1. PICK k \in 1 .. Len(made[r].names) :
          leaf = [path |-> made[r].names[k].path, at |-> made[r].at + (k - 1) * made[r].each, width |-> made[r].each]
  BY DEF ShownBy
<1> DEFINE c == made[r].names[k]
           leaves(q) == {[path |-> c.path, at |-> made[q].at + (i - 1) * made[q].each, width |-> made[q].each] :
                            i \in {i \in DOMAIN made[q].names : made[q].names[i] = c}}
<1>2. k \in DOMAIN made[r].names /\ c \in Range(made[r].names)
  BY FieldFacts, IsSeqFacts
<1>3. r \in DOMAIN made \ Switches
  <2>1. r \in DOMAIN made
    BY IsSeqFacts DEF Typed
  <2>2. made[r].kind # "switch"
    BY DEF ShownBy
  <2>3. QED BY <2>1, <2>2 DEF Switches
<1>4. leaf \in leaves(r)
  BY <1>1, <1>2
<1>5. Shows(c) = UNION {leaves(q) : q \in DOMAIN made \ Switches}
  BY DEF Shows
<1> HIDE DEF leaves, c
<1>6. leaf \in Shows(c)
  BY <1>3, <1>4, <1>5
<1>7. QED BY <1>2, <1>6

LEMMA LeavesAccounted ==
    ASSUME Typed, Accounted, LeftOut = {}
    PROVE  EveryLeafAccounted
<1>1. SUFFICES ASSUME status = "ready", NEW x \in Places, NEW leaf \in Stores(x)
               PROVE  \/ \E c \in Range(Columns) : leaf \in Shows(c)
                      \/ \E d \in dropped : IsPrefix(d.under, leaf.path)
                      \/ \E id \in x.copies : id.from <= leaf.at /\ leaf.at + leaf.width <= id.to
  BY DEF EveryLeafAccounted
<1>2. Compiles /\ todo = <<>>
  BY <1>1 DEF Typed
<1>3. PICK V : Closing(todo, made, dropped, V)
  BY <1>1 DEF Accounted
<1>4. Held(todo, made, dropped, leaf, x.copies)
  BY <1>2, <1>3, AllStoredHeld
<1>5. CASE Settled(dropped, leaf.path)
  BY <1>5 DEF Settled
<1>6. CASE InsideCopy(leaf, x.copies)
  BY <1>6 DEF InsideCopy
<1>7. ASSUME NEW r \in 1 .. Len(made), ShownBy(made[r], leaf), made[r].into = 1 \/ TakenIn(made, r)
      PROVE  \E c \in Range(Columns) : leaf \in Shows(c)
  <2>1. PICK c \in Range(made[r].names) : leaf \in Shows(c)
    BY <1>7, ShownIn
  <2>2. Range(made[r].names) \subseteq Range(Columns)
    BY <1>7, TakenShown
  <2>3. QED BY <2>1, <2>2
<1>8. \/ Settled(dropped, leaf.path)
      \/ InsideCopy(leaf, x.copies)
      \/ \E r \in 1 .. Len(made) : ShownBy(made[r], leaf) /\ (made[r].into = 1 \/ TakenIn(made, r))
  BY <1>2, <1>4, HeldAtLast
<1>9. QED BY <1>5, <1>6, <1>7, <1>8

\* For every type file, message type, mapping of unions and option: nothing a
\* message stores goes missing quietly (compile_struct, _Builder), unless a
\* tagged union in another one's alternative was left out as a copy of the
\* identifier of that one, which takes all its columns with it.
THEOREM LeavesAccountedAlways == Spec => [](LeftOut = {} => EveryLeafAccounted)
<1>1. Typed /\ Accounted => (LeftOut = {} => EveryLeafAccounted)
  BY LeavesAccounted
<1>2. QED BY <1>1, TypedAlways, AccountedAlways, PTL
=============================================================================
