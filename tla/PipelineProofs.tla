--------------------------- MODULE PipelineProofs ---------------------------
(***************************************************************************)
(* Proofs about extracting types and loading them: for every build,        *)
(* mapping and session.                                                    *)
(***************************************************************************)
EXTENDS Pipeline, DictionaryProofs, RegistryProofs

-----------------------------------------------------------------------------
(* What the reader's operators return.                                      *)

\* The size of an array of numbered extents is a number.
LEMMA TotalSizeType ==
    ASSUME NEW size \in Int, NEW dims \in Seq(Int)
    PROVE  TotalSize(size, dims) \in Int
<1> DEFINE step == [i \in 1 .. Len(dims) |-> [r \in Int |-> r * dims[i]]]
           total == CHOOSE f : f = [n \in 0 .. Len(dims) |-> IF n = 0 THEN size ELSE f[n - 1] * dims[n]]
<1>1. TotalSize(size, dims) = total[Len(dims)]
  BY DEF TotalSize
<1>2. Len(dims) \in Nat /\ Len(dims) \in 0 .. Len(dims) /\ \A i \in 1 .. Len(dims) : dims[i] \in Int
  OBVIOUS
<1>3. \A i \in 1 .. Len(dims) : \A r \in Int : r * dims[i] \in Int
  BY <1>2
<1>4. step \in [1 .. Len(dims) -> [Int -> Int]] /\ \A i \in 1 .. Len(dims) : \A r \in Int : step[i][r] = r * dims[i]
  BY <1>3
<1> HIDE DEF step
<1>5. PICK g \in [0 .. Len(dims) -> Int] : \A i \in 0 .. Len(dims) : g[i] = IF i = 0 THEN size ELSE step[i][g[i - 1]]
  <2> DEFINE N == Len(dims)
             V == Int
  <2>1. N \in Nat /\ size \in V /\ step \in Steps(V, N)
    BY <1>2, <1>4 DEF Steps
  <2> HIDE DEF N, V
  <2>2. \E g \in [0 .. N -> V] : \A i \in 0 .. N : g[i] = IF i = 0 THEN size ELSE step[i][g[i - 1]]
    BY <2>1, RecursionExists
  <2>3. QED BY <2>2 DEF N, V
<1>6. g = [n \in 0 .. Len(dims) |-> IF n = 0 THEN size ELSE g[n - 1] * dims[n]]
  <2>1. \A i \in 0 .. Len(dims) : i # 0 => i \in 1 .. Len(dims) /\ i - 1 \in 0 .. Len(dims)
    BY <1>2
  <2>2. \A i \in 0 .. Len(dims) : g[i] = IF i = 0 THEN size ELSE g[i - 1] * dims[i]
    BY <1>4, <1>5, <2>1
  <2>3. QED BY <2>2
<1>7. total = [n \in 0 .. Len(dims) |-> IF n = 0 THEN size ELSE total[n - 1] * dims[n]]
  BY <1>6
<1> HIDE DEF total
<1>8. \A i \in 0 .. Len(dims) : total[i] = IF i = 0 THEN size ELSE total[i - 1] * dims[i]
  BY <1>7
<1> DEFINE B == {i \in 0 .. Len(dims) : total[i] \notin Int}
<1>9. B = {}
  <2>1. SUFFICES ASSUME B # {} PROVE FALSE
    OBVIOUS
  <2>2. PICK m \in B : \A k \in B : m <= k
    <3>1. B \subseteq Nat OBVIOUS
    <3> HIDE DEF B
    <3>2. QED BY <3>1, <2>1, LeastOf
  <2>3. m \in 0 .. Len(dims) /\ m # 0
    BY <1>2, <1>8
  <2>4. m \in 1 .. Len(dims) /\ m - 1 \in 0 .. Len(dims) /\ ~(m <= m - 1)
    BY <2>3, <1>2
  <2>5. total[m - 1] \in Int
    BY <2>2, <2>4
  <2>6. total[m] = total[m - 1] * dims[m]
    BY <2>3, <1>8
  <2>7. QED BY <2>4, <2>5, <2>6, <1>3
<1>10. QED BY <1>1, <1>2, <1>9

\* Where in n things each stands is some order of all of them, when no two stand
\* in one place.
LEMMA PlacesAreTaken ==
    ASSUME NEW n \in Nat, NEW place \in [1 .. n -> 1 .. n],
           \A i, j \in 1 .. n : place[i] = place[j] => i = j
    PROVE  \A p \in 1 .. n : \E j \in 1 .. n : place[j] = p
<1>1. IsFiniteSet(1 .. n)
  BY FS_Interval
<1>2. place \in Injection(1 .. n, 1 .. n)
  BY DEF Injection, IsInjective
<1>3. place \in Surjection(1 .. n, 1 .. n)
  BY <1>1, <1>2, FS_Injection
<1>4. QED BY <1>3 DEF Surjection

\* Sorting members by their bytes gives the same members, as many.
LEMMA SortedType ==
    ASSUME NEW S, NEW ms \in Seq(S), \A i \in DOMAIN ms : Byte(ms[i]) \in Int
    PROVE  Sorted(ms) \in Seq(S)
<1> DEFINE n == Len(ms)
           before(i, j) == \/ Byte(ms[i]) < Byte(ms[j])
                           \/ Byte(ms[i]) = Byte(ms[j]) /\ i <= j
           upTo(j) == {i \in DOMAIN ms : before(i, j)}
           place == [j \in 1 .. n |-> Cardinality(upTo(j))]
<1>1. n \in Nat /\ DOMAIN ms = 1 .. n /\ \A i \in 1 .. n : Byte(ms[i]) \in Int
  OBVIOUS
<1>2. IsFiniteSet(1 .. n) /\ Cardinality(1 .. n) = n
  <2> HIDE DEF n
  <2>1. IsFiniteSet(1 .. n) /\ Cardinality(1 .. n) = IF 1 > n THEN 0 ELSE n - 1 + 1
    BY <1>1, FS_Interval
  <2>2. QED BY <1>1, <2>1
<1>3. Sorted(ms) = [p \in 1 .. n |-> ms[CHOOSE j \in 1 .. n : Cardinality(upTo(j)) = p]]
  BY <1>1 DEF Sorted
<1>4. /\ \A j \in 1 .. n : before(j, j)
      /\ \A i, j \in 1 .. n : i # j => before(i, j) \/ before(j, i)
      /\ \A i, j \in 1 .. n : i # j => ~(before(i, j) /\ before(j, i))
      /\ \A i, j, k \in 1 .. n : before(i, j) /\ before(j, k) => before(i, k)
  BY <1>1
<1> HIDE DEF before
<1>5. \A j \in 1 .. n : upTo(j) \subseteq 1 .. n /\ j \in upTo(j)
  BY <1>1, <1>4
<1>6. ASSUME NEW i \in 1 .. n, NEW j \in 1 .. n, i # j, before(i, j)
      PROVE  Cardinality(upTo(i)) # Cardinality(upTo(j))
  <2>1. upTo(i) \subseteq upTo(j)
    BY <1>1, <1>4, <1>6
  <2>2. j \in upTo(j) /\ j \notin upTo(i)
    BY <1>1, <1>4, <1>6
  <2>3. upTo(j) \subseteq 1 .. n
    BY <1>5
  <2> HIDE DEF upTo, n
  <2>4. IsFiniteSet(upTo(j))
    BY <2>3, <1>2, FS_Subset
  <2>5. Cardinality(upTo(j)) = Cardinality(upTo(i)) => upTo(j) = upTo(i)
    BY <2>1, <2>4, FS_Subset
  <2>6. QED BY <2>2, <2>5
<1>7. ASSUME NEW j \in 1 .. n
      PROVE  Cardinality(upTo(j)) \in 1 .. n
  <2>1. upTo(j) \subseteq 1 .. n /\ j \in upTo(j)
    BY <1>5
  <2> HIDE DEF upTo, n
  <2>2. IsFiniteSet(upTo(j)) /\ Cardinality(upTo(j)) <= n
    BY <2>1, <1>2, FS_Subset
  <2>3. Cardinality(upTo(j)) \in Nat /\ Cardinality(upTo(j)) # 0
    BY <2>1, <2>2, FS_CardinalityType, FS_EmptySet
  <2>4. QED BY <2>2, <2>3, <1>1
<1> HIDE DEF upTo
<1>8. place \in [1 .. n -> 1 .. n]
  BY <1>7
<1>9. \A i, j \in 1 .. n : place[i] = place[j] => i = j
  BY <1>4, <1>6
<1>10. \A p \in 1 .. n : \E j \in 1 .. n : Cardinality(upTo(j)) = p
  <2>1. \A p \in 1 .. n : \E j \in 1 .. n : place[j] = p
    <3> HIDE DEF place, n
    <3>1. QED BY <1>1, <1>8, <1>9, PlacesAreTaken
  <2>2. QED BY <2>1
<1> DEFINE from(p) == CHOOSE j \in 1 .. n : Cardinality(upTo(j)) = p
<1>11. \A p \in 1 .. n : from(p) \in 1 .. n
  BY <1>10
<1>12. Sorted(ms) = [p \in 1 .. n |-> ms[from(p)]]
  BY <1>3
<1>13. \A j \in 1 .. n : ms[j] \in S
  BY <1>1
<1> HIDE DEF from, n
<1>14. \A p \in 1 .. n : ms[from(p)] \in S
  BY <1>11, <1>13
<1>15. QED BY <1>1, <1>12, <1>14

\* What a chain of typedefs ends at is a type of the registry, or there is none.
LEMMA ResolveType ==
    ASSUME NEW key
    PROVE  \/ Resolve(types, key) = Absent
           \/ \E k \in DOMAIN types : Resolve(types, key) = types[k] /\ types[k].kind # "typedef"
BY DEF Resolve, Node

-----------------------------------------------------------------------------
(* What the reader keeps true of the registry and of the calls.             *)

\* Members of types whose keys are in K.
MembersOf(K) == [name : {DieName(c) : c \in DOMAIN Dies}, offset : Int, type : K, bits : Int, bit : Int]

\* A type that is built from the types K.
BuiltFrom(node, K) ==
    /\ IsComposite(node) => node.members \in Seq(MembersOf(K))
    /\ node.kind = "array" => node.elem \in K
    /\ node.kind = "typedef" => node.target \in K
    /\ node.kind # "typedef" => "size" \in DOMAIN node /\ node.size \in Int

RegistryOK ==
    /\ VOID_KEY \in DOMAIN types /\ types[VOID_KEY] = VoidType
    /\ \A k \in DOMAIN types : BuiltFrom(types[k], DOMAIN types)
    /\ pointer \in Int

KeysOK == DOMAIN keys \subseteq DOMAIN Dies /\ \A d \in DOMAIN keys : keys[d] \in DOMAIN types

Frames(K) == [die : DOMAIN Dies, known : BOOLEAN, left : Seq(DOMAIN Dies), members : Seq(MembersOf(K))]

\* An entry that enters its own name, and one that has entered it already.
Claims(d) == (Dies[d].tag = "typedef" /\ DieName(d) # <<>>) \/ (IsComplete(d) /\ Named(d))

Reserves(call) == IsComplete(call.die) /\ Named(call.die) /\ ~call.known

\* The names of the calls: the ones that are known, and the ones that are to be
\* entered. A composite's stays as it was reserved until the call is over,
\* because no call inside it is to enter the same.
NamesOK ==
    /\ \A i \in DOMAIN calls : calls[i].known => Claims(calls[i].die) /\ OwnKey(calls[i].die) \in DOMAIN types
    /\ \A i \in DOMAIN calls : Claims(calls[i].die) /\ ~calls[i].known => OwnKey(calls[i].die) # VOID_KEY
    /\ \A i \in DOMAIN calls : Reserves(calls[i]) =>
          /\ OwnKey(calls[i].die) \in DOMAIN types
          /\ types[OwnKey(calls[i].die)] = Composite(calls[i].die, <<>>)
    /\ \A i, j \in DOMAIN calls :
          i < j /\ Reserves(calls[i]) /\ Claims(calls[j].die) /\ ~calls[j].known
          => OwnKey(calls[i].die) # OwnKey(calls[j].die)

ReaderInv == RegistryOK /\ KeysOK /\ calls \in Seq(Frames(DOMAIN types)) /\ NamesOK

\* What is built from some types is built from more.
LEMMA BuiltFromMore ==
    ASSUME NEW K, NEW L, K \subseteq L, NEW node, BuiltFrom(node, K)
    PROVE  BuiltFrom(node, L)
<1>1. MembersOf(K) \subseteq MembersOf(L)
  BY DEF MembersOf
<1>2. \A s \in Seq(MembersOf(K)) : s \in Seq(MembersOf(L))
  <2> DEFINE A == MembersOf(K)
             B == MembersOf(L)
  <2>1. A \subseteq B BY <1>1
  <2> HIDE DEF A, B
  <2>2. \A s \in Seq(A) : s \in Seq(B) BY <2>1
  <2>3. QED BY <2>2 DEF A, B
<1>3. QED BY <1>2 DEF BuiltFrom

\* Calls that are right for some types are right for more.
LEMMA FramesOfMore ==
    ASSUME NEW K, NEW L, K \subseteq L, NEW s \in Seq(Frames(K))
    PROVE  s \in Seq(Frames(L))
<1>1. MembersOf(K) \subseteq MembersOf(L)
  BY DEF MembersOf
<1>2. Seq(MembersOf(K)) \subseteq Seq(MembersOf(L))
  <2> DEFINE A == MembersOf(K)
             B == MembersOf(L)
  <2>1. A \subseteq B BY <1>1
  <2> HIDE DEF A, B
  <2>2. Seq(A) \subseteq Seq(B) BY <2>1
  <2>3. QED BY <2>2 DEF A, B
<1>3. Frames(K) \subseteq Frames(L)
  BY <1>2 DEF Frames
<1> DEFINE A == Frames(K)
           B == Frames(L)
<1>4. A \subseteq B /\ s \in Seq(A) BY <1>3
<1> HIDE DEF A, B
<1>5. s \in Seq(B) BY <1>4
<1>6. QED BY <1>5 DEF B

\* The size of a type is a number.
LEMMA SizesAreNumbers ==
    ASSUME RegistryOK, NEW key
    PROVE  SizeOf(types, key) \in Int /\ SizeOr0(types, key) \in Int
<1>1. CASE Resolve(types, key) = Absent
  BY <1>1 DEF SizeOf, SizeOr0, NoSize
<1>2. CASE \E k \in DOMAIN types : Resolve(types, key) = types[k] /\ types[k].kind # "typedef"
  <2>1. PICK k \in DOMAIN types : Resolve(types, key) = types[k] /\ types[k].kind # "typedef"
    BY <1>2
  <2>2. types[k].size \in Int
    BY <2>1 DEF RegistryOK, BuiltFrom
  <2>3. QED BY <2>1, <2>2 DEF SizeOf, SizeOr0, NoSize
<1>3. QED BY <1>1, <1>2, ResolveType

\* Entering a type that is built from what is there keeps the registry right,
\* whether a type of its name is kept or gives way.
LEMMA EnteringKeeps ==
    ASSUME RegistryOK, NEW key, NEW node, BuiltFrom(node, DOMAIN types \cup {key}), key # VOID_KEY \/ types' = PutNew(types, key, node),
           types' = Put(types, key, node) \/ types' = PutNew(types, key, node), pointer' \in Int
    PROVE  RegistryOK' /\ DOMAIN types' = DOMAIN types \cup {key}
             /\ \A k \in DOMAIN types : k # key => types'[k] = types[k]
<1>1. /\ DOMAIN types' = DOMAIN types \cup {key}
      /\ \A k \in DOMAIN types : k # key => types'[k] = types[k]
      /\ types'[key] = node \/ (key \in DOMAIN types /\ types'[key] = types[key])
      /\ types' = PutNew(types, key, node) => \A k \in DOMAIN types : types'[k] = types[k]
  BY DEF Put, PutNew
<1>2. VOID_KEY \in DOMAIN types' /\ types'[VOID_KEY] = VoidType
  BY <1>1 DEF RegistryOK
<1>3. ASSUME NEW k \in DOMAIN types'
      PROVE  BuiltFrom(types'[k], DOMAIN types')
  <2>1. CASE types'[k] = node
    BY <1>1, <2>1
  <2>2. CASE k \in DOMAIN types /\ types'[k] = types[k]
    <3>1. BuiltFrom(types[k], DOMAIN types)
      BY <2>2 DEF RegistryOK
    <3>2. BuiltFrom(types[k], DOMAIN types')
      BY <1>1, <3>1, BuiltFromMore
    <3>3. QED BY <2>2, <3>2
  <2>3. QED BY <1>1, <2>1, <2>2
<1>4. QED BY <1>1, <1>2, <1>3 DEF RegistryOK

-----------------------------------------------------------------------------
(* Calls keep it.                                                           *)

\* What is read of an entry is entries.
LEMMA EntriesToRead ==
    ASSUME NEW d \in DOMAIN Dies
    PROVE  ToRead(d) \in Seq(DOMAIN Dies) /\ Known(d) \in BOOLEAN
<1> DEFINE D == DOMAIN Dies
           placed == {c \in D : Placed(c, d)}
<1>1. Keeping(Dies[d].children, placed) \in Seq(D \cap placed)
  <2>1. Dies[d].children \in Seq(D)
    BY DiesAssumption
  <2> HIDE DEF D, placed
  <2>2. QED BY <2>1, KeepingType
<1>2. Keeping(Dies[d].children, placed) \in Seq(D)
  <2>1. D \cap placed \subseteq D OBVIOUS
  <2> DEFINE A == D \cap placed
  <2>2. A \subseteq D OBVIOUS
  <2> HIDE DEF D, placed, A
  <2>3. \A s \in Seq(A) : s \in Seq(D) BY <2>2
  <2>4. QED BY <1>1, <2>3 DEF A
<1>3. <<d>> \in Seq(D) /\ <<>> \in Seq(D)
  OBVIOUS
<1>4. ToRead(d) \in {Keeping(Dies[d].children, placed), <<d>>, <<>>}
  BY DEF ToRead
<1> HIDE DEF D, placed
<1>5. ToRead(d) \in Seq(D)
  BY <1>2, <1>3, <1>4
<1>6. Known(d) \in BOOLEAN
  BY DEF Known
<1>7. QED BY <1>5, <1>6 DEF D

\* A name's type, before its members are read.
LEMMA CompositeBuilt ==
    ASSUME NEW d \in DOMAIN Dies, NEW K, NEW members \in Seq(MembersOf(K))
    PROVE  BuiltFrom(Composite(d, members), K)
<1>1. Dies[d].size \in Int
  BY DiesAssumption
<1>2. Composite(d, members).kind \in {"struct", "union"} /\ Composite(d, members).members = members
      /\ "size" \in DOMAIN Composite(d, members) /\ Composite(d, members).size = Dies[d].size
  BY DEF Composite
<1>3. QED BY <1>1, <1>2 DEF BuiltFrom

LEMMA CallKeeps ==
    ASSUME ReaderInv, NEW d \in DOMAIN Dies, Call(d), UNCHANGED <<keys, anon, pointer>>
    PROVE  ReaderInv' /\ \A k \in DOMAIN types : k \in DOMAIN types' /\ types'[k] = types[k]
<1> DEFINE f == [die |-> d, known |-> Known(d), left |-> ToRead(d), members |-> <<>>]
           node == Composite(d, <<>>)
<1>1. /\ RegistryOK' /\ DOMAIN types \subseteq DOMAIN types'
      /\ \A k \in DOMAIN types : types'[k] = types[k]
      /\ IsComplete(d) /\ Named(d) => OwnKey(d) \in DOMAIN types'
      /\ IsComplete(d) /\ Named(d) /\ OwnKey(d) \notin DOMAIN types => types'[OwnKey(d)] = node
  <2>1. CASE IsComplete(d) /\ Named(d)
    <3>1. types' = PutNew(types, OwnKey(d), node) /\ pointer' \in Int /\ RegistryOK
      BY <2>1 DEF Call, ReaderInv, RegistryOK
    <3>2. BuiltFrom(node, DOMAIN types \cup {OwnKey(d)})
      <4>1. <<>> \in Seq(MembersOf(DOMAIN types \cup {OwnKey(d)})) OBVIOUS
      <4>2. QED BY <4>1, CompositeBuilt
    <3> HIDE DEF node
    <3>3. RegistryOK' /\ DOMAIN types' = DOMAIN types \cup {OwnKey(d)}
      BY <3>1, <3>2, EnteringKeeps
    <3>4. /\ \A k \in DOMAIN types : types'[k] = types[k]
          /\ OwnKey(d) \notin DOMAIN types => types'[OwnKey(d)] = node
      BY <3>1 DEF PutNew, Put
    <3>5. QED BY <3>3, <3>4
  <2>2. CASE ~(IsComplete(d) /\ Named(d))
    BY <2>2 DEF Call, ReaderInv, RegistryOK, BuiltFrom
  <2>3. QED BY <2>1, <2>2
<1>2. KeysOK'
  BY <1>1 DEF ReaderInv, KeysOK
<1>3. calls \in Seq(Frames(DOMAIN types')) /\ f \in Frames(DOMAIN types') /\ calls' = Append(calls, f)
  <2>1. calls \in Seq(Frames(DOMAIN types'))
    BY <1>1, FramesOfMore DEF ReaderInv
  <2>2. f \in Frames(DOMAIN types')
    <3>1. <<>> \in Seq(MembersOf(DOMAIN types')) OBVIOUS
    <3>2. QED BY <3>1, EntriesToRead DEF Frames
  <2>3. QED BY <2>1, <2>2 DEF Call
<1>4. PICK n \in Nat :
      /\ n = Len(calls) /\ DOMAIN calls = 1 .. n /\ DOMAIN calls' = 1 .. n + 1
      /\ \A i \in 1 .. n : calls'[i] = calls[i]
      /\ calls'[n + 1] = f /\ calls' \in Seq(Frames(DOMAIN types'))
  <2> DEFINE F == Frames(DOMAIN types')
  <2>1. calls \in Seq(F) /\ f \in F /\ calls' = Append(calls, f)
    BY <1>3
  <2> HIDE DEF f, F
  <2>2. calls' \in Seq(F) /\ Len(calls) \in Nat
    BY <2>1
  <2>3. QED BY <2>1, <2>2 DEF F
<1>5. f.die = d /\ f.known = Known(d)
  OBVIOUS
<1>6. Claims(d) /\ ~Known(d) => OwnKey(d) \notin DOMAIN types
  BY DEF Claims, Known
<1>7. Known(d) => Claims(d) /\ OwnKey(d) \in DOMAIN types
  BY DEF Claims, Known
<1> HIDE DEF f, node
<1>8. NamesOK'
  <2>1. ASSUME NEW i \in 1 .. n
        PROVE  /\ calls'[i].known => Claims(calls[i].die)' /\ OwnKey(calls[i].die)' \in DOMAIN types'
               /\ Claims(calls[i].die)' /\ ~calls'[i].known => OwnKey(calls[i].die)' # VOID_KEY
               /\ Reserves(calls[i])' => /\ OwnKey(calls[i].die)' \in DOMAIN types'
                                        /\ types'[OwnKey(calls[i].die)'] = Composite(calls'[i].die, <<>>)
    BY <1>1, <1>4 DEF ReaderInv, NamesOK, Reserves, Claims, Named, OwnKey
  <2>2. /\ calls'[n + 1].known => Claims(calls[n + 1].die)' /\ OwnKey(calls[n + 1].die)' \in DOMAIN types'
        /\ Claims(calls[n + 1].die)' /\ ~calls'[n + 1].known => OwnKey(calls[n + 1].die)' # VOID_KEY
        /\ Reserves(calls[n + 1])' => /\ OwnKey(calls[n + 1].die)' \in DOMAIN types'
                                     /\ types'[OwnKey(calls[n + 1].die)'] = Composite(calls'[n + 1].die, <<>>)
    BY <1>1, <1>4, <1>5, <1>6, <1>7 DEF ReaderInv, RegistryOK, Reserves, Claims, Named, OwnKey, node
  <2>3. ASSUME NEW i \in 1 .. n + 1, NEW j \in 1 .. n + 1, i < j, Reserves(calls[i])', Claims(calls[j].die)', ~calls'[j].known
        PROVE  OwnKey(calls[i].die)' # OwnKey(calls[j].die)'
    <3>1. CASE j = n + 1
      <4>1. i \in 1 .. n /\ calls'[i] = calls[i] /\ OwnKey(calls[i].die)' \in DOMAIN types
        BY <1>4, <2>3 DEF ReaderInv, NamesOK, Reserves, Named, OwnKey
      <4>2. OwnKey(calls[j].die)' \notin DOMAIN types
        BY <3>1, <2>3, <1>4, <1>5, <1>6 DEF Claims, Named, OwnKey
      <4>3. QED BY <4>1, <4>2
    <3>2. CASE j # n + 1
      <4>1. i \in 1 .. n /\ j \in 1 .. n /\ calls'[i] = calls[i] /\ calls'[j] = calls[j]
        BY <1>4, <2>3, <3>2
      <4>2. QED BY <4>1, <1>4, <2>3 DEF ReaderInv, NamesOK, Reserves, Claims, Named, OwnKey
    <3>3. QED BY <3>1, <3>2
  <2>4. \A i \in DOMAIN calls' : i \in 1 .. n \/ i = n + 1
    BY <1>4
  <2>5. QED BY <1>4, <2>1, <2>2, <2>3, <2>4 DEF NamesOK
<1>9. QED BY <1>1, <1>2, <1>4, <1>8 DEF ReaderInv

\* A call that returns a type there is leaves the calls around it right, if what
\* it changed was the type of its own name.
LEMMA ReturnKeeps ==
    ASSUME ReaderInv, calls # <<>>, NEW key, Return(key), key \in DOMAIN types', RegistryOK', UNCHANGED anon,
           DOMAIN types \subseteq DOMAIN types',
           \A k \in DOMAIN types : \/ types'[k] = types[k]
                                   \/ Claims(Top.die) /\ ~Top.known /\ k = OwnKey(Top.die)
    PROVE  ReaderInv'
<1>1. PICK n \in Nat \ {0} :
      /\ n = Len(calls) /\ DOMAIN calls = 1 .. n /\ DOMAIN calls' = 1 .. n - 1
      /\ \A i \in 1 .. n - 1 : calls'[i] = calls[i]
      /\ Top = calls[n] /\ Top \in Frames(DOMAIN types)
      /\ calls' \in Seq(Frames(DOMAIN types'))
  <2> DEFINE F == Frames(DOMAIN types)
             G == Frames(DOMAIN types')
  <2>1. calls \in Seq(F) /\ calls' = SubSeq(calls, 1, Len(calls) - 1)
    BY DEF ReaderInv, Return
  <2>2. calls \in Seq(G)
    BY FramesOfMore DEF ReaderInv
  <2> HIDE DEF F, G
  <2>3. Len(calls) \in Nat \ {0} /\ DOMAIN calls = 1 .. Len(calls)
    BY <2>1
  <2>4. calls' \in Seq(G) /\ Len(calls') = Len(calls) - 1 /\ \A i \in 1 .. Len(calls) - 1 : calls'[i] = calls[i]
    BY <2>1, <2>2, <2>3
  <2>5. DOMAIN calls' = 1 .. Len(calls) - 1
    BY <2>4
  <2>6. calls[Len(calls)] \in F
    BY <2>1, <2>3
  <2>7. QED BY <2>3, <2>4, <2>5, <2>6 DEF F, G, Top
<1>2. Top.die \in DOMAIN Dies
  BY <1>1 DEF Frames
<1>3. KeysOK'
  <2>1. keys' = Put(keys, Top.die, key)
    BY DEF Return
  <2>2. DOMAIN keys' = DOMAIN keys \cup {Top.die} /\ \A d \in DOMAIN keys' : keys'[d] = key \/ (d \in DOMAIN keys /\ keys'[d] = keys[d])
    BY <2>1 DEF Put
  <2>3. QED BY <1>2, <2>2 DEF KeysOK, ReaderInv
<1>4. NamesOK'
  <2>1. ASSUME NEW i \in 1 .. n - 1
        PROVE  /\ calls'[i].known => Claims(calls[i].die)' /\ OwnKey(calls[i].die)' \in DOMAIN types'
               /\ Claims(calls[i].die)' /\ ~calls'[i].known => OwnKey(calls[i].die)' # VOID_KEY
               /\ Reserves(calls[i])' => /\ OwnKey(calls[i].die)' \in DOMAIN types'
                                        /\ types'[OwnKey(calls[i].die)'] = Composite(calls'[i].die, <<>>)
    <3>1. i \in DOMAIN calls /\ n \in DOMAIN calls /\ i < n /\ calls'[i] = calls[i] /\ calls[n] = Top
      BY <1>1
    <3>2. calls[i].known => Claims(calls[i].die) /\ OwnKey(calls[i].die) \in DOMAIN types
      BY <3>1 DEF ReaderInv, NamesOK
    <3>3. Claims(calls[i].die) /\ ~calls[i].known => OwnKey(calls[i].die) # VOID_KEY
      BY <3>1 DEF ReaderInv, NamesOK
    <3>4. Reserves(calls[i]) => OwnKey(calls[i].die) \in DOMAIN types /\ types[OwnKey(calls[i].die)] = Composite(calls[i].die, <<>>)
      BY <3>1 DEF ReaderInv, NamesOK
    <3>5. Reserves(calls[i]) /\ Claims(Top.die) /\ ~Top.known => OwnKey(calls[i].die) # OwnKey(Top.die)
      BY <3>1 DEF ReaderInv, NamesOK
    <3>6. Reserves(calls[i]) => types'[OwnKey(calls[i].die)] = Composite(calls[i].die, <<>>)
      BY <3>4, <3>5
    <3>7. QED BY <3>1, <3>2, <3>3, <3>4, <3>6 DEF Reserves, Claims, Named, OwnKey
  <2>2. ASSUME NEW i \in 1 .. n - 1, NEW j \in 1 .. n - 1, i < j, Reserves(calls[i])', Claims(calls[j].die)', ~calls'[j].known
        PROVE  OwnKey(calls[i].die)' # OwnKey(calls[j].die)'
    <3>1. i \in DOMAIN calls /\ j \in DOMAIN calls /\ calls'[i] = calls[i] /\ calls'[j] = calls[j]
      BY <1>1
    <3>2. QED BY <3>1, <2>2 DEF ReaderInv, NamesOK, Reserves, Claims, Named, OwnKey
  <2>3. QED BY <1>1, <2>1, <2>2 DEF NamesOK
<1>5. QED BY <1>1, <1>3, <1>4 DEF ReaderInv

\* The innermost call.
LEMMA TopType ==
    ASSUME ReaderInv, calls # <<>>
    PROVE  /\ Top \in Frames(DOMAIN types) /\ Top.die \in DOMAIN Dies
           /\ Top.known => Claims(Top.die) /\ OwnKey(Top.die) \in DOMAIN types
           /\ Claims(Top.die) /\ ~Top.known => OwnKey(Top.die) # VOID_KEY
           /\ Reserves(Top) => OwnKey(Top.die) \in DOMAIN types /\ types[OwnKey(Top.die)] = Composite(Top.die, <<>>)
<1> DEFINE F == Frames(DOMAIN types)
<1>1. calls \in Seq(F)
  BY DEF ReaderInv
<1> HIDE DEF F
<1>2. Len(calls) \in DOMAIN calls /\ calls[Len(calls)] \in F
  BY <1>1
<1>3. Top \in F
  BY <1>2 DEF Top
<1>4. Top \in Frames(DOMAIN types)
  BY <1>3 DEF F
<1>5. Top.die \in DOMAIN Dies
  BY <1>4 DEF Frames
<1>6. QED BY <1>2, <1>4, <1>5 DEF ReaderInv, NamesOK, Top

\* The type an entry refers to is registered, read or not.
LEMMA AnswersRegistered ==
    ASSUME ReaderInv, NEW ref
    PROVE  AnswerTo(ref) \in DOMAIN types
BY DEF ReaderInv, RegistryOK, KeysOK, AnswerTo

-----------------------------------------------------------------------------
(* Members.                                                                 *)

LEMMA MemberReadType ==
    ASSUME RegistryOK, NEW c \in DOMAIN Dies, NEW key \in DOMAIN types
    PROVE  MemberRead(c, key) \in MembersOf(DOMAIN types)
<1> DEFINE die == Dies[c]
           offset == IF die.offset = NoSize THEN 0 ELSE die.offset
           bit == BitOffset(c, offset, key)
           plain == [name |-> DieName(c), offset |-> offset, type |-> key, bits |-> NoSize, bit |-> NoSize]
<1>1. /\ die.offset \in Int /\ die.size \in Int /\ die.dataBit \in Int /\ die.legacyBit \in Int /\ die.bits \in Int
      /\ NoSize \in Int
  BY DiesAssumption DEF NoSize
<1>2. offset \in Int
  BY <1>1
<1>3. SizeOr0(types, key) \in Int
  BY SizesAreNumbers
<1> HIDE DEF offset
<1>4. bit \in Int
  <2>1. \A x, y \in Int : x * 8 \in Int /\ x + y \in Int /\ x - y \in Int OBVIOUS
  <2> DEFINE storage == IF die.size # NoSize THEN die.size ELSE SizeOr0(types, key)
  <2>2. storage \in Int BY <1>1, <1>3
  <2> HIDE DEF storage
  <2>3. offset * 8 + storage * 8 - die.legacyBit - die.bits \in Int /\ offset * 8 + die.legacyBit \in Int
    BY <2>2, <1>1, <1>2
  <2>4. bit \in {die.dataBit, offset * 8 + storage * 8 - die.legacyBit - die.bits, offset * 8 + die.legacyBit}
    BY DEF BitOffset, storage
  <2>5. QED BY <1>1, <2>3, <2>4
<1> HIDE DEF bit
<1>5. bit \div 8 \in Int
  BY <1>4
<1>6. plain \in MembersOf(DOMAIN types)
  BY <1>1, <1>2 DEF MembersOf
<1>7. [plain EXCEPT !.offset = bit \div 8, !.bits = die.bits, !.bit = bit] \in MembersOf(DOMAIN types)
  BY <1>1, <1>4, <1>5 DEF MembersOf
<1>8. MemberRead(c, key) \in {plain, [plain EXCEPT !.offset = bit \div 8, !.bits = die.bits, !.bit = bit]}
  BY DEF MemberRead, bit, offset
<1>9. QED BY <1>6, <1>7, <1>8

LEMMA InheritedType ==
    ASSUME RegistryOK, NEW c \in DOMAIN Dies, NEW key
    PROVE  Inherited(c, key) \in Seq(MembersOf(DOMAIN types))
<1> DEFINE base == Resolve(types, key)
           at == Dies[c].offset
           moved(m) == [m EXCEPT !.offset = @ + at, !.bit = IF @ = NoSize THEN NoSize ELSE @ + at * 8]
           S == MembersOf(DOMAIN types)
<1>1. at \in Int
  BY DiesAssumption
<1>2. ASSUME NEW m \in S
      PROVE  moved(m) \in S
  <2>1. m.offset + at \in Int /\ (IF m.bit = NoSize THEN NoSize ELSE m.bit + at * 8) \in Int
    <3>1. m.offset \in Int /\ m.bit \in Int /\ NoSize \in Int
      BY DEF MembersOf, NoSize
    <3>2. QED BY <1>1, <3>1
  <2>2. QED BY <2>1 DEF MembersOf
<1>3. CASE IsComposite(base)
  <2>1. base.members \in Seq(S)
    BY <1>3, ResolveType DEF RegistryOK, BuiltFrom, Absent, IsComposite
  <2>2. Inherited(c, key) = [i \in DOMAIN base.members |-> moved(base.members[i])]
    BY <1>3 DEF Inherited
  <2> DEFINE ms == base.members
  <2>3. ms \in Seq(S) /\ Inherited(c, key) = [i \in DOMAIN ms |-> moved(ms[i])]
    BY <2>1, <2>2
  <2> HIDE DEF base, moved, S, ms
  <2>4. DOMAIN ms = 1 .. Len(ms) /\ Len(ms) \in Nat /\ \A i \in 1 .. Len(ms) : ms[i] \in S
    BY <2>3
  <2>5. \A i \in 1 .. Len(ms) : moved(ms[i]) \in S
    BY <2>4, <1>2
  <2>6. Inherited(c, key) \in Seq(S)
    BY <2>3, <2>4, <2>5
  <2>7. QED BY <2>6 DEF S
<1>4. CASE ~IsComposite(base)
  BY <1>4 DEF Inherited
<1>5. QED BY <1>3, <1>4

LEMMA TakeChildKeeps ==
    ASSUME ReaderInv, TakeChild, UNCHANGED <<anon, pointer>>
    PROVE  ReaderInv'
<1> DEFINE c == Head(Top.left)
           more == IF Dies[c].tag = "member" THEN <<MemberRead(c, Answer)>> ELSE Inherited(c, Answer)
           S == MembersOf(DOMAIN types)
           F == Frames(DOMAIN types)
           f == [Top EXCEPT !.left = Tail(Top.left), !.members = Top.members \o more]
<1>1. calls # <<>> /\ Top.left # <<>> /\ Top \in F /\ UNCHANGED <<types, keys>>
  BY TopType DEF TakeChild, Asks
<1>2. c \in DOMAIN Dies /\ Tail(Top.left) \in Seq(DOMAIN Dies)
  <2> DEFINE D == DOMAIN Dies
             left == Top.left
  <2>1. left \in Seq(D) /\ left # <<>>
    BY <1>1 DEF Frames
  <2> HIDE DEF D, left
  <2>2. Head(left) \in D /\ Tail(left) \in Seq(D)
    BY <2>1
  <2>3. QED BY <2>2 DEF D, left
<1>3. more \in Seq(S)
  <2>1. Answer \in DOMAIN types
    BY AnswersRegistered DEF Answer
  <2>2. MemberRead(c, Answer) \in S
    BY <1>2, <2>1, MemberReadType DEF ReaderInv
  <2>3. <<MemberRead(c, Answer)>> \in Seq(S)
    BY <2>2
  <2>4. Inherited(c, Answer) \in Seq(S)
    BY <1>2, InheritedType DEF ReaderInv
  <2>5. QED BY <2>3, <2>4
<1>4. f \in F /\ f.die = Top.die /\ f.known = Top.known
  <2>1. Top.members \in Seq(S)
    BY <1>1 DEF Frames
  <2> DEFINE ms == Top.members \o more
  <2>2. ms \in Seq(S)
    <3> HIDE DEF S, more
    <3>1. QED BY <1>3, <2>1
  <2> HIDE DEF ms, more, c
  <2>3. f = [Top EXCEPT !.left = Tail(Top.left), !.members = ms]
    BY DEF ms
  <2>4. QED BY <1>1, <1>2, <2>2, <2>3 DEF Frames
<1>5. calls' = [calls EXCEPT ![Len(calls)] = f]
  BY DEF TakeChild
<1>6. PICK n \in Nat \ {0} :
      /\ n = Len(calls) /\ DOMAIN calls = 1 .. n /\ DOMAIN calls' = 1 .. n /\ calls' \in Seq(F)
      /\ \A i \in 1 .. n : calls'[i].die = calls[i].die /\ calls'[i].known = calls[i].known
  <2> HIDE DEF f, F
  <2>1. calls \in Seq(F)
    BY DEF ReaderInv, F
  <2>2. Len(calls) \in Nat \ {0} /\ DOMAIN calls = 1 .. Len(calls)
    BY <1>1, <2>1
  <2>3. calls' \in Seq(F) /\ DOMAIN calls' = 1 .. Len(calls)
    BY <1>4, <1>5, <2>1, <2>2
  <2>4. \A i \in 1 .. Len(calls) : calls'[i] = IF i = Len(calls) THEN f ELSE calls[i]
    BY <1>5, <2>1, <2>2
  <2>5. QED BY <1>4, <2>2, <2>3, <2>4 DEF Top
<1>7. RegistryOK' /\ KeysOK' /\ calls' \in Seq(Frames(DOMAIN types'))
  <2>1. calls' \in Seq(Frames(DOMAIN types'))
    BY <1>1, <1>6
  <2>2. QED BY <1>1, <2>1 DEF ReaderInv, RegistryOK, KeysOK
<1>8. NamesOK'
  <2>1. ASSUME NEW i \in 1 .. n
        PROVE  /\ calls'[i].known => Claims(calls[i].die)' /\ OwnKey(calls[i].die)' \in DOMAIN types'
               /\ Claims(calls[i].die)' /\ ~calls'[i].known => OwnKey(calls[i].die)' # VOID_KEY
               /\ Reserves(calls[i])' => /\ OwnKey(calls[i].die)' \in DOMAIN types'
                                        /\ types'[OwnKey(calls[i].die)'] = Composite(calls'[i].die, <<>>)
    BY <1>1, <1>6 DEF ReaderInv, NamesOK, Reserves, Claims, Named, OwnKey
  <2>2. ASSUME NEW i \in 1 .. n, NEW j \in 1 .. n, i < j, Reserves(calls[i])', Claims(calls[j].die)', ~calls'[j].known
        PROVE  OwnKey(calls[i].die)' # OwnKey(calls[j].die)'
    BY <1>1, <1>6, <2>2 DEF ReaderInv, NamesOK, Reserves, Claims, Named, OwnKey
  <2>3. QED BY <1>6, <2>1, <2>2 DEF NamesOK
<1>9. QED BY <1>7, <1>8 DEF ReaderInv

-----------------------------------------------------------------------------
(* Building types keeps it.                                                 *)

\* A call returns a type that is registered, and changes no type but that of
\* its own name, and that only if it was new.
Returns(key) ==
    /\ Return(key) /\ key \in DOMAIN types' /\ DOMAIN types \subseteq DOMAIN types'
    /\ \A k \in DOMAIN types : \/ types'[k] = types[k]
                               \/ Claims(Top.die) /\ ~Top.known /\ k = OwnKey(Top.die)

LEMMA UnchangedReturns ==
    ASSUME RegistryOK, UNCHANGED <<types, pointer>>, NEW key \in DOMAIN types, Return(key)
    PROVE  RegistryOK' /\ Returns(key)
BY DEF RegistryOK, Returns

LEMMA RegisterNewReturns ==
    ASSUME RegistryOK, UNCHANGED pointer, NEW key, NEW node, BuiltFrom(node, DOMAIN types), RegisterNew(key, node), Return(key)
    PROVE  RegistryOK' /\ Returns(key)
<1>1. BuiltFrom(node, DOMAIN types \cup {key})
  BY BuiltFromMore
<1>2. types' = PutNew(types, key, node) /\ pointer' \in Int
  BY DEF RegisterNew, RegistryOK
<1>3. RegistryOK' /\ DOMAIN types' = DOMAIN types \cup {key}
  BY <1>1, <1>2, EnteringKeeps
<1>4. \A k \in DOMAIN types : types'[k] = types[k]
  BY <1>2 DEF PutNew, Put
<1>5. QED BY <1>3, <1>4 DEF Returns

LEMMA RegisterReturns ==
    ASSUME ReaderInv, calls # <<>>, UNCHANGED pointer, NEW node, BuiltFrom(node, DOMAIN types),
           Claims(Top.die), ~Top.known, Register(OwnKey(Top.die), node), Return(OwnKey(Top.die))
    PROVE  RegistryOK' /\ Returns(OwnKey(Top.die))
<1>1. PICK key : key = OwnKey(Top.die) /\ key # VOID_KEY
  BY TopType
<1>2. BuiltFrom(node, DOMAIN types \cup {key})
  BY BuiltFromMore
<1>3. types' = Put(types, key, node) /\ pointer' \in Int
  BY <1>1 DEF Register, RegistryOK, ReaderInv
<1>4. RegistryOK' /\ DOMAIN types' = DOMAIN types \cup {key} /\ \A k \in DOMAIN types : k # key => types'[k] = types[k]
  BY <1>1, <1>2, <1>3, EnteringKeeps DEF ReaderInv
<1>5. QED BY <1>1, <1>4 DEF Returns

LEMMA QualifiedReturns ==
    ASSUME ReaderInv, BuildQualified(Top.die), UNCHANGED pointer
    PROVE  RegistryOK' /\ \E key : Returns(key)
BY AnswersRegistered, UnchangedReturns DEF BuildQualified, Answer, ReaderInv

LEMMA BaseReturns ==
    ASSUME ReaderInv, calls # <<>>, BuildBase(Top.die), UNCHANGED pointer
    PROVE  RegistryOK' /\ \E key : Returns(key)
<1>1. PICK d \in DOMAIN Dies : d = Top.die /\ BuildBase(d)
  BY TopType
<1> DEFINE node == [kind |-> "base", size |-> OwnSize(d), encoding |-> BaseEncoding(d)]
<1>2. OwnSize(d) \in Int
  BY DiesAssumption DEF OwnSize
<1>3. BuiltFrom(node, DOMAIN types)
  BY <1>2 DEF BuiltFrom, IsComposite
<1>4. RegisterNew(BaseKey(d), node) /\ Return(BaseKey(d))
  BY <1>1 DEF BuildBase
<1> HIDE DEF node
<1>5. QED BY <1>3, <1>4, RegisterNewReturns DEF ReaderInv

LEMMA TypedefReturns ==
    ASSUME ReaderInv, calls # <<>>, BuildTypedef(Top.die), UNCHANGED pointer
    PROVE  RegistryOK' /\ \E key : Returns(key)
<1>1. PICK d \in DOMAIN Dies : d = Top.die /\ BuildTypedef(d)
  BY TopType
<1> DEFINE node == [kind |-> "typedef", target |-> Answer]
<1>2. Claims(d) /\ OwnKey(d) = Qualify(d) /\ Return(OwnKey(d))
  BY <1>1 DEF BuildTypedef, Claims, OwnKey
<1>3. Answer \in DOMAIN types
  BY AnswersRegistered DEF Answer
<1>4. CASE Top.known \/ Answer = Qualify(d)
  <2>1. OwnKey(d) \in DOMAIN types
    BY <1>1, <1>2, <1>3, <1>4, TopType
  <2>2. UNCHANGED types
    BY <1>1, <1>4 DEF BuildTypedef
  <2>3. QED BY <1>2, <2>1, <2>2, UnchangedReturns DEF ReaderInv
<1>5. CASE ~(Top.known \/ Answer = Qualify(d))
  <2>1. BuiltFrom(node, DOMAIN types)
    BY <1>3 DEF BuiltFrom, IsComposite
  <2>2. Register(OwnKey(d), node)
    BY <1>1, <1>2, <1>5 DEF BuildTypedef
  <2> HIDE DEF node
  <2>3. QED BY <1>1, <1>2, <1>5, <2>1, <2>2, RegisterReturns
<1>6. QED BY <1>4, <1>5

\* The members of a call, sorted, are members.
LEMMA SortedMembers ==
    ASSUME ReaderInv, calls # <<>>
    PROVE  Sorted(Top.members) \in Seq(MembersOf(DOMAIN types))
<1> DEFINE S == MembersOf(DOMAIN types)
           ms == Top.members
<1>1. ms \in Seq(S)
  BY TopType DEF Frames
<1>2. ASSUME NEW i \in DOMAIN ms
      PROVE  Byte(ms[i]) \in Int
  <2>1. ms[i] \in S
    <3> HIDE DEF S, ms
    <3>1. QED BY <1>1
  <2>2. ms[i].offset \in Int /\ ms[i].bit \in Int
    BY <2>1 DEF MembersOf
  <2>3. ms[i].bit \div 8 \in Int
    BY <2>2
  <2>4. QED BY <2>2, <2>3 DEF Byte
<1> HIDE DEF S, ms
<1>3. Sorted(ms) \in Seq(S)
  BY <1>1, <1>2, SortedType
<1>4. QED BY <1>3 DEF S, ms

LEMMA CompositeReturns ==
    ASSUME ReaderInv, calls # <<>>, BuildComposite(Top.die), UNCHANGED pointer
    PROVE  RegistryOK' /\ \E key : Returns(key)
<1>1. PICK d \in DOMAIN Dies : d = Top.die /\ BuildComposite(d) /\ IsComplete(d)
  BY TopType DEF BuildComposite
<1> DEFINE node == Composite(d, Sorted(Top.members))
<1>2. BuiltFrom(node, DOMAIN types)
  BY SortedMembers, CompositeBuilt
<1>3. CASE Top.known
  <2>1. UNCHANGED types /\ Return(OwnKey(d))
    BY <1>1, <1>3 DEF BuildComposite
  <2>2. OwnKey(d) \in DOMAIN types
    BY <1>1, <1>3, TopType
  <2>3. QED BY <2>1, <2>2, UnchangedReturns DEF ReaderInv
<1>4. CASE ~Top.known /\ Named(d)
  <2>1. Register(OwnKey(d), node) /\ Return(OwnKey(d))
    BY <1>1, <1>4 DEF BuildComposite
  <2>2. Claims(d)
    BY <1>1, <1>4 DEF Claims
  <2> HIDE DEF node
  <2>3. QED BY <1>1, <1>2, <1>4, <2>1, <2>2, RegisterReturns
<1>5. CASE ~Top.known /\ ~Named(d)
  <2>1. RegisterNew(AnonKey(node), node) /\ Return(AnonKey(node))
    BY <1>1, <1>5 DEF BuildComposite
  <2> HIDE DEF node
  <2>2. QED BY <1>2, <2>1, RegisterNewReturns DEF ReaderInv
<1>6. QED BY <1>3, <1>4, <1>5

\* The extents of an array are numbers.
LEMMA ExtentsType ==
    ASSUME NEW d \in DOMAIN Dies
    PROVE  Extents(d) \in Seq(Int)
<1> DEFINE T == {c \in DOMAIN Dies : Dies[c].tag = "subrange"}
           D == DOMAIN Dies
           ranges == Keeping(Dies[d].children, T)
<1>1. ranges \in Seq(D \cap T)
  <2>1. Dies[d].children \in Seq(D)
    BY DiesAssumption
  <2> HIDE DEF D, T
  <2>2. QED BY <2>1, KeepingType
<1>2. ASSUME NEW c \in D
      PROVE  Extent(c) \in Int
  <2>1. Dies[c].lower \in Int /\ Dies[c].upper \in Int /\ Dies[c].count \in Int
    BY DiesAssumption
  <2> DEFINE lower == IF Dies[c].lower = NoSize THEN 0 ELSE Dies[c].lower
             count == IF Dies[c].count # NoSize THEN Dies[c].count
                      ELSE IF Dies[c].upper # NoSize THEN Dies[c].upper - lower + 1 ELSE 0
  <2>2. lower \in Int
    BY <2>1
  <2> HIDE DEF lower
  <2>3. count \in Int
    BY <2>1, <2>2
  <2> HIDE DEF count
  <2>4. Extent(c) = IF count < 0 THEN 0 ELSE count
    BY DEF Extent, count, lower
  <2>5. QED BY <2>3, <2>4
<1>3. Extents(d) = IF ranges = <<>> THEN <<0>> ELSE [i \in DOMAIN ranges |-> Extent(ranges[i])]
  BY DEF Extents
<1>4. \A c \in D \cap T : c \in D
  OBVIOUS
<1> DEFINE A == D \cap T
<1>5. ranges \in Seq(A) /\ \A c \in A : Extent(c) \in Int
  BY <1>1, <1>2
<1> HIDE DEF ranges, T, D, A
<1>6. DOMAIN ranges = 1 .. Len(ranges) /\ Len(ranges) \in Nat /\ \A i \in 1 .. Len(ranges) : ranges[i] \in A
  BY <1>5
<1>7. \A i \in 1 .. Len(ranges) : Extent(ranges[i]) \in Int
  BY <1>5, <1>6
<1>8. [i \in DOMAIN ranges |-> Extent(ranges[i])] \in Seq(Int)
  BY <1>6, <1>7
<1>9. <<0>> \in Seq(Int)
  OBVIOUS
<1>10. QED BY <1>3, <1>8, <1>9

LEMMA ArrayReturns ==
    ASSUME ReaderInv, calls # <<>>, BuildArray(Top.die), UNCHANGED pointer
    PROVE  RegistryOK' /\ \E key : Returns(key)
<1>1. PICK d \in DOMAIN Dies : d = Top.die /\ BuildArray(d)
  BY TopType
<1> DEFINE total == TotalSize(SizeOr0(types, Answer), Extents(d))
           size == IF Dies[d].size = NoSize THEN total ELSE Dies[d].size
           node == ArrayNode(Answer, Extents(d), size)
           key == ArrayKey(Answer, Extents(d))
<1>2. total \in Int
  BY SizesAreNumbers, ExtentsType, TotalSizeType DEF ReaderInv
<1>3. size \in Int
  BY <1>2, DiesAssumption
<1>4. Answer \in DOMAIN types
  BY AnswersRegistered DEF Answer
<1>5. RegisterNew(key, node) /\ Return(key)
  BY <1>1 DEF BuildArray
<1> HIDE DEF size
<1>6. BuiltFrom(node, DOMAIN types)
  BY <1>3, <1>4 DEF BuiltFrom, IsComposite, ArrayNode
<1> HIDE DEF node, key
<1>7. QED BY <1>5, <1>6, RegisterNewReturns DEF ReaderInv

LEMMA EnumReturns ==
    ASSUME ReaderInv, calls # <<>>, BuildEnum(Top.die), UNCHANGED pointer
    PROVE  RegistryOK' /\ \E key : Returns(key)
<1>1. PICK d \in DOMAIN Dies : d = Top.die /\ BuildEnum(d)
  BY TopType
<1> DEFINE key == IF Named(d) THEN OwnKey(d) ELSE <<"@enum", EnumSize(d), EnumValues(d)>>
           node == [kind |-> "enum", size |-> EnumSize(d), encoding |-> EnumEncoding(d), values |-> EnumValues(d)]
<1>2. EnumSize(d) \in Int
  <2> DEFINE base == SizeOr0(types, Answer)
  <2>1. base \in Int
    BY SizesAreNumbers DEF ReaderInv
  <2>2. Dies[d].size \in Int
    BY DiesAssumption
  <2>3. EnumSize(d) \in {Dies[d].size, base, 4}
    BY DEF EnumSize
  <2> HIDE DEF base
  <2>4. QED BY <2>1, <2>2, <2>3
<1>3. RegisterNew(key, node) /\ Return(key)
  BY <1>1 DEF BuildEnum
<1>4. BuiltFrom(node, DOMAIN types)
  BY <1>2 DEF BuiltFrom, IsComposite
<1> HIDE DEF node, key
<1>5. QED BY <1>3, <1>4, RegisterNewReturns DEF ReaderInv

LEMMA PointerReturns ==
    ASSUME ReaderInv, calls # <<>>, BuildPointer(Top.die), UNCHANGED pointer
    PROVE  RegistryOK' /\ \E key : Returns(key)
<1>1. PICK d \in DOMAIN Dies : d = Top.die /\ BuildPointer(d)
  BY TopType
<1> DEFINE target == IF Dies[d].ref = NoRef \/ DieName(Dies[d].ref) = <<>> THEN <<>> ELSE Qualify(Dies[d].ref)
           size == IF Dies[d].size = NoSize THEN pointer ELSE Dies[d].size
           key == PointerKey(size, target)
           node == [kind |-> "pointer", size |-> size]
<1>2. size \in Int
  BY DiesAssumption DEF ReaderInv, RegistryOK
<1>3. RegisterNew(key, node) /\ Return(key)
  BY <1>1 DEF BuildPointer
<1> HIDE DEF size
<1>4. BuiltFrom(node, DOMAIN types)
  BY <1>2 DEF BuiltFrom, IsComposite
<1> HIDE DEF node, key
<1>5. QED BY <1>3, <1>4, RegisterNewReturns DEF ReaderInv

LEMMA VoidReturns ==
    ASSUME ReaderInv, BuildVoid(Top.die), UNCHANGED pointer
    PROVE  RegistryOK' /\ \E key : Returns(key)
BY UnchangedReturns DEF BuildVoid, ReaderInv, RegistryOK

LEMMA BuildReturns ==
    ASSUME ReaderInv, Build, UNCHANGED pointer
    PROVE  RegistryOK' /\ \E key : Returns(key)
<1>1. calls # <<>>
  BY DEF Build
<1>2. \/ BuildQualified(Top.die) \/ BuildBase(Top.die) \/ BuildTypedef(Top.die) \/ BuildComposite(Top.die)
      \/ BuildArray(Top.die) \/ BuildEnum(Top.die) \/ BuildPointer(Top.die) \/ BuildVoid(Top.die)
  BY DEF Build
<1>3. QED
  BY <1>1, <1>2, QualifiedReturns, BaseReturns, TypedefReturns, CompositeReturns, ArrayReturns, EnumReturns,
     PointerReturns, VoidReturns

LEMMA BuildKeeps ==
    ASSUME ReaderInv, Build, UNCHANGED <<anon, pointer>>
    PROVE  ReaderInv'
<1>1. RegistryOK' /\ calls # <<>>
  BY BuildReturns DEF Build
<1>2. PICK key : Returns(key)
  BY BuildReturns
<1>3. QED BY <1>1, <1>2, ReturnKeeps DEF Returns

-----------------------------------------------------------------------------
(* The walk.                                                                *)

Given == UNION {Range(session) : session \in Sessions}

TIERS == {TIER_EXACT, TIER_TAIL, TIER_CASE}

\* Entries to read, with names that do match theirs.
Jobs(wanted) ==
    {job \in [die : DOMAIN Dies, matches : SUBSET (wanted \X TIERS)] :
        /\ Dies[job.die].tag \in WALK_TAGS
        /\ job.matches # {} => DieName(job.die) # <<>>
        /\ \A m \in job.matches : m[2] \in Tiers(m[1], Qualify(job.die))}

WalkInv ==
    /\ commands \in Seq(Given) /\ (running # "no" => commands # <<>>)
    /\ request.paths \in Seq(DOMAIN Files)
    /\ file \in Nat \ {0} /\ unit \in Nat
    /\ todo \in Seq(Jobs(Wanted))
    /\ extraction = "reading" /\ todo # <<>> => unit # 0 /\ file <= Len(request.paths)

\* What an extract is given is files.
LEMMA GivenPaths ==
    ASSUME WalkInv, commands # <<>>
    PROVE  /\ Command \in Given /\ Tail(commands) \in Seq(Given)
           /\ Command.kind = "extract" => Command.paths \in Seq(DOMAIN Files)
<1> DEFINE G == Given
<1>1. commands \in Seq(G)
  BY DEF WalkInv
<1> HIDE DEF G
<1>2. Head(commands) \in G /\ Tail(commands) \in Seq(G)
  BY <1>1
<1>3. Command \in Given /\ Tail(commands) \in Seq(Given)
  BY <1>2 DEF Command, G
<1>4. QED BY <1>3, SessionsAssumption DEF Given

\* The file being read, and its units.
LEMMA PathType ==
    ASSUME WalkInv, Reading
    PROVE  Path \in DOMAIN Files /\ Units \in Seq([parses : BOOLEAN, dies : Seq(DOMAIN Dies)]) /\ Files[Path].pointer \in Int
<1> DEFINE paths == request.paths
           P == DOMAIN Files
<1>1. paths \in Seq(P) /\ file \in Nat \ {0} /\ file <= Len(paths)
  BY DEF WalkInv, Reading
<1> HIDE DEF paths, P
<1>2. paths[file] \in P
  BY <1>1
<1>3. Path \in DOMAIN Files
  BY <1>2 DEF Path, P, paths
<1>4. QED BY <1>3, FilesAssumption DEF Units

LEMMA UnitType ==
    ASSUME WalkInv, Reading, unit \in DOMAIN Units
    PROVE  Units[unit].parses \in BOOLEAN /\ Units[unit].dies \in Seq(DOMAIN Dies)
<1> DEFINE U == [parses : BOOLEAN, dies : Seq(DOMAIN Dies)]
           us == Units
<1>1. us \in Seq(U) /\ unit \in DOMAIN us
  BY PathType
<1> HIDE DEF U, us
<1>2. us[unit] \in U
  BY <1>1
<1>3. QED BY <1>2 DEF U, us

\* The entries a unit keeps are jobs.
LEMMA InterestingType ==
    ASSUME NEW dies \in Seq(DOMAIN Dies)
    PROVE  Interesting(dies) \in Seq(Jobs(Wanted))
<1> DEFINE matches(d) == IF request.filtered THEN Matches(Wanted, Qualify(d)) ELSE {}
           kept(d) == /\ Dies[d].tag \in WALK_TAGS
                      /\ Dies[d].tag = "typedef" \/ DieName(d) # <<>>
                      /\ request.filtered => DieName(d) # <<>> /\ Wants(Wanted, DieName(d)) /\ matches(d) # {}
           D == DOMAIN Dies
           T == {d \in D : kept(d)}
           chosen == Keeping(dies, T)
           J == Jobs(Wanted)
           job(d) == [die |-> d, matches |-> matches(d)]
<1>1. chosen \in Seq(D \cap T)
  <2>1. dies \in Seq(D) OBVIOUS
  <2> HIDE DEF D, T
  <2>2. QED BY <2>1, KeepingType
<1>2. ASSUME NEW d \in D \cap T
      PROVE  job(d) \in J
  <2>1. d \in DOMAIN Dies /\ kept(d)
    OBVIOUS
  <2>2. matches(d) \in SUBSET (Wanted \X TIERS) /\ \A m \in matches(d) : m[2] \in Tiers(m[1], Qualify(d))
    BY DEF Matches, TIERS
  <2>3. matches(d) # {} => DieName(d) # <<>>
    BY <2>1
  <2>4. Dies[d].tag \in WALK_TAGS
    BY <2>1
  <2> HIDE DEF matches, kept, T
  <2>5. QED BY <2>1, <2>2, <2>3, <2>4 DEF Jobs
<1>3. Interesting(dies) = [i \in DOMAIN chosen |-> job(chosen[i])]
  BY DEF Interesting
<1> DEFINE A == D \cap T
<1>4. chosen \in Seq(A) /\ \A d \in A : job(d) \in J
  BY <1>1, <1>2
<1> HIDE DEF chosen, A, D, T, J, job, matches, kept
<1>5. DOMAIN chosen = 1 .. Len(chosen) /\ Len(chosen) \in Nat /\ \A i \in 1 .. Len(chosen) : chosen[i] \in A
  BY <1>4
<1>6. Interesting(dies) \in Seq(J)
  BY <1>3, <1>4, <1>5
<1>7. QED BY <1>6 DEF J

LEMMA WalkSame ==
    ASSUME WalkInv, UNCHANGED walkVars, commands' \in Seq(Given), running' # "no" => commands' # <<>>
    PROVE  WalkInv'
BY DEF WalkInv, walkVars, Wanted

LEMMA ExitKeepsWalk ==
    ASSUME WalkInv, commands # <<>>, NEW status, Exit(status), UNCHANGED walkVars
    PROVE  WalkInv'
<1>1. commands' \in Seq(Given) /\ running' = "no"
  BY GivenPaths DEF Exit
<1>2. QED BY <1>1, WalkSame

\* The entries still to read are jobs, as long as the request is the same.
LEMMA TodoStays ==
    ASSUME WalkInv, todo # <<>>
    PROVE  Head(todo) \in Jobs(Wanted) /\ Tail(todo) \in Seq(Jobs(Wanted)) /\ Head(todo).die \in DOMAIN Dies
<1> DEFINE J == Jobs(Wanted)
<1>1. todo \in Seq(J)
  BY DEF WalkInv
<1> HIDE DEF J
<1>2. Head(todo) \in J /\ Tail(todo) \in Seq(J)
  BY <1>1
<1>3. QED BY <1>2 DEF J, Jobs

LEMMA ExtractKeepsWalk ==
    ASSUME WalkInv, Extract, UNCHANGED <<commands, running>>
    PROVE  WalkInv'
<1> USE DEF WalkInv
<1>1. CASE OpenFile
  <2>1. file' \in Nat \ {0} /\ unit' \in Nat
    BY <1>1 DEF OpenFile
  <2>2. extraction # "reading" \/ todo = <<>>
    BY <1>1 DEF OpenFile
  <2>3. QED BY <1>1, <2>1, <2>2 DEF OpenFile, Wanted
<1>2. CASE ReadUnit
  <2>1. Units[unit].dies \in Seq(DOMAIN Dies) /\ Reading
    BY <1>2, UnitType DEF ReadUnit
  <2>2. Interesting(Units[unit].dies) \in Seq(Jobs(Wanted)) /\ <<>> \in Seq(Jobs(Wanted))
    BY <2>1, InterestingType
  <2>3. todo' \in Seq(Jobs(Wanted)) /\ unit' = unit + 1 /\ UNCHANGED <<request, file>>
    BY <1>2, <2>2 DEF ReadUnit
  <2>4. file <= Len(request.paths) /\ unit + 1 # 0 /\ unit + 1 \in Nat
    BY <2>1 DEF Reading
  <2>5. QED BY <2>3, <2>4 DEF Wanted
<1>3. CASE CallType
  BY <1>3, WalkSame DEF CallType
<1>4. CASE ReadOn
  BY <1>4, WalkSame DEF ReadOn
<1>5. CASE PassOver
  <2>1. todo' \in Seq(Jobs(Wanted)) /\ Reading /\ todo # <<>>
    BY <1>5, TodoStays DEF PassOver, Seeking
  <2>2. QED BY <1>5, <2>1 DEF PassOver, Wanted, Reading
<1>6. CASE EndType
  <2>1. todo' \in Seq(Jobs(Wanted)) /\ Reading /\ todo # <<>>
    BY <1>6, TodoStays DEF EndType
  <2>2. QED BY <1>6, <2>1 DEF EndType, Wanted, Reading
<1>7. CASE CloseFile
  <2>1. todo = <<>> /\ UNCHANGED todo /\ file' \in Nat \ {0} /\ unit' \in Nat
    BY <1>7 DEF CloseFile
  <2>2. QED BY <1>7, <2>1 DEF CloseFile, Wanted
<1>8. CASE Finish
  <2>1. extraction' # "reading"
    BY <1>8 DEF Finish
  <2>2. QED BY <1>8, <2>1 DEF Finish, Wanted
<1>9. QED BY <1>1, <1>2, <1>3, <1>4, <1>5, <1>6, <1>7, <1>8 DEF Extract

LEMMA WalkInit == Init => WalkInv
<1> SUFFICES ASSUME Init PROVE WalkInv
  OBVIOUS
<1>1. commands \in Seq(Given)
  <2>1. commands \in Sessions
    BY DEF Init
  <2>2. PICK R : R = Range(commands) /\ commands \in Seq(R) /\ R \subseteq Given
    BY <2>1, SessionsAssumption DEF Given
  <2> DEFINE G == Given
  <2>3. R \subseteq G BY <2>2
  <2> HIDE DEF G
  <2>4. commands \in Seq(G) BY <2>2, <2>3
  <2>5. QED BY <2>4 DEF G
<1>2. request.paths = <<>> /\ file = 1 /\ unit = 0 /\ todo = <<>> /\ running = "no"
  BY DEF Init, ExtractorInit
<1>3. QED BY <1>1, <1>2 DEF WalkInv

LEMMA WalkKeeps ==
    ASSUME WalkInv, [Next]_vars
    PROVE  WalkInv'
<1>1. CASE RefuseExtract
  BY <1>1, ExitKeepsWalk DEF RefuseExtract, Idle, extractorVars
<1>2. CASE BeginExtract
  <2>1. Command.paths \in Seq(DOMAIN Files) /\ commands # <<>>
    BY <1>2, GivenPaths DEF BeginExtract, Idle
  <2>2. /\ request'.paths = Command.paths /\ file' = 1 /\ unit' = 0 /\ todo' = <<>> /\ UNCHANGED commands
    BY <1>2 DEF BeginExtract, StartExtraction
  <2>3. QED BY <2>1, <2>2 DEF WalkInv
<1>3. CASE ExtractStep
  BY <1>3, ExtractKeepsWalk DEF ExtractStep
<1>4. CASE ExtractFails
  BY <1>4, ExitKeepsWalk DEF ExtractFails, extractorVars, WalkInv
<1>5. CASE OpenOutput
  BY <1>5, WalkSame DEF OpenOutput, extractorVars, WalkInv
<1>6. CASE Dump
  BY <1>6, ExitKeepsWalk DEF Dump, extractorVars, WalkInv
<1>7. CASE Interrupt
  BY <1>7, ExitKeepsWalk DEF Interrupt, extractorVars, WalkInv
<1>8. CASE RefuseDecode
  BY <1>8, ExitKeepsWalk DEF RefuseDecode, Idle, extractorVars
<1>9. CASE BeginDecode
  BY <1>9, WalkSame DEF BeginDecode, Idle, extractorVars, WalkInv
<1>10. CASE LoadStep
  BY <1>10, WalkSame DEF LoadStep, extractorVars, WalkInv
<1>11. CASE DecodeEnds
  BY <1>11, ExitKeepsWalk DEF DecodeEnds, extractorVars, WalkInv
<1>12. CASE UNCHANGED vars
  BY <1>12, WalkSame DEF vars, extractorVars, WalkInv
<1>13. QED
  BY <1>1, <1>2, <1>3, <1>4, <1>5, <1>6, <1>7, <1>8, <1>9, <1>10, <1>11, <1>12 DEF Next, Done

-----------------------------------------------------------------------------
(* The registry through a session.                                          *)

\* What is read next is an entry.
LEMMA SoughtType ==
    ASSUME WalkInv, ReaderInv, Seeking, ~Answered(Sought), ~Raises(Sought)
    PROVE  Sought \in DOMAIN Dies
<1>1. CASE calls = <<>>
  BY <1>1, TodoStays DEF Sought, Seeking
<1>2. CASE calls # <<>>
  <2>1. Top \in Frames(DOMAIN types) /\ Top.left # <<>>
    BY <1>2, TopType DEF Seeking, Asks
  <2> DEFINE D == DOMAIN Dies
             left == Top.left
  <2>2. left \in Seq(D) /\ left # <<>>
    BY <2>1 DEF Frames
  <2> HIDE DEF D, left
  <2>3. Head(left) \in D
    BY <2>2
  <2>4. Head(Top.left) \in DOMAIN Dies
    BY <2>3 DEF left, D
  <2>5. Asked \in DOMAIN Dies \cup {NoRef, BadRef} /\ Sought = Asked
    BY <1>2, <2>4, DiesAssumption DEF Asked, Sought
  <2>6. Sought # NoRef /\ Sought # BadRef
    BY DEF Answered, Raises
  <2>7. QED BY <2>5, <2>6
<1>3. QED BY <1>1, <1>2

LEMMA ReaderSame ==
    ASSUME ReaderInv, UNCHANGED readerVars
    PROVE  ReaderInv'
<1>1. RegistryOK' /\ KeysOK' /\ calls' \in Seq(Frames(DOMAIN types'))
  BY DEF ReaderInv, RegistryOK, KeysOK, readerVars
<1>2. NamesOK'
  BY DEF ReaderInv, NamesOK, Reserves, Claims, Named, OwnKey, readerVars
<1>3. QED BY <1>1, <1>2 DEF ReaderInv

\* With no calls, any names of nameless types will do.
LEMMA ReaderAtRest ==
    ASSUME RegistryOK', KeysOK', calls' = <<>>
    PROVE  ReaderInv'
<1>1. NamesOK'
  BY DEF NamesOK
<1>2. calls' \in Seq(Frames(DOMAIN types'))
  OBVIOUS
<1>3. QED BY <1>1, <1>2 DEF ReaderInv

LEMMA ReaderStart ==
    ASSUME calls = <<>>, keys = <<>>, types = [k \in {VOID_KEY} |-> VoidType], pointer = 8
    PROVE  ReaderInv
<1>1. RegistryOK
  BY DEF RegistryOK, BuiltFrom, VoidType, IsComposite
<1>2. KeysOK
  BY DEF KeysOK
<1>3. NamesOK /\ calls \in Seq(Frames(DOMAIN types))
  BY DEF NamesOK
<1>4. QED BY <1>1, <1>2, <1>3 DEF ReaderInv

LEMMA ExtractKeepsReader ==
    ASSUME WalkInv, ReaderInv, CallsNest, Extract
    PROVE  ReaderInv'
<1>1. CASE OpenFile
  <2>1. pointer' \in Int
    BY <1>1, PathType DEF OpenFile, ReaderInv, RegistryOK
  <2>2. keys' = <<>> \/ keys' = keys
    BY <1>1 DEF OpenFile
  <2>3. UNCHANGED <<types, anon, calls>>
    BY <1>1 DEF OpenFile
  <2>4. RegistryOK' /\ KeysOK' /\ calls' \in Seq(Frames(DOMAIN types'))
    BY <2>1, <2>2, <2>3 DEF ReaderInv, RegistryOK, KeysOK
  <2>5. NamesOK'
    BY <2>3 DEF ReaderInv, NamesOK, Reserves, Claims, Named, OwnKey
  <2>6. QED BY <2>4, <2>5 DEF ReaderInv
<1>2. CASE ReadUnit
  <2>1. calls = <<>> /\ UNCHANGED <<types, keys, pointer, calls>>
    BY <1>2 DEF ReadUnit, CallsNest
  <2>2. RegistryOK' /\ KeysOK'
    BY <2>1 DEF ReaderInv, RegistryOK, KeysOK
  <2>3. QED BY <2>1, <2>2, ReaderAtRest
<1>3. CASE CallType
  <2>1. PICK d \in DOMAIN Dies : d = Sought /\ Call(d)
    BY <1>3, SoughtType DEF CallType
  <2>2. QED BY <1>3, <2>1, CallKeeps DEF CallType
<1>4. CASE ReadOn
  BY <1>4, TakeChildKeeps, BuildKeeps DEF ReadOn
<1>5. CASE PassOver
  <2>1. calls' = <<>> /\ UNCHANGED <<types, keys, pointer>>
    BY <1>5 DEF PassOver, Unwind
  <2>2. RegistryOK' /\ KeysOK'
    BY <2>1 DEF ReaderInv, RegistryOK, KeysOK
  <2>3. QED BY <2>1, <2>2, ReaderAtRest
<1>6. CASE EndType \/ CloseFile \/ Finish
  BY <1>6, ReaderSame DEF EndType, CloseFile, Finish
<1>7. QED BY <1>1, <1>2, <1>3, <1>4, <1>5, <1>6 DEF Extract

LEMMA ReaderInit == Init => ReaderInv
BY ReaderStart DEF Init, ExtractorInit

LEMMA ReaderKeeps ==
    ASSUME WalkInv, ReaderInv, CallsNest, [Next]_vars
    PROVE  ReaderInv'
<1>1. CASE BeginExtract
  <2>1. calls' = <<>> /\ keys' = <<>> /\ types' = [k \in {VOID_KEY} |-> VoidType] /\ pointer' = 8
    BY <1>1 DEF BeginExtract, StartExtraction
  <2>2. RegistryOK' /\ KeysOK'
    BY <2>1 DEF RegistryOK, KeysOK, BuiltFrom, VoidType, IsComposite
  <2>3. QED BY <2>1, <2>2, ReaderAtRest
<1>2. CASE ExtractStep
  BY <1>2, ExtractKeepsReader DEF ExtractStep
<1>3. CASE UNCHANGED extractorVars
  BY <1>3, ReaderSame DEF extractorVars
<1>4. QED
  BY <1>1, <1>2, <1>3 DEF Next, RefuseExtract, ExtractFails, OpenOutput, Dump, Interrupt, RefuseDecode, BeginDecode,
                          LoadStep, DecodeEnds, Done, vars

-----------------------------------------------------------------------------
(* Calls nest.                                                              *)

LEMMA NestSame ==
    ASSUME CallsNest, UNCHANGED <<calls, keys, extraction, todo>>, calls # <<>> => running' = "extracting"
    PROVE  CallsNest'
BY DEF CallsNest, Busy

LEMMA NestAtRest ==
    ASSUME calls' = <<>>
    PROVE  CallsNest'
<1>1. DOMAIN calls' = {} /\ Busy' = {}
  BY DEF Busy
<1>2. QED BY <1>1 DEF CallsNest

\* An entry that is called is not among those being read.
LEMMA CallNests ==
    ASSUME WalkInv, ReaderInv, CallsNest, CallType, running = "extracting", running' = "extracting"
    PROVE  CallsNest'
<1>1. PICK d \in DOMAIN Dies : d = Sought /\ Call(d) /\ ~Answered(d)
  BY SoughtType DEF CallType
<1>2. PICK f : calls' = Append(calls, f) /\ f.die = d
  BY <1>1 DEF Call
<1>3. PICK n \in Nat :
      /\ n = Len(calls) /\ DOMAIN calls = 1 .. n /\ DOMAIN calls' = 1 .. n + 1 /\ Len(calls') = n + 1
      /\ \A i \in 1 .. n : calls'[i] = calls[i]
      /\ calls'[n + 1] = f
  <2> DEFINE F == Frames(DOMAIN types)
  <2>1. calls \in Seq(F)
    BY DEF ReaderInv
  <2> HIDE DEF F
  <2>2. Len(calls) \in Nat
    BY <2>1
  <2>3. QED BY <1>2, <2>1, <2>2
<1>4. UNCHANGED <<keys, walkVars>> /\ Reading /\ todo # <<>> /\ (calls = <<>> \/ Asks)
  BY DEF CallType, Seeking
<1>5. calls = <<>> <=> n = 0
  BY <1>3
<1>6. calls' # <<>>
  BY <1>3
<1>7. calls'[1].die = todo[1].die
  <2>1. CASE n = 0
    BY <1>1, <1>2, <1>3, <1>5, <2>1 DEF Sought
  <2>2. CASE n # 0
    BY <1>3, <1>5, <2>2 DEF CallsNest
  <2>3. QED BY <2>1, <2>2
<1>8. ASSUME NEW i \in 1 .. n
      PROVE  calls'[i].left # <<>> /\ Dies[Head(calls'[i].left)].ref = calls'[i + 1].die
  <2>1. CASE i = n
    <3>1. Asks /\ calls[i] = Top /\ d = Asked
      BY <1>1, <1>3, <1>4, <1>5, <2>1 DEF Top, Sought
    <3>2. QED BY <1>2, <1>3, <2>1, <3>1 DEF Asks, Asked
  <2>2. CASE i # n
    BY <1>3, <2>2 DEF CallsNest
  <2>3. QED BY <2>1, <2>2
<1>9. \A i \in 1 .. n : calls[i].die # d
  BY <1>1, <1>3 DEF Answered, Busy
<1>10. \A i, j \in 1 .. n + 1 : calls'[i].die = calls'[j].die => i = j
  BY <1>2, <1>3, <1>9 DEF CallsNest
<1>11. Busy' = Busy \cup {d}
  BY <1>2, <1>3 DEF Busy
<1>12. Busy' \cap DOMAIN keys' = {}
  BY <1>1, <1>4, <1>11 DEF CallsNest, Answered
<1>13. extraction' = "reading" /\ todo' # <<>> /\ todo' = todo
  BY <1>4 DEF Reading, walkVars
<1>14. \A i \in DOMAIN calls' : i < Len(calls') => calls'[i].left # <<>> /\ Dies[Head(calls'[i].left)].ref = calls'[i + 1].die
  BY <1>3, <1>8
<1>15. QED BY <1>3, <1>6, <1>7, <1>10, <1>12, <1>13, <1>14 DEF CallsNest

\* A call that returns is the innermost, and the entry gets its key as it leaves.
LEMMA ReturnNests ==
    ASSUME ReaderInv, CallsNest, calls # <<>>, NEW key, Return(key), UNCHANGED <<extraction, todo, running>>
    PROVE  CallsNest'
<1>1. PICK n \in Nat \ {0} :
      /\ n = Len(calls) /\ DOMAIN calls = 1 .. n /\ DOMAIN calls' = 1 .. n - 1 /\ Len(calls') = n - 1
      /\ \A i \in 1 .. n - 1 : calls'[i] = calls[i]
      /\ Top = calls[n]
  <2> DEFINE F == Frames(DOMAIN types)
  <2>1. calls \in Seq(F) /\ calls' = SubSeq(calls, 1, Len(calls) - 1)
    BY DEF ReaderInv, Return
  <2> HIDE DEF F
  <2>2. Len(calls) \in Nat \ {0} /\ DOMAIN calls = 1 .. Len(calls)
    BY <2>1
  <2>3. calls' \in Seq(F) /\ Len(calls') = Len(calls) - 1 /\ \A i \in 1 .. Len(calls) - 1 : calls'[i] = calls[i]
    BY <2>1, <2>2
  <2>4. DOMAIN calls' = 1 .. Len(calls) - 1
    BY <2>3
  <2>5. QED BY <2>2, <2>3, <2>4 DEF Top
<1>2. calls' # <<>> => n # 1
  BY <1>1
<1>3. \A i \in DOMAIN calls' : i < Len(calls') => calls'[i].left # <<>> /\ Dies[Head(calls'[i].left)].ref = calls'[i + 1].die
  BY <1>1 DEF CallsNest
<1>4. \A i, j \in DOMAIN calls' : calls'[i].die = calls'[j].die => i = j
  BY <1>1 DEF CallsNest
<1>5. \A i \in 1 .. n - 1 : calls[i].die # Top.die
  BY <1>1 DEF CallsNest
<1>6. Busy' \subseteq Busy /\ Top.die \notin Busy'
  BY <1>1, <1>5 DEF Busy
<1>7. DOMAIN keys' = DOMAIN keys \cup {Top.die}
  BY DEF Return, Put
<1>8. Busy' \cap DOMAIN keys' = {}
  BY <1>6, <1>7 DEF CallsNest
<1>9. calls' # <<>> => running' = "extracting" /\ extraction' = "reading" /\ todo' # <<>> /\ calls'[1].die = todo'[1].die
  BY <1>1, <1>2 DEF CallsNest
<1>10. QED BY <1>3, <1>4, <1>8, <1>9 DEF CallsNest

LEMMA TakeChildNests ==
    ASSUME ReaderInv, CallsNest, TakeChild, UNCHANGED <<extraction, todo, running>>
    PROVE  CallsNest'
<1>1. PICK f : f = calls'[Len(calls)] /\ calls' = [calls EXCEPT ![Len(calls)] = f] /\ f.die = Top.die /\ calls # <<>>
  <2> DEFINE c == Head(Top.left)
             more == IF Dies[c].tag = "member" THEN <<MemberRead(c, Answer)>> ELSE Inherited(c, Answer)
             f == [Top EXCEPT !.left = Tail(Top.left), !.members = Top.members \o more]
  <2>1. calls' = [calls EXCEPT ![Len(calls)] = f]
    BY DEF TakeChild
  <2>2. calls # <<>> /\ Top \in Frames(DOMAIN types)
    BY TopType DEF TakeChild, Asks
  <2>3. f.die = Top.die
    BY <2>2 DEF Frames
  <2> DEFINE F == Frames(DOMAIN types)
  <2>4. calls \in Seq(F)
    BY DEF ReaderInv
  <2> HIDE DEF f, F
  <2>5. Len(calls) \in DOMAIN calls
    BY <2>2, <2>4
  <2>6. calls'[Len(calls)] = f
    BY <2>1, <2>5
  <2>7. QED BY <2>1, <2>2, <2>3, <2>6
<1>2. PICK n \in Nat \ {0} :
      /\ n = Len(calls) /\ DOMAIN calls = 1 .. n /\ DOMAIN calls' = 1 .. n /\ Len(calls') = n /\ calls' # <<>>
      /\ \A i \in 1 .. n : calls'[i].die = calls[i].die
      /\ \A i \in 1 .. n - 1 : calls'[i] = calls[i]
  <2> DEFINE F == Frames(DOMAIN types)
  <2>1. calls \in Seq(F)
    BY DEF ReaderInv
  <2> HIDE DEF F
  <2>2. Len(calls) \in Nat \ {0} /\ DOMAIN calls = 1 .. Len(calls)
    BY <1>1, <2>1
  <2>3. DOMAIN calls' = 1 .. Len(calls) /\ \A i \in 1 .. Len(calls) : calls'[i] = IF i = Len(calls) THEN f ELSE calls[i]
    BY <1>1, <2>1, <2>2
  <2>4. Len(calls') = Len(calls) /\ calls' # <<>>
    <3> DEFINE all == F \cup {f}
    <3>1. calls \in Seq(all) /\ f \in all
      BY <2>1
    <3> HIDE DEF all
    <3>2. calls' \in Seq(all)
      BY <1>1, <2>2, <3>1
    <3>3. PICK m \in Nat : m = Len(calls') /\ DOMAIN calls' = 1 .. m
      BY <3>2
    <3>4. PICK n \in Nat \ {0} : n = Len(calls)
      BY <2>2
    <3>5. 1 .. m = 1 .. n
      BY <2>3, <3>3, <3>4
    <3>6. n \in 1 .. m
      BY <3>5
    <3>7. m \in 1 .. n
      BY <3>5, <3>6
    <3>8. m = n
      BY <3>6, <3>7
    <3>9. QED BY <3>2, <3>3, <3>4, <3>8
  <2>5. calls[Len(calls)].die = f.die
    BY <1>1 DEF Top
  <2>6. PICK n \in Nat \ {0} : n = Len(calls)
    BY <2>2
  <2>7. \A i \in 1 .. n : calls'[i].die = calls[i].die
    BY <2>3, <2>5, <2>6
  <2>8. \A i \in 1 .. n - 1 : calls'[i] = calls[i]
    BY <2>3, <2>6
  <2>9. DOMAIN calls = 1 .. n /\ DOMAIN calls' = 1 .. n /\ Len(calls') = n /\ calls' # <<>>
    BY <2>2, <2>3, <2>4, <2>6
  <2>10. QED BY <2>6, <2>7, <2>8, <2>9
<1>3. UNCHANGED keys
  BY DEF TakeChild
<1>4. Busy' = Busy
  BY <1>2 DEF Busy
<1>5. \A i \in DOMAIN calls' : i < Len(calls') => calls'[i].left # <<>> /\ Dies[Head(calls'[i].left)].ref = calls'[i + 1].die
  <2>1. ASSUME NEW i \in 1 .. n, i < n
        PROVE  calls'[i].left # <<>> /\ Dies[Head(calls'[i].left)].ref = calls'[i + 1].die
    <3>1. i \in 1 .. n - 1 /\ i + 1 \in 1 .. n
      BY <2>1
    <3>2. calls'[i] = calls[i] /\ calls'[i + 1].die = calls[i + 1].die
      BY <1>2, <3>1
    <3>3. calls[i].left # <<>> /\ Dies[Head(calls[i].left)].ref = calls[i + 1].die
      BY <1>2, <2>1 DEF CallsNest
    <3>4. QED BY <3>2, <3>3
  <2>2. QED BY <1>2, <2>1
<1>6. QED BY <1>1, <1>2, <1>3, <1>4, <1>5 DEF CallsNest

LEMMA ExtractKeepsNest ==
    ASSUME WalkInv, ReaderInv, CallsNest, Extract, running = "extracting", running' = "extracting"
    PROVE  CallsNest'
<1>1. CASE OpenFile
  <2>1. calls = <<>>
    BY <1>1 DEF OpenFile, Reading, CallsNest, WalkInv
  <2>2. QED BY <1>1, <2>1, NestAtRest DEF OpenFile
<1>2. CASE ReadUnit
  <2>1. calls' = <<>>
    BY <1>2 DEF ReadUnit, CallsNest
  <2>2. QED BY <2>1, NestAtRest
<1>3. CASE CallType
  BY <1>3, CallNests
<1>4. CASE ReadOn
  <2>1. UNCHANGED <<extraction, todo, running>>
    BY <1>4 DEF ReadOn, walkVars
  <2>2. CASE TakeChild
    BY <2>1, <2>2, TakeChildNests
  <2>3. CASE Build
    <3>1. UNCHANGED pointer /\ calls # <<>>
      BY <1>4, <2>3 DEF ReadOn, Build
    <3>2. PICK key : Return(key)
      BY <2>3, <3>1, BuildReturns DEF Returns
    <3>3. QED BY <2>1, <3>1, <3>2, ReturnNests
  <2>4. QED BY <1>4, <2>2, <2>3 DEF ReadOn
<1>5. CASE PassOver
  BY <1>5, NestAtRest DEF PassOver, Unwind
<1>6. CASE EndType
  BY <1>6, NestAtRest DEF EndType, readerVars
<1>7. CASE CloseFile
  <2>1. calls' = <<>>
    BY <1>7 DEF CloseFile, CallsNest, readerVars
  <2>2. QED BY <2>1, NestAtRest
<1>8. CASE Finish
  <2>1. calls = <<>>
    <3>1. SUFFICES ASSUME calls # <<>> PROVE FALSE
      OBVIOUS
    <3>2. file <= Len(request.paths) /\ file > Len(request.paths) /\ file \in Nat
      BY <1>8, <3>1 DEF Finish, CallsNest, WalkInv
    <3>3. Len(request.paths) \in Nat
      <4> DEFINE paths == request.paths
                 P == DOMAIN Files
      <4>1. paths \in Seq(P) BY DEF WalkInv
      <4> HIDE DEF paths, P
      <4>2. Len(paths) \in Nat BY <4>1
      <4>3. QED BY <4>2 DEF paths
    <3>4. QED BY <3>2, <3>3
  <2>2. QED BY <1>8, <2>1, NestAtRest DEF Finish, readerVars
<1>9. QED BY <1>1, <1>2, <1>3, <1>4, <1>5, <1>6, <1>7, <1>8 DEF Extract

LEMMA NestKeeps ==
    ASSUME WalkInv, ReaderInv, CallsNest, [Next]_vars
    PROVE  CallsNest'
<1>1. CASE BeginExtract
  BY <1>1, NestAtRest DEF BeginExtract, StartExtraction
<1>2. CASE ExtractStep
  BY <1>2, ExtractKeepsNest DEF ExtractStep
<1>3. CASE running # "extracting" /\ UNCHANGED extractorVars
  BY <1>3, NestAtRest DEF CallsNest, extractorVars, readerVars
<1>4. CASE ExtractFails \/ OpenOutput
  <2>1. calls = <<>>
    BY <1>4 DEF ExtractFails, OpenOutput, CallsNest
  <2>2. QED BY <1>4, <2>1, NestAtRest DEF ExtractFails, OpenOutput, extractorVars, readerVars
<1>5. CASE UNCHANGED vars
  BY <1>5, NestSame DEF vars, extractorVars, readerVars, walkVars, CallsNest
<1>6. QED
  BY <1>1, <1>2, <1>3, <1>4, <1>5 DEF Next, RefuseExtract, Dump, Interrupt, RefuseDecode, BeginDecode,
                                    LoadStep, DecodeEnds, Done, Idle

\* What the reader and the walk keep true, together.
ExtractInv == WalkInv /\ ReaderInv /\ CallsNest

LEMMA ExtractInvariant == Spec => []ExtractInv
<1>1. Init => ExtractInv
  <2>1. Init => CallsNest
    BY DEF Init, ExtractorInit, CallsNest, Busy
  <2>2. QED BY <2>1, WalkInit, ReaderInit DEF ExtractInv
<1>2. ExtractInv /\ [Next]_vars => ExtractInv'
  BY WalkKeeps, ReaderKeeps, NestKeeps DEF ExtractInv
<1>3. QED BY <1>1, <1>2, PTL DEF Spec

\* The calls of a session nest as the entries refer to each other, and none is
\* left over when an entry of the walk was passed over (_key_for_die).
THEOREM CallsAreNested == Spec => []CallsNest
<1>1. ExtractInv => CallsNest
  BY DEF ExtractInv
<1>2. QED BY <1>1, ExtractInvariant, PTL

\* In every state of every session, whatever a registered type is built from is
\* registered (_key_for_die and the builders it calls).
THEOREM RegistryClosed == Spec => []Closed
<1>1. ReaderInv => Closed
  <2> SUFFICES ASSUME ReaderInv, NEW k \in DOMAIN types
               PROVE  LET node == types[k]
                      IN  CASE IsComposite(node) -> \A i \in DOMAIN node.members : node.members[i].type \in DOMAIN types
                            [] node.kind = "array" -> node.elem \in DOMAIN types
                            [] node.kind = "typedef" -> node.target \in DOMAIN types
                            [] OTHER -> TRUE
    BY DEF Closed
  <2>1. PICK node : node = types[k] /\ BuiltFrom(node, DOMAIN types)
    BY DEF ReaderInv, RegistryOK
  <2>2. CASE IsComposite(node)
    <3> DEFINE S == MembersOf(DOMAIN types)
               ms == node.members
    <3>1. ms \in Seq(S)
      BY <2>1, <2>2 DEF BuiltFrom
    <3>2. \A m \in S : m.type \in DOMAIN types
      BY DEF MembersOf
    <3> HIDE DEF S, ms
    <3>3. \A i \in DOMAIN ms : ms[i] \in S
      BY <3>1
    <3>4. \A i \in DOMAIN ms : ms[i].type \in DOMAIN types
      BY <3>2, <3>3
    <3>5. QED BY <2>1, <2>2, <3>4 DEF ms, IsComposite
  <2>3. CASE ~IsComposite(node)
    BY <2>1, <2>3 DEF BuiltFrom
  <2>4. QED BY <2>2, <2>3
<1>2. ExtractInv => Closed
  BY <1>1 DEF ExtractInv
<1>3. QED BY <1>2, ExtractInvariant, PTL

-----------------------------------------------------------------------------
(* Types stay.                                                              *)

\* What a call that returns does to the type of its own name.
LEMMA OwnTypeStays ==
    ASSUME ReaderInv, Build, UNCHANGED <<anon, pointer>>
    PROVE  \A k \in DOMAIN types : k \in DOMAIN types' /\ Stays(k)
<1>1. PICK key : Returns(key)
  BY BuildReturns
<1>2. calls # <<>> /\ Top.die \in DOMAIN Dies
  BY TopType DEF Build
<1>3. ASSUME NEW k \in DOMAIN types, types'[k] # types[k]
      PROVE  Stays(k)
  <2>1. Claims(Top.die) /\ ~Top.known /\ k = OwnKey(Top.die)
    BY <1>1, <1>3 DEF Returns
  <2>2. Named(Top.die)
    BY <2>1 DEF Claims, Named
  <2>3. CASE Dies[Top.die].tag = "typedef" /\ DieName(Top.die) # <<>>
    <3>1. BuildTypedef(Top.die)
      BY <2>3 DEF Build, BuildQualified, BuildBase, BuildComposite, BuildArray, BuildEnum, BuildPointer, BuildVoid,
                  QUALIFIER_TAGS, POINTER_TAGS, COMPOSITE_TAGS, TYPE_TAGS, IsComplete
    <3>2. OwnKey(Top.die) = Qualify(Top.die)
      BY <2>3 DEF OwnKey
    <3>3. types' = Put(types, k, [kind |-> "typedef", target |-> Answer])
      BY <1>3, <2>1, <3>1, <3>2 DEF BuildTypedef, Register
    <3>4. types'[k].kind = "typedef"
      BY <3>3 DEF Put
    <3>5. QED BY <1>2, <2>1, <2>2, <2>3, <3>4 DEF Stays
  <2>4. CASE IsComplete(Top.die)
    <3>1. BuildComposite(Top.die)
      BY <2>4 DEF Build, BuildQualified, BuildBase, BuildTypedef, BuildArray, BuildEnum, BuildPointer, BuildVoid,
                  QUALIFIER_TAGS, POINTER_TAGS, COMPOSITE_TAGS, TYPE_TAGS, IsComplete
    <3> DEFINE node == Composite(Top.die, Sorted(Top.members))
    <3>2. types' = Put(types, k, node)
      BY <2>1, <2>2, <3>1 DEF BuildComposite, Register
    <3>3. types'[k] = node
      BY <3>2 DEF Put
    <3>4. types[k] = Composite(Top.die, <<>>)
      BY <1>2, <2>1, <2>2, <2>4, TopType DEF Reserves
    <3>5. types'[k].kind = types[k].kind /\ types'[k].size = types[k].size
      BY <3>3, <3>4 DEF Composite
    <3>6. QED BY <1>2, <2>1, <2>2, <2>4, <3>4, <3>5 DEF Stays
  <2>5. QED BY <2>1, <2>3, <2>4 DEF Claims
<1>4. QED BY <1>1, <1>3 DEF Returns, Stays

LEMMA StepStays ==
    ASSUME ExtractInv, [Next]_vars, NEW k \in DOMAIN types, k \in DOMAIN types'
    PROVE  Stays(k)
<1>1. CASE UNCHANGED types
  BY <1>1 DEF Stays
<1>2. CASE BeginExtract
  <2>1. types' = [v \in {VOID_KEY} |-> VoidType]
    BY <1>2 DEF BeginExtract, StartExtraction
  <2>2. k = VOID_KEY
    BY <2>1
  <2>3. types'[k] = types[k]
    BY <2>1, <2>2 DEF ExtractInv, ReaderInv, RegistryOK
  <2>4. QED BY <2>3 DEF Stays
<1>3. CASE ExtractStep /\ CallType
  <2>1. PICK d \in DOMAIN Dies : d = Sought /\ Call(d)
    BY <1>3, SoughtType DEF CallType, ExtractInv
  <2>2. types'[k] = types[k]
    BY <1>3, <2>1, CallKeeps DEF CallType, ExtractInv
  <2>3. QED BY <2>2 DEF Stays
<1>4. CASE ExtractStep /\ ReadOn
  <2>1. CASE TakeChild
    BY <1>1, <2>1 DEF TakeChild
  <2>2. CASE Build
    BY <1>4, <2>2, OwnTypeStays DEF ReadOn, ExtractInv
  <2>3. QED BY <1>4, <2>1, <2>2 DEF ReadOn
<1>5. CASE ExtractStep /\ ~CallType /\ ~ReadOn
  BY <1>1, <1>5 DEF ExtractStep, Extract, OpenFile, ReadUnit, PassOver, EndType, CloseFile, Finish, readerVars
<1>6. CASE UNCHANGED extractorVars
  BY <1>1, <1>6 DEF extractorVars, readerVars
<1>7. QED
  BY <1>2, <1>3, <1>4, <1>5, <1>6 DEF Next, RefuseExtract, ExtractFails, OpenOutput, Dump, Interrupt, RefuseDecode,
                                      BeginDecode, LoadStep, DecodeEnds, Done, vars

\* No step of a session replaces a type others may have been laid out with
\* (_build_composite, _build_typedef).
THEOREM RegisteredTypesStay == Spec => TypesStay
<1>1. ExtractInv /\ [Next]_vars => [\A k \in DOMAIN types \cap DOMAIN types' : Stays(k)]_types
  BY StepStays
<1>2. QED BY <1>1, ExtractInvariant, PTL DEF Spec, TypesStay

-----------------------------------------------------------------------------
(* Sizes.                                                                   *)

\* Nameless types are not given made-up names by their typedefs, ...
AnonNamed == \A d \in DOMAIN anon : ~IsSynthetic(anon[d])

\* ... so that a type with a made-up name has the size the name was made from.
AnonSized == \A k \in DOMAIN types : Head(k) = "@anon" /\ types[k].kind # "typedef" => types[k].size = k[3]

SizesInv == AnonNamed /\ AnonSized /\ ConflictsReported

IsDefinition(d) == Dies[d].tag = "base" \/ IsComplete(d)

\* A call that returns reports the size of what it read, if that is another.
ReturnsSized(key) ==
    /\ Return(key) /\ conflicts \subseteq conflicts'
    /\ DOMAIN types' \subseteq DOMAIN types \cup {key}
    /\ Head(key) = "@anon" /\ key \in DOMAIN types' \ DOMAIN types => types'[key].size = key[3]
    /\ IsDefinition(Top.die) /\ types'[key].kind # "typedef" /\ types'[key].size # OwnSize(Top.die) => key \in conflicts'

LEMMA NameNotMadeUp ==
    ASSUME AnonNamed, NEW d \in DOMAIN Dies, Named(d)
    PROVE  Head(OwnKey(d)) # "@anon"
BY NamesAssumption DEF AnonNamed, Named, OwnKey, IsSynthetic

\* Another size for a name that is taken is in conflict with it.
LEMMA NoteReports ==
    ASSUME RegistryOK, NEW key \in DOMAIN types, NEW size, Note(key, size)
    PROVE  conflicts \subseteq conflicts' /\ (types[key].kind # "typedef" /\ types[key].size # size => key \in conflicts')
BY DEF RegistryOK, BuiltFrom, Note

LEMMA NoteKeeps ==
    ASSUME NEW key, NEW size, Note(key, size)
    PROVE  conflicts \subseteq conflicts'
BY DEF Note

LEMMA BaseSized ==
    ASSUME ReaderInv, SizesInv, calls # <<>>, BuildBase(Top.die)
    PROVE  \E key : ReturnsSized(key)
<1>1. PICK d \in DOMAIN Dies : d = Top.die /\ BuildBase(d)
  BY TopType
<1> DEFINE node == [kind |-> "base", size |-> OwnSize(d), encoding |-> BaseEncoding(d)]
<1>2. PICK key : key = BaseKey(d)
  OBVIOUS
<1>3. Head(key) # "@anon"
  BY <1>2, NamesAssumption DEF BaseKey, IsSynthetic
<1>4. types' = PutNew(types, key, node) /\ Note(key, OwnSize(d)) /\ Return(key)
  BY <1>1, <1>2 DEF BuildBase, RegisterNew
<1>5. DOMAIN types' \subseteq DOMAIN types \cup {key} /\ (key \in DOMAIN types => types' = types)
      /\ (key \notin DOMAIN types => types'[key] = node)
  BY <1>4 DEF PutNew, Put
<1>6. conflicts \subseteq conflicts'
  BY <1>4, NoteKeeps
<1>7. types'[key].kind # "typedef" /\ types'[key].size # OwnSize(d) => key \in conflicts'
  <2>1. CASE key \in DOMAIN types
    BY <1>4, <1>5, <2>1, NoteReports DEF ReaderInv
  <2>2. CASE key \notin DOMAIN types
    BY <1>5, <2>2
  <2>3. QED BY <2>1, <2>2
<1>8. QED BY <1>1, <1>3, <1>4, <1>5, <1>6, <1>7 DEF ReturnsSized

LEMMA CompositeSized ==
    ASSUME ReaderInv, SizesInv, calls # <<>>, BuildComposite(Top.die)
    PROVE  \E key : ReturnsSized(key)
<1>1. PICK d \in DOMAIN Dies : d = Top.die /\ BuildComposite(d) /\ IsComplete(d)
  BY TopType DEF BuildComposite
<1> DEFINE node == Composite(d, Sorted(Top.members))
<1>2. node.size = OwnSize(d)
  BY <1>1 DEF Composite, OwnSize, IsComplete
<1>3. CASE Top.known
  <2>1. PICK key : key = OwnKey(d) /\ key \in DOMAIN types
    BY <1>1, <1>3, TopType
  <2>2. Note(key, OwnSize(d)) /\ UNCHANGED types /\ Return(key)
    BY <1>1, <1>2, <1>3, <2>1 DEF BuildComposite
  <2>3. conflicts \subseteq conflicts' /\ (types[key].kind # "typedef" /\ types[key].size # OwnSize(d) => key \in conflicts')
    BY <2>1, <2>2, NoteReports DEF ReaderInv
  <2>4. QED BY <1>1, <2>1, <2>2, <2>3 DEF ReturnsSized
<1>4. CASE ~Top.known /\ Named(d)
  <2>1. PICK key : key = OwnKey(d) /\ Head(key) # "@anon"
    BY <1>4, NameNotMadeUp DEF SizesInv
  <2>2. types' = Put(types, key, node) /\ UNCHANGED conflicts /\ Return(key)
    BY <1>1, <1>4, <2>1 DEF BuildComposite, Register
  <2> HIDE DEF node
  <2>3. DOMAIN types' \subseteq DOMAIN types \cup {key} /\ types'[key] = node
    BY <2>2 DEF Put
  <2>4. QED BY <1>1, <1>2, <2>1, <2>2, <2>3 DEF ReturnsSized
<1>5. CASE ~Top.known /\ ~Named(d)
  <2>1. PICK key : key = AnonKey(node) /\ Head(key) = "@anon" /\ key[3] = node.size
    <3>1. \A a, b, c : Head(<<"@anon", a, b, c>>) = "@anon" /\ <<"@anon", a, b, c>>[3] = b
      OBVIOUS
    <3> HIDE DEF node
    <3>2. PICK r : AnonKey(node) = <<"@anon", node.kind, node.size, r>>
      BY Zenon DEF AnonKey
    <3>3. QED BY <3>1, <3>2
  <2>2. types' = PutNew(types, key, node) /\ UNCHANGED conflicts /\ Return(key)
    BY <1>1, <1>5, <2>1 DEF BuildComposite, RegisterNew
  <2> HIDE DEF node
  <2>3. DOMAIN types' \subseteq DOMAIN types \cup {key} /\ (key \in DOMAIN types => types' = types)
        /\ (key \notin DOMAIN types => types'[key] = node)
    BY <2>2 DEF PutNew, Put
  <2>4. types'[key].kind # "typedef" => types'[key].size = node.size
    BY <2>1, <2>3 DEF SizesInv, AnonSized
  <2>5. QED BY <1>1, <1>2, <2>1, <2>2, <2>3, <2>4 DEF ReturnsSized
<1>6. QED BY <1>3, <1>4, <1>5

\* What is no definition gives no made-up name of a nameless struct.
LEMMA OthersSized ==
    ASSUME ReaderInv, SizesInv, Build, ~BuildBase(Top.die), ~BuildComposite(Top.die)
    PROVE  \E key : ReturnsSized(key)
<1>1. PICK d \in DOMAIN Dies : d = Top.die /\ calls # <<>>
  BY TopType DEF Build
<1>2. ~IsDefinition(d)
  BY <1>1 DEF Build, BuildQualified, BuildBase, BuildTypedef, BuildComposite, BuildArray, BuildEnum, BuildPointer, BuildVoid,
              IsDefinition, IsComplete, TYPE_TAGS, QUALIFIER_TAGS, POINTER_TAGS, COMPOSITE_TAGS
<1>3. CASE BuildQualified(d) \/ BuildVoid(d)
  BY <1>1, <1>2, <1>3 DEF BuildQualified, BuildVoid, ReturnsSized
<1>4. CASE BuildTypedef(d)
  <2>1. PICK key : key = Qualify(d) /\ Head(key) # "@anon"
    BY <1>4, NamesAssumption DEF BuildTypedef, IsSynthetic
  <2>2. Return(key) /\ UNCHANGED conflicts /\ DOMAIN types' \subseteq DOMAIN types \cup {key}
    BY <1>4, <2>1 DEF BuildTypedef, Register, Put
  <2>3. QED BY <1>1, <1>2, <2>1, <2>2 DEF ReturnsSized
<1>5. CASE BuildArray(d)
  <2>1. PICK key : key = ArrayKey(Answer, Extents(d)) /\ Head(key) = "[]"
    <3>1. \A a, b : Head(<<"[]", a, b>>) = "[]"
      OBVIOUS
    <3>2. QED BY <3>1 DEF ArrayKey
  <2>2. PICK node : RegisterNew(key, node) /\ UNCHANGED conflicts /\ Return(key)
    BY <1>5, <2>1 DEF BuildArray
  <2>3. DOMAIN types' \subseteq DOMAIN types \cup {key}
    BY <2>2 DEF RegisterNew, PutNew, Put
  <2>4. QED BY <1>1, <1>2, <2>1, <2>2, <2>3 DEF ReturnsSized
<1>6. CASE BuildEnum(d)
  <2>1. PICK key : key = (IF Named(d) THEN OwnKey(d) ELSE <<"@enum", EnumSize(d), EnumValues(d)>>) /\ Head(key) # "@anon"
    <3>1. \A a, b : Head(<<"@enum", a, b>>) = "@enum"
      OBVIOUS
    <3>2. QED BY <3>1, NameNotMadeUp DEF SizesInv
  <2>2. PICK node, size : RegisterNew(key, node) /\ Note(key, size) /\ Return(key)
    BY <1>6, <2>1 DEF BuildEnum
  <2>3. DOMAIN types' \subseteq DOMAIN types \cup {key} /\ conflicts \subseteq conflicts'
    BY <2>2, NoteKeeps DEF RegisterNew, PutNew, Put
  <2>4. QED BY <1>1, <1>2, <2>1, <2>2, <2>3 DEF ReturnsSized
<1>7. CASE BuildPointer(d)
  <2>1. PICK size, target : RegisterNew(PointerKey(size, target), [kind |-> "pointer", size |-> size])
                            /\ UNCHANGED conflicts /\ Return(PointerKey(size, target))
    BY <1>7 DEF BuildPointer
  <2>2. PICK key : key = PointerKey(size, target) /\ Head(key) = "*"
    <3>1. \A a, b : Head(<<"*", a, b>>) = "*"
      OBVIOUS
    <3>2. QED BY <3>1 DEF PointerKey
  <2>3. DOMAIN types' \subseteq DOMAIN types \cup {key} /\ Return(key)
    BY <2>1, <2>2 DEF RegisterNew, PutNew, Put
  <2>4. QED BY <1>1, <1>2, <2>1, <2>2, <2>3 DEF ReturnsSized
<1>8. QED BY <1>1, <1>3, <1>4, <1>5, <1>6, <1>7 DEF Build

LEMMA BuildKeepsSizes ==
    ASSUME ReaderInv, SizesInv, Build, UNCHANGED <<anon, pointer>>
    PROVE  SizesInv'
<1>1. PICK key : ReturnsSized(key)
  BY BaseSized, CompositeSized, OthersSized DEF Build
<1>2. calls # <<>> /\ Top.die \in DOMAIN Dies
  BY TopType DEF Build
<1>3. AnonNamed'
  BY DEF SizesInv, AnonNamed
<1>4. \A k \in DOMAIN types : k \in DOMAIN types' /\ Stays(k)
  BY OwnTypeStays
<1>5. AnonSized'
  <2>1. SUFFICES ASSUME NEW k \in DOMAIN types', Head(k) = "@anon", types'[k].kind # "typedef"
                 PROVE  types'[k].size = k[3]
    BY DEF AnonSized
  <2>2. CASE k \in DOMAIN types
    <3>1. types'[k] = types[k] \/ (Named(Top.die) /\ OwnKey(Top.die) = k)
      BY <1>4, <2>2 DEF Stays
    <3>2. types'[k] = types[k]
      BY <1>2, <2>1, <3>1, NameNotMadeUp DEF SizesInv
    <3>3. QED BY <2>1, <2>2, <3>2 DEF SizesInv, AnonSized
  <2>3. CASE k \notin DOMAIN types
    BY <1>1, <2>1, <2>3 DEF ReturnsSized
  <2>4. QED BY <2>2, <2>3
<1>6. ConflictsReported'
  <2>1. keys' = Put(keys, Top.die, key)
    BY <1>1 DEF ReturnsSized, Return
  <2>2. SUFFICES ASSUME NEW d \in DOMAIN keys', IsDefinition(d), types'[keys'[d]].kind # "typedef",
                        types'[keys'[d]].size # OwnSize(d)
                 PROVE  keys'[d] \in conflicts'
    BY DEF ConflictsReported, Definitions, IsDefinition
  <2>3. CASE d = Top.die
    <3>1. keys'[d] = key
      BY <2>1, <2>3 DEF Put
    <3>2. QED BY <1>1, <2>2, <2>3, <3>1 DEF ReturnsSized
  <2>4. CASE d # Top.die
    <3>1. PICK k \in DOMAIN types : d \in DOMAIN keys /\ keys'[d] = k /\ keys[d] = k
      BY <2>1, <2>4 DEF Put, ReaderInv, KeysOK
    <3>2. types[k].kind # "typedef" /\ types[k].size # OwnSize(d)
      BY <1>4, <2>2, <3>1 DEF Stays, Composite
    <3>3. k \in conflicts
      BY <2>2, <3>1, <3>2 DEF SizesInv, ConflictsReported, Definitions, IsDefinition
    <3>4. QED BY <1>1, <3>1, <3>3 DEF ReturnsSized
  <2>5. QED BY <2>3, <2>4
<1>7. QED BY <1>3, <1>5, <1>6 DEF SizesInv

LEMMA CallKeepsSizes ==
    ASSUME ReaderInv, SizesInv, NEW d \in DOMAIN Dies, Call(d), UNCHANGED <<keys, conflicts, anon, pointer>>
    PROVE  SizesInv'
<1>1. \A k \in DOMAIN types : k \in DOMAIN types' /\ types'[k] = types[k]
  BY CallKeeps
<1>2. \A k \in DOMAIN types' : k \in DOMAIN types \/ (Named(d) /\ k = OwnKey(d))
  BY DEF Call, PutNew, Put
<1>3. AnonNamed'
  BY DEF SizesInv, AnonNamed
<1>4. AnonSized'
  BY <1>1, <1>2, NameNotMadeUp DEF SizesInv, AnonSized
<1>5. ConflictsReported'
  BY <1>1 DEF SizesInv, ConflictsReported, Definitions, ReaderInv, KeysOK
<1>6. QED BY <1>3, <1>4, <1>5 DEF SizesInv

\* The names of a unit's typedefs are names of the source.
LEMMA NotedNamed ==
    ASSUME NEW dies \in Seq(DOMAIN Dies), NEW ref \in DOMAIN NotedNames(dies)
    PROVE  ~IsSynthetic(NotedNames(dies)[ref])
<1> DEFINE noting(r) == {i \in DOMAIN dies : Notes(dies[i]) /\ Dies[dies[i]].ref = r}
           first(r) == CHOOSE i \in noting(r) : \A j \in noting(r) : i <= j
<1>1. noting(ref) # {} /\ NotedNames(dies)[ref] = Qualify(dies[first(ref)])
  BY DEF NotedNames
<1>2. noting(ref) \subseteq Nat
  BY DEF noting
<1>3. \E i \in noting(ref) : \A j \in noting(ref) : i <= j
  <2> DEFINE B == noting(ref)
  <2>1. B \subseteq Nat /\ B # {} BY <1>1, <1>2
  <2> HIDE DEF B
  <2>2. \E i \in B : \A j \in B : i <= j BY <2>1, LeastOf
  <2>3. QED BY <2>2 DEF B
<1>4. first(ref) \in noting(ref)
  BY <1>3
<1>5. PICK i \in DOMAIN dies : i = first(ref) /\ Notes(dies[i])
  BY <1>4
<1>6. dies[i] \in DOMAIN Dies /\ DieName(dies[i]) # <<>>
  <2>1. dies[i] \in DOMAIN Dies
    <3> DEFINE D == DOMAIN Dies
    <3>1. dies \in Seq(D) /\ i \in DOMAIN dies
      OBVIOUS
    <3> HIDE DEF D
    <3>2. dies[i] \in D
      BY <3>1
    <3>3. QED BY <3>2 DEF D
  <2>2. DieName(dies[i]) # <<>>
    BY <1>5 DEF Notes
  <2>3. QED BY <2>1, <2>2
<1>7. ~IsSynthetic(Qualify(dies[i]))
  BY <1>6, NamesAssumption
<1>8. QED BY <1>1, <1>5, <1>7

LEMMA SizesSame ==
    ASSUME SizesInv, UNCHANGED <<types, conflicts, keys, anon>>
    PROVE  SizesInv'
BY DEF SizesInv, AnonNamed, AnonSized, ConflictsReported, Definitions

LEMMA SizesStart ==
    ASSUME types = [k \in {VOID_KEY} |-> VoidType], keys = <<>>, anon = <<>>
    PROVE  SizesInv
<1>1. AnonNamed /\ ConflictsReported
  BY DEF AnonNamed, ConflictsReported, Definitions
<1>2. AnonSized
  BY DEF AnonSized, VOID_KEY
<1>3. QED BY <1>1, <1>2 DEF SizesInv

LEMMA ExtractKeepsSizes ==
    ASSUME ExtractInv, SizesInv, Extract
    PROVE  SizesInv'
<1>1. CASE OpenFile
  <2>1. UNCHANGED <<types, conflicts, anon>> /\ (keys' = <<>> \/ keys' = keys)
    BY <1>1 DEF OpenFile
  <2>2. QED BY <2>1 DEF SizesInv, AnonNamed, AnonSized, ConflictsReported, Definitions
<1>2. CASE ReadUnit
  <2>1. Units[unit].dies \in Seq(DOMAIN Dies)
    BY <1>2, UnitType DEF ReadUnit, ExtractInv
  <2>2. anon' = NotedNames(Units[unit].dies) \/ anon' = <<>>
    BY <1>2 DEF ReadUnit
  <2>3. AnonNamed'
    BY <2>1, <2>2, NotedNamed DEF AnonNamed
  <2>4. UNCHANGED <<types, conflicts, keys>>
    BY <1>2 DEF ReadUnit
  <2>5. QED BY <2>3, <2>4 DEF SizesInv, AnonSized, ConflictsReported, Definitions
<1>3. CASE CallType
  <2>1. PICK d \in DOMAIN Dies : d = Sought /\ Call(d)
    BY <1>3, SoughtType DEF CallType, ExtractInv
  <2>2. QED BY <1>3, <2>1, CallKeepsSizes DEF CallType, ExtractInv
<1>4. CASE ReadOn
  <2>1. CASE TakeChild
    BY <1>4, <2>1, SizesSame DEF ReadOn, TakeChild
  <2>2. CASE Build
    BY <1>4, <2>2, BuildKeepsSizes DEF ReadOn, ExtractInv
  <2>3. QED BY <1>4, <2>1, <2>2 DEF ReadOn
<1>5. CASE PassOver \/ EndType \/ CloseFile \/ Finish
  BY <1>5, SizesSame DEF PassOver, EndType, CloseFile, Finish, readerVars
<1>6. QED BY <1>1, <1>2, <1>3, <1>4, <1>5 DEF Extract

LEMMA SizesKept ==
    ASSUME ExtractInv, SizesInv, [Next]_vars
    PROVE  SizesInv'
<1>1. CASE BeginExtract
  <2>1. types' = [k \in {VOID_KEY} |-> VoidType] /\ keys' = <<>> /\ anon' = <<>>
    BY <1>1 DEF BeginExtract, StartExtraction
  <2>2. AnonNamed' /\ ConflictsReported'
    BY <2>1 DEF AnonNamed, ConflictsReported, Definitions
  <2>3. AnonSized'
    BY <2>1 DEF AnonSized, VOID_KEY
  <2>4. QED BY <2>2, <2>3 DEF SizesInv
<1>2. CASE ExtractStep
  BY <1>2, ExtractKeepsSizes DEF ExtractStep
<1>3. CASE UNCHANGED extractorVars
  BY <1>3, SizesSame DEF extractorVars, readerVars
<1>4. QED
  BY <1>1, <1>2, <1>3 DEF Next, RefuseExtract, ExtractFails, OpenOutput, Dump, Interrupt, RefuseDecode, BeginDecode,
                          LoadStep, DecodeEnds, Done, vars

\* In every session, a definition of another size than the type its name has is
\* among the conflicts, whatever the order of units and files (_note_conflict).
THEOREM SizesReported == Spec => []ConflictsReported
<1>1. Init => SizesInv
  BY SizesStart DEF Init, ExtractorInit
<1>2. ExtractInv /\ SizesInv /\ [Next]_vars => SizesInv'
  BY SizesKept
<1>3. SizesInv => ConflictsReported
  BY DEF SizesInv
<1>4. QED BY <1>1, <1>2, <1>3, ExtractInvariant, PTL DEF Spec

-----------------------------------------------------------------------------
(* Loads of a session.                                                      *)

\* The function codes of an item are each read once, and none is the default's.
LEMMA CodesRead ==
    ASSUME NEW S, NEW pairs \in Seq(S), \A f \in Range(pairs) : f.code # NoDefault
    PROVE  /\ \E T : Codes(pairs) \in Seq(T)
           /\ \A j \in DOMAIN Codes(pairs) : Codes(pairs)[j].code # NoDefault
           /\ \A j, k \in DOMAIN Codes(pairs) : Codes(pairs)[j].code = Codes(pairs)[k].code => j = k
<1> DEFINE D == DOMAIN pairs
           places == [i \in D |-> i]
           F == {i \in D : \A j \in 1 .. i - 1 : pairs[j].code # pairs[i].code}
           first == Keeping(places, F)
           last(c) == CHOOSE j \in DOMAIN pairs : pairs[j].code = c /\ \A k \in j + 1 .. Len(pairs) : pairs[k].code # c
           read(i) == [code |-> pairs[first[i]].code, struct |-> pairs[last(pairs[first[i]].code)].struct]
<1>1. Codes(pairs) = [i \in DOMAIN first |-> read(i)]
  BY DEF Codes
<1>2. places \in Seq(D) /\ DOMAIN places = D /\ D \subseteq Nat /\ D = 1 .. Len(pairs)
  OBVIOUS
<1>3. \A i, j \in DOMAIN places : places[i] = places[j] => i = j
  BY <1>2
<1>4. \A i \in D : pairs[i].code # NoDefault
  BY DEF Range
<1>5. \A i, j \in F : pairs[i].code = pairs[j].code => i = j
  <2>1. SUFFICES ASSUME NEW i \in F, NEW j \in F, pairs[i].code = pairs[j].code, i < j PROVE FALSE
    BY <1>2
  <2>2. i \in 1 .. j - 1
    BY <1>2, <2>1
  <2>3. QED BY <2>1, <2>2
<1>6. first \in Seq(D \cap F) /\ \A i, j \in DOMAIN first : first[i] = first[j] => i = j
  <2> HIDE DEF D, F, places
  <2>1. QED BY <1>2, <1>3, KeepingType, KeepingDistinct
<1> HIDE DEF F, D, places, first, last
<1>7. DOMAIN first = 1 .. Len(first) /\ Len(first) \in Nat /\ \A i \in DOMAIN first : first[i] \in D /\ first[i] \in F
  BY <1>6
<1>8. Codes(pairs) \in Seq({read(i) : i \in DOMAIN first})
  <2> DEFINE T == {read(i) : i \in DOMAIN first}
  <2>1. \A i \in DOMAIN first : read(i) \in T
    OBVIOUS
  <2> HIDE DEF read, T
  <2>2. QED BY <1>1, <1>7, <2>1 DEF T
<1>9. DOMAIN Codes(pairs) = DOMAIN first /\ \A i \in DOMAIN first : Codes(pairs)[i].code = pairs[first[i]].code
  BY <1>1
<1>10. QED BY <1>4, <1>5, <1>6, <1>7, <1>8, <1>9

\* What reading leaves of an item's function codes.
CodesOK(fcn) ==
    /\ \E T : fcn \in Seq(T)
    /\ \A j \in DOMAIN fcn : fcn[j].code # NoDefault
    /\ \A j, k \in DOMAIN fcn : fcn[j].code = fcn[k].code => j = k

\* Either shape of mapping file reads as a load needs it.
LEMMA MappingRead ==
    ASSUME NEW m \in DOMAIN Mappings
    PROVE  IsReading(ReadMapping(Mappings[m]))
<1> DEFINE given == Mappings[m]
           I == Range(given.items)
           T == {item \in I : GeneratedReads(item)}
           good == Keeping(given.items, T)
           read == ReadMapping(given)
<1>1. /\ given.unions \in Seq(Range(given.unions)) /\ given.items \in Seq(I)
      /\ \A item \in I : item.fcn \in Seq(Range(item.fcn)) /\ \A f \in Range(item.fcn) : f.code # NoDefault
  BY MappingsAssumption
<1>2. \A item \in I : CodesOK(Codes(item.fcn))
  BY <1>1, CodesRead DEF CodesOK
<1>3. \A item \in I : CodesOK(GeneratedCodes(item))
  <2>1. SUFFICES ASSUME NEW item \in I PROVE CodesOK(GeneratedCodes(item))
    OBVIOUS
  <2> DEFINE S == Range(item.fcn)
             usable == {f \in S : f.object /\ Usable(f.struct) /\ ~f.null /\ f.code # NotANumber}
             pairs == UsableCodes(item)
  <2>2. pairs \in Seq(S \cap usable)
    <3>1. pairs = Keeping(item.fcn, usable) BY DEF UsableCodes
    <3>2. item.fcn \in Seq(S) BY <1>1
    <3> HIDE DEF S, usable, pairs
    <3>3. QED BY <3>1, <3>2, KeepingType
  <2>3. \A f \in Range(pairs) : f.code # NoDefault
    <3>1. \A f \in S : f.code # NoDefault BY <1>1
    <3> HIDE DEF S, usable, pairs
    <3>2. \A i \in DOMAIN pairs : pairs[i] \in S BY <2>2
    <3>3. QED BY <3>1, <3>2 DEF Range
  <2>4. CodesOK(Codes(pairs))
    <3> DEFINE U == S \cap usable
    <3> HIDE DEF S, usable, pairs, U
    <3>1. pairs \in Seq(U) BY <2>2 DEF U
    <3>2. QED BY <3>1, <2>3, CodesRead DEF CodesOK
  <2>5. <<>> \in Seq({}) /\ CodesOK(<<>>)
    BY DEF CodesOK
  <2>6. QED BY <2>4, <2>5 DEF GeneratedCodes
<1>4. read.unions \in Seq({read.unions[i] : i \in DOMAIN given.unions})
  <2> DEFINE us == given.unions
             as(u) == [name |-> u.name, use |-> ReadUnion(u)]
  <2>1. read.unions = [i \in DOMAIN us |-> as(us[i])]
    BY DEF ReadMapping
  <2>2. DOMAIN us = 1 .. Len(us) /\ Len(us) \in Nat
    BY <1>1
  <2> DEFINE S == {read.unions[i] : i \in DOMAIN us}
             union(i) == as(us[i])
  <2>3. \A i \in 1 .. Len(us) : union(i) \in S
    BY <2>1, <2>2
  <2>4. read.unions = [i \in 1 .. Len(us) |-> union(i)]
    BY <2>1, <2>2
  <2> HIDE DEF union, S, read
  <2>5. read.unions \in Seq(S)
    BY <2>2, <2>3, <2>4
  <2>6. QED BY <2>5 DEF S
<1>5. good \in Seq(I \cap T)
  <2> HIDE DEF I, T
  <2>1. QED BY <1>1, KeepingType
<1>6. (\E S : read.entries \in Seq(S)) /\ \A i \in DOMAIN read.entries : CodesOK(read.entries[i].fcn)
  <2>1. CASE LooksGenerated(given)
    <3> DEFINE as(item) == Entry(item.name, item.value, GeneratedDefault(item), GeneratedCodes(item))
               S == {as(good[i]) : i \in DOMAIN good}
    <3>1. read.entries = [i \in DOMAIN good |-> as(good[i])]
      BY <2>1 DEF ReadMapping, ReadGenerated
    <3>2. \A item \in I : CodesOK(as(item).fcn)
      BY <1>3 DEF Entry
    <3>3. \A i \in DOMAIN good : as(good[i]) \in S
      OBVIOUS
    <3> HIDE DEF as, S, good, I, T, read
    <3>4. DOMAIN good = 1 .. Len(good) /\ Len(good) \in Nat /\ \A i \in DOMAIN good : good[i] \in I
      BY <1>5
    <3>5. read.entries \in Seq(S)
      <4> DEFINE entry(i) == as(good[i])
      <4>1. read.entries = [i \in 1 .. Len(good) |-> entry(i)] /\ \A i \in 1 .. Len(good) : entry(i) \in S
        BY <3>1, <3>3, <3>4
      <4> HIDE DEF entry
      <4>2. QED BY <3>4, <4>1
    <3>6. QED BY <3>1, <3>2, <3>4, <3>5
  <2>2. CASE ~LooksGenerated(given)
    <3> DEFINE items == given.items
               S == {ReadEntry(items[i]) : i \in DOMAIN items}
    <3>1. read.entries = [i \in DOMAIN items |-> ReadEntry(items[i])]
      BY <2>2 DEF ReadMapping
    <3>2. \A item \in I : CodesOK(ReadEntry(item).fcn)
      BY <1>2 DEF Entry, ReadEntry
    <3>3. \A i \in DOMAIN items : ReadEntry(items[i]) \in S
      OBVIOUS
    <3>4. items \in Seq(I)
      BY <1>1
    <3> HIDE DEF S, items, I, read
    <3>5. DOMAIN items = 1 .. Len(items) /\ Len(items) \in Nat /\ \A i \in DOMAIN items : items[i] \in I
      BY <3>4
    <3>6. read.entries \in Seq(S)
      BY <3>1, <3>3, <3>5
    <3>7. QED BY <3>1, <3>2, <3>5, <3>6
  <2>3. QED BY <2>1, <2>2
<1> HIDE DEF read, given, I, T, good
<1>7. IsReading(read)
  BY <1>4, <1>6 DEF IsReading, CodesOK
<1>8. QED BY <1>7 DEF read, given

\* A session loads one mapping after another, each as a load should go.
LEMMA LoadsStep ==
    ASSUME WalkInv, [Next]_vars
    PROVE  [LoadNext]_dictionaryVars
<1>1. CASE BeginDecode
  <2>1. Command \in Given /\ Command.kind = "decode"
    BY <1>1, GivenPaths DEF BeginDecode, Idle
  <2>2. Command.mapping \in DOMAIN Mappings
    BY <2>1, SessionsAssumption DEF Given
  <2>3. IsReading(Read)
    BY <2>2, MappingRead DEF Read, GivenMapping
  <2>4. \E given : StartLoad(disk, Read, given)
    BY <1>1 DEF BeginDecode
  <2>5. QED BY <2>3, <2>4 DEF LoadNext
<1>2. CASE LoadStep
  BY <1>2 DEF LoadStep, LoadNext
<1>3. CASE DecodeEnds
  BY <1>3 DEF DecodeEnds, LoadNext
<1>4. CASE UNCHANGED dictionaryVars
  BY <1>4
<1>5. QED
  BY <1>1, <1>2, <1>3, <1>4 DEF Next, RefuseExtract, BeginExtract, ExtractStep, ExtractFails, OpenOutput, Dump, Interrupt,
                                RefuseDecode, Done, vars

\* For every session: what a decode loads, it loads as a load of Dictionary does,
\* from mappings as ReadMapping gives them (cmd_decode, read_mapping).
THEOREM SessionsLoad == Spec => LoadSpec
<1>1. Init => LoadInit
  <2>1. ASSUME Init PROVE LoadInit
    <3>1. DictionaryInit /\ mapping = [entries |-> <<>>, unions |-> <<>>]
      BY <2>1 DEF Init
    <3>2. <<>> \in Seq({})
      OBVIOUS
    <3>3. IsReading(mapping)
      BY <3>1, <3>2 DEF IsReading
    <3>4. QED BY <3>1, <3>3 DEF LoadInit
  <2>2. QED BY <2>1
<1>2. ExtractInv /\ [Next]_vars => [LoadNext]_dictionaryVars
  BY LoadsStep DEF ExtractInv
<1>3. QED BY <1>1, <1>2, ExtractInvariant, PTL DEF Spec, LoadSpec

\* So that the promises of a load hold in every session: no entry is lost, a
\* message ID decodes by its first usable entry, an entry by its own structs
\* (Dictionary.load).
THEOREM SessionPromises == Spec => [](EveryEntryAccounted /\ FirstUsableWins /\ DecodersAreTheStructs)
BY SessionsLoad, NoEntryLost, FirstUsableKept, DecodersFaithful, PTL

-----------------------------------------------------------------------------
(* What extract keeps of a mapping, decode finds.                           *)

\* The key of a named entry of the walk is its name, if it came to a type.
KeysNamed ==
    \A d \in DOMAIN keys : Dies[d].tag \in WALK_TAGS /\ DieName(d) # <<>> => keys[d] \in {VOID_KEY, Qualify(d)}

\* What was recorded for a name matches it.
MatchedOK == \A r \in matched : r.tier \in Tiers(r.wanted, r.key)

RootsMatch(f) == f.whole => \A w \in DOMAIN f.roots : \A k \in f.roots[w] : Tiers(w, k) # {}

\* A load that failed for an unknown struct failed for one of the mapping's, that
\* extract did not find to be absent.
UnknownIsUnknown ==
    failure = "unknown" => \E w \in StructNames(mapping.entries) : Present(w) /\ Found(Types, w) = {}

RootsInv ==
    /\ KeysNamed /\ MatchedOK /\ RootsMatch(disk)
    /\ running = "loading" => typeFile.whole /\ RootsMatch(typeFile)
    /\ UnknownIsUnknown

LEMMA BuildNames ==
    ASSUME KeysNamed, Build
    PROVE  KeysNamed'
<1> DEFINE d == Top.die
<1>1. SUFFICES ASSUME NEW key, Return(key),
                      Dies[d].tag \in WALK_TAGS /\ DieName(d) # <<>> => key \in {VOID_KEY, Qualify(d)}
               PROVE  KeysNamed'
  <2> USE DEF WALK_TAGS, COMPOSITE_TAGS, QUALIFIER_TAGS, POINTER_TAGS
  <2>1. CASE BuildQualified(d)
    BY <1>1, <2>1 DEF BuildQualified
  <2>2. CASE BuildBase(d)
    BY <1>1, <2>2 DEF BuildBase
  <2>3. CASE BuildTypedef(d)
    BY <1>1, <2>3 DEF BuildTypedef
  <2>4. CASE BuildComposite(d)
    <3>1. DieName(d) # <<>> => Named(d) /\ OwnKey(d) = Qualify(d)
      BY DEF Named, OwnKey
    <3>2. DieName(d) # <<>> => Return(Qualify(d))
      BY <2>4, <3>1 DEF BuildComposite
    <3>3. \E key : Return(key)
      BY <2>4 DEF BuildComposite
    <3>4. QED BY <1>1, <3>2, <3>3
  <2>5. CASE BuildArray(d)
    <3>1. Dies[d].tag = "array" /\ \E key : Return(key)
      BY <2>5 DEF BuildArray
    <3>2. QED BY <1>1, <3>1
  <2>6. CASE BuildEnum(d)
    <3>1. DieName(d) # <<>> => Named(d) /\ OwnKey(d) = Qualify(d)
      BY DEF Named, OwnKey
    <3>2. DieName(d) # <<>> => Return(Qualify(d))
      BY <2>6, <3>1 DEF BuildEnum
    <3>3. \E key : Return(key)
      BY <2>6 DEF BuildEnum
    <3>4. QED BY <1>1, <3>2, <3>3
  <2>7. CASE BuildPointer(d)
    <3>1. Dies[d].tag \in POINTER_TAGS /\ \E key : Return(key)
      BY <2>7 DEF BuildPointer
    <3>2. QED BY <1>1, <3>1
  <2>8. CASE BuildVoid(d)
    BY <1>1, <2>8 DEF BuildVoid
  <2>9. \/ BuildQualified(d) \/ BuildBase(d) \/ BuildTypedef(d) \/ BuildComposite(d)
        \/ BuildArray(d) \/ BuildEnum(d) \/ BuildPointer(d) \/ BuildVoid(d)
    BY DEF Build
  <2>10. QED BY <2>1, <2>2, <2>3, <2>4, <2>5, <2>6, <2>7, <2>8, <2>9
<1>2. keys' = Put(keys, d, key)
  BY <1>1 DEF Return
<1>3. DOMAIN keys' = DOMAIN keys \cup {d} /\ \A e \in DOMAIN keys' : keys'[e] = IF e = d THEN key ELSE keys[e]
  BY <1>2 DEF Put
<1> HIDE DEF d
<1>4. QED BY <1>1, <1>3 DEF KeysNamed

\* A type recorded for the names that match its entry matches them.
LEMMA RecordMatches ==
    ASSUME WalkInv, KeysNamed, MatchedOK, EndType
    PROVE  MatchedOK'
<1> DEFINE job == Head(todo)
<1>1. job \in Jobs(Wanted) /\ job.die \in DOMAIN keys /\ matched' = Record(job.matches, keys[job.die])
  BY TodoStays DEF EndType
<1> HIDE DEF job
<1>2. \A m \in job.matches : m[2] \in Tiers(m[1], Qualify(job.die)) /\ keys[job.die] \in {VOID_KEY, Qualify(job.die)}
  BY <1>1 DEF Jobs, KeysNamed
<1>3. QED BY <1>1, <1>2 DEF MatchedOK, Record

LEMMA ExtractKeepsRoots ==
    ASSUME WalkInv, KeysNamed, MatchedOK, Extract
    PROVE  KeysNamed' /\ MatchedOK'
<1>1. CASE OpenFile
  BY <1>1 DEF OpenFile, KeysNamed, MatchedOK
<1>2. CASE ReadUnit \/ CallType \/ PassOver \/ CloseFile \/ Finish
  BY <1>2 DEF ReadUnit, CallType, PassOver, CloseFile, Finish, KeysNamed, MatchedOK, readerVars, walkVars
<1>3. CASE ReadOn
  <2>1. MatchedOK'
    BY <1>3 DEF ReadOn, walkVars, MatchedOK
  <2>2. CASE TakeChild
    BY <2>1, <2>2 DEF TakeChild, KeysNamed
  <2>3. CASE Build
    BY <2>1, <2>3, BuildNames
  <2>4. QED BY <1>3, <2>2, <2>3 DEF ReadOn
<1>4. CASE EndType
  BY <1>4, RecordMatches DEF EndType, KeysNamed, readerVars
<1>5. QED BY <1>1, <1>2, <1>3, <1>4 DEF Extract

\* What a name came to matches it.
LEMMA DumpedMatch == MatchedOK => RootsMatch(Dumped)
BY DEF MatchedOK, RootsMatch, Dumped, Resolution

\* The first entry that cannot be compiled names the struct that is at fault.
LEMMA FailedEntry ==
    ASSUME IsReading(mapping), FailEntry
    PROVE  \E w \in StructNames(mapping.entries) : Present(w) /\ Outcome(w) # "found" /\ failure' = Outcome(w)
<1> DEFINE entry == mapping.entries[next]
           structs == EntryStructs(entry)
           failing == Failing(entry)
<1>1. next \in DOMAIN mapping.entries /\ failing # {} /\ failure' = Outcome(structs[Min(failing)])
  BY DEF FailEntry, FailLoad, LoadingEntry
<1>2. PICK S : entry.fcn \in Seq(S)
  BY <1>1 DEF IsReading
<1> DEFINE codes == [i \in DOMAIN entry.fcn |-> entry.fcn[i].struct]
           default == IF entry.default = NoStruct THEN <<>> ELSE <<entry.default>>
           T == {entry.default} \cup {entry.fcn[i].struct : i \in DOMAIN entry.fcn}
<1>3. structs = default \o codes /\ default \in Seq(T) /\ codes \in Seq(T)
  <2>1. structs = default \o codes
    BY DEF EntryStructs
  <2>2. codes \in Seq(T)
    BY <1>2
  <2>3. entry.default \in T
    OBVIOUS
  <2> HIDE DEF codes, T, entry
  <2>4. QED BY <2>1, <2>2, <2>3
<1>4. DOMAIN structs \subseteq Nat
  <2> HIDE DEF structs, default, codes, T
  <2>1. QED BY <1>3
<1>5. failing \subseteq DOMAIN structs /\ \A i \in failing : Present(structs[i]) /\ Outcome(structs[i]) # "found"
  BY DEF Failing, Compiled
<1>6. \A i \in failing : structs[i] \in StructNames(mapping.entries)
  BY <1>1, <1>5 DEF StructNames, Range
<1> HIDE DEF failing, structs
<1>7. Min(failing) \in failing
  <2>1. \E m \in failing : \A k \in failing : m <= k
    BY <1>1, <1>4, <1>5, LeastOf
  <2>2. QED BY <2>1 DEF Min
<1>8. QED BY <1>1, <1>5, <1>6, <1>7

\* A union that is not in the type file fails no load.
LEMMA FailedUnions ==
    ASSUME IsReading(mapping), ResolveUnions
    PROVE  failure' \in {failure, "ambiguous", "misfit"}
<1> DEFINE bad == {i \in DOMAIN mapping.unions : UnionOutcome(mapping.unions[i]) \in {"ambiguous", "misfit"}}
<1>1. failure' = IF bad # {} THEN UnionOutcome(mapping.unions[Min(bad)]) ELSE failure
  BY DEF ResolveUnions, FailLoad
<1>2. bad \subseteq Nat
  BY DEF IsReading
<1>3. \A i \in bad : UnionOutcome(mapping.unions[i]) \in {"ambiguous", "misfit"}
  OBVIOUS
<1> HIDE DEF bad
<1>4. bad # {} => Min(bad) \in bad
  <2>1. bad # {} => \E m \in bad : \A k \in bad : m <= k
    BY <1>2, LeastOf
  <2>2. QED BY <2>1 DEF Min
<1>5. QED BY <1>1, <1>3, <1>4

LEMMA OutcomeUnknown ==
    ASSUME NEW w, Outcome(w) = "unknown"
    PROVE  Found(Types, w) = {}
BY DEF Outcome

LEMMA LoadKeepsUnknown ==
    ASSUME IsReading(mapping), UnknownIsUnknown, Load
    PROVE  UnknownIsUnknown'
<1>1. typeFile' = typeFile /\ mapping' = mapping
  BY DEF Load, ResolveUnions, FailEntry, DropEntry, AddEntry, EndLoad
<1>2. UnknownIsUnknown' <=>
         (failure' = "unknown" => \E w \in StructNames(mapping.entries) : Present(w) /\ Found(Types, w) = {})
  BY <1>1 DEF UnknownIsUnknown, Present, Types
<1>3. CASE FailEntry
  BY <1>2, <1>3, FailedEntry, OutcomeUnknown
<1>4. CASE ResolveUnions
  BY <1>2, <1>4, FailedUnions DEF UnknownIsUnknown
<1>5. CASE DropEntry \/ AddEntry
  BY <1>2, <1>5 DEF DropEntry, AddEntry, UnknownIsUnknown
<1>6. CASE EndLoad
  BY <1>2, <1>6 DEF EndLoad, FailLoad, UnknownIsUnknown
<1>7. QED BY <1>3, <1>4, <1>5, <1>6 DEF Load

LEMMA RootsKept ==
    ASSUME WalkInv, IsReading(mapping), RootsInv, [Next]_vars
    PROVE  RootsInv'
<1> USE DEF RootsInv
<1>1. CASE BeginExtract
  <2>1. keys' = <<>> /\ matched' = {} /\ running' = "extracting" /\ UNCHANGED <<disk, dictionaryVars>>
    BY <1>1 DEF BeginExtract, StartExtraction
  <2>2. KeysNamed' /\ MatchedOK'
    BY <2>1 DEF KeysNamed, MatchedOK
  <2>3. QED BY <2>1, <2>2 DEF RootsMatch, UnknownIsUnknown, dictionaryVars, Present, Types
<1>2. CASE ExtractStep
  <2>1. KeysNamed' /\ MatchedOK'
    BY <1>2, ExtractKeepsRoots DEF ExtractStep
  <2>2. UNCHANGED <<running, disk, dictionaryVars>>
    BY <1>2 DEF ExtractStep
  <2>3. QED BY <2>1, <2>2 DEF RootsMatch, UnknownIsUnknown, dictionaryVars, Present, Types
<1>3. CASE OpenOutput
  <2>1. running' = "writing" /\ disk' = Torn /\ UNCHANGED <<extractorVars, dictionaryVars>>
    BY <1>3 DEF OpenOutput
  <2>2. RootsMatch(disk')
    BY <2>1 DEF RootsMatch, Torn
  <2>3. QED
    BY <2>1, <2>2 DEF RootsMatch, UnknownIsUnknown, KeysNamed, MatchedOK, extractorVars, readerVars, walkVars,
                      dictionaryVars, Present, Types
<1>4. CASE Dump
  <2>1. running' = "no" /\ disk' = Dumped /\ UNCHANGED <<extractorVars, dictionaryVars>>
    BY <1>4 DEF Dump, Exit
  <2>2. RootsMatch(disk')
    BY <2>1, DumpedMatch
  <2>3. QED
    BY <2>1, <2>2 DEF RootsMatch, UnknownIsUnknown, KeysNamed, MatchedOK, extractorVars, readerVars, walkVars,
                      dictionaryVars, Present, Types
<1>5. CASE BeginDecode
  <2>1. disk.whole /\ typeFile' = disk /\ failure' = "" /\ UNCHANGED <<disk, extractorVars>>
    BY <1>5 DEF BeginDecode, StartLoad
  <2>2. UnknownIsUnknown'
    BY <2>1 DEF UnknownIsUnknown
  <2>3. QED
    BY <2>1, <2>2 DEF RootsMatch, KeysNamed, MatchedOK, extractorVars, readerVars, walkVars
<1>6. CASE LoadStep
  <2>1. Load /\ UNCHANGED <<running, disk, extractorVars>>
    BY <1>6 DEF LoadStep
  <2>2. typeFile' = typeFile
    BY <2>1 DEF Load, ResolveUnions, FailEntry, DropEntry, AddEntry, EndLoad
  <2>3. UnknownIsUnknown'
    BY <2>1, LoadKeepsUnknown
  <2>4. QED
    BY <2>1, <2>2, <2>3 DEF RootsMatch, KeysNamed, MatchedOK, extractorVars, readerVars, walkVars
<1>7. CASE DecodeEnds
  <2>1. running' = "no" /\ UNCHANGED <<disk, extractorVars, typeFile, mapping, failure>>
    BY <1>7 DEF DecodeEnds, Release, Exit
  <2>2. QED
    BY <2>1 DEF RootsMatch, UnknownIsUnknown, KeysNamed, MatchedOK, extractorVars, readerVars, walkVars, Present, Types
<1>8. CASE UNCHANGED <<disk, extractorVars, dictionaryVars>> /\ running' \in {running, "no"}
  BY <1>8 DEF RootsMatch, UnknownIsUnknown, KeysNamed, MatchedOK, extractorVars, readerVars, walkVars,
              dictionaryVars, Present, Types
<1>9. QED
  BY <1>1, <1>2, <1>3, <1>4, <1>5, <1>6, <1>7, <1>8
     DEF Next, RefuseExtract, ExtractFails, Interrupt, RefuseDecode, Exit, Done, vars

\* A registered type that matches a name by some rule is what the index finds for
\* it, or not the only one.
LEMMA MatchedIsFound ==
    ASSUME NEW registry, NEW w, NEW k \in Indexed(registry), Tiers(w, k) # {}
    PROVE  Found(registry, w) # {}
<1>1. k \in DOMAIN registry
  BY DEF Indexed
<1>2. CASE w = k
  BY <1>1, <1>2 DEF Found
<1>3. CASE w = LastPart(k)
  BY <1>1, <1>3 DEF Found
<1>4. CASE Lower(w) \in {Lower(k), Lower(LastPart(k))}
  BY <1>1, <1>4 DEF Found
<1>5. QED BY <1>2, <1>3, <1>4 DEF Tiers

\* For every build, mapping and session: a decode stops at an unknown struct only
\* if its mapping has a name the filter of extract did not have, or that came to
\* nothing but enums (NameFilter.record, _NameIndex.find).
THEOREM ExtractedStructsLoad == Spec => []ExtractedLoads
<1>1. Init => RootsInv
  <2>1. SUFFICES ASSUME Init PROVE RootsInv
    OBVIOUS
  <2>2. disk = NoFile /\ running = "no" /\ failure = ""
    BY <2>1 DEF Init, DictionaryInit
  <2>3. keys = <<>> /\ matched = {}
    BY <2>1 DEF Init, ExtractorInit
  <2>4. KeysNamed /\ MatchedOK
    BY <2>3 DEF KeysNamed, MatchedOK
  <2>5. RootsMatch(disk)
    BY <2>2 DEF RootsMatch, NoFile
  <2>6. QED BY <2>2, <2>4, <2>5 DEF RootsInv, UnknownIsUnknown
<1>2. ExtractInv /\ LoadInv /\ RootsInv /\ [Next]_vars => RootsInv'
  BY RootsKept DEF ExtractInv, LoadInv, AtEntry
<1>3. RootsInv => ExtractedLoads
  <2>1. SUFFICES ASSUME RootsInv, running = "loading", failure = "unknown"
                 PROVE  \E w \in StructNames(mapping.entries) :
                           /\ w \notin typeFile.unresolved
                           /\ ~(w \in DOMAIN typeFile.roots /\ typeFile.roots[w] \cap Indexed(typeFile.types) # {})
    BY DEF ExtractedLoads
  <2>2. PICK w \in StructNames(mapping.entries) : Present(w) /\ Found(Types, w) = {}
    BY <2>1 DEF RootsInv, UnknownIsUnknown
  <2>3. ASSUME w \in DOMAIN typeFile.roots, NEW k \in typeFile.roots[w], k \in Indexed(typeFile.types)
        PROVE  FALSE
    <3>1. Tiers(w, k) # {}
      BY <2>1, <2>3 DEF RootsInv, RootsMatch
    <3>2. Found(Types, w) # {}
      BY <2>3, <3>1, MatchedIsFound DEF Types
    <3>3. QED BY <2>2, <3>2
  <2>4. QED BY <2>2, <2>3 DEF Present
<1>4. Spec => []LoadInv
  BY SessionsLoad, LoadInvariance, PTL
<1>5. QED BY <1>1, <1>2, <1>3, <1>4, ExtractInvariant, PTL DEF Spec

-----------------------------------------------------------------------------
(* Types of a session.                                                      *)

WalkTypes ==
    /\ extraction \in {"idle", "reading", "done", "failed", "crashed"}
    /\ warned \subseteq DOMAIN Dies \cup DOMAIN Files
    /\ sources \subseteq DOMAIN Files
    /\ DOMAIN geometry \subseteq GEOMETRY_TYPES /\ \A g \in DOMAIN geometry : geometry[g] \in Nat \ {0}

LoadTypes ==
    /\ loading \in {"idle", "unions", "entries", "loaded", "failed"}
    /\ failure \in {"", "unknown", "ambiguous", "not a struct", "misfit", "empty"}

SessionTypes ==
    /\ running \in {"no", "extracting", "writing", "loading"}
    /\ exits \in Seq({0, 1, Interrupted})

LEMMA ExtractKeepsTypes ==
    ASSUME WalkInv, RegistryOK, WalkTypes, Extract
    PROVE  WalkTypes'
<1> USE DEF WalkTypes
<1>1. CASE OpenFile
  BY <1>1 DEF OpenFile
<1>2. CASE ReadUnit
  <2>1. Path \in DOMAIN Files
    BY <1>2, PathType DEF ReadUnit
  <2>2. extraction' \in {extraction, "crashed"} /\ warned' \in {warned, warned \cup {Path}} /\ UNCHANGED <<sources, geometry>>
    BY <1>2 DEF ReadUnit
  <2>3. QED BY <2>1, <2>2
<1>3. CASE CallType \/ ReadOn \/ EndType
  BY <1>3 DEF CallType, ReadOn, EndType, walkVars
<1>4. CASE PassOver
  <2>1. Head(todo).die \in DOMAIN Dies
    BY <1>4, TodoStays DEF PassOver, Seeking
  <2>2. QED BY <1>4, <2>1 DEF PassOver
<1>5. CASE CloseFile
  <2>1. Path \in DOMAIN Files
    BY <1>5, PathType DEF CloseFile
  <2> DEFINE sized == {g \in GEOMETRY_TYPES : SizeOr0(types, g) > 0}
  <2>2. geometry' = [g \in DOMAIN geometry \cup sized |-> IF g \in sized THEN SizeOf(types, g) ELSE geometry[g]]
    BY <1>5 DEF CloseFile
  <2>3. \A g \in sized : g \in GEOMETRY_TYPES /\ SizeOf(types, g) \in Nat \ {0}
    <3>1. \A g : SizeOf(types, g) \in Int
      BY SizesAreNumbers
    <3>2. QED BY <3>1 DEF SizeOr0
  <2> HIDE DEF sized
  <2>4. DOMAIN geometry' \subseteq GEOMETRY_TYPES /\ \A g \in DOMAIN geometry' : geometry'[g] \in Nat \ {0}
    BY <2>2, <2>3
  <2>5. sources' = sources \cup {Path} /\ UNCHANGED <<warned, extraction>>
    BY <1>5 DEF CloseFile
  <2>6. QED BY <2>1, <2>4, <2>5
<1>6. CASE Finish
  BY <1>6 DEF Finish
<1>7. QED BY <1>1, <1>2, <1>3, <1>4, <1>5, <1>6 DEF Extract

LEMMA OutcomeType ==
    ASSUME NEW w, Outcome(w) # "found"
    PROVE  Outcome(w) \in {"unknown", "ambiguous", "not a struct"}
BY DEF Outcome

LEMMA LoadKeepsTypes ==
    ASSUME IsReading(mapping), LoadTypes, Load
    PROVE  LoadTypes'
<1> USE DEF LoadTypes
<1>1. CASE ResolveUnions
  <2>1. loading' \in {"failed", "entries"}
    BY <1>1 DEF ResolveUnions, FailLoad
  <2>2. QED BY <1>1, <2>1, FailedUnions
<1>2. CASE FailEntry
  <2>1. loading' = "failed"
    BY <1>2 DEF FailEntry, FailLoad
  <2>2. failure' \in {"unknown", "ambiguous", "not a struct"}
    BY <1>2, FailedEntry, OutcomeType
  <2>3. QED BY <2>1, <2>2
<1>3. CASE DropEntry \/ AddEntry
  BY <1>3 DEF DropEntry, AddEntry
<1>4. CASE EndLoad
  BY <1>4 DEF EndLoad, FailLoad
<1>5. QED BY <1>1, <1>2, <1>3, <1>4 DEF Load

LEMMA ExitTypes ==
    ASSUME SessionTypes, NEW status \in {0, 1, Interrupted}, Exit(status)
    PROVE  SessionTypes'
<1> DEFINE S == {0, 1, Interrupted}
<1>1. exits \in Seq(S) /\ status \in S /\ exits' = Append(exits, status) /\ running' = "no"
  BY DEF SessionTypes, Exit
<1> HIDE DEF S
<1>2. exits' \in Seq(S)
  BY <1>1
<1>3. QED BY <1>1, <1>2 DEF S, SessionTypes

LEMMA TypesKept ==
    ASSUME WalkInv, RegistryOK, IsReading(mapping), WalkTypes, LoadTypes, SessionTypes, [Next]_vars
    PROVE  WalkTypes' /\ LoadTypes' /\ SessionTypes'
<1>1. UNCHANGED extractorVars => WalkTypes'
  BY DEF WalkTypes, extractorVars, walkVars
<1>2. UNCHANGED dictionaryVars => LoadTypes'
  BY DEF LoadTypes, dictionaryVars
<1>3. UNCHANGED exits /\ running' \in {"no", "extracting", "writing", "loading"} => SessionTypes'
  BY DEF SessionTypes
<1>4. CASE RefuseExtract \/ ExtractFails \/ Dump \/ Interrupt \/ RefuseDecode
  BY <1>1, <1>2, <1>4, ExitTypes DEF RefuseExtract, ExtractFails, Dump, Interrupt, RefuseDecode
<1>5. CASE BeginExtract
  <2>1. WalkTypes'
    BY <1>5 DEF BeginExtract, StartExtraction, WalkTypes
  <2>2. QED BY <1>2, <1>3, <1>5, <2>1 DEF BeginExtract
<1>6. CASE ExtractStep
  BY <1>2, <1>3, <1>6, ExtractKeepsTypes DEF ExtractStep, SessionTypes
<1>7. CASE OpenOutput
  BY <1>1, <1>2, <1>3, <1>7 DEF OpenOutput
<1>8. CASE BeginDecode
  <2>1. LoadTypes'
    BY <1>8 DEF BeginDecode, StartLoad, LoadTypes
  <2>2. QED BY <1>1, <1>3, <1>8, <2>1 DEF BeginDecode
<1>9. CASE LoadStep
  BY <1>1, <1>3, <1>9, LoadKeepsTypes DEF LoadStep, SessionTypes
<1>10. CASE DecodeEnds
  <2>1. LoadTypes'
    BY <1>10 DEF DecodeEnds, Release, LoadTypes
  <2>2. SessionTypes'
    BY <1>10, ExitTypes DEF DecodeEnds
  <2>3. QED BY <1>1, <1>10, <2>1, <2>2 DEF DecodeEnds
<1>11. CASE UNCHANGED vars
  BY <1>1, <1>2, <1>3, <1>11 DEF vars, SessionTypes
<1>12. QED BY <1>4, <1>5, <1>6, <1>7, <1>8, <1>9, <1>10, <1>11 DEF Next, Done

\* The variables of a session keep their types: the key of each entry read is
\* that of a type in the registry, a header's size is a positive number, a load
\* that failed has a reason the code gives.
THEOREM SessionTypesKept == Spec => []TypeOK
<1> DEFINE Inv == WalkTypes /\ LoadTypes /\ SessionTypes
<1>1. Init => Inv
  <2> SUFFICES ASSUME Init PROVE Inv
    OBVIOUS
  <2>1. WalkTypes
    BY DEF Init, ExtractorInit, WalkTypes
  <2>2. LoadTypes
    BY DEF Init, DictionaryInit, LoadTypes
  <2>3. SessionTypes
    BY DEF Init, SessionTypes
  <2>4. QED BY <2>1, <2>2, <2>3
<1>2. ExtractInv /\ LoadInv /\ Inv /\ [Next]_vars => Inv'
  BY TypesKept DEF ExtractInv, ReaderInv, LoadInv, AtEntry
<1>3. ExtractInv /\ Inv => TypeOK
  <2>1. SUFFICES ASSUME ExtractInv, Inv PROVE TypeOK
    OBVIOUS
  <2>2. \A i \in DOMAIN exits : exits[i] \in {0, 1, Interrupted}
    <3> DEFINE S == {0, 1, Interrupted}
    <3>1. exits \in Seq(S) BY <2>1 DEF SessionTypes
    <3> HIDE DEF S
    <3>2. \A i \in DOMAIN exits : exits[i] \in S BY <3>1
    <3>3. QED BY <3>2 DEF S
  <2>3. \A d \in DOMAIN keys : d \in DOMAIN Dies /\ keys[d] \in DOMAIN types
    BY <2>1 DEF ExtractInv, ReaderInv, KeysOK
  <2>4. QED BY <2>1, <2>2, <2>3 DEF WalkTypes, LoadTypes, SessionTypes, TypeOK
<1>4. Spec => []LoadInv
  BY SessionsLoad, LoadInvariance, PTL
<1> HIDE DEF Inv
<1>5. QED BY <1>1, <1>2, <1>3, <1>4, ExtractInvariant, PTL DEF Spec
=============================================================================
