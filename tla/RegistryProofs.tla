--------------------------- MODULE RegistryProofs ---------------------------
(***************************************************************************)
(* Proofs that do not depend on the system: what is defined by recursion   *)
(* over numbers, and what the operators on sequences return.               *)
(***************************************************************************)
EXTENDS TypeRegistry, SequencesExt, FiniteSetTheorems, FunctionTheorems, NaturalsInduction, WellFoundedInduction, TLAPS

-----------------------------------------------------------------------------
(* Recursion over numbers.                                                  *)

\* A set of numbers has a least.
LEMMA LeastOf ==
    ASSUME NEW B, B \subseteq Nat, B # {}
    PROVE  \E m \in B : \A k \in B : m <= k
<1>1. \E m \in B : \A k \in B : ~ <<k, m>> \in OpToRel(<, Nat)
  BY WFMin, NatLessThanWellFounded
<1>2. PICK m \in B : \A k \in B : ~(k < m)
  BY <1>1 DEF OpToRel
<1>3. \A k \in B : m <= k
  BY <1>2
<1>4. QED BY <1>3

\* How a value in S comes of the one before, for each number up to n.
Steps(S, n) == [1 .. n -> [S -> S]]

\* What is defined from the number before is defined for every number up to n.
LEMMA RecursionExists ==
    ASSUME NEW S, NEW a \in S, NEW n \in Nat, NEW step \in Steps(S, n)
    PROVE  \E g \in [0 .. n -> S] : \A i \in 0 .. n : g[i] = IF i = 0 THEN a ELSE step[i][g[i - 1]]
<1> DEFINE upTo(g, m) == \A i \in 0 .. m : g[i] = IF i = 0 THEN a ELSE step[i][g[i - 1]]
           B == {m \in 0 .. n : ~ \E g \in [0 .. n -> S] : upTo(g, m)}
<1>1. SUFFICES B = {}
  <2>1. n \in 0 .. n OBVIOUS
  <2>2. QED BY <2>1
<1>2. SUFFICES ASSUME B # {} PROVE FALSE
  OBVIOUS
<1>3. PICK m \in B : \A k \in B : m <= k
  <2>1. B \subseteq Nat OBVIOUS
  <2> HIDE DEF B
  <2>2. QED BY <2>1, <1>2, LeastOf
<1>4. CASE m = 0
  <2>1. [i \in 0 .. n |-> a] \in [0 .. n -> S] /\ upTo([i \in 0 .. n |-> a], 0)
    OBVIOUS
  <2>2. QED BY <1>4, <2>1
<1>5. CASE m # 0
  <2>1. m \in 1 .. n /\ m - 1 \in 0 .. n /\ m - 1 \notin B
    <3>1. m \in 0 .. n OBVIOUS
    <3>2. m \in 1 .. n /\ m - 1 \in 0 .. n /\ ~(m <= m - 1) BY <3>1, <1>5
    <3> HIDE DEF B
    <3>3. QED BY <3>2, <1>3
  <2>2. PICK g \in [0 .. n -> S] : upTo(g, m - 1)
    BY <2>1
  <2> DEFINE h == [g EXCEPT ![m] = step[m][g[m - 1]]]
  <2>3. step[m][g[m - 1]] \in S
    BY <2>1 DEF Steps
  <2>4. h \in [0 .. n -> S] /\ h[m] = step[m][g[m - 1]] /\ \A i \in 0 .. n : i # m => h[i] = g[i]
    BY <2>1, <2>3
  <2> HIDE DEF h
  <2>5. ASSUME NEW i \in 0 .. m
        PROVE  h[i] = IF i = 0 THEN a ELSE step[i][h[i - 1]]
    <3>1. m \in 1 .. n BY <2>1
    <3>2. CASE i = m
      <4>1. h[i - 1] = g[m - 1] BY <2>4, <3>1, <3>2
      <4>2. QED BY <2>4, <3>1, <3>2, <4>1
    <3>3. CASE i # m
      <4>1. i \in 0 .. n /\ i \in 0 .. m - 1 /\ (i # 0 => i - 1 \in 0 .. n /\ i - 1 # m)
        BY <3>1, <3>3
      <4>2. g[i] = IF i = 0 THEN a ELSE step[i][g[i - 1]]
        BY <2>2, <4>1
      <4>3. h[i] = g[i] /\ (i # 0 => h[i - 1] = g[i - 1])
        BY <2>4, <4>1, <3>3
      <4>4. QED BY <4>2, <4>3
    <3>4. QED BY <3>2, <3>3
  <2>6. upTo(h, m)
    BY <2>5
  <2>7. QED BY <2>4, <2>6, <1>3
<1>6. QED BY <1>4, <1>5

\* And it is in S.
LEMMA RecursionTyped ==
    ASSUME NEW S, NEW a \in S, NEW n \in Nat, NEW step \in Steps(S, n), NEW f,
           \A i \in 0 .. n : f[i] = IF i = 0 THEN a ELSE step[i][f[i - 1]]
    PROVE  \A i \in 0 .. n : f[i] \in S
<1> DEFINE B == {i \in 0 .. n : f[i] \notin S}
<1>1. SUFFICES ASSUME B # {} PROVE FALSE
  OBVIOUS
<1>2. PICK m \in B : \A k \in B : m <= k
  <2>1. B \subseteq Nat OBVIOUS
  <2> HIDE DEF B
  <2>2. QED BY <2>1, <1>1, LeastOf
<1>3. m # 0
  BY <1>2
<1>4. m \in 1 .. n /\ m - 1 \in 0 .. n /\ m - 1 \notin B
  <2>1. m \in 0 .. n OBVIOUS
  <2>2. m \in 1 .. n /\ m - 1 \in 0 .. n /\ ~(m <= m - 1) BY <2>1, <1>3
  <2> HIDE DEF B
  <2>3. QED BY <2>2, <1>2
<1>5. f[m - 1] \in S
  BY <1>4
<1>6. QED BY <1>2, <1>4, <1>5 DEF Steps

-----------------------------------------------------------------------------
(* Keeping.                                                                 *)

\* What is kept of a sequence is had one element after another.
LEMMA KeepingSteps ==
    ASSUME NEW S, NEW s \in Seq(S), NEW T
    PROVE  \E kept :
              /\ Keeping(s, T) = kept[Len(s)]
              /\ \A i \in 0 .. Len(s) :
                    /\ kept[i] \in Seq(S \cap T)
                    /\ kept[i] = IF i = 0 THEN <<>> ELSE IF s[i] \in T THEN Append(kept[i - 1], s[i]) ELSE kept[i - 1]
<1> DEFINE U == S \cap T
           body(i, r) == IF s[i] \in T THEN Append(r, s[i]) ELSE r
           step == [i \in 1 .. Len(s) |-> [r \in Seq(U) |-> body(i, r)]]
           kept == CHOOSE f : f = [n \in 0 .. Len(s) |-> IF n = 0 THEN <<>> ELSE body(n, f[n - 1])]
<1>1. Keeping(s, T) = kept[Len(s)]
  BY DEF Keeping
<1>2. Len(s) \in Nat /\ <<>> \in Seq(U) /\ Len(s) \in 0 .. Len(s)
  OBVIOUS
<1>3. \A i \in 1 .. Len(s) : \A r \in Seq(U) : body(i, r) \in Seq(U)
  <2>1. SUFFICES ASSUME NEW i \in 1 .. Len(s), NEW r \in Seq(U) PROVE body(i, r) \in Seq(U)
    OBVIOUS
  <2>2. s[i] \in S OBVIOUS
  <2>3. s[i] \in T => s[i] \in U BY <2>2
  <2> HIDE DEF U
  <2>4. s[i] \in T => Append(r, s[i]) \in Seq(U) BY <2>3
  <2>5. QED BY <2>4
<1> HIDE DEF body, U
<1>4. step \in [1 .. Len(s) -> [Seq(U) -> Seq(U)]] /\ \A i \in 1 .. Len(s) : \A r \in Seq(U) : step[i][r] = body(i, r)
  BY <1>3
<1> HIDE DEF step
<1>5. PICK g \in [0 .. Len(s) -> Seq(U)] : \A i \in 0 .. Len(s) : g[i] = IF i = 0 THEN <<>> ELSE step[i][g[i - 1]]
  <2> DEFINE V == Seq(U)
             N == Len(s)
             none == <<>>
  <2>1. N \in Nat /\ none \in V /\ step \in Steps(V, N)
    BY <1>2, <1>4 DEF Steps
  <2> HIDE DEF V, N, none
  <2>2. \E g \in [0 .. N -> V] : \A i \in 0 .. N : g[i] = IF i = 0 THEN none ELSE step[i][g[i - 1]]
    BY <2>1, RecursionExists
  <2>3. QED BY <2>2 DEF V, N, none
<1>6. g = [n \in 0 .. Len(s) |-> IF n = 0 THEN <<>> ELSE body(n, g[n - 1])]
  <2>1. \A i \in 0 .. Len(s) : i # 0 => i \in 1 .. Len(s) /\ i - 1 \in 0 .. Len(s)
    BY <1>2
  <2>2. \A i \in 0 .. Len(s) : g[i] = IF i = 0 THEN <<>> ELSE body(i, g[i - 1])
    BY <1>4, <1>5, <2>1
  <2>3. QED BY <2>2
<1>7. kept = [n \in 0 .. Len(s) |-> IF n = 0 THEN <<>> ELSE body(n, kept[n - 1])]
  BY <1>6
<1> HIDE DEF kept
<1>8. \A i \in 0 .. Len(s) : kept[i] = IF i = 0 THEN <<>> ELSE body(i, kept[i - 1])
  BY <1>7
<1> DEFINE B == {i \in 0 .. Len(s) : kept[i] \notin Seq(U)}
<1>9. B = {}
  <2>1. SUFFICES ASSUME B # {} PROVE FALSE
    OBVIOUS
  <2>2. PICK m \in B : \A k \in B : m <= k
    <3>1. B \subseteq Nat OBVIOUS
    <3> HIDE DEF B
    <3>2. QED BY <3>1, <2>1, LeastOf
  <2>3. m \in 0 .. Len(s) /\ m # 0
    BY <1>2, <1>8
  <2>4. m \in 1 .. Len(s) /\ m - 1 \in 0 .. Len(s) /\ ~(m <= m - 1)
    BY <2>3, <1>2
  <2>5. kept[m - 1] \in Seq(U)
    BY <2>2, <2>4
  <2>6. kept[m] = body(m, kept[m - 1])
    BY <2>3, <1>8
  <2>7. QED BY <2>4, <2>5, <2>6, <1>3
<1>10. QED BY <1>1, <1>8, <1>9 DEF U, body

\* It is a sequence of those of its elements that are in T.
LEMMA KeepingType ==
    ASSUME NEW S, NEW s \in Seq(S), NEW T
    PROVE  Keeping(s, T) \in Seq(S \cap T)
<1>1. Len(s) \in 0 .. Len(s)
  OBVIOUS
<1>2. QED BY <1>1, KeepingSteps

\* None of them is kept twice.
LEMMA KeepingDistinct ==
    ASSUME NEW S, NEW s \in Seq(S), NEW T, \A i, j \in DOMAIN s : s[i] = s[j] => i = j
    PROVE  \A i, j \in DOMAIN Keeping(s, T) : Keeping(s, T)[i] = Keeping(s, T)[j] => i = j
<1> DEFINE N == Len(s)
           U == S \cap T
<1>1. PICK kept : /\ Keeping(s, T) = kept[N]
                  /\ \A i \in 0 .. N :
                        /\ kept[i] \in Seq(U)
                        /\ kept[i] = IF i = 0 THEN <<>> ELSE IF s[i] \in T THEN Append(kept[i - 1], s[i]) ELSE kept[i - 1]
  BY KeepingSteps
<1> DEFINE distinct(n) == /\ \A i, j \in DOMAIN kept[n] : kept[n][i] = kept[n][j] => i = j
                          /\ \A i \in DOMAIN kept[n] : \E j \in 1 .. n : kept[n][i] = s[j]
           B == {n \in 0 .. N : ~distinct(n)}
<1>2. N \in Nat /\ N \in 0 .. N /\ DOMAIN s = 1 .. N
  OBVIOUS
<1> HIDE DEF N, U
<1>3. B = {}
  <2>1. SUFFICES ASSUME B # {} PROVE FALSE
    OBVIOUS
  <2>2. PICK m \in B : \A k \in B : m <= k
    <3>1. B \subseteq Nat BY <1>2
    <3> HIDE DEF B
    <3>2. QED BY <3>1, <2>1, LeastOf
  <2>3. m \in 0 .. N /\ m # 0
    <3>1. kept[0] = <<>> BY <1>1, <1>2
    <3>2. distinct(0) BY <3>1
    <3>3. QED BY <3>2, <2>2
  <2>4. m \in 1 .. N /\ m - 1 \in 0 .. N /\ ~(m <= m - 1)
    BY <2>3, <1>2
  <2>5. distinct(m - 1)
    BY <2>2, <2>4
  <2>6. kept[m - 1] \in Seq(U) /\ kept[m] = IF s[m] \in T THEN Append(kept[m - 1], s[m]) ELSE kept[m - 1]
    BY <1>1, <2>3, <2>4
  <2>7. CASE s[m] \notin T
    BY <2>2, <2>4, <2>5, <2>6, <2>7
  <2>8. CASE s[m] \in T
    <3> DEFINE r == kept[m - 1]
               q == kept[m]
    <3>1. /\ Len(r) \in Nat /\ DOMAIN r = 1 .. Len(r) /\ DOMAIN q = 1 .. Len(r) + 1
          /\ q[Len(r) + 1] = s[m] /\ \A i \in 1 .. Len(r) : q[i] = r[i]
      BY <2>6, <2>8
    <3>2. \A i \in 1 .. Len(r) : r[i] # s[m]
      <4>1. SUFFICES ASSUME NEW i \in 1 .. Len(r), r[i] = s[m] PROVE FALSE
        OBVIOUS
      <4>2. PICK j \in 1 .. m - 1 : r[i] = s[j]
        BY <2>5, <3>1
      <4>3. j \in 1 .. N /\ j # m
        BY <1>2, <2>4
      <4>4. QED BY <1>2, <2>4, <4>1, <4>2, <4>3
    <3>3. \A i, j \in 1 .. Len(r) : r[i] = r[j] => i = j
      BY <2>5, <3>1
    <3>4. \A i \in 1 .. Len(r) : \E j \in 1 .. m : r[i] = s[j]
      <4>1. 1 .. m - 1 \subseteq 1 .. m BY <2>4
      <4>2. QED BY <2>5, <3>1, <4>1
    <3> HIDE DEF r, q
    <3>5. \A i \in DOMAIN q : i \in 1 .. Len(r) \/ i = Len(r) + 1
      BY <3>1
    <3>6. \A i, j \in DOMAIN q : q[i] = q[j] => i = j
      BY <3>1, <3>2, <3>3, <3>5
    <3>7. \A i \in DOMAIN q : \E j \in 1 .. m : q[i] = s[j]
      BY <2>4, <3>1, <3>4, <3>5
    <3>8. QED BY <2>2, <3>6, <3>7 DEF q
  <2>9. QED BY <2>7, <2>8
<1>4. distinct(N)
  BY <1>2, <1>3
<1>5. QED BY <1>1, <1>4

-----------------------------------------------------------------------------
(* Sequences.                                                               *)

\* A sequence, whatever of.
IsSeq(s) == s \in Seq(Range(s))

LEMMA IsSeqOf ==
    ASSUME NEW S, NEW s \in Seq(S)
    PROVE  IsSeq(s) /\ Range(s) \subseteq S
<1>1. DOMAIN s = 1 .. Len(s) /\ Len(s) \in Nat /\ \A i \in 1 .. Len(s) : s[i] \in S
  OBVIOUS
<1>2. \A i \in 1 .. Len(s) : s[i] \in Range(s)
  BY <1>1 DEF Range
<1>3. s = [i \in 1 .. Len(s) |-> s[i]]
  OBVIOUS
<1>4. s \in Seq(Range(s))
  BY <1>1, <1>2, <1>3
<1>5. QED BY <1>1, <1>4 DEF IsSeq, Range

LEMMA IsSeqFacts ==
    ASSUME NEW s, IsSeq(s)
    PROVE  /\ Len(s) \in Nat /\ DOMAIN s = 1 .. Len(s)
           /\ \A i \in 1 .. Len(s) : s[i] \in Range(s)
           /\ Range(s) = {s[i] : i \in 1 .. Len(s)}
BY DEF IsSeq, Range

\* A function on 1 .. n is one.
LEMMA IsSeqFrom ==
    ASSUME NEW n \in Nat, NEW s, s = [i \in 1 .. n |-> s[i]]
    PROVE  IsSeq(s) /\ Len(s) = n /\ DOMAIN s = 1 .. n
<1>1. DOMAIN s = 1 .. n
  OBVIOUS
<1>2. s \in [1 .. n -> Range(s)]
  BY <1>1 DEF Range
<1>3. s \in Seq(Range(s)) /\ Len(s) = n
  BY <1>2
<1>4. QED BY <1>1, <1>3 DEF IsSeq

LEMMA IsSeqAppend ==
    ASSUME NEW s, IsSeq(s), NEW e
    PROVE  LET t == Append(s, e)
           IN  /\ IsSeq(t) /\ Len(t) = Len(s) + 1 /\ DOMAIN t = 1 .. Len(s) + 1
               /\ t[Len(s) + 1] = e /\ \A i \in 1 .. Len(s) : t[i] = s[i]
               /\ Range(t) = Range(s) \cup {e}
<1> DEFINE t == Append(s, e)
           S == Range(s) \cup {e}
<1>1. s \in Seq(S) /\ e \in S
  <2>1. \A i \in 1 .. Len(s) : s[i] \in S
    BY IsSeqFacts
  <2>2. QED BY <2>1, IsSeqFacts DEF IsSeq
<1> HIDE DEF S
<1>2. /\ t \in Seq(S) /\ Len(t) = Len(s) + 1 /\ DOMAIN t = 1 .. Len(s) + 1
      /\ t[Len(s) + 1] = e /\ \A i \in 1 .. Len(s) : t[i] = s[i]
  BY <1>1
<1>3. IsSeq(t)
  BY <1>2, IsSeqOf
<1> HIDE DEF t
<1>4. Range(t) = Range(s) \cup {e}
  <2>1. Len(s) \in Nat /\ Range(s) = {s[i] : i \in 1 .. Len(s)} /\ Range(t) = {t[i] : i \in 1 .. Len(t)}
    BY <1>3, IsSeqFacts
  <2>2. \A i \in 1 .. Len(t) : i \in 1 .. Len(s) \/ i = Len(s) + 1
    BY <1>2, <2>1
  <2>3. Len(s) + 1 \in 1 .. Len(t) /\ 1 .. Len(s) \subseteq 1 .. Len(t)
    BY <1>2, <2>1
  <2>4. QED BY <1>2, <2>1, <2>2, <2>3
<1>5. QED BY <1>2, <1>3, <1>4 DEF t

LEMMA IsSeqConcat ==
    ASSUME NEW s, IsSeq(s), NEW r, IsSeq(r)
    PROVE  LET t == s \o r
           IN  /\ IsSeq(t) /\ Len(t) = Len(s) + Len(r) /\ DOMAIN t = 1 .. Len(s) + Len(r)
               /\ \A i \in 1 .. Len(s) : t[i] = s[i]
               /\ \A i \in 1 .. Len(r) : t[Len(s) + i] = r[i]
               /\ \A i \in Len(s) + 1 .. Len(t) : t[i] = r[i - Len(s)] /\ i - Len(s) \in 1 .. Len(r)
               /\ Range(t) = Range(s) \cup Range(r)
<1> DEFINE t == s \o r
           S == Range(s) \cup Range(r)
<1>1. s \in Seq(S) /\ r \in Seq(S)
  <2>1. \A i \in 1 .. Len(s) : s[i] \in S
    BY IsSeqFacts
  <2>2. \A i \in 1 .. Len(r) : r[i] \in S
    BY IsSeqFacts
  <2>3. QED BY <2>1, <2>2, IsSeqFacts DEF IsSeq
<1>2. Len(s) \in Nat /\ Len(r) \in Nat
  BY IsSeqFacts
<1> HIDE DEF S
<1>3. /\ t \in Seq(S) /\ Len(t) = Len(s) + Len(r) /\ DOMAIN t = 1 .. Len(s) + Len(r)
      /\ \A i \in 1 .. Len(s) : t[i] = s[i]
      /\ \A i \in 1 .. Len(r) : t[Len(s) + i] = r[i]
  BY <1>1, <1>2
<1>4. IsSeq(t)
  BY <1>3, IsSeqOf
<1>5. \A i \in Len(s) + 1 .. Len(t) : t[i] = r[i - Len(s)] /\ i - Len(s) \in 1 .. Len(r)
  <2>1. SUFFICES ASSUME NEW i \in Len(s) + 1 .. Len(t) PROVE t[i] = r[i - Len(s)] /\ i - Len(s) \in 1 .. Len(r)
    OBVIOUS
  <2>2. i - Len(s) \in 1 .. Len(r) /\ Len(s) + (i - Len(s)) = i
    BY <1>2, <1>3
  <2>3. QED BY <1>3, <2>2
<1> HIDE DEF t
<1>6. Range(t) = Range(s) \cup Range(r)
  <2>1. /\ Range(s) = {s[i] : i \in 1 .. Len(s)} /\ Range(r) = {r[i] : i \in 1 .. Len(r)}
        /\ Range(t) = {t[i] : i \in 1 .. Len(t)}
    BY <1>4, IsSeqFacts
  <2>2. \A i \in 1 .. Len(t) : i \in 1 .. Len(s) \/ i \in Len(s) + 1 .. Len(t)
    BY <1>2, <1>3
  <2>3. 1 .. Len(s) \subseteq 1 .. Len(t) /\ \A i \in 1 .. Len(r) : Len(s) + i \in 1 .. Len(t)
    BY <1>2, <1>3
  <2>4. \A i \in 1 .. Len(t) : t[i] \in Range(s) \cup Range(r)
    BY <1>3, <1>5, <2>1, <2>2
  <2>5. \A i \in 1 .. Len(s) : s[i] \in Range(t)
    BY <1>3, <2>1, <2>3
  <2>6. \A i \in 1 .. Len(r) : r[i] \in Range(t)
    BY <1>3, <2>1, <2>3
  <2>7. QED BY <2>1, <2>4, <2>5, <2>6
<1>7. QED BY <1>3, <1>4, <1>5, <1>6 DEF t

LEMMA IsSeqTail ==
    ASSUME NEW s, IsSeq(s), s # <<>>
    PROVE  LET t == Tail(s)
           IN  /\ IsSeq(t) /\ Len(s) \in Nat \ {0} /\ Len(t) = Len(s) - 1 /\ DOMAIN t = 1 .. Len(s) - 1
               /\ \A i \in 1 .. Len(t) : t[i] = s[i + 1]
               /\ Head(s) = s[1] /\ Head(s) \in Range(s) /\ Range(t) \subseteq Range(s)
<1> DEFINE t == Tail(s)
           S == Range(s)
<1>1. s \in Seq(S)
  BY DEF IsSeq
<1> HIDE DEF S
<1>2. Len(s) \in Nat \ {0}
  BY <1>1
<1>3. /\ t \in Seq(S) /\ Len(t) = Len(s) - 1 /\ DOMAIN t = 1 .. Len(s) - 1 /\ Head(s) = s[1]
      /\ \A i \in 1 .. Len(t) : t[i] = s[i + 1]
  BY <1>1, <1>2
<1>4. IsSeq(t) /\ Range(t) \subseteq S
  BY <1>3, IsSeqOf
<1>5. s[1] \in S
  BY <1>1, <1>2
<1>6. QED BY <1>2, <1>3, <1>4, <1>5 DEF S, t

\* A property of numbers that holds at 0 and goes on from each to the next.
LEMMA UpTo ==
    ASSUME NEW n \in Nat, NEW H, 0 \in H, \A i \in 1 .. n : i - 1 \in H => i \in H
    PROVE  \A i \in 0 .. n : i \in H
<1> DEFINE B == {i \in 0 .. n : i \notin H}
<1>1. SUFFICES ASSUME B # {} PROVE FALSE
  OBVIOUS
<1>2. PICK m \in B : \A k \in B : m <= k
  <2>1. B \subseteq Nat OBVIOUS
  <2> HIDE DEF B
  <2>2. QED BY <2>1, <1>1, LeastOf
<1>3. m # 0
  BY <1>2
<1>4. m \in 1 .. n /\ m - 1 \in 0 .. n /\ m - 1 \notin B
  <2>1. m \in 0 .. n OBVIOUS
  <2>2. m \in 1 .. n /\ m - 1 \in 0 .. n /\ ~(m <= m - 1) BY <2>1, <1>3
  <2> HIDE DEF B
  <2>3. QED BY <2>2, <1>2
<1>5. QED BY <1>2, <1>4

\* Sequences put together are had one after another.
LEMMA FlattenSteps ==
    ASSUME NEW A, NEW ss, IsSeq(ss), \A i \in 1 .. Len(ss) : ss[i] \in Seq(A)
    PROVE  \E flat : /\ FlattenSeq(ss) = flat[Len(ss)]
                     /\ \A i \in 0 .. Len(ss) : /\ flat[i] \in Seq(A)
                                                /\ flat[i] = IF i = 0 THEN <<>> ELSE flat[i - 1] \o ss[i]
<1> DEFINE V == Seq(A)
           n == Len(ss)
           none == <<>>
           step == [i \in 1 .. n |-> [r \in V |-> r \o ss[i]]]
           flatten == CHOOSE f : f = [i \in 1 .. n |-> IF i = 1 THEN ss[i] ELSE f[i - 1] \o ss[i]]
<1>1. n \in Nat /\ none \in V /\ \A i \in 1 .. n : ss[i] \in V
  BY IsSeqFacts
<1>2. \A i \in 1 .. n : \A r \in V : r \o ss[i] \in V
  <2>1. SUFFICES ASSUME NEW i \in 1 .. n, NEW r \in V PROVE r \o ss[i] \in V
    OBVIOUS
  <2>2. ss[i] \in V
    BY <1>1
  <2>3. QED BY <2>2
<1>3. FlattenSeq(ss) = IF n = 0 THEN ss ELSE flatten[n]
  BY DEF FlattenSeq
<1>4. n = 0 => ss = none
  BY DEF IsSeq
<1>5. \A r \in V : none \o r = r
  OBVIOUS
<1> HIDE DEF V, none
<1>6. step \in [1 .. n -> [V -> V]] /\ \A i \in 1 .. n : \A r \in V : step[i][r] = r \o ss[i]
  BY <1>2
<1> HIDE DEF step, n
<1>7. PICK g \in [0 .. n -> V] : \A i \in 0 .. n : g[i] = IF i = 0 THEN none ELSE step[i][g[i - 1]]
  <2>1. step \in Steps(V, n)
    BY <1>6 DEF Steps
  <2>2. \E g \in [0 .. n -> V] : \A i \in 0 .. n : g[i] = IF i = 0 THEN none ELSE step[i][g[i - 1]]
    BY <1>1, <2>1, RecursionExists
  <2>3. QED BY <2>2
<1>8. \A i \in 0 .. n : i # 0 => i \in 1 .. n /\ i - 1 \in 0 .. n
  BY <1>1
<1>9. \A i \in 0 .. n : g[i] \in V /\ g[i] = IF i = 0 THEN none ELSE g[i - 1] \o ss[i]
  BY <1>6, <1>7, <1>8
<1>10. \A i \in 1 .. n : i \in 0 .. n /\ i # 0 /\ (i # 1 => i - 1 \in 1 .. n) /\ 0 \in 0 .. n
  BY <1>1
<1>11. \A i \in 1 .. n : g[i] = IF i = 1 THEN ss[i] ELSE g[i - 1] \o ss[i]
  <2>1. SUFFICES ASSUME NEW i \in 1 .. n PROVE g[i] = IF i = 1 THEN ss[i] ELSE g[i - 1] \o ss[i]
    OBVIOUS
  <2>2. g[i] = g[i - 1] \o ss[i]
    BY <1>9, <1>10
  <2>3. CASE i = 1
    <3>1. g[0] = none /\ ss[i] \in V
      BY <1>1, <1>9, <1>10
    <3>2. i - 1 = 0
      BY <2>3
    <3>3. QED BY <1>5, <2>2, <2>3, <3>1, <3>2
  <2>4. CASE i # 1
    BY <2>2, <2>4
  <2>5. QED BY <2>3, <2>4
<1> DEFINE h == [i \in 1 .. n |-> g[i]]
<1>12. h = [i \in 1 .. n |-> IF i = 1 THEN ss[i] ELSE h[i - 1] \o ss[i]]
  <2>1. \A i \in 1 .. n : h[i] = IF i = 1 THEN ss[i] ELSE h[i - 1] \o ss[i]
    BY <1>10, <1>11
  <2>2. QED BY <2>1
<1>13. flatten = [i \in 1 .. n |-> IF i = 1 THEN ss[i] ELSE flatten[i - 1] \o ss[i]]
  BY <1>12
<1> HIDE DEF flatten
<1>14. \A i \in 1 .. n : flatten[i] = IF i = 1 THEN ss[i] ELSE flatten[i - 1] \o ss[i]
  BY <1>13
<1>15. \A i \in 0 .. n : i = 0 \/ flatten[i] = g[i]
  <2> DEFINE H == {i \in 0 .. n : i = 0 \/ flatten[i] = g[i]}
  <2>1. 0 \in H
    BY <1>1
  <2>2. \A i \in 1 .. n : i - 1 \in H => i \in H
    BY <1>10, <1>11, <1>14
  <2> HIDE DEF H
  <2>3. \A i \in 0 .. n : i \in H
    BY <1>1, <2>1, <2>2, UpTo
  <2>4. QED BY <2>3 DEF H
<1>16. n \in 0 .. n /\ 0 \in 0 .. n
  BY <1>1
<1>17. FlattenSeq(ss) = g[n]
  BY <1>3, <1>4, <1>9, <1>15, <1>16
<1>18. QED BY <1>9, <1>17 DEF n, V, none

\* What is in them all is what is in any of them.
LEMMA FlattenRange ==
    ASSUME NEW A, NEW ss, IsSeq(ss), \A i \in 1 .. Len(ss) : ss[i] \in Seq(A)
    PROVE  /\ FlattenSeq(ss) \in Seq(A)
           /\ \A e : e \in Range(FlattenSeq(ss)) <=> \E i \in 1 .. Len(ss) : e \in Range(ss[i])
<1> DEFINE n == Len(ss)
<1>1. PICK flat : /\ FlattenSeq(ss) = flat[n]
                  /\ \A i \in 0 .. n : /\ flat[i] \in Seq(A)
                                       /\ flat[i] = IF i = 0 THEN <<>> ELSE flat[i - 1] \o ss[i]
  BY FlattenSteps
<1> DEFINE H == {m \in 0 .. n : \A e : e \in Range(flat[m]) <=> \E i \in 1 .. m : e \in Range(ss[i])}
<1>2. n \in Nat
  BY IsSeqFacts
<1>3. 0 \in H
  <2>1. flat[0] = <<>> /\ 0 \in 0 .. n /\ 1 .. 0 = {}
    BY <1>1, <1>2
  <2>2. Range(flat[0]) = {}
    BY <2>1 DEF Range
  <2>3. QED BY <2>1, <2>2
<1>4. ASSUME NEW m \in 1 .. n, m - 1 \in H
      PROVE  m \in H
  <2>1. m \in 0 .. n /\ m # 0 /\ m - 1 \in 0 .. n
    BY <1>2
  <2>2. flat[m] = flat[m - 1] \o ss[m] /\ IsSeq(flat[m - 1]) /\ IsSeq(ss[m])
    <3>1. flat[m - 1] \in Seq(A) /\ ss[m] \in Seq(A) /\ flat[m] = flat[m - 1] \o ss[m]
      BY <1>1, <2>1
    <3>2. QED BY <3>1, IsSeqOf
  <2>3. Range(flat[m]) = Range(flat[m - 1]) \cup Range(ss[m])
    BY <2>2, IsSeqConcat
  <2>4. \A i \in 1 .. m : i \in 1 .. m - 1 \/ i = m
    BY <1>2
  <2>5. 1 .. m - 1 \subseteq 1 .. m /\ m \in 1 .. m
    BY <1>2
  <2>6. \A e : e \in Range(flat[m - 1]) <=> \E i \in 1 .. m - 1 : e \in Range(ss[i])
    BY <1>4
  <2> HIDE DEF H
  <2>7. \A e : e \in Range(flat[m]) <=> \E i \in 1 .. m : e \in Range(ss[i])
    BY <2>3, <2>4, <2>5, <2>6
  <2>8. QED BY <2>1, <2>7 DEF H
<1> HIDE DEF H
<1>5. n \in H
  <2> HIDE DEF n
  <2>1. \A i \in 0 .. n : i \in H
    BY <1>2, <1>3, <1>4, UpTo
  <2>2. QED BY <1>2, <2>1
<1>6. QED BY <1>1, <1>2, <1>5 DEF H

\* Of sequences with nothing twice, in one or in two of them, they put together one with nothing twice.
LEMMA FlattenDistinct ==
    ASSUME NEW A, NEW ss, IsSeq(ss), \A i \in 1 .. Len(ss) : ss[i] \in Seq(A),
           \A i \in 1 .. Len(ss) : \A a, b \in 1 .. Len(ss[i]) : ss[i][a] = ss[i][b] => a = b,
           \A i, j \in 1 .. Len(ss) : i < j => Range(ss[i]) \cap Range(ss[j]) = {}
    PROVE  LET f == FlattenSeq(ss) IN \A a, b \in 1 .. Len(f) : f[a] = f[b] => a = b
<1> DEFINE n == Len(ss)
<1>1. PICK flat : /\ FlattenSeq(ss) = flat[n]
                  /\ \A i \in 0 .. n : /\ flat[i] \in Seq(A)
                                       /\ flat[i] = IF i = 0 THEN <<>> ELSE flat[i - 1] \o ss[i]
  BY FlattenSteps
<1> DEFINE H == {m \in 0 .. n : /\ \A a, b \in 1 .. Len(flat[m]) : flat[m][a] = flat[m][b] => a = b
                                /\ \A e \in Range(flat[m]) : \E i \in 1 .. m : e \in Range(ss[i])}
<1>2. n \in Nat
  BY IsSeqFacts
<1>3. 0 \in H
  <2>1. flat[0] = <<>> /\ 0 \in 0 .. n
    BY <1>1, <1>2
  <2>2. Range(flat[0]) = {} /\ 1 .. Len(flat[0]) = {}
    BY <2>1 DEF Range
  <2>3. QED BY <2>1, <2>2
<1>4. ASSUME NEW m \in 1 .. n, m - 1 \in H
      PROVE  m \in H
  <2>1. m \in 0 .. n /\ m # 0 /\ m - 1 \in 0 .. n
    BY <1>2
  <2> DEFINE s == flat[m - 1]
             r == ss[m]
             t == flat[m]
  <2>2. t = s \o r /\ IsSeq(s) /\ IsSeq(r)
    <3>1. flat[m - 1] \in Seq(A) /\ ss[m] \in Seq(A) /\ flat[m] = flat[m - 1] \o ss[m]
      BY <1>1, <2>1
    <3>2. QED BY <3>1, IsSeqOf
  <2>3. /\ \A a, b \in 1 .. Len(s) : s[a] = s[b] => a = b
        /\ \A e \in Range(s) : \E i \in 1 .. m - 1 : e \in Range(ss[i])
    BY <1>4
  <2>4. \A a, b \in 1 .. Len(r) : r[a] = r[b] => a = b
    OBVIOUS
  <2>5. Range(s) \cap Range(r) = {}
    <3>1. \A i \in 1 .. m - 1 : i \in 1 .. n /\ i < m
      BY <1>2
    <3>2. QED BY <2>3, <3>1
  <2>6. \A i \in 1 .. m - 1 : i \in 1 .. m
    BY <1>2
  <2>7. m \in 1 .. m
    BY <1>2
  <2> HIDE DEF H, s, r, t
  <2>8. /\ Len(s) \in Nat /\ Len(r) \in Nat /\ Len(t) = Len(s) + Len(r)
        /\ \A i \in 1 .. Len(s) : t[i] = s[i] /\ s[i] \in Range(s)
        /\ \A i \in Len(s) + 1 .. Len(t) : t[i] = r[i - Len(s)] /\ i - Len(s) \in 1 .. Len(r)
        /\ \A i \in 1 .. Len(r) : r[i] \in Range(r)
        /\ Range(t) = Range(s) \cup Range(r)
    <3>1. /\ Len(s) \in Nat /\ \A i \in 1 .. Len(s) : s[i] \in Range(s)
          /\ Len(r) \in Nat /\ \A i \in 1 .. Len(r) : r[i] \in Range(r)
      BY <2>2, IsSeqFacts
    <3>2. QED BY <2>2, <3>1, IsSeqConcat
  <2>9. \A a \in 1 .. Len(t) : a \in 1 .. Len(s) \/ a \in Len(s) + 1 .. Len(t)
    BY <2>8
  <2>10. \A a, b \in Len(s) + 1 .. Len(t) : a - Len(s) = b - Len(s) => a = b
    BY <2>8
  <2>11. ASSUME NEW a \in 1 .. Len(t), NEW b \in 1 .. Len(t), t[a] = t[b]
         PROVE  a = b
    <3>1. CASE a \in 1 .. Len(s) /\ b \in 1 .. Len(s)
      BY <2>3, <2>8, <2>11, <3>1
    <3>2. CASE a \in Len(s) + 1 .. Len(t) /\ b \in Len(s) + 1 .. Len(t)
      BY <2>4, <2>8, <2>10, <2>11, <3>2
    <3>3. CASE a \in 1 .. Len(s) /\ b \in Len(s) + 1 .. Len(t)
      BY <2>5, <2>8, <2>11, <3>3
    <3>4. CASE b \in 1 .. Len(s) /\ a \in Len(s) + 1 .. Len(t)
      BY <2>5, <2>8, <2>11, <3>4
    <3>5. QED BY <2>9, <3>1, <3>2, <3>3, <3>4
  <2>12. \A e \in Range(t) : \E i \in 1 .. m : e \in Range(ss[i])
    BY <2>3, <2>6, <2>7, <2>8 DEF r
  <2>13. QED BY <2>1, <2>11, <2>12 DEF H, t
<1> HIDE DEF H
<1>5. n \in H
  <2> HIDE DEF n
  <2>1. \A i \in 0 .. n : i \in H
    BY <1>2, <1>3, <1>4, UpTo
  <2>2. QED BY <1>2, <2>1
<1>6. QED BY <1>1, <1>2, <1>5 DEF H

\* Sequences of the same lengths come to lie in the same places.
SameLengths(ss, tt) ==
    /\ IsSeq(ss) /\ IsSeq(tt) /\ Len(tt) = Len(ss)
    /\ \A i \in 1 .. Len(ss) : IsSeq(ss[i]) /\ IsSeq(tt[i]) /\ Len(tt[i]) = Len(ss[i])

Alongside(f, g, ss, tt) ==
    /\ Len(g) = Len(f)
    /\ \A a \in 1 .. Len(f) : \E i \in 1 .. Len(ss) : \E b \in 1 .. Len(ss[i]) :
          f[a] = ss[i][b] /\ g[a] = tt[i][b]

LEMMA FlattenParallel ==
    ASSUME NEW ss, NEW tt, SameLengths(ss, tt)
    PROVE  Alongside(FlattenSeq(ss), FlattenSeq(tt), ss, tt)
<1>a. /\ IsSeq(ss) /\ IsSeq(tt) /\ Len(tt) = Len(ss)
      /\ \A i \in 1 .. Len(ss) : IsSeq(ss[i]) /\ IsSeq(tt[i]) /\ Len(tt[i]) = Len(ss[i])
  BY DEF SameLengths
<1> USE <1>a
<1> DEFINE n == Len(ss)
           A == UNION {Range(ss[i]) : i \in 1 .. n}
           B == UNION {Range(tt[i]) : i \in 1 .. n}
<1>0. \A i \in 1 .. Len(ss) : ss[i] \in Seq(A) /\ tt[i] \in Seq(B)
  <2>1. ASSUME NEW s, NEW S, IsSeq(s), Range(s) \subseteq S PROVE s \in Seq(S)
    BY <2>1 DEF IsSeq
  <2>2. \A i \in 1 .. n : Range(ss[i]) \subseteq A /\ Range(tt[i]) \subseteq B
    OBVIOUS
  <2> HIDE DEF A, B
  <2>3. QED BY <2>1, <2>2
<1> HIDE DEF A, B
<1>1. PICK flat : /\ FlattenSeq(ss) = flat[n]
                  /\ \A i \in 0 .. n : /\ flat[i] \in Seq(A)
                                       /\ flat[i] = IF i = 0 THEN <<>> ELSE flat[i - 1] \o ss[i]
  <2>1. \A i \in 1 .. Len(ss) : ss[i] \in Seq(A)
    BY <1>0
  <2>2. IsSeq(ss)
    OBVIOUS
  <2>3. QED BY ONLY <2>1, <2>2, FlattenSteps
<1>2. PICK fill : /\ FlattenSeq(tt) = fill[n]
                  /\ \A i \in 0 .. n : /\ fill[i] \in Seq(B)
                                       /\ fill[i] = IF i = 0 THEN <<>> ELSE fill[i - 1] \o tt[i]
  <2>1. \E fill : /\ FlattenSeq(tt) = fill[Len(tt)]
                  /\ \A i \in 0 .. Len(tt) : /\ fill[i] \in Seq(B)
                                             /\ fill[i] = IF i = 0 THEN <<>> ELSE fill[i - 1] \o tt[i]
    <3>1. \A i \in 1 .. Len(tt) : tt[i] \in Seq(B)
      BY <1>0
    <3>2. IsSeq(tt)
      OBVIOUS
    <3>3. QED BY ONLY <3>1, <3>2, FlattenSteps
  <2>2. QED BY <2>1
<1> DEFINE H == {m \in 0 .. n : /\ Len(fill[m]) = Len(flat[m])
                                /\ \A a \in 1 .. Len(flat[m]) : \E i \in 1 .. m : \E b \in 1 .. Len(ss[i]) :
                                      flat[m][a] = ss[i][b] /\ fill[m][a] = tt[i][b]}
<1>3. n \in Nat
  BY IsSeqFacts
<1>4. 0 \in H
  <2>1. flat[0] = <<>> /\ fill[0] = <<>> /\ 0 \in 0 .. n
    BY <1>1, <1>2, <1>3
  <2>2. 1 .. Len(flat[0]) = {} /\ Len(flat[0]) = Len(fill[0])
    BY <2>1
  <2>3. QED BY <2>1, <2>2
<1>5. ASSUME NEW m \in 1 .. n, m - 1 \in H
      PROVE  m \in H
  <2>1. m \in 0 .. n /\ m # 0 /\ m - 1 \in 0 .. n
    BY <1>3
  <2> DEFINE s == flat[m - 1]
             r == ss[m]
             t == flat[m]
             s2 == fill[m - 1]
             r2 == tt[m]
             t2 == fill[m]
  <2>2. t = s \o r /\ IsSeq(s) /\ IsSeq(r)
    <3>1. flat[m - 1] \in Seq(A) /\ ss[m] \in Seq(A) /\ flat[m] = flat[m - 1] \o ss[m]
      BY <1>0, <1>1, <2>1
    <3>2. QED BY <3>1, IsSeqOf
  <2>3. t2 = s2 \o r2 /\ IsSeq(s2) /\ IsSeq(r2)
    <3>1. fill[m - 1] \in Seq(B) /\ tt[m] \in Seq(B) /\ fill[m] = fill[m - 1] \o tt[m]
      BY <1>0, <1>2, <2>1
    <3>2. QED BY <3>1, IsSeqOf
  <2>4. /\ Len(s2) = Len(s)
        /\ \A a \in 1 .. Len(s) : \E i \in 1 .. m - 1 : \E b \in 1 .. Len(ss[i]) : s[a] = ss[i][b] /\ s2[a] = tt[i][b]
    BY <1>5
  <2>5. Len(r2) = Len(r)
    OBVIOUS
  <2>6. \A i \in 1 .. m - 1 : i \in 1 .. m
    BY <1>3
  <2>7. m \in 1 .. m
    BY <1>3
  <2> HIDE DEF H, s, r, t, s2, r2, t2
  <2>8. /\ Len(s) \in Nat /\ Len(r) \in Nat /\ Len(t) = Len(s) + Len(r)
        /\ \A i \in 1 .. Len(s) : t[i] = s[i]
        /\ \A i \in Len(s) + 1 .. Len(t) : t[i] = r[i - Len(s)] /\ i - Len(s) \in 1 .. Len(r)
    <3>1. Len(s) \in Nat /\ Len(r) \in Nat
      BY ONLY <2>2, IsSeqFacts
    <3>2. /\ Len(s \o r) = Len(s) + Len(r)
          /\ \A i \in 1 .. Len(s) : (s \o r)[i] = s[i]
          /\ \A i \in Len(s) + 1 .. Len(s \o r) : (s \o r)[i] = r[i - Len(s)] /\ i - Len(s) \in 1 .. Len(r)
      BY ONLY <2>2, IsSeqConcat
    <3>3. QED BY ONLY <2>2, <3>1, <3>2
  <2>9. /\ Len(t2) = Len(t)
        /\ \A i \in 1 .. Len(s) : t2[i] = s2[i]
        /\ \A i \in Len(s) + 1 .. Len(t) : t2[i] = r2[i - Len(s)]
    <3>1. /\ Len(t2) = Len(s2) + Len(r2)
          /\ \A i \in 1 .. Len(s2) : t2[i] = s2[i]
          /\ \A i \in Len(s2) + 1 .. Len(t2) : t2[i] = r2[i - Len(s2)]
      <4>1. /\ Len(s2 \o r2) = Len(s2) + Len(r2)
            /\ \A i \in 1 .. Len(s2) : (s2 \o r2)[i] = s2[i]
            /\ \A i \in Len(s2) + 1 .. Len(s2 \o r2) : (s2 \o r2)[i] = r2[i - Len(s2)]
        BY ONLY <2>3, IsSeqConcat
      <4>2. QED BY ONLY <2>3, <4>1
    <3>2. QED BY <2>4, <2>5, <2>8, <3>1
  <2>10. ASSUME NEW a \in 1 .. Len(t)
         PROVE  \E i \in 1 .. m : \E b \in 1 .. Len(ss[i]) : t[a] = ss[i][b] /\ t2[a] = tt[i][b]
    <3>1. CASE a \in 1 .. Len(s)
      <4>1. PICK i \in 1 .. m - 1 : \E b \in 1 .. Len(ss[i]) : s[a] = ss[i][b] /\ s2[a] = tt[i][b]
        BY <2>4, <3>1
      <4>2. i \in 1 .. m /\ t[a] = s[a] /\ t2[a] = s2[a]
        BY <2>6, <2>8, <2>9, <3>1
      <4>3. QED BY <4>1, <4>2
    <3>2. CASE a \in Len(s) + 1 .. Len(t)
      BY <2>7, <2>8, <2>9, <3>2 DEF r, r2
    <3>3. QED BY <2>8, <3>1, <3>2
  <2>11. QED BY <2>1, <2>9, <2>10 DEF H, t, t2
<1> HIDE DEF H
<1>6. n \in H
  <2> HIDE DEF n
  <2>1. \A i \in 0 .. n : i \in H
    BY <1>3, <1>4, <1>5, UpTo
  <2>2. QED BY <1>3, <2>1
<1>7. /\ Len(fill[n]) = Len(flat[n])
      /\ \A a \in 1 .. Len(flat[n]) : \E i \in 1 .. n : \E b \in 1 .. Len(ss[i]) :
            flat[n][a] = ss[i][b] /\ fill[n][a] = tt[i][b]
  BY <1>6 DEF H
<1>8. QED BY <1>1, <1>2, <1>7 DEF Alongside

\* Nothing of them is lost.
LEMMA KeepingRange ==
    ASSUME NEW s, IsSeq(s), NEW T
    PROVE  IsSeq(Keeping(s, T)) /\ Range(Keeping(s, T)) = Range(s) \cap T
<1> DEFINE N == Len(s)
           U == Range(s) \cap T
<1>1. PICK kept : /\ Keeping(s, T) = kept[N]
                  /\ \A i \in 0 .. N :
                        /\ kept[i] \in Seq(U)
                        /\ kept[i] = IF i = 0 THEN <<>> ELSE IF s[i] \in T THEN Append(kept[i - 1], s[i]) ELSE kept[i - 1]
  BY KeepingSteps DEF IsSeq
<1>2. N \in Nat /\ Range(s) = {s[i] : i \in 1 .. N}
  BY IsSeqFacts
<1> DEFINE H == {m \in 0 .. N : \A i \in 1 .. m : s[i] \in T => s[i] \in Range(kept[m])}
<1>3. 0 \in H
  <2>1. 1 .. 0 = {} /\ 0 \in 0 .. N
    BY <1>2
  <2>2. QED BY <2>1
<1>4. ASSUME NEW m \in 1 .. N, m - 1 \in H
      PROVE  m \in H
  <2>1. m \in 0 .. N /\ m # 0 /\ m - 1 \in 0 .. N
    BY <1>2
  <2> DEFINE r == kept[m - 1]
  <2>2. kept[m] = (IF s[m] \in T THEN Append(r, s[m]) ELSE r) /\ IsSeq(r)
    <3>1. r \in Seq(U) /\ kept[m] = IF s[m] \in T THEN Append(r, s[m]) ELSE r
      BY <1>1, <2>1
    <3>2. QED BY <3>1, IsSeqOf
  <2>3. \A i \in 1 .. m - 1 : s[i] \in T => s[i] \in Range(r)
    BY <1>4
  <2> HIDE DEF r
  <2>4. Range(r) \subseteq Range(kept[m]) /\ (s[m] \in T => s[m] \in Range(kept[m]))
    BY <2>2, IsSeqAppend
  <2>5. \A i \in 1 .. m : i \in 1 .. m - 1 \/ i = m
    BY <1>2
  <2>6. QED BY <2>1, <2>3, <2>4, <2>5
<1> HIDE DEF H
<1>5. N \in H
  <2> HIDE DEF N
  <2>1. \A i \in 0 .. N : i \in H
    BY <1>2, <1>3, <1>4, UpTo
  <2>2. QED BY <1>2, <2>1
<1>6. kept[N] \in Seq(U)
  BY <1>1, <1>2
<1>7. IsSeq(kept[N]) /\ Range(kept[N]) \subseteq U
  BY <1>6, IsSeqOf
<1>8. U \subseteq Range(kept[N])
  BY <1>2, <1>5 DEF H
<1>9. QED BY <1>1, <1>7, <1>8

\* Some of the numbers up to n.
LEMMA KeepingNumbers ==
    ASSUME NEW n \in Nat, NEW T
    PROVE  LET k == Keeping([i \in 1 .. n |-> i], T)
           IN  /\ IsSeq(k) /\ Range(k) = (1 .. n) \cap T /\ Len(k) \in Nat /\ DOMAIN k = 1 .. Len(k)
               /\ \A a \in 1 .. Len(k) : k[a] \in (1 .. n) \cap T
               /\ \A a, b \in 1 .. Len(k) : k[a] = k[b] => a = b
<1> DEFINE s == [i \in 1 .. n |-> i]
           k == Keeping(s, T)
<1>1. s \in Seq(1 .. n) /\ DOMAIN s = 1 .. n /\ \A i \in 1 .. n : s[i] = i
  OBVIOUS
<1> HIDE DEF s
<1>2. IsSeq(s) /\ Range(s) = 1 .. n
  BY <1>1, IsSeqOf DEF Range
<1>3. IsSeq(k) /\ Range(k) = (1 .. n) \cap T
  BY <1>2, KeepingRange
<1>4. \A a, b \in DOMAIN k : k[a] = k[b] => a = b
  BY <1>1, KeepingDistinct
<1> HIDE DEF k
<1>5. Len(k) \in Nat /\ DOMAIN k = 1 .. Len(k) /\ \A a \in 1 .. Len(k) : k[a] \in Range(k)
  BY <1>3, IsSeqFacts
<1>6. QED BY <1>3, <1>4, <1>5 DEF k, s
=============================================================================
