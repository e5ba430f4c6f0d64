---------------------------- MODULE DsFileProofs ----------------------------
(***************************************************************************)
(* Proofs about the DS log reader, for every file, every size it may be    *)
(* caught at and every geometry.                                           *)
(***************************************************************************)
EXTENDS DsFile, TLAPS

\* Where the packet after those yielded so far begins.
Frontier == IF got = <<>>
              THEN dataOffset
              ELSE got[Len(got)].offset + Total(got[Len(got)].packet)

\* What the phases of the reader have established, beside the properties.
Phased ==
    /\ pc \in {"fs header", "ds header", "opened"} => got = <<>>
    /\ pc = "closed" /\ opens = 0 => got = <<>>
    /\ pc \notin {"closed", "failed"} => opens > 0
    /\ pc = "ds header" => mode = "cfe"
    /\ pc = "opened" => /\ mode \in {"cfe", "none"}
                        /\ dataOffset = IF mode = "cfe" THEN FsHdrSize + DsHdrSize ELSE 0
                        /\ dataOffset <= size
    /\ Walking => offset <= size
    /\ pc \in {"primary", "rest"} => index = Len(got) /\ offset = Frontier
    /\ pc = "yielded" => /\ got # <<>>
                         /\ index + 1 = Len(got)
                         /\ offset = got[Len(got)].offset
                         /\ Here = got[Len(got)].packet

\* What has been warned about.
Warned ==
    /\ WarnsOnce
    /\ truncated => pc \in {"ended", "closed"}
    /\ truncated /\ pc = "closed" => opens > 0
    /\ mode = "auto" => warnings = <<>>

IndInv == TypeOK /\ Tiles /\ LayoutSettled /\ Phased /\ Warned

-----------------------------------------------------------------------------

LEMMA TotalBounds ==
    ASSUME NEW p \in Packet
    PROVE  Total(p) \in Nat /\ Total(p) >= 7
<1>1. p.lenField \in Uint16
  BY DEF Packet
<1>2. MAX_LENGTH_FIELD \in Nat
  BY DEF MAX_LENGTH_FIELD
<1>3. QED BY <1>1, <1>2 DEF Uint16, Total

\* A packet is read at every byte, and it is at least seven bytes long.
LEMMA AtIsPacket ==
    ASSUME NEW im \in Images, NEW o \in Nat
    PROVE  At(im, o) \in Packet /\ Total(At(im, o)) \in Nat /\ Total(At(im, o)) >= 7
<1>1. IsImage(im)
  BY FileAssumption
<1>2. At(im, o) \in Packet
  <2>1. CASE \E i \in 1 .. Len(im.recorded) : im.start[i] = o
    <3> DEFINE i == CHOOSE i \in 1 .. Len(im.recorded) : im.start[i] = o
    <3>1. i \in 1 .. Len(im.recorded)
      BY <2>1
    <3>2. im.recorded \in Seq(Packet)
      BY <1>1 DEF IsImage
    <3> HIDE DEF i
    <3>3. im.recorded[i] \in Packet
      BY <3>1, <3>2
    <3>4. QED BY <2>1, <3>3 DEF At, i
  <2>2. CASE ~\E i \in 1 .. Len(im.recorded) : im.start[i] = o
    BY <1>1, <2>2 DEF At, IsImage
  <2>3. QED BY <2>1, <2>2
<1>3. QED BY <1>2, TotalBounds

LEMMA InitHolds == Init => IndInv
<1> SUFFICES ASSUME Init PROVE IndInv
  OBVIOUS
<1>1. TypeOK
  <2>1. size \in Nat
    BY FileAssumption DEF Init
  <2>2. got \in Seq(Yielded) /\ warnings \in Seq(Troubles)
    BY DEF Init
  <2>3. mode \in HeaderModes /\ pc \in Phases
    BY DEF Init, Phases
  <2>4. exists \in BOOLEAN /\ truncated \in BOOLEAN
    BY Zenon DEF Init
  <2>5. image \in Images /\ requested \in HeaderModes /\ needed \in {1, 2}
    BY DEF Init
  <2>6. opens \in 0 .. 2 /\ {dataOffset, offset, index} \subseteq Nat
    BY DEF Init
  <2>7. QED BY <2>1, <2>2, <2>3, <2>4, <2>5, <2>6 DEF TypeOK
<1>2. Tiles
  BY DEF Init, Tiles
<1>3. LayoutSettled /\ Phased
  BY DEF Init, LayoutSettled, Phased, Walking
<1>4. Warned
  BY DEF Init, Warned, WarnsOnce
<1>5. QED BY <1>1, <1>2, <1>3, <1>4 DEF IndInv

LEMMA TypeKept == TypeOK /\ [Next]_vars => TypeOK'
<1> SUFFICES ASSUME TypeOK, [Next]_vars PROVE TypeOK'
  OBVIOUS
<1> USE DEF Phases, HeaderModes, fileVars, callVars, headVars, walkVars
<1>1. CASE Open
  <2>1. opens = 0 \/ opens < needed
    BY <1>1 DEF Open, Opening
  <2>2. opens' \in 0 .. 2
    <3>1. opens' = opens + 1
      BY <1>1 DEF Open
    <3>2. opens \in 0 .. 2 /\ needed \in {1, 2}
      BY DEF TypeOK
    <3>3. QED BY <2>1, <3>1, <3>2
  <2>3. QED BY <1>1, <2>2 DEF Open, TypeOK
<1>2. CASE OpenFails
  BY <1>2 DEF OpenFails, Opening, TypeOK
<1>3. CASE SkipHeaders
  BY <1>3 DEF SkipHeaders, TypeOK
<1>4. CASE ReadHeaderless
  <2> "headerless" \in Troubles
    BY DEF Troubles
  <2>1. warnings' \in Seq(Troubles)
    <3>1. warnings' = Append(warnings, "headerless")
      BY <1>4 DEF ReadHeaderless
    <3>2. warnings \in Seq(Troubles)
      BY DEF TypeOK
    <3>3. QED BY <3>1, <3>2
  <2>2. QED BY <1>4, <2>1 DEF ReadHeaderless, TypeOK
<1>5. CASE ReadFsHeader
  BY <1>5 DEF ReadFsHeader, TypeOK
<1>6. CASE ReadDsHeader
  <2>1. FsHdrSize + DsHdrSize \in Nat
    BY FileAssumption
  <2>2. QED BY <1>6, <2>1 DEF ReadDsHeader, TypeOK
<1>7. CASE RefuseHeaders
  BY <1>7 DEF RefuseHeaders, TypeOK
<1>8. CASE Walk
  BY <1>8 DEF Walk, TypeOK
<1>9. CASE ReadPrimary
  BY <1>9 DEF ReadPrimary, TypeOK
<1>10. CASE Yield
  <2>1. Here \in Packet
    BY AtIsPacket DEF TypeOK, Here
  <2>2. [index |-> index, offset |-> offset, packet |-> Here] \in Yielded
    BY <2>1 DEF TypeOK, Yielded
  <2>3. got' \in Seq(Yielded)
    BY <1>10, <2>2 DEF Yield, TypeOK
  <2>4. QED BY <1>10, <2>3 DEF Yield, TypeOK
<1>11. CASE Resume
  <2>1. Total(Here) \in Nat
    BY AtIsPacket DEF TypeOK, Here
  <2>2. offset' \in Nat /\ index' \in Nat
    BY <1>11, <2>1 DEF Resume, TypeOK
  <2>3. QED BY <1>11, <2>2 DEF Resume, TypeOK
<1>12. CASE EndClean
  BY <1>12 DEF EndClean, TypeOK
<1>13. CASE EndTorn
  <2>1. truncated' \in BOOLEAN
    BY Zenon, <1>13 DEF EndTorn
  <2>2. /\ UNCHANGED <<image, size, exists, requested, needed, mode, opens, dataOffset, offset,
                       index, got>>
        /\ pc' \in Phases
    BY <1>13 DEF EndTorn
  <2> "torn" \in Troubles
    BY DEF Troubles
  <2>3. warnings' \in Seq(Troubles)
    <3>1. warnings' = Append(warnings, "torn")
      BY <1>13 DEF EndTorn
    <3>2. warnings \in Seq(Troubles)
      BY DEF TypeOK
    <3>3. QED BY <3>1, <3>2
  <2>4. QED BY <2>1, <2>2, <2>3 DEF TypeOK
<1>14. CASE Close
  BY <1>14 DEF Close, TypeOK
<1>15. CASE Grow
  <2>1. size' \in Nat
    BY <1>15, FileAssumption DEF Grow
  <2>2. QED BY <1>15, <2>1 DEF Grow, TypeOK
<1>16. CASE Unlink
  <2>1. exists' \in BOOLEAN
    BY Zenon, <1>16 DEF Unlink
  <2>2. UNCHANGED <<image, size, requested, needed, mode, pc, opens, dataOffset, offset,
                    index, got, truncated, warnings>>
    BY <1>16 DEF Unlink
  <2>3. QED BY <2>1, <2>2 DEF TypeOK
<1>17. CASE UNCHANGED vars
  BY <1>17 DEF vars, TypeOK
<1>18. QED BY <1>1, <1>2, <1>3, <1>4, <1>5, <1>6, <1>7, <1>8, <1>9, <1>10, <1>11, <1>12, <1>13, <1>14, <1>15, <1>16, <1>17 DEF Next, Reader, ReadHeaders, ReadPackets

\* A step that yields nothing keeps the cover, as long as the file does not
\* shrink and the data offset stays once there is a first packet.
LEMMA TilesQuietly ==
    ASSUME TypeOK, Tiles, UNCHANGED <<image, got>>, size' \in Nat, size' >= size,
           got # <<>> => dataOffset' = dataOffset
    PROVE  Tiles'
<1>1. ASSUME NEW i \in 1 .. Len(got)
      PROVE  got[i].offset \in Nat /\ Total(got[i].packet) \in Nat
  <2>1. got[i] \in Yielded
    BY DEF TypeOK
  <2>2. QED BY <2>1, TotalBounds DEF Yielded
<1>2. ASSUME NEW i \in 1 .. Len(got)
      PROVE  /\ got[i].index = i - 1
             /\ got[i].packet = At(image, got[i].offset)
             /\ got[i].offset + Total(got[i].packet) <= size'
  BY <1>1 DEF Tiles, TypeOK
<1>3. QED BY <1>2 DEF Tiles

\* A yield extends the cover by the packet at its frontier.
LEMMA TilesYield ==
    ASSUME IndInv, Yield
    PROVE  Tiles'
<1> DEFINE q == [index |-> index, offset |-> offset, packet |-> Here]
<1>1. q \in Yielded /\ Total(Here) \in Nat /\ Here \in Packet
  BY AtIsPacket DEF IndInv, TypeOK, Yielded, Here
<1>2. got \in Seq(Yielded) /\ got' = Append(got, q) /\ UNCHANGED <<image, size, dataOffset>>
  BY DEF IndInv, TypeOK, Yield, fileVars, headVars
<1>3. index = Len(got) /\ offset = Frontier
  BY DEF IndInv, Phased, Yield
<1>4. offset + Total(Here) <= size
  <2>1. size >= offset + Total(Here) /\ size \in Nat /\ offset \in Nat
    BY DEF Yield, IndInv, TypeOK
  <2>2. QED BY <2>1, <1>1
<1>5. q.index = index /\ q.offset = offset /\ q.packet = At(image, offset)
  BY DEF Here
<1> HIDE DEF q
<1>6. /\ Len(got') = Len(got) + 1 /\ got'[Len(got) + 1] = q
      /\ \A i \in 1 .. Len(got) : got'[i] = got[i]
  BY <1>1, <1>2
<1>7. ASSUME NEW i \in 1 .. Len(got')
      PROVE  /\ got'[i].index = i - 1
             /\ got'[i].packet = At(image, got'[i].offset)
             /\ got'[i].offset + Total(got'[i].packet) <= size
  <2>1. CASE i \in 1 .. Len(got)
    BY <2>1, <1>6 DEF IndInv, Tiles
  <2>2. CASE i = Len(got) + 1
    BY <2>2, <1>2, <1>3, <1>4, <1>5, <1>6 DEF Here
  <2>3. QED BY <2>1, <2>2, <1>2, <1>6
<1>8. got'[1].offset = dataOffset
  <2>1. CASE got = <<>>
    BY <2>1, <1>3, <1>5, <1>6 DEF Frontier
  <2>2. CASE got # <<>>
    <3>1. 1 \in 1 .. Len(got)
      BY <1>2, <2>2
    <3>2. QED BY <2>2, <3>1, <1>6 DEF IndInv, Tiles
  <2>3. QED BY <2>1, <2>2
<1>9. ASSUME NEW i \in 1 .. Len(got') - 1
      PROVE  got'[i + 1].offset = got'[i].offset + Total(got'[i].packet)
  <2>1. CASE i < Len(got)
    <3>1. i \in 1 .. Len(got) - 1 /\ i \in 1 .. Len(got) /\ i + 1 \in 1 .. Len(got)
      BY <2>1, <1>2, <1>6
    <3>2. QED BY <3>1, <1>6 DEF IndInv, Tiles
  <2>2. CASE i = Len(got)
    <3>1. got # <<>> /\ i \in 1 .. Len(got)
      BY <2>2, <1>2
    <3>2. offset = got[i].offset + Total(got[i].packet)
      BY <3>1, <2>2, <1>3 DEF Frontier
    <3>3. QED BY <3>1, <3>2, <2>2, <1>5, <1>6
  <2>3. QED BY <2>1, <2>2, <1>2, <1>6
<1>10. QED BY <1>2, <1>7, <1>8, <1>9 DEF Tiles

LEMMA TilesKept == IndInv /\ [Next]_vars => Tiles'
<1> SUFFICES ASSUME IndInv, [Next]_vars PROVE Tiles'
  OBVIOUS
<1> USE DEF fileVars, callVars, headVars, walkVars
<1>1. TypeOK /\ Tiles /\ TypeOK'
  BY TypeKept DEF IndInv
<1>2. size \in Nat /\ size' \in Nat
  BY <1>1 DEF TypeOK
<1>3. CASE Yield
  BY <1>3, TilesYield
<1>4. CASE Grow
  <2>1. UNCHANGED <<image, got, dataOffset>> /\ size' >= size
    BY <1>2, <1>4 DEF Grow
  <2>2. QED BY <1>1, <1>2, <2>1, TilesQuietly
<1>5. CASE SkipHeaders \/ ReadHeaderless \/ ReadDsHeader
  <2>1. UNCHANGED <<image, got, size>> /\ got = <<>>
    BY <1>5 DEF SkipHeaders, ReadHeaderless, ReadDsHeader, IndInv, Phased
  <2>2. QED BY <1>1, <1>2, <2>1, TilesQuietly
<1>6. ASSUME UNCHANGED <<image, got, size, dataOffset>>
      PROVE  Tiles'
  BY <1>1, <1>2, <1>6, TilesQuietly
<1>7. CASE Open \/ OpenFails \/ ReadFsHeader \/ RefuseHeaders \/ Walk
  BY <1>6, <1>7 DEF Open, OpenFails, ReadFsHeader, RefuseHeaders, Walk
<1>8. CASE ReadPrimary \/ Resume \/ EndClean \/ EndTorn \/ Close \/ Unlink
  BY <1>6, <1>8 DEF ReadPrimary, Resume, EndClean, EndTorn, Close, Unlink
<1>9. CASE UNCHANGED vars
  BY <1>6, <1>9 DEF vars
<1>10. QED
  BY <1>3, <1>4, <1>5, <1>7, <1>8, <1>9 DEF Next, Reader, ReadHeaders, ReadPackets

LEMMA PhasedKept == IndInv /\ [Next]_vars => LayoutSettled' /\ Phased'
<1> SUFFICES ASSUME IndInv, [Next]_vars PROVE LayoutSettled' /\ Phased'
  OBVIOUS
<1> USE DEF fileVars, callVars, headVars, walkVars
<1>1. TypeOK /\ Phased /\ LayoutSettled
  BY DEF IndInv
<1>2. FsHdrSize \in Nat /\ DsHdrSize \in Nat /\ size \in Nat
  BY <1>1, FileAssumption DEF TypeOK
<1>3. CASE Open
  <2>1. pc' = "fs header" /\ opens' = opens + 1 /\ got' = got
    BY <1>3 DEF Open
  <2>2. (pc = "closed" /\ opens = 0) \/ pc = "opened"
    BY <1>3 DEF Open, Opening
  <2>3. got = <<>>
    BY <1>1, <2>2 DEF Phased
  <2>4. opens' > 0
    <3>1. opens \in 0 .. 2
      BY <1>1 DEF TypeOK
    <3>2. opens \in Nat
      BY <3>1
    <3>3. opens' = opens + 1
      BY <1>3 DEF Open
    <3>4. QED BY <3>2, <3>3
  <2>5. QED BY <2>1, <2>3, <2>4 DEF LayoutSettled, Phased, Walking
<1>4. CASE OpenFails \/ RefuseHeaders \/ EndClean \/ EndTorn
  <2>1. pc' = "failed" \/ (pc' = "ended" /\ pc \in {"primary", "rest"} /\ opens' = opens)
    BY <1>4 DEF OpenFails, RefuseHeaders, EndClean, EndTorn, EndsInside
  <2>2. pc' = "ended" => opens' > 0
    BY <1>1, <2>1 DEF Phased
  <2>3. QED BY <2>1, <2>2 DEF LayoutSettled, Phased, Walking
<1>5. CASE SkipHeaders
  <2>1. /\ pc' = "opened" /\ dataOffset' = 0 /\ mode' = "none" /\ got' = <<>>
        /\ opens' > 0 /\ size' = size
    BY <1>1, <1>5 DEF SkipHeaders, Phased
  <2>2. QED BY <1>2, <2>1 DEF LayoutSettled, Phased, Walking
<1>6. CASE ReadHeaderless
  <2>1. /\ pc' = "opened" /\ dataOffset' = 0 /\ mode' = "none" /\ got' = <<>>
        /\ opens' > 0 /\ size' = size
    BY <1>1, <1>6 DEF ReadHeaderless, Phased
  <2>2. QED BY <1>2, <2>1 DEF LayoutSettled, Phased, Walking
<1>7. CASE ReadFsHeader
  BY <1>1, <1>7 DEF ReadFsHeader, LayoutSettled, Phased, Walking
<1>8. CASE ReadDsHeader
  BY <1>1, <1>2, <1>8 DEF ReadDsHeader, LayoutSettled, Phased, Walking
<1>9. CASE Walk
  BY <1>1, <1>9 DEF Walk, LayoutSettled, Phased, Walking, Frontier
<1>10. CASE ReadPrimary
  BY <1>1, <1>10 DEF ReadPrimary, LayoutSettled, Phased, Walking, Frontier
<1>11. CASE Yield
  BY <1>1, <1>11 DEF Yield, LayoutSettled, Phased, Walking, Here
<1>12. CASE Resume
  <2>1. Tiles /\ got \in Seq(Yielded) /\ index \in Nat
    BY DEF IndInv, TypeOK
  <2>2. /\ got # <<>> /\ index + 1 = Len(got) /\ offset = got[Len(got)].offset
        /\ Here = got[Len(got)].packet
    BY <1>1, <1>12 DEF Phased, Resume
  <2>3. offset + Total(Here) <= size
    BY <2>1, <2>2 DEF Tiles
  <2>4. /\ pc' = "primary" /\ index' = index + 1 /\ offset' = offset + Total(Here)
        /\ UNCHANGED <<image, size, mode, dataOffset, opens, got>>
    BY <1>12 DEF Resume
  <2>5. LayoutSettled'
    BY <1>1, <1>12, <2>4 DEF LayoutSettled, Walking, Resume
  <2>6. offset' = Frontier' /\ index' = Len(got')
    BY <2>2, <2>4 DEF Frontier
  <2>7. opens' > 0
    BY <1>1, <1>12, <2>4 DEF Phased, Resume
  <2>8. QED BY <2>3, <2>4, <2>5, <2>6, <2>7 DEF Phased
<1>13. CASE Close
  BY <1>1, <1>13 DEF Close, LayoutSettled, Phased, Walking
<1>14. CASE Grow
  <2>1. size' \in Nat /\ size' > size /\ offset \in Nat /\ dataOffset \in Nat
    BY <1>1, <1>14, FileAssumption DEF Grow, TypeOK
  <2>2. UNCHANGED <<image, pc, mode, opens, dataOffset, offset, index, got>>
    BY <1>14 DEF Grow
  <2>3. LayoutSettled' /\ Frontier' = Frontier /\ Here' = Here
    BY <1>1, <2>2 DEF LayoutSettled, Walking, Frontier, Here
  <2>4. (Walking => offset <= size)' /\ (pc = "opened" => dataOffset <= size)'
    <3>1. (Walking => offset <= size) /\ (pc = "opened" => dataOffset <= size)
      BY <1>1 DEF Phased
    <3>2. Walking' <=> Walking
      BY <2>2 DEF Walking
    <3>3. QED BY <1>2, <2>1, <2>2, <3>1, <3>2
  <2>5. QED BY <1>1, <2>2, <2>3, <2>4 DEF Phased
<1>15. CASE Unlink
  BY <1>1, <1>15 DEF Unlink, LayoutSettled, Phased, Walking, Frontier, Here
<1>16. CASE UNCHANGED vars
  BY <1>1, <1>16 DEF vars, LayoutSettled, Phased, Walking, Frontier, Here
<1>17. QED
  BY <1>3, <1>4, <1>5, <1>6, <1>7, <1>8, <1>9, <1>10, <1>11, <1>12, <1>13, <1>14, <1>15, <1>16
     DEF Next, Reader, ReadHeaders, ReadPackets

\* A warning not given before keeps the warnings apart.
LEMMA NewWarning ==
    ASSUME NEW s \in Seq(Troubles), NEW w \in Troubles,
           \A i, j \in 1 .. Len(s) : s[i] = s[j] => i = j,
           \A i \in 1 .. Len(s) : s[i] # w
    PROVE  LET t == Append(s, w)
           IN  /\ \A i, j \in 1 .. Len(t) : t[i] = t[j] => i = j
               /\ \E i \in 1 .. Len(t) : t[i] = w
               /\ \A v : v # w =>
                     ((\E i \in 1 .. Len(t) : t[i] = v) <=> \E i \in 1 .. Len(s) : s[i] = v)
<1> DEFINE t == Append(s, w)
<1>1. Len(t) = Len(s) + 1 /\ t[Len(s) + 1] = w /\ \A i \in 1 .. Len(s) : t[i] = s[i]
  OBVIOUS
<1>2. Len(s) \in Nat
  OBVIOUS
<1> HIDE DEF t
<1>3. \A i \in 1 .. Len(t) : i \in 1 .. Len(s) \/ i = Len(s) + 1
  BY <1>1, <1>2
<1>4. \A i, j \in 1 .. Len(t) : t[i] = t[j] => i = j
  BY <1>1, <1>3
<1>5. Len(s) + 1 \in 1 .. Len(t) /\ \A i \in 1 .. Len(s) : i \in 1 .. Len(t)
  BY <1>1, <1>2
<1>6. QED BY <1>1, <1>3, <1>4, <1>5 DEF t

LEMMA WarnedKept == IndInv /\ [Next]_vars => Warned'
<1> SUFFICES ASSUME IndInv, [Next]_vars PROVE Warned'
  OBVIOUS
<1> USE DEF fileVars, callVars, headVars, walkVars
<1>1. TypeOK /\ Warned /\ Phased
  BY DEF IndInv
<1>2. ASSUME UNCHANGED <<warnings, truncated>>, mode' = "auto" => mode = "auto",
             truncated => pc' \in {"ended", "closed"} /\ (pc' = "closed" => opens' > 0)
      PROVE  Warned'
  BY <1>1, <1>2 DEF Warned, WarnsOnce
<1>3. ASSUME UNCHANGED <<warnings, truncated>>, pc \notin {"ended", "closed"},
             mode' = "auto" => mode = "auto"
      PROVE  Warned'
  BY <1>1, <1>2, <1>3 DEF Warned
<1>4. CASE Open \/ OpenFails
  <2>1. (pc = "closed" /\ opens = 0) \/ pc = "opened"
    BY <1>4 DEF Open, OpenFails, Opening
  <2>2. ~truncated
    BY <1>1, <2>1 DEF Warned
  <2>3. UNCHANGED <<warnings, truncated, mode>>
    BY <1>4 DEF Open, OpenFails
  <2>4. QED BY <1>2, <2>2, <2>3
<1>6. CASE SkipHeaders \/ ReadFsHeader \/ ReadDsHeader \/ RefuseHeaders
  BY <1>3, <1>6 DEF SkipHeaders, ReadFsHeader, ReadDsHeader, RefuseHeaders
<1>7. CASE Walk \/ ReadPrimary \/ Yield \/ Resume \/ EndClean
  BY <1>3, <1>7 DEF Walk, ReadPrimary, Yield, Resume, EndClean
<1>8. CASE Close
  <2>1. opens' > 0 /\ pc' = "closed"
    BY <1>1, <1>8 DEF Close, Phased
  <2>2. QED BY <1>2, <1>8, <2>1 DEF Close
<1>9. CASE Grow \/ Unlink \/ UNCHANGED vars
  <2>1. UNCHANGED <<warnings, truncated, mode, pc, opens>>
    BY <1>9 DEF Grow, Unlink, vars
  <2>2. QED BY <1>1, <2>1 DEF Warned, WarnsOnce
<1>10. CASE ReadHeaderless
  <2>1. warnings = <<>> /\ ~truncated
    BY <1>1, <1>10 DEF ReadHeaderless, Warned
  <2>2. warnings' = Append(warnings, "headerless") /\ mode' = "none" /\ truncated' = truncated
    BY <1>10 DEF ReadHeaderless
  <2>3. "headerless" \in Troubles /\ warnings \in Seq(Troubles)
    BY <1>1 DEF Troubles, TypeOK
  <2>4. WarnsOnce'
    BY <2>1, <2>2, <2>3, NewWarning DEF WarnsOnce
  <2>5. QED BY <2>1, <2>2, <2>4 DEF Warned
<1>11. CASE EndTorn
  <2>1. ~truncated /\ pc \in {"primary", "rest"}
    BY <1>1, <1>11 DEF EndTorn, EndsInside, Warned
  <2>2. /\ warnings' = Append(warnings, "torn") /\ mode' = mode /\ pc' = "ended"
    BY <1>11 DEF EndTorn
  <2>3. truncated'
    BY <1>11 DEF EndTorn
  <2>4. "torn" \in Troubles /\ warnings \in Seq(Troubles)
    BY <1>1 DEF Troubles, TypeOK
  <2>5. WarnsOnce'
    BY <1>1, <2>1, <2>2, <2>3, <2>4, NewWarning DEF Warned, WarnsOnce
  <2>6. mode' # "auto"
    BY <1>1, <2>1, <2>2 DEF IndInv, LayoutSettled, Walking
  <2>7. QED BY <2>2, <2>3, <2>5, <2>6 DEF Warned
<1>12. QED
  BY <1>4, <1>6, <1>7, <1>8, <1>9, <1>10, <1>11 DEF Next, Reader, ReadHeaders, ReadPackets

LEMMA StepHolds == IndInv /\ [Next]_vars => IndInv'
BY TypeKept, TilesKept, PhasedKept, WarnedKept DEF IndInv

-----------------------------------------------------------------------------

\* The invariant behind the properties: what each phase of the reader has
\* established about the data offset, the frontier and the warnings.
THEOREM Invariance == Spec => []IndInv
BY InitHolds, StepHolds, PTL DEF Spec

\* Every variable of the reader has its type.
THEOREM TypeCorrect == Spec => []TypeOK
BY Invariance, PTL DEF IndInv

\* The packets yielded cover the file from the data offset on, without a gap
\* or an overlap, and inside the bytes on disk (packets()).
THEOREM TilingCorrect == Spec => []Tiles
BY Invariance, PTL DEF IndInv

\* The data offset packets are read from is the one of the settled mode
\* (_read_headers).
THEOREM LayoutCorrect == Spec => []LayoutSettled
BY Invariance, PTL DEF IndInv

\* No warning is given twice, and truncated is what was warned about.
THEOREM WarningsCorrect == Spec => []WarnsOnce
BY Invariance, PTL DEF IndInv, Warned

\* No open() of a reader overturns what an earlier one found (header_mode).
THEOREM ModeCorrect == Spec => ModeSticks
<1>1. ASSUME TypeOK, [Next]_vars, mode # "auto"
      PROVE  mode' = mode
  <2> USE DEF fileVars, callVars, headVars
  <2>1. CASE Open \/ OpenFails \/ SkipHeaders \/ ReadDsHeader \/ RefuseHeaders
    BY <2>1 DEF Open, OpenFails, SkipHeaders, ReadDsHeader, RefuseHeaders
  <2>2. CASE ReadHeaderless
    BY <1>1, <2>2 DEF ReadHeaderless
  <2>3. CASE ReadFsHeader
    BY <1>1, <2>3 DEF ReadFsHeader, TypeOK, HeaderModes
  <2>4. CASE Walk \/ ReadPrimary \/ Yield \/ Resume \/ EndClean \/ EndTorn \/ Close
    BY <2>4 DEF Walk, ReadPrimary, Yield, Resume, EndClean, EndTorn, Close
  <2>5. CASE Grow \/ Unlink \/ UNCHANGED vars
    BY <2>5 DEF Grow, Unlink, vars
  <2>6. QED
    BY <1>1, <2>1, <2>2, <2>3, <2>4, <2>5 DEF Next, Reader, ReadHeaders, ReadPackets
<1>2. TypeOK /\ [Next]_vars => [mode # "auto" => mode' = mode]_vars
  BY <1>1
<1>3. QED BY <1>2, TypeCorrect, PTL DEF Spec, ModeSticks

-----------------------------------------------------------------------------
(* The reader implements the recorded log: started with a header mode that  *)
(* fits its file, each of its steps is a step of RecordedLog or changes     *)
(* nothing RecordedLog can see.                                             *)

\* The reader has found the layout the recorder used.
HeaderFound ==
    /\ mode = "none" => ~image.hdr
    /\ mode = "auto" /\ image.hdr => size >= FsHdrSize
    /\ pc \in {"ds header", "opened"} /\ mode = "cfe" => image.hdr

\* The packets yielded are the first messages, and the one being read is next.
InStep ==
    /\ size <= FileEnd(image)
    /\ Len(got) <= Len(image.recorded)
    /\ \A i \in 1 .. Len(got) : got[i].packet = image.recorded[i]
    /\ pc \in {"primary", "rest"} => offset = image.start[Len(got) + 1]
    /\ pc = "rest" => size >= offset + CCSDS_PRIMARY_SIZE
    /\ pc = "yielded" => offset = image.start[Len(got)]

LegInv == IndInv /\ HeaderFound /\ InStep

-----------------------------------------------------------------------------

\* What an image is, in the terms the steps below use.
LEMMA ImageFacts ==
    ASSUME NEW im \in Images
    PROVE  /\ im.hdr \in BOOLEAN
           /\ im.recorded \in Seq(Packet) /\ Len(im.recorded) \in Nat
           /\ \A i \in 1 .. Len(im.recorded) + 1 : im.start[i] \in Nat
           /\ im.start[1] = IF im.hdr THEN FsHdrSize + DsHdrSize ELSE 0
           /\ \A i \in 1 .. Len(im.recorded) :
                 im.start[i + 1] = im.start[i] + Total(im.recorded[i])
           /\ \A i, j \in 1 .. Len(im.recorded) + 1 : i < j => im.start[i] < im.start[j]
<1>1. IsImage(im)
  BY FileAssumption
<1>2. im.recorded \in Seq(Packet)
  BY <1>1 DEF IsImage
<1>3. Len(im.recorded) \in Nat
  BY <1>2
<1>4. QED BY <1>1, <1>2, <1>3 DEF IsImage

\* A start names its message.
LEMMA AtStart ==
    ASSUME NEW im \in Images, NEW k \in 1 .. Len(im.recorded)
    PROVE  At(im, im.start[k]) = im.recorded[k]
<1> DEFINE c == CHOOSE i \in 1 .. Len(im.recorded) : im.start[i] = im.start[k]
<1>1. c \in 1 .. Len(im.recorded) /\ im.start[c] = im.start[k]
  OBVIOUS
<1>2. At(im, im.start[k]) = im.recorded[c]
  BY DEF At
<1> HIDE DEF c
<1>3. c = k
  <2>1. Len(im.recorded) \in Nat
    BY ImageFacts
  <2>2. c \in 1 .. Len(im.recorded) + 1 /\ k \in 1 .. Len(im.recorded) + 1
    BY <1>1, <2>1
  <2>3. im.start[c] \in Nat /\ im.start[k] \in Nat
    BY <2>2, ImageFacts
  <2>4. ~(c < k) /\ ~(k < c)
    BY <1>1, <2>2, <2>3, ImageFacts
  <2>5. QED BY <1>1, <2>1, <2>4
<1>4. QED BY <1>2, <1>3

\* Later messages begin no earlier, and a message ends where the next begins.
LEMMA StartsGrow ==
    ASSUME NEW im \in Images, NEW i \in 1 .. Len(im.recorded) + 1,
           NEW j \in 1 .. Len(im.recorded) + 1, i <= j
    PROVE  im.start[i] <= im.start[j]
<1>1. im.start[i] \in Nat /\ im.start[j] \in Nat /\ Len(im.recorded) \in Nat
  BY ImageFacts
<1>2. i = j \/ i < j
  BY <1>1
<1>3. QED BY <1>1, <1>2, ImageFacts

LEMMA LegInit == InitLegible => LegInv
<1> SUFFICES ASSUME InitLegible PROVE LegInv
  OBVIOUS
<1>1. Init /\ IndInv
  BY InitHolds DEF InitLegible
<1>2. image \in Images /\ Len(image.recorded) \in Nat
  BY <1>1, ImageFacts DEF Init
<1>3. HeaderFound
  BY <1>1 DEF InitLegible, Init, HeaderFound
<1>4. InStep
  <2>1. got = <<>> /\ pc = "closed" /\ size <= FileEnd(image)
    BY <1>1 DEF Init
  <2>2. Len(got) = 0
    BY <2>1
  <2>3. QED BY <1>2, <2>1, <2>2 DEF InStep
<1>5. QED BY <1>1, <1>3, <1>4 DEF LegInv

LEMMA HeaderKept == LegInv /\ [Next]_vars => HeaderFound'
<1> SUFFICES ASSUME LegInv, [Next]_vars PROVE HeaderFound'
  OBVIOUS
<1> USE DEF fileVars, callVars, headVars, walkVars
<1>1. HeaderFound /\ TypeOK /\ Phased
  BY DEF LegInv, IndInv
<1>2. FsHdrSize \in Nat /\ size \in Nat
  BY <1>1, FileAssumption DEF TypeOK
<1>3. CASE Open \/ OpenFails \/ RefuseHeaders
  BY <1>1, <1>3 DEF Open, OpenFails, RefuseHeaders, HeaderFound
<1>4. CASE SkipHeaders
  BY <1>1, <1>4 DEF SkipHeaders, HeaderFound
<1>5. CASE ReadHeaderless
  BY <1>1, <1>5 DEF ReadHeaderless, HeaderFound, HasFsHeader
<1>6. CASE ReadFsHeader
  BY <1>1, <1>6 DEF ReadFsHeader, HeaderFound, HasFsHeader
<1>7. CASE ReadDsHeader
  BY <1>1, <1>7 DEF ReadDsHeader, HeaderFound
<1>8. CASE Walk \/ ReadPrimary \/ Yield \/ Resume \/ EndClean \/ EndTorn \/ Close
  BY <1>1, <1>8 DEF Walk, ReadPrimary, Yield, Resume, EndClean, EndTorn, Close, HeaderFound
<1>9. CASE Grow
  <2>1. size' \in Nat /\ size' > size /\ UNCHANGED <<image, mode, pc>>
    BY <1>9, FileAssumption DEF Grow
  <2>2. size >= FsHdrSize => size' >= FsHdrSize
    BY <1>2, <2>1
  <2>3. QED BY <1>1, <2>1, <2>2 DEF HeaderFound
<1>10. CASE Unlink \/ UNCHANGED vars
  BY <1>1, <1>10 DEF Unlink, vars, HeaderFound
<1>11. QED
  BY <1>3, <1>4, <1>5, <1>6, <1>7, <1>8, <1>9, <1>10 DEF Next, Reader, ReadHeaders, ReadPackets

\* While a packet's rest is read there is a message left, and it is the one.
LEMMA RestIsNext ==
    ASSUME LegInv, pc = "rest"
    PROVE  /\ Len(got) + 1 \in 1 .. Len(image.recorded)
           /\ Here = image.recorded[Len(got) + 1]
           /\ offset + Total(Here) = image.start[Len(got) + 2]
<1>1. TypeOK /\ InStep
  BY DEF LegInv, IndInv
<1>2. image \in Images /\ got \in Seq(Yielded) /\ size \in Nat /\ offset \in Nat
  BY <1>1 DEF TypeOK
<1>3. Len(got) \in Nat /\ Len(image.recorded) \in Nat
  BY <1>2, ImageFacts
<1>4. offset = image.start[Len(got) + 1] /\ size >= offset + 6
  BY <1>1 DEF InStep, CCSDS_PRIMARY_SIZE
<1>5. size <= image.start[Len(image.recorded) + 1] /\ Len(got) <= Len(image.recorded)
  BY <1>1 DEF InStep, FileEnd
<1>6. Len(got) # Len(image.recorded)
  <2>1. SUFFICES ASSUME Len(got) = Len(image.recorded) PROVE FALSE
    OBVIOUS
  <2>2. size <= offset
    BY <1>4, <1>5, <2>1
  <2>3. QED BY <1>2, <1>4, <2>2
<1>7. Len(got) + 1 \in 1 .. Len(image.recorded)
  BY <1>3, <1>5, <1>6
<1>8. Here = image.recorded[Len(got) + 1]
  BY <1>2, <1>4, <1>7, AtStart DEF Here
<1>9. image.start[(Len(got) + 1) + 1] = image.start[Len(got) + 1] + Total(image.recorded[Len(got) + 1])
  BY <1>2, <1>7, ImageFacts
<1>10. (Len(got) + 1) + 1 = Len(got) + 2
  BY <1>3
<1>11. QED BY <1>4, <1>7, <1>8, <1>9, <1>10

LEMMA InStepKept == LegInv /\ [Next]_vars => InStep'
<1> SUFFICES ASSUME LegInv, [Next]_vars PROVE InStep'
  OBVIOUS
<1> USE DEF fileVars, callVars, headVars, walkVars
<1>1. InStep /\ TypeOK /\ Phased /\ HeaderFound
  BY DEF LegInv, IndInv
<1>2. image \in Images /\ got \in Seq(Yielded) /\ Len(got) \in Nat /\ Len(image.recorded) \in Nat
  BY <1>1, ImageFacts DEF TypeOK
<1>3. ASSUME UNCHANGED <<image, size, got>>, pc' \notin {"primary", "rest", "yielded"}
      PROVE  InStep'
  BY <1>1, <1>3 DEF InStep, FileEnd
<1>4. CASE Open \/ OpenFails \/ SkipHeaders \/ ReadHeaderless \/ ReadFsHeader \/ ReadDsHeader
  BY <1>3, <1>4 DEF Open, OpenFails, SkipHeaders, ReadHeaderless, ReadFsHeader, ReadDsHeader
<1>5. CASE RefuseHeaders \/ EndClean \/ EndTorn \/ Close
  BY <1>3, <1>5 DEF RefuseHeaders, EndClean, EndTorn, Close
<1>6. CASE Walk
  <2>1. got = <<>> /\ dataOffset = IF mode = "cfe" THEN FsHdrSize + DsHdrSize ELSE 0
    BY <1>1, <1>6 DEF Walk, Phased
  <2>2. image.hdr <=> mode = "cfe"
    BY <1>1, <1>6 DEF Walk, Phased, HeaderFound
  <2>3. dataOffset = image.start[1]
    BY <1>2, <2>1, <2>2, ImageFacts
  <2>4. offset' = image.start[1] /\ pc' = "primary" /\ UNCHANGED <<image, size, got>>
    BY <1>6, <2>3 DEF Walk
  <2>5. Len(got) + 1 = 1
    BY <2>1
  <2>6. QED BY <1>1, <2>4, <2>5 DEF InStep, FileEnd
<1>7. CASE ReadPrimary
  BY <1>1, <1>7 DEF ReadPrimary, InStep, FileEnd
<1>8. CASE Yield
  <2>1. /\ Len(got) + 1 \in 1 .. Len(image.recorded)
        /\ Here = image.recorded[Len(got) + 1]
    BY <1>8, RestIsNext DEF Yield
  <2> DEFINE q == [index |-> index, offset |-> offset, packet |-> Here]
  <2>2. q \in Yielded
    BY <1>1, AtIsPacket DEF TypeOK, Yielded, Here
  <2>3. q.packet = Here
    OBVIOUS
  <2>4. got' = Append(got, q) /\ pc' = "yielded" /\ UNCHANGED <<image, size, offset>>
    BY <1>8 DEF Yield
  <2> HIDE DEF q
  <2>5. /\ Len(got') = Len(got) + 1 /\ got'[Len(got) + 1] = q
        /\ \A i \in 1 .. Len(got) : got'[i] = got[i]
    BY <1>2, <2>2, <2>4
  <2>6. \A i \in 1 .. Len(got') : got'[i].packet = image.recorded[i]
    <3>1. SUFFICES ASSUME NEW i \in 1 .. Len(got')
                   PROVE  got'[i].packet = image.recorded[i]
      OBVIOUS
    <3>2. CASE i \in 1 .. Len(got)
      BY <1>1, <2>5, <3>2 DEF InStep
    <3>3. CASE i = Len(got) + 1
      BY <2>1, <2>3, <2>5, <3>3
    <3>4. QED BY <1>2, <2>5, <3>2, <3>3
  <2>7. offset' = image.start[Len(got')]
    BY <1>1, <1>8, <2>4, <2>5 DEF InStep, Yield
  <2>8. Len(got') <= Len(image.recorded)
    BY <1>2, <2>1, <2>5
  <2>9. QED BY <1>1, <2>4, <2>6, <2>7, <2>8 DEF InStep, FileEnd
<1>9. CASE Resume
  <2>1. got # <<>> /\ offset = image.start[Len(got)] /\ Here = got[Len(got)].packet
    BY <1>1, <1>9 DEF Resume, InStep, Phased
  <2>2. Len(got) \in 1 .. Len(image.recorded) /\ Len(got) \in 1 .. Len(got)
    BY <1>1, <1>2, <2>1 DEF InStep
  <2>3. Here = image.recorded[Len(got)]
    BY <1>1, <2>1, <2>2 DEF InStep
  <2>4. image.start[Len(got) + 1] = offset + Total(Here)
    BY <1>2, <2>1, <2>2, <2>3, ImageFacts
  <2>5. /\ offset' = image.start[Len(got) + 1] /\ pc' = "primary"
        /\ UNCHANGED <<image, size, got>>
    BY <1>9, <2>4 DEF Resume
  <2>6. QED BY <1>1, <2>5 DEF InStep, FileEnd
<1>10. CASE Grow
  <2>1. /\ size' \in Nat /\ size' > size /\ size' <= FileEnd(image)
        /\ UNCHANGED <<image, got, pc, offset>>
    BY <1>10, FileAssumption DEF Grow
  <2>2. size \in Nat /\ offset \in Nat
    BY <1>1 DEF TypeOK
  <2>3. pc' = "rest" => size' >= offset' + CCSDS_PRIMARY_SIZE
    BY <1>1, <2>1, <2>2 DEF InStep, CCSDS_PRIMARY_SIZE
  <2>4. QED BY <1>1, <2>1, <2>3 DEF InStep, FileEnd
<1>11. CASE Unlink \/ UNCHANGED vars
  BY <1>1, <1>11 DEF Unlink, vars, InStep, FileEnd
<1>12. QED
  BY <1>4, <1>5, <1>6, <1>7, <1>8, <1>9, <1>10, <1>11 DEF Next, Reader, ReadHeaders, ReadPackets

LEMMA LegStep == LegInv /\ [Next]_vars => LegInv'
BY StepHolds, HeaderKept, InStepKept DEF LegInv

-----------------------------------------------------------------------------
(* What RecordedLog sees of the reader.                                    *)

LEMMA WholeIsPrefix ==
    ASSUME NEW im \in Images, NEW n \in Nat
    PROVE  {i \in 1 .. Len(im.recorded) : im.start[i + 1] <= n} \in Log!Prefixes(Len(im.recorded))
<1> DEFINE w == {i \in 1 .. Len(im.recorded) : im.start[i + 1] <= n}
<1>1. Len(im.recorded) \in Nat
  BY ImageFacts
<1>2. ASSUME NEW i \in w, NEW j \in 1 .. i
      PROVE  j \in w
  <2>1. i \in 1 .. Len(im.recorded) /\ im.start[i + 1] <= n
    OBVIOUS
  <2>2. /\ j \in 1 .. Len(im.recorded)
        /\ i + 1 \in 1 .. Len(im.recorded) + 1
        /\ j + 1 \in 1 .. Len(im.recorded) + 1
        /\ j + 1 <= i + 1
    BY <1>1, <2>1
  <2>3. im.start[j + 1] <= im.start[i + 1]
    BY <2>2, StartsGrow
  <2>4. im.start[j + 1] \in Nat /\ im.start[i + 1] \in Nat
    BY <2>2, ImageFacts
  <2>5. im.start[j + 1] <= n
    BY <2>1, <2>3, <2>4
  <2>6. QED BY <2>2, <2>5
<1>3. QED BY <1>2 DEF Log!Prefixes

\* The status of each phase.
LEMMA StatusOf ==
    /\ pc = "failed" => Status = "refused"
    /\ Walking => Status = "reading"
    /\ pc = "ended" => Status = "ended"
    /\ pc = "closed" /\ opens > 0 => Status = "ended"
    /\ pc = "closed" /\ ~(opens > 0) => Status = "opening"
    /\ pc \in {"fs header", "ds header", "opened"} => Status = "opening"
BY DEF Status, Walking

\* At the end of a walk RecordedLog's End is what has happened.
LEMMA NoneLeft ==
    ASSUME LegInv, pc = "primary", size <= offset
    PROVE  Len(got) + 1 \notin Whole /\ ~Torn
<1>1. TypeOK /\ Phased /\ InStep
  BY DEF LegInv, IndInv
<1>2. /\ image \in Images /\ size \in Nat /\ offset \in Nat
      /\ Len(got) \in Nat /\ Len(image.recorded) \in Nat
  BY <1>1, ImageFacts DEF TypeOK
<1>3. size = image.start[Len(got) + 1] /\ Len(got) <= Len(image.recorded)
  <2>1. offset <= size
    BY <1>1 DEF Phased, Walking
  <2>2. QED BY <1>1, <1>2, <2>1 DEF InStep
<1>4. ASSUME NEW i \in 1 .. Len(image.recorded), Len(got) + 1 <= i
      PROVE  size < image.start[i + 1]
  <2>1. /\ Len(got) + 1 \in 1 .. Len(image.recorded) + 1
        /\ i + 1 \in 1 .. Len(image.recorded) + 1 /\ Len(got) + 1 < i + 1
    BY <1>2, <1>3, <1>4
  <2>2. QED BY <1>2, <1>3, <2>1, ImageFacts
<1>5. ASSUME NEW i \in 1 .. Len(image.recorded), i <= Len(got)
      PROVE  image.start[i + 1] <= size
  <2>1. /\ Len(got) + 1 \in 1 .. Len(image.recorded) + 1
        /\ i + 1 \in 1 .. Len(image.recorded) + 1 /\ i + 1 <= Len(got) + 1
    BY <1>2, <1>3, <1>5
  <2>2. QED BY <1>2, <1>3, <2>1, StartsGrow
<1>6. ASSUME NEW i \in 1 .. Len(image.recorded)
      PROVE  image.start[i + 1] \in Nat
  <2>1. i + 1 \in 1 .. Len(image.recorded) + 1
    BY <1>2
  <2>2. QED BY <1>2, <2>1, ImageFacts
<1>7. Len(got) + 1 \notin Whole
  <2>1. SUFFICES ASSUME Len(got) + 1 \in Whole PROVE FALSE
    OBVIOUS
  <2>2. Len(got) + 1 \in 1 .. Len(image.recorded) /\ image.start[(Len(got) + 1) + 1] <= size
    BY <2>1 DEF Whole
  <2>3. Len(got) + 1 <= Len(got) + 1
    BY <1>2
  <2>4. QED BY <1>2, <1>4, <1>6, <2>2, <2>3
<1>8. ~Torn
  <2>1. SUFFICES ASSUME NEW i \in 1 .. Len(image.recorded),
                        image.start[i] < size, size < image.start[i + 1]
                 PROVE  FALSE
    BY DEF Torn
  <2>2. CASE i <= Len(got)
    BY <1>2, <1>5, <1>6, <2>1, <2>2
  <2>3. CASE Len(got) + 1 <= i
    <3>1. i \in 1 .. Len(image.recorded) + 1 /\ Len(got) + 1 \in 1 .. Len(image.recorded) + 1
      BY <1>2, <1>3
    <3>2. image.start[Len(got) + 1] <= image.start[i] /\ image.start[i] \in Nat
      BY <1>2, <2>3, <3>1, StartsGrow, ImageFacts
    <3>3. QED BY <1>2, <1>3, <2>1, <3>2
  <2>4. QED BY <1>2, <2>2, <2>3
<1>9. QED BY <1>7, <1>8

LEMMA NextIsTorn ==
    ASSUME LegInv, EndsInside
    PROVE  Len(got) + 1 \notin Whole /\ Torn
<1>1. TypeOK /\ Phased /\ InStep
  BY DEF LegInv, IndInv
<1>2. /\ image \in Images /\ size \in Nat /\ offset \in Nat
      /\ Len(got) \in Nat /\ Len(image.recorded) \in Nat
  BY <1>1, ImageFacts DEF TypeOK
<1>3. offset = image.start[Len(got) + 1]
  BY <1>1 DEF InStep, EndsInside
<1>4. /\ Len(got) + 1 \in 1 .. Len(image.recorded)
      /\ offset < size /\ size < image.start[Len(got) + 2]
  <2>1. CASE pc = "rest"
    <3>1. Total(Here) \in Nat
      BY <1>2, AtIsPacket DEF Here
    <3>2. size < offset + Total(Here)
      BY <2>1 DEF EndsInside
    <3>3. size >= offset + 6
      BY <1>1, <2>1 DEF InStep, CCSDS_PRIMARY_SIZE
    <3>4. QED BY <1>2, <2>1, <3>1, <3>2, <3>3, RestIsNext
  <2>2. CASE pc = "primary"
    <3>1. size > offset /\ size < offset + 6
      BY <2>2 DEF EndsInside, CCSDS_PRIMARY_SIZE
    <3>2. size <= image.start[Len(image.recorded) + 1] /\ Len(got) <= Len(image.recorded)
      BY <1>1 DEF InStep, FileEnd
    <3>3. Len(got) # Len(image.recorded)
      BY <1>2, <1>3, <3>1, <3>2
    <3>4. Len(got) + 1 \in 1 .. Len(image.recorded)
      BY <1>2, <3>2, <3>3
    <3>5. image.start[(Len(got) + 1) + 1] = offset + Total(image.recorded[Len(got) + 1])
      BY <1>2, <1>3, <3>4, ImageFacts
    <3>6. Total(image.recorded[Len(got) + 1]) \in Nat /\ Total(image.recorded[Len(got) + 1]) >= 7
      <4>1. image.recorded \in Seq(Packet)
        BY <1>2, ImageFacts
      <4>2. image.recorded[Len(got) + 1] \in Packet
        BY <3>4, <4>1
      <4>3. QED BY <4>2, TotalBounds
    <3>7. (Len(got) + 1) + 1 = Len(got) + 2
      BY <1>2
    <3>8. size < image.start[Len(got) + 2]
      BY <1>2, <3>1, <3>5, <3>6, <3>7
    <3>9. QED BY <1>2, <3>1, <3>4, <3>8
  <2>3. QED BY <2>1, <2>2 DEF EndsInside
<1>5. (Len(got) + 1) + 1 = Len(got) + 2 /\ image.start[(Len(got) + 1) + 1] \in Nat
  <2>1. (Len(got) + 1) + 1 \in 1 .. Len(image.recorded) + 1
    BY <1>2, <1>4
  <2>2. QED BY <1>2, <2>1, ImageFacts
<1>6. Torn
  BY <1>3, <1>4, <1>5 DEF Torn
<1>7. Len(got) + 1 \notin Whole
  <2>1. SUFFICES ASSUME Len(got) + 1 \in Whole PROVE FALSE
    OBVIOUS
  <2>2. image.start[(Len(got) + 1) + 1] <= size
    BY <2>1 DEF Whole
  <2>3. QED BY <1>2, <1>4, <1>5, <2>2
<1>8. QED BY <1>6, <1>7

-----------------------------------------------------------------------------

LEMMA LogInit == InitLegible => Log!Init
<1> SUFFICES ASSUME InitLegible PROVE Log!Init
  OBVIOUS
<1>1. TypeOK
  BY LegInit DEF LegInv, IndInv
<1>2. got = <<>> /\ pc = "closed" /\ opens = 0
  BY DEF InitLegible, Init
<1>3. truncated = FALSE
  BY DEF InitLegible, Init
<1>4. Delivered = <<>>
  BY <1>2 DEF Delivered
<1>5. Status = "opening"
  BY <1>2, StatusOf
<1>6. Torn \in BOOLEAN
  BY DEF Torn
<1>7. Whole \in Log!Prefixes(Len(image.recorded))
  BY <1>1, WholeIsPrefix DEF TypeOK, Whole
<1>8. QED BY <1>3, <1>4, <1>5, <1>6, <1>7 DEF Log!Init

LEMMA LogStep == LegInv /\ [Next]_vars => [Log!Next]_(Log!vars)
<1> SUFFICES ASSUME LegInv, [Next]_vars PROVE [Log!Next]_(Log!vars)
  OBVIOUS
<1> USE DEF fileVars, callVars, headVars, walkVars
<1>1. TypeOK /\ Phased /\ InStep /\ Warned
  BY DEF LegInv, IndInv
<1>2. TypeOK'
  BY <1>1, TypeKept
<1>3. got \in Seq(Yielded) /\ Len(got) \in Nat
  BY <1>1 DEF TypeOK
<1>4. ASSUME UNCHANGED <<image, size>>
      PROVE  UNCHANGED <<image.recorded, Whole, Torn>>
  BY <1>4 DEF Whole, Torn
<1>5. ASSUME UNCHANGED got
      PROVE  UNCHANGED Delivered
  BY <1>5 DEF Delivered
<1>6. Len(Delivered) = Len(got)
  BY <1>3 DEF Delivered
<1>7. ASSUME UNCHANGED <<image, size, got, truncated>>, Status' = Status
      PROVE  UNCHANGED Log!vars
  BY <1>4, <1>5, <1>7 DEF Log!vars
<1>8. ASSUME UNCHANGED <<image, size, got, truncated>>, Status = "opening", Status' = "refused"
      PROVE  Log!Next
  BY <1>4, <1>5, <1>8 DEF Log!Next, Log!Read, Log!Refuse
<1>8a. ASSUME Opening
       PROVE  Status = "opening"
  <2>1. CASE pc = "closed" /\ opens = 0
    BY <2>1, StatusOf
  <2>2. CASE pc = "opened"
    BY <2>2, StatusOf
  <2>3. QED BY <1>8a, <2>1, <2>2 DEF Opening
<1>9. CASE Open
  <2>1. Status = "opening"
    BY <1>9, <1>8a DEF Open
  <2>2. Status' = "opening"
    BY <1>9 DEF Open, Status, Walking
  <2>3. QED BY <1>7, <1>9, <2>1, <2>2 DEF Open
<1>10. CASE OpenFails \/ RefuseHeaders
  <2>1. Status = "opening"
    <3>1. Opening \/ pc \in {"fs header", "ds header"}
      BY <1>10 DEF OpenFails, RefuseHeaders
    <3>2. QED BY <1>8a, <3>1, StatusOf
  <2>2. Status' = "refused"
    <3>1. pc' = "failed"
      BY <1>10 DEF OpenFails, RefuseHeaders
    <3>2. QED BY <3>1 DEF Status, Walking
  <2>3. QED BY <1>8, <1>10, <2>1, <2>2 DEF OpenFails, RefuseHeaders
<1>11. CASE SkipHeaders \/ ReadHeaderless \/ ReadFsHeader \/ ReadDsHeader
  <2>1. Status = "opening"
    BY <1>11, StatusOf DEF SkipHeaders, ReadHeaderless, ReadFsHeader, ReadDsHeader
  <2>2. Status' = "opening"
    BY <1>11 DEF SkipHeaders, ReadHeaderless, ReadFsHeader, ReadDsHeader, Status, Walking
  <2>3. QED
    BY <1>7, <1>11, <2>1, <2>2 DEF SkipHeaders, ReadHeaderless, ReadFsHeader, ReadDsHeader
<1>12. CASE Walk
  <2>1. Status = "opening" /\ Status' = "reading"
    BY <1>12 DEF Walk, Status, Walking
  <2>2. UNCHANGED <<image, size, got, truncated>>
    BY <1>12 DEF Walk
  <2>3. QED BY <1>4, <1>5, <2>1, <2>2 DEF Log!Next, Log!Read, Log!Begin
<1>13. CASE ReadPrimary \/ Resume
  <2>1. Status = "reading" /\ Status' = "reading"
    BY <1>13 DEF ReadPrimary, Resume, Status, Walking
  <2>2. QED BY <1>7, <1>13, <2>1 DEF ReadPrimary, Resume
<1>14. CASE Yield
  <2>1. Status = "reading" /\ Status' = "reading"
    BY <1>14 DEF Yield, Status, Walking
  <2>2. /\ Len(got) + 1 \in 1 .. Len(image.recorded)
        /\ Here = image.recorded[Len(got) + 1]
        /\ offset + Total(Here) = image.start[Len(got) + 2]
    BY <1>14, RestIsNext DEF Yield
  <2>3. Len(got) + 1 \in Whole
    <3>1. (Len(got) + 1) + 1 = Len(got) + 2
      BY <1>3
    <3>2. image.start[(Len(got) + 1) + 1] <= size
      <4>1. Total(Here) \in Nat /\ size \in Nat /\ offset \in Nat
        BY <1>1, AtIsPacket DEF TypeOK, Here
      <4>2. offset + Total(Here) <= size
        BY <1>14, <4>1 DEF Yield
      <4>3. QED BY <2>2, <3>1, <4>2
    <3>3. QED BY <2>2, <3>2 DEF Whole
  <2> DEFINE q == [index |-> index, offset |-> offset, packet |-> Here]
  <2>4. q \in Yielded /\ q.packet = Here
    BY <1>1, AtIsPacket DEF TypeOK, Yielded, Here
  <2>5. got' = Append(got, q) /\ UNCHANGED <<image, size, truncated>>
    BY <1>14 DEF Yield
  <2> HIDE DEF q
  <2>6. /\ Len(got') = Len(got) + 1 /\ got'[Len(got) + 1] = q
        /\ \A i \in 1 .. Len(got) : got'[i] = got[i]
    BY <1>3, <2>4, <2>5
  <2>7. Delivered' = Append(Delivered, image.recorded[Len(got) + 1])
    <3> DEFINE D == [i \in 1 .. Len(got) |-> got[i].packet]
    <3>1. D \in Seq(Packet) /\ Len(D) = Len(got)
      <4>1. \A i \in 1 .. Len(got) : got[i] \in Yielded
        BY <1>3
      <4>2. \A i \in 1 .. Len(got) : got[i].packet \in Packet
        BY <4>1 DEF Yielded
      <4>3. QED BY <1>3, <4>2
    <3>2. Append(D, Here) = [i \in 1 .. Len(got) + 1 |-> IF i = Len(got) + 1 THEN Here ELSE D[i]]
      BY <1>3, <3>1
    <3>3. Delivered' = [i \in 1 .. Len(got) + 1 |-> got'[i].packet]
      BY <2>6 DEF Delivered
    <3>4. \A i \in 1 .. Len(got) + 1 :
             got'[i].packet = IF i = Len(got) + 1 THEN Here ELSE D[i]
      BY <1>3, <2>4, <2>6
    <3>5. Delivered' = Append(D, Here)
      BY <3>2, <3>3, <3>4
    <3>6. QED BY <2>2, <3>5 DEF Delivered
  <2>8. Log!Deliver
    BY <1>4, <1>6, <2>1, <2>3, <2>5, <2>7 DEF Log!Deliver, Log!Next1
  <2>9. QED BY <2>8 DEF Log!Next, Log!Read
<1>15. CASE EndClean
  <2>1. Status = "reading" /\ Status' = "ended"
    BY <1>15 DEF EndClean, Status, Walking
  <2>2. Len(got) + 1 \notin Whole /\ ~Torn
    BY <1>15, NoneLeft DEF EndClean
  <2>3. UNCHANGED <<image, size, got, truncated>>
    BY <1>15 DEF EndClean
  <2>4. truncated = FALSE
    <3>1. ~truncated
      BY <1>1, <1>15 DEF EndClean, Warned
    <3>2. truncated \in BOOLEAN
      BY <1>1 DEF TypeOK
    <3>3. QED BY Zenon, <3>1, <3>2
  <2>5. Torn = FALSE
    BY <2>2 DEF Torn
  <2>6. truncated' = Torn
    BY Zenon, <2>3, <2>4, <2>5
  <2>7. QED
    BY <1>4, <1>5, <1>6, <2>1, <2>2, <2>3, <2>6 DEF Log!Next, Log!Read, Log!End, Log!Next1
<1>16. CASE EndTorn
  <2>1. Status = "reading" /\ Status' = "ended"
    BY <1>16 DEF EndTorn, EndsInside, Status, Walking
  <2>2. Len(got) + 1 \notin Whole /\ Torn
    BY <1>16, NextIsTorn DEF EndTorn
  <2>3. UNCHANGED <<image, size, got>>
    BY <1>16 DEF EndTorn
  <2>4. truncated' = TRUE
    BY Zenon, <1>16 DEF EndTorn
  <2>5. Torn = TRUE
    BY <2>2 DEF Torn
  <2>6. truncated' = Torn
    BY Zenon, <2>4, <2>5
  <2>7. QED
    BY <1>4, <1>5, <1>6, <2>1, <2>2, <2>3, <2>6 DEF Log!Next, Log!Read, Log!End, Log!Next1
<1>17. CASE Close
  <2>1. opens > 0 /\ opens' = opens /\ pc' = "closed" /\ pc = "ended"
    BY <1>1, <1>17 DEF Close, Phased
  <2>2. Status = "ended" /\ Status' = "ended"
    BY <2>1 DEF Status, Walking
  <2>3. QED BY <1>7, <1>17, <2>2 DEF Close
<1>18. CASE Grow
  <2>1. UNCHANGED <<image, got, pc, opens, truncated>> /\ size' \in Nat /\ size' > size
    BY <1>18, FileAssumption DEF Grow
  <2>2. Status' = Status
    BY <2>1 DEF Status, Walking
  <2>3. Whole' \in Log!Prefixes(Len(image'.recorded))
    BY <1>1, <2>1, WholeIsPrefix DEF Whole, TypeOK
  <2>4. Whole \subseteq Whole'
    <3>1. SUFFICES ASSUME NEW i \in Whole PROVE i \in Whole'
      OBVIOUS
    <3>2. i \in 1 .. Len(image.recorded) /\ image.start[i + 1] <= size
      BY <3>1 DEF Whole
    <3>3. i + 1 \in 1 .. Len(image.recorded) + 1 /\ image \in Images /\ size \in Nat
      BY <1>1, <3>2, ImageFacts DEF TypeOK
    <3>4. image.start[i + 1] \in Nat
      BY <3>3, ImageFacts
    <3>5. image.start[i + 1] <= size'
      BY <2>1, <3>2, <3>3, <3>4
    <3>6. QED BY <2>1, <3>2, <3>5 DEF Whole
  <2>5. Torn' \in BOOLEAN
    BY DEF Torn
  <2>6. QED
    BY <1>5, <2>1, <2>2, <2>3, <2>4, <2>5 DEF Log!Next, Log!Record
<1>19. CASE Unlink \/ UNCHANGED vars
  <2>1. UNCHANGED <<image, size, got, truncated, pc, opens>>
    BY <1>19 DEF Unlink, vars
  <2>2. Status' = Status
    BY <2>1 DEF Status, Walking
  <2>3. QED BY <1>7, <2>1, <2>2
<1>20. QED
  BY <1>9, <1>10, <1>11, <1>12, <1>13, <1>14, <1>15, <1>16, <1>17, <1>18, <1>19
     DEF Next, Reader, ReadHeaders, ReadPackets

\* While it reads a file whose layout it has found, the packets yielded are
\* the first messages recorded, and the one being read is the next.
THEOREM LegInvariance == LegibleSpec => []LegInv
BY LegInit, LegStep, PTL DEF LegibleSpec

\* Started with a header mode that fits the file, every behaviour of the
\* reader is one of the recorded log, its fairness aside (class DsFile).
THEOREM LogImplemented == LegibleSpec => Log!Init /\ [][Log!Next]_(Log!vars)
<1>1. LegibleSpec => []LegInv
  BY LegInvariance
<1>2. LegibleSpec => Log!Init
  BY LogInit DEF LegibleSpec
<1>3. QED BY <1>1, <1>2, LogStep, PTL DEF LegibleSpec
=============================================================================
