------------------------------ MODULE MCDsFile ------------------------------
(***************************************************************************)
(* Small files for DsFile: no message to two, with and without the       *)
(* headers, caught at every size that matters to a read.                   *)
(***************************************************************************)
EXTENDS DsFile

CONSTANTS MaxMessages, LenFields

MessageOf(lenField) ==
    [version |-> 0, isCmd |-> FALSE, secHdr |-> TRUE, apid |-> lenField,
     lenField |-> lenField, byte7 |-> 0, fcnByte |-> 0]

\* What the file's own headers read as when they are taken for packets.
Junk == [MessageOf(30) EXCEPT !.version = 3]

Recordings == UNION {[1 .. n -> {MessageOf(l) : l \in LenFields}] : n \in 0 .. MaxMessages}

Starts(rec, base) ==
    LET s[i \in 1 .. Len(rec) + 1] ==
          IF i = 1 THEN base ELSE s[i - 1] + rec[i - 1].lenField + 7
    IN  s

Image(rec, hdr) ==
    [hdr |-> hdr, recorded |-> rec, junk |-> Junk,
     start |-> Starts(rec, IF hdr THEN FsHdrSize + DsHdrSize ELSE 0)]

MCImages == {Image(rec, hdr) : rec \in Recordings, hdr \in BOOLEAN}

\* Around the end of each header and of each packet, its primary header
\* included.
Edges == UNION {{0, 64, 140} \cup {im.start[i] : i \in DOMAIN im.start}
                             \cup {im.start[i] + 6 : i \in DOMAIN im.start} : im \in MCImages}

MCCuts == {e - 1 : e \in Edges \ {0}} \cup Edges

=============================================================================
