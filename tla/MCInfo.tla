------------------------------- MODULE MCInfo -------------------------------
(***************************************************************************)
(* Small runs of Info: one input file or two, of up to three messages each *)
(* of two message IDs and lengths that rise and fall, torn or refused.     *)
(***************************************************************************)
EXTENDS Info

CONSTANT MaxMessages

Message(apid, length) ==
    [version |-> 0, isCmd |-> FALSE, secHdr |-> TRUE, apid |-> apid,
     lenField |-> length - 7, byte7 |-> 0, fcnByte |-> 0]

Messages == {Message(1, 12), Message(1, 20), Message(2, 16)}

Logs == UNION {[1 .. n -> Messages] : n \in 0 .. MaxMessages}

Whole(l) == [refused |-> FALSE, log |-> l, whole |-> Len(l), torn |-> FALSE]

Torn(l) == [Whole(l) EXCEPT !.whole = Len(l) - 1, !.torn = TRUE]

Refused == [Whole(<<>>) EXCEPT !.refused = TRUE]

Files == {Refused} \cup {Whole(l) : l \in Logs} \cup {Torn(l) : l \in Logs \ {<<>>}}

Seconds == {Refused} \cup {f \in Files : Len(f.log) = 1}

MCInputs == {<<f>> : f \in Files} \cup {<<f, g>> : f \in Files, g \in Seconds}
=============================================================================
