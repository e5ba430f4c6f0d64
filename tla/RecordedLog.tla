---------------------------- MODULE RecordedLog ----------------------------
(***************************************************************************)
(* What reading one DS log promises, without bytes or offsets.  The        *)
(* recorder lays messages end to end; the file holds a prefix of them      *)
(* whole, may be torn inside the next one, and may still be growing.  A    *)
(* reader either refuses the file or delivers the messages in the order    *)
(* they were recorded, each once, stops only where the next message is not *)
(* whole, and says whether the file was torn when it stopped.              *)
(***************************************************************************)
EXTENDS Naturals, Sequences

VARIABLES
    log,        \* the messages the recorder lays in the file, in order
    whole,      \* the positions of log that are wholly in the file
    torn,       \* the file ends inside a message
    delivered,  \* the messages the reader has handed over
    status,     \* of the reader
    cut         \* the reader found the file torn

vars == <<log, whole, torn, delivered, status, cut>>

\* With a position, every earlier one.
Prefixes(n) == {w \in SUBSET (1 .. n) : \A i \in w : 1 .. i \subseteq w}

Next1 == Len(delivered) + 1

Init == /\ whole \in Prefixes(Len(log))
        /\ torn \in BOOLEAN
        /\ delivered = <<>>
        /\ status = "opening"
        /\ cut = FALSE

\* The recorder adds bytes, and never takes any back.
Record == /\ whole' \in Prefixes(Len(log))
          /\ whole \subseteq whole'
          /\ torn' \in BOOLEAN
          /\ UNCHANGED <<log, delivered, status, cut>>

Refuse == /\ status = "opening"
          /\ status' = "refused"
          /\ UNCHANGED <<log, whole, torn, delivered, cut>>

Begin == /\ status = "opening"
         /\ status' = "reading"
         /\ UNCHANGED <<log, whole, torn, delivered, cut>>

Deliver == /\ status = "reading"
           /\ Next1 \in whole
           /\ delivered' = Append(delivered, log[Next1])
           /\ UNCHANGED <<log, whole, torn, status, cut>>

End == /\ status = "reading"
       /\ Next1 \notin whole
       /\ status' = "ended"
       /\ cut' = torn
       /\ UNCHANGED <<log, whole, torn, delivered>>

Read == Refuse \/ Begin \/ Deliver \/ End

Next == Record \/ Read

Spec == Init /\ [][Next]_vars /\ WF_vars(Read)
=============================================================================
