------------------------------- MODULE DsFile -------------------------------
(***************************************************************************)
(* The DS log reader (dsfile.py, class DsFile) working on one file.        *)
(*                                                                         *)
(* The file is what the recorder lays out: the cFE and DS headers, or      *)
(* neither, then the recorded messages end to end.  The bytes on disk are  *)
(* the first size of them, and the recorder may still be adding more while *)
(* the file is read.  The reader is one thread: each read() of the code is *)
(* a step, so the file may grow, or its name go away, between any two.     *)
(***************************************************************************)
EXTENDS CcsdsPacket, Sequences

CONSTANTS
    FsHdrSize,  \* sizeof CFE_FS_Header_t
    DsHdrSize,  \* sizeof DS_FileHeader_t
    Images,     \* the files there may be
    Cuts        \* the sizes a file may be caught at

HeaderModes == {"auto", "cfe", "none"}

\* A file as the recorder lays it out: start[i] is where its i-th message
\* begins, the last start is its end, and junk is what a packet header reads
\* as at any other byte.
\* (That the starts increase follows from the last conjunct; it is stated
\* because it takes an induction over the messages.)
IsImage(im) ==
    /\ im.hdr \in BOOLEAN
    /\ im.recorded \in Seq(Packet)
    /\ im.junk \in Packet
    /\ im.start \in [1 .. Len(im.recorded) + 1 -> Nat]
    /\ im.start[1] = IF im.hdr THEN FsHdrSize + DsHdrSize ELSE 0
    /\ \A i \in 1 .. Len(im.recorded) :
          im.start[i + 1] = im.start[i] + Total(im.recorded[i])
    /\ \A i, j \in 1 .. Len(im.recorded) + 1 : i < j => im.start[i] < im.start[j]

ASSUME FileAssumption ==
    /\ FsHdrSize \in Nat
    /\ DsHdrSize \in Nat
    /\ Cuts \subseteq Nat
    /\ \A im \in Images : IsImage(im)

VARIABLES
    image,      \* the file's whole contents, as the recorder will have laid them
    size,       \* how many bytes of them are on disk
    exists,     \* the path still names the file
    requested,  \* header_mode as the caller gave it
    needed,     \* how often the caller opens the file before it reads packets
    mode,       \* self.header_mode
    pc,         \* the reader's next read
    opens,      \* how often open() has run
    dataOffset, \* self.data_offset
    offset,     \* where the packet being read begins
    index,      \* its number
    got,        \* the packets yielded so far
    truncated,  \* self.truncated
    warnings    \* what self.warn was told

fileVars == <<image, size, exists>>
callVars == <<requested, needed>>
headVars == <<mode, dataOffset, opens>>
walkVars == <<offset, index, got, truncated>>
vars == <<fileVars, callVars, headVars, walkVars, pc, warnings>>

\* The packet whose header the six bytes at byte o read as.
At(im, o) ==
    IF \E i \in 1 .. Len(im.recorded) : im.start[i] = o
      THEN im.recorded[CHOOSE i \in 1 .. Len(im.recorded) : im.start[i] = o]
      ELSE im.junk

FileEnd(im) == im.start[Len(im.recorded) + 1]

Init == /\ image \in Images
        /\ size \in Cuts /\ size <= FileEnd(image)
        /\ exists \in BOOLEAN
        /\ requested \in HeaderModes
        /\ needed \in {1, 2}    \* summarize enters; cmd_decode opens, then enters
        /\ mode = requested
        /\ pc = "closed"
        /\ opens = 0
        /\ dataOffset = 0
        /\ offset = 0
        /\ index = 0
        /\ got = <<>>
        /\ truncated = FALSE
        /\ warnings = <<>>

-----------------------------------------------------------------------------
(* The outside world.                                                      *)

Grow == /\ size' \in Cuts
        /\ size' > size /\ size' <= FileEnd(image)
        /\ UNCHANGED <<image, exists, callVars, headVars, walkVars, pc, warnings>>

Unlink == /\ exists
          /\ exists' = FALSE
          /\ UNCHANGED <<image, size, callVars, headVars, walkVars, pc, warnings>>

-----------------------------------------------------------------------------
(* open() and __enter__, which opens again.                                *)

\* A bug: open() runs whenever the reader is at hand, and not once per call.
OpeningAgain == pc \in {"closed", "opened"}

Opening == \/ pc = "closed" /\ opens = 0
           \/ pc = "opened" /\ opens < needed

\* A bug: open() starts over from the mode the caller asked for.
OpenFromScratch ==
    /\ Opening
    /\ exists
    /\ pc' = "fs header"
    /\ opens' = opens + 1
    /\ mode' = requested
    /\ UNCHANGED <<fileVars, callVars, dataOffset, walkVars, warnings>>

Open == /\ Opening
        /\ exists
        /\ pc' = "fs header"
        /\ opens' = opens + 1
        /\ UNCHANGED <<fileVars, callVars, mode, dataOffset, walkVars, warnings>>

OpenFails == /\ Opening
             /\ ~exists
             /\ pc' = "failed"
             /\ UNCHANGED <<fileVars, callVars, headVars, walkVars, warnings>>

\* Mode none: packets start at byte 0 and nothing is read.
SkipHeaders == /\ pc = "fs header"
               /\ mode = "none"
               /\ dataOffset' = 0
               /\ pc' = "opened"
               /\ UNCHANGED <<fileVars, callVars, mode, opens, walkVars, warnings>>

HasFsHeader == image.hdr /\ size >= FsHdrSize

\* A bug: the headerless file is read from byte 0 but the mode is not kept.
ForgetHeaderless ==
    /\ pc = "fs header"
    /\ mode = "auto"
    /\ ~HasFsHeader
    /\ warnings' = Append(warnings, "headerless")
    /\ dataOffset' = 0
    /\ pc' = "opened"
    /\ UNCHANGED <<fileVars, callVars, mode, opens, walkVars>>

ReadHeaderless ==
    /\ pc = "fs header"
    /\ mode = "auto"
    /\ ~HasFsHeader
    /\ warnings' = Append(warnings, "headerless")
    /\ mode' = "none"
    /\ dataOffset' = 0
    /\ pc' = "opened"
    /\ UNCHANGED <<fileVars, callVars, opens, walkVars>>

ReadFsHeader ==
    /\ pc = "fs header"
    /\ mode # "none"
    /\ HasFsHeader
    /\ mode' = "cfe"
    /\ pc' = "ds header"
    /\ UNCHANGED <<fileVars, callVars, dataOffset, opens, walkVars, warnings>>

\* A bug: the DS header is not counted when the packets are looked for.
ReadDsHeaderShort ==
    /\ pc = "ds header"
    /\ size >= FsHdrSize + DsHdrSize
    /\ dataOffset' = FsHdrSize
    /\ pc' = "opened"
    /\ UNCHANGED <<fileVars, callVars, mode, opens, walkVars, warnings>>

ReadDsHeader ==
    /\ pc = "ds header"
    /\ size >= FsHdrSize + DsHdrSize
    /\ dataOffset' = FsHdrSize + DsHdrSize
    /\ pc' = "opened"
    /\ UNCHANGED <<fileVars, callVars, mode, opens, walkVars, warnings>>

\* DsFileError: mode cfe and no header there, or a file that ends inside its
\* DS header.
RefuseHeaders ==
    /\ \/ pc = "fs header" /\ mode = "cfe" /\ ~HasFsHeader
       \/ pc = "ds header" /\ size < FsHdrSize + DsHdrSize
    /\ pc' = "failed"
    /\ UNCHANGED <<fileVars, callVars, headVars, walkVars, warnings>>

-----------------------------------------------------------------------------
(* packets(), a generator: one packet to the caller at a time.             *)

Walk == /\ pc = "opened"
        /\ opens = needed
        /\ offset' = dataOffset
        /\ index' = 0
        /\ pc' = "primary"
        /\ UNCHANGED <<fileVars, callVars, headVars, got, truncated, warnings>>

\* The file ends where a packet would begin.
EndClean == /\ pc = "primary"
            /\ size <= offset
            /\ pc' = "ended"
            /\ UNCHANGED <<fileVars, callVars, headVars, walkVars, warnings>>

ReadPrimary == /\ pc = "primary"
               /\ size >= offset + CCSDS_PRIMARY_SIZE
               /\ pc' = "rest"
               /\ UNCHANGED <<fileVars, callVars, headVars, walkVars, warnings>>

Here == At(image, offset)

\* A bug: bytes too few for a packet header are waited out.
EndsInsideRest == pc = "rest" /\ size < offset + Total(Here)

\* The file ends inside a packet's header, or inside the rest of it.
EndsInside == \/ pc = "primary" /\ size > offset /\ size < offset + CCSDS_PRIMARY_SIZE
              \/ pc = "rest" /\ size < offset + Total(Here)

\* A bug: bytes too few for a packet header are taken for the end of the file.
EndInPacketOnly ==
    /\ EndsInside
    /\ truncated' = (pc = "rest")
    /\ warnings' = Append(warnings, "torn")
    /\ pc' = "ended"
    /\ UNCHANGED <<fileVars, callVars, headVars, offset, index, got>>

EndTorn == /\ EndsInside
           /\ truncated' = TRUE
           /\ warnings' = Append(warnings, "torn")
           /\ pc' = "ended"
           /\ UNCHANGED <<fileVars, callVars, headVars, offset, index, got>>

\* A bug: a packet cut short is yielded like any other.
YieldShort ==
    /\ pc = "rest"
    /\ got' = Append(got, [index |-> index, offset |-> offset, packet |-> Here])
    /\ pc' = "yielded"
    /\ UNCHANGED <<fileVars, callVars, headVars, offset, index, truncated, warnings>>

Yield ==
    /\ pc = "rest"
    /\ size >= offset + Total(Here)
    /\ got' = Append(got, [index |-> index, offset |-> offset, packet |-> Here])
    /\ pc' = "yielded"
    /\ UNCHANGED <<fileVars, callVars, headVars, offset, index, truncated, warnings>>

\* A bug: the length field is taken for the packet's length.
ResumeByField ==
    /\ pc = "yielded"
    /\ index' = index + 1
    /\ offset' = offset + Here.lenField + CCSDS_PRIMARY_SIZE
    /\ pc' = "primary"
    /\ UNCHANGED <<fileVars, callVars, headVars, got, truncated, warnings>>

\* The caller asks for the next packet.
Resume == /\ pc = "yielded"
          /\ index' = index + 1
          /\ offset' = offset + Total(Here)
          /\ pc' = "primary"
          /\ UNCHANGED <<fileVars, callVars, headVars, got, truncated, warnings>>

Close == /\ pc = "ended"
         /\ pc' = "closed"
         /\ UNCHANGED <<fileVars, callVars, mode, dataOffset, opens, walkVars, warnings>>

-----------------------------------------------------------------------------

ReadHeaders == SkipHeaders \/ ReadHeaderless \/ ReadFsHeader \/ ReadDsHeader \/ RefuseHeaders

ReadPackets == Walk \/ ReadPrimary \/ Yield \/ Resume \/ EndClean \/ EndTorn

Reader == Open \/ OpenFails \/ ReadHeaders \/ ReadPackets \/ Close

Next == Reader \/ Grow \/ Unlink

\* The reader is a plain sequential program: it keeps running.  Nothing says
\* that the file grows or goes away.
Fairness == WF_vars(Reader)

Spec == Init /\ [][Next]_vars /\ Fairness

-----------------------------------------------------------------------------
(* Properties.                                                             *)

Phases == {"closed", "fs header", "ds header", "opened", "primary", "rest",
           "yielded", "ended", "failed"}

Walking == pc \in {"primary", "rest", "yielded"}

Troubles == {"headerless", "torn"}

Yielded == [index : Nat, offset : Nat, packet : Packet]

\* Every variable has its type.
TypeOK == /\ image \in Images
          /\ size \in Nat
          /\ exists \in BOOLEAN
          /\ requested \in HeaderModes
          /\ needed \in {1, 2}
          /\ mode \in HeaderModes
          /\ pc \in Phases
          /\ opens \in 0 .. 2
          /\ dataOffset \in Nat
          /\ offset \in Nat
          /\ index \in Nat
          /\ got \in Seq(Yielded)
          /\ truncated \in BOOLEAN
          /\ warnings \in Seq(Troubles)

\* The packets yielded cover the file from the data offset on without a gap
\* or an overlap, numbered from 0, and none reaches past the bytes on disk,
\* whatever the bytes are and however the file grows (packets()).
Tiles ==
    /\ \A i \in 1 .. Len(got) :
          /\ got[i].index = i - 1
          /\ got[i].packet = At(image, got[i].offset)
          /\ got[i].offset + Total(got[i].packet) <= size
    /\ got # <<>> => got[1].offset = dataOffset
    /\ \A i \in 1 .. Len(got) - 1 :
          got[i + 1].offset = got[i].offset + Total(got[i].packet)

\* By the time packets are read the mode is settled, and the data offset is
\* the one of that mode and no leftover of an earlier open() (_read_headers).
LayoutSettled ==
    Walking => /\ mode \in {"cfe", "none"}
               /\ dataOffset = IF mode = "cfe" THEN FsHdrSize + DsHdrSize ELSE 0

\* Opening the file twice repeats no warning, and a file is reported torn
\* exactly when its reader is marked truncated (_read_headers, packets()).
WarnsOnce ==
    /\ \A i, j \in 1 .. Len(warnings) : warnings[i] = warnings[j] => i = j
    /\ truncated <=> \E i \in 1 .. Len(warnings) : warnings[i] = "torn"

\* Once open() has found out what the file starts with, no later open() of
\* the same reader decides otherwise (header_mode, _read_headers).
ModeSticks == [][mode # "auto" => mode' = mode]_vars

\* The reader comes to an end: it refuses the file, or it closes it.
Terminates == <>(pc = "failed" \/ (pc = "closed" /\ opens > 0))

-----------------------------------------------------------------------------
(* The reader implements RecordedLog when the header mode fits the file.   *)

\* The caller did not ask for a header to be read as packets, and auto finds
\* a whole cFE header where there is one.
InitLegible == /\ Init
               /\ requested = "none" => ~image.hdr
               /\ requested = "auto" /\ image.hdr => size >= FsHdrSize

LegibleSpec == InitLegible /\ [][Next]_vars /\ Fairness

Whole == {i \in 1 .. Len(image.recorded) : image.start[i + 1] <= size}

Torn == \E i \in 1 .. Len(image.recorded) :
           image.start[i] < size /\ size < image.start[i + 1]

Delivered == [i \in 1 .. Len(got) |-> got[i].packet]

Status == CASE pc = "failed" -> "refused"
            [] Walking -> "reading"
            [] pc = "ended" \/ (pc = "closed" /\ opens > 0) -> "ended"
            [] OTHER -> "opening"

Log == INSTANCE RecordedLog
         WITH log       <- image.recorded,
              whole     <- Whole,
              torn      <- Torn,
              delivered <- Delivered,
              status    <- Status,
              cut       <- truncated

\* The messages are delivered as they were recorded, each once and in order;
\* the reader stops only where the next one is not whole, and truncated says
\* whether it stopped inside it (class DsFile).
ReadsTheLog == Log!Spec
=============================================================================
