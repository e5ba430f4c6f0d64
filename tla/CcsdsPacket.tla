---------------------------- MODULE CcsdsPacket ----------------------------
(***************************************************************************)
(* What dsdecode reads from the headers of one recorded Software Bus       *)
(* message (dsfile.py, _make_packet), and the geometry of the build that   *)
(* recorded it (dsfile.py, Geometry).                                      *)
(*                                                                         *)
(* A packet is the record of the header bits the code tells apart; its     *)
(* payload is left out.  lenField is the sixteen-bit length of the primary *)
(* header, byte7 the eighth byte of the packet and fcnByte the first byte  *)
(* after the message header: the subsystem and the function code, when the *)
(* packet is long enough to hold them.                                     *)
(***************************************************************************)
EXTENDS Integers

CONSTANTS
    MsgHdrSize,     \* sizeof CFE_MSG_Message_t
    TlmHdrSize,     \* sizeof CFE_MSG_TelemetryHeader_t
    CmdHdrSize,     \* sizeof CFE_MSG_CommandHeader_t
    CcsdsFlag       \* --ccsds-v1, --ccsds-v2, or neither

CCSDS_PRIMARY_SIZE == 6
CCSDS_EXTENDED_SIZE == 4

ASSUME GeometryAssumption ==
    /\ MsgHdrSize \in Nat /\ MsgHdrSize >= CCSDS_PRIMARY_SIZE
    /\ TlmHdrSize \in Nat
    /\ CmdHdrSize \in Nat
    /\ CcsdsFlag \in {"v1", "v2", "unset"}

\* Without a flag, a message header with room for the extended header says
\* that the build uses CCSDS version 2.
CcsdsV2 ==
    IF CcsdsFlag = "unset"
      THEN MsgHdrSize >= CCSDS_PRIMARY_SIZE + CCSDS_EXTENDED_SIZE
      ELSE CcsdsFlag = "v2"

Byte == 0 .. 255
MAX_LENGTH_FIELD == 65535
Uint16 == 0 .. MAX_LENGTH_FIELD
Apid == 0 .. 2047

Packet == [version  : 0 .. 7,
           isCmd    : BOOLEAN,
           secHdr   : BOOLEAN,
           apid     : Apid,
           lenField : Uint16,
           byte7    : Byte,
           fcnByte  : Byte]

\* None of Python's optional values: a packet without a function code, the
\* default decoder of an entry, an absent entry.
None == -1

\* The primary header counts the bytes after it, less one.
Total(p) == p.lenField + 7

StreamId(p) == p.version * 8192
               + (IF p.isCmd THEN 4096 ELSE 0)
               + (IF p.secHdr THEN 2048 ELSE 0)
               + p.apid

MsgIdV1(p) == StreamId(p)

\* Seven bits of APID, the command bit, and the subsystem when the packet
\* reaches the byte that holds it.
MsgIdV2(p) == (p.apid % 128)
              + (IF p.isCmd THEN 128 ELSE 0)
              + (IF Total(p) > 7 THEN p.byte7 * 256 ELSE 0)

MsgId(p) == IF CcsdsV2 THEN MsgIdV2(p) ELSE MsgIdV1(p)

\* A bug: the function code is taken whenever the packet is a command.
FcnCodeNoLength(p) == IF p.isCmd THEN p.fcnByte % 128 ELSE None

FcnCode(p) ==
    IF p.secHdr /\ p.isCmd /\ Total(p) > MsgHdrSize
      THEN p.fcnByte % 128
      ELSE None

PayloadOffset(p) == CASE ~p.secHdr           -> MsgHdrSize
                      [] p.secHdr /\ p.isCmd  -> CmdHdrSize
                      [] p.secHdr /\ ~p.isCmd -> TlmHdrSize
=============================================================================
