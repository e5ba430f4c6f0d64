----------------------------- MODULE MsgHeader -----------------------------
(***************************************************************************)
(* Finding the packet header in a message type (decode.py, is_header and   *)
(* the part of walk_top that leaves the header out of the columns).        *)
(***************************************************************************)
EXTENDS TypeRegistry

HEADER_TYPES == {<<"CFE_MSG_Message_t">>, <<"CFE_MSG_TelemetryHeader_t">>,
                 <<"CFE_MSG_CommandHeader_t">>, <<"CFE_SB_TlmHdr_t">>, <<"CFE_SB_CmdHdr_t">>,
                 <<"CFE_SB_Msg_t">>, <<"CCSDS_SpacePacket_t">>, <<"CCSDS_PrimaryHeader_t">>,
                 <<"CCSDS_TelemetryPacket_t">>, <<"CCSDS_CommandPacket_t">>}

\* Under any name of its typedef chain; declared are the project's own headers.
IsHeader(types, key, declared) ==
    TypedefChain(types, key) \cap (HEADER_TYPES \cup declared) # {}

LeadsWithHeader(types, member, declared) ==
    IsHeader(types, member.type, declared) /\ member.offset = 0

\* The whole message when that is a header itself, or the last member that is
\* one at its start; 0 for a bare payload.
HeaderSize(types, key, declared) ==
    LET node  == Resolve(types, key)
        heads == SelectSeq(node.members, LAMBDA m : LeadsWithHeader(types, m, declared))
    IN  IF IsHeader(types, key, declared) THEN node.size
        ELSE IF heads = <<>> THEN 0 ELSE SizeOr0(types, heads[Len(heads)].type)
=============================================================================
