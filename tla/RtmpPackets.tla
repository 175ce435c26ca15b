---------------------------- MODULE RtmpPackets ----------------------------
(* The packets of the RTMP stack: what each class writes, the size it         *)
(* reserves, and what SrsProtocol::do_decode_message makes of a message.      *)
(* A message is its type and its payload.                                     *)
EXTENDS Amf0

PlainPacket == Packet("plain", "", 0, << >>)  \* an SrsPacket

FmleCommands == {"releaseStream", "FCPublish", "FCUnpublish"}

-----------------------------------------------------------------------------
(* Encoding.                                                                  *)

ControlType ==
    [UserControl |-> "user_control", SetWindowAckSize |-> "window_ack_size",
     Acknowledgement |-> "ack", SetChunkSize |-> "chunk_size", SetPeerBandwidth |-> "bandwidth"]

(* get_message_type.                                                          *)
get_message_type(p) ==
    CASE p.class \in DOMAIN ControlType -> ControlType[p.class]
      [] p.class \in {"OnMetaData", "SampleAccess"} -> "amf0_data"
      [] OTHER -> "amf0_command"

(* SrsUserControlPacket: one byte of data for FmsEvent0 (26), four otherwise, *)
(* four more for SetBufferLength (3).                                         *)
UserControlFields(f) ==
    <<Int16(f[1].n), IF f[1].n = 26 THEN Int8(f[2].n) ELSE Int32(f[2].n)>>
        \o (IF f[1].n = 3 THEN <<Int32(f[3].n)>> ELSE << >>)

UserControlSize(f) == 2 + (IF f[1].n = 26 THEN 1 ELSE 4) + (IF f[1].n = 3 THEN 4 ELSE 0)

ControlFields(p) ==
    CASE p.class = "UserControl" -> UserControlFields(p.fields)
      [] p.class = "SetPeerBandwidth" -> <<Int32(p.fields[1].n), Int8(p.fields[2].n)>>
      [] OTHER -> <<Int32(p.fields[1].n)>>

ControlSize(p) ==
    CASE p.class = "UserControl" -> UserControlSize(p.fields)
      [] p.class = "SetPeerBandwidth" -> 5
      [] OTHER -> 4

Call(p) == <<Str(p.name), Number(p.tid)>>

(* SrsPlayPacket writes start, duration and reset only when a later one is    *)
(* not its default.                                                           *)
PlayDefaults(f) == [start |-> f[2].n = -2, duration |-> f[3].n = -1, reset |-> f[4].n = 1]

\* Mutant of PlayFields: duration is written only for its own sake.
PlayFields_Gap(f) ==
    LET d == PlayDefaults(f)
    IN  <<f[1]>> \o (IF d.start /\ d.duration /\ d.reset THEN << >> ELSE <<f[2]>>)
                 \o (IF d.duration THEN << >> ELSE <<f[3]>>)
                 \o (IF d.reset THEN << >> ELSE <<f[4]>>)

PlayFields(f) ==
    LET d == PlayDefaults(f)
    IN  <<f[1]>> \o (IF d.start /\ d.duration /\ d.reset THEN << >> ELSE <<f[2]>>)
                 \o (IF d.duration /\ d.reset THEN << >> ELSE <<f[3]>>)
                 \o (IF d.reset THEN << >> ELSE <<f[4]>>)

PlaySize(f) ==
    LET d == PlayDefaults(f)
    IN  total_size(f[1]) + (IF d.start /\ d.duration /\ d.reset THEN 0 ELSE 9)
          + (IF d.duration /\ d.reset THEN 0 ELSE 9) + (IF d.reset THEN 0 ELSE 2)

(* encode_packet of each class: what it writes, in order.                     *)
ConnectAppValues(p)      == Call(p) \o p.fields
ConnectAppResValues(p)   == Call(p) \o p.fields
CreateStreamValues(p)    == Call(p) \o <<Null>>
CreateStreamResValues(p) == Call(p) \o <<Null, p.fields[1]>>
FMLEStartValues(p)       == Call(p) \o <<Null, p.fields[1]>>
FMLEStartResValues(p)    == Call(p) \o <<Null, Undefined>>
PublishValues(p)         == Call(p) \o <<Null, p.fields[1], p.fields[2]>>
PlayValues(p)            == Call(p) \o <<Null>> \o PlayFields(p.fields)
OnStatusCallValues(p)    == Call(p) \o <<Null, p.fields[1]>>
SampleAccessValues(p)    == <<Str(p.name), p.fields[1], p.fields[2]>>
OnMetaDataValues(p)      == <<Str(p.name), p.fields[1]>>

AmfValues(p) ==
    CASE p.class = "ConnectApp"      -> ConnectAppValues(p)
      [] p.class = "ConnectAppRes"   -> ConnectAppResValues(p)
      [] p.class = "CreateStream"    -> CreateStreamValues(p)
      [] p.class = "CreateStreamRes" -> CreateStreamResValues(p)
      [] p.class = "FMLEStart"       -> FMLEStartValues(p)
      [] p.class = "FMLEStartRes"    -> FMLEStartResValues(p)
      [] p.class = "Publish"         -> PublishValues(p)
      [] p.class = "Play"            -> PlayValues(p)
      [] p.class = "OnStatusCall"    -> OnStatusCallValues(p)
      [] p.class = "SampleAccess"    -> SampleAccessValues(p)
      [] p.class = "OnMetaData"      -> OnMetaDataValues(p)

WriteAll(values) == FlattenSeq([i \in DOMAIN values |-> write_any(values[i])])

encode_packet(p) ==
    IF p.class \in DOMAIN ControlType THEN ControlFields(p) ELSE WriteAll(AmfValues(p))

SizeOf(values) == FoldSeq(LAMBDA v, sum : total_size(v) + sum, 0, values)

get_size(p) ==
    CASE p.class \in DOMAIN ControlType -> ControlSize(p)
      [] p.class = "Play" -> SizeOf(Call(p) \o <<Null>>) + PlaySize(p.fields)
      [] OTHER -> SizeOf(AmfValues(p))

(* SrsPacket::to_msg: an empty packet, or one that needs more than it         *)
(* reserved, is no message.                                                   *)
to_msg(p) == [type |-> get_message_type(p), payload |-> encode_packet(p), packet |-> p]

-----------------------------------------------------------------------------
(* Decoding: fields are read one after another.                               *)

Begin(b) == [ok |-> TRUE, rest |-> b, out |-> << >>]

Next1(st, r) == IF r.ok THEN [ok |-> TRUE, rest |-> r.rest, out |-> Append(st.out, r.v)]
                ELSE [st EXCEPT !.ok = FALSE]

Take(st, type) ==
    IF ~ st.ok THEN st
    ELSE Next1(st, IF type = "object" THEN read_object(st.rest) ELSE read_scalar(st.rest, type))

(* A field that may be missing at the end.                                    *)
Maybe(st, type) == IF st.rest = << >> THEN st ELSE Take(st, type)
MaybeAny(st) == IF st.rest = << >> \/ ~ st.ok THEN st ELSE Next1(st, read_any(st.rest))

TakeCall(b) == Take(Take(Begin(b), "string"), "number")
TakeNullCall(b) == Take(TakeCall(b), "null")

NotDecoded == [ok |-> FALSE, packet |-> NoPacket]

(* A command with a name of `names`; its fields are made of the values read.  *)
Decoded(st, class, names, Fields(_)) ==
    IF st.ok /\ st.out[1].s \in names
    THEN [ok |-> TRUE, packet |-> Packet(class, st.out[1].s, st.out[2].n, Fields(st.out))]
    ELSE NotDecoded

From(out, n) == SubSeq(out, n, Len(out))

(* Arguments that are no object are dropped.                                  *)
decode_ConnectApp(b) ==
    Decoded(MaybeAny(Take(TakeCall(b), "object")), "ConnectApp", {"connect"},
            LAMBDA out : SelectSeq(From(out, 3), LAMBDA v : v.type = "object"))

(* Properties that are no object are dropped, as if they were missing.        *)
decode_ConnectAppRes(b) ==
    Decoded(Take(MaybeAny(TakeCall(b)), "object"), "ConnectAppRes", {"_result"},
            LAMBDA out : <<IF Len(out) = 4 /\ out[3].type = "object" THEN out[3] ELSE Object(<< >>),
                           Last(out)>>)

decode_CreateStream(b) ==
    Decoded(TakeNullCall(b), "CreateStream", {"createStream"}, LAMBDA out : << >>)

decode_CreateStreamRes(b) ==
    Decoded(Take(TakeNullCall(b), "number"), "CreateStreamRes", {"_result"},
            LAMBDA out : From(out, 4))

decode_FMLEStart(b) ==
    Decoded(Take(TakeNullCall(b), "string"), "FMLEStart", FmleCommands, LAMBDA out : From(out, 4))

decode_FMLEStartRes(b) ==
    Decoded(Take(TakeNullCall(b), "undefined"), "FMLEStartRes", {"_result"}, LAMBDA out : << >>)

(* The type stays "live" if it is missing or empty.                           *)
decode_Publish(b) ==
    Decoded(Maybe(Take(TakeNullCall(b), "string"), "string"), "Publish", {"publish"},
            LAMBDA out : <<out[4], IF Len(out) = 4 THEN Str("live")
                                   ELSE KeptIfEmpty(out[5], Str("live"))>>)

(* reset may be a boolean or a number.                                        *)
CheckReset(st) ==
    [st EXCEPT !.ok = @ /\ (Len(st.out) = 7 => st.out[7].type \in {"boolean", "number"})]

PlayArguments(out) ==
    <<out[4], IF Len(out) >= 5 THEN out[5] ELSE Number(-2), IF Len(out) >= 6 THEN out[6] ELSE Number(-1),
      IF Len(out) = 7 THEN Boolean(out[7].n # 0) ELSE Boolean(TRUE)>>

decode_Play(b) ==
    LET times == Maybe(Maybe(Take(TakeNullCall(b), "string"), "number"), "number")
    IN  Decoded(CheckReset(MaybeAny(times)), "Play", {"play"}, PlayArguments)

(* @setDataFrame is skipped, but stays the name if the next is empty; an ECMA *)
(* array becomes an object, another value an empty one.                       *)
SkipSetDataFrame(st) ==
    LET next == Take(Begin(st.rest), "string")
    IN  IF st.ok /\ st.out[1].s = "@setDataFrame"
        THEN [next EXCEPT !.out = IF next.ok THEN <<KeptIfEmpty(@[1], st.out[1])>> ELSE @]
        ELSE st

MetaData(out) ==
    CASE Len(out) = 2 /\ out[2].type = "object" -> Object(out[2].props)
      [] Len(out) = 2 /\ out[2].type = "ecma_array" -> Object(copy(out[2].props, << >>))
      [] OTHER -> Object(<< >>)

NamedMetaData(st) ==
    IF st.ok THEN [ok |-> TRUE, packet |-> Packet("OnMetaData", st.out[1].s, 0, <<MetaData(st.out)>>)]
    ELSE NotDecoded

decode_OnMetaData(b) ==
    NamedMetaData(MaybeAny(SkipSetDataFrame(Take(Begin(b), "string"))))

decode_UserControl(b) ==
    LET long == Len(b) >= 2 /\ b[1].n = 3
    IN  [ok |-> Len(b) >= 2 /\ (long => Len(b) >= 3),
         packet |-> Packet("UserControl", "", 0,
                           [i \in 1 .. (IF long THEN 3 ELSE 2) |->
                               Number(IF i <= Len(b) THEN b[i].n ELSE 0)])]

(* A packet of four bytes.                                                    *)
decode_Number(b, class) ==
    [ok |-> BytesOf(b) >= 4,
     packet |-> Packet(class, "", 0, IF b = << >> THEN << >> ELSE <<Number(b[1].n)>>)]

decode_SetWindowAckSize(b) == decode_Number(b, "SetWindowAckSize")
decode_Acknowledgement(b)  == decode_Number(b, "Acknowledgement")
decode_SetChunkSize(b)     == decode_Number(b, "SetChunkSize")

(* A _result or _error is decoded as the answer to the request of its id.     *)
Requested(call, requests) == {r[2] : r \in {q \in requests : call.ok /\ q[1] = call.out[2].n}}

decode_response(b, requests) ==
    LET name == Requested(TakeCall(b), requests)
    IN  CASE name = {"connect"} -> decode_ConnectAppRes(b)
          [] name = {"createStream"} -> decode_CreateStreamRes(b)
          [] name # {} /\ name \subseteq FmleCommands -> decode_FMLEStartRes(b)
          [] OTHER -> NotDecoded

(* The name that was read says what the command is; a bad one is "".          *)
decode_named(read, b, requests) ==
    LET name == read.v.s
    IN  CASE ~ read.ok -> NotDecoded
          [] name \in {"_result", "_error"} -> decode_response(b, requests)
          [] name = "connect" -> decode_ConnectApp(b)
          [] name = "createStream" -> decode_CreateStream(b)
          [] name = "play" -> decode_Play(b)
          [] name \in FmleCommands -> decode_FMLEStart(b)
          [] name = "publish" -> decode_Publish(b)
          [] name \in {"@setDataFrame", "onMetaData"} -> decode_OnMetaData(b)
          [] OTHER -> [ok |-> TRUE, packet |-> PlainPacket]

decode_command(b, requests) == decode_named(read_scalar(b, "string"), b, requests)

(* do_decode_message.  FFmpeg's four byte timecode is dropped; an AMF3        *)
(* command has one byte in front.                                             *)
do_decode_message(m, requests) ==
    LET b == m.payload
        amf == m.type \in {"amf0_command", "amf3_command", "amf0_data", "amf3_data"}
    IN  CASE amf /\ BytesOf(b) = 4 /\ b[1].kind = "int32" -> [ok |-> TRUE, packet |-> NoPacket]
          [] amf /\ ~ (BytesOf(b) = 4 /\ b[1].kind = "int32") ->
                decode_command(IF m.type = "amf3_command" THEN Tail(b) ELSE b, requests)
          [] m.type = "user_control" -> decode_UserControl(b)
          [] m.type = "window_ack_size" -> decode_SetWindowAckSize(b)
          [] m.type = "ack" -> decode_Acknowledgement(b)
          [] m.type = "chunk_size" -> decode_SetChunkSize(b)
          [] OTHER -> [ok |-> TRUE, packet |-> NoPacket]
=============================================================================
