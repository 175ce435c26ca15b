----------------------------- MODULE RtmpPeers -----------------------------
(* The peers of an RTMP server: the messages an encoder, a Flash publisher or *)
(* a player sends, in order, and peers that the server has to turn away.  A   *)
(* script names packets, and what is no packet of a conforming peer as it is  *)
(* sent.                                                                      *)
EXTENDS RtmpPackets

Raw(type, payload) == [type |-> type, payload |-> payload, packet |-> NoPacket]

Hello(version) == <<Raw("c0c1", <<Int8(version)>>), Raw("c2", <<Int8(0)>>)>>

Connect == <<Packet("ConnectApp", "connect", 1,
               <<Object(<< <<"app", Str("live")>>, <<"tcUrl", Str("url")>> >>), Object(<< >>)>>)>>
ConnectNoUrl == <<Packet("ConnectApp", "connect", 1, <<Object(<< <<"tcUrl", Number(1)>> >>)>>)>>
Create(tid) == <<Packet("CreateStream", "createStream", tid, << >>)>>
Fmle(name, tid, stream) == <<Packet("FMLEStart", name, tid, <<Str(stream)>>)>>
Publish(stream) == <<Packet("Publish", "publish", 5, <<Str(stream), Str("live")>>)>>
(* A type that is missing, or empty, is read as "live".                       *)
PublishUntyped(stream, type) ==
    <<[Raw("amf0_command", WriteAll(<<Str("publish"), Number(5), Null, Str(stream)>> \o type))
          EXCEPT !.packet = Publish(stream)[1]]>>
Play(stream, start, duration, reset) ==
    <<Packet("Play", "play", 0, <<Str(stream), Number(start), Number(duration), Boolean(reset)>>)>>
(* What a player may ask for while it plays is ignored.                       *)
Replays == Play("s", 5, -1, TRUE) \o Play("s", 5, 7, TRUE) \o Play("s", 5, -1, FALSE)
             \o Play("s", 5, 7, FALSE) \o Play("s", -2, 7, FALSE)
Meta == <<Packet("OnMetaData", "onMetaData", 0, <<Object(<< <<"width", Number(1)>> >>)>>)>>

Session(commands) == Hello(3) \o Connect \o commands

FmleStart == Fmle("releaseStream", 2, "s") \o Fmle("FCPublish", 3, "s") \o Create(4) \o Publish("s")
FmleAgain == Meta \o Fmle("FCUnpublish", 6, "s") \o Fmle("releaseStream", 7, "s")

Commands ==
    [encoder        |-> Session(FmleStart),
     republisher    |-> Session(FmleStart \o FmleAgain),
     flash          |-> Session(Create(2) \o Publish("s")),
     flash_no_type  |-> Session(Create(2) \o PublishUntyped("s", << >>)),
     flash_any_type |-> Session(Create(2) \o PublishUntyped("s", <<Str("")>>)),
     player         |-> Session(Create(2) \o Play("s", -2, -1, TRUE) \o Replays),
     three_creates  |-> Session(Create(2) \o Create(3) \o Create(4) \o Play("s", -2, -1, FALSE)),
     play_at_once   |-> Session(Play("s", -2, 7, TRUE)),
     \* Peers that the server turns away, or that stall.
     silent         |-> << >>,
     bad_version    |-> Hello(6),
     no_url         |-> Hello(3) \o ConnectNoUrl,
     four_creates   |-> Session(Create(2) \o Create(3) \o Create(4) \o Create(5)),
     no_name        |-> Session(Play("", -2, -1, TRUE)),
     long_name      |-> Session(Play("a_name_too_long_for_it", -2, -1, TRUE)),
     fc_publish     |-> Session(Fmle("FCPublish", 3, "s") \o Create(4) \o Publish("s")),
     bad_data       |-> Session(FmleStart \o <<Raw("amf0_data", <<Int8(1)>>)>>),
     bad_command    |-> Session(Create(2) \o Play("s", -2, -1, TRUE) \o <<Raw("amf0_command", <<Int8(1)>>)>>),
     unasked_result |-> Session(<<Raw("amf0_command", encode_packet(Packet("FMLEStartRes", "_result", 9, << >>)))>>)]

SentAs(item) == IF "class" \in DOMAIN item THEN to_msg(item) ELSE item
PeerScript == [s \in DOMAIN Commands |-> [i \in DOMAIN Commands[s] |-> SentAs(Commands[s][i])]]

ConformingPeers ==
    {"encoder", "republisher", "flash", "flash_no_type", "flash_any_type", "player", "three_creates",
     "play_at_once"}

Harmless == {SentAs(item) : item \in
           {Raw("amf0_command", <<Marker("string")>> \o write_utf8("_checkbw")),
            Raw("amf3_command", <<Int8(0)>> \o write_any(Str("pause"))),
            Raw("amf0_data", <<Int32(0)>>),
            Raw("amf0_command", << >>),
            [Raw("amf0_data", write_any(Str("@setDataFrame")) \o write_any(Str("")))
                EXCEPT !.packet = Packet("OnMetaData", "@setDataFrame", 0, <<Object(<< >>)>>)],
            Raw("amf0_data", write_any(Str("@setDataFrame")) \o write_any(Str("onMetaData"))
                              \o write_any(EcmaArray(<< <<"k", Null>>, <<"k", Undefined>> >>))),
            Raw("video", <<Int8(0)>>),
            Packet("UserControl", "", 0, <<Number(3), Number(1), Number(100)>>),
            Packet("UserControl", "", 0, <<Number(26), Number(1)>>),
            Packet("Acknowledgement", "", 0, <<Number(5)>>),
            Packet("SetChunkSize", "", 0, <<Number(8)>>),
            Packet("SetWindowAckSize", "", 0, <<Number(8)>>)}}

(* SrsProtocol::decode_message at a server, which has sent no requests.       *)
Decoding ==
    [m \in UNION ({Range(PeerScript[s]) : s \in DOMAIN PeerScript} \cup {Harmless}) |->
        do_decode_message(m, {})]
=============================================================================
