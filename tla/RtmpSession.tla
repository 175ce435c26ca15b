---------------------------- MODULE RtmpSession ----------------------------
(* SrsRtmpConn and SrsRtmpServer: the sessions of several peers, from the     *)
(* handshake to playing or publishing a stream, and what they do to the       *)
(* sources they share.  The channels keep the order of whole messages (that   *)
(* is what RtmpChannel implements); what the peers send is RtmpPeers, and     *)
(* what the server reads in it RtmpPackets.  A server thread handles one      *)
(* message in a step, with every answer it sends; it takes the source lock in *)
(* steps of their own.                                                        *)
EXTENDS RtmpValues

CONSTANTS Conns,        \* connections
          Script,       \* what each kind of peer sends: a sequence of messages
          Conforming,   \* the kinds the server is made for
          Noise,        \* messages that any peer may put in between
          decode_message, \* what the server reads in each message
          Scripts,      \* the scripts the peers may follow, [Conns -> DOMAIN Script]
          PolitenessOf, \* whether it may wait for answers, or not
          Noisy,        \* connections whose peer puts other messages in between
          MaxNoise,     \* bound: how many of them
          InCap,        \* bound: messages under way to the server
          NULL

(* A message is [type, payload, packet], with NoPacket for what is no packet. *)
Messages == (UNION {{Script[s][i] : i \in DOMAIN Script[s]} : s \in DOMAIN Script}) \cup Noise

(* What an answer is told by: the id and the name of the request.             *)
Requests(m) ==
    IF m.packet.class \in {"ConnectApp", "CreateStream", "FMLEStart"}
    THEN {<<m.packet.tid, m.packet.name>>}
    ELSE IF m.type = "c0c1" THEN {<<0, "handshake">>} ELSE {}

Ids(m) == {q[1] : q \in Requests(m)}

ASSUME RtmpSessionAssumption ==
    /\ NULL \notin Conns
    /\ Scripts \subseteq [Conns -> DOMAIN Script]
    /\ \A s \in DOMAIN Script : Script[s] \in Seq(Messages)

(* A peer begins with the handshake, numbers its requests, and connects with  *)
(* the id 1, which the server answers whatever the id was.                    *)
ASSUME PeersAssumption ==
    /\ \A s \in DOMAIN Script : Script[s] # << >> => 0 \in Ids(Script[s][1])
    /\ \A s \in DOMAIN Script : \A i, j \in DOMAIN Script[s] :
          i # j => Ids(Script[s][i]) \cap Ids(Script[s][j]) = {}
    /\ \A m \in Messages : m.packet.class = "ConnectApp" => m.packet.tid = 1
    /\ \A m \in Noise : Ids(m) = {}

(* What the server takes for a request is one, of that class and with that id *)
(* (DecodedAsSent says more of the codec).                                    *)
ASSUME DecodeAssumption ==
    \A m \in Messages : LET d == decode_message[m] IN
        d.ok /\ d.packet.class \in {"ConnectApp", "CreateStream", "FMLEStart"}
          => m.packet.class = d.packet.class /\ m.packet.tid = d.packet.tid

VARIABLES script, sent, \* the script of the peer, and how much of it is sent
          polite,       \* whether the peer waits for answers
          asked,        \* requests the peer has sent and has no answer to
          open,         \* whether the peer has its side open
          noise,        \* messages put in between
          inq, outq,    \* the channels: messages to, packets from the server
          srv,          \* the thread of the connection
          sources,      \* SrsLiveSourceManager: the publisher of every source
          served        \* history: "yet", "served", "refused" for a busy stream
vars == <<script, sent, polite, asked, open, noise, inq, outq, srv, sources, served>>
peerVars == <<script, sent, polite, asked, open, noise>>

NewThread == [pc |-> "handshake", depth |-> 0, stream |-> ""]

Init ==
    /\ script \in Scripts
    /\ sent = [c \in Conns |-> 0]
    /\ polite \in {p \in [Conns -> BOOLEAN] : \A c \in Conns : p[c] \in PolitenessOf[c]}
    /\ asked = [c \in Conns |-> {}] /\ open = [c \in Conns |-> TRUE]
    /\ noise = 0
    /\ inq = [c \in Conns |-> << >>] /\ outq = [c \in Conns |-> << >>]
    /\ srv = [c \in Conns |-> NewThread]
    /\ sources = << >>
    /\ served = [c \in Conns |-> IF script[c] \in Conforming THEN "yet" ELSE "any"]

-----------------------------------------------------------------------------
(* The peers.                                                                 *)

Done(c) == sent[c] = Len(Script[script[c]])

(* What a peer does after the server closed the connection has no effect.     *)
Connected(c) == open[c] /\ srv[c].pc # "closed"

PeerSend(c) ==
    LET m == Script[script[c]][sent[c] + 1]
    IN  /\ Connected(c) /\ ~ Done(c) /\ Len(inq[c]) < InCap
        /\ polite[c] => asked[c] = {}
        /\ sent' = [sent EXCEPT ![c] = @ + 1]
        /\ inq' = [inq EXCEPT ![c] = Append(@, m)]
        /\ asked' = [asked EXCEPT ![c] = @ \cup Requests(m)]
        /\ UNCHANGED <<script, polite, open, noise, outq, srv, sources, served>>

PeerNoise(c, m) ==
    /\ c \in Noisy /\ Connected(c) /\ noise < MaxNoise /\ Len(inq[c]) < InCap
    /\ srv[c].pc \notin {"handshake", "c2"} /\ ~ Done(c)
    /\ noise' = noise + 1
    /\ inq' = [inq EXCEPT ![c] = Append(@, m)]
    /\ UNCHANGED <<script, sent, polite, asked, open, outq, srv, sources, served>>

S0S1S2 == Packet("handshake", "_result", 0, << >>)

Answered(c) == {q \in asked[c] : \E i \in DOMAIN outq[c] :
                                     outq[c][i].name = "_result" /\ outq[c][i].tid = q[1]}

PeerRecv(c) ==
    /\ open[c] /\ outq[c] # << >>
    /\ asked' = [asked EXCEPT ![c] = @ \ Answered(c)]
    /\ outq' = [outq EXCEPT ![c] = << >>]
    /\ UNCHANGED <<script, sent, polite, open, noise, inq, srv, sources, served>>

PeerClose(c) ==
    /\ Connected(c)
    /\ open' = [open EXCEPT ![c] = FALSE]
    /\ sent' = [sent EXCEPT ![c] = Len(Script[script[c]])]
    /\ asked' = [asked EXCEPT ![c] = {}]
    /\ outq' = [outq EXCEPT ![c] = << >>]
    /\ UNCHANGED <<script, polite, noise, inq, srv, sources, served>>

-----------------------------------------------------------------------------
(* A step of the server thread.                                               *)

At(c, pc) == srv[c].pc = pc

(* The handler of a message m has d, what it is decoded to.                   *)
Receive(c, pc) ==
    /\ At(c, pc)
    /\ inq' = [inq EXCEPT ![c] = Tail(@)]
    /\ UNCHANGED peerVars

Send(c, packets) ==
    outq' = [outq EXCEPT ![c] = IF open[c] THEN @ \o packets ELSE @]

Goto(c, pc) == srv' = [srv EXCEPT ![c].pc = pc]
Stay == UNCHANGED <<outq, srv, sources, served>>

(* cycle(): an error ends the thread.                                         *)
Fail(c) == Goto(c, "closed") /\ UNCHANGED <<outq, sources, served>>

(* Messages the identification skips without looking at them.                 *)
Skipped(m) == m.type \notin {"amf0_command", "amf3_command"}

Result(class, tid, fields) == Packet(class, "_result", tid, fields)
OnStatus(name, code) == Packet("OnStatusCall", name, 0, <<Object(<< <<"code", Str(code)>> >>)>>)
StreamId == Number(1)   \* SrsResponse::stream_id

-----------------------------------------------------------------------------
(* SrsSimpleHandshake::handshake_with_client.                                 *)
HandshakeC0C1(c, m) ==
    /\ Receive(c, "handshake")
    /\ IF m.payload[1].n = 3
       THEN /\ Goto(c, "c2")
            /\ outq' = [outq EXCEPT ![c] = IF open[c] THEN Append(@, S0S1S2) ELSE @]
            /\ UNCHANGED <<sources, served>>
       ELSE Fail(c)

HandshakeC2(c) ==
    /\ Receive(c, "c2")
    /\ Goto(c, "connect") /\ UNCHANGED <<outq, sources, served>>

(* expect_message<T>: other packets are dropped, a bad one ends the session.  *)
Expect(c, d, class, found) ==
    CASE ~ d.ok -> Fail(c)
      [] d.ok /\ d.packet.class # class -> Stay
      [] OTHER -> found

(* connect_app needs a tcUrl.                                                 *)
connect_app(p) == ensure_property_string(p.fields[1].props, "tcUrl") # {}

(* The sizes service_cycle announces, and the answer, which always has the id *)
(* 1.                                                                         *)
set_sizes ==
    <<Packet("SetWindowAckSize", "", 0, <<Number(9)>>),
      Packet("SetPeerBandwidth", "", 0, <<Number(9), Number(2)>>),
      Packet("SetChunkSize", "", 0, <<Number(8)>>)>>

response_connect_app ==
    <<Result("ConnectAppRes", 1,
             <<Object(<< <<"mode", Number(1)>> >>),
               Object(<< <<"code", Str("Connect.Success")>>,
                         <<"data", EcmaArray(<< <<"sig", Str("SRS")>> >>)>> >>)>>)>>

ConnectApp(c, d) ==
    /\ Receive(c, "connect")
    /\ Expect(c, d, "ConnectApp",
              IF ~ connect_app(d.packet) THEN Fail(c)
              ELSE /\ Send(c, set_sizes \o response_connect_app)
                   /\ Goto(c, "identify") /\ UNCHANGED <<sources, served>>)

start_play ==
    <<Packet("UserControl", "", 0, <<Number(0), StreamId>>),
      OnStatus("onStatus", "Play.Reset"), OnStatus("onStatus", "Play.Start"),
      Packet("SampleAccess", "|RtmpSampleAccess", 0, <<Boolean(TRUE), Boolean(TRUE)>>)>>

start_publishing == <<OnStatus("onStatus", "Publish.Start")>>

fmle_unpublish(tid) ==
    <<OnStatus("onFCUnpublish", "Unpublish.Success"), Result("FMLEStartRes", tid, << >>),
      OnStatus("onStatus", "Unpublish.Success")>>

(* SrsLiveSourceManager::fetch_or_create: one lock around the whole of it.    *)
fetch_or_create(stream) ==
    [s \in DOMAIN sources \cup {stream} |-> IF s \in DOMAIN sources THEN sources[s] ELSE NULL]

(* stream_service_cycle once the client is identified: a stream needs a name, *)
(* its source is fetched, and the service of that type begins.                *)
Served(c) == [served EXCEPT ![c] = IF @ = "yet" THEN "served" ELSE @]

Identified(c, type, stream, answers) ==
    IF stream = "" THEN Fail(c)
    ELSE /\ sources' = fetch_or_create(stream)
         /\ srv' = [srv EXCEPT ![c] = [pc |-> CASE type = "play" -> "playing"
                                                [] type = "fmle" -> "fc_publish"
                                                [] type = "flash" -> "can_publish",
                                       depth |-> 0, stream |-> stream]]
         /\ Send(c, IF type = "play" THEN answers \o start_play ELSE answers)
         /\ served' = IF type = "play" THEN Served(c) ELSE served

CreateStream(c, tid, depth) ==
    IF depth <= 0 THEN Fail(c)
    ELSE /\ Send(c, <<Result("CreateStreamRes", tid, <<StreamId>>)>>)
         /\ srv' = [srv EXCEPT ![c].pc = "identify_create_stream", ![c].depth = depth]
         /\ UNCHANGED <<sources, served>>

(* identify_client.                                                           *)
Identify(c, m, d) ==
    LET p == d.packet
    IN  /\ Receive(c, "identify")
        /\ CASE Skipped(m) -> Stay
             [] ~ Skipped(m) /\ ~ d.ok -> Fail(c)
             [] ~ Skipped(m) /\ d.ok /\ p.class = "CreateStream" -> CreateStream(c, p.tid, 3)
             [] ~ Skipped(m) /\ d.ok /\ p.class = "FMLEStart" ->
                   Identified(c, "fmle", p.fields[1].s, <<Result("FMLEStartRes", p.tid, << >>)>>)
             [] ~ Skipped(m) /\ d.ok /\ p.class = "Play" ->
                   Identified(c, "play", p.fields[1].s, << >>)
             [] OTHER -> Stay

(* identify_create_stream_client.                                             *)
IdentifyCreateStream(c, m, d) ==
    LET p == d.packet
    IN  /\ Receive(c, "identify_create_stream")
        /\ CASE Skipped(m) -> Stay
             [] ~ Skipped(m) /\ ~ d.ok -> Fail(c)
             [] ~ Skipped(m) /\ d.ok /\ p.class = "CreateStream" ->
                   CreateStream(c, p.tid, srv[c].depth - 1)
             [] ~ Skipped(m) /\ d.ok /\ p.class = "Publish" ->
                   Identified(c, "flash", p.fields[1].s, << >>)
             [] ~ Skipped(m) /\ d.ok /\ p.class = "Play" ->
                   Identified(c, "play", p.fields[1].s, << >>)
             [] OTHER -> Stay

-----------------------------------------------------------------------------
(* start_fmle_publish.                                                        *)

\* Mutant of StartFcPublish: the answer has the id of a fixed request.
StartFcPublish_FixedId(c, d) ==
    /\ Receive(c, "fc_publish")
    /\ Expect(c, d, "FMLEStart",
              /\ Send(c, <<Result("FMLEStartRes", 2, << >>)>>)
              /\ Goto(c, "create_stream") /\ UNCHANGED <<sources, served>>)

StartFcPublish(c, d) ==
    /\ Receive(c, "fc_publish")
    /\ Expect(c, d, "FMLEStart",
              /\ Send(c, <<Result("FMLEStartRes", d.packet.tid, << >>)>>)
              /\ Goto(c, "create_stream") /\ UNCHANGED <<sources, served>>)

\* Mutant of StartCreateStream: the stream id is not announced.
StartCreateStream_Silent(c, d) ==
    /\ Receive(c, "create_stream")
    /\ Expect(c, d, "CreateStream", Goto(c, "publish") /\ UNCHANGED <<outq, sources, served>>)

StartCreateStream(c, d) ==
    /\ Receive(c, "create_stream")
    /\ Expect(c, d, "CreateStream",
              /\ Send(c, <<Result("CreateStreamRes", d.packet.tid, <<StreamId>>)>>)
              /\ Goto(c, "publish") /\ UNCHANGED <<sources, served>>)

StartPublish(c, d) ==
    /\ Receive(c, "publish")
    /\ Expect(c, d, "Publish",
              /\ Send(c, <<OnStatus("onFCPublish", "Publish.Start")>>)
              /\ Goto(c, "can_publish") /\ UNCHANGED <<sources, served>>)

-----------------------------------------------------------------------------
(* publishing(): acquire_publish asks can_publish and then takes the source   *)
(* with on_publish, each under the source lock.                               *)

Refused(c) ==
    /\ Goto(c, "closed")
    /\ served' = [served EXCEPT ![c] = IF @ = "yet" THEN "refused" ELSE @]
    /\ UNCHANGED <<outq, sources>>

CanPublish(c) ==
    /\ At(c, "can_publish")
    /\ IF sources[srv[c].stream] = NULL
       THEN Goto(c, "on_publish") /\ UNCHANGED <<outq, sources, served>>
       ELSE Refused(c)
    /\ UNCHANGED <<peerVars, inq>>

\* Mutant of OnPublish: what can_publish has said is not asked again.
OnPublish_Unchecked(c) ==
    /\ At(c, "on_publish")
    /\ sources' = [sources EXCEPT ![srv[c].stream] = c]
    /\ Send(c, start_publishing)
    /\ Goto(c, "publishing") /\ served' = Served(c)
    /\ UNCHANGED <<peerVars, inq>>

(* on_publish, and start_publishing at the start of do_publishing.            *)
OnPublish(c) ==
    /\ At(c, "on_publish")
    /\ IF sources[srv[c].stream] = NULL
       THEN /\ sources' = [sources EXCEPT ![srv[c].stream] = c]
            /\ Send(c, start_publishing)
            /\ Goto(c, "publishing") /\ served' = Served(c)
       ELSE Refused(c)
    /\ UNCHANGED <<peerVars, inq>>

(* handle_publish_message and process_publish_message.  Whatever ends the     *)
(* loop, the source is released next; FCUnpublish and its kin are answered    *)
(* before.                                                                    *)
Publishing(c, m, d) ==
    LET p == d.packet
    IN  /\ Receive(c, "publishing")
        /\ CASE m.type \in {"amf0_command", "amf0_data"} /\ ~ d.ok ->
                   Goto(c, "release") /\ UNCHANGED <<outq, sources, served>>
             [] m.type = "amf0_command" /\ d.ok /\ p.class = "FMLEStart" ->
                   /\ Send(c, fmle_unpublish(p.tid))
                   /\ Goto(c, "republish") /\ UNCHANGED <<sources, served>>
             [] OTHER -> Stay

(* release_publish; after FCUnpublish service_cycle identifies the client     *)
(* again.                                                                     *)
Release(c, from, to) ==
    /\ At(c, from)
    /\ sources' = [sources EXCEPT ![srv[c].stream] = NULL]
    /\ Goto(c, to)
    /\ UNCHANGED <<peerVars, inq, outq, served>>

(* do_playing and process_play_control_msg.                                   *)
Playing(c, m, d) ==
    /\ Receive(c, "playing")
    /\ IF m.type = "amf0_command" /\ ~ d.ok THEN Fail(c) ELSE Stay

Blocking == {"handshake", "c2", "connect", "identify", "identify_create_stream", "fc_publish",
             "create_stream", "publish", "publishing", "playing"}

Broken(c) ==
    /\ Goto(c, IF At(c, "publishing") THEN "release" ELSE "closed")
    /\ UNCHANGED <<peerVars, inq, outq, sources, served>>

(* A peer that closed is noticed by the next receive or send.                 *)
PeerGone(c) == ~ open[c] /\ srv[c].pc \in Blocking /\ Broken(c)

(* A receive gives up on a peer that sends nothing more; a player may be      *)
(* silent.                                                                    *)
Silent(c) == Done(c) \/ (polite[c] /\ asked[c] # {} /\ outq[c] = << >>)
RecvTimeout(c) ==
    open[c] /\ inq[c] = << >> /\ Silent(c) /\ srv[c].pc \in Blocking \ {"playing"} /\ Broken(c)

(* recv_message drops a message without payload; the handshake reads bytes.   *)
IgnoreEmpty(c) ==
    \E pc \in Blocking \ {"handshake", "c2"} : Receive(c, pc) /\ Stay

Handle(c, m, d) ==
    \/ HandshakeC0C1(c, m) \/ HandshakeC2(c) \/ ConnectApp(c, d)
    \/ Identify(c, m, d) \/ IdentifyCreateStream(c, m, d)
    \/ StartFcPublish(c, d) \/ StartCreateStream(c, d) \/ StartPublish(c, d)
    \/ Publishing(c, m, d) \/ Playing(c, m, d)

Serve(c) ==
    \/ /\ inq[c] # << >>
       /\ LET m == Head(inq[c])
          IN  IF m.payload = << >> THEN IgnoreEmpty(c) ELSE Handle(c, m, decode_message[m])
    \/ CanPublish(c) \/ OnPublish(c)
    \/ Release(c, "release", "closed") \/ Release(c, "republish", "identify")

Next ==
    \E c \in Conns :
        \/ PeerSend(c) \/ PeerRecv(c) \/ PeerClose(c) \/ \E m \in Noise : PeerNoise(c, m)
        \/ Serve(c) \/ PeerGone(c) \/ RecvTimeout(c)

Spec == Init /\ [][Next]_vars

(* The threads run, and peers go on with what they mean to send.  A script is *)
(* finite, so it is enough that one of them goes on.                          *)
FairSpec == Spec /\ \A c \in Conns : WF_vars(Serve(c) \/ PeerSend(c) \/ PeerRecv(c))

-----------------------------------------------------------------------------
(* Every answer under way belongs to a request of that peer that has no       *)
(* answer yet, and no two answers to the same.                                *)
AnsweredOnce ==
    \A c \in Conns :
        LET answers == {i \in DOMAIN outq[c] : outq[c][i].name = "_result"}
            Id(i)   == outq[c][i].tid
        IN  /\ \A i \in answers : \E q \in asked[c] : q[1] = Id(i)
            /\ \A i, j \in answers : Id(i) = Id(j) => i = j

(* Exactly the connection that publishes holds a source, from on_publish to   *)
(* release_publish: two peers that both found the stream free, peers that     *)
(* leave, republish or send nonsense never share one or leave one taken; and  *)
(* only the holder is told to start.                                          *)
HolderPublishes ==
    /\ \A c \in Conns :
          srv[c].pc \in {"publishing", "release", "republish"} <=>
              \E s \in DOMAIN sources : sources[s] = c
    /\ \A c \in Conns : srv[c].pc \in {"publishing", "release", "republish"} =>
          sources[srv[c].stream] = c

(* A peer that keeps to a script of the encoders and players the server is    *)
(* made for, whether it waits for answers or not and whatever harmless        *)
(* messages it puts in between, gets to publish or play, or is refused        *)
(* because the stream is busy, or leaves.                                     *)
EventuallyServed == \A c \in Conns : (served[c] = "yet") ~> (served[c] # "yet" \/ ~ open[c])
=============================================================================
