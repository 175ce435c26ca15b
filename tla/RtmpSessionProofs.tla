------------------------- MODULE RtmpSessionProofs -------------------------
(***************************************************************************)
(* Proofs about the sessions of RTMP peers, for any number of connections,  *)
(* any scripts the peers may follow and whatever else they put in between.  *)
(***************************************************************************)
EXTENDS RtmpSession, SequenceTheorems, TLAPS

Holding == {"publishing", "release", "republish"}
Claiming == {"fc_publish", "create_stream", "publish", "can_publish", "on_publish"}
Pcs == {"handshake", "c2", "connect", "identify", "identify_create_stream", "playing", "closed"}
         \cup Claiming \cup Holding

\* Streams the peers name, ids of their requests, and packets the server sends.
Streams == {""} \cup {decode_message[m].packet.fields[1].s : m \in Messages}
AllIds == UNION {Ids(m) : m \in Messages}
Elements(ps) == {ps[i] : i \in DOMAIN ps}
Fixed == {S0S1S2} \cup Elements(set_sizes) \cup Elements(response_connect_app) \cup Elements(start_play)
           \cup Elements(start_publishing) \cup {OnStatus("onFCPublish", "Publish.Start")}
Results(t) == {Result("CreateStreamRes", t, <<StreamId>>), Result("FMLEStartRes", t, << >>)}
                \cup Elements(fmle_unpublish(t))
Replies == Fixed \cup UNION {Results(t) : t \in AllIds}

ThreadType == [pc : Pcs, depth : Int, stream : Streams]

TypeOK ==
    /\ script \in [Conns -> DOMAIN Script]
    /\ sent \in [Conns -> Nat] /\ \A c \in Conns : sent[c] <= Len(Script[script[c]])
    /\ polite \in [Conns -> BOOLEAN] /\ open \in [Conns -> BOOLEAN]
    /\ asked \in [Conns -> SUBSET UNION {Requests(m) : m \in Messages}]
    /\ noise \in Nat
    /\ inq \in [Conns -> Seq(Messages)]
    /\ outq \in [Conns -> Seq(Replies)]
    /\ srv \in [Conns -> ThreadType]
    /\ sources \in [DOMAIN sources -> Conns \cup {NULL}]
    /\ served \in [Conns -> {"yet", "served", "refused", "any"}]

\* A connection that goes for a stream has fetched its source; the one that
\* publishes holds it, and holds no other.
HolderInv ==
    /\ \A c \in Conns : srv[c].pc \in Claiming \cup Holding => srv[c].stream \in DOMAIN sources
    /\ \A c \in Conns : srv[c].pc \in Holding => sources[srv[c].stream] = c
    /\ \A s \in DOMAIN sources : \A c \in Conns :
          sources[s] = c => srv[c].pc \in Holding /\ srv[c].stream = s

IsAnswer(p) == p.name = "_result"
Answers(ps) == {i \in DOMAIN ps : IsAnswer(ps[i])}
AnswerIds(ps) == {ps[i].tid : i \in Answers(ps)}
Distinct(ps) == \A i, j \in Answers(ps) : ps[i].tid = ps[j].tid => i = j
AskedIds(c) == {q[1] : q \in asked[c]}

\* Answers under way and requests under way are about different requests, all of
\* which the peer waits for, and what it is going to ask is about others.
AnswerInv(c) ==
    /\ ~open[c] => outq[c] = << >>
    /\ open[c] =>
         /\ AnswerIds(outq[c]) \subseteq AskedIds(c)
         /\ Distinct(outq[c])
         /\ \A i \in DOMAIN inq[c] : Ids(inq[c][i]) \subseteq AskedIds(c) \ AnswerIds(outq[c])
         /\ \A i, j \in DOMAIN inq[c] : i # j => Ids(inq[c][i]) \cap Ids(inq[c][j]) = {}
         /\ \A k \in DOMAIN Script[script[c]] :
               k > sent[c] => Ids(Script[script[c]][k]) \cap AskedIds(c) = {}
         /\ srv[c].pc = "handshake" =>
               IF inq[c] = << >> THEN sent[c] = 0
               ELSE Script[script[c]] # << >> /\ Head(inq[c]) = Script[script[c]][1]

IInv == TypeOK /\ HolderInv /\ \A c \in Conns : AnswerInv(c)

\* What a peer sends is a message.
LEMMA SentMessage ==
    ASSUME NEW s \in DOMAIN Script, NEW i \in DOMAIN Script[s]
    PROVE  Script[s][i] \in Messages
  <1>1. Script[s][i] \in {Script[s][j] : j \in DOMAIN Script[s]}
    OBVIOUS
  <1>2. {Script[s][j] : j \in DOMAIN Script[s]}
          \in {{Script[r][j] : j \in DOMAIN Script[r]} : r \in DOMAIN Script}
    OBVIOUS
  <1> QED
    BY ONLY <1>1, <1>2, Zenon DEF Messages

\* The server starts with no connection beyond the handshake, and no source.
LEMMA InitInv == Init => IInv
  <1> SUFFICES ASSUME Init PROVE IInv
    OBVIOUS
  <1>1. /\ script \in Scripts /\ polite \in [Conns -> BOOLEAN]
        /\ sent = [c \in Conns |-> 0] /\ asked = [c \in Conns |-> {}]
        /\ open = [c \in Conns |-> TRUE] /\ noise = 0
        /\ inq = [c \in Conns |-> << >>] /\ outq = [c \in Conns |-> << >>]
        /\ srv = [c \in Conns |-> NewThread] /\ sources = << >>
        /\ served = [c \in Conns |-> IF script[c] \in Conforming THEN "yet" ELSE "any"]
    BY DEF Init
  <1>2. script \in [Conns -> DOMAIN Script]
    BY <1>1, RtmpSessionAssumption
  <1>3. NewThread \in ThreadType /\ NewThread.pc = "handshake"
    BY DEF NewThread, ThreadType, Pcs, Streams
  <1>4. DOMAIN sources = {} /\ sources \in [DOMAIN sources -> Conns \cup {NULL}]
    BY <1>1
  <1>5. \A c \in Conns : script[c] \in DOMAIN Script /\ Len(Script[script[c]]) \in Nat /\ sent[c] = 0
    BY <1>1, <1>2, RtmpSessionAssumption
  <1>6. TypeOK
    BY ONLY <1>1, <1>2, <1>3, <1>4, <1>5 DEF TypeOK
  <1>7. HolderInv
    BY <1>1, <1>3, <1>4 DEF HolderInv, Claiming, Holding
  <1>8. \A c \in Conns : AnswerInv(c)
    BY <1>1 DEF AnswerInv, AskedIds, AnswerIds, Answers, Distinct
  <1> QED
    BY <1>6, <1>7, <1>8 DEF IInv

-----------------------------------------------------------------------------
(* Answers in sequences of packets.                                           *)

\* The answers of two batches are the answers of both, and each answers another
\* request when the batches do.
LEMMA AnswersConcat ==
    ASSUME NEW T, NEW s \in Seq(T), NEW t \in Seq(T)
    PROVE  /\ AnswerIds(s \o t) = AnswerIds(s) \cup AnswerIds(t)
           /\ Distinct(s) /\ Distinct(t) /\ AnswerIds(s) \cap AnswerIds(t) = {} => Distinct(s \o t)
  <1> DEFINE u == s \o t
  <1>1. /\ Len(u) = Len(s) + Len(t) /\ Len(s) \in Nat /\ Len(t) \in Nat
        /\ DOMAIN s = 1..Len(s) /\ DOMAIN t = 1..Len(t) /\ DOMAIN u = 1..Len(u)
        /\ \A i \in 1..Len(s) : u[i] = s[i]
        /\ \A i \in 1..Len(t) : u[Len(s) + i] = t[i]
    OBVIOUS
  <1> HIDE DEF u
  <1>2. \A i \in DOMAIN u : i \in DOMAIN s \/ (i - Len(s) \in DOMAIN t /\ u[i] = t[i - Len(s)])
    BY ONLY <1>1
  <1>3. \A i \in Answers(u) : i \in Answers(s) \/ (i - Len(s) \in Answers(t) /\ u[i] = t[i - Len(s)])
    BY ONLY <1>1, <1>2 DEF Answers
  <1>4. \A i \in Answers(s) : i \in Answers(u) /\ u[i] = s[i]
    BY ONLY <1>1 DEF Answers
  <1>5. \A i \in Answers(t) : Len(s) + i \in Answers(u) /\ u[Len(s) + i] = t[i]
    BY ONLY <1>1 DEF Answers
  <1>6. AnswerIds(u) = AnswerIds(s) \cup AnswerIds(t)
    BY ONLY <1>3, <1>4, <1>5 DEF AnswerIds
  <1>7. ASSUME Distinct(s), Distinct(t), AnswerIds(s) \cap AnswerIds(t) = {}
        PROVE  Distinct(u)
    <2> SUFFICES ASSUME NEW i \in Answers(u), NEW j \in Answers(u), u[i].tid = u[j].tid
                 PROVE  i = j
      BY DEF Distinct
    <2>1. \A k \in Answers(s) : s[k].tid \in AnswerIds(s)
      BY ONLY Zenon DEF AnswerIds
    <2>2. \A k \in Answers(t) : t[k].tid \in AnswerIds(t)
      BY ONLY Zenon DEF AnswerIds
    <2>3. /\ i \in Int /\ j \in Int
          /\ \A k \in Answers(s) : u[k] = s[k]
      BY ONLY <1>1, <1>4, i \in Answers(u), j \in Answers(u) DEF Answers
    <2>4. CASE i \in Answers(s) /\ j \in Answers(s)
      BY ONLY <2>4, <2>3, <1>7, u[i].tid = u[j].tid DEF Distinct
    <2>5. CASE i \in Answers(s) /\ j \notin Answers(s)
      BY ONLY <2>5, <2>3, <1>3, <1>7, <2>1, <2>2, u[i].tid = u[j].tid, j \in Answers(u)
    <2>6. CASE i \notin Answers(s) /\ j \in Answers(s)
      BY ONLY <2>6, <2>3, <1>3, <1>7, <2>1, <2>2, u[i].tid = u[j].tid, i \in Answers(u)
    <2>7. CASE i \notin Answers(s) /\ j \notin Answers(s)
      <3>1. i - Len(s) \in Answers(t) /\ u[i] = t[i - Len(s)] /\ j - Len(s) \in Answers(t) /\ u[j] = t[j - Len(s)]
        BY ONLY <2>7, <1>3, i \in Answers(u), j \in Answers(u)
      <3>2. i - Len(s) = j - Len(s)
        BY ONLY <3>1, <1>7, u[i].tid = u[j].tid DEF Distinct
      <3> QED
        BY ONLY <3>2, <1>1, <2>3
    <2> QED
      BY ONLY <2>4, <2>5, <2>6, <2>7, Zenon
  <1> QED
    BY ONLY <1>6, <1>7 DEF u

LEMMA AnswersJoin ==
    \A s, t \in Seq(Replies) :
        /\ AnswerIds(s \o t) = AnswerIds(s) \cup AnswerIds(t)
        /\ Distinct(s) /\ Distinct(t) /\ AnswerIds(s) \cap AnswerIds(t) = {} => Distinct(s \o t)
  BY ONLY AnswersConcat, Zenon

\* Packets that answer no request, or answer one.
Batch(ps, t) == ps \in Seq(Replies) /\ Distinct(ps) /\ AnswerIds(ps) \subseteq {t}

LEMMA NoAnswer == \A t : Batch(<< >>, t)
  BY DEF Batch, Distinct, AnswerIds, Answers

LEMMA Members ==
    /\ Fixed \subseteq Replies
    /\ \A t \in AllIds : Results(t) \subseteq Replies
  BY ONLY Zenon DEF Replies

LEMMA OneReply ==
    ASSUME NEW p \in Replies
    PROVE  Batch(<<p>>, p.tid)
  <1>1. <<p>> \in Seq(Replies) /\ DOMAIN <<p>> = {1} /\ <<p>>[1] = p
    OBVIOUS
  <1> QED
    BY ONLY <1>1 DEF Batch, Distinct, AnswerIds, Answers

LEMMA OneStatus ==
    ASSUME NEW p \in Replies, ~IsAnswer(p), NEW t
    PROVE  Batch(<<p>>, t)
  <1>1. <<p>> \in Seq(Replies) /\ DOMAIN <<p>> = {1} /\ <<p>>[1] = p
    OBVIOUS
  <1> QED
    BY ONLY <1>1, ~IsAnswer(p) DEF Batch, Distinct, AnswerIds, Answers

LEMMA ThreeReplies ==
    ASSUME NEW p \in Replies, NEW q \in Replies, NEW r \in Replies, ~IsAnswer(p), ~IsAnswer(r)
    PROVE  Batch(<<p, q, r>>, q.tid)
  <1> DEFINE s == <<p, q, r>>
  <1>1. s \in Seq(Replies) /\ DOMAIN s = {1, 2, 3} /\ s[1] = p /\ s[2] = q /\ s[3] = r
    OBVIOUS
  <1> HIDE DEF s
  <1>2. Answers(s) \subseteq {2}
    BY ONLY <1>1, ~IsAnswer(p), ~IsAnswer(r) DEF Answers
  <1> QED
    BY ONLY <1>1, <1>2 DEF Batch, Distinct, AnswerIds, s

LEMMA FourStatuses ==
    ASSUME NEW p \in Replies, NEW q \in Replies, NEW r \in Replies, NEW u \in Replies, NEW t,
           ~IsAnswer(p), ~IsAnswer(q), ~IsAnswer(r), ~IsAnswer(u)
    PROVE  Batch(<<p, q, r, u>>, t)
  <1> DEFINE s == <<p, q, r, u>>
  <1>1. s \in Seq(Replies) /\ DOMAIN s = {1, 2, 3, 4} /\ s[1] = p /\ s[2] = q /\ s[3] = r /\ s[4] = u
    OBVIOUS
  <1> HIDE DEF s
  <1>2. Answers(s) = {}
    BY ONLY <1>1, ~IsAnswer(p), ~IsAnswer(q), ~IsAnswer(r), ~IsAnswer(u) DEF Answers
  <1> QED
    BY ONLY <1>1, <1>2 DEF Batch, Distinct, AnswerIds, s

\* What each handler sends.
LEMMA HandshakeReply == Batch(<<S0S1S2>>, 0)
  <1>1. S0S1S2 \in Replies
    BY ONLY Members, Zenon DEF Fixed
  <1>2. S0S1S2.tid = 0
    BY ONLY DEF S0S1S2, Packet
  <1> QED
    BY ONLY <1>1, <1>2, OneReply

LEMMA ConnectReply == Batch(set_sizes \o response_connect_app, 1)
  <1> DEFINE p == Packet("SetWindowAckSize", "", 0, <<Number(9)>>)
             q == Packet("SetPeerBandwidth", "", 0, <<Number(9), Number(2)>>)
             r == Packet("SetChunkSize", "", 0, <<Number(8)>>)
  <1>1. /\ set_sizes = <<p, q, r>>
        /\ p.name = "" /\ q.name = "" /\ r.name = ""
    BY ONLY Zenon DEF set_sizes, Packet
  <1>2. \E a : response_connect_app = <<a>> /\ a.tid = 1
    <2> DEFINE x == Object(<< <<"mode", Number(1)>> >>)
               y == Object(<< <<"code", Str("Connect.Success")>>, <<"data", EcmaArray(<< <<"sig", Str("SRS")>> >>)>> >>)
               z == Result("ConnectAppRes", 1, <<x, y>>)
    <2>1. response_connect_app = <<z>>
      BY ONLY Zenon DEF response_connect_app
    <2> HIDE DEF x, y
    <2>2. z.tid = 1
      BY ONLY Zenon DEF Packet, Result
    <2> QED
      BY ONLY <2>1, <2>2, Zenon
  <1>3. PICK a : response_connect_app = <<a>> /\ a.tid = 1
    BY ONLY <1>2
  <1> HIDE DEF p, q, r
  <1>4. DOMAIN <<p, q, r>> = {1, 2, 3} /\ DOMAIN <<a>> = {1} /\ <<p, q, r>>[1] = p /\ <<p, q, r>>[2] = q
          /\ <<p, q, r>>[3] = r /\ <<a>>[1] = a
    OBVIOUS
  <1>5. p \in Elements(set_sizes) /\ q \in Elements(set_sizes) /\ r \in Elements(set_sizes)
          /\ a \in Elements(response_connect_app)
    BY ONLY <1>1, <1>3, <1>4 DEF Elements
  <1>6. p \in Replies /\ q \in Replies /\ r \in Replies /\ a \in Replies
    BY ONLY <1>5, Members, Zenon DEF Fixed
  <1>7. Batch(set_sizes, 1) /\ AnswerIds(set_sizes) = {}
    <2>1. set_sizes \in Seq(Replies)
      <3>1. <<p, q, r>> \in Seq(Replies)
        BY ONLY <1>6
      <3> QED
        BY ONLY <3>1, <1>1, Zenon
    <2>2. Answers(set_sizes) = {}
      BY ONLY <1>1, <1>4 DEF Answers, IsAnswer
    <2> HIDE DEF Answers
    <2> QED
      BY ONLY <2>1, <2>2 DEF Batch, Distinct, AnswerIds
  <1>8. Batch(response_connect_app, 1)
    <2>1. Batch(<<a>>, a.tid)
      BY ONLY <1>6, OneReply, Zenon
    <2> QED
      BY ONLY <2>1, <1>3, Zenon
  <1> DEFINE s == set_sizes
             u == response_connect_app
  <1>9. s \in Seq(Replies) /\ u \in Seq(Replies) /\ AnswerIds(s) = {} /\ Distinct(s) /\ Distinct(u)
          /\ AnswerIds(u) \subseteq {1}
    BY ONLY <1>7, <1>8, Zenon DEF Batch
  <1> HIDE DEF s, u
  <1>10. AnswerIds(s \o u) = AnswerIds(s) \cup AnswerIds(u)
          /\ (Distinct(s) /\ Distinct(u) /\ AnswerIds(s) \cap AnswerIds(u) = {} => Distinct(s \o u))
    BY ONLY <1>9, AnswersConcat, Zenon
  <1>11. s \o u \in Seq(Replies)
    BY ONLY <1>9
  <1>12. Batch(s \o u, 1)
    BY ONLY <1>9, <1>10, <1>11 DEF Batch
  <1> QED
    BY ONLY <1>12 DEF s, u

LEMMA StatusReplies ==
    ASSUME NEW t
    PROVE  /\ Batch(start_play, t)
           /\ Batch(start_publishing, t)
           /\ Batch(<<OnStatus("onFCPublish", "Publish.Start")>>, t)
  <1>1. Batch(start_play, t)
    <2> DEFINE p == Packet("UserControl", "", 0, <<Number(0), StreamId>>)
               q == OnStatus("onStatus", "Play.Reset")
               r == OnStatus("onStatus", "Play.Start")
               u == Packet("SampleAccess", "|RtmpSampleAccess", 0, <<Boolean(TRUE), Boolean(TRUE)>>)
    <2>1. start_play = <<p, q, r, u>>
      BY ONLY Zenon DEF start_play
    <2>2. p.name = "" /\ q.name = "onStatus" /\ r.name = "onStatus" /\ u.name = "|RtmpSampleAccess"
      BY ONLY DEF Packet, OnStatus
    <2> HIDE DEF p, q, r, u
    <2>3. DOMAIN <<p, q, r, u>> = {1, 2, 3, 4} /\ <<p, q, r, u>>[1] = p /\ <<p, q, r, u>>[2] = q
            /\ <<p, q, r, u>>[3] = r /\ <<p, q, r, u>>[4] = u
      OBVIOUS
    <2>4. /\ p \in Elements(start_play) /\ q \in Elements(start_play) /\ r \in Elements(start_play)
          /\ u \in Elements(start_play)
      BY ONLY <2>1, <2>3 DEF Elements
    <2>5. p \in Replies /\ q \in Replies /\ r \in Replies /\ u \in Replies
      BY ONLY <2>4, Members, Zenon DEF Fixed
    <2>6. ~IsAnswer(p) /\ ~IsAnswer(q) /\ ~IsAnswer(r) /\ ~IsAnswer(u)
      BY ONLY <2>2 DEF IsAnswer
    <2> QED
      BY ONLY <2>1, <2>5, <2>6, FourStatuses, Zenon
  <1>2. Batch(start_publishing, t)
    <2> DEFINE p == OnStatus("onStatus", "Publish.Start")
    <2>1. start_publishing = <<p>> /\ p.name = "onStatus"
      BY ONLY DEF start_publishing, Packet, OnStatus
    <2> HIDE DEF p
    <2>2. p \in Elements(start_publishing)
      <3>1. DOMAIN <<p>> = {1} /\ <<p>>[1] = p
        OBVIOUS
      <3> QED
        BY ONLY <2>1, <3>1 DEF Elements
    <2>3. p \in Replies /\ ~IsAnswer(p)
      <3>1. p \in Replies
        BY ONLY <2>2, Members, Zenon DEF Fixed
      <3> QED
        BY ONLY <2>1, <3>1 DEF IsAnswer
    <2> QED
      BY ONLY <2>1, <2>3, OneStatus, Zenon
  <1>3. Batch(<<OnStatus("onFCPublish", "Publish.Start")>>, t)
    <2>1. OnStatus("onFCPublish", "Publish.Start") \in Replies
      BY ONLY Members, Zenon DEF Fixed
    <2>2. ~IsAnswer(OnStatus("onFCPublish", "Publish.Start"))
      BY ONLY DEF IsAnswer, OnStatus, Packet
    <2> QED
      BY ONLY <2>1, <2>2, OneStatus, Zenon
  <1> QED
    BY ONLY <1>1, <1>2, <1>3

LEMMA ResultReplies ==
    ASSUME NEW t \in AllIds
    PROVE  /\ Batch(<<Result("FMLEStartRes", t, << >>)>>, t)
           /\ Batch(<<Result("CreateStreamRes", t, <<StreamId>>)>>, t)
           /\ Batch(fmle_unpublish(t), t)
  <1>1. Result("FMLEStartRes", t, << >>) \in Replies /\ Result("CreateStreamRes", t, <<StreamId>>) \in Replies
    BY ONLY Members, t \in AllIds, Zenon DEF Results
  <1>2. Result("FMLEStartRes", t, << >>).tid = t /\ Result("CreateStreamRes", t, <<StreamId>>).tid = t
    BY ONLY DEF Result, Packet
  <1>3. Batch(fmle_unpublish(t), t)
    <2> DEFINE p == OnStatus("onFCUnpublish", "Unpublish.Success")
               q == Result("FMLEStartRes", t, << >>)
               r == OnStatus("onStatus", "Unpublish.Success")
    <2>1. fmle_unpublish(t) = <<p, q, r>> /\ p.name = "onFCUnpublish" /\ q.tid = t /\ r.name = "onStatus"
      BY ONLY DEF fmle_unpublish, Packet, OnStatus, Result
    <2> HIDE DEF p, q, r
    <2>2. DOMAIN <<p, q, r>> = {1, 2, 3} /\ <<p, q, r>>[1] = p /\ <<p, q, r>>[2] = q /\ <<p, q, r>>[3] = r
      OBVIOUS
    <2>3. p \in Elements(fmle_unpublish(t)) /\ q \in Elements(fmle_unpublish(t)) /\ r \in Elements(fmle_unpublish(t))
      BY ONLY <2>1, <2>2 DEF Elements
    <2>4. p \in Replies /\ q \in Replies /\ r \in Replies
      BY ONLY <2>3, Members, t \in AllIds, Zenon DEF Results
    <2>5. ~IsAnswer(p) /\ ~IsAnswer(r)
      BY ONLY <2>1 DEF IsAnswer
    <2>6. Batch(<<p, q, r>>, q.tid)
      BY ONLY <2>4, <2>5, ThreeReplies, Zenon
    <2> QED
      BY ONLY <2>1, <2>6
  <1> QED
    <2>1. \A p \in Replies : Batch(<<p>>, p.tid)
      BY ONLY OneReply, Zenon
    <2> QED
      BY ONLY <1>1, <1>2, <1>3, <2>1

-----------------------------------------------------------------------------
(* What a server thread does with a message.                                  *)

\* The sources are left alone and the thread keeps its stream, or it goes for one
\* that it has fetched.
Moves(c, t) ==
    /\ t \in ThreadType /\ t.pc # "handshake"
    /\ srv' = [srv EXCEPT ![c] = t]
    /\ \/ /\ sources' = sources /\ t.stream = srv[c].stream
          /\ t.pc \in Holding <=> srv[c].pc \in Holding
          /\ t.pc \in Claiming => srv[c].pc \in Claiming
       \/ /\ sources' = fetch_or_create(t.stream)
          /\ srv[c].pc \notin Holding /\ t.pc \notin Holding
    /\ served' \in [Conns -> {"yet", "served", "refused", "any"}]

\* The message is consumed, and answered only with answers to it.
Sends(c, m, ps) ==
    /\ inq' = [inq EXCEPT ![c] = Tail(@)] /\ UNCHANGED peerVars
    /\ outq' = [outq EXCEPT ![c] = IF open[c] THEN @ \o ps ELSE @]
    /\ ps \in Seq(Replies)
    /\ open[c] => Distinct(ps) /\ AnswerIds(ps) \subseteq Ids(m)

Handled(c, m) == \E t, ps : Moves(c, t) /\ Sends(c, m, ps)

LEMMA ThreadAt ==
    ASSUME TypeOK, NEW c \in Conns, NEW pc \in Pcs
    PROVE  /\ [srv[c] EXCEPT !.pc = pc] \in ThreadType
           /\ [srv[c] EXCEPT !.pc = pc].pc = pc
           /\ [srv[c] EXCEPT !.pc = pc].stream = srv[c].stream
           /\ Goto(c, pc) => srv' = [srv EXCEPT ![c] = [srv[c] EXCEPT !.pc = pc]]
  <1>1. srv \in [Conns -> ThreadType]
    BY ONLY TypeOK DEF TypeOK
  <1>2. srv[c] \in ThreadType
    BY ONLY <1>1, c \in Conns
  <1>3. /\ [srv[c] EXCEPT !.pc = pc] \in ThreadType
        /\ [srv[c] EXCEPT !.pc = pc].pc = pc
        /\ [srv[c] EXCEPT !.pc = pc].stream = srv[c].stream
    BY ONLY <1>2, pc \in Pcs DEF ThreadType
  <1> QED
    BY ONLY <1>1, <1>3 DEF Goto

\* A thread that moves on to pc without touching the sources.
LEMMA MovesOn ==
    ASSUME TypeOK, NEW c \in Conns, NEW pc \in Pcs \ {"handshake"}, Goto(c, pc),
           UNCHANGED <<sources, served>>,
           pc \in Holding <=> srv[c].pc \in Holding,
           pc \in Claiming => srv[c].pc \in Claiming
    PROVE  \E t : Moves(c, t)
  <1> DEFINE t == [srv[c] EXCEPT !.pc = pc]
  <1>1. t \in ThreadType /\ t.pc = pc /\ t.stream = srv[c].stream /\ srv' = [srv EXCEPT ![c] = t]
    BY ONLY ThreadAt, TypeOK, pc \in Pcs \ {"handshake"}, Goto(c, pc), c \in Conns
  <1> HIDE DEF t
  <1>2. served' \in [Conns -> {"yet", "served", "refused", "any"}]
    BY ONLY TypeOK, UNCHANGED <<sources, served>> DEF TypeOK
  <1>3. pc # "handshake" /\ sources' = sources
    BY ONLY pc \in Pcs \ {"handshake"}, UNCHANGED <<sources, served>>
  <1>4. Moves(c, t)
    BY ONLY <1>1, <1>2, <1>3, pc \in Holding <=> srv[c].pc \in Holding,
       pc \in Claiming => srv[c].pc \in Claiming DEF Moves
  <1> QED
    BY ONLY <1>4, Zenon

LEMMA StaysPut ==
    ASSUME TypeOK, NEW c \in Conns, srv' = srv, UNCHANGED <<sources, served>>, srv[c].pc # "handshake"
    PROVE  Moves(c, srv[c])
  <1>1. srv[c] \in ThreadType /\ srv' = [srv EXCEPT ![c] = srv[c]]
    BY DEF TypeOK
  <1>2. served' \in [Conns -> {"yet", "served", "refused", "any"}]
    BY ONLY TypeOK, UNCHANGED <<sources, served>> DEF TypeOK
  <1> QED
    BY ONLY <1>1, <1>2, UNCHANGED <<sources, served>>, srv[c].pc # "handshake" DEF Moves

\* Nothing is sent, or a batch is.
LEMMA SendsNothing ==
    ASSUME TypeOK, NEW c \in Conns, NEW m, NEW pc, Receive(c, pc), outq' = outq
    PROVE  Sends(c, m, << >>)
  <1>1. Batch(<< >>, 0) /\ AnswerIds(<< >>) = {}
    BY NoAnswer DEF AnswerIds, Answers
  <1>2. outq' = [outq EXCEPT ![c] = IF open[c] THEN @ \o << >> ELSE @]
    <2>1. outq \in [Conns -> Seq(Replies)]
      BY DEF TypeOK
    <2>2. outq[c] \o << >> = outq[c]
      BY ONLY <2>1, c \in Conns
    <2> QED
      BY ONLY <2>1, <2>2, outq' = outq
  <1> QED
    BY ONLY <1>1, <1>2, Receive(c, pc) DEF Sends, Batch, Receive

LEMMA SendsBatch ==
    ASSUME NEW c \in Conns, NEW m, NEW pc, NEW ps, NEW t, Receive(c, pc), Send(c, ps), Batch(ps, t),
           open[c] => AnswerIds(ps) = {} \/ t \in Ids(m)
    PROVE  Sends(c, m, ps)
  BY DEF Sends, Batch, Receive, Send

LEMMA Decoded ==
    ASSUME NEW m \in Messages, NEW d, d = decode_message[m]
    PROVE  /\ d.ok /\ d.packet.class \in {"CreateStream", "FMLEStart"} =>
                d.packet.tid \in Ids(m) /\ d.packet.tid \in AllIds
           /\ d.ok /\ d.packet.class = "ConnectApp" => 1 \in Ids(m)
           /\ d.packet.fields[1].s \in Streams
  <1>1. ASSUME d.ok, d.packet.class \in {"ConnectApp", "CreateStream", "FMLEStart"}
        PROVE  d.packet.tid \in Ids(m) /\ m.packet.class = d.packet.class /\ m.packet.tid = d.packet.tid
    <2>1. m.packet.class = d.packet.class /\ m.packet.tid = d.packet.tid
      BY <1>1, DecodeAssumption
    <2>2. Requests(m) = {<<m.packet.tid, m.packet.name>>}
      BY <1>1, <2>1 DEF Requests
    <2>3. <<m.packet.tid, m.packet.name>>[1] = m.packet.tid
      OBVIOUS
    <2>4. m.packet.tid \in Ids(m)
      BY ONLY <2>2, <2>3 DEF Ids
    <2> QED
      BY ONLY <2>1, <2>4
  <1>2. d.packet.fields[1].s \in Streams
    BY DEF Streams
  <1>3. \A i \in Ids(m) : i \in AllIds
    BY ONLY m \in Messages, Zenon DEF AllIds
  <1>4. m.packet.class = "ConnectApp" => m.packet.tid = 1
    BY ONLY PeersAssumption, m \in Messages
  <1> QED
    BY ONLY <1>1, <1>2, <1>3, <1>4

\* An error ends the thread, and a message that is not expected is dropped.
LEMMA Fails ==
    ASSUME TypeOK, NEW c \in Conns, NEW m, NEW pc, Receive(c, pc), pc \notin Holding, Fail(c)
    PROVE  Handled(c, m)
  <1>1. Goto(c, "closed") /\ UNCHANGED <<sources, served>> /\ outq' = outq /\ srv[c].pc \notin Holding
    BY DEF Fail, Receive, At
  <1>2. "closed" \in Pcs \ {"handshake"} /\ "closed" \notin Holding /\ "closed" \notin Claiming
    BY DEF Pcs, Holding, Claiming
  <1>3. \E t : Moves(c, t)
    BY ONLY <1>1, <1>2, MovesOn, TypeOK, c \in Conns
  <1>4. Sends(c, m, << >>)
    BY ONLY <1>1, SendsNothing, TypeOK, c \in Conns, Receive(c, pc)
  <1> QED
    BY ONLY <1>3, <1>4, Zenon DEF Handled

LEMMA Stays ==
    ASSUME TypeOK, NEW c \in Conns, NEW m, NEW pc, Receive(c, pc), pc # "handshake", Stay
    PROVE  Handled(c, m)
  <1>1. srv' = srv /\ UNCHANGED <<sources, served>> /\ outq' = outq /\ srv[c].pc # "handshake"
    BY DEF Stay, Receive, At
  <1>2. Moves(c, srv[c])
    BY ONLY <1>1, StaysPut, TypeOK, c \in Conns
  <1>3. Sends(c, m, << >>)
    BY ONLY <1>1, SendsNothing, TypeOK, c \in Conns, Receive(c, pc)
  <1> QED
    BY ONLY <1>2, <1>3, Zenon DEF Handled

\* A batch is sent and the thread moves on.
LEMMA RepliesAndMoves ==
    ASSUME TypeOK, NEW c \in Conns, NEW m, NEW pc, NEW to \in Pcs \ {"handshake"}, NEW ps, NEW i,
           Receive(c, pc), Send(c, ps), Batch(ps, i), AnswerIds(ps) = {} \/ i \in Ids(m),
           Goto(c, to), UNCHANGED <<sources, served>>,
           to \in Holding <=> pc \in Holding, to \in Claiming => pc \in Claiming
    PROVE  Handled(c, m)
  <1>1. srv[c].pc = pc
    BY DEF Receive, At
  <1>2. \E t : Moves(c, t)
    BY ONLY <1>1, MovesOn, TypeOK, c \in Conns, Goto(c, to), UNCHANGED <<sources, served>>,
       to \in Pcs \ {"handshake"}, to \in Holding <=> pc \in Holding, to \in Claiming => pc \in Claiming
  <1>3. Sends(c, m, ps)
    BY ONLY SendsBatch, c \in Conns, Receive(c, pc), Send(c, ps), Batch(ps, i),
       AnswerIds(ps) = {} \/ i \in Ids(m), Zenon
  <1> QED
    BY ONLY <1>2, <1>3, Zenon DEF Handled

\* A client that is identified goes for its stream.
LEMMA Identifies ==
    ASSUME TypeOK, NEW c \in Conns, NEW m, NEW pc, NEW ps, NEW i, NEW s \in Streams,
           NEW type \in {"play", "fmle", "flash"},
           Receive(c, pc), pc \notin Holding, Batch(ps, i), AnswerIds(ps) = {} \/ i \in Ids(m),
           type = "play" => ps = << >>,
           Identified(c, type, s, ps)
    PROVE  Handled(c, m)
  <1>1. CASE s = ""
    <2>1. Fail(c)
      BY ONLY <1>1, Identified(c, type, s, ps) DEF Identified
    <2> QED
      BY ONLY <2>1, Fails, TypeOK, c \in Conns, Receive(c, pc), pc \notin Holding
  <1>2. CASE s # ""
    <2> DEFINE k == CASE type = "play" -> "playing" [] type = "fmle" -> "fc_publish" [] type = "flash" -> "can_publish"
               t == [pc |-> k, depth |-> 0, stream |-> s]
               qs == IF type = "play" THEN ps \o start_play ELSE ps
    <2>1. /\ sources' = fetch_or_create(s) /\ srv' = [srv EXCEPT ![c] = t] /\ Send(c, qs)
          /\ served' = IF type = "play" THEN Served(c) ELSE served
      BY ONLY <1>2, Identified(c, type, s, ps), Zenon DEF Identified
    <2>2. k \in {"playing", "fc_publish", "can_publish"}
      BY ONLY type \in {"play", "fmle", "flash"}
    <2> HIDE DEF k
    <2>3. t \in ThreadType /\ t.pc # "handshake" /\ t.pc \notin Holding /\ t.stream = s
      BY ONLY <2>2, s \in Streams DEF ThreadType, Pcs, Holding, Claiming
    <2>4. srv[c].pc \notin Holding
      BY ONLY Receive(c, pc), pc \notin Holding DEF Receive, At
    <2>5. served' \in [Conns -> {"yet", "served", "refused", "any"}]
      BY ONLY <2>1, TypeOK DEF TypeOK, Served
    <2>6. Moves(c, t)
      BY ONLY <2>1, <2>3, <2>4, <2>5 DEF Moves
    <2>7. \E j : Batch(qs, j) /\ (AnswerIds(qs) = {} \/ j \in Ids(m))
      <3>1. CASE type = "play"
        <4>1. start_play \in Seq(Replies) /\ Batch(start_play, 0) /\ Batch(start_play, 1)
          BY ONLY StatusReplies, Zenon DEF Batch
        <4>2. AnswerIds(start_play) = {}
          BY ONLY <4>1 DEF Batch
        <4>3. qs = start_play
          <5>1. << >> \o start_play = start_play
            BY ONLY <4>1
          <5> QED
            BY ONLY <5>1, <3>1, type = "play" => ps = << >>
        <4> QED
          BY ONLY <4>1, <4>2, <4>3, Zenon
      <3>2. CASE type # "play"
        <4>1. qs = ps
          BY ONLY <3>2, Zenon
        <4> QED
          BY ONLY <4>1, Batch(ps, i), AnswerIds(ps) = {} \/ i \in Ids(m), Zenon
      <3> QED
        BY ONLY <3>1, <3>2
    <2> HIDE DEF t, qs
    <2>8. PICK j : Batch(qs, j) /\ (AnswerIds(qs) = {} \/ j \in Ids(m))
      BY ONLY <2>7
    <2>9. Sends(c, m, qs)
      BY ONLY <2>1, <2>8, SendsBatch, c \in Conns, Receive(c, pc), Zenon
    <2> QED
      BY ONLY <2>6, <2>9, Zenon DEF Handled
  <1> QED
    BY ONLY <1>1, <1>2, Zenon

LEMMA CreatesStream ==
    ASSUME TypeOK, NEW c \in Conns, NEW m, NEW i \in AllIds, NEW depth \in Int, NEW pc,
           Receive(c, pc), pc \notin Holding, i \in Ids(m), CreateStream(c, i, depth)
    PROVE  Handled(c, m)
  <1>1. CASE depth <= 0
    <2>1. Fail(c)
      BY ONLY <1>1, CreateStream(c, i, depth) DEF CreateStream
    <2> QED
      BY ONLY <2>1, Fails, TypeOK, c \in Conns, Receive(c, pc), pc \notin Holding
  <1>2. CASE ~(depth <= 0)
    <2> DEFINE ps == <<Result("CreateStreamRes", i, <<StreamId>>)>>
               t == [[srv[c] EXCEPT !.pc = "identify_create_stream"] EXCEPT !.depth = depth]
    <2>1. /\ Send(c, ps) /\ UNCHANGED <<sources, served>>
          /\ srv' = [srv EXCEPT ![c].pc = "identify_create_stream", ![c].depth = depth]
      BY ONLY <1>2, CreateStream(c, i, depth), Zenon DEF CreateStream
    <2>2. srv \in [Conns -> ThreadType] /\ srv[c] \in ThreadType /\ srv[c].pc = pc
      BY ONLY TypeOK, c \in Conns, Receive(c, pc) DEF TypeOK, Receive, At
    <2>3. srv' = [srv EXCEPT ![c] = t]
      BY ONLY <2>1, <2>2, c \in Conns
    <2>4. /\ t \in ThreadType /\ t.pc = "identify_create_stream" /\ t.stream = srv[c].stream
      BY ONLY <2>2, depth \in Int DEF ThreadType, Pcs
    <2>5. served' \in [Conns -> {"yet", "served", "refused", "any"}] /\ sources' = sources
      BY ONLY <2>1, TypeOK DEF TypeOK
    <2> HIDE DEF t
    <2>6. Moves(c, t)
      BY ONLY <2>2, <2>3, <2>4, <2>5, pc \notin Holding DEF Moves, Holding, Claiming
    <2>7. Batch(ps, i)
      BY ONLY ResultReplies, i \in AllIds, Zenon
    <2> HIDE DEF ps
    <2>8. Sends(c, m, ps)
      BY ONLY <2>1, <2>7, SendsBatch, c \in Conns, Receive(c, pc), i \in Ids(m), Zenon
    <2> QED
      BY ONLY <2>6, <2>8, Zenon DEF Handled
  <1> QED
    BY ONLY <1>1, <1>2, Zenon

-----------------------------------------------------------------------------
(* The handlers.                                                              *)

LEMMA HandshakeStep ==
    ASSUME TypeOK, NEW c \in Conns, NEW m, open[c] => 0 \in Ids(m), HandshakeC0C1(c, m)
    PROVE  Handled(c, m)
  <1>1. Receive(c, "handshake")
    BY ONLY HandshakeC0C1(c, m), Zenon DEF HandshakeC0C1
  <1>2. CASE m.payload[1].n = 3
    <2>1. /\ Goto(c, "c2") /\ UNCHANGED <<sources, served>>
          /\ outq' = [outq EXCEPT ![c] = IF open[c] THEN Append(@, S0S1S2) ELSE @]
      BY ONLY HandshakeC0C1(c, m), <1>2, Zenon DEF HandshakeC0C1
    <2>2. Batch(<<S0S1S2>>, 0)
      BY ONLY HandshakeReply
    <2>3. Sends(c, m, <<S0S1S2>>)
      <3>1. outq[c] \in Seq(Replies) /\ outq \in [Conns -> Seq(Replies)]
        BY ONLY TypeOK, c \in Conns DEF TypeOK
      <3>2. Append(outq[c], S0S1S2) = outq[c] \o <<S0S1S2>>
        <4>1. S0S1S2 \in Replies
          BY ONLY Members, Zenon DEF Fixed
        <4> QED
          BY ONLY <3>1, <4>1
      <3>3. outq' = [outq EXCEPT ![c] = IF open[c] THEN @ \o <<S0S1S2>> ELSE @]
        BY ONLY <2>1, <3>1, <3>2
      <3> QED
        BY ONLY <1>1, <2>2, <3>3, open[c] => 0 \in Ids(m) DEF Sends, Batch, Receive
    <2>4. srv[c].pc = "handshake" /\ "c2" \in Pcs \ {"handshake"}
      BY ONLY <1>1 DEF Receive, At, Pcs
    <2>5. \E t : Moves(c, t)
      BY ONLY <2>1, <2>4, MovesOn, TypeOK, c \in Conns DEF Holding, Claiming
    <2> QED
      BY ONLY <2>3, <2>5, Zenon DEF Handled
  <1>3. CASE m.payload[1].n # 3
    <2>1. Fail(c) /\ "handshake" \notin Holding
      BY ONLY HandshakeC0C1(c, m), <1>3 DEF HandshakeC0C1, Holding
    <2> QED
      BY ONLY <1>1, <2>1, Fails, TypeOK, c \in Conns
  <1> QED
    BY ONLY <1>2, <1>3

\* The handlers that wait for one packet.
LEMMA ExpectStep ==
    ASSUME TypeOK, NEW c \in Conns, NEW m \in Messages, NEW d, d = decode_message[m],
           ConnectApp(c, d) \/ StartFcPublish(c, d) \/ StartCreateStream(c, d) \/ StartPublish(c, d)
    PROVE  Handled(c, m)
  <1>1. /\ d.ok /\ d.packet.class \in {"CreateStream", "FMLEStart"} =>
                d.packet.tid \in Ids(m) /\ d.packet.tid \in AllIds
        /\ d.ok /\ d.packet.class = "ConnectApp" => 1 \in Ids(m)
    BY ONLY Decoded, m \in Messages, d = decode_message[m], Zenon
  <1>2. ASSUME NEW pc \in {"connect", "fc_publish", "create_stream", "publish"}, NEW class, NEW found \in BOOLEAN,
               Receive(c, pc), Expect(c, d, class, found)
        PROVE  Handled(c, m) \/ (d.ok /\ d.packet.class = class /\ found)
    <2>1. pc \notin Holding /\ pc # "handshake"
      BY ONLY pc \in {"connect", "fc_publish", "create_stream", "publish"} DEF Holding
    <2>2. Fail(c) \/ Stay \/ (d.ok /\ d.packet.class = class /\ found)
      BY ONLY Expect(c, d, class, found) DEF Expect
    <2>3. ASSUME Fail(c) PROVE Handled(c, m)
      BY ONLY <2>1, <2>3, Fails, TypeOK, c \in Conns, Receive(c, pc)
    <2>4. ASSUME Stay PROVE Handled(c, m)
      BY ONLY <2>1, <2>4, Stays, TypeOK, c \in Conns, Receive(c, pc)
    <2> QED
      BY ONLY <2>2, <2>3, <2>4
  <1>3. CASE ConnectApp(c, d)
    <2> DEFINE f == IF ~ connect_app(d.packet) THEN Fail(c)
                    ELSE /\ Send(c, set_sizes \o response_connect_app)
                         /\ Goto(c, "identify") /\ UNCHANGED <<sources, served>>
    <2>1. Receive(c, "connect") /\ Expect(c, d, "ConnectApp", f) /\ f \in BOOLEAN
      BY ONLY <1>3, Zenon DEF ConnectApp, Fail, Send, Goto
    <2> HIDE DEF f
    <2>2. Handled(c, m) \/ (d.ok /\ d.packet.class = "ConnectApp" /\ f)
      BY ONLY <2>1, <1>2
    <2>3. ASSUME d.ok, d.packet.class = "ConnectApp", f PROVE Handled(c, m)
      <3>1. CASE ~ connect_app(d.packet)
        <4>1. Fail(c) /\ "connect" \notin Holding
          BY ONLY <2>3, <3>1 DEF f, Holding
        <4> QED
          BY ONLY <2>1, <4>1, Fails, TypeOK, c \in Conns
      <3>2. CASE connect_app(d.packet)
        <4>1. /\ Send(c, set_sizes \o response_connect_app)
              /\ Goto(c, "identify") /\ UNCHANGED <<sources, served>>
          BY ONLY <2>3, <3>2 DEF f
        <4>2. Batch(set_sizes \o response_connect_app, 1) /\ 1 \in Ids(m)
          BY ONLY ConnectReply, <1>1, <2>3
        <4>3. "identify" \in Pcs \ {"handshake"} /\ ("identify" \in Holding <=> "connect" \in Holding)
                /\ ("identify" \in Claiming => "connect" \in Claiming)
          BY DEF Pcs, Holding, Claiming
        <4> QED
          BY ONLY <2>1, <4>1, <4>2, <4>3, RepliesAndMoves, TypeOK, c \in Conns, Zenon
      <3> QED
        BY ONLY <3>1, <3>2
    <2> QED
      BY ONLY <2>2, <2>3
  <1>4. CASE StartFcPublish(c, d)
    <2> DEFINE f == /\ Send(c, <<Result("FMLEStartRes", d.packet.tid, << >>)>>)
                    /\ Goto(c, "create_stream") /\ UNCHANGED <<sources, served>>
    <2>1. Receive(c, "fc_publish") /\ Expect(c, d, "FMLEStart", f) /\ f \in BOOLEAN
      BY ONLY <1>4, Zenon DEF StartFcPublish, Send, Goto
    <2> HIDE DEF f
    <2>2. Handled(c, m) \/ (d.ok /\ d.packet.class = "FMLEStart" /\ f)
      BY ONLY <2>1, <1>2
    <2>3. ASSUME d.ok, d.packet.class = "FMLEStart", f PROVE Handled(c, m)
      <3>1. d.packet.tid \in Ids(m) /\ Batch(<<Result("FMLEStartRes", d.packet.tid, << >>)>>, d.packet.tid)
        BY ONLY <1>1, <2>3, ResultReplies
      <3>2. "create_stream" \in Pcs \ {"handshake"} /\ ("create_stream" \in Holding <=> "fc_publish" \in Holding)
              /\ ("create_stream" \in Claiming => "fc_publish" \in Claiming)
        BY DEF Pcs, Holding, Claiming
      <3> QED
        BY ONLY <2>1, <2>3, <3>1, <3>2, RepliesAndMoves, TypeOK, c \in Conns, Zenon DEF f
    <2> QED
      BY ONLY <2>2, <2>3
  <1>5. CASE StartCreateStream(c, d)
    <2> DEFINE f == /\ Send(c, <<Result("CreateStreamRes", d.packet.tid, <<StreamId>>)>>)
                    /\ Goto(c, "publish") /\ UNCHANGED <<sources, served>>
    <2>1. Receive(c, "create_stream") /\ Expect(c, d, "CreateStream", f) /\ f \in BOOLEAN
      BY ONLY <1>5, Zenon DEF StartCreateStream, Send, Goto
    <2> HIDE DEF f
    <2>2. Handled(c, m) \/ (d.ok /\ d.packet.class = "CreateStream" /\ f)
      BY ONLY <2>1, <1>2
    <2>3. ASSUME d.ok, d.packet.class = "CreateStream", f PROVE Handled(c, m)
      <3>1. d.packet.tid \in Ids(m) /\ Batch(<<Result("CreateStreamRes", d.packet.tid, <<StreamId>>)>>, d.packet.tid)
        BY ONLY <1>1, <2>3, ResultReplies
      <3>2. "publish" \in Pcs \ {"handshake"} /\ ("publish" \in Holding <=> "create_stream" \in Holding)
              /\ ("publish" \in Claiming => "create_stream" \in Claiming)
        BY DEF Pcs, Holding, Claiming
      <3> QED
        BY ONLY <2>1, <2>3, <3>1, <3>2, RepliesAndMoves, TypeOK, c \in Conns, Zenon DEF f
    <2> QED
      BY ONLY <2>2, <2>3
  <1>6. CASE StartPublish(c, d)
    <2> DEFINE f == /\ Send(c, <<OnStatus("onFCPublish", "Publish.Start")>>)
                    /\ Goto(c, "can_publish") /\ UNCHANGED <<sources, served>>
    <2>1. Receive(c, "publish") /\ Expect(c, d, "Publish", f) /\ f \in BOOLEAN
      BY ONLY <1>6, Zenon DEF StartPublish, Send, Goto
    <2> HIDE DEF f
    <2>2. Handled(c, m) \/ (d.ok /\ d.packet.class = "Publish" /\ f)
      BY ONLY <2>1, <1>2
    <2>3. ASSUME f PROVE Handled(c, m)
      <3> DEFINE ps == <<OnStatus("onFCPublish", "Publish.Start")>>
      <3>1. Batch(ps, 0) /\ Batch(ps, 1)
        BY ONLY StatusReplies, Zenon
      <3> HIDE DEF ps
      <3>2. AnswerIds(ps) = {}
        BY ONLY <3>1 DEF Batch
      <3>3. "can_publish" \in Pcs \ {"handshake"} /\ ("can_publish" \in Holding <=> "publish" \in Holding)
              /\ ("can_publish" \in Claiming => "publish" \in Claiming)
        BY DEF Pcs, Holding, Claiming
      <3>4. Send(c, ps) /\ Goto(c, "can_publish") /\ UNCHANGED <<sources, served>>
        BY ONLY <2>3 DEF f, ps
      <3> QED
        BY ONLY <2>1, <3>1, <3>2, <3>3, <3>4, RepliesAndMoves, TypeOK, c \in Conns, Zenon
    <2> QED
      BY ONLY <2>2, <2>3
  <1> QED
    BY ONLY <1>3, <1>4, <1>5, <1>6,
       ConnectApp(c, d) \/ StartFcPublish(c, d) \/ StartCreateStream(c, d) \/ StartPublish(c, d)

LEMMA IdentifyStep ==
    ASSUME TypeOK, NEW c \in Conns, NEW m \in Messages, NEW d, d = decode_message[m],
           Identify(c, m, d) \/ IdentifyCreateStream(c, m, d)
    PROVE  Handled(c, m)
  <1> DEFINE p == d.packet
  <1>1. /\ d.ok /\ p.class \in {"CreateStream", "FMLEStart"} => p.tid \in Ids(m) /\ p.tid \in AllIds
        /\ p.fields[1].s \in Streams
    BY ONLY Decoded, m \in Messages, d = decode_message[m], Zenon
  <1>2. \A i : Batch(<< >>, i) /\ AnswerIds(<< >>) = {}
    BY NoAnswer DEF AnswerIds, Answers
  <1>3. ASSUME NEW pc \in {"identify", "identify_create_stream"}, NEW type \in {"play", "flash"},
               Receive(c, pc), Identified(c, type, p.fields[1].s, << >>)
        PROVE  Handled(c, m)
    <2>1. pc \notin Holding /\ type \in {"play", "fmle", "flash"}
      BY ONLY <1>3 DEF Holding
    <2>2. Batch(<< >>, 0) /\ AnswerIds(<< >>) = {}
      BY ONLY <1>2
    <2> QED
      BY ONLY <1>1, <1>3, <2>1, <2>2, Identifies, TypeOK, c \in Conns, Zenon
  <1>4. CASE Identify(c, m, d)
    <2>1. Receive(c, "identify") /\ "identify" \notin Holding /\ "identify" # "handshake"
      BY ONLY <1>4 DEF Identify, Holding
    <2>2. \/ Stay \/ Fail(c)
          \/ d.ok /\ p.class = "CreateStream" /\ CreateStream(c, p.tid, 3)
          \/ d.ok /\ p.class = "FMLEStart"
               /\ Identified(c, "fmle", p.fields[1].s, <<Result("FMLEStartRes", p.tid, << >>)>>)
          \/ Identified(c, "play", p.fields[1].s, << >>)
      BY ONLY <1>4 DEF Identify
    <2>3. ASSUME Stay PROVE Handled(c, m)
      BY ONLY <2>1, <2>3, Stays, TypeOK, c \in Conns
    <2>4. ASSUME Fail(c) PROVE Handled(c, m)
      BY ONLY <2>1, <2>4, Fails, TypeOK, c \in Conns
    <2>5. ASSUME d.ok, p.class = "CreateStream", CreateStream(c, p.tid, 3) PROVE Handled(c, m)
      <3>1. p.tid \in Ids(m) /\ p.tid \in AllIds /\ 3 \in Int
        BY ONLY <1>1, <2>5
      <3> QED
        BY ONLY <2>1, <2>5, <3>1, CreatesStream, TypeOK, c \in Conns
    <2>6. ASSUME d.ok, p.class = "FMLEStart",
                 Identified(c, "fmle", p.fields[1].s, <<Result("FMLEStartRes", p.tid, << >>)>>)
          PROVE  Handled(c, m)
      <3>1. p.tid \in Ids(m) /\ p.tid \in AllIds
        BY ONLY <1>1, <2>6
      <3>2. Batch(<<Result("FMLEStartRes", p.tid, << >>)>>, p.tid)
        BY ONLY <3>1, ResultReplies
      <3>3. "fmle" \in {"play", "fmle", "flash"} /\ "fmle" # "play"
        OBVIOUS
      <3> QED
        BY ONLY <1>1, <2>1, <2>6, <3>1, <3>2, <3>3, Identifies, TypeOK, c \in Conns, Zenon
    <2>7. ASSUME Identified(c, "play", p.fields[1].s, << >>) PROVE Handled(c, m)
      BY ONLY <2>1, <2>7, <1>3
    <2> QED
      BY ONLY <2>2, <2>3, <2>4, <2>5, <2>6, <2>7, Zenon
  <1>5. CASE IdentifyCreateStream(c, m, d)
    <2>1. Receive(c, "identify_create_stream") /\ "identify_create_stream" \notin Holding
            /\ "identify_create_stream" # "handshake"
      BY ONLY <1>5 DEF IdentifyCreateStream, Holding
    <2>2. \/ Stay \/ Fail(c)
          \/ d.ok /\ p.class = "CreateStream" /\ CreateStream(c, p.tid, srv[c].depth - 1)
          \/ Identified(c, "flash", p.fields[1].s, << >>)
          \/ Identified(c, "play", p.fields[1].s, << >>)
      BY ONLY <1>5 DEF IdentifyCreateStream
    <2>3. ASSUME Stay PROVE Handled(c, m)
      BY ONLY <2>1, <2>3, Stays, TypeOK, c \in Conns
    <2>4. ASSUME Fail(c) PROVE Handled(c, m)
      BY ONLY <2>1, <2>4, Fails, TypeOK, c \in Conns
    <2>5. ASSUME d.ok, p.class = "CreateStream", CreateStream(c, p.tid, srv[c].depth - 1) PROVE Handled(c, m)
      <3>1. p.tid \in Ids(m) /\ p.tid \in AllIds
        BY ONLY <1>1, <2>5
      <3>2. srv[c].depth - 1 \in Int
        BY ONLY TypeOK, c \in Conns DEF TypeOK, ThreadType
      <3> QED
        BY ONLY <2>1, <2>5, <3>1, <3>2, CreatesStream, TypeOK, c \in Conns
    <2>6. ASSUME Identified(c, "flash", p.fields[1].s, << >>) PROVE Handled(c, m)
      BY ONLY <2>1, <2>6, <1>3
    <2>7. ASSUME Identified(c, "play", p.fields[1].s, << >>) PROVE Handled(c, m)
      BY ONLY <2>1, <2>7, <1>3
    <2> QED
      BY ONLY <2>2, <2>3, <2>4, <2>5, <2>6, <2>7, Zenon
  <1> QED
    BY ONLY <1>4, <1>5, Identify(c, m, d) \/ IdentifyCreateStream(c, m, d)

LEMMA MediaStep ==
    ASSUME TypeOK, NEW c \in Conns, NEW m \in Messages, NEW d, d = decode_message[m],
           Publishing(c, m, d) \/ Playing(c, m, d)
    PROVE  Handled(c, m)
  <1>1. CASE Playing(c, m, d)
    <2>1. Receive(c, "playing") /\ "playing" \notin Holding /\ "playing" # "handshake" /\ (Fail(c) \/ Stay)
      BY ONLY <1>1 DEF Playing, Holding
    <2> QED
      BY ONLY <2>1, Fails, Stays, TypeOK, c \in Conns
  <1>2. CASE Publishing(c, m, d)
    <2>1. Receive(c, "publishing") /\ "publishing" # "handshake"
      BY ONLY <1>2 DEF Publishing
    <2>2. \/ Goto(c, "release") /\ outq' = outq /\ UNCHANGED <<sources, served>>
          \/ /\ d.ok /\ d.packet.class = "FMLEStart" /\ Send(c, fmle_unpublish(d.packet.tid))
             /\ Goto(c, "republish") /\ UNCHANGED <<sources, served>>
          \/ Stay
      BY ONLY <1>2 DEF Publishing
    <2>3. ASSUME Stay PROVE Handled(c, m)
      BY ONLY <2>1, <2>3, Stays, TypeOK, c \in Conns
    <2>4. /\ "release" \in Pcs \ {"handshake"} /\ "release" \in Holding /\ "release" \notin Claiming
          /\ "republish" \in Pcs \ {"handshake"} /\ "republish" \in Holding /\ "republish" \notin Claiming
          /\ "publishing" \in Holding
      BY DEF Pcs, Holding, Claiming
    <2>5. ASSUME Goto(c, "release"), outq' = outq, UNCHANGED <<sources, served>> PROVE Handled(c, m)
      <3>1. srv[c].pc = "publishing"
        BY ONLY <2>1 DEF Receive, At
      <3>2. \E t : Moves(c, t)
        BY ONLY <2>4, <2>5, <3>1, MovesOn, TypeOK, c \in Conns
      <3>3. Sends(c, m, << >>)
        BY ONLY <2>1, <2>5, SendsNothing, TypeOK, c \in Conns
      <3> QED
        BY ONLY <3>2, <3>3, Zenon DEF Handled
    <2>6. ASSUME d.ok, d.packet.class = "FMLEStart", Send(c, fmle_unpublish(d.packet.tid)),
                 Goto(c, "republish"), UNCHANGED <<sources, served>>
          PROVE  Handled(c, m)
      <3>1. d.packet.tid \in Ids(m) /\ d.packet.tid \in AllIds
        BY ONLY <2>6, Decoded, m \in Messages, d = decode_message[m]
      <3>2. Batch(fmle_unpublish(d.packet.tid), d.packet.tid)
        BY ONLY <3>1, ResultReplies
      <3> QED
        BY ONLY <2>1, <2>4, <2>6, <3>1, <3>2, RepliesAndMoves, TypeOK, c \in Conns, Zenon
    <2> QED
      BY ONLY <2>2, <2>3, <2>5, <2>6, Zenon
  <1> QED
    BY ONLY <1>1, <1>2, Publishing(c, m, d) \/ Playing(c, m, d)

\* Whatever the thread does with a message.
LEMMA HandleStep ==
    ASSUME TypeOK, NEW c \in Conns, NEW m \in Messages, NEW d, d = decode_message[m],
           open[c] /\ At(c, "handshake") => 0 \in Ids(m),
           Handle(c, m, d)
    PROVE  Handled(c, m)
  <1>1. ASSUME HandshakeC0C1(c, m) PROVE Handled(c, m)
    <2>1. open[c] => 0 \in Ids(m)
      BY ONLY <1>1, open[c] /\ At(c, "handshake") => 0 \in Ids(m) DEF HandshakeC0C1, Receive
    <2> QED
      BY ONLY <1>1, <2>1, HandshakeStep, TypeOK, c \in Conns
  <1>2. ASSUME HandshakeC2(c) PROVE Handled(c, m)
    <2>1. At(c, "c2") /\ srv[c].pc = "c2" /\ Goto(c, "connect") /\ UNCHANGED <<sources, served>> /\ outq' = outq
            /\ Receive(c, "c2")
      BY ONLY <1>2 DEF HandshakeC2, Receive, At
    <2>2. "connect" \in Pcs \ {"handshake"}
      BY DEF Pcs
    <2>3. \E t : Moves(c, t)
      BY ONLY <2>1, <2>2, MovesOn, TypeOK, c \in Conns DEF Holding, Claiming
    <2>4. Sends(c, m, << >>)
      BY ONLY <2>1, SendsNothing, TypeOK, c \in Conns
    <2> QED
      BY ONLY <2>3, <2>4, Zenon DEF Handled
  <1>3. ASSUME ConnectApp(c, d) \/ StartFcPublish(c, d) \/ StartCreateStream(c, d) \/ StartPublish(c, d)
        PROVE  Handled(c, m)
    BY ONLY <1>3, ExpectStep, TypeOK, c \in Conns, m \in Messages, d = decode_message[m]
  <1>4. ASSUME Identify(c, m, d) \/ IdentifyCreateStream(c, m, d) PROVE Handled(c, m)
    BY ONLY <1>4, IdentifyStep, TypeOK, c \in Conns, m \in Messages, d = decode_message[m]
  <1>5. ASSUME Publishing(c, m, d) \/ Playing(c, m, d) PROVE Handled(c, m)
    BY ONLY <1>5, MediaStep, TypeOK, c \in Conns, m \in Messages, d = decode_message[m]
  <1> QED
    BY ONLY <1>1, <1>2, <1>3, <1>4, <1>5, Handle(c, m, d) DEF Handle

-----------------------------------------------------------------------------
(* The invariant is preserved.                                                *)

\* Peers and threads that a step does not touch keep what they have.
LEMMA AnswerFrame ==
    ASSUME NEW c \in Conns, AnswerInv(c),
           script'[c] = script[c], sent'[c] = sent[c], open'[c] = open[c], asked'[c] = asked[c],
           inq'[c] = inq[c], outq'[c] = outq[c],
           srv'[c].pc = "handshake" => srv[c].pc = "handshake"
    PROVE  AnswerInv(c)'
  BY DEF AnswerInv, AskedIds

\* Who holds what does not depend on where the other threads are.
LEMMA HolderMoves ==
    ASSUME TypeOK, HolderInv, NEW c \in Conns, NEW t, Moves(c, t)
    PROVE  HolderInv'
  <1>0. NULL \notin Conns
    BY RtmpSessionAssumption
  <1>1. /\ srv \in [Conns -> ThreadType] /\ srv' = [srv EXCEPT ![c] = t]
        /\ sources \in [DOMAIN sources -> Conns \cup {NULL}]
    BY ONLY TypeOK, Moves(c, t) DEF TypeOK, Moves
  <1>2. srv'[c] = t /\ \A k \in Conns : k # c => srv'[k] = srv[k]
    BY ONLY <1>1
  <1>3. CASE /\ sources' = sources /\ t.stream = srv[c].stream
             /\ t.pc \in Holding <=> srv[c].pc \in Holding
             /\ t.pc \in Claiming => srv[c].pc \in Claiming
    BY ONLY <1>2, <1>3, HolderInv DEF HolderInv
  <1>4. CASE /\ sources' = fetch_or_create(t.stream)
             /\ srv[c].pc \notin Holding /\ t.pc \notin Holding
    <2>1. /\ DOMAIN sources' = DOMAIN sources \cup {t.stream}
          /\ \A s \in DOMAIN sources' : sources'[s] = IF s \in DOMAIN sources THEN sources[s] ELSE NULL
      BY ONLY <1>4 DEF fetch_or_create
    <2> QED
      BY ONLY <1>0, <1>2, <1>4, <2>1, HolderInv DEF HolderInv
  <1> QED
    BY ONLY <1>3, <1>4, Moves(c, t) DEF Moves

LEMMA TypeMoves ==
    ASSUME TypeOK, NEW c \in Conns, NEW m, NEW t, NEW ps, Moves(c, t), Sends(c, m, ps), inq[c] # << >>
    PROVE  TypeOK'
  <1>1. /\ script' \in [Conns -> DOMAIN Script] /\ sent' \in [Conns -> Nat]
        /\ \A k \in Conns : sent'[k] <= Len(Script[script'[k]])
        /\ polite' \in [Conns -> BOOLEAN] /\ open' \in [Conns -> BOOLEAN]
        /\ asked' \in [Conns -> SUBSET UNION {Requests(k) : k \in Messages}]
        /\ noise' \in Nat
    BY ONLY TypeOK, Sends(c, m, ps) DEF TypeOK, Sends, peerVars
  <1>2. inq' \in [Conns -> Seq(Messages)]
    <2>1. inq \in [Conns -> Seq(Messages)] /\ inq' = [inq EXCEPT ![c] = Tail(@)]
      BY ONLY TypeOK, Sends(c, m, ps) DEF TypeOK, Sends
    <2>2. Tail(inq[c]) \in Seq(Messages)
      BY ONLY <2>1, inq[c] # << >>, c \in Conns
    <2> QED
      BY ONLY <2>1, <2>2
  <1>3. outq' \in [Conns -> Seq(Replies)]
    <2>1. outq \in [Conns -> Seq(Replies)] /\ ps \in Seq(Replies)
            /\ outq' = [outq EXCEPT ![c] = IF open[c] THEN @ \o ps ELSE @]
      BY ONLY TypeOK, Sends(c, m, ps) DEF TypeOK, Sends
    <2>2. outq[c] \o ps \in Seq(Replies)
      BY ONLY <2>1, c \in Conns
    <2> QED
      BY ONLY <2>1, <2>2
  <1>4. srv' \in [Conns -> ThreadType] /\ served' \in [Conns -> {"yet", "served", "refused", "any"}]
    BY ONLY TypeOK, Moves(c, t) DEF TypeOK, Moves
  <1>5. sources' \in [DOMAIN sources' -> Conns \cup {NULL}]
    <2>1. sources \in [DOMAIN sources -> Conns \cup {NULL}]
      BY ONLY TypeOK DEF TypeOK
    <2>2. sources' = sources \/ sources' = fetch_or_create(t.stream)
      BY ONLY Moves(c, t) DEF Moves
    <2> QED
      BY ONLY <2>1, <2>2 DEF fetch_or_create
  <1> QED
    BY ONLY <1>1, <1>2, <1>3, <1>4, <1>5 DEF TypeOK

\* A request is answered at most once: what is under way is about others.
LEMMA AnswerMoves ==
    ASSUME TypeOK, NEW c \in Conns, NEW m, NEW t, NEW ps, Moves(c, t), Sends(c, m, ps),
           inq[c] # << >>, m = Head(inq[c]), AnswerInv(c)
    PROVE  AnswerInv(c)'
  <1>1. /\ script'[c] = script[c] /\ sent'[c] = sent[c] /\ open'[c] = open[c] /\ asked'[c] = asked[c]
        /\ ps \in Seq(Replies)
        /\ open[c] => Distinct(ps) /\ AnswerIds(ps) \subseteq Ids(m)
    BY ONLY Sends(c, m, ps) DEF Sends, peerVars
  <1>2. inq \in [Conns -> Seq(Messages)] /\ outq \in [Conns -> Seq(Replies)] /\ srv \in [Conns -> ThreadType]
    BY ONLY TypeOK DEF TypeOK
  <1>3. inq'[c] = Tail(inq[c]) /\ (open[c] => outq'[c] = outq[c] \o ps) /\ (~open[c] => outq'[c] = outq[c])
    BY ONLY <1>2, c \in Conns, Sends(c, m, ps) DEF Sends
  <1>4. srv'[c].pc # "handshake"
    BY ONLY <1>2, c \in Conns, Moves(c, t) DEF Moves
  <1>5. CASE ~open[c]
    BY ONLY <1>1, <1>3, <1>5, AnswerInv(c) DEF AnswerInv
  <1>6. CASE open[c]
    <2> DEFINE q == inq[c]
               o == outq[c]
    <2>1. /\ AnswerIds(o) \subseteq AskedIds(c)
          /\ Distinct(o)
          /\ \A i \in DOMAIN q : Ids(q[i]) \subseteq AskedIds(c) \ AnswerIds(o)
          /\ \A i, j \in DOMAIN q : i # j => Ids(q[i]) \cap Ids(q[j]) = {}
          /\ \A k \in DOMAIN Script[script[c]] :
                k > sent[c] => Ids(Script[script[c]][k]) \cap AskedIds(c) = {}
      BY ONLY <1>6, AnswerInv(c) DEF AnswerInv
    <2>2. q \in Seq(Messages) /\ q # << >> /\ o \in Seq(Replies)
      BY ONLY <1>2, c \in Conns, inq[c] # << >>
    <2>3. m = q[1] /\ 1 \in DOMAIN q
      BY ONLY <2>2, m = Head(inq[c])
    <2>4. \A i \in DOMAIN Tail(q) : i + 1 \in DOMAIN q /\ i + 1 # 1 /\ Tail(q)[i] = q[i + 1] /\ i \in Int
      BY ONLY <2>2
    <2> HIDE DEF q, o
    <2>5. AnswerIds(ps) \subseteq Ids(q[1]) /\ Distinct(ps)
      BY ONLY <1>1, <1>6, <2>3
    <2>6. AnswerIds(o) \cap AnswerIds(ps) = {}
      BY ONLY <2>1, <2>3, <2>5
    <2>7. AnswerIds(o \o ps) = AnswerIds(o) \cup AnswerIds(ps) /\ Distinct(o \o ps)
      BY ONLY <2>1, <2>2, <2>5, <2>6, <1>1, AnswersConcat
    <2>8. AskedIds(c)' = AskedIds(c) /\ inq'[c] = Tail(q) /\ outq'[c] = o \o ps
      BY ONLY <1>1, <1>3, <1>6 DEF AskedIds, q, o
    <2>9. AnswerIds(o \o ps) \subseteq AskedIds(c)
      BY ONLY <2>1, <2>3, <2>5, <2>7
    <2>10. \A i \in DOMAIN Tail(q) : Ids(Tail(q)[i]) \subseteq AskedIds(c) \ AnswerIds(o \o ps)
      BY ONLY <2>1, <2>3, <2>4, <2>5, <2>7
    <2>11. \A i, j \in DOMAIN Tail(q) : i # j => Ids(Tail(q)[i]) \cap Ids(Tail(q)[j]) = {}
      <3> SUFFICES ASSUME NEW i \in DOMAIN Tail(q), NEW j \in DOMAIN Tail(q), i # j
                   PROVE  Ids(Tail(q)[i]) \cap Ids(Tail(q)[j]) = {}
        OBVIOUS
      <3>1. i + 1 \in DOMAIN q /\ j + 1 \in DOMAIN q /\ i + 1 # j + 1
        BY ONLY <2>4, i \in DOMAIN Tail(q), j \in DOMAIN Tail(q), i # j
      <3>2. Ids(q[i + 1]) \cap Ids(q[j + 1]) = {}
        BY ONLY <3>1, <2>1
      <3> QED
        BY ONLY <3>2, <2>4, i \in DOMAIN Tail(q), j \in DOMAIN Tail(q)
    <2> QED
      BY ONLY <1>1, <1>4, <1>6, <2>1, <2>7, <2>8, <2>9, <2>10, <2>11 DEF AnswerInv
  <1> QED
    BY ONLY <1>5, <1>6

LEMMA HandledInv ==
    ASSUME IInv, NEW c \in Conns, inq[c] # << >>,
           Handle(c, Head(inq[c]), decode_message[Head(inq[c])]) \/ IgnoreEmpty(c)
    PROVE  IInv'
  <1> DEFINE m == Head(inq[c])
  <1>1. TypeOK /\ HolderInv /\ \A k \in Conns : AnswerInv(k)
    BY ONLY IInv DEF IInv
  <1>2. inq[c] \in Seq(Messages) /\ m \in Messages
    BY ONLY <1>1, c \in Conns, inq[c] # << >> DEF TypeOK
  <1>3. open[c] /\ At(c, "handshake") => 0 \in Ids(m)
    <2>1. open[c] /\ At(c, "handshake") =>
             Script[script[c]] # << >> /\ m = Script[script[c]][1]
      BY ONLY <1>1, c \in Conns, inq[c] # << >> DEF AnswerInv, At
    <2>2. script[c] \in DOMAIN Script
      BY ONLY <1>1, c \in Conns DEF TypeOK
    <2> QED
      BY ONLY <2>1, <2>2, PeersAssumption
  <1>4. Handled(c, m)
    <2>1. CASE Handle(c, Head(inq[c]), decode_message[Head(inq[c])])
      BY ONLY <2>1, <1>1, <1>2, <1>3, HandleStep, c \in Conns
    <2>2. CASE IgnoreEmpty(c)
      <3>1. PICK pc \in Blocking \ {"handshake", "c2"} : Receive(c, pc) /\ Stay
        BY ONLY <2>2, Zenon DEF IgnoreEmpty
      <3>2. pc # "handshake"
        BY ONLY pc \in Blocking \ {"handshake", "c2"}
      <3> QED
        BY ONLY <3>1, <3>2, <1>1, c \in Conns, Stays
    <2> QED
      BY ONLY <2>1, <2>2, Handle(c, Head(inq[c]), decode_message[Head(inq[c])]) \/ IgnoreEmpty(c)
  <1>5. PICK t, ps : Moves(c, t) /\ Sends(c, m, ps)
    BY ONLY <1>4, Zenon DEF Handled
  <1>6. TypeOK'
    BY ONLY <1>1, <1>5, TypeMoves, c \in Conns, inq[c] # << >>
  <1>7. HolderInv'
    BY ONLY <1>1, <1>5, HolderMoves, c \in Conns
  <1>8. ASSUME NEW k \in Conns PROVE AnswerInv(k)'
    <2>1. CASE k = c
      BY ONLY <2>1, <1>1, <1>5, AnswerMoves, c \in Conns, inq[c] # << >>
    <2>2. CASE k # c
      <3>1. /\ script'[k] = script[k] /\ sent'[k] = sent[k] /\ open'[k] = open[k] /\ asked'[k] = asked[k]
            /\ inq'[k] = inq[k] /\ outq'[k] = outq[k] /\ srv'[k] = srv[k]
        BY ONLY <1>1, <1>5, <2>2, k \in Conns, c \in Conns DEF TypeOK, Sends, Moves, peerVars
      <3> QED
        BY ONLY <3>1, <1>1, k \in Conns, AnswerFrame
    <2> QED
      BY ONLY <2>1, <2>2
  <1> QED
    BY ONLY <1>6, <1>7, <1>8 DEF IInv

\* What the peers do is nothing the sources and the threads notice at once.
LEMMA PeerFrame ==
    ASSUME IInv, NEW c \in Conns, UNCHANGED <<script, srv, sources>>,
           \A k \in Conns \ {c} : /\ sent'[k] = sent[k] /\ open'[k] = open[k] /\ asked'[k] = asked[k]
                                  /\ inq'[k] = inq[k] /\ outq'[k] = outq[k],
           TypeOK', AnswerInv(c)'
    PROVE  IInv'
  <1>1. HolderInv'
    BY ONLY IInv, UNCHANGED <<script, srv, sources>> DEF IInv, HolderInv
  <1>2. ASSUME NEW k \in Conns PROVE AnswerInv(k)'
    <2>1. CASE k = c
      BY ONLY <2>1, AnswerInv(c)'
    <2>2. CASE k # c
      <3>1. /\ script'[k] = script[k] /\ sent'[k] = sent[k] /\ open'[k] = open[k] /\ asked'[k] = asked[k]
            /\ inq'[k] = inq[k] /\ outq'[k] = outq[k] /\ srv'[k] = srv[k] /\ AnswerInv(k)
        BY ONLY <2>2, k \in Conns, IInv, UNCHANGED <<script, srv, sources>>,
           \A x \in Conns \ {c} : /\ sent'[x] = sent[x] /\ open'[x] = open[x] /\ asked'[x] = asked[x]
                                  /\ inq'[x] = inq[x] /\ outq'[x] = outq[x] DEF IInv
      <3> QED
        BY ONLY <3>1, k \in Conns, AnswerFrame
    <2> QED
      BY ONLY <2>1, <2>2
  <1> QED
    BY ONLY <1>1, <1>2, TypeOK' DEF IInv

LEMMA AppendHead ==
    ASSUME NEW T, NEW q \in Seq(T), NEW x \in T
    PROVE  /\ Append(q, x) # << >>
           /\ q = << >> => Head(Append(q, x)) = x
           /\ q # << >> => Head(Append(q, x)) = Head(q)
  <1>1. Len(Append(q, x)) = Len(q) + 1 /\ Len(q) \in Nat
    OBVIOUS
  <1>2. Append(q, x) # << >>
    BY ONLY <1>1
  <1>3. Append(q, x) \in Seq(T)
    OBVIOUS
  <1>4. Head(Append(q, x)) = Append(q, x)[1]
    BY ONLY <1>2, <1>3
  <1>5. ASSUME q = << >> PROVE Append(q, x)[1] = x
    <2>1. Len(q) = 0
      BY ONLY <1>5
    <2> QED
      BY ONLY <2>1, q \in Seq(T)
  <1>6. ASSUME q # << >> PROVE Append(q, x)[1] = Head(q)
    <2>1. 1 \in 1..Len(q) /\ Head(q) = q[1]
      BY ONLY <1>6, q \in Seq(T)
    <2> QED
      BY ONLY <2>1, q \in Seq(T)
  <1> QED
    BY ONLY <1>2, <1>4, <1>5, <1>6

\* A peer asks with an id that it has not used.
LEMMA PeerSendInv ==
    ASSUME IInv, NEW c \in Conns, PeerSend(c)
    PROVE  IInv'
  <1> DEFINE S == Script[script[c]]
             m == S[sent[c] + 1]
             q == inq[c]
  <1>1. TypeOK /\ AnswerInv(c)
    BY ONLY IInv, c \in Conns DEF IInv
  <1>2. /\ open[c] /\ sent[c] # Len(S)
        /\ sent' = [sent EXCEPT ![c] = @ + 1]
        /\ inq' = [inq EXCEPT ![c] = Append(@, m)]
        /\ asked' = [asked EXCEPT ![c] = @ \cup Requests(m)]
        /\ UNCHANGED <<script, polite, open, noise, outq, srv, sources, served>>
    BY ONLY PeerSend(c) DEF PeerSend, Connected, Done
  <1>3. /\ script[c] \in DOMAIN Script /\ sent[c] \in Nat /\ sent[c] <= Len(S) /\ q \in Seq(Messages)
        /\ sent \in [Conns -> Nat] /\ asked \in [Conns -> SUBSET UNION {Requests(k) : k \in Messages}]
        /\ inq \in [Conns -> Seq(Messages)]
    BY ONLY <1>1, c \in Conns DEF TypeOK
  <1>4. S \in Seq(Messages) /\ Len(S) \in Nat /\ DOMAIN S = 1..Len(S)
    BY ONLY <1>3, RtmpSessionAssumption
  <1>5. sent[c] + 1 \in DOMAIN S /\ m \in Messages
    <2>1. sent[c] + 1 \in 1..Len(S)
      BY ONLY <1>2, <1>3, <1>4
    <2> QED
      BY ONLY <2>1, <1>4
  <1>6. TypeOK'
    <2>1. inq' \in [Conns -> Seq(Messages)]
      BY ONLY <1>2, <1>3, <1>5
    <2>2. sent' \in [Conns -> Nat] /\ \A k \in Conns : sent'[k] <= Len(Script[script[k]])
      BY ONLY <1>1, <1>2, <1>3, <1>4, <1>5 DEF TypeOK
    <2>3. asked' \in [Conns -> SUBSET UNION {Requests(k) : k \in Messages}]
      <3>1. Requests(m) \subseteq UNION {Requests(k) : k \in Messages}
        BY ONLY <1>5, Zenon
      <3> QED
        BY ONLY <3>1, <1>2, <1>3
    <2> QED
      BY ONLY <1>1, <1>2, <2>1, <2>2, <2>3 DEF TypeOK
  <1> DEFINE A == AskedIds(c)
             o == outq[c]
             r == Append(q, m)
  <1>7. /\ AnswerIds(o) \subseteq A
        /\ Distinct(o)
        /\ \A i \in DOMAIN q : Ids(q[i]) \subseteq A \ AnswerIds(o)
        /\ \A i, j \in DOMAIN q : i # j => Ids(q[i]) \cap Ids(q[j]) = {}
        /\ \A k \in DOMAIN S : k > sent[c] => Ids(S[k]) \cap A = {}
        /\ srv[c].pc = "handshake" =>
              IF q = << >> THEN sent[c] = 0 ELSE S # << >> /\ Head(q) = S[1]
    BY ONLY <1>1, <1>2 DEF AnswerInv
  <1>8. AskedIds(c)' = A \cup Ids(m)
    <2>1. asked'[c] = asked[c] \cup Requests(m)
      BY ONLY <1>2, <1>3, c \in Conns
    <2> QED
      BY ONLY <2>1 DEF AskedIds, Ids
  <1>9. /\ inq'[c] = r /\ sent'[c] = sent[c] + 1 /\ outq'[c] = o /\ script'[c] = script[c]
        /\ srv'[c].pc = srv[c].pc /\ open'[c]
    BY ONLY <1>2, <1>3, c \in Conns
  <1>10. Ids(m) \cap A = {}
    <2> DEFINE n == sent[c] + 1
    <2>1. n \in DOMAIN S /\ n > sent[c]
      BY ONLY <1>3, <1>5
    <2> HIDE DEF n
    <2>2. Ids(S[n]) \cap A = {}
      BY ONLY <2>1, <1>7
    <2> QED
      BY ONLY <2>2 DEF n
  <1>11. \A k \in DOMAIN S : k > sent[c] + 1 => Ids(S[k]) \cap (A \cup Ids(m)) = {}
    <2>1. \A i, j \in DOMAIN S : i # j => Ids(S[i]) \cap Ids(S[j]) = {}
      BY ONLY PeersAssumption, <1>3
    <2>2. \A k \in DOMAIN S : k > sent[c] + 1 => k > sent[c] /\ k # sent[c] + 1
      BY ONLY <1>3, <1>4
    <2>3. \A k \in DOMAIN S : k > sent[c] + 1 => Ids(S[k]) \cap Ids(m) = {}
      BY ONLY <2>1, <2>2, <1>5
    <2> QED
      BY ONLY <2>2, <2>3, <1>7
  <1>12. ASSUME srv[c].pc = "handshake" PROVE r # << >> /\ S # << >> /\ Head(r) = S[1]
    <2>1. r # << >> /\ S # << >> /\ (q = << >> => Head(r) = m) /\ (q # << >> => Head(r) = Head(q))
      <3>1. S # << >>
        BY ONLY <1>5, <1>4
      <3>2. r # << >> /\ (q = << >> => Head(r) = m) /\ (q # << >> => Head(r) = Head(q))
        <4>1. q \in Seq(Messages) /\ m \in Messages
          BY ONLY <1>3, <1>5
        <4> HIDE DEF q, m
        <4> QED
          BY ONLY <4>1, AppendHead
      <3> QED
        BY ONLY <3>1, <3>2
    <2>2. q = << >> => sent[c] + 1 = 1
      BY ONLY <1>7, <1>12
    <2> QED
      BY ONLY <2>1, <2>2, <1>7, <1>12
  <1>13. \A i \in DOMAIN r : (i \in DOMAIN q /\ r[i] = q[i]) \/ (i = Len(q) + 1 /\ r[i] = m)
    BY ONLY <1>3
  <1> HIDE DEF q, o, r, A, S, m
  <1>14. \A i \in DOMAIN r : Ids(r[i]) \subseteq (A \cup Ids(m)) \ AnswerIds(o)
    BY ONLY <1>7, <1>10, <1>13
  <1>15. \A i, j \in DOMAIN r : i # j => Ids(r[i]) \cap Ids(r[j]) = {}
    <2>1. \A i \in DOMAIN q : Ids(q[i]) \cap Ids(m) = {}
      BY ONLY <1>7, <1>10
    <2> QED
      BY ONLY <2>1, <1>7, <1>13
  <1>16. AnswerInv(c)'
    BY ONLY <1>7, <1>8, <1>9, <1>11, <1>12, <1>14, <1>15 DEF AnswerInv, S
  <1>17. \A k \in Conns \ {c} : /\ sent'[k] = sent[k] /\ open'[k] = open[k] /\ asked'[k] = asked[k]
                                /\ inq'[k] = inq[k] /\ outq'[k] = outq[k]
    BY ONLY <1>2, <1>3
  <1>18. UNCHANGED <<script, srv, sources>>
    BY ONLY <1>2
  <1> QED
    BY ONLY <1>6, <1>16, <1>17, <1>18, PeerFrame, IInv, c \in Conns

\* What is put in between asks for nothing.
LEMMA PeerNoiseInv ==
    ASSUME IInv, NEW c \in Conns, NEW m \in Noise, PeerNoise(c, m)
    PROVE  IInv'
  <1> DEFINE q == inq[c]
             r == Append(q, m)
  <1>1. TypeOK /\ AnswerInv(c)
    BY ONLY IInv, c \in Conns DEF IInv
  <1>2. /\ open[c] /\ srv[c].pc # "handshake"
        /\ noise' = noise + 1
        /\ inq' = [inq EXCEPT ![c] = Append(@, m)]
        /\ UNCHANGED <<script, sent, polite, asked, open, outq, srv, sources, served>>
    BY ONLY PeerNoise(c, m) DEF PeerNoise, Connected
  <1>3. q \in Seq(Messages) /\ inq \in [Conns -> Seq(Messages)]
    BY ONLY <1>1, c \in Conns DEF TypeOK
  <1>4. m \in Messages
    BY ONLY m \in Noise, Zenon DEF Messages
  <1>5. Ids(m) = {}
    BY ONLY m \in Noise, PeersAssumption
  <1>6. TypeOK'
    <2>1. inq' \in [Conns -> Seq(Messages)]
      BY ONLY <1>2, <1>3, <1>4
    <2>2. noise' \in Nat
      BY ONLY <1>1, <1>2 DEF TypeOK
    <2> QED
      BY ONLY <1>1, <1>2, <2>1, <2>2 DEF TypeOK
  <1>7. inq'[c] = r
    BY ONLY <1>2, <1>3, c \in Conns
  <1>8. \A i \in DOMAIN r : (i \in DOMAIN q /\ r[i] = q[i]) \/ r[i] = m
    BY ONLY <1>3
  <1> HIDE DEF r
  <1>9. AnswerInv(c)'
    <2>1. /\ AnswerIds(outq[c]) \subseteq AskedIds(c)
          /\ Distinct(outq[c])
          /\ \A i \in DOMAIN q : Ids(q[i]) \subseteq AskedIds(c) \ AnswerIds(outq[c])
          /\ \A i, j \in DOMAIN q : i # j => Ids(q[i]) \cap Ids(q[j]) = {}
          /\ \A k \in DOMAIN Script[script[c]] :
                k > sent[c] => Ids(Script[script[c]][k]) \cap AskedIds(c) = {}
      BY ONLY <1>1, <1>2 DEF AnswerInv
    <2>2. AskedIds(c)' = AskedIds(c) /\ outq'[c] = outq[c] /\ script' = script /\ sent' = sent /\ open' = open
            /\ srv' = srv
      BY ONLY <1>2 DEF AskedIds
    <2> HIDE DEF q
    <2>3. /\ \A i \in DOMAIN r : Ids(r[i]) \subseteq AskedIds(c) \ AnswerIds(outq[c])
          /\ \A i, j \in DOMAIN r : i # j => Ids(r[i]) \cap Ids(r[j]) = {}
      BY ONLY <2>1, <1>5, <1>8
    <2> QED
      BY ONLY <2>1, <2>2, <2>3, <1>2, <1>7 DEF AnswerInv
  <1>10. \A k \in Conns \ {c} : /\ sent'[k] = sent[k] /\ open'[k] = open[k] /\ asked'[k] = asked[k]
                                /\ inq'[k] = inq[k] /\ outq'[k] = outq[k]
    BY ONLY <1>2, <1>3
  <1>11. UNCHANGED <<script, srv, sources>>
    BY ONLY <1>2
  <1> QED
    BY ONLY <1>6, <1>9, <1>10, <1>11, PeerFrame, IInv, c \in Conns

\* A peer that reads an answer waits for it no more.
LEMMA PeerRecvInv ==
    ASSUME IInv, NEW c \in Conns, PeerRecv(c)
    PROVE  IInv'
  <1>1. TypeOK /\ AnswerInv(c)
    BY ONLY IInv, c \in Conns DEF IInv
  <1>2. /\ open[c]
        /\ asked' = [asked EXCEPT ![c] = @ \ Answered(c)]
        /\ outq' = [outq EXCEPT ![c] = << >>]
        /\ UNCHANGED <<script, sent, polite, open, noise, inq, srv, sources, served>>
    BY ONLY PeerRecv(c) DEF PeerRecv
  <1>3. /\ asked \in [Conns -> SUBSET UNION {Requests(k) : k \in Messages}]
        /\ outq \in [Conns -> Seq(Replies)]
    BY ONLY <1>1 DEF TypeOK
  <1>4. asked'[c] = asked[c] \ Answered(c) /\ outq'[c] = << >>
    BY ONLY <1>2, <1>3, c \in Conns
  <1>5. TypeOK'
    <2>1. outq' \in [Conns -> Seq(Replies)]
      BY ONLY <1>2, <1>3
    <2>2. asked' \in [Conns -> SUBSET UNION {Requests(k) : k \in Messages}]
      BY ONLY <1>2, <1>3
    <2> QED
      BY ONLY <1>1, <1>2, <2>1, <2>2 DEF TypeOK
  <1>6. AskedIds(c) \ AnswerIds(outq[c]) \subseteq AskedIds(c)'
    <2> SUFFICES ASSUME NEW q \in asked[c], q[1] \notin AnswerIds(outq[c])
                 PROVE  q[1] \in AskedIds(c)'
      BY DEF AskedIds
    <2>1. q \notin Answered(c)
      BY ONLY q[1] \notin AnswerIds(outq[c]) DEF Answered, AnswerIds, Answers, IsAnswer
    <2> QED
      BY ONLY <2>1, <1>4, q \in asked[c] DEF AskedIds
  <1>7. AskedIds(c)' \subseteq AskedIds(c)
    BY ONLY <1>4 DEF AskedIds
  <1>8. AnswerIds(<< >>) = {} /\ Distinct(<< >>)
    BY DEF AnswerIds, Answers, Distinct
  <1>9. AnswerInv(c)'
    <2>1. /\ \A i \in DOMAIN inq[c] : Ids(inq[c][i]) \subseteq AskedIds(c) \ AnswerIds(outq[c])
          /\ \A i, j \in DOMAIN inq[c] : i # j => Ids(inq[c][i]) \cap Ids(inq[c][j]) = {}
          /\ \A k \in DOMAIN Script[script[c]] :
                k > sent[c] => Ids(Script[script[c]][k]) \cap AskedIds(c) = {}
          /\ srv[c].pc = "handshake" =>
               IF inq[c] = << >> THEN sent[c] = 0
               ELSE Script[script[c]] # << >> /\ Head(inq[c]) = Script[script[c]][1]
      BY ONLY <1>1, <1>2 DEF AnswerInv
    <2>2. inq' = inq /\ script' = script /\ sent' = sent /\ open' = open /\ srv' = srv
      BY ONLY <1>2
    <2>3. \A i \in DOMAIN inq[c] : Ids(inq[c][i]) \subseteq AskedIds(c)'
      BY ONLY <2>1, <1>6
    <2>4. \A k \in DOMAIN Script[script[c]] :
                k > sent[c] => Ids(Script[script[c]][k]) \cap AskedIds(c)' = {}
      BY ONLY <2>1, <1>7
    <2> QED
      BY ONLY <1>2, <1>4, <1>8, <2>1, <2>2, <2>3, <2>4 DEF AnswerInv
  <1>10. \A k \in Conns \ {c} : /\ sent'[k] = sent[k] /\ open'[k] = open[k] /\ asked'[k] = asked[k]
                                /\ inq'[k] = inq[k] /\ outq'[k] = outq[k]
    BY ONLY <1>2, <1>3
  <1>11. UNCHANGED <<script, srv, sources>>
    BY ONLY <1>2
  <1> QED
    BY ONLY <1>5, <1>9, <1>10, <1>11, PeerFrame, IInv, c \in Conns

LEMMA PeerCloseInv ==
    ASSUME IInv, NEW c \in Conns, PeerClose(c)
    PROVE  IInv'
  <1>1. TypeOK /\ AnswerInv(c)
    BY ONLY IInv, c \in Conns DEF IInv
  <1>2. /\ open' = [open EXCEPT ![c] = FALSE]
        /\ sent' = [sent EXCEPT ![c] = Len(Script[script[c]])]
        /\ asked' = [asked EXCEPT ![c] = {}]
        /\ outq' = [outq EXCEPT ![c] = << >>]
        /\ UNCHANGED <<script, polite, noise, inq, srv, sources, served>>
    BY ONLY PeerClose(c) DEF PeerClose
  <1>3. /\ asked \in [Conns -> SUBSET UNION {Requests(k) : k \in Messages}]
        /\ outq \in [Conns -> Seq(Replies)] /\ open \in [Conns -> BOOLEAN] /\ sent \in [Conns -> Nat]
        /\ \A k \in Conns : sent[k] <= Len(Script[script[k]])
        /\ script[c] \in DOMAIN Script
    BY ONLY <1>1, c \in Conns DEF TypeOK
  <1>4. Len(Script[script[c]]) \in Nat
    BY ONLY <1>3, RtmpSessionAssumption
  <1>5. TypeOK'
    <2>1. outq' \in [Conns -> Seq(Replies)]
      BY ONLY <1>2, <1>3
    <2>2. asked' \in [Conns -> SUBSET UNION {Requests(k) : k \in Messages}]
      BY ONLY <1>2, <1>3
    <2>3. open' \in [Conns -> BOOLEAN]
      BY ONLY <1>2, <1>3
    <2>4. sent' \in [Conns -> Nat] /\ \A k \in Conns : sent'[k] <= Len(Script[script'[k]])
      BY ONLY <1>2, <1>3, <1>4
    <2> QED
      BY ONLY <1>1, <1>2, <2>1, <2>2, <2>3, <2>4 DEF TypeOK
  <1>6. AnswerInv(c)'
    BY ONLY <1>2, <1>3, c \in Conns DEF AnswerInv
  <1>7. \A k \in Conns \ {c} : /\ sent'[k] = sent[k] /\ open'[k] = open[k] /\ asked'[k] = asked[k]
                               /\ inq'[k] = inq[k] /\ outq'[k] = outq[k]
    BY ONLY <1>2, <1>3
  <1>8. UNCHANGED <<script, srv, sources>>
    BY ONLY <1>2
  <1> QED
    BY ONLY <1>5, <1>6, <1>7, <1>8, PeerFrame, IInv, c \in Conns

\* A step of a thread that reads no message: it may send packets that answer
\* nothing.
Quiet(c, ps) ==
    /\ UNCHANGED <<peerVars, inq>>
    /\ outq' = [outq EXCEPT ![c] = IF open[c] THEN @ \o ps ELSE @]
    /\ ps \in Seq(Replies) /\ AnswerIds(ps) = {} /\ Distinct(ps)

LEMMA QuietInv ==
    ASSUME TypeOK, NEW c \in Conns, NEW ps, Quiet(c, ps), NEW pc \in Pcs \ {"handshake"}, Goto(c, pc),
           sources' \in [DOMAIN sources' -> Conns \cup {NULL}],
           served' \in [Conns -> {"yet", "served", "refused", "any"}],
           \A k \in Conns : AnswerInv(k)
    PROVE  TypeOK' /\ \A k \in Conns : AnswerInv(k)'
  <1>1. /\ inq' = inq /\ UNCHANGED <<script, sent, polite, asked, open, noise>>
        /\ outq' = [outq EXCEPT ![c] = IF open[c] THEN @ \o ps ELSE @]
        /\ ps \in Seq(Replies) /\ AnswerIds(ps) = {} /\ Distinct(ps)
    BY ONLY Quiet(c, ps) DEF Quiet, peerVars
  <1>2. outq \in [Conns -> Seq(Replies)] /\ srv \in [Conns -> ThreadType] /\ outq[c] \in Seq(Replies)
    BY ONLY TypeOK, c \in Conns DEF TypeOK
  <1>3. srv' \in [Conns -> ThreadType] /\ srv'[c].pc # "handshake" /\ \A k \in Conns : k # c => srv'[k] = srv[k]
    <2> DEFINE t == [srv[c] EXCEPT !.pc = pc]
    <2>1. t \in ThreadType /\ t.pc = pc /\ srv' = [srv EXCEPT ![c] = t]
      BY ONLY ThreadAt, TypeOK, c \in Conns, pc \in Pcs \ {"handshake"}, Goto(c, pc)
    <2> HIDE DEF t
    <2> QED
      BY ONLY <1>2, <2>1, c \in Conns, pc \in Pcs \ {"handshake"}
  <1>4. outq' \in [Conns -> Seq(Replies)]
    <2>1. outq[c] \o ps \in Seq(Replies)
      BY ONLY <1>1, <1>2
    <2> QED
      BY ONLY <1>1, <1>2, <2>1
  <1>5. TypeOK'
    BY ONLY <1>1, <1>3, <1>4, TypeOK, sources' \in [DOMAIN sources' -> Conns \cup {NULL}],
       served' \in [Conns -> {"yet", "served", "refused", "any"}] DEF TypeOK
  <1>6. AnswerInv(c)'
    <2>1. (open[c] => outq'[c] = outq[c] \o ps) /\ (~open[c] => outq'[c] = outq[c])
      BY ONLY <1>1, <1>2, c \in Conns
    <2>2. Distinct(outq[c]) => AnswerIds(outq[c] \o ps) = AnswerIds(outq[c]) /\ Distinct(outq[c] \o ps)
      <3> DEFINE o == outq[c]
      <3> HIDE DEF o
      <3>1. o \in Seq(Replies)
        BY ONLY <1>2 DEF o
      <3>2. /\ AnswerIds(o \o ps) = AnswerIds(o) \cup AnswerIds(ps)
            /\ Distinct(o) /\ Distinct(ps) /\ AnswerIds(o) \cap AnswerIds(ps) = {} => Distinct(o \o ps)
        <4>1. ps \in Seq(Replies)
          BY ONLY <1>1
        <4> QED
          BY ONLY <3>1, <4>1, AnswersJoin, Zenon
      <3> QED
        BY ONLY <1>1, <3>2 DEF o
    <2>3. /\ AnswerInv(c) /\ inq' = inq /\ script' = script /\ sent' = sent /\ open' = open
          /\ AskedIds(c)' = AskedIds(c) /\ srv'[c].pc # "handshake"
      BY ONLY <1>1, <1>3, c \in Conns, \A k \in Conns : AnswerInv(k) DEF AskedIds
    <2>4. CASE open[c]
      <3>1. /\ AnswerIds(outq'[c]) = AnswerIds(outq[c]) /\ Distinct(outq'[c])
        BY ONLY <2>1, <2>2, <2>3, <2>4 DEF AnswerInv
      <3> QED
        BY ONLY <2>3, <2>4, <3>1 DEF AnswerInv
    <2>5. CASE ~open[c]
      BY ONLY <2>1, <2>3, <2>5 DEF AnswerInv
    <2> QED
      BY ONLY <2>4, <2>5
  <1>7. ASSUME NEW k \in Conns, k # c PROVE AnswerInv(k)'
    <2>1. /\ script'[k] = script[k] /\ sent'[k] = sent[k] /\ open'[k] = open[k] /\ asked'[k] = asked[k]
          /\ inq'[k] = inq[k] /\ outq'[k] = outq[k] /\ srv'[k] = srv[k] /\ AnswerInv(k)
      BY ONLY <1>1, <1>2, <1>3, <1>7, c \in Conns, \A x \in Conns : AnswerInv(x)
    <2> QED
      BY ONLY <2>1, k \in Conns, AnswerFrame
  <1> QED
    BY ONLY <1>5, <1>6, <1>7

LEMMA Silence ==
    ASSUME TypeOK, NEW c \in Conns, UNCHANGED <<peerVars, inq>>, outq' = outq
    PROVE  Quiet(c, << >>)
  <1>1. outq' = [outq EXCEPT ![c] = IF open[c] THEN @ \o << >> ELSE @]
    <2>1. outq \in [Conns -> Seq(Replies)]
      BY DEF TypeOK
    <2>2. outq[c] \o << >> = outq[c]
      BY ONLY <2>1, c \in Conns
    <2> QED
      BY ONLY <2>1, <2>2, outq' = outq
  <1>2. AnswerIds(<< >>) = {} /\ Distinct(<< >>) /\ << >> \in Seq(Replies)
    BY DEF AnswerIds, Answers, Distinct
  <1> QED
    BY ONLY <1>1, <1>2, UNCHANGED <<peerVars, inq>> DEF Quiet

\* A thread that moves without touching the sources, outside of any message.
LEMMA QuietMove ==
    ASSUME IInv, NEW c \in Conns, NEW pc \in Pcs \ {"handshake"}, Goto(c, pc),
           UNCHANGED <<peerVars, inq, outq, sources>>,
           served' \in [Conns -> {"yet", "served", "refused", "any"}],
           pc \in Holding <=> srv[c].pc \in Holding, pc \in Claiming => srv[c].pc \in Claiming
    PROVE  IInv'
  <1>1. TypeOK /\ HolderInv /\ \A k \in Conns : AnswerInv(k)
    BY ONLY IInv DEF IInv
  <1>2. Quiet(c, << >>) /\ sources' = sources
    BY ONLY <1>1, Silence, c \in Conns, UNCHANGED <<peerVars, inq, outq, sources>>
  <1>3. sources' \in [DOMAIN sources' -> Conns \cup {NULL}]
    BY ONLY <1>1, <1>2 DEF TypeOK
  <1>4. TypeOK' /\ \A k \in Conns : AnswerInv(k)'
    BY ONLY <1>1, <1>2, <1>3, QuietInv, c \in Conns, pc \in Pcs \ {"handshake"}, Goto(c, pc),
       served' \in [Conns -> {"yet", "served", "refused", "any"}]
  <1> DEFINE t == [srv[c] EXCEPT !.pc = pc]
  <1>5. t \in ThreadType /\ t.pc = pc /\ t.stream = srv[c].stream /\ srv' = [srv EXCEPT ![c] = t]
    BY ONLY ThreadAt, <1>1, c \in Conns, pc \in Pcs \ {"handshake"}, Goto(c, pc)
  <1> HIDE DEF t
  <1>6. Moves(c, t)
    BY ONLY <1>2, <1>5, pc \in Pcs \ {"handshake"}, pc \in Holding <=> srv[c].pc \in Holding,
       pc \in Claiming => srv[c].pc \in Claiming,
       served' \in [Conns -> {"yet", "served", "refused", "any"}] DEF Moves
  <1>7. HolderInv'
    BY ONLY <1>1, <1>6, HolderMoves, c \in Conns
  <1> QED
    BY ONLY <1>4, <1>7 DEF IInv

LEMMA ServedType ==
    ASSUME TypeOK, NEW c \in Conns
    PROVE  /\ served \in [Conns -> {"yet", "served", "refused", "any"}]
           /\ Served(c) \in [Conns -> {"yet", "served", "refused", "any"}]
           /\ Refused(c) => served' \in [Conns -> {"yet", "served", "refused", "any"}]
  BY DEF TypeOK, Served, Refused

\* A publisher that finds the source taken goes away with nothing.
LEMMA RefusedInv ==
    ASSUME IInv, NEW c \in Conns, srv[c].pc \in Claiming, Refused(c), UNCHANGED <<peerVars, inq>>
    PROVE  IInv'
  <1>1. Goto(c, "closed") /\ UNCHANGED <<peerVars, inq, outq, sources>>
    BY ONLY Refused(c), UNCHANGED <<peerVars, inq>> DEF Refused
  <1>2. served' \in [Conns -> {"yet", "served", "refused", "any"}]
    BY ONLY IInv, ServedType, Refused(c), c \in Conns DEF IInv
  <1>3. "closed" \in Pcs \ {"handshake"} /\ ("closed" \in Holding <=> srv[c].pc \in Holding)
          /\ ("closed" \in Claiming => srv[c].pc \in Claiming)
    BY ONLY srv[c].pc \in Claiming DEF Pcs, Holding, Claiming
  <1> QED
    BY ONLY <1>1, <1>2, <1>3, IInv, c \in Conns, QuietMove

LEMMA CanPublishInv ==
    ASSUME IInv, NEW c \in Conns, CanPublish(c)
    PROVE  IInv'
  <1>1. srv[c].pc = "can_publish" /\ UNCHANGED <<peerVars, inq>>
    BY ONLY CanPublish(c) DEF CanPublish, At
  <1>2. Refused(c) \/ (Goto(c, "on_publish") /\ UNCHANGED <<outq, sources, served>>)
    BY ONLY CanPublish(c) DEF CanPublish
  <1>3. ASSUME Refused(c) PROVE IInv'
    <2>1. srv[c].pc \in Claiming
      BY ONLY <1>1 DEF Claiming
    <2> QED
      BY ONLY <1>1, <1>3, <2>1, RefusedInv, IInv, c \in Conns
  <1>4. ASSUME Goto(c, "on_publish"), UNCHANGED <<outq, sources, served>> PROVE IInv'
    <2>1. "on_publish" \in Pcs \ {"handshake"} /\ ("on_publish" \in Holding <=> srv[c].pc \in Holding)
            /\ ("on_publish" \in Claiming => srv[c].pc \in Claiming)
      BY ONLY <1>1 DEF Pcs, Holding, Claiming
    <2>2. served' \in [Conns -> {"yet", "served", "refused", "any"}]
      BY ONLY IInv, <1>4 DEF IInv, TypeOK
    <2>3. UNCHANGED <<peerVars, inq, outq, sources>>
      BY ONLY <1>1, <1>4
    <2> QED
      BY ONLY <1>4, <2>1, <2>2, <2>3, IInv, c \in Conns, QuietMove
  <1> QED
    BY ONLY <1>2, <1>3, <1>4

\* The thread that finds the source free when it asks under the lock takes it.
LEMMA OnPublishInv ==
    ASSUME IInv, NEW c \in Conns, OnPublish(c)
    PROVE  IInv'
  <1>1. srv[c].pc = "on_publish" /\ UNCHANGED <<peerVars, inq>>
    BY ONLY OnPublish(c) DEF OnPublish, At
  <1>2. CASE sources[srv[c].stream] # NULL
    <2>1. Refused(c) /\ srv[c].pc \in Claiming
      BY ONLY <1>1, <1>2, OnPublish(c) DEF OnPublish, Claiming
    <2> QED
      BY ONLY <1>1, <2>1, RefusedInv, IInv, c \in Conns
  <1>3. CASE sources[srv[c].stream] = NULL
    <2> DEFINE s == srv[c].stream
               t == [srv[c] EXCEPT !.pc = "publishing"]
    <2>1. /\ sources' = [sources EXCEPT ![s] = c] /\ Send(c, start_publishing)
          /\ Goto(c, "publishing") /\ served' = Served(c)
      BY ONLY <1>3, OnPublish(c), Zenon DEF OnPublish
    <2>2. TypeOK /\ HolderInv /\ \A k \in Conns : AnswerInv(k)
      BY ONLY IInv DEF IInv
    <2>3. s \in DOMAIN sources /\ sources \in [DOMAIN sources -> Conns \cup {NULL}]
      BY ONLY <1>1, <2>2, c \in Conns DEF TypeOK, HolderInv, Claiming
    <2>4. sources' \in [DOMAIN sources' -> Conns \cup {NULL}] /\ DOMAIN sources' = DOMAIN sources
      BY ONLY <2>1, <2>3, c \in Conns
    <2>5. "publishing" \in Pcs \ {"handshake"}
      BY DEF Pcs, Holding
    <2>6. served' \in [Conns -> {"yet", "served", "refused", "any"}]
      BY ONLY <2>1, <2>2, ServedType, c \in Conns
    <2>7. Quiet(c, start_publishing)
      <3>1. Batch(start_publishing, 0) /\ Batch(start_publishing, 1)
        BY ONLY StatusReplies, Zenon
      <3>2. AnswerIds(start_publishing) = {} /\ Distinct(start_publishing) /\ start_publishing \in Seq(Replies)
        BY ONLY <3>1 DEF Batch
      <3> QED
        BY ONLY <1>1, <2>1, <3>2 DEF Quiet, Send
    <2>8. TypeOK' /\ \A k \in Conns : AnswerInv(k)'
      BY ONLY <2>1, <2>2, <2>4, <2>5, <2>6, <2>7, QuietInv, c \in Conns
    <2>9. HolderInv'
      <3>1. t.pc = "publishing" /\ t.stream = s /\ srv' = [srv EXCEPT ![c] = t]
        BY ONLY ThreadAt, <2>1, <2>2, <2>5, c \in Conns
      <3>2. srv \in [Conns -> ThreadType]
        BY ONLY <2>2 DEF TypeOK
      <3> HIDE DEF t
      <3>3. srv'[c] = t /\ \A k \in Conns : k # c => srv'[k] = srv[k]
        BY ONLY <3>1, <3>2, c \in Conns
      <3>4. sources'[s] = c /\ \A r \in DOMAIN sources : r # s => sources'[r] = sources[r]
        BY ONLY <2>1, <2>3
      <3>5. /\ \A k \in Conns : k # c /\ srv[k].pc \in Holding => srv[k].stream # s
            /\ \A r \in DOMAIN sources : sources[r] # c
        BY ONLY <1>1, <1>3, <2>2, c \in Conns, RtmpSessionAssumption DEF HolderInv, Holding
      <3> QED
        BY ONLY <2>2, <2>3, <2>4, <3>1, <3>3, <3>4, <3>5 DEF HolderInv, Holding
    <2> QED
      BY ONLY <2>8, <2>9 DEF IInv
  <1> QED
    BY ONLY <1>2, <1>3

\* The holder gives its source back.
LEMMA ReleaseInv ==
    ASSUME IInv, NEW c \in Conns, NEW from \in {"release", "republish"}, NEW to \in {"closed", "identify"},
           Release(c, from, to)
    PROVE  IInv'
  <1> DEFINE s == srv[c].stream
             t == [srv[c] EXCEPT !.pc = to]
  <1>1. /\ srv[c].pc = from /\ sources' = [sources EXCEPT ![s] = NULL] /\ Goto(c, to)
        /\ UNCHANGED <<peerVars, inq>> /\ outq' = outq /\ served' = served
    BY ONLY Release(c, from, to) DEF Release, At
  <1>2. TypeOK /\ HolderInv /\ \A k \in Conns : AnswerInv(k)
    BY ONLY IInv DEF IInv
  <1>3. srv[c].pc \in Holding /\ to \in Pcs \ {"handshake"} /\ to \notin Holding /\ to \notin Claiming
    BY ONLY <1>1, from \in {"release", "republish"}, to \in {"closed", "identify"} DEF Holding, Claiming, Pcs
  <1>4. s \in DOMAIN sources /\ sources \in [DOMAIN sources -> Conns \cup {NULL}] /\ sources[s] = c
    BY ONLY <1>2, <1>3, c \in Conns DEF TypeOK, HolderInv
  <1>5. sources' \in [DOMAIN sources' -> Conns \cup {NULL}] /\ DOMAIN sources' = DOMAIN sources
    BY ONLY <1>1, <1>4
  <1>6. served' \in [Conns -> {"yet", "served", "refused", "any"}]
    BY ONLY <1>1, <1>2 DEF TypeOK
  <1>7. Quiet(c, << >>)
    BY ONLY <1>1, <1>2, Silence, c \in Conns
  <1>8. TypeOK' /\ \A k \in Conns : AnswerInv(k)'
    BY ONLY <1>1, <1>2, <1>3, <1>5, <1>6, <1>7, QuietInv, c \in Conns
  <1>9. HolderInv'
    <2>1. t.pc = to /\ srv' = [srv EXCEPT ![c] = t]
      BY ONLY ThreadAt, <1>1, <1>2, <1>3, c \in Conns
    <2>2. srv \in [Conns -> ThreadType]
      BY ONLY <1>2 DEF TypeOK
    <2> HIDE DEF t
    <2>3. srv'[c] = t /\ \A k \in Conns : k # c => srv'[k] = srv[k]
      BY ONLY <2>1, <2>2, c \in Conns
    <2>4. sources'[s] = NULL /\ \A r \in DOMAIN sources : r # s => sources'[r] = sources[r]
      BY ONLY <1>1, <1>4
    <2>5. /\ \A k \in Conns : k # c /\ srv[k].pc \in Holding => srv[k].stream # s
          /\ \A r \in DOMAIN sources : r # s => sources[r] # c
          /\ NULL \notin Conns
      BY ONLY <1>2, <1>4, c \in Conns, RtmpSessionAssumption DEF HolderInv
    <2> QED
      BY ONLY <1>2, <1>3, <1>5, <2>1, <2>3, <2>4, <2>5 DEF HolderInv
  <1> QED
    BY ONLY <1>8, <1>9 DEF IInv

\* A broken connection: its publisher still has to release the source.
LEMMA BrokenInv ==
    ASSUME IInv, NEW c \in Conns, srv[c].pc \in Blocking, Broken(c)
    PROVE  IInv'
  <1> DEFINE pc == IF At(c, "publishing") THEN "release" ELSE "closed"
  <1>1. Goto(c, pc) /\ UNCHANGED <<peerVars, inq, outq, sources>> /\ served' = served
    BY ONLY Broken(c) DEF Broken
  <1>2. pc \in Pcs \ {"handshake"} /\ (pc \in Holding <=> srv[c].pc \in Holding) /\ pc \notin Claiming
    BY ONLY srv[c].pc \in Blocking DEF Blocking, Holding, Claiming, Pcs, At
  <1> HIDE DEF pc
  <1>3. served' \in [Conns -> {"yet", "served", "refused", "any"}]
    BY ONLY IInv, <1>1 DEF IInv, TypeOK
  <1> QED
    BY ONLY <1>1, <1>2, <1>3, IInv, c \in Conns, QuietMove

LEMMA NextInv == IInv /\ [Next]_vars => IInv'
  <1> SUFFICES ASSUME IInv, [Next]_vars PROVE IInv'
    OBVIOUS
  <1>1. CASE UNCHANGED vars
    <2>1. /\ UNCHANGED <<script, sent, polite, asked, open, noise, inq, outq, srv, sources, served>>
          /\ TypeOK /\ HolderInv /\ \A c \in Conns : AnswerInv(c)
      BY ONLY <1>1, IInv DEF vars, IInv
    <2>2. TypeOK'
      BY ONLY <2>1 DEF TypeOK
    <2>3. HolderInv'
      BY ONLY <2>1 DEF HolderInv
    <2>4. ASSUME NEW c \in Conns PROVE AnswerInv(c)'
      BY ONLY <2>1, c \in Conns, AnswerFrame
    <2> QED
      BY ONLY <2>2, <2>3, <2>4 DEF IInv
  <1>2. CASE Next
    <2>1. PICK c \in Conns :
             \/ PeerSend(c) \/ PeerRecv(c) \/ PeerClose(c) \/ \E m \in Noise : PeerNoise(c, m)
             \/ Serve(c) \/ PeerGone(c) \/ RecvTimeout(c)
      BY ONLY <1>2, Zenon DEF Next
    <2>2. CASE PeerSend(c) \/ PeerRecv(c) \/ PeerClose(c)
      BY ONLY <2>2, IInv, PeerSendInv, PeerRecvInv, PeerCloseInv, c \in Conns
    <2>3. CASE \E m \in Noise : PeerNoise(c, m)
      BY ONLY <2>3, IInv, PeerNoiseInv, c \in Conns
    <2>4. CASE Serve(c)
      <3>1. CASE inq[c] # << >> /\ (Handle(c, Head(inq[c]), decode_message[Head(inq[c])]) \/ IgnoreEmpty(c))
        BY ONLY <3>1, IInv, HandledInv, c \in Conns
      <3>2. CASE CanPublish(c) \/ OnPublish(c)
        BY ONLY <3>2, IInv, CanPublishInv, OnPublishInv, c \in Conns
      <3>3. CASE Release(c, "release", "closed") \/ Release(c, "republish", "identify")
        BY ONLY <3>3, IInv, ReleaseInv, c \in Conns
      <3> QED
        BY ONLY <2>4, <3>1, <3>2, <3>3, Zenon DEF Serve
    <2>5. CASE PeerGone(c) \/ RecvTimeout(c)
      <3>1. srv[c].pc \in Blocking /\ Broken(c)
        BY ONLY <2>5 DEF PeerGone, RecvTimeout
      <3> QED
        BY ONLY <3>1, IInv, BrokenInv, c \in Conns
    <2> QED
      BY ONLY <2>1, <2>2, <2>3, <2>4, <2>5
  <1> QED
    BY ONLY <1>1, <1>2, [Next]_vars

\* The inductive invariant: every reply under way belongs to a request of its
\* peer that waits, and every taken source to the thread that publishes it.
THEOREM SessionInvariant == Spec => []IInv
  <1> QED
    BY InitInv, NextInv, PTL DEF Spec

\* SrsLiveSourceManager and SrsRtmpConn::publishing: however many connections
\* race for a stream, leave or republish, exactly the one that publishes it
\* holds its source.
THEOREM OnePublisher == Spec => []HolderPublishes
  <1>1. IInv => HolderPublishes
    BY DEF IInv, TypeOK, HolderInv, HolderPublishes, Holding, Claiming
  <1> QED
    BY <1>1, SessionInvariant, PTL

\* SrsRtmpServer: every _result under way answers a request that its peer waits
\* for, and no two answer the same.
THEOREM OneAnswerPerRequest == Spec => []AnsweredOnce
  <1>1. IInv => AnsweredOnce
    <2> SUFFICES ASSUME IInv, NEW c \in Conns
                 PROVE  /\ \A i \in {i \in DOMAIN outq[c] : outq[c][i].name = "_result"} :
                              \E q \in asked[c] : q[1] = outq[c][i].tid
                        /\ \A i, j \in {i \in DOMAIN outq[c] : outq[c][i].name = "_result"} :
                              outq[c][i].tid = outq[c][j].tid => i = j
      BY DEF AnsweredOnce
    <2>1. AnswerInv(c)
      BY ONLY IInv, c \in Conns DEF IInv
    <2>2. CASE open[c]
      BY ONLY <2>1, <2>2 DEF AnswerInv, AnswerIds, Answers, IsAnswer, Distinct, AskedIds
    <2>3. CASE ~open[c]
      BY ONLY <2>1, <2>3 DEF AnswerInv
    <2> QED
      BY ONLY <2>2, <2>3
  <1> QED
    BY <1>1, SessionInvariant, PTL
=============================================================================
