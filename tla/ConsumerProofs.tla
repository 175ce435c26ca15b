--------------------------- MODULE ConsumerProofs ---------------------------
(***************************************************************************)
(* Proofs about what one player is given: the data path of its consumer,    *)
(* for every configuration and every sequence of timestamps, and the GOP    *)
(* cache it joins from, for every limit, guess count and sequence of        *)
(* messages.                                                                *)
(***************************************************************************)
EXTENDS ConsumerQueue, GopCacheSpec, SourceLemmas, SequenceTheorems

-----------------------------------------------------------------------------
(* The data path of a consumer.                                             *)

\* Messages may be given another timestamp.
LEMMA MessageRetimable == Retimable(Message)
  BY DEF Retimable, Message

\* Type correctness of the consumer's data path: the timestamps a player is given
\* and the times its queue keeps are never negative, whatever the encoder sends.
THEOREM TypeCorrect == Spec => []TypeOK
  <1> USE DEF TypeOK
  <1>1. Init => TypeOK
    <2> SUFFICES ASSUME Init PROVE TypeOK
      OBVIOUS
    <2>1. NewQueue \in QueueOf(Message)
      BY DEF NewQueue, QueueOf
    <2> QED
      BY <2>1 DEF Init, NewJitter, JitterState, QueueOf
  <1>2. TypeOK /\ [Next]_vars => TypeOK'
    <2> SUFFICES ASSUME TypeOK, [Next]_vars PROVE TypeOK'
      OBVIOUS
    <2>0. queue \in QueueOf(Message)
      BY DEF QueueOf
    <2>1. CASE SetQueueSize
      BY <2>1, ConsumerQueueAssumption DEF SetQueueSize, set_queue_size
    <2>2. ASSUME NEW k \in SentKinds, NEW t \in Stamps, Enqueue(k, t) PROVE TypeOK'
      <3> DEFINE m == [kind |-> k, timestamp |-> t, id |-> nmsg + 1]
      <3>1. m \in Message
        BY ConsumerQueueAssumption DEF Message
      <3> HIDE DEF m
      <3>2. CorrectedMsg(jitter, m) \in Message /\ CorrectedJitter(jitter, m) \in JitterState
        BY <3>1, CorrectedTypes, MessageRetimable
      <3>3. enqueue(queue, CorrectedMsg(jitter, m)) \in QueueOf(Message)
        BY <2>0, <3>2, EnqueueType, MessageRetimable
      <3>4. queue' \in QueueOf(Message) /\ jitter' \in JitterState
        BY <2>2, <3>2, <3>3 DEF Enqueue, m
      <3>5. nmsg' \in Nat /\ newest' \in [Headers -> Nat] /\ sent' \subseteq Nat /\ lastAv' \in Nat
        BY <2>2 DEF Enqueue
      <3>6. back' \in Nat
        <4>1. Now \in Nat /\ Now' \in Nat
          BY <3>4 DEF Now, JitterState
        <4>2. back' = IF Now' < Now THEN back + Now - Now' ELSE back
          BY <2>2 DEF Enqueue
        <4>3. back \in Nat
          OBVIOUS
        <4>4. \A x, y, z \in Nat : (IF y < x THEN z + x - y ELSE z) \in Nat
          OBVIOUS
        <4> QED
          BY ONLY <4>1, <4>2, <4>3, <4>4, Zenon
      <3> QED
        BY <3>4, <3>5, <3>6 DEF QueueOf
    <2>3. CASE DumpPackets
      <3> DEFINE out == Dumped(queue, MwMsgs)
                 av  == Latest(out, is_av)
      <3>1. out \in Seq(Message) /\ AfterDump(queue, MwMsgs) \in QueueOf(Message)
        BY <2>0, DumpType, MessageRetimable, ConsumerQueueAssumption
      <3>2. av \subseteq DOMAIN out
        BY DEF Latest
      <3>3. /\ sent' = sent \cup {out[i].id : i \in DOMAIN out}
            /\ lastAv' = IF av = {} THEN lastAv ELSE out[CHOOSE i \in av : TRUE].timestamp
            /\ queue' = AfterDump(queue, MwMsgs)
            /\ UNCHANGED <<jitter, nmsg, newest, back>>
        BY <2>3 DEF DumpPackets
      <3> HIDE DEF out, av
      <3>4. \A i \in DOMAIN out : out[i].id \in Nat /\ out[i].timestamp \in Nat
        <4>1. \A i \in DOMAIN out : out[i] \in Message
          BY <3>1
        <4> QED
          BY <4>1 DEF Message
      <3>5. lastAv' \in Nat
        BY <3>2, <3>3, <3>4
      <3>6. sent' \subseteq Nat
        BY <3>3, <3>4
      <3> QED
        BY <3>1, <3>3, <3>5, <3>6 DEF QueueOf
    <2>4. CASE UNCHANGED vars
      BY <2>4 DEF vars
    <2> QED
      BY <2>1, <2>2, <2>3, <2>4 DEF Next
  <1> QED
    BY <1>1, <1>2, PTL DEF Spec

\* The timeline of a player never goes below 0 and never jumps by more than the
\* jitter limit, whatever the encoder's clock does (SrsRtmpJitter::correct).
THEOREM TimelineIsBounded == Spec => TimelineBounded
  <1>1. TypeOK /\ [Next]_vars =>
          [ /\ jitter'.last_pkt_correct_time >= 0
            /\ jitter'.last_pkt_correct_time - jitter.last_pkt_correct_time
                 \in -CONST_MAX_JITTER_MS .. CONST_MAX_JITTER_MS ]_jitter
    <2> SUFFICES ASSUME TypeOK, Next, jitter' # jitter
                 PROVE  /\ jitter'.last_pkt_correct_time >= 0
                        /\ jitter'.last_pkt_correct_time - jitter.last_pkt_correct_time
                             \in -CONST_MAX_JITTER_MS .. CONST_MAX_JITTER_MS
      BY DEF vars
    <2>1. PICK k \in SentKinds, t \in Stamps : Enqueue(k, t)
      BY DEF Next, SetQueueSize, DumpPackets
    <2> DEFINE m == [kind |-> k, timestamp |-> t, id |-> nmsg + 1]
    <2>2. jitter' = CorrectedJitter(jitter, m)
      BY <2>1 DEF Enqueue
    <2>3. jitter'.last_pkt_correct_time = CorrectTime(jitter, t)
      BY <2>2 DEF CorrectedJitter
    <2>4. jitter \in JitterState /\ t \in Nat
      BY ConsumerQueueAssumption DEF TypeOK
    <2> QED
      BY <2>3, <2>4, CorrectTimeBounds
  <1> QED
    BY <1>1, TypeCorrect, PTL DEF Spec, TimelineBounded

\* The last message of kind h that is still queued is x.
LastIs(ms, h, x) ==
    \E i \in DOMAIN ms : /\ ms[i].kind = h /\ ms[i].id = x
                         /\ \A j \in DOMAIN ms : ms[j].kind = h => j <= i

\* The strengthening of HeadersSurvive that is inductive: a header that still
\* waits is the last of its kind in the queue, for shrink() keeps only that one.
HeadersInv ==
    \A h \in Headers :
        newest[h] = 0 \/ newest[h] \in sent \/ LastIs(queue.msgs, h, newest[h])

\* shrink() copies a message it keeps with another time, and nothing else.
LEMMA RetimedOne ==
    ASSUME NEW ms \in Seq(Message), NEW i \in DOMAIN ms, NEW t \in Nat
    PROVE  \E m \in Message : /\ Retimed(ms, {i}, t) = <<m>>
                              /\ m.kind = ms[i].kind /\ m.id = ms[i].id
                              /\ m.timestamp = t
  <1> DEFINE m == [ms[i] EXCEPT !.timestamp = t]
  <1>1. ms[i] \in Message
    OBVIOUS
  <1>2. m \in Message /\ m.kind = ms[i].kind /\ m.id = ms[i].id /\ m.timestamp = t
    BY <1>1 DEF Message
  <1>3. {i} # {} /\ (CHOOSE x \in {i} : TRUE) = i
    OBVIOUS
  <1>4. Retimed(ms, {i}, t) = <<m>>
    BY ONLY <1>3 DEF Retimed
  <1> HIDE DEF m
  <1> QED
    BY <1>2, <1>4

\* The last message of a sequence that has kind h is the only one of Latest.
LEMMA LatestHeader ==
    ASSUME NEW ms \in Seq(Message), NEW i \in DOMAIN ms,
           \A j \in DOMAIN ms : ms[j].kind = ms[i].kind => j <= i
    PROVE  /\ ms[i].kind = "vsh" => Latest(ms, video_sh) = {i}
           /\ ms[i].kind = "ash" => Latest(ms, audio_sh) = {i}
  <1>1. DOMAIN ms \subseteq Int
    OBVIOUS
  <1>2. ASSUME ms[i].kind = "vsh" PROVE Latest(ms, video_sh) = {i}
    BY <1>1, <1>2 DEF Latest, video_sh
  <1>3. ASSUME ms[i].kind = "ash" PROVE Latest(ms, audio_sh) = {i}
    BY <1>1, <1>3 DEF Latest, audio_sh
  <1> QED
    BY <1>2, <1>3

\* What shrink() keeps of one kind is at most one message, of that kind.
LEMMA RetimedKinds ==
    ASSUME NEW ms \in Seq(Message), NEW t \in Nat
    PROVE  /\ \/ Retimed(ms, Latest(ms, video_sh), t) = << >>
              \/ \E m \in Message : /\ Retimed(ms, Latest(ms, video_sh), t) = <<m>>
                                    /\ m.kind = "vsh" /\ m.timestamp = t
           /\ \/ Retimed(ms, Latest(ms, audio_sh), t) = << >>
              \/ \E m \in Message : /\ Retimed(ms, Latest(ms, audio_sh), t) = <<m>>
                                    /\ m.kind = "ash" /\ m.timestamp = t
  <1>1. DOMAIN ms \subseteq Int
    OBVIOUS
  <1>2. Latest(ms, video_sh) = {} => Retimed(ms, Latest(ms, video_sh), t) = << >>
    BY DEF Retimed
  <1>3. ASSUME Latest(ms, video_sh) # {}
        PROVE  \E m \in Message : /\ Retimed(ms, Latest(ms, video_sh), t) = <<m>>
                                  /\ m.kind = "vsh" /\ m.timestamp = t
    <2>1. PICK i \in DOMAIN ms : /\ ms[i].kind = "vsh"
                                 /\ \A j \in DOMAIN ms : ms[j].kind = "vsh" => j <= i
      BY <1>3 DEF Latest, video_sh
    <2>2. Latest(ms, video_sh) = {i}
      BY <2>1, LatestHeader
    <2> QED
      BY <2>1, <2>2, RetimedOne
  <1>4. Latest(ms, audio_sh) = {} => Retimed(ms, Latest(ms, audio_sh), t) = << >>
    BY DEF Retimed
  <1>5. ASSUME Latest(ms, audio_sh) # {}
        PROVE  \E m \in Message : /\ Retimed(ms, Latest(ms, audio_sh), t) = <<m>>
                                  /\ m.kind = "ash" /\ m.timestamp = t
    <2>1. PICK i \in DOMAIN ms : /\ ms[i].kind = "ash"
                                 /\ \A j \in DOMAIN ms : ms[j].kind = "ash" => j <= i
      BY <1>5 DEF Latest, audio_sh
    <2>2. Latest(ms, audio_sh) = {i}
      BY <2>1, LatestHeader
    <2> QED
      BY <2>1, <2>2, RetimedOne
  <1>6. \/ Retimed(ms, Latest(ms, video_sh), t) = << >>
        \/ \E m \in Message : /\ Retimed(ms, Latest(ms, video_sh), t) = <<m>>
                              /\ m.kind = "vsh" /\ m.timestamp = t
    BY <1>2, <1>3
  <1>7. \/ Retimed(ms, Latest(ms, audio_sh), t) = << >>
        \/ \E m \in Message : /\ Retimed(ms, Latest(ms, audio_sh), t) = <<m>>
                              /\ m.kind = "ash" /\ m.timestamp = t
    BY <1>4, <1>5
  <1> QED
    BY <1>6, <1>7

\* shrink() puts at most one header of each kind, one after the other.
LEMMA TwoHeaders ==
    ASSUME NEW v \in Seq(Message), NEW a \in Seq(Message), Len(v) = 1, Len(a) = 1
    PROVE  v \o a \in Seq(Message) /\ Len(v \o a) = 2 /\ (v \o a)[1] = v[1] /\ (v \o a)[2] = a[1]
  <1>1. /\ v \o a \in Seq(Message)
        /\ Len(v \o a) = Len(v) + Len(a)
        /\ \A i \in 1 .. Len(v) + Len(a) :
              (v \o a)[i] = IF i <= Len(v) THEN v[i] ELSE a[i - Len(v)]
    BY ConcatProperties, Zenon
  <1>2. Len(v) = 1 /\ Len(a) = 1
    OBVIOUS
  <1>3. (v \o a)[1] = v[1]
    BY ONLY <1>1, <1>2
  <1>4. (v \o a)[2] = a[1]
    <2>1. 2 - 1 = 1
      OBVIOUS
    <2> QED
      BY ONLY <1>1, <1>2, <2>1
  <1> QED
    BY ONLY <1>1, <1>2, <1>3, <1>4

\* shrink() keeps the last header of each kind (SrsMessageQueue::shrink).
LEMMA ShrinkKeeps ==
    ASSUME NEW q \in QueueOf(Message), q.av_end_time \in Nat,
           NEW h \in Headers, NEW x, LastIs(q.msgs, h, x)
    PROVE  LastIs(shrink(q).msgs, h, x)
  <1> DEFINE t == q.av_end_time
             v == Retimed(q.msgs, Latest(q.msgs, video_sh), t)
             a == Retimed(q.msgs, Latest(q.msgs, audio_sh), t)
  <1>1. q.msgs \in Seq(Message)
    BY DEF QueueOf
  <1>2. shrink(q).msgs = v \o a
    <2> DEFINE s == v \o a
    <2>1. shrink(q) = [q EXCEPT !.msgs = s, !.av_start_time = q.av_end_time]
      BY DEF shrink
    <2> HIDE DEF s, v, a
    <2>2. shrink(q).msgs = s
      BY <2>1 DEF QueueOf
    <2> QED
      BY <2>2 DEF s
  <1>3. PICK i \in DOMAIN q.msgs :
            /\ q.msgs[i].kind = h /\ q.msgs[i].id = x
            /\ \A j \in DOMAIN q.msgs : q.msgs[j].kind = h => j <= i
    BY DEF LastIs
  <1>4. /\ v = << >> \/ \E m \in Message : v = <<m>> /\ m.kind = "vsh"
        /\ a = << >> \/ \E m \in Message : a = <<m>> /\ m.kind = "ash"
    BY <1>1, RetimedKinds
  <1>5. CASE h = "vsh"
    <2>1. Latest(q.msgs, video_sh) = {i}
      BY <1>1, <1>3, <1>5, LatestHeader
    <2>2. \E m \in Message : v = <<m>> /\ m.kind = q.msgs[i].kind /\ m.id = q.msgs[i].id
      BY <1>1, <2>1, RetimedOne
    <2> HIDE DEF v, a
    <2>3. PICK m \in Message : v = <<m>> /\ m.kind = "vsh" /\ m.id = x
      BY <1>3, <1>5, <2>2
    <2>4. CASE a = << >>
      <3>1. v \o a = <<m>>
        BY <2>3, <2>4
      <3> QED
        BY <1>2, <1>5, <2>3, <3>1 DEF LastIs
    <2>5. ASSUME NEW n \in Message, a = <<n>>, n.kind = "ash"
          PROVE  LastIs(shrink(q).msgs, h, x)
      <3> DEFINE w == v \o a
      <3>1. v \in Seq(Message) /\ Len(v) = 1 /\ v[1] = m
        BY <2>3, <2>5
      <3>2. a \in Seq(Message) /\ Len(a) = 1 /\ a[1] = n
        BY <2>3, <2>5
      <3>3. DOMAIN w = 1 .. 2 /\ w[1] = m /\ w[2] = n
        <4>1. /\ w \in Seq(Message) /\ Len(w) = 2
              /\ w[1] = v[1] /\ w[2] = a[1]
          BY <3>1, <3>2, TwoHeaders
        <4> QED
          BY ONLY <3>1, <3>2, <4>1
      <3> HIDE DEF w
      <3>4. w[1].kind = h /\ w[1].id = x /\ \A j \in 1 .. 2 : w[j].kind = h => j <= 1
        BY <1>5, <2>3, <2>5, <3>3
      <3>5. LastIs(w, h, x)
        BY <3>3, <3>4 DEF LastIs
      <3> QED
        BY <1>2, <3>5 DEF w
    <2> QED
      BY <1>4, <2>4, <2>5
  <1>6. CASE h = "ash"
    <2>1. Latest(q.msgs, audio_sh) = {i}
      BY <1>1, <1>3, <1>6, LatestHeader
    <2>2. \E m \in Message : a = <<m>> /\ m.kind = q.msgs[i].kind /\ m.id = q.msgs[i].id
      BY <1>1, <2>1, RetimedOne
    <2> HIDE DEF v, a
    <2>3. PICK m \in Message : a = <<m>> /\ m.kind = "ash" /\ m.id = x
      BY <1>3, <1>6, <2>2
    <2>4. CASE v = << >>
      <3>1. v \o a = <<m>>
        BY <2>3, <2>4
      <3> QED
        BY <1>2, <1>6, <2>3, <3>1 DEF LastIs
    <2>5. ASSUME NEW n \in Message, v = <<n>>, n.kind = "vsh"
          PROVE  LastIs(shrink(q).msgs, h, x)
      <3> DEFINE w == v \o a
      <3>1. v \in Seq(Message) /\ Len(v) = 1 /\ v[1] = n
        BY <2>3, <2>5
      <3>2. a \in Seq(Message) /\ Len(a) = 1 /\ a[1] = m
        BY <2>3, <2>5
      <3>3. DOMAIN w = 1 .. 2 /\ w[1] = n /\ w[2] = m
        <4>1. /\ w \in Seq(Message) /\ Len(w) = 2
              /\ w[1] = v[1] /\ w[2] = a[1]
          BY <3>1, <3>2, TwoHeaders
        <4> QED
          BY ONLY <3>1, <3>2, <4>1
      <3> HIDE DEF w
      <3>4. w[2].kind = h /\ w[2].id = x /\ \A j \in 1 .. 2 : w[j].kind = h => j <= 2
        BY <1>6, <2>3, <2>5, <3>3
      <3>5. LastIs(w, h, x)
        BY <3>3, <3>4 DEF LastIs
      <3> QED
        BY <1>2, <3>5 DEF w
    <2> QED
      BY <1>4, <2>4, <2>5
  <1> QED
    BY <1>5, <1>6 DEF Headers

\* The new message becomes the last of its kind, and the last of every other kind
\* stays, whether enqueue() drops or not.
LEMMA EnqueueKeeps ==
    ASSUME NEW q \in QueueOf(Message), NEW m \in Message, NEW h \in Headers, NEW x,
           IF h = m.kind THEN x = m.id ELSE LastIs(q.msgs, h, x)
    PROVE  LastIs(enqueue(q, m).msgs, h, x)
  <1> DEFINE p == Pushed(q, m)
  <1>1. p \in QueueOf(Message)
    BY PushedType, MessageRetimable
  <1>2. p.msgs = Append(q.msgs, m)
    BY DEF Pushed, QueueOf
  <1> HIDE DEF p
  <1>3. LastIs(p.msgs, h, x)
    <2>1. q.msgs \in Seq(Message) /\ Len(q.msgs) \in Nat
      BY DEF QueueOf
    <2>2. /\ DOMAIN p.msgs = 1 .. Len(q.msgs) + 1
          /\ p.msgs[Len(q.msgs) + 1] = m
          /\ \A j \in 1 .. Len(q.msgs) : p.msgs[j] = q.msgs[j]
      BY <1>2, <2>1
    <2>3. CASE h = m.kind
      BY <2>1, <2>2, <2>3 DEF LastIs
    <2>4. CASE h # m.kind
      <3>1. PICK i \in DOMAIN q.msgs :
                /\ q.msgs[i].kind = h /\ q.msgs[i].id = x
                /\ \A j \in DOMAIN q.msgs : q.msgs[j].kind = h => j <= i
        BY <2>4 DEF LastIs
      <3>2. DOMAIN q.msgs = 1 .. Len(q.msgs)
        BY <2>1
      <3>3. i \in DOMAIN p.msgs /\ p.msgs[i] = q.msgs[i]
        BY <2>1, <2>2, <3>1, <3>2
      <3>4. ASSUME NEW j \in DOMAIN p.msgs, p.msgs[j].kind = h PROVE j <= i
        <4>1. j \in DOMAIN q.msgs /\ q.msgs[j].kind = h
          BY <2>1, <2>2, <2>4, <3>2, <3>4
        <4> QED
          BY <3>1, <4>1
      <3> QED
        BY <3>1, <3>3, <3>4 DEF LastIs
    <2> QED
      BY <2>3, <2>4
  <1>4. CASE overflows(p)
    <2>1. p.av_end_time \in Nat
      BY <1>1, <1>4 DEF overflows, duration, QueueOf
    <2>2. LastIs(shrink(p).msgs, h, x)
      BY <1>1, <1>3, <2>1, ShrinkKeeps
    <2> QED
      BY <1>4, <2>2 DEF enqueue, p
  <1>5. CASE ~overflows(p)
    BY <1>3, <1>5 DEF enqueue, p
  <1> QED
    BY <1>4, <1>5

\* A dump hands out the last message of a kind, or leaves it the last.
LEMMA DumpKeeps ==
    ASSUME NEW q \in QueueOf(Message), NEW n \in Nat \ {0}, NEW h \in Headers, NEW x,
           LastIs(q.msgs, h, x), size(q) > 0
    PROVE  \/ \E i \in DOMAIN Dumped(q, n) : Dumped(q, n)[i].id = x
           \/ LastIs(AfterDump(q, n).msgs, h, x)
  <1> DEFINE c == DumpCount(q, n)
             out == SubSeq(q.msgs, 1, c)
             rest == SubSeq(q.msgs, c + 1, Len(q.msgs))
  <1>1. q.msgs \in Seq(Message) /\ Len(q.msgs) \in Nat /\ Len(q.msgs) # 0
    BY DEF QueueOf, size
  <1>2. c \in 1 .. Len(q.msgs)
    BY <1>1 DEF DumpCount, size
  <1>3. Dumped(q, n) = out /\ AfterDump(q, n).msgs = rest
    BY <1>1 DEF Dumped, AfterDump, size, QueueOf
  <1> HIDE DEF c
  <1>4. /\ DOMAIN out = 1 .. c /\ \A j \in 1 .. c : out[j] = q.msgs[j]
        /\ DOMAIN rest = 1 .. (Len(q.msgs) - c)
        /\ \A j \in 1 .. (Len(q.msgs) - c) : rest[j] = q.msgs[c + j]
    BY <1>1, <1>2
  <1> HIDE DEF out, rest
  <1>5. PICK i \in DOMAIN q.msgs :
            /\ q.msgs[i].kind = h /\ q.msgs[i].id = x
            /\ \A j \in DOMAIN q.msgs : q.msgs[j].kind = h => j <= i
    BY DEF LastIs
  <1>6. DOMAIN q.msgs = 1 .. Len(q.msgs)
    BY <1>1
  <1>7. CASE i <= c
    BY <1>2, <1>3, <1>4, <1>5, <1>6, <1>7
  <1>8. CASE i > c
    <2>1. i - c \in DOMAIN rest /\ rest[i - c] = q.msgs[i]
      BY <1>2, <1>4, <1>6, <1>8
    <2>2. ASSUME NEW j \in DOMAIN rest, rest[j].kind = h PROVE j <= i - c
      <3>1. c + j \in DOMAIN q.msgs /\ q.msgs[c + j].kind = h
        BY <1>2, <1>4, <1>6, <2>2
      <3>2. c + j <= i
        BY <1>5, <3>1
      <3> QED
        BY <1>2, <1>4, <1>6, <3>2
    <2> QED
      BY <1>3, <1>5, <2>1, <2>2 DEF LastIs
  <1> QED
    BY <1>2, <1>6, <1>7, <1>8

\* A player never loses a codec configuration: for every limit, every batch size and
\* every sequence of messages, the newest sequence header of each kind was handed out
\* or still waits, whatever shrink() dropped.
THEOREM HeadersAreKept == Spec => []HeadersSurvive
  <1>1. Init => HeadersInv
    BY DEF Init, HeadersInv
  <1>2. TypeOK /\ HeadersInv /\ [Next]_vars => HeadersInv'
    <2> SUFFICES ASSUME TypeOK, HeadersInv, [Next]_vars PROVE HeadersInv'
      OBVIOUS
    <2>0. queue \in QueueOf(Message) /\ newest \in [Headers -> Nat] /\ nmsg \in Nat
      BY DEF QueueOf, TypeOK
    <2>1. CASE SetQueueSize
      <3>1. queue'.msgs = queue.msgs /\ newest' = newest /\ sent' = sent
        BY <2>0, <2>1 DEF SetQueueSize, set_queue_size, QueueOf
      <3> QED
        BY <3>1 DEF HeadersInv
    <2>2. ASSUME NEW k \in SentKinds, NEW t \in Stamps, Enqueue(k, t) PROVE HeadersInv'
      <3> DEFINE m == [kind |-> k, timestamp |-> t, id |-> nmsg + 1]
                 c == CorrectedMsg(jitter, m)
      <3>1. m \in Message /\ m.kind = k /\ m.id = nmsg + 1
        BY <2>0, ConsumerQueueAssumption DEF Message
      <3>2. /\ queue' = enqueue(queue, c) /\ sent' = sent
            /\ newest' = [h \in Headers |-> IF h = k THEN nmsg + 1 ELSE newest[h]]
        BY <2>2 DEF Enqueue
      <3> HIDE DEF m
      <3>3. c \in Message
        BY <3>1, CorrectedTypes, MessageRetimable DEF TypeOK
      <3>4. c.kind = k /\ c.id = nmsg + 1
        BY <3>1 DEF CorrectedMsg, Message
      <3> HIDE DEF c
      <3>5. ASSUME NEW h \in Headers
            PROVE  newest'[h] = 0 \/ newest'[h] \in sent' \/ LastIs(queue'.msgs, h, newest'[h])
        <4>1. CASE h = k
          <5>1. newest'[h] = c.id
            BY <3>2, <3>4, <4>1
          <5>2. LastIs(enqueue(queue, c).msgs, h, newest'[h])
            BY <2>0, <3>3, <3>4, <4>1, <5>1, EnqueueKeeps
          <5> QED
            BY <3>2, <5>2
        <4>2. CASE h # k
          <5>1. newest'[h] = newest[h]
            BY <3>2, <4>2
          <5>2. ASSUME LastIs(queue.msgs, h, newest[h])
                PROVE  LastIs(enqueue(queue, c).msgs, h, newest[h])
            BY <2>0, <3>3, <3>4, <4>2, <5>2, EnqueueKeeps
          <5>3. newest[h] = 0 \/ newest[h] \in sent \/ LastIs(queue.msgs, h, newest[h])
            BY DEF HeadersInv
          <5> QED
            BY <3>2, <5>1, <5>2, <5>3
        <4> QED
          BY <4>1, <4>2
      <3> QED
        BY <3>5 DEF HeadersInv
    <2>3. CASE DumpPackets
      <3> DEFINE out == Dumped(queue, MwMsgs)
      <3>1. /\ size(queue) > 0 /\ newest' = newest
            /\ sent' = sent \cup {out[i].id : i \in DOMAIN out}
            /\ queue' = AfterDump(queue, MwMsgs)
        BY <2>3 DEF DumpPackets
      <3>2. ASSUME NEW h \in Headers
            PROVE  newest'[h] = 0 \/ newest'[h] \in sent' \/ LastIs(queue'.msgs, h, newest'[h])
        <4>1. newest[h] = 0 \/ newest[h] \in sent \/ LastIs(queue.msgs, h, newest[h])
          BY DEF HeadersInv
        <4>2. ASSUME LastIs(queue.msgs, h, newest[h])
              PROVE  \/ \E i \in DOMAIN out : out[i].id = newest[h]
                     \/ LastIs(AfterDump(queue, MwMsgs).msgs, h, newest[h])
          BY <2>0, <3>1, <4>2, DumpKeeps, ConsumerQueueAssumption
        <4> HIDE DEF out
        <4> QED
          BY <3>1, <4>1, <4>2
      <3> QED
        BY <3>2 DEF HeadersInv
    <2>4. CASE UNCHANGED vars
      BY <2>4 DEF vars, HeadersInv
    <2> QED
      BY <2>1, <2>2, <2>3, <2>4 DEF Next
  <1>3. HeadersInv => HeadersSurvive
    BY DEF HeadersInv, HeadersSurvive, LastIs
  <1> QED
    BY <1>1, <1>2, <1>3, TypeCorrect, PTL DEF Spec

\* What shrink() keeps is stamped with the time of the newest message.
LEMMA ShrinkTimes ==
    ASSUME NEW q \in QueueOf(Message), q.av_end_time \in Nat
    PROVE  /\ shrink(q).av_start_time = q.av_end_time
           /\ shrink(q).av_end_time = q.av_end_time
           /\ \A i \in DOMAIN shrink(q).msgs :
                  /\ is_av(shrink(q).msgs[i])
                  /\ shrink(q).msgs[i].timestamp = q.av_end_time
  <1> DEFINE t == q.av_end_time
             v == Retimed(q.msgs, Latest(q.msgs, video_sh), t)
             a == Retimed(q.msgs, Latest(q.msgs, audio_sh), t)
             s == v \o a
  <1>1. q.msgs \in Seq(Message)
    BY DEF QueueOf
  <1>2. /\ v = << >> \/ \E m \in Message : v = <<m>> /\ m.kind = "vsh" /\ m.timestamp = t
        /\ a = << >> \/ \E m \in Message : a = <<m>> /\ m.kind = "ash" /\ m.timestamp = t
    BY <1>1, RetimedKinds
  <1>3. shrink(q) = [q EXCEPT !.msgs = s, !.av_start_time = t]
    BY DEF shrink
  <1> HIDE DEF v, a
  <1>4. /\ v \in Seq(Message) /\ Len(v) \in 0 .. 1
        /\ \A i \in 1 .. Len(v) : is_av(v[i]) /\ v[i].timestamp = t
    <2>1. CASE v = << >>
      BY <2>1
    <2>2. ASSUME NEW m \in Message, v = <<m>>, m.kind = "vsh", m.timestamp = t
          PROVE  /\ v \in Seq(Message) /\ Len(v) \in 0 .. 1
                 /\ \A i \in 1 .. Len(v) : is_av(v[i]) /\ v[i].timestamp = t
      BY <2>2 DEF is_av, is_video
    <2> QED
      BY <1>2, <2>1, <2>2
  <1>5. /\ a \in Seq(Message) /\ Len(a) \in 0 .. 1
        /\ \A i \in 1 .. Len(a) : is_av(a[i]) /\ a[i].timestamp = t
    <2>1. CASE a = << >>
      BY <2>1
    <2>2. ASSUME NEW m \in Message, a = <<m>>, m.kind = "ash", m.timestamp = t
          PROVE  /\ a \in Seq(Message) /\ Len(a) \in 0 .. 1
                 /\ \A i \in 1 .. Len(a) : is_av(a[i]) /\ a[i].timestamp = t
      BY <2>2 DEF is_av, is_audio
    <2> QED
      BY <1>2, <2>1, <2>2
  <1>6. /\ s \in Seq(Message) /\ Len(s) = Len(v) + Len(a)
        /\ \A i \in 1 .. Len(v) + Len(a) :
              s[i] = IF i <= Len(v) THEN v[i] ELSE a[i - Len(v)]
    BY <1>4, <1>5, ConcatProperties, Zenon
  <1> HIDE DEF s
  <1>7. \A i \in DOMAIN s : is_av(s[i]) /\ s[i].timestamp = t
    <2> SUFFICES ASSUME NEW i \in DOMAIN s PROVE is_av(s[i]) /\ s[i].timestamp = t
      OBVIOUS
    <2>1. i \in 1 .. Len(v) + Len(a)
      BY <1>6
    <2>2. CASE i <= Len(v)
      BY <1>4, <1>6, <2>1, <2>2
    <2>3. CASE i > Len(v)
      <3>1. i - Len(v) \in 1 .. Len(a) /\ s[i] = a[i - Len(v)]
        BY <1>4, <1>5, <1>6, <2>1, <2>3
      <3> QED
        BY <1>5, <3>1
    <2> QED
      BY <1>4, <2>1, <2>2, <2>3
  <1>8. shrink(q).msgs = s /\ shrink(q).av_start_time = t /\ shrink(q).av_end_time = t
    BY <1>3 DEF QueueOf
  <1> QED
    BY <1>7, <1>8

\* Where the timeline stands that last gave the time c.
Stand(c) == IF c > 0 THEN c ELSE 0

\* The times of the queue q of a player whose timeline last gave c and stepped back
\* by b in all.  The times of messages that are not audio or video are 0, and so
\* are those of frames while no span has begun.
Timed(q, c, b) ==
    /\ q.av_start_time <= Stand(c) + b /\ q.av_end_time <= Stand(c) + b
    /\ c > 0 => q.av_end_time = c
    /\ q.av_start_time = -1 =>
          c <= 0 /\ \A i \in DOMAIN q.msgs : q.msgs[i].timestamp = 0
    /\ \A i \in DOMAIN q.msgs :
          /\ q.msgs[i].timestamp <= Stand(c) + b
          /\ is_av(q.msgs[i]) =>
                q.msgs[i].timestamp >= q.av_start_time - b - CONST_MAX_JITTER_MS
    /\ \A i, j \in DOMAIN q.msgs : i < j /\ is_av(q.msgs[j]) =>
          q.msgs[j].timestamp >= q.msgs[i].timestamp - b

TimedInv == Timed(queue, jitter.last_pkt_correct_time, back)

\* What is not after one time is not after a later one.
LEMMA Later ==
    ASSUME NEW x \in Int, NEW y \in Int, NEW z \in Int, x <= y, y <= z
    PROVE  x <= z
  OBVIOUS

\* A message that is not older than a bound is not older than a wider one.
LEMMA Wider ==
    ASSUME NEW x \in Int, NEW s \in Int, NEW b \in Int, NEW e \in Int, NEW j \in Int,
           x >= s - b - j, b <= e
    PROVE  x >= s - e - j
  OBVIOUS

\* A message that the jitter let through, at time d, joins the queue.
LEMMA PushedTimed ==
    ASSUME NEW q \in QueueOf(Message), NEW m \in Message, NEW b \in Nat,
           NEW c \in Nat \cup {-1}, NEW d \in Nat \cup {-1}, NEW e \in Nat,
           Timed(q, c, b),
           IF is_av(m) THEN m.timestamp = d /\ d >= 0 ELSE m.timestamp = 0 /\ d = c,
           d - c <= CONST_MAX_JITTER_MS,
           e = IF Stand(d) < Stand(c) THEN b + Stand(c) - Stand(d) ELSE b
    PROVE  Timed(Pushed(q, m), d, e)
  <1> DEFINE p == Pushed(q, m)
             n == Len(q.msgs)
             J == CONST_MAX_JITTER_MS
  <1>1. q.msgs \in Seq(Message) /\ n \in Nat /\ q.av_start_time \in Nat \cup {-1}
        /\ q.av_end_time \in Nat \cup {-1} /\ J \in Nat /\ m.timestamp \in Nat
    BY JitterAssumption DEF QueueOf, Message
  <1>2. /\ Stand(c) \in Nat /\ Stand(d) \in Nat /\ e >= b
        /\ Stand(c) + b <= Stand(d) + e /\ m.timestamp <= Stand(d)
        /\ is_av(m) => m.timestamp = Stand(d)
    BY DEF Stand, Message
  <1>2a. q.av_start_time <= Stand(c) + b
    BY DEF Timed
  <1>3. p.msgs = Append(q.msgs, m)
    BY DEF Pushed, QueueOf
  <1>4. /\ DOMAIN p.msgs = 1 .. n + 1 /\ DOMAIN q.msgs = 1 .. n
        /\ p.msgs[n + 1] = m /\ \A i \in 1 .. n : p.msgs[i] = q.msgs[i]
    BY <1>1, <1>3
  <1>5. IF is_av(m) /\ m.timestamp # 0
        THEN /\ p.av_start_time = (IF q.av_start_time = -1 THEN m.timestamp ELSE q.av_start_time)
             /\ p.av_end_time = m.timestamp
        ELSE p.av_start_time = q.av_start_time /\ p.av_end_time = q.av_end_time
    BY DEF Pushed, QueueOf
  <1> HIDE DEF p, n, J
  <1>6. \A i \in 1 .. n : q.msgs[i] \in Message /\ q.msgs[i].timestamp \in Nat
    <2>1. \A i \in 1 .. n : q.msgs[i] \in Message
      BY <1>1, <1>4
    <2> QED
      BY <2>1 DEF Message
  <1>7. p.av_start_time <= Stand(d) + e /\ p.av_end_time <= Stand(d) + e
    <2>1. q.av_start_time <= Stand(d) + e /\ q.av_end_time <= Stand(d) + e
      <3>1. q.av_start_time <= Stand(c) + b /\ q.av_end_time <= Stand(c) + b
        BY DEF Timed
      <3> QED
        BY ONLY <1>1, <1>2, <3>1, b \in Nat, e \in Nat
    <2>2. m.timestamp <= Stand(d) + e
      BY ONLY <1>1, <1>2, e \in Nat
    <2>3. /\ p.av_start_time \in {q.av_start_time, m.timestamp}
          /\ p.av_end_time \in {q.av_end_time, m.timestamp}
      BY ONLY <1>5
    <2> QED
      BY ONLY <2>1, <2>2, <2>3
  <1>8. d > 0 => p.av_end_time = d
    BY <1>1, <1>5 DEF Timed
  <1>9. p.av_start_time = -1 => d <= 0 /\ \A i \in DOMAIN p.msgs : p.msgs[i].timestamp = 0
    <2> SUFFICES ASSUME p.av_start_time = -1
                 PROVE  d <= 0 /\ \A i \in DOMAIN p.msgs : p.msgs[i].timestamp = 0
      OBVIOUS
    <2>1. m.timestamp = 0 /\ q.av_start_time = -1
      BY <1>1, <1>5
    <2>2. c <= 0 /\ \A i \in DOMAIN q.msgs : q.msgs[i].timestamp = 0
      BY <2>1 DEF Timed
    <2>3. d <= 0
      BY ONLY <1>2, <2>1, <2>2, d \in Nat \cup {-1}, c \in Nat \cup {-1},
              IF is_av(m) THEN m.timestamp = d /\ d >= 0 ELSE m.timestamp = 0 /\ d = c
    <2>4. ASSUME NEW i \in 1 .. n + 1 PROVE p.msgs[i].timestamp = 0
      <3>1. CASE i = n + 1
        BY ONLY <1>4, <2>1, <3>1
      <3>2. CASE i # n + 1
        <4>1. i \in 1 .. n
          BY ONLY <1>1, <3>2, i \in 1 .. n + 1
        <4> QED
          BY ONLY <1>4, <2>2, <4>1
      <3> QED
        BY ONLY <3>1, <3>2
    <2> QED
      BY ONLY <1>4, <2>3, <2>4
  <1>10. ASSUME NEW i \in DOMAIN p.msgs
         PROVE  /\ p.msgs[i].timestamp <= Stand(d) + e
                /\ is_av(p.msgs[i]) => p.msgs[i].timestamp >= p.av_start_time - e - J
    <2>1. CASE i = n + 1
      <3>1. p.msgs[i] = m
        BY <1>4, <2>1
      <3>2. is_av(m) => q.av_start_time <= m.timestamp + e
        BY ONLY <1>1, <1>2, <1>2a, b \in Nat, e \in Nat
      <3>3. p.av_start_time \in {q.av_start_time, m.timestamp}
        BY <1>5
      <3>4. is_av(m) => m.timestamp >= p.av_start_time - e - J
        <4>1. CASE p.av_start_time = q.av_start_time
          BY ONLY <1>1, <3>2, <4>1, e \in Nat
        <4>2. CASE p.av_start_time = m.timestamp
          BY ONLY <1>1, <4>2, e \in Nat
        <4> QED
          BY ONLY <3>3, <4>1, <4>2
      <3>5. m.timestamp <= Stand(d) + e
        BY ONLY <1>1, <1>2, b \in Nat, e \in Nat
      <3> QED
        BY ONLY <3>1, <3>4, <3>5
    <2>2. CASE i \in 1 .. n
      <3>1. /\ p.msgs[i] = q.msgs[i] /\ q.msgs[i].timestamp \in Nat
            /\ q.msgs[i].timestamp <= Stand(c) + b
            /\ is_av(q.msgs[i]) => q.msgs[i].timestamp >= q.av_start_time - b - J
        BY <1>4, <1>6, <2>2 DEF Timed, J
      <3>2. CASE p.av_start_time = q.av_start_time
        <4>1. PICK x \in Int : /\ x = p.msgs[i].timestamp /\ x <= Stand(c) + b
                               /\ is_av(p.msgs[i]) => x >= p.av_start_time - b - J
          BY ONLY <3>1, <3>2
        <4>2. /\ b \in Int /\ e \in Int /\ J \in Int /\ b <= e /\ p.av_start_time \in Int
              /\ Stand(c) + b \in Int /\ Stand(d) + e \in Int /\ Stand(c) + b <= Stand(d) + e
          <5>1. b \in Int /\ e \in Int
            BY ONLY b \in Nat, e \in Nat
          <5>2. b <= e /\ Stand(c) + b <= Stand(d) + e
            BY ONLY <1>2, <5>1
          <5>3. Stand(c) + b \in Int /\ Stand(d) + e \in Int
            BY ONLY <1>2, <5>1
          <5>4. J \in Int
            BY ONLY <1>1
          <5>5. p.av_start_time \in Int
            BY ONLY <1>1, <3>2
          <5> QED
            BY ONLY <5>1, <5>2, <5>3, <5>4, <5>5
        <4>3. x <= Stand(d) + e
          BY ONLY <4>1, <4>2, Later
        <4>4. is_av(p.msgs[i]) => x >= p.av_start_time - e - J
          BY ONLY <4>1, <4>2, Wider
        <4> QED
          BY ONLY <4>1, <4>3, <4>4
      <3>3. CASE p.av_start_time # q.av_start_time
        <4>1. q.av_start_time = -1 /\ p.av_start_time = d
          BY <1>5, <3>3
        <4>2. c <= 0 /\ q.msgs[i].timestamp = 0
          BY <1>4, <2>2, <4>1 DEF Timed
        <4>3. d <= J
          BY <1>1, <4>2 DEF J
        <4>4. d \in Nat \cup {-1} /\ J \in Nat /\ e \in Nat /\ Stand(d) \in Nat
          BY ONLY <1>1, <1>2, d \in Nat \cup {-1}, e \in Nat
        <4>5. p.msgs[i].timestamp = 0
          BY ONLY <3>1, <4>2
        <4>6. 0 <= Stand(d) + e /\ 0 >= d - e - J
          BY ONLY <4>3, <4>4
        <4> QED
          BY ONLY <4>1, <4>5, <4>6
      <3> QED
        BY <3>2, <3>3
    <2> QED
      BY <1>1, <1>4, <2>1, <2>2
  <1>11. ASSUME NEW i \in DOMAIN p.msgs, NEW j \in DOMAIN p.msgs, i < j, is_av(p.msgs[j])
         PROVE  p.msgs[j].timestamp >= p.msgs[i].timestamp - e
    <2>1. i \in 1 .. n /\ p.msgs[i] = q.msgs[i] /\ q.msgs[i].timestamp \in Nat
      <3>1. n \in Nat /\ i \in 1 .. n + 1 /\ j \in 1 .. n + 1 /\ i < j
        BY ONLY <1>1, <1>4, <1>11
      <3>2. i \in 1 .. n
        BY ONLY <3>1
      <3> QED
        BY ONLY <1>4, <1>6, <3>2
    <2>2. CASE j = n + 1
      <3>1. p.msgs[j] = m /\ q.msgs[i].timestamp <= Stand(c) + b
        BY <1>4, <2>1, <2>2 DEF Timed
      <3>2. m.timestamp = Stand(d)
        BY <1>2, <1>11, <3>1
      <3> QED
        <4>1. PICK x \in Int : x = q.msgs[i].timestamp /\ x <= Stand(c) + b
          BY ONLY <2>1, <3>1
        <4>2. x - e <= Stand(d)
          BY ONLY <1>2, <4>1, b \in Nat, e \in Nat
        <4> QED
          BY ONLY <2>1, <3>1, <3>2, <4>1, <4>2
    <2>3. CASE j \in 1 .. n
      <3>1. p.msgs[j] = q.msgs[j] /\ q.msgs[j].timestamp \in Nat
        BY <1>4, <1>6, <2>3
      <3>2. q.msgs[j].timestamp >= q.msgs[i].timestamp - b
        BY <1>4, <1>11, <2>1, <2>3, <3>1 DEF Timed
      <3>3. \A x, y \in Nat : y >= x - b => y >= x - e
        BY <1>2
      <3> QED
        BY ONLY <2>1, <3>1, <3>2, <3>3
    <2> QED
      BY <1>1, <1>4, <2>2, <2>3
  <1> QED
    BY <1>7, <1>8, <1>9, <1>10, <1>11 DEF Timed, p, J

\* The headers that shrink() keeps are as new as the newest frame.
LEMMA EnqueueTimed ==
    ASSUME NEW q \in QueueOf(Message), NEW m \in Message, NEW b \in Nat,
           NEW c \in Nat \cup {-1}, Timed(Pushed(q, m), c, b)
    PROVE  Timed(enqueue(q, m), c, b)
  <1> DEFINE p == Pushed(q, m)
  <1>1. p \in QueueOf(Message)
    BY PushedType, MessageRetimable
  <1>2. enqueue(q, m) = IF overflows(p) THEN shrink(p) ELSE p
    BY DEF enqueue
  <1> HIDE DEF p
  <1>3. CASE overflows(p)
    <2> DEFINE s == shrink(p)
    <2>1. p.av_end_time \in Nat /\ Stand(c) \in Nat /\ CONST_MAX_JITTER_MS \in Nat
      BY <1>1, <1>3, JitterAssumption DEF overflows, duration, QueueOf, Stand
    <2>2. /\ s.av_start_time = p.av_end_time /\ s.av_end_time = p.av_end_time
          /\ \A i \in DOMAIN s.msgs : s.msgs[i].timestamp = p.av_end_time
      BY <1>1, <2>1, ShrinkTimes
    <2> HIDE DEF s
    <2>3. Timed(s, c, b)
      BY <2>1, <2>2 DEF Timed, p
    <2> QED
      BY <1>2, <1>3, <2>3 DEF s
  <1>4. CASE ~overflows(p)
    BY <1>2, <1>4 DEF p
  <1> QED
    BY <1>3, <1>4

\* A dump leaves the later messages, and the time of the last it handed out.
LEMMA DumpTimed ==
    ASSUME NEW q \in QueueOf(Message), NEW n \in Nat \ {0}, size(q) > 0,
           NEW b \in Nat, NEW c \in Nat \cup {-1}, Timed(q, c, b)
    PROVE  Timed(AfterDump(q, n), c, b)
  <1> DEFINE k == DumpCount(q, n)
             r == AfterDump(q, n)
  <1>1. q.msgs \in Seq(Message) /\ Len(q.msgs) \in Nat /\ Len(q.msgs) # 0
    BY DEF QueueOf, size
  <1>2. k \in 1 .. Len(q.msgs)
    BY <1>1 DEF DumpCount, size
  <1>3. r = [q EXCEPT !.msgs = SubSeq(@, k + 1, Len(@)), !.av_start_time = q.msgs[k].timestamp]
    BY <1>1 DEF AfterDump, size
  <1>4. /\ r.msgs = SubSeq(q.msgs, k + 1, Len(q.msgs))
        /\ r.av_start_time = q.msgs[k].timestamp /\ r.av_end_time = q.av_end_time
    BY <1>3 DEF QueueOf
  <1> HIDE DEF r, k
  <1>5. /\ DOMAIN r.msgs = 1 .. Len(q.msgs) - k
        /\ \A i \in DOMAIN r.msgs : k + i \in DOMAIN q.msgs /\ r.msgs[i] = q.msgs[k + i]
    <2>1. /\ Len(r.msgs) = Len(q.msgs) - k /\ r.msgs \in Seq(Message)
          /\ \A i \in 1 .. Len(q.msgs) - k : r.msgs[i] = q.msgs[k + i]
      BY ONLY <1>1, <1>2, <1>4
    <2>2. DOMAIN r.msgs = 1 .. Len(q.msgs) - k /\ DOMAIN q.msgs = 1 .. Len(q.msgs)
      BY ONLY <1>1, <2>1
    <2>3. \A i \in 1 .. Len(q.msgs) - k : k + i \in 1 .. Len(q.msgs)
      BY ONLY <1>1, <1>2
    <2> QED
      BY ONLY <2>1, <2>2, <2>3
  <1>6. k \in DOMAIN q.msgs /\ \A i \in DOMAIN q.msgs : q.msgs[i].timestamp \in Nat
    <2>1. k \in DOMAIN q.msgs /\ \A i \in DOMAIN q.msgs : q.msgs[i] \in Message
      BY <1>1, <1>2
    <2> QED
      BY <2>1 DEF Message
  <1>7. Stand(c) \in Nat /\ CONST_MAX_JITTER_MS \in Nat
    BY JitterAssumption DEF Stand
  <1>8. r.av_start_time \in Nat /\ r.av_start_time <= Stand(c) + b
        /\ r.av_end_time <= Stand(c) + b /\ (c > 0 => r.av_end_time = c)
    BY <1>4, <1>6 DEF Timed
  <1>9. ASSUME NEW i \in DOMAIN r.msgs
        PROVE  /\ r.msgs[i].timestamp <= Stand(c) + b
               /\ is_av(r.msgs[i]) =>
                     r.msgs[i].timestamp >= r.av_start_time - b - CONST_MAX_JITTER_MS
    <2>1. k + i \in DOMAIN q.msgs /\ r.msgs[i] = q.msgs[k + i] /\ k < k + i
      BY <1>2, <1>5
    <2>2. q.msgs[k + i].timestamp <= Stand(c) + b
      BY <2>1 DEF Timed
    <2>3. is_av(q.msgs[k + i]) => q.msgs[k + i].timestamp >= q.msgs[k].timestamp - b
      BY <1>6, <2>1 DEF Timed
    <2> QED
      <3>1. PICK x \in Int, s \in Int :
               x = r.msgs[i].timestamp /\ s = r.av_start_time /\ x <= Stand(c) + b
        <4>1. r.msgs[i].timestamp \in Nat
          BY ONLY <1>6, <2>1
        <4>2. r.msgs[i].timestamp <= Stand(c) + b
          BY ONLY <2>1, <2>2
        <4> QED
          BY ONLY <1>8, <4>1, <4>2
      <3>2. is_av(r.msgs[i]) => x >= s - b
        BY ONLY <1>4, <2>1, <2>3, <3>1
      <3>3. \A y \in Int : y >= s - b => y >= s - b - CONST_MAX_JITTER_MS
        BY ONLY <1>7, <3>1, b \in Nat
      <3> QED
        BY ONLY <3>1, <3>2, <3>3
  <1>10. ASSUME NEW i \in DOMAIN r.msgs, NEW j \in DOMAIN r.msgs, i < j, is_av(r.msgs[j])
         PROVE  r.msgs[j].timestamp >= r.msgs[i].timestamp - b
    <2>1. /\ k + i \in DOMAIN q.msgs /\ r.msgs[i] = q.msgs[k + i]
          /\ k + j \in DOMAIN q.msgs /\ r.msgs[j] = q.msgs[k + j] /\ k + i < k + j
      BY <1>2, <1>5, <1>10
    <2> QED
      BY <1>10, <2>1 DEF Timed
  <1> QED
    BY <1>8, <1>9, <1>10 DEF Timed, r

\* The times of a player's queue fit its timeline in every reachable state.
LEMMA TimedAlways == Spec => []TimedInv
  <1>1. Init => TimedInv
    <2> SUFFICES ASSUME Init PROVE TimedInv
      OBVIOUS
    <2>1. /\ queue.msgs = << >> /\ queue.av_start_time = -1 /\ queue.av_end_time = -1
          /\ jitter.last_pkt_correct_time = -1 /\ back = 0
      BY DEF Init, NewQueue, NewJitter
    <2> QED
      BY <2>1 DEF TimedInv, Timed, Stand
  <1>2. TypeOK /\ TimedInv /\ [Next]_vars => TimedInv'
    <2> SUFFICES ASSUME TypeOK, TimedInv, [Next]_vars PROVE TimedInv'
      OBVIOUS
    <2> DEFINE c == jitter.last_pkt_correct_time
    <2>0. queue \in QueueOf(Message) /\ jitter \in JitterState /\ back \in Nat
          /\ c \in Nat \cup {-1} /\ nmsg \in Nat
      BY DEF QueueOf, TypeOK, JitterState
    <2>1. CASE SetQueueSize
      <3>1. /\ queue' = [queue EXCEPT !.max_queue_size = QueueLength]
            /\ jitter' = jitter /\ back' = back
        BY <2>1 DEF SetQueueSize, set_queue_size
      <3>2. /\ queue'.msgs = queue.msgs /\ queue'.av_start_time = queue.av_start_time
            /\ queue'.av_end_time = queue.av_end_time
        BY <2>0, <3>1 DEF QueueOf
      <3> QED
        BY <3>1, <3>2 DEF TimedInv, Timed
    <2>2. ASSUME NEW k \in SentKinds, NEW t \in Stamps, Enqueue(k, t) PROVE TimedInv'
      <3> DEFINE m == [kind |-> k, timestamp |-> t, id |-> nmsg + 1]
                 o == CorrectedMsg(jitter, m)
                 d == jitter'.last_pkt_correct_time
      <3>1. m \in Message /\ m.timestamp = t /\ t \in Nat
        BY <2>0, ConsumerQueueAssumption DEF Message
      <3>2. /\ queue' = enqueue(queue, o) /\ jitter' = CorrectedJitter(jitter, m)
            /\ back' = IF Now' < Now THEN back + Now - Now' ELSE back
        BY <2>2 DEF Enqueue
      <3> HIDE DEF m
      <3>3. o \in Message /\ jitter' \in JitterState
        BY <2>0, <3>1, <3>2, CorrectedTypes, MessageRetimable
      <3>4. is_av(o) <=> is_av(m)
        BY <3>1 DEF CorrectedMsg, Message, is_av, is_audio, is_video
      <3>5. o.timestamp = IF is_av(m) THEN CorrectTime(jitter, t) ELSE 0
        BY <3>1 DEF CorrectedMsg, Message
      <3>6. d = IF is_av(m) THEN CorrectTime(jitter, t) ELSE c
        BY <3>1, <3>2 DEF CorrectedJitter
      <3>7. d \in Nat \cup {-1}
        BY <3>3 DEF JitterState
      <3>8. CorrectTime(jitter, t) \in Nat /\ d - c <= CONST_MAX_JITTER_MS
        BY <2>0, <3>1, <3>6, CorrectTimeBounds, JitterAssumption
      <3>9. IF is_av(o) THEN o.timestamp = d /\ d >= 0 ELSE o.timestamp = 0 /\ d = c
        BY <3>4, <3>5, <3>6, <3>8
      <3>10. /\ Now = Stand(c) /\ Now' = Stand(d) /\ back' \in Nat
        BY <2>0, <3>2, <3>7 DEF Now, Stand
      <3>11. back' = IF Stand(d) < Stand(c) THEN back + Stand(c) - Stand(d) ELSE back
        BY <3>2, <3>10
      <3> HIDE DEF o, d, c
      <3>12. Timed(queue, c, back)
        BY DEF TimedInv, c
      <3>13. Timed(Pushed(queue, o), d, back')
        BY <2>0, <3>3, <3>7, <3>8, <3>9, <3>10, <3>11, <3>12, PushedTimed
      <3>14. Timed(enqueue(queue, o), d, back')
        BY <2>0, <3>3, <3>7, <3>10, <3>13, EnqueueTimed
      <3> QED
        BY <3>2, <3>14 DEF TimedInv, d
    <2>3. CASE DumpPackets
      <3>1. /\ size(queue) > 0 /\ queue' = AfterDump(queue, MwMsgs)
            /\ jitter' = jitter /\ back' = back
        BY <2>3 DEF DumpPackets
      <3>2. Timed(AfterDump(queue, MwMsgs), c, back)
        BY <2>0, <3>1, DumpTimed, ConsumerQueueAssumption DEF TimedInv
      <3> QED
        BY <3>1, <3>2 DEF TimedInv
    <2>4. CASE UNCHANGED vars
      BY <2>4 DEF vars, TimedInv
    <2> QED
      BY <2>1, <2>2, <2>3, <2>4 DEF Next
  <1> QED
    BY <1>1, <1>2, TypeCorrect, PTL DEF Spec

\* However slow a player is, and whatever the encoder's clock does, what is kept for
\* it is of the last stretch of its timeline, no longer than the limit of the queue
\* and what the timeline stepped back (SrsMessageQueue::enqueue and shrink).
THEOREM BacklogIsRecent == Spec => BacklogRecent
  <1>1. TypeOK /\ TypeOK' /\ TimedInv' /\ [Next]_vars =>
          [ nmsg' # nmsg /\ queue.max_queue_size > 0
              => \A i \in DOMAIN queue'.msgs :
                    is_av(queue'.msgs[i]) =>
                        queue'.msgs[i].timestamp
                            \in Now' - queue.max_queue_size - back' - CONST_MAX_JITTER_MS
                                 .. Now' + back' ]_vars
    <2> SUFFICES ASSUME TypeOK, TypeOK', TimedInv', Next, nmsg' # nmsg,
                        queue.max_queue_size > 0,
                        NEW i \in DOMAIN queue'.msgs, is_av(queue'.msgs[i])
                 PROVE  queue'.msgs[i].timestamp
                            \in Now' - queue.max_queue_size - back' - CONST_MAX_JITTER_MS
                                 .. Now' + back'
      OBVIOUS
    <2> DEFINE d == jitter'.last_pkt_correct_time
               x == queue'.msgs[i].timestamp
    <2>1. PICK k \in SentKinds, t \in Stamps : Enqueue(k, t)
      BY DEF Next, SetQueueSize, DumpPackets
    <2> DEFINE m == [kind |-> k, timestamp |-> t, id |-> nmsg + 1]
    <2>2. queue' = enqueue(queue, CorrectedMsg(jitter, m))
      BY <2>1 DEF Enqueue
    <2>3. m \in Message
      BY ConsumerQueueAssumption DEF Message, TypeOK
    <2> HIDE DEF m
    <2>4. CorrectedMsg(jitter, m) \in Message
      BY <2>3, CorrectedTypes, MessageRetimable DEF TypeOK
    <2>5. queue \in QueueOf(Message)
      BY DEF TypeOK, QueueOf
    <2>6. duration(queue') <= queue.max_queue_size
      BY <2>2, <2>4, <2>5, EnqueueType, MessageRetimable
    <2>7. /\ d \in Nat \cup {-1} /\ back' \in Nat /\ queue.max_queue_size \in Nat
          /\ queue'.av_start_time \in Nat \cup {-1} /\ queue'.av_end_time \in Nat \cup {-1}
          /\ x \in Nat /\ CONST_MAX_JITTER_MS \in Nat
      <3>1. queue'.msgs[i] \in Message
        BY DEF TypeOK
      <3> QED
        BY <3>1, JitterAssumption DEF TypeOK, JitterState, Message
    <2>8. Now' = Stand(d)
      BY DEF Now, Stand
    <2>9. /\ x <= Stand(d) + back' /\ (d > 0 => queue'.av_end_time = d)
          /\ x >= queue'.av_start_time - back' - CONST_MAX_JITTER_MS
          /\ queue'.av_start_time = -1 => d <= 0
      BY DEF TimedInv, Timed
    <2> HIDE DEF d, x
    <2>10. CASE d > 0
      <3>1. d - queue'.av_start_time <= queue.max_queue_size
        BY <2>6, <2>9, <2>10 DEF duration
      <3> QED
        BY <2>7, <2>8, <2>9, <2>10, <3>1 DEF Stand, x
    <2>11. CASE ~(d > 0)
      BY <2>7, <2>8, <2>9, <2>11 DEF Stand, x
    <2> QED
      BY <2>10, <2>11
  <1> QED
    BY <1>1, TypeCorrect, TimedAlways, PTL DEF Spec, BacklogRecent

-----------------------------------------------------------------------------
(* The GOP cache.                                                            *)

\* The inductive invariant.  An empty count of video frames, or a cache that is
\* switched off, means an empty cache: without it a message that is not cached
\* could follow cached ones, and the cache would no longer end with the newest.
GopIInv ==
    /\ GopTypeOK
    /\ gop.cached_video_count = 0 \/ ~gop.enable_gop_cache => gop.gop_cache = << >>
    /\ Len(gop.gop_cache) <= Len(log)
    /\ \A i \in 1 .. Len(gop.gop_cache) :
          gop.gop_cache[i] = log[Len(log) - Len(gop.gop_cache) + i]
    /\ OneGop
    /\ GopBounded

\* The configuration that stream_service_cycle sets starts with an empty cache.
LEMMA GopInitially == GopInit => GopIInv
  <1> SUFFICES ASSUME GopInit PROVE GopIInv
    OBVIOUS
  <1>1. PICK enabled \in BOOLEAN :
          gop = GopSetMaxFrames(GopSet(NewGop, enabled), GopCacheMaxFrames)
    BY DEF GopInit
  <1>2. gop \in GopOf(GopMessage) /\ gop.gop_cache = << >>
    BY <1>1, GopCacheSpecAssumption, GopInitType
  <1>3. log = << >> /\ npublished = 0
    BY DEF GopInit
  <1> QED
    BY <1>2, <1>3 DEF GopIInv, GopTypeOK, GopOf, OneGop, GopBounded

\* A message that is cached or not (SrsGopCache::cache).
LEMMA CacheKeeps ==
    ASSUME GopIInv, NEW k \in CachedKinds, Cache(k)
    PROVE  GopIInv'
  <1> DEFINE m == [kind |-> k, id |-> npublished + 1]
  <1>1. m \in GopMessage /\ m.kind = k
    BY DEF GopIInv, GopTypeOK, GopMessage
  <1>2. /\ gop' = GopAdd(gop, m) /\ npublished' = npublished + 1
        /\ log' = IF is_audio(m) \/ h264(m) THEN Append(log, m) ELSE log
    BY DEF Cache
  <1> HIDE DEF m
  <1>3. gop \in GopOf(GopMessage) /\ log \in Seq(GopMessage) /\ npublished \in Nat
        /\ gop.gop_cache \in Seq(GopMessage) /\ gop.gop_cache_max_frames \in Nat
    BY DEF GopIInv, GopTypeOK, GopOf
  <1>4. /\ gop' \in GopOf(GopMessage)
        /\ gop'.enable_gop_cache = gop.enable_gop_cache
        /\ gop'.gop_cache_max_frames = gop.gop_cache_max_frames
        /\ \/ /\ gop' = gop
              /\ \/ ~gop.enable_gop_cache
                 \/ is_video(m) /\ ~h264(m)
                 \/ pure_audio(gop) /\ ~is_video(m)
           \/ /\ gop'.gop_cache = << >>
              /\ gop'.cached_video_count = 0
           \/ /\ is_video(m) => h264(m)
              /\ gop'.gop_cache
                    = IF is_video(m) /\ keyframe(m) THEN <<m>> ELSE Append(gop.gop_cache, m)
              /\ gop'.cached_video_count > 0
              /\ ~GopTooLong(gop')
    BY <1>1, <1>2, <1>3, GopAddCases
  <1>5. log' \in Seq(GopMessage) /\ Len(log') \in Nat /\ Len(log) \in Nat /\ Len(log') >= Len(log)
    BY <1>1, <1>2, <1>3
  <1>6. GopTypeOK'
    BY <1>2, <1>3, <1>4, <1>5 DEF GopTypeOK, GopOf
  <1>7. CASE gop' = gop /\ log' = log
    BY <1>6, <1>7 DEF GopIInv, OneGop, GopBounded
  <1>8. CASE gop'.gop_cache = << >>
    BY <1>3, <1>4, <1>5, <1>6, <1>8 DEF GopIInv, OneGop, GopBounded
  <1>9. CASE /\ is_video(m) => h264(m)
             /\ gop'.gop_cache
                   = IF is_video(m) /\ keyframe(m) THEN <<m>> ELSE Append(gop.gop_cache, m)
             /\ gop'.cached_video_count > 0
             /\ ~GopTooLong(gop')
    <2>1. log' = Append(log, m)
      BY <1>1, <1>2, <1>9 DEF CachedKinds, is_audio, is_video, h264
    <2>2. Len(log') = Len(log) + 1 /\ log'[Len(log) + 1] = m
          /\ \A i \in 1 .. Len(log) : log'[i] = log[i]
      BY <1>3, <2>1
    <2>3. gop.enable_gop_cache \/ gop.gop_cache = << >>
      BY DEF GopIInv
    <2>4. GopBounded'
      BY <1>3, <1>4, <1>9 DEF GopTooLong, GopBounded
    <2>5. gop'.cached_video_count # 0
      BY <1>4, <1>9 DEF GopOf
    <2>6. CASE ~gop.enable_gop_cache
      <3>1. gop' = gop
        BY <1>2, <2>6 DEF GopAdd
      <3> QED
        BY <1>3, <1>5, <1>6, <2>3, <2>6, <3>1, <1>8
    <2>7. CASE gop.enable_gop_cache /\ is_video(m) /\ keyframe(m)
      <3>1. gop'.gop_cache = <<m>> /\ Len(gop'.gop_cache) = 1 /\ gop'.gop_cache[1] = m
        BY <1>9, <2>7
      <3>2. OneGop'
        BY <3>1 DEF OneGop
      <3> QED
        BY <1>4, <1>5, <1>6, <2>2, <2>4, <2>5, <2>7, <3>1, <3>2 DEF GopIInv
    <2>8. CASE gop.enable_gop_cache /\ ~(is_video(m) /\ keyframe(m))
      <3> DEFINE o == gop.gop_cache
                 n == gop'.gop_cache
      <3>1. n = Append(o, m)
        BY <1>9, <2>8
      <3>2. o \in Seq(GopMessage) /\ Len(o) \in Nat /\ Len(o) <= Len(log)
            /\ \A i \in 1 .. Len(o) : o[i] = log[Len(log) - Len(o) + i]
        <4>1. o \in Seq(GopMessage) /\ Len(o) \in Nat
          BY <1>3
        <4>2. Len(gop.gop_cache) <= Len(log)
              /\ \A i \in 1 .. Len(gop.gop_cache) :
                    gop.gop_cache[i] = log[Len(log) - Len(gop.gop_cache) + i]
          BY Zenon DEF GopIInv
        <4> QED
          BY <4>1, <4>2
      <3>3. Len(n) = Len(o) + 1 /\ n[Len(o) + 1] = m /\ \A i \in 1 .. Len(o) : n[i] = o[i]
        BY <3>1, <3>2
      <3> HIDE DEF o, n
      <3>4. ASSUME NEW i \in 1 .. Len(n) PROVE n[i] = log'[Len(log') - Len(n) + i]
        <4>1. CASE i = Len(o) + 1
          BY <1>5, <2>2, <3>2, <3>3, <4>1
        <4>2. CASE i \in 1 .. Len(o)
          <5>1. Len(log) - Len(o) + i \in 1 .. Len(log)
            BY <1>5, <3>2, <4>2
          <5>2. Len(log') - Len(n) + i = Len(log) - Len(o) + i
            BY <1>5, <2>2, <3>2, <3>3, <4>2
          <5> QED
            BY <2>2, <3>2, <3>3, <4>2, <5>1, <5>2
        <4> QED
          BY <3>2, <3>3, <4>1, <4>2
      <3>5. OneGop'
        <4>1. m.kind # "key"
          BY <2>8 DEF is_video, keyframe
        <4>2. \A i \in DOMAIN o : o[i].kind = "key" => i = 1
          BY DEF GopIInv, OneGop, o
        <4>3. DOMAIN n = 1 .. Len(o) + 1 /\ DOMAIN o = 1 .. Len(o)
          BY <3>1, <3>2
        <4>4. \A i \in DOMAIN n : n[i].kind = "key" => i = 1
          BY <3>2, <3>3, <4>1, <4>2, <4>3
        <4> QED
          BY <4>4 DEF OneGop, n
      <3>6. Len(n) <= Len(log')
        BY <1>5, <2>2, <3>2, <3>3
      <3> QED
        BY <1>4, <1>6, <2>4, <2>5, <2>8, <3>4, <3>5, <3>6 DEF GopIInv, n
    <2> QED
      BY <2>6, <2>7, <2>8
  <1>10. CASE /\ gop' = gop
              /\ \/ ~gop.enable_gop_cache
                 \/ is_video(m) /\ ~h264(m)
                 \/ pure_audio(gop) /\ ~is_video(m)
    <2>1. CASE is_video(m) /\ ~h264(m)
      <3>1. log' = log
        BY <1>2, <2>1 DEF is_video, is_audio
      <3> QED
        BY <1>7, <1>10, <3>1
    <2>2. CASE ~gop.enable_gop_cache \/ pure_audio(gop)
      <3>1. gop'.gop_cache = << >>
        BY <1>10, <2>2 DEF GopIInv, pure_audio
      <3> QED
        BY <1>8, <3>1
    <2> QED
      BY <1>10, <2>1, <2>2
  <1> QED
    BY <1>4, <1>8, <1>9, <1>10

\* The end of a publish session (gop_cache->clear() in on_unpublish).
LEMMA UnpublishKeeps ==
    ASSUME GopIInv, Unpublish
    PROVE  GopIInv'
  <1>1. gop \in WideGopOf(GopMessage)
    BY GuessAssumption DEF GopIInv, GopTypeOK, WideGopOf
  <1>2. gop' = GopClear(gop) /\ log' = << >> /\ npublished' = npublished
    BY DEF Unpublish
  <1>3. gop' \in GopOf(GopMessage) /\ gop'.gop_cache = << >>
        /\ gop'.gop_cache_max_frames = gop.gop_cache_max_frames
    BY <1>1, <1>2, GopClearType
  <1> QED
    BY <1>2, <1>3 DEF GopIInv, GopTypeOK, GopOf, OneGop, GopBounded

\* Every reachable state of the cache satisfies the inductive invariant.
THEOREM GopInductive == GopSpec => []GopIInv
  <1>1. GopIInv /\ [GopNext]_gopVars => GopIInv'
    <2> SUFFICES ASSUME GopIInv, [GopNext]_gopVars PROVE GopIInv'
      OBVIOUS
    <2>1. ASSUME NEW k \in CachedKinds, Cache(k) PROVE GopIInv'
      BY <2>1, CacheKeeps
    <2>2. CASE Unpublish
      BY <2>2, UnpublishKeeps
    <2>3. CASE UNCHANGED gopVars
      BY <2>3 DEF gopVars, GopIInv, GopTypeOK, OneGop, GopBounded
    <2> QED
      BY <2>1, <2>2, <2>3 DEF GopNext
  <1> QED
    BY <1>1, GopInitially, PTL DEF GopSpec

\* The counters of the cache stay in range, so the comparison with the guess count
\* is made on every audio message (SrsGopCache::cache).
THEOREM GopTypeCorrect == GopSpec => []GopTypeOK
  <1>1. GopIInv => GopTypeOK
    BY DEF GopIInv
  <1> QED
    BY <1>1, GopInductive, PTL

\* What a joining player is given is a gap-free run of the session up to now.
THEOREM AlwaysRecent == GopSpec => []GopIsRecent
  <1>1. GopIInv => GopIsRecent
    <2> SUFFICES ASSUME GopIInv PROVE GopIsRecent
      OBVIOUS
    <2> DEFINE o == gop.gop_cache
               r == SubSeq(log, Len(log) - Len(o) + 1, Len(log))
    <2>1. o \in Seq(GopMessage) /\ log \in Seq(GopMessage)
      BY DEF GopIInv, GopTypeOK
    <2>2. Len(o) \in Nat /\ Len(log) \in Nat /\ Len(o) <= Len(log)
          /\ \A i \in 1 .. Len(o) : o[i] = log[Len(log) - Len(o) + i]
      <3>1. Len(o) \in Nat /\ Len(log) \in Nat
        BY <2>1
      <3>2. Len(gop.gop_cache) <= Len(log)
            /\ \A i \in 1 .. Len(gop.gop_cache) :
                  gop.gop_cache[i] = log[Len(log) - Len(gop.gop_cache) + i]
        BY Zenon DEF GopIInv
      <3> QED
        BY <3>1, <3>2
    <2> HIDE DEF o
    <2>3. r \in Seq(GopMessage) /\ Len(r) = Len(o)
          /\ \A i \in 1 .. Len(o) : r[i] = log[Len(log) - Len(o) + i]
      BY <2>1, <2>2
    <2> HIDE DEF r
    <2>4. o = r
      BY <2>1, <2>2, <2>3
    <2> QED
      BY <2>2, <2>4 DEF GopIsRecent, o, r
  <1> QED
    BY <1>1, GopInductive, PTL

\* A joining player is given at most one GOP, and at most the configured number of
\* messages, also when key frames never come.
THEOREM OneBoundedGop == GopSpec => [](OneGop /\ GopBounded)
  <1>1. GopIInv => OneGop /\ GopBounded
    BY DEF GopIInv
  <1> QED
    BY <1>1, GopInductive, PTL
=============================================================================
