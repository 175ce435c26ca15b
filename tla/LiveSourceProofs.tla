-------------------------- MODULE LiveSourceProofs --------------------------
(***************************************************************************)
(* Proofs about SrsLiveSource and the threads that share it, for any number *)
(* of publishers and players and every configuration.                       *)
(***************************************************************************)
EXTENDS LiveSource, SourceLemmas, SequenceTheorems

\* Where each thread may be, which mutex it holds there, and what the loops over
\* the consumers may still visit.
Control ==
    /\ \A t \in Publishers : pc[t] \in PublisherPc
    /\ \A p \in Players : pc[p] \in PlayerPc
    /\ \A t \in Threads : srcLock = t <=> pc[t] \in {"notifying", "fanout", "dumping"}
    /\ \A p \in Players :
          consLock[p] = IF pc[p] \in {"srcid", "presrcid"} THEN p ELSE NoThread
    /\ \A p \in Players : p \in consumers <=> pc[p] # "idle"
    /\ pending \subseteq consumers
    /\ pending # {} => srcLock \in Publishers
    /\ \A t \in Publishers : pc[t] = "fanout" => msg \in Message

\* Messages may be given another timestamp.
LEMMA MessageRetimable == Retimable(Message)
  BY DEF Retimable, Message

\* The named sets of the model are the ones the lemmas are stated with.
LEMMA SameTypes == Queues = QueueOf(Message) /\ Gops = GopOf(Message)
  BY DEF Queues, QueueOf, Gops, GopOf

\* The source starts well-typed.
LEMMA InitType == Init => TypeOK
  <1> SUFFICES ASSUME Init PROVE TypeOK
    OBVIOUS
  <1>1. NewQueue \in Queues /\ NewJitter \in JitterState /\ NewMeta \in Metas
    BY DEF NewQueue, Queues, NewJitter, JitterState, NewMeta, Metas
  <1>2. gop \in Gops
    BY GopInitType, SameTypes, LiveSourceAssumption DEF Init
  <1>3. SourceType
    BY <1>1, <1>2 DEF Init, SourceType
  <1>4. ConsumerType
    BY <1>1 DEF Init, ConsumerType
  <1>5. ThreadType
    BY DEF Init, ThreadType, PublisherPc
  <1>6. HistoryType
    BY DEF Init, HistoryType
  <1> QED
    BY <1>3, <1>4, <1>5, <1>6 DEF TypeOK

\* SrsLiveConsumer::enqueue keeps the consumer well-formed.
LEMMA EnqueueToType ==
    ASSUME TypeOK, NEW p \in Players, NEW m \in Message, EnqueueTo(p, m), UNCHANGED consLock
    PROVE  ConsumerType'
  <1>1. queue[p] \in QueueOf(Message) /\ jitter[p] \in JitterState
    BY SameTypes DEF TypeOK, ConsumerType
  <1>2. CorrectedMsg(jitter[p], m) \in Message /\ CorrectedJitter(jitter[p], m) \in JitterState
    BY <1>1, CorrectedTypes, MessageRetimable
  <1>3. enqueue(queue[p], CorrectedMsg(jitter[p], m)) \in Queues
    BY <1>1, <1>2, EnqueueType, MessageRetimable, SameTypes
  <1>4. queue' \in [Players -> Queues] /\ jitter' \in [Players -> JitterState]
    BY <1>2, <1>3 DEF TypeOK, ConsumerType, EnqueueTo
  <1>5. mw_waiting' \in [Players -> BOOLEAN]
    BY Zenon DEF TypeOK, ConsumerType, EnqueueTo
  <1> QED
    BY <1>4, <1>5 DEF TypeOK, ConsumerType, EnqueueTo

\* Every step of a publisher keeps the types: what it fans out is a message, and the
\* caches and queues take it (SrsLiveSource::on_publish to on_unpublish).
LEMMA PublisherType ==
    ASSUME TypeOK, Control, NEW t \in Publishers, PublisherStep(t)
    PROVE  TypeOK'
  <1> USE DEF TypeOK, SourceType, ConsumerType, ThreadType, HistoryType, Goto,
              srcVars, consVars, histVars, Threads, PublisherPc
  <1>1. CASE CanPublish(t)
    BY <1>1 DEF CanPublish
  <1>2. CASE OnPublishBusy(t)
    BY <1>2 DEF OnPublishBusy
  <1>3. CASE OnPublish(t)
    <2>1. can_publish' \in BOOLEAN
      BY <1>3, Zenon DEF OnPublish
    <2>2. ConsumerType' /\ HistoryType'
      BY <1>3 DEF OnPublish
    <2>3. ThreadType'
      BY <1>3 DEF OnPublish
    <2>4. SourceType'
      BY <1>3, <2>1 DEF OnPublish
    <2> QED
      BY <2>2, <2>3, <2>4
  <1>4. ASSUME NEW p \in Players, UpdateSourceId(t, p) PROVE TypeOK'
    BY <1>4 DEF UpdateSourceId
  <1>5. CASE OnPublishEnd(t)
    <2>1. NewMeta \in Metas
      BY DEF NewMeta, Metas
    <2> QED
      BY <1>5, <2>1 DEF OnPublishEnd
  <1>6. CASE OnPublishFail(t)
    BY <1>6 DEF OnPublishFail
  <1>7. ASSUME NEW k \in Kinds, OnMessage(t, k) PROVE TypeOK'
    <2> DEFINE m == [kind |-> k, timestamp |-> nmsg + 1, id |-> nmsg + 1, session |-> session]
    <2>1. m \in Message
      BY LiveSourceAssumption DEF Message
    <2>2. msg' = m /\ meta' = IF k = "meta" THEN [meta EXCEPT !.meta = m]
                              ELSE IF video_sh(m) THEN [meta EXCEPT !.video = m]
                              ELSE meta
      BY <1>7 DEF OnMessage
    <2> HIDE DEF m
    <2>3. meta' \in Metas
      BY <2>1, <2>2 DEF Metas
    <2> QED
      BY <1>7, <2>1, <2>2, <2>3 DEF OnMessage
  <1>8. ASSUME NEW p \in Players, Enqueue(t, p) PROVE TypeOK'
    <2>1. msg \in Message
      BY <1>8 DEF Enqueue, Control
    <2>2. ConsumerType'
      BY <1>8, <2>1, EnqueueToType DEF Enqueue
    <2>3. SourceType' /\ ThreadType' /\ HistoryType'
      BY <1>8 DEF Enqueue
    <2> QED
      BY <2>2, <2>3
  <1>9. CASE OnMessageEnd(t)
    <2>1. msg \in Message
      BY <1>9 DEF OnMessageEnd, Control
    <2>2. meta' \in Metas
      BY <1>9, <2>1 DEF OnMessageEnd, Metas
    <2>3. gop' \in Gops
      BY <1>9, <2>1, GopAddCases, SameTypes DEF OnMessageEnd
    <2> QED
      BY <1>9, <2>2, <2>3 DEF OnMessageEnd
  <1>10. CASE OnUnpublish(t)
    <2>1. gop \in WideGopOf(Message)
      BY GuessAssumption DEF Gops, WideGopOf
    <2>2. GopClear(gop) \in Gops
      BY <2>1, GopClearType, SameTypes
    <2> QED
      BY <1>10, <2>2 DEF OnUnpublish
  <1> QED
    BY <1>1, <1>2, <1>3, <1>4, <1>5, <1>6, <1>7, <1>8, <1>9, <1>10 DEF PublisherStep, PublisherInside

\* Every step of a player keeps the types (create_consumer to on_consumer_destroy).
LEMMA PlayerType ==
    ASSUME TypeOK, Control, NEW p \in Players, PlayerStep(p)
    PROVE  TypeOK'
  <1> USE DEF TypeOK, SourceType, ConsumerType, ThreadType, HistoryType, Goto,
              srcVars, consVars, histVars, Threads, PlayerPc
  <1>0. queue[p] \in QueueOf(Message) /\ jitter[p] \in JitterState /\ sent[p] \in Seq(Message)
    BY SameTypes
  <1>1. CASE CreateConsumer(p)
    BY <1>1 DEF CreateConsumer
  <1>2. CASE ConsumerDumps(p)
    <2>1. set_queue_size(queue[p], QueueLength) \in Queues
      BY <1>0, LiveSourceAssumption, SameTypes DEF set_queue_size, QueueOf
    <2>2. Prefill \in Seq(Message)
      <3> DEFINE Short == Seq(Message)
      <3>1. \A m \in Message \cup {NoMsg} : One(m) \in Short
        BY DEF One
      <3>2. One(meta.meta) \in Short /\ One(meta.audio) \in Short /\ One(meta.video) \in Short
        BY <3>1 DEF Metas
      <3>3. gop.gop_cache \in Short
        BY DEF Gops
      <3> QED
        BY <3>2, <3>3 DEF Prefill
    <2>3. todo' \in Seq(Message)
      BY <1>2, <2>2 DEF ConsumerDumps
    <2>4. queue' \in [Players -> Queues]
      BY <1>2, <2>1 DEF ConsumerDumps
    <2> QED
      BY <1>2, <2>3, <2>4 DEF ConsumerDumps
  <1>3. CASE ConsumerDumpsOne(p)
    <2>1. Head(todo) \in Message /\ Tail(todo) \in Seq(Message)
      BY <1>3 DEF ConsumerDumpsOne
    <2>2. ConsumerType'
      BY <1>3, <2>1, EnqueueToType DEF ConsumerDumpsOne
    <2>3. SourceType' /\ ThreadType' /\ HistoryType'
      BY <1>3, <2>1 DEF ConsumerDumpsOne
    <2> QED
      BY <2>2, <2>3
  <1>4. CASE ConsumerDumpsEnd(p)
    BY <1>4 DEF ConsumerDumpsEnd
  <1>5. CASE Wait(p)
    <2>1. mw_waiting' \in [Players -> BOOLEAN]
      BY <1>5, Zenon DEF Wait
    <2> QED
      BY <1>5, <2>1 DEF Wait
  <1>6. CASE Wake(p)
    BY <1>6 DEF Wake
  <1>7. ASSUME Dump(p)
        PROVE  queue' \in [Players -> Queues] /\ sent' \in [Players -> Seq(Message)]
               /\ pc' \in [Threads -> PublisherPc \cup PlayerPc]
    <2>1. Dumped(queue[p], MwMsgs) \in Seq(Message) /\ AfterDump(queue[p], MwMsgs) \in Queues
      BY <1>0, DumpType, MessageRetimable, SameTypes, LiveSourceAssumption
    <2>2. sent[p] \o Dumped(queue[p], MwMsgs) \in Seq(Message)
      BY <1>0, <2>1
    <2>3. queue' \in [Players -> Queues]
      BY <1>7, <2>1 DEF Dump
    <2>4. sent' \in [Players -> Seq(Message)]
      BY <1>7, <2>2 DEF Dump
    <2> QED
      BY <1>7, <2>3, <2>4 DEF Dump
  <1>8. CASE DumpPackets(p)
    BY <1>7, <1>8 DEF DumpPackets
  <1>9. CASE DumpPacketsLock(p)
    BY <1>9 DEF DumpPacketsLock
  <1>10. CASE ReadSourceId(p)
    BY <1>10 DEF ReadSourceId
  <1>11. CASE ReadPreSourceId(p)
    BY <1>7, <1>11 DEF ReadPreSourceId
  <1>12. CASE DestroyConsumer(p)
    <2>1. NewQueue \in Queues /\ NewJitter \in JitterState /\ << >> \in Seq(Message)
      BY DEF NewQueue, Queues, NewJitter, JitterState
    <2> QED
      BY <1>12, <2>1 DEF DestroyConsumer
  <1> QED
    BY <1>1, <1>2, <1>3, <1>4, <1>5, <1>6, <1>8, <1>9, <1>10, <1>11, <1>12
       DEF PlayerStep, PlayerLoop

\* At the start no thread is inside the source, and the stream is free.
LEMMA InitControl == Init => Control /\ SinglePublisher
  BY LiveSourceAssumption DEF Init, Control, SinglePublisher, Occupied, Threads, PublisherPc, PlayerPc

\* Only the owner of the source lock moves in and out of the sections it guards,
\* and a step of a publisher moves no player.
LEMMA PublisherControl ==
    ASSUME TypeOK, Control, SinglePublisher, NEW t \in Publishers, PublisherStep(t)
    PROVE  Control' /\ SinglePublisher'
  <1> USE LiveSourceAssumption
      DEF TypeOK, SourceType, ConsumerType, ThreadType, HistoryType, Goto,
          srcVars, consVars, histVars, Threads, PublisherPc, PlayerPc, Occupied
  <1>1. CASE CanPublish(t)
    BY <1>1 DEF CanPublish, Control, SinglePublisher
  <1>2. CASE OnPublishBusy(t)
    BY <1>2 DEF OnPublishBusy, Control, SinglePublisher
  <1>3. CASE OnPublish(t)
    BY <1>3 DEF OnPublish, Control, SinglePublisher
  <1>4. ASSUME NEW p \in Players, UpdateSourceId(t, p) PROVE Control' /\ SinglePublisher'
    BY <1>4 DEF UpdateSourceId, Control, SinglePublisher
  <1>5. CASE OnPublishEnd(t)
    BY <1>5 DEF OnPublishEnd, Control, SinglePublisher
  <1>6. CASE OnPublishFail(t)
    BY <1>6 DEF OnPublishFail, Control, SinglePublisher
  <1>7. ASSUME NEW k \in Kinds, OnMessage(t, k) PROVE Control' /\ SinglePublisher'
    <2>1. msg' \in Message
      BY <1>7 DEF OnMessage, Message
    <2>2. /\ srcLock = NoThread /\ srcLock' = t /\ pc[t] = "publishing"
          /\ pc' = [pc EXCEPT ![t] = "fanout"] /\ pending' = consumers
          /\ UNCHANGED <<can_publish, consumers, consLock>>
      BY <1>7 DEF OnMessage
    <2> QED
      BY <2>1, <2>2 DEF Control, SinglePublisher
  <1>8. ASSUME NEW p \in Players, Enqueue(t, p) PROVE Control' /\ SinglePublisher'
    BY <1>8 DEF Enqueue, EnqueueTo, Control, SinglePublisher
  <1>9. CASE OnMessageEnd(t)
    BY <1>9 DEF OnMessageEnd, Control, SinglePublisher
  <1>10. CASE OnUnpublish(t)
    <2>1. ~can_publish
      BY <1>10 DEF OnUnpublish, SinglePublisher
    <2> QED
      BY <1>10, <2>1 DEF OnUnpublish, Control, SinglePublisher
  <1> QED
    BY <1>1, <1>2, <1>3, <1>4, <1>5, <1>6, <1>7, <1>8, <1>9, <1>10 DEF PublisherStep, PublisherInside

\* The same for a step of a player: it frees its consumer only with the source lock,
\* so no loop is under way.
LEMMA PlayerControl ==
    ASSUME TypeOK, Control, SinglePublisher, NEW p \in Players, PlayerStep(p)
    PROVE  Control' /\ SinglePublisher'
  <1> USE LiveSourceAssumption
      DEF TypeOK, SourceType, ConsumerType, ThreadType, HistoryType, Goto,
          srcVars, consVars, histVars, Threads, PublisherPc, PlayerPc, Occupied
  <1>1. CASE CreateConsumer(p)
    BY <1>1 DEF CreateConsumer, Control, SinglePublisher
  <1>2. CASE ConsumerDumps(p)
    BY <1>2 DEF ConsumerDumps, Control, SinglePublisher
  <1>3. CASE ConsumerDumpsOne(p)
    BY <1>3 DEF ConsumerDumpsOne, EnqueueTo, Control, SinglePublisher
  <1>4. CASE ConsumerDumpsEnd(p)
    BY <1>4 DEF ConsumerDumpsEnd, Control, SinglePublisher
  <1>5. CASE Wait(p)
    BY <1>5 DEF Wait, Control, SinglePublisher
  <1>6. CASE Wake(p)
    BY <1>6 DEF Wake, Control, SinglePublisher
  <1>7. CASE DumpPackets(p)
    BY <1>7 DEF DumpPackets, Dump, Control, SinglePublisher
  <1>8. CASE DumpPacketsLock(p)
    <2>1. SinglePublisher'
      BY <1>8 DEF DumpPacketsLock, SinglePublisher
    <2>2. Control'
      BY <1>8 DEF DumpPacketsLock, Control
    <2> QED
      BY ONLY <2>1, <2>2
  <1>9. CASE ReadSourceId(p)
    BY <1>9 DEF ReadSourceId, Control, SinglePublisher
  <1>10. CASE ReadPreSourceId(p)
    BY <1>10 DEF ReadPreSourceId, Dump, Control, SinglePublisher
  <1>11. CASE DestroyConsumer(p)
    BY <1>11 DEF DestroyConsumer, Control, SinglePublisher
  <1> QED
    BY <1>1, <1>2, <1>3, <1>4, <1>5, <1>6, <1>7, <1>8, <1>9, <1>10, <1>11
       DEF PlayerStep, PlayerLoop

-----------------------------------------------------------------------------
(* Publish sessions: what the caches and the queues may hold.               *)

\* The messages of session n and of the sessions after it.
Since(n) == {m \in Message : m.session >= n}

\* What is cached while the stream is published belongs to the running session;
\* what a player was or will be sent belongs to the sessions since it joined.
Sessions ==
    /\ hub_active => ~can_publish
    /\ \A t \in Publishers : pc[t] = "notifying" => ~hub_active
    /\ \A t \in Publishers : pc[t] \in {"publishing", "fanout"} => hub_active
    /\ ~hub_active => gop.gop_cache = << >>
    /\ gop.gop_cache \in Seq(Since(session))
    /\ hub_active => /\ meta.meta \in Since(session) \cup {NoMsg}
                     /\ meta.audio \in Since(session) \cup {NoMsg}
                     /\ meta.video \in Since(session) \cup {NoMsg}
    /\ \A t \in Publishers : pc[t] = "fanout" => msg \in Since(session)
    /\ \A p \in Players : born[p] <= IF can_publish THEN session + 1 ELSE session
    /\ \A p \in Players : pc[p] = "idle" => queue[p] = NewQueue /\ sent[p] = << >>
    /\ \A p \in Players : queue[p] \in QueueOf(Since(born[p]))
    /\ \A p \in Players : sent[p] \in Seq(Since(born[p]))
    /\ \A p \in Players : pc[p] = "dumping" => todo \in Seq(Since(born[p]))

IInv == TypeOK /\ Control /\ SinglePublisher /\ Sessions

\* Retiming a message does not change its session.
LEMMA SinceRetimable == ASSUME NEW n PROVE Retimable(Since(n))
  BY DEF Retimable, Since, Message

\* The messages since a later session are messages since an earlier one.
LEMMA SinceLater ==
    ASSUME NEW n \in Nat, NEW k \in Nat, k <= n
    PROVE  Since(n) \subseteq Since(k)
  BY DEF Since, Message

\* At the start nothing is cached and nothing is queued.
LEMMA InitSessions == Init => Sessions
  <1> SUFFICES ASSUME Init PROVE Sessions
    OBVIOUS
  <1>1. gop.gop_cache = << >>
    BY GopInitType, LiveSourceAssumption DEF Init
  <1>2. \A n : NewQueue \in QueueOf(Since(n))
    BY DEF NewQueue, QueueOf
  <1> QED
    BY <1>1, <1>2, LiveSourceAssumption DEF Init, Sessions, Threads

\* SrsLiveConsumer::enqueue of a message a consumer may see.
LEMMA EnqueueToSessions ==
    ASSUME IInv, NEW p \in Players, NEW m \in Since(born[p]), EnqueueTo(p, m)
    PROVE  /\ queue'[p] \in QueueOf(Since(born[p]))
           /\ \A x \in Players \ {p} : queue'[x] = queue[x]
  <1>1. queue[p] \in QueueOf(Since(born[p])) /\ jitter[p] \in JitterState
    BY DEF IInv, Sessions, TypeOK, ConsumerType
  <1>2. CorrectedMsg(jitter[p], m) \in Since(born[p])
    BY <1>1, CorrectedTypes, SinceRetimable
  <1>3. enqueue(queue[p], CorrectedMsg(jitter[p], m)) \in QueueOf(Since(born[p]))
    BY <1>1, <1>2, EnqueueType, SinceRetimable
  <1>4. queue' = [queue EXCEPT ![p] = enqueue(queue[p], CorrectedMsg(jitter[p], m))]
        /\ queue \in [Players -> Queues]
    BY DEF EnqueueTo, IInv, TypeOK, ConsumerType
  <1> QED
    BY <1>3, <1>4

\* Every step of a publisher keeps the sessions apart: the caches are empty when a
\* session begins (meta->clear, gop_cache->clear).
LEMMA PublisherSessions ==
    ASSUME IInv, NEW t \in Publishers, PublisherStep(t)
    PROVE  Sessions'
  <1> USE LiveSourceAssumption
      DEF IInv, TypeOK, SourceType, ConsumerType, ThreadType, HistoryType, Goto,
          srcVars, consVars, histVars, Threads, Occupied
  <1>1. CASE CanPublish(t)
    BY <1>1 DEF CanPublish, Sessions
  <1>2. CASE OnPublishBusy(t)
    BY <1>2 DEF OnPublishBusy, Sessions
  <1>3. CASE OnPublish(t)
    <2>1. ~hub_active /\ gop.gop_cache = << >>
      BY <1>3 DEF OnPublish, Sessions
    <2>2. \A p \in Players : born[p] <= session'
      BY <1>3 DEF OnPublish, Sessions
    <2>3. \A s \in Publishers : pc'[s] \notin {"publishing", "fanout"}
      BY <1>3 DEF OnPublish, SinglePublisher
    <2> QED
      BY <1>3, <2>1, <2>2, <2>3 DEF OnPublish, Sessions
  <1>4. ASSUME NEW p \in Players, UpdateSourceId(t, p) PROVE Sessions'
    BY <1>4 DEF UpdateSourceId, Sessions
  <1>5. CASE OnPublishEnd(t)
    <2>1. meta' = NewMeta
      BY <1>5 DEF OnPublishEnd
    <2>2. meta'.meta = NoMsg /\ meta'.audio = NoMsg /\ meta'.video = NoMsg
      BY <2>1 DEF NewMeta
    <2>3. ~can_publish /\ \A s \in Publishers : pc'[s] # "notifying"
      BY <1>5 DEF OnPublishEnd, SinglePublisher
    <2> QED
      BY <1>5, <2>2, <2>3 DEF OnPublishEnd, Sessions
  <1>6. CASE OnPublishFail(t)
    <2>1. ~hub_active
      BY <1>6 DEF OnPublishFail, Sessions
    <2>2. \A p \in Players : born[p] <= session + 1
      BY <1>6 DEF Sessions
    <2> QED
      BY <1>6, <2>1, <2>2 DEF OnPublishFail, Sessions
  <1>7. ASSUME NEW k \in Kinds, OnMessage(t, k) PROVE Sessions'
    <2> DEFINE m == [kind |-> k, timestamp |-> nmsg + 1, id |-> nmsg + 1, session |-> session]
    <2>1. m \in Since(session)
      BY DEF Message, Since
    <2>2. msg' = m /\ meta' = IF k = "meta" THEN [meta EXCEPT !.meta = m]
                              ELSE IF video_sh(m) THEN [meta EXCEPT !.video = m]
                              ELSE meta
      BY <1>7 DEF OnMessage
    <2> HIDE DEF m
    <2>3. hub_active => /\ meta'.meta \in Since(session) \cup {NoMsg}
                        /\ meta'.audio \in Since(session) \cup {NoMsg}
                        /\ meta'.video \in Since(session) \cup {NoMsg}
      BY <2>1, <2>2 DEF Metas, Sessions
    <2> QED
      BY <1>7, <2>1, <2>2, <2>3 DEF OnMessage, Sessions
  <1>8. ASSUME NEW p \in Players, Enqueue(t, p) PROVE Sessions'
    <2>1. msg \in Since(session) /\ ~can_publish
      BY <1>8 DEF Enqueue, Sessions, SinglePublisher
    <2>2. born[p] <= session
      BY <2>1 DEF Sessions
    <2>3. msg \in Since(born[p])
      BY <2>1, <2>2, SinceLater
    <2>4. /\ queue'[p] \in QueueOf(Since(born[p]))
          /\ \A x \in Players \ {p} : queue'[x] = queue[x]
      BY <1>8, <2>3, EnqueueToSessions DEF Enqueue
    <2>5. pc[p] # "idle"
      BY <1>8 DEF Enqueue, Control
    <2> QED
      BY <1>8, <2>4, <2>5 DEF Enqueue, Sessions
  <1>9. CASE OnMessageEnd(t)
    <2>1. msg \in Since(session) /\ hub_active /\ msg \in Message
      BY <1>9 DEF OnMessageEnd, Sessions, Control
    <2>2. /\ meta'.meta \in Since(session) \cup {NoMsg}
          /\ meta'.audio \in Since(session) \cup {NoMsg}
          /\ meta'.video \in Since(session) \cup {NoMsg}
      BY <1>9, <2>1 DEF OnMessageEnd, Sessions, Metas
    <2>3. gop \in GopOf(Since(session))
      BY DEF Sessions, Gops, GopOf
    <2>4. gop' \in GopOf(Since(session))
      BY <1>9, <2>1, <2>3, GopAddCases DEF OnMessageEnd
    <2>5. gop'.gop_cache \in Seq(Since(session))
      BY <2>4 DEF GopOf
    <2>6. \A s \in Publishers : pc'[s] # "fanout" /\ pc'[s] # "notifying"
      BY <1>9 DEF OnMessageEnd, Control
    <2>7. /\ pc' = [pc EXCEPT ![t] = "publishing"]
          /\ UNCHANGED <<can_publish, hub_active, consVars, todo, histVars>>
      BY <1>9 DEF OnMessageEnd
    <2> QED
      BY <2>1, <2>2, <2>5, <2>6, <2>7 DEF Sessions
  <1>10. CASE OnUnpublish(t)
    <2>1. ~can_publish
      BY <1>10 DEF OnUnpublish, SinglePublisher
    <2>2. gop \in WideGopOf(Message)
      BY GuessAssumption DEF Gops, WideGopOf
    <2>3. gop'.gop_cache = << >>
      BY <1>10, <2>1, <2>2, GopClearType DEF OnUnpublish
    <2>4. \A s \in Publishers : pc'[s] \notin {"publishing", "fanout"}
      BY <1>10 DEF OnUnpublish, SinglePublisher
    <2>5. \A p \in Players : born[p] <= session + 1
      BY <2>1 DEF Sessions
    <2>6. << >> \in Seq(Since(session))
      OBVIOUS
    <2>7. /\ ~hub_active' /\ can_publish' /\ gop'.gop_cache = << >>
          /\ pc' = [pc EXCEPT ![t] = "idle"]
          /\ UNCHANGED <<consVars, todo, msg, histVars>>
      BY <1>10, <2>1, <2>3 DEF OnUnpublish
    <2> QED
      BY <2>4, <2>5, <2>6, <2>7 DEF Sessions
  <1> QED
    BY <1>1, <1>2, <1>3, <1>4, <1>5, <1>6, <1>7, <1>8, <1>9, <1>10 DEF PublisherStep, PublisherInside

\* Every step of a player keeps the sessions apart: what consumer_dumps hands over
\* comes from the running session.
LEMMA PlayerSessions ==
    ASSUME IInv, NEW p \in Players, PlayerStep(p)
    PROVE  Sessions'
  <1> USE LiveSourceAssumption
      DEF IInv, TypeOK, SourceType, ConsumerType, ThreadType, HistoryType, Goto,
          srcVars, consVars, histVars, Threads, Occupied
  <1>1. CASE CreateConsumer(p)
    <2>1. \A n : NewQueue \in QueueOf(Since(n)) /\ << >> \in Seq(Since(n))
      BY DEF NewQueue, QueueOf
    <2>2. queue'[p] = NewQueue /\ sent'[p] = << >>
      BY <1>1 DEF CreateConsumer, Sessions
    <2>3. \A x \in Players : born'[x] <= IF can_publish THEN session + 1 ELSE session
      BY <1>1 DEF CreateConsumer, Sessions
    <2>4. \A x \in Players \ {p} : born'[x] = born[x]
      BY <1>1 DEF CreateConsumer
    <2> QED
      BY <1>1, <2>1, <2>2, <2>3, <2>4 DEF CreateConsumer, Sessions
  <1>2. CASE ConsumerDumps(p)
    <2>1. todo' \in Seq(Since(born[p]))
      <3>1. CASE ~hub_active
        BY <1>2, <3>1 DEF ConsumerDumps
      <3>2. CASE hub_active
        <4> DEFINE S == Seq(Since(session))
        <4>1. \A m \in Since(session) \cup {NoMsg} : One(m) \in S
          BY DEF One
        <4>2. One(meta.meta) \in S /\ One(meta.audio) \in S /\ One(meta.video) \in S
              /\ gop.gop_cache \in S
          BY <3>2, <4>1 DEF Sessions
        <4>3. Prefill \in Seq(Since(session))
          BY <4>2 DEF Prefill
        <4>4. born[p] <= session
          BY <3>2 DEF Sessions
        <4>5. Since(session) \subseteq Since(born[p])
          BY <4>4, SinceLater
        <4>6. todo' \in Seq(Since(session))
          BY <1>2, <3>2, <4>3 DEF ConsumerDumps
        <4> QED
          BY <4>5, <4>6
      <3> QED
        BY <3>1, <3>2
    <2>2. queue[p] \in QueueOf(Since(born[p]))
      BY DEF Sessions
    <2>3. set_queue_size(queue[p], QueueLength) \in QueueOf(Since(born[p]))
      BY <2>2 DEF set_queue_size, QueueOf
    <2>4. /\ queue'[p] \in QueueOf(Since(born[p]))
          /\ \A x \in Players \ {p} : queue'[x] = queue[x]
      BY <1>2, <2>3 DEF ConsumerDumps
    <2>5. \A x \in Players : pc'[x] = "dumping" => x = p
      BY <1>2 DEF ConsumerDumps, Control
    <2> QED
      BY <1>2, <2>1, <2>4, <2>5 DEF ConsumerDumps, Sessions
  <1>3. CASE ConsumerDumpsOne(p)
    <2>1. todo \in Seq(Since(born[p])) /\ todo # << >>
      BY <1>3 DEF ConsumerDumpsOne, Sessions
    <2>2. Head(todo) \in Since(born[p]) /\ Tail(todo) \in Seq(Since(born[p]))
      BY <2>1
    <2>3. /\ queue'[p] \in QueueOf(Since(born[p]))
          /\ \A x \in Players \ {p} : queue'[x] = queue[x]
      BY <1>3, <2>2, EnqueueToSessions DEF ConsumerDumpsOne
    <2>4. \A x \in Players : pc[x] = "dumping" => x = p
      BY <1>3 DEF ConsumerDumpsOne, Control
    <2> QED
      BY <1>3, <2>2, <2>3, <2>4 DEF ConsumerDumpsOne, Sessions
  <1>4. CASE ConsumerDumpsEnd(p)
    BY <1>4 DEF ConsumerDumpsEnd, Sessions
  <1>5. CASE Wait(p)
    BY <1>5 DEF Wait, Sessions
  <1>6. CASE Wake(p)
    BY <1>6 DEF Wake, Sessions
  <1>7. ASSUME Dump(p), UNCHANGED <<srcVars, todo, msg, nmsg, session, born>>
        PROVE  Sessions'
    <2>1. queue[p] \in QueueOf(Since(born[p])) /\ sent[p] \in Seq(Since(born[p]))
      BY DEF Sessions
    <2>2. /\ Dumped(queue[p], MwMsgs) \in Seq(Since(born[p]))
          /\ AfterDump(queue[p], MwMsgs) \in QueueOf(Since(born[p]))
      BY <2>1, DumpType, SinceRetimable
    <2>3. sent[p] \o Dumped(queue[p], MwMsgs) \in Seq(Since(born[p]))
      BY <2>1, <2>2
    <2>4. /\ queue'[p] \in QueueOf(Since(born[p])) /\ sent'[p] \in Seq(Since(born[p]))
          /\ \A x \in Players \ {p} : queue'[x] = queue[x] /\ sent'[x] = sent[x]
      BY <1>7, <2>2, <2>3 DEF Dump
    <2>5. pc' = [pc EXCEPT ![p] = "playing"]
      BY <1>7 DEF Dump
    <2> QED
      BY <1>7, <2>4, <2>5 DEF Sessions
  <1>8. CASE DumpPackets(p)
    BY <1>7, <1>8 DEF DumpPackets
  <1>9. CASE DumpPacketsLock(p)
    BY <1>9 DEF DumpPacketsLock, Sessions
  <1>10. CASE ReadSourceId(p)
    BY <1>10 DEF ReadSourceId, Sessions
  <1>11. CASE ReadPreSourceId(p)
    BY <1>7, <1>11 DEF ReadPreSourceId
  <1>12. CASE DestroyConsumer(p)
    <2>1. \A n : NewQueue \in QueueOf(Since(n)) /\ << >> \in Seq(Since(n))
      BY DEF NewQueue, QueueOf
    <2>2. queue'[p] = NewQueue /\ sent'[p] = << >> /\ born'[p] = 0
          /\ \A x \in Players \ {p} : born'[x] = born[x] /\ queue'[x] = queue[x] /\ sent'[x] = sent[x]
      BY <1>12 DEF DestroyConsumer
    <2>3. \A x \in Players : born'[x] <= IF can_publish THEN session + 1 ELSE session
      <3>1. 0 <= IF can_publish THEN session + 1 ELSE session
        OBVIOUS
      <3>2. \A x \in Players : born[x] <= IF can_publish THEN session + 1 ELSE session
        BY DEF Sessions
      <3>3. \A x \in Players : born'[x] = 0 \/ born'[x] = born[x]
        <4> TAKE x \in Players
        <4>1. CASE x = p
          BY ONLY <2>2, <4>1
        <4>2. CASE x # p
          BY ONLY <2>2, <4>2, x \in Players
        <4> QED
          BY ONLY <4>1, <4>2
      <3> QED
        BY ONLY <3>1, <3>2, <3>3
    <2>4. \A x \in Players : queue'[x] \in QueueOf(Since(born'[x])) /\ sent'[x] \in Seq(Since(born'[x]))
      <3>1. \A x \in Players : queue[x] \in QueueOf(Since(born[x])) /\ sent[x] \in Seq(Since(born[x]))
        BY DEF Sessions
      <3> TAKE x \in Players
      <3>2. CASE x = p
        BY ONLY <2>1, <2>2, <3>2
      <3>3. CASE x # p
        BY ONLY <2>2, <3>1, <3>3, x \in Players
      <3> QED
        BY ONLY <3>2, <3>3
    <2> QED
      BY <1>12, <2>3, <2>4 DEF DestroyConsumer, Sessions
  <1> QED
    BY <1>1, <1>2, <1>3, <1>4, <1>5, <1>6, <1>8, <1>9, <1>10, <1>11, <1>12
       DEF PlayerStep, PlayerLoop

-----------------------------------------------------------------------------
(* Joining and the fan-out: what has been queued for a player, message by   *)
(* message.  A message carries the number of its publishing in its id.      *)

Numbered(ms, n) == \A i \in DOMAIN ms : ms[i].id <= n

\* Each picture is newer than the ones before it.
InTurn(ms) ==
    \A i, j \in DOMAIN ms :
        i < j /\ Picture(ms[i]) /\ Picture(ms[j]) => ms[i].id < ms[j].id

\* Nothing that is cached is newer than the last message, the pictures are cached
\* in order, and a message that is being fanned out is the last one and not yet
\* in the GOP.
Numbers ==
    /\ msg # NoMsg => \E t \in Publishers : pc[t] = "fanout"
    /\ \A t \in Publishers :
          pc[t] = "fanout" => msg.id = nmsg /\ Numbered(gop.gop_cache, nmsg - 1)
    /\ meta.meta.id <= nmsg /\ meta.audio.id <= nmsg /\ meta.video.id <= nmsg
    /\ ~Picture(meta.meta) /\ ~Picture(meta.audio) /\ ~Picture(meta.video)
    /\ Numbered(gop.gop_cache, nmsg) /\ InTurn(gop.gop_cache)
    /\ Numbered(todo, nmsg) /\ InTurn(todo)

Playing(p) == pc[p] \notin {"idle", "created", "dumping"}

\* A stream is what was published after one number up to another, in order.
Live(stream, start, last) ==
    /\ Len(stream) = last - start
    /\ \A i \in DOMAIN stream : stream[i].id = start + i

\* The pictures of a stream behind a place are older than those still to come.
Before(stream, early, ms) ==
    \A i \in DOMAIN stream, j \in DOMAIN ms :
        early < i /\ Picture(stream[i]) /\ Picture(ms[j]) => stream[i].id < ms[j].id

\* A consumer is given what is published from its creation on, then the caches,
\* then again what is published.
Fed(p) ==
    /\ pc[p] = "created" => Live(Stream(p), created[p], Given(p))
    /\ pc[p] = "dumping" =>
          /\ joined[p] = nmsg
          /\ InOrder(Stream(p), created[p], nmsg, nmsg)
          /\ Before(Stream(p), nmsg - created[p], todo)
    /\ Playing(p) => InOrder(Stream(p), created[p], joined[p], Given(p))

Visited(p) == msg # NoMsg /\ p \notin pending

\* The cached GOP is in the stream of a player, or on its way there; so is the
\* message that is about to be cached, once the loop has passed the player.
Joins(p) ==
    /\ pc[p] = "dumping" =>
          \A i \in DOMAIN gop.gop_cache : Picture(gop.gop_cache[i]) =>
              Has(Stream(p), gop.gop_cache[i]) \/ Has(todo, gop.gop_cache[i])
    /\ Playing(p) =>
          /\ \A i \in DOMAIN gop.gop_cache :
                 Picture(gop.gop_cache[i]) => Has(Stream(p), gop.gop_cache[i])
          /\ Visited(p) /\ Picture(msg) => Has(Stream(p), msg)

Streams == Numbers /\ \A p \in Players : Fed(p) /\ Joins(p)

\* The next message keeps a live stream complete.
LEMMA LiveAppend ==
    ASSUME NEW s \in Seq(Message), NEW start \in Nat, NEW last \in Int,
           Live(s, start, last), NEW m \in Message, m.id = last + 1
    PROVE  Live(Append(s, m), start, last + 1)
  <1> DEFINE z == Append(s, m)
  <1>1. /\ Len(s) = last - start /\ Len(z) = Len(s) + 1 /\ Len(s) \in Nat
        /\ \A i \in DOMAIN z : (i \in DOMAIN s /\ z[i] = s[i]) \/ (i = Len(s) + 1 /\ z[i] = m)
    BY DEF Live
  <1>2. \A i \in DOMAIN s : s[i].id = start + i
    BY DEF Live
  <1>3. start + (Len(s) + 1) = last + 1 /\ Len(s) + 1 = (last + 1) - start
    BY <1>1
  <1> HIDE DEF z
  <1>4. \A i \in DOMAIN z : z[i].id = start + i
    BY ONLY <1>1, <1>2, <1>3, m.id = last + 1
  <1>5. Len(z) = (last + 1) - start
    BY ONLY <1>1, <1>3
  <1> QED
    BY ONLY <1>4, <1>5 DEF Live, z

\* A stream that has nothing but what was published is in order.
LEMMA LiveInOrder ==
    ASSUME NEW s \in Seq(Message), NEW start \in Nat, NEW last \in Nat, Live(s, start, last)
    PROVE  InOrder(s, start, last, last)
  <1>1. Len(s) = last - start /\ Len(s) \in Nat /\ \A i \in DOMAIN s : i \in 1 .. Len(s)
    BY DEF Live
  <1>2. start <= last /\ last <= last /\ last - start <= Len(s) - (last - last)
    BY <1>1
  <1>3. \A i \in DOMAIN s : s[i].id = start + i
    BY DEF Live
  <1>4. \A i \in DOMAIN s : i <= last - start /\ i <= Len(s) - (last - last) /\ i \in Nat
    BY <1>1
  <1>5. last - start \in Int /\ Len(s) - (last - last) \in Int
    BY <1>1
  <1> QED
    BY ONLY <1>2, <1>3, <1>4, <1>5 DEF InOrder

\* The next message keeps a stream in order.
LEMMA InOrderAppend ==
    ASSUME NEW s \in Seq(Message), NEW start \in Nat, NEW join \in Nat, NEW last \in Int,
           InOrder(s, start, join, last), NEW m \in Message, m.id = last + 1
    PROVE  InOrder(Append(s, m), start, join, last + 1)
  <1> DEFINE early == join - start
             k == Len(s) - (last - join)
             z == Append(s, m)
  <1>1. /\ start <= join /\ join <= last /\ early <= k /\ k <= Len(s)
        /\ k \in Int /\ early \in Int /\ Len(s) \in Nat /\ Len(z) = Len(s) + 1
        /\ Len(z) - ((last + 1) - join) = k
        /\ join <= last + 1 /\ join + ((Len(s) + 1) - k) = last + 1
        /\ ~(Len(s) + 1 <= k) /\ ~(Len(s) + 1 <= early)
    BY DEF InOrder
  <1>2. \A i \in DOMAIN s :
           /\ i <= early => s[i].id = start + i
           /\ i > k => s[i].id = join + (i - k)
           /\ i > early /\ i <= k => s[i].id <= join
           /\ \A j \in DOMAIN s :
                 early < i /\ i < j /\ j <= k /\ Picture(s[i]) /\ Picture(s[j]) => s[i].id < s[j].id
    BY DEF InOrder
  <1>3. \A i \in DOMAIN z : (i \in DOMAIN s /\ z[i] = s[i]) \/ (i = Len(s) + 1 /\ z[i] = m)
    OBVIOUS
  <1> HIDE DEF early, k, z
  <1>4. \A i \in DOMAIN z : i \in DOMAIN s \/ ~(i <= k)
    BY ONLY <1>1, <1>3
  <1>5. ASSUME NEW i \in DOMAIN z
        PROVE  /\ i <= early => z[i].id = start + i
               /\ i > k => z[i].id = join + (i - k)
               /\ i > early /\ i <= k => z[i].id <= join
    <2>1. CASE i \in DOMAIN s /\ z[i] = s[i]
      BY ONLY <2>1, <1>2
    <2>2. CASE i = Len(s) + 1 /\ z[i] = m
      BY ONLY <2>2, <1>1, m.id = last + 1
    <2> QED
      BY ONLY <1>3, <1>5, <2>1, <2>2
  <1>6. ASSUME NEW i \in DOMAIN z, NEW j \in DOMAIN z,
               early < i, i < j, j <= k, Picture(z[i]), Picture(z[j])
        PROVE  z[i].id < z[j].id
    <2>1. j \in DOMAIN s /\ z[j] = s[j] /\ j \in 1 .. Len(s)
      BY ONLY <1>1, <1>3, <1>6, s \in Seq(Message)
    <2>2. i \in 1 .. Len(s) + 1
      BY ONLY <1>1, <1>3, s \in Seq(Message)
    <2>3. i # Len(s) + 1
      BY ONLY <1>1, <1>6, <2>1, <2>2
    <2>4. i \in DOMAIN s /\ z[i] = s[i]
      BY ONLY <1>3, <1>6, <2>3
    <2> QED
      BY ONLY <1>2, <1>6, <2>1, <2>4
  <1>7. /\ start <= join /\ join <= last + 1
        /\ join - start = early /\ early <= k
        /\ Len(z) - ((last + 1) - join) = k
    BY <1>1 DEF early
  <1>8. \A i \in DOMAIN z :
           /\ i <= early => z[i].id = start + i
           /\ i > k => z[i].id = join + (i - k)
           /\ i > early /\ i <= k => z[i].id <= join
           /\ \A j \in DOMAIN z :
                 early < i /\ i < j /\ j <= k /\ Picture(z[i]) /\ Picture(z[j]) => z[i].id < z[j].id
    BY ONLY <1>5, <1>6, Zenon
  <1> QED
    BY ONLY <1>7, <1>8 DEF InOrder, z

\* A message out of the caches keeps a stream in order.
LEMMA InOrderCached ==
    ASSUME NEW s \in Seq(Message), NEW start \in Nat, NEW join \in Nat,
           InOrder(s, start, join, join), NEW m \in Message, m.id <= join,
           \A i \in DOMAIN s : join - start < i /\ Picture(s[i]) /\ Picture(m) => s[i].id < m.id
    PROVE  InOrder(Append(s, m), start, join, join)
  <1> DEFINE early == join - start
             z == Append(s, m)
  <1>1. /\ start <= join /\ join <= join /\ early <= Len(s)
        /\ early \in Int /\ Len(s) \in Nat /\ Len(z) = Len(s) + 1
        /\ Len(z) - (join - join) = Len(s) + 1 /\ Len(s) - (join - join) = Len(s)
        /\ ~(Len(s) + 1 <= early) /\ early <= Len(s) + 1
    BY DEF InOrder
  <1>2. \A i \in DOMAIN s :
           /\ i <= early => s[i].id = start + i
           /\ i > early /\ i <= Len(s) => s[i].id <= join
           /\ \A j \in DOMAIN s : early < i /\ i < j /\ j <= Len(s) /\ Picture(s[i]) /\ Picture(s[j])
                   => s[i].id < s[j].id
    BY ONLY <1>1, InOrder(s, start, join, join) DEF InOrder, early
  <1>3. \A i \in DOMAIN z : (i \in DOMAIN s /\ z[i] = s[i]) \/ (i = Len(s) + 1 /\ z[i] = m)
    OBVIOUS
  <1>4. \A i \in DOMAIN s : i \in 1 .. Len(s)
    OBVIOUS
  <1>5. \A i \in DOMAIN s : early < i /\ Picture(s[i]) /\ Picture(m) => s[i].id < m.id
    OBVIOUS
  <1> HIDE DEF early, z
  <1>6. ASSUME NEW i \in DOMAIN z
        PROVE  /\ i <= early => z[i].id = start + i
               /\ ~(i > Len(s) + 1)
               /\ i > early /\ i <= Len(s) + 1 => z[i].id <= join
    <2>1. CASE i \in DOMAIN s /\ z[i] = s[i]
      BY ONLY <2>1, <1>1, <1>2, <1>4
    <2>2. CASE i = Len(s) + 1 /\ z[i] = m
      BY ONLY <2>2, <1>1, m.id <= join
    <2> QED
      BY ONLY <1>3, <1>6, <2>1, <2>2
  <1>7. ASSUME NEW i \in DOMAIN z, NEW j \in DOMAIN z,
               early < i, i < j, j <= Len(s) + 1, Picture(z[i]), Picture(z[j])
        PROVE  z[i].id < z[j].id
    <2>1. CASE j \in DOMAIN s /\ z[j] = s[j]
      <3>1. i \in DOMAIN s /\ z[i] = s[i] /\ j <= Len(s)
        BY ONLY <1>1, <1>3, <1>4, <1>7, <2>1
      <3> QED
        BY ONLY <1>2, <1>7, <2>1, <3>1
    <2>2. CASE j = Len(s) + 1 /\ z[j] = m
      <3>1. i \in DOMAIN s /\ z[i] = s[i]
        BY ONLY <1>1, <1>3, <1>7, <2>2
      <3> QED
        BY ONLY <1>5, <1>7, <2>2, <3>1
    <2> QED
      BY ONLY <1>3, <1>7, <2>1, <2>2
  <1>8. /\ join - start = early /\ early <= Len(z) - (join - join)
        /\ Len(z) - (join - join) = Len(s) + 1
    BY <1>1 DEF early
  <1>9. \A i \in DOMAIN z :
           /\ i <= early => z[i].id = start + i
           /\ ~(i > Len(s) + 1)
           /\ i > early /\ i <= Len(s) + 1 => z[i].id <= join
           /\ \A j \in DOMAIN z :
                 early < i /\ i < j /\ j <= Len(s) + 1 /\ Picture(z[i]) /\ Picture(z[j])
                     => z[i].id < z[j].id
    BY ONLY <1>6, <1>7, Zenon
  <1> QED
    BY ONLY <1>1, <1>8, <1>9 DEF InOrder, z

\* A stream that grows has what it had, and the new message.
LEMMA HasAppend ==
    ASSUME NEW s \in Seq(Message), NEW c \in Message, NEW g
    PROVE  /\ Has(s, g) => Has(Append(s, c), g)
           /\ Picture(c) /\ c.id = g.id => Has(Append(s, c), g)
  <1>1. /\ \A i \in DOMAIN s : i \in DOMAIN Append(s, c) /\ Append(s, c)[i] = s[i]
        /\ Len(s) + 1 \in DOMAIN Append(s, c) /\ Append(s, c)[Len(s) + 1] = c
    OBVIOUS
  <1> QED
    BY ONLY <1>1 DEF Has

\* What is in a sequence is its head or is in its tail.
LEMMA HasSplit ==
    ASSUME NEW s \in Seq(Message), s # << >>, NEW g, Has(s, g)
    PROVE  (Picture(Head(s)) /\ Head(s).id = g.id) \/ Has(Tail(s), g)
  <1>1. PICK i \in DOMAIN s : Picture(s[i]) /\ s[i].id = g.id
    BY DEF Has
  <1>2. CASE i = 1
    BY <1>1, <1>2
  <1>3. CASE i # 1
    <2>1. i - 1 \in DOMAIN Tail(s) /\ Tail(s)[i - 1] = s[i]
      BY <1>3
    <2> QED
      BY <1>1, <2>1 DEF Has
  <1> QED
    BY <1>2, <1>3

\* SrsLiveConsumer::enqueue appends a message to what the player was and will be
\* sent, as long as the queue does not overflow; its number and kind stay.
LEMMA EnqueueToStream ==
    ASSUME TypeOK, NEW p \in Players, NEW m \in Message, EnqueueTo(p, m), UNCHANGED sent,
           ~overflows(Pushed(queue[p], CorrectedMsg(jitter[p], m)))
    PROVE  /\ \E c \in Message : /\ c.id = m.id /\ c.kind = m.kind
                                 /\ Stream(p)' = Append(Stream(p), c)
           /\ \A x \in Players \ {p} : Stream(x)' = Stream(x)
  <1> DEFINE c == CorrectedMsg(jitter[p], m)
  <1>1. queue[p] \in QueueOf(Message) /\ jitter[p] \in JitterState /\ sent[p] \in Seq(Message)
    BY SameTypes DEF TypeOK, ConsumerType, HistoryType
  <1>2. c \in Message
    BY <1>1, CorrectedTypes, MessageRetimable
  <1>3. c.id = m.id /\ c.kind = m.kind
    BY DEF CorrectedMsg, Message
  <1> HIDE DEF c
  <1>4. queue' = [queue EXCEPT ![p] = enqueue(queue[p], c)] /\ ~overflows(Pushed(queue[p], c))
    BY DEF EnqueueTo, c
  <1>5. queue'[p] = Pushed(queue[p], c) /\ \A x \in Players \ {p} : queue'[x] = queue[x]
    <2>1. enqueue(queue[p], c) = Pushed(queue[p], c)
      BY <1>4 DEF enqueue
    <2>2. queue \in [Players -> Queues]
      BY DEF TypeOK, ConsumerType
    <2> QED
      BY ONLY <1>4, <2>1, <2>2, p \in Players
  <1>6. queue'[p].msgs = Append(queue[p].msgs, c)
    BY <1>1, <1>5 DEF Pushed, QueueOf
  <1>7. queue[p].msgs \in Seq(Message)
    BY <1>1 DEF QueueOf
  <1>8. \A s, q \in Seq(Message) : s \o Append(q, c) = Append(s \o q, c)
    BY <1>2
  <1>9. Stream(p)' = Append(Stream(p), c)
    BY <1>1, <1>6, <1>7, <1>8 DEF Stream
  <1>10. \A x \in Players \ {p} : Stream(x)' = Stream(x)
    BY <1>5 DEF Stream
  <1> QED
    BY <1>2, <1>3, <1>9, <1>10

\* A sequence is what is before a place and what is behind it.
LEMMA SplitJoins ==
    ASSUME NEW M, NEW q \in Seq(M), NEW n \in 0 .. Len(q)
    PROVE  /\ SubSeq(q, 1, n) \in Seq(M) /\ SubSeq(q, n + 1, Len(q)) \in Seq(M)
           /\ SubSeq(q, 1, n) \o SubSeq(q, n + 1, Len(q)) = q
  <1> DEFINE a == SubSeq(q, 1, n)
             b == SubSeq(q, n + 1, Len(q))
             r == a \o b
  <1>1. /\ a \in Seq(M) /\ Len(a) = n /\ \A i \in 1 .. n : a[i] = q[i]
        /\ b \in Seq(M) /\ Len(b) = Len(q) - n
        /\ \A i \in 1 .. Len(q) - n : b[i] = q[n + i]
    <2>1. a \in Seq(M) /\ Len(a) = n /\ \A i \in 1 .. n : a[i] = q[i]
      OBVIOUS
    <2>2. b \in Seq(M) /\ Len(b) = Len(q) - n
      OBVIOUS
    <2>3. \A i \in 1 .. Len(q) - n : b[i] = q[n + i]
      OBVIOUS
    <2> QED
      BY ONLY <2>1, <2>2, <2>3
  <1> HIDE DEF a, b
  <1>2. /\ r \in Seq(M) /\ Len(r) = Len(a) + Len(b)
        /\ \A i \in 1 .. Len(a) + Len(b) : r[i] = IF i <= Len(a) THEN a[i] ELSE b[i - Len(a)]
    BY <1>1, ConcatProperties
  <1>3. Len(r) = Len(q)
    BY <1>1, <1>2
  <1> HIDE DEF r
  <1>4. \A i \in 1 .. Len(r) : r[i] = q[i]
    <2> TAKE i \in 1 .. Len(r)
    <2>1. r[i] = IF i <= n THEN a[i] ELSE b[i - n]
      BY <1>1, <1>2, <1>3
    <2>2. CASE i <= n
      BY <1>1, <2>1, <2>2
    <2>3. CASE ~(i <= n)
      <3>1. i - n \in 1 .. Len(q) - n /\ n + (i - n) = i
        BY <1>3, <2>3
      <3> QED
        BY <1>1, <2>1, <2>3, <3>1
    <2> QED
      BY <2>2, <2>3
  <1>5. r = q
    BY <1>2, <1>3, <1>4, SeqEqual
  <1> QED
    BY <1>1, <1>5 DEF a, b, r

\* SrsMessageQueue::dump_packets loses nothing and adds nothing: what it hands out
\* is sent, the rest stays queued in order.
LEMMA DumpStream ==
    ASSUME TypeOK, NEW p \in Players, Dump(p)
    PROVE  \A x \in Players : Stream(x)' = Stream(x)
  <1> DEFINE q == queue[p].msgs
             n == DumpCount(queue[p], MwMsgs)
  <1>1. queue[p] \in Queues /\ sent[p] \in Seq(Message) /\ queue \in [Players -> Queues]
        /\ sent \in [Players -> Seq(Message)]
    BY DEF TypeOK, ConsumerType, HistoryType
  <1>2. q \in Seq(Message)
    BY <1>1 DEF Queues
  <1>3. n \in 0 .. Len(q) /\ MwMsgs \in Nat
    BY <1>2, LiveSourceAssumption DEF DumpCount, size
  <1>4. Dumped(queue[p], MwMsgs) = SubSeq(q, 1, n)
    BY DEF Dumped
  <1>5. AfterDump(queue[p], MwMsgs).msgs = SubSeq(q, n + 1, Len(q))
    <2>1. CASE Len(q) = 0
      BY <1>2, <1>3, <2>1 DEF AfterDump, size
    <2>2. CASE Len(q) # 0
      BY <1>1, <2>2 DEF AfterDump, size, Queues
    <2> QED
      BY <2>1, <2>2
  <1> HIDE DEF q, n
  <1>6. SubSeq(q, 1, n) \o SubSeq(q, n + 1, Len(q)) = q
    BY <1>2, <1>3, SplitJoins
  <1>7. SubSeq(q, 1, n) \in Seq(Message) /\ SubSeq(q, n + 1, Len(q)) \in Seq(Message)
    BY <1>2, <1>3, SplitJoins
  <1>8. \A s, a, b \in Seq(Message) : (s \o a) \o b = s \o (a \o b)
    BY ConcatAssociative
  <1>9. Stream(p)' = Stream(p)
    <2>1. sent'[p] = sent[p] \o SubSeq(q, 1, n)
      BY <1>1, <1>4 DEF Dump
    <2>2. queue'[p].msgs = SubSeq(q, n + 1, Len(q))
      BY <1>1, <1>5 DEF Dump
    <2>3. (sent[p] \o SubSeq(q, 1, n)) \o SubSeq(q, n + 1, Len(q)) = sent[p] \o q
      <3>1. (sent[p] \o SubSeq(q, 1, n)) \o SubSeq(q, n + 1, Len(q))
              = sent[p] \o (SubSeq(q, 1, n) \o SubSeq(q, n + 1, Len(q)))
        BY ONLY <1>1, <1>7, <1>8, Zenon
      <3> QED
        BY ONLY <3>1, <1>6
    <2> QED
      BY <2>1, <2>2, <2>3 DEF Stream, q
  <1>10. ASSUME NEW x \in Players, x # p PROVE Stream(x)' = Stream(x)
    BY <1>1, <1>10 DEF Dump, Stream
  <1> QED
    BY <1>9, <1>10

\* Nothing is being fanned out but by the owner of the source lock.
LEMMA NoFanout ==
    ASSUME IInv, Numbers
    PROVE  /\ srcLock \notin Publishers => msg = NoMsg /\ pending = {}
           /\ \A t \in Publishers : pc[t] = "notifying" => msg = NoMsg
           /\ \A t \in Publishers : pc[t] = "fanout" => msg # NoMsg
           /\ \A p \in Players : pc[p] = "dumping" => srcLock = p
           /\ NoThread \notin Publishers
           /\ \A p \in Players : p \notin Publishers
  <1>1. \A t \in Publishers : pc[t] = "fanout" => srcLock = t
    BY DEF IInv, Control, Threads
  <1>2. \A t \in Publishers : pc[t] = "notifying" => srcLock = t
    BY DEF IInv, Control, Threads
  <1>3. \A t \in Publishers : pc[t] = "fanout" => msg # NoMsg
    BY DEF IInv, Control, Message, NoMsg, Kinds
  <1>4. msg # NoMsg => \E t \in Publishers : pc[t] = "fanout"
    BY DEF Numbers
  <1>5. pending # {} => srcLock \in Publishers
    BY DEF IInv, Control
  <1>6. \A p \in Players : pc[p] = "dumping" => srcLock = p
    BY DEF IInv, Control, Threads
  <1>7. NoThread \notin Publishers /\ \A p \in Players : p \notin Publishers
    BY LiveSourceAssumption
  <1> QED
    BY ONLY <1>1, <1>2, <1>3, <1>4, <1>5, <1>6, <1>7

\* The types the lemmas below need of a player.
LEMMA StreamType ==
    ASSUME TypeOK, NEW p \in Players
    PROVE  /\ Stream(p) \in Seq(Message) /\ nmsg \in Nat
           /\ created[p] \in Nat /\ joined[p] \in Nat
  <1>1. sent[p] \in Seq(Message) /\ queue[p].msgs \in Seq(Message)
    BY DEF TypeOK, ConsumerType, HistoryType, Queues
  <1>2. created[p] \in Nat /\ joined[p] \in Nat /\ nmsg \in Nat
    BY DEF TypeOK, HistoryType
  <1> QED
    BY <1>1, <1>2 DEF Stream

\* A step that does not feed a player and leaves the cached GOP alone.
LEMMA OrderKept ==
    ASSUME NEW p \in Players, Fed(p), Joins(p),
           pc'[p] = pc[p] \/ (Playing(p) /\ Playing(p)'),
           Stream(p)' = Stream(p), created'[p] = created[p], joined'[p] = joined[p],
           UNCHANGED <<nmsg, gop, msg>>,
           msg = NoMsg \/ (p \in pending' <=> p \in pending),
           todo' = todo \/ pc[p] # "dumping"
    PROVE  Fed(p)' /\ Joins(p)'
  <1>1. Given(p)' = Given(p) /\ (Visited(p)' <=> Visited(p))
    BY DEF Given, Visited
  <1>2. Playing(p)' <=> Playing(p)
    BY DEF Playing
  <1>3. pc'[p] \in {"created", "dumping"} => pc'[p] = pc[p]
    BY DEF Playing
  <1>4. Fed(p)'
    BY <1>1, <1>2, <1>3 DEF Fed
  <1>5. Joins(p)'
    BY <1>1, <1>2, <1>3 DEF Joins
  <1> QED
    BY <1>4, <1>5

\* What is in the cache after a message was added was there before, or is the message.
LEMMA CachedBefore ==
    ASSUME NEW g \in GopOf(Message), NEW m \in Message, NEW h, h = GopAdd(g, m) \/ h = g
    PROVE  \A i \in DOMAIN h.gop_cache :
              h.gop_cache[i] = m \/ \E j \in DOMAIN g.gop_cache : h.gop_cache[i] = g.gop_cache[j]
  <1>1. g.gop_cache \in Seq(Message)
    BY DEF GopOf
  <1>2. \/ h = g
        \/ h.gop_cache = << >>
        \/ h.gop_cache = <<m>>
        \/ h.gop_cache = Append(g.gop_cache, m)
    <2> DEFINE n == GopAdd(g, m)
    <2>1. \/ n = g
          \/ n.gop_cache = << >>
          \/ n.gop_cache = IF is_video(m) /\ keyframe(m) THEN <<m>> ELSE Append(g.gop_cache, m)
      BY GopAddCases, Zenon
    <2> HIDE DEF n
    <2>2. h = n \/ h = g
      BY DEF n
    <2> QED
      BY ONLY <2>1, <2>2
  <1>3. CASE h = g
    BY <1>3
  <1>4. CASE h.gop_cache = << >>
    BY <1>4
  <1>5. CASE h.gop_cache = <<m>>
    <2>1. \A i \in DOMAIN <<m>> : <<m>>[i] = m
      OBVIOUS
    <2> QED
      BY ONLY <1>5, <2>1
  <1>6. CASE h.gop_cache = Append(g.gop_cache, m)
    <2>1. \A i \in DOMAIN Append(g.gop_cache, m) :
             \/ Append(g.gop_cache, m)[i] = m
             \/ i \in DOMAIN g.gop_cache /\ Append(g.gop_cache, m)[i] = g.gop_cache[i]
      BY <1>1
    <2> QED
      BY ONLY <1>6, <2>1
  <1> QED
    BY <1>2, <1>3, <1>4, <1>5, <1>6

\* A message newer than the cached pictures is cached behind them.
LEMMA CachedInTurn ==
    ASSUME NEW g \in GopOf(Message), NEW m \in Message, NEW h, h = GopAdd(g, m) \/ h = g,
           InTurn(g.gop_cache), Numbered(g.gop_cache, m.id - 1)
    PROVE  InTurn(h.gop_cache)
  <1> DEFINE q == g.gop_cache
  <1>1. q \in Seq(Message)
    BY DEF GopOf
  <1>2. \/ h = g
        \/ h.gop_cache = << >>
        \/ h.gop_cache = <<m>>
        \/ h.gop_cache = Append(q, m)
    <2> DEFINE n == GopAdd(g, m)
    <2>1. \/ n = g
          \/ n.gop_cache = << >>
          \/ n.gop_cache = IF is_video(m) /\ keyframe(m) THEN <<m>> ELSE Append(g.gop_cache, m)
      BY GopAddCases, Zenon
    <2> HIDE DEF n
    <2>2. h = n \/ h = g
      BY DEF n
    <2> QED
      BY ONLY <2>1, <2>2 DEF q
  <1>3. CASE h = g
    BY <1>3
  <1>4. CASE h.gop_cache = << >>
    BY <1>4 DEF InTurn
  <1>5. CASE h.gop_cache = <<m>>
    <2>1. \A i \in DOMAIN <<m>> : i = 1
      OBVIOUS
    <2> QED
      BY <1>5, <2>1 DEF InTurn
  <1>6. CASE h.gop_cache = Append(q, m)
    <2> DEFINE z == Append(q, m)
    <2>1. /\ \A i \in DOMAIN z : (i \in DOMAIN q /\ z[i] = q[i]) \/ (i = Len(q) + 1 /\ z[i] = m)
          /\ \A i \in DOMAIN q : i \in 1 .. Len(q)
          /\ Len(q) \in Nat
      BY <1>1
    <2>2. \A i \in DOMAIN q : q[i].id <= m.id - 1 /\ q[i].id \in Nat /\ m.id \in Nat
      <3>1. \A i \in DOMAIN q : q[i] \in Message
        BY <1>1
      <3> QED
        BY <3>1 DEF Numbered, Message
    <2> HIDE DEF z
    <2>3. ASSUME NEW i \in DOMAIN z, NEW j \in DOMAIN z, i < j, Picture(z[i]), Picture(z[j])
          PROVE  z[i].id < z[j].id
      <3>1. i \in DOMAIN q /\ z[i] = q[i]
        BY ONLY <2>1, <2>3
      <3>2. CASE j \in DOMAIN q /\ z[j] = q[j]
        BY ONLY <2>3, <3>1, <3>2, InTurn(g.gop_cache) DEF InTurn, q
      <3>3. CASE z[j] = m
        BY ONLY <2>2, <3>1, <3>3
      <3> QED
        BY ONLY <2>1, <2>3, <3>2, <3>3
    <2> QED
      BY ONLY <1>6, <2>3 DEF InTurn, z
  <1> QED
    BY ONLY <1>2, <1>3, <1>4, <1>5, <1>6

\* consumer_dumps hands over the cached headers and all of the cached GOP.
LEMMA PrefillMembers ==
    ASSUME meta \in Metas, gop \in Gops
    PROVE  /\ \A i \in DOMAIN Prefill :
                 \/ Prefill[i] \in {meta.meta, meta.audio, meta.video}
                 \/ \E j \in DOMAIN gop.gop_cache : Prefill[i] = gop.gop_cache[j]
           /\ \A j \in DOMAIN gop.gop_cache :
                 \E i \in DOMAIN Prefill : Prefill[i] = gop.gop_cache[j]
           /\ \E s \in Seq(Message) :
                 /\ Prefill = s \o gop.gop_cache
                 /\ \A i \in DOMAIN s : s[i] \in {meta.meta, meta.audio, meta.video}
  <1> DEFINE U == Message
             a == One(meta.meta)
             b == One(meta.audio)
             c == One(meta.video)
             d == gop.gop_cache
  <1>1. \A m \in Message \cup {NoMsg} :
           One(m) \in Seq(Message) /\ \A i \in DOMAIN One(m) : One(m)[i] = m
    BY DEF One
  <1>2. /\ a \in Seq(U) /\ \A i \in DOMAIN a : a[i] = meta.meta
        /\ b \in Seq(U) /\ \A i \in DOMAIN b : b[i] = meta.audio
        /\ c \in Seq(U) /\ \A i \in DOMAIN c : c[i] = meta.video
        /\ d \in Seq(U)
    BY <1>1 DEF Metas, Gops
  <1>3. ASSUME NEW s \in Seq(U), NEW r \in Seq(U)
        PROVE  /\ s \o r \in Seq(U)
               /\ \A i \in DOMAIN (s \o r) :
                     \/ \E j \in DOMAIN s : (s \o r)[i] = s[j]
                     \/ \E j \in DOMAIN r : (s \o r)[i] = r[j]
               /\ \A j \in DOMAIN r : \E i \in DOMAIN (s \o r) : (s \o r)[i] = r[j]
    <2> DEFINE z == s \o r
    <2>1. /\ z \in Seq(U) /\ Len(z) = Len(s) + Len(r)
          /\ \A i \in 1 .. Len(s) + Len(r) : z[i] = IF i <= Len(s) THEN s[i] ELSE r[i - Len(s)]
      BY ConcatProperties
    <2> HIDE DEF z
    <2>2. ASSUME NEW i \in DOMAIN z
          PROVE  (\E j \in DOMAIN s : z[i] = s[j]) \/ (\E j \in DOMAIN r : z[i] = r[j])
      <3>1. CASE i <= Len(s)
        <4>1. i \in DOMAIN s /\ z[i] = s[i]
          BY <2>1, <3>1
        <4> QED
          BY ONLY <4>1
      <3>2. CASE ~(i <= Len(s))
        <4>1. i - Len(s) \in DOMAIN r /\ z[i] = r[i - Len(s)]
          BY <2>1, <3>2
        <4> QED
          BY ONLY <4>1
      <3> QED
        BY <3>1, <3>2
    <2>3. ASSUME NEW j \in DOMAIN r PROVE \E i \in DOMAIN z : z[i] = r[j]
      <3>1. Len(s) + j \in DOMAIN z /\ ~(Len(s) + j <= Len(s)) /\ (Len(s) + j) - Len(s) = j
        BY <2>1
      <3>2. z[Len(s) + j] = r[j]
        BY <2>1, <3>1
      <3> QED
        BY <3>1, <3>2
    <2> QED
      BY <2>1, <2>2, <2>3 DEF z
  <1> HIDE DEF U, a, b, c, d
  <1>4. /\ a \o b \in Seq(U)
        /\ \A i \in DOMAIN (a \o b) : (a \o b)[i] \in {meta.meta, meta.audio}
    <2>1. \A i \in DOMAIN (a \o b) :
              \/ \E j \in DOMAIN a : (a \o b)[i] = a[j]
              \/ \E j \in DOMAIN b : (a \o b)[i] = b[j]
      BY ONLY <1>2, <1>3, Zenon
    <2>2. a \o b \in Seq(U)
      BY ONLY <1>2, <1>3, Zenon
    <2> QED
      BY ONLY <1>2, <2>1, <2>2, Zenon
  <1> DEFINE ab == a \o b
  <1> HIDE DEF ab
  <1>5. /\ ab \o c \in Seq(U)
        /\ \A i \in DOMAIN (ab \o c) : (ab \o c)[i] \in {meta.meta, meta.audio, meta.video}
    <2>0. ab \in Seq(U) /\ \A i \in DOMAIN ab : ab[i] \in {meta.meta, meta.audio}
      BY ONLY <1>4 DEF ab
    <2>1. \A i \in DOMAIN (ab \o c) :
              \/ \E j \in DOMAIN ab : (ab \o c)[i] = ab[j]
              \/ \E j \in DOMAIN c : (ab \o c)[i] = c[j]
      BY ONLY <1>2, <1>3, <2>0, Zenon
    <2>2. ab \o c \in Seq(U)
      BY ONLY <1>2, <1>3, <2>0, Zenon
    <2> QED
      BY ONLY <1>2, <2>0, <2>1, <2>2, Zenon
  <1> DEFINE abc == ab \o c
  <1> HIDE DEF abc
  <1>6. /\ \A i \in DOMAIN (abc \o d) :
              \/ (abc \o d)[i] \in {meta.meta, meta.audio, meta.video}
              \/ \E j \in DOMAIN d : (abc \o d)[i] = d[j]
        /\ \A j \in DOMAIN d : \E i \in DOMAIN (abc \o d) : (abc \o d)[i] = d[j]
    <2>0. /\ abc \in Seq(U)
          /\ \A i \in DOMAIN abc : abc[i] \in {meta.meta, meta.audio, meta.video}
      BY ONLY <1>5 DEF abc
    <2>1. /\ \A i \in DOMAIN (abc \o d) :
                \/ \E j \in DOMAIN abc : (abc \o d)[i] = abc[j]
                \/ \E j \in DOMAIN d : (abc \o d)[i] = d[j]
          /\ \A j \in DOMAIN d : \E i \in DOMAIN (abc \o d) : (abc \o d)[i] = d[j]
      BY ONLY <1>2, <1>3, <2>0, Zenon
    <2> QED
      BY ONLY <2>0, <2>1, Zenon
  <1>7. Prefill = abc \o d
    BY DEF Prefill, a, b, c, d, ab, abc
  <1>8. /\ abc \in Seq(Message)
        /\ \A i \in DOMAIN abc : abc[i] \in {meta.meta, meta.audio, meta.video}
    BY ONLY <1>5 DEF abc, U
  <1>9. \E s \in Seq(Message) :
           /\ Prefill = s \o gop.gop_cache
           /\ \A i \in DOMAIN s : s[i] \in {meta.meta, meta.audio, meta.video}
    BY ONLY <1>7, <1>8, Zenon DEF d
  <1> QED
    BY ONLY <1>6, <1>7, <1>9 DEF d

\* Headers have no pictures, so the pictures of what is handed over stay in order.
LEMMA PrefillInTurn ==
    ASSUME meta \in Metas, gop \in Gops, InTurn(gop.gop_cache),
           ~Picture(meta.meta), ~Picture(meta.audio), ~Picture(meta.video)
    PROVE  InTurn(Prefill)
  <1> DEFINE d == gop.gop_cache
  <1>1. PICK s \in Seq(Message) :
           /\ Prefill = s \o d
           /\ \A i \in DOMAIN s : s[i] \in {meta.meta, meta.audio, meta.video}
    <2>1. \E s \in Seq(Message) :
             /\ Prefill = s \o d
             /\ \A i \in DOMAIN s : s[i] \in {meta.meta, meta.audio, meta.video}
      BY PrefillMembers
    <2> QED
      BY ONLY <2>1
  <1>2. d \in Seq(Message)
    BY DEF Gops
  <1>3. InTurn(d)
    OBVIOUS
  <1>4. \A i \in DOMAIN s : ~Picture(s[i])
    BY <1>1
  <1> DEFINE z == s \o d
  <1> HIDE DEF d
  <1>5. /\ z \in Seq(Message) /\ Len(z) = Len(s) + Len(d)
        /\ \A i \in 1 .. Len(s) + Len(d) : z[i] = IF i <= Len(s) THEN s[i] ELSE d[i - Len(s)]
    BY <1>1, <1>2, ConcatProperties
  <1> HIDE DEF z
  <1>6. ASSUME NEW i \in DOMAIN z, Picture(z[i])
        PROVE  i - Len(s) \in DOMAIN d /\ z[i] = d[i - Len(s)]
    <2>1. i \in 1 .. Len(s) + Len(d) /\ Len(s) \in Nat /\ Len(d) \in Nat
      BY <1>2, <1>5
    <2>2. CASE i <= Len(s)
      <3>1. i \in DOMAIN s /\ z[i] = s[i]
        BY <1>5, <2>1, <2>2
      <3> QED
        BY <1>4, <1>6, <3>1
    <2>3. CASE ~(i <= Len(s))
      <3>1. i - Len(s) \in 1 .. Len(d)
        BY <2>1, <2>3
      <3> QED
        BY <1>2, <1>5, <2>1, <2>3, <3>1
    <2> QED
      BY <2>2, <2>3
  <1>7. ASSUME NEW i \in DOMAIN z, NEW j \in DOMAIN z, i < j, Picture(z[i]), Picture(z[j])
        PROVE  z[i].id < z[j].id
    <2>1. /\ i - Len(s) \in DOMAIN d /\ z[i] = d[i - Len(s)]
          /\ j - Len(s) \in DOMAIN d /\ z[j] = d[j - Len(s)]
      BY <1>6, <1>7
    <2>2. i - Len(s) < j - Len(s)
      BY <1>5, <1>7
    <2> QED
      BY ONLY <1>3, <1>7, <2>1, <2>2 DEF InTurn
  <1>8. InTurn(z)
    BY ONLY <1>7 DEF InTurn
  <1> QED
    BY <1>1, <1>8 DEF z

\* At the start nobody plays.
LEMMA InitStreams == Init => Streams
  <1> SUFFICES ASSUME Init PROVE Streams
    OBVIOUS
  <1>1. gop.gop_cache = << >>
    BY GopInitType, LiveSourceAssumption DEF Init
  <1>2. /\ meta = NewMeta /\ msg = NoMsg /\ todo = << >> /\ nmsg = 0
        /\ \A x \in Players : pc[x] = "idle"
        /\ \A t \in Publishers : pc[t] = "idle"
    BY DEF Init, Threads
  <1>3. Numbers
    BY <1>1, <1>2 DEF Numbers, Numbered, InTurn, NewMeta, NoMsg, Picture
  <1>4. \A x \in Players : Fed(x) /\ Joins(x)
    BY <1>2 DEF Fed, Joins, Playing
  <1> QED
    BY <1>3, <1>4 DEF Streams

\* Every step of a publisher keeps the numbers: a message is given the next one.
LEMMA PublisherNumbers ==
    ASSUME IInv, Numbers, NEW t \in Publishers, PublisherStep(t)
    PROVE  Numbers'
  <1> USE DEF Goto, srcVars, consVars, histVars
  <1>0. /\ pc \in [Threads -> PublisherPc \cup PlayerPc] /\ nmsg \in Nat /\ t \in Threads
        /\ meta \in Metas
    BY DEF IInv, TypeOK, ThreadType, HistoryType, SourceType, Threads
  <1>1. /\ msg # NoMsg => \E u \in Publishers : pc[u] = "fanout"
        /\ \A u \in Publishers :
              pc[u] = "fanout" => msg.id = nmsg /\ Numbered(gop.gop_cache, nmsg - 1)
        /\ meta.meta.id <= nmsg /\ meta.audio.id <= nmsg /\ meta.video.id <= nmsg
        /\ ~Picture(meta.meta) /\ ~Picture(meta.audio) /\ ~Picture(meta.video)
        /\ Numbered(gop.gop_cache, nmsg) /\ InTurn(gop.gop_cache)
        /\ Numbered(todo, nmsg) /\ InTurn(todo)
    BY DEF Numbers
  <1>2. \A u \in Publishers : pc[u] = "fanout" => srcLock = u
    BY DEF IInv, Control, Threads
  <1>3. NoThread \notin Publishers
    BY LiveSourceAssumption
  <1>4. ASSUME UNCHANGED <<meta, gop, todo, nmsg, msg>>,
               \A u \in Publishers : (pc'[u] = "fanout") <=> (pc[u] = "fanout")
        PROVE  Numbers'
    BY <1>1, <1>4 DEF Numbers
  <1>5. CASE CanPublish(t)
    BY <1>0, <1>4, <1>5 DEF CanPublish
  <1>6. CASE OnPublishBusy(t)
    BY <1>0, <1>4, <1>6 DEF OnPublishBusy
  <1>7. CASE OnPublish(t)
    BY <1>0, <1>4, <1>7 DEF OnPublish
  <1>8. ASSUME NEW p \in Players, UpdateSourceId(t, p) PROVE Numbers'
    BY <1>4, <1>8 DEF UpdateSourceId
  <1>9. CASE OnPublishEnd(t)
    <2>1. /\ UNCHANGED <<gop, todo, nmsg, msg>>
          /\ \A u \in Publishers : (pc'[u] = "fanout") <=> (pc[u] = "fanout")
      BY <1>0, <1>9 DEF OnPublishEnd
    <2>2. /\ meta'.meta.id <= nmsg /\ meta'.audio.id <= nmsg /\ meta'.video.id <= nmsg
          /\ ~Picture(meta'.meta) /\ ~Picture(meta'.audio) /\ ~Picture(meta'.video)
      BY <1>0, <1>9 DEF OnPublishEnd, NewMeta, NoMsg, Picture
    <2> QED
      BY <1>1, <2>1, <2>2 DEF Numbers
  <1>10. CASE OnPublishFail(t)
    BY <1>0, <1>4, <1>10 DEF OnPublishFail
  <1>11. ASSUME NEW k \in Kinds, OnMessage(t, k) PROVE Numbers'
    <2> DEFINE m == [kind |-> k, timestamp |-> nmsg + 1, id |-> nmsg + 1, session |-> session]
    <2>1. /\ msg' = m /\ nmsg' = nmsg + 1 /\ UNCHANGED <<gop, todo>>
          /\ meta' = IF k = "meta" THEN [meta EXCEPT !.meta = m]
                     ELSE IF video_sh(m) THEN [meta EXCEPT !.video = m] ELSE meta
          /\ srcLock = NoThread /\ pc' = [pc EXCEPT ![t] = "fanout"]
      BY <1>11 DEF OnMessage
    <2>2. m.id = nmsg + 1 /\ m.kind = k /\ (nmsg + 1) - 1 = nmsg
      BY <1>0
    <2> HIDE DEF m
    <2>6. ~Picture(meta'.meta) /\ ~Picture(meta'.audio) /\ ~Picture(meta'.video)
      <3>1. /\ meta'.meta = meta.meta \/ (meta'.meta = m /\ k = "meta")
            /\ meta'.audio = meta.audio
            /\ meta'.video = meta.video \/ (meta'.video = m /\ k = "vsh")
        BY <1>0, <2>1, <2>2 DEF Metas, video_sh
      <3>2. k \in {"meta", "vsh"} => ~Picture(m)
        BY <2>2 DEF Picture
      <3> QED
        BY ONLY <1>1, <3>1, <3>2, "meta" # "vsh"
    <2>3. meta'.meta.id <= nmsg + 1 /\ meta'.audio.id <= nmsg + 1 /\ meta'.video.id <= nmsg + 1
      <3>1. /\ meta'.meta \in {meta.meta, m} /\ meta'.audio \in {meta.audio, m}
            /\ meta'.video \in {meta.video, m}
        BY <1>0, <2>1 DEF Metas
      <3>2. \A x \in {meta.meta, meta.audio, meta.video} : x.id \in Nat
        BY <1>0 DEF Metas, Message, NoMsg
      <3>3. \A x \in {meta.meta, meta.audio, meta.video, m} : x.id <= nmsg + 1
        BY <1>0, <1>1, <2>2, <3>2
      <3> QED
        BY ONLY <3>1, <3>3
    <2>4. Numbered(gop.gop_cache, nmsg + 1) /\ Numbered(todo, nmsg + 1)
      <3>1. gop.gop_cache \in Seq(Message) /\ todo \in Seq(Message)
        BY DEF IInv, TypeOK, SourceType, ThreadType, Gops
      <3>2. \A s \in Seq(Message) : \A i \in DOMAIN s : s[i].id \in Nat
        <4> TAKE s \in Seq(Message)
        <4> TAKE i \in DOMAIN s
        <4>1. s[i] \in Message
          OBVIOUS
        <4> QED
          BY <4>1 DEF Message
      <3>3. ASSUME NEW s \in Seq(Message), Numbered(s, nmsg) PROVE Numbered(s, nmsg + 1)
        BY <1>0, <3>2, <3>3 DEF Numbered
      <3> QED
        BY <1>1, <3>1, <3>3
    <2>5. \A u \in Publishers : pc'[u] = "fanout" <=> u = t
      BY <1>0, <1>2, <1>3, <2>1
    <2> QED
      BY <1>1, <2>1, <2>2, <2>3, <2>4, <2>5, <2>6 DEF Numbers
  <1>12. ASSUME NEW p \in Players, Enqueue(t, p) PROVE Numbers'
    BY <1>4, <1>12 DEF Enqueue
  <1>13. CASE OnMessageEnd(t)
    <2>1. /\ pc[t] = "fanout" /\ msg' = NoMsg /\ UNCHANGED <<todo, nmsg>>
          /\ pc' = [pc EXCEPT ![t] = "publishing"]
          /\ meta' = IF is_audio(msg) /\ (audio_sh(msg) \/ meta.audio = NoMsg)
                     THEN [meta EXCEPT !.audio = msg] ELSE meta
          /\ gop' = IF is_av(msg) /\ ~audio_sh(msg) /\ ~video_sh(msg) THEN GopAdd(gop, msg) ELSE gop
      BY <1>13 DEF OnMessageEnd
    <2>2. msg.id = nmsg /\ msg \in Message
      BY <1>1, <2>1 DEF IInv, Control
    <2>3. meta'.meta.id <= nmsg /\ meta'.audio.id <= nmsg /\ meta'.video.id <= nmsg
      <3>1. /\ meta'.meta \in {meta.meta, msg} /\ meta'.audio \in {meta.audio, msg}
            /\ meta'.video \in {meta.video, msg}
        BY <1>0, <2>1 DEF Metas
      <3>2. nmsg <= nmsg
        BY <1>0
      <3> QED
        BY ONLY <1>1, <2>2, <3>1, <3>2
    <2>6. ~Picture(meta'.meta) /\ ~Picture(meta'.audio) /\ ~Picture(meta'.video)
      <3>1. /\ meta'.meta = meta.meta /\ meta'.video = meta.video
            /\ meta'.audio = meta.audio \/ (meta'.audio = msg /\ is_audio(msg))
        BY <1>0, <2>1 DEF Metas
      <3>2. is_audio(msg) => ~Picture(msg)
        BY DEF is_audio, Picture
      <3> QED
        BY ONLY <1>1, <3>1, <3>2
    <2>4. Numbered(gop'.gop_cache, nmsg) /\ InTurn(gop'.gop_cache)
      <3>1. gop \in GopOf(Message)
        BY SameTypes DEF IInv, TypeOK, SourceType
      <3>2. \A i \in DOMAIN gop'.gop_cache :
               gop'.gop_cache[i] = msg
                 \/ \E j \in DOMAIN gop.gop_cache : gop'.gop_cache[i] = gop.gop_cache[j]
        <4>1. gop' = GopAdd(gop, msg) \/ gop' = gop
          BY ONLY <2>1
        <4>2. PICK h : h = gop'
          OBVIOUS
        <4>3. h = GopAdd(gop, msg) \/ h = gop
          BY ONLY <4>1, <4>2
        <4>4. \A i \in DOMAIN h.gop_cache :
                 h.gop_cache[i] = msg \/ \E j \in DOMAIN gop.gop_cache : h.gop_cache[i] = gop.gop_cache[j]
          BY ONLY <2>2, <3>1, <4>3, CachedBefore
        <4> QED
          BY ONLY <4>2, <4>4
      <3>3. nmsg <= nmsg
        BY <1>0
      <3>4. InTurn(gop'.gop_cache)
        <4>1. gop' = GopAdd(gop, msg) \/ gop' = gop
          BY ONLY <2>1
        <4>2. PICK h : h = gop'
          OBVIOUS
        <4>3. h = GopAdd(gop, msg) \/ h = gop
          BY ONLY <4>1, <4>2
        <4>4. InTurn(gop.gop_cache) /\ Numbered(gop.gop_cache, msg.id - 1)
          BY <1>1, <2>1, <2>2
        <4>5. InTurn(h.gop_cache)
          BY ONLY <2>2, <3>1, <4>3, <4>4, CachedInTurn
        <4> QED
          BY ONLY <4>2, <4>5
      <3>5. Numbered(gop'.gop_cache, nmsg)
        BY ONLY <1>1, <2>2, <3>2, <3>3 DEF Numbered
      <3> QED
        BY ONLY <3>4, <3>5
    <2>5. \A u \in Publishers : pc'[u] # "fanout"
      BY <1>0, <1>2, <2>1
    <2> QED
      BY <1>1, <2>1, <2>3, <2>4, <2>5, <2>6 DEF Numbers
  <1>14. CASE OnUnpublish(t)
    <2>1. /\ UNCHANGED <<meta, todo, nmsg, msg>>
          /\ gop' = gop \/ gop' = GopClear(gop)
          /\ \A u \in Publishers : (pc'[u] = "fanout") <=> (pc[u] = "fanout")
      BY <1>0, <1>14 DEF OnUnpublish
    <2>2. gop \in WideGopOf(Message)
      BY GuessAssumption DEF Gops, WideGopOf, IInv, TypeOK, SourceType
    <2>3. GopClear(gop).gop_cache = << >>
      BY <2>2, GopClearType
    <2>4. Numbered(gop'.gop_cache, nmsg) /\ InTurn(gop'.gop_cache)
      BY <1>1, <2>1, <2>3 DEF Numbered, InTurn
    <2>5. \A u \in Publishers : pc'[u] # "fanout"
      <3>1. \A u \in Publishers : pc[u] # "fanout"
        BY <1>2, <1>3, <1>14 DEF OnUnpublish
      <3> QED
        BY ONLY <2>1, <3>1
    <2> QED
      BY <1>1, <2>1, <2>4, <2>5 DEF Numbers
  <1> QED
    BY <1>5, <1>6, <1>7, <1>8, <1>9, <1>10, <1>11, <1>12, <1>13, <1>14
       DEF PublisherStep, PublisherInside

\* Every step of a player keeps them: what it is to be given comes from the caches.
LEMMA PlayerNumbers ==
    ASSUME IInv, Numbers, NEW p \in Players, PlayerStep(p)
    PROVE  Numbers'
  <1> USE DEF Goto, srcVars, consVars, histVars
  <1>0. /\ pc \in [Threads -> PublisherPc \cup PlayerPc] /\ nmsg \in Nat
        /\ meta \in Metas /\ gop \in Gops /\ todo \in Seq(Message)
    BY DEF IInv, TypeOK, ThreadType, HistoryType, SourceType, Threads
  <1>1. /\ msg # NoMsg => \E u \in Publishers : pc[u] = "fanout"
        /\ \A u \in Publishers :
              pc[u] = "fanout" => msg.id = nmsg /\ Numbered(gop.gop_cache, nmsg - 1)
        /\ meta.meta.id <= nmsg /\ meta.audio.id <= nmsg /\ meta.video.id <= nmsg
        /\ ~Picture(meta.meta) /\ ~Picture(meta.audio) /\ ~Picture(meta.video)
        /\ Numbered(gop.gop_cache, nmsg) /\ InTurn(gop.gop_cache)
        /\ Numbered(todo, nmsg) /\ InTurn(todo)
    BY DEF Numbers
  <1>2. ASSUME NEW x, pc' = [pc EXCEPT ![p] = x], x # "fanout", UNCHANGED <<meta, gop, nmsg, msg>>,
               Numbered(todo', nmsg), InTurn(todo')
        PROVE  Numbers'
    <2>1. \A u \in Publishers : u # p /\ u \in Threads
      BY LiveSourceAssumption DEF Threads
    <2>2. \A u \in Publishers : pc'[u] = pc[u]
      BY <1>0, <1>2, <2>1
    <2> QED
      BY <1>1, <1>2, <2>2 DEF Numbers
  <1>3. CASE CreateConsumer(p)
    BY <1>1, <1>2, <1>3 DEF CreateConsumer
  <1>4. CASE ConsumerDumps(p)
    <2>1. Numbered(todo', nmsg) /\ InTurn(todo')
      <3>1. CASE ~hub_active
        BY <1>4, <3>1 DEF ConsumerDumps, Numbered, InTurn
      <3>2. CASE hub_active
        <4>1. todo' = Prefill
          BY <1>4, <3>2 DEF ConsumerDumps
        <4>2. \A i \in DOMAIN Prefill :
                 \/ Prefill[i] \in {meta.meta, meta.audio, meta.video}
                 \/ \E j \in DOMAIN gop.gop_cache : Prefill[i] = gop.gop_cache[j]
          BY <1>0, PrefillMembers
        <4>3. Numbered(todo', nmsg)
          BY ONLY <1>1, <4>1, <4>2 DEF Numbered
        <4>4. InTurn(Prefill)
          BY <1>0, <1>1, PrefillInTurn
        <4> QED
          BY ONLY <4>1, <4>3, <4>4
      <3> QED
        BY <3>1, <3>2
    <2> QED
      BY <1>2, <1>4, <2>1 DEF ConsumerDumps
  <1>5. CASE ConsumerDumpsOne(p)
    <2>1. todo # << >> /\ todo' = Tail(todo)
          /\ UNCHANGED <<pc, meta, gop, nmsg, msg>>
      BY <1>5 DEF ConsumerDumpsOne
    <2>2. \A i \in DOMAIN Tail(todo) : i + 1 \in DOMAIN todo /\ Tail(todo)[i] = todo[i + 1]
      BY <1>0, <2>1
    <2>3. Numbered(todo', nmsg)
      BY ONLY <1>1, <2>1, <2>2 DEF Numbered
    <2>4. InTurn(todo')
      <3>1. \A i, j \in DOMAIN Tail(todo) : i < j => i + 1 < j + 1
        BY <1>0, <2>1
      <3> QED
        BY ONLY <1>1, <2>1, <2>2, <3>1 DEF InTurn
    <2> QED
      BY <1>1, <2>1, <2>3, <2>4 DEF Numbers
  <1>6. CASE ConsumerDumpsEnd(p)
    BY <1>1, <1>2, <1>6 DEF ConsumerDumpsEnd
  <1>7. CASE Wait(p)
    BY <1>1, <1>2, <1>7 DEF Wait
  <1>8. CASE Wake(p)
    BY <1>1, <1>2, <1>8 DEF Wake
  <1>9. CASE DumpPackets(p)
    BY <1>1, <1>2, <1>9 DEF DumpPackets, Dump
  <1>10. CASE DumpPacketsLock(p)
    BY <1>1, <1>2, <1>10 DEF DumpPacketsLock
  <1>11. CASE ReadSourceId(p)
    BY <1>1, <1>2, <1>11 DEF ReadSourceId
  <1>12. CASE ReadPreSourceId(p)
    BY <1>1, <1>2, <1>12 DEF ReadPreSourceId, Dump
  <1>13. CASE DestroyConsumer(p)
    BY <1>1, <1>2, <1>13 DEF DestroyConsumer
  <1> QED
    BY <1>3, <1>4, <1>5, <1>6, <1>7, <1>8, <1>9, <1>10, <1>11, <1>12, <1>13
       DEF PlayerStep, PlayerLoop

\* Every step of a publisher keeps every stream in order: each consumer is given the
\* message once before the next one is numbered, and the GOP grows by it afterwards.
LEMMA PublisherStreams ==
    ASSUME IInv, Roomy, Streams, NEW t \in Publishers, PublisherStep(t), NEW x \in Players
    PROVE  Fed(x)' /\ Joins(x)'
  <1> USE DEF Goto, srcVars, consVars, histVars
  <1>0. /\ pc \in [Threads -> PublisherPc \cup PlayerPc] /\ nmsg \in Nat /\ t \in Threads
        /\ x \in Threads /\ x # t /\ pending \subseteq Players /\ TypeOK
    BY LiveSourceAssumption DEF IInv, TypeOK, ThreadType, HistoryType, Threads
  <1>1. Fed(x) /\ Joins(x) /\ Numbers
    BY DEF Streams
  <1>2. /\ srcLock \notin Publishers => msg = NoMsg /\ pending = {}
        /\ pc[t] = "notifying" => msg = NoMsg
        /\ pc[t] = "fanout" => msg # NoMsg
        /\ pc[x] = "dumping" => srcLock = x
        /\ NoThread \notin Publishers /\ x \notin Publishers /\ x # NoThread
    BY <1>1, NoFanout, LiveSourceAssumption
  <1>3. ASSUME UNCHANGED <<sent, created, joined, nmsg, gop, msg, todo>>, queue'[x] = queue[x], pc'[x] = pc[x],
               msg = NoMsg \/ (x \in pending' <=> x \in pending)
        PROVE  Fed(x)' /\ Joins(x)'
    <2>1. Stream(x)' = Stream(x)
      BY <1>3 DEF Stream
    <2> QED
      BY <1>1, <1>3, <2>1, OrderKept
  <1>4. CASE CanPublish(t)
    BY <1>0, <1>3, <1>4 DEF CanPublish
  <1>5. CASE OnPublishBusy(t)
    BY <1>0, <1>3, <1>5 DEF OnPublishBusy
  <1>6. CASE OnPublish(t)
    <2>1. msg = NoMsg
      BY <1>2, <1>6 DEF OnPublish
    <2> QED
      BY <1>0, <1>3, <1>6, <2>1 DEF OnPublish
  <1>7. ASSUME NEW p \in Players, UpdateSourceId(t, p) PROVE Fed(x)' /\ Joins(x)'
    <2>1. msg = NoMsg
      BY <1>2, <1>7 DEF UpdateSourceId
    <2> QED
      BY <1>3, <1>7, <2>1 DEF UpdateSourceId
  <1>8. CASE OnPublishEnd(t)
    BY <1>0, <1>3, <1>8 DEF OnPublishEnd
  <1>9. CASE OnPublishFail(t)
    BY <1>0, <1>3, <1>9 DEF OnPublishFail
  <1>10. ASSUME NEW k \in Kinds, OnMessage(t, k) PROVE Fed(x)' /\ Joins(x)'
    <2>1. /\ srcLock = NoThread /\ nmsg' = nmsg + 1 /\ pending' = consumers
          /\ UNCHANGED <<gop, todo, sent, queue, created, joined>> /\ pc' = [pc EXCEPT ![t] = "fanout"]
          /\ msg' = [kind |-> k, timestamp |-> nmsg + 1, id |-> nmsg + 1, session |-> session]
      BY <1>10 DEF OnMessage
    <2>2. /\ pc'[x] = pc[x] /\ Stream(x)' = Stream(x)
          /\ created'[x] = created[x] /\ joined'[x] = joined[x]
      BY <1>0, <2>1 DEF Stream
    <2>3. pc[x] # "dumping" /\ pending = {}
      BY <1>2, <2>1
    <2>4. msg' # NoMsg
      BY <2>1 DEF NoMsg, Kinds
    <2>5. pc[x] # "idle" => x \in pending'
      BY <2>1 DEF IInv, Control
    <2>6. Fed(x)'
      <3>1. pc[x] = "created" => Live(Stream(x), created[x], nmsg)
        BY <1>1, <2>3 DEF Fed, Given
      <3>2. Playing(x) => InOrder(Stream(x), created[x], joined[x], nmsg)
        BY <1>1, <2>3 DEF Fed, Given
      <3>3. pc[x] # "idle" => Given(x)' = nmsg
        BY <1>0, <2>1, <2>4, <2>5 DEF Given
      <3>4. Playing(x)' <=> Playing(x)
        BY <2>2 DEF Playing
      <3> QED
        BY <2>2, <2>3, <3>1, <3>2, <3>3, <3>4 DEF Fed, Playing
    <2>7. Joins(x)'
      <3>1. Playing(x)' <=> Playing(x)
        BY <2>2 DEF Playing
      <3>2. Playing(x) => ~Visited(x)'
        BY <2>5 DEF Playing, Visited
      <3> QED
        BY <1>1, <2>1, <2>2, <2>3, <3>1, <3>2 DEF Joins
    <2> QED
      BY <2>6, <2>7
  <1>11. ASSUME NEW p \in Players, Enqueue(t, p) PROVE Fed(x)' /\ Joins(x)'
    <2>1. /\ pc[t] = "fanout" /\ p \in pending /\ EnqueueTo(p, msg) /\ pending' = pending \ {p}
          /\ UNCHANGED <<pc, todo, msg, sent, created, joined, nmsg, gop, srcLock>>
      BY <1>11 DEF Enqueue
    <2>2. msg \in Message /\ msg # NoMsg /\ msg.id = nmsg
      BY <1>1, <1>2, <2>1 DEF IInv, Control, Numbers
    <2>3. srcLock = t /\ pc[p] # "dumping" /\ pc[x] # "dumping"
      BY <1>1, <1>2, <2>1, NoFanout DEF IInv, Control, Threads
    <2>4. ~overflows(Pushed(queue[p], CorrectedMsg(jitter[p], msg)))
      BY <2>1, <2>2, <2>3 DEF Roomy, Coming
    <2>5. /\ \E c \in Message : /\ c.id = msg.id /\ c.kind = msg.kind
                                /\ Stream(p)' = Append(Stream(p), c)
          /\ \A y \in Players \ {p} : Stream(y)' = Stream(y)
      BY <1>0, <2>1, <2>2, <2>4, EnqueueToStream
    <2>6. CASE x # p
      <3>1. Stream(x)' = Stream(x)
        BY <2>5, <2>6
      <3>2. x \in pending' <=> x \in pending
        BY <2>1, <2>6
      <3> QED
        BY <1>1, <2>1, <3>1, <3>2, OrderKept
    <2>7. CASE x = p
      <3>1. PICK c \in Message : c.id = nmsg /\ c.kind = msg.kind /\ Stream(x)' = Append(Stream(x), c)
        BY <2>2, <2>5, <2>7
      <3>2. Stream(x) \in Seq(Message) /\ created[x] \in Nat /\ joined[x] \in Nat
        BY <1>0, StreamType
      <3>3. Given(x) = nmsg - 1 /\ Given(x)' = nmsg
        BY <2>1, <2>2, <2>7 DEF Given
      <3>4. created'[x] = created[x] /\ joined'[x] = joined[x] /\ (Playing(x)' <=> Playing(x)) /\ pc'[x] = pc[x] /\ nmsg' = nmsg
        BY <2>1 DEF Playing
      <3>12. nmsg - 1 \in Int /\ (nmsg - 1) + 1 = nmsg
        BY <1>0
      <3>5. Playing(x) => InOrder(Append(Stream(x), c), created[x], joined[x], nmsg)
        <4> SUFFICES ASSUME Playing(x)
                     PROVE  InOrder(Append(Stream(x), c), created[x], joined[x], nmsg)
          OBVIOUS
        <4>1. InOrder(Stream(x), created[x], joined[x], nmsg - 1)
          BY <1>1, <3>3 DEF Fed
        <4>2. InOrder(Append(Stream(x), c), created[x], joined[x], (nmsg - 1) + 1)
          BY ONLY <3>1, <3>2, <3>12, <4>1, InOrderAppend
        <4> QED
          BY ONLY <3>12, <4>2
      <3>6. pc[x] = "created" => Live(Append(Stream(x), c), created[x], nmsg)
        <4> SUFFICES ASSUME pc[x] = "created"
                     PROVE  Live(Append(Stream(x), c), created[x], nmsg)
          OBVIOUS
        <4>1. Live(Stream(x), created[x], nmsg - 1)
          BY <1>1, <3>3 DEF Fed
        <4>2. Live(Append(Stream(x), c), created[x], (nmsg - 1) + 1)
          BY ONLY <3>1, <3>2, <3>12, <4>1, LiveAppend
        <4> QED
          BY ONLY <3>12, <4>2
      <3>7. Fed(x)'
        BY ONLY <2>3, <2>7, <3>1, <3>3, <3>4, <3>5, <3>6 DEF Fed
      <3>8. Playing(x) => \A i \in DOMAIN gop.gop_cache :
               Picture(gop.gop_cache[i]) => Has(Append(Stream(x), c), gop.gop_cache[i])
        <4>1. \A g : Has(Stream(x), g) => Has(Append(Stream(x), c), g)
          BY <3>1, <3>2, HasAppend
        <4> QED
          BY <1>1, <4>1 DEF Joins
      <3>9. Picture(msg) => Has(Append(Stream(x), c), msg)
        <4>1. Picture(msg) => Picture(c)
          BY <3>1 DEF Picture
        <4>2. Picture(c) /\ c.id = msg.id => Has(Append(Stream(x), c), msg)
          BY <3>1, <3>2, HasAppend
        <4> QED
          BY ONLY <2>2, <3>1, <4>1, <4>2
      <3>10. gop' = gop /\ msg' = msg
        BY <2>1
      <3>11. Joins(x)'
        BY ONLY <2>3, <2>7, <3>1, <3>4, <3>8, <3>9, <3>10 DEF Joins
      <3> QED
        BY <3>7, <3>11
    <2> QED
      BY <2>6, <2>7
  <1>12. CASE OnMessageEnd(t)
    <2>1. /\ pc[t] = "fanout" /\ pending = {} /\ msg' = NoMsg
          /\ gop' = GopAdd(gop, msg) \/ gop' = gop
          /\ pc' = [pc EXCEPT ![t] = "publishing"]
          /\ UNCHANGED <<queue, pending, todo, sent, created, joined, nmsg>>
      BY <1>12 DEF OnMessageEnd
    <2>2. msg \in Message /\ msg # NoMsg
      BY <1>2, <2>1 DEF IInv, Control
    <2>3. srcLock = t /\ pc[x] # "dumping"
      BY <1>2, <2>1 DEF IInv, Control, Threads
    <2>4. pc'[x] = pc[x] /\ Stream(x)' = Stream(x)
          /\ created'[x] = created[x] /\ joined'[x] = joined[x]
          /\ (Playing(x)' <=> Playing(x))
      BY <1>0, <2>1 DEF Stream, Playing
    <2>5. Given(x)' = Given(x)
      BY <2>1 DEF Given
    <2>6. Fed(x)'
      BY <1>1, <2>1, <2>3, <2>4, <2>5 DEF Fed
    <2>7. gop \in GopOf(Message)
      BY SameTypes DEF IInv, TypeOK, SourceType
    <2>8. PICK h : h = gop'
      OBVIOUS
    <2>9. h = GopAdd(gop, msg) \/ h = gop
      BY ONLY <2>1, <2>8
    <2>10. \A i \in DOMAIN h.gop_cache :
              h.gop_cache[i] = msg \/ \E j \in DOMAIN gop.gop_cache : h.gop_cache[i] = gop.gop_cache[j]
      BY ONLY <2>2, <2>7, <2>9, CachedBefore
    <2>11. Playing(x) => \A j \in DOMAIN gop.gop_cache :
              Picture(gop.gop_cache[j]) => Has(Stream(x), gop.gop_cache[j])
      BY <1>1 DEF Joins
    <2>12. Playing(x) => (Picture(msg) => Has(Stream(x), msg))
      BY <1>1, <2>1, <2>2 DEF Joins, Visited
    <2>13. Playing(x) => \A i \in DOMAIN h.gop_cache :
              Picture(h.gop_cache[i]) => Has(Stream(x), h.gop_cache[i])
      BY ONLY <2>10, <2>11, <2>12
    <2>14. ~Visited(x)'
      BY <2>1 DEF Visited
    <2>15. Joins(x)'
      BY ONLY <2>3, <2>4, <2>8, <2>13, <2>14 DEF Joins
    <2> QED
      BY <2>6, <2>15
  <1>13. CASE OnUnpublish(t)
    <2>1. /\ UNCHANGED <<queue, sent, created, joined, nmsg, msg, todo, pending>>
          /\ gop' = gop \/ gop' = GopClear(gop)
          /\ srcLock = NoThread
          /\ pc' = [pc EXCEPT ![t] = "idle"]
      BY <1>13 DEF OnUnpublish
    <2>2. pc'[x] = pc[x] /\ Stream(x)' = Stream(x)
          /\ created'[x] = created[x] /\ joined'[x] = joined[x]
          /\ (Playing(x)' <=> Playing(x)) /\ pc[x] # "dumping"
      BY <1>0, <1>2, <2>1 DEF Stream, Playing
    <2>3. CASE gop' = gop
      BY <1>1, <2>1, <2>2, <2>3, OrderKept
    <2>4. CASE gop' = GopClear(gop)
      <3>1. gop \in WideGopOf(Message)
        BY GuessAssumption DEF Gops, WideGopOf, IInv, TypeOK, SourceType
      <3>2. GopClear(gop).gop_cache = << >>
        BY <3>1, GopClearType
      <3>3. gop'.gop_cache = << >>
        BY <2>4, <3>2
      <3>4. msg' = NoMsg
        BY <1>2, <2>1
      <3>5. Fed(x)'
        <4>1. Given(x)' = Given(x)
          BY <2>1 DEF Given
        <4> QED
          BY <1>1, <2>1, <2>2, <4>1 DEF Fed
      <3>6. Joins(x)'
        BY <2>2, <3>3, <3>4 DEF Joins, Visited
      <3> QED
        BY <3>5, <3>6
    <2> QED
      BY <2>1, <2>3, <2>4
  <1> QED
    BY <1>4, <1>5, <1>6, <1>7, <1>8, <1>9, <1>10, <1>11, <1>12, <1>13
       DEF PublisherStep, PublisherInside

\* Every step of a player keeps every stream in order: while it holds the source lock
\* it is given the caches, and nothing is published meanwhile.
LEMMA PlayerStreams ==
    ASSUME IInv, Roomy, Streams, NEW p \in Players, PlayerStep(p), NEW x \in Players
    PROVE  Fed(x)' /\ Joins(x)'
  <1> USE DEF Goto, srcVars, consVars, histVars
  <1>0. /\ pc \in [Threads -> PublisherPc \cup PlayerPc] /\ nmsg \in Nat
        /\ x \in Threads /\ p \in Threads /\ pending \subseteq Players /\ TypeOK
        /\ meta \in Metas /\ gop \in Gops /\ todo \in Seq(Message)
        /\ created \in [Players -> Nat] /\ joined \in [Players -> Nat] /\ sent \in [Players -> Seq(Message)]
        /\ queue \in [Players -> Queues]
    BY DEF IInv, TypeOK, ThreadType, HistoryType, SourceType, ConsumerType, Threads
  <1>1. Fed(x) /\ Joins(x) /\ Numbers
    BY DEF Streams
  <1>2. /\ srcLock \notin Publishers => msg = NoMsg /\ pending = {}
        /\ pc[p] = "dumping" => srcLock = p
        /\ pc[x] = "dumping" => srcLock = x
        /\ NoThread \notin Publishers /\ p \notin Publishers
        /\ x # NoThread /\ p # NoThread
    BY <1>1, NoFanout, LiveSourceAssumption
  <1>3. ASSUME Stream(x)' = Stream(x), created'[x] = created[x], joined'[x] = joined[x],
               UNCHANGED <<nmsg, gop, msg, pending>>,
               pc'[x] = pc[x] \/ (Playing(x) /\ Playing(x)'),
               todo' = todo \/ pc[x] # "dumping"
        PROVE  Fed(x)' /\ Joins(x)'
    BY <1>1, <1>3, OrderKept
  <1>4. CASE CreateConsumer(p)
    <2>1. /\ UNCHANGED <<queue, sent, joined, nmsg, gop, msg, pending, todo>>
          /\ srcLock = NoThread /\ created' = [created EXCEPT ![p] = nmsg]
          /\ pc[p] = "idle" /\ pc' = [pc EXCEPT ![p] = "created"]
      BY <1>4 DEF CreateConsumer
    <2>2. Stream(x)' = Stream(x)
      BY <2>1 DEF Stream
    <2>3. CASE x # p
      <3>1. created'[x] = created[x] /\ pc'[x] = pc[x]
        BY <1>0, <2>1, <2>3
      <3> QED
        BY ONLY <1>3, <2>1, <2>2, <3>1
    <2>4. CASE x = p
      <3>1. queue[x] = NewQueue /\ sent[x] = << >>
        BY <2>1, <2>4 DEF IInv, Sessions
      <3>2. Stream(x) = << >>
        BY <3>1 DEF Stream, NewQueue
      <3>3. pc'[x] = "created" /\ ~Playing(x)'
        BY <1>0, <2>1, <2>4 DEF Playing
      <3>4. created'[x] = nmsg /\ Given(x)' = nmsg
        BY <1>0, <1>2, <2>1, <2>4 DEF Given
      <3>5. Live(<< >>, nmsg, nmsg)
        BY <1>0 DEF Live
      <3> QED
        BY <2>2, <3>2, <3>3, <3>4, <3>5 DEF Fed, Joins
    <2> QED
      BY <2>3, <2>4
  <1>5. CASE ConsumerDumps(p)
    <2>1. /\ srcLock = NoThread /\ pc[p] = "created" /\ pc' = [pc EXCEPT ![p] = "dumping"]
          /\ queue' = [queue EXCEPT ![p] = set_queue_size(@, QueueLength)]
          /\ todo' = IF hub_active THEN Prefill ELSE << >>
          /\ joined' = [joined EXCEPT ![p] = nmsg]
          /\ UNCHANGED <<sent, nmsg, gop, msg, pending, created>>
      BY <1>5 DEF ConsumerDumps
    <2>2. Stream(x)' = Stream(x)
      <3>1. queue'[x].msgs = queue[x].msgs
        <4>1. CASE x = p
          BY <1>0, <2>1, <4>1 DEF set_queue_size, Queues
        <4>2. CASE x # p
          BY <1>0, <2>1, <4>2
        <4> QED
          BY <4>1, <4>2
      <3> QED
        BY <2>1, <3>1 DEF Stream
    <2>3. CASE x # p
      <3>1. /\ pc[x] # "dumping" /\ pc'[x] = pc[x]
            /\ created'[x] = created[x] /\ joined'[x] = joined[x]
        BY <1>0, <1>2, <2>1, <2>3
      <3> QED
        BY ONLY <1>3, <2>1, <2>2, <3>1
    <2>4. CASE x = p
      <3>1. pc'[x] = "dumping" /\ ~Playing(x)' /\ joined'[x] = nmsg /\ nmsg' = nmsg
        BY <1>0, <2>1, <2>4 DEF Playing
      <3>2. Live(Stream(x), created[x], nmsg) /\ created'[x] = created[x]
        <4>1. msg = NoMsg
          BY <1>2, <2>1
        <4>2. Given(x) = nmsg
          BY <4>1 DEF Given
        <4> QED
          BY <1>1, <2>1, <2>4, <4>2 DEF Fed
      <3>3. Fed(x)'
        <4>1. Stream(x) \in Seq(Message) /\ created[x] \in Nat /\ nmsg \in Nat
          BY <1>0, StreamType
        <4>2. InOrder(Stream(x), created[x], nmsg, nmsg)
          BY ONLY <3>2, <4>1, LiveInOrder
        <4>3. \A i \in DOMAIN Stream(x) : ~(nmsg - created[x] < i)
          BY <3>2, <4>1 DEF Live
        <4>4. Before(Stream(x), nmsg - created[x], todo')
          BY ONLY <4>3 DEF Before
        <4> QED
          BY ONLY <2>2, <3>1, <3>2, <4>2, <4>4 DEF Fed
      <3>4. ASSUME NEW i \in DOMAIN gop.gop_cache, Picture(gop.gop_cache[i])
            PROVE  Has(todo', gop.gop_cache[i])
        <4>1. hub_active
          BY <3>4 DEF IInv, Sessions
        <4>2. todo' = Prefill
          BY <2>1, <4>1
        <4>3. PICK j \in DOMAIN Prefill : Prefill[j] = gop.gop_cache[i]
          BY <1>0, PrefillMembers
        <4> QED
          BY ONLY <3>4, <4>2, <4>3 DEF Has
      <3>5. \A i \in DOMAIN gop.gop_cache :
               Picture(gop.gop_cache[i]) => Has(todo', gop.gop_cache[i])
        BY ONLY <3>4, Zenon
      <3>6. Joins(x)'
        BY <2>1, <3>1, <3>5 DEF Joins
      <3> QED
        BY <3>3, <3>6
    <2> QED
      BY <2>3, <2>4
  <1>6. CASE ConsumerDumpsOne(p)
    <2>1. /\ pc[p] = "dumping" /\ todo # << >> /\ EnqueueTo(p, Head(todo)) /\ todo' = Tail(todo)
          /\ UNCHANGED <<pc, sent, created, joined, nmsg, gop, msg, pending>>
      BY <1>6 DEF ConsumerDumpsOne
    <2>2. Head(todo) \in Message
      BY <1>0, <2>1
    <2>3. ~overflows(Pushed(queue[p], CorrectedMsg(jitter[p], Head(todo))))
      BY <2>1 DEF Roomy, Coming
    <2>4. /\ \E c \in Message : /\ c.id = Head(todo).id /\ c.kind = Head(todo).kind
                                /\ Stream(p)' = Append(Stream(p), c)
          /\ \A y \in Players \ {p} : Stream(y)' = Stream(y)
      BY <1>0, <2>1, <2>2, <2>3, EnqueueToStream
    <2>5. CASE x # p
      <3>1. /\ Stream(x)' = Stream(x) /\ pc'[x] = pc[x] /\ pc[x] # "dumping"
            /\ created'[x] = created[x] /\ joined'[x] = joined[x]
        BY <1>2, <2>1, <2>4, <2>5
      <3> QED
        BY ONLY <1>3, <2>1, <3>1
    <2>6. CASE x = p
      <3>1. PICK c \in Message : /\ c.id = Head(todo).id /\ c.kind = Head(todo).kind
                                 /\ Stream(x)' = Append(Stream(x), c)
        BY <2>4, <2>6
      <3>2. Stream(x) \in Seq(Message) /\ created[x] \in Nat /\ nmsg \in Nat
        BY <1>0, StreamType
      <3>3. /\ pc'[x] = "dumping" /\ pc[x] = "dumping" /\ ~Playing(x)'
            /\ created'[x] = created[x] /\ joined'[x] = joined[x]
            /\ nmsg' = nmsg /\ gop' = gop
        BY <2>1, <2>6 DEF Playing
      <3>4. Head(todo).id <= nmsg
        BY <1>0, <1>1, <2>1 DEF Numbers, Numbered
      <3>11. InOrder(Stream(x), created[x], nmsg, nmsg) /\ Before(Stream(x), nmsg - created[x], todo)
        BY <1>1, <3>3 DEF Fed
      <3>12. 1 \in DOMAIN todo /\ todo[1] = Head(todo)
        BY <1>0, <2>1
      <3>13. Picture(c) => Picture(Head(todo))
        BY <3>1 DEF Picture
      <3>5. InOrder(Append(Stream(x), c), created[x], nmsg, nmsg)
        <4>1. \A i \in DOMAIN Stream(x) :
                 nmsg - created[x] < i /\ Picture(Stream(x)[i]) /\ Picture(c) => Stream(x)[i].id < c.id
          BY ONLY <3>1, <3>11, <3>12, <3>13 DEF Before
        <4>2. c.id <= nmsg
          BY ONLY <3>1, <3>4
        <4> QED
          BY ONLY <3>1, <3>2, <3>11, <4>1, <4>2, InOrderCached
      <3>14. Before(Append(Stream(x), c), nmsg - created[x], Tail(todo))
        <4>1. \A i \in DOMAIN Append(Stream(x), c) :
                 \/ Append(Stream(x), c)[i] = c
                 \/ i \in DOMAIN Stream(x) /\ Append(Stream(x), c)[i] = Stream(x)[i]
          BY <3>1, <3>2
        <4>2. \A j \in DOMAIN Tail(todo) :
                 j + 1 \in DOMAIN todo /\ 1 < j + 1 /\ Tail(todo)[j] = todo[j + 1]
          BY <1>0, <2>1
        <4>3. InTurn(todo)
          BY <1>1 DEF Numbers
        <4>4. \A j \in DOMAIN Tail(todo) :
                 Picture(c) /\ Picture(Tail(todo)[j]) => c.id < Tail(todo)[j].id
          BY ONLY <3>1, <3>12, <3>13, <4>2, <4>3 DEF InTurn
        <4> QED
          BY ONLY <3>11, <4>1, <4>2, <4>4 DEF Before
      <3>6. joined[x] = nmsg
        BY <1>1, <3>3 DEF Fed
      <3>7. Fed(x)'
        BY ONLY <2>1, <3>1, <3>3, <3>5, <3>6, <3>14 DEF Fed
      <3>8. ASSUME NEW i \in DOMAIN gop.gop_cache, Picture(gop.gop_cache[i])
            PROVE  Has(Append(Stream(x), c), gop.gop_cache[i]) \/ Has(Tail(todo), gop.gop_cache[i])
        <4> DEFINE g == gop.gop_cache[i]
        <4>1. Has(Stream(x), g) \/ Has(todo, g)
          BY <1>1, <3>3, <3>8 DEF Joins
        <4> HIDE DEF g
        <4>2. /\ Has(Stream(x), g) => Has(Append(Stream(x), c), g)
              /\ Picture(c) /\ c.id = g.id => Has(Append(Stream(x), c), g)
          BY <3>1, <3>2, HasAppend
        <4>3. Has(todo, g) => (Picture(Head(todo)) /\ Head(todo).id = g.id) \/ Has(Tail(todo), g)
          BY <1>0, <2>1, HasSplit
        <4>4. Picture(Head(todo)) => Picture(c)
          BY <3>1 DEF Picture
        <4>5. Has(Append(Stream(x), c), g) \/ Has(Tail(todo), g)
          BY ONLY <3>1, <4>1, <4>2, <4>3, <4>4
        <4> QED
          BY <4>5 DEF g
      <3>9. \A i \in DOMAIN gop.gop_cache : Picture(gop.gop_cache[i]) =>
               Has(Append(Stream(x), c), gop.gop_cache[i]) \/ Has(Tail(todo), gop.gop_cache[i])
        BY ONLY <3>8, Zenon
      <3>10. Joins(x)'
        BY ONLY <2>1, <3>1, <3>3, <3>9 DEF Joins
      <3> QED
        BY <3>7, <3>10
    <2> QED
      BY <2>5, <2>6
  <1>7. CASE ConsumerDumpsEnd(p)
    <2>1. /\ pc[p] = "dumping" /\ todo = << >> /\ pc' = [pc EXCEPT ![p] = "playing"]
          /\ UNCHANGED <<queue, sent, created, joined, nmsg, gop, msg, pending, todo>>
      BY <1>7 DEF ConsumerDumpsEnd
    <2>2. Stream(x)' = Stream(x)
      BY <2>1 DEF Stream
    <2>3. CASE x # p
      BY <1>0, <1>3, <2>1, <2>2, <2>3
    <2>4. CASE x = p
      <3>1. /\ pc'[x] = "playing" /\ Playing(x)' /\ nmsg' = nmsg /\ gop' = gop
            /\ created'[x] = created[x] /\ joined'[x] = joined[x]
        BY <1>0, <2>1, <2>4 DEF Playing
      <3>2. msg = NoMsg /\ msg' = NoMsg
        BY <1>2, <2>1
      <3>3. Given(x)' = nmsg
        BY <3>1, <3>2 DEF Given
      <3>4. InOrder(Stream(x), created[x], joined[x], nmsg)
        BY <1>1, <2>1, <2>4 DEF Fed
      <3>5. Fed(x)'
        BY ONLY <2>2, <3>1, <3>3, <3>4 DEF Fed
      <3>6. \A i \in DOMAIN gop.gop_cache :
               Picture(gop.gop_cache[i]) => Has(Stream(x), gop.gop_cache[i])
        <4>1. \A g : ~Has(todo, g)
          BY <2>1 DEF Has
        <4> QED
          BY <1>1, <2>1, <2>4, <4>1 DEF Joins
      <3>7. Joins(x)'
        BY ONLY <2>2, <3>1, <3>2, <3>6 DEF Joins, Visited
      <3> QED
        BY <3>5, <3>7
    <2> QED
      BY <2>3, <2>4
  <1>8. CASE Wait(p)
    <2>1. /\ pc[p] = "playing" /\ UNCHANGED <<queue, sent, created, joined, nmsg, gop, msg, pending, todo>>
          /\ pc' = [pc EXCEPT ![p] = IF Enough(queue[p]) THEN "dump" ELSE "waiting"]
      BY <1>8 DEF Wait
    <2>2. Stream(x)' = Stream(x)
      BY <2>1 DEF Stream
    <2>3. pc'[x] = pc[x] \/ (Playing(x) /\ Playing(x)')
      BY <1>0, <2>1 DEF Playing
    <2> QED
      BY ONLY <1>3, <2>1, <2>2, <2>3
  <1>9. CASE Wake(p)
    <2>1. /\ pc[p] = "waiting" /\ UNCHANGED <<queue, sent, created, joined, nmsg, gop, msg, pending, todo>>
          /\ pc' = [pc EXCEPT ![p] = "dump"]
      BY <1>9 DEF Wake
    <2>2. Stream(x)' = Stream(x)
      BY <2>1 DEF Stream
    <2>3. pc'[x] = pc[x] \/ (Playing(x) /\ Playing(x)')
      BY <1>0, <2>1 DEF Playing
    <2> QED
      BY ONLY <1>3, <2>1, <2>2, <2>3
  <1>10. ASSUME Dump(p), pc[p] \in {"dump", "presrcid"},
                UNCHANGED <<created, joined, nmsg, gop, msg, pending, todo>>
         PROVE  Fed(x)' /\ Joins(x)'
    <2>1. Stream(x)' = Stream(x)
      BY <1>0, <1>10, DumpStream
    <2>2. pc' = [pc EXCEPT ![p] = "playing"]
      BY <1>10 DEF Dump
    <2>3. pc'[x] = pc[x] \/ (Playing(x) /\ Playing(x)')
      BY <1>0, <1>10, <2>2 DEF Playing
    <2> QED
      BY ONLY <1>3, <1>10, <2>1, <2>3
  <1>11. CASE DumpPackets(p)
    BY <1>10, <1>11 DEF DumpPackets
  <1>12. CASE DumpPacketsLock(p)
    <2>1. /\ pc[p] = "dump" /\ UNCHANGED <<queue, sent, created, joined, nmsg, gop, msg, pending, todo>>
          /\ pc' = [pc EXCEPT ![p] = "srcid"]
      BY <1>12 DEF DumpPacketsLock
    <2>2. Stream(x)' = Stream(x)
      BY <2>1 DEF Stream
    <2>3. pc'[x] = pc[x] \/ (Playing(x) /\ Playing(x)')
      BY <1>0, <2>1 DEF Playing
    <2> QED
      BY ONLY <1>3, <2>1, <2>2, <2>3
  <1>13. CASE ReadSourceId(p)
    <2>1. /\ pc[p] = "srcid" /\ UNCHANGED <<queue, sent, created, joined, nmsg, gop, msg, pending, todo>>
          /\ pc' = [pc EXCEPT ![p] = "presrcid"]
      BY <1>13 DEF ReadSourceId
    <2>2. Stream(x)' = Stream(x)
      BY <2>1 DEF Stream
    <2>3. pc'[x] = pc[x] \/ (Playing(x) /\ Playing(x)')
      BY <1>0, <2>1 DEF Playing
    <2> QED
      BY ONLY <1>3, <2>1, <2>2, <2>3
  <1>14. CASE ReadPreSourceId(p)
    BY <1>10, <1>14 DEF ReadPreSourceId
  <1>15. CASE DestroyConsumer(p)
    <2>1. /\ pc[p] = "playing" /\ pc' = [pc EXCEPT ![p] = "idle"]
          /\ queue' = [queue EXCEPT ![p] = NewQueue] /\ sent' = [sent EXCEPT ![p] = << >>]
          /\ created' = [created EXCEPT ![p] = 0] /\ joined' = [joined EXCEPT ![p] = 0]
          /\ UNCHANGED <<nmsg, gop, msg, pending, todo>>
      BY <1>15 DEF DestroyConsumer
    <2>2. CASE x = p
      <3>1. pc'[x] = "idle" /\ ~Playing(x)'
        BY <1>0, <2>1, <2>2 DEF Playing
      <3> QED
        BY <3>1 DEF Fed, Joins
    <2>3. CASE x # p
      <3>1. /\ Stream(x)' = Stream(x) /\ pc'[x] = pc[x]
            /\ created'[x] = created[x] /\ joined'[x] = joined[x]
        BY <1>0, <2>1, <2>3 DEF Stream
      <3> QED
        BY ONLY <1>3, <2>1, <3>1
    <2> QED
      BY <2>2, <2>3
  <1> QED
    BY <1>4, <1>5, <1>6, <1>7, <1>8, <1>9, <1>11, <1>12, <1>13, <1>14, <1>15
       DEF PlayerStep, PlayerLoop

\* A queue has no limit, or the configured one (set_queue_size in consumer_dumps).
Limits == \A p \in Players : queue[p].max_queue_size \in {0, QueueLength}

\* No step changes a limit but consumer_dumps.
LEMMA LimitsKept == TypeOK /\ Control /\ Limits /\ [Next]_vars => Limits'
  <1> SUFFICES ASSUME TypeOK, Control, Limits, [Next]_vars, NEW x \in Players
               PROVE  queue'[x].max_queue_size \in {0, QueueLength}
    BY DEF Limits
  <1> USE DEF Goto, srcVars, consVars, histVars
  <1>0. /\ queue \in [Players -> Queues] /\ queue[x].max_queue_size \in {0, QueueLength}
        /\ todo \in Seq(Message)
    BY DEF TypeOK, ConsumerType, ThreadType, Limits
  <1>1. ASSUME NEW p \in Players, NEW m \in Message, EnqueueTo(p, m)
        PROVE  queue'[x].max_queue_size = queue[x].max_queue_size
    <2>1. queue[p] \in QueueOf(Message) /\ jitter[p] \in JitterState
      BY SameTypes DEF TypeOK, ConsumerType
    <2>2. CorrectedMsg(jitter[p], m) \in Message
      BY <2>1, CorrectedTypes, MessageRetimable
    <2> DEFINE e == enqueue(queue[p], CorrectedMsg(jitter[p], m))
    <2>3. e.max_queue_size = queue[p].max_queue_size
      BY <2>1, <2>2, EnqueueType, MessageRetimable
    <2>4. queue' = [queue EXCEPT ![p] = e]
      BY <1>1 DEF EnqueueTo
    <2> HIDE DEF e
    <2> QED
      BY ONLY <1>0, <2>3, <2>4
  <1>2. ASSUME NEW p \in Players, Dump(p)
        PROVE  queue'[x].max_queue_size = queue[x].max_queue_size
    <2>1. queue[p] \in QueueOf(Message) /\ MwMsgs \in Nat \ {0}
      BY SameTypes, LiveSourceAssumption DEF TypeOK, ConsumerType
    <2> DEFINE e == AfterDump(queue[p], MwMsgs)
    <2>2. e.max_queue_size = queue[p].max_queue_size
      BY <2>1, DumpType, MessageRetimable
    <2>3. queue' = [queue EXCEPT ![p] = e]
      BY <1>2 DEF Dump
    <2> HIDE DEF e
    <2> QED
      BY ONLY <1>0, <2>2, <2>3
  <1>3. ASSUME NEW t \in Publishers, PublisherStep(t)
        PROVE  queue'[x].max_queue_size \in {0, QueueLength}
    <2>1. ASSUME NEW p \in Players, Enqueue(t, p) PROVE queue'[x].max_queue_size = queue[x].max_queue_size
      <3>1. msg \in Message /\ EnqueueTo(p, msg)
        BY <2>1 DEF Enqueue, Control
      <3> QED
        BY <1>1, <3>1
    <2>2. ASSUME ~\E p \in Players : Enqueue(t, p) PROVE queue' = queue
      BY <1>3, <2>2 DEF PublisherStep, PublisherInside, CanPublish, OnPublishBusy, OnPublish,
         UpdateSourceId, OnPublishEnd, OnPublishFail, OnMessage, OnMessageEnd, OnUnpublish
    <2> QED
      BY <1>0, <2>1, <2>2
  <1>4. ASSUME NEW p \in Players, PlayerStep(p)
        PROVE  queue'[x].max_queue_size \in {0, QueueLength}
    <2>1. CASE ConsumerDumps(p)
      <3>1. queue' = [queue EXCEPT ![p] = set_queue_size(@, QueueLength)]
        BY <2>1 DEF ConsumerDumps
      <3> QED
        BY <1>0, <3>1 DEF set_queue_size, Queues
    <2>2. CASE ConsumerDumpsOne(p)
      <3>1. Head(todo) \in Message /\ EnqueueTo(p, Head(todo))
        BY <1>0, <2>2 DEF ConsumerDumpsOne
      <3> QED
        BY <1>0, <1>1, <3>1
    <2>3. CASE DumpPackets(p) \/ ReadPreSourceId(p)
      <3>1. Dump(p)
        BY <2>3 DEF DumpPackets, ReadPreSourceId
      <3> QED
        BY <1>0, <1>2, <3>1
    <2>4. CASE DestroyConsumer(p)
      <3>1. queue' = [queue EXCEPT ![p] = NewQueue]
        BY <2>4 DEF DestroyConsumer
      <3> QED
        BY <1>0, <3>1 DEF NewQueue
    <2>5. CASE CreateConsumer(p) \/ ConsumerDumpsEnd(p) \/ Wait(p) \/ Wake(p) \/ DumpPacketsLock(p)
               \/ ReadSourceId(p)
      BY <1>0, <2>5 DEF CreateConsumer, ConsumerDumpsEnd, Wait, Wake, DumpPacketsLock, ReadSourceId
    <2> QED
      BY <1>4, <2>1, <2>2, <2>3, <2>4, <2>5 DEF PlayerStep, PlayerLoop
  <1>5. CASE UNCHANGED vars
    BY <1>0, <1>5 DEF vars
  <1> QED
    BY <1>3, <1>4, <1>5 DEF Next

-----------------------------------------------------------------------------
(* The theorems.                                                            *)

\* Every reachable state satisfies the inductive invariant.
THEOREM Inductive == Spec => []IInv
  <1>1. Init => IInv
    BY InitType, InitControl, InitSessions DEF IInv
  <1>2. IInv /\ [Next]_vars => IInv'
    <2> SUFFICES ASSUME IInv, [Next]_vars PROVE IInv'
      OBVIOUS
    <2>1. ASSUME NEW t \in Publishers, PublisherStep(t) PROVE IInv'
      BY <2>1, PublisherType, PublisherControl, PublisherSessions DEF IInv
    <2>2. ASSUME NEW p \in Players, PlayerStep(p) PROVE IInv'
      BY <2>2, PlayerType, PlayerControl, PlayerSessions DEF IInv
    <2>3. CASE UNCHANGED vars
      BY <2>3 DEF vars, srcVars, consVars, histVars, IInv, TypeOK, SourceType, ConsumerType,
                  ThreadType, HistoryType, Control, SinglePublisher, Occupied, Sessions
    <2> QED
      BY <2>1, <2>2, <2>3 DEF Next
  <1> QED
    BY <1>1, <1>2, PTL DEF Spec

\* Type correctness of the source, its consumers and its threads.
THEOREM TypeCorrect == Spec => []TypeOK
  <1>1. IInv => TypeOK
    BY DEF IInv
  <1> QED
    BY <1>1, Inductive, PTL

\* However many connections try at once, one of them publishes, and the stream is
\* free again exactly when none does (SrsLiveSource::on_publish, on_unpublish).
THEOREM OnePublisher == Spec => []SinglePublisher
  <1>1. IInv => SinglePublisher
    BY DEF IInv
  <1> QED
    BY <1>1, Inductive, PTL

\* No loop over the consumers reaches a consumer its player has freed: the source
\* lock is held from the first to the last visit, and on_consumer_destroy needs it.
THEOREM NoUseAfterFree == Spec => []NoDanglingConsumer
  <1>1. IInv => NoDanglingConsumer
    BY DEF IInv, Control, NoDanglingConsumer, TypeOK, ThreadType
  <1> QED
    BY <1>1, Inductive, PTL

\* No player gets a message of a session that ended before it joined, for any
\* number of sessions, failed publishes and joins in between.
THEOREM SessionsSeparate == Spec => []NoStaleSession
  <1>1. IInv => NoStaleSession
    <2> SUFFICES ASSUME IInv, NEW p \in consumers, NEW i \in DOMAIN Stream(p)
                 PROVE  Stream(p)[i].session >= born[p]
      BY DEF NoStaleSession
    <2>1. p \in Players
      BY DEF IInv, TypeOK, SourceType
    <2>2. sent[p] \in Seq(Since(born[p])) /\ queue[p].msgs \in Seq(Since(born[p]))
      BY <2>1 DEF IInv, Sessions, QueueOf
    <2>3. Stream(p) \in Seq(Since(born[p]))
      BY <2>2 DEF Stream
    <2>4. Stream(p)[i] \in Since(born[p])
      BY <2>3
    <2> QED
      BY <2>4 DEF Since
  <1> QED
    BY <1>1, Inductive, PTL

\* As long as no queue overflows, the streams of the players stay in order.
THEOREM StreamsInductive == Spec /\ []Roomy => []Streams
  <1>1. Init => Streams
    BY InitStreams
  <1>2. IInv /\ Roomy /\ Streams /\ [Next]_vars => Streams'
    <2> SUFFICES ASSUME IInv, Roomy, Streams, [Next]_vars PROVE Streams'
      OBVIOUS
    <2>1. ASSUME NEW t \in Publishers, PublisherStep(t) PROVE Streams'
      BY <2>1, PublisherNumbers, PublisherStreams DEF Streams
    <2>2. ASSUME NEW p \in Players, PlayerStep(p) PROVE Streams'
      BY <2>2, PlayerNumbers, PlayerStreams DEF Streams
    <2>3. CASE UNCHANGED vars
      <3>1. Numbers'
        BY <2>3 DEF vars, srcVars, histVars, Streams, Numbers
      <3>2. ASSUME NEW x \in Players PROVE Fed(x)' /\ Joins(x)'
        <4>1. Stream(x)' = Stream(x)
          BY <2>3 DEF vars, consVars, histVars, Stream
        <4> QED
          BY <2>3, <4>1, OrderKept DEF vars, srcVars, histVars, Streams
      <3> QED
        BY <3>1, <3>2 DEF Streams
    <2> QED
      BY <2>1, <2>2, <2>3 DEF Next
  <1> QED
    BY <1>1, <1>2, Inductive, PTL DEF Spec

\* For any interleaving of joins, publishing, sending and leaving, a player is sent
\* what was published since its consumer was created, complete and in order, but
\* with the cached messages in between, at the moment it joined; of those only the
\* pictures published between create_consumer and consumer_dumps come twice.  It
\* holds as long as the queue has room (an overflow drops messages on purpose).
THEOREM NothingMissed == Spec /\ []Roomy => []GapFree
  <1>1. IInv /\ Streams => GapFree
    <2> SUFFICES ASSUME IInv, Streams, NEW p \in consumers, pc[p] \notin {"created", "dumping"}
                 PROVE  InOrder(Stream(p), created[p], joined[p], Given(p))
      BY DEF GapFree
    <2>1. p \in Players /\ pc[p] # "idle"
      BY DEF IInv, TypeOK, SourceType, Control
    <2> QED
      BY <2>1 DEF Streams, Fed, Playing
  <1> QED
    BY <1>1, Inductive, StreamsInductive, PTL

\* A player never misses a frame of the cached GOP between what it was given when it
\* joined and what was fanned out since, as long as its queue has room.
THEOREM GopReachesPlayers == Spec /\ []Roomy => []GopJoinsLive
  <1>1. IInv /\ Streams => GopJoinsLive
    <2> SUFFICES ASSUME IInv, Streams, NEW p \in consumers, pc[p] \notin {"created", "dumping"},
                        NEW g \in DOMAIN gop.gop_cache, Picture(gop.gop_cache[g])
                 PROVE  Has(Stream(p), gop.gop_cache[g])
      BY DEF GopJoinsLive
    <2>1. p \in Players /\ pc[p] # "idle"
      BY DEF IInv, TypeOK, SourceType, Control
    <2> QED
      BY <2>1 DEF Streams, Joins, Playing
  <1> QED
    BY <1>1, Inductive, StreamsInductive, PTL

\* With queue_length 0, which is no limit, nothing is ever missed.
THEOREM NoLimitNoGap == ASSUME QueueLength = 0 PROVE Spec => []GapFree /\ []GopJoinsLive
  <1>1. Init => Limits
    BY DEF Init, Limits, NewQueue
  <1>2. TypeOK /\ Control /\ Limits /\ [Next]_vars => Limits'
    BY LimitsKept
  <1>3. IInv => TypeOK /\ Control
    BY DEF IInv
  <1>4. IInv /\ Limits => Roomy
    <2> SUFFICES ASSUME IInv, Limits, NEW p \in Players, NEW m \in Coming(p)
                 PROVE  ~overflows(Pushed(queue[p], CorrectedMsg(jitter[p], m)))
      BY DEF Roomy
    <2>1. queue[p] \in Queues /\ queue[p].max_queue_size = 0
      BY DEF IInv, TypeOK, ConsumerType, Limits
    <2>2. \A c : Pushed(queue[p], c).max_queue_size = 0
      BY <2>1 DEF Pushed, Queues
    <2> QED
      BY <2>2 DEF overflows
  <1> QED
    BY <1>1, <1>2, <1>3, <1>4, Inductive, NothingMissed, GopReachesPlayers, PTL DEF Spec
=============================================================================
