----------------------------- MODULE LiveSource -----------------------------
(***************************************************************************)
(* One SrsLiveSource shared by the threads of the RTMP connections that     *)
(* publish to it and play from it (SrsRtmpConn::publishing and playing).    *)
(* Every connection is one thread.  The source mutex guards the caches and  *)
(* the set of consumers, the mutex of a consumer its queue and jitter; a    *)
(* step is what a thread does between two points at which it may block on   *)
(* a mutex.  A player thread and the consumer it owns have the same name.   *)
(*                                                                          *)
(* The fan-out loops visit the consumers in vector order; here in any       *)
(* order, which no other thread can tell apart.                             *)
(***************************************************************************)
EXTENDS Jitter, MessageQueue, GopCache, FiniteSets

CONSTANTS Publishers, Players,  \* connection threads
          NoThread,             \* no owner of a mutex, no source id
          SentKinds,            \* kinds of message the encoders may send, by number
          GopCacheOn, GopCacheMaxFrames,  \* gop_cache, gop_cache_max_frames
          QueueLength,          \* queue_length
          MwMsgs, MwSleep,      \* mw_msgs, SRS_PERF_MW_SLEEP
          MaxMsgs, MaxSessions  \* bounds: messages, publish sessions

ASSUME LiveSourceAssumption ==
    /\ Publishers \cap Players = {}
    /\ NoThread \notin Publishers \cup Players
    /\ SentKinds \in [1 .. MaxMsgs -> SUBSET Kinds]
    /\ GopCacheOn \in BOOLEAN /\ GopCacheMaxFrames \in Nat
    /\ QueueLength \in Nat /\ MwMsgs \in Nat \ {0} /\ MwSleep \in Int
    /\ MaxMsgs \in Nat /\ MaxSessions \in Nat

Threads == Publishers \cup Players

VARIABLES
  \* SrsLiveSource
    srcLock,        \* owner of SrsLiveSource::lock_
    can_publish, source_id, pre_source_id,
    hub_active,     \* SrsOriginHub::is_active
    meta,           \* SrsMetaCache: meta, audio, video; NoMsg is NULL
    gop,            \* SrsGopCache
    consumers,
  \* SrsLiveConsumer, one per player
    consLock,       \* owner of SrsLiveConsumer::lock_
    queue, jitter, should_update_source_id, mw_waiting,
  \* the threads
    pc,
    pending,        \* consumers the loop of the thread has still to visit
    todo,           \* cached messages consumer_dumps has still to enqueue
    msg,            \* the message that is being fanned out
  \* history
    nmsg,           \* messages published so far; also the id of the newest
    session,        \* publish sessions started so far
    born,           \* the first session whose messages a consumer may see
    created,        \* nmsg when the consumer was created
    joined,         \* nmsg when consumer_dumps filled the consumer's queue
    sent            \* messages a consumer handed to its connection

srcVars  == <<can_publish, source_id, pre_source_id, hub_active, meta, gop>>
consVars == <<queue, jitter, should_update_source_id, mw_waiting>>
histVars == <<nmsg, session, born, created, joined, sent>>
vars == <<srcLock, srcVars, consumers, consLock, consVars, pc, pending, todo, msg, histVars>>

Message == [kind : Kinds, timestamp : Nat, id : Nat, session : Nat]

NoMsg == [kind |-> "none", timestamp |-> 0, id |-> 0, session |-> 0]

NewMeta == [meta |-> NoMsg, audio |-> NoMsg, video |-> NoMsg]

PublisherPc == {"idle", "admitted", "notifying", "publishing", "fanout"}
PlayerPc    == {"idle", "created", "dumping", "playing", "waiting", "dump", "srcid", "presrcid"}

Init ==
    /\ srcLock = NoThread
    /\ can_publish = TRUE
    /\ source_id = NoThread /\ pre_source_id = NoThread
    /\ hub_active = FALSE
    /\ meta = NewMeta
    \* every connection sets the configured values before it plays or publishes
    /\ gop = GopSetMaxFrames(GopSet(NewGop, GopCacheOn), GopCacheMaxFrames)
    /\ consumers = {}
    /\ consLock = [p \in Players |-> NoThread]
    /\ queue = [p \in Players |-> NewQueue]
    /\ jitter = [p \in Players |-> NewJitter]
    /\ should_update_source_id = [p \in Players |-> FALSE]
    /\ mw_waiting = [p \in Players |-> FALSE]
    /\ pc = [t \in Threads |-> "idle"]
    /\ pending = {}
    /\ todo = << >>
    /\ msg = NoMsg
    /\ nmsg = 0 /\ session = 0
    /\ born = [p \in Players |-> 0]
    /\ created = [p \in Players |-> 0]
    /\ joined = [p \in Players |-> 0]
    /\ sent = [p \in Players |-> << >>]

Goto(t, label) == pc' = [pc EXCEPT ![t] = label]

-----------------------------------------------------------------------------
(* The publisher.                                                           *)

\* SrsRtmpConn::acquire_publish, first half: the early answer to a busy stream.
\* A busy stream ends the connection, which changes nothing here.
CanPublish(t) ==
    /\ pc[t] = "idle"
    /\ srcLock = NoThread
    /\ can_publish
    /\ Goto(t, "admitted")
    /\ UNCHANGED <<srcLock, srcVars, consumers, consLock, consVars, pending, todo, msg, histVars>>

\* SrsLiveSource::on_publish up to the loop of on_source_id_changed: under the
\* source lock the stream is checked again and occupied.
OnPublishBusy(t) ==
    /\ pc[t] = "admitted"
    /\ srcLock = NoThread
    /\ ~can_publish
    /\ Goto(t, "idle")
    /\ UNCHANGED <<srcLock, srcVars, consumers, consLock, consVars, pending, todo, msg, histVars>>

\* Mutant of OnPublish: trusts the early check.
OnPublish_Unchecked(t) ==
    /\ pc[t] = "admitted"
    /\ srcLock = NoThread
    /\ session < MaxSessions
    /\ srcLock' = t
    /\ can_publish' = FALSE
    /\ source_id' = t
    /\ pre_source_id' = IF pre_source_id = NoThread THEN t ELSE pre_source_id
    /\ pending' = IF source_id = t THEN {} ELSE consumers
    /\ session' = session + 1
    /\ Goto(t, "notifying")
    /\ UNCHANGED <<hub_active, meta, gop, consumers, consLock, consVars, todo, msg,
                   nmsg, born, created, joined, sent>>

OnPublish(t) ==
    /\ pc[t] = "admitted"
    /\ srcLock = NoThread
    /\ can_publish
    /\ session < MaxSessions
    /\ srcLock' = t
    /\ can_publish' = FALSE
    /\ source_id' = t
    /\ pre_source_id' = IF source_id # t /\ pre_source_id = NoThread THEN t ELSE pre_source_id
    /\ pending' = IF source_id = t THEN {} ELSE consumers
    /\ session' = session + 1
    /\ Goto(t, "notifying")
    /\ UNCHANGED <<hub_active, meta, gop, consumers, consLock, consVars, todo, msg,
                   nmsg, born, created, joined, sent>>

\* SrsLiveConsumer::update_source_id for one consumer of the loop.
UpdateSourceId(t, p) ==
    /\ pc[t] = "notifying"
    /\ p \in pending
    /\ consLock[p] = NoThread
    /\ should_update_source_id' = [should_update_source_id EXCEPT ![p] = TRUE]
    /\ pending' = pending \ {p}
    /\ UNCHANGED <<srcLock, srcVars, consumers, consLock, queue, jitter, mw_waiting,
                   pc, todo, msg, histVars>>

\* Mutant of OnPublishEnd: the caches of headers survive the new session.
OnPublishEnd_KeepMeta(t) ==
    /\ pc[t] = "notifying"
    /\ pending = {}
    /\ hub_active' = TRUE
    /\ srcLock' = NoThread
    /\ Goto(t, "publishing")
    /\ UNCHANGED <<can_publish, source_id, pre_source_id, meta, gop, consumers,
                   consLock, consVars, pending, todo, msg, histVars>>

\* on_publish after the loop: the hub starts, the caches of headers are reset.
OnPublishEnd(t) ==
    /\ pc[t] = "notifying"
    /\ pending = {}
    /\ hub_active' = TRUE
    /\ meta' = NewMeta
    /\ srcLock' = NoThread
    /\ Goto(t, "publishing")
    /\ UNCHANGED <<can_publish, source_id, pre_source_id, gop, consumers,
                   consLock, consVars, pending, todo, msg, histVars>>

\* on_publish when SrsOriginHub::on_publish fails: the stream is given back,
\* the source id stays.
OnPublishFail(t) ==
    /\ pc[t] = "notifying"
    /\ pending = {}
    /\ can_publish' = TRUE
    /\ srcLock' = NoThread
    /\ Goto(t, "idle")
    /\ UNCHANGED <<source_id, pre_source_id, hub_active, meta, gop, consumers,
                   consLock, consVars, pending, todo, msg, histVars>>

\* on_meta_data, on_audio, on_video up to the fan-out loop.  Metadata and video
\* headers are cached before it.
OnMessage(t, k) ==
    LET m == [kind |-> k, timestamp |-> nmsg + 1, id |-> nmsg + 1, session |-> session]
    IN  /\ pc[t] = "publishing"
        /\ srcLock = NoThread
        /\ nmsg < MaxMsgs /\ k \in SentKinds[nmsg + 1]
        /\ srcLock' = t
        /\ nmsg' = nmsg + 1
        /\ msg' = m
        /\ meta' = IF k = "meta" THEN [meta EXCEPT !.meta = m]
                   ELSE IF video_sh(m) THEN [meta EXCEPT !.video = m]
                   ELSE meta
        /\ pending' = consumers
        /\ Goto(t, "fanout")
        /\ UNCHANGED <<can_publish, source_id, pre_source_id, hub_active, gop,
                       consumers, consLock, consVars, todo, session, born,
                       created, joined, sent>>

\* The condition on which enqueue() notifies and wait() does not wait.
Enough(q) == size(q) > MwMsgs /\ duration(q) > MwSleep

\* SrsLiveConsumer::enqueue.
EnqueueTo(p, m) ==
    /\ consLock[p] = NoThread
    /\ queue' = [queue EXCEPT ![p] = enqueue(@, CorrectedMsg(jitter[p], m))]
    /\ jitter' = [jitter EXCEPT ![p] = CorrectedJitter(@, m)]
    /\ mw_waiting' = [mw_waiting EXCEPT ![p] = @ /\ ~Enough(queue'[p])]
    /\ UNCHANGED should_update_source_id

\* One consumer of the fan-out loop.
Enqueue(t, p) ==
    /\ pc[t] = "fanout"
    /\ p \in pending
    /\ EnqueueTo(p, msg)
    /\ pending' = pending \ {p}
    /\ UNCHANGED <<srcLock, srcVars, consumers, consLock, pc, todo, msg, histVars>>

\* on_audio_imp and on_video_imp after the loop.  The first audio message
\* stands in for a sequence header that did not come.
OnMessageEnd(t) ==
    /\ pc[t] = "fanout"
    /\ pending = {}
    /\ meta' = IF is_audio(msg) /\ (audio_sh(msg) \/ meta.audio = NoMsg)
               THEN [meta EXCEPT !.audio = msg] ELSE meta
    /\ gop' = IF is_av(msg) /\ ~audio_sh(msg) /\ ~video_sh(msg)
              THEN GopAdd(gop, msg) ELSE gop
    /\ srcLock' = NoThread
    /\ msg' = NoMsg
    /\ Goto(t, "publishing")
    /\ UNCHANGED <<can_publish, source_id, pre_source_id, hub_active, consumers,
                   consLock, consVars, pending, todo, histVars>>

\* SrsLiveSource::on_unpublish, when the connection stops publishing for
\* whatever reason.
OnUnpublish(t) ==
    /\ pc[t] = "publishing"
    /\ srcLock = NoThread
    /\ IF can_publish
       THEN UNCHANGED srcVars
       ELSE /\ hub_active' = FALSE
            /\ gop' = GopClear(gop)
            /\ pre_source_id' = IF source_id # NoThread THEN source_id ELSE pre_source_id
            /\ source_id' = NoThread
            /\ can_publish' = TRUE
            /\ UNCHANGED meta
    /\ Goto(t, "idle")
    /\ UNCHANGED <<srcLock, consumers, consLock, consVars, pending, todo, msg, histVars>>

-----------------------------------------------------------------------------
(* The player.                                                              *)

\* SrsLiveSource::create_consumer.
CreateConsumer(p) ==
    /\ pc[p] = "idle"
    /\ srcLock = NoThread
    /\ consumers' = consumers \cup {p}
    /\ born' = [born EXCEPT ![p] = IF can_publish THEN session + 1 ELSE session]
    /\ created' = [created EXCEPT ![p] = nmsg]
    /\ Goto(p, "created")
    /\ UNCHANGED <<srcLock, srcVars, consLock, consVars, pending, todo, msg,
                   nmsg, session, joined, sent>>

One(m) == IF m = NoMsg THEN << >> ELSE <<m>>

\* Mutant of Prefill: the last message of the cache is left to the fan-out.
Prefill_Short ==
    LET all == One(meta.meta) \o One(meta.audio) \o One(meta.video) \o gop.gop_cache
    IN  IF gop.gop_cache = << >> THEN all ELSE SubSeq(all, 1, Len(all) - 1)

\* SrsMetaCache::dumps, then SrsGopCache::dump.
Prefill == One(meta.meta) \o One(meta.audio) \o One(meta.video) \o gop.gop_cache

\* SrsLiveSource::consumer_dumps: takes the source lock and sets the limit of the
\* queue.
ConsumerDumps(p) ==
    /\ pc[p] = "created"
    /\ srcLock = NoThread
    /\ consLock[p] = NoThread
    /\ srcLock' = p
    /\ queue' = [queue EXCEPT ![p] = set_queue_size(@, QueueLength)]
    /\ todo' = IF hub_active THEN Prefill ELSE << >>
    /\ joined' = [joined EXCEPT ![p] = nmsg]
    /\ Goto(p, "dumping")
    /\ UNCHANGED <<srcVars, consumers, consLock, jitter, should_update_source_id,
                   mw_waiting, pending, msg, nmsg, session, born, created, sent>>

\* consumer_dumps enqueues the cached messages one by one.
ConsumerDumpsOne(p) ==
    /\ pc[p] = "dumping"
    /\ todo # << >>
    /\ EnqueueTo(p, Head(todo))
    /\ todo' = Tail(todo)
    /\ UNCHANGED <<srcLock, srcVars, consumers, consLock, pc, pending, msg, histVars>>

ConsumerDumpsEnd(p) ==
    /\ pc[p] = "dumping"
    /\ todo = << >>
    /\ srcLock' = NoThread
    /\ Goto(p, "playing")
    /\ UNCHANGED <<srcVars, consumers, consLock, consVars, pending, todo, msg, histVars>>

\* SrsLiveConsumer::wait: up to the condition variable, or through when there is
\* enough to send.
Wait(p) ==
    /\ pc[p] = "playing"
    /\ consLock[p] = NoThread
    /\ mw_waiting' = [mw_waiting EXCEPT ![p] = ~Enough(queue[p])]
    /\ Goto(p, IF Enough(queue[p]) THEN "dump" ELSE "waiting")
    /\ UNCHANGED <<srcLock, srcVars, consumers, consLock, queue, jitter,
                   should_update_source_id, pending, todo, msg, histVars>>

\* Mutant of Wake: nothing but a notification ends the wait.
Wake_NoTimeout(p) ==
    /\ pc[p] = "waiting"
    /\ consLock[p] = NoThread
    /\ ~mw_waiting[p]
    /\ Goto(p, "dump")
    /\ UNCHANGED <<srcLock, srcVars, consumers, consLock, consVars, pending, todo, msg, histVars>>

\* The wait ends: a notification, or 100ms are over.
Wake(p) ==
    /\ pc[p] = "waiting"
    /\ consLock[p] = NoThread
    /\ mw_waiting' = [mw_waiting EXCEPT ![p] = FALSE]
    /\ Goto(p, "dump")
    /\ UNCHANGED <<srcLock, srcVars, consumers, consLock, queue, jitter,
                   should_update_source_id, pending, todo, msg, histVars>>

\* The second half of SrsLiveConsumer::dump_packets, and the send of what it
\* hands out.
Dump(p) ==
    /\ sent' = [sent EXCEPT ![p] = @ \o Dumped(queue[p], MwMsgs)]
    /\ queue' = [queue EXCEPT ![p] = AfterDump(@, MwMsgs)]
    /\ Goto(p, "playing")

\* SrsLiveConsumer::dump_packets when no source id is to be reported.
DumpPackets(p) ==
    /\ pc[p] = "dump"
    /\ consLock[p] = NoThread
    /\ ~should_update_source_id[p]
    /\ Dump(p)
    /\ UNCHANGED <<srcLock, srcVars, consumers, consLock, jitter, should_update_source_id,
                   mw_waiting, pending, todo, msg, nmsg, session, born, created, joined>>

\* dump_packets when a source id is to be reported: the thread keeps the
\* consumer lock while it asks the source for its ids.
DumpPacketsLock(p) ==
    /\ pc[p] = "dump"
    /\ consLock[p] = NoThread
    /\ should_update_source_id[p]
    /\ consLock' = [consLock EXCEPT ![p] = p]
    /\ Goto(p, "srcid")
    /\ UNCHANGED <<srcLock, srcVars, consumers, consVars, pending, todo, msg, histVars>>

\* SrsLiveSource::source_id, from dump_packets.
ReadSourceId(p) ==
    /\ pc[p] = "srcid"
    /\ srcLock = NoThread
    /\ Goto(p, "presrcid")
    /\ UNCHANGED <<srcLock, srcVars, consumers, consLock, consVars, pending, todo, msg, histVars>>

\* SrsLiveSource::pre_source_id, then the rest of dump_packets.
ReadPreSourceId(p) ==
    /\ pc[p] = "presrcid"
    /\ srcLock = NoThread
    /\ should_update_source_id' = [should_update_source_id EXCEPT ![p] = FALSE]
    /\ consLock' = [consLock EXCEPT ![p] = NoThread]
    /\ Dump(p)
    /\ UNCHANGED <<srcLock, srcVars, consumers, jitter, mw_waiting, pending, todo, msg,
                   nmsg, session, born, created, joined>>

\* Mutant of DestroyConsumer: on_consumer_destroy does not take the source lock.
DestroyConsumer_NoLock(p) ==
    /\ pc[p] = "playing"
    /\ consumers' = consumers \ {p}
    /\ queue' = [queue EXCEPT ![p] = NewQueue]
    /\ jitter' = [jitter EXCEPT ![p] = NewJitter]
    /\ should_update_source_id' = [should_update_source_id EXCEPT ![p] = FALSE]
    /\ sent' = [sent EXCEPT ![p] = << >>]
    /\ born' = [born EXCEPT ![p] = 0]
    /\ created' = [created EXCEPT ![p] = 0]
    /\ joined' = [joined EXCEPT ![p] = 0]
    /\ Goto(p, "idle")
    /\ UNCHANGED <<srcLock, srcVars, consLock, mw_waiting, pending, todo, msg,
                   nmsg, session>>

\* do_playing ends (the peer left, an error, an interrupt): ~SrsLiveConsumer and
\* SrsLiveSource::on_consumer_destroy.  The next consumer starts afresh.
DestroyConsumer(p) ==
    /\ pc[p] = "playing"
    /\ srcLock = NoThread
    /\ consumers' = consumers \ {p}
    /\ queue' = [queue EXCEPT ![p] = NewQueue]
    /\ jitter' = [jitter EXCEPT ![p] = NewJitter]
    /\ should_update_source_id' = [should_update_source_id EXCEPT ![p] = FALSE]
    /\ sent' = [sent EXCEPT ![p] = << >>]
    /\ born' = [born EXCEPT ![p] = 0]
    /\ created' = [created EXCEPT ![p] = 0]
    /\ joined' = [joined EXCEPT ![p] = 0]
    /\ Goto(p, "idle")
    /\ UNCHANGED <<srcLock, srcVars, consLock, mw_waiting, pending, todo, msg,
                   nmsg, session>>

-----------------------------------------------------------------------------

PublisherInside(t) ==
    \/ \E p \in Players : UpdateSourceId(t, p) \/ Enqueue(t, p)
    \/ OnPublishEnd(t)
    \/ OnPublishFail(t)
    \/ OnMessageEnd(t)

PublisherStep(t) ==
    \/ CanPublish(t)
    \/ OnPublishBusy(t)
    \/ OnPublish(t)
    \/ PublisherInside(t)
    \/ \E k \in Kinds : OnMessage(t, k)
    \/ OnUnpublish(t)

PlayerLoop(p) ==
    \/ ConsumerDumps(p)
    \/ ConsumerDumpsOne(p)
    \/ ConsumerDumpsEnd(p)
    \/ Wait(p)
    \/ Wake(p)
    \/ DumpPackets(p)
    \/ DumpPacketsLock(p)
    \/ ReadSourceId(p)
    \/ ReadPreSourceId(p)

PlayerStep(p) ==
    \/ CreateConsumer(p)
    \/ PlayerLoop(p)
    \/ DestroyConsumer(p)

Next ==
    \/ \E t \in Publishers : PublisherStep(t)
    \/ \E p \in Players : PlayerStep(p)

Spec == Init /\ [][Next]_vars

\* A thread that can take its next step does so: nothing in the loop of a
\* player, or under the source lock, waits for the network here.
Fairness ==
    /\ \A t \in Publishers : WF_vars(PublisherInside(t))
    /\ \A p \in Players : WF_vars(PlayerLoop(p))

FairSpec == Spec /\ Fairness

-----------------------------------------------------------------------------
(* Properties.                                                              *)

Metas  == [meta : Message \cup {NoMsg}, audio : Message \cup {NoMsg},
           video : Message \cup {NoMsg}]

Gops   == [gop_cache : Seq(Message), enable_gop_cache : BOOLEAN,
           gop_cache_max_frames : Nat, cached_video_count : Nat,
           audio_after_last_video_count : 0 .. SRS_PURE_AUDIO_GUESS_COUNT]

Queues == [msgs : Seq(Message), av_start_time : Nat \cup {-1},
           av_end_time : Nat \cup {-1}, max_queue_size : Nat]

SourceType ==
    /\ srcLock \in Threads \cup {NoThread}
    /\ can_publish \in BOOLEAN
    /\ source_id \in Threads \cup {NoThread}
    /\ pre_source_id \in Threads \cup {NoThread}
    /\ hub_active \in BOOLEAN
    /\ meta \in Metas
    /\ gop \in Gops
    /\ consumers \subseteq Players

ConsumerType ==
    /\ consLock \in [Players -> Threads \cup {NoThread}]
    /\ queue \in [Players -> Queues]
    /\ jitter \in [Players -> JitterState]
    /\ should_update_source_id \in [Players -> BOOLEAN]
    /\ mw_waiting \in [Players -> BOOLEAN]

ThreadType ==
    /\ pc \in [Threads -> PublisherPc \cup PlayerPc]
    /\ pending \subseteq Players
    /\ todo \in Seq(Message)
    /\ msg \in Message \cup {NoMsg}

HistoryType ==
    /\ nmsg \in Nat /\ session \in Nat
    /\ born \in [Players -> Nat]
    /\ created \in [Players -> Nat]
    /\ joined \in [Players -> Nat]
    /\ sent \in [Players -> Seq(Message)]

TypeOK == SourceType /\ ConsumerType /\ ThreadType /\ HistoryType

Occupied(t) == pc[t] \in {"notifying", "publishing", "fanout"}

\* The stream has one publisher at a time, though two connections may both have
\* been told that it is free (SrsRtmpConn::acquire_publish,
\* SrsLiveSource::on_publish), and it is free exactly when it has none.
SinglePublisher ==
    /\ \A s, t \in Publishers : Occupied(s) /\ Occupied(t) => s = t
    /\ can_publish <=> \A t \in Publishers : ~Occupied(t)

\* A loop over the consumers never reaches one that its player has freed
\* (SrsLiveSource::on_consumer_destroy against the fan-out of on_video_imp).
NoDanglingConsumer ==
    \A p \in pending : pc[p] # "idle"

\* All messages a player was or will be sent since it joined, in order.
Stream(p) == sent[p] \o queue[p].msgs

\* A player that joins never gets a message of an earlier publish session out of
\* the caches (meta->clear in on_publish, gop_cache->clear in on_unpublish).
NoStaleSession ==
    \A p \in consumers : \A i \in DOMAIN Stream(p) : Stream(p)[i].session >= born[p]

\* A frame of a picture.
Picture(m) == m.kind \in {"key", "inter"}

\* The number of the last message that was enqueued to a player.
Given(p) == IF p \in pending /\ msg # NoMsg THEN nmsg - 1 ELSE nmsg

\* What a player is sent in three parts: what was published between its creation
\* and the moment it joined, then what the caches held, then what was published
\* since.  The first and the last are complete and in order; no frame of a
\* picture is twice in the cached part, or newer than what follows it there.
InOrder(stream, start, join, last) ==
    LET early == join - start
        live  == Len(stream) - (last - join)
    IN  /\ start <= join /\ join <= last /\ early <= live
        /\ \A i \in DOMAIN stream :
              /\ i <= early => stream[i].id = start + i
              /\ i > live => stream[i].id = join + (i - live)
              /\ i > early /\ i <= live => stream[i].id <= join
              /\ \A j \in DOMAIN stream :
                    early < i /\ i < j /\ j <= live /\ Picture(stream[i]) /\ Picture(stream[j])
                        => stream[i].id < stream[j].id

\* Whatever the publisher does between create_consumer and consumer_dumps, which
\* take the source lock one after the other, and afterwards: a player misses
\* nothing, and it gets a picture a second time only out of the cache and only
\* if it was published between the two calls.  (While no queue overflows.)
\* That second time is the code's: what is published there precedes the cache.
GapFree ==
    \A p \in consumers :
        pc[p] \notin {"created", "dumping"} =>
            InOrder(Stream(p), created[p], joined[p], Given(p))

\* A frame of a picture is in a stream.
Has(stream, m) == \E i \in DOMAIN stream : Picture(stream[i]) /\ stream[i].id = m.id

\* A player that joins gets the cached GOP whole: between the oldest frame of
\* the GOP it is given and the live frames nothing is missing.  (While no queue
\* overflows.)
GopJoinsLive ==
    \A p \in consumers : pc[p] \notin {"created", "dumping"} =>
        \A g \in DOMAIN gop.gop_cache :
            Picture(gop.gop_cache[g]) => Has(Stream(p), gop.gop_cache[g])

\* No queue overflows: the message a consumer is about to be given, by the fan-out
\* or by consumer_dumps, does not make SrsMessageQueue::enqueue drop any.
Coming(p) ==
    IF pc[p] = "dumping" /\ todo # << >> THEN {Head(todo)}
    ELSE IF p \in pending /\ msg # NoMsg THEN {msg} ELSE {}
Roomy ==
    \A p \in Players : \A m \in Coming(p) :
        ~ overflows(Pushed(queue[p], CorrectedMsg(jitter[p], m)))

\* Two threads that each hold the mutex the other one needs.
CircularWait ==
    \E t \in Publishers, p \in Players :
        /\ srcLock = t /\ p \in pending
        /\ consLock[p] = p /\ pc[p] \in {"srcid", "presrcid"}

\* The documented lock order, source before consumer, leaves no circular wait.
NoCircularWait == ~CircularWait

\* Whatever is queued for a player is sent or the player leaves, whether or not
\* anything is published after it, unless the threads wait for each other.
Drained ==
    \A p \in Players : queue[p].msgs # << >> ~> (queue[p].msgs = << >> \/ CircularWait)
=============================================================================
