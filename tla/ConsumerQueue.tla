--------------------------- MODULE ConsumerQueue ---------------------------
(***************************************************************************)
(* The data path of one SrsLiveConsumer: enqueue() runs every message       *)
(* through the consumer's jitter and its queue, dump_packets() hands a      *)
(* batch to the connection.  Locks and threads are the business of module   *)
(* LiveSource, which uses the same operators; here the timestamps are       *)
(* arbitrary, as an encoder that restarts or skews its clock makes them.    *)
(***************************************************************************)
EXTENDS Jitter, MessageQueue

CONSTANTS SentKinds,    \* kinds of message the encoder sends
          Stamps,       \* timestamps it may give them
          QueueLength,  \* queue_length of the configuration (30s in the program)
          MwMsgs,       \* mw_msgs: the most messages one dump hands out
          MaxMsgs       \* bound: messages in a behaviour

ASSUME ConsumerQueueAssumption ==
    /\ SentKinds \subseteq Kinds
    /\ Stamps \subseteq Nat
    /\ QueueLength \in Nat
    /\ MwMsgs \in Nat \ {0}
    /\ MaxMsgs \in Nat

VARIABLES jitter, queue,
          nmsg,         \* messages enqueued so far; also the id of the newest
          newest,       \* id of the newest sequence header of each kind, 0 if none
          sent,         \* ids handed to the connection
          lastAv,       \* timestamp of the last audio/video message handed out
          back          \* how far the player's timeline stepped back, in all

vars == <<jitter, queue, nmsg, newest, sent, lastAv, back>>

Headers == {"ash", "vsh"}

Message == [kind : Kinds, timestamp : Nat, id : Nat]

TypeOK ==
    /\ jitter \in JitterState
    /\ queue \in [msgs : Seq(Message), av_start_time : Nat \cup {-1},
                  av_end_time : Nat \cup {-1}, max_queue_size : Nat]
    /\ nmsg \in Nat
    /\ newest \in [Headers -> Nat]
    /\ sent \subseteq Nat
    /\ lastAv \in Nat
    /\ back \in Nat

Init ==
    /\ jitter = NewJitter
    /\ queue = NewQueue
    /\ nmsg = 0
    /\ newest = [k \in Headers |-> 0]
    /\ sent = {}
    /\ lastAv = 0
    /\ back = 0

\* Where the player's timeline stands (before its first frame: at 0).
Now == IF jitter.last_pkt_correct_time > 0 THEN jitter.last_pkt_correct_time ELSE 0

\* SrsLiveSource::consumer_dumps sets the limit; a message fanned out between
\* create_consumer and consumer_dumps finds the limit still 0.
SetQueueSize ==
    /\ queue' = set_queue_size(queue, QueueLength)
    /\ UNCHANGED <<jitter, nmsg, newest, sent, lastAv, back>>

\* SrsLiveConsumer::enqueue.
Enqueue(k, t) ==
    LET m == [kind |-> k, timestamp |-> t, id |-> nmsg + 1]
    IN  /\ nmsg < MaxMsgs
        /\ queue' = enqueue(queue, CorrectedMsg(jitter, m))
        /\ jitter' = CorrectedJitter(jitter, m)
        /\ nmsg' = nmsg + 1
        /\ newest' = [h \in Headers |-> IF h = k THEN nmsg + 1 ELSE newest[h]]
        /\ back' = IF Now' < Now THEN back + Now - Now' ELSE back
        /\ UNCHANGED <<sent, lastAv>>

\* SrsLiveConsumer::dump_packets; an empty queue hands out nothing.
DumpPackets ==
    /\ size(queue) > 0
    /\ LET out == Dumped(queue, MwMsgs)
           av  == Latest(out, is_av)
       IN  /\ sent' = sent \cup {out[i].id : i \in DOMAIN out}
           /\ lastAv' = IF av = {} THEN lastAv ELSE out[CHOOSE i \in av : TRUE].timestamp
    /\ queue' = AfterDump(queue, MwMsgs)
    /\ UNCHANGED <<jitter, nmsg, newest, back>>

Next ==
    \/ SetQueueSize
    \/ \E k \in SentKinds, t \in Stamps : Enqueue(k, t)
    \/ DumpPackets

Spec == Init /\ [][Next]_vars

-----------------------------------------------------------------------------

\* A player never loses a codec configuration to an overflow: the newest
\* sequence header of each kind was handed out or still waits in the queue,
\* whatever shrink() dropped (srs_app_source.cpp shrink).
HeadersSurvive ==
    \A h \in Headers :
        newest[h] = 0 \/ newest[h] \in sent
        \/ \E i \in DOMAIN queue.msgs : queue.msgs[i].id = newest[h]

\* However the encoder's clock jumps, the timeline of the player stays at or
\* above 0 and moves by at most CONST_MAX_JITTER_MS from one message to the
\* next (SrsRtmpJitter::correct).
TimelineBounded ==
    [][ /\ jitter'.last_pkt_correct_time >= 0
        /\ jitter'.last_pkt_correct_time - jitter.last_pkt_correct_time
             \in -CONST_MAX_JITTER_MS .. CONST_MAX_JITTER_MS ]_jitter

\* A slow player holds a bounded stretch of the stream.  Once the limit is set,
\* every audio/video message that an enqueue() leaves in the queue is of the last
\* max_queue_size milliseconds of the player's own timeline, plus what that
\* timeline stepped back and the first step off zero (which the zero timestamps
\* that do not count hide), whatever was dumped, dropped and corrected before
\* (SrsMessageQueue::enqueue, shrink, dump_packets; SrsRtmpJitter::correct).  The
\* messages kept are so as many as the stream has in that time; metadata, and
\* frames without end at one timestamp, the code does not bound at all.
BacklogRecent ==
    [][ nmsg' # nmsg /\ queue.max_queue_size > 0
          => \A i \in DOMAIN queue'.msgs :
                is_av(queue'.msgs[i]) =>
                    queue'.msgs[i].timestamp
                        \in Now' - queue.max_queue_size - back' - CONST_MAX_JITTER_MS
                             .. Now' + back' ]_vars

\* The comment in enqueue() promises that nothing is dropped while the queue
\* holds no overflow, zero timestamps notwithstanding: messages leave other than
\* through a dump only if the newest is more than the limit ahead of the last
\* audio/video message handed out, or of one still queued.
DropsOnlyOnOverflow ==
    [][ nmsg' # nmsg /\ Len(queue'.msgs) # Len(queue.msgs) + 1
          => \E t \in {lastAv} \cup {queue.msgs[i].timestamp :
                        i \in {i \in DOMAIN queue.msgs : is_av(queue.msgs[i])}} :
                queue'.av_end_time - t > queue.max_queue_size
      ]_vars

=============================================================================
