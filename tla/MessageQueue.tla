---------------------------- MODULE MessageQueue ----------------------------
(***************************************************************************)
(* SrsMessageQueue: the queue of one consumer, limited by the time its      *)
(* audio/video messages span.  A queue is the record of its members; times  *)
(* are milliseconds (the microseconds of srs_utime_t scale both sides of    *)
(* every comparison).  av_start_time = av_end_time = -1 is "no time yet".   *)
(***************************************************************************)
EXTENDS Messages

NewQueue == [msgs |-> << >>, av_start_time |-> -1, av_end_time |-> -1,
             max_queue_size |-> 0]

duration(q) == q.av_end_time - q.av_start_time

size(q) == Len(q.msgs)

set_queue_size(q, ms) == [q EXCEPT !.max_queue_size = ms]

\* The index of the last message that satisfies Test, as a set of at most one.
Latest(msgs, Test(_)) ==
    {i \in DOMAIN msgs :
        Test(msgs[i]) /\ \A j \in DOMAIN msgs : Test(msgs[j]) => j <= i}

\* The message at that index, retimed, as a sequence of at most one.
Retimed(msgs, latest, time) ==
    IF latest = {} THEN << >>
    ELSE <<[msgs[CHOOSE i \in latest : TRUE] EXCEPT !.timestamp = time]>>

\* Mutant of shrink: the sequence header seen first is kept, not the latest.
shrink_KeepFirst(q) ==
    LET First(Test(_)) ==
            {i \in DOMAIN q.msgs :
                Test(q.msgs[i]) /\ \A j \in DOMAIN q.msgs : Test(q.msgs[j]) => i <= j}
    IN  [q EXCEPT !.msgs = Retimed(q.msgs, First(video_sh), q.av_end_time)
                             \o Retimed(q.msgs, First(audio_sh), q.av_end_time),
                  !.av_start_time = q.av_end_time]

\* shrink(): drop everything but the latest sequence headers, video first, and
\* stamp them with the time of the newest message.
shrink(q) ==
    [q EXCEPT !.msgs = Retimed(q.msgs, Latest(q.msgs, video_sh), q.av_end_time)
                         \o Retimed(q.msgs, Latest(q.msgs, audio_sh), q.av_end_time),
              !.av_start_time = q.av_end_time]

\* Mutant of Pushed: the time span starts again with every message.
Pushed_Restart(q, m) ==
    IF is_av(m) /\ m.timestamp # 0
    THEN [q EXCEPT !.msgs = Append(@, m),
                   !.av_start_time = m.timestamp,
                   !.av_end_time = m.timestamp]
    ELSE [q EXCEPT !.msgs = Append(@, m)]

\* The first half of enqueue(): append, and advance the time span.  Zero
\* timestamps do not count.
Pushed(q, m) ==
    IF is_av(m) /\ m.timestamp # 0
    THEN [q EXCEPT !.msgs = Append(@, m),
                   !.av_start_time = IF @ = -1 THEN m.timestamp ELSE @,
                   !.av_end_time = m.timestamp]
    ELSE [q EXCEPT !.msgs = Append(@, m)]

overflows(q) == q.max_queue_size > 0 /\ duration(q) > q.max_queue_size

\* enqueue().  The while loop runs at most once: shrink() leaves a span of 0,
\* and the limit is positive there.
enqueue(q, m) ==
    LET pushed == Pushed(q, m)
    IN  IF overflows(pushed) THEN shrink(pushed) ELSE pushed

DumpCount(q, max_count) == IF max_count < size(q) THEN max_count ELSE size(q)

\* dump_packets(max_count, ...): what is handed out, and the queue that is left.
\* av_start_time becomes the timestamp of the last message handed out.
Dumped(q, max_count) == SubSeq(q.msgs, 1, DumpCount(q, max_count))

\* Mutant of AfterDump: a partial dump empties the queue.
AfterDump_Clear(q, max_count) ==
    IF size(q) = 0 THEN q
    ELSE [q EXCEPT !.msgs = << >>,
                   !.av_start_time = q.msgs[DumpCount(q, max_count)].timestamp]

AfterDump(q, max_count) ==
    LET n == DumpCount(q, max_count)
    IN  IF size(q) = 0 THEN q
        ELSE [q EXCEPT !.msgs = SubSeq(@, n + 1, Len(@)),
                       !.av_start_time = q.msgs[n].timestamp]

\* clear().
clear(q) == [q EXCEPT !.msgs = << >>, !.av_start_time = -1, !.av_end_time = -1]
=============================================================================
