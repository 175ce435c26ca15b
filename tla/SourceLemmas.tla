---------------------------- MODULE SourceLemmas ---------------------------
(***************************************************************************)
(* What the operators of Jitter, MessageQueue and GopCache preserve and     *)
(* bound.  M is the set of messages of the module that uses a lemma: for    *)
(* the queue, any set whose members carry a natural timestamp and may be    *)
(* given another one.                                                       *)
(***************************************************************************)
EXTENDS Jitter, MessageQueue, GopCache, TLAPS

Retimable(M) == \A m \in M : /\ m.timestamp \in Nat
                             /\ \A t \in Nat : [m EXCEPT !.timestamp = t] \in M

QueueOf(M) == [msgs : Seq(M), av_start_time : Nat \cup {-1},
               av_end_time : Nat \cup {-1}, max_queue_size : Nat]

\* The corrected time is a timestamp, and within the jitter limit of the last
\* one (SrsRtmpJitter::correct).
LEMMA CorrectTimeBounds ==
    ASSUME NEW j \in JitterState, NEW t \in Nat
    PROVE  /\ CorrectTime(j, t) \in Nat
           /\ CorrectTime(j, t) - j.last_pkt_correct_time
                \in -CONST_MAX_JITTER_MS .. CONST_MAX_JITTER_MS
  <1>1. JitterDelta(j, t) \in -CONST_MAX_JITTER_MS .. CONST_MAX_JITTER_MS
    BY JitterAssumption DEF JitterDelta, JitterState
  <1>2. j.last_pkt_correct_time \in Nat \cup {-1}
    BY DEF JitterState
  <1> QED
    BY <1>1, <1>2, JitterAssumption DEF CorrectTime

\* Correcting a message yields a message and a jitter.
LEMMA CorrectedTypes ==
    ASSUME NEW M, Retimable(M), NEW j \in JitterState, NEW m \in M
    PROVE  CorrectedMsg(j, m) \in M /\ CorrectedJitter(j, m) \in JitterState
  <1>1. m.timestamp \in Nat
    BY DEF Retimable
  <1>2. CorrectTime(j, m.timestamp) \in Nat
    BY <1>1, CorrectTimeBounds
  <1>3. CorrectedMsg(j, m) \in M
    BY <1>2 DEF CorrectedMsg, Retimable
  <1>4. CorrectedJitter(j, m) \in JitterState
    BY <1>1, <1>2 DEF CorrectedJitter, JitterState
  <1> QED
    BY <1>3, <1>4

\* What shrink() keeps of the queue are messages.
LEMMA RetimedType ==
    ASSUME NEW M, Retimable(M), NEW ms \in Seq(M), NEW I \in SUBSET DOMAIN ms, NEW t \in Nat
    PROVE  Retimed(ms, I, t) \in Seq(M)
  <1>1. CASE I = {}
    BY <1>1 DEF Retimed
  <1>2. CASE I # {}
    <2> DEFINE i == CHOOSE x \in I : TRUE
               m == [ms[i] EXCEPT !.timestamp = t]
    <2>1. i \in DOMAIN ms
      BY <1>2
    <2>2. ms[i] \in M
      BY <2>1
    <2>3. m \in M
      BY <2>2 DEF Retimable
    <2> HIDE DEF m
    <2>4. <<m>> \in Seq(M)
      BY <2>3
    <2> QED
      BY <1>2, <2>4 DEF Retimed, m
  <1> QED
    BY <1>1, <1>2

\* shrink() leaves a queue of span 0 and does not touch the limit.
LEMMA ShrinkType ==
    ASSUME NEW M, Retimable(M), NEW q \in QueueOf(M), q.av_end_time \in Nat
    PROVE  /\ shrink(q) \in QueueOf(M)
           /\ shrink(q).max_queue_size = q.max_queue_size
           /\ duration(shrink(q)) = 0
  <1> DEFINE v == Retimed(q.msgs, Latest(q.msgs, video_sh), q.av_end_time)
             a == Retimed(q.msgs, Latest(q.msgs, audio_sh), q.av_end_time)
  <1>1. q.msgs \in Seq(M)
    BY DEF QueueOf
  <1>2. /\ Latest(q.msgs, video_sh) \in SUBSET DOMAIN q.msgs
        /\ Latest(q.msgs, audio_sh) \in SUBSET DOMAIN q.msgs
    BY DEF Latest
  <1>3. v \in Seq(M) /\ a \in Seq(M)
    BY <1>1, <1>2, RetimedType
  <1> HIDE DEF v, a
  <1>4. v \o a \in Seq(M)
    BY <1>3
  <1> DEFINE s == v \o a
  <1>5. shrink(q) = [q EXCEPT !.msgs = s, !.av_start_time = q.av_end_time]
    BY DEF shrink, v, a
  <1>6. s \in Seq(M)
    BY <1>4
  <1> HIDE DEF s
  <1>7. /\ shrink(q).msgs = s
        /\ shrink(q).av_start_time = q.av_end_time
        /\ shrink(q).av_end_time = q.av_end_time
        /\ shrink(q).max_queue_size = q.max_queue_size
    BY <1>5 DEF QueueOf
  <1>8. shrink(q) \in QueueOf(M)
    BY <1>5, <1>6 DEF QueueOf
  <1> QED
    BY <1>7, <1>8 DEF duration

\* Appending a message keeps the queue well-formed and does not touch the limit.
LEMMA PushedType ==
    ASSUME NEW M, Retimable(M), NEW q \in QueueOf(M), NEW m \in M
    PROVE  /\ Pushed(q, m) \in QueueOf(M)
           /\ Pushed(q, m).max_queue_size = q.max_queue_size
  <1>1. q.msgs \in Seq(M) /\ Append(q.msgs, m) \in Seq(M)
    BY DEF QueueOf
  <1>2. m.timestamp \in Nat
    BY DEF Retimable
  <1> QED
    BY <1>1, <1>2 DEF Pushed, QueueOf

\* enqueue() keeps the queue well-formed and, if there is a limit, within it.
LEMMA EnqueueType ==
    ASSUME NEW M, Retimable(M), NEW q \in QueueOf(M), NEW m \in M
    PROVE  /\ enqueue(q, m) \in QueueOf(M)
           /\ enqueue(q, m).max_queue_size = q.max_queue_size
           /\ q.max_queue_size > 0 => duration(enqueue(q, m)) <= q.max_queue_size
  <1> DEFINE p == Pushed(q, m)
  <1>1. p \in QueueOf(M) /\ p.max_queue_size = q.max_queue_size
    BY PushedType
  <1> HIDE DEF p
  <1>2. enqueue(q, m) = IF overflows(p) THEN shrink(p) ELSE p
    BY DEF enqueue, p
  <1>3. q.max_queue_size \in Nat /\ duration(p) \in Int
    BY <1>1 DEF QueueOf, duration
  <1>4. CASE overflows(p)
    <2>1. p.av_end_time \in Nat
      BY <1>1, <1>4 DEF overflows, duration, QueueOf
    <2>2. /\ shrink(p) \in QueueOf(M)
          /\ shrink(p).max_queue_size = p.max_queue_size
          /\ duration(shrink(p)) = 0
      BY <1>1, <2>1, ShrinkType
    <2> QED
      BY <1>1, <1>2, <1>3, <1>4, <2>2
  <1>5. CASE ~overflows(p)
    BY <1>1, <1>2, <1>3, <1>5 DEF overflows
  <1> QED
    BY <1>4, <1>5

\* dump_packets() hands out messages and keeps the queue well-formed.
LEMMA DumpType ==
    ASSUME NEW M, Retimable(M), NEW q \in QueueOf(M), NEW n \in Nat \ {0}
    PROVE  /\ Dumped(q, n) \in Seq(M)
           /\ AfterDump(q, n) \in QueueOf(M)
           /\ AfterDump(q, n).max_queue_size = q.max_queue_size
  <1> DEFINE c == DumpCount(q, n)
  <1>1. q.msgs \in Seq(M) /\ Len(q.msgs) \in Nat
    BY DEF QueueOf
  <1>2. c \in 0 .. Len(q.msgs) /\ (Len(q.msgs) # 0 => c \in 1 .. Len(q.msgs))
    BY <1>1 DEF DumpCount, size
  <1> HIDE DEF c
  <1>3. SubSeq(q.msgs, 1, c) \in Seq(M) /\ SubSeq(q.msgs, c + 1, Len(q.msgs)) \in Seq(M)
    BY <1>1, <1>2
  <1>4. Len(q.msgs) # 0 => q.msgs[c].timestamp \in Nat
    BY <1>1, <1>2 DEF Retimable
  <1> QED
    BY <1>3, <1>4 DEF Dumped, AfterDump, size, c, QueueOf

-----------------------------------------------------------------------------

GopOf(M) == [gop_cache : Seq(M), enable_gop_cache : BOOLEAN,
             gop_cache_max_frames : Nat, cached_video_count : Nat,
             audio_after_last_video_count : 0 .. SRS_PURE_AUDIO_GUESS_COUNT]

\* The type of a cache while a message is being looked at.
WideGopOf(M) == [gop_cache : Seq(M), enable_gop_cache : BOOLEAN,
                 gop_cache_max_frames : Nat, cached_video_count : Nat,
                 audio_after_last_video_count : Nat]

\* clear() yields an empty cache with the same configuration.
LEMMA GopClearType ==
    ASSUME NEW M, NEW g \in WideGopOf(M)
    PROVE  /\ GopClear(g) \in GopOf(M)
           /\ GopClear(g).gop_cache = << >>
           /\ GopClear(g).enable_gop_cache = g.enable_gop_cache
           /\ GopClear(g).gop_cache_max_frames = g.gop_cache_max_frames
           /\ GopClear(g).cached_video_count = 0
           /\ GopClear(g).audio_after_last_video_count = 0
  <1> DEFINE e == << >>
             z == 0
  <1>1. e \in Seq(M) /\ z \in 0 .. SRS_PURE_AUDIO_GUESS_COUNT /\ z \in Nat
    BY GuessAssumption
  <1>2. GopClear(g) = [g EXCEPT !.gop_cache = e, !.cached_video_count = z,
                                !.audio_after_last_video_count = z]
    BY DEF GopClear
  <1> HIDE DEF e, z
  <1>3. GopClear(g) \in GopOf(M)
    BY <1>1, <1>2 DEF GopOf, WideGopOf
  <1>4. /\ GopClear(g).gop_cache = e
        /\ GopClear(g).enable_gop_cache = g.enable_gop_cache
        /\ GopClear(g).gop_cache_max_frames = g.gop_cache_max_frames
        /\ GopClear(g).cached_video_count = z
        /\ GopClear(g).audio_after_last_video_count = z
    BY <1>2 DEF WideGopOf
  <1> QED
    BY <1>3, <1>4 DEF e, z

\* A cache that was configured and not used yet is empty.
LEMMA GopInitType ==
    ASSUME NEW M, NEW enabled \in BOOLEAN, NEW n \in Nat
    PROVE  LET g == GopSetMaxFrames(GopSet(NewGop, enabled), n)
           IN  g \in GopOf(M) /\ g.gop_cache = << >>
  <1> DEFINE on == [NewGop EXCEPT !.enable_gop_cache = TRUE]
             off == [NewGop EXCEPT !.enable_gop_cache = FALSE]
             s == GopSet(NewGop, enabled)
  <1>1. NewGop \in WideGopOf(M) /\ NewGop \in GopOf(M) /\ NewGop.gop_cache = << >>
    BY GuessAssumption DEF NewGop, WideGopOf, GopOf
  <1>2. on \in GopOf(M) /\ off \in WideGopOf(M) /\ on.gop_cache = << >>
    BY <1>1 DEF GopOf, WideGopOf
  <1> HIDE DEF on, off
  <1>3. GopClear(off) \in GopOf(M) /\ GopClear(off).gop_cache = << >>
    BY <1>2, GopClearType
  <1>4. s \in GopOf(M) /\ s.gop_cache = << >>
    BY <1>2, <1>3 DEF GopSet, on, off
  <1> HIDE DEF s
  <1>5. [s EXCEPT !.gop_cache_max_frames = n] \in GopOf(M)
        /\ [s EXCEPT !.gop_cache_max_frames = n].gop_cache = << >>
    BY <1>4 DEF GopOf
  <1> QED
    BY <1>5 DEF GopSetMaxFrames, s

\* Looking at a message changes the counters only, and leaves the count of video
\* frames positive unless it leaves the cache alone.
LEMMA GopCountedType ==
    ASSUME NEW M, NEW g \in GopOf(M), NEW m
    PROVE  /\ GopCounted(g, m) \in WideGopOf(M)
           /\ GopCounted(g, m).gop_cache = g.gop_cache
           /\ GopCounted(g, m).enable_gop_cache = g.enable_gop_cache
           /\ GopCounted(g, m).gop_cache_max_frames = g.gop_cache_max_frames
           /\ GopCounted(g, m) = g \/ GopCounted(g, m).cached_video_count > 0
  <1> DEFINE z == 0
             v == g.cached_video_count + 1
             a == g.audio_after_last_video_count + 1
  <1>1. /\ g \in WideGopOf(M) /\ z \in Nat /\ a \in Nat /\ v \in Nat /\ v > 0
        /\ g.cached_video_count \in Nat
    BY GuessAssumption DEF GopOf, WideGopOf
  <1> HIDE DEF z, v, a
  <1>2. CASE is_video(m)
    <2>1. GopCounted(g, m) = [g EXCEPT !.cached_video_count = v,
                                       !.audio_after_last_video_count = z]
      BY <1>2 DEF GopCounted, v, z
    <2> QED
      BY <1>1, <2>1 DEF WideGopOf
  <1>3. CASE ~is_video(m) /\ (pure_audio(g) \/ ~is_audio(m))
    BY <1>1, <1>3 DEF GopCounted
  <1>4. CASE ~is_video(m) /\ ~pure_audio(g) /\ is_audio(m)
    <2>1. GopCounted(g, m) = [g EXCEPT !.audio_after_last_video_count = a]
      BY <1>4 DEF GopCounted, a
    <2>2. g.cached_video_count > 0
      BY <1>1, <1>4 DEF pure_audio
    <2> QED
      BY <1>1, <2>1, <2>2 DEF WideGopOf
  <1> QED
    BY <1>2, <1>3, <1>4

\* A cache in which a video frame was counted and the audio count is in range
\* stays one when it is restarted and the message is pushed.
LEMMA GopPushedType ==
    ASSUME NEW M, NEW c \in WideGopOf(M), NEW m \in M, c.cached_video_count > 0,
           ~(c.audio_after_last_video_count > SRS_PURE_AUDIO_GUESS_COUNT)
    PROVE  LET p == GopPushed(GopRestarted(c, m), m)
           IN  /\ p \in GopOf(M)
               /\ p.gop_cache = IF is_video(m) /\ keyframe(m) THEN <<m>>
                                ELSE Append(c.gop_cache, m)
               /\ p.enable_gop_cache = c.enable_gop_cache
               /\ p.gop_cache_max_frames = c.gop_cache_max_frames
               /\ p.cached_video_count > 0
  <1> DEFINE r == GopRestarted(c, m)
             keys == is_video(m) /\ keyframe(m)
  <1>1. /\ r \in GopOf(M)
        /\ r.gop_cache = IF keys THEN << >> ELSE c.gop_cache
        /\ r.enable_gop_cache = c.enable_gop_cache
        /\ r.gop_cache_max_frames = c.gop_cache_max_frames
        /\ r.cached_video_count > 0
    <2>1. CASE keys
      <3> DEFINE k == GopClear(c)
                 one == 1
      <3>1. k \in GopOf(M) /\ k.gop_cache = << >>
            /\ k.enable_gop_cache = c.enable_gop_cache
            /\ k.gop_cache_max_frames = c.gop_cache_max_frames
        BY GopClearType
      <3>2. r = [k EXCEPT !.cached_video_count = one]
        BY <2>1 DEF GopRestarted
      <3>3. one \in Nat /\ one > 0
        OBVIOUS
      <3> HIDE DEF k, one, r
      <3> QED
        BY <2>1, <3>1, <3>2, <3>3 DEF GopOf
    <2>2. CASE ~keys
      <3>1. r = c
        BY <2>2 DEF GopRestarted
      <3>2. c \in GopOf(M)
        BY GuessAssumption DEF WideGopOf, GopOf
      <3> QED
        BY <2>2, <3>1, <3>2
    <2> QED
      BY <2>1, <2>2
  <1> HIDE DEF r, keys
  <1> DEFINE s == Append(r.gop_cache, m)
  <1>2. s \in Seq(M) /\ s = IF keys THEN <<m>> ELSE Append(c.gop_cache, m)
    <2>1. r.gop_cache \in Seq(M)
      BY <1>1 DEF GopOf
    <2>2. Append(r.gop_cache, m) \in Seq(M)
      BY <2>1
    <2>3. Append(<< >>, m) = <<m>>
      OBVIOUS
    <2>4. CASE keys
      BY <1>1, <2>2, <2>3, <2>4
    <2>5. CASE ~keys
      BY <1>1, <2>2, <2>5
    <2> QED
      BY <2>4, <2>5
  <1>3. GopPushed(r, m) = [r EXCEPT !.gop_cache = s]
    BY DEF GopPushed
  <1> HIDE DEF s
  <1>4. /\ GopPushed(r, m) \in GopOf(M)
        /\ GopPushed(r, m).gop_cache = s
        /\ GopPushed(r, m).enable_gop_cache = c.enable_gop_cache
        /\ GopPushed(r, m).gop_cache_max_frames = c.gop_cache_max_frames
        /\ GopPushed(r, m).cached_video_count > 0
    BY <1>1, <1>2, <1>3 DEF GopOf
  <1> QED
    BY <1>2, <1>4 DEF r, keys

\* cache() leaves the cache as it was, empties it, puts the message alone into it
\* (a key frame), or appends the message, and the counters stay in range.
LEMMA GopAddCases ==
    ASSUME NEW M, NEW g \in GopOf(M), NEW m \in M
    PROVE  /\ GopAdd(g, m) \in GopOf(M)
           /\ GopAdd(g, m).enable_gop_cache = g.enable_gop_cache
           /\ GopAdd(g, m).gop_cache_max_frames = g.gop_cache_max_frames
           /\ \/ /\ GopAdd(g, m) = g
                 /\ \/ ~g.enable_gop_cache
                    \/ is_video(m) /\ ~h264(m)
                    \/ pure_audio(g) /\ ~is_video(m)
              \/ /\ GopAdd(g, m).gop_cache = << >>
                 /\ GopAdd(g, m).cached_video_count = 0
              \/ /\ is_video(m) => h264(m)
                 /\ GopAdd(g, m).gop_cache
                       = IF is_video(m) /\ keyframe(m) THEN <<m>> ELSE Append(g.gop_cache, m)
                 /\ GopAdd(g, m).cached_video_count > 0
                 /\ ~GopTooLong(GopAdd(g, m))
  <1> DEFINE c == GopCounted(g, m)
             p == GopPushed(GopRestarted(c, m), m)
  <1>1. /\ c \in WideGopOf(M) /\ c.gop_cache = g.gop_cache
        /\ c.enable_gop_cache = g.enable_gop_cache
        /\ c.gop_cache_max_frames = g.gop_cache_max_frames
        /\ c = g \/ c.cached_video_count > 0
    BY GopCountedType
  <1>2. c.cached_video_count \in Nat
    BY <1>1 DEF WideGopOf
  <1>3. GopAdd(g, m) =
          IF ~g.enable_gop_cache \/ (is_video(m) /\ ~h264(m)) THEN g
          ELSE IF pure_audio(c) THEN c
          ELSE IF c.audio_after_last_video_count > SRS_PURE_AUDIO_GUESS_COUNT THEN GopClear(c)
          ELSE IF GopTooLong(p) THEN GopClear(p)
          ELSE p
    BY DEF GopAdd
  <1>4. pure_audio(c) => c = g /\ pure_audio(g) /\ ~is_video(m)
    <2>1. is_video(m) => c.cached_video_count > 0
      <3> DEFINE v == g.cached_video_count + 1
      <3>1. v \in Nat /\ v > 0
        BY DEF GopOf
      <3>2. is_video(m) => c = [g EXCEPT !.cached_video_count = v,
                                         !.audio_after_last_video_count = 0]
        BY DEF GopCounted
      <3> HIDE DEF v, c
      <3> QED
        BY <3>1, <3>2 DEF GopOf
    <2> QED
      BY <1>1, <1>2, <2>1 DEF pure_audio
  <1> HIDE DEF c
  <1>5. /\ GopClear(c) \in GopOf(M) /\ GopClear(c).gop_cache = << >>
        /\ GopClear(c).enable_gop_cache = g.enable_gop_cache
        /\ GopClear(c).gop_cache_max_frames = g.gop_cache_max_frames
        /\ GopClear(c).cached_video_count = 0
    BY <1>1, GopClearType
  <1>6. ASSUME ~pure_audio(c), ~(c.audio_after_last_video_count > SRS_PURE_AUDIO_GUESS_COUNT)
        PROVE  /\ p \in GopOf(M)
               /\ p.gop_cache = IF is_video(m) /\ keyframe(m) THEN <<m>>
                                ELSE Append(g.gop_cache, m)
               /\ p.enable_gop_cache = g.enable_gop_cache
               /\ p.gop_cache_max_frames = g.gop_cache_max_frames
               /\ p.cached_video_count > 0
               /\ GopClear(p) \in GopOf(M) /\ GopClear(p).gop_cache = << >>
               /\ GopClear(p).enable_gop_cache = g.enable_gop_cache
               /\ GopClear(p).gop_cache_max_frames = g.gop_cache_max_frames
               /\ GopClear(p).cached_video_count = 0
    <2>1. c.cached_video_count > 0
      BY <1>2, <1>6 DEF pure_audio
    <2>2. /\ p \in GopOf(M)
          /\ p.gop_cache = IF is_video(m) /\ keyframe(m) THEN <<m>>
                           ELSE Append(g.gop_cache, m)
          /\ p.enable_gop_cache = g.enable_gop_cache
          /\ p.gop_cache_max_frames = g.gop_cache_max_frames
          /\ p.cached_video_count > 0
      BY <1>1, <1>6, <2>1, GopPushedType
    <2> HIDE DEF p
    <2>3. p \in WideGopOf(M)
      BY <2>2, GuessAssumption DEF GopOf, WideGopOf
    <2> QED
      BY <2>2, <2>3, GopClearType
  <1> HIDE DEF p
  <1> DEFINE n == GopAdd(g, m)
  <1>7. CASE n = g /\ (\/ ~g.enable_gop_cache
                       \/ is_video(m) /\ ~h264(m)
                       \/ pure_audio(g) /\ ~is_video(m))
    BY <1>7
  <1>8. CASE n = GopClear(c)
    BY <1>5, <1>8
  <1>9. CASE /\ n = GopClear(p) /\ ~pure_audio(c)
             /\ ~(c.audio_after_last_video_count > SRS_PURE_AUDIO_GUESS_COUNT)
    BY <1>6, <1>9
  <1>10. CASE /\ n = p /\ ~pure_audio(c) /\ ~GopTooLong(p) /\ (is_video(m) => h264(m))
              /\ ~(c.audio_after_last_video_count > SRS_PURE_AUDIO_GUESS_COUNT)
    BY <1>6, <1>10
  <1> QED
    BY <1>3, <1>4, <1>7, <1>8, <1>9, <1>10
=============================================================================
