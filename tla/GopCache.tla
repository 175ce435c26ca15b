------------------------------ MODULE GopCache ------------------------------
(***************************************************************************)
(* SrsGopCache: the messages since the last key frame, handed to a player   *)
(* when it joins.  A cache is the record of its members.                    *)
(***************************************************************************)
EXTENDS Messages

CONSTANT SRS_PURE_AUDIO_GUESS_COUNT    \* 115 in the program

ASSUME GuessAssumption == SRS_PURE_AUDIO_GUESS_COUNT \in Nat

NewGop == [gop_cache |-> << >>, enable_gop_cache |-> TRUE,
           gop_cache_max_frames |-> 0,
           cached_video_count |-> 0, audio_after_last_video_count |-> 0]

\* clear().
GopClear(g) == [g EXCEPT !.gop_cache = << >>, !.cached_video_count = 0,
                         !.audio_after_last_video_count = 0]

\* set() and set_gop_cache_max_frames().
GopSet(g, enabled) ==
    IF enabled THEN [g EXCEPT !.enable_gop_cache = TRUE]
    ELSE GopClear([g EXCEPT !.enable_gop_cache = FALSE])

GopSetMaxFrames(g, v) == [g EXCEPT !.gop_cache_max_frames = v]

pure_audio(g) == g.cached_video_count = 0

\* The counters after the message was looked at, before anything is cached.
GopCounted(g, m) ==
    IF is_video(m)
    THEN [g EXCEPT !.cached_video_count = @ + 1, !.audio_after_last_video_count = 0]
    ELSE IF pure_audio(g) \/ ~is_audio(m) THEN g
    ELSE [g EXCEPT !.audio_after_last_video_count = @ + 1]

\* A key frame starts the cache afresh.
GopRestarted(g, m) ==
    IF is_video(m) /\ keyframe(m)
    THEN [GopClear(g) EXCEPT !.cached_video_count = 1]
    ELSE g

GopPushed(g, m) == [g EXCEPT !.gop_cache = Append(@, m)]

\* Mutant of GopTooLong: the limit is one frame late.
GopTooLong_Late(g) ==
    g.gop_cache_max_frames > 0 /\ Len(g.gop_cache) > g.gop_cache_max_frames + 1

\* The limit on the number of cached frames; 0 is no limit.
GopTooLong(g) == g.gop_cache_max_frames > 0 /\ Len(g.gop_cache) > g.gop_cache_max_frames

\* Mutant of GopAdd: a full cache refuses the newest message.
GopAdd_Refuse(g, m) ==
    IF ~g.enable_gop_cache \/ (is_video(m) /\ ~h264(m)) THEN g
    ELSE LET counted == GopCounted(g, m)
             pushed  == GopPushed(GopRestarted(counted, m), m)
         IN  IF pure_audio(counted) THEN counted
             ELSE IF counted.audio_after_last_video_count > SRS_PURE_AUDIO_GUESS_COUNT
                  THEN GopClear(counted)
             ELSE IF GopTooLong(pushed) THEN g
             ELSE pushed

\* cache().
GopAdd(g, m) ==
    IF ~g.enable_gop_cache \/ (is_video(m) /\ ~h264(m)) THEN g
    ELSE LET counted == GopCounted(g, m)
             pushed  == GopPushed(GopRestarted(counted, m), m)
         IN  IF pure_audio(counted) THEN counted
             ELSE IF counted.audio_after_last_video_count > SRS_PURE_AUDIO_GUESS_COUNT
                  THEN GopClear(counted)
             ELSE IF GopTooLong(pushed) THEN GopClear(pushed)
             ELSE pushed
=============================================================================
