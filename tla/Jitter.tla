------------------------------- MODULE Jitter -------------------------------
(***************************************************************************)
(* SrsRtmpJitter: the per-consumer timestamp corrector, algorithm FULL (the *)
(* only one SrsLiveSource selects).  A jitter is the record of its two      *)
(* members.  Times are milliseconds.                                        *)
(***************************************************************************)
EXTENDS Messages

CONSTANTS CONST_MAX_JITTER_MS,    \* 250 in the program; ..._NEG is its negation
          DEFAULT_FRAME_TIME_MS   \* 10 in the program

ASSUME JitterAssumption ==
    /\ CONST_MAX_JITTER_MS \in Nat \ {0}
    /\ DEFAULT_FRAME_TIME_MS \in 0 .. CONST_MAX_JITTER_MS

JitterState == [last_pkt_time : Nat, last_pkt_correct_time : Nat \cup {-1}]

NewJitter == [last_pkt_time |-> 0, last_pkt_correct_time |-> -1]

\* Mutant: only a jump backwards is taken for jitter.
JitterDelta_OneSided(j, time) ==
    LET delta == time - j.last_pkt_time
    IN  IF delta < -CONST_MAX_JITTER_MS THEN DEFAULT_FRAME_TIME_MS ELSE delta

\* The delta to the previous packet, replaced by the default when it is jitter.
JitterDelta(j, time) ==
    LET delta == time - j.last_pkt_time
    IN  IF delta < -CONST_MAX_JITTER_MS \/ delta > CONST_MAX_JITTER_MS
        THEN DEFAULT_FRAME_TIME_MS
        ELSE delta

\* srs_max(0, last_pkt_correct_time + delta).
CorrectTime(j, time) ==
    LET next == j.last_pkt_correct_time + JitterDelta(j, time)
    IN  IF next > 0 THEN next ELSE 0

\* correct(): the message as it leaves, and the jitter afterwards.  A message
\* that is not audio or video leaves with timestamp 0 and no trace.
CorrectedMsg(j, m) ==
    [m EXCEPT !.timestamp = IF is_av(m) THEN CorrectTime(j, m.timestamp) ELSE 0]

CorrectedJitter(j, m) ==
    IF is_av(m)
    THEN [last_pkt_time |-> m.timestamp,
          last_pkt_correct_time |-> CorrectTime(j, m.timestamp)]
    ELSE j
=============================================================================
