---------------------------- MODULE LlHlsStorage ----------------------------
(***************************************************************************)
(* SrsLlHlsStorage: the window of fMP4 segments and parts that the LL-HLS   *)
(* muxer fills and the HTTP threads read, and the playlist made from it.    *)
(* A storage is the record of its members.  Every operation runs under the  *)
(* mutex of the storage from its first to its last line.                    *)
(*                                                                          *)
(* A part is a record with at least the field duration;                     *)
(* psn, its index in the segment, counts from 0 as in the URIs.  init is    *)
(* the codec configuration the init segment describes, as a set of at most  *)
(* one.  The playlist is the set of the lines that name a resource.         *)
(***************************************************************************)
EXTENDS Integers, Sequences, FiniteSetsExt

CONSTANTS MaxSegments,              \* llhls_segment_count (10 in the program)
          SRS_LLHLS_PART_SEGMENTS   \* segments whose parts are listed (3)

ASSUME LlHlsStorageAssumption ==
    /\ MaxSegments \in Nat \ {0}
    /\ SRS_LLHLS_PART_SEGMENTS \in Nat \ {0}

NoPlaylist == [media_sequence |-> -1, parts |-> {}, segments |-> {}, hint |-> {}]

NewStorage == [active |-> FALSE, segments |-> << >>, next_msn |-> 0,
               latest_msn |-> -1, latest_psn |-> -1, init |-> {},
               playlist |-> NoPlaylist]

FirstSeg(s) == s.segments[1]
LastSeg(s)  == s.segments[Len(s.segments)]

\* Mutant of NextPart: a closed segment is hinted as if it went on.
NextPart_SameSegment(s) == <<LastSeg(s).msn, Len(LastSeg(s).parts)>>

\* The part that comes next, as SrsLlHlsChunklist::generate hints it.
NextPart(s) ==
    IF LastSeg(s).completed THEN <<LastSeg(s).msn + 1, 0>>
    ELSE <<LastSeg(s).msn, Len(LastSeg(s).parts)>>

\* SrsLlHlsChunklist::generate.
generate(s) ==
    IF s.segments = << >> THEN NoPlaylist
    ELSE [media_sequence |-> FirstSeg(s).msn,
          parts |-> UNION {{<<s.segments[i].msn, psn>> :
                                psn \in 0 .. Len(s.segments[i].parts) - 1} :
                        i \in {i \in DOMAIN s.segments :
                           s.segments[i].msn > LastSeg(s).msn - SRS_LLHLS_PART_SEGMENTS}},
          segments |-> {s.segments[i].msn :
                           i \in {i \in DOMAIN s.segments : s.segments[i].completed}},
          hint |-> IF s.active THEN {NextPart(s)} ELSE {}]

refresh_playlist(s) == [s EXCEPT !.playlist = generate(s)]

\* Mutant of on_publish: a new session numbers its segments from 0.
on_publish_Renumber(s) == [s EXCEPT !.active = TRUE, !.next_msn = 0]

on_publish(s) == [s EXCEPT !.active = TRUE]

\* on_unpublish: a segment the muxer left open is closed.
on_unpublish(s) ==
    LET n == Len(s.segments)
        closed == IF n > 0 /\ ~LastSeg(s).completed /\ LastSeg(s).parts # << >>
                  THEN [s EXCEPT !.segments[n].completed = TRUE] ELSE s
    IN  refresh_playlist([closed EXCEPT !.active = FALSE])

set_init(s, config) == [s EXCEPT !.init = {config}]

\* How many segments shrink() drops: completed ones at the front, as long as there
\* are more than MaxSegments.
Expired(segments) ==
    Max({0} \cup {d \in DOMAIN segments :
            Len(segments) - d >= MaxSegments /\ \A i \in 1 .. d : segments[i].completed})

shrink(s) == [s EXCEPT !.segments = SubSeq(@, Expired(@) + 1, Len(@))]

\* Mutant of Opened: the newest segment is continued although it is complete.
Opened_Reopen(s) ==
    IF s.segments = << >>
    THEN [s EXCEPT !.segments = Append(@, [msn |-> s.next_msn, duration |-> 0,
                                           completed |-> FALSE, parts |-> << >>]),
                   !.next_msn = @ + 1]
    ELSE s

\* append_part up to the segment that takes the part: a new one if none is open.
Opened(s) ==
    IF s.segments = << >> \/ LastSeg(s).completed
    THEN [s EXCEPT !.segments = Append(@, [msn |-> s.next_msn, duration |-> 0,
                                           completed |-> FALSE, parts |-> << >>]),
                   !.next_msn = @ + 1]
    ELSE s

\* append_part up to the end of the segment.
Added(s, part, close_segment) ==
    LET o == Opened(s)
        n == Len(o.segments)
        g == o.segments[n]
    IN  [o EXCEPT !.segments[n] = [g EXCEPT !.parts = Append(@, part),
                                            !.duration = @ + part.duration,
                                            !.completed = @ \/ close_segment],
                  !.latest_msn = g.msn,
                  !.latest_psn = Len(g.parts)]

\* Mutant of append_part: the playlist is made before the window moves.
append_part_EarlyRefresh(s, part, close_segment) ==
    LET added == refresh_playlist(Added(s, part, close_segment))
    IN  IF close_segment THEN shrink(added) ELSE added

append_part(s, part, close_segment) ==
    LET added == Added(s, part, close_segment)
    IN  refresh_playlist(IF close_segment THEN shrink(added) ELSE added)

\* Mutant of find: the window is taken to begin with segment 0.
find_NoOffset(s, msn) == {msn + 1} \cap DOMAIN s.segments

\* find: the index of a segment by its distance from the first, as a set of at
\* most one.
find(s, msn) ==
    IF s.segments = << >> THEN {}
    ELSE {msn - FirstSeg(s).msn + 1} \cap DOMAIN s.segments

\* get_playlist, get_init, get_part and get_segment, as sets of at most one.
get_playlist(s) == IF s.playlist = NoPlaylist THEN {} ELSE {s.playlist}

get_init(s) == s.init

get_part(s, msn, psn) ==
    {s.segments[i].parts[psn + 1] : i \in {i \in find(s, msn) :
        0 <= psn /\ psn < Len(s.segments[i].parts)}}

get_segment(s, msn) ==
    {s.segments[i].parts : i \in {i \in find(s, msn) : s.segments[i].completed}}

\* Mutant of reached: the part number is not looked at.
reached_AnyPart(s, msn, psn) ==
    /\ s.latest_msn >= 0
    /\ \/ s.segments # << >> /\ msn < FirstSeg(s).msn
       \/ s.latest_msn >= msn

\* reached: is there anything left to wait for?
reached(s, msn, psn) ==
    /\ s.latest_msn >= 0
    /\ \/ s.segments # << >> /\ msn < FirstSeg(s).msn
       \/ s.latest_msn > msn
       \/ s.latest_msn = msn /\ s.latest_psn >= (IF psn < 0 THEN 0 ELSE psn)
=============================================================================
