----------------------------- MODULE LlHlsWindow -----------------------------
(***************************************************************************)
(* The LL-HLS storage of one stream and its single writer, the muxer, which *)
(* runs under the source lock: sessions begin and end, parts are appended   *)
(* and segments closed at any point.  Which part closes a segment is the    *)
(* business of module LlHlsMuxer, which implements this specification; the  *)
(* readers are added in module LlHlsServe.                                  *)
(***************************************************************************)
EXTENDS LlHlsStorage

CONSTANTS Durations,      \* durations of parts
          Configs,        \* codec configurations
          MaxParts        \* bound: parts in a behaviour

ASSUME LlHlsWindowAssumption ==
    Durations \subseteq Int /\ MaxParts \in Nat

VARIABLES storage,
          nparts,         \* parts appended so far; also the id of the newest
          published       \* history: what was ever served under which name

wvars == <<storage, nparts, published>>

Part == [id : Nat, duration : Int]

Segment == [msn : Nat, duration : Int, completed : BOOLEAN, parts : Seq(Part)]

WindowInit ==
    /\ storage = NewStorage
    /\ nparts = 0
    /\ published = {}

\* SrsLlHls::on_publish.
Publish ==
    /\ ~storage.active
    /\ storage' = on_publish(storage)
    /\ UNCHANGED <<nparts, published>>

SetInit(config) ==
    /\ storage.active
    /\ storage' = set_init(storage, config)
    /\ UNCHANGED <<nparts, published>>

AppendPart(duration, close_segment) ==
    LET part == [id |-> nparts + 1, duration |-> duration]
    IN  /\ storage.active
        /\ nparts < MaxParts
        /\ storage' = append_part(storage, part, close_segment)
        /\ nparts' = nparts + 1
        /\ published' = published \cup
              {[msn |-> storage'.latest_msn, psn |-> storage'.latest_psn, id |-> part.id]}

\* SrsLlHls::on_unpublish after the muxer flushed its last part, if it had one.
Unpublish ==
    /\ storage.active
    /\ storage' = on_unpublish(storage)
    /\ UNCHANGED <<nparts, published>>

Write ==
    \/ Publish
    \/ \E config \in Configs : SetInit(config)
    \/ \E d \in Durations, close_segment \in BOOLEAN : AppendPart(d, close_segment)
    \/ Unpublish

WindowSpec == WindowInit /\ [][Write]_wvars

-----------------------------------------------------------------------------

WindowType ==
    /\ storage \in [active : BOOLEAN, segments : Seq(Segment), next_msn : Nat,
                    latest_msn : Nat \cup {-1}, latest_psn : Nat \cup {-1},
                    init : SUBSET Configs,
                    playlist : [media_sequence : Nat \cup {-1},
                                parts : SUBSET (Nat \X Nat), segments : SUBSET Nat,
                                hint : SUBSET (Nat \X Nat)]]
    /\ nparts \in Nat
    /\ published \subseteq [msn : Nat, psn : Nat, id : Nat]

\* find() computes an index from a difference of sequence numbers: that is right
\* because the window has no hole and only its last segment may be open.  The
\* newest part, which reached() compares with, is the last one of the window.
WindowConsistent ==
    LET segs == storage.segments
    IN  /\ \A i \in DOMAIN segs :
              /\ segs[i].msn = storage.next_msn - Len(segs) + i - 1
              /\ segs[i].parts # << >>
              /\ i < Len(segs) => segs[i].completed
        /\ segs # << >> => /\ storage.latest_msn = LastSeg(storage).msn
                           /\ storage.latest_psn = Len(LastSeg(storage).parts) - 1

\* What the playlist names is there: a client that asks at once gets every part
\* and every segment listed, and nothing that is complete is missing.
PlaylistServes ==
    LET list == storage.playlist
    IN  /\ \A p \in list.parts : get_part(storage, p[1], p[2]) # {}
        /\ \A msn \in list.segments : get_segment(storage, msn) # {}
        /\ \A i \in DOMAIN storage.segments :
              storage.segments[i].completed => storage.segments[i].msn \in list.segments
        /\ storage.segments # << >>
              => <<storage.latest_msn, storage.latest_psn>> \in list.parts

\* Parts are served with max-age=3600: a name never gets a second content, in
\* this publish session or a later one.
PartsForever ==
    /\ \A a, b \in published : a.msn = b.msn /\ a.psn = b.psn => a = b
    /\ \A i \in DOMAIN storage.segments : \A j \in DOMAIN storage.segments[i].parts :
          [msn |-> storage.segments[i].msn, psn |-> j - 1,
           id |-> storage.segments[i].parts[j].id] \in published

\* A segment that could once be fetched never changes while it can be fetched,
\* and one that expired or was passed over does not come back.
SegmentsForever ==
    [][ \A msn \in 0 .. storage.next_msn - 1 :
          \/ get_segment(storage', msn) = {}
          \/ get_segment(storage', msn) = get_segment(storage, msn)
          \/ find(storage, msn) # {} /\ get_segment(storage, msn) = {} ]_wvars

\* A client that asks ahead for the part it was hinted waits for the right name:
\* the next part is published under the hinted one.
HintKept ==
    [][ nparts' # nparts /\ storage.playlist.hint # {}
          => <<storage'.latest_msn, storage'.latest_psn>> \in storage.playlist.hint ]_wvars

\* Closing a segment brings the window back to its limit, however many sessions
\* ended with a segment the muxer had not closed.
CloseShrinks ==
    [][ nparts' # nparts /\ LastSeg(storage').completed
          => Len(storage'.segments) <= MaxSegments ]_wvars
=============================================================================
