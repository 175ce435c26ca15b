----------------------------- MODULE LlHlsMuxer -----------------------------
(***************************************************************************)
(* SrsLlHls and SrsLlHlsMuxer: where the frames of a stream are cut into    *)
(* parts and segments, and when the init segment is written.  They run in   *)
(* the thread of the publisher, under the source lock; the storage they     *)
(* write is the one of module LlHlsWindow, whose specification this one     *)
(* implements.  A step calls the storage at most once.                      *)
(*                                                                          *)
(* The codec configurations are numbers, 0 is none.  The memory writers     *)
(* behind the fMP4 encoders do not fail, so no step here does.  Outside a   *)
(* call an open part has at least one sample (part_nb_samples > 0).         *)
(***************************************************************************)
EXTENDS LlHlsWindow

CONSTANTS PartTarget, SegmentTarget,  \* llhls_part (500ms), llhls_segment (2s)
          VideoConfigs, AudioConfigs, \* configurations in sequence headers
          Steps,                      \* differences of consecutive timestamps
          MaxDts, MaxSessions         \* bounds: timestamps, publish sessions

ASSUME LlHlsMuxerAssumption ==
    /\ PartTarget \in Nat \ {0} /\ SegmentTarget \in Nat \ {0}
    /\ VideoConfigs \cup AudioConfigs \subseteq Nat \ {0} /\ Steps \subseteq Int
    /\ MaxDts \in Nat /\ MaxSessions \in Nat
    /\ -MaxDts .. MaxDts \subseteq Durations   \* what the storage is given
    /\ [v : VideoConfigs \cup {0}, a : AudioConfigs \cup {0}] \subseteq Configs

VARIABLES phase,       \* "off", "on" (enabled), "stopping" (inside on_unpublish)
          format,      \* SrsFormat of the hub: the configurations parsed last
          mux,         \* the members of SrsLlHlsMuxer
          samples,     \* history: the configurations of the samples in the open part
          content,     \* history: the same of the parts of the storage, by id
          session      \* history: its number, and whether it has had video

mvars   == <<phase, format, mux, samples, content, session>>
muxvars == <<wvars, mvars>>

MuxInit ==
    /\ WindowInit
    /\ phase = "off"
    /\ format = [v |-> 0, a |-> 0]
    /\ mux = [part_open |-> FALSE, part_start_dts |-> 0, last_dts |-> 0,
              segment_duration |-> 0, init_dirty |-> FALSE, video_configured |-> FALSE,
              latest_avc_extra |-> 0, latest_aac_extra |-> 0]
    /\ samples = {}
    /\ content = << >>
    /\ session = [n |-> 0, video |-> FALSE]

\* SrsLlHls::on_publish and SrsLlHlsMuxer::update_config.  What was parsed of
\* earlier sessions stays.
OnPublish ==
    /\ phase = "off"
    /\ session.n < MaxSessions
    /\ phase' = "on"
    /\ storage' = on_publish(storage)
    /\ mux' = [mux EXCEPT !.part_open = FALSE, !.segment_duration = 0]
    /\ samples' = {}
    /\ session' = [n |-> session.n + 1, video |-> FALSE]
    /\ UNCHANGED <<nparts, published, format, content>>

\* Mutant of Flushed: the segment that begins inherits the duration.
Flushed_Carry(m, end_dts, close_segment) ==
    [m EXCEPT !.part_open = FALSE,
              !.segment_duration = @ + (end_dts - m.part_start_dts)]

\* flush_part: the muxer afterwards, and what becomes of the storage.
Flushed(m, end_dts, close_segment) ==
    [m EXCEPT !.part_open = FALSE,
              !.segment_duration = IF close_segment THEN 0
                                   ELSE @ + (end_dts - m.part_start_dts)]

Flush(end_dts, close_segment) ==
    /\ nparts < MaxParts
    /\ storage' = append_part(storage, [id |-> nparts + 1,
                                        duration |-> end_dts - mux.part_start_dts],
                              close_segment)
    /\ nparts' = nparts + 1
    /\ published' = published \cup
          {[msn |-> storage'.latest_msn, psn |-> storage'.latest_psn, id |-> nparts + 1]}
    /\ content' = Append(content, samples)

\* Mutant of HeaderChanged: only the init segment is renewed, the segment goes on.
HeaderChanged_NoCut(f) ==
    /\ mux' = [mux EXCEPT !.latest_avc_extra = f.v, !.latest_aac_extra = f.a,
                          !.init_dirty = TRUE]
    /\ UNCHANGED <<wvars, content, samples>>

\* on_sequence_header, when a configuration is new: the open part ends its segment,
\* and the init segment will be renewed.
HeaderChanged(f) ==
    LET m == IF mux.part_open THEN Flushed(mux, mux.last_dts, TRUE) ELSE mux
    IN  /\ mux' = [m EXCEPT !.latest_avc_extra = f.v, !.latest_aac_extra = f.a,
                            !.init_dirty = TRUE]
        /\ samples' = {}
        /\ IF mux.part_open THEN Flush(mux.last_dts, TRUE) ELSE UNCHANGED <<wvars, content>>

\* A sequence header, parsed by the hub and handed to on_sequence_header.  The
\* same one again changes nothing.
OnHeader(f) ==
    /\ phase = "on"
    /\ format' = f
    /\ IF f.v # mux.latest_avc_extra \/ f.a # mux.latest_aac_extra
       THEN HeaderChanged(f)
       ELSE UNCHANGED <<wvars, mux, samples, content>>
    /\ UNCHANGED phase

OnVideoHeader(cfg) ==
    /\ OnHeader([format EXCEPT !.v = cfg])
    /\ session' = [session EXCEPT !.video = TRUE]

OnAudioHeader(cfg) ==
    /\ OnHeader([format EXCEPT !.a = cfg])
    /\ UNCHANGED session

\* Mutant of CutsPart: the part may be cut at any length.
CutsPart_NoFloor(part_dur, frame_gap) ==
    part_dur >= PartTarget \/ part_dur + frame_gap > PartTarget

\* maybe_cut: the part is full, or at 85% and the next frame would overfill it.
CutsPart(part_dur, frame_gap) ==
    \/ part_dur >= PartTarget
    \/ part_dur * 100 >= PartTarget * 85 /\ part_dur + frame_gap > PartTarget

\* maybe_cut.
Cut(dts, can_end_segment) ==
    LET part_dur == dts - mux.part_start_dts
    IN  IF ~mux.part_open THEN "no"
        ELSE IF can_end_segment /\ mux.segment_duration + part_dur >= SegmentTarget
        THEN "segment"
        ELSE IF CutsPart(part_dur, dts - mux.last_dts) THEN "part" ELSE "no"

\* open_part with write_init, if no part is open.
Opens(m, dts) ==
    IF m.part_open THEN m
    ELSE [m EXCEPT !.part_open = TRUE, !.part_start_dts = dts, !.last_dts = dts,
                   !.init_dirty = FALSE,
                   !.video_configured = IF m.init_dirty THEN format.v # 0 ELSE @]

\* write_audio and write_video: cut, open and write one sample.  on_audio and
\* on_video have dropped what cannot be decoded yet.
OnFrame(kind, dts) ==
    LET can_end == IF kind = "aac" THEN ~mux.video_configured ELSE kind = "key"
        cut     == Cut(dts, can_end)
        flushed == IF cut = "no" THEN mux ELSE Flushed(mux, dts, cut = "segment")
        opened  == ~flushed.part_open
    IN  /\ phase = "on"
        /\ IF kind = "aac" THEN format.a # 0 ELSE format.v # 0
        /\ IF cut # "no" THEN Flush(dts, cut = "segment")
           ELSE /\ storage' = IF opened /\ mux.init_dirty THEN set_init(storage, format)
                              ELSE storage
                /\ UNCHANGED <<nparts, published, content>>
        /\ mux' = [Opens(flushed, dts) EXCEPT !.last_dts = dts]
        /\ samples' = (IF opened THEN {} ELSE samples) \cup {format}
        /\ session' = [session EXCEPT !.video = @ \/ kind # "aac"]
        /\ UNCHANGED <<phase, format>>

\* Mutant of UnpublishFlush: the storage is told before the muxer flushes.
UnpublishFlush_Late ==
    /\ phase = "on"
    /\ phase' = "stopping"
    /\ IF mux.part_open
       THEN /\ nparts < MaxParts
            /\ storage' = append_part(on_unpublish(storage),
                             [id |-> nparts + 1,
                              duration |-> mux.last_dts - mux.part_start_dts], TRUE)
            /\ nparts' = nparts + 1
            /\ content' = Append(content, samples)
            /\ mux' = Flushed(mux, mux.last_dts, TRUE)
            /\ UNCHANGED published
       ELSE UNCHANGED <<wvars, content, mux>>
    /\ samples' = {}
    /\ UNCHANGED <<format, session>>

\* SrsLlHlsMuxer::on_unpublish: the last part ends its segment.
UnpublishFlush ==
    /\ phase = "on"
    /\ phase' = "stopping"
    /\ IF mux.part_open
       THEN Flush(mux.last_dts, TRUE) /\ mux' = Flushed(mux, mux.last_dts, TRUE)
       ELSE UNCHANGED <<wvars, content, mux>>
    /\ samples' = {}
    /\ UNCHANGED <<format, session>>

\* SrsLlHlsStorage::on_unpublish.
UnpublishEnd ==
    /\ phase = "stopping"
    /\ phase' = "off"
    /\ storage' = on_unpublish(storage)
    /\ UNCHANGED <<nparts, published, format, mux, samples, content, session>>

MuxNext ==
    \/ OnPublish
    \/ \E cfg \in VideoConfigs : OnVideoHeader(cfg)
    \/ \E cfg \in AudioConfigs : OnAudioHeader(cfg)
    \/ \E kind \in {"aac", "key", "inter"}, step \in Steps :
          mux.last_dts + step \in 0 .. MaxDts /\ OnFrame(kind, mux.last_dts + step)
    \/ UnpublishFlush
    \/ UnpublishEnd

MuxSpec == MuxInit /\ [][MuxNext]_muxvars

-----------------------------------------------------------------------------

\* The part that is being written will continue the newest segment.
Continues == mux.part_open /\ storage.segments # << >> /\ ~LastSeg(storage).completed

\* The configurations in a segment of the window, the open part included.
SegmentCfgs(i) ==
    (UNION {content[storage.segments[i].parts[j].id] :
              j \in DOMAIN storage.segments[i].parts})
      \cup (IF i = Len(storage.segments) /\ Continues THEN samples ELSE {})

\* Samples of two codec configurations never share a segment, and the newest
\* samples are decoded with the init segment that is served (on_sequence_header
\* and open_part: one EXT-X-MAP per segment).
OneConfigPerSegment ==
    /\ \A i \in DOMAIN storage.segments :
          \A f, g \in SegmentCfgs(i) : f = g
    /\ samples \subseteq storage.init

\* The muxer and the storage each add up the duration of the segment that is
\* open; the muxer's sum decides the next cut, the storage's becomes EXTINF.
SegmentDurationAgrees ==
    phase = "on" =>
        mux.segment_duration = IF storage.segments = << >> \/ LastSeg(storage).completed
                               THEN 0 ELSE LastSeg(storage).duration

\* Every part but the last of its segment lasts at least 85% of the PART-TARGET
\* that the playlist announces (the rule behind maybe_cut).
PartsLongEnough ==
    \A i \in DOMAIN storage.segments :
        LET parts == storage.segments[i].parts
        IN  \A j \in 1 .. Len(parts) - 1 : parts[j].duration * 100 >= PartTarget * 85

\* The muxer uses the storage as module LlHlsWindow describes its writer: parts
\* come only between on_publish and on_unpublish, one call of the storage a step.
ImplementsWindow == WindowSpec

=============================================================================
