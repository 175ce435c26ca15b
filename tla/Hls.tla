-------------------------------- MODULE Hls --------------------------------
(* SrsHls, its controller and its muxer, the window of fragments, the cache   *)
(* and the writer of MPEG-TS messages, and the files they leave behind, as    *)
(* operations on one record.  Every call of the file system may fail: `f` is  *)
(* the set of the calls that fail while the operation runs.                   *)
(*                                                                            *)
(* A file is the sequence of the TS messages written to it in full: the part  *)
(* that a failed write leaves behind counts for nothing.  Times are           *)
(* milliseconds; the conversion to 90 kHz and back is exact.                  *)
EXTENDS Integers, Sequences, SequencesExt, Functions

CONSTANTS NULL,         \* no object
          MinDuration,  \* SRS_HLS_SEGMENT_MIN_DURATION
          Fragment,     \* hls_fragment, which is also max_td
          Window        \* hls_window

(* The values of the codecs of a segment, of a segment (its `by`, `follows`   *)
(* and `first` are history: what cut the one before it, whether that one was  *)
(* kept, and the time it began with), of a frame and of the TS message that   *)
(* collects frames.  A frame type that says key frame is one thing (`key`), a *)
(* picture that can be decoded alone another (`idr`): SPS go in front of      *)
(* the latter.                                                                *)
Codecs == [a : {"none", "aac"}, v : {"none", "avc"}]
Segment == [no : Nat, start : Nat \cup {-1}, dur : Nat, sh : BOOLEAN, codec : Codecs,
            by : {"publish", "audio", "video"}, follows : BOOLEAN, first : Nat \cup {-1}]
Frame == [type : {"audio", "video"}, ts : Nat, key : BOOLEAN, idr : BOOLEAN, sps : Nat]
TsMessage == [type : {"pat", "audio", "video"}, dts : Nat, pcr : BOOLEAN, frames : Seq(Frame)]

ASSUME HlsAssumption ==
    /\ MinDuration \in Nat \ {0} /\ Fragment \in Nat \ {0} /\ Window \in Nat
    /\ NULL \notin Segment \cup TsMessage

FileCalls == {"dir", "open", "pat", "pes", "rename", "m3u8", "unlink"}

NewHls ==
    [enabled |-> FALSE,
     current |-> NULL, sequence_no |-> 0, segments |-> << >>, expired |-> << >>,
     latest |-> [a |-> "none", v |-> "none"],   \* latest_acodec_, latest_vcodec_
     context |-> [a |-> "none", v |-> "none"],  \* the codecs of SrsTsContext
     audio |-> NULL, video |-> NULL,            \* the TS message cache
     writing |-> FALSE,                         \* whether the writer has a file
     tmp |-> << >>, files |-> << >>,            \* unfinished files, finished ones, by number
     m3u8 |-> << >>,
     out |-> << >>,                             \* history: what every closed segment held
     lost |-> {},                               \* history: segments that were not renamed
     stale |-> FALSE]                           \* history: the last refresh failed

Done(h) == [hls |-> h, ok |-> TRUE]
Failed(h) == [hls |-> h, ok |-> FALSE]
Then(r, Op(_)) == IF r.ok THEN Op(r.hls) ELSE r

(* A function changed or extended at one point.                               *)
With(fn, x, value) == [y \in DOMAIN fn \cup {x} |-> IF y = x THEN value ELSE fn[y]]

-----------------------------------------------------------------------------
(* The TS side.                                                               *)

PatPmt == [type |-> "pat", dts |-> 0, pcr |-> FALSE, frames |-> << >>]

(* SrsFileWriter::write.                                                      *)
write(h, packet, call, f) ==
    IF ~ h.writing \/ call \in f THEN Failed(h)
    ELSE Done([h EXCEPT !.tmp[h.current.no] = Append(@, packet)])

(* SrsTsContext::encode, with encode_pat_pmt and encode_pes.  The codecs are  *)
(* taken over before the tables are written.                                  *)
encode(h, msg, f) ==
    LET pat == IF h.context = h.current.codec THEN Done(h)
               ELSE write([h EXCEPT !.context = h.current.codec], PatPmt, "pat", f)
        pcr == msg.pcr \/ (h.current.codec.v # "avc" /\ msg.type = "audio")
    IN  Then(pat, LAMBDA p : write(p, [msg EXCEPT !.pcr = pcr], "pes", f))

(* SrsTsMessageCache::cache_audio and cache_video: a frame joins the message  *)
(* that is still cached, under the time of its first frame.  An AAC frame     *)
(* without payload is refused ("cache"), after the message has been made.     *)
MessageFor(msg, frame) ==
    IF msg = NULL THEN [type |-> frame.type, dts |-> frame.ts, pcr |-> frame.key,
                        frames |-> << >>]
    ELSE msg
Cached(msg, frame, f) ==
    [MessageFor(msg, frame) EXCEPT !.frames = IF "cache" \in f THEN @ ELSE Append(@, frame)]

-----------------------------------------------------------------------------
(* SrsFragment and SrsFragmentWindow.                                         *)

(* SrsFragment::append.                                                       *)
append(s, dts) ==
    LET start == IF s.start = -1 \/ dts < s.start THEN dts ELSE s.start
    IN  [s EXCEPT !.start = start, !.dur = dts - start,
                  !.first = IF s.start = -1 THEN dts ELSE @]

update_duration(h, dts) == [h EXCEPT !.current = append(@, dts)]

Durations(segments) == FoldSeq(LAMBDA s, d : s.dur + d, 0, segments)

(* shrink: what is left is the shortest suffix that is longer than the        *)
(* window.                                                                    *)
shrink(h) ==
    LET over == {i \in DOMAIN h.segments :
                    Durations(SubSeq(h.segments, i, Len(h.segments))) > Window}
        n == IF over = {} THEN 0 ELSE (CHOOSE i \in over : \A j \in over : j <= i) - 1
    IN  [h EXCEPT !.segments = SubSeq(@, n + 1, Len(@)),
                  !.expired = @ \o SubSeq(h.segments, 1, n)]

Numbers(segments) == {segments[i].no : i \in DOMAIN segments}

(* clear_expired: a file that cannot be deleted is forgotten.                 *)
clear_expired(h, f) ==
    [h EXCEPT !.expired = << >>,
              !.files = IF "unlink" \in f THEN @
                        ELSE Restrict(@, DOMAIN @ \ Numbers(h.expired))]

-----------------------------------------------------------------------------
(* SrsHlsMuxer.                                                               *)

DefaultCodec(codec, default) == IF codec = "none" THEN default ELSE codec

\* Mutant of segment_open: the context keeps its codecs.
segment_open_NoReset(h, by, follows, f) ==
    LET seg == [no |-> h.sequence_no, start |-> -1, dur |-> 0, sh |-> FALSE, by |-> by,
                follows |-> follows, first |-> -1,
                codec |-> [a |-> DefaultCodec(h.latest.a, "aac"),
                           v |-> DefaultCodec(h.latest.v, "avc")]]
        new == [h EXCEPT !.current = seg, !.sequence_no = @ + 1]
    IN  CASE h.current # NULL -> Done(h)
          [] h.current = NULL /\ (h.writing \/ "open" \in f) -> Failed(new)
          [] OTHER -> Done([new EXCEPT !.writing = TRUE,
                                       !.tmp = With(@, seg.no, << >>)])

(* segment_open: a new segment takes the next number before its file is      *)
(* opened, and is current also when that fails.                               *)
segment_open(h, by, follows, f) ==
    LET seg == [no |-> h.sequence_no, start |-> -1, dur |-> 0, sh |-> FALSE, by |-> by,
                follows |-> follows, first |-> -1,
                codec |-> [a |-> DefaultCodec(h.latest.a, "aac"),
                           v |-> DefaultCodec(h.latest.v, "avc")]]
        new == [h EXCEPT !.current = seg, !.sequence_no = @ + 1]
    IN  CASE h.current # NULL -> Done(h)
          [] h.current = NULL /\ (h.writing \/ "open" \in f) -> Failed(new)
          [] OTHER -> Done([new EXCEPT !.writing = TRUE,
                                       !.tmp = With(@, seg.no, << >>),
                                       !.context = [a |-> "none", v |-> "none"]])

(* on_sequence_header asserts that there is a current segment.                *)
on_sequence_header(h) == [h EXCEPT !.current.sh = TRUE]

is_segment_overflow(h) == h.current.dur >= 2 * MinDuration /\ h.current.dur >= Fragment

(* hls_aof_ratio is 2.1.                                                      *)
is_segment_absolutely_overflow(h) ==
    h.current.dur >= 2 * MinDuration /\ 10 * h.current.dur >= 21 * Fragment

(* set_latest_acodec, set_latest_vcodec.                                      *)
set_latest_codec(h, av, codec) ==
    [h EXCEPT !.current.codec[av] = codec, !.latest[av] = codec]

Unused(msg) == msg = NULL \/ msg.frames = << >>

\* Mutant of flush: a written message stays in the cache.
flush_Keep(h, av, f) ==
    IF h.current = NULL \/ Unused(h[av]) THEN Done(h)
    ELSE encode(update_duration(h, h[av].dts), h[av], f)

(* flush_audio and flush_video: only a written message leaves the cache.      *)
flush(h, av, f) ==
    IF h.current = NULL \/ Unused(h[av]) THEN Done(h)
    ELSE Then(encode(update_duration(h, h[av].dts), h[av], f),
              LAMBDA w : Done([w EXCEPT ![av] = NULL]))

(* refresh_m3u8 and _refresh_m3u8: the playlist is replaced as a whole; a     *)
(* failure leaves the old one.                                                *)
refresh_m3u8(h, f) ==
    CASE h.segments = << >> -> Done(h)
      [] h.segments # << >> /\ "m3u8" \in f -> Failed([h EXCEPT !.stale = TRUE])
      [] OTHER -> Done([h EXCEPT !.m3u8 = h.segments, !.stale = FALSE])

(* The end of do_segment_close: the window slides, the playlist follows, the  *)
(* files that left it are deleted whether it could be replaced or not.        *)
Refreshed(h, f) == [refresh_m3u8(shrink(h), f) EXCEPT !.hls = clear_expired(@, f)]

Kept(s) == s.dur >= MinDuration /\ s.dur <= Fragment * 3 * 1000

Held(h) == IF h.writing THEN h.tmp[h.current.no] ELSE << >>

\* Mutant of do_segment_close: a dropped segment keeps its number.
do_segment_close_Skip(h, f) ==
    LET c    == [h EXCEPT !.writing = FALSE, !.out = @ \o Held(h)]
        no   == h.current.no
        file == h.tmp[no]
        rest == Restrict(h.tmp, DOMAIN h.tmp \ {no})
    IN  CASE Kept(h.current) /\ (no \notin DOMAIN h.tmp \/ "rename" \in f) ->
                Failed([c EXCEPT !.lost = @ \cup {no}])
          [] Kept(h.current) /\ no \in DOMAIN h.tmp /\ "rename" \notin f ->
                Refreshed([c EXCEPT !.tmp = rest, !.files = With(@, no, file),
                                    !.segments = Append(@, h.current)], f)
          [] ~ Kept(h.current) -> Refreshed([c EXCEPT !.tmp = rest], f)

(* do_segment_close of an open segment.                                       *)
do_segment_close(h, f) ==
    LET c    == [h EXCEPT !.writing = FALSE, !.out = @ \o Held(h)]
        no   == h.current.no
        file == h.tmp[no]
        rest == Restrict(h.tmp, DOMAIN h.tmp \ {no})
        back == [c EXCEPT !.sequence_no = @ - 1]
    IN  CASE Kept(h.current) /\ (no \notin DOMAIN h.tmp \/ "rename" \in f) ->
                Failed([c EXCEPT !.lost = @ \cup {no}])
          [] Kept(h.current) /\ no \in DOMAIN h.tmp /\ "rename" \notin f ->
                Refreshed([c EXCEPT !.tmp = rest, !.files = With(@, no, file),
                                    !.segments = Append(@, h.current)], f)
          [] ~ Kept(h.current) /\ no \in DOMAIN h.tmp /\ "unlink" \in f -> Failed(back)
          [] OTHER -> Refreshed([back EXCEPT !.tmp = rest], f)

(* segment_close: the current segment is gone in every case.                  *)
segment_close(h, f) ==
    IF h.current = NULL THEN Done(h)
    ELSE [do_segment_close(h, f) EXCEPT !.hls.current = NULL]

-----------------------------------------------------------------------------
(* SrsHlsController.                                                          *)

(* reap_segment: the next segment is opened also when closing fails.          *)
reap_segment(h, by, f) ==
    LET Reopen(closed) == [segment_open(closed.hls, by, Kept(h.current), f) EXCEPT !.ok = @ /\ closed.ok]
        opened == Reopen(segment_close(h, f))
        video  == Then(opened, LAMBDA o : flush(o, "video", f))
    IN  Then(video, LAMBDA v : flush(v, "audio", f))

(* Audio ends only a segment that is far too long, video any full one before  *)
(* a key frame.                                                               *)
Reaped(h, frame, f) ==
    IF \/ frame.type = "audio" /\ is_segment_absolutely_overflow(h)
       \/ frame.type = "video" /\ is_segment_overflow(h) /\ frame.key
    THEN reap_segment(h, frame.type, f)
    ELSE Done(h)

\* Mutant of write_frame: the frame that cuts a segment does not count for its duration.
write_frame_Uncounted(h, frame, f) ==
    LET av     == frame.type
        codec  == set_latest_codec(h, IF av = "audio" THEN "a" ELSE "v",
                                   IF av = "audio" THEN "aac" ELSE "avc")
        cached == [codec EXCEPT ![av] = Cached(@, frame, f)]
    IN  IF "cache" \in f THEN Failed(cached)
        ELSE Then(Reaped(cached, frame, f), LAMBDA r : flush(r, av, f))

(* write_audio and write_video (wait_keyframe is set): the frame counts for   *)
(* the duration of the segment it may end, and then opens the next one.       *)
write_frame(h, frame, f) ==
    LET av     == frame.type
        codec  == set_latest_codec(h, IF av = "audio" THEN "a" ELSE "v",
                                   IF av = "audio" THEN "aac" ELSE "avc")
        cached == [codec EXCEPT ![av] = Cached(@, frame, f)]
        timed  == update_duration(cached, cached[av].dts)
    IN  IF "cache" \in f THEN Failed(cached)
        ELSE Then(Reaped(timed, frame, f), LAMBDA r : flush(r, av, f))

-----------------------------------------------------------------------------
(* SrsHls.                                                                    *)

(* on_publish and update_config, which makes the directory.                   *)
on_publish(h, f) ==
    IF "dir" \in f THEN Failed(h)
    ELSE Then(segment_open(h, "publish", FALSE, f), LAMBDA o : Done([o EXCEPT !.enabled = TRUE]))

\* Mutant of on_unpublish: an error returns before the output is disabled.
on_unpublish_Enabled(h, f) ==
    LET audio == flush(h, "audio", f)
        video == Then(audio, LAMBDA a : flush(a, "video", f))
        end   == Then(video, LAMBDA v : segment_close(v, f))
    IN  IF h.enabled THEN [end.hls EXCEPT !.enabled = ~ end.ok] ELSE h

(* on_unpublish: the cached messages go into the last segment, which is       *)
(* closed only if they could be written.                                      *)
on_unpublish(h, f) ==
    LET audio == flush(h, "audio", f)
        video == Then(audio, LAMBDA a : flush(a, "video", f))
        end   == Then(video, LAMBDA v : segment_close(v, f))
    IN  IF h.enabled THEN [end.hls EXCEPT !.enabled = FALSE] ELSE h
=============================================================================
