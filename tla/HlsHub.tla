------------------------------- MODULE HlsHub -------------------------------
(* The hub of a source and its HLS output, through several publish sessions   *)
(* and failures of the file system.  The steps run in the publisher's thread  *)
(* under the source lock, one at a time.  An error of the output never        *)
(* reaches the publisher: the hub stops the output for the rest of the        *)
(* session.                                                                   *)
EXTENDS Hls, FiniteSets

Fmt == INSTANCE Format

CONSTANTS Configs,      \* configurations that sequence headers carry
          Pictures,     \* kinds of frames: <<marked as key frame, decodable alone>>
          Steps,        \* differences of consecutive timestamps, which may go back
          MaxFrames,    \* bound: media messages and failing calls of a behaviour
          MaxHeaders,   \* bound: sequence headers and other messages
          MaxSessions,  \* bound: publish sessions
          MaxFaults     \* bound: failing calls of a behaviour

ASSUME HlsHubAssumption ==
    /\ Configs \subseteq Nat \ {0} /\ Pictures \subseteq BOOLEAN \X BOOLEAN /\ Steps \subseteq Int
    /\ MaxFrames \in Nat /\ MaxHeaders \in Nat /\ MaxSessions \in Nat /\ MaxFaults \in Nat

VARIABLES hls, format,
          publishing,   \* !can_publish_ of the source
          is_active,    \* SrsOriginHub::is_active
          clock,        \* the timestamp of the latest message of the session
          used,         \* what has been used of the bounds
          sent,         \* history: the frames handed to the controller
          cfg           \* history: the configuration of the latest video header
vars == <<hls, format, publishing, is_active, clock, used, sent, cfg>>

Init ==
    /\ hls = NewHls
    /\ format = Fmt!NewFormat
    /\ publishing = FALSE /\ is_active = FALSE
    /\ clock = 0
    /\ used = [frames |-> 0, headers |-> 0, sessions |-> 0, faults |-> 0]
    /\ sent = << >>
    /\ cfg = 0

(* The file calls that fail in a step: none, or one of them every time.       *)
Faults == {{}} \cup {{c} : c \in FileCalls}
Allowed(f) ==
    /\ used.faults + Cardinality(f) <= MaxFaults
    /\ used.frames + used.faults + Cardinality(f) <= MaxFrames
Count(bound, f) == used' = [used EXCEPT ![bound] = @ + 1, !.faults = @ + Cardinality(f)]

-----------------------------------------------------------------------------
(* SrsOriginHub::on_publish, called by SrsLiveSource::on_publish.  LL-HLS     *)
(* fails to start when its directory cannot be made (`ll`).                   *)
OnPublish(f, ll) ==
    LET r == on_publish(hls, f)
    IN  /\ ~ publishing
        /\ used.sessions < MaxSessions /\ Allowed(f)
        /\ hls' = r.hls
        /\ publishing' = (r.ok /\ ll)
        /\ is_active' = IF r.ok /\ ll THEN TRUE ELSE is_active
        /\ Count("sessions", f)
        /\ UNCHANGED <<format, clock, sent, cfg>>

(* on_unpublish of the hub.                                                   *)
OnUnpublish(f) ==
    /\ publishing /\ Allowed(f)
    /\ publishing' = FALSE /\ is_active' = FALSE
    /\ hls' = on_unpublish(hls, f)
    /\ clock' = 0   \* the next publisher begins its own time
    /\ used' = [used EXCEPT !.faults = @ + Cardinality(f)]
    /\ UNCHANGED <<format, sent, cfg>>

(* What on_audio and on_video of the hub do with the result of the output:    *)
(* on an error they unpublish it.  The failure may last (`again`).            *)
Output(r, f, again) ==
    IF r.ok THEN r.hls ELSE on_unpublish(r.hls, IF again THEN f ELSE {})

(* SrsHls::on_audio, from what the format holds after the message.            *)
WritesAudio(h, fmt) ==
    h.enabled /\ fmt.acodec = "aac" /\ fmt.audio # "header" /\ fmt.samples > 0
        /\ Fmt!is_aac_codec_ok(fmt)
MarksAudio(h, fmt) == h.enabled /\ fmt.acodec = "aac" /\ fmt.audio = "header"

OnAudio(m, step, f, again) ==
    LET p     == Fmt!on_audio(format, m)
        frame == [type |-> "audio", ts |-> clock + step, key |-> FALSE, idr |-> FALSE, sps |-> 0]
        takes == p.ok /\ WritesAudio(hls, p.format)
    IN  /\ publishing /\ Allowed(f)
        /\ clock + step >= 0
        /\ format' = Fmt!Kept(p.format)
        /\ clock' = clock + step
        /\ hls' = CASE takes -> Output(write_frame(hls, frame, f), f, again)
                    [] ~ takes /\ p.ok /\ MarksAudio(hls, p.format) -> on_sequence_header(hls)
                    [] OTHER -> hls
        /\ sent' = IF takes /\ m.data # 0 THEN Append(sent, frame) ELSE sent
        /\ UNCHANGED <<publishing, is_active, cfg>>

AudioFrame(step, f, again) ==
    /\ used.frames + used.faults + Cardinality(f) < MaxFrames
    /\ OnAudio([codec |-> "aac", packet |-> "raw", data |-> 1, ok |-> TRUE], step, f, again)
    /\ Count("frames", f)

(* A frame without payload passes the parser; the cache refuses it.           *)
AudioEmpty(step) ==
    /\ used.frames + used.faults + 1 < MaxFrames
    /\ OnAudio([codec |-> "aac", packet |-> "raw", data |-> 0, ok |-> TRUE], step, {"cache"}, FALSE)
    /\ Count("frames", {"cache"})

(* A header, also one the parser refuses, another codec, a message of a       *)
(* single byte: nothing is written.                                           *)
AudioOther(m) ==
    /\ used.headers < MaxHeaders
    /\ OnAudio(m, 0, {}, FALSE)
    /\ Count("headers", {})

(* SrsHls::on_video.                                                          *)
WritesVideo(h, fmt) ==
    h.enabled /\ fmt.vcodec = "avc" /\ fmt.video = "raw" /\ fmt.nalus > 0
        /\ Fmt!is_avc_codec_ok(fmt)
MarksVideo(h, fmt) == h.enabled /\ fmt.vcodec = "avc" /\ fmt.video = "header"

OnVideo(m, step, f, again) ==
    LET p     == Fmt!on_video(format, m)
        frame == [type |-> "video", ts |-> clock + step, key |-> p.format.key,
                  idr |-> p.format.idr, sps |-> IF p.format.idr THEN p.format.sps ELSE 0]
        takes == p.ok /\ WritesVideo(hls, p.format)
    IN  /\ publishing /\ Allowed(f)
        /\ clock + step >= 0
        /\ format' = Fmt!Kept(p.format)
        /\ clock' = clock + step
        /\ hls' = CASE takes -> Output(write_frame(hls, frame, f), f, again)
                    [] ~ takes /\ p.ok /\ MarksVideo(hls, p.format) -> on_sequence_header(hls)
                    [] OTHER -> hls
        /\ sent' = IF takes THEN Append(sent, frame) ELSE sent
        /\ cfg' = IF p.ok /\ MarksVideo([hls EXCEPT !.enabled = TRUE], p.format) /\ m.data > 0
                  THEN m.data ELSE cfg
        /\ UNCHANGED <<publishing, is_active>>

VideoFrame(pic, step, f, again) ==
    /\ used.frames + used.faults + Cardinality(f) < MaxFrames
    /\ OnVideo([codec |-> "avc", packet |-> "raw", data |-> 1, ok |-> TRUE,
                 key |-> pic[1], idr |-> pic[2]], step, f, again)
    /\ Count("frames", f)

VideoOther(m) ==
    /\ used.headers < MaxHeaders
    /\ OnVideo(m, 0, {}, FALSE)
    /\ Count("headers", {})

AudioOthers ==
    [codec : {"aac"}, packet : {"header"}, data : Configs, ok : BOOLEAN]
        \cup [codec : {"aac"}, packet : {"header"}, data : {-1, 0}, ok : {FALSE}]
        \cup [codec : {"aac"}, packet : {"short"}, data : {0}, ok : {TRUE}]
        \cup [codec : {"mp3"}, packet : {"raw"}, data : {1}, ok : {TRUE}]
VideoOthers ==
    [codec : {"avc"}, packet : {"header"}, data : Configs \cup {0}, ok : BOOLEAN,
     key : {TRUE}, idr : {FALSE}]
        \cup [codec : {"avc"}, packet : {"raw"}, data : {1}, ok : {FALSE}, key : {FALSE}, idr : {FALSE}]
        \cup [codec : {"avc"}, packet : {"raw", "other", "short"}, data : {0}, ok : {TRUE},
              key : {TRUE}, idr : {FALSE}]
        \cup [codec : {"hevc"}, packet : {"raw"}, data : {1}, ok : {TRUE}, key : {FALSE}, idr : {FALSE}]

Next ==
    \/ \E f \in Faults, ll \in BOOLEAN : OnPublish(f, ll)
    \/ \E f \in Faults : OnUnpublish(f)
    \/ \E step \in Steps, f \in Faults, again \in BOOLEAN :
          \/ AudioFrame(step, f, again)
          \/ \E pic \in Pictures : VideoFrame(pic, step, f, again)
    \/ \E step \in Steps : AudioEmpty(step)
    \/ \E m \in AudioOthers : AudioOther(m)
    \/ \E m \in VideoOthers : VideoOther(m)

Spec == Init /\ [][Next]_vars

-----------------------------------------------------------------------------
Undisturbed == used.faults = 0

\* The frames of a kind in a sequence of messages.
FramesOf(type, packets) ==
    LET f[n \in 0 .. Len(packets)] ==
            IF n = 0 THEN << >>
            ELSE IF packets[n].type = type THEN f[n - 1] \o packets[n].frames ELSE f[n - 1]
    IN  f[Len(packets)]

Messages(frames) ==
    [i \in DOMAIN frames |-> [type |-> frames[i].type, frames |-> <<frames[i]>>]]

Pending(msg) == IF msg = NULL THEN << >> ELSE <<msg>>

(* The assertions of the muxer: while the output is enabled there is a        *)
(* current segment, whatever failed (on_sequence_header, is_segment_overflow, *)
(* update_duration would abort the server), and the file the writer has open  *)
(* is the one of that segment.                                                *)
SegmentOpen ==
    /\ hls.enabled => hls.current # NULL
    /\ hls.writing => hls.current # NULL /\ hls.current.no \in DOMAIN hls.tmp

(* Whatever call fails, every frame the controller accepted is in exactly one *)
(* segment or still to be written, in the order of its kind: no frame is      *)
(* lost, doubled or reordered where a segment ends or a write is tried again. *)
FramesOnce ==
    \A type \in {"audio", "video"} :
        FramesOf(type, hls.out \o Held(hls) \o Pending(hls.audio) \o Pending(hls.video))
          = FramesOf(type, Messages(sent))

(* A player finds every segment of the playlist, whatever call fails: the     *)
(* playlist is the window unless it could not be replaced the last time, the  *)
(* files of the window exist, its numbers ascend, also into the segment that  *)
(* is being written, and only a segment that could not be renamed leaves a    *)
(* gap in them.                                                               *)
PlaylistServed ==
    /\ ~ hls.stale => hls.m3u8 = hls.segments
    /\ Numbers(hls.segments) \subseteq DOMAIN hls.files
    /\ \A i \in 1 .. Len(hls.segments) - 1 :
          /\ hls.segments[i].no < hls.segments[i + 1].no
          /\ hls.segments[i].no + 1 .. hls.segments[i + 1].no - 1 \subseteq hls.lost
    /\ hls.current # NULL => \A i \in DOMAIN hls.segments : hls.segments[i].no < hls.current.no

(* The frame that cut a segment opens the video of the next.                  *)
OpensVideo(m) == m.type = "video" /\ m.frames # << >> /\ m.frames[1].key

HasSps(m) == \A i \in DOMAIN m.frames : m.frames[i].idr => m.frames[i].sps # 0

Decodable(by, file) ==
    /\ file # << >> /\ file[1] = PatPmt
    /\ \A k \in DOMAIN file : HasSps(file[k])
    /\ by = "video" =>
          \E k \in DOMAIN file :
             OpensVideo(file[k]) /\ \A j \in 1 .. k - 1 : file[j].type # "video"

(* While no call fails, every finished segment can be decoded by itself: it   *)
(* begins with PAT and PMT, every picture that can be decoded alone has its   *)
(* SPS in front, and when a video frame ended the segment before it, its      *)
(* video begins with a frame that is marked as key frame.                     *)
Playable ==
    Undisturbed =>
        \A i \in DOMAIN hls.m3u8 :
            hls.m3u8[i].no \in DOMAIN hls.files =>
                Decodable(hls.m3u8[i].by, hls.files[hls.m3u8[i].no])

(* The durations of the playlist add up: while no call fails, a segment that  *)
(* a frame ended lasts until the time the next one begins with, wherever the  *)
(* times went back in between.  A segment that is too long to be kept leaves  *)
(* a hole, and the next one does not follow.                                  *)
Contiguous ==
    Undisturbed =>
        \A i \in 1 .. Len(hls.segments) - 1 :
            hls.segments[i + 1].follows =>
                hls.segments[i].start + hls.segments[i].dur = hls.segments[i + 1].first

(* The comment of do_cache_avc: the picture that can be decoded alone is      *)
(* preceded by the SPS and PPS of the sequence header it belongs to, the      *)
(* latest.                                                                    *)
LatestSps ==
    [][\A i \in DOMAIN sent' : i > Len(sent) /\ sent'[i].idr => sent'[i].sps = cfg]_vars
=============================================================================
