------------------------------- MODULE Format -------------------------------
(* SrsFormat: what the hub knows of the codecs of a stream, and the frame it  *)
(* parsed last.  A message is the record of what the parser tells apart:      *)
(*   codec   of the tag ("aac", "avc" or another)                             *)
(*   packet  "header", "raw" (a frame), "other" (end of sequence), or "short" *)
(*           for a message that ends before the packet type or, of video, the *)
(*           composition time                                                 *)
(*   data    of a header the number of the configuration in it, 0 for none,   *)
(*           -1 for one of AAC that ends before it; of a frame 1, 0 if empty  *)
(*   ok      whether the parser gets through what it reads                    *)
(*   key     whether the frame type says key frame                            *)
(*   idr     whether a NALU of a picture that can be decoded alone is in it   *)
(* Configurations are numbers, 0 is none; of H.264 the number stands for the  *)
(* SPS.  The length of the NALU lengths only decides what of a frame the      *)
(* parser gets through.  A message has at least one byte: recv_message drops  *)
(* the others.                                                                *)
EXTENDS Integers

NewFormat == [acodec |-> "none", aac |-> 0, audio |-> "header", samples |-> 0,
              vcodec |-> "none", sps |-> 0, video |-> "header", key |-> FALSE, idr |-> FALSE,
              nalus |-> 0]

(* What a later message can see: the rest is set again before it is read.     *)
Kept(f) == [NewFormat EXCEPT !.aac = f.aac, !.audio = f.audio, !.sps = f.sps]

is_aac_codec_ok(f) == f.aac # 0
is_avc_codec_ok(f) == f.sps # 0

Parsed(f, ok) == [format |-> f, ok |-> ok]

(* on_audio, audio_aac_demux and audio_aac_sequence_header_demux: the samples *)
(* are reset for every message, the packet type only when there is one.  The  *)
(* configuration is the latest, also one that is refused for its sample rate. *)
on_audio(f, m) ==
    LET reset == [f EXCEPT !.acodec = m.codec, !.samples = 0]
        tag   == [reset EXCEPT !.audio = m.packet]
    IN  CASE m.codec # "aac" \/ m.packet = "short" -> Parsed(reset, TRUE)
          [] m.codec = "aac" /\ m.packet = "header" ->
                Parsed([tag EXCEPT !.aac = IF m.data = -1 THEN @ ELSE m.data], m.ok)
          [] m.codec = "aac" /\ m.packet \notin {"header", "short"} ->
                Parsed([tag EXCEPT !.samples = IF is_aac_codec_ok(f) THEN 1 ELSE 0], TRUE)

(* avc_demux_sps_pps: SPS and PPS are stored while there are none, also those *)
(* in front of what is refused; a header without any passes when there are.   *)
avc_demux_sps_pps(f, m) ==
    LET stored == [f EXCEPT !.sps = IF @ = 0 THEN m.data ELSE @]
    IN  Parsed(stored, m.ok /\ is_avc_codec_ok(stored))

(* avc_demux_ibmf_format: the NALUs in front of a bad length stay as samples. *)
avc_demux_ibmf_format(f, m) == Parsed([f EXCEPT !.nalus = m.data, !.idr = m.idr], m.ok)

(* on_video and video_avc_demux.                                              *)
on_video(f, m) ==
    LET reset == [f EXCEPT !.vcodec = m.codec, !.key = m.key, !.idr = FALSE, !.nalus = 0]
        tag   == [reset EXCEPT !.video = m.packet]
    IN  CASE m.codec # "avc" -> Parsed(reset, TRUE)
          [] m.codec = "avc" /\ m.packet = "short" -> Parsed(reset, FALSE)
          [] m.codec = "avc" /\ m.packet = "header" -> avc_demux_sps_pps(tag, m)
          [] m.codec = "avc" /\ m.packet = "raw" /\ is_avc_codec_ok(f) ->
                avc_demux_ibmf_format(tag, m)
          [] OTHER -> Parsed(tag, TRUE)
=============================================================================
