------------------------------ MODULE Messages ------------------------------
(***************************************************************************)
(* Media messages (SrsSharedPtrMessage) as the rest of the program tells    *)
(* them apart.  The payload is abstracted to the class that the FLV tag     *)
(* predicates of srs_kernel_codec.cpp and the header tests of               *)
(* srs_kernel_flv.hpp compute from it:                                      *)
(*                                                                          *)
(*   "meta"    AMF0 data message (onMetaData)                               *)
(*   "ash"     AAC sequence header          "aac"    any other audio        *)
(*   "vsh"     AVC sequence header          "key"    H.264 key frame        *)
(*   "inter"   other H.264 frame            "vother" video that is not H.264*)
(*                                                                          *)
(* A message is a record with at least the fields kind and timestamp.       *)
(***************************************************************************)
EXTENDS Integers, Sequences

Kinds == {"meta", "ash", "aac", "vsh", "key", "inter", "vother"}

\* SrsSharedPtrMessage::is_audio / is_video / is_av.
is_audio(m) == m.kind \in {"ash", "aac"}
is_video(m) == m.kind \in {"vsh", "key", "inter", "vother"}
is_av(m)    == is_audio(m) \/ is_video(m)

\* SrsFlvAudio::sh and SrsFlvVideo::sh: the sequence headers.
audio_sh(m) == m.kind = "ash"
video_sh(m) == m.kind = "vsh"

\* SrsFlvVideo::keyframe looks at the frame type nibble, which a sequence
\* header sets as well; SrsFlvVideo::h264 at the codec id nibble.
keyframe(m) == m.kind \in {"key", "vsh"}
h264(m)     == m.kind \in {"vsh", "key", "inter"}
=============================================================================
