---------------------------- MODULE MCLlHlsMuxer ----------------------------
(* Instances of LlHlsMuxer for TLC.                                         *)
EXTENDS LlHlsMuxer

MCConfigs == [v : VideoConfigs \cup {0}, a : AudioConfigs \cup {0}]

MCDurations == -MaxDts .. MaxDts

MCSteps == {-2, 4}
=============================================================================
