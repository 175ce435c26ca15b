---------------------------- MODULE MCLiveSource ----------------------------
(* Instances of LiveSource for TLC.                                         *)
EXTENDS LiveSource, TLC

\* Connections of a kind are interchangeable (safety runs only).
Symmetry == Permutations(Publishers) \cup Permutations(Players)

\* Streams that begin with a header or without, change it, or have one or two GOPs.
MCSentKinds == << {"vsh", "key"}, {"key", "inter"}, {"vsh", "inter"} >>
=============================================================================
