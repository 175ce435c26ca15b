------------------------------ MODULE MCHlsHub ------------------------------
(* The instance of HlsHub for TLC.                                          *)
EXTENDS HlsHub

MCPictures == {<<TRUE, TRUE>>, <<TRUE, FALSE>>, <<FALSE, FALSE>>}

MCSteps == {-1, 2}
=============================================================================
