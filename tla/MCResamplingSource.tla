-------------------------- MODULE MCResamplingSource --------------------------
(* Stereo, rings of three frames, pushes of one and two, and pulls that want  *)
(* less, as much as and more than what is there.                              *)
EXTENDS ResamplingSource

MCPushSizes == {1, 2}
MCBlocks == {2}
MCWants == {1, 3}
=============================================================================
