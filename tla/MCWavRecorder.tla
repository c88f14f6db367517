---------------------------- MODULE MCWavRecorder ----------------------------
(* Stereo, a ring asked for two frames (which holds three and a half), blocks *)
(* that fill it in two or three pushes, and a second recording.               *)
EXTENDS WavRecorder

MCBlockSizes == {1, 2}
=============================================================================
