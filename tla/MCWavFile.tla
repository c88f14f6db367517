------------------------------ MODULE MCWavFile ------------------------------
(* Instances of WavFile for TLC. *)
EXTENDS WavFile

MCSources == {<<-80, 29, -32, 13>>, <<32, -17, 21, 5, -26, 16>>, <<9, 0>>}
=============================================================================
