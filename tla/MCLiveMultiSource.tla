-------------------------- MODULE MCLiveMultiSource --------------------------
(* Three recorders: one is destroyed while a second is in use and a third is  *)
(* made after it; blocks without number.                                      *)
EXTENDS LiveMultiSource
=============================================================================
