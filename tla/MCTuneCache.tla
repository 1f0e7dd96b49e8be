---------------------------- MODULE MCTuneCache ----------------------------
(* Constants of TuneCache for TLC: two processes, two devices. *)
EXTENDS TuneCache

CONSTANTS p1, p2, k1, k2, auto, fixed
=============================================================================
