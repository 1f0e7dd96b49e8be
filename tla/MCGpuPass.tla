----------------------------- MODULE MCGpuPass ------------------------------
(* Constants of GpuPass for TLC. *)
EXTENDS GpuPass

CONSTANTS s1, s2, s3

AllStages == 1 .. 4
=============================================================================
