---------------------------- MODULE MCVulkMiner -----------------------------
(* Constants of VulkMiner for TLC: one device, and two jobs on the same
   input of which one has a hit. *)
EXTENDS VulkMiner

CONSTANTS A, B, p

MCDevices == 1 .. 1
MCPerIter == <<1>>
MCPow == [b \in {p} |-> [n \in 0 .. NonceSpace - 1 |-> IF n = 0 THEN 1 ELSE 3]]
MCAnnouncements ==
    {[id |-> A, blob |-> p, target |-> 1, extra |-> 0],
     [id |-> B, blob |-> p, target |-> 0, extra |-> 1]}
=============================================================================
