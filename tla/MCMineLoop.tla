----------------------------- MODULE MCMineLoop -----------------------------
(* Constants of MineLoop for TLC: two devices of different size, and
   two jobs that share no input. *)
EXTENDS MineLoop

CONSTANTS A, B, p, q     \* two job ids, two inputs

MCDevices == 1 .. 2
MCPerIter == <<2, 1>>
MCPow == [b \in {p, q} |-> IF b = p THEN [n \in Nonces |-> IF n = 0 THEN 1 ELSE 3]
                                    ELSE [n \in Nonces |-> IF n = 0 THEN 3 ELSE n - 1]]

JobA == [id |-> A, blob |-> p, target |-> 1, extra |-> 1]
JobB == [id |-> B, blob |-> q, target |-> 0, extra |-> NonceSpace - 1]
MCAnnouncements == {JobA, JobB}
=============================================================================
