------------------------------- MODULE Queues -------------------------------
(***************************************************************************)
(* What modules that hold a queue of frames say of it.                     *)
(***************************************************************************)
EXTENDS Naturals, Sequences

\* Where in the queue q the elements of F are.
Places(q, F) == {i \in 1 .. Len(q) : q[i] \in F}
=============================================================================
