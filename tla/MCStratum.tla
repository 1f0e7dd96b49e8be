----------------------------- MODULE MCStratum ------------------------------
(* Constants of PublishedJobs for TLC: one kind of job, shares of each       *)
(* instance; and the fields of the notifications, in a base and with lengths *)
(* small enough to go through all of them.                                   *)
EXTENDS PublishedJobs

CONSTANT JobA

MCAnnouncements == {JobA}
=============================================================================
