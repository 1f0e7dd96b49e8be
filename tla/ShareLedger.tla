----------------------------- MODULE ShareLedger -----------------------------
(***************************************************************************)
(* What the mining threads promise together, without threads: of every     *)
(* published instance each nonce is claimed by one device at most once,    *)
(* and a share is recorded at most once, of a claim that was searched, and *)
(* only if it meets the target of its own instance.                        *)
(***************************************************************************)
EXTENDS Naturals, Sequences

CONSTANTS Devices, Announcements, Pow

VARIABLES
    jobs,      \* the instances published so far
    claimed,   \* nonces of instances that were ever claimed
    searching, \* the claim each device is searching
    searched,  \* nonces whose search has ended
    recorded   \* the shares recorded

vars == <<jobs, claimed, searching, searched, recorded>>

Valid(s) == Pow[jobs[s.job].blob][s.nonce] <= jobs[s.job].target

Init ==
    /\ jobs = <<>>
    /\ claimed = {}
    /\ searching = [d \in Devices |-> {}]
    /\ searched = {}
    /\ recorded = {}

Publish ==
    /\ \E a \in Announcements : jobs' = Append(jobs, a)
    /\ UNCHANGED <<claimed, searching, searched, recorded>>

\* A claim is new, of one published instance, and belongs to one device.
Claim(d) ==
    /\ searching[d] = {}
    /\ LET new == searching'[d] IN
         /\ new # {}
         /\ new \cap claimed = {}
         /\ \E j \in 1 .. Len(jobs) : \A s \in new : s.job = j
         /\ searching' = [searching EXCEPT ![d] = new]
         /\ claimed' = claimed \union new
    /\ UNCHANGED <<jobs, searched, recorded>>

\* The search of a claim ends, or is given up.
Finish(d) ==
    /\ searching[d] # {}
    /\ searching' = [searching EXCEPT ![d] = {}]
    /\ searched' \in {searched, searched \union searching[d]}
    /\ UNCHANGED <<jobs, claimed, recorded>>

Record ==
    /\ \E s \in searched \ recorded : Valid(s) /\ recorded' = recorded \union {s}
    /\ UNCHANGED <<jobs, claimed, searching, searched>>

Next ==
    \/ Publish
    \/ \E d \in Devices : Claim(d) \/ Finish(d)
    \/ Record

Spec == Init /\ [][Next]_vars
=============================================================================
