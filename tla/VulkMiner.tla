------------------------------ MODULE VulkMiner ------------------------------
(***************************************************************************)
(* The running miner: the mining and verifier threads of MineLoop and the  *)
(* io thread of Stratum, which meet in the shown job (Shared.current) and  *)
(* in the channel of shares.  What MineLoop leaves to its environment is   *)
(* here a step of the io thread, and what Stratum leaves to its            *)
(* environment is here a step of a verifier thread.                        *)
(***************************************************************************)
EXTENDS Naturals, Sequences

CONSTANTS
    Devices, PerIter, Ids, Blobs, Targets, NonceSpace, Pow, ExactOn,
    Announcements, MaxJobs, MaxReserve, MaxFaults, MaxInbox

VARIABLES
    jobs, current, outbox, submitted,                               \* shared
    cursor, old, pc, job, uploaded, start, checking, scanned, late, \* MineLoop
    accepted, rejected, io, link, subscribed, inbox, pending,       \* Stratum
    session, origin, sent, lost, verdicts, faults

Loop == INSTANCE MineLoop
Net  == INSTANCE Stratum WITH Nonces <- Loop!Nonces

loopOnly == <<cursor, old, pc, job, uploaded, start, checking, scanned, late>>
netOnly  == <<accepted, rejected, io, link, subscribed, inbox, pending, session,
              origin, sent, lost, verdicts, faults>>
vars == <<jobs, current, outbox, submitted, loopOnly, netOnly>>

\* A verifier that resends the share it sent last when the channel is empty.
VerifyResends(c) ==
    /\ Loop!CheckCandidate(c)
    /\ outbox' = IF Loop!Hit(c) THEN outbox \o <<c, c>> ELSE outbox
    /\ UNCHANGED netOnly

-----------------------------------------------------------------------------
Init == Loop!Init /\ Net!Init

Mine(d) == Loop!DeviceStep(d) /\ UNCHANGED <<outbox, netOnly>>

\* The verifier thread: pool.submit puts a share that holds in the channel.
Verify(c) ==
    /\ Loop!CheckCandidate(c)
    /\ outbox' = IF Loop!Hit(c) THEN Append(outbox, c) ELSE outbox
    /\ UNCHANGED netOnly

Io   == Net!IoStep /\ UNCHANGED loopOnly
Peer == Net!PoolStep /\ UNCHANGED loopOnly
Tick == (\E j \in Loop!Instances : Loop!Age(j)) /\ UNCHANGED <<outbox, netOnly>>

Next ==
    \/ \E d \in Devices : Mine(d)
    \/ \E c \in checking : Verify(c)
    \/ Io
    \/ Peer
    \/ Tick

Fairness ==
    /\ \A d \in Devices : WF_vars(Mine(d))
    /\ \A c \in Loop!Share : WF_vars(Verify(c))
    /\ WF_vars(Io)
    /\ WF_vars(Net!TransportGivesUp /\ UNCHANGED loopOnly)

Spec == Init /\ [][Next]_vars /\ Fairness

-----------------------------------------------------------------------------
\* With the io thread of Stratum as its environment MineLoop does nothing it
\* could not do alone: it only ever sees a job published or taken back.
LoopImplemented == Loop!Init /\ [][Loop!Next]_(Loop!vars)

\* With the verifier threads of MineLoop as its users Stratum does nothing it
\* could not do alone: each share of a published instance is queued once.
NetImplemented == Net!Init /\ [][Net!Next]_(Net!vars)

\* Whatever the devices flag and the connection does, what is written to the
\* pool meets the target of the very job it is sent for and was scanned once.
WrittenSound == \A s \in sent : s \in scanned /\ Loop!Meets(s)

\* From the GPU to the pool: where the device flags what the hash says, each hit
\* of a pass that ended, one that just equals the target included, passes its
\* verifier thread and the channel and is written to a connection, or is one of
\* the shares, at most one per lost connection, whose write failed.
HitsDelivered ==
    \A s \in Loop!Share :
        (s \in scanned /\ Loop!Exact(s) /\ Loop!Meets(s)) ~> (s \in sent \union lost)

\* A device that has not failed takes up the job the pool shows, or a job with
\* its id, unless the pool shows another one first: also across a lost
\* connection, and when it sits in the pause of an old job.
JobTakenUp == Loop!JobTakenUp

\* While no job is shown the devices come to rest: when the job of a lost
\* connection is taken back each ends the pass it is in and then waits for the
\* job of the next session.
RestWithoutJob ==
    \A d \in Devices :
        (current = 0) ~> (current # 0 \/ pc[d] \in {"poll", "stopped"})
=============================================================================
