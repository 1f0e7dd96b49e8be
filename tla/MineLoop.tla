------------------------------ MODULE MineLoop ------------------------------
(***************************************************************************)
(* The mining threads of src/main.rs: one thread per device runs mine_loop *)
(* on the job the pool currently shows, reserves a nonce range of that job *)
(* for every GPU pass, and hands the candidates of the pass to a detached  *)
(* verifier thread that re-hashes them on the CPU and queues the shares.   *)
(*                                                                         *)
(* A job instance is an index into jobs: it stands for one Arc<Job>, so    *)
(* two announcements with the same job_id are two instances.  The io       *)
(* thread of the pool (module Stratum) appears here as the environment     *)
(* actions Announce and Withdraw.                                   *)
(***************************************************************************)
EXTENDS Naturals, Sequences, FiniteSets

CONSTANTS
    Devices,        \* the mining threads, one per GPU shard
    PerIter,        \* [Devices -> nonces one pass scans]
    Ids, Blobs,     \* job ids, and the inputs that are hashed with a nonce
    Targets,        \* the share targets the pool may ask for
    NonceSpace,     \* 2^64 in the code: nonces wrap around at it
    Pow,            \* [Blobs -> [0..NonceSpace-1 -> Nat]]: the CPU hash
    ExactOn,        \* inputs on which the GPU finds what the CPU does; on the
                    \* others it may flag anything
    Announcements,  \* the jobs a pool may announce
    MaxJobs,        \* bound: announcements per behaviour
    MaxReserve      \* bound: nonces ever reserved of one instance

Nonces == 0 .. NonceSpace - 1
Instances == 1 .. MaxJobs
Announcement == [id : Ids, blob : Blobs, target : Targets, extra : Nonces]
Share == [job : Instances, nonce : Nonces]

\* What the proofs and the model checker are told about the constants.
ASSUME ConstantsAssumption ==
    /\ PerIter \in [Devices -> Nat \ {0}]
    /\ NonceSpace \in Nat \ {0}
    /\ Targets \subseteq Nat
    /\ Pow \in [Blobs -> [Nonces -> Nat]]
    /\ ExactOn \subseteq Blobs
    /\ Announcements \subseteq Announcement
    /\ MaxJobs \in Nat
    /\ MaxReserve \in Nat
    /\ MaxReserve <= NonceSpace

VARIABLES
    jobs,       \* every instance published so far, in order
    cursor,     \* Job.nonce_cursor of each instance
    old,        \* instances received more than 300 s ago
    current,    \* Shared.current; 0 is None
    pc,         \* where each mining thread is
    job,        \* the Arc<Job> the thread works on; 0 outside the inner loop
    uploaded,   \* the instance whose input the device buffer holds
    start,      \* what reserve returned for the pass in flight, else 0
    checking,   \* candidates held by verifier threads
    scanned,    \* history: nonces whose pass has ended
    submitted,  \* history: every share put in the channel to the io thread
    late        \* history: passes begun on an instance no longer shown

devVars  == <<pc, job, uploaded, start>>
histVars == <<scanned, submitted, late>>
vars == <<jobs, cursor, old, current, pc, job, uploaded, start, checking,
          scanned, submitted, late>>

-----------------------------------------------------------------------------
\* Plausible bugs, each put in the place of the definition it resembles.

AddNoWrap(a, b) == a + b
AddSaturating(a, b) == IF a + b >= NonceSpace THEN NonceSpace - 1 ELSE a + b

\* No job counts as the same job.
SameIdOrNone(j) == IF current = 0 THEN TRUE ELSE jobs[current].id = jobs[j].id

\* The target of the job that is shown now, not of the candidate's own.
HitOfShownJob(s) == current # 0 /\ Pow[jobs[s.job].blob][s.nonce] <= jobs[current].target
HitStrict(s) == Pow[jobs[s.job].blob][s.nonce] < jobs[s.job].target

-----------------------------------------------------------------------------
\* u64::wrapping_add.
WrapAdd(a, b) == IF a + b >= NonceSpace THEN a + b - NonceSpace ELSE a + b

\* The nonce at offset o of the range of an instance, and the offset of a nonce.
\* run_stages adds the shard and the lane with a plain +, which wraps likewise
\* in the release build; a debug build panics where a pass itself crosses the end
\* of the space.
NonceAt(j, o) == WrapAdd(jobs[j].extra, o)
OffsetOf(j, n) == IF n >= jobs[j].extra THEN n - jobs[j].extra
                                        ELSE n + NonceSpace - jobs[j].extra

\* The comparison of mine_loop: job ids, not instances.
SameId(j) == current # 0 /\ jobs[current].id = jobs[j].id

\* A share the pool would take: the CPU hash meets the target of the job.
Hit(s) == Pow[jobs[s.job].blob][s.nonce] <= jobs[s.job].target

\* A thread stops scanning a job that is 300 s old; the bound MaxReserve
\* stands for the fact that it ages long before its range is used up.
Expired(d) == job[d] \in old \/ cursor[job[d]] + PerIter[d] > MaxReserve

\* The nonces of the pass in flight, and those the device may flag: with the
\* input it was given last it flags the ones that meet the target it was given.
PassShares(d) ==
    {[job |-> job[d], nonce |-> NonceAt(job[d], start[d] + i)] :
        i \in 0 .. PerIter[d] - 1}
Flagged(d) ==
    {s \in PassShares(d) :
        Pow[jobs[uploaded[d]].blob][s.nonce] <= jobs[s.job].target}

\* Plausible bugs of the actions.

\* A cursor that is not moved past the whole range, or not moved in one step.
ReserveShort(d) ==
    /\ start' = [start EXCEPT ![d] = cursor[job[d]]]
    /\ cursor' = [cursor EXCEPT ![job[d]] = @ + 1]
ReserveLost(d) ==
    /\ start' = [start EXCEPT ![d] = cursor[job[d]]]
    /\ cursor' = [cursor EXCEPT ![job[d]] =
                     IF \E e \in Devices \ {d} : pc[e] = "pass" /\ job[e] = job[d]
                     THEN @ ELSE @ + PerIter[d]]

\* The input is uploaded for the first job only.
TakeJobUploadOnce(d) ==
    /\ pc[d] = "poll"
    /\ current # 0
    /\ job' = [job EXCEPT ![d] = current]
    /\ uploaded' = [uploaded EXCEPT ![d] = IF @ = 0 THEN current ELSE @]
    /\ pc' = [pc EXCEPT ![d] = "check"]
    /\ UNCHANGED <<jobs, cursor, old, current, start, checking, histVars>>

\* The inner loop asks whether there is a job, not whether it is this one.
CheckAnyJob(d) ==
    /\ pc[d] = "check"
    /\ \/ /\ current # 0
          /\ pc' = [pc EXCEPT ![d] = "work"]
          /\ UNCHANGED job
       \/ /\ current = 0
          /\ pc' = [pc EXCEPT ![d] = "poll"]
          /\ job' = [job EXCEPT ![d] = 0]
    /\ UNCHANGED <<jobs, cursor, old, current, uploaded, start, checking, histVars>>

\* The pause of an old job does not look at the pool again.
PauseForGood(d) ==
    /\ pc[d] = "work"
    /\ Expired(d)
    /\ UNCHANGED vars

-----------------------------------------------------------------------------
Init ==
    /\ jobs = <<>>
    /\ cursor = [j \in Instances |-> 0]
    /\ old = {}
    /\ current = 0
    /\ pc = [d \in Devices |-> "poll"]
    /\ job = [d \in Devices |-> 0]
    /\ uploaded = [d \in Devices |-> 0]
    /\ start = [d \in Devices |-> 0]
    /\ checking = {}
    /\ scanned = {}
    /\ submitted = {}
    /\ late = [d \in Devices |-> [j \in Instances |-> 0]]

(* The environment: the io thread and the clock. *)

Announce(a) ==
    /\ Len(jobs) < MaxJobs
    /\ jobs' = Append(jobs, a)
    /\ current' = Len(jobs) + 1
    /\ UNCHANGED <<cursor, old, devVars, checking, histVars>>

Withdraw ==
    /\ current # 0
    /\ current' = 0
    /\ UNCHANGED <<jobs, cursor, old, devVars, checking, histVars>>

Age(j) ==
    /\ j \in 1 .. Len(jobs)
    /\ j \notin old
    /\ old' = old \union {j}
    /\ UNCHANGED <<jobs, cursor, current, devVars, checking, histVars>>

(* The mining thread of device d. *)

\* The outer loop: without a job the thread sleeps and polls again; with one it
\* uploads its input.
TakeJob(d) ==
    /\ pc[d] = "poll"
    /\ current # 0
    /\ job' = [job EXCEPT ![d] = current]
    /\ uploaded' = [uploaded EXCEPT ![d] = current]
    /\ pc' = [pc EXCEPT ![d] = "check"]
    /\ UNCHANGED <<jobs, cursor, old, current, start, checking, histVars>>

\* The condition of the inner loop.
CheckJob(d) ==
    /\ pc[d] = "check"
    /\ \/ /\ SameId(job[d])
          /\ pc' = [pc EXCEPT ![d] = "work"]
          /\ UNCHANGED job
       \/ /\ ~SameId(job[d])
          /\ pc' = [pc EXCEPT ![d] = "poll"]
          /\ job' = [job EXCEPT ![d] = 0]
    /\ UNCHANGED <<jobs, cursor, old, current, uploaded, start, checking, histVars>>

PauseOld(d) ==
    /\ pc[d] = "work"
    /\ Expired(d)
    /\ pc' = [pc EXCEPT ![d] = "check"]
    /\ UNCHANGED <<jobs, cursor, old, current, job, uploaded, start, checking,
                   histVars>>

\* Job.reserve: one fetch_add on the cursor all devices share.
Reserve(d) ==
    /\ start' = [start EXCEPT ![d] = cursor[job[d]]]
    /\ cursor' = [cursor EXCEPT ![job[d]] = @ + PerIter[d]]

Launch(d) ==
    /\ pc[d] = "work"
    /\ ~Expired(d)
    /\ Reserve(d)
    /\ pc' = [pc EXCEPT ![d] = "pass"]
    /\ late' = IF SameId(job[d]) THEN late
               ELSE [late EXCEPT ![d][job[d]] = @ + 1]
    /\ UNCHANGED <<jobs, old, current, job, uploaded, checking,
                   scanned, submitted>>

\* run_iteration returns: the candidates go to a verifier thread of their own.
EndPass(d) ==
    /\ pc[d] = "pass"
    /\ \E found \in IF jobs[job[d]].blob \in ExactOn THEN {Flagged(d)}
                                                  ELSE SUBSET PassShares(d) :
          checking' = checking \union found
    /\ scanned' = scanned \union PassShares(d)
    /\ start' = [start EXCEPT ![d] = 0]
    /\ pc' = [pc EXCEPT ![d] = "check"]
    /\ UNCHANGED <<jobs, cursor, old, current, job, uploaded, submitted, late>>

\* run_iteration fails: mine_loop returns its error and the thread ends.
StopDevice(d) ==
    /\ pc[d] = "pass"
    /\ pc' = [pc EXCEPT ![d] = "stopped"]
    /\ job' = [job EXCEPT ![d] = 0]
    /\ start' = [start EXCEPT ![d] = 0]
    /\ UNCHANGED <<jobs, cursor, old, current, uploaded, checking, histVars>>

(* The verifier threads: one candidate is re-hashed and, if it is a share,
   queued.  A pass lists its candidates in the order the lanes of the GPU
   found them, so the order in which they are taken is left open. *)
CheckCandidate(c) ==
    /\ c \in checking
    /\ checking' = checking \ {c}
    /\ submitted' = IF Hit(c) THEN submitted \union {c} ELSE submitted
    /\ UNCHANGED <<jobs, cursor, old, current, devVars, scanned, late>>

-----------------------------------------------------------------------------
DeviceStep(d) ==
    \/ TakeJob(d)
    \/ CheckJob(d)
    \/ PauseOld(d)
    \/ Launch(d)
    \/ EndPass(d)
    \/ StopDevice(d)

Environment ==
    \/ \E a \in Announcements : Announce(a)
    \/ Withdraw
    \/ \E j \in Instances : Age(j)

Next ==
    \/ \E d \in Devices : DeviceStep(d)
    \/ \E c \in checking : CheckCandidate(c)
    \/ Environment

\* Every thread is scheduled and a pass returns; nothing is asked of the pool.
Fairness ==
    /\ \A d \in Devices : WF_vars(DeviceStep(d))
    /\ \A c \in Share : WF_vars(CheckCandidate(c))

Spec == Init /\ [][Next]_vars /\ Fairness

-----------------------------------------------------------------------------
\* Every variable has the type its declaration names, and a thread that is
\* past the outer poll holds a published instance.
TypeOK ==
    /\ jobs \in Seq(Announcements)
    /\ Len(jobs) <= MaxJobs
    /\ cursor \in [Instances -> Nat]
    /\ old \subseteq 1 .. Len(jobs)
    /\ current \in 0 .. Len(jobs)
    /\ pc \in [Devices -> {"poll", "check", "work", "pass", "stopped"}]
    /\ job \in [Devices -> 0 .. Len(jobs)]
    /\ uploaded \in [Devices -> 0 .. Len(jobs)]
    /\ start \in [Devices -> Nat]
    /\ checking \subseteq Share
    /\ scanned \subseteq Share
    /\ submitted \subseteq Share
    /\ late \in [Devices -> [Instances -> Nat]]
    /\ \A d \in Devices : job[d] = 0 <=> pc[d] \in {"poll", "stopped"}
    /\ \A s \in checking \union scanned \union submitted : s.job <= Len(jobs)

\* Meets(s): the pool's own test of a share of an instance.
Meets(s) == Pow[jobs[s.job].blob][s.nonce] <= jobs[s.job].target

\* Exact(s): the GPU and the CPU agree on the input of the share.
Exact(s) == jobs[s.job].blob \in ExactOn

\* Whatever the device flagged and however the job changed meanwhile, a share
\* that is sent meets the target of the very job it is sent for, with the
\* input of that job, and lies in the range reserved of it.
SharesSound ==
    \A s \in submitted : Meets(s) /\ OffsetOf(s.job, s.nonce) < cursor[s.job]

\* reserve hands every nonce of an instance to one pass of one device: passes
\* in flight share no nonce, also across the wrap-around of extra_nonce +
\* cursor, and none of them scans what an earlier pass has scanned.
NoNonceTwice ==
    \A d \in Devices : pc[d] = "pass" =>
        /\ PassShares(d) \cap scanned = {}
        /\ \A e \in Devices \ {d} : pc[e] = "pass" =>
              PassShares(d) \cap PassShares(e) = {}

\* A share is queued at most once: no verifier thread still has to look at a
\* nonce of an instance for which a share has been sent.
NoResubmit == checking \cap submitted = {}

\* Of an input on which the device flags what the hash says no share is lost
\* between the GPU and the channel, also when the job changed during the pass
\* and the device worked on an input it gets wrong before.
HitsAccounted ==
    \A s \in scanned : Exact(s) /\ Meets(s) => s \in checking \union submitted

\* An instance whose id no other published instance has.
UniqueId(j) == \A k \in 1 .. Len(jobs) \ {j} : jobs[k].id # jobs[j].id

\* The look at the pool and the launch are not one step, so work on a job that
\* is no longer shown happens; each device wastes at most one pass per job so.
OneLatePass ==
    \A d \in Devices : \A j \in 1 .. Len(jobs) : UniqueId(j) => late[d][j] <= 1

\* A device that has not failed takes up the job the pool shows, or a job with
\* its id, unless the pool shows another one first; also when it sits in the
\* pause of an old job.
JobTakenUp ==
    \A d \in Devices : \A j \in Instances :
        (current = j) ~> \/ current # j
                         \/ pc[d] = "stopped"
                         \/ job[d] # 0 /\ jobs[job[d]].id = jobs[j].id

\* The claims behind the ledger: what the cursors have passed, and the ranges
\* of the passes in flight.
Claimed == {s \in Share : s.job <= Len(jobs) /\ OffsetOf(s.job, s.nonce) < cursor[s.job]}
Searching == [d \in Devices |-> IF pc[d] = "pass" THEN PassShares(d) ELSE {}]

Ledger == INSTANCE ShareLedger WITH
    claimed <- Claimed, searching <- Searching, searched <- scanned,
    recorded <- submitted

\* The threads keep the promise of ShareLedger: a reservation claims exactly
\* the nonces the pass then searches, and no two reservations overlap.
KeepsLedger == Ledger!Spec
=============================================================================
