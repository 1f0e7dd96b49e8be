---------------------------- MODULE MinerProofs -----------------------------
(***************************************************************************)
(* Proofs about the mining threads and about the whole miner, for every    *)
(* number of devices and jobs, every pass size, hash and announcement.     *)
(*                                                                         *)
(* First MineLoop on its own: its safety properties, and that it keeps the *)
(* ledger of ShareLedger.  Then VulkMiner: each part of the composition    *)
(* does only what it may do alone, so that what is proved of MineLoop and  *)
(* of Stratum holds of the whole miner.  The variables of MineLoop are the *)
(* ones of VulkMiner with the same names; V!Loop is MineLoop again, as the *)
(* composition sees it, and V!Net is Stratum.                              *)
(***************************************************************************)
EXTENDS MineLoop, CountingProofs

-----------------------------------------------------------------------------
\* The mining threads.

\* An announced job is a record with a first nonce in the nonce space.
LEMMA JobType ==
    ASSUME TypeOK, NEW j \in 1 .. Len(jobs)
    PROVE  /\ jobs[j] \in Announcement
           /\ jobs[j].extra \in Nonces
           /\ jobs[j].blob \in Blobs
           /\ jobs[j].target \in Nat
           /\ j \in Instances
<1>1. jobs[j] \in Announcements
  BY DEF TypeOK
<1>2. jobs[j] \in Announcement
  BY <1>1, ConstantsAssumption
<1>3. j \in Instances
  BY ConstantsAssumption DEF TypeOK, Instances
<1> QED
  BY <1>2, <1>3, ConstantsAssumption DEF Announcement

\* Wrapping addition of an offset below the size of the nonce space can be
\* undone: it joins no two offsets.
LEMMA WrapInverse ==
    ASSUME NEW x \in Nonces, NEW o \in Nat, o < NonceSpace
    PROVE  /\ WrapAdd(x, o) \in Nonces
           /\ o = IF WrapAdd(x, o) >= x THEN WrapAdd(x, o) - x
                                        ELSE WrapAdd(x, o) + NonceSpace - x
BY ConstantsAssumption DEF Nonces, WrapAdd

\* The nonce at an offset is a nonce, and the offset is found again.
LEMMA NonceAtOffset ==
    ASSUME TypeOK, NEW j \in 1 .. Len(jobs), NEW o \in Nat, o < NonceSpace
    PROVE  NonceAt(j, o) \in Nonces /\ OffsetOf(j, NonceAt(j, o)) = o
BY JobType, WrapInverse DEF NonceAt, OffsetOf

\* A nonce has an offset in the nonce space.
LEMMA OffsetType ==
    ASSUME TypeOK, NEW j \in 1 .. Len(jobs), NEW n \in Nonces
    PROVE  OffsetOf(j, n) \in Nat /\ OffsetOf(j, n) < NonceSpace
<1>1. jobs[j].extra \in Nonces
  BY JobType
<1> QED
  BY <1>1, ConstantsAssumption DEF Nonces, OffsetOf

\* What PassShares holds when the range in flight lies within the bound: shares
\* of the device's instance, at the offsets of the range.
LEMMA PassSharesOffsets ==
    ASSUME TypeOK, NEW d \in Devices, job[d] # 0,
           start[d] + PerIter[d] <= MaxReserve, NEW s \in PassShares(d)
    PROVE  /\ s \in Share
           /\ s.job = job[d]
           /\ start[d] <= OffsetOf(s.job, s.nonce)
           /\ OffsetOf(s.job, s.nonce) < start[d] + PerIter[d]
<1>1. PICK i \in 0 .. PerIter[d] - 1 :
        s = [job |-> job[d], nonce |-> NonceAt(job[d], start[d] + i)]
  BY DEF PassShares
<1>2. PerIter[d] \in Nat /\ start[d] \in Nat /\ MaxReserve <= NonceSpace
      /\ MaxReserve \in Nat /\ NonceSpace \in Nat
  BY ConstantsAssumption DEF TypeOK
<1>3. start[d] + i \in Nat /\ start[d] + i < NonceSpace
      /\ start[d] <= start[d] + i /\ start[d] + i < start[d] + PerIter[d]
  BY <1>2
<1>4. job[d] \in 1 .. Len(jobs)
  BY DEF TypeOK
<1>5. job[d] \in Instances
  BY <1>4, JobType
<1>6. /\ NonceAt(job[d], start[d] + i) \in Nonces
      /\ OffsetOf(job[d], NonceAt(job[d], start[d] + i)) = start[d] + i
  BY <1>3, <1>4, NonceAtOffset
<1> QED
  BY <1>1, <1>3, <1>5, <1>6 DEF Share

-----------------------------------------------------------------------------
\* The range of a pass in flight has been reserved, and every reservation
\* stays within the bound on the cursor.
PassReserved ==
    /\ \A j \in Instances : cursor[j] <= MaxReserve
    /\ \A d \in Devices : pc[d] = "pass" => start[d] + PerIter[d] <= cursor[job[d]]

\* The ranges of two passes in flight on one instance lie apart.
RangesApart ==
    \A d, e \in Devices :
        pc[d] = "pass" /\ pc[e] = "pass" /\ d # e /\ job[d] = job[e] =>
            \/ start[d] + PerIter[d] <= start[e]
            \/ start[e] + PerIter[e] <= start[d]

\* What has been scanned lies below the cursor and outside the ranges in flight.
ScannedApart ==
    \A s \in scanned :
        /\ OffsetOf(s.job, s.nonce) < cursor[s.job]
        /\ \A d \in Devices : pc[d] = "pass" /\ job[d] = s.job =>
              \/ OffsetOf(s.job, s.nonce) < start[d]
              \/ start[d] + PerIter[d] <= OffsetOf(s.job, s.nonce)

\* Candidates and shares come from scanned ranges, each is one or the other,
\* and a share has passed the check.
CandidatesApart ==
    /\ checking \union submitted \subseteq scanned
    /\ checking \cap submitted = {}
    /\ \A s \in submitted : Meets(s)

\* The device buffer holds the input of the instance the thread works on.
InputCurrent == \A d \in Devices : job[d] # 0 => uploaded[d] = job[d]

IndInv == /\ TypeOK
          /\ PassReserved
          /\ RangesApart
          /\ ScannedApart
          /\ CandidatesApart
          /\ InputCurrent
          /\ HitsAccounted

-----------------------------------------------------------------------------
\* The initial state has the types.
LEMMA TypeInit == Init => TypeOK
<1> SUFFICES ASSUME Init PROVE TypeOK
  OBVIOUS
<1> QED
  BY ConstantsAssumption DEF Init, TypeOK, Instances

\* What the nonces of a pass are is known to the type invariant only where the
\* range is reserved.
LEMMA TypeNext == TypeOK /\ PassReserved /\ [Next]_vars => TypeOK'
<1> SUFFICES ASSUME TypeOK, PassReserved, [Next]_vars PROVE TypeOK'
  OBVIOUS
<1> USE ConstantsAssumption
<1>1. ASSUME NEW a \in Announcements, Announce(a) PROVE TypeOK'
  <2>1. /\ jobs' \in Seq(Announcements)
        /\ Len(jobs') = Len(jobs) + 1
        /\ Len(jobs) \in Nat
    BY <1>1 DEF Announce, TypeOK
  <2>2. /\ Len(jobs') <= MaxJobs
        /\ current' \in 0 .. Len(jobs')
        /\ old' \subseteq 1 .. Len(jobs')
    BY <1>1, <2>1 DEF Announce, TypeOK
  <2>3. job' \in [Devices -> 0 .. Len(jobs')] /\ uploaded' \in [Devices -> 0 .. Len(jobs')]
    BY <1>1, <2>1 DEF Announce, TypeOK, devVars
  <2>4. \A s \in checking' \union scanned' \union submitted' : s.job <= Len(jobs')
    <3> SUFFICES ASSUME NEW s \in checking \union scanned \union submitted
                 PROVE  s.job <= Len(jobs')
      BY <1>1 DEF Announce, histVars
    <3>1. s.job <= Len(jobs) /\ s.job \in Nat
      BY DEF TypeOK, Share, Instances
    <3> QED
      BY <3>1, <2>1
  <2>5. \A d \in Devices : job'[d] = 0 <=> pc'[d] \in {"poll", "stopped"}
    BY <1>1 DEF Announce, TypeOK, devVars
  <2> QED
    BY <1>1, <2>1, <2>2, <2>3, <2>4, <2>5 DEF Announce, TypeOK, devVars, histVars
<1>2. ASSUME Withdraw PROVE TypeOK'
  BY <1>2 DEF Withdraw, TypeOK, devVars, histVars
<1>3. ASSUME NEW j \in Instances, Age(j) PROVE TypeOK'
  BY <1>3 DEF Age, TypeOK, devVars, histVars
<1>4. ASSUME NEW d \in Devices, TakeJob(d) PROVE TypeOK'
  BY <1>4 DEF TakeJob, TypeOK, histVars
<1>5. ASSUME NEW d \in Devices, CheckJob(d) PROVE TypeOK'
  <2>1. CASE SameId(job[d])
    BY <1>5, <2>1 DEF CheckJob, TypeOK, histVars
  <2>2. CASE ~SameId(job[d])
    <3>1. /\ pc' = [pc EXCEPT ![d] = "poll"] /\ job' = [job EXCEPT ![d] = 0]
          /\ UNCHANGED <<jobs, cursor, old, current, uploaded, start, checking, histVars>>
      BY <1>5, <2>2 DEF CheckJob
    <3>2. \A e \in Devices : job'[e] = 0 <=> pc'[e] \in {"poll", "stopped"}
      BY <3>1 DEF TypeOK
    <3>3. /\ job' \in [Devices -> 0 .. Len(jobs)]
          /\ pc' \in [Devices -> {"poll", "check", "work", "pass", "stopped"}]
      BY <3>1 DEF TypeOK
    <3> QED
      BY <3>1, <3>2, <3>3 DEF TypeOK, histVars
  <2> QED
    BY <2>1, <2>2
<1>6. ASSUME NEW d \in Devices, PauseOld(d) PROVE TypeOK'
  BY <1>6 DEF PauseOld, TypeOK, histVars
<1>7. ASSUME NEW d \in Devices, Launch(d) PROVE TypeOK'
  <2>a. pc[d] = "work"
    BY <1>7 DEF Launch
  <2>b. job[d] # 0
    BY <2>a DEF TypeOK
  <2>c. job[d] \in 0 .. Len(jobs) /\ Len(jobs) \in Nat
    BY DEF TypeOK
  <2>0. job[d] \in 1 .. Len(jobs)
    BY <2>b, <2>c
  <2>1. job[d] \in Instances
    BY <2>0, JobType
  <2>2. /\ start' \in [Devices -> Nat]
        /\ cursor' \in [Instances -> Nat]
        /\ pc' \in [Devices -> {"poll", "check", "work", "pass", "stopped"}]
    BY <1>7, <2>1 DEF Launch, Reserve, TypeOK
  <2>3. late' \in [Devices -> [Instances -> Nat]]
    BY <1>7, <2>1 DEF Launch, TypeOK
  <2> QED
    BY <1>7, <2>2, <2>3 DEF Launch, TypeOK
<1>8. ASSUME NEW d \in Devices, EndPass(d) PROVE TypeOK'
  <2>1. job[d] # 0 /\ job[d] \in 1 .. Len(jobs)
    <3>1. pc[d] \notin {"poll", "stopped"}
      BY <1>8 DEF EndPass
    <3>2. job[d] # 0
      BY <3>1 DEF TypeOK
    <3>3. job[d] \in 0 .. Len(jobs) /\ Len(jobs) \in Nat
      BY DEF TypeOK
    <3> QED
      BY <3>2, <3>3
  <2>2. start[d] + PerIter[d] <= MaxReserve
    <3>1. job[d] \in Instances
      BY <2>1, JobType
    <3> QED
      BY <1>8, <3>1 DEF EndPass, PassReserved, TypeOK
  <2>3. \A s \in PassShares(d) : s \in Share /\ s.job <= Len(jobs)
    BY <2>1, <2>2, PassSharesOffsets
  <2>4. PICK found \in SUBSET PassShares(d) : checking' = checking \union found
    BY <1>8 DEF EndPass, Flagged
  <2> QED
    BY <1>8, <2>3, <2>4 DEF EndPass, TypeOK
<1>9. ASSUME NEW d \in Devices, StopDevice(d) PROVE TypeOK'
  BY <1>9 DEF StopDevice, TypeOK, histVars
<1>10. ASSUME NEW c \in checking, CheckCandidate(c) PROVE TypeOK'
  BY <1>10 DEF CheckCandidate, TypeOK, devVars
<1>11. ASSUME UNCHANGED vars PROVE TypeOK'
  BY <1>11 DEF vars, TypeOK
<1> QED
  BY <1>1, <1>2, <1>3, <1>4, <1>5, <1>6, <1>7, <1>8, <1>9, <1>10, <1>11
     DEF Next, DeviceStep, Environment

-----------------------------------------------------------------------------
\* The steps that neither reserve nor end a pass nor check a candidate: the
\* passes that go on are passes that were there, and no published job changes.
Quiet ==
    /\ UNCHANGED <<cursor, checking, scanned, submitted>>
    /\ \A d \in Devices : pc'[d] = "pass" =>
          pc[d] = "pass" /\ job'[d] = job[d] /\ start'[d] = start[d]
    /\ Len(jobs') >= Len(jobs)
    /\ \A j \in 1 .. Len(jobs) : jobs'[j] = jobs[j]

\* A step is quiet, or launches or ends a pass, or checks a candidate.
LEMMA StepKinds ==
    ASSUME TypeOK, [Next]_vars
    PROVE  \/ Quiet
           \/ \E d \in Devices : Launch(d) \/ EndPass(d)
           \/ \E c \in checking : CheckCandidate(c)
<1>1. ASSUME NEW a \in Announcements, Announce(a) PROVE Quiet
  <2>1. /\ Len(jobs') = Len(jobs) + 1 /\ Len(jobs) \in Nat
        /\ \A j \in 1 .. Len(jobs) : jobs'[j] = jobs[j]
    BY <1>1 DEF Announce, TypeOK
  <2> QED
    BY <1>1, <2>1 DEF Announce, Quiet, devVars, histVars
<1>2. Len(jobs) \in Nat
  BY DEF TypeOK
<1>3. Withdraw => Quiet
  BY <1>2 DEF Withdraw, Quiet, devVars, histVars
<1>4. ASSUME NEW j \in Instances, Age(j) PROVE Quiet
  BY <1>2, <1>4 DEF Age, Quiet, devVars, histVars
<1>5. ASSUME NEW d \in Devices, TakeJob(d) PROVE Quiet
  BY <1>2, <1>5 DEF TakeJob, Quiet, TypeOK, histVars
<1>6. ASSUME NEW d \in Devices, CheckJob(d) PROVE Quiet
  BY <1>2, <1>6 DEF CheckJob, Quiet, TypeOK, histVars
<1>7. ASSUME NEW d \in Devices, PauseOld(d) PROVE Quiet
  BY <1>2, <1>7 DEF PauseOld, Quiet, TypeOK, histVars
<1>8. ASSUME NEW d \in Devices, StopDevice(d) PROVE Quiet
  BY <1>2, <1>8 DEF StopDevice, Quiet, TypeOK, histVars
<1>9. UNCHANGED vars => Quiet
  BY <1>2 DEF vars, Quiet
<1> QED
  BY <1>1, <1>3, <1>4, <1>5, <1>6, <1>7, <1>8, <1>9
     DEF Next, DeviceStep, Environment

\* What Launch does to the pass of its own device and to the cursor.
LEMMA LaunchEffect ==
    ASSUME TypeOK, NEW d \in Devices, Launch(d)
    PROVE  /\ job[d] \in Instances
           /\ start'[d] = cursor[job[d]]
           /\ cursor'[job[d]] = cursor[job[d]] + PerIter[d]
           /\ cursor[job[d]] + PerIter[d] <= MaxReserve
           /\ cursor[job[d]] \in Nat /\ PerIter[d] \in Nat \ {0}
           /\ \A j \in Instances \ {job[d]} : cursor'[j] = cursor[j]
           /\ \A e \in Devices \ {d} : pc'[e] = pc[e] /\ start'[e] = start[e]
           /\ pc'[d] = "pass"
           /\ UNCHANGED <<jobs, job, checking, scanned, submitted>>
<1>1. pc[d] \notin {"poll", "stopped"}
  BY DEF Launch
<1>2. job[d] # 0 /\ job[d] \in 0 .. Len(jobs) /\ Len(jobs) \in Nat
  BY <1>1 DEF TypeOK
<1>3. job[d] \in Instances
  BY <1>2, JobType
<1>4. cursor[job[d]] \in Nat /\ PerIter[d] \in Nat \ {0}
  BY <1>3, ConstantsAssumption DEF TypeOK
<1>5. cursor[job[d]] + PerIter[d] <= MaxReserve
  BY <1>4, ConstantsAssumption DEF Launch, Expired
<1> QED
  BY <1>3, <1>4, <1>5 DEF Launch, Reserve, TypeOK

\* What EndPass leaves in flight.
LEMMA EndPassEffect ==
    ASSUME TypeOK, NEW d \in Devices, EndPass(d)
    PROVE  /\ pc[d] = "pass" /\ pc'[d] = "check"
           /\ job[d] # 0
           /\ \A e \in Devices \ {d} : pc'[e] = pc[e] /\ start'[e] = start[e]
           /\ scanned' = scanned \union PassShares(d)
           /\ UNCHANGED <<jobs, cursor, job, uploaded, submitted>>
<1>1. pc[d] = "pass"
  BY DEF EndPass
<1>2. pc[d] \notin {"poll", "stopped"}
  BY <1>1
<1>3. job[d] # 0
  BY <1>2 DEF TypeOK
<1> QED
  BY <1>1, <1>3 DEF EndPass, TypeOK

-----------------------------------------------------------------------------
\* Every step keeps the range in flight below the cursor it was drawn from.
LEMMA PassReservedNext ==
    ASSUME TypeOK, PassReserved, [Next]_vars PROVE PassReserved'
<1> USE ConstantsAssumption
<1>1. CASE Quiet
  BY <1>1 DEF Quiet, PassReserved
<1>2. ASSUME NEW d \in Devices, Launch(d) PROVE PassReserved'
  <2>1. ASSUME NEW j \in Instances PROVE cursor'[j] <= MaxReserve
    BY <1>2, LaunchEffect DEF PassReserved
  <2>2. ASSUME NEW e \in Devices, pc'[e] = "pass"
        PROVE  start'[e] + PerIter[e] <= cursor'[job'[e]]
    <3>1. CASE e = d
      BY <1>2, <3>1, LaunchEffect
    <3>2. CASE e # d
      <4>1. pc[e] = "pass" /\ start'[e] = start[e] /\ job'[e] = job[e]
        BY <1>2, <2>2, <3>2, LaunchEffect
      <4>2. pc[e] \notin {"poll", "stopped"}
        BY <4>1
      <4>3. job[e] # 0 /\ job[e] \in 0 .. Len(jobs) /\ Len(jobs) \in Nat
        BY <4>2 DEF TypeOK
      <4>4. job[e] \in Instances
        BY <4>3, JobType
      <4>5. start[e] + PerIter[e] <= cursor[job[e]]
        BY <4>1 DEF PassReserved
      <4>6. /\ start[e] \in Nat /\ PerIter[e] \in Nat
            /\ cursor[job[e]] \in Nat
        BY <4>4 DEF TypeOK
      <4>7. cursor'[job[e]] \in Nat /\ cursor'[job[e]] >= cursor[job[e]]
        BY <1>2, <4>4, <4>6, LaunchEffect
      <4> QED
        BY <4>1, <4>5, <4>6, <4>7
    <3> QED
      BY <3>1, <3>2
  <2> QED
    BY <2>1, <2>2 DEF PassReserved
<1>3. ASSUME NEW d \in Devices, EndPass(d) PROVE PassReserved'
  BY <1>3, EndPassEffect DEF PassReserved
<1>4. ASSUME NEW c \in checking, CheckCandidate(c) PROVE PassReserved'
  BY <1>4 DEF CheckCandidate, PassReserved, devVars
<1> QED
  BY <1>1, <1>2, <1>3, <1>4, StepKinds

\* Every step keeps the ranges in flight of one instance apart.
LEMMA RangesApartNext ==
    ASSUME TypeOK, PassReserved, RangesApart, [Next]_vars PROVE RangesApart'
<1> USE ConstantsAssumption
<1>1. CASE Quiet
  BY <1>1 DEF Quiet, RangesApart
<1>2. ASSUME NEW d \in Devices, Launch(d) PROVE RangesApart'
  <2>1. ASSUME NEW e \in Devices, e # d, pc'[e] = "pass", job'[e] = job'[d]
        PROVE  start'[e] + PerIter[e] <= start'[d]
    BY <1>2, <2>1, LaunchEffect DEF PassReserved
  <2>2. ASSUME NEW e \in Devices, NEW f \in Devices, e # d, f # d, e # f,
               pc'[e] = "pass", pc'[f] = "pass", job'[e] = job'[f]
        PROVE  \/ start'[e] + PerIter[e] <= start'[f]
               \/ start'[f] + PerIter[f] <= start'[e]
    BY <1>2, <2>2, LaunchEffect DEF RangesApart
  <2> QED
    BY <2>1, <2>2 DEF RangesApart
<1>3. ASSUME NEW d \in Devices, EndPass(d) PROVE RangesApart'
  <2>1. /\ \A e \in Devices : pc'[e] = "pass" => e # d
        /\ UNCHANGED job
    BY <1>3, EndPassEffect
  <2> QED
    BY <1>3, <2>1, EndPassEffect DEF RangesApart
<1>4. ASSUME NEW c \in checking, CheckCandidate(c) PROVE RangesApart'
  BY <1>4 DEF CheckCandidate, RangesApart, devVars
<1> QED
  BY <1>1, <1>2, <1>3, <1>4, StepKinds

-----------------------------------------------------------------------------
\* A pass in flight works on a published instance, within the bound.
LEMMA PassBasics ==
    ASSUME TypeOK, PassReserved, NEW d \in Devices, pc[d] = "pass"
    PROVE  /\ job[d] # 0 /\ job[d] \in 1 .. Len(jobs) /\ job[d] \in Instances
           /\ start[d] \in Nat /\ PerIter[d] \in Nat \ {0}
           /\ start[d] + PerIter[d] <= cursor[job[d]]
           /\ start[d] + PerIter[d] <= MaxReserve
<1>1. pc[d] \notin {"poll", "stopped"}
  OBVIOUS
<1>a. job[d] # 0
  BY <1>1 DEF TypeOK
<1>2. job[d] # 0 /\ job[d] \in 0 .. Len(jobs) /\ Len(jobs) \in Nat
  BY <1>a DEF TypeOK
<1>3. job[d] \in Instances /\ job[d] \in 1 .. Len(jobs)
  BY <1>2, JobType
<1>4. start[d] \in Nat /\ PerIter[d] \in Nat \ {0}
      /\ cursor[job[d]] \in Nat /\ MaxReserve \in Nat
  BY <1>3, ConstantsAssumption DEF TypeOK
<1> QED
  BY <1>2, <1>3, <1>4 DEF PassReserved

\* The offsets of what has been scanned do not move when a job is published.
LEMMA ScannedOffset ==
    ASSUME TypeOK, NEW s \in scanned,
           Len(jobs') >= Len(jobs), \A j \in 1 .. Len(jobs) : jobs'[j] = jobs[j]
    PROVE  /\ s.job \in 1 .. Len(jobs) /\ s.job \in Instances /\ s.nonce \in Nonces
           /\ OffsetOf(s.job, s.nonce) \in Nat
           /\ OffsetOf(s.job, s.nonce)' = OffsetOf(s.job, s.nonce)
           /\ Meets(s)' = Meets(s)
<1>1. s \in Share /\ s.job <= Len(jobs)
  BY DEF TypeOK
<1>2. s.job \in Nat \ {0} /\ s.job \in Instances /\ s.nonce \in Nonces
  BY <1>1 DEF Share, Instances
<1>3. s.job \in 1 .. Len(jobs)
  BY <1>1, <1>2 DEF TypeOK
<1>4. jobs'[s.job] = jobs[s.job]
  BY <1>3
<1> QED
  BY <1>2, <1>3, <1>4, OffsetType DEF OffsetOf, Meets

\* A pass in flight has none of the nonces already scanned.
LEMMA PassFresh ==
    ASSUME TypeOK, PassReserved, ScannedApart, NEW d \in Devices, pc[d] = "pass"
    PROVE  PassShares(d) \cap scanned = {}
<1> SUFFICES ASSUME NEW s \in PassShares(d), s \in scanned PROVE FALSE
  OBVIOUS
<1>1. /\ s \in Share /\ s.job = job[d]
      /\ start[d] <= OffsetOf(s.job, s.nonce)
      /\ OffsetOf(s.job, s.nonce) < start[d] + PerIter[d]
  BY PassBasics, PassSharesOffsets
<1>2. \/ OffsetOf(s.job, s.nonce) < start[d]
      \/ start[d] + PerIter[d] <= OffsetOf(s.job, s.nonce)
  BY <1>1 DEF ScannedApart
<1>3. OffsetOf(s.job, s.nonce) \in Nat
  BY <1>1, PassBasics, OffsetType DEF Share
<1>4. start[d] \in Nat /\ PerIter[d] \in Nat
  BY PassBasics
<1> QED
  BY <1>1, <1>2, <1>3, <1>4

\* Every step keeps what was scanned below the cursor and apart from what is in
\* flight.
LEMMA ScannedApartNext ==
    ASSUME TypeOK, PassReserved, RangesApart, ScannedApart, [Next]_vars
    PROVE  ScannedApart'
<1> USE ConstantsAssumption
<1> DEFINE Off(s) == OffsetOf(s.job, s.nonce)
<1>1. CASE Quiet
  <2> SUFFICES ASSUME NEW s \in scanned
               PROVE  /\ Off(s)' < cursor'[s.job]
                      /\ \A d \in Devices : pc'[d] = "pass" /\ job'[d] = s.job =>
                            Off(s)' < start'[d] \/ start'[d] + PerIter[d] <= Off(s)'
    BY <1>1 DEF Quiet, ScannedApart
  <2>1. Off(s)' = Off(s)
    BY <1>1, ScannedOffset DEF Quiet
  <2> QED
    BY <1>1, <2>1 DEF Quiet, ScannedApart
<1>2. ASSUME NEW d \in Devices, Launch(d) PROVE ScannedApart'
  <2> SUFFICES ASSUME NEW s \in scanned
               PROVE  /\ Off(s)' < cursor'[s.job]
                      /\ \A e \in Devices : pc'[e] = "pass" /\ job'[e] = s.job =>
                            Off(s)' < start'[e] \/ start'[e] + PerIter[e] <= Off(s)'
    BY <1>2, LaunchEffect DEF ScannedApart
  <2>1. UNCHANGED jobs /\ Len(jobs) \in Nat
    BY <1>2, LaunchEffect DEF TypeOK
  <2>2. Off(s)' = Off(s) /\ Off(s) \in Nat /\ s.job \in Instances
    BY <2>1, ScannedOffset
  <2>3. Off(s) < cursor[s.job] /\ cursor[s.job] \in Nat
    BY <2>2 DEF ScannedApart, TypeOK
  <2>4. cursor'[s.job] \in Nat /\ cursor[s.job] <= cursor'[s.job]
    BY <1>2, <2>2, <2>3, LaunchEffect
  <2>5. ASSUME NEW e \in Devices, pc'[e] = "pass", job'[e] = s.job
        PROVE  Off(s)' < start'[e] \/ start'[e] + PerIter[e] <= Off(s)'
    <3>1. CASE e = d
      BY <1>2, <2>2, <2>3, <2>5, <3>1, LaunchEffect
    <3>2. CASE e # d
      BY <1>2, <2>2, <2>5, <3>2, LaunchEffect DEF ScannedApart
    <3> QED
      BY <3>1, <3>2
  <2> QED
    BY <2>2, <2>3, <2>4, <2>5
<1>3. ASSUME NEW d \in Devices, EndPass(d) PROVE ScannedApart'
  <2> SUFFICES ASSUME NEW s \in scanned \union PassShares(d)
               PROVE  /\ Off(s)' < cursor[s.job]
                      /\ \A e \in Devices : pc'[e] = "pass" /\ job[e] = s.job =>
                            Off(s)' < start'[e] \/ start'[e] + PerIter[e] <= Off(s)'
    BY <1>3, EndPassEffect DEF ScannedApart
  <2>1. Off(s)' = Off(s)
    BY <1>3, EndPassEffect DEF OffsetOf
  <2>2. CASE s \in scanned
    BY <1>3, <2>1, <2>2, EndPassEffect DEF ScannedApart
  <2>3. CASE s \in PassShares(d)
    <3>1. pc[d] = "pass"
      BY <1>3, EndPassEffect
    <3>2. /\ job[d] \in 1 .. Len(jobs) /\ job[d] \in Instances
          /\ start[d] \in Nat /\ PerIter[d] \in Nat
          /\ start[d] + PerIter[d] <= cursor[job[d]]
      BY <3>1, PassBasics
    <3>3. /\ s \in Share /\ s.job = job[d]
          /\ start[d] <= Off(s) /\ Off(s) < start[d] + PerIter[d]
      BY <2>3, <3>1, PassBasics, PassSharesOffsets
    <3>4. Off(s) \in Nat /\ cursor[job[d]] \in Nat
      BY <3>2, <3>3, OffsetType DEF Share, TypeOK
    <3>5. Off(s) < cursor[s.job]
      BY <3>2, <3>3, <3>4
    <3>6. ASSUME NEW e \in Devices, pc'[e] = "pass", job[e] = s.job
          PROVE  Off(s) < start'[e] \/ start'[e] + PerIter[e] <= Off(s)
      <4>1. e # d /\ pc[e] = "pass" /\ start'[e] = start[e]
        BY <1>3, <3>6, EndPassEffect
      <4>2. start[e] \in Nat /\ PerIter[e] \in Nat
        BY <4>1, PassBasics
      <4>3. \/ start[d] + PerIter[d] <= start[e]
            \/ start[e] + PerIter[e] <= start[d]
        BY <3>1, <3>3, <3>6, <4>1 DEF RangesApart
      <4> QED
        BY <3>2, <3>3, <3>4, <4>1, <4>2, <4>3
    <3> QED
      BY <2>1, <3>5, <3>6
  <2> QED
    BY <2>2, <2>3
<1>4. ASSUME NEW c \in checking, CheckCandidate(c) PROVE ScannedApart'
  BY <1>4 DEF CheckCandidate, ScannedApart, OffsetOf, devVars
<1> QED
  BY <1>1, <1>2, <1>3, <1>4, StepKinds

\* Every step keeps the candidates and the shares scanned, the shares sound and
\* the two sets disjoint.
LEMMA CandidatesApartNext ==
    ASSUME TypeOK, PassReserved, ScannedApart, CandidatesApart, [Next]_vars
    PROVE  CandidatesApart'
<1>1. CASE Quiet
  <2>1. ASSUME NEW s \in submitted PROVE Meets(s)'
    <3>1. s \in scanned /\ Meets(s)
      BY DEF CandidatesApart
    <3> QED
      BY <1>1, <3>1, ScannedOffset DEF Quiet
  <2> QED
    BY <1>1, <2>1 DEF Quiet, CandidatesApart
<1>2. ASSUME NEW d \in Devices, Launch(d) PROVE CandidatesApart'
  BY <1>2, LaunchEffect DEF CandidatesApart, Meets
<1>3. ASSUME NEW d \in Devices, EndPass(d) PROVE CandidatesApart'
  <2>1. PassShares(d) \cap scanned = {}
    BY <1>3, EndPassEffect, PassFresh
  <2>2. PICK found \in SUBSET PassShares(d) : checking' = checking \union found
    BY <1>3 DEF EndPass, Flagged
  <2>3. scanned' = scanned \union PassShares(d) /\ UNCHANGED <<jobs, submitted>>
    BY <1>3, EndPassEffect
  <2> QED
    BY <2>1, <2>2, <2>3 DEF CandidatesApart, Meets
<1>4. ASSUME NEW c \in checking, CheckCandidate(c) PROVE CandidatesApart'
  <2>1. CASE Hit(c)
    BY <1>4, <2>1 DEF CheckCandidate, CandidatesApart, Meets, Hit
  <2>2. CASE ~Hit(c)
    BY <1>4, <2>2 DEF CheckCandidate, CandidatesApart, Meets
  <2> QED
    BY <2>1, <2>2
<1> QED
  BY <1>1, <1>2, <1>3, <1>4, StepKinds

\* Every step keeps the input of a working device that of its own job.
LEMMA InputCurrentNext ==
    ASSUME TypeOK, InputCurrent, [Next]_vars PROVE InputCurrent'
<1>1. ASSUME NEW a \in Announcements, Announce(a) PROVE InputCurrent'
  BY <1>1 DEF Announce, InputCurrent, devVars
<1>2. Withdraw => InputCurrent'
  BY DEF Withdraw, InputCurrent, devVars
<1>3. ASSUME NEW j \in Instances, Age(j) PROVE InputCurrent'
  BY <1>3 DEF Age, InputCurrent, devVars
<1>4. ASSUME NEW d \in Devices, TakeJob(d) PROVE InputCurrent'
  BY <1>4 DEF TakeJob, InputCurrent, TypeOK
<1>5. ASSUME NEW d \in Devices, CheckJob(d) PROVE InputCurrent'
  BY <1>5 DEF CheckJob, InputCurrent, TypeOK
<1>6. ASSUME NEW d \in Devices, PauseOld(d) PROVE InputCurrent'
  BY <1>6 DEF PauseOld, InputCurrent
<1>7. ASSUME NEW d \in Devices, Launch(d) PROVE InputCurrent'
  BY <1>7 DEF Launch, InputCurrent
<1>8. ASSUME NEW d \in Devices, EndPass(d) PROVE InputCurrent'
  BY <1>8 DEF EndPass, InputCurrent
<1>9. ASSUME NEW d \in Devices, StopDevice(d) PROVE InputCurrent'
  BY <1>9 DEF StopDevice, InputCurrent, TypeOK
<1>10. ASSUME NEW c \in checking, CheckCandidate(c) PROVE InputCurrent'
  BY <1>10 DEF CheckCandidate, InputCurrent, devVars
<1>11. UNCHANGED vars => InputCurrent'
  BY DEF vars, InputCurrent
<1> QED
  BY <1>1, <1>2, <1>3, <1>4, <1>5, <1>6, <1>7, <1>8, <1>9, <1>10, <1>11
     DEF Next, DeviceStep, Environment

\* Every step keeps each hit scanned with its verifier thread or in the channel.
LEMMA HitsAccountedNext ==
    ASSUME TypeOK, PassReserved, InputCurrent, HitsAccounted, [Next]_vars
    PROVE  HitsAccounted'
<1> SUFFICES ASSUME NEW s \in scanned', Exact(s)', Meets(s)'
             PROVE  s \in checking' \union submitted'
  BY DEF HitsAccounted
<1>1. CASE Quiet
  BY <1>1, ScannedOffset DEF Quiet, HitsAccounted, Exact
<1>2. ASSUME NEW d \in Devices, Launch(d) PROVE s \in checking' \union submitted'
  BY <1>2, LaunchEffect DEF HitsAccounted, Meets, Exact
<1>3. ASSUME NEW d \in Devices, EndPass(d) PROVE s \in checking' \union submitted'
  <2>1. /\ Exact(s) /\ Meets(s) /\ UNCHANGED submitted
        /\ s \in scanned \union PassShares(d)
    BY <1>3, EndPassEffect DEF Meets, Exact
  <2>2. s.job = job[d] => checking' = checking \union Flagged(d)
    BY <1>3, <2>1 DEF EndPass, Exact
  <2>22. checking \subseteq checking'
    BY <1>3 DEF EndPass
  <2>3. CASE s \in scanned
    BY <2>1, <2>22, <2>3 DEF HitsAccounted
  <2>4. CASE s \in PassShares(d)
    <3>1. uploaded[d] = job[d]
      BY <1>3, EndPassEffect DEF InputCurrent
    <3>2. s.job = job[d]
      BY <2>4 DEF PassShares
    <3>3. s \in Flagged(d)
      BY <2>1, <2>4, <3>1, <3>2 DEF Flagged, Meets
    <3> QED
      BY <2>2, <3>2, <3>3
  <2> QED
    BY <2>1, <2>3, <2>4
<1>4. ASSUME NEW c \in checking, CheckCandidate(c)
      PROVE  s \in checking' \union submitted'
  <2>1. Exact(s) /\ Meets(s) /\ s \in scanned
    BY <1>4 DEF CheckCandidate, Meets, Exact
  <2>2. s \in checking \union submitted
    BY <2>1 DEF HitsAccounted
  <2>3. Meets(s) => Hit(s)
    BY DEF Meets, Hit
  <2> QED
    BY <1>4, <2>1, <2>2, <2>3 DEF CheckCandidate
<1> QED
  BY <1>1, <1>2, <1>3, <1>4, StepKinds

-----------------------------------------------------------------------------
\* IndInv is inductive.
LEMMA IndInvInit == Init => IndInv
<1> SUFFICES ASSUME Init PROVE IndInv
  OBVIOUS
<1>1. TypeOK
  BY TypeInit
<1>2. PassReserved /\ RangesApart /\ ScannedApart
  BY ConstantsAssumption DEF Init, PassReserved, RangesApart, ScannedApart
<1>3. CandidatesApart /\ InputCurrent /\ HitsAccounted
  BY DEF Init, CandidatesApart, InputCurrent, HitsAccounted
<1> QED
  BY <1>1, <1>2, <1>3 DEF IndInv

\* Every step keeps the inductive invariant.
LEMMA IndInvNext == IndInv /\ [Next]_vars => IndInv'
BY TypeNext, PassReservedNext, RangesApartNext, ScannedApartNext,
   CandidatesApartNext, InputCurrentNext, HitsAccountedNext DEF IndInv

\* Every reachable state satisfies the inductive invariant.
THEOREM Inductive == Spec => []IndInv
BY IndInvInit, IndInvNext, PTL DEF Spec

\* Every reachable state has the types TypeOK gives the variables.
THEOREM TypeCorrect == Spec => []TypeOK
<1>1. IndInv => TypeOK
  BY DEF IndInv
<1> QED
  BY <1>1, Inductive, PTL

\* Whatever the devices flag and however the job changes under them, a share
\* that is sent meets the target of its own job and lies in a reserved range.
THEOREM OnlySoundShares == Spec => []SharesSound
<1>1. IndInv => SharesSound
  BY DEF IndInv, CandidatesApart, ScannedApart, SharesSound
<1> QED
  BY <1>1, Inductive, PTL

\* No nonce of an instance is scanned twice, by any two passes of any devices.
THEOREM NoNonceScannedTwice == Spec => []NoNonceTwice
<1>1. IndInv => NoNonceTwice
  <2> SUFFICES ASSUME IndInv, NEW d \in Devices, pc[d] = "pass"
               PROVE  /\ PassShares(d) \cap scanned = {}
                      /\ \A e \in Devices \ {d} : pc[e] = "pass" =>
                            PassShares(d) \cap PassShares(e) = {}
    BY DEF NoNonceTwice
  <2>1. PassShares(d) \cap scanned = {}
    BY PassFresh DEF IndInv
  <2>2. ASSUME NEW e \in Devices \ {d}, pc[e] = "pass",
               NEW s \in PassShares(d), s \in PassShares(e)
        PROVE  FALSE
    <3>1. /\ s \in Share /\ s.job = job[d]
          /\ start[d] <= OffsetOf(s.job, s.nonce)
          /\ OffsetOf(s.job, s.nonce) < start[d] + PerIter[d]
      BY PassBasics, PassSharesOffsets DEF IndInv
    <3>2. /\ s.job = job[e]
          /\ start[e] <= OffsetOf(s.job, s.nonce)
          /\ OffsetOf(s.job, s.nonce) < start[e] + PerIter[e]
      BY <2>2, PassBasics, PassSharesOffsets DEF IndInv
    <3>3. \/ start[d] + PerIter[d] <= start[e]
          \/ start[e] + PerIter[e] <= start[d]
      BY <2>2, <3>1, <3>2 DEF IndInv, RangesApart
    <3>4. OffsetOf(s.job, s.nonce) \in Nat
      BY <3>1, PassBasics, OffsetType DEF Share, IndInv
    <3>5. start[d] \in Nat /\ PerIter[d] \in Nat /\ start[e] \in Nat /\ PerIter[e] \in Nat
      BY <2>2, PassBasics DEF IndInv
    <3> QED
      BY <3>1, <3>2, <3>3, <3>4, <3>5
  <2> QED
    BY <2>1, <2>2
<1> QED
  BY <1>1, Inductive, PTL

\* No verifier thread holds a nonce for which a share has been sent.
THEOREM NoShareTwice == Spec => []NoResubmit
<1>1. IndInv => NoResubmit
  BY DEF IndInv, CandidatesApart, NoResubmit
<1> QED
  BY <1>1, Inductive, PTL

\* With an exact device every hit of a scanned range is on its way or sent.
THEOREM NoHitForgotten == Spec => []HitsAccounted
<1>1. IndInv => HitsAccounted
  BY DEF IndInv
<1> QED
  BY <1>1, Inductive, PTL
-----------------------------------------------------------------------------
\* A job whose id is its own is late at most once on a device: a shown job does
\* not come back, so the thread leaves it at the next look at the pool.
LateOnce ==
    /\ \A d \in Devices : \A j \in Instances : j > Len(jobs) => late[d][j] = 0
    /\ \A d \in Devices : \A j \in 1 .. Len(jobs) : UniqueId(j) =>
          /\ late[d][j] <= 1
          /\ late[d][j] # 0 => current # j /\ ~(job[d] = j /\ pc[d] = "work")

\* A job with an id of its own is the same as the shown one only if it is shown.
LEMMA ShownOnly ==
    ASSUME TypeOK, NEW j \in 1 .. Len(jobs), UniqueId(j)
    PROVE  SameId(j) <=> current = j
BY DEF TypeOK, UniqueId, SameId

\* An id that is unique now was unique when fewer jobs were published.
LEMMA UniqueBefore ==
    ASSUME TypeOK, NEW a \in Announcements, Announce(a), NEW j \in 1 .. Len(jobs),
           UniqueId(j)'
    PROVE  UniqueId(j)
<1>1. /\ Len(jobs') = Len(jobs) + 1 /\ Len(jobs) \in Nat
      /\ \A k \in 1 .. Len(jobs) : jobs'[k] = jobs[k]
  BY DEF Announce, TypeOK
<1> QED
  BY <1>1 DEF UniqueId

\* Every step keeps LateOnce.
LEMMA LateOnceNext == ASSUME TypeOK, LateOnce, [Next]_vars PROVE LateOnce'
<1>1. ASSUME NEW a \in Announcements, Announce(a) PROVE LateOnce'
  <2>1. Len(jobs') = Len(jobs) + 1 /\ Len(jobs) \in Nat /\ Len(jobs') \in Instances
    BY <1>1, ConstantsAssumption DEF Announce, TypeOK, Instances
  <2>2. UNCHANGED <<late, job, pc>> /\ current' = Len(jobs) + 1
    BY <1>1 DEF Announce, devVars, histVars
  <2>3. ASSUME NEW d \in Devices, NEW j \in Instances, j > Len(jobs')
        PROVE  late'[d][j] = 0
    BY <2>1, <2>2, <2>3 DEF LateOnce, Instances
  <2>4. ASSUME NEW d \in Devices, NEW j \in 1 .. Len(jobs'), UniqueId(j)'
        PROVE  /\ late'[d][j] <= 1
               /\ late'[d][j] # 0 => current' # j /\ ~(job'[d] = j /\ pc'[d] = "work")
    <3>1. CASE j = Len(jobs) + 1
      BY <2>1, <2>2, <3>1 DEF LateOnce
    <3>2. CASE j \in 1 .. Len(jobs)
      <4>1. UniqueId(j)
        BY <1>1, <2>4, <3>2, UniqueBefore
      <4> QED
        BY <2>1, <2>2, <3>2, <4>1 DEF LateOnce
    <3> QED
      BY <2>1, <3>1, <3>2
  <2> QED
    BY <2>3, <2>4 DEF LateOnce
<1>2. ASSUME UNCHANGED jobs,
             \A d \in Devices : \A j \in Instances : j > Len(jobs) => late'[d][j] = 0,
             \A d \in Devices : \A j \in 1 .. Len(jobs) : UniqueId(j) =>
                /\ late'[d][j] <= 1
                /\ late'[d][j] # 0 => current' # j /\ ~(job'[d] = j /\ pc'[d] = "work")
      PROVE  LateOnce'
  BY <1>2 DEF LateOnce, UniqueId
<1>3. Withdraw => LateOnce'
  BY <1>2 DEF Withdraw, LateOnce, devVars, histVars
<1>4. ASSUME NEW j \in Instances, Age(j) PROVE LateOnce'
  BY <1>2, <1>4 DEF Age, LateOnce, devVars, histVars
<1>5. ASSUME NEW d \in Devices, TakeJob(d) PROVE LateOnce'
  BY <1>2, <1>5 DEF TakeJob, LateOnce, TypeOK, histVars
<1>6. ASSUME NEW d \in Devices, CheckJob(d) PROVE LateOnce'
  <2>1. UNCHANGED <<jobs, current, late>>
    BY <1>6 DEF CheckJob, histVars
  <2>2. ASSUME NEW e \in Devices, NEW j \in 1 .. Len(jobs), UniqueId(j),
               late'[e][j] # 0, job'[e] = j, pc'[e] = "work"
        PROVE  FALSE
    <3>1. current # j
      BY <2>1, <2>2 DEF LateOnce
    <3>2. ~SameId(j)
      BY <2>2, <3>1, ShownOnly
    <3>3. e # d
      BY <1>6, <2>2, <3>2 DEF CheckJob, TypeOK
    <3> QED
      BY <1>6, <2>1, <2>2, <3>3 DEF CheckJob, TypeOK, LateOnce
  <2> QED
    BY <1>2, <2>1, <2>2 DEF LateOnce
<1>7. ASSUME NEW d \in Devices, PauseOld(d) PROVE LateOnce'
  BY <1>2, <1>7 DEF PauseOld, LateOnce, TypeOK, histVars
<1>8. ASSUME NEW d \in Devices, Launch(d) PROVE LateOnce'
  <2>1. /\ UNCHANGED <<jobs, current, job>>
        /\ pc[d] = "work" /\ pc' = [pc EXCEPT ![d] = "pass"]
        /\ late' = IF SameId(job[d]) THEN late ELSE [late EXCEPT ![d][job[d]] = @ + 1]
    BY <1>8 DEF Launch
  <2>2. job[d] \in 1 .. Len(jobs)
    <3>1. pc[d] \notin {"poll", "stopped"}
      BY <2>1
    <3>2. job[d] # 0
      BY <3>1, Zenon DEF TypeOK
    <3>3. job[d] \in 0 .. Len(jobs) /\ Len(jobs) \in Nat
      BY DEF TypeOK
    <3> QED
      BY <3>2, <3>3
  <2>3. ASSUME NEW e \in Devices, NEW j \in Instances, e # d \/ j # job[d]
        PROVE  late'[e][j] = late[e][j]
    BY <2>1, <2>3 DEF TypeOK
  <2>4. \A e \in Devices : \A j \in Instances : j > Len(jobs) => late'[e][j] = 0
    BY <2>2, <2>3 DEF LateOnce
  <2>5. ASSUME NEW e \in Devices, NEW j \in 1 .. Len(jobs), UniqueId(j)
        PROVE  /\ late'[e][j] <= 1
               /\ late'[e][j] # 0 => current' # j /\ ~(job'[e] = j /\ pc'[e] = "work")
    <3>1. j \in Instances
      BY JobType
    <3>2. CASE e # d \/ j # job[d]
      BY <2>1, <2>3, <2>5, <3>1, <3>2 DEF LateOnce, TypeOK
    <3>3. CASE e = d /\ j = job[d]
      <4>1. late[d][j] = 0
        BY <2>1, <2>5, <3>1, <3>3 DEF LateOnce
      <4>2. late'[d][j] = IF SameId(j) THEN 0 ELSE 1
        BY <2>1, <3>1, <3>3, <4>1 DEF TypeOK
      <4>3. SameId(j) <=> current = j
        BY <2>5, ShownOnly
      <4> QED
        BY <2>1, <3>3, <4>2, <4>3 DEF TypeOK
    <3> QED
      BY <3>2, <3>3
  <2> QED
    BY <1>2, <2>1, <2>4, <2>5
<1>9. ASSUME NEW d \in Devices, EndPass(d) PROVE LateOnce'
  BY <1>2, <1>9 DEF EndPass, LateOnce, TypeOK
<1>10. ASSUME NEW d \in Devices, StopDevice(d) PROVE LateOnce'
  BY <1>2, <1>10 DEF StopDevice, LateOnce, TypeOK, histVars
<1>11. ASSUME NEW c \in checking, CheckCandidate(c) PROVE LateOnce'
  BY <1>2, <1>11 DEF CheckCandidate, LateOnce, devVars
<1>12. UNCHANGED vars => LateOnce'
  BY <1>2 DEF vars, LateOnce
<1> QED
  BY <1>1, <1>3, <1>4, <1>5, <1>6, <1>7, <1>8, <1>9, <1>10, <1>11, <1>12
     DEF Next, DeviceStep, Environment

\* A replaced job with an id of its own costs a device at most one pass.
THEOREM OneWastedPass == Spec => []OneLatePass
<1>1. Init => LateOnce
  BY DEF Init, LateOnce
<1>2. IndInv /\ LateOnce /\ [Next]_vars => LateOnce'
  BY LateOnceNext DEF IndInv
<1>3. LateOnce => OneLatePass
  BY DEF LateOnce, OneLatePass
<1> QED
  BY <1>1, <1>2, <1>3, Inductive, PTL DEF Spec

-----------------------------------------------------------------------------
(***************************************************************************)
(* MineLoop implements ShareLedger: every step of a mining or verifier     *)
(* thread is a step of the ledger, or changes nothing the ledger knows.    *)
(***************************************************************************)
\* No nonce of an instance is reserved before the instance is published.
FreshCursor == \A j \in Instances : j > Len(jobs) => cursor[j] = 0

\* In every reachable state the instances to come have their whole range.
LEMMA FreshCursorNext ==
    ASSUME TypeOK, FreshCursor, [Next]_vars PROVE FreshCursor'
<1>1. Len(jobs) \in Nat
  BY DEF TypeOK
<1>2. CASE Quiet
  BY <1>1, <1>2 DEF Quiet, FreshCursor, Instances, TypeOK
<1>3. ASSUME NEW d \in Devices, Launch(d) PROVE FreshCursor'
  <2>1. job[d] \in 0 .. Len(jobs)
    BY DEF TypeOK
  <2> QED
    BY <1>1, <1>3, <2>1, LaunchEffect DEF FreshCursor, Instances
<1>4. ASSUME NEW d \in Devices, EndPass(d) PROVE FreshCursor'
  BY <1>4, EndPassEffect DEF FreshCursor
<1>5. ASSUME NEW c \in checking, CheckCandidate(c) PROVE FreshCursor'
  BY <1>5 DEF CheckCandidate, FreshCursor
<1> QED
  BY <1>2, <1>3, <1>4, <1>5, StepKinds

\* A nonce is the one at its own offset.
LEMMA OffsetInverse ==
    ASSUME TypeOK, NEW j \in 1 .. Len(jobs), NEW n \in Nonces
    PROVE  NonceAt(j, OffsetOf(j, n)) = n
<1>1. jobs[j].extra \in Nonces
  BY JobType
<1> QED
  BY <1>1, ConstantsAssumption DEF Nonces, NonceAt, OffsetOf, WrapAdd

\* A pass in flight is searching something.
LEMMA PassNotEmpty ==
    ASSUME TypeOK, NEW d \in Devices PROVE PassShares(d) # {}
<1>1. 0 \in 0 .. PerIter[d] - 1
  BY ConstantsAssumption
<1> QED
  BY <1>1 DEF PassShares

-----------------------------------------------------------------------------
\* While neither jobs nor cursors change, the claims stay as they are.
LEMMA ClaimedStays ==
    ASSUME UNCHANGED <<jobs, cursor>> PROVE Claimed' = Claimed
BY DEF Claimed, OffsetOf

\* The instances that come later have no claims yet.
LEMMA ClaimedOnAnnounce ==
    ASSUME TypeOK, FreshCursor, NEW a \in Announcements, Announce(a)
    PROVE  Claimed' = Claimed
<1>1. /\ Len(jobs') = Len(jobs) + 1 /\ Len(jobs) \in Nat
      /\ \A j \in 1 .. Len(jobs) : jobs'[j] = jobs[j]
      /\ jobs' \in Seq(Announcements)
      /\ UNCHANGED cursor
  BY DEF Announce, TypeOK
<1>2. ASSUME NEW s \in Share, s.job <= Len(jobs)
      PROVE  OffsetOf(s.job, s.nonce)' = OffsetOf(s.job, s.nonce)
  <2>1. s.job \in 1 .. Len(jobs)
    BY <1>1, <1>2 DEF Share, Instances
  <2> QED
    BY <1>1, <2>1 DEF OffsetOf
<1>3. ASSUME NEW s \in Share, ~(s.job <= Len(jobs)), s.job <= Len(jobs')
      PROVE  ~(OffsetOf(s.job, s.nonce)' < cursor'[s.job])
  <2>1. cursor'[s.job] = 0
    BY <1>1, <1>3 DEF Share, Instances, FreshCursor
  <2>2. s.job \in 1 .. Len(jobs') /\ s.nonce \in Nonces
    BY <1>1, <1>3 DEF Share, Instances
  <2>3. jobs'[s.job].extra \in Nonces
    BY <1>1, <2>2, ConstantsAssumption DEF Announcement
  <2>4. OffsetOf(s.job, s.nonce)' \in Nat
    BY <2>2, <2>3, ConstantsAssumption DEF OffsetOf, Nonces
  <2> QED
    BY <2>1, <2>4
<1> QED
  BY <1>1, <1>2, <1>3 DEF Claimed, Share, Instances

\* The device that goes on with its pass is searching what it was.
LEMMA PassSharesStay ==
    ASSUME NEW d \in Devices, job'[d] = job[d], start'[d] = start[d],
           jobs'[job[d]] = jobs[job[d]]
    PROVE  PassShares(d)' = PassShares(d)
BY DEF PassShares, NonceAt

\* Steps that touch no pass change nothing the ledger knows.
LEMMA SearchingStays ==
    ASSUME UNCHANGED <<jobs, start>>,
           \A d \in Devices : /\ pc'[d] = "pass" <=> pc[d] = "pass"
                              /\ pc[d] = "pass" => job'[d] = job[d]
    PROVE  Searching' = Searching
<1>1. ASSUME NEW d \in Devices
      PROVE  (IF pc'[d] = "pass" THEN PassShares(d)' ELSE {})
               = IF pc[d] = "pass" THEN PassShares(d) ELSE {}
  BY PassSharesStay
<1> QED
  BY <1>1 DEF Searching

-----------------------------------------------------------------------------
\* An announcement is a publication.
LEMMA AnnounceIsPublish ==
    ASSUME IndInv, FreshCursor, NEW a \in Announcements, Announce(a)
    PROVE  Ledger!Publish
<1>1. Claimed' = Claimed
  BY ClaimedOnAnnounce DEF IndInv
<1>2. Searching' = Searching
  <2>1. ASSUME NEW d \in Devices, pc[d] = "pass" PROVE PassShares(d)' = PassShares(d)
    <3>1. job[d] \in 1 .. Len(jobs)
      BY <2>1, PassBasics DEF IndInv
    <3>2. jobs'[job[d]] = jobs[job[d]]
      BY <3>1 DEF Announce, IndInv, TypeOK
    <3> QED
      BY <3>2, PassSharesStay DEF Announce, devVars
  <2> QED
    BY <2>1 DEF Searching, Announce, devVars
<1> QED
  BY <1>1, <1>2 DEF Ledger!Publish, Announce, histVars

\* A reservation is a claim: new, of one instance, and exactly what the cursor
\* has passed.
LEMMA LaunchIsClaim ==
    ASSUME IndInv, TypeOK', NEW d \in Devices, Launch(d)
    PROVE  Ledger!Claim(d)
<1> USE ConstantsAssumption
<1> DEFINE new == PassShares(d)'
           j == job[d]
           Off(s) == OffsetOf(s.job, s.nonce)
<1>0. TypeOK /\ PassReserved
  BY DEF IndInv
<1>1. /\ j \in Instances /\ job'[d] = j /\ jobs' = jobs
      /\ start'[d] = cursor[j] /\ cursor[j] \in Nat /\ PerIter[d] \in Nat \ {0}
      /\ cursor'[j] = cursor[j] + PerIter[d] /\ cursor[j] + PerIter[d] <= MaxReserve
      /\ pc'[d] = "pass" /\ pc[d] = "work"
  BY <1>0, LaunchEffect DEF Launch
<1>2. j # 0 /\ j \in 1 .. Len(jobs)
  BY <1>0, <1>1 DEF TypeOK, Instances
<1>a. new = {[job |-> j, nonce |-> NonceAt(j, cursor[j] + i)] : i \in 0 .. PerIter[d] - 1}
  BY <1>1 DEF PassShares, NonceAt
<1>3. ASSUME NEW s \in new
      PROVE  s \in Share /\ s.job = j /\ cursor[j] <= Off(s) /\ Off(s) < cursor'[j]
  <2>1. PICK i \in 0 .. PerIter[d] - 1 :
          s = [job |-> j, nonce |-> NonceAt(j, cursor[j] + i)]
    BY <1>a, <1>3
  <2>2. cursor[j] + i \in Nat /\ cursor[j] + i < NonceSpace /\ i \in Nat
    BY <1>1
  <2>3. NonceAt(j, cursor[j] + i) \in Nonces /\ Off(s) = cursor[j] + i
    BY <1>0, <1>2, <2>1, <2>2, NonceAtOffset
  <2> QED
    BY <1>1, <2>1, <2>2, <2>3 DEF Share
<1>4. ASSUME NEW s \in Share, s.job = j, cursor[j] <= Off(s), Off(s) < cursor'[j]
      PROVE  s \in new
  <2> DEFINE i == Off(s) - cursor[j]
  <2>1. s.nonce \in Nonces
    BY DEF Share
  <2>2. Off(s) \in Nat /\ NonceAt(j, Off(s)) = s.nonce
    BY <1>0, <1>2, <1>4, <2>1, OffsetType, OffsetInverse
  <2>3. i \in 0 .. PerIter[d] - 1 /\ cursor[j] + i = Off(s)
    BY <1>1, <1>4, <2>2
  <2>4. s = [job |-> j, nonce |-> NonceAt(j, cursor[j] + i)]
    BY <1>4, <2>2, <2>3 DEF Share
  <2> QED
    BY <1>a, <2>3, <2>4
<1>5. Searching[d] = {} /\ Searching'[d] = new
  BY <1>1 DEF Searching
<1>6. new # {}
  <2>1. 0 \in 0 .. PerIter[d] - 1
    BY <1>1
  <2> QED
    BY <1>a, <2>1
<1>7. new \cap Claimed = {}
  <2> SUFFICES ASSUME NEW s \in new, s \in Claimed PROVE FALSE
    OBVIOUS
  <2>1. Off(s) < cursor[j] /\ cursor[j] <= Off(s)
    BY <1>3 DEF Claimed
  <2>2. Off(s) \in Nat
    BY <1>0, <1>2, <1>3, OffsetType DEF Share
  <2> QED
    BY <1>1, <2>1, <2>2
<1>8. Searching' = [Searching EXCEPT ![d] = new]
  <2>1. ASSUME NEW e \in Devices, e # d PROVE Searching'[e] = Searching[e]
    <3>1. pc'[e] = pc[e] /\ start'[e] = start[e] /\ job'[e] = job[e] /\ jobs' = jobs
      BY <1>0, <2>1, LaunchEffect
    <3>2. PassShares(e)' = PassShares(e)
      BY <3>1, PassSharesStay
    <3> QED
      BY <3>1, <3>2 DEF Searching
  <2> QED
    BY <1>5, <2>1 DEF Searching
<1>9. Claimed' = Claimed \union new
  <2>1. ASSUME NEW s \in Share, s.job <= Len(jobs)
        PROVE  Off(s) < cursor'[s.job] <=> Off(s) < cursor[s.job] \/ s \in new
    <3>1. s.job \in 1 .. Len(jobs) /\ s.nonce \in Nonces
      BY <1>0, <2>1 DEF Share, Instances, TypeOK
    <3>2. Off(s) \in Nat
      BY <1>0, <3>1, OffsetType
    <3>3. CASE s.job = j
      BY <1>1, <1>3, <1>4, <3>2, <3>3
    <3>4. CASE s.job # j
      <4>1. cursor'[s.job] = cursor[s.job]
        BY <1>0, <3>4, LaunchEffect DEF Share
      <4>2. s \notin new
        BY <1>3, <3>4
      <4> QED
        BY <4>1, <4>2
    <3> QED
      BY <3>3, <3>4
  <2>2. \A s \in new : s \in Share /\ s.job <= Len(jobs)
    BY <1>2, <1>3
  <2> QED
    BY <1>1, <2>1, <2>2 DEF Claimed, OffsetOf
<1>10. UNCHANGED <<jobs, scanned, submitted>>
  BY <1>0, LaunchEffect
<1> QED
  BY <1>2, <1>3, <1>5, <1>6, <1>7, <1>8, <1>9, <1>10 DEF Ledger!Claim

\* A pass that returns ends its search, and one that fails gives it up.
LEMMA PassEndIsFinish ==
    ASSUME IndInv, NEW d \in Devices, EndPass(d) \/ StopDevice(d)
    PROVE  Ledger!Finish(d)
<1>0. TypeOK
  BY DEF IndInv
<1>1. /\ pc[d] = "pass" /\ pc'[d] # "pass"
      /\ \A e \in Devices \ {d} : /\ pc'[e] = pc[e] /\ start'[e] = start[e]
                                  /\ job'[e] = job[e]
      /\ UNCHANGED <<jobs, cursor, submitted>>
      /\ scanned' \in {scanned, scanned \union PassShares(d)}
  BY <1>0 DEF EndPass, StopDevice, TypeOK, histVars
<1>2. Searching[d] = PassShares(d) /\ Searching[d] # {}
  BY <1>0, <1>1, PassNotEmpty DEF Searching
<1>3. Searching' = [Searching EXCEPT ![d] = {}]
  <2>1. ASSUME NEW e \in Devices, e # d PROVE Searching'[e] = Searching[e]
    <3>1. PassShares(e)' = PassShares(e)
      BY <1>1, <2>1, PassSharesStay
    <3> QED
      BY <1>1, <2>1, <3>1 DEF Searching
  <2>2. Searching'[d] = {}
    BY <1>1 DEF Searching
  <2> QED
    BY <2>1, <2>2 DEF Searching
<1>4. Claimed' = Claimed
  BY <1>1, ClaimedStays
<1> QED
  BY <1>1, <1>2, <1>3, <1>4 DEF Ledger!Finish

\* A candidate that passes the check is recorded; the others leave no trace.
LEMMA CheckIsRecord ==
    ASSUME IndInv, NEW c \in checking, CheckCandidate(c)
    PROVE  Ledger!Record \/ UNCHANGED Ledger!vars
<1>1. UNCHANGED <<jobs, cursor, pc, job, start, scanned>>
  BY DEF CheckCandidate, devVars
<1>2. Claimed' = Claimed /\ Searching' = Searching
  BY <1>1, ClaimedStays, SearchingStays
<1>3. CASE Hit(c)
  <2>1. c \in scanned \ submitted
    BY DEF IndInv, CandidatesApart
  <2>2. Ledger!Valid(c)
    BY <1>3 DEF Hit, Ledger!Valid
  <2>3. submitted' = submitted \union {c}
    BY <1>3 DEF CheckCandidate
  <2> QED
    BY <1>1, <1>2, <2>1, <2>2, <2>3 DEF Ledger!Record
<1>4. CASE ~Hit(c)
  BY <1>1, <1>2, <1>4 DEF CheckCandidate, Ledger!vars
<1> QED
  BY <1>3, <1>4

\* Every step of the threads is a step of the ledger or a stutter.
LEMMA LedgerNext ==
    ASSUME IndInv, FreshCursor, TypeOK', [Next]_vars
    PROVE  [Ledger!Next]_(Ledger!vars)
<1>0. TypeOK
  BY DEF IndInv
<1>1. ASSUME NEW a \in Announcements, Announce(a) PROVE Ledger!Next
  BY <1>1, AnnounceIsPublish DEF Ledger!Next
<1>2. ASSUME NEW d \in Devices, Launch(d) PROVE Ledger!Next
  BY <1>2, LaunchIsClaim DEF Ledger!Next
<1>3. ASSUME NEW d \in Devices, EndPass(d) \/ StopDevice(d) PROVE Ledger!Next
  BY <1>3, PassEndIsFinish DEF Ledger!Next
<1>4. ASSUME NEW c \in checking, CheckCandidate(c) PROVE [Ledger!Next]_(Ledger!vars)
  BY <1>4, CheckIsRecord DEF Ledger!Next
<1>5. ASSUME NEW d \in Devices, TakeJob(d) \/ CheckJob(d) \/ PauseOld(d)
      PROVE  UNCHANGED Ledger!vars
  <2>1. /\ UNCHANGED <<jobs, cursor, start, scanned, submitted>>
        /\ \A e \in Devices : /\ pc'[e] = "pass" <=> pc[e] = "pass"
                              /\ pc[e] = "pass" => job'[e] = job[e]
    BY <1>0, <1>5 DEF TakeJob, CheckJob, PauseOld, TypeOK, histVars
  <2> QED
    BY <2>1, ClaimedStays, SearchingStays DEF Ledger!vars
<1>6. ASSUME Withdraw \/ (\E j \in Instances : Age(j)) \/ UNCHANGED vars
      PROVE  UNCHANGED Ledger!vars
  <2>1. UNCHANGED <<jobs, cursor, pc, job, start, scanned, submitted>>
    BY <1>6 DEF Withdraw, Age, vars, devVars, histVars
  <2> QED
    BY <2>1, ClaimedStays, SearchingStays DEF Ledger!vars
<1> QED
  BY <1>1, <1>2, <1>3, <1>4, <1>5, <1>6 DEF Next, DeviceStep, Environment

\* Nothing is claimed, searched or recorded at the start.
LEMMA LedgerInit == Init => Ledger!Init
<1> SUFFICES ASSUME Init PROVE Ledger!Init
  OBVIOUS
<1>1. Claimed = {}
  <2>1. \A s \in Share : ~(s.job <= Len(jobs))
    BY DEF Init, Share, Instances
  <2> QED
    BY <2>1 DEF Claimed
<1>2. Searching = [d \in Devices |-> {}]
  BY DEF Init, Searching
<1> QED
  BY <1>1, <1>2 DEF Init, Ledger!Init

\* The mining and verifier threads implement the ledger: no nonce of a job is
\* claimed twice and only searched claims that meet the target are recorded,
\* once, whatever the number of devices and the order of their steps.
THEOREM ImplementsLedger == Spec => KeepsLedger
<1>1. Init => FreshCursor
  BY DEF Init, FreshCursor
<1>2. IndInv => TypeOK
  BY DEF IndInv
<1>3. Spec => []FreshCursor
  <2>1. TypeOK /\ FreshCursor /\ [Next]_vars => FreshCursor'
    BY FreshCursorNext
  <2> QED
    BY <1>1, <1>2, <2>1, Inductive, PTL DEF Spec
<1>4. IndInv /\ FreshCursor /\ TypeOK' /\ [Next]_vars => [Ledger!Next]_(Ledger!vars)
  BY LedgerNext
<1> QED
  BY <1>2, <1>3, <1>4, Inductive, LedgerInit, PTL DEF Spec, KeepsLedger, Ledger!Spec

-----------------------------------------------------------------------------
\* The whole miner.
CONSTANTS MaxFaults, MaxInbox

VARIABLES
    outbox, accepted, rejected, io, link, subscribed, inbox, pending,
    session, origin, sent, lost, verdicts, faults

V == INSTANCE VulkMiner

-----------------------------------------------------------------------------
\* What the mining threads need of the io thread: the frames that bring jobs
\* bring announced ones, no more than there is room for.
JobFrames == V!Net!JobFrames
Frame == V!Net!Frame

Wired ==
    /\ inbox \in Seq(Frame)
    /\ Len(jobs) + Cardinality(Places(inbox, JobFrames)) <= MaxJobs


\* What is in the channel, or was taken out of it, was put in by a verifier.
Queued ==
    /\ outbox \in Seq(submitted)
    /\ sent \subseteq submitted

Inv == IndInv /\ Wired /\ Queued

\* The two instances of Places say the same.
LEMMA UnreadIs == V!Net!Unread(V!Net!JobFrames) = Cardinality(Places(inbox, JobFrames))
BY DEF V!Net!Unread, V!Net!Places, Places, JobFrames, V!Net!Cardinality, Cardinality,
       V!Net!IsFiniteSet, IsFiniteSet

\* What is said of a frame by its kind.
LEMMA FrameKinds ==
    ASSUME NEW f \in Frame
    PROVE  /\ f.kind = "job" <=> f \in JobFrames
           /\ f.kind = "job" => f.job \in Announcements
BY DEF Frame, JobFrames, V!Net!Frame, V!Net!JobFrames, V!Net!Verdicts

-----------------------------------------------------------------------------
\* A frame that is put in leaves room, if a job frame finds some.
LEMMA FramePut ==
    ASSUME TypeOK, Wired, NEW e \in Frame, inbox' = Append(inbox, e), UNCHANGED jobs,
           e.kind = "job" => Len(jobs) + Cardinality(Places(inbox, JobFrames)) < MaxJobs
    PROVE  Wired'
<1>1. inbox \in Seq(Frame) /\ inbox' \in Seq(Frame)
  BY DEF Wired
<1>2. Cardinality(Places(inbox', JobFrames))
        = Cardinality(Places(inbox, JobFrames)) + (IF e \in JobFrames THEN 1 ELSE 0)
  BY <1>1, PlacesAppend
<1>3. Cardinality(Places(inbox, JobFrames)) \in Nat
  BY <1>1, PlacesFinite
<1>4. Len(jobs) \in Nat /\ MaxJobs \in Nat
  BY ConstantsAssumption DEF TypeOK
<1>5. e \in JobFrames => e.kind = "job"
  BY FrameKinds
<1>6. JobFrames' = JobFrames /\ Frame' = Frame
  BY DEF JobFrames, Frame, V!Net!JobFrames, V!Net!Frame, V!Net!Verdicts
<1>7. Len(jobs') + Cardinality(Places(inbox', JobFrames)) <= MaxJobs
  BY <1>2, <1>3, <1>4, <1>5 DEF Wired
<1> QED
  BY <1>1, <1>6, <1>7 DEF Wired

\* A frame that is read: a job it brings was announced, and there is room.
LEMMA FrameRead ==
    ASSUME TypeOK, Wired, inbox # <<>>
    PROVE  /\ Head(inbox) \in Frame
           /\ Tail(inbox) \in Seq(Frame)
           /\ Cardinality(Places(inbox, JobFrames)) \in Nat
           /\ Cardinality(Places(Tail(inbox), JobFrames)) \in Nat
           /\ Cardinality(Places(inbox, JobFrames))
                = Cardinality(Places(Tail(inbox), JobFrames))
                    + (IF Head(inbox) \in JobFrames THEN 1 ELSE 0)
<1>1. inbox \in Seq(Frame) /\ Head(inbox) \in Frame /\ Tail(inbox) \in Seq(Frame)
  BY DEF Wired
<1> QED
  BY <1>1, PlacesTail, PlacesFinite

-----------------------------------------------------------------------------
\* Nothing the mining threads see changes.
Unseen == UNCHANGED <<jobs, current, submitted>>

\* A step that leaves the published jobs and the inbox alone keeps the wiring.
LEMMA WiredKept == ASSUME Wired, UNCHANGED <<jobs, inbox>> PROVE Wired'
BY DEF Wired, JobFrames, Frame, V!Net!JobFrames, V!Net!Frame, V!Net!Verdicts

\* What the pool and the transport do, the miner sees later.
LEMMA PoolKeeps ==
    ASSUME TypeOK, Wired, V!Net!PoolStep PROVE Unseen /\ Wired'
<1>1. ASSUME NEW a \in Announcements, V!Net!PoolAnnounces(a) PROVE Unseen /\ Wired'
  <2>1. [kind |-> "job", job |-> a] \in Frame
    BY DEF Frame, V!Net!Frame, V!Net!JobFrames
  <2>2. Len(jobs) + Cardinality(Places(inbox, JobFrames)) < MaxJobs
    BY <1>1, UnreadIs DEF V!Net!PoolAnnounces
  <2>3. Unseen /\ inbox' = Append(inbox, [kind |-> "job", job |-> a])
    BY <1>1 DEF V!Net!PoolAnnounces, V!Net!Deliver, V!Net!poolVars, V!Net!histVars, Unseen
  <2> QED
    BY <2>1, <2>2, <2>3, FramePut DEF Unseen
<1>2. ASSUME NEW s \in pending, NEW v \in V!Net!Verdicts, V!Net!PoolAnswers(s, v)
      PROVE  Unseen /\ Wired'
  <2>1. [kind |-> "answer", result |-> v] \in Frame
    BY DEF Frame, V!Net!Frame
  <2>2. Unseen /\ inbox' = Append(inbox, [kind |-> "answer", result |-> v])
    BY <1>2 DEF V!Net!PoolAnswers, V!Net!Deliver, V!Net!poolVars, V!Net!histVars, Unseen
  <2> QED
    BY <2>1, <2>2, FramePut DEF Unseen
<1>3. CASE V!Net!PoolChatters
  <2>1. PICK k \in {"ping", "other"} : V!Net!Deliver([kind |-> k])
    BY <1>3 DEF V!Net!PoolChatters
  <2>2. [kind |-> k] \in Frame /\ [kind |-> k].kind # "job"
    BY DEF Frame, V!Net!Frame
  <2>3. Unseen /\ inbox' = Append(inbox, [kind |-> k])
    BY <2>1 DEF V!Net!Deliver, V!Net!poolVars, V!Net!histVars, Unseen
  <2> QED
    BY <2>2, <2>3, FramePut DEF Unseen
<1>4. CASE V!Net!Fault
  <2>1. [kind |-> "close"] \in Frame
    BY DEF Frame, V!Net!Frame
  <2>2. Unseen /\ (inbox' = inbox \/ inbox' = Append(inbox, [kind |-> "close"]))
    BY <1>4 DEF V!Net!Fault, V!Net!poolVars, V!Net!histVars, Unseen
  <2> QED
    BY <2>1, <2>2, FramePut, WiredKept DEF Unseen
<1>5. CASE V!Net!TransportGivesUp
  <2>1. Unseen /\ inbox' = inbox
    BY <1>5 DEF V!Net!TransportGivesUp, V!Net!poolVars, V!Net!histVars, Unseen
  <2> QED
    BY <2>1, WiredKept DEF Unseen
<1> QED
  BY <1>1, <1>2, <1>3, <1>4, <1>5 DEF V!Net!PoolStep

\* What the io thread shows the miner: a job that was announced, or none, or it
\* does nothing that can be seen.
LEMMA IoShows ==
    ASSUME TypeOK, Wired, V!Net!IoStep
    PROVE  /\ Wired'
           /\ UNCHANGED submitted
           /\ \/ UNCHANGED <<jobs, current>>
              \/ current' = 0 /\ UNCHANGED jobs
              \/ \E a \in Announcements : /\ Len(jobs) < MaxJobs
                                          /\ jobs' = Append(jobs, a)
                                          /\ current' = Len(jobs) + 1
<1> USE DEF V!Net!poolVars, V!Net!histVars, V!Net!connVars
<1>1. CASE V!Net!Connect \/ V!Net!ConnectFails \/ V!Net!SubscribeFails
             \/ V!Net!SendShare \/ V!Net!SendFails \/ V!Net!Drained
             \/ V!Net!ReadTimeout \/ V!Net!ReadError
  <2>1. Unseen /\ UNCHANGED inbox
    BY <1>1 DEF V!Net!Connect, V!Net!ConnectFails, V!Net!SubscribeFails,
                V!Net!SendShare, V!Net!SendFails, V!Net!Drained,
                V!Net!ReadTimeout, V!Net!ReadError, Unseen
  <2> QED
    BY <2>1, WiredKept DEF Unseen
<1>2. CASE V!Net!Subscribe
  <2>1. [kind |-> "other"] \in Frame
    BY DEF Frame, V!Net!Frame
  <2>2. Unseen /\ (inbox' = inbox \/ inbox' = Append(inbox, [kind |-> "other"]))
    BY <1>2 DEF V!Net!Subscribe, Unseen
  <2> QED
    BY <2>1, <2>2, FramePut, WiredKept DEF Unseen
<1>3. CASE V!Net!LoseConnection
  <2>1. current' = 0 /\ UNCHANGED <<jobs, submitted>> /\ inbox' = <<>>
    BY <1>3 DEF V!Net!LoseConnection
  <2>2. Cardinality(Places(<<>>, JobFrames)) = 0
    BY PlacesNone
  <2>3. <<>> \in Seq(Frame) /\ Len(jobs) \in Nat /\ Len(jobs) <= MaxJobs
    BY DEF TypeOK
  <2>4. JobFrames' = JobFrames /\ Frame' = Frame
    BY DEF JobFrames, Frame, V!Net!JobFrames, V!Net!Frame, V!Net!Verdicts
  <2> QED
    BY <2>1, <2>2, <2>3, <2>4 DEF Wired
<1>4. CASE V!Net!ReadFrame
  <2> DEFINE f == Head(inbox)
  <2>1. inbox # <<>> /\ inbox' = Tail(inbox) /\ UNCHANGED submitted
    BY <1>4 DEF V!Net!ReadFrame
  <2>2. /\ f \in Frame /\ Tail(inbox) \in Seq(Frame)
        /\ Len(jobs) \in Nat /\ MaxJobs \in Nat
        /\ f.kind = "job" <=> f \in JobFrames
        /\ f.kind = "job" => f.job \in Announcements
    BY <2>1, FrameRead, FrameKinds, ConstantsAssumption DEF TypeOK
  <2>3. JobFrames' = JobFrames /\ Frame' = Frame
    BY DEF JobFrames, Frame, V!Net!JobFrames, V!Net!Frame, V!Net!Verdicts
  <2>4. CASE V!Net!PublishJob(f)
    <3>1. f.job \in Announcements /\ f \in JobFrames
      BY <2>2, <2>4 DEF V!Net!PublishJob
    <3>2. jobs' = Append(jobs, f.job) /\ current' = Len(jobs) + 1
      BY <2>4 DEF V!Net!PublishJob
    <3>3. Len(jobs') = Len(jobs) + 1
      BY <3>1, <3>2 DEF TypeOK
    <3>4. Len(jobs) < MaxJobs
          /\ Len(jobs') + Cardinality(Places(Tail(inbox), JobFrames)) <= MaxJobs
      BY <2>1, <2>2, <3>1, <3>3, FrameRead DEF Wired
    <3> QED
      BY <2>1, <2>2, <2>3, <3>1, <3>2, <3>4 DEF Wired
  <2>5. ASSUME UNCHANGED <<jobs, current>>
        PROVE  Wired' /\ UNCHANGED submitted /\ UNCHANGED <<jobs, current>>
    <3>1. Len(jobs) + Cardinality(Places(Tail(inbox), JobFrames)) <= MaxJobs
      BY <2>1, <2>2, FrameRead DEF Wired
    <3> QED
      BY <2>1, <2>2, <2>3, <2>5, <3>1 DEF Wired
  <2>6. V!Net!PublishJob(f) \/ UNCHANGED <<jobs, current>>
    BY <1>4 DEF V!Net!ReadFrame, V!Net!CountAnswer, V!Net!LogFrame, V!Net!CloseFrame,
                V!Net!Pong
  <2> QED
    BY <2>4, <2>5, <2>6
<1> QED
  BY <1>1, <1>2, <1>3, <1>4 DEF V!Net!IoStep

-----------------------------------------------------------------------------
\* MineLoop as the composition sees it is MineLoop.
LEMMA SameInit == V!Loop!Init => Init
BY DEF V!Loop!Init, Init, V!Loop!Instances, Instances

LEMMA SameStep == [V!Loop!Next]_(V!Loop!vars) => [Next]_vars
<1> USE DEF V!Loop!histVars, histVars, V!Loop!devVars, devVars
<1>1. ASSUME NEW d \in Devices, V!Loop!DeviceStep(d) PROVE DeviceStep(d)
  BY <1>1 DEF V!Loop!DeviceStep, DeviceStep,
     V!Loop!TakeJob, TakeJob, V!Loop!CheckJob, CheckJob, V!Loop!PauseOld, PauseOld,
     V!Loop!Launch, Launch, V!Loop!EndPass, EndPass, V!Loop!StopDevice, StopDevice,
     V!Loop!Expired, Expired, V!Loop!Reserve, Reserve, V!Loop!SameId, SameId,
     V!Loop!PassShares, PassShares, V!Loop!Flagged, Flagged,
     V!Loop!NonceAt, NonceAt, V!Loop!WrapAdd, WrapAdd
<1>2. ASSUME NEW c \in checking, V!Loop!CheckCandidate(c) PROVE CheckCandidate(c)
  BY <1>2 DEF V!Loop!CheckCandidate, CheckCandidate, V!Loop!Hit, Hit
<1>3. ASSUME V!Loop!Environment PROVE Environment
  BY <1>3 DEF V!Loop!Environment, Environment, V!Loop!Announce, Announce,
     V!Loop!Withdraw, Withdraw, V!Loop!Age, Age, V!Loop!Instances, Instances
<1>4. ASSUME UNCHANGED V!Loop!vars PROVE UNCHANGED vars
  BY <1>4 DEF V!Loop!vars, vars
<1> QED
  BY <1>1, <1>2, <1>3, <1>4 DEF V!Loop!Next, Next

-----------------------------------------------------------------------------
\* Every step of the composition is one of MineLoop, or one it does not see.
LEMMA LoopStep ==
    ASSUME TypeOK, Wired, [V!Next]_(V!vars)
    PROVE  [V!Loop!Next]_(V!Loop!vars) /\ Wired'
<1>1. ASSUME NEW d \in Devices, V!Mine(d) PROVE V!Loop!Next /\ Wired'
  <2>1. UNCHANGED <<jobs, inbox>>
    BY <1>1 DEF V!Mine, V!netOnly, V!Loop!DeviceStep,
       V!Loop!TakeJob, V!Loop!CheckJob, V!Loop!PauseOld, V!Loop!Launch, V!Loop!EndPass,
       V!Loop!StopDevice
  <2> QED
    BY <1>1, <2>1, WiredKept DEF V!Mine, V!Loop!Next
<1>2. ASSUME NEW c \in checking, V!Verify(c) PROVE V!Loop!Next /\ Wired'
  <2>1. UNCHANGED <<jobs, inbox>>
    BY <1>2 DEF V!Verify, V!netOnly, V!Loop!CheckCandidate
  <2> QED
    BY <1>2, <2>1, WiredKept DEF V!Verify, V!Loop!Next
<1>3. CASE V!Io
  <2>1. UNCHANGED <<cursor, old, pc, job, uploaded, start, checking, scanned, late>>
    BY <1>3 DEF V!Io, V!loopOnly
  <2>2. /\ Wired' /\ UNCHANGED submitted
        /\ \/ UNCHANGED <<jobs, current>>
           \/ current' = 0 /\ UNCHANGED jobs
           \/ \E a \in Announcements : /\ Len(jobs) < MaxJobs
                                       /\ jobs' = Append(jobs, a)
                                       /\ current' = Len(jobs) + 1
    BY <1>3, IoShows DEF V!Io
  <2>3. CASE UNCHANGED <<jobs, current>>
    BY <2>1, <2>2, <2>3 DEF V!Loop!vars
  <2>4. ASSUME current' = 0, UNCHANGED jobs, current # current'
        PROVE  V!Loop!Withdraw
    BY <2>1, <2>2, <2>4 DEF V!Loop!Withdraw, V!Loop!devVars, V!Loop!histVars
  <2>5. ASSUME NEW a \in Announcements, Len(jobs) < MaxJobs, jobs' = Append(jobs, a),
               current' = Len(jobs) + 1
        PROVE  V!Loop!Announce(a)
    BY <2>1, <2>2, <2>5 DEF V!Loop!Announce, V!Loop!devVars, V!Loop!histVars
  <2> QED
    BY <2>2, <2>3, <2>4, <2>5 DEF V!Loop!Next, V!Loop!Environment
<1>4. CASE V!Peer
  BY <1>4, PoolKeeps DEF V!Peer, V!loopOnly, V!Loop!vars, Unseen
<1>5. CASE V!Tick
  <2>1. UNCHANGED <<jobs, inbox>>
    BY <1>5 DEF V!Tick, V!netOnly, V!Loop!Age
  <2> QED
    BY <1>5, <2>1, WiredKept DEF V!Tick, V!Loop!Next, V!Loop!Environment
<1>6. CASE UNCHANGED V!vars
  <2>1. UNCHANGED <<jobs, inbox>> /\ UNCHANGED V!Loop!vars
    BY <1>6 DEF V!vars, V!loopOnly, V!netOnly, V!Loop!vars
  <2> QED
    BY <2>1, WiredKept
<1> QED
  BY <1>1, <1>2, <1>3, <1>4, <1>5, <1>6 DEF V!Next

\* Every step of the composition is one of Stratum, or one it does not see: a
\* verifier queues only shares of published jobs, and none a second time.
LEMMA NetStep ==
    ASSUME IndInv, [V!Next]_(V!vars)
    PROVE  [V!Net!Next]_(V!Net!vars)
<1> USE DEF V!Net!poolVars, V!Net!histVars, V!Net!connVars
<1>1. ASSUME NEW d \in Devices, V!Mine(d) PROVE UNCHANGED V!Net!vars
  BY <1>1 DEF V!Mine, V!netOnly, V!Net!vars, V!Loop!DeviceStep,
     V!Loop!TakeJob, V!Loop!CheckJob, V!Loop!PauseOld, V!Loop!Launch, V!Loop!EndPass,
     V!Loop!StopDevice, V!Loop!histVars
<1>2. ASSUME NEW c \in checking, V!Verify(c)
      PROVE  (\E s \in V!Net!Share : V!Net!Submit(s)) \/ UNCHANGED V!Net!vars
  <2>1. c \in V!Net!Share /\ c.job <= Len(jobs) /\ c \notin submitted
    <3>1. c \in Share /\ c.job <= Len(jobs)
      BY DEF IndInv, TypeOK
    <3>2. c \notin submitted
      BY DEF IndInv, CandidatesApart
    <3>3. Share = V!Net!Share
      BY DEF Share, V!Net!Share, Instances, V!Net!Instances, Nonces, V!Loop!Nonces
    <3> QED
      BY <3>1, <3>2, <3>3
  <2>2. UNCHANGED <<jobs, current>> /\ UNCHANGED V!netOnly
    BY <1>2 DEF V!Verify, V!Loop!CheckCandidate
  <2>3. CASE V!Loop!Hit(c)
    <3>1. outbox' = Append(outbox, c) /\ submitted' = submitted \union {c}
      BY <1>2, <2>3 DEF V!Verify, V!Loop!CheckCandidate
    <3>2. V!Net!Submit(c)
      BY <2>1, <2>2, <3>1 DEF V!Net!Submit, V!netOnly
    <3> QED
      BY <2>1, <3>2
  <2>4. CASE ~V!Loop!Hit(c)
    <3>1. UNCHANGED <<outbox, submitted>>
      BY <1>2, <2>4 DEF V!Verify, V!Loop!CheckCandidate
    <3> QED
      BY <2>2, <3>1 DEF V!netOnly, V!Net!vars
  <2> QED
    BY <2>3, <2>4
<1>3. V!Io => V!Net!Next
  BY DEF V!Io, V!Net!Next
<1>4. V!Peer => V!Net!Next
  BY DEF V!Peer, V!Net!Next
<1>5. V!Tick => UNCHANGED V!Net!vars
  BY DEF V!Tick, V!netOnly, V!Net!vars, V!Loop!Age, V!Loop!histVars
<1>6. UNCHANGED V!vars => UNCHANGED V!Net!vars
  BY DEF V!vars, V!netOnly, V!Net!vars
<1> QED
  BY <1>1, <1>2, <1>3, <1>4, <1>5, <1>6 DEF V!Next, V!Net!Next

-----------------------------------------------------------------------------
\* The io thread takes shares out of the channel, and only a verifier puts in.
LEMMA QueuedNext == ASSUME IndInv, Queued, [V!Next]_(V!vars) PROVE Queued'
<1> USE DEF V!Net!poolVars, V!Net!histVars, V!Net!connVars
<1>0. ASSUME UNCHANGED <<outbox, sent, submitted>> PROVE Queued'
  BY <1>0 DEF Queued
<1>1. ASSUME NEW d \in Devices, V!Mine(d) PROVE UNCHANGED <<outbox, sent, submitted>>
  BY <1>1 DEF V!Mine, V!netOnly, V!Loop!DeviceStep, V!Loop!TakeJob, V!Loop!CheckJob,
     V!Loop!PauseOld, V!Loop!Launch, V!Loop!EndPass, V!Loop!StopDevice, V!Loop!histVars
<1>2. ASSUME NEW c \in checking, V!Verify(c) PROVE Queued'
  <2>1. UNCHANGED sent
    BY <1>2 DEF V!Verify, V!netOnly
  <2>2. CASE V!Loop!Hit(c)
    <3>1. outbox' = Append(outbox, c) /\ submitted' = submitted \union {c}
      BY <1>2, <2>2 DEF V!Verify, V!Loop!CheckCandidate
    <3>2. outbox \in Seq(submitted \union {c})
      BY DEF Queued
    <3>3. Append(outbox, c) \in Seq(submitted \union {c})
      BY <3>2
    <3> QED
      BY <2>1, <3>1, <3>3 DEF Queued
  <2>3. CASE ~V!Loop!Hit(c)
    <3>1. UNCHANGED <<outbox, submitted>>
      BY <1>2, <2>3 DEF V!Verify, V!Loop!CheckCandidate
    <3> QED
      BY <1>0, <2>1, <3>1
  <2> QED
    BY <2>2, <2>3
<1>3. CASE V!Io
  <2>1. CASE V!Net!SendShare
    <3>1. outbox # <<>> /\ outbox' = Tail(outbox) /\ sent' = sent \union {Head(outbox)}
          /\ UNCHANGED submitted
      BY <2>1 DEF V!Net!SendShare
    <3> QED
      BY <3>1 DEF Queued
  <2>2. CASE V!Net!SendFails
    <3>1. outbox # <<>> /\ outbox' = Tail(outbox) /\ UNCHANGED <<sent, submitted>>
      BY <2>2 DEF V!Net!SendFails
    <3> QED
      BY <3>1 DEF Queued
  <2>3. CASE ~V!Net!SendShare /\ ~V!Net!SendFails
    <3>1. UNCHANGED <<outbox, sent, submitted>>
      BY <1>3, <2>3 DEF V!Io, V!Net!IoStep, V!Net!Connect, V!Net!ConnectFails,
         V!Net!Subscribe, V!Net!SubscribeFails, V!Net!Drained, V!Net!ReadFrame,
         V!Net!ReadTimeout, V!Net!ReadError, V!Net!LoseConnection
    <3> QED
      BY <1>0, <3>1
  <2> QED
    BY <2>1, <2>2, <2>3
<1>4. V!Peer => UNCHANGED <<outbox, sent, submitted>>
  BY DEF V!Peer, V!Net!PoolStep, V!Net!PoolAnnounces, V!Net!PoolAnswers,
     V!Net!PoolChatters, V!Net!Deliver, V!Net!Fault, V!Net!TransportGivesUp
<1>5. V!Tick => UNCHANGED <<outbox, sent, submitted>>
  BY DEF V!Tick, V!netOnly, V!Loop!Age, V!Loop!histVars
<1>6. UNCHANGED V!vars => UNCHANGED <<outbox, sent, submitted>>
  BY DEF V!vars, V!netOnly
<1> QED
  BY <1>0, <1>1, <1>2, <1>3, <1>4, <1>5, <1>6 DEF V!Next

-----------------------------------------------------------------------------
\* The invariant holds before the first step.
LEMMA InvInit == V!Init => Inv
<1> SUFFICES ASSUME V!Init PROVE Inv
  OBVIOUS
<1>1. IndInv
  BY SameInit, IndInvInit DEF V!Init
<1>2. Wired
  <2>1. jobs = <<>> /\ inbox = <<>>
    BY DEF V!Init, V!Net!Init
  <2>2. Len(<<>>) = 0 /\ <<>> \in Seq(Frame)
    OBVIOUS
  <2> QED
    BY <2>1, <2>2, PlacesNone, ConstantsAssumption DEF Wired
<1>3. Queued
  <2>1. outbox = <<>> /\ sent = {}
    BY DEF V!Init, V!Net!Init
  <2> QED
    BY <2>1 DEF Queued
<1> QED
  BY <1>1, <1>2, <1>3 DEF Inv

\* Every step keeps it.
LEMMA InvNext == Inv /\ [V!Next]_(V!vars) => Inv'
<1> SUFFICES ASSUME Inv, [V!Next]_(V!vars) PROVE Inv'
  OBVIOUS
<1>1. [V!Loop!Next]_(V!Loop!vars) /\ Wired'
  BY LoopStep DEF Inv, IndInv
<1>2. [Next]_vars
  BY <1>1, SameStep
<1> QED
  BY <1>1, <1>2, IndInvNext, QueuedNext DEF Inv

\* Every reachable state of the whole miner satisfies the inductive invariant of
\* the mining threads, and the inbox holds jobs there is room for.
THEOREM WholeInductive == V!Spec => []Inv
BY InvInit, InvNext, PTL DEF V!Spec

\* With the io thread and the pool as their environment the mining and verifier
\* threads do nothing they could not do alone.
THEOREM LoopKept == V!Spec => V!LoopImplemented
<1>1. V!Init => V!Loop!Init
  BY DEF V!Init
<1>2. Inv /\ [V!Next]_(V!vars) => [V!Loop!Next]_(V!Loop!vars)
  BY LoopStep DEF Inv, IndInv
<1> QED
  BY <1>1, <1>2, WholeInductive, PTL DEF V!Spec, V!LoopImplemented

\* With the verifier threads as its users the pool client does nothing it could
\* not do alone: each share of a published job is queued once.
THEOREM NetKept == V!Spec => V!NetImplemented
<1>1. V!Init => V!Net!Init
  BY DEF V!Init
<1>2. Inv /\ [V!Next]_(V!vars) => [V!Net!Next]_(V!Net!vars)
  BY NetStep DEF Inv
<1> QED
  BY <1>1, <1>2, WholeInductive, PTL DEF V!Spec, V!NetImplemented

\* What is written to the pool meets the target of the very job it is sent for.
THEOREM OnlySoundWritten == V!Spec => []V!WrittenSound
<1>1. Inv => V!WrittenSound
  BY DEF Inv, IndInv, Queued, CandidatesApart, Meets, V!WrittenSound, V!Loop!Meets
<1> QED
  BY <1>1, WholeInductive, PTL
=============================================================================
