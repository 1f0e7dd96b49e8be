------------------------------- MODULE GpuPass -------------------------------
(***************************************************************************)
(* One Miner of src/miner.rs and the queue of its GPU: run_stages records  *)
(* one command buffer per cn1 slice, submits each on its own, waits for    *)
(* the fence of the last one, adapts the number of slices and collects the *)
(* results; Drop frees what the GPU works on.                              *)
(*                                                                         *)
(* A group is one kernel dispatched for every shard.  The GPU may start    *)
(* and finish the dispatches of the queue in any order that the barriers   *)
(* in front of the groups leave open, across submissions as well.  What a  *)
(* dispatch makes of the buffers of its shard is modelled by how far the   *)
(* hashes of the pass have got, and a dispatch that does not find the      *)
(* state it needs leaves junk.                                             *)
(***************************************************************************)
EXTENDS Naturals, Sequences

CONSTANTS
    Shards,
    Iterations,     \* CN1_ITERATIONS
    AutoSlices,     \* CN1_AUTO_SLICES
    MaxSlices,      \* CN1_MAX_SLICES
    PassTime,       \* how long a full pass takes on this device ...
    TargetTime,     \* ... and CN1_TARGET_SLICE_MS, in the same unit
    StageChoices    \* how many stages a caller runs; mining runs all four

ASSUME GpuAssumption ==
    /\ Iterations \in Nat \ {0}
    /\ MaxSlices \in Nat \ {0}
    /\ AutoSlices \in 1 .. MaxSlices
    /\ PassTime \in Nat
    /\ TargetTime \in Nat
    /\ StageChoices \subseteq 1 .. 4

\* How far the hashes of a pass have got.
Junk == 0
Keys == 1
Run(n) == 2 + n                 \* scratchpad filled, n cn1 iterations run
Hashed == Iterations + 3

VARIABLES
    host,     \* idle, record, submit, wait, collect, error or freed
    stages,   \* how many stages this pass runs
    cn1_slices,
    auto,     \* cn1_slices_auto
    ci, from, \* recording: the slice to record, and its iter_start
    cmds,     \* the recorded command buffers, each a sequence of groups
    stream,   \* the groups submitted in this pass, in order
    fenceAt,  \* the fence signals when that many groups are done; 0: not submitted
    running,  \* dispatches on the GPU
    done,     \* dispatches that have finished, as <<group, shard>>
    data,     \* per shard, how far the hashes of this pass have got
    out,      \* per shard, whether the output buffer has been written
    failed    \* history: whether a call of the pass and the wait of Drop failed

hostVars == <<host, stages, cn1_slices, auto, ci, from, cmds, failed>>
gpuVars == <<stream, fenceAt, running, done, data, out>>
vars == <<hostVars, gpuVars>>

-----------------------------------------------------------------------------
\* run_stages: the slices of this pass, and the iterations of slice i.
Slices == IF stages < 3 THEN 1
          ELSE IF cn1_slices > Iterations THEN Iterations ELSE cn1_slices
BaseCount == Iterations \div Slices
Extra == Iterations % Slices

Count(i) == BaseCount + (IF i < Extra THEN 1 ELSE 0)

Group(k, b, n, c) == [kernel |-> k, barrier |-> b, first |-> n, count |-> c]

Cn0 == <<Group("cn0", FALSE, 0, 0)>>
Cn00 == <<Group("cn00", TRUE, 0, 0)>>
\* A plausible bug: only the first slice has a barrier in front.
Cn1NoBarrier(n, c) == <<Group("cn1", n = 0, n, c)>>
Cn1(n, c) == <<Group("cn1", TRUE, n, c)>>
Cn2 == <<Group("cn2", TRUE, 0, 0)>>

\* The command buffer of slice i, which starts at iteration n.
CommandBuffer(i, n) ==
    (IF i = 0 THEN Cn0 \o (IF stages >= 2 THEN Cn00 ELSE <<>>) ELSE <<>>)
    \o (IF stages >= 3 THEN Cn1(n, Count(i)) ELSE <<>>)
    \o (IF stages >= 4 /\ i = Slices - 1 THEN Cn2 ELSE <<>>)

\* What a kernel needs to find, whatever it is for cn0, and what it leaves.
Finds(g, s) ==
    CASE g.kernel = "cn0"  -> TRUE
      [] g.kernel = "cn00" -> data[s] = Keys
      [] g.kernel = "cn1"  -> data[s] = Run(g.first)
      [] g.kernel = "cn2"  -> data[s] = Run(Iterations)
Leaves(g) ==
    CASE g.kernel = "cn0"  -> Keys
      [] g.kernel = "cn00" -> Run(0)
      [] g.kernel = "cn1"  -> Run(g.first + g.count)
      [] g.kernel = "cn2"  -> Hashed

\* Where a pass of so many stages ends.
Goal == CASE stages = 1 -> Keys
          [] stages = 2 -> Run(0)
          [] stages = 3 -> Run(Iterations)
          [] stages = 4 -> Hashed

AllDone(n) == \A k \in 1 .. n, s \in Shards : <<k, s>> \in done
GpuIdle == running = {} /\ AllDone(Len(stream))

\* The groups before the last barrier up to group k must be done for it.
Ordered(k) ==
    \A b \in 1 .. k : stream[b].barrier => AllDone(b - 1)

\* Which submission carries the fence, and the slice count after a full pass:
\* the pass time bounds the time of its slices from above.
FenceOnSliceCount(i) == i = cn1_slices - 1
FenceOn(i) == i = Slices - 1

\* A plausible bug is NeverAdapted: the count stays.
TooLong == PassTime > TargetTime * cn1_slices
NeverAdapted == cn1_slices
Adapted ==
    IF auto /\ stages >= 3 /\ TooLong /\ cn1_slices < MaxSlices
    THEN IF 2 * cn1_slices > MaxSlices THEN MaxSlices ELSE 2 * cn1_slices
    ELSE cn1_slices

\* Drop does not wait for the device.
DropAtOnce ==
    /\ host \in {"idle", "error"}
    /\ host' = "freed"
    /\ UNCHANGED <<stages, cn1_slices, auto, ci, from, cmds, failed, gpuVars>>

-----------------------------------------------------------------------------
Init ==
    /\ host = "idle"
    /\ stages = 4
    /\ \/ auto = TRUE /\ cn1_slices = AutoSlices
       \/ auto = FALSE /\ cn1_slices \in 1 .. MaxSlices
    /\ ci = 0 /\ from = 0 /\ cmds = <<>>
    /\ stream = <<>> /\ fenceAt = 0
    /\ running = {} /\ done = {}
    /\ data = [s \in Shards |-> Junk]
    /\ out = [s \in Shards |-> "clear"]
    /\ failed = {}

(* The thread that owns the miner. *)

\* New nonce bases: nothing in the shards belongs to this pass yet.
BeginPass(n) ==
    /\ host = "idle"
    /\ host' = "record"
    /\ stages' = n
    /\ data' = [s \in Shards |-> Junk]
    /\ out' = [s \in Shards |-> "clear"]
    /\ UNCHANGED <<cn1_slices, auto, ci, from, cmds, failed, stream, fenceAt, running, done>>

RecordSlice ==
    /\ host = "record"
    /\ cmds' = Append(cmds, CommandBuffer(ci, from))
    /\ from' = IF stages >= 3 THEN from + Count(ci) ELSE from
    /\ \/ ci + 1 < Slices /\ ci' = ci + 1 /\ host' = "record"
       \/ ci + 1 = Slices /\ ci' = 0 /\ host' = "submit"
    /\ UNCHANGED <<stages, cn1_slices, auto, failed, gpuVars>>

SubmitSlice ==
    /\ host = "submit"
    /\ stream' = stream \o cmds[ci + 1]
    /\ fenceAt' = IF FenceOn(ci) THEN Len(stream') ELSE fenceAt
    /\ \/ ci + 1 < Slices /\ ci' = ci + 1 /\ host' = "submit"
       \/ ci + 1 = Slices /\ ci' = 0 /\ host' = "wait"
    /\ UNCHANGED <<stages, cn1_slices, auto, from, cmds, failed, running, done, data, out>>

\* An allocation, a recording call, a submission, the wait for the fence or its
\* reset fails, for want of memory for example: the pass ends with an error, and
\* what was submitted before stays on the queue.
CallFails ==
    /\ host \in {"record", "submit", "wait"}
    /\ host' = "error"
    /\ failed' = failed \union {"pass"}
    /\ UNCHANGED <<stages, cn1_slices, auto, ci, from, cmds, gpuVars>>

FenceSignals ==
    /\ host = "wait"
    /\ fenceAt # 0
    /\ AllDone(fenceAt)
    /\ host' = "collect"
    /\ cn1_slices' = Adapted
    /\ UNCHANGED <<stages, auto, ci, from, cmds, failed, gpuVars>>

\* The device is lost (a watchdog reset), which a submission or the wait
\* reports: what was on the queue is over.
DeviceLost ==
    /\ host \in {"submit", "wait"}
    /\ host' = "error"
    /\ failed' = failed \union {"pass"}
    /\ running' = {}
    /\ done' = (1 .. Len(stream)) \X Shards
    /\ data' = [s \in Shards |-> Junk]
    /\ UNCHANGED <<stages, cn1_slices, auto, ci, from, cmds, stream, fenceAt, out>>

\* The candidates are read; the command buffers may be recorded again.
Collect ==
    /\ host = "collect"
    /\ host' = "idle"
    /\ ci' = 0 /\ from' = 0 /\ cmds' = <<>>
    /\ stream' = <<>> /\ fenceAt' = 0 /\ done' = {}
    /\ UNCHANGED <<stages, cn1_slices, auto, failed, running, data, out>>

\* Drop: device_wait_idle, then everything is destroyed, also when the wait
\* fails: its result is not looked at.
DropMiner ==
    /\ host \in {"idle", "error"}
    /\ GpuIdle
    /\ host' = "freed"
    /\ UNCHANGED <<stages, cn1_slices, auto, ci, from, cmds, failed, gpuVars>>

DropAfterFailedWait ==
    /\ host \in {"idle", "error"}
    /\ host' = "freed"
    /\ failed' = failed \union {"drop"}
    /\ UNCHANGED <<stages, cn1_slices, auto, ci, from, cmds, gpuVars>>

(* The GPU. *)

OnShard(s) == {r \in running : r.shard = s}

StartDispatch(k, s) ==
    /\ <<k, s>> \notin done
    /\ \A r \in OnShard(s) : r.group # k
    /\ Ordered(k)
    /\ running' = running \union
         {[group |-> k, shard |-> s, sound |-> Finds(stream[k], s) /\ OnShard(s) = {}]}
    /\ data' = [data EXCEPT ![s] = Junk]
    /\ UNCHANGED <<hostVars, stream, fenceAt, done, out>>

FinishDispatch(r) ==
    /\ running' = running \ {r}
    /\ done' = done \union {<<r.group, r.shard>>}
    /\ data' = [data EXCEPT ![r.shard] =
                  IF r.sound /\ OnShard(r.shard) = {r} THEN Leaves(stream[r.group]) ELSE Junk]
    /\ out' = IF stream[r.group].kernel = "cn2"
              THEN [out EXCEPT ![r.shard] = "written"] ELSE out
    /\ UNCHANGED <<hostVars, stream, fenceAt>>

-----------------------------------------------------------------------------
HostWork ==
    \/ \E n \in StageChoices : BeginPass(n)
    \/ RecordSlice
    \/ SubmitSlice
    \/ FenceSignals
    \/ Collect

GpuStep ==
    \/ \E k \in 1 .. Len(stream), s \in Shards : StartDispatch(k, s)
    \/ \E r \in running : FinishDispatch(r)

Next ==
    HostWork \/ CallFails \/ DeviceLost \/ DropMiner \/ DropAfterFailedWait \/ GpuStep

\* The mining thread starts pass after pass, and the GPU makes progress; that
\* the device is lost is not counted on.
Spec == Init /\ [][Next]_vars /\ WF_vars(HostWork) /\ WF_vars(GpuStep)

-----------------------------------------------------------------------------
Groups ==
    {g \in [kernel : {"cn0", "cn00", "cn1", "cn2"}, barrier : BOOLEAN,
            first : 0 .. Iterations, count : 0 .. Iterations] :
       g.first + g.count <= Iterations}

\* Every variable has the type its declaration names; the number of slices
\* stays within the limit of auto mode.
TypeOK ==
    /\ host \in {"idle", "record", "submit", "wait", "collect", "error", "freed"}
    /\ stages \in 1 .. 4
    /\ cn1_slices \in 1 .. MaxSlices
    /\ auto \in BOOLEAN
    /\ ci \in 0 .. MaxSlices - 1
    /\ from \in 0 .. Iterations
    /\ cmds \in Seq(Seq(Groups)) /\ Len(cmds) <= MaxSlices
    /\ stream \in Seq(Groups)
    /\ fenceAt \in 0 .. Len(stream)
    /\ running \subseteq [group : 1 .. Len(stream), shard : Shards, sound : BOOLEAN]
    /\ done \subseteq (1 .. Len(stream)) \X Shards
    /\ data \in [Shards -> Junk .. Hashed]
    /\ out \in [Shards -> {"clear", "written"}]
    /\ failed \subseteq {"pass", "drop"}

\* While the host writes the mapped buffers, reads results or records command
\* buffers, no submitted work is left on the GPU; and one failure, of whatever
\* call, never frees buffers the GPU works in: that takes a pass that fails with
\* work on the queue, and a failed device_wait_idle after it.
HostOwns ==
    /\ host \in {"idle", "record", "collect"} => GpuIdle
    /\ host = "freed" /\ ~GpuIdle => failed = {"pass", "drop"}

\* What is collected is complete: however the dispatches of different shards
\* and submissions overlapped, each shard went through all its stages, and
\* each slice found exactly the iterations before it done.
ResultsComplete ==
    host = "collect" =>
        \A s \in Shards : data[s] = Goal /\ (out[s] = "written" <=> stages = 4)

\* A submitted pass ends, with results or with an error.
PassEnds == (host = "submit") ~> (host \in {"idle", "error"})

\* The slices are short enough for the GPU watchdog, or as many as they may be.
Settled ==
    \/ cn1_slices = MaxSlices
    \/ cn1_slices < MaxSlices /\ PassTime <= TargetTime * cn1_slices

\* In auto mode a miner that keeps mining reaches such a number and stays with
\* it; passes of the self-test that stop earlier do not undo that.
SlicesSettle ==
    []<>(host = "collect" /\ stages = 4) => <>[](Settled \/ ~auto)
=============================================================================
