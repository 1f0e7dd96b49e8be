------------------------------ MODULE Startup -------------------------------
(***************************************************************************)
(* The program from its start: main of src/main.rs up to the report loop,  *)
(* with Gpu (src/vk.rs), select_crdiv and the measurements of tune_shards  *)
(* (src/autotune.rs), the micro test and the self test, and the objects    *)
(* that all of them create and give back.                                  *)
(*                                                                         *)
(* The main thread prepares one device after the other while the earlier   *)
(* ones already mine.  Vulkan objects are created one in a step; each      *)
(* creation may fail.  A device chosen twice is two devices here, as it is *)
(* in the program.  Which count a sweep measures next is left open: that   *)
(* is module Tuner; what a mining thread does is module MineLoop.          *)
(***************************************************************************)
EXTENDS Layout, VkObjects

CONSTANTS
    Systems,    \* what enumerate may find: sequences of devices
    Configs,    \* command lines; see MCStartup for the fields
    Cached      \* shard counts that the tune cache may hold for a key

VARIABLES
    sys, cfg,   \* the devices and the command line
    chosen,     \* the devices selected, in order
    stage,      \* where the main thread is
    cur,        \* the device it prepares
    plan, at,   \* the objects it is creating, and how many there are
    trying,     \* divide variants not tried yet
    exact,      \* microtest::run: the variants found exact
    count,      \* the shard count being measured
    speeds,     \* <<count, TRUE>> for a count measured, <<count, FALSE>> scored out
    checked,    \* stages the self test has passed
    outcome,    \* what main returned: none, ok or err
    setup,      \* per device: tps, shards, wave, divide
    objs,       \* per device: the objects of what is being created or is alive
    leaked,     \* per device: why objects stay behind, halfway or dropped
    failed,     \* <<device, what>>: an open, a create or a pass has failed
    gpu,        \* per device: none, open or gone
    thread,     \* per device: none, mining or stopped
    mainHolds,  \* main still holds its Arc<Instance>
    instance,   \* the VkInstance exists
    stats       \* the stats file and its .tmp: absent, part or whole

deviceVars == <<setup, objs, leaked, failed, gpu, thread>>
creation == <<plan, at>>
choices == <<trying, exact, count, speeds, checked>>
vars == <<sys, cfg, chosen, stage, cur, creation, choices, outcome, deviceVars,
          mainHolds, instance, stats>>

Devs == 1 .. Len(chosen)
Dev == chosen[cur]

-----------------------------------------------------------------------------
\* Crdiv::ALL, the fastest first.
All == <<"rcp", "markstein", "fp64">>
Variants == {"rcp", "markstein", "fp64"}
None == ""
Usable(d, v) == v = "fp64" => d.fp64

Supported(d, n) == n \in {32, 64} /\ d.min_sub <= n /\ n <= d.max_sub

\* resolve_wave and required_subgroup_size; 0: the driver chooses.
ResolveWave(d, w) ==
    CASE w = "driver" -> 0
      [] w = "32" -> IF d.ctl /\ Supported(d, 32) THEN 32 ELSE 0
      [] w = "64" -> IF d.ctl /\ Supported(d, 64) THEN 64 ELSE 0
      [] OTHER -> IF d.ctl /\ d.amd /\ Supported(d, 64) THEN 64 ELSE 0

\* The elements of s at the places P, in their order.
Filtered(s, P) ==
    [k \in 1 .. Cardinality(P) |-> s[CHOOSE i \in P : Cardinality({j \in P : j <= i}) = k]]

\* Devices in the order of the command line; of all of them, of the vendors'.
Offered(s, c) ==
    IF c.all THEN s ELSE Filtered(s, {i \in 1 .. Len(s) : s[i].vendor})
Chosen(s, c) ==
    LET offered == Offered(s, c)
        inRange == Filtered(c.sel, {k \in 1 .. Len(c.sel) : c.sel[k] \in 1 .. Len(offered)})
    IN  IF \A k \in 1 .. Len(c.sel) : c.sel[k] = 0 THEN offered
        ELSE [k \in 1 .. Len(inRange) |-> offered[inRange[k]]]

\* The variants that select_crdiv goes through.  A plausible bug: in another
\* order.
RequestedReordered(c) == IF c.crdiv = "auto" THEN <<"markstein", "rcp", "fp64">> ELSE <<c.crdiv>>
Requested(c) == IF c.crdiv = "auto" THEN All ELSE <<c.crdiv>>

\* A plausible bug: what another card of the same name could hold is used.
ClampedBelow(d, tps, n) == Max2(1, n)
Clamped(d, tps, n) == Max2(1, Min2(n, Max2(MaxShards(d, tps), 1)))

\* The Arc count of the instance.
Holders(open, main) == Cardinality(open) + IF main THEN 1 ELSE 0

\* What enumerate tells of a device, with what its hardware and driver do: the
\* variants they divide exactly with, and the lanes of the self test that go
\* wrong with the stage from which on.
Device ==
    [vendor : BOOLEAN, amd : BOOLEAN, cu : Nat, min_sub : Nat, max_sub : Nat,
     ctl : BOOLEAN, mem : Nat, max_alloc : Nat, int64 : BOOLEAN, fp64 : BOOLEAN,
     exact : SUBSET Variants, diverges : SUBSET ((0 .. 63) \X (1 .. 4))]

\* A command line: devices by number; 0 shards or tps for auto; intensity in
\* percent, a negative one is accepted.
CommandLine ==
    [mode : {"mine", "microtest", "selftest", "info"}, all : BOOLEAN, sel : Seq(Nat),
     tps : Nat, shards : Nat, intensity : Int, tune : BOOLEAN, crdiv : STRING,
     wave : STRING]

ASSUME StartupAssumption ==
    /\ Lane \in Nat \ {0}
    /\ Systems \subseteq Seq(Device)
    /\ Configs \subseteq CommandLine
    /\ Cached \subseteq Nat

-----------------------------------------------------------------------------
Init ==
    /\ sys \in Systems /\ cfg \in Configs
    /\ chosen = <<>> /\ stage = "select" /\ cur = 1
    /\ plan = <<>> /\ at = 0
    /\ trying = <<>> /\ exact = {} /\ count = 0 /\ speeds = {} /\ checked = 0
    /\ outcome = "none"
    /\ setup = <<>> /\ objs = <<>> /\ leaked = <<>> /\ failed = {}
    /\ gpu = <<>> /\ thread = <<>>
    /\ mainHolds = TRUE /\ instance = TRUE
    /\ stats \in {[path |-> "absent", tmp |-> "absent"], [path |-> "whole", tmp |-> "part"]}

\* Main goes on to return an error; what it holds is dropped on the way.
Bail == stage' = "unwind" /\ outcome' = "err"

Select ==
    /\ stage = "select"
    /\ chosen' = IF cfg.mode = "info" THEN <<>> ELSE Chosen(sys, cfg)
    /\ setup' = [d \in 1 .. Len(chosen') |-> [tps |-> 64, shards |-> 1, wave |-> 0, divide |-> None]]
    /\ objs' = [d \in 1 .. Len(chosen') |-> {}]
    /\ leaked' = [d \in 1 .. Len(chosen') |-> {}]
    /\ gpu' = [d \in 1 .. Len(chosen') |-> "none"]
    /\ thread' = [d \in 1 .. Len(chosen') |-> "none"]
    /\ IF cfg.mode = "info" THEN stage' = "unwind" /\ outcome' = "ok"
       ELSE IF chosen' = <<>> THEN Bail
       ELSE /\ stage' = IF cfg.mode = "mine" THEN "layout" ELSE "open"
            /\ UNCHANGED outcome
    /\ UNCHANGED <<sys, cfg, cur, creation, choices, failed, mainHolds, instance, stats>>

\* select_layout, and the check of the largest allocation.
PlanLayout ==
    /\ stage = "layout"
    /\ \E tps \in {SelectTps(Dev, cfg)} :
          /\ setup' = [setup EXCEPT ![cur].tps = tps,
                                    ![cur].shards = SelectShards(Dev, cfg, tps)]
          /\ IF Lane * tps > Dev.max_alloc
             THEN Bail
             ELSE stage' = "open" /\ UNCHANGED outcome
    /\ UNCHANGED <<sys, cfg, chosen, cur, creation, choices, objs, leaked, failed, gpu, thread,
                   mainHolds, instance, stats>>

\* Gpu::new, which asks for 64-bit integers first; and resolve_wave.
OpenGpu ==
    /\ stage = "open"
    /\ \/ /\ Dev.int64
          /\ gpu' = [gpu EXCEPT ![cur] = "open"]
          /\ setup' = [setup EXCEPT ![cur].wave =
                           IF cfg.mode = "microtest" THEN 0 ELSE ResolveWave(Dev, cfg.wave)]
          /\ trying' = IF cfg.mode = "microtest" THEN All ELSE Requested(cfg)
          /\ stage' = "divide"
          /\ UNCHANGED <<outcome, failed>>
       \/ /\ Bail
          /\ failed' = failed \union {<<cur, "open">>}
          /\ UNCHANGED <<gpu, setup, trying>>
    /\ UNCHANGED <<sys, cfg, chosen, cur, creation, exact, count, speeds, checked, objs, leaked,
                   thread, mainHolds, instance, stats>>

\* The objects of a Miner that is to mine with n shards, and those of the self
\* test's; what their drops destroy.
MiningPlan(n) == MinerPlan(n, FALSE)
TestPlan == MinerPlan(1, TRUE)
MiningDestroys(n) == MinerDestroys(n, FALSE)
TestDestroys == MinerDestroys(1, TRUE)

\* Starts to create objects.
Begin(s, objects) == stage' = s /\ plan' = objects /\ at' = 0

\* The next variant of select_crdiv or of microtest::run, compared unless the
\* device has no 64-bit floats; none left, or a name that is no variant.
TryDivide ==
    /\ stage = "divide" /\ trying # <<>> /\ Head(trying) \in Variants
    /\ IF Usable(Dev, Head(trying))
       THEN Begin("compare", ComparePlan) /\ UNCHANGED <<trying, outcome>>
       ELSE IF cfg.mode = "microtest" \/ cfg.crdiv = "auto"
       THEN trying' = Tail(trying) /\ UNCHANGED <<stage, outcome, creation>>
       ELSE Bail /\ UNCHANGED <<trying, creation>>
    /\ UNCHANGED <<sys, cfg, chosen, cur, exact, count, speeds, checked, deviceVars, mainHolds,
                   instance, stats>>

NoDivideLeft ==
    /\ stage = "divide"
    /\ trying # <<>> => Head(trying) \notin Variants
    /\ stage' = "unwind"
    /\ outcome' = IF cfg.mode = "microtest" /\ exact # {} THEN "ok" ELSE "err"
    /\ UNCHANGED <<sys, cfg, chosen, cur, creation, choices, deviceVars, mainHolds, instance, stats>>

\* One creation succeeds.
Create ==
    /\ stage \in {"compare", "measure", "build", "selftest"}
    /\ at < Len(plan)
    /\ at' = at + 1
    /\ objs' = [objs EXCEPT ![cur] = @ \union {plan[at + 1]}]
    /\ UNCHANGED <<sys, cfg, chosen, stage, cur, plan, choices, outcome, setup, leaked, failed,
                   gpu, thread, mainHolds, instance, stats>>

\* What has been created is given up: those that ds names are destroyed, the
\* others stay behind.
Drops(d, ds, why) ==
    /\ objs' = [objs EXCEPT ![d] = {}]
    /\ leaked' = [leaked EXCEPT ![d] = IF objs[d] \subseteq ds THEN @ ELSE @ \union {why}]

\* How a candidate enters the results: a failed one is scored out.
ScoredAgain(ok) == IF ok THEN speeds \union {<<count, ok>>} ELSE speeds
Scored(ok) == speeds \union {<<count, ok>>}

\* What a failing call leads to: the next candidate, or the end.
GiveUp(what) ==
    /\ failed' = failed \union {<<cur, what>>}
    /\ IF stage = "measure"
       THEN stage' = "tune" /\ speeds' = Scored(FALSE) /\ UNCHANGED outcome
       ELSE Bail /\ UNCHANGED speeds

\* A creation fails, or in compare a submission: nothing created so far has a
\* destructor yet.
CreateFails ==
    /\ stage \in {"compare", "measure", "build", "selftest"}
    /\ at < Len(plan) \/ stage = "compare"
    /\ Drops(cur, {}, "halfway")
    /\ GiveUp("create")
    /\ UNCHANGED <<sys, cfg, chosen, cur, creation, trying, exact, count, checked, setup, gpu,
                   thread, mainHolds, instance, stats>>

\* Miner::new asserts that tps is a multiple of 64: a panic, not an error.
Build(s, objects, tps) ==
    IF tps % 64 = 0
    THEN Begin(s, objects) /\ UNCHANGED outcome
    ELSE Bail /\ UNCHANGED creation

\* compare has its result and has cleaned up.
Compared ==
    /\ stage = "compare" /\ at = Len(plan)
    /\ Drops(cur, CompareDestroys, "dropped")
    /\ LET v == Head(trying)
           same == v \in Dev.exact
       IN  IF cfg.mode = "microtest" \/ (cfg.crdiv = "auto" /\ ~same)
           THEN /\ exact' = IF same THEN exact \union {v} ELSE exact
                /\ trying' = Tail(trying)
                /\ stage' = "divide"
                /\ UNCHANGED <<setup, outcome, creation>>
           ELSE IF ~same
           THEN Bail /\ UNCHANGED <<exact, trying, setup, creation>>
           ELSE /\ setup' = [setup EXCEPT ![cur].divide = v]
                /\ CASE cfg.mode = "selftest" -> Build("selftest", TestPlan, 64)
                     [] cfg.mode = "mine" /\ cfg.tune /\ cfg.shards = 0 ->
                            stage' = "tune" /\ UNCHANGED <<outcome, creation>>
                     [] OTHER -> Build("build", MiningPlan(setup[cur].shards), setup[cur].tps)
                /\ UNCHANGED <<exact, trying>>
    /\ UNCHANGED <<sys, cfg, chosen, cur, count, speeds, checked, failed, gpu, thread, mainHolds,
                   instance, stats>>

Tuned(n) ==
    /\ setup' = [setup EXCEPT ![cur].shards = n]
    /\ Build("build", MiningPlan(n), setup[cur].tps)

\* tune_shards answers from the cache, measures a count, or concludes.
UseCached ==
    /\ stage = "tune" /\ speeds = {}
    /\ \E n \in Cached : Tuned(Clamped(Dev, setup[cur].tps, n))
    /\ UNCHANGED <<sys, cfg, chosen, cur, choices, objs, leaked, failed, gpu, thread, mainHolds,
                   instance, stats>>

MeasureNext ==
    /\ stage = "tune"
    /\ \E n \in 1 .. Max2(MaxShards(Dev, setup[cur].tps), 1) :
          /\ \A ok \in BOOLEAN : <<n, ok>> \notin speeds
          /\ count' = n
          /\ Build("measure", MiningPlan(n), setup[cur].tps)
    /\ UNCHANGED <<sys, cfg, chosen, cur, trying, exact, speeds, checked, deviceVars, mainHolds,
                   instance, stats>>

Conclude ==
    /\ stage = "tune" /\ speeds # {}
    /\ \/ \E n \in {r[1] : r \in {r \in speeds : r[2]}} : Tuned(n)
       \/ (\A r \in speeds : ~r[2]) /\ Bail /\ UNCHANGED <<setup, creation>>
    /\ UNCHANGED <<sys, cfg, chosen, cur, choices, objs, leaked, failed, gpu, thread, mainHolds,
                   instance, stats>>

\* The passes of a candidate are timed, or one fails; its Miner is dropped.
Measured ==
    /\ stage = "measure" /\ at = Len(plan)
    /\ Drops(cur, MiningDestroys(count), "dropped")
    /\ \/ stage' = "tune" /\ speeds' = Scored(TRUE) /\ UNCHANGED <<outcome, failed>>
       \/ GiveUp("pass")
    /\ UNCHANGED <<sys, cfg, chosen, cur, creation, trying, exact, count, checked, setup, gpu,
                   thread, mainHolds, instance, stats>>

\* The Miner is complete: its thread starts, main turns to the next device.
StartMining ==
    /\ stage = "build" /\ at = Len(plan)
    /\ thread' = [thread EXCEPT ![cur] = "mining"]
    /\ IF cur < Len(chosen)
       THEN cur' = cur + 1 /\ stage' = "layout"
       ELSE stage' = "report" /\ UNCHANGED cur
    /\ speeds' = {}
    /\ UNCHANGED <<sys, cfg, chosen, creation, trying, exact, count, checked, outcome, setup,
                   objs, leaked, failed, gpu, mainHolds, instance, stats>>

\* The lanes selftest::run compares after each stage.  A plausible bug: the
\* last stage compares as many as the third.
LanesComparedFew(s) == IF s < 3 THEN {0} ELSE 0 .. 3
LanesCompared(s) == CASE s < 3 -> {0} [] s = 3 -> 0 .. 3 [] OTHER -> 0 .. 63

\* Lanes that are wrong after stage s: they diverged there or before.
WrongLanes(d, s) == {w[1] : w \in {w \in d.diverges : w[2] <= s}}

SelfTest ==
    /\ stage = "selftest" /\ at = Len(plan)
    /\ LET s == checked + 1
           verdict == IF LanesCompared(s) \intersect WrongLanes(Dev, s) # {} THEN "err"
                      ELSE IF s = 4 THEN "ok" ELSE "none"
       IN  \/ /\ verdict = "none" /\ checked' = s
              /\ UNCHANGED <<stage, outcome, objs, leaked, failed>>
           \/ /\ verdict # "none" /\ Drops(cur, TestDestroys, "dropped")
              /\ stage' = "unwind" /\ outcome' = verdict
              /\ UNCHANGED <<checked, failed>>
           \/ /\ Drops(cur, TestDestroys, "dropped")
              /\ Bail /\ failed' = failed \union {<<cur, "pass">>}
              /\ UNCHANGED checked
    /\ UNCHANGED <<sys, cfg, chosen, cur, creation, trying, exact, count, speeds, setup, gpu,
                   thread, mainHolds, instance, stats>>

-----------------------------------------------------------------------------
Opened == {d \in Devs : gpu[d] = "open"}

\* The last Arc<Gpu> of a device goes: Gpu::drop, and its Arc<Instance>.
CloseGpu(d) ==
    /\ gpu' = [gpu EXCEPT ![d] = "gone"]
    /\ instance' = (instance /\ Holders(Opened \ {d}, mainHolds) > 0)

\* run_iteration fails in a mining thread: the thread ends, its Miner with it.
MinerStops(d) ==
    /\ thread[d] = "mining" /\ stage # "exit"
    /\ thread' = [thread EXCEPT ![d] = "stopped"]
    /\ Drops(d, MiningDestroys(setup[d].shards), "dropped")
    /\ CloseGpu(d)
    /\ failed' = failed \union {<<d, "pass">>}
    /\ UNCHANGED <<sys, cfg, chosen, stage, cur, creation, choices, outcome, setup, mainHolds,
                   stats>>

\* main returns: its Gpu, then its Instance; the end of the process ends the
\* threads, which drop nothing.
DropGpu ==
    /\ stage = "unwind" /\ cur \in Opened /\ thread[cur] = "none"
    /\ CloseGpu(cur)
    /\ UNCHANGED <<sys, cfg, chosen, stage, cur, creation, choices, outcome, setup, objs, leaked,
                   failed, thread, mainHolds, stats>>

DropInstance ==
    /\ stage = "unwind" /\ ~(cur \in Opened /\ thread[cur] = "none")
    /\ stage' = "returned"
    /\ mainHolds' = FALSE
    /\ instance' = (Holders(Opened, FALSE) > 0)
    /\ UNCHANGED <<sys, cfg, chosen, cur, creation, choices, outcome, deviceVars, stats>>

Exit ==
    /\ stage = "returned" /\ stage' = "exit"
    /\ UNCHANGED <<sys, cfg, chosen, cur, creation, choices, outcome, deviceVars, mainHolds,
                   instance, stats>>

\* write_stats: the .tmp is truncated and written, then renamed.  A plausible
\* bug: it is renamed although it could not be written.
AfterFailedWriteRename == "rename"
AfterFailedWrite == "report"

ReportUnchanged == UNCHANGED <<sys, cfg, chosen, cur, creation, choices, outcome, deviceVars,
                               mainHolds, instance>>
OpenStats ==
    /\ stage = "report"
    /\ stage' = "write" /\ stats' = [stats EXCEPT !.tmp = "part"]
    /\ ReportUnchanged
WriteStats ==
    /\ stage = "write"
    /\ \/ stage' = "rename" /\ stats' = [stats EXCEPT !.tmp = "whole"]
       \/ stage' = AfterFailedWrite /\ UNCHANGED stats
    /\ ReportUnchanged
RenameStats ==
    /\ stage = "rename" /\ stage' = "report"
    /\ \/ stats' = [path |-> stats.tmp, tmp |-> "absent"]
       \/ UNCHANGED stats
    /\ ReportUnchanged

-----------------------------------------------------------------------------
MainStep ==
    \/ Select \/ PlanLayout \/ OpenGpu \/ TryDivide \/ NoDivideLeft
    \/ Create \/ CreateFails \/ Compared \/ UseCached \/ MeasureNext \/ Measured
    \/ Conclude \/ StartMining \/ SelfTest \/ DropGpu \/ DropInstance \/ Exit
    \/ OpenStats \/ WriteStats \/ RenameStats

Next == MainStep \/ \E d \in Devs : MinerStops(d)

\* The main thread goes on: a Vulkan call returns, if only an error.
Spec == Init /\ [][Next]_vars /\ WF_vars(MainStep)

-----------------------------------------------------------------------------
\* The layout that main plans for a device: WithinBudget, its scratchpads stay
\* within 80% of the memory unless they are a single shard, its tps is a
\* multiple of 64, as Miner::new asserts, and one shard fits the largest
\* allocation wherever a shard can; Closest, a larger tps is given up only for
\* lanes that are really gained, and none that is missed would gain more;
\* OvershootsLittle, a shard is added only for lanes that the target asks for.
LayoutBest ==
    stage = "open" /\ cfg.mode = "mine" =>
        /\ cfg.tps = 0 => WithinBudget(Dev, cfg, setup[cur])
        /\ cfg.tps = 0 /\ cfg.shards = 0 =>
              Closest(Dev, cfg, [tps |-> setup[cur].tps, shards |-> setup[cur].shards])
        /\ cfg.shards = 0 => OvershootsLittle(Dev, cfg, setup[cur])

\* Whichever thread drops its part first, objects go before their device and
\* devices before their instance; and the destructors and the cleanup of
\* compare leave nothing behind: an object outlives its owner only where a
\* creation or submission failed halfway.
LifetimesNest ==
    /\ \A d \in Devs :
          /\ "dropped" \notin leaked[d]
          /\ leaked[d] # {} => <<d, "create">> \in failed
          /\ gpu[d] # "open" => objs[d] = {}
    /\ Opened # {} => instance

\* The descriptor pool of a Miner holds the sets that are allocated from it and
\* all their descriptors, for every number of shards and in debug mode too.
PoolSuffices ==
    stage \in {"measure", "build", "selftest"} /\ at = Len(plan) =>
        LET n == CASE stage = "measure" -> count
                   [] stage = "build" -> setup[cur].shards
                   [] OTHER -> 1
            debug == stage = "selftest"
        IN  /\ Cardinality(SetsIn(plan)) <= PoolSets(n, debug)
            /\ Cardinality(SlotsIn(plan)) <= PoolDescriptors(n, debug)

\* A pipeline is made with what the device was opened for: 64-bit integers,
\* 64-bit floats for the fp64 divide, a subgroup size it lets a pipeline pin.
PipelinesValid ==
    \A d \in Devs :
        LET has(p) == <<p, 0, "pipeline">> \in objs[d]
            dev == chosen[d]
            pinned == setup[d].wave
        IN  /\ has("cn0") \/ has("sctest") => dev.int64
            /\ has("sctest") => Usable(dev, Head(trying))
            /\ has("cn1") => Usable(dev, setup[d].divide)
            /\ has("cn1") /\ pinned # 0 =>
                  dev.ctl /\ pinned \in dev.min_sub .. dev.max_sub

\* Main asks nothing of a device that Vulkan does not allow it to ask.
ValidUsage == PoolSuffices /\ PipelinesValid

\* No device mines with a divide that differs from the reference, chosen or
\* forced; auto takes the fastest that does not.
MinesExact ==
    \A d \in Devs : thread[d] = "mining" =>
        /\ setup[d].divide \in chosen[d].exact
        /\ cfg.crdiv = "auto" =>
              \A i, j \in 1 .. 3 :
                  /\ All[j] = setup[d].divide /\ i < j
                  /\ Usable(chosen[d], All[i])
                  => All[i] \notin chosen[d].exact

\* What was planned, tuned or cached stays within 80% of the device's memory
\* unless the user forced it or it is one shard.
PlansFitMemory ==
    \A d \in Devs : thread[d] = "mining" /\ cfg.shards = 0 =>
        \/ setup[d].shards = 1
        \/ 5 * Lane * setup[d].tps * setup[d].shards <= 4 * chosen[d].mem

\* Whoever reads the stats file finds all of it or none.
StatsWhole == stats.path # "part"

\* The tests mean what they say: a passed self test, that no lane diverges at
\* any stage and the divide is exact; a passed micro test, that some usable
\* variant is exact; and a failed one without a failed call, the opposite.
VerdictsTrue ==
    LET good == IF cfg.mode = "selftest"
                THEN Dev.diverges = {} /\ \E v \in Dev.exact :
                        Usable(Dev, v) /\ cfg.crdiv \in {"auto", v}
                ELSE \E v \in Dev.exact : Usable(Dev, v)
    IN  (cfg.mode \in {"selftest", "microtest"} /\ chosen # <<>>) =>
            /\ outcome = "ok" => good
            /\ outcome = "err" /\ failed = {} => ~good

\* The program gets to its report loop or ends.
StartupEnds == <>(stage \in {"report", "exit"})
=============================================================================
