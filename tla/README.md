# A TLA+ model of VulkMiner

VulkMiner (`src/`) mines a CryptoNight-GPU currency on Vulkan devices. It gets
jobs from a pool, scans nonce ranges of the current job on one or more GPUs,
re-hashes on the CPU what a GPU flags, and sends what holds back to the pool.
This directory holds TLA+ modules of its parts, TLC configurations that check
them on small instances, and TLAPS proofs. Crate sources are in `src/src/`,
kernels in `src/shaders/`.

## 1. Inventory

### Components

| component | source | state it keeps | operations |
|---|---|---|---|
| mining threads | `main.rs` `mine_loop`, `stratum.rs` `Job` | per device: the job it works on, the uploaded input, the range in flight; per job: `nonce_cursor`, `received` | take a job, compare ids, pause on an old job, reserve a range, run a pass, spawn verifiers, stop on an error |
| pool client | `stratum.rs` `StratumPool` | `Shared` (job shown, two share counters), the channel of shares, the connection | connect, subscribe, drain and write shares, read a frame, answer a ping, count an answer, publish a job, reconnect |
| GPU pass | `miner.rs` `Miner` | shards (nonce base, mapped output), command buffers, `cn1_slices`, one fence | record, submit per slice, poll the fence, adapt the slices, collect, drop |
| shard tuner and its cache | `autotune.rs` | the counts measured so far; a JSON file shared by all processes of a user | look up, measure, climb, save |
| layout solver | `autotune.rs` `select_layout` | none | lanes and shards of a device from its size |
| divide selection | `autotune.rs` `select_crdiv` | none | the first divide that is exact on the device |
| startup | `main.rs` `main` | the device in hand, what was built for it, threads started | pick devices, lay out, open, choose a divide, tune and build a miner per device, spawn threads, unwind |
| reporter | `main.rs` `main`, `write_stats` | smoothed hashrate per device, the stats file | report each 10 s, write and rename the file |
| mock pool | `stratum.rs` `MockPool` | one job | show it, drop shares |
| job fields | `stratum.rs` `parse_job` | none | target, extra nonce, input of a notification |
| candidate output | `cn2.comp`, `miner.rs` | 8 lanes and two exchange buffers of a hash, 256 words per shard | rounds between barriers, atomic append, capped read |
| cooperative kernel | `cn1.comp` | 16 lanes, shared memory of a hash, the save buffer | one iteration in segments between barriers; load and save of a slice |
| Vulkan objects | `vk.rs`, `miner.rs` `Miner::new`, `drop`, `microtest.rs` `compare` | handles, memory, reference counts | create, destroy |
| CPU hash, kernels' arithmetic | `cnhash.rs`, `aes_tables.rs`, `shaders/` | none | the hash |
| self tests | `selftest.rs`, `microtest.rs` | none | compare GPU and CPU, exit |
| command line, build, packaging | `config.rs`, `build.rs`, `hiveos/` | none | declarations and scripts |

### How they interact

```
            Announce / Withdraw (Mutex<Option<Arc<Job>>>)
 io thread --------------------------------------------> mining thread per device
     ^                                                     |  reserve: fetch_add on the
     |                                                     |  cursor all devices share
     |  mpsc channel of shares                             v
 verifier threads <------------------------------------ run_iteration (GPU pass)
    (detached, one per candidate)      candidates
```

Shared between threads are the job that is shown (behind a mutex, read anew by
every `current_job`), the cursor of each job (atomic), the channel (one reader,
the io thread), and the counters (atomic, read by the reporter). Everything
else belongs to one thread. A mining thread is the only user of its `Miner`;
the GPU works on the miner's buffers between a submission and the fence.

### What is hard here, and what makes each part correct

* **Mining threads.** The look at the job, the reservation and the pass are
  separate steps, the job can be replaced between any two of them, and the
  comparison is by id although a pool may announce an id again. Correct means:
  no nonce of a job is scanned by two passes, also where `extra_nonce + cursor`
  wraps at 2^64; a share is judged by the target and the input of its own job,
  never by those now shown; no hit is lost because the job changed during the
  pass; a replaced job costs a device at most one pass; a device that pauses on
  an old job still takes up a new one.
* **Pool client.** Connections are refused, reset, closed, or go silent in any
  state, shares are queued while there is none, and a share leaves the channel
  before the write that may fail. Correct means: the job shown belongs to the
  connection of now; a share waits, is written, or is the one share its lost
  connection cost; nothing is written twice; queued shares leave although the
  pool is silent; the counters claim no answer the pool did not give.
* **GPU pass.** Slices are separate submissions whose dispatches overlap unless
  a barrier orders them, a submission or the wait can fail with earlier slices
  queued, and the number of slices is changed between passes. Correct means:
  each shard goes through all stages and every cn1 iteration once; the host
  touches the buffers only while the GPU is idle, and no single failing call
  changes that; a pass ends; slices become short enough for the watchdog of the
  operating system.
* **Kernels.** The lanes of a hash share memory between barriers, and how many
  of them run in lockstep is up to the driver. Correct means: the scratchpads,
  texts and candidates are those of the CPU reference, whatever the waves are,
  also when the iterations are cut into slices and when more hashes hit than the
  list holds. Where waves are narrower than the 16 lanes of a hash, `cn1.comp`
  is not correct in this sense (section 6).
* **Startup.** Every Vulkan call may fail, devices differ, and earlier devices
  mine while later ones are prepared. Correct means: a layout fits the device
  and no better one is missed; no device mines with a divide that diverges;
  nothing is left behind or destroyed too early; the self tests are believable.
* **Tuner.** Candidates fail, speeds tie, processes tune at the same time.
  Correct means: a climb ends at a local optimum that was measured, and what is
  used later was measured under the same key and fits the card that is there.

`PROJECT.json` lists these hazards line by line with the properties that cover
them, and the ones nothing covers yet with the reason.

## 2. Modules

| module | models | kind |
|---|---|---|
| `ShareLedger` | what mining and verifier threads promise together | abstract specification |
| `MineLoop` | `mine_loop`, `Job::reserve`, the verifier threads | detailed, implements `ShareLedger` |
| `Stratum` | `io_loop`, `run_connection`, `handle_message`, `submit` | detailed, with transport and pool as environment |
| `Queues` | which places of a queue hold what; used by `Stratum` | operators |
| `CountingProofs` | how many there are after a frame is put in or taken; counting up to a number, quotient and rest | proofs |
| `StratumProofs` | the safety properties of `Stratum` and `PublishedJobs` | proofs |
| `VulkMiner` | `MineLoop` and `Stratum` over one job slot and one channel | composition |
| `MinerProofs` | the safety properties of `MineLoop`, that it implements `ShareLedger`, and that each part of `VulkMiner` does in the whole what it may do alone | proofs |
| `GpuPass` | `run_stages`, the queue of the GPU, `Drop` | detailed |
| `GpuPassProofs` | the safety properties of `GpuPass` | proofs |
| `Tuner` | `tune_shards`, `measure_layout`, the miner built with the answer; device memory | detailed |
| `TunerProofs` | the safety properties of `Tuner` | proofs |
| `TuneCache` | `load_tune_cache`, `save_tune_entry`, as several processes use them on one file | detailed |
| `TuneCacheProofs` | the safety properties of `TuneCache` | proofs |
| `JobFields` | `parse_job` and the difficulty shown | operators |
| `PublishedJobs` | the jobs of `Stratum` with the notifications of `JobFields` | composition |
| `HashReference` | `cn1_loop` and `cn2_finalize` of the CPU reference | functions |
| `Cn1Group` | a workgroup of `cn1.comp` over its slices | detailed, compared with `HashReference` |
| `Cn2Group` | a workgroup of `cn2.comp` after it, with the candidate list | detailed, compared with `HashReference` |
| `KernelProofs` | that both kernels compute what `HashReference` does | proofs |
| `Layout` | `select_layout` | operators |
| `VkObjects` | what `Miner::new` and `compare` create, and what is destroyed | operators |
| `Startup` | `main`, `Gpu`, `select_crdiv`, the measurements of `tune_shards`, `microtest::run`, `selftest::run`, `write_stats` | detailed, over `Layout` and `VkObjects` |
| `StartupProofs` | the safety properties of `Startup`, with what they need of `Layout` and `VkObjects` | proofs |
| `MC*` | constants for TLC | model checking |

The modules also hold variants of some definitions, marked as plausible bugs
(`AddNoWrap`, `SendFailsDropAll`, `NeverAdapted`, ...), in a section of their own or
before the definition they resemble. The specifications never use them; each
replaces its definition in one experiment, which shows that a property can tell
the code from that bug.

### MineLoop

| model | code |
|---|---|
| `jobs`, `current` | every `Arc<Job>` published, by number, and `Shared.current` (0 is `None`) |
| `cursor[j]` | `Job.nonce_cursor` |
| `old` | jobs with `received` more than 300 s ago |
| `pc[d]` | `poll` outer loop, `check` condition of the inner loop, `work` age test, `pass` inside `run_iteration`, `stopped` |
| `uploaded[d]` | what `set_input` last wrote |
| `checking` | candidates held by verifier threads |
| `scanned`, `submitted`, `late` | history, read by properties only |
| `TakeJob`, `CheckJob`, `PauseOld`, `Launch`, `EndPass`, `StopDevice` | `mine_loop`; `Launch` contains `Job::reserve` |
| `CheckCandidate` | the closure of the spawned thread |
| `Announce`, `Withdraw`, `Age` | the io thread (`Stratum`) and the clock |

The hash is the constant `Pow`, any function from input and nonce to a number.
`ExactOn` are the inputs on which the GPU finds what the CPU does: with such an
input, the one it was given last, it flags exactly the nonces that meet the
target. With any other it flags any subset of its range, as a device that
miscomputes may. An instance has an identity of its own, so a repeated id is two
instances with one id. `WrapAdd` is the `wrapping_add` of `mine_loop`;
`run_stages` adds the offset of a shard with a plain `+`, which wraps in a
release build like the rest and is modelled so.

### ShareLedger

Claims of nonces, searches and records with no thread, job slot or cursor in
it. `MineLoop!KeepsLedger` is the refinement: `claimed` is what the cursors
have passed, `searching` the range in flight of each device.

### Stratum

| model | code |
|---|---|
| `io` | where the io thread is: `connect`, `subscribe`, `drain` (the `try_recv` loop), `read`, `lost` (`run_connection` returned) |
| `outbox` | the mpsc channel |
| `link` | the transport: `closed` (the peer sent a close frame), `reset` (reads and writes fail), `silent` (nothing arrives), `stalled` (silent with unacknowledged data) |
| `inbox` | frames the client has not read |
| `SendShare`, `SendFails` | `rx.try_recv` and the write, which happens after the share has left the channel |
| `PublishJob`, `CountAnswer`, `LogFrame`, `CloseFrame`, `Pong` | `handle_message` and the frame match of `run_connection` |
| `LoseConnection` | `current = None`, then 5 s of sleep |
| `PoolAnnounces`, `PoolAnswers`, `PoolChatters`, `Fault`, `TransportGivesUp` | the environment |

A write on a link that is down may fail or may vanish in a buffer. A frame that
does not parse is `other`, like everything else that is only logged.

### VulkMiner

Both modules are instantiated over the same `jobs`, `current` and `submitted`.
`Verify` joins `MineLoop!CheckCandidate` with the append to the channel that is
`Stratum!Submit`; the io thread of `Stratum` takes the place of `Announce` and
`Withdraw`. That each part then does only what its own specification allows
(`LoopImplemented`, `NetImplemented`) is checked, so what is shown of the parts
alone holds in the whole.

### GpuPass

A *group* is one kernel dispatched for every shard; a recorded command buffer
is a sequence of groups, each with or without a barrier in front. The GPU
starts and ends single dispatches in any order the barriers leave open, across
submissions. `data[s]` is how far the hashes of shard `s` are; a dispatch that
does not find the state it needs, or that overlaps another one on its shard,
leaves junk. Slice lengths, barriers, fence and adaptation follow `run_stages`
(`Count`, `CommandBuffer`, `FenceOn`, `Adapted`).

`CallFails` stands for every `?` from the first recording call to
`reset_fences`, the wait for the fence included: the thread gets an error while
the GPU goes on with what was submitted. `DeviceLost` is the one error, of a
submission or of the wait, after which there is nothing left on the queue.
`DropMiner` waits for an idle device; `DropAfterFailedWait` is the same code when
`device_wait_idle` fails, whose result it ignores. `failed` is history: which of
the two, a pass or the wait in `Drop`, has failed so far.

### Tuner

| model | code |
|---|---|
| `results` | the measurements of `tune_shards`, in order; speed 0 is a failed candidate |
| `UseCache`, `StartSweep`, `MeasureFirst`, `Climb`, `Conclude` | the cache lookup, the first three counts, the loop and its end |
| `Measured(n)` | the closure `measured` with `measure_layout` and `Miner::new`, either of which may fail at any call |
| `cache` | the entry of this device; how the file gets it is `TuneCache` |
| `room`, `free` | device memory, in shards |
| `BuildMiner`, `StartAgain` | `main` after the tuning; the next start of the program |

A `Miner::new` that fails, for want of memory or at any other call, leaves some
of its shards allocated (`LeftByFailed`): it makes one shard after the other, and
a `Buffer` that never became part of a `Miner` is not freed. A pass that fails
leaves none, which is one of these outcomes. The same holds of the miner that
`main` builds. The memory is not in the key of the cache, so an entry may be above
`MaxShards`; `UseCache` cuts it down.

### TuneCache

`LookUp` is `load_tune_cache` and the search for the key, `Load` the second
reading inside `save_tune_entry`, `Open` and `Write` the two halves of
`std::fs::write`: the opening empties the file, the write goes to the writer's
own offset. `WriteFails` is the warning, `Crash` the end of the process at any
point. `swept`, `alone` and `held` are history. `Limits` are the `max_shards` of
the cards that share a key, which does not hold the size of the memory: a process
starts with one of them, sweeps up to it, and cuts a cached count down to it
(`WithinLimit`).

### JobFields

A field is the sequence of its digits after the prefix that the code takes off,
with `Junk` for any other character; `Parse` is `u64::from_str_radix`. The base
is 16 in the code, a number has 16 digits and a hash 64; `MCStratum` takes 3, 2
and 4, so that TLC can go through every notification a pool may announce a job
with (`Notices`): all targets and all extra nonces. `Stratum` needs no more of a
job than its identity; `FieldsRead` in `PublishedJobs` joins the two and demands
`AllRead` of whatever job was published.

`README.md:106` of the miner says that the CPU check makes sure that "a
mis-mapped target cannot produce a rejected share, only a missed one". The check
(`Hit`) uses the target as `parse_job` has read it, so this holds of a target that
is read too low. `FieldsRead` therefore demands the other half: no hash that the
pool would take is missed. Read as a u64 a target of 64 digits loses what follows its leading
ones, and a hash whose leading 64 bits equal those of the target passes the check
whatever follows: such a share, one in 2^64, the pool may refuse.

### HashReference, Cn1Group, Cn2Group

`HashReference` follows `cn1_loop` and `cn2_finalize` index by index. Words are
numbers below `Modulus`; the arithmetic (`Compute`, `ToInt`, `Rescale`, `Aes`,
`Pow`) and the scratchpad that `explode` leaves (`Fill`) are constants, for TLC
functions that tell all words and lanes apart. What is compared is therefore
which word goes where and when, not the value of a float.

| model | code |
|---|---|
| `lane[i]` | the variables `s`, `vs`, `tmp` of an invocation |
| `sout`, `sva`, `xin1`, `xin2` | shared memory |
| `pad`, `save`, `states`, `output` | the buffers of the shard |
| `wave`, `wave2` | lanes in a wave: pinned by `required_subgroup_size`, or the driver's |
| `segments[w]`, `passed[w]` | how far a wave is: the number of barriers it has met |
| `Fetch`, `Store` | what all lanes of a wave read in a segment, and then write |
| `Load`, `Exchange` | the same for `cn2.comp` |
| `BeginSlice`, `EndSlice` | the two ends of a dispatch of `cn1.comp`; the host chooses its length |
| `Claim`, `StoreCandidate` | `atomicAdd` and the write behind it |

A wave enters a segment when no wave is behind (`PastBarrier`, `Together`), and
between two barriers the waves run in any order. That the lanes of one wave run
in lockstep, so that all read before one writes, is an assumption about the
hardware; the code makes it too. In `cn1.comp` the lanes of a hash read words that
other lanes of it write in the same segment, so the kernel is right where the 16
lanes of each hash share a wave (`HashesShareWave`): with the 64 lanes that are
pinned on AMD, with 32, and with any other multiple of 16. Nothing in the program
ensures it elsewhere, so `WaveAssumption` admits waves of any size and the
properties name the condition. `cn2.comp` needs no such thing.

### Layout, VkObjects, Startup

`Layout` computes with exact fractions: the target in hundredths of a lane,
memory in MiB, 0.80 as 4/5 and 0.95 as 19/20, where the code has `f64`.

`VkObjects` lists objects `<<name, shard, kind>>` in the order of their
creation. The destructors name the objects they destroy in the terms of the
code (`Pipe::destroy`, `destroy_buffer`, pools), so that a forgotten object can
be told from a destroyed one.

| model | code |
|---|---|
| `stage`, `cur` | where `main` is, and the device it prepares |
| `plan`, `at` | the objects of the `Miner::new` or `compare` that runs, and how many exist |
| `setup[d]` | tps, shards, wave and divide that were decided for a device |
| `objs[d]`, `leaked[d]` | objects that exist; why objects were left behind, if any were |
| `gpu[d]`, `mainHolds`, `instance` | the `Arc<Gpu>` of a device, the `Arc<Instance>` of `main`, the `VkInstance` |
| `Create`, `CreateFails` | one Vulkan call, and its `?` |
| `TryDivide`, `Compared` | the loops of `select_crdiv` and `microtest::run` around `compare` |
| `MeasureNext`, `Measured`, `UseCached`, `Conclude` | `tune_shards`; which count comes next is left to `Tuner` |
| `MinerStops` | an error in a mining thread: its `Miner`, then its `Gpu` are dropped |
| `DropGpu`, `DropInstance`, `Exit` | the locals of `main` when it returns; threads are not joined |
| `OpenStats`, `WriteStats`, `RenameStats` | `write_stats`; a kill leaves the files as they are, and `Init` starts with what an earlier run left |

A failed `assert!` on tps in `Miner::new` is a panic, modelled as the end with
an error. `Instance::new` and `enumerate` succeed; `StratumPool::connect` cannot
fail.

## 3. Runs

| run | instance | what it shows |
|---|---|---|
| `mine_loop` | 2 devices with passes of 2 and 1 nonces, 2 announcements out of two jobs, ranges of 3 nonces of a space of 3, a GPU that is exact on one input and flags anything on the other | `SharesSound`, `NoNonceTwice`, `NoResubmit`, `OneLatePass`, `TypeOK`; no hit of the first input is lost (`HitsAccounted`), and `MineLoop` implements `ShareLedger` (`KeepsLedger`) |
| `stratum` | 2 jobs, 1 nonce, 2 faults, 2 frames under way; all fields of 2 digits and hashes of 4 in base 3 | the job shown is of this connection (`SessionJobs`), shares are conserved (`ShareConservation`) and leave (`ShareLeaves`), counters are truthful (`AnswersCounted`), dead connections are replaced (`Recovers`), notifications are read as meant (`FieldsRead`) |
| `stratum_refusals` | no faults | a finding of section 6 |
| `vulkminer` | 1 device, 2 jobs of different id, 1 nonce of each is drawn, 1 fault | both parts keep their specifications (`LoopImplemented`, `NetImplemented`), hits reach a connection (`HitsDelivered`), jobs are taken up (`JobTakenUp`), devices rest without a job (`RestWithoutJob`) |
| `gpu_pass` | 3 shards, 7 iterations, 1 to 9 slices, 1 to 4 stages, a device on which 9 slices are needed, calls that fail anywhere | `HostOwns`, `ResultsComplete`, `PassEnds`, `SlicesSettle` |
| `tuner_climb` | 4 counts, 3 speeds, 2 starts, any room, failures at any call | `LocalOptimum`, `BuildHasRoom`, `TuneEnds` |
| `tuner_memory` | 1 start | a finding of section 6 |
| `tune_cache` | 2 processes, 2 keys, cards with memory for 1 and 3 shards, 2 lookups each, 1 failed write or crash | what is found was measured, or cut down to the card (`FoundWasSwept`), and entries are lost only when saves overlap or fail (`HeldKeysFound`) |
| `tune_cache_key` | 1 key, 2 settings that are not in it, no failures | a finding of section 6 |
| `kernels` | 2 hashes of 4 lines, 3 iterations in slices of any length, waves of 16 and 32 lanes in cn1, of 4 and 16 in cn2; room for 1 candidate, targets that 1 and 2 hashes meet | scratchpads and texts are those of the reference (`StatesExact`), and candidates too (`CandidatesExact`) |
| `kernel_waves` | 1 hash, 1 iteration, waves of 8 lanes | a finding of section 6 |
| `startup` | 65 systems of 1 or 2 devices, 18 command lines, cached counts 1 and 3, any call failing | `LayoutBest`, `ValidUsage`, `LifetimesNest`, `MinesExact`, `PlansFitMemory`, `StatsWhole`, `VerdictsTrue`, `StartupEnds` |

`MineLoop`, `Stratum`, `GpuPass`, `Tuner` and `TuneCache` define a type
invariant `TypeOK`. One run checks one; those of `MineLoop`, `Stratum` and
`GpuPass` are theorems, and so are those of `Tuner` and `TuneCache`, as parts of
their inductive invariants. That of `Startup` is defined in `StartupProofs`.

### Bounds and why they are enough

* `MaxJobs` bounds announcements. Two instances give replacement, withdrawal,
  a return to the same content and the same id twice; nothing in the code
  relates three jobs to each other.
* `NonceSpace` is 2^64 in the code. With a space of 3, first nonces of 1 and 2
  and ranges up to 3, the range of each job runs over the end of the space.
* `MaxReserve` bounds the nonces drawn from one instance. In the code the 300 s
  after which a job is not scanned any more do this: 2^64 nonces would take
  some 10^15 s. It is at most `NonceSpace`, which is the only place where this
  fact is used, and it is needed: a cursor that goes round twice repeats. In
  `vulkminer` it is 1: what two ranges of one job do to each other is settled by
  `mine_loop`, and what is left there is the way of one hit.
* Two devices with passes of different size share a cursor; a third one would
  meet the same states of it.
* `MaxFaults` counts refused, reset, closed and silent connections. Two give a
  loss on a connection made after a loss.
* `MaxInbox` bounds frames under way. Two put a job behind an answer.
* `Iterations` is 49152 in the code and 7 here: `cn1_slices` then covers
  divisors, numbers that leave a remainder, and numbers above it, which the
  code cuts down to one iteration per slice. `MaxSlices` is 512 in the code and
  9 here, where doubling from 1 jumps over it; auto mode starts at 16 there and
  at 1 here, so that several doublings fit.
* `MaxShards` of 4 lets the climb leave the first three counts on either side.
  Three speeds allow any order of two neighbours and ties.
* `MaxStarts` in `Tuner` of 2 is a start that caches and one that uses the
  cache; in `TuneCache` it lets each process look up again what it saved.
* `Limits` of 1 and 3: on the smaller card an entry of the larger one has to be
  cut down; on the larger one no entry has.
* `Base`, `Width`, `HashWidth` (3, 2, 4; in the code 16, 16, 64): a field may be
  shorter than, as long as, or longer than a number, and have junk anywhere.
* `Lines` is 32768 in the code and 4 here: the smallest number for which the two
  passes of cn2 over the scratchpad wrap around. `Iterations` of 3 give slices in
  every way of cutting; `TailRounds` of 2 (16 in the code) a round that is not
  the last. `Cap` of 1 (255 in the code) with 2 hashes is a list that overflows.
* `Systems` of `Startup`: two devices are enough for one that mines while main
  fails on the other; the devices for the layout have 0, 14 or 84 compute units,
  2 to 20 GiB and allocations from less than one unit of tps up.
* `Knobs` are the settings a sweep depends on and the key does not hold; two
  are needed to tell one from the other.

Deadlock is not checked (`CHECK_DEADLOCK FALSE`): the program may come to rest.
Without a job, with all devices stopped and the pool out of announcements the
mining side idles; a dropped miner does nothing.

### Fairness

* `MineLoop`: every thread that can take a step takes one, and `run_iteration`
  returns (`WF` per device and per verifier thread). Threads are scheduled by
  the operating system and none waits for a lock that another one keeps. That a
  pass returns is `GpuPass!PassEnds`.
* `Stratum`: the io thread runs and its calls return (reads time out after
  500 ms by `set_read_timeout`), and a transport with unacknowledged data gives
  up, as TCP retransmission does. That `connect` and the handshakes return is an
  assumption; the code sets no timeout for them. Nothing is asked of the pool.
* `GpuPass`: the mining thread goes on and the GPU makes progress. The fence
  poll has no limit of its own, so `PassEnds` rests on the driver. `SlicesSettle`
  assumes in its premise that the thread keeps completing full passes.
* `Tuner`: measurements and calls return (`WF` of all steps but the next start).
* `Startup`: main goes on, as every Vulkan call returns; `wait_for_fences` of
  `compare` has no limit and rests on the driver. Threads that mine may stop but
  need not.
* `TuneCache` and the kernels have no fairness: their properties are about safety.

## 4. Proofs

The theorems hold for every value of the constants that meets the named
assumption of the module they are about (`ConstantsAssumption`,
`BoundsAssumption`, `GpuAssumption`, `TunerAssumption`, `StartupAssumption`,
`ReferenceAssumption`, ...); they ask nothing else, but for the hypotheses that
the theorems of `KernelProofs` state. Each module has an inductive invariant, for the properties of the runs
seldom are: a step that keeps one has to know what others say.

### MinerProofs: the mining threads

The first part of `MinerProofs` is about `MineLoop`. It proves for every set of devices, every pass size, every hash,
every set of announcements and every bound that meets `ConstantsAssumption`:

| theorem | states |
|---|---|
| `Inductive` | `Spec => []IndInv` |
| `TypeCorrect` | `Spec => []TypeOK` |
| `OnlySoundShares` | `Spec => []SharesSound` |
| `NoNonceScannedTwice` | `Spec => []NoNonceTwice` |
| `NoShareTwice` | `Spec => []NoResubmit` |
| `NoHitForgotten` | `Spec => []HitsAccounted` |
| `OneWastedPass` | `Spec => []OneLatePass` |
| `ImplementsLedger` | `Spec => KeepsLedger` |

None of these invariants is inductive alone. That two passes in flight share
no nonce does not follow for the next step from itself, because a step that
reserves has to know where the cursor is. `IndInv` therefore speaks of *offsets*
in the range of an instance, where there is no wrap-around:

* `PassReserved`: the range in flight `start .. start + PerIter - 1` lies below
  the cursor, and the cursor within `MaxReserve`;
* `RangesApart`: ranges in flight of one instance do not overlap;
* `ScannedApart`: offsets of scanned nonces lie below the cursor and outside
  every range in flight;
* `CandidatesApart`: candidates and shares were scanned, shares meet their
  target, and none is both;
* `InputCurrent`: a thread inside the inner loop has the input of its own job on
  the device;
* `HitsAccounted` itself.

The lemmas `WrapInverse`, `NonceAtOffset` and `OffsetType` carry this over to
nonces: with `MaxReserve <= NonceSpace` an offset and its nonce determine each
other. `StepKinds` sorts the steps into the quiet ones, `Launch`, `EndPass` and
`CheckCandidate`, so that each part of `IndInv` has four cases instead of
eleven.

`OneWastedPass` has a small invariant of its own, `LateOnce`: a device that
was late on a job whose id is its own does not stand before a launch of that
job, and the job is not shown any more. It never is again, as a publication
shows a new instance, so the thread leaves it at its next look at the pool.

Its last section shows that every step maps to a step of `ShareLedger` or a
stutter: `Announce` to `Publish`, `Launch` to `Claim`, `EndPass` and
`StopDevice` to `Finish`, `CheckCandidate` to `Record` when the candidate passes
the check, and the rest to nothing. It needs `IndInv` for what is claimed and
scanned, and one more invariant, `FreshCursor`: an instance that is not yet
published has its whole range, so that a publication claims nothing. The
ledger's guard that a claim is new is where the refinement could fail: it holds
because claimed offsets lie below the cursor and a new range begins at it.

### StratumProofs

| theorem | states |
|---|---|
| `Inductive` | `Spec => []Inv` |
| `TypeCorrect` | `Spec => []TypeOK` |
| `JobsOfThisSession` | `Spec => []SessionJobs` |
| `SharesConserved` | `Spec => []ShareConservation` |
| `CountersTruthful` | `Spec => []AnswersCounted` |
| `FieldsReadRight` | `Spec => []FieldsRead` |

Beside the properties `Inv` says how many jobs may still arrive (`JobsBounded`),
in which states there is a connection and that nothing of an earlier one is left
(`Connected`), that a share is in the channel once and not also out of it
(`QueuedOnce`), and that each lost share goes with a fault of its own while a
connection that is down and may still cost one has its fault besides
(`FaultsPaid`): the bound on lost shares is inductive only with that second
half. How many frames of a kind are under way is the size of a set of places;
`CountingProofs` has what appending a frame and taking one do to it, the latter by
a bijection that moves each place down by one. `StepKinds`, `ReadKinds` and
`ShareKinds` sort the seventeen steps by what they do to frames and to shares.

`FieldsReadRight` needs no step of `Stratum`: `AllRead` is a fact about
`parse_job` (`EveryNoticeRead`), for every base from 2 on, every width of a number
and every longer hash, and any of its notifications may have brought any job. Its
parts rest on what the leading digits leave open. `Between` bounds a number by its
first digits; so the first 64 bits decide a comparison unless they are equal
(`NothingMissed`), and digits filled up with zeros (`ZerosAfter`) leave room for
exactly the nonces below the next extra nonce (`NoncesApart`). `SameDigits` says
that different digits of one length are worth different numbers. `Power` and
`Leading` are recursive functions; `PowerFound` and `LeadingFound` show that such
a function exists before anything else is said of it.

### MinerProofs: the whole miner

| theorem | states |
|---|---|
| `WholeInductive` | `V!Spec => []Inv` |
| `LoopKept` | `V!Spec => V!LoopImplemented` |
| `NetKept` | `V!Spec => V!NetImplemented` |
| `OnlySoundWritten` | `V!Spec => []V!WrittenSound` |

`V` is the instance of `VulkMiner`, which shares the names of its variables with
`MineLoop`, so that the first part of the module applies. `Inv` is `IndInv` of
`MineLoop`, `Wired` (the inbox holds jobs of the pool, and there is room for
them) and `Queued` (what is or was in the channel was put in by a verifier).
`LoopKept` needs `Wired`, where a frame becomes an announcement. `NetKept` needs
`CandidatesApart` from the mining side: that a verifier never queues a share a
second time is what `Stratum` takes for granted of its users. `SameStep` carries
`IndInv` over from `MineLoop` to the whole. With these two theorems the safety
theorems about the parts hold of the whole miner; `OnlySoundWritten` is the one
that needs both: what reaches the pool meets the target of its own job.

### GpuPassProofs

| theorem | states |
|---|---|
| `Inductive` | `Spec => []Inv` |
| `TypeCorrect` | `Spec => []TypeOK` |
| `BuffersOwned` | `Spec => []HostOwns` |
| `PassComplete` | `Spec => []ResultsComplete` |

The argument has three parts. The cut: `Division` and `SlicesMeet` show that the
slices of `Count` follow each other without a gap and end with the last
iteration, whatever the iterations and the count. The chain: the groups of all
command buffers form one (`Linked`), each behind the first with a barrier and in
need of exactly what the one before leaves; `FrontAppended`, `LinkOne` and
`BufferAppended` show it of each buffer, `HostInv` and `QueueInv` that the queue
always leads where the next buffer begins. The GPU: along a chain a dispatch
starts only when all before it are done on all shards, so it is alone on its
shard and finds what it needs (`DispatchInv`, `StartSound`), and what is done
says where the data are (`DataInv`). When the fence is signalled, everything is
done, which is the first half of `HostOwns`, and `ResultsComplete`.

The other half of `HostOwns` is about failures, of which any may happen at any
moment: buffers are freed under a working GPU only by `DropAfterFailedWait`
(`DropAfterFailedWaitStep`), and an idle host has an idle GPU unless a pass
failed, so it takes both failures.

### TunerProofs

| theorem | states |
|---|---|
| `Inductive` | `Spec => []Inv` |
| `AnswerIsOptimum` | `Spec => []LocalOptimum` |
| `AnswerFits` | `Spec => []BuildHasRoom` |

`SweepInv` says that the counts measured have no gap (`NoGap`), that `max_by`
has something to pick (`HasBest`), and that without a failed candidate all the
memory was given back and all counts fit (`AllFit`). A count from the cache may be
any up to `MaxShards`; `LocalOptimum` and `BuildHasRoom` are about counts that were
just measured. The climb ends when both
neighbours of the best were measured; without gaps each step of it adds one end.

### TuneCacheProofs

| theorem | states |
|---|---|
| `Inductive` | `Spec => []Inv` |
| `FoundIsMeasured` | `Spec => []FoundWasSwept` |
| `LoneSavesKept` | `Spec => []HeldKeysFound` |

`EntriesMeasured` says of every entry in the file, in a process's copy or on its
way there that it was measured, on whatever card; `CutCount` that cutting it down
to the card at hand leaves it or gives the card's limit; `AloneSaves` that a save which overlaps no other
is the only one, has read all that is held, and writes into a file that it has
emptied itself.

### StartupProofs

`StartupAssumption` says of which kind the constants are: sequences of devices,
command lines, counts. The theorems hold for every system of any number of
devices, every command line, and every content of the cache.

| theorem | states |
|---|---|
| `Invariant` | `Spec => []IInv` |
| `TypeCorrect` | `Spec => []TypeOK` |
| `UsageIsValid` | `Spec => []ValidUsage` |
| `LayoutIsBest` | `Spec => []LayoutBest` |
| `LifetimesAreNested` | `Spec => []LifetimesNest` |
| `MiningIsExact` | `Spec => []MinesExact` |
| `PlansAlwaysFit` | `Spec => []PlansFitMemory` |
| `StatsAlwaysWhole` | `Spec => []StatsWhole` |
| `VerdictsAreTrue` | `Spec => []VerdictsTrue` |

The properties look at single moments of a long sequence of calls; `IInv` says
what has been settled at each of them.

* `Places` and `Turns`: where `main` can be for what it was started for; which
  devices have a thread and a `Gpu`. Every other part leans on them.
* `Owned` carries `LifetimesNest`. That a destructor leaves nothing behind is no
  property of the step that runs it: one has to know which plan was being
  created and that the destructor of *that* plan names all of it.
  `MinerPlanDestroyed` and `ComparePlanDestroyed` show the second for every
  number of shards, object by object.
* `Capable` and `Owned` carry `ValidUsage`. A pipeline is in `objs` only if the
  plan has it (`NoTestPipeline`, `NoMinerPipeline`). That the pool suffices is
  `PoolHolds`: the sets of a plan are pairs of a kernel and a shard,
  their slots pairs of a kernel's binding and a shard, and there are no more of
  those than `PoolSets` and `PoolDescriptors` ask for.
* `Planned` carries `LayoutBest` and `PlansFitMemory`. A count that was cached or
  measured is below `MaxCount`, and what `MaxShards` allows is within the
  budget (`WithinMaxShards`). `SelectTpsFound` shows that the search of
  `select_layout` returns a candidate that no other beats; `LayoutFound` puts
  the parts together for an intensity of any value, a negative one included.
* `Divided` carries `MinesExact` and `VerdictsTrue`: which variants have been
  tried (`InTurn`) and what the comparison said of each that the device can run
  (`Asked`). It holds what `trying`, from which they are gone, no longer says.
* `Reported`: a `.tmp` that is renamed is whole.

`VerdictsTrue` itself is a part of `IInv`: it has to survive the way from the
verdict to the exit, while a device may be dropped but not chosen anew. Places in
a filtered sequence (`KthPlace`) and the largest multiple of 64 that fits the
budget would ask for induction; both come from `LeastNatural`, the least element
of a set of naturals, which is proved without it.

### KernelProofs

| theorem | states |
|---|---|
| `KernelInvariant` | `ComputesWords => (Spec => []WaveInv)` |
| `StatesExactAlways` | `ComputesWords => (Spec => []StatesExact)` |
| `ExactOnWideWaves` | `ComputesWords /\ (\A n \in Cn1Waves : n % 16 = 0) => (Spec => []ExactOnEveryWave)` |
| `CandidatesExactAlways` | `ComputesWords => (Spec => []CandidatesExact)` |

They hold for any number of hashes, lines of a scratchpad, iterations, slices
and rounds, any capacity of the list and any target, and for waves of any size.
`StatesExact` and `CandidatesExact` are about executions in which the lanes of
each hash share a wave of `cn1.comp`, and `ExactOnWideWaves` names the devices on
which all do; of the other executions nothing is claimed, and `kernel_waves` shows one
that fails. `WaveInv` is the inductive invariant `IInv` under that
condition, with the fact that the size of the waves never changes. `ComputesWords` says that
`Compute`, the arithmetic of one lane, makes words of words: it keeps the lines
that `s` points to inside the scratchpad. It is a hypothesis and no `ASSUME`
because TLC would have to go through 20 words of arguments for each lane;
`MCCompute` meets it, as each of its results is taken modulo `Modulus`.

* The reference is recursive. `RoundsFound`, `LoopFound` and `TailFound` show that
  the functions which `Rounds`, `LoopText` and `TailText` choose exist, and so
  what each round makes of the one before; `UpTo`, from the well-founded order of
  the naturals, is the induction that this takes. `IterateIs` and `StagesTyped` cut an
  iteration of `cn1_loop` into what the segments between the barriers leave.
* `Cn1Inv` compares each hash with the reference at the point that the wave of
  the hash has reached: which iteration (`Begins`), which segment of it (`Part`),
  and what lanes, shared memory and scratchpad then hold (`Held`). What the lanes
  have fetched and not stored is right too (`WaveHeld`), which is where it
  matters that all lanes of a wave read before one writes and that a hash lies in
  one wave (`SameWave`, from `HashesShareWave`): other waves may be anywhere, as they touch no word of
  this hash (`StoredElsewhere`, `PadNumbers`). A slice ends where the next one
  takes up `s` and `vs`.
* `TextInv` does the same for `cn2.comp`, where a hash may lie in several waves
  and nothing says where the neighbour is. `Level` says that waves are at most a
  segment apart and that a wave which has read is not ahead. What a lane left in
  `xin1` and `xin2` is therefore described for two segments each (`Xin1Is`,
  `Xin2Is`): it is still there when the neighbour has gone on by one. That this
  is enough is `LoadStep`; it is the reason why the kernel needs two buffers.
* `ClaimInv` is about the list: a place is drawn once, each place below the
  counter and the capacity is either filled or waited for, and what is filled is a
  hit (`PowRight`). When all hashes are through, the filled places are counted by
  a bijection (`Listing`).

TLC checked `Cn1Inv` and `Cn2Inv` as invariants, with waves of 16 lanes in
`cn1.comp` and of 6, 8 and 16 in `cn2.comp`, before they were proved.

### Model-checked only

Liveness under fairness (`JobTakenUp`, `ShareLeaves`, `Recovers`,
`HitsDelivered`, `RestWithoutJob`, `PassEnds`, `SlicesSettle`, `TuneEnds`,
`StartupEnds`), which is out of
reach of this prover, as is `ENABLED`. Every safety property that a passing run
checks is proved.

## 5. Plan

1. *(done)* `MineLoop`, `ShareLedger`, `Stratum`, `VulkMiner`, `GpuPass`, and the
   proofs about `MineLoop`, its refinement included.
2. *(done)* `Tuner` and `TuneCache`.
3. *(done)* `HashReference`, `Cn1Group`, `Cn2Group`.
4. *(done)* `JobFields`.
5. *(done)* `Layout`, `VkObjects`, `Startup`, with the stats file and the self
   tests.
6. *(done)* Proofs of the safety of `Stratum`, `VulkMiner`, `GpuPass`, `Tuner`,
   `TuneCache` and `Startup`, with the bounds of `Layout` and the plans of
   `VkObjects`.
7. *(done)* Proof that `Cn1Group` and `Cn2Group` compute what `HashReference` does.
8. *(done)* Proof that `parse_job` reads what the pool means, in every base.

## 6. Findings

* `stratum_refusals`. `stratum.rs` documents the pair of counters as
  "(accepted, rejected) share counts". Pools refuse a share with a JSON-RPC
  error, and an answer with an error is logged and counted in neither. The
  model's shortest run: one share, written, refused with an error, both
  counters 0.

* `tuner_memory`. `measure_layout` says "The miner (and its scratchpads) is
  dropped before the next candidate runs." (`autotune.rs:196`). That is so for
  a candidate that was built. One that fails inside `Miner::new` (the buffers
  are created at `miner.rs:234` and `241-256`), for want of memory or at another
  call, was no `Miner` yet, and the buffers it had are not freed. In the model's
  shortest run the first candidate that fails takes memory from all that follow.

* `tune_cache_key`. The key is documented as "everything that would invalidate
  it" (`autotune.rs:150`). The wave size and the number of slices are passed to
  every measurement and are not part of it.

* `kernel_waves`. "The GPU must produce the same hash as the pool's reference
  validator" (`README.md:15`), and "this port uses a full workgroup `barrier()`"
  (`vk.rs:17`) where the original relies on lanes in lockstep. `cn1.comp` still
  relies on it: between one barrier and the next, lanes of a hash read words of
  `sout` and `sva` (lines 95-98, 104-106, 113-114, 119-121) that other lanes of it
  write (100-101, 109, 116, 127-128). That is in order as long as the 16 lanes of
  a hash share a wave. The size is pinned on AMD only (`vk.rs:350-364`, where
  `--wave` takes whatever the device supports), and `--all` admits devices whose
  driver may choose waves of 8 lanes. In the model's run one of two such waves
  stores what it mixed before the other has read, and the state of the hash is
  another one. Such a device finds candidates that the CPU check drops, and
  misses the real ones. `ExactOnWideWaves` is the other side: with waves of 16, 32
  or 64 lanes the kernels are right.

## 7. Not modelled, and why

* The arithmetic of the hash (keccak, AES, the float core of `single_compute`,
  `explode`, `cn0.comp`, `cn00.comp`): pure functions without interaction, with
  floats and 2 MiB per hash. `Pow` and the constants of `HashReference` stand
  for them; `selftest.rs` compares the two implementations.
* The mock pool: one job that never changes and a counter, which is `MineLoop`
  with one announcement. Its job too is 300 s old after five minutes (`Age`),
  and the device then pauses for good while the report goes on with its last
  hashrate.
* The hashrate average: a number that no other part reads.
* `build.rs`, `hiveos/`, the argument parser but `selected_indices`: scripts and
  declarations without state of the running miner.
* Of `miner.rs` the debug readers, of `vk.rs` `query`: reads without effect. What
  a device reports is data of `Startup`.
* Time: the 300 s, 5 s and 500 ms are events that may happen at any moment.
