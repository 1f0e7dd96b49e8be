------------------------------- MODULE Tuner -------------------------------
(***************************************************************************)
(* tune_shards of src/autotune.rs for one device: the entry of the cache,  *)
(* the climb over shard counts, and the Miner that main builds with the    *)
(* answer.  The program is started several times; the cache and nothing    *)
(* else is carried over.                                                   *)
(*                                                                         *)
(* Device memory is counted in shards.  max_shards is computed from the    *)
(* size of the memory, room is what is left of it: other programs use      *)
(* device memory too.  A Miner that is dropped gives its shards back, a    *)
(* Miner::new that fails in between does not: Buffer has no Drop.          *)
(***************************************************************************)
EXTENDS Naturals, Sequences

CONSTANTS
    MaxShards,  \* max_shards
    Speeds,     \* the speeds a shard count may be measured at
    MaxStarts   \* bound: starts of the program

ASSUME TunerAssumption ==
    /\ MaxShards \in Nat \ {0}
    /\ Speeds \subseteq Nat \ {0}
    /\ MaxStarts \in Nat \ {0}

Counts == 1 .. MaxShards
None == [shards |-> 0, khs |-> 0]
\* The key does not hold the memory: a card with more may have left an entry.
Entry == [shards : 1 .. MaxShards + 1, khs : Speeds]

VARIABLES
    phase,      \* lookup, first, climb, build, mining or failed
    shards0,    \* what the layout solver proposes
    next,       \* the count the first loop measures next
    results,    \* the counts measured, in order, with their speeds; 0: failed
    answer,     \* what tune_shards returned
    cache,      \* the cached entry of this device and configuration, or None
    room, free, \* shards the device has memory for; and those not allocated
    starts

vars == <<phase, shards0, next, results, answer, cache, room, free, starts>>

-----------------------------------------------------------------------------
MeasuredCounts == {results[i].shards : i \in 1 .. Len(results)}
Lo == CHOOSE n \in MeasuredCounts : \A m \in MeasuredCounts : n <= m
Hi == CHOOSE n \in MeasuredCounts : \A m \in MeasuredCounts : n >= m

\* max_by: of several fastest counts the one measured last.
Best == LET i == CHOOSE i \in 1 .. Len(results) :
                    \A k \in 1 .. Len(results) :
                       /\ results[k].khs <= results[i].khs
                       /\ results[k].khs = results[i].khs => k <= i
        IN  results[i]

FirstCount == IF shards0 > 1 THEN shards0 - 1 ELSE 1
LastCount == IF shards0 < MaxShards THEN shards0 + 1 ELSE MaxShards

\* Plausible bugs, each put in the place of the definition it resembles.
NextUpAgain == Hi
NextUp == Hi + 1

MayLowerIfFailed == Best.shards = Lo /\ Lo > 1 /\ Best.khs = 0
MayLower == Best.shards = Lo /\ Lo > 1
MayRaise == Best.shards = Hi /\ Hi < MaxShards

\* The shards of a candidate stay allocated.
LeftByUndropped(n) == free - n
LeftBy(n) == free

\* What a Miner::new of n shards that fails leaves: it may have got to any of them.
LeftByFailed(n) == {m \in 0 .. free : free <= m + n}

-----------------------------------------------------------------------------
Init ==
    /\ phase = "lookup"
    /\ shards0 \in Counts
    /\ next = 0
    /\ results = <<>>
    /\ answer = 0
    /\ cache \in Entry \union {None}
    /\ room \in 0 .. MaxShards
    /\ free = room
    /\ starts = 1

UseCache ==
    /\ phase = "lookup"
    /\ cache # None
    /\ answer' = IF cache.shards > MaxShards THEN MaxShards ELSE cache.shards
    /\ phase' = "build"
    /\ UNCHANGED <<shards0, next, results, cache, room, free, starts>>

StartSweep ==
    /\ phase = "lookup"
    /\ cache = None
    /\ next' = FirstCount
    /\ phase' = "first"
    /\ UNCHANGED <<shards0, results, answer, cache, room, free, starts>>

\* The closure measured: a count is measured once.  measure_layout may fail for
\* want of memory, or at any other call although there is room.
Measured(n) ==
    IF n \in MeasuredCounts
    THEN UNCHANGED <<results, free>>
    ELSE \/ /\ n <= free
            /\ \E khs \in Speeds : results' = Append(results, [shards |-> n, khs |-> khs])
            /\ free' = LeftBy(n)
         \/ /\ results' = Append(results, [shards |-> n, khs |-> 0])
            /\ free' \in LeftByFailed(n)

MeasureFirst ==
    /\ phase = "first"
    /\ Measured(next)
    /\ next' = next + 1
    /\ phase' = IF next = LastCount THEN "climb" ELSE "first"
    /\ UNCHANGED <<shards0, answer, cache, room, starts>>

Climb ==
    /\ phase = "climb"
    /\ \/ MayRaise /\ Measured(NextUp)
       \/ ~MayRaise /\ MayLower /\ Measured(Lo - 1)
    /\ UNCHANGED <<phase, shards0, next, answer, cache, room, starts>>

\* The climb is over: the answer is cached, or no candidate could be measured.
Conclude ==
    /\ phase = "climb"
    /\ ~MayRaise /\ ~MayLower
    /\ \/ /\ Best.khs > 0
          /\ answer' = Best.shards
          /\ cache' = Best
          /\ phase' = "build"
       \/ /\ Best.khs = 0
          /\ phase' = "failed"
          /\ UNCHANGED <<answer, cache>>
    /\ UNCHANGED <<shards0, next, results, room, free, starts>>

\* main builds the miner it will mine with, which may fail like a candidate; an
\* error ends the program.
BuildMiner ==
    /\ phase = "build"
    /\ \/ answer <= free /\ free' = free - answer /\ phase' = "mining"
       \/ free' \in LeftByFailed(answer) /\ phase' = "failed"
    /\ UNCHANGED <<shards0, next, results, answer, cache, room, starts>>

\* The program is started again: the memory it had is free, and the other
\* programs may have changed theirs.
StartAgain ==
    /\ phase \in {"mining", "failed"}
    /\ starts < MaxStarts
    /\ starts' = starts + 1
    /\ phase' = "lookup"
    /\ shards0' \in Counts
    /\ next' = 0 /\ results' = <<>> /\ answer' = 0
    /\ room' \in 0 .. MaxShards
    /\ free' = room'
    /\ UNCHANGED cache

TuneStep ==
    UseCache \/ StartSweep \/ MeasureFirst \/ Climb \/ Conclude \/ BuildMiner

Next == TuneStep \/ StartAgain

\* Measurements and calls return.
Spec == Init /\ [][Next]_vars /\ WF_vars(TuneStep)

-----------------------------------------------------------------------------
\* Every variable has the type its declaration names, and what is free is part
\* of the room.
TypeOK ==
    /\ phase \in {"lookup", "first", "climb", "build", "mining", "failed"}
    /\ shards0 \in Counts
    /\ next \in 0 .. MaxShards + 1
    /\ results \in Seq([shards : Counts, khs : Speeds \union {0}])
    /\ answer \in 0 .. MaxShards
    /\ cache \in Entry \union {None}
    /\ room \in 0 .. MaxShards
    /\ free \in 0 .. room
    /\ starts \in 1 .. MaxStarts

\* The answer of a sweep was measured, is as fast as every other count that
\* was, and both its neighbours were: ties and failed candidates included, the
\* climb stops at a local optimum only.
LocalOptimum ==
    phase = "build" /\ results # <<>> =>
        /\ \E i \in 1 .. Len(results) :
              /\ results[i].shards = answer
              /\ results[i].khs > 0
              /\ \A k \in 1 .. Len(results) : results[k].khs <= results[i].khs
        /\ (Counts \cap {answer - 1, answer + 1}) \subseteq MeasuredCounts
        /\ cache.shards = answer

\* When every candidate could be measured there is room for the answer.
BuildHasRoom ==
    phase = "build" /\ results # <<>>
    /\ (\A i \in 1 .. Len(results) : results[i].khs > 0) => answer <= free

\* A start comes to an end: the climb does not run in circles.
TuneEnds == (phase = "lookup") ~> (phase \in {"mining", "failed"})

\* autotune.rs says of a measurement: "The miner (and its scratchpads) is
\* dropped before the next candidate runs."
CandidateDropped == phase \in {"first", "climb"} => free = room
=============================================================================
