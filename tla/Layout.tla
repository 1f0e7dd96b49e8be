------------------------------- MODULE Layout -------------------------------
(***************************************************************************)
(* select_layout of src/autotune.rs: threads per shard (tps) and number of *)
(* shards for a device and a configuration.                                *)
(*                                                                         *)
(* The code computes with f64.  Here the lane target is the exact rational *)
(* Target / 100, intensity a percentage, memory a number of MiB; the       *)
(* fractions 0.80 and 0.95 are 4/5 and 19/20.                              *)
(***************************************************************************)
EXTENDS Integers

CONSTANT Lane     \* MEMORY: MiB of scratchpad per lane

\* A device d has the fields cu, min_sub, mem and max_alloc; a command line c
\* has tps and shards, 0 for auto, and intensity.

Min2(a, b) == IF a < b THEN a ELSE b
Max2(a, b) == IF a > b THEN a ELSE b

LanesPerCu(d) == IF d.min_sub = 32 THEN 70 ELSE 48
Target(d, c) ==
    Max2(6400, (IF d.cu > 0 THEN d.cu ELSE 32) * LanesPerCu(d) * c.intensity)

\* A plausible bug: the whole memory is budgeted.
MaxShardsWhole(d, tps) == d.mem \div (Lane * tps)
MaxShards(d, tps) == (4 * d.mem) \div (5 * Lane * tps)

\* f64::round of Target/100/tps: halves go up.
Rounded(T, tps) == (2 * T + 100 * tps) \div (200 * tps)

ShardsFor(d, c, tps) ==
    Max2(1, Min2(Rounded(Target(d, c), tps), Max2(MaxShards(d, tps), 1)))

\* The largest tps the device's largest allocation permits, at most 960.
LargestTps(d) == Min2(960, Max2(64, ((d.max_alloc \div Lane) \div 64) * 64))

Score(d, c, l) == Min2(100 * l.tps * l.shards, Target(d, c))
CloseEnough(d, c, l) == 100 * l.tps * l.shards * 20 >= Target(d, c) * 19

Better(d, c, l, best) == Score(d, c, l) > Score(d, c, best)

\* The search goes down from the default in steps of 64; it moves to every
\* candidate better than all before it, and stays at the last of those.
Candidate(d, c, tps) == [tps |-> tps, shards |-> ShardsFor(d, c, tps)]
Steps(d) == {64 * k : k \in 1 .. LargestTps(d) \div 64}
Moves(d, c, t) == \A u \in Steps(d) :
    u > t => Better(d, c, Candidate(d, c, t), Candidate(d, c, u))
Searched(d, c) == CHOOSE t \in Steps(d) :
    Moves(d, c, t) /\ \A u \in Steps(d) : u < t => ~Moves(d, c, u)

SelectShards(d, c, tps) == IF c.shards > 0 THEN c.shards ELSE ShardsFor(d, c, tps)
SelectTps(d, c) ==
    LET tps == LargestTps(d)
    IN  CASE c.tps > 0 -> c.tps
          [] c.tps = 0 /\ (c.shards > 0 \/ CloseEnough(d, c, Candidate(d, c, tps))) -> tps
          [] OTHER -> Searched(d, c)

-----------------------------------------------------------------------------
\* What is asked of a layout l; see Startup for the properties.
WithinBudget(d, c, l) ==
    /\ l.tps % 64 = 0 /\ l.tps \in 64 .. 960
    /\ c.shards = 0 => l.shards = 1 \/ 5 * Lane * l.tps * l.shards <= 4 * d.mem
    /\ d.max_alloc >= 64 * Lane => Lane * l.tps <= d.max_alloc

Closest(d, c, l) ==
    LET first == Candidate(d, c, LargestTps(d))
    IN  IF CloseEnough(d, c, first)
        THEN l = first
        ELSE \A t \in Steps(d) :
                LET other == Candidate(d, c, t)
                IN  /\ Score(d, c, other) <= Score(d, c, l)
                    /\ t > l.tps => Score(d, c, other) < Score(d, c, l)

OvershootsLittle(d, c, l) ==
    l.shards > 1 => 2 * 100 * l.tps * l.shards <= 2 * Target(d, c) + 100 * l.tps
=============================================================================
