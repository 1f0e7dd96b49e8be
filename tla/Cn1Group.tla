------------------------------ MODULE Cn1Group -------------------------------
(***************************************************************************)
(* A workgroup of src/shaders/cn1.comp: 16 lanes for each hash, in waves   *)
(* whose lanes run in lockstep and which meet at the barriers, dispatched  *)
(* in slices that hand s and vs on through the Save buffer.                *)
(*                                                                         *)
(* A segment is what lies between two barriers; the five of an iteration   *)
(* are the fill of sout, the mixing, the first and the second fold and the *)
(* reload of vs and s.  All lanes of a wave read before one of them        *)
(* writes; other waves may run between.  In the mixing and the two folds   *)
(* lanes of a hash write words that others of them read in the same        *)
(* segment: what they read depends on the order of the waves, unless they  *)
(* share one.                                                              *)
(* The program pins the size of a wave to 64 on AMD and leaves it to the   *)
(* driver elsewhere, so a wave of any size may turn up.                    *)
(***************************************************************************)
EXTENDS HashReference

CONSTANT Cn1Waves       \* sizes of a wave: required_subgroup_size or the driver's

ASSUME WaveAssumption == Cn1Waves # {} /\ Cn1Waves \subseteq Nat \ {0}

Invocations == 0 .. 16 * Cardinality(Hashes) - 1
SharedWords == 0 .. 64 * Cardinality(Hashes) - 1

VARIABLES
    wave,       \* how many lanes a wave has
    count,      \* iter_count of the running dispatch; 0: none runs
    finished,   \* iterations of the dispatches that have ended
    segments,   \* per wave, the segments it has run
    fetched,    \* per invocation, what it read and has not stored; None
    lane,       \* per invocation, its variables s, vs and tmp
    sout, sva,  \* the shared memory
    pad,        \* the scratchpads
    save        \* the Save buffer: s and vs of each hash

cn1Vars == <<wave, count, finished, segments, fetched, lane, sout, sva, pad, save>>

None == <<>>
HashOf(i) == i \div 16
Tid(i) == i % 16
Wave(i) == i \div wave
Waves == {Wave(i) : i \in Invocations}
HashesShareWave == \A i \in Invocations : Wave(i) = Wave(16 * HashOf(i))
Idle(w) == \A i \in Invocations : Wave(i) = w => fetched[i] = None

Base(i) == 64 * HashOf(i)
Cell(i) == PadWords * HashOf(i) + Spot(lane[i].s, Tid(i))

-----------------------------------------------------------------------------
\* Start and end of a dispatch.
FromSave(h) == [s |-> save[h].s, vs |-> save[h].vs, tmp |-> 0]
FromStates(h) == [s |-> Seed(h), vs |-> [k \in 0 .. 3 |-> 0], tmp |-> 0]
\* A plausible bug: every slice starts anew.
RestoreNever(h) == FromStates(h)
Restore(h) == IF finished = 0 THEN FromStates(h) ELSE FromSave(h)

Cn1Init ==
    /\ wave \in Cn1Waves
    /\ count = 0 /\ finished = 0
    /\ segments = [w \in Waves |-> 0]
    /\ fetched = [i \in Invocations |-> None]
    /\ lane = [i \in Invocations |-> FromStates(HashOf(i))]
    /\ sout = [x \in SharedWords |-> 0]
    /\ sva = [x \in SharedWords |-> 0]
    /\ pad = [x \in 0 .. PadWords * Cardinality(Hashes) - 1 |-> Fill(x \div PadWords, x % PadWords)]
    /\ save = [h \in Hashes |-> [s |-> 0, vs |-> [k \in 0 .. 3 |-> 0]]]

\* The host dispatches a slice, once the one before has ended.
BeginSlice ==
    /\ count = 0
    /\ count' \in 1 .. Iterations - finished
    /\ lane' = [i \in Invocations |-> Restore(HashOf(i))]
    /\ UNCHANGED <<wave, finished, segments, fetched, sout, sva, pad, save>>

SegmentsIn(n) == 5 * n

EndSlice ==
    /\ count > 0
    /\ \A w \in Waves : segments[w] = SegmentsIn(count)
    /\ save' = [h \in Hashes |-> [s |-> lane[16 * h].s, vs |-> lane[16 * h].vs]]
    /\ finished' = finished + count
    /\ count' = 0
    /\ segments' = [w \in Waves |-> 0]
    /\ UNCHANGED <<wave, fetched, lane, sout, sva, pad>>

-----------------------------------------------------------------------------
\* A segment: what a lane reads and computes, and what it then stores.
Fill0(i) == [out |-> pad[Cell(i)]]
Mix(i) == Compute(Tid(i), LookedUp(sout, Base(i), Tid(i)), lane[i].vs)
Fold(i) == [out |-> XorOf4(sout, Base(i) + Block(Tid(i)), 4),
            va |-> SumOf4(sva, Base(i) + Block(Tid(i)))]
SecondFold(i) ==
    LET w == SumOf4(sva, Base(i) + Block(Tid(i))) IN
    [out |-> Xor(XorOf4(sout, Base(i) + Tid(i), 4), ToInt(w)), va |-> Rescale(w)]
Reload(i) == [s |-> XorOf4(sout, Base(i), 1), vs |-> Slot(sva, Base(i), 0)]

\* The barrier in front of a segment: no wave is behind.
PastBarrier(w) == \A v \in Waves : segments[v] >= segments[w]

Fetch(w) ==
    /\ segments[w] < SegmentsIn(count)
    /\ Idle(w)
    /\ PastBarrier(w)
    /\ fetched' = [i \in Invocations |->
         IF Wave(i) # w THEN fetched[i]
         ELSE CASE segments[w] % 5 = 0 -> Fill0(i)
                [] segments[w] % 5 = 1 -> Mix(i)
                [] segments[w] % 5 = 2 -> Fold(i)
                [] segments[w] % 5 = 3 -> SecondFold(i)
                [] segments[w] % 5 = 4 -> Reload(i)]
    /\ UNCHANGED <<wave, count, finished, segments, lane, sout, sva, pad, save>>

\* The lane that writes a shared word in a segment, or no lane.
WriterOf(x, segment) ==
    IF segment = 1 THEN 16 * (x \div 64) + ((x % 64) \div 4)
    ELSE IF x % 64 < 16 THEN 16 * (x \div 64) + (x % 64)
    ELSE Cardinality(Invocations)

Written(mem, field, w, segment) ==
    [x \in SharedWords |->
       LET i == WriterOf(x, segment) IN
       IF i \notin Invocations \/ Wave(i) # w THEN mem[x]
       ELSE IF segment = 1 THEN fetched[i][field][x % 4] ELSE fetched[i][field]]

Store(w) ==
    LET segment == segments[w] % 5
        mine == {i \in Invocations : Wave(i) = w}
    IN
    /\ ~Idle(w)
    /\ sout' = IF segment < 4 THEN Written(sout, "out", w, segment) ELSE sout
    /\ sva' = IF segment \in 1 .. 3 THEN Written(sva, "va", w, segment) ELSE sva
    /\ pad' = IF segment # 2 THEN pad
              ELSE [x \in DOMAIN pad |->
                      IF \E i \in mine : Cell(i) = x
                      THEN LET i == CHOOSE i \in mine : Cell(i) = x
                           IN  Xor(fetched[i].out, lane[i].tmp)
                      ELSE pad[x]]
    /\ lane' = [i \in Invocations |->
         CASE i \in mine /\ segment = 0 -> [lane[i] EXCEPT !.tmp = fetched[i].out]
           [] i \in mine /\ segment = 4 -> [s |-> fetched[i].s, vs |-> fetched[i].vs, tmp |-> 0]
           [] OTHER -> lane[i]]
    /\ fetched' = [i \in Invocations |-> IF i \in mine THEN None ELSE fetched[i]]
    /\ segments' = [segments EXCEPT ![w] = @ + 1]
    /\ UNCHANGED <<wave, count, finished, save>>

WaveStep == \E w \in Waves : Fetch(w) \/ Store(w)
Cn1Next == BeginSlice \/ EndSlice \/ WaveStep

=============================================================================
