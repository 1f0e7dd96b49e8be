------------------------------ MODULE Cn2Group -------------------------------
(***************************************************************************)
(* A workgroup of src/shaders/cn2.comp on the scratchpads that cn1 left:   *)
(* eight lanes for each hash exchange their text through xin1 and xin2,    *)
(* and the hashes that meet the target go to the output buffer.            *)
(*                                                                         *)
(* Here no lane reads what another writes between the same two barriers,   *)
(* so the waves may be narrower than a hash.  The segments between the     *)
(* barriers are: enter, two for each round of the loop, leave, two for     *)
(* each round of the tail, and flag.                                       *)
(***************************************************************************)
EXTENDS Cn1Group

CONSTANTS
    Cn2Waves,       \* sizes of a wave, any
    Cap,            \* OUTPUT_LEN - 1: 255
    Targets         \* targets a job may have

ASSUME OutputAssumption ==
    /\ Cn2Waves # {} /\ Cn2Waves \subseteq Nat \ {0} /\ Cap \in Nat
    /\ Targets # {} /\ Targets \subseteq Nat

VARIABLES
    wave2,      \* how many lanes a wave has
    target,     \* the push constant
    passed,     \* per wave, the segments it has run
    loaded,     \* per lane, the text it has computed and not stored; None
    text,       \* per lane, its variable text
    xin1, xin2, \* the shared memory
    states,     \* per lane, its words of the States buffer
    claimed,    \* per hash, its place in the output; see Unclaimed, Skipped
    output      \* the output buffer: candidates below Cap, their number at Cap

cn2Vars == <<wave2, target, passed, loaded, text, xin1, xin2, states, claimed, output>>
vars == <<cn1Vars, cn2Vars>>

CnLanes == 0 .. 8 * Cardinality(Hashes) - 1
Group(j) == j \div 8
Wave2(j) == j \div wave2
Waves2 == {Wave2(j) : j \in CnLanes}
Neighbour(j) == 8 * Group(j) + ((j + 1) % 8)
Nothing == Modulus              \* no text
Unclaimed == Cap + Cardinality(Hashes) + 1
Skipped == Unclaimed + 1
Stored == Unclaimed + 2
Empty == Cardinality(Hashes)    \* an entry of the output nobody wrote

\* The segments.
Leave == 2 * Loops + 1
Flag == Leave + 2 * TailRounds + 1
Enters(p) == p = 0
LoopFirst(p) == p \in 1 .. 2 * Loops /\ p % 2 = 1
LoopSecond(p) == p \in 1 .. 2 * Loops /\ p % 2 = 0
Leaves(p) == p = Leave
TailWrite(p) == p \in Leave + 1 .. Flag - 1 /\ (p - Leave) % 2 = 1
TailRead(p) == p \in Leave + 1 .. Flag - 1 /\ (p - Leave) % 2 = 0

\* The vector of the scratchpad a lane takes up in round n, and its second one.
VecAt(j, n, second) ==
    Vec(pad, PadWords * Group(j), ((16 * n + (j % 8)) % Stride) + second)

-----------------------------------------------------------------------------
Cn2Init ==
    /\ wave2 \in Cn2Waves
    /\ target \in Targets
    /\ passed = [w \in Waves2 |-> 0]
    /\ loaded = [j \in CnLanes |-> Nothing]
    /\ text = [j \in CnLanes |-> 0]
    /\ xin1 = [j \in CnLanes |-> 0]
    /\ xin2 = [j \in CnLanes |-> 1]
    /\ states = [j \in CnLanes |-> State(Group(j), j % 8)]
    /\ claimed = [h \in Hashes |-> Unclaimed]
    /\ output = [x \in 0 .. Cap |-> IF x = Cap THEN 0 ELSE Empty]

\* The barrier in front of a segment.
Together(w) == \A v \in Waves2 : passed[v] >= passed[w]

\* What a lane reads in segment p, and the text it makes of it.
AesOf(j, x) == Aes(x, Group(j))
XinOther(j) == xin2[Neighbour(j)]
TextOf(j, p) ==
    CASE Enters(p) -> Xor(states[j], VecAt(j, 0, 0))
      [] LoopFirst(p) -> AesOf(j, Xor(text[j], XinOther(j)))
      [] LoopSecond(p) -> AesOf(j, Xor(text[j], xin1[Neighbour(j)]))
      [] Leaves(p) -> AesOf(j, Xor(text[j], xin2[Neighbour(j)]))
      [] TailWrite(p) -> text[j]
      [] TailRead(p) ->
           LET x == Xor(text[j], xin1[Neighbour(j)]) IN
           IF p = Flag - 1 THEN x ELSE AesOf(j, x)

Load(w) ==
    /\ passed[w] < Flag
    /\ Together(w)
    /\ \A j \in CnLanes : Wave2(j) = w => loaded[j] = Nothing
    /\ loaded' = [j \in CnLanes |-> IF Wave2(j) = w THEN TextOf(j, passed[w]) ELSE loaded[j]]
    /\ UNCHANGED <<wave2, target, passed, text, xin1, xin2, states, claimed, output>>

\* What it then stores; the scratchpad is taken up after that.
Exchange(w) ==
    LET p == passed[w]
        mine == {j \in CnLanes : Wave2(j) = w}
        Put(mem, now) == [j \in CnLanes |-> IF j \in mine /\ now THEN loaded[j] ELSE mem[j]]
    IN
    /\ \A j \in mine : loaded[j] # Nothing
    /\ xin1' = Put(xin1, LoopFirst(p) \/ TailWrite(p))
    /\ xin2' = IF Enters(p) THEN [j \in CnLanes |-> IF j \in mine THEN 0 ELSE xin2[j]]
               ELSE Put(xin2, LoopSecond(p))
    /\ states' = Put(states, p = Flag - 1)
    /\ text' = [j \in CnLanes |->
         IF j \notin mine THEN text[j]
         ELSE IF LoopFirst(p) THEN Xor(loaded[j], VecAt(j, p \div 2, 8))
         ELSE IF LoopSecond(p) /\ p < 2 * Loops THEN Xor(loaded[j], VecAt(j, p \div 2, 0))
         ELSE loaded[j]]
    /\ loaded' = [j \in CnLanes |-> IF j \in mine THEN Nothing ELSE loaded[j]]
    /\ passed' = [passed EXCEPT ![w] = @ + 1]
    /\ UNCHANGED <<wave2, target, claimed, output>>

\* The first lane of a hash computes the PoW value from the whole state, and
\* draws a place if it meets the target ...
PowOf(h) == Pow([l \in Texts |-> states[8 * h + l]])
Meets(h) == PowOf(h) <= target

Claim(h) ==
    /\ claimed[h] = Unclaimed
    /\ passed[Wave2(8 * h)] = Flag
    /\ Together(Wave2(8 * h))
    /\ claimed' = [claimed EXCEPT ![h] = IF Meets(h) THEN output[Cap] ELSE Skipped]
    /\ output' = IF Meets(h) THEN [output EXCEPT ![Cap] = @ + 1] ELSE output
    /\ UNCHANGED <<wave2, target, passed, loaded, text, xin1, xin2, states>>

\* ... and writes itself there if it is one of the first.
\* The last word is the counter; the bug, that it counts as a place.
FitsLast(n) == n <= Cap
Fits(n) == n < Cap

StoreCandidate(h) ==
    /\ claimed[h] < Unclaimed
    /\ output' = IF Fits(claimed[h]) THEN [output EXCEPT ![claimed[h]] = h] ELSE output
    /\ claimed' = [claimed EXCEPT ![h] = Stored]
    /\ UNCHANGED <<wave2, target, passed, loaded, text, xin1, xin2, states>>

GroupStep ==
    \/ \E w \in Waves2 : Load(w) \/ Exchange(w)
    \/ \E h \in Hashes : Claim(h) \/ StoreCandidate(h)

\* The barrier between the kernels: cn2 starts when cn1 has run all slices.
Init == Cn1Init /\ Cn2Init
Next ==
    \/ Cn1Next /\ UNCHANGED cn2Vars
    \/ finished = Iterations /\ GroupStep /\ UNCHANGED cn1Vars
Spec == Init /\ [][Next]_vars

-----------------------------------------------------------------------------
\* When every wave is through, the state that goes into the last permutation is
\* the one the CPU reference has for that hash.
StatesReference ==
    (\A w \in Waves2 : passed[w] = Flag) =>
        \A h \in Hashes, l \in Texts :
            states[8 * h + l] = FinalTexts[h][l]

\* Where the 16 lanes of each hash share a wave of cn1, the kernels compute the
\* states of the CPU reference: in any order of the waves, with any slices, and
\* with waves of cn2 of any size, narrower than the 8 lanes of a hash included.
StatesExact == HashesShareWave => StatesReference

\* The same of every device the program runs on: "The GPU must produce the same
\* hash as the pool's reference validator" (README.md), and the lanes need no
\* lockstep as cn1 "uses a full workgroup barrier()" (vk.rs).  Waves narrower
\* than a hash, which a driver may choose, break it.
ExactOnEveryWave == StatesReference

\* Where they share a wave, the output holds, once each, hashes that the CPU
\* reference finds at or below the target: all of them, or as many as fit, and
\* their true number.
CandidatesExact ==
    HashesShareWave /\ (\A h \in Hashes : claimed[h] \in {Skipped, Stored}) =>
        LET hits == {h \in Hashes : FusionHash[h] <= target}
            listed == {output[x] : x \in 0 .. Cap - 1} \ {Empty}
            fitting == IF Cardinality(hits) < Cap THEN Cardinality(hits) ELSE Cap
        IN  /\ output[Cap] = Cardinality(hits)
            /\ listed \subseteq hits
            /\ Cardinality(listed) = fitting
=============================================================================
