----------------------------- MODULE TunerProofs -----------------------------
(***************************************************************************)
(* Proofs about Tuner for every number of shards, all speeds and any room. *)
(***************************************************************************)
EXTENDS Tuner, TLAPS

-----------------------------------------------------------------------------
\* The inductive invariant.

Measurement == [shards : Counts, khs : Speeds \union {0}]

\* What max_by picks.
IsBest(i) == \A k \in 1 .. Len(results) :
                /\ results[k].khs <= results[i].khs
                /\ results[k].khs = results[i].khs => k <= i

HasBest == results # <<>> => \E i \in 1 .. Len(results) : IsBest(i)

\* The counts measured have no gap.
NoGap == \E a, b \in Counts : a <= b /\ MeasuredCounts = a .. b

\* If no candidate failed, everything is given back and every count fits.
AllFit ==
    (\A i \in 1 .. Len(results) : results[i].khs > 0) =>
        free = room /\ \A i \in 1 .. Len(results) : results[i].shards <= room

SweepInv ==
    /\ phase = "lookup" => results = <<>>
    /\ phase = "first" => /\ next \in FirstCount .. LastCount
                          /\ MeasuredCounts = FirstCount .. next - 1
    /\ phase = "climb" => NoGap
    /\ phase \in {"lookup", "first", "climb"} => HasBest
    /\ phase \in {"lookup", "first", "climb", "build"} => AllFit

Inv == TypeOK /\ SweepInv /\ LocalOptimum

-----------------------------------------------------------------------------
\* Appending a measurement adds its count.
LEMMA CountsGrow ==
    ASSUME NEW e \in Measurement, results \in Seq(Measurement),
           results' = Append(results, e)
    PROVE  /\ results' \in Seq(Measurement)
           /\ results' # <<>>
           /\ Len(results') = Len(results) + 1 /\ Len(results) \in Nat
           /\ results'[Len(results) + 1] = e
           /\ \A i \in 1 .. Len(results) : results'[i] = results[i]
           /\ MeasuredCounts' = MeasuredCounts \union {e.shards}
<1>1. /\ results' \in Seq(Measurement) /\ results' # <<>>
      /\ Len(results') = Len(results) + 1 /\ Len(results) \in Nat
      /\ results'[Len(results) + 1] = e
      /\ \A i \in 1 .. Len(results) : results'[i] = results[i]
  OBVIOUS
<1>2. MeasuredCounts' = MeasuredCounts \union {e.shards}
  BY <1>1 DEF MeasuredCounts
<1> QED
  BY <1>1, <1>2

\* A measurement keeps the types, adds its count, leaves a fastest count and
\* room for what was measured.
LEMMA MeasureOne ==
    ASSUME TypeOK, HasBest, AllFit, NEW n \in Counts, Measured(n), room' = room
    PROVE  /\ results' \in Seq(Measurement)
           /\ free' \in 0 .. room
           /\ MeasuredCounts' = MeasuredCounts \union {n}
           /\ HasBest' /\ AllFit'
<1> USE TunerAssumption
<1>0. results \in Seq(Measurement) /\ free \in 0 .. room /\ room \in 0 .. MaxShards
  BY DEF TypeOK, Measurement
<1>1. CASE n \in MeasuredCounts
  <2>1. UNCHANGED <<results, free>>
    BY <1>1 DEF Measured
  <2>2. MeasuredCounts' = MeasuredCounts
    BY <2>1 DEF MeasuredCounts
  <2>3. HasBest' /\ AllFit'
    BY <2>1 DEF HasBest, AllFit, IsBest
  <2> QED
    BY <1>0, <1>1, <2>1, <2>2, <2>3
<1>2. CASE n \notin MeasuredCounts
  <2>1. PICK e \in Measurement :
          /\ results' = Append(results, e) /\ e.shards = n
          /\ \/ n <= free /\ free' = free
             \/ free' \in 0 .. free /\ e.khs = 0
    <3>1. CASE /\ n <= free /\ free' = LeftBy(n)
               /\ \E khs \in Speeds : results' = Append(results, [shards |-> n, khs |-> khs])
      <4>1. PICK khs \in Speeds : results' = Append(results, [shards |-> n, khs |-> khs])
        BY <3>1
      <4> QED
        BY <3>1, <4>1 DEF Measurement, LeftBy
    <3>2. CASE /\ results' = Append(results, [shards |-> n, khs |-> 0])
               /\ free' \in LeftByFailed(n)
      BY <3>2 DEF Measurement, LeftByFailed
    <3> QED
      BY <1>2, <3>1, <3>2 DEF Measured
  <2>2. /\ results' \in Seq(Measurement) /\ results' # <<>>
        /\ Len(results') = Len(results) + 1 /\ Len(results) \in Nat
        /\ results'[Len(results) + 1] = e
        /\ \A i \in 1 .. Len(results) : results'[i] = results[i]
        /\ MeasuredCounts' = MeasuredCounts \union {e.shards}
    BY <1>0, <2>1, CountsGrow
  <2>0. \A v \in Speeds \union {0} : v \in Nat
    OBVIOUS
  <2>3. \A i \in 1 .. Len(results) : results[i].khs \in Nat /\ results[i].shards \in Nat
    <3>1. \A i \in 1 .. Len(results) : results[i] \in Measurement
      BY <1>0
    <3>2. \A f \in Measurement : f.khs \in Nat /\ f.shards \in Nat
      <4>1. ASSUME NEW f \in Measurement PROVE f.khs \in Nat
        <5>1. f.khs \in Speeds \union {0}
          BY DEF Measurement
        <5> QED
          BY <2>0, <5>1
      <4>2. ASSUME NEW f \in Measurement PROVE f.shards \in Nat
        BY DEF Measurement, Counts
      <4> QED
        BY <4>1, <4>2
    <3> QED
      BY <3>1, <3>2
  <2>4. e.khs \in Nat
    BY <2>0 DEF Measurement
  <2>5. HasBest'
    <3> DEFINE m == Len(results) + 1
    <3>1. CASE results = <<>> \/ \A i \in 1 .. Len(results) : results[i].khs <= e.khs
      <4>1. \A k \in 1 .. Len(results') :
              /\ results'[k].khs <= results'[m].khs
              /\ results'[k].khs = results'[m].khs => k <= m
        BY <2>2, <2>3, <2>4, <3>1
      <4>2. m \in 1 .. Len(results')
        BY <2>2
      <4> HIDE DEF m
      <4> QED
        BY <4>1, <4>2 DEF HasBest, IsBest
    <3>2. CASE results # <<>> /\ \E i \in 1 .. Len(results) : ~(results[i].khs <= e.khs)
      <4>1. PICK j \in 1 .. Len(results) : IsBest(j)
        BY <3>2 DEF HasBest
      <4>2. e.khs < results[j].khs
        BY <2>3, <2>4, <3>2, <4>1 DEF IsBest
      <4>3. \A k \in 1 .. Len(results') :
              /\ results'[k].khs <= results'[j].khs
              /\ results'[k].khs = results'[j].khs => k <= j
        <5>1. ASSUME NEW k \in 1 .. Len(results')
              PROVE  /\ results'[k].khs <= results'[j].khs
                     /\ results'[k].khs = results'[j].khs => k <= j
          <6>1. CASE k \in 1 .. Len(results)
            BY <2>2, <4>1, <6>1 DEF IsBest
          <6>2. CASE k = Len(results) + 1
            BY <2>2, <2>3, <2>4, <4>2, <6>2
          <6> QED
            BY <2>2, <6>1, <6>2
        <5> QED
          BY <5>1
      <4>4. j \in 1 .. Len(results')
        BY <2>2
      <4> QED
        BY <4>3, <4>4 DEF HasBest, IsBest
    <3> QED
      BY <3>1, <3>2
  <2>6. AllFit'
    <3> SUFFICES ASSUME \A i \in 1 .. Len(results') : results'[i].khs > 0
                 PROVE  /\ free' = room
                        /\ \A i \in 1 .. Len(results') : results'[i].shards <= room
      BY DEF AllFit
    <3>1. \A i \in 1 .. Len(results) : results[i].khs > 0
      BY <2>2
    <3>2. free = room /\ \A i \in 1 .. Len(results) : results[i].shards <= room
      BY <3>1 DEF AllFit
    <3>3. e.khs > 0
      BY <2>2
    <3>4. n <= free /\ free' = free
      BY <2>1, <3>3
    <3> QED
      BY <2>1, <2>2, <3>2, <3>4
  <2> QED
    BY <1>0, <2>1, <2>2, <2>5, <2>6
<1> QED
  BY <1>1, <1>2

-----------------------------------------------------------------------------
\* With no gap the smallest and the largest count are the ends of the interval.
LEMMA Ends ==
    ASSUME NEW a \in Counts, NEW b \in Counts, a <= b, MeasuredCounts = a .. b
    PROVE  Lo = a /\ Hi = b
<1> USE TunerAssumption DEF Counts
<1>1. a \in MeasuredCounts /\ b \in MeasuredCounts
  OBVIOUS
<1>2. \A n \in MeasuredCounts : n \in Nat /\ a <= n /\ n <= b
  OBVIOUS
<1>3. Lo \in MeasuredCounts /\ \A m \in MeasuredCounts : Lo <= m
  BY <1>1, <1>2 DEF Lo
<1>4. Hi \in MeasuredCounts /\ \A m \in MeasuredCounts : Hi >= m
  BY <1>1, <1>2 DEF Hi
<1> QED
  BY <1>1, <1>2, <1>3, <1>4

\* Best is one of the measurements, and the fastest.
LEMMA BestIsBest ==
    ASSUME HasBest, results # <<>>
    PROVE  \E i \in 1 .. Len(results) : IsBest(i) /\ Best = results[i]
<1>1. PICK j \in 1 .. Len(results) : IsBest(j)
  BY DEF HasBest
<1> DEFINE i == CHOOSE i \in 1 .. Len(results) :
                    \A k \in 1 .. Len(results) :
                       /\ results[k].khs <= results[i].khs
                       /\ results[k].khs = results[i].khs => k <= i
<1>2. i \in 1 .. Len(results) /\ IsBest(i)
  BY <1>1 DEF IsBest
<1>3. Best = results[i]
  BY DEF Best
<1> QED
  BY <1>2, <1>3

\* The first counts are counts, with the solver's among them.
LEMMA FirstCounts ==
    ASSUME shards0 \in Counts
    PROVE  FirstCount \in Counts /\ LastCount \in Counts /\ FirstCount <= LastCount
BY TunerAssumption DEF Counts, FirstCount, LastCount

-----------------------------------------------------------------------------
\* The invariant holds at first.
LEMMA InitInv == Init => Inv
<1> SUFFICES ASSUME Init PROVE Inv
  OBVIOUS
<1> USE TunerAssumption
<1>1. results \in Seq(Measurement) /\ Len(results) = 0
  BY DEF Init
<1>2. TypeOK
  BY <1>1 DEF Init, TypeOK, Counts, None, Measurement
<1>3. SweepInv /\ LocalOptimum
  BY <1>1 DEF Init, SweepInv, LocalOptimum, HasBest, AllFit
<1> QED
  BY <1>2, <1>3 DEF Inv

\* The lookup: a cached count, or the first count of a sweep.
LEMMA LookupStep ==
    ASSUME Inv, UseCache \/ StartSweep
    PROVE  Inv'
<1> USE TunerAssumption
<1>0. TypeOK /\ SweepInv /\ phase = "lookup" /\ results = <<>> /\ AllFit
  BY DEF Inv, SweepInv, UseCache, StartSweep
<1>1. CASE UseCache
  <2>1. answer' \in 0 .. MaxShards
    BY <1>0, <1>1 DEF UseCache, TypeOK, Entry
  <2>2. TypeOK'
    BY <1>0, <1>1, <2>1 DEF UseCache, TypeOK
  <2>3. AllFit'
    BY <1>0, <1>1 DEF UseCache, AllFit
  <2>4. SweepInv' /\ LocalOptimum'
    BY <1>0, <1>1, <2>3 DEF UseCache, SweepInv, LocalOptimum
  <2> QED
    BY <2>2, <2>4 DEF Inv
<1>2. CASE StartSweep
  <2>1. /\ phase' = "first" /\ next' = FirstCount
        /\ UNCHANGED <<shards0, results, answer, cache, room, free, starts>>
    BY <1>2 DEF StartSweep
  <2>2. FirstCount \in Counts /\ LastCount \in Counts /\ FirstCount <= LastCount
    BY <1>0, FirstCounts DEF TypeOK
  <2>3. FirstCount' = FirstCount /\ LastCount' = LastCount
    BY <2>1 DEF FirstCount, LastCount
  <2>4. MeasuredCounts' = {}
    BY <1>0, <2>1 DEF MeasuredCounts
  <2>5. TypeOK'
    BY <1>0, <2>1, <2>2 DEF TypeOK, Counts
  <2>6. HasBest' /\ AllFit'
    BY <1>0, <2>1 DEF HasBest, AllFit
  <2>7. next' \in FirstCount' .. LastCount' /\ MeasuredCounts' = FirstCount' .. next' - 1
    BY <2>1, <2>2, <2>3, <2>4 DEF Counts
  <2>8. SweepInv' /\ LocalOptimum'
    BY <2>1, <2>6, <2>7 DEF SweepInv, LocalOptimum
  <2> QED
    BY <2>5, <2>8 DEF Inv
<1> QED
  BY <1>1, <1>2

\* The first loop measures one count after the other.
LEMMA FirstStep ==
    ASSUME Inv, MeasureFirst
    PROVE  Inv'
<1> USE TunerAssumption
<1>1. /\ phase = "first" /\ Measured(next) /\ next' = next + 1
      /\ phase' = IF next = LastCount THEN "climb" ELSE "first"
      /\ UNCHANGED <<shards0, answer, cache, room, starts>>
      /\ TypeOK /\ HasBest /\ AllFit
      /\ next \in FirstCount .. LastCount /\ MeasuredCounts = FirstCount .. next - 1
  BY DEF MeasureFirst, Inv, SweepInv
<1>2. FirstCount \in Counts /\ LastCount \in Counts /\ FirstCount <= LastCount
  BY <1>1, FirstCounts DEF TypeOK
<1>3. next \in Counts
  BY <1>1, <1>2 DEF Counts
<1>4. /\ results' \in Seq(Measurement) /\ free' \in 0 .. room
      /\ MeasuredCounts' = MeasuredCounts \union {next} /\ HasBest' /\ AllFit'
  BY <1>1, <1>3, MeasureOne
<1>5. FirstCount' = FirstCount /\ LastCount' = LastCount
  BY <1>1 DEF FirstCount, LastCount
<1>6. MeasuredCounts' = FirstCount .. next
  BY <1>1, <1>2, <1>4 DEF Counts
<1>7. TypeOK'
  BY <1>1, <1>2, <1>4 DEF TypeOK, Measurement, Counts
<1>8. CASE next = LastCount
  <2>1. NoGap'
    BY <1>2, <1>6, <1>8 DEF NoGap
  <2> QED
    BY <1>1, <1>4, <1>7, <1>8, <2>1 DEF Inv, SweepInv, LocalOptimum
<1>9. CASE next # LastCount
  <2>1. next' \in FirstCount' .. LastCount' /\ MeasuredCounts' = FirstCount' .. next' - 1
    BY <1>1, <1>2, <1>5, <1>6, <1>9 DEF Counts
  <2> QED
    BY <1>1, <1>4, <1>7, <1>9, <2>1 DEF Inv, SweepInv, LocalOptimum
<1> QED
  BY <1>8, <1>9

\* The climb goes one count beyond an end, so no gap opens.
LEMMA ClimbStep ==
    ASSUME Inv, Climb
    PROVE  Inv'
<1> USE TunerAssumption
<1>1. /\ phase = "climb"
      /\ \/ MayRaise /\ Measured(NextUp)
         \/ ~MayRaise /\ MayLower /\ Measured(Lo - 1)
      /\ UNCHANGED <<phase, shards0, next, answer, cache, room, starts>>
      /\ TypeOK /\ HasBest /\ AllFit /\ NoGap
  BY DEF Climb, Inv, SweepInv
<1>2. PICK a \in Counts, b \in Counts : a <= b /\ MeasuredCounts = a .. b
  BY <1>1 DEF NoGap
<1>3. Lo = a /\ Hi = b
  BY <1>2, Ends
<1>4. PICK n \in Counts : Measured(n) /\ (n = b + 1 \/ n = a - 1)
  <2>1. CASE MayRaise /\ Measured(NextUp)
    BY <1>2, <1>3, <2>1 DEF MayRaise, NextUp, Counts
  <2>2. CASE MayLower /\ Measured(Lo - 1)
    BY <1>2, <1>3, <2>2 DEF MayLower, Counts
  <2> QED
    BY <1>1, <2>1, <2>2
<1>5. /\ results' \in Seq(Measurement) /\ free' \in 0 .. room
      /\ MeasuredCounts' = MeasuredCounts \union {n} /\ HasBest' /\ AllFit'
  BY <1>1, <1>4, MeasureOne
<1>6. TypeOK'
  BY <1>1, <1>5 DEF TypeOK, Measurement
<1>7. NoGap'
  <2>1. CASE n = b + 1
    <3>1. MeasuredCounts' = a .. n /\ a <= n
      BY <1>2, <1>5, <2>1 DEF Counts
    <3> QED
      BY <3>1 DEF NoGap
  <2>2. CASE n = a - 1
    <3>1. MeasuredCounts' = n .. b /\ n <= b
      BY <1>2, <1>5, <2>2 DEF Counts
    <3> QED
      BY <3>1 DEF NoGap
  <2> QED
    BY <1>4, <2>1, <2>2
<1> QED
  BY <1>1, <1>5, <1>6, <1>7 DEF Inv, SweepInv, LocalOptimum

\* Where the climb ends, the best count has both its neighbours measured.
LEMMA ConcludeStep ==
    ASSUME Inv, Conclude
    PROVE  Inv'
<1> USE TunerAssumption
<1>1. /\ phase = "climb" /\ ~MayRaise /\ ~MayLower
      /\ UNCHANGED <<shards0, next, results, room, free, starts>>
      /\ TypeOK /\ HasBest /\ AllFit /\ NoGap
  BY DEF Conclude, Inv, SweepInv
<1>2. PICK a \in Counts, b \in Counts : a <= b /\ MeasuredCounts = a .. b
  BY <1>1 DEF NoGap
<1>3. Lo = a /\ Hi = b
  BY <1>2, Ends
<1>4. results # <<>> /\ results \in Seq(Measurement)
  <2>1. a \in MeasuredCounts
    BY <1>2 DEF Counts
  <2> QED
    BY <1>1, <2>1 DEF MeasuredCounts, TypeOK, Measurement
<1>5. PICK i \in 1 .. Len(results) : IsBest(i) /\ Best = results[i]
  BY <1>1, <1>4, BestIsBest
<1>6. Best \in Measurement /\ Best.shards \in a .. b
  <2>1. Best.shards \in MeasuredCounts
    BY <1>5 DEF MeasuredCounts
  <2> QED
    BY <1>2, <1>4, <1>5, <2>1
<1>7. AllFit'
  BY <1>1 DEF AllFit
<1>8. CASE Best.khs > 0 /\ answer' = Best.shards /\ cache' = Best /\ phase' = "build"
  <2>1. Best \in Entry /\ Best.shards \in 0 .. MaxShards
    <3>1. Best.khs \in Speeds
      BY <1>6, <1>8 DEF Measurement
    <3>2. Best = [shards |-> Best.shards, khs |-> Best.khs] /\ Best.shards \in Counts
      BY <1>6 DEF Measurement
    <3> QED
      BY <3>1, <3>2 DEF Entry, Counts
  <2>2. TypeOK'
    BY <1>1, <1>8, <2>1 DEF TypeOK
  <2>3. (Counts \cap {answer' - 1, answer' + 1}) \subseteq MeasuredCounts
    <3>1. Best.shards = b => b = MaxShards
      BY <1>1, <1>3 DEF MayRaise, Counts
    <3>2. Best.shards = a => a = 1
      BY <1>1, <1>3 DEF MayLower, Counts
    <3> QED
      BY <1>2, <1>6, <1>8, <3>1, <3>2 DEF Counts
  <2>4. MeasuredCounts' = MeasuredCounts
    BY <1>1 DEF MeasuredCounts
  <2>5. LocalOptimum'
    <3>1. /\ results'[i].shards = answer' /\ results'[i].khs > 0
          /\ \A k \in 1 .. Len(results') : results'[k].khs <= results'[i].khs
          /\ i \in 1 .. Len(results')
      BY <1>1, <1>5, <1>8 DEF IsBest
    <3> QED
      BY <1>8, <2>3, <2>4, <3>1 DEF LocalOptimum
  <2> QED
    BY <1>7, <1>8, <2>2, <2>5 DEF Inv, SweepInv
<1>9. CASE phase' = "failed" /\ UNCHANGED <<answer, cache>>
  <2>1. TypeOK'
    BY <1>1, <1>9 DEF TypeOK
  <2> QED
    BY <1>9, <2>1 DEF Inv, SweepInv, LocalOptimum
<1> QED
  BY <1>8, <1>9 DEF Conclude

\* What follows the answer.
LEMMA AfterStep ==
    ASSUME Inv, BuildMiner \/ StartAgain \/ UNCHANGED vars
    PROVE  Inv'
<1> USE TunerAssumption
<1>0. TypeOK /\ SweepInv /\ LocalOptimum
  BY DEF Inv
<1>1. CASE BuildMiner
  <2>1. phase' \in {"mining", "failed"} /\ free' \in 0 .. room
    BY <1>0, <1>1 DEF BuildMiner, TypeOK, LeftByFailed
  <2>2. TypeOK'
    BY <1>0, <1>1, <2>1 DEF BuildMiner, TypeOK
  <2> QED
    BY <2>1, <2>2 DEF Inv, SweepInv, LocalOptimum
<1>2. CASE StartAgain
  <2>1. results' \in Seq(Measurement) /\ Len(results') = 0 /\ results' = <<>>
    BY <1>2 DEF StartAgain
  <2>2. TypeOK'
    BY <1>0, <1>2, <2>1 DEF StartAgain, TypeOK, Measurement
  <2>3. phase' = "lookup" /\ free' = room'
    BY <1>2 DEF StartAgain
  <2>4. HasBest' /\ AllFit'
    BY <2>1, <2>3 DEF HasBest, AllFit
  <2> QED
    BY <2>1, <2>2, <2>3, <2>4 DEF Inv, SweepInv, LocalOptimum
<1>3. CASE UNCHANGED vars
  <2>1. UNCHANGED <<phase, shards0, next, results, answer, cache, room, free, starts>>
    BY <1>3 DEF vars
  <2>2. TypeOK'
    BY <1>0, <2>1 DEF TypeOK
  <2>3. FirstCount' = FirstCount /\ LastCount' = LastCount /\ MeasuredCounts' = MeasuredCounts
    BY <2>1 DEF FirstCount, LastCount, MeasuredCounts
  <2>4. SweepInv'
    BY <1>0, <2>1, <2>3 DEF SweepInv, NoGap, HasBest, AllFit, IsBest
  <2>5. LocalOptimum'
    BY <1>0, <2>1, <2>3 DEF LocalOptimum
  <2> QED
    BY <2>2, <2>4, <2>5 DEF Inv
<1> QED
  BY <1>1, <1>2, <1>3

-----------------------------------------------------------------------------
\* The invariant holds in every reachable state.
THEOREM Inductive == Spec => []Inv
<1>1. Inv /\ [Next]_vars => Inv'
  BY LookupStep, FirstStep, ClimbStep, ConcludeStep, AfterStep DEF Next, TuneStep
<1> QED
  BY InitInv, <1>1, PTL DEF Spec

\* Whatever is measured, ties and failures included, tune_shards answers with a
\* count that was measured, than which no measured one is faster, and whose
\* neighbours were measured too.
THEOREM AnswerIsOptimum == Spec => []LocalOptimum
<1>1. Inv => LocalOptimum
  BY DEF Inv
<1> QED
  BY Inductive, <1>1, PTL

\* Unless a candidate failed, the answer fits into the memory there is.
THEOREM AnswerFits == Spec => []BuildHasRoom
<1>1. Inv => BuildHasRoom
  <2> SUFFICES ASSUME Inv, phase = "build", results # <<>>,
                      \A i \in 1 .. Len(results) : results[i].khs > 0
               PROVE  answer <= free
    BY DEF BuildHasRoom
  <2>1. free = room /\ \A i \in 1 .. Len(results) : results[i].shards <= room
    BY DEF Inv, SweepInv, AllFit
  <2>2. \E i \in 1 .. Len(results) : results[i].shards = answer
    BY DEF Inv, LocalOptimum
  <2> QED
    BY <2>1, <2>2
<1> QED
  BY Inductive, <1>1, PTL
=============================================================================
