--------------------------- MODULE StartupProofs ---------------------------
(***************************************************************************)
(* Theorems about Startup, and with it about Layout and VkObjects: for all *)
(* devices, command lines, caches and scratchpad sizes, whatever fails.    *)
(*                                                                         *)
(* The invariant is IInv, one part per concern: where main is and which    *)
(* devices have their thread (Places, Turns); who owns which objects       *)
(* (Owned); what a device was opened for (Capable); the layouts and counts *)
(* (Planned); the divide variants asked for so far (Divided); the stats    *)
(* file (Reported).  Before it: sequences and filters, what the plans and  *)
(* the destructors of VkObjects are made of and how much of the descriptor *)
(* pool a plan takes, and the layout search.  Facts about data that would  *)
(* take an induction come from the least element of a set of naturals.     *)
(***************************************************************************)
EXTENDS Startup, FiniteSetTheorems, SequenceTheorems, WellFoundedInduction, TLAPS

-----------------------------------------------------------------------------
\* Every set of naturals has a least element.
LEMMA LeastNatural ==
    ASSUME NEW S \in SUBSET Nat, S # {}
    PROVE  \E n \in S : \A m \in S : n <= m
<1> DEFINE R == OpToRel(<, Nat)
<1>1. IsWellFoundedOn(R, Nat)
  BY NatLessThanWellFounded
<1>2. \A m, n \in Nat : m < n => <<m, n>> \in R
  BY DEF OpToRel
<1> HIDE DEF R
<1>3. PICK n \in S : \A m \in S : ~ <<m, n>> \in R
  BY <1>1, WFMin, Zenon
<1>4. ASSUME NEW m \in S PROVE n <= m
  <2>1. m \in Nat /\ n \in Nat /\ ~ <<m, n>> \in R
    BY <1>3
  <2>2. ~ (m < n)
    BY <1>2, <2>1, Zenon
  <2> QED
    BY <2>1, <2>2
<1> QED
  BY <1>4

-----------------------------------------------------------------------------
\* Among the places P there is a k-th one: the first place up to which there
\* are k of them.
LEMMA KthPlace ==
    ASSUME NEW n \in Nat, NEW P \in SUBSET (1 .. n), NEW k \in 1 .. Cardinality(P)
    PROVE  \E i \in P : Cardinality({j \in P : j <= i}) = k
<1> DEFINE UpTo(m) == {j \in P : j <= m}
           Enough == {m \in Nat : Cardinality(UpTo(m)) >= k}
<1>1. IsFiniteSet(P) /\ Cardinality(P) \in Nat
  <2>1. IsFiniteSet(1 .. n)
    BY FS_Interval
  <2> QED
    BY <2>1, FS_Subset, FS_CardinalityType
<1>2. \A m \in Nat : IsFiniteSet(UpTo(m)) /\ Cardinality(UpTo(m)) \in Nat
  <2> TAKE m \in Nat
  <2>1. UpTo(m) \in SUBSET P
    OBVIOUS
  <2> QED
    BY <1>1, <2>1, FS_Subset, FS_CardinalityType
<1>3. \A j \in P : j \in Nat /\ j # 0 /\ j <= n
  OBVIOUS
<1>4. UpTo(n) = P /\ UpTo(0) = {}
  <2>1. \A j \in P : j <= n /\ ~ (j <= 0)
    BY <1>3
  <2> QED
    BY <2>1
<1>5. \A m \in Nat : UpTo(m + 1) = IF m + 1 \in P THEN UpTo(m) \union {m + 1} ELSE UpTo(m)
  <2> TAKE m \in Nat
  <2>1. \A j \in P : j <= m + 1 <=> (j <= m \/ j = m + 1)
    BY <1>3
  <2> QED
    BY <2>1
<1> HIDE DEF UpTo
<1>6. n \in Enough /\ 0 \notin Enough
  BY <1>1, <1>4, FS_EmptySet
<1>7. PICK m \in Enough : \A l \in Enough : m <= l
  <2>1. Enough \in SUBSET Nat
    OBVIOUS
  <2> HIDE DEF Enough
  <2> QED
    BY <1>6, <2>1, LeastNatural
<1>8. PICK l \in Nat : m = l + 1
  <2>1. m \in Nat /\ m # 0
    BY <1>6
  <2>2. m - 1 \in Nat /\ m = (m - 1) + 1
    BY <2>1
  <2> QED
    BY <2>2
<1>9. l \notin Enough
  <2>1. ~ (m <= l)
    BY <1>8
  <2> QED
    BY <1>7, <2>1, Zenon
<1>10. Cardinality(UpTo(l)) < k /\ Cardinality(UpTo(l + 1)) >= k
  BY <1>2, <1>8, <1>9
<1>11. /\ IsFiniteSet(UpTo(l)) /\ Cardinality(UpTo(l)) \in Nat
       /\ Cardinality(UpTo(l + 1)) \in Nat
  BY <1>2, <1>8
<1>12. /\ Cardinality(UpTo(l + 1)) <= Cardinality(UpTo(l)) + 1
       /\ l + 1 \notin P => Cardinality(UpTo(l + 1)) = Cardinality(UpTo(l))
  <2>1. CASE l + 1 \in P
    <3>1. UpTo(l + 1) = UpTo(l) \union {l + 1}
      BY <1>5, <1>8, <2>1
    <3>2. Cardinality(UpTo(l) \union {l + 1})
            = IF l + 1 \in UpTo(l) THEN Cardinality(UpTo(l)) ELSE Cardinality(UpTo(l)) + 1
      BY <1>11, FS_AddElement, Zenon
    <3>3. Cardinality(UpTo(l + 1)) \in {Cardinality(UpTo(l)), Cardinality(UpTo(l)) + 1}
      BY <3>1, <3>2, Zenon
    <3> QED
      BY <1>11, <2>1, <3>3
  <2>2. CASE l + 1 \notin P
    <3>1. UpTo(l + 1) = UpTo(l)
      BY <1>5, <1>8, <2>2
    <3>2. Cardinality(UpTo(l + 1)) = Cardinality(UpTo(l))
      BY <3>1, Zenon
    <3> QED
      BY <1>11, <3>2
  <2> QED
    BY <2>1, <2>2
<1>13. l + 1 \in P /\ Cardinality(UpTo(l + 1)) = k
  BY <1>10, <1>11, <1>12
<1> QED
  BY <1>13 DEF UpTo

\* Filtering a sequence leaves a sequence of the elements at the places kept.
LEMMA FilteredType ==
    ASSUME NEW S, NEW s, NEW n \in Nat, NEW P \in SUBSET (1 .. n),
           \A i \in P : s[i] \in S
    PROVE  Filtered(s, P) \in Seq(S)
<1>1. Cardinality(P) \in Nat
  <2>1. IsFiniteSet(1 .. n)
    BY FS_Interval
  <2> QED
    BY <2>1, FS_Subset, FS_CardinalityType
<1>2. \A k \in 1 .. Cardinality(P) :
        s[CHOOSE i \in P : Cardinality({j \in P : j <= i}) = k] \in S
  <2> TAKE k \in 1 .. Cardinality(P)
  <2>1. (CHOOSE i \in P : Cardinality({j \in P : j <= i}) = k) \in P
    BY KthPlace
  <2> QED
    BY <2>1
<1>3. Filtered(s, P) \in [1 .. Cardinality(P) -> S]
  BY <1>2 DEF Filtered
<1> QED
  BY <1>1, <1>3, SeqDef

\* What main chooses are devices of the system.
LEMMA ChosenType ==
    ASSUME NEW s \in Seq(Device), NEW c \in CommandLine
    PROVE  Chosen(s, c) \in Seq(Device)
<1> DEFINE offered == Offered(s, c)
           places == {k \in 1 .. Len(c.sel) : c.sel[k] \in 1 .. Len(offered)}
           inRange == Filtered(c.sel, places)
<1>1. offered \in Seq(Device)
  <2>1. Len(s) \in Nat /\ \A i \in {i \in 1 .. Len(s) : s[i].vendor} : s[i] \in Device
    BY ElementOfSeq, LenProperties
  <2>2. Filtered(s, {i \in 1 .. Len(s) : s[i].vendor}) \in Seq(Device)
    BY <2>1, FilteredType
  <2> QED
    BY <2>2 DEF Offered
<1>2. c.sel \in Seq(Nat) /\ Len(c.sel) \in Nat
  BY LenProperties DEF CommandLine
<1> HIDE DEF offered
<1>3. inRange \in Seq(1 .. Len(offered))
  BY <1>2, FilteredType
<1> HIDE DEF inRange
<1>4. \A k \in 1 .. Len(inRange) : offered[inRange[k]] \in Device
  BY <1>1, <1>3, ElementOfSeq
<1>5. [k \in 1 .. Len(inRange) |-> offered[inRange[k]]] \in [1 .. Len(inRange) -> Device]
  BY <1>4
<1>6. [k \in 1 .. Len(inRange) |-> offered[inRange[k]]] \in Seq(Device)
  BY <1>3, <1>5, LenProperties, SeqDef
<1> QED
  BY <1>1, <1>6 DEF Chosen, offered, inRange

-----------------------------------------------------------------------------
\* Sequences over the same objects, one after the other.
LEMMA Joined ==
    ASSUME NEW D, NEW s \in Seq(D), NEW t \in Seq(D)
    PROVE  s \o t \in Seq(D) /\ Len(s \o t) = Len(s) + Len(t)
BY ConcatProperties

\* The pieces of a plan, among any objects D that hold what their destructor
\* names.
LEMMA PipeIn ==
    ASSUME NEW D, NEW p, PipeDestroyed(p) \subseteq D
    PROVE  Pipe(p) \in Seq(D)
BY DEF Pipe, PipeDestroyed

\* A buffer: two objects, and its mapping where the host maps it.
LEMMA BufferIn ==
    ASSUME NEW D, NEW b, NEW i, NEW host \in BOOLEAN, BufferDestroyed(b, i, host) \subseteq D
    PROVE  Buffer(b, i, host) \in Seq(D) /\ Len(Buffer(b, i, host)) = IF host THEN 3 ELSE 2
<1>1. CASE host
  <2>1. {<<b, i, "buffer">>, <<b, i, "memory">>, <<b, i, "mapping">>} \subseteq D
    BY <1>1 DEF BufferDestroyed
  <2>2. Buffer(b, i, host) = << <<b, i, "buffer">>, <<b, i, "memory">> >> \o << <<b, i, "mapping">> >>
    BY <1>1 DEF Buffer
  <2>3. /\ << <<b, i, "buffer">>, <<b, i, "memory">> >> \in Seq(D)
        /\ << <<b, i, "mapping">> >> \in Seq(D)
        /\ Len(<< <<b, i, "buffer">>, <<b, i, "memory">> >>) = 2
        /\ Len(<< <<b, i, "mapping">> >>) = 1
    BY <2>1
  <2>4. Buffer(b, i, host) \in Seq(D) /\ Len(Buffer(b, i, host)) = 2 + 1
    BY <2>2, <2>3, Joined, Zenon
  <2>5. 2 + 1 = 3
    OBVIOUS
  <2> QED
    BY <1>1, <2>4, <2>5, Zenon
<1>2. CASE ~ host
  <2>1. {<<b, i, "buffer">>, <<b, i, "memory">>} \subseteq D
    BY <1>2 DEF BufferDestroyed
  <2>2. Buffer(b, i, host) = << <<b, i, "buffer">>, <<b, i, "memory">> >> \o <<>>
    BY <1>2 DEF Buffer
  <2> QED
    BY <1>2, <2>1, <2>2
<1> QED
  BY <1>1, <1>2

\* What is destroyed of a shard.
ShardDestroyed(i, debug) ==
    {<<s, i, "set">> : s \in Kernels(debug)}
        \union BufferDestroyed("scratch", i, debug) \union BufferDestroyed("states", i, debug)
        \union BufferDestroyed("output", i, TRUE) \union BufferDestroyed("cn1_save", i, FALSE)
        \union IF debug THEN BufferDestroyed("dbg", i, TRUE) ELSE {}

ShardSize(debug) == IF debug THEN 19 ELSE 13

\* A shard: 13 objects, 19 in debug mode.
LEMMA ShardIn ==
    ASSUME NEW D, NEW i, NEW debug \in BOOLEAN
    PROVE  ShardDestroyed(i, debug) \subseteq D =>
             Shard(i, debug) \in Seq(D) /\ Len(Shard(i, debug)) = ShardSize(debug)
<1> DEFINE sets == << <<"cn0", i, "set">>, <<"cn00", i, "set">>,
                      <<"cn1", i, "set">>, <<"cn2", i, "set">> >>
<1>0. SUFFICES ASSUME ShardDestroyed(i, debug) \subseteq D
             PROVE  Shard(i, debug) \in Seq(D) /\ Len(Shard(i, debug)) = ShardSize(debug)
  BY Zenon
<1>1. /\ BufferDestroyed("scratch", i, debug) \subseteq D
      /\ BufferDestroyed("states", i, debug) \subseteq D
      /\ BufferDestroyed("output", i, TRUE) \subseteq D
      /\ BufferDestroyed("cn1_save", i, FALSE) \subseteq D
      /\ {<<s, i, "set">> : s \in Kernels(debug)} \subseteq D
  BY <1>0, Zenon DEF ShardDestroyed
<1>2. PICK scratch \in Seq(D) : /\ scratch = Buffer("scratch", i, debug)
                                /\ Len(scratch) = IF debug THEN 3 ELSE 2
  BY <1>1, BufferIn, Zenon
<1>3. PICK states \in Seq(D) : /\ states = Buffer("states", i, debug)
                               /\ Len(states) = IF debug THEN 3 ELSE 2
  BY <1>1, BufferIn, Zenon
<1>4. PICK output \in Seq(D) : output = Buffer("output", i, TRUE) /\ Len(output) = 3
  BY <1>1, BufferIn, Zenon
<1>5. PICK save \in Seq(D) : save = Buffer("cn1_save", i, FALSE) /\ Len(save) = 2
  BY <1>1, BufferIn, Zenon
<1>6. sets \in Seq(D) /\ Len(sets) = 4
  <2>1. {"cn0", "cn00", "cn1", "cn2"} \subseteq Kernels(debug)
    BY DEF Kernels
  <2>2. /\ <<"cn0", i, "set">> \in D /\ <<"cn00", i, "set">> \in D
        /\ <<"cn1", i, "set">> \in D /\ <<"cn2", i, "set">> \in D
    BY <1>1, <2>1
  <2> QED
    BY <2>2
<1>7. PICK all \in Seq(D) : all = sets /\ Len(all) = 4
  BY <1>6
<1>8. PICK last \in Seq(D) :
        /\ last = IF debug THEN Buffer("dbg", i, TRUE) \o << <<"cn2_dbg", i, "set">> >> ELSE <<>>
        /\ Len(last) = IF debug THEN 4 ELSE 0
  <2>1. CASE debug
    <3>1. BufferDestroyed("dbg", i, TRUE) \subseteq D
      BY <1>0, <2>1, Zenon DEF ShardDestroyed
    <3>2. <<"cn2_dbg", i, "set">> \in D
      BY <1>1, <2>1, Zenon DEF Kernels
    <3>3. PICK dbg \in Seq(D) : dbg = Buffer("dbg", i, TRUE) /\ Len(dbg) = 3
      BY <3>1, BufferIn, Zenon
    <3>4. /\ << <<"cn2_dbg", i, "set">> >> \in Seq(D)
          /\ Len(<< <<"cn2_dbg", i, "set">> >>) = 1
      BY <3>2
    <3>8. PICK set \in Seq(D) : set = << <<"cn2_dbg", i, "set">> >> /\ Len(set) = 1
      BY <3>4, Zenon
    <3>5. PICK both \in Seq(D) : both = dbg \o set /\ Len(both) = Len(dbg) + Len(set)
      BY Joined
    <3>7. Len(dbg) = 3 /\ Len(set) = 1
      BY <3>3, <3>8, Zenon
    <3>6. Len(both) = 4
      BY <3>5, <3>7
    <3> QED
      BY <2>1, <3>3, <3>5, <3>6, <3>8, Zenon
  <2>2. CASE ~ debug
    <3>1. <<>> \in Seq(D) /\ Len(<<>>) = 0
      OBVIOUS
    <3>2. PICK none \in Seq(D) : none = <<>> /\ Len(none) = 0
      BY <3>1, Zenon
    <3>3. none = IF debug THEN Buffer("dbg", i, TRUE) \o << <<"cn2_dbg", i, "set">> >>
                          ELSE <<>>
      BY <2>2, <3>2, Zenon
    <3>4. Len(none) = IF debug THEN 4 ELSE 0
      BY <2>2, <3>2
    <3> QED
      BY <3>3, <3>4, Zenon
  <2> QED
    BY <2>1, <2>2
<1>9. PICK two \in Seq(D) : two = scratch \o states /\ Len(two) = Len(scratch) + Len(states)
  BY Joined
<1>10. PICK three \in Seq(D) : three = two \o output /\ Len(three) = Len(two) + Len(output)
  BY Joined
<1>11. PICK four \in Seq(D) : four = three \o save /\ Len(four) = Len(three) + Len(save)
  BY Joined
<1>12. PICK five \in Seq(D) : five = four \o all /\ Len(five) = Len(four) + Len(all)
  BY Joined
<1>13. PICK six \in Seq(D) : six = five \o last /\ Len(six) = Len(five) + Len(last)
  BY Joined
<1>14. Shard(i, debug) = six
  BY <1>2, <1>3, <1>4, <1>5, <1>7, <1>8, <1>9, <1>10, <1>11, <1>12, <1>13, Zenon DEF Shard
<1>15. Len(output) = 3 /\ Len(save) = 2 /\ Len(all) = 4
  BY <1>4, <1>5, <1>7, Zenon
<1>16. Len(six) = ShardSize(debug)
  <2>1. CASE debug
    <3>1. Len(scratch) = 3 /\ Len(states) = 3 /\ Len(last) = 4 /\ ShardSize(debug) = 19
      BY <1>2, <1>3, <1>8, <2>1, Zenon DEF ShardSize
    <3>2. Len(six) = 19
      BY <1>9, <1>10, <1>11, <1>12, <1>13, <1>15, <3>1
    <3> QED
      BY <3>1, <3>2, Zenon
  <2>2. CASE ~ debug
    <3>1. Len(scratch) = 2 /\ Len(states) = 2 /\ Len(last) = 0 /\ ShardSize(debug) = 13
      BY <1>2, <1>3, <1>8, <2>2, Zenon DEF ShardSize
    <3>2. Len(six) = 13
      BY <1>9, <1>10, <1>11, <1>12, <1>13, <1>15, <3>1
    <3> QED
      BY <3>1, <3>2, Zenon
  <2> QED
    BY <2>1, <2>2, Zenon
<1> QED
  BY <1>14, <1>16, Zenon

\* The shards of a Miner, the objects of the destructors that D holds.
LEMMA ShardsIn ==
    ASSUME NEW D, NEW n \in Nat, NEW debug \in BOOLEAN
    PROVE  (\A i \in 1 .. n : ShardDestroyed(i, debug) \subseteq D)
             => Shards(n, debug) \in Seq(D)
<1>0. SUFFICES ASSUME \A i \in 1 .. n : ShardDestroyed(i, debug) \subseteq D
               PROVE  Shards(n, debug) \in Seq(D)
  BY Zenon
<1>1. PICK size \in {13, 19} : size = ShardSize(debug)
  BY Zenon DEF ShardSize
<1>2. Len(Shard(1, debug)) = size
  BY <1>1, ShardIn, Zenon
<1>3. PICK f : f = [i \in 1 .. n |-> Shard(i, debug)]
  OBVIOUS
<1>4. \A i \in 1 .. n : f[i] \in Seq(D) /\ Len(f[i]) = size
  <2>1. \A i \in 1 .. n : f[i] = Shard(i, debug)
    BY <1>3, Zenon
  <2>2. \A i \in 1 .. n : Shard(i, debug) \in Seq(D) /\ Len(Shard(i, debug)) = size
    BY <1>0, <1>1, ShardIn, Zenon
  <2> QED
    BY <2>1, <2>2, Zenon
<1>5. \A k \in 1 .. n * size : /\ ((k - 1) \div size) + 1 \in 1 .. n
                               /\ ((k - 1) % size) + 1 \in 1 .. size
  BY <1>1
<1>6. \A k \in 1 .. n * size : f[((k - 1) \div size) + 1][((k - 1) % size) + 1] \in D
  BY <1>4, <1>5, ElementOfSeq
<1>7. Shards(n, debug)
        = [k \in 1 .. n * size |-> Shard(((k - 1) \div size) + 1, debug)[((k - 1) % size) + 1]]
  BY <1>2, Zenon DEF Shards
<1>8. \A k \in 1 .. n * size :
         Shard(((k - 1) \div size) + 1, debug)[((k - 1) % size) + 1] \in D
  BY <1>3, <1>5, <1>6, Zenon
<1>9. Shards(n, debug) \in [1 .. n * size -> D]
  BY <1>7, <1>8, Zenon
<1>10. n * size \in Nat
  BY <1>1
<1> QED
  BY <1>9, <1>10, SeqDef, Zenon

\* The destructor of a Miner destroys everything that Miner::new creates.
LEMMA MinerPlanDestroyed ==
    ASSUME NEW n \in Nat, NEW debug \in BOOLEAN
    PROVE  MinerPlan(n, debug) \in Seq(MinerDestroys(n, debug))
<1> DEFINE sets == Kernels(debug) \X (1 .. n) \X {"set"}
           pipes == {PipeDestroyed(p) : p \in Kernels(debug)}
           ofShard(i) == BufferDestroyed("scratch", i, debug)
                           \union BufferDestroyed("states", i, debug)
                           \union BufferDestroyed("output", i, TRUE)
                           \union BufferDestroyed("cn1_save", i, FALSE)
           buffers == {ofShard(i) : i \in 1 .. n}
           dbgBuffers == {BufferDestroyed("dbg", i, TRUE) : i \in 1 .. n}
<1>1. PICK D : D = MinerDestroys(n, debug)
  OBVIOUS
<1>20. /\ PoolsDestroyed(sets) \subseteq MinerDestroysCommon(n, debug)
       /\ (UNION pipes) \subseteq MinerDestroysCommon(n, debug)
       /\ (UNION buffers) \subseteq MinerDestroysCommon(n, debug)
       /\ BufferDestroyed("input", 0, TRUE) \subseteq MinerDestroysCommon(n, debug)
  <2>1. PoolsDestroyed(sets) \subseteq MinerDestroysCommon(n, debug)
    BY Zenon DEF MinerDestroysCommon
  <2>2. (UNION pipes) \subseteq MinerDestroysCommon(n, debug)
    BY Zenon DEF MinerDestroysCommon
  <2>3. (UNION buffers) \subseteq MinerDestroysCommon(n, debug)
    BY Zenon DEF MinerDestroysCommon
  <2>4. BufferDestroyed("input", 0, TRUE) \subseteq MinerDestroysCommon(n, debug)
    BY Zenon DEF MinerDestroysCommon
  <2> QED
    BY <2>1, <2>2, <2>3, <2>4, Zenon
<1>22. D = MinerDestroysCommon(n, debug) \union (IF debug THEN UNION dbgBuffers ELSE {})
  BY <1>1, Zenon DEF MinerDestroys
<1> HIDE DEF sets, pipes, buffers, dbgBuffers
<1>21. /\ PoolsDestroyed(sets) \subseteq D
       /\ BufferDestroyed("input", 0, TRUE) \subseteq D
       /\ \A p \in pipes : p \subseteq D
       /\ \A b \in buffers : b \subseteq D
       /\ debug => \A b \in dbgBuffers : b \subseteq D
  BY <1>20, <1>22, Zenon
<1>2. \A p \in Kernels(debug) : PipeDestroyed(p) \subseteq D
  BY <1>21, Zenon DEF pipes
<1>3. {"cn0", "cn00", "cn1", "cn2"} \subseteq Kernels(debug)
  BY DEF Kernels
<1>4. PICK cn0 \in Seq(D) : cn0 = Pipe("cn0")
  BY <1>2, <1>3, PipeIn
<1>5. PICK cn00 \in Seq(D) : cn00 = Pipe("cn00")
  BY <1>2, <1>3, PipeIn
<1>6. PICK cn1 \in Seq(D) : cn1 = Pipe("cn1")
  BY <1>2, <1>3, PipeIn
<1>7. PICK cn2 \in Seq(D) : cn2 = Pipe("cn2")
  BY <1>2, <1>3, PipeIn
<1>8. PICK dbg \in Seq(D) : dbg = IF debug THEN Pipe("cn2_dbg") ELSE <<>>
  <2>1. CASE debug
    <3>1. "cn2_dbg" \in Kernels(debug)
      BY <2>1, Zenon DEF Kernels
    <3>2. Pipe("cn2_dbg") \in Seq(D)
      BY <1>2, <3>1, PipeIn, Zenon
    <3> QED
      BY <2>1, <3>2, Zenon
  <2>2. CASE ~ debug
    <3>1. <<>> \in Seq(D)
      OBVIOUS
    <3> QED
      BY <2>2, <3>1, Zenon
  <2> QED
    BY <2>1, <2>2, Zenon
<1>9. sets \subseteq D /\ PoolsDestroyed({}) \subseteq D
  BY <1>21, Zenon DEF PoolsDestroyed
<1>10. /\ <<"descriptors", 0, "pool">> \in D
       /\ <<"commands", 0, "pool">> \in D /\ <<"pass", 0, "fence">> \in D
  <2>1. {<<"pass", 0, "fence">>, <<"commands", 0, "pool">>, <<"descriptors", 0, "pool">>} \subseteq D
    BY <1>9, Zenon DEF PoolsDestroyed
  <2> QED
    BY <2>1
<1>11. PICK pool \in Seq(D) : pool = << <<"descriptors", 0, "pool">> >>
  <2>1. << <<"descriptors", 0, "pool">> >> \in Seq(D)
    BY <1>10
  <2> QED
    BY <2>1, Zenon
<1>12. PICK input \in Seq(D) : input = Buffer("input", 0, TRUE)
  BY <1>21, BufferIn, Zenon
<1>13. \A i \in 1 .. n : ShardDestroyed(i, debug) \subseteq D
  <2> TAKE i \in 1 .. n
  <2>1. {<<s, i, "set">> : s \in Kernels(debug)} \subseteq D
    BY <1>9 DEF sets
  <2>2. ofShard(i) \subseteq D
    BY <1>21, Zenon DEF buffers
  <2>3. debug => BufferDestroyed("dbg", i, TRUE) \subseteq D
    BY <1>21, Zenon DEF dbgBuffers
  <2> QED
    BY <2>1, <2>2, <2>3, Zenon DEF ShardDestroyed
<1>14. PICK shards \in Seq(D) : shards = Shards(n, debug)
  BY <1>13, ShardsIn, Zenon
<1>15. PICK end \in Seq(D) : end = << <<"commands", 0, "pool">>, <<"pass", 0, "fence">> >>
  <2>1. << <<"commands", 0, "pool">>, <<"pass", 0, "fence">> >> \in Seq(D)
    BY <1>10
  <2> QED
    BY <2>1, Zenon
<1>16. PICK a \in Seq(D) : a = cn0 \o cn00 \o cn1 \o cn2
  BY Joined
<1>17. PICK b \in Seq(D) : b = a \o dbg \o pool \o input
  BY Joined
<1>18. b \o shards \o end \in Seq(D)
  BY Joined
<1>19. MinerPlan(n, debug) = b \o shards \o end
  BY <1>4, <1>5, <1>6, <1>7, <1>8, <1>11, <1>12, <1>14, <1>15, <1>16, <1>17, Zenon DEF MinerPlan
<1> QED
  BY <1>1, <1>18, <1>19, Zenon

\* The cleanup of compare destroys everything that compare creates.
LEMMA ComparePlanDestroyed == ComparePlan \in Seq(CompareDestroys)
<1>1. PICK D : D = CompareDestroys
  OBVIOUS
<1>2. \A b \in {"in_v", "in_rc", "out_i", "out_f"} : BufferDestroyed(b, 0, TRUE) \subseteq D
  BY <1>1, Zenon DEF CompareDestroys
<1>3. \A b \in {"in_v", "in_rc", "out_i", "out_f"} : Buffer(b, 0, TRUE) \in Seq(D)
  BY <1>2, BufferIn, Zenon
<1>4. PICK v \in Seq(D) : v = Buffer("in_v", 0, TRUE)
  BY <1>3, Zenon
<1>5. PICK rc \in Seq(D) : rc = Buffer("in_rc", 0, TRUE)
  BY <1>3, Zenon
<1>6. PICK oi \in Seq(D) : oi = Buffer("out_i", 0, TRUE)
  BY <1>3, Zenon
<1>7. PICK of \in Seq(D) : of = Buffer("out_f", 0, TRUE)
  BY <1>3, Zenon
<1>8. PipeDestroyed("sctest") \subseteq D /\ PoolsDestroyed({<<"sctest", 0, "set">>}) \subseteq D
  BY <1>1, Zenon DEF CompareDestroys
<1>9. PICK pipe \in Seq(D) : pipe = Pipe("sctest")
  BY <1>8, PipeIn
<1>10. PICK end \in Seq(D) :
         end = << <<"descriptors", 0, "pool">>, <<"sctest", 0, "set">>,
                  <<"commands", 0, "pool">>, <<"pass", 0, "fence">> >>
  <2>1. << <<"descriptors", 0, "pool">>, <<"sctest", 0, "set">>,
           <<"commands", 0, "pool">>, <<"pass", 0, "fence">> >> \in Seq(D)
    BY <1>8 DEF PoolsDestroyed
  <2> QED
    BY <2>1, Zenon
<1>11. PICK a \in Seq(D) : a = v \o rc \o oi \o of
  BY Joined
<1>12. a \o pipe \o end \in Seq(D)
  BY Joined
<1> QED
  BY <1>1, <1>4, <1>5, <1>6, <1>7, <1>9, <1>10, <1>11, <1>12, Zenon DEF ComparePlan

\* Only what a pool holds is a set.
LEMMA SetsOfMiner ==
    ASSUME NEW n \in Nat, NEW debug \in BOOLEAN, NEW o \in MinerDestroys(n, debug), o[3] = "set"
    PROVE  o \in Kernels(debug) \X (1 .. n) \X {"set"}
<1>1. \A p, x : x \in PipeDestroyed(p) => x[3] # "set"
  BY DEF PipeDestroyed
<1>2. \A b, i, host, x : x \in BufferDestroyed(b, i, host) => x[3] # "set"
  <2> SUFFICES ASSUME NEW b, NEW i, NEW host, NEW x \in BufferDestroyed(b, i, host)
               PROVE  x[3] # "set"
    BY Zenon
  <2>1. x \in {<<b, i, "buffer">>, <<b, i, "memory">>, <<b, i, "mapping">>}
    BY Zenon DEF BufferDestroyed
  <2> QED
    BY <2>1
<1>3. \A s, x : x \in PoolsDestroyed(s) /\ x[3] = "set" => x \in s
  BY DEF PoolsDestroyed
<1>4. o \in PoolsDestroyed(Kernels(debug) \X (1 .. n) \X {"set"})
  <2>1. \A i \in 1 .. n :
          o \notin BufferDestroyed("scratch", i, debug)
                     \union BufferDestroyed("states", i, debug)
                     \union BufferDestroyed("output", i, TRUE)
                     \union BufferDestroyed("cn1_save", i, FALSE)
    BY <1>2, Zenon
  <2>2. o \notin UNION {BufferDestroyed("scratch", i, debug)
                          \union BufferDestroyed("states", i, debug)
                          \union BufferDestroyed("output", i, TRUE)
                          \union BufferDestroyed("cn1_save", i, FALSE) : i \in 1 .. n}
    BY <2>1, Zenon
  <2>3. o \notin UNION {PipeDestroyed(p) : p \in Kernels(debug)}
    BY <1>1, Zenon
  <2>4. o \notin UNION {BufferDestroyed("dbg", i, TRUE) : i \in 1 .. n}
    BY <1>2, Zenon
  <2>5. o \notin BufferDestroyed("input", 0, TRUE)
    BY <1>2, Zenon
  <2>6. o \in MinerDestroysCommon(n, debug)
    BY <2>4, Zenon DEF MinerDestroys
  <2> QED
    BY <2>2, <2>3, <2>5, <2>6, Zenon DEF MinerDestroysCommon
<1> QED
  BY <1>3, <1>4, Zenon

\* What can be numbered up to l has at most l elements.
LEMMA AtMost ==
    ASSUME NEW S, NEW f, NEW l \in Nat, S \subseteq {f[i] : i \in 1 .. l}
    PROVE  IsFiniteSet(S) /\ Cardinality(S) \in Nat /\ Cardinality(S) <= l
<1> DEFINE Numbered == {f[i] : i \in 1 .. l}
<1>1. [i \in 1 .. l |-> f[i]] \in Surjection(1 .. l, Numbered)
  BY DEF Surjection
<1>2. IsFiniteSet(1 .. l) /\ Cardinality(1 .. l) = l
  BY FS_Interval
<1>3. /\ IsFiniteSet(Numbered) /\ Cardinality(Numbered) \in Nat
      /\ Cardinality(Numbered) <= l
  BY <1>1, <1>2, FS_Surjection, FS_CardinalityType
<1>4. S \subseteq Numbered
  OBVIOUS
<1> HIDE DEF Numbered
<1>5. IsFiniteSet(S) /\ Cardinality(S) \in Nat /\ Cardinality(S) <= Cardinality(Numbered)
  BY <1>3, <1>4, FS_Subset, FS_CardinalityType
<1> QED
  BY <1>3, <1>5

\* The descriptors of the sets of one shard, by kernel and binding.
KernelSlots(debug) == UNION {{s} \X (1 .. Bindings(s)) : s \in Kernels(debug)}

\* There are four kernels with ten bindings, a fifth with four in debug mode.
LEMMA KernelsCount ==
    ASSUME NEW debug \in BOOLEAN
    PROVE  \E K, S : /\ K = Kernels(debug) /\ S = KernelSlots(debug)
                     /\ IsFiniteSet(K) /\ Cardinality(K) \in Nat
                     /\ Cardinality(K) <= IF debug THEN 5 ELSE 4
                     /\ IsFiniteSet(S) /\ Cardinality(S) \in Nat
                     /\ Cardinality(S) <= IF debug THEN 10 + 4 ELSE 10
<1> DEFINE five == <<"cn0", "cn00", "cn1", "cn2", "cn2_dbg">>
           slots == << <<"cn0", 1>>, <<"cn0", 2>>, <<"cn00", 1>>, <<"cn00", 2>>,
                       <<"cn1", 1>>, <<"cn1", 2>>, <<"cn1", 3>>,
                       <<"cn2", 1>>, <<"cn2", 2>>, <<"cn2", 3>>,
                       <<"cn2_dbg", 1>>, <<"cn2_dbg", 2>>, <<"cn2_dbg", 3>>, <<"cn2_dbg", 4>> >>
           k == IF debug THEN 5 ELSE 4
           m == IF debug THEN 10 + 4 ELSE 10
<1>1. Kernels(debug) \subseteq {five[i] : i \in 1 .. k}
  <2>1. five[1] = "cn0" /\ five[2] = "cn00" /\ five[3] = "cn1" /\ five[4] = "cn2" /\ five[5] = "cn2_dbg"
    OBVIOUS
  <2> QED
    BY <2>1 DEF Kernels
<1>2. /\ Bindings("cn0") = 2 /\ Bindings("cn00") = 2 /\ Bindings("cn1") = 3
      /\ Bindings("cn2") = 3 /\ Bindings("cn2_dbg") = 4
  BY DEF Bindings, Writes
<1>3. ASSUME NEW x \in KernelSlots(debug) PROVE x \in {slots[i] : i \in 1 .. m}
  <2>1. PICK s \in Kernels(debug) : x \in {s} \X (1 .. Bindings(s))
    BY Zenon DEF KernelSlots
  <2>2. PICK b \in 1 .. Bindings(s) : x = <<s, b>>
    BY <2>1
  <2>3. /\ slots[1] = <<"cn0", 1>> /\ slots[2] = <<"cn0", 2>>
        /\ slots[3] = <<"cn00", 1>> /\ slots[4] = <<"cn00", 2>>
        /\ slots[5] = <<"cn1", 1>> /\ slots[6] = <<"cn1", 2>> /\ slots[7] = <<"cn1", 3>>
        /\ slots[8] = <<"cn2", 1>> /\ slots[9] = <<"cn2", 2>> /\ slots[10] = <<"cn2", 3>>
        /\ slots[11] = <<"cn2_dbg", 1>> /\ slots[12] = <<"cn2_dbg", 2>>
        /\ slots[13] = <<"cn2_dbg", 3>> /\ slots[14] = <<"cn2_dbg", 4>>
    OBVIOUS
  <2> HIDE DEF slots
  <2>4. CASE s = "cn0"
    BY <1>2, <2>2, <2>3, <2>4
  <2>5. CASE s = "cn00"
    BY <1>2, <2>2, <2>3, <2>5
  <2>6. CASE s = "cn1"
    BY <1>2, <2>2, <2>3, <2>6
  <2>7. CASE s = "cn2"
    BY <1>2, <2>2, <2>3, <2>7
  <2>8. CASE s = "cn2_dbg" /\ debug
    BY <1>2, <2>2, <2>3, <2>8
  <2> QED
    BY <2>4, <2>5, <2>6, <2>7, <2>8 DEF Kernels
<1>4. k \in Nat /\ m \in Nat
  OBVIOUS
<1> HIDE DEF five, slots, k, m
<1>5. PICK K : K = Kernels(debug)
  OBVIOUS
<1>6. PICK S : S = KernelSlots(debug)
  OBVIOUS
<1>7. K \subseteq {five[i] : i \in 1 .. k} /\ S \subseteq {slots[i] : i \in 1 .. m}
  BY <1>1, <1>3, <1>5, <1>6, Zenon
<1>8. IsFiniteSet(K) /\ Cardinality(K) \in Nat /\ Cardinality(K) <= k
  BY <1>4, <1>7, AtMost, Zenon
<1>9. IsFiniteSet(S) /\ Cardinality(S) \in Nat /\ Cardinality(S) <= m
  BY <1>4, <1>7, AtMost, Zenon
<1> QED
  BY <1>5, <1>6, <1>8, <1>9, Zenon DEF k, m

\* Pairs are at most as many as their numbers' product.
LEMMA PairsCount ==
    ASSUME NEW X, NEW n \in Nat, IsFiniteSet(X), NEW l \in Nat, Cardinality(X) <= l
    PROVE  IsFiniteSet(X \X (1 .. n)) /\ Cardinality(X \X (1 .. n)) <= l * n
<1>1. IsFiniteSet(1 .. n) /\ Cardinality(1 .. n) = n
  BY FS_Interval
<1>2. /\ IsFiniteSet(X \X (1 .. n))
      /\ Cardinality(X \X (1 .. n)) = Cardinality(X) * Cardinality(1 .. n)
  BY <1>1, FS_Product, Zenon
<1>3. Cardinality(X) \in Nat
  BY FS_CardinalityType
<1>4. \A c \in Nat : c <= l => c * n <= l * n
  OBVIOUS
<1> QED
  BY <1>1, <1>2, <1>3, <1>4

\* What is in the range of a function on a set of such pairs is not more.
LEMMA AtMostPairs ==
    ASSUME NEW X, NEW n \in Nat, IsFiniteSet(X), NEW l \in Nat, Cardinality(X) <= l,
           NEW f, NEW S, S \subseteq {f[x] : x \in X \X (1 .. n)}
    PROVE  Cardinality(S) <= l * n
<1> DEFINE D == X \X (1 .. n)
           R == {f[x] : x \in D}
<1>1. [x \in D |-> f[x]] \in Surjection(D, R)
  BY DEF Surjection
<1>2. S \subseteq R
  OBVIOUS
<1>3. IsFiniteSet(D) /\ Cardinality(D) <= l * n
  BY PairsCount
<1> HIDE DEF D, R
<1>4. IsFiniteSet(R) /\ Cardinality(R) <= Cardinality(D)
  BY <1>1, <1>3, FS_Surjection
<1>5. IsFiniteSet(S) /\ Cardinality(S) <= Cardinality(R)
  BY <1>2, <1>4, FS_Subset
<1>6. Cardinality(S) \in Nat /\ Cardinality(R) \in Nat /\ Cardinality(D) \in Nat /\ l * n \in Nat
  BY <1>3, <1>4, <1>5, FS_CardinalityType
<1> QED
  BY <1>3, <1>4, <1>5, <1>6

\* The pool of a Miner is large enough for the sets of its plan.
LEMMA PoolHolds ==
    ASSUME NEW n \in Nat, NEW debug \in BOOLEAN
    PROVE  /\ Cardinality(SetsIn(MinerPlan(n, debug))) <= PoolSets(n, debug)
           /\ Cardinality(SlotsIn(MinerPlan(n, debug))) <= PoolDescriptors(n, debug)
<1>1. PICK objects : objects = MinerPlan(n, debug)
  OBVIOUS
<1>2. PICK D : D = MinerDestroys(n, debug)
  OBVIOUS
<1>3. \A o \in D : o[3] = "set" => o \in Kernels(debug) \X (1 .. n) \X {"set"}
  BY <1>2, SetsOfMiner, Zenon
<1>4. PICK K, S : /\ K = Kernels(debug) /\ S = KernelSlots(debug)
                  /\ IsFiniteSet(K) /\ Cardinality(K) \in Nat
                  /\ Cardinality(K) <= IF debug THEN 5 ELSE 4
                  /\ IsFiniteSet(S) /\ Cardinality(S) \in Nat
                  /\ Cardinality(S) <= IF debug THEN 10 + 4 ELSE 10
  BY KernelsCount, Zenon
<1>5. S = UNION {{s} \X (1 .. Bindings(s)) : s \in K}
  BY <1>4, Zenon DEF KernelSlots
<1>6. objects \in Seq(D)
  BY <1>1, <1>2, MinerPlanDestroyed, Zenon
<1>7. \A o \in D : o[3] = "set" => o \in K \X (1 .. n) \X {"set"}
  BY <1>3, <1>4, Zenon
<1>8. SetsIn(objects) \subseteq K \X (1 .. n) \X {"set"}
  BY <1>6, <1>7, ElementOfSeq DEF SetsIn
<1>9. PICK k \in Nat : k = IF debug THEN 5 ELSE 4
  OBVIOUS
<1>10. PICK m \in Nat : m = IF debug THEN 10 + 4 ELSE 10
  OBVIOUS
<1>11. IsFiniteSet(K) /\ Cardinality(K) <= k /\ IsFiniteSet(S) /\ Cardinality(S) <= m
  BY <1>4, <1>9, <1>10, Zenon
<1>12. Cardinality(SetsIn(objects)) <= k * n
  <2> DEFINE h == [x \in K \X (1 .. n) |-> <<x[1], x[2], "set">>]
  <2>1. SetsIn(objects) \subseteq {h[x] : x \in K \X (1 .. n)}
    <3> SUFFICES ASSUME NEW o \in SetsIn(objects)
                 PROVE  o \in {h[x] : x \in K \X (1 .. n)}
      OBVIOUS
    <3>1. PICK s \in K, i \in 1 .. n : o = <<s, i, "set">>
      BY <1>8
    <3>2. <<s, i>> \in K \X (1 .. n) /\ h[<<s, i>>] = o
      BY <3>1
    <3> QED
      BY <3>2
  <2> HIDE DEF h
  <2> QED
    BY <1>11, <2>1, AtMostPairs
<1>13. Cardinality(SlotsIn(objects)) <= m * n
  <2> DEFINE h == [x \in S \X (1 .. n) |-> << <<x[1][1], x[2], "set">>, x[1][2]>>]
  <2>1. SlotsIn(objects) \subseteq {h[x] : x \in S \X (1 .. n)}
    <3> SUFFICES ASSUME NEW y \in SlotsIn(objects)
                 PROVE  y \in {h[x] : x \in S \X (1 .. n)}
      OBVIOUS
    <3>1. PICK o \in SetsIn(objects) : y \in {o} \X (1 .. Bindings(o[1]))
      BY DEF SlotsIn
    <3>2. PICK s \in K, i \in 1 .. n : o = <<s, i, "set">>
      BY <1>8
    <3>3. PICK b \in 1 .. Bindings(s) : y = <<o, b>>
      BY <3>1, <3>2
    <3>4. <<s, b>> \in S
      BY <1>5
    <3>5. << <<s, b>>, i>> \in S \X (1 .. n) /\ h[<< <<s, b>>, i>>] = y
      BY <3>2, <3>3, <3>4
    <3> QED
      BY <3>5
  <2> HIDE DEF h
  <2> QED
    BY <1>11, <2>1, AtMostPairs
<1>14. PoolSets(n, debug) = k * n
  BY <1>9, Zenon DEF PoolSets
<1>15. PoolDescriptors(n, debug) = m * n
  BY <1>10, Zenon DEF PoolDescriptors
<1> QED
  BY <1>1, <1>12, <1>13, <1>14, <1>15, Zenon

-----------------------------------------------------------------------------
\* Division rounds down.
LEMMA DivLe ==
    ASSUME NEW a \in Nat, NEW b \in Nat \ {0}
    PROVE  a \div b \in Nat /\ (a \div b) * b <= a /\ \A q \in Nat : q * b <= a => q <= a \div b
<1>1. a \div b \in Nat
  OBVIOUS
<1>2. (a \div b) * b <= a
  OBVIOUS
<1>3. ASSUME NEW q \in Nat, q * b <= a, ~ (q <= a \div b) PROVE FALSE
  <2>1. a < ((a \div b) + 1) * b
    OBVIOUS
  <2>2. (a \div b) + 1 <= q
    BY <1>1, <1>3
  <2>3. ((a \div b) + 1) * b <= q * b
    BY <1>1, <2>2
  <2> QED
    BY <1>1, <1>3, <2>1, <2>3
<1> QED
  BY <1>1, <1>2, <1>3

\* A device is never asked for less than 64 lanes.
LEMMA TargetType ==
    ASSUME NEW d \in Device, NEW c \in CommandLine
    PROVE  Target(d, c) \in Nat /\ Target(d, c) >= 6400
<1>1. d.cu \in Nat /\ c.intensity \in Int
  BY DEF Device, CommandLine
<1>2. PICK m \in {70, 48} : m = LanesPerCu(d)
  BY DEF LanesPerCu
<1>3. PICK u \in Nat : u = IF d.cu > 0 THEN d.cu ELSE 32
  BY <1>1
<1>4. u * m * c.intensity \in Int
  BY <1>1
<1> QED
  BY <1>2, <1>3, <1>4 DEF Target, Max2

\* The largest tps is a multiple of 64; one shard of it can be allocated
\* wherever one of 64 lanes can.
LEMMA LargestTpsStep ==
    ASSUME NEW d \in Device
    PROVE  /\ \E j \in 1 .. 15 : LargestTps(d) = 64 * j
           /\ d.max_alloc >= 64 * Lane => Lane * LargestTps(d) <= d.max_alloc
<1>1. d.max_alloc \in Nat /\ Lane \in Nat \ {0}
  BY StartupAssumption DEF Device
<1>2. PICK q \in Nat : /\ q = d.max_alloc \div Lane
                       /\ q * Lane <= d.max_alloc
                       /\ 64 * Lane <= d.max_alloc => 64 <= q
  <2>1. PICK q \in Nat : /\ q = d.max_alloc \div Lane
                         /\ q * Lane <= d.max_alloc
                         /\ \A p \in Nat : p * Lane <= d.max_alloc => p <= q
    BY <1>1, DivLe
  <2>2. 64 \in Nat
    OBVIOUS
  <2>3. 64 * Lane <= d.max_alloc => 64 <= q
    BY <2>1, <2>2, Zenon
  <2> QED
    BY <2>1, <2>3
<1>3. PICK r \in Nat : r = q \div 64 /\ r * 64 <= q
  OBVIOUS
<1>4. LargestTps(d) = Min2(960, Max2(64, r * 64))
  BY <1>2, <1>3 DEF LargestTps
<1>5. \E j \in 1 .. 15 : LargestTps(d) = 64 * j
  <2>1. CASE r < 1
    BY <1>4, <2>1 DEF Min2, Max2
  <2>2. CASE r \in 1 .. 15
    BY <1>4, <2>2 DEF Min2, Max2
  <2>3. CASE r > 15
    BY <1>4, <2>3 DEF Min2, Max2
  <2> QED
    BY <2>1, <2>2, <2>3
<1>6. ASSUME d.max_alloc >= 64 * Lane PROVE Lane * LargestTps(d) <= d.max_alloc
  <2>1. LargestTps(d) \in Nat
    BY <1>5
  <2>2. LargestTps(d) <= q
    BY <1>1, <1>2, <1>3, <1>4, <1>6 DEF Min2, Max2
  <2>3. Lane * LargestTps(d) <= Lane * q
    BY <1>1, <2>1, <2>2
  <2>4. Lane * q = q * Lane
    BY <1>1
  <2> QED
    BY <1>1, <1>2, <2>1, <2>3, <2>4
<1> QED
  BY <1>5, <1>6

\* The steps of the search are multiples of 64 up to the largest.
LEMMA StepsOf ==
    ASSUME NEW d \in Device
    PROVE  /\ LargestTps(d) \in Steps(d)
           /\ \A t \in Steps(d) : /\ t \in 64 .. 960 /\ t % 64 = 0
                                  /\ t <= LargestTps(d)
<1>1. PICK j \in 1 .. 15 : LargestTps(d) = 64 * j
  BY LargestTpsStep
<1>2. LargestTps(d) \div 64 = j
  BY <1>1
<1>3. Steps(d) = {64 * k : k \in 1 .. j}
  BY <1>2 DEF Steps
<1> QED
  BY <1>1, <1>3

\* A number of shards that ShardsFor finds is within the memory budget, or one;
\* and one more than one shard is asked for by the target.
LEMMA ShardsForBounds ==
    ASSUME NEW d \in Device, NEW c \in CommandLine, NEW tps \in Nat \ {0}
    PROVE  /\ MaxShards(d, tps) \in Nat
           /\ ShardsFor(d, c, tps) \in Nat \ {0}
           /\ ShardsFor(d, c, tps) = 1 \/ ShardsFor(d, c, tps) <= MaxShards(d, tps)
           /\ ShardsFor(d, c, tps) > 1 =>
                2 * 100 * tps * ShardsFor(d, c, tps) <= 2 * Target(d, c) + 100 * tps
<1>1. d.mem \in Nat /\ Lane \in Nat \ {0}
  BY StartupAssumption DEF Device
<1>2. 5 * Lane * tps \in Nat \ {0} /\ 4 * d.mem \in Nat
  BY <1>1
<1>3. MaxShards(d, tps) \in Nat
  BY <1>2, DivLe DEF MaxShards
<1>4. PICK T \in Nat : T = Target(d, c)
  BY TargetType
<1>5. 200 * tps \in Nat \ {0} /\ 2 * T + 100 * tps \in Nat
  OBVIOUS
<1>6. PICK r \in Nat : r = Rounded(Target(d, c), tps) /\ r * (200 * tps) <= 2 * T + 100 * tps
  BY <1>4, <1>5, DivLe DEF Rounded
<1>7. PICK m \in Nat : m = MaxShards(d, tps)
  BY <1>3
<1>8. PICK n : n = ShardsFor(d, c, tps)
  OBVIOUS
<1>9. n = Max2(1, Min2(r, Max2(m, 1)))
  BY <1>6, <1>7, <1>8 DEF ShardsFor
<1>10. n \in Nat \ {0} /\ (n = 1 \/ n <= m) /\ (n > 1 => n <= r)
  BY <1>9 DEF Max2, Min2
<1>11. ASSUME n > 1 PROVE 2 * 100 * tps * n <= 2 * T + 100 * tps
  <2>1. n * (200 * tps) <= r * (200 * tps)
    BY <1>10, <1>11
  <2>2. 2 * 100 * tps * n = n * (200 * tps)
    BY <1>10
  <2> QED
    BY <1>5, <1>6, <1>10, <2>1, <2>2
<1> QED
  BY <1>4, <1>7, <1>8, <1>10, <1>11

\* As many shards as MaxShards allows stay within 80% of the memory.
LEMMA WithinMaxShards ==
    ASSUME NEW d \in Device, NEW tps \in Nat \ {0}, NEW n \in Nat, n <= MaxShards(d, tps)
    PROVE  5 * Lane * tps * n <= 4 * d.mem
<1>1. d.mem \in Nat /\ Lane \in Nat \ {0}
  BY StartupAssumption DEF Device
<1>2. PICK b \in Nat \ {0} : b = 5 * Lane * tps
  BY <1>1
<1>3. PICK a \in Nat : a = 4 * d.mem
  BY <1>1
<1>4. PICK q \in Nat : q = a \div b /\ q * b <= a
  BY DivLe
<1>5. n <= q
  BY <1>2, <1>3, <1>4 DEF MaxShards
<1>6. n * b <= q * b
  BY <1>5
<1>7. b * n = n * b /\ n * b \in Nat /\ q * b \in Nat
  OBVIOUS
<1>8. b * n <= a
  BY <1>4, <1>6, <1>7
<1> QED
  BY <1>2, <1>3, <1>8

\* The search stays at a step that no other beats, nor a larger one equals.
LEMMA SearchedBest ==
    ASSUME NEW d \in Device, NEW c \in CommandLine
    PROVE  /\ Searched(d, c) \in Steps(d)
           /\ \A t \in Steps(d) :
                 /\ Score(d, c, Candidate(d, c, t)) <= Score(d, c, Candidate(d, c, Searched(d, c)))
                 /\ t > Searched(d, c) =>
                       Score(d, c, Candidate(d, c, t)) < Score(d, c, Candidate(d, c, Searched(d, c)))
<1> DEFINE P == Steps(d)
           s == [t \in P |-> Score(d, c, Candidate(d, c, t))]
           T == Target(d, c)
           Q(t) == Moves(d, c, t) /\ \A u \in P : u < t => ~ Moves(d, c, u)
<1>1. P # {} /\ P \subseteq 64 .. 960
  BY StepsOf
<1>2. T \in Nat
  BY TargetType
<1>3. \A t \in P : s[t] \in Nat /\ s[t] <= T
  <2> TAKE t \in P
  <2>1. t \in Nat \ {0}
    BY <1>1
  <2>2. PICK n \in Nat : n = ShardsFor(d, c, t)
    BY <2>1, ShardsForBounds
  <2>3. s[t] = Min2(100 * t * n, T)
    BY <2>2 DEF Score, Candidate
  <2>4. 100 * t * n \in Nat
    BY <2>1
  <2> QED
    BY <1>2, <2>3, <2>4 DEF Min2
<1>4. \A t \in P : Moves(d, c, t) <=> \A u \in P : u > t => s[t] > s[u]
  BY DEF Moves, Better
<1>5. Searched(d, c) = CHOOSE t \in P : Q(t)
  BY DEF Searched
<1> HIDE DEF P, s, T
<1>6. PICK b \in P : \A t \in P : s[t] <= s[b]
  <2> DEFINE gaps == {T - s[t] : t \in P}
  <2>0. \A t \in P : T - s[t] \in Nat
    BY <1>2, <1>3
  <2>1. gaps \in SUBSET Nat /\ gaps # {}
    <3>1. \A g \in gaps : g \in Nat
      BY <2>0, Zenon
    <3>2. PICK e \in P : TRUE
      BY <1>1, Zenon
    <3>3. T - s[e] \in gaps
      BY <3>2, Zenon
    <3> HIDE DEF gaps
    <3> QED
      BY <3>1, <3>3
  <2>2. PICK g \in gaps : \A h \in gaps : g <= h
    BY <2>1, LeastNatural
  <2>3. PICK t0 \in P : g = T - s[t0]
    BY <2>2
  <2>4. \A t \in P : T - s[t0] <= T - s[t]
    BY <2>2, <2>3
  <2>5. \A t \in P : s[t] <= s[t0]
    BY <1>2, <1>3, <2>4
  <2> QED
    BY <2>5
<1>7. PICK x \in P : s[x] = s[b] /\ \A t \in P : s[t] = s[b] => t <= x
  <2> DEFINE below == {960 - t : t \in {t \in P : s[t] = s[b]}}
  <2>1. below \in SUBSET Nat /\ below # {}
    BY <1>1, <1>6
  <2>2. PICK g \in below : \A h \in below : g <= h
    BY <2>1, LeastNatural
  <2>3. PICK t0 \in P : s[t0] = s[b] /\ g = 960 - t0
    BY <2>2
  <2>4. \A t \in P : s[t] = s[b] => 960 - t0 <= 960 - t
    BY <2>2, <2>3
  <2>5. \A t \in P : s[t] = s[b] => t <= t0
    BY <1>1, <2>4
  <2> QED
    BY <2>3, <2>5
<1>8. \A t \in P : s[t] <= s[x] /\ (t > x => s[t] < s[x])
  BY <1>1, <1>3, <1>6, <1>7
<1>9. \A t \in P : Q(t) <=> t = x
  <2>1. Moves(d, c, x)
    BY <1>3, <1>4, <1>8
  <2>2. \A t \in P : t < x => ~ Moves(d, c, t)
    BY <1>1, <1>3, <1>4, <1>8
  <2>3. \A t \in P : t > x => ~ Q(t)
    BY <1>1, <2>1
  <2>4. \A t \in P : t < x \/ t = x \/ t > x
    BY <1>1
  <2> QED
    BY <2>1, <2>2, <2>3, <2>4
<1> HIDE DEF Q
<1>10. Searched(d, c) = x
  BY <1>5, <1>9
<1> QED
  BY <1>8, <1>10 DEF s, P

\* What select_layout finds where the command line leaves it free.
LEMMA SelectTpsFound ==
    ASSUME NEW d \in Device, NEW c \in CommandLine
    PROVE  /\ SelectTps(d, c) \in Nat \ {0}
           /\ SelectShards(d, c, SelectTps(d, c)) \in Nat \ {0}
           /\ c.tps = 0 => SelectTps(d, c) \in Steps(d)
<1>1. c.tps \in Nat /\ c.shards \in Nat
  BY DEF CommandLine
<1>2. c.tps = 0 => SelectTps(d, c) \in {LargestTps(d), Searched(d, c)}
  BY <1>1 DEF SelectTps
<1>3. c.tps = 0 => SelectTps(d, c) \in Steps(d)
  BY <1>2, StepsOf, SearchedBest
<1>4. SelectTps(d, c) \in Nat \ {0}
  <2>1. CASE c.tps = 0
    BY <1>3, <2>1, StepsOf
  <2>2. CASE c.tps > 0
    BY <1>1, <2>2 DEF SelectTps
  <2> QED
    BY <1>1, <2>1, <2>2
<1>5. SelectShards(d, c, SelectTps(d, c)) \in Nat \ {0}
  BY <1>1, <1>4, ShardsForBounds DEF SelectShards
<1> QED
  BY <1>3, <1>4, <1>5

\* A layout that select_layout finds is one that LayoutBest asks for.
LEMMA LayoutFound ==
    ASSUME NEW d \in Device, NEW c \in CommandLine, NEW l,
           l.tps = SelectTps(d, c), l.shards = SelectShards(d, c, l.tps)
    PROVE  /\ c.tps = 0 => WithinBudget(d, c, l)
           /\ c.tps = 0 /\ c.shards = 0 =>
                Closest(d, c, [tps |-> l.tps, shards |-> l.shards])
           /\ c.shards = 0 => OvershootsLittle(d, c, l)
<1>1. c.tps \in Nat /\ c.shards \in Nat /\ Lane \in Nat \ {0} /\ d.max_alloc \in Nat /\ d.mem \in Nat
  BY StartupAssumption DEF CommandLine, Device
<1>2. l.tps \in Nat \ {0} /\ l.shards \in Nat \ {0} /\ (c.tps = 0 => l.tps \in Steps(d))
  BY SelectTpsFound
<1>3. c.shards = 0 => l.shards = ShardsFor(d, c, l.tps)
  BY <1>1 DEF SelectShards
<1>4. ASSUME c.tps = 0 PROVE WithinBudget(d, c, l)
  <2>1. l.tps % 64 = 0 /\ l.tps \in 64 .. 960 /\ l.tps <= LargestTps(d)
    BY <1>2, <1>4, StepsOf
  <2>2. c.shards = 0 => l.shards = 1 \/ 5 * Lane * l.tps * l.shards <= 4 * d.mem
    BY <1>2, <1>3, ShardsForBounds, WithinMaxShards
  <2>3. ASSUME d.max_alloc >= 64 * Lane PROVE Lane * l.tps <= d.max_alloc
    <3>1. LargestTps(d) \in Nat /\ Lane * LargestTps(d) <= d.max_alloc
      BY <2>3, LargestTpsStep
    <3>2. Lane * l.tps <= Lane * LargestTps(d)
      BY <1>1, <1>2, <2>1, <3>1
    <3>3. Lane * l.tps \in Nat /\ Lane * LargestTps(d) \in Nat
      BY <1>1, <1>2, <3>1
    <3> QED
      BY <1>1, <3>1, <3>2, <3>3
  <2> QED
    BY <2>1, <2>2, <2>3 DEF WithinBudget
<1>5. ASSUME c.tps = 0, c.shards = 0
      PROVE  Closest(d, c, [tps |-> l.tps, shards |-> l.shards])
  <2> DEFINE first == Candidate(d, c, LargestTps(d))
             k == [tps |-> l.tps, shards |-> l.shards]
  <2>1. k = Candidate(d, c, l.tps)
    BY <1>3, <1>5 DEF Candidate
  <2>2. CASE CloseEnough(d, c, first)
    <3>1. l.tps = LargestTps(d)
      BY <1>5, <2>2 DEF SelectTps
    <3> QED
      BY <2>1, <2>2, <3>1 DEF Closest
  <2>3. CASE ~ CloseEnough(d, c, first)
    <3>1. l.tps = Searched(d, c)
      BY <1>5, <2>3 DEF SelectTps
    <3>2. k = Candidate(d, c, Searched(d, c)) /\ k.tps = Searched(d, c)
      BY <2>1, <3>1
    <3>3. \A t \in Steps(d) : /\ Score(d, c, Candidate(d, c, t)) <= Score(d, c, k)
                              /\ t > k.tps => Score(d, c, Candidate(d, c, t)) < Score(d, c, k)
      BY <3>2, SearchedBest
    <3> HIDE DEF k
    <3>4. Closest(d, c, k)
      BY <2>3, <3>3, Zenon DEF Closest
    <3> QED
      BY <3>4 DEF k
  <2> QED
    BY <2>2, <2>3
<1>6. c.shards = 0 => OvershootsLittle(d, c, l)
  BY <1>2, <1>3, ShardsForBounds DEF OvershootsLittle
<1> QED
  BY <1>4, <1>5, <1>6

-----------------------------------------------------------------------------
\* The stages that lead to the report loop, those of the loop, and the end.
Creating == {"compare", "measure", "build", "selftest"}
Preparing == {"open", "divide", "tune"} \union Creating
Reporting == {"report", "write", "rename"}
Ending == {"unwind", "returned", "exit"}
Stages == {"select", "layout"} \union Preparing \union Reporting \union Ending

Setup == [tps : Nat \ {0}, shards : Nat \ {0}, wave : {0, 32, 64}, divide : Variants \union {None}]

TypeOK ==
    /\ sys \in Seq(Device) /\ cfg \in CommandLine /\ chosen \in Seq(Device)
    /\ stage \in Stages
    /\ cur \in Nat \ {0} /\ at \in Nat
    /\ exact \in SUBSET Variants
    /\ count \in Nat /\ checked \in 0 .. 3
    /\ outcome \in {"none", "ok", "err"}
    /\ setup \in [Devs -> Setup]
    /\ objs = [d \in Devs |-> objs[d]]
    /\ leaked = [d \in Devs |-> leaked[d]]
    /\ gpu \in [Devs -> {"none", "open", "gone"}]
    /\ thread \in [Devs -> {"none", "mining", "stopped"}]
    /\ mainHolds \in BOOLEAN /\ instance \in BOOLEAN
    /\ stats \in [path : {"absent", "part", "whole"}, tmp : {"absent", "part", "whole"}]

\* Where main can be, by what it has selected and what it was started for.
Places ==
    /\ stage = "select" => chosen = <<>>
    /\ chosen = <<>> => cur = 1 /\ stage \in {"select"} \union Ending
    /\ chosen # <<>> => cur \in Devs /\ cfg.mode # "info"
    /\ cfg.mode # "mine" => cur = 1
    /\ stage \in {"layout", "tune", "measure", "build"} \union Reporting => cfg.mode = "mine"
    /\ stage = "selftest" => cfg.mode = "selftest"
    /\ outcome = "none" <=> stage \notin Ending
    /\ stage \notin {"returned", "exit"} => mainHolds

\* The devices before cur have had their thread, those after it nothing.
Turns ==
    /\ \A d \in Devs :
          /\ thread[d] # "none" <=> d < cur \/ (d = cur /\ stage \in Reporting)
          /\ thread[d] = "mining" => gpu[d] = "open"
          /\ thread[d] = "stopped" => gpu[d] = "gone"
          /\ d > cur => gpu[d] = "none"
    /\ stage \in {"layout", "open"} => gpu[cur] = "none"
    /\ stage \in Preparing \ {"open"} => gpu[cur] = "open"

\* What is being created, and what there can be of it.
Owned ==
    /\ \A d \in Devs :
          /\ ~ (d = cur /\ stage \in Creating) /\ thread[d] # "mining" => objs[d] = {}
          /\ thread[d] = "mining" => objs[d] \subseteq MiningDestroys(setup[d].shards)
          /\ "dropped" \notin leaked[d]
          /\ leaked[d] # {} => <<d, "create">> \in failed
    /\ stage = "compare" => plan = ComparePlan /\ objs[cur] \subseteq CompareDestroys
    /\ stage = "measure" => plan = MiningPlan(count) /\ objs[cur] \subseteq MiningDestroys(count)
    /\ stage = "build" => /\ plan = MiningPlan(setup[cur].shards)
                          /\ objs[cur] \subseteq MiningDestroys(setup[cur].shards)
    /\ stage = "selftest" => plan = TestPlan /\ objs[cur] \subseteq TestDestroys
    /\ Opened # {} \/ mainHolds => instance

\* What a device has been opened for.
Capable ==
    \A d \in Devs :
       /\ gpu[d] = "open" => chosen[d].int64
       /\ setup[d].wave # 0 => chosen[d].ctl /\ setup[d].wave \in chosen[d].min_sub .. chosen[d].max_sub

\* The layout is the planned one until a sweep replaces its shards, and stays
\* within the memory.
MaxCount == Max2(MaxShards(Dev, setup[cur].tps), 1)
Fits(d) ==
    cfg.shards = 0 => \/ setup[d].shards = 1
                      \/ 5 * Lane * setup[d].tps * setup[d].shards <= 4 * chosen[d].mem
Planned ==
    /\ \A d \in Devs : Fits(d)
    /\ stage = "open" /\ cfg.mode = "mine" =>
          /\ setup[cur].tps = SelectTps(Dev, cfg)
          /\ setup[cur].shards = SelectShards(Dev, cfg, setup[cur].tps)
    /\ stage \in {"select", "layout", "open", "divide", "compare"} => speeds = {}
    /\ stage \in {"tune", "measure"} => speeds \subseteq (1 .. MaxCount) \X BOOLEAN
    /\ stage = "measure" => count \in 1 .. MaxCount

\* The variants that are left after the first k, and what is known of those
\* that a device has been asked for.
Left(k) ==
    CASE k = 0 -> All
      [] k = 1 -> <<"markstein", "fp64">>
      [] k = 2 -> <<"fp64">>
      [] OTHER -> <<>>
Asked(v) ==
    Usable(Dev, v) => IF cfg.mode = "microtest" THEN v \in Dev.exact <=> v \in exact
                                                ELSE v \notin Dev.exact
InTurn ==
    \E k \in 0 .. 3 : trying = Left(k) /\ \A i \in 1 .. k : Asked(All[i])

DivideFound(d) ==
    LET v == setup[d].divide
    IN  /\ v \in chosen[d].exact /\ Usable(chosen[d], v)
        /\ cfg.crdiv \in {"auto", v}
        /\ cfg.crdiv = "auto" =>
              \A i, j \in 1 .. 3 : All[j] = v /\ i < j /\ Usable(chosen[d], All[i])
                                     => All[i] \notin chosen[d].exact
Divided ==
    /\ stage \in {"divide", "compare"} =>
          IF cfg.mode = "microtest" \/ cfg.crdiv = "auto" THEN InTurn ELSE trying = <<cfg.crdiv>>
    /\ stage = "compare" => /\ trying # <<>> /\ Head(trying) \in Variants
                            /\ Usable(Dev, Head(trying))
    /\ stage \in {"tune", "measure", "build", "selftest"} => DivideFound(cur)
    /\ \A d \in Devs : thread[d] = "mining" => DivideFound(d)
    /\ exact # {} => cfg.mode = "microtest" /\ chosen # <<>>
    /\ \A v \in exact : v \in Dev.exact /\ Usable(Dev, v)

\* The stats file.
Reported ==
    /\ stats.path # "part"
    /\ stage = "rename" => stats.tmp = "whole"

IInv == TypeOK /\ Places /\ Turns /\ Owned /\ Capable /\ Planned /\ Divided /\ Reported /\ VerdictsTrue

-----------------------------------------------------------------------------
\* Where main prepares a device.
LEMMA Here ==
    ASSUME TypeOK, Places, chosen # <<>>
    PROVE  /\ cur \in Devs /\ Devs \subseteq Nat \ {0}
           /\ Dev \in Device /\ Dev = chosen[cur]
           /\ setup[cur] \in Setup
<1>1. cur \in Devs
  BY DEF Places
<1>2. chosen \in Seq(Device) /\ setup[cur] \in Setup
  BY <1>1 DEF TypeOK
<1> QED
  BY <1>1, <1>2, ElementOfSeq DEF Devs, Dev

\* A layout entered for a device.
LEMMA LayoutEntered ==
    ASSUME NEW r \in Setup, NEW tps \in Nat \ {0}, NEW n \in Nat \ {0}
    PROVE  [r EXCEPT !.tps = tps, !.shards = n] \in Setup
BY DEF Setup

\* The wave that main resolves to is one that a pipeline can pin, or none.
LEMMA WaveResolved ==
    ASSUME NEW d \in Device, NEW w
    PROVE  /\ ResolveWave(d, w) \in {0, 32, 64}
           /\ ResolveWave(d, w) # 0 => d.ctl /\ ResolveWave(d, w) \in d.min_sub .. d.max_sub
<1>1. d.min_sub \in Nat /\ d.max_sub \in Nat
  BY DEF Device
<1>2. \A n \in {32, 64} : Supported(d, n) => n \in d.min_sub .. d.max_sub
  BY <1>1 DEF Supported
<1> QED
  BY <1>2 DEF ResolveWave

\* The variants left are those after the ones asked for.
LEMMA LeftOver ==
    /\ Left(0) = All /\ Left(3) = <<>>
    /\ \A k \in 0 .. 2 : /\ Left(k) # <<>> /\ Head(Left(k)) = All[k + 1]
                         /\ Tail(Left(k)) = Left(k + 1)
    /\ \A k \in 1 .. 3 : All[k] \in Variants
    /\ \A v \in Variants : \E k \in 1 .. 3 : All[k] = v
    /\ \A i, j \in 1 .. 3 : All[i] = All[j] => i = j
<1>1. All[1] = "rcp" /\ All[2] = "markstein" /\ All[3] = "fp64"
  BY DEF All
<1>2. /\ Left(0) = <<"rcp", "markstein", "fp64">> /\ Left(1) = <<"markstein", "fp64">>
      /\ Left(2) = <<"fp64">> /\ Left(3) = <<>>
  BY DEF Left, All
<1>3. \A k \in 0 .. 2 : Left(k) # <<>> /\ Head(Left(k)) = All[k + 1] /\ Tail(Left(k)) = Left(k + 1)
  <2>1. Left(0) # <<>> /\ Head(Left(0)) = All[1] /\ Tail(Left(0)) = Left(1)
    <3>1. /\ <<"rcp", "markstein", "fp64">> # <<>> /\ Head(<<"rcp", "markstein", "fp64">>) = "rcp"
          /\ Tail(<<"rcp", "markstein", "fp64">>) = <<"markstein", "fp64">>
      OBVIOUS
    <3> QED
      BY <1>1, <1>2, <3>1, Zenon
  <2>2. Left(1) # <<>> /\ Head(Left(1)) = All[2] /\ Tail(Left(1)) = Left(2)
    <3>1. /\ <<"markstein", "fp64">> # <<>> /\ Head(<<"markstein", "fp64">>) = "markstein"
          /\ Tail(<<"markstein", "fp64">>) = <<"fp64">>
      OBVIOUS
    <3> QED
      BY <1>1, <1>2, <3>1, Zenon
  <2>3. Left(2) # <<>> /\ Head(Left(2)) = All[3] /\ Tail(Left(2)) = Left(3)
    <3>1. /\ <<"fp64">> # <<>> /\ Head(<<"fp64">>) = "fp64"
          /\ Tail(<<"fp64">>) = <<>>
      OBVIOUS
    <3> QED
      BY <1>1, <1>2, <3>1, Zenon
  <2>4. TAKE k \in 0 .. 2
  <2>5. k = 0 \/ k = 1 \/ k = 2
    OBVIOUS
  <2> QED
    BY <2>1, <2>2, <2>3, <2>5
<1>4. \A k \in 1 .. 3 : k = 1 \/ k = 2 \/ k = 3
  OBVIOUS
<1> QED
  BY <1>1, <1>2, <1>3, <1>4 DEF Variants, All

\* What the two Miners are made of is what their drops destroy.
LEMMA MiningObjects ==
    ASSUME NEW n \in Nat
    PROVE  MiningPlan(n) \in Seq(MiningDestroys(n))
BY MinerPlanDestroyed, Zenon DEF MiningPlan, MiningDestroys

\* The self test's Miner, too.
LEMMA TestObjects == TestPlan \in Seq(TestDestroys)
<1>1. 1 \in Nat
  OBVIOUS
<1> QED
  BY <1>1, MinerPlanDestroyed, Zenon DEF TestPlan, TestDestroys

\* A count up to the largest that a sweep may try fits the memory.
LEMMA CountFits ==
    ASSUME NEW d \in Device, NEW tps \in Nat \ {0}, NEW n \in 1 .. Max2(MaxShards(d, tps), 1)
    PROVE  /\ n \in Nat \ {0}
           /\ n = 1 \/ 5 * Lane * tps * n <= 4 * d.mem
<1>1. MaxShards(d, tps) \in Nat
  BY StartupAssumption, DivLe DEF MaxShards, Device
<1>2. n \in Nat \ {0} /\ (n = 1 \/ n <= MaxShards(d, tps))
  BY <1>1 DEF Max2
<1> QED
  BY <1>2, WithinMaxShards

\* The instance has a holder as long as a Gpu or main holds it.
LEMMA Held ==
    ASSUME NEW n \in Nat, NEW S \in SUBSET (1 .. n), NEW main \in BOOLEAN
    PROVE  S # {} \/ main => Holders(S, main) > 0
<1>1. IsFiniteSet(1 .. n)
  BY FS_Interval
<1>2. IsFiniteSet(S)
  BY <1>1, FS_Subset
<1>3. Cardinality(S) \in Nat /\ (Cardinality(S) = 0 <=> S = {})
  BY <1>2, FS_CardinalityType, FS_EmptySet
<1>4. CASE main
  <2>1. Holders(S, main) = Cardinality(S) + 1
    BY <1>4, Zenon DEF Holders
  <2>2. Cardinality(S) + 1 > 0
    BY <1>3
  <2> QED
    BY <2>1, <2>2, Zenon
<1>5. CASE ~ main
  <2>1. Holders(S, main) = Cardinality(S) + 0
    BY <1>5, Zenon DEF Holders
  <2>2. Cardinality(S) # 0 => Cardinality(S) + 0 > 0
    BY <1>3
  <2> QED
    BY <1>3, <1>5, <2>1, <2>2, Zenon
<1> QED
  BY <1>4, <1>5

\* The layout is entered: it is select_layout's and it fits.
LEMMA PlanLayoutKeeps ==
    ASSUME IInv, PlanLayout
    PROVE  IInv'
<1> USE DEF creation, choices, deviceVars, Stages, Preparing, Creating, Reporting, Ending
<1>0. /\ cur \in Devs /\ Devs \subseteq Nat \ {0}
      /\ Dev \in Device /\ Dev = chosen[cur] /\ setup[cur] \in Setup
  BY Here DEF IInv, Places, PlanLayout
<1>a. SelectTps(Dev, cfg) \in Nat \ {0} /\ SelectShards(Dev, cfg, SelectTps(Dev, cfg)) \in Nat \ {0}
  BY <1>0, SelectTpsFound DEF IInv, TypeOK
<1>b. PICK tps \in Nat \ {0}, n \in Nat \ {0} :
        /\ tps = SelectTps(Dev, cfg) /\ n = SelectShards(Dev, cfg, tps)
        /\ setup' = [setup EXCEPT ![cur].tps = tps, ![cur].shards = n]
  BY <1>a, Zenon DEF PlanLayout
<1>c. setup \in [Devs -> Setup]
  BY DEF IInv, TypeOK
<1>d. /\ setup' \in [Devs -> Setup]
      /\ setup'[cur] = [setup[cur] EXCEPT !.tps = tps, !.shards = n]
      /\ \A d \in Devs : d # cur => setup'[d] = setup[d]
  <2>1. setup'[cur] = [setup[cur] EXCEPT !.tps = tps, !.shards = n]
    BY <1>0, <1>b, <1>c
  <2>2. setup'[cur] \in Setup
    <3>1. PICK r \in Setup : r = setup[cur]
      BY <1>0, Zenon
    <3>2. tps \in Nat \ {0} /\ n \in Nat \ {0}
      BY <1>b, Zenon
    <3>3. [r EXCEPT !.tps = tps, !.shards = n] \in Setup
      BY <3>1, <3>2, LayoutEntered
    <3>4. setup'[cur] = [r EXCEPT !.tps = tps, !.shards = n]
      BY <2>1, <3>1
    <3> QED
      BY <3>3, <3>4, Zenon
  <2>3. \A d \in Devs : d # cur => setup'[d] = setup[d]
    BY <1>b, <1>c
  <2>4. setup' = [d \in Devs |-> setup'[d]]
    BY <1>b, <1>c
  <2> QED
    BY <1>c, <2>1, <2>2, <2>3, <2>4
<1>e. /\ setup'[cur].tps = tps /\ setup'[cur].shards = n
      /\ \A d \in Devs : d # cur => setup'[d] = setup[d]
  BY <1>0, <1>d DEF Setup
<1>1. TypeOK'
  BY <1>0, <1>d DEF IInv, TypeOK, Devs, Places, PlanLayout, Bail
<1>2. Places'
  BY <1>0 DEF IInv, Places, Devs, PlanLayout, Bail
<1>3. Turns'
  BY <1>0 DEF IInv, Turns, Devs, PlanLayout, Bail
<1>4. Owned'
  BY <1>0 DEF IInv, Owned, Opened, Devs, TypeOK, Places, Turns, PlanLayout, Bail
<1>5. Capable'
  BY <1>0 DEF IInv, Capable, Devs, TypeOK, PlanLayout, Bail
<1>6. Planned'
  <2>1. \A d \in Devs : Fits(d)'
    <3>1. cfg.shards = 0 => \/ n = 1
                            \/ 5 * Lane * tps * n <= 4 * Dev.mem
      BY <1>0, <1>b, ShardsForBounds, WithinMaxShards DEF SelectShards, IInv, TypeOK
    <3>2. TAKE d \in Devs
    <3>3. CASE d = cur
      BY <1>0, <1>e, <3>1, <3>3 DEF Fits, PlanLayout
    <3>4. CASE d # cur
      BY <1>e, <3>4 DEF IInv, Planned, Fits, PlanLayout
    <3> QED
      BY <3>3, <3>4
  <2>2. \/ stage' = "open" \/ stage' = "unwind"
    BY DEF PlanLayout, Bail
  <2>3. speeds' = {}
    BY DEF IInv, Planned, PlanLayout
  <2>4. setup'[cur].tps = SelectTps(Dev, cfg) /\ setup'[cur].shards = SelectShards(Dev, cfg, setup'[cur].tps)
    BY <1>b, <1>e, Zenon
  <2> QED
    BY <2>1, <2>2, <2>3, <2>4 DEF Planned, PlanLayout, Dev, Devs
<1>7. Divided'
  BY <1>0 DEF IInv, Divided, DivideFound, InTurn, Asked, Dev, Devs, TypeOK, PlanLayout, Bail
<1>8. Reported'
  BY <1>0 DEF IInv, Reported, PlanLayout, Bail
<1>9. VerdictsTrue'
  BY <1>0 DEF IInv, VerdictsTrue, Dev, TypeOK, Places, Divided, PlanLayout, Bail
<1> QED
  BY <1>1, <1>2, <1>3, <1>4, <1>5, <1>6, <1>7, <1>8, <1>9 DEF IInv

\* A device is opened with its wave, and the variants to ask for are listed.
LEMMA OpenGpuKeeps ==
    ASSUME IInv, OpenGpu
    PROVE  IInv'
<1> USE DEF creation, choices, deviceVars, Stages, Preparing, Creating, Reporting, Ending
<1>0. /\ cur \in Devs /\ Devs \subseteq Nat \ {0}
      /\ Dev \in Device /\ Dev = chosen[cur] /\ setup[cur] \in Setup
  BY Here DEF IInv, Places, OpenGpu
<1>a. PICK w \in {0, 32, 64} :
        /\ w # 0 => Dev.ctl /\ w \in Dev.min_sub .. Dev.max_sub
        /\ setup' = [setup EXCEPT ![cur].wave = w] \/ setup' = setup
  <2>1. PICK r \in {0, 32, 64} : /\ r # 0 => Dev.ctl /\ r \in Dev.min_sub .. Dev.max_sub
                                 /\ r = ResolveWave(Dev, cfg.wave)
    BY <1>0, WaveResolved
  <2> QED
    BY <2>1 DEF OpenGpu
<1>b. setup \in [Devs -> Setup]
  BY DEF IInv, TypeOK
<1>c. /\ setup' \in [Devs -> Setup]
      /\ \A d \in Devs : /\ setup'[d].tps = setup[d].tps /\ setup'[d].shards = setup[d].shards
                         /\ setup'[d].divide = setup[d].divide
                         /\ setup'[d].wave # setup[d].wave => d = cur /\ setup'[d].wave = w
  <2>1. CASE setup' = setup
    BY <1>b, <2>1
  <2>2. CASE setup' = [setup EXCEPT ![cur].wave = w]
    <3>1. w \in {0, 32, 64}
      BY <1>a
    <3>2. setup' \in [Devs -> Setup]
      BY <1>0, <1>b, <2>2, <3>1 DEF Setup
    <3>3. \A d \in Devs : d # cur => setup'[d] = setup[d]
      BY <1>0, <1>b, <2>2
    <3>4. /\ setup'[cur].tps = setup[cur].tps /\ setup'[cur].shards = setup[cur].shards
          /\ setup'[cur].divide = setup[cur].divide /\ setup'[cur].wave = w
      BY <1>0, <1>b, <2>2 DEF Setup
    <3> QED
      BY <3>2, <3>3, <3>4
  <2> QED
    BY <1>a, <2>1, <2>2
<1>1. TypeOK'
  <2>1. gpu' \in [Devs -> {"none", "open", "gone"}]
    BY DEF IInv, TypeOK, OpenGpu
  <2> QED
    BY <1>0, <1>c, <2>1 DEF IInv, TypeOK, Devs, Places, OpenGpu, Bail
<1>2. Places'
  BY <1>0 DEF IInv, Places, Devs, OpenGpu, Bail
<1>3. Turns'
  BY <1>0 DEF IInv, Turns, Devs, TypeOK, OpenGpu, Bail
<1>4. Owned'
  BY <1>0 DEF IInv, Owned, Opened, Devs, TypeOK, Places, Turns, OpenGpu, Bail
<1>5. Capable'
  <2>1. \A d \in Devs : setup'[d].wave # 0 =>
            chosen[d].ctl /\ setup'[d].wave \in chosen[d].min_sub .. chosen[d].max_sub
    BY <1>0, <1>a, <1>c DEF IInv, Capable
  <2>2. \A d \in Devs : gpu'[d] = "open" => chosen[d].int64
    BY <1>0 DEF IInv, TypeOK, Capable, OpenGpu, Bail
  <2> QED
    BY <2>1, <2>2 DEF Capable, OpenGpu, Devs
<1>6. Planned'
  <2>1. \A d \in Devs : Fits(d)'
    BY <1>c DEF IInv, Planned, Fits, OpenGpu
  <2>2. stage' \in {"divide", "unwind"} /\ speeds' = {}
    BY DEF IInv, Planned, OpenGpu, Bail
  <2> QED
    BY <2>1, <2>2 DEF Planned, OpenGpu, Devs
<1>7. Divided'
  <2>1. thread' = thread /\ exact' = exact /\ chosen' = chosen /\ cur' = cur /\ cfg' = cfg
    BY DEF OpenGpu
  <2>2. \A d \in Devs : thread'[d] = "mining" => DivideFound(d)'
    BY <1>c, <2>1 DEF IInv, Divided, DivideFound
  <2>3. stage' \in {"divide", "unwind"}
    BY DEF OpenGpu, Bail
  <2>4. ASSUME stage' = "divide"
        PROVE  IF cfg.mode = "microtest" \/ cfg.crdiv = "auto" THEN InTurn'
                                                               ELSE trying' = <<cfg.crdiv>>
    <3>1. CASE cfg.mode = "microtest" \/ cfg.crdiv = "auto"
      <4>1. trying' = Left(0)
        BY <2>4, <3>1, LeftOver DEF OpenGpu, Bail, Requested
      <4>2. 0 \in 0 .. 3 /\ \A i \in 1 .. 0 : Asked(All[i])'
        OBVIOUS
      <4> QED
        BY <3>1, <4>1, <4>2 DEF InTurn
    <3>2. CASE ~ (cfg.mode = "microtest" \/ cfg.crdiv = "auto")
      BY <2>4, <3>2 DEF OpenGpu, Bail, Requested
    <3> QED
      BY <3>1, <3>2
  <2>5. /\ exact' # {} => cfg.mode = "microtest" /\ chosen # <<>>
        /\ \A v \in exact' : v \in Dev.exact /\ Usable(Dev, v)
    BY <2>1 DEF IInv, Divided
  <2> QED
    BY <2>1, <2>2, <2>3, <2>4, <2>5 DEF Divided, Dev, Devs
<1>8. Reported'
  BY <1>0 DEF IInv, Reported, OpenGpu, Bail
<1>9. VerdictsTrue'
  BY <1>0 DEF IInv, VerdictsTrue, Dev, OpenGpu, Bail
<1> QED
  BY <1>1, <1>2, <1>3, <1>4, <1>5, <1>6, <1>7, <1>8, <1>9 DEF IInv

\* A variant goes to the comparison, or is passed over as not usable.
LEMMA TryDivideKeeps ==
    ASSUME IInv, TryDivide
    PROVE  IInv'
<1> USE DEF creation, choices, deviceVars, Stages, Preparing, Creating, Reporting, Ending
<1>0. /\ cur \in Devs /\ Devs \subseteq Nat \ {0}
      /\ Dev \in Device /\ Dev = chosen[cur] /\ setup[cur] \in Setup
  BY Here DEF IInv, Places, TryDivide
<1>1. TypeOK'
  BY <1>0 DEF IInv, TypeOK, Devs, Setup, TryDivide, Bail, Begin
<1>2. Places'
  BY <1>0 DEF IInv, Places, Devs, TryDivide, Bail, Begin
<1>3. Turns'
  BY <1>0 DEF IInv, Turns, Devs, TryDivide, Bail, Begin
<1>4. Owned'
  BY <1>0 DEF IInv, Owned, Opened, Devs, TypeOK, Places, Turns, TryDivide, Bail, Begin
<1>5. Capable'
  BY <1>0 DEF IInv, Capable, Devs, TryDivide, Bail, Begin
<1>6. Planned'
  BY <1>0 DEF IInv, Planned, Fits, MaxCount, Dev, Devs, TryDivide, Bail, Begin
<1>7. Divided'
  <2>1. /\ thread' = thread /\ exact' = exact /\ chosen' = chosen /\ cur' = cur /\ cfg' = cfg
        /\ setup' = setup
    BY DEF TryDivide
  <2>2. \A d \in Devs : thread'[d] = "mining" => DivideFound(d)'
    BY <2>1 DEF IInv, Divided, DivideFound
  <2>3. /\ exact' # {} => cfg.mode = "microtest" /\ chosen # <<>>
        /\ \A v \in exact' : v \in Dev.exact /\ Usable(Dev, v)
    BY <2>1 DEF IInv, Divided
  <2>4. IF cfg.mode = "microtest" \/ cfg.crdiv = "auto" THEN InTurn ELSE trying = <<cfg.crdiv>>
    BY DEF IInv, Divided, TryDivide
  <2>5. \A k \in 0 .. 3 : (\A i \in 1 .. k : Asked(All[i])) => \A i \in 1 .. k : Asked(All[i])'
    BY <2>1 DEF Asked, Dev
  <2>6. CASE Usable(Dev, Head(trying))
    <3>1. stage' = "compare" /\ trying' = trying /\ trying # <<>> /\ Head(trying) \in Variants
      BY <2>6 DEF TryDivide, Begin
    <3>2. InTurn => InTurn'
      BY <2>5, <3>1 DEF InTurn
    <3> QED
      BY <2>1, <2>2, <2>3, <2>4, <2>6, <3>1, <3>2 DEF Divided, Dev, Devs
  <2>7. CASE ~ Usable(Dev, Head(trying)) /\ (cfg.mode = "microtest" \/ cfg.crdiv = "auto")
    <3>1. stage' = "divide" /\ trying' = Tail(trying) /\ trying # <<>>
      BY <2>7 DEF TryDivide
    <3>2. PICK k \in 0 .. 3 : trying = Left(k) /\ \A i \in 1 .. k : Asked(All[i])
      BY <2>4, <2>7 DEF InTurn
    <3>3. k \in 0 .. 2
      BY <3>1, <3>2, LeftOver
    <3>4. trying' = Left(k + 1) /\ ~ Usable(Dev, All[k + 1])
      BY <2>7, <3>1, <3>2, <3>3, LeftOver
    <3>5. Asked(All[k + 1])'
      BY <2>1, <3>4 DEF Asked, Dev
    <3>6. \A i \in 1 .. k + 1 : Asked(All[i])'
      <4>1. \A i \in 1 .. k + 1 : i \in 1 .. k \/ i = k + 1
        BY <3>3
      <4> QED
        BY <2>5, <3>2, <3>5, <4>1
    <3>7. InTurn'
      BY <3>3, <3>4, <3>6 DEF InTurn
    <3> QED
      BY <2>1, <2>2, <2>3, <2>7, <3>1, <3>7 DEF Divided, Dev, Devs
  <2>8. CASE ~ Usable(Dev, Head(trying)) /\ ~ (cfg.mode = "microtest" \/ cfg.crdiv = "auto")
    <3>1. stage' = "unwind"
      BY <2>8 DEF TryDivide, Bail
    <3> QED
      BY <2>1, <2>2, <2>3, <3>1 DEF Divided, Dev, Devs
  <2> QED
    BY <2>6, <2>7, <2>8
<1>8. Reported'
  BY <1>0 DEF IInv, Reported, TryDivide, Bail, Begin
<1>9. VerdictsTrue'
  BY <1>0 DEF IInv, VerdictsTrue, Dev, TypeOK, Places, Divided, TryDivide, Bail, Begin
<1> QED
  BY <1>1, <1>2, <1>3, <1>4, <1>5, <1>6, <1>7, <1>8, <1>9 DEF IInv

\* No variant is left: none that the device can use is exact.
LEMMA NoDivideLeftKeeps ==
    ASSUME IInv, NoDivideLeft
    PROVE  IInv'
<1> USE DEF creation, choices, deviceVars, Stages, Preparing, Creating, Reporting, Ending
<1>0. /\ cur \in Devs /\ Devs \subseteq Nat \ {0}
      /\ Dev \in Device /\ Dev = chosen[cur] /\ setup[cur] \in Setup
  BY Here DEF IInv, Places, NoDivideLeft
<1>1. TypeOK'
  BY <1>0 DEF IInv, TypeOK, Devs, Setup, NoDivideLeft
<1>2. Places'
  BY <1>0 DEF IInv, Places, Devs, NoDivideLeft
<1>3. Turns'
  BY <1>0 DEF IInv, Turns, Devs, NoDivideLeft
<1>4. Owned'
  BY <1>0 DEF IInv, Owned, Opened, Devs, NoDivideLeft
<1>5. Capable'
  BY <1>0 DEF IInv, Capable, Devs, NoDivideLeft
<1>6. Planned'
  BY <1>0 DEF IInv, Planned, Fits, MaxCount, Dev, Devs, NoDivideLeft
<1>7. Divided'
  BY <1>0 DEF IInv, Divided, DivideFound, InTurn, Asked, Dev, Devs, NoDivideLeft
<1>8. Reported'
  BY <1>0 DEF IInv, Reported, NoDivideLeft
<1>9. VerdictsTrue'
  <2>1. /\ chosen' = chosen /\ cur' = cur /\ cfg' = cfg /\ failed' = failed
        /\ outcome' = IF cfg.mode = "microtest" /\ exact # {} THEN "ok" ELSE "err"
        /\ trying # <<>> => Head(trying) \notin Variants
    BY DEF NoDivideLeft
  <2>2. IF cfg.mode = "microtest" \/ cfg.crdiv = "auto" THEN InTurn ELSE trying = <<cfg.crdiv>>
    BY DEF IInv, Divided, NoDivideLeft
  <2>3. Dev.exact \subseteq Variants
    BY <1>0 DEF Device
  <2>4. ASSUME InTurn PROVE \A v \in Variants : Asked(v)
    <3>1. PICK k \in 0 .. 3 : trying = Left(k) /\ \A i \in 1 .. k : Asked(All[i])
      BY <2>4 DEF InTurn
    <3>2. k = 3
      BY <2>1, <3>1, LeftOver
    <3> QED
      BY <3>1, <3>2, LeftOver
  <2>5. CASE cfg.mode = "microtest"
    <3>1. \A v \in Variants : Usable(Dev, v) => (v \in Dev.exact <=> v \in exact)
      BY <2>2, <2>4, <2>5 DEF Asked
    <3>2. \A v \in exact : v \in Dev.exact /\ Usable(Dev, v)
      BY DEF IInv, Divided
    <3> QED
      BY <2>1, <2>3, <2>5, <3>1, <3>2 DEF VerdictsTrue, Dev
  <2>6. CASE cfg.mode = "selftest"
    <3>1. CASE cfg.crdiv = "auto"
      <4>1. \A v \in Variants : Usable(Dev, v) => v \notin Dev.exact
        BY <2>2, <2>4, <2>6, <3>1 DEF Asked
      <4> QED
        BY <2>1, <2>3, <2>6, <4>1 DEF VerdictsTrue, Dev
    <3>2. CASE cfg.crdiv # "auto"
      <4>1. trying = <<cfg.crdiv>>
        BY <2>2, <2>6, <3>2
      <4>2. cfg.crdiv \notin Variants
        BY <2>1, <4>1
      <4> QED
        BY <2>1, <2>3, <2>6, <3>2, <4>2 DEF VerdictsTrue, Dev
    <3> QED
      BY <3>1, <3>2
  <2>7. CASE cfg.mode \notin {"microtest", "selftest"}
    BY <2>1, <2>7 DEF VerdictsTrue
  <2> QED
    BY <2>5, <2>6, <2>7
<1> QED
  BY <1>1, <1>2, <1>3, <1>4, <1>5, <1>6, <1>7, <1>8, <1>9 DEF IInv

\* One more object of the plan; its owner's destructor names it.
LEMMA CreateKeeps ==
    ASSUME IInv, Create
    PROVE  IInv'
<1> USE DEF creation, choices, deviceVars, Stages, Preparing, Creating, Reporting, Ending
<1>0. /\ cur \in Devs /\ Devs \subseteq Nat \ {0}
      /\ Dev \in Device /\ Dev = chosen[cur] /\ setup[cur] \in Setup
  BY Here DEF IInv, Places, Create
<1>a. /\ objs' = [d \in Devs |-> objs'[d]]
      /\ objs'[cur] = objs[cur] \union {plan[at + 1]}
      /\ \A d \in Devs : d # cur => objs'[d] = objs[d]
  <2>1. objs = [d \in Devs |-> objs[d]]
    BY DEF IInv, TypeOK
  <2>2. objs' = [objs EXCEPT ![cur] = @ \union {plan[at + 1]}]
    BY DEF Create
  <2> QED
    BY <1>0, <2>1, <2>2
<1>b. \A D : plan \in Seq(D) => plan[at + 1] \in D
  <2> TAKE D
  <2>1. at \in Nat /\ at < Len(plan)
    BY DEF IInv, TypeOK, Create
  <2>2. plan \in Seq(D) => Len(plan) \in Nat
    OBVIOUS
  <2>3. plan \in Seq(D) => at + 1 \in 1 .. Len(plan)
    BY <2>1, <2>2
  <2> QED
    BY <2>3, ElementOfSeq
<1>1. TypeOK'
  <2>1. at' \in Nat
    BY DEF IInv, TypeOK, Create
  <2> QED
    BY <1>0, <1>a, <2>1 DEF IInv, TypeOK, Devs, Places, Create
<1>2. Places'
  BY <1>0 DEF IInv, Places, Devs, Create
<1>3. Turns'
  BY <1>0 DEF IInv, Turns, Devs, Create
<1>4. Owned'
  <2>1. setup[cur].shards \in Nat /\ count \in Nat
    BY <1>0 DEF Setup, IInv, TypeOK
  <2>2. stage = "compare" => plan = ComparePlan /\ objs'[cur] \subseteq CompareDestroys
    BY <1>a, <1>b, ComparePlanDestroyed DEF IInv, Owned
  <2>3. stage = "measure" => plan = MiningPlan(count) /\ objs'[cur] \subseteq MiningDestroys(count)
    BY <1>a, <1>b, <2>1, MiningObjects DEF IInv, Owned
  <2>4. stage = "build" => /\ plan = MiningPlan(setup[cur].shards)
                           /\ objs'[cur] \subseteq MiningDestroys(setup[cur].shards)
    BY <1>a, <1>b, <2>1, MiningObjects DEF IInv, Owned
  <2>5. stage = "selftest" => plan = TestPlan /\ objs'[cur] \subseteq TestDestroys
    BY <1>a, <1>b, TestObjects DEF IInv, Owned
  <2>6. stage \in Creating /\ thread[cur] = "none"
    BY <1>0 DEF IInv, Turns, TypeOK, Create
  <2> QED
    BY <1>0, <1>a, <2>2, <2>3, <2>4, <2>5, <2>6 DEF IInv, Owned, Opened, Devs, Create
<1>5. Capable'
  BY <1>0 DEF IInv, Capable, Devs, Create
<1>6. Planned'
  BY <1>0 DEF IInv, Planned, Fits, MaxCount, Dev, Devs, Create
<1>7. Divided'
  BY <1>0 DEF IInv, Divided, DivideFound, InTurn, Asked, Dev, Devs, Create
<1>8. Reported'
  BY <1>0 DEF IInv, Reported, Create
<1>9. VerdictsTrue'
  BY <1>0 DEF IInv, VerdictsTrue, Dev, Create
<1> QED
  BY <1>1, <1>2, <1>3, <1>4, <1>5, <1>6, <1>7, <1>8, <1>9 DEF IInv

\* What was created halfway stays behind, and a creation has failed.
LEMMA CreateFailsKeeps ==
    ASSUME IInv, CreateFails
    PROVE  IInv'
<1> USE DEF creation, choices, deviceVars, Stages, Preparing, Creating, Reporting, Ending
<1>0. /\ cur \in Devs /\ Devs \subseteq Nat \ {0}
      /\ Dev \in Device /\ Dev = chosen[cur] /\ setup[cur] \in Setup
  BY Here DEF IInv, Places, CreateFails
<1>1. TypeOK'
  BY <1>0 DEF IInv, TypeOK, Devs, Setup, CreateFails, Bail, Drops, GiveUp, Scored
<1>2. Places'
  BY <1>0 DEF IInv, Places, Devs, CreateFails, Bail, Drops, GiveUp, Scored
<1>3. Turns'
  BY <1>0 DEF IInv, Turns, Devs, CreateFails, Bail, Drops, GiveUp, Scored
<1>4. Owned'
  BY <1>0 DEF IInv, Owned, Opened, Devs, TypeOK, CreateFails, Bail, Drops, GiveUp, Scored
<1>5. Capable'
  BY <1>0 DEF IInv, Capable, Devs, CreateFails, Bail, Drops, GiveUp, Scored
<1>6. Planned'
  <2>1. stage = "measure" => speeds' \subseteq (1 .. MaxCount) \X BOOLEAN
    <3>1. \A b \in BOOLEAN : stage = "measure" => <<count, b>> \in (1 .. MaxCount) \X BOOLEAN
      BY DEF IInv, Planned
    <3>2. \E b \in BOOLEAN : stage = "measure" => speeds' \subseteq speeds \union {<<count, b>>}
      BY Zenon DEF CreateFails, Drops, GiveUp, Scored, Bail
    <3>3. stage = "measure" => speeds \subseteq (1 .. MaxCount) \X BOOLEAN
      BY DEF IInv, Planned
    <3> QED
      BY <3>1, <3>2, <3>3, Zenon
  <2>2. \/ stage = "measure" /\ stage' = "tune"
        \/ stage' = "unwind"
    BY DEF CreateFails, Drops, GiveUp, Scored, Bail
  <2>3. MaxCount' = MaxCount /\ (\A d \in Devs : Fits(d)')
    BY DEF IInv, Planned, MaxCount, Fits, Dev, CreateFails
  <2> QED
    BY <2>1, <2>2, <2>3 DEF Planned, Devs, CreateFails
<1>7. Divided'
  BY <1>0 DEF IInv, Divided, DivideFound, InTurn, Asked, Dev, Devs, CreateFails, Bail, Drops,
     GiveUp, Scored
<1>8. Reported'
  BY <1>0 DEF IInv, Reported, CreateFails, Bail, Drops, GiveUp, Scored
<1>9. VerdictsTrue'
  BY <1>0 DEF IInv, VerdictsTrue, Dev, CreateFails, Bail, Drops, GiveUp, Scored
<1> QED
  BY <1>1, <1>2, <1>3, <1>4, <1>5, <1>6, <1>7, <1>8, <1>9 DEF IInv

\* A comparison ends: the variant is found, passed over, or the end of it.
LEMMA ComparedKeeps ==
    ASSUME IInv, Compared
    PROVE  IInv'
<1> USE DEF creation, choices, deviceVars, Stages, Preparing, Creating, Reporting, Ending
<1>0. /\ cur \in Devs /\ Devs \subseteq Nat \ {0}
      /\ Dev \in Device /\ Dev = chosen[cur] /\ setup[cur] \in Setup
  BY Here DEF IInv, Places, Compared
<1> DEFINE v == Head(trying)
           same == v \in Dev.exact
           searching == cfg.mode = "microtest" \/ cfg.crdiv = "auto"
           next == /\ stage' = "divide" /\ outcome' = outcome /\ trying' = Tail(trying)
                   /\ exact' = IF same THEN exact \union {v} ELSE exact
                   /\ setup' = setup /\ UNCHANGED creation
                   /\ searching /\ (same => cfg.mode = "microtest")
           over == /\ stage' = "unwind" /\ outcome' = "err"
                   /\ UNCHANGED <<exact, trying, setup, creation>>
                   /\ ~ searching /\ ~ same
           found == /\ setup' = [setup EXCEPT ![cur].divide = v]
                    /\ UNCHANGED <<exact, trying>>
                    /\ cfg.mode # "microtest" /\ same
                    /\ \/ /\ stage' = "selftest" /\ outcome' = outcome /\ cfg.mode = "selftest"
                          /\ plan' = TestPlan /\ at' = 0
                       \/ /\ stage' = "tune" /\ outcome' = outcome /\ cfg.mode = "mine"
                          /\ UNCHANGED creation
                       \/ /\ stage' = "build" /\ outcome' = outcome /\ cfg.mode = "mine"
                          /\ plan' = MiningPlan(setup[cur].shards) /\ at' = 0
                       \/ /\ stage' = "unwind" /\ outcome' = "err" /\ cfg.mode = "mine"
                          /\ UNCHANGED creation
<1>a. next \/ over \/ found
  <2>1. cfg.mode \in {"mine", "microtest", "selftest"}
    BY <1>0 DEF IInv, TypeOK, Places, CommandLine, Compared
  <2>2. 64 % 64 = 0
    OBVIOUS
  <2>3. CASE cfg.mode = "microtest" \/ (cfg.crdiv = "auto" /\ ~ same)
    BY <2>3 DEF Compared
  <2>4. CASE ~ (cfg.mode = "microtest" \/ (cfg.crdiv = "auto" /\ ~ same)) /\ ~ same
    BY <2>4 DEF Compared, Bail
  <2>5. CASE ~ (cfg.mode = "microtest" \/ (cfg.crdiv = "auto" /\ ~ same)) /\ same
    <3>1. /\ setup' = [setup EXCEPT ![cur].divide = v]
          /\ UNCHANGED <<exact, trying>>
      BY <2>5 DEF Compared
    <3>2. CASE cfg.mode = "selftest"
      BY <2>2, <2>5, <3>1, <3>2 DEF Compared, Build, Begin
    <3>3. CASE cfg.mode = "mine"
      BY <2>5, <3>1, <3>3 DEF Compared, Build, Begin, Bail
    <3> QED
      BY <2>1, <2>5, <3>2, <3>3
  <2> QED
    BY <2>3, <2>4, <2>5
<1>b. /\ objs' = [d \in Devs |-> objs'[d]] /\ leaked' = leaked
      /\ objs'[cur] = {} /\ \A d \in Devs : d # cur => objs'[d] = objs[d]
  <2>1. objs = [d \in Devs |-> objs[d]] /\ leaked = [d \in Devs |-> leaked[d]]
    BY DEF IInv, TypeOK
  <2>2. objs[cur] \subseteq CompareDestroys
    BY DEF IInv, Owned, Compared
  <2>3. objs' = [objs EXCEPT ![cur] = {}] /\ leaked' = [leaked EXCEPT ![cur] = leaked[cur]]
    BY <2>2 DEF Compared, Drops
  <2> QED
    BY <1>0, <2>1, <2>3
<1>c. v \in Variants /\ Usable(Dev, v) /\ trying # <<>>
  BY DEF IInv, Divided, Compared
<1>d. setup \in [Devs -> Setup]
  BY DEF IInv, TypeOK
<1>e. /\ setup' \in [Devs -> Setup]
      /\ \A d \in Devs : /\ setup'[d].tps = setup[d].tps /\ setup'[d].shards = setup[d].shards
                         /\ setup'[d].wave = setup[d].wave
                         /\ d # cur => setup'[d] = setup[d]
      /\ found => setup'[cur].divide = v
  <2>1. CASE setup' = setup /\ ~ found
    BY <1>d, <2>1
  <2>2. CASE setup' = [setup EXCEPT ![cur].divide = v]
    <3>1. v \in Variants \union {None}
      BY <1>c
    <3> HIDE DEF v, found
    <3>2. setup' \in [Devs -> Setup]
      BY <1>0, <1>d, <2>2, <3>1 DEF Setup
    <3>3. \A d \in Devs : d # cur => setup'[d] = setup[d]
      BY <1>0, <1>d, <2>2
    <3>4. /\ setup'[cur].tps = setup[cur].tps /\ setup'[cur].shards = setup[cur].shards
          /\ setup'[cur].wave = setup[cur].wave /\ setup'[cur].divide = v
      BY <1>0, <1>d, <2>2 DEF Setup
    <3> QED
      BY <3>2, <3>3, <3>4
  <2> QED
    BY <1>a, <2>1, <2>2
<1>f. /\ cfg' = cfg /\ chosen' = chosen /\ cur' = cur /\ thread' = thread /\ gpu' = gpu
      /\ failed' = failed /\ speeds' = speeds /\ stats' = stats /\ count' = count
      /\ mainHolds' = mainHolds /\ instance' = instance /\ sys' = sys /\ checked' = checked
  BY DEF Compared
<1>1. TypeOK'
  <2>1. stage' \in Stages /\ outcome' \in {"none", "ok", "err"} /\ at' \in Nat
    BY <1>a DEF IInv, TypeOK
  <2>2. exact' \in SUBSET Variants
    BY <1>a, <1>c DEF IInv, TypeOK
  <2> HIDE DEF next, over, found
  <2>3. leaked' = [d \in Devs |-> leaked'[d]]
    BY <1>b DEF IInv, TypeOK
  <2> QED
    BY <1>b, <1>e, <1>f, <2>1, <2>2, <2>3 DEF IInv, TypeOK, Devs
<1>2. Places'
  <2>1. /\ stage' \in {"divide", "tune", "build", "selftest", "unwind"}
        /\ outcome' = "none" <=> stage' # "unwind"
        /\ stage' \in {"tune", "build"} => cfg.mode = "mine"
        /\ stage' = "selftest" => cfg.mode = "selftest"
    BY <1>a DEF IInv, Places, Compared
  <2>2. mainHolds
    BY DEF IInv, Places, Compared
  <2> QED
    BY <1>0, <1>f, <2>1, <2>2 DEF IInv, Places, Devs
<1>3. Turns'
  BY <1>0 DEF IInv, Turns, Devs, Compared, Bail, Begin, Build, Drops
<1>4. Owned'
  <2>1. thread[cur] = "none"
    BY <1>0 DEF IInv, TypeOK, Turns, Compared
  <2>2. Opened' = Opened
    BY <1>f DEF Opened, Devs
  <2>3. \A d \in Devs :
          /\ ~ (d = cur /\ stage' \in Creating) /\ thread[d] # "mining" => objs'[d] = {}
          /\ thread[d] = "mining" => objs'[d] \subseteq MiningDestroys(setup'[d].shards)
    <3>1. TAKE d \in Devs
    <3>2. CASE d = cur
      BY <1>b, <2>1, <3>2
    <3>3. CASE d # cur
      BY <1>b, <1>e, <3>3 DEF IInv, Owned
    <3> QED
      BY <3>2, <3>3
  <2>4. /\ stage' \notin {"compare", "measure"}
        /\ stage' = "build" => plan' = MiningPlan(setup[cur].shards)
        /\ stage' = "selftest" => plan' = TestPlan
    BY <1>a
  <2>5. setup'[cur].shards = setup[cur].shards
    BY <1>0, <1>e
  <2>6. /\ \A d \in Devs : /\ "dropped" \notin leaked'[d]
                           /\ leaked'[d] # {} => <<d, "create">> \in failed'
        /\ Opened' # {} \/ mainHolds' => instance'
    BY <1>b, <1>f, <2>2 DEF IInv, Owned
  <2> HIDE DEF next, over, found
  <2> QED
    BY <1>b, <1>f, <2>3, <2>4, <2>5, <2>6 DEF Owned, Devs
<1>5. Capable'
  BY <1>e, <1>f DEF IInv, Capable, Devs
<1>6. Planned'
  <2>1. speeds' = {} /\ stage' \notin {"open", "measure"}
    BY <1>a DEF IInv, Planned, Compared
  <2>2. \A d \in Devs : Fits(d)'
    BY <1>e, <1>f DEF IInv, Planned, Fits
  <2> HIDE DEF next, over, found
  <2> QED
    BY <1>f, <2>1, <2>2 DEF Planned, Devs
<1>7. Divided'
  <2>1. /\ stage' # "compare"
        /\ stage' \in {"tune", "build", "selftest"} => found
        /\ stage' = "divide" => next
        /\ stage' # "measure"
    BY <1>a
  <2>2. InTurn \/ ~ searching
    BY DEF IInv, Divided, Compared
  <2>3. thread[cur] = "none"
    BY <1>0 DEF IInv, TypeOK, Turns, Compared
  <2>4. ASSUME next PROVE InTurn'
    <3>1. PICK k \in 0 .. 3 : trying = Left(k) /\ \A i \in 1 .. k : Asked(All[i])
      BY <2>2, <2>4 DEF InTurn
    <3>2. k \in 0 .. 2 /\ v = All[k + 1] /\ Tail(trying) = Left(k + 1)
      BY <1>c, <3>1, LeftOver
    <3>8. PICK x : x = v
      OBVIOUS
    <3>3. Asked(x)'
      <4>1. x \in exact => x \in Dev.exact
        BY DEF IInv, Divided
      <4> QED
        BY <1>f, <2>4, <3>8, <4>1 DEF Asked, Dev
    <3>4. \A i \in 1 .. k : All[i] # v
      BY <3>2, LeftOver
    <3>5. \A i \in 1 .. k : Asked(All[i])'
      BY <1>f, <2>4, <3>1, <3>4 DEF Asked, Dev
    <3>6. \A i \in 1 .. k + 1 : Asked(All[i])'
      <4>1. \A i \in 1 .. k + 1 : i \in 1 .. k \/ i = k + 1
        BY <3>2
      <4> QED
        BY <3>2, <3>3, <3>5, <3>8, <4>1
    <3>7. trying' = Left(k + 1) /\ k + 1 \in 0 .. 3
      BY <2>4, <3>2
    <3> QED
      BY <3>6, <3>7 DEF InTurn
  <2>5. ASSUME found PROVE DivideFound(cur)'
    <3>1. setup'[cur].divide = v /\ v \in Dev.exact /\ Usable(Dev, v) /\ cfg.mode # "microtest"
      BY <1>c, <1>e, <2>5
    <3>2. CASE cfg.crdiv = "auto"
      <4>1. PICK k \in 0 .. 3 : trying = Left(k) /\ \A i \in 1 .. k : Asked(All[i])
        BY <2>2, <3>2 DEF InTurn
      <4>2. k \in 0 .. 2 /\ v = All[k + 1]
        BY <1>c, <4>1, LeftOver
      <4>3. \A i \in 1 .. k : Usable(Dev, All[i]) => All[i] \notin Dev.exact
        BY <3>1, <4>1 DEF Asked
      <4>4. \A i, j \in 1 .. 3 : All[j] = v /\ i < j => i \in 1 .. k
        BY <4>2, LeftOver
      <4>5. \A i, j \in 1 .. 3 : All[j] = v /\ i < j /\ Usable(Dev, All[i]) => All[i] \notin Dev.exact
        BY <4>3, <4>4
      <4> HIDE DEF v
      <4> QED
        BY <1>f, <3>1, <3>2, <4>5 DEF DivideFound, Dev
    <3>3. CASE cfg.crdiv # "auto"
      <4>1. trying = <<cfg.crdiv>>
        BY <3>1, <3>3 DEF IInv, Divided, Compared
      <4>2. v = cfg.crdiv
        BY <4>1
      <4> HIDE DEF v
      <4> QED
        BY <1>f, <3>1, <3>3, <4>2 DEF DivideFound, Dev
    <3> QED
      BY <3>2, <3>3
  <2>6. \A d \in Devs : thread[d] = "mining" => DivideFound(d)'
    BY <1>e, <1>f, <2>3 DEF IInv, Divided, DivideFound
  <2>7. /\ exact' # {} => cfg.mode = "microtest" /\ chosen # <<>>
        /\ \A x \in exact' : x \in Dev.exact /\ Usable(Dev, x)
    <3>1. /\ exact # {} => cfg.mode = "microtest" /\ chosen # <<>>
          /\ \A x \in exact : x \in Dev.exact /\ Usable(Dev, x)
      BY DEF IInv, Divided
    <3>2. chosen # <<>>
      BY DEF IInv, Places, Compared
    <3>3. \/ exact' = exact
          \/ cfg.mode = "microtest" /\ same /\ exact' = exact \union {v}
      BY <1>a
    <3> HIDE DEF v, next, over, found
    <3> QED
      BY <1>c, <3>1, <3>2, <3>3 DEF same
  <2>8. next => searching
    OBVIOUS
  <2> HIDE DEF next, over, found
  <2> QED
    BY <1>f, <2>1, <2>4, <2>5, <2>6, <2>7, <2>8 DEF Divided, Dev, Devs
<1>8. Reported'
  BY <1>0 DEF IInv, Reported, Compared, Bail, Begin, Build, Drops
<1>9. VerdictsTrue'
  BY <1>0 DEF IInv, VerdictsTrue, Dev, TypeOK, Places, Divided, Compared, Bail, Begin, Build,
     Drops
<1> QED
  BY <1>1, <1>2, <1>3, <1>4, <1>5, <1>6, <1>7, <1>8, <1>9 DEF IInv

\* A cached count is clamped to what the memory holds.
LEMMA UseCachedKeeps ==
    ASSUME IInv, UseCached
    PROVE  IInv'
<1> USE DEF creation, choices, deviceVars, Stages, Preparing, Creating, Reporting, Ending
<1>0. /\ cur \in Devs /\ Devs \subseteq Nat \ {0}
      /\ Dev \in Device /\ Dev = chosen[cur] /\ setup[cur] \in Setup
  BY Here DEF IInv, Places, UseCached
<1>a. PICK n \in Nat \ {0} :
        /\ n = 1 \/ 5 * Lane * setup[cur].tps * n <= 4 * Dev.mem
        /\ setup' = [setup EXCEPT ![cur].shards = n]
        /\ \/ /\ stage' = "build" /\ plan' = MiningPlan(n) /\ at' = 0 /\ outcome' = outcome
           \/ stage' = "unwind" /\ outcome' = "err" /\ UNCHANGED creation
  <2>1. setup[cur].tps \in Nat \ {0} /\ MaxShards(Dev, setup[cur].tps) \in Nat
    BY <1>0, ShardsForBounds DEF Setup, IInv, TypeOK
  <2>2. PICK c \in Cached : Tuned(Clamped(Dev, setup[cur].tps, c))
    BY DEF UseCached
  <2>3. PICK n : n = Clamped(Dev, setup[cur].tps, c)
    OBVIOUS
  <2>4. c \in Nat
    BY StartupAssumption
  <2>5. n \in 1 .. Max2(MaxShards(Dev, setup[cur].tps), 1)
    BY <2>1, <2>3, <2>4 DEF Clamped, Max2, Min2
  <2>6. n \in Nat \ {0} /\ (n = 1 \/ 5 * Lane * setup[cur].tps * n <= 4 * Dev.mem)
    BY <1>0, <2>1, <2>5, CountFits
  <2>7. Tuned(n)
    BY <2>2, <2>3
  <2> QED
    BY <2>6, <2>7 DEF Tuned, Build, Begin, Bail
<1>b. setup \in [Devs -> Setup]
  BY DEF IInv, TypeOK
<1>c. /\ setup' \in [Devs -> Setup]
      /\ \A d \in Devs : /\ setup'[d].tps = setup[d].tps /\ setup'[d].wave = setup[d].wave
                         /\ setup'[d].divide = setup[d].divide
                         /\ d # cur => setup'[d] = setup[d]
      /\ setup'[cur].shards \in {n, setup[cur].shards}
      /\ stage' = "build" => setup'[cur].shards = n
  <2>1. CASE setup' = setup /\ stage' # "build"
    BY <1>b, <2>1
  <2>2. CASE setup' = [setup EXCEPT ![cur].shards = n]
    <3>1. n \in Nat \ {0}
      BY <1>a
    <3>2. setup' \in [Devs -> Setup]
      BY <1>0, <1>b, <2>2, <3>1 DEF Setup
    <3>3. \A d \in Devs : d # cur => setup'[d] = setup[d]
      BY <1>0, <1>b, <2>2
    <3>4. /\ setup'[cur].tps = setup[cur].tps /\ setup'[cur].wave = setup[cur].wave
          /\ setup'[cur].divide = setup[cur].divide /\ setup'[cur].shards = n
      BY <1>0, <1>b, <2>2 DEF Setup
    <3> QED
      BY <3>2, <3>3, <3>4
  <2> QED
    BY <1>a, <2>1, <2>2
<1>1. TypeOK'
  <2>1. stage' \in Stages /\ outcome' \in {"none", "ok", "err"} /\ at' \in Nat
    BY <1>a DEF IInv, TypeOK
  <2> QED
    BY <1>c, <2>1 DEF IInv, TypeOK, Devs, UseCached
<1>2. Places'
  BY <1>0 DEF IInv, Places, Devs, UseCached, Bail, Begin, Build, Tuned
<1>3. Turns'
  BY <1>0 DEF IInv, Turns, Devs, UseCached, Bail, Begin, Build, Tuned
<1>4. Owned'
  <2>1. thread[cur] = "none" /\ objs[cur] = {}
    BY <1>0 DEF IInv, TypeOK, Turns, Owned, UseCached
  <2>2. Opened' = Opened
    BY DEF Opened, Devs, UseCached
  <2>3. \A d \in Devs : thread[d] = "mining" => objs[d] \subseteq MiningDestroys(setup'[d].shards)
    BY <1>c, <2>1 DEF IInv, Owned
  <2>4. stage' = "build" => plan' = MiningPlan(setup'[cur].shards)
    BY <1>a, <1>c
  <2>5. stage' \in {"build", "unwind"} /\ stage = "tune"
    BY <1>a DEF UseCached
  <2> QED
    BY <2>1, <2>2, <2>3, <2>4, <2>5 DEF IInv, Owned, Devs, UseCached
<1>5. Capable'
  BY <1>c DEF IInv, Capable, Devs, UseCached
<1>6. Planned'
  <2>1. stage' \in {"build", "unwind"}
    BY <1>a
  <2>2. \A d \in Devs : Fits(d)'
    <3>1. TAKE d \in Devs
    <3>2. CASE d = cur
      <4>1. Fits(cur)
        BY <1>0 DEF IInv, Planned
      <4> QED
        BY <1>0, <1>a, <1>c, <3>2, <4>1 DEF Fits, UseCached
    <3>3. CASE d # cur
      BY <1>c, <3>3 DEF IInv, Planned, Fits, UseCached
    <3> QED
      BY <3>2, <3>3
  <2> QED
    BY <2>1, <2>2 DEF Planned, Devs, UseCached
<1>7. Divided'
  <2>1. stage' \in {"build", "unwind"}
    BY <1>a
  <2>2. \A d \in Devs : DivideFound(d) => DivideFound(d)'
    BY <1>c DEF DivideFound, UseCached
  <2>3. DivideFound(cur)'
    <3>1. DivideFound(cur)
      BY DEF IInv, Divided, UseCached
    <3> QED
      BY <1>0, <1>c, <3>1 DEF DivideFound, UseCached
  <2> QED
    BY <2>1, <2>2, <2>3 DEF IInv, Divided, Dev, Devs, UseCached
<1>8. Reported'
  BY <1>0 DEF IInv, Reported, UseCached, Bail, Begin, Build, Tuned
<1>9. VerdictsTrue'
  BY <1>0 DEF IInv, VerdictsTrue, Dev, TypeOK, Places, Divided, UseCached, Bail, Begin,
     Build, Tuned
<1> QED
  BY <1>1, <1>2, <1>3, <1>4, <1>5, <1>6, <1>7, <1>8, <1>9 DEF IInv

\* A sweep turns to a count it has not scored.
LEMMA MeasureNextKeeps ==
    ASSUME IInv, MeasureNext
    PROVE  IInv'
<1> USE DEF creation, choices, deviceVars, Stages, Preparing, Creating, Reporting, Ending
<1>0. /\ cur \in Devs /\ Devs \subseteq Nat \ {0}
      /\ Dev \in Device /\ Dev = chosen[cur] /\ setup[cur] \in Setup
  BY Here DEF IInv, Places, MeasureNext
<1>1. TypeOK'
  BY <1>0 DEF IInv, TypeOK, Devs, Setup, MeasureNext, Bail, Begin, Build
<1>2. Places'
  BY <1>0 DEF IInv, Places, Devs, MeasureNext, Bail, Begin, Build
<1>3. Turns'
  BY <1>0 DEF IInv, Turns, Devs, MeasureNext, Bail, Begin, Build
<1>4. Owned'
  BY <1>0 DEF IInv, Owned, Opened, Devs, TypeOK, Places, Turns, MeasureNext, Bail, Begin, Build
<1>5. Capable'
  BY <1>0 DEF IInv, Capable, Devs, MeasureNext, Bail, Begin, Build
<1>6. Planned'
  BY <1>0 DEF IInv, Planned, Fits, MaxCount, Dev, Devs, MeasureNext, Bail, Begin, Build
<1>7. Divided'
  BY <1>0 DEF IInv, Divided, DivideFound, InTurn, Asked, Dev, Devs, MeasureNext, Bail, Begin,
     Build
<1>8. Reported'
  BY <1>0 DEF IInv, Reported, MeasureNext, Bail, Begin, Build
<1>9. VerdictsTrue'
  BY <1>0 DEF IInv, VerdictsTrue, Dev, TypeOK, Places, Divided, MeasureNext, Bail, Begin, Build
<1> QED
  BY <1>1, <1>2, <1>3, <1>4, <1>5, <1>6, <1>7, <1>8, <1>9 DEF IInv

\* A sweep ends with a count that was measured.
LEMMA ConcludeKeeps ==
    ASSUME IInv, Conclude
    PROVE  IInv'
<1> USE DEF creation, choices, deviceVars, Stages, Preparing, Creating, Reporting, Ending
<1>0. /\ cur \in Devs /\ Devs \subseteq Nat \ {0}
      /\ Dev \in Device /\ Dev = chosen[cur] /\ setup[cur] \in Setup
  BY Here DEF IInv, Places, Conclude
<1>a. PICK n \in Nat \ {0} :
        /\ n = 1 \/ 5 * Lane * setup[cur].tps * n <= 4 * Dev.mem
        /\ \/ /\ setup' = [setup EXCEPT ![cur].shards = n]
              /\ stage' = "build" /\ plan' = MiningPlan(n) /\ at' = 0 /\ outcome' = outcome
           \/ /\ setup' \in {setup, [setup EXCEPT ![cur].shards = n]}
              /\ stage' = "unwind" /\ outcome' = "err" /\ UNCHANGED creation
  <2>1. setup[cur].tps \in Nat \ {0}
    BY <1>0 DEF Setup
  <2>2. CASE \E n \in {r[1] : r \in {r \in speeds : r[2]}} : Tuned(n)
    <3>1. PICK r \in speeds : Tuned(r[1])
      BY <2>2, Zenon
    <3>2. speeds \subseteq (1 .. MaxCount) \X BOOLEAN
      BY DEF IInv, Planned, Conclude
    <3>3. PICK n : n = r[1]
      OBVIOUS
    <3>4. n \in 1 .. Max2(MaxShards(Dev, setup[cur].tps), 1)
      BY <3>1, <3>2, <3>3 DEF MaxCount
    <3>5. n \in Nat \ {0} /\ (n = 1 \/ 5 * Lane * setup[cur].tps * n <= 4 * Dev.mem)
      BY <1>0, <2>1, <3>4, CountFits
    <3>6. Tuned(n)
      BY <3>1, <3>3
    <3> QED
      BY <3>5, <3>6 DEF Tuned, Build, Begin, Bail
  <2>3. CASE Bail /\ UNCHANGED <<setup, creation>>
    BY <2>3 DEF Bail
  <2> QED
    BY <2>2, <2>3 DEF Conclude
<1>b. setup \in [Devs -> Setup]
  BY DEF IInv, TypeOK
<1>c. /\ setup' \in [Devs -> Setup]
      /\ \A d \in Devs : /\ setup'[d].tps = setup[d].tps /\ setup'[d].wave = setup[d].wave
                         /\ setup'[d].divide = setup[d].divide
                         /\ d # cur => setup'[d] = setup[d]
      /\ setup'[cur].shards \in {n, setup[cur].shards}
      /\ stage' = "build" => setup'[cur].shards = n
  <2>1. CASE setup' = setup /\ stage' # "build"
    BY <1>b, <2>1
  <2>2. CASE setup' = [setup EXCEPT ![cur].shards = n]
    <3>1. n \in Nat \ {0}
      BY <1>a
    <3>2. setup' \in [Devs -> Setup]
      BY <1>0, <1>b, <2>2, <3>1 DEF Setup
    <3>3. \A d \in Devs : d # cur => setup'[d] = setup[d]
      BY <1>0, <1>b, <2>2
    <3>4. /\ setup'[cur].tps = setup[cur].tps /\ setup'[cur].wave = setup[cur].wave
          /\ setup'[cur].divide = setup[cur].divide /\ setup'[cur].shards = n
      BY <1>0, <1>b, <2>2 DEF Setup
    <3> QED
      BY <3>2, <3>3, <3>4
  <2> QED
    BY <1>a, <2>1, <2>2
<1>1. TypeOK'
  <2>1. stage' \in Stages /\ outcome' \in {"none", "ok", "err"} /\ at' \in Nat
    BY <1>a DEF IInv, TypeOK
  <2> QED
    BY <1>c, <2>1 DEF IInv, TypeOK, Devs, Conclude
<1>2. Places'
  BY <1>0 DEF IInv, Places, Devs, Conclude, Bail, Begin, Build, Tuned
<1>3. Turns'
  BY <1>0 DEF IInv, Turns, Devs, Conclude, Bail, Begin, Build, Tuned
<1>4. Owned'
  <2>1. thread[cur] = "none" /\ objs[cur] = {}
    BY <1>0 DEF IInv, TypeOK, Turns, Owned, Conclude
  <2>2. Opened' = Opened
    BY DEF Opened, Devs, Conclude
  <2>3. \A d \in Devs : thread[d] = "mining" => objs[d] \subseteq MiningDestroys(setup'[d].shards)
    BY <1>c, <2>1 DEF IInv, Owned
  <2>4. stage' = "build" => plan' = MiningPlan(setup'[cur].shards)
    BY <1>a, <1>c
  <2>5. stage' \in {"build", "unwind"} /\ stage = "tune"
    BY <1>a DEF Conclude
  <2> QED
    BY <2>1, <2>2, <2>3, <2>4, <2>5 DEF IInv, Owned, Devs, Conclude
<1>5. Capable'
  BY <1>c DEF IInv, Capable, Devs, Conclude
<1>6. Planned'
  <2>1. stage' \in {"build", "unwind"}
    BY <1>a
  <2>2. \A d \in Devs : Fits(d)'
    <3>1. TAKE d \in Devs
    <3>2. CASE d = cur
      <4>1. Fits(cur)
        BY <1>0 DEF IInv, Planned
      <4> QED
        BY <1>0, <1>a, <1>c, <3>2, <4>1 DEF Fits, Conclude
    <3>3. CASE d # cur
      BY <1>c, <3>3 DEF IInv, Planned, Fits, Conclude
    <3> QED
      BY <3>2, <3>3
  <2> QED
    BY <2>1, <2>2 DEF Planned, Devs, Conclude
<1>7. Divided'
  <2>1. stage' \in {"build", "unwind"}
    BY <1>a
  <2>2. \A d \in Devs : DivideFound(d) => DivideFound(d)'
    BY <1>c DEF DivideFound, Conclude
  <2>3. DivideFound(cur)'
    <3>1. DivideFound(cur)
      BY DEF IInv, Divided, Conclude
    <3> QED
      BY <1>0, <1>c, <3>1 DEF DivideFound, Conclude
  <2> QED
    BY <2>1, <2>2, <2>3 DEF IInv, Divided, Dev, Devs, Conclude
<1>8. Reported'
  BY <1>0 DEF IInv, Reported, Conclude, Bail, Begin, Build, Tuned
<1>9. VerdictsTrue'
  BY <1>0 DEF IInv, VerdictsTrue, Dev, TypeOK, Places, Divided, Conclude, Bail, Begin, Build,
     Tuned
<1> QED
  BY <1>1, <1>2, <1>3, <1>4, <1>5, <1>6, <1>7, <1>8, <1>9 DEF IInv

\* A candidate is timed or fails; its Miner leaves nothing.
LEMMA MeasuredKeeps ==
    ASSUME IInv, Measured
    PROVE  IInv'
<1> USE DEF creation, choices, deviceVars, Stages, Preparing, Creating, Reporting, Ending
<1>0. /\ cur \in Devs /\ Devs \subseteq Nat \ {0}
      /\ Dev \in Device /\ Dev = chosen[cur] /\ setup[cur] \in Setup
  BY Here DEF IInv, Places, Measured
<1>1. TypeOK'
  BY <1>0 DEF IInv, TypeOK, Devs, Setup, Measured, Bail, Drops, GiveUp, Scored
<1>2. Places'
  BY <1>0 DEF IInv, Places, Devs, Measured, Bail, Drops, GiveUp, Scored
<1>3. Turns'
  BY <1>0 DEF IInv, Turns, Devs, Measured, Bail, Drops, GiveUp, Scored
<1>4. Owned'
  BY <1>0 DEF IInv, Owned, Opened, Devs, TypeOK, Measured, Bail, Drops, GiveUp, Scored
<1>5. Capable'
  BY <1>0 DEF IInv, Capable, Devs, Measured, Bail, Drops, GiveUp, Scored
<1>6. Planned'
  <2>1. stage = "measure" => speeds' \subseteq (1 .. MaxCount) \X BOOLEAN
    <3>1. \A b \in BOOLEAN : stage = "measure" => <<count, b>> \in (1 .. MaxCount) \X BOOLEAN
      BY DEF IInv, Planned
    <3>2. \E b \in BOOLEAN : stage = "measure" => speeds' \subseteq speeds \union {<<count, b>>}
      BY Zenon DEF Measured, Drops, GiveUp, Scored, Bail
    <3>3. stage = "measure" => speeds \subseteq (1 .. MaxCount) \X BOOLEAN
      BY DEF IInv, Planned
    <3> QED
      BY <3>1, <3>2, <3>3, Zenon
  <2>2. \/ stage = "measure" /\ stage' = "tune"
        \/ stage' = "unwind"
    BY DEF Measured, Drops, GiveUp, Scored, Bail
  <2>3. MaxCount' = MaxCount /\ (\A d \in Devs : Fits(d)')
    BY DEF IInv, Planned, MaxCount, Fits, Dev, Measured
  <2> QED
    BY <2>1, <2>2, <2>3 DEF Planned, Devs, Measured
<1>7. Divided'
  BY <1>0 DEF IInv, Divided, DivideFound, InTurn, Asked, Dev, Devs, Measured, Bail, Drops,
     GiveUp, Scored
<1>8. Reported'
  BY <1>0 DEF IInv, Reported, Measured, Bail, Drops, GiveUp, Scored
<1>9. VerdictsTrue'
  BY <1>0 DEF IInv, VerdictsTrue, Dev, Measured, Bail, Drops, GiveUp, Scored
<1> QED
  BY <1>1, <1>2, <1>3, <1>4, <1>5, <1>6, <1>7, <1>8, <1>9 DEF IInv

\* A complete Miner goes to its thread; main turns to the next device.
LEMMA StartMiningKeeps ==
    ASSUME IInv, StartMining
    PROVE  IInv'
<1> USE DEF creation, choices, deviceVars, Stages, Preparing, Creating, Reporting, Ending
<1>0. /\ cur \in Devs /\ Devs \subseteq Nat \ {0}
      /\ Dev \in Device /\ Dev = chosen[cur] /\ setup[cur] \in Setup
  BY Here DEF IInv, Places, StartMining
<1>1. TypeOK'
  <2>1. thread' \in [Devs -> {"none", "mining", "stopped"}]
    BY DEF IInv, TypeOK, StartMining
  <2>2. cur' \in Nat \ {0}
    BY DEF IInv, TypeOK, StartMining
  <2>3. stage' \in Stages
    BY DEF StartMining
  <2> QED
    BY <2>1, <2>2, <2>3 DEF IInv, TypeOK, Devs, StartMining
<1>2. Places'
  BY <1>0 DEF IInv, Places, Devs, StartMining
<1>3. Turns'
  BY <1>0 DEF IInv, Turns, Devs, TypeOK, StartMining
<1>4. Owned'
  BY <1>0 DEF IInv, Owned, Opened, Devs, TypeOK, StartMining
<1>5. Capable'
  BY <1>0 DEF IInv, Capable, Devs, StartMining
<1>6. Planned'
  BY <1>0 DEF IInv, Planned, Fits, MaxCount, Dev, Devs, StartMining
<1>7. Divided'
  BY <1>0 DEF IInv, Divided, DivideFound, InTurn, Asked, Dev, Devs, TypeOK, Places, Turns,
     StartMining
<1>8. Reported'
  BY <1>0 DEF IInv, Reported, StartMining
<1>9. VerdictsTrue'
  BY <1>0 DEF IInv, VerdictsTrue, Dev, TypeOK, Places, Divided, StartMining
<1> QED
  BY <1>1, <1>2, <1>3, <1>4, <1>5, <1>6, <1>7, <1>8, <1>9 DEF IInv

\* A stage of the self test: after the fourth no lane can have diverged.
LEMMA SelfTestKeeps ==
    ASSUME IInv, SelfTest
    PROVE  IInv'
<1> USE DEF creation, choices, deviceVars, Stages, Preparing, Creating, Reporting, Ending
<1>0. /\ cur \in Devs /\ Devs \subseteq Nat \ {0}
      /\ Dev \in Device /\ Dev = chosen[cur] /\ setup[cur] \in Setup
  BY Here DEF IInv, Places, SelfTest
<1>1. TypeOK'
  BY <1>0 DEF IInv, TypeOK, Devs, Setup, Places, SelfTest, Bail, Drops
<1>2. Places'
  BY <1>0 DEF IInv, Places, Devs, SelfTest, Bail, Drops
<1>3. Turns'
  BY <1>0 DEF IInv, Turns, Devs, SelfTest, Bail, Drops
<1>4. Owned'
  BY <1>0 DEF IInv, Owned, Opened, Devs, TypeOK, SelfTest, Bail, Drops
<1>5. Capable'
  BY <1>0 DEF IInv, Capable, Devs, SelfTest, Bail, Drops
<1>6. Planned'
  BY <1>0 DEF IInv, Planned, Fits, MaxCount, Dev, Devs, SelfTest, Bail, Drops
<1>7. Divided'
  BY <1>0 DEF IInv, Divided, DivideFound, InTurn, Asked, Dev, Devs, SelfTest, Bail, Drops
<1>8. Reported'
  BY <1>0 DEF IInv, Reported, SelfTest, Bail, Drops
<1>9. VerdictsTrue'
  <2> DEFINE s == checked + 1
             wrong == LanesCompared(s) \intersect WrongLanes(Dev, s) # {}
  <2>1. /\ chosen' = chosen /\ cur' = cur /\ cfg' = cfg /\ cfg.mode = "selftest"
        /\ DivideFound(cur) /\ s \in 1 .. 4
    BY DEF IInv, TypeOK, Places, Divided, SelfTest
  <2>2. \/ outcome' = outcome /\ outcome = "none"
        \/ outcome' = "err" /\ failed' # {}
        \/ outcome' = "err" /\ wrong
        \/ outcome' = "ok" /\ s = 4 /\ ~ wrong
    <3>1. outcome = "none"
      BY DEF IInv, Places, SelfTest
    <3> QED
      BY <3>1 DEF SelfTest, Bail
  <2>3. Dev.diverges \subseteq (0 .. 63) \X (1 .. 4)
    BY <1>0 DEF Device
  <2>4. wrong => Dev.diverges # {}
    BY DEF WrongLanes
  <2>5. s = 4 /\ ~ wrong => Dev.diverges = {}
    <3>1. ASSUME s = 4, NEW w \in Dev.diverges PROVE wrong
      <4>1. w[1] \in 0 .. 63 /\ w[2] <= s
        BY <2>3, <3>1
      <4>2. w[1] \in WrongLanes(Dev, s)
        BY <4>1 DEF WrongLanes
      <4>3. LanesCompared(s) = 0 .. 63
        BY <3>1 DEF LanesCompared
      <4> QED
        BY <4>1, <4>2, <4>3
    <3> QED
      BY <3>1
  <2>6. \E v \in Dev.exact : Usable(Dev, v) /\ cfg.crdiv \in {"auto", v}
    BY <2>1 DEF DivideFound, Dev
  <2> HIDE DEF s, wrong
  <2> QED
    BY <2>1, <2>2, <2>4, <2>5, <2>6 DEF VerdictsTrue, Dev
<1> QED
  BY <1>1, <1>2, <1>3, <1>4, <1>5, <1>6, <1>7, <1>8, <1>9 DEF IInv

\* Main drops the device it was preparing; the instance has holders left.
LEMMA DropGpuKeeps ==
    ASSUME IInv, DropGpu
    PROVE  IInv'
<1> USE DEF creation, choices, deviceVars, Stages, Preparing, Creating, Reporting, Ending
<1>0. /\ cur \in Devs /\ Devs \subseteq Nat \ {0}
      /\ Dev \in Device /\ Dev = chosen[cur] /\ setup[cur] \in Setup
  BY Here DEF IInv, Places, DropGpu, Opened, Devs
<1>1. TypeOK'
  BY <1>0 DEF IInv, TypeOK, Devs, Setup, DropGpu, CloseGpu
<1>2. Places'
  BY <1>0 DEF IInv, Places, Devs, DropGpu, CloseGpu
<1>3. Turns'
  BY <1>0 DEF IInv, Turns, Devs, DropGpu, CloseGpu
<1>4. Owned'
  <2>1. /\ gpu' = [gpu EXCEPT ![cur] = "gone"]
        /\ instance' = (instance /\ Holders(Opened \ {cur}, mainHolds) > 0)
        /\ mainHolds' = mainHolds /\ chosen' = chosen /\ thread' = thread
    BY DEF DropGpu, CloseGpu
  <2>2. Opened' = Opened \ {cur}
    BY <1>0, <2>1 DEF IInv, TypeOK, Opened, Devs
  <2>3. Opened' # {} \/ mainHolds => instance'
    <3>1. Opened \ {cur} \in SUBSET (1 .. Len(chosen)) /\ Len(chosen) \in Nat /\ mainHolds \in BOOLEAN
      BY DEF Opened, Devs, IInv, TypeOK
    <3>2. Opened \ {cur} # {} \/ mainHolds => Holders(Opened \ {cur}, mainHolds) > 0
      BY <3>1, Held
    <3>3. Opened # {} \/ mainHolds => instance
      BY DEF IInv, Owned
    <3>4. Opened \ {cur} # {} => Opened # {}
      OBVIOUS
    <3> QED
      BY <2>1, <2>2, <3>2, <3>3, <3>4, Zenon
  <2> QED
    BY <1>0, <2>1, <2>3 DEF IInv, Owned, Devs, DropGpu
<1>5. Capable'
  BY <1>0 DEF IInv, Capable, Devs, DropGpu, CloseGpu
<1>6. Planned'
  BY <1>0 DEF IInv, Planned, Fits, MaxCount, Dev, Devs, DropGpu, CloseGpu
<1>7. Divided'
  BY <1>0 DEF IInv, Divided, DivideFound, InTurn, Asked, Dev, Devs, DropGpu, CloseGpu
<1>8. Reported'
  BY <1>0 DEF IInv, Reported, DropGpu, CloseGpu
<1>9. VerdictsTrue'
  BY <1>0 DEF IInv, VerdictsTrue, Dev, DropGpu, CloseGpu
<1> QED
  BY <1>1, <1>2, <1>3, <1>4, <1>5, <1>6, <1>7, <1>8, <1>9 DEF IInv

\* Main drops its hold of the instance; the devices that mine still have theirs.
LEMMA DropInstanceKeeps ==
    ASSUME IInv, DropInstance
    PROVE  IInv'
<1> USE DEF creation, choices, deviceVars, Stages, Preparing, Creating, Reporting, Ending
<1>0. chosen # <<>> => /\ cur \in Devs /\ Devs \subseteq Nat \ {0}
      /\ Dev \in Device /\ Dev = chosen[cur] /\ setup[cur] \in Setup
  BY Here DEF IInv, Places, DropInstance
<1>1. TypeOK'
  <2>1. instance' \in BOOLEAN
    BY DEF DropInstance, Holders
  <2>2. mainHolds' \in BOOLEAN
    BY Zenon DEF DropInstance
  <2> QED
    BY <2>1, <2>2 DEF IInv, TypeOK, Devs, DropInstance
<1>2. Places'
  BY <1>0 DEF IInv, Places, Devs, DropInstance
<1>3. Turns'
  BY <1>0 DEF IInv, Turns, Devs, DropInstance
<1>4. Owned'
  <2>1. Opened' = Opened
    BY DEF Opened, Devs, DropInstance
  <2>2. Opened' # {} \/ mainHolds' => instance'
    <3>1. Opened \in SUBSET (1 .. Len(chosen)) /\ Len(chosen) \in Nat
      BY DEF Opened, Devs, IInv, TypeOK
    <3>2. Opened # {} => Holders(Opened, FALSE) > 0
      BY <3>1, Held, Zenon
    <3>3. (Opened # {} => Holders(Opened, FALSE) > 0) => (Opened # {} => instance')
      BY Zenon DEF DropInstance
    <3>4. ~ mainHolds'
      BY DEF DropInstance
    <3> QED
      BY <2>1, <3>2, <3>3, <3>4, Zenon
  <2> QED
    BY <1>0, <2>2 DEF IInv, Owned, Devs, DropInstance
<1>5. Capable'
  BY <1>0 DEF IInv, Capable, Devs, DropInstance
<1>6. Planned'
  BY <1>0 DEF IInv, Planned, Fits, MaxCount, Dev, Devs, DropInstance
<1>7. Divided'
  BY <1>0 DEF IInv, Divided, DivideFound, InTurn, Asked, Dev, Devs, DropInstance
<1>8. Reported'
  BY <1>0 DEF IInv, Reported, DropInstance
<1>9. VerdictsTrue'
  BY <1>0 DEF IInv, VerdictsTrue, Dev, DropInstance
<1> QED
  BY <1>1, <1>2, <1>3, <1>4, <1>5, <1>6, <1>7, <1>8, <1>9 DEF IInv

\* The process ends.
LEMMA ExitKeeps ==
    ASSUME IInv, Exit
    PROVE  IInv'
<1> USE DEF creation, choices, deviceVars, Stages, Preparing, Creating, Reporting, Ending
<1>0. chosen # <<>> => /\ cur \in Devs /\ Devs \subseteq Nat \ {0}
      /\ Dev \in Device /\ Dev = chosen[cur] /\ setup[cur] \in Setup
  BY Here DEF IInv, Places, Exit
<1>1. TypeOK'
  BY <1>0 DEF IInv, TypeOK, Devs, Setup, Exit
<1>2. Places'
  BY <1>0 DEF IInv, Places, Devs, Exit
<1>3. Turns'
  BY <1>0 DEF IInv, Turns, Devs, Exit
<1>4. Owned'
  BY <1>0 DEF IInv, Owned, Opened, Devs, Exit
<1>5. Capable'
  BY <1>0 DEF IInv, Capable, Devs, Exit
<1>6. Planned'
  BY <1>0 DEF IInv, Planned, Fits, MaxCount, Dev, Devs, Exit
<1>7. Divided'
  BY <1>0 DEF IInv, Divided, DivideFound, InTurn, Asked, Dev, Devs, Exit
<1>8. Reported'
  BY <1>0 DEF IInv, Reported, Exit
<1>9. VerdictsTrue'
  BY <1>0 DEF IInv, VerdictsTrue, Dev, Exit
<1> QED
  BY <1>1, <1>2, <1>3, <1>4, <1>5, <1>6, <1>7, <1>8, <1>9 DEF IInv

\* The .tmp of the stats file is truncated.
LEMMA OpenStatsKeeps ==
    ASSUME IInv, OpenStats
    PROVE  IInv'
<1> USE DEF creation, choices, deviceVars, Stages, Preparing, Creating, Reporting, Ending
<1>0. /\ cur \in Devs /\ Devs \subseteq Nat \ {0}
      /\ Dev \in Device /\ Dev = chosen[cur] /\ setup[cur] \in Setup
  BY Here DEF IInv, Places, OpenStats
<1>1. TypeOK'
  BY <1>0 DEF IInv, TypeOK, Devs, Setup, OpenStats, ReportUnchanged
<1>2. Places'
  BY <1>0 DEF IInv, Places, Devs, OpenStats, ReportUnchanged
<1>3. Turns'
  BY <1>0 DEF IInv, Turns, Devs, OpenStats, ReportUnchanged
<1>4. Owned'
  BY <1>0 DEF IInv, Owned, Opened, Devs, OpenStats, ReportUnchanged
<1>5. Capable'
  BY <1>0 DEF IInv, Capable, Devs, OpenStats, ReportUnchanged
<1>6. Planned'
  BY <1>0 DEF IInv, Planned, Fits, MaxCount, Dev, Devs, OpenStats, ReportUnchanged
<1>7. Divided'
  BY <1>0 DEF IInv, Divided, DivideFound, InTurn, Asked, Dev, Devs, OpenStats, ReportUnchanged
<1>8. Reported'
  BY <1>0 DEF IInv, Reported, OpenStats, ReportUnchanged
<1>9. VerdictsTrue'
  BY <1>0 DEF IInv, VerdictsTrue, Dev, OpenStats, ReportUnchanged
<1> QED
  BY <1>1, <1>2, <1>3, <1>4, <1>5, <1>6, <1>7, <1>8, <1>9 DEF IInv

\* The .tmp is written, or main goes on without.
LEMMA WriteStatsKeeps ==
    ASSUME IInv, WriteStats
    PROVE  IInv'
<1> USE DEF creation, choices, deviceVars, Stages, Preparing, Creating, Reporting, Ending
<1>0. /\ cur \in Devs /\ Devs \subseteq Nat \ {0}
      /\ Dev \in Device /\ Dev = chosen[cur] /\ setup[cur] \in Setup
  BY Here DEF IInv, Places, WriteStats
<1>1. TypeOK'
  BY <1>0 DEF IInv, TypeOK, Devs, Setup, WriteStats, ReportUnchanged, AfterFailedWrite
<1>2. Places'
  BY <1>0 DEF IInv, Places, Devs, WriteStats, ReportUnchanged, AfterFailedWrite
<1>3. Turns'
  BY <1>0 DEF IInv, Turns, Devs, WriteStats, ReportUnchanged, AfterFailedWrite
<1>4. Owned'
  BY <1>0 DEF IInv, Owned, Opened, Devs, WriteStats, ReportUnchanged, AfterFailedWrite
<1>5. Capable'
  BY <1>0 DEF IInv, Capable, Devs, WriteStats, ReportUnchanged, AfterFailedWrite
<1>6. Planned'
  BY <1>0 DEF IInv, Planned, Fits, MaxCount, Dev, Devs, WriteStats, ReportUnchanged,
     AfterFailedWrite
<1>7. Divided'
  BY <1>0 DEF IInv, Divided, DivideFound, InTurn, Asked, Dev, Devs, WriteStats,
     ReportUnchanged, AfterFailedWrite
<1>8. Reported'
  BY <1>0 DEF IInv, Reported, TypeOK, WriteStats, ReportUnchanged, AfterFailedWrite
<1>9. VerdictsTrue'
  BY <1>0 DEF IInv, VerdictsTrue, Dev, WriteStats, ReportUnchanged, AfterFailedWrite
<1> QED
  BY <1>1, <1>2, <1>3, <1>4, <1>5, <1>6, <1>7, <1>8, <1>9 DEF IInv

\* The .tmp, which is whole, takes the place of the stats file.
LEMMA RenameStatsKeeps ==
    ASSUME IInv, RenameStats
    PROVE  IInv'
<1> USE DEF creation, choices, deviceVars, Stages, Preparing, Creating, Reporting, Ending
<1>0. /\ cur \in Devs /\ Devs \subseteq Nat \ {0}
      /\ Dev \in Device /\ Dev = chosen[cur] /\ setup[cur] \in Setup
  BY Here DEF IInv, Places, RenameStats
<1>1. TypeOK'
  BY <1>0 DEF IInv, TypeOK, Devs, Setup, RenameStats, ReportUnchanged
<1>2. Places'
  BY <1>0 DEF IInv, Places, Devs, RenameStats, ReportUnchanged
<1>3. Turns'
  BY <1>0 DEF IInv, Turns, Devs, RenameStats, ReportUnchanged
<1>4. Owned'
  BY <1>0 DEF IInv, Owned, Opened, Devs, RenameStats, ReportUnchanged
<1>5. Capable'
  BY <1>0 DEF IInv, Capable, Devs, RenameStats, ReportUnchanged
<1>6. Planned'
  BY <1>0 DEF IInv, Planned, Fits, MaxCount, Dev, Devs, RenameStats, ReportUnchanged
<1>7. Divided'
  BY <1>0 DEF IInv, Divided, DivideFound, InTurn, Asked, Dev, Devs, RenameStats, ReportUnchanged
<1>8. Reported'
  BY <1>0 DEF IInv, Reported, RenameStats, ReportUnchanged
<1>9. VerdictsTrue'
  BY <1>0 DEF IInv, VerdictsTrue, Dev, RenameStats, ReportUnchanged
<1> QED
  BY <1>1, <1>2, <1>3, <1>4, <1>5, <1>6, <1>7, <1>8, <1>9 DEF IInv

\* The program starts with the invariant.
LEMMA InitHolds == Init => IInv
<1> SUFFICES ASSUME Init PROVE IInv
  OBVIOUS
<1> USE DEF Stages, Preparing, Creating, Reporting, Ending
<1>1. sys \in Seq(Device) /\ cfg \in CommandLine
  BY StartupAssumption DEF Init
<1>2. <<>> \in Seq(Device) /\ Len(<<>>) = 0 /\ 1 .. 0 = {}
  OBVIOUS
<1>3. Devs = {} /\ Opened = {} /\ chosen = <<>>
  BY <1>2 DEF Init, Devs, Opened
<1>4. /\ \A S : <<>> \in [{} -> S] 
      /\ <<>> = [d \in {} |-> <<>>[d]]
  OBVIOUS
<1>5. TypeOK
  <2>1. setup \in [Devs -> Setup] /\ gpu \in [Devs -> {"none", "open", "gone"}]
        /\ thread \in [Devs -> {"none", "mining", "stopped"}]
    BY <1>3, <1>4 DEF Init
  <2>2. objs = [d \in Devs |-> objs[d]] /\ leaked = [d \in Devs |-> leaked[d]]
    BY <1>3, <1>4 DEF Init
  <2>3. stats \in [path : {"absent", "part", "whole"}, tmp : {"absent", "part", "whole"}]
    BY DEF Init
  <2> QED
    BY <1>1, <1>2, <2>1, <2>2, <2>3 DEF Init, TypeOK
<1>6. Places /\ Turns /\ Capable
  BY <1>3 DEF Init, Places, Turns, Capable
<1>7. Owned
  BY <1>3 DEF Init, Owned
<1>8. Planned
  BY <1>3 DEF Init, Planned
<1>9. Divided
  BY <1>3 DEF Init, Divided
<1>10. Reported
  BY DEF Init, Reported
<1>11. VerdictsTrue
  BY DEF Init, VerdictsTrue
<1> QED
  BY <1>5, <1>6, <1>7, <1>8, <1>9, <1>10, <1>11 DEF IInv

\* The devices are selected; nothing is created for them yet.
LEMMA SelectKeeps ==
    ASSUME IInv, Select
    PROVE  IInv'
<1> USE DEF creation, choices, Stages, Preparing, Creating, Reporting, Ending
<1>1. chosen' \in Seq(Device) /\ Len(chosen') \in Nat
  <2>1. Chosen(sys, cfg) \in Seq(Device)
    BY ChosenType DEF IInv, TypeOK
  <2>2. <<>> \in Seq(Device)
    OBVIOUS
  <2>3. chosen' \in Seq(Device)
    BY <2>1, <2>2 DEF Select
  <2> QED
    BY <2>3
<1>2. Devs' = 1 .. Len(chosen') /\ cur' = 1 /\ chosen = <<>> /\ outcome = "none"
  BY DEF Devs, Select, IInv, Places
<1>3. chosen' # <<>> => 1 \in Devs'
  <2>1. chosen' # <<>> => Len(chosen') # 0
    BY <1>1
  <2> QED
    BY <1>1, <1>2, <2>1
<1>4. \/ stage' = "unwind" /\ outcome' \in {"ok", "err"} /\ chosen' = <<>>
      \/ /\ stage' = IF cfg.mode = "mine" THEN "layout" ELSE "open"
         /\ chosen' # <<>> /\ outcome' = outcome /\ cfg.mode # "info"
  BY DEF Select, Bail
<1>5. /\ setup' = [d \in Devs' |-> [tps |-> 64, shards |-> 1, wave |-> 0, divide |-> None]]
      /\ objs' = [d \in Devs' |-> {}] /\ leaked' = [d \in Devs' |-> {}]
      /\ gpu' = [d \in Devs' |-> "none"] /\ thread' = [d \in Devs' |-> "none"]
  BY <1>2, Zenon DEF Select
<1>6. /\ sys' = sys /\ cfg' = cfg /\ at' = at /\ exact' = exact /\ count' = count
      /\ checked' = checked /\ mainHolds' = mainHolds /\ instance' = instance
      /\ stats' = stats /\ speeds' = speeds /\ failed' = failed
  BY DEF Select
<1>7. TypeOK'
  <2>1. [tps |-> 64, shards |-> 1, wave |-> 0, divide |-> None] \in Setup
    BY DEF Setup
  <2>2. setup' \in [Devs' -> Setup]
    BY <1>5, <2>1
  <2>3. /\ gpu' \in [Devs' -> {"none", "open", "gone"}]
        /\ thread' \in [Devs' -> {"none", "mining", "stopped"}]
        /\ objs' = [d \in Devs' |-> objs'[d]] /\ leaked' = [d \in Devs' |-> leaked'[d]]
    BY <1>5
  <2>4. stage' \in Stages /\ outcome' \in {"none", "ok", "err"} /\ cur' \in Nat \ {0}
    BY <1>2, <1>4
  <2> QED
    BY <1>1, <1>6, <2>2, <2>3, <2>4 DEF IInv, TypeOK
<1>8. Places'
  BY <1>2, <1>3, <1>4, <1>6 DEF IInv, Places, Select
<1>9. Turns'
  <2>1. Devs' \subseteq Nat \ {0}
    BY <1>1, <1>2
  <2> QED
    BY <1>2, <1>3, <1>4, <1>5, <2>1 DEF Turns
<1>10. Opened' = {}
  BY <1>5 DEF Opened
<1>11. Owned'
  BY <1>4, <1>5, <1>6, <1>10 DEF IInv, Owned, Select
<1>12. Capable'
  BY <1>5 DEF Capable
<1>13. Planned'
  <2>1. \A d \in Devs' : setup'[d].shards = 1
    BY <1>5
  <2>2. \A d \in Devs' : Fits(d)'
    BY <2>1 DEF Fits
  <2> QED
    BY <1>4, <1>6, <2>2 DEF IInv, Planned, Select
<1>14. Divided'
  BY <1>2, <1>4, <1>5, <1>6 DEF IInv, Divided
<1>15. Reported' /\ VerdictsTrue'
  BY <1>2, <1>4, <1>6 DEF IInv, Reported, VerdictsTrue
<1> QED
  BY <1>7, <1>8, <1>9, <1>11, <1>12, <1>13, <1>14, <1>15 DEF IInv

\* A mining thread ends: its objects, then its device, then perhaps the instance.
LEMMA MinerStopsKeeps ==
    ASSUME IInv, NEW d \in Devs, MinerStops(d)
    PROVE  IInv'
<1> USE DEF creation, choices, Stages, Preparing, Creating, Reporting, Ending
<1>1. /\ sys' = sys /\ cfg' = cfg /\ chosen' = chosen /\ stage' = stage /\ cur' = cur
      /\ plan' = plan /\ at' = at /\ trying' = trying /\ exact' = exact /\ count' = count
      /\ speeds' = speeds /\ checked' = checked /\ outcome' = outcome /\ setup' = setup
      /\ mainHolds' = mainHolds /\ stats' = stats
      /\ Devs' = Devs /\ Dev' = Dev
  BY DEF MinerStops, Devs, Dev
<1>2. thread[d] = "mining" /\ gpu[d] = "open" /\ objs[d] \subseteq MiningDestroys(setup[d].shards)
  BY DEF MinerStops, IInv, Turns, Owned
<1>3. /\ thread' = [thread EXCEPT ![d] = "stopped"] /\ gpu' = [gpu EXCEPT ![d] = "gone"]
      /\ objs' = [objs EXCEPT ![d] = {}] /\ leaked' = [leaked EXCEPT ![d] = leaked[d]]
      /\ failed' = failed \union {<<d, "pass">>}
      /\ instance' = (instance /\ Holders(Opened \ {d}, mainHolds) > 0)
  BY <1>2 DEF MinerStops, Drops, CloseGpu
<1>4. /\ thread' \in [Devs -> {"none", "mining", "stopped"}] /\ gpu' \in [Devs -> {"none", "open", "gone"}]
      /\ thread'[d] = "stopped" /\ gpu'[d] = "gone" /\ objs'[d] = {} /\ leaked' = leaked
      /\ objs' = [e \in Devs |-> objs'[e]]
      /\ \A e \in Devs : e # d => thread'[e] = thread[e] /\ gpu'[e] = gpu[e] /\ objs'[e] = objs[e]
  BY <1>3 DEF IInv, TypeOK
<1>5. d # cur \/ stage \in Reporting
  BY <1>2 DEF IInv, Turns, TypeOK, Places, Devs
<1>6. TypeOK'
  <2>1. instance' \in BOOLEAN
    BY DEF MinerStops, CloseGpu
  <2> QED
    BY <1>1, <1>4, <2>1 DEF IInv, TypeOK
<1>7. Places'
  BY <1>1 DEF IInv, Places
<1>8. Turns'
  <2>1. cur \in Devs
    <3>1. chosen # <<>>
      BY DEF Devs
    <3> QED
      BY <3>1 DEF IInv, Places
  <2>2. \A e \in Devs :
          /\ thread'[e] # "none" <=> thread[e] # "none"
          /\ thread'[e] = "mining" => gpu'[e] = "open"
          /\ thread'[e] = "stopped" => gpu'[e] = "gone"
    BY <1>2, <1>4 DEF IInv, Turns
  <2>3. ~ (d > cur)
    BY <1>2 DEF IInv, Turns
  <2>4. /\ \A e \in Devs : e > cur => gpu'[e] = "none"
        /\ stage \in {"layout", "open"} => gpu'[cur] = "none"
        /\ stage \in Preparing \ {"open"} => gpu'[cur] = "open"
    BY <1>4, <1>5, <2>1, <2>3 DEF IInv, Turns
  <2> QED
    BY <1>1, <2>2, <2>4 DEF IInv, Turns
<1>9. Opened' # {} \/ mainHolds' => instance'
  <2>1. Opened' = Opened \ {d}
    BY <1>1, <1>4 DEF Opened
  <2>2. Opened \ {d} \in SUBSET (1 .. Len(chosen)) /\ Len(chosen) \in Nat /\ mainHolds \in BOOLEAN
    BY DEF Opened, Devs, IInv, TypeOK
  <2>3. Opened \ {d} # {} \/ mainHolds => Holders(Opened \ {d}, mainHolds) > 0
    BY <2>2, Held
  <2>4. Opened # {} \/ mainHolds => instance
    BY DEF IInv, Owned
  <2>5. Opened \ {d} # {} => Opened # {}
    OBVIOUS
  <2> QED
    BY <1>1, <1>3, <2>1, <2>3, <2>4, <2>5, Zenon
<1>10. Owned'
  BY <1>1, <1>3, <1>4, <1>5, <1>9 DEF IInv, Owned
<1>11. Capable'
  BY <1>1, <1>4 DEF IInv, Capable
<1>12. Planned'
  BY <1>1 DEF IInv, Planned, Fits, MaxCount, Dev
<1>13. Divided'
  BY <1>1, <1>4 DEF IInv, Divided, DivideFound, InTurn, Asked, Dev
<1>14. Reported'
  BY <1>1 DEF IInv, Reported
<1>15. VerdictsTrue'
  BY <1>1, <1>3 DEF IInv, VerdictsTrue, Dev
<1> QED
  BY <1>6, <1>7, <1>8, <1>10, <1>11, <1>12, <1>13, <1>14, <1>15 DEF IInv

\* A step that changes nothing.
LEMMA StutterKeeps ==
    ASSUME IInv, UNCHANGED vars
    PROVE  IInv'
<1> USE DEF vars, creation, choices, deviceVars
<1>1. Devs' = Devs /\ Dev' = Dev /\ Opened' = Opened
  BY DEF Devs, Dev, Opened
<1>2. TypeOK'
  BY <1>1 DEF IInv, TypeOK
<1>3. Places' /\ Turns' /\ Capable' /\ Reported'
  BY <1>1 DEF IInv, Places, Turns, Capable, Reported
<1>4. Owned'
  BY <1>1 DEF IInv, Owned
<1>5. Planned'
  BY <1>1 DEF IInv, Planned, Fits, MaxCount, Dev
<1>6. Divided'
  BY <1>1 DEF IInv, Divided, DivideFound, InTurn, Asked, Dev
<1>7. VerdictsTrue'
  BY <1>1 DEF IInv, VerdictsTrue
<1> QED
  BY <1>2, <1>3, <1>4, <1>5, <1>6, <1>7 DEF IInv

\* Every step keeps the invariant.
LEMMA NextKeeps == IInv /\ [Next]_vars => IInv'
<1> SUFFICES ASSUME IInv, [Next]_vars PROVE IInv'
  OBVIOUS
<1>1. CASE MainStep
  BY <1>1, SelectKeeps, PlanLayoutKeeps, OpenGpuKeeps, TryDivideKeeps, NoDivideLeftKeeps,
     CreateKeeps, CreateFailsKeeps, ComparedKeeps, UseCachedKeeps, MeasureNextKeeps,
     MeasuredKeeps, ConcludeKeeps, StartMiningKeeps, SelfTestKeeps, DropGpuKeeps,
     DropInstanceKeeps, ExitKeeps, OpenStatsKeeps, WriteStatsKeeps, RenameStatsKeeps, Zenon
     DEF MainStep
<1>2. CASE \E d \in Devs : MinerStops(d)
  BY <1>2, MinerStopsKeeps
<1>3. CASE UNCHANGED vars
  BY <1>3, StutterKeeps
<1> QED
  BY <1>1, <1>2, <1>3 DEF Next

\* The invariant of the whole program, and its type correctness.
THEOREM Invariant == Spec => []IInv
<1>1. Init => IInv
  BY InitHolds
<1>2. IInv /\ [Next]_vars => IInv'
  BY NextKeeps
<1> QED
  BY <1>1, <1>2, PTL DEF Spec

\* Every variable keeps its type.
THEOREM TypeCorrect == Spec => []TypeOK
<1>1. IInv => TypeOK
  BY DEF IInv
<1> QED
  BY <1>1, Invariant, PTL

-----------------------------------------------------------------------------
\* No Miner has the pipeline of the comparison.
LEMMA NoTestPipeline ==
    ASSUME NEW n \in Nat, NEW debug \in BOOLEAN
    PROVE  <<"sctest", 0, "pipeline">> \notin MinerDestroys(n, debug)
<1> DEFINE o == <<"sctest", 0, "pipeline">>
<1>1. \A p \in Kernels(debug) : o \notin PipeDestroyed(p)
  <2>1. \A p \in Kernels(debug) : p # "sctest"
    BY DEF Kernels
  <2>2. \A p : o \in PipeDestroyed(p) => p = "sctest"
    BY DEF PipeDestroyed
  <2> QED
    BY <2>1, <2>2, Zenon
<1>2. \A b, i, host : o \notin BufferDestroyed(b, i, host)
  <2> SUFFICES ASSUME NEW b, NEW i, NEW host, o \in BufferDestroyed(b, i, host)
               PROVE  FALSE
    BY Zenon
  <2>1. o \in {<<b, i, "buffer">>, <<b, i, "memory">>, <<b, i, "mapping">>}
    BY Zenon DEF BufferDestroyed
  <2> QED
    BY <2>1
<1>3. \A s : o \in PoolsDestroyed(s) => o \in s
  BY DEF PoolsDestroyed
<1>4. o \notin Kernels(debug) \X (1 .. n) \X {"set"}
  BY DEF Kernels
<1> HIDE DEF o
<1>5. o \notin MinerDestroysCommon(n, debug)
  <2>1. o \notin UNION {PipeDestroyed(p) : p \in Kernels(debug)}
    BY <1>1, Zenon
  <2>2. o \notin UNION {BufferDestroyed("scratch", i, debug)
                          \union BufferDestroyed("states", i, debug)
                          \union BufferDestroyed("output", i, TRUE)
                          \union BufferDestroyed("cn1_save", i, FALSE) : i \in 1 .. n}
    BY <1>2, Zenon
  <2>3. o \notin PoolsDestroyed(Kernels(debug) \X (1 .. n) \X {"set"})
    BY <1>3, <1>4, Zenon
  <2> QED
    BY <1>2, <2>1, <2>2, <2>3, Zenon DEF MinerDestroysCommon
<1>6. o \notin UNION {BufferDestroyed("dbg", i, TRUE) : i \in 1 .. n}
  BY <1>2, Zenon
<1> QED
  BY <1>5, <1>6, Zenon DEF MinerDestroys, o

\* The comparison has no pipeline of a Miner's.
LEMMA NoMinerPipeline == <<"cn1", 0, "pipeline">> \notin CompareDestroys
<1> DEFINE o == <<"cn1", 0, "pipeline">>
<1>1. \A b, i, host : o \notin BufferDestroyed(b, i, host)
  <2> SUFFICES ASSUME NEW b, NEW i, NEW host, o \in BufferDestroyed(b, i, host)
               PROVE  FALSE
    BY Zenon
  <2>1. o \in {<<b, i, "buffer">>, <<b, i, "memory">>, <<b, i, "mapping">>}
    BY Zenon DEF BufferDestroyed
  <2> QED
    BY <2>1
<1>2. o \notin PipeDestroyed("sctest")
  BY DEF PipeDestroyed
<1>3. o \notin PoolsDestroyed({<<"sctest", 0, "set">>})
  BY DEF PoolsDestroyed
<1> HIDE DEF o
<1>4. o \notin UNION {BufferDestroyed(b, 0, TRUE) : b \in {"in_v", "in_rc", "out_i", "out_f"}}
  BY <1>1, Zenon
<1> QED
  BY <1>2, <1>3, <1>4, Zenon DEF CompareDestroys, o

\* Every complete plan fits the pool that was made for it.
LEMMA PoolsSuffice == IInv => PoolSuffices
<1> SUFFICES ASSUME IInv PROVE PoolSuffices
  OBVIOUS
<1>1. count \in Nat /\ (stage = "build" => setup[cur].shards \in Nat)
  <2>1. stage = "build" => chosen # <<>>
    BY DEF IInv, Places, Ending
  <2> QED
    BY <2>1, Here DEF IInv, TypeOK, Setup
<1>2. stage = "measure" =>
        /\ Cardinality(SetsIn(plan)) <= PoolSets(count, FALSE)
        /\ Cardinality(SlotsIn(plan)) <= PoolDescriptors(count, FALSE)
  BY <1>1, PoolHolds, Zenon DEF IInv, Owned, MiningPlan
<1>3. stage = "build" =>
        /\ Cardinality(SetsIn(plan)) <= PoolSets(setup[cur].shards, FALSE)
        /\ Cardinality(SlotsIn(plan)) <= PoolDescriptors(setup[cur].shards, FALSE)
  BY <1>1, PoolHolds, Zenon DEF IInv, Owned, MiningPlan
<1>4. 1 \in Nat
  OBVIOUS
<1>5. stage = "selftest" =>
        /\ Cardinality(SetsIn(plan)) <= PoolSets(1, TRUE)
        /\ Cardinality(SlotsIn(plan)) <= PoolDescriptors(1, TRUE)
  BY <1>4, PoolHolds, Zenon DEF IInv, Owned, TestPlan
<1>6. "measure" # "selftest" /\ "build" # "selftest" /\ "measure" # "build"
  OBVIOUS
<1>7. CASE stage = "measure"
  <2>1. (stage = "selftest") = FALSE
    BY <1>6, <1>7
  <2> QED
    BY <1>2, <1>6, <1>7, <2>1, Zenon DEF PoolSuffices
<1>8. CASE stage = "build"
  <2>1. (stage = "selftest") = FALSE
    BY <1>6, <1>8
  <2> QED
    BY <1>3, <1>6, <1>8, <2>1, Zenon DEF PoolSuffices
<1>9. CASE stage = "selftest"
  <2>1. (stage = "selftest") = TRUE
    BY <1>9
  <2> QED
    BY <1>5, <1>6, <1>9, <2>1, Zenon DEF PoolSuffices
<1> QED
  BY <1>7, <1>8, <1>9, Zenon DEF PoolSuffices

\* No pipeline asks for what its device was not opened for.
LEMMA PipelinesAreValid == IInv => PipelinesValid
<1> SUFFICES ASSUME IInv PROVE PipelinesValid
  OBVIOUS
<1> DEFINE test == <<"sctest", 0, "pipeline">>
           cn1 == <<"cn1", 0, "pipeline">>
<1>1. \A n \in Nat : test \notin MiningDestroys(n)
  BY NoTestPipeline, Zenon DEF MiningDestroys
<1>2. test \notin TestDestroys
  <2>1. 1 \in Nat
    OBVIOUS
  <2> QED
    BY <2>1, NoTestPipeline, Zenon DEF TestDestroys
<1>3. cn1 \notin CompareDestroys
  BY NoMinerPipeline
<1>4. ASSUME NEW d \in Devs
      PROVE  /\ objs[d] # {} => gpu[d] = "open"
             /\ test \in objs[d] => d = cur /\ stage = "compare"
             /\ cn1 \in objs[d] => DivideFound(d)
  <2>1. setup[d].shards \in Nat /\ count \in Nat
    BY DEF IInv, TypeOK, Setup
  <2> HIDE DEF test, cn1
  <2>2. CASE thread[d] = "mining"
    BY <1>1, <2>1, <2>2 DEF IInv, Turns, Owned, Divided
  <2>3. CASE d = cur /\ stage \in Creating
    BY <1>1, <1>2, <1>3, <2>1, <2>3 DEF IInv, Turns, Owned, Divided, Preparing, Creating
  <2> QED
    BY <2>2, <2>3 DEF IInv, Owned
<1>5. ASSUME NEW d \in Devs
      PROVE  /\ objs[d] # {} => chosen[d].int64
             /\ test \in objs[d] => Usable(chosen[d], Head(trying))
             /\ cn1 \in objs[d] => Usable(chosen[d], setup[d].divide)
             /\ setup[d].wave # 0 =>
                  chosen[d].ctl /\ setup[d].wave \in chosen[d].min_sub .. chosen[d].max_sub
  <2> HIDE DEF test, cn1
  <2> QED
    BY <1>4, <1>5 DEF IInv, Capable, Divided, DivideFound, Dev
<1> QED
  BY <1>5 DEF PipelinesValid

\* Main asks nothing of a device that Vulkan does not allow it to ask: every
\* plan fits its descriptor pool, every pipeline what the device was opened for.
THEOREM UsageIsValid == Spec => []ValidUsage
<1>1. IInv => ValidUsage
  BY PoolsSuffice, PipelinesAreValid DEF ValidUsage
<1> QED
  BY <1>1, Invariant, PTL

\* The layout that main plans is the best one, on every device and for every
\* command line.
THEOREM LayoutIsBest == Spec => []LayoutBest
<1>1. ASSUME IInv PROVE LayoutBest
  <2>1. ASSUME stage = "open", cfg.mode = "mine"
        PROVE  /\ cfg.tps = 0 => WithinBudget(Dev, cfg, setup[cur])
               /\ cfg.tps = 0 /\ cfg.shards = 0 =>
                    Closest(Dev, cfg, [tps |-> setup[cur].tps, shards |-> setup[cur].shards])
               /\ cfg.shards = 0 => OvershootsLittle(Dev, cfg, setup[cur])
    <3>1. chosen # <<>>
      BY <1>1, <2>1 DEF IInv, Places, Ending
    <3>2. Dev \in Device /\ cfg \in CommandLine
      BY <1>1, <3>1, Here DEF IInv, TypeOK
    <3>3. /\ setup[cur].tps = SelectTps(Dev, cfg)
          /\ setup[cur].shards = SelectShards(Dev, cfg, setup[cur].tps)
      BY <1>1, <2>1 DEF IInv, Planned
    <3> QED
      BY <3>2, <3>3, LayoutFound, Zenon
  <2> QED
    BY <2>1, Zenon DEF LayoutBest
<1> QED
  BY <1>1, Invariant, PTL

\* Objects go before their device, devices before their instance, and nothing
\* complete is left behind, whichever thread ends first.
THEOREM LifetimesAreNested == Spec => []LifetimesNest
<1>1. ASSUME IInv PROVE LifetimesNest
  <2>1. ASSUME NEW d \in Devs, gpu[d] # "open" PROVE objs[d] = {}
    BY <1>1, <2>1 DEF IInv, Turns, Owned, Preparing, Creating
  <2> QED
    BY <1>1, <2>1 DEF IInv, Owned, LifetimesNest
<1> QED
  BY <1>1, Invariant, PTL

\* A device mines with a divide that is exact on it, and with the fastest such
\* one where none was forced.
THEOREM MiningIsExact == Spec => []MinesExact
<1>1. IInv => MinesExact
  BY DEF IInv, Divided, DivideFound, MinesExact
<1> QED
  BY <1>1, Invariant, PTL

\* What mines without a forced number of shards is one shard, or stays within
\* 80% of its device's memory.
THEOREM PlansAlwaysFit == Spec => []PlansFitMemory
<1>1. IInv => PlansFitMemory
  BY DEF IInv, Planned, Fits, PlansFitMemory
<1> QED
  BY <1>1, Invariant, PTL

\* A reader of the stats file finds all of it or none.
THEOREM StatsAlwaysWhole == Spec => []StatsWhole
<1>1. IInv => StatsWhole
  BY DEF IInv, Reported, StatsWhole
<1> QED
  BY <1>1, Invariant, PTL

\* The verdicts of the self test and of the micro test are those of the device.
THEOREM VerdictsAreTrue == Spec => []VerdictsTrue
<1>1. IInv => VerdictsTrue
  BY DEF IInv
<1> QED
  BY <1>1, Invariant, PTL
=============================================================================
