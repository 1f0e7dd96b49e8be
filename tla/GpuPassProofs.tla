---------------------------- MODULE GpuPassProofs ----------------------------
(***************************************************************************)
(* Proofs about GpuPass for all shards, iterations, slices and devices.    *)
(***************************************************************************)
EXTENDS GpuPass, SequenceTheorems, TLAPS

-----------------------------------------------------------------------------
\* The cut into slices.

\* The iterations before slice i, and the command buffer that belongs to it.
Before(i) ==
    IF stages >= 3 THEN i * BaseCount + (IF i < Extra THEN i ELSE Extra) ELSE 0
Buffer(i) == CommandBuffer(i, Before(i))

Counted == stages \in 1 .. 4 /\ cn1_slices \in 1 .. MaxSlices

\* There is a slice, no more than iterations, and the division has no rest but
\* Extra.
LEMMA Division ==
    ASSUME Counted
    PROVE  /\ Slices \in 1 .. MaxSlices /\ Slices <= Iterations
           /\ BaseCount \in Nat /\ Extra \in 0 .. Slices - 1
           /\ Iterations = Slices * BaseCount + Extra
<1> USE GpuAssumption DEF Counted
<1>1. Slices \in 1 .. MaxSlices /\ Slices <= Iterations
  BY DEF Slices
<1>2. ASSUME NEW n \in Nat, NEW m \in Nat \ {0}
      PROVE  n \div m \in Nat /\ n % m \in 0 .. m - 1 /\ n = (m * (n \div m)) + (n % m)
  BY <1>2
<1>3. Iterations \in Nat /\ Slices \in Nat \ {0}
  BY <1>1
<1> HIDE DEF Counted
<1>4. /\ BaseCount \in Nat /\ Extra \in 0 .. Slices - 1
      /\ Iterations = (Slices * BaseCount) + Extra
  BY <1>2, <1>3 DEF BaseCount, Extra
<1> QED
  BY <1>1, <1>4

\* The slices follow each other without a gap and end with the last iteration.
LEMMA SlicesMeet ==
    ASSUME Counted, stages >= 3
    PROVE  /\ Before(0) = 0 /\ Before(Slices) = Iterations
           /\ \A i \in 0 .. Slices - 1 :
                /\ Count(i) \in 0 .. Iterations
                /\ Before(i) \in 0 .. Iterations
                /\ Before(i + 1) = Before(i) + Count(i)
                /\ Before(i + 1) \in 0 .. Iterations
<1> DEFINE n == Slices
           b == BaseCount
           e == Extra
<1>1. /\ n \in Nat \ {0} /\ b \in Nat /\ e \in 0 .. n - 1
      /\ Iterations = n * b + e /\ Iterations \in Nat
  BY Division, GpuAssumption
<1>2. \A i \in Nat : Before(i) = i * b + (IF i < e THEN i ELSE e)
  BY DEF Before
<1>3. \A i \in Nat : Count(i) = b + (IF i < e THEN 1 ELSE 0)
  BY DEF Count
<1> HIDE DEF n, b, e
<1>4. Before(0) = 0 /\ Before(n) = Iterations
  BY <1>1, <1>2
<1>5. ASSUME NEW i \in 0 .. n - 1
      PROVE  /\ Count(i) \in 0 .. Iterations
             /\ Before(i) \in 0 .. Iterations
             /\ Before(i + 1) = Before(i) + Count(i)
             /\ Before(i + 1) \in 0 .. Iterations
  <2>1. (i + 1) * b = i * b + b /\ i * b \in Nat
    BY <1>1
  <2>2. Before(i + 1) = Before(i) + Count(i) /\ Before(i) \in Nat /\ Count(i) \in Nat
    BY <1>1, <1>2, <1>3, <2>1
  <2>3. (i + 1) * b <= n * b
    <3>1. PICK d \in Nat : n = (i + 1) + d
      <4>1. n - (i + 1) \in Nat /\ n = (i + 1) + (n - (i + 1))
        BY <1>1
      <4> QED
        BY <4>1
    <3>2. n * b = (i + 1) * b + d * b /\ d * b \in Nat /\ (i + 1) * b \in Nat
      BY <1>1, <3>1
    <3> QED
      BY <3>2
  <2>4. Before(i + 1) <= Iterations
    BY <1>1, <1>2, <2>1, <2>3
  <2> QED
    BY <1>1, <2>2, <2>4
<1> QED
  BY <1>4, <1>5 DEF n

\* As long as a pass keeps its stages and its slices, it keeps the cut.
LEMMA CutUnchanged ==
    ASSUME UNCHANGED <<stages, cn1_slices>>
    PROVE  /\ Slices' = Slices /\ Goal' = Goal
           /\ \A i : Before(i)' = Before(i) /\ Buffer(i)' = Buffer(i) /\ Count(i)' = Count(i)
BY DEF Slices, Goal, Before, Buffer, CommandBuffer, Count, BaseCount, Extra

-----------------------------------------------------------------------------
\* The groups of a pass form a chain: behind the first one, which needs nothing,
\* each has a barrier in front and needs what the one before it leaves.
Needs(g) == CASE g.kernel = "cn00" -> Keys
              [] g.kernel = "cn1"  -> Run(g.first)
              [] g.kernel = "cn2"  -> Run(Iterations)

Follows(g, q) ==
    /\ g.barrier
    /\ g.kernel # "cn0"
    /\ Needs(g) = Leaves(q[Len(q)])

Linked(q) ==
    \A k \in 1 .. Len(q) :
        IF k = 1 THEN q[k].kernel = "cn0"
        ELSE q[k].barrier /\ q[k].kernel # "cn0" /\ Needs(q[k]) = Leaves(q[k - 1])

\* How far a shard is after the groups of q; they write the output if the last
\* one finishes the hashes.
LeadsTo(q, at) ==
    /\ q # <<>>
    /\ Linked(q)
    /\ Leaves(q[Len(q)]) = at
    /\ \A k \in 1 .. Len(q) : q[k].kernel = "cn2" <=> at = Hashed /\ k = Len(q)

\* A chain grows by a group that follows it.
LEMMA LinkOne ==
    ASSUME NEW q \in Seq(Groups), NEW at, LeadsTo(q, at), at # Hashed,
           NEW g \in Groups, Follows(g, q), Leaves(g) = Hashed <=> g.kernel = "cn2"
    PROVE  q \o <<g>> \in Seq(Groups) /\ LeadsTo(q \o <<g>>, Leaves(g))
<1> DEFINE r == q \o <<g>>
<1>1. /\ r \in Seq(Groups) /\ Len(q) \in Nat \ {0} /\ Len(r) = Len(q) + 1
      /\ r[Len(q) + 1] = g /\ \A k \in 1 .. Len(q) : r[k] = q[k]
  BY DEF LeadsTo
<1> HIDE DEF r
<1>2. Linked(r)
  BY <1>1 DEF LeadsTo, Linked, Follows
<1>3. \A k \in 1 .. Len(r) : r[k].kernel = "cn2" <=> Leaves(g) = Hashed /\ k = Len(r)
  BY <1>1 DEF LeadsTo
<1>4. r # <<>>
  BY <1>1
<1> QED
  BY <1>1, <1>2, <1>3, <1>4 DEF LeadsTo, r


\* What has been put on the queue after i slices.
Reached(q, i) ==
    /\ q \in Seq(Groups)
    /\ i = 0 => q = <<>>
    /\ 0 < i /\ i < Slices => stages >= 3 /\ LeadsTo(q, Run(Before(i)))
    /\ i = Slices => LeadsTo(q, Goal)

\* A sequence of one group.
LEMMA OneGroup ==
    ASSUME NEW g \in Groups
    PROVE  <<g>> \in Seq(Groups) /\ Len(<<g>>) = 1 /\ <<g>>[1] = g
OBVIOUS

\* The groups by name.
First == Group("cn0", FALSE, 0, 0)
Second == Group("cn00", TRUE, 0, 0)
Loop(n, c) == Group("cn1", TRUE, n, c)
Final == Group("cn2", TRUE, 0, 0)

\* Only cn2 finishes the hashes.
LEMMA NotYetHashed ==
    Keys # Hashed /\ \A n \in 0 .. Iterations : Run(n) # Hashed
BY GpuAssumption DEF Keys, Run, Hashed

\* What each group needs and leaves.
LEMMA FirstGroup == First \in Groups /\ First.kernel = "cn0" /\ Leaves(First) = Keys
BY GpuAssumption DEF First, Group, Groups, Leaves

LEMMA SecondGroup ==
    /\ Second \in Groups /\ Second.kernel = "cn00" /\ Second.barrier
    /\ Needs(Second) = Keys /\ Leaves(Second) = Run(0)
BY GpuAssumption DEF Second, Group, Groups, Leaves, Needs

LEMMA LoopGroup ==
    ASSUME NEW n \in 0 .. Iterations, NEW c \in 0 .. Iterations, n + c <= Iterations
    PROVE  /\ Loop(n, c) \in Groups /\ Loop(n, c).kernel = "cn1" /\ Loop(n, c).barrier
           /\ Needs(Loop(n, c)) = Run(n) /\ Leaves(Loop(n, c)) = Run(n + c)
BY DEF Loop, Group, Groups, Leaves, Needs

LEMMA FinalGroup ==
    /\ Final \in Groups /\ Final.kernel = "cn2" /\ Final.barrier
    /\ Needs(Final) = Run(Iterations) /\ Leaves(Final) = Hashed
BY GpuAssumption DEF Final, Group, Groups, Leaves, Needs

\* The groups at the front of a slice: those before cn1, of the first one only.
Front(i) == IF i = 0 THEN Cn0 \o (IF stages >= 2 THEN Cn00 ELSE <<>>) ELSE <<>>

\* Before cn1 runs, the hashes are where the slice wants them.
LEMMA FrontAppended ==
    ASSUME Counted, NEW q, NEW i \in 0 .. Slices - 1, Reached(q, i)
    PROVE  /\ Front(i) \in Seq(Groups)
           /\ q \o Front(i) \in Seq(Groups)
           /\ stages = 1 => LeadsTo(q \o Front(i), Keys)
           /\ stages # 1 => LeadsTo(q \o Front(i), Run(Before(i)))
<1>0. Slices \in Nat \ {0} /\ stages \in 1 .. 4 /\ q \in Seq(Groups)
  BY Division DEF Counted, Reached
<1>1. CASE i # 0
  <2>1. Front(i) = <<>> /\ q \o <<>> = q
    BY <1>0, <1>1 DEF Front
  <2>2. stages >= 3 /\ LeadsTo(q, Run(Before(i)))
    BY <1>0, <1>1 DEF Reached
  <2> QED
    BY <1>0, <2>1, <2>2
<1>2. CASE i = 0
  <2>1. q = <<>> /\ Before(i) = 0
    BY <1>0, <1>2, SlicesMeet DEF Reached, Before
  <2>2. Cn0 = <<First>> /\ Cn0 \in Seq(Groups) /\ Len(Cn0) = 1 /\ Cn0[1] = First
    BY FirstGroup, OneGroup DEF Cn0, First
  <2>3. Linked(Cn0)
    BY <2>2, FirstGroup DEF Linked
  <2>4. LeadsTo(Cn0, Keys)
    BY <2>2, <2>3, FirstGroup, NotYetHashed DEF LeadsTo
  <2>5. CASE stages = 1
    <3>1. Front(i) = Cn0 /\ q \o Front(i) = Cn0
      BY <1>2, <2>1, <2>2, <2>5 DEF Front
    <3> QED
      BY <2>2, <2>4, <2>5, <3>1
  <2>6. CASE stages # 1
    <3>1. Cn00 = <<Second>>
      BY DEF Cn00, Second
    <3>2. Follows(Second, Cn0)
      BY <2>4, SecondGroup DEF Follows, LeadsTo
    <3>3. Cn0 \o Cn00 \in Seq(Groups) /\ LeadsTo(Cn0 \o Cn00, Run(0))
      <4>1. 0 \in 0 .. Iterations
        BY GpuAssumption
      <4> QED
        BY <2>2, <2>4, <3>1, <3>2, <4>1, LinkOne, SecondGroup, NotYetHashed
    <3>4. Front(i) = Cn0 \o Cn00
      BY <1>0, <1>2, <2>6 DEF Front
    <3>5. q \o Front(i) = Front(i)
      BY <2>1, <3>3, <3>4
    <3> QED
      BY <2>1, <2>6, <3>3, <3>4, <3>5
  <2> QED
    BY <2>5, <2>6
<1> QED
  BY <1>1, <1>2

\* A command buffer takes the hashes from where its slice begins to where the
\* next one begins, the last one to the end of the pass.
LEMMA BufferAppended ==
    ASSUME Counted, NEW q, NEW i \in 0 .. Slices - 1, Reached(q, i)
    PROVE  Buffer(i) \in Seq(Groups) /\ Reached(q \o Buffer(i), i + 1)
<1>0. Slices \in Nat \ {0} /\ stages \in 1 .. 4 /\ q \in Seq(Groups)
  BY Division DEF Counted, Reached
<1>1. /\ Front(i) \in Seq(Groups)
      /\ q \o Front(i) \in Seq(Groups)
      /\ stages = 1 => LeadsTo(q \o Front(i), Keys)
      /\ stages # 1 => LeadsTo(q \o Front(i), Run(Before(i)))
  BY FrontAppended
<1> DEFINE middle == IF stages >= 3 THEN Cn1(Before(i), Count(i)) ELSE <<>>
           last == IF stages >= 4 /\ i = Slices - 1 THEN Cn2 ELSE <<>>
<1>2. Buffer(i) = (Front(i) \o middle) \o last
  BY DEF Buffer, CommandBuffer, Front
<1>3. CASE stages < 3
  <2>1. Slices = 1 /\ i = 0
    BY <1>0, <1>3 DEF Slices
  <2>2. Buffer(i) = Front(i)
    <3>1. middle = <<>> /\ last = <<>>
      BY <1>0, <1>3
    <3> HIDE DEF middle, last
    <3> QED
      BY <1>1, <1>2, <3>1, ConcatEmptySeq
  <2>3. CASE stages = 1
    BY <1>1, <2>1, <2>2, <2>3 DEF Goal, Reached
  <2>4. CASE stages = 2
    <3>1. Goal = Run(Before(i))
      BY <2>4 DEF Goal, Before
    <3> QED
      BY <1>1, <2>1, <2>2, <2>4, <3>1 DEF Reached
  <2> QED
    BY <1>0, <1>3, <2>3, <2>4
<1>4. CASE stages >= 3
  <2>1. /\ Count(i) \in 0 .. Iterations /\ Before(i) \in 0 .. Iterations
        /\ Before(i + 1) = Before(i) + Count(i) /\ Before(i + 1) \in 0 .. Iterations
        /\ Before(Slices) = Iterations
    BY <1>4, SlicesMeet
  <2>2. PICK g \in Groups : /\ g = Loop(Before(i), Count(i)) /\ g.kernel = "cn1" /\ g.barrier
                            /\ Needs(g) = Run(Before(i)) /\ Leaves(g) = Run(Before(i + 1))
    BY <2>1, LoopGroup
  <2>3. Cn1(Before(i), Count(i)) = <<g>>
    BY <2>2 DEF Cn1, Loop
  <2>4. /\ LeadsTo(q \o Front(i), Run(Before(i)))
        /\ Follows(g, q \o Front(i))
    BY <1>0, <1>1, <1>4, <2>2 DEF LeadsTo, Follows
  <2>5. /\ (q \o Front(i)) \o <<g>> \in Seq(Groups)
        /\ LeadsTo((q \o Front(i)) \o <<g>>, Run(Before(i + 1)))
    BY <1>1, <2>1, <2>2, <2>4, LinkOne, NotYetHashed
  <2>6. <<g>> \in Seq(Groups) /\ Front(i) \o <<g>> \in Seq(Groups)
    BY <1>1, OneGroup, ConcatProperties
  <2>7. (q \o Front(i)) \o <<g>> = q \o (Front(i) \o <<g>>)
    BY <1>0, <1>1, <2>6, ConcatAssociative
  <2>8. CASE stages = 4 /\ i = Slices - 1
    <3>1. PICK h \in Groups : /\ h = Final /\ h.kernel = "cn2" /\ h.barrier
                              /\ Needs(h) = Run(Iterations) /\ Leaves(h) = Hashed
      BY FinalGroup
    <3>2. Buffer(i) = (Front(i) \o <<g>>) \o <<h>> /\ <<h>> \in Seq(Groups)
      <4>1. middle = <<g>> /\ last = <<h>>
        BY <1>0, <1>4, <2>3, <2>8, <3>1 DEF Cn2, Final
      <4> HIDE DEF middle, last
      <4> QED
        BY <1>2, <3>1, <4>1, OneGroup
    <3>3. q \o Buffer(i) = (q \o (Front(i) \o <<g>>)) \o <<h>>
      BY <1>0, <2>6, <3>2, ConcatAssociative
    <3>4. Before(i + 1) = Iterations /\ Slices = i + 1
      BY <1>0, <2>1, <2>8
    <3>5. Follows(h, q \o (Front(i) \o <<g>>))
      BY <2>5, <2>7, <3>1, <3>4 DEF LeadsTo, Follows
    <3>6. q \o Buffer(i) \in Seq(Groups) /\ LeadsTo(q \o Buffer(i), Hashed)
      BY <2>1, <2>5, <2>7, <3>1, <3>3, <3>4, <3>5, LinkOne, NotYetHashed
    <3>7. Goal = Hashed
      BY <2>8 DEF Goal
    <3>8. Buffer(i) \in Seq(Groups)
      BY <2>6, <3>2, ConcatProperties
    <3> QED
      BY <1>0, <2>8, <3>4, <3>6, <3>7, <3>8 DEF Reached
  <2>9. CASE ~(stages = 4 /\ i = Slices - 1)
    <3>1. Buffer(i) = Front(i) \o <<g>>
      <4>1. middle = <<g>> /\ last = <<>>
        BY <1>0, <1>4, <2>3, <2>9
      <4> HIDE DEF middle, last
      <4> QED
        BY <1>2, <2>6, <4>1, ConcatEmptySeq
    <3> DEFINE r == q \o Buffer(i)
    <3>0. Buffer(i) \in Seq(Groups) /\ r \in Seq(Groups) /\ LeadsTo(r, Run(Before(i + 1)))
      BY <2>5, <2>6, <2>7, <3>1
    <3> HIDE DEF middle, last, r
    <3>2. CASE i + 1 < Slices
      <4>1. Reached(r, i + 1)
        BY <1>0, <1>4, <3>0, <3>2 DEF Reached
      <4> QED
        BY <3>0, <4>1 DEF r
    <3>3. CASE ~(i + 1 < Slices)
      <4>1. Slices = i + 1 /\ stages = 3
        BY <1>0, <1>4, <2>9, <3>3
      <4>2. Goal = Run(Before(i + 1))
        BY <2>1, <4>1 DEF Goal
      <4> QED
        <5>1. Reached(r, i + 1)
          BY <1>0, <3>0, <4>1, <4>2 DEF Reached
        <5> QED
          BY <3>0, <5>1 DEF r
    <3> QED
      BY <3>2, <3>3
  <2> QED
    BY <2>8, <2>9
<1> QED
  BY <1>0, <1>3, <1>4

\* Every command buffer consists of groups.
LEMMA BufferTyped ==
    ASSUME Counted, NEW i \in 0 .. Slices - 1
    PROVE  Buffer(i) \in Seq(Groups)
<1> DEFINE front == IF i = 0 THEN Cn0 \o (IF stages >= 2 THEN Cn00 ELSE <<>>) ELSE <<>>
           middle == IF stages >= 3 THEN Cn1(Before(i), Count(i)) ELSE <<>>
           last == IF stages >= 4 /\ i = Slices - 1 THEN Cn2 ELSE <<>>
<1>1. Cn0 \in Seq(Groups) /\ Cn00 \in Seq(Groups) /\ Cn2 \in Seq(Groups)
  BY FirstGroup, SecondGroup, FinalGroup, OneGroup DEF Cn0, Cn00, Cn2, First, Second, Final
<1>2. front \in Seq(Groups)
  BY <1>1
<1>3. middle \in Seq(Groups)
  <2>1. CASE stages >= 3
    <3>1. /\ Count(i) \in 0 .. Iterations /\ Before(i) \in 0 .. Iterations
          /\ Before(i) + Count(i) <= Iterations
      BY <2>1, SlicesMeet
    <3>2. <<Loop(Before(i), Count(i))>> \in Seq(Groups)
      BY <3>1, LoopGroup, OneGroup
    <3> QED
      BY <2>1, <3>2 DEF Cn1, Loop
  <2> QED
    BY <2>1
<1>4. last \in Seq(Groups)
  BY <1>1
<1>5. Buffer(i) = (front \o middle) \o last
  BY DEF Buffer, CommandBuffer
<1> HIDE DEF front, middle, last
<1> QED
  BY <1>2, <1>3, <1>4, <1>5, ConcatProperties

-----------------------------------------------------------------------------
\* The inductive invariant.

Active == host \in {"submit", "wait", "collect"}

\* The thread: what it has recorded and how far it has come.
HostInv ==
    /\ host \in {"idle", "record"} => stream = <<>> /\ running = {} /\ done = {}
    /\ host = "idle" => ci = 0 /\ from = 0 /\ cmds = <<>>
    /\ host = "record" => /\ ci \in 0 .. Slices - 1 /\ Len(cmds) = ci
                          /\ from = Before(ci)
                          /\ \A s \in Shards : out[s] = "clear"
    /\ host = "submit" => ci \in 0 .. Slices - 1 /\ Len(cmds) = Slices
    /\ host \in {"record", "submit"} => \A i \in 1 .. Len(cmds) : cmds[i] = Buffer(i - 1)

\* The queue: what was submitted, and when the fence tells that it is over.
QueueInv ==
    /\ host = "submit" => Reached(stream, ci)
    /\ host \in {"wait", "collect"} => LeadsTo(stream, Goal) /\ fenceAt = Len(stream)
    /\ host = "collect" => AllDone(Len(stream))
    /\ host \notin {"error", "freed"} => failed = {}
    /\ host = "error" => failed = {"pass"}
    /\ host = "freed" /\ ~GpuIdle => failed = {"pass", "drop"}

\* The GPU: a shard has one dispatch at a time, of the group that is next for it
\* and finds what it needs; earlier groups are done on all shards.
DispatchInv ==
    Active =>
      /\ \A r \in running :
           /\ r.sound
           /\ <<r.group, r.shard>> \notin done
           /\ \A j \in 1 .. r.group - 1, t \in Shards : <<j, t>> \in done
      /\ \A k \in 1 .. Len(stream), s \in Shards : <<k, s>> \in done =>
           \A j \in 1 .. k - 1, t \in Shards : <<j, t>> \in done
      /\ \A r1, r2 \in running : r1.shard = r2.shard => r1 = r2

\* The buffers: the hashes of a shard on which nothing runs are where the last
\* group that is done left them, and cn2 has written the output if it is done.
DataInv ==
    Active =>
      \A s \in Shards :
        /\ \A k \in 1 .. Len(stream) :
             <<k, s>> \in done /\ <<k + 1, s>> \notin done /\ OnShard(s) = {} =>
               data[s] = Leaves(stream[k])
        /\ out[s] = "written" <=>
             \E k \in 1 .. Len(stream) : <<k, s>> \in done /\ stream[k].kernel = "cn2"

Inv == TypeOK /\ HostInv /\ QueueInv /\ DispatchInv /\ DataInv

\* As long as the stages and the slices stay, the queue leads to the same.
LEMMA ReachedUnchanged ==
    ASSUME UNCHANGED <<stages, cn1_slices, stream, ci>>
    PROVE  Reached(stream, ci)' = Reached(stream, ci)
<1>1. Slices' = Slices /\ Goal' = Goal /\ \A i : Before(i)' = Before(i)
  BY CutUnchanged
<1> QED
  BY <1>1 DEF Reached

\* What is on the queue of a pass is a chain.
LEMMA QueueLinked ==
    ASSUME Inv, Active
    PROVE  stream \in Seq(Groups) /\ Linked(stream)
<1>1. CASE host = "submit"
  <2>1. Reached(stream, ci) /\ ci \in 0 .. Slices - 1 /\ stream \in Seq(Groups)
    BY <1>1 DEF Inv, HostInv, QueueInv, TypeOK
  <2>2. CASE ci = 0
    BY <2>1, <2>2 DEF Reached, Linked
  <2>3. CASE ci # 0
    <3>1. Slices \in Nat
      BY Division DEF Inv, TypeOK, Counted
    <3>2. LeadsTo(stream, Run(Before(ci)))
      BY <2>1, <2>3, <3>1 DEF Reached
    <3> QED
      BY <2>1, <3>2 DEF LeadsTo
  <2> QED
    BY <2>2, <2>3
<1>2. CASE host \in {"wait", "collect"}
  BY <1>2 DEF Inv, QueueInv, TypeOK, LeadsTo
<1> QED
  BY <1>1, <1>2 DEF Active

\* The invariant holds at first.
LEMMA InitInv == Init => Inv
<1> SUFFICES ASSUME Init PROVE Inv
  OBVIOUS
<1> USE GpuAssumption
<1>1. TypeOK
  <2>1. /\ cmds \in Seq(Seq(Groups)) /\ Len(cmds) = 0 /\ stream \in Seq(Groups) /\ Len(stream) = 0
        /\ running = {} /\ done = {}
    BY DEF Init
  <2>2. cn1_slices \in 1 .. MaxSlices /\ auto \in BOOLEAN
    BY DEF Init
  <2>3. data \in [Shards -> Junk .. Hashed] /\ out \in [Shards -> {"clear", "written"}]
    BY DEF Init, Junk, Hashed
  <2>4. /\ host \in {"idle", "record", "submit", "wait", "collect", "error", "freed"}
        /\ stages \in 1 .. 4 /\ ci \in 0 .. MaxSlices - 1 /\ from \in 0 .. Iterations
        /\ fenceAt \in 0 .. Len(stream) /\ failed \subseteq {"pass", "drop"}
    BY <2>1 DEF Init
  <2> QED
    BY <2>1, <2>2, <2>3, <2>4 DEF TypeOK
<1>2. HostInv /\ QueueInv /\ DispatchInv /\ DataInv
  BY DEF Init, HostInv, QueueInv, DispatchInv, DataInv, Active
<1> QED
  BY <1>1, <1>2 DEF Inv

-----------------------------------------------------------------------------
\* The steps of the thread.

\* There is a first slice, which begins at iteration 0.
LEMMA FirstSlice ==
    ASSUME Counted
    PROVE  ci = 0 => Before(ci) = 0 /\ ci \in 0 .. Slices - 1
<1>1. Slices \in 1 .. MaxSlices /\ BaseCount \in Nat /\ Extra \in 0 .. Slices - 1
  BY Division
<1> QED
  BY <1>1, GpuAssumption DEF Before

\* A pass begins with an idle GPU and cleared outputs.
LEMMA BeginStep ==
    ASSUME Inv, NEW n \in StageChoices, BeginPass(n)
    PROVE  Inv'
<1> USE GpuAssumption
<1>1. /\ host = "idle" /\ host' = "record" /\ stages' = n
      /\ data' = [s \in Shards |-> Junk] /\ out' = [s \in Shards |-> "clear"]
      /\ UNCHANGED <<cn1_slices, auto, ci, from, cmds, failed, stream, fenceAt, running, done>>
      /\ TypeOK /\ HostInv /\ failed = {}
  BY DEF BeginPass, Inv, QueueInv
<1>2. TypeOK'
  BY <1>1 DEF TypeOK, Junk, Hashed
<1>3. Counted'
  BY <1>2 DEF TypeOK, Counted
<1>4. (ci = 0 => Before(ci) = 0 /\ ci \in 0 .. Slices - 1)'
  BY <1>3, FirstSlice, PTL
<1>5. HostInv'
  <2>1. ci' \in 0 .. Slices' - 1 /\ Len(cmds') = ci' /\ from' = Before(ci)'
    <3>1. ci' = 0 /\ from' = 0 /\ Len(cmds') = 0
      BY <1>1 DEF HostInv
    <3>2. from' = Before(ci)'
      BY <1>4, <3>1
    <3>3. ci' \in 0 .. Slices' - 1
      BY <1>4, <3>1
    <3> QED
      BY <3>1, <3>2, <3>3
  <2> QED
    BY <1>1, <2>1 DEF HostInv
<1>6. QueueInv' /\ DispatchInv' /\ DataInv'
  BY <1>1 DEF QueueInv, DispatchInv, DataInv, Active
<1> QED
  BY <1>2, <1>5, <1>6 DEF Inv

\* A slice is recorded behind the iterations that were recorded before it.
LEMMA RecordStep ==
    ASSUME Inv, RecordSlice
    PROVE  Inv'
<1> USE GpuAssumption
<1>1. /\ host = "record" /\ cmds' = Append(cmds, CommandBuffer(ci, from))
      /\ from' = IF stages >= 3 THEN from + Count(ci) ELSE from
      /\ UNCHANGED <<stages, cn1_slices, auto, failed, stream, fenceAt, running, done, data, out>>
      /\ TypeOK /\ HostInv /\ failed = {}
      /\ \/ ci + 1 < Slices /\ ci' = ci + 1 /\ host' = "record"
         \/ ci + 1 = Slices /\ ci' = 0 /\ host' = "submit"
  BY DEF RecordSlice, gpuVars, Inv, QueueInv
<1>2. Counted /\ Slices \in 1 .. MaxSlices
  BY <1>1, Division DEF TypeOK, Counted
<1>3. /\ ci \in 0 .. Slices - 1 /\ Len(cmds) = ci /\ from = Before(ci)
      /\ stream = <<>> /\ running = {} /\ done = {}
      /\ \A s \in Shards : out[s] = "clear"
      /\ \A i \in 1 .. Len(cmds) : cmds[i] = Buffer(i - 1)
  BY <1>1 DEF HostInv
<1>4. /\ Slices' = Slices /\ Goal' = Goal
      /\ \A i : Before(i)' = Before(i) /\ Buffer(i)' = Buffer(i)
  BY <1>1, CutUnchanged
<1>5. from' \in 0 .. Iterations /\ from' = Before(ci + 1)
  <2>1. CASE stages >= 3
    <3>1. Before(ci + 1) = Before(ci) + Count(ci) /\ Before(ci + 1) \in 0 .. Iterations
      BY <1>2, <1>3, <2>1, SlicesMeet
    <3> QED
      BY <1>1, <1>3, <2>1, <3>1
  <2>2. CASE ~(stages >= 3)
    BY <1>1, <1>3, <2>2 DEF Before, TypeOK
  <2> QED
    BY <2>1, <2>2
<1>6. /\ cmds' \in Seq(Seq(Groups)) /\ Len(cmds') = ci + 1
      /\ \A i \in 1 .. Len(cmds') : cmds'[i] = Buffer(i - 1)
  <2>1. CommandBuffer(ci, from) = Buffer(ci) /\ Buffer(ci) \in Seq(Groups)
    BY <1>2, <1>3, BufferTyped DEF Buffer
  <2>2. cmds \in Seq(Seq(Groups))
    BY <1>1 DEF TypeOK
  <2>3. cmds' = Append(cmds, Buffer(ci))
    BY <1>1, <2>1
  <2>4. cmds' \in Seq(Seq(Groups)) /\ Len(cmds') = ci + 1
    BY <1>3, <2>1, <2>2, <2>3
  <2>5. ASSUME NEW i \in 1 .. Len(cmds') PROVE cmds'[i] = Buffer(i - 1)
    <3>1. CASE i = ci + 1
      BY <1>3, <2>2, <2>3, <3>1
    <3>2. CASE i # ci + 1
      <4>1. i \in 1 .. Len(cmds)
        BY <1>2, <1>3, <2>4, <3>2
      <4> QED
        BY <1>3, <2>2, <2>3, <4>1
    <3> QED
      BY <3>1, <3>2
  <2> QED
    BY <2>4, <2>5
<1>7. ci' \in 0 .. MaxSlices - 1 /\ Len(cmds') <= MaxSlices
  BY <1>1, <1>2, <1>3, <1>6
<1>8. TypeOK'
  BY <1>1, <1>5, <1>6, <1>7 DEF TypeOK
<1>9. HostInv'
  <2>1. \A i \in 1 .. Len(cmds') : cmds'[i] = Buffer(i - 1)'
    BY <1>4, <1>6
  <2>2. CASE ci + 1 < Slices /\ ci' = ci + 1 /\ host' = "record"
    <3>1. Before(ci)' = Before(ci + 1)
      BY <1>1, <2>2 DEF Before, BaseCount, Extra, Slices
    <3>2. ci' \in 0 .. Slices' - 1 /\ Len(cmds') = ci' /\ from' = Before(ci)'
      BY <1>2, <1>3, <1>4, <1>5, <1>6, <2>2, <3>1
    <3> QED
      BY <1>1, <1>3, <2>1, <2>2, <3>2 DEF HostInv
  <2>3. CASE ci + 1 = Slices /\ ci' = 0 /\ host' = "submit"
    <3>1. ci' \in 0 .. Slices' - 1 /\ Len(cmds') = Slices'
      BY <1>2, <1>4, <1>6, <2>3
    <3> QED
      BY <2>1, <2>3, <3>1 DEF HostInv
  <2> QED
    BY <1>1, <2>2, <2>3
<1>10. QueueInv'
  <2>1. CASE host' = "record"
    BY <1>1, <2>1 DEF QueueInv
  <2>2. CASE host' = "submit" /\ ci' = 0
    <3>1. Reached(stream, ci)'
      BY <1>1, <1>2, <1>3, <1>4, <2>2 DEF Reached
    <3> QED
      BY <1>1, <2>2, <3>1 DEF QueueInv
  <2> QED
    BY <1>1, <2>1, <2>2
<1>11. DispatchInv' /\ DataInv'
  BY <1>1, <1>3 DEF DispatchInv, DataInv
<1> QED
  BY <1>8, <1>9, <1>10, <1>11 DEF Inv

\* The next command buffer goes behind what is on the queue.
LEMMA SubmitStep ==
    ASSUME Inv, SubmitSlice
    PROVE  Inv'
<1> USE GpuAssumption
<1>1. /\ host = "submit" /\ stream' = stream \o cmds[ci + 1]
      /\ fenceAt' = IF FenceOn(ci) THEN Len(stream') ELSE fenceAt
      /\ UNCHANGED <<stages, cn1_slices, auto, from, cmds, failed, running, done, data, out>>
      /\ TypeOK /\ HostInv /\ QueueInv /\ DispatchInv /\ DataInv /\ failed = {}
      /\ \/ ci + 1 < Slices /\ ci' = ci + 1 /\ host' = "submit"
         \/ ci + 1 = Slices /\ ci' = 0 /\ host' = "wait"
  BY DEF SubmitSlice, Inv, QueueInv
<1>2. Counted /\ Slices \in 1 .. MaxSlices
  BY <1>1, Division DEF TypeOK, Counted
<1>3. /\ ci \in 0 .. Slices - 1 /\ Len(cmds) = Slices /\ cmds[ci + 1] = Buffer(ci)
      /\ \A i \in 1 .. Len(cmds) : cmds[i] = Buffer(i - 1)
      /\ Reached(stream, ci)
  BY <1>1, <1>2 DEF HostInv, QueueInv
<1>4. /\ Slices' = Slices /\ Goal' = Goal
      /\ \A i : Before(i)' = Before(i) /\ Buffer(i)' = Buffer(i)
  BY <1>1, CutUnchanged
<1>5. /\ Buffer(ci) \in Seq(Groups) /\ stream' = stream \o Buffer(ci)
      /\ stream' \in Seq(Groups) /\ Reached(stream', ci + 1)
  <2>1. Buffer(ci) \in Seq(Groups) /\ Reached(stream \o Buffer(ci), ci + 1)
    BY <1>2, <1>3, BufferAppended
  <2> QED
    BY <1>1, <1>3, <2>1 DEF Reached
<1>6. /\ stream \in Seq(Groups) /\ Len(stream) \in Nat /\ Len(stream') \in Nat
      /\ Len(stream) <= Len(stream')
      /\ \A k \in 1 .. Len(stream) : stream'[k] = stream[k]
  <2>1. stream \in Seq(Groups)
    BY <1>1 DEF TypeOK
  <2> QED
    BY <1>5, <2>1
<1>7. TypeOK'
  <2>1. ci' \in 0 .. MaxSlices - 1
    BY <1>1, <1>2, <1>3
  <2>2. fenceAt' \in 0 .. Len(stream')
    BY <1>1, <1>6 DEF TypeOK
  <2>3. /\ running' \subseteq [group : 1 .. Len(stream'), shard : Shards, sound : BOOLEAN]
        /\ done' \subseteq (1 .. Len(stream')) \X Shards
    BY <1>1, <1>6 DEF TypeOK
  <2> QED
    BY <1>1, <1>5, <2>1, <2>2, <2>3 DEF TypeOK
<1>8. HostInv'
  <2>1. \A i \in 1 .. Len(cmds') : cmds'[i] = Buffer(i - 1)'
    BY <1>1, <1>3, <1>4
  <2> QED
    BY <1>1, <1>2, <1>3, <1>4, <2>1 DEF HostInv
<1>9. QueueInv'
  <2>1. CASE ci + 1 < Slices /\ ci' = ci + 1 /\ host' = "submit"
    <3>1. Before(ci)' = Before(ci + 1)
      BY <1>1, <2>1 DEF Before, BaseCount, Extra, Slices
    <3>2. stages' >= 3 /\ LeadsTo(stream', Run(Before(ci + 1)))
      BY <1>1, <1>2, <1>3, <1>5, <2>1 DEF Reached
    <3>3. Reached(stream, ci)'
      BY <1>2, <1>3, <1>4, <1>5, <2>1, <3>1, <3>2 DEF Reached
    <3> QED
      BY <1>1, <2>1, <3>3 DEF QueueInv
  <2>2. CASE ci + 1 = Slices /\ ci' = 0 /\ host' = "wait"
    <3>1. LeadsTo(stream', Goal') /\ fenceAt' = Len(stream')
      BY <1>1, <1>3, <1>4, <1>5, <2>2 DEF Reached, FenceOn
    <3> QED
      BY <1>1, <2>2, <3>1 DEF QueueInv
  <2> QED
    BY <1>1, <2>1, <2>2
<1>10. done \subseteq (1 .. Len(stream)) \X Shards
       /\ running \subseteq [group : 1 .. Len(stream), shard : Shards, sound : BOOLEAN]
  BY <1>1 DEF TypeOK
<1>11. DispatchInv'
  <2>1. \A k \in 1 .. Len(stream'), s \in Shards : <<k, s>> \in done =>
          \A j \in 1 .. k - 1, t \in Shards : <<j, t>> \in done
    BY <1>1, <1>6, <1>10 DEF DispatchInv, Active
  <2> QED
    BY <1>1, <2>1 DEF DispatchInv, Active
<1>12. DataInv'
  <2>1. ASSUME NEW s \in Shards, NEW k \in 1 .. Len(stream'), <<k, s>> \in done
        PROVE  k \in 1 .. Len(stream) /\ stream'[k] = stream[k]
    BY <1>6, <1>10, <2>1
  <2>2. \A s \in Shards : OnShard(s)' = OnShard(s)
    BY <1>1 DEF OnShard
  <2>3. ASSUME NEW s \in Shards
        PROVE  /\ \A k \in 1 .. Len(stream') :
                    <<k, s>> \in done /\ <<k + 1, s>> \notin done /\ OnShard(s) = {} =>
                      data[s] = Leaves(stream'[k])
               /\ out[s] = "written" <=>
                    \E k \in 1 .. Len(stream') : <<k, s>> \in done /\ stream'[k].kernel = "cn2"
    BY <1>1, <1>6, <2>1 DEF DataInv, Active
  <2> QED
    BY <1>1, <2>2, <2>3 DEF DataInv
<1> QED
  BY <1>7, <1>8, <1>9, <1>11, <1>12 DEF Inv

\* A call that fails leaves what was submitted to the GPU.
LEMMA FailStep ==
    ASSUME Inv, CallFails
    PROVE  Inv'
<1>1. /\ host' = "error" /\ failed' = {"pass"} /\ TypeOK
      /\ UNCHANGED <<stages, cn1_slices, auto, ci, from, cmds, gpuVars>>
  BY DEF CallFails, Inv, QueueInv
<1>2. TypeOK'
  BY <1>1 DEF TypeOK, gpuVars
<1> QED
  BY <1>1, <1>2 DEF Inv, HostInv, QueueInv, DispatchInv, DataInv, Active

\* The fence signals when everything on the queue is done.
LEMMA FenceStep ==
    ASSUME Inv, FenceSignals
    PROVE  Inv'
<1> USE GpuAssumption
<1>1. /\ host = "wait" /\ host' = "collect" /\ AllDone(fenceAt) /\ cn1_slices' = Adapted
      /\ UNCHANGED <<stages, auto, ci, from, cmds, failed, stream, fenceAt, running, done, data, out>>
      /\ TypeOK /\ QueueInv /\ DispatchInv /\ DataInv
  BY DEF FenceSignals, Inv, gpuVars
<1>2. cn1_slices' \in 1 .. MaxSlices
  BY <1>1 DEF Adapted, TypeOK
<1>3. TypeOK'
  BY <1>1, <1>2 DEF TypeOK
<1>4. HostInv'
  BY <1>1 DEF HostInv
<1>5. QueueInv'
  <2>1. LeadsTo(stream, Goal) /\ fenceAt = Len(stream)
    BY <1>1 DEF QueueInv
  <2>2. Goal' = Goal
    BY <1>1 DEF Goal
  <2>3. AllDone(Len(stream))'
    BY <1>1, <2>1 DEF AllDone
  <2> QED
    BY <1>1, <2>1, <2>2, <2>3 DEF QueueInv
<1>6. DispatchInv' /\ DataInv'
  <2>1. \A s \in Shards : OnShard(s)' = OnShard(s)
    BY <1>1 DEF OnShard
  <2>2. DispatchInv'
    BY <1>1 DEF DispatchInv, Active
  <2>3. DataInv'
    BY <1>1, <2>1 DEF DataInv, Active
  <2> QED
    BY <2>2, <2>3
<1> QED
  BY <1>3, <1>4, <1>5, <1>6 DEF Inv

\* A lost device has nothing left to do.
LEMMA LostStep ==
    ASSUME Inv, DeviceLost
    PROVE  Inv'
<1> USE GpuAssumption
<1>1. /\ host' = "error" /\ failed' = {"pass"} /\ running' = {} /\ done' = (1 .. Len(stream)) \X Shards
      /\ data' = [s \in Shards |-> Junk]
      /\ UNCHANGED <<stages, cn1_slices, auto, ci, from, cmds, stream, fenceAt, out>>
      /\ TypeOK
  BY DEF DeviceLost, Inv, QueueInv
<1>2. TypeOK'
  BY <1>1 DEF TypeOK, Junk, Hashed
<1> QED
  BY <1>1, <1>2 DEF Inv, HostInv, QueueInv, DispatchInv, DataInv, Active

\* Where the fence has signalled, nothing runs.
LEMMA NothingRuns ==
    ASSUME Inv, host = "collect"
    PROVE  running = {}
<1>1. AllDone(Len(stream)) /\ \A r \in running : <<r.group, r.shard>> \notin done
  BY DEF Inv, QueueInv, DispatchInv, Active
<1>2. running \subseteq [group : 1 .. Len(stream), shard : Shards, sound : BOOLEAN]
  BY DEF Inv, TypeOK
<1> QED
  BY <1>1, <1>2 DEF AllDone

\* The results are collected from an idle GPU.
LEMMA CollectStep ==
    ASSUME Inv, Collect
    PROVE  Inv'
<1> USE GpuAssumption
<1>1. /\ host = "collect" /\ host' = "idle" /\ ci' = 0 /\ from' = 0 /\ cmds' = <<>>
      /\ stream' = <<>> /\ fenceAt' = 0 /\ done' = {}
      /\ UNCHANGED <<stages, cn1_slices, auto, failed, running, data, out>>
      /\ TypeOK /\ running = {}
  BY NothingRuns DEF Collect, Inv
<1>2. /\ cmds' \in Seq(Seq(Groups)) /\ Len(cmds') = 0
      /\ stream' \in Seq(Groups) /\ Len(stream') = 0
  BY <1>1
<1>3. ci' \in 0 .. MaxSlices - 1 /\ from' \in 0 .. Iterations /\ fenceAt' \in 0 .. Len(stream')
  BY <1>1, <1>2
<1>4. TypeOK'
  BY <1>1, <1>2, <1>3 DEF TypeOK
<1> QED
  BY <1>1, <1>4 DEF Inv, HostInv, QueueInv, DispatchInv, DataInv, Active

\* Drop waits until the GPU is idle.
LEMMA DropStep ==
    ASSUME Inv, DropMiner
    PROVE  Inv'
<1>1. /\ host' = "freed" /\ GpuIdle /\ TypeOK
      /\ UNCHANGED <<stages, cn1_slices, auto, ci, from, cmds, failed,
                     stream, fenceAt, running, done, data, out>>
  BY DEF DropMiner, Inv, gpuVars
<1>2. TypeOK'
  BY <1>1 DEF TypeOK
<1>3. GpuIdle'
  BY <1>1 DEF GpuIdle, AllDone
<1> QED
  BY <1>1, <1>2, <1>3 DEF Inv, HostInv, QueueInv, DispatchInv, DataInv, Active

\* Where its wait fails, work is left only of a pass that failed as well.
LEMMA DropAfterFailedWaitStep ==
    ASSUME Inv, DropAfterFailedWait
    PROVE  Inv'
<1>1. /\ host \in {"idle", "error"} /\ host' = "freed" /\ failed' = failed \union {"drop"}
      /\ UNCHANGED <<stages, cn1_slices, auto, ci, from, cmds,
                     stream, fenceAt, running, done, data, out>>
      /\ TypeOK /\ HostInv /\ QueueInv
  BY DEF DropAfterFailedWait, Inv, gpuVars
<1>2. TypeOK'
  BY <1>1 DEF TypeOK
<1>3. ~GpuIdle' => failed' = {"pass", "drop"}
  <2>1. CASE host = "idle"
    BY <1>1, <2>1 DEF HostInv, GpuIdle, AllDone
  <2>2. CASE host = "error"
    BY <1>1, <2>2 DEF QueueInv
  <2> QED
    BY <1>1, <2>1, <2>2
<1> QED
  BY <1>1, <1>2, <1>3 DEF Inv, HostInv, QueueInv, DispatchInv, DataInv, Active

-----------------------------------------------------------------------------
\* The steps of the GPU.

\* The GPU has dispatches only of a pass that was submitted.
LEMMA GpuStepTyped ==
    ASSUME TypeOK, GpuStep
    PROVE  TypeOK'
<1>1. ASSUME NEW k \in 1 .. Len(stream), NEW s \in Shards, StartDispatch(k, s)
      PROVE  TypeOK'
  <2>1. /\ UNCHANGED <<host, stages, cn1_slices, auto, ci, from, cmds, failed, stream, fenceAt, done, out>>
        /\ data' = [data EXCEPT ![s] = Junk]
        /\ running' = running \union {[group |-> k, shard |-> s,
                         sound |-> Finds(stream[k], s) /\ OnShard(s) = {}]}
    BY <1>1 DEF StartDispatch, hostVars
  <2>2. (Finds(stream[k], s) /\ OnShard(s) = {}) \in BOOLEAN
    OBVIOUS
  <2>3. running' \subseteq [group : 1 .. Len(stream), shard : Shards, sound : BOOLEAN]
    <3> DEFINE b == Finds(stream[k], s) /\ OnShard(s) = {}
    <3>1. b \in BOOLEAN
      OBVIOUS
    <3> HIDE DEF b
    <3>2. [group |-> k, shard |-> s, sound |-> b]
            \in [group : 1 .. Len(stream), shard : Shards, sound : BOOLEAN]
      BY <3>1
    <3>3. running' = running \union {[group |-> k, shard |-> s, sound |-> b]}
      BY <2>1 DEF b
    <3> QED
      BY <3>2, <3>3 DEF TypeOK
  <2>4. data' \in [Shards -> Junk .. Hashed]
    BY <2>1, GpuAssumption DEF TypeOK, Junk, Hashed
  <2> QED
    BY <2>1, <2>3, <2>4 DEF TypeOK
<1>2. ASSUME NEW r \in running, FinishDispatch(r) PROVE TypeOK'
  <2>1. /\ UNCHANGED <<host, stages, cn1_slices, auto, ci, from, cmds, failed, stream, fenceAt>>
        /\ running' = running \ {r} /\ done' = done \union {<<r.group, r.shard>>}
        /\ data' = [data EXCEPT ![r.shard] =
                      IF r.sound /\ OnShard(r.shard) = {r} THEN Leaves(stream[r.group]) ELSE Junk]
        /\ out' = IF stream[r.group].kernel = "cn2"
                  THEN [out EXCEPT ![r.shard] = "written"] ELSE out
    BY <1>2 DEF FinishDispatch, hostVars
  <2>2. r.group \in 1 .. Len(stream) /\ r.shard \in Shards
    BY DEF TypeOK
  <2>3. Leaves(stream[r.group]) \in Junk .. Hashed
    <3>1. PICK g \in Groups : g = stream[r.group]
      BY <2>2 DEF TypeOK
    <3>2. Leaves(g) \in Junk .. Hashed
      BY GpuAssumption DEF Groups, Leaves, Junk, Keys, Run, Hashed
    <3> QED
      BY <3>1, <3>2
  <2>4. data' \in [Shards -> Junk .. Hashed]
    BY <2>1, <2>3, GpuAssumption DEF TypeOK, Junk, Hashed
  <2>5. out' \in [Shards -> {"clear", "written"}]
    BY <2>1 DEF TypeOK
  <2>6. /\ running' \subseteq [group : 1 .. Len(stream), shard : Shards, sound : BOOLEAN]
        /\ done' \subseteq (1 .. Len(stream)) \X Shards
    BY <2>1, <2>2 DEF TypeOK
  <2> QED
    BY <2>1, <2>4, <2>5, <2>6 DEF TypeOK
<1> QED
  BY <1>1, <1>2 DEF GpuStep

\* Where everything is done, no dispatch starts; where nothing was submitted,
\* there is none. What is freed under a busy GPU took two failures.
LEMMA StartOnlyActive ==
    ASSUME Inv, NEW k \in 1 .. Len(stream), NEW s \in Shards, <<k, s>> \notin done
    PROVE  /\ host \in {"submit", "wait", "error", "freed"}
           /\ host = "freed" => failed = {"pass", "drop"}
<1>1. ~AllDone(Len(stream)) /\ stream # <<>>
  BY DEF AllDone
<1>2. host \notin {"idle", "record", "collect"}
  BY <1>1 DEF Inv, HostInv, QueueInv
<1>3. host = "freed" => failed = {"pass", "drop"}
  BY <1>1 DEF Inv, QueueInv, GpuIdle
<1> QED
  BY <1>2, <1>3 DEF Inv, TypeOK

\* The dispatch that starts is alone on its shard, behind all earlier groups, and
\* finds what it needs.
LEMMA StartSound ==
    ASSUME Inv, Active, NEW k \in 1 .. Len(stream), NEW s \in Shards, StartDispatch(k, s)
    PROVE  /\ \A j \in 1 .. k - 1, t \in Shards : <<j, t>> \in done
           /\ OnShard(s) = {}
           /\ Finds(stream[k], s)
<1>1. <<k, s>> \notin done /\ (\A r \in OnShard(s) : r.group # k) /\ Ordered(k)
  BY DEF StartDispatch
<1>2. stream \in Seq(Groups) /\ Linked(stream)
  BY QueueLinked
<1>3. \A j \in 1 .. k - 1, t \in Shards : <<j, t>> \in done
  <2>1. CASE k = 1
    BY <2>1
  <2>2. CASE k # 1
    <3>1. stream[k].barrier
      BY <1>2, <2>2 DEF Linked
    <3>2. k \in 1 .. k
      OBVIOUS
    <3> QED
      BY <1>1, <3>1, <3>2 DEF Ordered, AllDone
  <2> QED
    BY <2>1, <2>2
<1>4. OnShard(s) = {}
  <2> SUFFICES ASSUME NEW r \in OnShard(s) PROVE FALSE
    OBVIOUS
  <2>1. r \in running /\ r.shard = s /\ r.group \in 1 .. Len(stream)
    BY DEF OnShard, Inv, TypeOK
  <2>2. /\ <<r.group, s>> \notin done
        /\ \A j \in 1 .. r.group - 1, t \in Shards : <<j, t>> \in done
    BY <2>1 DEF Inv, DispatchInv
  <2>3. ~(r.group < k)
    BY <1>3, <2>1, <2>2
  <2>4. ~(r.group > k)
    BY <1>1, <2>1, <2>2
  <2> QED
    BY <1>1, <2>1, <2>3, <2>4
<1>5. Finds(stream[k], s)
  <2>1. CASE k = 1
    BY <1>2, <2>1 DEF Linked, Finds
  <2>2. CASE k # 1
    <3>1. /\ stream[k].kernel # "cn0" /\ Needs(stream[k]) = Leaves(stream[k - 1])
          /\ stream[k] \in Groups
      BY <1>2, <2>2 DEF Linked
    <3>2. data[s] = Leaves(stream[k - 1])
      <4>1. k - 1 \in 1 .. Len(stream) /\ <<k - 1, s>> \in done /\ (k - 1) + 1 = k
        BY <1>3, <2>2
      <4> QED
        BY <1>1, <1>4, <4>1 DEF Inv, DataInv
    <3>3. PICK g \in Groups : g = stream[k]
      BY <3>1
    <3>4. g.kernel \in {"cn00", "cn1", "cn2"}
      BY <3>1, <3>3 DEF Groups
    <3>5. data[s] = Needs(g)
      BY <3>1, <3>2, <3>3
    <3>6. Finds(g, s)
      BY <3>4, <3>5 DEF Needs, Finds
    <3> QED
      BY <3>3, <3>6
  <2> QED
    BY <2>1, <2>2
<1> QED
  BY <1>3, <1>4, <1>5

\* A dispatch starts.
LEMMA StartStep ==
    ASSUME Inv, NEW k \in 1 .. Len(stream), NEW s \in Shards, StartDispatch(k, s)
    PROVE  Inv'
<1>1. /\ UNCHANGED <<host, stages, cn1_slices, auto, ci, from, cmds, failed, stream, fenceAt, done, out>>
      /\ data' = [data EXCEPT ![s] = Junk]
      /\ <<k, s>> \notin done
      /\ TypeOK /\ HostInv /\ QueueInv /\ DispatchInv /\ DataInv
  BY DEF StartDispatch, hostVars, Inv
<1>2. TypeOK'
  <2>1. GpuStep
    BY DEF GpuStep
  <2> QED
    BY <1>1, <2>1, GpuStepTyped
<1>3. /\ host \in {"submit", "wait", "error", "freed"}
      /\ host = "freed" => failed = {"pass", "drop"}
  BY <1>1, StartOnlyActive
<1>4. HostInv'
  <2>1. Slices' = Slices /\ \A i : Buffer(i)' = Buffer(i)
    BY <1>1, CutUnchanged
  <2> QED
    BY <1>1, <1>3, <2>1 DEF HostInv
<1>5. QueueInv'
  <2>1. Reached(stream, ci)' = Reached(stream, ci) /\ Goal' = Goal
    BY <1>1, ReachedUnchanged, CutUnchanged
  <2> QED
    BY <1>1, <1>3, <2>1 DEF QueueInv
<1>6. CASE ~Active
  BY <1>1, <1>2, <1>4, <1>5, <1>6 DEF Inv, DispatchInv, DataInv, Active
<1>7. CASE Active
  <2>1. /\ \A j \in 1 .. k - 1, t \in Shards : <<j, t>> \in done
        /\ OnShard(s) = {} /\ Finds(stream[k], s)
    BY <1>7, StartSound
  <2>2. PICK n : /\ running' = running \union {n}
                 /\ n.group = k /\ n.shard = s /\ n.sound
    <3> DEFINE n == [group |-> k, shard |-> s, sound |-> TRUE]
    <3>1. (Finds(stream[k], s) /\ OnShard(s) = {}) = TRUE
      BY <2>1
    <3>2. running' = running \union {n}
      BY <3>1 DEF StartDispatch
    <3>3. n.group = k /\ n.shard = s /\ n.sound
      OBVIOUS
    <3> QED
      BY <3>2, <3>3
  <2>3. \A r \in running : r.shard # s
    BY <2>1 DEF OnShard
  <2>4. DispatchInv'
    <3>1. \A r \in running' :
            /\ r.sound
            /\ <<r.group, r.shard>> \notin done
            /\ \A j \in 1 .. r.group - 1, t \in Shards : <<j, t>> \in done
      BY <1>1, <1>7, <2>1, <2>2 DEF DispatchInv
    <3>2. \A r1, r2 \in running' : r1.shard = r2.shard => r1 = r2
      BY <1>1, <1>7, <2>2, <2>3 DEF DispatchInv
    <3> QED
      BY <1>1, <1>7, <3>1, <3>2 DEF DispatchInv, Active
  <2>5. DataInv'
    <3>1. OnShard(s)' # {}
      BY <2>2 DEF OnShard
    <3>2. \A t \in Shards \ {s} : OnShard(t)' = OnShard(t) /\ data'[t] = data[t]
      BY <1>1, <2>2 DEF OnShard, TypeOK
    <3>3. \A t \in Shards, m \in 1 .. Len(stream) :
            <<m, t>> \in done /\ <<m + 1, t>> \notin done /\ OnShard(t)' = {} =>
              data'[t] = Leaves(stream[m])
      BY <1>1, <1>7, <3>1, <3>2 DEF DataInv
    <3> QED
      BY <1>1, <1>7, <3>3 DEF DataInv, Active
  <2> QED
    BY <1>2, <1>4, <1>5, <2>4, <2>5 DEF Inv
<1> QED
  BY <1>6, <1>7

\* A dispatch ends.
LEMMA FinishStep ==
    ASSUME Inv, NEW r \in running, FinishDispatch(r)
    PROVE  Inv'
<1>1. /\ UNCHANGED <<host, stages, cn1_slices, auto, ci, from, cmds, failed, stream, fenceAt>>
      /\ running' = running \ {r} /\ done' = done \union {<<r.group, r.shard>>}
      /\ data' = [data EXCEPT ![r.shard] =
                    IF r.sound /\ OnShard(r.shard) = {r} THEN Leaves(stream[r.group]) ELSE Junk]
      /\ out' = IF stream[r.group].kernel = "cn2"
                THEN [out EXCEPT ![r.shard] = "written"] ELSE out
      /\ TypeOK /\ HostInv /\ QueueInv /\ DispatchInv /\ DataInv
  BY DEF FinishDispatch, hostVars, Inv
<1>2. TypeOK'
  <2>1. GpuStep
    BY DEF GpuStep
  <2> QED
    BY <1>1, <2>1, GpuStepTyped
<1>3. /\ host \in {"submit", "wait", "error", "freed"}
      /\ host = "freed" => failed = {"pass", "drop"}
  <2>1. host \notin {"idle", "record"} /\ (host = "freed" => failed = {"pass", "drop"})
    BY <1>1 DEF HostInv, QueueInv, GpuIdle
  <2>2. host # "collect"
    BY NothingRuns
  <2> QED
    BY <1>1, <2>1, <2>2 DEF TypeOK
<1>4. HostInv'
  <2>1. Slices' = Slices /\ \A i : Buffer(i)' = Buffer(i)
    BY <1>1, CutUnchanged
  <2> QED
    BY <1>1, <1>3, <2>1 DEF HostInv
<1>5. QueueInv'
  <2>1. Reached(stream, ci)' = Reached(stream, ci) /\ Goal' = Goal
    BY <1>1, ReachedUnchanged, CutUnchanged
  <2> QED
    BY <1>1, <1>3, <2>1 DEF QueueInv
<1>6. CASE ~Active
  BY <1>1, <1>2, <1>4, <1>5, <1>6 DEF Inv, DispatchInv, DataInv, Active
<1>7. CASE Active
  <2> DEFINE k == r.group
             s == r.shard
  <2>1. /\ k \in 1 .. Len(stream) /\ s \in Shards /\ r.sound
        /\ <<k, s>> \notin done
        /\ \A j \in 1 .. k - 1, t \in Shards : <<j, t>> \in done
        /\ \A q \in running : q.shard = s => q = r
    BY <1>1, <1>7 DEF DispatchInv, TypeOK
  <2>2. done \subseteq (1 .. Len(stream)) \X Shards
        /\ \A m \in 1 .. Len(stream), t \in Shards : <<m, t>> \in done =>
             \A j \in 1 .. m - 1, u \in Shards : <<j, u>> \in done
    BY <1>1, <1>7 DEF DispatchInv, TypeOK
  <2>3. DispatchInv'
    <3>1. \A q \in running' :
            /\ q.sound
            /\ <<q.group, q.shard>> \notin done'
            /\ \A j \in 1 .. q.group - 1, t \in Shards : <<j, t>> \in done'
      BY <1>1, <1>7, <2>1 DEF DispatchInv
    <3>2. \A m \in 1 .. Len(stream), t \in Shards : <<m, t>> \in done' =>
            \A j \in 1 .. m - 1, u \in Shards : <<j, u>> \in done'
      BY <1>1, <2>1, <2>2
    <3>3. \A q1, q2 \in running' : q1.shard = q2.shard => q1 = q2
      BY <1>1, <1>7 DEF DispatchInv
    <3> QED
      BY <1>1, <3>1, <3>2, <3>3 DEF DispatchInv
  <2>4. OnShard(s) = {r}
    BY <2>1 DEF OnShard
  <2>5. data'[s] = Leaves(stream[k]) /\ \A t \in Shards \ {s} : data'[t] = data[t]
    BY <1>1, <2>1, <2>4 DEF TypeOK
  <2>6. ASSUME NEW t \in Shards, NEW m \in 1 .. Len(stream),
               <<m, t>> \in done', <<m + 1, t>> \notin done', OnShard(t)' = {}
        PROVE  data'[t] = Leaves(stream[m])
    <3>1. CASE t # s
      <4>1. OnShard(t)' = OnShard(t)
        BY <1>1, <3>1 DEF OnShard
      <4>2. <<m, t>> \in done /\ <<m + 1, t>> \notin done
        BY <1>1, <2>6, <3>1
      <4> QED
        BY <1>1, <1>7, <2>5, <2>6, <3>1, <4>1, <4>2 DEF DataInv
    <3>2. CASE t = s
      <4>1. ~(m < k)
        <5>1. ASSUME m < k PROVE FALSE
          <6>1. m + 1 \in 1 .. k - 1 \/ m + 1 = k
            BY <2>1, <5>1
          <6>2. <<m + 1, t>> \in done'
            BY <1>1, <2>1, <3>2, <6>1
          <6> QED
            BY <2>6, <6>2
        <5> QED
          BY <5>1
      <4>2. ~(m > k)
        <5>1. ASSUME m > k PROVE FALSE
          <6>1. <<m, t>> \in done
            BY <1>1, <2>6, <3>2, <5>1
          <6>2. k \in 1 .. m - 1
            BY <2>1, <5>1
          <6>3. <<k, s>> \in done
            BY <2>1, <2>2, <6>1, <6>2
          <6> QED
            BY <2>1, <6>3
        <5> QED
          BY <5>1
      <4>3. m = k
        BY <2>1, <4>1, <4>2
      <4> QED
        BY <2>5, <3>2, <4>3
    <3> QED
      BY <3>1, <3>2
  <2>7. ASSUME NEW t \in Shards
        PROVE  out'[t] = "written" <=>
                 \E m \in 1 .. Len(stream) : <<m, t>> \in done' /\ stream[m].kernel = "cn2"
    <3>1. out[t] = "written" <=>
            \E m \in 1 .. Len(stream) : <<m, t>> \in done /\ stream[m].kernel = "cn2"
      BY <1>1, <1>7 DEF DataInv
    <3>2. CASE t # s \/ stream[k].kernel # "cn2"
      <4>1. out'[t] = out[t]
        BY <1>1, <2>1, <3>2 DEF TypeOK
      <4>2. \A m \in 1 .. Len(stream) : stream[m].kernel = "cn2" =>
              (<<m, t>> \in done' <=> <<m, t>> \in done)
        BY <1>1, <3>2
      <4> QED
        BY <3>1, <4>1, <4>2
    <3>3. CASE t = s /\ stream[k].kernel = "cn2"
      <4>1. out'[t] = "written" /\ <<k, t>> \in done'
        BY <1>1, <2>1, <3>3 DEF TypeOK
      <4> QED
        BY <2>1, <3>3, <4>1
    <3> QED
      BY <3>2, <3>3
  <2>8. DataInv'
    BY <1>1, <2>6, <2>7 DEF DataInv
  <2> QED
    BY <1>2, <1>4, <1>5, <2>3, <2>8 DEF Inv
<1> QED
  BY <1>6, <1>7

-----------------------------------------------------------------------------
\* A step that changes nothing changes no part of the invariant.
LEMMA StutterStep ==
    ASSUME Inv, UNCHANGED vars
    PROVE  Inv'
<1>1. /\ UNCHANGED <<host, stages, cn1_slices, auto, ci, from, cmds, failed>>
      /\ UNCHANGED <<stream, fenceAt, running, done, data, out>>
      /\ TypeOK /\ HostInv /\ QueueInv /\ DispatchInv /\ DataInv
  BY DEF vars, hostVars, gpuVars, Inv
<1>2. Slices' = Slices /\ Goal' = Goal /\ \A i : Before(i)' = Before(i) /\ Buffer(i)' = Buffer(i)
  BY <1>1, CutUnchanged
<1>3. Reached(stream, ci)' = Reached(stream, ci)
  BY <1>1, ReachedUnchanged
<1>4. TypeOK'
  BY <1>1 DEF TypeOK
<1>5. HostInv'
  <2>1. Before(ci)' = Before(ci)
    BY <1>1 DEF Before, BaseCount, Extra, Slices
  <2> QED
    BY <1>1, <1>2, <2>1 DEF HostInv
<1>6. QueueInv'
  BY <1>1, <1>2, <1>3 DEF QueueInv, AllDone, GpuIdle
<1>7. DispatchInv' /\ DataInv'
  BY <1>1 DEF DispatchInv, DataInv, Active, OnShard
<1> QED
  BY <1>4, <1>5, <1>6, <1>7 DEF Inv

\* The invariant holds in every reachable state.
THEOREM Inductive == Spec => []Inv
<1>1. Inv /\ [Next]_vars => Inv'
  <2> SUFFICES ASSUME Inv, [Next]_vars PROVE Inv'
    OBVIOUS
  <2>1. CASE HostWork
    BY <2>1, BeginStep, RecordStep, SubmitStep, FenceStep, CollectStep DEF HostWork
  <2>2. CASE CallFails \/ DeviceLost \/ DropMiner \/ DropAfterFailedWait
    BY <2>2, FailStep, LostStep, DropStep, DropAfterFailedWaitStep
  <2>3. CASE GpuStep
    BY <2>3, StartStep, FinishStep DEF GpuStep
  <2>4. CASE UNCHANGED vars
    BY <2>4, StutterStep
  <2> QED
    BY <2>1, <2>2, <2>3, <2>4 DEF Next
<1> QED
  BY InitInv, <1>1, PTL DEF Spec

\* Every variable keeps its type; the slices stay within their limit, and the
\* groups within the iterations.
THEOREM TypeCorrect == Spec => []TypeOK
<1>1. Inv => TypeOK
  BY DEF Inv
<1> QED
  BY Inductive, <1>1, PTL

\* However the dispatches overlap, nothing that was submitted is left on the GPU
\* while the host writes, reads or records, whatever failed before; and buffers
\* are freed under a busy GPU only after a failed pass and a failed wait of Drop:
\* for all shards, slice counts and iterations.
THEOREM BuffersOwned == Spec => []HostOwns
<1>1. ASSUME Inv PROVE HostOwns
  <2>1. CASE host \in {"idle", "record"}
    BY <1>1, <2>1 DEF Inv, HostInv, HostOwns, GpuIdle, AllDone
  <2>2. CASE host = "collect"
    BY <1>1, <2>2, NothingRuns DEF Inv, QueueInv, HostOwns, GpuIdle
  <2>3. CASE host = "freed"
    BY <1>1, <2>3 DEF Inv, QueueInv, HostOwns
  <2> QED
    BY <2>1, <2>2, <2>3 DEF HostOwns
<1> QED
  BY Inductive, <1>1, PTL

\* What run_stages collects is complete: on every shard all stages ran, and the
\* slices of cn1 together exactly its iterations, each once and in order.
THEOREM PassComplete == Spec => []ResultsComplete
<1>1. ASSUME Inv PROVE ResultsComplete
  <2> SUFFICES ASSUME host = "collect", NEW s \in Shards
               PROVE  data[s] = Goal /\ (out[s] = "written" <=> stages = 4)
    BY DEF ResultsComplete
  <2> DEFINE n == Len(stream)
  <2>1. LeadsTo(stream, Goal) /\ AllDone(n) /\ running = {} /\ TypeOK /\ DataInv
    BY <1>1, NothingRuns DEF Inv, QueueInv
  <2>2. n \in 1 .. n /\ n \in Nat /\ <<n, s>> \in done /\ <<n + 1, s>> \notin done
    BY <2>1 DEF LeadsTo, AllDone, TypeOK
  <2>3. OnShard(s) = {}
    BY <2>1 DEF OnShard
  <2>4. data[s] = Goal
    BY <2>1, <2>2, <2>3 DEF DataInv, Active, LeadsTo
  <2>5. out[s] = "written" <=> \E k \in 1 .. n : stream[k].kernel = "cn2"
    BY <2>1 DEF DataInv, Active, AllDone
  <2>6. out[s] = "written" <=> Goal = Hashed
    BY <2>1, <2>2, <2>5 DEF LeadsTo
  <2>7. Goal = Hashed <=> stages = 4
    BY <2>1, GpuAssumption DEF Goal, TypeOK, Keys, Run, Hashed
  <2> QED
    BY <2>4, <2>6, <2>7
<1> QED
  BY Inductive, <1>1, PTL
=============================================================================
