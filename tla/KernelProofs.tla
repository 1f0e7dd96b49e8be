---------------------------- MODULE KernelProofs ----------------------------
(***************************************************************************)
(* Theorems about cn1.comp and cn2.comp: for every number of hashes, size  *)
(* of a scratchpad, number of iterations and their slices, for every order *)
(* of the waves, what the workgroup leaves is what the CPU reference       *)
(* computes, provided that the lanes of a hash share a wave of cn1.        *)
(***************************************************************************)
EXTENDS Cn2Group, CountingProofs

-----------------------------------------------------------------------------
\* A product and a sum stay within what is below.
LEMMA Within ==
    ASSUME NEW b \in Nat, NEW h \in Nat, NEW n \in Nat, h < n, NEW x \in 0 .. b - 1
    PROVE  b * h + x \in 0 .. b * n - 1
<1>1. h + 1 <= n
  OBVIOUS
<1>2. b * (h + 1) <= b * n
  BY <1>1
<1> QED
  BY <1>2

\* The lanes of a hash are in one wave, whatever multiple of 16 its size is.
LEMMA OneWave ==
    ASSUME NEW u \in Nat \ {0}, u % 16 = 0, NEW h \in Nat, NEW t \in Lanes
    PROVE  (16 * h + t) \div u = (16 * h) \div u
<1>1. PICK v \in Nat : u = 16 * v /\ v # 0
  <2>1. u = 16 * (u \div 16) /\ u \div 16 \in Nat /\ u \div 16 # 0
    OBVIOUS
  <2> QED
    BY <2>1
<1>2. PICK q \in Nat, r \in 0 .. v - 1 : h = v * q + r
  <2>1. h \div v \in Nat /\ h % v \in 0 .. v - 1 /\ h = v * (h \div v) + (h % v)
    BY <1>1
  <2> QED
    BY <2>1
<1>3. 16 * h = u * q + 16 * r
  <2>1. 16 * (v * q) = (16 * v) * q
    OBVIOUS
  <2> QED
    BY <1>1, <1>2, <2>1
<1>4. t \in 0 .. 15
  BY DEF Lanes
<1>5. 16 * r + t \in 0 .. u - 1 /\ 16 * r \in 0 .. u - 1
  BY <1>1, <1>4
<1>6. PICK a \in 0 .. u - 1, b \in 0 .. u - 1 : a = 16 * r + t /\ b = 16 * r
  BY <1>5
<1>7. (u * q + a) \div u = q /\ (u * q + b) \div u = q
  BY DivIs
<1>8. u * q \in Nat
  OBVIOUS
<1>9. 16 * h + t = u * q + a /\ 16 * h = u * q + b
  BY <1>3, <1>4, <1>6, <1>8
<1> QED
  BY <1>7, <1>9, Zenon

-----------------------------------------------------------------------------
\* Words are words again.
LEMMA WordTypes ==
    /\ Values \subseteq Nat
    /\ 0 \in Values
    /\ \A a, b \in Values : Xor(a, b) \in Values /\ Add(a, b) \in Values
<1>1. Modulus \in Nat \ {0}
  BY ReferenceAssumption
<1>2. \A a \in Int : a % Modulus \in Values
  <2> SUFFICES ASSUME NEW a \in Int PROVE a % Modulus \in Values
    OBVIOUS
  <2>1. a % Modulus \in 0 .. Modulus - 1
    BY <1>1
  <2> QED
    BY <2>1 DEF Values
<1>3. \A a, b \in Values : a * a + b * b + 1 \in Int
  BY <1>1 DEF Values
<1> QED
  BY <1>1, <1>2, <1>3 DEF Values, Xor, Add

\* The places that single_compute looks up are four.
LEMMA LookPlaces == \A i \in 1 .. 64 : CnLook[i] \in 0 .. 3
  BY DEF CnLook

-----------------------------------------------------------------------------
\* What an iteration has computed after each of its substeps.
SharedPlaces == 0 .. 63       \* the words that the lanes of a hash share
Tmp(r) == [t \in Lanes |-> r.pad[Spot(r.s, t)]]
Mixes(r) == [t \in Lanes |-> Compute(t, LookedUp(Tmp(r), 0, t), r.vs)]
Out1(r) == [w \in SharedPlaces |-> Mixes(r)[w \div 4].out[w % 4]]
Va1(r) == [w \in SharedPlaces |-> Mixes(r)[w \div 4].va[w % 4]]
Folded(r) == [t \in Lanes |-> XorOf4(Out1(r), Block(t), 4)]
Out2(r) == [w \in SharedPlaces |-> IF w \in Lanes THEN Folded(r)[w] ELSE Out1(r)[w]]
Va2(r) == [w \in SharedPlaces |-> IF w \in Lanes THEN SumOf4(Va1(r), Block(w)) ELSE Va1(r)[w]]
Sums(r) == [t \in Lanes |-> SumOf4(Va2(r), Block(t))]
Out3(r) == [t \in Lanes |-> Xor(XorOf4(Out2(r), t, 4), ToInt(Sums(r)[t]))]
PadAfter(r) == [w \in DOMAIN r.pad |->
                  IF w \div 16 = r.s % Lines THEN Xor(Folded(r)[w % 16], Tmp(r)[w % 16])
                                             ELSE r.pad[w]]

LEMMA IterateIs ==
    ASSUME NEW r
    PROVE  Iterate(r) = [s |-> XorOf4(Out3(r), 0, 1),
                         vs |-> [i \in 0 .. 3 |-> Rescale(Sums(r)[i])],
                         pad |-> PadAfter(r)]
  BY DEF Iterate, Tmp, Mixes, Out1, Va1, Folded, Out2, Va2, Sums, Out3, PadAfter, SharedPlaces

\* A lane computes words from words.
Words4 == [0 .. 3 -> Values]
ComputesWords ==
    \A t \in Lanes, slots \in [0 .. 3 -> Words4], vs \in Words4 :
        Compute(t, slots, vs) \in [out : Words4, va : Words4]
LoopState == [s : Nat, vs : Words4, pad : [0 .. PadWords - 1 -> Values]]

\* The words of a line, and of a block.
LEMMA SpotIn ==
    ASSUME NEW s \in Nat, NEW t \in Lanes
    PROVE  /\ s % Lines \in 0 .. Lines - 1
           /\ Spot(s, t) = 16 * (s % Lines) + t
           /\ Spot(s, t) \in 0 .. PadWords - 1
<1>1. Lines \in Nat \ {0} /\ t \in 0 .. 15
  BY ReferenceAssumption DEF Lanes
<1>2. s % Lines \in 0 .. Lines - 1
  BY <1>1
<1>3. PICK n \in 0 .. Lines - 1 : n = s % Lines
  BY <1>2
<1>4. (t \div 4) * 4 + (t % 4) = t /\ t \div 4 \in Nat /\ t % 4 \in Nat
  BY <1>1
<1>5. Spot(s, t) = n * 16 + (t \div 4) * 4 + (t % 4)
  BY <1>3 DEF Spot
<1>6. Spot(s, t) = 16 * n + t
  BY <1>3, <1>4, <1>5
<1>7. 16 * n + t \in 0 .. 16 * Lines - 1
  BY <1>1, <1>3
<1>8. Spot(s, t) = 16 * (s % Lines) + t
  BY <1>3, <1>6
<1>9. Spot(s, t) \in 0 .. PadWords - 1
  BY <1>6, <1>7 DEF PadWords
<1> QED
  BY <1>2, <1>8, <1>9

LEMMA BlockIn ==
    ASSUME NEW t \in Lanes
    PROVE  /\ Block(t) \in Nat /\ \A k \in 0 .. 3 : Block(t) + 4 * k \in SharedPlaces
           /\ \A k \in 0 .. 3 : t + 4 * k \in SharedPlaces
<1>1. t \in 0 .. 15
  BY DEF Lanes
<1>2. Block(t) = (t \div 4) * 16 + (t % 4) /\ t \div 4 \in 0 .. 3 /\ t % 4 \in 0 .. 3
  BY <1>1 DEF Block
<1> QED
  BY <1>1, <1>2 DEF SharedPlaces

\* Four words of a memory and their sum are words.
LEMMA FourWords ==
    ASSUME NEW D, NEW mem \in [D -> Values], NEW b \in Nat, NEW n \in {1, 4},
           \A k \in 0 .. 3 : b + n * k \in D
    PROVE  /\ XorOf4(mem, b, n) \in Values
           /\ n = 4 => SumOf4(mem, b) \in Values
<1>1. b + 0 * n = b /\ b + 1 * n = b + n /\ b + 2 * n \in Nat /\ b + 3 * n \in Nat
  OBVIOUS
<1>2. b \in D /\ b + n \in D /\ b + 2 * n \in D /\ b + 3 * n \in D
  <2>1. /\ b + n * 0 = b /\ b + n * 1 = b + n /\ b + n * 2 = b + 2 * n /\ b + n * 3 = b + 3 * n
    OBVIOUS
  <2>2. b + n * 0 \in D /\ b + n * 1 \in D /\ b + n * 2 \in D /\ b + n * 3 \in D
    OBVIOUS
  <2> QED
    BY <2>1, <2>2
<1>3. mem[b] \in Values /\ mem[b + n] \in Values /\ mem[b + 2 * n] \in Values /\ mem[b + 3 * n] \in Values
  BY <1>2
<1>4. XorOf4(mem, b, n) \in Values
  <2>1. \A x, y \in Values : Xor(x, y) \in Values
    BY WordTypes
  <2>2. \A x, y, z, v \in Values : Xor(Xor(Xor(x, y), z), v) \in Values
    BY <2>1
  <2> QED
    BY <1>3, <2>2, Zenon DEF XorOf4
<1>5. ASSUME n = 4 PROVE SumOf4(mem, b) \in Values
  <2>1. mem[b + 4] \in Values /\ mem[b + 8] \in Values /\ mem[b + 12] \in Values
    BY <1>3, <1>5
  <2>2. Add(mem[b], mem[b + 4]) \in Values /\ Add(mem[b + 8], mem[b + 12]) \in Values
    BY <1>3, <2>1, WordTypes
  <2> QED
    BY <2>2, WordTypes DEF SumOf4
<1> QED
  BY <1>4, <1>5

\* What a lane looks up are four times four words of its memory.
LEMMA LookedUpIs ==
    ASSUME NEW D, NEW mem, NEW b \in Nat, NEW t \in Lanes, NEW line \in [Lanes -> Values],
           \A x \in Lanes : mem[b + x] = line[x]
    PROVE  /\ LookedUp(mem, b, t) = LookedUp(line, 0, t)
           /\ LookedUp(line, 0, t) \in [0 .. 3 -> Words4]
<1>1. t \in 0 .. 15
  BY DEF Lanes
<1>2. \A k \in 0 .. 3 : CnLook[4 * t + k + 1] \in 0 .. 3
  BY <1>1, LookPlaces
<1>3. \A j \in 0 .. 3, i \in 0 .. 3 : 4 * j + i \in Lanes
  BY DEF Lanes
<1>4. \A j \in 0 .. 3 : Slot(mem, b, j) = Slot(line, 0, j) /\ Slot(line, 0, j) \in Words4
  <2> SUFFICES ASSUME NEW j \in 0 .. 3
               PROVE  Slot(mem, b, j) = Slot(line, 0, j) /\ Slot(line, 0, j) \in Words4
    OBVIOUS
  <2>1. \A i \in 0 .. 3 : /\ b + 4 * j + i = b + (4 * j + i) /\ 0 + 4 * j + i = 4 * j + i
                          /\ 4 * j + i \in Lanes
    BY <1>3
  <2>2. \A i \in 0 .. 3 : mem[b + 4 * j + i] = line[0 + 4 * j + i] /\ line[0 + 4 * j + i] \in Values
    BY <2>1
  <2> QED
    BY <2>2 DEF Slot, Words4
<1> QED
  BY <1>2, <1>4 DEF LookedUp

\* Every substep leaves words, so an iteration leaves a state of the loop.
LEMMA StagesTyped ==
    ASSUME ComputesWords, NEW r \in LoopState
    PROVE  /\ Tmp(r) \in [Lanes -> Values]
           /\ Mixes(r) \in [Lanes -> [out : Words4, va : Words4]]
           /\ Out1(r) \in [SharedPlaces -> Values] /\ Va1(r) \in [SharedPlaces -> Values]
           /\ Folded(r) \in [Lanes -> Values]
           /\ Out2(r) \in [SharedPlaces -> Values] /\ Va2(r) \in [SharedPlaces -> Values]
           /\ Sums(r) \in [Lanes -> Values]
           /\ Out3(r) \in [Lanes -> Values]
           /\ PadAfter(r) \in [0 .. PadWords - 1 -> Values]
           /\ Iterate(r) \in LoopState
<1>1. r.s \in Nat /\ r.vs \in Words4 /\ r.pad \in [0 .. PadWords - 1 -> Values]
  BY DEF LoopState
<1>2. Tmp(r) \in [Lanes -> Values]
  <2>1. \A t \in Lanes : r.pad[Spot(r.s, t)] \in Values
    BY <1>1, SpotIn
  <2> QED
    BY <2>1 DEF Tmp
<1>3. Mixes(r) \in [Lanes -> [out : Words4, va : Words4]]
  <2>1. \A t \in Lanes : LookedUp(Tmp(r), 0, t) \in [0 .. 3 -> Words4]
    <3> SUFFICES ASSUME NEW t \in Lanes PROVE LookedUp(Tmp(r), 0, t) \in [0 .. 3 -> Words4]
      OBVIOUS
    <3>1. \A x \in Lanes : Tmp(r)[0 + x] = Tmp(r)[x]
      BY DEF Lanes
    <3> QED
      BY <1>2, <3>1, LookedUpIs
  <2>2. \A t \in Lanes : Compute(t, LookedUp(Tmp(r), 0, t), r.vs) \in [out : Words4, va : Words4]
    BY <1>1, <2>1 DEF ComputesWords
  <2> QED
    BY <2>2 DEF Mixes
<1>4. Out1(r) \in [SharedPlaces -> Values] /\ Va1(r) \in [SharedPlaces -> Values]
  <2>1. \A w \in SharedPlaces : w \div 4 \in Lanes /\ w % 4 \in 0 .. 3
    BY DEF Lanes, SharedPlaces
  <2>2. \A w \in SharedPlaces : /\ Mixes(r)[w \div 4].out[w % 4] \in Values
                           /\ Mixes(r)[w \div 4].va[w % 4] \in Values
    BY <1>3, <2>1 DEF Words4
  <2> QED
    BY <2>2 DEF Out1, Va1
<1>5. Folded(r) \in [Lanes -> Values]
  <2>1. \A t \in Lanes : XorOf4(Out1(r), Block(t), 4) \in Values
    BY <1>4, BlockIn, FourWords
  <2> QED
    BY <2>1 DEF Folded
<1>6. Out2(r) \in [SharedPlaces -> Values] /\ Va2(r) \in [SharedPlaces -> Values]
  <2>1. \A t \in Lanes : SumOf4(Va1(r), Block(t)) \in Values
    BY <1>4, BlockIn, FourWords
  <2> QED
    BY <1>4, <1>5, <2>1 DEF Out2, Va2
<1>7. Sums(r) \in [Lanes -> Values]
  <2>1. \A t \in Lanes : SumOf4(Va2(r), Block(t)) \in Values
    BY <1>6, BlockIn, FourWords
  <2> QED
    BY <2>1 DEF Sums
<1>8. Out3(r) \in [Lanes -> Values]
  <2> SUFFICES ASSUME NEW t \in Lanes
               PROVE  Xor(XorOf4(Out2(r), t, 4), ToInt(Sums(r)[t])) \in Values
    BY DEF Out3
  <2>1. t \in Nat /\ \A k \in 0 .. 3 : t + 4 * k \in SharedPlaces
    BY BlockIn DEF Lanes
  <2>2. XorOf4(Out2(r), t, 4) \in Values
    BY <1>6, <2>1, FourWords
  <2>3. ToInt(Sums(r)[t]) \in Values
    BY <1>7, WordsAssumption
  <2> QED
    BY <2>2, <2>3, WordTypes
<1>9. PadAfter(r) \in [0 .. PadWords - 1 -> Values]
  <2>1. DOMAIN r.pad = 0 .. PadWords - 1 /\ PadWords \in Nat
    BY <1>1, ReferenceAssumption DEF PadWords
  <2>2. \A w \in 0 .. PadWords - 1 : w % 16 \in Lanes
    BY <2>1 DEF Lanes
  <2>3. \A x, y \in Values : Xor(x, y) \in Values
    BY WordTypes
  <2> QED
    BY <1>1, <1>2, <1>5, <2>1, <2>2, <2>3 DEF PadAfter
<1>10. XorOf4(Out3(r), 0, 1) \in Nat
  <2>1. \A k \in 0 .. 3 : 0 + 1 * k \in Lanes
    BY DEF Lanes
  <2> QED
    BY <1>8, <2>1, FourWords, WordTypes
<1>11. [i \in 0 .. 3 |-> Rescale(Sums(r)[i])] \in Words4
  <2>1. \A i \in 0 .. 3 : Sums(r)[i] \in Values
    BY <1>7 DEF Lanes
  <2> QED
    BY <2>1, WordsAssumption DEF Words4
<1>12. Iterate(r) \in LoopState
  BY <1>9, <1>10, <1>11, IterateIs DEF LoopState
<1> QED
  BY <1>2, <1>3, <1>4, <1>5, <1>6, <1>7, <1>8, <1>9, <1>12

-----------------------------------------------------------------------------
\* The recursions of the reference are well-founded: each is what it says.
LEMMA RoundsFound ==
    /\ Rounds[0] = [h \in Hashes |-> Begun(h)]
    /\ \A n \in 1 .. Iterations : Rounds[n] = [h \in Hashes |-> Iterate(Rounds[n - 1][h])]
<1> DEFINE At(g, n) == IF n = 0 THEN [h \in Hashes |-> Begun(h)]
                       ELSE [h \in Hashes |-> Iterate(g[n - 1][h])]
           S == {m \in 0 .. Iterations : \E g : g = [n \in 0 .. m |-> At(g, n)]}
<1>1. Iterations \in Nat
  BY ReferenceAssumption
<1>2. \A m \in 0 .. Iterations : m \in S <=> \E g : g = [n \in 0 .. m |-> At(g, n)]
  BY Zenon
<1>3. Rounds = CHOOSE g : g = [n \in 0 .. Iterations |-> At(g, n)]
  BY DEF Rounds
<1>4. \A g, f, n : (n # 0 => g[n - 1] = f[n - 1]) => At(g, n) = At(f, n)
  OBVIOUS
<1>5. \A g : /\ At(g, 0) = [h \in Hashes |-> Begun(h)]
             /\ \A n \in 1 .. Iterations : At(g, n) = [h \in Hashes |-> Iterate(g[n - 1][h])]
  BY <1>1
<1> HIDE DEF At, S
<1>6. 0 \in S
  <2>1. PICK g : g = [n \in 0 .. 0 |-> At(<<>>, n)]
    OBVIOUS
  <2>2. \A n \in 0 .. 0 : At(<<>>, n) = At(g, n)
    BY <1>4
  <2>3. g = [n \in 0 .. 0 |-> At(g, n)]
    BY <2>1, <2>2
  <2>4. 0 \in 0 .. Iterations
    BY <1>1
  <2> QED
    BY <1>2, <2>3, <2>4, Zenon
<1>7. ASSUME NEW m \in 1 .. Iterations, m - 1 \in S PROVE m \in S
  <2>1. m - 1 \in 0 .. Iterations /\ m \in 0 .. Iterations
    BY <1>1
  <2>2. PICK g : g = [n \in 0 .. m - 1 |-> At(g, n)]
    BY <1>2, <1>7, <2>1, Zenon
  <2>3. PICK f : f = [n \in 0 .. m |-> IF n = m THEN At(g, m) ELSE g[n]]
    OBVIOUS
  <2>4. ASSUME NEW n \in 0 .. m PROVE f[n] = At(f, n)
    <3>1. n # 0 => n - 1 \in 0 .. m /\ n - 1 # m
      OBVIOUS
    <3>2. n # 0 => g[n - 1] = f[n - 1]
      BY <2>3, <3>1
    <3>3. At(g, n) = At(f, n)
      BY <1>4, <3>2, Zenon
    <3>4. n # m => n \in 0 .. m - 1
      OBVIOUS
    <3>5. n # m => g[n] = At(g, n)
      BY <2>2, <3>4
    <3> QED
      BY <2>3, <3>3, <3>5
  <2>5. f = [n \in 0 .. m |-> At(f, n)]
    BY <2>3, <2>4
  <2> QED
    BY <1>2, <2>1, <2>5, Zenon
<1>8. Iterations \in S
  BY <1>1, <1>6, <1>7, UpTo
<1>9. Iterations \in 0 .. Iterations
  BY <1>1
<1>10. Rounds = [n \in 0 .. Iterations |-> At(Rounds, n)]
  BY <1>2, <1>3, <1>8, <1>9, Zenon
<1>11. 0 \in 0 .. Iterations /\ \A n \in 1 .. Iterations : n \in 0 .. Iterations
  BY <1>1
<1> QED
  BY <1>5, <1>10, <1>11

\* The vectors of a round of cn2_finalize: the text with the scratchpad P, what
\* is exchanged first, the text after that, and what is exchanged then.
FirstText(h, P, n) ==
    [l \in Texts |-> Xor(LoopText(h, P)[n - 1].text[l], Vec(P, 0, (16 * (n - 1) + l) % Stride))]
FirstXin(h, P, n) == Mixed(WithNext(FirstText(h, P, n), LoopText(h, P)[n - 1].xin2), h)
SecondText(h, P, n) ==
    [l \in Texts |-> Xor(FirstXin(h, P, n)[l], Vec(P, 0, ((16 * (n - 1) + l) % Stride) + 8))]
SecondXin(h, P, n) == Mixed(WithNext(SecondText(h, P, n), FirstXin(h, P, n)), h)

LoopStep(h, P, before, n) ==
    LET first == [l \in Texts |-> Xor(before.text[l], Vec(P, 0, (16 * (n - 1) + l) % Stride))]
        mixed == Mixed(WithNext(first, before.xin2), h)
        second == [l \in Texts |-> Xor(mixed[l], Vec(P, 0, ((16 * (n - 1) + l) % Stride) + 8))]
        last == Mixed(WithNext(second, mixed), h)
    IN  [text |-> last, xin2 |-> last]

LEMMA LoopFound ==
    ASSUME NEW h, NEW P
    PROVE  /\ LoopText(h, P)[0] = [text |-> [l \in Texts |-> State(h, l)], xin2 |-> [l \in Texts |-> 0]]
           /\ \A n \in 1 .. Loops :
                 LoopText(h, P)[n] = [text |-> SecondXin(h, P, n), xin2 |-> SecondXin(h, P, n)]
<1> DEFINE At(g, n) ==
             IF n = 0 THEN [text |-> [l \in Texts |-> State(h, l)], xin2 |-> [l \in Texts |-> 0]]
             ELSE LoopStep(h, P, g[n - 1], n)
           S == {m \in 0 .. Loops : \E g : g = [n \in 0 .. m |-> At(g, n)]}
<1>1. Loops \in Nat
  BY ReferenceAssumption DEF Loops
<1>2. \A m \in 0 .. Loops : m \in S <=> \E g : g = [n \in 0 .. m |-> At(g, n)]
  BY Zenon
<1>3. LoopText(h, P) = CHOOSE g : g = [n \in 0 .. Loops |-> At(g, n)]
  BY DEF LoopText, LoopStep
<1>4. \A g, f, n : (n # 0 => g[n - 1] = f[n - 1]) => At(g, n) = At(f, n)
  OBVIOUS
<1>5. \A g : /\ At(g, 0) = [text |-> [l \in Texts |-> State(h, l)], xin2 |-> [l \in Texts |-> 0]]
             /\ \A n \in 1 .. Loops : At(g, n) = LoopStep(h, P, g[n - 1], n)
  BY <1>1
<1> HIDE DEF At, S
<1>6. 0 \in S
  <2>1. PICK g : g = [n \in 0 .. 0 |-> At(<<>>, n)]
    OBVIOUS
  <2>2. \A n \in 0 .. 0 : At(<<>>, n) = At(g, n)
    BY <1>4
  <2>3. g = [n \in 0 .. 0 |-> At(g, n)]
    BY <2>1, <2>2
  <2>4. 0 \in 0 .. Loops
    BY <1>1
  <2> QED
    BY <1>2, <2>3, <2>4, Zenon
<1>7. ASSUME NEW m \in 1 .. Loops, m - 1 \in S PROVE m \in S
  <2>1. m - 1 \in 0 .. Loops /\ m \in 0 .. Loops
    BY <1>1
  <2>2. PICK g : g = [n \in 0 .. m - 1 |-> At(g, n)]
    BY <1>2, <1>7, <2>1, Zenon
  <2>3. PICK f : f = [n \in 0 .. m |-> IF n = m THEN At(g, m) ELSE g[n]]
    OBVIOUS
  <2>4. ASSUME NEW n \in 0 .. m PROVE f[n] = At(f, n)
    <3>1. n # 0 => n - 1 \in 0 .. m /\ n - 1 # m
      OBVIOUS
    <3>2. n # 0 => g[n - 1] = f[n - 1]
      BY <2>3, <3>1
    <3>3. At(g, n) = At(f, n)
      BY <1>4, <3>2, Zenon
    <3>4. n # m => n \in 0 .. m - 1
      OBVIOUS
    <3>5. n # m => g[n] = At(g, n)
      BY <2>2, <3>4
    <3> QED
      BY <2>3, <3>3, <3>5
  <2>5. f = [n \in 0 .. m |-> At(f, n)]
    BY <2>3, <2>4
  <2> QED
    BY <1>2, <2>1, <2>5, Zenon
<1>8. Loops \in S
  BY <1>1, <1>6, <1>7, UpTo
<1>9. Loops \in 0 .. Loops
  BY <1>1
<1>10. LoopText(h, P) = [n \in 0 .. Loops |-> At(LoopText(h, P), n)]
  BY <1>2, <1>3, <1>8, <1>9, Zenon
<1>11. 0 \in 0 .. Loops /\ \A n \in 1 .. Loops : n \in 0 .. Loops
  BY <1>1
<1>12. \A n \in 1 .. Loops : LoopText(h, P)[n] = LoopStep(h, P, LoopText(h, P)[n - 1], n)
  BY <1>5, <1>10, <1>11
<1>13. LoopText(h, P)[0] = [text |-> [l \in Texts |-> State(h, l)], xin2 |-> [l \in Texts |-> 0]]
  BY <1>5, <1>10, <1>11
<1>14. \A n : LoopStep(h, P, LoopText(h, P)[n - 1], n)
                = [text |-> SecondXin(h, P, n), xin2 |-> SecondXin(h, P, n)]
  BY DEF LoopStep, SecondXin, SecondText, FirstXin, FirstText
<1> QED
  BY <1>12, <1>13, <1>14, Zenon

LEMMA TailFound ==
    ASSUME NEW h, NEW x
    PROVE  /\ TailText(h, x)[0] = x
           /\ \A n \in 1 .. TailRounds :
                 TailText(h, x)[n] = WithNext(Mixed(TailText(h, x)[n - 1], h), Mixed(TailText(h, x)[n - 1], h))
<1> DEFINE At(g, n) == IF n = 0 THEN x ELSE WithNext(Mixed(g[n - 1], h), Mixed(g[n - 1], h))
           S == {m \in 0 .. TailRounds : \E g : g = [n \in 0 .. m |-> At(g, n)]}
<1>1. TailRounds \in Nat
  BY ReferenceAssumption
<1>2. \A m \in 0 .. TailRounds : m \in S <=> \E g : g = [n \in 0 .. m |-> At(g, n)]
  BY Zenon
<1>3. TailText(h, x) = CHOOSE g : g = [n \in 0 .. TailRounds |-> At(g, n)]
  BY DEF TailText
<1>4. \A g, f, n : (n # 0 => g[n - 1] = f[n - 1]) => At(g, n) = At(f, n)
  OBVIOUS
<1>5. \A g : /\ At(g, 0) = x
             /\ \A n \in 1 .. TailRounds : At(g, n) = WithNext(Mixed(g[n - 1], h), Mixed(g[n - 1], h))
  BY <1>1
<1> HIDE DEF At, S
<1>6. 0 \in S
  <2>1. PICK g : g = [n \in 0 .. 0 |-> At(<<>>, n)]
    OBVIOUS
  <2>2. \A n \in 0 .. 0 : At(<<>>, n) = At(g, n)
    BY <1>4
  <2>3. g = [n \in 0 .. 0 |-> At(g, n)]
    BY <2>1, <2>2
  <2>4. 0 \in 0 .. TailRounds
    BY <1>1
  <2> QED
    BY <1>2, <2>3, <2>4, Zenon
<1>7. ASSUME NEW m \in 1 .. TailRounds, m - 1 \in S PROVE m \in S
  <2>1. m - 1 \in 0 .. TailRounds /\ m \in 0 .. TailRounds
    BY <1>1
  <2>2. PICK g : g = [n \in 0 .. m - 1 |-> At(g, n)]
    BY <1>2, <1>7, <2>1, Zenon
  <2>3. PICK f : f = [n \in 0 .. m |-> IF n = m THEN At(g, m) ELSE g[n]]
    OBVIOUS
  <2>4. ASSUME NEW n \in 0 .. m PROVE f[n] = At(f, n)
    <3>1. n # 0 => n - 1 \in 0 .. m /\ n - 1 # m
      OBVIOUS
    <3>2. n # 0 => g[n - 1] = f[n - 1]
      BY <2>3, <3>1
    <3>3. At(g, n) = At(f, n)
      BY <1>4, <3>2, Zenon
    <3>4. n # m => n \in 0 .. m - 1
      OBVIOUS
    <3>5. n # m => g[n] = At(g, n)
      BY <2>2, <3>4
    <3> QED
      BY <2>3, <3>3, <3>5
  <2>5. f = [n \in 0 .. m |-> At(f, n)]
    BY <2>3, <2>4
  <2> QED
    BY <1>2, <2>1, <2>5, Zenon
<1>8. TailRounds \in S
  BY <1>1, <1>6, <1>7, UpTo
<1>9. TailRounds \in 0 .. TailRounds
  BY <1>1
<1>10. TailText(h, x) = [n \in 0 .. TailRounds |-> At(TailText(h, x), n)]
  BY <1>2, <1>3, <1>8, <1>9, Zenon
<1>11. 0 \in 0 .. TailRounds /\ \A n \in 1 .. TailRounds : n \in 0 .. TailRounds
  BY <1>1
<1> QED
  BY <1>5, <1>10, <1>11

\* All rounds are states of the loop.
LEMMA RoundsTyped ==
    ASSUME ComputesWords
    PROVE  \A n \in 0 .. Iterations, h \in Hashes : Rounds[n][h] \in LoopState
<1>1. Iterations \in Nat
  BY ReferenceAssumption
<1> DEFINE S == {n \in 0 .. Iterations : \A h \in Hashes : Rounds[n][h] \in LoopState}
<1>2. 0 \in S
  <2>1. ASSUME NEW h \in Hashes PROVE Begun(h) \in LoopState
    <3>1. [i \in 0 .. 3 |-> 0] \in Words4
      BY WordTypes DEF Words4
    <3>2. [w \in 0 .. PadWords - 1 |-> Fill(h, w)] \in [0 .. PadWords - 1 -> Values]
      BY WordsAssumption
    <3> QED
      BY <3>1, <3>2, WordsAssumption DEF Begun, LoopState
  <2> QED
    BY <1>1, <2>1, RoundsFound
<1>3. ASSUME NEW n \in 1 .. Iterations, n - 1 \in S PROVE n \in S
  <2>1. \A h \in Hashes : Iterate(Rounds[n - 1][h]) \in LoopState
    BY <1>3, StagesTyped
  <2>2. \A h \in Hashes : Rounds[n][h] = Iterate(Rounds[n - 1][h])
    BY RoundsFound
  <2> QED
    BY <1>1, <2>1, <2>2
<1> HIDE DEF S
<1>4. \A n \in 0 .. Iterations : n \in S
  BY <1>1, <1>2, <1>3, UpTo
<1> QED
  BY <1>4 DEF S

-----------------------------------------------------------------------------
\* The numbers of lanes and words, from those of their hash.
LEMMA LaneNumbers ==
    /\ Cardinality(Hashes) \in Nat
    /\ \A h \in Hashes : h \in Nat
    /\ \A h \in Hashes, t \in Lanes : /\ 16 * h + t \in Invocations
                                      /\ HashOf(16 * h + t) = h /\ Tid(16 * h + t) = t
    /\ \A i \in Invocations : HashOf(i) \in Hashes /\ Tid(i) \in Lanes /\ i = 16 * HashOf(i) + Tid(i)
<1>1. PICK N \in Nat : N = Cardinality(Hashes)
  BY ReferenceAssumption, FS_CardinalityType
<1>2. Hashes = 0 .. N - 1 /\ Invocations = 0 .. 16 * N - 1
  BY <1>1, ReferenceAssumption DEF Invocations
<1>3. ASSUME NEW h \in Hashes, NEW t \in Lanes
      PROVE  16 * h + t \in Invocations /\ (16 * h + t) \div 16 = h /\ (16 * h + t) % 16 = t
  BY <1>2 DEF Lanes
<1>4. ASSUME NEW i \in Invocations
      PROVE  i \div 16 \in Hashes /\ i % 16 \in Lanes /\ i = 16 * (i \div 16) + (i % 16)
  BY <1>2 DEF Lanes
<1> QED
  BY <1>1, <1>2, <1>3, <1>4 DEF HashOf, Tid

\* A word of the shared memory of a hash.
WordOf(h, x) == 64 * h + x

LEMMA WordNumbers ==
    ASSUME NEW h \in Hashes, NEW x \in SharedPlaces, NEW segment
    PROVE  /\ WordOf(h, x) \in SharedWords /\ WordOf(h, x) % 4 = x % 4
           /\ x \div 4 \in Lanes
           /\ segment = 1 => WriterOf(WordOf(h, x), segment) = 16 * h + (x \div 4)
           /\ segment # 1 /\ x \in Lanes => WriterOf(WordOf(h, x), segment) = 16 * h + x
           /\ segment # 1 /\ x \notin Lanes => WriterOf(WordOf(h, x), segment) \notin Invocations
<1> DEFINE y == WordOf(h, x)
<1>0. x \in 0 .. 63
  BY DEF SharedPlaces
<1>1. PICK N \in Nat : N = Cardinality(Hashes)
  BY LaneNumbers
<1>2. Hashes = 0 .. N - 1 /\ Invocations = 0 .. 16 * N - 1 /\ SharedWords = 0 .. 64 * N - 1
  BY <1>1, ReferenceAssumption DEF Invocations, SharedWords
<1>3. h \in Nat /\ h < N
  BY <1>2
<1>4. y \in SharedWords
  BY <1>0, <1>2, <1>3 DEF WordOf
<1>5. y \div 64 = h /\ y % 64 = x /\ y % 4 = x % 4
  BY <1>0, <1>3 DEF WordOf
<1>6. x \div 4 \in Lanes /\ (x \in Lanes <=> x < 16)
  BY <1>0 DEF Lanes
<1>7. IsFiniteSet(Invocations) /\ Cardinality(Invocations) = 16 * N
  <2>1. 0 \in Int /\ 16 * N - 1 \in Int
    OBVIOUS
  <2>2. /\ IsFiniteSet(0 .. 16 * N - 1)
        /\ Cardinality(0 .. 16 * N - 1) = IF 0 > 16 * N - 1 THEN 0 ELSE (16 * N - 1) - 0 + 1
    BY <2>1, FS_Interval
  <2> QED
    BY <1>2, <2>2
<1>8. Cardinality(Invocations) \notin Invocations
  BY <1>2, <1>7
<1>9. segment = 1 => WriterOf(WordOf(h, x), segment) = 16 * h + (x \div 4)
  BY <1>0, <1>5 DEF WriterOf
<1>10. segment # 1 => WriterOf(WordOf(h, x), segment) = IF x < 16 THEN 16 * h + x ELSE Cardinality(Invocations)
  BY <1>0, <1>5 DEF WriterOf
<1> QED
  BY <1>0, <1>4, <1>5, <1>6, <1>8, <1>9, <1>10

\* Words of the scratchpads.
LEMMA PadNumbers ==
    /\ PadWords \in Nat \ {0}
    /\ \A h \in Hashes, x \in 0 .. PadWords - 1 :
          /\ PadWords * h + x \in 0 .. PadWords * Cardinality(Hashes) - 1
          /\ (PadWords * h + x) \div PadWords = h
          /\ (PadWords * h + x) % PadWords = x
    /\ \A g, h \in Hashes, x, y \in 0 .. PadWords - 1 :
          PadWords * g + x = PadWords * h + y => g = h /\ x = y
<1>1. PadWords \in Nat \ {0}
  BY ReferenceAssumption DEF PadWords
<1>2. ASSUME NEW h \in Hashes, NEW x \in 0 .. PadWords - 1
      PROVE  /\ PadWords * h + x \in 0 .. PadWords * Cardinality(Hashes) - 1
             /\ (PadWords * h + x) \div PadWords = h
             /\ (PadWords * h + x) % PadWords = x
  <2>1. PICK N \in Nat : N = Cardinality(Hashes)
    BY LaneNumbers
  <2>2. h \in Nat /\ h < N
    BY <2>1, ReferenceAssumption
  <2> QED
    BY <1>1, <2>1, <2>2, Within, DivIs
<1> QED
  BY <1>1, <1>2

\* Waves hold whole hashes whenever their size is a multiple of 16.
LEMMA WholeHashes ==
    ASSUME wave \in Nat \ {0}, wave % 16 = 0
    PROVE  HashesShareWave
<1> SUFFICES ASSUME NEW i \in Invocations PROVE Wave(i) = Wave(16 * HashOf(i))
  BY DEF HashesShareWave
<1>1. HashOf(i) \in Hashes /\ Tid(i) \in Lanes /\ i = 16 * HashOf(i) + Tid(i)
  BY LaneNumbers
<1>2. HashOf(i) \in Nat
  BY <1>1, LaneNumbers
<1>3. (16 * HashOf(i) + Tid(i)) \div wave = (16 * HashOf(i)) \div wave
  BY <1>1, <1>2, OneWave
<1> QED
  BY <1>1, <1>3, Zenon DEF Wave

\* The size of a wave does not change.
LEMMA WaveStays == ASSUME wave' = wave, HashesShareWave PROVE HashesShareWave'
  BY DEF HashesShareWave, Wave

\* What it means for the hashes.
LEMMA SameWave ==
    ASSUME HashesShareWave
    PROVE  /\ \A h \in Hashes, t \in Lanes : Wave(16 * h + t) = Wave(16 * h)
           /\ \A h \in Hashes : Wave(16 * h) \in Waves
           /\ \A i \in Invocations : Wave(i) = Wave(16 * HashOf(i))
<1>1. ASSUME NEW i \in Invocations PROVE Wave(i) = Wave(16 * HashOf(i))
  BY DEF HashesShareWave
<1>2. ASSUME NEW h \in Hashes, NEW t \in Lanes PROVE Wave(16 * h + t) = Wave(16 * h)
  <2>1. 16 * h + t \in Invocations /\ HashOf(16 * h + t) = h
    BY LaneNumbers
  <2> QED
    BY <1>1, <2>1, Zenon
<1>3. ASSUME NEW h \in Hashes PROVE Wave(16 * h) \in Waves
  <2>1. 0 \in Lanes /\ 16 * h + 0 = 16 * h
    BY LaneNumbers DEF Lanes
  <2>2. 16 * h \in Invocations
    BY <2>1, LaneNumbers
  <2> QED
    BY <2>2 DEF Waves
<1> QED
  BY <1>1, <1>2, <1>3

\* Four words of a memory are those of a line that it holds from another place.
SameAt(mem, c, line, a, n) == \A k \in 0 .. 3 : mem[c + n * k] = line[a + n * k]

LEMMA SameFour ==
    ASSUME NEW mem, NEW line, NEW c \in Nat, NEW a \in Nat, NEW n \in {1, 4},
           SameAt(mem, c, line, a, n)
    PROVE  /\ XorOf4(mem, c, n) = XorOf4(line, a, n)
           /\ n = 4 => SumOf4(mem, c) = SumOf4(line, a)
<1>1. \A k \in 0 .. 3 : mem[c + k * n] = line[a + k * n]
  <2>1. \A k \in 0 .. 3 : c + n * k = c + k * n /\ a + n * k = a + k * n
    OBVIOUS
  <2> QED
    BY <2>1 DEF SameAt
<1>2. /\ mem[c] = line[a] /\ mem[c + n] = line[a + n]
      /\ mem[c + 2 * n] = line[a + 2 * n] /\ mem[c + 3 * n] = line[a + 3 * n]
  <2>1. c + 0 * n = c /\ a + 0 * n = a /\ c + 1 * n = c + n /\ a + 1 * n = a + n
    OBVIOUS
  <2>2. /\ mem[c + 0 * n] = line[a + 0 * n] /\ mem[c + 1 * n] = line[a + 1 * n]
        /\ mem[c + 2 * n] = line[a + 2 * n] /\ mem[c + 3 * n] = line[a + 3 * n]
    BY <1>1
  <2> QED
    BY <2>1, <2>2
<1>3. XorOf4(mem, c, n) = XorOf4(line, a, n)
  BY <1>2, Zenon DEF XorOf4
<1>4. ASSUME n = 4 PROVE SumOf4(mem, c) = SumOf4(line, a)
  <2>1. /\ mem[c] = line[a] /\ mem[c + 4] = line[a + 4]
        /\ mem[c + 8] = line[a + 8] /\ mem[c + 12] = line[a + 12]
    BY <1>2, <1>4
  <2> QED
    BY <2>1, Zenon DEF SumOf4
<1> QED
  BY <1>3, <1>4

-----------------------------------------------------------------------------
\* The invariant of cn1: where the hashes are, and what they hold there.

\* How far a wave is, and with it the hashes in it; the state of the reference
\* at the begin of that iteration.
Begins(w) == finished + segments[w] \div 5
Part(w) == segments[w] % 5
Of(h) == Wave(16 * h)
Round(h) == Rounds[Begins(Of(h))][h]

\* The scratchpad of a hash, its lanes, its shared memory, and what its lanes
\* have fetched.
PadOf(h) == [x \in 0 .. PadWords - 1 |-> pad[PadWords * h + x]]
LanesOf(h) == [t \in Lanes |-> lane[16 * h + t]]
OutOf(h) == [x \in SharedPlaces |-> sout[64 * h + x]]
VaOf(h) == [x \in SharedPlaces |-> sva[64 * h + x]]

\* What they are after q segments of an iteration that began with r.
PadAt(r, q) == IF q <= 2 THEN r.pad ELSE PadAfter(r)
LanesAt(r, q, L) ==
    \A t \in Lanes : /\ L[t] = [s |-> r.s, vs |-> r.vs, tmp |-> L[t].tmp]
                     /\ q >= 1 => L[t].tmp = Tmp(r)[t]
SharedAt(r, q, O, V) ==
    /\ q = 1 => \A t \in Lanes : O[t] = Tmp(r)[t]
    /\ q = 2 => O = Out1(r) /\ V = Va1(r)
    /\ q = 3 => O = Out2(r) /\ V = Va2(r)
    /\ q = 4 => \A t \in Lanes : O[t] = Out3(r)[t] /\ V[t] = Rescale(Sums(r)[t])
Fetches(r, q, t) ==
    CASE q = 0 -> [out |-> Tmp(r)[t]]
      [] q = 1 -> Mixes(r)[t]
      [] q = 2 -> [out |-> Folded(r)[t], va |-> Va2(r)[t]]
      [] q = 3 -> [out |-> Out3(r)[t], va |-> Rescale(Sums(r)[t])]
      [] OTHER -> [s |-> Iterate(r).s, vs |-> Iterate(r).vs]

Cn1Type ==
    /\ HashesShareWave
    /\ count \in Nat /\ finished \in Nat /\ finished + count <= Iterations
    /\ segments \in [Waves -> 0 .. 5 * count]
    /\ DOMAIN pad = 0 .. PadWords * Cardinality(Hashes) - 1

HashHeld(h) ==
    /\ PadOf(h) = PadAt(Round(h), Part(Of(h)))
    /\ count > 0 => /\ LanesAt(Round(h), Part(Of(h)), LanesOf(h))
                    /\ SharedAt(Round(h), Part(Of(h)), OutOf(h), VaOf(h))
    /\ finished > 0 => save[h].s = Rounds[finished][h].s /\ save[h].vs = Rounds[finished][h].vs

WaveHeld(w) ==
    Idle(w) \/ /\ segments[w] < 5 * count
               /\ \A i \in Invocations : Wave(i) = w =>
                     fetched[i] = Fetches(Round(HashOf(i)), Part(w), Tid(i))

Cn1Inv == Cn1Type /\ (\A h \in Hashes : HashHeld(h)) /\ \A w \in Waves : WaveHeld(w)

\* How far a wave can be.
LEMMA Progress ==
    ASSUME Cn1Type, NEW w \in Waves
    PROVE  /\ segments[w] \in 0 .. 5 * count
           /\ Part(w) \in 0 .. 4 /\ Begins(w) \in 0 .. Iterations
           /\ segments[w] < 5 * count =>
                 /\ Begins(w) + 1 \in 1 .. Iterations
                 /\ Part(w) < 4 => /\ (segments[w] + 1) \div 5 = segments[w] \div 5
                                   /\ (segments[w] + 1) % 5 = Part(w) + 1
                 /\ Part(w) = 4 => /\ (segments[w] + 1) \div 5 = segments[w] \div 5 + 1
                                   /\ (segments[w] + 1) % 5 = 0
<1>1. PICK k \in 0 .. 5 * count : k = segments[w]
  BY DEF Cn1Type
<1>2. count \in Nat /\ finished \in Nat /\ Iterations \in Nat /\ finished + count <= Iterations
  BY ReferenceAssumption DEF Cn1Type
<1>3. k % 5 \in 0 .. 4 /\ k \div 5 \in 0 .. count /\ (k < 5 * count => k \div 5 < count)
  BY <1>2
<1>4. /\ k % 5 < 4 => (k + 1) \div 5 = k \div 5 /\ (k + 1) % 5 = (k % 5) + 1
      /\ k % 5 = 4 => (k + 1) \div 5 = k \div 5 + 1 /\ (k + 1) % 5 = 0
  BY <1>2
<1> QED
  BY <1>1, <1>2, <1>3, <1>4 DEF Part, Begins

LEMMA RoundTyped ==
    ASSUME ComputesWords, Cn1Type, NEW h \in Hashes
    PROVE  Round(h) \in LoopState
<1>1. Of(h) \in Waves
  BY SameWave DEF Of, Cn1Type
<1> QED
  BY <1>1, Progress, RoundsTyped DEF Round

\* What a hash holds, word by word.
Held(h, r, q) ==
    /\ r \in LoopState
    /\ \A x \in 0 .. PadWords - 1 : pad[PadWords * h + x] = PadAt(r, q)[x]
    /\ count > 0 =>
         /\ \A t \in Lanes :
              /\ lane[16 * h + t] = [s |-> r.s, vs |-> r.vs, tmp |-> lane[16 * h + t].tmp]
              /\ q >= 1 => lane[16 * h + t].tmp = Tmp(r)[t]
         /\ q = 1 => \A t \in Lanes : sout[64 * h + t] = Tmp(r)[t]
         /\ q = 2 => \A x \in SharedPlaces : sout[64 * h + x] = Out1(r)[x] /\ sva[64 * h + x] = Va1(r)[x]
         /\ q = 3 => \A x \in SharedPlaces : sout[64 * h + x] = Out2(r)[x] /\ sva[64 * h + x] = Va2(r)[x]
         /\ q = 4 => \A t \in Lanes : /\ sout[64 * h + t] = Out3(r)[t]
                                      /\ sva[64 * h + t] = Rescale(Sums(r)[t])

LEMMA Holds ==
    ASSUME ComputesWords, Cn1Inv, NEW h \in Hashes
    PROVE  Held(h, Round(h), Part(Of(h)))
<1> SUFFICES ASSUME NEW r, r = Round(h), NEW q, q = Part(Of(h)) PROVE Held(h, r, q)
  OBVIOUS
<1>1. r \in LoopState
  BY RoundTyped DEF Cn1Inv
<1>2. \A x \in 0 .. PadWords - 1 : pad[PadWords * h + x] = PadAt(r, q)[x]
  <2>1. PadOf(h) = PadAt(r, q)
    BY DEF Cn1Inv, HashHeld
  <2>2. \A x \in 0 .. PadWords - 1 : PadOf(h)[x] = pad[PadWords * h + x]
    BY DEF PadOf
  <2> QED
    BY <2>1, <2>2, Zenon
<1>3. ASSUME count > 0
      PROVE  \A t \in Lanes :
               /\ lane[16 * h + t] = [s |-> r.s, vs |-> r.vs, tmp |-> lane[16 * h + t].tmp]
               /\ q >= 1 => lane[16 * h + t].tmp = Tmp(r)[t]
  <2>1. LanesAt(r, q, LanesOf(h))
    BY <1>3 DEF Cn1Inv, HashHeld
  <2>2. \A t \in Lanes : LanesOf(h)[t] = lane[16 * h + t]
    BY DEF LanesOf
  <2> QED
    BY <2>1, <2>2 DEF LanesAt
<1>4. ASSUME count > 0
      PROVE  /\ q = 1 => \A t \in Lanes : sout[64 * h + t] = Tmp(r)[t]
             /\ q = 2 => \A x \in SharedPlaces : sout[64 * h + x] = Out1(r)[x] /\ sva[64 * h + x] = Va1(r)[x]
             /\ q = 3 => \A x \in SharedPlaces : sout[64 * h + x] = Out2(r)[x] /\ sva[64 * h + x] = Va2(r)[x]
             /\ q = 4 => \A t \in Lanes : /\ sout[64 * h + t] = Out3(r)[t]
                                          /\ sva[64 * h + t] = Rescale(Sums(r)[t])
  <2>1. SharedAt(r, q, OutOf(h), VaOf(h))
    BY <1>4 DEF Cn1Inv, HashHeld
  <2>2. \A x \in SharedPlaces : OutOf(h)[x] = sout[64 * h + x] /\ VaOf(h)[x] = sva[64 * h + x]
    BY DEF OutOf, VaOf
  <2>3. Lanes \subseteq SharedPlaces
    BY DEF Lanes, SharedPlaces
  <2> HIDE DEF OutOf, VaOf
  <2>4. q = 1 => \A t \in Lanes : sout[64 * h + t] = Tmp(r)[t]
    BY <2>1, <2>2, <2>3 DEF SharedAt
  <2>5. q = 2 => \A x \in SharedPlaces : sout[64 * h + x] = Out1(r)[x] /\ sva[64 * h + x] = Va1(r)[x]
    BY <2>1, <2>2 DEF SharedAt
  <2>6. q = 3 => \A x \in SharedPlaces : sout[64 * h + x] = Out2(r)[x] /\ sva[64 * h + x] = Va2(r)[x]
    BY <2>1, <2>2 DEF SharedAt
  <2>7. q = 4 => \A t \in Lanes : /\ sout[64 * h + t] = Out3(r)[t]
                                  /\ sva[64 * h + t] = Rescale(Sums(r)[t])
    BY <2>1, <2>2, <2>3 DEF SharedAt
  <2> QED
    BY <2>4, <2>5, <2>6, <2>7
<1> QED
  BY <1>1, <1>2, <1>3, <1>4 DEF Held

\* The folds of a block, and of every fourth word.
SameLine(mem, b, line) == \A x \in SharedPlaces : mem[b + x] = line[x]

LEMMA SameFolds ==
    ASSUME NEW b \in Nat, NEW t \in Lanes, NEW mem, NEW line, SameLine(mem, b, line)
    PROVE  /\ XorOf4(mem, b + Block(t), 4) = XorOf4(line, Block(t), 4)
           /\ SumOf4(mem, b + Block(t)) = SumOf4(line, Block(t))
           /\ XorOf4(mem, b + t, 4) = XorOf4(line, t, 4)
<1>1. ASSUME NEW a \in Nat, \A k \in 0 .. 3 : a + 4 * k \in SharedPlaces
      PROVE  XorOf4(mem, b + a, 4) = XorOf4(line, a, 4) /\ SumOf4(mem, b + a) = SumOf4(line, a)
  <2>1. PICK c \in Nat : c = b + a
    OBVIOUS
  <2>2. SameAt(mem, c, line, a, 4)
    <3> SUFFICES ASSUME NEW k \in 0 .. 3 PROVE mem[c + 4 * k] = line[a + 4 * k]
      BY DEF SameAt
    <3>1. c + 4 * k = b + (a + 4 * k)
      BY <2>1
    <3> QED
      BY <1>1, <3>1 DEF SameLine
  <2>3. XorOf4(mem, c, 4) = XorOf4(line, a, 4) /\ SumOf4(mem, c) = SumOf4(line, a)
    BY <2>1, <2>2, SameFour
  <2> QED
    BY <2>1, <2>3
<1>2. Block(t) \in Nat /\ t \in Nat /\ \A k \in 0 .. 3 : Block(t) + 4 * k \in SharedPlaces /\ t + 4 * k \in SharedPlaces
  BY BlockIn DEF Lanes
<1> QED
  BY <1>1, <1>2

\* What a lane reads in a segment is what the reference computes there.
LEMMA FetchIs ==
    ASSUME ComputesWords, Cn1Inv, count > 0, NEW i \in Invocations,
           NEW h, h = HashOf(i), NEW t, t = Tid(i), NEW r, r = Round(h), NEW q, q = Part(Of(h))
    PROVE  /\ q = 0 => Fill0(i) = Fetches(r, q, t)
           /\ q = 1 => Mix(i) = Fetches(r, q, t)
           /\ q = 2 => Fold(i) = Fetches(r, q, t)
           /\ q = 3 => SecondFold(i) = Fetches(r, q, t)
           /\ q = 4 => Reload(i) = Fetches(r, q, t)
<1>1. h \in Hashes /\ t \in Lanes /\ i = 16 * h + t /\ h \in Nat
  BY LaneNumbers
<1>2. /\ r \in LoopState
      /\ \A x \in 0 .. PadWords - 1 : pad[PadWords * h + x] = PadAt(r, q)[x]
      /\ lane[i] = [s |-> r.s, vs |-> r.vs, tmp |-> lane[i].tmp]
      /\ q = 1 => \A x \in Lanes : sout[64 * h + x] = Tmp(r)[x]
      /\ q = 2 => \A x \in SharedPlaces : sout[64 * h + x] = Out1(r)[x] /\ sva[64 * h + x] = Va1(r)[x]
      /\ q = 3 => \A x \in SharedPlaces : sout[64 * h + x] = Out2(r)[x] /\ sva[64 * h + x] = Va2(r)[x]
      /\ q = 4 => \A x \in Lanes : /\ sout[64 * h + x] = Out3(r)[x]
                                   /\ sva[64 * h + x] = Rescale(Sums(r)[x])
  BY <1>1, Holds DEF Held
<1>3. lane[i].s = r.s /\ lane[i].vs = r.vs /\ r.s \in Nat
  BY <1>2 DEF LoopState
<1>4. Block(t) \in Nat /\ \A k \in 0 .. 3 : Block(t) + 4 * k \in SharedPlaces /\ t + 4 * k \in SharedPlaces
  BY <1>1, BlockIn
<1>5. Base(i) = 64 * h /\ 64 * h \in Nat /\ t \in Nat
  BY <1>1 DEF Base, Lanes
<1>6. ASSUME q = 0 PROVE Fill0(i) = Fetches(r, q, t)
  <2>1. Cell(i) = PadWords * h + Spot(r.s, t)
    BY <1>3, Zenon DEF Cell
  <2>2. pad[Cell(i)] = r.pad[Spot(r.s, t)]
    BY <1>1, <1>2, <1>3, <1>6, <2>1, SpotIn DEF PadAt
  <2> QED
    <3>1. Tmp(r)[t] = r.pad[Spot(r.s, t)]
      BY <1>1 DEF Tmp
    <3>2. Fetches(r, q, t) = [out |-> Tmp(r)[t]]
      BY <1>6 DEF Fetches
    <3> QED
      BY <2>2, <3>1, <3>2, Zenon DEF Fill0
<1>7. ASSUME q = 1 PROVE Mix(i) = Fetches(r, q, t)
  <2>1. Tmp(r) \in [Lanes -> Values]
    BY <1>2, StagesTyped
  <2>2. LookedUp(sout, Base(i), t) = LookedUp(Tmp(r), 0, t)
    BY <1>1, <1>2, <1>5, <1>7, <2>1, LookedUpIs
  <2>3. Mix(i) = Compute(t, LookedUp(Tmp(r), 0, t), r.vs)
    BY <1>3, <2>2, Zenon DEF Mix
  <2> QED
    BY <1>1, <1>7, <2>3 DEF Fetches, Mixes
<1>8. ASSUME q = 2 PROVE Fold(i) = Fetches(r, q, t)
  <2>1. /\ XorOf4(sout, 64 * h + Block(t), 4) = XorOf4(Out1(r), Block(t), 4)
        /\ SumOf4(sva, 64 * h + Block(t)) = SumOf4(Va1(r), Block(t))
    <3>1. PICK b \in Nat : b = 64 * h
      BY <1>5
    <3>2. SameLine(sout, b, Out1(r)) /\ SameLine(sva, b, Va1(r))
      BY <1>2, <1>8, <3>1 DEF SameLine
    <3>3. /\ XorOf4(sout, b + Block(t), 4) = XorOf4(Out1(r), Block(t), 4)
          /\ SumOf4(sva, b + Block(t)) = SumOf4(Va1(r), Block(t))
      BY <1>1, <3>1, <3>2, SameFolds
    <3> QED
      BY <3>1, <3>3
  <2>2. Fold(i) = [out |-> XorOf4(Out1(r), Block(t), 4), va |-> SumOf4(Va1(r), Block(t))]
    BY <1>5, <2>1, Zenon DEF Fold
  <2>3. Folded(r)[t] = XorOf4(Out1(r), Block(t), 4) /\ Va2(r)[t] = SumOf4(Va1(r), Block(t))
    <3>1. t \in SharedPlaces
      BY <1>1 DEF Lanes, SharedPlaces
    <3> QED
      BY <1>1, <3>1 DEF Folded, Va2
  <2> QED
    BY <1>8, <2>2, <2>3 DEF Fetches
<1>9. ASSUME q = 3 PROVE SecondFold(i) = Fetches(r, q, t)
  <2>1. /\ XorOf4(sout, 64 * h + t, 4) = XorOf4(Out2(r), t, 4)
        /\ SumOf4(sva, 64 * h + Block(t)) = SumOf4(Va2(r), Block(t))
    <3>1. PICK b \in Nat : b = 64 * h
      BY <1>5
    <3>2. SameLine(sout, b, Out2(r)) /\ SameLine(sva, b, Va2(r))
      BY <1>2, <1>9, <3>1 DEF SameLine
    <3>3. /\ XorOf4(sout, b + t, 4) = XorOf4(Out2(r), t, 4)
          /\ SumOf4(sva, b + Block(t)) = SumOf4(Va2(r), Block(t))
      BY <1>1, <3>1, <3>2, SameFolds
    <3> QED
      BY <3>1, <3>3
  <2>2. Sums(r)[t] = SumOf4(Va2(r), Block(t))
    BY <1>1 DEF Sums
  <2>3. Out3(r)[t] = Xor(XorOf4(Out2(r), t, 4), ToInt(Sums(r)[t]))
    BY <1>1 DEF Out3
  <2>4. SecondFold(i) = [out |-> Out3(r)[t], va |-> Rescale(Sums(r)[t])]
    BY <1>5, <2>1, <2>2, <2>3, Zenon DEF SecondFold
  <2> QED
    BY <1>9, <2>4 DEF Fetches
<1>10. ASSUME q = 4 PROVE Reload(i) = Fetches(r, q, t)
  <2>1. \A k \in 0 .. 3 : k \in Lanes /\ 0 + 1 * k = k /\ 64 * h + 4 * 0 + k = 64 * h + k
                           /\ 64 * h + 1 * k = 64 * h + k
    BY <1>5 DEF Lanes
  <2>2. \A k \in 0 .. 3 : sout[64 * h + 1 * k] = Out3(r)[0 + 1 * k]
    BY <1>2, <1>10, <2>1
  <2>3. XorOf4(sout, 64 * h, 1) = XorOf4(Out3(r), 0, 1)
    <3>1. PICK b \in Nat : b = 64 * h
      BY <1>5
    <3>2. SameAt(sout, b, Out3(r), 0, 1)
      BY <2>2, <3>1 DEF SameAt
    <3>3. XorOf4(sout, b, 1) = XorOf4(Out3(r), 0, 1)
      BY <3>1, <3>2, SameFour
    <3> QED
      BY <3>1, <3>3
  <2>4. \A k \in 0 .. 3 : sva[64 * h + 4 * 0 + k] = Rescale(Sums(r)[k])
    BY <1>2, <1>10, <2>1
  <2>5. Slot(sva, 64 * h, 0) = [k \in 0 .. 3 |-> Rescale(Sums(r)[k])]
    BY <2>4 DEF Slot
  <2>6. Reload(i) = [s |-> XorOf4(Out3(r), 0, 1), vs |-> [k \in 0 .. 3 |-> Rescale(Sums(r)[k])]]
    BY <1>5, <2>3, <2>5, Zenon DEF Reload
  <2>7. /\ Iterate(r).s = XorOf4(Out3(r), 0, 1)
        /\ Iterate(r).vs = [k \in 0 .. 3 |-> Rescale(Sums(r)[k])]
    BY IterateIs
  <2> QED
    BY <1>10, <2>6, <2>7 DEF Fetches
<1> QED
  BY <1>6, <1>7, <1>8, <1>9, <1>10

-----------------------------------------------------------------------------
\* The word a wave stores to is that of one of its lanes, and the others it
\* leaves alone.
LEMMA WrittenIs ==
    ASSUME HashesShareWave, NEW w, NEW h \in Hashes, NEW x \in SharedPlaces,
           NEW mem, NEW field, NEW segment
    PROVE  /\ Of(h) # w => Written(mem, field, w, segment)[WordOf(h, x)] = mem[WordOf(h, x)]
           /\ Of(h) = w /\ segment = 1 =>
                Written(mem, field, w, segment)[WordOf(h, x)] = fetched[16 * h + (x \div 4)][field][x % 4]
           /\ Of(h) = w /\ segment # 1 /\ x \in Lanes =>
                Written(mem, field, w, segment)[WordOf(h, x)] = fetched[16 * h + x][field]
           /\ segment # 1 /\ x \notin Lanes =>
                Written(mem, field, w, segment)[WordOf(h, x)] = mem[WordOf(h, x)]
<1> DEFINE y == WordOf(h, x)
<1>0. y = WordOf(h, x)
  OBVIOUS
<1> HIDE DEF y
<1>1. \A t \in Lanes : 16 * h + t \in Invocations /\ Wave(16 * h + t) = Of(h)
  BY LaneNumbers, SameWave DEF Of
<1>2. y \in SharedWords /\ y % 4 = x % 4 /\ x \div 4 \in Lanes
  BY <1>0, WordNumbers
<1>3. PICK i : i = WriterOf(y, segment)
  OBVIOUS
<1>4. Written(mem, field, w, segment)[y]
        = IF i \notin Invocations \/ Wave(i) # w THEN mem[y]
          ELSE IF segment = 1 THEN fetched[i][field][y % 4] ELSE fetched[i][field]
  BY <1>2, <1>3 DEF Written
<1>5. CASE segment = 1
  <2>1. i = 16 * h + (x \div 4)
    BY <1>0, <1>3, <1>5, WordNumbers
  <2>2. i \in Invocations /\ Wave(i) = Of(h)
    BY <1>1, <1>2, <2>1
  <2>3. Of(h) # w => Written(mem, field, w, segment)[y] = mem[y]
    BY <1>4, <2>2, Zenon
  <2>4. Of(h) = w => Written(mem, field, w, segment)[y] = fetched[i][field][y % 4]
    BY <1>4, <1>5, <2>2, Zenon
  <2> QED
    BY <1>0, <1>2, <1>5, <2>1, <2>3, <2>4, Zenon
<1>6. CASE segment # 1 /\ x \in Lanes
  <2>1. i = 16 * h + x
    BY <1>0, <1>3, <1>6, WordNumbers
  <2>2. i \in Invocations /\ Wave(i) = Of(h)
    BY <1>1, <1>6, <2>1
  <2>3. Of(h) # w => Written(mem, field, w, segment)[y] = mem[y]
    BY <1>4, <2>2, Zenon
  <2>4. Of(h) = w => Written(mem, field, w, segment)[y] = fetched[i][field]
    BY <1>4, <1>6, <2>2, Zenon
  <2> QED
    BY <1>0, <1>6, <2>1, <2>3, <2>4, Zenon
<1>7. CASE segment # 1 /\ x \notin Lanes
  <2>1. i \notin Invocations
    BY <1>0, <1>3, <1>7, WordNumbers
  <2>2. Written(mem, field, w, segment)[y] = mem[y]
    BY <1>4, <2>1, Zenon
  <2> QED
    BY <1>0, <1>7, <2>2, Zenon
<1> QED
  BY <1>0, <1>5, <1>6, <1>7, Zenon

\* A lane's word of the scratchpad is one of its own hash.
LEMMA CellIs ==
    ASSUME ComputesWords, Cn1Inv, count > 0, NEW h \in Hashes, NEW t \in Lanes
    PROVE  /\ Cell(16 * h + t) = PadWords * h + Spot(Round(h).s, t)
           /\ Spot(Round(h).s, t) \in 0 .. PadWords - 1
<1>1. PICK i \in Invocations : i = 16 * h + t /\ HashOf(i) = h /\ Tid(i) = t
  BY LaneNumbers
<1>2. lane[i].s = Round(h).s /\ Round(h).s \in Nat
  <2>1. /\ Round(h) \in LoopState
        /\ lane[16 * h + t] = [s |-> Round(h).s, vs |-> Round(h).vs, tmp |-> lane[16 * h + t].tmp]
    BY Holds DEF Held
  <2>2. lane[i] = [s |-> Round(h).s, vs |-> Round(h).vs, tmp |-> lane[i].tmp]
    BY <1>1, <2>1, Zenon
  <2> QED
    BY <2>1, <2>2 DEF LoopState
<1>3. Cell(i) = PadWords * h + Spot(Round(h).s, t)
  BY <1>1, <1>2, Zenon DEF Cell
<1> QED
  BY <1>1, <1>2, <1>3, SpotIn

\* What a wave stores is what its lanes have computed for their hashes.
LEMMA Storing ==
    ASSUME Cn1Inv, NEW w \in Waves, Store(w)
    PROVE  /\ count > 0 /\ segments[w] < 5 * count
           /\ \A h \in Hashes, t \in Lanes : Of(h) = w =>
                 fetched[16 * h + t] = Fetches(Round(h), Part(w), t)
<1>1. ~Idle(w)
  BY Zenon DEF Store
<1>2. /\ segments[w] < 5 * count
      /\ \A i \in Invocations : Wave(i) = w => fetched[i] = Fetches(Round(HashOf(i)), Part(w), Tid(i))
  BY <1>1, Zenon DEF Cn1Inv, WaveHeld
<1>3. ASSUME NEW h \in Hashes, NEW t \in Lanes, Of(h) = w
      PROVE  fetched[16 * h + t] = Fetches(Round(h), Part(w), t)
  <2>1. PICK i \in Invocations : i = 16 * h + t /\ HashOf(i) = h /\ Tid(i) = t
    BY LaneNumbers
  <2>2. Wave(i) = w
    BY <1>3, <2>1, SameWave DEF Of, Cn1Inv, Cn1Type
  <2> QED
    BY <1>2, <2>1, <2>2, Zenon
<1>4. count > 0
  <2>1. segments[w] \in 0 .. 5 * count /\ count \in Nat
    BY DEF Cn1Inv, Cn1Type
  <2> QED
    BY <1>2, <2>1
<1> QED
  BY <1>2, <1>3, <1>4

\* A wave's stores leave the words of hashes in other waves alone.
LEMMA StoredElsewhere ==
    ASSUME ComputesWords, Cn1Inv, NEW w \in Waves, Store(w), NEW h \in Hashes, Of(h) # w
    PROVE  /\ \A x \in 0 .. PadWords - 1 : pad'[PadWords * h + x] = pad[PadWords * h + x]
           /\ \A t \in Lanes : lane'[16 * h + t] = lane[16 * h + t]
           /\ \A x \in SharedPlaces : /\ sout'[64 * h + x] = sout[64 * h + x]
                                 /\ sva'[64 * h + x] = sva[64 * h + x]
<1>1. HashesShareWave /\ DOMAIN pad = 0 .. PadWords * Cardinality(Hashes) - 1
  BY DEF Cn1Inv, Cn1Type
<1>2. \A t \in Lanes : /\ 16 * h + t \in Invocations /\ Wave(16 * h + t) # w
  BY <1>1, LaneNumbers, SameWave DEF Of
<1>3. ASSUME NEW x \in SharedPlaces
      PROVE  sout'[64 * h + x] = sout[64 * h + x] /\ sva'[64 * h + x] = sva[64 * h + x]
  <2>1. PICK y : y = WordOf(h, x)
    OBVIOUS
  <2>2. /\ sout' = sout \/ sout' = Written(sout, "out", w, segments[w] % 5)
        /\ sva' = sva \/ sva' = Written(sva, "va", w, segments[w] % 5)
    BY Zenon DEF Store
  <2>3. ASSUME NEW mem, NEW field, NEW segment PROVE Written(mem, field, w, segment)[y] = mem[y]
    <3>1. Written(mem, field, w, segment)[WordOf(h, x)] = mem[WordOf(h, x)]
      BY <1>1, WrittenIs
    <3> QED
      BY <2>1, <3>1
  <2>4. sout'[y] = sout[y] /\ sva'[y] = sva[y]
    BY <2>2, <2>3, Zenon
  <2> QED
    BY <2>1, <2>4, Zenon DEF WordOf
<1>4. ASSUME NEW t \in Lanes PROVE lane'[16 * h + t] = lane[16 * h + t]
  <2>1. PICK j \in Invocations : j = 16 * h + t /\ Wave(j) # w
    BY <1>2
  <2>2. lane'[j] = lane[j]
    BY <2>1, Zenon DEF Store
  <2> QED
    BY <2>1, <2>2
<1>5. ASSUME NEW x \in 0 .. PadWords - 1 PROVE pad'[PadWords * h + x] = pad[PadWords * h + x]
  <2>1. PICK y \in DOMAIN pad : y = PadWords * h + x
    BY <1>1, PadNumbers
  <2>2. ASSUME NEW i \in Invocations, Wave(i) = w, Cell(i) = y PROVE FALSE
    <3>1. PICK g \in Hashes, t \in Lanes : i = 16 * g + t
      BY LaneNumbers
    <3>2. Of(g) = w
      BY <1>1, <2>2, <3>1, SameWave DEF Of
    <3>3. Cell(i) = PadWords * g + Spot(Round(g).s, t) /\ Spot(Round(g).s, t) \in 0 .. PadWords - 1
      BY <3>1, CellIs, Storing
    <3>4. g = h
      BY <2>1, <2>2, <3>3, PadNumbers
    <3> QED
      BY <3>2, <3>4
  <2>3. ~ \E i \in {i \in Invocations : Wave(i) = w} : Cell(i) = y
    BY <2>2
  <2>4. pad'[y] = pad[y]
    BY <2>3, Zenon DEF Store
  <2> QED
    BY <2>1, <2>4
<1> QED
  BY <1>3, <1>4, <1>5

\* And those of a hash in it they take on by one segment: its shared memory ...
SharedNext(h, r, q) ==
    /\ q = 0 => \A t \in Lanes : sout'[64 * h + t] = Tmp(r)[t]
    /\ q = 1 => \A x \in SharedPlaces : sout'[64 * h + x] = Out1(r)[x] /\ sva'[64 * h + x] = Va1(r)[x]
    /\ q = 2 => \A x \in SharedPlaces : sout'[64 * h + x] = Out2(r)[x] /\ sva'[64 * h + x] = Va2(r)[x]
    /\ q = 3 => \A t \in Lanes : /\ sout'[64 * h + t] = Out3(r)[t]
                                 /\ sva'[64 * h + t] = Rescale(Sums(r)[t])

LEMMA StoredShared ==
    ASSUME ComputesWords, Cn1Inv, NEW w \in Waves, Store(w), NEW h \in Hashes, Of(h) = w
    PROVE  SharedNext(h, Round(h), Part(w))
<1> SUFFICES ASSUME NEW r, r = Round(h), NEW q, q = Part(w) PROVE SharedNext(h, r, q)
  OBVIOUS
<1>1. /\ HashesShareWave /\ segments[w] % 5 = q /\ count > 0
      /\ \A t \in Lanes : fetched[16 * h + t] = Fetches(r, q, t)
  BY Storing DEF Cn1Inv, Cn1Type, Part
<1>a. q = Part(Of(h))
  OBVIOUS
<1>2. Lanes \subseteq SharedPlaces
  BY DEF Lanes, SharedPlaces
<1>3. q \in 0 .. 3 => sout' = Written(sout, "out", w, q)
  <2>1. segments[w] % 5 < 4 => sout' = Written(sout, "out", w, segments[w] % 5)
    BY Zenon DEF Store
  <2>2. q \in 0 .. 3 => q < 4
    OBVIOUS
  <2> QED
    BY <1>1, <2>1, <2>2, Zenon
<1>4. q \in 1 .. 3 => sva' = Written(sva, "va", w, q)
  <2>1. segments[w] % 5 \in 1 .. 3 => sva' = Written(sva, "va", w, segments[w] % 5)
    BY Zenon DEF Store
  <2> QED
    BY <1>1, <2>1, Zenon
<1>5. ASSUME NEW mem, NEW field, NEW t \in Lanes, q # 1
      PROVE  Written(mem, field, w, q)[WordOf(h, t)] = Fetches(r, q, t)[field]
  <2>1. Written(mem, field, w, q)[WordOf(h, t)] = fetched[16 * h + t][field]
    BY <1>1, <1>2, <1>5, WrittenIs
  <2> QED
    BY <1>1, <2>1, Zenon
<1>6. ASSUME q = 0, NEW t \in Lanes PROVE sout'[64 * h + t] = Tmp(r)[t]
  <2>1. sout' = Written(sout, "out", w, q)
    BY <1>3, <1>6
  <2>2. sout'[WordOf(h, t)] = Fetches(r, q, t)["out"]
    BY <1>5, <1>6, <2>1
  <2> QED
    BY <1>6, <2>2 DEF Fetches, WordOf
<1>7. ASSUME q = 1, NEW x \in SharedPlaces
      PROVE  sout'[64 * h + x] = Out1(r)[x] /\ sva'[64 * h + x] = Va1(r)[x]
  <2>1. PICK t \in Lanes : t = x \div 4
    BY DEF SharedPlaces, Lanes
  <2>2. ASSUME NEW mem, NEW field
        PROVE  Written(mem, field, w, q)[WordOf(h, x)] = Mixes(r)[t][field][x % 4]
    <3>1. Written(mem, field, w, q)[WordOf(h, x)] = fetched[16 * h + (x \div 4)][field][x % 4]
      BY <1>1, <1>7, WrittenIs
    <3>2. fetched[16 * h + t] = Mixes(r)[t]
      BY <1>1, <1>7 DEF Fetches
    <3> QED
      BY <2>1, <3>1, <3>2, Zenon
  <2>3. sout' = Written(sout, "out", w, q) /\ sva' = Written(sva, "va", w, q)
    BY <1>3, <1>4, <1>7
  <2>4. /\ sout'[WordOf(h, x)] = Mixes(r)[t]["out"][x % 4]
        /\ sva'[WordOf(h, x)] = Mixes(r)[t]["va"][x % 4]
    BY <2>2, <2>3, Zenon
  <2>5. Out1(r)[x] = Mixes(r)[t].out[x % 4] /\ Va1(r)[x] = Mixes(r)[t].va[x % 4]
    BY <2>1 DEF Out1, Va1
  <2> QED
    BY <2>4, <2>5, Zenon DEF WordOf
<1>8. ASSUME q = 2, NEW x \in SharedPlaces
      PROVE  sout'[64 * h + x] = Out2(r)[x] /\ sva'[64 * h + x] = Va2(r)[x]
  <2>1. sout' = Written(sout, "out", w, q) /\ sva' = Written(sva, "va", w, q)
    BY <1>3, <1>4, <1>8
  <2>2. CASE x \in Lanes
    <3>1. /\ sout'[WordOf(h, x)] = Fetches(r, q, x)["out"]
          /\ sva'[WordOf(h, x)] = Fetches(r, q, x)["va"]
      BY <1>5, <1>8, <2>1, <2>2
    <3>2. Fetches(r, q, x) = [out |-> Folded(r)[x], va |-> Va2(r)[x]]
      BY <1>8 DEF Fetches
    <3>3. Out2(r)[x] = Folded(r)[x]
      BY <2>2 DEF Out2
    <3> QED
      BY <3>1, <3>2, <3>3 DEF WordOf
  <2>3. CASE x \notin Lanes
    <3>1. sout'[WordOf(h, x)] = sout[WordOf(h, x)] /\ sva'[WordOf(h, x)] = sva[WordOf(h, x)]
      BY <1>1, <1>8, <2>1, <2>3, WrittenIs
    <3>2. sout[64 * h + x] = Out1(r)[x] /\ sva[64 * h + x] = Va1(r)[x]
      <4>1. \A y \in SharedPlaces : sout[64 * h + y] = Out1(r)[y] /\ sva[64 * h + y] = Va1(r)[y]
        <5>1. Held(h, r, q)
          BY <1>a, Holds
        <5> QED
          BY <1>1, <1>8, <5>1 DEF Held
      <4> QED
        BY <1>8, <4>1, Zenon
    <3>3. Out2(r)[x] = Out1(r)[x] /\ Va2(r)[x] = Va1(r)[x]
      BY <2>3 DEF Out2, Va2
    <3> QED
      BY <3>1, <3>2, <3>3, Zenon DEF WordOf
  <2> QED
    BY <2>2, <2>3
<1>9. ASSUME q = 3, NEW t \in Lanes
      PROVE  sout'[64 * h + t] = Out3(r)[t] /\ sva'[64 * h + t] = Rescale(Sums(r)[t])
  <2>1. sout' = Written(sout, "out", w, q) /\ sva' = Written(sva, "va", w, q)
    BY <1>3, <1>4, <1>9
  <2>2. sout'[WordOf(h, t)] = Fetches(r, q, t)["out"] /\ sva'[WordOf(h, t)] = Fetches(r, q, t)["va"]
    BY <1>5, <1>9, <2>1
  <2>3. Fetches(r, q, t) = [out |-> Out3(r)[t], va |-> Rescale(Sums(r)[t])]
    BY <1>9 DEF Fetches
  <2> QED
    BY <2>2, <2>3 DEF WordOf
<1> QED
  BY <1>6, <1>7, <1>8, <1>9 DEF SharedNext

\* ... the variables of its lanes ...
LanesNext(h, r, q) ==
    \A t \in Lanes :
        lane'[16 * h + t] = IF q < 4 THEN [s |-> r.s, vs |-> r.vs, tmp |-> Tmp(r)[t]]
                            ELSE [s |-> Iterate(r).s, vs |-> Iterate(r).vs, tmp |-> 0]

LEMMA StoredLanes ==
    ASSUME ComputesWords, Cn1Inv, NEW w \in Waves, Store(w), NEW h \in Hashes, Of(h) = w
    PROVE  LanesNext(h, Round(h), Part(w))
<1> SUFFICES ASSUME NEW r, r = Round(h), NEW q, q = Part(w), NEW t \in Lanes
             PROVE  lane'[16 * h + t] = IF q < 4 THEN [s |-> r.s, vs |-> r.vs, tmp |-> Tmp(r)[t]]
                                        ELSE [s |-> Iterate(r).s, vs |-> Iterate(r).vs, tmp |-> 0]
  BY DEF LanesNext
<1>1. PICK i \in Invocations : i = 16 * h + t /\ Wave(i) = w
  BY LaneNumbers, SameWave DEF Of, Cn1Inv, Cn1Type
<1>2. segments[w] % 5 = q /\ count > 0 /\ fetched[i] = Fetches(r, q, t)
  BY <1>1, Storing DEF Part
<1>3. lane'[i] = CASE q = 0 -> [lane[i] EXCEPT !.tmp = fetched[i].out]
                   [] q = 4 -> [s |-> fetched[i].s, vs |-> fetched[i].vs, tmp |-> 0]
                   [] OTHER -> lane[i]
  BY <1>1, <1>2 DEF Store
<1>4. /\ lane[i] = [s |-> r.s, vs |-> r.vs, tmp |-> lane[i].tmp]
      /\ q >= 1 => lane[i].tmp = Tmp(r)[t]
  BY <1>1, <1>2, Holds DEF Held
<1>5. q \in 0 .. 4
  BY Progress DEF Cn1Inv
<1>6. CASE q = 0
  BY <1>1, <1>2, <1>3, <1>4, <1>6 DEF Fetches
<1>7. CASE q = 4
  BY <1>1, <1>2, <1>3, <1>7 DEF Fetches
<1>8. CASE q \in 1 .. 3
  BY <1>1, <1>3, <1>4, <1>8
<1> QED
  BY <1>5, <1>6, <1>7, <1>8

\* ... and its scratchpad.
PadNext(h, r, q) ==
    \A x \in 0 .. PadWords - 1 : pad'[PadWords * h + x] = PadAt(r, q + 1)[x]

LEMMA StoredPad ==
    ASSUME ComputesWords, Cn1Inv, NEW w \in Waves, Store(w), NEW h \in Hashes, Of(h) = w
    PROVE  PadNext(h, Round(h), Part(w))
<1> SUFFICES ASSUME NEW r, r = Round(h), NEW q, q = Part(w), NEW x \in 0 .. PadWords - 1
             PROVE  pad'[PadWords * h + x] = PadAt(r, q + 1)[x]
  BY DEF PadNext
<1>1. /\ HashesShareWave /\ segments[w] % 5 = q /\ count > 0 /\ q \in 0 .. 4
      /\ DOMAIN pad = 0 .. PadWords * Cardinality(Hashes) - 1
  BY Storing, Progress DEF Cn1Inv, Cn1Type, Part
<1>a. q = Part(Of(h))
  OBVIOUS
<1>2. PICK y \in DOMAIN pad : y = PadWords * h + x
  BY <1>1, PadNumbers
<1>3. r \in LoopState /\ pad[y] = PadAt(r, q)[x]
  BY <1>2, Holds DEF Held
<1>4. CASE q # 2
  <2>1. pad' = pad
    BY <1>1, <1>4, Zenon DEF Store
  <2>2. PadAt(r, q + 1) = PadAt(r, q)
    BY <1>1, <1>4 DEF PadAt
  <2> QED
    BY <1>2, <1>3, <2>1, <2>2
<1>5. CASE q = 2
  <2> DEFINE mine == {i \in Invocations : Wave(i) = w}
  <2>1. pad'[y] = IF \E i \in mine : Cell(i) = y
                  THEN LET i == CHOOSE i \in mine : Cell(i) = y IN Xor(fetched[i].out, lane[i].tmp)
                  ELSE pad[y]
    BY <1>1, <1>5, Zenon DEF Store
  <2>2. r.s \in Nat /\ r.pad \in [0 .. PadWords - 1 -> Values]
    BY <1>3 DEF LoopState
  <2>3. PadAt(r, q + 1)[x] = IF x \div 16 = r.s % Lines THEN Xor(Folded(r)[x % 16], Tmp(r)[x % 16])
                                                       ELSE r.pad[x]
    <3>1. PadAt(r, q + 1) = PadAfter(r)
      BY <1>5 DEF PadAt
    <3>2. x \in DOMAIN r.pad
      BY <2>2
    <3> QED
      BY <3>1, <3>2 DEF PadAfter
  <2>4. ASSUME NEW i \in mine, Cell(i) = y
        PROVE  \E t \in Lanes : i = 16 * h + t /\ Spot(r.s, t) = x
    <3>1. PICK g \in Hashes, t \in Lanes : i = 16 * g + t
      BY LaneNumbers
    <3>2. Cell(i) = PadWords * g + Spot(Round(g).s, t) /\ Spot(Round(g).s, t) \in 0 .. PadWords - 1
      BY <1>1, <3>1, CellIs
    <3>3. g = h /\ Spot(Round(g).s, t) = x
      BY <1>2, <2>4, <3>2, PadNumbers
    <3> QED
      BY <3>1, <3>3
  <2>5. \A t \in Lanes : Spot(r.s, t) = 16 * (r.s % Lines) + t
    BY <2>2, SpotIn
  <2>6. PICK line \in Nat : line = r.s % Lines
    BY <2>2, ReferenceAssumption
  <2>7. CASE x \div 16 = line
    <3>1. PICK t \in Lanes : t = x % 16 /\ x = 16 * line + t
      <4>1. x \in Nat
        BY PadNumbers
      <4> QED
        BY <2>7, <4>1 DEF Lanes
    <3>2. PICK i : i = 16 * h + t
      OBVIOUS
    <3>3. i \in mine /\ Cell(i) = y
      <4>1. i \in Invocations /\ Wave(i) = w
        BY <1>1, <3>2, LaneNumbers, SameWave DEF Of
      <4>2. Cell(i) = PadWords * h + Spot(r.s, t)
        BY <1>1, <3>2, CellIs
      <4>3. Spot(r.s, t) = x
        BY <2>5, <2>6, <3>1
      <4> QED
        BY <1>2, <4>1, <4>2, <4>3
    <3>4. ASSUME NEW j \in mine, Cell(j) = y PROVE j = i
      <4>1. PICK u \in Lanes : j = 16 * h + u /\ Spot(r.s, u) = x
        BY <2>4, <3>4
      <4>2. u = t
        BY <2>5, <2>6, <3>1, <4>1 DEF Lanes
      <4> QED
        BY <3>2, <4>1, <4>2
    <3>5. (CHOOSE j \in mine : Cell(j) = y) = i
      BY <3>3, <3>4
    <3>6. pad'[y] = Xor(fetched[i].out, lane[i].tmp)
      BY <2>1, <3>3, <3>5, Zenon
    <3>7. fetched[i] = [out |-> Folded(r)[t], va |-> Va2(r)[t]]
      <4>1. fetched[16 * h + t] = Fetches(r, q, t)
        BY Storing
      <4> QED
        BY <1>5, <3>2, <4>1 DEF Fetches
    <3>8. lane[i].tmp = Tmp(r)[t]
      <4>1. \A u \in Lanes : lane[16 * h + u].tmp = Tmp(r)[u]
        <5>1. Held(h, r, q)
          BY <1>a, Holds
        <5>2. q >= 1 /\ count > 0
          BY <1>1, <1>5
        <5> QED
          BY <5>1, <5>2, Zenon DEF Held
      <4> QED
        BY <3>2, <4>1
    <3>9. fetched[i].out = Folded(r)[t]
      BY <3>7
    <3> QED
      BY <1>2, <2>3, <2>6, <2>7, <3>1, <3>6, <3>8, <3>9, Zenon
  <2>8. CASE x \div 16 # line
    <3>1. ASSUME NEW i \in mine, Cell(i) = y PROVE FALSE
      <4>1. PICK t \in Lanes : Spot(r.s, t) = x
        BY <2>4, <3>1
      <4>2. x = 16 * line + t
        BY <2>5, <2>6, <4>1
      <4>3. (16 * line + t) \div 16 = line
        BY DEF Lanes
      <4> QED
        BY <2>8, <4>2, <4>3
    <3>2. pad'[y] = pad[y]
      BY <2>1, <3>1, Zenon
    <3>3. PadAt(r, q) = r.pad
      BY <1>5 DEF PadAt
    <3> QED
      BY <1>2, <1>3, <2>3, <2>6, <2>8, <3>2, <3>3, Zenon
  <2> QED
    BY <2>7, <2>8
<1> QED
  BY <1>4, <1>5

-----------------------------------------------------------------------------
\* A wave that stores ends its segment: its hashes are where the reference is
\* after that one, the others where they were.
LEMMA StoreMoves ==
    ASSUME Cn1Inv, NEW w \in Waves, Store(w)
    PROVE  /\ Waves' = Waves /\ \A h \in Hashes : Of(h)' = Of(h)
           /\ count' = count /\ finished' = finished /\ save' = save /\ wave' = wave
           /\ segments' \in [Waves -> 0 .. 5 * count] /\ segments'[w] = segments[w] + 1
           /\ \A v \in Waves \ {w} : segments'[v] = segments[v]
<1>1. /\ wave' = wave /\ count' = count /\ finished' = finished /\ save' = save
      /\ segments' = [segments EXCEPT ![w] = @ + 1]
  BY Zenon DEF Store
<1>2. segments \in [Waves -> 0 .. 5 * count] /\ count \in Nat
  BY DEF Cn1Inv, Cn1Type
<1>3. segments[w] \in 0 .. 5 * count /\ segments[w] < 5 * count
  BY <1>2, Storing
<1>4. segments[w] + 1 \in 0 .. 5 * count
  BY <1>2, <1>3
<1>5. Waves' = Waves /\ \A h \in Hashes : Of(h)' = Of(h)
  BY <1>1 DEF Waves, Of, Wave
<1> QED
  BY <1>1, <1>2, <1>4, <1>5

LEMMA StoreHolds ==
    ASSUME ComputesWords, Cn1Inv, NEW w \in Waves, Store(w), NEW h \in Hashes
    PROVE  HashHeld(h)'
<1> PICK v \in Waves : v = Of(h)
  BY SameWave DEF Of, Cn1Inv, Cn1Type
<1> PICK r : r = Round(h)
  OBVIOUS
<1> PICK q \in 0 .. 4 : q = Part(v)
  BY Progress DEF Cn1Inv
<1>1. r \in LoopState
  BY RoundTyped DEF Cn1Inv
<1>2. Of(h)' = v /\ count' = count /\ count > 0 /\ finished' = finished /\ save' = save
  BY StoreMoves, Storing
<1>3. finished' > 0 => save'[h].s = Rounds[finished'][h].s /\ save'[h].vs = Rounds[finished'][h].vs
  BY <1>2 DEF Cn1Inv, HashHeld
<1>4. CASE v # w
  <2>1. segments'[v] = segments[v]
    BY <1>4, StoreMoves
  <2>2. Begins(v)' = Begins(v) /\ Part(Of(h))' = q /\ Round(h)' = r
    BY <1>2, <2>1 DEF Begins, Part, Round
  <2>3. PadOf(h)' = PadOf(h) /\ LanesOf(h)' = LanesOf(h)
    BY <1>4, StoredElsewhere DEF PadOf, LanesOf
  <2>4. OutOf(h)' = OutOf(h) /\ VaOf(h)' = VaOf(h)
    BY <1>4, StoredElsewhere DEF OutOf, VaOf
  <2>5. PadOf(h) = PadAt(r, q) /\ LanesAt(r, q, LanesOf(h)) /\ SharedAt(r, q, OutOf(h), VaOf(h))
    BY <1>2 DEF Cn1Inv, HashHeld
  <2> QED
    BY <1>3, <2>2, <2>3, <2>4, <2>5, Zenon DEF HashHeld
<1>5. CASE v = w
  <2>1. segments'[v] = segments[v] + 1
    BY <1>5, StoreMoves
  <2>2. \A x \in 0 .. PadWords - 1 : pad'[PadWords * h + x] = PadAt(r, q + 1)[x]
    <3>1. PadNext(h, r, q)
      BY <1>5, StoredPad
    <3> QED
      BY <3>1 DEF PadNext
  <2>3. PadOf(h)' = PadAt(r, q + 1)
    <3>1. PadAt(r, q + 1) \in [0 .. PadWords - 1 -> Values]
      BY <1>1, StagesTyped DEF PadAt, LoopState
    <3> QED
      BY <2>2, <3>1 DEF PadOf
  <2>4. \A t \in Lanes : LanesOf(h)'[t] = lane'[16 * h + t]
    BY DEF LanesOf
  <2>l. LanesNext(h, r, q)
    BY <1>5, StoredLanes
  <2>5. CASE q < 4
    <3>1. Begins(v)' = Begins(v) /\ Part(v)' = q + 1
      BY <1>2, <1>5, <2>1, <2>5, Progress, Storing DEF Begins, Part, Cn1Inv
    <3>2. Part(Of(h))' = q + 1 /\ Round(h)' = r
      BY <1>2, <3>1 DEF Round, Part, Begins
    <3>3. LanesAt(r, q + 1, LanesOf(h)')
      <4>1. \A t \in Lanes : lane'[16 * h + t] = [s |-> r.s, vs |-> r.vs, tmp |-> Tmp(r)[t]]
        BY <2>5, <2>l DEF LanesNext
      <4>2. ASSUME NEW t \in Lanes
            PROVE  /\ LanesOf(h)'[t] = [s |-> r.s, vs |-> r.vs, tmp |-> LanesOf(h)'[t].tmp]
                   /\ LanesOf(h)'[t].tmp = Tmp(r)[t]
        <5>1. LanesOf(h)'[t] = [s |-> r.s, vs |-> r.vs, tmp |-> Tmp(r)[t]]
          BY <2>4, <4>1, Zenon
        <5>2. PICK L : L = LanesOf(h)'[t]
          OBVIOUS
        <5>3. L = [s |-> r.s, vs |-> r.vs, tmp |-> L.tmp] /\ L.tmp = Tmp(r)[t]
          BY <5>1, <5>2
        <5> QED
          BY <5>2, <5>3, Zenon
      <4> QED
        BY <4>2 DEF LanesAt
    <3>4. SharedAt(r, q + 1, OutOf(h)', VaOf(h)')
      <4>1. \A x \in SharedPlaces : OutOf(h)'[x] = sout'[64 * h + x] /\ VaOf(h)'[x] = sva'[64 * h + x]
        BY DEF OutOf, VaOf
      <4>2. /\ DOMAIN OutOf(h)' = SharedPlaces /\ OutOf(h)' = [x \in SharedPlaces |-> OutOf(h)'[x]]
            /\ DOMAIN VaOf(h)' = SharedPlaces /\ VaOf(h)' = [x \in SharedPlaces |-> VaOf(h)'[x]]
        BY DEF OutOf, VaOf
      <4>3. /\ q = 0 => \A t \in Lanes : sout'[64 * h + t] = Tmp(r)[t]
            /\ q = 1 => \A x \in SharedPlaces : sout'[64 * h + x] = Out1(r)[x] /\ sva'[64 * h + x] = Va1(r)[x]
            /\ q = 2 => \A x \in SharedPlaces : sout'[64 * h + x] = Out2(r)[x] /\ sva'[64 * h + x] = Va2(r)[x]
            /\ q = 3 => \A t \in Lanes : /\ sout'[64 * h + t] = Out3(r)[t]
                                         /\ sva'[64 * h + t] = Rescale(Sums(r)[t])
        <5>1. SharedNext(h, r, q)
          BY <1>5, StoredShared
        <5> QED
          BY <5>1 DEF SharedNext
      <4>4. Lanes \subseteq SharedPlaces
        BY DEF Lanes, SharedPlaces
      <4>5. PICK O, V : O = OutOf(h)' /\ V = VaOf(h)'
        OBVIOUS
      <4>6. q + 1 = 1 => \A t \in Lanes : O[t] = Tmp(r)[t]
        BY <4>1, <4>3, <4>4, <4>5
      <4>7. q + 1 = 2 => O = Out1(r) /\ V = Va1(r)
        BY <4>1, <4>2, <4>3, <4>5 DEF Out1, Va1
      <4>8. q + 1 = 3 => O = Out2(r) /\ V = Va2(r)
        BY <4>1, <4>2, <4>3, <4>5 DEF Out2, Va2
      <4>9. q + 1 = 4 => \A t \in Lanes : O[t] = Out3(r)[t] /\ V[t] = Rescale(Sums(r)[t])
        BY <4>1, <4>3, <4>4, <4>5
      <4> QED
        BY <4>5, <4>6, <4>7, <4>8, <4>9 DEF SharedAt
    <3> QED
      BY <1>3, <2>3, <3>2, <3>3, <3>4, Zenon DEF HashHeld
  <2>6. CASE q = 4
    <3>1. Begins(v)' = Begins(v) + 1 /\ Part(v)' = 0 /\ Begins(v) + 1 \in 1 .. Iterations
      <4>1. Part(v) = 4 /\ segments[v] < 5 * count
        BY <1>5, <2>6, Storing
      <4>2. /\ Begins(v) + 1 \in 1 .. Iterations /\ segments[v] \in 0 .. 5 * count
            /\ (segments[v] + 1) \div 5 = segments[v] \div 5 + 1 /\ (segments[v] + 1) % 5 = 0
        BY <4>1, Progress DEF Cn1Inv
      <4>3. finished \in Nat /\ count \in Nat
        BY DEF Cn1Inv, Cn1Type
      <4>4. Begins(v)' = finished + (segments[v] + 1) \div 5 /\ Part(v)' = (segments[v] + 1) % 5
        BY <1>2, <2>1 DEF Begins, Part
      <4>5. Begins(v)' = Begins(v) + 1
        BY <4>2, <4>3, <4>4 DEF Begins
      <4> QED
        BY <4>2, <4>4, <4>5
    <3>2. Part(Of(h))' = 0 /\ Round(h)' = Iterate(r)
      <4>1. PICK b \in 1 .. Iterations : b = Begins(v) + 1
        BY <3>1
      <4>2. Begins(v) = b - 1
        BY <4>1, Progress DEF Cn1Inv
      <4>3. r = Rounds[b - 1][h] /\ Round(h)' = Rounds[b][h]
        BY <1>2, <3>1, <4>1, <4>2 DEF Round, Begins
      <4>4. Rounds[b][h] = Iterate(Rounds[b - 1][h])
        BY RoundsFound
      <4> QED
        BY <1>2, <3>1, <4>3, <4>4 DEF Part
    <3>3. PadOf(h)' = PadAt(Iterate(r), 0)
      BY <2>3, <2>6, IterateIs DEF PadAt
    <3>4. LanesAt(Iterate(r), 0, LanesOf(h)')
      <4>1. \A t \in Lanes : lane'[16 * h + t] = [s |-> Iterate(r).s, vs |-> Iterate(r).vs, tmp |-> 0]
        BY <2>6, <2>l DEF LanesNext
      <4> QED
        BY <2>4, <4>1 DEF LanesAt
    <3>5. SharedAt(Iterate(r), 0, OutOf(h)', VaOf(h)')
      BY DEF SharedAt
    <3> QED
      BY <1>3, <3>2, <3>3, <3>4, <3>5, Zenon DEF HashHeld
  <2> QED
    BY <2>5, <2>6
<1> QED
  BY <1>4, <1>5

LEMMA StoreKeeps ==
    ASSUME ComputesWords, Cn1Inv, NEW w \in Waves, Store(w)
    PROVE  Cn1Inv'
<1>1. Cn1Type'
  <2>1. DOMAIN pad' = DOMAIN pad
    BY DEF Store
  <2> QED
    BY <2>1, StoreMoves, WaveStays DEF Cn1Inv, Cn1Type
<1>2. \A h \in Hashes : HashHeld(h)'
  BY StoreHolds
<1>3. ASSUME NEW v \in Waves PROVE WaveHeld(v)'
  <2>1. fetched' = [i \in Invocations |-> IF Wave(i) = w THEN None ELSE fetched[i]]
    BY DEF Store
  <2>2. \A i \in Invocations : Wave(i)' = Wave(i)
    BY StoreMoves DEF Wave
  <2>3. CASE v = w
    BY <2>1, <2>2, <2>3 DEF WaveHeld, Idle
  <2>4. CASE v # w /\ Idle(v)
    BY <2>1, <2>2, <2>4 DEF WaveHeld, Idle
  <2>5. CASE v # w /\ ~Idle(v)
    <3>1. segments'[v] = segments[v] /\ finished' = finished /\ count' = count
      BY <2>5, StoreMoves
    <3>2. /\ segments[v] < 5 * count
          /\ \A i \in Invocations : Wave(i) = v => fetched[i] = Fetches(Round(HashOf(i)), Part(v), Tid(i))
      BY <2>5 DEF Cn1Inv, WaveHeld
    <3>3. ASSUME NEW i \in Invocations, Wave(i) = v
          PROVE  fetched'[i] = Fetches(Round(HashOf(i))', Part(v)', Tid(i))
      <4>1. PICK h \in Hashes : h = HashOf(i)
        BY LaneNumbers
      <4>2. Of(h) = v /\ Of(h)' = v
        BY <3>3, <4>1, SameWave, StoreMoves DEF Of, Cn1Inv, Cn1Type
      <4>3. Round(h)' = Round(h) /\ Part(v)' = Part(v)
        BY <3>1, <4>2 DEF Round, Begins, Part
      <4>4. fetched'[i] = fetched[i]
        BY <2>1, <2>5, <3>3
      <4>5. Round(HashOf(i))' = Round(h)'
        BY <4>1 DEF Round, Begins, Of
      <4> QED
        BY <3>2, <3>3, <4>1, <4>3, <4>4, <4>5
    <3>4. segments'[v] < 5 * count'
      BY <3>1, <3>2
    <3> QED
      BY <2>2, <3>3, <3>4 DEF WaveHeld
  <2> QED
    BY <2>3, <2>4, <2>5
<1> QED
  BY <1>1, <1>2, <1>3, StoreMoves DEF Cn1Inv

\* The other steps move no wave.
LEMMA FetchKeeps ==
    ASSUME ComputesWords, Cn1Inv, NEW w \in Waves, Fetch(w)
    PROVE  Cn1Inv'
<1>1. /\ segments[w] < 5 * count /\ Idle(w)
      /\ UNCHANGED <<wave, count, finished, segments, lane, sout, sva, pad, save>>
  BY DEF Fetch, SegmentsIn
<1>2. Cn1Type' /\ Waves' = Waves
  BY <1>1, WaveStays DEF Cn1Inv, Cn1Type, Waves, Wave
<1>3. \A h \in Hashes : /\ Of(h)' = Of(h) /\ Round(h)' = Round(h)
                        /\ PadOf(h)' = PadOf(h) /\ LanesOf(h)' = LanesOf(h)
                        /\ OutOf(h)' = OutOf(h) /\ VaOf(h)' = VaOf(h)
  BY <1>1 DEF Of, Wave, Round, Begins, PadOf, LanesOf, OutOf, VaOf
<1>4. \A v : Part(v)' = Part(v)
  BY <1>1 DEF Part
<1>5. \A h \in Hashes : HashHeld(h)'
  <2> SUFFICES ASSUME NEW h \in Hashes PROVE HashHeld(h)'
    OBVIOUS
  <2>1. HashHeld(h)
    BY DEF Cn1Inv
  <2>2. Part(Of(h))' = Part(Of(h))
    BY <1>1 DEF Part, Of, Wave
  <2> QED
    BY <1>1, <1>3, <2>1, <2>2 DEF HashHeld
<1>6. ASSUME NEW v \in Waves PROVE WaveHeld(v)'
  <2>1. \A i \in Invocations : Wave(i)' = Wave(i) /\ Round(HashOf(i))' = Round(HashOf(i))
    BY <1>1 DEF Wave, Round, Begins, Of
  <2>2. CASE v = w
    <3>1. ASSUME NEW i \in Invocations, Wave(i) = w
          PROVE  fetched'[i] = Fetches(Round(HashOf(i)), Part(w), Tid(i))
      <4>1. PICK h \in Hashes : h = HashOf(i)
        BY LaneNumbers
      <4>2. PICK q \in 0 .. 4 : q = Part(w)
        BY Progress DEF Cn1Inv
      <4>3. Of(h) = w
        BY <3>1, <4>1, SameWave DEF Of, Cn1Inv, Cn1Type
      <4>4. count > 0
        BY <1>1, Progress DEF Cn1Inv, Cn1Type
      <4>5. PICK r : r = Round(h)
        OBVIOUS
      <4>6. Part(Of(h)) = q
        BY <4>2, <4>3
      <4>7. PICK t : t = Tid(i)
        OBVIOUS
      <4>8. /\ q = 0 => Fill0(i) = Fetches(r, q, t)
            /\ q = 1 => Mix(i) = Fetches(r, q, t)
            /\ q = 2 => Fold(i) = Fetches(r, q, t)
            /\ q = 3 => SecondFold(i) = Fetches(r, q, t)
            /\ q = 4 => Reload(i) = Fetches(r, q, t)
        BY <4>1, <4>4, <4>5, <4>6, <4>7, FetchIs
      <4>9. fetched'[i] = CASE q = 0 -> Fill0(i) [] q = 1 -> Mix(i) [] q = 2 -> Fold(i)
                            [] q = 3 -> SecondFold(i) [] q = 4 -> Reload(i)
        BY <3>1, <4>2 DEF Fetch, Part
      <4>10. fetched'[i] = Fetches(r, q, t)
        BY <4>8, <4>9
      <4> QED
        BY <4>1, <4>2, <4>5, <4>7, <4>10
    <3> QED
      BY <1>1, <1>4, <2>1, <2>2, <3>1 DEF WaveHeld
  <2>3. CASE v # w
    <3>1. \A i \in Invocations : Wave(i) = v => fetched'[i] = fetched[i]
      BY <2>3 DEF Fetch
    <3>2. WaveHeld(v)
      BY DEF Cn1Inv
    <3>3. Idle(v) => Idle(v)'
      BY <2>1, <3>1 DEF Idle
    <3> QED
      BY <1>1, <1>4, <2>1, <3>1, <3>2, <3>3 DEF WaveHeld
  <2> QED
    BY <2>2, <2>3
<1> QED
  BY <1>2, <1>5, <1>6 DEF Cn1Inv

LEMMA BeginKeeps ==
    ASSUME ComputesWords, Cn1Inv, BeginSlice
    PROVE  Cn1Inv'
<1>1. /\ count = 0 /\ count' \in 1 .. Iterations - finished
      /\ lane' = [i \in Invocations |-> Restore(HashOf(i))]
      /\ UNCHANGED <<wave, finished, segments, fetched, sout, sva, pad, save>>
  BY DEF BeginSlice
<1>2. /\ finished \in Nat /\ Iterations \in Nat /\ segments \in [Waves -> 0 .. 0]
      /\ HashesShareWave
  BY <1>1, ReferenceAssumption DEF Cn1Inv, Cn1Type
<1>3. Cn1Type' /\ Waves' = Waves
  <2>1. Waves' = Waves
    BY <1>1 DEF Waves, Wave
  <2>2. segments' \in [Waves -> 0 .. 5 * count']
    BY <1>1, <1>2
  <2>3. count' \in Nat /\ finished' \in Nat /\ finished' + count' <= Iterations /\ HashesShareWave'
    <3>1. count' \in 1 .. Iterations - finished /\ finished' = finished /\ wave' = wave
      BY <1>1
    <3>2. finished \in Nat /\ Iterations \in Nat /\ HashesShareWave
      BY <1>2
    <3>3. PICK c \in 1 .. Iterations - finished : c = count'
      BY <3>1
    <3>4. c \in Nat /\ finished + c <= Iterations
      BY <3>2
    <3>5. HashesShareWave'
      BY <3>1, <3>2, WaveStays
    <3> QED
      BY <3>1, <3>2, <3>3, <3>4, <3>5
  <2>4. DOMAIN pad' = 0 .. PadWords * Cardinality(Hashes) - 1
    BY <1>1 DEF Cn1Inv, Cn1Type
  <2> QED
    BY <2>1, <2>2, <2>3, <2>4 DEF Cn1Type
<1>4. ASSUME NEW v \in Waves PROVE WaveHeld(v)'
  <2>1. Idle(v)
    BY <1>1, <1>2 DEF Cn1Inv, WaveHeld
  <2>2. Idle(v)'
    BY <1>1, <2>1 DEF Idle, Wave
  <2> QED
    BY <2>2 DEF WaveHeld
<1>5. ASSUME NEW h \in Hashes PROVE HashHeld(h)'
  <2>1. PICK v \in Waves : v = Of(h)
    BY <1>2, SameWave DEF Of
  <2>2. segments[v] = 0
    BY <1>2
  <2>3. Of(h)' = v /\ Part(v) = 0 /\ Begins(v) = finished /\ Part(v)' = 0 /\ Begins(v)' = finished
    BY <1>1, <1>2, <2>1, <2>2 DEF Of, Wave, Part, Begins
  <2>4. PICK r : r = Rounds[finished][h]
    OBVIOUS
  <2>5. Round(h) = r /\ Round(h)' = r
    BY <2>1, <2>3, <2>4 DEF Round, Begins
  <2>6. Part(Of(h))' = 0 /\ Part(Of(h)) = 0
    BY <2>1, <2>3 DEF Part
  <2>7. PadOf(h)' = PadAt(r, 0)
    <3>1. PadOf(h) = PadAt(r, 0)
      BY <2>5, <2>6 DEF Cn1Inv, HashHeld
    <3> QED
      BY <1>1, <3>1 DEF PadOf
  <2>8. SharedAt(r, 0, OutOf(h)', VaOf(h)')
    BY DEF SharedAt
  <2>9. LanesAt(r, 0, LanesOf(h)')
    <3>1. \A t \in Lanes : LanesOf(h)'[t] = Restore(h)
      BY <1>1, LaneNumbers DEF LanesOf
    <3>2. CASE finished = 0
      <4>1. r = Begun(h)
        BY <2>4, <3>2, RoundsFound
      <4>2. Restore(h) = [s |-> r.s, vs |-> r.vs, tmp |-> 0]
        BY <3>2, <4>1 DEF Restore, FromStates, Begun
      <4> QED
        BY <3>1, <4>2 DEF LanesAt
    <3>3. CASE finished > 0
      <4>1. save[h].s = r.s /\ save[h].vs = r.vs
        BY <2>4, <3>3 DEF Cn1Inv, HashHeld
      <4>2. Restore(h) = [s |-> r.s, vs |-> r.vs, tmp |-> 0]
        BY <3>3, <4>1 DEF Restore, FromSave
      <4> QED
        BY <3>1, <4>2 DEF LanesAt
    <3> QED
      BY <1>2, <3>2, <3>3
  <2>10. finished' > 0 => save'[h].s = Rounds[finished'][h].s /\ save'[h].vs = Rounds[finished'][h].vs
    BY <1>1 DEF Cn1Inv, HashHeld
  <2> QED
    BY <2>5, <2>6, <2>7, <2>8, <2>9, <2>10, Zenon DEF HashHeld
<1> QED
  BY <1>3, <1>4, <1>5 DEF Cn1Inv

LEMMA EndKeeps ==
    ASSUME ComputesWords, Cn1Inv, EndSlice
    PROVE  Cn1Inv'
<1>1. /\ count > 0 /\ count' = 0 /\ finished' = finished + count
      /\ \A w \in Waves : segments[w] = 5 * count
      /\ segments' = [w \in Waves |-> 0]
      /\ save' = [h \in Hashes |-> [s |-> lane[16 * h].s, vs |-> lane[16 * h].vs]]
      /\ UNCHANGED <<wave, fetched, lane, sout, sva, pad>>
  BY DEF EndSlice, SegmentsIn
<1>2. finished \in Nat /\ count \in Nat /\ finished + count <= Iterations /\ HashesShareWave
  BY DEF Cn1Inv, Cn1Type
<1>3. Cn1Type' /\ Waves' = Waves
  <2>1. Waves' = Waves
    BY <1>1 DEF Waves, Wave
  <2>2. segments' \in [Waves -> 0 .. 5 * count']
    BY <1>1
  <2>3. HashesShareWave'
    BY <1>1, <1>2, WaveStays
  <2> QED
    BY <1>1, <1>2, <2>1, <2>2, <2>3 DEF Cn1Inv, Cn1Type
<1>4. ASSUME NEW v \in Waves PROVE WaveHeld(v)'
  <2>1. Idle(v)
    BY <1>1, <1>2 DEF Cn1Inv, WaveHeld
  <2>2. Idle(v)'
    BY <1>1, <2>1 DEF Idle, Wave
  <2> QED
    BY <2>2 DEF WaveHeld
<1>5. ASSUME NEW h \in Hashes PROVE HashHeld(h)'
  <2>1. PICK v \in Waves : v = Of(h)
    BY <1>2, SameWave DEF Of
  <2>2. segments[v] = 5 * count /\ segments'[v] = 0
    BY <1>1
  <2>3. (5 * count) \div 5 = count /\ (5 * count) % 5 = 0
    BY <1>2
  <2>4. Of(h)' = v /\ Part(v) = 0 /\ Begins(v) = finished' /\ Part(v)' = 0 /\ Begins(v)' = finished'
    BY <1>1, <1>2, <2>1, <2>2, <2>3 DEF Of, Wave, Part, Begins
  <2>5. PICK r : r = Rounds[finished'][h]
    OBVIOUS
  <2>6. Round(h) = r /\ Round(h)' = r
    BY <2>1, <2>4, <2>5 DEF Round, Begins
  <2>7. Part(Of(h))' = 0 /\ Part(Of(h)) = 0
    BY <2>1, <2>4 DEF Part
  <2>8. PadOf(h) = PadAt(r, 0) /\ LanesAt(r, 0, LanesOf(h))
    BY <1>1, <2>6, <2>7 DEF Cn1Inv, HashHeld
  <2>9. PadOf(h)' = PadAt(r, 0)
    BY <1>1, <2>8 DEF PadOf
  <2>10. save'[h].s = r.s /\ save'[h].vs = r.vs
    <3>1. 0 \in Lanes /\ 16 * h + 0 = 16 * h
      BY LaneNumbers DEF Lanes
    <3>2. LanesOf(h)[0] = lane[16 * h]
      BY <3>1 DEF LanesOf
    <3>3. lane[16 * h] = [s |-> r.s, vs |-> r.vs, tmp |-> lane[16 * h].tmp]
      BY <2>8, <3>1, <3>2, Zenon DEF LanesAt
    <3>4. lane[16 * h].s = r.s /\ lane[16 * h].vs = r.vs
      BY <3>3
    <3>5. save'[h] = [s |-> lane[16 * h].s, vs |-> lane[16 * h].vs]
      BY <1>1
    <3> QED
      BY <3>4, <3>5
  <2> QED
    BY <1>1, <2>5, <2>6, <2>7, <2>9, <2>10 DEF HashHeld
<1> QED
  BY <1>3, <1>4, <1>5 DEF Cn1Inv

LEMMA Cn1Starts == ASSUME Cn1Init, HashesShareWave PROVE Cn1Inv
<1>1. /\ HashesShareWave /\ count = 0 /\ finished = 0 /\ segments = [w \in Waves |-> 0]
      /\ fetched = [i \in Invocations |-> None]
      /\ pad = [x \in 0 .. PadWords * Cardinality(Hashes) - 1 |-> Fill(x \div PadWords, x % PadWords)]
  BY DEF Cn1Init
<1>2. Cn1Type
  BY <1>1, ReferenceAssumption DEF Cn1Type
<1>3. \A w \in Waves : WaveHeld(w)
  BY <1>1 DEF WaveHeld, Idle
<1>4. ASSUME NEW h \in Hashes PROVE HashHeld(h)
  <2>1. PICK v \in Waves : v = Of(h)
    BY <1>1, SameWave DEF Of
  <2>2. Part(Of(h)) = 0 /\ Begins(Of(h)) = 0
    BY <1>1, <2>1 DEF Part, Begins
  <2>3. Round(h) = Begun(h)
    BY <2>2, RoundsFound DEF Round
  <2>4. \A x \in 0 .. PadWords - 1 : pad[PadWords * h + x] = Fill(h, x)
    BY <1>1, PadNumbers
  <2>5. PadOf(h) = PadAt(Begun(h), 0)
    BY <2>4 DEF PadOf, PadAt, Begun
  <2> QED
    BY <1>1, <2>2, <2>3, <2>5 DEF HashHeld
<1> QED
  BY <1>2, <1>3, <1>4 DEF Cn1Inv

LEMMA Cn1Stays == ASSUME Cn1Inv, UNCHANGED cn1Vars PROVE Cn1Inv'
<1>1. UNCHANGED <<wave, count, finished, segments, fetched, lane, sout, sva, pad, save>>
  BY DEF cn1Vars
<1> QED
  BY <1>1, WaveStays DEF Cn1Inv, Cn1Type, HashHeld, WaveHeld, Waves, Wave, Idle, Of, Round, Begins, Part,
              PadOf, LanesOf, OutOf, VaOf

LEMMA Cn1Keeps ==
    ASSUME ComputesWords, Cn1Inv, Cn1Next PROVE Cn1Inv'
  BY BeginKeeps, EndKeeps, FetchKeeps, StoreKeeps DEF Cn1Next, WaveStep

\* What cn1 leaves when it has run all slices is what the loop of the reference
\* leaves.
LEMMA Cn1Leaves ==
    ASSUME ComputesWords, Cn1Inv, finished = Iterations, NEW h \in Hashes
    PROVE  /\ Rounds[Iterations][h] \in LoopState
           /\ PadOf(h) = Rounds[Iterations][h].pad
<1>1. Iterations \in Nat /\ finished \in Nat /\ count \in Nat /\ finished + count <= Iterations
  BY ReferenceAssumption DEF Cn1Inv, Cn1Type
<1>2. count = 0
  BY <1>1
<1>3. PICK v \in Waves : v = Of(h)
  BY SameWave DEF Of, Cn1Inv, Cn1Type
<1>4. segments[v] = 0
  BY <1>2 DEF Cn1Inv, Cn1Type
<1>5. Part(Of(h)) = 0 /\ Begins(Of(h)) = Iterations
  BY <1>1, <1>3, <1>4 DEF Part, Begins
<1>6. Round(h) = Rounds[Iterations][h]
  BY <1>5 DEF Round
<1>7. PadOf(h) = PadAt(Round(h), 0)
  BY <1>5 DEF Cn1Inv, HashHeld
<1>8. Iterations \in 0 .. Iterations
  BY <1>1
<1> QED
  BY <1>6, <1>7, <1>8, RoundsTyped DEF PadAt

-----------------------------------------------------------------------------
\* The invariant of cn2: for a lane, what it holds after p segments.

\* What cn1 leaves for a hash, and what the reference makes of it.
Left(h) == Rounds[Iterations][h].pad
LoopAt(h, n) == LoopText(h, Left(h))[n]
TailAt(h, m) == TailText(h, WithNext(LoopAt(h, Loops).text, LoopAt(h, Loops).xin2))[m]
TailMix(h, m) == Mixed(TailAt(h, m - 1), h)

LoadIs(h, l, p, x) ==
    /\ p = 0 => x = FirstText(h, Left(h), 1)[l]
    /\ \A n \in 1 .. Loops : /\ p = 2 * n - 1 => x = FirstXin(h, Left(h), n)[l]
                             /\ p = 2 * n => x = SecondXin(h, Left(h), n)[l]
    /\ \A m \in 1 .. TailRounds :
          p = Leave + 2 * m - 2 \/ p = Leave + 2 * m - 1 => x = TailMix(h, m)[l]
    /\ p = Flag - 1 => x = TailAt(h, TailRounds)[l]
TextIs(h, l, p, x) ==
    /\ \A n \in 1 .. Loops : /\ p = 2 * n - 1 => x = FirstText(h, Left(h), n)[l]
                             /\ p = 2 * n => x = SecondText(h, Left(h), n)[l]
    /\ p = Leave => x = LoopAt(h, Loops).text[l]
    /\ \A m \in 1 .. TailRounds :
          p = Leave + 2 * m - 1 \/ p = Leave + 2 * m => x = TailMix(h, m)[l]
Xin1Is(h, l, p, x) ==
    /\ \A n \in 1 .. Loops :
          p = 2 * n \/ p = 2 * n + 1 => x = FirstXin(h, Left(h), n)[l]
    /\ \A m \in 1 .. TailRounds :
          p = Leave + 2 * m \/ p = Leave + 2 * m + 1 => x = TailMix(h, m)[l]
Xin2Is(h, l, p, x) ==
    \A n \in 0 .. Loops : p = 2 * n + 1 \/ p = 2 * n + 2 => x = LoopAt(h, n).xin2[l]
StateIs(h, l, p, x) ==
    /\ p < Flag => x = State(h, l)
    /\ p = Flag => x = TailAt(h, TailRounds)[l]

LaneHeld(j, h, l, p) ==
    /\ TextIs(h, l, p, text[j])
    /\ Xin1Is(h, l, p, xin1[j])
    /\ Xin2Is(h, l, p, xin2[j])
    /\ StateIs(h, l, p, states[j])
    /\ loaded[j] # Nothing => p < Flag /\ LoadIs(h, l, p, loaded[j])

\* The waves are never more than a segment apart, and one that has loaded is
\* not ahead.
Level ==
    /\ passed \in [Waves2 -> 0 .. Flag]
    /\ \A v, w \in Waves2 : passed[v] <= passed[w] + 1
    /\ \A j \in CnLanes : loaded[j] # Nothing => \A v \in Waves2 : passed[v] >= passed[Wave2(j)]

TextInv ==
    /\ wave2 \in Cn2Waves
    /\ Level
    /\ \A j \in CnLanes : LaneHeld(j, Group(j), j % 8, passed[Wave2(j)])

\* The hashes that have drawn a place, and those that meet the target.
Drawn == {h \in Hashes : claimed[h] # Unclaimed /\ claimed[h] # Skipped}
Waiting(h) == claimed[h] < Unclaimed
Hits == {h \in Hashes : FusionHash[h] <= target}

ClaimInv ==
    /\ claimed \in [Hashes -> Nat]
    /\ \A h \in Hashes : claimed[h] <= Stored
    /\ DOMAIN output = 0 .. Cap
    /\ output[Cap] = Cardinality(Drawn)
    /\ Drawn \subseteq Hits
    /\ \A h \in Hashes : claimed[h] = Skipped => h \notin Hits
    /\ \A h \in Hashes : Waiting(h) => claimed[h] < output[Cap]
    /\ \A g, h \in Hashes : Waiting(g) /\ Waiting(h) /\ claimed[g] = claimed[h] => g = h
    /\ \A x \in 0 .. Cap - 1 : output[x] # Empty =>
          output[x] \in Hashes /\ claimed[output[x]] = Stored /\ x < output[Cap]
    /\ \A x, y \in 0 .. Cap - 1 : output[x] # Empty /\ output[x] = output[y] => x = y
    /\ \A x \in 0 .. Cap - 1 : x < output[Cap] /\ output[x] = Empty => \E h \in Hashes : claimed[h] = x
    /\ \A h \in Hashes : claimed[h] < Cap => output[claimed[h]] = Empty

Cn2Inv == TextInv /\ ClaimInv

-----------------------------------------------------------------------------
\* The segments of cn2, and what a lane reads and stores in one.
LEMMA Sizes ==
    /\ Loops \in Nat \ {0} /\ TailRounds \in Nat \ {0}
    /\ Leave = 2 * Loops + 1 /\ Flag = Leave + 2 * TailRounds + 1
    /\ Leave \in Nat /\ Flag \in Nat
<1>1. Lines \in Nat \ {0} /\ Lines % 4 = 0 /\ TailRounds \in Nat \ {0}
  BY ReferenceAssumption
<1>2. Lines \div 2 \in Nat \ {0}
  BY <1>1
<1> QED
  BY <1>1, <1>2 DEF Loops, Leave, Flag

LEMMA Kinds ==
    ASSUME NEW p \in 0 .. Flag - 1
    PROVE  /\ \/ Enters(p) \/ LoopFirst(p) \/ LoopSecond(p)
              \/ Leaves(p) \/ TailWrite(p) \/ TailRead(p)
           /\ LoopFirst(p) => \E n \in 1 .. Loops : p = 2 * n - 1
           /\ LoopSecond(p) => \E n \in 1 .. Loops : p = 2 * n
           /\ TailWrite(p) => \E m \in 1 .. TailRounds : p = Leave + 2 * m - 1
           /\ TailRead(p) => \E m \in 1 .. TailRounds : p = Leave + 2 * m
<1>1. ASSUME LoopFirst(p) PROVE \E n \in 1 .. Loops : p = 2 * n - 1
  <2>1. PICK n : n = (p + 1) \div 2
    OBVIOUS
  <2>2. n \in 1 .. Loops /\ p = 2 * n - 1
    BY <1>1, <2>1, Sizes DEF LoopFirst
  <2> QED
    BY <2>2
<1>2. ASSUME LoopSecond(p) PROVE \E n \in 1 .. Loops : p = 2 * n
  <2>1. PICK n : n = p \div 2
    OBVIOUS
  <2>2. n \in 1 .. Loops /\ p = 2 * n
    BY <1>2, <2>1, Sizes DEF LoopSecond
  <2> QED
    BY <2>2
<1>3. ASSUME TailWrite(p) PROVE \E m \in 1 .. TailRounds : p = Leave + 2 * m - 1
  <2>1. PICK d \in 1 .. 2 * TailRounds : d = p - Leave /\ d % 2 = 1
    BY <1>3, Sizes DEF TailWrite
  <2>2. PICK m : m = (d + 1) \div 2
    OBVIOUS
  <2>3. m \in 1 .. TailRounds /\ p = Leave + 2 * m - 1
    BY <2>1, <2>2, Sizes
  <2> QED
    BY <2>3
<1>4. ASSUME TailRead(p) PROVE \E m \in 1 .. TailRounds : p = Leave + 2 * m
  <2>1. PICK d \in 1 .. 2 * TailRounds : d = p - Leave /\ d % 2 = 0
    BY <1>4, Sizes DEF TailRead
  <2>2. PICK m : m = d \div 2
    OBVIOUS
  <2>3. m \in 1 .. TailRounds /\ p = Leave + 2 * m
    BY <2>1, <2>2, Sizes
  <2> QED
    BY <2>3
<1>5. \/ Enters(p) \/ LoopFirst(p) \/ LoopSecond(p) \/ Leaves(p) \/ TailWrite(p) \/ TailRead(p)
  <2>1. CASE p \in 1 .. 2 * Loops
    BY <2>1, Sizes DEF LoopFirst, LoopSecond
  <2>2. CASE p \in Leave + 1 .. Flag - 1
    BY <2>2, Sizes DEF TailWrite, TailRead
  <2> QED
    BY <2>1, <2>2, Sizes DEF Enters, Leaves
<1> QED
  BY <1>1, <1>2, <1>3, <1>4, <1>5

LEMMA KindsApart ==
    ASSUME NEW p \in 0 .. Flag - 1
    PROVE  /\ Enters(p) => ~LoopFirst(p) /\ ~LoopSecond(p) /\ ~Leaves(p) /\ ~TailWrite(p) /\ ~TailRead(p)
           /\ LoopFirst(p) => ~LoopSecond(p) /\ ~Leaves(p) /\ ~TailWrite(p) /\ ~TailRead(p)
           /\ LoopSecond(p) => ~Leaves(p) /\ ~TailWrite(p) /\ ~TailRead(p)
           /\ Leaves(p) => ~TailWrite(p) /\ ~TailRead(p)
           /\ TailWrite(p) => ~TailRead(p)
           /\ p = Flag - 1 => TailRead(p)
  BY Sizes DEF Enters, LoopFirst, LoopSecond, Leaves, TailWrite, TailRead

\* A round of the loop, by its parts.
LEMMA LoopParts ==
    ASSUME NEW h
    PROVE  /\ \A l \in Texts : LoopAt(h, 0).text[l] = State(h, l) /\ LoopAt(h, 0).xin2[l] = 0
           /\ \A n \in 1 .. Loops : /\ LoopAt(h, n).text = SecondXin(h, Left(h), n)
                                    /\ LoopAt(h, n).xin2 = SecondXin(h, Left(h), n)
<1>1. PICK P : P = Left(h)
  OBVIOUS
<1>2. /\ LoopText(h, P)[0] = [text |-> [l \in Texts |-> State(h, l)], xin2 |-> [l \in Texts |-> 0]]
      /\ \A n \in 1 .. Loops :
            LoopText(h, P)[n] = [text |-> SecondXin(h, P, n), xin2 |-> SecondXin(h, P, n)]
  BY LoopFound, Zenon
<1>3. LoopAt(h, 0) = [text |-> [l \in Texts |-> State(h, l)], xin2 |-> [l \in Texts |-> 0]]
  BY <1>1, <1>2, Zenon DEF LoopAt
<1>4. \A n \in 1 .. Loops : LoopAt(h, n) = [text |-> SecondXin(h, P, n), xin2 |-> SecondXin(h, P, n)]
  BY <1>1, <1>2, Zenon DEF LoopAt
<1> QED
  BY <1>1, <1>3, <1>4

\* The value that is right for each kind is right.
LEMMA LoadRight ==
    ASSUME NEW h, NEW l
    PROVE  /\ LoadIs(h, l, 0, FirstText(h, Left(h), 1)[l])
           /\ \A n \in 1 .. Loops : /\ LoadIs(h, l, 2 * n - 1, FirstXin(h, Left(h), n)[l])
                                    /\ LoadIs(h, l, 2 * n, SecondXin(h, Left(h), n)[l])
           /\ LoadIs(h, l, Leave, TailMix(h, 1)[l])
           /\ \A m \in 1 .. TailRounds : LoadIs(h, l, Leave + 2 * m - 1, TailMix(h, m)[l])
           /\ \A m \in 1 .. TailRounds - 1 : LoadIs(h, l, Leave + 2 * m, TailMix(h, m + 1)[l])
           /\ LoadIs(h, l, Flag - 1, TailAt(h, TailRounds)[l])
<1>1. LoadIs(h, l, 0, FirstText(h, Left(h), 1)[l])
  BY Sizes DEF LoadIs
<1>2. ASSUME NEW n \in 1 .. Loops PROVE LoadIs(h, l, 2 * n - 1, FirstXin(h, Left(h), n)[l])
  BY Sizes DEF LoadIs
<1>3. ASSUME NEW n \in 1 .. Loops PROVE LoadIs(h, l, 2 * n, SecondXin(h, Left(h), n)[l])
  BY Sizes DEF LoadIs
<1>4. LoadIs(h, l, Leave, TailMix(h, 1)[l])
  BY Sizes DEF LoadIs
<1>5. ASSUME NEW m \in 1 .. TailRounds PROVE LoadIs(h, l, Leave + 2 * m - 1, TailMix(h, m)[l])
  BY Sizes DEF LoadIs
<1>6. ASSUME NEW m \in 1 .. TailRounds - 1 PROVE LoadIs(h, l, Leave + 2 * m, TailMix(h, m + 1)[l])
  BY Sizes DEF LoadIs
<1>7. LoadIs(h, l, Flag - 1, TailAt(h, TailRounds)[l])
  BY Sizes DEF LoadIs
<1> QED
  BY <1>1, <1>2, <1>3, <1>4, <1>5, <1>6, <1>7

\* One lane of what is mixed and exchanged.
LEMMA MixedLane ==
    ASSUME NEW h, NEW l \in Texts
    PROVE  /\ \A n \in 1 .. Loops :
                /\ FirstXin(h, Left(h), n)[l]
                     = Aes(Xor(FirstText(h, Left(h), n)[l], LoopAt(h, n - 1).xin2[(l + 1) % 8]), h)
                /\ SecondXin(h, Left(h), n)[l]
                     = Aes(Xor(SecondText(h, Left(h), n)[l], FirstXin(h, Left(h), n)[(l + 1) % 8]), h)
           /\ TailMix(h, 1)[l] = Aes(Xor(LoopAt(h, Loops).text[l], LoopAt(h, Loops).xin2[(l + 1) % 8]), h)
           /\ \A m \in 1 .. TailRounds :
                /\ TailAt(h, m)[l] = Xor(TailMix(h, m)[l], TailMix(h, m)[(l + 1) % 8])
                /\ TailMix(h, m + 1)[l] = Aes(TailAt(h, m)[l], h)
<1>1. \A x, y : WithNext(x, y)[l] = Xor(x[l], y[(l + 1) % 8])
  BY DEF WithNext
<1>2. \A x : Mixed(x, h)[l] = Aes(x[l], h)
  BY DEF Mixed
<1>3. ASSUME NEW n
      PROVE  /\ FirstXin(h, Left(h), n)[l]
                  = Aes(Xor(FirstText(h, Left(h), n)[l], LoopAt(h, n - 1).xin2[(l + 1) % 8]), h)
             /\ SecondXin(h, Left(h), n)[l]
                  = Aes(Xor(SecondText(h, Left(h), n)[l], FirstXin(h, Left(h), n)[(l + 1) % 8]), h)
  BY <1>1, <1>2, Zenon DEF FirstXin, SecondXin, LoopAt
<1> DEFINE start == WithNext(LoopAt(h, Loops).text, LoopAt(h, Loops).xin2)
<1>4. TailAt(h, 0) = start
  BY TailFound, Zenon DEF TailAt
<1>5. ASSUME NEW m \in 1 .. TailRounds PROVE TailAt(h, m) = WithNext(TailMix(h, m), TailMix(h, m))
  BY TailFound DEF TailAt, TailMix
<1>6. TailMix(h, 1)[l] = Aes(Xor(LoopAt(h, Loops).text[l], LoopAt(h, Loops).xin2[(l + 1) % 8]), h)
  <2>1. 1 - 1 = 0
    OBVIOUS
  <2>2. TailMix(h, 1) = Mixed(TailAt(h, 0), h)
    BY <2>1 DEF TailMix
  <2>3. TailMix(h, 1)[l] = Aes(TailAt(h, 0)[l], h)
    BY <1>2, <2>2
  <2>4. TailAt(h, 0)[l] = Xor(LoopAt(h, Loops).text[l], LoopAt(h, Loops).xin2[(l + 1) % 8])
    BY <1>1, <1>4
  <2> QED
    BY <2>3, <2>4
<1>7. ASSUME NEW m \in 1 .. TailRounds
      PROVE  /\ TailAt(h, m)[l] = Xor(TailMix(h, m)[l], TailMix(h, m)[(l + 1) % 8])
             /\ TailMix(h, m + 1)[l] = Aes(TailAt(h, m)[l], h)
  <2>1. (m + 1) - 1 = m
    OBVIOUS
  <2> QED
    BY <1>1, <1>2, <1>5, <2>1, Zenon DEF TailMix
<1> QED
  BY <1>3, <1>6, <1>7

\* What a lane makes of its own text and what its neighbour, at most a segment
\* ahead, has exchanged.
LEMMA LoadStep ==
    ASSUME NEW h, NEW l \in Texts, NEW p \in 0 .. Flag - 1, NEW q \in p .. p + 1, NEW k, k = (l + 1) % 8,
           NEW t, TextIs(h, l, p, t), NEW y, Xin1Is(h, k, q, y), NEW z, Xin2Is(h, k, q, z)
    PROVE  /\ LoopFirst(p) => LoadIs(h, l, p, Aes(Xor(t, z), h))
           /\ LoopSecond(p) => LoadIs(h, l, p, Aes(Xor(t, y), h))
           /\ Leaves(p) => LoadIs(h, l, p, Aes(Xor(t, z), h))
           /\ TailWrite(p) => LoadIs(h, l, p, t)
           /\ TailRead(p) => LoadIs(h, l, p, IF p = Flag - 1 THEN Xor(t, y) ELSE Aes(Xor(t, y), h))
<1>1. ASSUME NEW n \in 1 .. Loops, p = 2 * n - 1
      PROVE  LoadIs(h, l, p, Aes(Xor(t, z), h))
  <2>1. t = FirstText(h, Left(h), n)[l]
    BY <1>1 DEF TextIs
  <2>2. PICK n1 \in 0 .. Loops : n1 = n - 1
    BY Sizes
  <2>3. q = 2 * n1 + 1 \/ q = 2 * n1 + 2
    BY <1>1, <2>2
  <2>4. z = LoopAt(h, n1).xin2[k]
    BY <2>3 DEF Xin2Is
  <2>5. Aes(Xor(t, z), h) = FirstXin(h, Left(h), n)[l]
    BY <2>1, <2>2, <2>4, MixedLane
  <2> QED
    BY <1>1, <2>5, LoadRight
<1>2. ASSUME NEW n \in 1 .. Loops, p = 2 * n
      PROVE  LoadIs(h, l, p, Aes(Xor(t, y), h))
  <2>1. t = SecondText(h, Left(h), n)[l]
    BY <1>2 DEF TextIs
  <2>2. y = FirstXin(h, Left(h), n)[k]
    BY <1>2 DEF Xin1Is
  <2>3. Aes(Xor(t, y), h) = SecondXin(h, Left(h), n)[l]
    BY <2>1, <2>2, MixedLane
  <2> QED
    BY <1>2, <2>3, LoadRight
<1>3. ASSUME p = Leave PROVE LoadIs(h, l, p, Aes(Xor(t, z), h))
  <2>1. t = LoopAt(h, Loops).text[l]
    BY <1>3 DEF TextIs
  <2>2. z = LoopAt(h, Loops).xin2[k]
    BY <1>3, Sizes DEF Xin2Is
  <2>3. Aes(Xor(t, z), h) = TailMix(h, 1)[l]
    BY <2>1, <2>2, MixedLane
  <2> QED
    BY <1>3, <2>3, LoadRight
<1>4. ASSUME NEW m \in 1 .. TailRounds, p = Leave + 2 * m - 1 PROVE LoadIs(h, l, p, t)
  <2>1. t = TailMix(h, m)[l]
    BY <1>4 DEF TextIs
  <2> QED
    BY <1>4, <2>1, LoadRight
<1>5. ASSUME NEW m \in 1 .. TailRounds, p = Leave + 2 * m
      PROVE  LoadIs(h, l, p, IF p = Flag - 1 THEN Xor(t, y) ELSE Aes(Xor(t, y), h))
  <2>1. t = TailMix(h, m)[l] /\ y = TailMix(h, m)[k]
    BY <1>5 DEF TextIs, Xin1Is
  <2>2. Xor(t, y) = TailAt(h, m)[l] /\ Aes(Xor(t, y), h) = TailMix(h, m + 1)[l]
    BY <2>1, MixedLane
  <2>3. CASE p = Flag - 1
    <3>1. m = TailRounds
      BY <1>5, <2>3, Sizes
    <3> QED
      BY <2>2, <2>3, <3>1, LoadRight
  <2>4. CASE p # Flag - 1
    <3>1. m \in 1 .. TailRounds - 1
      BY <1>5, <2>4, Sizes
    <3> QED
      BY <1>5, <2>2, <2>4, <3>1, LoadRight
  <2> QED
    BY <2>3, <2>4
<1>6. Leaves(p) => p = Leave
  BY DEF Leaves
<1> QED
  BY <1>1, <1>2, <1>3, <1>4, <1>5, <1>6, Kinds

\* The places that a lane takes up from the scratchpad are in it.
LEMMA VecPlaces ==
    ASSUME NEW n \in Nat, NEW l \in Texts
    PROVE  \A second \in {0, 8}, k \in 0 .. 3 :
              4 * (((16 * n + l) % Stride) + second) + k \in 0 .. PadWords - 1
<1>1. PICK v \in Nat \ {0} : Lines = 4 * v
  <2>1. Lines \div 4 \in Nat \ {0} /\ Lines = 4 * (Lines \div 4)
    BY ReferenceAssumption
  <2> QED
    BY <2>1
<1>2. Stride = 16 * v /\ PadWords = 64 * v
  BY <1>1 DEF Stride, PadWords
<1>3. PICK q \in Nat, r \in 0 .. v - 1 : n = v * q + r
  <2>1. n \div v \in Nat /\ n % v \in 0 .. v - 1 /\ n = v * (n \div v) + (n % v)
    OBVIOUS
  <2> QED
    BY <2>1
<1>4. l \in 0 .. 7
  BY DEF Texts
<1>5. PICK u \in Nat \ {0} : u = 16 * v
  BY <1>1
<1>6. PICK a \in 0 .. u - 1 : a = 16 * r + l
  BY <1>3, <1>4, <1>5
<1>7. (u * q + a) % u = a
  BY DivIs
<1>8. 16 * n + l = u * q + a
  <2>1. 16 * (v * q) = (16 * v) * q
    OBVIOUS
  <2>2. 16 * n = 16 * (v * q) + 16 * r
    BY <1>3
  <2> QED
    BY <1>4, <1>5, <1>6, <2>1, <2>2
<1>9. (16 * n + l) % Stride = a
  BY <1>2, <1>5, <1>7, <1>8, Zenon
<1>10. 4 * (a + 8) + 3 <= 64 * v - 1
  BY <1>3, <1>4, <1>6
<1> QED
  BY <1>2, <1>6, <1>9, <1>10

\* What each store leaves.
LEMMA StoreText ==
    ASSUME NEW h, NEW l \in Texts, NEW p \in 0 .. Flag - 1, NEW x, LoadIs(h, l, p, x)
    PROVE  /\ LoopFirst(p) => TextIs(h, l, p + 1, Xor(x, Vec(Left(h), 0, ((16 * (p \div 2) + l) % Stride) + 8)))
           /\ LoopSecond(p) /\ p < 2 * Loops =>
                TextIs(h, l, p + 1, Xor(x, Vec(Left(h), 0, (16 * (p \div 2) + l) % Stride)))
           /\ ~LoopFirst(p) /\ ~(LoopSecond(p) /\ p < 2 * Loops) => TextIs(h, l, p + 1, x)
<1>1. ASSUME NEW n \in 1 .. Loops, p = 2 * n - 1
      PROVE  TextIs(h, l, p + 1, Xor(x, Vec(Left(h), 0, ((16 * (p \div 2) + l) % Stride) + 8)))
  <2>1. x = FirstXin(h, Left(h), n)[l]
    BY <1>1 DEF LoadIs
  <2>2. p \div 2 = n - 1 /\ p + 1 = 2 * n
    BY <1>1, Sizes
  <2>3. SecondText(h, Left(h), n)[l] = Xor(x, Vec(Left(h), 0, ((16 * (p \div 2) + l) % Stride) + 8))
    BY <2>1, <2>2 DEF SecondText
  <2> QED
    BY <1>1, <2>2, <2>3, Sizes DEF TextIs
<1>2. ASSUME NEW n \in 1 .. Loops, p = 2 * n, p < 2 * Loops
      PROVE  TextIs(h, l, p + 1, Xor(x, Vec(Left(h), 0, (16 * (p \div 2) + l) % Stride)))
  <2>1. x = SecondXin(h, Left(h), n)[l]
    BY <1>2 DEF LoadIs
  <2>2. PICK n1 \in 1 .. Loops : n1 = n + 1
    BY <1>2, Sizes
  <2>3. p \div 2 = n1 - 1 /\ p + 1 = 2 * n1 - 1 /\ n1 - 1 = n
    BY <1>2, <2>2, Sizes
  <2>4. LoopText(h, Left(h))[n].text = SecondXin(h, Left(h), n)
    BY LoopParts DEF LoopAt
  <2>5. FirstText(h, Left(h), n1)[l] = Xor(x, Vec(Left(h), 0, (16 * (p \div 2) + l) % Stride))
    BY <2>1, <2>3, <2>4 DEF FirstText
  <2> QED
    BY <2>2, <2>3, <2>5, Sizes DEF TextIs
<1>3. ASSUME p = 0 PROVE TextIs(h, l, p + 1, x)
  <2>1. x = FirstText(h, Left(h), 1)[l]
    BY <1>3 DEF LoadIs
  <2> QED
    BY <1>3, <2>1, Sizes DEF TextIs
<1>4. ASSUME p = 2 * Loops PROVE TextIs(h, l, p + 1, x)
  <2>1. x = SecondXin(h, Left(h), Loops)[l] /\ Loops \in 1 .. Loops
    BY <1>4, Sizes DEF LoadIs
  <2>2. x = LoopAt(h, Loops).text[l]
    BY <2>1, LoopParts
  <2> QED
    BY <1>4, <2>2, Sizes DEF TextIs
<1>5. ASSUME p = Leave PROVE TextIs(h, l, p + 1, x)
  <2>1. x = TailMix(h, 1)[l]
    BY <1>5, Sizes DEF LoadIs
  <2> QED
    BY <1>5, <2>1, Sizes DEF TextIs
<1>6. ASSUME NEW m \in 1 .. TailRounds, p = Leave + 2 * m - 1 PROVE TextIs(h, l, p + 1, x)
  <2>1. x = TailMix(h, m)[l]
    BY <1>6 DEF LoadIs
  <2> QED
    BY <1>6, <2>1, Sizes DEF TextIs
<1>7. ASSUME NEW m \in 1 .. TailRounds, p = Leave + 2 * m PROVE TextIs(h, l, p + 1, x)
  <2>1. CASE m = TailRounds
    BY <1>7, <2>1, Sizes DEF TextIs
  <2>2. CASE m # TailRounds
    <3>1. PICK m1 \in 1 .. TailRounds : m1 = m + 1
      BY <2>2, Sizes
    <3>2. x = TailMix(h, m1)[l]
      BY <1>7, <3>1, Sizes DEF LoadIs
    <3> QED
      BY <1>7, <3>1, <3>2, Sizes DEF TextIs
  <2> QED
    BY <2>1, <2>2
<1>8. LoopSecond(p) => p <= 2 * Loops
  BY Sizes DEF LoopSecond
<1>9. (Enters(p) => p = 0) /\ (Leaves(p) => p = Leave)
  BY DEF Enters, Leaves
<1>10. LoopSecond(p) /\ ~(p < 2 * Loops) => p = 2 * Loops
  BY <1>8, Sizes
<1>11. LoopFirst(p) => TextIs(h, l, p + 1, Xor(x, Vec(Left(h), 0, ((16 * (p \div 2) + l) % Stride) + 8)))
  BY <1>1, Kinds
<1>12. LoopSecond(p) /\ p < 2 * Loops =>
         TextIs(h, l, p + 1, Xor(x, Vec(Left(h), 0, (16 * (p \div 2) + l) % Stride)))
  BY <1>2, Kinds
<1>13. ~LoopFirst(p) /\ ~(LoopSecond(p) /\ p < 2 * Loops) => TextIs(h, l, p + 1, x)
  BY <1>3, <1>4, <1>5, <1>6, <1>7, <1>9, <1>10, Kinds
<1> QED
  BY <1>11, <1>12, <1>13

LEMMA StoreXin1 ==
    ASSUME NEW h, NEW l \in Texts, NEW p \in 0 .. Flag - 1, NEW x, LoadIs(h, l, p, x),
           NEW y, Xin1Is(h, l, p, y)
    PROVE  Xin1Is(h, l, p + 1, IF LoopFirst(p) \/ TailWrite(p) THEN x ELSE y)
<1>1. ASSUME NEW n \in 1 .. Loops, p = 2 * n - 1 PROVE Xin1Is(h, l, p + 1, x)
  <2>1. x = FirstXin(h, Left(h), n)[l]
    BY <1>1 DEF LoadIs
  <2> QED
    BY <1>1, <2>1, Sizes DEF Xin1Is
<1>2. ASSUME NEW m \in 1 .. TailRounds, p = Leave + 2 * m - 1 PROVE Xin1Is(h, l, p + 1, x)
  <2>1. x = TailMix(h, m)[l]
    BY <1>2 DEF LoadIs
  <2> QED
    BY <1>2, <2>1, Sizes DEF Xin1Is
<1>3. ASSUME NEW n \in 1 .. Loops, p = 2 * n PROVE Xin1Is(h, l, p + 1, y)
  BY <1>3, Sizes DEF Xin1Is
<1>4. ASSUME NEW m \in 1 .. TailRounds, p = Leave + 2 * m PROVE Xin1Is(h, l, p + 1, y)
  BY <1>4, Sizes DEF Xin1Is
<1>5. ASSUME p = 0 \/ p = Leave PROVE Xin1Is(h, l, p + 1, y)
  BY <1>5, Sizes DEF Xin1Is
<1>6. LoopFirst(p) \/ TailWrite(p) => Xin1Is(h, l, p + 1, x)
  BY <1>1, <1>2, Kinds
<1>7. ~(LoopFirst(p) \/ TailWrite(p)) => Xin1Is(h, l, p + 1, y)
  BY <1>3, <1>4, <1>5, Kinds DEF Enters, Leaves
<1> QED
  BY <1>6, <1>7

LEMMA StoreXin2 ==
    ASSUME NEW h, NEW l \in Texts, NEW p \in 0 .. Flag - 1, NEW x, LoadIs(h, l, p, x),
           NEW z, Xin2Is(h, l, p, z)
    PROVE  Xin2Is(h, l, p + 1, IF Enters(p) THEN 0 ELSE IF LoopSecond(p) THEN x ELSE z)
<1>1. ASSUME p = 0 PROVE Xin2Is(h, l, p + 1, 0)
  <2>1. LoopAt(h, 0).xin2[l] = 0
    BY LoopParts
  <2> QED
    BY <1>1, <2>1, Sizes DEF Xin2Is
<1>2. ASSUME NEW n \in 1 .. Loops, p = 2 * n PROVE Xin2Is(h, l, p + 1, x)
  <2>1. x = LoopAt(h, n).xin2[l]
    BY <1>2, LoopParts DEF LoadIs
  <2> QED
    BY <1>2, <2>1, Sizes DEF Xin2Is
<1>3. ASSUME NEW n \in 1 .. Loops, p = 2 * n - 1 PROVE Xin2Is(h, l, p + 1, z)
  <2>1. PICK n1 \in 0 .. Loops : n1 = n - 1
    BY Sizes
  <2>2. z = LoopAt(h, n1).xin2[l]
    BY <1>3, <2>1 DEF Xin2Is
  <2> QED
    BY <1>3, <2>1, <2>2, Sizes DEF Xin2Is
<1>4. ASSUME p >= Leave PROVE Xin2Is(h, l, p + 1, z)
  BY <1>4, Sizes DEF Xin2Is
<1>5. TailWrite(p) \/ TailRead(p) \/ Leaves(p) => p >= Leave
  BY Sizes DEF TailWrite, TailRead, Leaves
<1>6. (Enters(p) => p = 0) /\ (LoopSecond(p) => ~Enters(p))
  BY KindsApart DEF Enters
<1>7. CASE Enters(p)
  BY <1>1, <1>6, <1>7
<1>8. CASE LoopSecond(p)
  BY <1>2, <1>6, <1>8, Kinds
<1>9. CASE ~Enters(p) /\ ~LoopSecond(p)
  <2>1. Xin2Is(h, l, p + 1, z)
    BY <1>3, <1>4, <1>5, <1>9, Kinds
  <2> QED
    BY <1>9, <2>1
<1> QED
  BY <1>7, <1>8, <1>9

LEMMA StoreState ==
    ASSUME NEW h, NEW l \in Texts, NEW p \in 0 .. Flag - 1, NEW x, LoadIs(h, l, p, x),
           NEW s, StateIs(h, l, p, s)
    PROVE  StateIs(h, l, p + 1, IF p = Flag - 1 THEN x ELSE s)
  BY Sizes DEF StateIs, LoadIs

-----------------------------------------------------------------------------
\* The lanes of cn2 and the vectors they take up.
LEMMA TextNumbers ==
    /\ \A j \in CnLanes : /\ Group(j) \in Hashes /\ j % 8 \in Texts
                          /\ Neighbour(j) \in CnLanes /\ Group(Neighbour(j)) = Group(j)
                          /\ Neighbour(j) % 8 = ((j % 8) + 1) % 8
                          /\ Wave2(j) \in Waves2
    /\ \A h \in Hashes, l \in Texts : /\ 8 * h + l \in CnLanes
                                      /\ Group(8 * h + l) = h /\ (8 * h + l) % 8 = l
<1>1. PICK N \in Nat : N = Cardinality(Hashes)
  BY LaneNumbers
<1>2. Hashes = 0 .. N - 1 /\ CnLanes = 0 .. 8 * N - 1
  BY <1>1, ReferenceAssumption DEF CnLanes
<1>3. ASSUME NEW h \in Hashes, NEW l \in Texts
      PROVE  8 * h + l \in CnLanes /\ (8 * h + l) \div 8 = h /\ (8 * h + l) % 8 = l
  BY <1>2 DEF Texts
<1>4. ASSUME NEW j \in CnLanes
      PROVE  j \div 8 \in Hashes /\ j % 8 \in Texts /\ (j + 1) % 8 = ((j % 8) + 1) % 8
  BY <1>2 DEF Texts
<1>5. \A l \in Texts : (l + 1) % 8 \in Texts
  BY DEF Texts
<1>6. ASSUME NEW j \in CnLanes
      PROVE  /\ Neighbour(j) \in CnLanes /\ Neighbour(j) \div 8 = j \div 8
             /\ Neighbour(j) % 8 = ((j % 8) + 1) % 8
  <2>1. PICK g \in Hashes, k \in Texts : g = j \div 8 /\ k = ((j % 8) + 1) % 8
    BY <1>4, <1>5
  <2>2. Neighbour(j) = 8 * g + k
    BY <1>4, <2>1 DEF Neighbour, Group
  <2> QED
    BY <1>3, <2>1, <2>2
<1>7. \A j \in CnLanes : Wave2(j) \in Waves2
  BY DEF Waves2
<1> QED
  BY <1>3, <1>4, <1>6, <1>7 DEF Group

LEMMA VecIs ==
    ASSUME ComputesWords, Cn1Inv, finished = Iterations,
           NEW j \in CnLanes, NEW n \in Nat, NEW second \in {0, 8}
    PROVE  VecAt(j, n, second) = Vec(Left(Group(j)), 0, ((16 * n + (j % 8)) % Stride) + second)
<1>1. PICK h \in Hashes, l \in Texts : h = Group(j) /\ l = j % 8
  BY TextNumbers
<1>2. PICK i : i = ((16 * n + l) % Stride) + second
  OBVIOUS
<1>3. \A x \in 0 .. PadWords - 1 : pad[PadWords * h + x] = Left(h)[x]
  BY Cn1Leaves DEF PadOf, Left
<1>4. \A k \in 0 .. 3 : 4 * i + k \in 0 .. PadWords - 1
  BY <1>2, VecPlaces
<1>5. PICK b \in Nat : b = PadWords * h
  BY PadNumbers, LaneNumbers
<1>6. i \in Nat
  <2>1. Stride \in Nat \ {0}
    BY ReferenceAssumption DEF Stride
  <2>2. (16 * n + l) \in Nat
    BY DEF Texts
  <2> QED
    BY <1>2, <2>1, <2>2
<1>7. \A k \in 0 .. 3 : pad[b + 4 * i + k] = Left(h)[0 + 4 * i + k]
  <2>1. \A k \in 0 .. 3 : b + 4 * i + k = b + (4 * i + k) /\ 0 + 4 * i + k = 4 * i + k
    BY <1>6
  <2>2. \A x \in 0 .. PadWords - 1 : pad[b + x] = Left(h)[x]
    BY <1>3, <1>5
  <2> QED
    BY <1>4, <2>1, <2>2
<1>8. Vec(pad, b, i) = Vec(Left(h), 0, i)
  BY <1>7 DEF Vec
<1> QED
  BY <1>1, <1>2, <1>5, <1>8 DEF VecAt

-----------------------------------------------------------------------------
\* The segments of cn2 keep what its lanes hold.
LEMMA LoadedIs ==
    ASSUME ComputesWords, Cn1Inv, finished = Iterations, TextInv,
           NEW j \in CnLanes, passed[Wave2(j)] < Flag, Together(Wave2(j))
    PROVE  LoadIs(Group(j), j % 8, passed[Wave2(j)], TextOf(j, passed[Wave2(j)]))
<1>1. PICK h \in Hashes, l \in Texts : h = Group(j) /\ l = j % 8
  BY TextNumbers
<1>2. PICK w \in Waves2 : w = Wave2(j)
  BY TextNumbers
<1>3. PICK p \in 0 .. Flag - 1 : p = passed[w]
  BY <1>2, Sizes DEF TextInv, Level
<1>4. PICK i \in CnLanes : i = Neighbour(j)
  BY TextNumbers
<1>5. PICK v \in Waves2 : v = Wave2(i)
  BY TextNumbers
<1>6. PICK q \in p .. p + 1 : q = passed[v]
  BY <1>2, <1>3, <1>5, Sizes DEF TextInv, Level, Together
<1>7. PICK k \in Texts : k = (l + 1) % 8
  BY DEF Texts
<1>8. Group(i) = h /\ i % 8 = k
  BY <1>1, <1>4, <1>7, TextNumbers
<1>9. LaneHeld(j, h, l, p) /\ LaneHeld(i, h, k, q)
  BY <1>1, <1>2, <1>3, <1>5, <1>6, <1>8 DEF TextInv
<1>10. TextIs(h, l, p, text[j]) /\ Xin1Is(h, k, q, xin1[i]) /\ Xin2Is(h, k, q, xin2[i])
       /\ StateIs(h, l, p, states[j])
  BY <1>9 DEF LaneHeld
<1>11. /\ LoopFirst(p) => LoadIs(h, l, p, Aes(Xor(text[j], xin2[i]), h))
       /\ LoopSecond(p) => LoadIs(h, l, p, Aes(Xor(text[j], xin1[i]), h))
       /\ Leaves(p) => LoadIs(h, l, p, Aes(Xor(text[j], xin2[i]), h))
       /\ TailWrite(p) => LoadIs(h, l, p, text[j])
       /\ TailRead(p) => LoadIs(h, l, p, IF p = Flag - 1 THEN Xor(text[j], xin1[i])
                                         ELSE Aes(Xor(text[j], xin1[i]), h))
  BY <1>7, <1>10, LoadStep
<1>12. Enters(p) => LoadIs(h, l, p, Xor(states[j], VecAt(j, 0, 0)))
  <2> SUFFICES ASSUME p = 0 PROVE LoadIs(h, l, p, Xor(states[j], VecAt(j, 0, 0)))
    BY DEF Enters
  <2>1. states[j] = State(h, l)
    BY <1>3, <1>10, Sizes DEF StateIs
  <2>2. VecAt(j, 0, 0) = Vec(Left(h), 0, ((16 * 0 + l) % Stride) + 0)
    BY <1>1, VecIs
  <2>3. Stride \in Nat \ {0} /\ l \in Nat
    BY ReferenceAssumption DEF Stride, Texts
  <2>4. ((16 * 0 + l) % Stride) + 0 = (16 * (1 - 1) + l) % Stride
    BY <2>3
  <2>5. LoopText(h, Left(h))[1 - 1].text[l] = State(h, l)
    BY LoopParts DEF LoopAt
  <2>6. FirstText(h, Left(h), 1)[l] = Xor(State(h, l), Vec(Left(h), 0, (16 * (1 - 1) + l) % Stride))
    BY <2>5 DEF FirstText
  <2>7. Xor(states[j], VecAt(j, 0, 0)) = FirstText(h, Left(h), 1)[l]
    BY <2>1, <2>2, <2>4, <2>6
  <2> QED
    BY <2>7, LoadRight
<1>13. LoadIs(h, l, p, TextOf(j, p))
  <2>1. CASE Enters(p)
    <3>1. ~LoopFirst(p) /\ ~LoopSecond(p) /\ ~Leaves(p) /\ ~TailWrite(p) /\ ~TailRead(p)
      BY <2>1, KindsApart
    <3>2. TextOf(j, p) = Xor(states[j], VecAt(j, 0, 0))
      BY <2>1, <3>1 DEF TextOf
    <3> QED
      BY <1>12, <2>1, <3>2
  <2>2. CASE LoopFirst(p)
    <3>1. ~Enters(p) /\ ~LoopSecond(p) /\ ~Leaves(p) /\ ~TailWrite(p) /\ ~TailRead(p)
      BY <2>2, KindsApart
    <3>2. TextOf(j, p) = Aes(Xor(text[j], xin2[i]), h)
      BY <1>1, <1>4, <2>2, <3>1 DEF TextOf, AesOf, XinOther
    <3> QED
      BY <1>11, <2>2, <3>2
  <2>3. CASE LoopSecond(p)
    <3>1. ~Enters(p) /\ ~LoopFirst(p) /\ ~Leaves(p) /\ ~TailWrite(p) /\ ~TailRead(p)
      BY <2>3, KindsApart
    <3>2. TextOf(j, p) = Aes(Xor(text[j], xin1[i]), h)
      BY <1>1, <1>4, <2>3, <3>1 DEF TextOf, AesOf
    <3> QED
      BY <1>11, <2>3, <3>2
  <2>4. CASE Leaves(p)
    <3>1. ~Enters(p) /\ ~LoopFirst(p) /\ ~LoopSecond(p) /\ ~TailWrite(p) /\ ~TailRead(p)
      BY <2>4, KindsApart
    <3>2. TextOf(j, p) = Aes(Xor(text[j], xin2[i]), h)
      BY <1>1, <1>4, <2>4, <3>1 DEF TextOf, AesOf
    <3> QED
      BY <1>11, <2>4, <3>2
  <2>5. CASE TailWrite(p)
    <3>1. ~Enters(p) /\ ~LoopFirst(p) /\ ~LoopSecond(p) /\ ~Leaves(p) /\ ~TailRead(p)
      BY <2>5, KindsApart
    <3>2. TextOf(j, p) = text[j]
      BY <2>5, <3>1 DEF TextOf
    <3> QED
      BY <1>11, <2>5, <3>2
  <2>6. CASE TailRead(p)
    <3>1. ~Enters(p) /\ ~LoopFirst(p) /\ ~LoopSecond(p) /\ ~Leaves(p) /\ ~TailWrite(p)
      BY <2>6, KindsApart
    <3>2. TextOf(j, p) = IF p = Flag - 1 THEN Xor(text[j], xin1[i]) ELSE Aes(Xor(text[j], xin1[i]), h)
      BY <1>1, <1>4, <2>6, <3>1 DEF TextOf, AesOf
    <3> QED
      BY <1>11, <2>6, <3>2
  <2> QED
    BY <2>1, <2>2, <2>3, <2>4, <2>5, <2>6, Kinds
<1> QED
  BY <1>1, <1>2, <1>3, <1>13

LEMMA LoadKeeps ==
    ASSUME ComputesWords, Cn1Inv, finished = Iterations, TextInv, NEW w \in Waves2, Load(w)
    PROVE  TextInv'
<1>1. /\ passed[w] < Flag /\ Together(w)
      /\ loaded' = [j \in CnLanes |-> IF Wave2(j) = w THEN TextOf(j, passed[w]) ELSE loaded[j]]
      /\ UNCHANGED <<wave2, passed, text, xin1, xin2, states>>
  BY DEF Load
<1>2. Level'
  <2>1. ASSUME NEW j \in CnLanes, loaded'[j] # Nothing, NEW v \in Waves2
        PROVE  passed[v] >= passed[Wave2(j)]
    <3>1. CASE Wave2(j) = w
      BY <1>1, <3>1 DEF Together
    <3>2. CASE Wave2(j) # w
      <4>1. loaded[j] # Nothing
        BY <1>1, <2>1, <3>2
      <4> QED
        BY <4>1 DEF TextInv, Level
    <3> QED
      BY <3>1, <3>2
  <2>2. Waves2' = Waves2 /\ \A j : Wave2(j)' = Wave2(j)
    BY <1>1 DEF Waves2, Wave2
  <2> QED
    BY <1>1, <2>1, <2>2 DEF Level, TextInv
<1>3. ASSUME NEW j \in CnLanes
      PROVE  /\ LaneHeld(j, Group(j), j % 8, passed[Wave2(j)])
             /\ loaded'[j] # Nothing => /\ passed[Wave2(j)] < Flag
                                        /\ LoadIs(Group(j), j % 8, passed[Wave2(j)], loaded'[j])
  <2>1. LaneHeld(j, Group(j), j % 8, passed[Wave2(j)])
    BY DEF TextInv
  <2>2. CASE Wave2(j) = w
    <3>1. loaded'[j] = TextOf(j, passed[Wave2(j)])
      BY <1>1, <2>2
    <3> QED
      BY <1>1, <2>1, <2>2, <3>1, LoadedIs
  <2>3. CASE Wave2(j) # w
    <3>1. loaded'[j] = loaded[j]
      BY <1>1, <2>3
    <3> QED
      BY <2>1, <3>1 DEF LaneHeld
  <2> QED
    BY <2>2, <2>3
<1>4. ASSUME NEW j \in CnLanes PROVE LaneHeld(j, Group(j), j % 8, passed[Wave2(j)])'
  <2>1. Wave2(j)' = Wave2(j)
    BY <1>1 DEF Wave2
  <2>2. PICK h, l, p : h = Group(j) /\ l = j % 8 /\ p = passed[Wave2(j)]
    OBVIOUS
  <2>3. p = passed'[Wave2(j)']
    BY <1>1, <2>1, <2>2
  <2>4. LaneHeld(j, h, l, p)'
    BY <1>1, <1>3, <2>2 DEF LaneHeld, TextIs, Xin1Is, Xin2Is, StateIs, LoadIs
  <2> QED
    BY <2>2, <2>3, <2>4 DEF Group
<1> QED
  BY <1>1, <1>2, <1>4 DEF TextInv

\* Who loads: a wave that is behind no other and not at the end.
LEMMA Loaded ==
    ASSUME TextInv, NEW w \in Waves2, \A j \in CnLanes : Wave2(j) = w => loaded[j] # Nothing
    PROVE  passed[w] \in 0 .. Flag - 1 /\ Together(w)
<1>1. PICK j \in CnLanes : Wave2(j) = w
  BY DEF Waves2
<1>2. loaded[j] # Nothing
  BY <1>1
<1>3. LaneHeld(j, Group(j), j % 8, passed[w])
  BY <1>1 DEF TextInv
<1> QED
  BY <1>1, <1>2, <1>3, Sizes DEF TextInv, Level, LaneHeld, Together

\* What one lane holds after the exchange.
LEMMA LaneExchanges ==
    ASSUME ComputesWords, Cn1Inv, finished = Iterations, TextInv, NEW w \in Waves2, Exchange(w),
           NEW j \in CnLanes, Wave2(j) = w
    PROVE  /\ TextIs(Group(j), j % 8, passed[w] + 1, text'[j])
           /\ Xin1Is(Group(j), j % 8, passed[w] + 1, xin1'[j])
           /\ Xin2Is(Group(j), j % 8, passed[w] + 1, xin2'[j])
           /\ StateIs(Group(j), j % 8, passed[w] + 1, states'[j])
<1>1. \A i \in CnLanes : Wave2(i) = w => loaded[i] # Nothing
  BY DEF Exchange
<1>2. PICK p \in 0 .. Flag - 1 : p = passed[w]
  BY <1>1, Loaded
<1>3. PICK h \in Hashes, l \in Texts : h = Group(j) /\ l = j % 8
  BY TextNumbers
<1>4. LaneHeld(j, h, l, p)
  BY <1>2, <1>3 DEF TextInv
<1>5. PICK x : x = loaded[j]
  OBVIOUS
<1>6. LoadIs(h, l, p, x) /\ Xin1Is(h, l, p, xin1[j]) /\ Xin2Is(h, l, p, xin2[j]) /\ StateIs(h, l, p, states[j])
  BY <1>1, <1>4, <1>5 DEF LaneHeld
<1>7. xin1'[j] = IF LoopFirst(p) \/ TailWrite(p) THEN x ELSE xin1[j]
  BY <1>2, <1>5 DEF Exchange
<1>8. xin2'[j] = IF Enters(p) THEN 0 ELSE IF LoopSecond(p) THEN x ELSE xin2[j]
  BY <1>2, <1>5 DEF Exchange
<1>9. states'[j] = IF p = Flag - 1 THEN x ELSE states[j]
  BY <1>2, <1>5 DEF Exchange
<1>10. text'[j] = IF LoopFirst(p) THEN Xor(x, VecAt(j, p \div 2, 8))
                  ELSE IF LoopSecond(p) /\ p < 2 * Loops THEN Xor(x, VecAt(j, p \div 2, 0))
                  ELSE x
  BY <1>2, <1>5 DEF Exchange
<1>11. TextIs(h, l, p + 1, text'[j])
  <2>1. PICK n \in Nat : n = p \div 2
    OBVIOUS
  <2>2. /\ VecAt(j, n, 8) = Vec(Left(h), 0, ((16 * n + l) % Stride) + 8)
        /\ VecAt(j, n, 0) = Vec(Left(h), 0, (16 * n + l) % Stride)
    <3>1. /\ VecAt(j, n, 8) = Vec(Left(h), 0, ((16 * n + l) % Stride) + 8)
          /\ VecAt(j, n, 0) = Vec(Left(h), 0, ((16 * n + l) % Stride) + 0)
      BY <1>3, VecIs
    <3>2. Stride \in Nat \ {0} /\ 16 * n + l \in Nat
      BY ReferenceAssumption DEF Stride, Texts
    <3>3. ((16 * n + l) % Stride) + 0 = (16 * n + l) % Stride
      BY <3>2
    <3> QED
      BY <3>1, <3>3
  <2>3. /\ LoopFirst(p) => TextIs(h, l, p + 1, Xor(x, Vec(Left(h), 0, ((16 * n + l) % Stride) + 8)))
        /\ LoopSecond(p) /\ p < 2 * Loops => TextIs(h, l, p + 1, Xor(x, Vec(Left(h), 0, (16 * n + l) % Stride)))
        /\ ~LoopFirst(p) /\ ~(LoopSecond(p) /\ p < 2 * Loops) => TextIs(h, l, p + 1, x)
    BY <1>6, <2>1, StoreText
  <2> QED
    BY <1>10, <2>1, <2>2, <2>3
<1>12. Xin1Is(h, l, p + 1, xin1'[j])
  BY <1>6, <1>7, StoreXin1
<1>13. Xin2Is(h, l, p + 1, xin2'[j])
  BY <1>6, <1>8, StoreXin2
<1>14. StateIs(h, l, p + 1, states'[j])
  BY <1>6, <1>9, StoreState
<1> QED
  BY <1>2, <1>3, <1>11, <1>12, <1>13, <1>14

LEMMA ExchangeKeeps ==
    ASSUME ComputesWords, Cn1Inv, finished = Iterations, TextInv, NEW w \in Waves2, Exchange(w)
    PROVE  TextInv'
<1>1. \A i \in CnLanes : Wave2(i) = w => loaded[i] # Nothing
  BY DEF Exchange
<1>2. PICK p \in 0 .. Flag - 1 : p = passed[w] /\ \A v \in Waves2 : passed[v] >= p
  BY <1>1, Loaded DEF Together
<1>3. wave2' = wave2 /\ passed' = [passed EXCEPT ![w] = @ + 1]
  BY DEF Exchange
<1>4. loaded' = [j \in CnLanes |-> IF Wave2(j) = w THEN Nothing ELSE loaded[j]]
  BY DEF Exchange
<1>5. Waves2' = Waves2 /\ \A j : Wave2(j)' = Wave2(j)
  BY <1>3 DEF Waves2, Wave2
<1>6. passed'[w] = p + 1 /\ \A v \in Waves2 : v # w => passed'[v] = passed[v]
  BY <1>2, <1>3 DEF TextInv, Level
<1>7. Level'
  <2>1. passed' \in [Waves2 -> 0 .. Flag]
    BY <1>2, <1>3, Sizes DEF TextInv, Level
  <2>2. ASSUME NEW v \in Waves2, NEW u \in Waves2 PROVE passed'[v] <= passed'[u] + 1
    <3>1. passed[u] \in Nat /\ passed[v] \in Nat /\ passed[v] <= passed[u] + 1
          /\ passed[v] >= p /\ passed[u] >= p /\ passed[u] <= p + 1 /\ passed[v] <= p + 1
      BY <1>2, Sizes DEF TextInv, Level
    <3> QED
      BY <1>2, <1>6, <3>1
  <2>3. ASSUME NEW j \in CnLanes, loaded'[j] # Nothing, NEW v \in Waves2
        PROVE  passed'[v] >= passed'[Wave2(j)]
    <3>1. Wave2(j) # w /\ loaded[j] # Nothing /\ Wave2(j) \in Waves2
      BY <1>4, <2>3, TextNumbers
    <3>2. passed[v] >= passed[Wave2(j)] /\ passed[v] \in Nat /\ passed[Wave2(j)] \in Nat
      BY <3>1, Sizes DEF TextInv, Level
    <3> QED
      BY <1>2, <1>6, <3>1, <3>2
  <2> QED
    BY <1>5, <2>1, <2>2, <2>3 DEF Level
<1>8. ASSUME NEW j \in CnLanes PROVE LaneHeld(j, Group(j), j % 8, passed[Wave2(j)])'
  <2>1. PICK h, l : h = Group(j) /\ l = j % 8
    OBVIOUS
  <2>2. PICK q : q = passed'[Wave2(j)]
    OBVIOUS
  <2>3. /\ TextIs(h, l, q, text'[j]) /\ Xin1Is(h, l, q, xin1'[j])
        /\ Xin2Is(h, l, q, xin2'[j]) /\ StateIs(h, l, q, states'[j])
        /\ loaded'[j] # Nothing => q < Flag /\ LoadIs(h, l, q, loaded'[j])
    <3>1. CASE Wave2(j) = w
      <4>1. loaded'[j] = Nothing
        BY <1>4, <3>1
      <4>2. q = passed[w] + 1
        BY <1>2, <1>6, <2>2, <3>1
      <4> QED
        BY <2>1, <3>1, <4>1, <4>2, LaneExchanges
    <3>2. CASE Wave2(j) # w
      <4>1. LaneHeld(j, h, l, passed[Wave2(j)])
        BY <2>1 DEF TextInv
      <4>2. q = passed[Wave2(j)]
        BY <1>6, <2>2, <3>2, TextNumbers
      <4>3. /\ text'[j] = text[j] /\ xin1'[j] = xin1[j] /\ xin2'[j] = xin2[j] /\ states'[j] = states[j]
            /\ loaded'[j] = loaded[j]
        BY <1>4, <3>2 DEF Exchange
      <4> QED
        BY <4>1, <4>2, <4>3 DEF LaneHeld
    <3> QED
      BY <3>1, <3>2
  <2>4. LaneHeld(j, h, l, q)'
    BY <2>3 DEF LaneHeld, TextIs, Xin1Is, Xin2Is, StateIs, LoadIs
  <2>5. q = passed'[Wave2(j)']
    BY <1>5, <2>2
  <2> QED
    BY <2>1, <2>4, <2>5 DEF Group
<1> QED
  BY <1>3, <1>5, <1>7, <1>8 DEF TextInv

LEMMA TextStays ==
    ASSUME TextInv, UNCHANGED <<wave2, passed, loaded, text, xin1, xin2, states>> PROVE TextInv'
<1>1. Waves2' = Waves2 /\ \A j : Wave2(j)' = Wave2(j)
  BY DEF Waves2, Wave2
<1>2. ASSUME NEW j \in CnLanes PROVE LaneHeld(j, Group(j), j % 8, passed[Wave2(j)])'
  <2>1. PICK h, l, q : h = Group(j) /\ l = j % 8 /\ q = passed[Wave2(j)]
    OBVIOUS
  <2>2. LaneHeld(j, h, l, q)
    BY <2>1 DEF TextInv
  <2>3. LaneHeld(j, h, l, q)'
    BY <2>2 DEF LaneHeld, TextIs, Xin1Is, Xin2Is, StateIs, LoadIs
  <2>4. q = passed'[Wave2(j)']
    BY <1>1, <2>1
  <2> QED
    BY <2>1, <2>3, <2>4 DEF Group
<1>3. Level'
  BY <1>1 DEF TextInv, Level
<1> QED
  BY <1>1, <1>2, <1>3 DEF TextInv

LEMMA TextStarts == ASSUME Cn2Init PROVE TextInv
<1>1. /\ wave2 \in Cn2Waves /\ passed = [w \in Waves2 |-> 0] /\ loaded = [j \in CnLanes |-> Nothing]
      /\ states = [j \in CnLanes |-> State(Group(j), j % 8)]
  BY DEF Cn2Init
<1>2. Level
  BY <1>1, Sizes DEF Level
<1>3. ASSUME NEW j \in CnLanes PROVE LaneHeld(j, Group(j), j % 8, passed[Wave2(j)])
  <2>1. PICK h, l : h = Group(j) /\ l = j % 8
    OBVIOUS
  <2>2. passed[Wave2(j)] = 0 /\ loaded[j] = Nothing /\ states[j] = State(h, l)
    BY <1>1, <2>1, TextNumbers
  <2>3. LaneHeld(j, h, l, 0)
    <3>1. \A x : TextIs(h, l, 0, x)
      BY Sizes DEF TextIs
    <3>2. \A x : Xin1Is(h, l, 0, x)
      BY Sizes DEF Xin1Is
    <3>3. \A x : Xin2Is(h, l, 0, x)
      BY Sizes DEF Xin2Is
    <3>4. StateIs(h, l, 0, states[j])
      BY <2>2, Sizes DEF StateIs
    <3> QED
      BY <2>2, <3>1, <3>2, <3>3, <3>4 DEF LaneHeld
  <2> QED
    BY <2>1, <2>2, <2>3
<1> QED
  BY <1>1, <1>2, <1>3 DEF TextInv

-----------------------------------------------------------------------------
\* The state at the end, and the hash of it.
LEMMA FinalIs ==
    ASSUME NEW h \in Hashes
    PROVE  FinalTexts[h] = TailAt(h, TailRounds)
<1>1. AfterRounds[Iterations] = Rounds[Iterations]
  BY ReferenceAssumption DEF AfterRounds
<1> QED
  <2>1. AfterRounds[Iterations][h].pad = Left(h)
    BY <1>1 DEF Left
  <2>2. FinalTexts[h] = FinalText(h, Left(h))
    BY <2>1 DEF FinalTexts
  <2>3. FinalText(h, Left(h)) = TailAt(h, TailRounds)
    BY DEF FinalText, TailAt, LoopAt
  <2> QED
    BY <2>2, <2>3

LEMMA StatesRight ==
    ASSUME TextInv, NEW h \in Hashes, \A l \in Texts : passed[Wave2(8 * h + l)] = Flag
    PROVE  \A l \in Texts : states[8 * h + l] = FinalTexts[h][l]
<1> SUFFICES ASSUME NEW l \in Texts PROVE states[8 * h + l] = FinalTexts[h][l]
  OBVIOUS
<1>1. PICK j \in CnLanes : j = 8 * h + l
  BY TextNumbers
<1>2. LaneHeld(j, h, l, Flag)
  BY <1>1, TextNumbers DEF TextInv
<1>3. StateIs(h, l, Flag, states[j])
  BY <1>2 DEF LaneHeld
<1>4. states[j] = TailAt(h, TailRounds)[l]
  BY <1>3 DEF StateIs
<1> QED
  BY <1>1, <1>4, FinalIs

LEMMA PowRight ==
    ASSUME TextInv, NEW h \in Hashes, passed[Wave2(8 * h)] = Flag, Together(Wave2(8 * h))
    PROVE  PowOf(h) = FusionHash[h]
<1>1. ASSUME NEW l \in Texts PROVE passed[Wave2(8 * h + l)] = Flag
  <2>1. PICK v \in Waves2 : v = Wave2(8 * h + l)
    BY TextNumbers
  <2>2. passed[v] \in 0 .. Flag /\ passed[v] >= Flag
    BY DEF Together, TextInv, Level
  <2> QED
    BY <2>1, <2>2, Sizes
<1>2. \A l \in Texts : states[8 * h + l] = FinalTexts[h][l]
  BY <1>1, StatesRight
<1>3. FinalTexts[h] = [l \in Texts |-> FinalTexts[h][l]]
  <2>1. FinalTexts[h] = TailAt(h, TailRounds)
    BY FinalIs
  <2>2. \E y : TailAt(h, TailRounds) = WithNext(y, y)
    <3>1. TailRounds \in 1 .. TailRounds
      BY Sizes
    <3>2. PICK x : x = WithNext(LoopAt(h, Loops).text, LoopAt(h, Loops).xin2)
      OBVIOUS
    <3>3. \A n \in 1 .. TailRounds :
             TailText(h, x)[n] = WithNext(Mixed(TailText(h, x)[n - 1], h), Mixed(TailText(h, x)[n - 1], h))
      BY TailFound, Zenon
    <3>4. \E y : TailText(h, x)[TailRounds] = WithNext(y, y)
      BY <3>1, <3>3, Zenon
    <3> QED
      BY <3>2, <3>4, Zenon DEF TailAt
  <2> QED
    BY <2>1, <2>2 DEF WithNext
<1>4. [l \in Texts |-> states[8 * h + l]] = FinalTexts[h]
  BY <1>2, <1>3
<1> QED
  BY <1>4 DEF PowOf, FusionHash

-----------------------------------------------------------------------------
\* The places in the output.
LEMMA Counts ==
    ASSUME claimed \in [Hashes -> Nat]
    PROVE  /\ Drawn \subseteq Hashes /\ IsFiniteSet(Drawn)
           /\ Cardinality(Drawn) \in 0 .. Cardinality(Hashes)
<1>1. Drawn \subseteq Hashes
  BY DEF Drawn
<1>2. IsFiniteSet(Hashes)
  BY ReferenceAssumption
<1> QED
  BY <1>1, <1>2, FS_Subset, FS_CardinalityType

\* The values that stand for no place are none.
LEMMA Marks ==
    /\ Cap \in Nat /\ Unclaimed \in Nat /\ Skipped \in Nat /\ Stored \in Nat
    /\ Cap < Unclaimed /\ Unclaimed < Skipped /\ Skipped < Stored
    /\ \A x \in 0 .. Cardinality(Hashes) : x < Unclaimed
    /\ Empty \notin Hashes
<1>1. PICK N \in Nat : N = Cardinality(Hashes)
  BY LaneNumbers
<1>2. N \notin Hashes
  BY <1>1, ReferenceAssumption
<1>3. Cap \in Nat
  BY OutputAssumption
<1> QED
  BY <1>1, <1>2, <1>3 DEF Empty, Unclaimed, Skipped, Stored

LEMMA ClaimStays == ASSUME ClaimInv, UNCHANGED <<target, claimed, output>> PROVE ClaimInv'
  BY DEF ClaimInv, Drawn, Hits, Waiting

LEMMA ClaimStarts == ASSUME Cn2Init PROVE ClaimInv
<1>1. /\ Cap \in Nat /\ Unclaimed \in Nat /\ Skipped \in Nat /\ Stored \in Nat
      /\ Cap < Unclaimed /\ Unclaimed < Skipped /\ Skipped < Stored
      /\ Empty \notin Hashes
  BY Marks
<1>2. claimed = [h \in Hashes |-> Unclaimed] /\ output = [x \in 0 .. Cap |-> IF x = Cap THEN 0 ELSE Empty]
  BY DEF Cn2Init
<1>3. Drawn = {}
  BY <1>2 DEF Drawn
<1>4. output[Cap] = 0
  BY <1>1, <1>2
<1>5. Cardinality(Drawn) = 0
  BY <1>3, FS_EmptySet
<1>6. \A x \in 0 .. Cap - 1 : output[x] = Empty
  BY <1>1, <1>2
<1>7. \A h \in Hashes : claimed[h] = Unclaimed /\ ~Waiting(h)
  BY <1>1, <1>2 DEF Waiting
<1> QED
  BY <1>1, <1>2, <1>3, <1>4, <1>5, <1>6, <1>7 DEF ClaimInv

LEMMA ClaimKeeps ==
    ASSUME TextInv, ClaimInv, NEW h \in Hashes, Claim(h)
    PROVE  ClaimInv'
<1>1. /\ Cap \in Nat /\ Unclaimed \in Nat /\ Skipped \in Nat /\ Stored \in Nat
      /\ Cap < Unclaimed /\ Unclaimed < Skipped /\ Skipped < Stored
      /\ Empty \notin Hashes
  BY Marks
<1>2. claimed \in [Hashes -> Nat] /\ DOMAIN output = 0 .. Cap
  BY DEF ClaimInv
<1>3. IsFiniteSet(Drawn)
  BY <1>2, Counts
<1>4. PICK c \in Nat : c = output[Cap] /\ c = Cardinality(Drawn) /\ c < Unclaimed
  BY <1>2, Counts, Marks, LaneNumbers DEF ClaimInv
<1>5. claimed[h] = Unclaimed /\ h \notin Drawn
  BY DEF Claim, Drawn
<1>6. PowOf(h) = FusionHash[h]
  BY PowRight DEF Claim
<1>7. target' = target /\ Hits' = Hits
  BY DEF Claim, Hits
<1>8. CASE Meets(h)
  <2>1. h \in Hits
    BY <1>6, <1>8 DEF Meets, Hits
  <2>2. claimed' = [claimed EXCEPT ![h] = c] /\ output' = [output EXCEPT ![Cap] = c + 1]
    BY <1>4, <1>8 DEF Claim
  <2>3. claimed'[h] = c /\ \A g \in Hashes : g # h => claimed'[g] = claimed[g]
    BY <1>2, <2>2
  <2>4. output'[Cap] = c + 1 /\ DOMAIN output' = 0 .. Cap /\ \A x \in 0 .. Cap - 1 : output'[x] = output[x]
    BY <1>1, <1>2, <2>2
  <2>5. Drawn' = Drawn \cup {h}
    BY <1>1, <1>2, <1>4, <2>3 DEF Drawn
  <2>6. Cardinality(Drawn') = c + 1
    BY <1>3, <1>4, <1>5, <2>5, FS_AddElement
  <2>7. claimed' \in [Hashes -> Nat] /\ \A g \in Hashes : claimed'[g] <= Stored
    <3>1. claimed' \in [Hashes -> Nat]
      BY <1>2, <2>2
    <3>2. \A g \in Hashes : claimed[g] <= Stored
      BY DEF ClaimInv
    <3> QED
      BY <1>1, <1>4, <2>3, <3>1, <3>2
  <2>8. Drawn' \subseteq Hits
    BY <2>1, <2>5 DEF ClaimInv
  <2>9. \A g \in Hashes : claimed'[g] = Skipped => g \notin Hits
    BY <1>1, <1>4, <2>3 DEF ClaimInv
  <2>10. ASSUME NEW g \in Hashes, claimed'[g] < Unclaimed PROVE claimed'[g] < c + 1 /\ (g # h => claimed'[g] < c)
    <3>1. g # h => claimed[g] < c
      BY <1>4, <2>3, <2>10 DEF ClaimInv, Waiting
    <3> QED
      BY <1>2, <2>3, <3>1
  <2>11. ASSUME NEW g \in Hashes, NEW f \in Hashes, claimed'[g] < Unclaimed, claimed'[f] < Unclaimed,
                claimed'[g] = claimed'[f]
         PROVE  g = f
    <3>1. CASE g # h /\ f # h
      BY <2>3, <2>11, <3>1 DEF ClaimInv, Waiting
    <3>2. CASE g = h /\ f # h
      BY <2>3, <2>10, <2>11, <3>2
    <3>3. CASE g # h /\ f = h
      BY <2>3, <2>10, <2>11, <3>3
    <3> QED
      BY <3>1, <3>2, <3>3
  <2>12. ASSUME NEW x \in 0 .. Cap - 1, output'[x] # Empty
         PROVE  output'[x] \in Hashes /\ claimed'[output'[x]] = Stored /\ x < c + 1
    <3>1. output[x] \in Hashes /\ claimed[output[x]] = Stored /\ x < c /\ output'[x] = output[x]
      BY <1>4, <2>4, <2>12 DEF ClaimInv
    <3> QED
      BY <1>1, <1>5, <2>3, <3>1
  <2>13. \A x, y \in 0 .. Cap - 1 : output'[x] # Empty /\ output'[x] = output'[y] => x = y
    BY <2>4 DEF ClaimInv
  <2>14. ASSUME NEW x \in 0 .. Cap - 1, x < c + 1, output'[x] = Empty PROVE \E g \in Hashes : claimed'[g] = x
    <3>1. CASE x = c
      BY <2>3, <3>1
    <3>2. CASE x < c
      <4>1. PICK g \in Hashes : claimed[g] = x
        BY <1>4, <2>4, <2>14, <3>2 DEF ClaimInv
      <4>2. g # h
        BY <1>1, <1>5, <4>1
      <4> QED
        BY <2>3, <4>1, <4>2
    <3> QED
      BY <2>14, <3>1, <3>2
  <2>15. ASSUME NEW g \in Hashes, claimed'[g] < Cap PROVE output'[claimed'[g]] = Empty
    <3>1. PICK x \in 0 .. Cap - 1 : x = claimed'[g]
      BY <1>1, <2>7, <2>15
    <3>2. CASE g = h
      <4>1. x = c
        BY <2>3, <3>1, <3>2
      <4>2. output[x] # Empty => x < c
        BY <1>4 DEF ClaimInv
      <4> QED
        BY <2>4, <3>1, <4>1, <4>2
    <3>3. CASE g # h
      <4>1. claimed[g] = x /\ x < Cap
        BY <1>1, <2>3, <2>15, <3>1, <3>3
      <4> QED
        BY <2>4, <3>1, <4>1 DEF ClaimInv
    <3> QED
      BY <3>2, <3>3
  <2> QED
    BY <1>7, <2>4, <2>6, <2>7, <2>8, <2>9, <2>10, <2>11, <2>12, <2>13, <2>14, <2>15 DEF ClaimInv, Waiting
<1>9. CASE ~Meets(h)
  <2>1. h \notin Hits
    BY <1>6, <1>9 DEF Meets, Hits
  <2>2. claimed' = [claimed EXCEPT ![h] = Skipped] /\ output' = output
    BY <1>9 DEF Claim
  <2>3. claimed'[h] = Skipped /\ \A g \in Hashes : g # h => claimed'[g] = claimed[g]
    BY <1>2, <2>2
  <2>4. claimed' \in [Hashes -> Nat]
    BY <1>1, <1>2, <2>2
  <2>5. Drawn' = Drawn
    BY <1>5, <2>3 DEF Drawn
  <2>6. \A g \in Hashes : claimed'[g] <= Stored /\ (claimed'[g] = Skipped => g \notin Hits)
    BY <1>1, <2>1, <2>3 DEF ClaimInv
  <2>7. ASSUME NEW g \in Hashes, claimed'[g] < Unclaimed PROVE claimed[g] = claimed'[g]
    BY <1>1, <2>3, <2>7
  <2>8. ASSUME NEW g \in Hashes, claimed[g] = Stored \/ claimed[g] < Cap PROVE claimed'[g] = claimed[g]
    BY <1>1, <1>5, <2>3, <2>8
  <2>9. /\ \A g \in Hashes : claimed'[g] < Unclaimed => claimed'[g] < c
        /\ \A f, g \in Hashes : claimed'[f] < Unclaimed /\ claimed'[g] < Unclaimed
                                   /\ claimed'[f] = claimed'[g] => f = g
    BY <1>4, <2>7 DEF ClaimInv, Waiting
  <2>10. \A x \in 0 .. Cap - 1 : output[x] # Empty =>
            output[x] \in Hashes /\ claimed'[output[x]] = Stored /\ x < c
    BY <1>4, <2>8 DEF ClaimInv
  <2>11. ASSUME NEW x \in 0 .. Cap - 1, x < c, output[x] = Empty PROVE \E g \in Hashes : claimed'[g] = x
    <3>1. PICK g \in Hashes : claimed[g] = x
      BY <1>4, <2>11 DEF ClaimInv
    <3> QED
      BY <1>1, <2>8, <3>1
  <2>12. ASSUME NEW g \in Hashes, claimed'[g] < Cap PROVE output[claimed'[g]] = Empty
    <3>1. claimed[g] = claimed'[g]
      BY <1>1, <2>4, <2>7, <2>12
    <3> QED
      BY <2>12, <3>1 DEF ClaimInv
  <2>13. output'[Cap] = c /\ c = Cardinality(Drawn') /\ Drawn' \subseteq Hits'
    BY <1>4, <1>7, <2>2, <2>5 DEF ClaimInv
  <2>14. \A x, y \in 0 .. Cap - 1 : output[x] # Empty /\ output[x] = output[y] => x = y
    BY DEF ClaimInv
  <2> QED
    BY <1>2, <1>7, <2>2, <2>4, <2>6, <2>9, <2>10, <2>11, <2>12, <2>13, <2>14 DEF ClaimInv, Waiting
<1> QED
  BY <1>8, <1>9

LEMMA CandidateKeeps ==
    ASSUME ClaimInv, NEW h \in Hashes, StoreCandidate(h)
    PROVE  ClaimInv'
<1>1. /\ Cap \in Nat /\ Unclaimed \in Nat /\ Skipped \in Nat /\ Stored \in Nat
      /\ Cap < Unclaimed /\ Unclaimed < Skipped /\ Skipped < Stored
      /\ Empty \notin Hashes
  BY Marks
<1>2. claimed \in [Hashes -> Nat] /\ DOMAIN output = 0 .. Cap
  BY DEF ClaimInv
<1>3. PICK c \in Nat : c = claimed[h] /\ c < Unclaimed
  BY <1>2 DEF StoreCandidate
<1>4. PICK n \in Nat : n = output[Cap] /\ n = Cardinality(Drawn)
  BY <1>2, Counts, LaneNumbers DEF ClaimInv
<1>5. c < n
  BY <1>3, <1>4 DEF ClaimInv, Waiting
<1>6. target' = target /\ Hits' = Hits
  BY DEF StoreCandidate, Hits
<1>7. claimed'[h] = Stored /\ \A g \in Hashes : g # h => claimed'[g] = claimed[g]
  BY <1>2 DEF StoreCandidate
<1>8. claimed' \in [Hashes -> Nat] /\ \A g \in Hashes : claimed'[g] <= Stored
  <2>1. claimed' = [claimed EXCEPT ![h] = Stored]
    BY DEF StoreCandidate
  <2>2. claimed' \in [Hashes -> Nat]
    BY <1>1, <1>2, <2>1
  <2>3. \A g \in Hashes : claimed[g] <= Stored
    BY DEF ClaimInv
  <2> QED
    BY <1>1, <1>7, <2>2, <2>3
<1>9. DOMAIN output' = 0 .. Cap /\ output'[Cap] = n
  <2>1. output' = IF c < Cap THEN [output EXCEPT ![c] = h] ELSE output
    BY <1>3 DEF StoreCandidate, Fits
  <2>2. c < Cap => c # Cap
    BY <1>1
  <2>3. DOMAIN output' = DOMAIN output
    BY <2>1
  <2>4. Cap \in DOMAIN output
    BY <1>1, <1>2
  <2>5. output'[Cap] = output[Cap]
    BY <2>1, <2>2, <2>4
  <2> QED
    BY <1>2, <1>4, <2>3, <2>5
<1>10. \A x \in 0 .. Cap - 1 : output'[x] = IF x = c THEN h ELSE output[x]
  BY <1>1, <1>2, <1>3 DEF StoreCandidate, Fits
<1>11. Drawn' = Drawn
  <2>1. h \in Drawn
    BY <1>1, <1>3 DEF Drawn
  <2> QED
    BY <1>1, <1>7, <2>1 DEF Drawn
<1>12. \A g \in Hashes : claimed'[g] = Skipped => g \notin Hits
  BY <1>1, <1>7 DEF ClaimInv
<1>13. ASSUME NEW g \in Hashes, claimed'[g] < Unclaimed PROVE g # h /\ claimed'[g] = claimed[g]
  BY <1>1, <1>7, <1>13
<1>14. ASSUME NEW g \in Hashes, claimed'[g] < Unclaimed PROVE claimed'[g] < n
  BY <1>4, <1>13, <1>14 DEF ClaimInv, Waiting
<1>15. ASSUME NEW g \in Hashes, NEW f \in Hashes, claimed'[g] < Unclaimed, claimed'[f] < Unclaimed,
              claimed'[g] = claimed'[f]
       PROVE  g = f
  BY <1>13, <1>15 DEF ClaimInv, Waiting
<1>16. ASSUME NEW x \in 0 .. Cap - 1, output'[x] # Empty
       PROVE  output'[x] \in Hashes /\ claimed'[output'[x]] = Stored /\ x < n
  <2>1. CASE x = c
    BY <1>5, <1>7, <1>10, <2>1
  <2>2. CASE x # c
    <3>1. output[x] \in Hashes /\ claimed[output[x]] = Stored /\ x < n /\ output'[x] = output[x]
      BY <1>4, <1>10, <1>16, <2>2 DEF ClaimInv
    <3> QED
      BY <1>7, <3>1
  <2> QED
    BY <2>1, <2>2
<1>17. \A x \in 0 .. Cap - 1 : output[x] # h
  <2>1. h # Empty /\ claimed[h] # Stored
    BY <1>1, <1>3
  <2> QED
    BY <2>1 DEF ClaimInv
<1>18. ASSUME NEW x \in 0 .. Cap - 1, NEW y \in 0 .. Cap - 1, output'[x] # Empty, output'[x] = output'[y]
       PROVE  x = y
  <2>1. CASE x # c /\ y # c
    BY <1>10, <1>18, <2>1 DEF ClaimInv
  <2> QED
    BY <1>10, <1>17, <1>18, <2>1
<1>19. ASSUME NEW x \in 0 .. Cap - 1, x < n, output'[x] = Empty PROVE \E g \in Hashes : claimed'[g] = x
  <2>1. x # c
    BY <1>1, <1>10, <1>19
  <2>2. PICK g \in Hashes : claimed[g] = x
    BY <1>4, <1>10, <1>19, <2>1 DEF ClaimInv
  <2> QED
    BY <1>3, <1>7, <2>1, <2>2
<1>20. ASSUME NEW g \in Hashes, claimed'[g] < Cap PROVE output'[claimed'[g]] = Empty
  <2>1. PICK x \in 0 .. Cap - 1 : x = claimed'[g]
    BY <1>1, <1>8, <1>20
  <2>2. g # h /\ claimed[g] = x
    BY <1>1, <1>13, <2>1
  <2>3. x # c
    <3>1. claimed[g] < Unclaimed
      BY <1>1, <2>1, <2>2
    <3> QED
      BY <1>3, <2>2, <3>1 DEF ClaimInv, Waiting
  <2>4. output[x] = Empty
    BY <1>1, <2>1, <2>2 DEF ClaimInv
  <2> QED
    BY <1>10, <2>1, <2>3, <2>4
<1> QED
  BY <1>4, <1>6, <1>8, <1>9, <1>11, <1>12, <1>14, <1>15, <1>16, <1>18, <1>19, <1>20 DEF ClaimInv, Waiting

\* When all hashes are through, the places below the number of hits and below
\* the end are filled, each with another one, and the rest is empty.
LEMMA AllPlaced ==
    ASSUME ClaimInv, \A h \in Hashes : claimed[h] \in {Skipped, Stored}
    PROVE  /\ output[Cap] = Cardinality(Hits) /\ output[Cap] \in Nat
           /\ \A x \in 0 .. Cap - 1 : /\ output[x] # Empty <=> x < output[Cap]
                                      /\ output[x] # Empty => output[x] \in Hits
           /\ \A x, y \in 0 .. Cap - 1 : output[x] # Empty /\ output[x] = output[y] => x = y
<1>1. /\ Cap \in Nat /\ Unclaimed \in Nat /\ Skipped \in Nat /\ Stored \in Nat
      /\ Cap < Unclaimed /\ Unclaimed < Skipped /\ Skipped < Stored
  BY Marks
<1>2. Hits \subseteq Hashes
  BY DEF Hits
<1>3. \A h \in Hashes : h \in Drawn <=> claimed[h] = Stored
  BY <1>1 DEF Drawn
<1>4. Drawn = Hits
  <2>1. Drawn \subseteq Hits /\ Drawn \subseteq Hashes
    BY DEF ClaimInv, Drawn
  <2>2. \A h \in Hits : claimed[h] = Stored
    BY <1>2 DEF ClaimInv
  <2> QED
    BY <1>2, <1>3, <2>1, <2>2
<1>5. output[Cap] = Cardinality(Hits) /\ output[Cap] \in Nat
  BY <1>4, Counts, LaneNumbers DEF ClaimInv
<1>6. ASSUME NEW x \in 0 .. Cap - 1, output[x] # Empty PROVE x < output[Cap] /\ output[x] \in Hits
  BY <1>3, <1>4, <1>6 DEF ClaimInv
<1>7. ASSUME NEW x \in 0 .. Cap - 1, x < output[Cap], output[x] = Empty PROVE FALSE
  <2>1. PICK h \in Hashes : claimed[h] = x
    BY <1>7 DEF ClaimInv
  <2> QED
    BY <1>1, <2>1
<1>8. \A x, y \in 0 .. Cap - 1 : output[x] # Empty /\ output[x] = output[y] => x = y
  BY DEF ClaimInv
<1> QED
  BY <1>5, <1>6, <1>7, <1>8

LEMMA Listing ==
    ASSUME ClaimInv
    PROVE  CandidatesExact
<1> SUFFICES ASSUME \A h \in Hashes : claimed[h] \in {Skipped, Stored}
             PROVE  LET listed == {output[x] : x \in 0 .. Cap - 1} \ {Empty}
                        fitting == IF Cardinality(Hits) < Cap THEN Cardinality(Hits) ELSE Cap
                    IN  /\ output[Cap] = Cardinality(Hits)
                        /\ listed \subseteq Hits
                        /\ Cardinality(listed) = fitting
  BY DEF CandidatesExact, Hits
<1> DEFINE listed == {output[x] : x \in 0 .. Cap - 1} \ {Empty}
           fitting == IF Cardinality(Hits) < Cap THEN Cardinality(Hits) ELSE Cap
           filled == {x \in 0 .. Cap - 1 : output[x] # Empty}
           entry == [x \in filled |-> output[x]]
<1>1. output[Cap] = Cardinality(Hits) /\ Cardinality(Hits) \in Nat /\ Cap \in Nat
  BY AllPlaced, Marks
<1>2. listed \subseteq Hits
  BY AllPlaced
<1>3. fitting \in Nat /\ filled = 0 .. fitting - 1
  BY <1>1, AllPlaced
<1>4. IsFiniteSet(filled) /\ Cardinality(filled) = fitting
  <2>1. 0 \in Int /\ fitting - 1 \in Int
    BY <1>3
  <2>2. /\ IsFiniteSet(0 .. fitting - 1)
        /\ Cardinality(0 .. fitting - 1) = IF 0 > fitting - 1 THEN 0 ELSE (fitting - 1) - 0 + 1
    BY <2>1, FS_Interval
  <2> HIDE DEF fitting, filled
  <2> QED
    BY <1>3, <2>2
<1>5. entry \in Bijection(filled, listed)
  <2>1. entry \in [filled -> listed]
    OBVIOUS
  <2>2. \A x, y \in filled : entry[x] = entry[y] => x = y
    BY AllPlaced
  <2>3. \A z \in listed : \E x \in filled : entry[x] = z
    OBVIOUS
  <2> HIDE DEF entry, listed, filled
  <2> QED
    BY <2>1, <2>2, <2>3 DEF Bijection, Injection, IsInjective, Surjection
<1>6. Cardinality(listed) = fitting
  <2> HIDE DEF entry, listed, filled, fitting
  <2>1. ExistsBijection(filled, listed)
    BY <1>5 DEF ExistsBijection
  <2> QED
    BY <1>4, <2>1, FS_Bijection
<1> QED
  BY <1>1, <1>2, <1>6

-----------------------------------------------------------------------------
\* Both kernels.
IInv == Cn1Inv /\ Cn2Inv

LEMMA Starts == ASSUME Init, HashesShareWave PROVE IInv
  BY Cn1Starts, TextStarts, ClaimStarts DEF Init, IInv, Cn2Inv

LEMMA Keeps == ASSUME ComputesWords, IInv, [Next]_vars PROVE IInv'
<1>1. Cn1Inv /\ TextInv /\ ClaimInv
  BY DEF IInv, Cn2Inv
<1>2. CASE Cn1Next /\ UNCHANGED cn2Vars
  <2>1. Cn1Inv'
    BY <1>1, <1>2, Cn1Keeps
  <2>2. UNCHANGED <<wave2, target, passed, loaded, text, xin1, xin2, states, claimed, output>>
    BY <1>2 DEF cn2Vars
  <2> QED
    BY <1>1, <2>1, <2>2, TextStays, ClaimStays DEF IInv, Cn2Inv
<1>3. CASE finished = Iterations /\ GroupStep /\ UNCHANGED cn1Vars
  <2>1. Cn1Inv'
    BY <1>1, <1>3, Cn1Stays
  <2>2. ASSUME NEW w \in Waves2, Load(w) PROVE TextInv' /\ ClaimInv'
    <3>1. TextInv'
      BY <1>1, <1>3, <2>2, LoadKeeps
    <3>2. UNCHANGED <<target, claimed, output>>
      BY <2>2 DEF Load
    <3> QED
      BY <1>1, <3>1, <3>2, ClaimStays
  <2>3. ASSUME NEW w \in Waves2, Exchange(w) PROVE TextInv' /\ ClaimInv'
    <3>1. TextInv'
      BY <1>1, <1>3, <2>3, ExchangeKeeps
    <3>2. UNCHANGED <<target, claimed, output>>
      BY <2>3 DEF Exchange
    <3> QED
      BY <1>1, <3>1, <3>2, ClaimStays
  <2>4. ASSUME NEW h \in Hashes, Claim(h) PROVE TextInv' /\ ClaimInv'
    <3>1. UNCHANGED <<wave2, passed, loaded, text, xin1, xin2, states>>
      BY <2>4 DEF Claim
    <3> QED
      BY <1>1, <2>4, <3>1, TextStays, ClaimKeeps
  <2>5. ASSUME NEW h \in Hashes, StoreCandidate(h) PROVE TextInv' /\ ClaimInv'
    <3>1. UNCHANGED <<wave2, passed, loaded, text, xin1, xin2, states>>
      BY <2>5 DEF StoreCandidate
    <3> QED
      BY <1>1, <2>5, <3>1, TextStays, CandidateKeeps
  <2>6. TextInv' /\ ClaimInv'
    BY <1>3, <2>2, <2>3, <2>4, <2>5 DEF GroupStep
  <2> QED
    BY <2>1, <2>6 DEF IInv, Cn2Inv
<1>4. CASE UNCHANGED vars
  <2>1. UNCHANGED cn1Vars
    BY <1>4 DEF vars
  <2>2. UNCHANGED <<wave2, target, passed, loaded, text, xin1, xin2, states, claimed, output>>
    BY <1>4 DEF vars, cn2Vars
  <2> QED
    BY <1>1, <2>1, <2>2, Cn1Stays, TextStays, ClaimStays DEF IInv, Cn2Inv
<1> QED
  BY <1>2, <1>3, <1>4 DEF Next

\* No step changes the size of the waves.
LEMMA WaveKept == ASSUME [Next]_vars PROVE wave' = wave
<1>1. CASE Cn1Next
  BY <1>1 DEF Cn1Next, BeginSlice, EndSlice, WaveStep, Fetch, Store
<1>2. CASE UNCHANGED cn1Vars
  BY <1>2 DEF cn1Vars
<1> QED
  BY <1>1, <1>2 DEF Next, vars

\* The size of the waves of cn1 is one the device has, and if its waves hold
\* whole hashes every hash is where the reference is after as many segments.  If
\* they do not, nothing is claimed: ExactOnEveryWave is false.
WaveInv == wave \in Cn1Waves /\ (HashesShareWave => IInv)

THEOREM KernelInvariant == ComputesWords => (Spec => []WaveInv)
<1>1. Init => WaveInv
  BY Starts DEF Init, Cn1Init, WaveInv
<1> SUFFICES ASSUME ComputesWords PROVE Spec => []WaveInv
  OBVIOUS
<1>2. ASSUME WaveInv, [Next]_vars PROVE WaveInv'
  <2>1. wave' = wave
    BY <1>2, WaveKept
  <2>2. HashesShareWave' => HashesShareWave
    BY <2>1 DEF HashesShareWave, Wave
  <2>3. HashesShareWave' => IInv'
    BY <1>2, <2>2, Keeps DEF WaveInv
  <2> QED
    BY <1>2, <2>1, <2>3 DEF WaveInv
<1>3. WaveInv /\ [Next]_vars => WaveInv'
  BY <1>2
<1> QED
  BY <1>1, <1>3, PTL DEF Spec

\* IInv says of the states what the properties do.
LEMMA ReferenceReached == ASSUME IInv PROVE StatesReference
<1> SUFFICES ASSUME \A w \in Waves2 : passed[w] = Flag, NEW h \in Hashes
             PROVE  \A l \in Texts : states[8 * h + l] = FinalTexts[h][l]
  BY DEF StatesReference
<1>1. TextInv
  BY DEF IInv, Cn2Inv
<1>2. \A l \in Texts : passed[Wave2(8 * h + l)] = Flag
  BY TextNumbers
<1> QED
  BY <1>1, <1>2, StatesRight

\* Where the lanes of each hash share a wave of cn1, cn1.comp and cn2.comp leave
\* the states of the CPU reference: for any number of hashes, slices, order of
\* the waves and size of the waves of cn2.
THEOREM StatesExactAlways == ComputesWords => (Spec => []StatesExact)
<1>1. WaveInv => StatesExact
  BY ReferenceReached DEF WaveInv, StatesExact
<1> QED
  BY <1>1, KernelInvariant, PTL

\* A device all of whose wave sizes are multiples of 16, such as 64 on AMD, where
\* it is pinned, or 32 on NVIDIA, computes the states of the CPU reference.
THEOREM ExactOnWideWaves ==
    ComputesWords /\ (\A n \in Cn1Waves : n % 16 = 0) => (Spec => []ExactOnEveryWave)
<1> SUFFICES ASSUME ComputesWords, \A n \in Cn1Waves : n % 16 = 0
             PROVE  Spec => []ExactOnEveryWave
  OBVIOUS
<1>1. WaveInv => ExactOnEveryWave
  <2> SUFFICES ASSUME WaveInv PROVE ExactOnEveryWave
    OBVIOUS
  <2>1. wave \in Nat \ {0} /\ wave % 16 = 0
    BY WaveAssumption DEF WaveInv
  <2>2. IInv
    BY <2>1, WholeHashes DEF WaveInv
  <2> QED
    BY <2>2, ReferenceReached DEF ExactOnEveryWave
<1> QED
  BY <1>1, KernelInvariant, PTL

\* Where the lanes of each hash share a wave of cn1, the output of cn2.comp lists
\* what the CPU reference finds: for any number of hashes, target and capacity.
THEOREM CandidatesExactAlways == ComputesWords => (Spec => []CandidatesExact)
<1>1. WaveInv => CandidatesExact
  <2> SUFFICES ASSUME WaveInv, HashesShareWave PROVE CandidatesExact
    BY DEF CandidatesExact
  <2> QED
    BY Listing DEF WaveInv, IInv, Cn2Inv
<1> QED
  BY <1>1, KernelInvariant, PTL
=============================================================================
