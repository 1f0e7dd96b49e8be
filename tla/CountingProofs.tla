--------------------------- MODULE CountingProofs ---------------------------
(***************************************************************************)
(* Facts about counting that several proofs need: up to a number, by       *)
(* quotient and rest, and the elements of a kind that a queue holds after  *)
(* one is put in or taken out.                                             *)
(***************************************************************************)
EXTENDS Queues, FiniteSetTheorems, WellFoundedInduction, TLAPS

\* What holds at 0 and with each number at the next one holds up to N.
LEMMA UpTo ==
    ASSUME NEW N \in Nat, NEW S, 0 \in S, \A n \in 1 .. N : n - 1 \in S => n \in S
    PROVE  \A n \in 0 .. N : n \in S
<1> DEFINE R == OpToRel(<, Nat)
           T == (0 .. N) \ S
<1>1. IsWellFoundedOn(R, Nat)
  BY NatLessThanWellFounded
<1>2. \A m, n \in Nat : m < n => <<m, n>> \in R
  BY DEF OpToRel
<1> HIDE DEF R
<1>3. ASSUME T # {} PROVE FALSE
  <2>1. T \subseteq Nat
    OBVIOUS
  <2>2. PICK n \in T : \A m \in T : ~ <<m, n>> \in R
    BY <1>1, <1>3, <2>1, WFMin, Zenon
  <2>3. n \in 1 .. N /\ n \notin S
    OBVIOUS
  <2>4. n - 1 \notin S
    BY <2>3
  <2>5. n - 1 \in T
    BY <2>3, <2>4
  <2> QED
    <3>1. n \in Nat /\ n - 1 \in Nat /\ n - 1 < n
      BY <2>3
    <3> QED
      BY <1>2, <2>2, <2>5, <3>1, Zenon
<1> QED
  BY <1>3

\* Quotient and rest are determined by what they are for.
LEMMA DivIs ==
    ASSUME NEW b \in Nat \ {0}, NEW q \in Nat, NEW r \in 0 .. b - 1
    PROVE  (b * q + r) \div b = q /\ (b * q + r) % b = r
<1> DEFINE a == b * q + r
<1>1. a \in Nat
  OBVIOUS
<1>2. PICK p \in Nat : p = a \div b
  BY <1>1
<1>3. PICK s \in 0 .. b - 1 : s = a % b
  BY <1>1
<1>4. a = b * p + s
  BY <1>1, <1>2, <1>3
<1>5. ASSUME NEW x \in Nat, NEW y \in Nat, x < y PROVE b * x + b <= b * y
  <2>1. x + 1 <= y
    BY <1>5
  <2>2. b * (x + 1) <= b * y
    BY <2>1
  <2> QED
    BY <2>2
<1>6. p = q
  <2>1. CASE p < q
    BY <1>4, <1>5, <2>1
  <2>2. CASE q < p
    BY <1>4, <1>5, <2>2
  <2> QED
    BY <2>1, <2>2
<1> QED
  BY <1>2, <1>3, <1>4, <1>6

-----------------------------------------------------------------------------\* There are finitely many places.
LEMMA PlacesFinite ==
    ASSUME NEW S, NEW q \in Seq(S), NEW F
    PROVE  IsFiniteSet(Places(q, F)) /\ Cardinality(Places(q, F)) \in Nat
<1>1. IsFiniteSet(1 .. Len(q)) /\ Places(q, F) \in SUBSET (1 .. Len(q))
  BY FS_Interval DEF Places
<1> QED
  BY <1>1, FS_Subset, FS_CardinalityType

\* No place of an empty queue holds anything.
LEMMA PlacesNone == ASSUME NEW F PROVE Cardinality(Places(<<>>, F)) = 0
<1>1. Places(<<>>, F) = {}
  BY DEF Places
<1> QED
  BY <1>1, FS_EmptySet

\* Putting in one frame adds its place at the end.
LEMMA PlacesAppend ==
    ASSUME NEW S, NEW q \in Seq(S), NEW e \in S, NEW F
    PROVE  Cardinality(Places(Append(q, e), F))
             = Cardinality(Places(q, F)) + (IF e \in F THEN 1 ELSE 0)
<1>1. Places(Append(q, e), F)
        = IF e \in F THEN Places(q, F) \union {Len(q) + 1} ELSE Places(q, F)
  BY DEF Places
<1>2. Len(q) + 1 \notin Places(q, F)
  BY DEF Places
<1>3. IsFiniteSet(Places(q, F)) /\ Cardinality(Places(q, F)) \in Nat
  BY PlacesFinite
<1>4. Cardinality(Places(q, F) \union {Len(q) + 1}) = Cardinality(Places(q, F)) + 1
  BY <1>2, <1>3, FS_AddElement
<1> QED
  BY <1>1, <1>3, <1>4

\* Taking out the first frame moves the others one place down.
LEMMA PlacesTail ==
    ASSUME NEW S, NEW q \in Seq(S), q # <<>>, NEW F
    PROVE  Cardinality(Places(q, F))
             = Cardinality(Places(Tail(q), F)) + (IF Head(q) \in F THEN 1 ELSE 0)
<1> DEFINE Moved == {i \in 2 .. Len(q) : q[i] \in F}
           up == [i \in Places(Tail(q), F) |-> i + 1]
<1>1. Tail(q) \in Seq(S) /\ Len(q) \in Nat \ {0} /\ Len(Tail(q)) = Len(q) - 1
      /\ Head(q) = q[1] /\ \A i \in 1 .. Len(q) - 1 : Tail(q)[i] = q[i + 1]
  OBVIOUS
<1>2. up \in Bijection(Places(Tail(q), F), Moved)
  <2>1. up \in [Places(Tail(q), F) -> Moved]
    BY <1>1 DEF Places
  <2>2. \A i, j \in Places(Tail(q), F) : up[i] = up[j] => i = j
    BY DEF Places
  <2>3. ASSUME NEW k \in Moved PROVE \E i \in Places(Tail(q), F) : up[i] = k
    <3>1. k - 1 \in Places(Tail(q), F)
      BY <1>1 DEF Places
    <3> QED
      BY <3>1
  <2> QED
    BY <2>1, <2>2, <2>3 DEF Bijection, Injection, IsInjective, Surjection
<1>3. IsFiniteSet(Moved) /\ Cardinality(Moved) = Cardinality(Places(Tail(q), F))
  <2>1. IsFiniteSet(Moved)
    <3>1. IsFiniteSet(2 .. Len(q)) /\ Moved \in SUBSET (2 .. Len(q))
      BY <1>1, FS_Interval
    <3> QED
      BY <3>1, FS_Subset
  <2>2. IsFiniteSet(Places(Tail(q), F))
    BY <1>1, PlacesFinite
  <2>3. ExistsBijection(Places(Tail(q), F), Moved)
    BY <1>2 DEF ExistsBijection
  <2> HIDE DEF Moved
  <2> QED
    BY <2>1, <2>2, <2>3, FS_Bijection
<1>4. Places(q, F) = IF Head(q) \in F THEN Moved \union {1} ELSE Moved
  BY <1>1 DEF Places
<1>5. 1 \notin Moved
  OBVIOUS
<1>6. Cardinality(Places(Tail(q), F)) \in Nat
  BY <1>1, PlacesFinite
<1> HIDE DEF Moved
<1>7. Cardinality(Moved \union {1}) = Cardinality(Moved) + 1
  BY <1>3, <1>5, FS_AddElement
<1> QED
  BY <1>3, <1>4, <1>6, <1>7
=============================================================================
