--------------------------- MODULE TuneCacheProofs ---------------------------
(***************************************************************************)
(* Proofs about TuneCache for all processes, keys, knobs and cards.        *)
(***************************************************************************)
EXTENDS TuneCache, TLAPS

-----------------------------------------------------------------------------
\* The inductive invariant.

\* What is in the file, in a copy or about to be put there was measured.
MeasuredEntry(e) == \E r \in swept : r.key = e.key /\ r.shards = e.shards

EntriesMeasured ==
    /\ \A e \in file.entries : MeasuredEntry(e)
    /\ \A p \in Procs : Saving(p) => \A e \in copy[p] : MeasuredEntry(e)
    /\ \A p \in Procs : pc[p] = "load" => found[p] \in Counts
    /\ \A p \in Procs : pc[p] = "load" =>
         \E r \in swept : r.key = key[p] /\ r.shards = found[p]

\* A save that overlaps no other is the only one there is, starts from all that
\* is held, and writes into the file it has emptied.
HasKey(entries, k) == \E e \in entries : e.key = k

AloneSaves ==
    \A p \in Procs : Saving(p) =>
        /\ HasKey(copy[p], key[p])
        /\ alone[p] =>
             /\ \A q \in Procs \ {p} : ~Saving(q)
             /\ \A k \in held : HasKey(copy[p], k)
             /\ pc[p] = "write" => file.state = "empty"

Inv == TypeOK /\ EntriesMeasured /\ FoundWasSwept /\ AloneSaves /\ HeldKeysFound

-----------------------------------------------------------------------------
\* The file after a write holds entries of the new content only.
LEMMA WrittenEntries ==
    ASSUME NEW c \in SUBSET Entry, NEW f \in AfterWrite(c), file \in Contents
    PROVE  /\ f \in Contents
           /\ f.entries \subseteq c
           /\ file.state = "empty" => f.entries = c
BY DEF AfterWrite, Good, Torn, Empty, Contents

\* Putting an entry in keeps every key that was there and adds its own.
LEMMA EntryPutIn ==
    ASSUME NEW c \in SUBSET Entry, NEW e \in Entry
    PROVE  /\ WithEntry(c, e) \in SUBSET Entry
           /\ WithEntry(c, e) \subseteq c \union {e}
           /\ HasKey(WithEntry(c, e), e.key)
           /\ \A k : HasKey(c, k) => HasKey(WithEntry(c, e), k)
BY DEF WithEntry, HasKey

\* A count a card has memory for is a count.
LEMMA CardsCount ==
    ASSUME NEW m \in Limits, NEW n \in 1 .. m
    PROVE  n \in Counts /\ n <= m
BY CacheAssumption DEF Counts

\* A count that is cut to the memory of a card is such a count.
LEMMA CutCount ==
    ASSUME NEW m \in Limits, NEW n \in Counts
    PROVE  /\ WithinLimit(n, m) \in Counts
           /\ WithinLimit(n, m) <= m
           /\ WithinLimit(n, m) = n \/ (n > m /\ WithinLimit(n, m) = m)
<1>1. m \in Nat \ {0} /\ n \in Nat \ {0}
  BY CacheAssumption DEF Counts
<1>2. m \in Counts
  BY <1>1, CardsCount
<1> QED
  BY <1>1, <1>2 DEF WithinLimit

\* The contents of the file are entries.
LEMMA FileEntries ==
    ASSUME file \in Contents
    PROVE  file.entries \in SUBSET Entry
BY DEF Contents, Good, Empty, Torn

-----------------------------------------------------------------------------
\* The invariant holds at first.
LEMMA InitInv == Init => Inv
<1> SUFFICES ASSUME Init PROVE Inv
  OBVIOUS
<1>1. TypeOK
  BY CacheAssumption DEF Init, TypeOK, Contents, Empty, Good, Torn, Entry
<1>2. EntriesMeasured /\ AloneSaves
  BY DEF Init, EntriesMeasured, AloneSaves, Empty, Saving
<1>3. FoundWasSwept /\ HeldKeysFound
  BY DEF Init, FoundWasSwept, HeldKeysFound
<1> QED
  BY <1>1, <1>2, <1>3 DEF Inv

\* Every step keeps the types.
LEMMA TypeStep == ASSUME Inv, [Next]_vars PROVE TypeOK'
<1> USE CacheAssumption
<1>0. TypeOK /\ EntriesMeasured
  BY DEF Inv
<1>1. ASSUME NEW p \in Procs, NEW k \in Keys, NEW n \in Knobs, NEW m \in Limits,
             Start(p, k, n, m)
      PROVE  TypeOK'
  BY <1>0, <1>1 DEF Start, TypeOK, histVars
<1>2. ASSUME NEW p \in Procs, LookUp(p) PROVE TypeOK'
  <2>1. file.entries \in SUBSET Entry
    BY <1>0, FileEntries DEF TypeOK
  <2>2. \A e \in file.entries : WithinLimit(e.shards, limit[p]) \in Counts
    <3>1. limit[p] \in Limits /\ \A e \in file.entries : e.shards \in Counts
      BY <1>0, <2>1 DEF TypeOK, Entry
    <3> QED
      BY <3>1, CutCount
  <2>3. found' \in [Procs -> Counts \union {0}]
    BY <1>0, <1>2, <2>2 DEF LookUp, TypeOK, Readable
  <2> QED
    BY <1>0, <1>2, <2>3 DEF LookUp, TypeOK
<1>3. ASSUME NEW p \in Procs, Sweep(p) PROVE TypeOK'
  <2>1. PICK n \in Counts :
          /\ found' = [found EXCEPT ![p] = n]
          /\ swept' = swept \union {[key |-> key[p], knobs |-> knobs[p], shards |-> n]}
    BY <1>0, <1>3, CardsCount DEF Sweep, TypeOK
  <2>2. swept' \subseteq Result
    BY <1>0, <2>1 DEF TypeOK, Result
  <2> QED
    BY <1>0, <1>3, <2>1, <2>2 DEF Sweep, TypeOK
<1>4. ASSUME NEW p \in Procs, SweepFails(p) PROVE TypeOK'
  BY <1>0, <1>4 DEF SweepFails, TypeOK, histVars
<1>5. ASSUME NEW p \in Procs, Load(p) PROVE TypeOK'
  <2>1. file.entries \in SUBSET Entry /\ [key |-> key[p], shards |-> found[p]] \in Entry
    BY <1>0, <1>5, FileEntries DEF Load, TypeOK, EntriesMeasured, Entry
  <2>2. WithEntry(Readable, [key |-> key[p], shards |-> found[p]]) \in SUBSET Entry
    BY <2>1, EntryPutIn DEF Readable
  <2>3. copy' \in [Procs -> SUBSET Entry]
    BY <1>0, <1>5, <2>2 DEF Load, TypeOK
  <2>4. alone' \in [Procs -> BOOLEAN]
    BY <1>0, <1>5 DEF Load, TypeOK
  <2> QED
    BY <1>0, <1>5, <2>3, <2>4 DEF Load, TypeOK
<1>6. ASSUME NEW p \in Procs, Open(p) PROVE TypeOK'
  BY <1>0, <1>6 DEF Open, TypeOK, histVars, Contents
<1>7. ASSUME NEW p \in Procs, Write(p) PROVE TypeOK'
  <2>1. file' \in Contents
    BY <1>0, <1>7, WrittenEntries DEF Write, TypeOK
  <2> QED
    BY <1>0, <1>7, <2>1 DEF Write, TypeOK
<1>8. ASSUME NEW p \in Procs, WriteFails(p) PROVE TypeOK'
  BY <1>0, <1>8 DEF WriteFails, TypeOK, Contents
<1>9. ASSUME NEW p \in Procs, Crash(p) PROVE TypeOK'
  BY <1>0, <1>9 DEF Crash, TypeOK, Contents
<1>10. ASSUME UNCHANGED vars PROVE TypeOK'
  BY <1>0, <1>10 DEF vars, procVars, histVars, TypeOK
<1> QED
  BY <1>1, <1>2, <1>3, <1>4, <1>5, <1>6, <1>7, <1>8, <1>9, <1>10 DEF Next, ProcStep

-----------------------------------------------------------------------------
\* Every step keeps what was measured, and what is returned is of it.
LEMMA MeasuredStep ==
    ASSUME Inv, [Next]_vars
    PROVE  EntriesMeasured' /\ FoundWasSwept'
<1>0. TypeOK /\ EntriesMeasured /\ FoundWasSwept
  BY DEF Inv
<1> USE DEF EntriesMeasured, FoundWasSwept, MeasuredEntry, Saving
<1>1. ASSUME NEW p \in Procs, NEW k \in Keys, NEW n \in Knobs, NEW m \in Limits,
             Start(p, k, n, m)
      PROVE  EntriesMeasured' /\ FoundWasSwept'
  BY <1>0, <1>1 DEF Start, TypeOK, histVars
<1>2. ASSUME NEW p \in Procs, LookUp(p) PROVE EntriesMeasured' /\ FoundWasSwept'
  <2>1. UNCHANGED <<file, key, limit, copy, swept>>
    BY <1>2 DEF LookUp
  <2>2. CASE pc' = [pc EXCEPT ![p] = "sweep"] /\ UNCHANGED found
    BY <1>0, <2>1, <2>2 DEF TypeOK
  <2>3. CASE pc' = [pc EXCEPT ![p] = "done"] /\
             \E e \in file.entries :
               /\ e.key = key[p]
               /\ found' = [found EXCEPT ![p] = WithinLimit(e.shards, limit[p])]
    <3>1. PICK e \in file.entries :
            /\ e.key = key[p]
            /\ found' = [found EXCEPT ![p] = WithinLimit(e.shards, limit[p])]
      BY <2>3
    <3>2. PICK r \in swept : r.key = key[p] /\ r.shards = e.shards
      BY <1>0, <3>1
    <3>3. /\ WithinLimit(e.shards, limit[p]) <= limit[p]
          /\ \/ WithinLimit(e.shards, limit[p]) = e.shards
             \/ e.shards > limit[p] /\ WithinLimit(e.shards, limit[p]) = limit[p]
      <4>1. e.shards \in Counts /\ limit[p] \in Limits /\ limit[p] \in Nat
        <5>1. e \in Entry /\ limit[p] \in Limits
          BY <1>0, FileEntries DEF TypeOK
        <5> QED
          BY <5>1, CacheAssumption DEF Entry
      <4> QED
        BY <4>1, CutCount
    <3> DEFINE w == WithinLimit(e.shards, limit[p])
    <3>5. found'[p] = w /\ \A q \in Procs \ {p} : found'[q] = found[q]
      BY <1>0, <3>1 DEF TypeOK
    <3>6. w <= limit[p] /\ (r.shards = w \/ (r.shards > limit[p] /\ w = limit[p]))
      BY <3>2, <3>3
    <3> HIDE DEF w
    <3>7. FoundWasSwept'
      BY <1>0, <2>1, <3>2, <3>5, <3>6
    <3>4. EntriesMeasured'
      BY <1>0, <2>1, <2>3 DEF TypeOK
    <3> QED
      BY <3>4, <3>7
  <2> QED
    BY <1>2, <2>2, <2>3 DEF LookUp, Readable, Matches
<1>3. ASSUME NEW p \in Procs, Sweep(p) PROVE EntriesMeasured' /\ FoundWasSwept'
  <2>1. PICK n \in Counts :
          /\ n <= limit[p]
          /\ found' = [found EXCEPT ![p] = n]
          /\ swept' = swept \union {[key |-> key[p], knobs |-> knobs[p], shards |-> n]}
    <3>1. limit[p] \in Limits
      BY <1>0 DEF TypeOK
    <3>2. PICK n \in 1 .. limit[p] :
            /\ found' = [found EXCEPT ![p] = n]
            /\ swept' = swept \union {[key |-> key[p], knobs |-> knobs[p], shards |-> n]}
      BY <1>3 DEF Sweep
    <3>3. n \in Counts /\ n <= limit[p]
      BY <3>1, CardsCount
    <3> QED
      BY <3>2, <3>3
  <2>2. \E r \in swept' : r.key = key[p] /\ r.shards = n
    <3>1. [key |-> key[p], knobs |-> knobs[p], shards |-> n] \in swept'
      BY <2>1
    <3> QED
      BY <3>1
  <2>3. swept \subseteq swept' /\ UNCHANGED <<file, key, limit, copy>>
    BY <1>3, <2>1 DEF Sweep
  <2>4. FoundWasSwept'
    BY <1>0, <2>1, <2>2, <2>3 DEF TypeOK
  <2>5. pc' = [pc EXCEPT ![p] = "load"]
    BY <1>3 DEF Sweep
  <2>6. EntriesMeasured'
    BY <1>0, <2>1, <2>2, <2>3, <2>5 DEF TypeOK
  <2> QED
    BY <2>4, <2>6
<1>4. ASSUME NEW p \in Procs, SweepFails(p) PROVE EntriesMeasured' /\ FoundWasSwept'
  BY <1>0, <1>4 DEF SweepFails, TypeOK, histVars
<1>5. ASSUME NEW p \in Procs, Load(p) PROVE EntriesMeasured' /\ FoundWasSwept'
  <2> DEFINE e == [key |-> key[p], shards |-> found[p]]
  <2>1. file.entries \in SUBSET Entry /\ e \in Entry
    BY <1>0, <1>5, FileEntries DEF Load, TypeOK, Entry
  <2>2. copy'[p] \subseteq file.entries \union {e}
    <3>1. copy'[p] = WithEntry(file.entries, e)
      BY <1>0, <1>5 DEF Load, TypeOK, Readable
    <3> HIDE DEF e
    <3> QED
      BY <2>1, <3>1, EntryPutIn
  <2>3. \A f \in copy'[p] : MeasuredEntry(f)
    BY <1>0, <1>5, <2>2 DEF Load
  <2>4. /\ UNCHANGED <<file, key, limit, found, swept>> /\ pc' = [pc EXCEPT ![p] = "open"]
        /\ \A q \in Procs \ {p} : copy'[q] = copy[q]
    BY <1>0, <1>5 DEF Load, TypeOK
  <2> QED
    BY <1>0, <2>3, <2>4 DEF TypeOK
<1>6. ASSUME NEW p \in Procs, Open(p) PROVE EntriesMeasured' /\ FoundWasSwept'
  BY <1>0, <1>6 DEF Open, TypeOK, histVars, Empty
<1>7. ASSUME NEW p \in Procs, Write(p) PROVE EntriesMeasured' /\ FoundWasSwept'
  <2>1. file'.entries \subseteq copy[p]
    BY <1>0, <1>7, WrittenEntries DEF Write, TypeOK
  <2>2. \A e \in file'.entries : MeasuredEntry(e)
    BY <1>0, <1>7, <2>1 DEF Write
  <2>3. UNCHANGED <<key, limit, found, copy, swept>> /\ pc' = [pc EXCEPT ![p] = "done"]
    BY <1>7 DEF Write
  <2> QED
    BY <1>0, <2>2, <2>3 DEF TypeOK
<1>8. ASSUME NEW p \in Procs, WriteFails(p) PROVE EntriesMeasured' /\ FoundWasSwept'
  BY <1>0, <1>8 DEF WriteFails, TypeOK, Torn
<1>9. ASSUME NEW p \in Procs, Crash(p) PROVE EntriesMeasured' /\ FoundWasSwept'
  BY <1>0, <1>9 DEF Crash, TypeOK, Torn
<1>10. ASSUME UNCHANGED vars PROVE EntriesMeasured' /\ FoundWasSwept'
  BY <1>0, <1>10 DEF vars, procVars, histVars
<1> QED
  BY <1>1, <1>2, <1>3, <1>4, <1>5, <1>6, <1>7, <1>8, <1>9, <1>10 DEF Next, ProcStep

\* Every step keeps what lone saves rely on, and the keys that are held.
LEMMA HeldStep ==
    ASSUME Inv, [Next]_vars
    PROVE  AloneSaves' /\ HeldKeysFound'
<1>0. TypeOK /\ EntriesMeasured /\ AloneSaves /\ HeldKeysFound
  BY DEF Inv
<1> USE DEF AloneSaves, HeldKeysFound, HasKey, Saving, Readable
<1>1. ASSUME NEW p \in Procs, NEW k \in Keys, NEW n \in Knobs, NEW m \in Limits,
             Start(p, k, n, m)
      PROVE  AloneSaves' /\ HeldKeysFound'
  BY <1>0, <1>1 DEF Start, TypeOK, histVars
<1>2. ASSUME NEW p \in Procs, LookUp(p) PROVE AloneSaves' /\ HeldKeysFound'
  BY <1>0, <1>2 DEF LookUp, TypeOK
<1>3. ASSUME NEW p \in Procs, Sweep(p) PROVE AloneSaves' /\ HeldKeysFound'
  BY <1>0, <1>3 DEF Sweep, TypeOK
<1>4. ASSUME NEW p \in Procs, SweepFails(p) PROVE AloneSaves' /\ HeldKeysFound'
  BY <1>0, <1>4 DEF SweepFails, TypeOK, histVars
<1>5. ASSUME NEW p \in Procs, Load(p) PROVE AloneSaves' /\ HeldKeysFound'
  <2> DEFINE e == [key |-> key[p], shards |-> found[p]]
  <2>1. file.entries \in SUBSET Entry /\ e \in Entry
    BY <1>0, <1>5, FileEntries DEF Load, TypeOK, EntriesMeasured, Entry
  <2>2. /\ HasKey(copy'[p], key[p])
        /\ \A k : HasKey(file.entries, k) => HasKey(copy'[p], k)
    <3>1. copy'[p] = WithEntry(file.entries, e)
      BY <1>0, <1>5 DEF Load, TypeOK
    <3> HIDE DEF HasKey, e
    <3>2. HasKey(copy'[p], e.key) /\ \A k : HasKey(file.entries, k) => HasKey(copy'[p], k)
      BY <2>1, <3>1, EntryPutIn
    <3> QED
      BY <3>2 DEF e
  <2>3. /\ UNCHANGED <<file, key, held>> /\ pc' = [pc EXCEPT ![p] = "open"]
        /\ \A q \in Procs \ {p} : copy'[q] = copy[q]
        /\ \A q \in Procs : alone'[q] = IF q = p THEN \A r \in Procs : ~Saving(r)
                                        ELSE alone[q] /\ ~Saving(q)
    BY <1>0, <1>5 DEF Load, TypeOK
  <2>4. HeldKeysFound'
    BY <1>0, <1>5, <2>3 DEF Load, TypeOK
  <2>5. ASSUME alone'[p] PROVE \A k \in held : HasKey(copy'[p], k)
    BY <1>0, <2>2, <2>3, <2>5
  <2>6. ASSUME NEW q \in Procs, Saving(q)', q # p PROVE ~alone'[q] /\ HasKey(copy'[q], key[q])
    BY <1>0, <2>3, <2>6 DEF TypeOK
  <2>7. ASSUME alone'[p] PROVE \A q \in Procs \ {p} : ~Saving(q)'
    BY <1>0, <2>3, <2>7 DEF TypeOK
  <2> QED
    BY <1>0, <2>2, <2>3, <2>4, <2>5, <2>6, <2>7 DEF TypeOK
<1>6. ASSUME NEW p \in Procs, Open(p) PROVE AloneSaves' /\ HeldKeysFound'
  BY <1>0, <1>6 DEF Open, TypeOK, histVars, Empty
<1>7. ASSUME NEW p \in Procs, Write(p) PROVE AloneSaves' /\ HeldKeysFound'
  <2>1. /\ UNCHANGED <<key, copy, alone>> /\ pc' = [pc EXCEPT ![p] = "done"]
        /\ held' = IF alone[p] THEN held \union {key[p]} ELSE {}
        /\ pc[p] = "write"
    BY <1>7 DEF Write
  <2>2. CASE alone[p]
    <3>1. /\ \A q \in Procs \ {p} : ~Saving(q)
          /\ \A k \in held \union {key[p]} : HasKey(copy[p], k)
          /\ file.state = "empty"
      BY <1>0, <2>1, <2>2
    <3>2. file'.entries = copy[p]
      BY <1>0, <1>7, <3>1, WrittenEntries DEF Write, TypeOK
    <3>3. HeldKeysFound'
      BY <2>1, <2>2, <3>1, <3>2
    <3>4. AloneSaves'
      BY <1>0, <2>1, <3>1 DEF TypeOK
    <3> QED
      BY <3>3, <3>4
  <2>3. CASE ~alone[p]
    BY <1>0, <2>1, <2>3 DEF TypeOK
  <2> QED
    BY <2>2, <2>3
<1>8. ASSUME NEW p \in Procs, WriteFails(p) PROVE AloneSaves' /\ HeldKeysFound'
  <2>1. \A q \in Procs \ {p} : Saving(q) => ~alone[q]
    BY <1>0, <1>8 DEF WriteFails
  <2>2. CASE pc[p] = "write"
    BY <1>0, <1>8, <2>1, <2>2 DEF WriteFails, TypeOK
  <2>3. CASE pc[p] = "open"
    BY <1>0, <1>8, <2>1, <2>3 DEF WriteFails, TypeOK
  <2> QED
    BY <1>8, <2>2, <2>3 DEF WriteFails
<1>9. ASSUME NEW p \in Procs, Crash(p) PROVE AloneSaves' /\ HeldKeysFound'
  <2>1. CASE pc[p] = "write"
    <3>1. \A q \in Procs \ {p} : Saving(q) => ~alone[q]
      BY <1>0, <2>1
    <3> QED
      BY <1>0, <1>9, <2>1, <3>1 DEF Crash, TypeOK
  <2>2. CASE pc[p] # "write"
    BY <1>0, <1>9, <2>2 DEF Crash, TypeOK
  <2> QED
    BY <2>1, <2>2
<1>10. ASSUME UNCHANGED vars PROVE AloneSaves' /\ HeldKeysFound'
  BY <1>0, <1>10 DEF vars, procVars, histVars
<1> QED
  BY <1>1, <1>2, <1>3, <1>4, <1>5, <1>6, <1>7, <1>8, <1>9, <1>10 DEF Next, ProcStep

-----------------------------------------------------------------------------
\* The invariant holds in every reachable state.
THEOREM Inductive == Spec => []Inv
<1>1. Inv /\ [Next]_vars => Inv'
  BY TypeStep, MeasuredStep, HeldStep DEF Inv
<1> QED
  BY InitInv, <1>1, PTL DEF Spec

\* A count that tune_shards returns, from its own sweep or from the cache, fits
\* the card and was measured with the key that was looked up, or is all the card
\* has memory for where more was measured, whatever processes overlap or die.
THEOREM FoundIsMeasured == Spec => []FoundWasSwept
<1>1. Inv => FoundWasSwept
  BY DEF Inv
<1> QED
  BY Inductive, <1>1, PTL

\* Unless saves overlap or fail, save_tune_entry loses no key: what was saved
\* since the last such event is in the file whenever nobody writes it.
THEOREM LoneSavesKept == Spec => []HeldKeysFound
<1>1. Inv => HeldKeysFound
  BY DEF Inv
<1> QED
  BY Inductive, <1>1, PTL
=============================================================================
