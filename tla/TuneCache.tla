----------------------------- MODULE TuneCache -----------------------------
(***************************************************************************)
(* The cache file of src/autotune.rs.  Every process of a user looks up    *)
(* its device in it, and after a sweep reads it again, puts its entry in   *)
(* and writes the whole file in place: load_tune_cache, save_tune_entry    *)
(* and their callers in tune_shards.  Module Tuner has the sweep itself.   *)
(*                                                                         *)
(* The write is the opening, which empties the file, and the writing at    *)
(* the writer's own offset; a file that does not parse is read as an empty *)
(* cache.                                                                  *)
(***************************************************************************)
EXTENDS Naturals, FiniteSets

CONSTANTS
    Procs,      \* processes; one that has several devices runs several times
    Keys,       \* TuneKey values
    Knobs,      \* --wave and --cn1-slices, which a sweep uses and no key holds
    Limits,     \* max_shards of the cards that share a key: no key holds the memory
    MaxStarts,  \* bound: lookups of one process
    MaxFaults   \* bound: failed writes and crashes

ASSUME CacheAssumption ==
    /\ Limits \subseteq Nat \ {0}
    /\ MaxStarts \in Nat /\ MaxFaults \in Nat

Counts == UNION {1 .. m : m \in Limits}
Entry == [key : Keys, shards : Counts]
Result == [key : Keys, knobs : Knobs, shards : Counts]

\* The file: good content, nothing yet, or something that does not parse.
Good(entries) == [state |-> "good", entries |-> entries]
Empty == [state |-> "empty", entries |-> {}]
Torn == [state |-> "torn", entries |-> {}]
Contents == {Good(c) : c \in SUBSET Entry} \union {Empty, Torn}

VARIABLES
    file,
    pc,       \* lookup, sweep, load, open, write or done
    key,      \* the key the process looks up
    knobs,    \* the rest of its configuration
    limit,    \* max_shards of its card
    found,    \* the count tune_shards returns; 0: not yet
    copy,     \* the cache as the process will write it
    starts, faults,
    swept,    \* history: every result of a sweep
    alone,    \* history: whether the save of a process overlaps no other
    held      \* history: keys saved since a save failed or overlapped another

procVars == <<pc, key, knobs, limit, found, copy>>
histVars == <<swept, alone, held>>
vars == <<file, procVars, starts, faults, histVars>>

-----------------------------------------------------------------------------
Readable == file.entries

\* Plausible bugs, each put in the place of the definition it resembles.
MatchesAny(e, k) == TRUE
Matches(e, k) == e.key = k

\* The memory there is bounds a count that was measured with more.
WithinLimit(n, m) == IF n > m THEN m ELSE n

WithEntryAlone(cache, e) == {e}
WithEntry(cache, e) == {f \in cache : f.key # e.key} \union {e}

\* What a file is after a write at offset 0 over what is in it.
AfterWrite(new) == IF file.state = "empty" THEN {Good(new)} ELSE {Good(new), Torn}

-----------------------------------------------------------------------------
Init ==
    /\ file = Empty
    /\ pc = [p \in Procs |-> "done"]
    /\ key \in [Procs -> Keys]
    /\ knobs \in [Procs -> Knobs]
    /\ limit \in [Procs -> Limits]
    /\ found = [p \in Procs |-> 0]
    /\ copy = [p \in Procs |-> {}]
    /\ starts = [p \in Procs |-> 0]
    /\ faults = 0
    /\ swept = {}
    /\ alone = [p \in Procs |-> TRUE]
    /\ held = {}

Start(p, k, n, m) ==
    /\ pc[p] = "done"
    /\ starts[p] < MaxStarts
    /\ starts' = [starts EXCEPT ![p] = @ + 1]
    /\ pc' = [pc EXCEPT ![p] = "lookup"]
    /\ key' = [key EXCEPT ![p] = k]
    /\ knobs' = [knobs EXCEPT ![p] = n]
    /\ limit' = [limit EXCEPT ![p] = m]
    /\ found' = [found EXCEPT ![p] = 0]
    /\ UNCHANGED <<file, copy, faults, histVars>>

\* The entry of the cache, if there is one, within the memory of this card.
LookUp(p) ==
    /\ pc[p] = "lookup"
    /\ LET hits == {e \in Readable : Matches(e, key[p])} IN
         \/ /\ hits # {}
            /\ \E e \in hits :
                  found' = [found EXCEPT ![p] = WithinLimit(e.shards, limit[p])]
            /\ pc' = [pc EXCEPT ![p] = "done"]
         \/ /\ hits = {}
            /\ pc' = [pc EXCEPT ![p] = "sweep"]
            /\ UNCHANGED found
    /\ UNCHANGED <<file, key, knobs, limit, copy, starts, faults, swept, alone, held>>

\* The sweep, which ends with some count or fails.
Sweep(p) ==
    /\ pc[p] = "sweep"
    /\ \E n \in 1 .. limit[p] :
         /\ found' = [found EXCEPT ![p] = n]
         /\ swept' = swept \union {[key |-> key[p], knobs |-> knobs[p], shards |-> n]}
    /\ pc' = [pc EXCEPT ![p] = "load"]
    /\ UNCHANGED <<file, key, knobs, limit, copy, starts, faults, alone, held>>

SweepFails(p) ==
    /\ pc[p] = "sweep"
    /\ pc' = [pc EXCEPT ![p] = "done"]
    /\ UNCHANGED <<file, key, knobs, limit, found, copy, starts, faults, histVars>>

Saving(p) == pc[p] \in {"open", "write"}

\* save_tune_entry: read, replace, write.
Load(p) ==
    /\ pc[p] = "load"
    /\ copy' = [copy EXCEPT ![p] =
                  WithEntry(Readable, [key |-> key[p], shards |-> found[p]])]
    /\ pc' = [pc EXCEPT ![p] = "open"]
    /\ alone' = [q \in Procs |-> IF q = p THEN \A r \in Procs : ~Saving(r)
                                         ELSE alone[q] /\ ~Saving(q)]
    /\ UNCHANGED <<file, key, knobs, limit, found, starts, faults, swept, held>>

Open(p) ==
    /\ pc[p] = "open"
    /\ file' = Empty
    /\ pc' = [pc EXCEPT ![p] = "write"]
    /\ UNCHANGED <<key, knobs, limit, found, copy, starts, faults, histVars>>

Write(p) ==
    /\ pc[p] = "write"
    /\ file' \in AfterWrite(copy[p])
    /\ pc' = [pc EXCEPT ![p] = "done"]
    /\ held' = IF alone[p] THEN held \union {key[p]} ELSE {}
    /\ UNCHANGED <<key, knobs, limit, found, copy, starts, faults, swept, alone>>

\* The file cannot be opened, or the write ends in the middle: a warning.
WriteFails(p) ==
    /\ Saving(p)
    /\ faults < MaxFaults
    /\ faults' = faults + 1
    /\ file' = IF pc[p] = "write" THEN Torn ELSE file
    /\ pc' = [pc EXCEPT ![p] = "done"]
    /\ held' = IF pc[p] = "write" THEN {} ELSE held
    /\ UNCHANGED <<key, knobs, limit, found, copy, starts, swept, alone>>

\* The process dies; in the middle of a write the file stays as it is then.
Crash(p) ==
    /\ pc[p] # "done"
    /\ faults < MaxFaults
    /\ faults' = faults + 1
    /\ file' \in IF pc[p] = "write" THEN {file, Torn} ELSE {file}
    /\ pc' = [pc EXCEPT ![p] = "done"]
    /\ found' = [found EXCEPT ![p] = 0]
    /\ held' = IF pc[p] = "write" THEN {} ELSE held
    /\ UNCHANGED <<key, knobs, limit, copy, starts, swept, alone>>

ProcStep(p) ==
    \/ LookUp(p)
    \/ Sweep(p)
    \/ SweepFails(p)
    \/ Load(p)
    \/ Open(p)
    \/ Write(p)
    \/ WriteFails(p)
    \/ Crash(p)

Next ==
    \E p \in Procs :
        ProcStep(p) \/ \E k \in Keys, n \in Knobs, m \in Limits : Start(p, k, n, m)

Spec == Init /\ [][Next]_vars

-----------------------------------------------------------------------------
\* Every variable has the type its declaration names.
TypeOK ==
    /\ file \in Contents
    /\ pc \in [Procs -> {"lookup", "sweep", "load", "open", "write", "done"}]
    /\ key \in [Procs -> Keys]
    /\ knobs \in [Procs -> Knobs]
    /\ limit \in [Procs -> Limits]
    /\ found \in [Procs -> Counts \union {0}]
    /\ copy \in [Procs -> SUBSET Entry]
    /\ starts \in [Procs -> 0 .. MaxStarts]
    /\ faults \in 0 .. MaxFaults
    /\ swept \subseteq Result
    /\ alone \in [Procs -> BOOLEAN]
    /\ held \subseteq Keys

\* What tune_shards returns was measured, by this process or an earlier one,
\* with the very key that was looked up, and this card has memory for it.  One
\* count is not: the most this card has memory for, where the one that was
\* measured has more; it is the nearest to the measured count.
FoundWasSwept ==
    \A p \in Procs : found[p] # 0 =>
        /\ found[p] <= limit[p]
        /\ \E r \in swept :
              /\ r.key = key[p]
              /\ r.shards = found[p] \/ (r.shards > limit[p] /\ found[p] = limit[p])

\* An entry is lost only when saves overlap, or a process fails or dies while
\* it writes: what was saved since then is found again.  A file that did not
\* parse is repaired by the next such save.
HeldKeysFound ==
    (\A p \in Procs : pc[p] # "write") =>
        \A k \in held : \E e \in Readable : e.key = k

\* autotune.rs says of a cached result that it is "keyed by everything that
\* would invalidate it": what is returned was measured with the settings of now.
FoundFitsSettings ==
    \A p \in Procs : found[p] # 0 =>
        [key |-> key[p], knobs |-> knobs[p], shards |-> found[p]] \in swept
=============================================================================
