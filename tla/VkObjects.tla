----------------------------- MODULE VkObjects ------------------------------
(***************************************************************************)
(* The Vulkan objects of a Miner (src/miner.rs) and of the comparison of   *)
(* single_compute (src/microtest.rs): the order they are created in, and   *)
(* what the two destructors destroy.                                       *)
(*                                                                         *)
(* An object is <<name, shard, kind>>, shard 0 for what there is once.     *)
(* Command buffers are left out: they live in the command pool only.       *)
(***************************************************************************)
EXTENDS Integers, Sequences, FiniteSets

Pipe(p) == << <<p, 0, "ds_layout">>, <<p, 0, "layout">>,
              <<p, 0, "module">>, <<p, 0, "pipeline">> >>
Buffer(b, i, host) ==
    << <<b, i, "buffer">>, <<b, i, "memory">> >>
        \o IF host THEN << <<b, i, "mapping">> >> ELSE <<>>

\* The buffers the descriptor writes give to each set, in binding order; a
\* set has as many bindings as the pipeline of its name.
Writes ==
    [cn0     |-> <<"input", "states">>,
     cn00    |-> <<"scratch", "states">>,
     cn1     |-> <<"scratch", "states", "cn1_save">>,
     cn2     |-> <<"scratch", "states", "output">>,
     cn2_dbg |-> <<"scratch", "states", "output", "dbg">>]
Bindings(s) == Len(Writes[s])

Kernels(debug) == {"cn0", "cn00", "cn1", "cn2"} \union
                      IF debug THEN {"cn2_dbg"} ELSE {}

Shard(i, debug) ==
    Buffer("scratch", i, debug) \o Buffer("states", i, debug)
        \o Buffer("output", i, TRUE) \o Buffer("cn1_save", i, FALSE)
        \o << <<"cn0", i, "set">>, <<"cn00", i, "set">>,
              <<"cn1", i, "set">>, <<"cn2", i, "set">> >>
        \o IF debug THEN Buffer("dbg", i, TRUE) \o << <<"cn2_dbg", i, "set">> >>
                    ELSE <<>>

\* The objects of shards 1 .. n, one shard after the other.
Shards(n, debug) ==
    LET size == Len(Shard(1, debug))
    IN  [k \in 1 .. n * size |->
            Shard(((k - 1) \div size) + 1, debug)[((k - 1) % size) + 1]]

MinerPlan(n, debug) ==
    Pipe("cn0") \o Pipe("cn00") \o Pipe("cn1") \o Pipe("cn2")
        \o (IF debug THEN Pipe("cn2_dbg") ELSE <<>>)
        \o << <<"descriptors", 0, "pool">> >>
        \o Buffer("input", 0, TRUE)
        \o Shards(n, debug)
        \o << <<"commands", 0, "pool">>, <<"pass", 0, "fence">> >>

ComparePlan ==
    Buffer("in_v", 0, TRUE) \o Buffer("in_rc", 0, TRUE)
        \o Buffer("out_i", 0, TRUE) \o Buffer("out_f", 0, TRUE)
        \o Pipe("sctest")
        \o << <<"descriptors", 0, "pool">>, <<"sctest", 0, "set">>,
              <<"commands", 0, "pool">>, <<"pass", 0, "fence">> >>

\* Pipe::destroy, destroy_buffer, and the two pools and the fence: the
\* descriptor pool takes its sets along.
PipeDestroyed(p) == {<<p, 0, k>> : k \in {"pipeline", "layout", "ds_layout", "module"}}
BufferDestroyed(b, i, host) ==
    {<<b, i, "buffer">>, <<b, i, "memory">>} \union
        IF host THEN {<<b, i, "mapping">>} ELSE {}
PoolsDestroyed(sets) ==
    {<<"pass", 0, "fence">>, <<"commands", 0, "pool">>, <<"descriptors", 0, "pool">>}
        \union sets

\* A plausible bug: the destructor forgets the buffers of debug mode.
MinerDestroysCommon(n, debug) ==
    PoolsDestroyed(Kernels(debug) \X (1 .. n) \X {"set"})
        \union (UNION {PipeDestroyed(p) : p \in Kernels(debug)})
        \union (UNION {BufferDestroyed("scratch", i, debug)
                       \union BufferDestroyed("states", i, debug)
                       \union BufferDestroyed("output", i, TRUE)
                       \union BufferDestroyed("cn1_save", i, FALSE) : i \in 1 .. n})
        \union BufferDestroyed("input", 0, TRUE)
MinerDestroys(n, debug) ==
    MinerDestroysCommon(n, debug)
        \union IF debug THEN UNION {BufferDestroyed("dbg", i, TRUE) : i \in 1 .. n}
                        ELSE {}

CompareDestroys ==
    PoolsDestroyed({<<"sctest", 0, "set">>})
        \union PipeDestroyed("sctest")
        \union (UNION {BufferDestroyed(b, 0, TRUE) : b \in {"in_v", "in_rc", "out_i", "out_f"}})

-----------------------------------------------------------------------------
\* A plausible bug: debug mode's fifth set is not counted.
PoolSetsPlain(n, debug) == 4 * n
PoolSets(n, debug) == (IF debug THEN 5 ELSE 4) * n
PoolDescriptors(n, debug) == (IF debug THEN 10 + 4 ELSE 10) * n

\* What a plan takes from the pool: its sets, and a slot for each binding of
\* each set.
SetsIn(plan) == {o \in {plan[k] : k \in 1 .. Len(plan)} : o[3] = "set"}
SlotsIn(plan) == UNION {{o} \X (1 .. Bindings(o[1])) : o \in SetsIn(plan)}
=============================================================================
