----------------------------- MODULE MCStartup ------------------------------
(* Devices and command lines of Startup for TLC.                            *)
EXTENDS Startup

\* A 4 GiB card of the GCN kind, on a driver whose fp32 divides are wrong;
\* an 8 GiB card of the RDNA kind; and a device that is no AMD or NVIDIA GPU.
GCN == [vendor |-> TRUE, amd |-> TRUE, cu |-> 32, min_sub |-> 64, max_sub |-> 64,
        ctl |-> TRUE, mem |-> 4096, max_alloc |-> 4096, int64 |-> TRUE,
        fp64 |-> TRUE, exact |-> {"fp64"}, diverges |-> {}]
RDNA == [GCN EXCEPT !.min_sub = 32, !.mem = 6144, !.cu = 24,
                    !.exact = {"rcp", "markstein", "fp64"}]
Other == [RDNA EXCEPT !.vendor = FALSE, !.amd = FALSE, !.cu = 0, !.max_sub = 32,
                      !.ctl = FALSE, !.fp64 = FALSE, !.exact = {"markstein"}]

MCSystems ==
    {<<GCN, RDNA>>, <<RDNA, Other>>}
        \union {<<[RDNA EXCEPT !.diverges = w]>> :
                   w \in {{<<0, 1>>}, {<<5, 3>>}, {<<3, 2>>, <<63, 4>>}, {<<63, 4>>}}}
        \union {<<[GCN EXCEPT !.fp64 = FALSE]>>, <<[RDNA EXCEPT !.int64 = FALSE]>>,
                <<[GCN EXCEPT !.max_alloc = 100]>>, <<[RDNA EXCEPT !.max_sub = 32]>>,
                <<[RDNA EXCEPT !.amd = FALSE]>>}
        \* Devices of all sizes, for the layout; they cannot be opened.
        \union {<<[GCN EXCEPT !.cu = cu, !.min_sub = m, !.mem = mem, !.max_alloc = a,
                              !.int64 = FALSE]>> :
                   cu \in {0, 14, 84}, m \in {32, 64},
                   mem \in {2048, 8192, 20464}, a \in {100, 256, 4096}}

Plain == [mode |-> "mine", all |-> FALSE, sel |-> <<>>, tps |-> 0, shards |-> 0,
          intensity |-> 100, tune |-> FALSE, crdiv |-> "auto", wave |-> "auto"]
MCConfigs ==
    {[Plain EXCEPT !.mode = m] : m \in {"mine", "microtest", "selftest", "info"}}
        \union {[Plain EXCEPT !.tune = TRUE, !.sel = <<1>>],
                [Plain EXCEPT !.all = TRUE, !.wave = "64"],
                [Plain EXCEPT !.all = TRUE, !.sel = <<2, 0, 9>>, !.wave = "32"],
                [Plain EXCEPT !.sel = <<1, 1>>, !.crdiv = "fp64"],
                [Plain EXCEPT !.sel = <<9>>],
                [Plain EXCEPT !.crdiv = "rcp", !.shards = 3, !.tune = TRUE],
                [Plain EXCEPT !.mode = "selftest", !.crdiv = "markstein", !.wave = "driver"],
                [Plain EXCEPT !.mode = "selftest", !.crdiv = "none"],
                [Plain EXCEPT !.tps = 100], [Plain EXCEPT !.tps = 1024, !.intensity = 300],
                [Plain EXCEPT !.intensity = 1], [Plain EXCEPT !.intensity = 137],
                [Plain EXCEPT !.tps = 448, !.intensity = 137],
                [Plain EXCEPT !.shards = 5]}

=============================================================================
