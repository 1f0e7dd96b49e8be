---------------------------- MODULE HashReference ----------------------------
(***************************************************************************)
(* The CPU reference of src/cnhash.rs from the filled scratchpad on:       *)
(* cn1_loop and cn2_finalize, with the indices of the code.  The words are *)
(* numbers below Modulus and what is computed from them is abstract: only  *)
(* which word goes where matters here.  Xor stands for ^ and for the       *)
(* exclusive or of vectors, Add for the float addition, which is not       *)
(* associative; a vector of four words that cn2 treats as one is one value.*)
(***************************************************************************)
EXTENDS Naturals, Sequences, FiniteSets

CONSTANTS
    Hashes,         \* the hashes of a workgroup, numbered from 0
    Modulus,
    Lines,          \* MEMORY / 64: lines of 16 words; the code has 32768
    Iterations,     \* ITERATIONS
    TailRounds,     \* the 16 rounds at the end of cn2_finalize
    Compute(_, _, _),   \* single_compute_wrap of a lane: va and out, 4 words each
    ToInt(_), Rescale(_),   \* what substep 3 makes of the sum w
    Vector(_),      \* the vector of four words as one value
    Aes(_, _),      \* aes10 with the key of a hash
    Pow(_),         \* keccakf and bswap64 of the final state
    Fill(_, _),     \* the scratchpad as explode leaves it
    State(_, _),    \* the lanes of the state that cn2 takes up ...
    Seed(_)         \* ... and state0 >> 8

ASSUME ReferenceAssumption ==
    /\ Modulus \in Nat \ {0, 1}
    /\ Lines \in Nat \ {0} /\ Lines % 4 = 0
    /\ Iterations \in Nat \ {0}
    /\ TailRounds \in Nat \ {0}
    /\ IsFiniteSet(Hashes) /\ Hashes = 0 .. Cardinality(Hashes) - 1

Values == 0 .. Modulus - 1
Lanes == 0 .. 15
PadWords == 16 * Lines

ASSUME WordsAssumption ==
    /\ \A x \in Values : ToInt(x) \in Values /\ Rescale(x) \in Values
    /\ \A h \in Hashes : Seed(h) \in Nat /\ \A w \in 0 .. PadWords - 1 : Fill(h, w) \in Values

Xor(a, b) == (a + b) % Modulus
Add(a, b) == (a * a + b * b + 1) % Modulus

CnLook == <<
    0, 1, 2, 3,  0, 2, 3, 1,  0, 3, 1, 2,  0, 3, 2, 1,
    1, 0, 2, 3,  1, 2, 3, 0,  1, 3, 0, 2,  1, 3, 2, 0,
    2, 1, 0, 3,  2, 0, 3, 1,  2, 3, 1, 0,  2, 3, 0, 1,
    3, 1, 2, 0,  3, 2, 0, 1,  3, 0, 1, 2,  3, 0, 2, 1 >>

Block(t) == (t \div 4) * 16 + (t % 4)

\* A word of the line that s points to, and what the substeps read, at b of a
\* memory.
Spot(s, t) == (s % Lines) * 16 + (t \div 4) * 4 + (t % 4)
Slot(mem, b, j) == [i \in 0 .. 3 |-> mem[b + 4 * j + i]]
LookedUp(mem, b, t) == [k \in 0 .. 3 |-> Slot(mem, b, CnLook[4 * t + k + 1])]
XorOf4(mem, b, n) ==
    Xor(Xor(Xor(mem[b], mem[b + n]), mem[b + 2 * n]), mem[b + 3 * n])
SumOf4(mem, b) == Add(Add(mem[b], mem[b + 4]), Add(mem[b + 8], mem[b + 12]))

\* One iteration of cn1_loop.
Iterate(r) ==
    LET tmp == [t \in Lanes |-> r.pad[Spot(r.s, t)]]
        mix == [t \in Lanes |-> Compute(t, LookedUp(tmp, 0, t), r.vs)]
        out1 == [w \in 0 .. 63 |-> mix[w \div 4].out[w % 4]]
        va1 == [w \in 0 .. 63 |-> mix[w \div 4].va[w % 4]]
        folded == [t \in Lanes |-> XorOf4(out1, Block(t), 4)]
        out2 == [w \in 0 .. 63 |-> IF w \in Lanes THEN folded[w] ELSE out1[w]]
        va2 == [w \in 0 .. 63 |-> IF w \in Lanes THEN SumOf4(va1, Block(w)) ELSE va1[w]]
        sum == [t \in Lanes |-> SumOf4(va2, Block(t))]
        out3 == [t \in Lanes |-> Xor(XorOf4(out2, t, 4), ToInt(sum[t]))]
    IN  [s |-> XorOf4(out3, 0, 1),
         vs |-> [i \in 0 .. 3 |-> Rescale(sum[i])],
         pad |-> [w \in DOMAIN r.pad |->
                    IF w \div 16 = r.s % Lines THEN Xor(folded[w % 16], tmp[w % 16])
                                               ELSE r.pad[w]]]

\* The loop state of a hash after n iterations.
Begun(h) == [s |-> Seed(h), vs |-> [i \in 0 .. 3 |-> 0],
             pad |-> [w \in 0 .. PadWords - 1 |-> Fill(h, w)]]
Rounds[n \in 0 .. Iterations] ==
    IF n = 0 THEN [h \in Hashes |-> Begun(h)]
    ELSE LET before == Rounds[n - 1] IN [h \in Hashes |-> Iterate(before[h])]
AfterRounds == [n \in 0 .. Iterations |-> Rounds[n]]

-----------------------------------------------------------------------------
\* cn2_finalize: eight vectors of text, xored with the scratchpad and with
\* their neighbours in turn, twice over the scratchpad.
Texts == 0 .. 7
Loops == Lines \div 2
Stride == 4 * Lines                   \* vectors in a scratchpad
Vec(pad, b, i) == Vector([k \in 0 .. 3 |-> pad[b + 4 * i + k]])

Mixed(x, h) == [l \in Texts |-> Aes(x[l], h)]
WithNext(x, y) == [l \in Texts |-> Xor(x[l], y[(l + 1) % 8])]

\* The text of hash h after n rounds of the loop, and what it exchanged last.
LoopText(h, pad) ==
    LET loop[n \in 0 .. Loops] ==
          IF n = 0 THEN [text |-> [l \in Texts |-> State(h, l)], xin2 |-> [l \in Texts |-> 0]]
          ELSE LET at(l) == ((16 * (n - 1)) + l) % Stride
                   before == loop[n - 1]
                   first == [l \in Texts |-> Xor(before.text[l], Vec(pad, 0, at(l)))]
                   xin1 == Mixed(WithNext(first, before.xin2), h)
                   second == [l \in Texts |-> Xor(xin1[l], Vec(pad, 0, at(l) + 8))]
                   xin2 == Mixed(WithNext(second, xin1), h)
               IN  [text |-> xin2, xin2 |-> xin2]
    IN  loop

\* And after n rounds of the tail, which starts from x.
TailText(h, x) ==
    LET tail[n \in 0 .. TailRounds] ==
          IF n = 0 THEN x
          ELSE LET y == Mixed(tail[n - 1], h) IN WithNext(y, y)
    IN  tail

FinalText(h, pad) ==
    LET last == LoopText(h, pad)[Loops]
    IN  TailText(h, WithNext(last.text, last.xin2))[TailRounds]

\* fusion_hash.
FinalTexts == [h \in Hashes |-> FinalText(h, AfterRounds[Iterations][h].pad)]
FusionHash == [h \in Hashes |-> Pow(FinalTexts[h])]
=============================================================================
