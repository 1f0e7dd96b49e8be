----------------------------- MODULE MCCn2Group ------------------------------
(* Constants of Cn1Group and Cn2Group for TLC: some arithmetic that tells    *)
(* every word and every lane apart.                                          *)
EXTENDS Cn2Group

MCCompute(t, slots, vs) ==
    LET at(i) == slots[0][i] + 3 * slots[1][i] + 5 * slots[2][i] + 7 * slots[3][i]
    IN  [out |-> [i \in 0 .. 3 |-> (at(i) * at(i) + 11 * vs[i] + 13 * t + i) % Modulus],
         va |-> [i \in 0 .. 3 |-> (17 * at(i) + vs[i] * vs[i] + 2 * t + 5 * i) % Modulus]]
MCToInt(w) == (3 * w * w + 1) % Modulus
MCRescale(w) == (5 * w + 2) % Modulus
MCVector(v) == (v[0] + 3 * v[1] + 5 * v[2] + 7 * v[3]) % Modulus
MCAes(x, h) == (x * x * 7 + 31 * x + h + 3) % Modulus
MCPow(s) ==
    (s[0] + 2 * s[1] + 3 * s[2] + 4 * s[3] + 5 * s[4] + 6 * s[5] + 7 * s[6] + 8 * s[7]) % Modulus
MCFill(h, w) == (w * w + 37 * w + 11 * h + 5) % Modulus
MCState(h, l) == (19 * l + 23 * h + 7) % Modulus
MCSeed(h) == (101 * h + 45) % Modulus
=============================================================================
