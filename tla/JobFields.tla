------------------------------ MODULE JobFields ------------------------------
(***************************************************************************)
(* parse_job of src/stratum.rs, and the difficulty that handle_message     *)
(* shows: how the strings of a newWork notification become numbers.        *)
(*                                                                         *)
(* A field is what is left of a string after parse_job has taken off the   *)
(* prefix it takes off there: a sequence of digits, in which Junk stands   *)
(* for a character that is no digit.  A digit is below Base (16 in the     *)
(* code), a u64 has Width digits (16) and a hash HashWidth (64).           *)
(***************************************************************************)
EXTENDS Naturals, Sequences

CONSTANTS Base, Width, HashWidth

ASSUME FieldsAssumption ==
    /\ Base \in Nat \ {0, 1}
    /\ Width \in Nat \ {0}
    /\ HashWidth \in Nat /\ HashWidth >= Width

Digits == 0 .. Base - 1
Junk == Base                \* any other character, the x of a prefix too
Power[n \in 0 .. HashWidth] == IF n = 0 THEN 1 ELSE Base * Power[n - 1]
None == Power[Width]        \* no u64
MaxU64 == Power[Width] - 1

\* What the first n of a sequence of digits are worth, and what all of them are.
Leading(ds) ==
    LET worth[n \in 0 .. Len(ds)] == IF n = 0 THEN 0 ELSE worth[n - 1] * Base + ds[n]
    IN  worth
Worth(ds) == Leading(ds)[Len(ds)]

\* u64::from_str_radix(ds, Base).ok().
HasJunk(ds) == \E i \in DOMAIN ds : ds[i] = Junk
Parse(ds) == IF ds = <<>> \/ HasJunk(ds) \/ Worth(ds) > MaxU64 THEN None ELSE Worth(ds)

Zeros(n) == [i \in 1 .. n |-> 0]

\* The first digits of the target field, as they stand; chars().take stops at
\* the end of a shorter one.  A plausible bug: the last ones are taken.
TopLow(f) == SubSeq(f, Len(f) - Width + 1, Len(f))
Top(f) == SubSeq(f, 1, IF Len(f) < Width THEN Len(f) ELSE Width)
Target(f) == Parse(Top(f))

\* The extra nonce, filled up with zeros on the right; no prefix is taken off, and nothing is cut.
Filled(f) == IF Len(f) >= Width THEN f ELSE f \o Zeros(Width - Len(f))
ExtraNonce(f) == IF f = <<>> THEN 0 ELSE Parse(Filled(f))

\* The difficulty of the log line, in the wrapping arithmetic of a release
\* build.
Difficulty(t) == IF t = 0 THEN 0 ELSE (MaxU64 \div t + 1) % (MaxU64 + 1)

\* hex::decode takes bytes: an even number of digits.  64 digits are 32 bytes.
IsHash(f) == Len(f) = HashWidth /\ ~HasJunk(f)

\* The whole notification: the job, or none.
NoJob == [input |-> <<>>, target |-> None, extra_nonce |-> None]
ParseJob(pow_hash, seed_hash, target, extra) ==
    IF IsHash(pow_hash) /\ IsHash(seed_hash) /\ Target(target) # None /\ ExtraNonce(extra) # None
    THEN [input |-> pow_hash \o seed_hash, target |-> Target(target),
          extra_nonce |-> ExtraNonce(extra)]
    ELSE NoJob

-----------------------------------------------------------------------------
Fields(n) == UNION {[1 .. m -> Digits] : m \in 0 .. n}
Hashes == [1 .. HashWidth -> Digits]

\* The notifications with which a pool announces jobs: a target of full length,
\* an extra nonce that may be shorter than a number.
Notices == [target : Hashes, extra : Fields(Width)]
JobOf(n) == ParseJob(Zeros(HashWidth), Zeros(HashWidth), n.target, n.extra)

\* The 64 bits that the GPU and the verifier compare miss no share that meets
\* the 256 bit target, and let through only hashes that agree with it in those
\* 64 bits.
MissesNothing(n) == \A h \in Hashes :
    LET flagged == Worth(SubSeq(h, 1, Width)) <= JobOf(n).target IN
    /\ Worth(h) <= Worth(n.target) => flagged
    /\ flagged => \/ Worth(h) <= Worth(n.target)
                  \/ SubSeq(h, 1, Width) = SubSeq(n.target, 1, Width)

\* Clients whose extra nonces have the same length and differ search nonces
\* that differ, as long as the cursor stays below what the extra nonce leaves
\* free.
SearchesApart(n) == \A f \in [1 .. Len(n.extra) -> Digits] \ {n.extra} :
    LET room == Power[Width - Len(f)] IN
    \A i, j \in 0 .. room - 1 :
        (JobOf(n).extra_nonce + i) % None # (ExtraNonce(f) + j) % None

\* A difficulty of n is shown exactly when n hashes are the fewest whose targets
\* fill the 64 bits; targets 0 and 1, whose difficulty does not fit, show 0.
ShownRight(n) ==
    LET t == JobOf(n).target
        d == Difficulty(t)
    IN  IF t < 2 THEN d = 0 ELSE d * t > MaxU64 /\ (d - 1) * t <= MaxU64

\* No notification is refused, and none is misread.
AllRead == \A n \in Notices :
    JobOf(n) # NoJob /\ MissesNothing(n) /\ SearchesApart(n) /\ ShownRight(n)
=============================================================================
