------------------------------ MODULE SizeText ------------------------------
(***************************************************************************)
(* _parse_size_bytes of src/offs/commands/cache.c: the byte count in       *)
(* `offs cache size 10GiB`, in unsigned integers that end at UINT64_MAX.   *)
(* A text is its sign, its leading digits and the suffix that follows them.*)
(***************************************************************************)
EXTENDS Integers, Sequences, FiniteSets

CONSTANTS
  UINT64_MAX,
  Units            \* suffix -> multiplier, for the suffixes of the table

ASSUME SizeAssumption ==
  /\ UINT64_MAX \in Nat /\ UINT64_MAX >= 10
  /\ \A u \in DOMAIN Units : Units[u] \in 1..UINT64_MAX

NoSuffix == ""

\* The size in a text, as a set: empty when the text is rejected.
Nothing == {}

\* A plausible bug: the test for overflow stops at the product.
AccumulateUnguarded(digits) ==
  LET upto[i \in 0..Len(digits)] ==
        IF i = 0 THEN {0}
        ELSE {(10 * v + digits[i]) % (UINT64_MAX + 1) :
                v \in {v \in upto[i - 1] : v <= UINT64_MAX \div 10}}
  IN upto[Len(digits)]

\* The loop over the digits: value is multiplied and added to with a test for
\* overflow before each.
Accumulate(digits) ==
  LET upto[i \in 0..Len(digits)] ==
        IF i = 0 THEN {0}
        ELSE LET times10 == {10 * v : v \in {v \in upto[i - 1] : v <= UINT64_MAX \div 10}}
             IN {v + digits[i] : v \in {v \in times10 : v <= UINT64_MAX - digits[i]}}
  IN upto[Len(digits)]

Multiplier(suffix) ==
  IF suffix = NoSuffix THEN {1}
  ELSE IF suffix \in DOMAIN Units THEN {Units[suffix]} ELSE Nothing

ParseSize(text) ==
  IF text.signed \/ text.digits = <<>> THEN Nothing
  ELSE UNION {{v * m : m \in {m \in Multiplier(text.suffix) :
                                v # 0 /\ v <= UINT64_MAX \div m}}
              : v \in Accumulate(text.digits)}

-----------------------------------------------------------------------------
(* The reference: the number the text denotes, in unbounded integers. *)

Denotes(digits) ==
  LET value[i \in 0..Len(digits)] ==
        IF i = 0 THEN 0 ELSE 10 * value[i - 1] + digits[i]
  IN value[Len(digits)]

SizeIn(text) ==
  IF text.signed \/ text.digits = <<>> THEN Nothing
  ELSE {Denotes(text.digits) * m : m \in Multiplier(text.suffix)} \cap (1..UINT64_MAX)
=============================================================================
