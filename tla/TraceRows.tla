------------------------------ MODULE TraceRows ------------------------------
(***************************************************************************)
(* What the tools of scripts/ share: the requests of a raw trace, one in a *)
(* row of a CSV file, the arithmetic of uint64_t, and the rank statistics  *)
(* that analyze_raw_trace and analyze_locality both compute.               *)
(* A row is a record of disk, type, offset and size.  A number that        *)
(* parse_u64 refuses, out of range or not a number, is NotANumber.         *)
(***************************************************************************)
EXTENDS Integers, Sequences, FiniteSets, SequencesExt, FiniteSetsExt

CONSTANT WORD  \* 2^64

NotANumber == WORD

Word(n) == n % WORD

(* parse_u64 returns; otherwise it aborts the program. *)
Parses(field) == field \in 0..(WORD - 1)

(* A map from values to their frequencies, one more v. *)
Counted(counts, v) ==
    [x \in DOMAIN counts \cup {v} |->
        (IF x \in DOMAIN counts THEN counts[x] ELSE 0) + (IF x = v THEN 1 ELSE 0)]

NoCounts == [v \in {} |-> 0]

UpTo(counts, v) == SumFunctionOnSet(counts, {x \in DOMAIN counts : x <= v})

\* Mutated Quantile: the rank is rounded down.
QuantileBelow(counts, total, q) ==
    LET rank   == (q * total) \div 100
        needed == IF rank < 1 THEN 1 ELSE rank
        enough == {v \in DOMAIN counts : UpTo(counts, v) >= needed}
    IN  IF total = 0 \/ counts = NoCounts THEN 0
        ELSE IF enough = {} THEN Max(DOMAIN counts) ELSE Min(enough)

(* quantile_from_counts for q percent: the smallest value whose rank is at *)
(* least that of the quantile, which is rounded up and at least one.       *)
Quantile(counts, total, q) ==
    LET rank   == (q * total + 99) \div 100
        needed == IF rank < 1 THEN 1 ELSE rank
        enough == {v \in DOMAIN counts : UpTo(counts, v) >= needed}
    IN  IF total = 0 \/ counts = NoCounts THEN 0
        ELSE IF enough = {} THEN Max(DOMAIN counts) ELSE Min(enough)

-----------------------------------------------------------------------------
(* What a quantile is: enough values are not above it, too few below.      *)
IsQuantile(v, counts, q) ==
    LET total == SumFunctionOnSet(counts, DOMAIN counts)
    IN  IF total = 0 THEN v = 0
        ELSE /\ v \in DOMAIN counts
             /\ 100 * UpTo(counts, v) >= q * total
             /\ 100 * UpTo(counts, v - 1) < q * total
=============================================================================
