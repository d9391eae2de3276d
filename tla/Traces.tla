------------------------------- MODULE Traces -------------------------------
(***************************************************************************)
(* The generators of include/traces.hh.  A trace is the sequence of its    *)
(* page numbers; a generator is the set of the traces it can return, empty *)
(* if it throws invalid_argument.  A draw of a random number is any of the *)
(* numbers it can give; seeds and weights do not matter then.              *)
(***************************************************************************)
EXTENDS Integers, Sequences, SequencesExt

CONSTANTS
    IntMax,    \* the largest int
    WordRange  \* 2^64

IntMin == -IntMax - 1

(* static_cast<uint64_t> *)
Unsigned(n) == n % WordRange

(* start_page + offset of two ints, neither negative unless start_page is. *)
(* Past IntMax it is undefined: a build wraps around or has widened the    *)
(* sum to a register.                                                      *)
Sum(start_page, offset, wraps) ==
    IF start_page + offset > IntMax /\ wraps
    THEN start_page + offset - 2 * (IntMax + 1)
    ELSE start_page + offset

Scan(start_page, count, wraps) ==
    [i \in 1..count |-> Unsigned(Sum(start_page, i - 1, wraps))]

Repeated(trace, times) == FlattenSeq([i \in 1..times |-> trace])

(* make_random_read_trace, and make_zipf_read_trace, all of whose weights *)
(* are positive.                                                          *)
RandomReads(length, page_domain) ==
    {t \in [1..length -> 0..page_domain - 1] : page_domain > 0}

RangeReads(start_page, page_count, repetitions) ==
    {Repeated(Scan(start_page, page_count, w), repetitions) :
        w \in {b \in BOOLEAN : page_count > 0}}

Lower(a, b) == IF a < b THEN a ELSE b

\* Mutated SegmentsOf: the scan of a segment does not stop at the domain.
SegmentsOfUncut(page_domain) ==
    {Scan(start, span, FALSE) : start \in 0..page_domain - 1, span \in 1..page_domain}

SegmentsOf(page_domain) ==
    {Scan(start, Lower(span, page_domain - start), FALSE) :
        start \in 0..page_domain - 1, span \in 1..page_domain}

SampledRangeReads(page_domain, segments) ==
    {FlattenSeq(s) : s \in {t \in [1..segments -> SegmentsOf(page_domain)] : page_domain > 0}}

MixedReads(length, page_domain, start_page, page_count, repetitions) ==
    {random \o range : random \in RandomReads(length, page_domain),
                       range \in RangeReads(start_page, page_count, repetitions)}

HotsetScan(hot_start, hot_size, before, scan_start, scan_length, after) ==
    {Repeated(Scan(hot_start, hot_size, w), before) \o Scan(scan_start, scan_length, w)
         \o Repeated(Scan(hot_start, hot_size, w), after) :
        w \in {b \in BOOLEAN : hot_size > 0 /\ scan_length > 0}}

HotColdBurst(hot_start, hot_size, hot_repetitions, cold_start, cold_size, bursts) ==
    {Repeated(Repeated(Scan(hot_start, hot_size, w), hot_repetitions)
                  \o Scan(cold_start, cold_size, w), bursts) :
        w \in {b \in BOOLEAN : hot_size > 0 /\ cold_size > 0}}
=============================================================================
