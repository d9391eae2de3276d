-------------------------- MODULE BenchmarkConfig --------------------------
(***************************************************************************)
(* load_benchmark_specs of include/benchmark_config.hh, one step per line  *)
(* of the configuration.  A line is a record of what the parser sees in it *)
(* after trimming:                                                         *)
(*     [is |-> "comment"]                      blank, or after '#' or ';'  *)
(*     [is |-> "header", name |-> .., closed |-> ..]   opened by '['       *)
(*     [is |-> "entry", key |-> .., value |-> ..]      with a '='          *)
(*     [is |-> "other"]                                without one         *)
(* A name, a key or a value is a string, "" if nothing is written.  A      *)
(* thrown exception destroys the specs; which of several it is, and its    *)
(* message, are left out.                                                  *)
(***************************************************************************)
EXTENDS Traces, FiniteSetsExt, TLC

CONSTANTS
    ConfigFiles,  \* the files to load: sequences of lines
    Numerals      \* the integer of each value that stoll reads to its end, of
                  \* the defaults "0" and "1" among others

Numbers == DOMAIN Numerals

VARIABLES
    file,             \* the lines of the configuration, never changed
    lineno,           \* the lines read
    specs,
    current_section,  \* "" before the first section
    current_values,
    outcome           \* "loading", "loaded" or "thrown"

vars == <<file, lineno, specs, current_section, current_values, outcome>>

NoValues == [k \in {} |-> ""]

-----------------------------------------------------------------------------
(* Reading values.  Each operator gives the set of what the function       *)
(* returns: one element, or none if it throws.                             *)
Required(kv, key) == {kv[k] : k \in {key} \cap DOMAIN kv}
Optional(kv, key, fallback) == IF key \in DOMAIN kv THEN {kv[key]} ELSE {fallback}

ParseInteger(texts) == {Numerals[t] : t \in texts \cap Numbers}

ParseU64(texts) == {n \in ParseInteger(texts) : n >= 0}

ParseInt(texts) == {n \in ParseInteger(texts) : n \in IntMin..IntMax}

(* Of a double only the sign matters, and of the fraction "1.2", which is  *)
(* the one value here that only stod reads to its end, it is that of 1.    *)
ParseDouble(texts) == ParseInteger(texts) \cup {1 : t \in texts \cap {"1.2"}}

(* The arguments of a call are all read, in any order. *)
U64Of(kv, key) == ParseU64(Required(kv, key))
U64Or(kv, key, fallback) == ParseU64(Optional(kv, key, fallback))
IntOf(kv, key) == ParseInt(Required(kv, key))

Alpha(texts) == {a \in ParseDouble(texts) : a >= 0}
Seed(kv) == U64Or(kv, "seed", "0")

(* The traces that build_trace hands to a generator, by kind. *)
InMemory(kind, kv) == UNION CASE
    kind = "random" ->
        {RandomReads(l, d) : l \in U64Of(kv, "length"), d \in IntOf(kv, "page_domain"), s \in Seed(kv)}
  [] kind = "zipf" ->
        {RandomReads(l, d) : l \in U64Of(kv, "length"), d \in IntOf(kv, "page_domain"),
                             a \in Alpha(Required(kv, "alpha")), s \in Seed(kv)}
  [] kind = "range" ->
        {RangeReads(p, c, r) : p \in IntOf(kv, "start_page"), c \in IntOf(kv, "page_count"),
                               r \in U64Or(kv, "repetitions", "1")}
  [] kind = "sampled_range" ->
        {SampledRangeReads(d, n) : d \in IntOf(kv, "page_domain"), n \in U64Of(kv, "segments"),
                                   a \in Alpha(Optional(kv, "alpha", "1.2")), s \in Seed(kv)}
  [] kind = "mixed" ->
        {MixedReads(l, d, p, c, r) :
            l \in U64Of(kv, "random_prefix_length"), d \in IntOf(kv, "random_page_domain"),
            p \in IntOf(kv, "range_start_page"), c \in IntOf(kv, "range_page_count"),
            r \in U64Or(kv, "range_repetitions", "1"), s \in Seed(kv)}
  [] kind = "hotset_scan" ->
        {HotsetScan(h, n, b, p, l, a) :
            h \in IntOf(kv, "hotset_start_page"), n \in IntOf(kv, "hotset_size"),
            b \in U64Of(kv, "hotset_rounds_before_scan"), p \in IntOf(kv, "scan_start_page"),
            l \in IntOf(kv, "scan_length"), a \in U64Of(kv, "hotset_rounds_after_scan")}
  [] kind = "hot_cold_burst" ->
        {HotColdBurst(h, n, r, p, c, b) :
            h \in IntOf(kv, "hotset_start_page"), n \in IntOf(kv, "hotset_size"),
            r \in U64Of(kv, "hot_repetitions_per_burst"), p \in IntOf(kv, "coldset_start_page"),
            c \in IntOf(kv, "coldset_size"), b \in U64Of(kv, "bursts")}
  [] OTHER -> {}

(* build_trace: a trace in memory, or the path of one in a file. *)
BuildTrace(kv) == UNION {
    {[pages |-> t] : t \in InMemory(kind, kv)}
        \cup {[path |-> p] : p \in {q \in Required(kv, "filename") : kind = "binary_file"}} :
    kind \in Required(kv, "kind")}

(* The specs that a section can become, none if it is refused. *)
SpecsOf(name, kv) ==
    {[name |-> name, capacity |-> c, trace |-> t] :
        c \in U64Of(kv, "capacity"), t \in BuildTrace(kv)}

-----------------------------------------------------------------------------
Init ==
    /\ file \in ConfigFiles
    /\ lineno = 0 /\ specs = <<>> /\ outcome = "loading"
    /\ current_section = "" /\ current_values = NoValues

line == file[lineno + 1]
Reading == outcome = "loading" /\ lineno < Len(file)

(* What flush_section makes of specs, nothing if it throws. *)
Flushed ==
    IF current_section = "" THEN {specs}
    ELSE {Append(specs, s) : s \in SpecsOf(current_section, current_values)}

Throw ==
    /\ outcome' = "thrown" /\ specs' = <<>>
    /\ current_section' = "" /\ current_values' = NoValues

ReadComment ==
    /\ Reading /\ line.is = "comment"
    /\ lineno' = lineno + 1
    /\ UNCHANGED <<file, specs, current_section, current_values, outcome>>

\* Mutated ReadHeader: the values of the flushed section are not cleared.
ReadHeaderKept ==
    /\ Reading /\ line.is = "header" /\ line.closed /\ line.name # ""
    /\ specs' \in Flushed
    /\ current_section' = line.name
    /\ lineno' = lineno + 1
    /\ UNCHANGED <<file, current_values, outcome>>

(* A header ends the section before it. *)
ReadHeader ==
    /\ Reading /\ line.is = "header" /\ line.closed /\ line.name # ""
    /\ specs' \in Flushed
    /\ current_section' = line.name /\ current_values' = NoValues
    /\ lineno' = lineno + 1
    /\ UNCHANGED <<file, outcome>>

HeaderRefused ==
    /\ Reading /\ line.is = "header"
    /\ ~line.closed \/ line.name = "" \/ Flushed = {}
    /\ Throw
    /\ UNCHANGED <<file, lineno>>

ReadEntry ==
    /\ Reading /\ line.is = "entry"
    /\ current_section # "" /\ line.key \notin DOMAIN current_values \cup {""}
    /\ current_values' = [k \in DOMAIN current_values \cup {line.key} |->
                             IF k = line.key THEN line.value ELSE current_values[k]]
    /\ lineno' = lineno + 1
    /\ UNCHANGED <<file, specs, current_section, outcome>>

(* An entry outside of any section, one without '=', without a key, or with *)
(* a key that the section already has.                                      *)
EntryRefused ==
    /\ Reading /\ line.is \in {"entry", "other"}
    /\ \/ current_section = ""
       \/ line.is = "other"
       \/ line.is = "entry" /\ line.key \in DOMAIN current_values \cup {""}
    /\ Throw
    /\ UNCHANGED <<file, lineno>>

(* The end of the file ends the last section. *)
Finish ==
    /\ outcome = "loading" /\ lineno = Len(file)
    /\ specs' \in Flushed \ {<<>>} /\ outcome' = "loaded"
    /\ current_section' = "" /\ current_values' = NoValues
    /\ UNCHANGED <<file, lineno>>

FinishRefused ==
    /\ outcome = "loading" /\ lineno = Len(file)
    /\ Flushed \subseteq {<<>>}
    /\ Throw
    /\ UNCHANGED <<file, lineno>>

Returned == outcome # "loading" /\ UNCHANGED vars

Next ==
    \/ ReadComment \/ ReadHeader \/ HeaderRefused \/ ReadEntry \/ EntryRefused
    \/ Finish \/ FinishRefused \/ Returned

Spec == Init /\ [][Next]_vars

-----------------------------------------------------------------------------
(* The reading of a whole file at once: its sections are the runs of lines *)
(* from one header to the next.                                            *)
Headers == SelectSeq([i \in 1..Len(file) |-> i], LAMBDA i : file[i].is = "header")
SectionLines(k) ==
    Headers[k] + 1 .. (IF k = Len(Headers) THEN Len(file) ELSE Headers[k + 1] - 1)
Entries(k) == {i \in SectionLines(k) : file[i].is = "entry"}
Section(k) ==
    [key \in {file[i].key : i \in Entries(k)} |->
        file[CHOOSE i \in Entries(k) : file[i].key = key].value]

WellFormed ==
    /\ Headers # <<>> /\ \A i \in 1..Headers[1] - 1 : file[i].is = "comment"
    /\ \A k \in 1..Len(Headers) :
          /\ file[Headers[k]].closed /\ file[Headers[k]].name # ""
          /\ \A i \in SectionLines(k) : file[i].is \in {"comment", "entry"}
          /\ \A i, j \in Entries(k) : file[i].key = file[j].key => i = j
          /\ "" \notin DOMAIN Section(k)
          /\ SpecsOf(file[Headers[k]].name, Section(k)) # {}

(* The loader returns one spec for every header, in the order of the       *)
(* headers and each from the entries of its own section alone, and throws  *)
(* for a file in which something is missing or wrong and for no other.     *)
LoadedAsWritten ==
    /\ outcome = "thrown" => ~WellFormed
    /\ outcome = "loaded" =>
          /\ WellFormed
          /\ Len(specs) = Len(Headers)
          /\ \A k \in DOMAIN specs : specs[k] \in SpecsOf(file[Headers[k]].name, Section(k))

Numeral(kv, key) == Numerals[kv[key]]
Loaded(kinds) == {k \in DOMAIN specs : Section(k)["kind"] \in kinds}

(* A trace drawn from a domain stays in it, and a segment that is drawn    *)
(* near its end stops there.                                               *)
DrawsInDomain ==
    \A k \in Loaded({"random", "zipf", "sampled_range"}) :
        \A i \in DOMAIN specs[k].trace.pages :
            specs[k].trace.pages[i] < Numeral(Section(k), "page_domain")

StartPages == {"start_page", "range_start_page", "hotset_start_page",
               "scan_start_page", "coldset_start_page"}

(* The page number that pool and recency pool reserve, the largest of all  *)
(* words, is requested only if the file gives a negative page to start at: *)
(* not even a sum that passes the largest int comes back to it.            *)
ReservedOnlyIfNegative ==
    \A k \in DOMAIN specs \ Loaded({"binary_file"}) :
        (\E i \in DOMAIN specs[k].trace.pages : specs[k].trace.pages[i] = WordRange - 1) =>
            \E key \in StartPages \cap DOMAIN Section(k) : Numeral(Section(k), key) < 0

(* Synthetic traces request pages of the domain they were configured for,  *)
(* also where a segment is cut at its end, and the page number that pools  *)
(* reserve only when the file asks for pages below zero.                   *)
PagesInDomain == DrawsInDomain /\ ReservedOnlyIfNegative

-----------------------------------------------------------------------------
(* For model checking: every kind of section, each of them with a key left *)
(* out or a value changed, all pairs of sound sections, and a pair with    *)
(* one more line in any place.                                             *)
SmallNumerals ==
    [t \in {"-1", "0", "1", "2", "3", "5"} |->
        CASE t = "-1" -> -1 [] t = "0" -> 0 [] t = "1" -> 1
          [] t = "2" -> 2 [] t = "3" -> 3 [] t = "5" -> 5]

Sound == {
    [kind |-> "random", capacity |-> "2", length |-> "2", page_domain |-> "2"],
    [kind |-> "zipf", capacity |-> "2", length |-> "1", page_domain |-> "3",
     alpha |-> "1.2", seed |-> "5"],
    [kind |-> "range", capacity |-> "0", start_page |-> "2", page_count |-> "3"],
    [kind |-> "sampled_range", capacity |-> "2", page_domain |-> "2", segments |-> "2"],
    [kind |-> "mixed", capacity |-> "2", random_prefix_length |-> "1",
     random_page_domain |-> "2", range_start_page |-> "1", range_page_count |-> "2"],
    [kind |-> "hotset_scan", capacity |-> "2", hotset_start_page |-> "1",
     hotset_size |-> "2", hotset_rounds_before_scan |-> "1", scan_start_page |-> "3",
     scan_length |-> "3", hotset_rounds_after_scan |-> "0"],
    [kind |-> "hot_cold_burst", capacity |-> "2", hotset_start_page |-> "0",
     hotset_size |-> "1", hot_repetitions_per_burst |-> "2",
     coldset_start_page |-> "2", coldset_size |-> "2", bursts |-> "2"],
    [kind |-> "binary_file", capacity |-> "2", filename |-> "trace"]}

Without(kv, key) == [k \in DOMAIN kv \ {key} |-> kv[k]]
Faulty ==
    UNION {{Without(kv, key) : key \in DOMAIN kv} : kv \in Sound}
    \cup UNION {{[kv EXCEPT ![key] = text] : key \in DOMAIN kv,
                     text \in {"-1", "0", "3", "5", "many", ""}} : kv \in Sound}

Header(name) == [is |-> "header", name |-> name, closed |-> TRUE]
Lines(name, kv) ==
    <<Header(name)>> \o
    FoldSet(LAMBDA k, ls : Append(ls, [is |-> "entry", key |-> k, value |-> kv[k]]),
            <<>>, DOMAIN kv)

Pair == UNION {{Lines("a", kv) \o Lines("b", kw) : kw \in Sound} :
            kv \in {k \in Sound : k.kind \in {"range", "binary_file"}}}

More == {
    [is |-> "comment"], [is |-> "other"],
    [is |-> "header", name |-> "c", closed |-> FALSE], Header(""), Header("c"),
    [is |-> "entry", key |-> "", value |-> "1"],
    [is |-> "entry", key |-> "capacity", value |-> "1"],
    [is |-> "entry", key |-> "repetitions", value |-> "2"]}

Inserted(f, i, l) == SubSeq(f, 1, i) \o <<l>> \o SubSeq(f, i + 1, Len(f))

SmallConfigs ==
    {<<>>, <<[is |-> "comment"]>>}
    \cup {Lines("a", kv) : kv \in Sound \cup Faulty}
    \cup UNION {{Lines("a", kv) \o Lines("b", kw) : kv \in Sound} : kw \in Sound}
    \cup UNION {{Inserted(f, i, l) : i \in 0..Len(f), l \in More} : f \in Pair}
=============================================================================
