------------------------------ MODULE CSVSource ------------------------------
(***************************************************************************)
(* Where the chunks of a CSVParser come from, in scripts/csv.hpp:          *)
(* MmapParser, which maps windows of a file and goes back to the row it    *)
(* could not end, and StreamParser, which keeps the characters of that row *)
(* for the next chunk.  Both start with the head of the source, of which   *)
(* the format is guessed.                                                  *)
(***************************************************************************)
EXTENDS CSVParser

CONSTANTS
    HeadSize,                \* 500000
    CSV_CHUNK_SIZE_DEFAULT,
    Candidates               \* the delimiters that guess_csv tries, in order

VARIABLES
    source,    \* "mmap" or "stream"
    format,    \* delimiter, quote, trim characters and chunk size; whether to guess
    text,      \* the characters of the source
    mmap_pos,  \* for a stream, how much of it was read
    head_,     \* for a stream, leftover_
    at_end,    \* eof() of the stream; for a file, whether the head is behind
    parser,    \* the parser in its chunk; between two chunks, after the last one
    phase,     \* "shut", "between" two chunks, "parsing", "eof"
    chunks,    \* the chunks of which rows were kept: data and fields
    rows       \* the rows kept, each with the number of its chunk

sourceVars == <<source, format, text, mmap_pos, head_, at_end, parser, phase, chunks,
                rows>>

-----------------------------------------------------------------------------
(* calculate_score: the rows of a head under one delimiter, and the number *)
(* of fields that are in rows of one size, without the header row and the  *)
(* number of columns that it finds as well.                                *)
RowSizes(p) == [i \in DOMAIN p.records_ |-> p.records_[i].row_length]
RowsOfSize(sizes, n) == {i \in DOMAIN sizes : sizes[i] = n}

ScoreOf(sizes) == Max({0} \cup {n * Cardinality(RowsOfSize(sizes, n)) : n \in Range(sizes)})

calculate_score(head, delimiter) ==
    LET flags == [delimiter |-> delimiter, quote |-> Quote, trim |-> {}]
    IN  The({ScoreOf(RowSizes(end_feed(p))) : p \in {parse(Loaded(flags, head, FALSE, FALSE))}})

(* The delimiter with the highest score, the first of them. *)
guess_format(head) ==
    LET Best(score) == Candidates[Min({i \in DOMAIN score : score[i] = Max(Range(score))})]
    IN  The({Best(score) :
                score \in {[i \in DOMAIN Candidates |-> calculate_score(head, Candidates[i])]}})

(* assert_no_char_overlap of the format's setters. *)
NoOverlap(f) ==
    /\ {f.delimiter, f.quote} \cap f.trim = {} /\ f.delimiter # f.quote

-----------------------------------------------------------------------------
SourceInit(kind, f) ==
    /\ NoOverlap(f)
    /\ source = kind /\ format = f /\ text = <<>>
    /\ mmap_pos = 0 /\ head_ = <<>> /\ at_end = FALSE /\ phase = "shut"
    /\ parser = Loaded(f, <<>>, FALSE, FALSE)
    /\ chunks = <<>> /\ rows = <<>>

(* The constructors: the head is read and the format resolved from it. *)
Open(characters) ==
    /\ phase = "shut" /\ phase' = "between"
    /\ text' = characters
    /\ LET head == SubSeq(characters, 1, Min({HeadSize, Len(characters)}))
           flags == IF format.guess
                    THEN [format EXCEPT !.delimiter = guess_format(head)] ELSE format
       IN  /\ head_' = head /\ at_end' = (source = "stream" /\ Len(characters) < HeadSize)
           /\ mmap_pos' = IF source = "stream" THEN Len(head) ELSE 0
           /\ parser' = Loaded(flags, <<>>, FALSE, FALSE)
    /\ UNCHANGED <<source, format, chunks, rows>>

Load(data) ==
    /\ parser' = Loaded(parser.flags, data, parser.field_has_double_quote_,
                        parser.unicode_bom_scan_)
    /\ phase' = "parsing"
    /\ UNCHANGED <<source, format, text, chunks, rows>>

Window(from, length) == SubSeq(text, from + 1, from + length)

(* MmapParser::next: the head is the first chunk ... *)
NextHead ==
    /\ source = "mmap" /\ phase = "between" /\ head_ # <<>>
    /\ Load(head_)
    /\ head_' = <<>> /\ mmap_pos' = mmap_pos + Len(head_) /\ UNCHANGED at_end

(* ... and then come windows of the file, unless it is empty. *)
NextWindow ==
    /\ source = "mmap" /\ phase = "between" /\ head_ = <<>>
    /\ LET length == Min({Len(text) - mmap_pos, format.chunk_size})
       IN  /\ Load(Window(mmap_pos, length))
           /\ mmap_pos' = mmap_pos + length
    /\ at_end' = TRUE /\ UNCHANGED head_

(* StreamParser::next *)
NextBytes ==
    /\ source = "stream" /\ phase = "between"
    /\ LET n == Min({Len(text) - mmap_pos, format.chunk_size})
       IN  /\ Load(head_ \o Window(mmap_pos, n))
           /\ mmap_pos' = mmap_pos + n
           /\ at_end' = (at_end \/ n < format.chunk_size)
    /\ head_' = <<>>

-----------------------------------------------------------------------------
(* A turn of the loop of parse, case by case. *)
Parse(flag, Case(_)) ==
    /\ phase = "parsing" /\ ~Over(parser) /\ compound_parse_flag(parser) = flag
    /\ parser' = Case(parser)
    /\ UNCHANGED <<source, format, text, mmap_pos, head_, at_end, phase, chunks, rows>>

ParseCase ==
    \/ Parse(DELIMITER, Delimiter)
    \/ Parse(CARRIAGE_RETURN, CarriageReturn)
    \/ Parse(NEWLINE, Newline)
    \/ Parse(NOT_SPECIAL, parse_field)
    \/ Parse(QUOTE_ESCAPE_QUOTE, QuoteEscapeQuote)
    \/ Parse(QUOTE, OpeningQuote)

(* The rows of a chunk share its characters and fields. *)
Keep(p) ==
    /\ chunks' = IF p.records_ = <<>> THEN chunks
                 ELSE Append(chunks, [data |-> p.data, fields |-> p.fields_])
    /\ rows' = rows \o [i \in DOMAIN p.records_ |->
                           [row |-> p.records_[i], chunk |-> Len(chunks) + 1]]
    /\ parser' = p
    /\ UNCHANGED <<source, format, text>>

no_chunk == Len(text) < CSV_CHUNK_SIZE_DEFAULT

\* Mutated FinishWindow: the next window starts where this one ended.
FinishWindowOnwards ==
    /\ source = "mmap" /\ phase = "parsing" /\ Over(parser)
    /\ LET eof == mmap_pos = Len(text) \/ (at_end /\ no_chunk)
       IN  /\ phase' = IF eof THEN "eof" ELSE "between"
           /\ Keep(IF eof THEN end_feed(parser) ELSE parser)
    /\ UNCHANGED <<mmap_pos, head_, at_end>>

(* MmapParser::finalize_loaded_chunk: a window after the head is the last  *)
(* one of a source that is smaller than a chunk by default.                *)
FinishWindow ==
    /\ source = "mmap" /\ phase = "parsing" /\ Over(parser)
    /\ LET eof == mmap_pos = Len(text) \/ (at_end /\ no_chunk)
       IN  /\ phase' = IF eof THEN "eof" ELSE "between"
           /\ Keep(IF eof THEN end_feed(parser) ELSE parser)
    /\ mmap_pos' = mmap_pos - (Len(parser.data) - parser.current_row_.data_start)
    /\ UNCHANGED <<head_, at_end>>

\* Mutated FinishBytes: the end of the stream is not asked for.
FinishBytesEmpty ==
    /\ source = "stream" /\ phase = "parsing" /\ Over(parser)
    /\ LET eof == parser.data = <<>>
       IN  /\ phase' = IF eof THEN "eof" ELSE "between"
           /\ Keep(IF eof THEN end_feed(parser) ELSE parser)
           /\ head_' = IF eof THEN <<>>
                       ELSE SubSeq(parser.data, parser.current_row_.data_start + 1,
                                   Len(parser.data))
    /\ UNCHANGED <<mmap_pos, at_end>>

(* The end of StreamParser::next; a stream knows that it is at its end     *)
(* when less came than was asked for.                                      *)
FinishBytes ==
    /\ source = "stream" /\ phase = "parsing" /\ Over(parser)
    /\ LET eof == at_end \/ parser.data = <<>>
       IN  /\ phase' = IF eof THEN "eof" ELSE "between"
           /\ Keep(IF eof THEN end_feed(parser) ELSE parser)
           /\ head_' = IF eof THEN <<>>
                       ELSE SubSeq(parser.data, parser.current_row_.data_start + 1,
                                   Len(parser.data))
    /\ UNCHANGED <<mmap_pos, at_end>>

Read == NextHead \/ NextWindow \/ NextBytes \/ ParseCase \/ FinishWindow \/ FinishBytes
=============================================================================
