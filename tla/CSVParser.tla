------------------------------ MODULE CSVParser ------------------------------
(***************************************************************************)
(* IBasicCSVParser of scripts/csv.hpp, which cuts one chunk of characters  *)
(* into rows of fields: its state is a record, a case of its loop is an    *)
(* operator on it.  Positions count from 0, as in the code.  A field is    *)
(* kept as its place in the row, in blocks of RawCSVFieldList, and its     *)
(* text is made when it is asked for.                                      *)
(***************************************************************************)
EXTENDS CSVNumbers

CONSTANTS
    single_buffer_capacity,  \* of a RawCSVFieldList
    BOM                      \* the characters of a UTF-8 byte order mark

UNINITIALIZED_FIELD == -1

(* ParseFlags; what a character is for a delimiter and a quote, and inside *)
(* of a quoted field.                                                      *)
QUOTE_ESCAPE_QUOTE == 0
QUOTE == 3
NOT_SPECIAL == 4
DELIMITER == 5
CARRIAGE_RETURN == 6
NEWLINE == 7

parse_flag(flags, ch) ==
    CASE ch = flags.delimiter -> DELIMITER
      [] ch = flags.quote -> QUOTE
      [] ch = CR -> CARRIAGE_RETURN
      [] ch = LF -> NEWLINE
      [] OTHER -> NOT_SPECIAL

quote_escape_flag(flag, quote_escape) ==
    IF ~quote_escape THEN flag ELSE IF flag = QUOTE THEN QUOTE_ESCAPE_QUOTE ELSE NOT_SPECIAL

CharAt(p, pos) == p.data[pos + 1]
FlagAt(p, pos) == parse_flag(p.flags, CharAt(p, pos))
compound_parse_flag(p) == quote_escape_flag(FlagAt(p, p.data_pos_), p.quote_escape_)

-----------------------------------------------------------------------------
(* RawCSVFieldList *)
NoFields == << <<>> >>

size(blocks) == Len(Last(blocks)) + (Len(blocks) - 1) * single_buffer_capacity

emplace_back(blocks, field) ==
    IF Len(Last(blocks)) = single_buffer_capacity
    THEN Append(blocks, <<field>>)
    ELSE [blocks EXCEPT ![Len(blocks)] = Append(@, field)]

FieldAt(blocks, n) ==
    blocks[(n \div single_buffer_capacity) + 1][(n % single_buffer_capacity) + 1]

(* Row number n of the chunk that is parsed. *)
CSVRow(start, first, length) == [data_start |-> start, fields_start |-> first, row_length |-> length]

-----------------------------------------------------------------------------
(* A parser at the start of the chunk data; parse and trim_utf8_bom do not *)
(* reset field_has_double_quote_.                                          *)
Loaded(flags, data, double_quote, bom_scan) ==
    LET bom == ~bom_scan /\ IsPrefix(BOM, data)
    IN  [flags |-> flags, data |-> data,
         data_pos_ |-> IF bom THEN Len(BOM) ELSE 0,
         unicode_bom_scan_ |-> bom_scan \/ Len(data) >= Len(BOM),
         quote_escape_ |-> FALSE, field_has_double_quote_ |-> double_quote,
         field_start_ |-> UNINITIALIZED_FIELD, field_length_ |-> 0,
         current_row_ |-> CSVRow(0, 0, 0),
         fields_ |-> NoFields, records_ |-> <<>>,
         parsed |-> FALSE]  \* parse has returned

push_field(p) ==
    LET start == IF p.field_start_ = UNINITIALIZED_FIELD THEN 0 ELSE p.field_start_
        field == [start |-> start, length |-> p.field_length_,
                  has_double_quote |-> p.field_has_double_quote_]
    IN  [p EXCEPT !.fields_ = emplace_back(@, field), !.current_row_.row_length = @ + 1,
                  !.field_has_double_quote_ = FALSE,
                  !.field_start_ = UNINITIALIZED_FIELD, !.field_length_ = 0]

push_row(p) ==
    LET row_len == size(p.fields_) - p.current_row_.fields_start
    IN  [p EXCEPT !.records_ =
            Append(@, [p.current_row_ EXCEPT !.row_length = row_len])]

parse_field(p) ==
    LET start == IF p.field_start_ = UNINITIALIZED_FIELD
                 THEN p.data_pos_ - p.current_row_.data_start ELSE p.field_start_
        special == {n \in p.data_pos_..(Len(p.data) - 1) :
                       quote_escape_flag(FlagAt(p, n), p.quote_escape_) # NOT_SPECIAL}
        pos == IF special = {} THEN Len(p.data) ELSE Min(special)
    IN  [p EXCEPT !.field_start_ = start, !.data_pos_ = pos,
                  !.field_length_ = pos - (start + p.current_row_.data_start)]

Delimiter(p) == [push_field(p) EXCEPT !.data_pos_ = @ + 1]

(* The end of a record: a line with nothing on it is a row without fields. *)
Newline(p) ==
    LET blank == p.field_length_ = 0 /\ p.field_start_ = UNINITIALIZED_FIELD
                 /\ p.current_row_.row_length = 0
        q == push_row(IF blank THEN p ELSE push_field(p))
    IN  [q EXCEPT !.data_pos_ = @ + 1,
                  !.current_row_ = CSVRow(p.data_pos_ + 1, size(q.fields_), 0)]

CarriageReturn(p) ==
    LET next == p.data_pos_ + 1
    IN  Newline(IF next < Len(p.data) /\ FlagAt(p, next) = NEWLINE
                THEN [p EXCEPT !.data_pos_ = next] ELSE p)

(* A quote in a quoted field: the last of the chunk, the last of the       *)
(* field, one of two that stand for one, or a stray one.                   *)
QuoteEscapeQuote(p) ==
    LET next == p.data_pos_ + 1
    IN  IF next = Len(p.data) THEN [p EXCEPT !.parsed = TRUE]
        ELSE IF FlagAt(p, next) >= DELIMITER
        THEN [p EXCEPT !.quote_escape_ = FALSE, !.data_pos_ = next]
        ELSE IF FlagAt(p, next) = QUOTE
        THEN [p EXCEPT !.data_pos_ = @ + 2, !.field_length_ = @ + 2,
                       !.field_has_double_quote_ = TRUE]
        ELSE [p EXCEPT !.field_length_ = @ + 1, !.data_pos_ = next]

(* A quote elsewhere: the first of a field, or one of its characters. *)
OpeningQuote(p) ==
    LET next == p.data_pos_ + 1
    IN  IF p.field_length_ # 0
        THEN [p EXCEPT !.field_length_ = @ + 1, !.data_pos_ = next]
        ELSE [p EXCEPT !.quote_escape_ = TRUE, !.data_pos_ = next,
                       !.field_start_ =
                           IF @ = UNINITIALIZED_FIELD /\ next < Len(p.data)
                              /\ CharAt(p, next) \notin p.flags.trim
                           THEN next - p.current_row_.data_start ELSE @]

Over(p) == p.parsed \/ p.data_pos_ >= Len(p.data)

(* A turn of the loop of parse. *)
Turn(p) ==
    LET flag == compound_parse_flag(p)
    IN  CASE flag = DELIMITER -> Delimiter(p)
          [] flag = CARRIAGE_RETURN -> CarriageReturn(p)
          [] flag = NEWLINE -> Newline(p)
          [] flag = NOT_SPECIAL -> parse_field(p)
          [] flag = QUOTE_ESCAPE_QUOTE -> QuoteEscapeQuote(p)
          [] flag = QUOTE -> OpeningQuote(p)

(* What is left at the end of the source: the last field, though it may be *)
(* empty, and the last row.                                                *)
end_feed(p) ==
    LET empty_last_field == p.data # <<>>
            /\ parse_flag(p.flags, Last(p.data)) \in {DELIMITER, QUOTE}
        q == IF p.field_length_ > 0 \/ empty_last_field THEN push_field(p) ELSE p
    IN  IF q.current_row_.row_length > 0 THEN push_row(q) ELSE q

The(singleton) == CHOOSE x \in singleton : TRUE

(* The whole of parse; after n turns the parser is the one element of a    *)
(* set, which TLC evaluates once.                                          *)
parse(p) ==
    LET after[n \in Nat] ==
            IF n = 0 THEN {p} ELSE {IF Over(q) THEN q ELSE Turn(q) : q \in after[n - 1]}
    IN  The(after[Len(p.data)])

-----------------------------------------------------------------------------
(* get_trimmed *)
Trimmed(text, trim) ==
    LET kept == {i \in DOMAIN text : text[i] \notin trim}
    IN  IF kept = {} THEN <<>> ELSE SubSeq(text, Min(kept), Max(kept))

(* Of a run of quotes, every second one goes. *)
Unescaped(text, quote) ==
    LET Copy(s, c) ==
            IF c = quote /\ s.prev_ch_quote THEN [s EXCEPT !.prev_ch_quote = FALSE]
            ELSE [value |-> Append(s.value, c), prev_ch_quote |-> s.prev_ch_quote \/ c = quote]
    IN  FoldLeft(Copy, [value |-> <<>>, prev_ch_quote |-> FALSE], text).value

(* CSVRow::get_field of a row of the chunk data with these fields. *)
get_field(row, index, data, blocks, flags) ==
    LET field == FieldAt(blocks, row.fields_start + index)
        first == row.data_start + field.start
        field_str == SubSeq(data, first + 1, first + field.length)
    IN  Trimmed(IF field.has_double_quote THEN Unescaped(field_str, flags.quote) ELSE field_str,
                flags.trim)

Values(row, data, blocks, flags) ==
    [i \in 1..row.row_length |-> get_field(row, i - 1, data, blocks, flags)]
=============================================================================
