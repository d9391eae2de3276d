----------------------------- MODULE CSVNumbers -----------------------------
(***************************************************************************)
(* Numbers in the texts of fields, in scripts/csv.hpp: to_string, with     *)
(* which a writer makes them, data_type, with which a CSVField reads them, *)
(* and the conversions of CSVField::get and try_get.  A long double is a   *)
(* decimal number [m, places] here, m * 10^-places, without its rounding.  *)
(* Texts end in no "e", after which data_type reads one character too far. *)
(***************************************************************************)
EXTENDS Integers, SequencesExt

CONSTANTS
    CSV_INT_MAX,    \* the largest value of each signed type, by DataType
    DECIMAL_PLACES

(* Characters that are special in a file, the quote as it is by default. *)
LF == "\n"
CR == "\r"
Quote == "\""

(* The DataType of a field, in the order of the enumeration. *)
CSV_NULL == 0
CSV_STRING == 1
CSV_INT8 == 2
CSV_INT64 == 5
CSV_BIGINT == 6
CSV_DOUBLE == 7
IntTypes == CSV_INT8..CSV_INT64

Digits == <<"0", "1", "2", "3", "4", "5", "6", "7", "8", "9">>
IsDigit(c) == c \in ToSet(Digits)
DigitOf(c) == CHOOSE d \in 0..9 : Digits[d + 1] = c
Magnitude(n) == IF n < 0 THEN -n ELSE n

-----------------------------------------------------------------------------
(* The loop of data_type. *)
NothingRead ==
    [verdict |-> "none", ws_allowed |-> TRUE, dot_allowed |-> TRUE, digit_allowed |-> TRUE,
     is_negative |-> FALSE, has_digit |-> FALSE, prob_float |-> FALSE,
     places_after_decimal |-> 0, m |-> 0, exponent |-> 0]

IsString(s) == [s EXCEPT !.verdict = "string"]

ReadDigit(s, d) ==
    IF ~s.digit_allowed THEN IsString(s)
    ELSE [s EXCEPT !.has_digit = TRUE, !.ws_allowed = FALSE, !.m = @ * 10 + d,
                   !.places_after_decimal = IF s.prob_float THEN @ + 1 ELSE @]

ReadChar(s, in, i) ==
    LET c == in[i]
    IN  CASE s.verdict # "none" -> s
          [] c = " " -> IF s.ws_allowed THEN s
                        ELSE IF IsDigit(in[i - 1])
                             THEN [s EXCEPT !.digit_allowed = FALSE, !.ws_allowed = TRUE]
                             ELSE IsString(s)
          [] c = "+" -> IF s.ws_allowed THEN s ELSE IsString(s)
          [] c = "-" -> IF s.ws_allowed THEN [s EXCEPT !.is_negative = TRUE] ELSE IsString(s)
          [] c \in {"e", "E"} ->
                IF s.prob_float \/ (i > 1 /\ i < Len(in) /\ IsDigit(in[i - 1]))
                THEN [s EXCEPT !.verdict = "exponent",
                               !.exponent = IF in[i + 1] = "+" THEN i + 2 ELSE i + 1]
                ELSE IsString(s)
          [] IsDigit(c) -> ReadDigit(s, DigitOf(c))
          [] c = "." /\ s.dot_allowed -> [s EXCEPT !.dot_allowed = FALSE, !.prob_float = TRUE]
          [] OTHER -> IsString(s)

ReadNumber(in) == FoldLeftDomain(LAMBDA s, i : ReadChar(s, in, i), NothingRead, in)

Signed(s) == IF s.is_negative THEN -s.m ELSE s.m

(* For the absolute value of an integer, the smallest type it fits in. *)
_determine_integral_type(n) ==
    LET wide == {t \in IntTypes : n <= CSV_INT_MAX[t]}
    IN  IF wide = {} THEN CSV_BIGINT ELSE Min(wide)

Untyped(type) == [type |-> type, value |-> [m |-> 0, places |-> 0]]

(* What the loop makes of a whole text without an exponent. *)
Plain(s) ==
    IF s.verdict # "none" THEN Untyped(CSV_STRING)
    ELSE IF ~s.has_digit THEN Untyped(CSV_NULL)
    ELSE [type  |-> IF s.prob_float THEN CSV_DOUBLE ELSE _determine_integral_type(s.m),
          value |-> [m |-> Signed(s), places |-> s.places_after_decimal]]

(* An exponent is a text of its own, and must be an integer; with an       *)
(* exponent in it it is none.                                              *)
_process_potential_exponential(s, in) ==
    LET power == Plain(ReadNumber(SubSeq(in, s.exponent, Len(in))))
    IN  IF power.type \in CSV_INT8..(CSV_DOUBLE - 1)
        THEN [type  |-> CSV_DOUBLE,
              value |-> [m |-> Signed(s), places |-> s.places_after_decimal - power.value.m]]
        ELSE Untyped(CSV_STRING)

data_type(in) ==
    LET s == ReadNumber(in)
    IN  IF s.verdict = "exponent" THEN _process_potential_exponential(s, in) ELSE Plain(s)

-----------------------------------------------------------------------------
(* CSVField::check_convert to a signed or unsigned integral type of the    *)
(* width of CSV_INT8 and so on, or to a floating-point type.               *)
get_uint_max(width) == 2 * CSV_INT_MAX[width] + 1
Above(v, n) == IF v.places >= 0 THEN v.m > n * 10^v.places ELSE v.m * 10^(-v.places) > n

get(in, kind, width) ==
    LET t == data_type(in)
    IN  CASE t.type <= CSV_STRING -> "not a number"
          [] kind # "float" /\ t.type = CSV_DOUBLE -> "floating point"
          [] kind = "unsigned" /\ t.value.m < 0 -> "negative"
          [] kind = "unsigned" /\ Above(t.value, get_uint_max(width)) -> "overflow"
          [] kind = "signed" /\ width < t.type -> "overflow"
          [] OTHER -> "converted"

-----------------------------------------------------------------------------
(* to_string: the digits of a number, at least one ... *)
MaxDigits == 8  \* bound on the digits of the numbers written

DigitsOf(n, count) == [i \in 1..count |-> Digits[((n \div 10^(count - i)) % 10) + 1]]
num_digits(n) ==
    IF n = 0 THEN 1 ELSE CHOOSE k \in 1..MaxDigits : 10^(k - 1) <= n /\ n < 10^k

(* ... a fraction rounded to DECIMAL_PLACES, which may carry over ...      *)
Rounded(v) ==
    IF v.places <= DECIMAL_PLACES
    THEN Magnitude(v.m) * 10^(DECIMAL_PLACES - v.places)
    ELSE LET unit == 10^(v.places - DECIMAL_PLACES)
         IN  (Magnitude(v.m) + unit \div 2) \div unit

\* Mutated Integral: what rounding carries over is dropped.
IntegralUncarried(v) == Magnitude(v.m) \div 10^v.places

Integral(v) == Rounded(v) \div 10^DECIMAL_PLACES

(* ... written in full, or as 0 if it is nothing. *)
Fraction(f) == IF f > 0 THEN DigitsOf(f, DECIMAL_PLACES) ELSE <<"0">>

to_string(number) ==
    LET n == IF number.integral THEN Magnitude(number.m) ELSE Integral(number)
    IN  (IF number.m < 0 THEN <<"-">> ELSE <<>>)
        \o DigitsOf(n, num_digits(n))
        \o (IF number.integral THEN <<>>
            ELSE <<".">> \o Fraction(Rounded(number) % 10^DECIMAL_PLACES))

-----------------------------------------------------------------------------
(* Whether two decimal numbers are the same. *)
SameNumber(a, b) ==
    LET places == IF a.places > b.places THEN a.places ELSE b.places
    IN  a.m * 10^(places - a.places) = b.m * 10^(places - b.places)

(* The number that a writer means when it writes another. *)
AsWritten(number) ==
    IF number.integral THEN number
    ELSE [number EXCEPT !.m = IF number.m < 0 THEN -Rounded(number) ELSE Rounded(number),
                        !.places = DECIMAL_PLACES]
=============================================================================
