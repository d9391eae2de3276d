----------------------------- MODULE MCCSVFiles -----------------------------
(* Files of up to two rows whose fields have every special character and   *)
(* are cut by the end of the head and of a chunk anywhere; files of which  *)
(* the delimiter is guessed; numbers around the limits of the types and    *)
(* around a carry, and numerals of every form.                             *)
EXTENDS CSVFiles

CONSTANT ChunkSizes

MCBom == <<"ef", "bb", "bf">>
MCCandidates == <<",", ";">>
MCIntMax == [t \in IntTypes |-> <<7, 31, 127, 511>>[t - 1]]

T(chars) == [kind |-> "text", text |-> chars]
Texts(table) == [n \in DOMAIN table |-> [i \in DOMAIN table[n] |-> T(table[n][i])]]

TextRows(d) ==
    {<< <<>> >>, << <<"a">> >>, << <<Quote>> >>, << <<"_", "a">> >>, << <<"a", d>>, <<>> >>,
     << <<>>, <<LF>> >>, << <<Quote, "a">>, <<CR, LF>> >>}
Plans(given) == {<<>>} \cup {<<r>> : r \in given} \cup {<<r, s>> : r, s \in given}

Format(d, guess, trim, bytes) ==
    [delimiter |-> d, quote |-> Quote, trim |-> trim, guess |-> guess, chunk_size |-> bytes]
Setup(table, d, minimal, auto, from, f) ==
    [writer |-> [rows |-> table, delimiter |-> d, quote_minimal |-> minimal, auto_flush |-> auto],
     source |-> from, format |-> f]

TextSetups ==
    {Setup(Texts(table), ",", minimal, auto, from, Format(",", FALSE, trim, bytes)) :
        table \in Plans(TextRows(",")), minimal \in BOOLEAN, auto \in BOOLEAN,
        from \in {"mmap", "stream"}, trim \in {{}, {"_"}}, bytes \in ChunkSizes}

GuessRows(d) ==
    {<< <<"a">>, <<"a">>, <<"a">> >>, << <<>>, <<Quote>>, <<>> >>, << <<d>>, <<>>, <<>> >>}
GuessSetups ==
    UNION {{Setup(Texts(table), d, TRUE, TRUE, "mmap", Format(",", TRUE, {}, bytes)) :
               table \in Plans(GuessRows(d)), bytes \in ChunkSizes} : d \in {",", ";"}}

Whole(m) == [m |-> m, places |-> 0, integral |-> TRUE]
Numbers ==
    {Whole(s * n) : s \in {1, -1},
                  n \in UNION {{m, m + 1, 2 * m + 1, 2 * m + 2} : m \in {0, 7, 31, 127, 511}}}
    \cup {[m |-> s * m, places |-> 3, integral |-> FALSE] :
             s \in {1, -1}, m \in {0, 4, 5, 50, 994, 995, 999, 1004, 1995, 9994, 9995, 12345}}

Numerals ==
    {[kind |-> "numeral",
      text |-> lead \o sign[1] \o whole[1] \o part[1] \o power[1] \o trail,
      value |-> [m |-> sign[2] * (whole[2] * 10^part[3] + part[2]),
                 places |-> part[3] - power[2],
                 integral |-> part[1] = <<>> /\ power[1] = <<>>]] :
        lead \in {<<>>, <<" ">>}, trail \in {<<>>, <<" ">>},
        sign \in {<< <<>>, 1>>, << <<"-">>, -1>>, << <<"+">>, 1>>},
        whole \in {<< <<"0">>, 0>>, << <<"1", "2">>, 12>>},
        part \in {<< <<>>, 0, 0>>, << <<".", "5">>, 5, 1>>, << <<".", "0", "3">>, 3, 2>>},
        power \in {<< <<>>, 0>>, << <<"e", "2">>, 2>>, << <<"E", "-", "1">>, -1>>,
                   << <<"e", "+", "1">>, 1>>}}

NumberSetups ==
    {Setup(<< <<field>> >>, ",", TRUE, TRUE, "stream", Format(",", FALSE, {}, bytes)) :
        field \in Numerals \cup {[kind |-> "number", value |-> v] : v \in Numbers},
        bytes \in ChunkSizes}

MCSetups == TextSetups \cup GuessSetups \cup NumberSetups
=============================================================================
