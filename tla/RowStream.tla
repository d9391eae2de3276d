------------------------------ MODULE RowStream ------------------------------
(***************************************************************************)
(* What the caller of a CSVReader sees: the rows the reader accepts, in    *)
(* the order of the file, one or several at a time, and then the end or an *)
(* error.  The end may come with rows left, all of them of the last chunk  *)
(* of the file; an error may take rows with it.                            *)
(***************************************************************************)
EXTENDS SequencesExt

VARIABLES
    coming,      \* the rows the caller has not seen
    last_chunk,  \* the set of rows of the last chunk, constant
    got,         \* the rows it has
    status       \* "open", "end", "error" or "closed"

vars == <<coming, last_chunk, got, status>>

Init == got = <<>> /\ status = "open"

(* A call returns or stores the next n rows. *)
Deliver(n) ==
    /\ status = "open"
    /\ got' = got \o SubSeq(coming, 1, n)
    /\ coming' = SubSeq(coming, n + 1, Len(coming))
    /\ UNCHANGED <<last_chunk, status>>

End ==
    /\ status = "open" /\ ToSet(coming) \subseteq last_chunk
    /\ status' = "end"
    /\ UNCHANGED <<coming, last_chunk, got>>

(* A call fails after n rows and loses the m rows after those. *)
Fail(n, m) ==
    /\ status = "open" /\ status' = "error"
    /\ got' = got \o SubSeq(coming, 1, n)
    /\ coming' = SubSeq(coming, n + m + 1, Len(coming))
    /\ UNCHANGED last_chunk

Resume ==
    /\ status = "error" /\ status' = "open"
    /\ UNCHANGED <<coming, last_chunk, got>>

Close ==
    /\ status # "closed" /\ status' = "closed"
    /\ UNCHANGED <<coming, last_chunk, got>>

Next ==
    \/ \E n \in 1..Len(coming) : Deliver(n)
    \/ \E n \in 0..Len(coming) : \E m \in 0..(Len(coming) - n) : Fail(n, m)
    \/ End \/ Resume \/ Close

Spec == Init /\ [][Next]_vars
=============================================================================
