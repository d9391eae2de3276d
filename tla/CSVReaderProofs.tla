--------------------------- MODULE CSVReaderProofs ---------------------------
(***************************************************************************)
(* That both threads of a CSVReader keep the queue, its flags and the      *)
(* reader's own state consistent, and that the caller sees the stream of   *)
(* rows that RowStream describes, for every file, policy, batch size and   *)
(* NotifySize.                                                             *)
(***************************************************************************)
EXTENDS CSVReader, TLAPS

Limit == IF max_rows = 0 THEN 1 ELSE max_rows

(* Where the variables can be. *)
ReaderTyped ==
    /\ file \in Files /\ max_rows \in BatchSizes
    /\ chunk \in 1..Chunks
    /\ data \in Seq(DOMAIN file.rows) /\ todo \in Seq(DOMAIN file.rows)
    /\ got \in Seq(DOMAIN file.rows)
    /\ is_empty \in BOOLEAN /\ is_waitable \in BOOLEAN /\ asleep \in BOOLEAN
    /\ eof \in BOOLEAN /\ header_trimmed \in BOOLEAN /\ exception \in BOOLEAN
    /\ read_requested \in BOOLEAN
    /\ worker \in {"none", "started", "parsing", "stopping", "finished"}
    /\ caller \in {"construct", "joins first", "outside", "asks empty", "asks waitable",
                   "waits", "takes", "joins", "caught", "ended", "closed"}
    /\ out_size \in Nat /\ retries \in 0..MaxRetries

(* A call goes on only while there is room in its batch. *)
RoomLeft ==
    /\ out_size <= Limit
    /\ caller \in {"asks empty", "asks waitable", "waits", "takes", "joins"} =>
           out_size < Limit

(* is_waitable tells whether the worker may still push rows. *)
FlagsRight ==
    /\ DequeConsistent
    /\ worker \in {"parsing", "stopping"} => is_waitable
    /\ worker \in {"none", "finished"} => ~is_waitable
    /\ caller = "closed" => worker = "none"

(* A worker that does not parse any more has parsed its chunk to the end,  *)
(* or cannot read it; the end of the file is found in the last chunk.      *)
ChunkDone ==
    /\ worker \in {"stopping", "finished"} \/ (worker = "none" /\ caller # "construct") =>
           file.bad = chunk \/ (todo = <<>> /\ (chunk = Chunks => eof))
    /\ eof => chunk = Chunks /\ file.bad # chunk

(* The header is cut off before the caller can take a row, and rows before *)
(* that are those from the first on.                                       *)
HeaderFirst ==
    /\ worker \in {"stopping", "finished"} => exception \/ header_trimmed
    /\ caller = "construct" => worker = "none"
    /\ caller \notin {"construct", "joins first", "closed"} => header_trimmed
    /\ ~header_trimmed => chunk = 1 /\ \A i \in DOMAIN data : data[i] = i
    /\ ~header_trimmed => \A i \in DOMAIN todo : todo[i] = Len(data) + i
    /\ header_trimmed => \A i \in DOMAIN data : data[i] > Header
    /\ header_trimmed => \A i \in DOMAIN todo : todo[i] > Header

(* The worker pushes rows of its chunk, and all the queue holds are such   *)
(* rows when the caller has found it empty.                                *)
RowsOfChunk ==
    /\ \A i \in DOMAIN todo : todo[i] \in ToSet(RowsOf(chunk))
    /\ caller \in {"asks waitable", "joins"} =>
           \A i \in DOMAIN data : data[i] \in ToSet(RowsOf(chunk))

ReaderInv ==
    ReaderTyped /\ RoomLeft /\ FlagsRight /\ ChunkDone /\ HeaderFirst /\ RowsOfChunk

-----------------------------------------------------------------------------
(* The chunks of a file follow each other from its first row to its last.  *)
LEMMA FileShape ==
    ASSUME file \in Files
    PROVE  /\ Chunks \in Nat /\ Chunks >= 1 /\ DOMAIN file.ends = 1..Chunks
           /\ Len(file.rows) \in Nat /\ DOMAIN file.rows = 1..Len(file.rows)
           /\ \A c \in 1..Chunks : file.ends[c] \in 0..Len(file.rows)
           /\ \A c, d \in 1..Chunks : c < d => file.ends[c] <= file.ends[d]
           /\ file.ends[Chunks] = Len(file.rows)
           /\ Header \in Nat /\ (Chunks > 1 => Header <= file.ends[1])
<1>1. IsFile(file)
  BY FilesAssumption
<1>2. /\ file.rows \in Seq({"ok", "odd", "blank"}) /\ file.ends \in Seq(Nat)
      /\ file.ends # <<>> /\ Chunks = Len(file.ends)
      /\ file.ends[Chunks] = Len(file.rows)
      /\ \A i, j \in DOMAIN file.ends : i < j => file.ends[i] <= file.ends[j]
      /\ Chunks = 1 \/ file.ends[1] >= Header
  BY <1>1 DEF IsFile, Chunks
<1>3. Chunks \in Nat /\ Chunks >= 1 /\ DOMAIN file.ends = 1..Chunks
  BY <1>2, LenProperties
<1>4. Len(file.rows) \in Nat /\ DOMAIN file.rows = 1..Len(file.rows)
  BY <1>2, LenProperties
<1>5. \A c \in 1..Chunks : file.ends[c] \in Nat
  BY <1>2, <1>3, ElementOfSeq
<1>6. \A c, d \in 1..Chunks : c < d => file.ends[c] <= file.ends[d]
  BY <1>2, <1>3
<1>7. ASSUME NEW c \in 1..Chunks PROVE file.ends[c] <= Len(file.rows)
  <2>1. Chunks \in 1..Chunks /\ (c = Chunks \/ c < Chunks)
    BY <1>3
  <2> QED
    BY <2>1, <1>2, <1>4, <1>6
<1>8. \A c \in 1..Chunks : file.ends[c] \in 0..Len(file.rows)
  BY <1>4, <1>5, <1>7
<1>9. Header \in Nat
  BY FilesAssumption
<1>10. Chunks > 1 => Header <= file.ends[1]
  BY <1>2, <1>3
<1> QED
  BY <1>2, <1>3, <1>4, <1>6, <1>8, <1>9, <1>10

(* The row before the first one of a chunk. *)
Start(c) == IF c = 1 THEN 0 ELSE file.ends[c - 1]

(* The rows of a chunk are numbered from its first to its last. *)
LEMMA RowsOfShape ==
    ASSUME file \in Files, NEW c \in 1..Chunks
    PROVE  /\ Start(c) \in Nat /\ Start(c) <= file.ends[c]
           /\ RowsOf(c) \in Seq(DOMAIN file.rows)
           /\ Len(RowsOf(c)) = file.ends[c] - Start(c)
           /\ DOMAIN RowsOf(c) = 1..(file.ends[c] - Start(c))
           /\ \A i \in DOMAIN RowsOf(c) : RowsOf(c)[i] = Start(c) + i
<1>1. /\ Chunks \in Nat /\ Len(file.rows) \in Nat /\ DOMAIN file.rows = 1..Len(file.rows)
      /\ \A d \in 1..Chunks : file.ends[d] \in 0..Len(file.rows)
      /\ \A d, e \in 1..Chunks : d < e => file.ends[d] <= file.ends[e]
  BY FileShape
<1>2. Start(c) \in Nat /\ Start(c) <= file.ends[c] /\ file.ends[c] \in 0..Len(file.rows)
  <2>1. CASE c = 1
    BY <2>1, <1>1 DEF Start
  <2>2. CASE c # 1
    <3>1. c - 1 \in 1..Chunks /\ c - 1 < c
      BY <2>2, <1>1
    <3> QED
      BY <2>2, <3>1, <1>1 DEF Start
  <2> QED
    BY <2>1, <2>2
<1> DEFINE first == IF c = 1 THEN 1 ELSE file.ends[c - 1] + 1
           n == file.ends[c] - Start(c)
<1>3. first = Start(c) + 1
  BY <1>2 DEF Start
<1>4. RowsOf(c) = [i \in 1..(file.ends[c] - first + 1) |-> first + i - 1]
  BY DEF RowsOf
<1>5. file.ends[c] - first + 1 = n /\ n \in Nat
  BY <1>2, <1>3
<1> HIDE DEF first
<1>6. DOMAIN RowsOf(c) = 1..n
  BY <1>4, <1>5
<1>7. ASSUME NEW i \in 1..n PROVE RowsOf(c)[i] = Start(c) + i /\ RowsOf(c)[i] \in DOMAIN file.rows
  <2>1. RowsOf(c)[i] = first + i - 1
    BY <1>4, <1>5
  <2> QED
    BY <2>1, <1>1, <1>2, <1>3
<1>8. RowsOf(c) = [i \in 1..n |-> Start(c) + i]
  BY <1>4, <1>5, <1>7
<1>9. RowsOf(c) \in Seq(DOMAIN file.rows) /\ Len(RowsOf(c)) = n
  <2>1. n \in Nat /\ \A i \in 1..n : Start(c) + i \in DOMAIN file.rows
    BY <1>5, <1>7
  <2> HIDE DEF n
  <2> QED
    BY <1>8, <2>1
<1> QED
  BY <1>2, <1>6, <1>7, <1>9
(* The parameters are natural numbers. *)
LEMMA Parameters ==
    /\ Header \in Nat /\ BatchSizes \subseteq Nat /\ MaxRetries \in Nat
    /\ ReaderTyped => max_rows \in Nat
<1>1. Header \in Nat /\ BatchSizes \subseteq Nat /\ MaxRetries \in Nat
  BY FilesAssumption
<1> QED
  BY <1>1 DEF ReaderTyped

(* The invariant holds when the reader is made. *)
LEMMA ReaderInit == Init => ReaderInv
<1> SUFFICES ASSUME Init PROVE ReaderInv
  OBVIOUS
<1>1. /\ file \in Files /\ max_rows \in BatchSizes /\ chunk = 1 /\ todo = RowsOf(1)
      /\ data = <<>> /\ is_empty = TRUE /\ is_waitable = FALSE /\ asleep = FALSE
      /\ eof = FALSE /\ header_trimmed = FALSE /\ exception = FALSE
      /\ worker = "none" /\ caller = "construct" /\ out_size = 0
      /\ read_requested = FALSE /\ retries = 0 /\ got = <<>>
  BY DEF Init, EmptyDeque
<1>2. 1 \in 1..Chunks
  BY <1>1, FileShape
<1>3. Start(1) = 0 /\ todo \in Seq(DOMAIN file.rows) /\ \A i \in DOMAIN todo : todo[i] = i
  <2>1. /\ RowsOf(1) \in Seq(DOMAIN file.rows)
        /\ \A i \in DOMAIN RowsOf(1) : RowsOf(1)[i] = Start(1) + i
        /\ DOMAIN RowsOf(1) = 1..(file.ends[1] - Start(1))
    BY <1>1, <1>2, RowsOfShape
  <2>2. Start(1) = 0
    BY DEF Start
  <2> QED
    BY <2>1, <2>2, <1>1
<1>4. ReaderTyped
  <2>1. <<>> \in Seq(DOMAIN file.rows) /\ 0 \in 0..MaxRetries
    BY Parameters
  <2> QED
    BY <1>1, <1>2, <1>3, <2>1 DEF ReaderTyped
<1>5. RoomLeft
  BY <1>1, <1>4, Parameters DEF RoomLeft, Limit
<1>6. FlagsRight
  BY <1>1, NotifySizeAssumption DEF FlagsRight, DequeConsistent
<1>7. ChunkDone
  BY <1>1 DEF ChunkDone
<1>8. HeaderFirst
  <2>1. DOMAIN todo = 1..Len(todo) /\ Len(data) = 0 /\ DOMAIN data = {}
    BY <1>1, <1>3, LenProperties
  <2>2. \A i \in DOMAIN todo : todo[i] = Len(data) + i
    BY <2>1, <1>3
  <2> QED
    BY <1>1, <2>1, <2>2 DEF HeaderFirst
<1>9. RowsOfChunk
  BY <1>1 DEF RowsOfChunk, ToSet
<1> QED
  BY <1>4, <1>5, <1>6, <1>7, <1>8, <1>9 DEF ReaderInv

(* What most steps leave alone. *)
LEMMA RowsStay ==
    UNCHANGED fileVars => /\ Limit' = Limit /\ Chunks' = Chunks
                          /\ \A c : RowsOf(c)' = RowsOf(c)
  BY DEF fileVars, Limit, Chunks, RowsOf

(* The worker starts on a chunk.                                           *)
LEMMA ParseStartsKeeps == ReaderInv /\ ParseStarts => ReaderInv'
<1> SUFFICES ASSUME ReaderInv, ParseStarts PROVE ReaderInv'
  OBVIOUS
<1>1. Limit' = Limit /\ Chunks' = Chunks /\ \A c : RowsOf(c)' = RowsOf(c)
  BY RowsStay DEF ParseStarts
<1>2. ReaderTyped /\ RoomLeft /\ FlagsRight
      /\ ChunkDone /\ HeaderFirst /\ RowsOfChunk
  BY DEF ReaderInv
<1>3. ReaderTyped'
  BY <1>1, <1>2 DEF ReaderTyped, ParseStarts, NotifyAll, fileVars, workVars,
                callVars
<1>4. RoomLeft'
  BY <1>1, <1>2 DEF RoomLeft, ParseStarts, NotifyAll, fileVars, workVars,
                callVars
<1>5. FlagsRight'
  BY <1>1, <1>2 DEF FlagsRight, DequeConsistent, ParseStarts, NotifyAll,
                fileVars, workVars, callVars
<1>6. ChunkDone'
  BY <1>1, <1>2 DEF ChunkDone, ParseStarts, NotifyAll, fileVars, workVars,
                callVars
<1>7. HeaderFirst'
  BY <1>1, <1>2 DEF HeaderFirst, ParseStarts, NotifyAll, fileVars, workVars,
                callVars
<1>8. RowsOfChunk'
  BY <1>1, <1>2 DEF RowsOfChunk, ParseStarts, NotifyAll, fileVars, workVars,
                callVars
<1> QED
  BY <1>3, <1>4, <1>5, <1>6, <1>7, <1>8 DEF ReaderInv

(* The worker meets an error and keeps the exception.                      *)
LEMMA ParseFailsKeeps == ReaderInv /\ ParseFails => ReaderInv'
<1> SUFFICES ASSUME ReaderInv, ParseFails PROVE ReaderInv'
  OBVIOUS
<1>1. Limit' = Limit /\ Chunks' = Chunks /\ \A c : RowsOf(c)' = RowsOf(c)
  BY RowsStay DEF ParseFails
<1>2. ReaderTyped /\ RoomLeft /\ FlagsRight
      /\ ChunkDone /\ HeaderFirst /\ RowsOfChunk
  BY DEF ReaderInv
<1>3. ReaderTyped'
  BY <1>1, <1>2 DEF ReaderTyped, ParseFails, dequeVars, fileVars, callVars
<1>4. RoomLeft'
  BY <1>1, <1>2 DEF RoomLeft, ParseFails, dequeVars, fileVars, callVars
<1>5. FlagsRight'
  BY <1>1, <1>2 DEF FlagsRight, DequeConsistent, ParseFails, dequeVars,
                fileVars, callVars
<1>6. ChunkDone'
  BY <1>1, <1>2 DEF ChunkDone, ParseFails, dequeVars, fileVars, callVars
<1>7. HeaderFirst'
  BY <1>1, <1>2 DEF HeaderFirst, ParseFails, dequeVars, fileVars, callVars
<1>8. RowsOfChunk'
  BY <1>1, <1>2 DEF RowsOfChunk, ParseFails, dequeVars, fileVars, callVars
<1> QED
  BY <1>3, <1>4, <1>5, <1>6, <1>7, <1>8 DEF ReaderInv

(* The worker finds the end of the file.                                   *)
LEMMA ReachEndKeeps == ReaderInv /\ ReachEnd => ReaderInv'
<1> SUFFICES ASSUME ReaderInv, ReachEnd PROVE ReaderInv'
  OBVIOUS
<1>1. Limit' = Limit /\ Chunks' = Chunks /\ \A c : RowsOf(c)' = RowsOf(c)
  BY RowsStay DEF ReachEnd
<1>2. ReaderTyped /\ RoomLeft /\ FlagsRight
      /\ ChunkDone /\ HeaderFirst /\ RowsOfChunk
  BY DEF ReaderInv
<1>3. ReaderTyped'
  BY <1>1, <1>2 DEF ReaderTyped, ReachEnd, dequeVars, fileVars, callVars
<1>4. RoomLeft'
  BY <1>1, <1>2 DEF RoomLeft, ReachEnd, dequeVars, fileVars, callVars
<1>5. FlagsRight'
  BY <1>1, <1>2 DEF FlagsRight, DequeConsistent, ReachEnd, dequeVars,
                fileVars, callVars
<1>6. ChunkDone'
  BY <1>1, <1>2 DEF ChunkDone, Unfinished, ReachEnd, dequeVars, fileVars,
                callVars
<1>7. HeaderFirst'
  BY <1>1, <1>2 DEF HeaderFirst, ReachEnd, dequeVars, fileVars, callVars
<1>8. RowsOfChunk'
  BY <1>1, <1>2 DEF RowsOfChunk, ReachEnd, dequeVars, fileVars, callVars
<1> QED
  BY <1>3, <1>4, <1>5, <1>6, <1>7, <1>8 DEF ReaderInv

(* The worker ends its chunk: nobody waits for it any more.                *)
LEMMA ParseStopsKeeps == ReaderInv /\ ParseStops => ReaderInv'
<1> SUFFICES ASSUME ReaderInv, ParseStops PROVE ReaderInv'
  OBVIOUS
<1>1. Limit' = Limit /\ Chunks' = Chunks /\ \A c : RowsOf(c)' = RowsOf(c)
  BY RowsStay DEF ParseStops
<1>2. ReaderTyped /\ RoomLeft /\ FlagsRight
      /\ ChunkDone /\ HeaderFirst /\ RowsOfChunk
  BY DEF ReaderInv
<1>3. ReaderTyped'
  BY <1>1, <1>2 DEF ReaderTyped, ParseStops, KillAll, fileVars, workVars,
                callVars
<1>4. RoomLeft'
  BY <1>1, <1>2 DEF RoomLeft, ParseStops, KillAll, fileVars, workVars,
                callVars
<1>5. FlagsRight'
  BY <1>1, <1>2 DEF FlagsRight, DequeConsistent, ParseStops, KillAll,
                fileVars, workVars, callVars
<1>6. ChunkDone'
  BY <1>1, <1>2 DEF ChunkDone, ParseStops, KillAll, fileVars, workVars,
                callVars
<1>7. HeaderFirst'
  BY <1>1, <1>2 DEF HeaderFirst, ParseStops, KillAll, fileVars, workVars,
                callVars
<1>8. RowsOfChunk'
  BY <1>1, <1>2 DEF RowsOfChunk, ParseStops, KillAll, fileVars, workVars,
                callVars
<1> QED
  BY <1>3, <1>4, <1>5, <1>6, <1>7, <1>8 DEF ReaderInv

(* The constructor starts the first worker.                                *)
LEMMA ConstructKeeps == ReaderInv /\ Construct => ReaderInv'
<1> SUFFICES ASSUME ReaderInv, Construct PROVE ReaderInv'
  OBVIOUS
<1>1. Limit' = Limit /\ Chunks' = Chunks /\ \A c : RowsOf(c)' = RowsOf(c)
  BY RowsStay DEF Construct
<1>2. ReaderTyped /\ RoomLeft /\ FlagsRight
      /\ ChunkDone /\ HeaderFirst /\ RowsOfChunk
  BY DEF ReaderInv
<1>3. ReaderTyped'
  BY <1>1, <1>2 DEF ReaderTyped, Construct, dequeVars, fileVars, workVars,
                callVars
<1>4. RoomLeft'
  BY <1>1, <1>2 DEF RoomLeft, Construct, dequeVars, fileVars, workVars,
                callVars
<1>5. FlagsRight'
  BY <1>1, <1>2 DEF FlagsRight, DequeConsistent, Construct, dequeVars,
                fileVars, workVars, callVars
<1>6. ChunkDone'
  BY <1>1, <1>2 DEF ChunkDone, Construct, dequeVars, fileVars, workVars,
                callVars
<1>7. HeaderFirst'
  BY <1>1, <1>2 DEF HeaderFirst, Construct, dequeVars, fileVars, workVars,
                callVars
<1>8. RowsOfChunk'
  BY <1>1, <1>2 DEF RowsOfChunk, Construct, dequeVars, fileVars, workVars,
                callVars
<1> QED
  BY <1>3, <1>4, <1>5, <1>6, <1>7, <1>8 DEF ReaderInv

(* The constructor has joined it.                                          *)
LEMMA ConstructedKeeps == ReaderInv /\ Constructed => ReaderInv'
<1> SUFFICES ASSUME ReaderInv, Constructed PROVE ReaderInv'
  OBVIOUS
<1>1. Limit' = Limit /\ Chunks' = Chunks /\ \A c : RowsOf(c)' = RowsOf(c)
  BY RowsStay DEF Constructed
<1>2. ReaderTyped /\ RoomLeft /\ FlagsRight
      /\ ChunkDone /\ HeaderFirst /\ RowsOfChunk
  BY DEF ReaderInv
<1>3. ReaderTyped'
  BY <1>1, <1>2 DEF ReaderTyped, Constructed, dequeVars, fileVars
<1>4. RoomLeft'
  BY <1>1, <1>2 DEF RoomLeft, Constructed, dequeVars, fileVars
<1>5. FlagsRight'
  BY <1>1, <1>2 DEF FlagsRight, DequeConsistent, Constructed, dequeVars,
                fileVars
<1>6. ChunkDone'
  BY <1>1, <1>2 DEF ChunkDone, Constructed, dequeVars, fileVars
<1>7. HeaderFirst'
  BY <1>1, <1>2 DEF HeaderFirst, Constructed, dequeVars, fileVars
<1>8. RowsOfChunk'
  BY <1>1, <1>2 DEF RowsOfChunk, Constructed, dequeVars, fileVars
<1> QED
  BY <1>3, <1>4, <1>5, <1>6, <1>7, <1>8 DEF ReaderInv

(* The caller asks for a batch.                                            *)
LEMMA CallKeeps == ReaderInv /\ Call => ReaderInv'
<1> SUFFICES ASSUME ReaderInv, Call PROVE ReaderInv'
  OBVIOUS
<1>1. Limit' = Limit /\ Chunks' = Chunks /\ \A c : RowsOf(c)' = RowsOf(c)
  BY RowsStay DEF Call
<1>2. ReaderTyped /\ RoomLeft /\ FlagsRight
      /\ ChunkDone /\ HeaderFirst /\ RowsOfChunk
  BY DEF ReaderInv
<1>3. Limit \in Nat /\ Limit > 0 /\ retries' \in 0..MaxRetries
  <2>1. max_rows \in Nat /\ MaxRetries \in Nat /\ retries \in 0..MaxRetries
    BY <1>2, Parameters DEF ReaderTyped
  <2>2. Limit \in Nat /\ Limit > 0
    BY <2>1 DEF Limit
  <2>3. retries' \in 0..MaxRetries
    <3>1. retries' = retries \/ (retries < MaxRetries /\ retries' = retries + 1)
      BY DEF Call
    <3> QED
      BY <2>1, <3>1
  <2> QED
    BY <2>2, <2>3
<1>4. ReaderTyped'
  BY <1>1, <1>2, <1>3 DEF ReaderTyped, Call, dequeVars, fileVars, workVars
<1>5. RoomLeft'
  <2>1. out_size' = 0
    BY DEF Call
  <2>2. 0 <= Limit' /\ 0 < Limit'
    BY <1>1, <1>3
  <2> QED
    BY <2>1, <2>2 DEF RoomLeft
<1>6. FlagsRight'
  BY <1>1, <1>2 DEF FlagsRight, DequeConsistent, Call, dequeVars, fileVars,
                workVars
<1>7. ChunkDone'
  BY <1>1, <1>2 DEF ChunkDone, Call, dequeVars, fileVars, workVars
<1>8. HeaderFirst'
  BY <1>1, <1>2 DEF HeaderFirst, Call, dequeVars, fileVars, workVars
<1>9. RowsOfChunk'
  BY <1>1, <1>2 DEF RowsOfChunk, Call, dequeVars, fileVars, workVars
<1> QED
  BY <1>4, <1>5, <1>6, <1>7, <1>8, <1>9 DEF ReaderInv

(* The caller looks whether the queue has rows.                            *)
LEMMA AskEmptyKeeps == ReaderInv /\ AskEmpty => ReaderInv'
<1> SUFFICES ASSUME ReaderInv, AskEmpty PROVE ReaderInv'
  OBVIOUS
<1>1. Limit' = Limit /\ Chunks' = Chunks /\ \A c : RowsOf(c)' = RowsOf(c)
  BY RowsStay DEF AskEmpty
<1>2. ReaderTyped /\ RoomLeft /\ FlagsRight
      /\ ChunkDone /\ HeaderFirst /\ RowsOfChunk
  BY DEF ReaderInv
<1>3. is_empty => DOMAIN data = {}
  <2>1. DOMAIN <<>> = {}
    OBVIOUS
  <2>2. is_empty = (data = <<>>)
    BY <1>2 DEF FlagsRight, DequeConsistent
  <2> QED
    BY <2>1, <2>2
<1>4. ReaderTyped'
  BY <1>1, <1>2 DEF ReaderTyped, AskEmpty, dequeVars, fileVars, workVars,
                callVars
<1>5. RoomLeft'
  BY <1>1, <1>2 DEF RoomLeft, AskEmpty, dequeVars, fileVars, workVars,
                callVars
<1>6. FlagsRight'
  BY <1>1, <1>2 DEF FlagsRight, DequeConsistent, AskEmpty, dequeVars,
                fileVars, workVars, callVars
<1>7. ChunkDone'
  BY <1>1, <1>2 DEF ChunkDone, AskEmpty, dequeVars, fileVars, workVars,
                callVars
<1>8. HeaderFirst'
  BY <1>1, <1>2 DEF HeaderFirst, AskEmpty, dequeVars, fileVars, workVars,
                callVars
<1>9. RowsOfChunk'
  BY <1>1, <1>2, <1>3 DEF RowsOfChunk, AskEmpty, dequeVars, fileVars,
                      workVars, callVars
<1> QED
  BY <1>4, <1>5, <1>6, <1>7, <1>8, <1>9 DEF ReaderInv

(* The caller looks whether rows may still come.                           *)
LEMMA AskWaitableKeeps == ReaderInv /\ AskWaitable => ReaderInv'
<1> SUFFICES ASSUME ReaderInv, AskWaitable PROVE ReaderInv'
  OBVIOUS
<1>1. Limit' = Limit /\ Chunks' = Chunks /\ \A c : RowsOf(c)' = RowsOf(c)
  BY RowsStay DEF AskWaitable
<1>2. ReaderTyped /\ RoomLeft /\ FlagsRight
      /\ ChunkDone /\ HeaderFirst /\ RowsOfChunk
  BY DEF ReaderInv
<1>3. ReaderTyped'
  BY <1>1, <1>2 DEF ReaderTyped, AskWaitable, dequeVars, fileVars, workVars,
                callVars
<1>4. RoomLeft'
  BY <1>1, <1>2 DEF RoomLeft, AskWaitable, dequeVars, fileVars, workVars,
                callVars
<1>5. FlagsRight'
  BY <1>1, <1>2 DEF FlagsRight, DequeConsistent, AskWaitable, dequeVars,
                fileVars, workVars, callVars
<1>6. ChunkDone'
  BY <1>1, <1>2 DEF ChunkDone, AskWaitable, dequeVars, fileVars, workVars,
                callVars
<1>7. HeaderFirst'
  BY <1>1, <1>2 DEF HeaderFirst, AskWaitable, dequeVars, fileVars, workVars,
                callVars
<1>8. RowsOfChunk'
  BY <1>1, <1>2 DEF RowsOfChunk, AskWaitable, dequeVars, fileVars, workVars,
                callVars
<1> QED
  BY <1>3, <1>4, <1>5, <1>6, <1>7, <1>8 DEF ReaderInv

(* The caller waits for rows, or finds that it need not.                   *)
LEMMA WaitKeeps == ReaderInv /\ Wait => ReaderInv'
<1> SUFFICES ASSUME ReaderInv, Wait PROVE ReaderInv'
  OBVIOUS
<1>1. Limit' = Limit /\ Chunks' = Chunks /\ \A c : RowsOf(c)' = RowsOf(c)
  BY RowsStay DEF Wait
<1>2. ReaderTyped /\ RoomLeft /\ FlagsRight
      /\ ChunkDone /\ HeaderFirst /\ RowsOfChunk
  BY DEF ReaderInv
<1>3. WaitOver \/ (Len(data) < NotifySize /\ is_waitable)
  <2>1. Len(data) \in Nat /\ NotifySize \in Nat
    BY <1>2, LenProperties, NotifySizeAssumption DEF ReaderTyped
  <2> QED
    BY <2>1 DEF WaitOver
<1>4. ReaderTyped'
  BY <1>1, <1>2 DEF ReaderTyped, Wait, WaitOver, FallAsleep, dequeVars,
                fileVars, workVars, callVars
<1>5. RoomLeft'
  BY <1>1, <1>2 DEF RoomLeft, Wait, WaitOver, FallAsleep, dequeVars, fileVars,
                workVars, callVars
<1>6. FlagsRight'
  BY <1>1, <1>2, <1>3 DEF FlagsRight, DequeConsistent, Wait, WaitOver,
                      FallAsleep, dequeVars, fileVars, workVars, callVars
<1>7. ChunkDone'
  BY <1>1, <1>2 DEF ChunkDone, Wait, WaitOver, FallAsleep, dequeVars,
                fileVars, workVars, callVars
<1>8. HeaderFirst'
  BY <1>1, <1>2 DEF HeaderFirst, Wait, WaitOver, FallAsleep, dequeVars,
                fileVars, workVars, callVars
<1>9. RowsOfChunk'
  BY <1>1, <1>2 DEF RowsOfChunk, Wait, WaitOver, FallAsleep, dequeVars,
                fileVars, workVars, callVars
<1> QED
  BY <1>4, <1>5, <1>6, <1>7, <1>8, <1>9 DEF ReaderInv

(* The exception of the worker reaches the caller.                         *)
LEMMA RethrowKeeps == ReaderInv /\ Rethrow => ReaderInv'
<1> SUFFICES ASSUME ReaderInv, Rethrow PROVE ReaderInv'
  OBVIOUS
<1>1. Limit' = Limit /\ Chunks' = Chunks /\ \A c : RowsOf(c)' = RowsOf(c)
  BY RowsStay DEF Rethrow
<1>2. ReaderTyped /\ RoomLeft /\ FlagsRight
      /\ ChunkDone /\ HeaderFirst /\ RowsOfChunk
  BY DEF ReaderInv
<1>3. ReaderTyped'
  BY <1>1, <1>2 DEF ReaderTyped, Rethrow, Joinable, dequeVars, fileVars
<1>4. RoomLeft'
  BY <1>1, <1>2 DEF RoomLeft, Rethrow, Joinable, dequeVars, fileVars
<1>5. FlagsRight'
  BY <1>1, <1>2 DEF FlagsRight, DequeConsistent, Rethrow, Joinable, dequeVars,
                fileVars
<1>6. ChunkDone'
  BY <1>1, <1>2 DEF ChunkDone, Rethrow, Joinable, dequeVars, fileVars
<1>7. HeaderFirst'
  BY <1>1, <1>2 DEF HeaderFirst, Rethrow, Joinable, dequeVars, fileVars
<1>8. RowsOfChunk'
  BY <1>1, <1>2 DEF RowsOfChunk, Rethrow, Joinable, dequeVars, fileVars
<1> QED
  BY <1>3, <1>4, <1>5, <1>6, <1>7, <1>8 DEF ReaderInv

(* The caller finds the file read to its end.                              *)
LEMMA FindEofKeeps == ReaderInv /\ FindEof => ReaderInv'
<1> SUFFICES ASSUME ReaderInv, FindEof PROVE ReaderInv'
  OBVIOUS
<1>1. Limit' = Limit /\ Chunks' = Chunks /\ \A c : RowsOf(c)' = RowsOf(c)
  BY RowsStay DEF FindEof
<1>2. ReaderTyped /\ RoomLeft /\ FlagsRight
      /\ ChunkDone /\ HeaderFirst /\ RowsOfChunk
  BY DEF ReaderInv
<1>3. ReaderTyped'
  BY <1>1, <1>2 DEF ReaderTyped, FindEof, Joinable, dequeVars, fileVars,
                workVars, callVars
<1>4. RoomLeft'
  BY <1>1, <1>2 DEF RoomLeft, FindEof, Joinable, dequeVars, fileVars,
                workVars, callVars
<1>5. FlagsRight'
  BY <1>1, <1>2 DEF FlagsRight, DequeConsistent, FindEof, Joinable, dequeVars,
                fileVars, workVars, callVars
<1>6. ChunkDone'
  BY <1>1, <1>2 DEF ChunkDone, FindEof, Joinable, dequeVars, fileVars,
                workVars, callVars
<1>7. HeaderFirst'
  BY <1>1, <1>2 DEF HeaderFirst, FindEof, Joinable, dequeVars, fileVars,
                workVars, callVars
<1>8. RowsOfChunk'
  BY <1>1, <1>2 DEF RowsOfChunk, FindEof, Joinable, dequeVars, fileVars,
                workVars, callVars
<1> QED
  BY <1>3, <1>4, <1>5, <1>6, <1>7, <1>8 DEF ReaderInv

(* The guard against a row that no chunk can hold.                        *)
LEMMA FindStuckKeeps == ReaderInv /\ FindStuck => ReaderInv'
<1> SUFFICES ASSUME ReaderInv, FindStuck PROVE ReaderInv'
  OBVIOUS
<1>1. Limit' = Limit /\ Chunks' = Chunks /\ \A c : RowsOf(c)' = RowsOf(c)
  BY RowsStay DEF FindStuck
<1>2. ReaderTyped /\ RoomLeft /\ FlagsRight
      /\ ChunkDone /\ HeaderFirst /\ RowsOfChunk
  BY DEF ReaderInv
<1>3. ReaderTyped'
  BY <1>1, <1>2 DEF ReaderTyped, FindStuck, Joinable, dequeVars, fileVars,
                workVars
<1>4. RoomLeft'
  BY <1>1, <1>2 DEF RoomLeft, FindStuck, Joinable, dequeVars, fileVars,
                workVars
<1>5. FlagsRight'
  BY <1>1, <1>2 DEF FlagsRight, DequeConsistent, FindStuck, Joinable,
                dequeVars, fileVars, workVars
<1>6. ChunkDone'
  BY <1>1, <1>2 DEF ChunkDone, FindStuck, Joinable, dequeVars, fileVars,
                workVars
<1>7. HeaderFirst'
  BY <1>1, <1>2 DEF HeaderFirst, FindStuck, Joinable, dequeVars, fileVars,
                workVars
<1>8. RowsOfChunk'
  BY <1>1, <1>2 DEF RowsOfChunk, FindStuck, Joinable, dequeVars, fileVars,
                workVars
<1> QED
  BY <1>3, <1>4, <1>5, <1>6, <1>7, <1>8 DEF ReaderInv

(* The queue is empty after the check for rows: the loop starts again.     *)
LEMMA FindNothingKeeps == ReaderInv /\ FindNothing => ReaderInv'
<1> SUFFICES ASSUME ReaderInv, FindNothing PROVE ReaderInv'
  OBVIOUS
<1>1. Limit' = Limit /\ Chunks' = Chunks /\ \A c : RowsOf(c)' = RowsOf(c)
  BY RowsStay DEF FindNothing
<1>2. ReaderTyped /\ RoomLeft /\ FlagsRight
      /\ ChunkDone /\ HeaderFirst /\ RowsOfChunk
  BY DEF ReaderInv
<1>3. ReaderTyped'
  BY <1>1, <1>2 DEF ReaderTyped, FindNothing, dequeVars, fileVars, workVars,
                callVars
<1>4. RoomLeft'
  BY <1>1, <1>2 DEF RoomLeft, FindNothing, dequeVars, fileVars, workVars,
                callVars
<1>5. FlagsRight'
  BY <1>1, <1>2 DEF FlagsRight, DequeConsistent, FindNothing, dequeVars,
                fileVars, workVars, callVars
<1>6. ChunkDone'
  BY <1>1, <1>2 DEF ChunkDone, FindNothing, dequeVars, fileVars, workVars,
                callVars
<1>7. HeaderFirst'
  BY <1>1, <1>2 DEF HeaderFirst, FindNothing, dequeVars, fileVars, workVars,
                callVars
<1>8. RowsOfChunk'
  BY <1>1, <1>2 DEF RowsOfChunk, FindNothing, dequeVars, fileVars, workVars,
                callVars
<1> QED
  BY <1>3, <1>4, <1>5, <1>6, <1>7, <1>8 DEF ReaderInv

(* The caller leaves and joins the worker.                                 *)
LEMMA CloseKeeps == ReaderInv /\ Close => ReaderInv'
<1> SUFFICES ASSUME ReaderInv, Close PROVE ReaderInv'
  OBVIOUS
<1>1. Limit' = Limit /\ Chunks' = Chunks /\ \A c : RowsOf(c)' = RowsOf(c)
  BY RowsStay DEF Close
<1>2. ReaderTyped /\ RoomLeft /\ FlagsRight
      /\ ChunkDone /\ HeaderFirst /\ RowsOfChunk
  BY DEF ReaderInv
<1>3. ReaderTyped'
  BY <1>1, <1>2 DEF ReaderTyped, Close, Joinable, dequeVars, fileVars,
                workVars, callVars
<1>4. RoomLeft'
  BY <1>1, <1>2 DEF RoomLeft, Close, Joinable, dequeVars, fileVars, workVars,
                callVars
<1>5. FlagsRight'
  BY <1>1, <1>2 DEF FlagsRight, DequeConsistent, Close, Joinable, dequeVars,
                fileVars, workVars, callVars
<1>6. ChunkDone'
  BY <1>1, <1>2 DEF ChunkDone, Close, Joinable, dequeVars, fileVars, workVars,
                callVars
<1>7. HeaderFirst'
  BY <1>1, <1>2 DEF HeaderFirst, Close, Joinable, dequeVars, fileVars,
                workVars, callVars
<1>8. RowsOfChunk'
  BY <1>1, <1>2 DEF RowsOfChunk, Close, Joinable, dequeVars, fileVars,
                workVars, callVars
<1> QED
  BY <1>3, <1>4, <1>5, <1>6, <1>7, <1>8 DEF ReaderInv

(* The wait of the caller ends.                                            *)
LEMMA WakeKeeps == ReaderInv /\ Wake => ReaderInv'
<1> SUFFICES ASSUME ReaderInv, Wake PROVE ReaderInv'
  OBVIOUS
<1>1. Limit' = Limit /\ Chunks' = Chunks /\ \A c : RowsOf(c)' = RowsOf(c)
  BY RowsStay DEF Wake
<1>2. ReaderTyped /\ RoomLeft /\ FlagsRight
      /\ ChunkDone /\ HeaderFirst /\ RowsOfChunk
  BY DEF ReaderInv
<1>3. ReaderTyped'
  <2>1. asleep' \in BOOLEAN /\ Chunks' = Chunks
    BY <1>1 DEF Wake, WakeUp
  <2>2. UNCHANGED <<data, is_empty, is_waitable, file, max_rows, chunk, todo, eof,
                    header_trimmed, exception, worker, caller, out_size, read_requested,
                    retries, got>>
    BY DEF Wake, WakeUp, fileVars, workVars, callVars
  <2> QED
    BY ONLY <1>2, <2>1, <2>2, ZenonT(60) DEF ReaderTyped
<1>4. RoomLeft'
  BY <1>1, <1>2 DEF RoomLeft, Wake, WakeUp, fileVars, workVars, callVars
<1>5. FlagsRight'
  BY <1>1, <1>2 DEF FlagsRight, DequeConsistent, Wake, WakeUp, fileVars,
                workVars, callVars
<1>6. ChunkDone'
  BY <1>1, <1>2 DEF ChunkDone, Wake, WakeUp, fileVars, workVars, callVars
<1>7. HeaderFirst'
  BY <1>1, <1>2 DEF HeaderFirst, Wake, WakeUp, fileVars, workVars, callVars
<1>8. RowsOfChunk'
  BY <1>1, <1>2 DEF RowsOfChunk, Wake, WakeUp, fileVars, workVars, callVars
<1> QED
  BY <1>3, <1>4, <1>5, <1>6, <1>7, <1>8 DEF ReaderInv

(* Nothing happens after the reader is closed.                             *)
LEMMA ClosedKeeps == ReaderInv /\ Closed => ReaderInv'
<1> SUFFICES ASSUME ReaderInv, Closed PROVE ReaderInv'
  OBVIOUS
<1>1. Limit' = Limit /\ Chunks' = Chunks /\ \A c : RowsOf(c)' = RowsOf(c)
  BY RowsStay DEF Closed, vars
<1>2. ReaderTyped /\ RoomLeft /\ FlagsRight
      /\ ChunkDone /\ HeaderFirst /\ RowsOfChunk
  BY DEF ReaderInv
<1>3. ReaderTyped'
  BY <1>1, <1>2 DEF ReaderTyped, Closed, vars, dequeVars, fileVars, workVars,
                callVars
<1>4. RoomLeft'
  BY <1>1, <1>2 DEF RoomLeft, Closed, vars, dequeVars, fileVars, workVars,
                callVars
<1>5. FlagsRight'
  BY <1>1, <1>2 DEF FlagsRight, DequeConsistent, Closed, vars, dequeVars,
                fileVars, workVars, callVars
<1>6. ChunkDone'
  BY <1>1, <1>2 DEF ChunkDone, Closed, vars, dequeVars, fileVars, workVars,
                callVars
<1>7. HeaderFirst'
  BY <1>1, <1>2 DEF HeaderFirst, Closed, vars, dequeVars, fileVars, workVars,
                callVars
<1>8. RowsOfChunk'
  BY <1>1, <1>2 DEF RowsOfChunk, Closed, vars, dequeVars, fileVars, workVars,
                callVars
<1> QED
  BY <1>3, <1>4, <1>5, <1>6, <1>7, <1>8 DEF ReaderInv

(* Rows taken from the front of the queue leave the others in order.       *)
LEMMA DrainFrontKeeps ==
    ASSUME NEW S, data \in Seq(S), DequeConsistent, NEW n \in Nat, DrainFront(n),
           is_empty \in BOOLEAN
    PROVE  /\ data' \in Seq(S) /\ DequeConsistent' /\ is_empty' \in BOOLEAN
           /\ \A i \in DOMAIN data' : i + n \in DOMAIN data /\ data'[i] = data[i + n]
<1>1. data' = SubSeq(data, n + 1, Len(data)) /\ is_empty' = (is_empty \/ data' = <<>>)
      /\ is_waitable' = is_waitable /\ asleep' = asleep
  BY DEF DrainFront
<1>2. Len(data) \in Nat /\ DOMAIN data = 1..Len(data)
  BY LenProperties
<1>3. /\ data' \in Seq(S) /\ Len(data') = (IF n < Len(data) THEN Len(data) - n ELSE 0)
      /\ \A i \in 1..Len(data') : i + n \in 1..Len(data) /\ data'[i] = data[i + n]
  BY <1>1, Suffix
<1>4. Len(data') \in Nat /\ DOMAIN data' = 1..Len(data') /\ Len(data') <= Len(data)
  <2>1. DOMAIN data' = 1..Len(data')
    BY <1>3, LenProperties
  <2>2. Len(data') \in Nat /\ Len(data') <= Len(data)
    <3> DEFINE l == Len(data')
               k == Len(data)
    <3>1. l = (IF n < k THEN k - n ELSE 0) /\ k \in Nat
      BY <1>2, <1>3
    <3> HIDE DEF l, k
    <3>2. l \in Nat /\ l <= k
      BY <3>1
    <3> QED
      BY <3>2 DEF l, k
  <2> QED
    BY <2>1, <2>2
<1>5. data = <<>> => data' = <<>>
  <2>1. SUFFICES ASSUME data = <<>> PROVE data' = <<>>
    OBVIOUS
  <2>2. Len(data') = 0
    BY <2>1, <1>3
  <2> QED
    BY <2>2, <1>3
<1>6. is_empty' = (data' = <<>>)
  BY <1>1, <1>5 DEF DequeConsistent
<1>7. asleep' => Len(data') < NotifySize /\ is_waitable'
  <2>1. asleep => Len(data) < NotifySize /\ is_waitable
    BY DEF DequeConsistent
  <2>2. NotifySize \in Nat
    BY NotifySizeAssumption
  <2>3. Len(data) < NotifySize => Len(data') < NotifySize
    BY <2>2, <1>2, <1>4
  <2> QED
    BY <2>1, <2>3, <1>1
<1> QED
  BY <1>1, <1>2, <1>3, <1>4, <1>6, <1>7 DEF DequeConsistent

(* The worker pushes the next row of its chunk.                            *)
LEMMA ParseRowKeeps == ReaderInv /\ ParseRow => ReaderInv'
<1> SUFFICES ASSUME ReaderInv, ParseRow PROVE ReaderInv'
  OBVIOUS
<1>1. Limit' = Limit /\ Chunks' = Chunks /\ \A c : RowsOf(c)' = RowsOf(c)
  BY RowsStay DEF ParseRow
<1>2. ReaderTyped /\ RoomLeft /\ FlagsRight
      /\ ChunkDone /\ HeaderFirst /\ RowsOfChunk
  BY DEF ReaderInv
<1>3. /\ worker = "parsing" /\ todo # <<>> /\ todo' = Tail(todo)
      /\ data' = Append(data, Head(todo)) /\ is_empty' = FALSE
      /\ asleep' = (asleep /\ Len(data') < NotifySize) /\ is_waitable' = is_waitable
      /\ UNCHANGED <<file, policy, max_rows, chunk, eof, header_trimmed, exception,
                     worker, caller, out_size, read_requested, reason, retries, got>>
  BY DEF ParseRow, PushBack, fileVars, callVars
<1> DEFINE T == DOMAIN file.rows
<1>4. data \in Seq(T) /\ todo \in Seq(T)
  BY <1>2 DEF ReaderTyped
<1>5. /\ Len(todo) \in Nat /\ Len(todo) > 0 /\ DOMAIN todo = 1..Len(todo)
      /\ Len(data) \in Nat /\ DOMAIN data = 1..Len(data)
  BY <1>3, <1>4, LenProperties
<1>6. /\ Head(todo) \in T /\ Head(todo) = todo[1] /\ todo' \in Seq(T)
      /\ Len(todo') = Len(todo) - 1 /\ \A i \in 1..Len(todo') : todo'[i] = todo[i + 1]
  BY <1>3, <1>4, HeadTailProperties
<1>7. /\ data' \in Seq(T) /\ Len(data') = Len(data) + 1
      /\ data'[Len(data) + 1] = todo[1] /\ \A i \in 1..Len(data) : data'[i] = data[i]
  BY <1>3, <1>4, <1>6, AppendProperties
<1>8. DOMAIN todo' = 1..Len(todo') /\ DOMAIN data' = 1..Len(data')
  BY <1>6, <1>7, LenProperties
<1> HIDE DEF T
<1>9. \A i \in DOMAIN data' :
          data'[i] = todo[1] \/ (i \in DOMAIN data /\ data'[i] = data[i])
  BY <1>5, <1>7, <1>8
<1>10. 1 \in DOMAIN todo /\ \A i \in DOMAIN todo' : i + 1 \in DOMAIN todo /\ todo'[i] = todo[i + 1]
  BY <1>5, <1>6, <1>8
<1>11. ReaderTyped'
  <2>1. chunk' \in 1..Chunks' /\ T = DOMAIN file'.rows
    BY <1>1, <1>2, <1>3 DEF ReaderTyped, T
  <2> QED
    BY <2>1, <1>2, <1>3, <1>6, <1>7 DEF ReaderTyped
<1>12. RoomLeft'
  BY <1>1, <1>2, <1>3 DEF RoomLeft
<1>13. FlagsRight'
  <2>1. data' # <<>>
    BY <1>5, <1>7
  <2> QED
    BY <2>1, <1>2, <1>3 DEF FlagsRight, DequeConsistent
<1>14. ChunkDone'
  BY <1>1, <1>2, <1>3 DEF ChunkDone
<1>15. HeaderFirst'
  <2>1. ASSUME ~header_trimmed
        PROVE  /\ \A i \in DOMAIN data' : data'[i] = i
               /\ \A i \in DOMAIN todo' : todo'[i] = Len(data') + i
    <3>1. (\A i \in DOMAIN data : data[i] = i) /\ \A i \in DOMAIN todo : todo[i] = Len(data) + i
      BY <2>1, <1>2 DEF HeaderFirst
    <3>2. \A i \in DOMAIN data' : i \in DOMAIN data \/ i = Len(data) + 1
      BY <1>5, <1>7, <1>8
    <3>3. todo[1] = Len(data) + 1
      BY <3>1, <1>10
    <3>4. \A i \in DOMAIN data' : data'[i] = i
      BY <3>1, <3>2, <3>3, <1>5, <1>7
    <3>5. \A i \in DOMAIN todo' : i \in Nat /\ todo'[i] = Len(data) + (i + 1)
      BY <3>1, <1>6, <1>8, <1>10
    <3> QED
      BY <3>4, <3>5, <1>5, <1>7
  <2>2. ASSUME header_trimmed
        PROVE  /\ \A i \in DOMAIN data' : data'[i] > Header
               /\ \A i \in DOMAIN todo' : todo'[i] > Header
    <3>1. (\A i \in DOMAIN data : data[i] > Header) /\ \A i \in DOMAIN todo : todo[i] > Header
      BY <2>2, <1>2 DEF HeaderFirst
    <3> QED
      BY <3>1, <1>9, <1>10
  <2> QED
    BY <2>1, <2>2, <1>2, <1>3 DEF HeaderFirst
<1>16. RowsOfChunk'
  BY <1>1, <1>2, <1>3, <1>9, <1>10 DEF RowsOfChunk
<1> QED
  BY <1>11, <1>12, <1>13, <1>14, <1>15, <1>16 DEF ReaderInv

(* The worker has parsed its chunk, and cuts the header off the first one. *)
LEMMA TrimHeaderKeeps == ReaderInv /\ TrimHeader => ReaderInv'
<1> SUFFICES ASSUME ReaderInv, TrimHeader PROVE ReaderInv'
  OBVIOUS
<1>1. Limit' = Limit /\ Chunks' = Chunks /\ \A c : RowsOf(c)' = RowsOf(c)
  BY RowsStay DEF TrimHeader
<1>2. ReaderTyped /\ RoomLeft /\ FlagsRight
      /\ ChunkDone /\ HeaderFirst /\ RowsOfChunk
  BY DEF ReaderInv
<1>3. /\ worker = "parsing" /\ file.bad # chunk /\ todo = <<>> /\ (chunk = Chunks => eof)
      /\ header_trimmed' = TRUE /\ worker' = "stopping"
      /\ UNCHANGED <<file, policy, max_rows, chunk, todo, eof, exception,
                     caller, out_size, read_requested, reason, retries, got>>
  BY DEF TrimHeader, fileVars, callVars
<1>4. \/ header_trimmed /\ UNCHANGED dequeVars
      \/ ~header_trimmed /\ DrainFront(Header)
  BY DEF TrimHeader
<1>5. is_waitable' = is_waitable /\ asleep' = asleep
  BY <1>4 DEF dequeVars, DrainFront
<1>6. /\ data \in Seq(DOMAIN file.rows) /\ is_empty \in BOOLEAN /\ DequeConsistent
      /\ Header \in Nat
  BY <1>2, Parameters DEF ReaderTyped, FlagsRight
<1>7. /\ data' \in Seq(DOMAIN file.rows) /\ DequeConsistent' /\ is_empty' \in BOOLEAN
      /\ \A i \in DOMAIN data' : data'[i] > Header
      /\ \A i \in DOMAIN data' : \E j \in DOMAIN data : data'[i] = data[j]
  <2>1. CASE header_trimmed /\ UNCHANGED dequeVars
    BY <2>1, <1>2, <1>6 DEF dequeVars, DequeConsistent, HeaderFirst
  <2>2. CASE ~header_trimmed /\ DrainFront(Header)
    <3>1. /\ data' \in Seq(DOMAIN file.rows) /\ DequeConsistent' /\ is_empty' \in BOOLEAN
          /\ \A i \in DOMAIN data' : i + Header \in DOMAIN data /\ data'[i] = data[i + Header]
      BY <2>2, <1>6, DrainFrontKeeps
    <3>2. \A i \in DOMAIN data : data[i] = i
      BY <2>2, <1>2 DEF HeaderFirst
    <3>3. DOMAIN data' = 1..Len(data') /\ Len(data') \in Nat
      BY <3>1, LenProperties
    <3>4. ASSUME NEW i \in DOMAIN data' PROVE data'[i] > Header
      BY <3>1, <3>2, <3>3, <1>6
    <3> QED
      BY <3>1, <3>4
  <2> QED
    BY <2>1, <2>2, <1>4
<1>8. ReaderTyped'
  BY <1>1, <1>2, <1>3, <1>5, <1>7 DEF ReaderTyped
<1>9. RoomLeft'
  BY <1>1, <1>2, <1>3 DEF RoomLeft
<1>10. FlagsRight'
  BY <1>2, <1>3, <1>5, <1>7 DEF FlagsRight
<1>11. ChunkDone'
  BY <1>1, <1>2, <1>3 DEF ChunkDone
<1>12. HeaderFirst'
  <2>1. DOMAIN todo' = {}
    BY <1>3
  <2> QED
    BY <2>1, <1>2, <1>3, <1>7 DEF HeaderFirst
<1>13. RowsOfChunk'
  BY <1>1, <1>2, <1>3, <1>7 DEF RowsOfChunk
<1> QED
  BY <1>8, <1>9, <1>10, <1>11, <1>12, <1>13 DEF ReaderInv

(* The caller starts a thread for the next chunk.                          *)
LEMMA ReadOnKeeps == ReaderInv /\ ReadOn => ReaderInv'
<1> SUFFICES ASSUME ReaderInv, ReadOn PROVE ReaderInv'
  OBVIOUS
<1>1. Limit' = Limit /\ Chunks' = Chunks /\ \A c : RowsOf(c)' = RowsOf(c)
  BY RowsStay DEF ReadOn
<1>2. ReaderTyped /\ RoomLeft /\ FlagsRight
      /\ ChunkDone /\ HeaderFirst /\ RowsOfChunk
  BY DEF ReaderInv
<1>3. /\ caller = "joins" /\ worker \in {"none", "finished"} /\ ~exception /\ ~eof
      /\ worker' = "started" /\ caller' = "takes" /\ read_requested' = TRUE
      /\ is_waitable' = TRUE /\ asleep' = FALSE
      /\ UNCHANGED <<data, is_empty, file, policy, max_rows, eof, header_trimmed,
                     exception, out_size, reason, retries, got>>
  BY DEF ReadOn, Joinable, NotifyAll, fileVars
<1>4. \/ file.bad = chunk /\ chunk' = chunk /\ todo' = todo
      \/ file.bad # chunk /\ chunk' = chunk + 1 /\ todo' = RowsOf(chunk + 1)
  BY DEF ReadOn
<1>5. header_trimmed /\ chunk \in 1..Chunks /\ file \in Files /\ Chunks \in Nat
  BY <1>2, <1>3, FileShape DEF HeaderFirst, ReaderTyped
<1>6. /\ chunk' \in 1..Chunks /\ todo' \in Seq(DOMAIN file.rows)
      /\ \A i \in DOMAIN todo' : todo'[i] \in ToSet(RowsOf(chunk')) /\ todo'[i] > Header
  <2>1. CASE file.bad = chunk /\ chunk' = chunk /\ todo' = todo
    BY <2>1, <1>2, <1>5 DEF ReaderTyped, RowsOfChunk, HeaderFirst
  <2>2. CASE file.bad # chunk /\ chunk' = chunk + 1 /\ todo' = RowsOf(chunk + 1)
    <3>1. chunk # Chunks
      BY <2>2, <1>2, <1>3 DEF ChunkDone
    <3> DEFINE c == chunk + 1
    <3>2. c \in 1..Chunks /\ c # 1 /\ c - 1 = chunk /\ Chunks > 1
      BY <3>1, <1>5
    <3> HIDE DEF c
    <3>3. /\ RowsOf(c) \in Seq(DOMAIN file.rows) /\ Start(c) \in Nat
          /\ DOMAIN RowsOf(c) = 1..(file.ends[c] - Start(c))
          /\ \A i \in DOMAIN RowsOf(c) : RowsOf(c)[i] = Start(c) + i
      BY <3>2, <1>5, RowsOfShape
    <3>4. Start(c) >= Header
      <4>1. /\ Header \in Nat /\ Header <= file.ends[1] /\ 1 \in 1..Chunks
            /\ file.ends[1] \in Nat /\ file.ends[chunk] \in Nat
            /\ (chunk = 1 \/ file.ends[1] <= file.ends[chunk])
        BY <3>2, <1>5, FileShape
      <4>2. Start(c) = file.ends[chunk]
        BY <3>2 DEF Start
      <4> QED
        BY <4>1, <4>2
    <3>5. \A i \in DOMAIN RowsOf(c) :
              RowsOf(c)[i] \in ToSet(RowsOf(c)) /\ RowsOf(c)[i] > Header
      <4>1. Header \in Nat
        BY Parameters
      <4>2. \A i \in DOMAIN RowsOf(c) : i \in Nat /\ i > 0
        BY <3>3
      <4>3. \A i \in DOMAIN RowsOf(c) : RowsOf(c)[i] > Header
        BY <4>1, <4>2, <3>3, <3>4
      <4> QED
        BY <4>3 DEF ToSet
    <3>6. chunk' = c /\ todo' = RowsOf(c)
      BY <2>2 DEF c
    <3> QED
      BY <3>2, <3>3, <3>5, <3>6
  <2> QED
    BY <2>1, <2>2, <1>4
<1>7. ReaderTyped'
  BY <1>1, <1>2, <1>3, <1>6 DEF ReaderTyped
<1>8. RoomLeft'
  BY <1>1, <1>2, <1>3 DEF RoomLeft
<1>9. FlagsRight'
  BY <1>2, <1>3 DEF FlagsRight, DequeConsistent
<1>10. ChunkDone'
  BY <1>1, <1>2, <1>3 DEF ChunkDone
<1>11. HeaderFirst'
  BY <1>2, <1>3, <1>5, <1>6 DEF HeaderFirst
<1>12. RowsOfChunk'
  BY <1>1, <1>3, <1>6 DEF RowsOfChunk
<1> QED
  BY <1>7, <1>8, <1>9, <1>10, <1>11, <1>12 DEF ReaderInv

(* The rows a call takes are the first of the queue, and have room in the  *)
(* batch.                                                                  *)
LEMMA TakenShape ==
    ASSUME ReaderInv, caller = "takes", ~is_empty
    PROVE  /\ Taken \in Seq(DOMAIN file.rows) /\ DOMAIN Taken = 1..Len(Taken)
           /\ Len(Taken) \in 1..Len(data) /\ Len(data) \in Nat
           /\ out_size \in Nat /\ Limit \in Nat /\ out_size + Len(Taken) <= Limit
           /\ \A i \in 1..Len(Taken) : i \in DOMAIN data /\ Taken[i] = data[i]
           /\ data = Taken \o SubSeq(data, Len(Taken) + 1, Len(data))
<1> DEFINE T == DOMAIN file.rows
           room == IF max_rows = 0 THEN 1 ELSE max_rows - out_size
           k == IF room < Len(data) THEN room ELSE Len(data)
<1>1. data \in Seq(T) /\ out_size \in Nat /\ max_rows \in Nat
  BY Parameters DEF ReaderInv, ReaderTyped
<1>2. Len(data) \in Nat /\ DOMAIN data = 1..Len(data) /\ \A i \in 1..Len(data) : data[i] \in T
  BY <1>1, LenProperties, ElementOfSeq
<1>3. Len(data) # 0
  <2>1. data # <<>>
    BY DEF ReaderInv, FlagsRight, DequeConsistent
  <2> QED
    BY <2>1, <1>1
<1>4. out_size < Limit
  BY DEF ReaderInv, RoomLeft
<1>5. Limit \in Nat /\ room = Limit - out_size /\ room \in Nat /\ room > 0
  BY <1>1, <1>4 DEF Limit
<1> HIDE DEF room
<1>6. k \in 1..Len(data) /\ k <= room
  BY <1>2, <1>3, <1>5
<1>7. Taken = SubSeq(data, 1, k)
  BY DEF Taken, room
<1> HIDE DEF k, T
<1>8. /\ Taken \in Seq(T) /\ Len(Taken) = k
      /\ \A i \in 1..k : Taken[i] = data[i]
  BY <1>1, <1>2, <1>6, <1>7
<1>9. out_size + k <= Limit
  BY <1>1, <1>5, <1>6
<1>10. data = SubSeq(data, 1, k) \o SubSeq(data, k + 1, Len(data))
  <2>1. k \in 0..Len(data)
    BY <1>2, <1>6
  <2> QED
    BY <2>1, <1>1, CutInTwo
<1>11. DOMAIN Taken = 1..k
  BY <1>8, LenProperties
<1>12. \A i \in 1..k : i \in DOMAIN data
  BY <1>2, <1>6
<1> QED
  BY <1>1, <1>2, <1>5, <1>6, <1>7, <1>8, <1>9, <1>10, <1>11, <1>12 DEF T

(* What the queue holds after a call took its rows it held before. *)
LEMMA AfterTaking ==
    ASSUME ReaderInv, caller = "takes", ~is_empty, DrainFront(Len(Taken))
    PROVE  /\ data' \in Seq(DOMAIN file.rows) /\ DequeConsistent' /\ is_empty' \in BOOLEAN
           /\ is_waitable' = is_waitable /\ asleep' = asleep
           /\ header_trimmed
           /\ \A i \in DOMAIN data' : data'[i] > Header
<1>1. data \in Seq(DOMAIN file.rows) /\ is_empty \in BOOLEAN /\ DequeConsistent
  BY DEF ReaderInv, ReaderTyped, FlagsRight
<1>2. Len(Taken) \in Nat
  BY TakenShape
<1>3. /\ data' \in Seq(DOMAIN file.rows) /\ DequeConsistent' /\ is_empty' \in BOOLEAN
      /\ \A i \in DOMAIN data' :
            i + Len(Taken) \in DOMAIN data /\ data'[i] = data[i + Len(Taken)]
  BY <1>1, <1>2, DrainFrontKeeps
<1>4. header_trimmed /\ \A i \in DOMAIN data : data[i] > Header
  BY DEF ReaderInv, HeaderFirst
<1> QED
  BY <1>3, <1>4 DEF DrainFront

(* The caller takes rows up to one that the policy throws at.              *)
LEMMA TakeAndThrowKeeps == ReaderInv /\ TakeAndThrow => ReaderInv'
<1> SUFFICES ASSUME ReaderInv, TakeAndThrow PROVE ReaderInv'
  OBVIOUS
<1>1. Limit' = Limit /\ Chunks' = Chunks /\ \A c : RowsOf(c)' = RowsOf(c)
  BY RowsStay DEF TakeAndThrow
<1>2. ReaderTyped /\ RoomLeft /\ FlagsRight
      /\ ChunkDone /\ HeaderFirst /\ RowsOfChunk
  BY DEF ReaderInv
<1>3. /\ caller = "takes" /\ ~is_empty /\ caller' = "caught" /\ DrainFront(Len(Taken))
      /\ UNCHANGED <<file, policy, max_rows, chunk, todo, eof, header_trimmed, exception,
                     worker, out_size, retries>>
  BY DEF TakeAndThrow, fileVars, workVars
<1>4. PICK i \in DOMAIN Taken : /\ got' = got \o SubSeq(Taken, 1, i - 1)
                                /\ read_requested' = (read_requested /\ i = 1)
  BY DEF TakeAndThrow
<1>5. got' \in Seq(DOMAIN file.rows)
  <2> DEFINE T == DOMAIN file.rows
  <2>1. /\ Taken \in Seq(T) /\ got \in Seq(T)
        /\ i \in 1..Len(Taken) /\ Len(Taken) \in Nat
    BY <1>2, <1>3, TakenShape DEF ReaderTyped
  <2>2. SubSeq(Taken, 1, i - 1) \in Seq(T)
    <3>1. \A j \in 1..(i - 1) : Taken[j] \in T
      <4>1. \A j \in 1..Len(Taken) : Taken[j] \in T
        BY <2>1, ElementOfSeq
      <4> QED
        BY <4>1, <2>1
    <3>2. 1 \in Int /\ i - 1 \in Int
      BY <2>1
    <3> HIDE DEF T
    <3> QED
      BY <3>1, <3>2, SubSeqProperties
  <2> HIDE DEF T
  <2>3. got \o SubSeq(Taken, 1, i - 1) \in Seq(T)
    BY <2>1, <2>2
  <2> QED
    BY <2>3, <1>4 DEF T
<1>6. /\ data' \in Seq(DOMAIN file.rows) /\ DequeConsistent' /\ is_empty' \in BOOLEAN
      /\ is_waitable' = is_waitable /\ asleep' = asleep /\ header_trimmed
      /\ \A j \in DOMAIN data' : data'[j] > Header
  BY <1>3, AfterTaking
<1>7. read_requested' \in BOOLEAN
  BY <1>4
<1>8. ReaderTyped'
  BY <1>1, <1>2, <1>3, <1>5, <1>6, <1>7 DEF ReaderTyped
<1>9. RoomLeft'
  BY <1>1, <1>2, <1>3 DEF RoomLeft
<1>10. FlagsRight'
  BY <1>2, <1>3, <1>6 DEF FlagsRight
<1>11. ChunkDone'
  BY <1>1, <1>2, <1>3 DEF ChunkDone
<1>12. HeaderFirst'
  BY <1>2, <1>3, <1>6 DEF HeaderFirst
<1>13. RowsOfChunk'
  BY <1>1, <1>2, <1>3 DEF RowsOfChunk
<1> QED
  BY <1>8, <1>9, <1>10, <1>11, <1>12, <1>13 DEF ReaderInv

(* The caller takes rows for its batch.                                    *)
LEMMA TakeKeeps == ReaderInv /\ Take => ReaderInv'
<1> SUFFICES ASSUME ReaderInv, Take PROVE ReaderInv'
  OBVIOUS
<1>1. Limit' = Limit /\ Chunks' = Chunks /\ \A c : RowsOf(c)' = RowsOf(c)
  BY RowsStay DEF Take
<1>2. ReaderTyped /\ RoomLeft /\ FlagsRight
      /\ ChunkDone /\ HeaderFirst /\ RowsOfChunk
  BY DEF ReaderInv
<1> DEFINE accepted == Selected(Taken, AcceptedRows)
           size == out_size + Len(accepted)
<1>3. /\ caller = "takes" /\ ~is_empty /\ DrainFront(Len(Taken))
      /\ got' = got \o accepted /\ out_size' = size
      /\ read_requested' = (read_requested /\ accepted = <<>>)
      /\ caller' = IF size = Limit THEN "outside" ELSE "asks empty"
      /\ UNCHANGED <<file, policy, max_rows, chunk, todo, eof, header_trimmed, exception,
                     worker, retries>>
  BY DEF Take, fileVars, workVars, Limit
<1>4. /\ Taken \in Seq(DOMAIN file.rows) /\ Len(Taken) \in Nat
      /\ out_size \in Nat /\ Limit \in Nat /\ out_size + Len(Taken) <= Limit
  <2>1. /\ Taken \in Seq(DOMAIN file.rows) /\ out_size \in Nat /\ Limit \in Nat
        /\ out_size + Len(Taken) <= Limit
    BY <1>3, TakenShape
  <2> QED
    BY <2>1, LenProperties
<1>5. accepted \in Seq(DOMAIN file.rows) /\ Len(accepted) <= Len(Taken)
  BY <1>4, SelectedElements
<1> HIDE DEF accepted
<1>6. Len(accepted) \in Nat
  BY <1>5, LenProperties
<1>7. size \in Nat /\ size <= Limit
  BY <1>4, <1>5, <1>6
<1> HIDE DEF size
<1>8. got' \in Seq(DOMAIN file.rows) /\ read_requested' \in BOOLEAN
  <2> DEFINE T == DOMAIN file.rows
  <2>1. got \in Seq(T) /\ accepted \in Seq(T)
    BY <1>2, <1>5 DEF ReaderTyped
  <2> HIDE DEF T
  <2>2. got \o accepted \in Seq(T)
    BY <2>1
  <2> QED
    BY <2>2, <1>3 DEF T
<1>9. /\ data' \in Seq(DOMAIN file.rows) /\ DequeConsistent' /\ is_empty' \in BOOLEAN
      /\ is_waitable' = is_waitable /\ asleep' = asleep /\ header_trimmed
      /\ \A j \in DOMAIN data' : data'[j] > Header
  BY <1>3, AfterTaking
<1>10. ReaderTyped'
  BY <1>1, <1>2, <1>3, <1>7, <1>8, <1>9 DEF ReaderTyped
<1>11. RoomLeft'
  <2>1. out_size' <= Limit /\ (size # Limit => out_size' < Limit)
    <3>1. out_size' = size
      BY <1>3
    <3> QED
      BY <3>1, <1>4, <1>7
  <2> QED
    BY <2>1, <1>1, <1>3 DEF RoomLeft
<1>12. FlagsRight'
  BY <1>2, <1>3, <1>9 DEF FlagsRight
<1>13. ChunkDone'
  BY <1>1, <1>2, <1>3 DEF ChunkDone
<1>14. HeaderFirst'
  BY <1>2, <1>3, <1>9 DEF HeaderFirst
<1>15. RowsOfChunk'
  BY <1>1, <1>2, <1>3 DEF RowsOfChunk
<1> QED
  BY <1>10, <1>11, <1>12, <1>13, <1>14, <1>15 DEF ReaderInv

-----------------------------------------------------------------------------
(* Every step of either thread keeps the invariant. *)
LEMMA ReaderNext == ReaderInv /\ [Next]_vars => ReaderInv'
<1>1. ReaderInv /\ UNCHANGED vars => ReaderInv'
  <2> SUFFICES ASSUME ReaderInv, UNCHANGED vars PROVE ReaderInv'
    OBVIOUS
  <2>1. UNCHANGED fileVars
    BY DEF vars
  <2>2. Limit' = Limit /\ Chunks' = Chunks /\ \A c : RowsOf(c)' = RowsOf(c)
    BY <2>1, RowsStay
  <2>3. UNCHANGED <<data, is_empty, is_waitable, asleep, file, policy, max_rows, chunk,
                    todo, eof, header_trimmed, exception, worker, caller, out_size,
                    read_requested, reason, retries, got>>
    BY DEF vars, dequeVars, fileVars, workVars, callVars
  <2>4. ReaderTyped'
    <3>1. ReaderTyped
      BY DEF ReaderInv
    <3>2. /\ file' = file /\ max_rows' = max_rows /\ chunk' = chunk /\ data' = data
          /\ todo' = todo /\ got' = got /\ out_size' = out_size /\ retries' = retries
          /\ worker' = worker /\ caller' = caller
      BY <2>3
    <3>3. /\ (is_empty \in BOOLEAN)' /\ (is_waitable \in BOOLEAN)' /\ (asleep \in BOOLEAN)'
          /\ (eof \in BOOLEAN)' /\ (header_trimmed \in BOOLEAN)'
          /\ (exception \in BOOLEAN)' /\ (read_requested \in BOOLEAN)'
      BY <3>1, <2>3 DEF ReaderTyped
    <3> QED
      BY <3>1, <3>2, <3>3, <2>2 DEF ReaderTyped
  <2>7. RoomLeft'
    BY <2>2, <2>3 DEF ReaderInv, RoomLeft
  <2>5. FlagsRight' /\ ChunkDone'
    BY <2>2, <2>3 DEF ReaderInv, FlagsRight, DequeConsistent, ChunkDone
  <2>6. HeaderFirst' /\ RowsOfChunk'
    BY <2>2, <2>3 DEF ReaderInv, HeaderFirst, RowsOfChunk
  <2> QED
    BY <2>4, <2>5, <2>6, <2>7 DEF ReaderInv
<1>2. ReaderInv /\ Worker => ReaderInv'
  BY ParseStartsKeeps, ParseFailsKeeps, ParseRowKeeps, ReachEndKeeps, TrimHeaderKeeps,
     ParseStopsKeeps DEF Worker
<1>3. ReaderInv /\ Caller => ReaderInv'
  BY ConstructKeeps, ConstructedKeeps, CallKeeps, AskEmptyKeeps, AskWaitableKeeps,
     WaitKeeps, RethrowKeeps, FindEofKeeps, FindStuckKeeps, ReadOnKeeps, FindNothingKeeps,
     TakeAndThrowKeeps, TakeKeeps, CloseKeeps DEF Caller
<1> QED
  BY <1>1, <1>2, <1>3, WakeKeeps, ClosedKeeps DEF Next

(* The invariant says all that Consistent does. *)
LEMMA ReaderInvConsistent == ReaderInv => Consistent
<1> SUFFICES ASSUME ReaderInv PROVE Consistent
  OBVIOUS
<1>1. ReaderTyped /\ RoomLeft /\ FlagsRight
  BY DEF ReaderInv
<1>2. out_size \in 0..max_rows + 1
  <2>1. max_rows \in Nat /\ out_size \in Nat /\ out_size <= Limit
    BY <1>1, Parameters DEF ReaderTyped, RoomLeft
  <2> QED
    BY <2>1 DEF Limit
<1>3. ToSet(data) \cup ToSet(todo) \cup ToSet(got) \subseteq DOMAIN file.rows
  <2>1. ASSUME NEW S, NEW s \in Seq(S) PROVE ToSet(s) \subseteq S
    BY LenProperties, ElementOfSeq DEF ToSet
  <2>2. /\ data \in Seq(DOMAIN file.rows) /\ todo \in Seq(DOMAIN file.rows)
        /\ got \in Seq(DOMAIN file.rows)
    BY <1>1 DEF ReaderTyped
  <2> QED
    BY <2>1, <2>2
<1>4. TypeOK
  BY <1>1, <1>2, <1>3 DEF TypeOK, ReaderTyped
<1> QED
  BY <1>1, <1>4 DEF Consistent, FlagsRight

(* The invariant holds in every state of a reader. *)
THEOREM ReaderInvariance == Spec => []ReaderInv
BY ReaderInit, ReaderNext, PTL DEF Spec

(* Queue, flags and threads agree in every state: nobody sleeps through a  *)
(* row or the end of a chunk, is_waitable tells whether the worker may     *)
(* still push, and no thread outlives its reader.                          *)
THEOREM ReaderConsistent == Spec => []Consistent
BY ReaderInvariance, ReaderInvConsistent, PTL

-----------------------------------------------------------------------------
(* What the caller sees. *)

(* The files and the rows that are wanted do not change, and the rows to   *)
(* come only with the queue and the chunk.                                 *)
LEMMA WantedStays ==
    UNCHANGED <<file, policy>> =>
        /\ AcceptedRows' = AcceptedRows /\ Wanted' = Wanted /\ LastRows' = LastRows
        /\ \A c : Later(c)' = Later(c)
<1> SUFFICES ASSUME UNCHANGED <<file, policy>>
             PROVE  /\ AcceptedRows' = AcceptedRows /\ Wanted' = Wanted
                    /\ LastRows' = LastRows /\ \A c : Later(c)' = Later(c)
  OBVIOUS
<1>1. AcceptedRows' = AcceptedRows
  BY DEF AcceptedRows, Accepts, Throws, Rejects
<1>2. Wanted' = Wanted
  BY <1>1 DEF Wanted
<1>3. LastRows' = LastRows
  BY DEF LastRows, RowsOf, Chunks
<1>4. \A c : Later(c)' = Later(c)
  BY DEF Later
<1> QED
  BY <1>1, <1>2, <1>3, <1>4

(* Later(c) is a sequence of rows, empty for the last chunk, and begins    *)
(* with the rows of the next one.                                          *)
LEMMA LaterShape ==
    ASSUME file \in Files, NEW c \in 1..Chunks
    PROVE  /\ Later(c) \in Seq(DOMAIN file.rows)
           /\ c = Chunks => Later(c) = <<>>
           /\ c # Chunks => c + 1 \in 1..Chunks /\ Later(c) = RowsOf(c + 1) \o Later(c + 1)
<1> DEFINE T == DOMAIN file.rows
<1>1. /\ Chunks \in Nat /\ Chunks >= 1 /\ Len(file.rows) \in Nat /\ T = 1..Len(file.rows)
      /\ \A d \in 1..Chunks : file.ends[d] \in 0..Len(file.rows)
      /\ file.ends[Chunks] = Len(file.rows)
  BY FileShape
<1>2. ASSUME NEW d \in 1..Chunks
      PROVE  /\ Later(d) \in Seq(T) /\ Len(Later(d)) = Len(file.rows) - file.ends[d]
             /\ \A i \in 1..Len(Later(d)) : Later(d)[i] = file.ends[d] + i
  <2> DEFINE n == Len(file.rows) - file.ends[d]
  <2>1. n \in Nat /\ \A i \in 1..n : file.ends[d] + i \in T
    BY <1>1
  <2>2. Later(d) = [i \in 1..n |-> file.ends[d] + i]
    BY DEF Later
  <2> HIDE DEF n, T
  <2>3. Later(d) \in Seq(T) /\ Len(Later(d)) = n /\ \A i \in 1..n : Later(d)[i] = file.ends[d] + i
    BY <2>1, <2>2
  <2> QED
    BY <2>3 DEF n
<1>3. c = Chunks => Later(c) = <<>>
  <2> SUFFICES ASSUME c = Chunks PROVE Later(c) = <<>>
    OBVIOUS
  <2>1. Len(Later(c)) = 0
    BY <1>1, <1>2
  <2> QED
    BY <2>1, <1>2, EmptySeq
<1>4. ASSUME c # Chunks PROVE c + 1 \in 1..Chunks /\ Later(c) = RowsOf(c + 1) \o Later(c + 1)
  <2> DEFINE d == c + 1
             u == RowsOf(d)
             v == Later(d)
             w == Later(c)
  <2>1. d \in 1..Chunks /\ d # 1 /\ d - 1 = c
    BY <1>1, <1>4
  <2>2. Start(d) = file.ends[c]
    BY <2>1 DEF Start
  <2>3. /\ u \in Seq(T) /\ Len(u) = file.ends[d] - file.ends[c]
        /\ \A i \in 1..Len(u) : u[i] = file.ends[c] + i
        /\ file.ends[c] <= file.ends[d]
    BY <2>1, <2>2, RowsOfShape
  <2>4. /\ v \in Seq(T) /\ Len(v) = Len(file.rows) - file.ends[d]
        /\ \A i \in 1..Len(v) : v[i] = file.ends[d] + i
    BY <2>1, <1>2
  <2>5. /\ w \in Seq(T) /\ Len(w) = Len(file.rows) - file.ends[c]
        /\ \A i \in 1..Len(w) : w[i] = file.ends[c] + i
    BY <1>2
  <2>6. /\ file.ends[c] \in Nat /\ file.ends[d] \in Nat /\ Len(file.rows) \in Nat
        /\ file.ends[d] <= Len(file.rows)
    BY <1>1, <2>1
  <2> HIDE DEF u, v, w, T
  <2>7. /\ u \o v \in Seq(T) /\ Len(u \o v) = Len(u) + Len(v)
        /\ \A i \in 1..(Len(u) + Len(v)) : (u \o v)[i] = IF i <= Len(u) THEN u[i] ELSE v[i - Len(u)]
    BY <2>3, <2>4, ConcatProperties
  <2>8. Len(w) = Len(u \o v) /\ Len(u) \in Nat /\ Len(v) \in Nat
    <3>1. Len(u) \in Nat /\ Len(v) \in Nat
      BY <2>3, <2>4, <2>6
    <3>2. Len(w) = Len(u) + Len(v)
      <4>1. /\ Len(u) = file.ends[d] - file.ends[c]
            /\ Len(v) = Len(file.rows) - file.ends[d]
            /\ Len(w) = Len(file.rows) - file.ends[c]
        BY ONLY <2>3, <2>4, <2>5
      <4>2. Len(file.rows) - file.ends[c]
              = (file.ends[d] - file.ends[c]) + (Len(file.rows) - file.ends[d])
        <5>1. \A x, y, z \in Nat : z - x = (y - x) + (z - y)
          OBVIOUS
        <5>2. /\ file.ends[c] \in Nat /\ file.ends[d] \in Nat
              /\ Len(file.rows) \in Nat
          BY <2>6
        <5> HIDE DEF d
        <5> QED
          BY ONLY <5>1, <5>2, Zenon
      <4> QED
        BY ONLY <4>1, <4>2, Zenon
    <3> QED
      BY <3>1, <3>2, <2>7
  <2>9. ASSUME NEW i \in 1..Len(w) PROVE w[i] = (u \o v)[i]
    <3>1. CASE i <= Len(u)
      BY <3>1, <2>3, <2>5, <2>7, <2>8
    <3>2. CASE ~(i <= Len(u))
      <4>1. i - Len(u) \in 1..Len(v)
        BY <3>2, <2>7, <2>8
      <4>2. v[i - Len(u)] = file.ends[d] + (i - Len(u))
        BY <4>1, <2>4
      <4>3. file.ends[d] + (i - Len(u)) = file.ends[c] + i
        <5>1. file.ends[d] = file.ends[c] + Len(u)
          BY ONLY <2>3, <2>6
        <5>2. i \in Int /\ Len(u) \in Int /\ file.ends[c] \in Int
          BY ONLY <2>6, <2>8, i \in 1..Len(w)
        <5> QED
          BY ONLY <5>1, <5>2
      <4>4. (u \o v)[i] = v[i - Len(u)] /\ w[i] = file.ends[c] + i
        BY <3>2, <2>5, <2>7, <2>8
      <4> QED
        BY <4>2, <4>3, <4>4
    <3> QED
      BY <3>1, <3>2
  <2>10. w = u \o v
    BY <2>5, <2>7, <2>8, <2>9, SeqEqual
  <2> QED
    BY <2>1, <2>10 DEF u, v, w
<1> QED
  BY <1>2, <1>3, <1>4

(* Remaining is a sequence of rows. *)
LEMMA RemainingRows == ReaderTyped => Remaining \in Seq(DOMAIN file.rows)
<1> SUFFICES ASSUME ReaderTyped PROVE Remaining \in Seq(DOMAIN file.rows)
  OBVIOUS
<1> DEFINE T == DOMAIN file.rows
           v == Later(chunk)
<1>1. data \in Seq(T) /\ todo \in Seq(T) /\ v \in Seq(T)
  BY LaterShape DEF ReaderTyped
<1> HIDE DEF T, v
<1>2. data \o (todo \o v) \in Seq(T)
  BY <1>1
<1>3. Selected(data \o (todo \o v), Wanted) \in Seq(T)
  BY <1>2, SelectedElements
<1> QED
  BY <1>3 DEF Remaining, T, v

(* A step that leaves the queue and the chunk alone leaves the stream      *)
(* alone, if it leaves its status alone.                                   *)
LEMMA RemainingStays ==
    UNCHANGED <<file, policy, chunk, data, todo>> =>
        Remaining' = Remaining /\ LastRows' = LastRows
<1> SUFFICES ASSUME UNCHANGED <<file, policy, chunk, data, todo>>
             PROVE  Remaining' = Remaining /\ LastRows' = LastRows
  OBVIOUS
<1>1. /\ Wanted' = Wanted /\ LastRows' = LastRows /\ Later(chunk)' = Later(chunk)
  BY WantedStays
<1> QED
  BY <1>1 DEF Remaining

(* A step that changes nothing the stream shows is a stutter of it.        *)
LEMMA QuietStep ==
    /\ UNCHANGED <<file, policy, chunk, data, todo, got>> /\ Status' = Status
    => UNCHANGED Stream!vars
BY RemainingStays DEF Stream!vars

(* A row that goes from the chunk to the queue keeps its place. *)
LEMMA HeadMoved ==
    ASSUME NEW T, NEW s \in Seq(T), NEW t \in Seq(T), t # <<>>, NEW u \in Seq(T)
    PROVE  Append(s, Head(t)) \o (Tail(t) \o u) = s \o (t \o u)
<1> DEFINE h == Head(t)
           r == Tail(t)
<1>1. h \in T /\ r \in Seq(T) /\ t = <<h>> \o r
  OBVIOUS
<1> HIDE DEF h, r
<1>2. Append(s, h) = s \o <<h>> /\ <<h>> \in Seq(T) /\ r \o u \in Seq(T)
  BY <1>1
<1>3. (s \o <<h>>) \o (r \o u) = s \o (<<h>> \o (r \o u))
  BY <1>2
<1>4. (<<h>> \o r) \o u = <<h>> \o (r \o u)
  <2>1. <<h>> \in Seq(T) /\ r \in Seq(T)
    BY <1>1, <1>2
  <2> QED
    BY <2>1
<1>5. Append(s, h) \o (r \o u) = s \o (t \o u)
  BY <1>1, <1>2, <1>3, <1>4, Zenon
<1> QED
  BY <1>5 DEF h, r

(* What the first k rows of the queue are to the caller, and the rest.     *)
LEMMA QueueCut ==
    ASSUME ReaderTyped, NEW k \in 0..Len(data)
    PROVE  /\ SubSeq(data, 1, k) \in Seq(DOMAIN file.rows) /\ Len(SubSeq(data, 1, k)) = k
           /\ \A i \in 1..k : SubSeq(data, 1, k)[i] = data[i]
           /\ Selected(SubSeq(data, k + 1, Len(data)) \o (todo \o Later(chunk)), Wanted)
                  \in Seq(DOMAIN file.rows)
           /\ Remaining = Selected(SubSeq(data, 1, k), Wanted) \o
                  Selected(SubSeq(data, k + 1, Len(data)) \o (todo \o Later(chunk)), Wanted)
<1> DEFINE T == DOMAIN file.rows
           v == Later(chunk)
           w == todo \o v
           a == SubSeq(data, 1, k)
           b == SubSeq(data, k + 1, Len(data))
<1>1. data \in Seq(T) /\ todo \in Seq(T) /\ v \in Seq(T)
  BY LaterShape DEF ReaderTyped
<1> HIDE DEF T, v
<1>2. w \in Seq(T)
  BY <1>1
<1>3. Remaining = Selected(data \o w, Wanted)
  BY DEF Remaining, v
<1> HIDE DEF w
<1>4. Len(data) \in Nat /\ k \in Nat /\ k <= Len(data)
  BY <1>1, LenProperties
<1>5. a \in Seq(T) /\ Len(a) = k /\ \A i \in 1..k : a[i] = data[i]
  <2>1. \A i \in 1..k : data[i] \in T
    BY <1>1, <1>4, ElementOfSeq
  <2> QED
    BY <2>1, <1>4, SubSeqProperties
<1>6. b \in Seq(T)
  BY <1>1, <1>4, Suffix
<1>7. data = a \o b
  BY <1>1, CutInTwo
<1> HIDE DEF a, b
<1>8. b \o w \in Seq(T) /\ (a \o b) \o w = a \o (b \o w)
  BY ONLY <1>2, <1>5, <1>6
<1>9. /\ Selected(a \o (b \o w), Wanted) = Selected(a, Wanted) \o Selected(b \o w, Wanted)
      /\ Selected(b \o w, Wanted) \in Seq(T)
  <2>1. Selected(a \o (b \o w), Wanted) = Selected(a, Wanted) \o Selected(b \o w, Wanted)
    BY ONLY <1>5, <1>8, SelectedConcat
  <2>2. Selected(b \o w, Wanted) \in Seq(T)
    BY ONLY <1>8, SelectedElements
  <2> QED
    BY <2>1, <2>2
<1>10. Remaining = Selected(a, Wanted) \o Selected(b \o w, Wanted)
  BY <1>3, <1>7, <1>8, <1>9, Zenon
<1> QED
  BY <1>5, <1>9, <1>10 DEF a, b, w, v, T

(* The worker neither adds a row to those the caller has not seen nor      *)
(* takes one away: it moves them from the chunk to the queue, and the      *)
(* header it cuts off is not wanted.                                       *)
LEMMA WorkerIsQuiet == ReaderInv /\ Worker => UNCHANGED Stream!vars
<1> SUFFICES ASSUME ReaderInv, Worker PROVE UNCHANGED Stream!vars
  OBVIOUS
<1> DEFINE T == DOMAIN file.rows
           v == Later(chunk)
           w == todo \o v
<1>1. /\ data \in Seq(T) /\ todo \in Seq(T) /\ v \in Seq(T)
      /\ ReaderTyped /\ HeaderFirst
  BY LaterShape DEF ReaderInv, ReaderTyped
<1>2. CASE ParseStarts
  BY <1>2, QuietStep DEF ParseStarts, NotifyAll, fileVars, workVars, callVars, Status
<1>3. CASE ParseFails
  BY <1>3, QuietStep DEF ParseFails, dequeVars, fileVars, callVars, Status
<1>4. CASE ReachEnd
  BY <1>4, QuietStep DEF ReachEnd, dequeVars, fileVars, callVars, Status
<1>5. CASE ParseStops
  BY <1>5, QuietStep DEF ParseStops, KillAll, fileVars, workVars, callVars, Status
<1>6. CASE ParseRow
  <2>1. /\ data' = Append(data, Head(todo)) /\ todo' = Tail(todo) /\ todo # <<>>
        /\ UNCHANGED <<file, policy, chunk, got, caller>>
    BY <1>6 DEF ParseRow, PushBack, fileVars, callVars
  <2>2. data' \o (todo' \o v) = data \o (todo \o v)
    <3> HIDE DEF T, v
    <3>1. Append(data, Head(todo)) \o (Tail(todo) \o v) = data \o (todo \o v)
      <4>1. data \in Seq(T) /\ todo \in Seq(T) /\ v \in Seq(T) /\ todo # <<>>
        BY <1>1, <2>1
      <4> QED
        BY ONLY <4>1, HeadMoved
    <3> QED
      BY <2>1, <3>1
  <2>3. Wanted' = Wanted /\ LastRows' = LastRows /\ Later(chunk)' = Later(chunk)
    BY <2>1, WantedStays
  <2>4. Remaining' = Remaining
    BY <2>2, <2>3 DEF Remaining
  <2> QED
    BY <2>1, <2>3, <2>4 DEF Stream!vars, Status
<1>7. CASE TrimHeader
  <2>1. UNCHANGED <<file, policy, chunk, todo, got, caller>>
    BY <1>7 DEF TrimHeader, fileVars, callVars
  <2>2. CASE header_trimmed
    BY <1>7, <2>1, <2>2, QuietStep DEF TrimHeader, dequeVars, Status
  <2>3. CASE ~header_trimmed
    <3> DEFINE k == IF Header < Len(data) THEN Header ELSE Len(data)
               a == SubSeq(data, 1, k)
               b == SubSeq(data, k + 1, Len(data))
    <3>1. data' = SubSeq(data, Header + 1, Len(data))
      BY <1>7, <2>3 DEF TrimHeader, DrainFront
    <3>2. Len(data) \in Nat /\ DOMAIN data = 1..Len(data) /\ Header \in Nat
      BY <1>1, LenProperties, Parameters
    <3>3. k \in 0..Len(data) /\ k <= Header
      BY <3>2
    <3>4. data' = b
      <4>1. CASE Header < Len(data)
        BY <4>1, <3>1
      <4>2. CASE ~(Header < Len(data))
        <5>1. SubSeq(data, Header + 1, Len(data)) = <<>>
          BY <3>2, <4>2, SubSeqEmpty
        <5>2. SubSeq(data, Len(data) + 1, Len(data)) = <<>>
          BY <3>2, SubSeqEmpty
        <5> QED
          BY <4>2, <3>1, <5>1, <5>2
      <4> QED
        BY <4>1, <4>2
    <3> HIDE DEF k
    <3>5. /\ a \in Seq(T) /\ Len(a) = k /\ \A i \in 1..k : a[i] = data[i]
          /\ Selected(b \o w, Wanted) \in Seq(T)
          /\ Remaining = Selected(a, Wanted) \o Selected(b \o w, Wanted)
      BY <1>1, <3>3, QueueCut
    <3>6. ToSet(a) \cap Wanted = {}
      <4>1. \A i \in 1..k : data[i] = i
        <5>1. \A i \in DOMAIN data : data[i] = i
          BY <2>3, <1>1 DEF HeaderFirst
        <5>2. \A i \in 1..k : i \in 1..Len(data)
          BY <3>2, <3>3
        <5> QED
          BY <5>1, <5>2, <3>2
      <4>2. DOMAIN a = 1..k
        BY <3>5, LenProperties
      <4>3. \A i \in 1..k : a[i] <= Header
        BY <4>1, <3>5, <3>2, <3>3
      <4>4. \A i \in 1..k : a[i] \in Nat
        BY <4>1, <3>5, <3>2, <3>3
      <4> HIDE DEF a
      <4>5. \A i \in 1..k : ~(a[i] > Header)
        BY <4>3, <4>4, <3>2
      <4> QED
        BY <4>2, <4>5 DEF ToSet, Wanted
    <3>7. Selected(a, Wanted) = <<>>
      <4> HIDE DEF a, T
      <4> QED
        BY <3>5, <3>6, SelectedNone
    <3>8. Remaining = Selected(b \o w, Wanted)
      <4> HIDE DEF T, a, b, w
      <4> QED
        BY <3>5, <3>7, ConcatEmptySeq
    <3>9. Wanted' = Wanted /\ LastRows' = LastRows /\ Later(chunk)' = v
      BY <2>1, WantedStays
    <3>10. Remaining' = Selected(b \o w, Wanted)
      BY <2>1, <3>4, <3>9 DEF Remaining
    <3> QED
      BY <2>1, <3>8, <3>9, <3>10 DEF Stream!vars, Status
  <2> QED
    BY <2>2, <2>3
<1> QED
  BY <1>2, <1>3, <1>4, <1>5, <1>6, <1>7 DEF Worker

(* What a call takes out of the queue was the first to come, and is wanted *)
(* where it is accepted.                                                   *)
LEMMA FirstTaken ==
    ASSUME ReaderInv, caller = "takes", DrainFront(Len(Taken)),
           UNCHANGED <<file, policy, chunk, todo>>
    PROVE  /\ Taken \in Seq(DOMAIN file.rows) /\ Remaining' \in Seq(DOMAIN file.rows)
           /\ Remaining = Selected(Taken, AcceptedRows) \o Remaining'
           /\ LastRows' = LastRows
<1> DEFINE T == DOMAIN file.rows
           n == Len(Taken)
<1>1. /\ ReaderTyped /\ RoomLeft /\ HeaderFirst /\ header_trimmed
      /\ data \in Seq(T)
  BY DEF ReaderInv, HeaderFirst, ReaderTyped
<1>2. Taken \in Seq(T) /\ Len(data) \in Nat /\ n \in 0..Len(data)
      /\ Taken = SubSeq(data, 1, n)
  <2> DEFINE room == IF max_rows = 0 THEN 1 ELSE max_rows - out_size
             k == IF room < Len(data) THEN room ELSE Len(data)
  <2>1. Taken = SubSeq(data, 1, k)
    BY DEF Taken
  <2>2. Len(data) \in Nat /\ \A i \in 1..Len(data) : data[i] \in T
    BY <1>1, LenProperties, ElementOfSeq
  <2>3. k \in Nat /\ k <= Len(data)
    <3>1. room \in Nat
      <4>1. max_rows \in Nat /\ out_size \in Nat /\ out_size <= Limit
        BY <1>1, Parameters DEF ReaderTyped, RoomLeft
      <4> QED
        BY <4>1 DEF Limit
    <3> HIDE DEF room
    <3> QED
      BY <3>1, <2>2
  <2> HIDE DEF k, T
  <2>4. \A i \in 1..k : data[i] \in T
    BY <2>2, <2>3
  <2>5. SubSeq(data, 1, k) \in Seq(T) /\ Len(SubSeq(data, 1, k)) = k
    BY <2>3, <2>4, SubSeqProperties
  <2> QED
    BY <2>1, <2>2, <2>3, <2>5
<1> HIDE DEF n
<1> DEFINE w == todo \o Later(chunk)
           r == SubSeq(data, n + 1, Len(data))
<1>3. /\ Len(Taken) = n /\ \A i \in 1..n : Taken[i] = data[i]
      /\ Selected(r \o w, Wanted) \in Seq(T)
      /\ Remaining = Selected(Taken, Wanted) \o Selected(r \o w, Wanted)
  BY <1>1, <1>2, QueueCut
<1>4. Selected(Taken, Wanted) = Selected(Taken, AcceptedRows)
  <2>1. DOMAIN Taken = 1..n /\ DOMAIN data = 1..Len(data)
    BY <1>1, <1>2, <1>3, LenProperties
  <2>2. \A i \in DOMAIN data : data[i] > Header
    BY <1>1 DEF HeaderFirst
  <2>3. \A i \in DOMAIN Taken : Taken[i] > Header
    <3>1. \A i \in 1..n : i \in 1..Len(data)
      BY <1>2
    <3> QED
      BY <2>1, <2>2, <3>1, <1>3
  <2>4. ToSet(Taken) \cap Wanted = ToSet(Taken) \cap AcceptedRows
    BY <2>3 DEF ToSet, Wanted
  <2> HIDE DEF T
  <2> QED
    <3>1. Taken \in Seq(T)
      BY <1>2
    <3> QED
      BY ONLY <3>1, <2>4, SelectedAgree
<1>5. /\ Wanted' = Wanted /\ LastRows' = LastRows /\ Later(chunk)' = Later(chunk)
  BY WantedStays
<1>6. data' = r
  BY DEF DrainFront, n
<1>7. Remaining' = Selected(r \o w, Wanted)
  BY <1>5, <1>6 DEF Remaining
<1> QED
  BY <1>2, <1>3, <1>4, <1>5, <1>7

(* A call that takes rows and throws at none of them delivers those it     *)
(* accepts.                                                                *)
LEMMA TakeDelivers == ReaderInv /\ Take => [Stream!Next]_(Stream!vars)
<1> SUFFICES ASSUME ReaderInv, Take PROVE [Stream!Next]_(Stream!vars)
  OBVIOUS
<1> DEFINE T == DOMAIN file.rows
           a == Selected(Taken, AcceptedRows)
           r == Remaining'
<1>1. /\ caller = "takes" /\ caller' \in {"outside", "asks empty"}
      /\ DrainFront(Len(Taken)) /\ got' = got \o a
      /\ UNCHANGED <<file, policy, chunk, todo>>
  BY DEF Take, fileVars, workVars
<1>2. got \in Seq(T) /\ Status = "open" /\ Status' = "open"
  BY <1>1 DEF ReaderInv, ReaderTyped, Status
<1>3. Taken \in Seq(T) /\ r \in Seq(T) /\ Remaining = a \o r /\ LastRows' = LastRows
  BY <1>1, FirstTaken
<1>4. a \in Seq(T)
  <2>1. Taken \in Seq(T)
    BY <1>3
  <2> HIDE DEF T
  <2> QED
    BY ONLY <2>1, SelectedElements
<1> HIDE DEF T, a, r
<1>5. CASE a = <<>>
  <2>1. Remaining = r /\ got' = got
    BY <1>1, <1>2, <1>3, <1>4, <1>5, ConcatEmptySeq
  <2> QED
    BY <2>1, <1>2, <1>3 DEF Stream!vars, r
<1>6. CASE a # <<>>
  <2>1. a \in Seq(T) /\ r \in Seq(T)
    BY <1>3, <1>4
  <2>2. /\ Len(a \o r) = Len(a) + Len(r)
        /\ SubSeq(a \o r, 1, Len(a)) = a
        /\ SubSeq(a \o r, Len(a) + 1, Len(a \o r)) = r
    BY ONLY <2>1, TakenApart
  <2>3. /\ SubSeq(Remaining, 1, Len(a)) = a
        /\ SubSeq(Remaining, Len(a) + 1, Len(Remaining)) = r
        /\ Len(Remaining) = Len(a) + Len(r)
    BY <2>2, <1>3
  <2>4. Len(a) \in 1..Len(Remaining)
    <3>1. Len(a) \in Nat /\ Len(a) # 0 /\ Len(r) \in Nat
      BY <1>6, <2>1, EmptySeq, LenProperties
    <3> QED
      BY <3>1, <2>3
  <2>5. Stream!Deliver(Len(a))
    BY <2>3, <1>1, <1>2, <1>3 DEF Stream!Deliver, r
  <2> QED
    BY <2>4, <2>5 DEF Stream!Next
<1> QED
  BY <1>5, <1>6

(* A call that throws at a row delivers those before it and loses the rest *)
(* of those it took.                                                       *)
LEMMA TakeAndThrowFails == ReaderInv /\ TakeAndThrow => Stream!Next
<1> SUFFICES ASSUME ReaderInv, TakeAndThrow PROVE Stream!Next
  OBVIOUS
<1> DEFINE T == DOMAIN file.rows
           r == Remaining'
<1>1. /\ caller = "takes" /\ caller' = "caught" /\ DrainFront(Len(Taken))
      /\ UNCHANGED <<file, policy, chunk, todo>>
  BY DEF TakeAndThrow, fileVars, workVars
<1>2. PICK i \in DOMAIN Taken : /\ \A j \in 1..(i - 1) : Accepts(Taken[j])
                                /\ got' = got \o SubSeq(Taken, 1, i - 1)
  BY DEF TakeAndThrow
<1>3. Status = "open" /\ Status' = "error"
  BY <1>1 DEF Status
<1>4. /\ Taken \in Seq(T) /\ r \in Seq(T) /\ LastRows' = LastRows
      /\ Remaining = Selected(Taken, AcceptedRows) \o r
  BY <1>1, FirstTaken
<1> DEFINE p == SubSeq(Taken, 1, i - 1)
           q == SubSeq(Taken, (i - 1) + 1, Len(Taken))
           z == Selected(q, AcceptedRows)
<1>5. DOMAIN Taken = 1..Len(Taken) /\ Len(Taken) \in Nat /\ \A j \in DOMAIN Taken : Taken[j] \in T
  <2> HIDE DEF T
  <2> QED
    BY <1>4, LenProperties, ElementOfSeq
<1>6. i - 1 \in 0..Len(Taken) /\ i - 1 \in Nat
  BY <1>5
<1>7. p \in Seq(T) /\ Len(p) = i - 1 /\ \A j \in 1..(i - 1) : p[j] = Taken[j]
  <2>1. \A j \in 1..(i - 1) : Taken[j] \in T
    BY <1>5
  <2> HIDE DEF T
  <2> QED
    BY <2>1, <1>6, SubSeqProperties
<1>8. q \in Seq(T) /\ Taken = p \o q
  <2>1. Taken \in Seq(T) /\ i - 1 \in 0..Len(Taken) /\ i - 1 \in Nat
    BY <1>4, <1>6
  <2> HIDE DEF T
  <2>2. Taken = SubSeq(Taken, 1, i - 1) \o SubSeq(Taken, (i - 1) + 1, Len(Taken))
    BY ONLY <2>1, CutInTwo
  <2>3. SubSeq(Taken, (i - 1) + 1, Len(Taken)) \in Seq(T)
    BY ONLY <2>1, Suffix
  <2> QED
    BY <2>2, <2>3
<1>9. ToSet(p) \subseteq AcceptedRows
  <2>1. DOMAIN p = 1..(i - 1)
    <3> HIDE DEF T, p
    <3> QED
      BY <1>7, LenProperties
  <2>2. \A j \in DOMAIN p : p[j] \in AcceptedRows
    BY <2>1, <1>2, <1>5, <1>6, <1>7 DEF AcceptedRows
  <2> HIDE DEF p
  <2> QED
    BY <2>2 DEF ToSet
<1> HIDE DEF T, p, q
<1>10. Selected(Taken, AcceptedRows) = p \o z /\ z \in Seq(T)
  <2>1. p \in Seq(T) /\ q \in Seq(T)
    BY <1>7, <1>8
  <2>2. Selected(p \o q, AcceptedRows) = Selected(p, AcceptedRows) \o Selected(q, AcceptedRows)
    BY ONLY <2>1, SelectedConcat
  <2>3. Selected(p, AcceptedRows) = p
    BY ONLY <2>1, <1>9, SelectedAll
  <2>4. z \in Seq(T)
    BY ONLY <2>1, SelectedElements
  <2>5. Taken = p \o q
    BY <1>8
  <2> QED
    BY <2>2, <2>3, <2>4, <2>5, Zenon
<1> HIDE DEF r, z
<1>11. /\ p \in Seq(T) /\ z \in Seq(T) /\ r \in Seq(T)
       /\ p \o z \in Seq(T) /\ z \o r \in Seq(T) /\ (p \o z) \o r = p \o (z \o r)
  <2>1. p \in Seq(T) /\ z \in Seq(T) /\ r \in Seq(T)
    BY <1>4, <1>7, <1>10
  <2> QED
    BY ONLY <2>1
<1>12. Remaining = (p \o z) \o r
  BY <1>4, <1>10, Zenon
<1>13. SubSeq(Remaining, 1, Len(p)) = p
  <2>1. SubSeq(p \o (z \o r), 1, Len(p)) = p
    BY ONLY <1>11, TakenApart
  <2> QED
    BY <2>1, <1>11, <1>12
<1>14. /\ SubSeq(Remaining, Len(p) + Len(z) + 1, Len(Remaining)) = r
       /\ Len(Remaining) = Len(p) + Len(z) + Len(r)
  <2>1. /\ SubSeq((p \o z) \o r, Len(p \o z) + 1, Len((p \o z) \o r)) = r
        /\ Len((p \o z) \o r) = Len(p \o z) + Len(r)
    BY ONLY <1>11, TakenApart
  <2>2. Len(p \o z) = Len(p) + Len(z)
    BY ONLY <1>11, TakenApart
  <2> QED
    BY <2>1, <2>2, <1>12
<1>15. /\ Len(p) \in 0..Len(Remaining)
       /\ Len(z) \in 0..(Len(Remaining) - Len(p))
  <2>1. Len(p) \in Nat /\ Len(z) \in Nat /\ Len(r) \in Nat
    BY <1>11, LenProperties
  <2> QED
    BY <2>1, <1>14
<1>16. Stream!Fail(Len(p), Len(z))
  <2>1. got' = got \o SubSeq(Remaining, 1, Len(p))
    BY <1>2, <1>13 DEF p
  <2>2. Remaining' = SubSeq(Remaining, Len(p) + Len(z) + 1, Len(Remaining))
    BY <1>14 DEF r
  <2> QED
    BY <2>1, <2>2, <1>3, <1>4 DEF Stream!Fail
<1> QED
  BY <1>15, <1>16 DEF Stream!Next

(* The steps of a call that takes no row: those of check_for_rows and of   *)
(* the constructor do not show, except where they end the call.            *)
LEMMA CallerInStream == ReaderInv /\ Caller => [Stream!Next]_(Stream!vars)
<1> SUFFICES ASSUME ReaderInv, Caller PROVE [Stream!Next]_(Stream!vars)
  OBVIOUS
<1>1. ReaderTyped /\ ChunkDone /\ RowsOfChunk
  BY DEF ReaderInv
<1> DEFINE T == DOMAIN file.rows
           Same == UNCHANGED <<file, policy, chunk, data, todo, got>>
<1>2. Same => Remaining' = Remaining /\ LastRows' = LastRows /\ got' = got
  BY RemainingStays
<1>3. Remaining \in Seq(T) /\ got \in Seq(T)
  BY <1>1, RemainingRows DEF ReaderTyped
<1>4. ASSUME Same, Status = "open", Status' = "error" PROVE Stream!Next
  <2> HIDE DEF T
  <2>1. Len(Remaining) \in Nat /\ 0 \in 0..Len(Remaining) /\ 0 \in 0..(Len(Remaining) - 0)
    BY <1>3, LenProperties
  <2>2. SubSeq(Remaining, 1, 0) = <<>> /\ got \o <<>> = got
    <3>1. SubSeq(Remaining, 1, 0) = <<>>
      BY SubSeqEmpty
    <3>2. got \o <<>> = got
      BY <1>3, ConcatEmptySeq
    <3> QED
      BY <3>1, <3>2
  <2>3. SubSeq(Remaining, 0 + 0 + 1, Len(Remaining)) = Remaining
    BY <1>3
  <2>4. Stream!Fail(0, 0)
    BY <1>2, <1>4, <2>2, <2>3 DEF Stream!Fail
  <2> QED
    BY <2>1, <2>4 DEF Stream!Next
<1>5. ASSUME Same, Status # "closed", Status' = "closed" PROVE Stream!Next
  BY <1>2, <1>5 DEF Stream!Next, Stream!Close
<1>6. ASSUME Same, Status' = Status PROVE UNCHANGED Stream!vars
  BY <1>6, QuietStep
<1>7. CASE Construct
  BY <1>7, <1>6 DEF Construct, dequeVars, fileVars, workVars, callVars, Status
<1>8. CASE Constructed
  BY <1>8, <1>5, <1>6 DEF Constructed, dequeVars, fileVars, Status
<1>9. CASE Call
  <2>1. Same /\ caller \in {"outside", "caught"} /\ caller' = "asks empty"
    BY <1>9 DEF Call, dequeVars, fileVars, workVars
  <2>2. CASE caller = "outside"
    BY <2>1, <2>2, <1>6 DEF Status
  <2>3. CASE caller = "caught"
    <3>1. Status = "error" /\ Status' = "open"
      BY <2>1, <2>3 DEF Status
    <3> QED
      BY <3>1, <2>1, <1>2 DEF Stream!Next, Stream!Resume
  <2> QED
    BY <2>1, <2>2, <2>3
<1>10. CASE AskEmpty
  BY <1>10, <1>6 DEF AskEmpty, dequeVars, fileVars, workVars, callVars, Status
<1>11. CASE AskWaitable
  BY <1>11, <1>6 DEF AskWaitable, dequeVars, fileVars, workVars, callVars, Status
<1>12. CASE Wait
  BY <1>12, <1>6 DEF Wait, FallAsleep, dequeVars, fileVars, workVars, callVars, Status
<1>13. CASE Rethrow
  BY <1>13, <1>4 DEF Rethrow, dequeVars, fileVars, Status
<1>14. CASE FindEof
  <2>1. /\ Same /\ caller = "joins" /\ Joinable /\ eof
        /\ caller' = IF out_size > 0 THEN "outside" ELSE "ended"
    BY <1>14 DEF FindEof, dequeVars, fileVars, workVars, callVars
  <2>2. CASE caller' = "outside"
    BY <2>1, <2>2, <1>6 DEF Status
  <2>3. CASE caller' = "ended"
    <3>1. chunk = Chunks /\ todo = <<>>
      BY <2>1, <1>1 DEF ChunkDone, Joinable
    <3>2. data \in Seq(T) /\ Later(chunk) = <<>>
      BY <3>1, <1>1, LaterShape DEF ReaderTyped
    <3>3. <<>> \o <<>> = <<>>
      OBVIOUS
    <3>4. data \o <<>> = data
      <4> HIDE DEF T
      <4> QED
        BY <3>2, ConcatEmptySeq
    <3>5. Remaining = Selected(data, Wanted)
      BY <3>1, <3>2, <3>3, <3>4 DEF Remaining
    <3>6. ToSet(Selected(data, Wanted)) = ToSet(data) \cap Wanted
      <4>1. data \in Seq(T)
        BY <3>2
      <4> HIDE DEF T
      <4> QED
        BY ONLY <4>1, SelectedElements
    <3>7. ToSet(data) \subseteq ToSet(RowsOf(chunk))
      <4>1. \A i \in DOMAIN data : data[i] \in ToSet(RowsOf(chunk))
        BY <2>1, <1>1 DEF RowsOfChunk
      <4> QED
        BY <4>1 DEF ToSet
    <3>8. ToSet(Remaining) \subseteq LastRows
      BY <3>1, <3>5, <3>6, <3>7 DEF LastRows
    <3>9. Stream!ToSet(Remaining) \subseteq LastRows
      BY <3>8 DEF ToSet, Stream!ToSet
    <3>10. Status = "open" /\ Status' = "end"
      BY <2>1, <2>3 DEF Status
    <3> QED
      BY <2>1, <1>2, <3>9, <3>10 DEF Stream!Next, Stream!End
  <2> QED
    BY <2>1, <2>2, <2>3
<1>15. CASE FindStuck
  BY <1>15, <1>4 DEF FindStuck, dequeVars, fileVars, workVars, Status
<1>16. CASE ReadOn
  <2>1. /\ caller = "joins" /\ caller' = "takes" /\ Joinable /\ ~eof
        /\ UNCHANGED <<file, policy, data, got>>
    BY <1>16 DEF ReadOn, NotifyAll, fileVars
  <2>2. CASE file.bad = chunk
    <3>1. UNCHANGED <<chunk, todo>>
      BY <1>16, <2>2 DEF ReadOn
    <3> QED
      BY <2>1, <3>1, <1>6 DEF Status
  <2>3. CASE file.bad # chunk
    <3>1. chunk' = chunk + 1 /\ todo' = RowsOf(chunk + 1)
      BY <1>16, <2>3 DEF ReadOn
    <3>2. todo = <<>> /\ chunk # Chunks
      BY <2>1, <2>3, <1>1 DEF ChunkDone, Joinable
    <3>3. Later(chunk) = RowsOf(chunk + 1) \o Later(chunk + 1) /\ Later(chunk) \in Seq(T)
      BY <3>2, <1>1, LaterShape DEF ReaderTyped
    <3>4. <<>> \o Later(chunk) = Later(chunk)
      <4> HIDE DEF T
      <4> QED
        BY <3>3, ConcatEmptySeq
    <3>5. /\ Wanted' = Wanted /\ LastRows' = LastRows /\ \A c : Later(c)' = Later(c)
      BY <2>1, WantedStays
    <3>6. Later(chunk)' = Later(chunk + 1)
      BY <2>1, <3>1 DEF Later
    <3>7. Remaining' = Remaining
      BY <2>1, <3>1, <3>2, <3>3, <3>4, <3>5, <3>6, Zenon DEF Remaining
    <3> QED
      BY <2>1, <3>5, <3>7 DEF Stream!vars, Status
  <2> QED
    BY <2>2, <2>3
<1>17. CASE FindNothing
  BY <1>17, <1>6 DEF FindNothing, dequeVars, fileVars, workVars, callVars, Status
<1>18. CASE TakeAndThrow
  BY <1>18, TakeAndThrowFails
<1>19. CASE Take
  BY <1>19, TakeDelivers
<1>20. CASE Close
  BY <1>20, <1>5 DEF Close, dequeVars, fileVars, workVars, callVars, Status
<1> QED
  BY <1>7, <1>8, <1>9, <1>10, <1>11, <1>12, <1>13, <1>14, <1>15, <1>16, <1>17, <1>18,
     <1>19, <1>20 DEF Caller

(* Every step of the two threads is a step of the stream or does not show. *)
LEMMA NextInStream == ReaderInv /\ [Next]_vars => [Stream!Next]_(Stream!vars)
<1>1. ReaderInv /\ Wake => UNCHANGED Stream!vars
  BY QuietStep DEF Wake, WakeUp, fileVars, workVars, callVars, Status
<1>2. UNCHANGED vars => UNCHANGED Stream!vars
  BY QuietStep DEF vars, dequeVars, fileVars, workVars, callVars, Status
<1> QED
  BY <1>1, <1>2, WorkerIsQuiet, CallerInStream DEF Next, Closed

(* The reader implements the stream: the caller gets the rows the policy   *)
(* accepts in the order of the file, none twice and none skipped, whatever *)
(* the threads' interleaving, the chunks, the policy and the batches; what *)
(* an error loses follows what was delivered, and an end announced early   *)
(* leaves rows of the last chunk only.                                     *)
THEOREM ReaderIsRowStream == Spec => IsRowStream
<1>1. Init => Stream!Init
  BY DEF Init, Stream!Init, Status
<1> QED
  BY <1>1, NextInStream, ReaderInvariance, PTL DEF Spec, IsRowStream, Stream!Spec

=============================================================================
