---------------------------- MODULE RunnerProofs ----------------------------
(***************************************************************************)
(* Proofs about run_loader for every pool, every policy that keeps the     *)
(* contract, every length of file, every number of entries to a batch, and *)
(* every way in which pread may split or fail its reads.                   *)
(***************************************************************************)
EXTENDS Runner, PoolContractProofs

(* The loader counts bytes, the runner entries: the entries accessed so    *)
(* far are those before file_offset that are not left in the buffer.       *)
FileTyped ==
    /\ filesize \in 0..MaxFileSize
    /\ trace \in [1..filesize \div EntrySize -> Pages]
    /\ mode \in {"idle", "refill", "thrown"}
    /\ mode # "thrown" => filesize = EntrySize * (filesize \div EntrySize)

LoaderTyped ==
    /\ buffer \in [0..BatchSize - 1 -> 0..MaxFileSize]
    /\ cursor \in Nat /\ entries_in_buffer \in Nat
    /\ cursor <= entries_in_buffer /\ EntrySize * entries_in_buffer <= BatchSize
    /\ total_read \in Nat
    /\ file_offset \in Nat /\ file_offset <= filesize

OffsetCounts ==
    /\ file_offset = EntrySize * (stats.accesses + (entries_in_buffer - cursor))
    /\ stats.accesses \in Nat

(* Between two calls of refill the buffer holds the bytes of the file that *)
(* end at file_offset; during refill, those that start there.              *)
BufferHolds ==
    /\ mode # "refill" => total_read = 0
    /\ mode = "idle" =>
          /\ \A i \in 0..EntrySize * entries_in_buffer - 1 :
                buffer[i] = file_offset - EntrySize * entries_in_buffer + i
    /\ mode = "refill" =>
          /\ cursor = entries_in_buffer /\ file_offset < filesize
          /\ total_read <= Loader!bytes_to_read
          /\ \A i \in 0..total_read - 1 : buffer[i] = file_offset + i

LoaderInv == FileTyped /\ LoaderTyped /\ OffsetCounts /\ BufferHolds

(* Every page in the pool was requested, and every page requested was      *)
(* missed.                                                                 *)
Seen == {trace[i] : i \in 1..stats.accesses}

Balance ==
    /\ stats \in [accesses : Nat, hits : Nat, misses : Nat, evictions : Nat]
    /\ stats.hits + stats.misses = stats.accesses
    /\ stats.misses = stats.evictions + Cardinality(Resident)
    /\ stats.accesses <= filesize \div EntrySize
    /\ Resident \subseteq Seen
    /\ stats.misses >= Cardinality(Seen)

RunInv == IInv /\ LoaderInv /\ Balance

-----------------------------------------------------------------------------
(* Arithmetic of a product with the size of an entry. *)
LEMMA ProductOrder ==
    ASSUME NEW m \in Nat, NEW n \in Nat
    PROVE  /\ EntrySize * m <= EntrySize * n <=> m <= n
           /\ EntrySize * m \in Nat
           /\ m < n => EntrySize * m + EntrySize <= EntrySize * n
<1> USE SizesAssumption
<1>1. ASSUME m < n PROVE EntrySize * m + EntrySize <= EntrySize * n
  <2>1. PICK d \in Nat : n = m + 1 + d
    BY <1>1
  <2>2. EntrySize * n = EntrySize * m + EntrySize + EntrySize * d
    BY <2>1
  <2>3. EntrySize * d >= 0
    OBVIOUS
  <2> QED
    BY <2>2, <2>3
<1>2. EntrySize * m \in Nat
  OBVIOUS
<1>3. ASSUME n < m PROVE EntrySize * n < EntrySize * m
  <2>1. PICK d \in Nat : m = n + 1 + d
    BY <1>3
  <2>2. EntrySize * m = EntrySize * n + EntrySize + EntrySize * d
    BY <2>1
  <2>3. EntrySize * d >= 0
    OBVIOUS
  <2> QED
    BY <2>2, <2>3
<1>4. EntrySize * n \in Nat
  OBVIOUS
<1> QED
  BY <1>1, <1>2, <1>3, <1>4

(* The entry whose bytes start at an offset.                               *)
LEMMA EntryOfOffset ==
    ASSUME NEW n \in Nat
    PROVE  (EntrySize * n) \div EntrySize = n
<1> USE SizesAssumption
<1>1. EntrySize * n = EntrySize * n + 0 /\ 0 < EntrySize
  OBVIOUS
<1> QED
  BY <1>1

(* A batch is a whole number of entries.                                   *)
LEMMA WholeBatches == BatchSize = EntrySize * (BatchSize \div EntrySize)
BY SizesAssumption

-----------------------------------------------------------------------------
(* A new run has read nothing.                                             *)
LEMMA InitRunInv == RunInit => RunInv
<1> SUFFICES ASSUME RunInit PROVE RunInv
  OBVIOUS
<1> USE SizesAssumption DEF RunInit, Loader!Init
<1>1. IInv
  BY InitIInv
<1>2. Resident = {} /\ Cardinality(Resident) = 0
  BY FS_EmptySet DEF Init, PoolInit, Resident
<1>3. filesize % EntrySize = 0 => filesize = EntrySize * (filesize \div EntrySize)
  OBVIOUS
<1>4. filesize \div EntrySize \in Nat
  OBVIOUS
<1>5. FileTyped
  BY <1>3 DEF FileTyped
<1>6. LoaderTyped
  BY DEF LoaderTyped, Loader!Unread
<1>7. OffsetCounts /\ BufferHolds
  BY DEF OffsetCounts, BufferHolds
<1>8. Seen = {}
  BY DEF Seen
<1>9. Balance
  BY <1>2, <1>4, <1>8, FS_EmptySet DEF Balance
<1> QED
  BY <1>1, <1>5, <1>6, <1>7, <1>9 DEF RunInv, LoaderInv

-----------------------------------------------------------------------------
(* The entry get returns is the one after those accessed. *)
LEMMA EntryIsNext ==
    ASSUME RunInv, Loader!CanGet
    PROVE  /\ stats.accesses + 1 \in 1..filesize \div EntrySize
           /\ \A j \in 0..EntrySize - 1 :
                 Loader!Entry[j] = stats.accesses * EntrySize + j
           /\ Requested = trace[stats.accesses + 1]
           /\ Requested \in Pages
<1> USE SizesAssumption DEF RunInv, LoaderInv
<1> DEFINE left == entries_in_buffer - cursor
<1>1. /\ mode = "idle" /\ cursor < entries_in_buffer /\ stats.accesses \in Nat
      /\ left \in Nat \ {0}
  BY DEF Loader!CanGet, OffsetCounts, LoaderTyped
<1>2. EntrySize * cursor + EntrySize <= EntrySize * entries_in_buffer
  BY <1>1, ProductOrder DEF LoaderTyped
<1>3. file_offset - EntrySize * entries_in_buffer + EntrySize * cursor
          = stats.accesses * EntrySize
  <2>1. file_offset = EntrySize * (stats.accesses + left)
    BY DEF OffsetCounts
  <2>2. entries_in_buffer = cursor + left /\ cursor \in Nat /\ EntrySize \in Nat
    BY <1>1 DEF LoaderTyped
  <2> HIDE DEF left
  <2> QED
    BY ONLY <1>1, <2>1, <2>2
<1>4. ASSUME NEW j \in 0..EntrySize - 1
      PROVE  Loader!Entry[j] = stats.accesses * EntrySize + j
  <2>1. /\ cursor * EntrySize + j \in 0..EntrySize * entries_in_buffer - 1
        /\ cursor * EntrySize = EntrySize * cursor
    BY <1>2 DEF LoaderTyped
  <2>2. buffer[cursor * EntrySize + j] =
           file_offset - EntrySize * entries_in_buffer + (cursor * EntrySize + j)
    BY <1>1, <2>1 DEF BufferHolds
  <2>3. Loader!Entry[j] = buffer[cursor * EntrySize + j]
    BY DEF Loader!Entry
  <2>4. /\ file_offset \in Nat /\ EntrySize * entries_in_buffer \in Nat
        /\ EntrySize * cursor \in Nat /\ j \in Nat
    BY <1>1, ProductOrder DEF LoaderTyped
  <2> HIDE DEF RunInv
  <2> QED
    BY <1>3, <2>1, <2>2, <2>3, <2>4
<1>5. filesize = EntrySize * (filesize \div EntrySize) /\ filesize \div EntrySize \in Nat
  BY <1>1 DEF FileTyped
<1>6. EntrySize * (stats.accesses + left) <= EntrySize * (filesize \div EntrySize)
  BY <1>1, <1>5 DEF OffsetCounts, LoaderTyped
<1>7. stats.accesses + left <= filesize \div EntrySize
  BY <1>1, <1>5, <1>6, ProductOrder
<1>8. stats.accesses + 1 \in 1..filesize \div EntrySize
  BY <1>1, <1>5, <1>7
<1>9. Loader!Entry[0] \div EntrySize = stats.accesses
  <2>1. Loader!Entry[0] = stats.accesses * EntrySize + 0
    BY <1>4
  <2>2. stats.accesses * EntrySize + 0 = EntrySize * stats.accesses
    BY <1>1
  <2> QED
    BY <1>1, <2>1, <2>2, EntryOfOffset
<1> QED
  BY <1>4, <1>8, <1>9 DEF Requested, FileTyped

(* What a call of get_page does to the set of resident pages. *)
LEMMA GetPageEffect ==
    ASSUME IInv, NEW p \in Pages, GetPage(p)
    PROVE  \/ p \in Resident /\ Resident' = Resident
           \/ p \notin Resident /\ Resident' = Resident \cup {p} /\ used # Frames
           \/ /\ p \notin Resident /\ used = Frames
              /\ \E v \in Resident : Resident' = (Resident \ {v}) \cup {p}
<1>1. CASE MissFree(p)
  BY <1>1, AdmitEffect DEF MissFree
<1>2. CASE MissEvict(p)
  <2>1. PICK f \in Frames : Admit(p, f, {f}) /\ used = Frames
    BY <1>2 DEF MissEvict
  <2>2. page_id[f] \in Resident
    BY <2>1 DEF IInv, UsedIsMapped
  <2>3. p \notin Resident /\ Resident' = (Resident \ {page_id[g] : g \in {f}}) \cup {p}
    BY <2>1, AdmitEffect
  <2> QED
    BY <2>1, <2>2, <2>3
<1>3. CASE Hit(p)
  BY <1>3 DEF Hit, Found, Resident
<1> QED
  BY <1>1, <1>2, <1>3 DEF GetPage

(* The pool is full exactly when every frame was handed out. *)
LEMMA FullIsUsed ==
    ASSUME IInv
    PROVE  Cardinality(Resident) = Capacity <=> used = Frames
<1>1. IsFiniteSet(Frames) /\ Cardinality(Frames) = Capacity
  BY FS_Interval, CapacityAssumption DEF Frames
<1>2. used \in SUBSET Frames
  BY DEF IInv, TypeOK
<1> QED
  BY <1>1, <1>2, SameCardinality, FS_Subset

(* What access counts is what get_page does. *)
LEMMA AccessCounts ==
    ASSUME IInv, NEW p \in Pages, GetPage(p)
    PROVE  /\ Cardinality(Resident) \in Nat /\ Cardinality(Resident') \in Nat
           /\ Cardinality(Resident \ Resident') = IF IsEviction(p) THEN 1 ELSE 0
           /\ Cardinality(Resident' \ Resident) = IF IsHit(p) THEN 0 ELSE 1
           /\ Cardinality(Resident') = Cardinality(Resident)
                  + (IF IsHit(p) THEN 0 ELSE 1) - (IF IsEviction(p) THEN 1 ELSE 0)
<1>1. IsFiniteSet(Resident) /\ Cardinality(Resident) \in Nat
  BY SameCardinality, FS_CardinalityType
<1>2. CASE p \in Resident /\ Resident' = Resident
  <2>1. Resident' \ Resident = {} /\ Resident \ Resident' = {}
    BY <1>2
  <2>2. IsHit(p) /\ ~IsEviction(p)
    BY <1>2 DEF IsHit, IsEviction
  <2> QED
    BY <1>1, <1>2, <2>1, <2>2, FS_EmptySet
<1>3. CASE p \notin Resident /\ Resident' = Resident \cup {p} /\ used # Frames
  <2>1. Resident' \ Resident = {p} /\ Resident \ Resident' = {}
    BY <1>3
  <2>2. Cardinality(Resident') = Cardinality(Resident) + 1
    BY <1>1, <1>3, FS_AddElement
  <2>3. ~IsHit(p) /\ ~IsEviction(p)
    BY <1>3, FullIsUsed DEF IsHit, IsEviction
  <2>4. Cardinality(Resident \ Resident') = 0 /\ Cardinality(Resident' \ Resident) = 1
    BY <2>1, FS_EmptySet, FS_Singleton
  <2> QED
    BY <1>1, <2>2, <2>3, <2>4
<1>4. ASSUME p \notin Resident, used = Frames,
             NEW v \in Resident, Resident' = (Resident \ {v}) \cup {p}
      PROVE  /\ Resident' \ Resident = {p} /\ Resident \ Resident' = {v}
             /\ Cardinality(Resident') = Cardinality(Resident)
  <2>1. Resident' \ Resident = {p} /\ Resident \ Resident' = {v}
    BY <1>4
  <2>2. /\ IsFiniteSet(Resident \ {v})
        /\ Cardinality(Resident \ {v}) = Cardinality(Resident) - 1
    BY <1>1, FS_RemoveElement
  <2>3. Cardinality(Resident') = Cardinality(Resident) - 1 + 1
    BY <1>4, <2>2, FS_AddElement
  <2> QED
    BY <1>1, <2>1, <2>3
<1>5. CASE /\ p \notin Resident /\ used = Frames
           /\ \E v \in Resident : Resident' = (Resident \ {v}) \cup {p}
  <2>1. ~IsHit(p) /\ IsEviction(p)
    BY <1>5, FullIsUsed DEF IsHit, IsEviction
  <2>2. PICK v \in Resident : Resident' = (Resident \ {v}) \cup {p}
    BY <1>5
  <2>3. /\ Resident' \ Resident = {p} /\ Resident \ Resident' = {v}
        /\ Cardinality(Resident') = Cardinality(Resident)
    BY <1>4, <1>5, <2>2
  <2>4. Cardinality({p}) = 1 /\ Cardinality({v}) = 1
    BY FS_Singleton
  <2> QED
    BY <1>1, <2>1, <2>3, <2>4
<1> QED
  BY <1>2, <1>3, <1>5, GetPageEffect

-----------------------------------------------------------------------------
(* The steps of the loader leave the pool and the counters alone. *)
LEMMA PoolUntouched ==
    ASSUME RunInv, UNCHANGED <<vars, trace, stats, filesize>>
    PROVE  IInv' /\ Balance'
<1>1. IInv'
  BY NextIInv DEF RunInv
<1>2. UNCHANGED <<Resident, Seen>>
  BY DEF vars, poolVars, Resident, Seen
<1> QED
  BY <1>1, <1>2 DEF RunInv, Balance

(* get calls refill only when the buffer is used up and the file is not. *)
LEMMA BeginRefillInv ==
    ASSUME RunInv, Loader!BeginRefill, UNCHANGED <<vars, trace, stats>>
    PROVE  RunInv'
<1> USE DEF Loader!BeginRefill, Loader!done
<1>1. IInv' /\ Balance'
  BY PoolUntouched
<1>2. FileTyped' /\ LoaderTyped' /\ OffsetCounts'
  BY DEF RunInv, LoaderInv, FileTyped, LoaderTyped, OffsetCounts
<1>3. cursor = entries_in_buffer /\ file_offset < filesize
  BY DEF RunInv, LoaderInv, FileTyped, LoaderTyped
<1>4. total_read = 0 /\ Loader!bytes_to_read \in Nat
  BY <1>3, SizesAssumption
     DEF RunInv, LoaderInv, BufferHolds, LoaderTyped, FileTyped, Loader!bytes_to_read
<1>5. Loader!bytes_to_read' = Loader!bytes_to_read
  BY DEF Loader!bytes_to_read
<1>6. BufferHolds'
  BY <1>3, <1>4, <1>5 DEF BufferHolds
<1> QED
  BY <1>1, <1>2, <1>6 DEF RunInv, LoaderInv

(* A short read extends the part of the buffer that was filled. *)
LEMMA PreadInv ==
    ASSUME RunInv, NEW n \in 1..BatchSize, Loader!Pread(n), UNCHANGED <<vars, trace, stats>>
    PROVE  RunInv'
<1> USE DEF Loader!Pread
<1>1. IInv' /\ Balance'
  BY PoolUntouched
<1>2. /\ file_offset \in Nat /\ filesize \in Nat /\ filesize <= MaxFileSize
      /\ total_read \in Nat /\ file_offset < filesize
  BY SizesAssumption DEF RunInv, LoaderInv, BufferHolds, LoaderTyped, FileTyped
<1>3. /\ Loader!bytes_to_read \in Nat /\ Loader!bytes_to_read <= BatchSize
      /\ file_offset + Loader!bytes_to_read <= filesize
  BY <1>2, SizesAssumption DEF Loader!bytes_to_read
<1>4. /\ n \in Nat /\ total_read' = total_read + n
      /\ total_read + n <= Loader!bytes_to_read
  BY <1>2, <1>3
<1>5. DOMAIN buffer = 0..BatchSize - 1
  BY DEF RunInv, LoaderInv, LoaderTyped
<1>6. \A i \in 0..BatchSize - 1 : buffer'[i] =
          IF i \in total_read..total_read + n - 1 THEN file_offset + i ELSE buffer[i]
  BY <1>5
<1>7. buffer' \in [0..BatchSize - 1 -> 0..MaxFileSize]
  <2>1. \A i \in 0..BatchSize - 1 : buffer'[i] \in 0..MaxFileSize
    BY <1>2, <1>3, <1>4, <1>6, SizesAssumption DEF RunInv, LoaderInv, LoaderTyped
  <2>2. buffer' = [i \in 0..BatchSize - 1 |-> buffer'[i]]
    BY <1>5
  <2> QED
    BY <2>1, <2>2
<1>8. FileTyped' /\ LoaderTyped' /\ OffsetCounts'
  BY <1>2, <1>4, <1>7 DEF RunInv, LoaderInv, FileTyped, LoaderTyped, OffsetCounts
<1>9. Loader!bytes_to_read' = Loader!bytes_to_read
  BY DEF Loader!bytes_to_read
<1>10. \A i \in 0..total_read' - 1 : buffer'[i] = file_offset + i
  BY <1>2, <1>3, <1>4, <1>6, SizesAssumption DEF RunInv, LoaderInv, BufferHolds
<1>11. BufferHolds'
  BY <1>4, <1>9, <1>10 DEF BufferHolds, RunInv, LoaderInv
<1> QED
  BY <1>1, <1>8, <1>11 DEF RunInv, LoaderInv

(* At the end of refill the buffer holds whole entries. *)
LEMMA EndRefillInv ==
    ASSUME RunInv, Loader!EndRefill, UNCHANGED <<vars, trace, stats>>
    PROVE  RunInv'
<1> USE DEF Loader!EndRefill
<1> DEFINE fetched == Loader!bytes_to_read \div EntrySize
           whole == filesize \div EntrySize
<1>1. IInv' /\ Balance'
  BY PoolUntouched
<1>2. /\ file_offset \in Nat /\ filesize \in Nat /\ filesize <= MaxFileSize
      /\ total_read \in Nat /\ file_offset < filesize /\ cursor = entries_in_buffer
      /\ stats.accesses \in Nat /\ entries_in_buffer \in Nat
      /\ total_read <= Loader!bytes_to_read /\ total_read >= Loader!bytes_to_read
  BY SizesAssumption DEF RunInv, LoaderInv, BufferHolds, LoaderTyped, FileTyped, OffsetCounts
<1>3. /\ Loader!bytes_to_read \in Nat /\ Loader!bytes_to_read <= BatchSize
      /\ file_offset + Loader!bytes_to_read <= filesize
      /\ Loader!bytes_to_read = BatchSize \/ Loader!bytes_to_read = filesize - file_offset
  BY <1>2, SizesAssumption DEF Loader!bytes_to_read
<1>4. file_offset = EntrySize * stats.accesses
  BY <1>2 DEF RunInv, LoaderInv, OffsetCounts
<1>5. filesize = EntrySize * whole /\ whole \in Nat
  BY <1>2, SizesAssumption DEF RunInv, LoaderInv, FileTyped
<1>6. \E m \in Nat : Loader!bytes_to_read = EntrySize * m
  <2>1. CASE Loader!bytes_to_read = BatchSize
    BY <2>1, WholeBatches, SizesAssumption
  <2>2. CASE Loader!bytes_to_read = filesize - file_offset
    <3>1. stats.accesses <= whole
      BY <1>2, <1>4, <1>5, ProductOrder
    <3>2. EntrySize * (whole - stats.accesses) = filesize - file_offset
      BY <1>2, <1>4, <1>5, SizesAssumption
    <3> QED
      BY <1>2, <1>5, <2>2, <3>1, <3>2
  <2> QED
    BY <1>3, <2>1, <2>2
<1>7. Loader!bytes_to_read = EntrySize * fetched /\ fetched \in Nat
  BY <1>6, EntryOfOffset
<1>8. entries_in_buffer' = fetched /\ cursor' = 0 /\ total_read' = 0
      /\ file_offset' = file_offset + EntrySize * fetched /\ mode' = "idle"
      /\ total_read = EntrySize * fetched
  BY <1>2, <1>3, <1>7
<1> HIDE DEF fetched
<1>9. FileTyped' /\ LoaderTyped'
  <2>1. file_offset' \in Nat /\ file_offset' <= filesize /\ EntrySize * fetched <= BatchSize
    BY <1>2, <1>3, <1>7, <1>8
  <2> QED
    BY <1>7, <1>8, <2>1 DEF RunInv, LoaderInv, FileTyped, LoaderTyped
<1>10. OffsetCounts'
  <2>1. file_offset + EntrySize * fetched = EntrySize * (stats.accesses + (fetched - 0))
    BY <1>2, <1>4, <1>7, SizesAssumption
  <2> QED
    BY <1>2, <1>8, <2>1 DEF OffsetCounts
<1>11. \A i \in 0..EntrySize * fetched - 1 : buffer[i] = file_offset + i
  BY <1>2, <1>8 DEF RunInv, LoaderInv, BufferHolds
<1>12. BufferHolds'
  <2>1. file_offset' - EntrySize * fetched = file_offset
    BY <1>2, <1>3, <1>7, <1>8
  <2> QED
    BY <1>8, <1>11, <2>1 DEF BufferHolds
<1> QED
  BY <1>1, <1>9, <1>10, <1>12 DEF RunInv, LoaderInv

(* A read that fails ends the run.                                         *)
LEMMA FailInv ==
    ASSUME RunInv, Fail
    PROVE  RunInv'
<1> USE DEF Fail, Loader!PreadFails
<1>1. IInv' /\ Balance'
  BY PoolUntouched
<1> QED
  BY <1>1 DEF RunInv, LoaderInv, FileTyped, LoaderTyped, OffsetCounts, BufferHolds

(* A turn of the loop returns one entry, accesses its page and counts it. *)
LEMMA StepInv ==
    ASSUME RunInv, Step
    PROVE  RunInv'
<1> USE DEF Step, Loader!Get
<1>1. Requested \in Pages /\ Requested = trace[stats.accesses + 1]
      /\ stats.accesses + 1 <= filesize \div EntrySize
  BY EntryIsNext
<1>2. IInv /\ IInv'
  BY <1>1, NextIInv DEF RunInv, Next
<1>3. LoaderInv'
  <2>1. /\ stats.accesses' = stats.accesses + 1 /\ cursor' = cursor + 1
        /\ cursor < entries_in_buffer /\ stats.accesses \in Nat
    BY DEF Recorded, Loader!CanGet, RunInv, LoaderInv, OffsetCounts
  <2>2. stats.accesses' + (entries_in_buffer - cursor')
            = stats.accesses + (entries_in_buffer - cursor)
    BY <2>1 DEF RunInv, LoaderInv, LoaderTyped
  <2>3. FileTyped' /\ LoaderTyped'
    BY <2>1 DEF RunInv, LoaderInv, FileTyped, LoaderTyped
  <2>4. OffsetCounts'
    BY <2>1, <2>2 DEF RunInv, LoaderInv, OffsetCounts
  <2>5. BufferHolds'
    BY DEF RunInv, LoaderInv, BufferHolds, Loader!CanGet
  <2> QED
    BY <2>3, <2>4, <2>5 DEF LoaderInv
<1> DEFINE p == Requested
<1>4. Seen' = Seen \cup {p}
  <2>1. stats.accesses \in Nat /\ stats'.accesses = stats.accesses + 1 /\ trace' = trace
    BY DEF Recorded, RunInv, Balance
  <2>2. 1..(stats.accesses + 1) = 1..stats.accesses \cup {stats.accesses + 1}
    BY <2>1
  <2> QED
    BY <1>1, <2>1, <2>2 DEF Seen
<1>5. IsFiniteSet(Seen)
  <2>1. stats.accesses \in Nat
    BY DEF RunInv, Balance
  <2>2. IsFiniteSet(1..stats.accesses)
    BY <2>1, FS_Interval
  <2>3. [i \in 1..stats.accesses |-> trace[i]] \in Surjection(1..stats.accesses, Seen)
    BY DEF Surjection, Seen
  <2> QED
    BY <2>2, <2>3, FS_Surjection
<1>6. Cardinality(Seen') <= Cardinality(Seen) + (IF IsHit(p) THEN 0 ELSE 1)
      /\ Cardinality(Seen') \in Nat /\ Cardinality(Seen) \in Nat
  <2>1. Cardinality(Seen) \in Nat /\ Cardinality(Seen') \in Nat
    BY <1>4, <1>5, FS_AddElement, FS_CardinalityType
  <2>2. IsHit(p) => Seen' = Seen
    BY <1>4 DEF IsHit, RunInv, Balance
  <2>3. Cardinality(Seen') <= Cardinality(Seen) + 1
    BY <1>4, <1>5, <2>1, FS_AddElement
  <2> QED
    BY <2>1, <2>2, <2>3
<1>7. Resident' \subseteq Seen'
  BY <1>1, <1>2, <1>4, GetPageEffect DEF RunInv, Balance
<1>8. Balance'
  <2>1. stats \in [accesses : Nat, hits : Nat, misses : Nat, evictions : Nat]
    BY DEF RunInv, Balance
  <2>2. /\ stats'.accesses = stats.accesses + 1
        /\ stats'.hits = stats.hits + (IF IsHit(p) THEN 1 ELSE 0)
        /\ stats'.misses = stats.misses + (IF IsHit(p) THEN 0 ELSE 1)
        /\ stats'.evictions = stats.evictions + (IF IsEviction(p) THEN 1 ELSE 0)
        /\ stats' \in [accesses : Nat, hits : Nat, misses : Nat, evictions : Nat]
    BY <2>1 DEF Recorded
  <2>3. /\ Cardinality(Resident) \in Nat /\ Cardinality(Resident') \in Nat
        /\ Cardinality(Resident') = Cardinality(Resident)
               + (IF IsHit(p) THEN 0 ELSE 1) - (IF IsEviction(p) THEN 1 ELSE 0)
    BY <1>1, <1>2, AccessCounts
  <2>4. stats'.hits + stats'.misses = stats'.accesses
    BY <2>1, <2>2 DEF RunInv, Balance
  <2>5. stats'.misses = stats'.evictions + Cardinality(Resident')
    BY <2>1, <2>2, <2>3 DEF RunInv, Balance
  <2>6. stats'.misses >= Cardinality(Seen')
    BY <1>6, <2>1, <2>2 DEF RunInv, Balance
  <2>7. stats'.accesses <= filesize' \div EntrySize
    BY <1>1, <2>2
  <2> QED
    BY <1>7, <2>2, <2>4, <2>5, <2>6, <2>7 DEF Balance
<1> QED
  BY <1>2, <1>3, <1>8 DEF RunInv

-----------------------------------------------------------------------------
(* Every step of run_loader keeps the invariant.                           *)
LEMMA NextRunInv == RunInv /\ [RunNext]_runVars => RunInv'
<1> SUFFICES ASSUME RunInv, [RunNext]_runVars PROVE RunInv'
  OBVIOUS
<1>1. CASE Step
  BY <1>1, StepInv
<1>2. CASE Load
  BY <1>2, BeginRefillInv, PreadInv, EndRefillInv DEF Load, Loader!Reads
<1>3. CASE Fail
  BY <1>3, FailInv
<1>4. ASSUME UNCHANGED runVars PROVE RunInv'
  <2>1. UNCHANGED <<vars, trace, stats, filesize>>
    BY <1>4 DEF runVars, loaderVars
  <2>2. IInv' /\ Balance'
    BY <2>1, PoolUntouched
  <2>3. LoaderInv'
    BY <1>4 DEF runVars, loaderVars, RunInv, LoaderInv, FileTyped, LoaderTyped,
                OffsetCounts, BufferHolds, Loader!bytes_to_read
  <2> QED
    BY <2>2, <2>3 DEF RunInv
<1> QED
  BY <1>1, <1>2, <1>3, <1>4 DEF RunNext, Ended

(* The invariant of run_loader, its loader and its pool holds in every     *)
(* state.                                                                  *)
THEOREM RunInvariance == RunSpec => []RunInv
<1>1. RunInit => RunInv
  BY InitRunInv
<1>2. RunInv /\ [RunNext]_runVars => RunInv'
  BY NextRunInv
<1> QED
  BY <1>1, <1>2, PTL DEF RunSpec

-----------------------------------------------------------------------------
(* The counters balance with the pages in the pool and with the entries    *)
(* read, however the file is cut into batches and reads: hits and misses   *)
(* add up, what was missed was evicted or is resident, every page that was *)
(* requested was missed once, and run_loader returns after the last entry. *)
THEOREM StatisticsBalance == RunSpec => []Consistent
<1>1. RunInv => Consistent
  <2> SUFFICES ASSUME RunInv PROVE Consistent
    OBVIOUS
  <2> DEFINE whole == filesize \div EntrySize
  <2>1. /\ filesize \in Nat /\ filesize <= MaxFileSize
        /\ file_offset \in Nat /\ file_offset <= filesize
    BY SizesAssumption DEF RunInv, LoaderInv, FileTyped, LoaderTyped
  <2>2. whole \in Nat
    BY <2>1, SizesAssumption
  <2>3. Len(trace) = whole /\ trace \in Seq(Pages)
    BY <2>2 DEF RunInv, LoaderInv, FileTyped
  <2>4. Cardinality(Resident) \in Nat
    BY SameCardinality, FS_CardinalityType DEF RunInv
  <2>5. stats \in [accesses : 0..Len(trace), hits : 0..Len(trace),
                   misses : 0..Len(trace), evictions : 0..Len(trace)]
    BY <2>3, <2>4 DEF RunInv, Balance
  <2>6. total_read \in 0..BatchSize
    <3>1. Loader!bytes_to_read \in Nat /\ Loader!bytes_to_read <= BatchSize
      BY <2>1, SizesAssumption DEF Loader!bytes_to_read
    <3> QED
      BY <3>1, SizesAssumption DEF RunInv, LoaderInv, LoaderTyped, FileTyped, BufferHolds
  <2>7. entries_in_buffer <= BatchSize \div EntrySize /\ BatchSize \div EntrySize \in Nat
    <3>1. BatchSize \div EntrySize \in Nat
      BY SizesAssumption
    <3>2. EntrySize * entries_in_buffer <= EntrySize * (BatchSize \div EntrySize)
      BY WholeBatches DEF RunInv, LoaderInv, LoaderTyped
    <3> QED
      BY <3>1, <3>2, ProductOrder DEF RunInv, LoaderInv, LoaderTyped
  <2>8. Loader!TypeOK
    <3>1. {entries_in_buffer, cursor} \subseteq 0..BatchSize \div EntrySize
      BY <2>7 DEF RunInv, LoaderInv, LoaderTyped
    <3>2. {filesize, file_offset} \subseteq 0..MaxFileSize
      BY <2>1, SizesAssumption
    <3> QED
      BY <2>6, <3>1, <3>2 DEF Loader!TypeOK, RunInv, LoaderInv, LoaderTyped, FileTyped
  <2>9. RunTypeOK
    BY <2>3, <2>5, <2>8 DEF RunTypeOK, RunInv, IInv
  <2>10. ASSUME Returned PROVE stats.accesses = Len(trace)
    <3>1. /\ mode = "idle" /\ file_offset >= filesize /\ cursor = entries_in_buffer
          /\ stats.accesses \in Nat
      BY <2>10 DEF Returned, Loader!done, RunInv, Balance
    <3>2. EntrySize * stats.accesses = EntrySize * whole
      BY <2>1, <3>1 DEF RunInv, LoaderInv, LoaderTyped, FileTyped, OffsetCounts
    <3> QED
      BY <2>2, <2>3, <3>1, <3>2, ProductOrder
  <2>11. StatsBalance
    BY <2>10 DEF StatsBalance, RunInv, Balance, Seen
  <2> QED
    BY <2>9, <2>11 DEF Consistent
<1> QED
  BY <1>1, RunInvariance, PTL

(* However pread splits the reads and wherever a batch ends, get returns   *)
(* the entries of the file in their order, none twice and none skipped.    *)
THEOREM EntriesComeInOrder == RunSpec => []EntriesInOrder
<1>1. RunInv => EntriesInOrder
  BY EntryIsNext DEF EntriesInOrder
<1> QED
  BY <1>1, RunInvariance, PTL

(* The hit and the eviction that access decides on before it calls         *)
(* get_page are the ones that get_page makes.                              *)
THEOREM PredictionsHold == RunSpec => PredictionsComeTrue
<1> DEFINE Predicted ==
       /\ Cardinality(Resident \ Resident') = stats'.evictions - stats.evictions
       /\ Cardinality(Resident' \ Resident) = stats'.misses - stats.misses
<1>1. ASSUME RunInv, [RunNext]_runVars PROVE [Predicted]_runVars
  <2>1. CASE Step
    <3> DEFINE p == Requested
    <3>1. /\ p \in Pages /\ IInv /\ GetPage(p)
          /\ stats \in [accesses : Nat, hits : Nat, misses : Nat, evictions : Nat]
      BY <1>1, <2>1, EntryIsNext DEF Step, Loader!Get, RunInv, Balance
    <3>2. /\ stats'.misses = stats.misses + (IF IsHit(p) THEN 0 ELSE 1)
          /\ stats'.evictions = stats.evictions + (IF IsEviction(p) THEN 1 ELSE 0)
      BY <2>1 DEF Step, Recorded
    <3>3. /\ Cardinality(Resident \ Resident') = IF IsEviction(p) THEN 1 ELSE 0
          /\ Cardinality(Resident' \ Resident) = IF IsHit(p) THEN 0 ELSE 1
      BY <3>1, AccessCounts
    <3> HIDE DEF p
    <3> QED
      BY <3>1, <3>2, <3>3
  <2>2. CASE Load \/ Fail
    <3>1. /\ Resident \ Resident' = {} /\ Resident' \ Resident = {} /\ stats' = stats
          /\ stats \in [accesses : Nat, hits : Nat, misses : Nat, evictions : Nat]
      BY <1>1, <2>2 DEF Load, Fail, vars, poolVars, Resident, RunInv, Balance
    <3> QED
      BY <3>1, FS_EmptySet
  <2> QED
    BY <1>1, <2>1, <2>2 DEF RunNext, Ended
<1> QED
  BY <1>1, RunInvariance, PTL DEF RunSpec, PredictionsComeTrue

-----------------------------------------------------------------------------
(* run_loader uses the pool as the contract allows, so that what was       *)
(* proved of the pool holds of the pool of a run.                          *)
THEOREM RunUsesPool == RunSpec => Spec
<1>1. RunInit => Init
  BY DEF RunInit
<1>2. ASSUME RunInv, [RunNext]_runVars PROVE [Next]_vars
  <2>1. CASE Step
    BY <1>2, <2>1, EntryIsNext DEF Step, Loader!Get, Next
  <2> QED
    BY <1>2, <2>1 DEF RunNext, Load, Fail, Ended, runVars
<1> QED
  BY <1>1, <1>2, RunInvariance, PTL DEF RunSpec, Spec

(* A resident page is in the frame that carries its number, throughout a   *)
(* run.                                                                    *)
COROLLARY RunLookupCorrect == RunSpec => []LookupCorrect
BY RunUsesPool, LookupIsCorrect, PTL

(* Throughout a run the pool holds no more pages than frames.              *)
COROLLARY RunCapacityRespected == RunSpec => []CapacityRespected
BY RunUsesPool, CapacityHolds, PTL

(* Throughout a run evictions are single and only of a full pool, and a    *)
(* resident page stays in its frame.                                       *)
COROLLARY RunPagesKept == RunSpec => PagesKept
BY RunUsesPool, PagesAreKept, PTL
=============================================================================
