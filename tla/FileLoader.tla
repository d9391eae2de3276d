----------------------------- MODULE FileLoader -----------------------------
(***************************************************************************)
(* FileLoader of include/loader.hh: it reads a trace file in batches with  *)
(* pread, which may return less than it was asked for, fail, or find the   *)
(* file shorter than it was when the loader measured it.  Nothing is said  *)
(* of the contents: a byte is known by its offset in the file, and buffer  *)
(* tells which byte of the file every byte of buffer_ holds.               *)
(***************************************************************************)
EXTENDS Naturals

CONSTANTS
    EntrySize,    \* ENTRY_SIZE, the bytes of a TraceEntry
    BatchSize,    \* BATCH_SIZE, the bytes of buffer_
    MaxFileSize   \* bound on the length of the file

VARIABLES
    filesize,           \* measured by the constructor
    buffer,
    entries_in_buffer,
    cursor,
    file_offset,        \* where the next batch starts
    total_read,         \* the local variable of refill, 0 outside of it
    mode                \* "idle", "refill", or "thrown" once an exception left

vars == <<filesize, buffer, entries_in_buffer, cursor, file_offset, total_read, mode>>

Unread == MaxFileSize  \* no byte of the file, the content of a new buffer

(* The constructor; it throws if the file does not hold whole entries. *)
Init ==
    /\ filesize \in 0..MaxFileSize
    /\ buffer = [i \in 0..BatchSize - 1 |-> Unread]
    /\ entries_in_buffer = 0 /\ cursor = 0 /\ file_offset = 0 /\ total_read = 0
    /\ mode = IF filesize % EntrySize = 0 THEN "idle" ELSE "thrown"

\* Mutated done: the end of the file is missed by one.
doneLate == file_offset > filesize /\ cursor = entries_in_buffer

done == file_offset >= filesize /\ cursor = entries_in_buffer

bytes_to_read ==
    IF BatchSize < filesize - file_offset THEN BatchSize ELSE filesize - file_offset

(* get finds the buffer used up and calls refill. *)
BeginRefill ==
    /\ mode = "idle" /\ ~done /\ cursor >= entries_in_buffer
    /\ mode' = "refill"
    /\ UNCHANGED <<filesize, buffer, entries_in_buffer, cursor, file_offset, total_read>>

\* Mutated Pread: a short read is continued at the start of the buffer.
PreadToStart(n) ==
    /\ mode = "refill" /\ total_read < bytes_to_read
    /\ n \in 1..bytes_to_read - total_read
    /\ buffer' = [i \in DOMAIN buffer |->
                     IF i < n THEN file_offset + total_read + i ELSE buffer[i]]
    /\ total_read' = total_read + n
    /\ UNCHANGED <<filesize, entries_in_buffer, cursor, file_offset, mode>>

(* One turn of the loop of refill: pread of the rest, at the offset of the *)
(* rest, to the place of the rest, returns n bytes.                        *)
Pread(n) ==
    /\ mode = "refill" /\ total_read < bytes_to_read
    /\ n \in 1..bytes_to_read - total_read
    /\ buffer' = [i \in DOMAIN buffer |->
                     IF i \in total_read..total_read + n - 1
                     THEN file_offset + i ELSE buffer[i]]
    /\ total_read' = total_read + n
    /\ UNCHANGED <<filesize, entries_in_buffer, cursor, file_offset, mode>>

(* pread returns an error, EINTR being one, or nothing. *)
PreadFails ==
    /\ mode = "refill" /\ total_read < bytes_to_read
    /\ mode' = "thrown" /\ total_read' = 0
    /\ UNCHANGED <<filesize, buffer, entries_in_buffer, cursor, file_offset>>

EndRefill ==
    /\ mode = "refill" /\ total_read >= bytes_to_read
    /\ entries_in_buffer' = bytes_to_read \div EntrySize
    /\ file_offset' = file_offset + total_read
    /\ cursor' = 0 /\ total_read' = 0
    /\ mode' = "idle"
    /\ UNCHANGED <<filesize, buffer>>

(* get returns buffer_[cursor_]; its bytes are Entry. *)
Entry == [j \in 0..EntrySize - 1 |-> buffer[cursor * EntrySize + j]]

(* The case of get in which it returns an entry without calling refill. *)
CanGet == mode = "idle" /\ ~done /\ cursor < entries_in_buffer

Get ==
    /\ CanGet
    /\ cursor' = cursor + 1
    /\ UNCHANGED <<filesize, buffer, entries_in_buffer, file_offset, total_read, mode>>

Reads == BeginRefill \/ (\E n \in 1..BatchSize : Pread(n)) \/ EndRefill

-----------------------------------------------------------------------------
TypeOK ==
    /\ {filesize, file_offset} \subseteq 0..MaxFileSize
    /\ buffer \in [0..BatchSize - 1 -> 0..MaxFileSize]
    /\ {entries_in_buffer, cursor} \subseteq 0..BatchSize \div EntrySize
    /\ total_read \in 0..BatchSize
    /\ mode \in {"idle", "refill", "thrown"}
=============================================================================
