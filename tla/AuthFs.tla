------------------------------- MODULE AuthFs -------------------------------
(***************************************************************************)
(* The FUSE requests on a writable file of authfs (authfs/src/fusefs.rs):  *)
(* write goes to the editor, setattr resizes it and may then refuse, read  *)
(* takes the size from the editor and the data, chunk by chunk, straight   *)
(* from fd_server.                                                         *)
(*                                                                         *)
(* The writers are the threads of VerifiedFileEditor, whose steps are part *)
(* of this module's.  The readers take the editor's lock for the size only *)
(* and hold none while they fetch the chunks, so writes and resizes happen *)
(* in between.  A resize is still one step: it makes one remote change,    *)
(* and what it does to the tree afterwards no reader sees before the lock  *)
(* is free again.                                                          *)
(*                                                                         *)
(* The kernel reads through its page cache (open answers KEEP_CACHE), so   *)
(* that a read starts at a multiple of CHUNK_SIZE.                         *)
(***************************************************************************)
EXTENDS VerifiedFileEditor

CONSTANTS Readers,      \* threads that serve reads
          ReadSizes     \* how much the kernel asks for

\* The model's chunks are the first ones of a file.
ASSUME ReadersAssumption ==
    /\ ReadSizes \subseteq Nat
    /\ \A i \in Chunks : 0 .. i \subseteq Chunks

VARIABLES reading     \* per reader: the read in progress, or the last one

authfs_vars == <<vars, reading>>

\* want is size_to_read, got what was written to the reply, quiet a history:
\* no write or resize was under way since the read began.
NoRead == [pc |-> "idle", offset |-> 0, want |-> 0, got |-> <<>>, quiet |-> TRUE]

FsInit == Init /\ reading = [r \in Readers |-> NoRead]

-----------------------------------------------------------------------------
\* FileSystem::read and read_chunks.

EditorBusy == \E t \in Threads : pc[t] # "idle"

\* editor.size() takes the lock; the size is not looked at again.
ReadBegin(r, offset, size) ==
    /\ reading[r].pc = "idle"
    /\ lock = NoThread
    /\ reading' = [reading EXCEPT ![r] =
                      [pc |-> "chunks", offset |-> offset, got |-> <<>>, quiet |-> ~EditorBusy,
                       want |-> Smaller(size, Larger(file_size - offset, 0))]]
    /\ UNCHANGED vars

current_offset(r) == reading[r].offset + Len(reading[r].got)

planned_data_size(r) ==
    Smaller(reading[r].want - Len(reading[r].got),
            CHUNK_SIZE - (current_offset(r) % CHUNK_SIZE))

\* How much of a chunk readFile returns: read_into_buf stops at the end of file.
read_size(index) == Smaller(CHUNK_SIZE, Larger(file_len - index * CHUNK_SIZE, 0))

chunk_index(r) == current_offset(r) \div CHUNK_SIZE

\* Mutant: takes a chunk that has just what is needed for too short.
EnoughDataStrict(r) == read_size(chunk_index(r)) > planned_data_size(r)

EnoughData(r) == read_size(chunk_index(r)) >= planned_data_size(r)

Fetching(r) == reading[r].pc = "chunks" /\ Len(reading[r].got) < reading[r].want

ReadChunk(r) ==
    LET begin == current_offset(r) % CHUNK_SIZE
    IN  /\ Fetching(r)
        /\ EnoughData(r)
        /\ reading' = [reading EXCEPT ![r].got =
                          @ \o [k \in 1 .. planned_data_size(r) |->
                                  file[chunk_index(r)][begin + k - 1]]]
        /\ UNCHANGED vars

\* readFile fails, or there is less than planned: ENODATA.
ReadFails(r) ==
    /\ Fetching(r)
    /\ "read" \in Faults \/ ~EnoughData(r)
    /\ reading' = [reading EXCEPT ![r] = [NoRead EXCEPT !.pc = "failed",
                                                       !.quiet = reading[r].quiet]]
    /\ UNCHANGED vars

ReadReply(r) ==
    /\ reading[r].pc = "failed" \/ (reading[r].pc = "chunks" /\ ~Fetching(r))
    /\ reading' = [reading EXCEPT ![r] = NoRead]
    /\ UNCHANGED vars

-----------------------------------------------------------------------------
ReaderStep(r) ==
    \/ \E offset \in {i * CHUNK_SIZE : i \in Chunks}, size \in ReadSizes : ReadBegin(r, offset, size)
    \/ ReadChunk(r)
    \/ ReadFails(r)
    \/ ReadReply(r)

\* A write or a resize, which no read notices.
EditorStep ==
    /\ Next
    /\ reading' = [r \in Readers |->
                      [reading[r] EXCEPT !.quiet = @ /\ reading[r].pc # "chunks"]]

FsNext == EditorStep \/ \E r \in Readers : ReaderStep(r)

FsSpec == FsInit /\ [][FsNext]_authfs_vars

-----------------------------------------------------------------------------
(* Properties *)

\* The byte that the tree has at an offset.
TreeByte(offset) == TreeContent[offset \div CHUNK_SIZE][offset % CHUNK_SIZE]

\* What a read got so far is what the tree has there.
GotTreeBytes(r) ==
    \A k \in 1 .. Len(reading[r].got) : reading[r].got[k] = TreeByte(reading[r].offset + k - 1)

\* With a backend that answers every call, a read that no write and no resize
\* overlaps succeeds, and returns what the tree has, although it looks at
\* nothing but the backing file (read_chunks, fusefs.rs:142-174, with
\* editor.size() and the unverified read_chunk of editor.rs:255-259).
QuietReadsReturnTree ==
    \A r \in Readers : NoFaults /\ reading[r].quiet =>
        /\ reading[r].pc # "failed"
        /\ reading[r].pc = "chunks" => GotTreeBytes(r)

=============================================================================
