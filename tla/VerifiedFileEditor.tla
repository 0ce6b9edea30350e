------------------------- MODULE VerifiedFileEditor -------------------------
(***************************************************************************)
(* The writable files of authfs: VerifiedFileEditor of                     *)
(* authfs/src/fsverity/editor.rs over a RemoteFileEditor, whose backing    *)
(* file fd_server keeps on the other side of a binder connection.          *)
(*                                                                         *)
(* Threads call write_at and resize.  write_at splits its buffer along the *)
(* chunk boundaries and takes the lock of the tree anew for every piece;   *)
(* under the lock it computes the new hash, writes the piece remotely in   *)
(* one or more calls, and only then records the hash.  A remote call named *)
(* in Faults may fail, and a failed call may still have taken effect, in   *)
(* part or as a whole.                                                     *)
(*                                                                         *)
(* The backing file is what its readers see: file[i] is chunk i, with zero *)
(* bytes past the end, as both a sparse file and the zeroed read buffers   *)
(* of the code have it.                                                    *)
(***************************************************************************)
EXTENDS MerkleLeaves

CONSTANTS Threads,    \* callers of the editor
          NoThread,   \* the lock is free
          Chunks,     \* chunk indices that fit the model: bounds the file
          Buffers,    \* buffers that may be written: bounds the input
          Offsets,    \* offsets that may be written at
          Sizes,      \* sizes the file may be resized to
          Faults      \* the remote calls that may fail

ASSUME EditorAssumption ==
    /\ NoThread \notin Threads
    /\ Chunks \subseteq Nat
    /\ Buffers \subseteq Seq(Byte)
    /\ Offsets \subseteq Nat
    /\ Sizes \subseteq Nat
    /\ Faults \subseteq {"read", "write", "resize"}

VARIABLES
    leaves,      \* merkle_tree.leaves
    file_size,   \* merkle_tree.file_size
    lock,        \* the thread that holds the RwLock for writing
    file,        \* the backing file, by chunk
    file_len,    \* its length
    pc,          \* idle, iter (between two pieces) or io (in write_all_at)
    op,          \* the write_at in progress
    suspect      \* history: chunks whose last change was not acknowledged

tree == <<leaves, file_size>>
remote == <<file, file_len>>
vars == <<leaves, file_size, lock, file, file_len, pc, op, suspect>>

NoOp == [buf |-> <<>>, offset |-> 0, pos |-> 0, wrote |-> 0,
         hash |-> HASH_OF_4096_ZEROS]

Op == [buf : Seq(Byte), offset : Nat, pos : Nat, wrote : Nat, hash : Hash]

Init ==
    /\ leaves = <<>>
    /\ file_size = 0
    /\ lock = NoThread
    /\ file = [i \in Chunks |-> ZeroChunk]
    /\ file_len = 0
    /\ pc = [t \in Threads |-> "idle"]
    /\ op = [t \in Threads |-> NoOp]
    /\ suspect = {}

-----------------------------------------------------------------------------
(* The piece of its buffer that the write o is at: ChunkedSizeIter. *)

output_offset(o) == o.offset + o.pos

output_chunk_index(o) == output_offset(o) \div CHUNK_SIZE

offset_from_alignment(o) == output_offset(o) % CHUNK_SIZE

current_size(o) == Smaller(Len(o.buf) - o.pos, CHUNK_SIZE - offset_from_alignment(o))

IsComplete(o) == current_size(o) = CHUNK_SIZE

\* chunk with the bytes first .. last - 1 of the piece put in their places.
Patched(chunk, o, first, last) ==
    LET start == offset_from_alignment(o)
    IN  [p \in Pos |-> IF start + first <= p /\ p < start + last
                       THEN o.buf[o.pos + (p - start) + 1]
                       ELSE chunk[p]]

\* Mutant: takes the rest of a chunk for zeros instead of reading it back.
OrigDataZero(t) == ZeroChunk

\* What new_hash_for_incomplete_write starts from.
OrigData(t) ==
    IF is_index_valid(leaves, output_chunk_index(op[t]))
    THEN file[output_chunk_index(op[t])]
    ELSE ZeroChunk

\* A complete piece covers the chunk, so that nothing of OrigData is left.
new_chunk_hash(t) == Sha256(Patched(OrigData(t), op[t], 0, current_size(op[t])))

\* A piece that leaves part of a known chunk alone is read back and verified.
ReadsBack(t) == ~IsComplete(op[t]) /\ is_index_valid(leaves, output_chunk_index(op[t]))

ReadBackConsistent(t) ==
    is_consistent(leaves, output_chunk_index(op[t]), Sha256(file[output_chunk_index(op[t])]))

\* The file's length once its chunk index holds pos bytes.
LenReaching(index, pos) == Larger(file_len, index * CHUNK_SIZE + pos)

Return(t) ==
    /\ pc' = [pc EXCEPT ![t] = "idle"]
    /\ op' = [op EXCEPT ![t] = NoOp]

-----------------------------------------------------------------------------
(* write_at *)

WriteBegin(t, buf, offset) ==
    /\ pc[t] = "idle"
    /\ \A o \in offset .. offset + Len(buf) - 1 : o \div CHUNK_SIZE \in Chunks
    /\ pc' = [pc EXCEPT ![t] = "iter"]
    /\ op' = [op EXCEPT ![t] = [NoOp EXCEPT !.buf = buf, !.offset = offset]]
    /\ UNCHANGED <<tree, lock, remote, suspect>>

\* Take the lock and compute the hash of the chunk as it will be.
ChunkBegin(t) ==
    /\ pc[t] = "iter"
    /\ op[t].pos < Len(op[t].buf)
    /\ lock = NoThread
    /\ ReadsBack(t) => ReadBackConsistent(t)
    /\ lock' = t
    /\ pc' = [pc EXCEPT ![t] = "io"]
    /\ op' = [op EXCEPT ![t].hash = new_chunk_hash(t)]
    /\ UNCHANGED <<tree, remote, suspect>>

\* The read-back fails or does not match: write_at returns, with the number of
\* bytes written by the earlier pieces if there are any.
ChunkRefused(t) ==
    /\ pc[t] = "iter"
    /\ op[t].pos < Len(op[t].buf)
    /\ lock = NoThread
    /\ ReadsBack(t)
    /\ "read" \in Faults \/ ~ReadBackConsistent(t)
    /\ Return(t)
    /\ UNCHANGED <<tree, lock, remote, suspect>>

\* One call of writeFile stores the next n bytes of the piece.
RemoteWrite(t, n) ==
    /\ pc[t] = "io"
    /\ op[t].wrote + n <= current_size(op[t])
    /\ file' = [file EXCEPT ![output_chunk_index(op[t])] =
                    Patched(@, op[t], op[t].wrote, op[t].wrote + n)]
    /\ file_len' = LenReaching(output_chunk_index(op[t]),
                               offset_from_alignment(op[t]) + op[t].wrote + n)
    /\ op' = [op EXCEPT ![t].wrote = @ + n]
    /\ UNCHANGED <<tree, lock, pc, suspect>>

\* writeFile reports an error after n bytes of the rest were stored all the same:
\* the error is propagated and the tree keeps the old hash.
RemoteWriteFails(t, n) ==
    /\ "write" \in Faults
    /\ pc[t] = "io"
    /\ op[t].wrote < current_size(op[t])
    /\ op[t].wrote + n <= current_size(op[t])
    /\ file' = [file EXCEPT ![output_chunk_index(op[t])] =
                    Patched(@, op[t], op[t].wrote, op[t].wrote + n)]
    /\ file_len' = IF op[t].wrote + n = 0 THEN file_len
                   ELSE LenReaching(output_chunk_index(op[t]),
                                    offset_from_alignment(op[t]) + op[t].wrote + n)
    /\ suspect' = suspect \cup {output_chunk_index(op[t])}
    /\ lock' = NoThread
    /\ Return(t)
    /\ UNCHANGED tree

\* update_hash after the last remote write, and the lock's release.  The size
\* announced is that of the whole buffer, whichever piece this is.
ChunkCommit(t) ==
    LET index == output_chunk_index(op[t])
    IN  /\ pc[t] = "io"
        /\ op[t].wrote = current_size(op[t])
        /\ leaves' = update_hash(leaves, index, op[t].hash)
        /\ file_size' = update_size(file_size, op[t].offset + Len(op[t].buf))
        /\ lock' = NoThread
        /\ pc' = [pc EXCEPT ![t] = "iter"]
        /\ op' = [op EXCEPT ![t] = [NoOp EXCEPT !.buf = op[t].buf,
                                                !.offset = op[t].offset,
                                                !.pos = op[t].pos + current_size(op[t])]]
        /\ suspect' = IF IsComplete(op[t]) \/ is_index_valid(leaves, index)
                      THEN suspect \ {index}
                      ELSE suspect
        /\ UNCHANGED remote

WriteReturn(t) ==
    /\ pc[t] = "iter"
    /\ op[t].pos = Len(op[t].buf)
    /\ Return(t)
    /\ UNCHANGED <<tree, lock, remote, suspect>>

-----------------------------------------------------------------------------
(* resize: one critical section, with one remote read and one remote resize. *)

Cut(chunk, n) == [p \in Pos |-> IF p < n THEN chunk[p] ELSE 0]

\* A truncation inside a chunk gives that chunk a new hash.
CutsTail(size) == size < file_size /\ size % CHUNK_SIZE > 0

\* Mutant: keeps the hash of the whole tail chunk.
LeavesForResizeUncut(size) == leaves

\* The leaves when the remote file is about to be resized.
LeavesForResize(size) ==
    IF CutsTail(size)
    THEN update_hash(leaves, size \div CHUNK_SIZE,
                     Sha256(Cut(file[size \div CHUNK_SIZE], size % CHUNK_SIZE)))
    ELSE leaves

ResizedFile(size) ==
    [i \in Chunks |-> Cut(file[i], IF i < size \div CHUNK_SIZE THEN CHUNK_SIZE
                                   ELSE IF i = size \div CHUNK_SIZE THEN size % CHUNK_SIZE
                                   ELSE 0)]

ResizeEnter(t, size) ==
    /\ pc[t] = "idle"
    /\ lock = NoThread
    /\ \A i \in 0 .. divide_roundup(size, CHUNK_SIZE) - 1 : i \in Chunks

Resize(t, size) ==
    /\ ResizeEnter(t, size)
    /\ leaves' = resize(LeavesForResize(size), size)
    /\ file_size' = size
    /\ file' = ResizedFile(size)
    /\ file_len' = size
    /\ suspect' = {i \in suspect : i < divide_roundup(size, CHUNK_SIZE)}
                     \ (IF CutsTail(size) THEN {size \div CHUNK_SIZE} ELSE {})
    /\ UNCHANGED <<lock, pc, op>>

\* The remote resize reports an error, and took effect or not.
ResizeFails(t, size) ==
    /\ "resize" \in Faults
    /\ ResizeEnter(t, size)
    /\ leaves' = LeavesForResize(size)
    /\ \/ UNCHANGED remote
       \/ file' = ResizedFile(size) /\ file_len' = size
    /\ suspect' = suspect \cup {i \in Chunks : i >= size \div CHUNK_SIZE}
    /\ UNCHANGED <<file_size, lock, pc, op>>

-----------------------------------------------------------------------------
Step(t) ==
    \/ \E buf \in Buffers, offset \in Offsets : WriteBegin(t, buf, offset)
    \/ ChunkBegin(t)
    \/ ChunkRefused(t)
    \/ \E n \in 1 .. CHUNK_SIZE : RemoteWrite(t, n)
    \/ \E n \in 0 .. CHUNK_SIZE : RemoteWriteFails(t, n)
    \/ ChunkCommit(t)
    \/ WriteReturn(t)
    \/ \E size \in Sizes : Resize(t, size)
    \/ \E size \in Sizes : ResizeFails(t, size)

Next == \E t \in Threads : Step(t)

Spec == Init /\ [][Next]_vars

-----------------------------------------------------------------------------
(* Properties *)

\* The types of the tree, of the backing file and of the writes in progress: in
\* particular the leaves are a vector without gaps of hashes of whole chunks
\* (MerkleLeaves, builder.rs:32-35).
TypeOK ==
    /\ leaves \in Seq(Hash)
    /\ file_size \in Nat
    /\ lock \in Threads \cup {NoThread}
    /\ file \in [Chunks -> Chunk]
    /\ file_len \in Nat
    /\ pc \in [Threads -> {"idle", "iter", "io"}]
    /\ op \in [Threads -> Op]
    /\ suspect \subseteq Chunks

\* Chunk i reads back as the tree has it: equal to its leaf, or zero when there
\* is none yet (a later write fills in leaves of zero chunks up to its own).
Verifies(i) ==
    IF is_index_valid(leaves, i)
    THEN leaves[i + 1] = Sha256(file[i])
    ELSE file[i] = ZeroChunk

\* Whatever the interleaving of writes and resizes, of holes, growth and
\* truncation, a chunk whose remote changes were all acknowledged verifies
\* against the tree unless it is being written at the moment (write_at,
\* editor.rs:204-215, and resize, editor.rs:229-251).
AcknowledgedChunksVerify ==
    \A i \in Chunks \ suspect :
        (\A t \in Threads : pc[t] = "io" => output_chunk_index(op[t]) # i) => Verifies(i)

\* No leaf lies past file_size and no leaf covers a byte other than zero past
\* it, so that the digest of leaves and size describes one file and growing the
\* file exposes zeros only (update_hash and resize of builder.rs).
TreeWithinSize ==
    \A i \in 0 .. Len(leaves) - 1 :
        /\ i * CHUNK_SIZE < file_size
        /\ \A p \in Pos : leaves[i + 1].sha256[p] # 0 => i * CHUNK_SIZE + p < file_size

NoFaults == Faults = {}
AllIdle == \A t \in Threads : pc[t] = "idle"

\* With a backend that answers every call, a file that nobody is writing has the
\* size that the tree has, and one leaf for every chunk of it, even when its
\* writes and resizes overlapped piece by piece (write_at announces the size of
\* the whole buffer with its first piece, editor.rs:214-215).
QuietSizesAgree ==
    NoFaults /\ AllIdle =>
        /\ file_size = file_len
        /\ Len(leaves) = divide_roundup(file_size, CHUNK_SIZE)

\* The bytes that the tree vouches for.
TreeContent ==
    [i \in Chunks |-> IF is_index_valid(leaves, i) THEN leaves[i + 1].sha256 ELSE ZeroChunk]

\* The calls of write_at, and how much of each the tree has.
Writing == {t \in Threads : pc[t] # "idle"}
Calls == [t \in Threads |-> [buf |-> op[t].buf, offset |-> op[t].offset, done |-> op[t].pos]]

Abstract == INSTANCE IntegrityFile
    WITH content <- TreeContent, size <- file_size, writing <- Writing, call <- Calls

\* With a backend that answers every call, the tree goes through the states of a
\* plain file: it only ever takes on the bytes of a write_at in progress, at their
\* offsets and in their order, or the cut of a resize, however calls overlap, and
\* a write_at returns only with all of its bytes in the tree (editor.rs:78,
\* "provides an integrity layer to an underlying read-writable file").
ImplementsIntegrityFile == Abstract!Spec

-----------------------------------------------------------------------------
(* What a comment of the code says, and the code does not keep.            *)

\* editor.rs:224-226 on truncation: "we need to read the data back first, verify
\* it, then override the truncated portion".  So truncation changes no byte of
\* the tree's content below the new size.
TruncationVerifiesTail ==
    [][file_size' < file_size =>
         \A i \in Chunks, p \in Pos :
            i * CHUNK_SIZE + p < file_size' => TreeContent'[i][p] = TreeContent[i][p]]_vars
=============================================================================
