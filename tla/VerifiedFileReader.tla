------------------------- MODULE VerifiedFileReader -------------------------
(***************************************************************************)
(* The read path of a verified read-only file of authfs: fusefs::read and  *)
(* read_chunks over VerifiedFileReader (authfs/src/fsverity/verifier.rs),   *)
(* whose file and stored Merkle tree fd_server serves remotely.            *)
(*                                                                         *)
(* Every chunk and every page of the tree is a remote call of its own.  In *)
(* between, the files on the other side may be replaced by those of another *)
(* version, truncated, or put together from parts of several versions: a   *)
(* reply is the prefix of a chunk or of a page of any version.  The reader *)
(* keeps the root hash of the first page that it was given, and the size of *)
(* the file that it was told.                                              *)
(***************************************************************************)
EXTENDS FsverityTree

CONSTANTS Versions,     \* contents that the remote file may have had
          Requests,     \* pairs <<offset, size>> that the kernel asks for
          should_allow  \* what FakeAuthenticator answers

ASSUME ReaderAssumption ==
    /\ Versions \subseteq Seq(Byte)
    /\ Requests \subseteq Nat \X Nat

VARIABLES
    pc,            \* new, ready, chunk (reading a chunk), walk (verifying it), failed
    file_size,     \* of the VerifiedFileReader, from the command line of authfs
    root_hash,     \* of the VerifiedFileReader
    req,           \* the read_chunks in progress
    buf,           \* the chunk in hand, as long as the reply was
    step,          \* how far the walk has come
    actual_hash,   \* of the chunk or of the page last read
    result,        \* of the last read, until the next one
    pinned,        \* history: the version whose root page was read first
    faithful       \* history: every reply to the last read was what pinned has there

vars == <<pc, file_size, root_hash, req, buf, step, actual_hash, result, pinned, faithful>>

\* size bytes from offset on are to be read, of which data is there.
NoReq == [offset |-> 0, size |-> 0, data |-> <<>>]
Ok(offset, size, data) == [ok |-> TRUE, offset |-> offset, size |-> size, data |-> data]
NoResult == Ok(0, 0, <<>>)
Err == [ok |-> FALSE, offset |-> 0, size |-> 0, data |-> <<>>]

Init ==
    /\ pc = "new"
    /\ \E v \in Versions : file_size = Len(v)
    /\ root_hash = ZERO_HASH
    /\ req = NoReq
    /\ buf = <<>>
    /\ step = 0
    /\ actual_hash = ZERO_HASH
    /\ result = NoResult
    /\ pinned = <<>>
    /\ faithful = TRUE

-----------------------------------------------------------------------------
(* External: what is stored on the other side. *)

ChunkCount(v) == divide_roundup(Len(v), CHUNK_SIZE)

StoredChunk(v, index) ==
    SubSeq(v, index * CHUNK_SIZE + 1, Smaller((index + 1) * CHUNK_SIZE, Len(v)))

\* A byte string in a zeroed buffer of a whole chunk.
Padded(bytes) == [p \in Pos |-> IF p < Len(bytes) THEN bytes[p + 1] ELSE 0]

ChunkHashes(v) == [i \in 1 .. ChunkCount(v) |-> Sha256(Padded(StoredChunk(v, i - 1)))]

Stored == [v \in Versions |-> StoredTree(ChunkHashes(v))]

\* The first n hashes of a page in a zeroed buffer.
PaddedPage(page, n) ==
    [slot \in 1 .. HASHES_PER_NODE |-> IF slot <= n THEN page[slot] ELSE ZERO_HASH]

-----------------------------------------------------------------------------
(* VerifiedFileReader::new: one remote call for the root page. *)

\* The page is complete and the authenticator accepts the digest, which covers the
\* size: a version of another size has another digest.
NewReader(v) ==
    /\ pc = "new"
    /\ Len(v) = file_size
    /\ Stored[v] # <<>>
    /\ should_allow
    /\ root_hash' = Sha256(Stored[v][1])
    /\ pinned' = v
    /\ pc' = "ready"
    /\ UNCHANGED <<file_size, req, buf, step, actual_hash, result, faithful>>

\* InsufficientData, a failed call or BadSignature: authfs does not come up.
NewReaderFails ==
    /\ pc = "new"
    /\ pc' = "failed"
    /\ UNCHANGED <<file_size, root_hash, req, buf, step, actual_hash, result, pinned, faithful>>

-----------------------------------------------------------------------------
(* read_chunks *)

current_offset == req.offset + Len(req.data)

planned_data_size ==
    Smaller(req.size - Len(req.data), CHUNK_SIZE - (current_offset % CHUNK_SIZE))

chunk_index == current_offset \div CHUNK_SIZE

\* Mutant: reads on past the end of the file.
size_to_read_unbounded(offset, size) == size

\* file_size.saturating_sub(offset), and no more than asked for.
size_to_read(offset, size) == Smaller(size, Larger(file_size - offset, 0))

Return(r) ==
    /\ result' = r
    /\ req' = NoReq
    /\ buf' = <<>>
    /\ step' = 0
    /\ actual_hash' = ZERO_HASH
    /\ pc' = "ready"

Read(offset, size) ==
    /\ pc = "ready"
    /\ IF size_to_read(offset, size) = 0
       THEN Return(Ok(offset, 0, <<>>))
       ELSE /\ req' = [offset |-> offset, size |-> size_to_read(offset, size), data |-> <<>>]
            /\ pc' = "chunk"
            /\ result' = NoResult
            /\ UNCHANGED <<buf, step, actual_hash>>
    /\ faithful' = TRUE
    /\ UNCHANGED <<file_size, root_hash, pinned>>

\* remote_read_chunk: the reply is the first n bytes of the chunk of version v.
ChunkReply(v, n) ==
    /\ pc = "chunk"
    /\ n <= Len(StoredChunk(v, chunk_index))
    /\ buf' = SubSeq(StoredChunk(v, chunk_index), 1, n)
    /\ actual_hash' = Sha256(Padded(buf'))
    /\ step' = 1
    /\ pc' = "walk"
    /\ faithful' = (faithful /\ buf' = StoredChunk(pinned, chunk_index))
    /\ UNCHANGED <<file_size, root_hash, req, result, pinned>>

Walk == fsverity_walk(chunk_index, file_size)

\* What is left of the read once the chunk in hand is verified: a short chunk is
\* refused, a part of the zeroed buffer is delivered otherwise.
Deliver ==
    LET begin == current_offset % CHUNK_SIZE
        data == req.data \o [k \in 1 .. planned_data_size |-> Padded(buf)[begin + k - 1]]
    IN  IF Len(buf) < planned_data_size THEN Return(Err)
        ELSE IF Len(data) = req.size THEN Return(Ok(req.offset, req.size, data))
        ELSE /\ req' = [req EXCEPT !.data = data]
             /\ pc' = "chunk"
             /\ buf' = <<>>
             /\ step' = 0
             /\ actual_hash' = ZERO_HASH
             /\ UNCHANGED result

\* Mutant: trusts the tree that it is given and never looks at the root hash.
VerifiedRootless(page) ==
    IF step < Len(Walk)
    THEN /\ actual_hash' = Sha256(page)
         /\ step' = step + 1
         /\ UNCHANGED <<pc, req, buf, result>>
    ELSE Deliver

\* verity_check after a page that holds the hash in hand, and, after the root
\* page, read_chunk's comparison with the root hash.
Verified(page) ==
    IF step < Len(Walk)
    THEN /\ actual_hash' = Sha256(page)
         /\ step' = step + 1
         /\ UNCHANGED <<pc, req, buf, result>>
    ELSE IF Sha256(page) = root_hash THEN Deliver ELSE Return(Err)

\* The reply is the first n hashes of page i of version v.
PageReply(v, i, n) ==
    LET page == PaddedPage(Stored[v][i], n)
    IN  /\ pc = "walk"
        /\ IF page[Walk[step].slot] = actual_hash THEN Verified(page) ELSE Return(Err)
        /\ faithful' = (faithful /\ page = Stored[pinned][Walk[step].page + 1])
        /\ UNCHANGED <<file_size, root_hash, pinned>>

\* A remote call fails.
CallFails ==
    /\ pc \in {"chunk", "walk"}
    /\ Return(Err)
    /\ faithful' = FALSE
    /\ UNCHANGED <<file_size, root_hash, pinned>>

-----------------------------------------------------------------------------
Next ==
    \/ \E v \in Versions : NewReader(v)
    \/ NewReaderFails
    \/ \E r \in Requests : Read(r[1], r[2])
    \/ \E v \in Versions, n \in 0 .. CHUNK_SIZE : ChunkReply(v, n)
    \/ \E v \in Versions, n \in 0 .. HASHES_PER_NODE :
          \E i \in DOMAIN Stored[v] : PageReply(v, i, n)
    \/ CallFails

Spec == Init /\ [][Next]_vars

-----------------------------------------------------------------------------
(* Properties *)

\* The types of the reader's state: a read in progress stays within the file,
\* and the walk within the tree (read, fusefs.rs:276-306, and verity_check).
TypeOK ==
    /\ pc \in {"new", "ready", "chunk", "walk", "failed"}
    /\ file_size \in Nat
    /\ req \in [offset : Nat, size : Nat, data : Seq(Byte)]
    /\ req.offset + req.size <= file_size
    /\ pc \in {"chunk", "walk"} <=> Len(req.data) < req.size
    /\ buf \in Seq(Byte) /\ Len(buf) <= CHUNK_SIZE
    /\ step \in IF pc = "walk" THEN 1 .. Len(Walk) ELSE {0}
    /\ result \in [ok : BOOLEAN, offset : Nat, size : Nat, data : Seq(Byte)]
    /\ pinned \in Versions \cup {<<>>}

\* Whatever mixture of versions, short replies and failures the remote calls
\* bring, a read that succeeds delivers all the bytes that it was asked for, of
\* the one version whose root page was read at the start (verity_check,
\* read_chunk and read_chunks).
DeliversPinnedVersion ==
    result.ok => result.data = SubSeq(pinned, result.offset + 1, result.offset + result.size)

\* A read fails only if some reply differed from the pinned version: the walk
\* that the reader takes climbs the stored tree from the slot of the chunk's leaf
\* to the root page, for every chunk of every request and for trees of every
\* height (fsverity_walk and ChunkedSizeIter).
FaithfulRepliesSucceed == pc = "ready" /\ faithful => result.ok

\* What MerkleLeaves answers when it has the chunks of a version.
BuilderDigests == [v \in Versions |-> calculate_fsverity_digest(ChunkHashes(v), Len(v))]

\* For a file of several chunks, the digest by which the reader knows the version
\* that it serves is the one that MerkleLeaves calculates for the same chunks,
\* whatever their number: calculate_root_hash folds the levels of the stored tree
\* and never ends in InvalidState (builder.rs:26 promises "the standard fs-verity
\* digest").
DigestsAgree ==
    pc \in {"ready", "chunk", "walk"} /\ file_size > CHUNK_SIZE =>
        build_fsverity_digest(root_hash, file_size) = BuilderDigests[pinned]
=============================================================================
