---------------------------- MODULE AuthFsProofs ----------------------------
(***************************************************************************)
(* What holds of a writable file of authfs with a backend that answers     *)
(* every call, for every chunk size, number of writers and readers, and    *)
(* file: the editor implements IntegrityFile, its sizes agree whenever     *)
(* nobody writes, and reads return what the tree covers.                   *)
(***************************************************************************)
EXTENDS AuthFs, VerifiedFileEditorProofs

(***************************************************************************)
(* The editor with a backend that answers every call.                      *)
(***************************************************************************)

\* The hash in hand is that of the tree's own chunk with the piece put in.
HashFromTree(o) ==
    o.hash = Sha256(Patched(TreeContent[output_chunk_index(o)], o, 0, current_size(o)))

\* What the refinement needs beyond IInv.
RInv ==
    /\ suspect = {}
    /\ \A t \in Threads : pc[t] = "io" => HashFromTree(op[t])

-----------------------------------------------------------------------------
(* The tree's content. *)

\* Where a chunk verifies, the tree has what the file has.
LEMMA ContentOfVerified ==
    ASSUME IInv, NEW i \in Chunks, Verifies(i)
    PROVE  TreeContent[i] = file[i]
BY DEF TreeContent, Verifies, Sha256

\* With no call lost and no piece in flight, that is everywhere.
LEMMA ContentIsFile ==
    ASSUME IInv, suspect = {}, \A u \in Threads : pc[u] # "io"
    PROVE  \A i \in Chunks : Verifies(i) /\ TreeContent[i] = file[i]
<1>1. \A i \in Chunks : Verifies(i)
  BY DEF IInv, AcknowledgedChunksVerify
<1>2. QED
  BY <1>1, ContentOfVerified

\* The content past the size is zero.
LEMMA ContentWithinSize ==
    ASSUME IInv, NEW i \in Chunks, NEW p \in Pos, TreeContent[i][p] # 0
    PROVE  i * CHUNK_SIZE + p < file_size
<1>1. is_index_valid(leaves, i)
  BY DEF TreeContent, ZeroChunk
<1>2. i \in 0 .. Len(leaves) - 1
  BY <1>1, EditorAssumption DEF is_index_valid, IInv, TypeOK
<1>3. leaves[i + 1].sha256[p] # 0
  BY <1>1 DEF TreeContent
<1>4. QED
  BY <1>2, <1>3 DEF IInv, TreeWithinSize

-----------------------------------------------------------------------------
(* The further invariant. *)

\* Initially nothing is in progress.
LEMMA RInit == Init => RInv
BY DEF Init, RInv

\* A step of t outside the lock that leaves the tree alone.
LEMMA ROutside ==
    ASSUME RInv, NEW t \in Threads, NEW s, NEW o,
           op \in [Threads -> Op], pc \in [Threads -> {"idle", "iter", "io"}],
           s \in {"idle", "iter"},
           pc' = [pc EXCEPT ![t] = s], op' = [op EXCEPT ![t] = o],
           UNCHANGED <<leaves, suspect>>
    PROVE  RInv'
<1>1. /\ pc'[t] = s /\ op'[t] = o
      /\ \A u \in Threads \ {t} : op'[u] = op[u] /\ pc'[u] = pc[u]
  OBVIOUS
<1>2. TreeContent' = TreeContent
  BY DEF TreeContent
<1>3. ASSUME NEW u \in Threads, pc'[u] = "io"
      PROVE  HashFromTree(op[u])'
  <2>1. u # t /\ op'[u] = op[u] /\ pc[u] = "io"
    BY <1>1, <1>3
  <2>2. HashFromTree(op[u])
    BY <2>1 DEF RInv
  <2>3. QED
    BY <1>2, <2>1, <2>2 DEF HashFromTree
<1>4. QED
  BY <1>3 DEF RInv

\* Taking the lock: the file is what the tree has.
LEMMA RChunkBegin ==
    ASSUME IInv, RInv, NEW t \in Threads, ChunkBegin(t)
    PROVE  RInv'
<1> DEFINE o == op[t]
           h == new_chunk_hash(t)
           q == [o EXCEPT !.hash = h]
           index == output_chunk_index(o)
<1>1. /\ o \in Op /\ o.pos < Len(o.buf) /\ InChunks(o) /\ pc[t] = "iter"
  BY DEF IInv, TypeOK, OpInv, ChunkBegin
<1>2. index \in Chunks
  BY <1>1, PieceFacts
<1>3. \A u \in Threads : pc[u] # "io"
  BY FreeLock DEF IInv, ChunkBegin
<1>4. TreeContent[index] = file[index]
  BY <1>2, <1>3, ContentIsFile DEF RInv
<1>5. OrigData(t) = TreeContent[index]
  BY <1>2, <1>4 DEF OrigData, TreeContent
<1>6. q.buf = o.buf /\ q.offset = o.offset /\ q.pos = o.pos /\ q.hash = h
  BY <1>1 DEF Op
<1>7. /\ op'[t] = q /\ pc'[t] = "io"
      /\ \A u \in Threads \ {t} : op'[u] = op[u] /\ pc'[u] = pc[u]
      /\ UNCHANGED <<leaves, suspect>>
  BY DEF IInv, TypeOK, ChunkBegin, tree
<1> HIDE DEF q
<1>8. TreeContent' = TreeContent
  BY <1>7 DEF TreeContent
<1>9. HashFromTree(q)
  <2>1. h = Sha256(Patched(TreeContent[index], o, 0, current_size(o)))
    BY <1>5 DEF new_chunk_hash
  <2>2. /\ output_chunk_index(q) = index /\ current_size(q) = current_size(o)
        /\ \A c, a, b : Patched(c, q, a, b) = Patched(c, o, a, b)
    BY <1>6, SamePiece
  <2>3. QED
    BY <1>6, <2>1, <2>2 DEF HashFromTree
<1>10. \A u \in Threads : pc'[u] = "io" => HashFromTree(op[u])'
  BY <1>3, <1>7, <1>8, <1>9 DEF HashFromTree
<1>11. QED
  BY <1>7, <1>10 DEF RInv

\* A remote write changes neither the tree nor the hash in hand.
LEMMA RRemoteWrite ==
    ASSUME IInv, RInv, NEW t \in Threads, NEW n \in 1 .. CHUNK_SIZE, RemoteWrite(t, n)
    PROVE  RInv'
<1> DEFINE o == op[t]
           q == [o EXCEPT !.wrote = @ + n]
<1>1. o \in Op /\ pc[t] = "io"
  BY DEF IInv, TypeOK, RemoteWrite
<1>2. q.buf = o.buf /\ q.offset = o.offset /\ q.pos = o.pos /\ q.hash = o.hash
  BY <1>1 DEF Op
<1>3. /\ op'[t] = q
      /\ \A u \in Threads \ {t} : op'[u] = op[u]
      /\ UNCHANGED <<leaves, suspect, pc>>
  BY DEF IInv, TypeOK, RemoteWrite, tree
<1> HIDE DEF q
<1>4. TreeContent' = TreeContent
  BY <1>3 DEF TreeContent
<1>5. HashFromTree(q)
  <2>1. HashFromTree(o)
    BY <1>1 DEF RInv
  <2>2. /\ output_chunk_index(q) = output_chunk_index(o) /\ current_size(q) = current_size(o)
        /\ \A c, a, b : Patched(c, q, a, b) = Patched(c, o, a, b)
    BY <1>2, SamePiece
  <2>3. QED
    BY <1>2, <2>1, <2>2 DEF HashFromTree
<1>6. \A u \in Threads : pc'[u] = "io" => HashFromTree(op[u])'
  BY <1>3, <1>4, <1>5 DEF HashFromTree, RInv
<1>7. QED
  BY <1>3, <1>6 DEF RInv

\* A commit ends the only piece in flight.
LEMMA RChunkCommit ==
    ASSUME IInv, RInv, NEW t \in Threads, ChunkCommit(t)
    PROVE  RInv'
<1>1. pc[t] = "io" /\ \A u \in Threads \ {t} : pc[u] # "io"
  BY OneHolder DEF IInv, ChunkCommit
<1>2. /\ pc'[t] = "iter" /\ \A u \in Threads \ {t} : pc'[u] = pc[u]
      /\ suspect' \subseteq suspect
  BY DEF IInv, TypeOK, ChunkCommit
<1>3. \A u \in Threads : pc'[u] # "io"
  BY <1>1, <1>2
<1>4. QED
  BY <1>2, <1>3 DEF RInv

\* A resize with no piece in flight; nothing becomes suspect.
LEMMA RResize ==
    ASSUME IInv, RInv, NEW t \in Threads, NEW size \in Sizes, Resize(t, size)
    PROVE  RInv'
<1>1. \A u \in Threads : pc[u] # "io"
  BY FreeLock DEF IInv, Resize, ResizeEnter
<1>2. suspect' = {} /\ UNCHANGED <<pc, op>>
  BY DEF Resize, RInv
<1>3. QED
  BY <1>1, <1>2 DEF RInv

\* Every step keeps the further invariant.
LEMMA RNext == NoFaults /\ IInv /\ RInv /\ [Next]_vars => RInv'
<1> SUFFICES ASSUME NoFaults, IInv, RInv, [Next]_vars PROVE RInv'
  OBVIOUS
<1>1. CASE UNCHANGED vars
  BY <1>1 DEF vars, RInv, HashFromTree, TreeContent
<1>2. CASE Next
  <2>1. PICK t \in Threads : Step(t)
    BY <1>2 DEF Next
  <2>2. op \in [Threads -> Op] /\ pc \in [Threads -> {"idle", "iter", "io"}]
    BY DEF IInv, TypeOK
  <2>3. ASSUME NEW buf \in Buffers, NEW offset \in Offsets, WriteBegin(t, buf, offset)
        PROVE  RInv'
    <3>1. /\ pc' = [pc EXCEPT ![t] = "iter"]
          /\ op' = [op EXCEPT ![t] = [NoOp EXCEPT !.buf = buf, !.offset = offset]]
          /\ UNCHANGED <<leaves, suspect>>
      BY <2>3 DEF WriteBegin, tree
    <3>2. QED
      BY <2>2, <3>1, ROutside, Zenon
  <2>4. CASE ChunkBegin(t)
    BY <2>4, RChunkBegin
  <2>5. CASE ChunkRefused(t) \/ WriteReturn(t)
    <3>1. /\ pc' = [pc EXCEPT ![t] = "idle"] /\ op' = [op EXCEPT ![t] = NoOp]
          /\ UNCHANGED <<leaves, suspect>>
      BY <2>5 DEF ChunkRefused, WriteReturn, Return, tree
    <3>2. QED
      BY <2>2, <3>1, ROutside, Zenon
  <2>6. CASE \E n \in 1 .. CHUNK_SIZE : RemoteWrite(t, n)
    BY <2>6, RRemoteWrite
  <2>7. CASE ChunkCommit(t)
    BY <2>7, RChunkCommit
  <2>8. CASE \E size \in Sizes : Resize(t, size)
    BY <2>8, RResize
  <2>9. CASE \/ \E n \in 0 .. CHUNK_SIZE : RemoteWriteFails(t, n)
             \/ \E size \in Sizes : ResizeFails(t, size)
    BY <2>9 DEF NoFaults, RemoteWriteFails, ResizeFails
  <2>10. QED
    BY <2>1, <2>3, <2>4, <2>5, <2>6, <2>7, <2>8, <2>9 DEF Step
<1>3. QED
  BY <1>1, <1>2

\* No read-back fails to verify.
LEMMA NeverRefused ==
    ASSUME NoFaults, IInv, RInv, NEW t \in Threads
    PROVE  ~ChunkRefused(t)
<1> SUFFICES ASSUME ChunkRefused(t) PROVE FALSE
  OBVIOUS
<1> DEFINE i == output_chunk_index(op[t])
<1>1. pc[t] = "iter" /\ op[t] \in Op /\ op[t].pos < Len(op[t].buf) /\ InChunks(op[t])
  BY DEF ChunkRefused, IInv, TypeOK, OpInv
<1>2. i \in Chunks
  BY <1>1, PieceFacts
<1>3. Verifies(i)
  <2>1. \A u \in Threads : pc[u] # "io"
    BY FreeLock DEF IInv, ChunkRefused
  <2>2. QED
    BY <1>2, <2>1, ContentIsFile DEF RInv
<1>4. is_index_valid(leaves, i) /\ ~ReadBackConsistent(t)
  BY DEF ChunkRefused, ReadsBack, NoFaults
<1>5. QED
  BY <1>3, <1>4 DEF ReadBackConsistent, is_consistent, Verifies, is_index_valid

-----------------------------------------------------------------------------
(* The steps of the abstract file. *)

\* A step that leaves the tree alone leaves the abstract file's content alone.
LEMMA TreeUnchanged ==
    ASSUME UNCHANGED tree
    PROVE  UNCHANGED <<TreeContent, file_size>>
BY DEF tree, TreeContent

\* The calls of the other threads stay when t's write becomes o.
LEMMA CallsExcept ==
    ASSUME NEW t \in Threads, NEW o, op \in [Threads -> Op], op' = [op EXCEPT ![t] = o]
    PROVE  Calls' = [Calls EXCEPT ![t] = [buf |-> o.buf, offset |-> o.offset, done |-> o.pos]]
BY DEF Calls

\* The beginning of a write_at is that of a call.
LEMMA BeginWrites ==
    ASSUME IInv, NEW t \in Threads, NEW buf \in Buffers, NEW offset \in Offsets,
           WriteBegin(t, buf, offset)
    PROVE  Abstract!Write(t, buf, offset)
<1> DEFINE o == [NoOp EXCEPT !.buf = buf, !.offset = offset]
<1>1. o.buf = buf /\ o.offset = offset /\ o.pos = 0
  BY DEF NoOp
<1>2. /\ pc[t] = "idle" /\ pc' = [pc EXCEPT ![t] = "iter"] /\ op' = [op EXCEPT ![t] = o]
      /\ op \in [Threads -> Op] /\ pc \in [Threads -> {"idle", "iter", "io"}]
      /\ \A i \in offset .. offset + Len(buf) - 1 : i \div CHUNK_SIZE \in Chunks
  BY DEF WriteBegin, IInv, TypeOK
<1> HIDE DEF o
<1>3. Calls' = [Calls EXCEPT ![t] = [buf |-> buf, offset |-> offset, done |-> 0]]
  BY <1>1, <1>2, CallsExcept, Zenon
<1>4. t \notin Writing /\ Writing' = Writing \cup {t}
  BY <1>2 DEF Writing
<1>5. UNCHANGED <<TreeContent, file_size>>
  BY TreeUnchanged DEF WriteBegin
<1>6. QED
  BY <1>2, <1>3, <1>4, <1>5 DEF Abstract!Write

\* A write_at returns with all of its buffer in the tree.
LEMMA ReturnReturns ==
    ASSUME IInv, NEW t \in Threads, WriteReturn(t)
    PROVE  Abstract!WriteReturns(t)
<1>1. /\ pc[t] = "iter" /\ pc' = [pc EXCEPT ![t] = "idle"] /\ op' = [op EXCEPT ![t] = NoOp]
      /\ op \in [Threads -> Op] /\ pc \in [Threads -> {"idle", "iter", "io"}]
      /\ op[t].pos = Len(op[t].buf)
  BY DEF WriteReturn, Return, IInv, TypeOK
<1>2. Calls' = [Calls EXCEPT ![t] = Abstract!NoCall]
  <2>1. NoOp.buf = <<>> /\ NoOp.offset = 0 /\ NoOp.pos = 0
    BY DEF NoOp
  <2>2. QED
    BY <1>1, <2>1, CallsExcept, Zenon DEF Abstract!NoCall
<1>3. t \in Writing /\ Writing' = Writing \ {t}
  BY <1>1 DEF Writing
<1>4. Calls[t].done = Len(Calls[t].buf)
  BY <1>1 DEF Calls
<1>5. UNCHANGED <<TreeContent, file_size>>
  BY TreeUnchanged DEF WriteReturn
<1>6. QED
  BY <1>2, <1>3, <1>4, <1>5 DEF Abstract!WriteReturns

\* The content after a step is made of chunks.
LEMMA NextContent ==
    ASSUME IInv'
    PROVE  /\ TreeContent' = [i \in Chunks |-> TreeContent'[i]]
           /\ \A i \in Chunks : TreeContent'[i] = [p \in Pos |-> TreeContent'[i][p]]
<1>1. TreeContent' = [i \in Chunks |-> TreeContent'[i]]
  BY DEF TreeContent
<1>2. ASSUME NEW i \in Chunks
      PROVE  TreeContent'[i] \in Chunk
  <2>1. i \in Nat /\ leaves' \in Seq(Hash)
    BY EditorAssumption DEF IInv, TypeOK
  <2>2. i < Len(leaves') => leaves'[i + 1] \in Hash
    BY <2>1
  <2>3. QED
    BY <2>2, ZeroChunkType DEF TreeContent, is_index_valid, Hash
<1>3. QED
  BY <1>1, <1>2 DEF Chunk

\* Taking the lock and storing bytes remotely are no steps of the abstract file.
LEMMA InnerSteps ==
    ASSUME IInv, NEW t \in Threads,
           ChunkBegin(t) \/ \E n \in 1 .. CHUNK_SIZE : RemoteWrite(t, n)
    PROVE  UNCHANGED <<TreeContent, file_size, Writing, Calls>>
<1>1. PICK o : /\ op' = [op EXCEPT ![t] = o]
               /\ o.buf = op[t].buf /\ o.offset = op[t].offset /\ o.pos = op[t].pos
  <2>1. op[t] \in Op
    BY DEF IInv, TypeOK
  <2>2. CASE ChunkBegin(t)
    <3> DEFINE o == [op[t] EXCEPT !.hash = new_chunk_hash(t)]
    <3>1. op' = [op EXCEPT ![t] = o]
      BY <2>2 DEF ChunkBegin
    <3>2. o.buf = op[t].buf /\ o.offset = op[t].offset /\ o.pos = op[t].pos
      BY <2>1 DEF Op
    <3>3. QED
      BY <3>1, <3>2, Zenon
  <2>3. ASSUME NEW n \in 1 .. CHUNK_SIZE, RemoteWrite(t, n)
        PROVE  \E o : /\ op' = [op EXCEPT ![t] = o]
                      /\ o.buf = op[t].buf /\ o.offset = op[t].offset /\ o.pos = op[t].pos
    <3> DEFINE o == [op[t] EXCEPT !.wrote = @ + n]
    <3>1. op' = [op EXCEPT ![t] = o]
      BY <2>3 DEF RemoteWrite
    <3>2. o.buf = op[t].buf /\ o.offset = op[t].offset /\ o.pos = op[t].pos
      BY <2>1 DEF Op
    <3>3. QED
      BY <3>1, <3>2, Zenon
  <2>4. QED
    BY <2>2, <2>3
<1>2. op \in [Threads -> Op] /\ pc \in [Threads -> {"idle", "iter", "io"}]
  BY DEF IInv, TypeOK
<1>3. Calls' = Calls
  BY <1>1, <1>2, Zenon DEF Calls
<1>4. \A u \in Threads : pc'[u] = "idle" <=> pc[u] = "idle"
  BY <1>2 DEF ChunkBegin, RemoteWrite
<1>5. UNCHANGED tree
  BY Zenon DEF ChunkBegin, RemoteWrite
<1>6. QED
  BY <1>3, <1>4, <1>5, TreeUnchanged DEF Writing

\* A commit puts the next piece of t's buffer in its place.
LEMMA CommitApplies ==
    ASSUME IInv, RInv, NEW t \in Threads, ChunkCommit(t)
    PROVE  Abstract!Apply(t)
<1> DEFINE o == op[t]
           c == Calls[t]
           index == output_chunk_index(o)
           first == offset_from_alignment(o)
           n == current_size(o)
<1>1. /\ o \in Op /\ o.pos < Len(o.buf) /\ InChunks(o) /\ pc[t] = "io"
      /\ o.buf \in Seq(Byte) /\ Len(o.buf) \in Nat /\ o.offset \in Nat /\ o.pos \in Nat
  BY SMTT(30) DEF IInv, TypeOK, OpInv, IoInv, ChunkCommit, Op
<1>2. /\ index \in Nat /\ index \in Chunks /\ first \in Pos
      /\ n \in 1 .. CHUNK_SIZE /\ o.pos + n <= Len(o.buf) /\ first + n <= CHUNK_SIZE
  BY <1>1, PieceFacts
<1>3. o.offset + o.pos = index * CHUNK_SIZE + first /\ index * CHUNK_SIZE \in Nat
  BY <1>1, <1>2, PieceOffset, ChunkSizeAssumption
<1>4. /\ Len(leaves') = Larger(Len(leaves), index + 1)
      /\ leaves'[index + 1] = o.hash
      /\ \A i \in 1 .. Len(leaves') : i # index + 1 =>
            leaves'[i] = IF i <= Len(leaves) THEN leaves[i] ELSE HASH_OF_4096_ZEROS
  BY CommittedLeaves
<1>5. o.hash = Sha256(Patched(TreeContent[index], o, 0, n))
  BY <1>1 DEF RInv, HashFromTree
<1>6. Chunks \subseteq Nat /\ Len(leaves) \in Nat
  BY EditorAssumption DEF IInv, TypeOK
<1>7. /\ c.buf = o.buf /\ c.offset = o.offset /\ c.done = o.pos
      /\ Abstract!From(c) = o.offset + o.pos /\ Abstract!PieceLen(c) = n
  BY DEF Calls, Abstract!From, Abstract!PieceLen, Abstract!Smaller, Smaller,
         current_size, offset_from_alignment, output_offset
<1>8. file_size' = Larger(file_size, c.offset + Len(c.buf))
  BY <1>7 DEF ChunkCommit, update_size
<1>9. Calls' = [Calls EXCEPT ![t].done = @ + n]
  <2> DEFINE q == [NoOp EXCEPT !.buf = o.buf, !.offset = o.offset, !.pos = o.pos + n]
  <2>1. q.buf = o.buf /\ q.offset = o.offset /\ q.pos = o.pos + n
    BY DEF NoOp
  <2>2. op' = [op EXCEPT ![t] = q] /\ op \in [Threads -> Op]
    BY DEF ChunkCommit, IInv, TypeOK
  <2>3. c = [buf |-> o.buf, offset |-> o.offset, done |-> o.pos]
    BY DEF Calls
  <2> HIDE DEF q, n, o, c
  <2>4. Calls' = [Calls EXCEPT ![t] = [buf |-> o.buf, offset |-> o.offset, done |-> o.pos + n]]
    BY <2>1, <2>2, CallsExcept, Zenon
  <2>5. [c EXCEPT !.done = @ + n] = [buf |-> o.buf, offset |-> o.offset, done |-> o.pos + n]
    BY <2>3
  <2>6. QED
    BY <2>4, <2>5 DEF c
<1>10. t \in Writing /\ Writing' = Writing
  BY <1>1 DEF Writing, ChunkCommit, IInv, TypeOK
<1> HIDE DEF o, c, index, first, n
<1>11. ASSUME NEW i \in Chunks, i # index
       PROVE  TreeContent'[i] = TreeContent[i]
  <2>1. i \in Nat
    BY <1>6
  <2>2. CASE i < Len(leaves)
    <3>1. i < Len(leaves') /\ leaves'[i + 1] = leaves[i + 1]
      BY <1>2, <1>4, <1>6, <1>11, <2>1, <2>2 DEF Larger
    <3>2. QED
      BY <2>2, <3>1 DEF TreeContent, is_index_valid
  <2>3. CASE ~(i < Len(leaves)) /\ i < Len(leaves')
    <3>1. leaves'[i + 1] = HASH_OF_4096_ZEROS
      BY <1>2, <1>4, <1>6, <1>11, <2>1, <2>3 DEF Larger
    <3>2. QED
      BY <2>3, <3>1 DEF TreeContent, is_index_valid, HASH_OF_4096_ZEROS, Sha256
  <2>4. CASE ~(i < Len(leaves)) /\ ~(i < Len(leaves'))
    BY <2>4 DEF TreeContent, is_index_valid
  <2>5. QED
    BY <2>2, <2>3, <2>4
<1>12. TreeContent'[index] = Patched(TreeContent[index], o, 0, n)
  <2>1. index < Len(leaves')
    BY <1>2, <1>4, <1>6 DEF Larger
  <2>2. TreeContent'[index] = leaves'[index + 1].sha256
    BY <1>2, <2>1 DEF TreeContent, is_index_valid
  <2>3. QED
    BY <1>4, <1>5, <2>2 DEF Sha256
<1>13. ASSUME NEW i \in Chunks, NEW p \in Pos
       PROVE  TreeContent'[i][p] =
                IF o.offset + o.pos <= i * CHUNK_SIZE + p
                     /\ i * CHUNK_SIZE + p < o.offset + o.pos + n
                THEN o.buf[i * CHUNK_SIZE + p - o.offset + 1]
                ELSE TreeContent[i][p]
  <2> DEFINE x == index * CHUNK_SIZE
             y == i * CHUNK_SIZE
             f == o.offset
             d == o.pos
  <2>1. /\ i \in Nat /\ x \in Nat /\ y \in Nat /\ p \in Nat /\ p < CHUNK_SIZE
        /\ first \in Nat /\ n \in Nat /\ first + n <= CHUNK_SIZE
        /\ f \in Nat /\ d \in Nat /\ f + d = x + first
    BY <1>1, <1>2, <1>3, <1>6, ChunkSizeAssumption DEF Pos
  <2>2. /\ i < index => y + CHUNK_SIZE <= x
        /\ index < i => x + CHUNK_SIZE <= y
    BY <1>2, <2>1, LaterChunk
  <2>3. CASE i # index
    <3> HIDE DEF x, y, f, d
    <3>1. ~(f + d <= y + p /\ y + p < f + d + n)
      <4>1. (y + CHUNK_SIZE <= x) \/ (x + CHUNK_SIZE <= y)
        BY <1>2, <2>1, <2>2, <2>3
      <4>2. QED
        BY <2>1, <4>1, ChunkSizeAssumption
    <3>2. QED
      BY <1>11, <2>3, <3>1 DEF y, f, d
  <2>4. CASE i = index
    <3>1. TreeContent'[i][p] = IF first + 0 <= p /\ p < first + n
                               THEN o.buf[o.pos + (p - first) + 1] ELSE TreeContent[i][p]
      BY <1>12, <2>4 DEF Patched, first
    <3>2. y = x
      BY <2>4
    <3> HIDE DEF x, y, f, d
    <3>3. /\ first + 0 <= p <=> f + d <= y + p
          /\ p < first + n <=> y + p < f + d + n
          /\ d + (p - first) + 1 = y + p - f + 1
      BY <2>1, <3>2
    <3>4. QED
      BY <3>1, <3>3 DEF y, f, d
  <2>5. QED
    BY <2>3, <2>4
<1>14. TreeContent' = [i \in Chunks |-> TreeContent'[i]]
       /\ \A i \in Chunks : TreeContent'[i] = [p \in Pos |-> TreeContent'[i][p]]
  BY ChunkCommitInv, NextContent
<1>15. TreeContent' = [i \in Chunks |-> [p \in Pos |->
                IF o.offset + o.pos <= i * CHUNK_SIZE + p
                     /\ i * CHUNK_SIZE + p < o.offset + o.pos + n
                THEN o.buf[i * CHUNK_SIZE + p - o.offset + 1]
                ELSE TreeContent[i][p]]]
  BY <1>13, <1>14, Zenon
<1>16. c.done < Len(c.buf)
  BY <1>1, <1>7
<1>17. QED
  BY <1>7, <1>8, <1>9, <1>10, <1>15, <1>16
     DEF Abstract!Apply, Abstract!Larger, Larger, Abstract!Pos, Pos, c

\* A resize sets the size of the file.
LEMMA ResizeSetsSize ==
    ASSUME IInv, RInv, NEW t \in Threads, NEW size \in Sizes, Resize(t, size)
    PROVE  Abstract!SetSize(t, size)
<1> DEFINE k == size \div CHUNK_SIZE
           r == size % CHUNK_SIZE
           n == divide_roundup(size, CHUNK_SIZE)
<1>1. ResizeEnter(t, size) /\ \A u \in Threads : pc[u] # "io"
  BY FreeLock DEF IInv, Resize, ResizeEnter
<1>2. /\ size \in Nat /\ k \in Nat /\ r \in Nat /\ n \in Nat
      /\ r = 0 => n = k
      /\ r > 0 => n = k + 1 /\ k \in Chunks
  BY <1>1, ResizeGeometry
<1>3. size = k * CHUNK_SIZE + r
  BY <1>2, DivMod
<1>4. CutsTail(size) <=> size < file_size /\ r > 0
  BY DEF CutsTail
<1>5. /\ Len(leaves') = n
      /\ \A i \in Nat : i < n =>
            /\ CutsTail(size) /\ i = k => leaves'[i + 1] = Sha256(Cut(file[k], r))
            /\ ~(CutsTail(size) /\ i = k) =>
                  leaves'[i + 1] = IF i < Len(leaves) THEN leaves[i + 1]
                                   ELSE HASH_OF_4096_ZEROS
  BY ResizedLeaves
<1>6. \A i \in Chunks : TreeContent[i] = file[i]
  BY <1>1, ContentIsFile DEF RInv
<1>7. /\ Chunks \subseteq Nat /\ file_size \in Nat /\ Len(leaves) \in Nat
      /\ file_size' = size
  BY EditorAssumption DEF IInv, TypeOK, Resize
<1> HIDE DEF k, r, n
<1>8. ASSUME NEW i \in Chunks, NEW p \in Pos
      PROVE  TreeContent'[i][p] = IF i * CHUNK_SIZE + p < size THEN TreeContent[i][p] ELSE 0
  <2> DEFINE x == k * CHUNK_SIZE
             y == i * CHUNK_SIZE
  <2>1. /\ i \in Nat /\ x \in Nat /\ y \in Nat /\ size = x + r
        /\ p \in Nat /\ p < CHUNK_SIZE
    BY <1>2, <1>3, <1>7, ChunkSizeAssumption DEF Pos
  <2>2. /\ i < k => y + CHUNK_SIZE <= x
        /\ k < i => x + CHUNK_SIZE <= y
        /\ i = k => y = x
    BY <1>2, <2>1, LaterChunk
  <2>3. TreeContent[i][p] # 0 => y + p < file_size
    BY ContentWithinSize
  <2>4. r < CHUNK_SIZE
    BY <1>2, DivMod, ChunkSizeAssumption DEF r, Pos
  <2> HIDE DEF x, y
  <2>5. CASE ~(i < n)
    <3>1. ~(y + p < size)
      <4>1. k < i \/ (i = k /\ r = 0)
        BY <1>2, <2>1, <2>5
      <4>2. QED
        BY <1>2, <2>1, <2>2, <2>4, <4>1, ChunkSizeAssumption
    <3>2. TreeContent'[i][p] = 0
      BY <1>5, <2>5 DEF TreeContent, is_index_valid, ZeroChunk
    <3>3. QED
      BY <3>1, <3>2 DEF y
  <2>6. CASE i < n /\ CutsTail(size) /\ i = k
    <3>1. TreeContent'[i] = Cut(file[i], r)
      BY <1>5, <2>1, <2>6 DEF TreeContent, is_index_valid, Sha256
    <3>2. TreeContent'[i][p] = IF p < r THEN TreeContent[i][p] ELSE 0
      BY <1>6, <3>1 DEF Cut
    <3>3. p < r <=> y + p < size
      BY <1>2, <2>1, <2>2, <2>6
    <3>4. QED
      BY <3>2, <3>3 DEF y
  <2>7. CASE i < n /\ ~(CutsTail(size) /\ i = k)
    <3>1. TreeContent'[i] = TreeContent[i]
      BY <1>5, <2>1, <2>7 DEF TreeContent, is_index_valid, HASH_OF_4096_ZEROS, Sha256
    <3>2. TreeContent[i][p] # 0 => y + p < size
      <4>1. i < k \/ (i = k /\ r > 0 /\ file_size <= size)
        BY <1>2, <1>4, <1>7, <2>1, <2>7
      <4>2. QED
        BY <1>2, <1>7, <2>1, <2>2, <2>3, <4>1, ChunkSizeAssumption
    <3>3. QED
      BY <3>1, <3>2 DEF y
  <2>8. QED
    BY <2>5, <2>6, <2>7
<1>9. /\ TreeContent' = [i \in Chunks |-> TreeContent'[i]]
      /\ \A i \in Chunks : TreeContent'[i] = [p \in Pos |-> TreeContent'[i][p]]
  BY ResizeInv, NextContent
<1>10. TreeContent' = [i \in Chunks |-> [p \in Pos |->
                         IF i * CHUNK_SIZE + p < size THEN TreeContent[i][p] ELSE 0]]
  BY <1>8, <1>9, Zenon
<1>11. t \notin Writing /\ UNCHANGED <<Writing, Calls>>
  BY <1>1 DEF Resize, ResizeEnter, Writing, Calls
<1>12. QED
  BY <1>7, <1>10, <1>11 DEF Abstract!SetSize, Abstract!Pos, Pos

\* Every step of the editor is one of the abstract file, or none.
LEMMA StepRefines ==
    NoFaults /\ IInv /\ RInv /\ [Next]_vars
        => [Abstract!Next]_<<TreeContent, file_size, Writing, Calls>>
<1> SUFFICES ASSUME NoFaults, IInv, RInv, [Next]_vars
             PROVE  [Abstract!Next]_<<TreeContent, file_size, Writing, Calls>>
  OBVIOUS
<1>1. CASE UNCHANGED vars
  BY <1>1, TreeUnchanged DEF vars, tree, Writing, Calls
<1>2. CASE Next
  <2>1. PICK t \in Threads : Step(t)
    BY <1>2 DEF Next
  <2>2. CASE \E buf \in Buffers, offset \in Offsets : WriteBegin(t, buf, offset)
    BY <2>2, BeginWrites DEF Abstract!Next
  <2>3. CASE ChunkCommit(t)
    BY <2>3, CommitApplies DEF Abstract!Next
  <2>4. CASE WriteReturn(t)
    BY <2>4, ReturnReturns DEF Abstract!Next
  <2>5. CASE \E size \in Sizes : Resize(t, size)
    BY <2>5, ResizeSetsSize DEF Abstract!Next
  <2>6. CASE \/ \E n \in 0 .. CHUNK_SIZE : RemoteWriteFails(t, n)
             \/ \E size \in Sizes : ResizeFails(t, size)
    BY <2>6 DEF NoFaults, RemoteWriteFails, ResizeFails
  <2>7. CASE ChunkRefused(t)
    BY <2>7, NeverRefused
  <2>8. CASE ChunkBegin(t) \/ \E n \in 1 .. CHUNK_SIZE : RemoteWrite(t, n)
    BY <2>8, InnerSteps
  <2>9. QED
    BY <2>1, <2>2, <2>3, <2>4, <2>5, <2>6, <2>7, <2>8 DEF Step
<1>3. QED
  BY <1>1, <1>2

\* With a backend that answers every call, the tree of an editor goes through the
\* states of a plain file that takes on the bytes of the writes in progress, piece
\* by piece and each at its offset, and the cuts of resizes, however they overlap
\* (write_at and resize of editor.rs).
THEOREM EditorImplementsFile ==
    NoFaults /\ Spec => ImplementsIntegrityFile
<1>1. Init => Abstract!Init
  BY EditorAssumption
     DEF Init, Abstract!Init, TreeContent, is_index_valid, ZeroChunk, Abstract!ZeroChunk,
         Abstract!Pos, Pos, Writing, Calls, NoOp, Abstract!NoCall
<1>2. NoFaults /\ [Next]_vars => NoFaults'
  BY DEF NoFaults
<1>3. QED
  BY <1>1, <1>2, RInit, RNext, StepRefines, Invariance, PTL
     DEF Spec, ImplementsIntegrityFile, Abstract!Spec

-----------------------------------------------------------------------------
(* The sizes. *)

Announced(o) == o.offset + Len(o.buf)

\* How far the write o has stored its bytes.
Reach(o) == o.offset + o.pos + o.wrote

Pending(t) == pc[t] # "idle" /\ op[t].pos < Len(op[t].buf)

\* The backing file and the leaves are as long as the tree says.
SizeReached == file_size <= file_len /\ file_size <= Len(leaves) * CHUNK_SIZE

\* They are, unless a write that announced so much has pieces to go; and only
\* the write in the critical section is ahead of the tree.
SizeInv ==
    /\ SizeReached \/ \E t \in Threads : Pending(t) /\ file_size <= Announced(op[t])
    /\ \A t \in Threads : pc[t] = "io" =>
          /\ op[t].wrote > 0 => Reach(op[t]) <= file_len
          /\ file_len <= file_size \/ file_len <= Reach(op[t])
    /\ (\A t \in Threads : pc[t] # "io") => file_len <= file_size

\* m chunks hold n bytes when m is at least n, divided and rounded up.
LEMMA RoundUpBound ==
    ASSUME NEW n \in Nat, NEW m \in Nat
    PROVE  /\ divide_roundup(n, CHUNK_SIZE) \in Nat
           /\ divide_roundup(n, CHUNK_SIZE) <= m <=> n <= m * CHUNK_SIZE
<1> DEFINE k == n \div CHUNK_SIZE
           r == n % CHUNK_SIZE
           d == divide_roundup(n, CHUNK_SIZE)
           x == k * CHUNK_SIZE
           y == m * CHUNK_SIZE
<1>1. /\ k \in Nat /\ r \in Nat /\ r < CHUNK_SIZE /\ n = x + r /\ x \in Nat /\ y \in Nat
      /\ r = 0 => d = k
      /\ r > 0 => d = k + 1
  BY DivMod, RoundUp, ChunkSizeAssumption DEF Pos
<1>2. /\ k < m => x + CHUNK_SIZE <= y
      /\ m < k => y + CHUNK_SIZE <= x
      /\ m = k => x = y
  BY <1>1, LaterChunk
<1> HIDE DEF k, r, d, x, y
<1>3. d \in Nat /\ (d <= m <=> n <= y)
  BY <1>1, <1>2, ChunkSizeAssumption
<1>4. QED
  BY <1>3 DEF d, y

\* More chunks hold more bytes.
LEMMA MoreChunks ==
    ASSUME NEW i \in Nat, NEW j \in Nat, i <= j
    PROVE  /\ i * CHUNK_SIZE \in Nat /\ j * CHUNK_SIZE \in Nat
           /\ i * CHUNK_SIZE <= j * CHUNK_SIZE
<1>1. i * CHUNK_SIZE \in Nat /\ j * CHUNK_SIZE \in Nat
  BY ChunkSizeAssumption
<1>2. CASE i = j
  BY <1>1, <1>2
<1>3. CASE i < j
  <2> DEFINE x == i * CHUNK_SIZE
             y == j * CHUNK_SIZE
  <2>1. x + CHUNK_SIZE <= y /\ x \in Nat /\ y \in Nat
    BY <1>1, <1>3, LaterChunk
  <2> HIDE DEF x, y
  <2>2. x <= y
    BY <2>1, ChunkSizeAssumption
  <2>3. QED
    BY <1>1, <2>2 DEF x, y
<1>4. QED
  BY <1>2, <1>3

\* A step of t from outside the critical section to outside it.
LEMMA SOutside ==
    ASSUME SizeInv, NEW t \in Threads, pc[t] # "io", ~Pending(t), pc'[t] # "io",
           \A u \in Threads \ {t} : op'[u] = op[u] /\ pc'[u] = pc[u],
           UNCHANGED <<leaves, file_size, file_len>>
    PROVE  SizeInv'
<1>1. \A u \in Threads : Pending(u) => Pending(u)' /\ op'[u] = op[u]
  BY DEF Pending
<1>2. SizeReached' <=> SizeReached
  BY DEF SizeReached
<1>3. (\A u \in Threads : pc'[u] # "io") => \A u \in Threads : pc[u] # "io"
  OBVIOUS
<1>4. QED
  BY <1>1, <1>2, <1>3 DEF SizeInv

\* Entering it changes nothing.
LEMMA SChunkBegin ==
    ASSUME IInv, SizeInv, NEW t \in Threads, ChunkBegin(t)
    PROVE  SizeInv'
<1>1. /\ pc[t] = "iter" /\ op[t] \in Op /\ op[t].wrote = 0 /\ \A u \in Threads : pc[u] # "io"
      /\ op[t].pos < Len(op[t].buf)
  BY FreeLock DEF IInv, TypeOK, OpInv, ChunkBegin
<1> DEFINE q == [op[t] EXCEPT !.hash = new_chunk_hash(t)]
<1>2. /\ op'[t] = q /\ pc'[t] = "io"
      /\ \A u \in Threads \ {t} : op'[u] = op[u] /\ pc'[u] = pc[u]
      /\ UNCHANGED <<leaves, file_size, file_len>>
  BY DEF IInv, TypeOK, ChunkBegin, tree, remote
<1>3. q.buf = op[t].buf /\ q.offset = op[t].offset /\ q.pos = op[t].pos /\ q.wrote = 0
  BY <1>1 DEF Op
<1> HIDE DEF q
<1>4. \A u \in Threads : /\ Pending(u) => Pending(u)'
                         /\ Announced(op'[u]) = Announced(op[u])
  BY <1>1, <1>2, <1>3 DEF Pending, Announced
<1>5. SizeReached' <=> SizeReached
  BY <1>2 DEF SizeReached
<1>6. file_len <= file_size
  BY <1>1 DEF SizeInv
<1>7. \A u \in Threads : pc'[u] = "io" => u = t
  BY <1>1, <1>2
<1>8. QED
  BY <1>2, <1>3, <1>4, <1>5, <1>6, <1>7 DEF SizeInv

\* A remote write moves the end of the file to its own, if that is further.
LEMMA SRemoteWrite ==
    ASSUME IInv, SizeInv, NEW t \in Threads, NEW n \in 1 .. CHUNK_SIZE, RemoteWrite(t, n)
    PROVE  SizeInv'
<1> DEFINE o == op[t]
           q == [o EXCEPT !.wrote = @ + n]
           e == Reach(o) + n
<1>1. /\ pc[t] = "io" /\ o \in Op /\ o.pos < Len(o.buf) /\ InChunks(o)
      /\ \A u \in Threads \ {t} : pc[u] # "io"
  BY OneHolder DEF IInv, TypeOK, IoInv, OpInv, RemoteWrite
<1>2. /\ op'[t] = q
      /\ \A u \in Threads \ {t} : op'[u] = op[u]
      /\ UNCHANGED <<leaves, file_size, pc>>
      /\ file_len' = LenReaching(output_chunk_index(o), offset_from_alignment(o) + o.wrote + n)
  BY DEF IInv, TypeOK, RemoteWrite, tree
<1>3. /\ q.buf = o.buf /\ q.offset = o.offset /\ q.pos = o.pos /\ q.wrote = o.wrote + n
      /\ o.offset \in Nat /\ o.pos \in Nat /\ o.wrote \in Nat /\ n \in Nat /\ n > 0
      /\ file_len \in Nat /\ file_size \in Nat
  BY <1>1 DEF Op, IInv, TypeOK
<1>4. /\ output_chunk_index(o) \in Nat /\ offset_from_alignment(o) \in Pos
      /\ o.offset + o.pos = output_chunk_index(o) * CHUNK_SIZE + offset_from_alignment(o)
  BY <1>1, PieceFacts, PieceOffset
<1>5. file_len' = Larger(file_len, e)
  <2> DEFINE x == output_chunk_index(o) * CHUNK_SIZE
             a == offset_from_alignment(o)
  <2>1. x \in Nat /\ a \in Nat /\ o.offset + o.pos = x + a
    BY <1>4, ChunkSizeAssumption DEF Pos
  <2>2. file_len' = Larger(file_len, x + (a + o.wrote + n))
    BY <1>2 DEF LenReaching
  <2> HIDE DEF x, a
  <2>3. x + (a + o.wrote + n) = e
    BY <1>3, <2>1 DEF Reach
  <2>4. QED
    BY <2>2, <2>3
<1>6. Reach(q) = e /\ e \in Nat /\ Reach(o) \in Nat /\ Reach(o) <= e
  BY <1>3 DEF Reach
<1> HIDE DEF q, e
<1>7. /\ file_len' \in Nat /\ file_len <= file_len' /\ e <= file_len'
      /\ file_len' = file_len \/ file_len' = e
  BY <1>3, <1>5, <1>6 DEF Larger
<1>8. \A u \in Threads : /\ Pending(u) => Pending(u)'
                         /\ Announced(op'[u]) = Announced(op[u])
  BY <1>1, <1>2, <1>3, SMTT(30) DEF Pending, Announced
<1>9. SizeReached => SizeReached'
  BY <1>2, <1>3, <1>7 DEF SizeReached
<1>10. SizeReached' \/ \E u \in Threads : Pending(u)' /\ file_size' <= Announced(op'[u])
  BY <1>2, <1>8, <1>9 DEF SizeInv
<1>11. file_len' <= file_size' \/ file_len' <= Reach(op'[t])
  <2>1. file_len <= file_size \/ file_len <= Reach(o)
    BY <1>1 DEF SizeInv
  <2>2. QED
    BY <1>2, <1>3, <1>6, <1>7, <2>1
<1>12. Reach(op'[t]) <= file_len'
  BY <1>2, <1>6, <1>7
<1>13. \A u \in Threads : pc'[u] = "io" <=> u = t
  BY <1>1, <1>2
<1>14. QED
  BY <1>10, <1>11, <1>12, <1>13 DEF SizeInv

\* A commit brings the tree's size up to that announced.  If the piece was the
\* last, the file and the leaves have come that far as well.
LEMMA SChunkCommit ==
    ASSUME IInv, SizeInv, NEW t \in Threads, ChunkCommit(t)
    PROVE  SizeInv'
<1> DEFINE o == op[t]
           index == output_chunk_index(o)
           c == current_size(o)
           a == Announced(o)
           q == [NoOp EXCEPT !.buf = o.buf, !.offset = o.offset, !.pos = o.pos + c]
<1>1. /\ pc[t] = "io" /\ o \in Op /\ o.pos < Len(o.buf) /\ InChunks(o) /\ o.wrote = c
      /\ \A u \in Threads \ {t} : pc[u] # "io"
  BY OneHolder DEF IInv, TypeOK, IoInv, OpInv, ChunkCommit
<1>2. /\ op'[t] = q /\ pc'[t] = "iter"
      /\ \A u \in Threads \ {t} : op'[u] = op[u] /\ pc'[u] = pc[u]
      /\ file_len' = file_len /\ file_size' = Larger(file_size, a)
  BY DEF IInv, TypeOK, ChunkCommit, remote, update_size, Announced
<1>3. /\ q.buf = o.buf /\ q.offset = o.offset /\ q.pos = o.pos + c
      /\ o.offset \in Nat /\ o.pos \in Nat /\ Len(o.buf) \in Nat
      /\ file_len \in Nat /\ file_size \in Nat /\ Len(leaves) \in Nat
  BY <1>1 DEF NoOp, Op, IInv, TypeOK
<1>4. /\ index \in Nat /\ offset_from_alignment(o) \in Pos
      /\ c \in 1 .. CHUNK_SIZE /\ o.pos + c <= Len(o.buf)
      /\ offset_from_alignment(o) + c <= CHUNK_SIZE
  BY <1>1, PieceFacts
<1>5. Len(leaves') = Larger(Len(leaves), index + 1)
  BY CommittedLeaves
<1> HIDE DEF q, index, c
<1>6. /\ c \in Nat /\ c > 0 /\ a \in Nat /\ Announced(q) = a
      /\ Reach(o) \in Nat /\ Reach(o) = o.offset + o.pos + c /\ Reach(o) <= a
  <2>1. c \in Nat /\ c > 0
    BY <1>4
  <2>2. Reach(o) = o.offset + o.pos + c
    BY <1>1 DEF Reach
  <2>3. a = o.offset + Len(o.buf) /\ Announced(q) = a
    BY <1>3 DEF Announced
  <2> DEFINE f == o.offset
             p == o.pos
             n == Len(o.buf)
  <2>4. f \in Nat /\ p \in Nat /\ n \in Nat /\ p + c <= n /\ a = f + n /\ Reach(o) = f + p + c
    BY <1>3, <1>4, <2>2, <2>3
  <2> HIDE DEF a, f, p, n
  <2>5. a \in Nat /\ Reach(o) \in Nat /\ Reach(o) <= a
    BY <2>1, <2>4
  <2>6. QED
    BY <2>1, <2>2, <2>3, <2>5
<1>7. Reach(o) <= file_len /\ (file_len <= file_size \/ file_len <= Reach(o))
  BY <1>1, <1>6 DEF SizeInv
<1> DEFINE l == Len(leaves) * CHUNK_SIZE
           m == Len(leaves') * CHUNK_SIZE
<1>8. l \in Nat /\ m \in Nat /\ l <= m /\ Reach(o) <= m
  <2> DEFINE x == index * CHUNK_SIZE
             y == (index + 1) * CHUNK_SIZE
             f == offset_from_alignment(o)
  <2>1. x \in Nat /\ f \in Nat /\ o.offset + o.pos = x + f /\ x + CHUNK_SIZE <= y /\ y \in Nat
    <3>1. f \in Nat /\ o.offset + o.pos = x + f
      BY <1>1, <1>4, PieceOffset DEF Pos, index
    <3>2. index \in Nat /\ index + 1 \in Nat /\ index < index + 1
      BY <1>4
    <3> HIDE DEF index
    <3>3. x \in Nat /\ y \in Nat /\ x + CHUNK_SIZE <= y
      BY <3>2, LaterChunk, ChunkSizeAssumption
    <3>4. QED
      BY <3>1, <3>3
  <2>2. l \in Nat /\ m \in Nat /\ l <= m /\ y <= m
    <3>1. /\ Len(leaves') \in Nat /\ Len(leaves) <= Len(leaves') /\ index + 1 <= Len(leaves')
          /\ index + 1 \in Nat
      BY <1>3, <1>4, <1>5 DEF Larger
    <3>2. QED
      BY <1>3, <3>1, MoreChunks
  <2> HIDE DEF x, y, f, l, m
  <2>3. Reach(o) <= y
    BY <1>3, <1>4, <1>6, <2>1, ChunkSizeAssumption DEF f
  <2>4. QED
    BY <1>6, <2>1, <2>2, <2>3
<1> HIDE DEF l, m, a
<1>9. file_size' \in Nat /\ file_size <= file_size' /\ a <= file_size'
      /\ (file_size' = file_size \/ file_size' = a)
  BY <1>2, <1>3, <1>6 DEF Larger
<1>10. \A u \in Threads : pc'[u] # "io"
  BY <1>1, <1>2
<1>11. file_len' <= file_size'
  BY <1>2, <1>3, <1>6, <1>7, <1>9
<1>12. SizeReached' \/ \E u \in Threads : Pending(u)' /\ file_size' <= Announced(op'[u])
  <2>1. SizeReached' <=> file_size' <= file_len /\ file_size' <= m
    BY <1>2 DEF SizeReached, m
  <2>2. SizeReached => file_size <= file_len /\ file_size <= l
    BY DEF SizeReached, l
  <2>3. CASE o.pos + c = Len(o.buf)
    <3>1. Reach(o) = a
      BY <1>3, <1>4, <1>6, <2>3 DEF a, Announced
    <3>2. CASE file_size <= a
      <4>1. file_size' = a
        BY <1>2, <1>3, <1>6, <3>2 DEF Larger
      <4>2. QED
        BY <1>7, <1>8, <2>1, <3>1, <4>1
    <3>3. CASE a < file_size
      <4>1. file_size' = file_size
        BY <1>2, <1>3, <1>6, <3>3 DEF Larger
      <4>2. CASE SizeReached
        BY <1>3, <1>8, <2>1, <2>2, <4>1, <4>2
      <4>3. CASE \E u \in Threads : Pending(u) /\ file_size <= Announced(op[u])
        <5>1. PICK u \in Threads : Pending(u) /\ file_size <= Announced(op[u])
          BY <4>3
        <5>2. u # t
          BY <1>3, <1>6, <3>3, <5>1 DEF a
        <5>3. QED
          BY <1>2, <4>1, <5>1, <5>2 DEF Pending
      <4>4. QED
        BY <4>2, <4>3 DEF SizeInv
    <3>4. QED
      BY <1>3, <1>6, <3>2, <3>3
  <2>4. CASE o.pos + c # Len(o.buf)
    <3>1. Pending(t)' /\ Announced(op'[t]) = a
      <4> DEFINE p == o.pos
                 n == Len(o.buf)
      <4>1. p \in Nat /\ n \in Nat /\ p + c <= n /\ p + c # n /\ q.pos = p + c /\ q.buf = o.buf
        BY <1>3, <1>4, <2>4
      <4>2. q.pos < n
        <5> HIDE DEF p, n
        <5>1. QED
          BY <1>6, <4>1
      <4>3. q.pos < Len(q.buf)
        BY <4>1, <4>2
      <4>4. QED
        BY <1>2, <1>6, <4>3 DEF Pending
    <3>2. CASE file_size <= a
      <4>1. file_size' <= a
        BY <1>3, <1>6, <1>9, <3>2
      <4>2. QED
        BY <3>1, <4>1
    <3>3. CASE a < file_size
      <4>1. file_size' = file_size
        BY <1>2, <1>3, <1>6, <3>3 DEF Larger
      <4>2. CASE SizeReached
        BY <1>3, <1>8, <2>1, <2>2, <4>1, <4>2
      <4>3. CASE \E u \in Threads : Pending(u) /\ file_size <= Announced(op[u])
        <5>1. PICK u \in Threads : Pending(u) /\ file_size <= Announced(op[u])
          BY <4>3
        <5>2. u # t
          BY <1>3, <1>6, <3>3, <5>1 DEF a
        <5>3. QED
          BY <1>2, <4>1, <5>1, <5>2 DEF Pending
      <4>4. QED
        BY <4>2, <4>3 DEF SizeInv
    <3>4. QED
      BY <1>3, <1>6, <3>2, <3>3
  <2>5. QED
    BY <2>3, <2>4
<1>13. QED
  BY <1>10, <1>11, <1>12 DEF SizeInv

\* A resize sets all three.
LEMMA SResize ==
    ASSUME IInv, SizeInv, NEW t \in Threads, NEW size \in Sizes, Resize(t, size)
    PROVE  SizeInv'
<1>1. \A u \in Threads : pc[u] # "io"
  BY FreeLock DEF IInv, Resize, ResizeEnter
<1>2. UNCHANGED pc /\ file_size' = size /\ file_len' = size /\ size \in Nat
  BY EditorAssumption DEF Resize
<1>3. Len(leaves') = divide_roundup(size, CHUNK_SIZE) /\ Len(leaves') \in Nat
  BY ResizedLeaves
<1>4. size <= Len(leaves') * CHUNK_SIZE
  <2> DEFINE d == divide_roundup(size, CHUNK_SIZE)
  <2>1. d \in Nat
    BY <1>3
  <2>2. d <= d <=> size <= d * CHUNK_SIZE
    BY <1>2, <2>1, RoundUpBound
  <2>3. QED
    BY <1>3, <2>1, <2>2
<1>5. SizeReached'
  BY <1>2, <1>4 DEF SizeReached
<1>6. QED
  BY <1>1, <1>2, <1>5 DEF SizeInv

\* An empty file has every byte it was asked to have.
LEMMA SInit == Init => SizeInv
<1> SUFFICES ASSUME Init PROVE SizeInv
  OBVIOUS
<1>1. Len(leaves) = 0 /\ file_size = 0 /\ file_len = 0
  BY DEF Init
<1>2. SizeReached
  BY <1>1, ChunkSizeAssumption DEF SizeReached
<1>3. QED
  BY <1>1, <1>2 DEF Init, SizeInv

\* Every step keeps the sizes in line.
LEMMA SNext == NoFaults /\ IInv /\ RInv /\ SizeInv /\ [Next]_vars => SizeInv'
<1> SUFFICES ASSUME NoFaults, IInv, RInv, SizeInv, [Next]_vars PROVE SizeInv'
  OBVIOUS
<1>1. CASE UNCHANGED vars
  BY <1>1 DEF vars, SizeInv, SizeReached, Pending
<1>2. CASE Next
  <2>1. PICK t \in Threads : Step(t)
    BY <1>2 DEF Next
  <2>2. CASE \E buf \in Buffers, offset \in Offsets : WriteBegin(t, buf, offset)
    <3>1. pc[t] = "idle" /\ ~Pending(t)
      BY <2>2 DEF WriteBegin, Pending
    <3>2. /\ pc'[t] = "iter" /\ UNCHANGED <<leaves, file_size, file_len>>
          /\ \A u \in Threads \ {t} : op'[u] = op[u] /\ pc'[u] = pc[u]
      BY <2>2 DEF WriteBegin, IInv, TypeOK, tree, remote
    <3>3. QED
      BY <3>1, <3>2, SOutside
  <2>3. CASE WriteReturn(t)
    <3>1. pc[t] = "iter" /\ op[t].pos = Len(op[t].buf) /\ op[t] \in Op
      BY <2>3 DEF WriteReturn, IInv, TypeOK
    <3>2. ~Pending(t)
      BY <3>1 DEF Pending, Op
    <3>3. /\ pc'[t] = "idle" /\ UNCHANGED <<leaves, file_size, file_len>>
          /\ \A u \in Threads \ {t} : op'[u] = op[u] /\ pc'[u] = pc[u]
      BY <2>3 DEF WriteReturn, Return, IInv, TypeOK, tree, remote
    <3>4. QED
      BY <3>1, <3>2, <3>3, SOutside
  <2>4. CASE ChunkBegin(t)
    BY <2>4, SChunkBegin
  <2>5. CASE ChunkRefused(t)
    BY <2>5, NeverRefused
  <2>6. CASE \E n \in 1 .. CHUNK_SIZE : RemoteWrite(t, n)
    BY <2>6, SRemoteWrite
  <2>7. CASE ChunkCommit(t)
    BY <2>7, SChunkCommit
  <2>8. CASE \E size \in Sizes : Resize(t, size)
    BY <2>8, SResize
  <2>9. CASE \/ \E n \in 0 .. CHUNK_SIZE : RemoteWriteFails(t, n)
             \/ \E size \in Sizes : ResizeFails(t, size)
    BY <2>9 DEF NoFaults, RemoteWriteFails, ResizeFails
  <2>10. QED
    BY <2>1, <2>2, <2>3, <2>4, <2>5, <2>6, <2>7, <2>8, <2>9 DEF Step
<1>3. QED
  BY <1>1, <1>2

\* Once nobody writes, nothing is pending.
LEMMA QuietSizes == IInv /\ SizeInv => QuietSizesAgree
<1> SUFFICES ASSUME IInv, SizeInv, AllIdle
             PROVE  file_size = file_len /\ Len(leaves) = divide_roundup(file_size, CHUNK_SIZE)
  BY DEF QuietSizesAgree
<1> DEFINE d == divide_roundup(file_size, CHUNK_SIZE)
           n == Len(leaves)
<1>1. file_size \in Nat /\ file_len \in Nat /\ n \in Nat
  BY DEF IInv, TypeOK
<1>2. SizeReached /\ file_len <= file_size
  BY DEF SizeInv, AllIdle, Pending
<1>3. file_size = file_len
  BY <1>1, <1>2 DEF SizeReached
<1>4. d \in Nat
  BY <1>1, RoundUpBound
<1>5. d <= n
  BY <1>1, <1>2, RoundUpBound DEF SizeReached
<1>6. n <= d
  <2>1. CASE n = 0
    BY <1>4, <2>1
  <2>2. CASE n > 0
    <3> DEFINE j == n - 1
    <3>1. j \in Nat /\ j \in 0 .. Len(leaves) - 1
      BY <1>1, <2>2
    <3>2. j * CHUNK_SIZE < file_size
      BY <3>1 DEF IInv, TreeWithinSize
    <3>3. j * CHUNK_SIZE \in Nat
      BY <3>1, ChunkSizeAssumption
    <3>4. d <= j <=> file_size <= j * CHUNK_SIZE
      BY <1>1, <3>1, RoundUpBound
    <3> HIDE DEF d, n
    <3>5. QED
      BY <1>1, <1>4, <3>1, <3>2, <3>3, <3>4
  <2>3. QED
    BY <1>1, <2>1, <2>2
<1>7. QED
  BY <1>1, <1>3, <1>4, <1>5, <1>6

\* With a backend that answers every call, whenever nobody writes the tree's size
\* is the file's and the tree has a leaf for each of its chunks, however writes
\* and resizes overlapped before (update_hash and resize of builder.rs).
THEOREM SizesAgreeWhenQuiet ==
    NoFaults /\ Spec => []QuietSizesAgree
<1>1. NoFaults /\ [Next]_vars => NoFaults'
  BY DEF NoFaults
<1>2. QED
  BY <1>1, RInit, RNext, SInit, SNext, QuietSizes, Invariance, PTL DEF Spec

(***************************************************************************)
(* Reads.                                                                  *)
(***************************************************************************)

\* Chunks that have a leaf are chunks of the model.
LeavesInChunks == \A i \in Nat : i < Len(leaves) => i \in Chunks

\* The editor's part of the state.
EInv == IInv /\ RInv /\ SizeInv /\ LeavesInChunks

ReadType ==
    /\ reading = [r \in Readers |-> reading[r]]
    /\ \A r \in Readers :
          reading[r] \in [pc : {"idle", "chunks", "failed"}, offset : Nat, want : Nat,
                          got : {reading[r].got}, quiet : BOOLEAN]

\* A read that nothing overlapped is inside the file, and has what the tree has.
QuietRead(r) ==
    /\ AllIdle
    /\ reading[r].want > 0 => reading[r].offset + reading[r].want <= file_size
    /\ reading[r].got \in Seq(Byte)
    /\ Len(reading[r].got) <= reading[r].want
    /\ GotTreeBytes(r)

ReadInv ==
    /\ ReadType
    /\ \A r \in Readers : reading[r].quiet =>
          /\ reading[r].pc # "failed"
          /\ reading[r].pc = "chunks" => QuietRead(r)

-----------------------------------------------------------------------------
\* The elements of two sequences, one after the other.
LEMMA Concatenation ==
    ASSUME NEW S, NEW a \in Seq(S), NEW b \in Seq(S)
    PROVE  /\ a \o b \in Seq(S) /\ Len(a \o b) = Len(a) + Len(b)
           /\ \A k \in 1 .. Len(a) + Len(b) :
                 (a \o b)[k] = IF k <= Len(a) THEN a[k] ELSE b[k - Len(a)]
OBVIOUS

\* A chunk index and a position in the chunk are those of their offset.
LEMMA ChunkPosition ==
    ASSUME NEW i \in Nat, NEW p \in Pos
    PROVE  /\ i * CHUNK_SIZE + p \in Nat
           /\ (i * CHUNK_SIZE + p) \div CHUNK_SIZE = i
           /\ (i * CHUNK_SIZE + p) % CHUNK_SIZE = p
<1> DEFINE n == i * CHUNK_SIZE + p
           q == n \div CHUNK_SIZE
           x == i * CHUNK_SIZE
           y == q * CHUNK_SIZE
<1>1. CHUNK_SIZE \in Nat /\ x \in Nat /\ p \in Nat /\ p < CHUNK_SIZE
  BY ChunkSizeAssumption DEF Pos
<1>2. n \in Nat
  BY <1>1
<1>3. n = x + p
  OBVIOUS
<1> HIDE DEF n
<1>4. q \in Nat /\ n % CHUNK_SIZE \in Pos /\ n = y + (n % CHUNK_SIZE)
  BY <1>2, DivMod
<1>5. y \in Nat
  BY <1>1, <1>4
<1>6. /\ q < i => y + CHUNK_SIZE <= x
      /\ i < q => x + CHUNK_SIZE <= y
  BY <1>4, LaterChunk
<1>7. i = q => x = y
  OBVIOUS
<1> HIDE DEF q, x, y
<1>8. q = i
  BY <1>1, <1>2, <1>3, <1>4, <1>5, <1>6 DEF Pos
<1>9. n % CHUNK_SIZE = p
  BY <1>1, <1>2, <1>3, <1>4, <1>5, <1>7, <1>8 DEF Pos
<1>10. QED
  BY <1>2, <1>8, <1>9 DEF n, q

\* The tree keeps to the chunks of the model.
LEMMA LeavesStayInChunks ==
    NoFaults /\ IInv /\ LeavesInChunks /\ [Next]_vars => LeavesInChunks'
<1> SUFFICES ASSUME NoFaults, IInv, LeavesInChunks, [Next]_vars PROVE LeavesInChunks'
  OBVIOUS
<1>1. CASE UNCHANGED leaves
  BY <1>1 DEF LeavesInChunks
<1>2. ASSUME NEW t \in Threads, ChunkCommit(t)
      PROVE  LeavesInChunks'
  <2> DEFINE index == output_chunk_index(op[t])
  <2>1. index \in Nat /\ index \in Chunks
    BY <1>2, PieceFacts DEF ChunkCommit, IInv, TypeOK, OpInv, IoInv
  <2>2. Len(leaves') = Larger(Len(leaves), index + 1) /\ Len(leaves) \in Nat
    BY <1>2, CommittedLeaves DEF IInv, TypeOK
  <2> HIDE DEF index
  <2>3. \A i \in Nat : i < Len(leaves') => i < Len(leaves) \/ i \in 0 .. index
    BY <2>1, <2>2 DEF Larger
  <2>4. QED
    BY <2>1, <2>3, ReadersAssumption DEF LeavesInChunks
<1>3. ASSUME NEW t \in Threads, NEW size \in Sizes, Resize(t, size)
      PROVE  LeavesInChunks'
  <2> DEFINE n == divide_roundup(size, CHUNK_SIZE)
  <2>1. Len(leaves') = n /\ n \in Nat
    BY <1>3, ResizedLeaves, RoundUpBound, EditorAssumption
  <2>2. \A i \in 0 .. n - 1 : i \in Chunks
    BY <1>3 DEF Resize, ResizeEnter
  <2> HIDE DEF n
  <2>3. QED
    BY <2>1, <2>2 DEF LeavesInChunks
<1>4. CASE Next
  <2>1. PICK t \in Threads : Step(t)
    BY <1>4 DEF Next
  <2>2. UNCHANGED leaves \/ ChunkCommit(t) \/ \E size \in Sizes : Resize(t, size)
    BY <2>1, Zenon DEF Step, WriteBegin, ChunkBegin, ChunkRefused, RemoteWrite, RemoteWriteFails,
                WriteReturn, ResizeFails, NoFaults, tree
  <2>3. QED
    BY <1>1, <1>2, <1>3, <2>2
<1>5. QED
  BY <1>1, <1>4 DEF vars

-----------------------------------------------------------------------------
\* In a quiet file, an offset below the size is in a chunk of the model, where
\* the tree has what the file has.
LEMMA QuietChunk ==
    ASSUME NoFaults, EInv, AllIdle, NEW n \in Nat, n < file_size
    PROVE  /\ file_len = file_size
           /\ n \div CHUNK_SIZE \in Chunks
           /\ file[n \div CHUNK_SIZE] \in Chunk
           /\ TreeContent[n \div CHUNK_SIZE] = file[n \div CHUNK_SIZE]
<1> DEFINE i == n \div CHUNK_SIZE
           m == Len(leaves)
           x == i * CHUNK_SIZE
           y == m * CHUNK_SIZE
<1>1. /\ file_len = file_size /\ m = divide_roundup(file_size, CHUNK_SIZE)
      /\ file_size \in Nat /\ m \in Nat
  BY QuietSizes DEF EInv, QuietSizesAgree, IInv, TypeOK
<1>2. file_size <= y
  BY <1>1, RoundUpBound
<1>3. i \in Nat /\ n % CHUNK_SIZE \in Nat /\ n = x + (n % CHUNK_SIZE)
  BY DivMod, ChunkSizeAssumption DEF Pos
<1>4. m <= i => x \in Nat /\ y \in Nat /\ y <= x
  BY <1>1, <1>3, MoreChunks
<1>5. i < m
  <2> HIDE DEF i, m, x, y
  <2> QED
    BY <1>1, <1>2, <1>3, <1>4
<1>6. i \in Chunks
  BY <1>3, <1>5 DEF EInv, LeavesInChunks
<1>7. \A u \in Threads : pc[u] # "io"
  BY DEF AllIdle
<1>8. TreeContent[i] = file[i]
  BY <1>6, <1>7, ContentIsFile DEF EInv, RInv
<1>9. QED
  BY <1>1, <1>6, <1>8 DEF EInv, IInv, TypeOK

\* Where the next chunk of a quiet read lies.
LEMMA NextChunk ==
    ASSUME ReadInv, EInv, NoFaults, NEW r \in Readers,
           reading[r].pc = "chunks", reading[r].quiet, Fetching(r)
    PROVE  LET index == chunk_index(r)
               begin == current_offset(r) % CHUNK_SIZE
               n == planned_data_size(r)
           IN  /\ index \in Nat /\ begin \in Nat /\ n \in Nat /\ n > 0
               /\ begin + n <= CHUNK_SIZE
               /\ current_offset(r) = index * CHUNK_SIZE + begin
               /\ current_offset(r) \in Nat
               /\ current_offset(r) + n <= file_size
               /\ Len(reading[r].got) + n <= reading[r].want
               /\ file[index] \in Chunk /\ TreeContent[index] = file[index]
               /\ file_len = file_size
<1> DEFINE o == reading[r].offset
           l == Len(reading[r].got)
           w == reading[r].want
           c == current_offset(r)
           begin == c % CHUNK_SIZE
           index == chunk_index(r)
           n == planned_data_size(r)
<1>1. /\ o \in Nat /\ l \in Nat /\ w \in Nat /\ l < w /\ o + w <= file_size /\ AllIdle
  <2>1. o \in Nat /\ w \in Nat
    BY DEF ReadInv, ReadType
  <2>2. QuietRead(r)
    BY DEF ReadInv
  <2>3. QED
    BY <2>1, <2>2 DEF QuietRead, Fetching
<1>2. c = o + l /\ c \in Nat /\ file_size \in Nat
  BY <1>1 DEF current_offset, EInv, IInv, TypeOK
<1>3. c < file_size
  <2> HIDE DEF c, o, l, w
  <2> QED
    BY <1>1, <1>2
<1>4. index = c \div CHUNK_SIZE
  BY DEF chunk_index
<1>5. /\ index \in Nat /\ begin \in Nat /\ begin < CHUNK_SIZE
      /\ c = index * CHUNK_SIZE + begin
  <2> HIDE DEF c, index
  <2>1. /\ c \div CHUNK_SIZE \in Nat /\ begin \in Pos
        /\ c = (c \div CHUNK_SIZE) * CHUNK_SIZE + begin
    BY <1>2, DivMod
  <2>2. begin \in Nat /\ begin < CHUNK_SIZE
    BY <2>1, ChunkSizeAssumption DEF Pos
  <2>3. QED
    BY <1>4, <2>1, <2>2
<1>6. n = Smaller(w - l, CHUNK_SIZE - begin)
  BY DEF planned_data_size
<1>7. /\ n \in Nat /\ n > 0 /\ begin + n <= CHUNK_SIZE /\ c + n <= file_size /\ l + n <= w
  <2> HIDE DEF n, c, begin, o, l, w
  <2> QED
    BY <1>1, <1>2, <1>5, <1>6, ChunkSizeAssumption DEF Smaller
<1>8. file_len = file_size /\ file[index] \in Chunk /\ TreeContent[index] = file[index]
  <2> HIDE DEF c, index
  <2> QED
    BY <1>1, <1>2, <1>3, <1>4, QuietChunk
<1>9. QED
  BY <1>2, <1>5, <1>7, <1>8

\* A quiet read is never short of data.
LEMMA QuietReadFindsData ==
    ASSUME ReadInv, EInv, NoFaults, NEW r \in Readers,
           reading[r].pc = "chunks", reading[r].quiet, Fetching(r)
    PROVE  EnoughData(r)
<1> DEFINE index == chunk_index(r)
           begin == current_offset(r) % CHUNK_SIZE
           n == planned_data_size(r)
           x == index * CHUNK_SIZE
           c == current_offset(r)
<1>1. /\ index \in Nat /\ begin \in Nat /\ n \in Nat /\ begin + n <= CHUNK_SIZE
      /\ c = x + begin /\ c + n <= file_size /\ file_len = file_size
  BY NextChunk
<1>2. x \in Nat /\ file_len \in Nat /\ CHUNK_SIZE \in Nat
  BY <1>1, ChunkSizeAssumption DEF EInv, IInv, TypeOK
<1>3. read_size(index) = Smaller(CHUNK_SIZE, Larger(file_len - x, 0))
  BY DEF read_size
<1>4. read_size(index) >= n
  <2> HIDE DEF index, begin, n, x, c
  <2> QED
    BY <1>1, <1>2, <1>3 DEF Smaller, Larger
<1>5. QED
  BY <1>4 DEF EnoughData

-----------------------------------------------------------------------------
(* The steps of a reader, which leave the editor alone. *)

\* Each reader's step changes its own read only.
LEMMA OneReader ==
    ASSUME ReadInv, UNCHANGED vars, NEW r \in Readers, NEW x,
           reading' = [reading EXCEPT ![r] = x],
           x \in [pc : {"idle", "chunks", "failed"}, offset : Nat, want : Nat,
                  got : {x.got}, quiet : BOOLEAN],
           x.quiet => /\ x.pc # "failed"
                      /\ x.pc = "chunks" => QuietRead(r)'
    PROVE  ReadInv'
<1>1. /\ reading'[r] = x
      /\ \A s \in Readers \ {r} : reading'[s] = reading[s]
      /\ reading' = [s \in Readers |-> reading'[s]]
  BY DEF ReadInv, ReadType
<1>2. ReadType'
  BY <1>1 DEF ReadInv, ReadType
<1>3. \A s \in Readers \ {r} : QuietRead(s) => QuietRead(s)'
  <2>1. TreeContent' = TreeContent /\ file_size' = file_size /\ (AllIdle => AllIdle')
    BY DEF TreeContent, AllIdle, vars
  <2>2. \A s \in Readers \ {r} : GotTreeBytes(s) => GotTreeBytes(s)'
    BY <1>1, <2>1 DEF GotTreeBytes, TreeByte
  <2>3. QED
    BY <1>1, <2>1, <2>2 DEF QuietRead
<1>4. QED
  BY <1>1, <1>2, <1>3 DEF ReadInv

\* A read that begins lies inside the file, or returns nothing.
LEMMA ReadBeginInv ==
    ASSUME ReadInv, EInv, NEW r \in Readers, NEW i \in Chunks, NEW size \in ReadSizes,
           ReadBegin(r, i * CHUNK_SIZE, size)
    PROVE  ReadInv'
<1> DEFINE o == i * CHUNK_SIZE
           w == Smaller(size, Larger(file_size - o, 0))
           x == [pc |-> "chunks", offset |-> o, got |-> <<>>, quiet |-> ~EditorBusy, want |-> w]
<1>1. o \in Nat /\ size \in Nat /\ file_size \in Nat
  BY EditorAssumption, ChunkSizeAssumption, ReadersAssumption DEF EInv, IInv, TypeOK
<1>2. UNCHANGED vars /\ reading' = [reading EXCEPT ![r] = x]
  BY DEF ReadBegin
<1> HIDE DEF o
<1>3. w \in Nat /\ (w > 0 => o + w <= file_size)
  BY <1>1 DEF Smaller, Larger
<1> HIDE DEF w
<1>4. x \in [pc : {"idle", "chunks", "failed"}, offset : Nat, want : Nat,
             got : {x.got}, quiet : BOOLEAN]
  BY <1>1, <1>3 DEF EditorBusy
<1>5. reading'[r] = x
  BY <1>2 DEF ReadInv, ReadType
<1>6. ASSUME x.quiet PROVE QuietRead(r)'
  <2>1. AllIdle'
    BY <1>2, <1>6, Zenon DEF EditorBusy, AllIdle, vars
  <2>2. file_size' = file_size
    BY <1>2 DEF vars
  <2>3. reading'[r].got = <<>> /\ reading'[r].want = w /\ reading'[r].offset = o
    BY <1>5
  <2>4. <<>> \in Seq(Byte) /\ Len(<<>>) = 0
    OBVIOUS
  <2>5. GotTreeBytes(r)'
    BY <2>3, <2>4 DEF GotTreeBytes
  <2>6. QED
    BY <1>3, <2>1, <2>2, <2>3, <2>4, <2>5 DEF QuietRead
<1>7. QED
  BY <1>2, <1>4, <1>6, OneReader, Zenon

\* A chunk that is read while nothing was written is that of the tree.
LEMMA ReadChunkInv ==
    ASSUME ReadInv, EInv, NoFaults, NEW r \in Readers, ReadChunk(r)
    PROVE  ReadInv'
<1> DEFINE index == chunk_index(r)
           begin == current_offset(r) % CHUNK_SIZE
           n == planned_data_size(r)
           o == reading[r].offset
           g == reading[r].got
           l == Len(g)
           s == [k \in 1 .. n |-> file[index][begin + k - 1]]
           x == [reading[r] EXCEPT !.got = g \o s]
<1>1. /\ UNCHANGED vars /\ reading' = [reading EXCEPT ![r] = x]
      /\ reading[r].pc = "chunks" /\ Fetching(r)
  BY DEF ReadChunk, Fetching
<1>2. reading[r] \in [pc : {"idle", "chunks", "failed"}, offset : Nat, want : Nat,
                      got : {g}, quiet : BOOLEAN]
  BY DEF ReadInv, ReadType
<1>3. /\ x.pc = "chunks" /\ x.offset = o /\ x.want = reading[r].want
      /\ x.quiet = reading[r].quiet /\ x.got = g \o s
      /\ x \in [pc : {"idle", "chunks", "failed"}, offset : Nat, want : Nat,
                got : {x.got}, quiet : BOOLEAN]
  <2> HIDE DEF s
  <2> QED
    BY <1>1, <1>2, Zenon
<1>4. reading'[r] = x
  BY <1>1 DEF ReadInv, ReadType
<1>5. ASSUME x.quiet PROVE QuietRead(r)'
  <2>1. /\ index \in Nat /\ begin \in Nat /\ n \in Nat /\ begin + n <= CHUNK_SIZE
        /\ current_offset(r) = index * CHUNK_SIZE + begin
        /\ l + n <= reading[r].want
        /\ file[index] \in Chunk /\ TreeContent[index] = file[index]
    BY <1>1, <1>3, <1>5, NextChunk, Zenon
  <2>2. QuietRead(r) /\ g \in Seq(Byte) /\ l \in Nat /\ o \in Nat
    <3>1. QuietRead(r)
      BY <1>1, <1>3, <1>5, Zenon DEF ReadInv
    <3>2. g \in Seq(Byte)
      BY <3>1 DEF QuietRead
    <3>3. o \in Nat
      BY <1>2
    <3>4. QED
      BY <3>1, <3>2, <3>3
  <2>3. \A k \in 1 .. n : begin + k - 1 \in Pos
    <3> HIDE DEF begin, n
    <3> QED
      BY <2>1, ChunkSizeAssumption DEF Pos
  <2>4. s \in Seq(Byte) /\ Len(s) = n
    <3>1. \A k \in 1 .. n : file[index][begin + k - 1] \in Byte
      BY <2>1, <2>3 DEF Chunk
    <3> HIDE DEF n, begin, index
    <3>2. QED
      BY <2>1, <3>1
  <2>5. /\ g \o s \in Seq(Byte) /\ Len(g \o s) = l + n
        /\ \A k \in 1 .. l + n : (g \o s)[k] = IF k <= l THEN g[k] ELSE s[k - l]
    <3> HIDE DEF s, n, g
    <3> QED
      BY <2>1, <2>2, <2>4, Concatenation, Zenon
  <2>6. ASSUME NEW k \in 1 .. l + n
        PROVE  (g \o s)[k] = TreeByte(o + k - 1)
    <3>1. CASE k <= l
      <4>1. g[k] = TreeByte(o + k - 1)
        BY <2>2, <3>1 DEF QuietRead, GotTreeBytes
      <4>2. QED
        BY <2>5, <3>1, <4>1, Zenon
    <3>2. CASE k > l
      <4> DEFINE j == k - l
                 p == begin + j - 1
      <4>1. j \in 1 .. n
        <5> HIDE DEF n, l
        <5> QED
          BY <2>1, <2>2, <3>2
      <4>2. p \in Pos /\ s[j] = file[index][p]
        BY <2>3, <4>1
      <4>3. current_offset(r) = o + l
        BY DEF current_offset
      <4>4. o + k - 1 = index * CHUNK_SIZE + p
        <5> DEFINE y == index * CHUNK_SIZE
        <5>1. o + l = y + begin
          BY <2>1, <4>3
        <5>2. y \in Nat
          <6> HIDE DEF index
          <6> QED
            BY <2>1, ChunkSizeAssumption
        <5> HIDE DEF y, l, begin, o
        <5>3. o + k - 1 = y + p
          BY <2>1, <2>2, <5>1, <5>2
        <5> HIDE DEF p
        <5>4. QED
          BY <5>3 DEF y
      <4> HIDE DEF p
      <4>5. TreeByte(o + k - 1) = TreeContent[index][p]
        BY <2>1, <4>2, <4>4, ChunkPosition, Zenon DEF TreeByte
      <4>6. (g \o s)[k] = s[j]
        <5> HIDE DEF n, s
        <5> QED
          BY <2>2, <2>5, <3>2
      <4>7. QED
        BY <2>1, <4>2, <4>5, <4>6
    <3>3. QED
      BY <2>1, <2>2, <3>1, <3>2
  <2> HIDE DEF s, n, l, o, g
  <2>7. /\ reading'[r].got = g \o s /\ reading'[r].want = reading[r].want
        /\ reading'[r].offset = o
    BY <1>3, <1>4
  <2>8. GotTreeBytes(r)'
    BY <1>1, <2>5, <2>6, <2>7, Zenon DEF GotTreeBytes, TreeByte, TreeContent, vars
  <2>9. AllIdle' /\ file_size' = file_size
    BY <1>1, <2>2 DEF QuietRead, AllIdle, vars
  <2>10. QED
    BY <2>1, <2>2, <2>5, <2>7, <2>8, <2>9 DEF QuietRead, o
<1>6. QED
  BY <1>1, <1>3, <1>5, OneReader, Zenon

\* Without faults, no read fails that nothing overlapped.
LEMMA ReadFailsInv ==
    ASSUME ReadInv, EInv, NoFaults, NEW r \in Readers, ReadFails(r)
    PROVE  ReadInv'
<1> DEFINE x == [NoRead EXCEPT !.pc = "failed", !.quiet = reading[r].quiet]
<1>1. UNCHANGED vars /\ reading' = [reading EXCEPT ![r] = x]
  BY DEF ReadFails
<1>2. reading[r].quiet \in BOOLEAN
  BY DEF ReadInv, ReadType
<1>3. /\ x.quiet = reading[r].quiet
      /\ x \in [pc : {"idle", "chunks", "failed"}, offset : Nat, want : Nat,
                got : {x.got}, quiet : BOOLEAN]
  BY <1>2, Zenon DEF NoRead
<1>4. ~reading[r].quiet
  BY QuietReadFindsData DEF ReadFails, Fetching, NoFaults
<1>5. QED
  <2> HIDE DEF x
  <2> QED
    BY <1>1, <1>3, <1>4, OneReader, Zenon

\* A reader that got its reply has no read in progress.
LEMMA ReadReplyInv ==
    ASSUME ReadInv, NEW r \in Readers, ReadReply(r)
    PROVE  ReadInv'
<1>1. UNCHANGED vars /\ reading' = [reading EXCEPT ![r] = NoRead]
  BY DEF ReadReply
<1>2. /\ NoRead.pc = "idle"
      /\ NoRead \in [pc : {"idle", "chunks", "failed"}, offset : Nat, want : Nat,
                     got : {NoRead.got}, quiet : BOOLEAN]
  BY DEF NoRead
<1>3. QED
  BY <1>1, <1>2, OneReader, Zenon

\* A write or a resize ends the quiet of every read in progress.
LEMMA EditorStepInv ==
    ASSUME ReadInv, EditorStep
    PROVE  ReadInv'
<1> DEFINE x(r) == [reading[r] EXCEPT !.quiet = @ /\ reading[r].pc # "chunks"]
<1>1. ASSUME NEW r \in Readers
      PROVE  /\ reading'[r] = x(r) /\ x(r).pc = reading[r].pc
             /\ x(r).quiet <=> reading[r].quiet /\ reading[r].pc # "chunks"
             /\ x(r) \in [pc : {"idle", "chunks", "failed"}, offset : Nat, want : Nat,
                          got : {x(r).got}, quiet : BOOLEAN]
  <2>1. reading[r] \in [pc : {"idle", "chunks", "failed"}, offset : Nat, want : Nat,
                        got : {reading[r].got}, quiet : BOOLEAN]
    BY DEF ReadInv, ReadType
  <2>2. reading'[r] = x(r)
    BY DEF EditorStep
  <2>3. QED
    BY <2>1, <2>2, Zenon
<1>2. reading' = [r \in Readers |-> reading'[r]]
  BY DEF EditorStep
<1> HIDE DEF x
<1>3. ReadType'
  BY <1>1, <1>2 DEF ReadType
<1>4. \A r \in Readers : reading'[r].quiet => reading'[r].pc \notin {"failed", "chunks"}
  BY <1>1 DEF ReadInv
<1>5. QED
  BY <1>3, <1>4 DEF ReadInv

-----------------------------------------------------------------------------
\* Steps of the file system keep the invariants of the editor.
LEMMA EditorInv ==
    NoFaults /\ EInv /\ [FsNext]_authfs_vars => EInv'
<1> SUFFICES ASSUME NoFaults, EInv, [FsNext]_authfs_vars PROVE EInv'
  OBVIOUS
<1>1. [Next]_vars
  BY Zenon DEF FsNext, EditorStep, ReaderStep, ReadBegin, ReadChunk, ReadFails, ReadReply, authfs_vars
<1>2. QED
  BY <1>1, NextInv, RNext, SNext, LeavesStayInChunks DEF EInv

\* The invariant of the reads holds in every state.
LEMMA ReadsInv ==
    NoFaults /\ EInv /\ ReadInv /\ [FsNext]_authfs_vars => ReadInv'
<1> SUFFICES ASSUME NoFaults, EInv, ReadInv, [FsNext]_authfs_vars PROVE ReadInv'
  OBVIOUS
<1>1. CASE UNCHANGED authfs_vars
  <2>1. UNCHANGED vars /\ reading' = reading
    BY <1>1 DEF authfs_vars
  <2>2. TreeContent' = TreeContent /\ file_size' = file_size /\ (AllIdle => AllIdle')
    BY <2>1 DEF TreeContent, AllIdle, vars
  <2>3. \A r \in Readers : QuietRead(r) => QuietRead(r)'
    BY <2>1, <2>2 DEF QuietRead, GotTreeBytes, TreeByte
  <2>4. ReadType'
    BY <2>1 DEF ReadInv, ReadType
  <2>5. QED
    BY <2>1, <2>3, <2>4 DEF ReadInv
<1>2. CASE EditorStep
  BY <1>2, EditorStepInv
<1>3. ASSUME NEW r \in Readers, ReaderStep(r)
      PROVE  ReadInv'
  BY <1>3, ReadBeginInv, ReadChunkInv, ReadFailsInv, ReadReplyInv DEF ReaderStep
<1>4. QED
  BY <1>1, <1>2, <1>3 DEF FsNext

\* Reads of a writable file see the tree, whatever the chunk size, the number
\* of readers and writers and the sizes asked for: with a backend that answers
\* every call, a read that no write and no resize overlaps returns what the
\* tree has, although read_chunks (fusefs.rs:142-174) checks nothing.
THEOREM QuietReadsSeeTheTree ==
    NoFaults /\ FsSpec => []QuietReadsReturnTree
<1>1. FsInit => EInv
  <2> SUFFICES ASSUME FsInit PROVE EInv
    OBVIOUS
  <2>1. IInv /\ RInv /\ SizeInv
    BY InitInv, RInit, SInit DEF FsInit
  <2>2. LeavesInChunks
    BY DEF FsInit, Init, LeavesInChunks
  <2>3. QED
    BY <2>1, <2>2 DEF EInv
<1>2. FsInit => ReadInv
  BY DEF FsInit, ReadInv, ReadType, NoRead
<1>3. EInv /\ ReadInv => QuietReadsReturnTree
  BY DEF ReadInv, QuietRead, QuietReadsReturnTree
<1>4. NoFaults /\ [FsNext]_authfs_vars => NoFaults'
  BY DEF NoFaults
<1>5. QED
  BY <1>1, <1>2, <1>3, <1>4, EditorInv, ReadsInv, PTL DEF FsSpec
=============================================================================
