---------------------- MODULE VerifiedFileEditorProofs ----------------------
(***************************************************************************)
(* Proofs about VerifiedFileEditor for every chunk size, every number of   *)
(* threads, every file and every choice of faults.                         *)
(***************************************************************************)
EXTENDS VerifiedFileEditor, TLAPS

(* The inductive invariant. *)

\* The lock is held exactly by the thread inside write_all_at.
LockInv == \A t \in Threads : pc[t] = "io" <=> lock = t

\* The write o stays inside the chunks of the model.
InChunks(o) ==
    \A x \in o.offset .. o.offset + Len(o.buf) - 1 : x \div CHUNK_SIZE \in Chunks

OpInv ==
    \A t \in Threads :
        /\ pc[t] # "idle" => op[t].pos <= Len(op[t].buf) /\ InChunks(op[t])
        /\ pc[t] = "iter" => op[t].wrote = 0

\* The piece in flight will leave a chunk that matches the hash in hand.
Settles(o, tree_leaves, suspects) ==
    \/ IsComplete(o)
    \/ is_index_valid(tree_leaves, output_chunk_index(o))
    \/ output_chunk_index(o) \notin suspects

\* The hash in hand covers no byte past the size that the commit will announce.
HashWithinSize(o, size) ==
    \A p \in Pos : o.hash.sha256[p] # 0 =>
        output_chunk_index(o) * CHUNK_SIZE + p < Larger(size, o.offset + Len(o.buf))

\* The hash in hand is that of the chunk once the rest of the piece is stored.
HashAnticipates(o, chunk) ==
    o.hash = Sha256(Patched(chunk, o, o.wrote, current_size(o)))

IoInv ==
    \A t \in Threads : pc[t] = "io" =>
        /\ op[t].pos < Len(op[t].buf)
        /\ op[t].wrote <= current_size(op[t])
        /\ HashWithinSize(op[t], file_size)
        /\ Settles(op[t], leaves, suspect) =>
              HashAnticipates(op[t], file[output_chunk_index(op[t])])

IInv ==
    /\ TypeOK
    /\ LockInv
    /\ OpInv
    /\ IoInv
    /\ AcknowledgedChunksVerify
    /\ TreeWithinSize

-----------------------------------------------------------------------------
(* Arithmetic of chunks. *)

\* An offset is a chunk index and a position in the chunk.
LEMMA DivMod ==
    \A n \in Nat : /\ n \div CHUNK_SIZE \in Nat
                   /\ n % CHUNK_SIZE \in Pos
                   /\ n = (n \div CHUNK_SIZE) * CHUNK_SIZE + (n % CHUNK_SIZE)
BY ChunkSizeAssumption DEF Pos

\* A later chunk starts after an earlier one ends.
LEMMA LaterChunk ==
    \A i, j \in Nat : i < j => i * CHUNK_SIZE + CHUNK_SIZE <= j * CHUNK_SIZE
BY ChunkSizeAssumption

\* divide_roundup counts a last, incomplete chunk.
LEMMA RoundUp ==
    \A n \in Nat :
        /\ n % CHUNK_SIZE = 0 => divide_roundup(n, CHUNK_SIZE) = n \div CHUNK_SIZE
        /\ n % CHUNK_SIZE > 0 => divide_roundup(n, CHUNK_SIZE) = n \div CHUNK_SIZE + 1
BY ChunkSizeAssumption, DivMod, SMTT(30) DEF Pos, divide_roundup

\* The chunk of zeros is a chunk and has a hash.
LEMMA ZeroChunkType == ZeroChunk \in Chunk /\ HASH_OF_4096_ZEROS \in Hash
BY ByteAssumption DEF ZeroChunk, Chunk, HASH_OF_4096_ZEROS, Sha256, Hash

-----------------------------------------------------------------------------
(* The operations of MerkleLeaves. *)

\* resize_leaves keeps the leaves that remain and fills in hashes of zeros.
LEMMA ResizeLeaves ==
    ASSUME NEW v \in Seq(Hash), NEW n \in Nat
    PROVE  /\ resize_leaves(v, n) \in Seq(Hash)
           /\ Len(resize_leaves(v, n)) = n
           /\ \A i \in 1 .. n : resize_leaves(v, n)[i] =
                 IF i <= Len(v) THEN v[i] ELSE HASH_OF_4096_ZEROS
BY ZeroChunkType DEF resize_leaves

\* update_hash sets one leaf, keeps the others and fills in hashes of zeros.
LEMMA UpdateHash ==
    ASSUME NEW v \in Seq(Hash), NEW index \in Nat, NEW h \in Hash
    PROVE  /\ update_hash(v, index, h) \in Seq(Hash)
           /\ Len(update_hash(v, index, h)) = Larger(Len(v), index + 1)
           /\ update_hash(v, index, h)[index + 1] = h
           /\ \A i \in 1 .. Len(update_hash(v, index, h)) : i # index + 1 =>
                 update_hash(v, index, h)[i] =
                    IF i <= Len(v) THEN v[i] ELSE HASH_OF_4096_ZEROS
<1> DEFINE n == Larger(Len(v), index + 1)
           r == resize_leaves(v, n)
<1>1. n \in Nat /\ index + 1 \in 1 .. n
  BY DEF Larger
<1>2. /\ r \in Seq(Hash)
      /\ Len(r) = n
      /\ \A i \in 1 .. n : r[i] = IF i <= Len(v) THEN v[i] ELSE HASH_OF_4096_ZEROS
  BY <1>1, ResizeLeaves, Zenon
<1> HIDE DEF n, r
<1>3. update_hash(v, index, h) = [r EXCEPT ![index + 1] = h]
  BY DEF update_hash, r, n
<1>4. Larger(Len(v), index + 1) = n
  BY DEF n
<1>5. QED
  BY <1>1, <1>2, <1>3, <1>4

-----------------------------------------------------------------------------
(* The piece that a write is at. *)

\* ChunkedSizeIter keeps the piece inside its chunk and inside the buffer.
LEMMA PieceFacts ==
    ASSUME NEW o \in Op, o.pos < Len(o.buf), InChunks(o)
    PROVE  /\ output_chunk_index(o) \in Nat
           /\ output_chunk_index(o) \in Chunks
           /\ offset_from_alignment(o) \in Pos
           /\ current_size(o) \in 1 .. CHUNK_SIZE
           /\ offset_from_alignment(o) + current_size(o) <= CHUNK_SIZE
           /\ o.pos + current_size(o) <= Len(o.buf)
<1>1. /\ o.buf \in Seq(Byte) /\ Len(o.buf) \in Nat
      /\ o.offset \in Nat /\ o.pos \in Nat
  BY DEF Op
<1>2. /\ output_offset(o) \in Nat
      /\ output_offset(o) \in o.offset .. o.offset + Len(o.buf) - 1
  BY <1>1 DEF output_offset
<1>3. output_chunk_index(o) \in Chunks
  BY <1>2 DEF InChunks, output_chunk_index
<1>4. /\ output_chunk_index(o) \in Nat
      /\ offset_from_alignment(o) \in Pos
  BY <1>2, DivMod DEF output_chunk_index, offset_from_alignment
<1> DEFINE n == Len(o.buf) - o.pos
           room == CHUNK_SIZE - offset_from_alignment(o)
           l == Len(o.buf)
           q == o.pos
           c == current_size(o)
<1>5. n \in Nat \ {0} /\ room \in 1 .. CHUNK_SIZE
  BY <1>1, <1>4, ChunkSizeAssumption, SMTT(30) DEF Pos
<1>6. \/ c = n /\ n < room
      \/ c = room /\ room <= n
  BY <1>5 DEF current_size, Smaller
<1>7. c \in 1 .. CHUNK_SIZE
  BY <1>5, <1>6, ChunkSizeAssumption
<1>8. offset_from_alignment(o) + c <= CHUNK_SIZE
  BY <1>4, <1>5, <1>6, <1>7, ChunkSizeAssumption DEF Pos
<1>9. l \in Nat /\ q \in Nat /\ c \in Nat /\ c <= l - q
  BY <1>1, <1>5, <1>6, <1>7
<1> HIDE DEF l, q, c
<1>10. q + c <= l
  BY <1>9
<1>11. QED
  BY <1>3, <1>4, <1>7, <1>8, <1>10 DEF l, q, c

\* Its place in the file is its place in the chunk.
LEMMA PieceOffset ==
    ASSUME NEW o \in Op
    PROVE  o.offset + o.pos = output_chunk_index(o) * CHUNK_SIZE + offset_from_alignment(o)
<1>1. o.offset + o.pos \in Nat
  BY DEF Op
<1>2. QED
  BY <1>1, DivMod DEF output_chunk_index, offset_from_alignment, output_offset

\* The piece depends on the buffer, the offset and the position alone.
LEMMA SamePiece ==
    ASSUME NEW o, NEW q, q.buf = o.buf, q.offset = o.offset, q.pos = o.pos
    PROVE  /\ output_chunk_index(q) = output_chunk_index(o)
           /\ offset_from_alignment(q) = offset_from_alignment(o)
           /\ current_size(q) = current_size(o)
           /\ IsComplete(q) <=> IsComplete(o)
           /\ \A c, a, b : Patched(c, q, a, b) = Patched(c, o, a, b)
BY DEF output_chunk_index, offset_from_alignment, current_size, IsComplete, Patched,
       output_offset

\* Patching bytes of the piece into a chunk yields a chunk.
LEMMA PatchedType ==
    ASSUME NEW o \in Op, o.pos < Len(o.buf), InChunks(o),
           NEW c \in Chunk, NEW a \in Nat, NEW b \in Nat, b <= current_size(o)
    PROVE  Patched(c, o, a, b) \in Chunk
<1>1. /\ o.buf \in Seq(Byte) /\ Len(o.buf) \in Nat /\ o.pos \in Nat
  BY DEF Op
<1>2. /\ offset_from_alignment(o) \in Pos
      /\ o.pos + current_size(o) <= Len(o.buf)
      /\ current_size(o) \in 1 .. CHUNK_SIZE
  BY PieceFacts
<1>3. ASSUME NEW p \in Pos,
             offset_from_alignment(o) + a <= p, p < offset_from_alignment(o) + b
      PROVE  o.buf[o.pos + (p - offset_from_alignment(o)) + 1] \in Byte
  <2> DEFINE k == p - offset_from_alignment(o)
  <2>1. k \in Nat /\ k < current_size(o)
    BY <1>2, <1>3, ChunkSizeAssumption DEF Pos
  <2>2. o.pos + k + 1 \in 1 .. Len(o.buf)
    BY <1>1, <1>2, <2>1, ChunkSizeAssumption
  <2>3. QED
    BY <1>1, <2>2
<1>4. QED
  BY <1>3 DEF Patched, Chunk

\* Two consecutive patches are one.
LEMMA PatchedTwice ==
    ASSUME NEW o, NEW c, NEW first \in Nat, NEW middle \in Nat, NEW last \in Nat,
           first <= middle, middle <= last, offset_from_alignment(o) \in Nat
    PROVE  Patched(Patched(c, o, first, middle), o, middle, last) = Patched(c, o, first, last)
<1> DEFINE start == offset_from_alignment(o)
<1>1. start \in Nat
  OBVIOUS
<1> HIDE DEF start
<1>2. ASSUME NEW p \in Pos
      PROVE  start + first <= p /\ p < start + last <=>
                \/ start + first <= p /\ p < start + middle
                \/ start + middle <= p /\ p < start + last
  BY <1>1, ChunkSizeAssumption DEF Pos
<1>3. QED
  BY <1>2 DEF Patched, start

\* An empty patch changes nothing.
LEMMA PatchedNothing ==
    ASSUME NEW o, NEW c \in Chunk, NEW n \in Nat, offset_from_alignment(o) \in Nat
    PROVE  Patched(c, o, n, n) = c
<1> DEFINE start == offset_from_alignment(o)
<1>1. start \in Nat
  OBVIOUS
<1> HIDE DEF start
<1>2. \A p \in Pos : ~(start + n <= p /\ p < start + n)
  BY <1>1, ChunkSizeAssumption DEF Pos
<1>3. QED
  BY <1>2 DEF Patched, Chunk, start

-----------------------------------------------------------------------------
(* Every step preserves the invariant. *)

\* Initially the tree is empty and the file is new.
LEMMA InitInv == Init => IInv
<1> SUFFICES ASSUME Init PROVE IInv
  OBVIOUS
<1>1. TypeOK
  BY ZeroChunkType DEF Init, TypeOK, NoOp, Op
<1>2. LockInv /\ OpInv /\ IoInv
  BY EditorAssumption DEF Init, LockInv, OpInv, IoInv
<1>3. AcknowledgedChunksVerify
  BY EditorAssumption DEF Init, AcknowledgedChunksVerify, Verifies, is_index_valid
<1>4. TreeWithinSize
  BY DEF Init, TreeWithinSize
<1>5. QED
  BY <1>1, <1>2, <1>3, <1>4 DEF IInv

\* A step of one thread outside the lock that leaves tree, file and history alone.
LEMMA OutsideLock ==
    ASSUME IInv, NEW t \in Threads, NEW s, NEW o \in Op,
           s \in {"idle", "iter"}, pc[t] # "io",
           s = "iter" => o.pos <= Len(o.buf) /\ InChunks(o) /\ o.wrote = 0,
           pc' = [pc EXCEPT ![t] = s], op' = [op EXCEPT ![t] = o],
           UNCHANGED <<leaves, file_size, lock, file, file_len, suspect>>
    PROVE  IInv'
<1>1. /\ pc'[t] = s /\ op'[t] = o
      /\ \A u \in Threads \ {t} : op'[u] = op[u] /\ pc'[u] = pc[u]
      /\ pc' \in [Threads -> {"idle", "iter", "io"}]
      /\ op' \in [Threads -> Op]
  BY DEF IInv, TypeOK
<1>2. TypeOK'
  BY <1>1 DEF IInv, TypeOK
<1>3. LockInv'
  BY <1>1 DEF IInv, LockInv
<1>4. OpInv'
  BY <1>1 DEF IInv, OpInv, InChunks
<1>5. IoInv'
  BY <1>1 DEF IInv, IoInv
<1>6. AcknowledgedChunksVerify'
  BY <1>1 DEF IInv, AcknowledgedChunksVerify, Verifies
<1>7. TreeWithinSize'
  BY DEF IInv, TreeWithinSize
<1>8. QED
  BY <1>2, <1>3, <1>4, <1>5, <1>6, <1>7 DEF IInv

\* Starting a write.
LEMMA WriteBeginInv ==
    ASSUME IInv, NEW t \in Threads, NEW buf \in Buffers, NEW offset \in Offsets,
           WriteBegin(t, buf, offset)
    PROVE  IInv'
<1> DEFINE o == [NoOp EXCEPT !.buf = buf, !.offset = offset]
<1>1. buf \in Seq(Byte) /\ Len(buf) \in Nat /\ offset \in Nat
  BY EditorAssumption
<1>2. o \in Op /\ o.pos = 0 /\ o.wrote = 0 /\ o.buf = buf /\ o.offset = offset
  BY <1>1, ZeroChunkType, Zenon DEF NoOp, Op
<1>3. o.pos <= Len(o.buf) /\ InChunks(o)
  BY <1>1, <1>2 DEF WriteBegin, InChunks
<1>4. QED
  BY <1>2, <1>3, OutsideLock, Zenon DEF WriteBegin, tree, remote

\* Returning from a write, after the last piece or because one was refused.
LEMMA ReturnInv ==
    ASSUME IInv, NEW t \in Threads, ChunkRefused(t) \/ WriteReturn(t)
    PROVE  IInv'
<1>1. NoOp \in Op
  BY ZeroChunkType DEF NoOp, Op
<1>2. QED
  BY <1>1, OutsideLock DEF ChunkRefused, WriteReturn, Return, tree, remote

\* When the lock is free, nobody is in the middle of a remote write.
LEMMA FreeLock == LockInv /\ lock = NoThread => \A u \in Threads : pc[u] # "io"
BY EditorAssumption DEF LockInv

\* The holder of the lock is the only one in the middle of a remote write.
LEMMA OneHolder ==
    ASSUME LockInv, NEW t \in Threads, pc[t] = "io"
    PROVE  lock = t /\ \A u \in Threads \ {t} : pc[u] # "io"
BY DEF LockInv

\* Taking the lock and computing the new hash of a chunk.
LEMMA ChunkBeginInv ==
    ASSUME IInv, NEW t \in Threads, ChunkBegin(t)
    PROVE  IInv'
<1> DEFINE o == op[t]
           h == new_chunk_hash(t)
           q == [o EXCEPT !.hash = h]
           index == output_chunk_index(o)
           orig == OrigData(t)
<1>1. /\ o \in Op /\ o.pos < Len(o.buf) /\ InChunks(o) /\ o.wrote = 0
      /\ Len(o.buf) \in Nat /\ o.offset \in Nat /\ o.pos \in Nat
      /\ pc[t] = "iter"
  BY DEF IInv, TypeOK, OpInv, ChunkBegin, Op
<1>2. /\ index \in Nat /\ index \in Chunks
      /\ offset_from_alignment(o) \in Pos
      /\ current_size(o) \in 1 .. CHUNK_SIZE
      /\ offset_from_alignment(o) + current_size(o) <= CHUNK_SIZE
      /\ o.pos + current_size(o) <= Len(o.buf)
  BY <1>1, PieceFacts
<1>3. \A u \in Threads : pc[u] # "io"
  BY FreeLock DEF IInv, ChunkBegin
<1>4. file[index] \in Chunk /\ orig \in Chunk
  BY <1>2, ZeroChunkType DEF IInv, TypeOK, OrigData
<1>5. Patched(orig, o, 0, current_size(o)) \in Chunk
  BY <1>1, <1>2, <1>4, PatchedType
<1>6. h = Sha256(Patched(orig, o, 0, current_size(o))) /\ h \in Hash
  BY <1>5 DEF new_chunk_hash, Sha256, Hash
<1> HIDE DEF h
<1>7. /\ q \in Op
      /\ q.buf = o.buf /\ q.offset = o.offset /\ q.pos = o.pos
      /\ q.wrote = 0 /\ q.hash = h
  BY <1>1, <1>6 DEF Op
<1>8. /\ op'[t] = q /\ pc'[t] = "io"
      /\ \A u \in Threads \ {t} : op'[u] = op[u] /\ pc'[u] = pc[u]
      /\ op' \in [Threads -> Op] /\ pc' \in [Threads -> {"idle", "iter", "io"}]
      /\ lock' = t
      /\ UNCHANGED <<leaves, file_size, file, file_len, suspect>>
  BY <1>7 DEF IInv, TypeOK, ChunkBegin, tree, remote, h
<1> HIDE DEF q
<1>9. /\ output_chunk_index(q) = index
      /\ current_size(q) = current_size(o)
      /\ IsComplete(q) <=> IsComplete(o)
      /\ \A c, a, b : Patched(c, q, a, b) = Patched(c, o, a, b)
      /\ TypeOK'
  BY <1>7, <1>8, SamePiece DEF IInv, TypeOK
<1>10. LockInv'
  BY <1>3, <1>8 DEF LockInv
<1>11. OpInv'
  BY <1>1, <1>7, <1>8, Zenon DEF IInv, OpInv, InChunks
<1>12. HashWithinSize(q, file_size)
  <2> SUFFICES ASSUME NEW p \in Pos, h.sha256[p] # 0
               PROVE  index * CHUNK_SIZE + p < Larger(file_size, o.offset + Len(o.buf))
    BY <1>7, <1>9 DEF HashWithinSize
  <2>1. h.sha256[p] = Patched(orig, o, 0, current_size(o))[p]
    BY <1>6 DEF Sha256
  <2>2. index * CHUNK_SIZE \in Nat /\ file_size \in Nat /\ p \in Nat
    BY <1>2, ChunkSizeAssumption DEF IInv, TypeOK, Pos
  <2>3. CASE offset_from_alignment(o) <= p /\ p < offset_from_alignment(o) + current_size(o)
    <3>1. o.offset + o.pos = index * CHUNK_SIZE + offset_from_alignment(o)
      BY <1>1, PieceOffset
    <3> DEFINE x == index * CHUNK_SIZE
               a == offset_from_alignment(o)
               c == current_size(o)
    <3>2. /\ x \in Nat /\ a \in Nat /\ c \in Nat /\ p < a + c
          /\ o.offset + o.pos = x + a /\ o.pos + c <= Len(o.buf)
      BY <1>2, <2>2, <2>3, <3>1 DEF Pos
    <3> HIDE DEF x, a, c
    <3>3. x + p < o.offset + Len(o.buf)
      <4> DEFINE start == o.offset
                 done == o.pos
                 len == Len(o.buf)
      <4>1. /\ start \in Nat /\ done \in Nat /\ len \in Nat /\ p \in Nat
            /\ start + done = x + a /\ done + c <= len
        BY <1>1, <2>2, <3>2
      <4> HIDE DEF start, done, len
      <4>2. x + p < start + len
        BY <3>2, <4>1
      <4>3. QED
        BY <4>2 DEF start, len
    <3> DEFINE l == o.offset + Len(o.buf)
    <3>4. l \in Nat /\ file_size \in Nat /\ p \in Nat /\ x + p < l
      BY <1>1, <2>2, <3>3
    <3> HIDE DEF l
    <3>5. x + p < Larger(file_size, l)
      BY <3>2, <3>4 DEF Larger
    <3>6. QED
      BY <3>5 DEF l, x
  <2>4. CASE ~(offset_from_alignment(o) <= p /\ p < offset_from_alignment(o) + current_size(o))
    <3>1. Patched(orig, o, 0, current_size(o))[p] = orig[p]
      BY <1>2, <2>2, <2>4 DEF Patched, Pos
    <3>2. orig[p] # 0
      BY <2>1, <3>1
    <3>3. is_index_valid(leaves, index) /\ orig = file[index]
      BY <3>2 DEF OrigData, ZeroChunk
    <3>4. ~IsComplete(o)
      BY <1>2, <2>2, <2>4, ChunkSizeAssumption DEF IsComplete, Pos
    <3>5. leaves[index + 1] = Sha256(file[index]) /\ index \in 0 .. Len(leaves) - 1
      BY <1>2, <3>3, <3>4 DEF ChunkBegin, ReadsBack, ReadBackConsistent, is_consistent,
                              is_index_valid, IInv, TypeOK
    <3>6. leaves[index + 1].sha256[p] # 0
      BY <3>2, <3>3, <3>5 DEF Sha256
    <3>7. index * CHUNK_SIZE + p < file_size
      BY <3>5, <3>6 DEF IInv, TreeWithinSize
    <3>8. QED
      BY <1>1, <2>2, <3>7 DEF Larger
  <2>5. QED
    BY <2>3, <2>4
<1>13. Settles(q, leaves, suspect) => HashAnticipates(q, file[index])
  <2> SUFFICES ASSUME Settles(o, leaves, suspect)
               PROVE  Patched(orig, o, 0, current_size(o))
                        = Patched(file[index], o, 0, current_size(o))
    BY <1>6, <1>7, <1>9 DEF Settles, HashAnticipates
  <2>1. CASE IsComplete(o)
    <3>1. offset_from_alignment(o) = 0 /\ current_size(o) = CHUNK_SIZE
      BY <1>2, <2>1, ChunkSizeAssumption DEF IsComplete, Pos
    <3>2. QED
      BY <3>1, ChunkSizeAssumption DEF Patched, Pos
  <2>2. CASE is_index_valid(leaves, index)
    BY <2>2 DEF OrigData
  <2>3. CASE index \notin suspect /\ ~is_index_valid(leaves, index)
    BY <1>2, <1>3, <2>3 DEF IInv, AcknowledgedChunksVerify, Verifies, OrigData
  <2>4. QED
    BY <2>1, <2>2, <2>3 DEF Settles
<1>14. IoInv'
  <2>1. \A u \in Threads \ {t} : pc'[u] # "io"
    BY <1>3, <1>8
  <2>2. q.pos < Len(q.buf) /\ q.wrote <= current_size(q)
    BY <1>1, <1>2, <1>7, <1>9
  <2>3. QED
    BY <1>8, <1>9, <1>12, <1>13, <2>1, <2>2 DEF IoInv
<1>15. AcknowledgedChunksVerify'
  BY <1>3, <1>8 DEF IInv, AcknowledgedChunksVerify, Verifies
<1>16. TreeWithinSize'
  BY <1>8 DEF IInv, TreeWithinSize
<1>17. QED
  BY <1>9, <1>10, <1>11, <1>14, <1>15, <1>16 DEF IInv

\* Every remote write brings the chunk closer to the hash in hand.
LEMMA RemoteWriteInv ==
    ASSUME IInv, NEW t \in Threads, NEW n \in 1 .. CHUNK_SIZE, RemoteWrite(t, n)
    PROVE  IInv'
<1> DEFINE o == op[t]
           q == [o EXCEPT !.wrote = @ + n]
           index == output_chunk_index(o)
           stored == Patched(file[index], o, o.wrote, o.wrote + n)
<1>1. /\ o \in Op /\ o.pos < Len(o.buf) /\ InChunks(o)
      /\ Len(o.buf) \in Nat /\ o.offset \in Nat /\ o.pos \in Nat /\ o.wrote \in Nat
      /\ n \in Nat /\ o.wrote + n <= current_size(o)
      /\ pc[t] = "io"
  BY ChunkSizeAssumption, SMTT(30) DEF IInv, TypeOK, OpInv, IoInv, RemoteWrite, Op
<1>2. /\ index \in Nat /\ index \in Chunks
      /\ offset_from_alignment(o) \in Pos
      /\ current_size(o) \in 1 .. CHUNK_SIZE
  BY <1>1, PieceFacts
<1>3. lock = t /\ \A u \in Threads \ {t} : pc[u] # "io"
  BY <1>1, OneHolder DEF IInv
<1>4. file[index] \in Chunk /\ stored \in Chunk
  <2>1. file[index] \in Chunk /\ o.wrote + n \in Nat
    BY <1>1, <1>2 DEF IInv, TypeOK
  <2>2. QED
    BY <1>1, <2>1, PatchedType, SMTT(30)
<1>5. /\ q \in Op
      /\ q.buf = o.buf /\ q.offset = o.offset /\ q.pos = o.pos
      /\ q.wrote = o.wrote + n /\ q.hash = o.hash
  BY <1>1, SMTT(30) DEF Op
<1>6. /\ op'[t] = q
      /\ \A u \in Threads \ {t} : op'[u] = op[u]
      /\ op' \in [Threads -> Op]
      /\ UNCHANGED <<leaves, file_size, lock, pc, suspect>>
  BY <1>5 DEF IInv, TypeOK, RemoteWrite, tree
<1>7. /\ file'[index] = stored
      /\ \A i \in Chunks \ {index} : file'[i] = file[i]
      /\ file' \in [Chunks -> Chunk]
  BY <1>2, <1>4 DEF IInv, TypeOK, RemoteWrite
<1>8. file_len' \in Nat
  <2>1. /\ index * CHUNK_SIZE \in Nat /\ offset_from_alignment(o) \in Nat
        /\ file_len \in Nat
    BY <1>2, ChunkSizeAssumption DEF IInv, TypeOK, Pos
  <2>2. QED
    BY <1>1, <2>1, SMTT(30) DEF RemoteWrite, LenReaching, Larger
<1> HIDE DEF q, stored
<1>9. /\ output_chunk_index(q) = index
      /\ current_size(q) = current_size(o)
      /\ IsComplete(q) <=> IsComplete(o)
      /\ \A c, a, b : Patched(c, q, a, b) = Patched(c, o, a, b)
  BY <1>5, SamePiece
<1>10. TypeOK' /\ LockInv'
  BY <1>6, <1>7, <1>8 DEF IInv, TypeOK, LockInv
<1>11. OpInv'
  BY <1>1, <1>5, <1>6, Zenon DEF IInv, OpInv, InChunks
<1>12. Patched(stored, o, o.wrote + n, current_size(o))
         = Patched(file[index], o, o.wrote, current_size(o))
  <2>1. /\ o.wrote \in Nat /\ o.wrote + n \in Nat /\ current_size(o) \in Nat
        /\ o.wrote <= o.wrote + n /\ o.wrote + n <= current_size(o)
        /\ offset_from_alignment(o) \in Nat
    BY <1>1, <1>2, SMTT(30) DEF Pos
  <2>2. QED
    BY <2>1, PatchedTwice DEF stored
<1>13. IoInv'
  <2>1. HashWithinSize(q, file_size)
    BY <1>1, <1>5, <1>9 DEF IInv, IoInv, HashWithinSize
  <2>2. Settles(q, leaves, suspect) => HashAnticipates(q, stored)
    <3>1. Settles(o, leaves, suspect) => HashAnticipates(o, file[index])
      BY <1>1 DEF IInv, IoInv
    <3>2. Settles(q, leaves, suspect) => Settles(o, leaves, suspect)
      BY <1>9 DEF Settles
    <3>3. HashAnticipates(o, file[index]) => HashAnticipates(q, stored)
      BY <1>5, <1>9, <1>12 DEF HashAnticipates
    <3>4. QED
      BY <3>1, <3>2, <3>3
  <2>3. q.pos < Len(q.buf) /\ q.wrote <= current_size(q)
    BY <1>1, <1>5, <1>9
  <2>4. QED
    BY <1>3, <1>6, <1>7, <1>9, <2>1, <2>2, <2>3 DEF IoInv
<1>14. AcknowledgedChunksVerify'
  <2> SUFFICES ASSUME NEW i \in Chunks, i \notin suspect', i # index
               PROVE  Verifies(i)'
    BY <1>1, <1>6, <1>9 DEF AcknowledgedChunksVerify
  <2>1. Verifies(i)
    BY <1>3, <1>6 DEF IInv, AcknowledgedChunksVerify
  <2>2. QED
    BY <1>6, <1>7, <2>1 DEF Verifies
<1>15. TreeWithinSize'
  BY <1>6 DEF IInv, TreeWithinSize
<1>16. QED
  BY <1>10, <1>11, <1>13, <1>14, <1>15 DEF IInv

\* A failed remote write leaves a chunk that nobody vouches for.
LEMMA RemoteWriteFailsInv ==
    ASSUME IInv, NEW t \in Threads, NEW n \in 0 .. CHUNK_SIZE, RemoteWriteFails(t, n)
    PROVE  IInv'
<1> DEFINE o == op[t]
           index == output_chunk_index(o)
           stored == Patched(file[index], o, o.wrote, o.wrote + n)
<1>1. /\ o \in Op /\ o.pos < Len(o.buf) /\ InChunks(o)
      /\ o.wrote \in Nat /\ n \in Nat /\ o.wrote + n <= current_size(o)
      /\ pc[t] = "io"
  <2>1. o \in Op /\ pc[t] = "io" /\ o.wrote + n <= current_size(o) /\ n \in Nat
    BY ChunkSizeAssumption DEF IInv, TypeOK, RemoteWriteFails
  <2>2. QED
    BY <2>1 DEF IInv, OpInv, IoInv, Op
<1>2. index \in Nat /\ index \in Chunks /\ offset_from_alignment(o) \in Pos
  BY <1>1, PieceFacts
<1>3. lock = t /\ \A u \in Threads \ {t} : pc[u] # "io"
  BY <1>1, OneHolder DEF IInv
<1>4. file[index] \in Chunk /\ stored \in Chunk
  <2>1. file[index] \in Chunk /\ o.wrote + n \in Nat
    BY <1>1, <1>2 DEF IInv, TypeOK
  <2>2. QED
    BY <1>1, <2>1, PatchedType
<1>5. NoOp \in Op
  BY ZeroChunkType DEF NoOp, Op
<1>6. /\ pc'[t] = "idle" /\ op'[t] = NoOp
      /\ \A u \in Threads \ {t} : op'[u] = op[u] /\ pc'[u] = pc[u]
      /\ op' \in [Threads -> Op] /\ pc' \in [Threads -> {"idle", "iter", "io"}]
      /\ lock' = NoThread /\ suspect' = suspect \cup {index}
      /\ UNCHANGED <<leaves, file_size>>
  BY <1>5 DEF IInv, TypeOK, RemoteWriteFails, Return, tree
<1>7. /\ \A i \in Chunks \ {index} : file'[i] = file[i]
      /\ file' \in [Chunks -> Chunk]
  BY <1>2, <1>4 DEF IInv, TypeOK, RemoteWriteFails
<1>8. file_len' \in Nat
  BY <1>1, <1>2, ChunkSizeAssumption
     DEF IInv, TypeOK, RemoteWriteFails, LenReaching, Larger, Pos
<1>9. TypeOK'
  BY <1>2, <1>6, <1>7, <1>8 DEF IInv, TypeOK
<1>10. LockInv' /\ OpInv' /\ IoInv'
  <2>1. \A u \in Threads : pc'[u] # "io" /\ lock' # u
    BY <1>3, <1>6, EditorAssumption
  <2>2. LockInv' /\ IoInv'
    BY <2>1 DEF LockInv, IoInv
  <2>3. OpInv'
    BY <1>6 DEF IInv, OpInv
  <2>4. QED
    BY <2>2, <2>3
<1>11. AcknowledgedChunksVerify'
  BY <1>1, <1>3, <1>6, <1>7 DEF IInv, AcknowledgedChunksVerify, Verifies
<1>12. TreeWithinSize'
  BY <1>6 DEF IInv, TreeWithinSize
<1>13. QED
  BY <1>9, <1>10, <1>11, <1>12 DEF IInv

\* The leaves after a commit: that of the piece is new, and there are as many as
\* it takes to reach it.
LEMMA CommittedLeaves ==
    ASSUME IInv, NEW t \in Threads, ChunkCommit(t)
    PROVE  LET index == output_chunk_index(op[t])
           IN  /\ leaves' \in Seq(Hash)
               /\ Len(leaves') = Larger(Len(leaves), index + 1)
               /\ leaves'[index + 1] = op[t].hash
               /\ \A i \in 1 .. Len(leaves') : i # index + 1 =>
                     leaves'[i] = IF i <= Len(leaves) THEN leaves[i] ELSE HASH_OF_4096_ZEROS
<1> DEFINE index == output_chunk_index(op[t])
           h == op[t].hash
           u == update_hash(leaves, index, h)
<1>1. op[t] \in Op /\ op[t].pos < Len(op[t].buf) /\ InChunks(op[t])
  BY DEF IInv, TypeOK, OpInv, IoInv, ChunkCommit
<1>2. index \in Nat
  BY <1>1, PieceFacts
<1>3. h \in Hash /\ leaves \in Seq(Hash) /\ leaves' = u
  BY <1>1 DEF IInv, TypeOK, Op, ChunkCommit
<1> HIDE DEF h, index
<1>4. /\ u \in Seq(Hash)
      /\ Len(u) = Larger(Len(leaves), index + 1)
      /\ u[index + 1] = h
      /\ \A i \in 1 .. Len(u) : i # index + 1 =>
            u[i] = IF i <= Len(leaves) THEN leaves[i] ELSE HASH_OF_4096_ZEROS
  BY <1>2, <1>3, UpdateHash, Zenon
<1> HIDE DEF u
<1>5. QED
  BY <1>3, <1>4 DEF h, index

\* Recording the hash of a piece once it is stored.
LEMMA ChunkCommitInv ==
    ASSUME IInv, NEW t \in Threads, ChunkCommit(t)
    PROVE  IInv'
<1> DEFINE o == op[t]
           index == output_chunk_index(o)
           q == [NoOp EXCEPT !.buf = o.buf, !.offset = o.offset,
                             !.pos = o.pos + current_size(o)]
           l == o.offset + Len(o.buf)
<1>1. /\ o \in Op /\ o.pos < Len(o.buf) /\ InChunks(o)
      /\ o.buf \in Seq(Byte) /\ Len(o.buf) \in Nat
      /\ o.offset \in Nat /\ o.pos \in Nat /\ o.hash \in Hash
      /\ pc[t] = "io" /\ o.wrote = current_size(o)
      /\ leaves \in Seq(Hash) /\ file_size \in Nat
  BY SMTT(30) DEF IInv, TypeOK, OpInv, IoInv, ChunkCommit, Op
<1>2. /\ index \in Nat /\ index \in Chunks
      /\ offset_from_alignment(o) \in Nat
      /\ current_size(o) \in Nat
      /\ o.pos + current_size(o) <= Len(o.buf)
  <2>1. /\ index \in Nat /\ index \in Chunks
        /\ offset_from_alignment(o) \in Pos
        /\ current_size(o) \in 1 .. CHUNK_SIZE
        /\ o.pos + current_size(o) <= Len(o.buf)
    BY <1>1, PieceFacts
  <2>2. offset_from_alignment(o) \in Nat /\ current_size(o) \in Nat
    BY <2>1 DEF Pos
  <2>3. QED
    BY <2>1, <2>2
<1>3. lock = t /\ \A u \in Threads \ {t} : pc[u] # "io"
  BY <1>1, OneHolder DEF IInv
<1>4. /\ q \in Op /\ q.buf = o.buf /\ q.offset = o.offset /\ q.wrote = 0
      /\ q.pos <= Len(q.buf)
  <2>1. o.pos + current_size(o) \in Nat
    BY <1>1, <1>2
  <2>2. /\ q.buf = o.buf /\ q.offset = o.offset /\ q.wrote = 0
        /\ q.pos = o.pos + current_size(o) /\ q \in Op
    BY <1>1, <2>1, ZeroChunkType, Zenon DEF NoOp, Op
  <2> HIDE DEF q
  <2>3. QED
    BY <1>2, <2>2
<1>5. /\ pc'[t] = "iter" /\ op'[t] = q
      /\ \A u \in Threads \ {t} : op'[u] = op[u] /\ pc'[u] = pc[u]
      /\ op' \in [Threads -> Op] /\ pc' \in [Threads -> {"idle", "iter", "io"}]
      /\ lock' = NoThread
      /\ UNCHANGED <<file, file_len>>
  BY <1>4 DEF IInv, TypeOK, ChunkCommit, remote
<1>6. /\ leaves' \in Seq(Hash)
      /\ Len(leaves') = Larger(Len(leaves), index + 1)
      /\ leaves'[index + 1] = o.hash
      /\ \A i \in 1 .. Len(leaves') : i # index + 1 =>
            leaves'[i] = IF i <= Len(leaves) THEN leaves[i] ELSE HASH_OF_4096_ZEROS
  BY CommittedLeaves
<1>7. Len(leaves) \in Nat /\ Len(leaves') \in Nat
  BY <1>1, <1>6
<1>8. /\ file_size' = Larger(file_size, l)
      /\ l \in Nat /\ file_size' \in Nat
      /\ file_size <= file_size' /\ l <= file_size'
  <2>1. file_size' = Larger(file_size, l) /\ l \in Nat
    BY <1>1 DEF ChunkCommit, update_size
  <2> HIDE DEF l
  <2>2. QED
    BY <1>1, <2>1 DEF Larger
<1>9. /\ suspect' \subseteq suspect /\ suspect \ {index} \subseteq suspect'
      /\ index \notin suspect' => Settles(o, leaves, suspect)
  BY DEF ChunkCommit, Settles
<1> HIDE DEF q
<1>10. TypeOK'
  <2>1. file' \in [Chunks -> Chunk] /\ file_len' \in Nat /\ suspect' \subseteq Chunks
    BY <1>5, <1>9 DEF IInv, TypeOK
  <2>2. QED
    BY <1>5, <1>6, <1>8, <2>1, Zenon DEF TypeOK
<1>11. LockInv' /\ OpInv' /\ IoInv'
  <2>1. InChunks(q)
    BY <1>1, <1>4 DEF InChunks
  <2>2. QED
    <3>1. \A u \in Threads : pc'[u] # "io" /\ lock' # u
      BY <1>3, <1>5, EditorAssumption
    <3>2. LockInv' /\ IoInv'
      BY <3>1 DEF LockInv, IoInv
    <3>3. OpInv'
      BY <1>4, <1>5, <2>1 DEF IInv, OpInv
    <3>4. QED
      BY <3>2, <3>3
<1>12. AcknowledgedChunksVerify'
  <2> SUFFICES ASSUME NEW i \in Chunks, i \notin suspect'
               PROVE  Verifies(i)'
    BY DEF AcknowledgedChunksVerify
  <2>1. CASE i = index
    <3>1. o.hash = Sha256(Patched(file[index], o, o.wrote, o.wrote))
      <4>1. Settles(o, leaves, suspect)
        BY <1>9, <2>1
      <4>2. HashAnticipates(o, file[index])
        BY <1>1, <4>1, Zenon DEF IInv, IoInv
      <4>3. QED
        BY <1>1, <4>2, Zenon DEF HashAnticipates
    <3>2. Patched(file[index], o, o.wrote, o.wrote) = file[index]
      BY <1>1, <1>2, PatchedNothing DEF IInv, TypeOK
    <3>3. index < Len(leaves')
      BY <1>2, <1>6, <1>7 DEF Larger
    <3>4. QED
      BY <1>5, <1>6, <2>1, <3>1, <3>2, <3>3 DEF Verifies, is_index_valid
  <2>2. CASE i # index
    <3>1. Verifies(i) /\ i \in Nat
      <4>1. i \notin suspect /\ i \in Nat
        BY <1>9, <2>2, EditorAssumption
      <4>2. \A u \in Threads : pc[u] = "io" => output_chunk_index(op[u]) # i
        BY <1>3, <2>2, Zenon
      <4>3. QED
        BY <4>1, <4>2, Zenon DEF IInv, AcknowledgedChunksVerify
    <3>2. CASE i < Len(leaves)
      <4>1. i + 1 \in 1 .. Len(leaves') /\ i + 1 <= Len(leaves) /\ i + 1 # index + 1
        BY <1>2, <1>6, <1>7, <2>2, <3>1, <3>2, SMTT(30) DEF Larger
      <4>2. QED
        BY <1>5, <1>6, <3>1, <3>2, <4>1 DEF Verifies, is_index_valid
    <3>3. CASE ~(i < Len(leaves)) /\ i < Len(leaves')
      <4>1. i + 1 \in 1 .. Len(leaves') /\ ~(i + 1 <= Len(leaves)) /\ i + 1 # index + 1
        BY <1>2, <1>6, <1>7, <2>2, <3>1, <3>3
      <4>2. QED
        BY <1>5, <1>6, <3>1, <3>3, <4>1
           DEF Verifies, is_index_valid, HASH_OF_4096_ZEROS
    <3>4. CASE ~(i < Len(leaves)) /\ ~(i < Len(leaves'))
      BY <1>5, <3>1, <3>4 DEF Verifies, is_index_valid
    <3>5. QED
      BY <1>6, <1>7, <3>1, <3>2, <3>3, <3>4
  <2>3. QED
    BY <2>1, <2>2
<1>13. TreeWithinSize'
  <2> SUFFICES ASSUME NEW i \in 0 .. Len(leaves') - 1
               PROVE  /\ i * CHUNK_SIZE < file_size'
                      /\ \A p \in Pos : leaves'[i + 1].sha256[p] # 0 =>
                            i * CHUNK_SIZE + p < file_size'
    BY DEF TreeWithinSize
  <2> DEFINE x == index * CHUNK_SIZE
             y == i * CHUNK_SIZE
             a == offset_from_alignment(o)
  <2>1. x \in Nat /\ y \in Nat /\ a \in Nat /\ o.offset + o.pos = x + a /\ i \in Nat
    <3>1. o.offset + o.pos = x + a /\ a \in Nat
      BY <1>1, <1>2, PieceOffset
    <3>2. i \in Nat
      BY <1>7
    <3> HIDE DEF index
    <3>3. QED
      BY <1>2, <3>1, <3>2, ChunkSizeAssumption
  <2>2. i < index => y < x
    BY <1>2, <2>1, LaterChunk, ChunkSizeAssumption, SMTT(30)
  <2>3. \A p \in Pos : o.hash.sha256[p] # 0 => x + p < Larger(file_size, l)
    BY <1>1 DEF IInv, IoInv, HashWithinSize
  <2>4. ASSUME i + 1 <= Len(leaves)
        PROVE  /\ y < file_size
               /\ \A p \in Pos : leaves[i + 1].sha256[p] # 0 => y + p < file_size
    BY <1>7, <2>1, <2>4 DEF IInv, TreeWithinSize
  <2>5. i = index => y = x
    OBVIOUS
  <2> HIDE DEF x, y, a
  <2>6. x < l
    <3> DEFINE b == Len(o.buf)
               f == o.offset
               p == o.pos
    <3>1. b \in Nat /\ f \in Nat /\ p \in Nat /\ p < b /\ f + p = x + a /\ l = f + b
      BY <1>1, <2>1
    <3> HIDE DEF b, f, p, l
    <3>2. QED
      BY <2>1, <3>1
  <2> HIDE DEF l
  <2>7. CASE i = index
    <3>1. y < file_size'
      BY <1>8, <2>1, <2>5, <2>6, <2>7
    <3>2. ASSUME NEW p \in Pos, leaves'[i + 1].sha256[p] # 0
          PROVE  y + p < file_size'
      BY <1>6, <1>8, <2>3, <2>5, <2>7, <3>2
    <3>3. QED
      BY <3>1, <3>2 DEF y
  <2>8. CASE i # index /\ i + 1 <= Len(leaves)
    <3>1. leaves'[i + 1] = leaves[i + 1]
      BY <1>2, <1>6, <1>7, <2>1, <2>8, SMTT(30)
    <3>2. y < file_size'
      BY <1>1, <1>8, <2>1, <2>4, <2>8
    <3>3. ASSUME NEW p \in Pos, leaves'[i + 1].sha256[p] # 0
          PROVE  y + p < file_size'
      <4>1. y + p < file_size /\ p \in Nat
        BY <2>4, <2>8, <3>1, <3>3 DEF Pos
      <4>2. QED
        BY <1>1, <1>8, <2>1, <4>1
    <3>4. QED
      BY <3>2, <3>3 DEF y
  <2>9. CASE i # index /\ ~(i + 1 <= Len(leaves))
    <3>1. i < index /\ leaves'[i + 1] = HASH_OF_4096_ZEROS
      <4>1. i < index
        BY <1>2, <1>6, <1>7, <2>1, <2>9 DEF Larger
      <4>2. i + 1 \in 1 .. Len(leaves') /\ i + 1 # index + 1
        BY <1>2, <1>7, <2>1, <2>9, SMTT(30)
      <4>3. QED
        BY <1>6, <2>9, <4>1, <4>2
    <3>2. y < file_size'
      BY <1>8, <2>1, <2>2, <2>6, <3>1
    <3>3. \A p \in Pos : leaves'[i + 1].sha256[p] = 0
      BY <3>1 DEF HASH_OF_4096_ZEROS, Sha256, ZeroChunk
    <3>4. QED
      BY <3>2, <3>3 DEF y
  <2>10. QED
    BY <2>7, <2>8, <2>9
<1>14. QED
  BY <1>10, <1>11, <1>12, <1>13 DEF IInv

-----------------------------------------------------------------------------
(* Resizing. *)

\* Cutting a chunk keeps a chunk; cut at its end it stays, cut at 0 it is zero.
LEMMA CutFacts ==
    ASSUME NEW c \in Chunk, NEW n
    PROVE  Cut(c, n) \in Chunk /\ Cut(c, CHUNK_SIZE) = c /\ Cut(c, 0) = ZeroChunk
<1>1. \A p \in Pos : p < CHUNK_SIZE /\ ~(p < 0)
  BY ChunkSizeAssumption DEF Pos
<1>2. Cut(c, n) \in Chunk
  BY ByteAssumption DEF Cut, Chunk
<1>3. QED
  BY <1>1, <1>2 DEF Cut, Chunk, ZeroChunk

\* The new size, as whole chunks and a tail.
LEMMA ResizeGeometry ==
    ASSUME NEW t \in Threads, NEW size \in Sizes, ResizeEnter(t, size)
    PROVE  /\ size \in Nat
           /\ size \div CHUNK_SIZE \in Nat
           /\ size % CHUNK_SIZE \in Nat
           /\ size % CHUNK_SIZE = 0 => divide_roundup(size, CHUNK_SIZE) = size \div CHUNK_SIZE
           /\ size % CHUNK_SIZE > 0 =>
                 /\ divide_roundup(size, CHUNK_SIZE) = size \div CHUNK_SIZE + 1
                 /\ size \div CHUNK_SIZE \in Chunks
           /\ divide_roundup(size, CHUNK_SIZE) \in Nat
<1>1. size \in Nat
  BY EditorAssumption
<1> DEFINE k == size \div CHUNK_SIZE
           r == size % CHUNK_SIZE
           n == divide_roundup(size, CHUNK_SIZE)
<1>2. /\ k \in Nat /\ r \in Nat
      /\ r = 0 => n = k
      /\ r > 0 => n = k + 1
  BY <1>1, DivMod, RoundUp DEF Pos
<1>3. \A i \in 0 .. n - 1 : i \in Chunks
  BY DEF ResizeEnter
<1> HIDE DEF k, r, n
<1>4. n \in Nat /\ (r > 0 => k \in Chunks)
  BY <1>2, <1>3
<1>5. QED
  BY <1>1, <1>2, <1>4 DEF k, r, n

\* The leaves before the remote resize: only the leaf of a cut tail is new.
LEMMA LeavesForResizeFacts ==
    ASSUME IInv, NEW t \in Threads, NEW size \in Sizes, ResizeEnter(t, size)
    PROVE  LET l == LeavesForResize(size)
               k == size \div CHUNK_SIZE
           IN  /\ l \in Seq(Hash) /\ Len(l) \in Nat /\ Len(leaves) <= Len(l)
               /\ CutsTail(size) =>
                     /\ k < Len(l)
                     /\ l[k + 1] = Sha256(Cut(file[k], size % CHUNK_SIZE))
               /\ \A i \in Nat : i < Len(leaves) /\ ~(CutsTail(size) /\ i = k) =>
                     l[i + 1] = leaves[i + 1]
               /\ \A i \in Nat : Len(leaves) <= i /\ i < Len(l) =>
                     /\ CutsTail(size) /\ i <= k
                     /\ i # k => l[i + 1] = HASH_OF_4096_ZEROS
<1> DEFINE l == LeavesForResize(size)
           k == size \div CHUNK_SIZE
           h == Sha256(Cut(file[k], size % CHUNK_SIZE))
<1>1. leaves \in Seq(Hash) /\ Len(leaves) \in Nat
  BY DEF IInv, TypeOK
<1>2. CASE CutsTail(size)
  <2>1. k \in Nat /\ k \in Chunks
    BY <1>2, ResizeGeometry DEF CutsTail
  <2>2. h \in Hash
    BY <2>1, CutFacts DEF IInv, TypeOK, Sha256, Hash
  <2>3. l = update_hash(leaves, k, h)
    BY <1>2 DEF LeavesForResize
  <2> HIDE DEF h, k, l
  <2>4. /\ l \in Seq(Hash) /\ Len(l) = Larger(Len(leaves), k + 1)
        /\ l[k + 1] = h
        /\ \A i \in 1 .. Len(l) : i # k + 1 =>
              l[i] = IF i <= Len(leaves) THEN leaves[i] ELSE HASH_OF_4096_ZEROS
    BY <1>1, <2>1, <2>2, <2>3, UpdateHash, ZenonT(30)
  <2>5. Len(l) \in Nat /\ Len(leaves) <= Len(l) /\ k < Len(l)
    BY <1>1, <2>1, <2>4 DEF Larger
  <2>6. \A i \in Nat : i < Len(leaves) /\ i # k => l[i + 1] = leaves[i + 1]
    BY <1>1, <2>1, <2>4, <2>5
  <2>7. \A i \in Nat : Len(leaves) <= i /\ i < Len(l) => i <= k
    BY <1>1, <2>1, <2>4 DEF Larger
  <2>8. \A i \in Nat : Len(leaves) <= i /\ i < Len(l) /\ i # k =>
            l[i + 1] = HASH_OF_4096_ZEROS
    BY <1>1, <2>1, <2>4, <2>5
  <2>9. QED
    BY <1>2, <2>4, <2>5, <2>6, <2>7, <2>8, Zenon DEF h, k, l
<1>3. CASE ~CutsTail(size)
  <2>1. l = leaves
    BY <1>3 DEF LeavesForResize
  <2> HIDE DEF l
  <2>2. QED
    BY <1>1, <1>3, <2>1 DEF l
<1>4. QED
  BY <1>2, <1>3

\* The backing file after a resize that took effect.
LEMMA ResizedFileFacts ==
    ASSUME IInv, NEW t \in Threads, NEW size \in Sizes, ResizeEnter(t, size)
    PROVE  LET k == size \div CHUNK_SIZE
           IN  /\ ResizedFile(size) \in [Chunks -> Chunk]
               /\ \A i \in Chunks :
                     /\ i < k => ResizedFile(size)[i] = file[i]
                     /\ i = k => ResizedFile(size)[i] = Cut(file[i], size % CHUNK_SIZE)
                     /\ i > k => ResizedFile(size)[i] = ZeroChunk
<1> DEFINE k == size \div CHUNK_SIZE
           r == size % CHUNK_SIZE
<1>1. k \in Nat /\ Chunks \subseteq Nat
  BY ResizeGeometry, EditorAssumption
<1>2. \A i \in Chunks : file[i] \in Chunk
  BY DEF IInv, TypeOK
<1> HIDE DEF k, r
<1>3. ResizedFile(size) =
        [i \in Chunks |-> Cut(file[i], IF i < k THEN CHUNK_SIZE ELSE IF i = k THEN r ELSE 0)]
  BY DEF ResizedFile, k, r
<1>4. ResizedFile(size) \in [Chunks -> Chunk]
  BY <1>2, <1>3, CutFacts
<1>5. ASSUME NEW i \in Chunks
      PROVE  /\ i < k => ResizedFile(size)[i] = file[i]
             /\ i = k => ResizedFile(size)[i] = Cut(file[i], r)
             /\ i > k => ResizedFile(size)[i] = ZeroChunk
  <2>1. i < k \/ i = k \/ i > k
    BY <1>1
  <2>2. Cut(file[i], CHUNK_SIZE) = file[i] /\ Cut(file[i], 0) = ZeroChunk
    BY <1>2, CutFacts
  <2>3. i > k => ~(i < k) /\ i # k
    BY <1>1
  <2>4. i = k => ~(i < k)
    BY <1>1
  <2>5. QED
    BY <1>3, <2>1, <2>2, <2>3, <2>4
<1>6. QED
  BY <1>4, <1>5 DEF k, r

\* A chunk of the tree past the size of a file is zero from there on.
LEMMA ZeroPastSize ==
    ASSUME IInv, NEW i \in Chunks, Verifies(i), NEW r \in Nat,
           file_size <= i * CHUNK_SIZE + r
    PROVE  Cut(file[i], r) = file[i]
<1>1. i \in Nat /\ i * CHUNK_SIZE \in Nat /\ file_size \in Nat /\ file[i] \in Chunk
      /\ Len(leaves) \in Nat
  BY EditorAssumption, ChunkSizeAssumption DEF IInv, TypeOK
<1>2. ASSUME NEW p \in Pos, ~(p < r)
      PROVE  file[i][p] = 0
  <2>1. CASE is_index_valid(leaves, i)
    <3>1. i \in 0 .. Len(leaves) - 1
      BY <1>1, <2>1 DEF is_index_valid
    <3>2. file[i][p] # 0 => i * CHUNK_SIZE + p < file_size
      BY <2>1, <3>1 DEF IInv, TreeWithinSize, Verifies, Sha256
    <3> DEFINE x == i * CHUNK_SIZE
    <3>3. x \in Nat /\ p \in Nat /\ file_size <= x + r /\ (file[i][p] # 0 => x + p < file_size)
      BY <1>1, <3>2 DEF Pos
    <3> HIDE DEF x
    <3>4. QED
      BY <1>1, <1>2, <3>3
  <2>2. CASE ~is_index_valid(leaves, i)
    BY <2>2 DEF Verifies, ZeroChunk
  <2>3. QED
    BY <2>1, <2>2
<1>3. QED
  BY <1>1, <1>2 DEF Cut, Chunk

\* The leaves after an acknowledged resize: as many as the size needs, all as they
\* were but for a cut tail and for zero chunks past the old end.
LEMMA ResizedLeaves ==
    ASSUME IInv, NEW t \in Threads, NEW size \in Sizes, Resize(t, size)
    PROVE  LET k == size \div CHUNK_SIZE
               n == divide_roundup(size, CHUNK_SIZE)
           IN  /\ leaves' \in Seq(Hash) /\ Len(leaves') = n
               /\ \A i \in Nat : i < n =>
                     /\ CutsTail(size) /\ i = k =>
                           leaves'[i + 1] = Sha256(Cut(file[k], size % CHUNK_SIZE))
                     /\ ~(CutsTail(size) /\ i = k) =>
                           leaves'[i + 1] = IF i < Len(leaves) THEN leaves[i + 1]
                                            ELSE HASH_OF_4096_ZEROS
<1> DEFINE l == LeavesForResize(size)
           k == size \div CHUNK_SIZE
           r == size % CHUNK_SIZE
           n == divide_roundup(size, CHUNK_SIZE)
<1>1. ResizeEnter(t, size)
  BY DEF Resize
<1>2. k \in Nat /\ n \in Nat /\ Len(leaves) \in Nat
  BY <1>1, ResizeGeometry DEF IInv, TypeOK
<1>3. /\ l \in Seq(Hash) /\ Len(l) \in Nat /\ Len(leaves) <= Len(l)
      /\ CutsTail(size) => k < Len(l) /\ l[k + 1] = Sha256(Cut(file[k], r))
      /\ \A i \in Nat : i < Len(leaves) /\ ~(CutsTail(size) /\ i = k) =>
            l[i + 1] = leaves[i + 1]
      /\ \A i \in Nat : Len(leaves) <= i /\ i < Len(l) =>
            /\ CutsTail(size) /\ i <= k
            /\ i # k => l[i + 1] = HASH_OF_4096_ZEROS
  BY <1>1, LeavesForResizeFacts
<1>4. leaves' = resize_leaves(l, n)
  BY DEF Resize, resize
<1> HIDE DEF l, k, r, n
<1>5. /\ leaves' \in Seq(Hash) /\ Len(leaves') = n
      /\ \A i \in 1 .. n : leaves'[i] = IF i <= Len(l) THEN l[i] ELSE HASH_OF_4096_ZEROS
  <2> DEFINE v == resize_leaves(l, n)
  <2>1. /\ v \in Seq(Hash) /\ Len(v) = n
        /\ \A i \in 1 .. n : v[i] = IF i <= Len(l) THEN l[i] ELSE HASH_OF_4096_ZEROS
    BY <1>2, <1>3, ResizeLeaves, Zenon
  <2> HIDE DEF v
  <2>2. QED
    BY <1>4, <2>1 DEF v
<1>6. ASSUME NEW i \in Nat, i < n
      PROVE  /\ CutsTail(size) /\ i = k => leaves'[i + 1] = Sha256(Cut(file[k], r))
             /\ ~(CutsTail(size) /\ i = k) =>
                   leaves'[i + 1] = IF i < Len(leaves) THEN leaves[i + 1]
                                    ELSE HASH_OF_4096_ZEROS
  <2>1. i + 1 \in 1 .. n /\ (i + 1 <= Len(l) <=> i < Len(l))
    BY <1>2, <1>3, <1>6
  <2>2. leaves'[i + 1] = IF i < Len(l) THEN l[i + 1] ELSE HASH_OF_4096_ZEROS
    BY <1>5, <2>1
  <2>3. CASE i < Len(leaves)
    BY <1>2, <1>3, <2>2, <2>3
  <2>4. CASE ~(i < Len(leaves))
    <3>1. Len(leaves) <= i
      BY <1>2, <2>4
    <3>2. QED
      BY <1>3, <2>2, <2>4, <3>1
  <2>5. QED
    BY <2>3, <2>4
<1>7. QED
  BY <1>5, <1>6 DEF k, r, n

\* An acknowledged resize: every chunk that remains verifies, the others are zero.
LEMMA ResizeInv ==
    ASSUME IInv, NEW t \in Threads, NEW size \in Sizes, Resize(t, size)
    PROVE  IInv'
<1> DEFINE k == size \div CHUNK_SIZE
           r == size % CHUNK_SIZE
           n == divide_roundup(size, CHUNK_SIZE)
<1>1. ResizeEnter(t, size) /\ \A u \in Threads : pc[u] # "io"
  BY FreeLock DEF IInv, Resize, ResizeEnter
<1>2. /\ size \in Nat /\ k \in Nat /\ r \in Nat /\ n \in Nat
      /\ r = 0 => n = k
      /\ r > 0 => n = k + 1 /\ k \in Chunks
  BY <1>1, ResizeGeometry
<1>3. size = k * CHUNK_SIZE + r
  BY <1>2, DivMod
<1>4. CutsTail(size) <=> size < file_size /\ r > 0
  BY DEF CutsTail
<1>5. /\ file_size' = size /\ file_len' = size
      /\ UNCHANGED <<lock, pc, op>>
      /\ suspect' = {i \in suspect : i < n} \ (IF CutsTail(size) THEN {k} ELSE {})
  BY DEF Resize
<1>6. /\ file' \in [Chunks -> Chunk]
      /\ \A i \in Chunks :
            /\ i < k => file'[i] = file[i]
            /\ i = k => file'[i] = Cut(file[i], r)
            /\ i > k => file'[i] = ZeroChunk
  BY <1>1, ResizedFileFacts DEF Resize
<1>7. leaves' \in Seq(Hash) /\ Len(leaves') = n
  BY ResizedLeaves
<1>8. \A i \in Nat : i < n =>
          /\ CutsTail(size) /\ i = k => leaves'[i + 1] = Sha256(Cut(file[k], r))
          /\ ~(CutsTail(size) /\ i = k) =>
                leaves'[i + 1] = IF i < Len(leaves) THEN leaves[i + 1] ELSE HASH_OF_4096_ZEROS
  BY ResizedLeaves
<1> HIDE DEF k, r, n
<1>9. Len(leaves) \in Nat /\ Chunks \subseteq Nat /\ file_size \in Nat
  BY EditorAssumption DEF IInv, TypeOK
<1>10. TypeOK'
  BY <1>2, <1>5, <1>6, <1>7 DEF IInv, TypeOK
<1>11. LockInv' /\ OpInv' /\ IoInv'
  BY <1>1, <1>5, Zenon DEF IInv, LockInv, OpInv, IoInv
<1>12. AcknowledgedChunksVerify'
  <2> SUFFICES ASSUME NEW i \in Chunks, i \notin suspect'
               PROVE  Verifies(i)'
    BY DEF AcknowledgedChunksVerify
  <2>1. i \in Nat
    BY <1>9
  <2>2. CASE ~(i < n)
    <3>1. file'[i] = ZeroChunk
      <4>1. i > k \/ (i = k /\ r = 0)
        BY <1>2, <2>1, <2>2
      <4>2. Cut(file[i], 0) = ZeroChunk
        BY CutFacts DEF IInv, TypeOK
      <4>3. QED
        BY <1>6, <4>1, <4>2
    <3>2. QED
      BY <1>7, <2>2, <3>1 DEF Verifies, is_index_valid
  <2>3. CASE i < n /\ CutsTail(size) /\ i = k
    BY <1>6, <1>7, <1>8, <2>1, <2>3, Zenon DEF Verifies, is_index_valid
  <2>4. CASE i < n /\ ~(CutsTail(size) /\ i = k)
    <3>1. Verifies(i)
      BY <1>1, <1>5, <2>4 DEF IInv, AcknowledgedChunksVerify
    <3>2. leaves'[i + 1] = Sha256(file[i])
      BY <1>8, <2>1, <2>4, <3>1 DEF Verifies, is_index_valid, HASH_OF_4096_ZEROS
    <3>3. file'[i] = file[i]
      <4>1. CASE i < k
        BY <1>6, <4>1
      <4>2. CASE i = k
        <5>1. r > 0
          BY <1>2, <2>1, <2>4, <4>2
        <5>2. file_size <= size
          BY <1>2, <1>4, <1>9, <2>4, <4>2, <5>1
        <5>3. file_size <= i * CHUNK_SIZE + r
          BY <1>3, <4>2, <5>2
        <5>4. QED
          BY <1>2, <1>6, <3>1, <4>2, <5>3, ZeroPastSize
      <4>3. i < k \/ i = k
        BY <1>2, <2>1, <2>4
      <4>4. QED
        BY <4>1, <4>2, <4>3
    <3>4. QED
      BY <1>7, <2>4, <3>2, <3>3 DEF Verifies, is_index_valid
  <2>5. QED
    BY <2>2, <2>3, <2>4
<1>13. TreeWithinSize'
  <2> SUFFICES ASSUME NEW i \in 0 .. Len(leaves') - 1
               PROVE  /\ i * CHUNK_SIZE < size
                      /\ \A p \in Pos : leaves'[i + 1].sha256[p] # 0 =>
                            i * CHUNK_SIZE + p < size
    BY <1>5 DEF TreeWithinSize
  <2> DEFINE x == k * CHUNK_SIZE
             y == i * CHUNK_SIZE
  <2>1. i \in Nat /\ i < n
    BY <1>2, <1>7
  <2>2. x \in Nat /\ y \in Nat /\ size = x + r
    BY <1>2, <1>3, <2>1, ChunkSizeAssumption
  <2>3. i < k => y + CHUNK_SIZE <= x
    BY <1>2, <2>1, LaterChunk
  <2>4. i = k => y = x
    OBVIOUS
  <2>5. i < Len(leaves) => \A p \in Pos : leaves[i + 1].sha256[p] # 0 => y + p < file_size
    BY <1>9, <2>1 DEF IInv, TreeWithinSize
  <2> HIDE DEF x, y
  <2>6. i < k \/ (i = k /\ r > 0)
    BY <1>2, <2>1
  <2>7. y < size
    BY <1>2, <2>2, <2>3, <2>4, <2>6, ChunkSizeAssumption
  <2>8. ASSUME NEW p \in Pos, leaves'[i + 1].sha256[p] # 0
        PROVE  y + p < size
    <3>1. p \in Nat /\ p < CHUNK_SIZE
      BY ChunkSizeAssumption DEF Pos
    <3>2. CASE i < k
      BY <1>2, <2>2, <2>3, <3>1, <3>2, ChunkSizeAssumption
    <3>3. CASE i = k /\ r > 0 /\ CutsTail(size)
      <4>1. Cut(file[k], r)[p] # 0
        BY <1>8, <2>1, <2>8, <3>3 DEF Sha256
      <4>2. p < r
        BY <4>1 DEF Cut
      <4>3. QED
        BY <1>2, <2>2, <2>4, <3>1, <3>3, <4>2
    <3>4. CASE i = k /\ r > 0 /\ ~CutsTail(size)
      <4>1. i < Len(leaves) /\ leaves[i + 1].sha256[p] # 0
        BY <1>8, <2>1, <2>8, <3>4 DEF HASH_OF_4096_ZEROS, Sha256, ZeroChunk
      <4>2. y + p < file_size /\ file_size <= size
        BY <1>2, <1>4, <1>9, <2>5, <3>4, <4>1
      <4>3. QED
        BY <1>2, <1>9, <2>2, <3>1, <4>2
    <3>5. QED
      BY <2>6, <3>2, <3>3, <3>4
  <2>9. QED
    BY <2>7, <2>8 DEF y
<1>14. QED
  BY <1>10, <1>11, <1>12, <1>13 DEF IInv

\* A resize that failed remotely: the chunks before the cut still verify.
LEMMA ResizeFailsInv ==
    ASSUME IInv, NEW t \in Threads, NEW size \in Sizes, ResizeFails(t, size)
    PROVE  IInv'
<1> DEFINE l == LeavesForResize(size)
           k == size \div CHUNK_SIZE
           r == size % CHUNK_SIZE
<1>1. ResizeEnter(t, size) /\ \A u \in Threads : pc[u] # "io"
  BY FreeLock DEF IInv, ResizeFails, ResizeEnter
<1>2. size \in Nat /\ k \in Nat /\ r \in Nat
  BY <1>1, ResizeGeometry
<1>3. size = k * CHUNK_SIZE + r
  BY <1>2, DivMod
<1>4. CutsTail(size) => size < file_size
  BY DEF CutsTail
<1>5. /\ l \in Seq(Hash) /\ Len(l) \in Nat /\ Len(leaves) <= Len(l)
      /\ CutsTail(size) => k < Len(l) /\ l[k + 1] = Sha256(Cut(file[k], r))
      /\ \A i \in Nat : i < Len(leaves) /\ ~(CutsTail(size) /\ i = k) =>
            l[i + 1] = leaves[i + 1]
      /\ \A i \in Nat : Len(leaves) <= i /\ i < Len(l) =>
            /\ CutsTail(size) /\ i <= k
            /\ i # k => l[i + 1] = HASH_OF_4096_ZEROS
  BY <1>1, LeavesForResizeFacts
<1>6. /\ leaves' = l /\ UNCHANGED <<file_size, lock, pc, op>>
      /\ suspect' = suspect \cup {i \in Chunks : i >= k}
  BY DEF ResizeFails
<1>7. /\ file' \in [Chunks -> Chunk] /\ file_len' \in Nat
      /\ \A i \in Chunks : i < k => file'[i] = file[i]
  BY <1>1, <1>2, ResizedFileFacts DEF IInv, TypeOK, ResizeFails, remote
<1> HIDE DEF l, k, r
<1>8. Len(leaves) \in Nat /\ Chunks \subseteq Nat /\ file_size \in Nat
  BY EditorAssumption DEF IInv, TypeOK
<1>9. TypeOK'
  BY <1>5, <1>6, <1>7, Zenon DEF IInv, TypeOK
<1>10. LockInv' /\ OpInv' /\ IoInv'
  BY <1>1, <1>6, Zenon DEF IInv, LockInv, OpInv, IoInv
<1>11. AcknowledgedChunksVerify'
  <2> SUFFICES ASSUME NEW i \in Chunks, i \notin suspect'
               PROVE  Verifies(i)'
    BY DEF AcknowledgedChunksVerify
  <2>1. i \in Nat /\ i < k /\ Verifies(i)
    <3>1. i \in Nat /\ i \notin suspect /\ ~(i >= k)
      BY <1>6, <1>8
    <3>2. i < k
      BY <1>2, <3>1
    <3>3. Verifies(i)
      BY <1>1, <3>1 DEF IInv, AcknowledgedChunksVerify
    <3>4. QED
      BY <3>1, <3>2, <3>3
  <2>2. file'[i] = file[i] /\ i # k
    <3>1. file'[i] = file[i]
      BY <1>7, <2>1
    <3>2. i # k
      BY <1>2, <2>1
    <3>3. QED
      BY <3>1, <3>2
  <2>3. CASE i < Len(leaves)
    <3>1. i < Len(l)
      BY <1>5, <1>8, <2>1, <2>3, SMTT(30)
    <3>2. l[i + 1] = leaves[i + 1]
      BY <1>5, <2>1, <2>2, <2>3
    <3>3. QED
      BY <1>6, <2>1, <2>2, <2>3, <3>1, <3>2, Zenon DEF Verifies, is_index_valid
  <2>4. CASE Len(leaves) <= i
    <3>1. ~(i < Len(leaves))
      BY <1>8, <2>1, <2>4
    <3>2. i < Len(l) => l[i + 1] = HASH_OF_4096_ZEROS
      BY <1>5, <2>1, <2>2, <2>4
    <3>3. QED
      BY <1>6, <2>1, <2>2, <3>1, <3>2 DEF Verifies, is_index_valid, HASH_OF_4096_ZEROS
  <2>5. QED
    BY <1>8, <2>1, <2>3, <2>4
<1>12. TreeWithinSize'
  <2> SUFFICES ASSUME NEW i \in 0 .. Len(l) - 1
               PROVE  /\ i * CHUNK_SIZE < file_size
                      /\ \A p \in Pos : l[i + 1].sha256[p] # 0 =>
                            i * CHUNK_SIZE + p < file_size
    BY <1>6 DEF TreeWithinSize
  <2> DEFINE x == k * CHUNK_SIZE
             y == i * CHUNK_SIZE
  <2>1. i \in Nat /\ i < Len(l)
    BY <1>5, SMTT(30)
  <2>2. x \in Nat /\ y \in Nat /\ size = x + r
    BY <1>2, <1>3, <2>1, ChunkSizeAssumption
  <2>3. i < k => y < x
    BY <1>2, <2>1, LaterChunk, ChunkSizeAssumption
  <2>4. i = k => y = x
    OBVIOUS
  <2>5. i < Len(leaves) =>
          /\ y < file_size
          /\ \A p \in Pos : leaves[i + 1].sha256[p] # 0 => y + p < file_size
    BY <1>8, <2>1, SMTT(30) DEF IInv, TreeWithinSize
  <2> HIDE DEF x, y
  <2>6. CASE CutsTail(size) /\ i = k
    <3>1. y < file_size
      BY <1>2, <1>4, <1>8, <2>2, <2>4, <2>6
    <3>2. ASSUME NEW p \in Pos, l[i + 1].sha256[p] # 0
          PROVE  y + p < file_size
      <4>1. p < r /\ p \in Nat
        <5>1. Cut(file[k], r)[p] # 0
          BY <1>5, <2>6, <3>2, SMTT(30) DEF Sha256
        <5>2. QED
          BY <5>1 DEF Cut, Pos
      <4>2. QED
        BY <1>2, <1>4, <1>8, <2>2, <2>4, <2>6, <4>1
    <3>3. QED
      BY <3>1, <3>2 DEF y
  <2>7. CASE ~(CutsTail(size) /\ i = k) /\ i < Len(leaves)
    BY <1>5, <2>1, <2>5, <2>7 DEF y
  <2>8. CASE ~(CutsTail(size) /\ i = k) /\ Len(leaves) <= i
    <3>1. CutsTail(size) /\ i < k /\ l[i + 1] = HASH_OF_4096_ZEROS
      BY <1>2, <1>5, <2>1, <2>8
    <3>2. y < file_size
      BY <1>2, <1>4, <1>8, <2>2, <2>3, <3>1
    <3>3. \A p \in Pos : l[i + 1].sha256[p] = 0
      BY <3>1 DEF HASH_OF_4096_ZEROS, Sha256, ZeroChunk
    <3>4. QED
      BY <3>2, <3>3 DEF y
  <2>9. i < Len(leaves) \/ Len(leaves) <= i
    BY <1>8, <2>1
  <2>10. QED
    BY <2>6, <2>7, <2>8, <2>9
<1>13. QED
  BY <1>9, <1>10, <1>11, <1>12 DEF IInv

-----------------------------------------------------------------------------
(* The theorems. *)

\* Every step of every thread preserves the inductive invariant.
LEMMA NextInv == IInv /\ [Next]_vars => IInv'
<1> SUFFICES ASSUME IInv, [Next]_vars PROVE IInv'
  OBVIOUS
<1>1. CASE UNCHANGED vars
  BY <1>1, Zenon DEF vars, IInv, TypeOK, LockInv, OpInv, IoInv, AcknowledgedChunksVerify, Verifies,
              TreeWithinSize
<1>2. CASE Next
  <2>1. PICK t \in Threads : Step(t)
    BY <1>2 DEF Next
  <2>2. CASE \E buf \in Buffers, offset \in Offsets : WriteBegin(t, buf, offset)
    BY <2>2, WriteBeginInv
  <2>3. CASE ChunkBegin(t)
    BY <2>3, ChunkBeginInv
  <2>4. CASE ChunkRefused(t) \/ WriteReturn(t)
    BY <2>4, ReturnInv
  <2>5. CASE \E n \in 1 .. CHUNK_SIZE : RemoteWrite(t, n)
    BY <2>5, RemoteWriteInv
  <2>6. CASE \E n \in 0 .. CHUNK_SIZE : RemoteWriteFails(t, n)
    BY <2>6, RemoteWriteFailsInv
  <2>7. CASE ChunkCommit(t)
    BY <2>7, ChunkCommitInv
  <2>8. CASE \E size \in Sizes : Resize(t, size)
    BY <2>8, ResizeInv
  <2>9. CASE \E size \in Sizes : ResizeFails(t, size)
    BY <2>9, ResizeFailsInv
  <2>10. QED
    BY <2>1, <2>2, <2>3, <2>4, <2>5, <2>6, <2>7, <2>8, <2>9 DEF Step
<1>3. QED
  BY <1>1, <1>2

\* The inductive invariant holds in every reachable state.
LEMMA Invariance == Spec => []IInv
BY InitInv, NextInv, PTL DEF Spec

\* The state of the editor, of the backing file and of the calls in progress
\* keeps its type (struct VerifiedFileEditor and MerkleLeaves).
THEOREM TypeCorrect == Spec => []TypeOK
<1>1. IInv => TypeOK
  BY DEF IInv
<1>2. QED
  BY <1>1, Invariance, PTL

\* Whatever its size, its chunk size and its callers, and whichever remote calls
\* fail, a file's chunks verify against the tree once their changes are
\* acknowledged (write_at and resize of editor.rs).
THEOREM ChunksVerify == Spec => []AcknowledgedChunksVerify
<1>1. IInv => AcknowledgedChunksVerify
  BY DEF IInv
<1>2. QED
  BY <1>1, Invariance, PTL

\* The tree never vouches for a byte other than zero past the file's size, not
\* even after failed calls (update_hash and resize of builder.rs).
THEOREM TreeEndsAtSize == Spec => []TreeWithinSize
<1>1. IInv => TreeWithinSize
  BY DEF IInv
<1>2. QED
  BY <1>1, Invariance, PTL
=============================================================================
