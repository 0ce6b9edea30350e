--------------------------- MODULE FsverityProofs ---------------------------
(***************************************************************************)
(* What the fs-verity code of authfs promises, for every size of chunks and *)
(* hashes, every file and every request: what a VerifiedFileReader delivers *)
(* is the file whose root it was given, the verifier's walk climbs the tree *)
(* of that file, and its digest is the one that MerkleLeaves calculates.   *)
(***************************************************************************)
EXTENDS VerifiedFileReader, FsverityTreeProofs

-----------------------------------------------------------------------------
(* VerifiedFileReader: where a read is in the file and in the tree. *)

\* The hash that the tree of the pinned version has for what the walk has in hand.
Expected == WayHash(ChunkHashes(pinned), chunk_index, step - 1)

\* What a page reply may rely on: the hash in hand can be that of the pinned tree only
\* for the chunk of the pinned version, and is when every reply was faithful.
WalkInv ==
    /\ actual_hash = Expected => Padded(buf) = Padded(StoredChunk(pinned, chunk_index))
    /\ faithful => buf = StoredChunk(pinned, chunk_index) /\ actual_hash = Expected

\* The inductive invariant of the reader.
ReaderInv ==
    /\ TypeOK
    /\ pc = "new" => result = NoResult /\ faithful
    /\ pc \in {"ready", "chunk", "walk"} =>
          /\ pinned \in Versions /\ Len(pinned) = file_size
          /\ root_hash = Sha256(Stored[pinned][1])
    /\ pc \in {"chunk", "walk"} =>
          req.data = SubSeq(pinned, req.offset + 1, req.offset + Len(req.data))
    /\ pc = "walk" => WalkInv
    /\ faithful \in BOOLEAN
    /\ DeliversPinnedVersion
    /\ FaithfulRepliesSucceed

\* A chunk of the file as it is stored.
LEMMA StoredChunkFacts ==
    ASSUME NEW v \in Versions, NEW i \in Nat, i * CHUNK_SIZE < Len(v)
    PROVE  /\ StoredChunk(v, i) \in Seq(Byte)
           /\ Len(StoredChunk(v, i)) = Smaller((i + 1) * CHUNK_SIZE, Len(v)) - i * CHUNK_SIZE
           /\ Len(StoredChunk(v, i)) \in 1 .. CHUNK_SIZE
           /\ \A p \in 0 .. Len(StoredChunk(v, i)) - 1 :
                 StoredChunk(v, i)[p + 1] = v[i * CHUNK_SIZE + p + 1]
<1> DEFINE a == i * CHUNK_SIZE
           b == Smaller((i + 1) * CHUNK_SIZE, Len(v))
<1>1. v \in Seq(Byte) /\ Len(v) \in Nat /\ CHUNK_SIZE \in Nat \ {0}
  BY ReaderAssumption, ChunkSizeAssumption
<1>2. a \in Nat /\ (i + 1) * CHUNK_SIZE = a + CHUNK_SIZE
  BY <1>1
<1>3. b \in Nat /\ a < b /\ b <= a + CHUNK_SIZE /\ b <= Len(v)
  BY <1>1, <1>2 DEF Smaller
<1>4. StoredChunk(v, i) = SubSeq(v, a + 1, b)
  BY DEF StoredChunk
<1> HIDE DEF a, b
<1>5. SubSeq(v, a + 1, b) \in Seq(Byte) /\ Len(SubSeq(v, a + 1, b)) = b - a
  <2>1. \A j \in 1 .. b - a : v[a + j] \in Byte
    BY <1>1, <1>2, <1>3
  <2>2. QED
    BY <1>1, <1>2, <1>3, <2>1
<1>6. \A p \in 0 .. (b - a) - 1 : SubSeq(v, a + 1, b)[p + 1] = v[a + p + 1]
  BY <1>1, <1>2, <1>3
<1>7. (b - a) \in 1 .. CHUNK_SIZE
  BY <1>1, <1>2, <1>3
<1>8. QED
  BY <1>4, <1>5, <1>6, <1>7 DEF a, b

\* Whatever part of a version is asked for is a byte string.
LEMMA StoredChunkType ==
    ASSUME NEW v \in Versions, NEW i \in Nat
    PROVE  StoredChunk(v, i) \in Seq(Byte)
<1> DEFINE a == i * CHUNK_SIZE
           b == Smaller((i + 1) * CHUNK_SIZE, Len(v))
<1>1. v \in Seq(Byte) /\ Len(v) \in Nat /\ CHUNK_SIZE \in Nat \ {0}
  BY ReaderAssumption, ChunkSizeAssumption
<1>2. a \in Nat /\ (i + 1) * CHUNK_SIZE \in Nat
  BY <1>1
<1>3. b \in Nat /\ b <= Len(v)
  BY <1>1, <1>2 DEF Smaller
<1> HIDE DEF a, b
<1>4. SubSeq(v, a + 1, b) \in Seq(Byte)
  <2>1. \A j \in 1 .. b - a : v[a + j] \in Byte
    BY <1>1, <1>2, <1>3
  <2>2. QED
    BY <1>1, <1>2, <1>3, <2>1
<1>5. QED
  BY <1>4 DEF StoredChunk, a, b

\* The leaves of a version that is not empty.
LEMMA LeavesOfVersion ==
    ASSUME NEW v \in Versions, Len(v) # 0
    PROVE  /\ LeavesOf(ChunkHashes(v), Len(v))
           /\ Len(ChunkHashes(v)) = ChunkCount(v)
           /\ ChunkCount(v) \in Nat
<1>1. ChunkCount(v) \in Nat /\ Len(v) \in Nat
  <2>1. Len(v) \in Nat
    BY ReaderAssumption
  <2>2. QED
    BY <2>1, ChunkSizeAssumption, RoundupAdjoint DEF ChunkCount
<1>2. Len(ChunkHashes(v)) = ChunkCount(v)
  BY <1>1 DEF ChunkHashes
<1>3. QED
  BY <1>1, <1>2 DEF LeavesOf, ChunkCount

\* Bytes of the file from offset on lie in chunk offset \div CHUNK_SIZE.
LEMMA ChunkOfOffset ==
    ASSUME NEW v \in Versions, NEW o \in Nat, o < Len(v)
    PROVE  LET i == o \div CHUNK_SIZE
               begin == o % CHUNK_SIZE
           IN  /\ i \in 0 .. ChunkCount(v) - 1
               /\ i \in Nat
               /\ begin \in Pos
               /\ i * CHUNK_SIZE \in Nat
               /\ o = i * CHUNK_SIZE + begin
               /\ i * CHUNK_SIZE < Len(v)
<1> DEFINE i == o \div CHUNK_SIZE
           begin == o % CHUNK_SIZE
<1>1. Len(v) \in Nat /\ CHUNK_SIZE \in Nat \ {0}
  BY ReaderAssumption, ChunkSizeAssumption
<1>2. i \in Nat /\ begin \in 0 .. CHUNK_SIZE - 1 /\ o = i * CHUNK_SIZE + begin
  BY <1>1
<1> HIDE DEF i, begin
<1>3. i * CHUNK_SIZE \in Nat
  BY <1>1, <1>2
<1>4. i * CHUNK_SIZE < Len(v)
  BY <1>1, <1>2, <1>3
<1>5. ~ (ChunkCount(v) <= i) /\ ChunkCount(v) \in Nat
  <2>1. ~ (Len(v) <= i * CHUNK_SIZE)
    BY <1>1, <1>3, <1>4
  <2>2. QED
    BY <1>1, <1>2, <2>1, RoundupAdjoint DEF ChunkCount
<1>6. i \in 0 .. ChunkCount(v) - 1
  BY <1>2, <1>5
<1>7. QED
  BY <1>2, <1>3, <1>4, <1>6 DEF i, begin, Pos

\* A read in progress is at a chunk of the file, and what it plans to take of the
\* chunk lies in the chunk, in the request and in the file.
LEMMA Position ==
    ASSUME TypeOK, pc \in {"chunk", "walk"}, pinned \in Versions, Len(pinned) = file_size
    PROVE  /\ file_size \in Nat /\ file_size # 0
           /\ current_offset \in Nat /\ current_offset < file_size
           /\ chunk_index \in 0 .. ChunkCount(pinned) - 1
           /\ chunk_index \in Nat
           /\ chunk_index * CHUNK_SIZE \in Nat
           /\ chunk_index * CHUNK_SIZE < file_size
           /\ current_offset % CHUNK_SIZE \in Pos
           /\ current_offset = chunk_index * CHUNK_SIZE + (current_offset % CHUNK_SIZE)
           /\ planned_data_size \in Nat \ {0}
           /\ planned_data_size <= req.size - Len(req.data)
           /\ (current_offset % CHUNK_SIZE) + planned_data_size <= CHUNK_SIZE
<1> DEFINE begin == current_offset % CHUNK_SIZE
<1>1. /\ req.offset \in Nat /\ req.size \in Nat /\ req.data \in Seq(Byte)
      /\ req.offset + req.size <= file_size /\ Len(req.data) < req.size
      /\ file_size \in Nat /\ CHUNK_SIZE \in Nat \ {0}
  BY ChunkSizeAssumption DEF TypeOK
<1>2. Len(req.data) \in Nat
  BY <1>1
<1>3. current_offset \in Nat /\ current_offset < file_size /\ file_size # 0
  BY <1>1, <1>2 DEF current_offset
<1>4. /\ chunk_index \in 0 .. ChunkCount(pinned) - 1
      /\ chunk_index \in Nat
      /\ begin \in Pos
      /\ chunk_index * CHUNK_SIZE \in Nat
      /\ current_offset = chunk_index * CHUNK_SIZE + begin
      /\ chunk_index * CHUNK_SIZE < file_size
  BY <1>3, ChunkOfOffset DEF chunk_index
<1>5. planned_data_size = Smaller(req.size - Len(req.data), CHUNK_SIZE - begin)
  BY DEF planned_data_size
<1> HIDE DEF begin
<1>6. begin \in Nat /\ begin < CHUNK_SIZE
  BY <1>1, <1>4 DEF Pos
<1>7. /\ planned_data_size \in Nat \ {0}
      /\ planned_data_size <= req.size - Len(req.data)
      /\ begin + planned_data_size <= CHUNK_SIZE
  BY <1>1, <1>2, <1>5, <1>6 DEF Smaller
<1>8. QED
  BY <1>1, <1>3, <1>4, <1>7 DEF begin

\* The page that the walk reads next and the slot that it compares.
LEMMA WalkReads ==
    ASSUME TypeOK, pc = "walk", pinned \in Versions, Len(pinned) = file_size
    PROVE  LET w == Walk[step]
               page == Stored[pinned][w.page + 1]
           IN  /\ w.slot \in 1 .. HASHES_PER_NODE
               /\ page = WayPage(ChunkHashes(pinned), chunk_index, step - 1)
               /\ page[w.slot] = Expected
               /\ step = Len(Walk) => w.page = 0
               /\ WayHash(ChunkHashes(pinned), chunk_index, (step + 1) - 1) = Sha256(page)
<1> DEFINE v == ChunkHashes(pinned)
           i == chunk_index
           H == merkle_tree_height(file_size)
<1>1. /\ file_size \in Nat \ {0} /\ i \in 0 .. ChunkCount(pinned) - 1
  BY Position
<1>2. /\ LeavesOf(v, file_size) /\ Len(v) = ChunkCount(pinned)
  BY <1>1, LeavesOfVersion
<1>3. H \in Nat /\ Len(Walk) = H + 1
  <2>1. H \in Nat
    BY <1>1, HeightAdjoint
  <2>2. QED
    BY <2>1 DEF Walk, fsverity_walk
<1>4. step \in 1 .. H + 1
  BY <1>3 DEF TypeOK
<1>5. Stored[pinned] = StoredTree(v)
  BY DEF Stored
<1>6. i \in 0 .. Len(v) - 1
  BY <1>1, <1>2
<1> HIDE DEF v, i, H
<1>7. LET w == fsverity_walk(i, file_size)[step]
      IN  /\ w.slot \in 1 .. HASHES_PER_NODE
          /\ StoredTree(v)[w.page + 1] = WayPage(v, i, step - 1)
          /\ WayPage(v, i, step - 1)[w.slot] = WayHash(v, i, step - 1)
          /\ step = H + 1 => w.page = 0
  <2>1. ASSUME NEW k \in 1 .. H + 1
        PROVE  LET w == fsverity_walk(i, file_size)[k]
               IN  /\ w.slot \in 1 .. HASHES_PER_NODE
                   /\ StoredTree(v)[w.page + 1] = WayPage(v, i, k - 1)
                   /\ WayPage(v, i, k - 1)[w.slot] = WayHash(v, i, k - 1)
                   /\ k = H + 1 => w.page = 0
    BY <1>2, <1>6, WalkStep DEF H
  <2>2. QED
    BY <1>4, <2>1
<1>8. WayHash(v, i, (step + 1) - 1) = Sha256(WayPage(v, i, step - 1))
  <2> DEFINE x == step - 1
  <2>1. x \in Nat /\ x + 1 = (step + 1) - 1
    BY <1>3, <1>4
  <2> HIDE DEF x
  <2>2. WayHash(v, i, x + 1) = Sha256(WayPage(v, i, x))
    BY <1>2, <1>6, <2>1, WayUp
  <2>3. QED
    BY <2>1, <2>2 DEF x
<1>9. QED
  BY <1>3, <1>5, <1>7, <1>8 DEF v, i, Walk, Expected

-----------------------------------------------------------------------------
(* VerifiedFileReader: the steps. *)

\* What makes a sequence a concatenation.
LEMMA ConcatenationIs ==
    ASSUME NEW S, NEW s \in Seq(S), NEW t \in Seq(S), NEW u \in Seq(S),
           Len(u) = Len(s) + Len(t),
           \A k \in 1 .. Len(s) : u[k] = s[k],
           \A k \in 1 .. Len(t) : u[Len(s) + k] = t[k]
    PROVE  s \o t = u
<1>1. s \o t \in Seq(S) /\ Len(s \o t) = Len(s) + Len(t)
  OBVIOUS
<1>2. \A k \in 1 .. Len(s) + Len(t) :
         (s \o t)[k] = IF k <= Len(s) THEN s[k] ELSE t[k - Len(s)]
  OBVIOUS
<1>3. ASSUME NEW k \in 1 .. Len(s) + Len(t)
      PROVE  (s \o t)[k] = u[k]
  <2>1. CASE k <= Len(s)
    BY <1>2, <2>1
  <2>2. CASE ~ (k <= Len(s))
    <3>1. k - Len(s) \in 1 .. Len(t) /\ Len(s) + (k - Len(s)) = k
      BY <2>2
    <3>2. u[Len(s) + (k - Len(s))] = t[k - Len(s)]
      BY <3>1
    <3>3. QED
      BY <1>2, <2>2, <3>1, <3>2
  <2>3. QED
    BY <2>1, <2>2
<1>4. QED
  BY <1>1, <1>3

\* t is the p bytes of v after the first b.
Piece(v, b, p, t) ==
    b + p <= Len(v) /\ t \in [1 .. p -> Byte] /\ \A k \in 1 .. p : t[k] = v[b + k]

\* u is the n bytes of v after the first a.
Part(u, v, a, n) ==
    u \in Seq(Byte) /\ Len(u) = n /\ \A k \in 1 .. n : u[k] = v[a + k]

\* SubSeq takes a part.
LEMMA SubSeqIsPart ==
    ASSUME NEW v \in Seq(Byte), NEW a \in Nat, NEW n \in Nat, a + n <= Len(v)
    PROVE  Part(SubSeq(v, a + 1, a + n), v, a, n)
<1>1. \A k \in 1 .. n : v[a + k] \in Byte
  OBVIOUS
<1>2. QED
  BY <1>1 DEF Part

\* What is read so far, continued with the bytes that follow in the file.
LEMMA Continued ==
    ASSUME NEW v \in Seq(Byte), NEW a \in Nat, NEW m \in Nat, NEW p \in Nat,
           NEW t, Piece(v, a + m, p, t), NEW s, Part(s, v, a, m), NEW u, Part(u, v, a, m + p)
    PROVE  s \o t = u
<1>1. a + m + p <= Len(v) /\ t \in [1 .. p -> Byte] /\ \A k \in 1 .. p : t[k] = v[a + m + k]
  BY DEF Piece
<1>2. /\ s \in Seq(Byte) /\ Len(s) = m /\ \A k \in 1 .. m : s[k] = v[a + k]
      /\ u \in Seq(Byte) /\ Len(u) = m + p /\ \A k \in 1 .. m + p : u[k] = v[a + k]
  BY DEF Part
<1>3. t \in Seq(Byte) /\ Len(t) = p
  BY <1>1
<1>4. ASSUME NEW k \in 1 .. Len(t) PROVE u[Len(s) + k] = t[k]
  <2>1. k \in 1 .. p /\ m + k \in 1 .. m + p /\ a + (m + k) = a + m + k
    BY <1>3
  <2>2. u[m + k] = v[a + m + k] /\ t[k] = v[a + m + k]
    BY <1>1, <1>2, <2>1
  <2>3. QED
    BY <1>2, <2>2
<1>5. ASSUME NEW k \in 1 .. Len(s) PROVE u[k] = s[k]
  <2>1. k \in 1 .. m /\ k \in 1 .. m + p
    BY <1>2
  <2>2. QED
    BY <1>2, <2>1, Zenon
<1>6. QED
  BY <1>2, <1>3, <1>4, <1>5, ConcatenationIs, Zenon

\* The part of the state that Return leaves the reader in.
LEMMA Returned ==
    ASSUME ReaderInv, pc \in {"ready", "chunk", "walk"}, NEW r, Return(r),
           r \in [ok : BOOLEAN, offset : Nat, size : Nat, data : Seq(Byte)],
           r.ok => r.data = SubSeq(pinned, r.offset + 1, r.offset + r.size),
           UNCHANGED <<file_size, root_hash, pinned>>,
           faithful' \in BOOLEAN, faithful' => r.ok
    PROVE  ReaderInv'
<1>1. /\ result' = r /\ req' = NoReq /\ buf' = <<>> /\ step' = 0 /\ pc' = "ready"
      /\ pinned' = pinned /\ root_hash' = root_hash /\ file_size' = file_size
  BY DEF Return
<1>2. TypeOK'
  <2>1. NoReq \in [offset : Nat, size : Nat, data : Seq(Byte)]
    BY DEF NoReq
  <2>2. NoReq.offset + NoReq.size <= file_size /\ ~ (Len(NoReq.data) < NoReq.size)
    BY DEF NoReq, ReaderInv, TypeOK
  <2>3. Len(buf') <= CHUNK_SIZE /\ buf' \in Seq(Byte)
    BY <1>1, ChunkSizeAssumption
  <2>4. pinned \in Versions \cup {<<>>} /\ file_size \in Nat
    BY DEF ReaderInv, TypeOK
  <2>5. QED
    BY <1>1, <2>1, <2>2, <2>3, <2>4 DEF TypeOK
<1>3. pinned \in Versions /\ Len(pinned) = file_size /\ root_hash = Sha256(Stored[pinned][1])
  BY DEF ReaderInv
<1>4. DeliversPinnedVersion' /\ FaithfulRepliesSucceed'
  BY <1>1 DEF DeliversPinnedVersion, FaithfulRepliesSucceed
<1>5. QED
  BY <1>1, <1>2, <1>3, <1>4 DEF ReaderInv, Stored

\* An error of a read is a result.
LEMMA ErrType ==
    /\ Err \in [ok : BOOLEAN, offset : Nat, size : Nat, data : Seq(Byte)]
    /\ ~ Err.ok
BY DEF Err

\* A new reader keeps the root of the version whose page it was given.
LEMMA NewReaderStep ==
    ASSUME ReaderInv, NEW v \in Versions, NewReader(v)
    PROVE  ReaderInv'
<1>1. /\ pc' = "ready" /\ pinned' = v /\ root_hash' = Sha256(Stored[v][1])
      /\ req' = req /\ buf' = buf /\ step' = step /\ result' = result /\ faithful' = faithful
      /\ pc = "new" /\ Len(v) = file_size /\ file_size' = file_size
  BY DEF NewReader
<1>2. TypeOK'
  BY <1>1 DEF ReaderInv, TypeOK
<1>3. result = NoResult /\ faithful
  BY <1>1 DEF ReaderInv
<1>4. DeliversPinnedVersion' /\ FaithfulRepliesSucceed'
  <2>1. v \in Seq(Byte)
    BY ReaderAssumption
  <2>2. SubSeq(v, 0 + 1, 0 + 0) = <<>>
    BY <2>1
  <2>3. QED
    BY <1>1, <1>3, <2>2 DEF DeliversPinnedVersion, FaithfulRepliesSucceed, NoResult, Ok
<1>5. QED
  BY <1>1, <1>2, <1>3, <1>4 DEF ReaderInv, Stored

\* A request is cut to what the file has.
LEMMA ReadStep ==
    ASSUME ReaderInv, NEW offset \in Nat, NEW size \in Nat, Read(offset, size)
    PROVE  ReaderInv'
<1> DEFINE n == size_to_read(offset, size)
<1>1. pc = "ready" /\ faithful' = TRUE /\ UNCHANGED <<file_size, root_hash, pinned>>
  BY DEF Read
<1>2. pinned \in Versions /\ pinned \in Seq(Byte) /\ Len(pinned) = file_size /\ file_size \in Nat
  BY <1>1, ReaderAssumption DEF ReaderInv, TypeOK
<1>3. n \in Nat /\ (n # 0 => offset + n <= file_size)
  BY <1>2 DEF size_to_read, Smaller, Larger
<1>4. CASE n = 0
  <2> DEFINE r == Ok(offset, 0, <<>>)
  <2>1. Return(r)
    BY <1>4 DEF Read
  <2>2. r \in [ok : BOOLEAN, offset : Nat, size : Nat, data : Seq(Byte)]
    BY DEF Ok
  <2>3. r.ok /\ r.data = SubSeq(pinned, r.offset + 1, r.offset + r.size)
    <3>1. SubSeq(pinned, offset + 1, offset + 0) = <<>>
      BY <1>2
    <3>2. QED
      BY <3>1 DEF Ok
  <2> HIDE DEF r
  <2>4. QED
    BY <1>1, <2>1, <2>2, <2>3, Returned
<1>5. CASE n # 0
  <2>1. /\ req' = [offset |-> offset, size |-> n, data |-> <<>>] /\ pc' = "chunk"
        /\ buf' = buf /\ step' = step /\ actual_hash' = actual_hash /\ result' = NoResult
        /\ pinned' = pinned /\ root_hash' = root_hash /\ file_size' = file_size
    BY <1>1, <1>5 DEF Read
  <2> HIDE DEF n
  <2>2. /\ req' \in [offset : Nat, size : Nat, data : Seq(Byte)]
        /\ req'.offset = offset /\ req'.size = n /\ req'.data = <<>>
    BY <1>3, <2>1
  <2>3. TypeOK'
    <3>1. Len(<<>>) < n
      BY <1>3, <1>5
    <3>2. NoResult \in [ok : BOOLEAN, offset : Nat, size : Nat, data : Seq(Byte)]
      BY DEF NoResult, Ok
    <3>3. QED
      BY <1>1, <1>3, <1>5, <2>1, <2>2, <3>1, <3>2 DEF ReaderInv, TypeOK
  <2>4. req'.data = SubSeq(pinned', req'.offset + 1, req'.offset + Len(req'.data))
    BY <1>2, <2>1, <2>2
  <2>5. DeliversPinnedVersion' /\ FaithfulRepliesSucceed'
    <3>1. SubSeq(pinned, 0 + 1, 0 + 0) = <<>>
      BY <1>2
    <3>2. QED
      BY <2>1, <3>1 DEF DeliversPinnedVersion, FaithfulRepliesSucceed, NoResult, Ok
  <2>6. QED
    BY <1>1, <2>1, <2>3, <2>4, <2>5 DEF ReaderInv, Stored
<1>6. QED
  BY <1>4, <1>5

\* The walk has a step for every level.
LEMMA WalkLength ==
    ASSUME TypeOK, pc \in {"chunk", "walk"}, pinned \in Versions, Len(pinned) = file_size
    PROVE  Len(Walk) \in Nat \ {0}
<1> DEFINE H == merkle_tree_height(file_size)
<1>1. file_size \in Nat \ {0}
  BY Position
<1>2. H \in Nat
  BY <1>1, HeightAdjoint
<1>3. Len(Walk) = H + 1
  BY <1>2 DEF Walk, fsverity_walk
<1>4. QED
  BY <1>2, <1>3

\* The hash of a chunk is that of its leaf only if the chunk is the stored one.
LEMMA ChunkReplyStep ==
    ASSUME ReaderInv, NEW v \in Versions, NEW n \in 0 .. CHUNK_SIZE, ChunkReply(v, n)
    PROVE  ReaderInv'
<1> DEFINE i == chunk_index
           c == StoredChunk(v, i)
           w == ChunkHashes(pinned)
<1>1. /\ pc = "chunk" /\ pc' = "walk" /\ step' = 1
      /\ n <= Len(c) /\ buf' = SubSeq(c, 1, n)
      /\ actual_hash' = Sha256(Padded(buf'))
      /\ faithful' = (faithful /\ buf' = StoredChunk(pinned, i))
      /\ req' = req /\ root_hash' = root_hash /\ result' = result /\ pinned' = pinned
      /\ file_size' = file_size
  BY DEF ChunkReply
<1>2. TypeOK /\ pinned \in Versions /\ Len(pinned) = file_size
  BY <1>1 DEF ReaderInv
<1>3. chunk_index' = i
  BY <1>1 DEF chunk_index, current_offset
<1>4. /\ i \in 0 .. ChunkCount(pinned) - 1 /\ i \in Nat /\ i * CHUNK_SIZE < file_size
      /\ file_size \in Nat /\ file_size # 0
  BY <1>1, <1>2, Position
<1>5. c \in Seq(Byte) /\ Len(c) \in Nat
  BY <1>4, StoredChunkType
<1> HIDE DEF c
<1>6. buf' \in Seq(Byte) /\ Len(buf') <= CHUNK_SIZE
  <2>1. \A k \in 1 .. n : c[k] \in Byte
    BY <1>1, <1>5
  <2>2. SubSeq(c, 1, n) \in Seq(Byte) /\ Len(SubSeq(c, 1, n)) = n
    BY <1>1, <1>5, <2>1, ChunkSizeAssumption
  <2>3. QED
    BY <1>1, <2>2, ChunkSizeAssumption
<1>7. TypeOK'
  <2>1. Walk' = Walk
    BY <1>1, <1>3 DEF Walk
  <2>2. 1 \in 1 .. Len(Walk)
    BY <1>1, <1>2, WalkLength
  <2>3. Len(req.data) < req.size
    BY <1>1, <1>2 DEF TypeOK
  <2>4. QED
    BY <1>1, <1>2, <1>6, <2>1, <2>2, <2>3 DEF TypeOK
<1>8. Expected' = Sha256(Padded(StoredChunk(pinned, i)))
  <2>1. Expected' = WayHash(w, i, 1 - 1)
    BY <1>1, <1>3 DEF Expected
  <2>2. Levels(w)[0] = w /\ leaves_per_hash[0] = 1
    BY LevelsEquations, LeavesPerHash
  <2>3. i \div 1 = i
    BY <1>4
  <2>4. WayHash(w, i, 0) = w[i + 1]
    BY <2>2, <2>3 DEF WayHash
  <2>5. ChunkCount(pinned) \in Nat
    BY <1>2, <1>4, LeavesOfVersion
  <2>6. i + 1 \in 1 .. ChunkCount(pinned) /\ (i + 1) - 1 = i
    BY <1>4, <2>5
  <2>7. w[i + 1] = Sha256(Padded(StoredChunk(pinned, i)))
    BY <2>6 DEF ChunkHashes
  <2>8. QED
    BY <2>1, <2>4, <2>7
<1>9. WalkInv'
  <2>1. actual_hash' = Expected' => Padded(buf') = Padded(StoredChunk(pinned, i))
    BY <1>1, <1>8 DEF Sha256
  <2>2. faithful' => buf' = StoredChunk(pinned, i) /\ actual_hash' = Expected'
    <3>1. SUFFICES ASSUME faithful'
                   PROVE  buf' = StoredChunk(pinned, i) /\ actual_hash' = Expected'
      OBVIOUS
    <3>2. buf' = StoredChunk(pinned, i)
      BY <1>1, <3>1, Zenon
    <3>3. QED
      BY <1>1, <1>8, <3>2, Zenon
  <2>3. Padded(buf)' = Padded(buf')
    BY DEF Padded
  <2>4. StoredChunk(pinned, chunk_index)' = StoredChunk(pinned, i)
    BY <1>1, <1>3
  <2>5. QED
    BY <2>1, <2>2, <2>3, <2>4 DEF WalkInv
<1>10. DeliversPinnedVersion' /\ FaithfulRepliesSucceed'
  BY <1>1 DEF ReaderInv, DeliversPinnedVersion, FaithfulRepliesSucceed
<1>11. req'.data = SubSeq(pinned', req'.offset + 1, req'.offset + Len(req'.data))
  BY <1>1 DEF ReaderInv
<1>12. pinned' \in Versions /\ Len(pinned') = file_size' /\ root_hash' = Sha256(Stored[pinned][1])'
  BY <1>1 DEF ReaderInv, Stored
<1>13. QED
  BY <1>1, <1>7, <1>9, <1>10, <1>11, <1>12 DEF ReaderInv

\* What is taken of a verified chunk continues the pinned version.
LEMMA DeliveredBytes ==
    ASSUME ReaderInv, pc = "walk", Padded(buf) = Padded(StoredChunk(pinned, chunk_index))
    PROVE  LET begin == current_offset % CHUNK_SIZE
               data == req.data \o [k \in 1 .. planned_data_size |-> Padded(buf)[begin + k - 1]]
           IN  /\ data \in Seq(Byte)
               /\ Len(data) = Len(req.data) + planned_data_size
               /\ data = SubSeq(pinned, req.offset + 1, req.offset + Len(data))
               /\ planned_data_size <= Len(StoredChunk(pinned, chunk_index))
<1> DEFINE i == chunk_index
           begin == current_offset % CHUNK_SIZE
           q == planned_data_size
           c == StoredChunk(pinned, i)
           a == req.offset
           m == Len(req.data)
           t == [k \in 1 .. q |-> Padded(buf)[begin + k - 1]]
<1>1. TypeOK /\ pinned \in Versions /\ Len(pinned) = file_size /\ req.data = SubSeq(pinned, a + 1, a + m)
  BY DEF ReaderInv
<1>2. /\ pinned \in Seq(Byte) /\ Len(pinned) = file_size /\ file_size \in Nat
      /\ CHUNK_SIZE \in Nat \ {0}
  BY <1>1, ReaderAssumption, ChunkSizeAssumption DEF TypeOK
<1>3. /\ a \in Nat /\ req.size \in Nat /\ req.data \in Seq(Byte) /\ m \in Nat
      /\ a + req.size <= file_size
  BY <1>1 DEF TypeOK
<1>4. current_offset = a + m
  BY DEF current_offset
<1>5. /\ i \in Nat /\ i * CHUNK_SIZE \in Nat /\ i * CHUNK_SIZE < file_size
      /\ begin \in Pos /\ current_offset = i * CHUNK_SIZE + begin
      /\ q \in Nat \ {0} /\ q <= req.size - m /\ begin + q <= CHUNK_SIZE
  BY <1>1, Position
<1>6. /\ c \in Seq(Byte)
      /\ Len(c) = Smaller((i + 1) * CHUNK_SIZE, file_size) - i * CHUNK_SIZE
      /\ Len(c) \in Nat
      /\ \A p \in 0 .. Len(c) - 1 : c[p + 1] = pinned[i * CHUNK_SIZE + p + 1]
  BY <1>1, <1>2, <1>5, StoredChunkFacts
<1>7. (i + 1) * CHUNK_SIZE = i * CHUNK_SIZE + CHUNK_SIZE
  BY <1>2, <1>5
<1> HIDE DEF i, begin, q, c, a, m
<1>8. begin \in Nat /\ begin + q <= Len(c)
  <2> DEFINE z == i * CHUNK_SIZE
  <2>1. z \in Nat /\ a + m = z + begin /\ z < file_size
    BY <1>4, <1>5
  <2>2. Len(c) = Smaller(z + CHUNK_SIZE, file_size) - z
    BY <1>6, <1>7
  <2> HIDE DEF z
  <2>3. begin \in Nat
    BY <1>2, <1>5 DEF Pos
  <2>4. z + begin + q <= file_size
    BY <1>2, <1>3, <1>5, <2>1, <2>3
  <2>5. QED
    BY <1>2, <1>5, <2>1, <2>2, <2>3, <2>4 DEF Smaller
<1>9. ASSUME NEW k \in 1 .. q
      PROVE  t[k] = pinned[a + m + k]
  <2> DEFINE p == begin + k - 1
  <2>1. /\ p \in Pos /\ p \in 0 .. Len(c) - 1 /\ p < Len(c)
        /\ i * CHUNK_SIZE + p + 1 = a + m + k
    BY <1>2, <1>3, <1>4, <1>5, <1>6, <1>8 DEF Pos
  <2>2. t[k] = Padded(buf)[p]
    OBVIOUS
  <2>3. Padded(buf) = Padded(c)
    BY DEF c, i
  <2> HIDE DEF p, t
  <2>4. Padded(c)[p] = c[p + 1]
    BY <2>1 DEF Padded
  <2>5. c[p + 1] = pinned[i * CHUNK_SIZE + p + 1]
    BY <1>6, <2>1
  <2>6. QED
    BY <2>1, <2>2, <2>3, <2>4, <2>5
<1>10. a + m + q <= Len(pinned)
  BY <1>2, <1>3, <1>5
<1>11. t \in [1 .. q -> Byte]
  <2>1. ASSUME NEW k \in 1 .. q
        PROVE  t[k] \in Byte
    <3>1. a + m + k \in 1 .. Len(pinned)
      BY <1>2, <1>3, <1>5, <1>10
    <3>2. pinned[a + m + k] \in Byte
      BY <1>2, <3>1
    <3>3. QED
      BY <1>9, <3>2
  <2>2. t = [k \in 1 .. q |-> t[k]]
    OBVIOUS
  <2> HIDE DEF t
  <2>3. QED
    BY <2>1, <2>2
<1> HIDE DEF t
<1>12. q \in Nat /\ Piece(pinned, a + m, q, t)
  BY <1>5, <1>9, <1>10, <1>11 DEF Piece
<1>13. /\ req.data \o t \in Seq(Byte)
       /\ Len(req.data \o t) = m + q
       /\ req.data \o t = SubSeq(pinned, a + 1, a + Len(req.data \o t))
  <2> DEFINE n == m + q
             u == SubSeq(pinned, a + 1, a + n)
  <2>1. n \in Nat /\ a + n <= Len(pinned) /\ a + m <= Len(pinned)
    BY <1>2, <1>3, <1>10, <1>12
  <2>2. Part(req.data, pinned, a, m)
    BY <1>1, <1>2, <1>3, <2>1, SubSeqIsPart
  <2>3. Part(u, pinned, a, n)
    <3> HIDE DEF n
    <3>1. QED
      BY <1>2, <1>3, <2>1, SubSeqIsPart
  <2> HIDE DEF u
  <2>4. req.data \o t = u
    BY <1>2, <1>3, <1>12, <2>2, <2>3, Continued, Zenon
  <2>5. u \in Seq(Byte) /\ Len(u) = m + q
    BY <2>3 DEF Part
  <2>6. QED
    BY <2>4, <2>5 DEF u
<1>14. q <= Len(c)
  BY <1>5, <1>6, <1>8
<1>15. QED
  BY <1>13, <1>14, Zenon DEF t, a, m, q, begin, c, i

\* Once the chunk in hand is known to be that of the pinned version, the read goes on
\* or returns.
LEMMA DeliverStep ==
    ASSUME ReaderInv, pc = "walk", Padded(buf) = Padded(StoredChunk(pinned, chunk_index)),
           Deliver, UNCHANGED <<file_size, root_hash, pinned>>,
           faithful' \in BOOLEAN, faithful' => buf = StoredChunk(pinned, chunk_index)
    PROVE  ReaderInv'
<1> DEFINE begin == current_offset % CHUNK_SIZE
           q == planned_data_size
           data == req.data \o [k \in 1 .. q |-> Padded(buf)[begin + k - 1]]
<1>1. /\ data \in Seq(Byte) /\ Len(data) = Len(req.data) + q
      /\ data = SubSeq(pinned, req.offset + 1, req.offset + Len(data))
      /\ q <= Len(StoredChunk(pinned, chunk_index))
  BY DeliveredBytes, Zenon
<1>2. \/ Len(buf) < q /\ Return(Err)
      \/ ~ (Len(buf) < q) /\ Len(data) = req.size /\ Return(Ok(req.offset, req.size, data))
      \/ /\ Len(data) # req.size /\ req' = [req EXCEPT !.data = data]
         /\ pc' = "chunk" /\ buf' = <<>> /\ step' = 0 /\ result' = result
  BY Zenon DEF Deliver
<1>3. TypeOK /\ pinned \in Versions /\ Len(pinned) = file_size
  BY DEF ReaderInv
<1>4. /\ req \in [offset : Nat, size : Nat, data : Seq(Byte)] /\ req.offset + req.size <= file_size
      /\ buf \in Seq(Byte)
  BY <1>3 DEF TypeOK
<1>5. q \in Nat \ {0} /\ q <= req.size - Len(req.data)
  BY <1>3, Position
<1> HIDE DEF q, data
<1>6. CASE Len(buf) < q /\ Return(Err)
  <2>1. ~ faithful'
    <3>1. SUFFICES ASSUME faithful' PROVE FALSE
      OBVIOUS
    <3>2. buf = StoredChunk(pinned, chunk_index)
      BY <3>1
    <3>3. QED
      BY <1>1, <1>4, <1>5, <1>6, <3>2
  <2>2. QED
    BY <1>6, <2>1, ErrType, Returned
<1>7. CASE ~ (Len(buf) < q) /\ Len(data) = req.size /\ Return(Ok(req.offset, req.size, data))
  <2> DEFINE r == Ok(req.offset, req.size, data)
  <2>1. r \in [ok : BOOLEAN, offset : Nat, size : Nat, data : Seq(Byte)]
    BY <1>1, <1>4 DEF Ok
  <2>2. r.ok /\ r.data = SubSeq(pinned, r.offset + 1, r.offset + r.size)
    BY <1>1, <1>7 DEF Ok
  <2>3. Return(r)
    BY <1>7
  <2> HIDE DEF r
  <2>4. QED
    BY <2>1, <2>2, <2>3, Returned
<1>8. CASE /\ Len(data) # req.size /\ req' = [req EXCEPT !.data = data]
           /\ pc' = "chunk" /\ buf' = <<>> /\ step' = 0 /\ result' = result
  <2>1. /\ req' \in [offset : Nat, size : Nat, data : Seq(Byte)]
        /\ req'.offset = req.offset /\ req'.size = req.size /\ req'.data = data
    BY <1>1, <1>4, <1>8, Zenon
  <2>2. Len(data) < req.size
    BY <1>1, <1>4, <1>5, <1>8
  <2>3. TypeOK'
    <3>1. Len(buf') <= CHUNK_SIZE /\ buf' \in Seq(Byte)
      BY <1>8, ChunkSizeAssumption
    <3>2. /\ pinned' = pinned /\ pinned \in Versions \cup {<<>>} /\ file_size' = file_size /\ file_size \in Nat
          /\ result \in [ok : BOOLEAN, offset : Nat, size : Nat, data : Seq(Byte)]
      BY <1>3 DEF TypeOK
    <3>3. QED
      BY <1>4, <1>8, <2>1, <2>2, <3>1, <3>2 DEF TypeOK
  <2>4. req'.data = SubSeq(pinned', req'.offset + 1, req'.offset + Len(req'.data))
    BY <1>1, <2>1
  <2>5. DeliversPinnedVersion' /\ FaithfulRepliesSucceed'
    BY <1>8 DEF ReaderInv, DeliversPinnedVersion, FaithfulRepliesSucceed
  <2>6. pinned' \in Versions /\ Len(pinned') = file_size' /\ root_hash' = Sha256(Stored[pinned][1])'
    BY DEF ReaderInv, Stored
  <2>7. QED
    BY <1>8, <2>3, <2>4, <2>5, <2>6 DEF ReaderInv
<1>9. QED
  BY <1>2, <1>6, <1>7, <1>8

\* A page in whose slot the hash in hand lies is the page of the pinned tree, or
\* its own hash is that of no page of the way.
LEMMA PageReplyStep ==
    ASSUME ReaderInv, NEW v \in Versions, NEW i \in DOMAIN Stored[v],
           NEW n \in 0 .. HASHES_PER_NODE, PageReply(v, i, n)
    PROVE  ReaderInv'
<1> DEFINE page == PaddedPage(Stored[v][i], n)
           w == Walk[step]
           own == Stored[pinned][w.page + 1]
           chunk == StoredChunk(pinned, chunk_index)
<1>1. /\ pc = "walk"
      /\ IF page[w.slot] = actual_hash THEN Verified(page) ELSE Return(Err)
      /\ faithful' = (faithful /\ page = own)
      /\ UNCHANGED <<file_size, root_hash, pinned>>
  BY DEF PageReply
<1>2. /\ TypeOK /\ pinned \in Versions /\ Len(pinned) = file_size /\ root_hash = Sha256(Stored[pinned][1])
      /\ actual_hash = Expected => Padded(buf) = Padded(chunk)
      /\ faithful => buf = chunk /\ actual_hash = Expected
      /\ faithful \in BOOLEAN
  BY <1>1 DEF ReaderInv, WalkInv
<1>3. /\ own[w.slot] = Expected
      /\ step = Len(Walk) => w.page = 0
      /\ WayHash(ChunkHashes(pinned), chunk_index, (step + 1) - 1) = Sha256(own)
  BY <1>1, <1>2, WalkReads
<1>4. step \in 1 .. Len(Walk) /\ Len(Walk) \in Nat
  BY <1>1, <1>2, WalkLength DEF TypeOK
<1>5. faithful' \in BOOLEAN /\ (faithful' => faithful /\ page = own)
  BY <1>1, <1>2, Zenon
<1> HIDE DEF page, w, own, chunk
<1>6. CASE page[w.slot] # actual_hash
  <2>1. Return(Err)
    BY <1>1, <1>6
  <2>2. ~ faithful'
    BY <1>2, <1>3, <1>5, <1>6
  <2>3. QED
    BY <1>1, <1>5, <2>1, <2>2, ErrType, Returned
<1>7. CASE page[w.slot] = actual_hash /\ step < Len(Walk)
  <2>1. /\ actual_hash' = Sha256(page) /\ step' = step + 1
        /\ pc' = "walk" /\ req' = req /\ buf' = buf /\ result' = result
        /\ pinned' = pinned /\ root_hash' = root_hash /\ file_size' = file_size
    BY <1>1, <1>7 DEF Verified
  <2>2. chunk_index' = chunk_index /\ Walk' = Walk
    BY <2>1 DEF chunk_index, current_offset, Walk
  <2>3. TypeOK'
    <3>1. step' \in 1 .. Len(Walk)
      BY <1>4, <1>7, <2>1
    <3>2. QED
      BY <1>1, <1>2, <2>1, <2>2, <3>1 DEF TypeOK
  <2>4. Expected' = Sha256(own)
    BY <1>3, <2>1, <2>2 DEF Expected
  <2>5. actual_hash' = Expected' => Padded(buf) = Padded(chunk)
    <3>1. SUFFICES ASSUME actual_hash' = Expected' PROVE Padded(buf) = Padded(chunk)
      OBVIOUS
    <3>2. page = own
      BY <2>1, <2>4, <3>1 DEF Sha256
    <3>3. QED
      BY <1>2, <1>3, <1>7, <3>2
  <2>6. faithful' => buf = chunk /\ actual_hash' = Expected'
    BY <1>2, <1>5, <2>1, <2>4
  <2>7. WalkInv'
    BY <2>1, <2>2, <2>5, <2>6 DEF WalkInv, chunk
  <2>8. DeliversPinnedVersion' /\ FaithfulRepliesSucceed'
    BY <2>1 DEF ReaderInv, DeliversPinnedVersion, FaithfulRepliesSucceed
  <2>9. req'.data = SubSeq(pinned', req'.offset + 1, req'.offset + Len(req'.data))
    BY <1>1, <2>1 DEF ReaderInv
  <2>10. pinned' \in Versions /\ Len(pinned') = file_size' /\ root_hash' = Sha256(Stored[pinned][1])'
    BY <1>2, <2>1 DEF Stored
  <2>11. QED
    BY <1>5, <2>1, <2>3, <2>7, <2>8, <2>9, <2>10 DEF ReaderInv
<1>8. CASE page[w.slot] = actual_hash /\ ~ (step < Len(Walk))
  <2>1. w.page + 1 = 1 /\ own = Stored[pinned][1]
    BY <1>3, <1>4, <1>8 DEF own
  <2>2. IF Sha256(page) = root_hash THEN Deliver ELSE Return(Err)
    BY <1>1, <1>8 DEF Verified
  <2>3. CASE Sha256(page) = root_hash
    <3>1. page = own
      BY <1>2, <2>1, <2>3 DEF Sha256
    <3>2. Padded(buf) = Padded(chunk)
      BY <1>2, <1>3, <1>8, <3>1
    <3>3. Deliver
      BY <2>2, <2>3
    <3>4. faithful' => buf = chunk
      BY <1>2, <1>5
    <3>5. QED
      BY <1>1, <1>5, <3>2, <3>3, <3>4, DeliverStep DEF chunk
  <2>4. CASE Sha256(page) # root_hash
    <3>1. ~ faithful'
      BY <1>2, <1>5, <2>1, <2>4
    <3>2. QED
      BY <1>1, <1>5, <2>2, <2>4, <3>1, ErrType, Returned
  <2>5. QED
    BY <2>3, <2>4
<1>9. QED
  BY <1>6, <1>7, <1>8

\* ReaderInv holds at the start.
LEMMA ReaderInit == Init => ReaderInv
<1>1. SUFFICES ASSUME Init PROVE ReaderInv
  OBVIOUS
<1>2. file_size \in Nat
  <2>1. PICK v \in Versions : file_size = Len(v)
    BY <1>1 DEF Init
  <2>2. QED
    BY <2>1, ReaderAssumption
<1>3. /\ NoReq \in [offset : Nat, size : Nat, data : Seq(Byte)]
      /\ NoReq.offset + NoReq.size <= file_size /\ ~ (Len(NoReq.data) < NoReq.size)
  BY <1>2 DEF NoReq
<1>4. NoResult \in [ok : BOOLEAN, offset : Nat, size : Nat, data : Seq(Byte)]
  BY DEF NoResult, Ok
<1>5. TypeOK
  BY <1>1, <1>2, <1>3, <1>4, ChunkSizeAssumption DEF Init, TypeOK
<1>6. DeliversPinnedVersion /\ FaithfulRepliesSucceed
  <2>1. SubSeq(<<>>, 0 + 1, 0 + 0) = <<>>
    OBVIOUS
  <2>2. QED
    BY <1>1, <2>1 DEF Init, NoResult, Ok, DeliversPinnedVersion, FaithfulRepliesSucceed
<1>7. QED
  BY <1>1, <1>5, <1>6 DEF Init, ReaderInv

\* ReaderInv is inductive.
LEMMA ReaderInvariance == Spec => []ReaderInv
<1>1. ReaderInv /\ [Next]_vars => ReaderInv'
  <2>1. SUFFICES ASSUME ReaderInv, [Next]_vars PROVE ReaderInv'
    OBVIOUS
  <2>2. CASE \E v \in Versions : NewReader(v)
    BY <2>1, <2>2, NewReaderStep
  <2>3. CASE NewReaderFails
    BY <2>1, <2>3 DEF NewReaderFails, ReaderInv, TypeOK, DeliversPinnedVersion, FaithfulRepliesSucceed
  <2>4. CASE \E r \in Requests : Read(r[1], r[2])
    <3>1. PICK r \in Requests : Read(r[1], r[2])
      BY <2>4
    <3>2. r[1] \in Nat /\ r[2] \in Nat
      BY ReaderAssumption
    <3>3. QED
      BY <2>1, <3>1, <3>2, ReadStep
  <2>5. CASE \E v \in Versions, n \in 0 .. CHUNK_SIZE : ChunkReply(v, n)
    BY <2>1, <2>5, ChunkReplyStep
  <2>6. CASE \E v \in Versions, n \in 0 .. HASHES_PER_NODE :
                \E i \in DOMAIN Stored[v] : PageReply(v, i, n)
    BY <2>1, <2>6, PageReplyStep
  <2>7. CASE CallFails
    BY <2>1, <2>7, ErrType, Returned, Zenon DEF CallFails
  <2>8. CASE UNCHANGED vars
    <3>1. /\ pc' = pc /\ file_size' = file_size /\ root_hash' = root_hash /\ req' = req /\ buf' = buf /\ step' = step
          /\ actual_hash' = actual_hash /\ result' = result /\ pinned' = pinned
          /\ faithful' = faithful
      BY <2>8 DEF vars
    <3>2. chunk_index' = chunk_index
      BY <3>1 DEF chunk_index, current_offset
    <3>3. TypeOK' = TypeOK /\ WalkInv' = WalkInv
      BY <3>1, <3>2 DEF TypeOK, Walk, WalkInv, Expected
    <3>4. DeliversPinnedVersion' = DeliversPinnedVersion /\ FaithfulRepliesSucceed' = FaithfulRepliesSucceed
      BY <3>1 DEF DeliversPinnedVersion, FaithfulRepliesSucceed
    <3>5. QED
      BY <2>1, <3>1, <3>3, <3>4 DEF ReaderInv, Stored
  <2>9. QED
    BY <2>1, <2>2, <2>3, <2>4, <2>5, <2>6, <2>7, <2>8 DEF Next
<1>2. QED
  BY <1>1, ReaderInit, PTL DEF Spec

\* A read in progress stays within the file and its walk within the tree, for every
\* file and every request (fusefs read, verity_check).
THEOREM ReaderTypeCorrect == Spec => []TypeOK
<1>1. ReaderInv => TypeOK
  BY DEF ReaderInv
<1>2. QED
  BY <1>1, ReaderInvariance, PTL

\* Whatever the remote calls bring, a read that succeeds delivers the bytes of the one
\* version whose root page was read first: for trees of any height, files of any size
\* and any requests (verity_check, read_chunk, read_chunks).
THEOREM ReadsDeliverPinnedVersion == Spec => []DeliversPinnedVersion
<1>1. ReaderInv => DeliversPinnedVersion
  BY DEF ReaderInv
<1>2. QED
  BY <1>1, ReaderInvariance, PTL

\* A reader that is given the pinned version in every reply never refuses a read: the
\* walk it takes is that of the stored tree (fsverity_walk).
THEOREM FaithfulReadsSucceed == Spec => []FaithfulRepliesSucceed
<1>1. ReaderInv => FaithfulRepliesSucceed
  BY DEF ReaderInv
<1>2. QED
  BY <1>1, ReaderInvariance, PTL

\* For every file of several chunks, of any number of leaves, the digest by which the
\* reader knows the file is the one that MerkleLeaves calculates from its chunks;
\* calculate_root_hash never ends in InvalidState (builder.rs:104-131).
THEOREM DigestsAlwaysAgree == Spec => []DigestsAgree
<1>1. ReaderInv => DigestsAgree
  <2>1. SUFFICES ASSUME ReaderInv, pc \in {"ready", "chunk", "walk"}, file_size > CHUNK_SIZE
                 PROVE  build_fsverity_digest(root_hash, file_size) = BuilderDigests[pinned]
    BY DEF DigestsAgree
  <2> DEFINE w == ChunkHashes(pinned)
  <2>2. /\ pinned \in Versions /\ Len(pinned) = file_size /\ file_size \in Nat
        /\ root_hash = Sha256(Stored[pinned][1])
    BY <2>1 DEF ReaderInv, TypeOK
  <2>3. CHUNK_SIZE \in Nat \ {0} /\ Len(pinned) # 0
    BY <2>1, <2>2, ChunkSizeAssumption
  <2>4. LeavesOf(w, file_size) /\ Len(w) = ChunkCount(pinned) /\ ChunkCount(pinned) \in Nat
    BY <2>2, <2>3, LeavesOfVersion
  <2>5. ~ (ChunkCount(pinned) <= 1)
    <3>1. ~ (file_size <= 1 * CHUNK_SIZE)
      BY <2>1, <2>2, <2>3
    <3>2. QED
      BY <2>2, <2>3, <3>1, RoundupAdjoint DEF ChunkCount
  <2>6. /\ Stored[pinned] = StoredTree(w)
        /\ BuilderDigests[pinned] = build_fsverity_digest(calculate_root_hash(w), file_size)
    BY <2>2 DEF Stored, BuilderDigests, calculate_fsverity_digest
  <2> HIDE DEF w
  <2>7. calculate_root_hash(w) = Sha256(StoredTree(w)[1])
    BY <2>4, <2>5, RootHash
  <2>8. QED
    BY <2>2, <2>6, <2>7
<1>2. QED
  BY <1>1, ReaderInvariance, PTL
=============================================================================
