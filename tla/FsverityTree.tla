---------------------------- MODULE FsverityTree ----------------------------
(***************************************************************************)
(* The fs-verity Merkle tree: how many levels it has, how MerkleLeaves     *)
(* folds its leaves into a root (authfs/src/fsverity/builder.rs), and which *)
(* nodes of a stored tree VerifiedFileReader visits for a chunk            *)
(* (authfs/src/fsverity/verifier.rs).                                      *)
(*                                                                         *)
(* A node is a page of HASHES_PER_NODE hashes.  The all-zero hash that pads *)
(* a page is the digest of nothing.                                        *)
(***************************************************************************)
EXTENDS MerkleLeaves

CONSTANT HASH_SIZE      \* bytes of a hash: 32 in the code, where a chunk has 4096

HASHES_PER_NODE == CHUNK_SIZE \div HASH_SIZE

two_to[b \in Nat] == IF b = 0 THEN 1 ELSE 2 * two_to[b - 1]

\* A node holds a power of two hashes, and more than one: 128 in the code, whose
\* log128_ceil counts the levels with seven bits each.
ASSUME HashSizeAssumption ==
    /\ HASH_SIZE \in Nat \ {0}
    /\ CHUNK_SIZE % HASH_SIZE = 0
    /\ \E b \in 1 .. CHUNK_SIZE : HASHES_PER_NODE = two_to[b]

ZERO_HASH == [zeros |-> HASH_SIZE]

-----------------------------------------------------------------------------
(* Height *)

\* 64 minus the leading zeros of a u64: the bits that n needs.
bit_length(n) ==
    CHOOSE b \in 0 .. n : n < two_to[b] /\ \A c \in 0 .. b - 1 : two_to[c] <= n

\* The code's 7 is the number of bits of 127, the last slot of a node.
log128_ceil(num) == divide_roundup(bit_length(num - 1), bit_length(HASHES_PER_NODE - 1))

merkle_tree_height(data_size) ==
    log128_ceil(divide_roundup(data_size, HASHES_PER_NODE * CHUNK_SIZE))

-----------------------------------------------------------------------------
(* The root that MerkleLeaves computes. *)

\* Page k of a level, padded with zeros.
Page(hashes, k) ==
    [slot \in 1 .. HASHES_PER_NODE |->
        LET i == (k - 1) * HASHES_PER_NODE + slot
        IN  IF i <= Len(hashes) THEN hashes[i] ELSE ZERO_HASH]

Pages(hashes) ==
    [k \in 1 .. divide_roundup(Len(hashes), HASHES_PER_NODE) |-> Page(hashes, k)]

hash_all_pages(hashes) ==
    LET pages == Pages(hashes) IN [k \in DOMAIN pages |-> Sha256(pages[k])]

\* The hashes that are left when the leaves were hashed h times, page by page.
Levels(leaves) ==
    LET level[h \in Nat] == IF h = 0 THEN leaves ELSE hash_all_pages(level[h - 1])
    IN  level

\* Mutant: the fold leaves out the last level.
LevelAfterExclusive(leaves, levels) == Levels(leaves)[Larger(levels, 1)]

\* The leaves hashed once, and the fold over the levels after that.
LevelAfter(leaves, levels) == Levels(leaves)[1 + levels]

InvalidState == [error |-> "InvalidState"]

calculate_root_hash(leaves) ==
    LET n == Len(leaves)
        hashes == LevelAfter(leaves, merkle_tree_height(n * CHUNK_SIZE))
    IN  CASE n = 0 -> ZERO_HASH
          [] n = 1 -> leaves[1]
          [] OTHER -> IF Len(hashes) # 1 THEN InvalidState ELSE hashes[1]

\* The fs-verity descriptor, as far as files differ in it.
build_fsverity_digest(root_hash, file_size) ==
    [data_size |-> file_size, root_hash |-> root_hash]

\* What MerkleLeaves answers for its leaves.
calculate_fsverity_digest(leaves, file_size) ==
    build_fsverity_digest(calculate_root_hash(leaves), file_size)

-----------------------------------------------------------------------------
(* The way of the verifier through a stored tree, whose root page comes first. *)

leaves_per_hash[x \in Nat] == IF x = 0 THEN 1 ELSE HASHES_PER_NODE * leaves_per_hash[x - 1]

nodes_at_level(x, file_size) ==
    divide_roundup(file_size, CHUNK_SIZE * leaves_per_hash[x] * HASHES_PER_NODE)

level_size(x, file_size) == nodes_at_level(x, file_size) * CHUNK_SIZE

\* Mutant: leaves out the level that is being left.
level_offset_late(file_size) ==
    LET max_level == merkle_tree_height(file_size)
        offset[d \in 0 .. max_level] ==
            IF d = 0 THEN 0 ELSE offset[d - 1] + level_size(max_level - d, file_size)
    IN  offset

\* The scan from the root down: where the level d below the root starts.
level_offset(file_size) ==
    LET max_level == merkle_tree_height(file_size)
        offset[d \in 0 .. max_level] ==
            IF d = 0 THEN 0 ELSE offset[d - 1] + level_size(max_level - d + 1, file_size)
    IN  offset

\* The offset of the hash that is x levels above the hash of the chunk itself.
global_hash_offset(x, chunk_index, file_size) ==
    level_offset(file_size)[merkle_tree_height(file_size) - x]
        + (chunk_index \div leaves_per_hash[x]) * HASH_SIZE

\* From leaf to root: the page to read, and the slot that holds the child's hash.
fsverity_walk(chunk_index, file_size) ==
    [k \in 1 .. merkle_tree_height(file_size) + 1 |->
        LET offset == global_hash_offset(k - 1, chunk_index, file_size)
        IN  [page |-> offset \div CHUNK_SIZE,
             slot |-> (offset % CHUNK_SIZE) \div HASH_SIZE + 1]]

-----------------------------------------------------------------------------
(* External: the stored tree, as the fsverity tool dumps it and as the kernel *)
(* serves it: its levels from the root page down.                            *)

\* The level that fits into one page.
RootLevel(leaves) ==
    CHOOSE h \in 0 .. Len(leaves) :
        /\ Len(Levels(leaves)[h + 1]) = 1
        /\ \A g \in 0 .. h - 1 : Len(Levels(leaves)[g + 1]) > 1

\* Nothing is stored for an empty file.
StoredTree(leaves) ==
    LET root == RootLevel(leaves)
        tree[d \in 0 .. root] ==
            LET pages == Pages(Levels(leaves)[root - d])
            IN  IF d = 0 THEN pages ELSE tree[d - 1] \o pages
    IN  IF leaves = <<>> THEN <<>> ELSE tree[root]
=============================================================================
