---------------------------- MODULE MerkleLeaves ----------------------------
(***************************************************************************)
(* The in-memory leaves of a Merkle tree: struct MerkleLeaves of           *)
(* authfs/src/fsverity/builder.rs, as operators on its vector of leaf      *)
(* hashes.  The file size that the struct also keeps is passed alongside.  *)
(*                                                                         *)
(* A chunk is CHUNK_SIZE bytes, indexed from 0.  SHA-256 is taken to be    *)
(* free of collisions: a digest is the hashed chunk inside a record.  The  *)
(* vector of leaves is a sequence, so leaf i of the code is leaves[i + 1]. *)
(***************************************************************************)
EXTENDS Integers, Sequences

CONSTANTS CHUNK_SIZE,   \* bytes per chunk
          Byte          \* the values of a byte, 0 among them

ASSUME ChunkSizeAssumption == CHUNK_SIZE \in Nat \ {0}
ASSUME ByteAssumption == 0 \in Byte

Pos == 0 .. CHUNK_SIZE - 1
Chunk == [Pos -> Byte]
ZeroChunk == [p \in Pos |-> 0]

Sha256(chunk) == [sha256 |-> chunk]
Hash == [sha256 : Chunk]
HASH_OF_4096_ZEROS == Sha256(ZeroChunk)

Larger(m, n) == IF m < n THEN n ELSE m
Smaller(m, n) == IF m < n THEN m ELSE n

divide_roundup(dividend, divisor) == (dividend + divisor - 1) \div divisor

-----------------------------------------------------------------------------
\* Mutant: fills with zero bytes, which are the hash of no chunk.
resize_leaves_zeros(leaves, n) ==
    [i \in 1 .. n |-> IF i <= Len(leaves) THEN leaves[i] ELSE [zeros |-> CHUNK_SIZE]]

\* Vec::resize with the hash of a zero chunk as the fill.
resize_leaves(leaves, n) ==
    [i \in 1 .. n |-> IF i <= Len(leaves) THEN leaves[i] ELSE HASH_OF_4096_ZEROS]

is_index_valid(leaves, index) == index < Len(leaves)

is_consistent(leaves, index, hash) ==
    /\ index < Len(leaves)
    /\ leaves[index + 1] = hash

\* The leaves after update_hash: grown to reach index when they are too few.
update_hash(leaves, index, hash) ==
    [resize_leaves(leaves, Larger(Len(leaves), index + 1)) EXCEPT ![index + 1] = hash]

\* The file size after update_hash.
update_size(file_size, size_at_least) == Larger(file_size, size_at_least)

\* Mutant: keeps the leaves past the new size.
resize_growing(leaves, size) ==
    resize_leaves(leaves, Larger(Len(leaves), divide_roundup(size, CHUNK_SIZE)))

\* The leaves after MerkleLeaves::resize to a file of size bytes.
resize(leaves, size) == resize_leaves(leaves, divide_roundup(size, CHUNK_SIZE))
=============================================================================
