------------------------------ MODULE MCAuthFs ------------------------------
(* A small instance of AuthFs: chunks of two bytes. *)
EXTENDS AuthFs, TLC

MCChunks == 0 .. 1
MCSizes == 0 .. 4
MCOffsets == 0 .. 3
MCByte == {0, 1}
MCBuffers == {<<1>>, <<1, 0, 1>>}

Symmetry == Permutations(Threads)
=============================================================================
