------------------------ MODULE MCVerifiedFileEditor ------------------------
(* Small instances of VerifiedFileEditor: chunks of two bytes. *)
EXTENDS VerifiedFileEditor, TLC

MCChunks == 0 .. 1
MCSizes == 0 .. 4
MCOffsets == 0 .. 3
MCByte == {0, 1}
MCBuffers == {<<1>>, <<1, 1>>, <<1, 0, 1>>}

MCFaults == {"read", "write", "resize"}
MCWriteFaults == {"write"}

Symmetry == Permutations(Threads)
=============================================================================
