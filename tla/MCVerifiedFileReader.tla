------------------------ MODULE MCVerifiedFileReader ------------------------
(* Files of up to nine chunks of two bytes, in trees of one to four levels. *)
EXTENDS VerifiedFileReader

MCByte == 0 .. 6

\* Long holds zeros where a short reply may end.  Edited is a version of the same
\* size that shares chunks with it.
Long == <<1, 0, 2, 3, 0, 0, 4, 5, 6, 0, 2, 3, 4, 5, 0, 0, 2>>
Edited == [Long EXCEPT ![3] = 5, ![6] = 1]

\* Sizes on either side of those at which the tree gets another level, the empty
\* file, and a second version of two of them.
Lengths == {0, 1, 4, 5, 8, 9, 16, 17}
MCVersions ==
    {SubSeq(Long, 1, n) : n \in Lengths} \cup {SubSeq(Edited, 1, n) : n \in {9, 17}}

MCRequests == ((0 .. 17) \X {1, 5}) \cup {<<0, 17>>}
=============================================================================
