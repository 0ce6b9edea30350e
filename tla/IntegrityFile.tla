---------------------------- MODULE IntegrityFile ----------------------------
(***************************************************************************)
(* What a VerifiedFileEditor promises: a file whose bytes are those of the *)
(* calls of its clients and of nothing else.  A write takes effect in      *)
(* order, one piece inside one chunk at a time, and between two pieces     *)
(* other clients' calls may; its first piece already gives the file the    *)
(* size that the whole write needs.  A write returns once all of its bytes *)
(* are in the file.                                                        *)
(***************************************************************************)
EXTENDS MerkleLeaves

CONSTANTS Threads, Chunks, Buffers, Offsets, Sizes

VARIABLES
    content,   \* the bytes of the file by chunk, zero past its end
    size,
    writing,   \* the threads inside a write
    call       \* their calls, and how much of each the file has

NoCall == [buf |-> <<>>, offset |-> 0, done |-> 0]

Init ==
    /\ content = [i \in Chunks |-> ZeroChunk]
    /\ size = 0
    /\ writing = {}
    /\ call = [t \in Threads |-> NoCall]

Write(t, buf, offset) ==
    /\ t \notin writing
    /\ \A o \in offset .. offset + Len(buf) - 1 : o \div CHUNK_SIZE \in Chunks
    /\ writing' = writing \cup {t}
    /\ call' = [call EXCEPT ![t] = [buf |-> buf, offset |-> offset, done |-> 0]]
    /\ UNCHANGED <<content, size>>

\* Where the rest of the call c starts, and how much of it lies in that chunk.
From(c) == c.offset + c.done
PieceLen(c) == Smaller(Len(c.buf) - c.done, CHUNK_SIZE - (From(c) % CHUNK_SIZE))

\* The next piece of t's buffer goes to its place in the file.
Apply(t) ==
    LET c == call[t]
    IN  /\ t \in writing
        /\ c.done < Len(c.buf)
        /\ content' = [i \in Chunks |-> [p \in Pos |->
              IF From(c) <= i * CHUNK_SIZE + p /\ i * CHUNK_SIZE + p < From(c) + PieceLen(c)
              THEN c.buf[i * CHUNK_SIZE + p - c.offset + 1]
              ELSE content[i][p]]]
        /\ size' = Larger(size, c.offset + Len(c.buf))
        /\ call' = [call EXCEPT ![t].done = @ + PieceLen(c)]
        /\ UNCHANGED writing

WriteReturns(t) ==
    /\ t \in writing
    /\ call[t].done = Len(call[t].buf)
    /\ writing' = writing \ {t}
    /\ call' = [call EXCEPT ![t] = NoCall]
    /\ UNCHANGED <<content, size>>

\* Bytes up to the new size stay, the others are zero.
SetSize(t, n) ==
    /\ t \notin writing
    /\ content' = [i \in Chunks |-> [p \in Pos |->
                      IF i * CHUNK_SIZE + p < n THEN content[i][p] ELSE 0]]
    /\ size' = n
    /\ UNCHANGED <<writing, call>>

Next ==
    \E t \in Threads :
        \/ \E buf \in Buffers, offset \in Offsets : Write(t, buf, offset)
        \/ Apply(t)
        \/ WriteReturns(t)
        \/ \E n \in Sizes : SetSize(t, n)

Spec == Init /\ [][Next]_<<content, size, writing, call>>
=============================================================================
