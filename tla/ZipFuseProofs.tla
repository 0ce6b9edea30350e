--------------------------- MODULE ZipFuseProofs ----------------------------
(***************************************************************************)
(* What zipfuse promises, for every archive, any number of handles and any *)
(* order of requests: the tree that from_zip builds names the entries of   *)
(* the archive, buffers outlive the handles that they serve, and reading   *)
(* in pieces gives the whole.                                              *)
(***************************************************************************)
EXTENDS ZipFuse, TLAPS

IsOpen(h) == handle[h] # Closed

Handle(h) == [inode : {handle[h].inode}, got : {handle[h].got}, eof : {handle[h].eof}]

HandleType == handle = [h \in Handles |-> handle[h]] /\ \A h \in Handles : handle[h] \in Handle(h)

CountType == \A n \in DOMAIN open_bufs : open_bufs[n] \in Nat \ {0}

\* The count may be larger than the number of handles, as release leaves it,
\* but only one handle shares a buffer that the next release removes.
LastCountIsLast ==
    \A g, h \in Handles :
        IsOpen(g) /\ IsOpen(h) /\ handle[g].inode = handle[h].inode
                  /\ open_bufs[handle[h].inode] = 1 => g = h

IInv == HandleType /\ CountType /\ OpenHandlesServed /\ LastCountIsLast

-----------------------------------------------------------------------------
\* No handle is open at first.
LEMMA InitInv == Init => IInv
<1> SUFFICES ASSUME Init PROVE IInv
  OBVIOUS
<1>1. handle = [h \in Handles |-> Closed] /\ open_bufs = <<>>
  BY DEF Init
<1>2. \A h \in Handles : handle[h] = Closed
  BY <1>1
<1>3. HandleType
  BY <1>1, <1>2, Zenon DEF HandleType, Handle, Closed
<1>4. CountType
  BY <1>1 DEF CountType
<1>5. QED
  BY <1>2, <1>3, <1>4 DEF IInv, OpenHandlesServed, LastCountIsLast, IsOpen

\* Reading leaves the handle open on its inode.
LEMMA ReadingInv ==
    ASSUME IInv, NEW h \in Handles, IsOpen(h), NEW got, NEW eof,
           handle' = [handle EXCEPT ![h] = [inode |-> handle[h].inode, got |-> got, eof |-> eof]],
           open_bufs' = open_bufs
    PROVE  IInv'
<1>1. /\ handle'[h] = [inode |-> handle[h].inode, got |-> got, eof |-> eof]
      /\ \A g \in Handles \ {h} : handle'[g] = handle[g]
      /\ handle' = [g \in Handles |-> handle'[g]]
  BY DEF IInv, HandleType
<1>2. \A g \in Handles : handle'[g].inode = handle[g].inode /\ (IsOpen(g)' => IsOpen(g))
  BY <1>1 DEF IsOpen
<1>3. HandleType'
  BY <1>1 DEF IInv, HandleType, Handle
<1>4. CountType'
  BY DEF IInv, CountType
<1>5. OpenHandlesServed' /\ LastCountIsLast'
  BY <1>2 DEF IInv, OpenHandlesServed, LastCountIsLast, IsOpen
<1>6. QED
  BY <1>3, <1>4, <1>5 DEF IInv

\* An open counts its handle.
LEMMA OpenInv ==
    ASSUME IInv, NEW h \in Handles, NEW inode, Open(h, inode)
    PROVE  IInv'
<1> DEFINE c == [Closed EXCEPT !.inode = inode]
<1>1. handle' = [handle EXCEPT ![h] = c] /\ handle[h] = Closed
  BY DEF Open
<1>2. c.inode = inode /\ c \in [inode : {c.inode}, got : {c.got}, eof : {c.eof}]
  BY Zenon DEF Closed
<1> HIDE DEF c
<1>3. /\ handle'[h] = c
      /\ \A g \in Handles \ {h} : handle'[g] = handle[g]
      /\ handle' = [g \in Handles |-> handle'[g]]
  BY <1>1 DEF IInv, HandleType
<1>4. HandleType'
  BY <1>2, <1>3 DEF IInv, HandleType, Handle
<1>5. \A g \in Handles \ {h} : IsOpen(g)' <=> IsOpen(g)
  BY <1>3 DEF IsOpen
<1>6. CASE inode \in DOMAIN open_bufs
  <2>1. /\ DOMAIN open_bufs' = DOMAIN open_bufs
        /\ open_bufs[inode] \in Nat \ {0}
        /\ open_bufs'[inode] = open_bufs[inode] + 1
        /\ \A n \in DOMAIN open_bufs \ {inode} : open_bufs'[n] = open_bufs[n]
    BY <1>6 DEF Open, IInv, CountType
  <2>2. CountType'
    BY <2>1 DEF IInv, CountType
  <2>3. OpenHandlesServed'
    BY <1>2, <1>3, <1>5, <1>6, <2>1 DEF IInv, OpenHandlesServed, IsOpen
  <2>4. open_bufs'[inode] # 1
    BY <2>1
  <2>5. LastCountIsLast'
    BY <1>2, <1>3, <1>5, <2>1, <2>4 DEF IInv, OpenHandlesServed, LastCountIsLast, IsOpen
  <2>6. QED
    BY <1>4, <2>2, <2>3, <2>5 DEF IInv
<1>7. CASE inode \notin DOMAIN open_bufs
  <2>1. /\ DOMAIN open_bufs' = DOMAIN open_bufs \cup {inode}
        /\ open_bufs'[inode] = 1
        /\ \A n \in DOMAIN open_bufs : open_bufs'[n] = open_bufs[n]
    BY <1>7 DEF Open
  <2>2. CountType'
    BY <2>1 DEF IInv, CountType
  <2>3. OpenHandlesServed'
    BY <1>2, <1>3, <1>5, <2>1 DEF IInv, OpenHandlesServed, IsOpen
  <2>4. \A g \in Handles \ {h} : IsOpen(g) => handle[g].inode # inode
    BY <1>7 DEF IInv, OpenHandlesServed, IsOpen
  <2>5. LastCountIsLast'
    BY <1>2, <1>3, <1>5, <2>1, <2>4 DEF IInv, OpenHandlesServed, LastCountIsLast, IsOpen
  <2>6. QED
    BY <1>4, <2>2, <2>3, <2>5 DEF IInv
<1>8. QED
  BY <1>6, <1>7

\* A buffer whose count is one goes with its only handle.
LEMMA ReleaseInv ==
    ASSUME IInv, NEW h \in Handles, Release(h)
    PROVE  IInv'
<1> DEFINE inode == handle[h].inode
<1>1. /\ handle'[h] = Closed
      /\ \A g \in Handles \ {h} : handle'[g] = handle[g]
      /\ handle' = [g \in Handles |-> handle'[g]]
  BY DEF IInv, HandleType, Release
<1>2. HandleType'
  BY <1>1 DEF IInv, HandleType, Handle, Closed
<1>3. /\ \A g \in Handles : IsOpen(g)' => g # h /\ IsOpen(g)
      /\ IsOpen(h) /\ inode \in DOMAIN open_bufs /\ open_bufs[inode] \in Nat \ {0}
  BY <1>1 DEF IInv, CountType, IsOpen, Release
<1>4. CASE open_bufs[inode] = 1
  <2>1. /\ DOMAIN open_bufs' = DOMAIN open_bufs \ {inode}
        /\ \A n \in DOMAIN open_bufs \ {inode} : open_bufs'[n] = open_bufs[n]
    BY <1>4 DEF Release, release, Without
  <2>2. \A g \in Handles : IsOpen(g)' => handle[g].inode # inode
    BY <1>3, <1>4 DEF IInv, LastCountIsLast
  <2>3. CountType'
    BY <2>1 DEF IInv, CountType
  <2>4. OpenHandlesServed'
    BY <1>1, <1>3, <2>1, <2>2 DEF IInv, OpenHandlesServed, IsOpen
  <2>5. LastCountIsLast'
    BY <1>1, <1>3, <2>1, <2>2 DEF IInv, OpenHandlesServed, LastCountIsLast, IsOpen
  <2>6. QED
    BY <1>2, <2>3, <2>4, <2>5 DEF IInv
<1>5. CASE open_bufs[inode] # 1
  <2>1. open_bufs' = open_bufs
    BY <1>3, <1>5 DEF Release, release
  <2>2. QED
    BY <1>1, <1>2, <1>3, <2>1 DEF IInv, CountType, OpenHandlesServed, LastCountIsLast, IsOpen
<1>6. QED
  BY <1>4, <1>5

-----------------------------------------------------------------------------
\* The handles after a reply to h.
Replied(h, got, eof) ==
    [handle EXCEPT ![h] = [inode |-> handle[h].inode, got |-> got, eof |-> eof]]

\* The assignments of read and readdir, as replies.
LEMMA HandleForms ==
    ASSUME HandleType, NEW h \in Handles, NEW got, NEW eof
    PROVE  /\ [handle EXCEPT ![h].got = got] = Replied(h, got, handle[h].eof)
           /\ [handle EXCEPT ![h].eof = eof] = Replied(h, handle[h].got, eof)
           /\ [handle EXCEPT ![h].got = got, ![h].eof = eof] = Replied(h, got, eof)
<1> DEFINE R(g, e) == [inode |-> handle[h].inode, got |-> g, eof |-> e]
           H(g, e) == [handle EXCEPT ![h] = R(g, e)]
<1>1. handle[h] = R(handle[h].got, handle[h].eof)
  BY DEF HandleType, Handle
<1>2. [handle EXCEPT ![h].got = got] = H(got, handle[h].eof)
  <2>1. [handle[h] EXCEPT !.got = got] = R(got, handle[h].eof)
    BY <1>1
  <2>2. QED
    BY <2>1, Zenon
<1>3. [handle EXCEPT ![h].eof = eof] = H(handle[h].got, eof)
  <2>1. [handle[h] EXCEPT !.eof = eof] = R(handle[h].got, eof)
    BY <1>1
  <2>2. QED
    BY <2>1, Zenon
<1>4. [handle EXCEPT ![h].got = got, ![h].eof = eof] = H(got, eof)
  <2>1. H(got, handle[h].eof)[h] = R(got, handle[h].eof)
    BY DEF HandleType
  <2>2. [R(got, handle[h].eof) EXCEPT !.eof = eof] = R(got, eof)
    OBVIOUS
  <2>3. [H(got, handle[h].eof) EXCEPT ![h].eof = eof] =
        [H(got, handle[h].eof) EXCEPT ![h] = R(got, eof)]
    BY <2>1, <2>2, Zenon
  <2>4. [H(got, handle[h].eof) EXCEPT ![h] = R(got, eof)] = H(got, eof)
    <3> HIDE DEF R
    <3> QED
      BY Zenon DEF HandleType
  <2>5. QED
    BY <1>2, <2>3, <2>4, Zenon
<1>5. QED
  BY <1>2, <1>3, <1>4, Zenon DEF Replied

\* What read does to the handle.
LEMMA ReadReply ==
    ASSUME HandleType, NEW h \in Handles, NEW got, NEW eof,
           handle' = [handle EXCEPT ![h].got = got, ![h].eof = eof]
    PROVE  handle' = Replied(h, got, eof)
<1>1. [handle EXCEPT ![h].got = got, ![h].eof = eof] = Replied(h, got, eof)
  BY HandleForms, Zenon
<1>2. QED
  BY <1>1, Zenon

\* Replies to reads of a directory or a file only change what a handle has read.
LEMMA Reading ==
    ASSUME IInv, NEW h \in Handles, NEW asked, Read(h, asked) \/ ReadDir(h, asked)
    PROVE  /\ IsOpen(h) /\ open_bufs' = open_bufs /\ mounted' = mounted /\ archive' = archive
           /\ \E got, eof : handle' = Replied(h, got, eof)
<1>1. IsOpen(h) /\ open_bufs' = open_bufs /\ mounted' = mounted /\ archive' = archive
  BY Zenon DEF Read, ReadDir, IsOpen
<1>2. \/ \E got, eof : handle' = [handle EXCEPT ![h].got = got, ![h].eof = eof]
      \/ \E got : handle' = [handle EXCEPT ![h].got = got]
      \/ \E eof : handle' = [handle EXCEPT ![h].eof = eof]
  BY Zenon DEF Read, ReadDir
<1>3. HandleType
  BY DEF IInv
<1>4. CASE \E got, eof : handle' = [handle EXCEPT ![h].got = got, ![h].eof = eof]
  <2>1. PICK got, eof : handle' = [handle EXCEPT ![h].got = got, ![h].eof = eof]
    BY <1>4, Zenon
  <2>2. [handle EXCEPT ![h].got = got, ![h].eof = eof] = Replied(h, got, eof)
    BY <1>3, HandleForms, Zenon
  <2>3. QED
    BY <1>1, <2>1, <2>2, Zenon
<1>5. CASE \E got : handle' = [handle EXCEPT ![h].got = got]
  <2>1. PICK got : handle' = [handle EXCEPT ![h].got = got]
    BY <1>5, Zenon
  <2>2. [handle EXCEPT ![h].got = got] = Replied(h, got, handle[h].eof)
    BY <1>3, HandleForms, Zenon
  <2>3. QED
    BY <1>1, <2>1, <2>2, Zenon
<1>6. CASE \E eof : handle' = [handle EXCEPT ![h].eof = eof]
  <2>1. PICK eof : handle' = [handle EXCEPT ![h].eof = eof]
    BY <1>6, Zenon
  <2>2. [handle EXCEPT ![h].eof = eof] = Replied(h, handle[h].got, eof)
    BY <1>3, HandleForms, Zenon
  <2>3. QED
    BY <1>1, <2>1, <2>2, Zenon
<1>7. QED
  BY <1>2, <1>4, <1>5, <1>6, Zenon

\* Every step keeps the counts right.
LEMMA NextInv == IInv /\ [Next]_vars => IInv'
<1> SUFFICES ASSUME IInv, [Next]_vars PROVE IInv'
  OBVIOUS
<1>1. CASE UNCHANGED <<open_bufs, handle>>
  BY <1>1 DEF IInv, HandleType, Handle, CountType, OpenHandlesServed, LastCountIsLast, IsOpen
<1>2. ASSUME NEW h \in Handles, NEW asked, Read(h, asked) \/ ReadDir(h, asked)
      PROVE  IInv'
  BY <1>2, Reading, ReadingInv DEF Replied
<1>3. CASE Next
  BY <1>1, <1>2, <1>3, OpenInv, ReleaseInv DEF Next, New
<1>4. QED
  BY <1>1, <1>3 DEF vars

\* A buffer stays until the last handle to its inode is released, whatever the
\* archive, the number of handles and the order of opens and releases: open_count
\* may be too high, as release and releasedir (zipfuse/src/main.rs) do not store
\* it, but a buffer whose count is 1 has no second handle.
THEOREM HandlesAlwaysServed == Spec => []OpenHandlesServed
<1>1. IInv => OpenHandlesServed
  BY DEF IInv
<1>2. QED
  BY <1>1, InitInv, NextInv, PTL DEF Spec

(***************************************************************************)
(* What the proofs below use of numbers and of finite sets.  The lemmas    *)
(* assume it, and the end of the module proves it from the library: the    *)
(* provers are fast as long as the library is not in sight.                *)
(***************************************************************************)
SetFacts ==
    /\ \A S : 0 \in S /\ (\A n \in Nat : n \in S => n + 1 \in S) => Nat \subseteq S
    /\ \A S : IsFiniteSet(S) =>
          /\ Cardinality(S) \in Nat
          /\ \E s \in [1 .. Cardinality(S) -> S] :
                \A x \in S : \E k \in 1 .. Cardinality(S) : s[k] = x

\* A set that contains 0 and every successor contains the natural numbers.
LEMMA Induction ==
    ASSUME SetFacts, NEW S, 0 \in S, \A n \in Nat : n \in S => n + 1 \in S
    PROVE  \A n \in Nat : n \in S
<1>1. Nat \subseteq S
  BY Zenon DEF SetFacts
<1>2. QED
  BY <1>1

\* The elements of a finite set can be numbered from 1.
LEMMA FiniteListing ==
    ASSUME SetFacts, NEW S, IsFiniteSet(S)
    PROVE  /\ Cardinality(S) \in Nat
           /\ \E s \in [1 .. Cardinality(S) -> S] :
                 \A x \in S : \E k \in 1 .. Cardinality(S) : s[k] = x
  BY Zenon DEF SetFacts

(***************************************************************************)
(* Paths.                                                                  *)
(***************************************************************************)

\* The beginning of a path with one component more.
LEMMA PrefixForm ==
    ASSUME NEW p \in Seq(STRING), NEW k \in 1 .. Len(p)
    PROVE  /\ SubSeq(p, 1, k - 1) \in Seq(STRING) /\ SubSeq(p, 1, k) \in Seq(STRING)
           /\ p[k] \in STRING /\ Len(SubSeq(p, 1, k)) = k
           /\ SubSeq(p, 1, k) = Append(SubSeq(p, 1, k - 1), p[k])
<1>1. Len(p) \in Nat /\ p[k] \in STRING /\ k \in Nat
  OBVIOUS
<1>2. SubSeq(p, 1, k - 1) \in Seq(STRING) /\ Len(SubSeq(p, 1, k - 1)) = k - 1
  BY <1>1
<1>3. SubSeq(p, 1, k) \in Seq(STRING) /\ Len(SubSeq(p, 1, k)) = k
  BY <1>1
<1>4. SubSeq(p, 1, k) = Append(SubSeq(p, 1, k - 1), p[k])
  BY <1>1, <1>2, <1>3
<1>5. QED
  BY <1>1, <1>2, <1>3, <1>4

\* A path is empty, or one component longer than another path.
LEMMA PathForm ==
    ASSUME NEW p \in Seq(STRING), p # <<>>
    PROVE  \E q \in Seq(STRING), x \in STRING : p = Append(q, x) /\ Len(p) = Len(q) + 1
<1> DEFINE n == Len(p)
           q == SubSeq(p, 1, n - 1)
<1>1. n \in Nat /\ n # 0 /\ SubSeq(p, 1, n) = p
  OBVIOUS
<1>2. n \in 1 .. n
  BY <1>1
<1>3. q \in Seq(STRING) /\ p[n] \in STRING /\ p = Append(q, p[n])
  BY <1>1, <1>2, PrefixForm
<1> HIDE DEF q
<1>4. Len(p) = Len(q) + 1
  BY <1>3
<1>5. QED
  BY <1>3, <1>4, Zenon

(***************************************************************************)
(* The loops of from_zip and the walk down a path, by their equations.     *)
(***************************************************************************)

\* Where a walk is after each component.
Trail(t, at, p) == at[0] = ROOT /\ \A k \in 1 .. Len(p) : at[k] = Entry(t, at[k - 1], p[k])

\* A walk has a trail, and ends where that ends.
LEMMA WalkTrail ==
    ASSUME SetFacts, NEW t, NEW p \in Seq(STRING)
    PROVE  \E at : Trail(t, at, p) /\ Walk(t, p) = at[Len(p)]
<1> DEFINE L == Len(p)
           F(g, n) == g = [k \in 0 .. n |-> IF k = 0 THEN ROOT ELSE Entry(t, g[k - 1], p[k])]
           S == {n \in Nat : n <= L => \E g : F(g, n)}
<1>1. L \in Nat
  OBVIOUS
<1>2. 0 \in S
  <2> DEFINE g == [k \in 0 .. 0 |-> ROOT]
  <2>1. F(g, 0)
    OBVIOUS
  <2>2. QED
    BY <2>1, Zenon
<1>3. ASSUME NEW n \in Nat, n \in S PROVE n + 1 \in S
  <2>1. SUFFICES ASSUME n + 1 <= L PROVE \E g : F(g, n + 1)
    OBVIOUS
  <2>2. PICK g : F(g, n)
    BY <1>1, <1>3, <2>1
  <2> DEFINE h == [k \in 0 .. n + 1 |-> IF k = n + 1 THEN Entry(t, g[n], p[n + 1]) ELSE g[k]]
  <2>3. \A k \in 0 .. n : h[k] = g[k] /\ g[k] = IF k = 0 THEN ROOT ELSE Entry(t, g[k - 1], p[k])
    BY <2>2
  <2>4. h[n + 1] = Entry(t, h[n], p[n + 1])
    BY <2>3
  <2>5. \A k \in 0 .. n + 1 : h[k] = IF k = 0 THEN ROOT ELSE Entry(t, h[k - 1], p[k])
    <3> SUFFICES ASSUME NEW k \in 0 .. n + 1
                 PROVE  h[k] = IF k = 0 THEN ROOT ELSE Entry(t, h[k - 1], p[k])
      OBVIOUS
    <3> HIDE DEF h
    <3>1. CASE k = n + 1
      BY <2>4, <3>1
    <3>2. CASE k # n + 1
      <4>1. k \in 0 .. n /\ (k # 0 => k - 1 \in 0 .. n)
        BY <3>2
      <4>2. QED
        BY <2>3, <4>1
    <3>3. QED
      BY <3>1, <3>2
  <2>6. h = [k \in 0 .. n + 1 |-> h[k]]
    OBVIOUS
  <2> HIDE DEF h
  <2>7. F(h, n + 1)
    BY <2>5, <2>6, Zenon
  <2>8. QED
    BY <2>7
<1>4. \A n \in Nat : n \in S
  <2> HIDE DEF S
  <2> QED
    BY <1>2, <1>3, Induction
<1>5. \E g : F(g, L)
  BY <1>1, <1>4
<1> DEFINE at == CHOOSE g : F(g, L)
<1>6. F(at, L)
  BY <1>5, Zenon
<1>7. Walk(t, p) = at[L]
  BY Zenon DEF Walk
<1> HIDE DEF at
<1>8. Trail(t, at, p)
  <2>1. \A k \in 0 .. L : at[k] = IF k = 0 THEN ROOT ELSE Entry(t, at[k - 1], p[k])
    BY <1>6
  <2>2. 0 \in 0 .. L /\ \A k \in 1 .. L : k \in 0 .. L /\ k # 0
    BY <1>1
  <2>3. QED
    BY <2>1, <2>2, Zenon DEF Trail
<1>9. QED
  BY <1>7, <1>8

\* Walks along paths that begin alike begin alike.
LEMMA TrailsAgree ==
    ASSUME SetFacts, NEW t, NEW p \in Seq(STRING), NEW q \in Seq(STRING), NEW f, NEW g,
           Trail(t, f, p), Trail(t, g, q), Len(p) <= Len(q),
           \A k \in 1 .. Len(p) : p[k] = q[k]
    PROVE  f[Len(p)] = g[Len(p)]
<1> DEFINE S == {n \in Nat : n <= Len(p) => f[n] = g[n]}
<1>1. Len(p) \in Nat /\ Len(q) \in Nat
  OBVIOUS
<1>2. 0 \in S
  BY DEF Trail
<1>3. ASSUME NEW n \in Nat, n \in S PROVE n + 1 \in S
  <2>1. SUFFICES ASSUME n + 1 <= Len(p) PROVE f[n + 1] = g[n + 1]
    OBVIOUS
  <2>2. /\ n + 1 \in 1 .. Len(p) /\ n + 1 \in 1 .. Len(q) /\ (n + 1) - 1 = n
        /\ f[n] = g[n]
    BY <1>1, <1>3, <2>1
  <2>3. QED
    BY <2>2 DEF Trail
<1>4. \A n \in Nat : n \in S
  <2> HIDE DEF S
  <2> QED
    BY <1>2, <1>3, Induction
<1>5. QED
  BY <1>1, <1>4

\* The walk down a path takes one entry for each component.
LEMMA WalkStep ==
    ASSUME SetFacts, NEW t
    PROVE  /\ Walk(t, <<>>) = ROOT
           /\ \A p \in Seq(STRING), x \in STRING :
                 Walk(t, Append(p, x)) = Entry(t, Walk(t, p), x)
<1>1. Walk(t, <<>>) = ROOT
  <2>1. <<>> \in Seq(STRING) /\ Len(<<>>) = 0
    OBVIOUS
  <2>2. PICK at : Trail(t, at, <<>>) /\ Walk(t, <<>>) = at[0]
    BY <2>1, WalkTrail, Zenon
  <2>3. QED
    BY <2>2 DEF Trail
<1>2. ASSUME NEW p \in Seq(STRING), NEW x \in STRING
      PROVE  Walk(t, Append(p, x)) = Entry(t, Walk(t, p), x)
  <2> DEFINE q == Append(p, x)
             n == Len(p)
  <2>1. /\ q \in Seq(STRING) /\ n \in Nat /\ Len(q) = n + 1 /\ q[n + 1] = x
        /\ \A k \in 1 .. n : p[k] = q[k]
    OBVIOUS
  <2> HIDE DEF q
  <2>2. PICK f : Trail(t, f, p) /\ Walk(t, p) = f[n]
    BY WalkTrail
  <2>3. PICK g : Trail(t, g, q) /\ Walk(t, q) = g[n + 1]
    BY <2>1, WalkTrail
  <2>4. f[n] = g[n]
    BY <2>1, <2>2, <2>3, TrailsAgree
  <2>5. g[n + 1] = Entry(t, g[n], x)
    <3>1. n + 1 \in 1 .. Len(q) /\ (n + 1) - 1 = n
      BY <2>1
    <3>2. QED
      BY <2>1, <2>3, <3>1, Zenon DEF Trail
  <2>6. QED
    BY <2>2, <2>3, <2>4, <2>5 DEF q
<1>3. QED
  BY <1>1, <1>2, Zenon

-----------------------------------------------------------------------------
\* The accumulator of from_zip after each component of one entry.
Components(f, acc, i, file) ==
    /\ f[0] = [acc EXCEPT !.parent = ROOT]
    /\ \A k \in 1 .. Len(file.path) : f[k] = AddComponent(f[k - 1], i, file, k)

\* The loop over the components of an entry satisfies its equations.
LEMMA AddEntryLoop ==
    ASSUME SetFacts, NEW acc, NEW i, NEW file, Len(file.path) \in Nat
    PROVE  \E f : Components(f, acc, i, file) /\ AddEntry(acc, i, file) = f[Len(file.path)]
<1> DEFINE L == Len(file.path)
           a == [acc EXCEPT !.parent = ROOT]
           F(g, n) == g = [k \in 0 .. n |-> IF k = 0 THEN a ELSE AddComponent(g[k - 1], i, file, k)]
           S == {n \in Nat : n <= L => \E g : F(g, n)}
<1> HIDE DEF a
<1>1. 0 \in S
  <2> DEFINE g == [k \in 0 .. 0 |-> a]
  <2>1. F(g, 0)
    OBVIOUS
  <2>2. QED
    BY <2>1, Zenon
<1>2. ASSUME NEW n \in Nat, n \in S PROVE n + 1 \in S
  <2>1. SUFFICES ASSUME n + 1 <= L PROVE \E g : F(g, n + 1)
    OBVIOUS
  <2>2. PICK g : F(g, n)
    BY <1>2, <2>1
  <2> DEFINE h == [k \in 0 .. n + 1 |->
                      IF k = n + 1 THEN AddComponent(g[n], i, file, n + 1) ELSE g[k]]
  <2>3. \A k \in 0 .. n : h[k] = g[k] /\ g[k] = IF k = 0 THEN a ELSE AddComponent(g[k - 1], i, file, k)
    BY <2>2
  <2>4. h[n + 1] = AddComponent(h[n], i, file, n + 1) /\ h = [k \in 0 .. n + 1 |-> h[k]]
    BY <2>3
  <2> HIDE DEF h
  <2>5. ASSUME NEW k \in 0 .. n + 1
        PROVE  h[k] = IF k = 0 THEN a ELSE AddComponent(h[k - 1], i, file, k)
    <3>1. CASE k = n + 1
      BY <2>4, <3>1
    <3>2. CASE k # n + 1
      <4>1. k \in 0 .. n /\ (k # 0 => k - 1 \in 0 .. n)
        BY <3>2
      <4>2. QED
        BY <2>3, <4>1
    <3>3. QED
      BY <3>1, <3>2
  <2>6. F(h, n + 1)
    BY <2>4, <2>5
  <2>7. QED
    BY <2>6
<1>3. \A n \in Nat : n \in S
  <2> HIDE DEF S
  <2> QED
    BY <1>1, <1>2, Induction
<1>4. \E g : F(g, L)
  BY <1>3
<1> DEFINE f == CHOOSE g : F(g, L)
<1>5. F(f, L)
  BY <1>4, Zenon
<1>6. AddEntry(acc, i, file) = f[L]
  BY Zenon DEF AddEntry, a
<1> HIDE DEF f
<1>7. \A k \in 0 .. L : f[k] = IF k = 0 THEN a ELSE AddComponent(f[k - 1], i, file, k)
  BY <1>5
<1>8. 0 \in 0 .. L /\ \A k \in 1 .. L : k \in 0 .. L /\ k # 0
  OBVIOUS
<1>9. Components(f, acc, i, file)
  BY <1>7, <1>8, Zenon DEF Components, a
<1>10. QED
  BY <1>6, <1>9

\* The accumulator of from_zip after each entry of the archive.
Entries(f, a) ==
    /\ f[0] = [table |-> <<new_dir(0)>>, parent |-> ROOT, status |-> "ok"]
    /\ \A i \in 1 .. Len(a) : f[i] = AddEntry(f[i - 1], i, a[i])

\* The loop over the entries satisfies its equations.
LEMMA FromZipLoop ==
    ASSUME SetFacts, NEW a, Len(a) \in Nat
    PROVE  \E f : Entries(f, a) /\ from_zip(a) = f[Len(a)]
<1> DEFINE L == Len(a)
           b == [table |-> <<new_dir(0)>>, parent |-> ROOT, status |-> "ok"]
           F(g, n) == g = [i \in 0 .. n |-> IF i = 0 THEN b ELSE AddEntry(g[i - 1], i, a[i])]
           S == {n \in Nat : n <= L => \E g : F(g, n)}
<1> HIDE DEF b
<1>1. 0 \in S
  <2> DEFINE g == [i \in 0 .. 0 |-> b]
  <2>1. F(g, 0)
    OBVIOUS
  <2>2. QED
    BY <2>1, Zenon
<1>2. ASSUME NEW n \in Nat, n \in S PROVE n + 1 \in S
  <2>1. SUFFICES ASSUME n + 1 <= L PROVE \E g : F(g, n + 1)
    OBVIOUS
  <2>2. PICK g : F(g, n)
    BY <1>2, <2>1
  <2> DEFINE h == [i \in 0 .. n + 1 |-> IF i = n + 1 THEN AddEntry(g[n], n + 1, a[n + 1]) ELSE g[i]]
  <2>3. \A i \in 0 .. n : h[i] = g[i] /\ g[i] = IF i = 0 THEN b ELSE AddEntry(g[i - 1], i, a[i])
    BY <2>2
  <2>4. h[n + 1] = AddEntry(h[n], n + 1, a[n + 1]) /\ h = [i \in 0 .. n + 1 |-> h[i]]
    BY <2>3
  <2> HIDE DEF h
  <2>5. ASSUME NEW i \in 0 .. n + 1
        PROVE  h[i] = IF i = 0 THEN b ELSE AddEntry(h[i - 1], i, a[i])
    <3>1. CASE i = n + 1
      BY <2>4, <3>1
    <3>2. CASE i # n + 1
      <4>1. i \in 0 .. n /\ (i # 0 => i - 1 \in 0 .. n)
        BY <3>2
      <4>2. QED
        BY <2>3, <4>1
    <3>3. QED
      BY <3>1, <3>2
  <2>6. F(h, n + 1)
    BY <2>4, <2>5
  <2>7. QED
    BY <2>6
<1>3. \A n \in Nat : n \in S
  <2> HIDE DEF S
  <2> QED
    BY <1>1, <1>2, Induction
<1>4. \E g : F(g, L)
  BY <1>3
<1> DEFINE f == CHOOSE g : F(g, L)
<1>5. F(f, L)
  BY <1>4, Zenon
<1>6. from_zip(a) = f[L]
  BY Zenon DEF from_zip, b
<1> HIDE DEF f
<1>7. \A i \in 0 .. L : f[i] = IF i = 0 THEN b ELSE AddEntry(f[i - 1], i, a[i])
  BY <1>5
<1>8. 0 \in 0 .. L /\ \A i \in 1 .. L : i \in 0 .. L /\ i # 0
  OBVIOUS
<1>9. Entries(f, a)
  BY <1>7, <1>8, Zenon DEF Entries, b
<1>10. QED
  BY <1>6, <1>9

(***************************************************************************)
(* Tables of inodes, and what add and UpdateMode do to one.                *)
(***************************************************************************)

IsInode(x) ==
    /\ "kind" \in DOMAIN x /\ "mode" \in DOMAIN x /\ "size" \in DOMAIN x
    /\ x.size \in Nat
    /\ is_dir(x) => /\ "entries" \in DOMAIN x /\ IsFiniteSet(Names(x))
                    /\ \A y \in Names(x) : y \in STRING /\ x.entries[y] # 0
    /\ ~is_dir(x) => "zip_index" \in DOMAIN x

IsTable(t) ==
    /\ Len(t) \in Nat \ {0}
    /\ t = [n \in 1 .. Len(t) |-> t[n]]
    /\ \A n \in 1 .. Len(t) : IsInode(t[n])

\* Inode y is x but for its mode or its entries.
SameFile(x, y) ==
    /\ is_dir(y) <=> is_dir(x)
    /\ y.size = x.size
    /\ ~is_dir(x) => y.zip_index = x.zip_index

\* A table with one more inode.
LEMMA AppendInode ==
    ASSUME NEW n \in Nat, NEW s, s = [k \in 1 .. n |-> s[k]], NEW x
    PROVE  LET u == Append(s, x)
           IN  /\ Len(u) = n + 1 /\ u = [k \in 1 .. n + 1 |-> u[k]]
               /\ \A k \in 1 .. n : u[k] = s[k]
               /\ u[n + 1] = x
<1> DEFINE S == {s[k] : k \in 1 .. n} \cup {x}
           u == Append(s, x)
<1>1. x \in S /\ \A k \in 1 .. n : s[k] \in S
  OBVIOUS
<1> HIDE DEF S
<1>2. s \in Seq(S) /\ Len(s) = n
  BY <1>1
<1>3. u \in Seq(S) /\ Len(u) = n + 1 /\ \A k \in 1 .. n : u[k] = s[k]
  BY <1>1, <1>2
<1>4. u[n + 1] = x
  BY <1>1, <1>2
<1>5. u = [k \in 1 .. n + 1 |-> u[k]]
  BY <1>3
<1>6. QED
  BY <1>3, <1>4, <1>5

\* One more name leaves a directory with finitely many.
LEMMA OneMoreName ==
    ASSUME NEW S, IsFiniteSet(S), NEW x
    PROVE  IsFiniteSet(S \cup {x})
<1>1. PICK s \in Seq(S) : \A y \in S : \E n \in 1 .. Len(s) : s[n] = y
  BY DEF IsFiniteSet
<1> DEFINE T == S \cup {x}
           u == Append(s, x)
<1>2. s \in Seq(T) /\ x \in T /\ Len(s) \in Nat
  BY <1>1
<1> HIDE DEF T
<1>3. u \in Seq(T) /\ Len(u) = Len(s) + 1 /\ u[Len(s) + 1] = x
  BY <1>2
<1>4. \A n \in 1 .. Len(s) : u[n] = s[n]
  BY <1>2
<1> HIDE DEF u
<1>5. ASSUME NEW y \in S \cup {x} PROVE \E n \in 1 .. Len(u) : u[n] = y
  <2>1. CASE y = x
    BY <1>2, <1>3, <2>1
  <2>2. CASE y \in S
    <3>1. PICK n \in 1 .. Len(s) : s[n] = y
      BY <1>1, <2>2
    <3>2. n \in 1 .. Len(u) /\ u[n] = y
      BY <1>2, <1>3, <1>4, <3>1
    <3>3. QED
      BY <3>2
  <2>3. QED
    BY <2>1, <2>2
<1>6. QED
  BY <1>3, <1>5, Zenon DEF IsFiniteSet, T

\* A link adds one name to a directory and leaves the rest of it alone.
LEMMA LinkEffect ==
    ASSUME NEW x, IsInode(x), is_dir(x), NEW name \in STRING, NEW inode, inode # 0
    PROVE  LET y == Link(x, name, inode)
           IN  /\ IsInode(y) /\ SameFile(x, y) /\ y.mode = x.mode
               /\ Names(y) = Names(x) \cup {name}
               /\ \A n \in Names(y) : y.entries[n] = IF n = name THEN inode ELSE x.entries[n]
<1> DEFINE y == Link(x, name, inode)
           e == [n \in Names(x) \cup {name} |-> IF n = name THEN inode ELSE x.entries[n]]
<1>1. y = [x EXCEPT !.entries = e]
  BY DEF Link
<1>2. /\ DOMAIN e = Names(x) \cup {name}
      /\ \A n \in DOMAIN e : e[n] = IF n = name THEN inode ELSE x.entries[n]
  OBVIOUS
<1> HIDE DEF e, y
<1>3. /\ DOMAIN y = DOMAIN x /\ y.kind = x.kind /\ y.mode = x.mode /\ y.size = x.size
      /\ y.entries = e
  BY <1>1 DEF IsInode
<1>4. Names(y) = Names(x) \cup {name} /\ is_dir(y)
  BY <1>2, <1>3 DEF Names, is_dir
<1>5. IsInode(y)
  <2>1. IsFiniteSet(Names(y))
    BY <1>4, OneMoreName DEF IsInode
  <2>2. ASSUME NEW n \in Names(y) PROVE n \in STRING /\ y.entries[n] # 0
    BY <1>2, <1>3, <1>4 DEF IsInode
  <2>3. QED
    BY <1>3, <1>4, <2>1, <2>2 DEF IsInode
<1>6. SameFile(x, y)
  BY <1>3, <1>4 DEF SameFile
<1>7. QED
  BY <1>2, <1>3, <1>4, <1>5, <1>6 DEF y

\* The entry of inode d for name is the new inode m; nothing else changed.
Adds(u, t, d, name, m) ==
    /\ \A n \in 0 .. Len(t), y \in STRING :
          Entry(u, n, y) = IF n = d /\ y = name THEN m ELSE Entry(t, n, y)
    /\ \A y \in STRING : Entry(u, m, y) = 0

\* add: the table grows by the new inode, which is one entry more.
LEMMA AddEffect ==
    ASSUME NEW t, IsTable(t), NEW d \in 1 .. Len(t), is_dir(t[d]), NEW name \in STRING,
           NEW data, IsInode(data), is_dir(data) => Names(data) = {}
    PROVE  LET u == add(t, d, name, data)
           IN  /\ IsTable(u) /\ Len(u) = Len(t) + 1 /\ u[Len(t) + 1] = data
               /\ \A n \in 1 .. Len(t) : SameFile(t[n], u[n]) /\ u[n].mode = t[n].mode
               /\ Adds(u, t, d, name, Len(t) + 1)
<1> DEFINE u == add(t, d, name, data)
           L == Len(t)
           y == Link(t[d], name, L + 1)
           s == [t EXCEPT ![d] = y]
<1>1. L \in Nat \ {0} /\ DOMAIN t = 1 .. L /\ IsInode(t[d])
  BY DEF IsTable
<1>2. /\ IsInode(y) /\ SameFile(t[d], y) /\ y.mode = t[d].mode
      /\ Names(y) = Names(t[d]) \cup {name}
      /\ \A n \in Names(y) : y.entries[n] = IF n = name THEN L + 1 ELSE t[d].entries[n]
  <2>1. L + 1 # 0
    BY <1>1
  <2>2. QED
    BY <1>1, <2>1, LinkEffect
<1>3. u = Append(s, data)
  BY DEF add
<1> HIDE DEF y
<1>4. s = [k \in 1 .. L |-> s[k]] /\ s[d] = y /\ \A n \in 1 .. L : n # d => s[n] = t[n]
  BY <1>1, Zenon
<1> HIDE DEF s, u
<1>5. /\ Len(u) = L + 1 /\ u = [k \in 1 .. L + 1 |-> u[k]]
      /\ \A k \in 1 .. L : u[k] = s[k]
      /\ u[L + 1] = data
  BY <1>1, <1>3, <1>4, AppendInode
<1>6. IsTable(u)
  <2>1. ASSUME NEW n \in 1 .. L + 1 PROVE IsInode(u[n])
    <3>1. CASE n = L + 1
      BY <1>5, <3>1
    <3>2. CASE n = d
      BY <1>2, <1>4, <1>5, <3>2, Zenon
    <3>3. CASE n \in 1 .. L /\ n # d
      BY <1>4, <1>5, <3>3, Zenon DEF IsTable
    <3>4. QED
      BY <1>1, <3>1, <3>2, <3>3
  <2>2. QED
    BY <1>1, <1>5, <2>1 DEF IsTable
<1>7. ASSUME NEW n \in 1 .. L PROVE SameFile(t[n], u[n]) /\ u[n].mode = t[n].mode
  <2>1. CASE n = d
    BY <1>2, <1>4, <1>5, <2>1, Zenon
  <2>2. CASE n # d
    BY <1>4, <1>5, <2>2 DEF SameFile
  <2>3. QED
    BY <2>1, <2>2
<1>8. ASSUME NEW n \in 0 .. L, NEW x \in STRING
      PROVE  Entry(u, n, x) = IF n = d /\ x = name THEN L + 1 ELSE Entry(t, n, x)
  <2>1. CASE n = 0
    <3>1. n # d
      BY <2>1
    <3>2. QED
      BY <2>1, <3>1 DEF Entry
  <2>2. CASE n = d
    <3>1. u[n] = y /\ is_dir(y) /\ n # 0
      BY <1>2, <1>4, <1>5, <2>2 DEF SameFile
    <3>2. QED
      BY <1>2, <2>2, <3>1 DEF Entry
  <2>3. CASE n \in 1 .. L /\ n # d
    BY <1>4, <1>5, <2>3 DEF Entry
  <2>4. n = 0 \/ n = d \/ (n \in 1 .. L /\ n # d)
    BY <1>1
  <2>5. QED
    BY <2>1, <2>2, <2>3, <2>4, Zenon
<1>9. \A x \in STRING : Entry(u, L + 1, x) = 0
  BY <1>1, <1>5 DEF Entry
<1>10. QED
  BY <1>5, <1>6, <1>7, <1>8, <1>9, Zenon DEF Adds, u

\* UpdateMode: one mode changes, and no entry does.
LEMMA ModeEffect ==
    ASSUME NEW t, IsTable(t), NEW m \in 1 .. Len(t), NEW mode
    PROVE  LET u == [t EXCEPT ![m].mode = mode]
           IN  /\ IsTable(u) /\ Len(u) = Len(t)
               /\ \A n \in 1 .. Len(t) : SameFile(t[n], u[n])
               /\ u[m].mode = mode
               /\ \A n \in 1 .. Len(t) : n # m => u[n].mode = t[n].mode
               /\ \A n \in 0 .. Len(t), y \in STRING : Entry(u, n, y) = Entry(t, n, y)
<1> DEFINE L == Len(t)
           x == [t[m] EXCEPT !.mode = mode]
           u == [t EXCEPT ![m].mode = mode]
<1>1. L \in Nat \ {0} /\ DOMAIN t = 1 .. L /\ IsInode(t[m])
  BY DEF IsTable
<1>2. /\ DOMAIN x = DOMAIN t[m] /\ x.mode = mode
      /\ \A f \in DOMAIN t[m] : f # "mode" => x[f] = t[m][f]
  BY <1>1 DEF IsInode
<1>3. u = [t EXCEPT ![m] = x]
  OBVIOUS
<1> HIDE DEF x, u
<1>4. u = [n \in 1 .. L |-> u[n]] /\ u[m] = x /\ \A n \in 1 .. L : n # m => u[n] = t[n]
  BY <1>1, <1>3, Zenon
<1>5. Len(u) = L
  BY <1>1, <1>4
<1>6. /\ x.kind = t[m].kind /\ x.size = t[m].size
      /\ is_dir(x) <=> is_dir(t[m])
      /\ is_dir(x) => x.entries = t[m].entries /\ Names(x) = Names(t[m])
      /\ ~is_dir(x) => x.zip_index = t[m].zip_index
  BY <1>1, <1>2 DEF IsInode, is_dir, Names
<1>7. IsInode(x) /\ SameFile(t[m], x)
  BY <1>1, <1>2, <1>6 DEF IsInode, SameFile
<1>8. IsTable(u)
  BY <1>1, <1>4, <1>5, <1>7 DEF IsTable
<1>9. \A n \in 1 .. L : SameFile(t[n], u[n])
  BY <1>4, <1>7 DEF SameFile
<1>10. u[m].mode = mode /\ \A n \in 1 .. L : n # m => u[n].mode = t[n].mode
  BY <1>2, <1>4
<1>11. ASSUME NEW n \in 0 .. L, NEW y \in STRING PROVE Entry(u, n, y) = Entry(t, n, y)
  <2>1. CASE n = 0
    BY <2>1 DEF Entry
  <2>2. CASE n = m
    BY <1>4, <1>6, <2>2 DEF Entry
  <2>3. CASE n \in 1 .. L /\ n # m
    BY <1>4, <2>3 DEF Entry
  <2>4. n = 0 \/ n = m \/ (n \in 1 .. L /\ n # m)
    BY <1>1
  <2>5. QED
    BY <2>1, <2>2, <2>3, <2>4, Zenon
<1>12. QED
  BY <1>5, <1>8, <1>9, <1>10, <1>11, Zenon DEF u

(***************************************************************************)
(* Walks in a table whose entries form a tree.                             *)
(***************************************************************************)

\* Two entries for the same inode are one.
OneEntry(t, n, m, y, z) ==
    Entry(t, n, y) = Entry(t, m, z) /\ Entry(t, n, y) # 0 => n = m /\ y = z

Tree(t) ==
    /\ IsTable(t) /\ is_dir(t[ROOT])
    /\ \A n \in 0 .. Len(t), y \in STRING : Entry(t, n, y) \in {0} \cup 2 .. Len(t)
    /\ \A n, m \in 0 .. Len(t), y, z \in STRING : OneEntry(t, n, m, y, z)

\* An entry in a tree is an inode other than the root, or none.
LEMMA TreeEntry ==
    ASSUME NEW t, Tree(t), NEW n \in 0 .. Len(t), NEW y \in STRING
    PROVE  Entry(t, n, y) \in {0} \cup 2 .. Len(t)
BY Zenon DEF Tree

\* An inode in a tree has one name in one directory.
LEMMA TreeUnique ==
    ASSUME NEW t, Tree(t), NEW n \in 0 .. Len(t), NEW m \in 0 .. Len(t),
           NEW y \in STRING, NEW z \in STRING
    PROVE  OneEntry(t, n, m, y, z)
BY Zenon DEF Tree

\* A path with one more component.
LEMMA PathAppend ==
    ASSUME NEW S, NEW p \in Seq(S), NEW x \in S
    PROVE  Append(p, x) \in Seq(S) /\ Append(p, x) # <<>>
<1>1. Append(p, x) \in Seq(S) /\ Len(Append(p, x)) = Len(p) + 1 /\ Len(p) \in Nat
  OBVIOUS
<1>2. Len(<<>>) = 0
  OBVIOUS
<1>3. QED
  BY <1>1, <1>2

\* The walk along one more component.
LEMMA WalkAppend ==
    ASSUME SetFacts, NEW t, NEW p \in Seq(STRING), NEW x \in STRING
    PROVE  Walk(t, Append(p, x)) = Entry(t, Walk(t, p), x)
BY WalkStep, Zenon

\* Induction on the length of a path.
LEMMA PathInduction ==
    ASSUME SetFacts, NEW S, <<>> \in S,
           \A p \in Seq(STRING), x \in STRING : p \in S => Append(p, x) \in S
    PROVE  \A p \in Seq(STRING) : p \in S
<1> DEFINE N == {n \in Nat : \A p \in Seq(STRING) : Len(p) = n => p \in S}
<1>1. 0 \in N
  <2>1. \A p \in Seq(STRING) : Len(p) = 0 => p = <<>>
    OBVIOUS
  <2>2. QED
    BY <2>1
<1>2. ASSUME NEW n \in Nat, n \in N PROVE n + 1 \in N
  <2>1. SUFFICES ASSUME NEW p \in Seq(STRING), Len(p) = n + 1 PROVE p \in S
    OBVIOUS
  <2>2. p # <<>>
    BY <2>1
  <2>3. PICK q \in Seq(STRING), x \in STRING : p = Append(q, x) /\ Len(p) = Len(q) + 1
    BY <2>2, PathForm, Zenon
  <2>4. Len(q) = n
    BY <2>1, <2>3
  <2>5. q \in S
    BY <1>2, <2>4
  <2>6. QED
    BY <2>3, <2>5, Zenon
<1>3. \A n \in Nat : n \in N
  <2> HIDE DEF N
  <2> QED
    BY <1>1, <1>2, Induction
<1>4. QED
  BY <1>3

\* A walk ends at an inode or nowhere, and at the root for no other path.
LEMMA WalkRange ==
    ASSUME SetFacts, NEW t, Tree(t), NEW p \in Seq(STRING)
    PROVE  /\ Walk(t, p) \in 0 .. Len(t)
           /\ \A x \in STRING : Walk(t, Append(p, x)) \in {0} \cup 2 .. Len(t)
           /\ p # <<>> => Walk(t, p) # ROOT
<1> DEFINE S == {q \in Seq(STRING) : Walk(t, q) \in 0 .. Len(t)}
<1>1. Len(t) \in Nat \ {0}
  BY DEF Tree, IsTable
<1>2. <<>> \in S
  <2>1. <<>> \in Seq(STRING) /\ 1 \in 0 .. Len(t)
    BY <1>1
  <2>2. QED
    BY <2>1, WalkStep, Zenon DEF ROOT
<1>3. ASSUME NEW q \in Seq(STRING), NEW x \in STRING, q \in S
      PROVE  Walk(t, Append(q, x)) \in {0} \cup 2 .. Len(t)
  <2>1. Walk(t, q) \in 0 .. Len(t)
    BY <1>3
  <2>2. QED
    BY <2>1, WalkAppend, TreeEntry, Zenon
<1>4. ASSUME NEW q \in Seq(STRING), NEW x \in STRING, q \in S PROVE Append(q, x) \in S
  <2>1. Walk(t, Append(q, x)) \in {0} \cup 2 .. Len(t)
    BY <1>3, <1>4, Zenon
  <2>2. Append(q, x) \in Seq(STRING)
    BY PathAppend, Zenon
  <2>3. \A n \in {0} \cup 2 .. Len(t) : n \in 0 .. Len(t)
    BY <1>1
  <2>4. QED
    BY <2>1, <2>2, <2>3, Zenon
<1>5. \A q \in Seq(STRING) : q \in S
  <2> HIDE DEF S
  <2> QED
    BY <1>2, <1>4, PathInduction, Zenon
<1>6. p # <<>> => Walk(t, p) # ROOT
  <2>1. SUFFICES ASSUME p # <<>> PROVE Walk(t, p) # ROOT
    OBVIOUS
  <2>2. PICK q \in Seq(STRING), x \in STRING : p = Append(q, x)
    BY <2>1, PathForm, Zenon
  <2>3. Walk(t, p) \in {0} \cup 2 .. Len(t)
    BY <1>3, <1>5, <2>2, Zenon
  <2>4. QED
    BY <1>1, <2>3 DEF ROOT
<1>7. QED
  BY <1>3, <1>5, <1>6, Zenon

\* No two paths lead to one inode.
LEMMA WalkInjective ==
    ASSUME SetFacts, NEW t, Tree(t), NEW p \in Seq(STRING), NEW q \in Seq(STRING),
           Walk(t, p) = Walk(t, q), Walk(t, p) # 0
    PROVE  p = q
<1> DEFINE S == {r \in Seq(STRING) : \A s \in Seq(STRING) :
                    Walk(t, r) = Walk(t, s) /\ Walk(t, r) # 0 => r = s}
<1>1. <<>> \in S
  <2>1. <<>> \in Seq(STRING)
    OBVIOUS
  <2>2. QED
    BY <2>1, WalkStep, WalkRange, Zenon
<1>2. ASSUME NEW r \in Seq(STRING), NEW x \in STRING, r \in S PROVE Append(r, x) \in S
  <2>1. SUFFICES ASSUME NEW s \in Seq(STRING), Walk(t, Append(r, x)) = Walk(t, s),
                        Walk(t, Append(r, x)) # 0
                 PROVE  Append(r, x) = s
    <3>1. Append(r, x) \in Seq(STRING)
      BY PathAppend, Zenon
    <3>2. QED
      BY <3>1, Zenon
  <2>2. s # <<>>
    <3>1. Append(r, x) \in Seq(STRING) /\ Append(r, x) # <<>>
      BY PathAppend, Zenon
    <3>2. QED
      BY <2>1, <3>1, WalkStep, WalkRange, Zenon
  <2>3. PICK v \in Seq(STRING), y \in STRING : s = Append(v, y)
    BY <2>2, PathForm, Zenon
  <2>4. Entry(t, Walk(t, r), x) = Entry(t, Walk(t, v), y) /\ Entry(t, Walk(t, r), x) # 0
    <3>1. /\ Walk(t, Append(r, x)) = Entry(t, Walk(t, r), x)
          /\ Walk(t, Append(v, y)) = Entry(t, Walk(t, v), y)
      BY WalkAppend, Zenon
    <3>2. QED
      BY <2>1, <2>3, <3>1, Zenon
  <2>5. Walk(t, r) \in 0 .. Len(t) /\ Walk(t, v) \in 0 .. Len(t)
    BY WalkRange, Zenon
  <2>6. Walk(t, r) = Walk(t, v) /\ x = y
    <3>1. OneEntry(t, Walk(t, r), Walk(t, v), x, y)
      BY <2>5, TreeUnique, Zenon
    <3>2. QED
      BY <2>4, <3>1 DEF OneEntry
  <2>7. Walk(t, r) # 0
    BY <2>4 DEF Entry
  <2>8. r = v
    BY <1>2, <2>6, <2>7
  <2>9. QED
    BY <2>3, <2>6, <2>8
<1>3. \A r \in Seq(STRING) : r \in S
  <2> HIDE DEF S
  <2> QED
    BY <1>1, <1>2, PathInduction, Zenon
<1>4. QED
  BY <1>3

\* A table that keeps all entries keeps all paths.
LEMMA WalkKept ==
    ASSUME SetFacts, NEW t, Tree(t), NEW u,
           \A n \in 0 .. Len(t), y \in STRING :
              Entry(t, n, y) # 0 => Entry(u, n, y) = Entry(t, n, y),
           NEW p \in Seq(STRING), Walk(t, p) # 0
    PROVE  Walk(u, p) = Walk(t, p)
<1> DEFINE S == {r \in Seq(STRING) : Walk(t, r) # 0 => Walk(u, r) = Walk(t, r)}
<1>1. <<>> \in S
  <2>1. <<>> \in Seq(STRING)
    OBVIOUS
  <2>2. QED
    BY <2>1, WalkStep, Zenon
<1>2. ASSUME NEW r \in Seq(STRING), NEW x \in STRING, r \in S PROVE Append(r, x) \in S
  <2>1. SUFFICES ASSUME Walk(t, Append(r, x)) # 0
                 PROVE  Walk(u, Append(r, x)) = Walk(t, Append(r, x))
    <3>1. Append(r, x) \in Seq(STRING)
      BY PathAppend, Zenon
    <3>2. QED
      BY <3>1, Zenon
  <2>2. Entry(t, Walk(t, r), x) # 0
    BY <2>1, WalkAppend, Zenon
  <2>3. Walk(t, r) # 0
    BY <2>2 DEF Entry
  <2>4. Walk(u, r) = Walk(t, r)
    BY <1>2, <2>3
  <2>5. Walk(t, r) \in 0 .. Len(t)
    BY WalkRange, Zenon
  <2>6. Entry(u, Walk(t, r), x) = Entry(t, Walk(t, r), x)
    BY <2>2, <2>5, Zenon
  <2>7. QED
    <3>1. /\ Walk(t, Append(r, x)) = Entry(t, Walk(t, r), x)
          /\ Walk(u, Append(r, x)) = Entry(u, Walk(u, r), x)
      BY WalkAppend, Zenon
    <3>2. QED
      BY <2>4, <2>6, <3>1
<1>3. \A r \in Seq(STRING) : r \in S
  <2> HIDE DEF S
  <2> QED
    BY <1>1, <1>2, PathInduction, Zenon
<1>4. QED
  BY <1>3

(***************************************************************************)
(* What from_zip has seen after k components of entry i.                   *)
(***************************************************************************)

IsFile(f) ==
    /\ f.path \in Seq(STRING) /\ f.is_file \in BOOLEAN /\ f.size \in Nat
    /\ f.mode \in {NO_MODE} \cup Nat
IsArchive(a) == Len(a) \in Nat /\ DOMAIN a = 1 .. Len(a) /\ \A i \in 1 .. Len(a) : IsFile(a[i])

\* Path p, if entry j has it, was seen.
Before(i, k, j, p) == j < i \/ (j = i /\ Len(p) <= k)

Reached(a, i, k, p) ==
    /\ p \in Seq(STRING) /\ p # <<>>
    /\ \E j \in Under(a, p) : Before(i, k, j, p)

\* The directory entries seen that are named p.
NamedBy(a, i, k, p) == {j \in Naming(a, p) : ~a[j].is_file /\ Before(i, k, j, p)}

\* The path that component k of entry i completes.
UpTo(a, i, k) == SubSeq(a[i].path, 1, k)

\* A path begins with itself.
LEMMA BeginsItself ==
    ASSUME NEW p \in Seq(STRING)
    PROVE  Begins(p, p)
<1>1. Len(p) <= Len(p) /\ SubSeq(p, 1, Len(p)) = p
  OBVIOUS
<1>2. QED
  BY <1>1 DEF Begins

\* The first components of an entry, one more at a time.
LEMMA UpToForm ==
    ASSUME NEW a, IsArchive(a), NEW i \in 1 .. Len(a), NEW k \in 1 .. Len(a[i].path)
    PROVE  /\ UpTo(a, i, k) \in Seq(STRING) /\ UpTo(a, i, k - 1) \in Seq(STRING)
           /\ UpTo(a, i, k) # <<>> /\ Len(UpTo(a, i, k)) = k
           /\ a[i].path[k] \in STRING
           /\ UpTo(a, i, k) = Append(UpTo(a, i, k - 1), a[i].path[k])
           /\ i \in Under(a, UpTo(a, i, k))
           /\ k = Len(a[i].path) <=> a[i].path = UpTo(a, i, k)
<1> DEFINE p == a[i].path
<1>1. p \in Seq(STRING)
  BY DEF IsArchive, IsFile
<1>2. k \in 1 .. Len(p)
  OBVIOUS
<1> HIDE DEF p
<1>3. /\ SubSeq(p, 1, k) \in Seq(STRING) /\ SubSeq(p, 1, k - 1) \in Seq(STRING)
      /\ p[k] \in STRING /\ Len(SubSeq(p, 1, k)) = k
      /\ SubSeq(p, 1, k) = Append(SubSeq(p, 1, k - 1), p[k])
  BY <1>1, <1>2, PrefixForm
<1>4. SubSeq(p, 1, k) # <<>>
  BY <1>3, PathAppend, Zenon
<1>5. k <= Len(p) /\ SubSeq(p, 1, Len(p)) = p
  BY <1>1, <1>2
<1>6. Begins(p, SubSeq(p, 1, k))
  BY <1>3, <1>5 DEF Begins
<1>7. i \in DOMAIN a
  BY DEF IsArchive
<1>8. k = Len(p) <=> p = SubSeq(p, 1, k)
  BY <1>3, <1>5, Zenon
<1>9. QED
  BY <1>3, <1>4, <1>6, <1>7, <1>8 DEF p, UpTo, Under

\* The paths that entry i has are those it comes to, component by component.
LEMMA UpToOnly ==
    ASSUME NEW a, NEW i, NEW p, i \in Under(a, p)
    PROVE  p = UpTo(a, i, Len(p)) /\ Len(p) <= Len(a[i].path)
BY DEF Under, Begins, UpTo

\* What one more component adds to the paths that were reached.
LEMMA ReachedStep ==
    ASSUME NEW a, IsArchive(a), NEW i \in 1 .. Len(a), NEW k \in 1 .. Len(a[i].path), NEW p
    PROVE  Reached(a, i, k, p) <=> (Reached(a, i, k - 1, p) \/ p = UpTo(a, i, k))
<1>1. k \in Nat
  BY DEF IsArchive, IsFile
<1>2. ASSUME Reached(a, i, k, p) PROVE Reached(a, i, k - 1, p) \/ p = UpTo(a, i, k)
  <2>1. PICK j \in Under(a, p) : Before(i, k, j, p)
    BY <1>2 DEF Reached
  <2>2. CASE j < i
    BY <1>2, <2>1, <2>2 DEF Reached, Before
  <2>3. CASE j = i /\ Len(p) <= k
    <3>1. Len(p) \in Nat
      BY <1>2 DEF Reached
    <3>2. CASE Len(p) = k
      BY <2>1, <2>3, <3>2, UpToOnly
    <3>3. CASE Len(p) # k
      <4>1. Len(p) <= k - 1
        BY <1>1, <2>3, <3>1, <3>3
      <4>2. QED
        BY <1>2, <2>1, <2>3, <4>1 DEF Reached, Before
    <3>4. QED
      BY <3>2, <3>3
  <2>4. QED
    BY <2>1, <2>2, <2>3 DEF Before
<1>3. ASSUME Reached(a, i, k - 1, p) PROVE Reached(a, i, k, p)
  <2>1. PICK j \in Under(a, p) : Before(i, k - 1, j, p)
    BY <1>3 DEF Reached
  <2>2. Len(p) \in Nat
    BY <1>3 DEF Reached
  <2>3. Before(i, k, j, p)
    BY <1>1, <2>1, <2>2 DEF Before
  <2>4. QED
    BY <1>3, <2>1, <2>3 DEF Reached
<1>4. ASSUME p = UpTo(a, i, k) PROVE Reached(a, i, k, p)
  <2>1. p \in Seq(STRING) /\ p # <<>> /\ Len(p) = k /\ i \in Under(a, p)
    BY <1>4, UpToForm
  <2>2. Before(i, k, i, p)
    BY <1>1, <2>1 DEF Before
  <2>3. QED
    BY <2>1, <2>2 DEF Reached
<1>5. QED
  BY <1>2, <1>3, <1>4

\* A path reached for the first time is of the first entry under it.
LEMMA FirstReached ==
    ASSUME NEW a, IsArchive(a), NEW i \in 1 .. Len(a), NEW k \in 1 .. Len(a[i].path),
           ~Reached(a, i, k - 1, UpTo(a, i, k))
    PROVE  FirstOf(Under(a, UpTo(a, i, k))) = i /\ NamedBy(a, i, k - 1, UpTo(a, i, k)) = {}
<1> DEFINE p == UpTo(a, i, k)
           S == Under(a, p)
<1>1. p \in Seq(STRING) /\ p # <<>> /\ Len(p) = k /\ i \in S
  BY UpToForm
<1> HIDE DEF p
<1>2. \A j \in S : ~Before(i, k - 1, j, p)
  BY <1>1 DEF Reached, p
<1>3. i \in Nat /\ S \subseteq Nat
  BY DEF Under, IsArchive
<1>4. \A j \in S : i <= j
  BY <1>2, <1>3 DEF Before
<1> HIDE DEF S
<1>5. FirstOf(S) \in S /\ \A j \in S : FirstOf(S) <= j
  BY <1>1, <1>4, Zenon DEF FirstOf
<1>6. FirstOf(S) = i
  <2>1. FirstOf(S) <= i /\ i <= FirstOf(S) /\ FirstOf(S) \in Nat
    BY <1>1, <1>3, <1>4, <1>5, Zenon
  <2>2. QED
    BY <1>3, <2>1
<1>7. ASSUME NEW j \in NamedBy(a, i, k - 1, p) PROVE FALSE
  <2>1. j \in DOMAIN a /\ a[j].path = p /\ Before(i, k - 1, j, p)
    BY <1>7 DEF NamedBy, Naming
  <2>2. j \in S
    BY <1>1, <2>1, BeginsItself DEF S, Under
  <2>3. QED
    BY <1>2, <2>1, <2>2
<1>8. QED
  BY <1>6, <1>7 DEF S, p

\* What one more component adds to the entries that name a directory.
LEMMA NamedStep ==
    ASSUME NEW a, IsArchive(a), NEW i \in 1 .. Len(a), NEW k \in 1 .. Len(a[i].path),
           NEW p \in Seq(STRING)
    PROVE  NamedBy(a, i, k, p) =
              NamedBy(a, i, k - 1, p)
                 \cup (IF p = UpTo(a, i, k) /\ k = Len(a[i].path) /\ ~a[i].is_file
                       THEN {i} ELSE {})
<1>1. k \in Nat /\ i \in Nat /\ Len(p) \in Nat /\ i \in DOMAIN a
  BY DEF IsArchive, IsFile
<1>2. k = Len(a[i].path) <=> a[i].path = UpTo(a, i, k)
  BY UpToForm
<1>3. Len(UpTo(a, i, k)) = k
  BY UpToForm
<1>4. ASSUME NEW j PROVE Before(i, k, j, p) <=> (Before(i, k - 1, j, p) \/ (j = i /\ Len(p) = k))
  BY <1>1 DEF Before
<1>5. ASSUME NEW j
      PROVE  j \in NamedBy(a, i, k, p) <=>
                \/ j \in NamedBy(a, i, k - 1, p)
                \/ j = i /\ p = UpTo(a, i, k) /\ k = Len(a[i].path) /\ ~a[i].is_file
  <2>1. j \in NamedBy(a, i, k, p) <=>
           \/ j \in NamedBy(a, i, k - 1, p)
           \/ j \in Naming(a, p) /\ ~a[j].is_file /\ j = i /\ Len(p) = k
    BY <1>4 DEF NamedBy
  <2>2. i \in Naming(a, p) /\ Len(p) = k <=> p = UpTo(a, i, k) /\ k = Len(a[i].path)
    BY <1>1, <1>2, <1>3 DEF Naming
  <2>3. QED
    BY <2>1, <2>2
<1>6. QED
  BY <1>5

\* Other paths are named by the same entries as before.
LEMMA NamedSame ==
    ASSUME NEW a, IsArchive(a), NEW i \in 1 .. Len(a), NEW k \in 1 .. Len(a[i].path),
           NEW p \in Seq(STRING), ~(p = UpTo(a, i, k) /\ k = Len(a[i].path) /\ ~a[i].is_file)
    PROVE  NamedBy(a, i, k, p) = NamedBy(a, i, k - 1, p)
<1> DEFINE B == NamedBy(a, i, k - 1, p)
           C == NamedBy(a, i, k, p)
           E == IF p = UpTo(a, i, k) /\ k = Len(a[i].path) /\ ~a[i].is_file THEN {i} ELSE {}
<1>1. C = B \cup E
  BY NamedStep
<1>2. E = {}
  OBVIOUS
<1> HIDE DEF B, C, E
<1>3. C = B
  BY <1>1, <1>2
<1>4. QED
  BY <1>3 DEF B, C

\* The entries that name a path so far are no later than this one.
LEMMA NamedBound ==
    ASSUME NEW a, IsArchive(a), NEW i \in 1 .. Len(a), NEW k, NEW p, NEW j \in NamedBy(a, i, k, p)
    PROVE  j \in Nat /\ j <= i
BY DEF NamedBy, Naming, Before, IsArchive

\* The end of one entry is the beginning of the next.
LEMMA NextEntry ==
    ASSUME NEW a, IsArchive(a), NEW i \in 1 .. Len(a), NEW p \in Seq(STRING), p # <<>>
    PROVE  /\ Reached(a, i + 1, 0, p) <=> Reached(a, i, Len(a[i].path), p)
           /\ NamedBy(a, i + 1, 0, p) = NamedBy(a, i, Len(a[i].path), p)
<1> DEFINE L == Len(a[i].path)
<1>1. L \in Nat /\ i \in Nat /\ Len(p) \in Nat /\ Len(p) # 0
  BY DEF IsArchive, IsFile
<1>2. ASSUME NEW j \in Under(a, p) PROVE Before(i + 1, 0, j, p) <=> Before(i, L, j, p)
  <2>1. j \in Nat /\ (j = i => Len(p) <= L)
    <3>1. j \in Nat
      BY DEF Under, IsArchive
    <3>2. QED
      BY <3>1, UpToOnly
  <2>2. QED
    BY <1>1, <2>1 DEF Before
<1>3. Naming(a, p) \subseteq Under(a, p)
  BY BeginsItself DEF Naming, Under
<1>4. QED
  BY <1>2, <1>3 DEF Reached, NamedBy

(***************************************************************************)
(* The table after k components of entry i, and the rounds of the loop.    *)
(***************************************************************************)

\* Inode x has the kind and the zip index that path p should have.
KindOK(a, x, p) ==
    LET first == FirstOf(Under(a, p))
    IN  /\ is_dir(x) <=> ~(a[first].is_file /\ a[first].path = p)
        /\ ~is_dir(x) => x.zip_index = first

\* Inode x has the mode of the last of the entries naming.
ModeOK(a, x, naming) ==
    is_dir(x) =>
        /\ naming = {} => x.mode = DEFAULT_DIR_MODE
        /\ \A j \in naming :
              (\A l \in naming : l <= j) /\ a[j].mode # NO_MODE => x.mode = a[j].mode

PathOK(a, t, i, k, p) ==
    /\ Walk(t, p) # 0
    /\ KindOK(a, t[Walk(t, p)], p)
    /\ ModeOK(a, t[Walk(t, p)], NamedBy(a, i, k, p))

Built(a, t, i, k) ==
    /\ Tree(t)
    /\ \A p \in Seq(STRING) : Reached(a, i, k, p) => PathOK(a, t, i, k, p)
    /\ \A n \in 2 .. Len(t) : \E p \in Seq(STRING) : Reached(a, i, k, p) /\ Walk(t, p) = n

\* The kind stays right when the file is the same.
LEMMA KindKept ==
    ASSUME NEW a, NEW x, NEW y, NEW p, SameFile(x, y), KindOK(a, x, p)
    PROVE  KindOK(a, y, p)
BY DEF SameFile, KindOK

\* The mode stays right when neither it nor the file changes.
LEMMA ModeKept ==
    ASSUME NEW a, NEW x, NEW y, NEW S, SameFile(x, y), y.mode = x.mode, ModeOK(a, x, S)
    PROVE  ModeOK(a, y, S)
BY DEF SameFile, ModeOK

\* A table with the entries of another has its tree.
LEMMA SameTree ==
    ASSUME NEW t, Tree(t), NEW u, IsTable(u), Len(u) = Len(t), is_dir(u[ROOT]),
           \A n \in 0 .. Len(t), y \in STRING : Entry(u, n, y) = Entry(t, n, y)
    PROVE  Tree(u)
<1>1. ASSUME NEW n \in 0 .. Len(u), NEW y \in STRING
      PROVE  Entry(u, n, y) \in {0} \cup 2 .. Len(u)
  BY TreeEntry, Zenon
<1>2. ASSUME NEW n \in 0 .. Len(u), NEW m \in 0 .. Len(u), NEW y \in STRING, NEW z \in STRING
      PROVE  OneEntry(u, n, m, y, z)
  <2>1. OneEntry(t, n, m, y, z)
    BY TreeUnique, Zenon
  <2>2. Entry(u, n, y) = Entry(t, n, y) /\ Entry(u, m, z) = Entry(t, m, z)
    BY Zenon
  <2>3. QED
    BY <2>1, <2>2 DEF OneEntry
<1>3. QED
  BY <1>1, <1>2, Zenon DEF Tree

\* A new inode that is one entry of one directory keeps the tree.
LEMMA GrownTree ==
    ASSUME NEW t, Tree(t), NEW u, IsTable(u), Len(u) = Len(t) + 1, is_dir(u[ROOT]),
           NEW d \in 1 .. Len(t), NEW name \in STRING, Adds(u, t, d, name, Len(t) + 1)
    PROVE  Tree(u)
<1> DEFINE L == Len(t)
<1>1. L \in Nat \ {0}
  BY DEF Tree, IsTable
<1>2. ASSUME NEW n \in 0 .. Len(u), NEW y \in STRING
      PROVE  \/ Entry(u, n, y) = 0
             \/ n = d /\ y = name /\ Entry(u, n, y) = L + 1
             \/ n \in 0 .. L /\ Entry(u, n, y) = Entry(t, n, y) /\ Entry(u, n, y) \in 2 .. L
  <2>1. CASE n = L + 1
    BY <2>1, Zenon DEF Adds
  <2>2. CASE n = d /\ y = name
    <3>1. d \in 0 .. L
      BY <1>1
    <3>2. QED
      BY <2>2, <3>1, Zenon DEF Adds
  <2>3. CASE n \in 0 .. L /\ ~(n = d /\ y = name)
    <3>1. Entry(u, n, y) = Entry(t, n, y)
      BY <2>3, Zenon DEF Adds
    <3>2. Entry(t, n, y) \in {0} \cup 2 .. L
      BY <2>3, TreeEntry, Zenon
    <3>3. QED
      BY <2>3, <3>1, <3>2, Zenon
  <2>4. n = L + 1 \/ n \in 0 .. L
    BY <1>1
  <2>5. QED
    BY <2>1, <2>2, <2>3, <2>4, Zenon
<1>3. ASSUME NEW n \in 0 .. Len(u), NEW y \in STRING
      PROVE  Entry(u, n, y) \in {0} \cup 2 .. Len(u)
  <2>1. L + 1 \in 2 .. Len(u) /\ \A e \in 2 .. L : e \in 2 .. Len(u)
    BY <1>1
  <2>2. QED
    BY <1>2, <2>1, Zenon
<1>4. ASSUME NEW n \in 0 .. Len(u), NEW m \in 0 .. Len(u), NEW y \in STRING, NEW z \in STRING
      PROVE  OneEntry(u, n, m, y, z)
  <2>1. SUFFICES ASSUME Entry(u, n, y) = Entry(u, m, z), Entry(u, n, y) # 0
                 PROVE  n = m /\ y = z
    BY DEF OneEntry
  <2>2. CASE n = d /\ y = name /\ Entry(u, n, y) = L + 1
    <3>1. ~(Entry(u, m, z) \in 2 .. L)
      BY <1>1, <2>1, <2>2
    <3>2. QED
      BY <1>2, <2>1, <2>2, <3>1, Zenon
  <2>3. CASE n \in 0 .. L /\ Entry(u, n, y) = Entry(t, n, y) /\ Entry(u, n, y) \in 2 .. L
    <3>1. Entry(u, m, z) # L + 1
      <4>1. \A e \in 2 .. L : e # L + 1
        BY <1>1
      <4>2. QED
        BY <2>1, <2>3, <4>1, Zenon
    <3>2. m \in 0 .. L /\ Entry(u, m, z) = Entry(t, m, z)
      BY <1>2, <2>1, <3>1, Zenon
    <3>3. OneEntry(t, n, m, y, z)
      BY <2>3, <3>2, TreeUnique, Zenon
    <3>4. QED
      BY <2>1, <2>3, <3>2, <3>3, Zenon DEF OneEntry
  <2>4. QED
    BY <1>2, <2>1, <2>2, <2>3, Zenon
<1>5. QED
  BY <1>3, <1>4, Zenon DEF Tree

\* Whatever a path leads to was reached, by that path.
LEMMA FoundReached ==
    ASSUME SetFacts, NEW a, NEW t, NEW i, NEW k, Built(a, t, i, k),
           NEW p \in Seq(STRING), p # <<>>, Walk(t, p) # 0
    PROVE  Reached(a, i, k, p) /\ Walk(t, p) \in 2 .. Len(t)
<1>1. Tree(t)
  BY DEF Built
<1>2. Walk(t, p) \in 0 .. Len(t) /\ Walk(t, p) # ROOT /\ Len(t) \in Nat \ {0}
  BY <1>1, WalkRange DEF Tree, IsTable
<1>3. Walk(t, p) \in 2 .. Len(t)
  BY <1>2 DEF ROOT
<1>4. PICK q \in Seq(STRING) : Reached(a, i, k, q) /\ Walk(t, q) = Walk(t, p)
  BY <1>3 DEF Built
<1>5. q = p
  BY <1>1, <1>4, WalkInjective
<1>6. QED
  BY <1>3, <1>4, <1>5

\* A component that has an inode: at most the mode of that inode changes.
LEMMA FoundStep ==
    ASSUME SetFacts, NEW a, IsArchive(a), NEW i \in 1 .. Len(a), NEW k \in 1 .. Len(a[i].path),
           NEW t, Built(a, t, i, k - 1), Walk(t, UpTo(a, i, k)) # 0
    PROVE  LET found == Walk(t, UpTo(a, i, k))
               u == UpdateMode(t, found, a[i], k)
           IN  Built(a, u, i, k) /\ Walk(u, UpTo(a, i, k)) = found
<1> DEFINE c == UpTo(a, i, k)
           found == Walk(t, c)
           u == UpdateMode(t, found, a[i], k)
           L == Len(t)
           sets == k = Len(a[i].path) /\ ~a[i].is_file
<1>1. Tree(t) /\ IsTable(t) /\ L \in Nat \ {0} /\ is_dir(t[ROOT])
  BY DEF Built, Tree, IsTable
<1>2. c \in Seq(STRING) /\ c # <<>>
  BY UpToForm
<1> HIDE DEF c
<1>3. Reached(a, i, k - 1, c) /\ found \in 2 .. L
  BY <1>2, FoundReached DEF c
<1>4. found \in 1 .. L
  BY <1>1, <1>3
<1> HIDE DEF found
<1>5. u = IF sets THEN [t EXCEPT ![found].mode = unwrap_or(a[i].mode, 0)] ELSE t
  BY DEF UpdateMode, is_file
<1> HIDE DEF u
<1>6. /\ IsTable(u) /\ Len(u) = L
      /\ \A n \in 1 .. L : SameFile(t[n], u[n])
      /\ sets => u[found].mode = unwrap_or(a[i].mode, 0)
      /\ \A n \in 1 .. L : (~sets \/ n # found) => u[n].mode = t[n].mode
      /\ \A n \in 0 .. L, y \in STRING : Entry(u, n, y) = Entry(t, n, y)
  <2>1. CASE sets
    <3>1. u = [t EXCEPT ![found].mode = unwrap_or(a[i].mode, 0)]
      BY <1>5, <2>1
    <3> DEFINE v == [t EXCEPT ![found].mode = unwrap_or(a[i].mode, 0)]
    <3>2. /\ IsTable(v) /\ Len(v) = L
          /\ \A n \in 1 .. L : SameFile(t[n], v[n])
          /\ v[found].mode = unwrap_or(a[i].mode, 0)
          /\ \A n \in 1 .. L : n # found => v[n].mode = t[n].mode
          /\ \A n \in 0 .. L, y \in STRING : Entry(v, n, y) = Entry(t, n, y)
      BY <1>1, <1>4, ModeEffect, Zenon
    <3> HIDE DEF v
    <3>3. u = v
      BY <3>1 DEF v
    <3>4. QED
      BY <2>1, <3>2, <3>3, Zenon
  <2>2. CASE ~sets
    <3>1. u = t
      BY <1>5, <2>2
    <3>2. \A n \in 1 .. L : SameFile(t[n], t[n])
      BY DEF SameFile
    <3>3. QED
      BY <1>1, <2>2, <3>1, <3>2, Zenon
  <2>3. QED
    BY <2>1, <2>2
<1> HIDE DEF sets
<1>7. Tree(u)
  <2>1. is_dir(u[ROOT])
    BY <1>1, <1>6 DEF SameFile, ROOT
  <2>2. QED
    BY <1>1, <1>6, <2>1, SameTree
<1>8. ASSUME NEW p \in Seq(STRING), Walk(t, p) # 0
      PROVE  Walk(u, p) = Walk(t, p) /\ Walk(t, p) \in 1 .. L
  <2>1. Walk(u, p) = Walk(t, p)
    BY <1>1, <1>6, <1>8, WalkKept
  <2>2. Walk(t, p) \in 0 .. L
    BY <1>1, WalkRange
  <2>3. QED
    BY <1>1, <1>8, <2>1, <2>2
<1>9. ASSUME NEW p \in Seq(STRING), Reached(a, i, k, p)
      PROVE  PathOK(a, u, i, k, p)
  <2> DEFINE n == Walk(t, p)
  <2>1. Reached(a, i, k - 1, p)
    BY <1>3, <1>9, ReachedStep DEF c
  <2>2. PathOK(a, t, i, k - 1, p)
    BY <2>1 DEF Built
  <2>3. n # 0 /\ Walk(u, p) = n /\ n \in 1 .. L
    BY <1>8, <2>2 DEF PathOK
  <2>4. KindOK(a, u[n], p)
    BY <1>6, <2>2, <2>3, KindKept DEF PathOK
  <2>5. ModeOK(a, u[n], NamedBy(a, i, k, p))
    <3>1. CASE p = c /\ sets
      <4>1. i \in NamedBy(a, i, k, p)
        BY <3>1, NamedStep DEF c, sets
      <4>2. \A j \in NamedBy(a, i, k, p) : j \in Nat /\ j <= i
        BY NamedBound
      <4>3. \A j \in NamedBy(a, i, k, p) : (\A l \in NamedBy(a, i, k, p) : l <= j) => j = i
        BY <4>1, <4>2
      <4>4. u[n].mode = unwrap_or(a[i].mode, 0)
        BY <1>6, <3>1 DEF found
      <4>5. QED
        BY <4>1, <4>3, <4>4 DEF ModeOK, unwrap_or
    <3>2. CASE ~(p = c /\ sets)
      <4>1. NamedBy(a, i, k, p) = NamedBy(a, i, k - 1, p)
        BY <3>2, NamedSame DEF c, sets
      <4>2. ~sets \/ n # found
        BY <1>1, <1>2, <2>3, <3>2, WalkInjective DEF found
      <4>3. SameFile(t[n], u[n]) /\ u[n].mode = t[n].mode
        BY <1>6, <2>3, <4>2
      <4>4. QED
        BY <2>2, <4>1, <4>3, ModeKept DEF PathOK
    <3>3. QED
      BY <3>1, <3>2
  <2>6. QED
    BY <2>3, <2>4, <2>5 DEF PathOK
<1>10. ASSUME NEW n \in 2 .. Len(u)
       PROVE  \E p \in Seq(STRING) : Reached(a, i, k, p) /\ Walk(u, p) = n
  <2>1. PICK p \in Seq(STRING) : Reached(a, i, k - 1, p) /\ Walk(t, p) = n
    BY <1>6 DEF Built
  <2>2. Walk(u, p) = n
    BY <1>1, <1>8, <2>1
  <2>3. Reached(a, i, k, p)
    BY <2>1, ReachedStep
  <2>4. QED
    BY <2>2, <2>3
<1>11. Built(a, u, i, k)
  BY <1>7, <1>9, <1>10 DEF Built
<1>12. Walk(u, c) = found
  BY <1>1, <1>2, <1>4, <1>8 DEF found
<1>13. QED
  BY <1>11, <1>12 DEF u, found, c

\* The inode for a component that has none.
LEMMA NewInodeOK ==
    ASSUME NEW a, IsArchive(a), NEW i \in 1 .. Len(a), NEW k \in 1 .. Len(a[i].path),
           ~Reached(a, i, k - 1, UpTo(a, i, k))
    PROVE  LET x == NewInode(i, a[i], k)
           IN  /\ IsInode(x) /\ (is_dir(x) => Names(x) = {})
               /\ KindOK(a, x, UpTo(a, i, k))
               /\ ModeOK(a, x, NamedBy(a, i, k, UpTo(a, i, k)))
<1> DEFINE c == UpTo(a, i, k)
           x == NewInode(i, a[i], k)
           leaf == k = Len(a[i].path)
           S == NamedBy(a, i, k, c)
<1>1. c \in Seq(STRING) /\ (leaf <=> a[i].path = c)
  BY UpToForm
<1>2. FirstOf(Under(a, c)) = i /\ NamedBy(a, i, k - 1, c) = {}
  BY FirstReached
<1>3. S = IF leaf /\ ~a[i].is_file THEN {i} ELSE {}
  BY <1>1, <1>2, NamedStep
<1>4. a[i].size \in Nat /\ a[i].is_file \in BOOLEAN
  BY DEF IsArchive, IsFile
<1> HIDE DEF c, S
<1>5. CASE a[i].is_file /\ leaf
  <2>1. x = [kind |-> "File", mode |-> unwrap_or(a[i].mode, 0), size |-> a[i].size,
             zip_index |-> i]
    BY <1>5 DEF NewInode, is_file, new_file
  <2> HIDE DEF x
  <2>2. ~is_dir(x) /\ x.zip_index = i /\ x.size \in Nat
    BY <1>4, <2>1 DEF is_dir
  <2>3. IsInode(x)
    BY <2>1, <2>2 DEF IsInode
  <2>4. KindOK(a, x, c)
    BY <1>1, <1>2, <1>5, <2>2 DEF KindOK
  <2>5. ModeOK(a, x, S)
    BY <2>2 DEF ModeOK
  <2>6. QED
    BY <2>2, <2>3, <2>4, <2>5 DEF x, c, S
<1>6. CASE ~(a[i].is_file /\ leaf)
  <2> DEFINE mode == IF leaf THEN unwrap_or(a[i].mode, DEFAULT_DIR_MODE) ELSE DEFAULT_DIR_MODE
  <2>1. x = [kind |-> "Directory", mode |-> mode, size |-> 0, entries |-> <<>>]
    BY <1>6 DEF NewInode, is_file, new_dir
  <2> HIDE DEF x, mode
  <2>2. is_dir(x) /\ x.size \in Nat /\ x.mode = mode /\ Names(x) = {}
    <3>1. DOMAIN <<>> = {}
      OBVIOUS
    <3>2. QED
      BY <2>1, <3>1 DEF is_dir, Names
  <2>3. IsInode(x)
    <3>1. IsFiniteSet({})
      <4>1. <<>> \in Seq({})
        OBVIOUS
      <4>2. QED
        BY <4>1, Zenon DEF IsFiniteSet
    <3>2. QED
      BY <2>1, <2>2, <3>1, Zenon DEF IsInode
  <2>4. KindOK(a, x, c)
    BY <1>1, <1>2, <1>6, <2>2 DEF KindOK
  <2>5. ModeOK(a, x, S)
    BY <1>3, <1>6, <2>2 DEF ModeOK, mode, unwrap_or
  <2>6. QED
    BY <2>2, <2>3, <2>4, <2>5 DEF x, c, S
<1>7. QED
  BY <1>5, <1>6

\* A component that has no inode: it gets one, and a place in its directory.
LEMMA AddStep ==
    ASSUME SetFacts, NEW a, IsArchive(a), NEW i \in 1 .. Len(a), NEW k \in 1 .. Len(a[i].path),
           NEW t, Built(a, t, i, k - 1), Walk(t, UpTo(a, i, k)) = 0,
           Walk(t, UpTo(a, i, k - 1)) # 0, is_dir(t[Walk(t, UpTo(a, i, k - 1))])
    PROVE  LET d == Walk(t, UpTo(a, i, k - 1))
               u == add(t, d, a[i].path[k], NewInode(i, a[i], k))
           IN  Built(a, u, i, k) /\ Walk(u, UpTo(a, i, k)) = Len(t) + 1
<1> DEFINE c == UpTo(a, i, k)
           b == UpTo(a, i, k - 1)
           name == a[i].path[k]
           d == Walk(t, b)
           x == NewInode(i, a[i], k)
           u == add(t, d, name, x)
           L == Len(t)
<1>1. Tree(t) /\ IsTable(t) /\ L \in Nat \ {0} /\ is_dir(t[ROOT])
  BY DEF Built, Tree, IsTable
<1>2. /\ c \in Seq(STRING) /\ c # <<>> /\ b \in Seq(STRING) /\ name \in STRING
      /\ c = Append(b, name)
  BY UpToForm
<1>3. ~Reached(a, i, k - 1, c)
  BY <1>2, Zenon DEF Built, PathOK
<1>4. /\ IsInode(x) /\ (is_dir(x) => Names(x) = {})
      /\ KindOK(a, x, c) /\ ModeOK(a, x, NamedBy(a, i, k, c))
  BY <1>3, NewInodeOK, Zenon
<1>5. d \in 1 .. L
  <2>1. d \in 0 .. L /\ d # 0
    BY <1>1, <1>2, WalkRange
  <2>2. QED
    BY <1>1, <2>1
<1> HIDE DEF c, b, name, x
<1>6. is_dir(t[d])
  BY DEF b
<1> HIDE DEF d
<1>7. /\ IsTable(u) /\ Len(u) = L + 1 /\ u[L + 1] = x
      /\ \A n \in 1 .. L : SameFile(t[n], u[n]) /\ u[n].mode = t[n].mode
      /\ Adds(u, t, d, name, L + 1)
  BY <1>1, <1>2, <1>4, <1>5, <1>6, AddEffect
<1> HIDE DEF u
<1>8. Tree(u)
  <2>1. is_dir(u[ROOT])
    BY <1>1, <1>7 DEF SameFile, ROOT
  <2>2. QED
    BY <1>1, <1>2, <1>5, <1>7, <2>1, GrownTree
<1>9. Entry(t, d, name) = 0
  <2>1. Walk(t, c) = Entry(t, d, name)
    BY <1>2, WalkAppend DEF d
  <2>2. QED
    BY <2>1 DEF c
<1>10. \A n \in 0 .. L, y \in STRING : Entry(t, n, y) # 0 => Entry(u, n, y) = Entry(t, n, y)
  BY <1>7, <1>9 DEF Adds
<1>11. ASSUME NEW p \in Seq(STRING), Walk(t, p) # 0
       PROVE  Walk(u, p) = Walk(t, p) /\ Walk(t, p) \in 1 .. L
  <2>1. Walk(u, p) = Walk(t, p)
    BY <1>1, <1>10, <1>11, WalkKept
  <2>2. Walk(t, p) \in 0 .. L
    BY <1>1, WalkRange
  <2>3. QED
    BY <1>1, <1>11, <2>1, <2>2
<1>12. Walk(u, c) = L + 1
  <2>1. Walk(u, b) = d
    BY <1>1, <1>2, <1>5, <1>11 DEF d
  <2>2. Walk(u, c) = Entry(u, d, name)
    BY <1>2, <2>1, WalkAppend
  <2>3. d \in 0 .. L
    BY <1>1, <1>5
  <2>4. QED
    BY <1>2, <1>7, <2>2, <2>3 DEF Adds
<1>13. ASSUME NEW p \in Seq(STRING), Reached(a, i, k, p)
       PROVE  PathOK(a, u, i, k, p)
  <2>1. CASE p = c
    <3>1. Walk(u, p) # 0 /\ u[Walk(u, p)] = x
      BY <1>1, <1>7, <1>12, <2>1
    <3>2. QED
      BY <1>4, <2>1, <3>1 DEF PathOK
  <2>2. CASE p # c
    <3> DEFINE n == Walk(t, p)
    <3>1. Reached(a, i, k - 1, p)
      BY <1>13, <2>2, ReachedStep DEF c
    <3>2. PathOK(a, t, i, k - 1, p)
      BY <3>1 DEF Built
    <3>3. n # 0 /\ Walk(u, p) = n /\ n \in 1 .. L
      BY <1>11, <3>2 DEF PathOK
    <3>4. SameFile(t[n], u[n]) /\ u[n].mode = t[n].mode
      BY <1>7, <3>3
    <3>5. KindOK(a, u[n], p)
      BY <3>2, <3>4, KindKept DEF PathOK
    <3>6. NamedBy(a, i, k, p) = NamedBy(a, i, k - 1, p)
      BY <2>2, NamedSame DEF c
    <3>7. ModeOK(a, u[n], NamedBy(a, i, k, p))
      BY <3>2, <3>4, <3>6, ModeKept DEF PathOK
    <3>8. QED
      BY <3>3, <3>5, <3>7 DEF PathOK
  <2>3. QED
    BY <2>1, <2>2
<1>14. ASSUME NEW n \in 2 .. Len(u)
       PROVE  \E p \in Seq(STRING) : Reached(a, i, k, p) /\ Walk(u, p) = n
  <2>1. CASE n = L + 1
    <3>1. Reached(a, i, k, c)
      BY ReachedStep DEF c
    <3>2. QED
      BY <1>2, <1>12, <2>1, <3>1, Zenon
  <2>2. CASE n # L + 1
    <3>1. n \in 2 .. L /\ n # 0
      BY <1>1, <1>7, <2>2
    <3>2. PICK p \in Seq(STRING) : Reached(a, i, k - 1, p) /\ Walk(t, p) = n
      BY <3>1 DEF Built
    <3>3. Walk(u, p) = n
      BY <1>11, <3>1, <3>2
    <3>4. Reached(a, i, k, p)
      BY <3>2, ReachedStep
    <3>5. QED
      BY <3>3, <3>4
  <2>3. QED
    BY <2>1, <2>2
<1>15. Built(a, u, i, k)
  BY <1>8, <1>13, <1>14 DEF Built
<1>16. QED
  BY <1>12, <1>15 DEF u, d, x, name, b, c

\* The accumulator of from_zip after k components of entry i.
AccOK(acc, a, i, k) ==
    /\ acc = [table |-> acc.table, parent |-> acc.parent, status |-> acc.status]
    /\ acc.status \in {"ok", "error", "panic"}
    /\ acc.status = "ok" => Built(a, acc.table, i, k)

InPlace(acc, a, i, k) ==
    acc.status = "ok" => acc.parent = Walk(acc.table, UpTo(a, i, k)) /\ acc.parent # 0

\* The table and the parent are assigned together.
LEMMA AccUpdate ==
    ASSUME NEW t, NEW d, NEW s, NEW acc, acc = [table |-> t, parent |-> d, status |-> s],
           NEW u, NEW m
    PROVE  [acc EXCEPT !.table = u, !.parent = m] = [table |-> u, parent |-> m, status |-> s]
<1> DEFINE b == [acc EXCEPT !.table = u]
<1>1. b = [table |-> u, parent |-> d, status |-> s]
  OBVIOUS
<1> HIDE DEF b
<1>2. [b EXCEPT !.parent = m] = [table |-> u, parent |-> m, status |-> s]
  BY <1>1
<1>3. QED
  BY <1>2 DEF b

\* A round of the inner loop.
LEMMA ComponentStep ==
    ASSUME SetFacts, NEW a, IsArchive(a), NEW i \in 1 .. Len(a), NEW k \in 1 .. Len(a[i].path),
           NEW acc, AccOK(acc, a, i, k - 1), InPlace(acc, a, i, k - 1)
    PROVE  LET next == AddComponent(acc, i, a[i], k)
           IN  AccOK(next, a, i, k) /\ InPlace(next, a, i, k)
<1> DEFINE next == AddComponent(acc, i, a[i], k)
           t == acc.table
           d == acc.parent
           name == a[i].path[k]
           c == UpTo(a, i, k)
<1>1. /\ c \in Seq(STRING) /\ UpTo(a, i, k - 1) \in Seq(STRING) /\ name \in STRING
      /\ c = Append(UpTo(a, i, k - 1), name)
  BY UpToForm
<1>2. acc = [table |-> t, parent |-> d, status |-> acc.status]
  BY DEF AccOK
<1>3. CASE acc.status # "ok"
  <2>1. next = acc
    BY <1>3 DEF AddComponent
  <2>2. QED
    BY <1>3, <2>1 DEF AccOK, InPlace
<1>4. CASE acc.status = "ok" /\ name = DOTDOT
  <2>1. next = [acc EXCEPT !.status = "error"]
    BY <1>4 DEF AddComponent
  <2>2. next = [table |-> t, parent |-> d, status |-> "error"]
    BY <1>2, <2>1
  <2>3. QED
    BY <2>2 DEF AccOK, InPlace
<1>5. CASE acc.status = "ok" /\ name # DOTDOT /\ ~is_dir(t[d])
  <2>1. next = [acc EXCEPT !.status = "panic"]
    BY <1>5 DEF AddComponent
  <2>2. next = [table |-> t, parent |-> d, status |-> "panic"]
    BY <1>2, <2>1
  <2>3. QED
    BY <2>2 DEF AccOK, InPlace
<1>6. CASE acc.status = "ok" /\ name # DOTDOT /\ is_dir(t[d])
  <2>1. /\ Built(a, t, i, k - 1) /\ Tree(t) /\ d = Walk(t, UpTo(a, i, k - 1)) /\ d # 0
        /\ acc = [table |-> t, parent |-> d, status |-> "ok"]
    BY <1>2, <1>6 DEF AccOK, InPlace, Built
  <2>2. Walk(t, c) = Entry(t, d, name)
    BY <1>1, <2>1, WalkAppend
  <2>3. d \in 0 .. Len(t) /\ Len(t) \in Nat
    BY <1>1, <2>1, WalkRange DEF Tree, IsTable
  <2>4. IsInode(t[d])
    BY <2>1, <2>3 DEF Tree, IsTable
  <2>5. CASE name \in Names(t[d])
    <3> DEFINE found == t[d].entries[name]
               u == UpdateMode(t, found, a[i], k)
    <3>1. Walk(t, c) = found /\ found # 0
      BY <1>6, <2>1, <2>2, <2>4, <2>5 DEF Entry, IsInode
    <3>2. next = [acc EXCEPT !.table = u, !.parent = found]
      BY <1>6, <2>5 DEF AddComponent
    <3> HIDE DEF found
    <3>3. Built(a, u, i, k) /\ Walk(u, c) = found
      BY <2>1, <3>1, FoundStep
    <3> HIDE DEF u, next, t, d
    <3>4. next = [table |-> u, parent |-> found, status |-> "ok"]
      BY <2>1, <3>2, AccUpdate, Zenon
    <3>5. QED
      BY <3>1, <3>3, <3>4 DEF AccOK, InPlace, next, t, d
  <2>6. CASE name \notin Names(t[d])
    <3> DEFINE u == add(t, d, name, NewInode(i, a[i], k))
    <3>1. Walk(t, c) = 0
      BY <2>2, <2>6 DEF Entry
    <3>2. next = [acc EXCEPT !.table = u, !.parent = Len(t) + 1]
      BY <1>6, <2>6 DEF AddComponent
    <3>3. Built(a, u, i, k) /\ Walk(u, c) = Len(t) + 1
      BY <1>6, <2>1, <3>1, AddStep
    <3> HIDE DEF u, next, t, d
    <3>4. next = [table |-> u, parent |-> Len(t) + 1, status |-> "ok"]
      BY <2>1, <3>2, AccUpdate, Zenon
    <3>5. Len(t) + 1 # 0
      BY <2>3
    <3>6. QED
      BY <3>3, <3>4, <3>5 DEF AccOK, InPlace, next
  <2>7. QED
    BY <2>5, <2>6
<1>7. QED
  BY <1>3, <1>4, <1>5, <1>6

\* A round of the outer loop.
LEMMA EntryStep ==
    ASSUME SetFacts, NEW a, IsArchive(a), NEW i \in 1 .. Len(a), NEW acc, AccOK(acc, a, i, 0)
    PROVE  AccOK(AddEntry(acc, i, a[i]), a, i + 1, 0)
<1> DEFINE L == Len(a[i].path)
<1>1. L \in Nat /\ a[i].path \in Seq(STRING)
  BY DEF IsArchive, IsFile
<1>2. PICK f : Components(f, acc, i, a[i]) /\ AddEntry(acc, i, a[i]) = f[L]
  BY <1>1, AddEntryLoop
<1> DEFINE S == {n \in Nat : n <= L => AccOK(f[n], a, i, n) /\ InPlace(f[n], a, i, n)}
<1>3. 0 \in S
  <2>1. f[0] = [acc EXCEPT !.parent = ROOT]
    BY <1>2 DEF Components
  <2>2. f[0] = [table |-> acc.table, parent |-> ROOT, status |-> acc.status]
    BY <2>1 DEF AccOK
  <2>3. UpTo(a, i, 0) = <<>>
    BY <1>1 DEF UpTo
  <2>4. Walk(acc.table, UpTo(a, i, 0)) = ROOT
    BY <2>3, WalkStep
  <2>5. AccOK(f[0], a, i, 0)
    BY <2>2 DEF AccOK
  <2>6. InPlace(f[0], a, i, 0)
    BY <2>2, <2>4 DEF InPlace, ROOT
  <2>7. QED
    BY <2>5, <2>6
<1>4. ASSUME NEW n \in Nat, n \in S PROVE n + 1 \in S
  <2>1. SUFFICES ASSUME n + 1 <= L
                 PROVE  AccOK(f[n + 1], a, i, n + 1) /\ InPlace(f[n + 1], a, i, n + 1)
    OBVIOUS
  <2>2. n + 1 \in 1 .. L /\ (n + 1) - 1 = n /\ n <= L
    BY <1>1, <2>1
  <2>3. f[n + 1] = AddComponent(f[n], i, a[i], n + 1)
    BY <1>2, <2>2 DEF Components
  <2>4. AccOK(f[n], a, i, (n + 1) - 1) /\ InPlace(f[n], a, i, (n + 1) - 1)
    BY <1>4, <2>2
  <2>5. QED
    BY <2>2, <2>3, <2>4, ComponentStep
<1>5. \A n \in Nat : n \in S
  <2> HIDE DEF S
  <2> QED
    BY <1>3, <1>4, Induction
<1>6. AccOK(f[L], a, i, L)
  BY <1>1, <1>5
<1> DEFINE t == f[L].table
<1>7. Built(a, t, i, L) => Built(a, t, i + 1, 0)
  <2>1. SUFFICES ASSUME Built(a, t, i, L) PROVE Built(a, t, i + 1, 0)
    OBVIOUS
  <2> HIDE DEF S, t
  <2>2. ASSUME NEW p \in Seq(STRING), Reached(a, i + 1, 0, p) PROVE PathOK(a, t, i + 1, 0, p)
    <3>1. p # <<>>
      BY <2>2 DEF Reached
    <3>2. Reached(a, i, L, p) /\ NamedBy(a, i + 1, 0, p) = NamedBy(a, i, L, p)
      BY <2>2, <3>1, NextEntry
    <3>3. PathOK(a, t, i, L, p)
      BY <2>1, <3>2 DEF Built
    <3>4. QED
      BY <3>2, <3>3 DEF PathOK
  <2>3. ASSUME NEW n \in 2 .. Len(t)
        PROVE  \E p \in Seq(STRING) : Reached(a, i + 1, 0, p) /\ Walk(t, p) = n
    <3>1. PICK p \in Seq(STRING) : Reached(a, i, L, p) /\ Walk(t, p) = n
      BY <2>1 DEF Built
    <3>2. p # <<>>
      BY <3>1 DEF Reached
    <3>3. Reached(a, i + 1, 0, p)
      BY <3>1, <3>2, NextEntry
    <3>4. QED
      BY <3>1, <3>3
  <2>4. QED
    BY <2>1, <2>2, <2>3 DEF Built
<1>8. QED
  BY <1>2, <1>6, <1>7 DEF AccOK

\* The empty table, with its root, before the first entry.
LEMMA EmptyTable ==
    ASSUME NEW a, IsArchive(a)
    PROVE  AccOK([table |-> <<new_dir(0)>>, parent |-> ROOT, status |-> "ok"], a, 1, 0)
<1> DEFINE x == new_dir(0)
           t == <<x>>
<1>1. Len(t) = 1 /\ t = [n \in 1 .. 1 |-> t[n]] /\ t[1] = x
  OBVIOUS
<1>2. is_dir(x) /\ Names(x) = {} /\ IsInode(x)
  <2>1. x = [kind |-> "Directory", mode |-> 0, size |-> 0, entries |-> <<>>]
    BY DEF new_dir
  <2> HIDE DEF x
  <2>2. DOMAIN <<>> = {} /\ <<>> \in Seq({})
    OBVIOUS
  <2>3. is_dir(x) /\ Names(x) = {} /\ x.size \in Nat
    BY <2>1, <2>2 DEF is_dir, Names
  <2>4. IsFiniteSet({})
    BY <2>2, Zenon DEF IsFiniteSet
  <2>5. QED
    BY <2>1, <2>3, <2>4, Zenon DEF IsInode
<1> HIDE DEF x, t
<1>3. IsTable(t)
  BY <1>1, <1>2 DEF IsTable
<1>4. \A n \in 0 .. Len(t), y \in STRING : Entry(t, n, y) = 0
  BY <1>1, <1>2 DEF Entry
<1>5. Tree(t)
  BY <1>1, <1>2, <1>3, <1>4 DEF Tree, OneEntry, ROOT
<1>6. ASSUME NEW p, Reached(a, 1, 0, p) PROVE FALSE
  <2>1. PICK j \in Under(a, p) : Before(1, 0, j, p)
    BY <1>6 DEF Reached
  <2>2. j \in 1 .. Len(a) /\ Len(a) \in Nat
    BY DEF Under, IsArchive
  <2>3. Len(p) \in Nat /\ Len(p) # 0
    BY <1>6 DEF Reached
  <2>4. QED
    BY <2>1, <2>2, <2>3 DEF Before
<1>7. Built(a, t, 1, 0)
  <2>1. \A n \in 2 .. Len(t) : FALSE
    BY <1>1
  <2>2. QED
    BY <1>5, <1>6, <2>1, Zenon DEF Built
<1>8. QED
  BY <1>7 DEF AccOK, t, x

\* What from_zip makes of an archive.
LEMMA FromZip ==
    ASSUME SetFacts, NEW a, IsArchive(a)
    PROVE  AccOK(from_zip(a), a, Len(a) + 1, 0)
<1>1. Len(a) \in Nat
  BY DEF IsArchive
<1>2. PICK f : Entries(f, a) /\ from_zip(a) = f[Len(a)]
  BY <1>1, FromZipLoop
<1> DEFINE S == {n \in Nat : n <= Len(a) => AccOK(f[n], a, n + 1, 0)}
<1>3. 0 \in S
  BY <1>2, EmptyTable DEF Entries
<1>4. ASSUME NEW n \in Nat, n \in S PROVE n + 1 \in S
  <2>1. SUFFICES ASSUME n + 1 <= Len(a) PROVE AccOK(f[n + 1], a, (n + 1) + 1, 0)
    OBVIOUS
  <2>2. n + 1 \in 1 .. Len(a) /\ (n + 1) - 1 = n /\ n <= Len(a)
    BY <1>1, <2>1
  <2>3. f[n + 1] = AddEntry(f[n], n + 1, a[n + 1])
    BY <1>2, <2>2 DEF Entries
  <2>4. AccOK(f[n], a, n + 1, 0)
    BY <1>4, <2>2
  <2>5. QED
    BY <2>2, <2>3, <2>4, EntryStep
<1>5. \A n \in Nat : n \in S
  <2> HIDE DEF S
  <2> QED
    BY <1>3, <1>4, Induction
<1>6. QED
  BY <1>1, <1>2, <1>5

(***************************************************************************)
(* The mounted table.                                                      *)
(***************************************************************************)

\* At the end all paths of the archive were reached, and no other.
LEMMA AllReached ==
    ASSUME NEW a, IsArchive(a), NEW p \in Seq(STRING)
    PROVE  Reached(a, Len(a) + 1, 0, p) <=> p \in PathsOf(a)
<1>1. Len(a) \in Nat /\ DOMAIN a = 1 .. Len(a)
  BY DEF IsArchive
<1>2. ASSUME Reached(a, Len(a) + 1, 0, p) PROVE p \in PathsOf(a)
  <2>1. PICK j \in Under(a, p) : TRUE
    BY <1>2 DEF Reached
  <2>2. j \in DOMAIN a /\ a[j].path \in Seq(STRING)
    BY DEF Under, IsArchive, IsFile
  <2>3. Len(p) \in Nat /\ Len(p) # 0
    BY <1>2 DEF Reached
  <2>4. p = SubSeq(a[j].path, 1, Len(p)) /\ Len(p) <= Len(a[j].path)
    BY UpToOnly DEF UpTo
  <2>5. Len(p) \in 1 .. Len(a[j].path)
    BY <2>2, <2>3, <2>4
  <2>6. p \in {SubSeq(a[j].path, 1, k) : k \in 1 .. Len(a[j].path)}
    BY <2>4, <2>5, Zenon
  <2>7. QED
    BY <2>2, <2>6 DEF PathsOf
<1>3. ASSUME p \in PathsOf(a) PROVE Reached(a, Len(a) + 1, 0, p)
  <2>1. PICK i \in 1 .. Len(a) : p \in {SubSeq(a[i].path, 1, k) : k \in 1 .. Len(a[i].path)}
    BY <1>1, <1>3 DEF PathsOf
  <2>2. PICK k \in 1 .. Len(a[i].path) : p = UpTo(a, i, k)
    BY <2>1 DEF UpTo
  <2>3. p # <<>> /\ i \in Under(a, p)
    BY <2>2, UpToForm
  <2>4. Before(Len(a) + 1, 0, i, p)
    BY <1>1 DEF Before
  <2>5. QED
    BY <2>3, <2>4 DEF Reached
<1>4. QED
  BY <1>2, <1>3

\* The paths of an archive are paths.
LEMMA PathsType ==
    ASSUME NEW a, IsArchive(a), NEW p \in PathsOf(a)
    PROVE  p \in Seq(STRING)
<1>1. DOMAIN a = 1 .. Len(a)
  BY DEF IsArchive
<1>2. PICK i \in 1 .. Len(a) : p \in {SubSeq(a[i].path, 1, k) : k \in 1 .. Len(a[i].path)}
  BY <1>1 DEF PathsOf
<1>3. PICK k \in 1 .. Len(a[i].path) : p = UpTo(a, i, k)
  BY <1>2 DEF UpTo
<1>4. QED
  BY <1>3, UpToForm

\* At the end, every entry that names a path has been seen.
LEMMA AllNamed ==
    ASSUME NEW a, IsArchive(a), NEW p
    PROVE  NamedBy(a, Len(a) + 1, 0, p) = {i \in Naming(a, p) : ~a[i].is_file}
<1>1. \A j \in Naming(a, p) : Before(Len(a) + 1, 0, j, p)
  BY DEF Naming, IsArchive, Before
<1>2. QED
  BY <1>1 DEF NamedBy

\* A set of entries has a last one.
LEMMA LastExists ==
    ASSUME SetFacts, NEW n \in Nat, NEW S, S \subseteq 1 .. n, S # {}
    PROVE  LastOf(S) \in S /\ \A j \in S : j <= LastOf(S)
<1> DEFINE T == {m \in Nat : m <= n => \/ \A j \in S : j <= n - m
                                      \/ \E i \in S : \A j \in S : j <= i}
<1>1. 0 \in T
  OBVIOUS
<1>2. ASSUME NEW m \in Nat, m \in T PROVE m + 1 \in T
  <2>1. SUFFICES ASSUME m + 1 <= n, \A j \in S : j <= n - m
                 PROVE  \/ \A j \in S : j <= n - (m + 1)
                        \/ \E i \in S : \A j \in S : j <= i
    BY <1>2
  <2>2. CASE n - m \in S
    BY <2>1, <2>2
  <2>3. CASE n - m \notin S
    <3>1. ASSUME NEW j \in S PROVE j <= n - (m + 1)
      <4>1. j \in Nat /\ j <= n - m /\ j # n - m
        BY <2>1, <2>3
      <4>2. QED
        BY <4>1
    <3>2. QED
      BY <3>1
  <2>4. QED
    BY <2>2, <2>3
<1>3. \A m \in Nat : m \in T
  <2> HIDE DEF T
  <2> QED
    BY <1>1, <1>2, Induction
<1>4. \E i \in S : \A j \in S : j <= i
  <2>1. n \in T
    BY <1>3
  <2>2. ASSUME \A j \in S : j <= n - n PROVE FALSE
    <3>1. PICK j \in S : TRUE
      BY Zenon
    <3>2. j \in 1 .. n /\ j <= n - n
      BY <2>2
    <3>3. QED
      BY <3>2
  <2>3. QED
    BY <2>1, <2>2
<1>5. QED
  BY <1>4, Zenon DEF LastOf

Mounted ==
    /\ archive \in Archives
    /\ mounted = NotMounted \/ mounted = from_zip(archive)

\* The archives of the model are archives.
LEMMA ArchiveType ==
    ASSUME archive \in Archives
    PROVE  IsArchive(archive)
<1> DEFINE F == [path : Seq(STRING), is_file : BOOLEAN, size : Nat, mode : {NO_MODE} \cup Nat]
<1>1. archive \in Seq(F)
  BY ZipAssumption, Zenon
<1>2. \A f \in F : IsFile(f)
  BY DEF IsFile
<1> HIDE DEF F
<1>3. Len(archive) \in Nat /\ DOMAIN archive = 1 .. Len(archive)
  BY <1>1
<1>4. \A i \in 1 .. Len(archive) : archive[i] \in F
  BY <1>1
<1>5. QED
  BY <1>2, <1>3, <1>4 DEF IsArchive

\* Requests leave the mounted table alone.
LEMMA MountedOnce ==
    ASSUME [Next]_vars
    PROVE  archive' = archive /\ (mounted' = mounted \/ mounted' = from_zip(archive))
<1>1. CASE UNCHANGED vars
  BY <1>1 DEF vars
<1>2. CASE New
  BY <1>2 DEF New
<1>3. ASSUME NEW h, NEW inode, Open(h, inode) PROVE UNCHANGED <<archive, mounted>>
  BY <1>3 DEF Open
<1>4. ASSUME NEW h, Release(h) PROVE UNCHANGED <<archive, mounted>>
  BY <1>4 DEF Release
<1>5. ASSUME NEW h, NEW asked, Read(h, asked) PROVE UNCHANGED <<archive, mounted>>
  BY <1>5, Zenon DEF Read
<1>6. ASSUME NEW h, NEW asked, ReadDir(h, asked) PROVE UNCHANGED <<archive, mounted>>
  BY <1>6, Zenon DEF ReadDir
<1>7. QED
  BY <1>1, <1>2, <1>3, <1>4, <1>5, <1>6 DEF Next

\* What is mounted is what from_zip returned.
LEMMA MountedInv == Spec => []Mounted
<1>1. Init => Mounted
  BY DEF Init, Mounted
<1>2. Mounted /\ [Next]_vars => Mounted'
  BY MountedOnce DEF Mounted
<1>3. QED
  BY <1>1, <1>2, PTL DEF Spec

\* A mounted archive has its table.
LEMMA MountedTable ==
    ASSUME SetFacts, Mounted, mounted.status = "ok"
    PROVE  Built(archive, table, Len(archive) + 1, 0)
<1>1. IsArchive(archive) /\ mounted = from_zip(archive)
  BY ArchiveType DEF Mounted, NotMounted
<1>2. QED
  BY <1>1, FromZip DEF AccOK, table

\* The mounted table is right for every path of the archive.
LEMMA MountedPaths ==
    ASSUME SetFacts, Mounted, mounted.status = "ok", NEW p \in PathsOf(archive)
    PROVE  PathOK(archive, table, Len(archive) + 1, 0, p)
<1>1. IsArchive(archive)
  BY ArchiveType DEF Mounted
<1>2. p \in Seq(STRING)
  BY <1>1, PathsType
<1>3. QED
  BY <1>1, <1>2, AllReached, MountedTable DEF Built

\* What from_zip returned resolves the paths of its archive,
LEMMA MountedResolve ==
    ASSUME SetFacts
    PROVE  Mounted => PathsResolve
<1>1. SUFFICES ASSUME Mounted, mounted.status = "ok", NEW p \in PathsOf(archive)
               PROVE  LET inode == Walk(table, p)
                          first == FirstOf(Under(archive, p))
                      IN  /\ inode # 0
                          /\ is_dir(table[inode]) <=>
                                ~(archive[first].is_file /\ archive[first].path = p)
                          /\ ~is_dir(table[inode]) => table[inode].zip_index = first
  BY DEF PathsResolve
<1>2. PathOK(archive, table, Len(archive) + 1, 0, p)
  BY <1>1, MountedPaths
<1>3. QED
  BY <1>2 DEF PathOK, KindOK

\* gives directories the modes of the last entries,
LEMMA MountedModes ==
    ASSUME SetFacts
    PROVE  Mounted => DirectoryModes
<1>1. SUFFICES ASSUME Mounted, mounted.status = "ok", NEW p \in PathsOf(archive)
               PROVE  LET inode == Walk(table, p)
                          naming == {i \in Naming(archive, p) : ~archive[i].is_file}
                      IN  inode # 0 /\ is_dir(table[inode]) =>
                             IF naming = {} THEN table[inode].mode = DEFAULT_DIR_MODE
                             ELSE archive[LastOf(naming)].mode # NO_MODE =>
                                     table[inode].mode = archive[LastOf(naming)].mode
  BY Zenon DEF DirectoryModes
<1> DEFINE inode == Walk(table, p)
           naming == {i \in Naming(archive, p) : ~archive[i].is_file}
<1>2. IsArchive(archive)
  BY <1>1, ArchiveType DEF Mounted
<1>3. naming \subseteq 1 .. Len(archive) /\ Len(archive) \in Nat
  BY <1>2 DEF Naming, IsArchive
<1>4. ModeOK(archive, table[inode], naming)
  BY <1>1, <1>2, MountedPaths, AllNamed, Zenon DEF PathOK
<1> HIDE DEF naming
<1>5. naming # {} => LastOf(naming) \in naming /\ \A j \in naming : j <= LastOf(naming)
  BY <1>3, LastExists, Zenon
<1>6. QED
  BY <1>4, <1>5 DEF ModeOK, naming

\* and is a tree.
LEMMA MountedTree ==
    ASSUME SetFacts
    PROVE  Mounted => InodesFormTree
<1>1. ASSUME Mounted, mounted.status = "ok"
      PROVE  LET links == LinksOf(table)
             IN  /\ {l[3] : l \in links} = DOMAIN table \ {ROOT}
                 /\ \A l, m \in links : l[3] = m[3] => l = m
                 /\ \A inode \in DOMAIN table \ {ROOT} :
                       \E path \in PathsOf(archive) : Walk(table, path) = inode
  <2> DEFINE a == archive
             t == table
             L == Len(t)
             links == LinksOf(t)
  <2>1. Built(a, t, Len(a) + 1, 0) /\ IsArchive(a)
    BY <1>1, MountedTable, ArchiveType DEF Mounted
  <2>2. Tree(t) /\ IsTable(t) /\ L \in Nat \ {0} /\ DOMAIN t = 1 .. L
    BY <2>1 DEF Built, Tree, IsTable
  <2> HIDE DEF a, t
  <2>3. ASSUME NEW l \in links
        PROVE  \E d \in 1 .. L, n \in STRING :
                  l = <<d, n, Entry(t, d, n)>> /\ Entry(t, d, n) \in 2 .. L
    <3>1. PICK d \in 1 .. L : is_dir(t[d]) /\ l \in {<<d, n, t[d].entries[n]>> : n \in Names(t[d])}
      BY <2>2 DEF LinksOf
    <3>2. PICK n \in Names(t[d]) : l = <<d, n, t[d].entries[n]>>
      BY <3>1
    <3>3. IsInode(t[d]) /\ d # 0 /\ d \in 0 .. L
      BY <2>2 DEF IsTable
    <3>4. n \in STRING /\ t[d].entries[n] # 0 /\ Entry(t, d, n) = t[d].entries[n]
      BY <3>1, <3>3 DEF IsInode, Entry
    <3>5. Entry(t, d, n) \in {0} \cup 2 .. L
      BY <2>2, <3>3, <3>4, TreeEntry
    <3>6. QED
      BY <3>2, <3>4, <3>5
  <2>4. ASSUME NEW n \in DOMAIN t \ {ROOT}
        PROVE  \E p \in PathsOf(a) : Walk(t, p) = n
    <3>1. n \in 2 .. L
      BY <2>2 DEF ROOT
    <3>2. PICK p \in Seq(STRING) : Reached(a, Len(a) + 1, 0, p) /\ Walk(t, p) = n
      BY <2>1, <3>1 DEF Built
    <3>3. QED
      BY <2>1, <3>2, AllReached
  <2>5. ASSUME NEW n \in DOMAIN t \ {ROOT} PROVE \E l \in links : l[3] = n
    <3>1. PICK p \in Seq(STRING) : p # <<>> /\ Walk(t, p) = n
      <4>1. n \in 2 .. L
        BY <2>2 DEF ROOT
      <4>2. QED
        BY <2>1, <4>1 DEF Built, Reached
    <3>2. PICK q \in Seq(STRING), x \in STRING : p = Append(q, x)
      BY <3>1, PathForm, Zenon
    <3> DEFINE d == Walk(t, q)
    <3>3. Entry(t, d, x) = n
      BY <3>1, <3>2, WalkAppend, Zenon
    <3>4. d \in 0 .. L /\ n # 0
      <4>1. d \in 0 .. L
        BY <2>2, WalkRange, Zenon
      <4>2. n # 0
        BY <2>2
      <4>3. QED
        BY <4>1, <4>2
    <3> HIDE DEF d
    <3>5. d # 0 /\ is_dir(t[d]) /\ x \in Names(t[d]) /\ t[d].entries[x] = n
      BY <3>3, <3>4 DEF Entry
    <3>6. d \in DOMAIN t
      BY <2>2, <3>4, <3>5
    <3>7. <<d, x, n>> \in links
      BY <3>5, <3>6 DEF LinksOf
    <3>8. QED
      BY <3>7
  <2>6. ASSUME NEW l \in links PROVE l[3] \in DOMAIN t \ {ROOT}
    <3>1. PICK d \in 1 .. L, n \in STRING :
             l = <<d, n, Entry(t, d, n)>> /\ Entry(t, d, n) \in 2 .. L
      BY <2>3, Zenon
    <3>2. l[3] = Entry(t, d, n)
      BY <3>1
    <3>3. \A e \in 2 .. L : e \in 1 .. L /\ e # ROOT
      BY <2>2 DEF ROOT
    <3>4. QED
      BY <2>2, <3>1, <3>2, <3>3, Zenon
  <2>7. ASSUME NEW l \in links, NEW m \in links, l[3] = m[3] PROVE l = m
    <3>1. PICK d \in 1 .. L, n \in STRING :
             l = <<d, n, Entry(t, d, n)>> /\ Entry(t, d, n) \in 2 .. L
      BY <2>3, Zenon
    <3>2. PICK e \in 1 .. L, y \in STRING :
             m = <<e, y, Entry(t, e, y)>> /\ Entry(t, e, y) \in 2 .. L
      BY <2>3, Zenon
    <3>3. d \in 0 .. L /\ e \in 0 .. L /\ Entry(t, d, n) # 0 /\ Entry(t, d, n) = Entry(t, e, y)
      <4>1. l[3] = Entry(t, d, n) /\ m[3] = Entry(t, e, y)
        BY <3>1, <3>2
      <4>2. (\A c \in 1 .. L : c \in 0 .. L) /\ \A c \in 2 .. L : c # 0
        BY <2>2
      <4>3. QED
        BY <2>7, <3>1, <3>2, <4>1, <4>2, Zenon
    <3>4. OneEntry(t, d, e, n, y)
      BY <2>2, <3>3, TreeUnique, Zenon
    <3>5. QED
      BY <3>1, <3>2, <3>3, <3>4 DEF OneEntry
  <2> HIDE DEF links
  <2>8. {l[3] : l \in links} = DOMAIN t \ {ROOT}
    BY <2>5, <2>6
  <2>9. QED
    BY <2>4, <2>7, <2>8 DEF a, t, links
<1>2. Mounted => InodesFormTree
  BY <1>1 DEF InodesFormTree
<1>3. QED
  BY <1>2

(***************************************************************************)
(* Handles, open counts and what was read.                                 *)
(***************************************************************************)

\* Nothing is open before the archive is mounted, or when it could not be.
Idle == mounted.status # "ok" => open_bufs = <<>> /\ \A h \in Handles : handle[h] = Closed

TypeInv == IInv /\ Mounted /\ Idle /\ TypeOK

\* What from_zip says of an archive.
LEMMA MountedStatus ==
    ASSUME SetFacts, Mounted
    PROVE  mounted.status \in {"loading", "ok", "error", "panic"}
<1>1. CASE mounted = NotMounted
  BY <1>1 DEF NotMounted
<1>2. CASE mounted = from_zip(archive)
  BY <1>2, ArchiveType, FromZip DEF Mounted, AccOK
<1>3. QED
  BY <1>1, <1>2 DEF Mounted

\* The first state is well typed.
LEMMA InitTypes == Init => TypeInv
<1> SUFFICES ASSUME Init PROVE TypeInv
  OBVIOUS
<1>1. open_bufs = <<>> /\ \A h \in Handles : handle[h] = Closed
  BY DEF Init
<1>2. mounted.status = "loading"
  BY DEF Init, NotMounted
<1>3. Mounted /\ Idle
  BY <1>1 DEF Init, Mounted, Idle
<1>4. TypeOK
  <2>1. DOMAIN open_bufs = {}
    BY <1>1
  <2>2. \A h \in Handles : handle[h].inode = 0
    BY <1>1 DEF Closed
  <2>3. QED
    BY <1>2, <2>1, <2>2 DEF TypeOK
<1>5. QED
  BY <1>3, <1>4, InitInv DEF TypeInv

\* Every step keeps the types.
LEMMA NextTypes ==
    ASSUME SetFacts
    PROVE  TypeInv /\ [Next]_vars => TypeInv'
<1> SUFFICES ASSUME TypeInv, [Next]_vars PROVE TypeInv'
  OBVIOUS
<1>1. IInv' /\ Mounted'
  BY NextInv, MountedOnce DEF TypeInv, Mounted
<1>2. mounted'.status \in {"loading", "ok", "error", "panic"}
  <2>1. \/ mounted' = NotMounted
        \/ mounted' = from_zip(archive')
    BY <1>1 DEF Mounted
  <2>2. archive' \in Archives /\ archive' = archive
    BY <1>1, MountedOnce DEF Mounted
  <2>3. IsArchive(archive)
    BY <2>2, ArchiveType
  <2>4. QED
    BY <2>1, <2>2, <2>3, FromZip DEF NotMounted, AccOK
<1>3. CASE UNCHANGED vars
  BY <1>1, <1>3 DEF TypeInv, Idle, TypeOK, table, vars
<1>4. CASE New
  <2>1. open_bufs' = <<>> /\ \A h \in Handles : handle'[h] = Closed
    BY <1>4 DEF New, TypeInv, Idle
  <2>2. DOMAIN open_bufs' = {} /\ \A h \in Handles : handle'[h].inode = 0
    BY <2>1 DEF Closed
  <2>3. QED
    BY <1>1, <1>2, <2>1, <2>2 DEF TypeInv, Idle, TypeOK
<1>5. ASSUME NEW h \in Handles, NEW inode \in DOMAIN table, Open(h, inode) PROVE TypeInv'
  <2>1. mounted' = mounted /\ table' = table /\ mounted.status = "ok"
    BY <1>5 DEF Open, table
  <2>2. DOMAIN open_bufs' = DOMAIN open_bufs \cup {inode}
    BY <1>5, Zenon DEF Open
  <2>3. ASSUME NEW n \in DOMAIN open_bufs' PROVE open_bufs'[n] \in 1 .. MaxOpenCount
    <3>1. CASE inode \in DOMAIN open_bufs
      <4>1. /\ open_bufs[inode] \in 1 .. MaxOpenCount - 1
            /\ open_bufs' = [open_bufs EXCEPT ![inode] = open_bufs[inode] + 1]
        BY <1>5, <3>1 DEF Open
      <4>2. open_bufs[inode] + 1 \in 1 .. MaxOpenCount
        BY <4>1, ZipAssumption
      <4>3. QED
        BY <3>1, <4>1, <4>2 DEF TypeInv, TypeOK
    <3>2. CASE inode \notin DOMAIN open_bufs
      <4>1. open_bufs' = [m \in DOMAIN open_bufs \cup {inode} |->
                             IF m = inode THEN 1 ELSE open_bufs[m]]
        BY <1>5, <3>2 DEF Open
      <4>2. 1 \in 1 .. MaxOpenCount
        BY ZipAssumption
      <4>3. QED
        BY <2>2, <4>1, <4>2 DEF TypeInv, TypeOK
    <3>3. QED
      BY <3>1, <3>2
  <2>4. ASSUME NEW g \in Handles PROVE handle'[g].inode \in DOMAIN table \cup {0}
    <3>1. handle'[h] = [Closed EXCEPT !.inode = inode]
      BY <1>5 DEF Open, TypeInv, IInv, HandleType
    <3>2. handle'[h].inode = inode
      BY <3>1 DEF Closed
    <3>3. g # h => handle'[g] = handle[g]
      BY <1>5 DEF Open, TypeInv, IInv, HandleType
    <3>4. QED
      BY <3>2, <3>3 DEF TypeInv, TypeOK
  <2>5. TypeOK'
    BY <1>2, <2>1, <2>2, <2>3, <2>4 DEF TypeInv, TypeOK
  <2>6. QED
    BY <1>1, <2>1, <2>5 DEF TypeInv, Idle
<1>6. ASSUME NEW h \in Handles, Release(h) PROVE TypeInv'
  <2>1. mounted' = mounted /\ table' = table /\ mounted.status = "ok"
    BY <1>6 DEF Release, table, TypeInv, Idle
  <2>2. \/ open_bufs' = open_bufs
        \/ /\ DOMAIN open_bufs' \subseteq DOMAIN open_bufs
           /\ \A n \in DOMAIN open_bufs' : open_bufs'[n] = open_bufs[n]
    BY <1>6 DEF Release, release, Without
  <2>3. ASSUME NEW g \in Handles PROVE handle'[g].inode \in DOMAIN table \cup {0}
    <3>1. handle'[h] = Closed /\ (g # h => handle'[g] = handle[g])
      BY <1>6 DEF Release, TypeInv, IInv, HandleType
    <3>2. Closed.inode = 0
      BY DEF Closed
    <3>3. QED
      BY <3>1, <3>2 DEF TypeInv, TypeOK
  <2>4. TypeOK'
    BY <1>2, <2>1, <2>2, <2>3 DEF TypeInv, TypeOK
  <2>5. QED
    BY <1>1, <2>1, <2>4 DEF TypeInv, Idle
<1>7. ASSUME NEW h \in Handles, NEW asked, Read(h, asked) \/ ReadDir(h, asked) PROVE TypeInv'
  <2>1. IsOpen(h) /\ open_bufs' = open_bufs /\ mounted' = mounted /\ table' = table
    BY <1>7, Reading DEF TypeInv, table
  <2>2. PICK got, eof : handle' = Replied(h, got, eof)
    BY <1>7, Reading DEF TypeInv
  <2>3. ASSUME NEW g \in Handles PROVE handle'[g].inode = handle[g].inode
    BY <2>2 DEF Replied, TypeInv, IInv, HandleType
  <2>4. TypeOK'
    BY <1>2, <2>1, <2>3 DEF TypeInv, TypeOK
  <2>5. mounted.status = "ok"
    BY <2>1 DEF TypeInv, Idle, IsOpen
  <2>6. QED
    BY <1>1, <2>1, <2>4, <2>5 DEF TypeInv, Idle
<1>8. QED
  BY <1>3, <1>4, <1>5, <1>6, <1>7 DEF Next

-----------------------------------------------------------------------------
\* all is a sequence of n items.
Listed(all, n) == n \in Nat /\ all = [k \in 1 .. n |-> all[k]]

\* The handle x has been given the first m of all, each name of a directory with
\* the offset behind it.
Given(all, dir, x, m) ==
    /\ m \in 0 .. Len(all)
    /\ x.got = [k \in 1 .. m |-> IF dir THEN <<all[k], k>> ELSE all[k]]
    /\ x.eof => m = Len(all)

Whole(h, m) ==
    Given(Contents(handle[h].inode), is_dir(table[handle[h].inode]), handle[h], m)

PiecesInv == \A h \in Handles : IsOpen(h) => \E m : Whole(h, m)

\* The length of a sequence that is given by its items.
LEMMA ListedLen ==
    ASSUME NEW s, NEW n, Listed(s, n)
    PROVE  Len(s) = n /\ \A S : (\A k \in 1 .. n : s[k] \in S) => s \in Seq(S)
BY DEF Listed

\* Two pieces of g, the one after the other.
LEMMA Pieces ==
    ASSUME NEW g, NEW m \in Nat, NEW n \in Nat, NEW a, NEW b,
           a = [k \in 1 .. m |-> g[k]], b = [k \in 1 .. n |-> g[m + k]]
    PROVE  a \o b = [k \in 1 .. m + n |-> g[k]]
<1> DEFINE S == {g[k] : k \in 1 .. m} \cup {g[m + k] : k \in 1 .. n}
<1>1. (\A k \in 1 .. m : a[k] \in S) /\ \A k \in 1 .. n : b[k] \in S
  BY Zenon
<1> HIDE DEF S
<1>2. Listed(a, m) /\ Listed(b, n)
  BY DEF Listed
<1>3. a \in Seq(S) /\ b \in Seq(S) /\ Len(a) = m /\ Len(b) = n
  BY <1>1, <1>2, ListedLen
<1>4. /\ a \o b \in Seq(S) /\ Len(a \o b) = m + n
      /\ \A k \in 1 .. m : (a \o b)[k] = a[k]
  BY <1>3
<1>5. ASSUME NEW k \in 1 .. m + n PROVE (a \o b)[k] = g[k]
  <2>1. CASE k <= m
    BY <1>4, <2>1
  <2>2. CASE ~(k <= m)
    <3>1. k - m \in 1 .. n /\ m + (k - m) = k
      BY <2>2
    <3>2. (a \o b)[k] = b[k - m]
      BY <1>3, <2>2
    <3>3. QED
      BY <3>1, <3>2
  <2>3. QED
    BY <2>1, <2>2
<1>6. a \o b = [k \in 1 .. m + n |-> (a \o b)[k]]
  BY <1>4
<1>7. QED
  BY <1>5, <1>6

\* A part of a sequence from the beginning or from the middle.
LEMMA Part ==
    ASSUME NEW s, NEW l, Listed(s, l), NEW m \in 0 .. l, NEW e \in m .. l
    PROVE  SubSeq(s, m + 1, e) = [k \in 1 .. e - m |-> s[m + k]]
<1> DEFINE S == {s[k] : k \in 1 .. l}
<1>1. \A k \in 1 .. l : s[k] \in S
  OBVIOUS
<1> HIDE DEF S
<1>2. s \in Seq(S) /\ Len(s) = l /\ l \in Nat
  BY <1>1, ListedLen DEF Listed
<1> DEFINE p == SubSeq(s, m + 1, e)
<1>3. p \in Seq(S) /\ Len(p) = e - m /\ e - m \in Nat
  BY <1>2
<1>4. ASSUME NEW k \in 1 .. e - m PROVE p[k] = s[m + k]
  <2>1. (m + 1) + k - 1 = m + k
    BY <1>2
  <2>2. QED
    BY <1>2, <1>3, <2>1
<1>5. p = [k \in 1 .. e - m |-> p[k]]
  BY <1>3
<1>6. QED
  BY <1>4, <1>5

\* What a buffer of the mounted archive holds.
LEMMA ContentsForm ==
    ASSUME SetFacts, Mounted, mounted.status = "ok", NEW n \in DOMAIN table
    PROVE  /\ Listed(Contents(n), Len(Contents(n)))
           /\ ~is_dir(table[n]) => Len(Contents(n)) = table[n].size
<1>1. IsTable(table)
  BY MountedTable DEF Built, Tree
<1>2. IsInode(table[n])
  BY <1>1 DEF IsTable
<1>3. CASE ~is_dir(table[n])
  <2>1. Contents(n) = [p \in 1 .. table[n].size |-> <<table[n].zip_index, p>>]
    BY <1>3 DEF Contents
  <2>2. table[n].size \in Nat
    BY <1>2 DEF IsInode
  <2>3. Listed(Contents(n), table[n].size)
    BY <2>1, <2>2 DEF Listed
  <2>4. QED
    BY <2>3, ListedLen
<1>4. CASE is_dir(table[n])
  <2> DEFINE S == Names(table[n])
             c == Cardinality(S)
  <2>1. IsFiniteSet(S)
    BY <1>2, <1>4 DEF IsInode
  <2>2. c \in Nat
    BY <2>1, FiniteListing
  <2>3. \E s \in [1 .. c -> S] : Range(s) = S
    <3>1. PICK s \in [1 .. c -> S] : \A x \in S : \E k \in 1 .. c : s[k] = x
      BY <2>1, FiniteListing
    <3>2. Range(s) = S
      BY <3>1 DEF Range
    <3>3. QED
      BY <3>2
  <2>4. Listing(S) \in [1 .. c -> S]
    BY <2>3 DEF Listing
  <2> HIDE DEF c, S
  <2>5. Listed(Listing(S), c)
    BY <2>2, <2>4 DEF Listed
  <2>6. Contents(n) = Listing(S)
    BY <1>4 DEF Contents, S
  <2>7. QED
    BY <1>4, <2>5, <2>6, ListedLen
<1>5. QED
  BY <1>3, <1>4

-----------------------------------------------------------------------------
\* read gives the next piece of a file.
LEMMA ReadPiece ==
    ASSUME NEW all, NEW l, Listed(all, l), NEW x, NEW m, Given(all, FALSE, x, m), m < l,
           NEW asked \in Nat \ {0}, NEW y,
           y.got = x.got \o SubSeq(all, m + 1, slice_end(m, asked, l)),
           y.eof = (slice_end(m, asked, l) = l)
    PROVE  Given(all, FALSE, y, slice_end(m, asked, l))
<1> DEFINE e == slice_end(m, asked, l)
<1>1. Len(all) = l /\ l \in Nat /\ m \in 0 .. l
  BY ListedLen DEF Listed, Given
<1>2. e \in m .. l /\ e \in 0 .. l /\ e - m \in Nat /\ m + (e - m) = e
  BY <1>1 DEF slice_end
<1> HIDE DEF e
<1>3. x.got = [k \in 1 .. m |-> all[k]]
  BY DEF Given
<1>4. SubSeq(all, m + 1, e) = [k \in 1 .. e - m |-> all[m + k]]
  BY <1>1, <1>2, Part
<1> DEFINE a == x.got
           b == SubSeq(all, m + 1, e)
<1> HIDE DEF a, b
<1>5. a \o b = [k \in 1 .. m + (e - m) |-> all[k]]
  <2>1. a = [k \in 1 .. m |-> all[k]] /\ b = [k \in 1 .. e - m |-> all[m + k]] /\ m \in Nat
    BY <1>1, <1>3, <1>4 DEF a, b
  <2>2. QED
    BY <1>2, <2>1, Pieces
<1>6. y.got = [k \in 1 .. e |-> all[k]]
  BY <1>2, <1>5, Zenon DEF a, b, e
<1>7. QED
  BY <1>1, <1>2, <1>6, Zenon DEF Given, e

\* readdir gives the next names of a directory.
LEMMA ReadDirPiece ==
    ASSUME NEW all, NEW l, Listed(all, l), NEW x, NEW m, Given(all, TRUE, x, m),
           NEW asked \in Nat \ {0}
    PROVE  LET e == slice_end(m, asked, l)
               reply == [cur \in 1 .. e - m |-> <<all[m + cur], NextOffset(m, cur)>>]
           IN  /\ reply = <<>> => m = l
               /\ \A n \in DOMAIN reply : \A y :
                     /\ y.got = x.got \o SubSeq(reply, 1, n)
                     /\ y.eof = x.eof
                     => Given(all, TRUE, y, m + n)
<1> DEFINE e == slice_end(m, asked, l)
           reply == [cur \in 1 .. e - m |-> <<all[m + cur], NextOffset(m, cur)>>]
           g == [k \in 1 .. l |-> <<all[k], k>>]
<1>1. Len(all) = l /\ l \in Nat /\ m \in 0 .. l
  BY ListedLen DEF Listed, Given
<1>2. e \in m .. l /\ e - m \in Nat /\ m + (e - m) = e /\ (e = m => m = l)
  BY <1>1 DEF slice_end
<1> HIDE DEF e
<1>3. DOMAIN reply = 1 .. e - m /\ \A cur \in 1 .. e - m : reply[cur] = g[m + cur]
  <2>1. DOMAIN reply = 1 .. e - m
    OBVIOUS
  <2>2. ASSUME NEW cur \in 1 .. e - m PROVE reply[cur] = g[m + cur]
    <3>1. m + cur \in 1 .. l
      BY <1>1, <1>2
    <3>2. g[m + cur] = <<all[m + cur], m + cur>>
      BY <3>1
    <3>3. reply[cur] = <<all[m + cur], m + cur>>
      BY DEF NextOffset
    <3>4. QED
      BY <3>2, <3>3
  <2>3. QED
    BY <2>1, <2>2, Zenon
<1>4. x.got = [k \in 1 .. m |-> g[k]]
  <2>1. x.got = [k \in 1 .. m |-> <<all[k], k>>]
    BY DEF Given
  <2>2. \A k \in 1 .. m : g[k] = <<all[k], k>>
    BY <1>1
  <2>3. QED
    BY <2>1, <2>2
<1>5. Listed(reply, e - m)
  BY <1>2, Zenon DEF Listed
<1> HIDE DEF reply, g
<1>6. ASSUME reply = <<>> PROVE m = l
  <2>1. Len(reply) = 0
    BY <1>6
  <2>2. Len(reply) = e - m
    BY <1>5, ListedLen
  <2>3. QED
    BY <1>1, <1>2, <2>1, <2>2
<1>7. ASSUME NEW n \in DOMAIN reply, NEW y, y.got = x.got \o SubSeq(reply, 1, n), y.eof = x.eof
      PROVE  Given(all, TRUE, y, m + n)
  <2>1. n \in 1 .. e - m /\ n \in Nat /\ m + n \in 0 .. l /\ m # l
    BY <1>1, <1>2, <1>3
  <2>2. SubSeq(reply, 1, n) = [k \in 1 .. n |-> g[m + k]]
    <3>1. 0 \in 0 .. e - m /\ n \in 0 .. e - m /\ 0 + 1 = 1 /\ n - 0 = n
      BY <1>2, <2>1
    <3>2. SubSeq(reply, 1, n) = [k \in 1 .. n |-> reply[0 + k]]
      BY <1>5, <3>1, Part
    <3>3. \A k \in 1 .. n : 0 + k = k /\ k \in 1 .. e - m
      BY <1>2, <2>1
    <3>4. QED
      BY <1>3, <3>2, <3>3
  <2>3. y.got = [k \in 1 .. m + n |-> g[k]]
    <3> DEFINE a == x.got
               b == SubSeq(reply, 1, n)
    <3> HIDE DEF a, b
    <3>1. a = [k \in 1 .. m |-> g[k]] /\ b = [k \in 1 .. n |-> g[m + k]] /\ m \in Nat
      BY <1>1, <1>4, <2>2 DEF a, b
    <3>2. a \o b = [k \in 1 .. m + n |-> g[k]]
      BY <2>1, <3>1, Pieces
    <3>3. QED
      BY <1>7, <3>2, Zenon DEF a, b
  <2>4. \A k \in 1 .. m + n : g[k] = <<all[k], k>>
    BY <1>1, <2>1 DEF g
  <2>5. y.got = [k \in 1 .. m + n |-> <<all[k], k>>]
    BY <2>3, <2>4
  <2>6. ~x.eof
    BY <1>1, <2>1 DEF Given
  <2>7. QED
    BY <1>1, <1>7, <2>1, <2>5, <2>6, Zenon DEF Given
<1>8. QED
  BY <1>6, <1>7, Zenon DEF reply, e

-----------------------------------------------------------------------------
\* A handle that no reply is for keeps what it was given.
LEMMA WholeKept ==
    ASSUME NEW h, NEW m, mounted' = mounted, handle'[h] = handle[h], Whole(h, m)
    PROVE  Whole(h, m)'
BY DEF Whole, Contents, table

\* A handle that is opened was given nothing so far.
LEMMA OpenPieces ==
    ASSUME SetFacts, TypeInv, PiecesInv, NEW h \in Handles, NEW inode \in DOMAIN table, Open(h, inode)
    PROVE  PiecesInv'
<1>1. mounted' = mounted /\ mounted.status = "ok" /\ Mounted
  BY DEF Open, TypeInv
<1>2. handle'[h] = [Closed EXCEPT !.inode = inode]
  BY DEF Open, TypeInv, IInv, HandleType
<1>3. handle'[h] = [inode |-> inode, got |-> <<>>, eof |-> FALSE]
  BY <1>2, Zenon DEF Closed
<1>4. \A g \in Handles \ {h} : handle'[g] = handle[g]
  BY DEF Open, TypeInv, IInv, HandleType
<1>5. Whole(h, 0)'
  <2> DEFINE all == Contents(inode)
             dir == is_dir(table[inode])
  <2>1. Len(all) \in Nat
    BY <1>1, ContentsForm DEF Listed
  <2>2. all' = all /\ (dir' <=> dir)
    BY <1>1 DEF Contents, table
  <2> HIDE DEF all, dir
  <2>3. Given(all, dir, handle'[h], 0)
    <3>1. 0 \in 0 .. Len(all)
      BY <2>1
    <3>2. <<>> = [k \in 1 .. 0 |-> IF dir THEN <<all[k], k>> ELSE all[k]]
      OBVIOUS
    <3>3. handle'[h].got = <<>> /\ ~handle'[h].eof
      BY <1>3
    <3>4. QED
      BY <3>1, <3>2, <3>3 DEF Given
  <2>4. handle'[h].inode = inode
    BY <1>3
  <2>5. table' = table /\ Contents(inode)' = Contents(inode)
    BY <1>1 DEF table, Contents
  <2>6. Given(Contents(inode)', is_dir(table'[inode]), handle'[h], 0)
    BY <2>3, <2>5, Zenon DEF all, dir
  <2>7. QED
    BY <1>1, <2>4, <2>6 DEF Whole, Contents, table
<1>6. ASSUME NEW g \in Handles, IsOpen(g)' PROVE \E m : Whole(g, m)'
  <2>1. CASE g = h
    BY <1>5, <2>1
  <2>2. CASE g # h
    <3>1. IsOpen(g) /\ handle'[g] = handle[g]
      BY <1>4, <1>6, <2>2 DEF IsOpen
    <3>2. PICK m : Whole(g, m)
      BY <3>1 DEF PiecesInv
    <3>3. Whole(g, m)'
      BY <1>1, <3>1, <3>2, WholeKept
    <3>4. QED
      BY <3>3
  <2>3. QED
    BY <2>1, <2>2
<1>7. QED
  BY <1>6 DEF PiecesInv

\* A reply that gives the next piece to one handle.
LEMMA ReplyPieces ==
    ASSUME TypeInv, PiecesInv, NEW h \in Handles, NEW got, NEW eof, NEW n,
           mounted' = mounted, handle' = Replied(h, got, eof),
           Given(Contents(handle[h].inode), is_dir(table[handle[h].inode]),
                 [inode |-> handle[h].inode, got |-> got, eof |-> eof], n)
    PROVE  PiecesInv'
<1>1. /\ handle'[h] = [inode |-> handle[h].inode, got |-> got, eof |-> eof]
      /\ \A g \in Handles \ {h} : handle'[g] = handle[g]
  BY DEF Replied, TypeInv, IInv, HandleType
<1>2. handle'[h].inode = handle[h].inode
  BY <1>1
<1>3. Given(Contents(handle[h].inode), is_dir(table[handle[h].inode]), handle'[h], n)
  BY <1>1
<1>4. Whole(h, n)'
  BY <1>2, <1>3 DEF Whole, Contents, table
<1>5. ASSUME NEW g \in Handles, IsOpen(g)' PROVE \E m : Whole(g, m)'
  <2>1. CASE g = h
    BY <1>4, <2>1
  <2>2. CASE g # h
    <3>1. IsOpen(g) /\ handle'[g] = handle[g]
      BY <1>1, <1>5, <2>2 DEF IsOpen
    <3>2. PICK m : Whole(g, m)
      BY <3>1 DEF PiecesInv
    <3>3. Whole(g, m)'
      BY <3>1, <3>2, WholeKept
    <3>4. QED
      BY <3>3
  <2>3. QED
    BY <2>1, <2>2
<1>6. QED
  BY <1>5 DEF PiecesInv

\* A reply to read gives the next piece.
LEMMA ReadPieces ==
    ASSUME SetFacts, TypeInv, PiecesInv, NEW h \in Handles, NEW asked \in ReadSizes, Read(h, asked)
    PROVE  PiecesInv'
<1> DEFINE inode == handle[h].inode
           all == Contents(inode)
           l == Len(all)
           start == Len(handle[h].got)
           e == slice_end(start, asked, l)
           got == handle[h].got \o SubSeq(all, start + 1, e)
           eof == (e = l)
<1>1. IsOpen(h) /\ mounted' = mounted /\ asked \in Nat \ {0} /\ HandleType
  BY ZipAssumption DEF Read, IsOpen, TypeInv, IInv
<1>2. mounted.status = "ok" /\ Mounted /\ inode \in DOMAIN table
  BY <1>1 DEF Read, TypeInv, Idle, IsOpen, TypeOK
<1>3. ~is_dir(table[inode]) /\ start < table[inode].size
  BY DEF Read
<1>4. Listed(all, l) /\ l = table[inode].size
  BY <1>2, <1>3, ContentsForm
<1>5. handle' = [handle EXCEPT ![h].got = got, ![h].eof = (e = table[inode].size)]
  BY DEF Read
<1>6. handle' = Replied(h, got, eof)
  <2>1. handle' = [handle EXCEPT ![h].got = got, ![h].eof = eof]
    BY <1>4, <1>5, Zenon
  <2>2. HandleType
    BY <1>1
  <2> HIDE DEF got, eof
  <2>3. QED
    BY <2>1, <2>2, ReadReply, Zenon
<1>7. PICK m : Whole(h, m)
  BY <1>1 DEF PiecesInv
<1> DEFINE x == handle[h]
           y == [inode |-> inode, got |-> got, eof |-> eof]
<1>8. Given(all, FALSE, x, m)
  BY <1>3, <1>7 DEF Whole, Given
<1> HIDE DEF all
<1>9. start = m
  <2>1. x.got = [k \in 1 .. m |-> all[k]] /\ m \in 0 .. l /\ l \in Nat
    BY <1>4, <1>8 DEF Given, Listed
  <2>2. m \in Nat
    BY <2>1
  <2>3. Listed(x.got, m)
    BY <2>1, <2>2 DEF Listed
  <2>4. QED
    BY <2>3, ListedLen
<1>10. y.got = x.got \o SubSeq(all, m + 1, slice_end(m, asked, l))
  BY <1>9, Zenon
<1>11. y.eof = (slice_end(m, asked, l) = l)
  BY <1>9
<1>12. m < l
  BY <1>3, <1>4, <1>9
<1> HIDE DEF x, y
<1>13. Given(all, FALSE, y, slice_end(m, asked, l))
  BY <1>1, <1>4, <1>8, <1>10, <1>11, <1>12, ReadPiece, Zenon
<1>14. Given(Contents(inode), is_dir(table[inode]), y, slice_end(m, asked, l))
  BY <1>3, <1>13 DEF all, Given
<1>15. QED
  BY <1>1, <1>6, <1>14, ReplyPieces, Zenon DEF y

\* A reply to readdir gives the next entries, or says that there are none.
LEMMA ReadDirPieces ==
    ASSUME SetFacts, TypeInv, PiecesInv, NEW h \in Handles, NEW asked \in ReadSizes, ReadDir(h, asked)
    PROVE  PiecesInv'
<1> DEFINE inode == handle[h].inode
           all == Contents(inode)
           l == Len(all)
           x == handle[h]
<1>1. IsOpen(h) /\ mounted' = mounted /\ asked \in Nat \ {0} /\ HandleType
  BY ZipAssumption, Zenon DEF ReadDir, IsOpen, TypeInv, IInv
<1>2. mounted.status = "ok" /\ Mounted /\ inode \in DOMAIN table
  BY <1>1, Zenon DEF ReadDir, TypeInv, Idle, IsOpen, TypeOK
<1>3. is_dir(table[inode])
  BY Zenon DEF ReadDir
<1>4. Listed(all, l)
  BY <1>2, ContentsForm
<1>5. PICK m : Whole(h, m)
  BY <1>1 DEF PiecesInv
<1>6. Given(all, TRUE, x, m)
  BY <1>3, <1>5 DEF Whole, Given
<1> DEFINE offset == IF x.got = <<>> THEN 0 ELSE x.got[Len(x.got)][2]
<1>7. offset = m
  <2> HIDE DEF all, x
  <2>1. x.got = [k \in 1 .. m |-> <<all[k], k>>] /\ m \in 0 .. l /\ l \in Nat
    BY <1>4, <1>6 DEF Given, Listed
  <2>2. m \in Nat
    BY <2>1
  <2>3. Listed(x.got, m)
    BY <2>1, <2>2 DEF Listed
  <2>4. Len(x.got) = m
    BY <2>3, ListedLen
  <2>5. CASE m = 0
    <3>1. x.got = <<>>
      BY <2>1, <2>5
    <3>2. QED
      BY <2>5, <3>1
  <2>6. CASE m # 0
    <3>1. x.got # <<>> /\ m \in 1 .. m
      BY <2>2, <2>4, <2>6
    <3>2. x.got[m] = <<all[m], m>>
      BY <2>1, <3>1
    <3>3. QED
      BY <2>4, <3>1, <3>2
  <2>7. QED
    BY <2>5, <2>6
<1> DEFINE e(o) == slice_end(o, asked, l)
           Reply(o) == [cur \in 1 .. e(o) - o |-> <<all[o + cur], NextOffset(o, cur)>>]
           Took(o) == \/ Reply(o) = <<>> /\ handle' = [handle EXCEPT ![h].eof = TRUE]
                      \/ \E n \in DOMAIN Reply(o) :
                            handle' = [handle EXCEPT ![h].got = x.got \o SubSeq(Reply(o), 1, n)]
           reply == Reply(m)
<1>8. Took(m)
  <2>1. Took(offset)
    BY Zenon DEF ReadDir
  <2> HIDE DEF Took, offset
  <2>2. QED
    BY <1>7, <2>1, Zenon
<1>9. /\ reply = <<>> => m = l
      /\ \A n \in DOMAIN reply : \A y :
            y.got = x.got \o SubSeq(reply, 1, n) /\ y.eof = x.eof => Given(all, TRUE, y, m + n)
  BY <1>1, <1>4, <1>6, ReadDirPiece, Zenon
<1> HIDE DEF Reply, all, x
<1>10. CASE reply = <<>> /\ handle' = [handle EXCEPT ![h].eof = TRUE]
  <2> DEFINE y == [inode |-> inode, got |-> x.got, eof |-> TRUE]
  <2>1. handle' = Replied(h, x.got, TRUE)
    BY <1>1, <1>10, HandleForms, Zenon DEF x
  <2>2. Given(all, TRUE, y, m)
    BY <1>6, <1>9, <1>10 DEF Given
  <2>3. Given(Contents(inode), is_dir(table[inode]), y, m)
    BY <1>3, <2>2 DEF all, Given
  <2>4. QED
    BY <1>1, <2>1, <2>3, ReplyPieces, Zenon
<1>11. CASE \E n \in DOMAIN reply :
               handle' = [handle EXCEPT ![h].got = x.got \o SubSeq(reply, 1, n)]
  <2>1. PICK n \in DOMAIN reply :
               handle' = [handle EXCEPT ![h].got = x.got \o SubSeq(reply, 1, n)]
    BY <1>11, Zenon
  <2> DEFINE got == x.got \o SubSeq(reply, 1, n)
             y == [inode |-> inode, got |-> got, eof |-> x.eof]
  <2>2. y.got = got /\ y.eof = x.eof
    BY Zenon
  <2> HIDE DEF y
  <2>3. Given(all, TRUE, y, m + n)
    BY <1>9, <2>2, Zenon
  <2> HIDE DEF got
  <2>4. handle' = Replied(h, got, x.eof)
    BY <1>1, <2>1, HandleForms, Zenon DEF got, x
  <2>5. Given(Contents(inode), is_dir(table[inode]), y, m + n)
    BY <1>3, <2>3 DEF all, Given
  <2>6. QED
    BY <1>1, <2>4, <2>5, ReplyPieces DEF y
<1>12. QED
  BY <1>8, <1>10, <1>11, Zenon

\* Every step keeps what handles were given in order.
LEMMA NextPieces ==
    ASSUME SetFacts
    PROVE  TypeInv /\ PiecesInv /\ [Next]_vars => PiecesInv'
<1> SUFFICES ASSUME TypeInv, PiecesInv, [Next]_vars PROVE PiecesInv'
  OBVIOUS
<1>1. CASE UNCHANGED vars
  BY <1>1 DEF PiecesInv, Whole, IsOpen, Contents, table, vars
<1>2. CASE New
  BY <1>2 DEF New, TypeInv, Idle, PiecesInv, IsOpen
<1>3. ASSUME NEW h \in Handles, Release(h) PROVE PiecesInv'
  <2>1. /\ mounted' = mounted /\ handle'[h] = Closed
        /\ \A g \in Handles \ {h} : handle'[g] = handle[g]
    BY <1>3 DEF Release, TypeInv, IInv, HandleType
  <2>2. ASSUME NEW g \in Handles, IsOpen(g)' PROVE \E m : Whole(g, m)'
    <3>1. IsOpen(g) /\ handle'[g] = handle[g]
      BY <2>1, <2>2 DEF IsOpen
    <3>2. PICK m : Whole(g, m)
      BY <3>1 DEF PiecesInv
    <3>3. Whole(g, m)'
      BY <2>1, <3>1, <3>2, WholeKept
    <3>4. QED
      BY <3>3
  <2>3. QED
    BY <2>2 DEF PiecesInv
<1>4. QED
  BY <1>1, <1>2, <1>3, OpenPieces, ReadPieces, ReadDirPieces DEF Next

\* No handle was given anything at first.
LEMMA InitPieces == Init => PiecesInv
<1>1. SUFFICES ASSUME Init PROVE \A h \in Handles : ~IsOpen(h)
  BY DEF PiecesInv
<1>2. handle = [h \in Handles |-> Closed]
  BY <1>1 DEF Init
<1>3. \A h \in Handles : handle[h] = Closed
  BY <1>2
<1>4. QED
  BY <1>3 DEF IsOpen

\* What a handle was given is what is there, as far as it was read.
LEMMA PiecesWhole ==
    ASSUME SetFacts
    PROVE  TypeInv /\ PiecesInv => PiecesMakeTheWhole
<1>1. SUFFICES ASSUME TypeInv, PiecesInv, NEW h \in Handles, handle[h] # Closed
               PROVE  LET all == Contents(handle[h].inode)
                          got == handle[h].got
                          items == IF is_dir(table[handle[h].inode])
                                   THEN [k \in DOMAIN got |-> got[k][1]] ELSE got
                      IN  /\ Begins(all, items)
                          /\ handle[h].eof => items = all
  BY DEF PiecesMakeTheWhole
<1> DEFINE x == handle[h]
           dir == is_dir(table[x.inode])
           all == Contents(x.inode)
           l == Len(all)
           items == IF dir THEN [k \in DOMAIN x.got |-> x.got[k][1]] ELSE x.got
<1>2. PICK m : Given(all, dir, x, m)
  BY <1>1 DEF PiecesInv, Whole, IsOpen
<1>3. mounted.status = "ok" /\ Mounted /\ x.inode \in DOMAIN table
  <2>1. mounted.status = "ok" /\ Mounted
    BY <1>1 DEF TypeInv, Idle
  <2>2. x.inode \in DOMAIN open_bufs
    BY <1>1 DEF TypeInv, IInv, OpenHandlesServed
  <2>3. DOMAIN open_bufs \subseteq DOMAIN table
    BY <1>1 DEF TypeInv, TypeOK
  <2>4. QED
    BY <2>1, <2>2, <2>3
<1>4. Listed(all, l)
  BY <1>3, ContentsForm
<1> HIDE DEF all, dir, x
<1>5. m \in 0 .. l /\ l \in Nat /\ m \in Nat
  BY <1>2, <1>4 DEF Given, Listed
<1>6. items = [k \in 1 .. m |-> all[k]]
  <2>1. CASE dir
    <3>1. x.got = [k \in 1 .. m |-> <<all[k], k>>]
      BY <1>2, <2>1 DEF Given
    <3>2. DOMAIN x.got = 1 .. m /\ \A k \in 1 .. m : x.got[k][1] = all[k]
      BY <3>1
    <3>3. QED
      BY <2>1, <3>2
  <2>2. CASE ~dir
    BY <1>2, <2>2 DEF Given
  <2>3. QED
    BY <2>1, <2>2
<1> HIDE DEF items
<1>7. Len(items) = m
  <2>1. Listed(items, m)
    BY <1>5, <1>6 DEF Listed
  <2>2. QED
    BY <2>1, ListedLen
<1>8. SubSeq(all, 1, m) = items
  <2>1. 0 \in 0 .. l /\ m \in 0 .. l /\ 0 + 1 = 1 /\ m - 0 = m
    BY <1>5
  <2>2. SubSeq(all, 1, m) = [k \in 1 .. m |-> all[0 + k]]
    BY <1>4, <2>1, Part
  <2>3. \A k \in 1 .. m : 0 + k = k
    OBVIOUS
  <2>4. QED
    BY <1>6, <2>2, <2>3
<1>9. Begins(all, items)
  BY <1>5, <1>7, <1>8 DEF Begins
<1>10. x.eof => items = all
  BY <1>2, <1>4, <1>6 DEF Given, Listed
<1>11. QED
  BY <1>9, <1>10 DEF items, all, dir, x

(***************************************************************************)
(* The facts about numbers and finite sets that were assumed, and with     *)
(* them the theorems.                                                      *)
(***************************************************************************)
INSTANCE FiniteSetTheorems

\* The facts that the lemmas assume.
LEMMA SetFactsHold == SetFacts
<1>1. ASSUME NEW S, 0 \in S, \A n \in Nat : n \in S => n + 1 \in S
      PROVE  Nat \subseteq S
  <2> DEFINE T == Nat \ S
  <2>1. SUFFICES ASSUME T # {} PROVE FALSE
    OBVIOUS
  <2>2. PICK x \in T : \A y \in T : <<y, x>> \notin OpToRel(<, Nat)
    BY <2>1, NatLessThanWellFounded, WFMin, Zenon
  <2>3. x \in Nat /\ \A y \in T : ~ (y < x)
    BY <2>2, Zenon DEF OpToRel
  <2>4. x # 0 /\ x - 1 \in Nat /\ x - 1 \notin T
    BY <1>1, <2>3
  <2>5. (x - 1) + 1 \in S
    BY <1>1, <2>4
  <2>6. QED
    BY <2>3, <2>5
<1>2. ASSUME NEW S, IsFiniteSet(S)
      PROVE  /\ Cardinality(S) \in Nat
             /\ \E s \in [1 .. Cardinality(S) -> S] :
                   \A x \in S : \E k \in 1 .. Cardinality(S) : s[k] = x
  <2>1. Cardinality(S) \in Nat /\ ExistsBijection(1 .. Cardinality(S), S)
    BY <1>2, FS_CardinalityType
  <2>2. PICK s \in Bijection(1 .. Cardinality(S), S) : TRUE
    BY <2>1 DEF ExistsBijection
  <2>3. /\ s \in [1 .. Cardinality(S) -> S]
        /\ \A x \in S : \E k \in 1 .. Cardinality(S) : s[k] = x
    BY <2>2 DEF Bijection, Surjection, Injection
  <2>4. QED
    BY <2>1, <2>3
<1>3. QED
  BY <1>1, <1>2 DEF SetFacts

\* Every path of an archive that could be mounted leads to an inode of the right
\* kind, that of a file with the zip index of the first entry of that name,
\* whatever the archive: from_zip (zipfuse/src/inode.rs) neither loses an entry
\* nor gives a name to the wrong one.  The tree it has built so far is right for
\* the components it has seen, after each round of its two loops.
THEOREM PathsAlwaysResolve == Spec => []PathsResolve
<1>1. Mounted => PathsResolve
  BY SetFactsHold, MountedResolve
<1>2. QED
  BY <1>1, MountedInv, PTL

\* A directory ends up with the mode of the last entry that names it, whatever
\* the order of the entries: from_zip updates the mode of an inode it finds.
THEOREM ModesOfLastEntries == Spec => []DirectoryModes
<1>1. Mounted => DirectoryModes
  BY SetFactsHold, MountedModes
<1>2. QED
  BY <1>1, MountedInv, PTL

\* The inodes of a mounted archive form a tree whose names are the paths of the
\* archive, whatever the archive: from_zip links every inode it adds to one
\* directory under one name.
THEOREM TreeAlways == Spec => []InodesFormTree
<1>1. Mounted => InodesFormTree
  BY SetFactsHold, MountedTree
<1>2. QED
  BY <1>1, MountedInv, PTL

\* The invariant of the types holds in every state.
LEMMA TypeInvariant == Spec => []TypeInv
<1>1. TypeInv /\ [Next]_vars => TypeInv'
  BY SetFactsHold, NextTypes
<1>2. QED
  BY <1>1, InitTypes, PTL DEF Spec

\* Handles refer to inodes and the open counts of buffers are positive, whatever
\* is mounted and however opens, reads and releases interleave: release takes a
\* buffer away when its count would become zero (zipfuse/src/main.rs).
THEOREM TypeCorrect == Spec => []TypeOK
<1>1. TypeInv => TypeOK
  BY DEF TypeInv
<1>2. QED
  BY <1>1, TypeInvariant, PTL

\* However a file or a directory is read in pieces, what a handle was given is
\* the beginning of what is in it, in order and once, and all of it at the end:
\* the offsets of DirIter and the slices of read (zipfuse/src/main.rs) meet
\* without a gap or an overlap, for all sizes of the requests.
THEOREM PiecesAlwaysMakeTheWhole == Spec => []PiecesMakeTheWhole
<1>1. TypeInv /\ PiecesInv => PiecesMakeTheWhole
  BY SetFactsHold, PiecesWhole
<1>2. TypeInv /\ PiecesInv /\ [Next]_vars => PiecesInv'
  BY SetFactsHold, NextPieces
<1>3. QED
  BY <1>1, <1>2, InitPieces, TypeInvariant, PTL DEF Spec
=============================================================================
