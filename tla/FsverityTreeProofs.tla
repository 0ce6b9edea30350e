------------------------- MODULE FsverityTreeProofs -------------------------
(***************************************************************************)
(* Proofs about the operators of FsverityTree, for every chunk size, every *)
(* number of hashes in a node and every file: what merkle_tree_height      *)
(* computes, where each node of the stored tree lies, and that the walk of *)
(* the verifier climbs from the leaf of a chunk to the root page.          *)
(*                                                                         *)
(* Induction is over sets of numbers: the set of the n for which a         *)
(* statement holds contains 0 and is closed under successor.  A recursive  *)
(* function satisfies its defining equation once some function does, which *)
(* is shown by that induction too.                                         *)
(***************************************************************************)
EXTENDS FsverityTree, TLAPS, WellFoundedInduction

(* Induction and recursion *)

\* A set of naturals that is not empty has a least element.
LEMMA LeastElement ==
    ASSUME NEW T \in SUBSET Nat, T # {}
    PROVE  \E x \in T : \A y \in T : x <= y
<1>1. PICK x \in T : \A y \in T : <<y, x>> \notin OpToRel(<, Nat)
  BY NatLessThanWellFounded, WFMin, Zenon
<1>2. \A y \in T : ~ (y < x)
  BY <1>1, Zenon DEF OpToRel
<1>3. QED
  BY <1>2

\* A set that contains 0 and every successor contains the naturals.
LEMMA Induction ==
    ASSUME NEW S, 0 \in S, \A n \in Nat : n \in S => n + 1 \in S
    PROVE  \A n \in Nat : n \in S
<1> DEFINE T == Nat \ S
<1>1. SUFFICES ASSUME T # {} PROVE FALSE
  OBVIOUS
<1>2. PICK x \in T : \A y \in T : x <= y
  BY <1>1, LeastElement, Zenon
<1>3. x \in Nat /\ x # 0
  OBVIOUS
<1>4. x - 1 \in Nat /\ x - 1 \notin T
  BY <1>2, <1>3
<1>5. (x - 1) + 1 \in S
  BY <1>4
<1>6. QED
  BY <1>3, <1>5

\* f starts at a and goes on by step.
Goes(f, D, a, step) == \A k \in D : f[k] = IF k = 0 THEN a ELSE step[k][f[k - 1]]

\* A function that is to start at a and to go on by step exists: D is Nat or an
\* interval that starts at 0.
LEMMA Recursion ==
    ASSUME NEW D \in SUBSET Nat, \A k \in D : k # 0 => k - 1 \in D,
           NEW S, NEW a \in S, NEW step \in [D -> [S -> S]]
    PROVE  \E f \in [D -> S] : Goes(f, D, a, step)
<1> DEFINE Starts(g, n) == \A k \in 0 .. n : g[k] = IF k = 0 THEN a ELSE step[k][g[k - 1]]
           Done == {n \in Nat : n \in D => \E g \in [0 .. n -> S] : Starts(g, n)}
<1>1. \A n \in Nat : n \in Done
  <2>1. 0 \in Done
    <3> DEFINE g == [k \in 0 .. 0 |-> a]
    <3>1. g \in [0 .. 0 -> S] /\ Starts(g, 0)
      OBVIOUS
    <3>2. QED
      BY <3>1, Zenon
  <2>2. ASSUME NEW n \in Nat, n \in Done PROVE n + 1 \in Done
    <3>1. SUFFICES ASSUME n + 1 \in D
                   PROVE  \E g \in [0 .. n + 1 -> S] : Starts(g, n + 1)
      OBVIOUS
    <3>2. n \in D
      BY <3>1
    <3>3. PICK g \in [0 .. n -> S] : Starts(g, n)
      BY <2>2, <3>2
    <3> DEFINE h == [k \in 0 .. n + 1 |-> IF k = n + 1 THEN step[n + 1][g[n]] ELSE g[k]]
    <3>4. step[n + 1] \in [S -> S] /\ g[n] \in S
      BY <3>1
    <3>5. h \in [0 .. n + 1 -> S]
      BY <3>4
    <3>6. Starts(h, n + 1)
      BY <3>3
    <3>7. QED
      BY <3>5, <3>6, Zenon
  <2>3. QED
    BY <2>1, <2>2, Induction, Zenon
<1>2. ASSUME NEW m \in D, NEW n \in D, m <= n,
             NEW g \in [0 .. m -> S], Starts(g, m),
             NEW h \in [0 .. n -> S], Starts(h, n)
      PROVE  g[m] = h[m]
  <2> DEFINE Same == {k \in Nat : k <= m => g[k] = h[k]}
  <2>1. 0 \in Same
    BY <1>2
  <2>2. ASSUME NEW k \in Nat, k \in Same PROVE k + 1 \in Same
    <3>1. SUFFICES ASSUME k + 1 <= m PROVE g[k + 1] = h[k + 1]
      OBVIOUS
    <3>2. g[k] = h[k]
      BY <2>2, <3>1
    <3>3. /\ k + 1 \in 0 .. m /\ k + 1 \in 0 .. n /\ k + 1 # 0
          /\ (k + 1) - 1 = k
      BY <1>2, <3>1
    <3>4. QED
      BY <1>2, <3>2, <3>3
  <2>3. m \in Same
    BY <2>1, <2>2, Induction, Zenon
  <2>4. QED
    BY <2>3
<1> DEFINE G(n) == CHOOSE g \in [0 .. n -> S] : Starts(g, n)
           f == [n \in D |-> G(n)[n]]
<1>3. ASSUME NEW n \in D PROVE G(n) \in [0 .. n -> S] /\ Starts(G(n), n)
  <2>1. \E g \in [0 .. n -> S] : Starts(g, n)
    BY <1>1
  <2>2. QED
    BY <2>1, Zenon
<1> HIDE DEF G
<1>4. f \in [D -> S]
  BY <1>3
<1>5. ASSUME NEW n \in D, n # 0 PROVE f[n] = step[n][f[n - 1]]
  <2>1. n - 1 \in D /\ n - 1 <= n /\ n \in 0 .. n
    BY <1>5
  <2>2. G(n)[n] = step[n][G(n)[n - 1]]
    BY <1>3, <1>5, <2>1
  <2>3. G(n - 1)[n - 1] = G(n)[n - 1]
    <3>1. G(n - 1) \in [0 .. n - 1 -> S] /\ Starts(G(n - 1), n - 1)
      BY <1>3, <2>1
    <3>2. G(n) \in [0 .. n -> S] /\ Starts(G(n), n)
      BY <1>3
    <3> HIDE DEF Starts
    <3>3. QED
      BY <1>2, <2>1, <3>1, <3>2
  <2>4. QED
    BY <2>1, <2>2, <2>3
<1>6. 0 \in D => f[0] = a
  BY <1>3
<1>7. QED
  BY <1>4, <1>5, <1>6 DEF Goes

\* The same for Nat, as a step that needs no number.
LEMMA RecursionOnNat ==
    ASSUME NEW S, NEW a \in S, NEW step \in [Nat -> [S -> S]]
    PROVE  \E f \in [Nat -> S] : Goes(f, Nat, a, step)
<1>1. Nat \in SUBSET Nat /\ \A k \in Nat : k # 0 => k - 1 \in Nat
  OBVIOUS
<1>2. QED
  BY <1>1, Recursion, Zenon

-----------------------------------------------------------------------------
(* Division *)

\* Rounding up is adjoint to multiplication: the quotient is the least number
\* of divisors that reach the dividend (divide_roundup, common.rs).
LEMMA RoundupAdjoint ==
    ASSUME NEW n \in Nat, NEW d \in Nat \ {0}
    PROVE  /\ divide_roundup(n, d) \in Nat
           /\ \A r \in Nat : divide_roundup(n, d) <= r <=> n <= r * d
<1> DEFINE q == (n + d - 1) \div d
           m == (n + d - 1) % d
<1>1. /\ q \in Nat /\ m \in 0 .. d - 1
      /\ n + d - 1 = q * d + m
  OBVIOUS
<1>2. divide_roundup(n, d) = q
  BY DEF divide_roundup
<1> HIDE DEF q, m
<1>3. ASSUME NEW r \in Nat PROVE q <= r <=> n <= r * d
  <2>1. CASE q <= r
    <3>1. q * d <= r * d
      BY <1>1, <2>1
    <3>2. q * d \in Nat /\ r * d \in Nat
      BY <1>1
    <3>3. QED
      BY <1>1, <2>1, <3>1, <3>2
  <2>2. CASE r < q
    <3>1. (r + 1) * d <= q * d
      BY <1>1, <2>2
    <3>2. (r + 1) * d = r * d + d
      OBVIOUS
    <3>3. q * d \in Nat /\ r * d \in Nat
      BY <1>1
    <3>4. QED
      BY <1>1, <2>2, <3>1, <3>2, <3>3
  <2>3. QED
    BY <1>1, <2>1, <2>2
<1>4. QED
  BY <1>1, <1>2, <1>3

\* Rounding down is adjoint from the other side.
LEMMA DivAdjoint ==
    ASSUME NEW n \in Nat, NEW d \in Nat \ {0}
    PROVE  /\ n \div d \in Nat
           /\ \A r \in Nat : r <= n \div d <=> r * d <= n
<1> DEFINE q == n \div d
           m == n % d
<1>1. q \in Nat /\ m \in 0 .. d - 1 /\ n = q * d + m
  OBVIOUS
<1> HIDE DEF q, m
<1>2. ASSUME NEW r \in Nat PROVE r <= q <=> r * d <= n
  <2>1. CASE r <= q
    <3>1. r * d <= q * d
      BY <1>1, <2>1
    <3>2. q * d \in Nat /\ r * d \in Nat
      BY <1>1
    <3>3. QED
      BY <1>1, <2>1, <3>1, <3>2
  <2>2. CASE q < r
    <3>1. (q + 1) * d <= r * d
      BY <1>1, <2>2
    <3>2. (q + 1) * d = q * d + d
      BY <1>1
    <3>3. q * d \in Nat /\ r * d \in Nat
      BY <1>1
    <3>4. QED
      BY <1>1, <2>2, <3>1, <3>2, <3>3
  <2>3. QED
    BY <1>1, <2>1, <2>2
<1>3. QED
  BY <1>1, <1>2 DEF q

\* Rounding up twice is rounding up by the product.
LEMMA RoundupTwice ==
    ASSUME NEW n \in Nat, NEW c \in Nat \ {0}, NEW d \in Nat \ {0}
    PROVE  /\ c * d \in Nat \ {0}
           /\ divide_roundup(divide_roundup(n, c), d) = divide_roundup(n, c * d)
<1>1. c * d \in Nat \ {0}
  OBVIOUS
<1>2. \A r \in Nat : r * (c * d) = (r * d) * c /\ r * d \in Nat
  OBVIOUS
<1>3. divide_roundup(divide_roundup(n, c), d) = divide_roundup(n, c * d)
  <2> DEFINE p == divide_roundup(n, c)
             q == divide_roundup(p, d)
             s == divide_roundup(n, c * d)
  <2>1. p \in Nat /\ \A r \in Nat : p <= r <=> n <= r * c
    BY RoundupAdjoint
  <2> HIDE DEF p
  <2>2. q \in Nat /\ \A r \in Nat : q <= r <=> p <= r * d
    BY <2>1, RoundupAdjoint
  <2>3. s \in Nat /\ \A r \in Nat : s <= r <=> n <= r * (c * d)
    BY <1>1, RoundupAdjoint
  <2> HIDE DEF q, s
  <2>4. \A r \in Nat : q <= r <=> s <= r
    BY <1>2, <2>1, <2>2, <2>3
  <2>5. q = s
    BY <2>2, <2>3, <2>4
  <2>6. QED
    BY <2>5 DEF p, q, s
<1>4. QED
  BY <1>1, <1>3

\* Dividing twice is dividing by the product.
LEMMA DivideTwice ==
    \A n \in Nat, c, d \in Nat \ {0} : (n \div c) \div d = n \div (c * d)
<1>1. SUFFICES ASSUME NEW n \in Nat, NEW c \in Nat \ {0}, NEW d \in Nat \ {0}
               PROVE  (n \div c) \div d = n \div (c * d)
  BY Zenon
<1>2. c * d \in Nat \ {0}
  OBVIOUS
<1>3. \A r \in Nat : r * (c * d) = (r * d) * c /\ r * d \in Nat
  OBVIOUS
<1>4. (n \div c) \div d = n \div (c * d)
  <2> DEFINE p == n \div c
             q == p \div d
             s == n \div (c * d)
  <2>1. p \in Nat /\ \A r \in Nat : r <= p <=> r * c <= n
    BY DivAdjoint
  <2> HIDE DEF p
  <2>2. q \in Nat /\ \A r \in Nat : r <= q <=> r * d <= p
    BY <2>1, DivAdjoint
  <2>3. s \in Nat /\ \A r \in Nat : r <= s <=> r * (c * d) <= n
    BY <1>2, DivAdjoint
  <2> HIDE DEF q, s
  <2>4. \A r \in Nat : r <= q <=> r <= s
    BY <1>3, <2>1, <2>2, <2>3
  <2>5. q = s
    BY <2>2, <2>3, <2>4
  <2>6. QED
    BY <2>5 DEF p, q, s
<1>5. QED
  BY <1>4

\* Quotient and remainder are determined by what they are for.
LEMMA QuotientRemainder ==
    ASSUME NEW d \in Nat \ {0}, NEW q \in Nat, NEW m \in 0 .. d - 1, NEW n, n = q * d + m
    PROVE  n \div d = q /\ n % d = m
<1>1. n \in Nat
  <2>1. q * d \in Nat
    OBVIOUS
  <2>2. QED
    BY <2>1
<1>2. /\ n \div d \in Nat /\ n % d \in 0 .. d - 1
      /\ n = (n \div d) * d + (n % d)
  BY <1>1
<1> DEFINE p == n \div d
           o == n % d
<1>3. p \in Nat /\ o \in 0 .. d - 1 /\ n = p * d + o
  BY <1>2
<1> HIDE DEF p, o
<1>4. ~ (p < q)
  <2>1. SUFFICES ASSUME p < q PROVE FALSE
    OBVIOUS
  <2>2. (p + 1) * d <= q * d
    BY <1>3, <2>1
  <2>3. (p + 1) * d = p * d + d /\ p * d \in Nat /\ q * d \in Nat
    BY <1>3
  <2>4. QED
    BY <1>3, <2>2, <2>3
<1>5. ~ (q < p)
  <2>1. SUFFICES ASSUME q < p PROVE FALSE
    OBVIOUS
  <2>2. (q + 1) * d <= p * d
    BY <1>3, <2>1
  <2>3. (q + 1) * d = q * d + d /\ p * d \in Nat /\ q * d \in Nat
    BY <1>3
  <2>4. QED
    BY <1>3, <2>2, <2>3
<1>6. p = q
  BY <1>3, <1>4, <1>5
<1>7. o = m
  <2>1. q * d \in Nat
    OBVIOUS
  <2>2. QED
    BY <1>3, <1>6, <2>1
<1>8. QED
  BY <1>6, <1>7 DEF p, o

-----------------------------------------------------------------------------
(* Powers *)

\* The defining equations of two_to.
LEMMA TwoTo ==
    /\ two_to \in [Nat -> Nat]
    /\ two_to[0] = 1
    /\ \A b \in Nat : two_to[b + 1] = 2 * two_to[b]
<1> DEFINE step == [b \in Nat |-> [v \in Nat |-> 2 * v]]
<1>1. PICK f \in [Nat -> Nat] : Goes(f, Nat, 1, step)
  <2>1. step \in [Nat -> [Nat -> Nat]] /\ 1 \in Nat
    OBVIOUS
  <2> HIDE DEF step
  <2>2. QED
    BY <2>1, RecursionOnNat, Zenon
<1>2. f = [b \in Nat |-> IF b = 0 THEN 1 ELSE 2 * f[b - 1]]
  <2>1. \A b \in Nat : b # 0 => b - 1 \in Nat /\ f[b - 1] \in Nat
    OBVIOUS
  <2>2. \A b \in Nat : f[b] = IF b = 0 THEN 1 ELSE 2 * f[b - 1]
    BY <1>1, <2>1, Zenon DEF Goes
  <2>3. QED
    BY <2>2
<1>3. two_to = [b \in Nat |-> IF b = 0 THEN 1 ELSE 2 * two_to[b - 1]]
  BY <1>2, Zenon DEF two_to
<1> DEFINE P == {b \in Nat : two_to[b] \in Nat}
<1>4. \A b \in Nat : two_to[b + 1] = 2 * two_to[b]
  BY <1>3
<1>5. two_to[0] = 1
  BY <1>3
<1>6. \A b \in Nat : b \in P
  <2>1. 0 \in P /\ \A b \in Nat : b \in P => b + 1 \in P
    BY <1>4, <1>5
  <2>2. QED
    BY <2>1, Induction, Zenon
<1>7. QED
  BY <1>3, <1>4, <1>5, <1>6

\* two_to grows: it exceeds its argument, and it is strictly monotone.
LEMMA TwoToGrows ==
    /\ \A b \in Nat : b < two_to[b]
    /\ \A b, c \in Nat : b <= c <=> two_to[b] <= two_to[c]
<1>1. \A b \in Nat : two_to[b] \in Nat
  BY TwoTo
<1> DEFINE P == {b \in Nat : b < two_to[b]}
<1>2. \A b \in Nat : b \in P
  <2>1. 0 \in P
    BY TwoTo
  <2>2. ASSUME NEW b \in Nat, b \in P PROVE b + 1 \in P
    BY <1>1, <2>2, TwoTo
  <2>3. QED
    BY <2>1, <2>2, Induction, Zenon
<1>3. ASSUME NEW b \in Nat PROVE \A d \in Nat : two_to[b] <= two_to[b + d]
  <2> DEFINE Q == {d \in Nat : two_to[b] <= two_to[b + d]}
  <2>1. 0 \in Q
    BY <1>1
  <2>2. ASSUME NEW d \in Nat, d \in Q PROVE d + 1 \in Q
    <3>1. b + d \in Nat /\ (b + d) + 1 = b + (d + 1)
      OBVIOUS
    <3>2. two_to[b + (d + 1)] = 2 * two_to[b + d]
      BY <3>1, TwoTo
    <3>3. two_to[b + d] \in Nat /\ two_to[b] \in Nat
      BY <1>1, <3>1
    <3>4. QED
      BY <2>2, <3>2, <3>3
  <2>3. \A d \in Nat : d \in Q
    BY <2>1, <2>2, Induction, Zenon
  <2>4. QED
    BY <2>3
<1>4. ASSUME NEW b \in Nat, NEW c \in Nat, b <= c PROVE two_to[b] <= two_to[c]
  <2>1. c - b \in Nat /\ b + (c - b) = c
    BY <1>4
  <2>2. QED
    BY <1>3, <2>1
<1>5. ASSUME NEW b \in Nat, NEW c \in Nat, c < b PROVE two_to[c] < two_to[b]
  <2>1. two_to[c + 1] <= two_to[b]
    BY <1>4, <1>5
  <2>2. two_to[c + 1] = 2 * two_to[c] /\ two_to[c] > 0
    BY <1>2, TwoTo
  <2>3. QED
    BY <1>1, <2>1, <2>2
<1>6. QED
  BY <1>1, <1>2, <1>4, <1>5

\* Adding exponents multiplies.
LEMMA TwoToSum ==
    ASSUME NEW b \in Nat, NEW c \in Nat
    PROVE  two_to[b + c] = two_to[b] * two_to[c]
<1> DEFINE P == {d \in Nat : two_to[b + d] = two_to[b] * two_to[d]}
<1>1. \A d \in Nat : two_to[d] \in Nat
  BY TwoTo
<1>2. 0 \in P
  BY <1>1, TwoTo
<1>3. ASSUME NEW d \in Nat, d \in P PROVE d + 1 \in P
  <2>1. b + d \in Nat /\ b + (d + 1) = (b + d) + 1
    OBVIOUS
  <2>2. two_to[b + (d + 1)] = 2 * two_to[b + d]
    BY <2>1, TwoTo
  <2>3. two_to[d + 1] = 2 * two_to[d]
    BY TwoTo
  <2>4. QED
    BY <1>1, <1>3, <2>2, <2>3
<1>4. c \in P
  BY <1>2, <1>3, Induction, Zenon
<1>5. QED
  BY <1>4

\* bit_length is adjoint to two_to: n needs at most r bits when it is less than
\* two to the r (log128_ceil's 64 - leading_zeros, common.rs).
LEMMA BitLength ==
    ASSUME NEW n \in Nat
    PROVE  /\ bit_length(n) \in Nat
           /\ \A r \in Nat : bit_length(n) <= r <=> n < two_to[r]
<1>1. \A b \in Nat : two_to[b] \in Nat
  BY TwoTo
<1> DEFINE T == {b \in Nat : n < two_to[b]}
           Fits(b) == n < two_to[b] /\ \A c \in 0 .. b - 1 : two_to[c] <= n
<1>2. n \in T
  BY TwoToGrows
<1>3. PICK b \in T : \A c \in T : b <= c
  BY <1>2, LeastElement, Zenon
<1>4. b \in 0 .. n /\ Fits(b)
  BY <1>1, <1>2, <1>3
<1>5. bit_length(n) = CHOOSE c \in 0 .. n : Fits(c)
  BY DEF bit_length
<1> DEFINE l == CHOOSE c \in 0 .. n : Fits(c)
<1>6. l \in 0 .. n /\ Fits(l)
  BY <1>4, Zenon
<1> HIDE DEF l
<1>7. ASSUME NEW r \in Nat PROVE l <= r <=> n < two_to[r]
  <2>1. CASE l <= r
    BY <1>1, <1>6, <2>1, TwoToGrows
  <2>2. CASE r < l
    BY <1>1, <1>6, <2>2
  <2>3. QED
    BY <1>6, <2>1, <2>2
<1>8. QED
  BY <1>5, <1>6, <1>7 DEF l

\* A node has at least two hashes, and a chunk has as many bytes as they take.
LEMMA NodeFacts ==
    /\ HASHES_PER_NODE \in Nat /\ HASHES_PER_NODE >= 2
    /\ CHUNK_SIZE \in Nat \ {0} /\ HASH_SIZE \in Nat \ {0}
    /\ CHUNK_SIZE = HASHES_PER_NODE * HASH_SIZE
<1>1. /\ CHUNK_SIZE \in Nat \ {0} /\ HASH_SIZE \in Nat \ {0}
      /\ CHUNK_SIZE % HASH_SIZE = 0
  BY ChunkSizeAssumption, HashSizeAssumption
<1>2. /\ CHUNK_SIZE \div HASH_SIZE \in Nat
      /\ CHUNK_SIZE = (CHUNK_SIZE \div HASH_SIZE) * HASH_SIZE + (CHUNK_SIZE % HASH_SIZE)
  BY <1>1
<1>3. PICK b \in 1 .. CHUNK_SIZE : HASHES_PER_NODE = two_to[b]
  BY HashSizeAssumption
<1>4. two_to[b] > b /\ b >= 1 /\ two_to[b] \in Nat
  BY <1>1, <1>3, TwoTo, TwoToGrows
<1>5. HASHES_PER_NODE = CHUNK_SIZE \div HASH_SIZE
  BY DEF HASHES_PER_NODE
<1> HIDE DEF HASHES_PER_NODE
<1>6. QED
  BY <1>1, <1>2, <1>3, <1>4, <1>5

\* The defining equations of leaves_per_hash, which grows.
LEMMA LeavesPerHash ==
    /\ leaves_per_hash \in [Nat -> Nat \ {0}]
    /\ leaves_per_hash[0] = 1
    /\ \A x \in Nat : leaves_per_hash[x + 1] = HASHES_PER_NODE * leaves_per_hash[x]
    /\ \A x \in Nat : x < leaves_per_hash[x]
<1> DEFINE M == Nat \ {0}
           step == [x \in Nat |-> [v \in M |-> HASHES_PER_NODE * v]]
<1>1. HASHES_PER_NODE \in Nat /\ HASHES_PER_NODE >= 2
  BY NodeFacts
<1>2. \A v \in M : HASHES_PER_NODE * v \in M /\ HASHES_PER_NODE * v >= 2 * v
  BY <1>1
<1>3. PICK f \in [Nat -> M] : Goes(f, Nat, 1, step)
  <2>1. step \in [Nat -> [M -> M]] /\ 1 \in M
    BY <1>2
  <2> HIDE DEF step, M
  <2>2. QED
    BY <2>1, RecursionOnNat, Zenon
<1>4. f = [x \in Nat |-> IF x = 0 THEN 1 ELSE HASHES_PER_NODE * f[x - 1]]
  <2>1. \A x \in Nat : x # 0 => x - 1 \in Nat /\ f[x - 1] \in M
    OBVIOUS
  <2>2. \A x \in Nat : f[x] = IF x = 0 THEN 1 ELSE HASHES_PER_NODE * f[x - 1]
    BY <1>3, <2>1, Zenon DEF Goes
  <2>3. QED
    BY <2>2
<1>5. leaves_per_hash = [x \in Nat |-> IF x = 0 THEN 1 ELSE HASHES_PER_NODE * leaves_per_hash[x - 1]]
  BY <1>4, Zenon DEF leaves_per_hash
<1>6. \A x \in Nat : leaves_per_hash[x + 1] = HASHES_PER_NODE * leaves_per_hash[x]
  BY <1>5
<1>7. leaves_per_hash[0] = 1
  BY <1>5
<1> DEFINE P == {x \in Nat : leaves_per_hash[x] \in M /\ x < leaves_per_hash[x]}
<1>8. \A x \in Nat : x \in P
  <2>1. 0 \in P
    BY <1>7
  <2>2. ASSUME NEW x \in Nat, x \in P PROVE x + 1 \in P
    BY <1>2, <1>6, <2>2
  <2>3. QED
    BY <2>1, <2>2, Induction, Zenon
<1>9. QED
  BY <1>5, <1>6, <1>7, <1>8, Zenon

\* A level more is as many bits more as the slots of a node need.
LEMMA LeavesPerHashBits ==
    LET bits == bit_length(HASHES_PER_NODE - 1)
    IN  /\ bits \in Nat \ {0}
        /\ \A x \in Nat : leaves_per_hash[x] = two_to[x * bits]
<1> DEFINE bits == bit_length(HASHES_PER_NODE - 1)
<1>1. PICK b \in 1 .. CHUNK_SIZE : HASHES_PER_NODE = two_to[b]
  BY HashSizeAssumption
<1>2. b \in Nat \ {0}
  BY <1>1, NodeFacts
<1>3. \A r \in Nat : two_to[r] \in Nat
  BY TwoTo
<1>4. HASHES_PER_NODE - 1 \in Nat /\ HASHES_PER_NODE \in Nat
  BY NodeFacts
<1>5. bits \in Nat /\ \A r \in Nat : bits <= r <=> HASHES_PER_NODE - 1 < two_to[r]
  BY <1>4, BitLength
<1> HIDE DEF bits
<1>6. \A r \in Nat : bits <= r <=> b <= r
  BY <1>1, <1>2, <1>3, <1>4, <1>5, TwoToGrows
<1>7. bits = b
  BY <1>2, <1>5, <1>6
<1> DEFINE P == {x \in Nat : leaves_per_hash[x] = two_to[x * b]}
<1>8. \A x \in Nat : x \in P
  <2>1. 0 \in P
    BY <1>2, LeavesPerHash, TwoTo
  <2>2. ASSUME NEW x \in Nat, x \in P PROVE x + 1 \in P
    <3>1. x * b \in Nat /\ (x + 1) * b = b + x * b
      BY <1>2
    <3>2. two_to[b + x * b] = two_to[b] * two_to[x * b]
      BY <1>2, <3>1, TwoToSum
    <3>3. leaves_per_hash[x + 1] = HASHES_PER_NODE * leaves_per_hash[x]
      BY LeavesPerHash
    <3>4. QED
      BY <1>1, <2>2, <3>1, <3>2, <3>3
  <2>3. QED
    BY <2>1, <2>2, Induction, Zenon
<1>9. QED
  BY <1>2, <1>7, <1>8 DEF bits

-----------------------------------------------------------------------------
(* The height of the tree *)

\* The height is the least level one node of which covers the whole file
\* (merkle_tree_height and log128_ceil, common.rs).
LEMMA HeightAdjoint ==
    ASSUME NEW size \in Nat \ {0}
    PROVE  /\ merkle_tree_height(size) \in Nat
           /\ \A x \in Nat : merkle_tree_height(size) <= x <=> nodes_at_level(x, size) <= 1
<1> DEFINE bits == bit_length(HASHES_PER_NODE - 1)
           pages == divide_roundup(size, HASHES_PER_NODE * CHUNK_SIZE)
           need == bit_length(pages - 1)
           height == divide_roundup(need, bits)
<1>1. merkle_tree_height(size) = height
  BY DEF merkle_tree_height, log128_ceil
<1>2. bits \in Nat \ {0} /\ \A x \in Nat : leaves_per_hash[x] = two_to[x * bits]
  BY LeavesPerHashBits
<1> HIDE DEF bits
<1>3. HASHES_PER_NODE * CHUNK_SIZE \in Nat \ {0}
  BY NodeFacts
<1>4. pages \in Nat /\ \A r \in Nat : pages <= r <=> size <= r * (HASHES_PER_NODE * CHUNK_SIZE)
  BY <1>3, RoundupAdjoint, Zenon
<1> HIDE DEF pages
<1>5. pages # 0
  <2>1. pages <= 0 <=> size <= 0 * (HASHES_PER_NODE * CHUNK_SIZE)
    BY <1>4
  <2>2. QED
    BY <1>3, <1>4, <2>1
<1>6. need \in Nat /\ \A r \in Nat : need <= r <=> pages - 1 < two_to[r]
  BY <1>4, <1>5, BitLength
<1> HIDE DEF need
<1>7. height \in Nat /\ \A r \in Nat : height <= r <=> need <= r * bits
  BY <1>2, <1>6, RoundupAdjoint
<1> HIDE DEF height
<1>8. ASSUME NEW x \in Nat PROVE height <= x <=> nodes_at_level(x, size) <= 1
  <2> DEFINE below == leaves_per_hash[x]
             covered == CHUNK_SIZE * below * HASHES_PER_NODE
  <2>1. below \in Nat \ {0} /\ below = two_to[x * bits] /\ x * bits \in Nat
    BY <1>2, LeavesPerHash
  <2> HIDE DEF below
  <2>2. height <= x <=> pages - 1 < below
    BY <1>6, <1>7, <2>1
  <2>3. pages - 1 < below <=> pages <= below
    BY <1>4, <2>1
  <2>4. pages <= below <=> size <= below * (HASHES_PER_NODE * CHUNK_SIZE)
    BY <1>4, <2>1
  <2>5. covered \in Nat \ {0} /\ below * (HASHES_PER_NODE * CHUNK_SIZE) = 1 * covered
    BY <2>1, NodeFacts
  <2>6. nodes_at_level(x, size) <= 1 <=> size <= 1 * covered
    <3>1. nodes_at_level(x, size) = divide_roundup(size, covered)
      BY DEF nodes_at_level, below
    <3> HIDE DEF covered
    <3>2. QED
      BY <2>5, <3>1, RoundupAdjoint
  <2>7. QED
    BY <2>2, <2>3, <2>4, <2>5, <2>6
<1>9. QED
  BY <1>1, <1>7, <1>8

-----------------------------------------------------------------------------
(* The levels of hashes *)

\* The defining equations of Levels.
LEMMA LevelsEquations ==
    ASSUME NEW v
    PROVE  /\ Levels(v)[0] = v
           /\ \A h \in Nat : Levels(v)[h + 1] = hash_all_pages(Levels(v)[h])
<1> DEFINE Starts(g, n) == \A k \in 0 .. n : g[k] = IF k = 0 THEN v ELSE hash_all_pages(g[k - 1])
           Done == {n \in Nat : \E g : Starts(g, n)}
<1>1. \A n \in Nat : n \in Done
  <2>1. 0 \in Done
    <3> DEFINE g == [k \in 0 .. 0 |-> v]
    <3>1. Starts(g, 0)
      OBVIOUS
    <3>2. QED
      BY <3>1, Zenon
  <2>2. ASSUME NEW n \in Nat, n \in Done PROVE n + 1 \in Done
    <3>1. PICK g : Starts(g, n)
      BY <2>2
    <3> DEFINE h == [k \in 0 .. n + 1 |-> IF k = n + 1 THEN hash_all_pages(g[n]) ELSE g[k]]
    <3>2. Starts(h, n + 1)
      BY <3>1
    <3> HIDE DEF Starts, h
    <3>3. QED
      BY <3>2
  <2>3. QED
    BY <2>1, <2>2, Induction, Zenon
<1>2. ASSUME NEW m \in Nat, NEW n \in Nat, m <= n, NEW g, Starts(g, m), NEW h, Starts(h, n)
      PROVE  g[m] = h[m]
  <2> DEFINE Same == {k \in Nat : k <= m => g[k] = h[k]}
  <2>1. 0 \in Same
    BY <1>2
  <2>2. ASSUME NEW k \in Nat, k \in Same PROVE k + 1 \in Same
    <3>1. SUFFICES ASSUME k + 1 <= m PROVE g[k + 1] = h[k + 1]
      OBVIOUS
    <3>2. g[k] = h[k]
      BY <2>2, <3>1
    <3>3. /\ k + 1 \in 0 .. m /\ k + 1 \in 0 .. n /\ k + 1 # 0
          /\ (k + 1) - 1 = k
      BY <1>2, <3>1
    <3>4. QED
      BY <1>2, <3>2, <3>3
  <2>3. m \in Same
    BY <2>1, <2>2, Induction, Zenon
  <2>4. QED
    BY <2>3
<1> DEFINE G(n) == CHOOSE g : Starts(g, n)
           f == [n \in Nat |-> G(n)[n]]
<1>3. ASSUME NEW n \in Nat PROVE Starts(G(n), n)
  <2>1. \E g : Starts(g, n)
    BY <1>1
  <2>2. QED
    BY <2>1, Zenon
<1> HIDE DEF G
<1>4. ASSUME NEW n \in Nat, n # 0 PROVE f[n] = hash_all_pages(f[n - 1])
  <2>1. n - 1 \in Nat /\ n - 1 <= n /\ n \in 0 .. n
    BY <1>4
  <2>2. G(n)[n] = hash_all_pages(G(n)[n - 1])
    BY <1>3, <1>4, <2>1
  <2>3. G(n - 1)[n - 1] = G(n)[n - 1]
    <3>1. Starts(G(n - 1), n - 1) /\ Starts(G(n), n)
      BY <1>3, <2>1
    <3> HIDE DEF Starts
    <3>2. QED
      BY <1>2, <2>1, <3>1
  <2>4. QED
    BY <2>1, <2>2, <2>3
<1>5. f[0] = v
  BY <1>3
<1>6. f = [h \in Nat |-> IF h = 0 THEN v ELSE hash_all_pages(f[h - 1])]
  BY <1>4, <1>5
<1>7. Levels(v) = [h \in Nat |-> IF h = 0 THEN v ELSE hash_all_pages(Levels(v)[h - 1])]
  BY <1>6, Zenon DEF Levels
<1>8. QED
  BY <1>7

\* A level of hashes is hashed into one hash for each of its pages.
LEMMA HashAllPages ==
    ASSUME NEW s, Len(s) \in Nat
    PROVE  LET n == divide_roundup(Len(s), HASHES_PER_NODE)
           IN  /\ n \in Nat
               /\ Pages(s) = [k \in 1 .. n |-> Page(s, k)]
               /\ DOMAIN Pages(s) = 1 .. n
               /\ Len(Pages(s)) = n
               /\ hash_all_pages(s) = [k \in 1 .. n |-> Sha256(Page(s, k))]
               /\ Len(hash_all_pages(s)) = n
<1> DEFINE n == divide_roundup(Len(s), HASHES_PER_NODE)
<1>1. n \in Nat
  BY NodeFacts, RoundupAdjoint
<1>2. Pages(s) = [k \in 1 .. n |-> Page(s, k)]
  BY DEF Pages
<1> HIDE DEF n
<1>3. hash_all_pages(s) = [k \in 1 .. n |-> Sha256(Page(s, k))]
  BY <1>2 DEF hash_all_pages
<1>4. Len(Pages(s)) = n /\ Len(hash_all_pages(s)) = n
  BY <1>1, <1>2, <1>3
<1>5. QED
  BY <1>1, <1>2, <1>3, <1>4 DEF n

\* A level has one hash for so many leaves.
LEMMA LevelLengths ==
    ASSUME NEW v, Len(v) \in Nat
    PROVE  \A h \in Nat : /\ Len(Levels(v)[h]) \in Nat
                          /\ Len(Levels(v)[h]) = divide_roundup(Len(v), leaves_per_hash[h])
<1> DEFINE P == {h \in Nat : /\ Len(Levels(v)[h]) \in Nat
                             /\ Len(Levels(v)[h]) = divide_roundup(Len(v), leaves_per_hash[h])}
<1>1. 0 \in P
  <2>1. divide_roundup(Len(v), 1) = Len(v)
    BY DEF divide_roundup
  <2>2. QED
    BY <2>1, LevelsEquations, LeavesPerHash, Zenon
<1>2. ASSUME NEW h \in Nat, h \in P PROVE h + 1 \in P
  <2> DEFINE l == leaves_per_hash[h]
             s == Levels(v)[h]
  <2>1. l \in Nat \ {0} /\ HASHES_PER_NODE \in Nat \ {0}
    <3>1. l \in Nat \ {0}
      BY LeavesPerHash, Zenon
    <3>2. QED
      BY <3>1, NodeFacts
  <2>2. leaves_per_hash[h + 1] = l * HASHES_PER_NODE
    BY <2>1, LeavesPerHash
  <2>3. Levels(v)[h + 1] = hash_all_pages(s)
    BY LevelsEquations
  <2>4. Len(s) \in Nat /\ Len(s) = divide_roundup(Len(v), l)
    BY <1>2
  <2> HIDE DEF l, s
  <2>5. /\ divide_roundup(Len(s), HASHES_PER_NODE) \in Nat
        /\ Len(hash_all_pages(s)) = divide_roundup(Len(s), HASHES_PER_NODE)
    BY <2>4, HashAllPages
  <2>6. divide_roundup(divide_roundup(Len(v), l), HASHES_PER_NODE) = divide_roundup(Len(v), l * HASHES_PER_NODE)
    BY <2>1, RoundupTwice
  <2>7. QED
    BY <2>2, <2>3, <2>4, <2>5, <2>6
<1>3. \A h \in Nat : h \in P
  BY <1>1, <1>2, Induction, Zenon
<1>4. QED
  BY <1>3

-----------------------------------------------------------------------------
(* The stored tree *)

\* v are the leaves of a file of that size, which is not empty.
LeavesOf(v, size) ==
    /\ size \in Nat \ {0}
    /\ Len(v) \in Nat
    /\ Len(v) = divide_roundup(size, CHUNK_SIZE)

\* The verifier counts the nodes of a level as the tree has them.
LEMMA LevelNodes ==
    ASSUME NEW v, NEW size, LeavesOf(v, size), NEW x \in Nat
    PROVE  /\ nodes_at_level(x, size) \in Nat \ {0}
           /\ Len(Levels(v)[x + 1]) = nodes_at_level(x, size)
           /\ Len(Pages(Levels(v)[x])) = nodes_at_level(x, size)
<1> DEFINE l == leaves_per_hash[x]
           m == HASHES_PER_NODE * l
           covered == CHUNK_SIZE * l * HASHES_PER_NODE
<1>1. size \in Nat \ {0} /\ Len(v) \in Nat /\ Len(v) = divide_roundup(size, CHUNK_SIZE)
  BY DEF LeavesOf
<1>2. l \in Nat \ {0}
  BY LeavesPerHash
<1>3. leaves_per_hash[x + 1] = m
  BY LeavesPerHash
<1> HIDE DEF l
<1>4. m \in Nat \ {0} /\ covered \in Nat \ {0} /\ CHUNK_SIZE * m = covered
  BY <1>2, NodeFacts
<1>5. nodes_at_level(x, size) = divide_roundup(size, covered)
  BY DEF nodes_at_level, l
<1> HIDE DEF m, covered
<1>6. divide_roundup(divide_roundup(size, CHUNK_SIZE), m) = divide_roundup(size, CHUNK_SIZE * m)
  BY <1>1, <1>4, NodeFacts, RoundupTwice
<1>7. Len(Levels(v)[x + 1]) = divide_roundup(Len(v), leaves_per_hash[x + 1])
  BY <1>1, LevelLengths
<1>8. Len(Levels(v)[x + 1]) = nodes_at_level(x, size)
  BY <1>1, <1>3, <1>4, <1>5, <1>6, <1>7
<1>9. nodes_at_level(x, size) \in Nat \ {0}
  <2>1. /\ divide_roundup(size, covered) \in Nat
        /\ divide_roundup(size, covered) <= 0 <=> size <= 0 * covered
    BY <1>1, <1>4, RoundupAdjoint
  <2>2. QED
    BY <1>1, <1>4, <1>5, <2>1
<1>10. Len(Pages(Levels(v)[x])) = nodes_at_level(x, size)
  <2>1. Len(Levels(v)[x]) \in Nat
    BY <1>1, LevelLengths
  <2>2. Len(Pages(Levels(v)[x])) = Len(hash_all_pages(Levels(v)[x]))
    BY <2>1, HashAllPages
  <2>3. QED
    BY <1>8, <2>2, LevelsEquations, Zenon
<1>11. QED
  BY <1>8, <1>9, <1>10

\* The root level of the stored tree is the height that the code computes.
LEMMA RootLevelIsHeight ==
    ASSUME NEW v, NEW size, LeavesOf(v, size)
    PROVE  RootLevel(v) = merkle_tree_height(size)
<1> DEFINE H == merkle_tree_height(size)
           Count(x) == Len(Levels(v)[x + 1])
           Root(h) == Count(h) = 1 /\ \A g \in 0 .. h - 1 : Count(g) > 1
<1>1. size \in Nat \ {0} /\ Len(v) \in Nat /\ Len(v) = divide_roundup(size, CHUNK_SIZE)
  BY DEF LeavesOf
<1>2. H \in Nat /\ \A x \in Nat : H <= x <=> nodes_at_level(x, size) <= 1
  BY <1>1, HeightAdjoint
<1> HIDE DEF H
<1>3. RootLevel(v) = CHOOSE h \in 0 .. Len(v) : Root(h)
  BY DEF RootLevel
<1>4. \A x \in Nat : Count(x) \in Nat \ {0} /\ Count(x) = nodes_at_level(x, size)
  BY LevelNodes, Zenon
<1> HIDE DEF Count
<1>5. \A x \in Nat : Count(x) \in Nat /\ Count(x) > 0 /\ (H <= x <=> Count(x) = 1)
  BY <1>2, <1>4
<1>6. H <= Len(v)
  <2> DEFINE l == leaves_per_hash[Len(v)]
             m == l * HASHES_PER_NODE
             covered == CHUNK_SIZE * l * HASHES_PER_NODE
  <2>1. size <= Len(v) * CHUNK_SIZE
    BY <1>1, NodeFacts, RoundupAdjoint
  <2>2. Len(v) < l /\ l \in Nat \ {0}
    BY <1>1, LeavesPerHash
  <2>3. nodes_at_level(Len(v), size) = divide_roundup(size, covered)
    BY DEF nodes_at_level
  <2> HIDE DEF l
  <2>4. m \in Nat /\ Len(v) <= m
    BY <1>1, <2>2, NodeFacts
  <2>5. covered = m * CHUNK_SIZE /\ covered \in Nat \ {0}
    BY <2>2, NodeFacts
  <2> HIDE DEF m, covered
  <2>6. Len(v) * CHUNK_SIZE <= m * CHUNK_SIZE
    BY <1>1, <2>4, NodeFacts
  <2>7. size <= 1 * covered
    BY <1>1, <2>1, <2>4, <2>5, <2>6, NodeFacts
  <2>8. divide_roundup(size, covered) <= 1
    BY <1>1, <2>5, <2>7, RoundupAdjoint
  <2>9. QED
    BY <1>1, <1>2, <2>3, <2>8
<1>7. H \in 0 .. Len(v) /\ Root(H)
  BY <1>1, <1>2, <1>5, <1>6
<1>8. ASSUME NEW h \in 0 .. Len(v), Root(h) PROVE h = H
  <2>1. h \in Nat /\ H <= h
    BY <1>1, <1>5, <1>8
  <2>2. H < h => Count(H) > 1 /\ Count(H) = 1
    BY <1>1, <1>2, <1>5, <1>8, <2>1
  <2>3. QED
    BY <1>2, <1>5, <2>1, <2>2
<1> HIDE DEF Root
<1>9. QED
  BY <1>3, <1>7, <1>8, Zenon DEF H

\* The defining equations of the scan that lays out the levels.
LEMMA LevelOffset ==
    ASSUME NEW v, NEW size, LeavesOf(v, size)
    PROVE  LET H == merkle_tree_height(size)
               offset == level_offset(size)
           IN  /\ offset \in [0 .. H -> Nat]
               /\ offset[0] = 0
               /\ \A d \in 1 .. H : offset[d] = offset[d - 1] + level_size(H - d + 1, size)
<1> DEFINE H == merkle_tree_height(size)
           D == 0 .. H
           step == [d \in D |-> [s \in Nat |-> IF d = 0 THEN s ELSE s + level_size(H - d + 1, size)]]
<1>1. size \in Nat \ {0}
  BY DEF LeavesOf
<1>2. H \in Nat
  BY <1>1, HeightAdjoint
<1>3. level_offset(size) = CHOOSE f : f = [d \in 0 .. H |-> IF d = 0 THEN 0 ELSE f[d - 1] + level_size(H - d + 1, size)]
  BY Zenon DEF level_offset
<1> HIDE DEF H
<1>4. ASSUME NEW d \in D, d # 0 PROVE level_size(H - d + 1, size) \in Nat
  <2>1. H - d + 1 \in Nat
    BY <1>2
  <2>2. nodes_at_level(H - d + 1, size) \in Nat
    BY <2>1, LevelNodes
  <2>3. QED
    BY <2>2, NodeFacts DEF level_size
<1>5. PICK f \in [D -> Nat] : Goes(f, D, 0, step)
  <2>1. step \in [D -> [Nat -> Nat]]
    BY <1>4
  <2>2. D \in SUBSET Nat /\ 0 \in Nat /\ \A d \in D : d # 0 => d - 1 \in D
    BY <1>2
  <2> HIDE DEF step, D
  <2>3. QED
    BY <2>1, <2>2, Recursion, Zenon
<1>6. f = [d \in 0 .. H |-> IF d = 0 THEN 0 ELSE f[d - 1] + level_size(H - d + 1, size)]
  <2>1. \A d \in D : d # 0 => d - 1 \in D /\ f[d - 1] \in Nat
    BY <1>2
  <2>2. \A d \in D : f[d] = IF d = 0 THEN 0 ELSE f[d - 1] + level_size(H - d + 1, size)
    BY <1>5, <2>1, Zenon DEF Goes
  <2>3. QED
    BY <2>2
<1> DEFINE offset == level_offset(size)
<1>7. offset = [d \in 0 .. H |-> IF d = 0 THEN 0 ELSE offset[d - 1] + level_size(H - d + 1, size)]
  BY <1>3, <1>6, Zenon
<1> HIDE DEF offset
<1>8. offset[0] = 0 /\ \A d \in 1 .. H : offset[d] = offset[d - 1] + level_size(H - d + 1, size)
  BY <1>2, <1>7
<1> DEFINE P == {d \in Nat : d \in D => offset[d] \in Nat}
<1>9. \A d \in Nat : d \in P
  <2>1. 0 \in P
    BY <1>8
  <2>2. ASSUME NEW d \in Nat, d \in P PROVE d + 1 \in P
    <3>1. SUFFICES ASSUME d + 1 \in D PROVE offset[d + 1] \in Nat
      OBVIOUS
    <3>2. offset[d] \in Nat /\ d + 1 \in 1 .. H /\ (d + 1) - 1 = d
      BY <1>2, <2>2, <3>1
    <3>3. level_size(H - (d + 1) + 1, size) \in Nat
      BY <1>4, <3>1
    <3>4. QED
      BY <1>8, <3>2, <3>3
  <2>3. QED
    BY <2>1, <2>2, Induction, Zenon
<1>10. offset \in [0 .. H -> Nat]
  <2>1. offset = [d \in 0 .. H |-> offset[d]]
    BY <1>7
  <2>2. \A d \in 0 .. H : offset[d] \in Nat
    BY <1>2, <1>9
  <2>3. QED
    BY <2>1, <2>2
<1>11. QED
  BY <1>8, <1>10 DEF H, offset

\* The pages of all levels.
AllPages(v) == {Page(Levels(v)[h], k) : h \in Nat, k \in Nat}

\* The pages of a level are a sequence of pages of the tree.
LEMMA PagesType ==
    ASSUME NEW v, Len(v) \in Nat, NEW x \in Nat
    PROVE  Pages(Levels(v)[x]) \in Seq(AllPages(v))
<1> DEFINE s == Levels(v)[x]
           n == divide_roundup(Len(s), HASHES_PER_NODE)
<1>1. Len(s) \in Nat
  BY LevelLengths
<1>2. n \in Nat /\ Pages(s) = [k \in 1 .. n |-> Page(s, k)]
  BY <1>1, HashAllPages, Zenon
<1> HIDE DEF n
<1>3. \A k \in 1 .. n : Page(s, k) \in AllPages(v)
  BY <1>2 DEF AllPages
<1> HIDE DEF s
<1>4. QED
  BY <1>2, <1>3 DEF s

\* f piles up the levels of the tree, from the root page down.
Piles(f, v, H) ==
    /\ f \in [0 .. H -> Seq(AllPages(v))]
    /\ f[0] = Pages(Levels(v)[H])
    /\ \A d \in 1 .. H : f[d] = f[d - 1] \o Pages(Levels(v)[H - d])

\* The defining equations of the stored tree.
LEMMA StoredTreeEquations ==
    ASSUME NEW v, NEW size, LeavesOf(v, size)
    PROVE  LET H == merkle_tree_height(size)
           IN  \E tree : Piles(tree, v, H) /\ StoredTree(v) = tree[H]
<1> DEFINE H == merkle_tree_height(size)
           D == 0 .. H
           S == Seq(AllPages(v))
           step == [d \in D |-> [s \in S |-> s \o Pages(Levels(v)[H - d])]]
           Fits(f) == f = [d \in 0 .. H |-> IF d = 0 THEN Pages(Levels(v)[H - d])
                                            ELSE f[d - 1] \o Pages(Levels(v)[H - d])]
<1>1. size \in Nat \ {0} /\ Len(v) \in Nat /\ v # <<>>
  <2>1. /\ size \in Nat \ {0} /\ Len(v) \in Nat
        /\ Len(v) = divide_roundup(size, CHUNK_SIZE)
    BY DEF LeavesOf
  <2>2. divide_roundup(size, CHUNK_SIZE) <= 0 <=> size <= 0 * CHUNK_SIZE
    BY <2>1, NodeFacts, RoundupAdjoint
  <2>3. Len(v) # 0
    BY <2>1, <2>2, NodeFacts
  <2>4. QED
    BY <2>1, <2>3
<1>2. H \in Nat
  BY <1>1, HeightAdjoint
<1>3. StoredTree(v) = (CHOOSE f : Fits(f))[H]
  <2>1. RootLevel(v) = H
    BY RootLevelIsHeight
  <2>2. QED
    BY <1>1, <2>1, Zenon DEF StoredTree
<1> HIDE DEF H
<1>4. ASSUME NEW d \in D PROVE Pages(Levels(v)[H - d]) \in S
  <2>1. H - d \in Nat
    BY <1>2
  <2>2. QED
    BY <1>1, <2>1, PagesType, Zenon
<1>5. PICK f \in [D -> S] : Goes(f, D, Pages(Levels(v)[H]), step)
  <2>1. step \in [D -> [S -> S]]
    BY <1>4
  <2>2. D \in SUBSET Nat /\ \A d \in D : d # 0 => d - 1 \in D
    BY <1>2
  <2>3. Pages(Levels(v)[H]) \in S
    BY <1>1, <1>2, PagesType
  <2> HIDE DEF step, D, S
  <2>4. QED
    BY <2>1, <2>2, <2>3, Recursion, Zenon
<1>6. Fits(f)
  <2>1. \A d \in D : d # 0 => d - 1 \in D /\ f[d - 1] \in S
    BY <1>2
  <2>2. \A d \in D : d = 0 => H - d = H
    BY <1>2
  <2> HIDE DEF S
  <2>3. \A d \in D : f[d] = IF d = 0 THEN Pages(Levels(v)[H - d])
                            ELSE f[d - 1] \o Pages(Levels(v)[H - d])
    BY <1>5, <2>1, <2>2, Zenon DEF Goes
  <2>4. QED
    BY <2>3, Zenon
<1> DEFINE tree == CHOOSE g : Fits(g)
<1>7. Fits(tree)
  BY <1>6, Zenon
<1> HIDE DEF tree
<1>8. /\ tree[0] = Pages(Levels(v)[H])
      /\ \A d \in 1 .. H : tree[d] = tree[d - 1] \o Pages(Levels(v)[H - d])
  <2>1. \A d \in 0 .. H : tree[d] = IF d = 0 THEN Pages(Levels(v)[H - d])
                                    ELSE tree[d - 1] \o Pages(Levels(v)[H - d])
    BY <1>7, Zenon
  <2>2. 0 \in 0 .. H /\ H - 0 = H /\ \A d \in 1 .. H : d \in 0 .. H /\ d # 0
    BY <1>2
  <2>3. QED
    BY <2>1, <2>2, Zenon
<1>9. tree \in [0 .. H -> S]
  <2> DEFINE P == {d \in Nat : d \in D => tree[d] \in S}
  <2>1. 0 \in P
    <3>1. 0 \in D /\ H - 0 = H
      BY <1>2
    <3>2. tree[0] \in S
      BY <1>4, <1>8, <3>1
    <3>3. QED
      BY <3>2
  <2>2. ASSUME NEW d \in Nat, d \in P PROVE d + 1 \in P
    <3>1. SUFFICES ASSUME d + 1 \in D PROVE tree[d + 1] \in S
      OBVIOUS
    <3>2. tree[d] \in S /\ d + 1 \in 1 .. H /\ (d + 1) - 1 = d
      BY <1>2, <2>2, <3>1
    <3>3. Pages(Levels(v)[H - (d + 1)]) \in S
      BY <1>4, <3>1
    <3>4. tree[d + 1] = tree[d] \o Pages(Levels(v)[H - (d + 1)])
      BY <1>8, <3>2, Zenon
    <3>5. QED
      BY <3>2, <3>3, <3>4
  <2>3. \A d \in Nat : d \in P
    BY <2>1, <2>2, Induction, Zenon
  <2>4. tree = [d \in 0 .. H |-> tree[d]]
    BY <1>7
  <2>5. \A d \in 0 .. H : tree[d] \in S
    BY <1>2, <2>3
  <2>6. QED
    BY <2>4, <2>5
<1>10. QED
  BY <1>3, <1>8, <1>9, Zenon DEF Piles, tree, H

\* u is s followed by t.
Glued(u, s, t) ==
    /\ Len(u) = Len(s) + Len(t)
    /\ \A p \in 1 .. Len(s) : u[p] = s[p]
    /\ \A j \in 1 .. Len(t) : u[Len(s) + j] = t[j]

\* Two sequences of pages put together.
LEMMA Concatenation ==
    ASSUME NEW S, NEW s \in Seq(S), NEW t \in Seq(S), NEW u, u = s \o t
    PROVE  Glued(u, s, t)
BY DEF Glued

\* Where a level starts in the stored tree, in pages, and what its pages are.
LEMMA StoredPages ==
    ASSUME NEW v, NEW size, LeavesOf(v, size),
           NEW x \in 0 .. merkle_tree_height(size)
    PROVE  \E b \in Nat :
              /\ level_offset(size)[merkle_tree_height(size) - x] = b * CHUNK_SIZE
              /\ x = merkle_tree_height(size) => b = 0
              /\ \A j \in 1 .. nodes_at_level(x, size) :
                    /\ b + j \in 1 .. Len(StoredTree(v))
                    /\ StoredTree(v)[b + j] = Page(Levels(v)[x], j)
<1> DEFINE H == merkle_tree_height(size)
           offset == level_offset(size)
           nodes == [y \in Nat |-> nodes_at_level(y, size)]
<1>1. size \in Nat \ {0} /\ Len(v) \in Nat
  BY DEF LeavesOf
<1>2. H \in Nat
  BY <1>1, HeightAdjoint
<1>3. /\ offset \in [0 .. H -> Nat]
      /\ offset[0] = 0
      /\ \A d \in 1 .. H : offset[d] = offset[d - 1] + level_size(H - d + 1, size)
  BY LevelOffset
<1>4. PICK tree : Piles(tree, v, H) /\ StoredTree(v) = tree[H]
  BY StoredTreeEquations
<1>5. \A y \in Nat : /\ nodes[y] \in Nat \ {0}
                     /\ Pages(Levels(v)[y]) \in Seq(AllPages(v))
                     /\ Len(Pages(Levels(v)[y])) = nodes[y]
                     /\ level_size(y, size) = nodes[y] * CHUNK_SIZE
  BY <1>1, LevelNodes, PagesType, Zenon DEF level_size
<1> HIDE DEF H, offset, nodes
<1> DEFINE Q(d) == \E b \in Nat :
                      /\ offset[d] = b * CHUNK_SIZE
                      /\ d = 0 => b = 0
                      /\ Len(tree[d]) = b + nodes[H - d]
                      /\ \A j \in 1 .. nodes[H - d] :
                            tree[d][b + j] = Pages(Levels(v)[H - d])[j]
<1>6. Q(0)
  <2>1. tree[0] = Pages(Levels(v)[H]) /\ H - 0 = H
    BY <1>2, <1>4 DEF Piles
  <2>2. Len(tree[0]) = 0 + nodes[H - 0]
    <3>1. nodes[H] \in Nat /\ Len(Pages(Levels(v)[H])) = nodes[H]
      BY <1>2, <1>5
    <3>2. QED
      BY <2>1, <3>1
  <2>3. \A j \in 1 .. nodes[H - 0] : tree[0][0 + j] = Pages(Levels(v)[H - 0])[j]
    BY <1>2, <1>5, <2>1
  <2>4. offset[0] = 0 * CHUNK_SIZE
    BY <1>3, NodeFacts
  <2>5. QED
    BY <2>2, <2>3, <2>4
<1>7. ASSUME NEW d \in Nat, d + 1 <= H, Q(d) PROVE Q(d + 1)
  <2>1. PICK b \in Nat : /\ offset[d] = b * CHUNK_SIZE
                         /\ Len(tree[d]) = b + nodes[H - d]
    BY <1>7
  <2> DEFINE y == H - (d + 1)
             c == b + nodes[H - d]
             pages == Pages(Levels(v)[y])
  <2>2. /\ d \in 0 .. H /\ d + 1 \in 1 .. H /\ (d + 1) - 1 = d
        /\ H - (d + 1) + 1 = H - d
        /\ y \in Nat /\ H - d \in Nat
    BY <1>2, <1>7
  <2>3. nodes[H - d] \in Nat /\ c \in Nat /\ level_size(H - d, size) = nodes[H - d] * CHUNK_SIZE
    <3>1. nodes[H - d] \in Nat \ {0} /\ level_size(H - d, size) = nodes[H - d] * CHUNK_SIZE
      BY <1>5, <2>2, Zenon
    <3>2. QED
      BY <3>1
  <2>4. offset[d + 1] = c * CHUNK_SIZE
    BY <1>3, <2>1, <2>2, <2>3, NodeFacts
  <2>5. tree[d] \in Seq(AllPages(v)) /\ tree[d + 1] = tree[d] \o pages
    BY <1>4, <2>2, Zenon DEF Piles
  <2>6. pages \in Seq(AllPages(v)) /\ Len(pages) = nodes[y] /\ nodes[y] \in Nat
    BY <1>5, <2>2, Zenon
  <2> HIDE DEF c, pages, y
  <2>7. Len(tree[d]) = c
    BY <2>1 DEF c
  <2>8. /\ Len(tree[d + 1]) = Len(tree[d]) + Len(pages)
        /\ \A j \in 1 .. Len(pages) : tree[d + 1][Len(tree[d]) + j] = pages[j]
    <3>1. Glued(tree[d + 1], tree[d], pages)
      BY <2>5, <2>6, Concatenation, Zenon
    <3>2. QED
      BY <3>1, Zenon DEF Glued
  <2>9. /\ Len(tree[d + 1]) = c + nodes[y]
        /\ \A j \in 1 .. nodes[y] : tree[d + 1][c + j] = pages[j]
    BY <2>6, <2>7, <2>8, Zenon
  <2>10. QED
    BY <2>3, <2>4, <2>9 DEF pages, y
<1>8. \A d \in 0 .. H : Q(d)
  <2> HIDE DEF Q
  <2> DEFINE P == {d \in Nat : d <= H => Q(d)}
  <2>1. 0 \in P
    BY <1>6
  <2>2. ASSUME NEW d \in Nat, d \in P PROVE d + 1 \in P
    BY <1>2, <1>7, <2>2
  <2>3. \A d \in Nat : d \in P
    BY <2>1, <2>2, Induction, Zenon
  <2>4. QED
    BY <1>2, <2>3
<1>9. ASSUME NEW d \in 0 .. H
      PROVE  /\ Len(tree[d]) \in Nat /\ Len(tree[d]) <= Len(tree[H]) /\ Len(tree[H]) \in Nat
             /\ \A p \in 1 .. Len(tree[d]) : tree[H][p] = tree[d][p]
  <2> DEFINE P == {e \in Nat : d + e <= H =>
                     /\ Len(tree[d]) <= Len(tree[d + e])
                     /\ \A p \in 1 .. Len(tree[d]) : tree[d + e][p] = tree[d][p]}
  <2>0. \A e \in 0 .. H : tree[e] \in Seq(AllPages(v)) /\ Len(tree[e]) \in Nat
    BY <1>4 DEF Piles
  <2>1. 0 \in P
    BY <1>2, <2>0
  <2>2. ASSUME NEW e \in Nat, e \in P PROVE e + 1 \in P
    <3>1. SUFFICES ASSUME d + (e + 1) <= H
                   PROVE  /\ Len(tree[d]) <= Len(tree[d + (e + 1)])
                          /\ \A p \in 1 .. Len(tree[d]) : tree[d + (e + 1)][p] = tree[d][p]
      OBVIOUS
    <3> DEFINE g == d + e
               pages == Pages(Levels(v)[H - (g + 1)])
    <3>2. /\ g \in 0 .. H /\ g + 1 \in 1 .. H /\ (g + 1) - 1 = g /\ d + (e + 1) = g + 1
          /\ H - (g + 1) \in Nat
      BY <1>2, <3>1
    <3>3. /\ Len(tree[d]) <= Len(tree[g])
          /\ \A p \in 1 .. Len(tree[d]) : tree[g][p] = tree[d][p]
      BY <1>2, <2>2, <3>1
    <3>4. tree[g + 1] = tree[g] \o pages
      BY <1>4, <3>2, Zenon DEF Piles
    <3>5. pages \in Seq(AllPages(v)) /\ tree[g] \in Seq(AllPages(v)) /\ Len(tree[d]) \in Nat
      BY <1>5, <2>0, <3>2, Zenon
    <3> HIDE DEF pages, g
    <3>6. /\ Len(tree[g + 1]) = Len(tree[g]) + Len(pages)
          /\ \A p \in 1 .. Len(tree[g]) : tree[g + 1][p] = tree[g][p]
      <4>1. Glued(tree[g + 1], tree[g], pages)
        BY <3>4, <3>5, Concatenation, Zenon
      <4>2. QED
        BY <4>1, Zenon DEF Glued
    <3>7. Len(tree[g]) \in Nat /\ Len(pages) \in Nat
      BY <3>5
    <3>8. Len(tree[d]) <= Len(tree[g + 1])
      BY <3>3, <3>5, <3>6, <3>7
    <3>9. ASSUME NEW p \in 1 .. Len(tree[d]) PROVE tree[g + 1][p] = tree[d][p]
      <4>1. p \in 1 .. Len(tree[g])
        BY <3>3, <3>5, <3>7
      <4>2. QED
        BY <3>3, <3>6, <4>1, Zenon
    <3>10. QED
      BY <3>2, <3>8, <3>9, Zenon
  <2>3. H - d \in P
    <3>1. H - d \in Nat
      BY <1>2
    <3> HIDE DEF P
    <3>2. QED
      BY <2>1, <2>2, <3>1, Induction
  <2>4. d + (H - d) = H /\ H \in 0 .. H
    BY <1>2
  <2>5. QED
    BY <1>2, <2>0, <2>3, <2>4
<1> DEFINE d == H - x
<1>10. d \in 0 .. H /\ H - d = x /\ x \in Nat /\ (x = H => d = 0)
  BY <1>2 DEF H
<1> HIDE DEF d
<1>11. PICK b \in Nat : /\ offset[d] = b * CHUNK_SIZE
                        /\ d = 0 => b = 0
                        /\ Len(tree[d]) = b + nodes[x]
                        /\ \A j \in 1 .. nodes[x] : tree[d][b + j] = Pages(Levels(v)[x])[j]
  BY <1>8, <1>10
<1>12. ASSUME NEW j \in 1 .. nodes[x]
       PROVE  /\ b + j \in 1 .. Len(StoredTree(v))
              /\ StoredTree(v)[b + j] = Page(Levels(v)[x], j)
  <2>1. nodes[x] \in Nat /\ j \in Nat
    BY <1>5, <1>10
  <2>2. b + j \in 1 .. Len(tree[d])
    BY <1>11, <2>1
  <2>3. b + j \in 1 .. Len(tree[H]) /\ tree[H][b + j] = tree[d][b + j]
    BY <1>9, <1>10, <2>2
  <2>4. Pages(Levels(v)[x])[j] = Page(Levels(v)[x], j)
    <3>1. Len(Levels(v)[x]) \in Nat
      BY <1>1, <1>10, LevelLengths
    <3>2. Len(Pages(Levels(v)[x])) = nodes[x]
      BY <1>5, <1>10
    <3>3. QED
      BY <3>1, <3>2, HashAllPages
  <2>5. QED
    BY <1>4, <1>11, <2>3, <2>4
<1>13. QED
  BY <1>10, <1>11, <1>12 DEF d, H, offset, nodes

-----------------------------------------------------------------------------
(* The walk *)

\* A hash of the chunk's way up, and the page it lies in.
WayHash(v, i, x) == Levels(v)[x][(i \div leaves_per_hash[x]) + 1]
WayPage(v, i, x) == Page(Levels(v)[x], (i \div leaves_per_hash[x + 1]) + 1)

\* An offset in the stored tree is a page and a slot in it.
LEMMA OffsetSplits ==
    ASSUME NEW b \in Nat, NEW c \in Nat
    PROVE  LET o == b * CHUNK_SIZE + c * HASH_SIZE
           IN  /\ o \div CHUNK_SIZE = b + (c \div HASHES_PER_NODE)
               /\ (o % CHUNK_SIZE) \div HASH_SIZE = c % HASHES_PER_NODE
<1> DEFINE o == b * CHUNK_SIZE + c * HASH_SIZE
           q == c \div HASHES_PER_NODE
           r == c % HASHES_PER_NODE
<1>1. /\ HASHES_PER_NODE \in Nat /\ HASHES_PER_NODE >= 2
      /\ CHUNK_SIZE \in Nat \ {0} /\ HASH_SIZE \in Nat \ {0}
      /\ CHUNK_SIZE = HASHES_PER_NODE * HASH_SIZE
  BY NodeFacts
<1>2. q \in Nat /\ r \in Nat /\ r <= HASHES_PER_NODE - 1 /\ c = q * HASHES_PER_NODE + r
  BY <1>1
<1> HIDE DEF q, r
<1>3. c * HASH_SIZE = q * CHUNK_SIZE + r * HASH_SIZE
  <2>1. (q * HASHES_PER_NODE + r) * HASH_SIZE = q * (HASHES_PER_NODE * HASH_SIZE) + r * HASH_SIZE
    BY <1>1, <1>2
  <2>2. QED
    BY <1>1, <1>2, <2>1
<1>4. r * HASH_SIZE \in 0 .. CHUNK_SIZE - 1
  <2>1. r * HASH_SIZE <= (HASHES_PER_NODE - 1) * HASH_SIZE
    BY <1>1, <1>2
  <2>2. (HASHES_PER_NODE - 1) * HASH_SIZE = CHUNK_SIZE - HASH_SIZE
    BY <1>1
  <2>3. r * HASH_SIZE \in Nat
    BY <1>1, <1>2
  <2>4. QED
    BY <1>1, <2>1, <2>2, <2>3
<1>5. o = (b + q) * CHUNK_SIZE + r * HASH_SIZE
  BY <1>1, <1>2, <1>3
<1> HIDE DEF o
<1>6. o \div CHUNK_SIZE = b + q /\ o % CHUNK_SIZE = r * HASH_SIZE
  <2> DEFINE m == r * HASH_SIZE
             p == b + q
  <2>1. p \in Nat /\ m \in 0 .. CHUNK_SIZE - 1 /\ o = p * CHUNK_SIZE + m
    BY <1>2, <1>4, <1>5
  <2> HIDE DEF m, p
  <2>2. o \div CHUNK_SIZE = p /\ o % CHUNK_SIZE = m
    BY <1>1, <2>1, QuotientRemainder
  <2>3. QED
    BY <2>2 DEF m, p
<1>7. (r * HASH_SIZE) \div HASH_SIZE = r
  <2>1. r * HASH_SIZE = r * HASH_SIZE + 0 /\ 0 \in 0 .. HASH_SIZE - 1 /\ r * HASH_SIZE \in Nat
    BY <1>1, <1>2
  <2>2. QED
    BY <1>1, <1>2, <2>1, QuotientRemainder
<1>8. QED
  BY <1>6, <1>7 DEF o, q, r

\* Step k of the walk reads the page of the chunk's way, and in it the hash that
\* stands for the chunk; the last step reads the root page (fsverity_walk).
LEMMA WalkStep ==
    ASSUME NEW v, NEW size, LeavesOf(v, size),
           NEW i \in 0 .. Len(v) - 1, NEW k \in 1 .. merkle_tree_height(size) + 1
    PROVE  LET w == fsverity_walk(i, size)[k]
           IN  /\ w.page + 1 \in 1 .. Len(StoredTree(v))
               /\ w.slot \in 1 .. HASHES_PER_NODE
               /\ StoredTree(v)[w.page + 1] = WayPage(v, i, k - 1)
               /\ WayPage(v, i, k - 1)[w.slot] = WayHash(v, i, k - 1)
               /\ k = merkle_tree_height(size) + 1 => w.page = 0
<1> DEFINE H == merkle_tree_height(size)
           x == k - 1
           l == leaves_per_hash[x]
           c == i \div l
           q == c \div HASHES_PER_NODE
           r == c % HASHES_PER_NODE
           s == Levels(v)[x]
           w == fsverity_walk(i, size)[k]
<1>1. size \in Nat \ {0} /\ Len(v) \in Nat /\ i \in Nat /\ i < Len(v)
  BY DEF LeavesOf
<1>2. H \in Nat /\ x \in 0 .. H /\ x \in Nat /\ (k = H + 1 <=> x = H)
  BY <1>1, HeightAdjoint
<1>3. HASHES_PER_NODE \in Nat \ {0}
  BY NodeFacts
<1>4. l \in Nat \ {0} /\ leaves_per_hash[x + 1] = l * HASHES_PER_NODE
  <2>1. l \in Nat \ {0} /\ leaves_per_hash[x + 1] = HASHES_PER_NODE * l
    BY <1>2, LeavesPerHash
  <2>2. QED
    BY <1>3, <2>1
<1>5. PICK b \in Nat :
         /\ level_offset(size)[H - x] = b * CHUNK_SIZE
         /\ x = H => b = 0
         /\ \A j \in 1 .. nodes_at_level(x, size) :
               /\ b + j \in 1 .. Len(StoredTree(v))
               /\ StoredTree(v)[b + j] = Page(Levels(v)[x], j)
  BY <1>2, StoredPages
<1>6. w = [page |-> (b * CHUNK_SIZE + c * HASH_SIZE) \div CHUNK_SIZE,
           slot |-> ((b * CHUNK_SIZE + c * HASH_SIZE) % CHUNK_SIZE) \div HASH_SIZE + 1]
  BY <1>5 DEF fsverity_walk, global_hash_offset
<1>7. nodes_at_level(x, size) \in Nat /\ nodes_at_level(x, size) = divide_roundup(Len(s), HASHES_PER_NODE)
  <2>1. Len(s) \in Nat
    BY <1>1, <1>2, LevelLengths
  <2>2. /\ nodes_at_level(x, size) \in Nat
        /\ Len(Pages(s)) = nodes_at_level(x, size)
    BY <1>2, LevelNodes
  <2>3. QED
    BY <2>1, <2>2, HashAllPages
<1>8. Len(s) \in Nat /\ Len(s) = divide_roundup(Len(v), l)
  BY <1>1, <1>2, LevelLengths
<1>9. i \div leaves_per_hash[x + 1] = q
  <2> HIDE DEF l
  <2>1. l \in Nat \ {0} /\ i \in Nat
    BY <1>1, <1>4
  <2>2. (i \div l) \div HASHES_PER_NODE = i \div (l * HASHES_PER_NODE)
    BY <1>3, <2>1, DivideTwice, Zenon
  <2>3. QED
    BY <1>4, <2>2
<1>10. WayHash(v, i, x) = s[c + 1]
  BY DEF WayHash
<1>11. WayPage(v, i, x) = Page(s, q + 1)
  BY <1>9 DEF WayPage
<1> HIDE DEF H, x, l, s, w
<1>12. c \in Nat /\ c < Len(s)
  <2>1. c \in Nat /\ c * l <= i
    BY <1>1, <1>4, DivAdjoint
  <2> HIDE DEF c
  <2>2. ~ (Len(v) <= c * l)
    BY <1>1, <1>4, <2>1
  <2>3. ~ (divide_roundup(Len(v), l) <= c)
    BY <1>1, <1>4, <2>1, <2>2, RoundupAdjoint
  <2>4. QED
    BY <1>8, <2>1, <2>3
<1> HIDE DEF c
<1>13. /\ q \in Nat /\ r \in 0 .. HASHES_PER_NODE - 1
       /\ c = q * HASHES_PER_NODE + r /\ q * HASHES_PER_NODE \in Nat
  BY <1>3, <1>12
<1>14. w.page = b + q /\ w.slot = r + 1
  BY <1>6, <1>12, OffsetSplits
<1> HIDE DEF q, r
<1>15. q + 1 \in 1 .. nodes_at_level(x, size)
  <2>1. ~ (Len(s) <= q * HASHES_PER_NODE)
    BY <1>8, <1>12, <1>13
  <2>2. ~ (divide_roundup(Len(s), HASHES_PER_NODE) <= q)
    BY <1>3, <1>8, <1>13, <2>1, RoundupAdjoint, Zenon
  <2>3. QED
    BY <1>7, <1>13, <2>2
<1>16. /\ w.page + 1 \in 1 .. Len(StoredTree(v))
       /\ StoredTree(v)[w.page + 1] = Page(s, q + 1)
  <2>1. b + (q + 1) = w.page + 1
    BY <1>13, <1>14
  <2>2. QED
    BY <1>5, <1>15, <2>1 DEF s
<1>17. w.slot \in 1 .. HASHES_PER_NODE /\ Page(s, q + 1)[w.slot] = s[c + 1]
  <2>1. r + 1 \in 1 .. HASHES_PER_NODE
    BY <1>3, <1>13
  <2>2. ((q + 1) - 1) * HASHES_PER_NODE + (r + 1) = c + 1
    BY <1>3, <1>13
  <2>3. c + 1 <= Len(s)
    BY <1>8, <1>12
  <2>4. Page(s, q + 1)[r + 1] = s[c + 1]
    BY <2>1, <2>2, <2>3 DEF Page
  <2>5. QED
    BY <1>14, <2>1, <2>4
<1>18. x = H => w.page = 0
  <2>1. SUFFICES ASSUME x = H PROVE w.page = 0
    OBVIOUS
  <2>2. nodes_at_level(H, size) <= 1
    BY <1>1, <1>2, HeightAdjoint DEF H
  <2>3. QED
    BY <1>5, <1>7, <1>13, <1>14, <1>15, <2>1, <2>2
<1>19. QED
  BY <1>2, <1>10, <1>11, <1>16, <1>17, <1>18 DEF w, x, H

\* The hash of a level above the leaves is that of the page below.
LEMMA WayUp ==
    ASSUME NEW v, NEW size, LeavesOf(v, size),
           NEW i \in 0 .. Len(v) - 1, NEW x \in Nat
    PROVE  WayHash(v, i, x + 1) = Sha256(WayPage(v, i, x))
<1> DEFINE s == Levels(v)[x]
           c == i \div leaves_per_hash[x + 1]
           n == divide_roundup(Len(s), HASHES_PER_NODE)
<1>1. Len(v) \in Nat /\ i \in Nat /\ i < Len(v)
  BY DEF LeavesOf
<1>2. Len(s) \in Nat /\ Len(Levels(v)[x + 1]) = divide_roundup(Len(v), leaves_per_hash[x + 1])
  BY <1>1, LevelLengths
<1>3. Levels(v)[x + 1] = hash_all_pages(s)
  BY LevelsEquations
<1>4. /\ n \in Nat
      /\ hash_all_pages(s) = [k \in 1 .. n |-> Sha256(Page(s, k))]
      /\ Len(hash_all_pages(s)) = n
  BY <1>2, HashAllPages, Zenon
<1>5. leaves_per_hash[x + 1] \in Nat \ {0}
  <2>1. x + 1 \in Nat
    OBVIOUS
  <2>2. QED
    BY <2>1, LeavesPerHash, Zenon
<1>6. c \in Nat /\ c * leaves_per_hash[x + 1] <= i
  BY <1>1, <1>5, DivAdjoint
<1>7. WayHash(v, i, x + 1) = hash_all_pages(s)[c + 1] /\ WayPage(v, i, x) = Page(s, c + 1)
  BY <1>3 DEF WayHash, WayPage
<1> HIDE DEF c, n, s
<1>8. ~ (Len(v) <= c * leaves_per_hash[x + 1])
  BY <1>1, <1>5, <1>6
<1>9. ~ (n <= c)
  BY <1>1, <1>2, <1>3, <1>4, <1>5, <1>6, <1>8, RoundupAdjoint, Zenon
<1>10. c + 1 \in 1 .. n
  BY <1>4, <1>6, <1>9
<1>11. QED
  BY <1>4, <1>7, <1>10

\* For a file of several chunks the builder's root is the hash of the first page of
\* the stored tree (calculate_root_hash, VerifiedFileReader::new).
LEMMA RootHash ==
    ASSUME NEW v, NEW size, LeavesOf(v, size), Len(v) > 1
    PROVE  calculate_root_hash(v) = Sha256(StoredTree(v)[1])
<1> DEFINE H == merkle_tree_height(size)
           n == Len(v)
           hashes == Levels(v)[H + 1]
<1>1. size \in Nat \ {0} /\ n \in Nat /\ n > 1 /\ CHUNK_SIZE \in Nat \ {0}
  BY ChunkSizeAssumption DEF LeavesOf
<1>2. merkle_tree_height(n * CHUNK_SIZE) = H
  <2>1. n * CHUNK_SIZE \in Nat \ {0}
    BY <1>1
  <2>2. divide_roundup(n * CHUNK_SIZE, CHUNK_SIZE) = n
    <3> DEFINE d == divide_roundup(n * CHUNK_SIZE, CHUNK_SIZE)
    <3>1. d \in Nat /\ \A r \in Nat : d <= r <=> n * CHUNK_SIZE <= r * CHUNK_SIZE
      BY <1>1, <2>1, RoundupAdjoint, Zenon
    <3> HIDE DEF d
    <3>2. d <= n
      BY <1>1, <2>1, <3>1
    <3>3. n * CHUNK_SIZE <= d * CHUNK_SIZE
      BY <3>1
    <3>4. ~ (d < n)
      BY <1>1, <3>1, <3>3
    <3>5. QED
      BY <1>1, <3>1, <3>2, <3>4 DEF d
  <2>3. LeavesOf(v, n * CHUNK_SIZE)
    BY <1>1, <2>1, <2>2 DEF LeavesOf
  <2>4. QED
    BY <2>3, RootLevelIsHeight
<1>3. H \in Nat /\ nodes_at_level(H, size) <= 1
  <2>1. H \in Nat /\ (H <= H <=> nodes_at_level(H, size) <= 1)
    BY <1>1, HeightAdjoint
  <2>2. QED
    BY <2>1
<1>4. nodes_at_level(H, size) = 1
  <2>1. nodes_at_level(H, size) \in Nat \ {0}
    BY <1>3, LevelNodes, Zenon
  <2> DEFINE m == nodes_at_level(H, size)
  <2>2. m \in Nat \ {0} /\ m <= 1
    BY <1>3, <2>1
  <2> HIDE DEF m
  <2>3. m = 1
    BY <2>2
  <2>4. QED
    BY <2>3 DEF m
<1>5. Len(hashes) = 1
  BY <1>3, <1>4, LevelNodes, Zenon
<1>6. LevelAfter(v, merkle_tree_height(n * CHUNK_SIZE)) = hashes
  BY <1>2, <1>3 DEF LevelAfter
<1>7. hashes[1] = Sha256(Page(Levels(v)[H], 1))
  <2> DEFINE s == Levels(v)[H]
             m == divide_roundup(Len(s), HASHES_PER_NODE)
  <2>1. Len(s) \in Nat
    BY <1>1, <1>3, LevelLengths
  <2>2. hashes = hash_all_pages(s)
    BY <1>3, LevelsEquations, Zenon
  <2>3. hash_all_pages(s) = [k \in 1 .. m |-> Sha256(Page(s, k))] /\ Len(hash_all_pages(s)) = m
    BY <2>1, HashAllPages, Zenon
  <2>4. 1 \in 1 .. m
    <3>1. m = 1
      BY <1>5, <2>2, <2>3, Zenon
    <3> HIDE DEF m
    <3>2. QED
      BY <3>1
  <2>5. QED
    BY <2>2, <2>3, <2>4
<1>8. StoredTree(v)[1] = Page(Levels(v)[H], 1)
  <2>1. H \in 0 .. H
    BY <1>3
  <2>2. PICK b \in Nat :
           /\ H = H => b = 0
           /\ \A j \in 1 .. nodes_at_level(H, size) : StoredTree(v)[b + j] = Page(Levels(v)[H], j)
    BY <2>1, StoredPages
  <2>3. b = 0 /\ b + 1 = 1 /\ 1 \in 1 .. nodes_at_level(H, size)
    BY <1>4, <2>2
  <2>4. QED
    BY <2>2, <2>3
<1>9. calculate_root_hash(v) = hashes[1]
  <2> DEFINE after == LevelAfter(v, merkle_tree_height(n * CHUNK_SIZE))
  <2>1. n # 0 /\ n # 1
    BY <1>1
  <2>2. calculate_root_hash(v) = IF Len(after) # 1 THEN InvalidState ELSE after[1]
    BY <2>1 DEF calculate_root_hash
  <2>3. QED
    BY <1>5, <1>6, <2>2
<1>10. QED
  BY <1>7, <1>8, <1>9
=============================================================================
