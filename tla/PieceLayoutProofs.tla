--------------------------- MODULE PieceLayoutProofs ---------------------------
(***************************************************************************)
(* Proofs about PieceLayout, for every block size and every torrent: the      *)
(* arithmetic of pieces and blocks, what CompleteData puts together, where     *)
(* WritePieceToDisk puts it, and what the readers' loops have established at   *)
(* each file.  The invariant is at IInv, the theorems are at the end.          *)
(***************************************************************************)
EXTENDS PieceLayout, NaturalsInduction, WellFoundedInduction, SequenceTheorems, TLAPS
--------------------------------------------------------------------------------
(* Recursive functions over 1 .. N: that they exist, by the least number for   *)
(* which they would not.                                                       *)

\* Every set of numbers that is not empty has a least one.
LEMMA LeastNumber ==
    ASSUME NEW T \in SUBSET Nat, T # {}
    PROVE  \E n \in T : \A m \in T : n <= m
<1> DEFINE less == {ss \in Nat \X Nat : ss[1] < ss[2]}
<1>1. IsWellFoundedOn(less, Nat)
  BY NatLessThanWellFounded, Zenon DEF OpToRel
<1>2. PICK n \in T : \A m \in T : <<m, n>> \notin less
  <2> HIDE DEF less
  <2> QED
    BY <1>1, WFMin
<1>3. \A m \in T : ~(m < n)
  <2> SUFFICES ASSUME NEW m \in T, m < n
               PROVE  FALSE
    OBVIOUS
  <2>1. <<m, n>> \in less
    OBVIOUS
  <2> QED
    BY <1>2, <2>1
<1> QED
  BY <1>3

\* Induction from 1 up to a bound, for what a set can say.
LEMMA UpTo ==
    ASSUME NEW N \in Nat, NEW T, N > 0 => 1 \in T,
           \A n \in 1 .. N - 1 : n \in T => n + 1 \in T
    PROVE  1 .. N \subseteq T
<1> DEFINE Left == {n \in 1 .. N : n \notin T}
<1> SUFFICES ASSUME Left # {}
             PROVE  FALSE
  OBVIOUS
<1>1. PICK n \in Left : \A m \in Left : n <= m
  <2>1. Left \in SUBSET Nat
    OBVIOUS
  <2> HIDE DEF Left
  <2> QED
    BY <2>1, LeastNumber
<1>2. n # 1
  BY <1>1
<1>3. n - 1 \in 1 .. N - 1 /\ n - 1 \notin Left
  BY <1>1, <1>2
<1>4. n - 1 \in T
  BY <1>3
<1>5. (n - 1) + 1 \in T
  BY <1>3, <1>4
<1> QED
  BY <1>1, <1>5

\* g[1] is first and every later value a step from the one before.
Recurses(g, N, first, step) ==
    \A k \in 1 .. N : g[k] = IF k = 1 THEN first ELSE step[<<k, g[k - 1]>>]

\* A function may be defined by its first value and by steps.
LEMMA Recursion ==
    ASSUME NEW N \in Nat, NEW S, NEW first \in S, NEW step \in [(2 .. N) \X S -> S]
    PROVE  \E g \in [1 .. N -> S] : Recurses(g, N, first, step)
<1> DEFINE Solves(g, n) == Recurses(g, n, first, step)
           T == {n \in 1 .. N : \E g \in [1 .. n -> S] : Solves(g, n)}
<1>1. N > 0 => 1 \in T
  <2> SUFFICES ASSUME N > 0
               PROVE  1 \in T
    OBVIOUS
  <2> DEFINE g == [k \in 1 .. 1 |-> first]
  <2>1. g \in [1 .. 1 -> S]
    OBVIOUS
  <2>2. Solves(g, 1)
    BY DEF Recurses
  <2>3. 1 \in 1 .. N
    OBVIOUS
  <2> HIDE DEF g, Solves
  <2> QED
    BY <2>1, <2>2, <2>3
<1>2. ASSUME NEW n \in 1 .. N - 1, n \in T
      PROVE  n + 1 \in T
  <2>1. PICK g \in [1 .. n -> S] : Solves(g, n)
    BY <1>2
  <2> DEFINE h == [k \in 1 .. n + 1 |-> IF k = n + 1 THEN step[<<n + 1, g[n]>>] ELSE g[k]]
  <2>2. <<n + 1, g[n]>> \in (2 .. N) \X S
    OBVIOUS
  <2>3. h \in [1 .. n + 1 -> S]
    BY <2>2
  <2>4. Solves(h, n + 1)
    <3> SUFFICES ASSUME NEW k \in 1 .. n + 1
                 PROVE  h[k] = IF k = 1 THEN first ELSE step[<<k, h[k - 1]>>]
      BY DEF Recurses
    <3>1. CASE k = n + 1
      <4>1. k - 1 = n /\ n # n + 1 /\ k # 1 /\ n \in 1 .. n + 1
        BY <3>1
      <4> QED
        BY <3>1, <4>1
    <3>2. CASE k # n + 1
      <4>1. k \in 1 .. n /\ h[k] = g[k]
        BY <3>2
      <4>2. k # 1 => k - 1 \in 1 .. n /\ k - 1 # n + 1 /\ h[k - 1] = g[k - 1]
        BY <3>2
      <4> QED
        BY <2>1, <4>1, <4>2 DEF Recurses
    <3> QED
      BY <3>1, <3>2
  <2>5. n + 1 \in 1 .. N
    OBVIOUS
  <2> HIDE DEF h
  <2> QED
    BY <2>3, <2>4, <2>5
<1>3. 1 .. N \subseteq T
  <2> HIDE DEF T
  <2> QED
    BY <1>1, <1>2, UpTo
<1>4. CASE N = 0
  <2> DEFINE g == [k \in 1 .. N |-> first]
  <2>1. g \in [1 .. N -> S] /\ Solves(g, N)
    BY <1>4 DEF Recurses
  <2> QED
    BY <2>1
<1>5. CASE N # 0
  BY <1>3, <1>5
<1> QED
  BY <1>4, <1>5

\* The offsets of Begins add up the sizes of the files.
LEMMA BeginsRecursion ==
    ASSUME NEW sizes \in Seq(Nat)
    PROVE  /\ Begins(sizes) \in [1 .. Len(sizes) + 1 -> Nat]
           /\ Begins(sizes)[1] = 0
           /\ \A k \in 1 .. Len(sizes) : Begins(sizes)[k + 1] = Begins(sizes)[k] + sizes[k]
<1> DEFINE N == Len(sizes) + 1
           step == [p \in (2 .. N) \X Nat |-> p[2] + sizes[p[1] - 1]]
           Solution(g) == g = [k \in 1 .. N |-> IF k = 1 THEN 0 ELSE g[k - 1] + sizes[k - 1]]
<1>1. \A k \in 1 .. N - 1 : sizes[k] \in Nat
  OBVIOUS
<1>2. step \in [(2 .. N) \X Nat -> Nat]
  BY <1>1
<1>3. PICK g \in [1 .. N -> Nat] : Recurses(g, N, 0, step)
  <2>1. N \in Nat /\ 0 \in Nat
    OBVIOUS
  <2> HIDE DEF N, step
  <2> QED
    BY <1>2, <2>1, Recursion
<1>4. ASSUME NEW k \in 1 .. N, k # 1
      PROVE  step[<<k, g[k - 1]>>] = g[k - 1] + sizes[k - 1]
  <2>1. k \in 2 .. N /\ k - 1 \in 1 .. N
    BY <1>4
  <2>2. g[k - 1] \in Nat
    BY <1>3, <2>1
  <2>3. <<k, g[k - 1]>> \in (2 .. N) \X Nat
    BY <2>1, <2>2
  <2> QED
    BY <2>3
<1>5. Solution(g)
  <2> HIDE DEF step, N
  <2> QED
    BY <1>3, <1>4 DEF Recurses
<1>6. Begins(sizes) = CHOOSE f : Solution(f)
  BY DEF Begins
<1>7. Solution(Begins(sizes))
  <2> HIDE DEF Solution
  <2> QED
    BY <1>5, <1>6
<1> DEFINE b == Begins(sizes)
<1>8. b = [k \in 1 .. N |-> IF k = 1 THEN 0 ELSE b[k - 1] + sizes[k - 1]]
  BY <1>7
<1>9. N \in Nat \ {0} /\ N - 1 = Len(sizes)
  OBVIOUS
<1> HIDE DEF b, N
<1>10. b[1] = 0 /\ \A k \in 1 .. N - 1 : b[k + 1] = b[k] + sizes[k]
  <2>1. b[1] = 0
    BY <1>8, <1>9
  <2>2. ASSUME NEW k \in 1 .. N - 1
        PROVE  b[k + 1] = b[k] + sizes[k]
    <3>1. k + 1 \in 1 .. N /\ k + 1 # 1 /\ (k + 1) - 1 = k
      BY <1>9
    <3> QED
      BY <1>8, <3>1
  <2> QED
    BY <2>1, <2>2
<1> DEFINE T == {k \in 1 .. N : b[k] \in Nat}
<1>11. 1 .. N \subseteq T
  <2>1. 1 \in T
    BY <1>9, <1>10
  <2>2. ASSUME NEW n \in 1 .. N - 1, n \in T
        PROVE  n + 1 \in T
    <3>1. b[n] \in Nat /\ sizes[n] \in Nat /\ b[n + 1] = b[n] + sizes[n]
      BY <1>1, <1>10, <2>2
    <3>2. n + 1 \in 1 .. N
      BY <1>9
    <3> QED
      BY <3>1, <3>2
  <2>3. N \in Nat
    BY <1>9
  <2> HIDE DEF T
  <2> QED
    BY <2>1, <2>2, <2>3, UpTo
<1>12. b \in [1 .. N -> Nat]
  BY <1>8, <1>11
<1> QED
  BY <1>9, <1>10, <1>12 DEF b, N
--------------------------------------------------------------------------------
(* Pieces and blocks.                                                         *)

\* Quotient and rest.
LEMMA Quotient ==
    ASSUME NEW a \in Nat, NEW b \in Nat \ {0}
    PROVE  /\ a \div b \in Nat /\ a % b \in 0 .. b - 1
           /\ a = (a \div b) * b + (a % b)
BY Z3

\* Multiples of b are at least b apart.
LEMMA Multiples ==
    ASSUME NEW i \in Nat, NEW j \in Nat, NEW b \in Nat
    PROVE  /\ i * b \in Nat /\ (i + 1) * b = i * b + b /\ i * b = b * i
           /\ i <= j => i * b <= j * b
           /\ i < j => i * b + b <= j * b
BY Z3

\* The piece an offset lies in.
LEMMA PieceOf ==
    ASSUME NEW i \in Nat, NEW b \in Nat \ {0}, NEW a \in Nat, i * b <= a, a < i * b + b
    PROVE  a \div b = i
<1> DEFINE q == a \div b
<1>1. q \in Nat /\ q * b <= a /\ a < q * b + b
  BY Quotient, Z3
<1>2. i * b \in Nat /\ q * b \in Nat
  BY <1>1, Multiples
<1>3. ~(q < i)
  BY <1>1, <1>2, Multiples
<1>4. ~(i < q)
  BY <1>1, <1>2, Multiples
<1> QED
  BY <1>1, <1>3, <1>4

\* The pieces follow each other from the torrent's first byte to its last.
LEMMA PiecesFollow ==
    ASSUME torrent \in Torrents
    PROVE  /\ pieceLength \in Nat \ {0} /\ torrent.total \in Nat \ {0}
           /\ CountPieces \in Nat \ {0}
           /\ \A i \in Piece :
                /\ i \in Nat /\ i * pieceLength \in Nat
                /\ GetPieceLength(i) \in 1 .. pieceLength
                /\ i # CountPieces - 1 => GetPieceLength(i) = pieceLength
                /\ i * pieceLength + GetPieceLength(i) <= torrent.total
                /\ i = CountPieces - 1 => i * pieceLength + GetPieceLength(i) = torrent.total
<1> DEFINE T == torrent.total
           L == pieceLength
           C == CountPieces
<1>1. T \in Nat \ {0} /\ L \in Nat \ {0}
  BY TorrentsAssumption DEF TorrentsAssumption, pieceLength
<1>2. C \in Nat /\ C * L <= T + L - 1 /\ T + L - 1 < C * L + L
  <2>1. C = (T + L - 1) \div L /\ T + L - 1 \in Nat
    BY <1>1 DEF CountPieces
  <2> HIDE DEF T, L, C
  <2> DEFINE a == T + L - 1
  <2>2. a \div L \in Nat /\ a % L \in 0 .. L - 1 /\ a = (a \div L) * L + (a % L)
    BY <1>1, <2>1, Quotient
  <2>3. (a \div L) * L \in Nat
    BY <1>1, <2>2, Multiples
  <2> HIDE DEF a
  <2>4. C \in Nat /\ C * L \in Nat /\ C * L <= a /\ a < C * L + L
    BY <1>1, <2>1, <2>2, <2>3 DEF a
  <2> QED
    BY <2>4 DEF a
<1>3. C # 0
  BY <1>1, <1>2
<1>4. (C - 1) * L \in Nat /\ C * L = (C - 1) * L + L
  <2>1. C - 1 \in Nat /\ (C - 1) + 1 = C
    BY <1>2, <1>3
  <2> HIDE DEF C, L
  <2> QED
    BY <1>1, <2>1, Multiples
<1>5. ASSUME NEW i \in Piece
      PROVE  /\ i \in Nat /\ i * L \in Nat
             /\ GetPieceLength(i) \in 1 .. L
             /\ i # C - 1 => GetPieceLength(i) = L
             /\ i * L + GetPieceLength(i) <= T
             /\ i = C - 1 => i * L + GetPieceLength(i) = T
  <2>1. i \in Nat /\ i <= C - 1
    BY <1>2, <1>5 DEF Piece
  <2>2. GetPieceLength(i) = IF i = C - 1 THEN T - i * L ELSE L
    BY DEF GetPieceLength
  <2>3. i * L \in Nat /\ (i < C - 1 => i * L + L <= (C - 1) * L)
    <3>1. C - 1 \in Nat
      BY <1>2, <1>3
    <3> HIDE DEF C, L
    <3> QED
      BY <1>1, <2>1, <3>1, Multiples
  <2> HIDE DEF C, L, T
  <2>4. CASE i = C - 1
    <3>1. (C - 1) * L < T /\ T <= (C - 1) * L + L
      BY <1>1, <1>2, <1>3, <1>4
    <3> QED
      BY <1>1, <2>1, <2>2, <2>3, <2>4, <3>1
  <2>5. CASE i # C - 1
    <3>1. i < C - 1
      BY <1>2, <2>1, <2>5
    <3>2. (C - 1) * L < T
      BY <1>1, <1>2, <1>3, <1>4
    <3> QED
      BY <1>1, <1>4, <2>1, <2>2, <2>3, <2>5, <3>1, <3>2
  <2> QED
    BY <2>4, <2>5
<1> QED
  BY <1>1, <1>2, <1>3, <1>5

\* As many blocks as it takes, rounded down and one more for the rest, or up.
LEMMA RoundedUp ==
    ASSUME NEW a \in Nat \ {0}, NEW b \in Nat \ {0}
    PROVE  LET n == a \div b + (IF a % b # 0 THEN 1 ELSE 0)
           IN  /\ n \in Nat \ {0} /\ n = (a + b - 1) \div b
               /\ (n - 1) * b \in Nat /\ (n - 1) * b < a /\ a <= (n - 1) * b + b
<1> DEFINE q == a \div b
           n == q + (IF a % b # 0 THEN 1 ELSE 0)
<1>1. q \in Nat /\ a % b \in 0 .. b - 1 /\ q * b \in Nat /\ a = q * b + (a % b)
  BY Quotient, Multiples
<1> HIDE DEF q
<1>2. CASE a % b # 0
  <2>1. n = q + 1 /\ q * b < a /\ a <= q * b + b /\ n - 1 = q
    BY <1>1, <1>2
  <2>2. n * b \in Nat /\ n * b = q * b + b
    BY <1>1, <2>1, Multiples
  <2>3. n * b <= a + b - 1 /\ a + b - 1 < n * b + b
    BY <1>1, <2>1, <2>2
  <2>4. (a + b - 1) \div b = n
    <3>1. a + b - 1 \in Nat /\ n \in Nat
      BY <1>1, <2>1
    <3> HIDE DEF n
    <3> QED
      BY <2>3, <3>1, PieceOf
  <2> QED
    BY <1>1, <2>1, <2>4 DEF q
<1>3. CASE a % b = 0
  <2>1. n = q /\ a = q * b
    BY <1>1, <1>3
  <2>2. q # 0
    <3> SUFFICES ASSUME q = 0
                 PROVE  FALSE
      OBVIOUS
    <3>1. a = 0 * b
      BY <2>1
    <3> QED
      BY <3>1
  <2>3. q - 1 \in Nat /\ (q - 1) + 1 = q
    BY <1>1, <2>2
  <2>4. (q - 1) * b \in Nat /\ q * b = (q - 1) * b + b
    BY <2>3, Multiples
  <2>5. q * b <= a + b - 1 /\ a + b - 1 < q * b + b /\ a + b - 1 \in Nat
    BY <1>1, <2>1
  <2>6. (a + b - 1) \div b = q
    BY <1>1, <2>5, PieceOf
  <2> QED
    BY <1>1, <2>1, <2>2, <2>4, <2>6 DEF q
<1> QED
  BY <1>1, <1>2, <1>3 DEF q

\* The blocks of a piece follow each other from its first byte to its last.
LEMMA BlocksFollow ==
    ASSUME torrent \in Torrents, NEW i \in Piece
    PROVE  LET n == TotalBlocks(i)
               size == GetPieceLength(i)
           IN  /\ n \in Nat \ {0}
               /\ n = (size + BlockSize - 1) \div BlockSize
               /\ n = size \div BlockSize + (IF size % BlockSize # 0 THEN 1 ELSE 0)
               /\ \A j \in 0 .. n - 1 :
                    /\ j * BlockSize \in Nat
                    /\ j # n - 1 => /\ RequestLength(i, j) = BlockSize
                                    /\ j * BlockSize + BlockSize <= size
                    /\ j = n - 1 => j * BlockSize + RequestLength(i, j) = size
                    /\ RequestLength(i, j) \in 1 .. BlockSize
                    /\ j * BlockSize + RequestLength(i, j) <= size
<1> DEFINE T == torrent.total
           L == pieceLength
           B == BlockSize
           G == GetPieceLength(i)
           n == TotalBlocks(i)
<1>1. /\ T \in Nat \ {0} /\ L \in Nat \ {0} /\ i * L \in Nat /\ G \in 1 .. L
      /\ i * L + G <= T /\ G = IF i = CountPieces - 1 THEN T - i * L ELSE L
  BY PiecesFollow DEF GetPieceLength
<1>2. B \in Nat \ {0}
  BY BlockSizeAssumption DEF BlockSizeAssumption
<1>3. n = G \div B + (IF G % B # 0 THEN 1 ELSE 0)
  <2> DEFINE rest == T - i * L
             size == IF rest < L THEN rest ELSE L
  <2>1. n = size \div B + (IF size % B # 0 THEN 1 ELSE 0)
    BY DEF TotalBlocks
  <2>2. size = G
    <3> HIDE DEF T, L, G
    <3> QED
      BY <1>1
  <2> HIDE DEF size, G, n
  <2> QED
    BY <2>1, <2>2
<1> DEFINE RL(j) == RequestLength(i, j)
<1>4. \A j : RL(j) = LET m == IF j * B + B > G THEN G - j * B ELSE B
                     IN  IF G < m THEN G ELSE m
  BY DEF RequestLength
<1> HIDE DEF T, L, B, G, n, RL
<1>5. /\ n \in Nat \ {0} /\ n = (G + B - 1) \div B
      /\ (n - 1) * B \in Nat /\ (n - 1) * B < G /\ G <= (n - 1) * B + B
  <2>1. G \in Nat \ {0}
    BY <1>1
  <2> QED
    BY <1>2, <1>3, <2>1, RoundedUp
<1>6. ASSUME NEW j \in 0 .. n - 1
      PROVE  /\ j * B \in Nat
             /\ j # n - 1 => RL(j) = B /\ j * B + B <= G
             /\ j = n - 1 => j * B + RL(j) = G
             /\ RL(j) \in 1 .. B
             /\ j * B + RL(j) <= G
  <2>1. j \in Nat /\ n - 1 \in Nat
    BY <1>5, <1>6
  <2>2. j * B \in Nat /\ (j < n - 1 => j * B + B <= (n - 1) * B)
    BY <1>2, <2>1, Multiples
  <2>3. CASE j = n - 1
    BY <1>1, <1>2, <1>4, <1>5, <2>2, <2>3
  <2>4. CASE j # n - 1
    <3>1. j * B + B <= G
      BY <1>1, <1>2, <1>5, <2>1, <2>2, <2>4
    <3> QED
      BY <1>1, <1>2, <1>4, <2>2, <2>4, <3>1
  <2> QED
    BY <2>3, <2>4
<1> QED
  BY <1>3, <1>5, <1>6 DEF B, G, n, RL
--------------------------------------------------------------------------------
(* The bytes of a piece.                                                      *)

\* Bytes(a, m) is m bytes, the k-th of them at offset a + k - 1.
LEMMA BytesFacts ==
    ASSUME NEW a \in Int, NEW m \in Nat
    PROVE  /\ Bytes(a, m) \in Seq(Int) /\ Len(Bytes(a, m)) = m
           /\ DOMAIN Bytes(a, m) = 1 .. m
           /\ \A k \in 1 .. m : Bytes(a, m)[k] = a + k - 1
<1>1. Bytes(a, m) \in [1 .. m -> Int]
  BY DEF Bytes
<1>2. Bytes(a, m) \in Seq(Int)
  BY <1>1
<1> QED
  BY <1>2 DEF Bytes

\* No bytes, wherever they begin.
LEMMA NoBytes ==
    ASSUME NEW a \in Int
    PROVE  Bytes(a, 0) = <<>>
<1>1. Bytes(a, 0) \in Seq(Int) /\ Len(Bytes(a, 0)) = 0
  BY BytesFacts
<1> HIDE DEF Bytes
<1> QED
  BY <1>1, EmptySeq

\* Neighbouring stretches of bytes make one.
LEMMA BytesFollow ==
    ASSUME NEW a \in Int, NEW m \in Nat, NEW n \in Nat
    PROVE  Bytes(a, m) \o Bytes(a + m, n) = Bytes(a, m + n)
<1> DEFINE s == Bytes(a, m)
           t == Bytes(a + m, n)
           st == Bytes(a, m + n)
<1>1. s \in Seq(Int) /\ Len(s) = m /\ \A k \in 1 .. m : s[k] = a + k - 1
  BY BytesFacts
<1>2. t \in Seq(Int) /\ Len(t) = n /\ \A k \in 1 .. n : t[k] = (a + m) + k - 1
  BY BytesFacts
<1>3. st \in Seq(Int) /\ Len(st) = m + n /\ \A k \in 1 .. m + n : st[k] = a + k - 1
  BY BytesFacts
<1> HIDE DEF s, t, st
<1>4. s \o t \in Seq(Int) /\ Len(s \o t) = m + n
  BY <1>1, <1>2
<1>5. ASSUME NEW k \in 1 .. m + n
      PROVE  (s \o t)[k] = st[k]
  <2>1. CASE k <= m
    <3>1. k \in 1 .. m /\ (s \o t)[k] = s[k]
      BY <1>1, <1>2, <2>1
    <3> QED
      BY <1>1, <1>3, <3>1
  <2>2. CASE k > m
    <3>1. k - m \in 1 .. n /\ (s \o t)[k] = t[k - m]
      BY <1>1, <1>2, <2>2
    <3>2. t[k - m] = a + k - 1
      BY <1>2, <3>1
    <3>3. st[k] = a + k - 1
      BY <1>3
    <3> QED
      BY <3>1, <3>2, <3>3
  <2>3. k <= m \/ k > m
    OBVIOUS
  <2> QED
    BY <2>1, <2>2, <2>3, Zenon
<1>6. s \o t = st
  BY <1>3, <1>4, <1>5, SeqEqual
<1> QED
  BY <1>6 DEF s, t, st

\* FlattenSeq appends one sequence after the other.
LEMMA FlattenRecursion ==
    ASSUME NEW S, NEW ss \in Seq(Seq(S)), Len(ss) # 0
    PROVE  \E f \in [1 .. Len(ss) -> Seq(S)] :
              /\ FlattenSeq(ss) = f[Len(ss)]
              /\ f[1] = ss[1]
              /\ \A k \in 1 .. Len(ss) - 1 : f[k + 1] = f[k] \o ss[k + 1]
<1> DEFINE N == Len(ss)
           V == Seq(S)
           step == [p \in (2 .. N) \X V |-> p[2] \o ss[p[1]]]
           Solution(g) == g = [k \in 1 .. N |-> IF k = 1 THEN ss[k] ELSE g[k - 1] \o ss[k]]
<1>1. N \in Nat \ {0} /\ \A k \in 1 .. N : ss[k] \in V
  OBVIOUS
<1>2. step \in [(2 .. N) \X V -> V]
  <2> SUFFICES ASSUME NEW p \in (2 .. N) \X V
               PROVE  p[2] \o ss[p[1]] \in V
    OBVIOUS
  <2>1. p[1] \in 1 .. N /\ p[2] \in V
    BY <1>1
  <2>2. ss[p[1]] \in V
    BY <1>1, <2>1
  <2> QED
    BY <2>1, <2>2
<1>3. ss[1] \in V
  BY <1>1
<1>4. PICK g \in [1 .. N -> V] : Recurses(g, N, ss[1], step)
  <2> HIDE DEF N, V, step
  <2> QED
    BY <1>1, <1>2, <1>3, Recursion
<1>5. ASSUME NEW k \in 1 .. N, k # 1
      PROVE  step[<<k, g[k - 1]>>] = g[k - 1] \o ss[k]
  <2>1. k \in 2 .. N /\ k - 1 \in 1 .. N
    BY <1>1, <1>5
  <2>2. g[k - 1] \in V
    BY <1>4, <2>1
  <2>3. <<k, g[k - 1]>> \in (2 .. N) \X V
    BY <2>1, <2>2
  <2> QED
    BY <2>3
<1>6. Solution(g)
  <2> HIDE DEF step, N, V
  <2> QED
    BY <1>4, <1>5 DEF Recurses
<1> DEFINE f == CHOOSE h : Solution(h)
<1>7. FlattenSeq(ss) = f[N]
  BY <1>1 DEF FlattenSeq
<1>8. Solution(f)
  <2> HIDE DEF Solution
  <2> QED
    BY <1>6
<1>9. f = [k \in 1 .. N |-> IF k = 1 THEN ss[k] ELSE f[k - 1] \o ss[k]]
  BY <1>8
<1> HIDE DEF f, N, V
<1>10. f[1] = ss[1] /\ \A k \in 1 .. N - 1 : f[k + 1] = f[k] \o ss[k + 1]
  <2>1. f[1] = ss[1]
    BY <1>1, <1>9
  <2>2. ASSUME NEW k \in 1 .. N - 1
        PROVE  f[k + 1] = f[k] \o ss[k + 1]
    <3>1. k + 1 \in 1 .. N /\ k + 1 # 1 /\ (k + 1) - 1 = k
      BY <1>1
    <3> QED
      BY <1>9, <3>1
  <2> QED
    BY <2>1, <2>2
<1> DEFINE T == {k \in 1 .. N : f[k] \in V}
<1>11. 1 .. N \subseteq T
  <2>1. 1 \in T
    BY <1>1, <1>3, <1>10
  <2>2. ASSUME NEW n \in 1 .. N - 1, n \in T
        PROVE  n + 1 \in T
    <3>1. n + 1 \in 1 .. N
      BY <1>1
    <3>2. f[n] \in V /\ ss[n + 1] \in V /\ f[n + 1] = f[n] \o ss[n + 1]
      BY <1>1, <1>10, <2>2, <3>1
    <3>3. f[n + 1] \in V
      BY <3>2 DEF V
    <3> QED
      BY <3>1, <3>3
  <2>3. N \in Nat
    BY <1>1
  <2> HIDE DEF T
  <2> QED
    BY <2>1, <2>2, <2>3, UpTo
<1>12. f \in [1 .. N -> V]
  BY <1>9, <1>11
<1> QED
  BY <1>7, <1>10, <1>12 DEF N, V

\* The blocks of a piece, one after the other, are the piece.
LEMMA CompleteDataIsPiece ==
    ASSUME torrent \in Torrents, NEW i \in Piece
    PROVE  CompleteData(i) = Bytes(i * pieceLength, GetPieceLength(i))
<1> DEFINE a == i * pieceLength
           G == GetPieceLength(i)
           n == TotalBlocks(i)
           B == BlockSize
           R(j) == RequestLength(i, j)
           block(j) == Bytes(a + (j - 1) * B, R(j - 1))
           ss == [j \in 1 .. n |-> block(j)]
<1>1. a \in Nat /\ G \in Nat
  BY PiecesFollow
<1> DEFINE Fits(j) == /\ j * B \in Nat /\ R(j) \in Nat
                      /\ j # n - 1 => R(j) = B
                      /\ j = n - 1 => j * B + R(j) = G
<1>2. n \in Nat \ {0} /\ \A j \in 0 .. n - 1 : Fits(j)
  BY BlocksFollow, BlockSizeAssumption DEF BlockSizeAssumption
<1>3. B \in Nat
  BY BlockSizeAssumption DEF BlockSizeAssumption
<1>4. CompleteData(i) = FlattenSeq(ss)
  BY DEF CompleteData
<1> HIDE DEF a, G, n, B, R, Fits
<1>5. ASSUME NEW j \in 1 .. n
      PROVE  j - 1 \in 0 .. n - 1 /\ block(j) \in Seq(Int)
  <2>1. j - 1 \in 0 .. n - 1
    BY <1>2, <1>5
  <2>2. Fits(j - 1)
    BY <1>2, <2>1
  <2>3. a + (j - 1) * B \in Int /\ R(j - 1) \in Nat
    BY <1>1, <2>2 DEF Fits
  <2> QED
    BY <2>1, <2>3, BytesFacts
<1> HIDE DEF block
<1>6. ss \in Seq(Seq(Int)) /\ Len(ss) = n /\ \A j \in 1 .. n : ss[j] = block(j)
  <2>1. ss \in [1 .. n -> Seq(Int)]
    BY <1>5
  <2>2. ss \in Seq(Seq(Int))
    BY <1>2, <2>1
  <2> QED
    BY <1>2, <2>2
<1> HIDE DEF ss
<1>7. PICK f \in [1 .. n -> Seq(Int)] :
          /\ FlattenSeq(ss) = f[n]
          /\ f[1] = ss[1]
          /\ \A k \in 1 .. n - 1 : f[k + 1] = f[k] \o ss[k + 1]
  BY <1>2, <1>6, FlattenRecursion
<1> DEFINE upTo(k) == IF k = n THEN G ELSE k * B
           Reached(k) == upTo(k) \in Nat /\ upTo(k) = (k - 1) * B + R(k - 1)
           T == {k \in 1 .. n : f[k] = Bytes(a, upTo(k))}
<1>8. ASSUME NEW k \in 1 .. n
      PROVE  Reached(k)
  <2>1. k - 1 \in 0 .. n - 1 /\ (k - 1) + 1 = k /\ k - 1 \in Nat /\ (k = n <=> k - 1 = n - 1)
    BY <1>2
  <2>2. Fits(k - 1)
    BY <1>2, <2>1
  <2>3. CASE k = n
    BY <1>1, <2>1, <2>2, <2>3 DEF Fits
  <2>4. CASE k # n
    <3>1. k * B = (k - 1) * B + B
      BY <1>3, <2>1, Multiples
    <3>2. R(k - 1) = B /\ (k - 1) * B \in Nat
      BY <2>1, <2>2, <2>4 DEF Fits
    <3> QED
      BY <1>3, <2>4, <3>1, <3>2
  <2> QED
    BY <2>3, <2>4
<1> HIDE DEF upTo, Reached
<1>9. 1 \in T
  <2>1. 1 - 1 = 0 /\ 1 \in 1 .. n /\ 0 \in 0 .. n - 1 /\ 0 * B = 0
    BY <1>2, <1>3
  <2>2. Reached(1) /\ Fits(0)
    BY <1>2, <1>8, <2>1
  <2>3. upTo(1) = R(0)
    BY <2>1, <2>2 DEF Reached, Fits
  <2>4. block(1) = Bytes(a, R(0))
    BY <1>1, <2>1 DEF block
  <2> QED
    BY <1>6, <1>7, <2>1, <2>3, <2>4
<1>10. ASSUME NEW k \in 1 .. n - 1, k \in T
       PROVE  k + 1 \in T
  <2>1. k \in 1 .. n /\ k + 1 \in 1 .. n /\ (k + 1) - 1 = k /\ k \in 0 .. n - 1 /\ k # n
    BY <1>2
  <2>2. Fits(k) /\ Reached(k + 1)
    BY <1>2, <1>8, <2>1
  <2>3. upTo(k) = k * B /\ k * B \in Nat /\ R(k) \in Nat
    BY <2>1, <2>2 DEF upTo, Fits
  <2>4. block(k + 1) = Bytes(a + k * B, R(k))
    BY <2>1 DEF block
  <2>5. upTo(k + 1) = k * B + R(k)
    BY <2>1, <2>2 DEF Reached
  <2>6. f[k + 1] = Bytes(a, k * B) \o Bytes(a + k * B, R(k))
    BY <1>6, <1>7, <1>10, <2>1, <2>3, <2>4
  <2>7. f[k + 1] = Bytes(a, k * B + R(k))
    <3>1. a \in Int
      BY <1>1
    <3> QED
      BY <2>3, <2>6, <3>1, BytesFollow
  <2> QED
    BY <2>1, <2>5, <2>7
<1>11. n \in T
  <2>1. 1 .. n \subseteq T
    <3> HIDE DEF T
    <3> QED
      BY <1>2, <1>9, <1>10, UpTo
  <2> QED
    BY <1>2, <2>1
<1>12. CompleteData(i) = Bytes(a, G)
  BY <1>4, <1>7, <1>11 DEF upTo
<1> QED
  BY <1>12 DEF a, G

\* What BlocksTile says of a torrent, from the two ways its arithmetic is done.
LEMMA RequestsTile ==
    ASSUME torrent \in Torrents
    PROVE  BlocksTile
<1> DEFINE T == torrent.total
           L == pieceLength
           B == BlockSize
           C == CountPieces
<1>1. T \in Nat \ {0} /\ L \in Nat \ {0} /\ C \in Nat \ {0} /\ B \in Nat \ {0}
  BY PiecesFollow, BlockSizeAssumption DEF BlockSizeAssumption
<1> SUFFICES ASSUME NEW i \in Piece
             PROVE  /\ CompleteData(i) = Bytes(i * L, GetPieceLength(i))
                    /\ \A j \in 0 .. TotalBlocks(i) - 1 :
                        /\ RequestLength(i, j) > 0
                        /\ j * B + RequestLength(i, j) <= PieceBound(i)
                        /\ \/ RemainingLength(i, j) = RequestLength(i, j)
                           \/ /\ i = C - 1
                              /\ j = TotalBlocks(i) - 1
                              /\ j * B + RemainingLength(i, j) > PieceBound(i)
                    /\ CalculateNumberOfBlocks(i) <= TotalBlocks(i)
                    /\ CalculateNumberOfBlocks(i) < TotalBlocks(i)
                         => i < C - 1 /\ L % B # 0
  BY DEF BlocksTile
<1> DEFINE G == GetPieceLength(i)
           n == TotalBlocks(i)
           R(j) == RequestLength(i, j)
           Rest(j) == RemainingLength(i, j)
<1>2. /\ i \in Nat /\ i <= C - 1 /\ i * L \in Nat /\ G \in 1 .. L
      /\ i # C - 1 => G = L
      /\ PieceBound(i) = G
  BY <1>1, PiecesFollow DEF Piece, PieceBound, GetPieceLength
<1>3. /\ n \in Nat \ {0}
      /\ n = (G + B - 1) \div B
      /\ n = G \div B + (IF G % B # 0 THEN 1 ELSE 0)
  BY BlocksFollow
<1>4. ASSUME NEW j \in 0 .. n - 1
      PROVE  /\ R(j) > 0 /\ j * B + R(j) <= G
             /\ Rest(j) = R(j) \/ (i = C - 1 /\ j = n - 1 /\ j * B + Rest(j) > G)
  <2>1. /\ j * B \in Nat
        /\ j # n - 1 => R(j) = B /\ j * B + B <= G
        /\ j = n - 1 => j * B + R(j) = G
        /\ R(j) \in 1 .. B
        /\ j * B + R(j) <= G
    BY BlocksFollow
  <2>2. Rest(j) = IF j * B + B > L THEN L - j * B ELSE B
    BY DEF RemainingLength
  <2> HIDE DEF L, B, C, G, n, R, Rest
  <2> QED
    BY <1>1, <1>2, <2>1, <2>2
<1>5. /\ CalculateNumberOfBlocks(i) <= n
      /\ CalculateNumberOfBlocks(i) < n => i < C - 1 /\ L % B # 0
  <2>1. CASE i < C - 1
    <3>1. CalculateNumberOfBlocks(i) = L \div B /\ G = L
      BY <1>1, <1>2, <2>1 DEF CalculateNumberOfBlocks
    <3> HIDE DEF G, n, L, B, C
    <3>2. L \div B \in Nat /\ L % B \in Nat
      <4>1. L \in Nat /\ L \div B \in Nat /\ L % B \in 0 .. B - 1
        BY <1>1, Quotient
      <4> QED
        BY <1>1, <4>1
    <3> QED
      BY <1>3, <2>1, <3>1, <3>2
  <2>2. CASE i = C - 1
    <3>1. G = T - i * L
      BY <2>2 DEF GetPieceLength
    <3>2. CalculateNumberOfBlocks(i) = (T - L * (C - 1) + B - 1) \div B
      BY <1>1, <2>2 DEF CalculateNumberOfBlocks
    <3>3. i * L = L * (C - 1)
      BY <1>1, <1>2, <2>2, Multiples
    <3> HIDE DEF G, n, L, B, C, T
    <3> QED
      BY <1>3, <3>1, <3>2, <3>3
  <2> HIDE DEF C
  <2> QED
    BY <1>1, <1>2, <2>1, <2>2
<1> HIDE DEF G, n, R, Rest, C, L
<1>6. CompleteData(i) = Bytes(i * L, G)
  BY CompleteDataIsPiece DEF G, L
<1> QED
  BY <1>2, <1>4, <1>5, <1>6 DEF G, n, R, Rest, C, L
--------------------------------------------------------------------------------
(* What the file holds.                                                       *)

\* Every offset of the torrent is in one of its pieces.
LEMMA OffsetInPiece ==
    ASSUME torrent \in Torrents, NEW a \in Nat, a < torrent.total
    PROVE  LET q == a \div pieceLength
           IN  q \in Piece /\ q * pieceLength <= a /\ a < q * pieceLength + GetPieceLength(q)
<1> DEFINE T == torrent.total
           L == pieceLength
           C == CountPieces
           q == a \div L
           G(i) == GetPieceLength(i)
<1>1. T \in Nat \ {0} /\ L \in Nat \ {0} /\ C \in Nat \ {0}
  BY PiecesFollow
<1> DEFINE Ends(i) == /\ G(i) \in 1 .. L
                      /\ i # C - 1 => G(i) = L
                      /\ i = C - 1 => i * L + G(i) = T
<1>2. \A i \in 0 .. C - 1 : Ends(i)
  BY PiecesFollow DEF Piece
<1> HIDE DEF L, G, C, Ends
<1>3. q \in Nat /\ q * L \in Nat /\ q * L <= a /\ a < q * L + L
  <2>1. a \div L \in Nat /\ a % L \in 0 .. L - 1 /\ a = (a \div L) * L + (a % L)
    BY <1>1, Quotient
  <2> QED
    BY <1>1, <2>1, Multiples
<1> HIDE DEF q, T
<1>4. q <= C - 1
  <2> SUFFICES ASSUME C - 1 < q
               PROVE  FALSE
    BY <1>1, <1>3
  <2>1. C - 1 \in 0 .. C - 1 /\ C - 1 \in Nat
    BY <1>1
  <2>2. (C - 1) * L + G(C - 1) = T /\ G(C - 1) \in 1 .. L
    <3>1. Ends(C - 1)
      BY <1>2, <2>1
    <3> QED
      BY <3>1 DEF Ends
  <2>3. (C - 1) * L \in Nat /\ (C - 1) * L + L <= q * L
    BY <1>1, <1>3, <2>1, Multiples
  <2>4. a < T
    BY DEF T
  <2> QED
    BY <1>1, <1>3, <2>2, <2>3, <2>4
<1>5. q \in 0 .. C - 1
  BY <1>1, <1>3, <1>4
<1>6. a < q * L + G(q)
  <2>1. Ends(q)
    BY <1>2, <1>5
  <2>2. CASE q = C - 1
    BY <2>1, <2>2 DEF T, Ends
  <2>3. CASE q # C - 1
    BY <1>3, <2>1, <2>3 DEF Ends
  <2> QED
    BY <2>2, <2>3
<1> QED
  BY <1>3, <1>5, <1>6 DEF q, L, G, C, Piece

\* The disk of a torrent of one file: nothing, or the pieces written so far.
Placed ==
    /\ written = {} => disk[1] = Missing
    /\ written # {} =>
        /\ disk[1] \in Seq(Int)
        /\ Len(disk[1]) <= torrent.total
        /\ \A k \in DOMAIN disk[1] :
            disk[1][k] = (IF (k - 1) \div pieceLength \in written THEN k - 1 ELSE Hole)
        /\ \A i \in written : i * pieceLength + GetPieceLength(i) <= Len(disk[1])

\* A piece goes to its place: nothing that lies there already is touched, and a
\* gap before it becomes a hole.
LEMMA WritePlaces ==
    ASSUME torrent \in Torrents, OneFile, written \subseteq Piece, Placed,
           disk \in [{1} -> Seq(Int) \cup {Missing}],
           NEW i \in Piece, WritePieceToDisk(i)
    PROVE  disk'[1] \in Seq(Int) /\ Placed'
<1> DEFINE L == pieceLength
           T == torrent.total
           G(p) == GetPieceLength(p)
           a == i * L
           old == IF disk[1] = Missing THEN <<>> ELSE disk[1]
           data == CompleteData(i)
           end == IF a + Len(data) > Len(old) THEN a + Len(data) ELSE Len(old)
           new == [k \in 1 .. end |-> CASE k > a /\ k <= a + Len(data) -> data[k - a]
                                       [] k <= a /\ k > Len(old) -> Hole
                                       [] OTHER -> old[k]]
           Q(k) == (k - 1) \div L
<1>1. /\ L \in Nat \ {0} /\ T \in Nat \ {0}
      /\ a \in Nat /\ G(i) \in 1 .. L /\ a + G(i) <= T
  BY PiecesFollow
<1>2. data \in Seq(Int) /\ Len(data) = G(i) /\ \A k \in 1 .. G(i) : data[k] = a + k - 1
  <2>1. data = Bytes(a, G(i))
    BY CompleteDataIsPiece
  <2>2. a \in Int /\ G(i) \in Nat
    BY <1>1
  <2> HIDE DEF a, G, data
  <2> QED
    BY <2>1, <2>2, BytesFacts
<1>3. /\ disk' = [disk EXCEPT ![1] = new] /\ written' = written \cup {i}
      /\ torrent' = torrent
  BY DEF WritePieceToDisk, WriteAt
<1>4. disk'[1] = new
  BY <1>3
<1> DEFINE InPiece(k) == Q(k) \in Piece /\ Q(k) * L <= k - 1 /\ k - 1 < Q(k) * L + G(Q(k))
<1>5. ASSUME NEW k \in 1 .. T
      PROVE  InPiece(k)
  <2>1. k - 1 \in Nat /\ k - 1 < T
    BY <1>1
  <2> QED
    BY <2>1, OffsetInPiece
<1> DEFINE Kept(k) == old[k] = (IF Q(k) \in written THEN k - 1 ELSE Hole)
<1>6. /\ old \in Seq(Int) /\ Len(old) <= T
      /\ \A k \in 1 .. Len(old) : Kept(k)
      /\ \A p \in written : p * L + G(p) <= Len(old)
  <2>1. CASE written = {}
    BY <1>1, <2>1 DEF Placed
  <2>2. CASE written # {}
    <3>1. disk[1] \in Seq(Int) /\ disk[1] # Missing
      BY <2>2, MissingAssumption DEF Placed, MissingAssumption
    <3> QED
      BY <2>2, <3>1 DEF Placed
  <2> QED
    BY <2>1, <2>2
<1> HIDE DEF L, T, G, a, old, data, Q
<1>7. end \in Nat /\ end <= T /\ a + G(i) <= end /\ Len(old) <= end
  BY <1>1, <1>2, <1>6
<1> DEFINE Right(k) == new[k] \in Int /\ new[k] = (IF Q(k) \in written' THEN k - 1 ELSE Hole)
<1>8. ASSUME NEW k \in 1 .. end
      PROVE  Right(k)
  <2>1. InPiece(k) /\ k \in Nat
    BY <1>1, <1>5, <1>7
  <2>2. CASE k > a /\ k <= a + G(i)
    <3>1. new[k] = data[k - a] /\ k - a \in 1 .. G(i)
      BY <1>1, <1>2, <2>2
    <3>2. data[k - a] = k - 1
      BY <1>1, <1>2, <3>1
    <3>3. Q(k) = i
      <4>1. a <= k - 1 /\ k - 1 < a + L /\ k - 1 \in Nat /\ i \in Nat
        BY <1>1, <2>1, <2>2, PiecesFollow
      <4> QED
        BY <1>1, <4>1, PieceOf DEF a, Q
    <3> QED
      BY <1>3, <2>1, <3>1, <3>2, <3>3
  <2>3. CASE k <= a /\ k > Len(old)
    <3>1. new[k] = Hole
      BY <1>1, <1>2, <2>3
    <3>2. Q(k) # i
      BY <1>1, <2>1, <2>3 DEF a
    <3>3. Q(k) \notin written
      <4> SUFFICES ASSUME Q(k) \in written
                   PROVE  FALSE
        OBVIOUS
      <4>1. Q(k) * L + G(Q(k)) <= Len(old)
        BY <1>6
      <4>2. Q(k) * L \in Nat /\ G(Q(k)) \in Nat
        BY <2>1, PiecesFollow DEF L, G
      <4> QED
        BY <1>6, <2>1, <2>3, <4>1, <4>2
    <3> QED
      BY <1>3, <3>1, <3>2, <3>3 DEF Hole
  <2>4. CASE ~(k > a /\ k <= a + G(i)) /\ ~(k <= a /\ k > Len(old))
    <3>1. k \in 1 .. Len(old)
      BY <1>1, <1>2, <1>6, <2>1, <2>4
    <3>2. new[k] = old[k]
      BY <1>1, <1>2, <2>4
    <3>3. Kept(k)
      BY <1>6, <3>1
    <3>4. Q(k) # i
      BY <1>1, <2>1, <2>4 DEF a
    <3> QED
      BY <1>3, <2>1, <3>2, <3>3, <3>4 DEF Hole
  <2> QED
    BY <2>2, <2>3, <2>4
<1>9. new \in Seq(Int) /\ Len(new) = end /\ DOMAIN new = 1 .. end
  <2>1. new \in [1 .. end -> Int]
    BY <1>8
  <2> HIDE DEF end
  <2> QED
    BY <1>7, <2>1
<1>10. ASSUME NEW p \in written'
       PROVE  p * L + G(p) <= end
  <2>1. CASE p = i
    BY <1>7, <2>1 DEF a
  <2>2. CASE p # i
    <3>1. p \in written
      BY <1>3, <2>2
    <3>2. p * L \in Nat /\ G(p) \in Nat /\ p * L + G(p) <= Len(old)
      BY <1>6, <3>1, PiecesFollow DEF L, G
    <3> QED
      BY <1>6, <1>7, <3>2
  <2> QED
    BY <2>1, <2>2
<1> HIDE DEF new, end
<1>11. Placed'
  <2>1. written' # {}
    BY <1>3
  <2>2. pieceLength' = L /\ (torrent.total)' = T
    BY <1>3 DEF pieceLength, L, T
  <2>3. \A p : GetPieceLength(p)' = G(p)
    BY <1>3 DEF GetPieceLength, CountPieces, pieceLength, G
  <2>4. Len(disk'[1]) <= T
    BY <1>4, <1>7, <1>9
  <2>5. \A k \in DOMAIN (disk'[1]) :
            disk'[1][k] = (IF (k - 1) \div L \in written' THEN k - 1 ELSE Hole)
    BY <1>4, <1>8, <1>9 DEF Q
  <2>6. \A p \in written' : p * L + G(p) <= Len(disk'[1])
    BY <1>4, <1>9, <1>10
  <2> QED
    BY <1>4, <1>9, <2>1, <2>2, <2>3, <2>4, <2>5, <2>6 DEF Placed
<1> QED
  BY <1>4, <1>9, <1>11

\* When every piece is written, the file is the torrent.
LEMMA PlacedIsRight ==
    ASSUME torrent \in Torrents, OneFile => Placed
    PROVE  DiskRight
<1> SUFFICES ASSUME OneFile, written # {}, written = Piece
             PROVE  Len(disk[1]) = torrent.total
  BY DEF DiskRight, Placed
<1> DEFINE last == CountPieces - 1
<1>1. last \in Piece /\ last * pieceLength + GetPieceLength(last) = torrent.total
  <2>1. CountPieces \in Nat \ {0}
    BY PiecesFollow
  <2>2. last \in Piece
    BY <2>1 DEF Piece
  <2> QED
    BY <2>2, PiecesFollow
<1>2. torrent.total <= Len(disk[1]) /\ Len(disk[1]) <= torrent.total /\ Len(disk[1]) \in Nat
  BY <1>1 DEF Placed
<1> QED
  BY <1>2, PiecesFollow
--------------------------------------------------------------------------------
(* The readers.                                                               *)

\* The range of every variable.
LayoutTypeOK ==
    /\ torrent \in Torrents
    /\ written \subseteq Piece
    /\ disk \in [DOMAIN Declared -> Seq(Int) \cup {Missing}]
    /\ read \in [by : Readers \cup {"nobody"}, pc : {"idle", "loop", "ok", "error"},
                 start : Nat, want : Nat, file : Nat \ {0}, current : Nat, got : Seq(Int)]

\* Of a file of several, what belongs to the torrent is where it belongs.
AsFound ==
    ~OneFile => \A k \in DOMAIN Declared : disk[k] # Missing =>
        \A p \in 1 .. Len(disk[k]) : p <= Declared[k] => disk[k][p] = Begin(k) + p - 1

\* What is sought lies within a piece.
Within(start, want) ==
    \E i \in Piece : i * pieceLength <= start /\ start + want <= i * pieceLength + GetPieceLength(i)

Asked ==
    /\ read.pc \in {"loop", "ok"} => read.by # "nobody"
    /\ read.by # "nobody" => read.want > 0 /\ Within(read.start, read.want)

\* How many bytes lie between two offsets, none when they are in the other order.
From(a, b) == IF a < b THEN b - a ELSE 0

\* What each loop has established before a pass.
AtFile ==
    read.pc = "loop" =>
        /\ read.file <= Len(torrent.files) + 1
        /\ read.current = Begin(read.file)
        /\ HaveRead <= read.want
        /\ read.by \in {"download.GetBlock", "upload.GetBlock"} => read.got = <<>>
        /\ read.by = "download.GetBlock" => read.current <= read.start
        /\ read.by = "upload.ReadPiece" =>
            /\ read.got = Bytes(read.start, HaveRead)
            /\ ~OneFile /\ There => HaveRead = read.want \/ read.current <= read.start + HaveRead
        /\ read.by = "download.ReadPiece" /\ ~OneFile /\ NoFile(Odd) =>
            /\ read.got = Bytes(read.start, HaveRead)
            /\ HaveRead = read.want \/ HaveRead = From(read.start, read.current)

\* The inductive invariant.
IInv == LayoutTypeOK /\ (OneFile => Placed) /\ AsFound /\ Asked /\ AtFile /\ ReadsAreRight
--------------------------------------------------------------------------------
(* What the proofs about the passes share.                                    *)

\* The answer of a reader, with these values of pc and got, is right.
Answers(pc, got) ==
    /\ pc = "ok" =>
        /\ Len(got) = read.want
        /\ OneFile => \A k \in DOMAIN got : got[k] \in {Sought[k], Hole}
        /\ ~OneFile =>
            /\ read.by = "upload.ReadPiece" => got = Sought
            /\ read.by = "download.ReadPiece" => (NoFile(Odd) => got = Sought)
            /\ read.by = "download.GetBlock" => (NoFile(Longer) => got = Sought)
            /\ read.by = "upload.GetBlock" => \A k \in DOMAIN got : got[k] = Hole
    /\ read.by # "nobody" /\ There =>
        /\ pc = "error" => read.by = "download.GetBlock" /\ AcrossFiles
        /\ pc = "ok" /\ (OneFile \/ read.by # "upload.GetBlock") => got = Sought

SameQuestion ==
    /\ UNCHANGED <<torrent, disk, written>>
    /\ read'.by = read.by /\ read'.start = read.start /\ read'.want = read.want

\* A pass that answers right leaves everything right.
LEMMA AnswersAreRight ==
    ASSUME LayoutTypeOK, read.pc = "loop" => read.by # "nobody", read.pc = "loop",
           SameQuestion, Answers(read'.pc, read'.got)
    PROVE  ReadsAreRight'
<1>1. /\ OneFile' = OneFile /\ There' = There /\ AcrossFiles' = AcrossFiles /\ Sought' = Sought
      /\ NoFile(Odd)' = NoFile(Odd) /\ NoFile(Longer)' = NoFile(Longer)
      /\ read'.by = read.by /\ read'.want = read.want
  BY DEF SameQuestion, OneFile, There, AcrossFiles, Sought, NoFile, Odd, Longer, Declared,
     Begin, pieceLength
<1>2. read.by \in Readers
  BY DEF LayoutTypeOK
<1> QED
  BY <1>1, <1>2 DEF ReadsAreRight, Answers, Readers

\* Everything but read stays as it was.
LEMMA TheRestStays ==
    ASSUME LayoutTypeOK, OneFile => Placed, AsFound, UNCHANGED <<torrent, disk, written>>,
           read' \in [by : Readers \cup {"nobody"}, pc : {"idle", "loop", "ok", "error"},
                      start : Nat, want : Nat, file : Nat \ {0}, current : Nat, got : Seq(Int)]
    PROVE  LayoutTypeOK' /\ (OneFile => Placed)' /\ AsFound'
<1>1. LayoutTypeOK'
  BY DEF LayoutTypeOK, Piece, CountPieces, pieceLength, Declared, OneFile
<1>2. (OneFile => Placed)'
  BY DEF OneFile, Placed, GetPieceLength, CountPieces, pieceLength
<1>3. AsFound'
  BY DEF AsFound, OneFile, Declared, Begin
<1> QED
  BY <1>1, <1>2, <1>3

\* ReadAt gives what the file holds from a on, and at most n bytes of it.
LEMMA ReadAtFacts ==
    ASSUME NEW f \in Seq(Int), NEW a \in Nat, NEW n \in Nat
    PROVE  LET r == ReadAt(f, a, n)
           IN  /\ r \in Seq(Int)
               /\ Len(r) = IF a >= Len(f) THEN 0 ELSE IF a + n > Len(f) THEN Len(f) - a ELSE n
               /\ \A k \in 1 .. Len(r) : a + k \in 1 .. Len(f) /\ r[k] = f[a + k]
<1> DEFINE len == IF a >= Len(f) THEN 0 ELSE IF a + n > Len(f) THEN Len(f) - a ELSE n
           r == [k \in 1 .. len |-> f[a + k]]
<1>1. len \in Nat /\ \A k \in 1 .. len : a + k \in 1 .. Len(f)
  OBVIOUS
<1> HIDE DEF len
<1>2. r \in [1 .. len -> Int]
  BY <1>1
<1>3. r \in Seq(Int) /\ Len(r) = len /\ \A k \in 1 .. len : r[k] = f[a + k]
  BY <1>1, <1>2
<1>4. ReadAt(f, a, n) = r
  BY DEF ReadAt, len
<1> HIDE DEF r
<1> QED
  BY <1>1, <1>3, <1>4 DEF len

\* Where the files of a torrent of several begin and end.
LEMMA FilesFollow ==
    ASSUME torrent \in Torrents, ~OneFile
    PROVE  /\ Declared = torrent.files /\ torrent.files \in Seq(Nat)
           /\ Len(torrent.files) \in Nat \ {0}
           /\ DOMAIN Declared = 1 .. Len(torrent.files)
           /\ \A k \in 1 .. Len(torrent.files) + 1 : Begin(k) \in Nat
           /\ \A k \in 1 .. Len(torrent.files) :
                torrent.files[k] \in Nat /\ Begin(k + 1) = Begin(k) + torrent.files[k]
           /\ Begin(1) = 0
           /\ Begin(Len(torrent.files) + 1) = torrent.total
<1>1. Declared = torrent.files /\ torrent.files \in Seq(Nat) /\ torrent.files # <<>>
  BY TorrentsAssumption DEF TorrentsAssumption, Declared, OneFile
<1>2. \A k : Begin(k) = Begins(torrent.files)[k]
  BY <1>1 DEF Begin
<1>3. Begins(torrent.files)[Len(torrent.files) + 1] = torrent.total
  BY <1>1, TorrentsAssumption DEF TorrentsAssumption
<1>4. Len(torrent.files) \in Nat \ {0} /\ DOMAIN Declared = 1 .. Len(torrent.files)
  BY <1>1
<1> DEFINE b == Begins(torrent.files)
           N == Len(torrent.files)
<1>5. /\ b \in [1 .. N + 1 -> Nat] /\ b[1] = 0
      /\ \A k \in 1 .. N : b[k + 1] = b[k] + torrent.files[k]
  BY <1>1, BeginsRecursion
<1>6. \A k \in 1 .. N : torrent.files[k] \in Nat
  BY <1>1
<1> HIDE DEF b
<1> QED
  BY <1>1, <1>2, <1>3, <1>4, <1>5, <1>6 DEF b

\* What is read from file k from offset a of the file on lies at Begin(k) + a.
LEMMA ReadFromFile ==
    ASSUME LayoutTypeOK, AsFound, ~OneFile,
           NEW k \in 1 .. Len(torrent.files), disk[k] # Missing,
           NEW a \in Nat, NEW n \in Nat
    PROVE  LET r == ReadAt(disk[k], a, n)
           IN  /\ disk[k] \in Seq(Int) /\ r \in Seq(Int) /\ Len(r) <= n
               /\ (a + Len(r) <= torrent.files[k] \/ Len(r) = 0) => r = Bytes(Begin(k) + a, Len(r))
               /\ Len(disk[k]) = torrent.files[k] =>
                    /\ a + Len(r) <= torrent.files[k] \/ Len(r) = 0
                    /\ Len(r) = n \/ Len(r) = From(a, torrent.files[k])
               /\ Len(disk[k]) <= torrent.files[k] => a + Len(r) <= torrent.files[k] \/ Len(r) = 0
<1> DEFINE f == disk[k]
           r == ReadAt(f, a, n)
           size == torrent.files[k]
<1>1. /\ Declared = torrent.files /\ DOMAIN Declared = 1 .. Len(torrent.files)
      /\ Begin(k) \in Nat /\ size \in Nat
  <2>1. torrent \in Torrents
    BY DEF LayoutTypeOK
  <2>2. k \in 1 .. Len(torrent.files) + 1
    BY <2>1, FilesFollow
  <2> QED
    BY <2>1, <2>2, FilesFollow
<1>2. f \in Seq(Int)
  BY <1>1 DEF LayoutTypeOK
<1>3. \A p \in 1 .. Len(f) : p <= size => f[p] = Begin(k) + p - 1
  BY <1>1 DEF AsFound
<1>4. /\ r \in Seq(Int)
      /\ Len(r) = IF a >= Len(f) THEN 0 ELSE IF a + n > Len(f) THEN Len(f) - a ELSE n
      /\ \A p \in 1 .. Len(r) : a + p \in 1 .. Len(f) /\ r[p] = f[a + p]
  BY <1>2, ReadAtFacts
<1>5. Len(f) \in Nat /\ Len(r) \in Nat
  BY <1>2, <1>4
<1> HIDE DEF f, r, size
<1>6. ASSUME a + Len(r) <= size \/ Len(r) = 0
      PROVE  r = Bytes(Begin(k) + a, Len(r))
  <2> DEFINE s == Bytes(Begin(k) + a, Len(r))
  <2>1. s \in Seq(Int) /\ Len(s) = Len(r) /\ \A p \in 1 .. Len(r) : s[p] = Begin(k) + a + p - 1
    <3>1. Begin(k) + a \in Int
      BY <1>1
    <3> QED
      BY <1>5, <3>1, BytesFacts
  <2>2. ASSUME NEW p \in 1 .. Len(r)
        PROVE  r[p] = s[p]
    <3>1. a + p \in 1 .. Len(f) /\ r[p] = f[a + p] /\ a + p <= size
      BY <1>1, <1>4, <1>5, <1>6
    <3>2. f[a + p] = Begin(k) + (a + p) - 1
      BY <1>3, <3>1
    <3>3. Begin(k) + (a + p) - 1 = Begin(k) + a + p - 1
      BY <1>1
    <3> QED
      BY <2>1, <3>1, <3>2, <3>3
  <2> HIDE DEF s
  <2>3. r = s
    BY <1>4, <1>5, <2>1, <2>2, SeqEqual
  <2> QED
    BY <2>3 DEF s
<1>7. /\ Len(r) <= n
      /\ Len(f) = size => /\ a + Len(r) <= size \/ Len(r) = 0
                          /\ Len(r) = n \/ Len(r) = From(a, size)
      /\ Len(f) <= size => a + Len(r) <= size \/ Len(r) = 0
  BY <1>1, <1>4, <1>5 DEF From
<1> QED
  BY <1>2, <1>4, <1>6, <1>7 DEF f, r, size

\* A pass that ends the loop, with an error or with an answer.
LEMMA EndStep ==
    ASSUME IInv, read.pc = "loop", UNCHANGED <<torrent, disk, written>>,
           NEW pc \in {"ok", "error"}, NEW data \in Seq(Int),
           read' = [read EXCEPT !.pc = pc, !.got = data], Answers(pc, data)
    PROVE  IInv'
<1>1. LayoutTypeOK /\ Asked /\ read.by # "nobody"
  BY DEF IInv, Asked
<1>2. /\ read' \in [by : Readers \cup {"nobody"}, pc : {"idle", "loop", "ok", "error"},
                   start : Nat, want : Nat, file : Nat \ {0}, current : Nat, got : Seq(Int)]
      /\ read'.pc = pc /\ read'.got = data
      /\ read'.by = read.by /\ read'.start = read.start /\ read'.want = read.want
  BY <1>1 DEF LayoutTypeOK
<1>3. LayoutTypeOK' /\ (OneFile => Placed)' /\ AsFound'
  BY <1>2, TheRestStays DEF IInv
<1>4. Asked'
  BY <1>1, <1>2 DEF Asked, Within, Piece, CountPieces, pieceLength, GetPieceLength
<1>5. AtFile'
  BY <1>2 DEF AtFile
<1>6. ReadsAreRight'
  BY <1>1, <1>2, AnswersAreRight DEF SameQuestion
<1> QED
  BY <1>3, <1>4, <1>5, <1>6 DEF IInv

\* A pass that gives up, where something was missing.
LEMMA FailStep ==
    ASSUME IInv, read.pc = "loop", UNCHANGED <<torrent, disk, written>>, Fail,
           There => read.by = "download.GetBlock" /\ AcrossFiles
    PROVE  IInv'
<1>1. read' = [read EXCEPT !.pc = "error", !.got = read.got] /\ read.got \in Seq(Int)
  BY DEF Fail, IInv, LayoutTypeOK
<1>2. Answers("error", read.got)
  BY DEF Answers
<1> QED
  BY <1>1, <1>2, EndStep

\* A pass that answers right.
LEMMA FinishStep ==
    ASSUME IInv, read.pc = "loop", UNCHANGED <<torrent, disk, written>>,
           NEW data \in Seq(Int), Finish(data), Answers("ok", data)
    PROVE  IInv'
BY EndStep DEF Finish

\* What a pass that goes on with the next file must have read.
Continues(data) ==
    LET n == HaveRead + Len(data)
        next == Begin(read.file + 1)
    IN  /\ n <= read.want
        /\ read.by \in {"download.GetBlock", "upload.GetBlock"} => data = <<>>
        /\ read.by = "download.GetBlock" => next <= read.start
        /\ read.by = "upload.ReadPiece" =>
            /\ data = Bytes(read.start + HaveRead, Len(data))
            /\ There => n = read.want \/ next <= read.start + n
        /\ read.by = "download.ReadPiece" /\ NoFile(Odd) =>
            /\ data = Bytes(read.start + HaveRead, Len(data))
            /\ n = read.want \/ n = From(read.start, next)

\* A pass that goes on with the next file.
LEMMA NextFileStep ==
    ASSUME IInv, read.pc = "loop", UNCHANGED <<torrent, disk, written>>, ~OneFile,
           read.file \in 1 .. Len(torrent.files),
           NEW data \in Seq(Int), NextFile(data), Continues(data)
    PROVE  IInv'
<1> DEFINE got == read.got \o data
           next == Begin(read.file + 1)
           n == HaveRead + Len(data)
           start == read.start
           size == torrent.files[read.file]
<1>1. LayoutTypeOK /\ Asked /\ AtFile /\ read.by # "nobody" /\ torrent \in Torrents
  BY DEF IInv, Asked, LayoutTypeOK
<1>2. /\ read.got \in Seq(Int) /\ HaveRead \in Nat /\ got \in Seq(Int) /\ Len(got) = n
      /\ start \in Nat /\ read.want \in Nat /\ Len(data) \in Nat
  BY <1>1 DEF LayoutTypeOK, HaveRead
<1>3. /\ read.current = Begin(read.file) /\ next \in Nat
      /\ next = read.current + size /\ read.file + 1 \in 1 .. Len(torrent.files) + 1
  <2>1. read.file + 1 \in 1 .. Len(torrent.files) + 1
    BY <1>1, FilesFollow
  <2>2. next \in Nat /\ next = Begin(read.file) + size
    BY <1>1, <2>1, FilesFollow
  <2> QED
    BY <1>1, <2>1, <2>2 DEF AtFile
<1>4. read' = [read EXCEPT !.file = read.file + 1, !.got = got, !.current = next]
  BY <1>3 DEF NextFile
<1>5. read' \in [by : Readers \cup {"nobody"}, pc : {"idle", "loop", "ok", "error"},
                start : Nat, want : Nat, file : Nat \ {0}, current : Nat, got : Seq(Int)]
  <2>1. read.file + 1 \in Nat \ {0}
    BY <1>3
  <2> HIDE DEF got, next
  <2> QED
    BY <1>1, <1>2, <1>3, <1>4, <2>1 DEF LayoutTypeOK
<1>6. /\ read'.pc = "loop" /\ read'.got = got /\ read'.file = read.file + 1 /\ read'.current = next
      /\ read'.by = read.by /\ read'.start = start /\ read'.want = read.want
  <2> HIDE DEF got, next
  <2> QED
    BY <1>1, <1>4 DEF LayoutTypeOK
<1> HIDE DEF got
<1>7. LayoutTypeOK' /\ (OneFile => Placed)' /\ AsFound'
  BY <1>5, TheRestStays DEF IInv
<1>8. Asked'
  BY <1>1, <1>6 DEF Asked, Within, Piece, CountPieces, pieceLength, GetPieceLength
<1>9. ASSUME read.got = Bytes(start, HaveRead), data = Bytes(start + HaveRead, Len(data))
      PROVE  got = Bytes(start, n)
  <2>1. start \in Int
    BY <1>2
  <2> QED
    BY <1>2, <1>9, <2>1, BytesFollow DEF got
<1>10. AtFile'
  <2>1. /\ OneFile' = OneFile /\ There' = There /\ NoFile(Odd)' = NoFile(Odd)
        /\ Begin(read.file)' = next /\ HaveRead' = n
    <3>1. OneFile' = OneFile /\ NoFile(Odd)' = NoFile(Odd)
      BY DEF OneFile, NoFile, Odd, Declared
    <3>2. There' = There
      BY <1>6 DEF OneFile, There, Odd, Declared, pieceLength
    <3>3. Begin(read.file)' = next
      BY <1>6 DEF Begin, Declared, OneFile
    <3>4. HaveRead' = n
      BY <1>2, <1>6 DEF HaveRead
    <3> QED
      BY <3>1, <3>2, <3>3, <3>4
  <2>2. n <= read.want
    BY DEF Continues
  <2>3. read.by \in {"download.GetBlock", "upload.GetBlock"} => got = <<>>
    BY <1>1 DEF Continues, AtFile, got
  <2>4. read.by = "download.GetBlock" => next <= start
    BY DEF Continues
  <2>5. read.by = "upload.ReadPiece" =>
            /\ got = Bytes(start, n)
            /\ There => n = read.want \/ next <= start + n
    BY <1>1, <1>9 DEF Continues, AtFile
  <2>6. read.by = "download.ReadPiece" /\ NoFile(Odd) =>
            /\ got = Bytes(start, n)
            /\ n = read.want \/ n = From(start, next)
    BY <1>1, <1>9 DEF Continues, AtFile
  <2>7. read.file + 1 <= Len(torrent.files) + 1 /\ torrent' = torrent
    BY <1>3
  <2> HIDE DEF next, n, start
  <2> QED
    BY <1>6, <2>1, <2>2, <2>3, <2>4, <2>5, <2>6, <2>7 DEF AtFile, From
<1>11. ReadsAreRight'
  <2>1. Answers(read'.pc, read'.got)
    BY <1>6 DEF Answers
  <2> QED
    BY <1>1, <1>6, <2>1, AnswersAreRight DEF SameQuestion
<1> QED
  BY <1>7, <1>8, <1>10, <1>11 DEF IInv
--------------------------------------------------------------------------------
(* The passes.                                                                *)

\* What holds before a pass over a torrent of several files.
LEMMA BeforePass ==
    ASSUME IInv, read.pc = "loop"
    PROVE  /\ torrent \in Torrents /\ LayoutTypeOK /\ AsFound /\ AtFile
           /\ read.by \in Readers /\ read.start \in Nat /\ read.want \in Nat \ {0}
           /\ read.got \in Seq(Int) /\ HaveRead \in Nat /\ HaveRead <= read.want
           /\ read.start + read.want <= torrent.total
           /\ read.file \in Nat \ {0} /\ read.current \in Nat
           /\ Sought \in Seq(Int) /\ Len(Sought) = read.want
           /\ \A k \in 1 .. read.want : Sought[k] = read.start + k - 1
<1>1. torrent \in Torrents /\ LayoutTypeOK /\ AsFound /\ AtFile
  BY DEF IInv, LayoutTypeOK
<1>2. /\ read.by \in Readers /\ read.start \in Nat /\ read.want \in Nat \ {0}
      /\ read.got \in Seq(Int) /\ read.file \in Nat \ {0} /\ read.current \in Nat
  BY DEF IInv, LayoutTypeOK, Asked
<1>3. HaveRead \in Nat /\ HaveRead <= read.want
  BY <1>1, <1>2 DEF AtFile, HaveRead
<1>4. read.start + read.want <= torrent.total
  <2>1. Within(read.start, read.want)
    BY DEF IInv, Asked
  <2>2. PICK i \in Piece : read.start + read.want <= i * pieceLength + GetPieceLength(i)
    BY <2>1 DEF Within
  <2>3. i * pieceLength \in Nat /\ GetPieceLength(i) \in Nat /\ torrent.total \in Nat
        /\ i * pieceLength + GetPieceLength(i) <= torrent.total
    BY <1>1, PiecesFollow
  <2> QED
    BY <1>2, <2>2, <2>3
<1>5. /\ Sought \in Seq(Int) /\ Len(Sought) = read.want
      /\ \A k \in 1 .. read.want : Sought[k] = read.start + k - 1
  <2>1. read.start \in Int /\ read.want \in Nat
    BY <1>2
  <2> QED
    BY <2>1, BytesFacts DEF Sought
<1> QED
  BY <1>1, <1>2, <1>3, <1>4, <1>5

\* And at the file it looks at.
LEMMA AtThisFile ==
    ASSUME IInv, read.pc = "loop", ~OneFile, read.file <= Len(torrent.files)
    PROVE  LET k == read.file
           IN  /\ k \in 1 .. Len(torrent.files) /\ k \in DOMAIN disk /\ k \in DOMAIN Declared
               /\ Declared[k] = torrent.files[k]
               /\ torrent.files[k] \in Nat
               /\ read.current = Begin(k) /\ Begin(k + 1) = read.current + torrent.files[k]
<1>1. torrent \in Torrents /\ AtFile /\ read.file \in Nat \ {0}
  BY BeforePass
<1>2. read.file \in 1 .. Len(torrent.files) /\ read.file \in DOMAIN Declared
  BY <1>1, FilesFollow
<1>3. read.file \in DOMAIN disk
  BY <1>2 DEF IInv, LayoutTypeOK
<1> QED
  BY <1>1, <1>2, <1>3, FilesFollow DEF AtFile

\* Behind the last file there is nothing left to read, if all was there.
LEMMA BehindTheFiles ==
    ASSUME IInv, read.pc = "loop", ~OneFile, ~(read.file <= Len(torrent.files))
    PROVE  read.current = torrent.total
<1>1. torrent \in Torrents /\ AtFile /\ read.file \in Nat \ {0}
  BY BeforePass
<1>2. Len(torrent.files) \in Nat /\ Begin(Len(torrent.files) + 1) = torrent.total
  BY <1>1, FilesFollow
<1>3. read.file = Len(torrent.files) + 1
  BY <1>1, <1>2 DEF AtFile
<1> QED
  BY <1>1, <1>2, <1>3 DEF AtFile

\* Nobody's file has a wrong size when all is there.
LEMMA WholeWhenThere ==
    ASSUME LayoutTypeOK, ~OneFile, There
    PROVE  /\ NoFile(Odd)
           /\ \A k \in DOMAIN disk : disk[k] # Missing /\ Len(disk[k]) = Declared[k]
BY DEF There, NoFile, Odd, LayoutTypeOK

\* The upload's loop keeps the offset it seeks at or behind the file's begin.
LEMMA UploadReadsFileStep ==
    ASSUME IInv, UploadReadsFile
    PROVE  IInv'
<1> DEFINE k == read.file
           size == torrent.files[k]
           fileStart == read.start + HaveRead - read.current
           fileRemaining == size - fileStart
           remaining == read.want - HaveRead
           readLength == IF remaining > fileRemaining THEN fileRemaining ELSE remaining
           data == ReadAt(disk[k], fileStart, readLength)
<1>1. /\ read.pc = "loop" /\ read.by = "upload.ReadPiece" /\ ~OneFile /\ ~LoopEnds
      /\ UNCHANGED <<torrent, disk, written>>
  BY DEF UploadReadsFile, Loop
<1>2. /\ fileRemaining <= 0 => NextFile(<<>>)
      /\ fileRemaining > 0 /\ (disk[k] = Missing \/ fileStart < 0) => Fail
      /\ fileRemaining > 0 /\ ~(disk[k] = Missing \/ fileStart < 0)
            => (IF Len(data) \in {0, readLength} THEN NextFile(data) ELSE Fail)
  <2>1. fileRemaining \in Int
    <3>1. k <= Len(torrent.files)
      BY <1>1, BeforePass, FilesFollow DEF LoopEnds
    <3> QED
      BY <1>1, <3>1, BeforePass, AtThisFile
  <2> HIDE DEF data, readLength, fileStart, size
  <2> QED
    BY <2>1 DEF UploadReadsFile, data, readLength, fileStart, size
<1>3. /\ LayoutTypeOK /\ AsFound /\ torrent \in Torrents
      /\ read.start \in Nat /\ read.want \in Nat /\ HaveRead \in Nat /\ read.current \in Nat
      /\ read.got = Bytes(read.start, HaveRead)
      /\ There => HaveRead = read.want \/ read.current <= read.start + HaveRead
  BY <1>1, BeforePass DEF AtFile
<1>4. k <= Len(torrent.files) /\ HaveRead < read.want
  BY <1>1, <1>3, BeforePass, FilesFollow DEF LoopEnds
<1>5. /\ k \in 1 .. Len(torrent.files) /\ k \in DOMAIN disk /\ Declared[k] = size /\ size \in Nat
      /\ read.current = Begin(k) /\ Begin(k + 1) = read.current + size
  BY <1>1, <1>4, AtThisFile
<1>6. There => disk[k] # Missing /\ Len(disk[k]) = size
  BY <1>1, <1>3, <1>5, WholeWhenThere
<1> HIDE DEF size
<1>7. fileStart \in Int /\ fileRemaining \in Int /\ remaining \in Nat /\ remaining > 0
  BY <1>3, <1>4, <1>5
<1>8. There => fileStart >= 0
  BY <1>3, <1>4
<1>9. CASE fileRemaining <= 0
  <2>1. NextFile(<<>>) /\ <<>> \in Seq(Int) /\ Len(<<>>) = 0
    BY <1>2, <1>9
  <2>2. Continues(<<>>)
    <3>1. read.start + HaveRead \in Int
      BY <1>3
    <3>2. <<>> = Bytes(read.start + HaveRead, 0)
      BY <3>1, NoBytes
    <3>3. Begin(k + 1) <= read.start + HaveRead
      BY <1>3, <1>5, <1>9
    <3> QED
      BY <1>1, <1>3, <1>4, <2>1, <3>2, <3>3 DEF Continues
  <2> QED
    BY <1>1, <1>5, <2>1, <2>2, NextFileStep
<1>10. CASE fileRemaining > 0 /\ (disk[k] = Missing \/ fileStart < 0)
  <2>1. Fail /\ ~There
    BY <1>2, <1>6, <1>8, <1>7, <1>10
  <2> QED
    BY <1>1, <2>1, FailStep
<1>11. CASE fileRemaining > 0 /\ ~(disk[k] = Missing \/ fileStart < 0)
  <2>1. fileStart \in Nat /\ readLength \in Nat /\ readLength > 0 /\ disk[k] # Missing
    BY <1>7, <1>11
  <2>2. readLength <= remaining /\ fileStart + readLength <= size
        /\ (readLength = remaining \/ fileStart + readLength = size)
    <3>1. fileRemaining = size - fileStart
      OBVIOUS
    <3> HIDE DEF fileRemaining, fileStart, remaining
    <3> QED
      BY <1>5, <1>7, <1>11, <3>1
  <2> HIDE DEF readLength, fileRemaining, remaining
  <2>3. /\ disk[k] \in Seq(Int) /\ data \in Seq(Int) /\ Len(data) <= readLength
        /\ (fileStart + Len(data) <= size \/ Len(data) = 0)
              => data = Bytes(Begin(k) + fileStart, Len(data))
        /\ Len(disk[k]) = size => Len(data) = readLength \/ Len(data) = From(fileStart, size)
    <3> HIDE DEF fileStart
    <3> QED
      BY <1>1, <1>3, <1>5, <2>1, ReadFromFile DEF size
  <2>4. There => Len(data) = readLength
    <3> SUFFICES ASSUME There
                 PROVE  Len(data) = readLength
      OBVIOUS
    <3>1. Len(data) = readLength \/ Len(data) = From(fileStart, size)
      BY <1>6, <2>3
    <3>2. Len(data) \in Nat /\ Len(data) <= readLength
      BY <2>3
    <3> HIDE DEF data, fileStart
    <3> QED
      BY <1>5, <2>1, <2>2, <3>1, <3>2 DEF From
  <2>5. CASE Len(data) \in {0, readLength}
    <3>1. NextFile(data)
      BY <1>2, <1>11, <2>5
    <3>2. data = Bytes(Begin(k) + fileStart, Len(data))
      BY <2>2, <2>3, <2>5
    <3>3. Begin(k) + fileStart = read.start + HaveRead
      BY <1>3, <1>5
    <3>4. HaveRead + Len(data) <= read.want
      BY <1>3, <1>7, <2>1, <2>2, <2>5 DEF remaining
    <3>5. There => HaveRead + Len(data) = read.want
                   \/ Begin(k + 1) <= read.start + (HaveRead + Len(data))
      <4> SUFFICES ASSUME There
                   PROVE  HaveRead + readLength = read.want
                          \/ Begin(k + 1) <= read.start + (HaveRead + readLength)
        BY <2>4
      <4>1. CASE readLength = remaining
        BY <1>3, <4>1 DEF remaining
      <4>2. CASE fileStart + readLength = size
        <5>1. readLength \in Nat /\ size \in Nat
          BY <1>5, <2>1
        <5>2. read.start + HaveRead - read.current + readLength = size
          BY <4>2
        <5>3. read.start + (HaveRead + readLength) = read.current + size
          BY <1>3, <5>1, <5>2
        <5> QED
          BY <1>3, <1>5, <5>1, <5>3
      <4> QED
        BY <2>2, <4>1, <4>2
    <3>6. Continues(data)
      <4> HIDE DEF data, fileStart
      <4> QED
        BY <1>1, <3>2, <3>3, <3>4, <3>5 DEF Continues
    <3> HIDE DEF data
    <3> QED
      BY <1>1, <1>5, <2>3, <3>1, <3>6, NextFileStep
  <2>6. CASE Len(data) \notin {0, readLength}
    <3>1. Fail /\ ~There
      BY <1>2, <1>11, <2>4, <2>6
    <3> QED
      BY <1>1, <3>1, FailStep
  <2> QED
    BY <2>5, <2>6
<1> QED
  BY <1>7, <1>9, <1>10, <1>11

\* ReadPiece answers with a full buffer only, and has one when all is there.
LEMMA EndReadPieceStep ==
    ASSUME IInv, EndReadPiece
    PROVE  IInv'
<1>1. /\ read.pc = "loop" /\ read.by \in {"download.ReadPiece", "upload.ReadPiece"} /\ ~OneFile
      /\ LoopEnds /\ UNCHANGED <<torrent, disk, written>>
      /\ IF HaveRead < read.want THEN Fail ELSE Finish(read.got)
  BY DEF EndReadPiece
<1>2. /\ LayoutTypeOK /\ AtFile /\ torrent \in Torrents
      /\ read.start \in Nat /\ read.want \in Nat \ {0} /\ read.got \in Seq(Int)
      /\ HaveRead \in Nat /\ HaveRead <= read.want
      /\ read.start + read.want <= torrent.total /\ torrent.total \in Nat
  BY <1>1, BeforePass, PiecesFollow
<1>3. There => NoFile(Odd)
  BY <1>1, <1>2, WholeWhenThere
<1>4. CASE HaveRead < read.want
  <2>1. Fail
    BY <1>1, <1>4
  <2>2. ~There
    <3> SUFFICES ASSUME There
                 PROVE  FALSE
      OBVIOUS
    <3>1. ~(read.file <= Len(torrent.files))
      <4>1. Len(torrent.files) \in Nat /\ read.file \in Nat
        BY <1>1, <1>2, FilesFollow, BeforePass
      <4> QED
        BY <1>1, <1>2, <1>4, <4>1 DEF LoopEnds
    <3>2. read.current = torrent.total
      BY <1>1, <3>1, BehindTheFiles
    <3>3. \/ read.current <= read.start + HaveRead
          \/ HaveRead = From(read.start, read.current)
      BY <1>1, <1>2, <1>3, <1>4 DEF AtFile
    <3> QED
      BY <1>2, <1>4, <3>2, <3>3 DEF From
  <2> QED
    BY <1>1, <2>1, <2>2, FailStep
<1>5. CASE ~(HaveRead < read.want)
  <2>1. HaveRead = read.want /\ Finish(read.got)
    BY <1>1, <1>2, <1>5
  <2>2. read.by = "upload.ReadPiece" => read.got = Sought
    BY <1>1, <1>2, <2>1 DEF AtFile, Sought
  <2>3. read.by = "download.ReadPiece" /\ NoFile(Odd) => read.got = Sought
    BY <1>1, <1>2, <2>1 DEF AtFile, Sought
  <2>4. Answers("ok", read.got)
    BY <1>1, <1>3, <2>1, <2>2, <2>3 DEF Answers, HaveRead
  <2> QED
    BY <1>1, <1>2, <2>1, <2>4, FinishStep
<1> QED
  BY <1>4, <1>5

\* The download's loop reads what begins where it stands, if sizes are right.
LEMMA DownloadReadsFileStep ==
    ASSUME IInv, DownloadReadsFile
    PROVE  IInv'
<1> DEFINE k == read.file
           size == torrent.files[k]
           pieceStart == IF read.start - read.current < 0 THEN 0 ELSE read.start - read.current
           n == read.want - HaveRead
           data == ReadAt(disk[k], pieceStart, n)
<1>1. /\ read.pc = "loop" /\ read.by = "download.ReadPiece" /\ ~OneFile /\ ~LoopEnds
      /\ UNCHANGED <<torrent, disk, written>>
  BY DEF DownloadReadsFile, Loop
<1>2. IF read.current + size <= read.start THEN NextFile(<<>>)
      ELSE IF disk[k] = Missing THEN Fail ELSE NextFile(data)
  BY DEF DownloadReadsFile
<1>3. /\ LayoutTypeOK /\ AsFound /\ torrent \in Torrents
      /\ read.start \in Nat /\ read.want \in Nat /\ HaveRead \in Nat /\ read.current \in Nat
      /\ NoFile(Odd) => HaveRead = read.want \/ HaveRead = From(read.start, read.current)
  BY <1>1, BeforePass DEF AtFile
<1>4. k <= Len(torrent.files) /\ HaveRead < read.want
  BY <1>1, <1>3, BeforePass, FilesFollow DEF LoopEnds
<1>5. /\ k \in 1 .. Len(torrent.files) /\ k \in DOMAIN disk /\ Declared[k] = size /\ size \in Nat
      /\ read.current = Begin(k) /\ Begin(k + 1) = read.current + size
  BY <1>1, <1>4, AtThisFile
<1>6. There => disk[k] # Missing
  BY <1>1, <1>3, <1>5, WholeWhenThere
<1>7. NoFile(Odd) => HaveRead = From(read.start, read.current)
  BY <1>3, <1>4
<1> HIDE DEF size
<1>8. CASE read.current + size <= read.start
  <2>1. NextFile(<<>>) /\ <<>> \in Seq(Int) /\ Len(<<>>) = 0
    BY <1>2, <1>8
  <2>2. read.start + HaveRead \in Int
    BY <1>3
  <2>3. <<>> = Bytes(read.start + HaveRead, 0)
    BY <2>2, NoBytes
  <2>4. NoFile(Odd) => HaveRead = From(read.start, Begin(k + 1))
    BY <1>3, <1>5, <1>7, <1>8 DEF From
  <2>5. Continues(<<>>)
    BY <1>1, <1>3, <1>4, <2>1, <2>3, <2>4 DEF Continues
  <2> QED
    BY <1>1, <1>5, <2>1, <2>5, NextFileStep
<1>9. CASE ~(read.current + size <= read.start) /\ disk[k] = Missing
  <2>1. Fail /\ ~There
    BY <1>2, <1>6, <1>9
  <2> QED
    BY <1>1, <2>1, FailStep
<1>10. CASE ~(read.current + size <= read.start) /\ disk[k] # Missing
  <2>1. NextFile(data)
    BY <1>2, <1>10
  <2>2. pieceStart \in Nat /\ n \in Nat /\ n > 0
    BY <1>3, <1>4
  <2>3. NoFile(Odd) => /\ HaveRead = From(read.start, read.current)
                       /\ Begin(k) + pieceStart = read.start + HaveRead
    BY <1>3, <1>5, <1>7 DEF From
  <2>4. NoFile(Odd) => Len(disk[k]) = size
    <3>1. k \in DOMAIN Declared
      BY <1>1, <1>4, AtThisFile
    <3> QED
      BY <1>5, <1>10, <3>1 DEF NoFile, Odd
  <2>5. ASSUME NEW m \in Nat, m = n \/ m = From(pieceStart, size), m <= n, NoFile(Odd)
        PROVE  HaveRead + m = read.want \/ HaveRead + m = From(read.start, Begin(k + 1))
    <3>1. CASE m = n
      BY <1>3, <3>1
    <3>2. CASE m = From(pieceStart, size) /\ read.current <= read.start
      <4>1. HaveRead = 0 /\ pieceStart = read.start - read.current
        BY <1>3, <1>7, <2>5, <3>2 DEF From
      <4>2. m = size - pieceStart
        BY <1>3, <1>5, <1>10, <3>2, <4>1 DEF From
      <4> QED
        BY <1>3, <1>5, <1>10, <4>1, <4>2 DEF From
    <3>3. CASE m = From(pieceStart, size) /\ ~(read.current <= read.start)
      <4>1. HaveRead = read.current - read.start /\ pieceStart = 0
        BY <1>3, <1>7, <2>5, <3>3 DEF From
      <4>2. m = size
        BY <1>5, <3>3, <4>1 DEF From
      <4> QED
        BY <1>3, <1>5, <3>3, <4>1, <4>2 DEF From
    <3> HIDE DEF n, pieceStart
    <3> QED
      BY <2>5, <3>1, <3>2, <3>3
  <2>6. HaveRead + n = read.want /\ \A m \in Nat : m <= n => HaveRead + m <= read.want
    BY <1>3, <1>4
  <2> HIDE DEF pieceStart, n
  <2>7. /\ data \in Seq(Int) /\ Len(data) <= n
        /\ (pieceStart + Len(data) <= size \/ Len(data) = 0)
              => data = Bytes(Begin(k) + pieceStart, Len(data))
        /\ Len(disk[k]) = size => /\ pieceStart + Len(data) <= size \/ Len(data) = 0
                                  /\ Len(data) = n \/ Len(data) = From(pieceStart, size)
    BY <1>1, <1>3, <1>5, <1>10, <2>2, ReadFromFile DEF size
  <2>8. Len(data) \in Nat
    BY <2>7
  <2> HIDE DEF data
  <2>9. Continues(data)
    BY <1>1, <2>3, <2>4, <2>5, <2>6, <2>7, <2>8 DEF Continues
  <2> QED
    BY <1>1, <1>5, <2>1, <2>7, <2>9, NextFileStep
<1> QED
  BY <1>8, <1>9, <1>10

\* The download's GetBlock finds a block that lies in one file.
LEMMA DownloadFindsFileStep ==
    ASSUME IInv, DownloadFindsFile
    PROVE  IInv'
<1> DEFINE k == read.file
           size == torrent.files[k]
           a == read.start - read.current
           data == ReadAt(disk[k], a, read.want)
<1>1. /\ read.pc = "loop" /\ read.by = "download.GetBlock" /\ ~OneFile
      /\ UNCHANGED <<torrent, disk, written>>
  BY DEF DownloadFindsFile, Loop
<1>2. /\ LayoutTypeOK /\ AsFound /\ torrent \in Torrents
      /\ read.start \in Nat /\ read.want \in Nat \ {0} /\ HaveRead \in Nat /\ read.current \in Nat
      /\ read.got = <<>> /\ HaveRead = 0 /\ read.current <= read.start
      /\ read.start + read.want <= torrent.total /\ torrent.total \in Nat
      /\ k \in Nat /\ Len(torrent.files) \in Nat
  BY <1>1, BeforePass, PiecesFollow, FilesFollow DEF AtFile, HaveRead
<1>3. CASE k > Len(torrent.files)
  <2>1. Fail /\ ~(k <= Len(torrent.files))
    BY <1>2, <1>3 DEF DownloadFindsFile
  <2>2. read.current = torrent.total
    BY <1>1, <2>1, BehindTheFiles
  <2>3. FALSE
    BY <1>2, <2>2
  <2> QED
    BY <2>3
<1>4. CASE ~(k > Len(torrent.files))
  <2>1. k <= Len(torrent.files)
    BY <1>2, <1>4
  <2>2. IF read.current + size <= read.start THEN NextFile(<<>>)
        ELSE IF disk[k] = Missing THEN Fail
        ELSE IF Len(data) = read.want THEN Finish(data) ELSE Fail
    BY <1>4 DEF DownloadFindsFile
  <2>3. /\ k \in 1 .. Len(torrent.files) /\ k \in DOMAIN disk /\ Declared[k] = size /\ size \in Nat
        /\ read.current = Begin(k) /\ Begin(k + 1) = read.current + size
    BY <1>1, <2>1, AtThisFile
  <2>4. There => disk[k] # Missing /\ Len(disk[k]) = size
    BY <1>1, <1>2, <2>3, WholeWhenThere
  <2> HIDE DEF size
  <2>5. CASE read.current + size <= read.start
    <3>1. NextFile(<<>>) /\ <<>> \in Seq(Int) /\ Len(<<>>) = 0
      BY <2>2, <2>5
    <3>2. Continues(<<>>)
      BY <1>1, <1>2, <2>3, <2>5, <3>1 DEF Continues
    <3> QED
      BY <1>1, <2>3, <3>1, <3>2, NextFileStep
  <2>6. CASE ~(read.current + size <= read.start) /\ disk[k] = Missing
    <3>1. Fail /\ ~There
      BY <2>2, <2>4, <2>6
    <3> QED
      BY <1>1, <3>1, FailStep
  <2>7. CASE ~(read.current + size <= read.start) /\ disk[k] # Missing
    <3>1. IF Len(data) = read.want THEN Finish(data) ELSE Fail
      BY <2>2, <2>7
    <3>2. a \in Nat /\ read.want \in Nat /\ Begin(k) + a = read.start
      BY <1>2, <2>3
    <3>3. a < size /\ a + read.current = read.start
      BY <1>2, <2>3, <2>7
    <3> HIDE DEF a
    <3>0. LayoutTypeOK /\ AsFound /\ ~OneFile /\ disk[k] # Missing /\ k \in 1 .. Len(torrent.files)
      BY <1>1, <1>2, <2>3, <2>7
    <3>4. /\ data \in Seq(Int) /\ Len(data) <= read.want
          /\ (a + Len(data) <= size \/ Len(data) = 0) => data = Bytes(Begin(k) + a, Len(data))
          /\ Len(disk[k]) = size => Len(data) = read.want \/ Len(data) = From(a, size)
          /\ Len(disk[k]) <= size => a + Len(data) <= size \/ Len(data) = 0
          /\ disk[k] \in Seq(Int)
      BY <3>0, <3>2, ReadFromFile DEF size
    <3>5. Len(data) \in Nat /\ Len(disk[k]) \in Nat
      BY <3>4
    <3> HIDE DEF data
    <3>6. NoFile(Longer) => Len(disk[k]) <= size
      <4>1. k \in DOMAIN Declared
        BY <1>1, <2>1, AtThisFile
      <4> QED
        BY <2>3, <2>7, <3>5, <4>1 DEF NoFile, Longer
    <3>7. CASE Len(data) = read.want
      <4>1. NoFile(Longer) => data = Sought
        BY <3>2, <3>4, <3>6, <3>7 DEF Sought
      <4>2. There => data = Sought
        BY <2>3, <2>4, <3>2, <3>4, <3>7 DEF Sought
      <4>3. Answers("ok", data)
        BY <1>1, <3>7, <4>1, <4>2 DEF Answers
      <4> QED
        BY <1>1, <3>1, <3>4, <3>7, <4>3, FinishStep
    <3>8. CASE Len(data) # read.want
      <4>1. Fail
        BY <3>1, <3>8
      <4>2. There => AcrossFiles
        <5> SUFFICES ASSUME There
                     PROVE  AcrossFiles
          OBVIOUS
        <5>1. Len(data) = From(a, size)
          BY <2>4, <3>4, <3>8
        <5>2. size - a < read.want
          BY <1>2, <2>3, <3>2, <3>3, <3>4, <3>5, <3>8, <5>1 DEF From
        <5>3. read.start < Begin(k + 1) /\ Begin(k + 1) < read.start + read.want
          BY <1>2, <2>3, <3>2, <3>3, <5>2
        <5>4. k + 1 # Len(torrent.files) + 1
          <6>1. Begin(Len(torrent.files) + 1) = torrent.total
            BY <1>1, <1>2, FilesFollow
          <6> QED
            BY <1>2, <5>3, <6>1
        <5>5. k + 1 \in 2 .. Len(Declared)
          <6>1. Declared = torrent.files
            BY <1>1, <1>2, FilesFollow
          <6> QED
            BY <1>2, <2>3, <5>4, <6>1
        <5> QED
          BY <5>3, <5>5 DEF AcrossFiles
      <4> QED
        BY <1>1, <4>1, <4>2, FailStep
    <3> QED
      BY <3>7, <3>8
  <2> QED
    BY <2>5, <2>6, <2>7
<1> QED
  BY <1>3, <1>4

\* A buffer of n bytes: what was read, and zeros.
LEMMA PaddedFacts ==
    ASSUME NEW data \in Seq(Int), NEW n \in Nat, Len(data) <= n
    PROVE  LET r == Padded(data, n)
           IN  /\ r \in Seq(Int) /\ Len(r) = n /\ DOMAIN r = 1 .. n
               /\ \A k \in 1 .. Len(data) : r[k] = data[k]
               /\ \A k \in 1 .. n : k > Len(data) => r[k] = Hole
               /\ Len(data) = n => r = data
<1> DEFINE len == n - Len(data)
           zeros == [k \in 1 .. len |-> Hole]
           r == data \o zeros
<1>1. len \in Nat /\ Hole \in Int
  BY DEF Hole
<1>2. zeros \in [1 .. len -> Int]
  BY <1>1
<1>3. zeros \in Seq(Int) /\ Len(zeros) = len /\ \A k \in 1 .. len : zeros[k] = Hole
  BY <1>1, <1>2
<1>4. Padded(data, n) = r
  BY DEF Padded
<1> HIDE DEF zeros
<1>5. r \in Seq(Int) /\ Len(r) = n
  BY <1>3
<1>6. ASSUME NEW k \in 1 .. Len(data)
      PROVE  r[k] = data[k]
  BY <1>3
<1>7. ASSUME NEW k \in 1 .. n, k > Len(data)
      PROVE  r[k] = Hole
  <2>1. k - Len(data) \in 1 .. len /\ r[k] = zeros[k - Len(data)]
    BY <1>3, <1>7
  <2> QED
    BY <1>3, <2>1
<1> HIDE DEF r
<1>8. Len(data) = n => r = data
  BY <1>5, <1>6, SeqEqual
<1> QED
  BY <1>4, <1>5, <1>6, <1>7, <1>8

\* The upload's GetBlock answers with holes.
LEMMA UploadReturnsZerosStep ==
    ASSUME IInv, UploadReturnsZeros
    PROVE  IInv'
<1> DEFINE data == Padded(<<>>, read.want)
<1>1. /\ read.pc = "loop" /\ read.by = "upload.GetBlock" /\ ~OneFile
      /\ UNCHANGED <<torrent, disk, written>> /\ Finish(data)
  BY DEF UploadReturnsZeros, Loop
<1>2. read.want \in Nat /\ <<>> \in Seq(Int) /\ Len(<<>>) = 0
  BY <1>1, BeforePass
<1>3. /\ data \in Seq(Int) /\ Len(data) = read.want /\ DOMAIN data = 1 .. read.want
      /\ \A k \in 1 .. read.want : data[k] = Hole
  <2> DEFINE nothing == <<>>
  <2>1. nothing \in Seq(Int) /\ Len(nothing) = 0 /\ data = Padded(nothing, read.want)
    BY <1>2
  <2> HIDE DEF nothing, data
  <2>2. /\ data \in Seq(Int) /\ Len(data) = read.want /\ DOMAIN data = 1 .. read.want
        /\ \A k \in 1 .. read.want : k > 0 => data[k] = Hole
    <3>1. nothing \in Seq(Int) /\ read.want \in Nat /\ Len(nothing) <= read.want
      BY <1>2, <2>1
    <3>2. /\ Padded(nothing, read.want) \in Seq(Int)
          /\ Len(Padded(nothing, read.want)) = read.want
          /\ DOMAIN Padded(nothing, read.want) = 1 .. read.want
          /\ \A k \in 1 .. read.want : k > Len(nothing) => Padded(nothing, read.want)[k] = Hole
      BY <3>1, PaddedFacts
    <3> QED
      BY <2>1, <3>2
  <2> QED
    BY <1>2, <2>2
<1> HIDE DEF data
<1>4. Answers("ok", data)
  BY <1>1, <1>3 DEF Answers
<1> QED
  BY <1>1, <1>3, <1>4, FinishStep

\* What a torrent of one file has between two offsets of a piece: its bytes and
\* holes, and no hole once the piece is written.
LEMMA ReadFromOneFile ==
    ASSUME IInv, read.pc = "loop", OneFile, disk[1] # Missing
    PROVE  LET r == ReadAt(disk[1], read.start, read.want)
           IN  /\ r \in Seq(Int) /\ Len(r) <= read.want
               /\ \A k \in 1 .. Len(r) : r[k] \in {Sought[k], Hole}
               /\ There => r = Sought
<1> DEFINE f == disk[1]
           a == read.start
           n == read.want
           r == ReadAt(f, a, n)
           L == pieceLength
           G(i) == GetPieceLength(i)
<1>1. /\ torrent \in Torrents /\ a \in Nat /\ n \in Nat \ {0}
      /\ Sought \in Seq(Int) /\ Len(Sought) = n
      /\ \A k \in 1 .. n : Sought[k] = a + k - 1
  BY BeforePass
<1>2. Placed /\ Within(a, n)
  BY DEF IInv, Asked
<1>3. /\ f \in Seq(Int)
      /\ \A k \in 1 .. Len(f) : f[k] = (IF (k - 1) \div L \in written THEN k - 1 ELSE Hole)
      /\ \A i \in written : i * L + G(i) <= Len(f)
  BY <1>2 DEF Placed
<1>4. PICK i \in Piece : i * L <= a /\ a + n <= i * L + G(i)
  BY <1>2 DEF Within
<1>5. i \in Nat /\ i * L \in Nat /\ L \in Nat \ {0} /\ G(i) \in 1 .. L
  BY <1>1, PiecesFollow
<1>6. /\ r \in Seq(Int)
      /\ Len(r) = IF a >= Len(f) THEN 0 ELSE IF a + n > Len(f) THEN Len(f) - a ELSE n
      /\ \A k \in 1 .. Len(r) : a + k \in 1 .. Len(f) /\ r[k] = f[a + k]
  <2>1. f \in Seq(Int) /\ a \in Nat /\ n \in Nat
    BY <1>1, <1>3
  <2> HIDE DEF f, a, n
  <2> QED
    BY <2>1, ReadAtFacts
<1>7. There <=> a \div L \in written
  BY DEF There
<1> HIDE DEF f, a, n, r, L, G
<1>8. Len(r) \in Nat /\ Len(r) <= n /\ Len(f) \in Nat
  <2>1. Len(r) \in Nat /\ Len(f) \in Nat /\ a \in Nat /\ n \in Nat
    BY <1>1, <1>3, <1>6
  <2> QED
    BY <1>6, <2>1
<1>9. ASSUME NEW k \in 1 .. Len(r)
      PROVE  /\ r[k] = (IF a \div L \in written THEN Sought[k] ELSE Hole)
             /\ r[k] \in {Sought[k], Hole}
  <2>1. a + k \in 1 .. Len(f) /\ r[k] = f[a + k]
    BY <1>6
  <2>2. f[a + k] = (IF ((a + k) - 1) \div L \in written THEN (a + k) - 1 ELSE Hole)
    BY <1>3, <2>1
  <2>3. k \in 1 .. n /\ Sought[k] = (a + k) - 1
    BY <1>1, <1>8
  <2>4. a \div L = i /\ ((a + k) - 1) \div L = i
    <3>1. (a + k) - 1 \in Nat /\ i * L <= (a + k) - 1 /\ (a + k) - 1 < i * L + L /\ a < i * L + L
      BY <1>1, <1>4, <1>5, <1>8
    <3> QED
      BY <1>1, <1>4, <1>5, <3>1, PieceOf
  <2> QED
    BY <2>1, <2>2, <2>3, <2>4
<1>10. ASSUME There
       PROVE  r = Sought
  <2>1. a \div L = i
    <3>1. a < i * L + L
      BY <1>1, <1>4, <1>5
    <3> QED
      BY <1>1, <1>4, <1>5, <3>1, PieceOf
  <2>2. i \in written /\ i * L + G(i) <= Len(f)
    BY <1>3, <1>7, <1>10, <2>1
  <2>3. Len(r) = n
    BY <1>1, <1>4, <1>5, <1>6, <1>8, <2>2
  <2>4. \A k \in 1 .. Len(r) : r[k] = Sought[k]
    BY <1>7, <1>9, <1>10
  <2> QED
    BY <1>1, <1>6, <2>3, <2>4, SeqEqual
<1> QED
  BY <1>6, <1>8, <1>9, <1>10 DEF f, a, n, r

\* Both ways of reading a torrent of one file.
LEMMA ReadOneFileStep ==
    ASSUME IInv, ReadOneFile
    PROVE  IInv'
<1> DEFINE data == ReadAt(disk[1], read.start, read.want)
           padded == Padded(data, read.want)
           filled == read.by \in {"download.ReadPiece", "upload.ReadPiece"}
<1>1. read.pc = "loop" /\ OneFile /\ UNCHANGED <<torrent, disk, written>>
  BY DEF ReadOneFile
<1>2. IF disk[1] = Missing THEN Fail
      ELSE IF filled THEN Finish(padded) ELSE IF Len(data) = read.want THEN Finish(data) ELSE Fail
  BY DEF ReadOneFile
<1>3. /\ read.want \in Nat \ {0} /\ Sought \in Seq(Int) /\ Len(Sought) = read.want
      /\ DOMAIN Sought = 1 .. read.want
  BY <1>1, BeforePass
<1>4. CASE disk[1] = Missing
  <2>1. ~There
    <3> SUFFICES ASSUME There
                 PROVE  FALSE
      OBVIOUS
    <3>1. written # {}
      BY <1>1 DEF There
    <3>2. disk[1] \in Seq(Int)
      BY <1>1, <3>1 DEF IInv, Placed
    <3> QED
      BY <1>4, <3>2, MissingAssumption DEF MissingAssumption
  <2> QED
    BY <1>1, <1>2, <1>4, <2>1, FailStep
<1>5. CASE disk[1] # Missing
  <2>1. /\ data \in Seq(Int) /\ Len(data) <= read.want
        /\ \A k \in 1 .. Len(data) : data[k] \in {Sought[k], Hole}
        /\ There => data = Sought
    BY <1>1, <1>5, ReadFromOneFile
  <2> HIDE DEF data
  <2>2. CASE filled
    <3>1. /\ padded \in Seq(Int) /\ Len(padded) = read.want /\ DOMAIN padded = 1 .. read.want
          /\ \A k \in 1 .. Len(data) : padded[k] = data[k]
          /\ \A k \in 1 .. read.want : k > Len(data) => padded[k] = Hole
          /\ Len(data) = read.want => padded = data
      BY <1>3, <2>1, PaddedFacts
    <3> HIDE DEF padded
    <3>2. ASSUME NEW k \in 1 .. read.want
          PROVE  padded[k] \in {Sought[k], Hole}
      <4>1. Len(data) \in Nat
        BY <2>1
      <4>2. CASE k > Len(data)
        BY <3>1, <4>2
      <4>3. CASE ~(k > Len(data))
        <5>1. k \in 1 .. Len(data)
          BY <4>1, <4>3
        <5> QED
          BY <2>1, <3>1, <5>1
      <4> QED
        BY <4>2, <4>3
    <3>3. There => padded = Sought
      BY <1>3, <2>1, <3>1
    <3>4. Answers("ok", padded)
      BY <1>1, <3>1, <3>2, <3>3 DEF Answers
    <3> QED
      BY <1>1, <1>2, <1>5, <2>2, <3>1, <3>4, FinishStep
  <2>3. CASE ~filled /\ Len(data) = read.want
    <3>1. DOMAIN data = 1 .. Len(data)
      BY <2>1
    <3>2. Answers("ok", data)
      BY <1>1, <2>1, <2>3, <3>1 DEF Answers
    <3> QED
      BY <1>1, <1>2, <1>5, <2>1, <2>3, <3>2, FinishStep
  <2>4. CASE ~filled /\ Len(data) # read.want
    <3>1. ~There
      BY <1>3, <2>1, <2>4
    <3> QED
      BY <1>1, <1>2, <1>5, <2>4, <3>1, FailStep
  <2> QED
    BY <2>2, <2>3, <2>4
<1> QED
  BY <1>4, <1>5
--------------------------------------------------------------------------------
(* The other actions.                                                         *)

\* A read that is refused, or that begins within a piece.
LEMMA StartStep ==
    ASSUME IInv, UNCHANGED <<torrent, disk, written>>,
           NEW by \in Readers, NEW start \in Nat, NEW want \in Nat,
           \/ Refuse
           \/ StartRead(by, start, want) /\ want > 0 /\ Within(start, want)
    PROVE  IInv'
<1>1. torrent \in Torrents /\ LayoutTypeOK
  BY DEF IInv, LayoutTypeOK
<1>2. "nobody" \notin Readers
  BY DEF Readers
<1>3. <<>> \in Seq(Int) /\ Len(<<>>) = 0
  OBVIOUS
<1>4. CASE Refuse
  <2>1. read' = [by |-> "nobody", pc |-> "error", start |-> 0, want |-> 0,
                 file |-> 1, current |-> 0, got |-> <<>>]
    BY <1>4 DEF Refuse, NoRead
  <2>2. LayoutTypeOK' /\ (OneFile => Placed)' /\ AsFound'
    BY <1>3, <2>1, TheRestStays DEF IInv
  <2>3. Asked' /\ AtFile' /\ ReadsAreRight'
    BY <2>1 DEF Asked, AtFile, ReadsAreRight
  <2> QED
    BY <2>2, <2>3 DEF IInv
<1>5. CASE StartRead(by, start, want) /\ want > 0 /\ Within(start, want)
  <2>1. read' = [by |-> by, pc |-> "loop", start |-> start, want |-> want,
                 file |-> 1, current |-> 0, got |-> <<>>]
    BY <1>5 DEF StartRead, NoRead
  <2>2. LayoutTypeOK' /\ (OneFile => Placed)' /\ AsFound'
    BY <1>3, <2>1, TheRestStays DEF IInv
  <2>3. Asked'
    BY <1>2, <1>5, <2>1 DEF Asked, Within, Piece, CountPieces, pieceLength, GetPieceLength
  <2>4. Begin(1) = 0
    <3>1. Declared \in Seq(Nat)
      BY <1>1, TorrentsAssumption DEF TorrentsAssumption, Declared, OneFile
    <3> QED
      BY <3>1, BeginsRecursion DEF Begin
  <2>5. Begin(1)' = 0 /\ torrent' = torrent /\ Len(torrent.files) \in Nat
    BY <1>1, <2>4, TorrentsAssumption DEF TorrentsAssumption, Begin, Declared, OneFile
  <2>6. HaveRead' = 0
    BY <1>3, <2>1 DEF HaveRead
  <2>7. <<>> = Bytes(start, 0)
    BY NoBytes
  <2>8. AtFile'
    BY <1>3, <2>1, <2>5, <2>6, <2>7 DEF AtFile, From
  <2>9. ReadsAreRight'
    BY <2>1 DEF ReadsAreRight
  <2> QED
    BY <2>2, <2>3, <2>8, <2>9 DEF IInv
<1> QED
  BY <1>4, <1>5

\* A piece that is asked for lies within itself.
LEMMA ReadPieceStep ==
    ASSUME IInv, NEW by \in Readers, NEW i \in 0 .. CountPieces, ReadPiece(by, i)
    PROVE  IInv'
<1>1. torrent \in Torrents
  BY DEF IInv, LayoutTypeOK
<1>2. UNCHANGED <<torrent, disk, written>>
  BY DEF ReadPiece
<1>3. CASE i >= CountPieces
  <2>1. Refuse /\ 0 \in Nat
    BY <1>3 DEF ReadPiece
  <2> QED
    BY <1>2, <2>1, StartStep
<1>4. CASE ~(i >= CountPieces)
  <2>1. StartRead(by, i * pieceLength, PieceBound(i))
    BY <1>4 DEF ReadPiece
  <2>2. i \in Piece
    BY <1>1, <1>4, PiecesFollow DEF Piece
  <2>3. /\ i * pieceLength \in Nat /\ PieceBound(i) = GetPieceLength(i)
        /\ GetPieceLength(i) \in Nat /\ GetPieceLength(i) > 0
    BY <1>1, <2>2, PiecesFollow DEF PieceBound, GetPieceLength
  <2>4. Within(i * pieceLength, PieceBound(i))
    BY <2>2, <2>3 DEF Within
  <2> QED
    BY <1>2, <2>1, <2>3, <2>4, StartStep
<1> QED
  BY <1>3, <1>4

\* A block that is accepted lies within its piece.
LEMMA GetBlockStep ==
    ASSUME IInv, NEW by \in Readers, NEW i \in 0 .. CountPieces,
           NEW offset \in Offsets, NEW length \in Lengths, GetBlock(by, i, offset, length)
    PROVE  IInv'
<1>1. torrent \in Torrents
  BY DEF IInv, LayoutTypeOK
<1>2. UNCHANGED <<torrent, disk, written>>
  BY DEF GetBlock
<1>3. offset \in Nat /\ length \in Nat /\ length > 0
  <2>1. BlockSize \in Nat
    BY BlockSizeAssumption DEF BlockSizeAssumption
  <2>2. \A j \in 1 .. pieceLength \div BlockSize : j * BlockSize \in Nat
    BY <2>1, Multiples
  <2> QED
    BY <2>1, <2>2 DEF Offsets, Lengths
<1>4. CASE i >= CountPieces \/ offset + length > PieceBound(i)
  <2>1. Refuse /\ 0 \in Nat
    BY <1>4 DEF GetBlock
  <2> QED
    BY <1>2, <2>1, StartStep
<1>5. CASE ~(i >= CountPieces \/ offset + length > PieceBound(i))
  <2>1. StartRead(by, i * pieceLength + offset, length)
    BY <1>5 DEF GetBlock
  <2>2. i \in Piece
    BY <1>1, <1>5, PiecesFollow DEF Piece
  <2>3. /\ i * pieceLength \in Nat /\ PieceBound(i) = GetPieceLength(i)
        /\ GetPieceLength(i) \in Nat
    BY <1>1, <2>2, PiecesFollow DEF PieceBound, GetPieceLength
  <2>4. offset + length <= GetPieceLength(i)
    BY <1>3, <1>5, <2>3
  <2>5. /\ i * pieceLength <= i * pieceLength + offset
        /\ (i * pieceLength + offset) + length <= i * pieceLength + GetPieceLength(i)
        /\ i * pieceLength + offset \in Nat
    BY <1>3, <2>3, <2>4
  <2>6. Within(i * pieceLength + offset, length)
    BY <2>2, <2>5 DEF Within
  <2> QED
    BY <1>2, <1>3, <2>1, <2>5, <2>6, StartStep
<1> QED
  BY <1>4, <1>5

\* A write disturbs nothing but the file, and no read is under way.
LEMMA WritePieceStep ==
    ASSUME IInv, NEW i \in Piece, WritePieceToDisk(i)
    PROVE  IInv'
<1>1. /\ OneFile /\ torrent' = torrent /\ written' = written \cup {i} /\ read' = NoRead
      /\ disk' = [disk EXCEPT ![1] = disk'[1]]
  <2>1. 1 \in DOMAIN disk
    BY DEF IInv, LayoutTypeOK, Declared, WritePieceToDisk
  <2> QED
    BY <2>1 DEF WritePieceToDisk
<1>2. /\ torrent \in Torrents /\ written \subseteq Piece /\ Placed
      /\ disk \in [{1} -> Seq(Int) \cup {Missing}]
  <2>1. DOMAIN Declared = {1}
    BY <1>1 DEF Declared
  <2> QED
    BY <1>1, <2>1 DEF IInv, LayoutTypeOK
<1>3. disk'[1] \in Seq(Int) /\ Placed'
  BY <1>1, <1>2, WritePlaces
<1>4. read' = [by |-> "nobody", pc |-> "idle", start |-> 0, want |-> 0,
               file |-> 1, current |-> 0, got |-> <<>>]
  BY <1>1 DEF NoRead
<1>5. OneFile' /\ Piece' = Piece /\ (DOMAIN Declared)' = {1}
  BY <1>1 DEF OneFile, Piece, CountPieces, pieceLength, Declared
<1>6. disk' \in [{1} -> Seq(Int) \cup {Missing}]
  BY <1>1, <1>2, <1>3
<1>7. LayoutTypeOK'
  <2>1. read' \in [by : Readers \cup {"nobody"}, pc : {"idle", "loop", "ok", "error"},
                   start : Nat, want : Nat, file : Nat \ {0}, current : Nat, got : Seq(Int)]
    BY <1>4
  <2>2. torrent' \in Torrents /\ written' \subseteq Piece'
    BY <1>1, <1>2, <1>5
  <2> QED
    BY <1>5, <1>6, <2>1, <2>2 DEF LayoutTypeOK
<1>8. AsFound'
  BY <1>5 DEF AsFound
<1>9. Asked' /\ AtFile' /\ ReadsAreRight'
  BY <1>4 DEF Asked, AtFile, ReadsAreRight
<1> QED
  BY <1>3, <1>7, <1>8, <1>9 DEF IInv

\* Before anything is written or read.
LEMMA IInvInit == Init => IInv
<1> SUFFICES ASSUME Init
             PROVE  IInv
  OBVIOUS
<1>1. torrent \in Torrents /\ written = {}
  BY DEF Init
<1>2. read = [by |-> "nobody", pc |-> "idle", start |-> 0, want |-> 0,
              file |-> 1, current |-> 0, got |-> <<>>]
  BY DEF Init, NoRead
<1>3. read \in [by : Readers \cup {"nobody"}, pc : {"idle", "loop", "ok", "error"},
                start : Nat, want : Nat, file : Nat \ {0}, current : Nat, got : Seq(Int)]
  BY <1>2
<1>4. /\ disk \in [DOMAIN Declared -> Seq(Int) \cup {Missing}]
      /\ OneFile => Placed
      /\ AsFound
  <2>1. CASE OneFile
    <3>1. disk = <<Missing>> /\ DOMAIN Declared = {1}
      BY <2>1 DEF Init, Declared
    <3> QED
      BY <1>1, <2>1, <3>1 DEF Placed, AsFound
  <2>2. CASE ~OneFile
    <3> DEFINE files == torrent.files
               size(k) == files[k]
    <3>1. /\ Declared = files /\ DOMAIN Declared = 1 .. Len(files) /\ Len(files) \in Nat
          /\ \A k \in 1 .. Len(files) : size(k) \in Nat
          /\ \A k \in 1 .. Len(files) + 1 : Begin(k) \in Nat
      BY <1>1, <2>2, FilesFollow
    <3>2. DOMAIN disk = DOMAIN files /\ \A k \in DOMAIN disk : disk[k] \in FilesFound[k]
      BY <2>2 DEF Init
    <3>3. ASSUME NEW k \in DOMAIN Declared
          PROVE  \/ disk[k] = Missing
                 \/ /\ disk[k] \in Seq(Int)
                    /\ \A p \in 1 .. Len(disk[k]) : p <= Declared[k] => disk[k][p] = Begin(k) + p - 1
      <4>1. k \in 1 .. Len(files) /\ size(k) \in Nat /\ Begin(k) \in Nat /\ Declared[k] = size(k)
        <5>1. k \in 1 .. Len(files) /\ k \in 1 .. Len(files) + 1
          BY <3>1
        <5> QED
          BY <3>1, <5>1
      <4>2. disk[k] \in {Missing} \cup
                {[p \in 1 .. n |-> IF p <= files[k] THEN Begin(k) + p - 1 ELSE Junk] :
                    n \in {files[k] - 1, files[k], files[k] + 1} \cap Nat}
        BY <3>1, <3>2 DEF FilesFound
      <4>3. CASE disk[k] # Missing
        <5>1. PICK n \in Nat :
                  disk[k] = [p \in 1 .. n |-> IF p <= files[k] THEN Begin(k) + p - 1 ELSE Junk]
          BY <4>2, <4>3
        <5>2. Junk \in Int
          BY DEF Junk
        <5>3. disk[k] \in [1 .. n -> Int]
          BY <4>1, <5>1, <5>2
        <5>4. disk[k] \in Seq(Int) /\ Len(disk[k]) = n
          BY <5>3
        <5> QED
          BY <4>1, <5>1, <5>4
      <4> QED
        BY <4>3
    <3>4. disk = [k \in DOMAIN Declared |-> disk[k]]
      BY <2>2, <3>1, <3>2 DEF Init
    <3>5. disk \in [DOMAIN Declared -> Seq(Int) \cup {Missing}]
      BY <3>3, <3>4
    <3>6. AsFound
      BY <3>3 DEF AsFound
    <3> QED
      BY <2>2, <3>5, <3>6
  <2> QED
    BY <2>1, <2>2
<1>5. LayoutTypeOK
  BY <1>1, <1>3, <1>4 DEF LayoutTypeOK
<1>6. Asked /\ AtFile /\ ReadsAreRight
  BY <1>2 DEF Asked, AtFile, ReadsAreRight
<1> QED
  BY <1>4, <1>5, <1>6 DEF IInv

\* Nothing changes.
LEMMA StutterStep ==
    ASSUME IInv, UNCHANGED vars
    PROVE  IInv'
<1>1. UNCHANGED <<torrent, disk, written, read>>
  BY DEF vars
<1>2. LayoutTypeOK' /\ (OneFile => Placed)' /\ AsFound'
  BY <1>1, TheRestStays DEF IInv, LayoutTypeOK
<1>3. Asked'
  BY <1>1 DEF IInv, Asked, Within, Piece, CountPieces, pieceLength, GetPieceLength
<1>4. /\ OneFile' = OneFile /\ There' = There /\ AcrossFiles' = AcrossFiles /\ Sought' = Sought
      /\ NoFile(Odd)' = NoFile(Odd) /\ NoFile(Longer)' = NoFile(Longer) /\ read' = read
      /\ \A k : Begin(k)' = Begin(k)
  BY <1>1 DEF OneFile, There, AcrossFiles, Sought, NoFile, Odd, Longer, Declared, Begin, pieceLength
<1>5. AtFile'
  BY <1>1, <1>4 DEF IInv, AtFile, HaveRead, From
<1>6. ReadsAreRight'
  BY <1>1, <1>4 DEF IInv, ReadsAreRight
<1> QED
  BY <1>2, <1>3, <1>5, <1>6 DEF IInv

\* Every action keeps the invariant.
LEMMA IInvStep ==
    ASSUME IInv, [Next]_vars
    PROVE  IInv'
BY WritePieceStep, ReadPieceStep, GetBlockStep, ReadOneFileStep, EndReadPieceStep,
   DownloadReadsFileStep, UploadReadsFileStep, DownloadFindsFileStep, UploadReturnsZerosStep,
   StutterStep DEF Next
--------------------------------------------------------------------------------
(* What follows.                                                              *)

\* IInv holds in every reachable state.
THEOREM Invariance == Spec => []IInv
<1>1. Init => IInv
  BY IInvInit
<1>2. IInv /\ [Next]_vars => IInv'
  BY IInvStep
<1> QED
  BY <1>1, <1>2, PTL DEF Spec

\* The requests of requestNextBlock cover the pieces of every torrent exactly,
\* for every block size, as GetBlock and CalculateNumberOfBlocks count them.
THEOREM RequestsCoverPieces == Spec => []BlocksTile
<1>1. IInv => BlocksTile
  BY RequestsTile DEF IInv, LayoutTypeOK
<1> QED
  BY <1>1, Invariance, PTL

\* WritePieceToDisk, in whatever order the pieces come, leaves every byte where
\* it belongs and holes elsewhere.
THEOREM PiecesInPlace == Spec => []DiskRight
<1>1. IInv => DiskRight
  BY PlacedIsRight DEF IInv, LayoutTypeOK
<1> QED
  BY <1>1, Invariance, PTL

\* The four readers return what was asked for as far as ReadsAreRight says, for
\* any number of files of any sizes.
THEOREM ReadersAreRight == Spec => []ReadsAreRight
<1>1. IInv => ReadsAreRight
  BY DEF IInv
<1> QED
  BY <1>1, Invariance, PTL
================================================================================
