------------------------- MODULE BitmapStringProofs -------------------------
(***************************************************************************)
(* What is printed of a bitmap is read back, for every bitmap, every width *)
(* of words, groups and digits, and whatever the bitmap that is read into. *)
(***************************************************************************)
EXTENDS BitmapStrings, BitmapQueryProofs

-----------------------------------------------------------------------------
(* Pieces of words.                                                        *)

(* Quotient and remainder, and that there are no others.                   *)
LEMMA Split ==
    ASSUME NEW w \in Nat \ {0}, NEW c \in Nat
    PROVE  /\ c \div w \in Nat /\ c % w \in 0..(w - 1)
           /\ c = w * (c \div w) + (c % w)
<1>1. w \in Int /\ w > 0 /\ c \in Int
    OBVIOUS
<1>2. c \div w \in Int /\ c % w \in 0..(w - 1)
    BY <1>1
<1>3. c = w * (c \div w) + (c % w)
    BY <1>1
<1>4. c \div w \in Nat
    BY <1>1
<1> QED BY <1>2, <1>3, <1>4

LEMMA SplitUnique ==
    ASSUME NEW w \in Nat \ {0}, NEW q \in Nat, NEW r \in 0..(w - 1),
           NEW p \in Nat, NEW t \in 0..(w - 1), w * q + r = w * p + t
    PROVE  q = p /\ r = t
<1>1. ASSUME NEW x \in Nat, NEW y \in Nat, NEW u \in 0..(w - 1), NEW v \in 0..(w - 1),
             x < y
      PROVE  w * x + u # w * y + v
    <2>1. PICK e \in Nat : y = x + 1 + e
        <3>1. y - x - 1 \in Nat /\ y = x + 1 + (y - x - 1)
            BY <1>1
        <3> QED BY <3>1
    <2>2. w * y = w * x + w + w * e /\ w * e \in Nat /\ w * x \in Nat
        BY <2>1, SMTT(30)
    <2> QED BY <2>2
<1>2. q = p
    BY <1>1
<1> QED BY <1>2

LEMMA SplitIs ==
    ASSUME NEW w \in Nat \ {0}, NEW q \in Nat, NEW r \in 0..(w - 1)
    PROVE  LET c == w * q + r IN c \in Nat /\ c \div w = q /\ c % w = r
<1> DEFINE c == w * q + r
<1>1. c \in Nat
    OBVIOUS
<1>2. c \div w \in Nat /\ c % w \in 0..(w - 1) /\ c = w * (c \div w) + (c % w)
    BY <1>1, Split
<1> HIDE DEF c
<1>3. w * q + r = w * (c \div w) + (c % w)
    BY <1>2 DEF c
<1>4. q = c \div w /\ r = c % w
    BY <1>2, <1>3, SplitUnique
<1> QED BY <1>1, <1>4 DEF c

(* Quotients order like numbers.                                           *)
LEMMA QuotientBelow ==
    ASSUME NEW w \in Nat \ {0}, NEW c \in Nat, NEW n \in Nat
    PROVE  c \div w < n <=> c < w * n
<1> DEFINE q == c \div w
           r == c % w
<1>1. q \in Nat /\ r \in Nat /\ r < w /\ c = w * q + r
    BY Split
<1> HIDE DEF q, r
<1>2. ASSUME q < n PROVE c < w * n
    <2>1. PICK e \in Nat : n = q + 1 + e
        <3>1. n - q - 1 \in Nat /\ n = q + 1 + (n - q - 1)
            BY <1>1, <1>2
        <3> QED BY <3>1
    <2>2. w * n = w * q + w + w * e /\ w * e \in Nat /\ w * q \in Nat
        BY <1>1, <2>1, SMTT(30)
    <2> QED BY <1>1, <2>2
<1>3. ASSUME ~(q < n) PROVE ~(c < w * n)
    <2>1. PICK e \in Nat : q = n + e
        <3>1. q - n \in Nat /\ q = n + (q - n)
            BY <1>1, <1>3
        <3> QED BY <3>1
    <2>2. w * q = w * n + w * e /\ w * e \in Nat /\ w * n \in Nat
        BY <1>1, <2>1, SMTT(30)
    <2> QED BY <1>1, <2>2
<1> QED BY <1>2, <1>3 DEF q

(* Bit b of word i is in piece (W * i + b) \div w, as bit b % w of it.     *)
Divides(w) == w \in Nat \ {0} /\ HWLOC_BITS_PER_LONG % w = 0

LEMMA PieceBit ==
    ASSUME NEW w, Divides(w), NEW s \in Bitmap, NEW i \in Nat, NEW b \in Bit
    PROVE  LET n == (HWLOC_BITS_PER_LONG * i + b) \div w
           IN  /\ n \in Nat
               /\ i < s.count => n < s.count * (HWLOC_BITS_PER_LONG \div w)
               /\ b % w \in Piece(s, w, n) <=> b \in s.ulongs[i]
<1> DEFINE W == HWLOC_BITS_PER_LONG
           K == W \div w
           c == W * i + b
           n == c \div w
<1>1. /\ W \in Nat \ {0} /\ w \in Nat \ {0} /\ b \in Nat /\ b < W /\ s.count \in Nat
    BY SizeAssumption, BitmapFields DEF Divides, Bit
<1>2. K \in Nat /\ W = w * K
    <2>1. K \in Nat /\ W = w * K + (W % w) /\ W % w = 0
        BY <1>1, Split DEF Divides
    <2>2. w * K \in Nat
        BY <1>1, <2>1
    <2> QED BY <2>1, <2>2
<1>3. c \in Nat /\ INDEX(c) = i /\ CPU_ULBIT(c) = b
    BY IndexOf
<1>4. n \in Nat /\ c % w \in 0..(w - 1) /\ c = w * n + (c % w)
    BY <1>1, <1>3, Split
<1>5. b \div w \in Nat /\ b % w \in 0..(w - 1) /\ b = w * (b \div w) + (b % w)
    BY <1>1, Split
<1> HIDE DEF K, n
<1>6. c = w * (K * i + b \div w) + (b % w) /\ K * i + b \div w \in Nat
    <2> DEFINE q == b \div w
               r == b % w
    <2>1. q \in Nat /\ r \in Nat /\ b = w * q + r
        BY <1>5
    <2> HIDE DEF q, r
    <2>2. W * i = w * (K * i)
        BY <1>1, <1>2, SMTT(30)
    <2>3. w * (K * i + q) = w * (K * i) + w * q /\ K * i \in Nat
        BY <1>1, <1>2, <2>1, SMTT(30)
    <2>4. w * (K * i + q) + r = W * i + b /\ K * i + q \in Nat
        BY <1>1, <1>2, <2>1, <2>2, <2>3
    <2> QED BY <2>4 DEF q, r
<1> HIDE DEF c
<1>7. c % w = b % w
    <2> DEFINE p == K * i + b \div w
               r == c % w
               t == b % w
    <2>1. p \in Nat /\ r \in 0..(w - 1) /\ t \in 0..(w - 1) /\ w * n + r = w * p + t
        BY <1>4, <1>5, <1>6
    <2> HIDE DEF p, r, t
    <2>2. r = t
        BY <1>1, <1>4, <2>1, SplitUnique
    <2> QED BY <2>2 DEF r, t
<1>8. ASSUME i < s.count PROVE n < s.count * K
    <2>1. c < s.count * W
        BY <1>1, <1>3, <1>8, IndexBelow
    <2>2. s.count * W = w * (s.count * K) /\ s.count * K \in Nat
        BY <1>1, <1>2, SMTT(30)
    <2> QED BY <1>1, <1>3, <2>1, <2>2, QuotientBelow DEF n
<1>9. b % w \in Piece(s, w, n) <=> b \in s.ulongs[i]
    <2>1. w * n + (b % w) = c
        BY <1>4, <1>7
    <2> QED BY <1>3, <1>5, <2>1 DEF Piece
<1> QED BY <1>4, <1>8, <1>9 DEF K, n, c

(* The number of words that n pieces fill.                                 *)
WordsFor(w, n) == (n * w + HWLOC_BITS_PER_LONG - 1) \div HWLOC_BITS_PER_LONG

LEMMA WordsForIs ==
    ASSUME NEW w, Divides(w), NEW count \in Nat,
           NEW n \in 1..(count * (HWLOC_BITS_PER_LONG \div w))
    PROVE  /\ WordsFor(w, n) \in 1..count
           /\ n = count * (HWLOC_BITS_PER_LONG \div w) => WordsFor(w, n) = count
           /\ n * w <= HWLOC_BITS_PER_LONG * WordsFor(w, n)
<1> DEFINE W == HWLOC_BITS_PER_LONG
           K == W \div w
           x == n * w
           y == x + W - 1
           M == WordsFor(w, n)
<1>1. W \in Nat \ {0} /\ w \in Nat \ {0}
    BY SizeAssumption DEF Divides
<1>2. K \in Nat /\ W = w * K
    <2>1. K \in Nat /\ W = w * K + (W % w) /\ W % w = 0
        BY <1>1, Split DEF Divides
    <2>2. w * K \in Nat
        BY <1>1, <2>1
    <2> QED BY <2>1, <2>2
<1> HIDE DEF K
<1>3. n \in Nat /\ 1 <= n /\ n <= count * K /\ count * K \in Nat
    BY <1>1, <1>2 DEF K
<1>4. PICK e \in Nat : count * K = n + e
    <2>1. count * K - n \in Nat /\ count * K = n + (count * K - n)
        BY <1>3
    <2> QED BY <2>1
<1>5. x \in Nat /\ w <= x /\ count * W = x + e * w /\ e * w \in Nat
    <2>1. count * W = (count * K) * w
        BY <1>1, <1>2, SMTT(30)
    <2>2. (n + e) * w = n * w + e * w
        BY <1>1, <1>3, SMTT(30)
    <2>3. PICK d \in Nat : n = 1 + d
        <3>1. n - 1 \in Nat /\ n = 1 + (n - 1)
            BY <1>3
        <3> QED BY <3>1
    <2>4. n * w = w + d * w /\ d * w \in Nat
        BY <1>1, <2>3, SMTT(30)
    <2> QED BY <1>1, <1>3, <1>4, <2>1, <2>2, <2>4, SMTT(30)
<1>6. W * 1 = W /\ W * count = count * W /\ W * (count + 1) = count * W + W
    BY <1>1, SMTT(30)
<1> HIDE DEF x
<1>7. y \in Nat /\ W <= y /\ y < count * W + W
    BY <1>1, <1>5
<1>8. M \in Nat /\ y % W \in 0..(W - 1) /\ y = W * M + (y % W)
    BY <1>1, <1>7, Split DEF WordsFor, x
<1>9. M = y \div W
    BY DEF WordsFor, x
<1> HIDE DEF y, M
<1>10. ~(M < 1) /\ M < count + 1
    BY <1>1, <1>6, <1>7, <1>9, QuotientBelow
<1>11. n = count * K => ~(M < count)
    <2> SUFFICES ASSUME n = count * K PROVE ~(M < count)
        OBVIOUS
    <2>1. x = count * W
        BY <1>1, <1>2, SMTT(30) DEF x
    <2>2. ~(y < W * count)
        BY <1>1, <1>5, <1>6, <2>1 DEF y
    <2> QED BY <1>1, <1>7, <1>9, <2>2, QuotientBelow
<1>12. x <= W * M
    <2>1. W * M \in Nat
        BY <1>1, <1>8
    <2> QED BY <1>1, <1>5, <1>8, <2>1 DEF y
<1> QED BY <1>8, <1>10, <1>11, <1>12 DEF x, M, K

(* The pieces up to top, read as words, are the words of the bitmap, when  *)
(* there is nothing above.                                                 *)
LEMMA AssembleIs ==
    ASSUME NEW w, Divides(w), NEW s \in Bitmap, NEW t \in Bitmap,
           NEW top \in 0..(s.count * (HWLOC_BITS_PER_LONG \div w) - 1),
           \A j \in 0..(s.count * (HWLOC_BITS_PER_LONG \div w) - 1) :
               top < j => Piece(s, w, j) = {},
           s.infinite => top = s.count * (HWLOC_BITS_PER_LONG \div w) - 1,
           NEW p, Len(p) = top + 1, \A k \in 1..(top + 1) : p[k] = Piece(s, w, top + 1 - k)
    PROVE  LET u == Assemble(w, p)
               r == reset_by_ulongs(t, Cardinality(DOMAIN u), u, s.infinite)
           IN  r \in Bitmap /\ Bits(r) = Bits(s)
<1> DEFINE W == HWLOC_BITS_PER_LONG
           K == W \div w
           u == Assemble(w, p)
           M == WordsFor(w, top + 1)
           r == reset_by_ulongs(t, M, u, s.infinite)
           N(i, b) == (W * i + b) \div w
<1>1. W \in Nat \ {0} /\ w \in Nat \ {0} /\ K \in Nat
    BY SizeAssumption, Split DEF Divides
<1>2. /\ s.count \in Nat /\ s.count <= MaxUlongs /\ MaxUlongs \in Nat
      /\ s.infinite \in BOOLEAN
      /\ \A i \in 0..(s.count - 1) : s.ulongs[i] \in SUBSET Bit
    BY Reads, BitmapFields, SizeAssumption
<1>3. s.count * K \in Nat /\ top \in Nat /\ top + 1 \in 1..(s.count * K)
    BY <1>1, <1>2
<1>4. /\ M \in 1..s.count
      /\ s.infinite => M = s.count
      /\ (top + 1) * w <= W * M
    BY <1>2, <1>3, WordsForIs
<1>5. /\ u = [i \in 0..(M - 1) |-> u[i]] /\ DOMAIN u = 0..(M - 1)
      /\ \A i \in 0..(M - 1) :
            u[i] = {b \in Bit : N(i, b) < Len(p) /\ b % w \in p[Len(p) - N(i, b)]}
    <2>1. u = [i \in 0..(WordsFor(w, Len(p)) - 1) |->
                  {b \in Bit : N(i, b) < Len(p) /\ b % w \in p[Len(p) - N(i, b)]}]
        BY Zenon DEF Assemble, WordsFor
    <2>2. WordsFor(w, Len(p)) = M
        OBVIOUS
    <2> HIDE DEF u, N, M
    <2> QED BY <2>1, <2>2
<1>6. \A i \in Nat, b \in Bit :
          /\ N(i, b) \in Nat
          /\ i < s.count => N(i, b) < s.count * K
          /\ b % w \in Piece(s, w, N(i, b)) <=> b \in s.ulongs[i]
    BY PieceBit
<1> HIDE DEF M, N, K
<1>7. ASSUME NEW i \in 0..(s.count - 1), NEW b \in Bit, b \in s.ulongs[i]
      PROVE  N(i, b) < top + 1
    <2>1. N(i, b) \in Nat /\ N(i, b) < s.count * K /\ Piece(s, w, N(i, b)) # {}
        <3>1. i \in Nat /\ i < s.count
            BY <1>2
        <3>2. /\ N(i, b) \in Nat /\ N(i, b) < s.count * K
              /\ b % w \in Piece(s, w, N(i, b))
            BY <1>6, <1>7, <3>1
        <3> QED BY <3>2
    <2>2. N(i, b) \in 0..(s.count * K - 1)
        BY <1>3, <2>1
    <2>3. ~(top < N(i, b))
        BY <2>1, <2>2 DEF K
    <2> QED BY <1>3, <2>1, <2>3
<1>8. \A i \in 0..(M - 1) : u[i] = s.ulongs[i]
    <2> SUFFICES ASSUME NEW i \in 0..(M - 1) PROVE u[i] = s.ulongs[i]
        OBVIOUS
    <2>1. i \in Nat /\ i \in 0..(s.count - 1)
        BY <1>2, <1>4
    <2>2. s.ulongs[i] \in SUBSET Bit
        BY <1>2, <2>1
    <2>3. ASSUME NEW b \in Bit
          PROVE  (N(i, b) < top + 1 /\ b % w \in p[top + 1 - N(i, b)]) <=> b \in s.ulongs[i]
        <3>1. N(i, b) \in Nat /\ (b % w \in Piece(s, w, N(i, b)) <=> b \in s.ulongs[i])
            BY <1>6, <2>1
        <3>2. ASSUME N(i, b) < top + 1
              PROVE  p[top + 1 - N(i, b)] = Piece(s, w, N(i, b))
            <4>1. /\ top + 1 - N(i, b) \in 1..(top + 1)
                  /\ top + 1 - (top + 1 - N(i, b)) = N(i, b)
                <5>1. N(i, b) \in Nat
                    BY <3>1
                <5> QED BY <1>3, <3>2, <5>1
            <4>2. p[top + 1 - N(i, b)] = Piece(s, w, top + 1 - (top + 1 - N(i, b)))
                BY <4>1
            <4> QED BY <4>1, <4>2
        <3> QED BY <1>7, <2>1, <3>1, <3>2
    <2>4. u[i] = {b \in Bit : N(i, b) < Len(p) /\ b % w \in p[Len(p) - N(i, b)]}
        BY <1>5
    <2>5. Len(p) = top + 1
        OBVIOUS
    <2> HIDE DEF u
    <2>6. \A b \in Bit : (N(i, b) < Len(p) /\ b % w \in p[Len(p) - N(i, b)])
                             <=> b \in s.ulongs[i]
        <3> SUFFICES ASSUME NEW b \in Bit
                     PROVE  (N(i, b) < Len(p) /\ b % w \in p[Len(p) - N(i, b)])
                               <=> b \in s.ulongs[i]
            OBVIOUS
        <3>1. (N(i, b) < top + 1 /\ b % w \in p[top + 1 - N(i, b)]) <=> b \in s.ulongs[i]
            BY <2>3
        <3>2. N(i, b) \in Nat
            BY <1>6, <2>1
        <3>3. /\ Len(p) - N(i, b) = top + 1 - N(i, b)
              /\ N(i, b) < Len(p) <=> N(i, b) < top + 1
            BY <1>3, <2>5, <3>2
        <3> QED BY <3>1, <3>3, Zenon
    <2> QED BY <2>2, <2>4, <2>6, Zenon
<1>9. \A i \in 0..(s.count - 1) : M <= i => s.ulongs[i] = ZERO
    <2> SUFFICES ASSUME NEW i \in 0..(s.count - 1), M <= i, s.ulongs[i] # ZERO PROVE FALSE
        OBVIOUS
    <2>1. PICK b \in Bit : b \in s.ulongs[i]
        BY <1>2 DEF ZERO
    <2>2. N(i, b) < top + 1
        BY <1>7, <2>1
    <2>3. i \in Nat /\ b \in Nat /\ M \in Nat
        BY <1>2, <1>4 DEF Bit
    <2>4. W * i + b \in Nat /\ W * i + b < w * (top + 1)
        <3>1. W * i + b \in Nat /\ (W * i + b) \div w < top + 1 /\ top + 1 \in Nat
            BY <1>1, <1>3, <2>2, <2>3 DEF N
        <3> QED BY <1>1, <3>1, QuotientBelow
    <2>5. PICK e \in Nat : i = M + e
        <3>1. i - M \in Nat /\ i = M + (i - M)
            BY <2>3
        <3> QED BY <3>1
    <2>6. W * i = W * M + W * e /\ W * e \in Nat /\ W * M \in Nat
        BY <1>1, <2>3, <2>5, SMTT(30)
    <2>7. w * (top + 1) = (top + 1) * w /\ (top + 1) * w \in Nat
        BY <1>1, <1>3, SMTT(30)
    <2> QED BY <1>4, <2>3, <2>4, <2>6, <2>7
<1>10. u \in WordSeq(M) /\ DOMAIN u = 0..(M - 1)
    <2>1. \A i \in 0..(M - 1) : u[i] \in SUBSET Bit
        BY <1>5
    <2>2. DOMAIN u = 0..(M - 1) /\ u = [i \in 0..(M - 1) |-> u[i]]
        BY <1>5
    <2> HIDE DEF u
    <2> QED BY <2>1, <2>2 DEF WordSeq
<1> HIDE DEF u
<1>11. Cardinality(DOMAIN u) = M
    <2>1. M \in Nat /\ 0 \in Int /\ M - 1 \in Int /\ 0 <= M - 1 /\ M - 1 - 0 + 1 = M
        BY <1>2, <1>4
    <2> QED BY <1>10, <2>1, FS_Interval
<1>12. r \in Bitmap
    BY <1>2, <1>4, <1>10, ResetType
<1>13. \A j \in 0..MaxUlongs : READULONG(r, j) = READULONG(s, j)
    <2> SUFFICES ASSUME NEW j \in 0..MaxUlongs PROVE READULONG(r, j) = READULONG(s, j)
        OBVIOUS
    <2>1. READULONG(r, j) = IF j < M THEN u[j] ELSE IF s.infinite THEN FULL ELSE ZERO
        BY ResetReads
    <2>2. READULONG(s, j) = IF j < s.count THEN s.ulongs[j] ELSE IF s.infinite THEN FULL ELSE ZERO
        BY DEF READULONG
    <2> HIDE DEF r
    <2>3. M \in Nat /\ M <= s.count /\ j \in Nat
        BY <1>2, <1>4
    <2>4. CASE j < M
        <3>1. j \in 0..(M - 1) /\ j < s.count
            BY <1>2, <2>3, <2>4
        <3> QED BY <1>8, <2>1, <2>2, <2>4, <3>1
    <2>5. CASE ~(j < M) /\ j < s.count
        <3>1. j \in 0..(s.count - 1) /\ M <= j /\ M # s.count
            BY <1>2, <2>3, <2>5
        <3>2. ~s.infinite /\ s.ulongs[j] = ZERO
            BY <1>4, <1>9, <3>1
        <3> QED BY <2>1, <2>2, <2>5, <3>2
    <2>6. CASE ~(j < M) /\ ~(j < s.count)
        BY <2>1, <2>2, <2>6
    <2> QED BY <2>4, <2>5, <2>6
<1> HIDE DEF r
<1>14. Bits(r) = Bits(s)
    BY <1>12, <1>13, SameWords
<1> QED BY <1>11, <1>12, <1>14 DEF u, r

-----------------------------------------------------------------------------
(* The formats of pieces.                                                  *)

(* The highest piece that is printed.                                      *)
UsedPieces(s, w) ==
    {j \in 0..(s.count * (HWLOC_BITS_PER_LONG \div w) - 1) : s.infinite \/ Piece(s, w, j) # {}}
TopPiece(s, w) == IF UsedPieces(s, w) = {} THEN 0 ELSE MaxOf(UsedPieces(s, w))

LEMMA TopPieceIs ==
    ASSUME NEW w, Divides(w), NEW s \in Bitmap
    PROVE  /\ TopPiece(s, w) \in 0..(s.count * (HWLOC_BITS_PER_LONG \div w) - 1)
           /\ TopPiece(s, w) \in Nat
           /\ \A j \in 0..(s.count * (HWLOC_BITS_PER_LONG \div w) - 1) :
                  TopPiece(s, w) < j => Piece(s, w, j) = {}
           /\ s.infinite => TopPiece(s, w) = s.count * (HWLOC_BITS_PER_LONG \div w) - 1
<1> DEFINE W == HWLOC_BITS_PER_LONG
           K == W \div w
           n == s.count * K
           used == UsedPieces(s, w)
           top == TopPiece(s, w)
<1>1. W \in Nat \ {0} /\ w \in Nat \ {0} /\ s.count \in Nat /\ 1 <= s.count
    BY SizeAssumption, BitmapFields DEF Divides
<1>2. K \in Nat /\ W = w * K + (W % w) /\ W % w = 0
    BY <1>1, Split DEF Divides
<1> HIDE DEF K
<1>3. 1 <= K
    <2>1. w * 0 = 0
        BY <1>1
    <2>2. K # 0
        BY <1>1, <1>2, <2>1
    <2> QED BY <1>2, <2>2
<1>4. n \in Nat /\ 1 <= n
    <2>1. PICK e \in Nat : s.count = 1 + e
        <3>1. s.count - 1 \in Nat /\ s.count = 1 + (s.count - 1)
            BY <1>1
        <3> QED BY <3>1
    <2>2. s.count * K = K + e * K /\ e * K \in Nat
        BY <1>2, <2>1, SMTT(30)
    <2> QED BY <1>2, <1>3, <2>2
<1> HIDE DEF n
<1>5. used = {j \in 0..(n - 1) : s.infinite \/ Piece(s, w, j) # {}}
    BY Zenon DEF UsedPieces, n, K
<1>6. top = IF used = {} THEN 0 ELSE MaxOf(used)
    BY Zenon DEF TopPiece
<1> HIDE DEF used, top
<1>7. used \subseteq Nat /\ \A y \in used : y <= n - 1
    BY <1>4, <1>5
<1>8. top \in 0..(n - 1) /\ \A j \in used : j <= top
    <2>1. CASE used = {}
        BY <1>4, <1>6, <2>1
    <2>2. CASE used # {}
        <3>1. MaxOf(used) \in used /\ \A y \in used : MaxOf(used) >= y
            <4>1. n - 1 \in Nat
                BY <1>4
            <4> QED BY <1>7, <2>2, <4>1, MaxOfNat
        <3>2. top \in used /\ \A y \in used : top >= y
            BY <1>6, <2>2, <3>1
        <3> QED BY <1>5, <1>7, <3>2
    <2> QED BY <2>1, <2>2
<1>9. \A j \in 0..(n - 1) : top < j => Piece(s, w, j) = {}
    BY <1>5, <1>8
<1>10. s.infinite => top = n - 1
    <2> SUFFICES ASSUME s.infinite PROVE top = n - 1
        OBVIOUS
    <2>1. n - 1 \in used
        BY <1>4, <1>5
    <2> QED BY <1>4, <1>8, <2>1
<1> QED BY <1>4, <1>8, <1>9, <1>10 DEF top, n, K

(* 0xf...f is printed of a full bitmap only.                               *)
LEMMA PrintsFullIs ==
    ASSUME NEW s \in Bitmap, PrintsFull(s)
    PROVE  Bits(s) = Universe
<1>1. ASSUME NEW c \in Universe PROVE isset(s, c)
    <2>1. INDEX(c) \in Nat /\ CPU_ULBIT(c) \in Bit
        BY IndexTypes
    <2>2. READULONG(s, INDEX(c)) = FULL
        BY <2>1 DEF READULONG, PrintsFull
    <2> QED BY <2>1, <2>2 DEF isset, FULL
<1> QED BY <1>1 DEF Bits

(* A piece is a set of indexes, not NULL.                                  *)
LEMMA PieceNotNull ==
    ASSUME NEW w, Divides(w), NEW s, NEW j
    PROVE  Piece(s, w, j) # NULL
<1>1. w \in Nat /\ w <= HWLOC_BITS_PER_LONG /\ HWLOC_BITS_PER_LONG \in Nat
    <2>1. w \in Nat \ {0} /\ HWLOC_BITS_PER_LONG \in Nat \ {0}
        BY SizeAssumption DEF Divides
    <2>2. ASSUME w > HWLOC_BITS_PER_LONG PROVE FALSE
        <3>1. HWLOC_BITS_PER_LONG = w * 0 + HWLOC_BITS_PER_LONG
              /\ HWLOC_BITS_PER_LONG \in 0..(w - 1)
            BY <2>1, <2>2
        <3>2. HWLOC_BITS_PER_LONG % w = HWLOC_BITS_PER_LONG
            BY <2>1, <3>1, SplitIs
        <3> QED BY <2>1, <3>2 DEF Divides
    <2> QED BY <2>1, <2>2
<1>2. 0..(w - 1) \subseteq Universe
    <2>1. MaxUlongs \in Nat \ {0}
        BY SizeAssumption
    <2>2. (MaxUlongs + 1) * HWLOC_BITS_PER_LONG
             = MaxUlongs * HWLOC_BITS_PER_LONG + HWLOC_BITS_PER_LONG
          /\ MaxUlongs * HWLOC_BITS_PER_LONG \in Nat
        BY <1>1, <2>1, SMTT(30)
    <2> QED BY <1>1, <2>1, <2>2 DEF Universe
<1>3. Piece(s, w, j) \in SUBSET Universe
    BY <1>2 DEF Piece
<1> QED BY <1>3, NullAssumption

LEMMA WidthsDivide == Divides(HWLOC_BITMAP_SUBSTRING_SIZE) /\ Divides(DigitSize)
BY GroupAssumption DEF Divides

(* The hwloc format: groups left out, groups without digits in between and *)
(* the last group, that has always one.                                    *)
LEMMA HwlocReadsBack ==
    ASSUME NEW s \in Bitmap, NEW t \in Bitmap
    PROVE  LET r == sscanf(t, snprintf(s)) IN r \in Bitmap /\ Bits(r) = Bits(s)
<1> DEFINE w == HWLOC_BITMAP_SUBSTRING_SIZE
           top == TopPiece(s, w)
           str == snprintf(s)
           group(j) == Piece(s, w, j)
           value(g) == IF g = NULL THEN {} ELSE g
           Printed(j) == IF group(j) = {} /\ j # 0 THEN NULL ELSE group(j)
           gs == [k \in 1..(top + 1) |-> Printed(top + 1 - k)]
<1>0. Divides(w)
    BY WidthsDivide
<1>1. /\ str.inf = s.infinite
      /\ str.groups = IF PrintsFull(s) THEN <<>> ELSE gs
    BY Zenon DEF snprintf, TopPiece, UsedPieces, HWLOC_BITMAP_STRING_PER_LONG
<1>2. CASE PrintsFull(s)
    <2>1. sscanf(t, str) = fill(t)
        BY <1>1, <1>2, Zenon DEF sscanf
    <2> QED BY <1>2, <2>1, PrintsFullIs, ZeroFillDenote
<1>3. CASE ~PrintsFull(s)
    <2>0. /\ top \in Nat
          /\ top \in 0..(s.count * (HWLOC_BITS_PER_LONG \div w) - 1)
          /\ \A j \in 0..(s.count * (HWLOC_BITS_PER_LONG \div w) - 1) :
                 top < j => Piece(s, w, j) = {}
          /\ s.infinite => top = s.count * (HWLOC_BITS_PER_LONG \div w) - 1
        BY <1>0, TopPieceIs
    <2> DEFINE p == [k \in DOMAIN str.groups |-> value(str.groups[k])]
               u == Assemble(w, p)
    <2> HIDE DEF top, str
    <2>1. str.groups = gs
        BY <1>1, <1>3
    <2>2. DOMAIN gs = 1..(top + 1) /\ Len(gs) = top + 1 /\ gs # <<>>
        <3>1. DOMAIN gs = 1..(top + 1)
            OBVIOUS
        <3> HIDE DEF gs
        <3> QED BY <2>0, <3>1
    <2>3. \A k \in 1..(top + 1) : value(gs[k]) = group(top + 1 - k)
        <3> SUFFICES ASSUME NEW k \in 1..(top + 1) PROVE value(gs[k]) = group(top + 1 - k)
            OBVIOUS
        <3>1. gs[k] = Printed(top + 1 - k)
            OBVIOUS
        <3>2. group(top + 1 - k) # NULL
            BY <1>0, PieceNotNull
        <3> HIDE DEF gs, group
        <3> QED BY <3>1, <3>2, Zenon
    <2>4. Last(gs) # NULL
        <3>1. top + 1 \in 1..(top + 1) /\ top + 1 - (top + 1) = 0
            BY <2>0
        <3>2. gs[top + 1] = Printed(top + 1 - (top + 1))
            BY <3>1
        <3>3. group(0) # NULL
            BY <1>0, PieceNotNull
        <3> HIDE DEF gs, group
        <3>4. gs[top + 1] = group(0)
            BY <3>1, <3>2
        <3> QED BY <2>2, <3>3, <3>4 DEF Last
    <2> HIDE DEF gs
    <2>5. Len(p) = top + 1 /\ \A k \in 1..(top + 1) : p[k] = Piece(s, w, top + 1 - k)
        <3>1. DOMAIN p = 1..(top + 1)
            BY <2>1, <2>2
        <3>2. \A k \in 1..(top + 1) : p[k] = value(gs[k])
            BY <2>1, <2>2
        <3> HIDE DEF p, value
        <3>3. Len(p) = top + 1
            BY <2>0, <3>1
        <3> QED BY <2>3, <3>2, <3>3
    <2>6. sscanf(t, str) = reset_by_ulongs(t, Cardinality(DOMAIN u), u, s.infinite)
        <3>1. str.groups # <<>> /\ Last(str.groups) # NULL /\ str.inf = s.infinite
            BY <1>1, <2>1, <2>2, <2>4
        <3> QED BY <3>1, Zenon DEF sscanf
    <2> HIDE DEF p
    <2> QED BY <1>0, <2>0, <2>5, <2>6, AssembleIs DEF str
<1> QED BY <1>2, <1>3

(* The taskset format.                                                     *)
LEMMA TasksetReadsBack ==
    ASSUME NEW s \in Bitmap, NEW t \in Bitmap
    PROVE  LET r == taskset_sscanf(t, taskset_snprintf(s)) IN r \in Bitmap /\ Bits(r) = Bits(s)
<1> DEFINE w == DigitSize
           top == TopPiece(s, w)
           str == taskset_snprintf(s)
           ds == [k \in 1..(top + 1) |-> Piece(s, w, top + 1 - k)]
<1>0. Divides(w)
    BY WidthsDivide
<1>1. /\ str.inf = s.infinite
      /\ str.digits = IF PrintsFull(s) THEN <<>> ELSE ds
    BY Zenon DEF taskset_snprintf, TopPiece, UsedPieces, DigitsPerLong
<1>2. CASE PrintsFull(s)
    <2>1. s.infinite
        BY <1>2 DEF PrintsFull
    <2>2. taskset_sscanf(t, str) = fill(t)
        BY <1>1, <1>2, <2>1, Zenon DEF taskset_sscanf
    <2> QED BY <1>2, <2>2, PrintsFullIs, ZeroFillDenote
<1>3. CASE ~PrintsFull(s)
    <2>0. /\ top \in Nat
          /\ top \in 0..(s.count * (HWLOC_BITS_PER_LONG \div w) - 1)
          /\ \A j \in 0..(s.count * (HWLOC_BITS_PER_LONG \div w) - 1) :
                 top < j => Piece(s, w, j) = {}
          /\ s.infinite => top = s.count * (HWLOC_BITS_PER_LONG \div w) - 1
        BY <1>0, TopPieceIs
    <2> DEFINE p == str.digits
               u == Assemble(w, p)
    <2> HIDE DEF top, str
    <2>1. str.digits = ds
        BY <1>1, <1>3
    <2>2. DOMAIN ds = 1..(top + 1) /\ \A k \in 1..(top + 1) : ds[k] = Piece(s, w, top + 1 - k)
        OBVIOUS
    <2> HIDE DEF ds
    <2>3. Len(ds) = top + 1 /\ ds # <<>>
        BY <2>0, <2>2
    <2>4. taskset_sscanf(t, str) = reset_by_ulongs(t, Cardinality(DOMAIN u), u, s.infinite)
        <3>1. str.digits # <<>> /\ str.inf = s.infinite
            BY <1>1, <2>1, <2>3
        <3> QED BY <3>1, Zenon DEF taskset_sscanf
    <2>5. Len(p) = top + 1 /\ \A k \in 1..(top + 1) : p[k] = Piece(s, w, top + 1 - k)
        BY <2>1, <2>2, <2>3
    <2> HIDE DEF p
    <2> QED BY <1>0, <2>0, <2>4, <2>5, AssembleIs DEF str
<1> QED BY <1>2, <1>3

-----------------------------------------------------------------------------
(* The list format.                                                        *)

NoRanges == [ranges |-> <<>>, prev |-> -1, done |-> FALSE]

(* The printing of ranges satisfies its recursive definition,              *)
LEMMA PrintExists ==
    ASSUME NEW s, Limit(s) \in Nat
    PROVE  \E f : /\ list_snprintf(s) = f[Limit(s) + 1].ranges
                  /\ f[0] = NoRanges
                  /\ \A n \in 1..(Limit(s) + 1) : f[n] = print_range(s, not(alloc, s), f[n - 1])
<1> DEFINE F(g, n) == IF n = 0 THEN NoRanges
                      ELSE print_range(s, not(alloc, s), g[n - 1])
           Good(i) == \E g : g = [n \in 0..i |-> F(g, n)]
           Bad == {i \in Nat : ~Good(i)}
           k == MinOf(Bad)
<1>0. (Limit(s) + 1) \in Nat
    OBVIOUS
<1>1. Good((Limit(s) + 1))
    <2>2. SUFFICES ASSUME Bad # {} PROVE FALSE
        BY <1>0
    <2>3. k \in Bad /\ \A i \in Bad : k <= i
        <3> HIDE DEF Good
        <3> QED BY <2>2, MinOfNat
    <2> HIDE DEF k
    <2>4. k \in Nat /\ ~Good(k)
        BY <2>3
    <2>5. CASE k = 0
        <3> DEFINE g == [n \in 0..0 |-> NoRanges]
        <3>1. g = [n \in 0..0 |-> F(g, n)]
            OBVIOUS
        <3> HIDE DEF g, F
        <3> QED BY <2>4, <2>5, <3>1
    <2>6. CASE k # 0
        <3>1. k - 1 \in Nat /\ ~(k <= k - 1)
            BY <2>4, <2>6
        <3>a. Good(k - 1)
            <4> HIDE DEF Good
            <4> QED BY <2>3, <3>1
        <3>2. PICK g : g = [n \in 0..(k - 1) |-> F(g, n)]
            BY <3>a
        <3> DEFINE h == [n \in 0..k |-> IF n = k THEN F(g, k) ELSE g[n]]
        <3>3. \A n \in 0..k : n # 0 => h[n - 1] = g[n - 1]
            BY <2>4
        <3>4. \A n \in 0..k : F(h, n) = F(g, n)
            BY <3>3
        <3>5. \A n \in 0..k : n # k => g[n] = F(g, n)
            <4> HIDE DEF F
            <4> QED BY <2>4, <3>2
        <3> HIDE DEF F
        <3>6. \A n \in 0..k : h[n] = F(h, n)
            BY <3>4, <3>5
        <3>7. h = [n \in 0..k |-> F(h, n)]
            BY <3>6
        <3> HIDE DEF h
        <3> QED BY <2>4, <3>7
    <2> QED BY <2>5, <2>6
<1> DEFINE f == CHOOSE g : g = [n \in 0..(Limit(s) + 1) |-> F(g, n)]
<1>2. list_snprintf(s) = f[Limit(s) + 1].ranges
    BY Zenon DEF list_snprintf, NoRanges
<1> HIDE DEF F
<1>3. f = [n \in 0..(Limit(s) + 1) |-> F(f, n)]
    BY <1>1, Zenon
<1> HIDE DEF f
<1>4. \A n \in 0..(Limit(s) + 1) : f[n] = F(f, n)
    BY <1>3
<1>5. 0 \in 0..(Limit(s) + 1) /\ \A n \in 1..(Limit(s) + 1) : n \in 0..(Limit(s) + 1) /\ n # 0
    BY <1>0
<1>6. f[0] = NoRanges
    BY <1>4, <1>5, Zenon DEF F
<1>7. \A n \in 1..(Limit(s) + 1) : f[n] = print_range(s, not(alloc, s), f[n - 1])
    BY <1>4, <1>5, Zenon DEF F
<1> QED BY <1>2, <1>6, <1>7

(* and so does their reading.                                              *)
LEMMA ReadExists ==
    ASSUME NEW t, NEW str, Len(str) \in Nat
    PROVE  \E f : /\ list_sscanf(t, str) = f[Len(str)]
                  /\ f[0] = zero(t)
                  /\ \A n \in 1..Len(str) : f[n] = read_range(f[n - 1], str[n])
<1> DEFINE F(g, n) == IF n = 0 THEN zero(t)
                      ELSE read_range(g[n - 1], str[n])
           Good(i) == \E g : g = [n \in 0..i |-> F(g, n)]
           Bad == {i \in Nat : ~Good(i)}
           k == MinOf(Bad)
<1>0. Len(str) \in Nat
    OBVIOUS
<1>1. Good(Len(str))
    <2>2. SUFFICES ASSUME Bad # {} PROVE FALSE
        BY <1>0
    <2>3. k \in Bad /\ \A i \in Bad : k <= i
        <3> HIDE DEF Good
        <3> QED BY <2>2, MinOfNat
    <2> HIDE DEF k
    <2>4. k \in Nat /\ ~Good(k)
        BY <2>3
    <2>5. CASE k = 0
        <3> DEFINE g == [n \in 0..0 |-> zero(t)]
        <3>1. g = [n \in 0..0 |-> F(g, n)]
            OBVIOUS
        <3> HIDE DEF g, F
        <3> QED BY <2>4, <2>5, <3>1
    <2>6. CASE k # 0
        <3>1. k - 1 \in Nat /\ ~(k <= k - 1)
            BY <2>4, <2>6
        <3>a. Good(k - 1)
            <4> HIDE DEF Good
            <4> QED BY <2>3, <3>1
        <3>2. PICK g : g = [n \in 0..(k - 1) |-> F(g, n)]
            BY <3>a
        <3> DEFINE h == [n \in 0..k |-> IF n = k THEN F(g, k) ELSE g[n]]
        <3>3. \A n \in 0..k : n # 0 => h[n - 1] = g[n - 1]
            BY <2>4
        <3>4. \A n \in 0..k : F(h, n) = F(g, n)
            BY <3>3
        <3>5. \A n \in 0..k : n # k => g[n] = F(g, n)
            <4> HIDE DEF F
            <4> QED BY <2>4, <3>2
        <3> HIDE DEF F
        <3>6. \A n \in 0..k : h[n] = F(h, n)
            BY <3>4, <3>5
        <3>7. h = [n \in 0..k |-> F(h, n)]
            BY <3>6
        <3> HIDE DEF h
        <3> QED BY <2>4, <3>7
    <2> QED BY <2>5, <2>6
<1> DEFINE f == CHOOSE g : g = [n \in 0..Len(str) |-> F(g, n)]
<1>2. list_sscanf(t, str) = f[Len(str)]
    BY Zenon DEF list_sscanf
<1> HIDE DEF F
<1>3. f = [n \in 0..Len(str) |-> F(f, n)]
    BY <1>1, Zenon
<1> HIDE DEF f
<1>4. \A n \in 0..Len(str) : f[n] = F(f, n)
    BY <1>3
<1>5. 0 \in 0..Len(str) /\ \A n \in 1..Len(str) : n \in 0..Len(str) /\ n # 0
    BY <1>0
<1>6. f[0] = zero(t)
    BY <1>4, <1>5, Zenon DEF F
<1>7. \A n \in 1..Len(str) : f[n] = read_range(f[n - 1], str[n])
    BY <1>4, <1>5, Zenon DEF F
<1> QED BY <1>2, <1>6, <1>7

(* Indexes of the valid words are arguments.                               *)
LEMMA ValidIsCpu ==
    ASSUME NEW s \in Bitmap
    PROVE  /\ Limit(s) \in Nat /\ 1 <= Limit(s) /\ Limit(s) \in Universe
           /\ \A c \in Nat : c < Limit(s) => c \in Cpu
<1>1. Limit(s) \in Nat /\ 1 <= Limit(s) /\ Limit(s) \in Universe
    BY BelowLimit, LimitIndex, 0 \in Nat
<1>2. Limit(s) <= MaxUlongs * HWLOC_BITS_PER_LONG
    <2>1. /\ s.count \in Nat /\ s.count <= MaxUlongs /\ MaxUlongs \in Nat
          /\ HWLOC_BITS_PER_LONG \in Nat
        BY BitmapFields, SizeAssumption
    <2>2. PICK e \in Nat : MaxUlongs = s.count + e
        <3>1. MaxUlongs - s.count \in Nat /\ MaxUlongs = s.count + (MaxUlongs - s.count)
            BY <2>1
        <3> QED BY <3>1
    <2>3. MaxUlongs * HWLOC_BITS_PER_LONG
              = s.count * HWLOC_BITS_PER_LONG + e * HWLOC_BITS_PER_LONG
          /\ e * HWLOC_BITS_PER_LONG \in Nat /\ s.count * HWLOC_BITS_PER_LONG \in Nat
        BY <2>1, <2>2, SMTT(30)
    <2> QED BY <2>3 DEF Limit
<1>3. MaxUlongs * HWLOC_BITS_PER_LONG \in Nat
    BY SizeAssumption
<1> QED BY <1>1, <1>2, <1>3 DEF Cpu

LEMMA BitsAreNat ==
    ASSUME NEW s PROVE \A c \in Bits(s) : c \in Universe /\ c \in Nat
BY IndexTypes DEF Bits

(* The beginning of the next range.                                        *)
LEMMA BeginIs ==
    ASSUME NEW s \in Bitmap, NEW prev \in (-1)..(Limit(s) - 1)
    PROVE  LET begin == next(s, prev)
           IN  \/ begin = -1 /\ ~s.infinite /\ \A c \in Bits(s) : c <= prev
               \/ /\ begin \in Bits(s) /\ prev < begin /\ begin <= Limit(s)
                  /\ ~s.infinite => begin < Limit(s)
                  /\ \A c \in Bits(s) : prev < c => begin <= c
<1> DEFINE T == {c \in Bits(s) : c > prev}
           begin == next(s, prev)
           L == Limit(s)
<1>0. s.infinite \in BOOLEAN
    BY BitmapFields
<1>1. L \in Nat /\ L \in Universe /\ prev \in Cpu \cup {-1} /\ prev \in Int /\ prev < L
    BY ValidIsCpu
<1>2. begin = LowestOr(T, -1)
    BY <1>1, NextExact
<1>3. T \subseteq Nat
    BY BitsAreNat
<1>4. \A c \in Bits(s) : L <= c => s.infinite
    BY BitsAreNat, BeyondLimit DEF Bits
<1>5. s.infinite => L \in T
    BY <1>1, LimitIndex
<1> HIDE DEF begin, L
<1>6. CASE T = {}
    <2>1. begin = -1 /\ ~s.infinite
        BY <1>2, <1>5, <1>6 DEF LowestOr
    <2>2. \A c \in Bits(s) : c <= prev
        BY <1>1, <1>6, BitsAreNat
    <2> QED BY <2>1, <2>2 DEF begin
<1>7. CASE T # {}
    <2>1. begin \in T /\ \A c \in T : begin <= c
        BY <1>2, <1>3, <1>7, MinOfNat DEF LowestOr
    <2>2. begin \in Bits(s) /\ prev < begin /\ \A c \in Bits(s) : prev < c => begin <= c
        BY <1>1, <2>1, BitsAreNat
    <2>3. s.infinite => begin <= L
        BY <1>5, <2>1
    <2>4. ~s.infinite => begin < L
        BY <1>1, <1>4, <2>2, BitsAreNat
    <2>5. begin <= L
        BY <1>0, <1>1, <2>2, <2>3, <2>4, BitsAreNat
    <2> QED BY <2>2, <2>4, <2>5 DEF begin, L
<1> QED BY <1>6, <1>7

(* The complement of the bitmap, and its flag.                             *)
LEMMA ReverseIs ==
    ASSUME NEW s \in Bitmap
    PROVE  LET rev == not(alloc, s)
           IN  rev \in Bitmap /\ Bits(rev) = Universe \ Bits(s) /\ (rev.infinite <=> ~s.infinite)
<1> DEFINE rev == not(alloc, s)
           top == HWLOC_BITS_PER_LONG * MaxUlongs + 0
<1>1. rev \in Bitmap /\ Bits(rev) = Universe \ Bits(s)
    BY AllocDenote, CombiningDenote DEF Denotes
<1> HIDE DEF rev
<1>2. 0 \in Bit /\ MaxUlongs \in 0..MaxUlongs /\ MaxUlongs \in Nat
    BY SizeAssumption DEF Bit
<1>3. /\ top \in Universe
      /\ top \in Bits(rev) <=> 0 \in READULONG(rev, MaxUlongs)
      /\ top \in Bits(s) <=> 0 \in READULONG(s, MaxUlongs)
    BY <1>1, <1>2, WordBit
<1> HIDE DEF top
<1>4. /\ READULONG(rev, MaxUlongs) = IF rev.infinite THEN FULL ELSE ZERO
      /\ READULONG(s, MaxUlongs) = IF s.infinite THEN FULL ELSE ZERO
      /\ rev.infinite \in BOOLEAN /\ s.infinite \in BOOLEAN
    BY <1>1, Reads
<1>5. (top \in Bits(rev) <=> rev.infinite) /\ (top \in Bits(s) <=> s.infinite)
    BY <1>2, <1>3, <1>4 DEF FULL, ZERO
<1> QED BY <1>1, <1>3, <1>5 DEF rev

(* The end of a range, that of all beyond the valid words included.        *)
LEMMA EndIs ==
    ASSUME NEW s \in Bitmap, NEW begin \in Bits(s), begin <= Limit(s)
    PROVE  LET end == next(not(alloc, s), begin)
           IN  \/ end = -1 /\ s.infinite /\ \A c \in Universe : begin <= c => c \in Bits(s)
               \/ /\ end \in Nat /\ begin < end /\ end <= Limit(s) /\ end \notin Bits(s)
                  /\ \A c \in Universe : begin <= c /\ c < end => c \in Bits(s)
<1> DEFINE rev == not(alloc, s)
           T == {c \in Bits(rev) : c > begin}
           end == next(rev, begin)
           L == Limit(s)
<1>1. rev \in Bitmap /\ Bits(rev) = Universe \ Bits(s) /\ (rev.infinite <=> ~s.infinite)
    BY ReverseIs
<1>2. /\ L \in Nat /\ L \in Universe /\ begin \in Nat /\ begin \in Universe
      /\ s.infinite \in BOOLEAN
      /\ \A c \in Universe : c \in Nat
      /\ \A c \in Nat : c < L => c \in Cpu
    BY ValidIsCpu, BitsAreNat, BitmapFields, IndexTypes
<1>3. \A c \in Universe : L <= c => (c \in Bits(s) <=> s.infinite)
    BY BeyondLimit DEF Bits
<1> HIDE DEF rev, L
<1>4. end = LowestOr(T, -1)
    <2>1. CASE begin < L
        BY <1>1, <1>2, <2>1, NextExact
    <2>2. CASE ~(begin < L)
        <3>1. begin = L /\ s.infinite
            BY <1>2, <1>3, <2>2 DEF L
        <3>2. T = {}
            <4> SUFFICES ASSUME NEW c \in T PROVE FALSE
                OBVIOUS
            <4>1. c \in Universe /\ c \notin Bits(s) /\ c > begin
                BY <1>1
            <4>2. L <= c
                BY <1>2, <3>1, <4>1
            <4> QED BY <1>3, <3>1, <4>1, <4>2
        <3>3. rev.infinite = FALSE
            BY <1>1, <3>1, BitmapFields
        <3>4. INDEX(begin + 1) \in Nat /\ INDEX(begin + 1) >= s.count
            <4>1. L + 1 \in Nat /\ ~(L + 1 < L)
                BY <1>2
            <4>2. INDEX(L + 1) \in Nat /\ ~(INDEX(L + 1) < s.count)
                BY <4>1, BelowLimit, IndexSplit DEF L
            <4> QED BY <3>1, <4>2, BitmapFields
        <3>5. end = -1
            <4>1. CASE INDEX(begin + 1) >= rev.count
                BY <3>3, <4>1 DEF next
            <4>2. CASE ~(INDEX(begin + 1) >= rev.count)
                <5> DEFINE found == {i \in INDEX(begin + 1)..(rev.count - 1) : After(rev, begin, i) # ZERO}
                <5>1. ASSUME NEW i \in INDEX(begin + 1)..(rev.count - 1) PROVE After(rev, begin, i) = ZERO
                    <6>1. i \in 0..(rev.count - 1) /\ i \in 0..MaxUlongs /\ i >= s.count /\ i \in Nat
                        BY <1>1, <3>4, BitmapFields, Reads
                    <6>2. rev.ulongs[i] = READULONG(rev, i) /\ rev.ulongs[i] \in SUBSET Bit
                        BY <1>1, <6>1, Reads
                    <6>3. READULONG(s, i) = FULL
                        BY <3>1, <6>1, BitmapFields DEF READULONG
                    <6>4. \A b \in Bit : b \notin rev.ulongs[i]
                        <7> SUFFICES ASSUME NEW b \in Bit PROVE b \notin rev.ulongs[i]
                            OBVIOUS
                        <7> DEFINE c == HWLOC_BITS_PER_LONG * i + b
                        <7>1. /\ c \in Universe
                              /\ c \in Bits(s) <=> b \in READULONG(s, i)
                              /\ c \in Bits(rev) <=> b \in READULONG(rev, i)
                            BY <1>1, <6>1, WordBit
                        <7> HIDE DEF c
                        <7> QED BY <1>1, <6>2, <6>3, <7>1 DEF FULL
                    <6>5. rev.ulongs[i] = ZERO
                        BY <6>2, <6>4 DEF ZERO
                    <6> QED BY <6>5 DEF After, ZERO
                <5>2. found = {}
                    BY <5>1
                <5> QED BY <3>3, <4>2, <5>2 DEF next
            <4> QED BY <4>1, <4>2
        <3> QED BY <3>2, <3>5 DEF LowestOr
    <2> QED BY <2>1, <2>2
<1>5. T \subseteq Nat
    BY BitsAreNat
<1> HIDE DEF end
<1>6. CASE T = {}
    <2>1. end = -1
        BY <1>4, <1>6 DEF LowestOr
    <2>2. \A c \in Universe : begin <= c => c \in Bits(s)
        BY <1>1, <1>2, <1>6
    <2>3. s.infinite
        <3>1. begin <= L
            BY DEF L
        <3> QED BY <1>2, <1>3, <2>2, <3>1
    <2> QED BY <2>1, <2>2, <2>3 DEF end, rev
<1>7. CASE T # {}
    <2>1. end \in T /\ \A c \in T : end <= c
        BY <1>4, <1>5, <1>7, MinOfNat DEF LowestOr
    <2>2. end \in Nat /\ begin < end /\ end \notin Bits(s) /\ end \in Universe
        BY <1>1, <1>2, <2>1
    <2>3. \A c \in Universe : begin <= c /\ c < end => c \in Bits(s)
        BY <1>1, <1>2, <2>1, <2>2
    <2>4. end <= L
        <3>1. CASE s.infinite
            BY <1>2, <1>3, <2>2, <3>1
        <3>2. CASE ~s.infinite
            <4>1. L \notin Bits(s) /\ begin < L
                <5>1. begin <= L
                    BY DEF L
                <5> QED BY <1>2, <1>3, <3>2, <5>1
            <4>2. L \in T
                BY <1>1, <1>2, <4>1
            <4> QED BY <2>1, <4>2
        <3> QED BY <3>1, <3>2
    <2> QED BY <2>2, <2>3, <2>4 DEF end, rev, L
<1> QED BY <1>6, <1>7

(* Range i of R: what is in the bitmap from the end of the range before    *)
(* to its own end, or to no end.                                           *)
EndBefore(R, i) == IF i = 1 THEN -1 ELSE R[i - 1][2]
Closed(s, R, i) ==
    /\ R[i][1] \in Nat /\ R[i][2] \in Nat
    /\ EndBefore(R, i) < R[i][1] /\ R[i][1] <= R[i][2] /\ R[i][2] < Limit(s)
    /\ \A c \in Universe : EndBefore(R, i) < c /\ c <= R[i][2] =>
          (c \in Bits(s) <=> R[i][1] <= c)
Open(s, R, i) ==
    /\ R[i][1] \in Nat /\ R[i][2] = -1 /\ s.infinite
    /\ EndBefore(R, i) < R[i][1] /\ R[i][1] <= Limit(s)
    /\ \A c \in Universe : EndBefore(R, i) < c => (c \in Bits(s) <=> R[i][1] <= c)

(* Nothing of the bitmap is after the ranges.                              *)
NoMore(s, R) == ~s.infinite /\ \A c \in Bits(s) : c <= EndBefore(R, Len(R) + 1)

(* The ranges so far, and after the loop.                                  *)
Printing(s, R) == R \in Seq(Int \X Int) /\ \A i \in 1..Len(R) : Closed(s, R, i)
Listed(s, R) ==
    \/ Printing(s, R) /\ NoMore(s, R)
    \/ /\ R \in Seq(Int \X Int) /\ R # <<>>
       /\ \A i \in 1..(Len(R) - 1) : Closed(s, R, i)
       /\ Open(s, R, Len(R))
PrintInv(s, k, r) ==
    IF r.done THEN Listed(s, r.ranges)
    ELSE /\ Printing(s, r.ranges)
         /\ r.prev = EndBefore(r.ranges, Len(r.ranges) + 1)
         /\ r.prev \in (-1)..(Limit(s) - 1) /\ k <= r.prev + 1

(* A range that is added leaves those before.                              *)
Added(s, R, b, e, Q) ==
    /\ Q \in Seq(Int \X Int) /\ Q # <<>> /\ Len(Q) = Len(R) + 1 /\ Len(R) \in Nat
    /\ \A i \in 1..Len(R) : Closed(s, Q, i)
    /\ Q[Len(Q)][1] = b /\ Q[Len(Q)][2] = e
    /\ EndBefore(Q, Len(Q)) = EndBefore(R, Len(R) + 1)

LEMMA AddRange ==
    ASSUME NEW s, NEW R, Printing(s, R), NEW b \in Int, NEW e \in Int
    PROVE  Added(s, R, b, e, Append(R, <<b, e>>))
<1> DEFINE Q == Append(R, <<b, e>>)
           n == Len(R)
<1>1. /\ R \in Seq(Int \X Int) /\ n \in Nat
      /\ \A i \in 1..n : Closed(s, R, i)
    BY DEF Printing
<1>2. /\ Q \in Seq(Int \X Int) /\ Len(Q) = n + 1
      /\ \A i \in 1..n : Q[i] = R[i]
      /\ Q[n + 1] = <<b, e>>
    BY <1>1
<1> HIDE DEF Q, n
<1>3. \A i \in 1..n : EndBefore(Q, i) = EndBefore(R, i)
    BY <1>1, <1>2 DEF EndBefore
<1>4. \A i \in 1..n : Closed(s, Q, i)
    <2> SUFFICES ASSUME NEW i \in 1..n PROVE Closed(s, Q, i)
        OBVIOUS
    <2>1. Closed(s, R, i) /\ Q[i] = R[i] /\ EndBefore(Q, i) = EndBefore(R, i)
        BY <1>1, <1>2, <1>3
    <2> QED BY <2>1, Zenon DEF Closed
<1>5. EndBefore(Q, n + 1) = EndBefore(R, n + 1)
    <2>1. CASE n = 0
        BY <2>1 DEF EndBefore
    <2>2. CASE n # 0
        <3>1. n \in 1..n /\ n + 1 # 1 /\ n + 1 - 1 = n
            BY <1>1, <2>2
        <3>2. Q[n] = R[n]
            BY <1>2, <3>1
        <3>3. EndBefore(Q, n + 1) = Q[n][2] /\ EndBefore(R, n + 1) = R[n][2]
            BY <3>1 DEF EndBefore
        <3> QED BY <3>2, <3>3
    <2> QED BY <2>1, <2>2
<1>6. Q # <<>>
    BY <1>1, <1>2
<1>7. Q[Len(Q)][1] = b /\ Q[Len(Q)][2] = e /\ EndBefore(Q, Len(Q)) = EndBefore(R, n + 1)
    BY <1>2, <1>5
<1>8. /\ Q \in Seq(Int \X Int) /\ Q # <<>> /\ Len(Q) = n + 1 /\ n \in Nat
      /\ \A i \in 1..n : Closed(s, Q, i)
    BY <1>1, <1>2, <1>4, <1>6
<1>9. Added(s, R, b, e, Q)
    BY <1>7, <1>8, Zenon DEF Added, n
<1> QED BY <1>9 DEF Q

LEMMA PrintRangeKeeps ==
    ASSUME NEW s \in Bitmap, NEW k \in Nat, NEW r, PrintInv(s, k, r)
    PROVE  PrintInv(s, k + 1, print_range(s, not(alloc, s), r))
<1> DEFINE R == r.ranges
           prev == r.prev
           begin == next(s, prev)
           end == next(not(alloc, s), begin)
           q == print_range(s, not(alloc, s), r)
           L == Limit(s)
<1>1. CASE r.done
    <2>1. q.done = TRUE /\ q.ranges = R
        BY <1>1, Zenon DEF print_range
    <2> QED BY <1>1, <2>1 DEF PrintInv
<1>2. CASE ~r.done
    <2>1. /\ Printing(s, R) /\ prev = EndBefore(R, Len(R) + 1)
          /\ prev \in (-1)..(L - 1) /\ k <= prev + 1
        BY <1>2 DEF PrintInv
    <2>2. \/ begin = -1 /\ ~s.infinite /\ \A c \in Bits(s) : c <= prev
          \/ /\ begin \in Bits(s) /\ prev < begin /\ begin <= L
             /\ \A c \in Bits(s) : prev < c => begin <= c
        BY <2>1, BeginIs
    <2>3. /\ L \in Nat /\ prev \in Int
          /\ \A c \in Universe : c \in Nat
          /\ \A c \in Bits(s) : c \in Universe /\ c \in Nat
        BY <2>1, ValidIsCpu, BitsAreNat, IndexTypes
    <2> HIDE DEF L, R, prev
    <2>4. CASE begin = -1 /\ ~s.infinite /\ \A c \in Bits(s) : c <= prev
        <3>1. q.done = TRUE /\ q.ranges = R
            BY <2>4, Zenon DEF print_range, R, prev
        <3>2. NoMore(s, R)
            BY <2>1, <2>4 DEF NoMore
        <3> QED BY <2>1, <3>1, <3>2 DEF PrintInv, Listed
    <2>5. CASE /\ begin \in Bits(s) /\ prev < begin /\ begin <= L
               /\ \A c \in Bits(s) : prev < c => begin <= c
        <3>1. begin \in Nat /\ begin # -1
            BY <2>3, <2>5
        <3>2. \/ end = -1 /\ s.infinite /\ \A c \in Universe : begin <= c => c \in Bits(s)
              \/ /\ end \in Nat /\ begin < end /\ end <= L /\ end \notin Bits(s)
                 /\ \A c \in Universe : begin <= c /\ c < end => c \in Bits(s)
            BY <2>5, EndIs DEF L
        <3> DEFINE Q(e) == Append(R, <<begin, e>>)
        <3>3. CASE end = -1 /\ s.infinite /\ \A c \in Universe : begin <= c => c \in Bits(s)
            <4>1. q.done = TRUE /\ q.ranges = Q(-1)
                BY <1>2, <3>1, <3>3, Zenon DEF print_range, R, prev
            <4> HIDE DEF begin, end
            <4>2. /\ Q(-1) \in Seq(Int \X Int) /\ Q(-1) # <<>> /\ Len(Q(-1)) = Len(R) + 1
                  /\ Len(R) \in Nat
                  /\ \A i \in 1..Len(R) : Closed(s, Q(-1), i)
                  /\ Q(-1)[Len(Q(-1))][1] = begin /\ Q(-1)[Len(Q(-1))][2] = -1
                  /\ EndBefore(Q(-1), Len(Q(-1))) = prev
                <5>1. begin \in Int /\ -1 \in Int
                    BY <3>1
                <5>2. Added(s, R, begin, -1, Q(-1))
                    BY <2>1, <5>1, AddRange
                <5> HIDE DEF Q
                <5> QED BY <2>1, <5>2 DEF Added
            <4> HIDE DEF Q
            <4>3. \A c \in Universe : prev < c => (c \in Bits(s) <=> begin <= c)
                BY <2>3, <2>5, <3>3
            <4>4. Open(s, Q(-1), Len(Q(-1)))
                BY <2>5, <3>1, <3>3, <4>2, <4>3 DEF Open, L
            <4>5. \A i \in 1..(Len(Q(-1)) - 1) : Closed(s, Q(-1), i)
                BY <4>2
            <4> QED BY <4>1, <4>2, <4>4, <4>5 DEF PrintInv, Listed
        <3>4. CASE /\ end \in Nat /\ begin < end /\ end <= L /\ end \notin Bits(s)
                   /\ \A c \in Universe : begin <= c /\ c < end => c \in Bits(s)
            <4> DEFINE e == end - 1
            <4>0. end # -1 /\ e \in Nat
                BY <3>1, <3>4
            <4>1. q.done = FALSE /\ q.ranges = Q(e) /\ q.prev = e
                BY <1>2, <3>1, <4>0, Zenon DEF print_range, R, prev
            <4> HIDE DEF begin, end
            <4>a. begin <= e /\ e < L /\ prev + 1 <= e
                BY <2>3, <2>5, <3>1, <3>4
            <4>b. \A c \in Nat : c <= e => c < end
                BY <3>4
            <4> HIDE DEF e
            <4>2. /\ Q(e) \in Seq(Int \X Int) /\ Len(Q(e)) = Len(R) + 1
                  /\ Len(R) \in Nat
                  /\ \A i \in 1..Len(R) : Closed(s, Q(e), i)
                  /\ Q(e)[Len(Q(e))][1] = begin /\ Q(e)[Len(Q(e))][2] = e
                  /\ EndBefore(Q(e), Len(Q(e))) = prev
                <5>1. begin \in Int /\ e \in Int
                    BY <3>1, <4>0
                <5>2. Added(s, R, begin, e, Q(e))
                    BY <2>1, <5>1, AddRange
                <5> HIDE DEF Q
                <5> QED BY <2>1, <5>2 DEF Added
            <4> HIDE DEF Q
            <4>3. \A c \in Universe : prev < c /\ c <= e => (c \in Bits(s) <=> begin <= c)
                BY <2>3, <2>5, <3>4, <4>b
            <4>4. Closed(s, Q(e), Len(Q(e)))
                BY <2>5, <3>1, <4>0, <4>2, <4>3, <4>a DEF Closed, L
            <4>5. \A i \in 1..Len(Q(e)) : Closed(s, Q(e), i)
                <5> SUFFICES ASSUME NEW i \in 1..Len(Q(e)) PROVE Closed(s, Q(e), i)
                    OBVIOUS
                <5>1. i \in 1..Len(R) \/ i = Len(Q(e))
                    BY <4>2
                <5> QED BY <4>2, <4>4, <5>1
            <4>6. EndBefore(Q(e), Len(Q(e)) + 1) = e
                BY <4>2 DEF EndBefore
            <4>7. e \in (-1)..(L - 1) /\ k + 1 <= e + 1
                BY <2>1, <2>3, <4>0, <4>a
            <4> HIDE DEF q
            <4>8. Printing(s, Q(e))
                BY <4>2, <4>5 DEF Printing
            <4>9. ~q.done /\ Printing(s, q.ranges)
                BY <4>1, <4>8
            <4>10. q.prev = EndBefore(q.ranges, Len(q.ranges) + 1)
                BY <4>1, <4>6
            <4>11. q.prev \in (-1)..(Limit(s) - 1) /\ k + 1 <= q.prev + 1
                BY <4>1, <4>7 DEF L
            <4>12. PrintInv(s, k + 1, q)
                BY <4>9, <4>10, <4>11 DEF PrintInv
            <4> QED BY <4>12 DEF q
        <3> QED BY <3>2, <3>3, <3>4
    <2> QED BY <2>2, <2>4, <2>5
<1> QED BY <1>1, <1>2

(* The list describes the bitmap: the loop has ended.                      *)
LEMMA ListIs ==
    ASSUME NEW s \in Bitmap
    PROVE  Listed(s, list_snprintf(s))
<1> DEFINE L == Limit(s)
<1>1. L \in Nat
    BY ValidIsCpu
<1>2. PICK f : /\ list_snprintf(s) = f[L + 1].ranges
               /\ f[0] = NoRanges
               /\ \A n \in 1..(L + 1) : f[n] = print_range(s, not(alloc, s), f[n - 1])
    BY <1>1, PrintExists
<1> HIDE DEF L
<1>3. PrintInv(s, 0, f[0])
    <2>1. Printing(s, <<>>)
        BY DEF Printing
    <2>2. -1 = EndBefore(<<>>, Len(<<>>) + 1) /\ -1 \in (-1)..(L - 1) /\ 0 <= -1 + 1
        BY <1>1 DEF EndBefore
    <2> QED BY <1>2, <2>1, <2>2 DEF PrintInv, NoRanges, L
<1> DEFINE Bad == {n \in 0..(L + 1) : ~PrintInv(s, n, f[n])}
<1>4. Bad = {}
    <2> SUFFICES ASSUME Bad # {} PROVE FALSE
        OBVIOUS
    <2> DEFINE m == MinOf(Bad)
    <2>1. m \in Bad /\ \A n \in Bad : m <= n
        BY <1>1, MinOfNat
    <2> HIDE DEF m
    <2>2. m # 0 /\ m - 1 \in Nat /\ m - 1 \in 0..(L + 1) /\ m \in 1..(L + 1) /\ m - 1 + 1 = m
          /\ ~(m <= m - 1)
        BY <1>1, <1>3, <2>1
    <2>3. PrintInv(s, m - 1, f[m - 1])
        BY <2>1, <2>2
    <2>4. PrintInv(s, m - 1 + 1, f[m])
        BY <1>2, <2>2, <2>3, PrintRangeKeeps
    <2> QED BY <2>1, <2>2, <2>4
<1>5. PrintInv(s, L + 1, f[L + 1])
    BY <1>1, <1>4
<1>6. f[L + 1].done
    <2> SUFFICES ASSUME ~f[L + 1].done PROVE FALSE
        OBVIOUS
    <2>1. f[L + 1].prev \in (-1)..(L - 1) /\ L + 1 <= f[L + 1].prev + 1
        BY <1>5 DEF PrintInv, L
    <2> QED BY <1>1, <2>1
<1> QED BY <1>2, <1>5, <1>6 DEF PrintInv

(* Adding an index or a range to a finite bitmap: the words it has then.   *)
LEMMA GrownShape ==
    ASSUME NEW r \in Bitmap, NEW n \in Nat, 1 <= n, n <= MaxUlongs, NEW u
    PROVE  LET q == [realloc_by_ulongs(r, n) EXCEPT !.ulongs = u]
           IN  q.count = Larger(n, r.count) /\ q.infinite = r.infinite
<1> DEFINE p == realloc_by_ulongs(r, n)
<1>1. p \in Bitmap /\ p.infinite = r.infinite /\ p.count = Larger(n, r.count)
    BY ReallocKeeps
<1>2. p = [ulongs |-> p.ulongs, count |-> p.count,
           allocated |-> p.allocated, infinite |-> p.infinite]
    BY <1>1, BitmapFields
<1> HIDE DEF p
<1>3. [p EXCEPT !.ulongs = u].count = p.count /\ [p EXCEPT !.ulongs = u].infinite = p.infinite
    BY <1>2
<1> QED BY <1>1, <1>3 DEF p

(* q is the bitmap r and the range from b to e.                            *)
WithRange(r, b, e, q) ==
    /\ q \in Bitmap /\ q.infinite = FALSE /\ q.count = Larger(INDEX(e) + 1, r.count)
    /\ Bits(q) = Bits(r) \cup {c \in Universe : b <= c /\ c <= e}

LEMMA RangeShape ==
    ASSUME NEW r \in Bitmap, ~r.infinite, NEW b \in Cpu, NEW e \in Cpu, b <= e
    PROVE  WithRange(r, b, e, read_range(r, <<b, e>>))
<1>1. /\ b \in Nat /\ e \in Nat /\ e # -1 /\ INDEX(e) \in Nat /\ INDEX(e) < MaxUlongs
      /\ INDEX(e) + 1 \in Nat /\ 1 <= INDEX(e) + 1 /\ INDEX(e) + 1 <= MaxUlongs
    BY IndexTypes, SizeAssumption
<1>2. r.infinite = FALSE /\ [r EXCEPT !.infinite = FALSE] = r
    <2>1. r.infinite \in BOOLEAN
          /\ r = [ulongs |-> r.ulongs, count |-> r.count,
                  allocated |-> r.allocated, infinite |-> r.infinite]
        BY BitmapFields
    <2> QED BY <2>1
<1>3. CASE b = e
    <2>1. read_range(r, <<b, e>>) = set(r, e)
        BY <1>3 DEF read_range
    <2>2. set(r, e).count = Larger(INDEX(e) + 1, r.count) /\ set(r, e).infinite = FALSE
        <3> DEFINE p == realloc_by_ulongs(r, INDEX(e) + 1)
                   w == READULONG(r, INDEX(e)) \cup {CPU_ULBIT(e)}
                   u == [j \in 0..(p.count - 1) |-> IF j = INDEX(e) THEN w ELSE p.ulongs[j]]
        <3>1. set(r, e) = [p EXCEPT !.ulongs = u]
            BY <1>2 DEF set, Store
        <3> HIDE DEF u
        <3> QED BY <1>1, <1>2, <3>1, GrownShape
    <2>3. set(r, e) \in Bitmap /\ Bits(set(r, e)) = Bits(r) \cup {e}
        BY SetClrDenote
    <2>4. {c \in Universe : b <= c /\ c <= e} = {e}
        BY <1>1, <1>3, IndexTypes
    <2> QED BY <2>1, <2>2, <2>3, <2>4 DEF WithRange
<1>4. CASE b # e
    <2>1. read_range(r, <<b, e>>) = set_range(r, b, e)
        BY <1>4 DEF read_range
    <2>2. set_range(r, b, e) = AddMasks(r, b, e)
        <3>1. (r.infinite \/ e = -1) = FALSE
            BY <1>1, <1>2
        <3>2. Truncate(r, e, FALSE) = e
            BY DEF Truncate
        <3>3. ~(e < b)
            BY <1>1
        <3> QED BY <1>2, <3>1, <3>2, <3>3 DEF set_range
    <2>3. AddMasks(r, b, e).count = Larger(INDEX(e) + 1, r.count) /\ AddMasks(r, b, e).infinite = FALSE
        <3> DEFINE p == realloc_by_ulongs(r, INDEX(e) + 1)
                   u == [i \in 0..(p.count - 1) |-> p.ulongs[i] \cup RangeMask(i, b, e)]
        <3>1. AddMasks(r, b, e) = [p EXCEPT !.ulongs = u]
            BY DEF AddMasks
        <3> HIDE DEF u
        <3> QED BY <1>1, <1>2, <3>1, GrownShape
    <2>4. /\ set_range(r, b, e) \in Bitmap
          /\ Bits(set_range(r, b, e)) = Bits(r) \cup {c \in Universe : b <= c /\ c <= e}
        BY RangeDenotes
    <2> QED BY <2>1, <2>2, <2>3, <2>4 DEF WithRange
<1> QED BY <1>3, <1>4

(* A range without an end is exact when it begins no later than the valid  *)
(* words end, and is a bitmap in any case.                                 *)
LEMMA OpenRangeFrom ==
    ASSUME NEW r \in Bitmap, NEW b \in Nat
    PROVE  LET q == read_range(r, <<b, -1>>)
           IN  /\ q \in Bitmap
               /\ b <= Limit(r) => Bits(q) = Bits(r) \cup {c \in Universe : b <= c}
<1> DEFINE L == Limit(r)
           r1 == [r EXCEPT !.infinite = TRUE]
           t == AddMasks(r1, b, L - 1)
           q == read_range(r, <<b, -1>>)
<1>1. L \in Nat /\ 1 <= L /\ L - 1 \in Nat
    BY BelowLimit
<1>2. INDEX(L - 1) < MaxUlongs
    <2>1. INDEX(L - 1) < r.count
        BY <1>1, BelowLimit
    <2>2. r.count \in Nat /\ r.count <= MaxUlongs /\ INDEX(L - 1) \in Nat
        BY <1>1, BitmapFields, IndexSplit
    <2> QED BY <2>1, <2>2, SizeAssumption
<1>3. /\ r1 \in Bitmap /\ r1.infinite = TRUE /\ r1.count = r.count
      /\ \A c \in Universe : isset(r1, c) <=> IF c < L THEN isset(r, c) ELSE TRUE
    BY FlagDenotes
<1>4. q = IF b >= L \/ L - 1 < b THEN r1 ELSE t
    <2>1. q = set_range(r, b, -1)
        <3>1. b # -1
            OBVIOUS
        <3> QED BY <3>1 DEF read_range
    <2>2. Limit(r1) = L
        BY <1>3 DEF Limit
    <2>3. (r.infinite \/ -1 = -1) = TRUE
        BY BitmapFields
    <2> HIDE DEF L, q
    <2>4. Truncate(r1, -1, r1.infinite) = L - 1
        BY <1>3, <2>2 DEF Truncate
    <2>a. [r EXCEPT !.infinite = r.infinite \/ -1 = -1] = r1
        BY <2>3
    <2> HIDE DEF r1
    <2>5. set_range(r, b, -1) = IF b >= L \/ L - 1 < b THEN r1 ELSE t
        BY <1>3, <2>4, <2>a DEF set_range, L
    <2> QED BY <2>1, <2>5
<1> HIDE DEF r1
<1>5. t \in Bitmap /\ \A c \in Universe : isset(t, c) <=> isset(r1, c) \/ (b <= c /\ c <= L - 1)
    <2>1. r1 \in Bitmap
        BY <1>3
    <2>2. L - 1 \in Nat
        BY <1>1
    <2> HIDE DEF L
    <2> QED BY <1>2, <2>1, <2>2, MaskedDenotes
<1> HIDE DEF t, q, L
<1>6. q \in Bitmap
    BY <1>3, <1>4, <1>5
<1>7. ASSUME b <= L, NEW c \in Universe
      PROVE  isset(q, c) <=> isset(r, c) \/ b <= c
    <2>1. c \in Nat
        BY IndexTypes
    <2>2. CASE b >= L \/ L - 1 < b
        <3>1. b = L
            BY <1>1, <1>7, <2>2
        <3>2. isset(q, c) <=> IF c < L THEN isset(r, c) ELSE TRUE
            BY <1>3, <1>4, <2>2
        <3> QED BY <1>1, <2>1, <3>1, <3>2
    <2>3. CASE ~(b >= L \/ L - 1 < b)
        <3>1. isset(q, c) <=> isset(r1, c) \/ (b <= c /\ c <= L - 1)
            BY <1>4, <1>5, <2>3
        <3>2. isset(r1, c) <=> IF c < L THEN isset(r, c) ELSE TRUE
            BY <1>3
        <3> QED BY <1>1, <2>1, <2>3, <3>1, <3>2
    <2> QED BY <2>2, <2>3
<1>8. b <= L => Bits(q) = Bits(r) \cup {c \in Universe : b <= c}
    BY <1>7 DEF Bits
<1> QED BY <1>6, <1>8 DEF q, L

(* After i ranges of R, none of them open.                                 *)
WordsRead(R, i) == IF i = 0 THEN 1 ELSE INDEX(R[i][2]) + 1
ReadInv(s, R, i, r) ==
    /\ r \in Bitmap /\ r.infinite = FALSE /\ r.count = WordsRead(R, i)
    /\ Bits(r) = {c \in Bits(s) : c <= EndBefore(R, i + 1)}

LEMMA ReadClosed ==
    ASSUME NEW s \in Bitmap, NEW R \in Seq(Int \X Int), NEW i \in 1..Len(R),
           \A j \in 1..i : Closed(s, R, j), NEW r, ReadInv(s, R, i - 1, r)
    PROVE  ReadInv(s, R, i, read_range(r, R[i]))
<1> DEFINE b == R[i][1]
           e == R[i][2]
           P == EndBefore(R, i)
           q == read_range(r, R[i])
<1>1. i \in Nat /\ i \in 1..i /\ i - 1 + 1 = i /\ (i # 1 => i - 1 \in 1..i)
    OBVIOUS
<1>2. /\ b \in Nat /\ e \in Nat /\ P < b /\ b <= e /\ e < Limit(s)
      /\ \A c \in Universe : P < c /\ c <= e => (c \in Bits(s) <=> b <= c)
    BY <1>1 DEF Closed
<1>3. P \in Int /\ (i # 1 => P = R[i - 1][2] /\ P \in Nat)
    <2>1. CASE i = 1
        BY <2>1 DEF EndBefore
    <2>2. CASE i # 1
        <3>1. Closed(s, R, i - 1)
            BY <1>1, <2>2
        <3> QED BY <2>2, <3>1 DEF Closed, EndBefore
    <2> QED BY <2>1, <2>2
<1>4. R[i] = <<b, e>>
    <2>1. R[i] \in Int \X Int
        OBVIOUS
    <2> QED BY <2>1
<1>5. b \in Cpu /\ e \in Cpu
    BY <1>2, ValidIsCpu
<1>6. r \in Bitmap /\ r.infinite = FALSE /\ r.count = WordsRead(R, i - 1)
      /\ Bits(r) = {c \in Bits(s) : c <= P}
    BY <1>1 DEF ReadInv
<1>7. e = EndBefore(R, i + 1) /\ WordsRead(R, i) = INDEX(e) + 1
    BY <1>1 DEF EndBefore, WordsRead
<1> HIDE DEF b, e, P
<1>8. /\ q \in Bitmap /\ q.infinite = FALSE /\ q.count = Larger(INDEX(e) + 1, r.count)
      /\ Bits(q) = Bits(r) \cup {c \in Universe : b <= c /\ c <= e}
    <2>1. r \in Bitmap /\ ~r.infinite
        BY <1>6
    <2>2. b <= e
        BY <1>2
    <2>3. WithRange(r, b, e, read_range(r, <<b, e>>))
        BY <1>5, <2>1, <2>2, RangeShape
    <2>4. WithRange(r, b, e, q)
        BY <1>4, <2>3
    <2> HIDE DEF q
    <2> QED BY <2>4 DEF WithRange
<1>9. Larger(INDEX(e) + 1, r.count) = INDEX(e) + 1
    <2>1. INDEX(e) \in Nat
        BY <1>2, IndexSplit
    <2>2. CASE i = 1
        <3>1. r.count = 1
            BY <1>6, <2>2 DEF WordsRead
        <3> QED BY <2>1, <3>1 DEF Larger
    <2>3. CASE i # 1
        <3>1. r.count = INDEX(P) + 1
            BY <1>1, <1>3, <1>6, <2>3 DEF WordsRead
        <3>2. INDEX(P) \in Nat /\ INDEX(P) <= INDEX(e)
            <4>1. P \in Nat /\ P <= e
                BY <1>2, <1>3, <2>3
            <4>2. INDEX(P) \in Nat
                BY <4>1, IndexSplit
            <4>3. e \in Nat
                BY <1>2
            <4>4. INDEX(P) < INDEX(e) \/ INDEX(P) = INDEX(e)
                BY <4>1, <4>3, IndexOrder
            <4> QED BY <2>1, <4>2, <4>4
        <3> QED BY <2>1, <3>1, <3>2 DEF Larger
    <2> QED BY <2>2, <2>3
<1>10. Bits(q) = {c \in Bits(s) : c <= e}
    <2>1. ASSUME NEW c \in Universe
          PROVE  (c \in Bits(s) /\ c <= P) \/ (b <= c /\ c <= e) <=> c \in Bits(s) /\ c <= e
        <3>1. c \in Nat
            BY IndexTypes
        <3> QED BY <1>2, <1>3, <3>1
    <2>2. Bits(s) \subseteq Universe
        BY DEF Bits
    <2> QED BY <1>6, <1>8, <2>1, <2>2
<1> HIDE DEF q
<1> QED BY <1>7, <1>8, <1>9, <1>10 DEF ReadInv, q

LEMMA ReadPrefix ==
    ASSUME NEW s \in Bitmap, NEW t \in Bitmap, NEW R \in Seq(Int \X Int),
           NEW n \in 0..Len(R), \A j \in 1..n : Closed(s, R, j),
           NEW f, f[0] = zero(t), \A k \in 1..Len(R) : f[k] = read_range(f[k - 1], R[k])
    PROVE  ReadInv(s, R, n, f[n])
<1>0. Len(R) \in Nat /\ n \in Nat
    OBVIOUS
<1>1. ReadInv(s, R, 0, f[0])
    <2>1. zero(t) \in Bitmap /\ Bits(zero(t)) = {}
        BY ZeroFillDenote
    <2>2. zero(t).infinite = FALSE /\ zero(t).count = 1
        BY DEF zero, reset_by_ulongs
    <2>3. EndBefore(R, 0 + 1) = -1
        BY DEF EndBefore
    <2>4. {c \in Bits(s) : c <= -1} = {}
        BY BitsAreNat
    <2> QED BY <2>1, <2>2, <2>3, <2>4 DEF ReadInv, WordsRead
<1> DEFINE Bad == {k \in 0..n : ~ReadInv(s, R, k, f[k])}
           m == MinOf(Bad)
<1>2. SUFFICES ASSUME Bad # {} PROVE FALSE
    BY <1>0
<1>3. m \in Bad /\ \A k \in Bad : m <= k
    <2>1. Bad \subseteq Nat
        BY <1>0
    <2> HIDE DEF Bad
    <2> QED BY <1>2, <2>1, MinOfNat
<1> HIDE DEF m
<1>4. /\ m \in 1..Len(R) /\ m - 1 \in 0..n /\ ~(m <= m - 1)
      /\ \A j \in 1..m : j \in 1..n
    BY <1>0, <1>1, <1>3
<1>5. ReadInv(s, R, m - 1, f[m - 1])
    BY <1>3, <1>4
<1>6. ReadInv(s, R, m, f[m])
    BY <1>4, <1>5, ReadClosed
<1> QED BY <1>3, <1>6

(* The list format, unless its open range begins too late.                 *)
LEMMA ListReadsBack ==
    ASSUME NEW s \in Bitmap, NEW t \in Bitmap
    PROVE  LET r == list_sscanf(t, list_snprintf(s))
           IN  r \in Bitmap /\ (OpenRangeReadable(s) => Bits(r) = Bits(s))
<1> DEFINE R == list_snprintf(s)
           n == Len(R)
           r == list_sscanf(t, R)
<1>1. Listed(s, R)
    BY ListIs
<1>2. R \in Seq(Int \X Int) /\ n \in Nat
    <2>1. R \in Seq(Int \X Int)
        BY <1>1 DEF Listed, Printing
    <2> HIDE DEF R
    <2> QED BY <2>1
<1>3. PICK f : /\ r = f[n] /\ f[0] = zero(t)
               /\ \A k \in 1..n : f[k] = read_range(f[k - 1], R[k])
    BY <1>2, ReadExists
<1>4. CASE Printing(s, R) /\ NoMore(s, R)
    <2> HIDE DEF R, r
    <2>1. ReadInv(s, R, n, f[n])
        BY <1>2, <1>3, <1>4, ReadPrefix DEF Printing
    <2>2. Bits(s) = {c \in Bits(s) : c <= EndBefore(R, n + 1)}
        BY <1>4 DEF NoMore
    <2>3. r \in Bitmap /\ Bits(r) = Bits(s)
        BY <1>3, <2>1, <2>2 DEF ReadInv
    <2> QED BY <2>3 DEF r, R
<1>5. CASE /\ R # <<>> /\ Open(s, R, n)
           /\ \A i \in 1..(n - 1) : Closed(s, R, i)
    <2> DEFINE p == f[n - 1]
               b == R[n][1]
               P == EndBefore(R, n)
    <2>r. OpenRangeReadable(s) =>
             (s.infinite => Last(R)[1] <= (IF n < 2 THEN 1 ELSE INDEX(R[n - 1][2]) + 1)
                                             * HWLOC_BITS_PER_LONG)
        BY Zenon DEF OpenRangeReadable
    <2> HIDE DEF R, r
    <2>0. n \in 1..n /\ n - 1 \in 0..n /\ n - 1 + 1 = n /\ n >= 1 /\ Last(R) = R[n]
        BY <1>2, <1>5 DEF Last
    <2>1. ReadInv(s, R, n - 1, p)
        BY <1>2, <1>3, <1>5, <2>0, ReadPrefix
    <2>2. /\ b \in Nat /\ R[n][2] = -1 /\ s.infinite /\ P < b
          /\ \A c \in Universe : P < c => (c \in Bits(s) <=> b <= c)
        BY <1>5 DEF Open
    <2>3. R[n] = <<b, -1>>
        <3>1. R[n] \in Int \X Int
            BY <1>2, <2>0
        <3> QED BY <2>2, <3>1
    <2>4. r = read_range(p, <<b, -1>>)
        BY <1>3, <2>0, <2>3
    <2>5. p \in Bitmap /\ Bits(p) = {c \in Bits(s) : c <= P} /\ p.count = WordsRead(R, n - 1)
        BY <2>0, <2>1 DEF ReadInv
    <2>6. r \in Bitmap /\ (b <= Limit(p) => Bits(r) = Bits(p) \cup {c \in Universe : b <= c})
        BY <2>2, <2>4, <2>5, OpenRangeFrom
    <2>7. OpenRangeReadable(s) => b <= Limit(p)
        <3>1. WordsRead(R, n - 1) = IF n < 2 THEN 1 ELSE INDEX(R[n - 1][2]) + 1
            <4>1. n \in Nat /\ n >= 1
                BY <1>2, <2>0
            <4> HIDE DEF n
            <4>2. CASE n = 1
                BY <4>2 DEF WordsRead
            <4>3. CASE n # 1
                <5>1. ~(n - 1 = 0) /\ ~(n < 2)
                    BY <4>1, <4>3
                <5> QED BY <5>1 DEF WordsRead
            <4> QED BY <4>2, <4>3
        <3> QED BY <2>0, <2>2, <2>5, <2>r, <3>1 DEF Limit
    <2>8. P \in Int
        <3>1. CASE n = 1
            BY <3>1 DEF EndBefore
        <3>2. CASE n # 1
            <4>1. n - 1 \in 1..(n - 1)
                BY <1>2, <2>0, <3>2
            <4>2. Closed(s, R, n - 1)
                BY <1>5, <4>1
            <4> QED BY <3>2, <4>2 DEF Closed, EndBefore
        <3> QED BY <3>1, <3>2
    <2>9. Bits(p) \cup {c \in Universe : b <= c} = Bits(s)
        <3> HIDE DEF P, b, p
        <3>1. ASSUME NEW c \in Universe
              PROVE  (c \in Bits(s) /\ c <= P) \/ b <= c <=> c \in Bits(s)
            <4>1. c \in Nat
                BY IndexTypes
            <4> QED BY <2>2, <2>8, <4>1
        <3>2. Bits(s) \subseteq Universe
            BY DEF Bits
        <3> QED BY <2>5, <3>1, <3>2
    <2> HIDE DEF P, b, p
    <2> QED BY <2>6, <2>7, <2>9 DEF r, R
<1> QED BY <1>1, <1>4, <1>5 DEF Listed

-----------------------------------------------------------------------------
(* The client that also reads strings.                                     *)

(* A string that is read leaves a bitmap, whatever bitmap it is read into. *)
LEMMA StringStepsType ==
    ASSUME TypeOK, [Next \/ NextString]_sets
    PROVE  TypeOK'
<1>1. CASE [Next]_sets
    BY <1>1, NextMaps
<1>2. ASSUME NEW h \in Handle, NEW t \in Bitmap, Becomes(h, t)
      PROVE  TypeOK'
    BY <1>2 DEF Becomes, TypeOK
<1>3. ASSUME NEW h \in Handle, Live(h)
      PROVE  sets[h] \in Bitmap
    BY <1>3 DEF TypeOK, Live
<1>4. ASSUME NEW h \in Handle, SscanfFails(h)
      PROVE  TypeOK'
    <2>1. zero(sets[h]) \in Bitmap
        BY <1>3, <1>4, ZeroFillDenote DEF SscanfFails
    <2> QED BY <1>2, <1>4, <2>1 DEF SscanfFails
<1>5. ASSUME NEW h \in Handle, NEW g \in Handle, Live(h), Live(g)
      PROVE  /\ sscanf(sets[h], snprintf(sets[g])) \in Bitmap
             /\ taskset_sscanf(sets[h], taskset_snprintf(sets[g])) \in Bitmap
             /\ list_sscanf(sets[h], list_snprintf(sets[g])) \in Bitmap
    <2>1. sets[h] \in Bitmap /\ sets[g] \in Bitmap
        BY <1>3, <1>5
    <2> QED BY <2>1, HwlocReadsBack, TasksetReadsBack, ListReadsBack
<1>6. ASSUME NEW h \in Handle, NEW g \in Handle,
             Sscanf(h, g) \/ TasksetSscanf(h, g) \/ ListSscanf(h, g)
      PROVE  TypeOK'
    <2>1. Live(h) /\ Live(g)
        BY <1>6 DEF Sscanf, TasksetSscanf, ListSscanf
    <2>2. CASE Sscanf(h, g)
        BY <1>2, <1>5, <2>1, <2>2 DEF Sscanf
    <2>3. CASE TasksetSscanf(h, g)
        BY <1>2, <1>5, <2>1, <2>3 DEF TasksetSscanf
    <2>4. CASE ListSscanf(h, g)
        BY <1>2, <1>5, <2>1, <2>4 DEF ListSscanf
    <2> QED BY <1>6, <2>2, <2>3, <2>4
<1>7. CASE NextString
    BY <1>4, <1>6, <1>7 DEF NextString
<1> QED BY <1>1, <1>7

(* HWLOC__BITMAP_CHECK holds of every bitmap also when some were read from *)
(* strings.                                                                *)
THEOREM StringsTypeCorrect == StringsSpec => []TypeOK
<1>1. Init => TypeOK
    BY DEF Init, TypeOK
<1>2. TypeOK /\ [Next \/ NextString]_sets => TypeOK'
    BY StringStepsType
<1> QED BY <1>1, <1>2, PTL DEF StringsSpec

(* Every bitmap that a client can build prints, in each of the formats of  *)
(* cpuset.c, a string that gives its indexes back to any bitmap it is read *)
(* into: for every width of a word and every width of a group and a digit  *)
(* that divides it.  In the list format this takes an open range that      *)
(* begins no later than the word after the words of the ranges before it.  *)
THEOREM StringsCorrect == StringsSpec => []StringsReadBack
<1>1. ASSUME TypeOK PROVE StringsReadBack
    <2>1. LiveBitmaps \subseteq Bitmap
        BY <1>1 DEF TypeOK, LiveBitmaps, Live
    <2>2. ASSUME NEW s \in LiveBitmaps, NEW t \in LiveBitmaps
          PROVE  /\ Bits(sscanf(t, snprintf(s))) = Bits(s)
                 /\ Bits(taskset_sscanf(t, taskset_snprintf(s))) = Bits(s)
                 /\ OpenRangeReadable(s) => Bits(list_sscanf(t, list_snprintf(s))) = Bits(s)
        <3>1. s \in Bitmap /\ t \in Bitmap
            BY <2>1
        <3> QED BY <3>1, HwlocReadsBack, TasksetReadsBack, ListReadsBack
    <2> QED BY <2>2 DEF StringsReadBack
<1> QED BY <1>1, StringsTypeCorrect, PTL

(* The queries answer for the set that the bitmap denotes also when some   *)
(* bitmaps were read from strings.                                         *)
THEOREM StringsQueriesCorrect == StringsSpec => []QueriesExact
<1>1. TypeOK => QueriesExact
    BY QueriesHold
<1> QED BY <1>1, StringsTypeCorrect, PTL

(* The calls that combine bitmaps do what bitmap.h says of each also when  *)
(* some bitmaps were read from strings.                                    *)
THEOREM StringsCombiningCorrect == StringsSpec => CombiningExact
<1>1. TypeOK /\ [Next \/ NextString]_sets
        => [\A r, a, b \in Handle : CombiningMap(r, a, b)]_sets
    BY CombiningMaps
<1> QED BY <1>1, StringsTypeCorrect, PTL DEF StringsSpec, CombiningExact
=============================================================================
