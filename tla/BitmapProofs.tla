---------------------------- MODULE BitmapProofs ----------------------------
(***************************************************************************)
(* Theorems about Bitmap, for every word width, every set of handles and   *)
(* every bound on the number of words.                                     *)
(***************************************************************************)
EXTENDS Bitmap, WellFoundedInduction, TLAPS

-----------------------------------------------------------------------------
(* Arithmetic of words and indexes.                                        *)

(* An index is its word number times the width, plus its bit.              *)
LEMMA IndexSplit ==
    ASSUME NEW c \in Nat
    PROVE  /\ INDEX(c) \in Nat
           /\ CPU_ULBIT(c) \in Bit
           /\ c = HWLOC_BITS_PER_LONG * INDEX(c) + CPU_ULBIT(c)
BY SizeAssumption DEF INDEX, CPU_ULBIT, Bit

(* Word numbers order like indexes.                                        *)
LEMMA IndexBelow ==
    ASSUME NEW c \in Nat, NEW n \in Nat
    PROVE  c < n * HWLOC_BITS_PER_LONG <=> INDEX(c) < n
<1> DEFINE W == HWLOC_BITS_PER_LONG
           q == INDEX(c)
           r == CPU_ULBIT(c)
<1>0. W \in Nat /\ W > 0 /\ r \in Bit
    BY IndexSplit, SizeAssumption
<1>1. /\ W \in Nat /\ W > 0 /\ q \in Nat /\ r \in Nat /\ r < W /\ c = W * q + r
    BY <1>0, IndexSplit DEF Bit
<1> HIDE DEF W, q, r
<1>2. ASSUME q < n PROVE c < n * W
    <2>1. q + 1 <= n
        BY <1>1, <1>2
    <2>2. PICK k \in Nat : n = q + 1 + k
        <3>1. n - (q + 1) \in Nat
            BY <1>1, <2>1
        <3> QED BY <3>1, <1>1
    <2>3. n * W = q * W + W + k * W /\ k * W \in Nat /\ q * W = W * q
        BY <1>1, <2>2, SMTT(30)
    <2> QED BY <1>1, <2>3
<1>3. ASSUME ~(q < n) PROVE ~(c < n * W)
    <2>2. PICK k \in Nat : q = n + k
        <3>1. q - n \in Nat
            BY <1>1, <1>3
        <3> QED BY <3>1, <1>1
    <2>3. W * q = n * W + k * W /\ k * W \in Nat /\ n * W \in Nat
        BY <1>1, <2>2, SMTT(30)
    <2> QED BY <1>1, <2>3
<1> QED BY <1>2, <1>3 DEF W, q

(* A non-empty set of naturals has a least element, and MinOf gives it.    *)
LEMMA MinOfNat ==
    ASSUME NEW S, S \subseteq Nat, S # {}
    PROVE  MinOf(S) \in S /\ \A y \in S : MinOf(S) <= y
<1>1. \E x \in S : \A y \in S : ~(<<y, x>> \in OpToRel(<, Nat))
    BY NatLessThanWellFounded, WFMin, Zenon
<1>2. \A x, y \in Nat : ~(<<y, x>> \in OpToRel(<, Nat)) => x <= y
    BY DEF OpToRel
<1>3. \E x \in S : \A y \in S : x <= y
    BY <1>1, <1>2, Zenon
<1> QED BY <1>3, Zenon DEF MinOf

(* The size that enlarge_by_ulongs asks for holds the words needed.        *)
LEMMA RoundUpHolds ==
    ASSUME NEW n \in Nat, n <= UlongsLimit
    PROVE  RoundUp(n) \in Nat /\ n <= RoundUp(n)
<1> DEFINE P == {t \in PowersOfTwo : n <= t}
<1>a. UlongsLimit \in PowersOfTwo
    BY SMT DEF PowersOfTwo, UlongsLimit
<1>1. UlongsLimit \in P
    BY <1>a, Zenon
<1>2. P \subseteq Nat
    BY SMT DEF PowersOfTwo
<1> HIDE DEF P
<1>3. MinOf(P) \in P
    BY <1>1, <1>2, MinOfNat
<1>4. RoundUp(n) \in P
    BY <1>3 DEF RoundUp, P
<1>5. \A t \in P : n <= t
    BY DEF P
<1> QED BY <1>2, <1>4, <1>5, Zenon

-----------------------------------------------------------------------------
(* Type correctness, operation by operation.                               *)

WordSeq(n) == [0..(n - 1) -> SUBSET Bit]

(* The fields of a bitmap.                                                 *)
LEMMA BitmapFields ==
    ASSUME NEW s \in Bitmap
    PROVE  /\ s = [ulongs |-> s.ulongs, count |-> s.count,
                   allocated |-> s.allocated, infinite |-> s.infinite]
           /\ s.count \in Nat /\ 1 <= s.count /\ s.count <= MaxUlongs
           /\ s.ulongs \in WordSeq(s.count)
           /\ s.allocated \in Nat /\ s.count <= s.allocated
           /\ s.infinite \in BOOLEAN
BY SizeAssumption DEF Bitmap, WordSeq

(* Four fields of the right types make a bitmap.                           *)
LEMMA MakeBitmap ==
    ASSUME NEW n \in Nat, 1 <= n, n <= MaxUlongs, NEW u \in WordSeq(n),
           NEW a \in Nat, n <= a, NEW inf \in BOOLEAN
    PROVE  [ulongs |-> u, count |-> n, allocated |-> a, infinite |-> inf] \in Bitmap
<1>1. n \in 1..MaxUlongs
    BY SizeAssumption
<1>2. u \in UNION {[0..(m - 1) -> SUBSET Bit] : m \in 1..MaxUlongs}
    BY <1>1, Zenon DEF WordSeq
<1> QED BY <1>1, <1>2 DEF Bitmap, WordSeq

(* Every word that can be read is a set of bits.                           *)
LEMMA ReadType ==
    ASSUME NEW s \in Bitmap, NEW i \in Nat
    PROVE  READULONG(s, i) \in SUBSET Bit
BY BitmapFields DEF READULONG, WordSeq, FULL, ZERO

(* enlarge_by_ulongs makes room for n words.                               *)
LEMMA EnlargeHolds ==
    ASSUME NEW s \in Bitmap, NEW n \in Nat, 1 <= n, n <= MaxUlongs
    PROVE  enlarge_by_ulongs(s, n) \in Nat /\ n <= enlarge_by_ulongs(s, n)
<1>1. RoundUp(n) \in Nat /\ n <= RoundUp(n)
    <2>1. UlongsLimit \in Nat
        BY SMT DEF UlongsLimit
    <2>2. n <= UlongsLimit
        BY <2>1, SizeAssumption
    <2> QED BY <2>2, RoundUpHolds
<1>2. s.allocated \in Nat
    BY BitmapFields
<1> QED BY <1>1, <1>2 DEF enlarge_by_ulongs

(* A reset to n words gives a bitmap of exactly those words.               *)
LEMMA ResetType ==
    ASSUME NEW s \in Bitmap, NEW n \in Nat, 1 <= n, n <= MaxUlongs,
           NEW u \in WordSeq(n), NEW inf \in BOOLEAN
    PROVE  reset_by_ulongs(s, n, u, inf) \in Bitmap
<1>1. enlarge_by_ulongs(s, n) \in Nat /\ n <= enlarge_by_ulongs(s, n)
    BY EnlargeHolds
<1> QED BY <1>1, MakeBitmap DEF reset_by_ulongs

(* A realloc keeps every word that can be read: the new ones are filled    *)
(* from the infinite flag.                                                 *)
LEMMA ReallocKeeps ==
    ASSUME NEW s \in Bitmap, NEW n \in Nat, 1 <= n, n <= MaxUlongs
    PROVE  LET r == realloc_by_ulongs(s, n)
           IN  /\ r \in Bitmap
               /\ r.infinite = s.infinite
               /\ r.count = Larger(n, s.count)
               /\ \A i \in Nat : READULONG(r, i) = READULONG(s, i)
<1> DEFINE r == realloc_by_ulongs(s, n)
<1>0. s.count \in Nat /\ s.infinite \in BOOLEAN
    BY BitmapFields
<1>1. CASE n <= s.count
    BY <1>0, <1>1 DEF realloc_by_ulongs, Larger
<1>2. CASE ~(n <= s.count)
    <2> DEFINE u == [i \in 0..(n - 1) |-> READULONG(s, i)]
    <2>1. r = [ulongs |-> u, count |-> n, allocated |-> enlarge_by_ulongs(s, n),
               infinite |-> s.infinite]
        BY <1>2 DEF realloc_by_ulongs
    <2>2. \A i \in 0..(n - 1) : i \in Nat
        OBVIOUS
    <2>3. u \in WordSeq(n)
        BY <2>2, ReadType DEF WordSeq
    <2> HIDE DEF u, r
    <2>4. r \in Bitmap
        BY <1>0, <2>1, <2>3, EnlargeHolds, MakeBitmap
    <2>5. r.infinite = s.infinite /\ r.count = n /\ r.ulongs = u
        BY <2>1
    <2>6. ASSUME NEW i \in Nat PROVE READULONG(r, i) = READULONG(s, i)
        <3>1. CASE i < n
            <4>1. u[i] = READULONG(s, i)
                BY <3>1 DEF u
            <4> QED BY <3>1, <4>1, <2>5 DEF READULONG
        <3>2. CASE ~(i < n)
            BY <3>2, <2>5, <1>0, <1>2 DEF READULONG
        <3> QED BY <3>1, <3>2
    <2> QED BY <1>0, <1>2, <2>4, <2>5, <2>6 DEF r, Larger
<1> QED BY <1>1, <1>2

(* Storing word i, after the realloc that makes it valid, changes the word *)
(* that is read at i and no other.                                         *)
LEMMA StoreWord ==
    ASSUME NEW s \in Bitmap, NEW i \in Nat, i < MaxUlongs, NEW w \in SUBSET Bit
    PROVE  /\ Store(s, i, w) \in Bitmap
           /\ Store(s, i, w).infinite = s.infinite
           /\ \A j \in Nat : READULONG(Store(s, i, w), j)
                                = IF j = i THEN w ELSE READULONG(s, j)
<1> DEFINE r == realloc_by_ulongs(s, i + 1)
           u == [j \in 0..(r.count - 1) |-> IF j = i THEN w ELSE r.ulongs[j]]
           t == Store(s, i, w)
<1>1. i + 1 \in Nat /\ 1 <= i + 1 /\ i + 1 <= MaxUlongs
    BY SizeAssumption
<1>2. /\ r \in Bitmap /\ r.infinite = s.infinite
      /\ r.count = Larger(i + 1, s.count)
      /\ \A j \in Nat : READULONG(r, j) = READULONG(s, j)
    BY <1>1, ReallocKeeps
<1>3. t = [r EXCEPT !.ulongs = u]
    BY DEF Store
<1> HIDE DEF r
<1>4. /\ r.count \in Nat /\ i < r.count /\ r.ulongs \in WordSeq(r.count)
      /\ r.infinite \in BOOLEAN
      /\ r.allocated \in Nat /\ r.count <= r.allocated /\ r.count <= MaxUlongs /\ 1 <= r.count
    <2>1. s.count \in Nat
        BY BitmapFields
    <2>2. i < Larger(i + 1, s.count)
        BY <2>1 DEF Larger
    <2> QED BY <1>2, <2>2, BitmapFields
<1>5. u \in WordSeq(r.count)
    BY <1>4 DEF WordSeq
<1>6. t = [ulongs |-> u, count |-> r.count, allocated |-> r.allocated, infinite |-> r.infinite]
    <2>1. r = [ulongs |-> r.ulongs, count |-> r.count,
               allocated |-> r.allocated, infinite |-> r.infinite]
        BY <1>2, BitmapFields
    <2> HIDE DEF u, t
    <2> QED BY <2>1, <1>3
<1>7. \A j \in Nat : j < r.count => u[j] = IF j = i THEN w ELSE r.ulongs[j]
    BY <1>4
<1> HIDE DEF u, t
<1>8. t \in Bitmap
    BY <1>4, <1>5, <1>6, MakeBitmap
<1>9. t.ulongs = u /\ t.count = r.count /\ t.infinite = r.infinite
    BY <1>6
<1>10. ASSUME NEW j \in Nat
       PROVE  READULONG(t, j) = IF j = i THEN w ELSE READULONG(r, j)
    BY <1>4, <1>7, <1>9 DEF READULONG
<1> QED BY <1>2, <1>8, <1>9, <1>10 DEF t

(* New words and a new flag for the valid words of a bitmap.               *)
LEMMA RewriteWords ==
    ASSUME NEW r \in Bitmap, NEW u \in WordSeq(r.count), NEW inf \in BOOLEAN,
           NEW t, t = [ulongs |-> u, count |-> r.count,
                       allocated |-> r.allocated, infinite |-> inf]
    PROVE  /\ t \in Bitmap
           /\ \A j \in Nat : READULONG(t, j) =
                  IF j < r.count THEN u[j] ELSE IF inf THEN FULL ELSE ZERO
<1>1. t \in Bitmap
    BY BitmapFields, MakeBitmap
<1>2. t.ulongs = u /\ t.count = r.count /\ t.infinite = inf
    OBVIOUS
<1> QED BY <1>1, <1>2 DEF READULONG

(* What a reset bitmap reads as.                                           *)
LEMMA ResetReads ==
    ASSUME NEW s, NEW n, NEW u, NEW inf, NEW j
    PROVE  READULONG(reset_by_ulongs(s, n, u, inf), j)
              = IF j < n THEN u[j] ELSE IF inf THEN FULL ELSE ZERO
BY DEF READULONG, reset_by_ulongs

-----------------------------------------------------------------------------
(* Indexes against words.                                                  *)

(* Indexes of the universe and of the clients have words and bits.         *)
LEMMA IndexTypes ==
    /\ \A c \in Universe : c \in Nat /\ INDEX(c) \in Nat /\ CPU_ULBIT(c) \in Bit
                           /\ INDEX(c) <= MaxUlongs
    /\ \A c \in Cpu : c \in Nat /\ c \in Universe /\ INDEX(c) \in Nat
                      /\ INDEX(c) < MaxUlongs
<1> DEFINE W == HWLOC_BITS_PER_LONG
<1>1. W \in Nat /\ W > 0 /\ MaxUlongs \in Nat
    BY SizeAssumption
<1>2. (MaxUlongs + 1) * W = MaxUlongs * W + W /\ MaxUlongs * W \in Nat
    BY <1>1
<1>3. ASSUME NEW c \in Universe
      PROVE  c \in Nat /\ INDEX(c) \in Nat /\ CPU_ULBIT(c) \in Bit /\ INDEX(c) <= MaxUlongs
    <2>1. c \in Nat /\ c < (MaxUlongs + 1) * W
        BY <1>1, <1>2 DEF Universe
    <2>2. INDEX(c) < MaxUlongs + 1 /\ INDEX(c) \in Nat /\ CPU_ULBIT(c) \in Bit
        BY <1>1, <2>1, IndexBelow, IndexSplit
    <2> QED BY <1>1, <2>1, <2>2
<1>4. ASSUME NEW c \in Cpu
      PROVE  c \in Nat /\ c \in Universe /\ INDEX(c) \in Nat /\ INDEX(c) < MaxUlongs
    <2>1. c \in Nat /\ c < MaxUlongs * W
        BY <1>1, <1>2 DEF Cpu
    <2>2. INDEX(c) < MaxUlongs /\ INDEX(c) \in Nat
        BY <1>1, <2>1, IndexBelow, IndexSplit
    <2>3. c \in Universe
        BY <1>1, <1>2, <2>1 DEF Universe
    <2> QED BY <2>1, <2>2, <2>3
<1> QED BY <1>3, <1>4

(* Two indexes compare first by their words, then by their bits.           *)
LEMMA IndexOrder ==
    ASSUME NEW c \in Nat, NEW d \in Nat
    PROVE  c <= d <=> \/ INDEX(c) < INDEX(d)
                      \/ INDEX(c) = INDEX(d) /\ CPU_ULBIT(c) <= CPU_ULBIT(d)
<1> DEFINE W == HWLOC_BITS_PER_LONG
<1>1. W \in Nat /\ W > 0 /\ CPU_ULBIT(c) \in Bit /\ CPU_ULBIT(d) \in Bit
    BY IndexSplit, SizeAssumption
<1>2. /\ INDEX(c) \in Nat /\ INDEX(d) \in Nat
      /\ CPU_ULBIT(c) \in Nat /\ CPU_ULBIT(d) \in Nat
      /\ c = W * INDEX(c) + CPU_ULBIT(c) /\ d = W * INDEX(d) + CPU_ULBIT(d)
    BY <1>1, IndexSplit DEF Bit
<1>3. CASE INDEX(c) < INDEX(d)
    <2>1. c < INDEX(d) * W
        BY <1>2, <1>3, IndexBelow
    <2>2. INDEX(d) * W <= d
        BY <1>1, <1>2
    <2>3. INDEX(d) * W \in Nat
        BY <1>1, <1>2
    <2> QED BY <1>3, <2>1, <2>2, <2>3
<1>4. CASE INDEX(d) < INDEX(c)
    <2>1. d < INDEX(c) * W
        BY <1>2, <1>4, IndexBelow
    <2>2. INDEX(c) * W <= c
        BY <1>1, <1>2
    <2>3. INDEX(c) * W \in Nat
        BY <1>1, <1>2
    <2> QED BY <1>2, <1>4, <2>1, <2>2, <2>3
<1>5. CASE INDEX(c) = INDEX(d)
    <2>1. W * INDEX(c) \in Nat
        BY <1>1, <1>2
    <2> QED BY <1>2, <1>5, <2>1
<1> QED BY <1>2, <1>3, <1>4, <1>5

(* An index is determined by its word and its bit.                         *)
LEMMA IndexUnique ==
    ASSUME NEW c \in Nat, NEW d \in Nat,
           INDEX(c) = INDEX(d), CPU_ULBIT(c) = CPU_ULBIT(d)
    PROVE  c = d
BY IndexSplit

(* RangeMask selects the bits of the indexes from b to e.                  *)
LEMMA RangeMaskExact ==
    ASSUME NEW b \in Nat, NEW e \in Nat, NEW c \in Nat
    PROVE  CPU_ULBIT(c) \in RangeMask(INDEX(c), b, e) <=> b <= c /\ c <= e
<1> DEFINE W == HWLOC_BITS_PER_LONG
<1>1. /\ INDEX(c) \in Nat /\ INDEX(b) \in Nat /\ INDEX(e) \in Nat
      /\ CPU_ULBIT(c) \in Bit /\ CPU_ULBIT(b) \in Bit /\ CPU_ULBIT(e) \in Bit
      /\ W \in Nat /\ W > 0
    BY IndexSplit, SizeAssumption
<1>2. /\ CPU_ULBIT(c) \in Nat /\ CPU_ULBIT(b) \in Nat /\ CPU_ULBIT(e) \in Nat
      /\ CPU_ULBIT(c) <= W - 1
    BY <1>1 DEF Bit
<1>3. /\ b <= c <=> \/ INDEX(b) < INDEX(c)
                    \/ INDEX(b) = INDEX(c) /\ CPU_ULBIT(b) <= CPU_ULBIT(c)
      /\ c <= e <=> \/ INDEX(c) < INDEX(e)
                    \/ INDEX(c) = INDEX(e) /\ CPU_ULBIT(c) <= CPU_ULBIT(e)
    BY IndexOrder
<1> QED BY <1>1, <1>2, <1>3 DEF RangeMask, ZERO

-----------------------------------------------------------------------------
(* What every operation denotes.                                           *)

(* A bitmap reset to n words u and the flag inf.                           *)
LEMMA ResetDenotes ==
    ASSUME NEW s \in Bitmap, NEW n \in Nat, 1 <= n, n <= MaxUlongs,
           NEW u \in WordSeq(n), NEW inf \in BOOLEAN
    PROVE  /\ reset_by_ulongs(s, n, u, inf) \in Bitmap
           /\ \A c \in Universe : isset(reset_by_ulongs(s, n, u, inf), c) <=>
                  IF INDEX(c) < n THEN CPU_ULBIT(c) \in u[INDEX(c)] ELSE inf
<1>1. reset_by_ulongs(s, n, u, inf) \in Bitmap
    BY ResetType
<1>2. ASSUME NEW c \in Universe
      PROVE  isset(reset_by_ulongs(s, n, u, inf), c) <=>
                  IF INDEX(c) < n THEN CPU_ULBIT(c) \in u[INDEX(c)] ELSE inf
    <2>1. CPU_ULBIT(c) \in Bit
        BY IndexTypes
    <2>2. READULONG(reset_by_ulongs(s, n, u, inf), INDEX(c))
             = IF INDEX(c) < n THEN u[INDEX(c)] ELSE IF inf THEN Bit ELSE {}
        BY ResetReads DEF FULL, ZERO
    <2> QED BY <2>1, <2>2 DEF isset
<1> QED BY <1>1, <1>2

(* A single word w, and the flag.                                          *)
LEMMA OneWordDenotes ==
    ASSUME NEW s \in Bitmap, NEW w \in SUBSET Bit, NEW inf \in BOOLEAN
    PROVE  LET t == reset_by_ulongs(s, 1, [i \in 0..0 |-> w], inf)
           IN  /\ t \in Bitmap
               /\ \A c \in Universe :
                      isset(t, c) <=> IF INDEX(c) = 0 THEN CPU_ULBIT(c) \in w ELSE inf
<1> DEFINE u == [i \in 0..0 |-> w]
<1>1. u \in WordSeq(1) /\ u[0] = w
    BY DEF WordSeq
<1>2. 1 \in Nat /\ 1 <= MaxUlongs
    BY SizeAssumption
<1> HIDE DEF u
<1>3. \A c \in Universe : INDEX(c) < 1 <=> INDEX(c) = 0
    BY IndexTypes
<1>4. /\ reset_by_ulongs(s, 1, u, inf) \in Bitmap
      /\ \A c \in Universe : isset(reset_by_ulongs(s, 1, u, inf), c) <=>
                  IF INDEX(c) < 1 THEN CPU_ULBIT(c) \in u[INDEX(c)] ELSE inf
    BY <1>1, <1>2, ResetDenotes
<1> QED BY <1>1, <1>3, <1>4 DEF u

(* zero and fill.                                                          *)
LEMMA ZeroFillDenote ==
    ASSUME NEW s \in Bitmap
    PROVE  /\ zero(s) \in Bitmap /\ Bits(zero(s)) = {}
           /\ fill(s) \in Bitmap /\ Bits(fill(s)) = Universe
<1>1. ZERO \in SUBSET Bit /\ FULL \in SUBSET Bit
    BY DEF ZERO, FULL
<1>2. /\ zero(s) \in Bitmap
      /\ \A c \in Universe :
            isset(zero(s), c) <=> IF INDEX(c) = 0 THEN CPU_ULBIT(c) \in ZERO ELSE FALSE
    BY <1>1, OneWordDenotes DEF zero
<1>3. /\ fill(s) \in Bitmap
      /\ \A c \in Universe :
            isset(fill(s), c) <=> IF INDEX(c) = 0 THEN CPU_ULBIT(c) \in FULL ELSE TRUE
    BY <1>1, OneWordDenotes DEF fill
<1>4. \A c \in Universe : ~isset(zero(s), c) /\ isset(fill(s), c)
    BY <1>2, <1>3, IndexTypes DEF ZERO, FULL
<1> QED BY <1>2, <1>3, <1>4 DEF Bits

(* alloc and alloc_full.                                                   *)
LEMMA AllocDenote ==
    /\ alloc \in Bitmap /\ Bits(alloc) = {}
    /\ alloc_full \in Bitmap /\ Bits(alloc_full) = Universe
<1>1. /\ 1 \in Nat /\ 1 <= 1 /\ 1 <= MaxUlongs
      /\ InitialUlongs \in Nat /\ 1 <= InitialUlongs
    BY SizeAssumption
<1> DEFINE z == [i \in 0..0 |-> ZERO]
           f == [i \in 0..0 |-> FULL]
<1>2. z \in WordSeq(1) /\ f \in WordSeq(1)
    BY DEF WordSeq, ZERO, FULL
<1>3. alloc \in Bitmap /\ alloc_full \in Bitmap
    <2> HIDE DEF z, f
    <2>1. /\ [ulongs |-> z, count |-> 1, allocated |-> InitialUlongs, infinite |-> FALSE] \in Bitmap
          /\ [ulongs |-> f, count |-> 1, allocated |-> InitialUlongs, infinite |-> TRUE] \in Bitmap
        BY <1>1, <1>2, MakeBitmap, Zenon
    <2> QED BY <2>1, Zenon DEF alloc, alloc_full, z, f
<1>4. \A c \in Universe : ~isset(alloc, c) /\ isset(alloc_full, c)
    <2> SUFFICES ASSUME NEW c \in Universe PROVE ~isset(alloc, c) /\ isset(alloc_full, c)
        OBVIOUS
    <2>1. INDEX(c) \in Nat /\ CPU_ULBIT(c) \in Bit
        BY IndexTypes
    <2>2. READULONG(alloc, INDEX(c)) = {} /\ READULONG(alloc_full, INDEX(c)) = Bit
        BY <2>1 DEF READULONG, alloc, alloc_full, ZERO, FULL
    <2> QED BY <2>1, <2>2 DEF isset
<1> QED BY <1>3, <1>4 DEF Bits

(* set and clr, inside and beyond the valid words.                         *)
LEMMA SetClrDenote ==
    ASSUME NEW s \in Bitmap, NEW cpu \in Cpu
    PROVE  /\ set(s, cpu) \in Bitmap /\ Bits(set(s, cpu)) = Bits(s) \cup {cpu}
           /\ clr(s, cpu) \in Bitmap /\ Bits(clr(s, cpu)) = Bits(s) \ {cpu}
<1> DEFINE x == INDEX(cpu)
           w == READULONG(s, x)
           b == CPU_ULBIT(cpu)
<1>1. /\ cpu \in Nat /\ cpu \in Universe /\ x \in Nat /\ x < MaxUlongs /\ b \in Bit
    BY IndexTypes
<1>2. w \in SUBSET Bit
    BY <1>1, ReadType
<1>3. w \cup {b} \in SUBSET Bit /\ w \ {b} \in SUBSET Bit
    BY <1>1, <1>2
<1>4. s.count \in Nat /\ (cpu >= Limit(s) <=> x >= s.count)
    <2>1. s.count \in Nat
        BY BitmapFields
    <2>2. cpu < s.count * HWLOC_BITS_PER_LONG <=> x < s.count
        BY <1>1, <2>1, IndexBelow
    <2>3. s.count * HWLOC_BITS_PER_LONG \in Nat
        BY <2>1, SizeAssumption
    <2> QED BY <1>1, <2>1, <2>2, <2>3 DEF Limit
<1>5. ASSUME NEW c \in Universe
      PROVE  /\ c \in Nat /\ INDEX(c) \in Nat /\ CPU_ULBIT(c) \in Bit
             /\ INDEX(c) = x /\ CPU_ULBIT(c) = b => c = cpu
    BY <1>1, IndexTypes, IndexUnique
<1>6. set(s, cpu) \in Bitmap /\ Bits(set(s, cpu)) = Bits(s) \cup {cpu}
    <2>1. CASE s.infinite /\ cpu >= Limit(s)
        <3>1. isset(s, cpu)
            BY <1>1, <1>4, <2>1 DEF isset, READULONG, FULL
        <3> QED BY <1>1, <2>1, <3>1 DEF set, Bits
    <2>2. CASE ~(s.infinite /\ cpu >= Limit(s))
        <3> DEFINE t == Store(s, x, w \cup {b})
        <3>1. set(s, cpu) = t
            BY <2>2 DEF set
        <3> HIDE DEF w
        <3>2. t \in Bitmap /\ \A j \in Nat :
                  READULONG(t, j) = IF j = x THEN w \cup {b} ELSE READULONG(s, j)
            BY <1>1, <1>3, StoreWord
        <3> HIDE DEF t
        <3>3. \A c \in Universe : isset(t, c) <=> isset(s, c) \/ c = cpu
            BY <1>1, <1>5, <3>2 DEF isset, w
        <3> QED BY <1>1, <3>1, <3>2, <3>3 DEF Bits
    <2> QED BY <2>1, <2>2
<1>7. clr(s, cpu) \in Bitmap /\ Bits(clr(s, cpu)) = Bits(s) \ {cpu}
    <2>1. CASE ~s.infinite /\ cpu >= Limit(s)
        <3>1. ~isset(s, cpu)
            BY <1>1, <1>4, <2>1 DEF isset, READULONG, ZERO
        <3> QED BY <1>1, <2>1, <3>1 DEF clr, Bits
    <2>2. CASE ~(~s.infinite /\ cpu >= Limit(s))
        <3> DEFINE t == Store(s, x, w \ {b})
        <3>1. clr(s, cpu) = t
            BY <2>2 DEF clr
        <3> HIDE DEF w
        <3>2. t \in Bitmap /\ \A j \in Nat :
                  READULONG(t, j) = IF j = x THEN w \ {b} ELSE READULONG(s, j)
            BY <1>1, <1>3, StoreWord
        <3> HIDE DEF t
        <3>3. \A c \in Universe : isset(t, c) <=> isset(s, c) /\ c # cpu
            BY <1>1, <1>5, <3>2 DEF isset, w
        <3> QED BY <1>1, <3>1, <3>2, <3>3 DEF Bits
    <2> QED BY <2>1, <2>2
<1> QED BY <1>6, <1>7

(* only and allbut.                                                        *)
LEMMA OnlyAllbutDenote ==
    ASSUME NEW s \in Bitmap, NEW cpu \in Cpu
    PROVE  /\ only(s, cpu) \in Bitmap /\ Bits(only(s, cpu)) = {cpu}
           /\ allbut(s, cpu) \in Bitmap /\ Bits(allbut(s, cpu)) = Universe \ {cpu}
<1> DEFINE x == INDEX(cpu)
           b == CPU_ULBIT(cpu)
           u == [i \in 0..x |-> IF i = x THEN {b} ELSE ZERO]
           v == [i \in 0..x |-> IF i = x THEN FULL \ {b} ELSE FULL]
<1>1. cpu \in Nat /\ cpu \in Universe /\ x \in Nat /\ x < MaxUlongs /\ b \in Bit
    BY IndexTypes
<1>2. x + 1 \in Nat /\ 1 <= x + 1 /\ x + 1 <= MaxUlongs /\ 0..x = 0..((x + 1) - 1)
    BY <1>1, SizeAssumption
<1>3. u \in WordSeq(x + 1) /\ v \in WordSeq(x + 1)
    BY <1>1, <1>2 DEF WordSeq, ZERO, FULL
<1>4. \A i \in Nat : i < x + 1 => /\ u[i] = IF i = x THEN {b} ELSE ZERO
                                  /\ v[i] = IF i = x THEN FULL \ {b} ELSE FULL
    BY <1>1
<1>5. /\ only(s, cpu) = reset_by_ulongs(s, x + 1, u, FALSE)
      /\ allbut(s, cpu) = reset_by_ulongs(s, x + 1, v, TRUE)
    BY DEF only, allbut
<1> HIDE DEF u, v, x, b
<1>6. /\ only(s, cpu) \in Bitmap /\ allbut(s, cpu) \in Bitmap
      /\ \A c \in Universe :
            /\ isset(only(s, cpu), c) <=>
                  IF INDEX(c) < x + 1 THEN CPU_ULBIT(c) \in u[INDEX(c)] ELSE FALSE
            /\ isset(allbut(s, cpu), c) <=>
                  IF INDEX(c) < x + 1 THEN CPU_ULBIT(c) \in v[INDEX(c)] ELSE TRUE
    BY <1>2, <1>3, <1>5, ResetDenotes, ZenonT(40)
<1>8. ASSUME NEW c \in Universe
      PROVE  /\ INDEX(c) \in Nat /\ CPU_ULBIT(c) \in Bit
             /\ INDEX(c) = x /\ CPU_ULBIT(c) = b <=> c = cpu
    BY <1>1, IndexTypes, IndexUnique DEF x, b
<1>9. \A c \in Universe : /\ isset(only(s, cpu), c) <=> c = cpu
                          /\ isset(allbut(s, cpu), c) <=> c # cpu
    BY <1>1, <1>4, <1>6, <1>8 DEF ZERO, FULL
<1> QED BY <1>1, <1>6, <1>9 DEF Bits

(* from_ulong, from_ith_ulong and set_ith_ulong: word i is replaced, the   *)
(* others are emptied or kept.                                             *)
LEMMA IthUlongDenote ==
    ASSUME NEW s \in Bitmap, NEW i \in Ulong, NEW m \in SUBSET Bit
    PROVE  LET S == {c \in Universe : INDEX(c) = i /\ CPU_ULBIT(c) \in m}
               R == {c \in Universe : INDEX(c) = i}
           IN  /\ from_ith_ulong(s, i, m) \in Bitmap
               /\ Bits(from_ith_ulong(s, i, m)) = S
               /\ set_ith_ulong(s, i, m) \in Bitmap
               /\ Bits(set_ith_ulong(s, i, m)) = (Bits(s) \ R) \cup S
               /\ from_ulong(s, m) \in Bitmap
               /\ Bits(from_ulong(s, m))
                      = {c \in Universe : INDEX(c) = 0 /\ CPU_ULBIT(c) \in m}
<1>1. i \in Nat /\ i < MaxUlongs /\ i + 1 \in Nat /\ 1 <= i + 1 /\ i + 1 <= MaxUlongs
    BY SizeAssumption DEF Ulong
<1> DEFINE u == [j \in 0..i |-> IF j = i THEN m ELSE ZERO]
<1>2. u \in WordSeq(i + 1)
    BY <1>1 DEF WordSeq, ZERO
<1>3. \A j \in Nat : j < i + 1 => u[j] = IF j = i THEN m ELSE ZERO
    BY <1>1
<1>4. from_ith_ulong(s, i, m) = reset_by_ulongs(s, i + 1, u, FALSE)
    BY DEF from_ith_ulong
<1> HIDE DEF u
<1>5. /\ from_ith_ulong(s, i, m) \in Bitmap
      /\ \A c \in Universe : isset(from_ith_ulong(s, i, m), c) <=>
             IF INDEX(c) < i + 1 THEN CPU_ULBIT(c) \in u[INDEX(c)] ELSE FALSE
    BY <1>1, <1>2, <1>4, ResetDenotes
<1>6. \A c \in Universe : isset(from_ith_ulong(s, i, m), c)
             <=> INDEX(c) = i /\ CPU_ULBIT(c) \in m
    BY <1>1, <1>3, <1>5, IndexTypes DEF ZERO
<1>7. /\ set_ith_ulong(s, i, m) \in Bitmap
      /\ \A j \in Nat : READULONG(set_ith_ulong(s, i, m), j)
                            = IF j = i THEN m ELSE READULONG(s, j)
    BY <1>1, StoreWord DEF set_ith_ulong
<1>8. \A c \in Universe : isset(set_ith_ulong(s, i, m), c)
             <=> IF INDEX(c) = i THEN CPU_ULBIT(c) \in m ELSE isset(s, c)
    BY <1>7, IndexTypes DEF isset
<1>9. /\ from_ulong(s, m) \in Bitmap
      /\ \A c \in Universe : isset(from_ulong(s, m), c)
             <=> IF INDEX(c) = 0 THEN CPU_ULBIT(c) \in m ELSE FALSE
    BY OneWordDenotes DEF from_ulong
<1> QED BY <1>5, <1>6, <1>7, <1>8, <1>9 DEF Bits

(* Rewriting the words of realloc_by_ulongs(res, n): what the combining    *)
(* operations and the range operations leave behind.                       *)
LEMMA CombineDenotes ==
    ASSUME NEW res \in Bitmap, NEW s1 \in Bitmap, NEW s2 \in Bitmap, NEW inf \in BOOLEAN,
           NEW u, u \in [Words(res, s1, s2) -> SUBSET Bit]
    PROVE  LET n == Larger(res.count, Larger(s1.count, s2.count))
               t == Combine(res, s1, s2, u, inf)
           IN  /\ t \in Bitmap
               /\ n \in Nat /\ s1.count <= n /\ s2.count <= n
               /\ \A i \in Nat : READULONG(t, i) =
                      IF i < n THEN u[i] ELSE IF inf THEN FULL ELSE ZERO
<1> DEFINE m == Larger(s1.count, s2.count)
           n == Larger(res.count, m)
           r == realloc_by_ulongs(res, m)
           v == [i \in 0..(r.count - 1) |-> u[i]]
           t == Combine(res, s1, s2, u, inf)
<1>1. /\ s1.count \in Nat /\ s2.count \in Nat /\ res.count \in Nat
      /\ 1 <= s1.count /\ s1.count <= MaxUlongs /\ 1 <= s2.count /\ s2.count <= MaxUlongs
    BY BitmapFields
<1>2. m \in Nat /\ 1 <= m /\ m <= MaxUlongs /\ s1.count <= m /\ s2.count <= m
    BY <1>1 DEF Larger
<1> HIDE DEF m
<1>3. r \in Bitmap /\ r.count = Larger(m, res.count)
    BY <1>2, ReallocKeeps
<1>4. Larger(m, res.count) = n /\ n \in Nat /\ m <= n
    BY <1>1, <1>2 DEF Larger
<1>5. t = [r EXCEPT !.ulongs = v, !.infinite = inf]
    BY DEF Combine, m
<1>6. u \in [0..(n - 1) -> SUBSET Bit]
    BY DEF Words, m
<1> HIDE DEF r, n, t
<1>7. v \in WordSeq(r.count) /\ \A i \in Nat : i < n => v[i] = u[i]
    BY <1>3, <1>4, <1>6 DEF WordSeq
<1>8. t = [ulongs |-> v, count |-> r.count, allocated |-> r.allocated, infinite |-> inf]
    <2>1. r = [ulongs |-> r.ulongs, count |-> r.count,
               allocated |-> r.allocated, infinite |-> r.infinite]
        BY <1>3, BitmapFields
    <2> HIDE DEF v
    <2> QED BY <1>5, <2>1
<1> HIDE DEF v
<1>9. t \in Bitmap /\ \A i \in Nat : READULONG(t, i) =
          IF i < r.count THEN v[i] ELSE IF inf THEN FULL ELSE ZERO
    BY <1>3, <1>7, <1>8, RewriteWords
<1>10. \A i \in Nat : READULONG(t, i) =
          IF i < n THEN u[i] ELSE IF inf THEN FULL ELSE ZERO
    BY <1>3, <1>4, <1>7, <1>9
<1> QED BY <1>1, <1>2, <1>4, <1>9, <1>10 DEF n, m, t

(* Beyond the valid words, only the flag is read.                          *)
LEMMA ReadBeyond ==
    ASSUME NEW s, NEW i, ~(i < s.count)
    PROVE  READULONG(s, i) = IF s.infinite THEN FULL ELSE ZERO
BY DEF READULONG

(* t is a bitmap that denotes S.                                           *)
Denotes(t, S) == t \in Bitmap /\ Bits(t) = S

(* or, and, andnot, xor and not, whichever of the operands is the result.  *)
LEMMA CombiningDenote ==
    ASSUME NEW res \in Bitmap, NEW s1 \in Bitmap, NEW s2 \in Bitmap
    PROVE  /\ Denotes(or(res, s1, s2), Bits(s1) \cup Bits(s2))
           /\ Denotes(and(res, s1, s2), Bits(s1) \cap Bits(s2))
           /\ Denotes(andnot(res, s1, s2), Bits(s1) \ Bits(s2))
           /\ Denotes(xor(res, s1, s2),
                      (Bits(s1) \ Bits(s2)) \cup (Bits(s2) \ Bits(s1)))
           /\ Denotes(not(res, s1), Universe \ Bits(s1))
<1> DEFINE A(i) == READULONG(s1, i)
           B(i) == READULONG(s2, i)
           D == Words(res, s1, s2)
           E == Words(res, s1, s1)
           n == Larger(res.count, Larger(s1.count, s2.count))
           m == Larger(res.count, Larger(s1.count, s1.count))
<1>1. s1.count \in Nat /\ s2.count \in Nat /\ res.count \in Nat
    BY BitmapFields
<1>2. s1.infinite \in BOOLEAN /\ s2.infinite \in BOOLEAN
    BY BitmapFields
<1>3. /\ D \subseteq Nat /\ \A i \in Nat : i < n => i \in D
      /\ E \subseteq Nat /\ \A i \in Nat : i < m => i \in E
    BY <1>1 DEF Words, Larger
<1>4. \A i \in Nat : A(i) \in SUBSET Bit /\ B(i) \in SUBSET Bit
    BY ReadType
<1>5. \A i \in Nat : /\ ~(i < n) => /\ A(i) = IF s1.infinite THEN Bit ELSE {}
                                    /\ B(i) = IF s2.infinite THEN Bit ELSE {}
                     /\ ~(i < m) => A(i) = IF s1.infinite THEN Bit ELSE {}
    BY <1>1, ReadBeyond DEF Larger, FULL, ZERO
<1> HIDE DEF D, E, A, B, n, m
<1>6. /\ or(res, s1, s2) \in Bitmap
      /\ \A i \in Nat : READULONG(or(res, s1, s2), i) = A(i) \cup B(i)
    <2> DEFINE u == [i \in D |-> A(i) \cup B(i)]
               inf == s1.infinite \/ s2.infinite
    <2>1. u \in [D -> SUBSET Bit] /\ inf \in BOOLEAN
        BY <1>2, <1>3, <1>4
    <2>2. or(res, s1, s2) = Combine(res, s1, s2, u, inf)
        BY DEF or, D, A, B
    <2>3. \A i \in Nat : i < n => u[i] = A(i) \cup B(i)
        BY <1>3
    <2>4. \A i \in Nat : ~(i < n) => A(i) \cup B(i) = IF inf THEN Bit ELSE {}
        BY <1>2, <1>5
    <2> HIDE DEF u, inf
    <2>5. /\ or(res, s1, s2) \in Bitmap
          /\ \A i \in Nat : READULONG(or(res, s1, s2), i) =
                 IF i < n THEN u[i] ELSE IF inf THEN FULL ELSE ZERO
        BY <2>1, <2>2, CombineDenotes DEF D, n
    <2> QED BY <2>3, <2>4, <2>5 DEF FULL, ZERO
<1>7. /\ and(res, s1, s2) \in Bitmap
      /\ \A i \in Nat : READULONG(and(res, s1, s2), i) = A(i) \cap B(i)
    <2> DEFINE u == [i \in D |-> A(i) \cap B(i)]
               inf == s1.infinite /\ s2.infinite
    <2>1. u \in [D -> SUBSET Bit] /\ inf \in BOOLEAN
        BY <1>2, <1>3, <1>4
    <2>2. and(res, s1, s2) = Combine(res, s1, s2, u, inf)
        BY DEF and, D, A, B
    <2>3. \A i \in Nat : i < n => u[i] = A(i) \cap B(i)
        BY <1>3
    <2>4. \A i \in Nat : ~(i < n) => A(i) \cap B(i) = IF inf THEN Bit ELSE {}
        BY <1>2, <1>5
    <2> HIDE DEF u, inf
    <2>5. /\ and(res, s1, s2) \in Bitmap
          /\ \A i \in Nat : READULONG(and(res, s1, s2), i) =
                 IF i < n THEN u[i] ELSE IF inf THEN FULL ELSE ZERO
        BY <2>1, <2>2, CombineDenotes DEF D, n
    <2> QED BY <2>3, <2>4, <2>5 DEF FULL, ZERO
<1>8. /\ andnot(res, s1, s2) \in Bitmap
      /\ \A i \in Nat : READULONG(andnot(res, s1, s2), i) = A(i) \ B(i)
    <2> DEFINE u == [i \in D |-> A(i) \ B(i)]
               inf == s1.infinite /\ ~s2.infinite
    <2>1. u \in [D -> SUBSET Bit] /\ inf \in BOOLEAN
        BY <1>2, <1>3, <1>4
    <2>2. andnot(res, s1, s2) = Combine(res, s1, s2, u, inf)
        BY DEF andnot, D, A, B
    <2>3. \A i \in Nat : i < n => u[i] = A(i) \ B(i)
        BY <1>3
    <2>4. \A i \in Nat : ~(i < n) => A(i) \ B(i) = IF inf THEN Bit ELSE {}
        BY <1>2, <1>5
    <2> HIDE DEF u, inf
    <2>5. /\ andnot(res, s1, s2) \in Bitmap
          /\ \A i \in Nat : READULONG(andnot(res, s1, s2), i) =
                 IF i < n THEN u[i] ELSE IF inf THEN FULL ELSE ZERO
        BY <2>1, <2>2, CombineDenotes DEF D, n
    <2> QED BY <2>3, <2>4, <2>5 DEF FULL, ZERO
<1>9. /\ xor(res, s1, s2) \in Bitmap
      /\ \A i \in Nat : READULONG(xor(res, s1, s2), i) = (A(i) \ B(i)) \cup (B(i) \ A(i))
    <2> DEFINE u == [i \in D |-> (A(i) \ B(i)) \cup (B(i) \ A(i))]
               inf == s1.infinite # s2.infinite
    <2>1. u \in [D -> SUBSET Bit] /\ inf \in BOOLEAN
        BY <1>2, <1>3, <1>4
    <2>2. xor(res, s1, s2) = Combine(res, s1, s2, u, inf)
        BY DEF xor, D, A, B
    <2>3. \A i \in Nat : i < n => u[i] = (A(i) \ B(i)) \cup (B(i) \ A(i))
        BY <1>3
    <2>4. \A i \in Nat : ~(i < n) =>
              (A(i) \ B(i)) \cup (B(i) \ A(i)) = IF inf THEN Bit ELSE {}
        BY <1>2, <1>5
    <2> HIDE DEF u, inf
    <2>5. /\ xor(res, s1, s2) \in Bitmap
          /\ \A i \in Nat : READULONG(xor(res, s1, s2), i) =
                 IF i < n THEN u[i] ELSE IF inf THEN FULL ELSE ZERO
        BY <2>1, <2>2, CombineDenotes DEF D, n
    <2> QED BY <2>3, <2>4, <2>5 DEF FULL, ZERO
<1>10. /\ not(res, s1) \in Bitmap
       /\ \A i \in Nat : READULONG(not(res, s1), i) = Bit \ A(i)
    <2> DEFINE u == [i \in E |-> FULL \ A(i)]
               inf == ~s1.infinite
    <2>1. u \in [E -> SUBSET Bit] /\ inf \in BOOLEAN
        BY <1>2, <1>3, <1>4 DEF FULL
    <2>2. not(res, s1) = Combine(res, s1, s1, u, inf)
        BY DEF not, E, A
    <2>3. \A i \in Nat : i < m => u[i] = Bit \ A(i)
        BY <1>3 DEF FULL
    <2>4. \A i \in Nat : ~(i < m) => Bit \ A(i) = IF inf THEN Bit ELSE {}
        BY <1>2, <1>5
    <2> HIDE DEF u, inf
    <2>5. /\ not(res, s1) \in Bitmap
          /\ \A i \in Nat : READULONG(not(res, s1), i) =
                 IF i < m THEN u[i] ELSE IF inf THEN FULL ELSE ZERO
        BY <2>1, <2>2, CombineDenotes DEF E, m
    <2> QED BY <2>3, <2>4, <2>5 DEF FULL, ZERO
<1>11. \A c \in Universe : INDEX(c) \in Nat /\ CPU_ULBIT(c) \in Bit
    BY IndexTypes
<1>12. \A c \in Universe :
          /\ isset(s1, c) <=> CPU_ULBIT(c) \in A(INDEX(c))
          /\ isset(s2, c) <=> CPU_ULBIT(c) \in B(INDEX(c))
    BY DEF isset, A, B
<1>13. \A c \in Universe :
          /\ isset(or(res, s1, s2), c) <=> isset(s1, c) \/ isset(s2, c)
          /\ isset(and(res, s1, s2), c) <=> isset(s1, c) /\ isset(s2, c)
    BY <1>6, <1>7, <1>11, <1>12 DEF isset
<1>14. \A c \in Universe :
          /\ isset(andnot(res, s1, s2), c) <=> isset(s1, c) /\ ~isset(s2, c)
          /\ isset(xor(res, s1, s2), c) <=> ~(isset(s1, c) <=> isset(s2, c))
          /\ isset(not(res, s1), c) <=> ~isset(s1, c)
    BY <1>8, <1>9, <1>10, <1>11, <1>12 DEF isset
<1>15. /\ Bits(or(res, s1, s2)) = Bits(s1) \cup Bits(s2)
       /\ Bits(and(res, s1, s2)) = Bits(s1) \cap Bits(s2)
    BY <1>13, Zenon DEF Bits
<1>16. /\ Bits(andnot(res, s1, s2)) = Bits(s1) \ Bits(s2)
       /\ Bits(xor(res, s1, s2)) = (Bits(s1) \ Bits(s2)) \cup (Bits(s2) \ Bits(s1))
       /\ Bits(not(res, s1)) = Universe \ Bits(s1)
    BY <1>14, Zenon DEF Bits
<1> QED BY <1>6, <1>7, <1>8, <1>9, <1>10, <1>15, <1>16, Zenon DEF Denotes

(* The indexes below Limit(s) are those of valid words.                    *)
LEMMA BelowLimit ==
    ASSUME NEW s \in Bitmap, NEW c \in Nat
    PROVE  /\ Limit(s) \in Nat /\ 1 <= Limit(s)
           /\ c < Limit(s) <=> INDEX(c) < s.count
<1>1. s.count \in Nat /\ 1 <= s.count
    BY BitmapFields
<1>2. HWLOC_BITS_PER_LONG \in Nat /\ 1 <= HWLOC_BITS_PER_LONG
    BY SizeAssumption
<1>3. Limit(s) \in Nat /\ 1 <= Limit(s)
    BY <1>1, <1>2 DEF Limit
<1> QED BY <1>1, <1>3, IndexBelow DEF Limit

(* Adding, or removing, the mask of b..e to every word, after the realloc  *)
(* that makes the word of e valid, adds or removes exactly b..e.           *)
LEMMA MaskedDenotes ==
    ASSUME NEW s \in Bitmap, NEW b \in Nat, NEW e \in Nat, INDEX(e) < MaxUlongs
    PROVE  /\ AddMasks(s, b, e) \in Bitmap
           /\ \A c \in Universe : isset(AddMasks(s, b, e), c)
                                      <=> isset(s, c) \/ (b <= c /\ c <= e)
           /\ RemoveMasks(s, b, e) \in Bitmap
           /\ \A c \in Universe : isset(RemoveMasks(s, b, e), c)
                                      <=> isset(s, c) /\ ~(b <= c /\ c <= e)
<1> DEFINE x  == INDEX(e)
           r  == realloc_by_ulongs(s, x + 1)
           M(i) == RangeMask(i, b, e)
           u1 == [i \in 0..(r.count - 1) |-> r.ulongs[i] \cup M(i)]
           u2 == [i \in 0..(r.count - 1) |-> r.ulongs[i] \ M(i)]
           t1 == [r EXCEPT !.ulongs = u1]
           t2 == [r EXCEPT !.ulongs = u2]
<1>1. x \in Nat /\ x + 1 \in Nat /\ 1 <= x + 1 /\ x + 1 <= MaxUlongs
    BY IndexSplit, SizeAssumption
<1>2. s.count \in Nat
    BY BitmapFields
<1>3. /\ r \in Bitmap /\ r.infinite = s.infinite /\ r.count = Larger(x + 1, s.count)
      /\ \A i \in Nat : READULONG(r, i) = READULONG(s, i)
    BY <1>1, ReallocKeeps
<1>4. /\ r = [ulongs |-> r.ulongs, count |-> r.count,
              allocated |-> r.allocated, infinite |-> r.infinite]
      /\ r.count \in Nat /\ r.ulongs \in WordSeq(r.count) /\ r.infinite \in BOOLEAN
    BY <1>3, BitmapFields
<1>5. x < r.count
    BY <1>1, <1>2, <1>3 DEF Larger
<1>6. \A i \in Nat : M(i) \in SUBSET Bit /\ (~(i < r.count) => M(i) = {})
    <2>1. /\ INDEX(b) \in Nat /\ HWLOC_BITS_PER_LONG \in Nat
          /\ CPU_ULBIT(b) \in Bit /\ CPU_ULBIT(e) \in Bit /\ INDEX(e) \in Nat
        BY IndexSplit, SizeAssumption
    <2> QED BY <2>1, <1>4, <1>5 DEF RangeMask, ZERO, Bit
<1> HIDE DEF r, M
<1>7. /\ u1 \in WordSeq(r.count) /\ u2 \in WordSeq(r.count)
      /\ \A i \in Nat : i < r.count => /\ u1[i] = r.ulongs[i] \cup M(i)
                                       /\ u2[i] = r.ulongs[i] \ M(i)
    BY <1>4, <1>6 DEF WordSeq
<1> HIDE DEF u1, u2
<1>8. /\ t1 = [ulongs |-> u1, count |-> r.count, allocated |-> r.allocated, infinite |-> r.infinite]
      /\ t2 = [ulongs |-> u2, count |-> r.count, allocated |-> r.allocated, infinite |-> r.infinite]
    BY <1>4
<1> HIDE DEF t1, t2
<1>9. /\ t1 \in Bitmap
      /\ \A i \in Nat : READULONG(t1, i) =
             IF i < r.count THEN u1[i] ELSE IF r.infinite THEN FULL ELSE ZERO
      /\ t2 \in Bitmap
      /\ \A i \in Nat : READULONG(t2, i) =
             IF i < r.count THEN u2[i] ELSE IF r.infinite THEN FULL ELSE ZERO
    BY <1>3, <1>4, <1>7, <1>8, RewriteWords
<1>10. \A i \in Nat : READULONG(r, i) =
             IF i < r.count THEN r.ulongs[i] ELSE IF r.infinite THEN FULL ELSE ZERO
    BY DEF READULONG
<1>11. \A i \in Nat : /\ READULONG(t1, i) = READULONG(s, i) \cup M(i)
                      /\ READULONG(t2, i) = READULONG(s, i) \ M(i)
    BY <1>3, <1>6, <1>7, <1>9, <1>10
<1>12. ASSUME NEW c \in Universe
       PROVE  /\ INDEX(c) \in Nat
              /\ CPU_ULBIT(c) \in M(INDEX(c)) <=> b <= c /\ c <= e
    BY IndexTypes, RangeMaskExact DEF M
<1>13. \A c \in Universe :
          /\ isset(t1, c) <=> isset(s, c) \/ (b <= c /\ c <= e)
          /\ isset(t2, c) <=> isset(s, c) /\ ~(b <= c /\ c <= e)
    BY <1>11, <1>12 DEF isset
<1>14. AddMasks(s, b, e) = t1 /\ RemoveMasks(s, b, e) = t2
    BY DEF AddMasks, RemoveMasks, r, u1, u2, M, t1, t2, x
<1> QED BY <1>9, <1>13, <1>14

(* Changing the flag changes what is read beyond the valid words.          *)
LEMMA FlagDenotes ==
    ASSUME NEW s \in Bitmap, NEW inf \in BOOLEAN
    PROVE  LET t == [s EXCEPT !.infinite = inf]
           IN  /\ t \in Bitmap /\ t.infinite = inf /\ t.count = s.count
               /\ t.ulongs = s.ulongs
               /\ \A c \in Universe :
                     isset(t, c) <=> IF c < Limit(s) THEN isset(s, c) ELSE inf
<1> DEFINE t == [s EXCEPT !.infinite = inf]
<1>1. /\ s = [ulongs |-> s.ulongs, count |-> s.count,
              allocated |-> s.allocated, infinite |-> s.infinite]
      /\ s.count \in Nat /\ 1 <= s.count /\ s.count <= MaxUlongs
      /\ s.ulongs \in WordSeq(s.count)
      /\ s.allocated \in Nat /\ s.count <= s.allocated
    BY BitmapFields
<1>2. t = [ulongs |-> s.ulongs, count |-> s.count, allocated |-> s.allocated, infinite |-> inf]
    BY <1>1
<1>3. t.infinite = inf /\ t.count = s.count /\ t.ulongs = s.ulongs
    BY <1>2
<1>4. t \in Bitmap
    BY <1>1, <1>2, MakeBitmap
<1> HIDE DEF t
<1>5. ASSUME NEW c \in Universe
      PROVE  isset(t, c) <=> IF c < Limit(s) THEN isset(s, c) ELSE inf
    <2>1. c \in Nat /\ INDEX(c) \in Nat /\ CPU_ULBIT(c) \in Bit
        BY IndexTypes
    <2>2. c < Limit(s) <=> INDEX(c) < s.count
        BY <2>1, BelowLimit
    <2> QED BY <1>3, <2>1, <2>2 DEF isset, READULONG, FULL, ZERO
<1> QED BY <1>3, <1>4, <1>5 DEF t

(* Beyond the valid words of s every index is set, or none is.             *)
LEMMA BeyondLimit ==
    ASSUME NEW s \in Bitmap, NEW c \in Universe, Limit(s) <= c
    PROVE  isset(s, c) <=> s.infinite
<1>1. c \in Nat /\ INDEX(c) \in Nat /\ CPU_ULBIT(c) \in Bit
    BY IndexTypes
<1>2. ~(INDEX(c) < s.count)
    BY <1>1, BelowLimit
<1>3. s.infinite \in BOOLEAN
    BY BitmapFields
<1> QED BY <1>1, <1>2, <1>3 DEF isset, READULONG, FULL, ZERO

(* set_range and clr_range with an end.                                    *)
LEMMA RangeDenotes ==
    ASSUME NEW s \in Bitmap, NEW b \in Cpu, NEW e \in Cpu
    PROVE  LET R == {c \in Universe : b <= c /\ c <= e}
           IN  /\ set_range(s, b, e) \in Bitmap
               /\ Bits(set_range(s, b, e)) = Bits(s) \cup R
               /\ clr_range(s, b, e) \in Bitmap
               /\ Bits(clr_range(s, b, e)) = Bits(s) \ R
<1> DEFINE R == {c \in Universe : b <= c /\ c <= e}
           L == Limit(s)
<1>1. /\ b \in Nat /\ e \in Nat /\ INDEX(e) < MaxUlongs /\ e # -1
      /\ L \in Nat /\ 1 <= L /\ L - 1 \in Nat
    BY IndexTypes, BelowLimit
<1>2. INDEX(L - 1) < MaxUlongs
    <2>1. INDEX(L - 1) < s.count
        BY <1>1, BelowLimit
    <2>2. s.count \in Nat /\ s.count <= MaxUlongs /\ INDEX(L - 1) \in Nat
        BY <1>1, BitmapFields, IndexSplit
    <2> QED BY <2>1, <2>2, SizeAssumption
<1>3. s.infinite \in BOOLEAN /\ [s EXCEPT !.infinite = s.infinite] = s
    BY BitmapFields
<1>4. \A c \in Universe : c \in Nat /\ (L <= c => (isset(s, c) <=> s.infinite))
    BY IndexTypes, BeyondLimit
<1>5. set_range(s, b, e) \in Bitmap /\ Bits(set_range(s, b, e)) = Bits(s) \cup R
    <2> DEFINE end == IF s.infinite /\ e >= L THEN L - 1 ELSE e
               t == AddMasks(s, b, end)
    <2>1. set_range(s, b, e) = IF (s.infinite /\ b >= L) \/ end < b THEN s ELSE t
        <3>1. (s.infinite \/ e = -1) = s.infinite
            BY <1>1, <1>3
        <3>2. Truncate(s, e, s.infinite) = end
            BY <1>1 DEF Truncate
        <3> HIDE DEF L
        <3> QED BY <1>3, <3>1, <3>2 DEF set_range, L
    <2>2. end \in Nat /\ INDEX(end) < MaxUlongs
        BY <1>1, <1>2
    <2> HIDE DEF end
    <2>3. t \in Bitmap /\ \A c \in Universe : isset(t, c) <=> isset(s, c) \/ (b <= c /\ c <= end)
        BY <1>1, <2>2, MaskedDenotes
    <2> HIDE DEF t, L
    <2>4. \A c \in Universe : isset(set_range(s, b, e), c) <=> isset(s, c) \/ (b <= c /\ c <= e)
        BY <1>1, <1>4, <2>1, <2>2, <2>3 DEF end
    <2>5. set_range(s, b, e) \in Bitmap
        BY <2>1, <2>3
    <2> QED BY <2>4, <2>5 DEF Bits
<1>6. clr_range(s, b, e) \in Bitmap /\ Bits(clr_range(s, b, e)) = Bits(s) \ R
    <2> DEFINE end == IF ~s.infinite /\ e >= L THEN L - 1 ELSE e
               t == RemoveMasks(s, b, end)
    <2>1. clr_range(s, b, e) = IF (~s.infinite /\ b >= L) \/ end < b THEN s ELSE t
        <3>1. (s.infinite /\ e # -1) = s.infinite
            BY <1>1, <1>3
        <3>2. Truncate(s, e, ~s.infinite) = end
            BY <1>1 DEF Truncate
        <3> HIDE DEF L
        <3> QED BY <1>3, <3>1, <3>2 DEF clr_range, L
    <2>2. end \in Nat /\ INDEX(end) < MaxUlongs
        BY <1>1, <1>2
    <2> HIDE DEF end
    <2>3. t \in Bitmap /\ \A c \in Universe : isset(t, c) <=> isset(s, c) /\ ~(b <= c /\ c <= end)
        BY <1>1, <2>2, MaskedDenotes
    <2> HIDE DEF t, L
    <2>4. \A c \in Universe : isset(clr_range(s, b, e), c) <=> isset(s, c) /\ ~(b <= c /\ c <= e)
        BY <1>1, <1>4, <2>1, <2>2, <2>3 DEF end
    <2>5. clr_range(s, b, e) \in Bitmap
        BY <2>1, <2>3
    <2> QED BY <2>4, <2>5 DEF Bits
<1> QED BY <1>5, <1>6

(* set_range and clr_range without an end: exact when the range begins in  *)
(* the valid words or the tail already has the value asked for; otherwise  *)
(* the range starts at the end of the valid words, which is too low.       *)
LEMMA OpenRangeDenotes ==
    ASSUME NEW s \in Bitmap, NEW b \in Cpu
    PROVE  LET tail(k) == {c \in Universe : c >= k}
           IN  /\ set_range(s, b, -1) \in Bitmap
               /\ \E k \in 0..b : /\ k = b \/ Bits(s) \cap tail(k) = {}
                                  /\ Bits(set_range(s, b, -1)) = Bits(s) \cup tail(k)
               /\ clr_range(s, b, -1) \in Bitmap
               /\ \E k \in 0..b : /\ k = b \/ tail(k) \subseteq Bits(s)
                                  /\ Bits(clr_range(s, b, -1)) = Bits(s) \ tail(k)
<1> DEFINE tail(k) == {c \in Universe : c >= k}
           L == Limit(s)
<1>1. b \in Nat /\ L \in Nat /\ 1 <= L /\ L - 1 \in Nat
    BY IndexTypes, BelowLimit
<1>2. INDEX(L - 1) < MaxUlongs
    <2>1. INDEX(L - 1) < s.count
        BY <1>1, BelowLimit
    <2>2. s.count \in Nat /\ s.count <= MaxUlongs /\ INDEX(L - 1) \in Nat
        BY <1>1, BitmapFields, IndexSplit
    <2> QED BY <2>1, <2>2, SizeAssumption
<1>3. s.infinite \in BOOLEAN
    BY BitmapFields
<1>4. \A c \in Universe : c \in Nat /\ (L <= c => (isset(s, c) <=> s.infinite))
    BY IndexTypes, BeyondLimit
<1>5. /\ set_range(s, b, -1) \in Bitmap
      /\ \E k \in 0..b : /\ k = b \/ Bits(s) \cap tail(k) = {}
                         /\ Bits(set_range(s, b, -1)) = Bits(s) \cup tail(k)
    <2> DEFINE s1 == [s EXCEPT !.infinite = TRUE]
               t == AddMasks(s1, b, L - 1)
    <2>1. /\ s1 \in Bitmap /\ s1.infinite = TRUE /\ s1.count = s.count
          /\ \A c \in Universe : isset(s1, c) <=> IF c < L THEN isset(s, c) ELSE TRUE
        BY FlagDenotes
    <2>2. Limit(s1) = L
        BY <2>1 DEF Limit
    <2>3. set_range(s, b, -1) = IF b >= L \/ L - 1 < b THEN s1 ELSE t
        <3>1. (s.infinite \/ -1 = -1) = TRUE
            BY <1>3
        <3> HIDE DEF L
        <3>2. Truncate(s1, -1, s1.infinite) = L - 1
            BY <2>1, <2>2 DEF Truncate
        <3>3. [s EXCEPT !.infinite = s.infinite \/ -1 = -1] = s1
            BY <3>1
        <3> HIDE DEF s1
        <3> QED BY <2>1, <3>2, <3>3 DEF set_range, L
    <2> HIDE DEF L, s1
    <2>4. t \in Bitmap /\ \A c \in Universe : isset(t, c) <=> isset(s1, c) \/ (b <= c /\ c <= L - 1)
        BY <1>1, <1>2, <2>1, MaskedDenotes
    <2> HIDE DEF t
    <2>5. set_range(s, b, -1) \in Bitmap
        BY <2>1, <2>3, <2>4
    <2>6. CASE b < L
        <3>1. \A c \in Universe : isset(set_range(s, b, -1), c) <=> isset(s, c) \/ c >= b
            BY <1>1, <1>4, <2>1, <2>3, <2>4, <2>6
        <3>2. Bits(set_range(s, b, -1)) = Bits(s) \cup tail(b)
            BY <3>1 DEF Bits
        <3>3. b \in 0..b
            BY <1>1
        <3> QED BY <2>5, <3>2, <3>3
    <2>7. CASE ~(b < L) /\ s.infinite
        <3>1. \A c \in Universe : isset(set_range(s, b, -1), c) <=> isset(s, c) \/ c >= b
            BY <1>1, <1>4, <2>1, <2>3, <2>7
        <3>2. Bits(set_range(s, b, -1)) = Bits(s) \cup tail(b)
            BY <3>1 DEF Bits
        <3>3. b \in 0..b
            BY <1>1
        <3> QED BY <2>5, <3>2, <3>3
    <2>8. CASE ~(b < L) /\ ~s.infinite
        <3>1. \A c \in Universe : /\ isset(set_range(s, b, -1), c) <=> isset(s, c) \/ c >= L
                                  /\ c >= L => ~isset(s, c)
            BY <1>1, <1>4, <2>1, <2>3, <2>8
        <3>2. Bits(set_range(s, b, -1)) = Bits(s) \cup tail(L) /\ Bits(s) \cap tail(L) = {}
            BY <3>1 DEF Bits
        <3>3. L \in 0..b
            BY <1>1, <2>8
        <3> QED BY <2>5, <3>2, <3>3
    <2> QED BY <1>3, <2>6, <2>7, <2>8
<1>6. /\ clr_range(s, b, -1) \in Bitmap
      /\ \E k \in 0..b : /\ k = b \/ tail(k) \subseteq Bits(s)
                         /\ Bits(clr_range(s, b, -1)) = Bits(s) \ tail(k)
    <2> DEFINE s1 == [s EXCEPT !.infinite = FALSE]
               t == RemoveMasks(s1, b, L - 1)
    <2>1. /\ s1 \in Bitmap /\ s1.infinite = FALSE /\ s1.count = s.count
          /\ \A c \in Universe : isset(s1, c) <=> IF c < L THEN isset(s, c) ELSE FALSE
        BY FlagDenotes
    <2>2. Limit(s1) = L
        BY <2>1 DEF Limit
    <2>3. clr_range(s, b, -1) = IF b >= L \/ L - 1 < b THEN s1 ELSE t
        <3>1. (s.infinite /\ -1 # -1) = FALSE
            BY <1>3
        <3> HIDE DEF L
        <3>2. Truncate(s1, -1, ~s1.infinite) = L - 1
            BY <2>1, <2>2 DEF Truncate
        <3> QED BY <2>1, <3>1, <3>2 DEF clr_range, L
    <2> HIDE DEF L, s1
    <2>4. t \in Bitmap /\ \A c \in Universe : isset(t, c) <=> isset(s1, c) /\ ~(b <= c /\ c <= L - 1)
        BY <1>1, <1>2, <2>1, MaskedDenotes
    <2> HIDE DEF t
    <2>5. clr_range(s, b, -1) \in Bitmap
        BY <2>1, <2>3, <2>4
    <2>6. CASE b < L
        <3>1. \A c \in Universe : isset(clr_range(s, b, -1), c) <=> isset(s, c) /\ ~(c >= b)
            BY <1>1, <1>4, <2>1, <2>3, <2>4, <2>6
        <3>2. Bits(clr_range(s, b, -1)) = Bits(s) \ tail(b)
            BY <3>1 DEF Bits
        <3>3. b \in 0..b
            BY <1>1
        <3> QED BY <2>5, <3>2, <3>3
    <2>7. CASE ~(b < L) /\ ~s.infinite
        <3>1. \A c \in Universe : isset(clr_range(s, b, -1), c) <=> isset(s, c) /\ ~(c >= b)
            BY <1>1, <1>4, <2>1, <2>3, <2>7
        <3>2. Bits(clr_range(s, b, -1)) = Bits(s) \ tail(b)
            BY <3>1 DEF Bits
        <3>3. b \in 0..b
            BY <1>1
        <3> QED BY <2>5, <3>2, <3>3
    <2>8. CASE ~(b < L) /\ s.infinite
        <3>1. \A c \in Universe : /\ isset(clr_range(s, b, -1), c) <=> isset(s, c) /\ ~(c >= L)
                                  /\ c >= L => isset(s, c)
            BY <1>1, <1>4, <2>1, <2>3, <2>8
        <3>2. Bits(clr_range(s, b, -1)) = Bits(s) \ tail(L) /\ tail(L) \subseteq Bits(s)
            BY <3>1 DEF Bits
        <3>3. L \in 0..b
            BY <1>1, <2>8
        <3> QED BY <2>5, <3>2, <3>3
    <2> QED BY <1>3, <2>6, <2>7, <2>8
<1> QED BY <1>5, <1>6

(* The index of bit b of word i.                                           *)
LEMMA IndexOf ==
    ASSUME NEW i \in Nat, NEW b \in Bit
    PROVE  LET c == HWLOC_BITS_PER_LONG * i + b
           IN  c \in Nat /\ INDEX(c) = i /\ CPU_ULBIT(c) = b
<1> DEFINE W == HWLOC_BITS_PER_LONG
           c == W * i + b
<1>1. W \in Nat /\ W > 0
    BY SizeAssumption
<1>2. b \in Nat /\ b < W /\ W * i \in Nat /\ i * W = W * i /\ (i + 1) * W = W * i + W
    BY <1>1 DEF Bit
<1>3. c \in Nat /\ c < (i + 1) * W /\ ~(c < i * W)
    BY <1>1, <1>2
<1> HIDE DEF c
<1>4. INDEX(c) \in Nat /\ INDEX(c) < i + 1 /\ ~(INDEX(c) < i)
    BY <1>3, IndexBelow, IndexSplit
<1>5. INDEX(c) = i
    BY <1>4
<1>6. CPU_ULBIT(c) \in Nat /\ c = W * INDEX(c) + CPU_ULBIT(c)
    BY <1>3, IndexSplit DEF Bit
<1>7. CPU_ULBIT(c) = b
    BY <1>2, <1>5, <1>6 DEF c
<1> QED BY <1>3, <1>5, <1>7 DEF c

(* copy takes the words and the flag of its source.                        *)
LEMMA CopyDenotes ==
    ASSUME NEW dst \in Bitmap, NEW src \in Bitmap
    PROVE  copy(dst, src) \in Bitmap /\ Bits(copy(dst, src)) = Bits(src)
<1>1. /\ src.count \in Nat /\ 1 <= src.count /\ src.count <= MaxUlongs
      /\ src.ulongs \in WordSeq(src.count) /\ src.infinite \in BOOLEAN
    BY BitmapFields
<1>2. copy(dst, src) \in Bitmap
    BY <1>1, ResetType DEF copy
<1>3. \A i : READULONG(copy(dst, src), i) = READULONG(src, i)
    BY DEF copy, reset_by_ulongs, READULONG
<1> QED BY <1>2, <1>3 DEF Bits, isset

(* singlify keeps the lowest index: of the first word that is not empty,   *)
(* else the first one beyond the valid words of an infinite bitmap.        *)
LEMMA SinglifyDenotes ==
    ASSUME NEW s \in Bitmap, singlify(s).count <= MaxUlongs
    PROVE  /\ singlify(s) \in Bitmap
           /\ Bits(singlify(s)) = {c \in Bits(s) : \A d \in Bits(s) : c <= d}
<1>0. /\ s = [ulongs |-> s.ulongs, count |-> s.count,
              allocated |-> s.allocated, infinite |-> s.infinite]
      /\ s.count \in Nat /\ 1 <= s.count /\ s.count <= MaxUlongs
      /\ s.ulongs \in WordSeq(s.count) /\ s.infinite \in BOOLEAN
    BY BitmapFields
<1>1. CASE NonZero(s) # {}
    <2> DEFINE i0 == MinOf(NonZero(s))
               b0 == MinOf(s.ulongs[i0])
               u == [i \in 0..(s.count - 1) |->
                        IF i = i0 THEN {MinOf(s.ulongs[i])} ELSE ZERO]
               t == singlify(s)
               c0 == HWLOC_BITS_PER_LONG * i0 + b0
    <2>1. i0 \in NonZero(s) /\ \A i \in NonZero(s) : i0 <= i
        <3>1. NonZero(s) \subseteq Nat
            BY <1>0 DEF NonZero
        <3> QED BY <1>1, <3>1, MinOfNat
    <2>2. i0 \in Nat /\ i0 < s.count /\ i0 \in 0..(s.count - 1) /\ s.ulongs[i0] # {}
        BY <1>0, <2>1 DEF NonZero, ZERO
    <2> HIDE DEF i0
    <2>3. b0 \in s.ulongs[i0] /\ b0 \in Bit /\ \A b \in s.ulongs[i0] : b0 <= b
        <3>1. s.ulongs[i0] \subseteq Bit /\ Bit \subseteq Nat
            BY <1>0, <2>2 DEF WordSeq, Bit
        <3> QED BY <2>2, <3>1, MinOfNat
    <2>4. t = [s EXCEPT !.ulongs = u, !.infinite = FALSE]
        BY <1>1 DEF singlify, i0
    <2>5. u \in WordSeq(s.count) /\ \A i \in Nat : i < s.count => u[i] = IF i = i0 THEN {b0} ELSE {}
        <3>1. u = [i \in 0..(s.count - 1) |-> IF i = i0 THEN {b0} ELSE {}]
            BY Zenon DEF ZERO
        <3> HIDE DEF b0, u
        <3> QED BY <1>0, <2>2, <2>3, <3>1 DEF WordSeq
    <2> HIDE DEF u, t, b0
    <2>6. t = [ulongs |-> u, count |-> s.count, allocated |-> s.allocated, infinite |-> FALSE]
        BY <1>0, <2>4
    <2>7. t \in Bitmap /\ \A i \in Nat : READULONG(t, i) =
              IF i < s.count THEN u[i] ELSE IF FALSE THEN FULL ELSE ZERO
        BY <2>5, <2>6, RewriteWords, ZenonT(40)
    <2>8. \A i \in Nat : READULONG(t, i) = IF i = i0 THEN {b0} ELSE {}
        BY <1>0, <2>2, <2>5, <2>7 DEF ZERO
    <2>9. c0 \in Nat /\ INDEX(c0) = i0 /\ CPU_ULBIT(c0) = b0
        BY <2>2, <2>3, IndexOf
    <2> HIDE DEF c0
    <2>10. isset(s, c0)
        BY <2>2, <2>3, <2>9 DEF isset, READULONG
    <2>11. c0 \in Universe
        <3>1. INDEX(c0) < MaxUlongs + 1 /\ MaxUlongs + 1 \in Nat
            BY <1>0, <2>2, <2>9, SizeAssumption
        <3>2. c0 < (MaxUlongs + 1) * HWLOC_BITS_PER_LONG
            BY <2>9, <3>1, IndexBelow
        <3>3. (MaxUlongs + 1) * HWLOC_BITS_PER_LONG \in Nat
            BY SizeAssumption
        <3> QED BY <2>9, <3>2, <3>3 DEF Universe
    <2>12. ASSUME NEW c \in Universe PROVE isset(t, c) <=> c = c0
        <3>1. c \in Nat /\ INDEX(c) \in Nat
            BY IndexTypes
        <3>2. isset(t, c) <=> INDEX(c) = i0 /\ CPU_ULBIT(c) = b0
            BY <2>8, <3>1 DEF isset
        <3> QED BY <2>9, <3>1, <3>2, IndexUnique
    <2>13. ASSUME NEW d \in Universe, isset(s, d) PROVE c0 <= d
        <3>1. d \in Nat /\ INDEX(d) \in Nat /\ CPU_ULBIT(d) \in Bit
            BY IndexTypes
        <3>2. CASE ~(INDEX(d) < s.count)
            <4>1. INDEX(c0) < INDEX(d)
                BY <1>0, <2>2, <2>9, <3>1, <3>2
            <4> QED BY <2>9, <3>1, <4>1, IndexOrder
        <3>3. CASE INDEX(d) < s.count
            <4>1. CPU_ULBIT(d) \in s.ulongs[INDEX(d)]
                BY <2>13, <3>3 DEF isset, READULONG
            <4>2. INDEX(d) \in NonZero(s)
                BY <1>0, <3>1, <3>3, <4>1 DEF NonZero, ZERO
            <4>3. i0 <= INDEX(d)
                BY <2>1, <4>2
            <4>4. INDEX(d) = i0 => b0 <= CPU_ULBIT(d)
                BY <2>3, <4>1
            <4> QED BY <2>2, <2>9, <3>1, <4>3, <4>4, IndexOrder
        <3> QED BY <3>2, <3>3
    <2>14. Bits(t) = {c0}
        BY <2>11, <2>12 DEF Bits
    <2>15. c0 \in Bits(s) /\ Bits(s) \subseteq Nat /\ \A d \in Bits(s) : c0 <= d
        BY <2>10, <2>11, <2>13, IndexTypes DEF Bits
    <2>16. {c \in Bits(s) : \A d \in Bits(s) : c <= d} = {c0}
        BY <2>15
    <2> QED BY <2>7, <2>14, <2>16 DEF t
<1>2. CASE NonZero(s) = {}
    <2> DEFINE L == Limit(s)
               s1 == [s EXCEPT !.infinite = FALSE]
    <2>1. L \in Nat /\ 1 <= L
        BY BelowLimit, 0 \in Nat
    <2>2. \A c \in Universe : c \in Nat /\ (isset(s, c) <=> s.infinite /\ L <= c)
        <3> SUFFICES ASSUME NEW c \in Universe
                     PROVE  c \in Nat /\ (isset(s, c) <=> s.infinite /\ L <= c)
            OBVIOUS
        <3>1. c \in Nat /\ INDEX(c) \in Nat
            BY IndexTypes
        <3>2. CASE c < L
            <4>1. INDEX(c) < s.count
                BY <3>1, <3>2, BelowLimit
            <4>2. s.ulongs[INDEX(c)] = {}
                BY <1>0, <1>2, <3>1, <4>1 DEF NonZero, ZERO
            <4> QED BY <2>1, <3>1, <3>2, <4>1, <4>2 DEF isset, READULONG
        <3>3. CASE ~(c < L)
            BY <2>1, <3>1, <3>3, BeyondLimit
        <3> QED BY <3>2, <3>3
    <2>3. CASE ~s.infinite
        <3>1. singlify(s) = s
            BY <1>2, <2>3 DEF singlify
        <3>2. Bits(s) = {}
            BY <2>2, <2>3 DEF Bits
        <3> QED BY <3>1, <3>2
    <2>4. CASE s.infinite
        <3>1. singlify(s) = set(s1, L)
            BY <1>2, <2>4 DEF singlify
        <3>2. /\ s1 \in Bitmap /\ s1.infinite = FALSE /\ s1.count = s.count
              /\ \A c \in Universe : isset(s1, c) <=> IF c < L THEN isset(s, c) ELSE FALSE
            BY FlagDenotes
        <3>3. 0 \in Bit
            BY SizeAssumption DEF Bit
        <3>4. HWLOC_BITS_PER_LONG * s.count + 0 = L
            BY <1>0, SizeAssumption DEF Limit
        <3>5. INDEX(L) = s.count
            BY <1>0, <3>3, <3>4, IndexOf
        <3> HIDE DEF L, s1
        <3>6. set(s1, L) = Store(s1, INDEX(L), READULONG(s1, INDEX(L)) \cup {CPU_ULBIT(L)})
            BY <3>2 DEF set
        <3>7. singlify(s).count = s.count + 1
            <4> DEFINE r == realloc_by_ulongs(s1, s.count + 1)
            <4>1. ~(s.count + 1 <= s1.count)
                BY <1>0, <3>2
            <4>2. r.count = s.count + 1
                BY <4>1 DEF realloc_by_ulongs
            <4>3. \A w : Store(s1, s.count, w).count = r.count
                BY DEF Store
            <4> QED BY <3>1, <3>5, <3>6, <4>2, <4>3
        <3>8. s.count < MaxUlongs
            BY <1>0, <3>7, SizeAssumption
        <3>9. L \in Cpu
            <4>1. L < MaxUlongs * HWLOC_BITS_PER_LONG
                BY <2>1, <3>5, <3>8, IndexBelow, SizeAssumption
            <4>2. MaxUlongs * HWLOC_BITS_PER_LONG \in Nat
                BY SizeAssumption
            <4> QED BY <2>1, <4>1, <4>2 DEF Cpu
        <3>10. set(s1, L) \in Bitmap /\ Bits(set(s1, L)) = Bits(s1) \cup {L}
            BY <3>2, <3>9, SetClrDenote
        <3>11. Bits(s1) = {}
            BY <2>1, <2>2, <3>2 DEF Bits
        <3>12. L \in Universe
            BY <3>9, IndexTypes
        <3>13. L \in Bits(s) /\ Bits(s) \subseteq Nat /\ \A d \in Bits(s) : L <= d
            <4>1. L <= L
                BY <2>1
            <4>2. isset(s, L)
                BY <2>2, <2>4, <3>12, <4>1
            <4>3. \A d \in Universe : isset(s, d) => d \in Nat /\ L <= d
                BY <2>2
            <4> QED BY <3>12, <4>2, <4>3 DEF Bits
        <3>14. {c \in Bits(s) : \A d \in Bits(s) : c <= d} = {L}
            BY <2>1, <3>13
        <3> QED BY <3>1, <3>10, <3>11, <3>14
    <2> QED BY <1>0, <2>3, <2>4
<1> QED BY <1>1, <1>2

-----------------------------------------------------------------------------
(* The steps of the specification.                                         *)

(* A handle that is given a bitmap denotes the set of that bitmap; the     *)
(* others denote what they did.                                            *)
LEMMA BecomesMaps ==
    ASSUME TypeOK, NEW h \in Handle, NEW t \in Bitmap, NEW S,
           Bits(t) = S, sets' = [sets EXCEPT ![h] = t]
    PROVE  TypeOK' /\ Abs!Becomes(h, S)
<1>1. t # NULL
    BY NullAssumption
<1>2. TypeOK'
    BY DEF TypeOK
<1>3. Denoted' = [Denoted EXCEPT ![h] = S]
    BY <1>1 DEF TypeOK, Denoted
<1> QED BY <1>2, <1>3 DEF Abs!Becomes

(* Handles are live in both specifications, or in neither.                 *)
LEMMA LiveMaps ==
    ASSUME TypeOK, NEW h \in Handle
    PROVE  /\ Live(h) <=> Abs!Live(h)
           /\ Live(h) => sets[h] \in Bitmap /\ Denoted[h] = Bits(sets[h])
<1>1. \A s : Bits(s) \in SUBSET Universe
    BY DEF Bits
<1> QED BY <1>1, NullAssumption DEF TypeOK, Live, Abs!Live, Denoted

(* The word range of BitmapSpec is the set of indexes of the word.         *)
LEMMA UlongRangeMaps ==
    ASSUME NEW i \in Nat
    PROVE  Abs!UlongRange(i) = {c \in Universe : INDEX(c) = i}
<1> SUFFICES ASSUME NEW c \in Universe
             PROVE  (/\ HWLOC_BITS_PER_LONG * i <= c
                     /\ c < HWLOC_BITS_PER_LONG * (i + 1)) <=> INDEX(c) = i
    BY DEF Abs!UlongRange
<1>1. c \in Nat /\ INDEX(c) \in Nat
    BY IndexTypes
<1>2. /\ c < i * HWLOC_BITS_PER_LONG <=> INDEX(c) < i
      /\ c < (i + 1) * HWLOC_BITS_PER_LONG <=> INDEX(c) < i + 1
    BY <1>1, IndexBelow
<1>3. /\ i * HWLOC_BITS_PER_LONG = HWLOC_BITS_PER_LONG * i
      /\ (i + 1) * HWLOC_BITS_PER_LONG = HWLOC_BITS_PER_LONG * (i + 1)
      /\ HWLOC_BITS_PER_LONG * i \in Nat /\ HWLOC_BITS_PER_LONG * (i + 1) \in Nat
    BY SizeAssumption
<1> QED BY <1>1, <1>2, <1>3

(* The operations on one handle.                                           *)
LEMMA UnaryMaps ==
    ASSUME TypeOK, NEW h \in Handle
    PROVE  ModifiersMap(h) /\ (Unary(h) => TypeOK' /\ Abs!Unary(h))
<1> DEFINE s == sets[h]
<1>0. /\ Live(h) <=> Abs!Live(h)
      /\ Live(h) => s \in Bitmap /\ Denoted[h] = Bits(s)
    BY LiveMaps
<1>1. ASSUME Alloc(h) PROVE TypeOK' /\ Abs!Alloc(h)
    <2>1. TypeOK' /\ Abs!Becomes(h, {})
        BY <1>1, AllocDenote, BecomesMaps DEF Alloc, Becomes
    <2> QED BY <1>0, <1>1, <2>1 DEF Alloc, Abs!Alloc
<1>2. ASSUME AllocFull(h) PROVE TypeOK' /\ Abs!AllocFull(h)
    <2>1. TypeOK' /\ Abs!Becomes(h, Universe)
        BY <1>2, AllocDenote, BecomesMaps DEF AllocFull, Becomes
    <2> QED BY <1>0, <1>2, <2>1 DEF AllocFull, Abs!AllocFull
<1>3. ASSUME Free(h) PROVE TypeOK' /\ Abs!Free(h)
    <2>1. TypeOK'
        BY <1>3 DEF Free, TypeOK
    <2>2. Denoted' = [Denoted EXCEPT ![h] = NULL]
        BY <1>3 DEF Free, TypeOK, Denoted
    <2> QED BY <1>0, <1>3, <2>1, <2>2 DEF Free, Abs!Free, Abs!Becomes
<1>4. ASSUME Zero(h) PROVE TypeOK' /\ Abs!Zero(h)
    <2>1. s \in Bitmap /\ sets' = [sets EXCEPT ![h] = zero(s)]
        BY <1>0, <1>4 DEF Zero, Becomes
    <2>2. TypeOK' /\ Abs!Becomes(h, {})
        BY <2>1, ZeroFillDenote, BecomesMaps
    <2> QED BY <1>0, <1>4, <2>2 DEF Zero, Abs!Zero
<1>5. ASSUME Fill(h) PROVE TypeOK' /\ Abs!Fill(h)
    <2>1. s \in Bitmap /\ sets' = [sets EXCEPT ![h] = fill(s)]
        BY <1>0, <1>5 DEF Fill, Becomes
    <2>2. TypeOK' /\ Abs!Becomes(h, Universe)
        BY <2>1, ZeroFillDenote, BecomesMaps
    <2> QED BY <1>0, <1>5, <2>2 DEF Fill, Abs!Fill
<1>6. ASSUME Singlify(h) PROVE TypeOK' /\ Abs!Singlify(h)
    <2>1. /\ s \in Bitmap /\ sets' = [sets EXCEPT ![h] = singlify(s)]
          /\ singlify(s).count <= MaxUlongs
        BY <1>0, <1>6 DEF Singlify, Becomes
    <2>2. TypeOK' /\ Abs!Becomes(h, {c \in Bits(s) : \A d \in Bits(s) : c <= d})
        BY <2>1, SinglifyDenotes, BecomesMaps
    <2> QED BY <1>0, <1>6, <2>2 DEF Singlify, Abs!Singlify
<1>7. ASSUME NEW c \in Cpu, Only(h, c) \/ Allbut(h, c) \/ Set(h, c) \/ Clr(h, c)
      PROVE  /\ TypeOK'
             /\ Only(h, c) => Abs!Only(h, c)
             /\ Allbut(h, c) => Abs!Allbut(h, c)
             /\ Set(h, c) => Abs!Set(h, c)
             /\ Clr(h, c) => Abs!Clr(h, c)
    <2>1. s \in Bitmap /\ Abs!Live(h) /\ Denoted[h] = Bits(s)
        BY <1>0, <1>7 DEF Only, Allbut, Set, Clr
    <2>2. ASSUME Only(h, c) PROVE TypeOK' /\ Abs!Only(h, c)
        <3>1. TypeOK' /\ Abs!Becomes(h, {c})
            BY <2>1, <2>2, OnlyAllbutDenote, BecomesMaps DEF Only, Becomes
        <3> QED BY <2>1, <3>1 DEF Abs!Only
    <2>3. ASSUME Allbut(h, c) PROVE TypeOK' /\ Abs!Allbut(h, c)
        <3>1. TypeOK' /\ Abs!Becomes(h, Universe \ {c})
            BY <2>1, <2>3, OnlyAllbutDenote, BecomesMaps DEF Allbut, Becomes
        <3> QED BY <2>1, <3>1 DEF Abs!Allbut
    <2>4. ASSUME Set(h, c) PROVE TypeOK' /\ Abs!Set(h, c)
        <3>1. TypeOK' /\ Abs!Becomes(h, Bits(s) \cup {c})
            BY <2>1, <2>4, SetClrDenote, BecomesMaps DEF Set, Becomes
        <3> QED BY <2>1, <3>1 DEF Abs!Set
    <2>5. ASSUME Clr(h, c) PROVE TypeOK' /\ Abs!Clr(h, c)
        <3>1. TypeOK' /\ Abs!Becomes(h, Bits(s) \ {c})
            BY <2>1, <2>5, SetClrDenote, BecomesMaps DEF Clr, Becomes
        <3> QED BY <2>1, <3>1 DEF Abs!Clr
    <2> QED BY <1>7, <2>2, <2>3, <2>4, <2>5
<1>8. ASSUME NEW m \in SUBSET Bit, FromUlong(h, m)
      PROVE  TypeOK' /\ Abs!FromIthUlong(h, 0)
    <2> DEFINE T == {c \in Universe : INDEX(c) = 0 /\ CPU_ULBIT(c) \in m}
    <2>0. 0 \in Ulong
        BY SizeAssumption DEF Ulong
    <2>1. s \in Bitmap /\ Abs!Live(h)
        BY <1>0, <1>8 DEF FromUlong
    <2>2. from_ulong(s, m) \in Bitmap /\ Bits(from_ulong(s, m)) = T
        BY <2>0, <2>1, IthUlongDenote
    <2>3. TypeOK' /\ Abs!Becomes(h, T)
        BY <1>8, <2>2, BecomesMaps DEF FromUlong, Becomes
    <2>4. T \in SUBSET Abs!UlongRange(0)
        BY UlongRangeMaps, 0 \in Nat
    <2> HIDE DEF T
    <2> QED BY <2>1, <2>3, <2>4 DEF Abs!FromIthUlong
<1>9. ASSUME NEW i \in Ulong, NEW m \in SUBSET Bit,
             FromIthUlong(h, i, m) \/ SetIthUlong(h, i, m)
      PROVE  /\ TypeOK'
             /\ FromIthUlong(h, i, m) => Abs!FromIthUlong(h, i)
             /\ SetIthUlong(h, i, m) => Abs!SetIthUlong(h, i)
    <2> DEFINE T == {c \in Universe : INDEX(c) = i /\ CPU_ULBIT(c) \in m}
               R == {c \in Universe : INDEX(c) = i}
    <2>0. i \in Nat
        BY DEF Ulong
    <2>1. s \in Bitmap /\ Abs!Live(h) /\ Denoted[h] = Bits(s)
        BY <1>0, <1>9 DEF FromIthUlong, SetIthUlong
    <2>2. /\ from_ith_ulong(s, i, m) \in Bitmap /\ Bits(from_ith_ulong(s, i, m)) = T
          /\ set_ith_ulong(s, i, m) \in Bitmap
          /\ Bits(set_ith_ulong(s, i, m)) = (Bits(s) \ R) \cup T
        BY <2>1, IthUlongDenote
    <2>3. R = Abs!UlongRange(i) /\ T \in SUBSET R
        BY <2>0, UlongRangeMaps
    <2> HIDE DEF T, R
    <2>4. ASSUME FromIthUlong(h, i, m) PROVE TypeOK' /\ Abs!FromIthUlong(h, i)
        <3>1. TypeOK' /\ Abs!Becomes(h, T)
            BY <2>2, <2>4, BecomesMaps DEF FromIthUlong, Becomes
        <3> QED BY <2>1, <2>3, <3>1 DEF Abs!FromIthUlong
    <2>5. ASSUME SetIthUlong(h, i, m) PROVE TypeOK' /\ Abs!SetIthUlong(h, i)
        <3>1. TypeOK' /\ Abs!Becomes(h, (Bits(s) \ R) \cup T)
            BY <2>2, <2>5, BecomesMaps DEF SetIthUlong, Becomes
        <3> QED BY <2>1, <2>3, <3>1 DEF Abs!SetIthUlong
    <2> QED BY <1>9, <2>4, <2>5
<1>10. ASSUME NEW b \in Cpu, NEW e \in Cpu, SetRange(h, b, e) \/ ClrRange(h, b, e)
       PROVE  /\ TypeOK'
              /\ SetRange(h, b, e) => Abs!SetRange(h, b, e)
              /\ ClrRange(h, b, e) => Abs!ClrRange(h, b, e)
    <2> DEFINE R == {c \in Universe : b <= c /\ c <= e}
    <2>1. s \in Bitmap /\ Abs!Live(h) /\ Denoted[h] = Bits(s)
        BY <1>0, <1>10 DEF SetRange, ClrRange
    <2>2. /\ set_range(s, b, e) \in Bitmap /\ Bits(set_range(s, b, e)) = Bits(s) \cup R
          /\ clr_range(s, b, e) \in Bitmap /\ Bits(clr_range(s, b, e)) = Bits(s) \ R
        BY <2>1, RangeDenotes
    <2>3. R = Abs!Range_(b, e)
        BY DEF Abs!Range_
    <2> HIDE DEF R
    <2>4. ASSUME SetRange(h, b, e) PROVE TypeOK' /\ Abs!SetRange(h, b, e)
        <3>1. TypeOK' /\ Abs!Becomes(h, Bits(s) \cup R)
            BY <2>2, <2>4, BecomesMaps DEF SetRange, Becomes
        <3> QED BY <2>1, <2>3, <3>1 DEF Abs!SetRange
    <2>5. ASSUME ClrRange(h, b, e) PROVE TypeOK' /\ Abs!ClrRange(h, b, e)
        <3>1. TypeOK' /\ Abs!Becomes(h, Bits(s) \ R)
            BY <2>2, <2>5, BecomesMaps DEF ClrRange, Becomes
        <3> QED BY <2>1, <2>3, <3>1 DEF Abs!ClrRange
    <2> QED BY <1>10, <2>4, <2>5
<1>11. ASSUME NEW b \in Cpu, SetRange(h, b, -1) \/ ClrRange(h, b, -1)
       PROVE  TypeOK' /\ (Abs!SetRangeOpen(h, b) \/ Abs!ClrRangeOpen(h, b))
    <2>1. s \in Bitmap /\ Abs!Live(h) /\ Denoted[h] = Bits(s)
        BY <1>0, <1>11 DEF SetRange, ClrRange
    <2>2. \A k : Abs!Tail(k) = {c \in Universe : c >= k}
        BY DEF Abs!Tail
    <2>3. CASE SetRange(h, b, -1)
        <3>1. /\ set_range(s, b, -1) \in Bitmap
              /\ \E k \in 0..b : /\ k = b \/ Bits(s) \cap Abs!Tail(k) = {}
                                 /\ Bits(set_range(s, b, -1)) = Bits(s) \cup Abs!Tail(k)
            BY <2>1, <2>2, OpenRangeDenotes
        <3>2. PICK k \in 0..b : /\ k = b \/ Bits(s) \cap Abs!Tail(k) = {}
                                /\ Bits(set_range(s, b, -1)) = Bits(s) \cup Abs!Tail(k)
            BY <3>1
        <3>3. TypeOK' /\ Abs!Becomes(h, Bits(s) \cup Abs!Tail(k))
            BY <2>3, <3>1, <3>2, BecomesMaps DEF SetRange, Becomes
        <3> QED BY <2>1, <3>2, <3>3 DEF Abs!SetRangeOpen
    <2>4. CASE ClrRange(h, b, -1)
        <3>1. /\ clr_range(s, b, -1) \in Bitmap
              /\ \E k \in 0..b : /\ k = b \/ Abs!Tail(k) \subseteq Bits(s)
                                 /\ Bits(clr_range(s, b, -1)) = Bits(s) \ Abs!Tail(k)
            BY <2>1, <2>2, OpenRangeDenotes
        <3>2. PICK k \in 0..b : /\ k = b \/ Abs!Tail(k) \subseteq Bits(s)
                                /\ Bits(clr_range(s, b, -1)) = Bits(s) \ Abs!Tail(k)
            BY <3>1
        <3>3. TypeOK' /\ Abs!Becomes(h, Bits(s) \ Abs!Tail(k))
            BY <2>4, <3>1, <3>2, BecomesMaps DEF ClrRange, Becomes
        <3> QED BY <2>1, <3>2, <3>3 DEF Abs!ClrRangeOpen
    <2> QED BY <1>11, <2>3, <2>4
<1>12. 0 \in Ulong
    BY SizeAssumption DEF Ulong
<1>13. ModifiersMap(h)
    BY <1>4, <1>5, <1>6, <1>7, <1>9, <1>10 DEF ModifiersMap
<1>14. ASSUME Unary(h) PROVE TypeOK' /\ Abs!Unary(h)
    BY <1>1, <1>2, <1>3, <1>4, <1>5, <1>6, <1>7, <1>8, <1>9, <1>10, <1>11, <1>12, <1>14
       DEF Unary, Abs!Unary
<1> QED BY <1>13, <1>14

(* The operations on several handles, which may be the same.               *)
LEMMA BinaryMaps ==
    ASSUME TypeOK, NEW h \in Handle, NEW g \in Handle
    PROVE  /\ Copy(h, g) => Abs!Copy(h, g)
           /\ Not(h, g) => Abs!Not(h, g)
           /\ \A a \in Handle : /\ Or(h, a, g) => Abs!Or(h, a, g)
                                /\ And(h, a, g) => Abs!And(h, a, g)
                                /\ Andnot(h, a, g) => Abs!Andnot(h, a, g)
                                /\ Xor(h, a, g) => Abs!Xor(h, a, g)
           /\ Binary(h, g) => TypeOK' /\ Abs!Binary(h, g)
<1>1. ASSUME Dup(h, g) PROVE TypeOK' /\ Abs!Dup(h, g)
    <2>1. ~Abs!Live(h) /\ Abs!Live(g) /\ sets[g] \in Bitmap /\ Denoted[g] = Bits(sets[g])
        BY <1>1, LiveMaps DEF Dup
    <2>2. TypeOK' /\ Abs!Becomes(h, Bits(sets[g]))
        BY <1>1, <2>1, BecomesMaps DEF Dup, Becomes
    <2> QED BY <2>1, <2>2 DEF Abs!Dup
<1>2. ASSUME Copy(h, g) PROVE TypeOK' /\ Abs!Copy(h, g)
    <2>1. /\ Abs!Live(h) /\ Abs!Live(g) /\ sets[h] \in Bitmap /\ sets[g] \in Bitmap
          /\ Denoted[g] = Bits(sets[g])
        BY <1>2, LiveMaps DEF Copy
    <2>2. TypeOK' /\ Abs!Becomes(h, Bits(sets[g]))
        BY <1>2, <2>1, CopyDenotes, BecomesMaps DEF Copy, Becomes
    <2> QED BY <2>1, <2>2 DEF Abs!Copy
<1>3. ASSUME Not(h, g) PROVE TypeOK' /\ Abs!Not(h, g)
    <2>1. /\ Abs!Live(h) /\ Abs!Live(g) /\ sets[h] \in Bitmap /\ sets[g] \in Bitmap
          /\ Denoted[g] = Bits(sets[g])
        BY <1>3, LiveMaps DEF Not
    <2>2. not(sets[h], sets[g]) \in Bitmap
          /\ Bits(not(sets[h], sets[g])) = Universe \ Bits(sets[g])
        BY <2>1, CombiningDenote DEF Denotes
    <2>3. TypeOK' /\ Abs!Becomes(h, Universe \ Bits(sets[g]))
        BY <1>3, <2>2, BecomesMaps DEF Not, Becomes
    <2> QED BY <2>1, <2>3 DEF Abs!Not
<1>4. ASSUME NEW a \in Handle,
             Or(h, a, g) \/ And(h, a, g) \/ Andnot(h, a, g) \/ Xor(h, a, g)
      PROVE  /\ TypeOK'
             /\ Or(h, a, g) => Abs!Or(h, a, g)
             /\ And(h, a, g) => Abs!And(h, a, g)
             /\ Andnot(h, a, g) => Abs!Andnot(h, a, g)
             /\ Xor(h, a, g) => Abs!Xor(h, a, g)
    <2> DEFINE A == sets[a]
               B == sets[g]
               r == sets[h]
    <2>1. /\ Abs!Live(h) /\ Abs!Live(a) /\ Abs!Live(g)
          /\ r \in Bitmap /\ A \in Bitmap /\ B \in Bitmap
          /\ Denoted[a] = Bits(A) /\ Denoted[g] = Bits(B)
        BY <1>4, LiveMaps DEF Or, And, Andnot, Xor
    <2> HIDE DEF A, B, r
    <2>2. /\ Denotes(or(r, A, B), Bits(A) \cup Bits(B))
          /\ Denotes(and(r, A, B), Bits(A) \cap Bits(B))
          /\ Denotes(andnot(r, A, B), Bits(A) \ Bits(B))
          /\ Denotes(xor(r, A, B), (Bits(A) \ Bits(B)) \cup (Bits(B) \ Bits(A)))
        BY <2>1, CombiningDenote, Zenon
    <2>3. ASSUME Or(h, a, g) PROVE TypeOK' /\ Abs!Or(h, a, g)
        <3>1. TypeOK' /\ Abs!Becomes(h, Bits(A) \cup Bits(B))
            BY <2>2, <2>3, BecomesMaps DEF Or, Becomes, Denotes, A, B, r
        <3> QED BY <2>1, <3>1 DEF Abs!Or
    <2>4. ASSUME And(h, a, g) PROVE TypeOK' /\ Abs!And(h, a, g)
        <3>1. TypeOK' /\ Abs!Becomes(h, Bits(A) \cap Bits(B))
            BY <2>2, <2>4, BecomesMaps DEF And, Becomes, Denotes, A, B, r
        <3> QED BY <2>1, <3>1 DEF Abs!And
    <2>5. ASSUME Andnot(h, a, g) PROVE TypeOK' /\ Abs!Andnot(h, a, g)
        <3>1. TypeOK' /\ Abs!Becomes(h, Bits(A) \ Bits(B))
            BY <2>2, <2>5, BecomesMaps DEF Andnot, Becomes, Denotes, A, B, r
        <3> QED BY <2>1, <3>1 DEF Abs!Andnot
    <2>6. ASSUME Xor(h, a, g) PROVE TypeOK' /\ Abs!Xor(h, a, g)
        <3>1. TypeOK' /\ Abs!Becomes(h, (Bits(A) \ Bits(B)) \cup (Bits(B) \ Bits(A)))
            BY <2>2, <2>6, BecomesMaps DEF Xor, Becomes, Denotes, A, B, r
        <3> QED BY <2>1, <3>1 DEF Abs!Xor
    <2> QED BY <1>4, <2>3, <2>4, <2>5, <2>6
<1>5. ASSUME Binary(h, g) PROVE TypeOK' /\ Abs!Binary(h, g)
    BY <1>1, <1>2, <1>3, <1>4, <1>5 DEF Binary, Abs!Binary
<1> QED BY <1>2, <1>3, <1>4, <1>5

(* Every step keeps the types and is a step of BitmapSpec.                 *)
LEMMA NextMaps ==
    ASSUME TypeOK, [Next]_sets
    PROVE  TypeOK' /\ [Abs!Next]_Denoted
<1>1. CASE UNCHANGED sets
    BY <1>1 DEF TypeOK, Denoted
<1>2. ASSUME NEW h \in Handle, Unary(h) PROVE TypeOK' /\ Abs!Next
    BY <1>2, UnaryMaps DEF Abs!Next
<1>3. ASSUME NEW h \in Handle, NEW g \in Handle, Binary(h, g) PROVE TypeOK' /\ Abs!Next
    BY <1>3, BinaryMaps DEF Abs!Next
<1> QED BY <1>1, <1>2, <1>3 DEF Next

-----------------------------------------------------------------------------
(* HWLOC__BITMAP_CHECK holds of every bitmap a client can build: at least  *)
(* one valid word, no more valid words than are allocated, all of them     *)
(* words; for every word width, number of handles and bound.               *)
THEOREM TypeCorrect == Spec => []TypeOK
<1>1. Init => TypeOK
    BY DEF Init, TypeOK
<1>2. TypeOK /\ [Next]_sets => TypeOK'
    BY NextMaps
<1> QED BY <1>1, <1>2, PTL DEF Spec

(* Every behaviour of the word arrays of cpuset.c is a behaviour of the    *)
(* sets of bitmap.h.                                                       *)
THEOREM Implements == Spec => ImplementsSets
<1>1. Init => Abs!Init
    BY DEF Init, Denoted, Abs!Init
<1>2. TypeOK /\ [Next]_sets => [Abs!Next]_Denoted
    BY NextMaps
<1> QED BY <1>1, <1>2, TypeCorrect, PTL DEF Spec, ImplementsSets, Abs!Spec

(* The calls that change one bitmap do what bitmap.h says of each.         *)
THEOREM ModifiersCorrect == Spec => ModifiersExact
<1>1. TypeOK /\ [Next]_sets => [\A h \in Handle : ModifiersMap(h)]_sets
    BY UnaryMaps
<1> QED BY <1>1, TypeCorrect, PTL DEF Spec, ModifiersExact

(* The calls that combine bitmaps map to what BitmapSpec says of them.     *)
LEMMA CombiningMaps ==
    ASSUME TypeOK, NEW r \in Handle, NEW a \in Handle, NEW b \in Handle
    PROVE  CombiningMap(r, a, b)
<1>1. (Copy(r, a) => Abs!Copy(r, a)) /\ (Not(r, a) => Abs!Not(r, a))
    BY BinaryMaps
<1>2. /\ Or(r, a, b) => Abs!Or(r, a, b)
      /\ And(r, a, b) => Abs!And(r, a, b)
      /\ Andnot(r, a, b) => Abs!Andnot(r, a, b)
      /\ Xor(r, a, b) => Abs!Xor(r, a, b)
    BY BinaryMaps
<1> QED BY <1>1, <1>2 DEF CombiningMap

(* The calls that combine bitmaps do what bitmap.h says of each, whichever *)
(* of the handles are the same.                                            *)
THEOREM CombiningCorrect == Spec => CombiningExact
<1>1. TypeOK /\ [Next]_sets => [\A r, a, b \in Handle : CombiningMap(r, a, b)]_sets
    BY CombiningMaps
<1> QED BY <1>1, TypeCorrect, PTL DEF Spec, CombiningExact
=============================================================================
