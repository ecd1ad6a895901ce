------------------------- MODULE BitmapQueryProofs -------------------------
(***************************************************************************)
(* What the queries of Bitmap return, for every bitmap of every width: the *)
(* proof that they answer for the denoted set although they look at the    *)
(* valid words and the infinite flag only.                                 *)
(***************************************************************************)
EXTENDS BitmapProofs, FiniteSetTheorems

-----------------------------------------------------------------------------
(* Least and greatest elements.                                            *)

(* MinOf is the element that is below all the others.                      *)
LEMMA LowestIs ==
    ASSUME NEW S, S \subseteq Nat, NEW x \in S, \A y \in S : x <= y
    PROVE  MinOf(S) = x
<1>1. MinOf(S) \in S /\ \A y \in S : MinOf(S) <= y
    BY MinOfNat
<1>2. MinOf(S) \in Nat /\ x \in Nat /\ MinOf(S) <= x /\ x <= MinOf(S)
    BY <1>1
<1> HIDE DEF MinOf
<1> QED BY <1>2

(* A non-empty bounded set of naturals has a greatest element, and MaxOf   *)
(* gives it.                                                               *)
LEMMA MaxOfNat ==
    ASSUME NEW S, S \subseteq Nat, S # {}, NEW N \in Nat, \A y \in S : y <= N
    PROVE  MaxOf(S) \in S /\ \A y \in S : MaxOf(S) >= y
<1> DEFINE R == {N - x : x \in S}
<1>0. \A x \in S : N - x \in Nat
    OBVIOUS
<1>1. R \subseteq Nat /\ R # {}
    BY <1>0, Zenon
<1>2. MinOf(R) \in R /\ \A y \in R : MinOf(R) <= y
    BY <1>1, MinOfNat
<1>3. PICK x \in S : MinOf(R) = N - x
    BY <1>2
<1>4. \A y \in S : N - y \in R
    OBVIOUS
<1> HIDE DEF R
<1>5. \A y \in S : x >= y
    <2> SUFFICES ASSUME NEW y \in S PROVE x >= y
        OBVIOUS
    <2>1. N - x <= N - y
        BY <1>2, <1>3, <1>4
    <2> QED BY <2>1
<1>6. \E z \in S : \A y \in S : z >= y
    BY <1>5
<1> QED BY <1>6, Zenon DEF MaxOf

(* MaxOf is the element that is above all the others.                      *)
LEMMA HighestIs ==
    ASSUME NEW S, S \subseteq Nat, NEW x \in S, \A y \in S : y <= x
    PROVE  MaxOf(S) = x
<1>1. x \in Nat /\ S # {}
    OBVIOUS
<1>2. MaxOf(S) \in S /\ \A y \in S : MaxOf(S) >= y
    BY <1>1, MaxOfNat
<1>3. MaxOf(S) \in Nat /\ MaxOf(S) >= x /\ MaxOf(S) <= x
    BY <1>2
<1> HIDE DEF MaxOf
<1> QED BY <1>1, <1>3

(* A word has a least and a greatest bit unless it is empty.               *)
LEMMA WordEnds ==
    ASSUME NEW w \in SUBSET Bit, w # ZERO
    PROVE  /\ MinOf(w) \in w /\ \A b \in w : MinOf(w) <= b
           /\ MaxOf(w) \in w /\ \A b \in w : MaxOf(w) >= b
           /\ ffsl(w) = MinOf(w) + 1 /\ flsl(w) = MaxOf(w) + 1
<1>1. w \subseteq Nat /\ w # {} /\ HWLOC_BITS_PER_LONG \in Nat
      /\ \A b \in w : b <= HWLOC_BITS_PER_LONG
    BY SizeAssumption DEF Bit, ZERO
<1> QED BY <1>1, MinOfNat, MaxOfNat DEF ffsl, flsl

-----------------------------------------------------------------------------
(* What is read of a bitmap decides what it denotes.                       *)

(* The bits of the words 0 to MaxUlongs are the indexes of the universe.   *)
LEMMA WordBit ==
    ASSUME NEW s \in Bitmap, NEW i \in 0..MaxUlongs, NEW b \in Bit
    PROVE  LET c == HWLOC_BITS_PER_LONG * i + b
           IN  /\ c \in Universe /\ INDEX(c) = i /\ CPU_ULBIT(c) = b
               /\ c \in Bits(s) <=> b \in READULONG(s, i)
<1> DEFINE c == HWLOC_BITS_PER_LONG * i + b
<1>0. i \in Nat /\ MaxUlongs \in Nat /\ i < MaxUlongs + 1
    BY SizeAssumption
<1>1. c \in Nat /\ INDEX(c) = i /\ CPU_ULBIT(c) = b
    BY <1>0, IndexOf
<1> HIDE DEF c
<1>2. c < (MaxUlongs + 1) * HWLOC_BITS_PER_LONG
    BY <1>0, <1>1, IndexBelow
<1>3. c \in Universe
    <2>1. (MaxUlongs + 1) * HWLOC_BITS_PER_LONG \in Nat
        BY <1>0, SizeAssumption
    <2> QED BY <1>1, <1>2, <2>1 DEF Universe
<1> QED BY <1>1, <1>3 DEF c, Bits, isset

(* An index of the denoted set is a bit of a word that can be read.        *)
LEMMA BitWord ==
    ASSUME NEW s \in Bitmap, NEW c \in Bits(s)
    PROVE  /\ c \in Universe /\ c \in Nat
           /\ INDEX(c) \in 0..MaxUlongs /\ CPU_ULBIT(c) \in Bit
           /\ CPU_ULBIT(c) \in READULONG(s, INDEX(c))
           /\ c = HWLOC_BITS_PER_LONG * INDEX(c) + CPU_ULBIT(c)
<1>1. c \in Universe /\ isset(s, c)
    BY DEF Bits
<1>2. c \in Nat /\ INDEX(c) \in Nat /\ CPU_ULBIT(c) \in Bit /\ INDEX(c) <= MaxUlongs
    BY <1>1, IndexTypes
<1> QED BY <1>1, <1>2, IndexSplit, SizeAssumption DEF isset

(* The valid words are read as they are, those beyond show the flag; the   *)
(* last word of the universe is always beyond.                             *)
LEMMA Reads ==
    ASSUME NEW s \in Bitmap
    PROVE  /\ s.count \in 1..MaxUlongs /\ s.infinite \in BOOLEAN
           /\ 0..(s.count - 1) \subseteq 0..MaxUlongs
           /\ \A i \in 0..(s.count - 1) :
                 READULONG(s, i) = s.ulongs[i] /\ s.ulongs[i] \in SUBSET Bit
           /\ \A i \in 0..MaxUlongs : READULONG(s, i) \in SUBSET Bit
           /\ \A i \in 0..MaxUlongs : i \notin 0..(s.count - 1) =>
                 i >= s.count /\ READULONG(s, i) = IF s.infinite THEN FULL ELSE ZERO
           /\ MaxUlongs \in 0..MaxUlongs /\ MaxUlongs \notin 0..(s.count - 1)
           /\ 0 \in Bit /\ FULL # ZERO
<1>1. /\ s.count \in Nat /\ 1 <= s.count /\ s.count <= MaxUlongs /\ MaxUlongs \in Nat
      /\ s.infinite \in BOOLEAN /\ s.ulongs \in [0..(s.count - 1) -> SUBSET Bit]
    BY BitmapFields, SizeAssumption DEF WordSeq
<1>2. 0 \in Bit /\ FULL # ZERO
    BY SizeAssumption DEF Bit, FULL, ZERO
<1>3. \A i \in 0..MaxUlongs : READULONG(s, i) \in SUBSET Bit
    BY <1>1, ReadType
<1>4. \A i \in 0..(s.count - 1) :
          READULONG(s, i) = s.ulongs[i] /\ s.ulongs[i] \in SUBSET Bit
    BY <1>1 DEF READULONG
<1>5. \A i \in 0..MaxUlongs : i \notin 0..(s.count - 1) =>
          i >= s.count /\ READULONG(s, i) = IF s.infinite THEN FULL ELSE ZERO
    BY <1>1 DEF READULONG
<1> QED BY <1>1, <1>2, <1>3, <1>4, <1>5

(* The words that a query of two bitmaps visits cover both; beyond them    *)
(* both show their flags.                                                  *)
LEMMA PairReads ==
    ASSUME NEW s \in Bitmap, NEW t \in Bitmap
    PROVE  /\ 0..(s.count - 1) \subseteq AllWords(s, t)
           /\ 0..(t.count - 1) \subseteq AllWords(s, t)
           /\ AllWords(s, t) \subseteq 0..MaxUlongs
           /\ MaxUlongs \in 0..MaxUlongs /\ MaxUlongs \notin AllWords(s, t)
           /\ \A i \in 0..MaxUlongs : i \notin AllWords(s, t) =>
                 /\ READULONG(s, i) = IF s.infinite THEN FULL ELSE ZERO
                 /\ READULONG(t, i) = IF t.infinite THEN FULL ELSE ZERO
<1>1. /\ s.count \in Nat /\ 1 <= s.count /\ s.count <= MaxUlongs
      /\ t.count \in Nat /\ 1 <= t.count /\ t.count <= MaxUlongs /\ MaxUlongs \in Nat
    BY BitmapFields, SizeAssumption
<1>2. /\ 0..(s.count - 1) \subseteq AllWords(s, t)
      /\ 0..(t.count - 1) \subseteq AllWords(s, t)
      /\ AllWords(s, t) \subseteq 0..MaxUlongs
      /\ MaxUlongs \in 0..MaxUlongs /\ MaxUlongs \notin AllWords(s, t)
    BY <1>1 DEF AllWords, Larger
<1> QED BY <1>2, Reads

(* Two bitmaps denote the same set just when they read the same.           *)
LEMMA SameWords ==
    ASSUME NEW s \in Bitmap, NEW t \in Bitmap
    PROVE  Bits(s) = Bits(t) <=> \A i \in 0..MaxUlongs : READULONG(s, i) = READULONG(t, i)
<1>1. ASSUME \A i \in 0..MaxUlongs : READULONG(s, i) = READULONG(t, i)
      PROVE  Bits(s) = Bits(t)
    <2>1. \A c \in Universe : isset(s, c) <=> isset(t, c)
        <3>1. \A c \in Universe : INDEX(c) \in 0..MaxUlongs
            BY IndexTypes, SizeAssumption
        <3> QED BY <1>1, <3>1 DEF isset
    <2> QED BY <2>1 DEF Bits
<1>2. ASSUME Bits(s) = Bits(t), NEW i \in 0..MaxUlongs
      PROVE  READULONG(s, i) = READULONG(t, i)
    <2>1. READULONG(s, i) \in SUBSET Bit /\ READULONG(t, i) \in SUBSET Bit
        BY Reads
    <2>2. \A b \in Bit : b \in READULONG(s, i) <=> b \in READULONG(t, i)
        BY <1>2, WordBit
    <2> QED BY <2>1, <2>2
<1> QED BY <1>1, <1>2

(* A word with a bit gives the set an index.                               *)
LEMMA InclusionOfWords ==
    ASSUME NEW s \in Bitmap, NEW t \in Bitmap
    PROVE  /\ Bits(s) \subseteq Bits(t)
                <=> \A i \in 0..MaxUlongs : READULONG(s, i) \subseteq READULONG(t, i)
           /\ Bits(s) \cap Bits(t) # {}
                <=> \E i \in 0..MaxUlongs : READULONG(s, i) \cap READULONG(t, i) # ZERO
<1>0. \A i \in 0..MaxUlongs : READULONG(s, i) \subseteq Bit /\ READULONG(t, i) \subseteq Bit
    BY Reads
<1>1. ASSUME \A i \in 0..MaxUlongs : READULONG(s, i) \subseteq READULONG(t, i)
      PROVE  Bits(s) \subseteq Bits(t)
    <2> SUFFICES ASSUME NEW c \in Bits(s) PROVE c \in Bits(t)
        OBVIOUS
    <2>1. /\ c \in Universe /\ INDEX(c) \in 0..MaxUlongs
          /\ CPU_ULBIT(c) \in READULONG(s, INDEX(c))
        BY BitWord
    <2> QED BY <1>1, <2>1 DEF Bits, isset
<1>2. ASSUME Bits(s) \subseteq Bits(t), NEW i \in 0..MaxUlongs, NEW b \in READULONG(s, i)
      PROVE  b \in READULONG(t, i)
    <2>1. b \in Bit
        BY <1>0
    <2> QED BY <1>2, <2>1, WordBit
<1>3. ASSUME NEW c \in Bits(s) \cap Bits(t)
      PROVE  \E i \in 0..MaxUlongs : READULONG(s, i) \cap READULONG(t, i) # ZERO
    <2>1. /\ INDEX(c) \in 0..MaxUlongs
          /\ CPU_ULBIT(c) \in READULONG(s, INDEX(c)) /\ CPU_ULBIT(c) \in READULONG(t, INDEX(c))
        BY BitWord
    <2> QED BY <2>1 DEF ZERO
<1>4. ASSUME NEW i \in 0..MaxUlongs, READULONG(s, i) \cap READULONG(t, i) # ZERO
      PROVE  Bits(s) \cap Bits(t) # {}
    <2>1. PICK b \in Bit : b \in READULONG(s, i) /\ b \in READULONG(t, i)
        BY <1>0, <1>4 DEF ZERO
    <2>2. HWLOC_BITS_PER_LONG * i + b \in Bits(s) /\ HWLOC_BITS_PER_LONG * i + b \in Bits(t)
        BY <2>1, WordBit
    <2> QED BY <2>2
<1> QED BY <1>1, <1>2, <1>3, <1>4

-----------------------------------------------------------------------------
(* The queries that answer yes or no.                                      *)

(* isequal is equality of the denoted sets.                                *)
LEMMA EqualExact ==
    ASSUME NEW s \in Bitmap, NEW t \in Bitmap
    PROVE  isequal(s, t) <=> Bits(s) = Bits(t)
<1>1. s.infinite \in BOOLEAN /\ t.infinite \in BOOLEAN /\ FULL # ZERO
    BY Reads
<1>2. ASSUME isequal(s, t), NEW i \in 0..MaxUlongs
      PROVE  READULONG(s, i) = READULONG(t, i)
    BY <1>2, PairReads DEF isequal
<1>3. ASSUME \A i \in 0..MaxUlongs : READULONG(s, i) = READULONG(t, i)
      PROVE  isequal(s, t)
    <2>1. s.infinite = t.infinite
        BY <1>1, <1>3, PairReads
    <2>2. \A i \in AllWords(s, t) : READULONG(s, i) = READULONG(t, i)
        BY <1>3, PairReads
    <2> QED BY <2>1, <2>2 DEF isequal
<1> QED BY <1>2, <1>3, SameWords

(* intersects never answers yes wrongly, and is right when one of the      *)
(* bitmaps is finite.                                                      *)
LEMMA IntersectsExact ==
    ASSUME NEW s \in Bitmap, NEW t \in Bitmap
    PROVE  /\ intersects(s, t) => Bits(s) \cap Bits(t) # {}
           /\ Finite(s) \/ Finite(t) => (intersects(s, t) <=> Bits(s) \cap Bits(t) # {})
<1>1. ASSUME intersects(s, t)
      PROVE  Bits(s) \cap Bits(t) # {}
    BY <1>1, PairReads, InclusionOfWords DEF intersects
<1>2. ASSUME Finite(s) \/ Finite(t), Bits(s) \cap Bits(t) # {}
      PROVE  intersects(s, t)
    <2>1. PICK i \in 0..MaxUlongs : READULONG(s, i) \cap READULONG(t, i) # ZERO
        BY <1>2, InclusionOfWords
    <2>2. CASE i \in AllWords(s, t)
        BY <2>1, <2>2 DEF intersects
    <2>3. CASE i \notin AllWords(s, t)
        BY <1>2, <2>1, <2>3, PairReads DEF Finite, ZERO
    <2> QED BY <2>2, <2>3
<1> QED BY <1>1, <1>2

(* isincluded never answers no wrongly, and is right when one of the       *)
(* bitmaps is finite.                                                      *)
LEMMA IncludedExact ==
    ASSUME NEW s \in Bitmap, NEW t \in Bitmap
    PROVE  /\ Bits(s) \subseteq Bits(t) => isincluded(s, t)
           /\ Finite(s) \/ Finite(t) => (isincluded(s, t) <=> Bits(s) \subseteq Bits(t))
<1>1. s.infinite \in BOOLEAN /\ t.infinite \in BOOLEAN /\ FULL # ZERO
    BY Reads
<1>2. ASSUME Bits(s) \subseteq Bits(t)
      PROVE  isincluded(s, t)
    <2>1. \A i \in 0..MaxUlongs : READULONG(s, i) \subseteq READULONG(t, i)
        BY <1>2, InclusionOfWords
    <2>2. s.infinite => t.infinite
        BY <1>1, <2>1, PairReads DEF ZERO
    <2>3. \A i \in 0..(s.count - 1) :
              READULONG(t, i) = READULONG(t, i) \cup READULONG(s, i)
        <3>1. \A i \in 0..(s.count - 1) : i \in 0..MaxUlongs
            BY Reads
        <3> QED BY <2>1, <3>1
    <2> QED BY <2>2, <2>3 DEF isincluded
<1>3. ASSUME Finite(s) \/ Finite(t), isincluded(s, t), NEW i \in 0..MaxUlongs
      PROVE  READULONG(s, i) \subseteq READULONG(t, i)
    <2>1. s.infinite => t.infinite
        BY <1>3 DEF isincluded
    <2>2. CASE i \in 0..(s.count - 1)
        <3>1. READULONG(t, i) = READULONG(t, i) \cup READULONG(s, i)
            BY <1>3, <2>2 DEF isincluded
        <3> QED BY <3>1
    <2>3. CASE i \notin 0..(s.count - 1)
        <3>1. ~s.infinite
            BY <1>3, <2>1 DEF Finite
        <3> QED BY <2>3, <3>1, Reads DEF ZERO
    <2> QED BY <2>2, <2>3
<1> QED BY <1>2, <1>3, InclusionOfWords

(* iszero and isfull.                                                      *)
LEMMA ZeroFullExact ==
    ASSUME NEW s \in Bitmap
    PROVE  /\ iszero(s) <=> Bits(s) = {}
           /\ isfull(s) <=> Bits(s) = Universe
<1>0. s.infinite \in BOOLEAN /\ FULL # ZERO /\ 0 \in Bit
    BY Reads
<1>1. ASSUME iszero(s), NEW c \in Bits(s)
      PROVE  FALSE
    <2>1. INDEX(c) \in 0..MaxUlongs /\ CPU_ULBIT(c) \in READULONG(s, INDEX(c))
        BY BitWord
    <2>2. READULONG(s, INDEX(c)) = ZERO
        BY <1>1, <2>1, Reads DEF iszero
    <2> QED BY <2>1, <2>2 DEF ZERO
<1>2. ASSUME Bits(s) = {}
      PROVE  iszero(s)
    <2>1. \A i \in 0..MaxUlongs : READULONG(s, i) = ZERO
        <3> SUFFICES ASSUME NEW i \in 0..MaxUlongs, NEW b \in READULONG(s, i)
                     PROVE  FALSE
            BY DEF ZERO
        <3>1. b \in Bit
            BY Reads
        <3> QED BY <1>2, <3>1, WordBit
    <2>2. ~s.infinite
        BY <1>0, <2>1, Reads
    <2>3. \A i \in 0..(s.count - 1) : s.ulongs[i] = ZERO
        BY <2>1, Reads
    <2> QED BY <2>2, <2>3 DEF iszero
<1>3. ASSUME isfull(s), NEW c \in Universe
      PROVE  c \in Bits(s)
    <2>1. INDEX(c) \in 0..MaxUlongs /\ CPU_ULBIT(c) \in Bit
        BY IndexTypes, SizeAssumption
    <2>2. READULONG(s, INDEX(c)) = FULL
        BY <1>3, <2>1, Reads DEF isfull
    <2> QED BY <2>1, <2>2 DEF FULL, Bits, isset
<1>4. ASSUME Bits(s) = Universe
      PROVE  isfull(s)
    <2>1. \A i \in 0..MaxUlongs : READULONG(s, i) = FULL
        <3> SUFFICES ASSUME NEW i \in 0..MaxUlongs PROVE READULONG(s, i) = FULL
            OBVIOUS
        <3>1. READULONG(s, i) \subseteq Bit
            BY Reads
        <3>2. \A b \in Bit : b \in READULONG(s, i)
            BY <1>4, WordBit
        <3> QED BY <3>1, <3>2 DEF FULL
    <2>2. s.infinite
        BY <1>0, <2>1, Reads
    <2>3. \A i \in 0..(s.count - 1) : s.ulongs[i] = FULL
        BY <2>1, Reads
    <2> QED BY <2>2, <2>3 DEF isfull
<1>5. Bits(s) \subseteq Universe
    BY DEF Bits
<1> QED BY <1>1, <1>2, <1>3, <1>4, <1>5

-----------------------------------------------------------------------------
(* The queries that order two bitmaps.                                     *)

(* Bitmaps of different flags differ in the highest index.                 *)
LEMMA FlagsDiffer ==
    ASSUME NEW s \in Bitmap, NEW t \in Bitmap, s.infinite # t.infinite
    PROVE  /\ Bits(s) # Bits(t)
           /\ MaxOf(Differing(Bits(s), Bits(t))) \in Bits(t) <=> t.infinite
<1> DEFINE W == HWLOC_BITS_PER_LONG
           top == W * MaxUlongs + (W - 1)
           D == Differing(Bits(s), Bits(t))
<1>1. /\ W \in Nat /\ W > 0 /\ MaxUlongs \in Nat /\ W - 1 \in Bit /\ MaxUlongs \in 0..MaxUlongs
      /\ s.infinite \in BOOLEAN /\ t.infinite \in BOOLEAN
    BY Reads, SizeAssumption DEF Bit
<1>2. /\ top \in Universe
      /\ top \in Bits(s) <=> W - 1 \in READULONG(s, MaxUlongs)
      /\ top \in Bits(t) <=> W - 1 \in READULONG(t, MaxUlongs)
    BY <1>1, WordBit
<1>3. /\ READULONG(s, MaxUlongs) = IF s.infinite THEN FULL ELSE ZERO
      /\ READULONG(t, MaxUlongs) = IF t.infinite THEN FULL ELSE ZERO
    BY PairReads
<1>4. (top \in Bits(s) <=> s.infinite) /\ (top \in Bits(t) <=> t.infinite)
    BY <1>1, <1>2, <1>3 DEF FULL, ZERO
<1>5. top = (MaxUlongs + 1) * W - 1
    BY <1>1
<1>6. Universe \subseteq Nat /\ \A c \in Universe : c <= top
    BY <1>1, <1>5 DEF Universe
<1>7. D \subseteq Universe
    BY DEF Bits, Differing
<1>8. top \in D
    BY <1>1, <1>4 DEF Differing
<1> HIDE DEF top, D
<1>9. MaxOf(D) = top
    BY <1>6, <1>7, <1>8, HighestIs
<1> QED BY <1>1, <1>4, <1>9 DEF D

(* Bitmaps of the same flag that differ do so first, from above, in the    *)
(* highest of the visited words that differ, and in its highest bit.       *)
LEMMA WordsDiffer ==
    ASSUME NEW s \in Bitmap, NEW t \in Bitmap, s.infinite = t.infinite,
           NEW diff, diff = {i \in AllWords(s, t) : READULONG(s, i) # READULONG(t, i)},
           diff # {}
    PROVE  /\ Bits(s) # Bits(t)
           /\ MaxOf(Differing(Bits(s), Bits(t))) \in Bits(t)
                 <=> ULongLess(READULONG(s, MaxOf(diff)), READULONG(t, MaxOf(diff)))
<1> DEFINE W == HWLOC_BITS_PER_LONG
           D == Differing(Bits(s), Bits(t))
           i == MaxOf(diff)
           v == READULONG(s, i)
           w == READULONG(t, i)
           E == (v \ w) \cup (w \ v)
           m == MaxOf(E)
           d == W * i + m
<1>1. MaxUlongs \in Nat /\ diff \subseteq 0..MaxUlongs
    BY PairReads, SizeAssumption
<1>2. i \in diff /\ \A j \in diff : i >= j
    <2>1. diff \subseteq Nat /\ \A j \in diff : j <= MaxUlongs
        BY <1>1
    <2> QED BY <1>1, <2>1, MaxOfNat
<1> HIDE DEF i
<1>3. i \in 0..MaxUlongs /\ v # w /\ v \subseteq Bit /\ w \subseteq Bit
    BY <1>1, <1>2, Reads
<1>4. E \in SUBSET Bit /\ E # ZERO
    BY <1>3 DEF ZERO
<1>5. m \in E /\ \A b \in E : m >= b
    BY <1>4, WordEnds
<1> HIDE DEF m
<1>6. m \in Bit /\ (m \in v <=> m \notin w)
    BY <1>4, <1>5
<1>7. /\ d \in Universe /\ INDEX(d) = i /\ CPU_ULBIT(d) = m
      /\ d \in Bits(s) <=> m \in v
      /\ d \in Bits(t) <=> m \in w
    BY <1>3, <1>6, WordBit
<1> HIDE DEF d
<1>8. d \in D
    BY <1>6, <1>7 DEF Differing
<1>9. D \subseteq Universe /\ Universe \subseteq Nat
    BY IndexTypes DEF Differing, Bits
<1>10. ASSUME NEW c \in D PROVE c <= d
    <2>1. /\ c \in Universe /\ c \in Nat /\ INDEX(c) \in 0..MaxUlongs /\ CPU_ULBIT(c) \in Bit
          /\ CPU_ULBIT(c) \in READULONG(s, INDEX(c))
                <=> CPU_ULBIT(c) \notin READULONG(t, INDEX(c))
        <3>1. c \in Universe
            BY <1>9
        <3>2. c \in Nat /\ INDEX(c) \in 0..MaxUlongs /\ CPU_ULBIT(c) \in Bit
            BY <3>1, IndexTypes, SizeAssumption
        <3>3. c \in Bits(s) <=> c \notin Bits(t)
            BY DEF Differing
        <3> QED BY <3>1, <3>2, <3>3 DEF Bits, isset
    <2>2. INDEX(c) \in AllWords(s, t)
        BY <2>1, PairReads
    <2>3. INDEX(c) \in diff
        BY <2>1, <2>2
    <2>4. INDEX(c) <= i
        BY <1>2, <2>3, <1>1
    <2>5. CASE INDEX(c) = i
        <3>1. CPU_ULBIT(c) \in E
            BY <2>1, <2>5
        <3>2. CPU_ULBIT(c) <= m
            BY <1>5, <3>1, <2>1, <1>6, SizeAssumption DEF Bit
        <3> QED BY <2>1, <2>5, <3>2, <1>7, <1>9, IndexOrder
    <2>6. CASE INDEX(c) # i
        <3>1. INDEX(c) < i
            BY <2>4, <2>6, <2>1, <1>3
        <3> QED BY <2>1, <3>1, <1>7, <1>9, IndexOrder
    <2> QED BY <2>5, <2>6
<1> HIDE DEF D
<1>11. MaxOf(D) = d
    <2>1. D \subseteq Nat
        BY <1>9
    <2> QED BY <2>1, <1>8, <1>10, HighestIs
<1>12. ULongLess(v, w) <=> m \in w
    BY DEF ULongLess, m
<1>13. Bits(s) # Bits(t)
    BY <1>8 DEF D, Differing
<1> QED BY <1>7, <1>11, <1>12, <1>13 DEF D, i

(* compare orders two bitmaps by the highest index they differ in.         *)
LEMMA CompareExact ==
    ASSUME NEW s \in Bitmap, NEW t \in Bitmap
    PROVE  compare(s, t) =
               IF Bits(s) = Bits(t) THEN 0
               ELSE IF MaxOf(Differing(Bits(s), Bits(t))) \in Bits(t) THEN -1 ELSE 1
<1> DEFINE diff == {i \in AllWords(s, t) : READULONG(s, i) # READULONG(t, i)}
<1>0. s.infinite \in BOOLEAN /\ t.infinite \in BOOLEAN
    BY Reads
<1>1. CASE s.infinite # t.infinite
    <2>1. compare(s, t) = BoolToInt(s.infinite) - BoolToInt(t.infinite)
        BY <1>1 DEF compare
    <2>2. compare(s, t) = IF t.infinite THEN -1 ELSE 1
        BY <1>0, <1>1, <2>1 DEF BoolToInt
    <2> QED BY <1>1, <2>2, FlagsDiffer
<1>2. CASE s.infinite = t.infinite /\ diff = {}
    <2>1. isequal(s, t)
        BY <1>2 DEF isequal
    <2>2. compare(s, t) = 0
        BY <1>2 DEF compare
    <2> QED BY <2>1, <2>2, EqualExact
<1>3. CASE s.infinite = t.infinite /\ diff # {}
    <2>1. compare(s, t) = IF ULongLess(READULONG(s, MaxOf(diff)), READULONG(t, MaxOf(diff)))
                          THEN -1 ELSE 1
        BY <1>3, Zenon DEF compare
    <2> HIDE DEF diff
    <2>2. diff = {i \in AllWords(s, t) : READULONG(s, i) # READULONG(t, i)}
        BY DEF diff
    <2> QED BY <1>3, <2>1, <2>2, WordsDiffer
<1> QED BY <1>1, <1>2, <1>3

-----------------------------------------------------------------------------
(* The queries that find an index.                                         *)

(* The least index of a set is the least bit of the lowest of its words.   *)
LEMMA LowestOfWords ==
    ASSUME NEW T, T \subseteq Universe, NEW i \in 0..MaxUlongs,
           NEW w \in SUBSET Bit, w # ZERO,
           \A b \in Bit : b \in w <=> HWLOC_BITS_PER_LONG * i + b \in T,
           \A c \in T : i <= INDEX(c)
    PROVE  T # {} /\ MinOf(T) = HWLOC_BITS_PER_LONG * i + MinOf(w)
<1> DEFINE W == HWLOC_BITS_PER_LONG
           m == MinOf(w)
           d == W * i + m
<1>1. m \in w /\ m \in Bit /\ \A b \in w : m <= b
    BY WordEnds
<1> HIDE DEF m
<1>2. i \in Nat
    BY SizeAssumption
<1>3. d \in T /\ d \in Nat /\ INDEX(d) = i /\ CPU_ULBIT(d) = m
    BY <1>1, <1>2, IndexOf
<1> HIDE DEF d
<1>4. ASSUME NEW c \in T PROVE d <= c
    <2>1. c \in Nat /\ INDEX(c) \in Nat /\ CPU_ULBIT(c) \in Bit
          /\ c = W * INDEX(c) + CPU_ULBIT(c) /\ i <= INDEX(c)
        BY IndexTypes, IndexSplit
    <2>2. CASE INDEX(c) = i
        <3>1. CPU_ULBIT(c) \in w
            BY <2>1, <2>2
        <3> QED BY <1>1, <1>3, <2>1, <2>2, <3>1, IndexOrder
    <2>3. CASE INDEX(c) # i
        <3>1. i < INDEX(c)
            BY <1>2, <2>1, <2>3
        <3> QED BY <1>3, <2>1, <3>1, IndexOrder
    <2> QED BY <2>2, <2>3
<1>5. T \subseteq Nat
    BY IndexTypes
<1> QED BY <1>3, <1>4, <1>5, LowestIs DEF d, m

(* The greatest index of a set is the greatest bit of the highest word.    *)
LEMMA HighestOfWords ==
    ASSUME NEW T, T \subseteq Universe, NEW i \in 0..MaxUlongs,
           NEW w \in SUBSET Bit, w # ZERO,
           \A b \in Bit : b \in w <=> HWLOC_BITS_PER_LONG * i + b \in T,
           \A c \in T : INDEX(c) <= i
    PROVE  T # {} /\ MaxOf(T) = HWLOC_BITS_PER_LONG * i + MaxOf(w)
<1> DEFINE W == HWLOC_BITS_PER_LONG
           m == MaxOf(w)
           d == W * i + m
<1>1. m \in w /\ m \in Bit /\ \A b \in w : m >= b
    BY WordEnds
<1> HIDE DEF m
<1>2. i \in Nat
    BY SizeAssumption
<1>3. d \in T /\ d \in Nat /\ INDEX(d) = i /\ CPU_ULBIT(d) = m
    BY <1>1, <1>2, IndexOf
<1> HIDE DEF d
<1>4. ASSUME NEW c \in T PROVE c <= d
    <2>1. c \in Nat /\ INDEX(c) \in Nat /\ CPU_ULBIT(c) \in Bit
          /\ c = W * INDEX(c) + CPU_ULBIT(c) /\ INDEX(c) <= i
        BY IndexTypes, IndexSplit
    <2>2. CASE INDEX(c) = i
        <3>1. CPU_ULBIT(c) \in w
            BY <2>1, <2>2
        <3>2. CPU_ULBIT(c) <= m
            BY <1>1, <2>1, <3>1, SizeAssumption DEF Bit
        <3> QED BY <1>3, <2>1, <2>2, <3>2, IndexOrder
    <2>3. CASE INDEX(c) # i
        <3>1. INDEX(c) < i
            BY <1>2, <2>1, <2>3
        <3> QED BY <1>3, <2>1, <3>1, IndexOrder
    <2> QED BY <2>2, <2>3
<1>5. T \subseteq Nat
    BY IndexTypes
<1> QED BY <1>3, <1>4, <1>5, HighestIs DEF d, m

(* The first index beyond the valid words.                                 *)
LEMMA LimitIndex ==
    ASSUME NEW s \in Bitmap
    PROVE  /\ Limit(s) \in Universe /\ Limit(s) \in Nat /\ INDEX(Limit(s)) = s.count
           /\ Limit(s) \in Bits(s) <=> s.infinite
           /\ \A c \in Bits(s) : Limit(s) <= c => s.infinite
<1>1. s.count \in 0..MaxUlongs /\ s.count \in Nat /\ 0 \in Bit
    BY Reads, SizeAssumption
<1>2. Limit(s) = HWLOC_BITS_PER_LONG * s.count + 0
    BY <1>1, SizeAssumption DEF Limit
<1>3. Limit(s) \in Universe /\ INDEX(Limit(s)) = s.count
    BY <1>1, <1>2, WordBit
<1>4. Limit(s) \in Nat
    BY <1>3, IndexTypes
<1>5. Limit(s) \in Bits(s) <=> s.infinite
    BY <1>3, <1>4, BeyondLimit DEF Bits
<1>6. \A c \in Bits(s) : Limit(s) <= c => s.infinite
    BY BeyondLimit DEF Bits
<1> QED BY <1>3, <1>4, <1>5, <1>6

(* first is the least index of the set, in the infinite part when no valid *)
(* word has one.                                                           *)
LEMMA FirstExact ==
    ASSUME NEW s \in Bitmap
    PROVE  first(s) = LowestOr(Bits(s), -1)
<1> DEFINE NZ == NonZero(s)
           i == MinOf(NZ)
<1>0. Bits(s) \subseteq Universe
    BY DEF Bits
<1>1. CASE NZ # {}
    <2>1. i \in NZ /\ \A j \in NZ : i <= j
        <3>1. NZ \subseteq Nat
            BY Reads DEF NonZero
        <3> QED BY <1>1, <3>1, MinOfNat
    <2>2. first(s) = ffsl(s.ulongs[i]) - 1 + HWLOC_BITS_PER_LONG * i
        BY <1>1 DEF first
    <2> HIDE DEF i
    <2>3. /\ i \in 0..MaxUlongs /\ i \in Nat /\ s.ulongs[i] \in SUBSET Bit /\ s.ulongs[i] # ZERO
          /\ READULONG(s, i) = s.ulongs[i]
        BY <2>1, Reads DEF NonZero
    <2>4. \A b \in Bit : b \in s.ulongs[i] <=> HWLOC_BITS_PER_LONG * i + b \in Bits(s)
        BY <2>3, WordBit
    <2>5. ASSUME NEW c \in Bits(s) PROVE i <= INDEX(c)
        <3>1. INDEX(c) \in 0..MaxUlongs /\ CPU_ULBIT(c) \in READULONG(s, INDEX(c))
            BY BitWord
        <3>2. CASE INDEX(c) \in 0..(s.count - 1)
            <4>1. INDEX(c) \in NZ
                BY <3>1, <3>2, Reads DEF NonZero, ZERO
            <4> QED BY <2>1, <4>1
        <3>3. CASE INDEX(c) \notin 0..(s.count - 1)
            <4>1. INDEX(c) >= s.count /\ i < s.count /\ s.count \in Nat
                BY <2>1, <3>1, <3>3, Reads DEF NonZero
            <4> QED BY <2>3, <3>1, <4>1
        <3> QED BY <3>2, <3>3
    <2>6. Bits(s) # {} /\ MinOf(Bits(s)) = HWLOC_BITS_PER_LONG * i + MinOf(s.ulongs[i])
        BY <1>0, <2>3, <2>4, <2>5, LowestOfWords
    <2>7. ffsl(s.ulongs[i]) = MinOf(s.ulongs[i]) + 1 /\ MinOf(s.ulongs[i]) \in Nat
        BY <2>3, WordEnds, SizeAssumption DEF Bit
    <2>8. HWLOC_BITS_PER_LONG * i \in Nat
        BY <2>3, SizeAssumption
    <2> QED BY <2>2, <2>6, <2>7, <2>8 DEF LowestOr
<1>2. CASE NZ = {}
    <2>1. first(s) = IF s.infinite THEN Limit(s) ELSE -1
        BY <1>2 DEF first
    <2>2. \A c \in Bits(s) : c \in Nat /\ Limit(s) <= c
        <3> SUFFICES ASSUME NEW c \in Bits(s) PROVE c \in Nat /\ Limit(s) <= c
            OBVIOUS
        <3>1. c \in Nat /\ INDEX(c) \in 0..MaxUlongs /\ CPU_ULBIT(c) \in READULONG(s, INDEX(c))
            BY BitWord
        <3>2. INDEX(c) \notin 0..(s.count - 1)
            BY <1>2, <3>1, Reads DEF NonZero, ZERO
        <3>3. ~(INDEX(c) < s.count)
            BY <3>1, <3>2, Reads
        <3> QED BY <3>1, <3>3, BelowLimit
    <2>3. CASE s.infinite
        <3>1. Limit(s) \in Bits(s) /\ Bits(s) \subseteq Nat
            BY <2>2, <2>3, LimitIndex
        <3>2. MinOf(Bits(s)) = Limit(s)
            BY <2>2, <3>1, LowestIs
        <3> QED BY <2>1, <2>3, <3>1, <3>2 DEF LowestOr
    <2>4. CASE ~s.infinite
        <3>1. Bits(s) = {}
            BY <2>2, <2>4, LimitIndex
        <3> QED BY <2>1, <2>4, <3>1 DEF LowestOr
    <2> QED BY <2>3, <2>4
<1> QED BY <1>1, <1>2

(* last is the greatest index of a finite set.                             *)
LEMMA LastExact ==
    ASSUME NEW s \in Bitmap
    PROVE  last(s) = IF s.infinite \/ Bits(s) = {} THEN -1 ELSE MaxOf(Bits(s))
<1> DEFINE NZ == NonZero(s)
           i == MaxOf(NZ)
<1>0. Bits(s) \subseteq Universe /\ s.infinite \in BOOLEAN
    BY Reads DEF Bits
<1>1. CASE s.infinite
    BY <1>1 DEF last
<1>2. CASE ~s.infinite /\ NZ = {}
    <2>1. iszero(s)
        BY <1>2 DEF iszero, NonZero
    <2> QED BY <1>2, <2>1, ZeroFullExact DEF last
<1>3. CASE ~s.infinite /\ NZ # {}
    <2>1. i \in NZ /\ \A j \in NZ : i >= j
        <3>1. NZ \subseteq Nat /\ s.count \in Nat /\ \A j \in NZ : j <= s.count
            BY Reads DEF NonZero
        <3> QED BY <1>3, <3>1, MaxOfNat
    <2>2. last(s) = flsl(s.ulongs[i]) - 1 + HWLOC_BITS_PER_LONG * i
        BY <1>3 DEF last
    <2> HIDE DEF i
    <2>3. /\ i \in 0..MaxUlongs /\ i \in Nat /\ s.ulongs[i] \in SUBSET Bit /\ s.ulongs[i] # ZERO
          /\ READULONG(s, i) = s.ulongs[i]
        BY <2>1, Reads DEF NonZero
    <2>4. \A b \in Bit : b \in s.ulongs[i] <=> HWLOC_BITS_PER_LONG * i + b \in Bits(s)
        BY <2>3, WordBit
    <2>5. ASSUME NEW c \in Bits(s) PROVE INDEX(c) <= i
        <3>1. INDEX(c) \in 0..MaxUlongs /\ CPU_ULBIT(c) \in READULONG(s, INDEX(c))
            BY BitWord
        <3>2. INDEX(c) \in 0..(s.count - 1)
            BY <1>3, <3>1, Reads DEF ZERO
        <3>3. INDEX(c) \in NZ
            BY <3>1, <3>2, Reads DEF NonZero, ZERO
        <3> QED BY <2>1, <2>3, <3>1, <3>3
    <2>6. Bits(s) # {} /\ MaxOf(Bits(s)) = HWLOC_BITS_PER_LONG * i + MaxOf(s.ulongs[i])
        BY <1>0, <2>3, <2>4, <2>5, HighestOfWords
    <2>7. flsl(s.ulongs[i]) = MaxOf(s.ulongs[i]) + 1 /\ MaxOf(s.ulongs[i]) \in Nat
        BY <2>3, WordEnds, SizeAssumption DEF Bit
    <2>8. HWLOC_BITS_PER_LONG * i \in Nat
        BY <2>3, SizeAssumption
    <2> QED BY <1>3, <2>2, <2>6, <2>7, <2>8
<1> QED BY <1>0, <1>1, <1>2, <1>3

(* What After leaves of a word are its indexes after prev.                 *)
LEMMA AfterWord ==
    ASSUME NEW s \in Bitmap, NEW prev \in Cpu \cup {-1},
           NEW i \in 0..(s.count - 1), INDEX(prev + 1) <= i, NEW b \in Bit
    PROVE  LET c == HWLOC_BITS_PER_LONG * i + b
           IN  b \in After(s, prev, i) <=> c \in Bits(s) /\ c > prev
<1> DEFINE c == HWLOC_BITS_PER_LONG * i + b
<1>1. /\ i \in 0..MaxUlongs /\ i \in Nat /\ READULONG(s, i) = s.ulongs[i] /\ b \in Nat
    BY Reads, SizeAssumption DEF Bit
<1>2. /\ c \in Universe /\ c \in Nat /\ INDEX(c) = i /\ CPU_ULBIT(c) = b
      /\ c \in Bits(s) <=> b \in s.ulongs[i]
    BY <1>1, WordBit, IndexTypes
<1> HIDE DEF c
<1>3. CASE prev = -1
    BY <1>2, <1>3 DEF After, c, ZERO
<1>4. CASE prev # -1
    <2>1. prev \in Nat /\ prev + 1 \in Nat
        BY <1>4, IndexTypes
    <2>2. INDEX(prev) \in Nat /\ INDEX(prev + 1) \in Nat /\ CPU_ULBIT(prev) \in Nat
        BY <2>1, IndexSplit, SizeAssumption DEF Bit
    <2>3. INDEX(prev) <= INDEX(prev + 1)
        <3>1. prev <= prev + 1
            BY <2>1
        <3> QED BY <2>1, <2>2, <3>1, IndexOrder
    <2>4. INDEX(prev) <= i
        BY <1>1, <2>2, <2>3
    <2>5. c <= prev <=> INDEX(prev) = i /\ b <= CPU_ULBIT(prev)
        BY <1>1, <1>2, <2>1, <2>2, <2>4, IndexOrder
    <2>6. c > prev <=> ~(INDEX(prev) = i /\ b <= CPU_ULBIT(prev))
        BY <1>2, <2>1, <2>5
    <2>7. b \in After(s, prev, i)
             <=> b \in s.ulongs[i] /\ ~(INDEX(prev) = i /\ b <= CPU_ULBIT(prev))
        BY <1>1, <2>1, <2>2 DEF After, ZERO
    <2> QED BY <1>2, <2>6, <2>7 DEF c
<1> QED BY <1>3, <1>4

(* next is the least index after prev, whether prev is in a valid word, is *)
(* their last index or lies beyond them, and -1 when there is none.        *)
LEMMA NextExact ==
    ASSUME NEW s \in Bitmap, NEW prev \in Cpu \cup {-1}
    PROVE  next(s, prev) = LowestOr({c \in Bits(s) : c > prev}, -1)
<1> DEFINE W == HWLOC_BITS_PER_LONG
           T == {c \in Bits(s) : c > prev}
           start == INDEX(prev + 1)
           found == {i \in start..(s.count - 1) : After(s, prev, i) # ZERO}
<1>1. /\ prev \in Int /\ prev + 1 \in Nat /\ start \in Nat
      /\ s.count \in Nat /\ s.infinite \in BOOLEAN
    BY IndexTypes, IndexSplit, Reads
<1>2. T \subseteq Universe /\ T \subseteq Nat
    BY IndexTypes DEF Bits
<1>3. ASSUME NEW c \in T
      PROVE  /\ c \in Bits(s) /\ c \in Nat /\ prev + 1 <= c /\ c > prev
             /\ INDEX(c) \in Nat /\ start <= INDEX(c) /\ CPU_ULBIT(c) \in Bit
             /\ c = W * INDEX(c) + CPU_ULBIT(c)
    <2>1. c \in Nat /\ c > prev /\ c \in Bits(s) /\ prev + 1 <= c
        BY <1>1, <1>2
    <2>2. INDEX(c) \in Nat /\ CPU_ULBIT(c) \in Bit /\ c = W * INDEX(c) + CPU_ULBIT(c)
        BY <2>1, IndexSplit
    <2>3. start <= INDEX(c)
        BY <1>1, <2>1, <2>2, IndexOrder
    <2> QED BY <2>1, <2>2, <2>3
<1>4. ASSUME NEW c \in T, c < Limit(s)
      PROVE  INDEX(c) \in found
    <2>1. INDEX(c) < s.count
        BY <1>3, <1>4, BelowLimit
    <2>2. INDEX(c) \in start..(s.count - 1) /\ INDEX(c) \in 0..(s.count - 1)
        BY <1>1, <1>3, <2>1
    <2>3. CPU_ULBIT(c) \in After(s, prev, INDEX(c))
        BY <1>3, <2>2, AfterWord
    <2> QED BY <2>2, <2>3 DEF ZERO
<1>5. Limit(s) \in Nat
    BY LimitIndex
<1> HIDE DEF T
<1>6. CASE start >= s.count
    <2>1. next(s, prev) = IF s.infinite THEN prev + 1 ELSE -1
        BY <1>6 DEF next
    <2>2. Limit(s) <= prev + 1
        BY <1>1, <1>5, <1>6, BelowLimit
    <2>3. CASE s.infinite
        <3>1. prev + 1 \in Universe
            BY SizeAssumption, <1>1 DEF Cpu, Universe
        <3>2. prev + 1 \in T
            BY <1>1, <2>2, <2>3, <3>1, BeyondLimit DEF T, Bits
        <3>3. MinOf(T) = prev + 1
            BY <1>2, <1>3, <3>2, LowestIs
        <3> QED BY <2>1, <2>3, <3>2, <3>3 DEF LowestOr, T
    <2>4. CASE ~s.infinite
        <3>1. ASSUME NEW c \in T PROVE FALSE
            <4>1. Limit(s) <= c /\ c \in Bits(s)
                BY <1>1, <1>3, <1>5, <2>2
            <4> QED BY <2>4, <4>1, LimitIndex
        <3> QED BY <2>1, <2>4, <3>1 DEF LowestOr, T
    <2> QED BY <2>3, <2>4
<1>7. CASE ~(start >= s.count) /\ found # {}
    <2> DEFINE i == MinOf(found)
               w == After(s, prev, i)
    <2>1. next(s, prev) = ffsl(w) - 1 + W * i
        BY <1>7, Zenon DEF next
    <2>2. i \in found /\ \A j \in found : i <= j
        <3>1. found \subseteq Nat
            BY <1>1
        <3> QED BY <1>7, <3>1, MinOfNat
    <2> HIDE DEF i
    <2>3. /\ i \in 0..(s.count - 1) /\ i \in 0..MaxUlongs /\ i \in Nat /\ start <= i
          /\ i < s.count /\ w # ZERO
        BY <1>1, <2>2, Reads
    <2>4. w \in SUBSET Bit
        BY <2>3, Reads DEF After
    <2>5. \A b \in Bit : b \in w <=> W * i + b \in T
        BY <2>3, AfterWord DEF T
    <2>6. ASSUME NEW c \in T PROVE i <= INDEX(c)
        <3>1. CASE c < Limit(s)
            BY <1>4, <2>2, <3>1
        <3>2. CASE ~(c < Limit(s))
            <4>1. ~(INDEX(c) < s.count)
                BY <1>3, <3>2, BelowLimit
            <4> QED BY <1>1, <1>3, <2>3, <4>1
        <3> QED BY <3>1, <3>2
    <2> HIDE DEF w
    <2>7. T # {} /\ MinOf(T) = W * i + MinOf(w)
        BY <1>2, <2>3, <2>4, <2>5, <2>6, LowestOfWords DEF w
    <2>8. ffsl(w) = MinOf(w) + 1 /\ MinOf(w) \in Nat
        BY <2>3, <2>4, WordEnds, SizeAssumption DEF Bit, w
    <2>9. W * i \in Nat
        BY <2>3, SizeAssumption
    <2>10. next(s, prev) = MinOf(T)
        BY <2>1, <2>7, <2>8, <2>9
    <2> QED BY <2>7, <2>10 DEF LowestOr, T
<1>8. CASE ~(start >= s.count) /\ found = {}
    <2>1. next(s, prev) = IF s.infinite THEN Limit(s) ELSE -1
        BY <1>8, Zenon DEF next
    <2>2. \A c \in T : Limit(s) <= c
        BY <1>3, <1>4, <1>5, <1>8
    <2>3. CASE s.infinite
        <3>1. prev + 1 < Limit(s)
            BY <1>1, <1>8, BelowLimit
        <3>2. Limit(s) \in T
            BY <1>1, <1>5, <2>3, <3>1, LimitIndex DEF T
        <3>3. MinOf(T) = Limit(s)
            BY <1>2, <2>2, <3>2, LowestIs
        <3> QED BY <2>1, <2>3, <3>2, <3>3 DEF LowestOr, T
    <2>4. CASE ~s.infinite
        <3>1. ASSUME NEW c \in T PROVE FALSE
            BY <1>3, <2>2, <2>4, LimitIndex
        <3> QED BY <2>1, <2>4, <3>1 DEF LowestOr, T
    <2> QED BY <2>3, <2>4
<1> QED BY <1>6, <1>7, <1>8

-----------------------------------------------------------------------------
(* compare_first.                                                          *)

(* The lowest word that is not empty holds the least index.                *)
LEMMA LowestWord ==
    ASSUME NEW s \in Bitmap, NEW i \in 0..MaxUlongs, READULONG(s, i) # ZERO,
           \A j \in 0..MaxUlongs : j < i => READULONG(s, j) = ZERO
    PROVE  /\ Bits(s) # {} /\ MinOf(READULONG(s, i)) \in Bit
           /\ ffsl(READULONG(s, i)) = MinOf(READULONG(s, i)) + 1
           /\ MinOf(Bits(s)) = HWLOC_BITS_PER_LONG * i + MinOf(READULONG(s, i))
<1> DEFINE w == READULONG(s, i)
<1>1. w \in SUBSET Bit
    BY Reads
<1>2. \A b \in Bit : b \in w <=> HWLOC_BITS_PER_LONG * i + b \in Bits(s)
    BY WordBit
<1>3. ASSUME NEW c \in Bits(s) PROVE i <= INDEX(c)
    <2>1. INDEX(c) \in 0..MaxUlongs /\ CPU_ULBIT(c) \in READULONG(s, INDEX(c))
        BY BitWord
    <2>2. ~(INDEX(c) < i)
        BY <2>1 DEF ZERO
    <2> QED BY <2>1, <2>2, SizeAssumption
<1>4. Bits(s) \subseteq Universe
    BY DEF Bits
<1>5. Bits(s) # {} /\ MinOf(Bits(s)) = HWLOC_BITS_PER_LONG * i + MinOf(w)
    BY <1>1, <1>2, <1>3, <1>4, LowestOfWords
<1>6. MinOf(w) \in Bit /\ ffsl(w) = MinOf(w) + 1
    BY <1>1, WordEnds
<1> QED BY <1>5, <1>6

(* A bitmap with a bit in a word that the other one has empty, as all the  *)
(* words before it are, has the smaller least index.                       *)
LEMMA LowestAhead ==
    ASSUME NEW s \in Bitmap, NEW t \in Bitmap,
           NEW N \in Nat, Limit(s) <= N, Limit(t) <= N,
           NEW i \in 0..MaxUlongs, i < s.count \/ i < t.count,
           READULONG(s, i) # ZERO, READULONG(t, i) = ZERO,
           \A j \in 0..MaxUlongs :
               j < i => READULONG(s, j) = ZERO /\ READULONG(t, j) = ZERO
    PROVE  /\ LowestOr(Bits(s), N) \in Int /\ LowestOr(Bits(t), N) \in Int
           /\ LowestOr(Bits(s), N) < LowestOr(Bits(t), N)
<1> DEFINE W == HWLOC_BITS_PER_LONG
           m == MinOf(READULONG(s, i))
           d == W * i + m
<1>0. i \in Nat
    BY SizeAssumption
<1>1. Bits(s) # {} /\ m \in Bit /\ MinOf(Bits(s)) = d
    BY LowestWord
<1> HIDE DEF m
<1>2. d \in Nat /\ INDEX(d) = i
    BY <1>0, <1>1, IndexOf
<1> HIDE DEF d
<1>3. LowestOr(Bits(s), N) = d
    BY <1>1 DEF LowestOr
<1>4. CASE Bits(t) = {}
    <2>1. LowestOr(Bits(t), N) = N
        BY <1>4 DEF LowestOr
    <2>2. d < Limit(s) \/ d < Limit(t)
        BY <1>2, BelowLimit
    <2>3. d < N
        BY <1>2, <2>2, LimitIndex
    <2> QED BY <1>2, <1>3, <2>1, <2>3
<1>5. CASE Bits(t) # {}
    <2> DEFINE e == MinOf(Bits(t))
    <2>1. e \in Bits(t)
        BY <1>5, IndexTypes, MinOfNat DEF Bits
    <2>2. LowestOr(Bits(t), N) = e
        BY <1>5 DEF LowestOr
    <2> HIDE DEF e
    <2>3. e \in Nat /\ INDEX(e) \in 0..MaxUlongs /\ CPU_ULBIT(e) \in READULONG(t, INDEX(e))
        BY <2>1, BitWord
    <2>4. ~(INDEX(e) < i) /\ INDEX(e) # i
        BY <2>3 DEF ZERO
    <2>5. INDEX(e) \in Nat /\ i < INDEX(e)
        BY <1>0, <2>3, <2>4, SizeAssumption
    <2>6. ~(e <= d)
        BY <1>0, <1>2, <2>3, <2>5, IndexOrder
    <2>7. d < e
        BY <1>2, <2>3, <2>6
    <2> QED BY <1>2, <1>3, <2>2, <2>3, <2>7
<1> QED BY <1>4, <1>5

(* compare_first orders two bitmaps by their least indexes, unless an      *)
(* empty one is compared with an infinite one.                             *)
LEMMA CompareFirstExact ==
    ASSUME NEW s \in Bitmap, NEW t \in Bitmap,
           Bits(s) = {} \/ Bits(t) = {} => (Finite(s) <=> Finite(t))
    PROVE  Sign(compare_first(s, t))
               = Sign(LowestOr(Bits(s), Limit(s) + Limit(t))
                        - LowestOr(Bits(t), Limit(s) + Limit(t)))
<1> DEFINE N == Limit(s) + Limit(t)
           used == {i \in AllWords(s, t) : READULONG(s, i) # ZERO \/ READULONG(t, i) # ZERO}
           i == MinOf(used)
           v == READULONG(s, i)
           w == READULONG(t, i)
<1>1. N \in Nat /\ Limit(s) <= N /\ Limit(t) <= N
    BY LimitIndex
<1>2. s.infinite \in BOOLEAN /\ t.infinite \in BOOLEAN
    BY Reads
<1>3. \A x \in Int : Sign(x - x) = 0
    BY DEF Sign
<1>4. CASE used = {}
    <2>1. compare_first(s, t) = BoolToInt(s.infinite) - BoolToInt(t.infinite)
        BY <1>4, Zenon DEF compare_first
    <2>2. \A j \in AllWords(s, t) : READULONG(s, j) = ZERO /\ READULONG(t, j) = ZERO
        BY <1>4
    <2>3. s.infinite = t.infinite
        <3>1. ASSUME NEW r \in Bitmap, ~r.infinite, 0..(r.count - 1) \subseteq AllWords(s, t),
                     \A j \in AllWords(s, t) : READULONG(r, j) = ZERO
              PROVE  Bits(r) = {}
            <4>1. iszero(r)
                BY <3>1, Reads DEF iszero
            <4> QED BY <4>1, ZeroFullExact
        <3>2. (~s.infinite => Bits(s) = {}) /\ (~t.infinite => Bits(t) = {})
            BY <2>2, <3>1, PairReads
        <3> QED BY <1>2, <3>2 DEF Finite
    <2>4. isequal(s, t)
        BY <2>2, <2>3 DEF isequal
    <2>5. Bits(s) = Bits(t)
        BY <2>4, EqualExact
    <2>6. compare_first(s, t) = 0
        BY <1>2, <2>1, <2>3 DEF BoolToInt
    <2>7. LowestOr(Bits(s), N) \in Int
        <3>1. Bits(s) \subseteq Nat
            BY IndexTypes DEF Bits
        <3> QED BY <1>1, <3>1, MinOfNat DEF LowestOr
    <2>8. Sign(0) = 0
        BY DEF Sign
    <2> HIDE DEF N
    <2> QED BY <1>3, <2>5, <2>6, <2>7, <2>8 DEF N
<1>5. CASE used # {}
    <2> DEFINE f == ffsl(v)
               g == ffsl(w)
    <2>1. compare_first(s, t) = IF f > 0 /\ g > 0 THEN f - g ELSE g - f
        BY <1>5, Zenon DEF compare_first
    <2>2. i \in used /\ \A j \in used : i <= j
        <3>1. used \subseteq Nat
            BY PairReads, SizeAssumption
        <3> QED BY <1>5, <3>1, MinOfNat
    <2> HIDE DEF i
    <2>3. i \in 0..MaxUlongs /\ i \in Nat /\ (i < s.count \/ i < t.count)
        <3>1. i \in AllWords(s, t)
            BY <2>2
        <3>2. s.count \in Nat /\ t.count \in Nat
            BY Reads
        <3>3. i < s.count \/ i < t.count
            BY <3>1, <3>2 DEF AllWords, Larger
        <3> QED BY <3>1, <3>3, PairReads, SizeAssumption
    <2>4. ASSUME NEW j \in 0..MaxUlongs, j < i
          PROVE  READULONG(s, j) = ZERO /\ READULONG(t, j) = ZERO
        <3>1. j \in AllWords(s, t)
            <4>1. i \in AllWords(s, t) /\ s.count \in Nat /\ t.count \in Nat
                BY <2>2, Reads
            <4> QED BY <2>3, <2>4, <4>1, SizeAssumption DEF AllWords, Larger
        <3>2. j \notin used
            BY <2>2, <2>3, <2>4, SizeAssumption
        <3> QED BY <3>1, <3>2
    <2>5. v # ZERO \/ w # ZERO
        BY <2>2
    <2> HIDE DEF N
    <2>6. v # ZERO => f \in Nat /\ f > 0
        BY <2>3, <2>4, LowestWord, SizeAssumption DEF Bit
    <2>7. w # ZERO => g \in Nat /\ g > 0
        BY <2>3, <2>4, LowestWord, SizeAssumption DEF Bit
    <2>8. (v = ZERO => f = 0) /\ (w = ZERO => g = 0)
        BY DEF ffsl
    <2>9. CASE v # ZERO /\ w # ZERO
        <3>1. /\ Bits(s) # {} /\ MinOf(v) \in Bit /\ f = MinOf(v) + 1
              /\ MinOf(Bits(s)) = HWLOC_BITS_PER_LONG * i + MinOf(v)
            BY <2>3, <2>4, <2>9, LowestWord
        <3>2. /\ Bits(t) # {} /\ MinOf(w) \in Bit /\ g = MinOf(w) + 1
              /\ MinOf(Bits(t)) = HWLOC_BITS_PER_LONG * i + MinOf(w)
            BY <2>3, <2>4, <2>9, LowestWord
        <3>3. HWLOC_BITS_PER_LONG * i \in Nat /\ MinOf(v) \in Nat /\ MinOf(w) \in Nat
            BY <2>3, <3>1, <3>2, SizeAssumption DEF Bit
        <3>4. compare_first(s, t) = f - g
            BY <2>1, <2>6, <2>7, <2>9
        <3>5. LowestOr(Bits(s), N) - LowestOr(Bits(t), N) = f - g
            <4>1. /\ LowestOr(Bits(s), N) = HWLOC_BITS_PER_LONG * i + MinOf(v)
                  /\ LowestOr(Bits(t), N) = HWLOC_BITS_PER_LONG * i + MinOf(w)
                BY <3>1, <3>2 DEF LowestOr
            <4> QED BY <3>1, <3>2, <3>3, <4>1
        <3> QED BY <3>4, <3>5 DEF N
    <2>10. CASE v # ZERO /\ w = ZERO
        <3>1. /\ LowestOr(Bits(s), N) \in Int /\ LowestOr(Bits(t), N) \in Int
              /\ LowestOr(Bits(s), N) < LowestOr(Bits(t), N)
            BY <1>1, <2>3, <2>4, <2>10, LowestAhead
        <3>2. compare_first(s, t) = g - f /\ g - f < 0 /\ g - f \in Int
            BY <2>1, <2>6, <2>8, <2>10
        <3> HIDE DEF f, g
        <3>3. Sign(compare_first(s, t)) = -1
            BY <3>2 DEF Sign
        <3>4. Sign(LowestOr(Bits(s), N) - LowestOr(Bits(t), N)) = -1
            BY <3>1 DEF Sign
        <3> QED BY <3>3, <3>4 DEF N
    <2>11. CASE v = ZERO /\ w # ZERO
        <3>1. /\ LowestOr(Bits(s), N) \in Int /\ LowestOr(Bits(t), N) \in Int
              /\ LowestOr(Bits(t), N) < LowestOr(Bits(s), N)
            BY <1>1, <2>3, <2>4, <2>11, LowestAhead
        <3>2. compare_first(s, t) = g - f /\ g - f > 0 /\ g - f \in Int
            BY <2>1, <2>7, <2>8, <2>11
        <3> HIDE DEF f, g
        <3>3. Sign(compare_first(s, t)) = 1
            BY <3>2 DEF Sign
        <3>4. Sign(LowestOr(Bits(s), N) - LowestOr(Bits(t), N)) = 1
            BY <3>1 DEF Sign
        <3> QED BY <3>3, <3>4 DEF N
    <2> QED BY <2>5, <2>9, <2>10, <2>11
<1> QED BY <1>4, <1>5

-----------------------------------------------------------------------------
(* weight: the recursive sum over the words, by the least counterexample.  *)

(* The indexes of a set that lie in the words before n.                    *)
Before(s, n) == {c \in Bits(s) : INDEX(c) < n}

(* A word adds as many indexes as it has bits.                             *)
LEMMA WordAdds ==
    ASSUME NEW s \in Bitmap, NEW n \in 0..(s.count - 1)
    PROVE  /\ IsFiniteSet(Before(s, n)) /\ IsFiniteSet(Before(s, n + 1))
           /\ Cardinality(Before(s, n)) \in Nat
           /\ Cardinality(Before(s, n + 1))
                 = Cardinality(Before(s, n)) + Cardinality(s.ulongs[n])
           /\ Cardinality(s.ulongs[n]) \in Nat
<1> DEFINE W == HWLOC_BITS_PER_LONG
           w == s.ulongs[n]
           P == {W * n + b : b \in w}
           f == [b \in w |-> W * n + b]
<1>1. n \in 0..MaxUlongs /\ n \in Nat /\ w \in SUBSET Bit /\ READULONG(s, n) = w
    BY Reads
<1>2. IsFiniteSet(Universe) /\ IsFiniteSet(Bit)
    BY FS_Interval, SizeAssumption DEF Universe, Bit
<1>3. IsFiniteSet(w)
    BY <1>1, <1>2, FS_Subset
<1>4. \A m : IsFiniteSet(Before(s, m))
    <2>1. \A m : Before(s, m) \in SUBSET Universe
        BY DEF Before, Bits
    <2> QED BY <1>2, <2>1, FS_Subset
<1>5. /\ \A b \in w : W * n + b \in Bits(s) /\ INDEX(W * n + b) = n
      /\ \A a, b \in w : W * n + a = W * n + b => a = b
    <2>1. \A b \in w : W * n + b \in Bits(s) /\ INDEX(W * n + b) = n
        BY <1>1, WordBit
    <2>2. \A b \in w : CPU_ULBIT(W * n + b) = b
        BY <1>1, WordBit
    <2> QED BY <2>1, <2>2
<1>6. Cardinality(P) = Cardinality(w) /\ IsFiniteSet(P)
    <2>1. f \in [w -> P]
        OBVIOUS
    <2>2. \A a, b \in w : f[a] = f[b] => a = b
        BY <1>5
    <2>3. \A y \in P : \E b \in w : f[b] = y
        OBVIOUS
    <2> HIDE DEF f, P
    <2>4. f \in Bijection(w, P)
        BY <2>1, <2>2, <2>3 DEF Bijection, Injection, IsInjective, Surjection
    <2>5. ExistsBijection(w, P)
        BY <2>4 DEF ExistsBijection
    <2> QED BY <1>3, <2>5, FS_Bijection
<1>7. Before(s, n + 1) = Before(s, n) \cup P
    <2>1. ASSUME NEW c \in Bits(s)
          PROVE  INDEX(c) < n + 1 <=> INDEX(c) < n \/ c \in P
        <3>1. INDEX(c) \in Nat /\ CPU_ULBIT(c) \in READULONG(s, INDEX(c))
              /\ c = W * INDEX(c) + CPU_ULBIT(c)
            BY BitWord, SizeAssumption
        <3>2. INDEX(c) = n => c \in P
            BY <1>1, <3>1
        <3>3. c \in P => INDEX(c) = n
            BY <1>5
        <3> HIDE DEF P
        <3> QED BY <1>1, <3>1, <3>2, <3>3
    <2>2. P \subseteq Bits(s)
        BY <1>5
    <2> HIDE DEF P
    <2> QED BY <2>1, <2>2 DEF Before
<1>8. Before(s, n) \cap P = {}
    <2>1. \A c \in P : ~(INDEX(c) < n)
        BY <1>1, <1>5
    <2> HIDE DEF P
    <2> QED BY <2>1 DEF Before
<1> HIDE DEF P, w
<1>9. Cardinality(Before(s, n + 1))
          = Cardinality(Before(s, n)) + Cardinality(P) - Cardinality(Before(s, n) \cap P)
    BY <1>4, <1>6, <1>7, FS_Union
<1>10. Cardinality(Before(s, n)) \in Nat /\ Cardinality(w) \in Nat
    BY <1>3, <1>4, FS_CardinalityType
<1>11. Cardinality(Before(s, n) \cap P) = 0
    BY <1>8, FS_EmptySet
<1> QED BY <1>4, <1>6, <1>9, <1>10, <1>11 DEF w

(* The sum that weight computes counts the indexes of the words added up.  *)
LEMMA WeightCounts ==
    ASSUME NEW s \in Bitmap
    PROVE  \A n \in 0..s.count : WeightUpTo(s)[n] = Cardinality(Before(s, n))
<1> DEFINE Sum(f) == [n \in 0..s.count |->
                         IF n = 0 THEN 0 ELSE f[n - 1] + Cardinality(s.ulongs[n - 1])]
           g == [n \in 0..s.count |-> Cardinality(Before(s, n))]
           h == WeightUpTo(s)
<1>0. s.count \in Nat
    BY Reads
<1>1. Cardinality(Before(s, 0)) = 0
    <2>1. Before(s, 0) = {}
        BY BitWord, SizeAssumption DEF Before
    <2> QED BY <2>1, FS_EmptySet
<1>2. \A n \in 0..s.count : n # 0 =>
          Cardinality(Before(s, n)) = g[n - 1] + Cardinality(s.ulongs[n - 1])
    <2> SUFFICES ASSUME NEW n \in 0..s.count, n # 0
                 PROVE  Cardinality(Before(s, n)) = g[n - 1] + Cardinality(s.ulongs[n - 1])
        OBVIOUS
    <2>1. n - 1 \in 0..(s.count - 1) /\ n - 1 \in 0..s.count /\ (n - 1) + 1 = n
        BY <1>0
    <2> QED BY <2>1, WordAdds
<1>3. g = Sum(g)
    BY <1>1, <1>2
<1>4. h = CHOOSE f : f = Sum(f)
    BY Zenon DEF WeightUpTo
<1> HIDE DEF g, h
<1>5. h = Sum(h)
    BY <1>3, <1>4, Zenon
<1>6. ASSUME NEW n \in 0..s.count
      PROVE  h[n] = g[n]
    <2> DEFINE Bad == {m \in 0..s.count : h[m] # g[m]}
               k == MinOf(Bad)
    <2>1. SUFFICES ASSUME Bad # {} PROVE FALSE
        OBVIOUS
    <2>2. k \in Bad /\ \A m \in Bad : k <= m
        BY <1>0, <2>1, MinOfNat
    <2> HIDE DEF k
    <2>3. k \in 0..s.count /\ h[k] # g[k]
        BY <2>2
    <2>4. CASE k = 0
        <3>1. h[0] = 0 /\ g[0] = 0
            BY <1>0, <1>3, <1>5
        <3> QED BY <2>3, <2>4, <3>1
    <2>5. CASE k # 0
        <3>1. k - 1 \in 0..s.count /\ ~(k <= k - 1)
            BY <1>0, <2>3, <2>5
        <3>2. h[k - 1] = g[k - 1]
            BY <2>2, <3>1
        <3>3. h[k] = h[k - 1] + Cardinality(s.ulongs[k - 1])
            BY <1>5, <2>3, <2>5
        <3>4. g[k] = g[k - 1] + Cardinality(s.ulongs[k - 1])
            BY <1>3, <2>3, <2>5
        <3> QED BY <2>3, <3>2, <3>3, <3>4
    <2> QED BY <2>4, <2>5
<1> QED BY <1>6 DEF g, h

(* weight is the number of indexes of a finite set.                        *)
LEMMA WeightExact ==
    ASSUME NEW s \in Bitmap
    PROVE  weight(s) = IF s.infinite THEN -1 ELSE Cardinality(Bits(s))
<1>1. s.count \in Nat
    BY Reads
<1>2. CASE ~s.infinite
    <2>1. \A c \in Bits(s) : INDEX(c) < s.count
        <3> SUFFICES ASSUME NEW c \in Bits(s) PROVE INDEX(c) < s.count
            OBVIOUS
        <3>1. INDEX(c) \in 0..MaxUlongs /\ CPU_ULBIT(c) \in READULONG(s, INDEX(c))
            BY BitWord
        <3>2. INDEX(c) \in 0..(s.count - 1)
            BY <1>2, <3>1, Reads DEF ZERO
        <3> QED BY <1>1, <3>2
    <2>2. Before(s, s.count) = Bits(s)
        BY <2>1 DEF Before
    <2> QED BY <1>1, <1>2, <2>2, WeightCounts DEF weight
<1>3. CASE s.infinite
    BY <1>3 DEF weight
<1> QED BY <1>2, <1>3

-----------------------------------------------------------------------------
(* The queries of two bitmaps are right about the sets they denote, for    *)
(* any two bitmaps.                                                        *)
LEMMA PairExact ==
    ASSUME LiveBitmaps \subseteq Bitmap
    PROVE  PairQueries
<1>1. ASSUME NEW s \in LiveBitmaps, NEW t \in LiveBitmaps
      PROVE  LET S == Bits(s)  T == Bits(t) IN
             /\ isequal(s, t) <=> S = T
             /\ compare(s, t) = IF S = T THEN 0
                                ELSE IF MaxOf(Differing(S, T)) \in T THEN -1 ELSE 1
             /\ intersects(s, t) => S \cap T # {}
             /\ S \subseteq T => isincluded(s, t)
             /\ Finite(s) \/ Finite(t) =>
                    /\ intersects(s, t) <=> S \cap T # {}
                    /\ isincluded(s, t) <=> S \subseteq T
             /\ (S = {} \/ T = {} => (Finite(s) <=> Finite(t))) =>
                    Sign(compare_first(s, t))
                        = Sign(LowestOr(S, Limit(s) + Limit(t))
                                 - LowestOr(T, Limit(s) + Limit(t)))
    <2>1. s \in Bitmap /\ t \in Bitmap
        OBVIOUS
    <2> QED
        BY <2>1, EqualExact, CompareExact, IntersectsExact, IncludedExact, CompareFirstExact
<1> QED BY <1>1 DEF PairQueries

(* The queries of any bitmaps are right about the sets they denote.        *)
LEMMA QueriesHold ==
    ASSUME TypeOK
    PROVE  QueriesExact
<1>1. LiveBitmaps \subseteq Bitmap
    BY DEF TypeOK, LiveBitmaps, Live
<1>2. PairQueries
    BY <1>1, PairExact
<1>3. ASSUME NEW s \in LiveBitmaps
      PROVE  /\ iszero(s) <=> Bits(s) = {}
             /\ isfull(s) <=> Bits(s) = Universe
             /\ first(s) = LowestOr(Bits(s), -1)
             /\ \A prev \in Cpu \cup {-1} :
                    next(s, prev) = LowestOr({c \in Bits(s) : c > prev}, -1)
             /\ last(s) = IF s.infinite \/ Bits(s) = {} THEN -1 ELSE MaxOf(Bits(s))
             /\ weight(s) = IF s.infinite THEN -1 ELSE Cardinality(Bits(s))
    <2>1. s \in Bitmap
        BY <1>1
    <2> QED BY <2>1, ZeroFullExact, FirstExact, NextExact, LastExact, WeightExact
<1> QED BY <1>2, <1>3 DEF QueriesExact

(* After any sequence of calls of any client, whichever of its handles are *)
(* the same, every query of cpuset.c answers for the set that the bitmap   *)
(* denotes.                                                                *)
THEOREM QueriesCorrect == Spec => []QueriesExact
<1>1. TypeOK => QueriesExact
    BY QueriesHold
<1> QED BY <1>1, TypeCorrect, PTL
=============================================================================
