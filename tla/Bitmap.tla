------------------------------- MODULE Bitmap -------------------------------
(***************************************************************************)
(* Bitmaps as src/cpuset.c keeps them: an array of unsigned longs, how     *)
(* many of them are valid, how many are allocated, and a flag that says    *)
(* what the bits beyond the valid words are.  A word is modelled by the    *)
(* set of its bits that are 1, so |, &, ~ are union, intersection and      *)
(* complement.  The operators whose names are those of the code are pure:  *)
(* they give the bitmap an operation leaves behind, or what a query        *)
(* returns; the actions at the end apply them to a client's handles, any   *)
(* two of which may be the same (the output may be an input).              *)
(***************************************************************************)
EXTENDS Integers, FiniteSets

CONSTANTS
    Handle,               \* the bitmap pointers of a client
    NULL,                 \* the value of a pointer that denotes no bitmap
    HWLOC_BITS_PER_LONG,  \* bits of an unsigned long
    InitialUlongs,        \* words malloc'ed by alloc: 64/sizeof(unsigned long)
    MaxUlongs             \* bound: valid words an instance may reach

(* The sizes hwloc_bitmap_enlarge_by_ulongs can ask for: an unsigned index *)
(* has 32 bits, 2^32 indexes fill 2^26 words of 64 bits.                   *)
PowersOfTwo ==
    {1, 2, 4, 8, 16, 32, 64, 128, 256, 512, 1024, 2048, 4096, 8192, 16384,
     32768, 65536, 131072, 262144, 524288, 1048576, 2097152, 4194304, 8388608,
     16777216, 33554432, 67108864}

UlongsLimit == 67108864

ASSUME SizeAssumption ==
    /\ HWLOC_BITS_PER_LONG \in Nat \ {0}
    /\ InitialUlongs \in Nat \ {0}
    /\ MaxUlongs \in Nat \ {0} /\ MaxUlongs <= UlongsLimit

VARIABLE sets   \* sets[h]: the struct hwloc_bitmap_s h points to, or NULL

-----------------------------------------------------------------------------
(* Words.                                                                  *)

Bit  == 0..(HWLOC_BITS_PER_LONG - 1)
ZERO == {}
FULL == Bit
INDEX(cpu) == cpu \div HWLOC_BITS_PER_LONG
CPU_ULBIT(cpu) == cpu % HWLOC_BITS_PER_LONG
Limit(s) == s.count * HWLOC_BITS_PER_LONG

READULONG(s, x) ==
    IF x < s.count THEN s.ulongs[x] ELSE IF s.infinite THEN FULL ELSE ZERO

MinOf(S) == CHOOSE x \in S : \A y \in S : x <= y
MaxOf(S) == CHOOSE x \in S : \A y \in S : x >= y
Larger(m, n) == IF m > n THEN m ELSE n

(* hwloc_ffsl and hwloc_flsl count from 1, and give 0 for an empty word.   *)
ffsl(w) == IF w = ZERO THEN 0 ELSE MinOf(w) + 1
flsl(w) == IF w = ZERO THEN 0 ELSE MaxOf(w) + 1

-----------------------------------------------------------------------------
(* Allocation and resizing.                                                *)

(* 1 << flsl(n - 1): the smallest power of two that is at least n.         *)
RoundUp(n) == MinOf({t \in PowersOfTwo : n <= t})

enlarge_by_ulongs(s, n) ==
    IF RoundUp(n) > s.allocated THEN RoundUp(n) ELSE s.allocated

(* Mutant: the new words are cleared, whatever the infinite flag says.     *)
realloc_ZeroFill(s, n) ==
    IF n <= s.count THEN s
    ELSE [ulongs    |-> [i \in 0..(n - 1) |-> IF i < s.count THEN s.ulongs[i] ELSE ZERO],
          count     |-> n,
          allocated |-> enlarge_by_ulongs(s, n),
          infinite  |-> s.infinite]

realloc_by_ulongs(s, n) ==
    IF n <= s.count THEN s
    ELSE [ulongs    |-> [i \in 0..(n - 1) |-> READULONG(s, i)],
          count     |-> n,
          allocated |-> enlarge_by_ulongs(s, n),
          infinite  |-> s.infinite]

(* reset_by_ulongs leaves n words and the flag for its caller to set: all  *)
(* its callers do so before they return, to the words u and the flag inf.  *)
reset_by_ulongs(s, n, u, inf) ==
    [ulongs |-> u, count |-> n, allocated |-> enlarge_by_ulongs(s, n),
     infinite |-> inf]

alloc == [ulongs |-> [i \in 0..0 |-> ZERO], count |-> 1,
          allocated |-> InitialUlongs, infinite |-> FALSE]
alloc_full == [ulongs |-> [i \in 0..0 |-> FULL], count |-> 1,
               allocated |-> InitialUlongs, infinite |-> TRUE]
copy(dst, src) == reset_by_ulongs(dst, src.count, src.ulongs, src.infinite)

-----------------------------------------------------------------------------
(* Building and modifying.                                                 *)

zero(s) == reset_by_ulongs(s, 1, [i \in 0..0 |-> ZERO], FALSE)
fill(s) == reset_by_ulongs(s, 1, [i \in 0..0 |-> FULL], TRUE)
from_ulong(s, mask) == reset_by_ulongs(s, 1, [i \in 0..0 |-> mask], FALSE)
from_ith_ulong(s, i, mask) ==
    reset_by_ulongs(s, i + 1,
                    [j \in 0..i |-> IF j = i THEN mask ELSE ZERO], FALSE)

only(s, cpu) ==
    reset_by_ulongs(s, INDEX(cpu) + 1,
        [i \in 0..INDEX(cpu) |-> IF i = INDEX(cpu) THEN {CPU_ULBIT(cpu)} ELSE ZERO],
        FALSE)
allbut(s, cpu) ==
    reset_by_ulongs(s, INDEX(cpu) + 1,
        [i \in 0..INDEX(cpu) |->
            IF i = INDEX(cpu) THEN FULL \ {CPU_ULBIT(cpu)} ELSE FULL],
        TRUE)

(* set->ulongs[i] = w, after the realloc that makes i valid.               *)
Store(s, i, w) ==
    LET r == realloc_by_ulongs(s, i + 1)
    IN  [r EXCEPT !.ulongs = [j \in 0..(r.count - 1) |->
                                 IF j = i THEN w ELSE r.ulongs[j]]]

set(s, cpu) ==
    IF s.infinite /\ cpu >= Limit(s) THEN s
    ELSE Store(s, INDEX(cpu), READULONG(s, INDEX(cpu)) \cup {CPU_ULBIT(cpu)})
clr(s, cpu) ==
    IF ~s.infinite /\ cpu >= Limit(s) THEN s
    ELSE Store(s, INDEX(cpu), READULONG(s, INDEX(cpu)) \ {CPU_ULBIT(cpu)})
set_ith_ulong(s, i, mask) == Store(s, i, mask)

(* Mutant: the last index of the range is left out.                        *)
RangeMask_EndExcluded(i, b, e) ==
    IF i < INDEX(b) \/ i > INDEX(e) THEN ZERO
    ELSE (IF i = INDEX(b) THEN CPU_ULBIT(b) ELSE 0) ..
         (IF i < INDEX(e) THEN HWLOC_BITS_PER_LONG - 1 ELSE CPU_ULBIT(e) - 1)

(* The mask the range b..e selects in word i: ULBIT_FROMTO, ULBIT_FROM,    *)
(* ULBIT_TO or a whole word; empty outside INDEX(b)..INDEX(e).             *)
RangeMask(i, b, e) ==
    IF i < INDEX(b) \/ i > INDEX(e) THEN ZERO
    ELSE (IF i = INDEX(b) THEN CPU_ULBIT(b) ELSE 0) ..
         (IF i = INDEX(e) THEN CPU_ULBIT(e) ELSE HWLOC_BITS_PER_LONG - 1)

(* endcpu, truncated to the valid words when the words beyond them need no *)
(* change; -1 is larger than anything as an unsigned.                      *)
Truncate(s, e, toTail) ==
    IF toTail /\ (e = -1 \/ e >= Limit(s)) THEN Limit(s) - 1 ELSE e

(* The words of b..e are made valid, then the mask of each is or'ed in, or *)
(* its complement and'ed.                                                  *)
AddMasks(s, b, e) ==
    LET r == realloc_by_ulongs(s, INDEX(e) + 1)
    IN  [r EXCEPT !.ulongs = [i \in 0..(r.count - 1) |->
                                 r.ulongs[i] \cup RangeMask(i, b, e)]]
RemoveMasks(s, b, e) ==
    LET r == realloc_by_ulongs(s, INDEX(e) + 1)
    IN  [r EXCEPT !.ulongs = [i \in 0..(r.count - 1) |->
                                 r.ulongs[i] \ RangeMask(i, b, e)]]

set_range(s, b, e) ==
    LET s1  == [s EXCEPT !.infinite = s.infinite \/ e = -1]
        end == Truncate(s1, e, s1.infinite)
    IN  IF (s1.infinite /\ b >= Limit(s)) \/ end < b THEN s1
        ELSE AddMasks(s1, b, end)
clr_range(s, b, e) ==
    LET s1  == [s EXCEPT !.infinite = s.infinite /\ e # -1]
        end == Truncate(s1, e, ~s1.infinite)
    IN  IF (~s1.infinite /\ b >= Limit(s)) \/ end < b THEN s1
        ELSE RemoveMasks(s1, b, end)

(* The indexes of the valid words that are not empty.                      *)
NonZero(s) == {i \in 0..(s.count - 1) : s.ulongs[i] # ZERO}

singlify(s) ==
    IF NonZero(s) # {}
    THEN [s EXCEPT
            !.ulongs = [i \in 0..(s.count - 1) |->
                           IF i = MinOf(NonZero(s)) THEN {MinOf(s.ulongs[i])} ELSE ZERO],
            !.infinite = FALSE]
    ELSE IF s.infinite THEN set([s EXCEPT !.infinite = FALSE], Limit(s)) ELSE s

-----------------------------------------------------------------------------
(* Combining: res is enlarged to the larger operand, then every one of its *)
(* words is computed from the operands, one of which may be res itself.    *)

(* Mutant: res is enlarged to the first operand only.                      *)
Combine_FirstOnly(res, set1, set2, u, inf) ==
    LET r == realloc_by_ulongs(res, set1.count)
    IN  [r EXCEPT !.ulongs = [i \in 0..(r.count - 1) |-> u[i]], !.infinite = inf]

Combine(res, set1, set2, u, inf) ==
    LET r == realloc_by_ulongs(res, Larger(set1.count, set2.count))
    IN  [r EXCEPT !.ulongs = [i \in 0..(r.count - 1) |-> u[i]], !.infinite = inf]

(* The words the loop of a combining operation can visit.                  *)
Words(res, set1, set2) == 0..(Larger(res.count, Larger(set1.count, set2.count)) - 1)

or(res, set1, set2) ==
    Combine(res, set1, set2,
        [i \in Words(res, set1, set2) |-> READULONG(set1, i) \cup READULONG(set2, i)],
        set1.infinite \/ set2.infinite)
and(res, set1, set2) ==
    Combine(res, set1, set2,
        [i \in Words(res, set1, set2) |-> READULONG(set1, i) \cap READULONG(set2, i)],
        set1.infinite /\ set2.infinite)
andnot(res, set1, set2) ==
    Combine(res, set1, set2,
        [i \in Words(res, set1, set2) |-> READULONG(set1, i) \ READULONG(set2, i)],
        set1.infinite /\ ~set2.infinite)
xor(res, set1, set2) ==
    Combine(res, set1, set2,
        [i \in Words(res, set1, set2) |->
            (READULONG(set1, i) \ READULONG(set2, i))
                \cup (READULONG(set2, i) \ READULONG(set1, i))],
        set1.infinite # set2.infinite)
not(res, set1) ==
    Combine(res, set1, set1,
        [i \in Words(res, set1, set1) |-> FULL \ READULONG(set1, i)],
        ~set1.infinite)

-----------------------------------------------------------------------------
(* Queries.                                                                *)

isset(s, cpu) == CPU_ULBIT(cpu) \in READULONG(s, INDEX(cpu))
iszero(s) == ~s.infinite /\ \A i \in 0..(s.count - 1) : s.ulongs[i] = ZERO
isfull(s) == s.infinite /\ \A i \in 0..(s.count - 1) : s.ulongs[i] = FULL

AllWords(s, t) == 0..(Larger(s.count, t.count) - 1)

isequal(s, t) ==
    /\ \A i \in AllWords(s, t) : READULONG(s, i) = READULONG(t, i)
    /\ s.infinite = t.infinite
(* Both ends of the code return 0, also when both bitmaps are infinite.    *)
intersects(s, t) ==
    \E i \in AllWords(s, t) : READULONG(s, i) \cap READULONG(t, i) # ZERO
(* Only the valid words of the subset are looked at.                       *)
isincluded(sub, super) ==
    /\ \A i \in 0..(sub.count - 1) :
           READULONG(super, i) = READULONG(super, i) \cup READULONG(sub, i)
    /\ sub.infinite => super.infinite

first(s) ==
    IF NonZero(s) # {}
    THEN LET i == MinOf(NonZero(s)) IN ffsl(s.ulongs[i]) - 1 + HWLOC_BITS_PER_LONG * i
    ELSE IF s.infinite THEN Limit(s) ELSE -1
last(s) ==
    IF s.infinite \/ NonZero(s) = {} THEN -1
    ELSE LET i == MaxOf(NonZero(s)) IN flsl(s.ulongs[i]) - 1 + HWLOC_BITS_PER_LONG * i

(* Word i without the bits up to prev, when prev lies in it.               *)
After(s, prev, i) ==
    s.ulongs[i] \ (IF prev >= 0 /\ INDEX(prev) = i THEN 0..CPU_ULBIT(prev) ELSE ZERO)
(* Mutant: iteration stops at the end of the valid words.                  *)
next_Finite(s, prev) ==
    LET found == {i \in INDEX(prev + 1)..(s.count - 1) : After(s, prev, i) # ZERO}
    IN  IF found = {} THEN -1
        ELSE ffsl(After(s, prev, MinOf(found))) - 1 + HWLOC_BITS_PER_LONG * MinOf(found)

next(s, prev) ==
    LET start == INDEX(prev + 1)
        found == {i \in start..(s.count - 1) : After(s, prev, i) # ZERO}
    IN  IF start >= s.count THEN (IF s.infinite THEN prev + 1 ELSE -1)
        ELSE IF found # {}
        THEN ffsl(After(s, prev, MinOf(found))) - 1 + HWLOC_BITS_PER_LONG * MinOf(found)
        ELSE IF s.infinite THEN Limit(s) ELSE -1

(* weight adds up the bits of the words: WeightUpTo(s)[n] over 0..n-1.     *)
WeightUpTo(s) ==
    LET sum[n \in 0..s.count] ==
            IF n = 0 THEN 0 ELSE sum[n - 1] + Cardinality(s.ulongs[n - 1])
    IN  sum
weight(s) == IF s.infinite THEN -1 ELSE WeightUpTo(s)[s.count]

BoolToInt(b) == IF b THEN 1 ELSE 0

compare_first(s, t) ==
    LET used == {i \in AllWords(s, t) : READULONG(s, i) # ZERO \/ READULONG(t, i) # ZERO}
        f1   == ffsl(READULONG(s, MinOf(used)))
        f2   == ffsl(READULONG(t, MinOf(used)))
    IN  IF used = {} THEN BoolToInt(s.infinite) - BoolToInt(t.infinite)
        ELSE IF f1 > 0 /\ f2 > 0 THEN f1 - f2 ELSE f2 - f1

(* val1 < val2 for two different words: the highest bit they differ in is  *)
(* one of val2.                                                            *)
ULongLess(val1, val2) ==
    MaxOf((val1 \ val2) \cup (val2 \ val1)) \in val2
compare(s, t) ==
    LET diff == {i \in AllWords(s, t) : READULONG(s, i) # READULONG(t, i)}
        i    == MaxOf(diff)
    IN  IF s.infinite # t.infinite THEN BoolToInt(s.infinite) - BoolToInt(t.infinite)
        ELSE IF diff = {} THEN 0
        ELSE IF ULongLess(READULONG(s, i), READULONG(t, i)) THEN -1 ELSE 1

-----------------------------------------------------------------------------
(* The actions: a client calls an operation on its handles.                *)

Cpu   == 0..(MaxUlongs * HWLOC_BITS_PER_LONG - 1)
Ulong == 0..(MaxUlongs - 1)

Live(h) == sets[h] # NULL

(* The bitmap behind h becomes s; s must stay within the bound MaxUlongs.  *)
Becomes(h, s) == s.count <= MaxUlongs /\ sets' = [sets EXCEPT ![h] = s]

Init == sets = [h \in Handle |-> NULL]

Alloc(h)     == ~Live(h) /\ Becomes(h, alloc)
AllocFull(h) == ~Live(h) /\ Becomes(h, alloc_full)
Free(h)      == Live(h) /\ sets' = [sets EXCEPT ![h] = NULL]
Dup(h, g)    == ~Live(h) /\ Live(g) /\ Becomes(h, sets[g])
Copy(h, g)   == Live(h) /\ Live(g) /\ Becomes(h, copy(sets[h], sets[g]))

Zero(h)     == Live(h) /\ Becomes(h, zero(sets[h]))
Fill(h)     == Live(h) /\ Becomes(h, fill(sets[h]))
Singlify(h) == Live(h) /\ Becomes(h, singlify(sets[h]))

Only(h, c)   == Live(h) /\ Becomes(h, only(sets[h], c))
Allbut(h, c) == Live(h) /\ Becomes(h, allbut(sets[h], c))
Set(h, c)    == Live(h) /\ Becomes(h, set(sets[h], c))
Clr(h, c)    == Live(h) /\ Becomes(h, clr(sets[h], c))

FromUlong(h, m)       == Live(h) /\ Becomes(h, from_ulong(sets[h], m))
FromIthUlong(h, i, m) == Live(h) /\ Becomes(h, from_ith_ulong(sets[h], i, m))
SetIthUlong(h, i, m)  == Live(h) /\ Becomes(h, set_ith_ulong(sets[h], i, m))

SetRange(h, b, e) == Live(h) /\ Becomes(h, set_range(sets[h], b, e))
ClrRange(h, b, e) == Live(h) /\ Becomes(h, clr_range(sets[h], b, e))

Or(r, a, b)     == Live(r) /\ Live(a) /\ Live(b) /\ Becomes(r, or(sets[r], sets[a], sets[b]))
And(r, a, b)    == Live(r) /\ Live(a) /\ Live(b) /\ Becomes(r, and(sets[r], sets[a], sets[b]))
Andnot(r, a, b) == Live(r) /\ Live(a) /\ Live(b) /\ Becomes(r, andnot(sets[r], sets[a], sets[b]))
Xor(r, a, b)    == Live(r) /\ Live(a) /\ Live(b) /\ Becomes(r, xor(sets[r], sets[a], sets[b]))
Not(r, a)       == Live(r) /\ Live(a) /\ Becomes(r, not(sets[r], sets[a]))

Unary(h) ==
    \/ Alloc(h) \/ AllocFull(h) \/ Free(h) \/ Zero(h) \/ Fill(h) \/ Singlify(h)
    \/ \E c \in Cpu : Only(h, c) \/ Allbut(h, c) \/ Set(h, c) \/ Clr(h, c)
    \/ \E m \in SUBSET Bit : FromUlong(h, m)
    \/ \E i \in Ulong, m \in SUBSET Bit : FromIthUlong(h, i, m) \/ SetIthUlong(h, i, m)
    \/ \E b \in Cpu, e \in Cpu \cup {-1} : SetRange(h, b, e) \/ ClrRange(h, b, e)

Binary(h, g) ==
    \/ Dup(h, g) \/ Copy(h, g) \/ Not(h, g)
    \/ \E a \in Handle :
           Or(h, a, g) \/ And(h, a, g) \/ Andnot(h, a, g) \/ Xor(h, a, g)

Next == \E h \in Handle : Unary(h) \/ \E g \in Handle : Binary(h, g)

Spec == Init /\ [][Next]_sets

-----------------------------------------------------------------------------
(* What a bitmap denotes.  Universe has one word more than any bitmap, so  *)
(* that its last word shows the infinite part.                             *)

Universe == 0..((MaxUlongs + 1) * HWLOC_BITS_PER_LONG - 1)
Bits(s)  == {c \in Universe : isset(s, c)}

Bitmap ==
    {s \in [ulongs    : UNION {[0..(n - 1) -> SUBSET Bit] : n \in 1..MaxUlongs},
            count     : 1..MaxUlongs,
            allocated : Nat,
            infinite  : BOOLEAN] :
        /\ s.ulongs \in [0..(s.count - 1) -> SUBSET Bit]
        /\ s.count <= s.allocated}

ASSUME NullAssumption == NULL \notin Bitmap /\ \A S \in SUBSET Universe : S # NULL

(* HWLOC__BITMAP_CHECK: the words of every bitmap are the valid ones, there *)
(* is at least one, and no more of them are valid than are allocated.      *)
TypeOK == sets \in [Handle -> Bitmap \cup {NULL}]

(* The set that every handle denotes.                                      *)
Denoted == [h \in Handle |-> IF sets[h] = NULL THEN NULL ELSE Bits(sets[h])]

Abs == INSTANCE BitmapSpec WITH
    val       <- Denoted,
    Arg       <- Cpu,
    UlongBits <- HWLOC_BITS_PER_LONG,
    UlongArg  <- Ulong

(* Whatever sequence of calls a client makes, and whichever of its handles *)
(* are the same, the words, the counts and the infinite flag of cpuset.c   *)
(* denote the set that the set operations of bitmap.h give.                *)
ImplementsSets == Abs!Spec

(* Refinement alone lets a wrong result pass for that of another operation,*)
(* so each call is compared with the set operation of its own name.        *)
ModifiersMap(h) ==
    /\ Zero(h) => Abs!Zero(h)
    /\ Fill(h) => Abs!Fill(h)
    /\ Singlify(h) => Abs!Singlify(h)
    /\ \A c \in Cpu : /\ Only(h, c) => Abs!Only(h, c)
                      /\ Allbut(h, c) => Abs!Allbut(h, c)
                      /\ Set(h, c) => Abs!Set(h, c)
                      /\ Clr(h, c) => Abs!Clr(h, c)
    /\ \A i \in Ulong, m \in SUBSET Bit :
          /\ FromIthUlong(h, i, m) => Abs!FromIthUlong(h, i)
          /\ SetIthUlong(h, i, m) => Abs!SetIthUlong(h, i)
    /\ \A b, e \in Cpu : /\ SetRange(h, b, e) => Abs!SetRange(h, b, e)
                         /\ ClrRange(h, b, e) => Abs!ClrRange(h, b, e)

(* A call that changes one bitmap leaves it with the set bitmap.h says,    *)
(* whatever the words and the flag were: bits beyond the valid words, of   *)
(* finite and of infinite bitmaps, and ranges across words included.       *)
ModifiersExact == [][\A h \in Handle : ModifiersMap(h)]_sets

CombiningMap(r, a, b) ==
    /\ Copy(r, a) => Abs!Copy(r, a)
    /\ Not(r, a) => Abs!Not(r, a)
    /\ Or(r, a, b) => Abs!Or(r, a, b)
    /\ And(r, a, b) => Abs!And(r, a, b)
    /\ Andnot(r, a, b) => Abs!Andnot(r, a, b)
    /\ Xor(r, a, b) => Abs!Xor(r, a, b)

(* or, and, andnot, xor, not and copy give the set of their name when the  *)
(* operands have different lengths, when some are infinite, and when the   *)
(* result is one of the operands.                                          *)
CombiningExact == [][\A r, a, b \in Handle : CombiningMap(r, a, b)]_sets

-----------------------------------------------------------------------------
(* The queries, against what they mean for the sets.                       *)

LowestOr(S, none) == IF S = {} THEN none ELSE MinOf(S)
Sign(n) == IF n > 0 THEN 1 ELSE IF n < 0 THEN -1 ELSE 0
Differing(S, T) == (S \ T) \cup (T \ S)
Finite(s) == ~s.infinite
LiveBitmaps == {sets[h] : h \in {g \in Handle : Live(g)}}

(* Two bitmaps of different lengths compare by what they denote: isequal   *)
(* is equality, compare orders by the highest index they differ in, and    *)
(* isincluded and intersects are right when one of the bitmaps is finite,  *)
(* compare_first unless an empty bitmap is compared with an infinite one.  *)
PairQueries ==
    \A s, t \in LiveBitmaps :
        LET S == Bits(s)  T == Bits(t) IN
        /\ isequal(s, t) <=> S = T
        /\ compare(s, t) = IF S = T THEN 0
                           ELSE IF MaxOf(Differing(S, T)) \in T THEN -1 ELSE 1
        /\ intersects(s, t) => S \cap T # {}
        /\ S \subseteq T => isincluded(s, t)
        /\ Finite(s) \/ Finite(t) =>
               /\ intersects(s, t) <=> S \cap T # {}
               /\ isincluded(s, t) <=> S \subseteq T
        /\ (S = {} \/ T = {} => (Finite(s) <=> Finite(t))) =>
               Sign(compare_first(s, t))
                   = Sign(LowestOr(S, Limit(s) + Limit(t)) - LowestOr(T, Limit(s) + Limit(t)))

(* iszero, isfull, first, next, last and weight answer for the denoted set *)
(* although they look at the valid words and the flag only: iteration with *)
(* next visits exactly the indexes of the bitmap, into the infinite part;  *)
(* and so do the queries of two bitmaps.                                   *)
QueriesExact ==
    /\ PairQueries
    /\ \A s \in LiveBitmaps :
           /\ iszero(s) <=> Bits(s) = {}
           /\ isfull(s) <=> Bits(s) = Universe
           /\ first(s) = LowestOr(Bits(s), -1)
           /\ \A prev \in Cpu \cup {-1} :
                  next(s, prev) = LowestOr({c \in Bits(s) : c > prev}, -1)
           /\ last(s) = IF s.infinite \/ Bits(s) = {} THEN -1 ELSE MaxOf(Bits(s))
           /\ weight(s) = IF s.infinite THEN -1 ELSE Cardinality(Bits(s))
=============================================================================
