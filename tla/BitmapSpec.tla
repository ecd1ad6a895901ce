----------------------------- MODULE BitmapSpec -----------------------------
(***************************************************************************)
(* What the bitmap interface promises (include/hwloc/bitmap.h): every      *)
(* handle denotes a set of indexes, finite or cofinite, and every          *)
(* operation is the set operation of its name.  The layout in words, the   *)
(* allocation and the "infinite" flag of src/cpuset.c do not appear.       *)
(*                                                                         *)
(* Indexes are observed up to a finite horizon: Universe is 0..N, and what *)
(* lies beyond the last word an instance may allocate is uniformly set or  *)
(* uniformly clear, so the last indexes of Universe stand for the infinite *)
(* tail of a bitmap.                                                       *)
(***************************************************************************)
EXTENDS Integers

CONSTANTS
    Handle,     \* the bitmap pointers of a client
    NULL,       \* the value of a pointer that denotes no bitmap
    Universe,   \* the indexes observed
    Arg,        \* the indexes a client passes, a subset of Universe
    UlongBits,  \* bits per unsigned long
    UlongArg    \* the word numbers a client passes to the *_ith_ulong calls

VARIABLE val    \* val[h]: the set of indexes h denotes, or NULL

Live(h) == val[h] # NULL
Becomes(h, S) == val' = [val EXCEPT ![h] = S]

(* The indexes of a range; an end of -1 leaves it open.                    *)
Tail(b) == {c \in Universe : c >= b}
Range_(b, e) == {c \in Universe : b <= c /\ c <= e}
UlongRange(i) == {c \in Universe : UlongBits * i <= c /\ c < UlongBits * (i + 1)}

Init == val = [h \in Handle |-> NULL]

Alloc(h)     == ~Live(h) /\ Becomes(h, {})
AllocFull(h) == ~Live(h) /\ Becomes(h, Universe)
Free(h)      == Live(h) /\ Becomes(h, NULL)
Dup(h, g)    == ~Live(h) /\ Live(g) /\ Becomes(h, val[g])
Copy(h, g)   == Live(h) /\ Live(g) /\ Becomes(h, val[g])

Zero(h)      == Live(h) /\ Becomes(h, {})
Fill(h)      == Live(h) /\ Becomes(h, Universe)
Only(h, c)   == Live(h) /\ Becomes(h, {c})
Allbut(h, c) == Live(h) /\ Becomes(h, Universe \ {c})
Set(h, c)    == Live(h) /\ Becomes(h, val[h] \cup {c})
Clr(h, c)    == Live(h) /\ Becomes(h, val[h] \ {c})

(* The value of one word is replaced, all others kept (set_ith_ulong) or   *)
(* emptied (from_ith_ulong; from_ulong is word 0).                         *)
SetIthUlong(h, i) ==
    /\ Live(h)
    /\ \E S \in SUBSET UlongRange(i) : Becomes(h, (val[h] \ UlongRange(i)) \cup S)
FromIthUlong(h, i) == Live(h) /\ \E S \in SUBSET UlongRange(i) : Becomes(h, S)

SetRange(h, b, e) == Live(h) /\ Becomes(h, val[h] \cup Range_(b, e))
ClrRange(h, b, e) == Live(h) /\ Becomes(h, val[h] \ Range_(b, e))

(* An open range may start too low, at some k < b, but only where nothing  *)
(* at or above k was set (for set_range) or clear (for clr_range).         *)
SetRangeOpen(h, b) ==
    /\ Live(h)
    /\ \E k \in 0..b : /\ k = b \/ val[h] \cap Tail(k) = {}
                       /\ Becomes(h, val[h] \cup Tail(k))
ClrRangeOpen(h, b) ==
    /\ Live(h)
    /\ \E k \in 0..b : /\ k = b \/ Tail(k) \subseteq val[h]
                       /\ Becomes(h, val[h] \ Tail(k))

Or(r, a, b)     == Live(r) /\ Live(a) /\ Live(b) /\ Becomes(r, val[a] \cup val[b])
And(r, a, b)    == Live(r) /\ Live(a) /\ Live(b) /\ Becomes(r, val[a] \cap val[b])
Andnot(r, a, b) == Live(r) /\ Live(a) /\ Live(b) /\ Becomes(r, val[a] \ val[b])
Xor(r, a, b)    == /\ Live(r) /\ Live(a) /\ Live(b)
                   /\ Becomes(r, (val[a] \ val[b]) \cup (val[b] \ val[a]))
Not(r, a)       == Live(r) /\ Live(a) /\ Becomes(r, Universe \ val[a])

(* Keep the lowest index only.                                             *)
Singlify(h) ==
    /\ Live(h)
    /\ Becomes(h, {c \in val[h] : \A d \in val[h] : c <= d})

Unary(h) ==
    \/ Alloc(h) \/ AllocFull(h) \/ Free(h) \/ Zero(h) \/ Fill(h) \/ Singlify(h)
    \/ \E c \in Arg : Only(h, c) \/ Allbut(h, c) \/ Set(h, c) \/ Clr(h, c)
    \/ \E i \in UlongArg : SetIthUlong(h, i) \/ FromIthUlong(h, i)
    \/ \E b, e \in Arg : SetRange(h, b, e) \/ ClrRange(h, b, e)
    \/ \E b \in Arg : SetRangeOpen(h, b) \/ ClrRangeOpen(h, b)

Binary(h, g) ==
    \/ Dup(h, g) \/ Copy(h, g) \/ Not(h, g)
    \/ \E a \in Handle :
           Or(h, a, g) \/ And(h, a, g) \/ Andnot(h, a, g) \/ Xor(h, a, g)

Next == \E h \in Handle : Unary(h) \/ \E g \in Handle : Binary(h, g)

Spec == Init /\ [][Next]_val
=============================================================================
