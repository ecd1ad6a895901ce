--------------------------- MODULE BitmapStrings ---------------------------
(***************************************************************************)
(* Bitmaps as strings: the three formats of src/cpuset.c, which are how    *)
(* bitmaps reach XML files, the kernel and the command line.  A string is  *)
(* kept as what its separators delimit, written from the highest index to  *)
(* the lowest, as the code writes it:                                      *)
(*                                                                         *)
(*    hwloc     whether it begins with 0xf...f, and the groups between the *)
(*              commas: a set of bits, NULL for one without digits         *)
(*    taskset   whether it begins with 0xf...f, and its digits             *)
(*    list      its ranges, <<b, b>> for an index alone, <<b, -1>> for b-  *)
(*                                                                         *)
(* The asprintf of a format is its snprintf twice, the first time for the  *)
(* length; a buffer that is too short only cuts the string.                *)
(***************************************************************************)
EXTENDS Bitmap, SequencesExt

CONSTANTS
    HWLOC_BITMAP_SUBSTRING_SIZE,  \* bits of a group, 32 in the code
    DigitSize                     \* bits of a digit, 4 in the code

ASSUME GroupAssumption ==
    /\ HWLOC_BITMAP_SUBSTRING_SIZE \in Nat \ {0} /\ DigitSize \in Nat \ {0}
    /\ HWLOC_BITS_PER_LONG % HWLOC_BITMAP_SUBSTRING_SIZE = 0
    /\ HWLOC_BITS_PER_LONG % DigitSize = 0

HWLOC_BITMAP_STRING_PER_LONG == HWLOC_BITS_PER_LONG \div HWLOC_BITMAP_SUBSTRING_SIZE
DigitsPerLong == HWLOC_BITS_PER_LONG \div DigitSize

(* Bits w*j .. w*j+w-1 of the valid words, for a w that divides a word.    *)
Piece(s, w, j) ==
    {b \in 0..(w - 1) : CPU_ULBIT(w * j + b) \in s.ulongs[INDEX(w * j + b)]}

(* The words whose pieces of w bits are, from the highest, those of p: the *)
(* first word may lack its highest pieces.                                 *)
Assemble(w, p) ==
    [i \in 0..((Len(p) * w + HWLOC_BITS_PER_LONG - 1) \div HWLOC_BITS_PER_LONG - 1) |->
        {b \in Bit : LET n == (HWLOC_BITS_PER_LONG * i + b) \div w
                     IN  n < Len(p) /\ b % w \in p[Len(p) - n]}]

(* 0xf...f alone stands for the full bitmap of one word.                   *)
PrintsFull(s) == s.infinite /\ s.count = 1 /\ s.ulongs[0] = FULL

-----------------------------------------------------------------------------
(* The hwloc format.                                                       *)

(* Mutant: the last group has no digit when it is empty.                   *)
snprintf_NoLastZero(s) ==
    LET group(j) == Piece(s, HWLOC_BITMAP_SUBSTRING_SIZE, j)
        n        == s.count * HWLOC_BITMAP_STRING_PER_LONG
        used     == {j \in 0..(n - 1) : s.infinite \/ group(j) # {}}
        top      == IF used = {} THEN 0 ELSE MaxOf(used)
    IN  [inf    |-> s.infinite,
         groups |-> IF PrintsFull(s) THEN <<>>
                    ELSE [k \in 1..(top + 1) |->
                             IF group(top + 1 - k) # {} THEN group(top + 1 - k) ELSE NULL]]

(* Empty groups on top are skipped, unless something is before them; later *)
(* ones are a comma only, but the last has always a digit.                 *)
snprintf(s) ==
    LET group(j) == Piece(s, HWLOC_BITMAP_SUBSTRING_SIZE, j)
        n        == s.count * HWLOC_BITMAP_STRING_PER_LONG
        used     == {j \in 0..(n - 1) : s.infinite \/ group(j) # {}}
        top      == IF used = {} THEN 0 ELSE MaxOf(used)
        Printed(j) == IF group(j) = {} /\ j # 0 THEN NULL ELSE group(j)
    IN  [inf    |-> s.infinite,
         groups |-> IF PrintsFull(s) THEN <<>>
                    ELSE [k \in 1..(top + 1) |-> Printed(top + 1 - k)]]

(* A group without digits is 0.  The end of the string is met before a     *)
(* last group without digits: then the lowest word is not written.         *)
sscanf(s, str) ==
    LET value(g) == IF g = NULL THEN {} ELSE g
        u == Assemble(HWLOC_BITMAP_SUBSTRING_SIZE,
                      [k \in DOMAIN str.groups |-> value(str.groups[k])])
    IN  IF str.groups = <<>> THEN fill(s)
        ELSE reset_by_ulongs(s, Cardinality(DOMAIN u),
                 IF Last(str.groups) # NULL THEN u ELSE [u EXCEPT ![0] = s.ulongs[0]],
                 str.inf)

-----------------------------------------------------------------------------
(* The taskset format.                                                     *)

(* Whole words, but for the highest one printed when nothing precedes it:  *)
(* that one has no leading zeros.                                          *)
taskset_snprintf(s) ==
    LET digit(j) == Piece(s, DigitSize, j)
        n        == s.count * DigitsPerLong
        used     == {j \in 0..(n - 1) : s.infinite \/ digit(j) # {}}
        top      == IF used = {} THEN 0 ELSE MaxOf(used)
    IN  [inf    |-> s.infinite,
         digits |-> IF PrintsFull(s) THEN <<>>
                    ELSE [k \in 1..(top + 1) |-> digit(top + 1 - k)]]

taskset_sscanf(s, str) ==
    LET u == Assemble(DigitSize, str.digits)
    IN  IF str.digits = <<>> THEN (IF str.inf THEN fill(s) ELSE zero(s))
        ELSE reset_by_ulongs(s, Cardinality(DOMAIN u), u, str.inf)

-----------------------------------------------------------------------------
(* The list format.                                                        *)

(* One round of the loop: the ranges printed so far, the end of the last,  *)
(* and whether the loop was left.                                          *)
print_range(s, reverse, r) ==
    LET begin == next(s, r.prev)
        end   == next(reverse, begin)
    IN  IF r.done \/ begin = -1 THEN [ranges |-> r.ranges, prev |-> r.prev, done |-> TRUE]
        ELSE IF end = -1
        THEN [ranges |-> Append(r.ranges, <<begin, -1>>), prev |-> r.prev, done |-> TRUE]
        ELSE [ranges |-> Append(r.ranges, <<begin, end - 1>>), prev |-> end - 1, done |-> FALSE]

(* A round that is not the last ends at a later index of the valid words.  *)
list_snprintf(s) ==
    LET after[k \in 0..(Limit(s) + 1)] ==
            IF k = 0 THEN [ranges |-> <<>>, prev |-> -1, done |-> FALSE]
            ELSE print_range(s, not(alloc, s), after[k - 1])
    IN  after[Limit(s) + 1].ranges

read_range(r, range) ==
    IF range[1] = range[2] THEN set(r, range[1]) ELSE set_range(r, range[1], range[2])
list_sscanf(s, str) ==
    LET after[k \in 0..Len(str)] ==
            IF k = 0 THEN zero(s) ELSE read_range(after[k - 1], str[k])
    IN  after[Len(str)]

-----------------------------------------------------------------------------
(* A client prints a bitmap and reads the string into another, or into the *)
(* same; a string that cannot be read leaves an empty bitmap.              *)

Sscanf(h, g)        == Live(h) /\ Live(g) /\ Becomes(h, sscanf(sets[h], snprintf(sets[g])))
TasksetSscanf(h, g) == Live(h) /\ Live(g) /\ Becomes(h, taskset_sscanf(sets[h], taskset_snprintf(sets[g])))
ListSscanf(h, g)    == Live(h) /\ Live(g) /\ Becomes(h, list_sscanf(sets[h], list_snprintf(sets[g])))
SscanfFails(h)      == Live(h) /\ Becomes(h, zero(sets[h]))

NextString == \E h \in Handle :
    \/ SscanfFails(h)
    \/ \E g \in Handle : Sscanf(h, g) \/ TasksetSscanf(h, g) \/ ListSscanf(h, g)

StringsSpec == Init /\ [][Next \/ NextString]_sets

(* set_range with an end of -1 makes all the indexes beyond the valid words*)
(* part of the bitmap, not only those from its beginning: a list is read   *)
(* back when its open range begins no later than the word after those that *)
(* the ranges before it need.                                              *)
OpenRangeReadable(s) ==
    LET list  == list_snprintf(s)
        words == IF Len(list) < 2 THEN 1 ELSE INDEX(list[Len(list) - 1][2]) + 1
    IN  s.infinite => Last(list)[1] <= words * HWLOC_BITS_PER_LONG

(* A bitmap that is printed in any format and read back, into whatever     *)
(* bitmap was there, has the same indexes: groups left out on top, groups  *)
(* without digits in between, the last group, the infinite tail and words  *)
(* read only in part included.                                             *)
StringsReadBack ==
    \A s, t \in LiveBitmaps :
        /\ Bits(sscanf(t, snprintf(s))) = Bits(s)
        /\ Bits(taskset_sscanf(t, taskset_snprintf(s))) = Bits(s)
        /\ OpenRangeReadable(s) => Bits(list_sscanf(t, list_snprintf(s))) = Bits(s)
=============================================================================
