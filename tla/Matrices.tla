------------------------------ MODULE Matrices ------------------------------
(***************************************************************************)
(* The list of distance matrices of a topology (src/distances.c) by itself: *)
(* the matrices that the program, the environment and the backend give by   *)
(* OS index, what every load and restriction leaves of them, and the groups *)
(* that one gives.  The tree comes in only as the answers of the lookup of  *)
(* objects by type and OS index, which are any here; Distances takes these  *)
(* steps with the answers of its tree.  Distances are integers, and         *)
(* quotients of them are pairs <<numerator, denominator>>.                  *)
(***************************************************************************)
EXTENDS ObjTree

CONSTANTS
    UserMatrices,  \* [type, indexes, values] hwloc_topology_set_distance_matrix gets
    EnvStrings,    \* parsed values of the HWLOC_<type>_DISTANCES variables
    OSMatrix,      \* the matrix of the backend with its objects, or NULL
    Accuracies     \* HWLOC_GROUPING_ACCURACY in percent, <<0>> by default; <<>> if
                   \* HWLOC_GROUPING is 0

VARIABLES
    osdist,    \* the list of the matrices, see Element
    denv,      \* the environment: an element of EnvStrings or NULL
    asked      \* history: for every type the matrix that was forced, with the
               \* indexes that were found at every conversion since, or NULL

mvars == <<osdist, denv, asked>>

Square(m) == /\ m.indexes \in Seq(Nat) /\ m.values \in Seq(Nat)
             /\ Len(m.values) >= Len(m.indexes) * Len(m.indexes)

(* The program gives n indexes and n * n distances.  A string that is not  *)
(* "none" has an index at least.                                           *)
ASSUME MatricesAssumption ==
    /\ \A m \in UserMatrices : m.type \in Types /\ Square(m)
    /\ \A s \in EnvStrings :
        /\ s.type \in Types
        /\ s.form \in {"none", "product", "list"}
        /\ s.form # "none" => s.indexes \in Seq(Nat) \ {<<>>}
        /\ s.form = "product" => {s.x, s.y, s.z} \subseteq Nat
        /\ s.form = "list" => s.values \in Seq(Nat)
    /\ OSMatrix # NULL => Square(OSMatrix)

(* A matrix is its row-major array; position (i, j) counts from 0.         *)
At(values, n, i, j) == values[i * n + j + 1]

-----------------------------------------------------------------------------
(* Giving matrices.                                                        *)

Element(type, indexes, objs, values, forced) ==
    [type |-> type, indexes |-> indexes, objs |-> objs, values |-> values,
     forced |-> forced]

OfType(list, type) == {d \in ToSet(list) : d.type = type}

(* Mutant: a forced matrix does not stop the backend's.                    *)
distances_set_Unforced(list, e) ==
    LET kept == Among(list, IF e.forced THEN ToSet(list) \ OfType(list, e.type) ELSE ToSet(list))
    IN  IF e.indexes = <<>> THEN kept ELSE Append(kept, e)

(* hwloc_distances_set: a forced matrix replaces those of its type, and no *)
(* other is added beside one; an empty one only clears.                    *)
distances_set(list, e) ==
    LET kept == Among(list, IF e.forced THEN ToSet(list) \ OfType(list, e.type) ELSE ToSet(list))
    IN  IF ~e.forced /\ \E d \in OfType(list, e.type) : d.forced THEN list
        ELSE IF e.indexes = <<>> THEN kept ELSE Append(kept, e)

check_matrix(indexes) == \A i, j \in DOMAIN indexes : indexes[i] = indexes[j] => i = j

(* "none", "i-j:" or "i,j,...:" followed by "X*Y*Z" or by the distances.   *)
GroupedValues(n, y, z) ==
    [p \in 1..(n * n) |->
        LET i == (p - 1) \div n
            j == (p - 1) % n
        IN  IF i = j THEN 1 ELSE IF i \div z = j \div z THEN 2
            ELSE IF (i \div z) \div y = (j \div z) \div y THEN 4 ELSE 8]
StringMatrix(s) ==
    CASE s.form = "none" -> [ok |-> TRUE, indexes |-> <<>>, values |-> <<>>]
      [] s.form = "product" ->
            [ok |-> s.x * s.y * s.z = Len(s.indexes) /\ check_matrix(s.indexes),
             indexes |-> s.indexes, values |-> GroupedValues(Len(s.indexes), s.y, s.z)]
      [] s.form = "list" ->
            [ok |-> Len(s.values) >= Len(s.indexes) * Len(s.indexes) /\ check_matrix(s.indexes),
             indexes |-> s.indexes, values |-> s.values]
distances__set_from_string(list, s) ==
    LET m == StringMatrix(s)
    IN  IF m.ok THEN distances_set(list, Element(s.type, m.indexes, NULL, m.values, TRUE))
        ELSE list
distances_set_from_env(list) ==
    IF denv = NULL THEN list ELSE distances__set_from_string(list, denv)
set_from_backend(list) ==
    IF OSMatrix = NULL THEN list
    ELSE distances_set(list, Element("NODE", OSMatrix.indexes, OSMatrix.objs,
                                     OSMatrix.values, FALSE))

-----------------------------------------------------------------------------
(* From indexes to objects.  What the lookup of an object finds for a type *)
(* and an index is a function, NULL on a topology without cpusets.         *)

Names(type, m) == {<<type, i>> : i \in ToSet(m.indexes)}
Named == UNION ({Names(m.type, m) : m \in UserMatrices \cup {s \in EnvStrings : s.form # "none"}}
                \cup {Names("NODE", m) : m \in {OSMatrix} \ {NULL}})
Lookups == [Named -> Id \cup {NULL}]

memmove(a, dst, src, n) ==
    [p \in DOMAIN a |-> IF p - 1 \in dst..(dst + n - 1) THEN a[p - dst + src] ELSE a[p]]

(* The end of a line and the beginning of the next, for m lines.           *)
move_lines(a, n, dst, src, m) ==
    LET moved[r \in 0..m] ==
            IF r = 0 THEN a
            ELSE memmove(moved[r - 1], dst + (r - 1) * (n - 1), src + (r - 1) * n, n - 1)
    IN  moved[m]

(* The lines before line i.                                                *)
shift_above(a, n, i) ==
    IF i = 0 THEN a
    ELSE memmove(move_lines(a, n, i, i + 1, i - 1),
                 (i - 1) * (n - 1) + i, (i - 1) * n + i + 1, n - i - 1)

(* Mutant: the end of the last line that is kept stays where it is.        *)
shift_matrix_NoLastLine(a, n, i) ==
    IF i = n - 1 THEN shift_above(a, n, i)
    ELSE move_lines(memmove(shift_above(a, n, i), i * (n - 1), (i + 1) * n, i),
                    n, i * (n - 1) + i, (i + 1) * n + i + 1, n - 2 - i)

(* The lines of the matrix are moved within the array, one line and one    *)
(* column shorter: line and column i, counted from 0, go.                  *)
shift_matrix(a, n, i) ==
    IF i = n - 1 THEN shift_above(a, n, i)
    ELSE memmove(move_lines(memmove(shift_above(a, n, i), i * (n - 1), (i + 1) * n, i),
                            n, i * (n - 1) + i, (i + 1) * n + i + 1, n - 2 - i),
                 (n - 2) * (n - 1) + i, (n - 1) * n + i + 1, n - i - 1)

shift_indexes(indexes, i) ==
    [p \in 1..(Len(indexes) - 1) |-> IF p < i THEN indexes[p] ELSE indexes[p + 1]]

(* One round of the loop of hwloc_distances__finalize_os: the next index   *)
(* has an object, or it leaves the arrays.                                 *)
convert_next(found, d) ==
    LET i == Len(d.objs) + 1
        x == found[<<d.type, d.indexes[i]>>]
    IN  IF x # NULL THEN [d EXCEPT !.objs = Append(@, x)]
        ELSE Element(d.type, shift_indexes(d.indexes, i), d.objs,
                     shift_matrix(d.values, Len(d.indexes), i - 1), d.forced)
convert(found, d) ==
    LET after[k \in 0..Len(d.indexes)] ==
            IF k = 0 THEN [d EXCEPT !.objs = <<>>] ELSE convert_next(found, after[k - 1])
    IN  after[Len(d.indexes)]

distances_finalize_os(found, list) ==
    LET converted == [i \in DOMAIN list |-> IF list[i].objs # NULL THEN list[i]
                                            ELSE convert(found, list[i])]
    IN  IF found = NULL THEN <<>>
        ELSE Among(converted, {d \in ToSet(converted) : d.indexes # <<>>})

distances_restrict_os(list) == [i \in DOMAIN list |-> [list[i] EXCEPT !.objs = NULL]]

distances_restrict(list, flags) ==
    IF "ADAPT_DISTANCES" \in flags THEN distances_restrict_os(list) ELSE <<>>

-----------------------------------------------------------------------------
(* Groups.  Matrices here are functions of two numbers from 0.             *)

Less(a, b) == a[1] * b[2] < b[1] * a[2]

(* hwloc_compare_distances = 0: equal, or closer than accuracy percent.    *)
Same(a, b, accuracy) ==
    LET diff == a[1] * b[2] - b[1] * a[2]
        gap  == IF diff < 0 THEN -diff ELSE diff
    IN  gap = 0 \/ 100 * gap < accuracy * a[1] * b[2]
NotMore(a, b, accuracy) == Same(a, b, accuracy) \/ Less(a, b)

check_grouping_matrix(n, M, accuracy) ==
    \A i, j \in 0..(n - 1) : i < j =>
        Same(M[i, j], M[j, i], accuracy) /\ ~NotMore(M[i, j], M[i, i], accuracy)

MinDistance(n, M) ==
    LET off == {M[p[1], p[2]] : p \in {q \in (0..(n - 1)) \X (0..(n - 1)) : q[1] # q[2]}}
    IN  CHOOSE m \in off : \A c \in off : ~Less(c, m)
MinimallyConnected(n, M, accuracy) ==
    LET min == MinDistance(n, M)
    IN  {p \in (0..(n - 1)) \X (0..(n - 1)) : Same(M[p[1], p[2]], min, accuracy)}

(* One pass over the lines from first on: the members of the group bring   *)
(* in what they are connected to; found is the first one.                  *)
bring(near, id, s, j, k) ==
    IF s.ids[j] = id /\ s.ids[k] = 0 /\ <<j, k>> \in near
    THEN [ids |-> [s.ids EXCEPT ![k] = id], found |-> IF s.found = -1 THEN k ELSE s.found]
    ELSE s
scan(n, near, ids, id, first) ==
    LET after[p \in 0..((n - first) * n)] ==
            IF p = 0 THEN [ids |-> ids, found |-> -1]
            ELSE bring(near, id, after[p - 1], first + (p - 1) \div n, (p - 1) % n)
    IN  after[(n - first) * n]

(* Mutant: the object that brings another in need not be in the group.     *)
close_group_AnyRow(n, near, ids, id, i) ==
    [k \in DOMAIN ids |-> IF ids[k] = 0 /\ \E j \in i..(n - 1) : j # k /\ <<j, k>> \in near
                          THEN id ELSE ids[k]]

(* Passes from the first object that the last one found, until one finds   *)
(* none: each of the others adds an object, so there are n at most.        *)
close_group(n, near, ids, id, i) ==
    LET after[r \in 0..n] ==
            IF r = 0 THEN [ids |-> ids, found |-> i]
            ELSE IF after[r - 1].found = -1 THEN after[r - 1]
            ELSE scan(n, near, after[r - 1].ids, id, after[r - 1].found)
    IN  after[n].ids

(* hwloc__find_groups_by_min_distance: a group number for each object, 0   *)
(* for one that is alone, and the number of groups.                        *)
new_group(n, near, s, i) ==
    LET ids == close_group(n, near, [s.ids EXCEPT ![i] = s.next], s.next, i)
    IN  IF Cardinality({k \in 0..(n - 1) : ids[k] = s.next}) = 1
        THEN [ids |-> s.ids, next |-> s.next, skipped |-> s.skipped + 1]
        ELSE [ids |-> ids, next |-> s.next + 1, skipped |-> s.skipped]
find_groups_by_min_distance(n, M, accuracy) ==
    LET near == MinimallyConnected(n, M, accuracy)
        after[i \in 0..n] ==
            IF i = 0 THEN [ids |-> [k \in 0..(n - 1) |-> 0], next |-> 1, skipped |-> 0]
            ELSE IF after[i - 1].ids[i - 1] # 0 THEN after[i - 1]
            ELSE new_group(n, near, after[i - 1], i - 1)
    IN  [ids |-> after[n].ids,
         nb |-> IF after[n].next = 2 /\ after[n].skipped = 0 THEN 0 ELSE after[n].next - 1]

Cells(values, n) ==
    [p \in (0..(n - 1)) \X (0..(n - 1)) |-> <<At(values, n, p[1], p[2]), 1>>]

-----------------------------------------------------------------------------
(* The steps.                                                              *)

MInit ==
    /\ osdist = <<>>
    /\ denv \in EnvStrings \cup {NULL}
    /\ asked = [type \in Types |-> NULL]

Asked(m) == IF m.indexes = <<>> THEN NULL
            ELSE [indexes |-> m.indexes, values |-> m.values, left |-> ToSet(m.indexes)]
AskedByEnv(as) ==
    IF denv = NULL THEN as
    ELSE IF ~StringMatrix(denv).ok THEN as
    ELSE [as EXCEPT ![denv.type] = Asked(StringMatrix(denv))]
(* What is left of the matrices after a conversion.                        *)
StillFound(found, as) ==
    [type \in Types |->
        IF found = NULL \/ as[type] = NULL THEN NULL
        ELSE LET left == {i \in as[type].left : found[<<type, i>>] # NULL}
             IN  IF left = {} THEN NULL ELSE [as[type] EXCEPT !.left = left]]

(* hwloc_topology_set_distance_matrix; no indexes clear the matrix.        *)
set_distance_matrix(m) ==
    /\ check_matrix(m.indexes)
    /\ osdist' = distances_set(osdist, Element(m.type, m.indexes, NULL, m.values, TRUE))
    /\ asked' = [asked EXCEPT ![m.type] = Asked(m)]
    /\ UNCHANGED denv

(* A load: the old matrices lose their objects, the environment and the    *)
(* backend give theirs, and all are converted after detection; the stages  *)
(* then remove objects, and the matrices are converted again.              *)
detected_matrices(found) ==
    distances_finalize_os(found, set_from_backend(
                                     distances_set_from_env(distances_restrict_os(osdist))))
load_matrices(found, again) ==
    /\ osdist' = distances_finalize_os(again, distances_restrict_os(detected_matrices(found)))
    /\ asked' = StillFound(again, StillFound(found, AskedByEnv(asked)))
    /\ UNCHANGED denv

restrict_matrices(found, flags) ==
    /\ osdist' = distances_finalize_os(found, distances_restrict(osdist, flags))
    /\ asked' = IF "ADAPT_DISTANCES" \in flags THEN StillFound(found, asked)
                ELSE [type \in Types |-> NULL]
    /\ UNCHANGED denv

MNext ==
    \/ \E m \in UserMatrices : set_distance_matrix(m)
    \/ \E found, again \in Lookups \cup {NULL} : load_matrices(found, again)
    \/ \E found \in Lookups \cup {NULL}, flags \in SUBSET {"ADAPT_DISTANCES"} :
            restrict_matrices(found, flags)

MSpec == MInit /\ [][MNext]_mvars

-----------------------------------------------------------------------------
(* Properties.                                                             *)

(* The value a matrix gives for two OS indexes, NULL if it names not both. *)
ValueFor(m, i, j) ==
    LET At1(x) == CHOOSE p \in DOMAIN m.indexes : m.indexes[p] = x
    IN  IF {i, j} \subseteq ToSet(m.indexes)
        THEN At(m.values, Len(m.indexes), At1(i) - 1, At1(j) - 1) ELSE NULL

(* Matrix d gives for its indexes what m gives for them.                   *)
SameValues(d, m) ==
    \A p, q \in DOMAIN d.indexes :
        At(d.values, Len(d.indexes), p - 1, q - 1) = ValueFor(m, d.indexes[p], d.indexes[q])

(* hwloc_distances_set and hwloc_distances_finalize_os: as long as one of  *)
(* its objects is found, the matrix that the program or the environment    *)
(* forced for a type remains the only one of that type, whatever is loaded *)
(* later.  It names exactly the objects that every conversion since has    *)
(* found, and gives for them the distances that it was given.              *)
UserMatrixWins ==
    \A type \in Types : asked[type] # NULL =>
        \E i \in DOMAIN osdist :
            /\ osdist[i].type = type
            /\ \A j \in DOMAIN osdist : osdist[j].type = type => i = j
            /\ ToSet(osdist[i].indexes) = asked[type].left
            /\ SameValues(osdist[i], asked[type])

(* The groups of a matrix (hwloc__find_groups_by_min_distance).            *)
Groups(m, accuracy) ==
    LET n == Len(m.indexes)
    IN  find_groups_by_min_distance(n, Cells(m.values, n), accuracy)
Groupable(m, accuracy) ==
    /\ m # NULL
    /\ Len(m.indexes) > 2
    /\ check_grouping_matrix(Len(m.indexes), Cells(m.values, Len(m.indexes)), accuracy)
Connected(G, near) ==
    \A S \in (SUBSET G) \ {{}, G} :
        \E i \in S, j \in G \ S : <<i, j>> \in near \/ <<j, i>> \in near

(* Two objects of one group are joined by steps of the minimal distance    *)
(* within the group, and no group is a single object: for every matrix     *)
(* that was given and every accuracy that is tried.                        *)
GroupsConnected ==
    \A type \in Types, accuracy \in ToSet(Accuracies) : Groupable(asked[type], accuracy) =>
        LET m == asked[type]
            n == Len(m.indexes)
            g == Groups(m, accuracy)
            Members(id) == {k \in 0..(n - 1) : g.ids[k] = id}
        IN  \A id \in 1..g.nb :
                /\ Cardinality(Members(id)) > 1
                /\ Connected(Members(id), MinimallyConnected(n, Cells(m.values, n), accuracy))
=============================================================================
