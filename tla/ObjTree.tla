------------------------------- MODULE ObjTree -------------------------------
(***************************************************************************)
(* The tree of objects of src/topology.c and how objects get into it: the  *)
(* comparison of types and of objects, hwloc_insert_object_by_cpuset and   *)
(* hwloc_insert_object_by_parent.  There are no variables here: a tree is  *)
(* a record                                                                *)
(*                                                                         *)
(*    root   the object levels[0][0]                                       *)
(*    obj    the fields of every object, NULL for one that does not exist  *)
(*    kids   its children in the order of the first_child/next_sibling list*)
(*                                                                         *)
(* and the operators give the tree an operation leaves behind.  The fields *)
(* of an object are its type, the depth attribute of a cache or group, the *)
(* index the OS gives it, its name (a number, 0 for none), and its seven   *)
(* bitmaps.  A bitmap is the set Bitmap.tla shows it to be; the last index *)
(* of AllCpus and of AllNodes stands for all the indexes beyond, so that a *)
(* bitmap is infinite when it holds it.                                    *)
(***************************************************************************)
EXTENDS Integers, SequencesExt, FiniteSetsExt

CONSTANTS
    Id,       \* the objects there can be
    NULL,     \* no object, or a bitmap pointer that is NULL
    NbCpus,   \* indexes of processors are 0..NbCpus-1
    NbNodes   \* indexes of NUMA nodes are 0..NbNodes-1

ASSUME IndexAssumption == NbCpus \in Nat \ {0} /\ NbNodes \in Nat

AllCpus  == 0..NbCpus
AllNodes == 0..NbNodes
Has(set) == set # NULL

-----------------------------------------------------------------------------
(* Types.                                                                  *)

obj_order_type ==
    <<"SYSTEM", "MACHINE", "GROUP", "NODE", "SOCKET", "CACHE", "CORE",
      "BRIDGE", "PCI_DEVICE", "OS_DEVICE", "PU", "MISC">>
Types == ToSet(obj_order_type)
obj_type_order(type) == CHOOSE i \in DOMAIN obj_order_type : obj_order_type[i] = type

type_is_io(type) == type \in {"BRIDGE", "PCI_DEVICE", "OS_DEVICE"}

(* hwloc_compare_types, as type_cmp uses it: HWLOC_TYPE_UNORDERED is       *)
(* positive, whichever of the types is the I/O one.                        *)
compare_types(t1, t2) ==
    LET unordered(s, t) == type_is_io(s) /\ ~type_is_io(t) /\ t \notin {"SYSTEM", "MACHINE"}
    IN  IF unordered(t1, t2) \/ unordered(t2, t1) THEN 1000
        ELSE obj_type_order(t1) - obj_type_order(t2)

(* Caches, groups and bridges also compare by their own depth.             *)
type_cmp(o1, o2) ==
    LET Cmp(c, d) == IF c > 0 \/ (c = 0 /\ d > 0) THEN "DEEPER"
                     ELSE IF c < 0 \/ (c = 0 /\ d < 0) THEN "HIGHER"
                     ELSE "EQUAL"
    IN  Cmp(compare_types(o1.type, o2.type),
            IF o1.type \in {"CACHE", "GROUP", "BRIDGE"} THEN o2.level - o1.level ELSE 0)

-----------------------------------------------------------------------------
(* Comparing objects by what they contain: cpusets when both have one that *)
(* is not empty, else nodesets, else they are unrelated.                   *)

NotEmpty(set) == Has(set) /\ set # {}

(* Names are compared by strcmp, which orders the Misc objects of one set. *)
cmp_sets(o1, o2, set1, set2) ==
    LET Equal(c) == CASE c = "DEEPER" -> "INCLUDED"
                      [] c = "HIGHER" -> "CONTAINS"
                      [] o1.type = "MISC" /\ o1.name < o2.name -> "INCLUDED"
                      [] o1.type = "MISC" /\ o1.name > o2.name -> "CONTAINS"
                      [] OTHER -> "EQUAL"
    IN
    IF set1 = set2 THEN Equal(type_cmp(o1, o2))
    ELSE IF set1 \subseteq set2 THEN "INCLUDED"
    ELSE IF set2 \subseteq set1 THEN "CONTAINS"
    ELSE IF set1 \cap set2 # {} THEN "INTERSECTS"
    ELSE "DIFFERENT"

obj_cmp(o1, o2) ==
    LET Comparable(f) == NotEmpty(o1[f]) /\ NotEmpty(o2[f])
        by == IF Comparable("cpuset") THEN "cpuset" ELSE "nodeset"
    IN  IF Comparable(by) THEN cmp_sets(o1, o2, o1[by], o2[by]) ELSE "DIFFERENT"

(* hwloc_bitmap_compare_first(s1, s2) < 0: the empty bitmap is the highest.*)
FirstBefore(s1, s2) == s1 # {} /\ (s2 = {} \/ Min(s1) < Min(s2))

-----------------------------------------------------------------------------
(* Trees.                                                                  *)

InTree(t) == {x \in Id : t.obj[x] # NULL}
Fresh(t)  == Id \ InTree(t)
Kids(t, x) == ToSet(t.kids[x])
Parent(t, x) == CHOOSE p \in InTree(t) : x \in Kids(t, p)

(* The objects of the tree, each before its children; and each after them. *)
PreOrder(t) ==
    LET pre[x \in Id] ==
            <<x>> \o FlattenSeq([i \in DOMAIN t.kids[x] |-> pre[t.kids[x][i]]])
    IN  pre[t.root]
PostOrder(t) ==
    LET post[x \in Id] ==
            FlattenSeq([i \in DOMAIN t.kids[x] |-> post[t.kids[x][i]]]) \o <<x>>
    IN  post[t.root]

(* All the objects strictly below x.                                       *)
Below(t, x) ==
    LET below[y \in Id] == UNION {{c} \cup below[c] : c \in Kids(t, y)}
    IN  below[x]
Ancestors(t, x) == {p \in InTree(t) : x \in Below(t, p)}

-----------------------------------------------------------------------------
(* hwloc___insert_object_by_cpuset, at object cur: what it does with the   *)
(* object o it is given.                                                   *)

(* Mutant: an object that should go above a child is refused.              *)
Stops_OnContains(t, cur, o) ==
    {i \in DOMAIN t.kids[cur] :
        obj_cmp(o, t.obj[t.kids[cur][i]]) \in {"EQUAL", "INTERSECTS", "CONTAINS"}}

(* The children that end the scan of the children of cur: one that equals  *)
(* o, one that crosses it, or a second one that contains it.               *)
Stops(t, cur, o) ==
    {i \in DOMAIN t.kids[cur] :
        LET cmp(j) == obj_cmp(o, t.obj[t.kids[cur][j]]) IN
        \/ cmp(i) \in {"EQUAL", "INTERSECTS"}
        \/ cmp(i) = "INCLUDED" /\ \E j \in 1..(i - 1) : cmp(j) = "INCLUDED"}
Containers(t, cur, o) == {c \in Kids(t, cur) : obj_cmp(o, t.obj[c]) = "INCLUDED"}

(* It gives up at once if o does not fit in cur; it recurses into a child  *)
(* that contains o.                                                        *)
TooDeep(t, cur, o) == ~(o.cpuset \subseteq t.obj[cur].cpuset)
Recurses(t, cur, o) ==
    ~TooDeep(t, cur, o) /\ Stops(t, cur, o) = {} /\ Containers(t, cur, o) # {}

(* The object at which the recursion that starts at the root ends.         *)
LastCur(t, o) ==
    LET walk[cur \in Id] ==
            IF Recurses(t, cur, o)
            THEN walk[CHOOSE c \in Containers(t, cur, o) : TRUE]
            ELSE cur
    IN  walk[t.root]

(* Where it ends, o is merged into an equal child, or refused, or placed.  *)
MergeWith(t, cur, o) ==
    LET i == Min(Stops(t, cur, o)) IN
    IF TooDeep(t, cur, o) \/ Stops(t, cur, o) = {} THEN NULL
    ELSE IF obj_cmp(o, t.obj[t.kids[cur][i]]) = "EQUAL" THEN t.kids[cur][i] ELSE NULL
Places(t, cur, o) == ~TooDeep(t, cur, o) /\ Stops(t, cur, o) = {}

(* An index the tree does not know is taken from o; then nothing else is   *)
(* merged when the indexes differ.  A name replaces the one that was there.*)
Merged(child, o) ==
    LET os_index == IF child.os_index = -1 THEN o.os_index ELSE child.os_index
        same     == os_index = o.os_index
    IN  [child EXCEPT !.os_index = os_index,
                      !.name = IF same /\ o.name # 0 THEN o.name ELSE child.name]

(* The elements of s that are in S, in order.                              *)
Among(s, S) ==
    LET among[n \in 0..Len(s)] ==
            IF n = 0 THEN <<>>
            ELSE IF s[n] \in S THEN Append(among[n - 1], s[n]) ELSE among[n - 1]
    IN  among[Len(s)]

(* Mutant: o goes after all the children it is not related to.             *)
Place_AtEnd(t, cur, x, o) ==
    LET inside  == {c \in Kids(t, cur) : obj_cmp(o, t.obj[c]) = "CONTAINS"}
    IN  [t EXCEPT !.obj[x] = o,
                  !.kids[x] = Among(t.kids[cur], inside),
                  !.kids[cur] = Append(Among(t.kids[cur], Kids(t, cur) \ inside), x)]

(* Mutant: the children that o contains stay beside it.                    *)
Place_NoAdopt(t, cur, x, o) ==
    LET after == {i \in DOMAIN t.kids[cur] :
                     \/ ~Has(t.obj[t.kids[cur][i]].cpuset)
                     \/ FirstBefore(o.cpuset, t.obj[t.kids[cur][i]].cpuset)}
        pos   == IF after = {} THEN Len(t.kids[cur]) + 1 ELSE Min(after)
    IN  [t EXCEPT !.obj[x] = o, !.kids[cur] = InsertAt(@, pos, x)]

(* The children of cur that o contains become those of o, in order; o goes *)
(* before the first other one that has no cpuset or begins after o.        *)
Place(t, cur, x, o) ==
    LET inside  == {c \in Kids(t, cur) : obj_cmp(o, t.obj[c]) = "CONTAINS"}
        outside == Among(t.kids[cur], Kids(t, cur) \ inside)
        after   == {i \in DOMAIN outside :
                       \/ ~Has(t.obj[outside[i]].cpuset)
                       \/ FirstBefore(o.cpuset, t.obj[outside[i]].cpuset)}
        pos     == IF after = {} THEN Len(outside) + 1 ELSE Min(after)
    IN  [t EXCEPT !.obj[x] = o,
                  !.kids[x] = Among(t.kids[cur], inside),
                  !.kids[cur] = InsertAt(outside, pos, x)]

(* hwloc__insert_object_by_cpuset of o, which is the object x if it can be *)
(* linked, and is freed otherwise: its sets go to the top first.           *)
insert_object_by_cpuset(t0, x, o) ==
    LET Into(t, cur, equal) ==
            IF Places(t, cur, o) THEN Place(t, cur, x, o)
            ELSE IF equal # NULL THEN [t EXCEPT !.obj[equal] = Merged(@, o)]
            ELSE t
        Under(t, cur) == Into(t, cur, MergeWith(t, cur, o))
        From(t)       == Under(t, LastCur(t, o))
    IN  From([t0 EXCEPT
                !.obj[t0.root].complete_cpuset = @ \cup o.cpuset,
                !.obj[t0.root].complete_nodeset =
                    IF Has(o.nodeset) THEN @ \cup o.nodeset ELSE @])

(* hwloc_insert_object_by_parent of an object without children.            *)
insert_object_by_parent(t, p, x, o) ==
    [t EXCEPT !.obj[x] = o, !.kids[x] = <<>>, !.kids[p] = Append(@, x)]

(* unlink_and_free_single_object: its children take the place of x.        *)
unlink_single_object(t, x) ==
    LET p == Parent(t, x)
        i == CHOOSE j \in DOMAIN t.kids[p] : t.kids[p][j] = x
    IN  [t EXCEPT !.obj[x] = NULL,
                  !.kids[x] = <<>>,
                  !.kids[p] = SubSeq(@, 1, i - 1) \o t.kids[x] \o SubSeq(@, i + 1, Len(@))]
=============================================================================
