----------------------------- MODULE Synthetic -----------------------------
(***************************************************************************)
(* The synthetic backend (src/topology-synthetic.c): a description of a    *)
(* topology, read into an array of levels, and the tree built from them.   *)
(* A description is a sequence of items, each a type (UNKNOWN if none is   *)
(* given) and an arity (NULL where the string has no number, or a type     *)
(* without its colon).  Level 0 is the root; arity[l] is the number of     *)
(* children of an object of level l, 0 for the last level.                 *)
(***************************************************************************)
EXTENDS Topology

CONSTANTS
    UNKNOWN,                     \* HWLOC_OBJ_TYPE_UNKNOWN
    HWLOC_SYNTHETIC_MAX_DEPTH,   \* 128 in the code
    Descriptions                 \* what the application may describe

SyntheticTypes == {"MACHINE", "NODE", "SOCKET", "CORE", "CACHE", "PU", "MISC", "GROUP"}

ASSUME DescriptionAssumption ==
    \A d \in Descriptions : \A i \in DOMAIN d :
        d[i].type \in SyntheticTypes \cup {UNKNOWN} /\ d[i].arity \in Nat \cup {NULL}

-----------------------------------------------------------------------------
(* hwloc_backend_synthetic_init.                                           *)

(* The type of a level that has none, from that of the level below.        *)
TypeAbove(type) ==
    CASE type = "PU" -> "CORE"
      [] type = "CORE" -> "CACHE"
      [] type = "CACHE" -> "SOCKET"
      [] type = "SOCKET" -> "NODE"
      [] type \in {"NODE", "GROUP"} -> "GROUP"
      [] type \in {"MACHINE", "MISC"} -> "MISC"

(* The types of the levels 1..Len(d), from the last one up.                *)
LevelTypes(d) ==
    LET type[i \in 1..Len(d)] ==
            IF d[i].type # UNKNOWN THEN d[i].type
            ELSE IF i = Len(d) THEN "PU" ELSE TypeAbove(type[i + 1])
    IN  type

Count(types, type) == Cardinality({i \in DOMAIN types : types[i] = type})

(* What is refused with EINVAL: an item without a number, too many levels, *)
(* no PU level, and several levels of PUs, of nodes or of machines.        *)
Refused(d) ==
    LET types == LevelTypes(d) IN
    \/ \E i \in DOMAIN d : d[i].arity = NULL \/ i + 1 >= HWLOC_SYNTHETIC_MAX_DEPTH
    \/ Count(types, "PU") # 1
    \/ Count(types, "NODE") > 1
    \/ Count(types, "MACHINE") > 1

(* Mutant: groups and caches are counted from the top.                     *)
DepthAttribute_FromTop(types, i) ==
    IF types[i] \notin {"GROUP", "CACHE"} THEN 0
    ELSE Cardinality({j \in DOMAIN types : j <= i /\ types[j] = types[i]})

(* The depth of a level of groups or caches counts those of its type from  *)
(* the bottom; a single level of caches is L2.                             *)
DepthAttribute(types, i) ==
    IF types[i] \notin {"GROUP", "CACHE"} THEN 0
    ELSE IF types[i] = "CACHE" /\ Count(types, "CACHE") = 1 THEN 2
    ELSE Cardinality({j \in DOMAIN types : j >= i /\ types[j] = types[i]})

synthetic_init(d) ==
    LET types == LevelTypes(d) IN
    [root  |-> IF Count(types, "MACHINE") > 0 THEN "SYSTEM" ELSE "MACHINE",
     type  |-> types,
     depth |-> [i \in DOMAIN d |-> DepthAttribute(types, i)],
     arity |-> [i \in 0..Len(d) |-> IF i < Len(d) THEN d[i + 1].arity ELSE 0]]

-----------------------------------------------------------------------------
(* hwloc__look_synthetic: an object of a level is inserted after all those *)
(* below it, whose processors it has; acc carries the next processor, the  *)
(* next index of every level and the tree.  The first free object is used; *)
(* when insertion merges it, it is free again.                             *)

SyntheticObject(p, l, os_index, cpuset) ==
    [setup_object(p.type[l], os_index) EXCEPT
        !.level = p.depth[l], !.cpuset = cpuset,
        !.nodeset = IF p.type[l] = "NODE" THEN {os_index} ELSE NULL]

RECURSIVE look_level(_, _, _)
look_level(p, l, acc) ==
    LET Child(a, i) == look_level(p, l + 1, a)
        below == [acc EXCEPT !.id[l] = @ + 1]
        after == IF p.arity[l] = 0 THEN [below EXCEPT !.cpu = @ + 1]
                 ELSE FoldLeft(Child, below, [i \in 1..p.arity[l] |-> i])
        o     == SyntheticObject(p, l, acc.id[l], acc.cpu..(after.cpu - 1))
    IN  [after EXCEPT !.tree = insert_object_by_cpuset(@, CHOOSE x \in Fresh(@) : TRUE, o)]

(* The indexes of every level start at 0 at each load.                     *)
look_synthetic(p) ==
    LET root == alloc_cpusets(setup_defaults,
                    [known |-> {}, online |-> AllCpus, allowed |-> AllCpus,
                     allowed_nodeset |-> AllNodes])
        Child(a, i) == look_level(p, 1, a)
        first == [cpu |-> 0, id |-> [l \in DOMAIN p.type |-> 0],
                  tree |-> [root EXCEPT !.obj[Root].type = p.root]]
    IN  FoldLeft(Child, first, [i \in 1..p.arity[0] |-> i]).tree

-----------------------------------------------------------------------------
(* What a description stands for.                                          *)

(* How many objects a level has, and how many processors each of them.     *)
Width(p, l) == FoldLeft(LAMBDA w, i : w * p.arity[i - 1], 1, [i \in 1..l |-> i])
Span(p, l)  == Width(p, Len(p.type)) \div Width(p, l)

(* Levels of one width have the same processors, and are told apart by     *)
(* type: a description that names them in another order cannot be had,     *)
(* several levels of groups or of caches can.                              *)
Peers(p, l) == {k \in DOMAIN p.type : Width(p, k) = Width(p, l)}
Above(upper, lower) ==
    obj_type_order(upper) < obj_type_order(lower) \/ (upper = lower /\ upper \in {"GROUP", "CACHE"})
Describable(p) ==
    /\ \A l \in 0..(Len(p.type) - 1) : p.arity[l] > 0
    /\ Last(p.type) = "PU"
    /\ \A l \in DOMAIN p.type :
           /\ \A k \in Peers(p, l) : k < l => Above(p.type[k], p.type[l])
           /\ Width(p, l) = 1 => Above(p.root, p.type[l])

(* A group brings nothing where another level has the same processors: the *)
(* lowest of several groups stays if there are only groups.                *)
Useful(p, l) ==
    p.type[l] = "GROUP" =>
        /\ Width(p, l) > 1
        /\ \A k \in Peers(p, l) : p.type[k] = "GROUP" /\ k <= l
ExpectedLevels(p) ==
    LET Kept(l) == p.type[l] # "MISC" /\ Useful(p, l)
    IN  SelectSeq([l \in DOMAIN p.type |-> l], Kept)

IsLevel(p, l, objs) ==
    /\ Len(objs) = Width(p, l)
    /\ \A i \in DOMAIN objs :
        LET o == tree.obj[objs[i]] IN
        /\ o.type = p.type[l] /\ o.level = p.depth[l] /\ o.os_index = i - 1
        /\ o.cpuset = (Span(p, l) * (i - 1))..(Span(p, l) * i - 1)
IsDescribed(p) ==
    /\ Len(levels) = Len(ExpectedLevels(p)) + 1
    /\ \A d \in DOMAIN ExpectedLevels(p) : IsLevel(p, ExpectedLevels(p)[d], levels[d + 1])
=============================================================================
