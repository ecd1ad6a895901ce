------------------------------ MODULE Discovery ------------------------------
(***************************************************************************)
(* What hwloc_discover does to the tree of objects once a backend of this  *)
(* machine has filled it, stage by stage, and what it computes from it in  *)
(* hwloc_connect_levels.  The root is the one object that has all its      *)
(* bitmaps (alloc_cpusets); it is the "sys" of the stages.  A stage that   *)
(* for_each_child_safe walks is a fold over the children; where it visits  *)
(* again the children put in place of a removed one, it finds nothing left *)
(* to do on them.                                                          *)
(***************************************************************************)
EXTENDS ObjTree

-----------------------------------------------------------------------------
(* cpusets.                                                                *)

(* Mutant: the cpuset of the root is not zeroed first.                     *)
collect_NoZero(t) ==
    [t EXCEPT !.obj[t.root].cpuset = @ \cup
        UNION {t.obj[x].cpuset : x \in {y \in Below(t, t.root) : t.obj[y].type = "PU"}}]

(* The cpuset of the root becomes that of the PUs.                         *)
collect_proc_cpuset(t) ==
    [t EXCEPT !.obj[t.root].cpuset =
        UNION {t.obj[x].cpuset : x \in {y \in Below(t, t.root) : t.obj[y].type = "PU"}}]

(* A bitmap of the root applied to that of an object below; an object that *)
(* has none takes what its cpuset covers.                                  *)
Down(own, sys, cpuset) == IF Has(own) THEN own \cap sys ELSE sys \cap cpuset

(* What an object knows to be offline or disallowed is taken from the root.*)
Up(sys, own, cpuset, known) ==
    IF Has(own) THEN sys \cap ((AllCpus \ cpuset) \cup known) ELSE sys

propagate_unused_root(t) ==
    LET r == t.obj[t.root] IN
    [t EXCEPT !.obj[t.root].cpuset = r.cpuset \cap r.complete_cpuset,
              !.obj[t.root].online_cpuset = r.online_cpuset \cap r.complete_cpuset,
              !.obj[t.root].allowed_cpuset = r.allowed_cpuset \cap r.complete_cpuset]

(* Objects without a cpuset are left alone.                                *)
propagate_unused_child(t, x) ==
    LET o == t.obj[x]
        r == t.obj[t.root]
        cpuset  == o.cpuset \cap r.cpuset
        online  == Down(o.online_cpuset, r.online_cpuset, cpuset)
        allowed == Down(o.allowed_cpuset, r.allowed_cpuset, cpuset)
    IN  IF ~Has(o.cpuset) THEN t ELSE [t EXCEPT
           !.obj[x].cpuset = cpuset,
           !.obj[x].complete_cpuset = Down(o.complete_cpuset, r.complete_cpuset, cpuset),
           !.obj[x].online_cpuset = online,
           !.obj[x].allowed_cpuset = allowed,
           !.obj[t.root].online_cpuset = Up(@, o.online_cpuset, cpuset, online),
           !.obj[t.root].allowed_cpuset = Up(@, o.allowed_cpuset, cpuset, allowed)]

propagate_unused_cpuset(t) ==
    FoldLeft(propagate_unused_child, propagate_unused_root(t), Tail(PreOrder(t)))

remove_unused_cpusets(t) ==
    [t EXCEPT !.obj = [x \in Id |->
        IF t.obj[x] = NULL \/ ~Has(t.obj[x].cpuset) THEN t.obj[x]
        ELSE [t.obj[x] EXCEPT !.cpuset = @ \cap t.obj[x].online_cpuset
                                           \cap t.obj[x].allowed_cpuset]]]

-----------------------------------------------------------------------------
(* nodesets.                                                               *)

(* Without any NUMA node the root loses its nodesets: there is then none.  *)
drop_nodesets(t) ==
    IF t.obj[t.root].complete_nodeset # {} THEN t
    ELSE [t EXCEPT !.obj[t.root].nodeset = NULL,
                   !.obj[t.root].complete_nodeset = NULL,
                   !.obj[t.root].allowed_nodeset = NULL]

(* A single node is propagated down, all nodes are propagated up.  The     *)
(* children from the first I/O object on are not visited.                  *)
RECURSIVE propagate_nodeset(_, _)
propagate_nodeset(t, x) ==
    LET own    == t.obj[x].nodeset
        single == Has(own) /\ Cardinality(own) = 1
        io     == {i \in DOMAIN t.kids[x] : type_is_io(t.obj[t.kids[x][i]].type)}
        Visit(s, c) ==
            LET s1 == IF single THEN [s EXCEPT !.obj[c].nodeset = s.obj[x].nodeset] ELSE s
                s2 == propagate_nodeset(s1, c)
            IN  [s2 EXCEPT !.obj[x].nodeset = @ \cup s2.obj[c].nodeset]
    IN  FoldLeft(Visit, [t EXCEPT !.obj[x].nodeset = IF Has(own) THEN own ELSE {}],
                 IF io = {} THEN t.kids[x] ELSE SubSeq(t.kids[x], 1, Min(io) - 1))

(* Complete and allowed nodesets are propagated down, what is disallowed   *)
(* is propagated up, and then the complete nodeset is applied; I/O objects *)
(* are left alone, and so is what has no nodeset.                          *)
RECURSIVE propagate_nodesets(_, _)
propagate_nodesets(t, x) ==
    LET Visit(s, c) ==
            LET p  == s.obj[x]
                o  == s.obj[c]
                s1 == [s EXCEPT
                    !.obj[c].complete_nodeset = Down(@, p.complete_nodeset, o.nodeset),
                    !.obj[c].allowed_nodeset = Down(@, p.allowed_nodeset, o.nodeset)]
                s2 == propagate_nodesets(s1, c)
            IN  IF type_is_io(o.type) \/ ~Has(o.nodeset) THEN s
                ELSE [s2 EXCEPT !.obj[x].allowed_nodeset =
                    @ \ (s2.obj[c].nodeset \ s2.obj[c].allowed_nodeset)]
        t1 == FoldLeft(Visit, t, t.kids[x])
        complete == t1.obj[x].complete_nodeset
    IN  [t1 EXCEPT !.obj[x].nodeset = @ \cap complete,
                   !.obj[x].allowed_nodeset = @ \cap complete]

propagate_all_nodesets(t) ==
    LET t1 == drop_nodesets(t)
    IN  IF Has(t1.obj[t1.root].nodeset)
        THEN propagate_nodesets(propagate_nodeset(t1, t1.root), t1.root)
        ELSE t1

(* I/O objects and what is below them have no sets.                        *)
WithSets(t) ==
    LET io == {x \in InTree(t) : type_is_io(t.obj[x].type)}
    IN  InTree(t) \ (io \cup UNION {Below(t, x) : x \in io})

(* add_default_object_sets asserts that all the others have a cpuset, since*)
(* the root has one.                                                       *)
sets_asserted(t) == \A x \in WithSets(t) : Has(t.obj[x].cpuset)

(* Objects of a machine without NUMA nodes get full nodesets.              *)
add_default_object_sets(t) ==
    LET Full(set) == IF Has(set) THEN set ELSE AllNodes
        with      == WithSets(t)
    IN  [t EXCEPT !.obj = [x \in Id |->
            IF x \notin with THEN t.obj[x]
            ELSE [t.obj[x] EXCEPT !.nodeset = Full(@), !.complete_nodeset = Full(@),
                                  !.allowed_nodeset = Full(@)]]]

-----------------------------------------------------------------------------
(* Removing objects.  ignored gives the hwloc_ignore_type_e of every type. *)

remove_ignored(t, ignored) ==
    LET Visit(s, x) ==
            IF x # s.root /\ ignored[s.obj[x].type] = "ALWAYS"
            THEN unlink_single_object(s, x) ELSE s
    IN  FoldLeft(Visit, t, PostOrder(t))

(* Objects without processors and without children go, except NUMA nodes;  *)
(* if the root goes, levels[0][0] is NULL and the program aborts.          *)
remove_empty(t) ==
    LET Empty(s, x) ==
            /\ s.obj[x].type # "NODE" /\ s.kids[x] = <<>>
            /\ ~type_is_io(s.obj[x].type)
            /\ Has(s.obj[x].cpuset) /\ s.obj[x].cpuset = {}
        Visit(s, x) ==
            IF ~Empty(s, x) THEN s
            ELSE IF x = s.root THEN [s EXCEPT !.root = NULL, !.obj[x] = NULL]
            ELSE unlink_single_object(s, x)
    IN  FoldLeft(Visit, t, PostOrder(t))

(* An object and its only child are one, if one of their types is ignored  *)
(* where it brings no structure: the parent goes first, the root too.      *)
merge_useless_child(t, ignored) ==
    LET Keep(s, x) == ignored[s.obj[x].type] = "KEEP_STRUCTURE"
        Visit(s, x) ==
            IF Len(s.kids[x]) # 1 THEN s
            ELSE LET c == s.kids[x][1] IN
                 IF Keep(s, x) THEN
                     IF x = s.root
                     THEN [s EXCEPT !.root = c, !.obj[x] = NULL, !.kids[x] = <<>>]
                     ELSE unlink_single_object(s, x)
                 ELSE IF Keep(s, c) THEN unlink_single_object(s, c)
                 ELSE s
    IN  FoldLeft(Visit, t, PostOrder(t))

-----------------------------------------------------------------------------
(* The order of the stages.                                                *)

(* WHOLE_SYSTEM keeps what is offline or disallowed.                       *)
tweak(t, ignored, whole) ==
    LET t1 == propagate_all_nodesets(propagate_unused_cpuset(collect_proc_cpuset(t)))
        t2 == IF whole THEN t1 ELSE remove_unused_cpusets(t1)
    IN  remove_empty(remove_ignored(t2, ignored))

(* After remove_empty the program has checked that there is a root.        *)
finish(t, ignored) == add_default_object_sets(merge_useless_child(t, ignored))

-----------------------------------------------------------------------------
(* hwloc_connect_levels.                                                   *)

(* Misc objects are replaced by what is below them, I/O objects are left   *)
(* out.                                                                    *)
level_filter(t, objs) ==
    LET filter[x \in Id] ==
            IF type_is_io(t.obj[x].type) THEN <<>>
            ELSE IF t.obj[x].type # "MISC" THEN <<x>>
            ELSE FlattenSeq([i \in DOMAIN t.kids[x] |-> filter[t.kids[x][i]]])
    IN  FlattenSeq([i \in DOMAIN objs |-> filter[objs[i]]])

find_same_type(t, x, y) ==
    \E z \in {x} \cup Below(t, x) : type_cmp(t.obj[z], t.obj[y]) = "EQUAL"

(* Mutant: the first object that is not a PU, whatever the others are.     *)
top_obj_First(t, objs) ==
    LET NotPU(x) == t.obj[x].type # "PU"
    IN  IF SelectSeq(objs, NotPU) = <<>> THEN objs[1] ELSE SelectSeq(objs, NotPU)[1]

(* The topmost of the objects: the first that is not a PU, unless another  *)
(* has an object of its type below it.                                     *)
top_obj(t, objs) ==
    LET NotPU(x) == t.obj[x].type # "PU"
        start    == IF SelectSeq(objs, NotPU) = <<>> THEN objs[1]
                    ELSE SelectSeq(objs, NotPU)[1]
        Above(top, x) ==
            IF type_cmp(t.obj[top], t.obj[x]) # "EQUAL" /\ find_same_type(t, x, top)
            THEN x ELSE top
    IN  FoldLeft(Above, start, objs)

RECURSIVE levels_from(_, _)
levels_from(t, objs) ==
    IF objs = <<>> THEN <<>>
    ELSE LET top      == top_obj(t, objs)
             Taken(x) == type_cmp(t.obj[top], t.obj[x]) = "EQUAL"
             new      == FlattenSeq([i \in DOMAIN objs |->
                             IF Taken(objs[i]) THEN t.kids[objs[i]] ELSE <<objs[i]>>])
         IN  <<SelectSeq(objs, Taken)>> \o levels_from(t, level_filter(t, new))

connect_levels(t) ==
    <<<<t.root>>>> \o levels_from(t, level_filter(t, t.kids[t.root]))
=============================================================================
