----------------------------- MODULE Distances -----------------------------
(***************************************************************************)
(* Distance matrices (src/distances.c) beside the tree they are about: the  *)
(* list of matrices of Matrices with the answers of the tree, the groups    *)
(* made from them, and the matrices by logical index that objects carry in  *)
(* the end.  A load is one step here; the order of insertions is the        *)
(* subject of Topology.                                                     *)
(***************************************************************************)
EXTENDS Traversal, Matrices

CONSTANTS
    Order,         \* the objects of Input in the order the backend inserts
    MaxCalls       \* bound of the calls that are made

VARIABLES
    logical,   \* the matrices of every object
    fault,     \* a freed group was read, a matrix written outside its cells, or
               \* one given since the load was used by restrict beside the old ones
    calls      \* the calls made so far

dvars == <<vars, mvars, logical, fault, calls>>

-----------------------------------------------------------------------------
(* From indexes to objects.                                                *)

(* hwloc_find_obj_by_type_and_os_index, for all the types and indexes that *)
(* matrices name.                                                          *)
Lookup(t) ==
    LET order    == PreOrder(t)
        found(k) == {i \in DOMAIN order : <<t.obj[order[i]].type, t.obj[order[i]].os_index>> = k}
    IN  IF ~Has(t.obj[t.root].cpuset) THEN NULL
        ELSE [k \in Named |-> IF found(k) = {} THEN NULL ELSE order[Min(found(k))]]

-----------------------------------------------------------------------------
(* Matrices by logical index.                                              *)

get_obj_covering_cpuset_nodeset(t, cpuset, nodeset) ==
    LET Fits(x) == /\ Has(t.obj[x].cpuset) /\ cpuset \subseteq t.obj[x].cpuset
                   /\ Has(t.obj[x].nodeset) => nodeset \subseteq t.obj[x].nodeset
        walk[x \in Id] ==
            LET fit == SelectSeq(t.kids[x], Fits)
            IN  IF fit = <<>> THEN x ELSE walk[fit[1]]
    IN  walk[t.root]

Union(t, objs, field) ==
    UNION {IF Has(t.obj[x][field]) THEN t.obj[x][field] ELSE {} : x \in ToSet(objs)}

(* Entry (li, lj) is that of the objects of logical indexes li and lj after*)
(* the smallest, divided by the minimum (NORMALIZE_LATENCY).               *)
logical_matrix(lev, objs, values) ==
    LET n     == Len(objs)
        minl  == Min({LogicalIndex(lev, x) : x \in ToSet(objs)})
        pos(l) == CHOOSE i \in 0..(n - 1) : LogicalIndex(lev, objs[i + 1]) = minl + l
        cells == SubSeq(values, 1, n * n)
    IN  [p \in 1..(n * n) |->
            <<At(values, n, pos((p - 1) \div n), pos((p - 1) % n)), Min(ToSet(cells))>>]

(* The objects are not neighbours: cells outside of the matrix are written.*)
Sparse(lev, objs) ==
    LET ls == {LogicalIndex(lev, x) : x \in ToSet(objs)}
    IN  Max(ls) - Min(ls) >= Len(objs)
Overflows(t, lev, list) ==
    \E i \in DOMAIN list : /\ get_type_depth(t, lev, list[i].type) >= 0
                           /\ Sparse(lev, list[i].objs)

(* hwloc_distances__finalize_logical.                                      *)
add_logical(t, lev, lg, d) ==
    LET root  == get_obj_covering_cpuset_nodeset(t, Union(t, d.objs, "cpuset"),
                                                    Union(t, d.objs, "nodeset"))
        n     == Len(d.objs)
        depth == DepthOf(lev, d.objs[1]) - DepthOf(lev, root)
        m     == [relative_depth |-> depth, nbobjs |-> n,
                  latency |-> logical_matrix(lev, d.objs, SubSeq(d.values, 1, n * n))]
    IN  IF depth <= 0 \/ Sparse(lev, d.objs) \/ 0 \in ToSet(SubSeq(d.values, 1, n * n)) THEN lg
        ELSE [lg EXCEPT ![root] = Append(@, m)]

distances_finalize_logical(t, lev, lg, list) ==
    LET One(s, d) == IF get_type_depth(t, lev, d.type) < 0 \/ d.objs = NULL THEN s
                     ELSE add_logical(t, lev, s, d)
    IN  FoldLeft(One, lg, list)

-----------------------------------------------------------------------------
(* Groups.                                                                 *)

(* The first accuracy that gives groups.                                   *)
TryAccuracies(n, M, needcheck) ==
    LET Try(a) == IF needcheck /\ ~check_grouping_matrix(n, M, a)
                  THEN [ids |-> <<>>, nb |-> 0]
                  ELSE find_groups_by_min_distance(n, M, a)
        Better(best, a) == IF best.nb > 0 THEN best ELSE Try(a)
    IN  FoldLeft(Better, [ids |-> <<>>, nb |-> 0], Accuracies)

RECURSIVE SumOf(_)
SumOf(S) == IF S = {} THEN <<0, 1>>
            ELSE LET x == CHOOSE y \in S : TRUE
                     r == SumOf(S \ {x})
                 IN  <<x[3][1] * r[2] + r[1] * x[3][2], x[3][2] * r[2]>>

(* The mean distance between two groups.                                   *)
GroupDistances(n, M, g) ==
    LET Members(i) == {k \in 0..(n - 1) : g.ids[k] = i + 1}
    IN  [p \in (0..(g.nb - 1)) \X (0..(g.nb - 1)) |->
            LET s == SumOf({<<i, j, M[i, j]>> : i \in Members(p[1]), j \in Members(p[2])})
            IN  <<s[1], s[2] * Cardinality(Members(p[1])) * Cardinality(Members(p[2]))>>]

GroupObject(level, objs) ==
    [setup_object("GROUP", -1) EXCEPT
        !.level = level,
        !.cpuset = UNION {o.cpuset : o \in objs},
        !.nodeset = IF \A o \in objs : ~Has(o.nodeset) THEN NULL
                    ELSE UNION {o.nodeset : o \in {p \in objs : Has(p.nodeset)}}]

(* s holds the tree, the next depth of a group and whether a freed group   *)
(* was read; a group that insertion does not keep is freed.                *)
NewGroup(t) == CHOOSE x \in MiscIds : x \notin InTree(t)
InsertGroup(s, level, objs) ==
    LET x == NewGroup(s.tree)
    IN  [id |-> x, tree |-> insert_object_by_cpuset(s.tree, x,
                                GroupObject(level, {s.tree.obj[y] : y \in objs}))]

RECURSIVE groups_by_distances(_, _, _, _)
groups_by_distances(s, objs, M, needcheck) ==
    LET n == Len(objs)
        Members(g, i) == {objs[k] : k \in {j \in DOMAIN objs : g.ids[j - 1] = i}}
        Add(r, new) == [tree |-> new.tree, made |-> Append(r.made, new.id)]
        Made(g) ==
            LET Make(r, i) == Add(r, InsertGroup([tree |-> r.tree], s.depth, Members(g, i)))
            IN  FoldLeft(Make, [tree |-> s.tree, made |-> <<>>], [i \in 1..g.nb |-> i])
        Above(g, r) ==
            groups_by_distances([tree |-> r.tree, depth |-> s.depth + 1, fault |-> s.fault],
                                r.made, GroupDistances(n, M, g), FALSE)
        Grouped(g) == IF g.nb = 0 THEN s ELSE Above(g, Made(g))
    IN  IF n <= 2 THEN s
        ELSE IF \E k \in DOMAIN objs : s.tree.obj[objs[k]] = NULL
        THEN [s EXCEPT !.fault = TRUE]
        ELSE Grouped(TryAccuracies(n, M, needcheck))

(* hwloc_group_by_distances: and one group for all objects of the matrix.  *)
group_by_distances(t, list) ==
    LET All(s, objs) == [s EXCEPT !.tree = InsertGroup(s, s.depth, ToSet(objs)).tree,
                                  !.depth = @ + 1]
        One(s, d) ==
            All(groups_by_distances(s, d.objs, Cells(d.values, Len(d.objs)), TRUE), d.objs)
        s0 == [tree |-> t, depth |-> 0, fault |-> FALSE]
    IN  IF Accuracies = <<>> THEN s0 ELSE FoldLeft(One, s0, list)

-----------------------------------------------------------------------------
(* The calls.                                                              *)

DInit ==
    /\ Init /\ MInit
    /\ logical = [x \in Id |-> <<>>]
    /\ fault = FALSE
    /\ calls = 0

Counted == calls < MaxCalls /\ calls' = calls + 1

(* hwloc_topology_set_distance_matrix.                                     *)
topology_set_distance_matrix(m) ==
    /\ Counted /\ Idle
    /\ set_distance_matrix(m)
    /\ UNCHANGED <<vars, logical, fault>>

(* hwloc_topology_load, as far as distances are concerned: after detection *)
(* the matrices are converted and the groups made, then the stages change  *)
(* the tree, and the matrices are converted again.                         *)
detected(m) ==
    LET Insert1(s, x) == insert_object_by_cpuset(s, x, BackendObject(x))
    IN  FoldLeft(Insert1, alloc_cpusets(setup_defaults, m), Order)
LoadWithDistances(m) ==
    /\ Counted /\ Idle
    /\ \E t \in {detected(m)} : \E found \in {Lookup(t)} :
       \E g \in {group_by_distances(t, detected_matrices(found))} :
        /\ phase' = "loaded"
        /\ tree' = finish(tweak(g.tree, ignored, whole), ignored)
        /\ levels' = connect_levels(tree')
        /\ load_matrices(found, Lookup(tree'))
        /\ logical' = distances_finalize_logical(tree', levels', [x \in Id |-> <<>>], osdist')
        /\ fault' = (g.fault \/ Overflows(tree', levels', osdist'))
        /\ UNCHANGED <<todo, ignored, whole>>

(* hwloc_topology_restrict: the objects it visits lose their matrices.     *)
RestrictWithDistances(cpuset, flags) ==
    LET dropped == AllCpus \ cpuset
        Modified(y) == tree.obj[y].complete_cpuset \cap dropped # {}
        Visited(x) == \A y \in Ancestors(tree, x) : Modified(y)
        left == [x \in Id |-> IF x \in InTree(tree') /\ ~Visited(x) THEN logical[x]
                              ELSE <<>>]
    IN  /\ Counted /\ TopologyRestrict(cpuset, flags)
        /\ restrict_matrices(Lookup(tree'), flags)
        /\ logical' = distances_finalize_logical(tree', levels', left, osdist')
        /\ fault' = \/ fault \/ Overflows(tree', levels', osdist')
                    \/ \E i \in DOMAIN osdist : osdist[i].objs = NULL

DNext ==
    \/ \E m \in UserMatrices : topology_set_distance_matrix(m)
    \/ \E m \in Machines : LoadWithDistances(m)
    \/ \E cpuset \in CpuArgs, flags \in RestrictArgs : RestrictWithDistances(cpuset, flags)

DSpec == DInit /\ [][DNext]_dvars

-----------------------------------------------------------------------------
(* Asking for a distance (helper.h).                                       *)

(* hwloc_get_distance_matrix_covering_obj_by_depth, from object x upwards. *)
distance_matrix_covering(x, depth) ==
    LET Right(y) == {i \in DOMAIN logical[y] :
                        logical[y][i].relative_depth = depth - DepthOf(levels, y)}
        up[y \in Id] ==
            IF Right(y) # {} THEN [at |-> y, m |-> logical[y][Min(Right(y))]]
            ELSE IF y = tree.root THEN NULL ELSE up[Parent(tree, y)]
    IN  up[x]

(* NULL is no matrix, or a value read from behind the matrix.             *)
get_latency(x, y) ==
    LET depth == DepthOf(levels, x)
        c     == distance_matrix_covering(get_common_ancestor_obj(x, y), depth)
        first == LogicalIndex(levels, objs_inside_cpuset(Cpus(c.at), depth)[1])
        l1    == LogicalIndex(levels, x) - first
        l2    == LogicalIndex(levels, y) - first
    IN  IF c = NULL \/ l1 * c.m.nbobjs + l2 >= Len(c.m.latency) THEN NULL
        ELSE At(c.m.latency, c.m.nbobjs, l1, l2)

-----------------------------------------------------------------------------
(* Properties.                                                             *)

Wanted(type) == IF asked[type] # NULL THEN asked[type]
                ELSE IF type = "NODE" THEN OSMatrix ELSE NULL

Listed(d) == {d.objs[i] : i \in DOMAIN d.objs}
(* A matrix names all the objects of its type below what covers them.      *)
Complete(d) ==
    LET cover == get_obj_covering_cpuset_nodeset(tree, Union(tree, d.objs, "cpuset"),
                                                 Union(tree, d.objs, "nodeset"))
    IN  \A x \in Below(tree, cover) : Obj(x).type = d.type => x \in Listed(d)

(* What hwloc_get_latency says of two objects is what was given for their  *)
(* OS indexes.                                                             *)
Served(x, y) ==
    LET latency == get_latency(x, y)
    IN  /\ latency # NULL
        /\ latency[1] = ValueFor(Wanted(Obj(x).type), Obj(x).os_index, Obj(y).os_index)
Converted(d) ==
    /\ d.objs # NULL /\ Len(d.objs) > 1
    /\ TypeDepth(d.type) >= 0

(* hwloc_get_latency finds a value for every two objects that a matrix of  *)
(* the topology names, and it is the value that was given for them by OS   *)
(* index: whatever indexes had no object, whatever was restricted, and     *)
(* though logical indexes come in another order.  The matrix names all the *)
(* objects of the type below the object that it is attached to.            *)
LatencyAsGiven ==
    Loaded /\ ~fault =>
        \A i \in DOMAIN osdist : Converted(osdist[i]) /\ Complete(osdist[i]) =>
            \A x, y \in Listed(osdist[i]) : x # y => Served(x, y)
=============================================================================
