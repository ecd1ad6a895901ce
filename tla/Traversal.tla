----------------------------- MODULE Traversal -----------------------------
(***************************************************************************)
(* What programs ask of a loaded topology: objects by depth, type, cpuset   *)
(* and kinship, conversions between cpusets and nodesets, and the cpusets   *)
(* that n threads should be bound to (src/traversal.c, hwloc/helper.h).     *)
(* Questions change nothing, so they are operators over the tree and the    *)
(* levels that the calls of Topology leave behind, and what they answer is  *)
(* stated as invariants.  A chain of next_cousin pointers is a level, one   *)
(* of next_sibling pointers is the children of an object.                   *)
(***************************************************************************)
EXTENDS Topology

CONSTANT
    MaxItems  \* bound of the number of items that are distributed

Cpus(x) == tree.obj[x].cpuset

-----------------------------------------------------------------------------
(* Depths.  Misc objects are in no level: their depth remains the unsigned *)
(* HWLOC_TYPE_DEPTH_UNKNOWN, which is more than any other.                 *)

UNKNOWN  == -1
MULTIPLE == -2
UINT_MAX == Cardinality(Id) + 1
INT_MAX  == Cardinality(Id)

DepthOf(lev, x) ==
    IF \E d \in DOMAIN lev : x \in ToSet(lev[d])
    THEN (CHOOSE d \in DOMAIN lev : x \in ToSet(lev[d])) - 1 ELSE UINT_MAX
LogicalIndex(lev, x) ==
    LET level == lev[DepthOf(lev, x) + 1] IN (CHOOSE i \in DOMAIN level : level[i] = x) - 1

get_type_depth(t, lev, type) ==
    LET ds == {d \in DOMAIN lev : t.obj[lev[d][1]].type = type}
    IN  CASE Cardinality(ds) = 0 -> UNKNOWN
          [] Cardinality(ds) = 1 -> (CHOOSE d \in ds : TRUE) - 1
          [] OTHER -> MULTIPLE
TypeDepth(type) == get_type_depth(tree, levels, type)

get_depth_type(depth) == tree.obj[levels[depth + 1][1]].type

(* The loops run off the levels if the type is above, or below, all others.*)
get_type_or_below_depth(type) ==
    IF TypeDepth(type) # UNKNOWN THEN TypeDepth(type)
    ELSE 1 + Max({d \in 0..TypeDepth("PU") : compare_types(get_depth_type(d), type) < 0})
get_type_or_above_depth(type) ==
    IF TypeDepth(type) # UNKNOWN THEN TypeDepth(type)
    ELSE Min({d \in 0..(Len(levels) - 1) : compare_types(get_depth_type(d), type) > 0}) - 1

-----------------------------------------------------------------------------
(* Kinship.                                                                *)

get_ancestor_obj_by_type(type, x) ==
    LET up[y \in Id] == IF y = tree.root THEN NULL
                        ELSE IF tree.obj[Parent(tree, y)].type = type THEN Parent(tree, y)
                        ELSE up[Parent(tree, y)]
    IN  up[x]

(* The deeper of the two objects goes up, or both when they are as deep.   *)
get_common_ancestor_obj(x, y) ==
    LET meet[p \in Id \X Id] ==
            LET d1 == DepthOf(levels, p[1])
                d2 == DepthOf(levels, p[2])
            IN  IF p[1] = p[2] THEN p[1]
                ELSE meet[<<IF d1 >= d2 THEN Parent(tree, p[1]) ELSE p[1],
                            IF d2 >= d1 THEN Parent(tree, p[2]) ELSE p[2]>>]
    IN  meet[<<x, y>>]

(* Mutant: the objects of the inner ancestor are reported again.           *)
Ring_Again(level, inner, outer) ==
    LET Near(y) == Cpus(y) \subseteq Cpus(outer)
    IN  SelectSeq(level, Near)

(* The objects of a level that are within outer and not within inner.      *)
Ring(level, inner, outer) ==
    LET Near(y) == Cpus(y) \subseteq Cpus(outer) /\ ~(Cpus(y) \subseteq Cpus(inner))
    IN  SelectSeq(level, Near)

(* hwloc_get_closest_objs: those of the level of x, ring after ring around *)
(* it; max only cuts the answer.                                           *)
get_closest_objs(x) ==
    LET level == levels[DepthOf(levels, x) + 1]
        out[y \in Id] ==
            IF y = tree.root \/ ~Has(Cpus(Parent(tree, y))) THEN <<>>
            ELSE LET p == Parent(tree, y)
                 IN  (IF Cpus(p) = Cpus(y) THEN <<>> ELSE Ring(level, y, p)) \o out[p]
    IN  out[x]

-----------------------------------------------------------------------------
(* Objects inside a cpuset.                                                *)

(* Mutant: a child is given the whole set.                                 *)
RECURSIVE get_largest_objs_Whole(_, _)
get_largest_objs_Whole(x, set) ==
    IF Cpus(x) = set THEN <<x>>
    ELSE LET Meets(c) == Cpus(c) \cap set # {}
             in == SelectSeq(tree.kids[x], Meets)
         IN  FlattenSeq([i \in DOMAIN in |-> get_largest_objs_Whole(in[i], set)])

(* hwloc_get_largest_objs_inside_cpuset, without max: each child gets its  *)
(* part of the set.  A child without cpuset is entered with the whole set, *)
(* and its cpuset read: NULL in the answer is that crash.                  *)
RECURSIVE get_largest_objs(_, _)
get_largest_objs(x, set) ==
    IF ~Has(Cpus(x)) THEN <<NULL>>
    ELSE IF Cpus(x) = set THEN <<x>>
    ELSE LET Enters(c) == Has(Cpus(c)) => Cpus(c) \cap set # {}
             Part(c)   == IF Has(Cpus(c)) THEN Cpus(c) \cap set ELSE set
             in        == SelectSeq(tree.kids[x], Enters)
         IN  FlattenSeq([i \in DOMAIN in |-> get_largest_objs(in[i], Part(in[i]))])

get_first_largest_obj_inside_cpuset(set) ==
    LET Meets(c) == Has(Cpus(c)) /\ Cpus(c) \cap set # {}
        down[x \in Id] ==
            LET in == SelectSeq(tree.kids[x], Meets)
            IN  IF Cpus(x) \subseteq set \/ in = <<>> THEN x ELSE down[in[1]]
    IN  IF Meets(tree.root) THEN down[tree.root] ELSE NULL

objs_inside_cpuset(set, depth) ==
    LET Inside(x) == Cpus(x) \subseteq set IN SelectSeq(levels[depth + 1], Inside)
get_obj_inside_cpuset_by_type(set, type, idx) ==
    LET objs == objs_inside_cpuset(set, TypeDepth(type))
    IN  IF TypeDepth(type) < 0 \/ idx >= Len(objs) THEN NULL ELSE objs[idx + 1]
get_obj_index_inside_cpuset(set, x) ==
    LET objs == objs_inside_cpuset(set, DepthOf(levels, x))
    IN  IF Cpus(x) \subseteq set THEN (CHOOSE i \in DOMAIN objs : objs[i] = x) - 1 ELSE -1

(* hwloc_get_obj_below_array_by_type: steps are pairs <<type, index>>.     *)
get_obj_below_array_by_type(steps) ==
    LET Step(x, s) == IF x = NULL THEN NULL
                      ELSE get_obj_inside_cpuset_by_type(Cpus(x), s[1], s[2])
    IN  FoldLeft(Step, tree.root, steps)

-----------------------------------------------------------------------------
(* Objects that cover a cpuset.                                            *)

get_child_covering_cpuset(set, x) ==
    LET Covers(c) == Has(Cpus(c)) /\ set \subseteq Cpus(c)
        kids      == SelectSeq(tree.kids[x], Covers)
    IN  IF ~Has(Cpus(x)) \/ set = {} \/ kids = <<>> THEN NULL ELSE kids[1]

get_obj_covering_cpuset(set) ==
    LET down[x \in Id] == LET c == get_child_covering_cpuset(set, x)
                          IN  IF c = NULL THEN x ELSE down[c]
    IN  IF set = {} \/ ~Has(Cpus(tree.root)) \/ ~(set \subseteq Cpus(tree.root)) THEN NULL
        ELSE down[tree.root]

get_cache_covering_cpuset(set) ==
    LET x == get_obj_covering_cpuset(set)
    IN  IF x = NULL THEN NULL
        ELSE IF tree.obj[x].type = "CACHE" THEN x ELSE get_ancestor_obj_by_type("CACHE", x)

get_shared_cache_covering_obj(x) ==
    LET up[y \in Id] ==
            IF y = tree.root THEN NULL
            ELSE LET p == Parent(tree, y)
                 IN  IF ~Has(Cpus(p)) THEN NULL
                     ELSE IF tree.obj[p].type = "CACHE" /\ Cpus(p) # Cpus(x) THEN p ELSE up[p]
    IN  IF Has(Cpus(x)) THEN up[x] ELSE NULL

objs_covering_cpuset(set, depth) ==
    LET Meets(x) == Cpus(x) \cap set # {} IN SelectSeq(levels[depth + 1], Meets)

-----------------------------------------------------------------------------
(* Cpusets and nodesets.                                                   *)

cpuset_to_nodeset(set) ==
    LET depth == TypeDepth("NODE")
    IN  IF depth = UNKNOWN THEN IF set = {} THEN {} ELSE AllNodes
        ELSE {tree.obj[x].os_index : x \in ToSet(objs_covering_cpuset(set, depth))}

cpuset_from_nodeset(nodes) ==
    LET depth == TypeDepth("NODE")
    IN  IF depth = UNKNOWN THEN IF nodes = {} THEN {} ELSE AllCpus
        ELSE UNION {Cpus(x) : x \in {y \in ToSet(levels[depth + 1]) :
                                         tree.obj[y].os_index \in nodes}}

-----------------------------------------------------------------------------
(* hwloc_distribute and hwloc_distributev: the cpusets of n items, the last *)
(* depth that is split being until - 1.                                     *)

(* Mutant: a part that needs no rounding is rounded up too.                *)
Chunk_OneMore(n, weight, total) == (n * weight + total) \div total

(* The part of n items that goes to an object, rounded up.                 *)
Chunk(n, weight, total) == (n * weight + total - 1) \div total

Weight(x) == IF Has(Cpus(x)) THEN Cardinality(Cpus(x)) ELSE 0
TotalWeight(xs) == FoldLeft(LAMBDA s, x : s + Weight(x), 0, xs)

RECURSIVE distribute(_, _, _)
distribute(x, n, until) ==
    LET Give(s, c) ==
            LET chunk == Chunk(s.n, Weight(c), s.total)
            IN  IF s.total = 0 THEN s
                ELSE [n |-> s.n - chunk, total |-> s.total - Weight(c),
                      sets |-> s.sets \o distribute(c, chunk, until)]
    IN  IF tree.kids[x] = <<>> \/ n = 1 \/ DepthOf(levels, x) >= until
        THEN [i \in 1..n |-> Cpus(x)]
        ELSE FoldLeft(Give, [n |-> n, total |-> TotalWeight(tree.kids[x]), sets |-> <<>>],
                      tree.kids[x]).sets

-----------------------------------------------------------------------------
(* Properties.                                                             *)

Lowest(x, S) ==
    IF S = {} THEN x = NULL ELSE x \in S /\ \A y \in S : y = x \/ y \in Ancestors(tree, x)
WithCpus == {x \in InTree(tree) : NotEmpty(Cpus(x))}
InLevels == {x \in InTree(tree) : Obj(x).type # "MISC"}
(* A Misc object that was inserted by its parent has no cpuset.            *)
AllHaveCpuset == \A x \in InTree(tree) : Has(Cpus(x))

(* The loop that helper.h recommends: take the first largest object, clear *)
(* its cpuset from the set.                                                *)
FirstLargestLoop(set) ==
    LET Next1(s, i) ==
            LET x == get_first_largest_obj_inside_cpuset(s.left)
            IN  IF x = NULL THEN s
                ELSE [left |-> s.left \ Cpus(x), found |-> Append(s.found, x)]
    IN  FoldLeft(Next1, [left |-> set, found |-> <<>>], [i \in 1..NbCpus |-> i]).found

(* The largest objects inside a set of the topology's processors share the *)
(* set out and none of them could be larger, and the loop over the first   *)
(* largest object finds the same; a covering object is the lowest one; the *)
(* object below a chain of types and indexes is below it in the tree, and  *)
(* has the index that is asked back.                                       *)
SetLookups(set) ==
    LET objs  == get_largest_objs(tree.root, set)
        cover == get_obj_covering_cpuset(set)
        cache == get_cache_covering_cpuset(set)
    IN  /\ AllHaveCpuset =>
            /\ UNION {Cpus(x) : x \in ToSet(objs)} = set
            /\ \A i, j \in DOMAIN objs : i # j => Cpus(objs[i]) \cap Cpus(objs[j]) = {}
            /\ \A x \in ToSet(objs) : \A y \in Ancestors(tree, x) : ~(Cpus(y) \subseteq set)
            /\ ToSet(FirstLargestLoop(set)) = ToSet(objs)
        /\ Lowest(cover, {y \in WithCpus : set \subseteq Cpus(y)})
        /\ LET caches == {y \in WithCpus : Obj(y).type = "CACHE" /\ set \subseteq Cpus(y)}
           IN  Lowest(cache, caches)
        /\ \A type \in {"NODE", "CACHE"}, i \in 0..1, j \in 0..1 :
            LET a == get_obj_below_array_by_type(<<<<type, i>>>>)
                b == get_obj_below_array_by_type(<<<<type, i>>, <<"PU", j>>>>)
            IN  b # NULL => /\ b \in Below(tree, a)
                            /\ get_obj_index_inside_cpuset(Cpus(a), b) = j
LookupsExact ==
    Loaded => \A set \in SUBSET Cpus(tree.root) \ {{}} : SetLookups(set)

LevelsByType ==
    \A d, e \in DOMAIN levels :
        d < e => compare_types(get_depth_type(d - 1), get_depth_type(e - 1)) <= 0

(* Kinship and depth agree with the tree: the common ancestor of objects   *)
(* is one that no other is below, Misc objects apart, the shared cache is  *)
(* the lowest one above it with more processors, the nodes that touch the  *)
(* processors of an object are those of its nodeset that have processors,  *)
(* and back, and a type without level is between the levels around it      *)
(* where these are in the order of types.                                  *)
KinshipExact ==
    Loaded =>
        /\ \A x, y \in InTree(tree) : x # y =>
            LET common == {z \in InTree(tree) : {x, y} \subseteq {z} \cup Below(tree, z)}
                met    == get_common_ancestor_obj(x, y)
            IN  met \in common /\ Lowest(met, (common \cap InLevels) \cup {met})
        /\ \A x \in WithCpus :
            Lowest(get_shared_cache_covering_obj(x),
                   {z \in Ancestors(tree, x) : Obj(z).type = "CACHE" /\ Cpus(z) # Cpus(x)})
        /\ \A x \in WithCpus :
            LET nodes == {y \in WithCpus : Obj(y).type = "NODE"}
                near  == {Obj(y).os_index : y \in nodes} \cap Obj(x).nodeset
            IN  nodes # {} => /\ cpuset_to_nodeset(Cpus(x)) = near
                              /\ cpuset_from_nodeset(near) =
                                    UNION {Cpus(y) : y \in {z \in nodes : Obj(z).os_index \in near}}
        /\ \A type \in {"NODE", "SOCKET", "CACHE", "CORE"} :
            TypeDepth(type) = UNKNOWN /\ LevelsByType =>
                get_type_or_below_depth(type) = get_type_or_above_depth(type) + 1

(* hwloc_get_closest_objs reports every other object of the level that has *)
(* processors, each once, those that share the lowest ancestors first.     *)
ClosestNearest ==
    Loaded =>
        \A x \in InLevels \cap WithCpus :
            LET objs  == get_closest_objs(x)
                level == ToSet(levels[DepthOf(levels, x) + 1])
                Shared(y) == {Cpus(z) : z \in {z \in WithCpus : {x, y} \subseteq Below(tree, z)}}
            IN  /\ ToSet(objs) = (level \cap WithCpus) \ {x}
                /\ Cardinality(ToSet(objs)) = Len(objs)
                /\ \A i, j \in DOMAIN objs : i < j => Shared(objs[j]) \subseteq Shared(objs[i])

(* The relatives that helper.h and traversal.c find for an object are those *)
(* of the tree, whatever restrictions and Misc objects changed it before:   *)
(* the common ancestors, shared caches and nodes of KinshipExact, and the   *)
(* nearest objects of its level of ClosestNearest.                          *)
RelativesExact == KinshipExact /\ ClosestNearest

(* hwloc_distribute fills the array with n cpusets of the object, which do *)
(* not overlap as long as there are processors enough, and otherwise give  *)
(* every processor its turn, no two of them differing by more than one.    *)
Even(x, n) ==
    LET sets == distribute(x, n, INT_MAX)
        Load1(c) == Cardinality({i \in DOMAIN sets : c \in sets[i]})
    IN  /\ Len(sets) = n
        /\ \A i \in DOMAIN sets : NotEmpty(sets[i]) /\ sets[i] \subseteq Cpus(x)
        /\ \A c \in Cpus(x) : IF n <= Weight(x) THEN Load1(c) <= 1
                              ELSE Load1(c) \in {n \div Weight(x), n \div Weight(x) + 1}
DistributeEven ==
    Loaded /\ (\A x \in InTree(tree) : Obj(x).type # "MISC") =>
        \A x \in WithCpus, n \in 1..MaxItems : Even(x, n)
=============================================================================
