------------------------------ MODULE Detection ------------------------------
(***************************************************************************)
(* The detection of a load (hwloc_discover, src/topology.c): a backend     *)
(* inserts what it finds on the machine into a new tree.  Each insertion   *)
(* is a step, because what a backend finds, and in which order, is up to   *)
(* the machine.  The steps are those of Topology, which adds what the rest *)
(* of the load and the other calls do with the tree; here detection is     *)
(* taken by itself, again and again.                                       *)
(***************************************************************************)
EXTENDS ObjTree

CONSTANTS
    Root,         \* the object hwloc_topology_setup_defaults creates
    Input,        \* the objects a backend may insert: see InputAssumption
    Machines      \* what it may say of the whole machine

Cpusets  == SUBSET AllCpus
Nodesets == SUBSET AllNodes

(* A backend creates an object with a type, the depth attribute, an index, *)
(* a cpuset and, for a NUMA node or a group of them, a nodeset.  I/O and   *)
(* Misc objects are not inserted by cpuset.  A group of nodes has all the  *)
(* processors of its nodes.                                                *)
ASSUME InputAssumption ==
    /\ Root \in Id /\ DOMAIN Input \subseteq Id \ {Root}
    /\ \A x \in DOMAIN Input :
        /\ Input[x].type \in Types \ {"MACHINE", "MISC"} /\ ~type_is_io(Input[x].type)
        /\ Input[x].level \in Nat /\ Input[x].os_index \in Nat \cup {-1}
        /\ Input[x].cpuset \in SUBSET (0..(NbCpus - 1))
        /\ Input[x].nodeset \in (SUBSET (0..(NbNodes - 1))) \cup {NULL}
    /\ \A x, y \in DOMAIN Input :
        NotEmpty(Input[x].nodeset) /\ Has(Input[y].nodeset)
            /\ Input[x].nodeset \subseteq Input[y].nodeset
        => Input[x].cpuset \subseteq Input[y].cpuset
    /\ \A m \in Machines :
        /\ m.known \in SUBSET (0..(NbCpus - 1))
        /\ {m.online, m.allowed} \subseteq Cpusets
        /\ m.allowed_nodeset \in Nodesets

Object ==
    [type : Types, level : Nat, os_index : Nat \cup {-1}, name : Nat,
     cpuset : Cpusets \cup {NULL}, complete_cpuset : Cpusets \cup {NULL},
     online_cpuset : Cpusets \cup {NULL}, allowed_cpuset : Cpusets \cup {NULL},
     nodeset : Nodesets \cup {NULL}, complete_nodeset : Nodesets \cup {NULL},
     allowed_nodeset : Nodesets \cup {NULL}]

ASSUME NullAssumption ==
    /\ NULL \notin Id /\ NULL \notin Object
    /\ \A set \in Cpusets \cup Nodesets : set # NULL

VARIABLES
    phase,    \* "init", "detect" within hwloc_discover, "loaded" or "aborted"
    tree,     \* the objects, see ObjTree
    todo      \* the objects the backend has not inserted yet

detection == <<phase, tree, todo>>

-----------------------------------------------------------------------------
(* Objects as they are created.                                            *)

setup_object(type, os_index) ==
    [type |-> type, level |-> 0, os_index |-> os_index, name |-> 0,
     cpuset |-> NULL, complete_cpuset |-> NULL, online_cpuset |-> NULL,
     allowed_cpuset |-> NULL, nodeset |-> NULL, complete_nodeset |-> NULL,
     allowed_nodeset |-> NULL]

setup_defaults ==
    [root |-> Root,
     obj  |-> [x \in Id |-> IF x = Root THEN setup_object("MACHINE", 0) ELSE NULL],
     kids |-> [x \in Id |-> <<>>]]

(* alloc_cpusets, and what the backend says of the whole machine.          *)
alloc_cpusets(t, m) ==
    [t EXCEPT !.obj[t.root] =
        [@ EXCEPT !.cpuset = AllCpus, !.complete_cpuset = m.known,
                  !.online_cpuset = m.online, !.allowed_cpuset = m.allowed,
                  !.nodeset = {}, !.complete_nodeset = {},
                  !.allowed_nodeset = m.allowed_nodeset]]

BackendObject(x) ==
    [setup_object(Input[x].type, Input[x].os_index) EXCEPT
        !.level = Input[x].level, !.cpuset = Input[x].cpuset,
        !.nodeset = Input[x].nodeset]

-----------------------------------------------------------------------------
(* The steps of a detection.                                               *)

DetectInit ==
    /\ phase = "init"
    /\ tree = setup_defaults
    /\ todo = {}

(* No call is running: the application may make one.                       *)
Idle == phase \in {"init", "loaded"}

(* A topology that is loaded already is cleared first.                     *)
BeginDetection(m) ==
    /\ Idle
    /\ phase' = "detect"
    /\ tree' = alloc_cpusets(setup_defaults, m)
    /\ todo' = DOMAIN Input

(* A backend has a PU for each processor it knows; it may not know of the  *)
(* other objects.                                                          *)
BackendDone == \A x \in todo : Input[x].type # "PU"

(* Groups of NUMA nodes are those of hwloc_group_by_distances, which makes *)
(* them of nodes of the tree when the backend is done.                     *)
GroupOfNodes(x) == Input[x].type = "GROUP" /\ Has(Input[x].nodeset)
MayCome(x) ==
    IF GroupOfNodes(x)
    THEN LET nodes == {y \in InTree(tree) : tree.obj[y].type = "NODE"}
         IN  /\ BackendDone
             /\ Input[x].nodeset \subseteq {tree.obj[y].os_index : y \in nodes}
    ELSE \A y \in DOMAIN Input : GroupOfNodes(y) => y \in todo

InsertDetected(x) ==
    /\ phase = "detect" /\ x \in todo /\ MayCome(x)
    /\ tree' = insert_object_by_cpuset(tree, x, BackendObject(x))
    /\ todo' = todo \ {x}
    /\ UNCHANGED phase

(* The rest of hwloc_discover works on this tree, see Discover in Topology.*)
EndDetection ==
    /\ phase = "detect" /\ BackendDone
    /\ phase' = "loaded"
    /\ todo' = {}
    /\ UNCHANGED tree

DetectNext ==
    \/ \E m \in Machines : BeginDetection(m)
    \/ \E x \in DOMAIN Input : InsertDetected(x)
    \/ EndDetection

DetectSpec == DetectInit /\ [][DetectNext]_detection

(* The same within a program: what the rest of a load and the calls of the *)
(* application do to the tree that a detection leaves is not said.         *)
OpenDetectSpec == DetectInit /\ [][DetectNext \/ phase' # "detect"]_detection

-----------------------------------------------------------------------------
(* Properties.                                                             *)

Obj(x) == tree.obj[x]

(* Whatever the order of the insertions (hwloc___insert_object_by_cpuset), *)
(* a child is contained in its parent, children of one object have nothing *)
(* in common, and among the objects with processors what is above an       *)
(* object in the tree is exactly what contains it: objects that no path    *)
(* relates share no processor.  (Memory without processors compares by     *)
(* nodesets, which most objects do not have yet: a group may be put below  *)
(* an object that its memory is not below of.)                             *)
Nested ==
    phase = "detect" =>
        LET under == Below(tree, tree.root)
            above == {x \in under : NotEmpty(Obj(x).cpuset)}
        IN  /\ \A x \in under : \A y \in Kids(tree, x) : obj_cmp(Obj(y), Obj(x)) = "INCLUDED"
            /\ \A x \in InTree(tree) : \A y, z \in Kids(tree, x) :
                  y # z => obj_cmp(Obj(y), Obj(z)) = "DIFFERENT"
            /\ \A x, y \in above : x # y =>
                  obj_cmp(Obj(x), Obj(y)) =
                      IF x \in Below(tree, y) THEN "INCLUDED"
                      ELSE IF y \in Below(tree, x) THEN "CONTAINS" ELSE "DIFFERENT"

(* The children of an object are in the order of their first processor,    *)
(* those without processor last, whatever the insertion order.             *)
ChildrenInOrder ==
    phase = "detect" =>
        \A x \in InTree(tree) : \A i, j \in DOMAIN tree.kids[x] :
            i < j => ~FirstBefore(Obj(tree.kids[x][j]).cpuset, Obj(tree.kids[x][i]).cpuset)

(* An object the backend gave that is not in the tree crosses an object    *)
(* that is there, or is a second description of one, or is memory without  *)
(* processors within two objects that have nothing in common: insertion    *)
(* refuses nothing else, and the reason remains.                           *)
RefusedForCause ==
    phase = "detect" =>
        \A x \in DOMAIN Input \ (todo \cup InTree(tree)) :
            LET cmp(y) == obj_cmp(BackendObject(x), Obj(y))
                under  == Below(tree, tree.root)
            IN  \/ \E y \in under : cmp(y) \in {"EQUAL", "INTERSECTS"}
                \/ /\ Input[x].cpuset = {}
                   /\ \E y, z \in under : /\ cmp(y) = "INCLUDED" /\ cmp(z) = "INCLUDED"
                                          /\ obj_cmp(Obj(y), Obj(z)) = "DIFFERENT"
=============================================================================
