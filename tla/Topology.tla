------------------------------ MODULE Topology ------------------------------
(***************************************************************************)
(* A topology and the calls that change its tree (src/topology.c): the     *)
(* configuration calls, hwloc_topology_load with the objects a backend of  *)
(* this machine inserts, hwloc_topology_restrict and the insertion of Misc *)
(* objects.  The library is sequential, so a call is one step; only the    *)
(* load is several, one for each object the backend inserts, because what  *)
(* it finds and in which order is up to the machine.                       *)
(***************************************************************************)
EXTENDS Discovery, Detection

CONSTANTS
    MiscIds,      \* objects the Misc insertions may create
    Ignorable,    \* the types the application may ignore
    FlagArgs,     \* what it may set the WHOLE_SYSTEM flag to
    CpuArgs,      \* the cpusets it may pass to restrict and Misc insertion
    MiscNames,    \* the names it may give to Misc objects
    RestrictArgs  \* the sets of flags it may pass to restrict

ASSUME CallsAssumption ==
    /\ Id = {Root} \cup MiscIds \cup DOMAIN Input
    /\ FlagArgs \subseteq BOOLEAN
    /\ CpuArgs \subseteq Cpusets
    /\ MiscNames \subseteq Nat \ {0}
    /\ RestrictArgs \subseteq SUBSET {"ADAPT_DISTANCES", "ADAPT_MISC", "ADAPT_IO"}

VARIABLES
    levels,   \* levels[d + 1] is the array of the objects at depth d
    ignored,  \* ignored_types
    whole     \* HWLOC_TOPOLOGY_FLAG_WHOLE_SYSTEM is set

vars == <<phase, tree, todo, levels, ignored, whole>>

-----------------------------------------------------------------------------
(* hwloc_topology_init and the configuration.  The types in ignored are    *)
(* kept by every load that follows.                                        *)

Init ==
    /\ DetectInit
    /\ levels = <<<<Root>>>>
    /\ ignored = [type \in Types |-> IF type = "GROUP" THEN "KEEP_STRUCTURE" ELSE "NEVER"]
    /\ whole = FALSE

MayIgnore(type) == type # "PU" /\ ~type_is_io(type)

IgnoreType(type) ==
    /\ Idle /\ MayIgnore(type)
    /\ ignored' = [ignored EXCEPT ![type] = "ALWAYS"]
    /\ UNCHANGED <<phase, tree, todo, levels, whole>>

IgnoreTypeKeepStructure(type) ==
    /\ Idle /\ MayIgnore(type)
    /\ ignored' = [ignored EXCEPT ![type] = "KEEP_STRUCTURE"]
    /\ UNCHANGED <<phase, tree, todo, levels, whole>>

IgnoreAllKeepStructure ==
    /\ Idle
    /\ ignored' = [type \in Types |->
                      IF MayIgnore(type) THEN "KEEP_STRUCTURE" ELSE ignored[type]]
    /\ UNCHANGED <<phase, tree, todo, levels, whole>>

SetFlags(flag) ==
    /\ Idle
    /\ whole' = flag
    /\ UNCHANGED <<phase, tree, todo, levels, ignored>>

-----------------------------------------------------------------------------
(* hwloc_topology_load.                                                    *)

Load(m) ==
    /\ BeginDetection(m)
    /\ levels' = <<<<Root>>>>
    /\ UNCHANGED <<ignored, whole>>

Insert(x) ==
    /\ InsertDetected(x)
    /\ UNCHANGED <<levels, ignored, whole>>

(* The rest of hwloc_discover.                                             *)
Discover ==
    /\ phase = "detect" /\ BackendDone
    /\ LET t1 == tweak(tree, ignored, whole)
           t2 == finish(t1, ignored)
       IN  IF t1.root = NULL
           THEN phase' = "aborted" /\ tree' = t1 /\ UNCHANGED levels
           ELSE phase' = "loaded" /\ tree' = t2 /\ levels' = connect_levels(t2)
    /\ todo' = {}
    /\ UNCHANGED <<ignored, whole>>

-----------------------------------------------------------------------------
(* hwloc_topology_restrict.                                                *)

Minus(set, dropped) == IF Has(set) THEN set \ dropped ELSE NULL

(* Mutant: an object whose cpuset becomes empty stays.                     *)
dropping_ParentOnly(o, flags, droppingparent) == droppingparent

(* Whether an object goes, once its cpuset is restricted.                  *)
dropping(o, flags, droppingparent) ==
    CASE o.type = "MISC"    -> droppingparent /\ "ADAPT_MISC" \notin flags
      [] type_is_io(o.type) -> droppingparent /\ "ADAPT_IO" \notin flags
      [] OTHER -> droppingparent \/ (Has(o.cpuset) /\ o.cpuset = {})

(* Mutant: the children that take the place of an object are not visited.  *)
RECURSIVE restrict_object_NoRevisit(_, _, _, _, _)
restrict_object_NoRevisit(t, x, dropped, flags, droppingparent) ==
    LET complete == t.obj[x].complete_cpuset
        o == [t.obj[x] EXCEPT !.cpuset = Minus(@, dropped),
                              !.complete_cpuset = Minus(@, dropped),
                              !.online_cpuset = Minus(@, dropped),
                              !.allowed_cpuset = Minus(@, dropped)]
        drop == dropping(o, flags, droppingparent)
        Below1(s, c) == restrict_object_NoRevisit(s, c, dropped, flags, drop)
        t1 == [t EXCEPT !.obj[x] = o]
        t2 == IF Has(complete) /\ complete \cap dropped # {}
              THEN FoldLeft(Below1, t1, t1.kids[x]) ELSE t1
    IN  IF drop THEN unlink_single_object(t2, x) ELSE t2

(* The children of an object that was not modified are not visited; those  *)
(* that take the place of an object are visited as children of its parent. *)
RECURSIVE restrict_object(_, _, _, _, _)
restrict_object(t, x, dropped, flags, droppingparent) ==
    LET complete == t.obj[x].complete_cpuset
        modified == Has(complete) /\ complete \cap dropped # {}
        o == [t.obj[x] EXCEPT !.cpuset = Minus(@, dropped),
                              !.complete_cpuset = Minus(@, dropped),
                              !.online_cpuset = Minus(@, dropped),
                              !.allowed_cpuset = Minus(@, dropped)]
        drop == dropping(o, flags, droppingparent)
        Below1(s, c) == restrict_object(s, c, dropped, flags, drop)
        Again(s, c)  == restrict_object(s, c, dropped, flags, droppingparent)
        t1 == [t EXCEPT !.obj[x] = o]
        t2 == IF modified THEN FoldLeft(Below1, t1, t1.kids[x]) ELSE t1
    IN  IF drop THEN FoldLeft(Again, unlink_single_object(t2, x), t2.kids[x]) ELSE t2

(* It does not go below an object without any of the dropped nodes.        *)
restrict_object_nodeset(t, dropped) ==
    LET Modified(y) == LET complete == t.obj[y].complete_nodeset
                       IN  Has(complete) => complete \cap dropped # {}
        Visited(x)  == \A y \in {x} \cup Ancestors(t, x) : Modified(y)
    IN  [t EXCEPT !.obj = [x \in Id |->
            IF x \in InTree(t) /\ Visited(x)
            THEN [t.obj[x] EXCEPT !.nodeset = Minus(@, dropped),
                                  !.complete_nodeset = Minus(@, dropped),
                                  !.allowed_nodeset = Minus(@, dropped)]
            ELSE t.obj[x]]]

(* Mutant: the nodes that went stay in the nodesets of the others.         *)
restrict_NodesStay(t, cpuset, flags) ==
    restrict_object(t, t.root, AllCpus \ cpuset, flags, FALSE)

restrict(t, cpuset, flags) ==
    LET t1    == restrict_object(t, t.root, AllCpus \ cpuset, flags, FALSE)
        nodes == {x \in InTree(t) \ InTree(t1) : t.obj[x].type = "NODE"}
    IN  restrict_object_nodeset(t1, {t.obj[x].os_index : x \in nodes})

(* Mutant: the levels are not connected again.                             *)
TopologyRestrict_StaleLevels(cpuset, flags) ==
    /\ phase = "loaded"
    /\ cpuset \cap tree.obj[tree.root].cpuset # {}
    /\ tree' = restrict(tree, cpuset, flags)
    /\ UNCHANGED <<phase, todo, levels, ignored, whole>>

TopologyRestrict(cpuset, flags) ==
    /\ phase = "loaded"
    /\ cpuset \cap tree.obj[tree.root].cpuset # {}
    /\ tree' = restrict(tree, cpuset, flags)
    /\ levels' = connect_levels(tree')
    /\ UNCHANGED <<phase, todo, ignored, whole>>

-----------------------------------------------------------------------------
(* Misc objects.  The arrays of the levels are not built again.            *)

MiscObject(name) == [setup_object("MISC", -1) EXCEPT !.name = name]
NewMisc == CHOOSE x \in MiscIds : x \notin InTree(tree)

(* The other sets of a Misc object that was linked are those of what is    *)
(* below it, or else its nodesets are those of its parent.                 *)
update_misc(t, x) ==
    LET o == t.obj[x]
        p == t.obj[Parent(t, x)]
        All(own, field) == own \cup
            UNION {IF Has(t.obj[c][field]) THEN t.obj[c][field] ELSE {} : c \in Kids(t, x)}
        below == t.kids[x] # <<>> /\ Has(t.obj[t.kids[x][1]].cpuset)
    IN  [t EXCEPT !.obj[x] =
            IF below
            THEN [o EXCEPT !.complete_cpuset = All(@, "complete_cpuset"),
                           !.allowed_cpuset = All(@, "allowed_cpuset"),
                           !.online_cpuset = All(@, "online_cpuset"),
                           !.nodeset = All({}, "nodeset"),
                           !.complete_nodeset = All({}, "complete_nodeset"),
                           !.allowed_nodeset = All({}, "allowed_nodeset")]
            ELSE [o EXCEPT !.nodeset = p.nodeset,
                           !.complete_nodeset = p.complete_nodeset,
                           !.allowed_nodeset = p.allowed_nodeset]]

(* Mutant: a cpuset outside of the machine is not refused at once.         *)
misc_fits_Any(cpuset) == cpuset # {}

misc_fits(cpuset) == cpuset # {} /\ cpuset \subseteq tree.obj[tree.root].complete_cpuset

InsertMiscByCpuset(cpuset, name) ==
    LET o == [MiscObject(name) EXCEPT !.cpuset = cpuset, !.complete_cpuset = cpuset,
                                      !.online_cpuset = cpuset, !.allowed_cpuset = cpuset]
        t == insert_object_by_cpuset(tree, NewMisc, o)
    IN  /\ phase = "loaded" /\ MiscIds \cap Fresh(tree) # {}
        /\ misc_fits(cpuset)
        /\ tree' = IF t.obj[NewMisc] = NULL THEN t ELSE update_misc(t, NewMisc)
        /\ UNCHANGED <<phase, todo, levels, ignored, whole>>

InsertMiscByParent(p, name) ==
    /\ phase = "loaded" /\ MiscIds \cap Fresh(tree) # {}
    /\ p \in InTree(tree)
    /\ tree' = insert_object_by_parent(tree, p, NewMisc, MiscObject(name))
    /\ UNCHANGED <<phase, todo, levels, ignored, whole>>

-----------------------------------------------------------------------------
(* After abort() nothing happens any more.                                 *)
Aborted == phase = "aborted" /\ UNCHANGED vars

(* Ignorable and FlagArgs bound what an instance configures.               *)
Configure ==
    \/ \E type \in Ignorable : IgnoreType(type) \/ IgnoreTypeKeepStructure(type)
    \/ Ignorable # {} /\ IgnoreAllKeepStructure
    \/ \E flag \in FlagArgs : SetFlags(flag)

Next ==
    \/ Configure
    \/ \E m \in Machines : Load(m)
    \/ \E x \in DOMAIN Input : Insert(x)
    \/ Discover
    \/ \E cpuset \in CpuArgs, flags \in RestrictArgs : TopologyRestrict(cpuset, flags)
    \/ \E cpuset \in CpuArgs, name \in MiscNames : InsertMiscByCpuset(cpuset, name)
    \/ \E p \in Id, name \in MiscNames : InsertMiscByParent(p, name)
    \/ Aborted

Spec == Init /\ [][Next]_vars

-----------------------------------------------------------------------------
(* Properties.                                                             *)

Loaded == phase = "loaded"

(* Loaded.  "This is the set of CPUs for which there are PU objects in the *)
(* topology under this object" (hwloc.h), and the children of an object    *)
(* share its cpuset out among them (hwloc__check_children).  Misc objects  *)
(* may be leaves.                                                          *)
CpusetsExact ==
    Loaded =>
        \A x \in InTree(tree) : Has(Obj(x).cpuset) =>
            LET pus  == {y \in {x} \cup Below(tree, x) : Obj(y).type = "PU"}
                kids == {y \in Kids(tree, x) : Has(Obj(y).cpuset)}
            IN  /\ Obj(x).type # "MISC" => Obj(x).cpuset = UNION {Obj(y).cpuset : y \in pus}
                /\ \A y, z \in kids : y # z => Obj(y).cpuset \cap Obj(z).cpuset = {}
                /\ kids # {} => Obj(x).cpuset = UNION {Obj(y).cpuset : y \in kids}

(* Loaded.  "This is the set of NUMA nodes for which there are NODE        *)
(* objects in the topology under or above this object" and "if there are   *)
(* no NUMA nodes in the machine, [...] nodeset is full" (hwloc.h), unless  *)
(* the application had NUMA nodes removed.                                 *)
NodesetsExact ==
    Loaded /\ ignored["NODE"] = "NEVER" =>
        LET nodes == {x \in InTree(tree) : Obj(x).type = "NODE"}
            Near(x) == {y \in nodes : x = y \/ x \in Below(tree, y) \/ y \in Below(tree, x)}
        IN  \A x \in InTree(tree) : Has(Obj(x).nodeset) =>
                \/ Obj(x).nodeset = {Obj(y).os_index : y \in Near(x)}
                \/ Obj(x).nodeset = AllNodes /\ nodes = {}

(* Loaded.  Every set of an object is within the complete set of the       *)
(* object (hwloc_topology_check) and within the same set of its parent,    *)
(* except what a Misc object says to be online or allowed.                 *)
NestedFields(x) ==
    {"cpuset", "complete_cpuset", "nodeset", "complete_nodeset", "allowed_nodeset"}
    \cup IF Obj(x).type = "MISC" THEN {} ELSE {"online_cpuset", "allowed_cpuset"}
SetsNested ==
    Loaded =>
        \A x \in InTree(tree) : Has(Obj(x).cpuset) =>
            /\ \A f \in {"cpuset", "online_cpuset", "allowed_cpuset"} :
                  Obj(x)[f] \subseteq Obj(x).complete_cpuset
            /\ \A f \in {"nodeset", "allowed_nodeset"} :
                  Obj(x)[f] \subseteq Obj(x).complete_nodeset
            /\ \A c \in Kids(tree, x) : Has(Obj(c).cpuset) =>
                  \A f \in NestedFields(c) : Obj(c)[f] \subseteq Obj(x)[f]

(* Loaded.  The three together: the bitmaps of the objects are what hwloc.h *)
(* and hwloc_topology_check say they are, after the removal stages of a     *)
(* load (topology_load) and after any sequence of restrictions and          *)
(* insertions of Misc objects (topology_live).                              *)
SetsSound == CpusetsExact /\ NodesetsExact /\ SetsNested

(* Loaded.  hwloc_topology_check: every object that is no Misc object is   *)
(* at one place of the levels and they hold no other; the objects of one   *)
(* level, and of no two, compare equal by type; an object is deeper than   *)
(* those above it; the last level has the PUs, if any may be used.         *)
LevelsSound ==
    Loaded =>
        LET all  == FlattenSeq(levels)
            Depth(x) == CHOOSE d \in DOMAIN levels : x \in ToSet(levels[d])
            mine == {x \in InTree(tree) : Obj(x).type # "MISC"}
        IN  /\ ToSet(all) = mine /\ Len(all) = Cardinality(mine)
            /\ levels[1] = <<tree.root>>
            /\ \A x, y \in mine :
                /\ (type_cmp(Obj(x), Obj(y)) = "EQUAL") <=> (Depth(x) = Depth(y))
                /\ y \in Below(tree, x) => Depth(x) < Depth(y)
            /\ Obj(tree.root).cpuset # {} =>
                \A x \in mine : (Obj(x).type = "PU") <=> (Depth(x) = Len(levels))

(* hwloc_topology_restrict keeps exactly the objects that have a processor *)
(* of the cpuset, with the rest of their sets, and each below the same     *)
(* objects as before (Misc objects and memory without processors apart).   *)
RestrictKept(cpuset) ==
    LET before == {x \in InTree(tree) : Obj(x).type # "MISC" /\ NotEmpty(Obj(x).cpuset)}
        after  == before \cap InTree(tree)'
    IN  /\ after = {x \in before : Obj(x).cpuset \cap cpuset # {}}
        /\ \A x \in after :
            /\ Obj(x)'.cpuset = Obj(x).cpuset \cap cpuset
            /\ Obj(x)'.complete_cpuset = Obj(x).complete_cpuset \cap cpuset
            /\ Below(tree, x)' = Below(tree, x) \cap InTree(tree)'
RootGains == ~(Obj(tree.root)'.complete_cpuset \subseteq Obj(tree.root).complete_cpuset)
RootLoses == ~(Obj(tree.root).complete_cpuset \subseteq Obj(tree.root)'.complete_cpuset)
RestrictExact ==
    [][Loaded /\ Loaded' /\ InTree(tree)' \subseteq InTree(tree) /\ ~RootGains =>
          RestrictKept(Obj(tree.root)'.complete_cpuset)]_vars

(* A Misc object annotates the tree: no other object changes, and what is  *)
(* above and below it stays so, whether or not the insertion succeeds.  A  *)
(* step that restricts takes processors from the root, or does nothing.    *)
MiscAnnotates ==
    [][Loaded /\ Loaded' /\ ~RootLoses =>
          \A x \in InTree(tree) :
              /\ Obj(x)' = Obj(x)
              /\ Below(tree, x)' \cap InTree(tree) = Below(tree, x)]_vars
=============================================================================
