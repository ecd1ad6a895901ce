----------------------------- MODULE IODevices -----------------------------
(***************************************************************************)
(* I/O devices: the end of hwloc_discover, where topology-libpci.c scans    *)
(* the PCI buses of the machine, sorts what it finds into a bus hierarchy,  *)
(* adds the operating system's devices and attaches every host bridge near  *)
(* its processors; where topology.c then drops what was not asked for and   *)
(* lists the rest in levels of their own; and what a restriction makes of   *)
(* them.  libpci reports devices in an order of its own, one step for each. *)
(***************************************************************************)
EXTENDS Traversal

CONSTANTS
    Order,      \* the objects of Input in the order the backend inserts
    Pci,        \* PCI devices and bridges: see PciAssumption
    Fake,       \* the object that stands for the whole hierarchy for a while
    HostIds,    \* the sequence of the host bridges there may be
    GroupIds,   \* the groups that may be inserted for host bridges
    EnvLocal,   \* HWLOC_PCI_<domain>_<bus>_LOCALCPUS: <<domain, bus>> to a cpuset
    IoFlagArgs  \* the sets of I/O flags the application may set

(* A device has a bus id (slot is device and function), says whether its   *)
(* class is interesting and which processors are near (local_cpus, {} if   *)
(* unknown), and lists the OS devices of its classes; a bridge leads to    *)
(* the buses secondary..subordinate.  block lists the directories of disks *)
(* in the order of the readdir.                                            *)
ASSUME PciAssumption ==
    /\ \A x \in DOMAIN Pci :
        /\ Pci[x].bridge \in BOOLEAN /\ Pci[x].common \in BOOLEAN
        /\ {Pci[x].domain, Pci[x].bus, Pci[x].slot} \subseteq Nat
        /\ Pci[x].local \in SUBSET (0..(NbCpus - 1))
        /\ ToSet(Pci[x].osdevs) \subseteq MiscIds
        /\ \A i \in DOMAIN Pci[x].block :
            /\ Pci[x].block[i].kind \in {"ide", "host"}
            /\ ToSet(Pci[x].block[i].devs) \subseteq MiscIds
    /\ DOMAIN Pci \cup {Fake} \cup ToSet(HostIds) \cup GroupIds \subseteq MiscIds
    /\ IoFlagArgs \subseteq SUBSET {"IO_DEVICES", "IO_BRIDGES", "WHOLE_IO"}

VARIABLES
    ioflags,      \* the I/O flags of the topology
    pci,          \* the hierarchy below fakehostbridge, a tree
    host,         \* the attributes of the host bridges made so far
    next_cousin,  \* that pointer of every I/O object
    iolevels,     \* bridge_level, pcidev_level and osdev_level
    stale         \* history: a restriction removed or moved an I/O object

iovars == <<vars, ioflags, pci, host, next_cousin, iolevels, stale>>

IoTypes == {"BRIDGE", "PCI_DEVICE", "OS_DEVICE"}

-----------------------------------------------------------------------------
(* The bus hierarchy.                                                      *)

PciObject(x) == setup_object(IF Pci[x].bridge THEN "BRIDGE" ELSE "PCI_DEVICE", x)

Leads(a, b) == Pci[a].bridge /\ Pci[b].bus \in Pci[a].secondary..Pci[a].subordinate
SlotLower(a, b) ==
    \/ Pci[a].bus < Pci[b].bus
    \/ Pci[a].bus = Pci[b].bus /\ Pci[a].slot < Pci[b].slot

compare_busids(a, b) ==
    CASE Pci[a].domain < Pci[b].domain -> "LOWER"
      [] Pci[a].domain > Pci[b].domain -> "HIGHER"
      [] OTHER -> IF Leads(a, b) THEN "SUPERSET"
                  ELSE IF Leads(b, a) THEN "INCLUDED"
                  ELSE IF SlotLower(a, b) THEN "LOWER" ELSE "HIGHER"

(* Mutant: the siblings that follow stay beside the new bridge.            *)
RECURSIVE pci_add_object_NoMove(_, _, _)
pci_add_object_NoMove(t, r, x) ==
    LET stops == {i \in DOMAIN t.kids[r] : compare_busids(x, t.kids[r][i]) # "HIGHER"}
        i     == Min(stops)
    IN  IF stops = {} THEN insert_object_by_parent(t, r, x, PciObject(x))
        ELSE IF compare_busids(x, t.kids[r][i]) = "INCLUDED"
        THEN pci_add_object_NoMove(t, t.kids[r][i], x)
        ELSE [t EXCEPT !.obj[x] = PciObject(x), !.kids[r] = InsertAt(@, i, x)]

(* hwloc_pci_add_object below r: among the siblings, or below the bridge   *)
(* that leads to x; the siblings that follow a new bridge go below it when *)
(* it leads to them.  An assertion says that they are higher otherwise:    *)
(* the tree loses its root when it fails.                                  *)
RECURSIVE pci_add_object(_, _, _)
pci_add_object(t, r, x) ==
    LET kids  == t.kids[r]
        stops == {i \in DOMAIN kids : compare_busids(x, kids[i]) # "HIGHER"}
        i     == Min(stops)
        rest  == SubSeq(kids, i, Len(kids))
        Higher(c) == compare_busids(c, x) = "HIGHER"
        Lower(c)  == ~Higher(c)
        Move(s, c) == pci_add_object(s, x, c)
        placed == [t EXCEPT !.obj[x] = PciObject(x),
                            !.kids[r] = SubSeq(@, 1, i - 1) \o <<x>> \o SelectSeq(rest, Higher)]
    IN  IF stops = {} THEN [t EXCEPT !.obj[x] = PciObject(x), !.kids[r] = Append(@, x)]
        ELSE IF compare_busids(x, kids[i]) = "INCLUDED" THEN pci_add_object(t, kids[i], x)
        ELSE IF \E c \in ToSet(rest) : compare_busids(c, x) \in {"LOWER", "SUPERSET"}
        THEN [t EXCEPT !.root = NULL]
        ELSE FoldLeft(Move, placed, SelectSeq(rest, Lower))

-----------------------------------------------------------------------------
(* What the traversals of the hierarchy add.                               *)

(* The path is not restored after an ide directory: what the readdir gives *)
(* next is looked for below it, and not found.                             *)
lookup_block_class(x) ==
    LET dirs == Pci[x].block
        ides == {i \in DOMAIN dirs : dirs[i].kind = "ide"}
        last == IF ides = {} THEN Len(dirs) ELSE Min(ides)
    IN  FlattenSeq([i \in 1..last |-> dirs[i].devs])

lookuposdevices(t, x) ==
    LET Add(s, y) == insert_object_by_parent(s, x, y, setup_object("OS_DEVICE", -1))
    IN  IF Pci[x].bridge THEN t
        ELSE FoldLeft(Add, t, Pci[x].osdevs \o lookup_block_class(x))

(* The depth of a bridge counts the bridges above it, from below r.        *)
BridgesAbove(t, r, x) == {b \in Ancestors(t, x) \ {r} : t.obj[b].type = "BRIDGE"}
setbridgedepth(t) ==
    [t EXCEPT !.obj = [x \in Id |->
        IF x \in Below(t, t.root) /\ t.obj[x].type = "BRIDGE"
        THEN [t.obj[x] EXCEPT !.level = Cardinality(BridgesAbove(t, t.root, x))]
        ELSE t.obj[x]]]

-----------------------------------------------------------------------------
(* Host bridges: one for the first children of the hierarchy that share    *)
(* the domain and the bus.                                                 *)

Upstream(t) ==
    LET kids == t.kids[t.root]
        Same(i) == Pci[kids[i]].domain = Pci[kids[1]].domain /\ Pci[kids[i]].bus = Pci[kids[1]].bus
        n == Max({i \in DOMAIN kids : \A j \in 1..i : Same(j)})
    IN  SubSeq(kids, 1, n)

HostBridge(devs) ==
    LET c == Pci[devs[1]]
        subs == {Pci[x].subordinate : x \in {y \in ToSet(devs) : Pci[y].bridge}}
    IN  [domain |-> c.domain, secondary |-> c.bus, subordinate |-> Max(subs \cup {c.bus})]

(* Mutant: the environment is only asked where sysfs knows nothing.        *)
HostCpuset_SysfsFirst(c) ==
    LET id    == <<Pci[c].domain, Pci[c].bus>>
        local == IF Pci[c].local # {} THEN Pci[c].local
                 ELSE IF id \in DOMAIN EnvLocal THEN EnvLocal[id] ELSE Cpus(tree.root)
        here  == local \cap Cpus(tree.root)
    IN  IF here = {} THEN Cpus(tree.root) ELSE here

(* The processors near the first child c, those of the whole tree if none  *)
(* of them is there.                                                       *)
HostCpuset(c) ==
    LET id    == <<Pci[c].domain, Pci[c].bus>>
        local == IF id \in DOMAIN EnvLocal THEN EnvLocal[id]
                 ELSE IF Pci[c].local # {} THEN Pci[c].local ELSE Cpus(tree.root)
        here  == local \cap Cpus(tree.root)
    IN  IF here = {} THEN Cpus(tree.root) ELSE here

(* hwloc_pci_find_hostbridge_parent: the topmost object of that cpuset, or *)
(* a new group.  One that insertion refuses was freed: used all the same.  *)
(* The depth of the group, next_group_depth, is left out.                  *)
find_hostbridge_parent(cpuset) ==
    LET cover == get_obj_covering_cpuset(cpuset)
        up[y \in Id] == IF y = tree.root \/ Cpus(Parent(tree, y)) # Cpus(y) THEN y
                        ELSE up[Parent(tree, y)]
        g == CHOOSE y \in GroupIds : y \notin InTree(tree)
    IN  IF Cpus(cover) = cpuset THEN [parent |-> up[cover], tree |-> tree]
        ELSE [parent |-> g,
              tree |-> insert_object_by_cpuset(tree, g,
                           [setup_object("GROUP", -1) EXCEPT !.cpuset = cpuset])]

(* The hierarchy below devs moves from one tree to the other.              *)
Transfer(t, from, devs) ==
    LET moved == ToSet(devs) \cup UNION {Below(from, x) : x \in ToSet(devs)}
    IN  [t EXCEPT !.obj = [x \in Id |-> IF x \in moved THEN from.obj[x] ELSE t.obj[x]],
                  !.kids = [x \in Id |-> IF x \in moved THEN from.kids[x] ELSE t.kids[x]]]

-----------------------------------------------------------------------------
(* hwloc_drop_useless_io.                                                  *)

unlink_object_and_children(t, x) ==
    LET Other(y) == y # x
        gone     == {x} \cup Below(t, x)
        p        == Parent(t, x)
    IN  [t EXCEPT !.obj = [y \in Id |-> IF y \in gone THEN NULL ELSE t.obj[y]],
                  !.kids = [y \in Id |-> IF y \in gone THEN <<>>
                                         ELSE IF y = p THEN SelectSeq(t.kids[y], Other)
                                         ELSE t.kids[y]]]

(* Mutant: a bridge is judged before the devices below it are dropped.     *)
RECURSIVE drop_useless_io_Early(_, _, _)
drop_useless_io_Early(t, x, flags) ==
    LET all      == "WHOLE_IO" \in flags
        Io(c)    == type_is_io(t.obj[c].type)
        Boring(c) == t.obj[c].type = "PCI_DEVICE" /\ ~Pci[c].common
        t1       == IF all THEN t
                    ELSE FoldLeft(unlink_object_and_children, t, SelectSeq(t.kids[x], Boring))
        Visit(s, c) ==
            LET empty == s.kids[c] = <<>>
                s1    == drop_useless_io_Early(s, c, flags)
            IN  IF s1.obj[c].type # "BRIDGE" \/ all THEN s1
                ELSE IF empty \/ (c \notin ToSet(HostIds) /\ "IO_BRIDGES" \notin flags)
                THEN unlink_single_object(s1, c)
                ELSE s1
    IN  IF flags \cap {"IO_DEVICES", "WHOLE_IO"} = {}
        THEN FoldLeft(unlink_object_and_children, t, SelectSeq(t.kids[x], Io))
        ELSE FoldLeft(Visit, t1, t1.kids[x])

(* Without I/O flags the I/O children of x go, and those only; without     *)
(* WHOLE_IO uncommon devices go, and bridges that lead to nothing; without *)
(* IO_BRIDGES the others too, except host bridges: what is below them      *)
(* takes their place.                                                      *)
RECURSIVE drop_useless_io(_, _, _)
drop_useless_io(t, x, flags) ==
    LET all      == "WHOLE_IO" \in flags
        Io(c)    == type_is_io(t.obj[c].type)
        Boring(c) == t.obj[c].type = "PCI_DEVICE" /\ ~Pci[c].common
        t1       == IF all THEN t
                    ELSE FoldLeft(unlink_object_and_children, t, SelectSeq(t.kids[x], Boring))
        Visit(s, c) ==
            LET s1    == drop_useless_io(s, c, flags)
                empty == s1.kids[c] = <<>>
            IN  IF s1.obj[c].type # "BRIDGE" \/ all THEN s1
                ELSE IF empty \/ (c \notin ToSet(HostIds) /\ "IO_BRIDGES" \notin flags)
                THEN unlink_single_object(s1, c)
                ELSE s1
    IN  IF flags \cap {"IO_DEVICES", "WHOLE_IO"} = {}
        THEN FoldLeft(unlink_object_and_children, t, SelectSeq(t.kids[x], Io))
        ELSE FoldLeft(Visit, t1, t1.kids[x])

(* Only the bridges that a path of bridges joins to the root are visited.  *)
propagate_bridge_depth(t) ==
    LET Joined(x) == \A y \in Ancestors(t, x) \ {t.root} : t.obj[y].type = "BRIDGE"
    IN  [t EXCEPT !.obj = [x \in Id |->
            IF x \in InTree(t) /\ t.obj[x].type = "BRIDGE" /\ Joined(x)
            THEN [t.obj[x] EXCEPT !.level = Cardinality(BridgesAbove(t, t.root, x))]
            ELSE t.obj[x]]]

-----------------------------------------------------------------------------
(* The levels of I/O objects, which hwloc_connect_levels builds aside.     *)

SubTree(t, x) == PreOrder([t EXCEPT !.root = x])

(* append_iodevs of the I/O objects that hwloc_level_filter_objects finds  *)
(* in an array.                                                            *)
filtered_io(t, objs) ==
    LET IsIo(y) == type_is_io(t.obj[y].type)
        io[x \in Id] ==
            IF IsIo(x) THEN SelectSeq(SubTree(t, x), IsIo)
            ELSE IF t.obj[x].type # "MISC" THEN <<>>
            ELSE FlattenSeq([i \in DOMAIN t.kids[x] |-> io[t.kids[x][i]]])
    IN  FlattenSeq([i \in DOMAIN objs |-> io[objs[i]]])

(* All of them in the order they are appended, level after level.          *)
RECURSIVE io_order(_, _)
io_order(t, unfiltered) ==
    LET objs     == level_filter(t, unfiltered)
        top      == top_obj(t, objs)
        Taken(x) == type_cmp(t.obj[top], t.obj[x]) = "EQUAL"
        new      == FlattenSeq([i \in DOMAIN objs |->
                        IF Taken(objs[i]) THEN t.kids[objs[i]] ELSE <<objs[i]>>])
    IN  filtered_io(t, unfiltered) \o (IF objs = <<>> THEN <<>> ELSE io_order(t, new))

IoList(t, type) ==
    LET OfType(x) == t.obj[x].type = type
    IN  SelectSeq(io_order(t, t.kids[t.root]), OfType)

(* The next_cousin pointers: the last object of a list keeps what it had.  *)
append_iodevs(t, old) ==
    LET lists == {IoList(t, type) : type \in IoTypes}
        set   == {<<l[i], l[i + 1]>> : <<l, i>> \in
                    {p \in lists \X (1..Cardinality(Id)) : p[2] < Len(p[1])}}
    IN  [x \in Id |-> IF \E p \in set : p[1] = x
                      THEN (CHOOSE p \in set : p[1] = x)[2] ELSE old[x]]

(* Mutant: the first object of the list is passed over.                    *)
RECURSIVE build_level_from_list_Second(_, _, _)
build_level_from_list_Second(t, next, x) ==
    IF x = NULL \/ next[x] = NULL THEN <<>>
    ELSE <<next[x]>> \o build_level_from_list_Second(t, next, next[x])

(* hwloc_build_level_from_list follows them: a freed object ends the level *)
(* here, in the program it is read; a level longer than there are objects  *)
(* never ends.                                                             *)
RECURSIVE follow(_, _, _, _)
follow(t, next, x, n) ==
    IF x = NULL \/ n = 0 THEN <<>>
    ELSE IF t.obj[x] = NULL THEN <<x>>
    ELSE <<x>> \o follow(t, next, next[x], n - 1)
build_level_from_list(t, next, x) == follow(t, next, x, Cardinality(Id) + 1)

io_levels(t, next) ==
    [type \in IoTypes |->
        LET l == IoList(t, type)
        IN  build_level_from_list(t, next, IF l = <<>> THEN NULL ELSE l[1])]

-----------------------------------------------------------------------------
(* The steps.                                                              *)

(* The tree when the processors are discovered.                            *)
Discovered ==
    LET Insert1(s, x) == insert_object_by_cpuset(s, x, BackendObject(x))
        m == CHOOSE m \in Machines : TRUE
        none == [type \in Types |-> "NEVER"]
    IN  finish(tweak(FoldLeft(Insert1, alloc_cpusets(setup_defaults, m), Order), none, FALSE),
               none)

IoInit ==
    /\ phase = "scan"
    /\ tree = Discovered
    /\ levels = connect_levels(tree)
    /\ todo = DOMAIN Pci
    /\ ignored = [type \in Types |-> "NEVER"] /\ whole = FALSE
    /\ ioflags \in IoFlagArgs
    /\ pci = [root |-> Fake, obj |-> [x \in Id |-> IF x = Fake THEN setup_object("BRIDGE", 0)
                                                   ELSE NULL],
              kids |-> [x \in Id |-> <<>>]]
    /\ host = <<>>
    /\ next_cousin = [x \in Id |-> NULL]
    /\ iolevels = [type \in IoTypes |-> <<>>]
    /\ stale = FALSE

Looks == ioflags \cap {"IO_DEVICES", "WHOLE_IO"} # {}

Scan(x) ==
    /\ phase = "scan" /\ Looks /\ x \in todo
    /\ pci' = pci_add_object(pci, Fake, x)
    /\ phase' = IF pci'.root = NULL THEN "aborted" ELSE phase
    /\ todo' = todo \ {x}
    /\ UNCHANGED <<tree, levels, ignored, whole, ioflags, host, next_cousin, iolevels, stale>>

(* libpci's error handler jumps out of hwloc_look_libpci.                  *)
PciError ==
    /\ phase = "scan" /\ Looks /\ todo # {}
    /\ phase' = "drop" /\ todo' = {}
    /\ UNCHANGED <<tree, levels, ignored, whole, ioflags, pci, host, next_cousin, iolevels,
                   stale>>

NoScan ==
    /\ phase = "scan" /\ ~Looks
    /\ phase' = "drop" /\ todo' = {}
    /\ UNCHANGED <<tree, levels, ignored, whole, ioflags, pci, host, next_cousin, iolevels,
                   stale>>

ScanDone ==
    /\ phase = "scan" /\ Looks /\ todo = {}
    /\ phase' = "attach"
    /\ pci' = FoldLeft(lookuposdevices, setbridgedepth(pci), Tail(PreOrder(pci)))
    /\ UNCHANGED <<tree, todo, levels, ignored, whole, ioflags, host, next_cousin, iolevels,
                   stale>>

(* What follows the use of a freed group is not defined.                   *)
AttachHostbridge ==
    LET devs == Upstream(pci)
        x    == HostIds[Len(host) + 1]
    IN  /\ phase = "attach" /\ pci.kids[Fake] # <<>>
        /\ \E f \in {find_hostbridge_parent(HostCpuset(devs[1]))} :
            IF f.tree.obj[f.parent] = NULL
            THEN phase' = "aborted" /\ UNCHANGED tree
            ELSE LET t == insert_object_by_parent(f.tree, f.parent, x,
                                                  setup_object("BRIDGE", Len(host)))
                 IN  /\ tree' = [Transfer(t, pci, devs) EXCEPT !.kids[x] = devs]
                     /\ UNCHANGED phase
        /\ pci' = FoldLeft(unlink_object_and_children, pci, devs)
        /\ host' = Append(host, HostBridge(devs))
        /\ UNCHANGED <<todo, levels, ignored, whole, ioflags, next_cousin, iolevels, stale>>

AttachDone ==
    /\ phase = "attach" /\ pci.kids[Fake] = <<>>
    /\ phase' = "drop"
    /\ UNCHANGED <<tree, todo, levels, ignored, whole, ioflags, pci, host, next_cousin, iolevels,
                   stale>>

(* Filtering, connecting again, and the depth of bridges.                  *)
DropAndConnect ==
    /\ phase = "drop"
    /\ phase' = "loaded"
    /\ \E t \in {drop_useless_io(tree, tree.root, ioflags)} :
        \E next \in {append_iodevs(t, next_cousin)} :
            /\ tree' = propagate_bridge_depth(t)
            /\ levels' = connect_levels(t)
            /\ next_cousin' = next
            /\ iolevels' = io_levels(t, next)
    /\ UNCHANGED <<todo, ignored, whole, ioflags, pci, host, stale>>

(* hwloc_topology_restrict, with the levels of I/O objects.                *)
IoRestrict(cpuset, flags) ==
    /\ TopologyRestrict(cpuset, flags)
    /\ next_cousin' = append_iodevs(tree', next_cousin)
    /\ iolevels' = io_levels(tree', next_cousin')
    /\ stale' = (stale \/ \E type \in IoTypes : IoList(tree', type) # IoList(tree, type))
    /\ UNCHANGED <<ioflags, pci, host>>

IoNext ==
    \/ \E x \in DOMAIN Pci : Scan(x)
    \/ PciError \/ NoScan \/ ScanDone
    \/ AttachHostbridge \/ AttachDone
    \/ DropAndConnect
    \/ \E cpuset \in CpuArgs, flags \in RestrictArgs : IoRestrict(cpuset, flags)

IoSpec == IoInit /\ [][IoNext]_iovars

-----------------------------------------------------------------------------
(* Asking for I/O objects (helper.h).                                      *)

get_non_io_ancestor_obj(x) ==
    LET up[y \in Id] == IF Has(Cpus(y)) THEN y ELSE up[Parent(tree, y)] IN up[x]

get_pcidev_by_busid(domain, bus, slot) ==
    LET Match(x) == Pci[x].domain = domain /\ Pci[x].bus = bus /\ Pci[x].slot = slot
        found    == SelectSeq(iolevels["PCI_DEVICE"], Match)
    IN  IF found = <<>> THEN NULL ELSE found[1]

HostOf(x) == host[CHOOSE i \in DOMAIN host : HostIds[i] = x]
bridge_covers_pcibus(x, domain, bus) ==
    LET b == IF x \in ToSet(HostIds) THEN HostOf(x) ELSE Pci[x]
    IN  b.domain = domain /\ bus \in b.secondary..b.subordinate

(* Three assertions say that the first bridge that covers a bus is a host  *)
(* bridge: here it may be any.                                             *)
get_hostbridge_by_pcibus(domain, bus) ==
    LET Covers(x) == bridge_covers_pcibus(x, domain, bus)
        found     == SelectSeq(iolevels["BRIDGE"], Covers)
    IN  IF found = <<>> THEN NULL ELSE found[1]

-----------------------------------------------------------------------------
(* Properties.                                                             *)

IoIn(t) == {x \in InTree(t) : type_is_io(t.obj[x].type)}
LeadsTo(b, x) == Pci[b].domain = Pci[x].domain /\ Leads(b, x)

(* hwloc_pci_add_object: whatever the order of the scan, an object is      *)
(* below exactly the bridges found so far that lead to its bus, siblings   *)
(* are in the order of bus ids, and no assertion fails.                    *)
BusTreeExact ==
    /\ phase # "aborted"
    /\ phase = "scan" =>
        /\ \A x \in InTree(pci) \ {Fake} :
            Ancestors(pci, x) = {Fake} \cup {b \in InTree(pci) \ {Fake} : LeadsTo(b, x)}
        /\ \A p \in InTree(pci) : \A i, j \in DOMAIN pci.kids[p] :
            LET x == pci.kids[p][i]
                y == pci.kids[p][j]
            IN  i < j => \/ Pci[x].domain < Pci[y].domain
                         \/ Pci[x].domain = Pci[y].domain /\ SlotLower(x, y)

(* What hwloc.h says of the I/O flags, in terms of the machine alone.      *)
KeepDevice(x) ==
    ~Pci[x].bridge /\ ("WHOLE_IO" \in ioflags \/ ("IO_DEVICES" \in ioflags /\ Pci[x].common))
KeepBridge(b) ==
    /\ Pci[b].bridge
    /\ \/ "WHOLE_IO" \in ioflags
       \/ "IO_BRIDGES" \in ioflags /\ \E x \in DOMAIN Pci : KeepDevice(x) /\ LeadsTo(b, x)
HostCovers(h, x) == bridge_covers_pcibus(h, Pci[x].domain, Pci[x].bus)
Hosts == {HostIds[i] : i \in DOMAIN host}

(* After the load and until a restriction takes some, the I/O objects of   *)
(* the tree are those the flags ask for, in the hierarchy of the buses:    *)
(* common devices or all, the useful bridges or all, the host bridges that *)
(* lead to them, and below the devices that stay the OS devices of their   *)
(* classes; disks are below such a device too, but not every disk is there *)
(* (lookup_block_class).                                                   *)
IoKept ==
    Loaded /\ host # <<>> /\ ~stale =>
        LET kept  == {x \in DOMAIN Pci : KeepDevice(x) \/ KeepBridge(x)}
            hosts == {h \in Hosts : "WHOLE_IO" \in ioflags \/ \E x \in kept : HostCovers(h, x)}
        IN  /\ {x \in InTree(tree) : Obj(x).type \in {"BRIDGE", "PCI_DEVICE"}} = kept \cup hosts
            /\ \A x \in kept :
                IoIn(tree) \cap Ancestors(tree, x) =
                    {b \in kept : LeadsTo(b, x)} \cup {h \in hosts : HostCovers(h, x)}
            /\ \A x \in InTree(tree) : Obj(x).type = "OS_DEVICE" =>
                  Parent(tree, x) \in {y \in kept : ~Pci[y].bridge}
            /\ \A x \in kept : ToSet(Pci[x].osdevs) \subseteq Kids(tree, x)

(* A device is attached to the highest object that has the processors near *)
(* it, as sysfs or the environment say, and the host bridge of its bus is  *)
(* found again by hwloc_get_hostbridge_by_pcibus, above it.                *)
Near(x) ==
    LET h    == CHOOSE h \in Hosts : h \in Ancestors(tree, x)
        id   == <<HostOf(h).domain, HostOf(h).secondary>>
        said == IF id \in DOMAIN EnvLocal THEN EnvLocal[id] ELSE Pci[x].local
        here == said \cap Cpus(tree.root)
    IN  IF here = {} THEN Cpus(tree.root) ELSE here
LocalityExact ==
    Loaded /\ ~stale /\ Cpus(tree.root) = Discovered.obj[Discovered.root].cpuset =>
        \A x \in IoIn(tree) \cap DOMAIN Pci :
            LET anc == get_non_io_ancestor_obj(x)
                h   == get_hostbridge_by_pcibus(Pci[x].domain, Pci[x].bus)
            IN  /\ Cpus(anc) = Near(x)
                /\ anc # tree.root => Cpus(Parent(tree, anc)) # Cpus(anc)
                /\ h \in Hosts /\ h \in Ancestors(tree, x) /\ anc = Parent(tree, h)

(* The three levels of I/O objects list each object of their type once,    *)
(* and devices are found by their bus id, until a restriction removes or   *)
(* moves one.                                                              *)
LevelsListed ==
    /\ \A type \in IoTypes :
        LET mine == {x \in InTree(tree) : Obj(x).type = type}
        IN  ToSet(iolevels[type]) = mine /\ Len(iolevels[type]) = Cardinality(mine)
    /\ \A x \in IoIn(tree) : Obj(x).type = "PCI_DEVICE" =>
        get_pcidev_by_busid(Pci[x].domain, Pci[x].bus, Pci[x].slot) = x
IoLevelsExact == Loaded /\ ~stale => LevelsListed

Restricts(cpuset, flags) == Loaded /\ tree' # tree /\ tree' = restrict(tree, cpuset, flags)

(* The parent p of a host bridge is a Group that was made for one:         *)
(* find_hostbridge_parent gave it no complete_cpuset, so restrict_object   *)
(* takes it for unmodified and does not visit its children.                *)
NewGroup(p) == ~Has(Obj(p).complete_cpuset)

(* hwloc_topology_restrict: a host bridge and all that is below it stay    *)
(* below their parent as long as it stays; when it goes, they move         *)
(* together to the nearest ancestor that is left with ADAPT_IO, and are    *)
(* removed together without it, as hwloc.h says.  The exception is a       *)
(* NewGroup that goes while its parent stays: against hwloc.h what is      *)
(* below it moves without the flag too.                                    *)
IoTogether ==
    [][\A cpuset \in CpuArgs, flags \in RestrictArgs : Restricts(cpuset, flags) =>
        \A h \in Hosts \cap InTree(tree) :
            LET p     == Parent(tree, h)
                mine  == {h} \cup Below(tree, h)
                above == Ancestors(tree, h) \cap InTree(tree)'
                near  == CHOOSE q \in above : above \subseteq {q} \cup Ancestors(tree, q)
            IN  IF \/ p \in above \/ "ADAPT_IO" \in flags
                   \/ NewGroup(p) /\ Parent(tree, p) \in above
                THEN /\ {h} \cup Below(tree', h) = mine
                     /\ mine \subseteq InTree(tree)'
                     /\ h \in Kids(tree', near)
                ELSE mine \cap InTree(tree)' = {}]_iovars

(* hwloc.h says of next_cousin: "Next object of same type and depth".  The *)
(* pointers that hwloc_connect_levels follows were never reset, so after a *)
(* restriction they lead to objects that were freed.                       *)
CousinsExist == Loaded => LevelsListed
=============================================================================
