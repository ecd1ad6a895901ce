# TLA+ models of hwloc

This directory holds TLA+ models of hwloc 1.4.1, the library that discovers
the hierarchical topology of a machine, with TLC configurations that check
them on small instances and TLAPS proofs of what holds for every instance.

Run TLC with `tlc -config <run>.cfg <module>` (the table of runs names the module),
and the proofs with `tlapm` on `BitmapProofs.tla`, `BitmapQueryProofs.tla`,
`BitmapStringProofs.tla`, `ProcBindProofs.tla`, `LifecycleProofs.tla`, `BindingProofs.tla`, `DetectionProofs.tla` and
`MatricesProofs.tla`.
`PROJECT.json` lists the runs, the mutants that show that every property can fail,
the source lines every definition models, the disagreements found and the hazards
the properties are for.

## The system

hwloc is a C library without threads of its own, and a topology must not be used
by two threads at once while it changes. Most of what makes it hard is the number
of ways in which a tree can be built and then changed: backends describe a machine
in the order the system lists it, objects are described twice or contradict each
other, processors are offline or not allowed, and the application ignores types,
restricts, inserts, exports and reloads. Concurrency is in one place: on Linux the
threads of a process are bound one by one while they start and end.

| component | state | operations | what makes it correct | modules |
|---|---|---|---|---|
| bitmaps (`src/cpuset.c`) | word array, valid and allocated lengths, `infinite` flag | build, set, clear, ranges, combine, query, iterate, print and read | every operation is the set operation of its name, for finite and infinite sets and under aliasing; what is printed is read back | BitmapSpec, Bitmap, BitmapStrings |
| object tree (`src/topology.c`) | objects with seven sets, ordered lists of children | compare, insert by cpuset or parent, merge, unlink | the tree is the containment order of the sets; nothing is lost | ObjTree, Detection |
| discovery stages (`src/topology.c`) | the tree, `levels` | propagate sets, remove, merge, connect | sets mean what `hwloc.h` says; levels partition the objects | Discovery |
| topology calls (`src/topology.c`) | flags, ignored types, the tree | load, restrict, insert Misc | every call keeps the above, in any order | Topology |
| lifecycle and backends (`src/topology.c`) | `backend_type`, `is_loaded`, `is_thissystem`, hooks, what a backend holds | init, choose a backend, load, reload, destroy | everything is released once; hooks are those of this machine only | Lifecycle |
| binding (`src/bind.c`, hooks in `src/topology-*.c`) | the kernel's bindings, memory blocks | set and get processor and memory bindings, allocate, free | bindings hold and are read back; memory is released the way it was allocated | SystemBind, Binding |
| Linux process binding (`src/topology-linux.c`) | threads, their bindings, the lists of a call | bind, ask, last location, for all threads | no thread is missed, none that is gone counts | ProcBind |
| distances (`src/distances.c`) | list of matrices by OS index, matrices on objects | set, convert, group, restrict, ask | matrices follow the objects they index; groups are connected | Matrices, Distances |
| traversal (`src/traversal.c`, `helper.h`) | none | find objects by type, depth, cpuset, kinship; distribute | agrees with a plain search of the tree | Traversal |
| PCI (`src/topology-libpci.c`, I/O parts of `topology.c`) | bus hierarchy, I/O levels | scan, sort, attach, filter, list, restrict | the hierarchy of the buses, near the right processors | IODevices |
| synthetic (`src/topology-synthetic.c`) | a description | parse, build | the levels that were described | Synthetic |
| XML (`src/topology-xml.c`) | a document, the buffer of its reader | export, import | import of an export is the same topology | XML |
| tools (`utils/`) | none | compute, bind, distribute, draw | location arithmetic | none |

Backends call the insertion of the tree; insertion and every stage compute
with bitmaps; the load runs the backend, the distances, the stages and libpci;
restrict and Misc insertion change a tree that the application, the levels, the
I/O lists and the distances point to; what a load leaves behind decides which
hooks the binding calls reach.

## Modules

The composition: Bitmap justifies that all other modules use TLA+ sets. Topology
EXTENDS Discovery and Detection, which both EXTEND ObjTree; Traversal EXTENDS Topology with questions;
Distances (with Matrices), IODevices, Synthetic and, on top of that, XML add a component
each to the calls of Topology. Binding EXTENDS SystemBind, which EXTENDS Lifecycle. ProcBind
stands alone. The MC modules define the instances.

**BitmapSpec** is what `bitmap.h` promises: a handle denotes a set, and each
call is the set operation of its name. Indexes are observed in a finite
`Universe` whose last word stands for the infinite tail. The open ranges of
`set_range` and `clr_range` are specified as loosely as the code behaves: they
may start too low, where nothing differs above.

**Bitmap** models `cpuset.c` word by word. A word is the set of its bits that
are 1. `sets[h]` is the structure a pointer refers to: words, valid length,
allocated length, flag. The operators named as in the code (`set_range`,
`andnot`, `next`, ...) give the structure a call leaves or the value it
returns; the actions apply them to any handles, equal ones included. A call
that would exceed `MaxUlongs` words is not taken: that is the only bound.
Allocation does not fail. `QueriesExact` leaves out the cases in which the code does not
answer for the sets: `intersects` and `isincluded` of two infinite bitmaps, `compare_first`
of an empty and an infinite one.

**BitmapStrings** adds the three formats. A string is the sequence of what its
separators delimit (groups, digits, ranges); the widths of groups and digits are
constants, and divide a word. The list format is printed and read by loops, a range a round.
`Sscanf`, `ListSscanf` and `TasksetSscanf` are actions: they fill a handle
from what was printed of another, on top of whatever was there, and `SscanfFails` is
the exit for a malformed string.

**ObjTree** has no variables: a tree is a record of the root, the fields of the
objects and their lists of children. `Stops`, `Containers`, `LastCur` and
`Place` are the scan of the children, the recursion and the relinking of
`hwloc___insert_object_by_cpuset`; `insert_object_by_cpuset` is the whole call
with the update of the root that precedes it. `os_level` is -1 in every object of
the model; names are numbers, compared as `strcmp` compares strings; the
attributes a merge copies beyond index and name do not influence any property.
The last index of `AllCpus` and `AllNodes` stands for everything beyond, so a set
that holds it is infinite.

**Discovery** gives each stage of `hwloc_discover` as an operator on trees, in the
code's order (`tweak`, `finish`), and `connect_levels`. The root is the `sys` of
the stages, as it is for every backend of one machine. Total memory and
`symmetric_subtree` are left out: no property here reads them.

**Detection** is the part of a load in which a backend describes the machine: `tree` is
the topology, `todo` what the backend has not yet inserted, `Input` all it may insert.
`BeginDetection` clears and creates the root, each `InsertDetected` is one insertion, in
any order, with any subset of the objects that are not PUs; groups of NUMA nodes come
when the backend is done, as `hwloc_group_by_distances` makes them. In `DetectSpec`
detections follow each other, with nothing done to the tree they leave;
`OpenDetectSpec` leaves open what is done to it. It is a module of its own because the stages that follow are recursive operators, out of reach of proofs.

**Topology** is the whole state machine: `ignored` and `whole` are the configuration,
`levels` the arrays of the levels. `Load` and `Insert` are the steps of Detection, and
`Discover` is the rest of the load, with its `abort()` when the root is removed.
`TopologyRestrict`, `InsertMiscByCpuset` and `InsertMiscByParent` are one step each,
refused calls changing nothing.

**Traversal** has the questions as operators over `tree` and `levels`, written as the
loops of the code run (greedy covers, rings of ancestors, chunks of threads), and
invariants that compare them with plain definitions. Misc objects are in no level:
their depth is the largest unsigned number, as in the code.

**Lifecycle** reduces what a load finds to the sets of its root and keeps the rest of
the handle: the backend and what it holds (a descriptor, a document, a string),
`is_loaded`, `is_thissystem`, flags, the table of hooks and whether the tree exists.
Every function of `topology.c` that a call goes through is an operator on that
record. `EnvironmentBackend` is the order in which `hwloc_topology_load` reads the
variables `HWLOC_FSROOT`, `HWLOC_XMLFILE`, `HWLOC_THISSYSTEM` and their FORCE forms.
A use of a freed tree sets `fault` and ends the behaviour.

**SystemBind** has the binding functions of Linux, AIX, OSF, Solaris, Windows,
FreeBSD and HP-UX, over one record of what the kernel keeps (external
calls either work or are refused). AIX (`R_PROCESS` and `R_THREAD`) and Windows
(`SetProcessAffinityMask` and `SetThreadAffinityMask`) keep one set for the process, `k.proc`,
and one for the thread, `k.aff`; a function has the name of its hook as an argument and reads
or writes the one it hands to the kernel. A thread is bound inside its process only, and when
the process is bound the thread follows it or keeps the part of its own set that is inside:
the model takes both. The masks of Windows are cut to `ULongBits` where they are set and where
they are read. Of a mask with `MPOL_PREFERRED`, which is what BIND without STRICT becomes,
Linux keeps the first usable node (`Kept`). **Binding** has `bind.c`: the checks and extension
of sets (`hwloc_fix_*`), the choice of the hook by flags, cpuset and nodeset forms,
allocation with its fallbacks, and release, by `hwloc_free` and by the `free` of
`hwloc_alloc_membind_nodeset` when plain memory could not be bound (`FreedPlain`). `asked`
remembers what was last bound, of the thread or of the process (`Whom`) and whether with
STRICT, `block` how the one block of memory was allocated.

**ProcBind** is `hwloc_linux_foreach_proc_tid` with its three callbacks, one system
call per step, interleaved with threads that start others, end, and are bound by
single calls between. A directory is read entry by entry, in the order of
identifiers. `seen` has the threads that were alive when the last reading began, and
`found` where the present pass found each thread; it is emptied when a list is taken, not by
the index test with which the callback starts the result. The module assumes that identifiers are not reused during a call and that
nobody else binds the threads meanwhile.

**Matrices** has the list of distance matrices alone: where each matrix comes from, what is
cut out of it when indexes have no object, and the groups that one gives. Of the tree it
sees the answers of the lookup of objects by type and OS index only, and these are
any function in `Lookups`, or NULL for a topology without cpusets. `asked` is a history: the
matrix that was forced for a type and, in `left`, the indexes that every conversion since has
found. It is a module of its own for the reason that Detection is one.

**Distances** puts that list beside the tree. Its three steps have the steps of Matrices as
conjuncts, with `Lookup` of the tree before and after the stages, so every step of `DSpec` is
one of `MSpec` or leaves the list alone. It adds the groups that are inserted into the tree and
the matrices by logical index that objects get. A load is one step, with the insertions in
the order `Order`. Quotients are pairs. `fault` is set where the code reads a freed group or
writes outside a matrix, and `LatencyAsGiven` claims nothing after that.

**IODevices** splits a load at libpci's scan: the stages before it are one step, each
device that is found is one step, in any order, and the end of the load is one step
(bridge depths, OS devices, host bridges and where they are attached, the filters,
the levels). `next_cousin` is a variable of its own because the code does not reset it.

**Synthetic** is the reading of a description, given as its items, into types,
arities and depths, and the insertion of the objects, the lowest first. **XML** loads a
machine or a synthetic topology, lets the application change it, exports it and loads
the result with the reader on libxml2 or hwloc's own. A document is a record of
attributes in order and of elements; bitmaps and numbers are values because
`StringsReadBack` covers the one and the other are printed in full, but names and
values the application chooses are of the kinds the readers tell apart (plain,
escaped, beginning with a newline, empty).

## Runs

| run | module | instance | shows |
|---|---|---|---|
| `bitmap_words` | MCBitmap | 1 bitmap, 3 words of 2 bits, 1 allocated at first | `ImplementsSets`, `ModifiersExact` |
| `bitmap_queries` | MCBitmap | 2 handles, 2 words of 2 bits, groups and digits of 1 bit | `QueriesExact`, `StringsReadBack`, `CombiningExact` |
| `topology_detect` | MCDetection | 16 objects, 3 processors, 4 nodes (2 of memory only), 3 groups of nodes, every order | `Nested`, `ChildrenInOrder`, `RefusedForCause` |
| `topology_load` | MCTopology | 10 objects, 5 processors, 4 machines, both flags, sockets ignored | `SetsSound`, `LevelsSound` |
| `topology_live` | MCTopology | 8 objects, 2 machines, 2 Misc objects, 4 cpusets, both flags of restrict | `SetsSound`, `LevelsSound`, `LookupsExact`, `RelativesExact`, `DistributeEven`, `RestrictExact`, `MiscAnnotates` |
| `calls` | MCBinding | 8 systems, 5 environments, 4 processors on 2 nodes, a node of memory only, one not allowed, a foreign topology with another processor, 2 binding calls between any other calls | `ClearedOnce`, `HeldByBackend`, `NoForeignHook`, `BoundInside`, `AnswerIsTrue`, `MembindReadBack`, `ReleasedAsAllocated` |
| `procbind` | ProcBind | 3 threads, 3 processors, one not allowed | `SetReachesAll`, `GetCoversAll`, `GetAddsNothing`, `LastLocations`, `Returns` |
| `distances` | MCDistances | 7 objects, 11 matrices, 3 environment strings, 4 calls | `LatencyAsGiven`, `UserMatrixWins`, `GroupsConnected` |
| `io` | MCIODevices | 7 PCI objects in 3 hierarchies, all flags, 3 cpusets, restrict with and without `ADAPT_IO` | `BusTreeExact`, `IoKept`, `IoLevelsExact`, `LocalityExact`, `IoTogether` |
| `xml` | MCXML | 9 objects, 2 changes before the export, descriptions of up to 3 levels | `RoundTrip`, `ReadsExported`, `SyntheticExact` |
| `alloc_strict` | MCBinding | Linux | a disagreement, below |
| `io_restrict` | MCIODevices | as `io` | a disagreement, below |

What the properties say, in short:

* `ImplementsSets` is the refinement of BitmapSpec; `ModifiersExact` and `CombiningExact`
  fix each call to its own operation. `QueriesExact` and `StringsReadBack` are over all
  pairs of reachable bitmaps.
* `Nested`, `ChildrenInOrder`, `RefusedForCause`: whatever the order of the backend, among
  the objects with processors the tree is the containment order; children are contained
  in their parent, apart, and sorted; only what crosses or repeats is refused, and memory
  without processors within two objects that are apart.
* `SetsSound`: the seven sets of every object are what `hwloc.h` says, after the stages of a
  load and after any restrictions and Misc insertions. `LevelsSound`: every
  object is in one level, deeper than those above it. `RestrictExact` and `MiscAnnotates`
  are action properties: what a step may not do to the rest.
* `LookupsExact`, `RelativesExact` (`KinshipExact` and `ClosestNearest`), `DistributeEven`: the loops of
  `traversal.c` and `helper.h` against plain searches, in every state that restrict and
  Misc insertion reach.
* `ClearedOnce`, `HeldByBackend`: ownership over any sequence of calls, unless a load
  failed. `NoForeignHook`: a handle loaded from elsewhere does not bind this machine.
* `BoundInside`, `AnswerIsTrue`, `MembindReadBack`: the bindings of the kernel, what was
  asked and what is answered agree. An answer is where the thread runs if the hook asks for
  the thread or the kernel has one set only; that of a process covers it. A memory binding is
  read back through the hooks that ask for what was bound. `ReleasedAsAllocated`: no `free` of
  mapped memory and no `munmap` of allocated memory, at either place that releases it,
  unless a reload changed the hooks in between.
* `SetReachesAll`, `GetCoversAll`, `GetAddsNothing`: what a successful call about a process
  says of the binding of its threads. `LastLocations`: every thread that was there when the
  last reading began and still is has been found in the last pass and is reported where
  it was, and no processor is reported but for such a thread. `Returns` is the liveness.
* `LatencyAsGiven`: `hwloc_get_latency` returns what was given for the OS indexes of two
  objects, after cuts, restrictions and renumbering. `UserMatrixWins`: a forced matrix
  stays the only one of its type, with exactly the objects that every conversion has found
  and the distances given for them. `GroupsConnected`: groups are joined by minimal distances.
* `BusTreeExact`: whatever the order of the scan. `IoKept`: the flags select what stays.
  `IoLevelsExact`, `LocalityExact`: devices are listed, and near their processors.
  `IoTogether`: a restriction leaves a hierarchy as it is, moves it as a whole to the nearest
  ancestor that is left (`ADAPT_IO`) or removes it as a whole (without), the Group of a host bridge excepted.
* `RoundTrip`, `ReadsExported`: exported and loaded again, by either reader, with the
  exceptions listed as operators before them. `SyntheticExact`: what was described.

Bounds. Two bits per word and three words give ranges within a word, across
neighbouring words and across a whole one, indexes beyond the valid words, and a
reallocation that is needed and one that is not (`InitialUlongs`). Two handles are every
aliasing of a call with three arguments, up to which of two equal ones is the result;
one-bit groups and digits make words of several pieces. The
objects of `topology_detect` have all five outcomes of `hwloc_obj_cmp`, by cpuset
and by nodeset. After that, the order of insertion is not the question: in
`topology_load` and `topology_live` the constraint `PUsFirst` has the PUs come
first, in order, and the other objects in any order. Their machines have
interleaved processors, a processor without PU, offline and disallowed processors
and nodes, a node without processors, and one where nothing is allowed. The last
is why `Aborted` is a state: after `abort()` the program has ended.

In `calls` the bound `MaxCalls` is on binding calls only; loads, reloads and
backend changes are unbounded, so every table of hooks meets every pair of binding
calls. The nodesets asked for are a usable node, two of them and one that is not allowed, that
one alone, and a node the machine does not have. Three threads in `procbind` are the caller, one that it has listed and one that
is created meanwhile, with as many ending; the proofs are for any number. In `distances` four calls
are a matrix, a load, a restriction or another matrix, and a reload; its matrices have
indexes without objects, no index with one, a duplicate, an order other than the logical
one, and graphs on a path that visits the objects out of order, from a single edge to the
whole path. In `io` bridges are behind
bridges, a host bridge's processors are those of an object, of none, or contradicted
by the environment; one of them gets a new Group, which a restriction empties. No Group is
refused. In `xml` two changes are enough for each pair of annotations and
restrictions before an export.

`calls`, `procbind`, `distances` and `xml` do not check deadlock: a destroyed handle, a
process without threads, the bound on the calls and a finished import may stop.

Fairness. Only `ProcBind` needs it: `WF_vars(CallStep)` says that the caller, which runs
ordinary code and system calls that do not block, goes on. Threads of the process owe
nothing. `MaxTid` stands for the assumption the code needs as well: a process that
creates threads faster than the call lists them would keep it busy for ever. All
other calls are one step or end because their loops are bounded by the tree.

### Disagreements

Each of these runs checks one statement of the documentation or a comment, and TLC
shows a behaviour of the code that contradicts it.

| run | what happens |
|---|---|
| `alloc_strict` | `hwloc_linux_alloc_membind` looks for STRICT in `policy`, so a strict allocation that cannot be bound returns unbound memory and others fail |
| `io_restrict` | `append_iodevs` never resets the cousin pointers, so after a restriction I/O levels list freed objects |

The passing properties exclude these cases by name. Other places where the code does
not do what a document or comment says, or what one would expect; the models follow
the code, and properties exclude the cases they would be violated by:

* Bitmaps: `set_range(b, -1)` with `b` beyond the valid words also sets the indexes
  between them and `b` (`cpuset.c:749`), so the list `0-63,65-` is read as full; two
  infinite bitmaps are said not to intersect (`cpuset.c:899`); `isincluded` stops at the
  words of the smaller array (`cpuset.c:912`); `compare_first` of an empty bitmap and an
  infinite one whose words are empty puts the infinite one last.
* Topology: restrict removes NUMA nodes without processors, and keeps their Misc
  children without `ADAPT_MISC`; ignoring a level leaves children unsorted, against the
  assertion of `hwloc_topology_check`; `allowed_cpuset` and `online_cpuset` of a Misc object
  are its whole cpuset; `hwloc_connect_levels` looks for the topmost type in one pass,
  which can settle on a type that another pending object is above of.
* Detection: memory without processors compares by nodesets, which sockets, caches and
  cores do not have yet. A group of nodes that includes such memory may be placed below an
  object although the memory is not, and a group of such memory that is within two groups
  whose processors differ is refused.
* Traversal: `hwloc_get_type_or_below_depth` of SYSTEM and `_or_above_depth` of MISC run off
  the levels; `hwloc_get_closest_objs` of a Misc object with a cpuset indexes beyond them;
  `hwloc_get_largest_objs_inside_cpuset` dereferences NULL for a child without cpuset
  (`traversal.c:127`); the common ancestor of a Misc object and its own child is above
  both; `hwloc_distribute` does not split what is below a Misc object although "until" is
  INT_MAX, because its depth is larger.
* Lifecycle: after a failed XML load destroy and load work on a tree that is gone; the
  hooks for the last processor location are never reset; `is_thissystem` is not
  restored when a backend is left; a reload of a custom topology loses its contents.
* Binding: `hwloc_alloc` on Linux returns MAP_FAILED, not NULL; HP-UX drops the previous
  binding before the new one can fail, Solaris keeps an old `processor_bind` when it binds
  to nodes; Windows keeps only the lowest bits of a mask and tells no more of one; on Windows,
  where there is no call that asks for the thread, and through the process hooks of AIX, a
  binding of the thread is not seen in the answer; BIND of several nodes without STRICT is
  `MPOL_PREFERRED` on Linux (`topology-linux.c:1001`), of which the kernel keeps one, so it
  is read back as a binding to one node; a reload between an allocation
  and its release changes the routine that releases it.
* Linux processes: when the process ends between the opening of its directory and the
  listing, the get calls succeed and leave the caller's bitmap as it was; a callback
  that fails leaves some threads bound.
* Distances: "keep initial parameters" (`distances.c:26`) holds only while objects are found:
  an index that one load or restriction does not find is gone for the next load, and a
  forced matrix with no object left is dropped, so that the backend's takes its place at the
  next load (`asked.left` says how much of a matrix `UserMatrixWins` is about); the closure of the minimal distance misses the chain 0-3-1-2
  (`distances.c:723`; `GroupsConnected` says that groups are connected, not that they are
  maximal); a matrix of part of the objects below what covers them is misread by
  `hwloc_get_latency`; a reload after a restriction can write outside a matrix
  (`distances.c:575`); a refused group is read after it was freed (`distances.c:865`);
  a matrix of the backend is appended again on each reload.
* I/O: without flags `hwloc_drop_useless_io` drops the I/O children of the root only,
  although the comment at `topology.c:1476` says "we drop everything". A Group made for a host
  bridge has a cpuset but no complete_cpuset (`topology-libpci.c:569`), so restrict takes it
  for unmodified (`topology.c:1383`) and does not visit its children: when the Group goes and its
  parent stays, the host bridge and its devices stay too, without `ADAPT_IO`, although
  `hwloc.h:1030` says "If this flag is not set, I/O devices and bridges are removed when their
  parents are removed". In `io`, restricting to {2, 3} moves the host bridge of bus 5 to the
  first node; `IoTogether` excludes the case as `NewGroup`. Once an ide directory was read, the path is not restored (`topology-libpci.c:288-308`),
  so the disks of a second one are not found: `IoKept` requires the OS devices of the other
  classes only.
* Synthetic: the PU level need not be the last; a zero arity is accepted and the load
  then aborts.
* XML: of several matrices only the last is imported (`topology-xml.c:816`); hwloc's own
  reader stops at any escaped character (`topology-xml.c:515`) and destroys its buffer, so
  a second load from it fails; a Misc object inserted by parent makes the import abort;
  I/O children of the root, Groups with a single child and Misc objects with an empty
  cpuset are lost; a `latency_base` printed as 0.000000 loses its matrix.

## Proofs

`BitmapProofs` proves for every set of handles, every word width and every bound
(up to the 2^26 words an unsigned index can reach), from `SizeAssumption` (sizes
are positive) and `NullAssumption` (NULL is not a bitmap):

* `TypeCorrect`: `Spec => []TypeOK`;
* `Implements`: `Spec => ImplementsSets`, the refinement of BitmapSpec;
* `ModifiersCorrect`, `CombiningCorrect`: each call is the set operation of its own
  name. Refinement alone would let a wrong result pass for that of another call.

`TypeOK` is inductive as it stands: it fixes the domain of the words to the valid
length and bounds that by the allocation, which is what the operators need. The
argument goes from words to sets: `isset` of an index is a bit of `READULONG`
(integer division by the word width has its own lemmas); two bitmaps denote the
same set if they read the same; growing an array does not change what it reads;
each operator is then described by what it reads. `BecomesMaps` lifts an operator
to the handles, `UnaryMaps` and `BinaryMaps` treat the actions one by one.

`ProcBindProofs` proves for any number of threads, any processors and any sets, from
`TidAssumption` and `SetsAssumption`, that `Spec` keeps `IInv` (`Invariance`) and with it
`SetReachesAllThreads`, `GetCoversAllThreads`, `GetAddsNothingElse` and
`LastLocationsFound`. None of the four is inductive: at the return they speak of all live
threads, while the call only ever saw a list. `IInv` adds

* `Listed`: identifiers in the lists were given out, so a new thread is in none;
* `ReadSoFar`: a reading has every live thread up to the directory position, because
  later threads have larger identifiers;
* `Applied` and `AllDone`: the threads of the list are done as far as the callbacks got,
  and at the return so are all live ones. A thread that starts has the binding of its
  creator: at the end of an unchanged reading every live thread was listed and
  done, and from then on creators are done;
* `SeenAgain`, `FromListed`: what the result holds comes from listed threads, and those
  were alive when the last reading began;
* `Fresh`: before the first callback of a pass nothing was found, and after it what was found
  is in the result. This is what makes the index test of the callback right: the first thread
  of every list replaces what an earlier pass, or the caller, left.

There is one lemma per action, with a step per conjunct that the action can disturb.

`BitmapQueryProofs` adds `QueriesCorrect`: `Spec => []QueriesExact`, for the eleven queries
of `cpuset.c` and any two handles. No more than `TypeOK` is needed of the state; the work is
in the lemmas. A query visits the valid words and the flags only: `Reads` and `PairReads`
say that what lies beyond them is all flag, and `SameWords` that what is read decides what is
denoted. The queries that find an index rest on `LowestOfWords` and `HighestOfWords` (the least
index of a set is the least bit of its lowest word that is not empty), `CompareExact` on the
highest word that differs, and `WeightCounts` on an induction over the words, made as the
contradiction of a least counterexample because the provers cannot instantiate an
induction theorem.

`BitmapStringProofs` proves `StringsCorrect`: `StringsSpec => []StringsReadBack`, for every bitmap
that is printed, every bitmap it is read into, every word width and every width of groups
and digits that divides it (`GroupAssumption`; 32 and 4 of 64 in the code). Reading a string
leaves a bitmap (`StringsTypeCorrect`), so that `QueriesExact` and `CombiningExact` hold of
the client with strings too (`StringsQueriesCorrect`, `StringsCombiningCorrect`).

* The hwloc and taskset formats are one argument: `PieceBit` says which bit of which piece an
  index is, `TopPieceIs` that the pieces left out on top are empty, `AssembleIs` that the words
  put together from pieces have the bits of the pieces, the first word in part; what remains
  beyond is the flag.
* For the list, `Printing` is the invariant of the printing loop: each range printed is `Closed`,
  that is, from the end of the range before it to its own end the bitmap has that range
  and nothing else. It ends at a later valid index in each round but the last, so the
  number of rounds is bounded (`ListIs`), and after the last round either nothing is left
  (`NoMore`) or the last range is `Open`. `EndIs` is the delicate part: the end of a range is
  found in the complement, which is infinite where the bitmap is not. `ReadInv` is the
  invariant of the reading loop: after i ranges the new bitmap has the indexes up to the end
  of the i-th, and no more words than these need, which is what decides whether an open
  range is read exactly (`OpenRangeFrom`).

`LifecycleProofs` proves `NeverClearedTwice`, `HeldExactly` and
`HooksOfThisSystemOnly` for any systems, environments and binding calls in between:
Lifecycle has no recursion and its calls are functions of one
record. `LInv` (`HandleInvariant`) strengthens `ClearedOnce` and `HeldByBackend`: what
is held is what the backend holds also after a fault, and a live handle has a root and no
fault unless a load failed. Without the last part destroying a handle could clear a
tree that is gone. `HInv` (`HookInvariant`) is about the hooks: a handle that is not loaded
has none, except for the last processor location, which nothing resets; a loaded one has
either all the hooks of its own system or all the substitutes that do nothing, plain
allocation then keeping its default; and `is_thissystem` without being asked for means that
the backend looks at this machine. The lemmas follow the calls (`RenewSound`, `ExitSound`,
one per init function, `EnvironmentSound`, `DiscoverSound`, `LoadSound`, and their `Quiet`
counterparts), so that a call which runs several of them is a composition of lemmas;
`StepInvariant` and `StepHooks` have one case per call.

`BindingProofs` proves `StaysInside`, `AnswersTruly`, `ReadsBack` and `ReleasedRight`, the
four properties of the binding calls, for every machine, all arguments and any number of
calls. `BInv` (`BindingInvariant`) adds to the types

* `OneBinding`: only Solaris has a second kind of processor binding, so elsewhere the
  affinity is where the thread runs;
* `InProcess`: on AIX and Windows the set of the thread is inside that of the process, so an
  answer about the process covers the thread;
* `CpuKept`: the affinity, not only the processors the thread runs on, stays within what
  was asked, and so does the set of the process if it was the process that was bound: memory
  bindings of AIX and Windows replace them, and forget what was asked;
* `MemKept`: there is a set of nodes that stands for what was asked and that the kernel of
  this system holds in its own way (`Holds`): on Linux as the mask of the mode that policy and
  STRICT give, on AIX and Windows as the processors of the thread or of the process, on
  Solaris as locality groups. The set is not what was asked: nodes without
  processors or not allowed come and go in the conversions between cpusets and nodesets;
* `BlockKept`: the block is of the kind that goes with the release hook the handle had,
  although any handle may release it. That the `free` of `hwloc_alloc_membind_nodeset` meets
  heap memory only is because no system has an area hook and an allocation hook of its own
  without `alloc_membind` (`AllocPairs`).

It rests on `HInv`: a call that reaches a hook of the system reaches one that this system
stores, and an allocation hook never comes without its release hook. `CpubindOutcome`,
`LevelOutcome` (thread or process), `MembindOutcome` and `AreaOutcome` say system by system what a hook does to the kernel,
`FixCpubind` and `FixMembind` what `bind.c` makes of the argument before that. The assumptions:
`SystemsAssumption` (the systems are those that `configure` knows), `MachineAssumption`
(usable processors and nodes are among all of them, which `SetsSound` shows of a load),
`NodesAssumption` (nodes have objects and share no processors, which `Nested` shows) and
`ArgsAssumption` (policies are those of `hwloc.h`; others are refused).

`DetectionProofs` proves `DetectNested`, `DetectOrder` and `DetectRefusals` for any number of
objects, any machine and every order of the insertions. The three properties speak of
`Below`, paths of any length, and of the whole tree; an insertion looks at one path
and one list of children. `DInv` (`DetectInvariant`) therefore is local, and during a
detection (`Detecting`) says of the tree:

* `Linked`: the objects of the tree other than the root are each in some list of children,
  without duplicates, and what is not in the tree has no children;
* `Ranked`: there is a numbering of the objects that decreases from parent to child.
  That no object is below itself cannot be said of one list, and every recursion of the
  model, `Below` and the walk of the insertion, is defined because of it;
* `Contained`, `Apart`: a child is contained in its parent, two children of one object have
  nothing in common. With transitivity among objects with processors
  (`IncludedTrans`, `ApartBelow`), that gives `Nested` for paths of any length;
* `Ordered`: the lists are sorted. Insertion puts an object before the first child that
  begins after it, which is right only in a sorted list; what it adopts is sorted because
  it is taken out of one;
* `Refused`: what is neither in the tree nor still to come has its cause in the tree. No
  object leaves the tree and none changes what it compares by (`Objects`), so the
  cause stays.

`WalkEnds` is the recursion of `hwloc___insert_object_by_cpuset`: it ends at an object of the
tree that contains what is inserted, where no child does. `PlacedShape` is the relinking:
it gives the new object a rank by doubling those of the others, and shows that what
it adopts, what it stands beside and what it is put below fit. `BelowContained`, `BelowRoot` and
`BelowApart` go from the local facts to `Below`. Recursive functions are shown to exist, and
inductions over the tree are made, by a least counterexample in the rank.
`DetectAnywhere` carries the three over to any specification that implies
`OpenDetectSpec`. Topology is one: its `Load` and `Insert` are the steps of Detection, and each
of its other steps ends outside a detection.

The assumptions are about what backends give. `InputAssumption`: Misc and I/O objects are
not inserted by cpuset, and objects whose nodesets are nested have nested
cpusets, since only NUMA nodes and the groups made of them have nodesets when they are
inserted, and `hwloc__groups_by_distances` joins the cpusets of a group along with its
nodesets. `NullAssumption`: NULL is no object and no set. `IndexAssumption`: there is a
processor.

`MatricesProofs` proves `ForcedMatrixStays` and `GroupsAreConnected`, that is `UserMatrixWins` and
`GroupsConnected`, for all matrices and strings, all answers of the lookups, and any sequence of
loads, reloads, restrictions and new matrices. `MInv` (`MatricesInvariant`) says of the list that

* every element of the list is well formed and has at least the distances its indexes need;
  what was asked for is a matrix too, and names no index twice;
* for each type that was asked for there is one element of the type, it is forced, names
  exactly `asked[type].left`, and is a `Sub` of what was given: an embedding takes its indexes to
  indexes of that and each of its cells to a cell. `Sub` and not `SameValues`, because it is
  transitive (`SubOfSub`), while `SameValues` looks for an index in the whole matrix. That it is forced is
  what keeps the backend's matrix out (`BackendSet`).

Within a load forced elements have no objects until the conversion (`Unlooked`): one that kept
its objects would not be looked up again.

The core is `ShiftMatrixIs`: the chain of `memmove`s of `hwloc_distances__finalize_os`, which
moves pieces of lines over each other within one array, leaves the matrix without line and
column i. `Moved` says which cells are in place after the first q of them; `LinesMoveOn` takes it
over a run of whole lines. A move writes below what it reads, so no cell is overwritten that a
later one needs. `ConvertNextKeeps` and `ConvertIs` carry it through the loop over the indexes,
`FinalizeKeeps`, `RestrictKeeps`, `EnvKeeps` and `BackendKeeps` through the list. For the groups,
`Growing` says that during the passes the members of the new group are connected and all other
numbers are as before, `ConnectedMore` that one more neighbour keeps the group connected, and
`GroupInv` that the groups finished so far are connected and have more than one member. Nothing is
used of `near`, so the accuracy does not matter. The only assumption is `MatricesAssumption`:
arrays have the sizes that `hwloc.h` asks for, and a string has an index unless it says "none".
The attempt showed that the first form of `UserMatrixWins`, without `left`, was false of the code
in general: see the disagreements.

What stays with TLC, and why:

* `Returns` needs fairness.
* `SetsSound`, `LevelsSound`, `RestrictExact`, `MiscAnnotates`, `LookupsExact`, `RelativesExact`,
  `DistributeEven`: the stages, restrict, the levels and the greedy loops
  are recursive operators over the tree.
* `LatencyAsGiven` goes through those levels; its part about the list is `UserMatrixWins`.
* `BusTreeExact`, `IoKept`, `IoLevelsExact`, `LocalityExact`, `IoTogether`, `RoundTrip`, `ReadsExported`,
  `SyntheticExact`: the bus hierarchy, the lists of I/O objects, the document and the description
  are recursive data, and what is built from them is a tree after the stages.

## Not modelled

* The discovery of the operating systems and of x86: parsing of sysfs, `/proc/cpuinfo`,
  cgroups, kstat, cpuid. Detection takes what they find as its `Input`.
* The duplication of trees into custom topologies, total memory, `symmetric_subtree`,
  arities beyond an unsigned integer, `os_level`; grouping by the distances of an imported
  topology; merging of the infos and distances of two descriptions of an object.
* Two threads of a program with a topology each. They share the static variables of
  `hwloc_linux_find_kernel_nr_cpus` and `_max_numnodes`, where the second may read a value
  that the first is still doubling.
* The tools, the drawing of lstopo, printing of types and attributes: text around the
  calls that are modelled.
* Memory exhaustion, except in the listing of threads: the code checks few of its
  allocations.

## Plan

Done: bitmaps with strings, queries and proofs; the tree and detection with proofs; the
stages and the calls; lifecycle, binding and allocation with proofs; process binding with
proofs; distances with proofs of the list and the groups; I/O; synthetic and XML; traversal and distribution. Worth doing next:

1. The insertion of Misc objects by cpuset into a loaded tree: the invariant of detection
   with Misc objects, which compare by name, and `MiscAnnotates` from it.
2. The stages that are maps over the objects (`collect_proc_cpuset`, `propagate_unused_cpuset`,
   `remove_unused_cpusets`): `SetsNested` of the cpusets, with the folds as recursive functions.
3. The location arithmetic of `hwloc-calc`.
4. Two threads with their own topologies and the static variables they share.
