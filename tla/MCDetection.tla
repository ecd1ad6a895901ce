----------------------------- MODULE MCDetection -----------------------------
(* A small machine for TLC, with all that a backend may say of it.         *)
EXTENDS Detection

Object1(type, level, os_index, cpuset, nodeset) ==
    [type |-> type, level |-> level, os_index |-> os_index, cpuset |-> cpuset,
     nodeset |-> nodeset]
PU(i) == Object1("PU", 0, i, {i}, NULL)
Node(i, cpuset) == Object1("NODE", 0, i, cpuset, {i})
Other(type, level, i, cpuset) == Object1(type, level, i, cpuset, NULL)

DetectIds == {Root} \cup DOMAIN Input

(* Objects that nest, that are described twice and that cross each other,  *)
(* nodes without processors, a group of them, and groups that share them.  *)
DetectInput ==
    [node0 |-> Node(0, {0, 1}), node2 |-> Node(2, {2}),
     node1 |-> Node(1, {}), node3 |-> Node(3, {}),
     group |-> Object1("GROUP", 1, -1, {0, 1}, {0, 1, 3}),
     gmore |-> Object1("GROUP", 1, -1, {2}, {1, 2, 3}),
     gmem  |-> Object1("GROUP", 0, -1, {}, {1, 3}),
     board |-> Other("GROUP", 0, -1, {0, 1, 2}),
     sock0 |-> Other("SOCKET", 0, 0, {0, 1}), sock1 |-> Other("SOCKET", 0, 1, {2}),
     again |-> Other("SOCKET", 0, -1, {0, 1}), cross |-> Other("CACHE", 2, -1, {1, 2}),
     l2    |-> Other("CACHE", 2, -1, {0, 1}), l1 |-> Other("CACHE", 1, -1, {0}),
     pu0   |-> PU(0), pu2 |-> PU(2)]

Whole == [known |-> {}, online |-> AllCpus, allowed |-> AllCpus, allowed_nodeset |-> AllNodes]
OneMachine == {Whole}
=============================================================================
