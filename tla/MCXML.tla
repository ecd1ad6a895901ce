------------------------------- MODULE MCXML -------------------------------
(* A machine with an offline processor, a cache on one side only and a     *)
(* node without processors, small synthetic topologies, and strings of     *)
(* every kind the readers tell apart.                                      *)
EXTENDS XML

Object1(type, level, os_index, cpuset, nodeset) ==
    [type |-> type, level |-> level, os_index |-> os_index, cpuset |-> cpuset,
     nodeset |-> nodeset]
PU(i) == Object1("PU", 0, i, {i}, NULL)
MCInput ==
    [pu0 |-> PU(0), pu1 |-> PU(1), pu2 |-> PU(2), pu3 |-> PU(3),
     node0 |-> Object1("NODE", 0, 0, {0, 2}, {0}), node1 |-> Object1("NODE", 0, 1, {1}, {1}),
     node2 |-> Object1("NODE", 0, 2, {}, {2}),
     l2 |-> Object1("CACHE", 2, -1, {0, 2}, NULL), board |-> Object1("GROUP", 1, -1, {1, 3}, NULL)]
MCOrder == <<"pu0", "pu1", "pu2", "pu3", "node0", "node1", "node2", "l2", "board">>
Ids == {Root} \cup MiscIds \cup DOMAIN Input

Whole == [known |-> {}, online |-> AllCpus, allowed |-> AllCpus, allowed_nodeset |-> AllNodes]
MCMachines == {Whole, [Whole EXCEPT !.online = @ \ {2}, !.allowed_nodeset = @ \ {1}]}
MCCpus == {{0, 2}, {1, 2}}
MCRestrictFlags == {{}, {"ADAPT_MISC"}}

Plain == 1
Amp   == 2
Line  == 3
None  == 4
MCInfos == {<<Plain, Amp>>, <<Line, Plain>>, <<Plain, None>>, <<None, Plain>>}
MCDevices == <<"hb", "dev", "osdev">>
Matrix(type, base) == [type |-> type, base |-> base]
MCMatrices ==
    {<<Matrix("NODE", 1)>>, <<Matrix("PU", 0)>>, <<Matrix("PU", 1), Matrix("NODE", 1)>>}

(* Descriptions of one to three levels.                                    *)
Item(type, arity) == [type |-> type, arity |-> arity]
Arities == {1, 2}
Upper == {Item(type, n) : type \in {UNKNOWN, "GROUP", "CACHE", "SOCKET", "MISC", "MACHINE"}, n \in Arities}
Lower == {Item(UNKNOWN, 1), Item(UNKNOWN, 2), Item("PU", 2)}
MCDescriptions ==
    {<<i>> : i \in Lower} \cup {<<i, j>> : i \in Upper, j \in Lower}
    \cup {<<i, j, k>> : i, j \in Upper, k \in Lower}
=============================================================================
