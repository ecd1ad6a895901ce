---------------------------- MODULE MCDistances ----------------------------
(* Four processors, interleaved over two NUMA nodes and under two sockets  *)
(* of one NUMA node each, so that OS and logical order differ.             *)
EXTENDS Distances

Object1(type, os_index, cpuset, nodeset) ==
    [type |-> type, level |-> 0, os_index |-> os_index, cpuset |-> cpuset,
     nodeset |-> nodeset]
MCInput ==
    [pu0 |-> Object1("PU", 0, {0}, NULL), pu1 |-> Object1("PU", 1, {1}, NULL),
     pu2 |-> Object1("PU", 2, {2}, NULL), pu3 |-> Object1("PU", 3, {3}, NULL),
     node1 |-> Object1("NODE", 1, {1, 3}, {1}), node0 |-> Object1("NODE", 0, {0, 2}, {0}),
     core |-> Object1("CORE", 0, {1, 3}, NULL)]
MCOrder == <<"pu0", "pu1", "pu2", "pu3", "node1", "node0", "core">>
GroupIds == {"g1", "g2", "g3", "g4", "g5", "g6"}
Ids == {Root} \cup GroupIds \cup DOMAIN Input

Whole == [known |-> {}, online |-> AllCpus, allowed |-> AllCpus, allowed_nodeset |-> AllNodes]
MCMachines == {Whole, [Whole EXCEPT !.allowed = @ \ {2}]}

MCOSMatrix == [indexes |-> <<0, 1>>, objs |-> <<"node0", "node1">>, values |-> <<10, 21, 20, 10>>]

(* The symmetric matrices of two distances over four processors where the  *)
(* near ones are neighbours on the path 0-3-1-2.                           *)
Edges == {{0, 3}, {1, 3}, {1, 2}}
GraphMatrix(indexes, E) ==
    [type |-> "PU", indexes |-> indexes,
     values |-> [p \in 1..16 |->
        LET i == (p - 1) \div 4
            j == (p - 1) % 4
        IN  IF i = j THEN 1 ELSE IF {i, j} \in E THEN 2 ELSE 3]]
Graphs == {GraphMatrix(<<0, 1, 2, 3>>, E) : E \in {{{1, 2}}} \cup {D \in SUBSET Edges : Cardinality(D) > 1}}
(* All the values differ; two of the five, and one of the three, indexes   *)
(* have no object; a matrix of one node's processors; one with a duplicate;*)
(* one without any object.                                                 *)
Distinct(type, indexes) ==
    [type |-> type, indexes |-> indexes,
     values |-> [p \in 1..(Len(indexes) * Len(indexes)) |-> 10 + p]]
MCUserMatrices ==
    Graphs \cup {Distinct("PU", <<3, 7, 0, 2, 1>>), Distinct("PU", <<9, 3, 1>>),
                 Distinct("PU", <<1, 1>>), Distinct("NODE", <<1, 5, 0, 4>>),
                 Distinct("NODE", <<4, 5>>),
                 [type |-> "PU", indexes |-> <<>>, values |-> <<>>]}
MCEnvStrings ==
    {[type |-> "PU", form |-> "product", indexes |-> <<3, 0, 2, 1>>, x |-> 2, y |-> 2, z |-> 1],
     [type |-> "NODE", form |-> "none", indexes |-> <<>>],
     [type |-> "NODE", form |-> "list", indexes |-> <<1, 0>>, values |-> <<1, 2, 3>>]}
MCCpuArgs == {{0, 1}, {1, 2, 3}}
OnlyExact == <<0>>
MCFlags == {{}, {"ADAPT_DISTANCES"}}
=============================================================================
