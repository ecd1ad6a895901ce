----------------------------- MODULE MCTopology -----------------------------
(* Small machines for TLC: what a backend may find on them, and what the   *)
(* application may ask for.                                                 *)
EXTENDS Traversal, MCDetection

Ids == {Root} \cup MiscIds \cup DOMAIN Input

(* Two sockets, which are NUMA nodes too, with interleaved processors, the *)
(* last of which has no PU; a cache on one side only, and a node without   *)
(* processors.                                                             *)
LoadInput ==
    [node0 |-> Node(0, {0, 2}), node1 |-> Node(1, {1, 3, 4}), node2 |-> Node(2, {}),
     sock0 |-> Other("SOCKET", 0, 0, {0, 2}), sock1 |-> Other("SOCKET", 0, 1, {1, 3, 4}),
     l2    |-> Other("CACHE", 2, -1, {1, 3}),
     pu0 |-> PU(0), pu1 |-> PU(1), pu2 |-> PU(2), pu3 |-> PU(3)]

(* A smaller machine of that kind, for the calls after the load.           *)
LiveInput ==
    [node0 |-> Node(0, {0, 2}), node1 |-> Node(1, {1, 3}), node2 |-> Node(2, {}),
     l2 |-> Other("CACHE", 2, -1, {0, 2}),
     pu0 |-> PU(0), pu1 |-> PU(1), pu2 |-> PU(2), pu3 |-> PU(3)]
LiveArgs == {{0}, {0, 2}, {1, 2, 3}, {1, NbCpus}}
LiveFlags == {{}, {"ADAPT_MISC"}}

(* Processors that are offline or not allowed, nodes that are not allowed. *)
SomeMachines ==
    {Whole,
     [Whole EXCEPT !.online = @ \ {0}, !.allowed = @ \ {0, 1, 3}],
     [Whole EXCEPT !.allowed = @ \ {1, 3}, !.allowed_nodeset = @ \ {1}]}
LiveMachines == {Whole, [Whole EXCEPT !.allowed = @ \ {3}]}
NoAllowed == SomeMachines \cup {[Whole EXCEPT !.allowed = {NbCpus}]}

(* The order of insertions is left to the run of the detection: here the   *)
(* PUs come first, in order.                                               *)
PUsFirst ==
    LET pus == {x \in DOMAIN Input : Input[x].type = "PU"}
    IN  phase = "detect" =>
            /\ pus \cap todo # {} => DOMAIN Input \ todo \subseteq pus
            /\ \A x \in pus \ todo, y \in pus \cap todo : Input[x].os_index < Input[y].os_index
=============================================================================
