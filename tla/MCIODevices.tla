---------------------------- MODULE MCIODevices ----------------------------
(* Two NUMA nodes, the second of which is a socket too, and three PCI      *)
(* hierarchies: bridges behind bridges on bus 0, near the second node, a   *)
(* bus near two processors of the first that no object has, and a second   *)
(* domain about which the environment disagrees with sysfs.                *)
EXTENDS IODevices

Object1(type, os_index, cpuset, nodeset) ==
    [type |-> type, level |-> 0, os_index |-> os_index, cpuset |-> cpuset,
     nodeset |-> nodeset]
MCInput ==
    [pu0 |-> Object1("PU", 0, {0}, NULL), pu1 |-> Object1("PU", 1, {1}, NULL),
     pu2 |-> Object1("PU", 2, {2}, NULL), pu3 |-> Object1("PU", 3, {3}, NULL),
     node0 |-> Object1("NODE", 0, {0, 1, 2}, {0}), node1 |-> Object1("NODE", 1, {3}, {1}),
     sock |-> Object1("SOCKET", 0, {3}, NULL)]
MCOrder == <<"pu0", "pu1", "pu2", "pu3", "node0", "node1", "sock">>
MCMachines ==
    {[known |-> {}, online |-> AllCpus, allowed |-> AllCpus, allowed_nodeset |-> AllNodes]}

Device(domain, bus, slot, common, local, osdevs, block) ==
    [bridge |-> FALSE, common |-> common, domain |-> domain, bus |-> bus, slot |-> slot,
     local |-> local, osdevs |-> osdevs, block |-> block]
Bridge(domain, bus, slot, secondary, subordinate, local) ==
    [bridge |-> TRUE, common |-> FALSE, domain |-> domain, bus |-> bus, slot |-> slot,
     local |-> local, osdevs |-> <<>>, block |-> <<>>,
     secondary |-> secondary, subordinate |-> subordinate]
MCPci ==
    [br1 |-> Bridge(0, 0, 1, 1, 2, {3}), br2 |-> Bridge(0, 1, 0, 2, 2, {3}),
     br3 |-> Bridge(0, 0, 3, 3, 3, {3}),
     eth |-> Device(0, 2, 0, TRUE, {3}, <<"eth0">>, <<>>),
     snd |-> Device(0, 3, 0, FALSE, {3}, <<>>, <<>>),
     ide |-> Device(0, 5, 0, TRUE, {0, 1, 7}, <<>>,
                    <<[kind |-> "ide", devs |-> <<"hda">>], [kind |-> "ide", devs |-> <<"hdc">>]>>),
     gpu |-> Device(1, 0, 0, TRUE, {0}, <<"card0">>, <<>>)]
MCHosts == <<"hb0", "hb1", "hb2">>
OtherIds == DOMAIN Pci \cup ToSet(HostIds) \cup GroupIds
            \cup {Fake, "eth0", "hda", "hdc", "card0"}
Ids == {Root} \cup OtherIds \cup DOMAIN Input
(* The environment says where the second domain is.                        *)
MCEnv == (<<1, 0>> :> {2})
AllIoFlags == SUBSET {"IO_DEVICES", "IO_BRIDGES", "WHOLE_IO"}
SomeCpus == {{0, 1, 2}, {2, 3}, {1, 3}}
IoRestrictFlags == {{}, {"ADAPT_IO"}}
=============================================================================
