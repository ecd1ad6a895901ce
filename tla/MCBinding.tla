------------------------------ MODULE MCBinding ------------------------------
(* The instance of Binding that TLC checks: four processors on two nodes, one *)
(* of them not allowed, a node of memory only, a node that is not allowed, and *)
(* a foreign topology without NUMA nodes and with a processor the machine does *)
(* not have.                                                                  *)
EXTENDS Binding, TLC

MCMachine == [cpuset |-> {0, 1, 2}, complete |-> 0 .. 3,
              nodeset |-> {0, 1, 2}, allnodes |-> 0 .. 3]
MCForeign == [cpuset |-> {0, 9}, complete |-> {0, 9}, nodeset |-> {}, allnodes |-> {}]
MCNodeCpus == 0 :> {0, 1} @@ 1 :> {2} @@ 2 :> {} @@ 3 :> {}

NoEnv == [force_fsroot |-> "unset", force_xmlfile |-> "unset",
          fsroot |-> "unset", xmlfile |-> "unset",
          thissystem |-> "unset", force_thissystem |-> "unset"]

MCEnvs == {NoEnv,
           [NoEnv EXCEPT !.force_fsroot = "elsewhere", !.xmlfile = "good"],
           [NoEnv EXCEPT !.force_xmlfile = "good", !.thissystem = "1"],
           [NoEnv EXCEPT !.fsroot = "missing", !.xmlfile = "good"],
           [NoEnv EXCEPT !.force_thissystem = "0"]}

MCCpuArgs == {{2}, {0, 1}, {1, 2}, {0, 1, 2}, {9}}
MCCpuFlags == {{}, {"THREAD", "NOMEMBIND"}}
MCNodeArgs == {{1}, {0, 1, 3}, {3}, {5}}
MCMemFlags == {{}, {"THREAD", "STRICT"}, {"NOCPUBIND"}, {"MIGRATE"}}
MCPolicies == {"DEFAULT", "BIND", "INTERLEAVE", "REPLICATE"}
=============================================================================
