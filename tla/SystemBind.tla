------------------------------ MODULE SystemBind -----------------------------
(***************************************************************************)
(* The binding functions behind the hooks, for every operating system, as   *)
(* operators over the kernel's record of the calling, single-threaded       *)
(* process.  The loop over the threads of a Linux process has its own       *)
(* module, ProcBind.                                                        *)
(*                                                                          *)
(*   k.aff   processors the calling thread may run on                       *)
(*   k.proc  processors the process may run on, which AIX and Windows keep  *)
(*           beside those of its threads                                    *)
(*   k.pin   the processor of Solaris' processor_bind, or {}                *)
(*   k.lgrp  Solaris locality groups with strong affinity                   *)
(*   k.mem   memory policy of the process: Linux mode and node mask         *)
(*   k.pages the policies of the pages of one memory area                   *)
(*                                                                          *)
(* A function that ends in a system call has two outcomes: the call works,  *)
(* or the kernel refuses it.  Outcomes are records of the result and k.     *)
(***************************************************************************)
EXTENDS Lifecycle

CONSTANTS
  NodeCpus,    \* cpusets of the NUMA node objects, a function of their os_index
  ULongBits    \* bits of the unsigned long of Windows

\* Every node of the machine has a node object, whose processors are usable
\* ones of the machine and of no other node.
ASSUME NodesAssumption ==
  /\ Machine.allnodes \subseteq DOMAIN NodeCpus
  /\ \A n \in DOMAIN NodeCpus : NodeCpus[n] \subseteq Machine.cpuset
  /\ \A m, n \in DOMAIN NodeCpus : m # n => NodeCpus[m] \cap NodeCpus[n] = {}

VARIABLE k

AllPUs == Machine.complete
Nodes == DOMAIN NodeCpus
CpusOf(ns) == UNION {NodeCpus[n] : n \in ns \cap Nodes}

\* The node objects of the handle's tree.
NodeObjs == Nodes \cap t.sets.allnodes

\* hwloc_cpuset_to_nodeset: the nodes that share a processor with the set.
cpuset_to_nodeset(set) == {n \in NodeObjs : NodeCpus[n] \cap set # {}}

Policies == {"DEFAULT", "FIRSTTOUCH", "BIND", "INTERLEAVE", "REPLICATE",
             "NEXTTOUCH"}

\* The policies whose number has the bit of HWLOC_MEMBIND_STRICT.
StrictBit == {"REPLICATE", "NEXTTOUCH"}

DefaultPolicy == [mode |-> "DEFAULT", mask |-> {}]
Pages == 1 .. 2

FreshKernel ==
  [aff |-> AllPUs, proc |-> AllPUs, pin |-> {}, lgrp |-> {}, mem |-> DefaultPolicy,
   pages |-> [p \in Pages |-> DefaultPolicy]]

Refuse(e) == {[ret |-> e, k |-> k]}
SysCall(next) == {[ret |-> "ok", k |-> next], [ret |-> "EPERM", k |-> k]}

\* External: the process may run on those processors of the set that the
\* machine has; a set without any is refused.
Affinity(set) ==
  IF set \cap AllPUs = {} THEN Refuse("EINVAL")
  ELSE SysCall([k EXCEPT !.aff = set \cap AllPUs])

\* The functions that hand a thread to the kernel; the others hand a process.
OfThread(hook) ==
  hook \in {"set_thisthread_cpubind", "get_thisthread_cpubind",
            "set_thread_cpubind", "get_thread_cpubind",
            "set_thisthread_membind", "get_thisthread_membind"}

\* The systems whose kernel keeps one set for a process and one for a thread.
TwoSets == {"aix", "windows"}

\* External: on those a thread is only bound inside its process, and when the
\* process is bound the thread follows it or keeps a smaller set.
ThreadAffinity(set) ==
  IF set \cap AllPUs \subseteq k.proc THEN Affinity(set) ELSE Refuse("EINVAL")
ProcessAffinity(set) ==
  IF set \cap AllPUs = {} THEN Refuse("EINVAL")
  ELSE {[ret |-> "EPERM", k |-> k]}
         \cup {[ret |-> "ok", k |-> [k EXCEPT !.proc = set \cap AllPUs, !.aff = a]] :
                 a \in {set \cap AllPUs, k.aff \cap set} \ {{}}}

------------------------------------------------------------------------------
(* Processor binding.                                                        *)

linux_set_cpubind(set, flags) == Affinity(set)
linux_get_cpubind(flags) == [ret |-> "ok", set |-> k.aff]

freebsd_set_cpubind(set, flags) == Affinity(set)
freebsd_get_cpubind(flags) == [ret |-> "ok", set |-> k.aff]

\* A resource set is attached to the thread or to the process.
ra_attachrset(hook, set) ==
  IF OfThread(hook) THEN ThreadAffinity(set) ELSE ProcessAffinity(set)

\* The resource set of the thread or of the process.
ra_getrset(hook) == IF OfThread(hook) THEN k.aff ELSE k.proc

\* The complete cpuset detaches the resource set: a thread has its process'
\* processors then, a process all.
aix_set_sth_cpubind(hook, set, flags) ==
  IF "NOMEMBIND" \in flags THEN Refuse("ENOSYS")
  ELSE IF set # t.sets.complete THEN ra_attachrset(hook, set)
  ELSE ra_attachrset(hook, IF OfThread(hook) THEN k.proc ELSE AllPUs)

\* Mutant: the answer is cut to the usable processors.
aix_get_sth_cpubind_Allowed(hook, flags) ==
  [ret |-> "ok", set |-> ra_getrset(hook) \cap t.sets.cpuset]

aix_get_sth_cpubind(hook, flags) ==
  [ret |-> "ok", set |-> ra_getrset(hook) \cap t.sets.complete]

\* Only the processors of exactly one resource domain can be bound to.
osf_set_cpubind(set, flags) ==
  IF set = t.sets.complete THEN SysCall([k EXCEPT !.aff = AllPUs])
  ELSE IF "NOMEMBIND" \in flags THEN Refuse("ENOSYS")
  ELSE IF \A n \in Nodes : NodeCpus[n] # set THEN Refuse("EXDEV")
  ELSE Affinity(set)

\* The previous binding is dropped before anything can fail.
hpux_set_cpubind(set, flags) ==
  LET dropped == [k EXCEPT !.aff = AllPUs]
  IN  IF set = t.sets.complete THEN {[ret |-> "ok", k |-> dropped]}
      ELSE IF (\E n \in NodeObjs : NodeCpus[n] = set) \/ Cardinality(set) = 1
      THEN {[ret |-> "EPERM", k |-> dropped]}
             \cup {[ret |-> "ok", k |-> [k EXCEPT !.aff = s]] :
                     s \in {set} \cap SUBSET AllPUs}
      ELSE {[ret |-> "EXDEV", k |-> dropped]}

\* The affinity mask is one unsigned long: processors beyond it are dropped,
\* when it is set (an empty mask is refused) and when it is read.
ULong(set) == set \cap (0 .. ULongBits - 1)

\* SetThreadAffinityMask or SetProcessAffinityMask.
win_set_cpubind(hook, set, flags) ==
  IF "NOMEMBIND" \in flags THEN Refuse("ENOSYS")
  ELSE IF OfThread(hook) THEN ThreadAffinity(ULong(set))
  ELSE ProcessAffinity(ULong(set))

\* There is GetProcessAffinityMask only.
win_get_cpubind(flags) ==
  [ret |-> IF "NOMEMBIND" \in flags THEN "ENOSYS" ELSE "ok", set |-> ULong(k.proc)]

\* A union of nodes is bound to with strong affinities, one processor with
\* processor_bind, anything else is refused.
solaris_set_sth_cpubind(set, flags) ==
  LET unpinned == [k EXCEPT !.pin = {}]
      inside   == {n \in NodeObjs : NodeCpus[n] \subseteq set}
  IN  IF set = t.sets.complete
      THEN SysCall(IF "NOMEMBIND" \in flags THEN unpinned
                   ELSE [unpinned EXCEPT !.lgrp = @ \ NodeObjs])
      ELSE IF "NOMEMBIND" \notin flags /\ CpusOf(inside) = set
      THEN {[ret |-> "ok", k |-> [k EXCEPT !.lgrp = (@ \ NodeObjs) \cup inside]]}
      ELSE IF Cardinality(set) # 1 THEN Refuse("EXDEV")
      ELSE SysCall([k EXCEPT !.pin = set])
solaris_get_sth_cpubind(flags) ==
  LET strong == CpusOf(k.lgrp \cap NodeObjs)
  IN  [ret |-> IF NodeObjs = {} THEN "ENOSYS" ELSE "ok",
       set |-> IF strong = {} THEN t.sets.complete ELSE strong]

os_set_cpubind(hook, set, flags) ==
  CASE os = "linux"   -> linux_set_cpubind(set, flags)
    [] os = "freebsd" -> freebsd_set_cpubind(set, flags)
    [] os = "aix"     -> aix_set_sth_cpubind(hook, set, flags)
    [] os = "osf"     -> osf_set_cpubind(set, flags)
    [] os = "hpux"    -> hpux_set_cpubind(set, flags)
    [] os = "windows" -> win_set_cpubind(hook, set, flags)
    [] os = "solaris" -> solaris_set_sth_cpubind(set, flags)

os_get_cpubind(hook, flags) ==
  CASE os = "linux"   -> linux_get_cpubind(flags)
    [] os = "freebsd" -> freebsd_get_cpubind(flags)
    [] os = "aix"     -> aix_get_sth_cpubind(hook, flags)
    [] os = "windows" -> win_get_cpubind(flags)
    [] os = "solaris" -> solaris_get_sth_cpubind(flags)

\* External: where the kernel lets the calling thread run.
Runs(kk) ==
  IF kk.pin # {} THEN kk.pin
  ELSE IF CpusOf(kk.lgrp) # {} THEN CpusOf(kk.lgrp) ELSE kk.aff

------------------------------------------------------------------------------
(* Memory binding of the process or thread.                                  *)

linux_membind_policy_from_hwloc(policy, flags) ==
  CASE policy \in {"DEFAULT", "FIRSTTOUCH"} -> "DEFAULT"
    [] policy = "BIND" -> IF "STRICT" \in flags THEN "BIND" ELSE "PREFERRED"
    [] policy = "INTERLEAVE" -> "INTERLEAVE"
    [] OTHER -> "ENOSYS"

\* Mutant: a preferred node is read as first touch.
linux_membind_policy_to_hwloc_Preferred(mode) ==
  CASE mode \in {"DEFAULT", "PREFERRED"} -> "FIRSTTOUCH"
    [] mode = "BIND" -> "BIND"
    [] mode = "INTERLEAVE" -> "INTERLEAVE"

linux_membind_policy_to_hwloc(mode) ==
  CASE mode = "DEFAULT" -> "FIRSTTOUCH"
    [] mode \in {"PREFERRED", "BIND"} -> "BIND"
    [] mode = "INTERLEAVE" -> "INTERLEAVE"

\* External: the nodes of a mask that the kernel keeps: the usable ones, and of
\* a preferred mask the first of them only.
Kept(mode, ns) ==
  LET usable == ns \cap Machine.nodeset
  IN  IF mode = "PREFERRED" THEN {n \in usable : \A m \in usable : n <= m}
      ELSE usable

\* Pages are migrated before the policy is set; only STRICT gives up when
\* migrate_pages fails, which the second outcome of SysCall stands for.
linux_set_thisthread_membind(ns, policy, flags) ==
  LET mode == linux_membind_policy_from_hwloc(policy, flags)
  IN  CASE mode = "ENOSYS"  -> Refuse("ENOSYS")
        [] mode = "DEFAULT" ->
             SysCall([k EXCEPT !.mem = [mode |-> mode, mask |-> {}]])
        [] OTHER ->
             IF Kept(mode, ns) = {} THEN Refuse("EINVAL")
             ELSE SysCall([k EXCEPT !.mem = [mode |-> mode, mask |-> Kept(mode, ns)]])

linux_get_thisthread_membind(flags) ==
  [ret |-> "ok", policy |-> linux_membind_policy_to_hwloc(k.mem.mode),
   set |-> IF k.mem.mode = "DEFAULT" THEN t.sets.nodeset ELSE k.mem.mask]

aix_set_sth_membind(hook, ns, policy, flags) ==
  IF "NOCPUBIND" \in flags \/ policy \notin {"DEFAULT", "BIND"}
  THEN Refuse("ENOSYS")
  ELSE ra_attachrset(hook, CpusOf(ns))
aix_get_sth_membind(hook, flags) ==
  [ret |-> IF NodeObjs = {} THEN "EXDEV" ELSE "ok", policy |-> "DEFAULT",
   set |-> {n \in NodeObjs :
              NodeCpus[n] \subseteq ra_getrset(hook) \cap t.sets.complete}]

solaris_set_sth_membind(ns, policy, flags) ==
  IF "NOCPUBIND" \in flags \/ policy \notin {"DEFAULT", "BIND"}
  THEN Refuse("ENOSYS")
  ELSE IF NodeObjs = {} THEN Refuse("EXDEV")
  ELSE {[ret |-> "ok",
         k |-> [k EXCEPT !.lgrp = (@ \ NodeObjs) \cup (ns \cap NodeObjs)]]}
solaris_get_sth_membind(flags) ==
  [ret |-> IF NodeObjs = {} THEN "ENOSYS" ELSE "ok", policy |-> "DEFAULT",
   set |-> IF k.lgrp \cap NodeObjs = {} THEN t.sets.allnodes
           ELSE k.lgrp \cap NodeObjs]

\* Windows binds the processors of the nodes instead.
win_set_membind(hook, ns, policy, flags) ==
  IF "NOCPUBIND" \in flags \/ policy \notin {"DEFAULT", "BIND"}
  THEN Refuse("ENOSYS")
  ELSE win_set_cpubind(hook, CpusOf(ns), flags \cap {"STRICT"})
win_get_membind(flags) ==
  LET g == win_get_cpubind(flags \cap {"STRICT"})
  IN  [ret |-> g.ret, policy |-> "BIND", set |-> cpuset_to_nodeset(g.set)]

os_set_membind(hook, ns, policy, flags) ==
  CASE os = "linux"   -> linux_set_thisthread_membind(ns, policy, flags)
    [] os = "aix"     -> aix_set_sth_membind(hook, ns, policy, flags)
    [] os = "solaris" -> solaris_set_sth_membind(ns, policy, flags)
    [] os = "windows" -> win_set_membind(hook, ns, policy, flags)

os_get_membind(hook, flags) ==
  CASE os = "linux"   -> linux_get_thisthread_membind(flags)
    [] os = "aix"     -> aix_get_sth_membind(hook, flags)
    [] os = "solaris" -> solaris_get_sth_membind(flags)
    [] os = "windows" -> win_get_membind(flags)

------------------------------------------------------------------------------
(* Memory areas and allocation.  A block of memory is told apart by the      *)
(* routine that must release it and by whether it is bound as asked.         *)

Block(how, bound) == [how |-> how, bound |-> bound, null |-> FALSE]
Null == [how |-> "none", bound |-> FALSE, null |-> TRUE]

\* Outcomes of the functions that bind an area: the policy its pages get, or
\* an errno.
AreaBound(mode, mask) ==
  {[ret |-> "ok", pol |-> [mode |-> mode, mask |-> mask]],
   [ret |-> "EPERM", pol |-> DefaultPolicy]}
AreaRefused(e) == {[ret |-> e, pol |-> DefaultPolicy]}

linux_set_area_membind(ns, policy, flags) ==
  LET mode == linux_membind_policy_from_hwloc(policy, flags)
  IN  CASE mode = "ENOSYS"  -> AreaRefused("ENOSYS")
        [] mode = "DEFAULT" -> AreaBound(mode, {})
        [] OTHER            -> IF Kept(mode, ns) = {} THEN AreaRefused("EINVAL")
                               ELSE AreaBound(mode, Kept(mode, ns))

\* The first page's policy is the answer unless another page differs; a page
\* without a policy makes it the whole nodeset.
linux_get_area_membind(pages, flags) ==
  LET first == CHOOSE p \in pages : \A q \in pages : p <= q
      last  == CHOOSE p \in pages : \A q \in pages : p >= q
      mixed == \E p \in pages : k.pages[p].mode # k.pages[first].mode
      full  == \E p \in pages : k.pages[p].mode = "DEFAULT"
  IN  [ret |-> "ok",
       policy |-> IF mixed THEN "MIXED"
                  ELSE linux_membind_policy_to_hwloc(k.pages[last].mode),
       set |-> IF full THEN t.sets.nodeset
               ELSE UNION {k.pages[p].mask : p \in pages}]

osf_set_area_membind(ns, policy, flags) ==
  IF policy = "NEXTTOUCH" THEN AreaRefused("ENOSYS") ELSE AreaBound(policy, ns)

solaris_set_area_membind(ns, policy, flags) ==
  IF ns # t.sets.allnodes THEN AreaRefused("EXDEV")
  ELSE IF policy = "REPLICATE" THEN AreaRefused("ENOSYS")
  ELSE AreaBound(policy, ns)

os_set_area_membind(ns, policy, flags) ==
  CASE os = "linux"   -> linux_set_area_membind(ns, policy, flags)
    [] os = "osf"     -> osf_set_area_membind(ns, policy, flags)
    [] os = "solaris" -> solaris_set_area_membind(ns, policy, flags)

\* What the alloc hook of the system, and hwloc_alloc without one, return.
AllocKind ==
  CASE t.hook["alloc"] = "os" /\ os = "windows" -> "VirtualAlloc"
    [] t.hook["alloc"] = "os" /\ os # "windows" -> "mmap"
    [] OTHER -> "heap"

hwloc_alloc == Block(AllocKind, FALSE)

hwloc_alloc_or_fail(flags) == IF "STRICT" \in flags THEN Null ELSE hwloc_alloc

linux_alloc_membind(ns, policy, flags) ==
  {IF r.ret # "ok" /\ policy \in StrictBit THEN Null
   ELSE Block("mmap", r.ret = "ok") :
     r \in linux_set_area_membind(ns, policy, flags)}

aix_alloc_membind(ns, policy, flags) ==
  IF policy \in {"REPLICATE", "NEXTTOUCH"} THEN {hwloc_alloc_or_fail(flags)}
  ELSE {Block("mmap", TRUE)}

osf_alloc_membind(ns, policy, flags) ==
  IF policy = "NEXTTOUCH" THEN {hwloc_alloc_or_fail(flags)}
  ELSE {Block("mmap", TRUE)}

hpux_alloc_membind(ns, policy, flags) ==
  IF ns # t.sets.allnodes THEN {hwloc_alloc_or_fail(flags)}
  ELSE IF policy \in {"REPLICATE", "NEXTTOUCH"} THEN {Null}
  ELSE {Block("mmap", TRUE)}

win_alloc_membind(ns, policy, flags) ==
  IF policy \notin {"DEFAULT", "BIND"} THEN {hwloc_alloc_or_fail(flags)}
  ELSE IF "STRICT" \in flags THEN {Null}
  ELSE IF Cardinality(ns) # 1 THEN {hwloc_alloc_or_fail(flags)}
  ELSE {Block("VirtualAlloc", TRUE)}

os_alloc_membind(ns, policy, flags) ==
  CASE os = "linux"   -> linux_alloc_membind(ns, policy, flags)
    [] os = "aix"     -> aix_alloc_membind(ns, policy, flags)
    [] os = "osf"     -> osf_alloc_membind(ns, policy, flags)
    [] os = "hpux"    -> hpux_alloc_membind(ns, policy, flags)
    [] os = "windows" -> win_alloc_membind(ns, policy, flags)

\* The routine hwloc_free ends in.
FreeKind ==
  CASE t.hook["free_membind"] = "os" /\ os = "windows" -> "VirtualAlloc"
    [] t.hook["free_membind"] = "os" /\ os # "windows" -> "mmap"
    [] OTHER -> "heap"
=============================================================================
