---------------------------- MODULE BindingProofs ----------------------------
(***************************************************************************)
(* What the binding calls promise, proved for every operating system, any   *)
(* machine and any arguments, through any calls of Lifecycle in between.    *)
(***************************************************************************)
EXTENDS LifecycleProofs

\* Node masks come from the topologies the handle can have.
NodeNames == Machine.allnodes \cup Foreign.allnodes
Modes == Policies \cup {"PREFERRED"}

Kernel ==
  [aff : SUBSET AllPUs, proc : SUBSET AllPUs,
   pin : SUBSET (Machine.complete \cup Foreign.complete), lgrp : SUBSET Nodes,
   mem : [mode : Modes, mask : SUBSET NodeNames],
   pages : [Pages -> [mode : Modes, mask : SUBSET NodeNames]]]

Request ==
  [cpu : SUBSET AllPUs, mem : SUBSET Machine.allnodes, policy : Policies,
   strict : BOOLEAN, who : {"process", "thread"}]

BindTypes == os \in Systems /\ k \in Kernel /\ asked \in Request

\* Only Solaris has a second kind of binding.
OneBinding == os # "solaris" => k.pin = {} /\ k.lgrp = {}

\* A thread stays inside its process.
InProcess == os \in TwoSets => k.aff \subseteq k.proc

\* The last successful processor binding still confines the thread, and the
\* process if it was of the process.
CpuKept ==
  asked.cpu # {} /\ os \notin {"solaris", "hpux"} =>
    /\ k.aff \cap Machine.cpuset \subseteq asked.cpu
    /\ os \in TwoSets /\ asked.who = "process"
         => k.proc \cap Machine.cpuset \subseteq asked.cpu

\* The set of the thread or of the process.
SetOf(kk, who) == IF who = "thread" THEN kk.aff ELSE kk.proc

\* What a kernel kk has after the nodes ns were bound to.
LinuxHolds(kk, ns, policy, strict) ==
  /\ policy \in {"DEFAULT", "FIRSTTOUCH", "BIND", "INTERLEAVE"}
  /\ policy \in {"DEFAULT", "FIRSTTOUCH"} => kk.mem.mode = "DEFAULT"
  /\ policy = "INTERLEAVE" => kk.mem.mode = "INTERLEAVE"
  /\ policy = "BIND" => kk.mem.mode = IF strict THEN "BIND" ELSE "PREFERRED"
  /\ policy \in {"BIND", "INTERLEAVE"}
       => kk.mem.mask = Kept(kk.mem.mode, ns) /\ kk.mem.mask # {}

Holds(kk, ns, policy, strict, who) ==
  \/ os = "linux" /\ LinuxHolds(kk, ns, policy, strict)
  \/ os = "aix" /\ policy \in {"DEFAULT", "BIND"} /\ SetOf(kk, who) = CpusOf(ns)
  \/ os = "windows" /\ policy \in {"DEFAULT", "BIND"} /\ SetOf(kk, who) = ULong(CpusOf(ns))
  \/ /\ os = "solaris" /\ policy \in {"DEFAULT", "BIND"}
     /\ kk.lgrp \cap Machine.allnodes = ns

\* The nodes that a binding to the nodes ns stands for.
Stands(bound, ns) ==
  /\ WithCpus(bound) \subseteq ns
  /\ ns \cap Machine.nodeset \subseteq bound
  /\ bound # {}

\* The last successful memory binding is still the kernel's.
MemKept ==
  asked.mem # {} =>
    \E bound \in SUBSET Machine.allnodes :
      /\ Stands(bound, asked.mem)
      /\ Holds(k, bound, asked.policy, asked.strict, asked.who)

\* The routine that releases what goes with a release hook.
KindOf(h) == IF h # "os" THEN "heap" ELSE IF os = "windows" THEN "VirtualAlloc" ELSE "mmap"

BlockKept ==
  /\ block.how # "mismatch"
  /\ ~block.null => block.how = KindOf(block.hook)

BInv == BindTypes /\ OneBinding /\ InProcess /\ CpuKept /\ MemKept /\ BlockKept

------------------------------------------------------------------------------
(* The hook tables.                                                          *)

\* A field that setup_defaults resets is empty, does nothing, or is a hook that
\* the system's own hooks function stores.
LEMMA SystemHooks ==
  ASSUME HInv, NEW n \in Fields
  PROVE  /\ t.hook[n] \in {"null", "dont", "os"}
         /\ t.hook[n] = "os" => n \in HooksOf(os)
  <1>1. CASE ~t.loaded
    BY <1>1 DEF HInv, Quiet
  <1>2. CASE t.loaded /\ OwnTable(t)
    BY <1>2 DEF OwnTable
  <1>3. CASE t.loaded /\ DontTable(t)
    BY <1>3 DEF DontTable
  <1> QED BY <1>1, <1>2, <1>3 DEF HInv, NoForeign

\* The hooks that the calls of this module use are among those fields.
LEMMA FieldNames ==
  /\ CpuHooks \subseteq Fields /\ MemHooks \subseteq Fields /\ AllocHooks \subseteq Fields
  BY DEF CpuHooks, MemHooks, AllocHooks, Fields, HookNames, LastHooks

\* Darwin binds nothing.
LEMMA CpuSystems ==
  ASSUME os \in Systems, NEW n, n \in HooksOf(os)
  PROVE  os \in {"linux", "aix", "osf", "solaris", "windows", "freebsd", "hpux"}
  <1>1. HooksOf("darwin") = {}
    BY DEF HooksOf, set_darwin_hooks
  <1> QED BY <1>1, SystemsAssumption

\* The systems that can bind the memory of a process or thread.
LEMMA MemSystems ==
  ASSUME os \in Systems, NEW n \in HooksOf(os),
         n \in {"set_thisproc_membind", "set_thisthread_membind", "set_proc_membind",
                "get_thisproc_membind", "get_thisthread_membind", "get_proc_membind"}
  PROVE  os \in {"linux", "aix", "solaris", "windows"}
  <1>1. n \notin HooksOf("darwin")
    BY DEF HooksOf, set_darwin_hooks
  <1>2. n \notin HooksOf("osf")
    BY DEF HooksOf, set_osf_hooks, AllocHooks
  <1>3. n \notin HooksOf("freebsd")
    BY DEF HooksOf, set_freebsd_hooks, CpuHooks
  <1>4. n \notin HooksOf("hpux")
    BY DEF HooksOf, set_hpux_hooks, AllocHooks
  <1> QED BY <1>1, <1>2, <1>3, <1>4, SystemsAssumption

------------------------------------------------------------------------------
(* Processor binding.                                                        *)

\* The kernel refuses, or confines the process to the given processors.
LEMMA AffinityOutcome ==
  ASSUME k \in Kernel, NEW s, NEW r \in Affinity(s)
  PROVE  /\ r.k \in Kernel
         /\ r.ret # "ok" => r.k = k
         /\ r.ret = "ok" => r.k.aff = s \cap AllPUs
         /\ r.k.proc = k.proc
         /\ r.k.mem = k.mem /\ r.k.pin = k.pin /\ r.k.lgrp = k.lgrp
         /\ r.k.pages = k.pages
  <1> DEFINE a == s \cap AllPUs
             kk == [k EXCEPT !.aff = a]
  <1>1. a \in SUBSET AllPUs
    OBVIOUS
  <1>2. r \in {[ret |-> "EINVAL", k |-> k], [ret |-> "ok", k |-> kk],
               [ret |-> "EPERM", k |-> k]}
    BY DEF Affinity, Refuse, SysCall
  <1> HIDE DEF a
  <1>3. /\ kk \in Kernel /\ kk.aff = a /\ kk.mem = k.mem /\ kk.pin = k.pin
        /\ kk.lgrp = k.lgrp /\ kk.pages = k.pages /\ kk.proc = k.proc
    BY <1>1 DEF Kernel
  <1> HIDE DEF kk
  <1> QED BY <1>2, <1>3 DEF a

\* A kernel with two sets refuses, or confines the thread, or the process and
\* the thread with it.
LEMMA LevelOutcome ==
  ASSUME k \in Kernel, NEW hook, NEW s,
         NEW r \in ra_attachrset(hook, s)
  PROVE  /\ r.k \in Kernel
         /\ r.ret # "ok" => r.k = k
         /\ r.ret = "ok" =>
              /\ r.k.aff \subseteq r.k.proc /\ r.k.aff \subseteq s
              /\ OfThread(hook) => r.k.aff = s \cap AllPUs
              /\ ~OfThread(hook) => r.k.proc = s \cap AllPUs
         /\ r.k.mem = k.mem /\ r.k.pin = k.pin /\ r.k.lgrp = k.lgrp
  <1>r. ASSUME NEW e, e # "ok", r \in Refuse(e) PROVE r.k = k /\ r.ret # "ok"
    BY <1>r DEF Refuse
  <1>1. CASE OfThread(hook)
    <2>1. r \in ThreadAffinity(s)
      BY <1>1 DEF ra_attachrset
    <2>2. CASE s \cap AllPUs \subseteq k.proc
      <3>1. r \in Affinity(s)
        BY <2>1, <2>2 DEF ThreadAffinity
      <3>2. /\ r.k \in Kernel
            /\ r.ret # "ok" => r.k = k
            /\ r.ret = "ok" => r.k.aff = s \cap AllPUs
            /\ r.k.proc = k.proc
            /\ r.k.mem = k.mem /\ r.k.pin = k.pin /\ r.k.lgrp = k.lgrp
        BY <3>1, AffinityOutcome
      <3> QED BY <1>1, <2>2, <3>2
    <2>3. CASE ~(s \cap AllPUs \subseteq k.proc)
      <3>1. r \in Refuse("EINVAL")
        BY <2>1, <2>3 DEF ThreadAffinity
      <3> QED BY <1>r, <3>1
    <2> QED BY <2>2, <2>3
  <1>2. CASE ~OfThread(hook)
    <2> DEFINE p == s \cap AllPUs
    <2>1. \/ r \in Refuse("EINVAL") \/ r \in Refuse("EPERM")
          \/ \E a \in {p, k.aff \cap s} :
               r = [ret |-> "ok", k |-> [k EXCEPT !.proc = p, !.aff = a]]
      BY <1>2 DEF ra_attachrset, ProcessAffinity, Refuse
    <2>2. CASE r \in Refuse("EINVAL") \/ r \in Refuse("EPERM")
      BY <1>r, <2>2
    <2>3. ASSUME NEW a \in {p, k.aff \cap s},
                 r = [ret |-> "ok", k |-> [k EXCEPT !.proc = p, !.aff = a]]
          PROVE  /\ r.k \in Kernel /\ r.ret = "ok"
                 /\ r.k.aff \subseteq r.k.proc /\ r.k.aff \subseteq s
                 /\ r.k.proc = p
                 /\ r.k.mem = k.mem /\ r.k.pin = k.pin /\ r.k.lgrp = k.lgrp
      <3>1. p \in SUBSET AllPUs /\ a \in SUBSET AllPUs /\ a \subseteq p /\ a \subseteq s
        BY <2>3 DEF Kernel
      <3> HIDE DEF p
      <3> DEFINE kk == [k EXCEPT !.proc = p, !.aff = a]
      <3>2. /\ kk \in Kernel /\ kk.aff = a /\ kk.proc = p /\ kk.mem = k.mem
            /\ kk.pin = k.pin /\ kk.lgrp = k.lgrp
        BY <3>1 DEF Kernel
      <3>3. r.ret = "ok" /\ r.k = kk
        BY <2>3
      <3> HIDE DEF kk
      <3> QED BY <3>1, <3>2, <3>3
    <2> QED BY <1>2, <2>1, <2>2, <2>3
  <1> QED BY <1>1, <1>2

\* What a processor binding function of a system may leave behind.
CpuOutcome(r, hook, s, flags) ==
  /\ r.k \in Kernel
  /\ r.k.mem = k.mem
  /\ os # "solaris" => r.k.pin = k.pin /\ r.k.lgrp = k.lgrp
  /\ os = "solaris" /\ "NOMEMBIND" \in flags => r.k.lgrp = k.lgrp
  /\ r.ret # "ok" /\ os # "hpux" => r.k = k
  /\ r.ret = "ok" /\ os \notin {"solaris", "hpux"}
       => r.k.aff \subseteq s \/ s = t.sets.complete
  /\ r.ret = "ok" /\ os \in TwoSets =>
       /\ "NOMEMBIND" \notin flags
       /\ r.k.aff \subseteq r.k.proc
       /\ ~OfThread(hook) => r.k.proc \subseteq s \/ s = t.sets.complete

\* Each system's function binds to the given set, or refuses and leaves the
\* binding as it was, but for HP-UX.
LEMMA CpubindOutcome ==
  ASSUME BindTypes, t.sets \in {NoSets, Machine, Foreign},
         os \in {"linux", "aix", "osf", "solaris", "windows", "freebsd", "hpux"},
         NEW hook, NEW s \in SUBSET t.sets.complete, NEW flags,
         NEW r \in os_set_cpubind(hook, s, flags)
  PROVE  CpuOutcome(r, hook, s, flags)
  <1>k. k \in Kernel
    BY DEF BindTypes
  <1>r. ASSUME NEW e, e # "ok", r \in Refuse(e)
        PROVE  CpuOutcome(r, hook, s, flags)
    BY <1>k, <1>r DEF Refuse, CpuOutcome
  <1>a. ASSUME NEW a, r \in Affinity(a), a \subseteq s \/ s = t.sets.complete,
               os \notin {"solaris", "hpux"} \cup TwoSets
        PROVE  CpuOutcome(r, hook, s, flags)
    <2>1. r.k.aff = a \cap AllPUs => r.k.aff \subseteq a
      OBVIOUS
    <2> QED BY <1>k, <1>a, <2>1, AffinityOutcome DEF CpuOutcome
  <1>t. ASSUME NEW a, a \subseteq s \/ s = t.sets.complete, os \in TwoSets,
               "NOMEMBIND" \notin flags,
               r \in ra_attachrset(hook, a)
        PROVE  CpuOutcome(r, hook, s, flags)
    <2>1. /\ r.k \in Kernel
          /\ r.ret # "ok" => r.k = k
          /\ r.ret = "ok" =>
               /\ r.k.aff \subseteq r.k.proc /\ r.k.aff \subseteq a
               /\ ~OfThread(hook) => r.k.proc = a \cap AllPUs
          /\ r.k.mem = k.mem /\ r.k.pin = k.pin /\ r.k.lgrp = k.lgrp
      BY <1>k, <1>t, LevelOutcome
    <2>2. r.k.proc = a \cap AllPUs => r.k.proc \subseteq a
      OBVIOUS
    <2>3. os # "solaris"
      BY <1>t DEF TwoSets
    <2> QED BY <1>t, <2>1, <2>2, <2>3 DEF CpuOutcome
  <1>1. CASE os = "linux"
    <2>1. r \in Affinity(s)
      BY <1>1 DEF os_set_cpubind, linux_set_cpubind
    <2> QED BY <1>1, <1>a, <2>1 DEF TwoSets
  <1>2. CASE os = "freebsd"
    <2>1. r \in Affinity(s)
      BY <1>2 DEF os_set_cpubind, freebsd_set_cpubind
    <2> QED BY <1>2, <1>a, <2>1 DEF TwoSets
  <1>3. CASE os = "aix"
    <2>1. r \in aix_set_sth_cpubind(hook, s, flags)
      BY <1>3 DEF os_set_cpubind
    <2>2. CASE "NOMEMBIND" \in flags
      BY <1>3, <1>r, <2>1, <2>2 DEF aix_set_sth_cpubind
    <2>3. CASE "NOMEMBIND" \notin flags /\ s = t.sets.complete
      <3> DEFINE a == IF OfThread(hook) THEN k.proc ELSE AllPUs
      <3>1. r \in ra_attachrset(hook, a)
        BY <2>1, <2>3 DEF aix_set_sth_cpubind
      <3> HIDE DEF a
      <3> QED BY <1>3, <1>t, <2>3, <3>1 DEF TwoSets
    <2>4. CASE "NOMEMBIND" \notin flags /\ s # t.sets.complete
      <3>1. r \in ra_attachrset(hook, s)
        BY <2>1, <2>4 DEF aix_set_sth_cpubind
      <3> QED BY <1>3, <1>t, <2>4, <3>1 DEF TwoSets
    <2> QED BY <2>2, <2>3, <2>4
  <1>4. CASE os = "osf"
    <2>1. r \in osf_set_cpubind(s, flags)
      BY <1>4 DEF os_set_cpubind
    <2>2. CASE s = t.sets.complete
      <3> DEFINE kk == [k EXCEPT !.aff = AllPUs]
      <3>1. r \in {[ret |-> "ok", k |-> kk], [ret |-> "EPERM", k |-> k]}
        BY <2>1, <2>2 DEF osf_set_cpubind, SysCall
      <3>2. kk \in Kernel /\ kk.mem = k.mem /\ kk.pin = k.pin /\ kk.lgrp = k.lgrp
        BY <1>k DEF Kernel
      <3> HIDE DEF kk
      <3> QED BY <1>4, <1>k, <2>2, <3>1, <3>2 DEF CpuOutcome, TwoSets
    <2>3. CASE s # t.sets.complete /\ r \in Affinity(s)
      BY <1>4, <1>a, <2>3 DEF TwoSets
    <2>4. CASE r \in Refuse("ENOSYS") \/ r \in Refuse("EXDEV")
      BY <1>4, <1>r, <2>4
    <2> QED BY <2>1, <2>2, <2>3, <2>4 DEF osf_set_cpubind
  <1>5. CASE os = "windows"
    <2>1. r \in win_set_cpubind(hook, s, flags)
      BY <1>5 DEF os_set_cpubind
    <2>2. CASE "NOMEMBIND" \in flags
      BY <1>5, <1>r, <2>1, <2>2 DEF win_set_cpubind
    <2>3. CASE "NOMEMBIND" \notin flags
      <3> DEFINE m == ULong(s)
      <3>1. r \in ra_attachrset(hook, m)
        BY <2>1, <2>3 DEF win_set_cpubind, ra_attachrset
      <3>2. m \subseteq s
        BY DEF ULong
      <3> HIDE DEF m
      <3> QED BY <1>5, <1>t, <2>3, <3>1, <3>2 DEF TwoSets
    <2> QED BY <2>2, <2>3
  <1>6. CASE os = "hpux"
    <2>1. r \in hpux_set_cpubind(s, flags)
      BY <1>6 DEF os_set_cpubind
    <2>2. \E a \in SUBSET AllPUs : r.k = [k EXCEPT !.aff = a]
      <3> DEFINE dropped == [k EXCEPT !.aff = AllPUs]
      <3>1. \/ r \in {[ret |-> "ok", k |-> dropped], [ret |-> "EPERM", k |-> dropped],
                     [ret |-> "EXDEV", k |-> dropped]}
            \/ \E a \in {s} \cap SUBSET AllPUs :
                 r = [ret |-> "ok", k |-> [k EXCEPT !.aff = a]]
        BY <2>1 DEF hpux_set_cpubind
      <3>2. CASE r.k = dropped
        BY <3>2
      <3>3. ASSUME NEW a \in {s} \cap SUBSET AllPUs,
                   r = [ret |-> "ok", k |-> [k EXCEPT !.aff = a]]
            PROVE  \E x \in SUBSET AllPUs : r.k = [k EXCEPT !.aff = x]
        <4>1. a \in SUBSET AllPUs /\ r.k = [k EXCEPT !.aff = a]
          BY <3>3
        <4> QED BY <4>1
      <3> HIDE DEF dropped
      <3>4. r \in {[ret |-> "ok", k |-> dropped], [ret |-> "EPERM", k |-> dropped],
                   [ret |-> "EXDEV", k |-> dropped]} => r.k = dropped
        OBVIOUS
      <3> QED BY <3>1, <3>2, <3>3, <3>4
    <2>3. PICK a \in SUBSET AllPUs : r.k = [k EXCEPT !.aff = a]
      BY <2>2
    <2>4. r.k \in Kernel /\ r.k.mem = k.mem /\ r.k.pin = k.pin /\ r.k.lgrp = k.lgrp
      BY <1>k, <2>3 DEF Kernel
    <2> QED BY <1>6, <2>4 DEF CpuOutcome, TwoSets
  <1>7. CASE os = "solaris"
    <2>1. r \in solaris_set_sth_cpubind(s, flags)
      BY <1>7 DEF os_set_cpubind
    <2> DEFINE inside == {n \in NodeObjs : NodeCpus[n] \subseteq s}
               l1 == k.lgrp \ NodeObjs
               l2 == (k.lgrp \ NodeObjs) \cup inside
               u0 == [k EXCEPT !.pin = {}]
               u1 == [u0 EXCEPT !.lgrp = l1]
               u2 == [k EXCEPT !.lgrp = l2]
               u3 == [k EXCEPT !.pin = s]
    <2>2. /\ l1 \in SUBSET Nodes /\ l2 \in SUBSET Nodes
          /\ s \in SUBSET (Machine.complete \cup Foreign.complete)
      <3>1. NoSets.complete = {}
        BY DEF NoSets
      <3> QED BY <1>k, <3>1 DEF Kernel, NodeObjs
    <2>3. \/ r.ret # "ok" /\ r.k = k
          \/ r.k = u0
          \/ r.k = u1 /\ "NOMEMBIND" \notin flags
          \/ r.k = u2 /\ "NOMEMBIND" \notin flags
          \/ r.k = u3
      <3>1. u0.lgrp = k.lgrp
        BY <1>k DEF Kernel
      <3>2. CASE s = t.sets.complete
        <4>1. r \in SysCall(IF "NOMEMBIND" \in flags THEN u0
                             ELSE [u0 EXCEPT !.lgrp = @ \ NodeObjs])
          BY <2>1, <3>2 DEF solaris_set_sth_cpubind
        <4>2. r \in SysCall(IF "NOMEMBIND" \in flags THEN u0 ELSE u1)
          BY <3>1, <4>1
        <4> HIDE DEF u0, u1
        <4> QED BY <4>2 DEF SysCall
      <3>3. CASE s # t.sets.complete
        <4>1. \/ "NOMEMBIND" \notin flags /\ r = [ret |-> "ok", k |-> u2]
              \/ r \in Refuse("EXDEV")
              \/ r \in SysCall(u3)
          BY <2>1, <3>3 DEF solaris_set_sth_cpubind
        <4> HIDE DEF u2, u3
        <4> QED BY <4>1 DEF SysCall, Refuse
      <3> QED BY <3>2, <3>3
    <2> HIDE DEF l1, l2
    <2>4. /\ u0 \in Kernel /\ u0.mem = k.mem /\ u0.lgrp = k.lgrp
          /\ u2 \in Kernel /\ u2.mem = k.mem
          /\ u3 \in Kernel /\ u3.mem = k.mem /\ u3.lgrp = k.lgrp
      BY <1>k, <2>2 DEF Kernel
    <2> HIDE DEF u0
    <2>5. u1 \in Kernel /\ u1.mem = k.mem
      BY <2>2, <2>4 DEF Kernel
    <2>6. r.ret # "ok" => r.k = k
      <3>1. r \in {[ret |-> "ok", k |-> r.k], [ret |-> r.ret, k |-> k]}
        BY <2>1 DEF solaris_set_sth_cpubind, SysCall, Refuse
      <3> QED BY <3>1
    <2> HIDE DEF u1, u2, u3
    <2> QED BY <1>7, <1>k, <2>3, <2>4, <2>5, <2>6 DEF CpuOutcome, TwoSets
  <1> QED BY <1>1, <1>2, <1>3, <1>4, <1>5, <1>6, <1>7

\* The invariant is about the kernel, what was asked and the block only.
LEMMA Unaffected ==
  ASSUME BInv, os' = os, k' = k, asked' = asked, block' = block
  PROVE  BInv'
  BY DEF BInv, BindTypes, OneBinding, InProcess, CpuKept, MemKept, Holds, LinuxHolds, SetOf,
         BlockKept, KindOf

\* The sets of a handle.
LEMMA HandleSets ==
  ASSUME LInv PROVE t.sets \in {NoSets, Machine, Foreign}
  BY DEF LInv, Handle

\* hwloc_fix_cpubind accepts sets inside the complete cpuset, and extends the
\* ones that hold every usable processor.
LEMMA FixCpubind ==
  ASSUME NEW set, hwloc_fix_cpubind(set).ret = "ok"
  PROVE  LET s == hwloc_fix_cpubind(set).set
         IN  /\ s \in SUBSET t.sets.complete /\ set \subseteq t.sets.complete
             /\ s = t.sets.complete \/ s = set
             /\ s = t.sets.complete => t.sets.cpuset \subseteq set \/ set = t.sets.complete
  BY DEF hwloc_fix_cpubind

\* A processor binding call leaves the invariant.
LEMMA SetCpubindKeeps ==
  ASSUME LInv, HInv, BInv, UNCHANGED lvars, NEW set, NEW flags,
         NEW hook \in CpuHooks, SetCpubind(hook, set, flags)
  PROVE  BInv'
  <1>o. os' = os
    BY DEF lvars
  <1> DEFINE f == hwloc_fix_cpubind(set)
  <1>h. t.hook[hook] \in {"null", "dont", "os"} /\ (t.hook[hook] = "os" => hook \in HooksOf(os))
    BY SystemHooks, FieldNames
  <1>1. CASE NoEffect
    BY <1>1, <1>o, Unaffected DEF NoEffect
  <1>2. CASE ~NoEffect
    <2>1. f.ret = "ok" /\ t.hook[hook] = "os"
      BY <1>2, <1>h DEF SetCpubind
    <2>2. PICK r \in os_set_cpubind(hook, f.set, flags) :
             /\ k' = r.k
             /\ asked' = IF r.ret # "ok" THEN asked
                         ELSE [asked EXCEPT
                                 !.cpu = IF t.sets = Machine THEN set ELSE {},
                                 !.mem = IF "NOMEMBIND" \in flags THEN @ ELSE {},
                                 !.who = Whom(hook)]
             /\ UNCHANGED block
      BY <2>1 DEF SetCpubind
    <2>3. /\ f.set \in SUBSET t.sets.complete /\ set \subseteq t.sets.complete
          /\ f.set = t.sets.complete \/ f.set = set
          /\ f.set = t.sets.complete => t.sets.cpuset \subseteq set \/ set = t.sets.complete
      BY <2>1, FixCpubind
    <2>4. os \in {"linux", "aix", "osf", "solaris", "windows", "freebsd", "hpux"}
      BY <1>h, <2>1, CpuSystems DEF BInv, BindTypes
    <2> HIDE DEF f
    <2>5. CpuOutcome(r, hook, f.set, flags)
      BY <2>3, <2>4, HandleSets, CpubindOutcome DEF BInv
    <2> DEFINE c == IF t.sets = Machine THEN set ELSE {}
               m == IF "NOMEMBIND" \in flags THEN asked.mem ELSE {}
               w == Whom(hook)
    <2>w. w \in {"process", "thread"} /\ (w = "process" /\ os \in TwoSets => ~OfThread(hook))
      BY DEF Whom
    <2>6. c \in SUBSET AllPUs /\ m \in SUBSET Machine.allnodes /\ asked \in Request
      BY <2>3 DEF AllPUs, BInv, BindTypes, Request
    <2>7. asked' = IF r.ret # "ok" THEN asked ELSE [asked EXCEPT !.cpu = c, !.mem = m, !.who = w]
      BY <2>2
    <2>8. /\ t.sets # Machine => c = {}
          /\ t.sets = Machine => c = set
          /\ "NOMEMBIND" \in flags => m = asked.mem
          /\ "NOMEMBIND" \notin flags => m = {}
      OBVIOUS
    <2> HIDE DEF c, m, w
    <2>9. /\ asked' \in Request /\ asked'.policy = asked.policy /\ asked'.strict = asked.strict
          /\ r.ret = "ok" => asked'.cpu = c /\ asked'.mem = m /\ asked'.who = w
          /\ r.ret # "ok" => asked' = asked
      BY <2>w, <2>6, <2>7 DEF Request
    <2>10. BindTypes'
      BY <1>o, <2>2, <2>5, <2>9 DEF BInv, BindTypes, CpuOutcome
    <2>11. OneBinding'
      BY <1>o, <2>2, <2>5 DEF BInv, OneBinding, CpuOutcome
    <2>i. InProcess'
      BY <1>o, <2>2, <2>5 DEF BInv, InProcess, CpuOutcome, TwoSets
    <2>12. CpuKept'
      <3>1. CASE r.ret # "ok"
        BY <1>o, <2>2, <2>5, <2>9, <3>1 DEF BInv, CpuKept, CpuOutcome, TwoSets
      <3>2. CASE r.ret = "ok" /\ t.sets # Machine
        BY <2>8, <2>9, <3>2 DEF CpuKept
      <3>3. CASE r.ret = "ok" /\ t.sets = Machine
        <4>1. os \notin {"solaris", "hpux"} => r.k.aff \subseteq f.set \/ f.set = Machine.complete
          BY <2>5, <3>3 DEF CpuOutcome
        <4>2. r.k.aff \subseteq Machine.complete
          BY <2>5 DEF CpuOutcome, Kernel, AllPUs
        <4>3. os \notin {"solaris", "hpux"} => r.k.aff \cap Machine.cpuset \subseteq set
          BY <2>3, <3>3, <4>1, <4>2, MachineAssumption
        <4>4. os \in TwoSets /\ w = "process"
                => r.k.proc \subseteq f.set \/ f.set = Machine.complete
          BY <2>w, <2>5, <3>3 DEF CpuOutcome
        <4>5. r.k.proc \subseteq Machine.complete
          BY <2>5 DEF CpuOutcome, Kernel, AllPUs
        <4>6. os \in TwoSets /\ w = "process" => r.k.proc \cap Machine.cpuset \subseteq set
          BY <2>3, <3>3, <4>4, <4>5, MachineAssumption
        <4> QED BY <1>o, <2>2, <2>8, <2>9, <3>3, <4>3, <4>6 DEF CpuKept
      <3> QED BY <3>1, <3>2, <3>3
    <2>13. MemKept'
      <3>1. CASE r.ret = "ok" /\ "NOMEMBIND" \notin flags
        BY <2>8, <2>9, <3>1 DEF MemKept
      <3>2. CASE ~(r.ret = "ok" /\ "NOMEMBIND" \notin flags)
        <4>1. /\ asked'.mem = asked.mem /\ asked'.policy = asked.policy
              /\ asked'.strict = asked.strict
              /\ os \in TwoSets => asked'.who = asked.who
          BY <2>5, <2>8, <2>9, <3>2 DEF CpuOutcome
        <4>2. /\ os \in TwoSets => k' = k
              /\ os = "solaris" => k'.lgrp = k.lgrp
              /\ k'.mem = k.mem
          BY <2>2, <2>5, <3>2 DEF CpuOutcome, TwoSets
        <4>3. ASSUME NEW bound, Holds(k, bound, asked.policy, asked.strict, asked.who)
              PROVE  Holds(k, bound, asked.policy, asked.strict, asked.who)'
          BY <1>o, <4>1, <4>2, <4>3 DEF Holds, LinuxHolds, SetOf, TwoSets
        <4> QED BY <4>1, <4>3 DEF BInv, MemKept
      <3> QED BY <3>1, <3>2
    <2>14. BlockKept'
      BY <1>o, <2>2 DEF BInv, BlockKept, KindOf
    <2> QED BY <2>10, <2>11, <2>i, <2>12, <2>13, <2>14 DEF BInv
  <1> QED BY <1>1, <1>2

------------------------------------------------------------------------------
(* Memory binding.                                                           *)

\* The processors of nodes are usable processors of the machine.
LEMMA NodeProcessors ==
  ASSUME NEW ns PROVE CpusOf(ns) \subseteq Machine.cpuset /\ CpusOf(ns) \subseteq AllPUs
  BY NodesAssumption, MachineAssumption DEF CpusOf, Nodes, AllPUs

\* Each system's function binds to the given nodes as it is going to report
\* them, or refuses and leaves everything as it was.
LEMMA MembindOutcome ==
  ASSUME BindTypes, t.sets \in {NoSets, Machine, Foreign},
         os \in {"linux", "aix", "solaris", "windows"},
         NEW ns \in SUBSET t.sets.allnodes, ns # {}, NEW policy \in Policies, NEW flags,
         NEW hook, NEW r \in os_set_membind(hook, ns, policy, flags)
  PROVE  /\ r.k \in Kernel
         /\ r.ret # "ok" => r.k = k
         /\ os # "solaris" => r.k.pin = k.pin /\ r.k.lgrp = k.lgrp
         /\ os \in TwoSets /\ r.ret = "ok" => r.k.aff \subseteq r.k.proc
         /\ r.ret = "ok" /\ "NOCPUBIND" \in flags => r.k.aff = k.aff /\ os \notin TwoSets
         /\ r.ret = "ok" /\ t.sets = Machine
              => Holds(r.k, ns, policy, "STRICT" \in flags, Whom(hook))
  <1>k. k \in Kernel
    BY DEF BindTypes
  <1>n. ns \in SUBSET NodeNames
    <2>1. NoSets.allnodes = {}
      BY DEF NoSets
    <2> QED BY <2>1 DEF NodeNames
  <1>r. ASSUME NEW e, e # "ok", r \in Refuse(e) PROVE r.k = k /\ r.ret # "ok"
    BY <1>r DEF Refuse
  <1>1. CASE os = "linux"
    <2> DEFINE mode == linux_membind_policy_from_hwloc(policy, flags)
    <2>1. r \in linux_set_thisthread_membind(ns, policy, flags)
      BY <1>1 DEF os_set_membind
    <2>2. /\ policy \in {"DEFAULT", "FIRSTTOUCH"} => mode = "DEFAULT"
          /\ policy = "BIND" => mode = IF "STRICT" \in flags THEN "BIND" ELSE "PREFERRED"
          /\ policy = "INTERLEAVE" => mode = "INTERLEAVE"
          /\ policy \in {"REPLICATE", "NEXTTOUCH"} => mode = "ENOSYS"
      BY DEF linux_membind_policy_from_hwloc
    <2>3. mode \in Modes \cup {"ENOSYS"}
      BY <2>2 DEF Policies, Modes
    <2> DEFINE kept == Kept(mode, ns)
               p1 == [mode |-> mode, mask |-> {}]
               p2 == [mode |-> mode, mask |-> kept]
               k1 == [k EXCEPT !.mem = p1]
               k2 == [k EXCEPT !.mem = p2]
    <2>4. \/ r \in Refuse("ENOSYS") \/ r \in Refuse("EINVAL")
          \/ mode = "DEFAULT" /\ r \in SysCall(k1)
          \/ mode \notin {"ENOSYS", "DEFAULT"} /\ kept # {} /\ r \in SysCall(k2)
      BY <2>1 DEF linux_set_thisthread_membind
    <2>m. kept \in SUBSET NodeNames
      BY <1>n DEF Kept
    <2> HIDE DEF mode, kept
    <2>5. mode # "ENOSYS" => /\ p1 \in [mode : Modes, mask : SUBSET NodeNames]
                             /\ p2 \in [mode : Modes, mask : SUBSET NodeNames]
      BY <2>m, <2>3
    <2>6. /\ p1.mode = mode /\ p2.mode = mode /\ p2.mask = kept
      OBVIOUS
    <2> HIDE DEF p1, p2
    <2>7. mode # "ENOSYS" =>
            /\ k1 \in Kernel /\ k1.mem = p1 /\ k1.aff = k.aff /\ k1.pin = k.pin /\ k1.lgrp = k.lgrp
            /\ k2 \in Kernel /\ k2.mem = p2 /\ k2.aff = k.aff /\ k2.pin = k.pin /\ k2.lgrp = k.lgrp
      BY <1>k, <2>5 DEF Kernel
    <2> HIDE DEF k1, k2
    <2>8. CASE r \in Refuse("ENOSYS") \/ r \in Refuse("EINVAL")
      BY <1>k, <1>r, <2>8
    <2>9. CASE mode = "DEFAULT" /\ r \in SysCall(k1)
      <3>1. r \in {[ret |-> "ok", k |-> k1], [ret |-> "EPERM", k |-> k]}
        BY <2>9 DEF SysCall
      <3>2. LinuxHolds(k1, ns, policy, "STRICT" \in flags)
        BY <2>2, <2>6, <2>7, <2>9 DEF LinuxHolds, Policies
      <3>3. Holds(k1, ns, policy, "STRICT" \in flags, Whom(hook)) /\ os \notin TwoSets
        BY <1>1, <3>2 DEF Holds, TwoSets
      <3> QED BY <1>k, <2>7, <2>9, <3>1, <3>3
    <2>10. CASE mode \notin {"ENOSYS", "DEFAULT"} /\ kept # {} /\ r \in SysCall(k2)
      <3>1. r \in {[ret |-> "ok", k |-> k2], [ret |-> "EPERM", k |-> k]}
        BY <2>10 DEF SysCall
      <3>2. k2.mem.mode = mode /\ k2.mem.mask = Kept(mode, ns)
        BY <2>6, <2>7, <2>10 DEF kept
      <3>3. LinuxHolds(k2, ns, policy, "STRICT" \in flags)
        BY <2>2, <2>10, <3>2 DEF LinuxHolds, Policies, kept
      <3>4. Holds(k2, ns, policy, "STRICT" \in flags, Whom(hook)) /\ os \notin TwoSets
        BY <1>1, <3>3 DEF Holds, TwoSets
      <3> QED BY <1>k, <2>7, <2>10, <3>1, <3>4
    <2> QED BY <2>4, <2>8, <2>9, <2>10
  <1>l. ASSUME NEW m, m \subseteq AllPUs, os \in TwoSets,
               r \in ra_attachrset(hook, m)
        PROVE  /\ r.k \in Kernel
               /\ r.ret # "ok" => r.k = k
               /\ r.k.pin = k.pin /\ r.k.lgrp = k.lgrp
               /\ r.ret = "ok" => r.k.aff \subseteq r.k.proc /\ SetOf(r.k, Whom(hook)) = m
    <2>1. m \cap AllPUs = m
      BY <1>l
    <2>2. /\ r.k \in Kernel
          /\ r.ret # "ok" => r.k = k
          /\ r.ret = "ok" =>
               /\ r.k.aff \subseteq r.k.proc
               /\ OfThread(hook) => r.k.aff = m \cap AllPUs
               /\ ~OfThread(hook) => r.k.proc = m \cap AllPUs
          /\ r.k.pin = k.pin /\ r.k.lgrp = k.lgrp
      BY <1>k, <1>l, LevelOutcome
    <2> QED BY <1>l, <2>1, <2>2 DEF SetOf, Whom
  <1>2. CASE os = "aix"
    <2>1. r \in aix_set_sth_membind(hook, ns, policy, flags)
      BY <1>2 DEF os_set_membind
    <2>2. CASE r \in Refuse("ENOSYS")
      BY <1>k, <1>r, <2>2
    <2>3. CASE r \notin Refuse("ENOSYS")
      <3> DEFINE m == CpusOf(ns)
      <3>1. /\ r \in ra_attachrset(hook, m)
            /\ "NOCPUBIND" \notin flags /\ policy \in {"DEFAULT", "BIND"}
        BY <2>1, <2>3 DEF aix_set_sth_membind
      <3>2. m \subseteq AllPUs
        BY NodeProcessors
      <3>3. os \in TwoSets
        BY <1>2 DEF TwoSets
      <3>4. SetOf(r.k, Whom(hook)) = m => Holds(r.k, ns, policy, "STRICT" \in flags, Whom(hook))
        BY <1>2, <3>1 DEF Holds
      <3> HIDE DEF m
      <3> QED BY <1>l, <3>1, <3>2, <3>3, <3>4
    <2> QED BY <2>2, <2>3
  <1>3. CASE os = "windows"
    <2>1. r \in win_set_membind(hook, ns, policy, flags)
      BY <1>3 DEF os_set_membind
    <2>2. CASE r \in Refuse("ENOSYS")
      BY <1>k, <1>r, <2>2
    <2>3. CASE r \notin Refuse("ENOSYS")
      <3> DEFINE m == ULong(CpusOf(ns))
      <3>1. /\ r \in ra_attachrset(hook, m)
            /\ "NOCPUBIND" \notin flags /\ policy \in {"DEFAULT", "BIND"}
        BY <2>1, <2>3 DEF win_set_membind, win_set_cpubind, ra_attachrset
      <3>2. m \subseteq AllPUs
        BY NodeProcessors DEF ULong
      <3>3. os \in TwoSets
        BY <1>3 DEF TwoSets
      <3>4. SetOf(r.k, Whom(hook)) = m => Holds(r.k, ns, policy, "STRICT" \in flags, Whom(hook))
        BY <1>3, <3>1 DEF Holds
      <3> HIDE DEF m
      <3> QED BY <1>l, <3>1, <3>2, <3>3, <3>4
    <2> QED BY <2>2, <2>3
  <1>4. CASE os = "solaris"
    <2>1. r \in solaris_set_sth_membind(ns, policy, flags)
      BY <1>4 DEF os_set_membind
    <2>2. CASE r \in Refuse("ENOSYS") \/ r \in Refuse("EXDEV")
      BY <1>k, <1>r, <1>4, <2>2
    <2>3. CASE ~(r \in Refuse("ENOSYS") \/ r \in Refuse("EXDEV"))
      <3> DEFINE l == (k.lgrp \ NodeObjs) \cup (ns \cap NodeObjs)
                 kk == [k EXCEPT !.lgrp = l]
      <3>1. /\ r = [ret |-> "ok", k |-> kk] /\ "NOCPUBIND" \notin flags
            /\ policy \in {"DEFAULT", "BIND"}
        BY <2>1, <2>3 DEF solaris_set_sth_membind
      <3>2. l \in SUBSET Nodes
        BY <1>k DEF Kernel, NodeObjs
      <3>3. t.sets = Machine => l \cap Machine.allnodes = ns
        BY NodesAssumption DEF NodeObjs, Nodes
      <3> HIDE DEF l
      <3>4. kk \in Kernel /\ kk.lgrp = l
        BY <1>k, <3>2 DEF Kernel
      <3> HIDE DEF kk
      <3> QED BY <1>4, <3>1, <3>3, <3>4 DEF Holds, TwoSets
    <2> QED BY <2>2, <2>3
  <1> QED BY <1>1, <1>2, <1>3, <1>4

\* hwloc_fix_membind accepts nodesets inside the complete nodeset, and extends
\* those that hold every usable node: the result stands for what was given.
LEMMA FixMembind ==
  ASSUME NEW ns, hwloc_fix_membind(ns).ret = "ok"
  PROVE  LET s == hwloc_fix_membind(ns).set
         IN  /\ s \in SUBSET t.sets.allnodes /\ s # {} /\ ns \subseteq t.sets.allnodes
             /\ t.sets = Machine => Stands(s, ns)
  <1> DEFINE s == hwloc_fix_membind(ns).set
  <1>1. /\ ns # {} /\ ns \subseteq t.sets.allnodes
        /\ s = IF t.sets.nodeset \subseteq ns THEN t.sets.allnodes ELSE ns
    BY DEF hwloc_fix_membind
  <1>2. s # {} /\ s \in SUBSET t.sets.allnodes
    BY <1>1
  <1>3. t.sets = Machine => Stands(s, ns)
    BY <1>1, <1>2 DEF Stands, WithCpus
  <1> QED BY <1>1, <1>2, <1>3

\* The cpuset form: the nodes of the set, or all of them when it holds every
\* usable processor.
LEMMA FixMembindCpuset ==
  ASSUME NEW set, hwloc_fix_membind_cpuset(set).ret = "ok",
         hwloc_fix_membind(hwloc_fix_membind_cpuset(set).set).ret = "ok"
  PROVE  LET s == hwloc_fix_membind(hwloc_fix_membind_cpuset(set).set).set
         IN  /\ s \in SUBSET t.sets.allnodes /\ s # {}
             /\ t.sets = Machine =>
                  cpuset_to_nodeset(set) \subseteq t.sets.allnodes
                    /\ Stands(s, cpuset_to_nodeset(set))
  <1> DEFINE ns == cpuset_to_nodeset(set)
             f == hwloc_fix_membind_cpuset(set)
             s == hwloc_fix_membind(f.set).set
  <1>1. f.set = IF t.sets.cpuset \subseteq set THEN t.sets.allnodes ELSE ns
    BY DEF hwloc_fix_membind_cpuset
  <1>2. /\ s \in SUBSET t.sets.allnodes /\ s # {}
        /\ t.sets = Machine => Stands(s, f.set)
    BY FixMembind
  <1>3. ns \subseteq t.sets.allnodes
    BY DEF cpuset_to_nodeset, NodeObjs
  <1>4. ASSUME t.sets = Machine PROVE Stands(s, ns)
    <2>1. CASE ~(t.sets.cpuset \subseteq set)
      BY <1>1, <1>2, <1>4, <2>1
    <2>2. CASE t.sets.cpuset \subseteq set
      <3>1. WithCpus(Machine.allnodes) \subseteq ns
        BY <1>4, <2>2, NodesAssumption, MachineAssumption
           DEF WithCpus, cpuset_to_nodeset, NodeObjs, Nodes
      <3>2. f.set = Machine.allnodes
        BY <1>1, <1>4, <2>2
      <3>3. Machine.nodeset \subseteq s
        BY <1>2, <1>4, <3>2, MachineAssumption DEF Stands
      <3>4. WithCpus(s) \subseteq WithCpus(Machine.allnodes)
        BY <1>2, <1>4 DEF WithCpus
      <3> HIDE DEF s, ns, f
      <3> QED BY <1>2, <3>1, <3>3, <3>4 DEF Stands
    <2> QED BY <2>1, <2>2
  <1> HIDE DEF s, ns, f
  <1> QED BY <1>2, <1>3, <1>4 DEF s, ns, f

\* A memory binding call leaves the invariant, when what it hands to the system
\* stands for the nodes it was asked for.
LEMMA SetMembindKeeps ==
  ASSUME LInv, HInv, BInv, UNCHANGED lvars, NEW ns, NEW f, NEW flags,
         NEW policy \in MemPolicies,
         NEW hook \in {"set_thisproc_membind", "set_thisthread_membind", "set_proc_membind"},
         f.ret = "ok" => /\ f.set \in SUBSET t.sets.allnodes /\ f.set # {}
                         /\ t.sets = Machine
                              => ns \subseteq t.sets.allnodes /\ Stands(f.set, ns),
         SetMembind(hook, ns, f, policy, flags)
  PROVE  BInv'
  <1>o. os' = os
    BY DEF lvars
  <1>p. policy \in Policies
    BY ArgsAssumption
  <1>f. hook \in Fields
    BY FieldNames DEF MemHooks
  <1>h. t.hook[hook] \in {"null", "dont", "os"} /\ (t.hook[hook] = "os" => hook \in HooksOf(os))
    BY <1>f, SystemHooks
  <1>1. CASE NoEffect
    BY <1>1, <1>o, Unaffected DEF NoEffect
  <1>2. CASE ~NoEffect
    <2>1. f.ret = "ok" /\ t.hook[hook] = "os"
      BY <1>2, <1>h DEF SetMembind
    <2> DEFINE c == IF "NOCPUBIND" \in flags THEN asked.cpu ELSE {}
               m == IF t.sets = Machine THEN ns ELSE {}
               st == "STRICT" \in flags
               w == Whom(hook)
    <2>2. PICK r \in os_set_membind(hook, f.set, policy, flags) :
             /\ k' = r.k
             /\ asked' = IF r.ret # "ok" THEN asked
                         ELSE [cpu |-> c, mem |-> m, policy |-> policy, strict |-> st,
                               who |-> w]
             /\ UNCHANGED block
      BY <2>1 DEF SetMembind
    <2>3. os \in {"linux", "aix", "solaris", "windows"}
      BY <1>h, <2>1, MemSystems DEF BInv, BindTypes
    <2>4. /\ r.k \in Kernel
          /\ r.ret # "ok" => r.k = k
          /\ os # "solaris" => r.k.pin = k.pin /\ r.k.lgrp = k.lgrp
          /\ os \in TwoSets /\ r.ret = "ok" => r.k.aff \subseteq r.k.proc
          /\ r.ret = "ok" /\ "NOCPUBIND" \in flags => r.k.aff = k.aff /\ os \notin TwoSets
          /\ r.ret = "ok" /\ t.sets = Machine => Holds(r.k, f.set, policy, st, w)
      BY <1>p, <2>1, <2>3, HandleSets, MembindOutcome DEF BInv
    <2>5. /\ c \in SUBSET AllPUs /\ m \in SUBSET Machine.allnodes /\ asked \in Request
          /\ st \in BOOLEAN /\ w \in {"process", "thread"}
      BY <2>1 DEF BInv, BindTypes, Request, Whom
    <2>6. /\ "NOCPUBIND" \in flags => c = asked.cpu
          /\ "NOCPUBIND" \notin flags => c = {}
          /\ t.sets = Machine => m = ns
          /\ t.sets # Machine => m = {}
      OBVIOUS
    <2> HIDE DEF c, m, st, w
    <2>7. /\ asked' \in Request
          /\ r.ret = "ok" => /\ asked'.cpu = c /\ asked'.mem = m /\ asked'.policy = policy
                             /\ asked'.strict = st /\ asked'.who = w
          /\ r.ret # "ok" => asked' = asked
      BY <1>p, <2>2, <2>5 DEF Request
    <2>8. CASE r.ret # "ok"
      BY <1>o, <2>2, <2>4, <2>7, <2>8, Unaffected
    <2>9. CASE r.ret = "ok"
      <3>1. BindTypes'
        BY <1>o, <2>2, <2>4, <2>7 DEF BInv, BindTypes
      <3>2. OneBinding'
        BY <1>o, <2>2, <2>4 DEF BInv, OneBinding
      <3>i. InProcess'
        BY <1>o, <2>2, <2>4, <2>9 DEF InProcess
      <3>3. CpuKept'
        BY <1>o, <2>2, <2>4, <2>6, <2>7, <2>9 DEF BInv, CpuKept
      <3>4. MemKept'
        <4> SUFFICES ASSUME asked'.mem # {}
                     PROVE  \E bound \in SUBSET Machine.allnodes :
                              /\ Stands(bound, asked'.mem)
                              /\ Holds(k, bound, asked.policy, asked.strict, asked.who)'
          BY DEF MemKept
        <4>1. t.sets = Machine /\ asked'.mem = ns
          BY <2>6, <2>7, <2>9
        <4>2. f.set \in SUBSET Machine.allnodes /\ Stands(f.set, asked'.mem)
          BY <2>1, <4>1
        <4>3. Holds(k, f.set, asked.policy, asked.strict, asked.who)'
          BY <1>o, <2>2, <2>4, <2>7, <2>9, <4>1 DEF Holds, LinuxHolds, SetOf
        <4> QED BY <4>2, <4>3
      <3>5. BlockKept'
        BY <1>o, <2>2 DEF BInv, BlockKept, KindOf
      <3> QED BY <3>1, <3>2, <3>i, <3>3, <3>4, <3>5 DEF BInv
    <2> QED BY <2>8, <2>9
  <1> QED BY <1>1, <1>2

------------------------------------------------------------------------------
(* Areas and allocation.                                                     *)

\* The policy that a page gets is one of those a page can have.
LEMMA AreaOutcome ==
  ASSUME os \in {"linux", "osf", "solaris"}, t.sets \in {NoSets, Machine, Foreign},
         NEW ns \in SUBSET t.sets.allnodes, NEW policy \in Policies, NEW flags,
         NEW r \in os_set_area_membind(ns, policy, flags)
  PROVE  r.pol \in [mode : Modes, mask : SUBSET NodeNames]
  <1>n. ns \in SUBSET NodeNames
    <2>1. NoSets.allnodes = {}
      BY DEF NoSets
    <2> QED BY <2>1 DEF NodeNames
  <1>d. DefaultPolicy \in [mode : Modes, mask : SUBSET NodeNames]
    BY DEF DefaultPolicy, Modes, Policies
  <1>a. ASSUME NEW mode \in Modes, NEW mask \in SUBSET NodeNames, r \in AreaBound(mode, mask)
        PROVE  r.pol \in [mode : Modes, mask : SUBSET NodeNames]
    BY <1>a, <1>d DEF AreaBound
  <1>r. ASSUME NEW e, r \in AreaRefused(e)
        PROVE  r.pol \in [mode : Modes, mask : SUBSET NodeNames]
    BY <1>r, <1>d DEF AreaRefused
  <1>1. CASE os = "linux"
    <2> DEFINE mode == linux_membind_policy_from_hwloc(policy, flags)
    <2>1. r \in linux_set_area_membind(ns, policy, flags)
      BY <1>1 DEF os_set_area_membind
    <2>2. mode \in Modes \cup {"ENOSYS"}
      BY DEF linux_membind_policy_from_hwloc, Modes, Policies
    <2> DEFINE kept == Kept(mode, ns)
    <2>3. \/ r \in AreaRefused("ENOSYS") \/ r \in AreaRefused("EINVAL")
          \/ mode # "ENOSYS" /\ r \in AreaBound(mode, {})
          \/ mode # "ENOSYS" /\ r \in AreaBound(mode, kept)
      BY <2>1 DEF linux_set_area_membind
    <2>4. kept \in SUBSET NodeNames
      BY <1>n DEF Kept
    <2> HIDE DEF mode, kept
    <2> QED BY <1>a, <1>r, <2>2, <2>3, <2>4
  <1>2. CASE os = "osf"
    <2>1. r \in AreaRefused("ENOSYS") \/ r \in AreaBound(policy, ns)
      BY <1>2 DEF os_set_area_membind, osf_set_area_membind
    <2> QED BY <1>n, <1>a, <1>r, <2>1 DEF Modes
  <1>3. CASE os = "solaris"
    <2>1. r \in AreaRefused("ENOSYS") \/ r \in AreaRefused("EXDEV") \/ r \in AreaBound(policy, ns)
      BY <1>3 DEF os_set_area_membind, solaris_set_area_membind
    <2> QED BY <1>n, <1>a, <1>r, <2>1 DEF Modes
  <1> QED BY <1>1, <1>2, <1>3

\* The systems that bind areas.
LEMMA AreaSystems ==
  ASSUME os \in Systems, "set_area_membind" \in HooksOf(os)
  PROVE  os \in {"linux", "osf", "solaris"}
  <1>1. "set_area_membind" \notin HooksOf("darwin")
    BY DEF HooksOf, set_darwin_hooks
  <1>2. "set_area_membind" \notin HooksOf("aix")
    BY DEF HooksOf, set_aix_hooks, AllocHooks, CpuHooks, MemHooks
  <1>3. "set_area_membind" \notin HooksOf("freebsd")
    BY DEF HooksOf, set_freebsd_hooks, CpuHooks
  <1>4. "set_area_membind" \notin HooksOf("hpux")
    BY DEF HooksOf, set_hpux_hooks, AllocHooks
  <1>5. "set_area_membind" \notin HooksOf("windows")
    BY DEF HooksOf, set_windows_hooks, AllocHooks, CpuHooks, MemHooks
  <1> QED BY <1>1, <1>2, <1>3, <1>4, <1>5, SystemsAssumption

\* Binding an area changes nothing but its pages.
LEMMA SetAreaKeeps ==
  ASSUME LInv, HInv, BInv, UNCHANGED lvars, hwloc_set_area_membind
  PROVE  BInv'
  <1>o. os' = os
    BY DEF lvars
  <1> DEFINE h == t.hook["set_area_membind"]
  <1>f. "set_area_membind" \in Fields
    BY FieldNames DEF MemHooks
  <1>h. h \in {"null", "dont", "os"} /\ (h = "os" => "set_area_membind" \in HooksOf(os))
    BY <1>f, SystemHooks
  <1>1. CASE NoEffect
    BY <1>1, <1>o, Unaffected DEF NoEffect
  <1>2. CASE ~NoEffect
    <2>1. PICK ns \in NodeArgs, flags \in MemFlags, policy \in MemPolicies,
               pages \in (SUBSET Pages) \ {{}} :
            /\ hwloc_fix_membind(ns).ret = "ok" /\ h = "os"
            /\ \E r \in os_set_area_membind(hwloc_fix_membind(ns).set, policy, flags) :
                 /\ k' = IF r.ret # "ok" THEN k
                         ELSE [k EXCEPT !.pages = [p \in Pages |->
                                 IF p \in pages THEN r.pol ELSE k.pages[p]]]
                 /\ UNCHANGED <<asked, block>>
      BY <1>2, <1>h DEF hwloc_set_area_membind
    <2> DEFINE s == hwloc_fix_membind(ns).set
    <2>2. s \in SUBSET t.sets.allnodes
      BY <2>1, FixMembind
    <2> HIDE DEF s, h
    <2>3. PICK r \in os_set_area_membind(s, policy, flags) :
                 /\ k' = IF r.ret # "ok" THEN k
                         ELSE [k EXCEPT !.pages = [p \in Pages |->
                                 IF p \in pages THEN r.pol ELSE k.pages[p]]]
                 /\ UNCHANGED <<asked, block>>
      BY <2>1 DEF s
    <2>4. os \in {"linux", "osf", "solaris"}
      BY <1>h, <2>1, AreaSystems DEF BInv, BindTypes
    <2>5. r.pol \in [mode : Modes, mask : SUBSET NodeNames]
      BY <2>2, <2>3, <2>4, HandleSets, ArgsAssumption, AreaOutcome
    <2> DEFINE g == [p \in Pages |-> IF p \in pages THEN r.pol ELSE k.pages[p]]
               kk == [k EXCEPT !.pages = g]
    <2>6. k \in Kernel
      BY DEF BInv, BindTypes
    <2>7. g \in [Pages -> [mode : Modes, mask : SUBSET NodeNames]]
      BY <2>5, <2>6 DEF Kernel
    <2>8. k' = k \/ k' = kk
      BY <2>3
    <2> HIDE DEF g
    <2>9. /\ kk \in Kernel /\ kk.aff = k.aff /\ kk.pin = k.pin /\ kk.lgrp = k.lgrp
          /\ kk.mem = k.mem /\ kk.proc = k.proc
      BY <2>6, <2>7 DEF Kernel
    <2> HIDE DEF kk
    <2>10. asked' = asked /\ block' = block
      BY <2>3
    <2>11. /\ k' \in Kernel /\ k'.aff = k.aff /\ k'.pin = k.pin /\ k'.lgrp = k.lgrp
           /\ k'.mem = k.mem /\ k'.proc = k.proc
      BY <2>6, <2>8, <2>9
    <2> QED BY <1>o, <2>10, <2>11 DEF BInv, BindTypes, OneBinding, InProcess, CpuKept, MemKept,
                                     Holds, LinuxHolds, SetOf, BlockKept, KindOf
  <1> QED BY <1>1, <1>2

\* A system that sets the hook of plain allocations sets the one of releases,
\* and so does one that allocates bound memory.  A system that only binds areas
\* leaves plain allocation to the heap.
LEMMA AllocPairs ==
  ASSUME NEW s \in Systems
  PROVE  /\ "alloc" \in HooksOf(s) <=> "free_membind" \in HooksOf(s)
         /\ "alloc_membind" \in HooksOf(s)
              => /\ "free_membind" \in HooksOf(s)
                 /\ s \in {"linux", "aix", "osf", "hpux", "windows"}
         /\ "set_area_membind" \in HooksOf(s) /\ "alloc_membind" \notin HooksOf(s)
              => "alloc" \notin HooksOf(s)
  <1>1. CASE s = "linux"
    BY <1>1 DEF HooksOf, set_linuxfs_hooks, AllocHooks
  <1>2. CASE s = "aix"
    BY <1>2 DEF HooksOf, set_aix_hooks, AllocHooks, MemHooks, CpuHooks
  <1>3. CASE s = "osf"
    BY <1>3 DEF HooksOf, set_osf_hooks, AllocHooks
  <1>4. CASE s = "hpux"
    BY <1>4 DEF HooksOf, set_hpux_hooks, AllocHooks
  <1>5. CASE s = "windows"
    BY <1>5 DEF HooksOf, set_windows_hooks, AllocHooks, MemHooks, CpuHooks
  <1>6. CASE s = "solaris"
    BY <1>6 DEF HooksOf, set_solaris_hooks, CpuHooks, MemHooks
  <1>7. CASE s = "freebsd"
    BY <1>7 DEF HooksOf, set_freebsd_hooks, CpuHooks
  <1>8. CASE s = "darwin"
    BY <1>8 DEF HooksOf, set_darwin_hooks
  <1> QED BY <1>1, <1>2, <1>3, <1>4, <1>5, <1>6, <1>7, <1>8, SystemsAssumption

\* Blocks that the release hook of the handle releases as they were allocated.
Fits(b) == b.how # "mismatch" /\ (~b.null => b.how = KindOf(t.hook["free_membind"]))

\* Plain allocation goes with the release hook, in every table.
LEMMA PlainFits ==
  ASSUME HInv, os \in Systems, NEW flags
  PROVE  /\ AllocKind = KindOf(t.hook["free_membind"])
         /\ Fits(Null) /\ Fits(hwloc_alloc_or_fail(flags)) /\ Fits(hwloc_alloc)
  <1>1. "alloc" \in Fields /\ "free_membind" \in Fields
    BY FieldNames DEF AllocHooks
  <1>2. t.hook["alloc"] = "os" <=> t.hook["free_membind"] = "os"
    <2>1. CASE ~t.loaded
      BY <1>1, <2>1 DEF HInv, Quiet
    <2>2. CASE t.loaded /\ OwnTable(t)
      BY <1>1, <2>2, AllocPairs DEF OwnTable
    <2>3. CASE t.loaded /\ DontTable(t)
      BY <1>1, <2>3 DEF DontTable
    <2> QED BY <2>1, <2>2, <2>3 DEF HInv, NoForeign
  <1>3. AllocKind = KindOf(t.hook["free_membind"])
    BY <1>2 DEF AllocKind, KindOf
  <1>4. KindOf(t.hook["free_membind"]) # "mismatch"
    BY DEF KindOf
  <1>5. Fits(Null)
    BY DEF Null, Fits
  <1>6. Fits(hwloc_alloc)
    BY <1>3, <1>4 DEF Fits, hwloc_alloc, Block
  <1> QED BY <1>3, <1>5, <1>6 DEF hwloc_alloc_or_fail

\* What a system's alloc_membind hook returns goes with its release hook.
LEMMA HookFits ==
  ASSUME HInv, os \in Systems, t.hook["alloc_membind"] = "os",
         NEW ns, NEW policy, NEW flags, NEW b \in os_alloc_membind(ns, policy, flags)
  PROVE  Fits(b)
  <1>1. "alloc_membind" \in Fields /\ "free_membind" \in Fields
    BY FieldNames DEF AllocHooks, MemHooks
  <1>2. t.loaded /\ OwnTable(t)
    BY <1>1 DEF HInv, NoForeign, Quiet, DontTable
  <1>3. /\ t.hook["free_membind"] = "os"
        /\ os \in {"linux", "aix", "osf", "hpux", "windows"}
    BY <1>1, <1>2, AllocPairs DEF OwnTable
  <1>4. ASSUME os # "windows", NEW x PROVE Fits(Block("mmap", x))
    BY <1>3, <1>4 DEF Fits, Block, KindOf
  <1>5. CASE os = "linux"
    <2>1. b \in linux_alloc_membind(ns, policy, flags)
      BY <1>5 DEF os_alloc_membind
    <2>2. PICK r \in linux_set_area_membind(ns, policy, flags) :
            b = IF r.ret # "ok" /\ policy \in StrictBit THEN Null
                ELSE Block("mmap", r.ret = "ok")
      BY <2>1 DEF linux_alloc_membind
    <2> QED BY <1>4, <1>5, <2>2, PlainFits
  <1>6. CASE os = "aix"
    BY <1>4, <1>6, PlainFits DEF os_alloc_membind, aix_alloc_membind
  <1>7. CASE os = "osf"
    BY <1>4, <1>7, PlainFits DEF os_alloc_membind, osf_alloc_membind
  <1>8. CASE os = "hpux"
    BY <1>4, <1>8, PlainFits DEF os_alloc_membind, hpux_alloc_membind
  <1>9. CASE os = "windows"
    <2>1. Fits(Block("VirtualAlloc", TRUE))
      BY <1>3, <1>9 DEF Fits, Block, KindOf
    <2> QED BY <1>9, <2>1, PlainFits DEF os_alloc_membind, win_alloc_membind
  <1> QED BY <1>3, <1>5, <1>6, <1>7, <1>8, <1>9

\* So does whatever hwloc_alloc_membind_nodeset falls back to.
LEMMA MembindFits ==
  ASSUME HInv, os \in Systems, NEW f, NEW policy, NEW flags,
         NEW b \in AllocMembindNodeset(f, policy, flags)
  PROVE  Fits(b)
  <1>1. "alloc_membind" \in Fields /\ "free_membind" \in Fields
    BY FieldNames DEF AllocHooks, MemHooks
  <1>2. CASE b = hwloc_alloc_or_fail(flags)
    BY <1>2, PlainFits
  <1>3. CASE t.hook["alloc_membind"] = "dont" /\ b = Block("heap", FALSE)
    <2>1. t.hook["free_membind"] # "os"
      BY <1>1, <1>3 DEF HInv, NoForeign, Quiet, OwnTable, DontTable
    <2> QED BY <1>3, <2>1 DEF Fits, Block, KindOf
  <1>4. CASE t.hook["alloc_membind"] = "os" /\ b \in os_alloc_membind(f.set, policy, flags)
    BY <1>4, HookFits
  <1>5. CASE /\ t.hook["alloc_membind"] \notin {"os", "dont"} /\ t.hook["set_area_membind"] = "os"
             /\ \E r \in os_set_area_membind(f.set, policy, flags) :
                  b = IF r.ret # "ok" /\ "STRICT" \in flags THEN FreedPlain
                      ELSE Block(AllocKind, r.ret = "ok")
    <2>1. PICK r \in os_set_area_membind(f.set, policy, flags) :
               b = IF r.ret # "ok" /\ "STRICT" \in flags THEN FreedPlain
                   ELSE Block(AllocKind, r.ret = "ok")
      BY <1>5
    <2>2. ASSUME NEW x PROVE Fits(Block(AllocKind, x))
      <3>1. AllocKind = KindOf(t.hook["free_membind"]) /\ KindOf(t.hook["free_membind"]) # "mismatch"
        BY PlainFits DEF KindOf
      <3> QED BY <3>1 DEF Fits, Block
    <2>3. Fits(FreedPlain)
      <3>1. "set_area_membind" \in Fields /\ "alloc" \in Fields
        BY FieldNames DEF AllocHooks, MemHooks
      <3>2. t.loaded /\ OwnTable(t)
        BY <1>5, <3>1 DEF HInv, NoForeign, Quiet, DontTable
      <3>3. t.hook["alloc"] # "os"
        BY <1>1, <1>5, <3>1, <3>2, AllocPairs DEF OwnTable
      <3>4. AllocKind = "heap"
        BY <3>3 DEF AllocKind
      <3> QED BY <3>4 DEF FreedPlain, Null, Fits
    <2> QED BY <2>1, <2>2, <2>3
  <1> QED BY <1>2, <1>3, <1>4, <1>5 DEF AllocMembindNodeset

\* An allocation that fits leaves the invariant.
LEMMA AllocateKeeps ==
  ASSUME BInv, UNCHANGED lvars, NEW flags, NEW blocks, \A b \in blocks : Fits(b),
         Allocate(flags, blocks)
  PROVE  BInv'
  <1>1. PICK b \in blocks :
          block' = [how |-> b.how, null |-> b.null, bound |-> b.bound,
                    hook |-> t.hook["free_membind"], strict |-> "STRICT" \in flags]
    BY DEF Allocate
  <1>2. os' = os /\ k' = k /\ asked' = asked
    BY DEF Allocate, lvars
  <1>3. BlockKept'
    BY <1>1, <1>2 DEF BlockKept, Fits, KindOf
  <1> QED BY <1>2, <1>3 DEF BInv, BindTypes, OneBinding, InProcess, CpuKept, MemKept, Holds,
                           LinuxHolds, SetOf

\* Releasing with the hook that was there at the allocation releases as
\* allocated.
LEMMA FreeKeeps ==
  ASSUME BInv, UNCHANGED lvars, hwloc_free
  PROVE  BInv'
  <1>1. os' = os /\ k' = k /\ asked' = asked
    BY DEF hwloc_free, lvars
  <1>2. FreeKind = KindOf(t.hook["free_membind"])
    BY DEF FreeKind, KindOf
  <1> DEFINE h == IF FreeKind = block.how THEN "released"
                  ELSE IF t.hook["free_membind"] = block.hook
                  THEN "mismatch" ELSE "other handle"
  <1>3. h # "mismatch"
    BY <1>2 DEF hwloc_free, BInv, BlockKept
  <1>4. block' = [NoBlock EXCEPT !.how = h]
    BY DEF hwloc_free
  <1> HIDE DEF h
  <1>5. block'.how = h /\ block'.null
    BY <1>4 DEF NoBlock
  <1>6. BlockKept'
    BY <1>3, <1>5 DEF BlockKept
  <1> QED BY <1>1, <1>6 DEF BInv, BindTypes, OneBinding, InProcess, CpuKept, MemKept, Holds,
                           LinuxHolds, SetOf

------------------------------------------------------------------------------
(* The invariant, and the properties it gives.                               *)

\* Every binding call leaves the invariant.
LEMMA CallKeeps ==
  ASSUME LInv, HInv, BInv, BindingCall PROVE BInv'
  <1>l. UNCHANGED lvars
    BY DEF BindingCall
  <1>s. os \in Systems
    BY DEF BInv, BindTypes
  <1>h. /\ "set_thisproc_cpubind" \in CpuHooks /\ "set_thisthread_cpubind" \in CpuHooks
        /\ "set_proc_cpubind" \in CpuHooks /\ "set_thread_cpubind" \in CpuHooks
    BY DEF CpuHooks
  <1>d. \A p, q, flags : Dispatch(p, q, flags) \in {p, q}
    BY DEF Dispatch
  <1>n. ASSUME NEW ns, hwloc_fix_membind(ns).ret = "ok"
        PROVE  LET s == hwloc_fix_membind(ns).set
               IN  /\ s \in SUBSET t.sets.allnodes /\ s # {}
                   /\ t.sets = Machine => ns \subseteq t.sets.allnodes /\ Stands(s, ns)
    BY <1>n, FixMembind
  <1>1. CASE hwloc_set_cpubind
    BY <1>1, <1>l, <1>h, <1>d, SetCpubindKeeps DEF hwloc_set_cpubind
  <1>2. CASE hwloc_set_proc_cpubind
    BY <1>2, <1>l, <1>h, SetCpubindKeeps DEF hwloc_set_proc_cpubind
  <1>3. CASE hwloc_set_thread_cpubind
    BY <1>3, <1>l, <1>h, SetCpubindKeeps DEF hwloc_set_thread_cpubind
  <1>4. CASE hwloc_set_membind_nodeset
    <2>1. PICK ns \in NodeArgs, flags \in MemFlags, policy \in MemPolicies :
            SetMembind(Dispatch("set_thisproc_membind", "set_thisthread_membind", flags),
                       ns, hwloc_fix_membind(ns), policy, flags)
      BY <1>4 DEF hwloc_set_membind_nodeset
    <2>2. Dispatch("set_thisproc_membind", "set_thisthread_membind", flags)
            \in {"set_thisproc_membind", "set_thisthread_membind", "set_proc_membind"}
      BY <1>d
    <2> QED BY <1>l, <1>n, <2>1, <2>2, SetMembindKeeps
  <1>5. CASE hwloc_set_membind
    <2>1. PICK set \in CpuArgs, flags \in MemFlags, policy \in MemPolicies :
            SetMembind(Dispatch("set_thisproc_membind", "set_thisthread_membind", flags),
                       cpuset_to_nodeset(set),
                       IF hwloc_fix_membind_cpuset(set).ret = "ok"
                       THEN hwloc_fix_membind(hwloc_fix_membind_cpuset(set).set)
                       ELSE hwloc_fix_membind_cpuset(set),
                       policy, flags)
      BY <1>5 DEF hwloc_set_membind
    <2> DEFINE f == hwloc_fix_membind_cpuset(set)
               g == IF f.ret = "ok" THEN hwloc_fix_membind(f.set) ELSE f
    <2>2. Dispatch("set_thisproc_membind", "set_thisthread_membind", flags)
            \in {"set_thisproc_membind", "set_thisthread_membind", "set_proc_membind"}
      BY <1>d
    <2>3. g.ret = "ok" => /\ g.set \in SUBSET t.sets.allnodes /\ g.set # {}
                          /\ t.sets = Machine =>
                               /\ cpuset_to_nodeset(set) \subseteq t.sets.allnodes
                               /\ Stands(g.set, cpuset_to_nodeset(set))
      <3>1. CASE f.ret # "ok"
        BY <3>1
      <3>2. CASE f.ret = "ok"
        BY <3>2, FixMembindCpuset
      <3> QED BY <3>1, <3>2
    <2>4. SetMembind(Dispatch("set_thisproc_membind", "set_thisthread_membind", flags),
                     cpuset_to_nodeset(set), g, policy, flags)
      BY <2>1
    <2> HIDE DEF g
    <2> QED BY <1>l, <2>2, <2>3, <2>4, SetMembindKeeps
  <1>6. CASE hwloc_set_proc_membind_nodeset
    <2>1. PICK ns \in NodeArgs, flags \in MemFlags, policy \in MemPolicies :
            SetMembind("set_proc_membind", ns, hwloc_fix_membind(ns), policy, flags)
      BY <1>6 DEF hwloc_set_proc_membind_nodeset
    <2> QED BY <1>l, <1>n, <2>1, SetMembindKeeps
  <1>7. CASE hwloc_set_area_membind
    BY <1>7, <1>l, SetAreaKeeps
  <1>8. CASE hwloc_alloc_membind_nodeset
    BY <1>8, <1>l, <1>s, MembindFits, AllocateKeeps DEF hwloc_alloc_membind_nodeset
  <1>9. CASE hwloc_alloc_membind
    <2>1. PICK set \in CpuArgs, flags \in MemFlags, policy \in Policies :
            Allocate(flags,
                     IF hwloc_fix_membind_cpuset(set).ret # "ok"
                     THEN {hwloc_alloc_or_fail(flags)}
                     ELSE AllocMembindNodeset(
                            hwloc_fix_membind(hwloc_fix_membind_cpuset(set).set), policy, flags))
      BY <1>9 DEF hwloc_alloc_membind
    <2>2. CASE hwloc_fix_membind_cpuset(set).ret # "ok"
      BY <1>l, <1>s, <2>1, <2>2, PlainFits, AllocateKeeps
    <2>3. CASE hwloc_fix_membind_cpuset(set).ret = "ok"
      BY <1>l, <1>s, <2>1, <2>3, MembindFits, AllocateKeeps
    <2> QED BY <2>2, <2>3
  <1>10. CASE AllocPlain
    BY <1>10, <1>l, <1>s, PlainFits, AllocateKeeps DEF AllocPlain
  <1>11. CASE hwloc_free
    BY <1>11, <1>l, FreeKeeps
  <1> QED BY <1>1, <1>2, <1>3, <1>4, <1>5, <1>6, <1>7, <1>8, <1>9, <1>10, <1>11 DEF BindingCall

\* The calls of Lifecycle keep the system of the build.
LEMMA SameSystem == ASSUME LNext PROVE os' = os
  BY DEF LNext, hwloc_topology_init, hwloc_topology_set_flags,
         hwloc_topology_set_fsroot, hwloc_topology_set_synthetic,
         hwloc_topology_set_xml, hwloc_topology_set_custom, hwloc_custom_insert,
         Load, hwloc_topology_destroy, Configure

\* A fresh process satisfies the invariant.
LEMMA InitBinding == ASSUME Init PROVE BInv
  <1>1. /\ os \in Systems /\ k = FreshKernel /\ asked = Nothing /\ block = NoBlock
    BY DEF Init, LInit
  <1>2. DefaultPolicy \in [mode : Modes, mask : SUBSET NodeNames]
    BY DEF DefaultPolicy, Modes, Policies
  <1>3. k \in Kernel
    BY <1>1, <1>2 DEF FreshKernel, Kernel
  <1>4. k.pin = {} /\ k.lgrp = {} /\ k.aff = k.proc
    BY <1>1 DEF FreshKernel
  <1>5. asked \in Request /\ asked.cpu = {} /\ asked.mem = {}
    BY <1>1 DEF Nothing, Request, Policies
  <1>6. block.how = "none" /\ block.null
    BY <1>1 DEF NoBlock
  <1> QED BY <1>1, <1>3, <1>4, <1>5, <1>6
          DEF BInv, BindTypes, OneBinding, InProcess, CpuKept, MemKept, BlockKept

\* Whatever the system, the machine, the arguments and the order of calls, the
\* kernel still has the last binding that a call reported as made, and a block
\* is of the kind that its release hook releases.
THEOREM BindingInvariant == Spec => []BInv
  <1>1. Init => BInv
    BY InitBinding
  <1>2. LInv /\ HInv /\ BInv /\ [Next]_vars => BInv'
    <2> SUFFICES ASSUME LInv, HInv, BInv, [Next]_vars PROVE BInv'
      OBVIOUS
    <2>1. CASE BindingCall
      BY <2>1, CallKeeps
    <2>2. CASE LNext /\ UNCHANGED <<k, asked, block, calls>>
      BY <2>2, SameSystem, Unaffected
    <2>3. CASE UNCHANGED vars
      BY <2>3, Unaffected DEF vars
    <2> QED BY <2>1, <2>2, <2>3 DEF Next
  <1> QED BY <1>1, <1>2, HandleInvariant, HookInvariant, PTL DEF Spec

\* Where the calling thread runs, but on Solaris.
LEMMA RunsInAffinity == ASSUME OneBinding, os # "solaris" PROVE Runs(k) = k.aff
  <1>1. CpusOf({}) = {}
    BY DEF CpusOf
  <1> QED BY <1>1 DEF OneBinding, Runs

\* After a successful processor binding the process stays inside the given set
\* (hwloc_fix_cpubind and every system's set functions), through failed calls
\* and reloads.
THEOREM StaysInside == Spec => []BoundInside
  <1>1. BInv => BoundInside
    BY RunsInAffinity DEF BInv, CpuKept, BoundInside
  <1> QED BY <1>1, BindingInvariant, PTL

\* What the system's get functions answer leaves out no processor the calling
\* thread may run on (but those beyond the unsigned long of Windows), adds none
\* where the set asked for is the thread's, and is inside what the process was
\* last bound to.
THEOREM AnswersTruly == Spec => []AnswerIsTrue
  <1>1. BInv /\ HInv => AnswerIsTrue
    <2> SUFFICES ASSUME BInv, HInv,
                        NEW n \in {"get_thisproc_cpubind", "get_thisthread_cpubind",
                                   "get_proc_cpubind", "get_thread_cpubind"},
                        t.sets = Machine, t.hook[n] = "os", os # "solaris"
                 PROVE  LET answer == GetCpubind(n, {}).set
                        IN  /\ (IF os = "windows" THEN ULong(Runs(k)) ELSE Runs(k))
                                 \subseteq answer
                            /\ os \notin TwoSets \/ OfThread(n) => answer \subseteq Runs(k)
                            /\ asked.cpu # {} /\ asked.who = "process"
                                 => answer \cap Machine.cpuset \subseteq asked.cpu
      BY DEF AnswerIsTrue
    <2> DEFINE answer == GetCpubind(n, {}).set
    <2>1. n \in HooksOf(os)
      BY FieldNames, SystemHooks DEF CpuHooks
    <2>2. os \notin {"osf", "hpux"}
      <3>1. n \notin HooksOf("osf")
        BY DEF HooksOf, set_osf_hooks, AllocHooks
      <3>2. n \notin HooksOf("hpux")
        BY DEF HooksOf, set_hpux_hooks, AllocHooks
      <3> QED BY <2>1, <3>1, <3>2
    <2>3. os \in {"linux", "aix", "windows", "freebsd"}
      BY <2>1, <2>2, CpuSystems DEF BInv, BindTypes
    <2>4. Runs(k) = k.aff
      BY RunsInAffinity DEF BInv
    <2>5. answer = os_get_cpubind(n, {}).set
      BY DEF GetCpubind
    <2>6. /\ k.aff \cap t.sets.complete = k.aff
          /\ k.proc \cap t.sets.complete = k.proc
      BY DEF BInv, BindTypes, Kernel, AllPUs
    <2>c. asked.cpu # {} => /\ k.aff \cap Machine.cpuset \subseteq asked.cpu
                            /\ os \in TwoSets /\ asked.who = "process"
                                 => k.proc \cap Machine.cpuset \subseteq asked.cpu
      BY <2>3 DEF BInv, CpuKept
    <2>7. CASE os \in {"linux", "freebsd"}
      <3>1. answer = k.aff
        BY <2>5, <2>7 DEF os_get_cpubind, linux_get_cpubind, freebsd_get_cpubind
      <3> HIDE DEF answer
      <3> QED BY <2>4, <2>7, <2>c, <3>1 DEF answer
    <2>9. CASE os = "windows"
      <3>1. answer = ULong(k.proc)
        BY <2>5, <2>9 DEF os_get_cpubind, win_get_cpubind
      <3>2. k.aff \subseteq k.proc
        BY <2>9 DEF BInv, InProcess, TwoSets
      <3>3. ULong(k.aff) \subseteq ULong(k.proc) /\ ULong(k.proc) \subseteq k.proc
        BY <3>2 DEF ULong
      <3>4. ~OfThread(n) /\ os \in TwoSets
        <4>1. /\ "get_thisthread_cpubind" \notin HooksOf("windows")
              /\ "get_thread_cpubind" \notin HooksOf("windows")
          BY DEF HooksOf, set_windows_hooks, CpuHooks, AllocHooks, MemHooks
        <4>2. n \notin {"get_thisthread_cpubind", "get_thread_cpubind"}
          BY <2>1, <2>9, <4>1
        <4> QED BY <2>9, <4>2 DEF OfThread, TwoSets
      <3> HIDE DEF answer
      <3> QED BY <2>4, <2>9, <2>c, <3>1, <3>3, <3>4 DEF answer
    <2>10. CASE os = "aix"
      <3>1. answer = IF OfThread(n) THEN k.aff ELSE k.proc
        BY <2>5, <2>6, <2>10 DEF os_get_cpubind, aix_get_sth_cpubind, ra_getrset
      <3>2. k.aff \subseteq k.proc /\ os \in TwoSets
        BY <2>10 DEF BInv, InProcess, TwoSets
      <3> HIDE DEF answer
      <3> QED BY <2>4, <2>10, <2>c, <3>1, <3>2 DEF answer
    <2> QED BY <2>3, <2>7, <2>9, <2>10
  <1> QED BY <1>1, BindingInvariant, HookInvariant, PTL

\* Memory is released with the routine of its kind: what any allocation call
\* returned fits the release hook that the handle's table has with it.
THEOREM ReleasedRight == Spec => []ReleasedAsAllocated
  <1>1. BInv => ReleasedAsAllocated
    BY DEF BInv, BlockKept, ReleasedAsAllocated
  <1> QED BY <1>1, BindingInvariant, PTL

\* Two nodes with a common processor are the same node.
LEMMA SharedProcessor ==
  ASSUME NEW n \in Nodes, NEW ns, NodeCpus[n] \cap CpusOf(ns) # {}
  PROVE  n \in ns
  <1>1. PICK c : c \in NodeCpus[n] /\ c \in CpusOf(ns)
    OBVIOUS
  <1>2. PICK m \in ns \cap Nodes : c \in NodeCpus[m]
    BY <1>1 DEF CpusOf
  <1>3. m = n
    BY <1>1, <1>2, NodesAssumption DEF Nodes
  <1> QED BY <1>2, <1>3

\* What each system's get function says of the nodes it was bound to.
LEMMA ReadBack ==
  ASSUME BInv, t.sets = Machine, asked.mem # {}, NEW n, n \in HooksOf(os),
         n \in {"get_thisproc_membind", "get_thisthread_membind", "get_proc_membind"},
         Whom(n) = asked.who
  PROVE  LET g == os_get_membind(n, {})
         IN  /\ asked.policy \in {"BIND", "INTERLEAVE"} =>
                  /\ g.ret = "ok"
                  /\ WithCpus(g.set) \subseteq asked.mem
                  /\ Preferred => g.set # {}
                  /\ os \in {"linux", "solaris"} /\ ~Preferred
                       => asked.mem \cap Machine.nodeset \subseteq g.set
                  /\ os = "aix" \/ (os = "windows" /\ AllPUs = ULong(AllPUs))
                       => WithCpus(asked.mem) \subseteq g.set
             /\ os = "linux" /\ asked.policy # "DEFAULT" => g.policy = asked.policy
  <1> DEFINE g == os_get_membind(n, {})
  <1>1. PICK bound \in SUBSET Machine.allnodes :
          /\ Stands(bound, asked.mem)
          /\ Holds(k, bound, asked.policy, asked.strict, asked.who)
    BY DEF BInv, MemKept
  <1>2. NodeObjs = Machine.allnodes /\ Machine.allnodes \subseteq Nodes /\ NodeObjs # {}
    BY <1>1, NodesAssumption DEF NodeObjs, Nodes, Stands
  <1>3. \A ns : WithCpus(ns) \subseteq Nodes /\ WithCpus(ns) \subseteq Machine.nodeset
                /\ WithCpus(ns) \subseteq ns
    BY <1>2, MachineAssumption DEF WithCpus
  <1>b. WithCpus(asked.mem) \subseteq bound
    BY <1>1 DEF WithCpus, Stands
  <1>4. CASE os = "linux"
    <2>1. g = linux_get_thisthread_membind({})
      BY <1>4 DEF os_get_membind
    <2>2. /\ g.ret = "ok" /\ g.policy = linux_membind_policy_to_hwloc(k.mem.mode)
          /\ k.mem.mode # "DEFAULT" => g.set = k.mem.mask
      BY <2>1 DEF linux_get_thisthread_membind
    <2> HIDE DEF g
    <2>h. LinuxHolds(k, bound, asked.policy, asked.strict)
      BY <1>1, <1>4 DEF Holds
    <2>3. /\ linux_membind_policy_to_hwloc("DEFAULT") = "FIRSTTOUCH"
          /\ linux_membind_policy_to_hwloc("BIND") = "BIND"
          /\ linux_membind_policy_to_hwloc("PREFERRED") = "BIND"
          /\ linux_membind_policy_to_hwloc("INTERLEAVE") = "INTERLEAVE"
      BY DEF linux_membind_policy_to_hwloc
    <2>4. os = "linux" /\ asked.policy # "DEFAULT" => g.policy = asked.policy
      BY <2>h, <2>2, <2>3 DEF LinuxHolds
    <2>5. asked.policy \in {"BIND", "INTERLEAVE"} =>
            g.set = Kept(k.mem.mode, bound) /\ g.set # {}
      BY <2>h, <2>2 DEF LinuxHolds
    <2>6. \A mode : Kept(mode, bound) \subseteq bound
      BY DEF Kept
    <2>7. asked.policy \in {"BIND", "INTERLEAVE"} => WithCpus(g.set) \subseteq asked.mem
      <3>1. asked.policy \in {"BIND", "INTERLEAVE"} => WithCpus(g.set) \subseteq WithCpus(bound)
        BY <2>5, <2>6 DEF WithCpus
      <3> QED BY <1>1, <3>1 DEF Stands
    <2>8. asked.policy \in {"BIND", "INTERLEAVE"} /\ ~Preferred
            => asked.mem \cap Machine.nodeset \subseteq g.set
      <3>1. asked.policy \in {"BIND", "INTERLEAVE"} /\ ~Preferred => k.mem.mode # "PREFERRED"
        BY <1>4, <2>h DEF LinuxHolds, Preferred
      <3>2. asked.policy \in {"BIND", "INTERLEAVE"} /\ ~Preferred
              => g.set = bound \cap Machine.nodeset
        BY <2>5, <3>1 DEF Kept
      <3> QED BY <1>1, <3>2 DEF Stands
    <2> QED BY <1>4, <2>2, <2>4, <2>5, <2>7, <2>8 DEF g
  <1>5. CASE os = "solaris"
    <2>1. k.lgrp \cap NodeObjs = bound
      BY <1>1, <1>2, <1>5 DEF Holds
    <2>2. g.ret = "ok" /\ g.set = bound
      BY <1>1, <1>2, <1>5, <2>1 DEF os_get_membind, solaris_get_sth_membind, Stands
    <2> HIDE DEF g
    <2> QED BY <1>1, <1>5, <2>2 DEF Stands, g, Preferred
  <1>s. SetOf(k, asked.who) \subseteq AllPUs
    BY DEF BInv, BindTypes, Kernel, SetOf
  <1>6. CASE os = "aix"
    <2>1. SetOf(k, asked.who) = CpusOf(bound)
      BY <1>1, <1>6 DEF Holds
    <2>2. ra_getrset(n) \cap t.sets.complete = CpusOf(bound)
      <3>1. ra_getrset(n) = SetOf(k, asked.who)
        BY <1>6 DEF ra_getrset, SetOf, Whom, TwoSets
      <3> QED BY <1>s, <2>1, <3>1 DEF AllPUs
    <2>3. g.ret = "ok" /\ g.set = {x \in NodeObjs : NodeCpus[x] \subseteq CpusOf(bound)}
      BY <1>2, <1>6, <2>2 DEF os_get_membind, aix_get_sth_membind
    <2> HIDE DEF g
    <2>4. WithCpus(g.set) \subseteq bound
      <3> SUFFICES ASSUME NEW x \in WithCpus(g.set) PROVE x \in bound
        OBVIOUS
      <3>1. x \in Nodes /\ NodeCpus[x] # {} /\ NodeCpus[x] \subseteq CpusOf(bound)
        BY <1>2, <2>3, MachineAssumption DEF WithCpus
      <3>2. NodeCpus[x] \cap CpusOf(bound) # {}
        BY <3>1
      <3> QED BY <3>1, <3>2, SharedProcessor
    <2>5. WithCpus(g.set) \subseteq WithCpus(bound)
      BY <2>4 DEF WithCpus
    <2>6. WithCpus(asked.mem) \subseteq g.set
      <3> SUFFICES ASSUME NEW x \in WithCpus(asked.mem) PROVE x \in g.set
        OBVIOUS
      <3>1. x \in bound /\ x \in NodeObjs /\ x \in Nodes
        BY <1>2, <1>b, <1>3
      <3>2. NodeCpus[x] \subseteq CpusOf(bound)
        BY <3>1 DEF CpusOf
      <3> QED BY <2>3, <3>1, <3>2
    <2> QED BY <1>1, <1>6, <2>3, <2>5, <2>6 DEF Stands, g, Preferred
  <1>7. CASE os = "windows"
    <2>p. asked.who = "process"
      <3>1. "get_thisthread_membind" \notin HooksOf("windows")
        BY DEF HooksOf, set_windows_hooks, CpuHooks, AllocHooks, MemHooks
      <3>2. n \in {"get_thisproc_membind", "get_proc_membind"}
        BY <1>7, <3>1
      <3>3. ~OfThread(n)
        BY <3>2 DEF OfThread
      <3> QED BY <3>3 DEF Whom
    <2>1. k.proc = ULong(CpusOf(bound))
      BY <1>1, <1>7, <2>p DEF Holds, SetOf
    <2>u. ULong(k.proc) = k.proc /\ k.proc \subseteq CpusOf(bound)
      BY <2>1 DEF ULong
    <2>2. g.ret = "ok" /\ g.set = {x \in NodeObjs : NodeCpus[x] \cap k.proc # {}}
      BY <1>7, <2>u DEF os_get_membind, win_get_membind, win_get_cpubind, cpuset_to_nodeset
    <2> HIDE DEF g
    <2>4. WithCpus(g.set) \subseteq bound
      <3> SUFFICES ASSUME NEW x \in WithCpus(g.set) PROVE x \in bound
        OBVIOUS
      <3>1. x \in Nodes /\ NodeCpus[x] \cap k.proc # {}
        BY <1>2, <2>2, MachineAssumption DEF WithCpus
      <3>2. NodeCpus[x] \cap CpusOf(bound) # {}
        BY <2>u, <3>1
      <3> QED BY <3>1, <3>2, SharedProcessor
    <2>5. WithCpus(g.set) \subseteq WithCpus(bound)
      BY <2>4 DEF WithCpus
    <2>6. ASSUME AllPUs = ULong(AllPUs) PROVE WithCpus(asked.mem) \subseteq g.set
      <3> SUFFICES ASSUME NEW x \in WithCpus(asked.mem) PROVE x \in g.set
        OBVIOUS
      <3>1. x \in bound /\ x \in NodeObjs /\ x \in Nodes /\ NodeCpus[x] # {}
        BY <1>2, <1>b, <1>3 DEF WithCpus
      <3>2. NodeCpus[x] \subseteq CpusOf(bound)
        BY <3>1 DEF CpusOf
      <3>3. k.proc = CpusOf(bound)
        BY <2>1, <2>6, NodeProcessors DEF ULong
      <3> QED BY <2>2, <3>1, <3>2, <3>3
    <2> QED BY <1>1, <1>7, <2>2, <2>5, <2>6 DEF Stands, g, Preferred
  <1>8. os \in {"linux", "solaris", "aix", "windows"}
    BY <1>1 DEF Holds
  <1> QED BY <1>4, <1>5, <1>6, <1>7, <1>8

\* The pages of an area, from the definition of the answer.
LEMMA ReportsArea == AreaReport
  <1> SUFFICES ASSUME NEW p \in Pages
               PROVE  LET g == linux_get_area_membind(Pages, {})
                      IN  /\ k.pages[p].mask \cap t.sets.nodeset \subseteq g.set
                          /\ g.policy # "MIXED"
                               => linux_membind_policy_to_hwloc(k.pages[p].mode) = g.policy
    BY DEF AreaReport
  <1> DEFINE first == CHOOSE q \in Pages : \A r \in Pages : q <= r
             last == CHOOSE q \in Pages : \A r \in Pages : q >= r
             mixed == \E q \in Pages : k.pages[q].mode # k.pages[first].mode
             full == \E q \in Pages : k.pages[q].mode = "DEFAULT"
             g == linux_get_area_membind(Pages, {})
  <1>1. last \in Pages
    <2>1. 2 \in Pages /\ \A r \in Pages : 2 >= r
      BY DEF Pages
    <2> QED BY <2>1
  <1>2. /\ g.policy = IF mixed THEN "MIXED"
                      ELSE linux_membind_policy_to_hwloc(k.pages[last].mode)
        /\ g.set = IF full THEN t.sets.nodeset ELSE UNION {k.pages[q].mask : q \in Pages}
    BY DEF linux_get_area_membind
  <1> HIDE DEF first, last, g, full
  <1>3. k.pages[p].mask \cap t.sets.nodeset \subseteq g.set
    BY <1>2
  <1>4. ~mixed => k.pages[p].mode = k.pages[last].mode
    BY <1>1
  <1> HIDE DEF mixed
  <1> QED BY <1>2, <1>3, <1>4 DEF g

\* A memory binding is read back as it was made, on every system that has one,
\* and the pages of a Linux area are reported with all their nodes and with one
\* policy only if they all have it.
THEOREM ReadsBack == Spec => []MembindReadBack
  <1>1. BInv /\ HInv => PolicyReadBack
    <2> SUFFICES ASSUME BInv, HInv,
                        NEW n \in {"get_thisproc_membind", "get_thisthread_membind",
                                   "get_proc_membind"},
                        asked.mem # {}, t.sets = Machine, t.hook[n] = "os",
                        Whom(n) = asked.who
                 PROVE  LET g == GetMembind(n, {})
                        IN  /\ asked.policy \in {"BIND", "INTERLEAVE"} =>
                                 /\ g.ret = "ok"
                                 /\ WithCpus(g.set) \subseteq asked.mem
                                 /\ Preferred => g.set # {}
                                 /\ os \in {"linux", "solaris"} /\ ~Preferred
                                      => asked.mem \cap Machine.nodeset \subseteq g.set
                                 /\ os = "aix" \/ (os = "windows" /\ AllPUs = ULong(AllPUs))
                                      => WithCpus(asked.mem) \subseteq g.set
                            /\ os = "linux" /\ asked.policy # "DEFAULT" => g.policy = asked.policy
      BY DEF PolicyReadBack
    <2>1. GetMembind(n, {}) = os_get_membind(n, {})
      BY DEF GetMembind
    <2>2. n \in HooksOf(os)
      BY FieldNames, SystemHooks DEF MemHooks
    <2> QED BY <2>1, <2>2, ReadBack
  <1>2. BInv /\ HInv => MembindReadBack
    BY <1>1, ReportsArea DEF MembindReadBack
  <1> QED BY <1>2, BindingInvariant, HookInvariant, PTL
==============================================================================
