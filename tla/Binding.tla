------------------------------- MODULE Binding -------------------------------
(***************************************************************************)
(* The binding calls of a program (bind.c): the checks on the given set,    *)
(* the choice of the hook, the hook itself, memory allocation and release,  *)
(* in any order with the calls of Lifecycle that change the hooks.          *)
(***************************************************************************)
EXTENDS SystemBind

CONSTANTS
  CpuArgs,     \* cpusets the program binds to
  CpuFlags,    \* flags it passes to the processor binding calls
  NodeArgs,    \* nodesets it binds to
  MemFlags,    \* flags it passes to the memory binding calls
  MemPolicies, \* policies it passes
  MaxCalls     \* bound on the binding calls of a behaviour

ASSUME ArgsAssumption == MemPolicies \subseteq Policies

VARIABLES
  asked,       \* the processor binding and memory binding last made
  block,       \* one block of memory of the program
  calls        \* number of binding calls made

vars == <<os, env, t, k, asked, block, calls>>

\* Whose set a hook is about.
Whom(hook) == IF os \in TwoSets /\ OfThread(hook) THEN "thread" ELSE "process"

Nothing == [cpu |-> {}, mem |-> {}, policy |-> "DEFAULT", strict |-> FALSE,
            who |-> "process"]
NoBlock == [how |-> "none", null |-> TRUE, bound |-> FALSE, hook |-> "null",
            strict |-> TRUE]

\* A call that fails, or that a fake hook answers, changes nothing.
NoEffect == UNCHANGED <<k, asked, block>>

------------------------------------------------------------------------------
(* Checking and extending the arguments.  A NULL set is empty here.          *)

\* Mutant: a set inside the cpuset is extended, a larger one is not.
hwloc_fix_cpubind_Swapped(set) ==
  [ret |-> IF set = {} \/ ~(set \subseteq t.sets.complete) THEN "EINVAL" ELSE "ok",
   set |-> IF set \subseteq t.sets.cpuset THEN t.sets.complete ELSE set]

hwloc_fix_cpubind(set) ==
  IF t.sets.cpuset = {} THEN [ret |-> "EXDEV", set |-> {}]
  ELSE IF set = {} \/ ~(set \subseteq t.sets.complete)
  THEN [ret |-> "EINVAL", set |-> {}]
  ELSE [ret |-> "ok", set |-> IF t.sets.cpuset \subseteq set
                              THEN t.sets.complete ELSE set]

\* The same for a nodeset, and for the nodeset of a given cpuset.
hwloc_fix_membind(ns) ==
  IF t.sets.cpuset = {} THEN [ret |-> "EXDEV", set |-> {}]
  ELSE IF t.sets.allnodes = {} THEN [ret |-> "ENODEV", set |-> {}]
  ELSE IF ns = {} \/ ~(ns \subseteq t.sets.allnodes)
  THEN [ret |-> "EINVAL", set |-> {}]
  ELSE [ret |-> "ok", set |-> IF t.sets.nodeset \subseteq ns
                              THEN t.sets.allnodes ELSE ns]

hwloc_fix_membind_cpuset(set) ==
  IF t.sets.cpuset # {} /\ t.sets.allnodes = {}
  THEN [ret |-> "ENODEV", set |-> {}]
  ELSE LET f == hwloc_fix_cpubind(set)
       IN  IF f.ret # "ok" THEN f
           ELSE [ret |-> "ok", set |-> IF t.sets.cpuset \subseteq set
                                       THEN t.sets.allnodes
                                       ELSE cpuset_to_nodeset(set)]

\* Which of the process and thread hooks a call of the current process uses.
Dispatch(proc, thread, flags) ==
  IF "PROCESS" \in flags \/ ("THREAD" \notin flags /\ t.hook[proc] # "null")
  THEN proc ELSE thread

------------------------------------------------------------------------------
(* Processor binding.  hwloc_set_cpubind, hwloc_set_proc_cpubind and         *)
(* hwloc_set_thread_cpubind differ in the hook only.                         *)

SetCpubind(hook, set, flags) ==
  LET f == hwloc_fix_cpubind(set)
  IN  IF f.ret # "ok" THEN NoEffect
      ELSE IF t.hook[hook] = "null" THEN NoEffect
      ELSE IF t.hook[hook] = "dont" THEN NoEffect
      ELSE \E r \in os_set_cpubind(hook, f.set, flags) :
             /\ k' = r.k
             /\ asked' = IF r.ret # "ok" THEN asked
                         ELSE [asked EXCEPT
                                 !.cpu = IF t.sets = Machine THEN set ELSE {},
                                 !.mem = IF "NOMEMBIND" \in flags THEN @ ELSE {},
                                 !.who = Whom(hook)]
             /\ UNCHANGED block

hwloc_set_cpubind ==
  \E set \in CpuArgs, flags \in CpuFlags :
    SetCpubind(Dispatch("set_thisproc_cpubind", "set_thisthread_cpubind", flags),
               set, flags)

hwloc_set_proc_cpubind ==
  \E set \in CpuArgs, flags \in CpuFlags :
    SetCpubind("set_proc_cpubind", set, flags)

hwloc_set_thread_cpubind ==
  \E set \in CpuArgs, flags \in CpuFlags :
    SetCpubind("set_thread_cpubind", set, flags)

\* What hwloc_get_cpubind and its variants return.
GetCpubind(hook, flags) ==
  CASE t.hook[hook] = "null" -> [ret |-> "ENOSYS", set |-> {}]
    [] t.hook[hook] = "dont" ->
         [ret |-> IF t.sets.complete = {} THEN "EINVAL" ELSE "ok",
          set |-> t.sets.complete]
    [] t.hook[hook] = "os"   -> os_get_cpubind(hook, flags)

------------------------------------------------------------------------------
(* Memory binding.                                                           *)

SetMembind(hook, ns, f, policy, flags) ==
  IF f.ret # "ok" THEN NoEffect
  ELSE IF t.hook[hook] = "null" THEN NoEffect
  ELSE IF t.hook[hook] = "dont" THEN NoEffect
  ELSE \E r \in os_set_membind(hook, f.set, policy, flags) :
         /\ k' = r.k
         /\ asked' = IF r.ret # "ok" THEN asked
                     ELSE [cpu |-> IF "NOCPUBIND" \in flags THEN asked.cpu ELSE {},
                           mem |-> IF t.sets = Machine THEN ns ELSE {},
                           policy |-> policy, strict |-> "STRICT" \in flags,
                           who |-> Whom(hook)]
         /\ UNCHANGED block

hwloc_set_membind_nodeset ==
  \E ns \in NodeArgs, flags \in MemFlags, policy \in MemPolicies :
    SetMembind(Dispatch("set_thisproc_membind", "set_thisthread_membind", flags),
               ns, hwloc_fix_membind(ns), policy, flags)

\* The cpuset form checks the cpuset, then the nodeset it became.
hwloc_set_membind ==
  \E set \in CpuArgs, flags \in MemFlags, policy \in MemPolicies :
    LET f == hwloc_fix_membind_cpuset(set)
    IN  SetMembind(Dispatch("set_thisproc_membind", "set_thisthread_membind", flags),
                   cpuset_to_nodeset(set),
                   IF f.ret = "ok" THEN hwloc_fix_membind(f.set) ELSE f,
                   policy, flags)

hwloc_set_proc_membind_nodeset ==
  \E ns \in NodeArgs, flags \in MemFlags, policy \in MemPolicies :
    SetMembind("set_proc_membind", ns, hwloc_fix_membind(ns), policy, flags)

\* What hwloc_get_membind_nodeset and its variants return.
GetMembind(hook, flags) ==
  CASE t.hook[hook] = "null" -> [ret |-> "ENOSYS", policy |-> "DEFAULT", set |-> {}]
    [] t.hook[hook] = "dont" ->
         [ret |-> IF t.sets.allnodes = {} THEN "EINVAL" ELSE "ok",
          policy |-> "DEFAULT", set |-> t.sets.allnodes]
    [] t.hook[hook] = "os"   -> os_get_membind(hook, flags)

hwloc_set_area_membind ==
  \E ns \in NodeArgs, flags \in MemFlags, policy \in MemPolicies,
     pages \in (SUBSET Pages) \ {{}} :
    LET f == hwloc_fix_membind(ns)
        h == t.hook["set_area_membind"]
    IN  IF f.ret # "ok" THEN NoEffect
        ELSE IF h = "null" THEN NoEffect
        ELSE IF h = "dont" THEN NoEffect
        ELSE \E r \in os_set_area_membind(f.set, policy, flags) :
               /\ k' = IF r.ret # "ok" THEN k
                       ELSE [k EXCEPT !.pages = [p \in Pages |->
                               IF p \in pages THEN r.pol ELSE k.pages[p]]]
               /\ UNCHANGED <<asked, block>>

------------------------------------------------------------------------------
(* Allocation.                                                               *)

\* Plain memory that could not be bound goes back with free().
FreedPlain ==
  [Null EXCEPT !.how = IF AllocKind = "heap" THEN "released" ELSE "mismatch"]

\* hwloc_alloc_membind_nodeset: the hook, or the area hook on plain memory, or
\* plain memory unless STRICT.
AllocMembindNodeset(f, policy, flags) ==
  IF f.ret # "ok" \/ "MIGRATE" \in flags THEN {hwloc_alloc_or_fail(flags)}
  ELSE IF t.hook["alloc_membind"] = "dont" THEN {Block("heap", FALSE)}
  ELSE IF t.hook["alloc_membind"] = "os" THEN os_alloc_membind(f.set, policy, flags)
  ELSE IF t.hook["set_area_membind"] = "os"
  THEN {IF r.ret # "ok" /\ "STRICT" \in flags THEN FreedPlain
        ELSE Block(AllocKind, r.ret = "ok") :
          r \in os_set_area_membind(f.set, policy, flags)}
  ELSE {hwloc_alloc_or_fail(flags)}

Allocate(flags, blocks) ==
  /\ block.null
  /\ \E b \in blocks :
       block' = [how |-> b.how, null |-> b.null, bound |-> b.bound,
                 hook |-> t.hook["free_membind"], strict |-> "STRICT" \in flags]
  /\ UNCHANGED <<k, asked>>

hwloc_alloc_membind_nodeset ==
  \E ns \in NodeArgs, flags \in MemFlags, policy \in Policies :
    Allocate(flags,
             AllocMembindNodeset(hwloc_fix_membind(ns), policy, flags))

hwloc_alloc_membind ==
  \E set \in CpuArgs, flags \in MemFlags, policy \in Policies :
    LET f == hwloc_fix_membind_cpuset(set)
    IN  Allocate(flags,
                 IF f.ret # "ok" THEN {hwloc_alloc_or_fail(flags)}
                 ELSE AllocMembindNodeset(hwloc_fix_membind(f.set), policy, flags))

\* hwloc_alloc: plain memory from the hook or the heap.
AllocPlain == Allocate({}, {hwloc_alloc})

\* The block is handed to the release routine of the handle as it is now.
hwloc_free ==
  /\ ~block.null
  /\ block' = [NoBlock EXCEPT !.how = IF FreeKind = block.how THEN "released"
                                     ELSE IF t.hook["free_membind"] = block.hook
                                     THEN "mismatch" ELSE "other handle"]
  /\ UNCHANGED <<k, asked>>

------------------------------------------------------------------------------

BindingCall ==
  /\ Usable /\ calls < MaxCalls /\ calls' = calls + 1
  /\ UNCHANGED lvars
  /\ \/ hwloc_set_cpubind
     \/ hwloc_set_proc_cpubind
     \/ hwloc_set_thread_cpubind
     \/ hwloc_set_membind_nodeset
     \/ hwloc_set_membind
     \/ hwloc_set_proc_membind_nodeset
     \/ hwloc_set_area_membind
     \/ hwloc_alloc_membind_nodeset
     \/ hwloc_alloc_membind
     \/ AllocPlain
     \/ hwloc_free

Init ==
  /\ LInit
  /\ k = FreshKernel
  /\ asked = Nothing
  /\ block = NoBlock
  /\ calls = 0

Next ==
  \/ BindingCall
  \/ LNext /\ UNCHANGED <<k, asked, block, calls>>

Spec == Init /\ [][Next]_vars

------------------------------------------------------------------------------

\* After a successful processor binding, and until the next one, the process
\* runs on processors of the given set only (or on ones that are not allowed
\* anyway), whatever calls failed and whatever loads came in between.
\* (Solaris keeps an older processor_bind, and HP-UX drops the old binding
\* before the new one can fail.)
BoundInside ==
  asked.cpu # {} /\ os \notin {"solaris", "hpux"}
    => Runs(k) \cap Machine.cpuset \subseteq asked.cpu

\* What hwloc_get_cpubind answers through any hook of the system leaves out no
\* processor the calling thread may run on, also after memory bindings that
\* moved it; it is exactly those where the kernel has one set, or the hook asks
\* for the thread; and after a binding of the process it is inside what was
\* asked for.  (Processors beyond the unsigned long of Windows are not told.)
AnswerIsTrue ==
  \A n \in {"get_thisproc_cpubind", "get_thisthread_cpubind",
            "get_proc_cpubind", "get_thread_cpubind"} :
    t.sets = Machine /\ t.hook[n] = "os" /\ os # "solaris" =>
      LET answer == GetCpubind(n, {}).set
      IN  /\ (IF os = "windows" THEN ULong(Runs(k)) ELSE Runs(k)) \subseteq answer
          /\ os \notin TwoSets \/ OfThread(n) => answer \subseteq Runs(k)
          /\ asked.cpu # {} /\ asked.who = "process"
               => answer \cap Machine.cpuset \subseteq asked.cpu

\* The usable nodes of a set that have processors.
WithCpus(ns) == {n \in ns \cap Machine.nodeset : NodeCpus[n] # {}}

\* A non-strict binding on Linux prefers one node.
Preferred == os = "linux" /\ asked.policy = "BIND" /\ ~asked.strict

\* What the system says of the memory binding, through a hook that asks for
\* the one that was bound, the thread or the process.
PolicyReadBack ==
  \A n \in {"get_thisproc_membind", "get_thisthread_membind", "get_proc_membind"} :
    /\ asked.mem # {} /\ t.sets = Machine /\ t.hook[n] = "os"
    /\ Whom(n) = asked.who
    => LET g == GetMembind(n, {})
       IN  /\ asked.policy \in {"BIND", "INTERLEAVE"} =>
                /\ g.ret = "ok"
                /\ WithCpus(g.set) \subseteq asked.mem
                /\ Preferred => g.set # {}
                /\ os \in {"linux", "solaris"} /\ ~Preferred
                     => asked.mem \cap Machine.nodeset \subseteq g.set
                /\ os = "aix" \/ (os = "windows" /\ AllPUs = ULong(AllPUs))
                     => WithCpus(asked.mem) \subseteq g.set
           /\ os = "linux" /\ asked.policy # "DEFAULT" => g.policy = asked.policy
AreaReport ==
  os = "linux" /\ t.sets = Machine =>
    LET g == linux_get_area_membind(Pages, {})
    IN  \A p \in Pages :
          /\ k.pages[p].mask \cap t.sets.nodeset \subseteq g.set
          /\ g.policy # "MIXED"
               => linux_membind_policy_to_hwloc(k.pages[p].mode) = g.policy

\* A memory binding is read back as it was made until a call that may change
\* it: no usable node with processors is added, none is lost unless the binding
\* is a preference of Linux (which keeps one of them), and on Linux the policy
\* is the same.  AIX and Windows bind processors instead, so nodes
\* without any are told apart on Linux and Solaris only; a machine with more
\* processors than an unsigned long has bits is cut on Windows.  The pages of
\* an area are reported with every node any of them is bound to, and with one
\* policy only if they all have it.
MembindReadBack == PolicyReadBack /\ AreaReport

\* Memory is released with the routine of its kind by any system's table of
\* hooks, whichever call allocated it and whichever hook released it, as long
\* as the handle still has the release hook it had then.
ReleasedAsAllocated == block.how # "mismatch"

\* alloc_membind fails only if STRICT, and STRICT memory is bound: what the
\* comment at the hook and the API promise.
AllocHonoursStrict ==
  /\ block.null => block.strict
  /\ ~block.null /\ block.strict /\ block.hook # "dont" => block.bound
=============================================================================
