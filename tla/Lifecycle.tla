------------------------------ MODULE Lifecycle ------------------------------
(***************************************************************************)
(* The life of a topology handle: hwloc_topology_init, the calls that       *)
(* choose a backend, hwloc_topology_load with the environment variables it  *)
(* reads, reloads and hwloc_topology_destroy (topology.c), with the init    *)
(* and exit functions of every backend and the binding hooks a load leaves  *)
(* behind.  What a load finds is reduced to the sets of its root object.    *)
(*                                                                          *)
(* A call maps the handle's record t to its next value; a call that reads   *)
(* or frees a tree that is already freed sets t.fault, and the program is   *)
(* not followed any further.                                                *)
(***************************************************************************)
EXTENDS Integers, FiniteSets

CONSTANTS
  Systems,    \* operating systems hwloc is built for
  Envs,       \* environments the program may be started in
  Machine,    \* root sets of the machine the program runs on
  Foreign     \* root sets of the topologies that come from elsewhere

\* The systems configure knows, and what detection guarantees of the root: the
\* usable processors and nodes are among all of them.
ASSUME SystemsAssumption ==
  Systems \subseteq {"linux", "aix", "osf", "solaris", "windows", "darwin",
                     "freebsd", "hpux"}
ASSUME MachineAssumption ==
  Machine.cpuset \subseteq Machine.complete /\ Machine.nodeset \subseteq Machine.allnodes

VARIABLES
  os,         \* the system of this build
  env,        \* the environment variables of this process
  t           \* the handle, or its last value once destroyed

lvars == <<os, env, t>>

NoSets == [cpuset |-> {}, complete |-> {}, nodeset |-> {}, allnodes |-> {}]

------------------------------------------------------------------------------
(* Binding hooks: the fields of struct hwloc_topology, and what the hooks    *)
(* function of each system stores in them.                                   *)

CpuHooks ==
  {"set_thisproc_cpubind", "get_thisproc_cpubind", "set_thisthread_cpubind",
   "get_thisthread_cpubind", "set_proc_cpubind", "get_proc_cpubind",
   "set_thread_cpubind", "get_thread_cpubind"}

LastHooks ==
  {"get_thisproc_last_cpu_location", "get_thisthread_last_cpu_location",
   "get_proc_last_cpu_location"}

MemHooks ==
  {"set_thisproc_membind", "get_thisproc_membind", "set_thisthread_membind",
   "get_thisthread_membind", "set_proc_membind", "get_proc_membind",
   "set_area_membind", "get_area_membind", "alloc_membind"}

AllocHooks == {"alloc", "free_membind"}

HookNames == CpuHooks \cup LastHooks \cup MemHooks \cup AllocHooks

set_linuxfs_hooks ==
  CpuHooks \cup LastHooks \cup AllocHooks
    \cup {"set_thisthread_membind", "get_thisthread_membind",
          "get_area_membind", "set_area_membind", "alloc_membind"}

set_aix_hooks ==
  CpuHooks \cup AllocHooks
    \cup (MemHooks \ {"set_area_membind", "get_area_membind"})

set_osf_hooks ==
  {"set_thread_cpubind", "set_thisthread_cpubind", "set_proc_cpubind",
   "set_thisproc_cpubind", "set_area_membind", "alloc_membind"} \cup AllocHooks

set_solaris_hooks ==
  (CpuHooks \ {"set_thread_cpubind", "get_thread_cpubind"})
    \cup (MemHooks \ {"get_area_membind", "alloc_membind"})

set_windows_hooks ==
  (CpuHooks \ {"get_thread_cpubind", "get_thisthread_cpubind"}) \cup AllocHooks
    \cup (MemHooks \ {"set_area_membind", "get_thisthread_membind"})

set_freebsd_hooks == CpuHooks

\* Mutant: the hook of plain allocations is not set.
set_hpux_hooks_NoAlloc ==
  {"set_proc_cpubind", "set_thisproc_cpubind", "alloc_membind", "free_membind"}

set_hpux_hooks ==
  {"set_proc_cpubind", "set_thisproc_cpubind", "set_thread_cpubind",
   "set_thisthread_cpubind", "alloc_membind"} \cup AllocHooks

\* The Darwin hooks function is empty.
set_darwin_hooks == {}

HooksOf(s) ==
  CASE s = "linux"   -> set_linuxfs_hooks
    [] s = "aix"     -> set_aix_hooks
    [] s = "osf"     -> set_osf_hooks
    [] s = "solaris" -> set_solaris_hooks
    [] s = "windows" -> set_windows_hooks
    [] s = "darwin"  -> set_darwin_hooks
    [] s = "freebsd" -> set_freebsd_hooks
    [] s = "hpux"    -> set_hpux_hooks

\* The hooks of a topology that is not this system: every one but alloc.
DontHooks == HookNames \ {"alloc"}

\* The last part of hwloc_discover: a hook the system does not set keeps the
\* value it had, and support is only reported for this system.
set_hooks(u) ==
  LET h == [n \in HookNames |->
             CASE u.thissystem /\ n \in HooksOf(os) -> "os"
               [] ~u.thissystem /\ n \in DontHooks  -> "dont"
               [] OTHER                             -> u.hook[n]]
  IN  [u EXCEPT !.hook = h,
                !.support = IF u.thissystem
                            THEN {n \in HookNames \ AllocHooks : h[n] # "null"}
                            ELSE {}]

------------------------------------------------------------------------------
(* Clearing and setting up the tree.                                         *)

hwloc_topology_clear(u) ==
  [u EXCEPT !.fault = @ \/ u.root = "null", !.root = "null"]

\* Mutant: the allocation hook survives.
hwloc_topology_setup_defaults_KeepsAlloc(u) ==
  [u EXCEPT !.hook = [n \in HookNames |->
                        IF n = "alloc" THEN u.hook[n] ELSE "null"],
            !.support = {}, !.root = "bare", !.sets = NoSets]

\* Every hook but the three that tell where a process last ran is reset.
hwloc_topology_setup_defaults(u) ==
  [u EXCEPT !.hook = [n \in HookNames |->
                        IF n \in LastHooks THEN u.hook[n] ELSE "null"],
            !.support = {}, !.root = "bare", !.sets = NoSets]

NewHandle ==
  [backend |-> "NONE", thissystem |-> TRUE, loaded |-> FALSE, flag |-> FALSE,
   from |-> "none", root |-> "bare", sets |-> NoSets,
   hook |-> [n \in HookNames |-> IF n \in LastHooks THEN "garbage" ELSE "null"],
   support |-> {}, held |-> {}, fault |-> FALSE, failed |-> FALSE,
   live |-> TRUE, asked |-> FALSE]

------------------------------------------------------------------------------
(* Backends.  held is what the backend keeps open: the descriptor of the     *)
(* root directory, the XML document or buffer, the synthetic description.    *)

hwloc_backend_linuxfs_init(u, path) ==
  IF path = "missing" THEN u
  ELSE [u EXCEPT !.thissystem = @ /\ path = "/", !.backend = "LINUXFS",
                 !.from = path, !.asked = FALSE,
                 !.held = @ \cup {"root_fd"}]

hwloc_backend_xml_init(u, file) ==
  IF file = "missing" THEN u
  ELSE [u EXCEPT !.thissystem = FALSE, !.backend = "XML", !.from = file,
                 !.asked = FALSE, !.held = @ \cup {"xml"}]

hwloc_backend_synthetic_init(u, description) ==
  IF description = "wrong" THEN u
  ELSE [u EXCEPT !.thissystem = FALSE, !.backend = "SYNTHETIC",
                 !.from = description, !.asked = FALSE, !.held = @ \cup {"string"}]

\* The root becomes the System object the pieces are inserted under.
hwloc_backend_custom_init(u) ==
  [u EXCEPT !.fault = @ \/ u.root = "null", !.thissystem = FALSE,
            !.backend = "CUSTOM", !.from = "pieces", !.asked = FALSE]

hwloc_backend_linuxfs_exit(u) ==
  [u EXCEPT !.backend = "NONE", !.from = "none", !.held = @ \ {"root_fd"}]

hwloc_backend_xml_exit(u) ==
  [u EXCEPT !.backend = "NONE", !.from = "none", !.held = @ \ {"xml"}]

\* Mutant: the description is not freed.
hwloc_backend_synthetic_exit_Leak(u) ==
  [u EXCEPT !.backend = "NONE", !.from = "none"]

hwloc_backend_synthetic_exit(u) ==
  [u EXCEPT !.backend = "NONE", !.from = "none", !.held = @ \ {"string"}]

\* Mutant: the cleared tree gets no new root.
hwloc_backend_custom_exit_NoDefaults(u) ==
  [hwloc_topology_clear(u) EXCEPT !.backend = "NONE", !.from = "none"]

hwloc_backend_custom_exit(u) ==
  [hwloc_topology_setup_defaults(hwloc_topology_clear(u))
     EXCEPT !.backend = "NONE", !.from = "none"]

hwloc_backend_exit(u) ==
  LET v == CASE u.backend = "LINUXFS"   -> hwloc_backend_linuxfs_exit(u)
             [] u.backend = "XML"       -> hwloc_backend_xml_exit(u)
             [] u.backend = "SYNTHETIC" -> hwloc_backend_synthetic_exit(u)
             [] u.backend = "CUSTOM"    -> hwloc_backend_custom_exit(u)
             [] OTHER                   -> u
  IN  IF ~v.loaded THEN v
      ELSE [hwloc_topology_setup_defaults(hwloc_topology_clear(v))
              EXCEPT !.loaded = FALSE]

------------------------------------------------------------------------------
(* Loading.                                                                  *)

\* hwloc_discover, with the sets of the root it ends with: what it looks at
\* is a file, a description, another root directory, the inserted pieces, or
\* this machine.  A custom topology is several systems: its root has no sets.
hwloc_discover(u) ==
  IF u.backend = "XML" /\ u.from = "broken"
  THEN [hwloc_topology_clear(u) EXCEPT !.failed = TRUE]
  ELSE LET here == u.backend = "NONE" \/ u.from = "/"
           sets == CASE u.backend = "CUSTOM" -> NoSets
                     [] here                 -> Machine
                     [] OTHER                -> Foreign
       IN  set_hooks([u EXCEPT !.fault = @ \/ u.root = "null",
                               !.root = "built", !.sets = sets,
                               !.thissystem = @ \/ u.flag,
                               !.asked = @ \/ u.flag])

\* The FORCE variables replace any backend, the others only a missing one.
EnvironmentBackend(u) ==
  LET a == IF os = "linux" /\ env.force_fsroot # "unset"
           THEN hwloc_backend_linuxfs_init(hwloc_backend_exit(u), env.force_fsroot)
           ELSE u
      b == IF env.force_xmlfile # "unset"
           THEN hwloc_backend_xml_init(hwloc_backend_exit(a), env.force_xmlfile)
           ELSE a
      c == IF os = "linux" /\ b.backend = "NONE" /\ env.fsroot # "unset"
           THEN hwloc_backend_linuxfs_init(b, env.fsroot)
           ELSE b
      d == IF c.backend = "NONE" /\ env.xmlfile # "unset"
           THEN hwloc_backend_xml_init(c, env.xmlfile)
           ELSE c
      e == [d EXCEPT !.thissystem = IF env.thissystem = "unset" THEN @
                                    ELSE env.thissystem = "1"]
  IN  IF os = "linux" /\ e.backend = "NONE"
      THEN hwloc_backend_linuxfs_init(e, "/")
      ELSE e

hwloc_topology_load(u) ==
  LET v == IF ~u.loaded THEN u
           ELSE [hwloc_topology_setup_defaults(hwloc_topology_clear(u))
                   EXCEPT !.loaded = FALSE]
      w == hwloc_discover(EnvironmentBackend(v))
  IN  IF w.root = "null" THEN w
      ELSE [w EXCEPT !.thissystem = IF env.force_thissystem = "unset" THEN @
                                    ELSE env.force_thissystem = "1",
                     !.loaded = TRUE]

------------------------------------------------------------------------------
(* The calls.                                                                *)

Usable == t.live /\ ~t.fault

Configure(u) == Usable /\ t' = u /\ UNCHANGED <<os, env>>

hwloc_topology_init ==
  ~t.live /\ ~t.fault /\ t' = NewHandle /\ UNCHANGED <<os, env>>

hwloc_topology_set_flags ==
  \E f \in BOOLEAN : Configure([t EXCEPT !.flag = f])

hwloc_topology_set_fsroot ==
  \E path \in {"/", "elsewhere", "missing"} :
    Configure(IF os = "linux"
              THEN hwloc_backend_linuxfs_init(hwloc_backend_exit(t), path)
              ELSE hwloc_backend_exit(t))

hwloc_topology_set_synthetic ==
  \E description \in {"right", "wrong"} :
    Configure(hwloc_backend_synthetic_init(hwloc_backend_exit(t), description))

\* hwloc_topology_set_xml and hwloc_topology_set_xmlbuffer.
hwloc_topology_set_xml ==
  \E file \in {"good", "broken", "missing"} :
    Configure(hwloc_backend_xml_init(hwloc_backend_exit(t), file))

hwloc_topology_set_custom ==
  Configure(hwloc_backend_custom_init(hwloc_backend_exit(t)))

\* hwloc_custom_insert_topology and hwloc_custom_insert_group_object_by_parent.
hwloc_custom_insert ==
  /\ t.backend = "CUSTOM" /\ ~t.loaded
  /\ Configure([t EXCEPT !.root = "built"])

Load == Configure(hwloc_topology_load(t))

hwloc_topology_destroy ==
  Configure([hwloc_topology_clear(hwloc_backend_exit(t)) EXCEPT !.live = FALSE])

LInit == os \in Systems /\ env \in Envs /\ t = NewHandle

LNext ==
  \/ hwloc_topology_init
  \/ hwloc_topology_set_flags
  \/ hwloc_topology_set_fsroot
  \/ hwloc_topology_set_synthetic
  \/ hwloc_topology_set_xml
  \/ hwloc_topology_set_custom
  \/ hwloc_custom_insert
  \/ Load
  \/ hwloc_topology_destroy

LSpec == LInit /\ [][LNext]_lvars

------------------------------------------------------------------------------

\* No sequence of configuration calls, loads, reloads, backend changes and
\* destroys clears a tree twice or works on a cleared one, and a live handle
\* always has a root, as long as no load has failed: the clear of
\* hwloc_backend_custom_exit, of hwloc_backend_exit, of a reload and of
\* destroy are each followed by new defaults before the next.
ClearedOnce ==
  /\ t.fault => t.failed
  /\ t.live /\ t.root = "null" => t.failed

\* The descriptor, document or description of a backend is held exactly while
\* it is the backend, through failed inits, backend changes and destroy: none
\* leaks and none is released twice.
HeldByBackend ==
  ~t.fault =>
    t.held = CASE t.backend = "LINUXFS"   -> {"root_fd"}
               [] t.backend = "XML"       -> {"xml"}
               [] t.backend = "SYNTHETIC" -> {"string"}
               [] OTHER                   -> {}

\* A loaded handle that does not stand for this system has none of the
\* system's hooks, not even one that an earlier load of this system left
\* (unless HWLOC_FORCE_THISSYSTEM changed the answer after they were chosen).
\* A topology that comes from a file, a description, another root or inserted
\* pieces is only taken for this system when the IS_THISSYSTEM flag, in a load
\* since the backend was chosen, or the environment asks for it.
NoForeignHook ==
  t.loaded =>
    /\ ~t.thissystem /\ env.force_thissystem = "unset"
         => \A n \in HookNames : t.hook[n] # "os"
    /\ t.thissystem /\ t.sets # Machine
         => t.asked \/ "1" \in {env.thissystem, env.force_thissystem}
=============================================================================
