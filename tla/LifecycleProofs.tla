--------------------------- MODULE LifecycleProofs ---------------------------
(***************************************************************************)
(* Ownership over the life of a handle, proved for any operating system, any *)
(* environment and any binding calls in between.                            *)
(***************************************************************************)
EXTENDS Binding, TLAPS

Backends == {"NONE", "LINUXFS", "XML", "SYNTHETIC", "CUSTOM"}

\* What a backend may have been made from.
Sources ==
  {"none", "pieces", "/", "elsewhere", "good", "broken", "right"}
    \cup UNION {{e.force_fsroot, e.force_xmlfile, e.fsroot, e.xmlfile} : e \in Envs}

Handle ==
  [backend : Backends, thissystem : BOOLEAN, loaded : BOOLEAN, flag : BOOLEAN,
   from : Sources, root : {"null", "bare", "built"},
   sets : {NoSets, Machine, Foreign},
   hook : [HookNames -> {"null", "os", "dont", "garbage"}],
   support : SUBSET HookNames, held : SUBSET {"root_fd", "xml", "string"},
   fault : BOOLEAN, failed : BOOLEAN, live : BOOLEAN, asked : BOOLEAN]

HeldOf(b) == CASE b = "LINUXFS"   -> {"root_fd"}
               [] b = "XML"       -> {"xml"}
               [] b = "SYNTHETIC" -> {"string"}
               [] OTHER           -> {}

\* The tree of a handle exists, or a load has failed.
Rooted(u) == u.failed \/ (~u.fault /\ u.root # "null")

\* What the functions of Lifecycle keep while they work on a handle.
Sound(u) == u \in Handle /\ u.held = HeldOf(u.backend) /\ Rooted(u)

LInv ==
  /\ t \in Handle /\ env \in Envs
  /\ t.held = HeldOf(t.backend)
  /\ t.fault => t.failed
  /\ t.live => Rooted(t)

------------------------------------------------------------------------------

\* Clearing a tree and setting up a new one, as every exit does.
LEMMA RenewSound ==
  ASSUME NEW u, Sound(u)
  PROVE  LET v == hwloc_topology_setup_defaults(hwloc_topology_clear(u))
         IN  Sound(v) /\ v.backend = u.backend /\ v.loaded = u.loaded
  BY DEF Sound, Handle, Rooted, hwloc_topology_setup_defaults, hwloc_topology_clear, NoSets

\* What each backend holds.
LEMMA HeldValues ==
  /\ HeldOf("NONE") = {} /\ HeldOf("CUSTOM") = {}
  /\ HeldOf("LINUXFS") = {"root_fd"} /\ HeldOf("XML") = {"xml"}
  /\ HeldOf("SYNTHETIC") = {"string"}
  BY DEF HeldOf

\* A backend that releases the one thing it holds.
LEMMA ReleaseSound ==
  ASSUME NEW u, Sound(u), NEW x, u.held = {x}
  PROVE  LET v == [u EXCEPT !.backend = "NONE", !.from = "none", !.held = @ \ {x}]
         IN  Sound(v) /\ v.backend = "NONE"
  <1> DEFINE v == [u EXCEPT !.backend = "NONE", !.from = "none", !.held = @ \ {x}]
  <1>1. u.held \ {x} = {}
    OBVIOUS
  <1>2. v = [u EXCEPT !.backend = "NONE", !.from = "none", !.held = {}]
    BY <1>1
  <1>0. "none" \in Sources
    BY DEF Sources
  <1> HIDE DEF v
  <1>3. v \in Handle
    BY <1>0, <1>2 DEF Sound, Handle, Backends
  <1>4. /\ v.backend = "NONE" /\ v.held = {}
        /\ v.failed = u.failed /\ v.fault = u.fault /\ v.root = u.root
    BY <1>2 DEF Sound, Handle
  <1>5. Sound(v)
    BY <1>3, <1>4, HeldValues DEF Sound, Rooted
  <1> QED BY <1>4, <1>5 DEF v

\* hwloc_backend_exit releases what the backend held and leaves a handle
\* without a backend that is not loaded.
LEMMA ExitSound ==
  ASSUME NEW u, Sound(u)
  PROVE  LET v == hwloc_backend_exit(u)
         IN  Sound(v) /\ v.backend = "NONE" /\ v.loaded = FALSE
  <1> DEFINE v == CASE u.backend = "LINUXFS"   -> hwloc_backend_linuxfs_exit(u)
                    [] u.backend = "XML"       -> hwloc_backend_xml_exit(u)
                    [] u.backend = "SYNTHETIC" -> hwloc_backend_synthetic_exit(u)
                    [] u.backend = "CUSTOM"    -> hwloc_backend_custom_exit(u)
                    [] OTHER                   -> u
  <1>1. Sound(v) /\ v.backend = "NONE"
    <2>1. CASE u.backend = "LINUXFS"
      <3>1. u.held = {"root_fd"}
        BY <2>1, HeldValues DEF Sound
      <3>2. v = [u EXCEPT !.backend = "NONE", !.from = "none", !.held = @ \ {"root_fd"}]
        BY <2>1 DEF hwloc_backend_linuxfs_exit
      <3> HIDE DEF v
      <3> QED BY <3>1, <3>2, ReleaseSound
    <2>2. CASE u.backend = "XML"
      <3>1. u.held = {"xml"}
        BY <2>2, HeldValues DEF Sound
      <3>2. v = [u EXCEPT !.backend = "NONE", !.from = "none", !.held = @ \ {"xml"}]
        BY <2>2 DEF hwloc_backend_xml_exit
      <3> HIDE DEF v
      <3> QED BY <3>1, <3>2, ReleaseSound
    <2>3. CASE u.backend = "SYNTHETIC"
      <3>1. u.held = {"string"}
        BY <2>3, HeldValues DEF Sound
      <3>2. v = [u EXCEPT !.backend = "NONE", !.from = "none", !.held = @ \ {"string"}]
        BY <2>3 DEF hwloc_backend_synthetic_exit
      <3> HIDE DEF v
      <3> QED BY <3>1, <3>2, ReleaseSound
    <2>4. CASE u.backend = "CUSTOM"
      <3> DEFINE w == hwloc_topology_setup_defaults(hwloc_topology_clear(u))
      <3>1. Sound(w) /\ w.backend = "CUSTOM"
        BY <2>4, RenewSound
      <3>2. v = [w EXCEPT !.backend = "NONE", !.from = "none"]
        BY <2>4 DEF hwloc_backend_custom_exit
      <3> HIDE DEF w, v
      <3>0. "none" \in Sources
        BY DEF Sources
      <3>3. v \in Handle /\ v.backend = "NONE" /\ v.held = {} /\ Rooted(v)
        BY <3>0, <3>1, <3>2, HeldValues DEF Sound, Handle, Backends, Rooted
      <3> QED BY <3>3, HeldValues DEF Sound
    <2>5. CASE u.backend = "NONE"
      BY <2>5
    <2> QED BY <2>1, <2>2, <2>3, <2>4, <2>5 DEF Sound, Handle, Backends
  <1>2. hwloc_backend_exit(u) =
          IF ~v.loaded THEN v
          ELSE [hwloc_topology_setup_defaults(hwloc_topology_clear(v)) EXCEPT !.loaded = FALSE]
    BY DEF hwloc_backend_exit
  <1> HIDE DEF v
  <1>3. CASE ~v.loaded
    BY <1>1, <1>2, <1>3 DEF Sound, Handle
  <1>4. CASE v.loaded
    <2> DEFINE w == hwloc_topology_setup_defaults(hwloc_topology_clear(v))
    <2>1. Sound(w) /\ w.backend = "NONE"
      BY <1>1, RenewSound
    <2>2. hwloc_backend_exit(u) = [w EXCEPT !.loaded = FALSE]
      BY <1>2, <1>4
    <2> HIDE DEF w
    <2> QED BY <2>1, <2>2 DEF Sound, Handle, Rooted
  <1> QED BY <1>3, <1>4

\* hwloc_backend_linuxfs_init, as the other init functions on a handle without
\* a backend, holds the root directory, or fails and changes nothing.
LEMMA LinuxfsInitSound ==
  ASSUME NEW u, Sound(u), u.backend = "NONE", NEW path \in Sources
  PROVE  LET v == hwloc_backend_linuxfs_init(u, path)
         IN  Sound(v) /\ v.loaded = u.loaded
  <1>1. u.held \cup {"root_fd"} = {"root_fd"}
    BY HeldValues DEF Sound
  <1> DEFINE b == path = "/"
             v == [u EXCEPT !.thissystem = @ /\ b, !.backend = "LINUXFS",
                            !.from = path, !.asked = FALSE, !.held = {"root_fd"}]
  <1>2. b \in BOOLEAN
    OBVIOUS
  <1> HIDE DEF b
  <1>3. v \in Handle /\ v.backend = "LINUXFS" /\ v.held = {"root_fd"} /\ v.loaded = u.loaded
    BY <1>2 DEF Sound, Handle, Backends
  <1>4. Rooted(v)
    BY DEF Sound, Handle, Rooted
  <1>5. Sound(v) /\ v.loaded = u.loaded
    BY <1>3, <1>4, HeldValues DEF Sound
  <1>6. hwloc_backend_linuxfs_init(u, path) \in {u, v}
    BY <1>1 DEF hwloc_backend_linuxfs_init, b
  <1> HIDE DEF v
  <1> QED BY <1>5, <1>6

\* hwloc_backend_xml_init holds the document, or fails and changes nothing.
LEMMA XmlInitSound ==
  ASSUME NEW u, Sound(u), u.backend = "NONE", NEW file \in Sources
  PROVE  LET v == hwloc_backend_xml_init(u, file)
         IN  Sound(v) /\ v.loaded = u.loaded
  <1>1. u.held \cup {"xml"} = {"xml"}
    BY HeldValues DEF Sound
  <1> DEFINE v == [u EXCEPT !.thissystem = FALSE, !.backend = "XML", !.from = file,
                            !.asked = FALSE, !.held = {"xml"}]
  <1>2. v \in Handle /\ v.backend = "XML" /\ v.held = {"xml"} /\ v.loaded = u.loaded
    BY DEF Sound, Handle, Backends
  <1>3. Rooted(v)
    BY DEF Sound, Handle, Rooted
  <1>4. Sound(v) /\ v.loaded = u.loaded
    BY <1>2, <1>3, HeldValues DEF Sound
  <1>5. hwloc_backend_xml_init(u, file) \in {u, v}
    BY <1>1 DEF hwloc_backend_xml_init
  <1> HIDE DEF v
  <1> QED BY <1>4, <1>5

\* hwloc_backend_synthetic_init holds the description, or fails and changes
\* nothing.
LEMMA SyntheticInitSound ==
  ASSUME NEW u, Sound(u), u.backend = "NONE", NEW description \in {"right", "wrong"}
  PROVE  Sound(hwloc_backend_synthetic_init(u, description))
  <1>1. u.held \cup {"string"} = {"string"}
    BY HeldValues DEF Sound
  <1> DEFINE v == [u EXCEPT !.thissystem = FALSE, !.backend = "SYNTHETIC", !.from = "right",
                            !.asked = FALSE, !.held = {"string"}]
  <1>0. "right" \in Sources
    BY DEF Sources
  <1>2. v \in Handle /\ v.backend = "SYNTHETIC" /\ v.held = {"string"}
    BY <1>0 DEF Sound, Handle, Backends
  <1>3. Rooted(v)
    BY DEF Sound, Handle, Rooted
  <1>4. Sound(v)
    BY <1>2, <1>3, HeldValues DEF Sound
  <1>5. hwloc_backend_synthetic_init(u, description) \in {u, v}
    BY <1>1 DEF hwloc_backend_synthetic_init
  <1> HIDE DEF v
  <1> QED BY <1>4, <1>5

\* hwloc_backend_custom_init holds nothing and works on the root that exists.
LEMMA CustomInitSound ==
  ASSUME NEW u, Sound(u), u.backend = "NONE"
  PROVE  Sound(hwloc_backend_custom_init(u))
  <1> DEFINE v == hwloc_backend_custom_init(u)
  <1>0. "pieces" \in Sources
    BY DEF Sources
  <1>1. v \in Handle /\ v.backend = "CUSTOM" /\ v.held = u.held /\ Rooted(v)
    BY <1>0 DEF Sound, Handle, Backends, Rooted, hwloc_backend_custom_init
  <1> QED BY <1>1, HeldValues DEF Sound

\* The environment replaces a backend only through hwloc_backend_exit, or
\* gives one to a handle that has none.
LEMMA EnvironmentSound ==
  ASSUME env \in Envs, NEW u, Sound(u), u.loaded = FALSE
  PROVE  LET v == EnvironmentBackend(u) IN Sound(v) /\ v.loaded = FALSE
  <1> DEFINE a == IF os = "linux" /\ env.force_fsroot # "unset"
                  THEN hwloc_backend_linuxfs_init(hwloc_backend_exit(u), env.force_fsroot)
                  ELSE u
             b == IF env.force_xmlfile # "unset"
                  THEN hwloc_backend_xml_init(hwloc_backend_exit(a), env.force_xmlfile)
                  ELSE a
             c == IF os = "linux" /\ b.backend = "NONE" /\ env.fsroot # "unset"
                  THEN hwloc_backend_linuxfs_init(b, env.fsroot)
                  ELSE b
             d == IF c.backend = "NONE" /\ env.xmlfile # "unset"
                  THEN hwloc_backend_xml_init(c, env.xmlfile)
                  ELSE c
             e == [d EXCEPT !.thissystem = IF env.thissystem = "unset" THEN @
                                           ELSE env.thissystem = "1"]
             Fine(w) == Sound(w) /\ w.loaded = FALSE
  <1>0. /\ {env.force_fsroot, env.force_xmlfile, env.fsroot, env.xmlfile} \subseteq Sources
        /\ "/" \in Sources
    BY DEF Sources
  <1>1. Fine(a)
    BY <1>0, ExitSound, LinuxfsInitSound
  <1> HIDE DEF a
  <1>2. Fine(b)
    BY <1>0, <1>1, ExitSound, XmlInitSound
  <1> HIDE DEF b
  <1>3. Fine(c)
    BY <1>0, <1>2, LinuxfsInitSound
  <1> HIDE DEF c
  <1>4. Fine(d)
    BY <1>0, <1>3, XmlInitSound
  <1> HIDE DEF d
  <1>5. Fine(e)
    <2> DEFINE y == IF env.thissystem = "unset" THEN d.thissystem ELSE env.thissystem = "1"
    <2>1. y \in BOOLEAN
      BY <1>4 DEF Sound, Handle
    <2>2. e = [d EXCEPT !.thissystem = y]
      OBVIOUS
    <2> HIDE DEF e, y
    <2>3. /\ e \in Handle /\ e.loaded = d.loaded /\ e.held = d.held /\ e.backend = d.backend
          /\ Rooted(e)
      BY <1>4, <2>1, <2>2 DEF Sound, Handle, Rooted
    <2> QED BY <1>4, <2>3 DEF Sound
  <1> HIDE DEF e
  <1>6. EnvironmentBackend(u) = IF os = "linux" /\ e.backend = "NONE"
                                THEN hwloc_backend_linuxfs_init(e, "/") ELSE e
    BY DEF EnvironmentBackend, a, b, c, d, e
  <1> QED BY <1>0, <1>5, <1>6, LinuxfsInitSound

\* hwloc_discover finds a root to work on, and clears it only when the XML
\* import fails.
LEMMA DiscoverSound ==
  ASSUME NEW u, Sound(u)
  PROVE  Sound(hwloc_discover(u))
  <1>1. CASE u.backend = "XML" /\ u.from = "broken"
    <2> DEFINE v == [u EXCEPT !.fault = u.fault \/ u.root = "null", !.root = "null",
                              !.failed = TRUE]
    <2>1. hwloc_discover(u) = v
      BY <1>1 DEF hwloc_discover, hwloc_topology_clear, Sound, Handle
    <2>2. v \in Handle /\ v.backend = u.backend /\ v.held = u.held /\ v.failed
      BY DEF Sound, Handle
    <2> HIDE DEF v
    <2> QED BY <2>1, <2>2 DEF Sound, Rooted
  <1>2. CASE ~(u.backend = "XML" /\ u.from = "broken")
    <2> DEFINE sets == CASE u.backend = "CUSTOM" -> NoSets
                         [] u.backend = "NONE" \/ u.from = "/" -> Machine
                         [] OTHER -> Foreign
               w == [u EXCEPT !.fault = u.fault \/ u.root = "null",
                              !.root = "built", !.sets = sets,
                              !.thissystem = u.thissystem \/ u.flag,
                              !.asked = u.asked \/ u.flag]
               h == [n \in HookNames |->
                      CASE w.thissystem /\ n \in HooksOf(os) -> "os"
                        [] ~w.thissystem /\ n \in DontHooks  -> "dont"
                        [] OTHER                             -> w.hook[n]]
               s == IF w.thissystem THEN {n \in HookNames \ AllocHooks : h[n] # "null"}
                    ELSE {}
    <2>1. sets \in {NoSets, Machine, Foreign}
      OBVIOUS
    <2>2. hwloc_discover(u) = [w EXCEPT !.hook = h, !.support = s]
      BY <1>2 DEF hwloc_discover, set_hooks
    <2> HIDE DEF sets
    <2>3. w \in Handle /\ w.backend = u.backend /\ w.held = u.held /\ Rooted(w)
      <3> DEFINE f == u.fault \/ u.root = "null"
                 y == u.thissystem \/ u.flag
                 a == u.asked \/ u.flag
                 x == [u EXCEPT !.fault = f, !.root = "built", !.sets = sets,
                                !.thissystem = y, !.asked = a]
      <3>1. f \in BOOLEAN /\ y \in BOOLEAN /\ a \in BOOLEAN
        OBVIOUS
      <3>2. ~u.failed => ~f
        BY DEF Sound, Rooted
      <3>3. w = x
        OBVIOUS
      <3> HIDE DEF w, f, y, a
      <3>4. x \in Handle
        BY <2>1, <3>1 DEF Sound, Handle
      <3>5. /\ x.backend = u.backend /\ x.held = u.held /\ x.failed = u.failed
            /\ x.fault = f /\ x.root = "built"
        BY DEF Sound, Handle
      <3> HIDE DEF x
      <3>6. Rooted(x)
        BY <3>2, <3>5 DEF Rooted
      <3> QED BY <3>3, <3>4, <3>5, <3>6
    <2> HIDE DEF w
    <2>4. h \in [HookNames -> {"null", "os", "dont", "garbage"}]
      <3> SUFFICES ASSUME NEW n \in HookNames
                   PROVE  h[n] \in {"null", "os", "dont", "garbage"}
        OBVIOUS
      <3>1. w.hook[n] \in {"null", "os", "dont", "garbage"}
        BY <2>3 DEF Handle
      <3> QED BY <3>1
    <2> HIDE DEF h
    <2>5. s \in SUBSET HookNames
      OBVIOUS
    <2> HIDE DEF s
    <2> DEFINE v == [w EXCEPT !.hook = h, !.support = s]
    <2>6. /\ v \in Handle /\ v.backend = w.backend /\ v.held = w.held
          /\ Rooted(v)
      BY <2>3, <2>4, <2>5 DEF Handle, Rooted
    <2> HIDE DEF v
    <2>7. Sound(v)
      BY <2>3, <2>6 DEF Sound
    <2> QED BY <2>2, <2>7 DEF v
  <1> QED BY <1>1, <1>2

\* A load, or a reload, of a sound handle leaves one.
LEMMA LoadSound ==
  ASSUME env \in Envs, NEW u, Sound(u)
  PROVE  Sound(hwloc_topology_load(u))
  <1> DEFINE v == IF ~u.loaded THEN u
                  ELSE [hwloc_topology_setup_defaults(hwloc_topology_clear(u))
                          EXCEPT !.loaded = FALSE]
             w == hwloc_discover(EnvironmentBackend(v))
             y == IF env.force_thissystem = "unset" THEN w.thissystem
                  ELSE env.force_thissystem = "1"
             x == [w EXCEPT !.thissystem = y, !.loaded = TRUE]
  <1>1. Sound(v) /\ v.loaded = FALSE
    <2>1. CASE ~u.loaded
      BY <2>1 DEF Sound, Handle
    <2>2. CASE u.loaded
      <3> DEFINE r == hwloc_topology_setup_defaults(hwloc_topology_clear(u))
      <3>1. Sound(r)
        BY RenewSound
      <3>2. v = [r EXCEPT !.loaded = FALSE]
        BY <2>2
      <3> HIDE DEF r, v
      <3> QED BY <3>1, <3>2 DEF Sound, Handle, Rooted
    <2> QED BY <2>1, <2>2
  <1>2. hwloc_topology_load(u) \in {w, x}
    BY DEF hwloc_topology_load
  <1> HIDE DEF v
  <1>3. Sound(w)
    BY <1>1, EnvironmentSound, DiscoverSound
  <1> HIDE DEF w
  <1>4. y \in BOOLEAN
    BY <1>3 DEF Sound, Handle
  <1> HIDE DEF y
  <1>5. x \in Handle /\ x.backend = w.backend /\ x.held = w.held /\ Rooted(x)
    BY <1>3, <1>4 DEF Sound, Handle, Rooted
  <1> HIDE DEF x
  <1>6. Sound(x)
    BY <1>3, <1>5 DEF Sound
  <1> QED BY <1>2, <1>3, <1>6

------------------------------------------------------------------------------

\* A new handle is sound.
LEMMA NewHandleSound == Sound(NewHandle)
  <1>0. "none" \in Sources
    BY DEF Sources
  <1> DEFINE h == [n \in HookNames |-> IF n \in LastHooks THEN "garbage" ELSE "null"]
  <1>1. h \in [HookNames -> {"null", "os", "dont", "garbage"}]
    OBVIOUS
  <1> HIDE DEF h
  <1>2. NewHandle = [backend |-> "NONE", thissystem |-> TRUE, loaded |-> FALSE,
                     flag |-> FALSE, from |-> "none", root |-> "bare", sets |-> NoSets,
                     hook |-> h, support |-> {}, held |-> {}, fault |-> FALSE,
                     failed |-> FALSE, live |-> TRUE, asked |-> FALSE]
    BY DEF NewHandle, h
  <1>3. NewHandle \in Handle
    BY <1>0, <1>1, <1>2 DEF Handle, Backends
  <1>4. /\ NewHandle.backend = "NONE" /\ NewHandle.held = {}
        /\ ~NewHandle.fault /\ NewHandle.root = "bare"
    BY <1>2
  <1> QED BY <1>3, <1>4, HeldValues DEF Sound, Rooted

\* A sound handle satisfies the invariant.
LEMMA SoundIsEnough ==
  ASSUME env' \in Envs, Sound(t') PROVE LInv'
  BY DEF LInv, Sound, Rooted

\* Every call of Lifecycle keeps the invariant.
LEMMA StepInvariant == ASSUME LInv, LNext PROVE LInv'
  <1>1. ASSUME Usable PROVE Sound(t) /\ Sound(hwloc_backend_exit(t))
                            /\ hwloc_backend_exit(t).backend = "NONE"
    BY <1>1, ExitSound DEF LInv, Sound, Usable
  <1>0. {"/", "elsewhere", "good", "broken"} \subseteq Sources
    BY DEF Sources
  <1>e. env' = env /\ env \in Envs
    BY DEF LInv, LNext, hwloc_topology_init, hwloc_topology_set_flags,
           hwloc_topology_set_fsroot, hwloc_topology_set_synthetic,
           hwloc_topology_set_xml, hwloc_topology_set_custom, hwloc_custom_insert,
           Load, hwloc_topology_destroy, Configure
  <1>2. CASE hwloc_topology_init
    BY <1>2, <1>e, NewHandleSound, SoundIsEnough DEF hwloc_topology_init
  <1>3. CASE hwloc_topology_set_flags
    <2>1. PICK f \in BOOLEAN : Configure([t EXCEPT !.flag = f])
      BY <1>3 DEF hwloc_topology_set_flags
    <2>2. Sound(t')
      BY <2>1, <1>1 DEF Configure, Sound, Handle, Rooted
    <2> QED BY <2>2, <1>e, SoundIsEnough
  <1>4. CASE hwloc_topology_set_fsroot
    <2> DEFINE x == hwloc_backend_exit(t)
    <2>1. PICK path \in {"/", "elsewhere", "missing"} :
            Configure(IF os = "linux" THEN hwloc_backend_linuxfs_init(x, path) ELSE x)
      BY <1>4 DEF hwloc_topology_set_fsroot
    <2>2. Sound(x) /\ x.backend = "NONE"
      BY <2>1, <1>1 DEF Configure
    <2> HIDE DEF x
    <2>3. Sound(hwloc_backend_linuxfs_init(x, path))
      <3>1. CASE path = "missing"
        BY <2>2, <3>1 DEF hwloc_backend_linuxfs_init
      <3>2. CASE path # "missing"
        BY <1>0, <2>2, <3>2, LinuxfsInitSound
      <3> QED BY <3>1, <3>2
    <2>4. Sound(t')
      BY <2>1, <2>2, <2>3 DEF Configure
    <2> QED BY <2>4, <1>e, SoundIsEnough
  <1>5. CASE hwloc_topology_set_synthetic
    <2> DEFINE x == hwloc_backend_exit(t)
    <2>1. PICK description \in {"right", "wrong"} :
            Configure(hwloc_backend_synthetic_init(x, description))
      BY <1>5 DEF hwloc_topology_set_synthetic
    <2>2. Sound(x) /\ x.backend = "NONE"
      BY <2>1, <1>1 DEF Configure
    <2> HIDE DEF x
    <2>3. Sound(t')
      BY <2>1, <2>2, SyntheticInitSound DEF Configure
    <2> QED BY <2>3, <1>e, SoundIsEnough
  <1>6. CASE hwloc_topology_set_xml
    <2> DEFINE x == hwloc_backend_exit(t)
    <2>1. PICK file \in {"good", "broken", "missing"} :
            Configure(hwloc_backend_xml_init(x, file))
      BY <1>6 DEF hwloc_topology_set_xml
    <2>2. Sound(x) /\ x.backend = "NONE"
      BY <2>1, <1>1 DEF Configure
    <2> HIDE DEF x
    <2>3. Sound(hwloc_backend_xml_init(x, file))
      <3>1. CASE file = "missing"
        BY <2>2, <3>1 DEF hwloc_backend_xml_init
      <3>2. CASE file # "missing"
        BY <1>0, <2>2, <3>2, XmlInitSound
      <3> QED BY <3>1, <3>2
    <2>4. Sound(t')
      BY <2>1, <2>3 DEF Configure
    <2> QED BY <2>4, <1>e, SoundIsEnough
  <1>7. CASE hwloc_topology_set_custom
    <2>1. Sound(t')
      BY <1>7, <1>1, CustomInitSound DEF hwloc_topology_set_custom, Configure
    <2> QED BY <2>1, <1>e, SoundIsEnough
  <1>8. CASE hwloc_custom_insert
    <2>1. Sound(t) /\ t' = [t EXCEPT !.root = "built"]
      BY <1>8, <1>1 DEF hwloc_custom_insert, Configure
    <2>2. Sound(t')
      BY <2>1 DEF Sound, Handle, Rooted
    <2> QED BY <2>2, <1>e, SoundIsEnough
  <1>9. CASE Load
    <2>1. Sound(t')
      BY <1>9, <1>1, <1>e, LoadSound DEF Load, Configure
    <2> QED BY <2>1, <1>e, SoundIsEnough
  <1>10. CASE hwloc_topology_destroy
    <2> DEFINE x == hwloc_backend_exit(t)
    <2>1. Sound(x) /\ t' = [hwloc_topology_clear(x) EXCEPT !.live = FALSE]
      BY <1>10, <1>1 DEF hwloc_topology_destroy, Configure
    <2> HIDE DEF x
    <2>2. t' = [x EXCEPT !.fault = x.fault \/ x.root = "null", !.root = "null",
                         !.live = FALSE]
      BY <2>1 DEF hwloc_topology_clear, Sound, Handle
    <2>3. /\ t' \in Handle /\ t'.backend = x.backend /\ t'.held = x.held /\ ~t'.live
          /\ t'.failed = x.failed /\ t'.fault = (x.fault \/ x.root = "null")
      BY <2>1, <2>2 DEF Sound, Handle
    <2>4. t'.fault => t'.failed
      BY <2>1, <2>3 DEF Sound, Rooted
    <2> QED BY <1>e, <2>1, <2>3, <2>4 DEF LInv, Sound
  <1> QED BY <1>2, <1>3, <1>4, <1>5, <1>6, <1>7, <1>8, <1>9, <1>10 DEF LNext

------------------------------------------------------------------------------

\* Whatever the operating system, the environment and the binding calls made in
\* between, every handle keeps the invariant: what it holds is what its backend
\* holds, and only a failed load leaves it without a tree.
THEOREM HandleInvariant == Spec => []LInv
  <1>1. Init => LInv
    <2> SUFFICES ASSUME Init PROVE LInv
      OBVIOUS
    <2>1. t = NewHandle /\ env \in Envs
      BY DEF Init, LInit
    <2>2. Sound(t)
      BY <2>1, NewHandleSound
    <2> QED BY <2>1, <2>2 DEF LInv, Sound, Rooted
  <1>2. LInv /\ [Next]_vars => LInv'
    <2> SUFFICES ASSUME LInv, [Next]_vars PROVE LInv'
      OBVIOUS
    <2>1. CASE LNext
      BY <2>1, StepInvariant
    <2>2. CASE UNCHANGED lvars
      BY <2>2 DEF LInv, lvars, Sound, Rooted
    <2> QED BY <2>1, <2>2 DEF Next, BindingCall, vars, lvars
  <1> QED BY <1>1, <1>2, PTL DEF Spec

\* No sequence of calls clears a tree twice or works on a cleared one unless a
\* load has failed (hwloc_topology_clear, hwloc_backend_exit, destroy).
THEOREM NeverClearedTwice == Spec => []ClearedOnce
  <1>1. LInv => ClearedOnce
    BY DEF LInv, ClearedOnce, Rooted
  <1> QED BY <1>1, HandleInvariant, PTL

\* What the init function of a backend opens or allocates is held exactly while
\* it is the backend: its exit function releases it, once.
THEOREM HeldExactly == Spec => []HeldByBackend
  <1>1. LInv => HeldByBackend
    BY DEF LInv, HeldByBackend, HeldOf
  <1> QED BY <1>1, HandleInvariant, PTL
------------------------------------------------------------------------------
(* Whose hooks a handle has.                                                 *)

\* Somebody asked that the topology be taken for this system.
Asked(u) == u.asked \/ "1" \in {env.thissystem, env.force_thissystem}

\* A handle stands for this system only when its backend looks at it, or when
\* it was asked for.
Home(u) ==
  u.thissystem => Asked(u) \/ u.backend = "NONE" \/ (u.from = "/" /\ u.backend # "CUSTOM")

\* The hooks that setup_defaults resets: a handle that is not loaded has none.
Fields == HookNames \ LastHooks
Quiet(u) == \A n \in Fields : u.hook[n] = "null"

\* The tables of hooks that hwloc_discover leaves: the system's own, or the
\* ones that do nothing, in which plain allocation keeps its default.
OwnTable(u) == \A n \in Fields : u.hook[n] = IF n \in HooksOf(os) THEN "os" ELSE "null"
DontTable(u) == \A n \in Fields : u.hook[n] = IF n = "alloc" THEN "null" ELSE "dont"

\* A loaded handle: NoForeignHook of any handle u.
NoForeign(u) ==
  /\ ~u.thissystem /\ env.force_thissystem = "unset"
       => \A n \in HookNames : u.hook[n] # "os"
  /\ u.thissystem /\ u.sets # Machine => Asked(u)
  /\ OwnTable(u) \/ DontTable(u)

HInv == /\ Home(t)
        /\ ~t.loaded => Quiet(t)
        /\ t.loaded => NoForeign(t)

\* The allocation hook is one of the hooks setup_defaults resets.
LEMMA AllocIsReset == "alloc" \in HookNames /\ "alloc" \in Fields
  BY DEF HookNames, AllocHooks, LastHooks, Fields

\* Setting up the defaults resets the allocation hook.
LEMMA RenewQuiet ==
  ASSUME NEW u, Sound(u), Home(u)
  PROVE  LET v == hwloc_topology_setup_defaults(hwloc_topology_clear(u))
         IN  Home(v) /\ Quiet(v)
  <1> DEFINE w == hwloc_topology_clear(u)
             h == [n \in HookNames |-> IF n \in LastHooks THEN w.hook[n] ELSE "null"]
             v == [w EXCEPT !.hook = h, !.support = {}, !.root = "bare", !.sets = NoSets]
  <1>1. \A n \in Fields : h[n] = "null"
    BY DEF Fields
  <1>2. hwloc_topology_setup_defaults(hwloc_topology_clear(u)) = v
    BY DEF hwloc_topology_setup_defaults
  <1> HIDE DEF h
  <1>3. /\ v.hook = h /\ v.thissystem = u.thissystem /\ v.asked = u.asked
        /\ v.backend = u.backend /\ v.from = u.from
    BY DEF Sound, Handle, hwloc_topology_clear
  <1> HIDE DEF v
  <1> QED BY <1>1, <1>2, <1>3 DEF Home, Quiet, Asked

\* Leaving a backend: what was loaded is cleared and its hooks with it.
LEMMA ExitQuiet ==
  ASSUME NEW u, Sound(u), Home(u), ~u.loaded => Quiet(u)
  PROVE  LET v == hwloc_backend_exit(u) IN Home(v) /\ Quiet(v)
  <1> DEFINE v == CASE u.backend = "LINUXFS"   -> hwloc_backend_linuxfs_exit(u)
                    [] u.backend = "XML"       -> hwloc_backend_xml_exit(u)
                    [] u.backend = "SYNTHETIC" -> hwloc_backend_synthetic_exit(u)
                    [] u.backend = "CUSTOM"    -> hwloc_backend_custom_exit(u)
                    [] OTHER                   -> u
             r == hwloc_topology_setup_defaults(hwloc_topology_clear(u))
  <1>1. v \in Handle /\ v.backend = "NONE" /\ v.loaded = u.loaded /\ (~v.loaded => Quiet(v))
    <2>0. "none" \in Sources
      BY DEF Sources
    <2>1. CASE u.backend \in {"LINUXFS", "XML", "SYNTHETIC"}
      <3>1. PICK x : v = [u EXCEPT !.backend = "NONE", !.from = "none", !.held = @ \ {x}]
        BY <2>1 DEF hwloc_backend_linuxfs_exit, hwloc_backend_xml_exit,
                    hwloc_backend_synthetic_exit
      <3> HIDE DEF v
      <3> QED BY <2>0, <3>1 DEF Sound, Handle, Backends, Quiet
    <2>2. CASE u.backend = "CUSTOM"
      <3>1. Sound(r) /\ Quiet(r) /\ r.loaded = u.loaded
        BY RenewSound, RenewQuiet
      <3>2. v = [r EXCEPT !.backend = "NONE", !.from = "none"]
        BY <2>2 DEF hwloc_backend_custom_exit
      <3> HIDE DEF r, v
      <3> QED BY <2>0, <3>1, <3>2 DEF Sound, Handle, Backends, Quiet
    <2>3. CASE u.backend = "NONE"
      BY <2>3 DEF Sound
    <2> QED BY <2>1, <2>2, <2>3 DEF Sound, Handle, Backends
  <1> DEFINE c == hwloc_topology_clear(v)
             h == [n \in HookNames |-> IF n \in LastHooks THEN c.hook[n] ELSE "null"]
             d == [c EXCEPT !.hook = h, !.support = {}, !.root = "bare", !.sets = NoSets]
  <1>2. hwloc_backend_exit(u) = IF ~v.loaded THEN v ELSE [d EXCEPT !.loaded = FALSE]
    BY DEF hwloc_backend_exit, hwloc_topology_setup_defaults
  <1>3. \A n \in Fields : h[n] = "null"
    BY DEF Fields
  <1> HIDE DEF v, h
  <1>4. CASE ~v.loaded
    BY <1>1, <1>2, <1>4 DEF Home
  <1>5. CASE v.loaded
    <2>1. LET y == [d EXCEPT !.loaded = FALSE] IN y.hook = h /\ y.backend = "NONE"
      BY <1>1 DEF Handle, hwloc_topology_clear
    <2> QED BY <1>2, <1>3, <1>5, <2>1 DEF Home, Quiet
  <1> QED BY <1>4, <1>5

\* An init function leaves the hooks alone, and its backend stands for this
\* system only if it looks at the root directory.
LEMMA InitsQuiet ==
  ASSUME NEW u, Sound(u), u.backend = "NONE", Quiet(u), NEW x
  PROVE  /\ Home(hwloc_backend_linuxfs_init(u, x)) /\ Quiet(hwloc_backend_linuxfs_init(u, x))
         /\ Home(hwloc_backend_xml_init(u, x)) /\ Quiet(hwloc_backend_xml_init(u, x))
         /\ Home(hwloc_backend_synthetic_init(u, x)) /\ Quiet(hwloc_backend_synthetic_init(u, x))
         /\ Home(hwloc_backend_custom_init(u)) /\ Quiet(hwloc_backend_custom_init(u))
  <1>0. Home(u)
    BY DEF Home
  <1>1. /\ Home(hwloc_backend_linuxfs_init(u, x)) /\ Quiet(hwloc_backend_linuxfs_init(u, x))
    <2> DEFINE b == x = "/"
               y == u.thissystem /\ b
               v == [u EXCEPT !.thissystem = y, !.backend = "LINUXFS", !.from = x,
                              !.asked = FALSE, !.held = u.held \cup {"root_fd"}]
    <2>1. hwloc_backend_linuxfs_init(u, x) \in {u, v}
      BY DEF hwloc_backend_linuxfs_init
    <2>2. y => x = "/"
      OBVIOUS
    <2> HIDE DEF y
    <2>3. v.thissystem = y /\ v.backend = "LINUXFS" /\ v.from = x /\ v.hook = u.hook
      BY DEF Sound, Handle
    <2> HIDE DEF v
    <2>4. Home(v) /\ Quiet(v)
      BY <2>2, <2>3 DEF Home, Quiet
    <2> QED BY <1>0, <2>1, <2>4
  <1>2. /\ Home(hwloc_backend_xml_init(u, x)) /\ Quiet(hwloc_backend_xml_init(u, x))
    BY <1>0 DEF Sound, Handle, Home, Quiet, hwloc_backend_xml_init
  <1>3. /\ Home(hwloc_backend_synthetic_init(u, x)) /\ Quiet(hwloc_backend_synthetic_init(u, x))
    BY <1>0 DEF Sound, Handle, Home, Quiet, hwloc_backend_synthetic_init
  <1>4. /\ Home(hwloc_backend_custom_init(u)) /\ Quiet(hwloc_backend_custom_init(u))
    BY DEF Sound, Handle, Home, Quiet, hwloc_backend_custom_init
  <1> QED BY <1>1, <1>2, <1>3, <1>4

\* The environment chooses backends the same way.
LEMMA EnvironmentQuiet ==
  ASSUME env \in Envs, NEW u, Sound(u), u.loaded = FALSE, Home(u), Quiet(u)
  PROVE  LET v == EnvironmentBackend(u) IN Home(v) /\ Quiet(v)
  <1> DEFINE a == IF os = "linux" /\ env.force_fsroot # "unset"
                  THEN hwloc_backend_linuxfs_init(hwloc_backend_exit(u), env.force_fsroot)
                  ELSE u
             b == IF env.force_xmlfile # "unset"
                  THEN hwloc_backend_xml_init(hwloc_backend_exit(a), env.force_xmlfile)
                  ELSE a
             c == IF os = "linux" /\ b.backend = "NONE" /\ env.fsroot # "unset"
                  THEN hwloc_backend_linuxfs_init(b, env.fsroot)
                  ELSE b
             d == IF c.backend = "NONE" /\ env.xmlfile # "unset"
                  THEN hwloc_backend_xml_init(c, env.xmlfile)
                  ELSE c
             e == [d EXCEPT !.thissystem = IF env.thissystem = "unset" THEN @
                                           ELSE env.thissystem = "1"]
             Fine(w) == Sound(w) /\ w.loaded = FALSE /\ Home(w) /\ Quiet(w)
  <1>0. {env.force_fsroot, env.force_xmlfile, env.fsroot, env.xmlfile} \subseteq Sources
    BY DEF Sources
  <1>1. Fine(a)
    BY <1>0, ExitSound, ExitQuiet, LinuxfsInitSound, InitsQuiet
  <1> HIDE DEF a
  <1>2. Fine(b)
    BY <1>0, <1>1, ExitSound, ExitQuiet, XmlInitSound, InitsQuiet
  <1> HIDE DEF b
  <1>3. Fine(c)
    BY <1>0, <1>2, LinuxfsInitSound, InitsQuiet
  <1> HIDE DEF c
  <1>4. Fine(d)
    BY <1>0, <1>3, XmlInitSound, InitsQuiet
  <1> HIDE DEF d
  <1>5. Fine(e)
    <2> DEFINE y == IF env.thissystem = "unset" THEN d.thissystem ELSE env.thissystem = "1"
    <2>1. y \in BOOLEAN
      BY <1>4 DEF Sound, Handle
    <2>2. e = [d EXCEPT !.thissystem = y]
      OBVIOUS
    <2>3. y => d.thissystem \/ env.thissystem = "1"
      OBVIOUS
    <2> HIDE DEF e, y
    <2>4. /\ e \in Handle /\ e.loaded = d.loaded /\ e.held = d.held /\ e.backend = d.backend
          /\ Rooted(e)
      BY <1>4, <2>1, <2>2 DEF Sound, Handle, Rooted
    <2>5. /\ e.thissystem = y /\ e.asked = d.asked /\ e.from = d.from /\ e.hook = d.hook
      BY <1>4, <2>2 DEF Sound, Handle
    <2>6. Home(e) /\ Quiet(e)
      BY <1>4, <2>3, <2>4, <2>5 DEF Home, Asked, Quiet
    <2> QED BY <1>4, <2>4, <2>6 DEF Sound
  <1> HIDE DEF e
  <1>6. EnvironmentBackend(u) = IF os = "linux" /\ e.backend = "NONE"
                                THEN hwloc_backend_linuxfs_init(e, "/") ELSE e
    BY DEF EnvironmentBackend, a, b, c, d, e
  <1> QED BY <1>5, <1>6, InitsQuiet

\* A discovery that succeeds replaces every hook but alloc, and what it found
\* stands for this system only if it looked at it or was asked.
LEMMA DiscoverQuiet ==
  ASSUME NEW u, Sound(u), Home(u), Quiet(u)
  PROVE  LET v == hwloc_discover(u)
         IN  /\ Home(v) /\ v.loaded = u.loaded
             /\ v.root = "null" => Quiet(v)
             /\ v.root # "null" => NoForeign(v)
  <1>1. CASE u.backend = "XML" /\ u.from = "broken"
    <2> DEFINE v == [u EXCEPT !.fault = u.fault \/ u.root = "null", !.root = "null",
                              !.failed = TRUE]
    <2>1. hwloc_discover(u) = v
      BY <1>1 DEF hwloc_discover, hwloc_topology_clear, Sound, Handle
    <2>2. /\ v.root = "null" /\ v.hook = u.hook /\ v.thissystem = u.thissystem
          /\ v.asked = u.asked /\ v.backend = u.backend /\ v.from = u.from
          /\ v.loaded = u.loaded
      BY DEF Sound, Handle
    <2> HIDE DEF v
    <2> QED BY <2>1, <2>2 DEF Home, Quiet, Asked
  <1>2. CASE ~(u.backend = "XML" /\ u.from = "broken")
    <2> DEFINE sets == CASE u.backend = "CUSTOM" -> NoSets
                         [] u.backend = "NONE" \/ u.from = "/" -> Machine
                         [] OTHER -> Foreign
               f == u.fault \/ u.root = "null"
               y == u.thissystem \/ u.flag
               a == u.asked \/ u.flag
               w == [u EXCEPT !.fault = f, !.root = "built", !.sets = sets,
                              !.thissystem = y, !.asked = a]
               h == [n \in HookNames |->
                      CASE w.thissystem /\ n \in HooksOf(os) -> "os"
                        [] ~w.thissystem /\ n \in DontHooks  -> "dont"
                        [] OTHER                             -> w.hook[n]]
               s == IF w.thissystem THEN {n \in HookNames \ AllocHooks : h[n] # "null"}
                    ELSE {}
               v == [w EXCEPT !.hook = h, !.support = s]
    <2>1. hwloc_discover(u) = v
      BY <1>2 DEF hwloc_discover, set_hooks
    <2>2. /\ u.backend # "CUSTOM" /\ (u.backend = "NONE" \/ u.from = "/") => sets = Machine
          /\ y => u.thissystem \/ a
          /\ u.asked => a
          /\ y = w.thissystem
      BY DEF Sound, Handle
    <2>3. w.hook = u.hook
      BY DEF Sound, Handle
    <2>4. ~y => \A n \in HookNames : h[n] # "os"
      <3> SUFFICES ASSUME ~y, NEW n \in HookNames PROVE h[n] # "os"
        OBVIOUS
      <3>1. n \in DontHooks \/ n = "alloc"
        BY DEF DontHooks
      <3>2. w.hook["alloc"] # "os" /\ ~w.thissystem
        BY <2>2, <2>3, AllocIsReset DEF Quiet
      <3> HIDE DEF w, y
      <3> QED BY <3>1, <3>2
    <2>t. \/ \A n \in Fields : h[n] = IF n \in HooksOf(os) THEN "os" ELSE "null"
          \/ \A n \in Fields : h[n] = IF n = "alloc" THEN "null" ELSE "dont"
      <3>1. \A n \in Fields : w.hook[n] = "null" /\ n \in HookNames
                               /\ (n \in DontHooks <=> n # "alloc")
        BY <2>3 DEF Quiet, Fields, DontHooks
      <3> HIDE DEF w
      <3>2. CASE w.thissystem
        BY <3>1, <3>2
      <3>3. CASE ~w.thissystem
        BY <3>1, <3>3
      <3> QED BY <3>2, <3>3
    <2> HIDE DEF h, s, sets, y, a, f
    <2>5. /\ v.hook = h /\ v.thissystem = y /\ v.asked = a /\ v.sets = sets
          /\ v.backend = u.backend /\ v.from = u.from /\ v.loaded = u.loaded
          /\ v.root = "built"
      BY DEF Sound, Handle
    <2> HIDE DEF v
    <2>6. Home(v)
      BY <2>2, <2>5 DEF Home, Asked
    <2>8. OwnTable(v) \/ DontTable(v)
      BY <2>t, <2>5 DEF OwnTable, DontTable
    <2>7. NoForeign(v)
      BY <2>2, <2>4, <2>5, <2>8 DEF NoForeign, Home, Asked
    <2> QED BY <2>1, <2>5, <2>6, <2>7
  <1> QED BY <1>1, <1>2

\* A load starts from a handle whose hooks are reset.
LEMMA LoadQuiet ==
  ASSUME env \in Envs, NEW u, Sound(u), Home(u), ~u.loaded => Quiet(u)
  PROVE  LET x == hwloc_topology_load(u)
         IN  Home(x) /\ (~x.loaded => Quiet(x)) /\ (x.loaded => NoForeign(x))
  <1> DEFINE r == hwloc_topology_setup_defaults(hwloc_topology_clear(u))
             v == IF ~u.loaded THEN u ELSE [r EXCEPT !.loaded = FALSE]
             b == EnvironmentBackend(v)
             w == hwloc_discover(b)
             y == IF env.force_thissystem = "unset" THEN w.thissystem
                  ELSE env.force_thissystem = "1"
             x == [w EXCEPT !.thissystem = y, !.loaded = TRUE]
  <1>1. Sound(v) /\ v.loaded = FALSE /\ Home(v) /\ Quiet(v)
    <2>1. CASE ~u.loaded
      BY <2>1 DEF Sound, Handle
    <2>2. CASE u.loaded
      <3>1. Sound(r) /\ Home(r) /\ Quiet(r)
        BY RenewSound, RenewQuiet
      <3>2. v = [r EXCEPT !.loaded = FALSE]
        BY <2>2
      <3> HIDE DEF r, v
      <3>3. Sound(v) /\ v.loaded = FALSE
        BY <3>1, <3>2 DEF Sound, Handle, Rooted
      <3>4. /\ v.thissystem = r.thissystem /\ v.asked = r.asked /\ v.backend = r.backend
            /\ v.from = r.from /\ v.hook = r.hook
        BY <3>1, <3>2 DEF Sound, Handle
      <3> QED BY <3>1, <3>3, <3>4 DEF Home, Quiet, Asked
    <2> QED BY <2>1, <2>2
  <1>2. hwloc_topology_load(u) = IF w.root = "null" THEN w ELSE x
    BY DEF hwloc_topology_load
  <1> HIDE DEF v
  <1>3. Sound(b) /\ b.loaded = FALSE /\ Home(b) /\ Quiet(b)
    BY <1>1, EnvironmentSound, EnvironmentQuiet
  <1> HIDE DEF b
  <1>4. /\ Sound(w) /\ Home(w) /\ w.loaded = FALSE
        /\ w.root = "null" => Quiet(w)
        /\ w.root # "null" => NoForeign(w)
    BY <1>3, DiscoverSound, DiscoverQuiet
  <1> HIDE DEF w
  <1>5. CASE w.root = "null"
    BY <1>2, <1>4, <1>5
  <1>6. CASE w.root # "null"
    <2>1. /\ env.force_thissystem = "unset" => y = w.thissystem
          /\ env.force_thissystem # "unset" /\ y => env.force_thissystem = "1"
      OBVIOUS
    <2> HIDE DEF y
    <2>2. /\ x.thissystem = y /\ x.loaded = TRUE /\ x.asked = w.asked /\ x.hook = w.hook
          /\ x.backend = w.backend /\ x.from = w.from /\ x.sets = w.sets
      BY <1>4 DEF Sound, Handle
    <2> HIDE DEF x
    <2>3. Home(x)
      BY <1>4, <2>1, <2>2 DEF Home, Asked
    <2>4. NoForeign(x)
      BY <1>4, <1>6, <2>1, <2>2 DEF NoForeign, Asked, OwnTable, DontTable
    <2> QED BY <1>2, <1>6, <2>2, <2>3, <2>4
  <1> QED BY <1>5, <1>6

\* Every call of Lifecycle keeps it.
LEMMA StepHooks == ASSUME LInv, HInv, LNext PROVE HInv'
  <1> DEFINE x == hwloc_backend_exit(t)
             Unloaded(v) == v.loaded = FALSE /\ Home(v) /\ Quiet(v)
  <1>1. ASSUME Usable
        PROVE  Sound(t) /\ Sound(x) /\ x.backend = "NONE" /\ Unloaded(x)
    BY <1>1, ExitSound, ExitQuiet DEF LInv, HInv, Sound, Usable
  <1>e. env' = env /\ os' = os /\ env \in Envs
    BY DEF LInv, LNext, hwloc_topology_init, hwloc_topology_set_flags,
           hwloc_topology_set_fsroot, hwloc_topology_set_synthetic,
           hwloc_topology_set_xml, hwloc_topology_set_custom, hwloc_custom_insert,
           Load, hwloc_topology_destroy, Configure
  <1> HIDE DEF x
  <1>u. ASSUME NEW v, t' = v, Unloaded(v) PROVE HInv'
    BY <1>e, <1>u DEF HInv, Home, Quiet, Asked
  <1>2. CASE hwloc_topology_init
    <2>1. \A n \in Fields : NewHandle.hook[n] = "null"
      BY DEF NewHandle, Fields
    <2>2. NewHandle.backend = "NONE" /\ NewHandle.loaded = FALSE
      BY DEF NewHandle
    <2>3. Unloaded(NewHandle)
      BY <2>1, <2>2 DEF Home, Quiet
    <2> QED BY <1>2, <1>u, <2>3 DEF hwloc_topology_init
  <1>3. CASE hwloc_topology_set_flags
    <2>1. PICK f \in BOOLEAN : Usable /\ t' = [t EXCEPT !.flag = f]
      BY <1>3 DEF hwloc_topology_set_flags, Configure
    <2>2. /\ t'.thissystem = t.thissystem /\ t'.asked = t.asked /\ t'.hook = t.hook
          /\ t'.backend = t.backend /\ t'.from = t.from /\ t'.sets = t.sets
          /\ t'.loaded = t.loaded
      BY <1>1, <2>1 DEF Sound, Handle
    <2> QED BY <1>e, <2>2 DEF HInv, Home, Quiet, NoForeign, Asked, OwnTable, DontTable
  <1>4. CASE hwloc_topology_set_fsroot
    <2>1. PICK path \in {"/", "elsewhere", "missing"} :
            Configure(IF os = "linux" THEN hwloc_backend_linuxfs_init(x, path) ELSE x)
      BY <1>4 DEF hwloc_topology_set_fsroot, x
    <2>2. Unloaded(hwloc_backend_linuxfs_init(x, path))
      <3>1. hwloc_backend_linuxfs_init(x, path).loaded = FALSE
        BY <1>1, <2>1 DEF Configure, hwloc_backend_linuxfs_init, Sound, Handle
      <3> QED BY <1>1, <2>1, <3>1, InitsQuiet DEF Configure
    <2> QED BY <1>1, <1>u, <2>1, <2>2 DEF Configure
  <1>5. CASE hwloc_topology_set_synthetic
    <2>1. PICK description \in {"right", "wrong"} :
            Configure(hwloc_backend_synthetic_init(x, description))
      BY <1>5 DEF hwloc_topology_set_synthetic, x
    <2>2. hwloc_backend_synthetic_init(x, description).loaded = FALSE
      BY <1>1, <2>1 DEF Configure, hwloc_backend_synthetic_init, Sound, Handle
    <2> QED BY <1>1, <1>u, <2>1, <2>2, InitsQuiet DEF Configure
  <1>6. CASE hwloc_topology_set_xml
    <2>1. PICK file \in {"good", "broken", "missing"} :
            Configure(hwloc_backend_xml_init(x, file))
      BY <1>6 DEF hwloc_topology_set_xml, x
    <2>2. hwloc_backend_xml_init(x, file).loaded = FALSE
      BY <1>1, <2>1 DEF Configure, hwloc_backend_xml_init, Sound, Handle
    <2> QED BY <1>1, <1>u, <2>1, <2>2, InitsQuiet DEF Configure
  <1>7. CASE hwloc_topology_set_custom
    <2>1. Configure(hwloc_backend_custom_init(x))
      BY <1>7 DEF hwloc_topology_set_custom, x
    <2>2. hwloc_backend_custom_init(x).loaded = FALSE
      BY <1>1, <2>1 DEF Configure, hwloc_backend_custom_init, Sound, Handle
    <2> QED BY <1>1, <1>u, <2>1, <2>2, InitsQuiet DEF Configure
  <1>8. CASE hwloc_custom_insert
    <2>1. Sound(t) /\ ~t.loaded /\ t' = [t EXCEPT !.root = "built"]
      BY <1>8, <1>1 DEF hwloc_custom_insert, Configure
    <2>2. /\ t'.thissystem = t.thissystem /\ t'.asked = t.asked /\ t'.hook = t.hook
          /\ t'.backend = t.backend /\ t'.from = t.from /\ t'.loaded = t.loaded
      BY <2>1 DEF Sound, Handle
    <2> QED BY <1>e, <2>1, <2>2 DEF HInv, Home, Quiet, Asked
  <1>9. CASE Load
    <2> DEFINE v == hwloc_topology_load(t)
    <2>1. /\ t' = v
          /\ Home(v) /\ (~v.loaded => Quiet(v)) /\ (v.loaded => NoForeign(v))
      BY <1>9, <1>1, <1>e, LoadQuiet DEF Load, Configure, HInv
    <2> HIDE DEF v
    <2> QED BY <1>e, <2>1 DEF HInv, Home, Quiet, NoForeign, Asked, OwnTable, DontTable
  <1>10. CASE hwloc_topology_destroy
    <2>1. Sound(x) /\ Unloaded(x) /\ t' = [hwloc_topology_clear(x) EXCEPT !.live = FALSE]
      BY <1>10, <1>1 DEF hwloc_topology_destroy, Configure, x
    <2>2. /\ t'.thissystem = x.thissystem /\ t'.asked = x.asked /\ t'.hook = x.hook
          /\ t'.backend = x.backend /\ t'.from = x.from /\ t'.loaded = x.loaded
      BY <2>1 DEF Sound, Handle, hwloc_topology_clear
    <2> QED BY <1>e, <2>1, <2>2 DEF HInv, Home, Quiet, Asked
  <1> QED BY <1>2, <1>3, <1>4, <1>5, <1>6, <1>7, <1>8, <1>9, <1>10 DEF LNext

\* The handle's hooks are those of one table, chosen by its last load, and a
\* handle that is not loaded has none (set_hooks of hwloc_discover and
\* hwloc_topology_setup_defaults).
THEOREM HookInvariant == Spec => []HInv
  <1>1. Init => HInv
    <2> SUFFICES ASSUME Init PROVE HInv
      OBVIOUS
    <2>1. t = NewHandle
      BY DEF Init, LInit
    <2>2. \A n \in Fields : t.hook[n] = "null"
      BY <2>1 DEF NewHandle, Fields
    <2>3. t.backend = "NONE" /\ t.loaded = FALSE
      BY <2>1 DEF NewHandle
    <2> QED BY <2>2, <2>3 DEF HInv, Home, Quiet
  <1>2. LInv /\ HInv /\ [Next]_vars => HInv'
    <2> SUFFICES ASSUME LInv, HInv, [Next]_vars PROVE HInv'
      OBVIOUS
    <2>1. CASE LNext
      BY <2>1, StepHooks
    <2>2. CASE UNCHANGED lvars
      BY <2>2 DEF HInv, lvars, Home, Quiet, NoForeign, Asked, OwnTable, DontTable
    <2> QED BY <2>1, <2>2 DEF Next, BindingCall, vars, lvars
  <1> QED BY <1>1, <1>2, HandleInvariant, PTL DEF Spec

\* A loaded handle that does not stand for this system has none of its hooks,
\* and one that comes from elsewhere stands for this system only when asked.
THEOREM HooksOfThisSystemOnly == Spec => []NoForeignHook
  <1>1. HInv => NoForeignHook
    BY DEF HInv, NoForeign, NoForeignHook, Asked
  <1> QED BY <1>1, HookInvariant, PTL
==============================================================================
