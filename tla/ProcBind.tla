------------------------------ MODULE ProcBind ------------------------------
(***************************************************************************)
(* Binding every thread of a process on Linux (topology-linux.c).  The      *)
(* kernel has no such call: hwloc_linux_foreach_proc_tid lists the threads  *)
(* in /proc/<pid>/task, calls back for each, lists them again and starts    *)
(* over when the list changed, while the threads of that process create     *)
(* others and end.  One step is one system call.                            *)
(*                                                                          *)
(* Two assumptions on the machine: thread identifiers are not reused during *)
(* a call, and nobody but the caller binds the threads meanwhile.           *)
(***************************************************************************)
EXTENDS Integers, Sequences

CONSTANTS
  MaxTid,    \* bound on the threads the process ever has
  Cpus,      \* processors of the machine
  Allowed,   \* those the process may run on
  Sets       \* cpusets the caller binds to, or passes in for a result

ASSUME TidAssumption == MaxTid \in Nat \ {0}
ASSUME SetsAssumption == Allowed \subseteq Cpus /\ Sets \subseteq SUBSET Cpus

VARIABLES
  live,      \* threads in the task directory
  aff,       \* the processors each thread may run on
  next,      \* the next thread identifier
  mine,      \* the caller is thread 1 of the process
  haspid,    \* topology->pid names the process
  pc,        \* where the call is
  op,        \* "set", "get" or "last" (hwloc_get_*_last_cpu_location)
  strict,    \* HWLOC_CPUBIND_STRICT
  cpuset,    \* the set to bind to, or the result
  tids,      \* the list that is being applied
  newtids,   \* the list that is being read
  dirpos,    \* the last entry readdir returned
  i,         \* the next thread to call back for
  ret,       \* what the call returns: "ok" or errno
  seen,      \* history: threads alive when the last reading began
  found      \* history: where each thread was found since the list was taken

threads == <<live, aff, next>>
args    == <<op, strict>>
scan    == <<tids, newtids, dirpos, i>>
history == <<seen, found>>
vars    == <<threads, mine, haspid, pc, args, cpuset, scan, ret, history>>

Tids == 1 .. MaxTid
NotFound == [x \in Tids |-> {}]

TypeOK ==
  /\ live \subseteq Tids
  /\ aff \in [Tids -> SUBSET Cpus]
  /\ next \in 1 .. MaxTid + 1
  /\ \A x \in live : x < next
  /\ mine \in BOOLEAN
  /\ haspid \in BOOLEAN
  /\ pc \in {"idle", "first", "apply", "reread", "return"}
  /\ op \in {"set", "get", "last"}
  /\ strict \in BOOLEAN
  /\ cpuset \in SUBSET Cpus
  /\ tids \in Seq(Tids)
  /\ newtids \in Seq(Tids)
  /\ dirpos \in 0 .. MaxTid
  /\ i \in Nat \ {0}
  /\ ret \in {"ok", "ESRCH", "EINVAL", "EXDEV", "ENOSYS", "ENOMEM"}
  /\ seen \subseteq Tids
  /\ found \in [Tids -> SUBSET Cpus]

\* A process of one thread.
Init ==
  /\ live = {1} /\ next = 2
  /\ aff = [x \in Tids |-> Allowed]
  /\ mine \in BOOLEAN /\ haspid \in BOOLEAN
  /\ pc = "idle" /\ op = "set" /\ strict = FALSE /\ cpuset = {}
  /\ tids = <<>> /\ newtids = <<>> /\ dirpos = 0 /\ i = 1 /\ ret = "ok"
  /\ seen = {} /\ found = NotFound

------------------------------------------------------------------------------
(* The process.  The caller, when it is one of the threads, is busy.         *)

Busy(x) == mine /\ x = 1 /\ pc # "idle"

\* A thread starts another, which inherits its processors.
Create(x) ==
  /\ x \in live /\ ~Busy(x) /\ next <= MaxTid
  /\ live' = live \cup {next}
  /\ aff' = [aff EXCEPT ![next] = aff[x]]
  /\ next' = next + 1
  /\ UNCHANGED <<mine, haspid, pc, args, cpuset, scan, ret, history>>

Exit(x) ==
  /\ x \in live /\ ~(mine /\ x = 1)
  /\ live' = live \ {x}
  /\ UNCHANGED <<aff, next, mine, haspid, pc, args, cpuset, scan, ret, history>>

------------------------------------------------------------------------------
(* One thread.  sched_setaffinity keeps the allowed part of the set and      *)
(* refuses when there is none; a thread that ended is not found.             *)

hwloc_linux_set_tid_cpubind(x, set) ==
  IF set = {} \/ set \cap Allowed = {} THEN "EINVAL"
  ELSE IF x \notin live THEN "ESRCH" ELSE "ok"

hwloc_linux_get_tid_cpubind(x) == IF x \in live THEN "ok" ELSE "ESRCH"

hwloc_linux_get_tid_last_cpu_location(x) ==
  IF x \in live THEN "ok" ELSE "ENOSYS"

\* A call about one thread: itself, another one, or the leader of a process.
OneThread(x) ==
  /\ pc = "idle" /\ x \in Tids
  /\ \/ mine /\ ~haspid      \* thisthread and thread calls: ENOSYS with a pid
     \/ x = 1                \* proc calls with HWLOC_CPUBIND_THREAD
  /\ \E set \in Sets :
       /\ hwloc_linux_set_tid_cpubind(x, set) = "ok"
       /\ aff' = [aff EXCEPT ![x] = set \cap Allowed]
  /\ UNCHANGED <<live, next, mine, haspid, pc, args, cpuset, scan, ret, history>>

------------------------------------------------------------------------------
(* hwloc_linux_foreach_proc_tid.                                             *)

\* Entry points about a whole process: thisproc calls use topology->pid.
Begin ==
  /\ pc = "idle"
  /\ op' \in {"set", "get", "last"}
  /\ strict' \in IF op' = "get" THEN BOOLEAN ELSE {FALSE}
  /\ cpuset' \in Sets
  /\ tids' = <<>> /\ newtids' = <<>> /\ dirpos' = 0 /\ i' = 1
  /\ seen' = live /\ found' = NotFound
  /\ \/ live # {} /\ pc' = "first" /\ ret' = "ok"
     \/ pc' = "return" /\ ret' = "ENOSYS"          \* opendir fails
  /\ UNCHANGED <<threads, mine, haspid>>

Return(code) ==
  /\ pc' = "return" /\ ret' = code
  /\ UNCHANGED <<threads, mine, haspid, args, cpuset, scan, history>>

\* hwloc_linux_get_proc_tids: the entries of the directory, oldest first.
readdir ==
  /\ pc \in {"first", "reread"}
  /\ \E x \in live :
       /\ x > dirpos
       /\ \A y \in live : y > dirpos => x <= y
       /\ newtids' = Append(newtids, x)
       /\ dirpos' = x
  /\ UNCHANGED <<threads, mine, haspid, pc, args, cpuset, tids, i, ret, history>>

EndOfDir == pc \in {"first", "reread"} /\ \A x \in live : x <= dirpos

OutOfMemory == pc \in {"first", "reread"} /\ Return("ENOMEM")

\* Mutant: as many threads as before are the same threads.
Changed_CountOnly == Len(newtids) # Len(tids)

\* Mutant: two lists are never the same.
Changed_Always == TRUE

Changed == newtids # tids

\* The first list is applied, and so is one that differs from the last.
ApplyList ==
  /\ EndOfDir
  /\ pc = "first" \/ Changed
  /\ pc' = "apply"
  /\ tids' = newtids /\ newtids' = <<>> /\ dirpos' = 0 /\ i' = 1
  /\ found' = NotFound
  /\ UNCHANGED <<threads, mine, haspid, args, cpuset, ret, seen>>

Finish == EndOfDir /\ pc = "reread" /\ ~Changed /\ Return("ok")

Reread ==
  /\ pc = "apply" /\ i > Len(tids)
  /\ pc' = "reread"
  /\ newtids' = <<>> /\ dirpos' = 0
  /\ seen' = live
  /\ UNCHANGED <<threads, mine, haspid, args, cpuset, tids, i, ret, found>>

AtThread == pc = "apply" /\ i <= Len(tids)

CallbackFails(code) == AtThread /\ code # "ok" /\ Return(code)

set_cpubind_cb ==
  /\ AtThread /\ op = "set"
  /\ hwloc_linux_set_tid_cpubind(tids[i], cpuset) = "ok"
  /\ aff' = [aff EXCEPT ![tids[i]] = cpuset \cap Allowed]
  /\ i' = i + 1
  /\ UNCHANGED <<live, next, mine, haspid, pc, args, cpuset, tids, newtids,
                 dirpos, ret, history>>

set_cpubind_cb_fails ==
  op = "set" /\ AtThread
  /\ CallbackFails(hwloc_linux_set_tid_cpubind(tids[i], cpuset))

\* Mutant: the first thread is added to what the bitmap held.
GetResult_NoReset(n, b) == IF strict /\ n = 1 THEN b ELSE cpuset \cup b

\* Mutant: every thread replaces the answer.
GetResult_LastOnly(n, b) == b

\* What the result becomes after thread number n, bound to b.
GetResult(n, b) == IF n = 1 \/ strict THEN b ELSE cpuset \cup b

Mismatch(n, b) == strict /\ n > 1 /\ b # cpuset

get_cpubind_cb ==
  /\ AtThread /\ op = "get"
  /\ hwloc_linux_get_tid_cpubind(tids[i]) = "ok"
  /\ ~Mismatch(i, aff[tids[i]])
  /\ cpuset' = GetResult(i, aff[tids[i]])
  /\ i' = i + 1
  /\ UNCHANGED <<threads, mine, haspid, pc, args, tids, newtids, dirpos, ret,
                 history>>

get_cpubind_cb_fails ==
  /\ op = "get" /\ AtThread
  /\ \/ CallbackFails(hwloc_linux_get_tid_cpubind(tids[i]))
     \/ /\ hwloc_linux_get_tid_cpubind(tids[i]) = "ok"
        /\ Mismatch(i, aff[tids[i]])
        /\ CallbackFails("EXDEV")

\* Mutant: the first thread is added to what the bitmap held.
LastResult_NoReset(n, b) == cpuset \cup b

LastResult(n, b) == IF n = 1 THEN b ELSE cpuset \cup b

get_last_cpu_location_cb ==
  /\ AtThread /\ op = "last"
  /\ hwloc_linux_get_tid_last_cpu_location(tids[i]) = "ok"
  /\ \E c \in Cpus :
       /\ cpuset' = LastResult(i, {c})
       /\ found' = [found EXCEPT ![tids[i]] = @ \cup {c}]
  /\ i' = i + 1
  /\ UNCHANGED <<threads, mine, haspid, pc, args, tids, newtids, dirpos, ret, seen>>

get_last_cpu_location_cb_fails ==
  op = "last" /\ AtThread
  /\ CallbackFails(hwloc_linux_get_tid_last_cpu_location(tids[i]))

\* The program takes the result, and the locals of the call are gone.
Back ==
  /\ pc = "return" /\ pc' = "idle"
  /\ op' = "set" /\ strict' = FALSE /\ cpuset' = {}
  /\ tids' = <<>> /\ newtids' = <<>> /\ dirpos' = 0 /\ i' = 1 /\ ret' = "ok"
  /\ seen' = {} /\ found' = NotFound
  /\ UNCHANGED <<threads, mine, haspid>>

CallStep ==
  \/ readdir \/ OutOfMemory \/ ApplyList \/ Finish \/ Reread
  \/ set_cpubind_cb \/ set_cpubind_cb_fails
  \/ get_cpubind_cb \/ get_cpubind_cb_fails
  \/ get_last_cpu_location_cb \/ get_last_cpu_location_cb_fails
  \/ Back

Next ==
  \/ \E x \in Tids : Create(x) \/ Exit(x) \/ OneThread(x)
  \/ Begin
  \/ CallStep

\* The caller runs on; the threads of the process owe nothing to anybody.
Spec == Init /\ [][Next]_vars /\ WF_vars(CallStep)

------------------------------------------------------------------------------

Succeeded(o) == pc = "return" /\ ret = "ok" /\ op = o

\* hwloc_linux_set_pid_cpubind: when the call succeeds every thread of the
\* process is bound as asked, those that started during the call included,
\* whoever started them and whatever ended meanwhile.
SetReachesAll ==
  Succeeded("set") => \A x \in live : aff[x] = cpuset \cap Allowed

\* hwloc_linux_get_pid_cpubind: the result covers the binding of every thread
\* the process has when the call returns, and with HWLOC_CPUBIND_STRICT it is
\* the binding of each of them.
GetCoversAll ==
  Succeeded("get") =>
    \A x \in live : aff[x] \subseteq cpuset /\ (strict => aff[x] = cpuset)

\* ... and nothing comes from a thread that had ended before the last reading
\* or from what the caller's bitmap held, unless no thread was left at all.
GetAddsNothing ==
  Succeeded("get") /\ tids # <<>> =>
    cpuset \subseteq UNION {aff[x] : x \in seen}

\* hwloc_linux_get_pid_last_cpu_location: every thread that was there when the
\* last reading began, and still is, was found in the last pass and is reported
\* where it was found; and a processor is reported only because such a reading
\* still had a thread that the last pass found on it, never from an earlier
\* pass or from the caller's bitmap (unless no thread was left at all).
LastLocations ==
  Succeeded("last") =>
    /\ \A x \in live \cap seen : found[x] # {} /\ found[x] \subseteq cpuset
    /\ tids # <<>> => \A c \in cpuset : \E x \in seen : c \in found[x]

\* Every call returns: with finitely many threads started, the retry loop of
\* hwloc_linux_foreach_proc_tid comes to an unchanged list.
Returns == pc # "idle" ~> pc = "idle"
=============================================================================
