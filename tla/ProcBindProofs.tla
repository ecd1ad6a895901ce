--------------------------- MODULE ProcBindProofs ---------------------------
(***************************************************************************)
(* What binding or asking for the binding of a process promises, proved for *)
(* any number of threads, any processors and any sets.                      *)
(***************************************************************************)
EXTENDS ProcBind, TLAPS

Elem(s, x) == \E j \in 1 .. Len(s) : s[j] = x

\* Nothing more is to be done for thread x.
Done(x) ==
  /\ op = "set" => aff[x] = cpuset \cap Allowed
  /\ op = "get" => aff[x] \subseteq cpuset /\ (strict => aff[x] = cpuset)
  /\ op = "last" => found[x] # {} /\ found[x] \subseteq cpuset

\* Identifiers in the lists were given out.
Listed ==
  /\ \A x \in seen : x < next
  /\ dirpos < next
  /\ \A j \in 1 .. Len(tids) : tids[j] < next
  /\ \A j \in 1 .. Len(newtids) : newtids[j] < next

\* A reading has every thread up to the directory position: a later one has
\* a larger identifier.
ReadSoFar ==
  pc \in {"first", "reread"} => \A x \in live : x <= dirpos => Elem(newtids, x)

\* The threads of the list that were called back for are done.
Applied ==
  /\ pc = "apply" => \A j \in 1 .. Len(tids) : j < i => Done(tids[j])
  /\ pc = "reread" => \A j \in 1 .. Len(tids) : Done(tids[j])

\* After an unchanged list every thread is done, and stays so: a thread
\* starts with the binding of its creator.  (One that starts after the last
\* reading began was found nowhere.)
AllDone ==
  pc = "return" /\ ret = "ok" =>
    \A x \in live : op # "last" \/ x \in seen => Done(x)

\* A listed thread that is read again was alive when the reading began.
SeenAgain ==
  /\ pc = "reread" =>
       /\ \A j \in 1 .. Len(tids) : tids[j] \in live => tids[j] \in seen
       /\ \A j \in 1 .. Len(newtids) :
            newtids[j] \in seen \/ ~Elem(tids, newtids[j])
  /\ pc = "return" /\ ret = "ok" => \A j \in 1 .. Len(tids) : tids[j] \in seen

\* The result has been given its first value.
Started ==
  \/ pc = "apply" /\ i > 1
  \/ pc = "reread" /\ tids # <<>>
  \/ pc = "return" /\ ret = "ok" /\ tids # <<>>

\* The result comes from the listed threads.
FromListed ==
  Started =>
    /\ op = "get" => \A c \in cpuset : \E j \in 1 .. Len(tids) : c \in aff[tids[j]]
    /\ op = "last" => \A c \in cpuset : \E j \in 1 .. Len(tids) : c \in found[tids[j]]

\* No thread was found before the first of a list is asked for, and what was
\* found since is in the result.
Fresh ==
  pc = "apply" =>
    /\ i = 1 => found = NotFound
    /\ op = "last" /\ i > 1 => \A x \in Tids : found[x] \subseteq cpuset

IInv ==
  /\ TypeOK /\ Listed /\ ReadSoFar /\ Applied /\ AllDone /\ SeenAgain /\ FromListed
  /\ Fresh

------------------------------------------------------------------------------

\* The empty list is a list of threads.
LEMMA EmptyList == <<>> \in Seq(Tids) /\ Len(<<>>) = 0
  OBVIOUS

\* No thread found is a value of the history.
LEMMA NoneFound == NotFound \in [Tids -> SUBSET Cpus]
  BY DEF NotFound

\* The inductive invariant holds before any call.
LEMMA InitIInv == Init => IInv
  <1> SUFFICES ASSUME Init PROVE IInv
    OBVIOUS
  <1>1. TypeOK
    <2>1. 1 \in Tids /\ 2 \in 1 .. MaxTid + 1 /\ 0 \in 0 .. MaxTid
      BY TidAssumption DEF Tids
    <2>2. mine \in BOOLEAN /\ haspid \in BOOLEAN /\ strict \in BOOLEAN
      BY Zenon DEF Init
    <2> QED BY <2>1, <2>2, EmptyList, NoneFound, SetsAssumption DEF Init, TypeOK
  <1>2. Listed /\ ReadSoFar /\ Applied /\ AllDone /\ SeenAgain /\ FromListed
    BY DEF Init, Listed, ReadSoFar, Applied, AllDone, SeenAgain, FromListed, Started
  <1>f. Fresh
    BY DEF Init, Fresh
  <1> QED BY <1>1, <1>2, <1>f DEF IInv

\* Starting a thread keeps the invariant: its identifier is new and its
\* binding is its creator's.
LEMMA CreateIInv ==
  ASSUME IInv, NEW x \in Tids, Create(x) PROVE IInv'
  <1>0. /\ TypeOK /\ Listed /\ next \in Tids /\ x \in live
        /\ live' = live \cup {next} /\ next' = next + 1
        /\ aff' = [aff EXCEPT ![next] = aff[x]]
        /\ UNCHANGED <<mine, haspid, pc, op, strict, cpuset, tids, newtids, dirpos,
                       i, ret, seen, found>>
    BY DEF IInv, Create, TypeOK, Tids, args, scan, history
  <1>1. TypeOK'
    <2>1. next + 1 \in 1 .. MaxTid + 1 /\ \A y \in live \cup {next} : y < next + 1
      BY <1>0, TidAssumption DEF TypeOK, Tids
    <2>2. aff' \in [Tids -> SUBSET Cpus] /\ live' \subseteq Tids
      BY <1>0 DEF TypeOK
    <2> QED BY <1>0, <2>1, <2>2 DEF TypeOK
  <1>2. /\ \A j \in 1 .. Len(tids) : aff'[tids[j]] = aff[tids[j]]
        /\ \A y \in live : aff'[y] = aff[y]
        /\ aff'[next] = aff[x]
    BY <1>0 DEF TypeOK, Listed, Tids
  <1>3. Listed'
    <2>1. \A y \in Nat : y < next => y < next + 1
      BY <1>0 DEF Tids
    <2>2. Tids \subseteq Nat
      BY DEF Tids
    <2>3. /\ \A j \in 1 .. Len(tids) : tids[j] \in Tids
          /\ \A j \in 1 .. Len(newtids) : newtids[j] \in Tids
      BY <1>0 DEF TypeOK
    <2>4. dirpos \in Nat /\ seen \subseteq Tids
      BY <1>0 DEF TypeOK
    <2> QED BY <1>0, <2>1, <2>2, <2>3, <2>4 DEF Listed
  <1>4. ReadSoFar'
    BY <1>0 DEF IInv, ReadSoFar, Listed, TypeOK, Elem, Tids
  <1>5. Applied'
    BY <1>0, <1>2 DEF IInv, Applied, Done
  <1>6. AllDone'
    <2>1. next \notin seen
      BY <1>0 DEF Listed, Tids
    <2> QED BY <1>0, <1>2, <2>1 DEF IInv, AllDone, Done
  <1>7. SeenAgain'
    BY <1>0 DEF IInv, SeenAgain, Elem, Listed, TypeOK
  <1>8. FromListed'
    BY <1>0, <1>2 DEF IInv, FromListed, Started
  <1>f. Fresh'
    BY <1>0 DEF IInv, Fresh
  <1> QED BY <1>1, <1>3, <1>4, <1>5, <1>6, <1>7, <1>8, <1>f DEF IInv

\* A thread that ends keeps it: its binding is remembered.
LEMMA ExitIInv ==
  ASSUME IInv, NEW x \in Tids, Exit(x) PROVE IInv'
  <1>0. /\ TypeOK /\ live' = live \ {x}
        /\ UNCHANGED <<aff, next, mine, haspid, pc, op, strict, cpuset, tids,
                       newtids, dirpos, i, ret, seen, found>>
    BY DEF IInv, Exit, args, scan, history
  <1>1. TypeOK'
    BY <1>0 DEF TypeOK, Tids
  <1>2. Listed' /\ ReadSoFar' /\ SeenAgain'
    BY <1>0 DEF IInv, Listed, ReadSoFar, SeenAgain, Elem
  <1>3. Applied' /\ AllDone' /\ FromListed'
    BY <1>0 DEF IInv, Applied, AllDone, FromListed, Started, Done
  <1>f. Fresh'
    BY <1>0 DEF IInv, Fresh
  <1> QED BY <1>1, <1>2, <1>3, <1>f DEF IInv

\* So does a call about one thread, made while no other is under way.
LEMMA OneThreadIInv ==
  ASSUME IInv, NEW x \in Tids, OneThread(x) PROVE IInv'
  <1>0. /\ TypeOK /\ pc = "idle" /\ aff' \in [Tids -> SUBSET Cpus]
        /\ UNCHANGED <<live, next, mine, haspid, pc, op, strict, cpuset, tids,
                       newtids, dirpos, i, ret, seen, found>>
    BY SetsAssumption DEF IInv, TypeOK, OneThread, args, scan, history
  <1>1. TypeOK'
    BY <1>0 DEF TypeOK, Tids
  <1>2. Listed' /\ ReadSoFar' /\ SeenAgain'
    BY <1>0 DEF IInv, Listed, ReadSoFar, SeenAgain
  <1>3. Applied' /\ AllDone' /\ FromListed'
    BY <1>0 DEF IInv, Applied, AllDone, FromListed, Started
  <1>f. Fresh'
    BY <1>0 DEF IInv, Fresh
  <1> QED BY <1>1, <1>2, <1>3, <1>f DEF IInv

\* A call begins with nothing listed.
LEMMA BeginIInv == ASSUME IInv, Begin PROVE IInv'
  <1>0. /\ TypeOK /\ Listed
        /\ pc' \in {"first", "return"} /\ (pc' = "return" => ret' # "ok")
        /\ ret' \in {"ok", "ENOSYS"}
        /\ op' \in {"set", "get", "last"} /\ strict' \in BOOLEAN
        /\ cpuset' \in SUBSET Cpus
        /\ tids' = <<>> /\ newtids' = <<>> /\ dirpos' = 0 /\ i' = 1
        /\ seen' = live /\ found' = NotFound
        /\ UNCHANGED <<live, aff, next, mine, haspid>>
    BY SetsAssumption DEF IInv, Begin, threads
  <1>1. TypeOK'
    <2>1. 0 \in 0 .. MaxTid
      BY TidAssumption
    <2> QED BY <1>0, <2>1, EmptyList, NoneFound DEF TypeOK
  <1>2. Listed'
    BY <1>0 DEF Listed, TypeOK
  <1>3. ReadSoFar'
    BY <1>0 DEF ReadSoFar, TypeOK, Tids
  <1>4. Applied' /\ AllDone' /\ SeenAgain' /\ FromListed'
    BY <1>0 DEF Applied, AllDone, SeenAgain, FromListed, Started
  <1>f. Fresh'
    BY <1>0 DEF IInv, Fresh
  <1> QED BY <1>1, <1>2, <1>3, <1>4, <1>f DEF IInv

\* Reading one entry extends the list by the next thread.
LEMMA ReaddirIInv == ASSUME IInv, readdir PROVE IInv'
  <1>0. PICK x \in live : /\ x > dirpos
                          /\ \A y \in live : y > dirpos => x <= y
                          /\ newtids' = Append(newtids, x)
                          /\ dirpos' = x
    BY DEF readdir
  <1>1. /\ TypeOK /\ Listed /\ pc \in {"first", "reread"} /\ x \in Tids /\ x < next
        /\ UNCHANGED <<live, aff, next, mine, haspid, pc, op, strict, cpuset, tids,
                       i, ret, seen, found>>
    BY DEF IInv, readdir, threads, args, history, TypeOK
  <1>2. /\ newtids' \in Seq(Tids) /\ Len(newtids') = Len(newtids) + 1
        /\ newtids'[Len(newtids) + 1] = x
        /\ \A j \in 1 .. Len(newtids) : newtids'[j] = newtids[j]
        /\ Len(newtids) \in Nat
    BY <1>0, <1>1 DEF TypeOK
  <1>3. TypeOK'
    BY <1>0, <1>1, <1>2 DEF TypeOK, Tids
  <1>4. Listed'
    BY <1>0, <1>1, <1>2 DEF Listed
  <1>5. ReadSoFar'
    <2> SUFFICES ASSUME NEW y \in live, y <= x PROVE Elem(newtids', y)
      BY <1>0, <1>1 DEF ReadSoFar, Elem
    <2>1. CASE y = x
      BY <1>2, <2>1 DEF Elem
    <2>2. CASE y # x
      <3>1. y <= dirpos
        BY <1>0, <1>1, <2>2 DEF TypeOK, Tids
      <3>2. Elem(newtids, y)
        BY <1>1, <3>1 DEF IInv, ReadSoFar
      <3> QED BY <1>2, <3>2 DEF Elem
    <2> QED BY <2>1, <2>2
  <1>6. Applied' /\ AllDone' /\ FromListed'
    BY <1>1 DEF IInv, Applied, AllDone, FromListed, Started, Done
  <1>7. SeenAgain'
    <2>1. x \in seen \/ ~Elem(tids, x) \/ pc # "reread"
      BY <1>0, <1>1 DEF IInv, SeenAgain, Elem
    <2> QED BY <1>1, <1>2, <2>1 DEF IInv, SeenAgain, Elem
  <1>f. Fresh'
    BY <1>1 DEF IInv, Fresh
  <1> QED BY <1>3, <1>4, <1>5, <1>6, <1>7, <1>f DEF IInv

\* Failing leaves nothing to show.
LEMMA FailIInv ==
  ASSUME IInv, NEW c \in {"ESRCH", "EINVAL", "EXDEV", "ENOSYS", "ENOMEM"}, Return(c)
  PROVE  IInv'
  <1>0. /\ TypeOK /\ Listed /\ pc' = "return" /\ ret' = c /\ c # "ok"
        /\ UNCHANGED <<live, aff, next, mine, haspid, op, strict, cpuset, tids,
                       newtids, dirpos, i, seen, found>>
    BY DEF IInv, Return, threads, args, scan, history
  <1>1. TypeOK'
    BY <1>0 DEF TypeOK, Tids
  <1>2. Listed'
    BY <1>0 DEF Listed
  <1>3. ReadSoFar' /\ Applied' /\ AllDone' /\ SeenAgain' /\ FromListed'
    BY <1>0 DEF ReadSoFar, Applied, AllDone, SeenAgain, FromListed, Started
  <1>f. Fresh'
    BY <1>0 DEF IInv, Fresh
  <1> QED BY <1>1, <1>2, <1>3, <1>f DEF IInv

\* A list is taken to be applied.
LEMMA ApplyListIInv == ASSUME IInv, ApplyList PROVE IInv'
  <1>0. /\ TypeOK /\ Listed /\ pc' = "apply"
        /\ tids' = newtids /\ newtids' = <<>> /\ dirpos' = 0 /\ i' = 1
        /\ found' = NotFound
        /\ UNCHANGED <<live, aff, next, mine, haspid, op, strict, cpuset, ret, seen>>
    BY DEF IInv, ApplyList, threads, args
  <1>1. TypeOK'
    <2>1. 0 \in 0 .. MaxTid
      BY TidAssumption
    <2> QED BY <1>0, <2>1, EmptyList, NoneFound DEF TypeOK
  <1>2. Listed'
    BY <1>0 DEF Listed, TypeOK
  <1>3. ReadSoFar' /\ Applied' /\ AllDone' /\ SeenAgain' /\ FromListed'
    BY <1>0 DEF ReadSoFar, Applied, AllDone, SeenAgain, FromListed, Started
  <1>f. Fresh'
    BY <1>0 DEF IInv, Fresh
  <1> QED BY <1>1, <1>2, <1>3, <1>f DEF IInv

\* The second reading is the first again: whoever is alive was read, whoever
\* was read was done.
LEMMA FinishIInv == ASSUME IInv, Finish PROVE IInv'
  <1>0. /\ TypeOK /\ Listed /\ pc = "reread" /\ pc' = "return" /\ ret' = "ok"
        /\ newtids = tids /\ \A x \in live : x <= dirpos
        /\ UNCHANGED <<live, aff, next, mine, haspid, op, strict, cpuset, tids,
                       newtids, dirpos, i, seen, found>>
    BY DEF IInv, Finish, EndOfDir, Changed, Return, threads, args, scan, history
  <1>1. TypeOK'
    BY <1>0 DEF TypeOK, Tids
  <1>2. Listed'
    BY <1>0 DEF Listed
  <1>3. ReadSoFar' /\ Applied'
    BY <1>0 DEF ReadSoFar, Applied
  <1>4. AllDone'
    <2>1. \A x \in live : Elem(tids, x)
      BY <1>0 DEF IInv, ReadSoFar
    <2>2. \A x \in live : Done(x)
      BY <1>0, <2>1 DEF IInv, Applied, Elem
    <2> QED BY <1>0, <2>2 DEF AllDone, Done
  <1>5. SeenAgain'
    BY <1>0 DEF IInv, SeenAgain, Elem
  <1>6. FromListed'
    BY <1>0 DEF IInv, FromListed, Started
  <1>f. Fresh'
    BY <1>0 DEF IInv, Fresh
  <1> QED BY <1>1, <1>2, <1>3, <1>4, <1>5, <1>6, <1>f DEF IInv

\* Reading begins again after the whole list was applied.
LEMMA RereadIInv == ASSUME IInv, Reread PROVE IInv'
  <1>0. /\ TypeOK /\ Listed /\ pc = "apply" /\ i > Len(tids) /\ pc' = "reread"
        /\ newtids' = <<>> /\ dirpos' = 0 /\ seen' = live
        /\ UNCHANGED <<live, aff, next, mine, haspid, op, strict, cpuset, tids, i,
                       ret, found>>
    BY DEF IInv, Reread, threads, args
  <1>1. TypeOK'
    <2>1. 0 \in 0 .. MaxTid
      BY TidAssumption
    <2> QED BY <1>0, <2>1, EmptyList, NoneFound DEF TypeOK
  <1>2. Listed'
    BY <1>0 DEF Listed, TypeOK
  <1>3. ReadSoFar'
    BY <1>0 DEF ReadSoFar, TypeOK, Tids
  <1>4. Applied'
    BY <1>0 DEF IInv, Applied, Done, TypeOK
  <1>5. AllDone' /\ SeenAgain'
    BY <1>0 DEF AllDone, SeenAgain
  <1>6. FromListed'
    <2>1. tids # <<>> => Len(tids) > 0 /\ i > 1
      BY <1>0 DEF TypeOK
    <2> QED BY <1>0, <2>1 DEF IInv, FromListed, Started
  <1>f. Fresh'
    BY <1>0 DEF IInv, Fresh
  <1> QED BY <1>1, <1>2, <1>3, <1>4, <1>5, <1>6, <1>f DEF IInv

\* A thread of the list is bound.
LEMMA SetCbIInv == ASSUME IInv, set_cpubind_cb PROVE IInv'
  <1>0. /\ TypeOK /\ Listed /\ pc = "apply" /\ i <= Len(tids) /\ op = "set"
        /\ aff' = [aff EXCEPT ![tids[i]] = cpuset \cap Allowed] /\ i' = i + 1
        /\ UNCHANGED <<live, next, mine, haspid, pc, op, strict, cpuset, tids,
                       newtids, dirpos, ret, seen, found>>
    BY DEF IInv, set_cpubind_cb, AtThread, args, history
  <1>1. /\ i \in 1 .. Len(tids) /\ Len(tids) \in Nat
        /\ \A j \in 1 .. Len(tids) : tids[j] \in Tids
    BY <1>0 DEF TypeOK
  <1>2. TypeOK'
    BY <1>0, <1>1 DEF TypeOK, Tids
  <1>3. Listed' /\ ReadSoFar' /\ AllDone' /\ SeenAgain'
    BY <1>0 DEF IInv, Listed, ReadSoFar, AllDone, SeenAgain
  <1>4. Applied'
    <2> SUFFICES ASSUME NEW j \in 1 .. Len(tids), j < i + 1
                 PROVE  aff'[tids[j]] = cpuset \cap Allowed
      BY <1>0 DEF Applied, Done
    <2>1. j = i \/ j < i
      BY <1>1
    <2>2. j < i => aff[tids[j]] = cpuset \cap Allowed
      BY <1>0 DEF IInv, Applied, Done
    <2> QED BY <1>0, <1>1, <2>1, <2>2 DEF TypeOK
  <1>5. FromListed'
    BY <1>0 DEF FromListed
  <1>f. Fresh'
    BY <1>0 DEF Fresh, TypeOK
  <1> QED BY <1>2, <1>3, <1>4, <1>5, <1>f DEF IInv

\* The binding of a thread of the list enters the result.
LEMMA GetCbIInv == ASSUME IInv, get_cpubind_cb PROVE IInv'
  <1>0. /\ TypeOK /\ Listed /\ pc = "apply" /\ i <= Len(tids) /\ op = "get"
        /\ ~(strict /\ i > 1 /\ aff[tids[i]] # cpuset)
        /\ cpuset' = IF i = 1 \/ strict THEN aff[tids[i]]
                     ELSE cpuset \cup aff[tids[i]]
        /\ i' = i + 1
        /\ UNCHANGED <<live, aff, next, mine, haspid, pc, op, strict, tids, newtids,
                       dirpos, ret, seen, found>>
    BY DEF IInv, get_cpubind_cb, AtThread, Mismatch, GetResult, threads, args, history
  <1>1. /\ i \in 1 .. Len(tids) /\ Len(tids) \in Nat
        /\ \A j \in 1 .. Len(tids) : tids[j] \in Tids
        /\ aff[tids[i]] \subseteq Cpus
    BY <1>0 DEF TypeOK
  <1>2. TypeOK'
    BY <1>0, <1>1 DEF TypeOK, Tids
  <1>3. Listed' /\ ReadSoFar' /\ AllDone' /\ SeenAgain'
    BY <1>0 DEF IInv, Listed, ReadSoFar, AllDone, SeenAgain
  <1>4. Applied'
    <2> SUFFICES ASSUME NEW j \in 1 .. Len(tids), j < i + 1
                 PROVE  /\ aff[tids[j]] \subseteq cpuset'
                        /\ strict => aff[tids[j]] = cpuset'
      BY <1>0 DEF Applied, Done
    <2>1. j = i \/ (j < i /\ i # 1 /\ i > 1)
      BY <1>1
    <2>2. j < i => aff[tids[j]] \subseteq cpuset /\ (strict => aff[tids[j]] = cpuset)
      BY <1>0 DEF IInv, Applied, Done
    <2> QED BY <1>0, <2>1, <2>2
  <1>5. FromListed'
    <2> SUFFICES ASSUME NEW c \in cpuset'
                 PROVE  \E j \in 1 .. Len(tids) : c \in aff[tids[j]]
      BY <1>0 DEF FromListed
    <2>1. CASE c \in aff[tids[i]]
      BY <1>1, <2>1
    <2>2. CASE c \notin aff[tids[i]]
      <3>1. c \in cpuset /\ i > 1
        BY <1>0, <1>1, <2>2
      <3> QED BY <1>0, <3>1 DEF IInv, FromListed, Started
    <2> QED BY <2>1, <2>2
  <1>f. Fresh'
    BY <1>0 DEF Fresh, TypeOK
  <1> QED BY <1>2, <1>3, <1>4, <1>5, <1>f DEF IInv

\* The processor a thread of the list was last on enters the result.
LEMMA LastCbIInv == ASSUME IInv, get_last_cpu_location_cb PROVE IInv'
  <1>0. /\ TypeOK /\ Listed /\ pc = "apply" /\ i <= Len(tids) /\ op = "last"
        /\ i' = i + 1
        /\ UNCHANGED <<live, aff, next, mine, haspid, pc, op, strict, tids, newtids,
                       dirpos, ret, seen>>
    BY DEF IInv, get_last_cpu_location_cb, AtThread, threads, args
  <1>1. PICK c \in Cpus : /\ cpuset' = IF i = 1 THEN {c} ELSE cpuset \cup {c}
                          /\ found' = [found EXCEPT ![tids[i]] = @ \cup {c}]
    BY DEF get_last_cpu_location_cb, LastResult
  <1>2. /\ i \in 1 .. Len(tids) /\ Len(tids) \in Nat
        /\ \A j \in 1 .. Len(tids) : tids[j] \in Tids
        /\ i = 1 \/ i > 1
    BY <1>0 DEF TypeOK
  <1>3. \A x \in Tids : found'[x] = IF x = tids[i] THEN found[x] \cup {c} ELSE found[x]
    BY <1>0, <1>1, <1>2 DEF TypeOK
  <1>4. TypeOK'
    <2>1. found' \in [Tids -> SUBSET Cpus] /\ cpuset' \in SUBSET Cpus
      BY <1>0, <1>1, <1>2 DEF TypeOK
    <2> QED BY <1>0, <2>1 DEF TypeOK, Tids
  <1>5. Listed' /\ ReadSoFar' /\ AllDone' /\ SeenAgain'
    BY <1>0 DEF IInv, Listed, ReadSoFar, AllDone, SeenAgain
  <1>6. i = 1 => \A x \in Tids : found[x] = {}
    BY <1>0 DEF IInv, Fresh, NotFound
  <1>7. Applied'
    <2> SUFFICES ASSUME NEW j \in 1 .. Len(tids), j < i + 1
                 PROVE  found'[tids[j]] # {} /\ found'[tids[j]] \subseteq cpuset'
      BY <1>0 DEF Applied, Done
    <2>1. tids[j] \in Tids /\ (j = i \/ (j < i /\ i > 1))
      BY <1>2
    <2>2. j < i => found[tids[j]] # {} /\ found[tids[j]] \subseteq cpuset
      BY <1>0 DEF IInv, Applied, Done
    <2>3. CASE i = 1
      <3>1. j = i /\ found[tids[i]] = {} /\ cpuset' = {c}
        BY <1>1, <1>2, <1>6, <2>1, <2>3
      <3>2. found'[tids[i]] = found[tids[i]] \cup {c}
        BY <1>2, <1>3
      <3> QED BY <3>1, <3>2
    <2>4. CASE i > 1 /\ j < i
      BY <1>1, <1>3, <2>1, <2>2, <2>4
    <2>5. CASE i > 1 /\ j = i
      <3>1. found[tids[i]] \subseteq cpuset
        BY <1>0, <1>2, <2>5 DEF IInv, Fresh
      <3>2. found'[tids[i]] = found[tids[i]] \cup {c}
        BY <1>2, <1>3
      <3>3. cpuset' = cpuset \cup {c}
        BY <1>1, <1>2, <2>5
      <3> QED BY <2>5, <3>1, <3>2, <3>3
    <2> QED BY <1>2, <2>1, <2>3, <2>4, <2>5
  <1>8. FromListed'
    <2> SUFFICES ASSUME NEW d \in cpuset'
                 PROVE  \E j \in 1 .. Len(tids) : d \in found'[tids[j]]
      BY <1>0 DEF FromListed
    <2>1. CASE d = c
      BY <1>2, <1>3, <2>1
    <2>2. CASE d # c
      <3>1. d \in cpuset /\ i > 1
        BY <1>1, <1>2, <2>2
      <3>2. PICK j \in 1 .. Len(tids) : d \in found[tids[j]]
        BY <1>0, <3>1 DEF IInv, FromListed, Started
      <3> QED BY <1>2, <1>3, <3>2
    <2> QED BY <2>1, <2>2
  <1>f. Fresh'
    <2>1. i + 1 # 1
      BY <1>2
    <2>2. \A x \in Tids : found'[x] \subseteq cpuset'
      <3>1. CASE i = 1
        BY <1>1, <1>3, <1>6, <3>1
      <3>2. CASE i > 1
        <4>1. \A x \in Tids : found[x] \subseteq cpuset
          BY <1>0, <3>2 DEF IInv, Fresh
        <4>2. cpuset' = cpuset \cup {c}
          BY <1>1, <1>2, <3>2
        <4> QED BY <1>3, <4>1, <4>2
      <3> QED BY <1>2, <3>1, <3>2
    <2> QED BY <1>0, <2>1, <2>2 DEF Fresh
  <1> QED BY <1>4, <1>5, <1>7, <1>8, <1>f DEF IInv

\* The locals of a call are gone when it has returned.
LEMMA BackIInv == ASSUME IInv, Back PROVE IInv'
  <1>0. /\ TypeOK /\ Listed /\ pc' = "idle" /\ op' = "set" /\ strict' = FALSE
        /\ cpuset' = {} /\ tids' = <<>> /\ newtids' = <<>> /\ dirpos' = 0 /\ i' = 1
        /\ ret' = "ok" /\ seen' = {} /\ found' = NotFound
        /\ UNCHANGED <<live, aff, next, mine, haspid>>
    BY DEF IInv, Back, threads
  <1>1. TypeOK'
    <2>1. 0 \in 0 .. MaxTid
      BY TidAssumption
    <2>2. strict' \in BOOLEAN
      BY <1>0, Zenon
    <2> QED BY <1>0, <2>1, <2>2, EmptyList, NoneFound DEF TypeOK
  <1>2. Listed'
    BY <1>0 DEF Listed, TypeOK
  <1>3. ReadSoFar' /\ Applied' /\ AllDone' /\ SeenAgain' /\ FromListed'
    BY <1>0 DEF ReadSoFar, Applied, AllDone, SeenAgain, FromListed, Started
  <1>f. Fresh'
    BY <1>0 DEF IInv, Fresh
  <1> QED BY <1>1, <1>2, <1>3, <1>f DEF IInv

\* Every step keeps the invariant.
LEMMA StepIInv == IInv /\ [Next]_vars => IInv'
  <1> SUFFICES ASSUME IInv, [Next]_vars PROVE IInv'
    OBVIOUS
  <1>1. ASSUME NEW x \in Tids, Create(x) \/ Exit(x) \/ OneThread(x) PROVE IInv'
    BY <1>1, CreateIInv, ExitIInv, OneThreadIInv
  <1>2. CASE Begin
    BY <1>2, BeginIInv
  <1>3. CASE readdir \/ ApplyList \/ Finish \/ Reread \/ Back
    BY <1>3, ReaddirIInv, ApplyListIInv, FinishIInv, RereadIInv, BackIInv
  <1>4. CASE set_cpubind_cb \/ get_cpubind_cb \/ get_last_cpu_location_cb
    BY <1>4, SetCbIInv, GetCbIInv, LastCbIInv
  <1>5. CASE OutOfMemory
    BY <1>5, FailIInv DEF OutOfMemory
  <1>6. CASE set_cpubind_cb_fails
    BY <1>6, FailIInv DEF set_cpubind_cb_fails, CallbackFails,
       hwloc_linux_set_tid_cpubind
  <1>7. CASE get_cpubind_cb_fails
    BY <1>7, FailIInv DEF get_cpubind_cb_fails, CallbackFails,
       hwloc_linux_get_tid_cpubind
  <1>8. CASE get_last_cpu_location_cb_fails
    BY <1>8, FailIInv DEF get_last_cpu_location_cb_fails, CallbackFails,
       hwloc_linux_get_tid_last_cpu_location
  <1>9. CASE UNCHANGED vars
    <2>0. UNCHANGED <<live, aff, next, mine, haspid, pc, op, strict, cpuset, tids,
                      newtids, dirpos, i, ret, seen, found>>
      BY <1>9 DEF vars, threads, args, scan, history
    <2>1. TypeOK'
      BY <2>0 DEF IInv, TypeOK, Tids
    <2>2. Listed' /\ ReadSoFar' /\ SeenAgain'
      BY <2>0 DEF IInv, Listed, ReadSoFar, SeenAgain, Elem
    <2>3. Applied' /\ AllDone' /\ FromListed' /\ Fresh'
      BY <2>0 DEF IInv, Applied, AllDone, FromListed, Started, Done, Fresh
    <2> QED BY <2>1, <2>2, <2>3 DEF IInv
  <1> QED
    BY <1>1, <1>2, <1>3, <1>4, <1>5, <1>6, <1>7, <1>8, <1>9 DEF Next, CallStep

\* What the invariant says of a call that has succeeded.
LEMMA IInvImplies ==
  IInv => SetReachesAll /\ GetCoversAll /\ GetAddsNothing /\ LastLocations
  <1> SUFFICES ASSUME IInv
               PROVE  SetReachesAll /\ GetCoversAll /\ GetAddsNothing /\ LastLocations
    OBVIOUS
  <1>1. SetReachesAll
    BY DEF IInv, SetReachesAll, Succeeded, AllDone, Done
  <1>2. GetCoversAll
    BY DEF IInv, GetCoversAll, Succeeded, AllDone, Done
  <1>3. GetAddsNothing
    BY DEF IInv, GetAddsNothing, Succeeded, FromListed, Started, SeenAgain
  <1>4. LastLocations
    BY DEF IInv, LastLocations, Succeeded, AllDone, Done, FromListed, Started, SeenAgain
  <1> QED BY <1>1, <1>2, <1>3, <1>4

\* The inductive invariant holds in every state.
THEOREM Invariance == Spec => []IInv
  <1>1. Init => IInv
    BY InitIInv
  <1>2. IInv /\ [Next]_vars => IInv'
    BY StepIInv
  <1> QED BY <1>1, <1>2, PTL DEF Spec

\* hwloc_linux_set_pid_cpubind that succeeds has bound every thread.
THEOREM SetReachesAllThreads == Spec => []SetReachesAll
  <1>1. IInv => SetReachesAll
    BY IInvImplies
  <1> QED BY <1>1, Invariance, PTL

\* hwloc_linux_get_pid_cpubind that succeeds covers every thread.
THEOREM GetCoversAllThreads == Spec => []GetCoversAll
  <1>1. IInv => GetCoversAll
    BY IInvImplies
  <1> QED BY <1>1, Invariance, PTL

\* ... and reports nothing but bindings of threads of the process.
THEOREM GetAddsNothingElse == Spec => []GetAddsNothing
  <1>1. IInv => GetAddsNothing
    BY IInvImplies
  <1> QED BY <1>1, Invariance, PTL

\* hwloc_linux_get_pid_last_cpu_location reports every thread that stayed, where
\* the last pass found it, and no processor of a thread that had ended before.
THEOREM LastLocationsFound == Spec => []LastLocations
  <1>1. IInv => LastLocations
    BY IInvImplies
  <1> QED BY <1>1, Invariance, PTL
=============================================================================
