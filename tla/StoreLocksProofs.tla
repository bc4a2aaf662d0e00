-------------------------- MODULE StoreLocksProofs --------------------------
(***************************************************************************)
(* Proofs about StoreLocks, for any tasks, users and sessions.             *)
(*                                                                         *)
(* A call's place in its program says which locks it holds (writes, reads) *)
(* and what it may rely on there.  From the first the locks are shown to   *)
(* exclude each other (Exclusion); then whatever a call learnt or left     *)
(* half done under the sessions lock (UnderLock, Pointers) is not undone   *)
(* by the steps of any other call, and a list that found its session gone  *)
(* can point to the moment at which its user had none (Lists).             *)
(***************************************************************************)
EXTENDS StoreLocks, SequenceTheorems, TLAPS

Ops == {"create", "end", "sweep", "extend", "action", "list"}
TwoLocks == {"create", "end", "sweep"}
Size(op) == IF op \in TwoLocks THEN 9 ELSE IF op = "action" THEN 14 ELSE 6

Jobs == [op : Ops \cup {"idle"}, user : Users \cup {NoId}, ids : SUBSET Ids, ip : Nat,
         answer : {"pending", "found", "nothing"}]

-----------------------------------------------------------------------------
(* The inductive invariant                                                  *)

\* At this place of its program the call holds lock l for writing, for reading.
writes(j, l) ==
    IF l = "sessions"
    THEN \/ j.op \in TwoLocks /\ j.ip \in 2 .. 7
         \/ j.op = "extend" /\ j.ip \in 2 .. 4
         \/ j.op = "action" /\ j.ip \in (5 .. 7) \cup (10 .. 12)
    ELSE j.op \in TwoLocks /\ j.ip \in 3 .. 6

reads(j, l) ==
    IF l = "sessions"
    THEN \/ j.op \in TwoLocks /\ j.ip = 9
         \/ j.op = "extend" /\ j.ip = 6
         \/ j.op = "action" /\ j.ip \in {2, 3, 14}
         \/ j.op = "list" /\ j.ip \in {5, 6}
    ELSE j.op = "list" /\ j.ip \in {2, 3}

Typed ==
    /\ now \in Times
    /\ issued \subseteq Ids
    /\ DOMAIN sessions \subseteq issued /\ sessions \in [DOMAIN sessions -> Session]
    /\ per_user \in [Users -> Ids \cup {NoId}]
    /\ recorded \in [Ids -> Nat] /\ admitted \in [Ids -> Times \cup {Never}]
    /\ vacant \in [All -> BOOLEAN]

JobOK(j) ==
    /\ j \in Jobs
    /\ j.op # "idle" => j.ip \in 1 .. Size(j.op)
    /\ j.op \in {"create", "end", "extend", "action"} => \E i \in issued : j.ids = {i}
    /\ j.op \in {"create", "list"} => j.user \in Users
    /\ j.op = "list" /\ j.ip >= 3 => \E i \in Ids : j.ids = {i}

Calls == job \in [All -> Jobs] /\ \A t \in All : JobOK(job[t])

LockOK(l) ==
    /\ DOMAIN locks[l] = {"holders", "mode", "queue"}
    /\ locks[l].holders \subseteq All
    /\ locks[l].mode = "none" <=> locks[l].holders = {}
    /\ \A t \in All : /\ writes(job[t], l) => locks[l].holders = {t} /\ locks[l].mode = "write"
                      /\ reads(job[t], l) => t \in locks[l].holders /\ locks[l].mode = "read"
    /\ \A t \in locks[l].holders : writes(job[t], l) \/ reads(job[t], l)

Exclusion == DOMAIN locks = Locks /\ \A l \in Locks : LockOK(l)

\* An id that was drawn and is not in the map yet has no past.
making(j) == j.op = "create" /\ j.ip <= 5

Fresh ==
    /\ \A i \in Ids : (i \notin issued \/ \E t \in All : making(job[t]) /\ i \in job[t].ids) =>
         i \notin DOMAIN sessions /\ recorded[i] = 0 /\ admitted[i] = Never
    /\ \A u \in Users : per_user[u] # NoId => per_user[u] \in issued
    /\ \A t \in All, u \in Users : making(job[t]) /\ per_user[u] \in job[t].ids =>
         job[t].ip = 5 /\ u = job[t].user
    /\ \A t, p \in All : job[t].op = "create" /\ job[p].op = "create"
                           /\ job[t].ids \cap job[p].ids # {} => t = p

\* A pointer that leads nowhere is being given its session, or being removed.
excused(j, u) ==
    \/ j.op = "create" /\ j.ip = 5 /\ j.user = u /\ per_user[u] \in j.ids
    \/ j.op = "sweep" /\ j.ip = 5 /\ per_user[u] \in j.ids

leads(u) == per_user[u] \in DOMAIN sessions /\ sessions[per_user[u]].user_id = u

Pointers == \A u \in Users : per_user[u] # NoId => leads(u) \/ \E t \in All : excused(job[t], u)

\* What a call found out or did under a lock it still holds.
relies(j) ==
    /\ j.op = "create" /\ j.ip = 4 => ~holds_live(j.user)
    /\ j.op = "create" /\ j.ip = 5 => per_user[j.user] \in j.ids
    /\ j.op = "end" /\ j.ip = 5 => \A u \in Users : per_user[u] \notin j.ids
    /\ j.op = "sweep" /\ j.ip = 5 => j.ids \cap DOMAIN sessions = {}
    /\ j.op = "extend" /\ j.ip = 3 => j.ids \subseteq DOMAIN sessions
    /\ j.op = "action" /\ j.ip = 6 => \A i \in j.ids \cap DOMAIN sessions : ~cooling(sessions[i])
    /\ j.op = "action" /\ j.ip = 11 => j.ids \subseteq DOMAIN sessions

UnderLock == \A t \in All : relies(job[t])

Admissions ==
    /\ crowded = {}
    /\ \A i \in DOMAIN sessions : admitted[i] = sessions[i].last_action_at

recent(e, n) ==
    /\ Len(e) = IF n < MAX_EVENTS THEN n ELSE MAX_EVENTS
    /\ \A k \in DOMAIN e : e[k] = n - Len(e) + k

Logs == \A i \in DOMAIN sessions : recent(sessions[i].events, recorded[i])

\* The user had no session to find, as Witness sees it.
none_for(u) ==
    \/ per_user[u] = NoId /\ locks["per_user"].mode # "write"
    \/ per_user[u] \in DOMAIN sessions /\ sessions[per_user[u]].expired

\* The pointer was taken away by a call that still holds the pointers' lock.
unpointing(j) == (j.op \in {"end", "sweep"} /\ j.ip = 6) \/ (j.op = "end" /\ j.ip = 5)

ListOK(t) ==
    /\ none_for(job[t].user) => vacant[t]
    /\ job[t].ip >= 3 =>
         \/ vacant[t]
         \/ per_user[job[t].user] \in job[t].ids
         \/ per_user[job[t].user] = NoId /\ \E p \in All : unpointing(job[p])
    /\ job[t].answer = "nothing" => vacant[t]

Lists == \A t \in All : job[t].op = "list" => ListOK(t)

Inv == /\ Typed /\ Calls /\ Exclusion /\ Fresh /\ Pointers
       /\ UnderLock /\ Admissions /\ Logs /\ Lists

-----------------------------------------------------------------------------
(* Programs                                                                 *)

LEMMA PairProgram ==
    ASSUME NEW a, NEW b, NEW c
    PROVE  LET p == both(<<a, b, c>>)
           IN  /\ Len(p) = 9
               /\ p[1] = Lock("sessions", "write") /\ p[2] = Lock("per_user", "write")
               /\ p[3] = a /\ p[4] = b /\ p[5] = c
               /\ p[6] = Unlock("per_user") /\ p[7] = Unlock("sessions")
               /\ p[8] = Lock("sessions", "read") /\ p[9] = Unlock("sessions")
  BY DEF both, persist

\* What stands where in each program.
LEMMA CreateProgram ==
    LET p == program("create")
    IN  /\ Len(p) = 9
        /\ p[1] = Lock("sessions", "write") /\ p[2] = Lock("per_user", "write")
        /\ p[3] = Do("check") /\ p[4] = Do("point") /\ p[5] = Do("insert")
        /\ p[6] = Unlock("per_user") /\ p[7] = Unlock("sessions")
        /\ p[8] = Lock("sessions", "read") /\ p[9] = Unlock("sessions")
<1>1. program("create") = both(<<Do("check"), Do("point"), Do("insert")>>)
  BY DEF program, create
<1> QED BY <1>1, PairProgram

LEMMA EndProgram ==
    LET p == program("end")
    IN  /\ Len(p) = 9
        /\ p[1] = Lock("sessions", "write") /\ p[2] = Lock("per_user", "write")
        /\ p[3] = Do("find") /\ p[4] = Do("unpoint") /\ p[5] = Do("remove")
        /\ p[6] = Unlock("per_user") /\ p[7] = Unlock("sessions")
        /\ p[8] = Lock("sessions", "read") /\ p[9] = Unlock("sessions")
<1>1. program("end") = both(<<Do("find"), Do("unpoint"), Do("remove")>>)
  BY DEF program, end
<1> QED BY <1>1, PairProgram

LEMMA SweepProgram ==
    LET p == program("sweep")
    IN  /\ Len(p) = 9
        /\ p[1] = Lock("sessions", "write") /\ p[2] = Lock("per_user", "write")
        /\ p[3] = Do("collect") /\ p[4] = Do("remove") /\ p[5] = Do("unpoint")
        /\ p[6] = Unlock("per_user") /\ p[7] = Unlock("sessions")
        /\ p[8] = Lock("sessions", "read") /\ p[9] = Unlock("sessions")
<1>1. program("sweep") = both(<<Do("collect"), Do("remove"), Do("unpoint")>>)
  BY DEF program, sweep_expired
<1> QED BY <1>1, PairProgram

LEMMA ExtendProgram ==
    LET p == program("extend")
    IN  /\ Len(p) = 6
        /\ p[1] = Lock("sessions", "write") /\ p[2] = Do("find") /\ p[3] = Do("extend")
        /\ p[4] = Unlock("sessions")
        /\ p[5] = Lock("sessions", "read") /\ p[6] = Unlock("sessions")
<1>1. program("extend") = update_extend
  BY DEF program
<1> QED BY <1>1 DEF update_extend, persist

LEMMA ActionProgram ==
    LET p == program("action")
    IN  /\ Len(p) = 14
        /\ p[1] = Lock("sessions", "read") /\ p[2] = Do("find") /\ p[3] = Unlock("sessions")
        /\ p[4] = Lock("sessions", "write") /\ p[5] = Do("cooldown") /\ p[6] = Do("stamp")
        /\ p[7] = Unlock("sessions") /\ p[8] = Do("run")
        /\ p[9] = Lock("sessions", "write") /\ p[10] = Do("find") /\ p[11] = Do("record")
        /\ p[12] = Unlock("sessions")
        /\ p[13] = Lock("sessions", "read") /\ p[14] = Unlock("sessions")
<1>1. program("action") = execute_action
  BY DEF program
<1> QED BY <1>1 DEF execute_action, get, touch_action, update_record, persist

LEMMA ListProgram ==
    LET p == program("list")
    IN  /\ Len(p) = 6
        /\ p[1] = Lock("per_user", "read") /\ p[2] = Do("pointer") /\ p[3] = Unlock("per_user")
        /\ p[4] = Lock("sessions", "read") /\ p[5] = Do("lookup") /\ p[6] = Unlock("sessions")
<1>1. program("list") = get_user_session
  BY DEF program
<1> QED BY <1>1 DEF get_user_session

\* Where a call is when it does a thing.
at(j, op, ip) == j.op = op /\ j.ip = ip

LEMMA Where ==
    ASSUME NEW j \in Jobs, j.op \in Ops, j.ip \in 1 .. Size(j.op)
    PROVE  LET i == program(j.op)[j.ip]
           IN  /\ i = Do("check")    => at(j, "create", 3)
               /\ i = Do("point")    => at(j, "create", 4)
               /\ i = Do("insert")   => at(j, "create", 5)
               /\ i = Do("find")     => \/ at(j, "end", 3) \/ at(j, "extend", 2)
                                        \/ at(j, "action", 2) \/ at(j, "action", 10)
               /\ i = Do("unpoint")  => at(j, "end", 4) \/ at(j, "sweep", 5)
               /\ i = Do("remove")   => at(j, "end", 5) \/ at(j, "sweep", 4)
               /\ i = Do("collect")  => at(j, "sweep", 3)
               /\ i = Do("extend")   => at(j, "extend", 3)
               /\ i = Do("cooldown") => at(j, "action", 5)
               /\ i = Do("stamp")    => at(j, "action", 6)
               /\ i = Do("record")   => at(j, "action", 11)
               /\ i = Do("pointer")  => at(j, "list", 2)
               /\ i = Do("lookup")   => at(j, "list", 5)
               /\ i = Do("run")      => at(j, "action", 8)
<1> USE DEF Lock, Unlock, Do, at, Size, TwoLocks
<1>1. CASE j.op = "create"
  BY <1>1, CreateProgram
<1>2. CASE j.op = "end"
  BY <1>2, EndProgram
<1>3. CASE j.op = "sweep"
  BY <1>3, SweepProgram
<1>4. CASE j.op = "extend"
  BY <1>4, ExtendProgram
<1>5. CASE j.op = "action"
  BY <1>5, ActionProgram
<1>6. CASE j.op = "list"
  BY <1>6, ListProgram
<1> QED BY <1>1, <1>2, <1>3, <1>4, <1>5, <1>6 DEF Ops

LEMMA WhereLocks ==
    ASSUME NEW j \in Jobs, j.op \in Ops, j.ip \in 1 .. Size(j.op)
    PROVE  LET i == program(j.op)[j.ip]
           IN  /\ i[1] = "lock" =>
                    \/ j.op \in TwoLocks /\ j.ip \in {1, 2, 8}
                    \/ j.op = "extend" /\ j.ip \in {1, 5}
                    \/ j.op = "action" /\ j.ip \in {1, 4, 9, 13}
                    \/ j.op = "list" /\ j.ip \in {1, 4}
               /\ i[1] = "unlock" =>
                    \/ j.op \in TwoLocks /\ j.ip \in {6, 7, 9}
                    \/ j.op = "extend" /\ j.ip \in {4, 6}
                    \/ j.op = "action" /\ j.ip \in {3, 7, 12, 14}
                    \/ j.op = "list" /\ j.ip \in {3, 6}
               /\ j.op \in TwoLocks /\ j.ip = 6 => i = Unlock("per_user")
<1> USE DEF Lock, Unlock, Do, Size, TwoLocks
<1>1. CASE j.op = "create"
  BY <1>1, CreateProgram
<1>2. CASE j.op = "end"
  BY <1>2, EndProgram
<1>3. CASE j.op = "sweep"
  BY <1>3, SweepProgram
<1>4. CASE j.op = "extend"
  BY <1>4, ExtendProgram
<1>5. CASE j.op = "action"
  BY <1>5, ActionProgram
<1>6. CASE j.op = "list"
  BY <1>6, ListProgram
<1> QED BY <1>1, <1>2, <1>3, <1>4, <1>5, <1>6 DEF Ops

LEMMA Sizes ==
    ASSUME NEW op \in Ops
    PROVE  Len(program(op)) = Size(op) /\ DOMAIN program(op) = 1 .. Size(op)
<1>1. Len(program(op)) = Size(op)
  BY CreateProgram, EndProgram, SweepProgram, ExtendProgram, ActionProgram, ListProgram
     DEF Ops, Size, TwoLocks
<1> DEFINE Instrs == {Lock("sessions", "write"), Lock("per_user", "write"), Lock("sessions", "read"),
                      Lock("per_user", "read"), Unlock("sessions"), Unlock("per_user")}
                     \cup {Do(w) : w \in {"check", "point", "insert", "find", "unpoint", "remove",
                              "collect", "extend", "cooldown", "stamp", "run", "record",
                              "pointer", "lookup"}}
<1>2. /\ \A l \in {"sessions", "per_user"} : \A m \in {"read", "write"} :
           Lock(l, m) \in Instrs /\ Unlock(l) \in Instrs
      /\ \A w \in {"check", "point", "insert", "find", "unpoint", "remove", "collect", "extend",
                   "cooldown", "stamp", "run", "record", "pointer", "lookup"} : Do(w) \in Instrs
  OBVIOUS
<1> HIDE DEF Instrs
<1>3. persist \in Seq(Instrs)
  BY <1>2 DEF persist
<1>4. ASSUME NEW a \in Instrs, NEW b \in Instrs, NEW c \in Instrs
      PROVE  both(<<a, b, c>>) \in Seq(Instrs)
  BY <1>2, <1>3 DEF both
<1>5. create \in Seq(Instrs) /\ end \in Seq(Instrs) /\ sweep_expired \in Seq(Instrs)
  BY <1>2, <1>4 DEF create, end, sweep_expired
<1>6. update_extend \in Seq(Instrs) /\ get_user_session \in Seq(Instrs)
  BY <1>2, <1>3 DEF update_extend, get_user_session
<1>7. get \in Seq(Instrs) /\ touch_action \in Seq(Instrs) /\ update_record \in Seq(Instrs)
  BY <1>2, <1>3 DEF get, touch_action, update_record
<1>8. execute_action \in Seq(Instrs)
  BY <1>2, <1>7 DEF execute_action
<1>9. program(op) \in Seq(Instrs)
  BY <1>5, <1>6, <1>8 DEF Ops, program
<1> QED BY <1>1, <1>9

\* The locks a call holds change where its program says so, and nowhere else.
LEMMA Discipline ==
    ASSUME NEW j \in Jobs, j.op \in Ops, j.ip \in 1 .. Size(j.op),
           NEW n \in Jobs,
           IF j.ip = Size(j.op) THEN n.op = "idle" ELSE n.op = j.op /\ n.ip = j.ip + 1,
           NEW l \in Locks
    PROVE  LET i == program(j.op)[j.ip]
           IN  /\ i[1] \in {"lock", "unlock", "do"}
               /\ i[1] \in {"lock", "unlock"} => i[2] \in Locks
               /\ i[1] = "lock" => i[3] \in {"read", "write"}
               /\ i[1] = "lock" /\ i[2] = l =>
                    /\ ~writes(j, l) /\ ~reads(j, l)
                    /\ i[3] = "write" <=> writes(n, l)
                    /\ i[3] = "read" <=> reads(n, l)
               /\ i[1] = "unlock" /\ i[2] = l => ~writes(n, l) /\ ~reads(n, l)
               /\ i[1] = "do" \/ i[2] # l =>
                    (writes(n, l) <=> writes(j, l)) /\ (reads(n, l) <=> reads(j, l))
<1> USE DEF Lock, Unlock, Do, Size, TwoLocks, Locks, writes, reads
<1>1. CASE j.op = "create"
  BY <1>1, CreateProgram
<1>2. CASE j.op = "end"
  BY <1>2, EndProgram
<1>3. CASE j.op = "sweep"
  BY <1>3, SweepProgram
<1>4. CASE j.op = "extend"
  BY <1>4, ExtendProgram
<1>5. CASE j.op = "action"
  BY <1>5, ActionProgram
<1>6. CASE j.op = "list"
  BY <1>6, ListProgram
<1> QED BY <1>1, <1>2, <1>3, <1>4, <1>5, <1>6 DEF Ops

\* The next place of a call.
follows(n, j) ==
    IF j.ip = Size(j.op) THEN n = Idle
    ELSE /\ n.op = j.op /\ n.user = j.user /\ n.ids = j.ids /\ n.answer = j.answer
         /\ n.ip = j.ip + 1

LEMMA IdleJob == Idle \in Jobs /\ Idle.op = "idle" /\ Idle.op \notin Ops
  BY DEF Idle, Jobs, Ops

LEMMA NextJob ==
    ASSUME NEW j \in Jobs, j.op \in Ops, j.ip \in 1 .. Size(j.op)
    PROVE  next_job(j) \in Jobs /\ follows(next_job(j), j)
<1>1. j.ip = Size(j.op) => next_job(j) = Idle
  BY Sizes DEF next_job
<1>2. j.ip # Size(j.op) => next_job(j) = [j EXCEPT !.ip = @ + 1]
  BY Sizes DEF next_job
<1>3. CASE j.ip = Size(j.op)
  BY <1>1, <1>3, IdleJob DEF follows
<1>4. CASE j.ip # Size(j.op)
  <2> DEFINE n == [j EXCEPT !.ip = @ + 1]
  <2>a. j.ip \in Nat
    BY DEF Jobs
  <2>0. j.ip + 1 \in Nat
    BY <2>a
  <2>1. n \in Jobs
    BY <2>0 DEF Jobs
  <2>2. /\ n.op = j.op /\ n.user = j.user /\ n.ids = j.ids /\ n.answer = j.answer
        /\ n.ip = j.ip + 1
    BY DEF Jobs
  <2> QED BY <1>2, <1>4, <2>1, <2>2 DEF follows
<1> QED BY <1>3, <1>4

-----------------------------------------------------------------------------
(* The locks exclude each other                                             *)

\* What becomes of lock l in a step that takes call t from job[t] to n.
record(l) == DOMAIN locks[l] = {"holders", "mode", "queue"}
kept(t, n, l) ==
    /\ locks'[l].holders = locks[l].holders /\ locks'[l].mode = locks[l].mode
    /\ writes(n, l) <=> writes(job[t], l)
    /\ reads(n, l) <=> reads(job[t], l)
took(t, n, l) ==
    /\ locks'[l].holders = locks[l].holders \cup {t}
    /\ \/ locks[l].holders = {}
       \/ locks'[l].mode = "read" /\ locks[l].mode = "read"
    /\ locks'[l].mode \in {"read", "write"}
    /\ locks'[l].mode = "write" <=> writes(n, l)
    /\ locks'[l].mode = "read" <=> reads(n, l)
gave(t, n, l) ==
    /\ locks'[l].holders = locks[l].holders \ {t}
    /\ locks'[l].mode = IF locks'[l].holders = {} THEN "none" ELSE locks[l].mode
    /\ ~writes(n, l) /\ ~reads(n, l)

LEMMA LockStep ==
    ASSUME Exclusion, job \in [All -> Jobs], NEW t \in All, NEW n \in Jobs,
           job' = [job EXCEPT ![t] = n], DOMAIN locks' = Locks,
           \A l \in Locks : record(l)' /\ (kept(t, n, l) \/ took(t, n, l) \/ gave(t, n, l))
    PROVE  Exclusion'
<1> SUFFICES ASSUME NEW l \in Locks PROVE LockOK(l)'
  BY DEF Exclusion
<1>1. LockOK(l)
  BY DEF Exclusion
<1>2. job'[t] = n /\ \A p \in All \ {t} : job'[p] = job[p]
  OBVIOUS
<1>3. record(l)'
  OBVIOUS
<1>4. CASE kept(t, n, l)
  BY <1>1, <1>2, <1>3, <1>4 DEF LockOK, kept, record
<1>5. CASE took(t, n, l)
  BY <1>1, <1>2, <1>3, <1>5 DEF LockOK, took, record
<1>6. CASE gave(t, n, l)
  <2>1. \A p \in All : writes(job[p], l)' => locks'[l].holders = {p} /\ locks'[l].mode = "write"
    BY <1>1, <1>2, <1>6 DEF LockOK, gave
  <2>2. \A p \in All : reads(job[p], l)' => p \in locks'[l].holders /\ locks'[l].mode = "read"
    BY <1>1, <1>2, <1>6 DEF LockOK, gave
  <2>3. \A p \in locks'[l].holders : writes(job[p], l)' \/ reads(job[p], l)'
    BY <1>1, <1>2, <1>6 DEF LockOK, gave
  <2>4. locks'[l].mode = "none" <=> locks'[l].holders = {}
    BY <1>1, <1>6 DEF LockOK, gave
  <2> QED BY <1>1, <1>3, <1>6, <2>1, <2>2, <2>3, <2>4 DEF LockOK, gave, record
<1> QED BY <1>4, <1>5, <1>6

LEMMA Busy ==
    ASSUME Calls, NEW t \in All, busy(t)
    PROVE  /\ job[t] \in Jobs /\ job[t].op \in Ops /\ job[t].ip \in 1 .. Size(job[t].op)
           /\ next_job(job[t]) \in Jobs /\ follows(next_job(job[t]), job[t])
<1>1. job[t] \in Jobs /\ job[t].op \in Ops /\ job[t].ip \in 1 .. Size(job[t].op)
  BY DEF Calls, JobOK, busy, Jobs
<1> QED BY <1>1, NextJob

\* A step of the program that is no step of a lock.
LEMMA DoExcludes ==
    ASSUME Calls, Exclusion, NEW t \in All, busy(t), instr(t)[1] = "do", NEW n \in Jobs,
           IF job[t].ip = Size(job[t].op) THEN n.op = "idle"
           ELSE n.op = job[t].op /\ n.ip = job[t].ip + 1,
           job' = [job EXCEPT ![t] = n], locks' = locks
    PROVE  Exclusion'
<1>1. job[t] \in Jobs /\ job[t].op \in Ops /\ job[t].ip \in 1 .. Size(job[t].op)
  BY Busy
<1>2. \A l \in Locks : kept(t, n, l)
  BY <1>1, Discipline DEF kept, instr
<1>3. \A l \in Locks : record(l)'
  BY DEF Exclusion, LockOK, record
<1>4. DOMAIN locks' = Locks
  BY DEF Exclusion
<1> QED BY <1>2, <1>3, <1>4, LockStep DEF Calls

LEMMA BeginExcludes ==
    ASSUME Calls, Exclusion, NEW t \in All, ~busy(t), NEW n \in Jobs, n.ip = 1,
           job' = [job EXCEPT ![t] = n], locks' = locks
    PROVE  Exclusion'
<1>1. \A l \in Locks : kept(t, n, l)
  BY DEF kept, writes, reads, busy, TwoLocks
<1>2. \A l \in Locks : record(l)'
  BY DEF Exclusion, LockOK, record
<1>3. DOMAIN locks' = Locks
  BY DEF Exclusion
<1> QED BY <1>1, <1>2, <1>3, LockStep DEF Calls

LEMMA Without ==
    ASSUME NEW lk, NEW t
    PROVE  LET w == without(lk, t)
           IN  /\ DOMAIN w = {"holders", "mode", "queue"}
               /\ w.holders = lk.holders \ {t}
               /\ w.mode = IF w.holders = {} THEN "none" ELSE lk.mode
  BY DEF without

LEMMA LeaveExcludes ==
    ASSUME Calls, Exclusion, NEW t \in All, Leave(t)
    PROVE  Exclusion' /\ job' = [job EXCEPT ![t] = Idle]
<1>1. job' = [job EXCEPT ![t] = Idle] /\ locks' = [l \in Locks |-> without(locks[l], t)]
  BY DEF Leave
<1>2. \A l \in Locks : ~writes(Idle, l) /\ ~reads(Idle, l)
  BY DEF writes, reads, Idle, TwoLocks
<1>3. \A l \in Locks : record(l)' /\ gave(t, Idle, l)
  BY <1>1, <1>2, Without DEF gave, record
<1>4. DOMAIN locks' = Locks
  BY <1>1
<1> QED BY <1>1, <1>3, <1>4, IdleJob, LockStep DEF Calls

LEMMA ReleaseExcludes ==
    ASSUME Calls, Exclusion, NEW t \in All, Release(t)
    PROVE  /\ Exclusion'
           /\ job' = [job EXCEPT ![t] = next_job(job[t])]
           /\ instr(t)[1] = "unlock" /\ busy(t)
           /\ \A l \in Locks : instr(t) = Unlock(l) => locks'[l] = without(locks[l], t)
<1>0. busy(t) /\ instr(t)[1] = "unlock"
  BY DEF Release
<1>1. /\ job[t] \in Jobs /\ job[t].op \in Ops /\ job[t].ip \in 1 .. Size(job[t].op)
      /\ next_job(job[t]) \in Jobs /\ follows(next_job(job[t]), job[t])
  BY <1>0, Busy
<1> PICK n \in Jobs : n = next_job(job[t])
  BY <1>1
<1>2. IF job[t].ip = Size(job[t].op) THEN n.op = "idle"
      ELSE n.op = job[t].op /\ n.ip = job[t].ip + 1
  BY <1>1, IdleJob DEF follows
<1>3. instr(t)[2] \in Locks
  BY <1>0, <1>1, <1>2, Discipline DEF instr, Locks
<1> PICK k \in Locks : k = instr(t)[2]
  BY <1>3
<1>4. job' = [job EXCEPT ![t] = n] /\ locks' = [locks EXCEPT ![k] = without(@, t)]
  BY DEF Release, Calls
<1>5. DOMAIN locks = Locks /\ DOMAIN locks' = Locks
  BY <1>4 DEF Exclusion
<1>6. locks'[k] = without(locks[k], t)
  BY <1>4, <1>5
<1>7. record(k)' /\ gave(t, n, k)
  <2>1. ~writes(n, k) /\ ~reads(n, k)
    BY <1>0, <1>1, <1>2, Discipline DEF instr
  <2> QED BY <2>1, <1>6, Without DEF gave, record
<1>8. ASSUME NEW l \in Locks, l # k PROVE record(l)' /\ kept(t, n, l)
  <2>1. (writes(n, l) <=> writes(job[t], l)) /\ (reads(n, l) <=> reads(job[t], l))
    BY <1>0, <1>1, <1>2, <1>8, Discipline DEF instr
  <2>2. locks'[l] = locks[l]
    BY <1>4, <1>5, <1>8
  <2>3. record(l)
    BY DEF Exclusion, LockOK, record
  <2> QED BY <2>1, <2>2, <2>3 DEF kept, record
<1>9. \A l \in Locks : record(l)' /\ (kept(t, n, l) \/ took(t, n, l) \/ gave(t, n, l))
  BY <1>7, <1>8
<1>10. Exclusion'
  BY <1>4, <1>5, <1>9, LockStep DEF Calls
<1>11. \A l \in Locks : instr(t) = Unlock(l) => l = k
  BY DEF Unlock
<1> QED BY <1>0, <1>4, <1>6, <1>10, <1>11

\* Acquire: the call is queued, or it has the lock and goes on.
LEMMA AcquireExcludes ==
    ASSUME Calls, Exclusion, NEW t \in All, Acquire(t)
    PROVE  /\ Exclusion'
           /\ instr(t)[1] = "lock" /\ busy(t)
           /\ job' = job \/ job' = [job EXCEPT ![t] = next_job(job[t])]
           /\ \A l \in Locks : locks'[l].mode = "write" \/ locks'[l].mode = locks[l].mode
                               \/ locks[l].mode # "write"
<1>0. busy(t) /\ instr(t)[1] = "lock"
  BY DEF Acquire
<1>1. /\ job[t] \in Jobs /\ job[t].op \in Ops /\ job[t].ip \in 1 .. Size(job[t].op)
      /\ next_job(job[t]) \in Jobs /\ follows(next_job(job[t]), job[t])
  BY <1>0, Busy
<1> PICK n \in Jobs : n = next_job(job[t])
  BY <1>1
<1>2. IF job[t].ip = Size(job[t].op) THEN n.op = "idle"
      ELSE n.op = job[t].op /\ n.ip = job[t].ip + 1
  BY <1>1, IdleJob DEF follows
<1>3. instr(t)[2] \in Locks /\ instr(t)[3] \in {"read", "write"}
  BY <1>0, <1>1, <1>2, Discipline DEF instr, Locks
<1> PICK k \in Locks : k = instr(t)[2]
  BY <1>3
<1> PICK m \in {"read", "write"} : m = instr(t)[3]
  BY <1>3
<1> DEFINE taken(rest) ==
      /\ locks' = [locks EXCEPT ![k] = [holders |-> locks[k].holders \cup {t}, mode |-> m, queue |-> rest]]
      /\ job' = [job EXCEPT ![t] = n]
<1>4. DOMAIN locks = Locks /\ \A l \in Locks : record(l)
  BY DEF Exclusion, LockOK, record
<1>5. \/ \E rest : taken(rest) /\ fits(k, m)
      \/ \E q : locks' = [locks EXCEPT ![k] = [locks[k] EXCEPT !.queue = q]] /\ job' = job
  <2> DEFINE q0 == locks[k].queue
  <2>1. \/ fits(k, m) /\ taken(q0)
        \/ locks' = [locks EXCEPT ![k].queue = Append(@, <<t, m>>)] /\ job' = job
        \/ fits(k, m) /\ taken(Tail(q0))
    BY <1>4 DEF Acquire, Calls
  <2>2. [locks EXCEPT ![k].queue = Append(@, <<t, m>>)]
            = [locks EXCEPT ![k] = [locks[k] EXCEPT !.queue = Append(locks[k].queue, <<t, m>>)]]
    BY <1>4 DEF record
  <2> QED BY <2>1, <2>2
<1>6. CASE \E rest : taken(rest) /\ fits(k, m)
  <2> PICK rest : taken(rest) /\ fits(k, m)
    BY <1>6
  <2>1. /\ locks'[k] = [holders |-> locks[k].holders \cup {t}, mode |-> m, queue |-> rest]
        /\ DOMAIN locks' = Locks
        /\ \A l \in Locks \ {k} : locks'[l] = locks[l]
    BY <1>4
  <2>2. (m = "write" <=> writes(n, k)) /\ (m = "read" <=> reads(n, k))
    <3>1. instr(t)[1] = "lock" /\ instr(t)[2] = k =>
            /\ instr(t)[3] = "write" <=> writes(n, k)
            /\ instr(t)[3] = "read" <=> reads(n, k)
      <4> DEFINE j == job[t]
      <4>1. j \in Jobs /\ j.op \in Ops /\ j.ip \in 1 .. Size(j.op)
        BY <1>1
      <4>2. IF j.ip = Size(j.op) THEN n.op = "idle" ELSE n.op = j.op /\ n.ip = j.ip + 1
        BY <1>2
      <4>3. instr(t) = program(j.op)[j.ip]
        BY DEF instr
      <4> HIDE DEF j
      <4> QED BY <4>1, <4>2, <4>3, Discipline
    <3> QED BY <1>0, <3>1
  <2>3. record(k)' /\ took(t, n, k)
    BY <2>1, <2>2 DEF took, fits, record
  <2>4. ASSUME NEW l \in Locks, l # k PROVE record(l)' /\ kept(t, n, l)
    <3>1. (writes(n, l) <=> writes(job[t], l)) /\ (reads(n, l) <=> reads(job[t], l))
      BY <1>0, <1>1, <1>2, <2>4, Discipline DEF instr
    <3> QED BY <3>1, <2>1, <2>4, <1>4 DEF kept, record
  <2>5. \A l \in Locks : record(l)' /\ (kept(t, n, l) \/ took(t, n, l) \/ gave(t, n, l))
    BY <2>3, <2>4
  <2>6. Exclusion'
    BY <2>1, <2>5, LockStep DEF Calls
  <2>7. locks[k].mode # "write" \/ locks[k].holders = {}
    BY DEF fits
  <2>8. locks[k].mode # "write"
    BY <2>7 DEF Exclusion, LockOK
  <2> QED BY <1>0, <2>1, <2>6, <2>8
<1>7. CASE \E q : locks' = [locks EXCEPT ![k] = [locks[k] EXCEPT !.queue = q]] /\ job' = job
  <2> PICK q : locks' = [locks EXCEPT ![k] = [locks[k] EXCEPT !.queue = q]]
    BY <1>7
  <2>1. /\ DOMAIN locks' = Locks
        /\ \A l \in Locks : /\ record(l)'
                            /\ locks'[l].holders = locks[l].holders
                            /\ locks'[l].mode = locks[l].mode
    BY <1>4 DEF record
  <2>2. ASSUME NEW l \in Locks PROVE LockOK(l)'
    BY <1>7, <2>1 DEF Exclusion, LockOK, record
  <2> QED BY <1>0, <1>7, <2>1, <2>2 DEF Exclusion
<1> QED BY <1>5, <1>6, <1>7

-----------------------------------------------------------------------------
(* History of lists                                                         *)

LEMMA Witnessed ==
    ASSUME Typed, Witness
    PROVE  /\ vacant' \in [All -> BOOLEAN]
           /\ \A t \in All : job'[t].op = "list" /\ none_for(job[t].user)' => vacant'[t]
           /\ \A t \in All : job'[t].op = "list" /\ job[t].op = "list" /\ vacant[t] => vacant'[t]
<1>1. vacant' \in [All -> BOOLEAN]
  BY DEF Witness, Typed
<1>2. \A t \in All : job'[t].op = "list" /\ none_for(job[t].user)' => vacant'[t]
  BY DEF Witness, none_for
<1>3. \A t \in All : job'[t].op = "list" /\ job[t].op = "list" /\ vacant[t] => vacant'[t]
  BY DEF Witness
<1> QED BY <1>1, <1>2, <1>3

-----------------------------------------------------------------------------
(* Steps that change no session and no pointer                              *)

data == <<now, sessions, per_user, issued, recorded, admitted, crowded>>
Rest == Typed /\ Calls /\ Fresh /\ Pointers /\ UnderLock /\ Admissions /\ Logs /\ Lists

\* The call goes to n without leaving anything half done.
tame(j, n) ==
    /\ JobOK(n) /\ relies(n)
    /\ \A u \in Users : ~excused(j, u)
    /\ n.op = "create" => /\ j.op = "create" /\ n.ids = j.ids /\ n.user = j.user
                          /\ making(n) => making(j) /\ n.ip # 5 /\ j.ip # 5
    /\ n.op = "create" /\ making(n) => \A u \in Users : per_user[u] \notin n.ids

\* A list goes on with what it has read.
listing(t, n) ==
    /\ n.ip >= 3 => /\ job[t].op = "list" /\ n.user = job[t].user
                    /\ \/ job[t].ip >= 3 /\ n.ids = job[t].ids
                       \/ per_user[n.user] \in n.ids
    /\ n.answer = "nothing" => job[t].op = "list" /\ (job[t].answer = "nothing" \/ vacant[t])

LEMMA Quiet ==
    ASSUME Inv, Witness, UNCHANGED data, NEW t \in All, NEW n \in Jobs,
           job' = [job EXCEPT ![t] = n],
           tame(job[t], n), n.op = "list" => listing(t, n),
           unpointing(job[t]) => unpointing(n) \/ locks'["per_user"].mode # "write"
    PROVE  Rest'
<1> USE DEF data
<1>0. job'[t] = n /\ \A p \in All \ {t} : job'[p] = job[p]
  BY DEF Inv, Calls
<1>1. Typed'
  BY Witnessed DEF Inv, Typed, Times
<1>2. Calls'
  <2>1. job' \in [All -> Jobs]
    BY DEF Inv, Calls
  <2>2. \A p \in All : JobOK(job[p])'
    BY <1>0 DEF Inv, Calls, JobOK, tame
  <2> QED BY <2>1, <2>2 DEF Calls
<1>3. Fresh'
  <2>1. \A p \in All : making(job[p])' =>
          /\ making(job[p]) /\ job'[p].ids = job[p].ids /\ job'[p].user = job[p].user
          /\ job'[p].ip = 5 => job[p].ip = 5
    BY <1>0 DEF tame, making
  <2>2. ASSUME NEW i \in Ids, i \notin issued' \/ \E p \in All : making(job[p])' /\ i \in job'[p].ids
        PROVE  i \notin DOMAIN sessions' /\ recorded'[i] = 0 /\ admitted'[i] = Never
    BY <2>1, <2>2 DEF Inv, Fresh
  <2>3. ASSUME NEW p \in All, NEW u \in Users, making(job[p])', per_user'[u] \in job'[p].ids
        PROVE  job'[p].ip = 5 /\ u = job'[p].user
    <3>1. CASE p = t
      BY <1>0, <2>3, <3>1 DEF tame, making
    <3>2. CASE p # t
      BY <1>0, <2>3, <3>2 DEF Inv, Fresh, making
    <3> QED BY <3>1, <3>2
  <2>4. ASSUME NEW p \in All, NEW q \in All, job'[p].op = "create", job'[q].op = "create",
               job'[p].ids \cap job'[q].ids # {}
        PROVE  p = q
    <3>1. \A r \in All : job'[r].op = "create" => job[r].op = "create" /\ job'[r].ids = job[r].ids
      BY <1>0 DEF tame
    <3> QED BY <2>4, <3>1 DEF Inv, Fresh
  <2>5. \A u \in Users : per_user'[u] # NoId => per_user'[u] \in issued'
    BY DEF Inv, Fresh
  <2> QED BY <2>2, <2>3, <2>4, <2>5 DEF Fresh
<1>4. Pointers'
  <2> SUFFICES ASSUME NEW u \in Users, per_user'[u] # NoId
               PROVE  leads(u)' \/ \E p \in All : excused(job[p], u)'
    BY DEF Pointers
  <2>1. leads(u) \/ \E p \in All : excused(job[p], u)
    BY DEF Inv, Pointers
  <2>2. \A p \in All : excused(job[p], u) => excused(job[p], u)'
    BY <1>0 DEF tame, excused
  <2> QED BY <2>1, <2>2 DEF leads
<1>5. UnderLock'
  <2>1. \A p \in All : relies(job[p])'
    BY <1>0 DEF Inv, UnderLock, tame, relies, holds_live, cooling
  <2> QED BY <2>1 DEF UnderLock
<1>6. Admissions' /\ Logs'
  BY DEF Inv, Admissions, Logs
<1>7. Lists'
  <2> SUFFICES ASSUME NEW p \in All, job'[p].op = "list" PROVE ListOK(p)'
    BY DEF Lists
  <2>1. none_for(job[p].user)' => vacant'[p]
    BY Witnessed DEF Inv
  <2>2. job[p].op = "list" /\ vacant[p] => vacant'[p]
    BY Witnessed DEF Inv
  <2>3. job'[p].answer = "nothing" => vacant'[p]
    <3>1. CASE p = t
      BY <1>0, <2>2, <3>1 DEF Inv, Lists, ListOK, listing
    <3>2. CASE p # t
      BY <1>0, <2>2, <3>2 DEF Inv, Lists, ListOK
    <3> QED BY <3>1, <3>2
  <2>4. ASSUME job'[p].ip >= 3
        PROVE  \/ vacant'[p]
               \/ per_user'[job'[p].user] \in job'[p].ids
               \/ per_user'[job'[p].user] = NoId /\ \E q \in All : unpointing(job[q])'
    <3>1. /\ job[p].op = "list" /\ job'[p].user = job[p].user
          /\ \/ job[p].ip >= 3 /\ job'[p].ids = job[p].ids
             \/ per_user[job'[p].user] \in job'[p].ids
      BY <1>0, <2>4 DEF listing
    <3>2. CASE per_user[job'[p].user] \in job'[p].ids
      BY <3>2
    <3>3. CASE job[p].ip >= 3 /\ job'[p].ids = job[p].ids
      <4>1. \/ vacant[p] \/ per_user[job[p].user] \in job[p].ids
            \/ per_user[job[p].user] = NoId /\ \E q \in All : unpointing(job[q])
        BY <3>1, <3>3 DEF Inv, Lists, ListOK
      <4>2. CASE vacant[p] \/ per_user[job[p].user] \in job[p].ids
        BY <4>2, <3>1, <3>3, <2>2
      <4>3. CASE per_user[job[p].user] = NoId /\ \E q \in All : unpointing(job[q])
        <5>1. PICK q \in All : unpointing(job[q])
          BY <4>3
        <5>2. unpointing(job[q])' \/ locks'["per_user"].mode # "write"
          BY <5>1, <1>0 DEF unpointing
        <5>3. CASE locks'["per_user"].mode # "write"
          BY <5>3, <4>3, <3>1, <2>1 DEF none_for
        <5> QED BY <5>2, <5>3, <4>3, <3>1
      <4> QED BY <4>1, <4>2, <4>3
    <3> QED BY <3>1, <3>2, <3>3
  <2> QED BY <2>1, <2>3, <2>4 DEF ListOK
<1> QED BY <1>1, <1>2, <1>3, <1>4, <1>5, <1>6, <1>7 DEF Rest

\* A call at which nothing is half done may end, or go on.
settled(j) ==
    ~(j.op = "create" /\ j.ip \in {4, 5}) /\ ~(j.op = "sweep" /\ j.ip = 5)

LEMMA IdleTame ==
    ASSUME Inv, NEW t \in All, settled(job[t])
    PROVE  tame(job[t], Idle)
<1>1. JobOK(Idle) /\ Idle.op = "idle" /\ relies(Idle)
  BY IdleJob DEF JobOK, Idle, relies
<1> QED BY <1>1 DEF settled, tame, excused

LEMMA NextTame ==
    ASSUME Inv, NEW t \in All, busy(t), settled(job[t]), NEW n \in Jobs,
           n.op = job[t].op, n.user = job[t].user, n.ip = job[t].ip + 1,
           job[t].ip # Size(job[t].op), relies(n),
           n.op \in {"create", "end", "extend", "action"} => n.ids = job[t].ids,
           n.op = "list" => IF job[t].ip = 2 THEN \E i \in Ids : n.ids = {i} ELSE n.ids = job[t].ids
    PROVE  tame(job[t], n)
<1>1. job[t] \in Jobs /\ job[t].op \in Ops /\ job[t].ip \in 1 .. Size(job[t].op) /\ JobOK(job[t])
  BY Busy DEF Inv, Calls
<1>a. job[t].ip \in Nat /\ Size(job[t].op) \in Nat
  BY <1>1 DEF Jobs, Size
<1>2. JobOK(n)
  <2>1. n.ip \in 1 .. Size(n.op)
    BY <1>1, <1>a
  <2>2. n.op \in {"create", "end", "extend", "action"} => \E i \in issued : n.ids = {i}
    BY <1>1 DEF JobOK
  <2>3. n.op \in {"create", "list"} => n.user \in Users
    BY <1>1 DEF JobOK
  <2>4. n.op = "list" /\ n.ip >= 3 => \E i \in Ids : n.ids = {i}
    BY <1>1, <1>a DEF JobOK
  <2> QED BY <2>1, <2>2, <2>3, <2>4 DEF JobOK
<1>3. \A u \in Users : ~excused(job[t], u)
  BY DEF settled, excused
<1>4. ASSUME n.op = "create", making(n)
      PROVE  making(job[t]) /\ n.ip # 5 /\ job[t].ip # 5 /\ \A u \in Users : per_user[u] \notin n.ids
  <2>1. making(job[t]) /\ n.ip # 5 /\ job[t].ip # 5
    BY <1>4, <1>a DEF making, settled
  <2> QED BY <1>4, <2>1 DEF Inv, Fresh
<1> QED BY <1>2, <1>3, <1>4 DEF tame

LEMMA JobOf ==
    ASSUME Calls, NEW t \in All, NEW what, doing(t, what)
    PROVE  /\ busy(t) /\ instr(t)[1] = "do" /\ program(job[t].op)[job[t].ip] = Do(what)
           /\ job[t] \in Jobs /\ job[t].op \in Ops /\ job[t].ip \in 1 .. Size(job[t].op)
           /\ JobOK(job[t]) /\ next_job(job[t]) \in Jobs /\ follows(next_job(job[t]), job[t])
  BY Busy DEF doing, instr, Do, Calls

LEMMA AcquireSafe == ASSUME Inv, Witness, NEW t \in All, Acquire(t) PROVE Inv'
<1>1. Exclusion' /\ busy(t) /\ instr(t)[1] = "lock"
  BY AcquireExcludes DEF Inv
<1>2. /\ job[t] \in Jobs /\ job[t].op \in Ops /\ job[t].ip \in 1 .. Size(job[t].op)
      /\ next_job(job[t]) \in Jobs /\ follows(next_job(job[t]), job[t]) /\ JobOK(job[t])
  BY <1>1, Busy DEF Inv, Calls
<1>3. \/ job[t].op \in TwoLocks /\ job[t].ip \in {1, 2, 8}
      \/ job[t].op = "extend" /\ job[t].ip \in {1, 5}
      \/ job[t].op = "action" /\ job[t].ip \in {1, 4, 9, 13}
      \/ job[t].op = "list" /\ job[t].ip \in {1, 4}
  BY <1>1, <1>2, WhereLocks DEF instr
<1>4. job[t].ip # Size(job[t].op) /\ settled(job[t]) /\ ~unpointing(job[t])
  BY <1>3 DEF Size, settled, unpointing, TwoLocks
<1>5. UNCHANGED data
  BY DEF Acquire, data
<1> PICK n \in Jobs : n = next_job(job[t])
  BY <1>2
<1>6. /\ n.op = job[t].op /\ n.user = job[t].user /\ n.ids = job[t].ids /\ n.answer = job[t].answer
      /\ n.ip = job[t].ip + 1
  BY <1>2, <1>4 DEF follows
<1>7. CASE job' = [job EXCEPT ![t] = n]
  <2>1. relies(n)
    BY <1>3, <1>6 DEF relies, TwoLocks
  <2>2. tame(job[t], n)
    <3>1. n.op = "list" => job[t].ip # 2
      BY <1>3, <1>6 DEF TwoLocks
    <3> QED BY <1>1, <1>4, <1>6, <2>1, <3>1, NextTame
  <2>3. n.op = "list" => listing(t, n)
    BY <1>3, <1>6 DEF listing, TwoLocks
  <2>4. Rest'
    BY <1>4, <1>5, <1>7, <2>2, <2>3, Quiet
  <2> QED BY <1>1, <2>4 DEF Inv, Rest
<1>8. CASE job' = job
  <2>1. job' = [job EXCEPT ![t] = job[t]]
    BY <1>8 DEF Inv, Calls
  <2>2. tame(job[t], job[t])
    <3>1. relies(job[t])
      BY DEF Inv, UnderLock
    <3>2. \A u \in Users : ~excused(job[t], u)
      BY <1>4 DEF settled, excused
    <3>3. making(job[t]) => job[t].ip # 5 /\ \A u \in Users : per_user[u] \notin job[t].ids
      BY <1>4 DEF settled, making, Inv, Fresh
    <3> QED BY <1>2, <3>1, <3>2, <3>3 DEF tame
  <2>3. job[t].op = "list" => listing(t, job[t])
    BY DEF listing
  <2>4. Rest'
    BY <1>2, <1>4, <1>5, <2>1, <2>2, <2>3, Quiet
  <2> QED BY <1>1, <2>4 DEF Inv, Rest
<1> QED BY <1>7, <1>8, AcquireExcludes DEF Inv

LEMMA ReleaseSafe == ASSUME Inv, Witness, NEW t \in All, Release(t) PROVE Inv'
<1>1. Exclusion' /\ busy(t) /\ instr(t)[1] = "unlock"
  BY ReleaseExcludes DEF Inv
<1>2. /\ job[t] \in Jobs /\ job[t].op \in Ops /\ job[t].ip \in 1 .. Size(job[t].op)
      /\ next_job(job[t]) \in Jobs /\ follows(next_job(job[t]), job[t]) /\ JobOK(job[t])
  BY <1>1, Busy DEF Inv, Calls
<1>3. \/ job[t].op \in TwoLocks /\ job[t].ip \in {6, 7, 9}
      \/ job[t].op = "extend" /\ job[t].ip \in {4, 6}
      \/ job[t].op = "action" /\ job[t].ip \in {3, 7, 12, 14}
      \/ job[t].op = "list" /\ job[t].ip \in {3, 6}
  BY <1>1, <1>2, WhereLocks DEF instr
<1>4. settled(job[t])
  BY <1>3 DEF settled, TwoLocks
<1>5. UNCHANGED data
  BY DEF Release, data
<1> PICK n \in Jobs : n = next_job(job[t])
  BY <1>2
<1>6. job' = [job EXCEPT ![t] = n]
  BY ReleaseExcludes DEF Inv
<1>7. unpointing(job[t]) => locks'["per_user"].mode # "write"
  <2> SUFFICES ASSUME unpointing(job[t]) PROVE locks'["per_user"].mode # "write"
    OBVIOUS
  <2>1. job[t].op \in TwoLocks /\ job[t].ip = 6
    BY <1>3 DEF unpointing, TwoLocks
  <2>2. instr(t) = Unlock("per_user")
    BY <2>1, <1>2, WhereLocks DEF instr
  <2>3. locks'["per_user"] = without(locks["per_user"], t)
    BY <2>2, ReleaseExcludes DEF Inv, Locks
  <2>4. locks["per_user"].holders = {t}
    BY <2>1 DEF Inv, Exclusion, LockOK, writes, Locks
  <2> QED BY <2>3, <2>4, Without
<1>8. CASE job[t].ip = Size(job[t].op)
  <2>1. n = Idle
    BY <1>2, <1>8 DEF follows
  <2>2. tame(job[t], n) /\ (n.op = "list" => listing(t, n))
    BY <1>4, <2>1, IdleTame, IdleJob
  <2>3. Rest'
    BY <1>5, <1>6, <1>7, <2>2, Quiet
  <2> QED BY <1>1, <2>3 DEF Inv, Rest
<1>9. CASE job[t].ip # Size(job[t].op)
  <2>1. /\ n.op = job[t].op /\ n.user = job[t].user /\ n.ids = job[t].ids /\ n.answer = job[t].answer
        /\ n.ip = job[t].ip + 1
    BY <1>2, <1>9 DEF follows
  <2>2. relies(n)
    BY <1>3, <2>1 DEF relies, TwoLocks
  <2>3. n.op = "list" => job[t].ip # 2
    BY <1>3, <2>1 DEF TwoLocks
  <2>4. tame(job[t], n)
    BY <1>1, <1>4, <1>9, <2>1, <2>2, <2>3, NextTame
  <2>5. n.op = "list" => listing(t, n)
    BY <1>3, <2>1 DEF listing, TwoLocks
  <2>6. Rest'
    BY <1>5, <1>6, <1>7, <2>4, <2>5, Quiet
  <2> QED BY <1>1, <2>6 DEF Inv, Rest
<1> QED BY <1>8, <1>9

LEMMA LeaveSafe ==
    ASSUME Inv, Witness, NEW t \in All, Leave(t), settled(job[t]), ~unpointing(job[t]), UNCHANGED data
    PROVE  Inv'
<1>1. Exclusion' /\ job' = [job EXCEPT ![t] = Idle]
  BY LeaveExcludes DEF Inv
<1>2. tame(job[t], Idle)
  BY IdleTame
<1>3. Rest'
  BY <1>1, <1>2, IdleJob, Quiet
<1> QED BY <1>1, <1>3 DEF Inv, Rest

\* A step that goes on to the next place, possibly with another n.ids or n.answer.
LEMMA GoOnSafe ==
    ASSUME Inv, Witness, NEW t \in All, NEW what, doing(t, what), NEW n \in Jobs,
           settled(job[t]), ~unpointing(job[t]), UNCHANGED <<data, locks>>,
           job' = [job EXCEPT ![t] = n],
           n.op = job[t].op, n.user = job[t].user, n.ip = job[t].ip + 1,
           job[t].ip # Size(job[t].op), relies(n),
           n.op \in {"create", "end", "extend", "action"} => n.ids = job[t].ids,
           n.op = "list" => IF job[t].ip = 2 THEN \E i \in Ids : n.ids = {i} ELSE n.ids = job[t].ids,
           n.op = "list" => listing(t, n)
    PROVE  Inv'
<1>1. busy(t) /\ instr(t)[1] = "do"
  BY JobOf DEF Inv
<1>2. Exclusion'
  BY <1>1, DoExcludes DEF Inv
<1>3. tame(job[t], n)
  BY <1>1, NextTame
<1>4. Rest'
  BY <1>3, Quiet
<1> QED BY <1>2, <1>4 DEF Inv, Rest

\* The place after the one at which t is, when it is not its last.
LEMMA Onward ==
    ASSUME Inv, NEW t \in All, NEW what, doing(t, what), job[t].ip # Size(job[t].op)
    PROVE  LET n == next_job(job[t])
           IN  /\ n \in Jobs /\ n.op = job[t].op /\ n.user = job[t].user /\ n.ids = job[t].ids
               /\ n.answer = job[t].answer /\ n.ip = job[t].ip + 1
  BY JobOf DEF Inv, follows

LEMMA AdvanceSafe ==
    ASSUME Inv, Witness, NEW t \in All, NEW what, doing(t, what),
           settled(job[t]), ~unpointing(job[t]), UNCHANGED data, Advance(t),
           job[t].op # "list", job[t].ip # Size(job[t].op), relies(next_job(job[t]))
    PROVE  Inv'
<1> PICK n \in Jobs : n = next_job(job[t])
  BY Onward
<1>1. n.op = job[t].op /\ n.user = job[t].user /\ n.ids = job[t].ids /\ n.ip = job[t].ip + 1
  BY Onward
<1>2. job' = [job EXCEPT ![t] = n] /\ locks' = locks
  BY DEF Advance, Inv, Calls
<1> QED BY <1>1, <1>2, GoOnSafe

LEMMA CheckSafe == ASSUME Inv, Witness, NEW t \in All, Check(t) PROVE Inv'
<1>1. doing(t, "check") /\ UNCHANGED data
  BY DEF Check, data
<1>2. job[t].op = "create" /\ job[t].ip = 3
  BY <1>1, JobOf, Where DEF Inv, at
<1>3. settled(job[t]) /\ ~unpointing(job[t]) /\ job[t].ip # Size(job[t].op)
  BY <1>2 DEF settled, unpointing, Size, TwoLocks
<1>4. CASE holds_live(job[t].user)
  BY <1>1, <1>3, <1>4, LeaveSafe DEF Check
<1>5. CASE ~holds_live(job[t].user)
  <2>1. relies(next_job(job[t]))
    BY <1>1, <1>2, <1>3, <1>5, Onward DEF relies
  <2> QED BY <1>1, <1>2, <1>3, <1>5, <2>1, AdvanceSafe DEF Check
<1> QED BY <1>4, <1>5

LEMMA TheId ==
    ASSUME Calls, Typed, NEW t \in All, job[t].op \in {"create", "end", "extend", "action"}
    PROVE  the_id(t) \in issued /\ the_id(t) \in Ids /\ job[t].ids = {the_id(t)}
<1>1. PICK i \in issued : job[t].ids = {i}
  BY DEF Calls, JobOK
<1>2. the_id(t) = i
  BY <1>1 DEF the_id
<1> QED BY <1>1, <1>2 DEF Typed

LEMMA FindSafe == ASSUME Inv, Witness, NEW t \in All, Find(t) PROVE Inv'
<1>1. doing(t, "find") /\ UNCHANGED data
  BY DEF Find, data
<1>2. \/ at(job[t], "end", 3) \/ at(job[t], "extend", 2)
      \/ at(job[t], "action", 2) \/ at(job[t], "action", 10)
  BY <1>1, JobOf, Where DEF Inv
<1>3. settled(job[t]) /\ ~unpointing(job[t]) /\ job[t].ip # Size(job[t].op) /\ job[t].op # "list"
  BY <1>2 DEF settled, unpointing, Size, TwoLocks, at
<1>4. CASE ~known(t)
  BY <1>1, <1>3, <1>4, LeaveSafe DEF Find
<1>5. CASE known(t)
  <2>1. job[t].ids \subseteq DOMAIN sessions
    BY <1>2, <1>5, TheId DEF known, Inv, at
  <2>2. relies(next_job(job[t]))
    BY <1>1, <1>2, <1>3, <2>1, Onward DEF relies, at
  <2> QED BY <1>1, <1>2, <1>3, <1>5, <2>2, AdvanceSafe DEF Find
<1> QED BY <1>4, <1>5

LEMMA CooldownSafe == ASSUME Inv, Witness, NEW t \in All, Cooldown(t) PROVE Inv'
<1>1. doing(t, "cooldown") /\ UNCHANGED data
  BY DEF Cooldown, data
<1>2. job[t].op = "action" /\ job[t].ip = 5
  BY <1>1, JobOf, Where DEF Inv, at
<1>3. settled(job[t]) /\ ~unpointing(job[t]) /\ job[t].ip # Size(job[t].op) /\ job[t].op # "list"
  BY <1>2 DEF settled, unpointing, Size, TwoLocks
<1>4. CASE ~known(t) \/ cooling(sessions[the_id(t)])
  BY <1>1, <1>3, <1>4, LeaveSafe DEF Cooldown
<1>5. CASE ~(~known(t) \/ cooling(sessions[the_id(t)]))
  <2>1. job[t].ids = {the_id(t)}
    BY <1>2, TheId DEF Inv
  <2>2. relies(next_job(job[t]))
    BY <1>1, <1>2, <1>3, <1>5, <2>1, Onward DEF relies
  <2> QED BY <1>1, <1>2, <1>3, <1>5, <2>2, AdvanceSafe DEF Cooldown
<1> QED BY <1>4, <1>5

LEMMA RunSafe == ASSUME Inv, Witness, NEW t \in All, Run(t) PROVE Inv'
<1>1. doing(t, "run") /\ UNCHANGED data
  BY DEF Run, data
<1>2. job[t].op = "action" /\ job[t].ip = 8
  BY <1>1, JobOf, Where DEF Inv, at
<1>3. settled(job[t]) /\ ~unpointing(job[t]) /\ job[t].ip # Size(job[t].op) /\ job[t].op # "list"
  BY <1>2 DEF settled, unpointing, Size, TwoLocks
<1>4. relies(next_job(job[t]))
  BY <1>1, <1>2, <1>3, Onward DEF relies
<1> QED BY <1>1, <1>2, <1>3, <1>4, LeaveSafe, AdvanceSafe DEF Run

LEMMA ClientGoneSafe == ASSUME Inv, Witness, NEW t \in All, ClientGone(t) PROVE Inv'
<1>1. Leave(t) /\ UNCHANGED data /\ busy(t) /\ (instr(t)[1] = "lock" \/ doing(t, "run"))
  BY DEF ClientGone, data
<1>2. settled(job[t]) /\ ~unpointing(job[t])
  <2>1. CASE instr(t)[1] = "lock"
    BY <1>1, <2>1, Busy, WhereLocks DEF Inv, instr, settled, unpointing, TwoLocks
  <2>2. CASE doing(t, "run")
    BY <2>2, JobOf, Where DEF Inv, at, settled, unpointing
  <2> QED BY <1>1, <2>1, <2>2
<1> QED BY <1>1, <1>2, LeaveSafe

LEMMA CollectSafe == ASSUME Inv, Witness, NEW t \in All, Collect(t) PROVE Inv'
<1>1. doing(t, "collect") /\ UNCHANGED data
  BY DEF Collect, data
<1>2. job[t].op = "sweep" /\ job[t].ip = 3
  BY <1>1, JobOf, Where DEF Inv, at
<1>3. settled(job[t]) /\ ~unpointing(job[t]) /\ job[t].ip # Size(job[t].op)
  BY <1>2 DEF settled, unpointing, Size, TwoLocks
<1> DEFINE gone == {i \in DOMAIN sessions : sessions[i].expired}
<1>4. CASE gone = {}
  BY <1>1, <1>3, <1>4, LeaveSafe DEF Collect
<1>5. CASE gone # {}
  <2>1. gone \subseteq Ids
    BY DEF Inv, Typed
  <2> PICK m \in Jobs : m = next_job(job[t])
    BY <1>1, <1>3, Onward
  <2>2. m.op = "sweep" /\ m.user = job[t].user /\ m.ip = 4
    BY <1>1, <1>2, <1>3, Onward
  <2> DEFINE n == [m EXCEPT !.ids = gone]
  <2>3. n \in Jobs
    <3> HIDE DEF gone
    <3> QED BY <2>1 DEF Jobs
  <2>4. n.op = "sweep" /\ n.user = job[t].user /\ n.ip = 4
    BY <2>2 DEF Jobs
  <2>5. job' = [job EXCEPT ![t] = n] /\ locks' = locks
    BY <1>5 DEF Collect, Inv, Calls
  <2> HIDE DEF n, gone
  <2>6. relies(n)
    BY <2>4 DEF relies
  <2>7. n.op = job[t].op /\ n.ip = job[t].ip + 1
    BY <1>2, <2>4
  <2>8. n.op # "list" /\ n.op \notin {"create", "end", "extend", "action"}
    BY <2>4
  <2> QED BY <1>1, <1>3, <2>3, <2>4, <2>5, <2>6, <2>7, <2>8, GoOnSafe
<1> QED BY <1>4, <1>5

LEMMA PointerSafe == ASSUME Inv, Witness, NEW t \in All, Pointer(t) PROVE Inv'
<1>1. doing(t, "pointer") /\ UNCHANGED data
  BY DEF Pointer, data
<1>2. job[t].op = "list" /\ job[t].ip = 2
  BY <1>1, JobOf, Where DEF Inv, at
<1>3. settled(job[t]) /\ ~unpointing(job[t]) /\ job[t].ip # Size(job[t].op)
  BY <1>2 DEF settled, unpointing, Size, TwoLocks
<1> PICK u \in Users : u = job[t].user
  BY <1>2 DEF Inv, Calls, JobOK
<1>4. CASE per_user[u] = NoId
  BY <1>1, <1>3, <1>4, LeaveSafe DEF Pointer
<1>5. CASE per_user[u] # NoId
  <2> PICK i \in Ids : i = per_user[u]
    BY <1>5 DEF Inv, Typed
  <2> PICK m \in Jobs : m = next_job(job[t])
    BY <1>1, <1>3, Onward
  <2>2. m.op = "list" /\ m.user = u /\ m.ip = 3 /\ m.answer = job[t].answer
    BY <1>1, <1>2, <1>3, Onward
  <2> DEFINE n == [m EXCEPT !.ids = {i}]
  <2>3. n \in Jobs
    BY DEF Jobs
  <2>4. n.op = "list" /\ n.user = u /\ n.ip = 3 /\ n.ids = {i} /\ n.answer = job[t].answer
    BY <2>2 DEF Jobs
  <2>5. job' = [job EXCEPT ![t] = n] /\ locks' = locks
    BY <1>5 DEF Pointer, Inv, Calls
  <2> HIDE DEF n
  <2>6. relies(n)
    BY <2>4 DEF relies
  <2>7. n.op = job[t].op /\ n.ip = job[t].ip + 1 /\ n.user = job[t].user
    BY <1>2, <2>4
  <2>8. listing(t, n)
    BY <1>2, <2>4 DEF listing
  <2>9. n.op \notin {"create", "end", "extend", "action"}
    BY <2>4
  <2> QED BY <1>1, <1>2, <1>3, <2>3, <2>4, <2>5, <2>6, <2>7, <2>8, <2>9, GoOnSafe
<1> QED BY <1>4, <1>5

\* No call is in the middle of a change while another reads the sessions.
LEMMA ReadersAlone ==
    ASSUME Exclusion, NEW t \in All, reads(job[t], "sessions"), NEW p \in All
    PROVE  ~writes(job[p], "sessions")
  BY DEF Exclusion, LockOK, Locks

LEMMA LookupSafe == ASSUME Inv, Witness, NEW t \in All, Lookup(t) PROVE Inv'
<1>1. doing(t, "lookup") /\ UNCHANGED data
  BY DEF Lookup, data
<1>2. job[t].op = "list" /\ job[t].ip = 5
  BY <1>1, JobOf, Where DEF Inv, at
<1>3. settled(job[t]) /\ ~unpointing(job[t]) /\ job[t].ip # Size(job[t].op)
  BY <1>2 DEF settled, unpointing, Size, TwoLocks
<1> PICK u \in Users : u = job[t].user
  BY <1>2 DEF Inv, Calls, JobOK
<1> PICK m \in Jobs : m = next_job(job[t])
  BY <1>1, <1>3, Onward
<1>4. m.op = "list" /\ m.user = u /\ m.ip = 6 /\ m.ids = job[t].ids
  BY <1>1, <1>2, <1>3, Onward
<1> DEFINE a == IF known(t) THEN "found" ELSE "nothing"
           n == [m EXCEPT !.answer = a]
<1>5. n \in Jobs
  BY DEF Jobs
<1>6. n.op = "list" /\ n.user = u /\ n.ip = 6 /\ n.ids = job[t].ids /\ n.answer = a
  BY <1>4 DEF Jobs
<1>7. job' = [job EXCEPT ![t] = n] /\ locks' = locks
  BY DEF Lookup, Inv, Calls
<1>8. ~known(t) => vacant[t]
  <2> SUFFICES ASSUME ~known(t), ~vacant[t] PROVE FALSE
    OBVIOUS
  <2>1. \A p \in All : ~writes(job[p], "sessions")
    BY <1>2, ReadersAlone DEF reads, Inv
  <2>2. \A p \in All : ~unpointing(job[p]) /\ ~excused(job[p], u)
    BY <2>1 DEF unpointing, excused, writes, TwoLocks
  <2>3. per_user[u] \in job[t].ids
    BY <1>2, <2>2 DEF Inv, Lists, ListOK
  <2>4. per_user[u] # NoId
    <3>1. PICK i \in Ids : job[t].ids = {i}
      BY <1>2 DEF Inv, Calls, JobOK
    <3> QED BY <2>3, <3>1, StoreAssumption
  <2>5. leads(u)
    BY <2>2, <2>4 DEF Inv, Pointers
  <2> QED BY <2>3, <2>5 DEF leads, known
<1>9. listing(t, n)
  BY <1>2, <1>6, <1>8 DEF listing
<1> HIDE DEF n, a
<1>10. relies(n)
  BY <1>6 DEF relies
<1>11. n.op = job[t].op /\ n.ip = job[t].ip + 1 /\ n.user = job[t].user
  BY <1>2, <1>6
<1>12. n.op \notin {"create", "end", "extend", "action"}
  BY <1>6
<1>13. n.op = "list" /\ job[t].ip # 2 /\ n.ids = job[t].ids
  BY <1>2, <1>6
<1> QED BY <1>1, <1>3, <1>5, <1>7, <1>9, <1>10, <1>11, <1>12, <1>13, GoOnSafe

-----------------------------------------------------------------------------
(* Calls begin                                                              *)

LEMMA BeginJob ==
    ASSUME NEW o \in Ops, NEW u \in Users \cup {NoId}, NEW S \in SUBSET Ids
    PROVE  LET n == Begin(o, u, S)
           IN  /\ n \in Jobs /\ n.op = o /\ n.user = u /\ n.ids = S /\ n.ip = 1
               /\ n.answer = "pending"
  BY DEF Begin, Jobs

LEMMA BeginSafe ==
    ASSUME Inv, Witness, NEW t \in All, NEW n \in Jobs,
           n.op \in Ops \ {"create"}, n.ip = 1, n.answer = "pending",
           n.op = "list" => n.user \in Users,
           n.op \in {"end", "extend", "action"} => \E i \in issued : n.ids = {i},
           Call(t, n), issued' = issued
    PROVE  Inv'
<1>2. ~busy(t) /\ job' = [job EXCEPT ![t] = n] /\ UNCHANGED <<data, locks>>
  BY DEF Call, data
<1>3. Exclusion'
  BY <1>2, BeginExcludes DEF Inv
<1>4. job[t].op = "idle"
  BY <1>2 DEF busy
<1>5. tame(job[t], n)
  <2>1. JobOK(n)
    BY DEF JobOK, Size, Ops
  <2>2. relies(n)
    <3>1. n.ip \notin {3, 4, 5, 6, 11}
      OBVIOUS
    <3> QED BY <3>1 DEF relies
  <2> QED BY <1>4, <2>1, <2>2 DEF tame, excused
<1>6. listing(t, n)
  BY DEF listing
<1>7. ~unpointing(job[t])
  BY <1>4 DEF unpointing
<1>8. Rest'
  BY <1>2, <1>5, <1>6, <1>7, Quiet
<1> QED BY <1>3, <1>8 DEF Inv, Rest

-----------------------------------------------------------------------------
(* Steps that change sessions or pointers                                   *)

\* In the middle of something that others must not see.
midway(j) ==
    \/ j.op = "create" /\ j.ip \in {4, 5}
    \/ j.op = "end" /\ j.ip \in {5, 6}
    \/ j.op = "sweep" /\ j.ip \in {5, 6}
    \/ j.op = "extend" /\ j.ip = 3
    \/ j.op = "action" /\ j.ip \in {6, 11}

LEMMA Alone ==
    ASSUME Exclusion, NEW t \in All, writes(job[t], "sessions"), NEW p \in All, p # t
    PROVE  ~midway(job[p])
<1>1. ~writes(job[p], "sessions")
  BY DEF Exclusion, LockOK, Locks
<1> QED BY <1>1 DEF writes, midway, TwoLocks

LEMMA NotMidway ==
    ASSUME NEW j, ~midway(j)
    PROVE  relies(j) /\ relies(j)' /\ ~unpointing(j) /\ \A u \in Users : ~excused(j, u)
  BY DEF midway, relies, unpointing, excused

\* The calls after a step of t, which took it on to n.
LEMMA StepCalls ==
    ASSUME Inv, NEW t \in All, NEW n \in Jobs, JobOK(n)', issued \subseteq issued',
           job' = [job EXCEPT ![t] = n]
    PROVE  /\ Calls'
           /\ job'[t] = n /\ \A p \in All \ {t} : job'[p] = job[p]
<1>1. job'[t] = n /\ \A p \in All \ {t} : job'[p] = job[p]
  BY DEF Inv, Calls
<1>2. job' \in [All -> Jobs]
  BY DEF Inv, Calls
<1>3. ASSUME NEW p \in All PROVE JobOK(job[p])'
  <2>1. CASE p = t
    BY <1>1, <2>1 DEF JobOK
  <2>2. CASE p # t
    BY <1>1, <2>2 DEF Inv, Calls, JobOK
  <2> QED BY <2>1, <2>2
<1> QED BY <1>1, <1>2, <1>3 DEF Calls

\* A step inside a write lock that gives some session new contents.
LEMMA Touch ==
    ASSUME Inv, Witness, NEW t \in All, NEW n \in Jobs, job' = [job EXCEPT ![t] = n],
           JobOK(n), n.op = job[t].op, n.op \in {"extend", "action"}, ~midway(n),
           writes(job[t], "sessions"),
           UNCHANGED <<per_user, issued>>, DOMAIN sessions' = DOMAIN sessions,
           \A x \in DOMAIN sessions : sessions'[x].user_id = sessions[x].user_id,
           \A x \in Ids \ DOMAIN sessions : recorded'[x] = recorded[x] /\ admitted'[x] = admitted[x]
    PROVE  Calls' /\ Fresh' /\ Pointers' /\ UnderLock' /\ Lists'
<1>0. JobOK(n)'
  BY DEF JobOK
<1>1. Calls' /\ job'[t] = n /\ \A p \in All \ {t} : job'[p] = job[p]
  BY <1>0, StepCalls
<1>2. \A p \in All : p # t => ~midway(job[p])
  BY Alone DEF Inv
<1>3. \A p \in All : ~midway(job[p])'
  BY <1>1, <1>2 DEF midway
<1>4. Fresh'
  <2>1. \A p \in All : job'[p].op = "create" => job'[p] = job[p]
    BY <1>1
  <2>2. \A p \in All : making(job[p])' => job'[p] = job[p] /\ making(job[p])
    BY <2>1 DEF making
  <2>3. ASSUME NEW i \in Ids, i \notin issued' \/ \E p \in All : making(job[p])' /\ i \in job'[p].ids
        PROVE  i \notin DOMAIN sessions' /\ recorded'[i] = 0 /\ admitted'[i] = Never
    BY <2>2, <2>3 DEF Inv, Fresh
  <2>4. \A p \in All, u \in Users : making(job[p])' /\ per_user'[u] \in job'[p].ids =>
          job'[p].ip = 5 /\ u = job'[p].user
    BY <2>2 DEF Inv, Fresh
  <2>5. \A p, q \in All : job'[p].op = "create" /\ job'[q].op = "create"
                            /\ job'[p].ids \cap job'[q].ids # {} => p = q
    BY <2>1 DEF Inv, Fresh
  <2>6. \A u \in Users : per_user'[u] # NoId => per_user'[u] \in issued'
    BY DEF Inv, Fresh
  <2> QED BY <2>3, <2>4, <2>5, <2>6 DEF Fresh
<1>5. Pointers'
  <2> SUFFICES ASSUME NEW u \in Users, per_user'[u] # NoId PROVE leads(u)'
    BY DEF Pointers
  <2>1. \A p \in All : ~excused(job[p], u)
    BY <1>2, NotMidway DEF excused
  <2>2. leads(u)
    BY <2>1 DEF Inv, Pointers
  <2> QED BY <2>2 DEF leads
<1>6. UnderLock'
  BY <1>3 DEF UnderLock, relies, midway
<1>7. Lists'
  <2> SUFFICES ASSUME NEW p \in All, job'[p].op = "list" PROVE ListOK(p)'
    BY DEF Lists
  <2>1. job'[p] = job[p] /\ job[p].op = "list"
    BY <1>1
  <2>2. none_for(job[p].user)' => vacant'[p]
    BY Witnessed DEF Inv
  <2>3. vacant[p] => vacant'[p]
    BY <2>1, Witnessed DEF Inv
  <2>4. \A q \in All : ~unpointing(job[q])
    BY <1>2, NotMidway DEF unpointing
  <2>5. ListOK(p)
    BY <2>1 DEF Inv, Lists
  <2> QED BY <2>1, <2>2, <2>3, <2>4, <2>5 DEF ListOK
<1> QED BY <1>1, <1>4, <1>5, <1>6, <1>7

\* The call's next place, with all that Touch asks of it.
LEMMA TouchNext ==
    ASSUME Inv, NEW t \in All, NEW what, doing(t, what),
           \/ at(job[t], "extend", 3) \/ at(job[t], "action", 6) \/ at(job[t], "action", 11)
    PROVE  LET n == next_job(job[t])
           IN  /\ n \in Jobs /\ JobOK(n) /\ n.op = job[t].op /\ n.op \in {"extend", "action"}
               /\ ~midway(n) /\ writes(job[t], "sessions") /\ relies(n) /\ n.ip = job[t].ip + 1
               /\ job[t].ip # Size(job[t].op) /\ settled(job[t]) /\ ~unpointing(job[t])
               /\ the_id(t) \in Ids /\ the_id(t) \in issued /\ job[t].ids = {the_id(t)}
<1>1. job[t].ip # Size(job[t].op)
  BY DEF at, Size, TwoLocks
<1> PICK n \in Jobs : n = next_job(job[t])
  BY <1>1, Onward
<1>2. n.op = job[t].op /\ n.ids = job[t].ids /\ n.user = job[t].user /\ n.ip = job[t].ip + 1
  BY <1>1, Onward
<1>3. ~midway(n) /\ n.op \in {"extend", "action"}
  BY <1>2 DEF at, midway
<1>4. writes(job[t], "sessions") /\ settled(job[t]) /\ ~unpointing(job[t])
  BY DEF at, writes, settled, unpointing, TwoLocks
<1>5. the_id(t) \in issued /\ the_id(t) \in Ids /\ job[t].ids = {the_id(t)}
  BY TheId DEF at, Inv
<1>6. JobOK(n)
  BY <1>2, <1>5 DEF JobOK, at, Size, TwoLocks
<1> QED BY <1>1, <1>2, <1>3, <1>4, <1>5, <1>6, NotMidway

LEMMA ExtendSafe == ASSUME Inv, Witness, NEW t \in All, Extend(t) PROVE Inv'
<1>1. doing(t, "extend") /\ UNCHANGED <<now, per_user, issued, recorded, admitted, crowded>>
  BY DEF Extend
<1>2. at(job[t], "extend", 3)
  BY <1>1, JobOf, Where DEF Inv
<1> PICK n \in Jobs : n = next_job(job[t])
  BY <1>1, <1>2, TouchNext
<1>3. /\ JobOK(n) /\ n.op = job[t].op /\ n.op \in {"extend", "action"} /\ ~midway(n)
      /\ writes(job[t], "sessions") /\ relies(n) /\ n.ip = job[t].ip + 1
      /\ job[t].ip # Size(job[t].op) /\ settled(job[t]) /\ ~unpointing(job[t])
  BY <1>1, <1>2, TouchNext
<1> PICK i \in Ids : i = the_id(t) /\ job[t].ids = {i}
  BY <1>1, <1>2, TouchNext
<1>4. i \in DOMAIN sessions
  BY <1>2 DEF Inv, UnderLock, relies, at
<1>5. CASE sessions' = [sessions EXCEPT ![i].expired = FALSE] /\ Advance(t)
  <2>1. job' = [job EXCEPT ![t] = n] /\ locks' = locks
    BY <1>5 DEF Advance, Inv, Calls
  <2>2. Exclusion'
    <3>1. busy(t) /\ instr(t)[1] = "do"
      BY <1>1, JobOf DEF Inv
    <3> QED BY <1>3, <2>1, <3>1, DoExcludes DEF Inv
  <2>3. /\ DOMAIN sessions' = DOMAIN sessions
        /\ \A x \in DOMAIN sessions \ {i} : sessions'[x] = sessions[x]
        /\ sessions'[i] = [sessions[i] EXCEPT !.expired = FALSE]
    BY <1>4, <1>5
  <2>4. /\ sessions[i] \in Session /\ sessions'[i] \in Session
        /\ sessions'[i].user_id = sessions[i].user_id
        /\ sessions'[i].last_action_at = sessions[i].last_action_at
        /\ sessions'[i].events = sessions[i].events
    <3>1. sessions[i] \in Session
      BY <1>4 DEF Inv, Typed
    <3> QED BY <2>3, <3>1 DEF Session
  <2>5. Typed'
    BY <1>1, <1>5, <2>3, <2>4, Witnessed DEF Inv, Typed
  <2>6. Calls' /\ Fresh' /\ Pointers' /\ UnderLock' /\ Lists'
    BY <1>1, <1>3, <2>1, <2>3, <2>4, Touch
  <2>7. Admissions' /\ Logs'
    BY <1>1, <2>3, <2>4 DEF Inv, Admissions, Logs
  <2> QED BY <2>2, <2>5, <2>6, <2>7 DEF Inv
<1>6. CASE sessions' = sessions /\ Advance(t)
  BY <1>1, <1>2, <1>3, <1>6, AdvanceSafe DEF data, at
<1>7. CASE sessions' = sessions /\ Leave(t)
  BY <1>1, <1>3, <1>7, LeaveSafe DEF data
<1> QED BY <1>5, <1>6, <1>7 DEF Extend

LEMMA StampSafe == ASSUME Inv, Witness, NEW t \in All, Stamp(t) PROVE Inv'
<1>1. doing(t, "stamp") /\ UNCHANGED <<now, per_user, issued, recorded>>
  BY DEF Stamp
<1>2. at(job[t], "action", 6)
  BY <1>1, JobOf, Where DEF Inv
<1> PICK n \in Jobs : n = next_job(job[t])
  BY <1>1, <1>2, TouchNext
<1>3. /\ JobOK(n) /\ n.op = job[t].op /\ n.op \in {"extend", "action"} /\ ~midway(n)
      /\ writes(job[t], "sessions") /\ n.ip = job[t].ip + 1
      /\ job[t].ip # Size(job[t].op) /\ settled(job[t]) /\ ~unpointing(job[t])
  BY <1>1, <1>2, TouchNext
<1> PICK i \in Ids : i = the_id(t) /\ job[t].ids = {i}
  BY <1>1, <1>2, TouchNext
<1>4. CASE ~known(t)
  BY <1>1, <1>3, <1>4, LeaveSafe DEF Stamp, data
<1>5. CASE known(t)
  <2>0. i \in DOMAIN sessions
    BY <1>5 DEF known
  <2>1. /\ sessions' = [sessions EXCEPT ![i].last_action_at = now]
        /\ admitted' = [admitted EXCEPT ![i] = now]
        /\ crowded' = IF admitted[i] # Never /\ now - admitted[i] < ACTION_COOLDOWN
                      THEN crowded \cup {i} ELSE crowded
        /\ job' = [job EXCEPT ![t] = n] /\ locks' = locks
    BY <1>5 DEF Stamp, Advance, Inv, Calls
  <2>2. Exclusion'
    <3>1. busy(t) /\ instr(t)[1] = "do"
      BY <1>1, JobOf DEF Inv
    <3> QED BY <1>3, <2>1, <3>1, DoExcludes DEF Inv
  <2>3. /\ DOMAIN sessions' = DOMAIN sessions
        /\ \A x \in DOMAIN sessions \ {i} : sessions'[x] = sessions[x]
        /\ sessions'[i] = [sessions[i] EXCEPT !.last_action_at = now]
    BY <2>0, <2>1
  <2>4. now \in Times /\ sessions[i] \in Session
    BY <2>0 DEF Inv, Typed
  <2>5. /\ sessions'[i] \in Session
        /\ sessions'[i].user_id = sessions[i].user_id
        /\ sessions'[i].last_action_at = now
        /\ sessions'[i].events = sessions[i].events
    <3> HIDE DEF Times
    <3> QED BY <2>3, <2>4 DEF Session
  <2>6. admitted' \in [Ids -> Times \cup {Never}] /\ admitted'[i] = now
        /\ \A x \in Ids \ {i} : admitted'[x] = admitted[x]
    <3> HIDE DEF Times
    <3> QED BY <2>1, <2>4 DEF Inv, Typed
  <2>7. Typed'
    BY <1>1, <2>1, <2>3, <2>5, <2>6, Witnessed DEF Inv, Typed
  <2>8. Calls' /\ Fresh' /\ Pointers' /\ UnderLock' /\ Lists'
    <3>1. \A x \in Ids \ DOMAIN sessions : recorded'[x] = recorded[x] /\ admitted'[x] = admitted[x]
      BY <1>1, <2>0, <2>6
    <3>2. \A x \in DOMAIN sessions : sessions'[x].user_id = sessions[x].user_id
      BY <2>3, <2>5
    <3> QED BY <1>1, <1>3, <2>1, <2>3, <3>1, <3>2, Touch
  <2>9. crowded' = {}
    <3>1. ~cooling(sessions[i])
      BY <1>2, <2>0 DEF Inv, UnderLock, relies, at
    <3>2. admitted[i] = sessions[i].last_action_at /\ crowded = {}
      BY <2>0 DEF Inv, Admissions
    <3> QED BY <2>1, <3>1, <3>2 DEF cooling
  <2>10. Admissions' /\ Logs'
    <3>1. DOMAIN sessions \subseteq Ids
      BY DEF Inv, Typed
    <3>2. \A x \in DOMAIN sessions' : admitted'[x] = sessions'[x].last_action_at
      BY <2>3, <2>5, <2>6, <3>1 DEF Inv, Admissions
    <3>3. \A x \in DOMAIN sessions' : recent(sessions'[x].events, recorded'[x])
      BY <1>1, <2>3, <2>5 DEF Inv, Logs
    <3> QED BY <2>9, <3>2, <3>3 DEF Admissions, Logs, recent
  <2> QED BY <2>2, <2>7, <2>8, <2>10 DEF Inv
<1> QED BY <1>4, <1>5

\* record(): push, then cut, keeps the newest MAX_EVENTS.
LEMMA CutRecent ==
    ASSUME NEW e \in Seq(Nat), NEW k \in Nat, recent(e, k)
    PROVE  cut(Append(e, k + 1)) \in Seq(Nat) /\ recent(cut(Append(e, k + 1)), k + 1)
<1> DEFINE a == Append(e, k + 1)
           M == MAX_EVENTS
<1>0. M \in Nat
  BY StoreAssumption
<1>1. /\ a \in Seq(Nat) /\ Len(a) = Len(e) + 1 /\ Len(e) \in Nat
      /\ \A x \in 1 .. Len(e) : a[x] = e[x]
      /\ a[Len(e) + 1] = k + 1
  OBVIOUS
<1>2. Len(e) = (IF k < M THEN k ELSE M) /\ \A x \in 1 .. Len(e) : e[x] = k - Len(e) + x
  BY DEF recent
<1> HIDE DEF a
<1>3. \A x \in 1 .. Len(a) : a[x] = k + 1 - Len(a) + x
  <2> TAKE x \in 1 .. Len(a)
  <2>1. CASE x \in 1 .. Len(e)
    BY <1>1, <1>2, <2>1
  <2>2. CASE x = Len(e) + 1
    BY <1>1, <2>2
  <2> QED BY <1>1, <2>1, <2>2
<1> SUFFICES cut(a) \in Seq(Nat) /\ recent(cut(a), k + 1)
  BY DEF a
<1>4. CASE Len(a) > M
  <2> DEFINE c == SubSeq(a, Len(a) - M + 1, Len(a))
  <2>1. cut(a) = c
    BY <1>4 DEF cut
  <2>2. Len(a) = M + 1 /\ Len(a) - M + 1 = 2
    BY <1>0, <1>1, <1>2, <1>4
  <2>3. c \in Seq(Nat) /\ Len(c) = M /\ \A x \in 1 .. M : c[x] = a[1 + x]
    BY <1>0, <1>1, <2>2
  <2>4. \A x \in 1 .. M : c[x] = k + 1 - M + x
    BY <1>0, <1>3, <2>2, <2>3
  <2>5. M = IF k + 1 < M THEN k + 1 ELSE M
    BY <1>0, <1>1, <1>2, <2>2
  <2> HIDE DEF c
  <2>6. DOMAIN c = 1 .. M
    BY <2>3
  <2> QED BY <2>1, <2>3, <2>4, <2>5, <2>6 DEF recent
<1>5. CASE ~(Len(a) > M)
  <2>1. cut(a) = a
    BY <1>5 DEF cut
  <2>2. Len(a) = IF k + 1 < M THEN k + 1 ELSE M
    BY <1>0, <1>1, <1>2, <1>5
  <2>3. DOMAIN a = 1 .. Len(a)
    BY <1>1
  <2> QED BY <1>1, <1>3, <2>1, <2>2, <2>3 DEF recent
<1> QED BY <1>4, <1>5

LEMMA RecordSafe == ASSUME Inv, Witness, NEW t \in All, Record(t) PROVE Inv'
<1>1. doing(t, "record") /\ UNCHANGED <<now, per_user, issued, admitted, crowded>>
  BY DEF Record
<1>2. at(job[t], "action", 11)
  BY <1>1, JobOf, Where DEF Inv
<1> PICK n \in Jobs : n = next_job(job[t])
  BY <1>1, <1>2, TouchNext
<1>3. /\ JobOK(n) /\ n.op = job[t].op /\ n.op \in {"extend", "action"} /\ ~midway(n)
      /\ writes(job[t], "sessions") /\ n.ip = job[t].ip + 1 /\ job[t].ip # Size(job[t].op)
  BY <1>1, <1>2, TouchNext
<1> PICK i \in Ids : i = the_id(t) /\ job[t].ids = {i}
  BY <1>1, <1>2, TouchNext
<1>4. i \in DOMAIN sessions
  BY <1>2 DEF Inv, UnderLock, relies, at
<1> DEFINE e == cut(Append(sessions[i].events, recorded[i] + 1))
<1>5. /\ recorded' = [recorded EXCEPT ![i] = @ + 1]
      /\ sessions' = [sessions EXCEPT ![i].events = e]
      /\ job' = [job EXCEPT ![t] = n] /\ locks' = locks
  BY <1>4 DEF Record, Advance, Inv, Calls, Typed
<1>6. Exclusion'
  <2>1. busy(t) /\ instr(t)[1] = "do"
    BY <1>1, JobOf DEF Inv
  <2> QED BY <1>3, <1>5, <2>1, DoExcludes DEF Inv
<1>7. /\ DOMAIN sessions' = DOMAIN sessions
      /\ \A x \in DOMAIN sessions \ {i} : sessions'[x] = sessions[x]
      /\ sessions'[i] = [sessions[i] EXCEPT !.events = e]
  BY <1>4, <1>5
<1>8. sessions[i] \in Session /\ recorded[i] \in Nat /\ DOMAIN sessions \subseteq Ids
  BY <1>4 DEF Inv, Typed
<1>9. e \in Seq(Nat) /\ recent(e, recorded[i] + 1)
  <2>1. sessions[i].events \in Seq(Nat) /\ recent(sessions[i].events, recorded[i])
    BY <1>4, <1>8 DEF Inv, Logs, Session
  <2> QED BY <1>8, <2>1, CutRecent
<1> HIDE DEF e
<1>10. /\ sessions'[i] \in Session
       /\ sessions'[i].user_id = sessions[i].user_id
       /\ sessions'[i].last_action_at = sessions[i].last_action_at
       /\ sessions'[i].events = e
  BY <1>7, <1>8, <1>9 DEF Session
<1>11. /\ recorded' \in [Ids -> Nat] /\ recorded'[i] = recorded[i] + 1
       /\ \A x \in Ids \ {i} : recorded'[x] = recorded[x]
  BY <1>5, <1>8 DEF Inv, Typed
<1>12. Typed'
  BY <1>1, <1>5, <1>7, <1>10, <1>11, Witnessed DEF Inv, Typed
<1>13. Calls' /\ Fresh' /\ Pointers' /\ UnderLock' /\ Lists'
  <2>1. \A x \in Ids \ DOMAIN sessions : recorded'[x] = recorded[x] /\ admitted'[x] = admitted[x]
    BY <1>1, <1>4, <1>11
  <2>2. \A x \in DOMAIN sessions : sessions'[x].user_id = sessions[x].user_id
    BY <1>7, <1>10
  <2> QED BY <1>1, <1>3, <1>5, <1>7, <2>1, <2>2, Touch
<1>14. Admissions' /\ Logs'
  <2>1. \A x \in DOMAIN sessions' : admitted'[x] = sessions'[x].last_action_at
    BY <1>1, <1>7, <1>10 DEF Inv, Admissions
  <2>2. \A x \in DOMAIN sessions' : recent(sessions'[x].events, recorded'[x])
    BY <1>7, <1>8, <1>9, <1>10, <1>11 DEF Inv, Logs
  <2> QED BY <1>1, <2>1, <2>2 DEF Inv, Admissions, Logs, recent
<1> QED BY <1>6, <1>12, <1>13, <1>14 DEF Inv

\* The lists after a step of t, a writer that is no list itself: what a list had
\* read is still so, or its user was seen without a session.
LEMMA WriterLists ==
    ASSUME Inv, Witness, NEW t \in All, writes(job[t], "sessions"), NEW n \in Jobs,
           job' = [job EXCEPT ![t] = n], n.op = job[t].op,
           unpointing(job[t]) => unpointing(n) /\ per_user' = per_user,
           \A u \in Users :
             \/ per_user'[u] = per_user[u]
             \/ per_user'[u] = NoId /\ unpointing(n)
             \/ none_for(u)
             \/ per_user[u] = NoId /\ ~unpointing(job[t])
    PROVE  Lists'
<1>1. job'[t] = n /\ \A p \in All \ {t} : job'[p] = job[p]
  BY DEF Inv, Calls
<1>2. job[t].op # "list"
  BY DEF writes, TwoLocks
<1> SUFFICES ASSUME NEW p \in All, job'[p].op = "list" PROVE ListOK(p)'
  BY DEF Lists
<1>3. p # t /\ job'[p] = job[p] /\ job[p].op = "list"
  BY <1>1, <1>2
<1>4. none_for(job[p].user)' => vacant'[p]
  BY Witnessed DEF Inv
<1>5. vacant[p] => vacant'[p]
  BY <1>3, Witnessed DEF Inv
<1>6. \A q \in All : q # t => ~unpointing(job[q])
  BY Alone, NotMidway DEF Inv
<1>7. ListOK(p)
  BY <1>3 DEF Inv, Lists
<1> PICK u \in Users : u = job[p].user
  BY <1>3 DEF Inv, Calls, JobOK
<1>8. ASSUME job[p].ip >= 3
      PROVE  \/ vacant'[p] \/ per_user'[u] \in job[p].ids
             \/ per_user'[u] = NoId /\ \E q \in All : unpointing(job[q])'
  <2>1. unpointing(n) => \E q \in All : unpointing(job[q])'
    BY <1>1 DEF unpointing
  <2>2. CASE none_for(u)
    BY <2>2, <1>5, <1>7 DEF ListOK
  <2>3. CASE per_user'[u] = NoId /\ unpointing(n)
    BY <2>1, <2>3
  <2>4. CASE per_user'[u] = per_user[u]
    <3>1. \/ vacant[p] \/ per_user[u] \in job[p].ids
          \/ per_user[u] = NoId /\ \E q \in All : unpointing(job[q])
      BY <1>7, <1>8 DEF ListOK
    <3> QED BY <3>1, <2>1, <2>4, <1>5, <1>6
  <2>5. CASE per_user[u] = NoId /\ ~unpointing(job[t])
    <3>1. per_user[u] \notin job[p].ids
      BY <1>3, <1>8, <2>5, StoreAssumption DEF Inv, Calls, JobOK
    <3> QED BY <3>1, <2>5, <1>5, <1>6, <1>7, <1>8 DEF ListOK
  <2> QED BY <2>2, <2>3, <2>4, <2>5
<1> QED BY <1>3, <1>4, <1>5, <1>7, <1>8 DEF ListOK

LEMMA PointSafe == ASSUME Inv, Witness, NEW t \in All, Point(t) PROVE Inv'
<1>1. doing(t, "point") /\ UNCHANGED <<now, sessions, issued, recorded, admitted, crowded>>
  BY DEF Point
<1>2. job[t].op = "create" /\ job[t].ip = 4 /\ job[t].ip # Size(job[t].op)
  BY <1>1, JobOf, Where DEF Inv, at, Size, TwoLocks
<1> PICK n \in Jobs : n = next_job(job[t])
  BY <1>1, <1>2, Onward
<1> PICK i \in Ids : i = the_id(t) /\ job[t].ids = {i} /\ i \in issued
  BY <1>2, TheId DEF Inv
<1> PICK u \in Users : u = job[t].user
  BY <1>2 DEF Inv, Calls, JobOK
<1>3. n.op = "create" /\ n.user = u /\ n.ids = {i} /\ n.ip = 5
  BY <1>1, <1>2, Onward
<1>4. per_user' = [per_user EXCEPT ![u] = i] /\ job' = [job EXCEPT ![t] = n] /\ locks' = locks
  BY DEF Point, Advance, Inv, Calls
<1>5. /\ per_user' \in [Users -> Ids \cup {NoId}] /\ per_user'[u] = i
      /\ \A v \in Users \ {u} : per_user'[v] = per_user[v]
  BY <1>4 DEF Inv, Typed
<1>6. writes(job[t], "sessions")
  BY <1>2 DEF writes, TwoLocks
<1>7. \A p \in All : p # t => ~midway(job[p])
  BY <1>6, Alone DEF Inv
<1>8. \A v \in Users : ~excused(job[t], v)
  BY <1>2 DEF excused
<1>9. \A v \in Users : per_user[v] # NoId => leads(v)
  BY <1>7, <1>8, NotMidway DEF Inv, Pointers
<1>10. Exclusion'
  <2>1. busy(t) /\ instr(t)[1] = "do"
    BY <1>1, JobOf DEF Inv
  <2>2. n.op = job[t].op /\ n.ip = job[t].ip + 1
    BY <1>2, <1>3
  <2> QED BY <1>2, <1>4, <2>1, <2>2, DoExcludes DEF Inv
<1>11. Typed'
  BY <1>1, <1>5, Witnessed DEF Inv, Typed
<1>12. Calls' /\ job'[t] = n /\ \A p \in All \ {t} : job'[p] = job[p]
  <2>1. JobOK(n)'
    BY <1>1, <1>3 DEF JobOK, Size, TwoLocks
  <2> QED BY <1>1, <1>4, <2>1, StepCalls
<1>13. Fresh'
  <2>1. \A p \in All : job'[p].op = "create" =>
          job[p].op = "create" /\ job'[p].ids = job[p].ids /\ (making(job[p])' => making(job[p]))
    BY <1>2, <1>3, <1>12 DEF making
  <2>2. ASSUME NEW x \in Ids, x \notin issued' \/ \E p \in All : making(job[p])' /\ x \in job'[p].ids
        PROVE  x \notin DOMAIN sessions' /\ recorded'[x] = 0 /\ admitted'[x] = Never
    BY <1>1, <2>1, <2>2 DEF Inv, Fresh, making
  <2>3. \A v \in Users : per_user'[v] # NoId => per_user'[v] \in issued'
    BY <1>1, <1>5 DEF Inv, Fresh
  <2>4. ASSUME NEW p \in All, NEW v \in Users, making(job[p])', per_user'[v] \in job'[p].ids
        PROVE  job'[p].ip = 5 /\ v = job'[p].user
    <3>1. CASE p = t
      <4>1. making(job[t])
        BY <1>2 DEF making
      <4>2. per_user[v] # i
        BY <1>2, <4>1 DEF Inv, Fresh
      <4> QED BY <1>3, <1>5, <1>12, <2>4, <3>1, <4>2
    <3>2. CASE p # t
      <4>1. making(job[p]) /\ job'[p] = job[p] /\ job[p].op = "create"
        BY <1>12, <2>4, <3>2 DEF making
      <4>2. i \notin job[p].ids
        BY <1>2, <3>2, <4>1 DEF Inv, Fresh
      <4> QED BY <1>5, <2>4, <4>1, <4>2 DEF Inv, Fresh
    <3> QED BY <3>1, <3>2
  <2>5. \A p, q \in All : job'[p].op = "create" /\ job'[q].op = "create"
                            /\ job'[p].ids \cap job'[q].ids # {} => p = q
    BY <2>1 DEF Inv, Fresh
  <2> QED BY <2>2, <2>3, <2>4, <2>5 DEF Fresh
<1>14. Pointers'
  <2> SUFFICES ASSUME NEW v \in Users, per_user'[v] # NoId
               PROVE  leads(v)' \/ \E p \in All : excused(job[p], v)'
    BY DEF Pointers
  <2>1. CASE v = u
    BY <1>3, <1>5, <1>12, <2>1 DEF excused
  <2>2. CASE v # u
    BY <1>1, <1>5, <1>9, <2>2 DEF leads
  <2> QED BY <2>1, <2>2
<1>15. UnderLock'
  <2>1. relies(job[t])'
    BY <1>3, <1>5, <1>12 DEF relies
  <2>2. \A p \in All : p # t => relies(job[p])'
    BY <1>7, <1>12 DEF relies, midway
  <2> QED BY <2>1, <2>2 DEF UnderLock
<1>16. Admissions' /\ Logs'
  BY <1>1 DEF Inv, Admissions, Logs
<1>17. Lists'
  <2>1. per_user[u] # NoId => none_for(u)
    BY <1>2, <1>9 DEF Inv, UnderLock, relies, holds_live, leads, none_for
  <2>2. ~unpointing(job[t]) /\ n.op = job[t].op
    BY <1>2, <1>3 DEF unpointing
  <2>3. ASSUME NEW v \in Users
        PROVE  \/ per_user'[v] = per_user[v]
               \/ per_user'[v] = NoId /\ unpointing(n)
               \/ none_for(v)
               \/ per_user[v] = NoId /\ ~unpointing(job[t])
    <3>1. CASE v = u
      BY <2>1, <2>2, <3>1
    <3>2. CASE v # u
      BY <1>5, <3>2
    <3> QED BY <3>1, <3>2
  <2> QED BY <1>4, <1>6, <2>2, <2>3, WriterLists
<1> QED BY <1>10, <1>11, <1>12, <1>13, <1>14, <1>15, <1>16, <1>17 DEF Inv

LEMMA InsertSafe == ASSUME Inv, Witness, NEW t \in All, Insert(t) PROVE Inv'
<1>1. doing(t, "insert") /\ UNCHANGED <<now, per_user, issued, recorded, admitted, crowded>>
  BY DEF Insert
<1>2. job[t].op = "create" /\ job[t].ip = 5 /\ job[t].ip # Size(job[t].op)
  BY <1>1, JobOf, Where DEF Inv, at, Size, TwoLocks
<1> PICK n \in Jobs : n = next_job(job[t])
  BY <1>1, <1>2, Onward
<1> PICK i \in Ids : i = the_id(t) /\ job[t].ids = {i} /\ i \in issued
  BY <1>2, TheId DEF Inv
<1> PICK u \in Users : u = job[t].user
  BY <1>2 DEF Inv, Calls, JobOK
<1>3. n.op = "create" /\ n.user = u /\ n.ids = {i} /\ n.ip = 6
  BY <1>1, <1>2, Onward
<1>4. job' = [job EXCEPT ![t] = n] /\ locks' = locks
  BY DEF Insert, Advance, Inv, Calls
<1>5. /\ DOMAIN sessions' = DOMAIN sessions \cup {i}
      /\ sessions'[i] = new_session(u)
      /\ \A x \in DOMAIN sessions \ {i} : sessions'[x] = sessions[x]
      /\ sessions' = [x \in DOMAIN sessions' |-> sessions'[x]]
  BY DEF Insert
<1>6. writes(job[t], "sessions")
  BY <1>2 DEF writes, TwoLocks
<1>7. \A p \in All : p # t => ~midway(job[p])
  BY <1>6, Alone DEF Inv
<1>8. /\ i \notin DOMAIN sessions /\ recorded[i] = 0 /\ admitted[i] = Never
      /\ per_user[u] = i
  BY <1>2 DEF Inv, Fresh, making, UnderLock, relies
<1>9. /\ new_session(u) \in Session /\ new_session(u).user_id = u
      /\ new_session(u).last_action_at = Never /\ new_session(u).events = << >>
  BY DEF new_session, Session
<1>10. Exclusion'
  <2>1. busy(t) /\ instr(t)[1] = "do"
    BY <1>1, JobOf DEF Inv
  <2>2. n.op = job[t].op /\ n.ip = job[t].ip + 1
    BY <1>2, <1>3
  <2> QED BY <1>2, <1>4, <2>1, <2>2, DoExcludes DEF Inv
<1>11. Typed'
  <2>1. \A x \in DOMAIN sessions' : sessions'[x] \in Session
    BY <1>5, <1>9 DEF Inv, Typed
  <2>2. sessions' \in [DOMAIN sessions' -> Session]
    BY <1>5, <2>1
  <2> QED BY <1>1, <1>5, <2>2, Witnessed DEF Inv, Typed
<1>12. Calls' /\ job'[t] = n /\ \A p \in All \ {t} : job'[p] = job[p]
  <2>1. JobOK(n)'
    BY <1>1, <1>3 DEF JobOK, Size, TwoLocks
  <2> QED BY <1>1, <1>4, <2>1, StepCalls
<1>13. Fresh'
  <2>1. \A p \in All : making(job[p])' => p # t /\ job'[p] = job[p] /\ making(job[p])
    BY <1>3, <1>12 DEF making
  <2>2. ASSUME NEW x \in Ids, x \notin issued' \/ \E p \in All : making(job[p])' /\ x \in job'[p].ids
        PROVE  x \notin DOMAIN sessions' /\ recorded'[x] = 0 /\ admitted'[x] = Never
    <3>1. x # i
      <4>1. CASE x \notin issued'
        BY <4>1, <1>1
      <4>2. CASE \E p \in All : making(job[p])' /\ x \in job'[p].ids
        BY <4>2, <1>2, <2>1 DEF Inv, Fresh, making
      <4> QED BY <2>2, <4>1, <4>2
    <3> QED BY <1>1, <1>5, <2>1, <2>2, <3>1 DEF Inv, Fresh
  <2>3. \A v \in Users : per_user'[v] # NoId => per_user'[v] \in issued'
    BY <1>1 DEF Inv, Fresh
  <2>4. \A p \in All, v \in Users : making(job[p])' /\ per_user'[v] \in job'[p].ids =>
          job'[p].ip = 5 /\ v = job'[p].user
    BY <1>1, <2>1 DEF Inv, Fresh
  <2>5. \A p \in All : job'[p].op = "create" => job[p].op = "create" /\ job'[p].ids = job[p].ids
    BY <1>2, <1>3, <1>12
  <2>6. \A p, q \in All : job'[p].op = "create" /\ job'[q].op = "create"
                            /\ job'[p].ids \cap job'[q].ids # {} => p = q
    BY <2>5 DEF Inv, Fresh
  <2> QED BY <2>2, <2>3, <2>4, <2>6 DEF Fresh
<1>14. Pointers'
  <2> SUFFICES ASSUME NEW v \in Users, per_user'[v] # NoId PROVE leads(v)'
    BY DEF Pointers
  <2>1. CASE v = u
    BY <1>1, <1>5, <1>8, <1>9, <2>1 DEF leads
  <2>2. CASE v # u
    <3>1. \A p \in All : ~excused(job[p], v)
      <4>1. ~excused(job[t], v)
        BY <1>2, <2>2 DEF excused
      <4> QED BY <4>1, <1>7, NotMidway
    <3>2. leads(v)
      BY <1>1, <3>1 DEF Inv, Pointers
    <3> QED BY <1>1, <1>5, <1>8, <3>2 DEF leads
  <2> QED BY <2>1, <2>2
<1>15. UnderLock'
  <2>1. relies(job[t])'
    BY <1>3, <1>12 DEF relies
  <2>2. \A p \in All : p # t => relies(job[p])'
    BY <1>7, <1>12 DEF relies, midway
  <2> QED BY <2>1, <2>2 DEF UnderLock
<1>16. Admissions' /\ Logs'
  <2>1. recent(<< >>, 0)
    BY StoreAssumption DEF recent
  <2>2. \A x \in DOMAIN sessions' : admitted'[x] = sessions'[x].last_action_at
    BY <1>1, <1>5, <1>8, <1>9 DEF Inv, Admissions
  <2>3. \A x \in DOMAIN sessions' : recent(sessions'[x].events, recorded'[x])
    BY <1>1, <1>5, <1>8, <1>9, <2>1 DEF Inv, Logs
  <2> QED BY <1>1, <2>2, <2>3 DEF Inv, Admissions, Logs, recent
<1>17. Lists'
  <2>1. ~unpointing(job[t]) /\ n.op = job[t].op
    BY <1>2, <1>3 DEF unpointing
  <2> QED BY <1>1, <1>4, <1>6, <2>1, WriterLists
<1> QED BY <1>10, <1>11, <1>12, <1>13, <1>14, <1>15, <1>16, <1>17 DEF Inv

\* What unpoint and remove have in common.
LEMMA TakingAway ==
    ASSUME Inv, NEW t \in All, NEW what \in {"unpoint", "remove"}, doing(t, what)
    PROVE  LET n == next_job(job[t])
           IN  /\ n \in Jobs /\ n.op = job[t].op /\ n.op \in {"end", "sweep"} /\ n.ids = job[t].ids
               /\ n.ip = job[t].ip + 1 /\ job[t].ip # Size(job[t].op)
               /\ JobOK(n) /\ writes(job[t], "sessions") /\ job[t].ids \subseteq Ids
               /\ busy(t) /\ instr(t)[1] = "do"
<1>1. \/ at(job[t], "end", 4) \/ at(job[t], "sweep", 5)
      \/ at(job[t], "end", 5) \/ at(job[t], "sweep", 4)
  BY JobOf, Where DEF Inv
<1>2. job[t].ip # Size(job[t].op) /\ writes(job[t], "sessions") /\ job[t].op \in {"end", "sweep"}
  BY <1>1 DEF at, Size, TwoLocks, writes
<1> PICK n \in Jobs : n = next_job(job[t])
  BY <1>2, Onward
<1>3. n.op = job[t].op /\ n.ids = job[t].ids /\ n.user = job[t].user /\ n.ip = job[t].ip + 1
  BY <1>2, Onward
<1>4. job[t] \in Jobs /\ JobOK(job[t]) /\ busy(t) /\ instr(t)[1] = "do"
  BY JobOf DEF Inv
<1>5. JobOK(n)
  BY <1>1, <1>3, <1>4 DEF JobOK, at, Size, TwoLocks
<1>6. job[t].ids \subseteq Ids
  BY <1>4 DEF Jobs
<1> QED BY <1>2, <1>3, <1>4, <1>5, <1>6

\* The ids being drawn are not touched by a step of a call that only takes away.
LEMMA FreshAway ==
    ASSUME Inv, NEW t \in All, NEW n \in Jobs, job' = [job EXCEPT ![t] = n],
           n.op = job[t].op, n.op # "create", UNCHANGED <<issued, recorded, admitted>>,
           DOMAIN sessions' \subseteq DOMAIN sessions,
           \A u \in Users : per_user'[u] = per_user[u] \/ per_user'[u] = NoId
    PROVE  Fresh'
<1>0. job'[t] = n /\ \A p \in All \ {t} : job'[p] = job[p]
  BY DEF Inv, Calls
<1>1. \A p \in All : job'[p].op = "create" => job'[p] = job[p]
  BY <1>0
<1>2. \A p \in All : making(job[p])' => job'[p] = job[p] /\ making(job[p]) /\ job[p].op = "create"
  BY <1>1 DEF making
<1>3. ASSUME NEW i \in Ids, i \notin issued' \/ \E p \in All : making(job[p])' /\ i \in job'[p].ids
      PROVE  i \notin DOMAIN sessions' /\ recorded'[i] = 0 /\ admitted'[i] = Never
  BY <1>2, <1>3 DEF Inv, Fresh
<1>4. ASSUME NEW p \in All, NEW u \in Users, making(job[p])', per_user'[u] \in job'[p].ids
      PROVE  job'[p].ip = 5 /\ u = job'[p].user
  <2>1. per_user'[u] # NoId
    BY <1>2, <1>4, StoreAssumption DEF Inv, Calls, Jobs
  <2> QED BY <1>2, <1>4, <2>1 DEF Inv, Fresh
<1>5. \A p, q \in All : job'[p].op = "create" /\ job'[q].op = "create"
                          /\ job'[p].ids \cap job'[q].ids # {} => p = q
  BY <1>1 DEF Inv, Fresh
<1>6. \A u \in Users : per_user'[u] # NoId => per_user'[u] \in issued'
  BY DEF Inv, Fresh
<1> QED BY <1>3, <1>4, <1>5, <1>6 DEF Fresh

LEMMA UnpointSafe == ASSUME Inv, Witness, NEW t \in All, Unpoint(t) PROVE Inv'
<1>1. doing(t, "unpoint") /\ UNCHANGED <<now, sessions, issued, recorded, admitted, crowded>>
  BY DEF Unpoint
<1>2. at(job[t], "end", 4) \/ at(job[t], "sweep", 5)
  BY <1>1, JobOf, Where DEF Inv
<1> PICK n \in Jobs : n = next_job(job[t])
  BY <1>1, TakingAway
<1>3. /\ n.op = job[t].op /\ n.op \in {"end", "sweep"} /\ n.ids = job[t].ids
      /\ n.ip = job[t].ip + 1 /\ job[t].ip # Size(job[t].op) /\ JobOK(n)
      /\ writes(job[t], "sessions") /\ job[t].ids \subseteq Ids /\ busy(t) /\ instr(t)[1] = "do"
  BY <1>1, TakingAway
<1>4. job' = [job EXCEPT ![t] = n] /\ locks' = locks
  BY DEF Unpoint, Advance, Inv, Calls
<1>5. /\ per_user' \in [Users -> Ids \cup {NoId}]
      /\ \A u \in Users : per_user'[u] = IF per_user[u] \in job[t].ids THEN NoId ELSE per_user[u]
  BY DEF Unpoint, Inv, Typed
<1>6. \A p \in All : p # t => ~midway(job[p])
  BY <1>3, Alone DEF Inv
<1>7. unpointing(n) /\ ~unpointing(job[t])
  BY <1>2, <1>3 DEF unpointing, at
<1>8. Exclusion'
  BY <1>3, <1>4, DoExcludes DEF Inv
<1>9. Typed'
  BY <1>1, <1>5, Witnessed DEF Inv, Typed
<1>10. Calls' /\ job'[t] = n /\ \A p \in All \ {t} : job'[p] = job[p]
  <2>1. JobOK(n)'
    BY <1>1, <1>3 DEF JobOK
  <2> QED BY <1>1, <1>4, <2>1, StepCalls
<1>11. Fresh'
  BY <1>1, <1>3, <1>4, <1>5, FreshAway
<1>12. Pointers'
  <2> SUFFICES ASSUME NEW u \in Users, per_user'[u] # NoId PROVE leads(u)'
    BY DEF Pointers
  <2>1. per_user[u] \notin job[t].ids /\ per_user'[u] = per_user[u]
    BY <1>5
  <2>2. \A p \in All : ~excused(job[p], u)
    <3>1. ~excused(job[t], u)
      BY <2>1 DEF excused
    <3> QED BY <3>1, <1>6, NotMidway
  <2>3. leads(u)
    BY <2>1, <2>2 DEF Inv, Pointers
  <2> QED BY <1>1, <2>1, <2>3 DEF leads
<1>13. UnderLock'
  <2>1. \A u \in Users : per_user'[u] \notin n.ids
    BY <1>3, <1>5, StoreAssumption
  <2>2. relies(job[t])'
    BY <1>2, <1>3, <1>10, <2>1 DEF relies, at
  <2>3. \A p \in All : p # t => relies(job[p])'
    BY <1>6, <1>10 DEF relies, midway
  <2> QED BY <2>2, <2>3 DEF UnderLock
<1>14. Admissions' /\ Logs'
  BY <1>1 DEF Inv, Admissions, Logs
<1>15. Lists'
  BY <1>3, <1>4, <1>5, <1>7, WriterLists
<1> QED BY <1>8, <1>9, <1>10, <1>11, <1>12, <1>13, <1>14, <1>15 DEF Inv

LEMMA RemoveSafe == ASSUME Inv, Witness, NEW t \in All, Remove(t) PROVE Inv'
<1>1. doing(t, "remove") /\ UNCHANGED <<now, per_user, issued, recorded, admitted, crowded>>
  BY DEF Remove
<1>2. at(job[t], "end", 5) \/ at(job[t], "sweep", 4)
  BY <1>1, JobOf, Where DEF Inv
<1> PICK n \in Jobs : n = next_job(job[t])
  BY <1>1, TakingAway
<1>3. /\ n.op = job[t].op /\ n.op \in {"end", "sweep"} /\ n.ids = job[t].ids
      /\ n.ip = job[t].ip + 1 /\ job[t].ip # Size(job[t].op) /\ JobOK(n)
      /\ writes(job[t], "sessions") /\ job[t].ids \subseteq Ids /\ busy(t) /\ instr(t)[1] = "do"
  BY <1>1, TakingAway
<1>4. job' = [job EXCEPT ![t] = n] /\ locks' = locks
  BY DEF Remove, Advance, Inv, Calls
<1>5. /\ DOMAIN sessions' = DOMAIN sessions \ job[t].ids
      /\ \A x \in DOMAIN sessions' : sessions'[x] = sessions[x]
      /\ sessions' = [x \in DOMAIN sessions' |-> sessions'[x]]
  BY DEF Remove
<1>6. \A p \in All : p # t => ~midway(job[p])
  BY <1>3, Alone DEF Inv
<1>7. unpointing(job[t]) => unpointing(n)
  BY <1>2, <1>3 DEF unpointing, at
<1>8. Exclusion'
  BY <1>3, <1>4, DoExcludes DEF Inv
<1>9. Typed'
  <2>1. \A x \in DOMAIN sessions' : sessions'[x] \in Session
    BY <1>5 DEF Inv, Typed
  <2>2. sessions' \in [DOMAIN sessions' -> Session]
    BY <1>5, <2>1
  <2> QED BY <1>1, <1>5, <2>2, Witnessed DEF Inv, Typed
<1>10. Calls' /\ job'[t] = n /\ \A p \in All \ {t} : job'[p] = job[p]
  <2>1. JobOK(n)'
    BY <1>1, <1>3 DEF JobOK
  <2> QED BY <1>1, <1>4, <2>1, StepCalls
<1>11. Fresh'
  BY <1>1, <1>3, <1>4, <1>5, FreshAway
<1>12. Pointers'
  <2> SUFFICES ASSUME NEW u \in Users, per_user'[u] # NoId
               PROVE  leads(u)' \/ \E p \in All : excused(job[p], u)'
    BY DEF Pointers
  <2>1. leads(u)
    <3>1. ~excused(job[t], u)
      BY <1>2 DEF excused, at
    <3> QED BY <3>1, <1>1, <1>6, NotMidway DEF Inv, Pointers
  <2>2. CASE per_user[u] \in job[t].ids
    <3>1. at(job[t], "sweep", 4)
      BY <1>2, <2>2 DEF Inv, UnderLock, relies, at
    <3> QED BY <1>1, <1>3, <1>10, <2>2, <3>1 DEF excused, at
  <2>3. CASE per_user[u] \notin job[t].ids
    BY <1>1, <1>5, <2>1, <2>3 DEF leads
  <2> QED BY <2>2, <2>3
<1>13. UnderLock'
  <2>1. n.ids \cap DOMAIN sessions' = {}
    BY <1>3, <1>5
  <2>2. relies(job[t])'
    BY <1>2, <1>3, <1>10, <2>1 DEF relies, at
  <2>3. \A p \in All : p # t => relies(job[p])'
    BY <1>6, <1>10 DEF relies, midway
  <2> QED BY <2>2, <2>3 DEF UnderLock
<1>14. Admissions' /\ Logs'
  BY <1>1, <1>5 DEF Inv, Admissions, Logs
<1>15. Lists'
  BY <1>1, <1>3, <1>4, <1>7, WriterLists
<1> QED BY <1>8, <1>9, <1>10, <1>11, <1>12, <1>13, <1>14, <1>15 DEF Inv

-----------------------------------------------------------------------------
(* New sessions, deadlines and time                                         *)

LEMMA CreateCallSafe ==
    ASSUME Inv, load \in Loads, Witness, NEW t \in All, NEW u \in Users, CallCreate(t, u)
    PROVE  Inv'
<1>0. load.ids \subseteq Ids
  BY StoreAssumption
<1>1. PICK i \in Ids : /\ i \notin issued /\ issued' = issued \cup {i}
                       /\ Call(t, Begin("create", u, {i}))
  BY <1>0 DEF CallCreate
<1> PICK n \in Jobs : n = Begin("create", u, {i})
  BY BeginJob DEF Ops
<1>2. n.op = "create" /\ n.user = u /\ n.ids = {i} /\ n.ip = 1 /\ n.answer = "pending"
  BY BeginJob DEF Ops
<1>3. /\ job' = [job EXCEPT ![t] = n] /\ ~busy(t)
      /\ UNCHANGED <<now, sessions, per_user, locks, recorded, admitted, crowded>>
  BY <1>1 DEF Call
<1>4. job[t].op = "idle"
  BY <1>3 DEF busy
<1>5. Exclusion'
  BY <1>2, <1>3, BeginExcludes DEF Inv
<1>6. Typed'
  BY <1>1, <1>3, Witnessed DEF Inv, Typed
<1>7. Calls' /\ job'[t] = n /\ \A p \in All \ {t} : job'[p] = job[p]
  <2>1. JobOK(n)'
    BY <1>1, <1>2 DEF JobOK, Size, TwoLocks
  <2> QED BY <1>1, <1>3, <2>1, StepCalls
<1>8. \A p \in All : job[p].op \in {"create", "end", "extend", "action"} => i \notin job[p].ids
  BY <1>1 DEF Inv, Calls, JobOK
<1>9. Fresh'
  <2>1. ASSUME NEW x \in Ids, x \notin issued' \/ \E p \in All : making(job[p])' /\ x \in job'[p].ids
        PROVE  x \notin DOMAIN sessions' /\ recorded'[x] = 0 /\ admitted'[x] = Never
    <3>1. x = i \/ x \notin issued \/ \E p \in All : making(job[p]) /\ x \in job[p].ids
      BY <1>1, <1>2, <1>7, <2>1 DEF making
    <3> QED BY <1>1, <1>3, <3>1 DEF Inv, Fresh
  <2>2. \A v \in Users : per_user'[v] # NoId => per_user'[v] \in issued'
    BY <1>1, <1>3 DEF Inv, Fresh
  <2>3. ASSUME NEW p \in All, NEW v \in Users, making(job[p])', per_user'[v] \in job'[p].ids
        PROVE  job'[p].ip = 5 /\ v = job'[p].user
    <3>1. CASE p = t
      <4>1. per_user[v] = i
        BY <1>2, <1>3, <1>7, <2>3, <3>1
      <4> QED BY <1>1, <4>1, StoreAssumption DEF Inv, Fresh
    <3>2. CASE p # t
      BY <1>3, <1>7, <2>3, <3>2 DEF Inv, Fresh, making
    <3> QED BY <3>1, <3>2
  <2>4. \A p, q \in All : job'[p].op = "create" /\ job'[q].op = "create"
                            /\ job'[p].ids \cap job'[q].ids # {} => p = q
    <3> SUFFICES ASSUME NEW p \in All, NEW q \in All, job'[p].op = "create", job'[q].op = "create",
                        NEW x \in job'[p].ids, x \in job'[q].ids, p # q
                 PROVE  FALSE
      OBVIOUS
    <3>1. CASE p # t /\ q # t
      BY <1>7, <3>1 DEF Inv, Fresh
    <3>2. CASE p = t \/ q = t
      BY <1>2, <1>7, <1>8, <3>2
    <3> QED BY <3>1, <3>2
  <2> QED BY <2>1, <2>2, <2>3, <2>4 DEF Fresh
<1>10. Pointers'
  <2> SUFFICES ASSUME NEW v \in Users, per_user'[v] # NoId
               PROVE  leads(v)' \/ \E p \in All : excused(job[p], v)'
    BY DEF Pointers
  <2>1. ~excused(job[t], v)
    BY <1>4 DEF excused
  <2>2. \A p \in All : excused(job[p], v) => excused(job[p], v)'
    BY <1>3, <1>7, <2>1 DEF excused
  <2> QED BY <1>3, <2>2 DEF Inv, Pointers, leads
<1>11. UnderLock'
  <2>1. relies(job[t])'
    BY <1>2, <1>7 DEF relies
  <2>2. \A p \in All : p # t => relies(job[p])'
    BY <1>3, <1>7 DEF Inv, UnderLock, relies, holds_live, cooling
  <2> QED BY <2>1, <2>2 DEF UnderLock
<1>12. Admissions' /\ Logs'
  BY <1>3 DEF Inv, Admissions, Logs
<1>13. Lists'
  <2> SUFFICES ASSUME NEW p \in All, job'[p].op = "list" PROVE ListOK(p)'
    BY DEF Lists
  <2>1. p # t /\ job'[p] = job[p]
    BY <1>2, <1>7
  <2>2. none_for(job[p].user)' => vacant'[p]
    BY Witnessed DEF Inv
  <2>3. vacant[p] => vacant'[p]
    BY <2>1, Witnessed DEF Inv
  <2>4. \A q \in All : unpointing(job[q]) => unpointing(job[q])'
    BY <1>4, <1>7 DEF unpointing
  <2> QED BY <1>3, <2>1, <2>2, <2>3, <2>4 DEF Inv, Lists, ListOK
<1> QED BY <1>5, <1>6, <1>7, <1>9, <1>10, <1>11, <1>12, <1>13 DEF Inv

LEMMA ExpireSafe == ASSUME Inv, Witness, NEW i \in Ids, Expire(i) PROVE Inv'
<1>1. /\ i \in DOMAIN sessions
      /\ sessions' = [sessions EXCEPT ![i].expired = TRUE]
      /\ UNCHANGED <<now, per_user, issued, locks, job, recorded, admitted, crowded>>
  BY DEF Expire
<1>2. /\ DOMAIN sessions' = DOMAIN sessions
      /\ \A x \in DOMAIN sessions \ {i} : sessions'[x] = sessions[x]
      /\ sessions'[i] = [sessions[i] EXCEPT !.expired = TRUE]
  BY <1>1
<1>3. sessions[i] \in Session
  BY <1>1 DEF Inv, Typed
<1>4. /\ sessions'[i] \in Session
      /\ sessions'[i].user_id = sessions[i].user_id
      /\ sessions'[i].last_action_at = sessions[i].last_action_at
      /\ sessions'[i].events = sessions[i].events
      /\ sessions'[i].expired
  BY <1>2, <1>3 DEF Session
<1>5. Typed'
  BY <1>1, <1>2, <1>4, Witnessed DEF Inv, Typed
<1>6. Calls'
  BY <1>1 DEF Inv, Calls, JobOK
<1>7. Exclusion'
  BY <1>1 DEF Inv, Exclusion, LockOK
<1>8. Fresh'
  BY <1>1, <1>2 DEF Inv, Fresh, making
<1>9. Pointers'
  BY <1>1, <1>2, <1>4 DEF Inv, Pointers, leads, excused
<1>10. UnderLock'
  <2> SUFFICES ASSUME NEW t \in All PROVE relies(job[t])'
    BY DEF UnderLock
  <2>1. relies(job[t])
    BY DEF Inv, UnderLock
  <2>2. ~holds_live(job[t].user) => ~holds_live(job[t].user)'
    BY <1>1, <1>2, <1>4 DEF holds_live
  <2>3. \A x \in DOMAIN sessions : cooling(sessions[x])' => cooling(sessions[x])
    BY <1>1, <1>2, <1>4 DEF cooling
  <2> QED BY <1>1, <1>2, <2>1, <2>2, <2>3 DEF relies
<1>11. Admissions' /\ Logs'
  BY <1>1, <1>2, <1>4 DEF Inv, Admissions, Logs
<1>12. Lists'
  <2> SUFFICES ASSUME NEW p \in All, job'[p].op = "list" PROVE ListOK(p)'
    BY DEF Lists
  <2>1. none_for(job[p].user)' => vacant'[p]
    BY Witnessed DEF Inv
  <2>2. vacant[p] => vacant'[p]
    BY <1>1, Witnessed DEF Inv
  <2> QED BY <1>1, <2>1, <2>2 DEF Inv, Lists, ListOK, unpointing
<1> QED BY <1>5, <1>6, <1>7, <1>8, <1>9, <1>10, <1>11, <1>12 DEF Inv

LEMMA TickSafe == ASSUME Inv, Witness, Tick PROVE Inv'
<1>1. /\ now < Horizon /\ now' = now + 1
      /\ UNCHANGED <<sessions, per_user, issued, locks, job, recorded, admitted, crowded>>
  BY DEF Tick
<1>2. now' \in Times
  BY <1>1, StoreAssumption DEF Inv, Typed, Times
<1>3. Typed'
  <2> HIDE DEF Times
  <2>1. Times' = Times
    BY DEF Times
  <2> QED BY <1>1, <1>2, Witnessed DEF Inv, Typed
<1>4. Calls' /\ Exclusion'
  BY <1>1 DEF Inv, Calls, JobOK, Exclusion, LockOK
<1>5. Fresh' /\ Pointers'
  BY <1>1 DEF Inv, Fresh, making, Pointers, leads, excused
<1>6. UnderLock'
  <2> SUFFICES ASSUME NEW t \in All PROVE relies(job[t])'
    BY DEF UnderLock
  <2>1. relies(job[t])
    BY DEF Inv, UnderLock
  <2>2. ASSUME NEW x \in DOMAIN sessions, ~cooling(sessions[x])
        PROVE  ~cooling(sessions[x])'
    <3>1. sessions[x] \in Session
      BY DEF Inv, Typed
    <3>2. sessions[x].last_action_at \in Times \cup {Never}
      BY <3>1 DEF Session
    <3> QED BY <1>1, <2>2, <3>2, StoreAssumption DEF cooling, Times, Inv, Typed
  <2> QED BY <1>1, <2>1, <2>2 DEF relies, holds_live
<1>7. Admissions' /\ Logs'
  BY <1>1 DEF Inv, Admissions, Logs
<1>8. Lists'
  <2> SUFFICES ASSUME NEW p \in All, job'[p].op = "list" PROVE ListOK(p)'
    BY DEF Lists
  <2>1. none_for(job[p].user)' => vacant'[p]
    BY Witnessed DEF Inv
  <2>2. vacant[p] => vacant'[p]
    BY <1>1, Witnessed DEF Inv
  <2> QED BY <1>1, <2>1, <2>2 DEF Inv, Lists, ListOK, unpointing
<1> QED BY <1>3, <1>4, <1>5, <1>6, <1>7, <1>8 DEF Inv

LEMMA CallOnSafe ==
    ASSUME Inv, Witness, NEW t \in All, NEW i \in Ids, CallOn(t, i) PROVE Inv'
<1>1. PICK o \in {"end", "extend", "action"} : Call(t, Begin(o, NoId, {i}))
  BY DEF CallOn
<1> PICK n \in Jobs : n = Begin(o, NoId, {i})
  BY BeginJob DEF Ops
<1>2. n.op = o /\ n.ids = {i} /\ n.ip = 1 /\ n.answer = "pending"
  BY BeginJob DEF Ops
<1>3. i \in issued /\ issued' = issued
  BY DEF CallOn
<1>4. n.op \in Ops \ {"create"} /\ n.op # "list"
  BY <1>2 DEF Ops
<1> QED BY <1>1, <1>2, <1>3, <1>4, BeginSafe

LEMMA CallListSafe ==
    ASSUME Inv, Witness, NEW t \in All, NEW u \in Users, CallList(t, u) PROVE Inv'
<1>1. Call(t, Begin("list", u, {})) /\ issued' = issued
  BY DEF CallList
<1> PICK n \in Jobs : n = Begin("list", u, {})
  BY BeginJob DEF Ops
<1>2. n.op = "list" /\ n.user = u /\ n.ip = 1 /\ n.answer = "pending"
  BY BeginJob DEF Ops
<1>3. n.op \in Ops \ {"create"} /\ n.op \notin {"end", "extend", "action"}
  BY <1>2 DEF Ops
<1> QED BY <1>1, <1>2, <1>3, BeginSafe

LEMMA SweepSafe == ASSUME Inv, Witness, Sweep PROVE Inv'
<1>1. Call(Reaper, Begin("sweep", NoId, {})) /\ issued' = issued /\ Reaper \in All
  BY DEF Sweep, All
<1> PICK n \in Jobs : n = Begin("sweep", NoId, {})
  BY BeginJob DEF Ops
<1>2. n.op = "sweep" /\ n.ip = 1 /\ n.answer = "pending"
  BY BeginJob DEF Ops
<1>3. n.op \in Ops \ {"create"} /\ n.op \notin {"end", "extend", "action", "list"}
  BY <1>2 DEF Ops
<1> QED BY <1>1, <1>2, <1>3, BeginSafe

-----------------------------------------------------------------------------
(* Theorems                                                                 *)

LEMMA InitInv == Init => Inv
<1> SUFFICES ASSUME Init PROVE Inv
  OBVIOUS
<1>1. job = [t \in All |-> Idle] /\ locks = [l \in Locks |-> Free] /\ sessions = << >>
  BY DEF Init
<1>2. \A t \in All : job[t] = Idle /\ job[t].op = "idle" /\ job[t].op \notin Ops
  BY <1>1, IdleJob
<1>3. DOMAIN sessions = {}
  BY <1>1
<1>4. Typed
  <2>1. 0 \in Times
    BY StoreAssumption DEF Times
  <2> HIDE DEF Times
  <2>2. sessions \in [DOMAIN sessions -> Session]
    BY <1>1
  <2> QED BY <1>3, <2>1, <2>2 DEF Init, Typed
<1>5. Calls
  BY <1>1, <1>2, IdleJob DEF Calls, JobOK
<1>6. Exclusion
  BY <1>1, <1>2 DEF Exclusion, LockOK, Free, writes, reads, TwoLocks
<1>7. Fresh
  BY <1>2, <1>3 DEF Init, Fresh, making
<1>8. Pointers /\ UnderLock
  BY <1>2 DEF Init, Pointers, UnderLock, relies
<1>9. Admissions /\ Logs /\ Lists
  BY <1>2, <1>3 DEF Init, Admissions, Logs, Lists
<1> QED BY <1>4, <1>5, <1>6, <1>7, <1>8, <1>9 DEF Inv

LEMMA StepInv == Inv /\ load \in Loads /\ [Next]_vars => Inv'
<1> SUFFICES ASSUME Inv, load \in Loads, [Next]_vars PROVE Inv'
  OBVIOUS
<1>1. CASE UNCHANGED vars
  <2> USE <1>1 DEF vars
  <2>1. Typed' /\ Calls' /\ Exclusion'
    BY DEF Inv, Typed, Calls, JobOK, Exclusion, LockOK
  <2>2. Fresh' /\ Pointers'
    BY DEF Inv, Fresh, making, Pointers, leads, excused
  <2>3. UnderLock' /\ Admissions' /\ Logs'
    BY DEF Inv, UnderLock, relies, holds_live, cooling, Admissions, Logs
  <2>4. Lists'
    BY DEF Inv, Lists, ListOK, none_for, unpointing
  <2> QED BY <2>1, <2>2, <2>3, <2>4 DEF Inv
<1>2. CASE Next
  <2>0. Witness /\ Act
    BY <1>2 DEF Next
  <2>a. Tasks \subseteq All
    BY DEF All
  <2>1. ASSUME NEW t \in All, CallStep(t) PROVE Inv'
    BY <2>0, <2>1, AcquireSafe, ReleaseSafe, CheckSafe, PointSafe, InsertSafe, FindSafe,
       UnpointSafe, RemoveSafe, CollectSafe, ExtendSafe, CooldownSafe, StampSafe, RecordSafe,
       PointerSafe, LookupSafe, RunSafe DEF CallStep
  <2>2. ASSUME NEW t \in Tasks, NEW u \in Users, CallCreate(t, u) \/ CallList(t, u) PROVE Inv'
    BY <2>0, <2>a, <2>2, CreateCallSafe, CallListSafe
  <2>3. ASSUME NEW t \in Tasks, NEW i \in Ids, CallOn(t, i) PROVE Inv'
    BY <2>0, <2>a, <2>3, CallOnSafe
  <2>4. ASSUME NEW t \in Tasks, ClientGone(t) PROVE Inv'
    BY <2>0, <2>a, <2>4, ClientGoneSafe
  <2>5. ASSUME NEW i \in Ids, Expire(i) PROVE Inv'
    BY <2>0, <2>5, ExpireSafe
  <2>6. CASE Tick \/ Sweep
    BY <2>0, <2>6, TickSafe, SweepSafe
  <2> QED BY <2>0, <2>1, <2>2, <2>3, <2>4, <2>5, <2>6 DEF Act
<1> QED BY <1>1, <1>2

\* The inductive invariant holds of every behaviour of the store's calls.
THEOREM StoreInductive == Spec => []Inv
<1>1. Init => load \in Loads
  BY DEF Init
<1>2. load \in Loads /\ [Next]_vars => (load \in Loads)'
  BY DEF Next, vars
<1> QED BY <1>1, <1>2, InitInv, StepInv, PTL DEF Spec

\* The two maps, the locks and the calls have their types; a lock that is held
\* for writing has one holder, and no call runs past the end of its method.
THEOREM StoreTyped == Spec => []TypeOK
<1>1. Inv => TypeOK
  <2> SUFFICES ASSUME Inv PROVE TypeOK
    OBVIOUS
  <2>1. ASSUME NEW l \in Locks
        PROVE  /\ locks[l].holders \subseteq All
               /\ locks[l].mode = "none" <=> locks[l].holders = {}
               /\ \A a, b \in locks[l].holders : locks[l].mode = "write" => a = b
    BY DEF Inv, Exclusion, LockOK
  <2>2. ASSUME NEW t \in All, busy(t) PROVE job[t].ip \in DOMAIN program(job[t].op)
    BY <2>2, Busy, Sizes DEF Inv
  <2> QED BY <2>1, <2>2 DEF TypeOK, Inv, Typed, Admissions
<1> QED BY <1>1, StoreInductive, PTL

\* SessionManager's two maps are never seen to disagree: a pointer that can be
\* read leads to a session of its user.
THEOREM PointersSeenSound == Spec => []PointerNeverSeenDangling
<1>1. Inv => PointerNeverSeenDangling
  <2> SUFFICES ASSUME Inv, locks["per_user"].mode # "write", NEW u \in Users, per_user[u] # NoId
               PROVE  leads(u)
    BY DEF PointerNeverSeenDangling, leads
  <2>1. \A t \in All : ~writes(job[t], "per_user")
    BY DEF Inv, Exclusion, LockOK, Locks
  <2>2. \A t \in All : ~excused(job[t], u)
    BY <2>1 DEF writes, excused, TwoLocks
  <2> QED BY <2>2 DEF Inv, Pointers
<1> QED BY <1>1, StoreInductive, PTL

\* touch_action() admits no two actions of a session within the cooldown.
THEOREM ActionsThrottled == Spec => []Throttled
<1>1. Inv => Throttled
  BY DEF Inv, Admissions, Throttled
<1> QED BY <1>1, StoreInductive, PTL

\* record() keeps the newest MAX_EVENTS events, in order and without a gap.
THEOREM LogsRecent == Spec => []LogIsRecent
<1>1. Inv => LogIsRecent
  BY DEF Inv, Logs, LogIsRecent, recent
<1> QED BY <1>1, StoreInductive, PTL

\* get_user_session() says "nothing" only to a user who had no session at some
\* moment of the call.
THEOREM ListsTruthful == Spec => []ListTruthful
<1>1. Inv => ListTruthful
  BY DEF Inv, Lists, ListOK, ListTruthful, All
<1> QED BY <1>1, StoreInductive, PTL

-----------------------------------------------------------------------------
(* A call changes the promised store at one moment                          *)

Owners == [i \in DOMAIN sessions |-> sessions[i].user_id]
Late == {i \in DOMAIN sessions : sessions[i].expired}

\* At these places a call has decided what to do and has not done all of it.
comes(j) == j.op = "create" /\ j.ip \in {4, 5}
goes(j) == j.op \in {"end", "sweep"} /\ j.ip \in {4, 5}
halfway(j) == comes(j) \/ goes(j)
decides(j) == j.op = "create" /\ j.ip <= 3

seen_late == {i \in DOMAIN sessions \ going : sessions[i].expired}
untold == (Ids \ issued) \cup UNION {job[t].ids : t \in {k \in All : deciding(k)}}

\* What the store is taken to be, when no call is halfway, and when one is.
AsIs == promised_sessions = Owners /\ promised_pointers = per_user /\ seen_late = Late
More(u, i) ==
    /\ promised_sessions = [k \in DOMAIN Owners \cup {i} |-> IF k = i THEN u ELSE Owners[k]]
    /\ promised_pointers = [per_user EXCEPT ![u] = i]
    /\ seen_late = Late
Less(gone) ==
    /\ promised_sessions = [k \in DOMAIN Owners \ gone |-> Owners[k]]
    /\ promised_pointers = [v \in Users |-> IF per_user[v] \in gone THEN NoId ELSE per_user[v]]
    /\ seen_late = Late \ gone

View ==
    /\ (\A t \in All : ~halfway(job[t])) => AsIs
    /\ \A t \in All : \A i : comes(job[t]) /\ job[t].ids = {i} => More(job[t].user, i)
    /\ \A t \in All : goes(job[t]) => Less(job[t].ids)

LEMMA Halfway ==
    ASSUME Calls, NEW t \in All
    PROVE  /\ doing(t, "point") \/ doing(t, "insert") <=> comes(job[t])
           /\ doing(t, "unpoint") \/ doing(t, "remove") <=> goes(job[t])
<1>1. ASSUME NEW what \in {"point", "insert", "unpoint", "remove"}, doing(t, what)
      PROVE  /\ what \in {"point", "insert"} => comes(job[t])
             /\ what \in {"unpoint", "remove"} => goes(job[t])
  BY <1>1, JobOf, Where DEF at, comes, goes
<1>2. ASSUME comes(job[t]) PROVE doing(t, "point") \/ doing(t, "insert")
  BY <1>2, CreateProgram DEF comes, doing, busy, instr
<1>3. ASSUME goes(job[t]) PROVE doing(t, "unpoint") \/ doing(t, "remove")
  BY <1>3, EndProgram, SweepProgram DEF goes, doing, busy, instr
<1> QED BY <1>1, <1>2, <1>3

\* One call at most is halfway: it holds the sessions lock for writing.
LEMMA Sole ==
    ASSUME Exclusion, NEW t \in All, writes(job[t], "sessions"), NEW p \in All, p # t
    PROVE  ~halfway(job[p])
<1>1. ~writes(job[p], "sessions")
  BY DEF Exclusion, LockOK, Locks
<1> QED BY <1>1 DEF writes, halfway, comes, goes, TwoLocks

LEMMA Views == Inv => View
<1> SUFFICES ASSUME Inv PROVE View
  OBVIOUS
<1>1. coming = {t \in All : comes(job[t])}
  BY Halfway DEF coming, Inv
<1> DEFINE Goers == {k \in All : goes(job[k])}
<1>2. going = UNION {job[t].ids : t \in Goers}
  <2>1. {k \in All : doing(k, "unpoint") \/ doing(k, "remove")} = Goers
    BY Halfway DEF Inv
  <2> QED BY <2>1 DEF going
<1>3. ASSUME NEW t \in All, halfway(job[t]), NEW p \in All, p # t PROVE ~halfway(job[p])
  BY <1>3, Sole DEF Inv, halfway, comes, goes, writes, TwoLocks
<1>4. ASSUME \A t \in All : ~halfway(job[t]) PROVE AsIs
  <2>1. coming = {} /\ Goers = {}
    BY <1>1, <1>4 DEF halfway
  <2>2. going = {}
    BY <1>2, <2>1
  <2>3. arriving = {}
    BY <2>1 DEF arriving
  <2> QED BY <2>1, <2>2, <2>3 DEF AsIs, promised_sessions, promised_pointers, seen_late, Owners,
          Late, Inv, Typed
<1>5. ASSUME NEW t \in All, NEW i, comes(job[t]), job[t].ids = {i} PROVE More(job[t].user, i)
  <2>1. coming = {t} /\ Goers = {}
    BY <1>1, <1>3, <1>5 DEF halfway, comes, goes
  <2>2. going = {}
    BY <1>2, <2>1
  <2>3. arriving = {i}
    BY <1>5, <2>1 DEF arriving
  <2>4. (CHOOSE p \in coming : i \in job[p].ids) = t
    BY <1>5, <2>1
  <2>5. \E p \in coming : job[p].user = job[t].user
    BY <2>1
  <2>6. (CHOOSE p \in coming : job[p].user = job[t].user) = t
    BY <2>1
  <2>7. the_id(t) = i
    BY <1>5 DEF the_id
  <2>8. promised_sessions
          = [k \in DOMAIN Owners \cup {i} |-> IF k = i THEN job[t].user ELSE Owners[k]]
    <3>1. DOMAIN Owners = DOMAIN sessions /\ \A k \in DOMAIN sessions : Owners[k] = sessions[k].user_id
      BY DEF Owners
    <3>2. \A k \in arriving : job[CHOOSE p \in coming : k \in job[p].ids].user = job[t].user
      BY <2>3, <2>4
    <3> HIDE DEF Goers
    <3> QED BY <2>2, <2>3, <3>1, <3>2 DEF promised_sessions
  <2>9. promised_pointers = [per_user EXCEPT ![job[t].user] = i]
    <3>1. \A v \in Users : (\E p \in coming : job[p].user = v) <=> v = job[t].user
      BY <2>1
    <3>2. \A v \in Users : v = job[t].user =>
             the_id(CHOOSE p \in coming : job[p].user = v) = i
      BY <2>6, <2>7
    <3>3. per_user \in [Users -> Ids \cup {NoId}]
      BY DEF Inv, Typed
    <3> QED BY <2>2, <3>1, <3>2, <3>3 DEF promised_pointers
  <2> QED BY <2>2, <2>8, <2>9 DEF More, seen_late, Late
<1>6. ASSUME NEW t \in All, goes(job[t]) PROVE Less(job[t].ids)
  <2>1. coming = {} /\ Goers = {t}
    BY <1>1, <1>3, <1>6 DEF halfway, comes, goes
  <2>2. going = job[t].ids
    BY <1>2, <2>1
  <2>3. arriving = {}
    BY <2>1 DEF arriving
  <2> QED BY <2>1, <2>2, <2>3 DEF Less, promised_sessions, promised_pointers, seen_late, Owners,
          Late
<1> QED BY <1>4, <1>5, <1>6 DEF View

\* A step of a call that is not halfway, before or after, shows nothing if the
\* maps stay.
LEMMA Unseen ==
    ASSUME Inv, Inv', NEW t \in All, NEW n \in Jobs, job' = [job EXCEPT ![t] = n],
           ~halfway(job[t]), ~halfway(n), UNCHANGED <<Owners, Late, per_user>>
    PROVE  UNCHANGED <<promised_sessions, seen_late, promised_pointers>>
<1>1. View /\ View'
  BY Views, PTL
<1>2. job'[t] = n /\ \A p \in All \ {t} : job'[p] = job[p]
  BY DEF Inv, Calls
<1>3. CASE \A p \in All : ~halfway(job[p])
  <2>1. \A p \in All : ~halfway(job[p])'
    BY <1>2, <1>3 DEF halfway, comes, goes
  <2>2. AsIs /\ AsIs'
    BY <1>1, <1>3, <2>1 DEF View
  <2> QED BY <2>2 DEF AsIs
<1>4. ASSUME NEW p \in All, comes(job[p])
      PROVE  UNCHANGED <<promised_sessions, seen_late, promised_pointers>>
  <2>1. p # t /\ job'[p] = job[p]
    BY <1>2, <1>4 DEF halfway
  <2>2. PICK i \in issued : job[p].ids = {i}
    BY <1>4 DEF comes, Inv, Calls, JobOK
  <2>3. comes(job[p])'
    BY <1>4, <2>1 DEF comes
  <2>4. More(job[p].user, i)
    BY <1>1, <1>4, <2>2 DEF View
  <2>5. More(job[p].user, i)'
    BY <1>1, <2>1, <2>2, <2>3 DEF View
  <2> QED BY <2>1, <2>4, <2>5 DEF More
<1>5. ASSUME NEW p \in All, goes(job[p])
      PROVE  UNCHANGED <<promised_sessions, seen_late, promised_pointers>>
  <2>1. p # t /\ job'[p] = job[p]
    BY <1>2, <1>5 DEF halfway
  <2>2. goes(job[p])'
    BY <1>5, <2>1 DEF goes
  <2>3. Less(job[p].ids) /\ Less(job[p].ids)'
    BY <1>1, <1>5, <2>2 DEF View
  <2> QED BY <2>1, <2>3 DEF Less
<1> QED BY <1>3, <1>4, <1>5 DEF halfway

\* The ids that may still become sessions: those not drawn, and those of calls
\* that have not decided.
LEMMA Untold ==
    /\ \A x : x \in untold <=> \/ x \in Ids \ issued
                               \/ \E p \in All : decides(job[p]) /\ x \in job[p].ids
    /\ \A x : x \in untold' <=> \/ x \in Ids \ issued'
                                \/ \E p \in All : decides(job'[p]) /\ x \in job'[p].ids
<1>1. {k \in All : deciding(k)} = {k \in All : decides(job[k])}
  BY DEF deciding, decides
<1>2. {k \in All : deciding(k)}' = {k \in All : decides(job'[k])}
  BY DEF deciding, decides
<1> QED BY <1>1, <1>2 DEF untold

LEMMA StillUntold ==
    ASSUME Inv, NEW t \in All, NEW n \in Jobs, job' = [job EXCEPT ![t] = n], issued' = issued,
           decides(n) <=> decides(job[t]), decides(n) => n.ids = job[t].ids
    PROVE  untold' = untold
<1>1. job'[t] = n /\ \A p \in All \ {t} : job'[p] = job[p]
  BY DEF Inv, Calls
<1>2. \A p \in All : decides(job'[p]) <=> decides(job[p])
  BY <1>1
<1>3. \A p \in All : decides(job[p]) => job'[p].ids = job[p].ids
  BY <1>1
<1>4. \A x : x \in untold' <=> x \in untold
  BY <1>2, <1>3, Untold
<1> QED BY <1>4

LEMMA Told ==
    ASSUME Inv, NEW t \in All, NEW n \in Jobs, job' = [job EXCEPT ![t] = n], issued' = issued,
           decides(job[t]), ~decides(n), NEW i, job[t].ids = {i}
    PROVE  untold' = untold \ {i} /\ i \in untold /\ i \in Ids
<1>1. job'[t] = n /\ \A p \in All \ {t} : job'[p] = job[p]
  BY DEF Inv, Calls
<1>2. i \in issued /\ i \in Ids
  BY DEF decides, Inv, Calls, JobOK, Typed
<1>3. ASSUME NEW p \in All, decides(job[p]), i \in job[p].ids PROVE p = t
  BY <1>3 DEF decides, Inv, Fresh
<1>4. \A x : x \in untold' <=> x \in untold /\ x # i
  BY <1>1, <1>2, <1>3, Untold
<1>5. i \in untold
  BY Untold
<1> QED BY <1>2, <1>4, <1>5

\* The steps that show nothing.
LEMMA Silent ==
    ASSUME Inv, Inv', NEW t \in All, NEW n \in Jobs, job' = [job EXCEPT ![t] = n],
           ~halfway(job[t]), ~halfway(n), UNCHANGED <<Owners, Late, per_user, issued>>,
           decides(n) <=> decides(job[t]), decides(n) => n.ids = job[t].ids
    PROVE  UNCHANGED Store!vars
<1>1. UNCHANGED <<promised_sessions, seen_late, promised_pointers>>
  BY Unseen
<1>2. untold' = untold
  BY StillUntold
<1> QED BY <1>1, <1>2 DEF Store!vars, seen_late, untold

LEMMA SameMaps ==
    ASSUME sessions' = sessions
    PROVE  UNCHANGED <<Owners, Late>>
  BY DEF Owners, Late

\* A refused, dropped or panicking call: an id it drew comes to nothing.
LEMMA LeaveShows ==
    ASSUME Inv, Inv', NEW t \in All, Leave(t), ~halfway(job[t]),
           UNCHANGED <<Owners, Late, per_user, issued>>
    PROVE  UNCHANGED Store!vars \/ \E i \in Ids : Store!Discard(i)
<1>1. job' = [job EXCEPT ![t] = Idle] /\ Idle \in Jobs /\ ~halfway(Idle) /\ ~decides(Idle)
  BY IdleJob DEF Leave, Idle, halfway, comes, goes, decides
<1>2. CASE ~decides(job[t])
  BY <1>1, <1>2, Silent
<1>3. CASE decides(job[t])
  <2>1. PICK i \in issued : job[t].ids = {i}
    BY <1>3 DEF decides, Inv, Calls, JobOK
  <2>2. untold' = untold \ {i} /\ i \in Ids
    BY <1>1, <1>3, <2>1, Told
  <2>3. UNCHANGED <<promised_sessions, seen_late, promised_pointers>>
    BY <1>1, Unseen
  <2>4. Store!Discard(i)
    BY <2>2, <2>3 DEF Store!Discard, seen_late, untold
  <2> QED BY <2>2, <2>4
<1> QED BY <1>2, <1>3

\* Going on to the next place, where nothing is decided.
LEMMA GoOnShows ==
    ASSUME Inv, Inv', NEW t \in All, busy(t), NEW n \in Jobs, job' = [job EXCEPT ![t] = n],
           n = next_job(job[t]), ~halfway(job[t]), ~halfway(n), ~at(job[t], "create", 3),
           UNCHANGED <<Owners, Late, per_user, issued>>
    PROVE  UNCHANGED Store!vars
<1>1. follows(n, job[t]) /\ job[t] \in Jobs
  BY Busy DEF Inv
<1>2. decides(n) <=> decides(job[t])
  BY <1>1, IdleJob DEF decides, follows, at, Jobs, Size, TwoLocks, Idle
<1>3. decides(n) => n.ids = job[t].ids
  BY <1>1 DEF decides, follows, Idle
<1> QED BY <1>2, <1>3, Silent

Shows == Store!Call \/ (Store!Ended /\ \E t \in All : Find(t)) \/ UNCHANGED Store!vars

\* Taking a lock and letting go of it.
LEMMA LockShows ==
    ASSUME Inv, Inv', NEW t \in All, Acquire(t) \/ Release(t)
    PROVE  Shows
<1>1. /\ busy(t) /\ instr(t)[1] \in {"lock", "unlock"}
      /\ UNCHANGED <<sessions, per_user, issued>>
      /\ job' = job \/ job' = [job EXCEPT ![t] = next_job(job[t])]
  BY DEF Acquire, Release, Inv, Calls
<1>2. \/ job[t].op \in TwoLocks /\ job[t].ip \in {1, 2, 6, 7, 8, 9}
      \/ job[t].op \in {"extend", "action", "list"}
  BY <1>1, Busy, WhereLocks DEF Inv, instr
<1>3. ~halfway(job[t]) /\ ~at(job[t], "create", 3)
  BY <1>2 DEF halfway, comes, goes, at, TwoLocks
<1>4. CASE job' = job
  <2>1. job' = [job EXCEPT ![t] = job[t]] /\ job[t] \in Jobs
    BY <1>4 DEF Inv, Calls
  <2> QED BY <1>1, <1>3, <2>1, SameMaps, Silent DEF Shows
<1>5. CASE job' = [job EXCEPT ![t] = next_job(job[t])]
  <2> PICK n \in Jobs : n = next_job(job[t])
    BY <1>1, Busy DEF Inv
  <2>1. follows(n, job[t])
    BY <1>1, Busy DEF Inv
  <2>2. ~halfway(n)
    BY <1>2, <2>1 DEF follows, halfway, comes, goes, TwoLocks, Idle
  <2> QED BY <1>1, <1>3, <1>5, <2>2, SameMaps, GoOnShows DEF Shows
<1> QED BY <1>1, <1>4, <1>5

\* A call at a place where it holds the sessions lock for writing and has not
\* decided yet shows the store as it is.
LEMMA SeenAsIs ==
    ASSUME Inv, NEW t \in All, writes(job[t], "sessions"), ~halfway(job[t])
    PROVE  AsIs
<1>1. \A p \in All : ~halfway(job[p])
  BY Sole DEF Inv
<1> QED BY <1>1, Views DEF View

\* What follows when t goes on to n and shows the store as it is afterwards.
LEMMA SeenAsIsNext ==
    ASSUME Inv, Inv', NEW t \in All, NEW n \in Jobs, job' = [job EXCEPT ![t] = n],
           writes(job[t], "sessions"), ~halfway(n)
    PROVE  AsIs'
<1>1. View'
  BY Views, PTL
<1>2. job'[t] = n /\ \A p \in All \ {t} : job'[p] = job[p]
  BY DEF Inv, Calls
<1>3. \A p \in All : ~halfway(job[p])'
  BY <1>2, Sole DEF Inv, halfway, comes, goes
<1> QED BY <1>1, <1>3 DEF View

\* create() decides when it looks at the user's pointer.
LEMMA CheckShows ==
    ASSUME Inv, Inv', NEW t \in All, Check(t)
    PROVE  Shows
<1>1. doing(t, "check") /\ UNCHANGED <<sessions, per_user, issued>>
  BY DEF Check
<1>2. job[t].op = "create" /\ job[t].ip = 3 /\ job[t].ip # Size(job[t].op)
  BY <1>1, JobOf, Where DEF Inv, at, Size, TwoLocks
<1>3. ~halfway(job[t]) /\ writes(job[t], "sessions") /\ decides(job[t])
  BY <1>2 DEF halfway, comes, goes, writes, TwoLocks, decides
<1>4. CASE holds_live(job[t].user)
  <2>1. Leave(t)
    BY <1>4 DEF Check
  <2>2. UNCHANGED Store!vars \/ \E i \in Ids : Store!Discard(i)
    BY <1>1, <1>3, <2>1, SameMaps, LeaveShows
  <2> QED BY <2>2 DEF Shows, Store!Call
<1>5. CASE ~holds_live(job[t].user)
  <2> PICK n \in Jobs : n = next_job(job[t])
    BY <1>1, <1>2, Onward
  <2>1. n.op = "create" /\ n.user = job[t].user /\ n.ids = job[t].ids /\ n.ip = 4
    BY <1>1, <1>2, Onward
  <2>2. job' = [job EXCEPT ![t] = n] /\ job'[t] = n
    BY <1>5 DEF Check, Advance, Inv, Calls
  <2> PICK u \in Users : u = job[t].user
    BY <1>2 DEF Inv, Calls, JobOK
  <2> PICK i \in issued : job[t].ids = {i}
    BY <1>2 DEF Inv, Calls, JobOK
  <2>3. untold' = untold \ {i} /\ i \in untold /\ i \in Ids
    <3>1. ~decides(n)
      BY <2>1 DEF decides
    <3> QED BY <1>1, <1>3, <2>2, <3>1, Told
  <2>4. AsIs
    BY <1>3, SeenAsIs
  <2>5. More(u, i)'
    <3>1. View'
      BY Views, PTL
    <3>2. comes(job[t])'
      BY <2>1, <2>2 DEF comes
    <3> QED BY <2>1, <2>2, <3>1, <3>2 DEF View
  <2>6. UNCHANGED <<Owners, Late, per_user>>
    BY <1>1, SameMaps
  <2>7. promised_pointers[u] \notin DOMAIN promised_sessions \ seen_late
    BY <1>5, <2>4 DEF AsIs, holds_live, Owners, Late
  <2>8. Store!Create(u, i)
    <3>1. promised_sessions'
            = [k \in DOMAIN promised_sessions \cup {i} |-> IF k = i THEN u ELSE promised_sessions[k]]
      BY <2>4, <2>5, <2>6 DEF AsIs, More
    <3>2. promised_pointers' = [promised_pointers EXCEPT ![u] = i] /\ seen_late' = seen_late
      BY <2>4, <2>5, <2>6 DEF AsIs, More
    <3> QED BY <2>3, <2>7, <3>1, <3>2 DEF Store!Create, seen_late, untold
  <2> QED BY <2>3, <2>8 DEF Shows, Store!Call
<1> QED BY <1>4, <1>5

\* What create() then does, first to the pointers and then to the sessions, was
\* promised.
LEMMA PointShows ==
    ASSUME Inv, Inv', NEW t \in All, Point(t)
    PROVE  Shows
<1>1. doing(t, "point") /\ UNCHANGED <<sessions, issued>>
  BY DEF Point
<1>2. job[t].op = "create" /\ job[t].ip = 4 /\ job[t].ip # Size(job[t].op)
  BY <1>1, JobOf, Where DEF Inv, at, Size, TwoLocks
<1> PICK n \in Jobs : n = next_job(job[t])
  BY <1>1, <1>2, Onward
<1>3. n.op = "create" /\ n.user = job[t].user /\ n.ids = job[t].ids /\ n.ip = 5
  BY <1>1, <1>2, Onward
<1>4. job' = [job EXCEPT ![t] = n] /\ job'[t] = n
  BY DEF Point, Advance, Inv, Calls
<1> PICK u \in Users : u = job[t].user
  BY <1>2 DEF Inv, Calls, JobOK
<1> PICK i \in Ids : i = the_id(t) /\ job[t].ids = {i}
  BY <1>2, TheId DEF Inv
<1>5. View /\ View'
  BY Views, PTL
<1>6. More(u, i) /\ More(u, i)'
  <2>1. comes(job[t]) /\ comes(job[t])'
    BY <1>2, <1>3, <1>4 DEF comes
  <2> QED BY <1>3, <1>4, <1>5, <2>1 DEF View
<1>7. per_user' = [per_user EXCEPT ![u] = i]
  BY DEF Point
<1>8. [per_user' EXCEPT ![u] = i] = [per_user EXCEPT ![u] = i]
  BY <1>7 DEF Inv, Typed
<1>9. UNCHANGED <<promised_sessions, promised_pointers, seen_late>>
  BY <1>1, <1>6, <1>8, SameMaps DEF More
<1>10. untold' = untold
  <2>1. ~decides(job[t]) /\ ~decides(n)
    BY <1>2, <1>3 DEF decides
  <2> QED BY <1>1, <1>4, <2>1, StillUntold
<1> QED BY <1>9, <1>10 DEF Shows, Store!vars, seen_late, untold

LEMMA InsertShows ==
    ASSUME Inv, Inv', NEW t \in All, Insert(t)
    PROVE  Shows
<1>1. doing(t, "insert") /\ UNCHANGED <<per_user, issued>>
  BY DEF Insert
<1>2. job[t].op = "create" /\ job[t].ip = 5 /\ job[t].ip # Size(job[t].op)
  BY <1>1, JobOf, Where DEF Inv, at, Size, TwoLocks
<1> PICK n \in Jobs : n = next_job(job[t])
  BY <1>1, <1>2, Onward
<1>3. n.op = "create" /\ n.user = job[t].user /\ n.ids = job[t].ids /\ n.ip = 6
  BY <1>1, <1>2, Onward
<1>4. job' = [job EXCEPT ![t] = n] /\ job'[t] = n
  BY DEF Insert, Advance, Inv, Calls
<1> PICK u \in Users : u = job[t].user
  BY <1>2 DEF Inv, Calls, JobOK
<1> PICK i \in Ids : i = the_id(t) /\ job[t].ids = {i}
  BY <1>2, TheId DEF Inv
<1>5. per_user[u] = i /\ i \notin DOMAIN sessions
  BY <1>2 DEF Inv, UnderLock, relies, Fresh, making
<1>6. comes(job[t]) /\ ~halfway(n) /\ writes(job[t], "sessions")
  BY <1>2, <1>3 DEF comes, halfway, goes, writes, TwoLocks
<1>7. More(u, i)
  BY <1>6, Views DEF View
<1>8. AsIs'
  BY <1>4, <1>6, SeenAsIsNext
<1>9. /\ DOMAIN sessions' = DOMAIN sessions \cup {i}
      /\ sessions'[i] = new_session(u)
      /\ \A x \in DOMAIN sessions \ {i} : sessions'[x] = sessions[x]
  BY DEF Insert
<1>10. Owners' = [k \in DOMAIN Owners \cup {i} |-> IF k = i THEN u ELSE Owners[k]]
  BY <1>5, <1>9 DEF Owners, new_session
<1>11. Late' = Late
  BY <1>5, <1>9 DEF Late, new_session
<1>12. [per_user EXCEPT ![u] = i] = per_user
  BY <1>5 DEF Inv, Typed
<1>13. UNCHANGED <<promised_sessions, promised_pointers, seen_late>>
  BY <1>1, <1>7, <1>8, <1>10, <1>11, <1>12 DEF More, AsIs
<1>14. untold' = untold
  <2>1. ~decides(job[t]) /\ ~decides(n)
    BY <1>2, <1>3 DEF decides
  <2> QED BY <1>1, <1>4, <2>1, StillUntold
<1> QED BY <1>13, <1>14 DEF Shows, Store!vars, seen_late, untold

\* A call that goes from where it shows the store as it is to where what it takes
\* is gone.
LEMMA TakeShows ==
    ASSUME Inv, Inv', NEW t \in All, NEW n \in Jobs, job' = [job EXCEPT ![t] = n],
           writes(job[t], "sessions"), ~halfway(job[t]), goes(n),
           ~decides(job[t]), UNCHANGED <<sessions, per_user, issued>>
    PROVE  Store!Remove(n.ids)
<1>1. job'[t] = n
  BY DEF Inv, Calls
<1>2. AsIs
  BY SeenAsIs
<1>3. Less(n.ids)'
  <2>1. View'
    BY Views, PTL
  <2>2. goes(job[t])'
    BY <1>1 DEF goes
  <2> QED BY <1>1, <2>1, <2>2 DEF View
<1>4. UNCHANGED <<Owners, Late>>
  BY SameMaps
<1>5. untold' = untold
  BY StillUntold DEF decides, goes
<1>6. promised_sessions'
        = [k \in DOMAIN promised_sessions \ n.ids |-> promised_sessions[k]]
  BY <1>2, <1>3, <1>4 DEF AsIs, Less
<1>7. promised_pointers'
        = [v \in Users |-> IF promised_pointers[v] \in n.ids THEN NoId ELSE promised_pointers[v]]
  BY <1>2, <1>3, <1>4 DEF AsIs, Less
<1>8. seen_late' = seen_late \ n.ids
  BY <1>2, <1>3, <1>4 DEF AsIs, Less
<1> QED BY <1>5, <1>6, <1>7, <1>8 DEF Store!Remove, seen_late, untold

\* end() decides when it has found the session.
LEMMA FindShows ==
    ASSUME Inv, Inv', NEW t \in All, Find(t)
    PROVE  Shows
<1>1. doing(t, "find") /\ UNCHANGED <<sessions, per_user, issued>> /\ busy(t)
  BY DEF Find, doing
<1>2. \/ at(job[t], "end", 3) \/ at(job[t], "extend", 2)
      \/ at(job[t], "action", 2) \/ at(job[t], "action", 10)
  BY <1>1, JobOf, Where DEF Inv
<1>3. /\ ~halfway(job[t]) /\ job[t].ip # Size(job[t].op) /\ ~decides(job[t])
      /\ ~at(job[t], "create", 3)
  BY <1>2 DEF at, halfway, comes, goes, Size, TwoLocks, decides
<1>4. CASE ~known(t)
  <2>1. Leave(t)
    BY <1>4 DEF Find
  <2>2. UNCHANGED Store!vars \/ \E i \in Ids : Store!Discard(i)
    BY <1>1, <1>3, <2>1, SameMaps, LeaveShows
  <2> QED BY <2>2 DEF Shows, Store!Call
<1>5. CASE known(t)
  <2> PICK n \in Jobs : n = next_job(job[t])
    BY <1>1, <1>3, Onward
  <2>1. n.op = job[t].op /\ n.ids = job[t].ids /\ n.ip = job[t].ip + 1
    BY <1>1, <1>3, Onward
  <2>2. job' = [job EXCEPT ![t] = n]
    BY <1>5 DEF Find, Advance, Inv, Calls
  <2>3. CASE at(job[t], "end", 3)
    <3> PICK i \in Ids : job[t].ids = {i}
      BY <2>3, TheId DEF Inv, at
    <3>1. writes(job[t], "sessions") /\ goes(n)
      BY <2>1, <2>3 DEF at, writes, TwoLocks, goes
    <3>2. Store!Remove({i})
      BY <1>1, <1>3, <2>1, <2>2, <3>1, TakeShows
    <3>3. i \in DOMAIN promised_sessions
      BY <1>3, <1>5, <3>1, SeenAsIs DEF AsIs, Owners, known
    <3>4. Store!End(i)
      BY <3>2, <3>3 DEF Store!End
    <3> QED BY <3>4 DEF Shows, Store!Ended
  <2>4. CASE ~at(job[t], "end", 3)
    <3>1. ~halfway(n)
      BY <1>2, <2>1, <2>4 DEF at, halfway, comes, goes
    <3> QED BY <1>1, <1>3, <2>2, <3>1, SameMaps, GoOnShows DEF Shows
  <2> QED BY <2>3, <2>4
<1> QED BY <1>4, <1>5

\* sweep_expired() decides when it lists what is expired.
LEMMA CollectShows ==
    ASSUME Inv, Inv', NEW t \in All, Collect(t)
    PROVE  Shows
<1>1. doing(t, "collect") /\ UNCHANGED <<sessions, per_user, issued>>
  BY DEF Collect
<1>2. job[t].op = "sweep" /\ job[t].ip = 3 /\ job[t].ip # Size(job[t].op)
  BY <1>1, JobOf, Where DEF Inv, at, Size, TwoLocks
<1>3. ~halfway(job[t]) /\ writes(job[t], "sessions") /\ ~decides(job[t])
  BY <1>2 DEF halfway, comes, goes, writes, TwoLocks, decides
<1>4. CASE Late = {}
  <2>1. Leave(t)
    BY <1>4 DEF Collect, Late
  <2>2. UNCHANGED Store!vars \/ \E i \in Ids : Store!Discard(i)
    BY <1>1, <1>3, <2>1, SameMaps, LeaveShows
  <2> QED BY <2>2 DEF Shows, Store!Call
<1>5. CASE Late # {}
  <2> PICK m \in Jobs : m = next_job(job[t])
    BY <1>1, <1>2, Onward
  <2>1. m.op = "sweep" /\ m.ip = 4
    BY <1>1, <1>2, Onward
  <2>2. Late \subseteq Ids
    BY DEF Late, Inv, Typed
  <2> PICK n \in Jobs : n = [m EXCEPT !.ids = Late]
    BY <2>2 DEF Jobs
  <2>3. n.op = "sweep" /\ n.ip = 4 /\ n.ids = Late
    BY <2>1 DEF Jobs
  <2>4. job' = [job EXCEPT ![t] = n]
    BY <1>5 DEF Collect, Late, Inv, Calls
  <2>5. goes(n)
    BY <2>3 DEF goes
  <2>6. Store!Remove(n.ids)
    BY <1>1, <1>3, <2>3, <2>4, <2>5, TakeShows
  <2>7. n.ids = seen_late
    BY <1>3, <2>3, SeenAsIs DEF AsIs
  <2>8. Store!Sweep
    BY <2>6, <2>7 DEF Store!Sweep, Store!Remove, seen_late
  <2> QED BY <2>8 DEF Shows, Store!Call
<1> QED BY <1>4, <1>5

\* What end() and sweep_expired() then do to the pointers and the sessions was
\* promised.
LEMMA TakingShows ==
    ASSUME Inv, Inv', NEW t \in All, NEW n \in Jobs, job' = [job EXCEPT ![t] = n],
           goes(job[t]), writes(job[t], "sessions"), n.op = job[t].op, n.ids = job[t].ids,
           n.ip = job[t].ip + 1, issued' = issued,
           Less(job[t].ids) /\ goes(n) => UNCHANGED <<promised_sessions, promised_pointers, seen_late>>,
           Less(job[t].ids) /\ AsIs' => UNCHANGED <<promised_sessions, promised_pointers, seen_late>>
    PROVE  Shows
<1>1. Less(job[t].ids)
  BY Views DEF View
<1>2. ~goes(n) => AsIs'
  <2>1. ~comes(n)
    BY DEF goes, comes
  <2> QED BY <2>1, SeenAsIsNext DEF halfway
<1>3. untold' = untold
  BY StillUntold DEF decides, goes
<1> QED BY <1>1, <1>2, <1>3 DEF Shows, Store!vars, seen_late, untold

LEMMA UnpointShows ==
    ASSUME Inv, Inv', NEW t \in All, Unpoint(t)
    PROVE  Shows
<1>1. doing(t, "unpoint") /\ UNCHANGED <<sessions, issued>>
  BY DEF Unpoint
<1>2. at(job[t], "end", 4) \/ at(job[t], "sweep", 5)
  BY <1>1, JobOf, Where DEF Inv
<1> PICK n \in Jobs : n = next_job(job[t])
  BY <1>1, TakingAway
<1>3. /\ n.op = job[t].op /\ n.ids = job[t].ids /\ n.ip = job[t].ip + 1
      /\ writes(job[t], "sessions")
  BY <1>1, TakingAway
<1>4. job' = [job EXCEPT ![t] = n] /\ job'[t] = n
  BY DEF Unpoint, Advance, Inv, Calls
<1>5. goes(job[t]) /\ (goes(n) <=> at(job[t], "end", 4))
  BY <1>2, <1>3 DEF goes, at
<1> PICK ids : ids = job[t].ids
  OBVIOUS
<1> DEFINE less == [v \in Users |-> IF per_user[v] \in ids THEN NoId ELSE per_user[v]]
<1>6. per_user' = less
  BY DEF Unpoint
<1>7. UNCHANGED <<Owners, Late>>
  BY <1>1, SameMaps
<1>8. ASSUME Less(ids), goes(n)
      PROVE  UNCHANGED <<promised_sessions, promised_pointers, seen_late>>
  <2>1. Less(ids)'
    <3>1. View'
      BY Views, PTL
    <3>2. goes(job[t])'
      BY <1>4, <1>8 DEF goes
    <3> QED BY <1>3, <1>4, <3>1, <3>2 DEF View
  <2>2. [v \in Users |-> IF less[v] \in ids THEN NoId ELSE less[v]] = less
    OBVIOUS
  <2> QED BY <1>6, <1>7, <1>8, <2>1, <2>2 DEF Less
<1>9. ASSUME Less(ids), AsIs'
      PROVE  UNCHANGED <<promised_sessions, promised_pointers, seen_late>>
  <2>1. CASE at(job[t], "end", 4)
    BY <1>5, <1>8, <1>9, <2>1
  <2>2. CASE at(job[t], "sweep", 5)
    <3>1. ids \cap DOMAIN sessions = {}
      BY <2>2 DEF Inv, UnderLock, relies, at
    <3>2. [k \in DOMAIN Owners \ ids |-> Owners[k]] = Owners /\ Late \ ids = Late
      BY <3>1 DEF Owners, Late
    <3> QED BY <1>6, <1>7, <1>9, <3>2 DEF Less, AsIs
  <2> QED BY <1>2, <2>1, <2>2
<1> QED BY <1>1, <1>3, <1>4, <1>5, <1>8, <1>9, TakingShows

LEMMA RemoveShows ==
    ASSUME Inv, Inv', NEW t \in All, Remove(t)
    PROVE  Shows
<1>1. doing(t, "remove") /\ UNCHANGED <<per_user, issued>>
  BY DEF Remove
<1>2. at(job[t], "end", 5) \/ at(job[t], "sweep", 4)
  BY <1>1, JobOf, Where DEF Inv
<1> PICK n \in Jobs : n = next_job(job[t])
  BY <1>1, TakingAway
<1>3. /\ n.op = job[t].op /\ n.ids = job[t].ids /\ n.ip = job[t].ip + 1
      /\ writes(job[t], "sessions")
  BY <1>1, TakingAway
<1>4. job' = [job EXCEPT ![t] = n] /\ job'[t] = n
  BY DEF Remove, Advance, Inv, Calls
<1>5. goes(job[t]) /\ (goes(n) <=> at(job[t], "sweep", 4))
  BY <1>2, <1>3 DEF goes, at
<1> PICK ids : ids = job[t].ids
  OBVIOUS
<1>6. /\ DOMAIN sessions' = DOMAIN sessions \ ids
      /\ \A x \in DOMAIN sessions' : sessions'[x] = sessions[x]
  BY DEF Remove
<1>7. Owners' = [k \in DOMAIN Owners \ ids |-> Owners[k]] /\ Late' = Late \ ids
  BY <1>6 DEF Owners, Late
<1>8. [k \in DOMAIN Owners' \ ids |-> Owners'[k]] = Owners' /\ Late' \ ids = Late'
  BY <1>7
<1>9. ASSUME Less(ids), goes(n)
      PROVE  UNCHANGED <<promised_sessions, promised_pointers, seen_late>>
  <2>1. Less(ids)'
    <3>1. View'
      BY Views, PTL
    <3>2. goes(job[t])'
      BY <1>4, <1>9 DEF goes
    <3> QED BY <1>3, <1>4, <3>1, <3>2 DEF View
  <2> QED BY <1>1, <1>7, <1>8, <1>9, <2>1 DEF Less
<1>10. ASSUME Less(ids), AsIs'
       PROVE  UNCHANGED <<promised_sessions, promised_pointers, seen_late>>
  <2>1. CASE at(job[t], "sweep", 4)
    BY <1>5, <1>9, <1>10, <2>1
  <2>2. CASE at(job[t], "end", 5)
    <3>1. \A v \in Users : per_user[v] \notin ids
      BY <2>2 DEF Inv, UnderLock, relies, at
    <3>2. [v \in Users |-> IF per_user[v] \in ids THEN NoId ELSE per_user[v]] = per_user
      BY <3>1 DEF Inv, Typed
    <3> QED BY <1>1, <1>7, <1>10, <3>2 DEF Less, AsIs
  <2> QED BY <1>2, <2>1, <2>2
<1> QED BY <1>1, <1>3, <1>4, <1>5, <1>9, <1>10, TakingShows

\* update() with extend() decides and acts in one step.
LEMMA ExtendShows ==
    ASSUME Inv, Inv', NEW t \in All, Extend(t)
    PROVE  Shows
<1>1. doing(t, "extend") /\ UNCHANGED <<per_user, issued>> /\ busy(t)
  BY DEF Extend, doing
<1>2. at(job[t], "extend", 3)
  BY <1>1, JobOf, Where DEF Inv
<1>3. ~halfway(job[t]) /\ ~decides(job[t]) /\ ~at(job[t], "create", 3)
  BY <1>2 DEF at, halfway, comes, goes, decides
<1> PICK n \in Jobs : n = next_job(job[t])
  BY <1>1, <1>2, TouchNext
<1>4. /\ n.op = job[t].op /\ n.ip = job[t].ip + 1 /\ writes(job[t], "sessions")
  BY <1>1, <1>2, TouchNext
<1>5. ~halfway(n) /\ ~decides(n)
  BY <1>2, <1>4 DEF at, halfway, comes, goes, decides
<1> PICK i \in Ids : i = the_id(t) /\ job[t].ids = {i}
  BY <1>1, <1>2, TouchNext
<1>6. i \in DOMAIN sessions
  BY <1>2 DEF Inv, UnderLock, relies, at
<1>7. CASE sessions' = [sessions EXCEPT ![i].expired = FALSE] /\ Advance(t)
  <2>1. job' = [job EXCEPT ![t] = n]
    BY <1>7 DEF Advance, Inv, Calls
  <2>2. /\ DOMAIN sessions' = DOMAIN sessions
        /\ \A x \in DOMAIN sessions \ {i} : sessions'[x] = sessions[x]
        /\ sessions'[i].user_id = sessions[i].user_id /\ ~sessions'[i].expired
    <3>1. sessions[i] \in Session
      BY <1>6 DEF Inv, Typed
    <3> QED BY <1>6, <1>7, <3>1 DEF Session
  <2>3. Owners' = Owners /\ Late' = Late \ {i}
    BY <2>2 DEF Owners, Late
  <2>4. AsIs /\ AsIs'
    BY <1>3, <1>4, <1>5, <2>1, SeenAsIs, SeenAsIsNext
  <2>5. untold' = untold
    BY <1>1, <1>3, <1>5, <2>1, StillUntold
  <2>6. Store!Revive(i)
    BY <1>1, <2>3, <2>4, <2>5 DEF AsIs, Store!Revive, seen_late, untold
  <2> QED BY <2>6 DEF Shows, Store!Call
<1>8. CASE sessions' = sessions /\ Advance(t)
  <2>1. job' = [job EXCEPT ![t] = n]
    BY <1>8 DEF Advance, Inv, Calls
  <2> QED BY <1>1, <1>3, <1>5, <1>8, <2>1, SameMaps, GoOnShows DEF Shows
<1>9. CASE sessions' = sessions /\ Leave(t)
  <2>1. UNCHANGED Store!vars \/ \E x \in Ids : Store!Discard(x)
    BY <1>1, <1>3, <1>9, SameMaps, LeaveShows
  <2> QED BY <2>1 DEF Shows, Store!Call
<1> QED BY <1>7, <1>8, <1>9 DEF Extend

\* touch_action() and the recording of an event change fields the promise does
\* not mention.
LEMMA StampShows ==
    ASSUME Inv, Inv', NEW t \in All, Stamp(t) \/ Record(t)
    PROVE  Shows
<1>1. /\ doing(t, "stamp") \/ doing(t, "record")
      /\ UNCHANGED <<per_user, issued>> /\ busy(t)
  BY DEF Stamp, Record, doing
<1>2. at(job[t], "action", 6) \/ at(job[t], "action", 11)
  BY <1>1, JobOf, Where DEF Inv
<1>3. ~halfway(job[t]) /\ ~decides(job[t]) /\ ~at(job[t], "create", 3)
  BY <1>2 DEF at, halfway, comes, goes, decides
<1> PICK n \in Jobs : n = next_job(job[t])
  BY <1>1, <1>2, TouchNext
<1>4. n.op = job[t].op
  BY <1>1, <1>2, TouchNext
<1>5. ~halfway(n)
  BY <1>2, <1>4 DEF at, halfway, comes, goes
<1>6. CASE Leave(t) /\ sessions' = sessions
  <2>1. UNCHANGED Store!vars \/ \E x \in Ids : Store!Discard(x)
    BY <1>1, <1>3, <1>6, SameMaps, LeaveShows
  <2> QED BY <2>1 DEF Shows, Store!Call
<1> PICK i \in Ids : i = the_id(t)
  BY <1>1, <1>2, TouchNext
<1>7. CASE Advance(t) /\ \/ sessions' = [sessions EXCEPT ![i].last_action_at = now]
                         \/ \E e : sessions' = [sessions EXCEPT ![i].events = e]
  <2>1. job' = [job EXCEPT ![t] = n]
    BY <1>7 DEF Advance, Inv, Calls
  <2>2. \A x \in DOMAIN sessions : sessions[x] \in Session
    BY DEF Inv, Typed
  <2>3. /\ DOMAIN sessions' = DOMAIN sessions
        /\ \A x \in DOMAIN sessions : /\ sessions'[x].user_id = sessions[x].user_id
                                      /\ sessions'[x].expired = sessions[x].expired
    <3>1. DOMAIN sessions' = DOMAIN sessions /\ \A x \in DOMAIN sessions \ {i} : sessions'[x] = sessions[x]
      BY <1>7
    <3>2. ASSUME i \in DOMAIN sessions
          PROVE  \/ sessions'[i] = [sessions[i] EXCEPT !.last_action_at = now]
                 \/ \E e : sessions'[i] = [sessions[i] EXCEPT !.events = e]
      BY <1>7, <3>2
    <3>3. ASSUME i \in DOMAIN sessions
          PROVE  sessions'[i].user_id = sessions[i].user_id /\ sessions'[i].expired = sessions[i].expired
      BY <2>2, <3>2, <3>3 DEF Session
    <3> QED BY <3>1, <3>3
  <2>4. UNCHANGED <<Owners, Late>>
    BY <2>3 DEF Owners, Late
  <2> QED BY <1>1, <1>3, <1>5, <2>1, <2>4, GoOnShows DEF Shows
<1> QED BY <1>6, <1>7 DEF Stamp, Record

\* What neither changes a map nor decides to.
LEMMA ReadShows ==
    ASSUME Inv, Inv', NEW t \in All, Cooldown(t) \/ Pointer(t) \/ Lookup(t) \/ Run(t)
    PROVE  Shows
<1>1. /\ doing(t, "cooldown") \/ doing(t, "pointer") \/ doing(t, "lookup") \/ doing(t, "run")
      /\ UNCHANGED <<sessions, per_user, issued>> /\ busy(t)
  BY DEF Cooldown, Pointer, Lookup, Run, doing
<1>2. /\ job[t].op \in {"action", "list"} /\ job[t].ip # Size(job[t].op)
  BY <1>1, JobOf, Where DEF Inv, at, Size, TwoLocks
<1>3. ~halfway(job[t]) /\ ~decides(job[t])
  BY <1>2 DEF halfway, comes, goes, decides
<1>4. CASE Leave(t)
  <2>1. UNCHANGED Store!vars \/ \E x \in Ids : Store!Discard(x)
    BY <1>1, <1>3, <1>4, SameMaps, LeaveShows
  <2> QED BY <2>1 DEF Shows, Store!Call
<1> PICK m \in Jobs : m = next_job(job[t])
  BY <1>1, <1>2, Onward
<1>5. m.op = job[t].op
  BY <1>1, <1>2, Onward
<1>6. ASSUME NEW n \in Jobs, job' = [job EXCEPT ![t] = n], n.op = m.op PROVE Shows
  <2>1. ~halfway(n) /\ ~decides(n)
    BY <1>2, <1>5, <1>6 DEF halfway, comes, goes, decides
  <2> QED BY <1>1, <1>3, <1>6, <2>1, SameMaps, Silent DEF Shows
<1>7. CASE Advance(t)
  BY <1>6, <1>7 DEF Advance, Inv, Calls
<1>8. ASSUME NEW ids, job' = [job EXCEPT ![t] = [m EXCEPT !.ids = ids]], ids \subseteq Ids PROVE Shows
  <2> PICK n \in Jobs : n = [m EXCEPT !.ids = ids]
    BY <1>8 DEF Jobs
  <2>1. n.op = m.op
    BY DEF Jobs
  <2> QED BY <1>6, <1>8, <2>1
<1>9. ASSUME NEW a \in {"found", "nothing"}, job' = [job EXCEPT ![t] = [m EXCEPT !.answer = a]]
      PROVE  Shows
  <2> PICK n \in Jobs : n = [m EXCEPT !.answer = a]
    BY DEF Jobs
  <2>1. n.op = m.op
    BY DEF Jobs
  <2> QED BY <1>6, <1>9, <2>1
<1>10. CASE Pointer(t)
  <2>1. CASE ~Leave(t)
    <3>1. per_user[job[t].user] # NoId
      BY <1>10, <2>1 DEF Pointer
    <3>2. job[t].user \in Users
      <4>1. doing(t, "pointer")
        BY <1>10 DEF Pointer
      <4>2. job[t].op = "list" /\ JobOK(job[t])
        BY <4>1, JobOf, Where DEF Inv, at
      <4> QED BY <4>2 DEF JobOK
    <3>3. {per_user[job[t].user]} \subseteq Ids
      BY <3>1, <3>2 DEF Inv, Typed
    <3> QED BY <1>8, <1>10, <2>1, <3>3 DEF Pointer, Inv, Calls
  <2> QED BY <1>4, <2>1
<1>11. CASE Lookup(t)
  BY <1>9, <1>11 DEF Lookup, Inv, Calls
<1> QED BY <1>4, <1>7, <1>10, <1>11 DEF Cooldown, Run

LEMMA BeginShows ==
    ASSUME Inv, Inv', NEW t \in All, NEW n \in Jobs, n.ip = 1, Call(t, n),
           n.op # "create" /\ issued' = issued
    PROVE  Shows
<1>1. ~busy(t) /\ job' = [job EXCEPT ![t] = n] /\ UNCHANGED <<sessions, per_user>>
  BY DEF Call
<1>2. ~halfway(job[t]) /\ ~decides(job[t]) /\ ~halfway(n) /\ ~decides(n)
  BY <1>1 DEF busy, halfway, comes, goes, decides
<1> QED BY <1>1, <1>2, SameMaps, Silent DEF Shows

\* The id a create() draws may still become a session until it has decided.
LEMMA CreateCallShows ==
    ASSUME Inv, Inv', load \in Loads, NEW t \in All, NEW u \in Users, CallCreate(t, u)
    PROVE  Shows
<1>0. load.ids \subseteq Ids
  BY StoreAssumption
<1>1. PICK i \in Ids : /\ i \notin issued /\ issued' = issued \cup {i}
                       /\ Call(t, Begin("create", u, {i}))
  BY <1>0 DEF CallCreate
<1> PICK n \in Jobs : n = Begin("create", u, {i})
  BY BeginJob DEF Ops
<1>2. n.op = "create" /\ n.ids = {i} /\ n.ip = 1
  BY BeginJob DEF Ops
<1>3. ~busy(t) /\ job' = [job EXCEPT ![t] = n] /\ UNCHANGED <<sessions, per_user>>
  BY <1>1 DEF Call
<1>4. ~halfway(job[t]) /\ ~decides(job[t]) /\ ~halfway(n) /\ decides(n)
  BY <1>2, <1>3 DEF busy, halfway, comes, goes, decides
<1>5. UNCHANGED <<promised_sessions, seen_late, promised_pointers>>
  BY <1>3, <1>4, SameMaps, Unseen
<1>6. job'[t] = n /\ \A p \in All \ {t} : job'[p] = job[p]
  BY <1>3 DEF Inv, Calls
<1>7. \A x : x \in untold' <=> x \in untold
  BY <1>1, <1>2, <1>4, <1>6, Untold
<1>8. untold' = untold
  BY <1>7
<1> QED BY <1>5, <1>8 DEF Shows, Store!vars, seen_late, untold

\* A deadline passes, of a session that is there or of one whose removal is under
\* way.
LEMMA ExpireShows ==
    ASSUME Inv, Inv', NEW i \in Ids, Expire(i)
    PROVE  Shows
<1>1. i \in DOMAIN sessions /\ UNCHANGED <<per_user, issued, job>>
  BY DEF Expire
<1>2. /\ DOMAIN sessions' = DOMAIN sessions
      /\ \A x \in DOMAIN sessions \ {i} : sessions'[x] = sessions[x]
      /\ sessions'[i].user_id = sessions[i].user_id /\ sessions'[i].expired
  <2>1. sessions[i] \in Session
    BY <1>1 DEF Inv, Typed
  <2> QED BY <1>1, <2>1 DEF Expire, Session
<1>3. Owners' = Owners /\ Late' = Late \cup {i} /\ i \in DOMAIN Owners
  BY <1>1, <1>2 DEF Owners, Late
<1>4. untold' = untold
  BY <1>1 DEF untold, deciding
<1>5. View /\ View'
  BY Views, PTL
<1>6. ASSUME UNCHANGED <<promised_sessions, promised_pointers>>, i \in DOMAIN promised_sessions,
             seen_late' = seen_late \cup {i}
      PROVE  Shows
  <2>1. Store!Age({i})
    BY <1>4, <1>6 DEF Store!Age, seen_late, untold
  <2> QED BY <2>1 DEF Shows, Store!Call
<1>7. CASE \A p \in All : ~halfway(job[p])
  <2>1. AsIs /\ AsIs'
    BY <1>1, <1>5, <1>7 DEF View
  <2> QED BY <1>1, <1>3, <1>6, <2>1 DEF AsIs
<1>8. ASSUME NEW p \in All, comes(job[p]) PROVE Shows
  <2> PICK k \in issued : job[p].ids = {k}
    BY <1>8 DEF comes, Inv, Calls, JobOK
  <2>1. More(job[p].user, k) /\ More(job[p].user, k)'
    BY <1>1, <1>5, <1>8 DEF View
  <2> QED BY <1>1, <1>3, <1>6, <2>1 DEF More
<1>9. ASSUME NEW p \in All, goes(job[p]) PROVE Shows
  <2>1. Less(job[p].ids) /\ Less(job[p].ids)'
    BY <1>1, <1>5, <1>9 DEF View
  <2>2. CASE i \in job[p].ids
    <3>1. UNCHANGED <<promised_sessions, promised_pointers, seen_late>>
      BY <1>1, <1>3, <2>1, <2>2 DEF Less
    <3> QED BY <1>4, <3>1 DEF Shows, Store!vars, seen_late, untold
  <2>3. CASE i \notin job[p].ids
    BY <1>1, <1>3, <1>6, <2>1, <2>3 DEF Less
  <2> QED BY <2>2, <2>3
<1> QED BY <1>7, <1>8, <1>9 DEF halfway

\* Nothing that the promise mentions.
LEMMA TickShows ==
    ASSUME UNCHANGED <<sessions, per_user, issued, job>>
    PROVE  Shows
<1>1. coming' = coming /\ going' = going /\ arriving' = arriving /\ untold' = untold
  BY DEF coming, going, arriving, untold, deciding, doing, busy, instr
<1> QED BY <1>1 DEF Shows, Store!vars, promised_sessions, promised_pointers, untold, the_id

\* However its calls overlap, wait, are refused or are dropped, the store does
\* what it would do if each call were one step: create() at its check, end() when
\* it has found the session, sweep_expired() when it lists what is expired.
THEOREM CallsLinearize == Spec => CallsAtOnce
<1>1. Init => Store!Init
  <2> SUFFICES ASSUME Init PROVE Store!Init
    OBVIOUS
  <2>1. Inv /\ View
    BY InitInv, Views
  <2>2. \A t \in All : job[t].op = "idle"
    BY DEF Init, Idle
  <2>3. AsIs
    BY <2>1, <2>2 DEF View, halfway, comes, goes
  <2>4. Owners = << >> /\ Late = {}
    BY DEF Init, Owners, Late
  <2>5. untold = Ids
    BY <2>2, Untold DEF decides, Init
  <2> QED BY <2>3, <2>4, <2>5 DEF Store!Init, AsIs, seen_late, untold, Init
<1>2. Inv /\ Inv' /\ load \in Loads /\ [Next]_vars => [Store!Call \/ (Store!Ended /\ \E t \in All : Find(t))]_(Store!vars)
  <2> SUFFICES ASSUME Inv, Inv', load \in Loads, [Next]_vars PROVE Shows
    BY DEF Shows
  <2>a. Tasks \subseteq All
    BY DEF All
  <2>1. CASE UNCHANGED vars
    BY <2>1, TickShows DEF vars
  <2>2. ASSUME NEW t \in All, CallStep(t) PROVE Shows
    BY <2>2, LockShows, CheckShows, PointShows, InsertShows, FindShows, UnpointShows, RemoveShows,
       CollectShows, ExtendShows, StampShows, ReadShows DEF CallStep
  <2>3. ASSUME NEW t \in Tasks, NEW u \in Users, CallCreate(t, u) PROVE Shows
    BY <2>a, <2>3, CreateCallShows
  <2>4. ASSUME NEW t \in Tasks, NEW u \in Users, CallList(t, u) PROVE Shows
    <3> PICK n \in Jobs : n = Begin("list", u, {})
      BY BeginJob DEF Ops
    <3>1. n.op = "list" /\ n.ip = 1
      BY BeginJob DEF Ops
    <3> QED BY <2>a, <2>4, <3>1, BeginShows DEF CallList
  <2>5. ASSUME NEW t \in Tasks, NEW i \in Ids, CallOn(t, i) PROVE Shows
    <3>1. PICK op \in {"end", "extend", "action"} : Call(t, Begin(op, NoId, {i})) /\ issued' = issued
      BY <2>5 DEF CallOn
    <3> PICK n \in Jobs : n = Begin(op, NoId, {i})
      BY BeginJob DEF Ops
    <3>2. n.op = op /\ n.ip = 1
      BY BeginJob DEF Ops
    <3> QED BY <2>a, <3>1, <3>2, BeginShows
  <2>6. CASE Sweep
    <3> PICK n \in Jobs : n = Begin("sweep", NoId, {})
      BY BeginJob DEF Ops
    <3>1. n.op = "sweep" /\ n.ip = 1
      BY BeginJob DEF Ops
    <3> QED BY <2>6, <3>1, BeginShows DEF Sweep, All
  <2>7. ASSUME NEW t \in Tasks, ClientGone(t) PROVE Shows
    <3>1. /\ Leave(t) /\ UNCHANGED <<sessions, per_user, issued>> /\ busy(t)
          /\ instr(t)[1] = "lock" \/ doing(t, "run")
      BY <2>7 DEF ClientGone
    <3>2. ~halfway(job[t])
      <4>1. CASE instr(t)[1] = "lock"
        BY <2>a, <3>1, <4>1, Busy, WhereLocks DEF Inv, instr, halfway, comes, goes, TwoLocks
      <4>2. CASE doing(t, "run")
        BY <2>a, <4>2, JobOf, Where DEF Inv, at, halfway, comes, goes
      <4> QED BY <3>1, <4>1, <4>2
    <3>3. UNCHANGED Store!vars \/ \E i \in Ids : Store!Discard(i)
      BY <2>a, <3>1, <3>2, SameMaps, LeaveShows
    <3> QED BY <3>3 DEF Shows, Store!Call
  <2>8. ASSUME NEW i \in Ids, Expire(i) PROVE Shows
    BY <2>8, ExpireShows
  <2>9. CASE Tick
    BY <2>9, TickShows DEF Tick
  <2> QED BY <2>1, <2>2, <2>3, <2>4, <2>5, <2>6, <2>7, <2>8, <2>9 DEF Next, Act
<1>3. Init => load \in Loads
  BY DEF Init
<1>4. load \in Loads /\ [Next]_vars => (load \in Loads)'
  BY DEF Next, vars
<1> QED BY <1>1, <1>2, <1>3, <1>4, StoreInductive, PTL DEF Spec, CallsAtOnce

=============================================================================
