----------------------------- MODULE StoreLocks -----------------------------
(***************************************************************************)
(* The session store at the grain of its two locks (sessions.rs 390-570).  *)
(*                                                                         *)
(* SessionManager.sessions and .per_user are two tokio RwLocks.  A call    *)
(* takes them one after the other, does its work in several steps and      *)
(* lets go of them; awaiting a lock is a point where other calls run and   *)
(* where a call disappears when its client does.  A tokio RwLock queues:   *)
(* whoever asked first is served first, readers wait behind a writer that  *)
(* waits.  This module is about what other calls can see: that no call     *)
(* waits for ever, that the two maps are never seen to disagree, that the  *)
(* action cooldown cannot be passed by two calls at once, and what a       *)
(* lookup in two separate reads may answer.                                *)
(***************************************************************************)
EXTENDS Integers, Sequences

CONSTANTS
    Tasks,          \* requests being served
    Reaper,         \* the task that runs sweep_expired
    Users, Ids,
    NoId,           \* no session
    Never,          \* last_action_at = None
    ACTION_COOLDOWN, MAX_EVENTS,
    Loads,          \* bound: the operations run against each other, on how many sessions
    Horizon,        \* bound: the clock stops here
    MaxRecords      \* bound: actions begun per session

AllOps == {"create", "end", "extend", "action", "list", "sweep", "expire", "tick"}

ASSUME StoreAssumption ==
    /\ Loads \subseteq [ops : SUBSET AllOps, ids : SUBSET Ids]
    /\ Reaper \notin Tasks /\ NoId \notin Ids /\ Never \notin Nat
    /\ ACTION_COOLDOWN \in Nat /\ MAX_EVENTS \in Nat /\ Horizon \in Nat /\ MaxRecords \in Nat

VARIABLES
    load,       \* the operations of this behaviour, and the ids it may draw
    now,
    sessions,   \* id -> session
    per_user,   \* user -> id
    issued,     \* ids drawn so far
    locks,      \* the two locks
    job,        \* the call each task is in
    recorded,   \* history: events recorded so far, by id
    admitted,   \* history: when an action was last admitted, by id
    crowded,    \* history: ids with two actions admitted too close together
    vacant      \* history: the user of this list had no live session at some moment of it

vars == <<load, now, sessions, per_user, issued, locks, job, recorded, admitted, crowded, vacant>>

All == Tasks \cup {Reaper}
Times == 0 .. Horizon
Locks == {"sessions", "per_user"}

\* The fields of a session that are decided by here; events are numbered in the
\* order they happened.
Session == [user_id : Users, expired : BOOLEAN, last_action_at : Times \cup {Never},
            events : Seq(Nat)]

-----------------------------------------------------------------------------
(* Calls as programs                                                        *)

Lock(l, m) == <<"lock", l, m>>
Unlock(l)  == <<"unlock", l>>
Do(what)   == <<"do", what>>

\* The trailing save reads the map under a lock of its own (SessionPersist has the rest).
persist == <<Lock("sessions", "read"), Unlock("sessions")>>

\* Each method that writes both maps takes sessions first.
both(body) == <<Lock("sessions", "write"), Lock("per_user", "write")>> \o body
                  \o <<Unlock("per_user"), Unlock("sessions")>> \o persist

create == both(<<Do("check"), Do("point"), Do("insert")>>)

\* Mutant: the locks are taken in the other order.
end_other_order ==
    <<Lock("per_user", "write"), Lock("sessions", "write"), Do("find"), Do("unpoint"), Do("remove"),
      Unlock("sessions"), Unlock("per_user")>> \o persist

\* Mutant: the pointer is cleared after the sessions lock was released.
end_pointer_later ==
    <<Lock("sessions", "write"), Do("find"), Do("remove"), Unlock("sessions"),
      Lock("per_user", "write"), Do("unpoint"), Unlock("per_user")>> \o persist

end == both(<<Do("find"), Do("unpoint"), Do("remove")>>)

\* Mutant: what is expired is listed under a read lock that is then released.
sweep_reads_first ==
    <<Lock("sessions", "read"), Do("collect"), Unlock("sessions")>>
        \o both(<<Do("remove"), Do("unpoint")>>)

sweep_expired == both(<<Do("collect"), Do("remove"), Do("unpoint")>>)

\* update() with extend(), which panics when the sum of durations overflows.
update_extend ==
    <<Lock("sessions", "write"), Do("find"), Do("extend"), Unlock("sessions")>> \o persist

get == <<Lock("sessions", "read"), Do("find"), Unlock("sessions")>>

\* Mutant: the cooldown is looked at under the read lock of get().
touch_action_late ==
    <<Lock("sessions", "read"), Do("cooldown"), Unlock("sessions"),
      Lock("sessions", "write"), Do("stamp"), Unlock("sessions")>>

touch_action ==
    <<Lock("sessions", "write"), Do("cooldown"), Do("stamp"), Unlock("sessions")>>

update_record ==
    <<Lock("sessions", "write"), Do("find"), Do("record"), Unlock("sessions")>> \o persist

\* execute_action: lookup, cooldown, the action itself, and its event.
execute_action == get \o touch_action \o <<Do("run")>> \o update_record

\* The pointer's lock is released before the session is looked up.
get_user_session ==
    <<Lock("per_user", "read"), Do("pointer"), Unlock("per_user"),
      Lock("sessions", "read"), Do("lookup"), Unlock("sessions")>>

program(op) ==
    CASE op = "create" -> create            [] op = "end"    -> end
      [] op = "sweep"  -> sweep_expired     [] op = "extend" -> update_extend
      [] op = "action" -> execute_action    [] op = "list"   -> get_user_session

\* A call: who it is for, the session it is about, where it is, and what a list
\* has answered.
Idle == [op |-> "idle", user |-> NoId, ids |-> {}, ip |-> 0, answer |-> "pending"]
Begin(op, u, ids) == [op |-> op, user |-> u, ids |-> ids, ip |-> 1, answer |-> "pending"]

busy(t) == job[t].op # "idle"
instr(t) == program(job[t].op)[job[t].ip]
doing(t, what) == busy(t) /\ instr(t) = Do(what)
next_job(j) == IF j.ip = Len(program(j.op)) THEN Idle ELSE [j EXCEPT !.ip = @ + 1]
Advance(t) == job' = [job EXCEPT ![t] = next_job(@)] /\ UNCHANGED locks

-----------------------------------------------------------------------------
(* The locks                                                                *)

Free == [holders |-> {}, mode |-> "none", queue |-> << >>]

\* Mutant: a writer is let in beside readers.
fits_beside(l, m) == locks[l].holders = {} \/ locks[l].mode = "read"

fits(l, m) == locks[l].holders = {} \/ (m = "read" /\ locks[l].mode = "read")
waiting(t, l) == \E k \in DOMAIN locks[l].queue : locks[l].queue[k][1] = t

\* lock.read().await, lock.write().await: taken at once if nobody waits,
\* otherwise queued; whoever is first in the queue is served when it fits.
Acquire(t) ==
    /\ busy(t) /\ instr(t)[1] = "lock"
    /\ LET l == instr(t)[2]  m == instr(t)[3]  q == locks[l].queue
           taken(rest) == /\ locks' = [locks EXCEPT ![l] =
                                         [holders |-> @.holders \cup {t}, mode |-> m, queue |-> rest]]
                          /\ job' = [job EXCEPT ![t] = next_job(@)]
       IN  \/ q = << >> /\ fits(l, m) /\ taken(q)
           \/ /\ ~(q = << >> /\ fits(l, m)) /\ ~waiting(t, l)
              /\ locks' = [locks EXCEPT ![l].queue = Append(@, <<t, m>>)]
              /\ UNCHANGED job
           \/ waiting(t, l) /\ Head(q)[1] = t /\ fits(l, m) /\ taken(Tail(q))
    /\ UNCHANGED <<now, sessions, per_user, issued, recorded, admitted, crowded>>

without(lk, t) ==
    LET h == lk.holders \ {t}
        others(w) == w[1] # t
    IN  [holders |-> h, mode |-> IF h = {} THEN "none" ELSE lk.mode,
         queue |-> SelectSeq(lk.queue, others)]

\* drop(guard), or the end of its block.
Release(t) ==
    /\ busy(t) /\ instr(t)[1] = "unlock"
    /\ locks' = [locks EXCEPT ![instr(t)[2]] = without(@, t)]
    /\ job' = [job EXCEPT ![t] = next_job(@)]
    /\ UNCHANGED <<now, sessions, per_user, issued, recorded, admitted, crowded>>

\* An early return, a panic or a dropped future: the guards go with it, and a
\* tokio lock is not poisoned.
Leave(t) ==
    /\ locks' = [l \in Locks |-> without(locks[l], t)]
    /\ job' = [job EXCEPT ![t] = Idle]

-----------------------------------------------------------------------------
(* What is done under the locks                                             *)

the_id(t) == CHOOSE i \in job[t].ids : TRUE
known(t) == job[t].ids \cap DOMAIN sessions # {}
holds_live(u) == per_user[u] \in DOMAIN sessions /\ ~sessions[per_user[u]].expired

\* Mutant: the user's limit is not looked at.
Check_nothing(t) ==
    /\ doing(t, "check")
    /\ Advance(t)
    /\ UNCHANGED <<now, sessions, per_user, issued, recorded, admitted, crowded>>

\* create(): refused when the pointer leads to a session that still counts.
Check(t) ==
    /\ doing(t, "check")
    /\ IF holds_live(job[t].user) THEN Leave(t) ELSE Advance(t)
    /\ UNCHANGED <<now, sessions, per_user, issued, recorded, admitted, crowded>>

Point(t) ==
    /\ doing(t, "point")
    /\ per_user' = [per_user EXCEPT ![job[t].user] = the_id(t)]
    /\ Advance(t)
    /\ UNCHANGED <<now, sessions, issued, recorded, admitted, crowded>>

new_session(u) == [user_id |-> u, expired |-> FALSE, last_action_at |-> Never, events |-> << >>]

Insert(t) ==
    /\ doing(t, "insert")
    /\ sessions' = [i \in DOMAIN sessions \cup {the_id(t)} |->
                      IF i = the_id(t) THEN new_session(job[t].user) ELSE sessions[i]]
    /\ Advance(t)
    /\ UNCHANGED <<now, per_user, issued, recorded, admitted, crowded>>

\* NotFound returns early.
Find(t) ==
    /\ doing(t, "find")
    /\ IF known(t) THEN Advance(t) ELSE Leave(t)
    /\ UNCHANGED <<now, sessions, per_user, issued, recorded, admitted, crowded>>

Unpoint(t) ==
    /\ doing(t, "unpoint")
    /\ per_user' = [u \in Users |-> IF per_user[u] \in job[t].ids THEN NoId ELSE per_user[u]]
    /\ Advance(t)
    /\ UNCHANGED <<now, sessions, issued, recorded, admitted, crowded>>

Remove(t) ==
    /\ doing(t, "remove")
    /\ sessions' = [i \in DOMAIN sessions \ job[t].ids |-> sessions[i]]
    /\ Advance(t)
    /\ UNCHANGED <<now, per_user, issued, recorded, admitted, crowded>>

\* sweep_expired(): nothing expired, nothing saved.
Collect(t) ==
    /\ doing(t, "collect")
    /\ LET gone == {i \in DOMAIN sessions : sessions[i].expired}
       IN  IF gone = {} THEN Leave(t)
           ELSE job' = [job EXCEPT ![t] = [next_job(@) EXCEPT !.ids = gone]] /\ UNCHANGED locks
    /\ UNCHANGED <<now, sessions, per_user, issued, recorded, admitted, crowded>>

\* extend(): moves the deadline, or refuses, or panics inside the closure.
Extend(t) ==
    /\ doing(t, "extend")
    /\ \/ sessions' = [sessions EXCEPT ![the_id(t)].expired = FALSE] /\ Advance(t)
       \/ sessions' = sessions /\ Advance(t)
       \/ sessions' = sessions /\ Leave(t)
    /\ UNCHANGED <<now, per_user, issued, recorded, admitted, crowded>>

cooling(s) == s.last_action_at # Never /\ now - s.last_action_at < ACTION_COOLDOWN

\* touch_action()
Cooldown(t) ==
    /\ doing(t, "cooldown")
    /\ IF ~known(t) \/ cooling(sessions[the_id(t)]) THEN Leave(t) ELSE Advance(t)
    /\ UNCHANGED <<now, sessions, per_user, issued, recorded, admitted, crowded>>

Stamp(t) ==
    /\ doing(t, "stamp")
    /\ IF ~known(t) THEN Leave(t) /\ UNCHANGED <<sessions, admitted, crowded>>
       ELSE LET i == the_id(t)
            IN  /\ sessions' = [sessions EXCEPT ![i].last_action_at = now]
                /\ admitted' = [admitted EXCEPT ![i] = now]
                /\ crowded' = IF admitted[i] # Never /\ now - admitted[i] < ACTION_COOLDOWN
                              THEN crowded \cup {i} ELSE crowded
                /\ Advance(t)
    /\ UNCHANGED <<now, per_user, issued, recorded>>

\* Mutant: the newest entries are cut.
cut_newest(e) == IF Len(e) > MAX_EVENTS THEN SubSeq(e, 1, MAX_EVENTS) ELSE e

cut(e) == IF Len(e) > MAX_EVENTS THEN SubSeq(e, Len(e) - MAX_EVENTS + 1, Len(e)) ELSE e

\* record(): push, then cut at MAX_EVENTS.
Record(t) ==
    /\ doing(t, "record")
    /\ LET i == the_id(t)
       IN  /\ recorded' = [recorded EXCEPT ![i] = @ + 1]
           /\ sessions' = [sessions EXCEPT ![i].events = cut(Append(@, recorded[i] + 1))]
    /\ Advance(t)
    /\ UNCHANGED <<now, per_user, issued, admitted, crowded>>

\* get_user_session(), first read: no pointer, no session.
Pointer(t) ==
    /\ doing(t, "pointer")
    /\ IF per_user[job[t].user] = NoId THEN Leave(t)
       ELSE /\ job' = [job EXCEPT ![t] = [next_job(@) EXCEPT !.ids = {per_user[job[t].user]}]]
            /\ UNCHANGED locks
    /\ UNCHANGED <<now, sessions, per_user, issued, recorded, admitted, crowded>>

Lookup(t) ==
    /\ doing(t, "lookup")
    /\ job' = [job EXCEPT ![t] = [next_job(@) EXCEPT !.answer = IF known(t) THEN "found" ELSE "nothing"]]
    /\ UNCHANGED <<locks, now, sessions, per_user, issued, recorded, admitted, crowded>>

\* The action itself (SourceExec, SessionLifecycle), or 500 or 404 when the
\* manifest has no such scenario or action; the cooldown was started all the same.
Run(t) ==
    /\ doing(t, "run")
    /\ Advance(t) \/ Leave(t)
    /\ UNCHANGED <<now, sessions, per_user, issued, recorded, admitted, crowded>>

CallStep(t) ==
    \/ Acquire(t) \/ Release(t) \/ Check(t) \/ Point(t) \/ Insert(t) \/ Find(t) \/ Unpoint(t)
    \/ Remove(t) \/ Collect(t) \/ Extend(t) \/ Cooldown(t) \/ Stamp(t) \/ Record(t)
    \/ Pointer(t) \/ Lookup(t) \/ Run(t)

-----------------------------------------------------------------------------
(* Clients, the reaper's interval, and time                                 *)

Init ==
    /\ load \in Loads
    /\ now = 0
    /\ sessions = << >>
    /\ per_user = [u \in Users |-> NoId]
    /\ issued = {}
    /\ locks = [l \in Locks |-> Free]
    /\ job = [t \in All |-> Idle]
    /\ recorded = [i \in Ids |-> 0]
    /\ admitted = [i \in Ids |-> Never]
    /\ crowded = {}
    /\ vacant = [t \in All |-> FALSE]

Call(t, j) ==
    /\ ~busy(t) /\ j.op \in load.ops
    /\ job' = [job EXCEPT ![t] = j]
    /\ UNCHANGED <<now, sessions, per_user, locks, recorded, admitted, crowded>>

CallCreate(t, u) ==
    \E i \in load.ids \ issued : Call(t, Begin("create", u, {i})) /\ issued' = issued \cup {i}

CallOn(t, i) ==
    /\ i \in issued
    /\ \E op \in {"end", "extend", "action"} :
         /\ op = "action" => recorded[i] < MaxRecords
         /\ Call(t, Begin(op, NoId, {i}))
    /\ UNCHANGED issued

CallList(t, u) == Call(t, Begin("list", u, {})) /\ UNCHANGED issued

Sweep == Call(Reaper, Begin("sweep", NoId, {})) /\ UNCHANGED issued

\* The client is gone: a call that awaits a lock, or its action, is dropped.
ClientGone(t) ==
    /\ busy(t) /\ (instr(t)[1] = "lock" \/ doing(t, "run"))
    /\ Leave(t)
    /\ UNCHANGED <<now, sessions, per_user, issued, recorded, admitted, crowded>>

Expire(i) ==
    /\ "expire" \in load.ops
    /\ i \in DOMAIN sessions /\ ~sessions[i].expired
    /\ sessions' = [sessions EXCEPT ![i].expired = TRUE]
    /\ UNCHANGED <<now, per_user, issued, locks, job, recorded, admitted, crowded>>

Tick ==
    /\ "tick" \in load.ops /\ now < Horizon
    /\ now' = now + 1
    /\ UNCHANGED <<sessions, per_user, issued, locks, job, recorded, admitted, crowded>>

\* History: the user of a list had no session to find: no pointer that anyone
\* could read, or one to an expired session.
Witness ==
    LET nothing_to_find(u) ==
            \/ per_user'[u] = NoId /\ locks'["per_user"].mode # "write"
            \/ per_user'[u] \in DOMAIN sessions' /\ sessions'[per_user'[u]].expired
    IN  vacant' = [t \in All |-> /\ job'[t].op = "list"
                                /\ \/ job[t].op = "list" /\ vacant[t]
                                   \/ nothing_to_find(job'[t].user)]

Act ==
    \/ \E t \in All : CallStep(t)
    \/ \E t \in Tasks, u \in Users : CallCreate(t, u) \/ CallList(t, u)
    \/ \E t \in Tasks, i \in Ids : CallOn(t, i)
    \/ Sweep
    \/ \E t \in Tasks : ClientGone(t)
    \/ \E i \in Ids : Expire(i)
    \/ Tick

Next == Act /\ Witness /\ UNCHANGED load

Spec == Init /\ [][Next]_vars

\* The runtime polls every task that can go on.
FairSpec == Spec /\ \A t \in All : WF_vars(CallStep(t) /\ Witness /\ UNCHANGED load)

-----------------------------------------------------------------------------
(* Properties                                                               *)

TypeOK ==
    /\ now \in Times
    /\ DOMAIN sessions \subseteq issued /\ sessions \in [DOMAIN sessions -> Session]
    /\ per_user \in [Users -> Ids \cup {NoId}]
    /\ issued \subseteq Ids /\ crowded \subseteq Ids
    /\ \A l \in Locks : /\ locks[l].holders \subseteq All
                        /\ locks[l].mode = "none" <=> locks[l].holders = {}
                        /\ \A a, b \in locks[l].holders : locks[l].mode = "write" => a = b
    /\ \A t \in All : busy(t) => job[t].ip \in DOMAIN program(job[t].op)
    /\ vacant \in [All -> BOOLEAN]

\* Whoever reads the pointer finds it leading to a session of that user that is
\* in the map: the two maps are changed as one, in whatever order create, end,
\* sweep and dropped calls queue for the locks.
PointerNeverSeenDangling ==
    locks["per_user"].mode # "write" =>
        \A u \in Users : per_user[u] # NoId =>
            per_user[u] \in DOMAIN sessions /\ sessions[per_user[u]].user_id = u

\* Two actions of one session are never admitted within ACTION_COOLDOWN of each
\* other, however many requests try at once ("throttle action invocations
\* per-session").
Throttled == crowded = {}

\* What a reader of the event log sees: the newest MAX_EVENTS events, in order and
\* without a gap, whichever overlapping actions recorded them.
LogIsRecent ==
    locks["sessions"].mode # "write" =>
        \A i \in DOMAIN sessions :
            LET e == sessions[i].events
            IN  /\ Len(e) = IF recorded[i] < MAX_EVENTS THEN recorded[i] ELSE MAX_EVENTS
                /\ \A k \in DOMAIN e : e[k] = recorded[i] - Len(e) + k

\* "Look up the live session for user_id if any": although it reads the pointer
\* and the session under two separate locks, it answers "nothing" only if at
\* some moment of the call the user had none.
ListTruthful ==
    \A t \in Tasks : job[t].op = "list" /\ job[t].answer = "nothing" => vacant[t]

\* The moment of a call that changes the maps is the one at which it decides: what
\* it is going to do is promised from then on, and cannot be seen half done
\* because it holds both locks.
deciding(t) == job[t].op = "create" /\ job[t].ip <= 3
coming == {t \in All : doing(t, "point") \/ doing(t, "insert")}
going == UNION {job[t].ids : t \in {k \in All : doing(k, "unpoint") \/ doing(k, "remove")}}
arriving == UNION {job[t].ids : t \in coming}

promised_sessions ==
    [i \in (DOMAIN sessions \ going) \cup arriving |->
        IF i \in arriving THEN job[CHOOSE t \in coming : i \in job[t].ids].user
        ELSE sessions[i].user_id]
promised_pointers ==
    [u \in Users |->
        IF \E t \in coming : job[t].user = u THEN the_id(CHOOSE t \in coming : job[t].user = u)
        ELSE IF per_user[u] \in going THEN NoId ELSE per_user[u]]

\* However its calls overlap, wait, are refused or are dropped, the store does
\* what it would do if each call were one step: what is done under the locks, in
\* whatever order, is create, end, sweep or extend at a moment within the call; a
\* sweep takes exactly what is expired at that moment, and a session that is not
\* is taken only by an end() that has found it.
Store == INSTANCE SessionStore WITH
             sessions <- promised_sessions,
             expired  <- {i \in DOMAIN sessions \ going : sessions[i].expired},
             per_user <- promised_pointers,
             unused   <- (Ids \ issued) \cup UNION {job[t].ids : t \in {k \in All : deciding(k)}}
CallsAtOnce ==
    /\ Store!Init
    /\ [][Store!Call \/ (Store!Ended /\ \E t \in All : Find(t))]_(Store!vars)

\* Every call comes to an end: no deadlock between the two locks, no starvation
\* in their queues, and no lock left behind by a refused, dropped or panicking
\* call.
CallsFinish == \A t \in All : busy(t) ~> ~busy(t)

=============================================================================
