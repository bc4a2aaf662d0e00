--------------------------- MODULE SessionManager ---------------------------
(***************************************************************************)
(* The session store of the playground (sessions.rs): the sessions map,    *)
(* the per-user pointer that enforces "one active session per user", the   *)
(* two clocks that decide when a session has expired, the background       *)
(* sweep, and the JSON file a restarted server is hydrated from.           *)
(*                                                                         *)
(* One action is one call of the manager made under its locks, with the    *)
(* trailing persist().  What the file system makes of two overlapping      *)
(* persist() calls is the subject of SessionPersist; here a save either    *)
(* reaches the file or is dropped.                                         *)
(***************************************************************************)
EXTENDS Integers

CONSTANTS
    Users,              \* authenticated user ids
    Ids,                \* session ids Uuid::new_v4 may draw
    NoId,               \* "no entry" in the per-user map
    MIN_TTL, MAX_TTL,   \* lifetime limits, in ticks
    default_ttl,        \* PLAYGROUND_TTL_SECS, in ticks: what the operator set
    DEFAULT_TTL,        \* the built-in lifetime that replaces a bad setting
    Horizon             \* bound: the clock stops here

ASSUME NoIdAssumption == NoId \notin Ids
ASSUME TimeAssumption ==
    /\ MIN_TTL \in Nat \ {0} /\ MAX_TTL \in Nat /\ DEFAULT_TTL \in Nat
    /\ MIN_TTL <= DEFAULT_TTL /\ DEFAULT_TTL <= MAX_TTL
    /\ default_ttl \in Nat /\ Horizon \in Nat

VARIABLES
    now,            \* Utc::now() and Instant::now(): both advance together
    sessions,       \* SessionManager.sessions, a partial function on Ids
    perUser,        \* SessionManager.per_user
    file,           \* sessions.json: the last snapshot that reached the disk
    issued,         \* ids drawn so far: v4 ids do not repeat
    lateExtenders,  \* history: users who extended a session past its deadline
    hydrated        \* history: ids restored from the file and not extended since

vars == <<now, sessions, perUser, file, issued, lateExtenders, hydrated>>

Times == 0 .. Horizon
Requested == 0 .. (MAX_TTL + 1) \* ttl_seconds / seconds a client may send

\* A session as held in memory, and the part of it serde writes to the file.
\* The status, the event log and last_action_at are fields the store never
\* decides by (a session whose status is Ended is never in the map).
Session == [user_id : Users, expires_at : Nat, ttl : Nat,
            created_monotonic : Times]
Saved == [user_id : Users, expires_at : Nat, ttl : Nat]

TypeOK ==
    /\ now \in Times
    /\ DOMAIN sessions \subseteq Ids /\ sessions \in [DOMAIN sessions -> Session]
    /\ perUser \in [Users -> Ids \cup {NoId}]
    /\ DOMAIN file \subseteq Ids /\ file \in [DOMAIN file -> Saved]
    /\ issued \in SUBSET Ids
    /\ lateExtenders \in SUBSET Users
    /\ hydrated \in SUBSET Ids

-----------------------------------------------------------------------------
(* Clocks and lifetimes                                                     *)

elapsed(s) == now - s.created_monotonic

\* Strict on the monotonic clock, inclusive on the wall clock.
is_expired(s) == elapsed(s) > s.ttl \/ now >= s.expires_at

\* Mutant: operands of the subtraction swapped, so nothing saturates.
remaining_swapped(s) == elapsed(s) - s.ttl

\* checked_sub(..).unwrap_or(ZERO): what SessionView reports and extend uses.
remaining(s) == IF s.ttl >= elapsed(s) THEN s.ttl - elapsed(s) ELSE 0

\* Mutant: the upper limit is forgotten.
clamp_ttl_no_max(t) == MIN_TTL <= t

clamp_ttl(t) == MIN_TTL <= t /\ t <= MAX_TTL

\* The field default_ttl of the manager, as its constructors set it.
effective_default == IF clamp_ttl(default_ttl) THEN default_ttl ELSE DEFAULT_TTL

\* The lifetime of a new session: the one asked for, if it passes, or the default.
lifetimes == {t \in Requested : clamp_ttl(t)} \cup {effective_default}

\* extend(extra) refuses when this is too long.
new_total(s, extra) == remaining(s) + extra
\* Mutant: the time already elapsed is forgotten.
extended_no_elapsed(s, extra) ==
    [s EXCEPT !.ttl = new_total(s, extra),
              !.expires_at = now + new_total(s, extra)]

\* Mutant: only the monotonic deadline is moved.
extended_ttl_only(s, extra) ==
    [s EXCEPT !.ttl = elapsed(s) + new_total(s, extra)]

\* Mutant: the time still remaining is forgotten.
extended_from_now(s, extra) ==
    [s EXCEPT !.ttl = elapsed(s) + extra, !.expires_at = now + extra]

\* The session after extend(extra): both deadlines are moved.
extended(s, extra) ==
    [s EXCEPT !.ttl = elapsed(s) + new_total(s, extra),
              !.expires_at = now + new_total(s, extra)]

new_session(u, ttl) ==
    [user_id |-> u, expires_at |-> now + ttl, ttl |-> ttl,
     created_monotonic |-> now]

-----------------------------------------------------------------------------
(* Saving and restoring                                                     *)

\* #[serde(skip)] on created_monotonic.
to_saved(m) ==
    [i \in DOMAIN m |-> [user_id |-> m[i].user_id,
                         expires_at |-> m[i].expires_at, ttl |-> m[i].ttl]]

\* persist(): the snapshot reaches the file, or the failure is logged and lost.
persist == file' = to_saved(sessions') \/ file' = file

\* hydrate_from_disk(): what survives of the file at this moment ...
kept(f) == {i \in DOMAIN f : ~(f[i].expires_at <= now)}
\* ... re-anchored to the new process's clock.
restored(f) ==
    [i \in kept(f) |->
        [user_id |-> f[i].user_id, expires_at |-> f[i].expires_at,
         ttl |-> f[i].ttl, created_monotonic |-> now]]
\* per_user.insert in file order: the last session of a user wins, and the
\* file lists the sessions in the arbitrary order of a HashMap.
pointers(f) ==
    {p \in [Users -> Ids \cup {NoId}] : \A u \in Users :
        LET own == {i \in kept(f) : f[i].user_id = u}
        IN  IF own = {} THEN p[u] = NoId ELSE p[u] \in own}

-----------------------------------------------------------------------------
(* The operations                                                           *)

Init ==
    /\ now = 0
    /\ sessions = << >>
    /\ perUser = [u \in Users |-> NoId]
    /\ file = << >>
    /\ issued = {}
    /\ lateExtenders = {}
    /\ hydrated = {}

\* The user's pointer leads to a session that still counts.
holds_live(u) ==
    /\ perUser[u] \in DOMAIN sessions
    /\ ~is_expired(sessions[perUser[u]])

\* create(): a stale pointer is overwritten; the session it led to stays in
\* the map until a sweep or an end removes it.
Create(u, ttl) ==
    /\ ttl \in lifetimes
    /\ ~holds_live(u)
    /\ \E id \in Ids \ issued :
        /\ sessions' = [i \in DOMAIN sessions \cup {id} |->
                          IF i = id THEN new_session(u, ttl) ELSE sessions[i]]
        /\ perUser' = [perUser EXCEPT ![u] = id]
        /\ issued' = issued \cup {id}
    /\ persist
    /\ UNCHANGED <<now, lateExtenders, hydrated>>

\* update() with a closure that writes the status or records an event, and an
\* extend() that is refused: for the store the map is as before, but it is
\* saved again.
Update(id) ==
    /\ id \in DOMAIN sessions
    /\ UNCHANGED <<now, sessions, perUser, issued, lateExtenders, hydrated>>
    /\ persist

\* update() with extend(): no check that the session is still alive.
Extend(id, extra) ==
    /\ id \in DOMAIN sessions
    /\ new_total(sessions[id], extra) <= MAX_TTL
    /\ sessions' = [sessions EXCEPT ![id] = extended(sessions[id], extra)]
    /\ lateExtenders' = IF is_expired(sessions[id])
                        THEN lateExtenders \cup {sessions[id].user_id}
                        ELSE lateExtenders
    /\ hydrated' = hydrated \ {id}
    /\ persist
    /\ UNCHANGED <<now, perUser, issued>>

\* Mutant: the pointers are left alone.
Remove_keep_pointers(gone) ==
    /\ sessions' = [i \in DOMAIN sessions \ gone |-> sessions[i]]
    /\ perUser' = perUser

\* Mutant: the owner's pointer is cleared even if it leads elsewhere.
Remove_owner_pointer(gone) ==
    /\ sessions' = [i \in DOMAIN sessions \ gone |-> sessions[i]]
    /\ perUser' = [u \in Users |->
                     IF \E i \in gone : sessions[i].user_id = u THEN NoId ELSE perUser[u]]

\* Remove the sessions of a set, and the pointers that lead to them.
Remove(gone) ==
    /\ sessions' = [i \in DOMAIN sessions \ gone |-> sessions[i]]
    /\ perUser' = [u \in Users |-> IF perUser[u] \in gone THEN NoId ELSE perUser[u]]

\* end(), by the owner.
End(id) ==
    /\ id \in DOMAIN sessions
    /\ Remove({id})
    /\ persist
    /\ UNCHANGED <<now, issued, lateExtenders, hydrated>>

\* Mutant: only sessions some pointer leads to are looked at.
lapsed_pointed == {i \in DOMAIN sessions : is_expired(sessions[i])
                                           /\ perUser[sessions[i].user_id] = i}

lapsed == {i \in DOMAIN sessions : is_expired(sessions[i])}

\* sweep_expired(), called by the reaper; it saves only when it removed some.
SweepExpired ==
    /\ lapsed # {}
    /\ Remove(lapsed)
    /\ persist
    /\ UNCHANGED <<now, issued, lateExtenders, hydrated>>

\* The process dies and a new one is built by new_with_persistence().
Restart ==
    /\ sessions' = restored(file)
    /\ perUser' \in pointers(file)
    /\ hydrated' = kept(file)
    /\ UNCHANGED <<now, file, issued, lateExtenders>>

Tick ==
    /\ now < Horizon
    /\ now' = now + 1
    /\ UNCHANGED <<sessions, perUser, file, issued, lateExtenders, hydrated>>

Next ==
    \/ \E u \in Users, ttl \in lifetimes : Create(u, ttl)
    \/ \E id \in Ids : Update(id)
    \/ \E id \in Ids, extra \in Requested : Extend(id, extra)
    \/ \E id \in Ids : End(id)
    \/ SweepExpired
    \/ Restart
    \/ Tick

Spec == Init /\ [][Next]_vars

\* The reaper's interval fires for as long as the process lives.
FairSpec == Spec /\ WF_vars(SweepExpired)

-----------------------------------------------------------------------------
(* Properties                                                               *)

live(u) == {i \in DOMAIN sessions : sessions[i].user_id = u
                                    /\ ~is_expired(sessions[i])}

\* The per-user pointer never dangles: it leads to a session of that user that
\* is still in the map, whatever mix of create, end, sweep and restart came
\* before (sessions.rs: create, end, sweep_expired, hydrate_from_disk).
PointerSound ==
    \A u \in Users : perUser[u] # NoId =>
        /\ perUser[u] \in DOMAIN sessions
        /\ sessions[perUser[u]].user_id = u

\* A user who never extended a session past its deadline holds at most one
\* live session, and it is the one the pointer (list_my_sessions) shows --
\* across dropped saves and restarts.
OneLiveUnlessLateExtend ==
    \A u \in Users \ lateExtenders : live(u) \subseteq {perUser[u]}

\* What the module comment promises of every user ("one active per
\* authenticated user"): false, see extend().
OneLiveSessionPerUser ==
    \A u \in Users : \A i, j \in live(u) : i = j

\* The two clocks name the same deadline, except for a session restored from
\* the file and not extended since: hydrate anchors it at the present moment,
\* and not, as its comment says, at the present moment minus the time elapsed.
\* Re-anchoring never makes a session die before the deadline its owner was
\* shown: the monotonic deadline is never the earlier one.
ClocksAgree ==
    \A i \in DOMAIN sessions :
        LET monotonic == sessions[i].created_monotonic + sessions[i].ttl
        IN  /\ sessions[i].expires_at <= monotonic
            /\ i \notin hydrated => sessions[i].expires_at = monotonic

\* No chain of extensions and restarts, and no setting of the default lifetime,
\* puts a deadline further away than MAX_TTL ("prevents accidental resource
\* squatting").
DeadlineWithinMax ==
    \A i \in DOMAIN sessions : sessions[i].expires_at <= now + MAX_TTL

\* Short of a restart from an older file, a deadline shown to the owner is
\* never moved closer.
DeadlineOnlyGrows ==
    [][\/ Restart
       \/ \A i \in DOMAIN sessions \cap DOMAIN sessions' :
              sessions[i].expires_at <= sessions'[i].expires_at]_vars

\* A session past its deadline does not stay in the map: it is swept, ended,
\* revived by an extension or forgotten by a restart.
LapsedIsSwept ==
    \A id \in Ids :
        (id \in DOMAIN sessions /\ is_expired(sessions[id]))
            ~> ~(id \in DOMAIN sessions /\ is_expired(sessions[id]))

\* Seen without its clocks and its file the manager is the promised store: dropped
\* saves and sessions of more than one lifetime included, a call does to the two
\* maps what it should and nothing else, and an id never comes back for another
\* session.  Only a restart, from however old a file, may forget or bring back some.
Store == INSTANCE SessionStore WITH
             sessions <- [i \in DOMAIN sessions |-> sessions[i].user_id],
             expired  <- lapsed,
             per_user <- perUser,
             unused   <- Ids \ issued
KeepsStore ==
    /\ Store!Init
    /\ [][\/ Store!Call
          \/ \E id \in Ids : End(id) /\ Store!End(id)
          \/ Restart /\ Store!Restart]_(Store!vars)

=============================================================================
