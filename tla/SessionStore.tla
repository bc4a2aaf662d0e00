----------------------------- MODULE SessionStore -----------------------------
(***************************************************************************)
(* What the session store promises its callers: two maps, and calls that   *)
(* take effect at one moment.  SessionManager implements it with clocks    *)
(* and a file, StoreLocks with two locks and several steps to a call.      *)
(***************************************************************************)
CONSTANTS Users, Ids,
          NoId      \* "no entry" in the per-user map

VARIABLES
    sessions,   \* id -> owner, of the sessions in the map
    expired,    \* those past their deadline
    per_user,   \* user -> the session to show, or NoId
    unused      \* ids no session has had yet

vars == <<sessions, expired, per_user, unused>>

Init ==
    /\ sessions = << >>
    /\ expired = {}
    /\ per_user = [u \in Users |-> NoId]
    /\ unused = Ids

\* One active session per user: a pointer to an expired one is replaced.
Create(u, i) ==
    /\ per_user[u] \notin DOMAIN sessions \ expired
    /\ i \in unused
    /\ sessions' = [k \in DOMAIN sessions \cup {i} |-> IF k = i THEN u ELSE sessions[k]]
    /\ per_user' = [per_user EXCEPT ![u] = i]
    /\ unused' = unused \ {i}
    /\ UNCHANGED expired

\* An id that was drawn for a call that came to nothing.
Discard(i) == unused' = unused \ {i} /\ UNCHANGED <<sessions, expired, per_user>>

Remove(gone) ==
    /\ sessions' = [k \in DOMAIN sessions \ gone |-> sessions[k]]
    /\ expired' = expired \ gone
    /\ per_user' = [u \in Users |-> IF per_user[u] \in gone THEN NoId ELSE per_user[u]]
    /\ UNCHANGED unused

End(i) == i \in DOMAIN sessions /\ Remove({i})

\* All that are expired at that moment, and no other.
Sweep == Remove(expired)

\* An extension reaches a session that has expired as long as it is in the map.
Revive(i) == expired' = expired \ {i} /\ UNCHANGED <<sessions, per_user, unused>>

Age(gone) ==
    /\ gone \subseteq DOMAIN sessions
    /\ expired' = expired \cup gone
    /\ UNCHANGED <<sessions, per_user, unused>>

\* A new process: some of the sessions there have been, none of them expired, and a
\* pointer for each of their users.
Restart ==
    /\ DOMAIN sessions' \subseteq Ids \ unused
    /\ sessions' \in [DOMAIN sessions' -> Users]
    /\ expired' = {}
    /\ per_user' \in [Users -> Ids \cup {NoId}]
    /\ \A u \in Users :
         LET own == {i \in DOMAIN sessions' : sessions'[i] = u}
         IN  IF own = {} THEN per_user'[u] = NoId ELSE per_user'[u] \in own
    /\ UNCHANGED unused

\* No call but the owner's end() takes a session that has not expired.
Call ==
    \/ \E u \in Users, i \in Ids : Create(u, i)
    \/ \E i \in Ids : Discard(i) \/ Revive(i)
    \/ Sweep
    \/ \E gone \in SUBSET Ids : Age(gone)
Ended == \E i \in Ids : End(i)

Spec == Init /\ [][Call \/ Ended \/ Restart]_vars

=============================================================================
