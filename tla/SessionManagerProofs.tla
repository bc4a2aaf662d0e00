------------------------ MODULE SessionManagerProofs ------------------------
(***************************************************************************)
(* Proofs of the safety invariants of SessionManager, for every set of     *)
(* users and ids and every choice of the time constants.                   *)
(*                                                                         *)
(* The inductive invariant has a part about memory and a part about the    *)
(* file: the latter says what any snapshot that ever reached the disk must *)
(* satisfy for a restart at any later moment to be harmless.               *)
(***************************************************************************)
EXTENDS SessionManager, TLAPS

\* OneLiveUnlessLateExtend, with the wall clock in place of is_expired.
OneLiveByWall ==
    \A u \in Users \ lateExtenders : \A i \in DOMAIN sessions :
        sessions[i].user_id = u /\ now < sessions[i].expires_at => i = perUser[u]

MemType ==
    /\ now \in Times
    /\ DOMAIN sessions \subseteq Ids /\ sessions \in [DOMAIN sessions -> Session]
    /\ perUser \in [Users -> Ids \cup {NoId}]
    /\ issued \in SUBSET Ids
    /\ lateExtenders \in SUBSET Users
    /\ hydrated \in SUBSET Ids

MemInv ==
    /\ MemType
    /\ DOMAIN sessions \subseteq issued
    /\ \A i \in DOMAIN sessions : sessions[i].created_monotonic <= now
    /\ PointerSound
    /\ ClocksAgree
    /\ DeadlineWithinMax
    /\ OneLiveByWall

\* Two sessions of one user in the file are not both still to come.
FileOneLive ==
    \A u \in Users \ lateExtenders : \A i, j \in DOMAIN file :
        /\ file[i].user_id = u /\ file[j].user_id = u
        /\ now < file[i].expires_at /\ now < file[j].expires_at
        => i = j

FileInv ==
    /\ DOMAIN file \subseteq Ids /\ file \in [DOMAIN file -> Saved]
    /\ DOMAIN file \subseteq issued
    /\ \A i \in DOMAIN file : /\ file[i].expires_at <= now + file[i].ttl
                              /\ file[i].expires_at <= now + MAX_TTL
    /\ FileOneLive

IndInv == MemInv /\ FileInv

-----------------------------------------------------------------------------
(* Lemmas                                                                   *)

\* Whatever the operator configured, no new session outlives MAX_TTL.
LEMMA LifetimesBounded ==
    ASSUME NEW t \in lifetimes
    PROVE  t \in Nat /\ t <= MAX_TTL
  BY TimeAssumption DEF lifetimes, effective_default, clamp_ttl, Requested

\* The monotonic clock never decides: is_expired is the wall-clock test.
LEMMA ExpiredByWall ==
    ASSUME MemType, ClocksAgree, NEW i \in DOMAIN sessions
    PROVE  is_expired(sessions[i]) <=> now >= sessions[i].expires_at
  BY TimeAssumption DEF MemType, ClocksAgree, is_expired, elapsed, Session, Times

\* The saturating subtraction, for a session whose clock anchor is in the past.
LEMMA RemainingNat ==
    ASSUME MemType, NEW i \in DOMAIN sessions, sessions[i].created_monotonic <= now
    PROVE  /\ remaining(sessions[i]) \in Nat
           /\ elapsed(sessions[i]) \in Nat
  BY TimeAssumption DEF MemType, remaining, elapsed, Session, Times

\* A snapshot of a sound memory is a sound file, and a dropped save leaves a
\* sound file sound.
LEMMA PersistSound ==
    ASSUME FileInv, MemInv', persist, now' = now,
           issued \subseteq issued', lateExtenders \subseteq lateExtenders'
    PROVE  FileInv'
  <1>1. CASE file' = file
    BY <1>1 DEF FileInv, FileOneLive, MemInv, MemType
  <1>2. CASE file' = to_saved(sessions')
    <2>1. DOMAIN file' = DOMAIN sessions'
      BY <1>2 DEF to_saved
    <2>2. \A i \in DOMAIN sessions' :
             file'[i] = [user_id |-> sessions'[i].user_id,
                         expires_at |-> sessions'[i].expires_at,
                         ttl |-> sessions'[i].ttl]
      BY <1>2 DEF to_saved
    <2>3. file' \in [DOMAIN file' -> Saved]
      BY <1>2, <2>1, <2>2 DEF to_saved, MemInv, MemType, Session, Saved
    <2>4. DOMAIN file' \subseteq Ids /\ DOMAIN file' \subseteq issued'
      BY <2>1 DEF MemInv, MemType
    <2>5. \A i \in DOMAIN file' : /\ file'[i].expires_at <= now' + file'[i].ttl
                                  /\ file'[i].expires_at <= now' + MAX_TTL
      BY <2>1, <2>2, TimeAssumption
      DEF MemInv, MemType, ClocksAgree, DeadlineWithinMax, Session, Times
    <2>6. FileOneLive'
      BY <2>1, <2>2 DEF MemInv, OneLiveByWall, FileOneLive
    <2>7. QED
      BY <2>3, <2>4, <2>5, <2>6 DEF FileInv
  <1>3. QED
    BY <1>1, <1>2 DEF persist

-----------------------------------------------------------------------------
(* Every action preserves the invariant                                     *)

LEMMA InitInv == Init => IndInv
  BY TimeAssumption, NoIdAssumption
  DEF Init, IndInv, MemInv, MemType, FileInv, FileOneLive, PointerSound, ClocksAgree,
      DeadlineWithinMax, OneLiveByWall, Times

LEMMA CreateInv ==
    ASSUME IndInv, NEW u \in Users, NEW ttl \in lifetimes, Create(u, ttl)
    PROVE  IndInv'
  <1> USE DEF IndInv
  <1>1. PICK id \in Ids \ issued :
          /\ sessions' = [i \in DOMAIN sessions \cup {id} |->
                            IF i = id THEN new_session(u, ttl) ELSE sessions[i]]
          /\ perUser' = [perUser EXCEPT ![u] = id]
          /\ issued' = issued \cup {id}
    BY DEF Create
  <1>2. /\ now' = now /\ lateExtenders' = lateExtenders /\ hydrated' = hydrated
        /\ ttl <= MAX_TTL /\ ttl \in Nat /\ persist
    BY LifetimesBounded DEF Create
  <1>3. id \notin DOMAIN sessions /\ \A v \in Users : perUser[v] # id
    BY NoIdAssumption DEF MemInv, MemType, PointerSound
  <1>4. /\ DOMAIN sessions' = DOMAIN sessions \cup {id}
        /\ sessions'[id] = new_session(u, ttl)
        /\ \A i \in DOMAIN sessions : sessions'[i] = sessions[i]
    BY <1>1, <1>3
  <1>5. new_session(u, ttl) \in Session
    BY <1>2, TimeAssumption DEF new_session, Session, MemInv, MemType, Times
  <1>6. MemType'
    <2>1. sessions' \in [DOMAIN sessions' -> Session]
      BY <1>1, <1>4, <1>5 DEF MemInv, MemType
    <2>2. QED
      BY <1>1, <1>2, <1>4, <2>1 DEF MemInv, MemType
  <1>7. PointerSound'
    BY <1>1, <1>3, <1>4, NoIdAssumption DEF PointerSound, MemInv, MemType, new_session
  <1>8. ClocksAgree' /\ DeadlineWithinMax'
        /\ (\A i \in DOMAIN sessions : sessions[i].created_monotonic <= now)'
    BY <1>2, <1>4, TimeAssumption
    DEF MemInv, MemType, ClocksAgree, DeadlineWithinMax, new_session, Times
  <1>9. OneLiveByWall'
    <2>1. \A i \in DOMAIN sessions :
             u \notin lateExtenders /\ sessions[i].user_id = u => now >= sessions[i].expires_at
      <3>1. SUFFICES ASSUME NEW i \in DOMAIN sessions, u \notin lateExtenders,
                            sessions[i].user_id = u, now < sessions[i].expires_at
                     PROVE  FALSE
        BY DEF MemInv, MemType, Session, Times
      <3>2. i = perUser[u]
        BY <3>1 DEF MemInv, OneLiveByWall
      <3>3. is_expired(sessions[i])
        BY <3>1, <3>2 DEF Create, holds_live
      <3>4. QED
        BY <3>1, <3>3, ExpiredByWall DEF MemInv, MemType, Session, Times
    <2>2. SUFFICES ASSUME NEW v \in Users \ lateExtenders, NEW i \in DOMAIN sessions',
                          sessions'[i].user_id = v, now < sessions'[i].expires_at
                   PROVE  i = perUser'[v]
      BY <1>2 DEF OneLiveByWall
    <2>3. CASE i = id
      BY <1>1, <1>4, <2>2, <2>3 DEF new_session, MemInv, MemType
    <2>4. CASE i # id
      <3>1. i \in DOMAIN sessions /\ sessions'[i] = sessions[i]
        BY <1>4, <2>4
      <3>2. v # u
        BY <2>1, <2>2, <3>1 DEF MemInv, MemType, Session, Times
      <3>3. QED
        BY <1>1, <2>2, <3>1, <3>2 DEF MemInv, MemType, OneLiveByWall
    <2>5. QED
      BY <2>3, <2>4
  <1>10. MemInv'
    BY <1>1, <1>4, <1>6, <1>7, <1>8, <1>9 DEF MemInv
  <1>11. QED
    BY <1>1, <1>2, <1>10, PersistSound

LEMMA UpdateInv ==
    ASSUME IndInv, NEW id \in Ids, Update(id)
    PROVE  IndInv'
  <1>1. MemInv'
    BY DEF Update, IndInv, MemInv, MemType, PointerSound, ClocksAgree,
           DeadlineWithinMax, OneLiveByWall
  <1>2. QED
    BY <1>1, PersistSound DEF IndInv, Update

LEMMA ExtendInv ==
    ASSUME IndInv, NEW id \in Ids, NEW extra \in Requested, Extend(id, extra)
    PROVE  IndInv'
  <1> USE DEF IndInv
  <1> DEFINE total == new_total(sessions[id], extra)
             late == is_expired(sessions[id])
             owner == sessions[id].user_id
  <1>1. /\ id \in DOMAIN sessions /\ total <= MAX_TTL /\ persist
        /\ sessions' = [sessions EXCEPT ![id] = extended(sessions[id], extra)]
        /\ lateExtenders' = IF late THEN lateExtenders \cup {owner} ELSE lateExtenders
        /\ hydrated' = hydrated \ {id}
        /\ now' = now /\ perUser' = perUser /\ issued' = issued
    BY DEF Extend
  <1>2. /\ elapsed(sessions[id]) \in Nat /\ total \in Nat
        /\ sessions[id].created_monotonic + elapsed(sessions[id]) = now
    <2>1. sessions[id] \in Session /\ sessions[id].created_monotonic <= now
      BY <1>1 DEF MemInv, MemType
    <2>2. extra \in Nat
      BY TimeAssumption DEF Requested
    <2>3. QED
      BY <1>1, <2>1, <2>2, RemainingNat
      DEF MemInv, MemType, new_total, Session, elapsed, Times
  <1>3. /\ DOMAIN sessions' = DOMAIN sessions
        /\ \A i \in DOMAIN sessions : i # id => sessions'[i] = sessions[i]
        /\ sessions'[id] = [user_id |-> owner, expires_at |-> now + total,
                            ttl |-> elapsed(sessions[id]) + total,
                            created_monotonic |-> sessions[id].created_monotonic]
    BY <1>1 DEF extended, MemInv, MemType, Session
  <1>4. MemType'
    <2>1. sessions'[id] \in Session
      BY <1>1, <1>2, <1>3 DEF MemInv, MemType, Session, Times
    <2>2. sessions' \in [DOMAIN sessions' -> Session]
      BY <1>1, <1>3, <2>1 DEF MemInv, MemType
    <2>3. lateExtenders' \in SUBSET Users
      BY <1>1 DEF MemInv, MemType, Session
    <2>4. QED
      BY <1>1, <1>3, <2>2, <2>3 DEF MemInv, MemType
  <1>5. PointerSound'
    BY <1>1, <1>3 DEF MemInv, PointerSound
  <1>6. ClocksAgree'
    BY <1>1, <1>2, <1>3, TimeAssumption
    DEF MemInv, MemType, ClocksAgree, Session, Times
  <1>7. DeadlineWithinMax' /\ (\A i \in DOMAIN sessions : sessions[i].created_monotonic <= now)'
    BY <1>1, <1>2, <1>3, TimeAssumption
    DEF MemInv, MemType, DeadlineWithinMax, Session, Times
  <1>8. OneLiveByWall'
    <2>1. SUFFICES ASSUME NEW v \in Users \ lateExtenders', NEW i \in DOMAIN sessions,
                          sessions'[i].user_id = v, now < sessions'[i].expires_at
                   PROVE  i = perUser[v]
      BY <1>1, <1>3 DEF OneLiveByWall
    <2>2. v \in Users \ lateExtenders
      BY <1>1, <2>1
    <2>3. sessions[i].user_id = v
      BY <1>3, <2>1
    <2>4. now < sessions[i].expires_at
      <3>1. CASE i = id
        <4>1. ~late
          BY <1>1, <2>1, <2>3, <3>1
        <4>2. ~(now >= sessions[i].expires_at)
          BY <3>1, <4>1, ExpiredByWall DEF MemInv
        <4>3. QED
          BY <4>2 DEF MemInv, MemType, Session, Times
      <3>2. CASE i # id
        BY <1>3, <2>1, <3>2
      <3>3. QED
        BY <3>1, <3>2
    <2>5. QED
      BY <2>1, <2>2, <2>3, <2>4 DEF MemInv, OneLiveByWall
  <1>9. MemInv'
    BY <1>1, <1>3, <1>4, <1>5, <1>6, <1>7, <1>8 DEF MemInv
  <1>10. QED
    BY <1>1, <1>9, PersistSound

\* end() and sweep_expired() remove sessions and exactly the pointers to them.
LEMMA RemoveInv ==
    ASSUME IndInv, NEW gone \in SUBSET DOMAIN sessions, Remove(gone), persist,
           UNCHANGED <<now, issued, lateExtenders, hydrated>>
    PROVE  IndInv'
  <1> USE DEF IndInv
  <1>1. /\ DOMAIN sessions' = DOMAIN sessions \ gone
        /\ \A i \in DOMAIN sessions' : sessions'[i] = sessions[i]
        /\ sessions' \in [DOMAIN sessions' -> Session]
    BY DEF Remove, MemInv, MemType
  <1>2. /\ \A u \in Users : perUser'[u] = IF perUser[u] \in gone THEN NoId ELSE perUser[u]
        /\ perUser' \in [Users -> Ids \cup {NoId}]
    BY DEF Remove, MemInv, MemType
  <1>3. MemType'
    BY <1>1, <1>2 DEF MemInv, MemType
  <1>4. PointerSound'
    BY <1>1, <1>2 DEF MemInv, PointerSound
  <1>5. ClocksAgree' /\ DeadlineWithinMax'
        /\ (\A i \in DOMAIN sessions : sessions[i].created_monotonic <= now)'
    BY <1>1 DEF MemInv, ClocksAgree, DeadlineWithinMax
  <1>6. OneLiveByWall'
    BY <1>1, <1>2 DEF MemInv, OneLiveByWall
  <1>7. MemInv'
    BY <1>1, <1>3, <1>4, <1>5, <1>6 DEF MemInv
  <1>8. QED
    BY <1>7, PersistSound

LEMMA EndInv ==
    ASSUME IndInv, NEW id \in Ids, End(id)
    PROVE  IndInv'
  BY RemoveInv DEF End

LEMMA SweepInv ==
    ASSUME IndInv, SweepExpired
    PROVE  IndInv'
  <1>1. lapsed \in SUBSET DOMAIN sessions
    BY DEF lapsed
  <1>2. QED
    BY <1>1, RemoveInv DEF SweepExpired

LEMMA RestartInv ==
    ASSUME IndInv, Restart
    PROVE  IndInv'
  <1> USE DEF IndInv
  <1>1. /\ DOMAIN sessions' = kept(file) /\ kept(file) \subseteq DOMAIN file
        /\ \A i \in kept(file) :
              sessions'[i] = [user_id |-> file[i].user_id, expires_at |-> file[i].expires_at,
                              ttl |-> file[i].ttl, created_monotonic |-> now]
    BY DEF Restart, restored, kept
  <1>2. /\ now' = now /\ file' = file /\ issued' = issued
        /\ lateExtenders' = lateExtenders /\ hydrated' = kept(file)
    BY DEF Restart
  <1>3. /\ perUser' \in [Users -> Ids \cup {NoId}]
        /\ \A u \in Users : perUser'[u] # NoId =>
              perUser'[u] \in kept(file) /\ file[perUser'[u]].user_id = u
        /\ \A u \in Users : \A i \in kept(file) : file[i].user_id = u =>
              perUser'[u] \in kept(file) /\ file[perUser'[u]].user_id = u
    BY DEF Restart, pointers
  <1>4. FileInv'
    BY <1>2 DEF FileInv, FileOneLive
  <1>5. MemType'
    <2>1. sessions' \in [DOMAIN sessions' -> Session]
      BY <1>1 DEF Restart, restored, FileInv, Saved, Session, MemInv, MemType
    <2>2. QED
      BY <1>1, <1>2, <1>3, <2>1 DEF MemInv, MemType, FileInv
  <1>6. PointerSound'
    BY <1>1, <1>3 DEF PointerSound
  <1>7. ClocksAgree' /\ DeadlineWithinMax'
        /\ (\A i \in DOMAIN sessions : sessions[i].created_monotonic <= now)'
    BY <1>1, <1>2 DEF ClocksAgree, DeadlineWithinMax, FileInv, MemInv, MemType, Times
  <1>8. OneLiveByWall'
    <2>1. SUFFICES ASSUME NEW u \in Users \ lateExtenders, NEW i \in kept(file),
                          file[i].user_id = u, now < file[i].expires_at
                   PROVE  i = perUser'[u]
      BY <1>1, <1>2 DEF OneLiveByWall
    <2>2. perUser'[u] \in kept(file) /\ file[perUser'[u]].user_id = u
      BY <1>3, <2>1
    <2>3. now < file[perUser'[u]].expires_at
      BY <1>1, <2>2 DEF kept, FileInv, Saved, MemInv, MemType, Times
    <2>4. QED
      BY <1>1, <2>1, <2>2, <2>3 DEF FileInv, FileOneLive
  <1>9. QED
    BY <1>1, <1>2, <1>4, <1>5, <1>6, <1>7, <1>8 DEF MemInv, FileInv

LEMMA TickInv ==
    ASSUME IndInv, Tick
    PROVE  IndInv'
  <1>1. now' \in Times /\ now' = now + 1
    BY TimeAssumption DEF Tick, IndInv, MemInv, MemType, Times
  <1>2. MemInv'
    BY <1>1, TimeAssumption
    DEF Tick, IndInv, MemInv, MemType, PointerSound, ClocksAgree,
        DeadlineWithinMax, OneLiveByWall, Session, Times
  <1>3. FileInv'
    BY <1>1, TimeAssumption
    DEF Tick, IndInv, MemInv, MemType, FileInv, FileOneLive, Saved, Times
  <1>4. QED
    BY <1>2, <1>3 DEF IndInv

LEMMA NextInv == IndInv /\ [Next]_vars => IndInv'
  <1>1. SUFFICES ASSUME IndInv, [Next]_vars
                 PROVE  IndInv'
    OBVIOUS
  <1>2. CASE UNCHANGED vars
    BY <1>1, <1>2
    DEF vars, IndInv, MemInv, MemType, FileInv, FileOneLive, PointerSound, ClocksAgree,
        DeadlineWithinMax, OneLiveByWall
  <1>3. CASE Next
    BY <1>1, <1>3, CreateInv, UpdateInv, ExtendInv, EndInv, SweepInv, RestartInv, TickInv
    DEF Next
  <1>4. QED
    BY <1>1, <1>2, <1>3

-----------------------------------------------------------------------------
(* The theorems                                                             *)

\* IndInv holds in every reachable state.
THEOREM Inductive == Spec => []IndInv
  <1>1. Init => IndInv
    BY InitInv
  <1>2. IndInv /\ [Next]_vars => IndInv'
    BY NextInv
  <1>3. QED
    BY <1>1, <1>2, PTL DEF Spec

\* The store's variables keep their types.
THEOREM TypeCorrect == Spec => []TypeOK
  <1>1. IndInv => TypeOK
    BY DEF IndInv, MemInv, MemType, FileInv, TypeOK
  <1>2. QED
    BY <1>1, Inductive, PTL

\* The per-user pointer never dangles, whatever create, end, sweep, extension
\* and restart came before.
THEOREM PointerNeverDangles == Spec => []PointerSound
  <1>1. IndInv => PointerSound
    BY DEF IndInv, MemInv
  <1>2. QED
    BY <1>1, Inductive, PTL

\* One live session per user, and it is the one the pointer shows, for users
\* who never extended a session past its deadline.
THEOREM OneLivePerUser == Spec => []OneLiveUnlessLateExtend
  <1>1. IndInv => OneLiveUnlessLateExtend
    <2>1. SUFFICES ASSUME IndInv, NEW u \in Users \ lateExtenders, NEW i \in live(u)
                   PROVE  i = perUser[u]
      BY DEF OneLiveUnlessLateExtend
    <2>2. i \in DOMAIN sessions /\ sessions[i].user_id = u /\ ~is_expired(sessions[i])
      BY <2>1 DEF live
    <2>3. ~(now >= sessions[i].expires_at)
      BY <2>1, <2>2, ExpiredByWall DEF IndInv, MemInv
    <2>4. now < sessions[i].expires_at
      BY <2>1, <2>2, <2>3 DEF IndInv, MemInv, MemType, Session, Times
    <2>5. QED
      BY <2>1, <2>2, <2>4 DEF IndInv, MemInv, OneLiveByWall
  <1>2. QED
    BY <1>1, Inductive, PTL

\* The monotonic deadline is never the earlier one, so a restart never shortens
\* the life of a session, and the two agree on every session that hydrate() did
\* not restore since its last extension.
THEOREM ClocksConsistent == Spec => []ClocksAgree
  <1>1. IndInv => ClocksAgree
    BY DEF IndInv, MemInv
  <1>2. QED
    BY <1>1, Inductive, PTL

\* No deadline is ever further away than the longest lifetime granted.
THEOREM NoSquatting == Spec => []DeadlineWithinMax
  <1>1. IndInv => DeadlineWithinMax
    BY DEF IndInv, MemInv
  <1>2. QED
    BY <1>1, Inductive, PTL

\* Short of a restart from an older file, no operation moves a deadline closer:
\* an extension starts from a remaining time that is at least the shown one.
THEOREM DeadlinesGrow == Spec => DeadlineOnlyGrows
  <1> DEFINE Grows == \A i \in DOMAIN sessions \cap DOMAIN sessions' :
                          sessions[i].expires_at <= sessions'[i].expires_at
  <1>1. ASSUME IndInv, Next, ~Restart
        PROVE  Grows
    <2>1. \A i \in DOMAIN sessions : sessions[i] \in Session
      BY <1>1 DEF IndInv, MemInv, MemType
    <2>2. ASSUME NEW u \in Users, NEW ttl \in lifetimes, Create(u, ttl)
          PROVE  Grows
      BY <1>1, <2>1, <2>2 DEF Create, IndInv, MemInv, Session
    <2>3. ASSUME NEW id \in Ids, NEW extra \in Requested, Extend(id, extra)
          PROVE  Grows
      <3>1. /\ id \in DOMAIN sessions /\ now' = now
            /\ sessions' = [sessions EXCEPT ![id] = extended(sessions[id], extra)]
        BY <2>3 DEF Extend
      <3>2. remaining(sessions[id]) \in Nat /\ extra \in Nat
        BY <1>1, <3>1, RemainingNat, TimeAssumption DEF IndInv, MemInv, Requested
      <3>3. sessions[id].expires_at <= now + remaining(sessions[id])
        BY <1>1, <2>1, <3>1
        DEF IndInv, MemInv, MemType, ClocksAgree, remaining, elapsed, Session, Times
      <3>4. sessions'[id].expires_at = now + (remaining(sessions[id]) + extra)
        BY <2>1, <3>1 DEF extended, new_total, Session
      <3>5. sessions[id].expires_at <= sessions'[id].expires_at
        BY <1>1, <2>1, <3>1, <3>2, <3>3, <3>4 DEF IndInv, MemInv, MemType, Session, Times
      <3>6. QED
        BY <2>1, <3>1, <3>5 DEF Session
    <2>4. ASSUME NEW gone, Remove(gone)
          PROVE  Grows
      BY <2>1, <2>4 DEF Remove, Session
    <2>5. ASSUME UNCHANGED sessions
          PROVE  Grows
      BY <2>1, <2>5 DEF Session
    <2>6. QED
      BY <1>1, <2>2, <2>3, <2>4, <2>5 DEF Next, Update, End, SweepExpired, Tick
  <1>2. IndInv /\ [Next]_vars => [Restart \/ Grows]_vars
    BY <1>1
  <1>3. QED
    BY <1>2, Inductive, PTL DEF Spec, DeadlineOnlyGrows

-----------------------------------------------------------------------------
(* The manager is the promised store                                        *)

\* The moment of each call at which the promised store changes; the clock of
\* the wall is all that tells which sessions are past their deadline.
LEMMA LapsedByWall ==
    ASSUME IndInv, IndInv'
    PROVE  /\ lapsed = {i \in DOMAIN sessions : now >= sessions[i].expires_at}
           /\ lapsed' = {i \in DOMAIN sessions' : now' >= sessions'[i].expires_at}
  <1>1. \A i \in DOMAIN sessions : is_expired(sessions[i]) <=> now >= sessions[i].expires_at
    BY ExpiredByWall DEF IndInv, MemInv
  <1>2. \A i \in DOMAIN sessions' :
           is_expired(sessions[i])' <=> now' >= sessions'[i].expires_at
    BY TimeAssumption DEF IndInv, MemInv, MemType, ClocksAgree, is_expired, elapsed, Session, Times
  <1>3. QED
    BY <1>1, <1>2 DEF lapsed

\* create(): the new session counts at once, for no lifetime is zero.
LEMMA CreateKeeps ==
    ASSUME IndInv, IndInv', NEW u \in Users, NEW ttl \in lifetimes, Create(u, ttl)
    PROVE  \E id \in Ids : Store!Create(u, id)
  <1>1. PICK id \in Ids \ issued :
          /\ sessions' = [i \in DOMAIN sessions \cup {id} |->
                            IF i = id THEN new_session(u, ttl) ELSE sessions[i]]
          /\ perUser' = [perUser EXCEPT ![u] = id]
          /\ issued' = issued \cup {id}
    BY DEF Create
  <1>2. id \notin DOMAIN sessions /\ now' = now
    BY DEF Create, IndInv, MemInv
  <1>3. /\ DOMAIN sessions' = DOMAIN sessions \cup {id}
        /\ sessions'[id] = new_session(u, ttl)
        /\ \A i \in DOMAIN sessions : sessions'[i] = sessions[i]
    BY <1>1, <1>2
  <1>4. perUser[u] \notin DOMAIN sessions \ lapsed
    BY DEF Create, holds_live, lapsed
  <1>5. [i \in DOMAIN sessions |-> sessions[i].user_id]'
          = [k \in DOMAIN [i \in DOMAIN sessions |-> sessions[i].user_id] \cup {id} |->
               IF k = id THEN u ELSE [i \in DOMAIN sessions |-> sessions[i].user_id][k]]
    BY <1>2, <1>3 DEF new_session
  <1>6. lapsed' = lapsed
    <2>1. ttl \in Nat \ {0}
      BY TimeAssumption DEF lifetimes, effective_default, clamp_ttl, Requested
    <2>2. ~(now >= sessions'[id].expires_at)
      BY <1>3, <2>1 DEF new_session, IndInv, MemInv, MemType, Times
    <2>3. QED
      BY <1>2, <1>3, <2>2, LapsedByWall
  <1>7. Ids \ issued' = (Ids \ issued) \ {id}
    BY <1>1
  <1>8. QED
    BY <1>1, <1>4, <1>5, <1>6, <1>7 DEF Store!Create

\* update() with extend(): a session past its deadline counts again, and a
\* live one stays live.
LEMMA ExtendKeeps ==
    ASSUME IndInv, IndInv', NEW id \in Ids, NEW extra \in Requested, Extend(id, extra)
    PROVE  Store!Revive(id) \/ UNCHANGED Store!vars
  <1>1. /\ id \in DOMAIN sessions /\ now' = now /\ perUser' = perUser /\ issued' = issued
        /\ sessions' = [sessions EXCEPT ![id] = extended(sessions[id], extra)]
    BY DEF Extend
  <1>2. remaining(sessions[id]) \in Nat /\ new_total(sessions[id], extra) \in Nat
    BY <1>1, RemainingNat, TimeAssumption DEF IndInv, MemInv, Requested, new_total
  <1>3. /\ DOMAIN sessions' = DOMAIN sessions
        /\ \A i \in DOMAIN sessions : i # id => sessions'[i] = sessions[i]
        /\ sessions'[id].user_id = sessions[id].user_id
        /\ sessions'[id].expires_at = now + new_total(sessions[id], extra)
    BY <1>1 DEF extended, IndInv, MemInv, MemType, Session
  <1>4. [i \in DOMAIN sessions |-> sessions[i].user_id]'
          = [i \in DOMAIN sessions |-> sessions[i].user_id]
    BY <1>3
  <1>5. \A i \in DOMAIN sessions : i # id => (i \in lapsed' <=> i \in lapsed)
    BY <1>1, <1>3, LapsedByWall
  <1>6. id \in lapsed' => id \in lapsed
    <2>1. SUFFICES ASSUME now >= now + new_total(sessions[id], extra)
                   PROVE  now >= sessions[id].expires_at
      BY <1>1, <1>3, LapsedByWall
    <2>2. remaining(sessions[id]) = 0
      BY <1>2, <2>1, TimeAssumption DEF IndInv, MemInv, MemType, Times, Requested, new_total
    <2>3. QED
      BY <1>1, <2>2
      DEF IndInv, MemInv, MemType, ClocksAgree, remaining, elapsed, Session, Times
  <1>7. lapsed \subseteq DOMAIN sessions /\ lapsed' \subseteq DOMAIN sessions
    BY <1>3 DEF lapsed
  <1>8. lapsed' = lapsed \/ lapsed' = lapsed \ {id}
    BY <1>1, <1>5, <1>6, <1>7
  <1>9. QED
    BY <1>1, <1>4, <1>8 DEF Store!Revive, Store!vars

\* end() and sweep_expired() take sessions and exactly the pointers to them.
LEMMA RemoveKeeps ==
    ASSUME IndInv, IndInv', NEW gone \in SUBSET DOMAIN sessions, Remove(gone),
           UNCHANGED <<now, issued>>
    PROVE  Store!Remove(gone)
  <1>1. /\ DOMAIN sessions' = DOMAIN sessions \ gone
        /\ \A i \in DOMAIN sessions' : sessions'[i] = sessions[i]
    BY DEF Remove
  <1>2. [i \in DOMAIN sessions |-> sessions[i].user_id]'
          = [k \in DOMAIN [i \in DOMAIN sessions |-> sessions[i].user_id] \ gone |->
               [i \in DOMAIN sessions |-> sessions[i].user_id][k]]
    BY <1>1
  <1>3. lapsed' = lapsed \ gone
    BY <1>1, LapsedByWall
  <1>4. QED
    BY <1>2, <1>3 DEF Remove, Store!Remove

\* hydrate_from_disk(): what is kept of the file has its deadline ahead of it,
\* and every user with a session gets a pointer to one.
LEMMA RestartKeeps ==
    ASSUME IndInv, IndInv', Restart
    PROVE  Store!Restart
  <1> DEFINE owner == [i \in DOMAIN sessions |-> sessions[i].user_id]
  <1>1. /\ DOMAIN sessions' = kept(file) /\ kept(file) \subseteq DOMAIN file
        /\ \A i \in kept(file) : /\ sessions'[i].user_id = file[i].user_id
                                 /\ sessions'[i].expires_at = file[i].expires_at
        /\ now' = now /\ issued' = issued
    BY DEF Restart, restored, kept
  <1>2. DOMAIN owner' = kept(file) /\ \A i \in kept(file) : owner'[i] = file[i].user_id
    BY <1>1
  <1>3. owner' = [i \in DOMAIN owner' |-> owner'[i]]
    OBVIOUS
  <1> HIDE DEF owner
  <1>4. kept(file) \subseteq Ids /\ kept(file) \subseteq issued
    BY <1>1 DEF IndInv, FileInv
  <1>5. \A i \in kept(file) : file[i].user_id \in Users
    BY <1>1 DEF IndInv, FileInv, Saved
  <1>6. owner' \in [DOMAIN owner' -> Users]
    BY <1>2, <1>3, <1>5
  <1>7. lapsed' = {}
    <2>1. \A i \in kept(file) : ~(now >= file[i].expires_at)
      BY <1>1 DEF kept, IndInv, MemInv, MemType, FileInv, Saved, Times
    <2>2. QED
      BY <1>1, <2>1, LapsedByWall
  <1>8. \A u \in Users : {i \in DOMAIN owner' : owner'[i] = u}
                           = {i \in kept(file) : file[i].user_id = u}
    BY <1>2
  <1>9. /\ perUser' \in [Users -> Ids \cup {NoId}]
        /\ \A u \in Users :
             LET own == {i \in DOMAIN owner' : owner'[i] = u}
             IN  IF own = {} THEN perUser'[u] = NoId ELSE perUser'[u] \in own
    BY <1>8 DEF Restart, pointers
  <1>10. DOMAIN owner' \subseteq Ids \ (Ids \ issued)
    BY <1>2, <1>4
  <1>11. Ids \ issued' = Ids \ issued
    BY <1>1
  <1>12. QED
    BY <1>6, <1>7, <1>9, <1>10, <1>11 DEF Store!Restart, owner

LEMMA TickKeeps ==
    ASSUME IndInv, IndInv', Tick
    PROVE  \E gone \in SUBSET Ids : Store!Age(gone)
  <1>1. now' = now + 1 /\ sessions' = sessions /\ perUser' = perUser /\ issued' = issued
    BY DEF Tick
  <1>2. lapsed \subseteq lapsed' /\ lapsed' \subseteq DOMAIN sessions
    BY <1>1, LapsedByWall DEF IndInv, MemInv, MemType, Times, Session
  <1>3. DOMAIN sessions \subseteq Ids /\ lapsed' = lapsed \cup lapsed'
    BY <1>2 DEF IndInv, MemInv, MemType
  <1>4. Store!Age(lapsed')
    BY <1>1, <1>2, <1>3 DEF Store!Age
  <1>5. QED
    BY <1>2, <1>3, <1>4

\* Seen without its clocks and its file the manager is the promised store: each
\* call, each dropped save, the passing of time and a restart from whatever the
\* file holds is one call of it or changes nothing there.
THEOREM ManagerKeepsStore == Spec => KeepsStore
  <1> DEFINE Kept == \/ Store!Call
                     \/ \E id \in Ids : End(id) /\ Store!End(id)
                     \/ Restart /\ Store!Restart
  <1>1. Init => Store!Init
    BY DEF Init, Store!Init, lapsed
  <1>2. IndInv /\ IndInv' /\ [Next]_vars => [Kept]_(Store!vars)
    <2>1. SUFFICES ASSUME IndInv, IndInv', [Next]_vars
                   PROVE  Kept \/ UNCHANGED Store!vars
      OBVIOUS
    <2>2. CASE UNCHANGED vars
      BY <2>2 DEF vars, Store!vars, lapsed, is_expired, elapsed
    <2>3. ASSUME NEW u \in Users, NEW ttl \in lifetimes, Create(u, ttl)
          PROVE  Kept
      BY <2>1, <2>3, CreateKeeps DEF Store!Call
    <2>4. ASSUME NEW id \in Ids, Update(id)
          PROVE  UNCHANGED Store!vars
      BY <2>4 DEF Update, Store!vars, lapsed, is_expired, elapsed
    <2>5. ASSUME NEW id \in Ids, NEW extra \in Requested, Extend(id, extra)
          PROVE  Kept \/ UNCHANGED Store!vars
      BY <2>1, <2>5, ExtendKeeps DEF Store!Call
    <2>6. ASSUME NEW id \in Ids, End(id)
          PROVE  Kept
      <3>1. Store!Remove({id})
        BY <2>1, <2>6, RemoveKeeps DEF End
      <3>2. Store!End(id)
        BY <2>6, <3>1 DEF End, Store!End
      <3>3. QED
        BY <2>6, <3>2
    <2>7. CASE SweepExpired
      <3>1. PICK gone \in SUBSET DOMAIN sessions : gone = lapsed
        BY DEF lapsed
      <3>2. Remove(gone) /\ UNCHANGED <<now, issued>>
        BY <2>7, <3>1 DEF SweepExpired
      <3>3. Store!Remove(gone)
        BY <2>1, <3>2, RemoveKeeps
      <3>4. QED
        BY <3>1, <3>3 DEF Store!Call, Store!Sweep, Store!Remove
    <2>8. CASE Restart
      BY <2>1, <2>8, RestartKeeps
    <2>9. CASE Tick
      BY <2>1, <2>9, TickKeeps DEF Store!Call
    <2>10. QED
      BY <2>1, <2>2, <2>3, <2>4, <2>5, <2>6, <2>7, <2>8, <2>9 DEF Next
  <1>3. QED
    BY <1>1, <1>2, Inductive, PTL DEF Spec, KeepsStore

=============================================================================
