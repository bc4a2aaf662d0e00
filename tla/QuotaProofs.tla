----------------------------- MODULE QuotaProofs -----------------------------
(***************************************************************************)
(* Proofs about the daily quota, for any number of tenants, requests,      *)
(* days and restarts.                                                      *)
(***************************************************************************)
EXTENDS Quota, TLAPS

\* Creations are only counted on a date that has a record or had one that is
\* gone.
GrantsRecorded ==
    \A t \in Tenants, d \in Days : granted[t][d] > 0 /\ d \notin dropped =>
        t \in DOMAIN table /\ table[t].day = d

\* While a date has not been reopened its records are exact; in any case they
\* never count too much.
RecordsExact ==
    \A t \in DOMAIN table :
        /\ table[t].count <= granted[t][table[t].day]
        /\ table[t].day \notin reopened => table[t].count = granted[t][table[t].day]

\* A date that was dropped and not reopened has no record left.
DroppedGone ==
    \A t \in DOMAIN table : table[t].day \in dropped => table[t].day \in reopened

IndInv ==
    /\ TypeOK
    /\ GrantsRecorded
    /\ RecordsExact
    /\ DroppedGone
    /\ CapUnlessReopened
    /\ RefusedOnlyWhenSpent

-----------------------------------------------------------------------------
LEMMA InitInv == Init => IndInv
  BY QuotaAssumption
  DEF Init, IndInv, TypeOK, GrantsRecorded, RecordsExact, DroppedGone, CapUnlessReopened,
      RefusedOnlyWhenSpent, Days

LEMMA ConsumeInv ==
    ASSUME IndInv, NEW r \in Requests, Consume(r)
    PROVE  IndInv'
  <1> USE DEF IndInv
  <1> DEFINE t == req[r].tenant
             today == req[r].today
             c == count(t, today)
             ok == ~exhausted(c)
             n == IF ok THEN c + 1 ELSE c
  <1>1. t \in Tenants /\ today \in Days
    BY DEF Consume, TypeOK
  <1>2. /\ table' = [k \in retained(today) \cup {t} |->
                       IF k = t THEN [day |-> today, count |-> n] ELSE table[k]]
        /\ granted' = IF ok THEN [granted EXCEPT ![t][today] = @ + 1] ELSE granted
        /\ refused' = IF ok THEN refused ELSE refused \cup {<<t, today>>}
        /\ dropped' = dropped \cup {table[k].day : k \in DOMAIN table \ retained(today)}
        /\ reopened' = IF today \in dropped THEN reopened \cup {today} ELSE reopened
        /\ req' = [req EXCEPT ![r] = NoRequest]
        /\ day' = day /\ restarts' = restarts
    BY DEF Consume
  <1>3. c \in Nat /\ n \in Nat /\ c <= granted[t][today]
    BY <1>1, QuotaAssumption DEF count, retained, TypeOK, DailyRecord, RecordsExact
  <1>4. (today \notin dropped \/ t \in retained(today)) /\ today \notin reopened
          => c = granted[t][today]
    BY <1>1, QuotaAssumption
    DEF count, retained, TypeOK, DailyRecord, GrantsRecorded, RecordsExact, DroppedGone,
        CapUnlessReopened
  <1>5. /\ DOMAIN table' = retained(today) \cup {t}
        /\ table'[t] = [day |-> today, count |-> n]
        /\ \A k \in DOMAIN table' : k # t =>
              k \in DOMAIN table /\ table'[k] = table[k] /\ table[k].day = today
    BY <1>2 DEF retained
  <1>6. /\ granted' \in [Tenants -> [Days -> Nat]]
        /\ granted'[t][today] = granted[t][today] + (IF ok THEN 1 ELSE 0)
        /\ \A k \in Tenants, d \in Days :
              <<k, d>> # <<t, today>> => granted'[k][d] = granted[k][d]
    BY <1>1, <1>2 DEF TypeOK
  <1>7. TypeOK'
    <2>1. table' \in [DOMAIN table' -> DailyRecord] /\ DOMAIN table' \subseteq Tenants
      BY <1>1, <1>2, <1>3, <1>5 DEF TypeOK, DailyRecord, retained
    <2>2. refused' \in SUBSET (Tenants \X Days)
      BY <1>1, <1>2 DEF TypeOK
    <2>3. dropped' \in SUBSET Days
      BY <1>2 DEF TypeOK, DailyRecord
    <2>4. req' \in [Requests -> [tenant : Tenants, today : Days] \cup {NoRequest}]
      BY <1>2 DEF TypeOK
    <2>5. QED
      BY <1>1, <1>2, <1>6, <2>1, <2>2, <2>3, <2>4 DEF TypeOK
  <1>8. \A d \in Days : d \notin dropped' => d \notin dropped
    BY <1>2
  <1>9. GrantsRecorded'
    <2>1. SUFFICES ASSUME NEW k \in Tenants, NEW d \in Days,
                          granted'[k][d] > 0, d \notin dropped'
                   PROVE  k \in DOMAIN table' /\ table'[k].day = d
      BY DEF GrantsRecorded
    <2>2. CASE k = t /\ d = today
      BY <1>5, <2>2
    <2>3. CASE ~(k = t /\ d = today)
      <3>1. k \in DOMAIN table /\ table[k].day = d
        BY <1>6, <1>8, <2>1, <2>3 DEF GrantsRecorded
      <3>2. k \in retained(today)
        BY <1>2, <2>1, <3>1
      <3>3. QED
        BY <1>2, <1>5, <2>3, <3>1, <3>2 DEF retained
    <2>4. QED
      BY <2>2, <2>3
  <1>10. RecordsExact'
    <2>1. SUFFICES ASSUME NEW k \in DOMAIN table'
                   PROVE  /\ table'[k].count <= granted'[k][table'[k].day]
                          /\ table'[k].day \notin reopened' =>
                                table'[k].count = granted'[k][table'[k].day]
      BY DEF RecordsExact
    <2>2. CASE k = t
      BY <1>1, <1>2, <1>3, <1>4, <1>5, <1>6, <2>2, QuotaAssumption DEF TypeOK
    <2>3. CASE k # t
      <3>1. k \in Tenants /\ table'[k] = table[k] /\ table[k].day \in Days
        BY <1>5, <2>1, <2>3 DEF TypeOK, DailyRecord
      <3>2. granted'[k][table[k].day] = granted[k][table[k].day]
        BY <1>6, <2>3, <3>1
      <3>3. QED
        BY <1>2, <1>5, <2>1, <2>3, <3>1, <3>2 DEF RecordsExact
    <2>4. QED
      BY <2>2, <2>3
  <1>11. DroppedGone'
    <2>1. \A k \in DOMAIN table' : table'[k].day = today
      BY <1>5
    <2>2. today \in dropped' => today \in dropped
      BY <1>2 DEF retained
    <2>3. QED
      BY <1>2, <2>1, <2>2 DEF DroppedGone
  <1>12. CapUnlessReopened'
    <2>1. SUFFICES ASSUME NEW k \in Tenants, NEW d \in Days, d \notin reopened'
                   PROVE  granted'[k][d] <= max_per_day
      BY DEF CapUnlessReopened
    <2>2. granted[k][d] <= max_per_day /\ granted[k][d] \in Nat
      BY <1>2, <2>1 DEF CapUnlessReopened, TypeOK
    <2>3. CASE k = t /\ d = today /\ ok
      <3>1. c = granted[t][today]
        BY <1>2, <1>4, <2>1, <2>3
      <3>2. QED
        BY <1>3, <1>6, <2>2, <2>3, <3>1, QuotaAssumption DEF exhausted
    <2>4. CASE ~(k = t /\ d = today /\ ok)
      <3>1. CASE k = t /\ d = today
        BY <1>6, <2>2, <2>4, <3>1
      <3>2. CASE ~(k = t /\ d = today)
        BY <1>6, <2>2, <3>2
      <3>3. QED
        BY <3>1, <3>2
    <2>5. QED
      BY <2>3, <2>4
  <1>13. RefusedOnlyWhenSpent'
    <2>1. SUFFICES ASSUME NEW p \in refused'
                   PROVE  granted'[p[1]][p[2]] >= max_per_day
      BY DEF RefusedOnlyWhenSpent
    <2>2. p[1] \in Tenants /\ p[2] \in Days /\ p = <<p[1], p[2]>>
      BY <1>7, <2>1 DEF TypeOK
    <2>3. granted'[p[1]][p[2]] \in Nat /\ granted[p[1]][p[2]] \in Nat
      BY <1>6, <2>2 DEF TypeOK
    <2>4. granted'[p[1]][p[2]] >= granted[p[1]][p[2]]
      BY <1>6, <2>2, <2>3
    <2>5. granted[p[1]][p[2]] >= max_per_day
      <3>1. CASE p \in refused
        BY <3>1 DEF RefusedOnlyWhenSpent
      <3>2. CASE p \notin refused
        <4>1. p[1] = t /\ p[2] = today /\ ~ok
          BY <1>2, <2>1, <3>2
        <4>2. c >= max_per_day
          BY <4>1 DEF exhausted
        <4>3. QED
          BY <1>3, <2>3, <4>1, <4>2, QuotaAssumption
      <3>3. QED
        BY <3>1, <3>2
    <2>6. QED
      BY <2>3, <2>4, <2>5, QuotaAssumption
  <1>14. QED
    BY <1>7, <1>9, <1>10, <1>11, <1>12, <1>13

LEMMA NextInv == IndInv /\ [Next]_vars => IndInv'
  <1>1. SUFFICES ASSUME IndInv, [Next]_vars
                 PROVE  IndInv'
    OBVIOUS
  <1> USE DEF IndInv, GrantsRecorded, RecordsExact, DroppedGone, CapUnlessReopened,
              RefusedOnlyWhenSpent
  <1>2. ASSUME NEW r \in Requests, NEW t \in Tenants, Stamp(r, t)
        PROVE  IndInv'
    BY <1>1, <1>2 DEF Stamp, TypeOK
  <1>3. CASE NextDay
    BY <1>1, <1>3, QuotaAssumption DEF NextDay, TypeOK, Days
  <1>4. CASE Restart
    <2>1. DOMAIN table' = {} /\ table' \in [DOMAIN table' -> DailyRecord]
      BY <1>4 DEF Restart
    <2>2. TypeOK'
      BY <1>1, <1>4, <2>1, QuotaAssumption DEF Restart, TypeOK, DailyRecord
    <2>3. GrantsRecorded'
      BY <1>1, <1>4 DEF Restart
    <2>4. QED
      BY <1>1, <1>4, <2>1, <2>2, <2>3 DEF Restart
  <1>5. CASE UNCHANGED vars
    BY <1>1, <1>5 DEF vars, TypeOK
  <1>6. QED
    BY <1>1, <1>2, <1>3, <1>4, <1>5, ConsumeInv DEF Next

-----------------------------------------------------------------------------
\* IndInv holds in every reachable state.
THEOREM Inductive == Spec => []IndInv
  <1>1. Init => IndInv
    BY InitInv
  <1>2. IndInv /\ [Next]_vars => IndInv'
    BY NextInv
  <1>3. QED
    BY <1>1, <1>2, PTL DEF Spec

\* A date whose records were not dropped and recharged never exceeds the cap.
THEOREM Cap == Spec => []CapUnlessReopened
  <1>1. IndInv => CapUnlessReopened
    BY DEF IndInv
  <1>2. QED
    BY <1>1, Inductive, PTL

\* DailyLimit is answered only to a tenant that used up the date's allowance.
THEOREM NoUnfairRefusal == Spec => []RefusedOnlyWhenSpent
  <1>1. IndInv => RefusedOnlyWhenSpent
    BY DEF IndInv
  <1>2. QED
    BY <1>1, Inductive, PTL

\* The admin readout never overstates what a tenant consumed.
THEOREM PeekSound == Spec => []PeekNeverOverstates
  <1>1. IndInv => PeekNeverOverstates
    BY DEF IndInv, TypeOK, RecordsExact, PeekNeverOverstates, peek
  <1>2. QED
    BY <1>1, Inductive, PTL

=============================================================================
