-------------------------------- MODULE Quota --------------------------------
(***************************************************************************)
(* The per-tenant daily cap on session creations (quota.rs).               *)
(*                                                                         *)
(* A request reads the clock before it takes the mutex, so requests that   *)
(* straddle midnight may be served out of the order of their dates; each   *)
(* one prunes every record that is not of its own date.  The table is in   *)
(* memory only and starts empty again after a restart.                     *)
(***************************************************************************)
EXTENDS Integers

CONSTANTS
    Tenants,        \* tenant keys, the "" slot of anonymous callers included
    Requests,       \* requests that may be inside try_consume at a time
    NoRequest,      \* an idle request slot
    max_per_day,    \* MAX_SESSIONS_PER_TENANT_PER_DAY or its override
    LastDay,        \* bound: the calendar ends here
    MaxRestarts     \* bound: restarts of the server

ASSUME QuotaAssumption ==
    /\ max_per_day \in Nat /\ LastDay \in Nat /\ MaxRestarts \in Nat

Days == 0 .. LastDay
ASSUME NoRequestAssumption == NoRequest \notin [tenant : Tenants, today : Days]

VARIABLES
    day,        \* the UTC date
    table,      \* PlaygroundQuotaTracker.state: tenant -> DailyRecord
    req,        \* what each request inside try_consume has read
    granted,    \* history: creations let through, by tenant and stamped date
    refused,    \* history: <<tenant, date>> answered DailyLimit
    dropped,    \* history: dates whose records were pruned or lost
    reopened,   \* history: dates charged again after their records were gone
    restarts

vars == <<day, table, req, granted, refused, dropped, reopened, restarts>>

DailyRecord == [day : Days, count : Nat]

TypeOK ==
    /\ day \in Days
    /\ DOMAIN table \subseteq Tenants /\ table \in [DOMAIN table -> DailyRecord]
    /\ req \in [Requests -> [tenant : Tenants, today : Days] \cup {NoRequest}]
    /\ granted \in [Tenants -> [Days -> Nat]]
    /\ refused \in SUBSET (Tenants \X Days)
    /\ dropped \in SUBSET Days /\ reopened \in SUBSET Days
    /\ restarts \in 0 .. MaxRestarts

Init ==
    /\ day = 0
    /\ table = << >>
    /\ req = [r \in Requests |-> NoRequest]
    /\ granted = [t \in Tenants |-> [d \in Days |-> 0]]
    /\ refused = {}
    /\ dropped = {} /\ reopened = {}
    /\ restarts = 0

-----------------------------------------------------------------------------
\* Mutant: the stamp is a day ahead.
Stamp_tomorrow(r, t) ==
    /\ req[r] = NoRequest
    /\ req' = [req EXCEPT ![r] = [tenant |-> t, today |-> day + 1]]
    /\ UNCHANGED <<day, table, granted, refused, dropped, reopened, restarts>>

\* try_consume(): Utc::now() is read before the mutex is taken.
Stamp(r, t) ==
    /\ req[r] = NoRequest
    /\ req' = [req EXCEPT ![r] = [tenant |-> t, today |-> day]]
    /\ UNCHANGED <<day, table, granted, refused, dropped, reopened, restarts>>

\* map.retain(|_, rec| rec.day == today)
retained(today) == {t \in DOMAIN table : table[t].day = today}

\* Mutant: a record of another date counts as one of today's.
count_any_day(t, today) == IF t \in DOMAIN table THEN table[t].count ELSE 0

\* The entry's count, or that of the fresh entry.
count(t, today) == IF t \in retained(today) THEN table[t].count ELSE 0

\* Mutant: the limit is compared after one more creation than it should be.
exhausted_late(n) == n > max_per_day

exhausted(n) == n >= max_per_day

\* try_consume_at(): prune, find or insert the entry, compare, count.  The
\* pruning and the insertion happen on the refusing path too.
Consume(r) ==
    /\ req[r] # NoRequest
    /\ LET t     == req[r].tenant
           today == req[r].today
           ok    == ~exhausted(count(t, today))
           n     == IF ok THEN count(t, today) + 1 ELSE count(t, today)
       IN  /\ table' = [k \in retained(today) \cup {t} |->
                          IF k = t THEN [day |-> today, count |-> n] ELSE table[k]]
           /\ granted' = IF ok THEN [granted EXCEPT ![t][today] = @ + 1] ELSE granted
           /\ refused' = IF ok THEN refused ELSE refused \cup {<<t, today>>}
           /\ dropped' = dropped \cup {table[k].day : k \in DOMAIN table \ retained(today)}
           /\ reopened' = IF today \in dropped THEN reopened \cup {today} ELSE reopened
    /\ req' = [req EXCEPT ![r] = NoRequest]
    /\ UNCHANGED <<day, restarts>>

\* Midnight, UTC.
NextDay ==
    /\ day < LastDay
    /\ day' = day + 1
    /\ UNCHANGED <<table, req, granted, refused, dropped, reopened, restarts>>

\* The process is replaced: requests in flight and all counts are gone.
Restart ==
    /\ restarts < MaxRestarts
    /\ restarts' = restarts + 1
    /\ table' = << >>
    /\ req' = [r \in Requests |-> NoRequest]
    /\ dropped' = dropped \cup {table[k].day : k \in DOMAIN table}
    /\ UNCHANGED <<day, granted, refused, reopened>>

Next ==
    \/ \E r \in Requests, t \in Tenants : Stamp(r, t)
    \/ \E r \in Requests : Consume(r)
    \/ NextDay
    \/ Restart

Spec == Init /\ [][Next]_vars

-----------------------------------------------------------------------------
(* Properties                                                               *)

\* peek(): the count the admin readout shows.
peek(t) == IF t \in DOMAIN table /\ table[t].day = day THEN table[t].count ELSE 0

\* No tenant gets more than max_per_day creations of one UTC date, as long as
\* that date's records were not dropped and the date then charged again.  (They
\* are dropped by a restart, and by a request stamped before midnight that is
\* served after one stamped later.)
CapUnlessReopened ==
    \A t \in Tenants, d \in Days :
        d \notin reopened => granted[t][d] <= max_per_day

\* Nobody pays for another tenant or another day: an answer DailyLimit means
\* that this tenant really used up that date's allowance.
RefusedOnlyWhenSpent ==
    \A p \in refused : granted[p[1]][p[2]] >= max_per_day

\* The readout never shows more creations than the tenant got that day.
PeekNeverOverstates == \A t \in Tenants : peek(t) <= granted[t][day]

=============================================================================
