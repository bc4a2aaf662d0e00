------------------------------ MODULE Admission ------------------------------
(***************************************************************************)
(* The way of a request to a session: the bearer gate (router.rs), the     *)
(* identity middleware (identity.rs), and create_session (handlers.rs) up  *)
(* to the insertion into the store, in the order of their early returns.   *)
(* Composes Manifest, chosen at each start, and Quota, charged on the way; *)
(* of the store only whether the user holds a live session is kept (its    *)
(* module is SessionManager), of the metrics the counter of starts.        *)
(***************************************************************************)
EXTENDS Quota, Manifest, FiniteSets

CONSTANTS
    Users, NoUser,  \* NoUser: the user header is absent or blank
    auth_token,     \* whether PLAYGROUND_TOKEN is set
    deployment_kind,
    Candidates,     \* what load_manifest may find on disk at a start
    ScenarioIds,    \* ids that requests name
    MaxCharges      \* bound: calls of try_consume of one process

ASSUME AdmissionAssumption == /\ NoUser \notin Users /\ auth_token \in BOOLEAN
                              /\ MaxCharges \in Nat /\ IsFiniteSet(Requests)
                              /\ "garbage" \notin ScenarioIds
                              /\ \A files \in Candidates :
                                   /\ files \in Seq(Range(files))
                                   /\ \A f \in Range(files) \ {Absent, Unreadable} :
                                        f.scenarios \in Seq(Range(f.scenarios))

VARIABLES
    manifest,   \* the manifest in force, or NoManifest
    ask,        \* where each request is
    live,       \* users with a session that counts for UserLimit
    started,    \* session_started_total, by outcome
    bought      \* history: sessions opened, by tenant and date of the charge

own == <<manifest, ask, live, started, bought>>
admVars == <<vars, own>>

Paths == {"/health", "/metrics", "/api/v1/health", "/api/v1/manifest", "/api/v1/sessions"}
Probes == Paths \ {"/api/v1/sessions"}

\* What the early returns look at: path, headers, and the scenario in the body
\* of a POST to /sessions.
Request == [path : Paths, bearer : BOOLEAN, user : Users \cup {NoUser},
            body : {"garbage"} \cup ScenarioIds]

\* A slot with no request that got past the gate; answers are not kept.
Idle == [stage |-> "idle"]

\* What clamp_ttl() makes of ttl_seconds.
Ttls == {"absent or fine", "out of range"}

-----------------------------------------------------------------------------
(* The early returns                                                        *)

\* auth_middleware
auth(q) ==
    q.path \in {"/health", "/metrics", "/api/v1/health", "/api/v1/manifest"}
        \/ (auth_token => q.bearer)

\* identity_middleware
is_exempt(path) == path \in {"/health", "/metrics", "/api/v1/health", "/api/v1/manifest"}

\* Mutant: create_session does not ask where it is deployed.
gate_anywhere(q) ==
    IF ~auth(q) THEN 401
    ELSE IF ~is_exempt(q.path) /\ q.user = NoUser THEN 401
    ELSE IF q.path \in Probes THEN 200
    ELSE IF manifest = NoManifest THEN 503
    ELSE IF q.body = "garbage" THEN 400
    ELSE IF ~has_scenario(manifest, q.body) THEN 404
    ELSE 0

\* What is answered without a look at anything that other requests change; 0 if
\* the request is let in.
gate(q) ==
    IF ~auth(q) THEN 401
    ELSE IF ~is_exempt(q.path) /\ q.user = NoUser THEN 401
    ELSE IF q.path \in Probes THEN 200
    ELSE IF manifest = NoManifest THEN 503
    ELSE IF q.body = "garbage" THEN 400
    ELSE IF ~has_scenario(manifest, q.body) THEN 404
    ELSE IF ~allowed_in(scenario(manifest, q.body), deployment_of(deployment_kind)) THEN 403
    ELSE 0

\* A request is let in; one that is answered here has changed nothing.
Arrive(r, q, tenant, ttl) ==
    /\ ask[r] = Idle
    /\ gate(q) = 0
    /\ ask' = [ask EXCEPT ![r] = [stage |-> "let in", user |-> q.user, tenant |-> tenant,
                                 ttl |-> ttl]]
    /\ UNCHANGED <<vars, manifest, live, started, bought>>

-----------------------------------------------------------------------------
(* The charge and the insertion                                             *)

\* try_consume() reads the date ...
ReadDate(r) ==
    /\ ask[r].stage = "let in"
    /\ started.ok + started.denied + Cardinality({p \in Requests : req[p] # NoRequest}) < MaxCharges
    /\ Stamp(r, ask[r].tenant)
    /\ ask' = [ask EXCEPT ![r].stage = "stamped"]
    /\ UNCHANGED <<manifest, live, started, bought>>

tick(outcome) == started' = [started EXCEPT ![outcome] = @ + 1]
charged(r, today) == [stage |-> "charged", user |-> ask[r].user, tenant |-> ask[r].tenant,
                      ttl |-> ask[r].ttl, today |-> today]

\* Mutant: the counter is moved before the answer of the quota is known.
Charge_ticked_early(r) ==
    /\ ask[r].stage = "stamped"
    /\ LET t == req[r].tenant  today == req[r].today
       IN  IF exhausted(count(t, today))
           THEN ask' = [ask EXCEPT ![r] = Idle]
           ELSE ask' = [ask EXCEPT ![r] = charged(r, today)]
    /\ tick("ok")
    /\ Consume(r)
    /\ UNCHANGED <<manifest, live, bought>>

\* Mutant: an exhausted quota is reported but not acted on.
Charge_reported(r) ==
    /\ ask[r].stage = "stamped"
    /\ ask' = [ask EXCEPT ![r] = charged(r, req[r].today)]
    /\ tick(IF exhausted(count(req[r].tenant, req[r].today)) THEN "denied" ELSE "ok")
    /\ Consume(r)
    /\ UNCHANGED <<manifest, live, bought>>

\* ... and charges under the mutex; the counter says "ok" before the session is
\* created.
Charge(r) ==
    /\ ask[r].stage = "stamped"
    /\ LET t == req[r].tenant  today == req[r].today
       IN  IF exhausted(count(t, today))
           THEN /\ ask' = [ask EXCEPT ![r] = Idle]
                /\ tick("denied")
           ELSE /\ ask' = [ask EXCEPT ![r] = charged(r, today)]
                /\ tick("ok")
    /\ Consume(r)
    /\ UNCHANGED <<manifest, live, bought>>

\* What SessionManager::create answers: the lifetime is looked at before the
\* user's limit.
create(a) ==
    IF a.ttl = "out of range" THEN 400
    ELSE IF a.user \in live THEN 409
    ELSE 201

open(a) ==
    IF create(a) = 201
    THEN /\ live' = live \cup {a.user}
         /\ bought' = [bought EXCEPT ![a.tenant][a.today] = @ + 1]
    ELSE UNCHANGED <<live, bought>>

\* Mutant: a creation that is refused gives its charge back.
Create_refund(r) ==
    /\ ask[r].stage = "charged"
    /\ open(ask[r])
    /\ ask' = [ask EXCEPT ![r] = Idle]
    /\ table' = IF create(ask[r]) # 201 /\ ask[r].tenant \in DOMAIN table
                THEN [table EXCEPT ![ask[r].tenant].count = @ - 1] ELSE table
    /\ UNCHANGED <<day, req, granted, refused, dropped, reopened, restarts, manifest, started>>

\* mgr.create(); the charge stays whatever it answers.
Create(r) ==
    /\ ask[r].stage = "charged"
    /\ open(ask[r])
    /\ ask' = [ask EXCEPT ![r] = Idle]
    /\ UNCHANGED <<vars, manifest, started>>

\* The client gives up while mgr.create() awaits its locks.
Gone(r) ==
    /\ ask[r].stage = "charged"
    /\ ask' = [ask EXCEPT ![r] = Idle]
    /\ UNCHANGED <<vars, manifest, live, started, bought>>

\* A session is ended or expires.
SessionOver(u) ==
    /\ u \in live
    /\ live' = live \ {u}
    /\ UNCHANGED <<vars, manifest, ask, started, bought>>

Midnight == NextDay /\ UNCHANGED own

\* main(): the manifest is read again, counters and quota start at zero, and of
\* the sessions those that were saved are back.
StartAgain ==
    /\ Restart
    /\ \E files \in Candidates : manifest' = load_manifest(files)
    /\ ask' = [r \in Requests |-> Idle]
    /\ started' = [ok |-> 0, denied |-> 0]
    /\ live' \in SUBSET live
    /\ UNCHANGED bought

AdmInit ==
    /\ Init
    /\ \E files \in Candidates : manifest = load_manifest(files)
    /\ ask = [r \in Requests |-> Idle]
    /\ live = {}
    /\ started = [ok |-> 0, denied |-> 0]
    /\ bought = [t \in Tenants |-> [d \in Days |-> 0]]

AdmNext ==
    \/ \E r \in Requests : \/ \E q \in Request, t \in Tenants, ttl \in Ttls : Arrive(r, q, t, ttl)
                           \/ ReadDate(r) \/ Charge(r) \/ Create(r) \/ Gone(r)
    \/ \E u \in Users : SessionOver(u)
    \/ Midnight
    \/ StartAgain

AdmSpec == AdmInit /\ [][AdmNext]_admVars

-----------------------------------------------------------------------------
(* Properties                                                               *)

LetIn == [stage : {"let in", "stamped"}, user : Users, tenant : Tenants, ttl : Ttls]
Charged == [stage : {"charged"}, user : Users, tenant : Tenants, ttl : Ttls, today : Days]

AdmTypeOK ==
    /\ TypeOK
    /\ ask \in [Requests -> {Idle} \cup LetIn \cup Charged]
    /\ \A r \in Requests : ask[r].stage = "stamped" <=> req[r] # NoRequest
    /\ live \subseteq Users
    /\ started \in [ok : Nat, denied : Nat]
    /\ bought \in [Tenants -> [Days -> Nat]]

\* The request path charges the tracker only as the tracker's own specification
\* allows: nothing but try_consume, midnight and a restart changes the table, so
\* what is proved of Quota holds on the way to a session too ("if the downstream
\* insert fails ... the charge stays").
ChargesAsQuota == Spec

\* What the cap is for: a tenant gets no more than max_per_day sessions on the
\* charges of one date, whatever requests overlap, as long as that date was not
\* reopened.
SessionsWithinCap ==
    \A t \in Tenants, d \in Days :
        /\ bought[t][d] <= granted[t][d]
        /\ d \notin reopened => bought[t][d] <= max_per_day

\* The creations let through, each by itself.
let_through == UNION {{<<t, d, n>> : n \in 1..granted[t][d]} : t \in Tenants, d \in Days}

\* session_started_total counts charges, not sessions: "ok" covers every count in
\* the quota's table and, until the first restart, is the number of creations
\* let through; "denied" moves only when some tenant was refused.
StartedCountsCharges ==
    /\ \A t \in DOMAIN table : table[t].count <= started.ok
    /\ started.denied > 0 => refused # {}
    /\ restarts = 0 => started.ok = Cardinality(let_through)

\* A manifest in force is unambiguous: an id names one source, one scenario, or
\* one action of its scenario, every scenario's source exists, and every action
\* has a payload of its kind, so the whitelist that execute_action consults
\* has one meaning.
LoadedManifestSound ==
    manifest # NoManifest =>
        /\ \A j, k \in DOMAIN manifest.scenarios :
             manifest.scenarios[j].id = manifest.scenarios[k].id => j = k
        /\ \A sc \in Range(manifest.scenarios) :
             /\ \E k \in DOMAIN manifest.sources : manifest.sources[k] = sc.source_id
             /\ \A j, k \in DOMAIN all_actions(sc) :
                  all_actions(sc)[j].id = all_actions(sc)[k].id => j = k
             /\ \A a \in Range(all_actions(sc)) : \E f \in a.has : f \in payload_of(a.kind)

\* get_manifest(): the ids the gallery shows.
visible ==
    IF manifest = NoManifest THEN {}
    ELSE {sc.id : sc \in {s \in Range(manifest.scenarios) :
                            allowed_in(s, deployment_of(deployment_kind))}}

\* The checks that are spread over files agree.  Probe paths are answered to
\* anyone: the lists of exempt paths of the two middlewares match ("keep both
\* lists in sync").  And the gallery shows exactly what can be started: a scenario
\* is listed if and only if a proper request for it gets past the gate.
GateAgrees ==
    /\ \A path \in Probes :
         gate([path |-> path, bearer |-> FALSE, user |-> NoUser, body |-> "garbage"]) = 200
    /\ LET shown == visible
       IN  \A id \in ScenarioIds, u \in Users :
             id \in shown <=>
               gate([path |-> "/api/v1/sessions", bearer |-> TRUE, user |-> u, body |-> id]) = 0

=============================================================================
