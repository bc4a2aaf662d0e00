-------------------------- MODULE SessionLifecycle --------------------------
(***************************************************************************)
(* The life of a session's artifacts (handlers.rs): what create_session,   *)
(* reset_session, end_session, execute_action, the TTL reaper and the      *)
(* boot-time orphan sweep do, one awaited call at a time and interleaved   *)
(* in any order, to the things a session owns outside this process:        *)
(*                                                                         *)
(*   schema       the source-side schema or database                       *)
(*   publication  made by the init script of a change-data-capture source  *)
(*   slot         the replication slot, taken by a running shuttle         *)
(*   connection   the connection in the api registry                       *)
(*   shuttle      {shuttle} in the api registry                            *)
(*   second       {shuttle}_sessions, where the template has two shuttles  *)
(*   namespace    the Iceberg namespace in the catalog                     *)
(*   files        the objects under its prefix in the two S3 buckets       *)
(*   topic        the kafka topic the produce action creates               *)
(*                                                                         *)
(* The session map is the set of ids in it; how it expires sessions and is *)
(* saved is the subject of SessionManager and SessionPersist.              *)
(***************************************************************************)
EXTENDS Integers, Sequences

CONSTANTS
    Ids,            \* sessions, each with artifacts named after it
    NoId,
    Requests,       \* HTTP requests that may be in flight at a time
    Workloads       \* bounds: what one behaviour of the instance explores

\* The operations clients call, the kinds of scenario they ask for, and how
\* many failed calls, lost clients and restarts there may be.
Workload(calls, scenarios, max_faults) ==
    [calls |-> calls, scenarios |-> scenarios, max_faults |-> max_faults]
AllCalls == {"create", "reset", "end", "extend", "action"}
AllScenarios == {"cdc", "two_shuttles", "kafka", "upload"}

ASSUME LifecycleAssumption ==
    /\ NoId \notin Ids
    /\ Workloads \subseteq
         [calls : SUBSET AllCalls, scenarios : SUBSET AllScenarios, max_faults : Nat]

VARIABLES
    load,       \* the workload of this behaviour
    api,        \* the api callback client is configured (fixed at boot)
    live,       \* ids in the session map
    lapsed,     \* ids past their deadline
    scenario,   \* Session.scenario_id
    status,     \* Session.status, "none" for an id not drawn yet
    arts,       \* the artifacts that exist, by id
    req,        \* the job of each request
    reaper,     \* the TTL reaper: ids it took from the map, and its job
    sweep,      \* the boot-time orphan sweep
    meddled,    \* history: ids given an artifact after they left the map
    faults      \* history: calls that failed, clients that left, restarts

vars == <<load, api, live, lapsed, scenario, status, arts, req, reaper, sweep, meddled, faults>>
session_vars == <<load, api, live, lapsed, scenario, status>>

\* "running" and "second_running": resumed and not paused since.
Kinds == {"schema", "publication", "slot", "connection", "shuttle", "running",
          "second", "second_running", "namespace", "files", "topic"}

\* The source has a schema or database to make (provision_session_resources).
provisioned(sc) == sc \in {"cdc", "two_shuttles"}

\* What a session of a scenario may come to own.
kinds_of(sc) ==
    {"connection", "shuttle", "namespace", "files"} \cup
    CASE sc = "cdc"          -> {"schema", "publication", "slot"}
      [] sc = "two_shuttles" -> {"schema", "second"}
      [] sc = "kafka"        -> {"topic"}
      [] OTHER               -> {}

-----------------------------------------------------------------------------
(* Jobs: an id and the calls still to be made for it                        *)

Step(verb, kind, via) == [verb |-> verb, kind |-> kind, via |-> via]

\* The statements exec_sql knows an endpoint for; it refuses any other.
classify_statement ==
    ({"create", "drop"} \X {"connection", "shuttle", "second"})
        \cup ({"resume", "pause"} \X {"shuttle", "second"})

accepted(st) == st.via = "sql" => <<st.verb, st.kind>> \in classify_statement

\* mc removes what is under the session's prefix in the two buckets.
purge_s3_namespace == Step("drop", "files", "mc")

\* Mutant: the order is reversed, the shuttle goes last.
teardown_schema_first(k) ==
    << Step("drop", "schema", "source"), Step("drop", "slot", "source"),
       Step("drop", "publication", "source"), purge_s3_namespace,
       Step("drop", "namespace", "rest"), Step("drop", "connection", "sql"),
       Step("drop", k, "sql") >>

\* Mutant: the catalog is trusted to remove the objects.
teardown_no_purge(k) ==
    << Step("drop", k, "sql"), Step("drop", "namespace", "rest"),
       Step("drop", "connection", "sql"), Step("drop", "publication", "source"),
       Step("drop", "slot", "source"), Step("drop", "schema", "source") >>

\* teardown_session() called with the name of shuttle k.  Publication and slot
\* are named after the shuttle and left alone when the name has the suffix of
\* the second one (is_safe_playground_shuttle_artifact).
teardown_session(k) ==
    << Step("drop", k, "sql"), Step("drop", "namespace", "rest"),
       purge_s3_namespace, Step("drop", "connection", "sql") >>
        \o (IF k = "shuttle"
            THEN << Step("drop", "publication", "source"), Step("drop", "slot", "source") >>
            ELSE << >>)
        \o << Step("drop", "schema", "source") >>

\* Nothing at all without an api client.  Everything is dropped IF EXISTS, what
\* the scenario never makes included.
teardown_calls(k) == IF api THEN teardown_session(k) ELSE << >>

\* The scenario's shuttle_sql, one statement at a time.
shuttle_sql(sc) ==
    LET two == sc = "two_shuttles"
    IN  << Step("create", "connection", "sql"), Step("create", "shuttle", "sql") >>
        \o (IF two THEN << Step("create", "second", "sql") >> ELSE << >>)
        \o << Step("resume", "shuttle", "sql") >>
        \o (IF two THEN << Step("resume", "second", "sql") >> ELSE << >>)

\* Mutant: the status is left as it was.
finish_forgotten == << >>

finish == << Step("finish", "status", "map") >>

init_sql(sc) == IF provisioned(sc) THEN << Step("init", "schema", "source") >> ELSE << >>

create_calls(sc) ==
    (IF provisioned(sc) THEN << Step("create", "schema", "source") >> ELSE << >>)
        \o init_sql(sc) \o (IF api THEN shuttle_sql(sc) ELSE << >>) \o finish

\* Reached only with an api client; the second shuttle is not named, and DROP
\* NAMESPACE goes through exec_sql.
reset_calls(sc) ==
    << Step("drop", "shuttle", "sql"), Step("drop", "namespace", "sql") >>
        \o init_sql(sc) \o shuttle_sql(sc) \o finish

\* rpk creates the topic if need be, then the records go to it.
produce_kafka == Step("create", "topic", "source")

\* mc copies the file under the session's prefix.
upload_file == Step("create", "files", "mc")

\* run_action(): the one call that matters here.  Source SQL works inside the
\* schema (SourceExec); produce_kafka and upload_file leave something of their
\* own; a statement or request to the api stops or starts the shuttle.
action_calls(sc) ==
    (IF sc = "kafka"  THEN {<< produce_kafka >>} ELSE {}) \cup
    (IF sc = "upload" THEN {<< upload_file >>} ELSE {}) \cup
    (IF api THEN {<< Step(v, "shuttle", "sql") >> : v \in {"pause", "resume"}} ELSE {})

Job(op, id, todo) == [op |-> op, id |-> id, todo |-> todo]
NoJob == Job("idle", NoId, << >>)
Start(op, id, todo) == IF todo = << >> THEN NoJob ELSE Job(op, id, todo)
Continue(job, todo) == Start(job.op, job.id, todo)

IdleReaper == [todo |-> {}, job |-> NoJob]
\* live, found: the ids it read from the map, and those whose {shuttle} it
\* read from GET /shuttles; orphans and ok are history: the orphans nobody
\* worked for when it started, and whether every call so far succeeded.
BootSweep == [pc |-> "boot", live |-> {}, found |-> {}, todo |-> {}, job |-> NoJob,
              orphans |-> {}, ok |-> TRUE]
SweepOver == [BootSweep EXCEPT !.pc = "over"]

Init ==
    /\ load \in Workloads /\ api \in BOOLEAN
    /\ live = {} /\ lapsed = {} /\ meddled = {}
    /\ scenario \in [Ids -> load.scenarios]
    /\ status = [s \in Ids |-> "none"]
    /\ arts = [s \in Ids |-> {}]
    /\ req = [r \in Requests |-> NoJob]
    /\ reaper = IdleReaper
    /\ sweep = BootSweep
    /\ faults = 0

-----------------------------------------------------------------------------
(* Calls                                                                    *)

\* A call that times out is reported as failed although it took effect.
Outcomes == {"ok"} \cup (IF faults < load.max_faults THEN {"failed", "timed_out"} ELSE {})
Count(o) == faults' = faults + (IF o = "ok" THEN 0 ELSE 1)

running(k) == IF k = "second" THEN "second_running" ELSE "running"
\* A shuttle that is dropped stops running.
with_dependents(k) == IF k \in {"shuttle", "second"} THEN {k, running(k)} ELSE {k}

\* One drop call: IF EXISTS, logged and skipped on failure.
Drop(id, st, o) ==
    /\ arts' = IF o # "failed" /\ accepted(st)
               THEN [arts EXCEPT ![id] = @ \ with_dependents(st.kind)] ELSE arts
    /\ Count(o)

\* RESUME SHUTTLE and PAUSE SHUTTLE: refused for a shuttle that is not there.
SetRunning(id, st, o) ==
    /\ arts' = IF o = "failed" \/ ~accepted(st) \/ st.kind \notin arts[id] THEN arts
               ELSE [arts EXCEPT ![id] = IF st.verb = "resume" THEN @ \cup {running(st.kind)}
                                                               ELSE @ \ {running(st.kind)}]
    /\ Count(o)

\* One call that makes something: IF NOT EXISTS.
Make(id, st, o) ==
    /\ arts' = IF o # "failed" /\ accepted(st)
               THEN [arts EXCEPT ![id] = @ \cup {st.kind}] ELSE arts
    /\ meddled' = IF id \notin live THEN meddled \cup {id} ELSE meddled
    /\ Count(o)

-----------------------------------------------------------------------------
(* Requests                                                                 *)

\* create_session up to mgr.create(): the id enters the map.
CreateSession(r, s) ==
    /\ req[r] = NoJob /\ status[s] = "none"
    /\ live' = live \cup {s}
    /\ status' = [status EXCEPT ![s] = "provisioning"]
    /\ req' = [req EXCEPT ![r] = Start("create", s, create_calls(scenario[s]))]
    /\ UNCHANGED <<load, api, lapsed, scenario, arts, reaper, sweep, meddled, faults>>

\* reset_session up to require_api_client(), which comes after the status was
\* written and saved.
ResetSession(r, s) ==
    /\ req[r] = NoJob /\ s \in live
    /\ status' = [status EXCEPT ![s] = "resetting"]
    /\ req' = [req EXCEPT ![r] = IF api THEN Start("reset", s, reset_calls(scenario[s])) ELSE NoJob]
    /\ UNCHANGED <<load, api, live, lapsed, scenario, arts, reaper, sweep, meddled, faults>>

\* extend_session: whether the session has lapsed is not asked.
ExtendSession(s) ==
    /\ s \in live \cap lapsed
    /\ lapsed' = lapsed \ {s}
    /\ UNCHANGED <<load, api, live, scenario, status, arts, req, reaper, sweep, meddled, faults>>

\* Mutant: the session is torn down and stays in the map.
EndSession_keep(r, s) ==
    /\ req[r] = NoJob /\ s \in live
    /\ req' = [req EXCEPT ![r] = Start("end", s, teardown_calls("shuttle"))]
    /\ UNCHANGED <<session_vars, arts, reaper, sweep, meddled, faults>>

\* end_session: mgr.end() takes the id out of the map, then teardown.
EndSession(r, s) ==
    /\ req[r] = NoJob /\ s \in live
    /\ live' = live \ {s}
    /\ req' = [req EXCEPT ![r] = Start("end", s, teardown_calls("shuttle"))]
    /\ UNCHANGED <<load, api, lapsed, scenario, status, arts, reaper, sweep, meddled, faults>>

\* execute_action: the session is looked up, then the action runs; neither the
\* status nor the deadline is looked at.
ExecuteAction(r, s) ==
    /\ req[r] = NoJob /\ s \in live
    /\ \E calls \in action_calls(scenario[s]) :
         req' = [req EXCEPT ![r] = Start("action", s, calls)]
    /\ UNCHANGED <<session_vars, arts, reaper, sweep, meddled, faults>>

\* The next call of a request.
ReqDrop(r) ==
    /\ req[r] # NoJob /\ Head(req[r].todo).verb = "drop"
    /\ \E o \in Outcomes : Drop(req[r].id, Head(req[r].todo), o)
    /\ req' = [req EXCEPT ![r] = Continue(req[r], Tail(req[r].todo))]
    /\ UNCHANGED <<session_vars, reaper, sweep, meddled>>

\* A failed source provisioning skips init_sql; a failed statement ends the
\* shuttle_sql loop; an action is one call.
skip_after_failure(st, todo) ==
    CASE st.kind = "schema"           -> Tail(todo)
      [] st.kind \in {"topic", "files"} -> << >>
      [] OTHER                        -> finish

ReqCreate(r) ==
    /\ req[r] # NoJob /\ Head(req[r].todo).verb = "create"
    /\ \E o \in Outcomes :
         LET st == Head(req[r].todo)  rest == Tail(req[r].todo)
         IN  /\ Make(req[r].id, st, o)
             /\ req' = [req EXCEPT ![r] =
                          Continue(req[r], IF o = "ok" THEN rest ELSE skip_after_failure(st, rest))]
    /\ UNCHANGED <<session_vars, reaper, sweep>>

\* A refused or failed resume ends the shuttle_sql loop it is part of.
ReqSetRunning(r) ==
    /\ req[r] # NoJob /\ Head(req[r].todo).verb \in {"resume", "pause"}
    /\ \E o \in Outcomes :
         LET st == Head(req[r].todo)  rest == Tail(req[r].todo)
             done == o = "ok" /\ st.kind \in arts[req[r].id]
         IN  /\ SetRunning(req[r].id, st, o)
             /\ req' = [req EXCEPT ![r] =
                          Continue(req[r], IF done \/ rest = << >> THEN rest ELSE finish)]
    /\ UNCHANGED <<session_vars, reaper, sweep, meddled>>

\* init_sql: what it does inside the schema is the subject of SourceExec.  The
\* publication it makes is the database's; without the schema the script fails.
\* A failure is recorded and skipped.
ReqInitSql(r) ==
    /\ req[r] # NoJob /\ Head(req[r].todo).verb = "init"
    /\ LET id == req[r].id
       IN  IF scenario[id] = "cdc" /\ "schema" \in arts[id]
           THEN \E o \in Outcomes : Make(id, Step("create", "publication", "source"), o)
           ELSE UNCHANGED <<arts, meddled, faults>>
    /\ req' = [req EXCEPT ![r] = Continue(req[r], Tail(req[r].todo))]
    /\ UNCHANGED <<session_vars, reaper, sweep>>

\* The closing update(status = Active); it finds nothing if the id has left.
ReqFinish(r) ==
    /\ req[r] # NoJob /\ Head(req[r].todo).verb = "finish"
    /\ status' = IF req[r].id \in live THEN [status EXCEPT ![req[r].id] = "active"] ELSE status
    /\ req' = [req EXCEPT ![r] = NoJob]
    /\ UNCHANGED <<load, api, live, lapsed, scenario, arts, reaper, sweep, meddled, faults>>

\* The client disconnects: the server drops the handler at its current await.
ClientGone(r) ==
    /\ req[r] # NoJob /\ faults < load.max_faults
    /\ req' = [req EXCEPT ![r] = NoJob]
    /\ faults' = faults + 1
    /\ UNCHANGED <<session_vars, arts, reaper, sweep, meddled>>

-----------------------------------------------------------------------------
(* The TTL reaper                                                           *)

Expire(s) ==
    /\ s \in live \ lapsed
    /\ lapsed' = lapsed \cup {s}
    /\ UNCHANGED <<load, api, live, scenario, status, arts, req, reaper, sweep, meddled, faults>>

\* sweep_expired(), at a tick that finds the loop idle.
ReaperTick ==
    /\ reaper = IdleReaper /\ live \cap lapsed # {}
    /\ live' = live \ lapsed
    /\ reaper' = [reaper EXCEPT !.todo = live \cap lapsed]
    /\ UNCHANGED <<load, api, lapsed, scenario, status, arts, req, sweep, meddled, faults>>

\* Mutant: the loop ends with the first session.
ReaperPick_first ==
    /\ reaper.job = NoJob
    /\ \E s \in reaper.todo :
         reaper' = [todo |-> {}, job |-> Start("reap", s, teardown_calls("shuttle"))]
    /\ UNCHANGED <<session_vars, arts, req, sweep, meddled, faults>>

\* for session in expired { teardown_session(..).await }
ReaperPick ==
    /\ reaper.job = NoJob
    /\ \E s \in reaper.todo :
         reaper' = [todo |-> reaper.todo \ {s},
                    job |-> Start("reap", s, teardown_calls("shuttle"))]
    /\ UNCHANGED <<session_vars, arts, req, sweep, meddled, faults>>

ReaperDrop ==
    /\ reaper.job # NoJob
    /\ \E o \in Outcomes : Drop(reaper.job.id, Head(reaper.job.todo), o)
    /\ reaper' = [reaper EXCEPT !.job = Continue(@, Tail(@.todo))]
    /\ UNCHANGED <<session_vars, req, sweep, meddled>>

-----------------------------------------------------------------------------
(* The orphan sweep, in the background of a server that already serves      *)

having(kind) == {s \in Ids : kind \in arts[s]}
listed(kinds) == {t \in Ids \X kinds : t[2] \in arts[t[1]]}

\* live_shuttles() and live_namespaces(); without an api client it returns.
SweepSnapshot ==
    /\ sweep.pc = "boot"
    /\ sweep' = IF ~api THEN SweepOver ELSE
                [sweep EXCEPT !.pc = "listing", !.live = live,
                              !.orphans = {t[1] : t \in listed({"shuttle", "second", "connection"})}
                                             \ (live \cup {req[r].id : r \in Requests})]
    /\ UNCHANGED <<session_vars, arts, req, reaper, meddled, faults>>

\* Mutant: shuttles are told apart by the names sessions know, not by target.
orphan_shuttles_named == {t \in listed({"shuttle"}) : t[1] \notin sweep.live}

\* GET /api/v1/shuttles, both kinds: those whose target is the namespace of no
\* session that was in the map.
orphan_shuttles == {t \in listed({"shuttle", "second"}) : t[1] \notin sweep.live}

SweepListShuttles ==
    /\ sweep.pc = "listing"
    /\ \E o \in Outcomes :
         /\ sweep' = IF o = "ok"
                     THEN [sweep EXCEPT !.pc = "shuttles", !.found = having("shuttle"),
                                        !.todo = orphan_shuttles]
                     ELSE SweepOver
         /\ Count(o)
    /\ UNCHANGED <<session_vars, arts, req, reaper, meddled>>

SweepPick ==
    /\ sweep.pc = "shuttles" /\ sweep.job = NoJob
    /\ \E t \in sweep.todo :
         sweep' = [sweep EXCEPT !.todo = @ \ {t},
                                !.job = Start("sweep", t[1], teardown_calls(t[2]))]
    /\ UNCHANGED <<session_vars, arts, req, reaper, meddled, faults>>

SweepDrop ==
    /\ sweep.job # NoJob
    /\ \E o \in Outcomes :
         /\ Drop(sweep.job.id, Head(sweep.job.todo), o)
         /\ sweep' = [sweep EXCEPT !.job = Continue(@, Tail(@.todo)), !.ok = @ /\ o = "ok"]
    /\ UNCHANGED <<session_vars, req, reaper, meddled>>

\* Connections not named by a {shuttle} that was listed and belongs to a session
\* that was in the map.
unused_connections == {t \in listed({"connection"}) : t[1] \notin sweep.live \cap sweep.found}

\* GET /api/v1/connections, once all shuttles are done.
SweepListConnections ==
    /\ sweep.pc = "shuttles" /\ sweep.todo = {} /\ sweep.job = NoJob
    /\ \E o \in Outcomes :
         /\ sweep' = IF o = "ok"
                     THEN [sweep EXCEPT !.pc = "connections", !.todo = unused_connections,
                                        !.live = {}, !.found = {}]
                     ELSE SweepOver
         /\ Count(o)
    /\ UNCHANGED <<session_vars, arts, req, reaper, meddled>>

SweepDropConnection ==
    /\ sweep.pc = "connections"
    /\ \E t \in sweep.todo, o \in Outcomes :
         /\ Drop(t[1], Step("drop", "connection", "sql"), o)
         /\ sweep' = [sweep EXCEPT !.todo = @ \ {t}, !.ok = @ /\ o = "ok"]
    /\ UNCHANGED <<session_vars, req, reaper, meddled>>

-----------------------------------------------------------------------------
(* The environment                                                          *)

\* A running shuttle takes its slot and fills its namespace.
ShuttleRuns(s) ==
    /\ arts[s] \cap {"running", "second_running"} # {}
    /\ arts' = [arts EXCEPT ![s] = @ \cup ({"namespace", "files", "slot"} \cap kinds_of(scenario[s]))]
    /\ UNCHANGED <<session_vars, req, reaper, sweep, meddled, faults>>

\* The process dies and is started again.  The file brings back sessions that
\* have not expired; it may be older than the map (a save was dropped), or was
\* lost with its volume.
Restart ==
    /\ faults < load.max_faults
    /\ faults' = faults + 1
    /\ live' \in SUBSET {s \in Ids \ lapsed : status[s] # "none"}
    /\ req' = [r \in Requests |-> NoJob]
    /\ reaper' = IdleReaper
    /\ sweep' = BootSweep
    /\ UNCHANGED <<load, api, lapsed, scenario, status, arts, meddled>>

RequestStep(r) ==
    \/ ReqDrop(r) \/ ReqCreate(r) \/ ReqSetRunning(r) \/ ReqInitSql(r) \/ ReqFinish(r)
ReaperStep == ReaperTick \/ ReaperPick \/ ReaperDrop
SweepStep ==
    \/ SweepSnapshot \/ SweepListShuttles \/ SweepPick \/ SweepDrop
    \/ SweepListConnections \/ SweepDropConnection

Next ==
    \/ \E r \in Requests, s \in Ids : "create" \in load.calls /\ CreateSession(r, s)
    \/ \E r \in Requests, s \in Ids : "reset" \in load.calls /\ ResetSession(r, s)
    \/ \E s \in Ids : "extend" \in load.calls /\ ExtendSession(s)
    \/ \E r \in Requests, s \in Ids : "end" \in load.calls /\ EndSession(r, s)
    \/ \E r \in Requests, s \in Ids : "action" \in load.calls /\ ExecuteAction(r, s)
    \/ \E r \in Requests : RequestStep(r) \/ ClientGone(r)
    \/ \E s \in Ids : Expire(s) \/ ShuttleRuns(s)
    \/ ReaperStep
    \/ SweepStep
    \/ Restart

Spec == Init /\ [][Next]_vars

\* Tasks that can run do run: tokio polls them, and calls have timeouts.
FairSpec ==
    /\ Spec
    /\ \A r \in Requests : WF_vars(RequestStep(r))
    /\ WF_vars(ReaperStep) /\ WF_vars(SweepStep)

-----------------------------------------------------------------------------
(* Properties                                                               *)

jobs == {req[r] : r \in Requests} \cup {reaper.job, sweep.job}
unattended(s) == /\ \A j \in jobs : j.id # s
                 /\ s \notin reaper.todo \cup {t[1] : t \in sweep.todo}

\* Neither end_session nor the reaper ever works on the artifacts of a session
\* that is in the map: taking the id out of the map comes first, for all the
\* interleavings of requests, ticks and restarts.
TeardownOnlyEnded ==
    /\ \A r \in Requests : req[r].op = "end" => req[r].id \notin live
    /\ reaper.job.id \notin live /\ reaper.todo \cap live = {}

\* What is left of a session nobody works for any more can be found again by
\* the next boot's sweep: a shuttle leads it there.  ("Namespaces are
\* deterministic so a restart-time sweeper can reap orphan data".)  True as
\* long as every call succeeds and the process is not interrupted, whatever
\* races with whatever, except for kafka topics, which nothing ever drops, and
\* for a file uploaded by an action that outlived its session.
StrandedIsSweepable ==
    api /\ faults = 0 =>
        \A s \in Ids \ live : unattended(s) =>
            \/ arts[s] \subseteq {"topic"} \cup (IF s \in meddled THEN {"files"} ELSE {})
            \/ arts[s] \cap {"shuttle", "second"} # {}

\* What outlives an orderly end of a session: of a template with two shuttles
\* the second one and what it goes on filling, the kafka topic, and without an
\* api client all that the source side was given.
survivors(s) ==
    IF ~api THEN {"schema", "publication", "topic", "files"}
    ELSE CASE scenario[s] = "two_shuttles" -> {"second", "second_running", "namespace", "files"}
           [] scenario[s] = "kafka"        -> {"topic"}
           [] OTHER                        -> {}

\* Whether a session was ended by its user or reaped, and whatever ran beside
\* it, its teardown leaves those and nothing else ("every step logs + continues on
\* failure so a single stuck step doesn't strand the session"), if no call failed
\* and no other request was still making things for it.
EndLeavesSurvivors ==
    faults = 0 => \A s \in Ids \ (live \cup meddled) :
        unattended(s) => arts[s] \subseteq survivors(s)

\* "Reset in progress": a session that says so has a reset working for it, unless
\* the reset was cut short, or refused for want of an api client.
ResettingMeansReset ==
    api /\ faults = 0 => \A s \in live : status[s] = "resetting" =>
        \E r \in Requests : req[r].op = "reset" /\ req[r].id = s

\* A boot sweep that ran to its end without a failed call leaves nothing in the
\* registry of the sessions that were orphans when it started, second shuttles
\* included.
BootSweepReaps ==
    sweep.pc = "connections" /\ sweep.todo = {} /\ sweep.ok =>
        \A s \in sweep.orphans : arts[s] \cap {"shuttle", "second", "connection"} = {}

\* An expired session is extended, or leaves the map and its artifacts go, all
\* but those no teardown removes, unless a request that was still under way
\* went on making artifacts for it.
ExpiredIsTornDown ==
    \A s \in Ids : (s \in live /\ s \in lapsed)
        ~> (s \notin lapsed \/ (s \notin live /\ (arts[s] \subseteq survivors(s) \/ s \in meddled)))

\* The orphan sweep leaves live sessions alone ("reap the stragglers without
\* touching live sessions' artifacts").  False: the map is read before the
\* registry is.
SweepSparesLive == sweep.job.id \notin live

\* "Drop target tables inside the session's namespace": when a reset has made
\* its drops, the namespace is gone.  False: exec_sql knows no DROP NAMESPACE.
ResetDropsNamespace ==
    \A r \in Requests :
        req[r].op = "reset" /\ Head(req[r].todo).verb = "init"
            => "namespace" \notin arts[req[r].id]

=============================================================================
