----------------------------- MODULE SourceExec -----------------------------
(***************************************************************************)
(* What reaches a source database for one session (dispatcher.rs, and the  *)
(* transport choice of handlers.rs): provisioning the session's schema,    *)
(* running scripts in it and tearing it down, each as the calls the TCP    *)
(* dispatcher makes, by requests that overlap.                             *)
(*                                                                         *)
(* The four kinds of source differ in what a script may leave behind:      *)
(*                                                                         *)
(*   postgres    one transaction, names resolved along a search_path       *)
(*   mysql       one packet of statements the server runs one by one       *)
(*   clickhouse  one HTTP request per statement                            *)
(*   redis       one command per line, keys as the script's author wrote   *)
(*               them                                                      *)
(***************************************************************************)
EXTENDS Naturals, FiniteSets

CONSTANTS
    Execs,          \* requests that use the source, each at most once
    Len,            \* statements of a script
    Scripts,        \* the plain statements of each script: those that create a table
                    \* without naming a schema or use one the script created so, for
                    \* redis those whose keys have the session's prefix
    PoolMax,        \* POOL_MAX_CONNECTIONS
    MayFail         \* calls may fail or time out, clients may go away

ASSUME SourceAssumption ==
    /\ Len \in Nat \ {0} /\ PoolMax \in Nat \ {0} /\ MayFail \in BOOLEAN
    /\ Scripts \subseteq SUBSET (1 .. Len)
    /\ "empty" \notin Execs /\ "ready" \notin Execs

VARIABLES
    service,    \* Source.docker_service
    exists,     \* the session's schema or database is there
    own,        \* statements with an effect in the schema, or under the prefix
    outside,    \* statements with an effect anywhere else on the source
    cell,       \* the OnceCell of the pool: empty, ready, or who builds it
    job,        \* each request: its kind, step, phase, the statement it is at, the
                \* plain statements of its script, and the effects it has not committed
    dropped,    \* history: the schema was dropped
    torn,       \* history: a teardown reported success
    late        \* history: effects in own since a teardown began deleting

vars == <<service, exists, own, outside, cell, job, dropped, torn, late>>

Services == {"postgres", "mysql", "clickhouse", "redis"}
Kinds == {"create", "run", "end"}
Items == Execs \X (1 .. Len)

NewJob == [kind |-> "none", pc |-> "new", phase |-> "none", at |-> 1,
           plain |-> {}, pending |-> {}]

Init ==
    /\ service \in Services
    /\ exists = FALSE
    /\ own = {} /\ outside = {} /\ late = {}
    /\ cell = "empty"
    /\ job = [e \in Execs |-> NewJob]
    /\ dropped = FALSE /\ torn = FALSE

-----------------------------------------------------------------------------
(* The dispatcher's calls                                                   *)

\* A call that times out is reported as failed although it took effect.
Outcomes == IF MayFail THEN {"ok", "failed", "timed out"} ELSE {"ok"}

Goto(e, pc) == [job EXCEPT ![e].pc = pc]

\* Every error ends what the request does at the source; a connection goes
\* back to its pool and an open transaction is rolled back.
Ended(e) == [job EXCEPT ![e].pc = "done", ![e].pending = {}]

At(e, pc, phase) == job[e].pc = pc /\ job[e].phase = phase

\* provision_session_resources has nothing to do for redis.
first_phase(kind) ==
    CASE kind = "create" -> IF service = "redis" THEN "script" ELSE "provision"
      [] kind = "run"    -> "script"
      [] kind = "end"    -> "teardown"

\* create_session (provision, then init_sql), an action or a reset (a script),
\* teardown_session (of its four source calls, the one for this service).  A
\* session is created once.
Submit(e, kind, plain) ==
    /\ job[e].pc = "new"
    /\ kind = "create" => \A x \in Execs : job[x].kind # "create"
    /\ job' = [job EXCEPT ![e] = [NewJob EXCEPT !.kind = kind, !.pc = "init", !.plain = plain,
                                                !.phase = first_phase(kind)]]
    /\ UNCHANGED <<service, exists, own, outside, cell, dropped, torn, late>>

\* get_or_try_init: one request builds, the others wait for it.
GetPool(e) ==
    /\ job[e].pc = "init"
    /\ \/ cell = "ready" /\ job' = Goto(e, "acquire") /\ UNCHANGED cell
       \/ cell = "empty" /\ cell' = e /\ UNCHANGED job
    /\ UNCHANGED <<service, exists, own, outside, dropped, torn, late>>

\* Mutant: a failed build is not undone.
Build_keeps_claim(e) ==
    /\ job[e].pc = "init" /\ cell = e
    /\ \/ cell' = "ready" /\ job' = Goto(e, "acquire")
       \/ MayFail /\ job' = Ended(e) /\ UNCHANGED cell
    /\ UNCHANGED <<service, exists, own, outside, dropped, torn, late>>

\* build_*: a missing secret, a bad port, for postgres a failed connect.  The
\* cell is empty again and the next request tries anew.
Build(e) ==
    /\ job[e].pc = "init" /\ cell = e
    /\ \/ cell' = "ready" /\ job' = Goto(e, "acquire")
       \/ MayFail /\ cell' = "empty" /\ job' = Ended(e)
    /\ UNCHANGED <<service, exists, own, outside, dropped, torn, late>>

\* clickhouse and redis connections are not counted against a limit.
pool_full ==
    /\ service \in {"postgres", "mysql"}
    /\ Cardinality({e \in Execs : job[e].pc = "run"}) >= PoolMax

\* pool.begin() and the SET LOCALs; get_conn() and USE, which fails when the
\* database is not there; the redis connection.
Acquire(e) ==
    /\ job[e].pc = "acquire" /\ ~pool_full
    /\ \E o \in Outcomes :
         job' = IF o = "ok" /\ ~(service = "mysql" /\ job[e].phase = "script" /\ ~exists)
                THEN Goto(e, "run") ELSE Ended(e)
    /\ UNCHANGED <<service, exists, own, outside, cell, dropped, torn, late>>

\* POOL_ACQUIRE_TIMEOUT_SECS; the mysql pool waits without a limit.
AcquireTimeout(e) ==
    /\ job[e].pc = "acquire" /\ pool_full /\ service = "postgres"
    /\ job' = Ended(e)
    /\ UNCHANGED <<service, exists, own, outside, cell, dropped, torn, late>>

\* Mutant: init_sql is run whatever became of the provisioning.
after_provision_always(e, o) ==
    [job EXCEPT ![e].pc = "init", ![e].phase = "script"]

\* create_session runs init_sql only after provisioning has succeeded.
after_provision(e, o) ==
    IF o = "ok" THEN [job EXCEPT ![e].pc = "init", ![e].phase = "script"] ELSE Ended(e)

\* CREATE SCHEMA / DATABASE IF NOT EXISTS.
Provision(e) ==
    /\ At(e, "run", "provision")
    /\ \E o \in Outcomes :
         /\ exists' = (exists \/ o # "failed")
         /\ job' = after_provision(e, o)
    /\ UNCHANGED <<service, own, outside, cell, dropped, torn, late>>

-----------------------------------------------------------------------------
(* Scripts                                                                  *)

\* Mutant: each statement commits by itself.
autocommit == FALSE

transactional == service = "postgres"

\* Where a name leads that leaves the place to the session.  When the schema is
\* not there, postgres goes on to public along the search_path; mysql and
\* clickhouse answer an error.
session_place ==
    CASE exists \/ service = "redis"                     -> "own"
      [] ~exists /\ service = "postgres"                 -> "outside"
      [] ~exists /\ service \in {"mysql", "clickhouse"}  -> "refused"

\* A plain statement works elsewhere only in public, on what its script created
\* there.  Any other may name its place (a table of another schema, a publication
\* of the whole database, a key without the prefix) or find its table in public;
\* a request to clickhouse is for the session's database all the same.
elsewhere(e) ==
    IF job[e].at \in job[e].plain
    THEN \E k \in job[e].plain : <<"outside", <<e, k>>>> \in job[e].pending
    ELSE ~(service = "clickhouse" /\ ~exists)

\* Where the statement a request is at may work.
places(e) == {session_place} \cup (IF elsewhere(e) THEN {"outside"} ELSE {})

\* A teardown has removed things already, so what comes now it may miss.
deleting == torn \/ \E t \in Execs : At(t, "run", "teardown") /\ job[t].at > 1

Apply(effects) ==
    /\ own' = own \cup {w[2] : w \in {x \in effects : x[1] = "own"}}
    /\ outside' = outside \cup {w[2] : w \in {x \in effects : x[1] = "outside"}}
    /\ late' = IF deleting THEN late \cup (own' \ own) ELSE late

\* The next statement of a script: its effect is pending in a transaction, or
\* there at once.  The first error ends the script.
Statement(e) ==
    /\ At(e, "run", "script") /\ job[e].at <= Len
    /\ \E o \in Outcomes, p \in places(e) :
         LET effect == IF o = "failed" \/ p = "refused" THEN {} ELSE {<<p, <<e, job[e].at>>>>}
             goes_on == o = "ok" /\ p # "refused"
         IN  /\ Apply(IF transactional THEN {} ELSE effect)
             /\ job' = IF goes_on /\ (transactional \/ job[e].at < Len)
                       THEN [job EXCEPT ![e].at = @ + 1,
                                        ![e].pending = IF transactional THEN @ \cup effect ELSE @]
                       ELSE Ended(e)
    /\ UNCHANGED <<service, exists, cell, dropped, torn>>

\* tx.commit()
Commit(e) ==
    /\ At(e, "run", "script") /\ job[e].at > Len
    /\ \E o \in Outcomes : Apply(IF o = "failed" THEN {} ELSE job[e].pending)
    /\ job' = Ended(e)
    /\ UNCHANGED <<service, exists, cell, dropped, torn>>

-----------------------------------------------------------------------------
(* Teardown                                                                 *)

\* The server makes DROP SCHEMA wait for transactions that wrote to it.
locked == \E e \in Execs, i \in Items : <<"own", i>> \in job[e].pending

\* DROP SCHEMA ... CASCADE, DROP DATABASE.
Teardown(e) ==
    /\ At(e, "run", "teardown") /\ service # "redis" /\ ~locked
    /\ \E o \in Outcomes :
         /\ IF o = "failed" THEN UNCHANGED <<exists, own, dropped>>
            ELSE exists' = FALSE /\ own' = {} /\ dropped' = TRUE
         /\ torn' = (torn \/ o = "ok")
    /\ job' = Ended(e)
    /\ UNCHANGED <<service, outside, cell, late>>

page(k) == own \cap (Execs \X {k})

\* Mutant: a page without keys is taken for the end.
last_page_empty(k) == k = Len \/ page(k) = {}

\* if next == 0 { break; }
last_page(k) == k = Len

\* teardown_redis_namespace: SCAN the next page and DEL the keys it returned.
\* The keys of the k-th statements are on page k.
ScanPage(e) ==
    /\ At(e, "run", "teardown") /\ service = "redis"
    /\ \E o \in Outcomes :
         /\ own' = IF o = "failed" THEN own ELSE own \ page(job[e].at)
         /\ torn' = (torn \/ (o = "ok" /\ last_page(job[e].at)))
         /\ dropped' = (dropped \/ o # "failed")
         /\ job' = IF o = "ok" /\ ~last_page(job[e].at)
                   THEN [job EXCEPT ![e].at = @ + 1] ELSE Ended(e)
    /\ UNCHANGED <<service, exists, outside, cell, late>>

-----------------------------------------------------------------------------
\* The client disconnects and the handler is dropped at its await: a build is
\* given up, a transaction rolled back.  A packet that mysql has goes on.
ClientGone(e) ==
    /\ MayFail /\ job[e].pc \in {"init", "acquire", "run"}
    /\ ~(service = "mysql" /\ At(e, "run", "script"))
    /\ job' = Ended(e)
    /\ cell' = IF cell = e THEN "empty" ELSE cell
    /\ UNCHANGED <<service, exists, own, outside, dropped, torn, late>>

Step(e) ==
    \/ GetPool(e) \/ Build(e) \/ Acquire(e) \/ AcquireTimeout(e)
    \/ Provision(e) \/ Statement(e) \/ Commit(e) \/ Teardown(e) \/ ScanPage(e)

Next ==
    \/ \E e \in Execs, kind \in {"create", "run"}, plain \in Scripts : Submit(e, kind, plain)
    \/ \E e \in Execs : Submit(e, "end", {})
    \/ \E e \in Execs : Step(e)
    \/ \E e \in Execs : ClientGone(e)

Spec == Init /\ [][Next]_vars

\* A handler that can go on is polled again, and a call to a source ends: the
\* source answers, or the connection breaks.
FairSpec == Spec /\ \A e \in Execs : WF_vars(Step(e))

-----------------------------------------------------------------------------
(* Properties                                                               *)

applied(e) == {k \in 1 .. Len : <<e, k>> \in own \cup outside}

\* A script that failed, timed out or lost its client left a prefix of its
\* statements, and on postgres (exec_postgres_inner's transaction) none or
\* all: as long as nothing was dropped since.
ScriptsApplyInOrder ==
    ~dropped => \A e \in Execs :
        /\ \A k \in applied(e) : 1 .. k \subseteq applied(e)
        /\ service = "postgres" => applied(e) \in {{}, 1 .. Len}

\* After a teardown that reported success, what is in the session's schema or
\* under its prefix was put there after the teardown had begun to delete: the
\* SCAN loop misses nothing that was there before it.
TeardownClears == torn => own \subseteq late

\* The plain statements of a script that worked in public instead of the schema.
public(e) == {k \in job[e].plain : <<e, k>> \in outside}

\* Tables a script creates without naming a schema.  When the first plain
\* statement worked in the session's schema, none of the later ones ends up in
\* public, whoever tears the session down meanwhile: exec_postgres_inner works in
\* one transaction, and DROP SCHEMA waits for it.  And those of an init script
\* stay in the schema as long as it was not dropped, because create_session gives
\* up the script when the provisioning fails.  Nothing is said of the other
\* statements, such as those on publications.
PlainNamesInside ==
    \A e \in Execs :
        /\ public(e) # {} => \E j \in public(e) : \A i \in job[e].plain : j <= i
        /\ job[e].kind = "create" /\ ~dropped => public(e) = {}

\* No request waits for ever: not for a pool whose builder failed or went away,
\* not for a connection, not for a lock.
DispatchFinishes ==
    \A e \in Execs : job[e].pc = "init" ~> job[e].pc = "done"

=============================================================================
