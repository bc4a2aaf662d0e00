---------------------- MODULE SessionLifecycleProofs ----------------------
(***************************************************************************)
(* Proofs about SessionLifecycle, for any sets of sessions and requests    *)
(* and any workloads.                                                      *)
(***************************************************************************)
EXTENDS SessionLifecycle, TLAPS

-----------------------------------------------------------------------------
(* The inductive invariant                                                  *)

Statuses == {"none", "provisioning", "resetting", "active"}
Registered == {"shuttle", "second", "connection"}
Verbs == {"create", "drop", "resume", "pause", "init", "finish"}
Vias == {"sql", "rest", "mc", "source", "map"}
Steps == [verb : Verbs, kind : Kinds \cup {"status"}, via : Vias]
Ops == {"idle", "create", "reset", "end", "action", "reap", "sweep"}
Jobs == [op : Ops, id : Ids \cup {NoId}, todo : Seq(Steps)]

SweepStates ==
    [pc : {"boot", "listing", "shuttles", "connections", "over"},
     live : SUBSET Ids, found : SUBSET Ids, todo : SUBSET (Ids \X Registered),
     job : Jobs, orphans : SUBSET Ids, ok : BOOLEAN]

Typed ==
    /\ load \in Workloads /\ api \in BOOLEAN
    /\ live \subseteq Ids /\ lapsed \subseteq Ids /\ meddled \subseteq Ids
    /\ scenario \in [Ids -> AllScenarios]
    /\ status \in [Ids -> Statuses]
    /\ arts \in [Ids -> SUBSET Kinds]
    /\ req \in [Requests -> Jobs]
    /\ reaper \in [todo : SUBSET Ids, job : Jobs]
    /\ sweep \in SweepStates
    /\ faults \in Nat

\* The kinds the steps of a list are about.
kinds_in(todo) == {todo[i].kind : i \in 1..Len(todo)}

\* What a teardown of a session of scenario sc must get to.
dropped_of(sc) == kinds_of(sc) \ {"shuttle", "second", "topic"}

\* What is left of teardown_session: drops, the shuttle's at most the first,
\* and then everything else the scenario makes is still to come.
TeardownShape(todo, sc) ==
    /\ \A i \in 1..Len(todo) : todo[i].verb = "drop" /\ accepted(todo[i])
    /\ \A i \in 2..Len(todo) : todo[i].kind \notin {"shuttle", "second"}
    /\ todo[1].kind \in {"shuttle", "second"} => dropped_of(sc) \subseteq kinds_in(Tail(todo))

create_shuttle == Step("create", "shuttle", "sql")

\* Steps that may be taken only while CREATE SHUTTLE is to come.
leads_up(st) ==
    \/ st.verb \in {"drop", "init"}
    \/ st.verb = "create" /\ st.kind \notin {"shuttle", "second"}

\* What is left of create_session or reset_session: it ends with the update of the
\* status; CREATE SHUTTLE comes after what leads up to it and before every RESUME.
BuildShape(todo, sc, with_api) ==
    /\ \A i \in 1..Len(todo) : (todo[i].verb = "finish") <=> (i = Len(todo))
    /\ \A i \in 1..Len(todo) :
         LET st == todo[i]
         IN  /\ st.verb \in {"create", "drop", "init", "resume", "finish"}
             /\ st.verb = "create" => st.kind \in kinds_of(sc) \ {"topic", "files"} /\ accepted(st)
             /\ st.verb = "resume" => /\ st.kind \in {"shuttle", "second"}
                                      /\ \A k \in i..Len(todo) : todo[k].verb # "create"
             /\ leads_up(st) /\ with_api => \E k \in i..Len(todo) : todo[k] = create_shuttle
             /\ ~with_api => st.verb \in {"init", "finish"} \/ (st.verb = "create" /\ st.kind = "schema")

\* What is left of execute_action: one call.
ActionShape(todo, sc, with_api) ==
    /\ Len(todo) = 1
    /\ \/ todo[1] \in {produce_kafka, upload_file} /\ todo[1].kind \in kinds_of(sc)
       \/ with_api /\ todo[1].verb \in {"pause", "resume"} /\ todo[1].kind = "shuttle"

JobShape(j, sc, with_api) ==
    /\ j.id \in Ids /\ j.todo # << >>
    /\ \/ /\ j.op \in {"end", "reap", "sweep"} /\ with_api
          /\ TeardownShape(j.todo, sc)
          /\ j.todo[1].kind = "second" => j.op = "sweep"
       \/ j.op \in {"create", "reset"} /\ BuildShape(j.todo, sc, with_api)
       \/ j.op = "action" /\ ActionShape(j.todo, sc, with_api)

WellFormed(j, ops) == j = NoJob \/ (j.op \in ops /\ JobShape(j, scenario[j.id], api))

SweepShape(sw) ==
    /\ WellFormed(sw.job, {"sweep"})
    /\ \A t \in sw.todo : t[2] \in kinds_of(scenario[t[1]])
    /\ sw.pc \in {"listing", "shuttles", "connections"} => api
    /\ sw.pc # "shuttles" => sw.job = NoJob
    /\ sw.pc = "shuttles" => sw.todo \subseteq Ids \X {"shuttle", "second"}
    /\ sw.pc = "connections" => sw.todo \subseteq Ids \X {"connection"}

Shapes ==
    /\ \A r \in Requests : WellFormed(req[r], {"create", "reset", "end", "action"})
    /\ WellFormed(reaper.job, {"reap"})
    /\ SweepShape(sweep)

\* A session owns what its scenario makes, nothing before its id was drawn, and
\* without an api client only what the source gives; what runs exists.
OwnsRight(a, sc, with_api) ==
    /\ a \subseteq kinds_of(sc) \cup {"running", "second_running"}
    /\ "running" \in a => "shuttle" \in a
    /\ "second_running" \in a => "second" \in a
    /\ ~with_api => a \subseteq {"schema", "publication", "topic", "files"}

Owned ==
    \A s \in Ids : /\ OwnsRight(arts[s], scenario[s], api)
                   /\ status[s] = "none" => arts[s] = {}

\* The ids that are worked for were drawn, and those torn down have left the map
\* for good.
Ended ==
    /\ \A s \in live \cup reaper.todo : status[s] # "none"
    /\ \A r \in Requests : req[r] # NoJob => status[req[r].id] # "none"
    /\ reaper.job # NoJob => status[reaper.job.id] # "none"
    /\ TeardownOnlyEnded

\* The orphans a sweep found when it started stay out of the map and of all
\* requests; until it lists the connections, each of their shuttles is on its
\* list or the next to be dropped, and after that each of their connections is.
Sweeping ==
    \A s \in sweep.orphans :
        /\ s \notin live \cup sweep.live /\ status[s] # "none"
        /\ \A r \in Requests : req[r].id # s
        /\ sweep.pc \in {"listing", "shuttles", "connections"}
        /\ sweep.pc = "shuttles" /\ sweep.ok =>
             \A k \in arts[s] \cap {"shuttle", "second"} :
                 \/ <<s, k>> \in sweep.todo
                 \/ sweep.job # NoJob /\ sweep.job.id = s /\ sweep.job.todo[1].kind = k
        /\ sweep.pc = "connections" /\ sweep.ok =>
             /\ arts[s] \cap {"shuttle", "second"} = {}
             /\ "connection" \in arts[s] => <<s, "connection">> \in sweep.todo

\* The jobs that tear down session s.
tearing(s, j) == j # NoJob /\ j.id = s /\ j.op \in {"end", "reap", "sweep"}

exempt(s) == {"topic"} \cup (IF s \in meddled THEN {"files"} ELSE {})

covered(s, x) ==
    \E j \in jobs : tearing(s, j) /\ x \in kinds_in(j.todo)

building(s) ==
    \E r \in Requests : /\ req[r].op \in {"create", "reset"} /\ req[r].id = s
                        /\ \E i \in 1..Len(req[r].todo) : req[r].todo[i] = create_shuttle

\* As long as nothing failed: a session that left the map has a shuttle, is
\* getting one, waits for the reaper, or all it has is on a teardown's list.
Stranded ==
    api /\ faults = 0 => \A s \in Ids \ live :
        \/ arts[s] \cap {"shuttle", "second"} # {}
        \/ building(s)
        \/ s \in reaper.todo
        \/ \A x \in arts[s] \ exempt(s) : covered(s, x)

\* What a teardown removes when it goes on to its end.
removes(j) == kinds_in(j.todo) \cup (IF "shuttle" \in kinds_in(j.todo) THEN {"running"} ELSE {})

\* As long as nothing failed: what a session that left the map has more than the
\* survivors is removed by the end of it, or waits for the reaper.
Left ==
    faults = 0 => \A s \in Ids \ (live \cup meddled) :
        \/ s \in reaper.todo
        \/ arts[s] \subseteq survivors(s)
        \/ \E j \in jobs : /\ tearing(s, j) /\ j.op # "sweep"
                           /\ arts[s] \subseteq survivors(s) \cup removes(j)

Inv == Typed /\ Shapes /\ Owned /\ Ended /\ ResettingMeansReset /\ Sweeping /\ Stranded /\ Left

-----------------------------------------------------------------------------
(* Lists of calls                                                           *)

LEMMA TailFacts ==
    ASSUME NEW S, NEW t \in Seq(S), t # << >>
    PROVE  /\ Tail(t) \in Seq(S) /\ Len(t) \in Nat \ {0} /\ Len(Tail(t)) = Len(t) - 1
           /\ \A i \in 1..(Len(t) - 1) : Tail(t)[i] = t[i + 1]
           /\ Head(t) = t[1] /\ t[1] \in S
  OBVIOUS

LEMMA KindsAfter ==
    ASSUME NEW t \in Seq(Steps), t # << >>, NEW i \in 2..Len(t)
    PROVE  t[i].kind \in kinds_in(Tail(t))
  <1>1. /\ Len(t) \in Nat \ {0} /\ Len(Tail(t)) = Len(t) - 1
        /\ \A k \in 1..(Len(t) - 1) : Tail(t)[k] = t[k + 1]
    BY TailFacts
  <1>2. i - 1 \in 1..Len(Tail(t)) /\ Tail(t)[i - 1] = t[i]
    BY <1>1
  <1>. QED  BY <1>2 DEF kinds_in

LEMMA KindsTail ==
    ASSUME NEW t \in Seq(Steps), t # << >>
    PROVE  kinds_in(t) = {t[1].kind} \cup kinds_in(Tail(t))
  <1>1. /\ Len(t) \in Nat \ {0} /\ Len(Tail(t)) = Len(t) - 1
        /\ \A i \in 1..(Len(t) - 1) : Tail(t)[i] = t[i + 1]
    BY TailFacts
  <1>2. kinds_in(t) \subseteq {t[1].kind} \cup kinds_in(Tail(t))
    <2>. SUFFICES ASSUME NEW i \in 1..Len(t), i # 1
                  PROVE  t[i].kind \in kinds_in(Tail(t))
      BY DEF kinds_in
    <2>1. i \in 2..Len(t)
      BY <1>1
    <2>. QED  BY <2>1, KindsAfter
  <1>3. kinds_in(Tail(t)) \subseteq kinds_in(t)
    <2>. SUFFICES ASSUME NEW i \in 1..Len(Tail(t))
                  PROVE  \E k \in 1..Len(t) : Tail(t)[i].kind = t[k].kind
      BY DEF kinds_in
    <2>1. i + 1 \in 1..Len(t) /\ Tail(t)[i] = t[i + 1]
      BY <1>1
    <2>. QED  BY <2>1
  <1>4. t[1].kind \in kinds_in(t)
    BY <1>1 DEF kinds_in
  <1>. QED  BY <1>2, <1>3, <1>4

\* The steps the lists are made of.
LEMMA CallsAreSteps ==
    /\ Step("drop", "shuttle", "sql") \in Steps /\ Step("drop", "second", "sql") \in Steps
    /\ Step("drop", "namespace", "rest") \in Steps /\ Step("drop", "namespace", "sql") \in Steps
    /\ purge_s3_namespace \in Steps /\ Step("drop", "connection", "sql") \in Steps
    /\ Step("drop", "publication", "source") \in Steps /\ Step("drop", "slot", "source") \in Steps
    /\ Step("drop", "schema", "source") \in Steps
    /\ Step("create", "schema", "source") \in Steps /\ Step("init", "schema", "source") \in Steps
    /\ Step("create", "connection", "sql") \in Steps /\ Step("create", "shuttle", "sql") \in Steps
    /\ Step("create", "second", "sql") \in Steps /\ Step("resume", "shuttle", "sql") \in Steps
    /\ Step("resume", "second", "sql") \in Steps /\ Step("pause", "shuttle", "sql") \in Steps
    /\ Step("finish", "status", "map") \in Steps
    /\ produce_kafka \in Steps /\ upload_file \in Steps
  BY DEF Step, Steps, Verbs, Vias, Kinds, purge_s3_namespace, produce_kafka, upload_file

\* What teardown_session(k) consists of: everything the scenario makes is dropped,
\* shuttle k first.
LEMMA TeardownList ==
    ASSUME NEW sc \in AllScenarios, NEW k \in {"shuttle", "second"}, k \in kinds_of(sc)
    PROVE  /\ teardown_session(k) \in Seq(Steps) /\ teardown_session(k) # << >>
           /\ teardown_session(k)[1].kind = k
           /\ TeardownShape(teardown_session(k), sc)
           /\ dropped_of(sc) \cup {k} \subseteq kinds_in(teardown_session(k))
  <1>. DEFINE t == teardown_session(k)
  <1>1. CASE k = "shuttle"
    <2>1. /\ Len(t) = 7
          /\ t[1] = Step("drop", "shuttle", "sql") /\ t[2] = Step("drop", "namespace", "rest")
          /\ t[3] = purge_s3_namespace /\ t[4] = Step("drop", "connection", "sql")
          /\ t[5] = Step("drop", "publication", "source") /\ t[6] = Step("drop", "slot", "source")
          /\ t[7] = Step("drop", "schema", "source")
      BY <1>1 DEF teardown_session
    <2>6. t \in Seq(Steps)
      BY <1>1, CallsAreSteps DEF teardown_session
    <2>. HIDE DEF t
    <2>2. /\ t # << >>
          /\ \A i \in 1..7 : t[i].verb = "drop" /\ accepted(t[i])
          /\ \A i \in 2..7 : t[i].kind \notin {"shuttle", "second"}
          /\ t[1].kind = k
      <3>1. /\ t[1].verb = "drop" /\ t[1].kind = k /\ accepted(t[1])
            /\ t[2].verb = "drop" /\ t[2].kind = "namespace" /\ accepted(t[2])
            /\ t[3].verb = "drop" /\ t[3].kind = "files" /\ accepted(t[3])
            /\ t[4].verb = "drop" /\ t[4].kind = "connection" /\ accepted(t[4])
            /\ t[5].verb = "drop" /\ t[5].kind = "publication" /\ accepted(t[5])
            /\ t[6].verb = "drop" /\ t[6].kind = "slot" /\ accepted(t[6])
            /\ t[7].verb = "drop" /\ t[7].kind = "schema" /\ accepted(t[7])
        BY <2>1, <1>1 DEF accepted, classify_statement, Step, purge_s3_namespace
      <3>2. \A i \in 1..7 : i = 1 \/ i = 2 \/ i = 3 \/ i = 4 \/ i = 5 \/ i = 6 \/ i = 7
        OBVIOUS
      <3>3. t # << >>
        BY <2>1
      <3>. QED  BY <3>1, <3>2, <3>3
    <2>3. {"namespace", "files", "connection", "publication", "slot", "schema"} \subseteq kinds_in(Tail(t))
      <3>1. \A i \in 2..7 : t[i].kind \in kinds_in(Tail(t))
        BY <2>1, <2>2, <2>6, KindsAfter
      <3>2. /\ t[2].kind = "namespace"
            /\ t[3].kind = "files"
            /\ t[4].kind = "connection"
            /\ t[5].kind = "publication"
            /\ t[6].kind = "slot"
            /\ t[7].kind = "schema"
        BY <2>1 DEF Step, purge_s3_namespace
      <3>3. /\ t[2].kind \in kinds_in(Tail(t))
            /\ t[3].kind \in kinds_in(Tail(t))
            /\ t[4].kind \in kinds_in(Tail(t))
            /\ t[5].kind \in kinds_in(Tail(t))
            /\ t[6].kind \in kinds_in(Tail(t))
            /\ t[7].kind \in kinds_in(Tail(t))
        BY <3>1
      <3>. QED  BY <3>2, <3>3
    <2>4. dropped_of(sc) \subseteq {"namespace", "files", "connection", "publication", "slot", "schema"}
      BY DEF dropped_of, kinds_of, AllScenarios
    <2>5. kinds_in(t) = {t[1].kind} \cup kinds_in(Tail(t))
      BY <2>2, <2>6, KindsTail
    <2>. QED  BY <2>1, <2>2, <2>3, <2>4, <2>5, <2>6 DEF TeardownShape, t
  <1>2. CASE k = "second"
    <2>1. /\ Len(t) = 5
          /\ t[1] = Step("drop", "second", "sql") /\ t[2] = Step("drop", "namespace", "rest")
          /\ t[3] = purge_s3_namespace /\ t[4] = Step("drop", "connection", "sql")
          /\ t[5] = Step("drop", "schema", "source")
      BY <1>2 DEF teardown_session
    <2>6. t \in Seq(Steps)
      BY <1>2, CallsAreSteps DEF teardown_session
    <2>. HIDE DEF t
    <2>2. /\ t # << >>
          /\ \A i \in 1..5 : t[i].verb = "drop" /\ accepted(t[i])
          /\ \A i \in 2..5 : t[i].kind \notin {"shuttle", "second"}
          /\ t[1].kind = k
      <3>1. /\ t[1].verb = "drop" /\ t[1].kind = k /\ accepted(t[1])
            /\ t[2].verb = "drop" /\ t[2].kind = "namespace" /\ accepted(t[2])
            /\ t[3].verb = "drop" /\ t[3].kind = "files" /\ accepted(t[3])
            /\ t[4].verb = "drop" /\ t[4].kind = "connection" /\ accepted(t[4])
            /\ t[5].verb = "drop" /\ t[5].kind = "schema" /\ accepted(t[5])
        BY <2>1, <1>2 DEF accepted, classify_statement, Step, purge_s3_namespace
      <3>2. \A i \in 1..5 : i = 1 \/ i = 2 \/ i = 3 \/ i = 4 \/ i = 5
        OBVIOUS
      <3>3. t # << >>
        BY <2>1
      <3>. QED  BY <3>1, <3>2, <3>3
    <2>3. {"namespace", "files", "connection", "schema"} \subseteq kinds_in(Tail(t))
      <3>1. \A i \in 2..5 : t[i].kind \in kinds_in(Tail(t))
        BY <2>1, <2>2, <2>6, KindsAfter
      <3>2. /\ t[2].kind = "namespace"
            /\ t[3].kind = "files"
            /\ t[4].kind = "connection"
            /\ t[5].kind = "schema"
        BY <2>1 DEF Step, purge_s3_namespace
      <3>3. /\ t[2].kind \in kinds_in(Tail(t))
            /\ t[3].kind \in kinds_in(Tail(t))
            /\ t[4].kind \in kinds_in(Tail(t))
            /\ t[5].kind \in kinds_in(Tail(t))
        BY <3>1
      <3>. QED  BY <3>2, <3>3
    <2>4. dropped_of(sc) \subseteq {"namespace", "files", "connection", "schema"}
      <3>1. sc = "two_shuttles"
        BY <1>2 DEF kinds_of, AllScenarios
      <3>. QED  BY <3>1 DEF dropped_of, kinds_of
    <2>5. kinds_in(t) = {t[1].kind} \cup kinds_in(Tail(t))
      BY <2>2, <2>6, KindsTail
    <2>. QED  BY <2>1, <2>2, <2>3, <2>4, <2>5, <2>6 DEF TeardownShape, t
  <1>. QED  BY <1>1, <1>2

\* A list with CREATE SHUTTLE at place c and the last CREATE at place d.
Plan(t, sc, c, d, n) ==
    /\ t \in Seq(Steps) /\ Len(t) = n
    /\ n \in Nat /\ c \in 1..n /\ d \in c..n /\ d < n
    /\ t[c] = create_shuttle /\ t[n].verb = "finish"
    /\ \A i \in 1..d : /\ t[i].verb \in {"create", "drop", "init"}
                       /\ t[i].verb = "create" =>
                            t[i].kind \in kinds_of(sc) \ {"topic", "files"} /\ accepted(t[i])
    /\ \A i \in (c + 1)..d : t[i].verb = "create" /\ t[i].kind = "second"
    /\ \A i \in (d + 1)..(n - 1) : t[i].verb = "resume" /\ t[i].kind \in {"shuttle", "second"}

LEMMA Building ==
    ASSUME NEW sc, NEW t, NEW n, NEW c, NEW d, Plan(t, sc, c, d, n)
    PROVE  BuildShape(t, sc, TRUE)
  <1>. USE DEF Plan
  <1>1. \A i \in 1..n : i \in 1..d \/ i \in (d + 1)..(n - 1) \/ i = n
    OBVIOUS
  <1>2. \A i \in 1..n : (t[i].verb = "finish") <=> (i = n)
    BY <1>1
  <1>3. ASSUME NEW i \in 1..n
        PROVE  /\ t[i].verb \in {"create", "drop", "init", "resume", "finish"}
               /\ t[i].verb = "create" =>
                    t[i].kind \in kinds_of(sc) \ {"topic", "files"} /\ accepted(t[i])
    BY <1>1
  <1>4. ASSUME NEW i \in 1..n, t[i].verb = "resume"
        PROVE  /\ t[i].kind \in {"shuttle", "second"}
               /\ \A k \in i..n : t[k].verb # "create"
    <2>1. i \in (d + 1)..(n - 1)
      BY <1>1, <1>4
    <2>2. \A k \in i..n : k \in (d + 1)..(n - 1) \/ k = n
      BY <2>1
    <2>. QED  BY <2>1, <2>2
  <1>5. ASSUME NEW i \in 1..n, leads_up(t[i])
        PROVE  \E k \in i..n : t[k] = create_shuttle
    <2>1. i \in 1..d
      BY <1>1, <1>5 DEF leads_up
    <2>2. i \notin (c + 1)..d
      BY <1>5 DEF leads_up
    <2>3. c \in i..n
      BY <2>1, <2>2
    <2>. QED  BY <2>3
  <1>. QED  BY <1>2, <1>3, <1>4, <1>5 DEF BuildShape

\* What create_session sets out to do.
LEMMA CreateList ==
    ASSUME NEW sc \in AllScenarios, api \in BOOLEAN
    PROVE  /\ create_calls(sc) \in Seq(Steps) /\ create_calls(sc) # << >>
           /\ BuildShape(create_calls(sc), sc, api)
  <1>. DEFINE t == create_calls(sc)
  <1>1. CASE sc = "cdc" /\ api = TRUE
    <2>1. /\ Len(t) = 6
          /\ t[1] = Step("create", "schema", "source")
          /\ t[2] = Step("init", "schema", "source")
          /\ t[3] = Step("create", "connection", "sql")
          /\ t[4] = Step("create", "shuttle", "sql")
          /\ t[5] = Step("resume", "shuttle", "sql")
          /\ t[6] = Step("finish", "status", "map")
      BY <1>1 DEF create_calls, shuttle_sql, init_sql, provisioned, finish
    <2>2. t \in Seq(Steps)
      BY <1>1, CallsAreSteps DEF create_calls, shuttle_sql, init_sql, provisioned, finish
    <2>. HIDE DEF t
    <2>3. /\ t # << >>
          /\ t[1].verb = "create" /\ t[1].kind = "schema" /\ accepted(t[1])
          /\ t[2].verb = "init" /\ t[2].kind = "schema"
          /\ t[3].verb = "create" /\ t[3].kind = "connection" /\ accepted(t[3])
          /\ t[4].verb = "create" /\ t[4].kind = "shuttle" /\ accepted(t[4])
          /\ t[5].verb = "resume" /\ t[5].kind = "shuttle"
          /\ t[6].verb = "finish" /\ t[6].kind = "status"
      BY <2>1 DEF Step, accepted, classify_statement
    <2>4. {"connection", "schema", "shuttle"} \subseteq kinds_of(sc) \ {"topic", "files"}
      BY <1>1 DEF kinds_of, AllScenarios, provisioned
    <2>5. \A i \in 1..6 : i = 1 \/ i = 2 \/ i = 3 \/ i = 4 \/ i = 5 \/ i = 6
      OBVIOUS
    <2>6. /\ t[4] = create_shuttle
          /\ \A i \in 1..4 : /\ t[i].verb \in {"create", "drop", "init"}
                           /\ t[i].verb = "create" =>
                                t[i].kind \in kinds_of(sc) \ {"topic", "files"} /\ accepted(t[i])
          /\ \A i \in 5..4 : t[i].verb = "create" /\ t[i].kind = "second"
          /\ \A i \in 5..5 : t[i].verb = "resume" /\ t[i].kind \in {"shuttle", "second"}
      BY <2>1, <2>3, <2>4, <2>5 DEF create_shuttle
    <2>7. BuildShape(t, sc, TRUE)
      <3>1. Plan(t, sc, 4, 4, 6)
        BY <2>1, <2>2, <2>3, <2>6 DEF Plan
      <3>. QED  BY <3>1, Building
    <2>. QED  BY <2>2, <2>3, <2>7, <1>1 DEF t
  <1>2. CASE sc = "two_shuttles" /\ api = TRUE
    <2>1. /\ Len(t) = 8
          /\ t[1] = Step("create", "schema", "source")
          /\ t[2] = Step("init", "schema", "source")
          /\ t[3] = Step("create", "connection", "sql")
          /\ t[4] = Step("create", "shuttle", "sql")
          /\ t[5] = Step("create", "second", "sql")
          /\ t[6] = Step("resume", "shuttle", "sql")
          /\ t[7] = Step("resume", "second", "sql")
          /\ t[8] = Step("finish", "status", "map")
      BY <1>2 DEF create_calls, shuttle_sql, init_sql, provisioned, finish
    <2>2. t \in Seq(Steps)
      BY <1>2, CallsAreSteps DEF create_calls, shuttle_sql, init_sql, provisioned, finish
    <2>. HIDE DEF t
    <2>3. /\ t # << >>
          /\ t[1].verb = "create" /\ t[1].kind = "schema" /\ accepted(t[1])
          /\ t[2].verb = "init" /\ t[2].kind = "schema"
          /\ t[3].verb = "create" /\ t[3].kind = "connection" /\ accepted(t[3])
          /\ t[4].verb = "create" /\ t[4].kind = "shuttle" /\ accepted(t[4])
          /\ t[5].verb = "create" /\ t[5].kind = "second" /\ accepted(t[5])
          /\ t[6].verb = "resume" /\ t[6].kind = "shuttle"
          /\ t[7].verb = "resume" /\ t[7].kind = "second"
          /\ t[8].verb = "finish" /\ t[8].kind = "status"
      BY <2>1 DEF Step, accepted, classify_statement
    <2>4. {"connection", "schema", "second", "shuttle"} \subseteq kinds_of(sc) \ {"topic", "files"}
      BY <1>2 DEF kinds_of, AllScenarios, provisioned
    <2>5. \A i \in 1..8 : i = 1 \/ i = 2 \/ i = 3 \/ i = 4 \/ i = 5 \/ i = 6 \/ i = 7 \/ i = 8
      OBVIOUS
    <2>6. /\ t[4] = create_shuttle
          /\ \A i \in 1..5 : /\ t[i].verb \in {"create", "drop", "init"}
                           /\ t[i].verb = "create" =>
                                t[i].kind \in kinds_of(sc) \ {"topic", "files"} /\ accepted(t[i])
          /\ \A i \in 5..5 : t[i].verb = "create" /\ t[i].kind = "second"
          /\ \A i \in 6..7 : t[i].verb = "resume" /\ t[i].kind \in {"shuttle", "second"}
      BY <2>1, <2>3, <2>4, <2>5 DEF create_shuttle
    <2>7. BuildShape(t, sc, TRUE)
      <3>1. Plan(t, sc, 4, 5, 8)
        BY <2>1, <2>2, <2>3, <2>6 DEF Plan
      <3>. QED  BY <3>1, Building
    <2>. QED  BY <2>2, <2>3, <2>7, <1>2 DEF t
  <1>3. CASE sc \notin {"cdc", "two_shuttles"} /\ api = TRUE
    <2>1. /\ Len(t) = 4
          /\ t[1] = Step("create", "connection", "sql")
          /\ t[2] = Step("create", "shuttle", "sql")
          /\ t[3] = Step("resume", "shuttle", "sql")
          /\ t[4] = Step("finish", "status", "map")
      BY <1>3 DEF create_calls, shuttle_sql, init_sql, provisioned, finish
    <2>2. t \in Seq(Steps)
      BY <1>3, CallsAreSteps DEF create_calls, shuttle_sql, init_sql, provisioned, finish
    <2>. HIDE DEF t
    <2>3. /\ t # << >>
          /\ t[1].verb = "create" /\ t[1].kind = "connection" /\ accepted(t[1])
          /\ t[2].verb = "create" /\ t[2].kind = "shuttle" /\ accepted(t[2])
          /\ t[3].verb = "resume" /\ t[3].kind = "shuttle"
          /\ t[4].verb = "finish" /\ t[4].kind = "status"
      BY <2>1 DEF Step, accepted, classify_statement
    <2>4. {"connection", "shuttle"} \subseteq kinds_of(sc) \ {"topic", "files"}
      BY <1>3 DEF kinds_of, AllScenarios, provisioned
    <2>5. \A i \in 1..4 : i = 1 \/ i = 2 \/ i = 3 \/ i = 4
      OBVIOUS
    <2>6. /\ t[2] = create_shuttle
          /\ \A i \in 1..2 : /\ t[i].verb \in {"create", "drop", "init"}
                           /\ t[i].verb = "create" =>
                                t[i].kind \in kinds_of(sc) \ {"topic", "files"} /\ accepted(t[i])
          /\ \A i \in 3..2 : t[i].verb = "create" /\ t[i].kind = "second"
          /\ \A i \in 3..3 : t[i].verb = "resume" /\ t[i].kind \in {"shuttle", "second"}
      BY <2>1, <2>3, <2>4, <2>5 DEF create_shuttle
    <2>7. BuildShape(t, sc, TRUE)
      <3>1. Plan(t, sc, 2, 2, 4)
        BY <2>1, <2>2, <2>3, <2>6 DEF Plan
      <3>. QED  BY <3>1, Building
    <2>. QED  BY <2>2, <2>3, <2>7, <1>3 DEF t
  <1>4. CASE sc \in {"cdc", "two_shuttles"} /\ api = FALSE
    <2>1. /\ Len(t) = 3
          /\ t[1] = Step("create", "schema", "source")
          /\ t[2] = Step("init", "schema", "source")
          /\ t[3] = Step("finish", "status", "map")
      BY <1>4 DEF create_calls, shuttle_sql, init_sql, provisioned, finish
    <2>2. t \in Seq(Steps)
      BY <1>4, CallsAreSteps DEF create_calls, shuttle_sql, init_sql, provisioned, finish
    <2>. HIDE DEF t
    <2>3. /\ t # << >>
          /\ t[1].verb = "create" /\ t[1].kind = "schema" /\ accepted(t[1])
          /\ t[2].verb = "init" /\ t[2].kind = "schema"
          /\ t[3].verb = "finish" /\ t[3].kind = "status"
      BY <2>1 DEF Step, accepted, classify_statement
    <2>4. {"schema"} \subseteq kinds_of(sc) \ {"topic", "files"}
      BY <1>4 DEF kinds_of, AllScenarios, provisioned
    <2>5. \A i \in 1..3 : i = 1 \/ i = 2 \/ i = 3
      OBVIOUS
    <2>7. BuildShape(t, sc, FALSE)
      BY <2>1, <2>3, <2>4, <2>5 DEF BuildShape
    <2>. QED  BY <2>2, <2>3, <2>7, <1>4 DEF t
  <1>5. CASE sc \notin {"cdc", "two_shuttles"} /\ api = FALSE
    <2>1. /\ Len(t) = 1
          /\ t[1] = Step("finish", "status", "map")
      BY <1>5 DEF create_calls, shuttle_sql, init_sql, provisioned, finish
    <2>2. t \in Seq(Steps)
      BY <1>5, CallsAreSteps DEF create_calls, shuttle_sql, init_sql, provisioned, finish
    <2>. HIDE DEF t
    <2>3. /\ t # << >>
          /\ t[1].verb = "finish" /\ t[1].kind = "status"
      BY <2>1 DEF Step, accepted, classify_statement
    <2>5. \A i \in 1..1 : i = 1
      OBVIOUS
    <2>7. BuildShape(t, sc, FALSE)
      BY <2>1, <2>3, <2>5 DEF BuildShape
    <2>. QED  BY <2>2, <2>3, <2>7, <1>5 DEF t
  <1>. QED  BY <1>1, <1>2, <1>3, <1>4, <1>5

\* What reset_session sets out to do.
LEMMA ResetList ==
    ASSUME NEW sc \in AllScenarios
    PROVE  /\ reset_calls(sc) \in Seq(Steps) /\ reset_calls(sc) # << >>
           /\ BuildShape(reset_calls(sc), sc, TRUE)
  <1>. DEFINE t == reset_calls(sc)
  <1>1. CASE sc = "cdc"
    <2>1. /\ Len(t) = 7
          /\ t[1] = Step("drop", "shuttle", "sql")
          /\ t[2] = Step("drop", "namespace", "sql")
          /\ t[3] = Step("init", "schema", "source")
          /\ t[4] = Step("create", "connection", "sql")
          /\ t[5] = Step("create", "shuttle", "sql")
          /\ t[6] = Step("resume", "shuttle", "sql")
          /\ t[7] = Step("finish", "status", "map")
      BY <1>1 DEF reset_calls, shuttle_sql, init_sql, provisioned, finish
    <2>2. t \in Seq(Steps)
      BY <1>1, CallsAreSteps DEF reset_calls, shuttle_sql, init_sql, provisioned, finish
    <2>. HIDE DEF t
    <2>3. /\ t # << >>
          /\ t[1].verb = "drop" /\ t[1].kind = "shuttle"
          /\ t[2].verb = "drop" /\ t[2].kind = "namespace"
          /\ t[3].verb = "init" /\ t[3].kind = "schema"
          /\ t[4].verb = "create" /\ t[4].kind = "connection" /\ accepted(t[4])
          /\ t[5].verb = "create" /\ t[5].kind = "shuttle" /\ accepted(t[5])
          /\ t[6].verb = "resume" /\ t[6].kind = "shuttle"
          /\ t[7].verb = "finish" /\ t[7].kind = "status"
      BY <2>1 DEF Step, accepted, classify_statement
    <2>4. {"connection", "shuttle"} \subseteq kinds_of(sc) \ {"topic", "files"}
      BY <1>1 DEF kinds_of, AllScenarios, provisioned
    <2>5. \A i \in 1..7 : i = 1 \/ i = 2 \/ i = 3 \/ i = 4 \/ i = 5 \/ i = 6 \/ i = 7
      OBVIOUS
    <2>6. /\ t[5] = create_shuttle
          /\ \A i \in 1..5 : /\ t[i].verb \in {"create", "drop", "init"}
                           /\ t[i].verb = "create" =>
                                t[i].kind \in kinds_of(sc) \ {"topic", "files"} /\ accepted(t[i])
          /\ \A i \in 6..5 : t[i].verb = "create" /\ t[i].kind = "second"
          /\ \A i \in 6..6 : t[i].verb = "resume" /\ t[i].kind \in {"shuttle", "second"}
      BY <2>1, <2>3, <2>4, <2>5 DEF create_shuttle
    <2>7. BuildShape(t, sc, TRUE)
      <3>1. Plan(t, sc, 5, 5, 7)
        BY <2>1, <2>2, <2>3, <2>6 DEF Plan
      <3>. QED  BY <3>1, Building
    <2>. QED  BY <2>2, <2>3, <2>7, <1>1 DEF t
  <1>2. CASE sc = "two_shuttles"
    <2>1. /\ Len(t) = 9
          /\ t[1] = Step("drop", "shuttle", "sql")
          /\ t[2] = Step("drop", "namespace", "sql")
          /\ t[3] = Step("init", "schema", "source")
          /\ t[4] = Step("create", "connection", "sql")
          /\ t[5] = Step("create", "shuttle", "sql")
          /\ t[6] = Step("create", "second", "sql")
          /\ t[7] = Step("resume", "shuttle", "sql")
          /\ t[8] = Step("resume", "second", "sql")
          /\ t[9] = Step("finish", "status", "map")
      BY <1>2 DEF reset_calls, shuttle_sql, init_sql, provisioned, finish
    <2>2. t \in Seq(Steps)
      BY <1>2, CallsAreSteps DEF reset_calls, shuttle_sql, init_sql, provisioned, finish
    <2>. HIDE DEF t
    <2>3. /\ t # << >>
          /\ t[1].verb = "drop" /\ t[1].kind = "shuttle"
          /\ t[2].verb = "drop" /\ t[2].kind = "namespace"
          /\ t[3].verb = "init" /\ t[3].kind = "schema"
          /\ t[4].verb = "create" /\ t[4].kind = "connection" /\ accepted(t[4])
          /\ t[5].verb = "create" /\ t[5].kind = "shuttle" /\ accepted(t[5])
          /\ t[6].verb = "create" /\ t[6].kind = "second" /\ accepted(t[6])
          /\ t[7].verb = "resume" /\ t[7].kind = "shuttle"
          /\ t[8].verb = "resume" /\ t[8].kind = "second"
          /\ t[9].verb = "finish" /\ t[9].kind = "status"
      BY <2>1 DEF Step, accepted, classify_statement
    <2>4. {"connection", "second", "shuttle"} \subseteq kinds_of(sc) \ {"topic", "files"}
      BY <1>2 DEF kinds_of, AllScenarios, provisioned
    <2>5. \A i \in 1..9 : i = 1 \/ i = 2 \/ i = 3 \/ i = 4 \/ i = 5 \/ i = 6 \/ i = 7 \/ i = 8 \/ i = 9
      OBVIOUS
    <2>6. /\ t[5] = create_shuttle
          /\ \A i \in 1..6 : /\ t[i].verb \in {"create", "drop", "init"}
                           /\ t[i].verb = "create" =>
                                t[i].kind \in kinds_of(sc) \ {"topic", "files"} /\ accepted(t[i])
          /\ \A i \in 6..6 : t[i].verb = "create" /\ t[i].kind = "second"
          /\ \A i \in 7..8 : t[i].verb = "resume" /\ t[i].kind \in {"shuttle", "second"}
      BY <2>1, <2>3, <2>4, <2>5 DEF create_shuttle
    <2>7. BuildShape(t, sc, TRUE)
      <3>1. Plan(t, sc, 5, 6, 9)
        BY <2>1, <2>2, <2>3, <2>6 DEF Plan
      <3>. QED  BY <3>1, Building
    <2>. QED  BY <2>2, <2>3, <2>7, <1>2 DEF t
  <1>3. CASE sc \notin {"cdc", "two_shuttles"}
    <2>1. /\ Len(t) = 6
          /\ t[1] = Step("drop", "shuttle", "sql")
          /\ t[2] = Step("drop", "namespace", "sql")
          /\ t[3] = Step("create", "connection", "sql")
          /\ t[4] = Step("create", "shuttle", "sql")
          /\ t[5] = Step("resume", "shuttle", "sql")
          /\ t[6] = Step("finish", "status", "map")
      BY <1>3 DEF reset_calls, shuttle_sql, init_sql, provisioned, finish
    <2>2. t \in Seq(Steps)
      BY <1>3, CallsAreSteps DEF reset_calls, shuttle_sql, init_sql, provisioned, finish
    <2>. HIDE DEF t
    <2>3. /\ t # << >>
          /\ t[1].verb = "drop" /\ t[1].kind = "shuttle"
          /\ t[2].verb = "drop" /\ t[2].kind = "namespace"
          /\ t[3].verb = "create" /\ t[3].kind = "connection" /\ accepted(t[3])
          /\ t[4].verb = "create" /\ t[4].kind = "shuttle" /\ accepted(t[4])
          /\ t[5].verb = "resume" /\ t[5].kind = "shuttle"
          /\ t[6].verb = "finish" /\ t[6].kind = "status"
      BY <2>1 DEF Step, accepted, classify_statement
    <2>4. {"connection", "shuttle"} \subseteq kinds_of(sc) \ {"topic", "files"}
      BY <1>3 DEF kinds_of, AllScenarios, provisioned
    <2>5. \A i \in 1..6 : i = 1 \/ i = 2 \/ i = 3 \/ i = 4 \/ i = 5 \/ i = 6
      OBVIOUS
    <2>6. /\ t[4] = create_shuttle
          /\ \A i \in 1..4 : /\ t[i].verb \in {"create", "drop", "init"}
                           /\ t[i].verb = "create" =>
                                t[i].kind \in kinds_of(sc) \ {"topic", "files"} /\ accepted(t[i])
          /\ \A i \in 5..4 : t[i].verb = "create" /\ t[i].kind = "second"
          /\ \A i \in 5..5 : t[i].verb = "resume" /\ t[i].kind \in {"shuttle", "second"}
      BY <2>1, <2>3, <2>4, <2>5 DEF create_shuttle
    <2>7. BuildShape(t, sc, TRUE)
      <3>1. Plan(t, sc, 4, 4, 6)
        BY <2>1, <2>2, <2>3, <2>6 DEF Plan
      <3>. QED  BY <3>1, Building
    <2>. QED  BY <2>2, <2>3, <2>7, <1>3 DEF t
  <1>. QED  BY <1>1, <1>2, <1>3

-----------------------------------------------------------------------------
(* Jobs                                                                     *)

LEMMA TeardownTail ==
    ASSUME NEW sc, NEW t \in Seq(Steps), t # << >>, Tail(t) # << >>, TeardownShape(t, sc)
    PROVE  TeardownShape(Tail(t), sc) /\ Tail(t)[1].kind \notin {"shuttle", "second"}
  <1>1. /\ Len(t) \in Nat \ {0} /\ Len(Tail(t)) = Len(t) - 1 /\ Tail(t) \in Seq(Steps)
        /\ \A i \in 1..(Len(t) - 1) : Tail(t)[i] = t[i + 1]
    BY TailFacts
  <1>2. Len(Tail(t)) # 0
    BY <1>1
  <1>3. ASSUME NEW i \in 1..Len(Tail(t))
        PROVE  Tail(t)[i].verb = "drop" /\ accepted(Tail(t)[i])
               /\ Tail(t)[i].kind \notin {"shuttle", "second"}
    <2>1. i + 1 \in 1..Len(t) /\ i + 1 \in 2..Len(t) /\ Tail(t)[i] = t[i + 1]
      BY <1>1
    <2>. QED  BY <2>1 DEF TeardownShape
  <1>4. 1 \in 1..Len(Tail(t)) /\ 2..Len(Tail(t)) \subseteq 1..Len(Tail(t))
    BY <1>1, <1>2
  <1>. QED  BY <1>3, <1>4 DEF TeardownShape

LEMMA BuildTail ==
    ASSUME NEW sc, NEW a, NEW t \in Seq(Steps), t # << >>, BuildShape(t, sc, a),
           t[1].verb # "finish"
    PROVE  Tail(t) # << >> /\ BuildShape(Tail(t), sc, a)
  <1>. DEFINE u == Tail(t)  n == Len(t)
  <1>1. /\ n \in Nat \ {0} /\ Len(u) = n - 1 /\ u \in Seq(Steps)
        /\ \A i \in 1..(n - 1) : u[i] = t[i + 1]
    BY TailFacts
  <1>2. n # 1
    <2>1. \A i \in 1..n : (t[i].verb = "finish") <=> (i = n)
      BY DEF BuildShape
    <2>2. 1 \in 1..n
      BY <1>1
    <2>3. 1 # n
      BY <2>1, <2>2
    <2>. QED  BY <2>3
  <1>. HIDE DEF u, n
  <1>3. ASSUME NEW i \in 1..Len(u)
        PROVE  i + 1 \in 1..n /\ u[i] = t[i + 1] /\ (i = Len(u) <=> i + 1 = n)
    BY <1>1
  <1>4. \A i \in 1..Len(u) : (u[i].verb = "finish") <=> (i = Len(u))
    BY <1>3 DEF BuildShape, n
  <1>5. ASSUME NEW i \in 1..Len(u)
        PROVE  LET st == u[i]
               IN  /\ st.verb \in {"create", "drop", "init", "resume", "finish"}
                   /\ st.verb = "create" => st.kind \in kinds_of(sc) \ {"topic", "files"} /\ accepted(st)
                   /\ st.verb = "resume" => st.kind \in {"shuttle", "second"}
                   /\ ~a => st.verb \in {"init", "finish"} \/ (st.verb = "create" /\ st.kind = "schema")
    BY <1>3 DEF BuildShape, n
  <1>6. ASSUME NEW i \in 1..Len(u), u[i].verb = "resume", NEW k \in i..Len(u)
        PROVE  u[k].verb # "create"
    <2>1. k \in 1..Len(u) /\ k + 1 \in (i + 1)..n
      BY <1>1
    <2>2. u[k] = t[k + 1] /\ i + 1 \in 1..n /\ t[i + 1].verb = "resume"
      BY <1>3, <1>6, <2>1
    <2>3. \A m \in (i + 1)..n : t[m].verb # "create"
      BY <2>2 DEF BuildShape, n
    <2>. QED  BY <2>1, <2>2, <2>3
  <1>7. ASSUME NEW i \in 1..Len(u), leads_up(u[i]), a
        PROVE  \E k \in i..Len(u) : u[k] = create_shuttle
    <2>1. i + 1 \in 1..n /\ leads_up(t[i + 1])
      BY <1>3, <1>7
    <2>2. PICK m \in (i + 1)..n : t[m] = create_shuttle
      BY <2>1, <1>7 DEF BuildShape, n
    <2>3. m - 1 \in i..Len(u) /\ m - 1 \in 1..Len(u) /\ (m - 1) + 1 = m
      BY <1>1
    <2>4. u[m - 1] = t[m]
      BY <2>3, <1>3
    <2>. QED  BY <2>2, <2>3, <2>4
  <1>8. u # << >>
    BY <1>1, <1>2
  <1>. QED  BY <1>4, <1>5, <1>6, <1>7, <1>8 DEF BuildShape, u

LEMMA BuildFinish ==
    ASSUME NEW sc, NEW a
    PROVE  finish \in Seq(Steps) /\ finish # << >> /\ BuildShape(finish, sc, a)
  <1>. DEFINE t == finish
  <1>1. t \in Seq(Steps) /\ Len(t) = 1 /\ t[1] = Step("finish", "status", "map") /\ t # << >>
    BY CallsAreSteps DEF finish
  <1>. HIDE DEF t
  <1>2. t[1].verb = "finish" /\ \A i \in 1..Len(t) : i = 1
    BY <1>1 DEF Step
  <1>. QED  BY <1>1, <1>2 DEF BuildShape, leads_up, t

LEMMA NoJobTyped == NoJob \in Jobs /\ NoJob.id = NoId /\ NoJob.op = "idle" /\ NoJob.todo = << >>
  BY DEF NoJob, Job, Jobs, Ops

LEMMA StartTyped ==
    ASSUME NEW op \in Ops, NEW id \in Ids, NEW todo \in Seq(Steps)
    PROVE  /\ Start(op, id, todo) \in Jobs
           /\ todo = << >> => Start(op, id, todo) = NoJob
           /\ todo # << >> => /\ Start(op, id, todo) # NoJob
                              /\ Start(op, id, todo).op = op
                              /\ Start(op, id, todo).id = id
                              /\ Start(op, id, todo).todo = todo
  BY NoJobTyped DEF Start, Job, Jobs, NoJob

\* The next call of a job leaves the rest of it.
LEMMA ContinueTail ==
    ASSUME NEW ops, NEW j \in Jobs, j # NoJob, WellFormed(j, ops), j.todo[1].verb # "finish"
    PROVE  /\ Continue(j, Tail(j.todo)) \in Jobs
           /\ WellFormed(Continue(j, Tail(j.todo)), ops)
           /\ Tail(j.todo) = << >> => Continue(j, Tail(j.todo)) = NoJob
           /\ Tail(j.todo) # << >> => /\ Continue(j, Tail(j.todo)) # NoJob
                                      /\ Continue(j, Tail(j.todo)).op = j.op
                                      /\ Continue(j, Tail(j.todo)).id = j.id
                                      /\ Continue(j, Tail(j.todo)).todo = Tail(j.todo)
           /\ j.op \in {"create", "reset"} => Tail(j.todo) # << >>
  <1>. DEFINE t == j.todo  c == Continue(j, Tail(t))
  <1>1. /\ j.op \in Ops /\ j.id \in Ids /\ t \in Seq(Steps) /\ t # << >>
        /\ j.op \in ops /\ JobShape(j, scenario[j.id], api)
    BY DEF WellFormed, JobShape, Jobs
  <1>2. Tail(t) \in Seq(Steps) /\ Len(Tail(t)) = Len(t) - 1 /\ Len(t) \in Nat
    BY <1>1, TailFacts
  <1>3. /\ c \in Jobs
        /\ Tail(t) = << >> => c = NoJob
        /\ Tail(t) # << >> => c # NoJob /\ c.op = j.op /\ c.id = j.id /\ c.todo = Tail(t)
    <2>1. PICK op \in Ops, id \in Ids, todo \in Seq(Steps) : op = j.op /\ id = j.id /\ todo = Tail(t)
      BY <1>1, <1>2
    <2>2. c = Start(op, id, todo)
      BY <2>1 DEF Continue
    <2>. HIDE DEF c, t
    <2>. QED  BY <2>1, <2>2, StartTyped
  <1>. HIDE DEF t, c
  <1>4. CASE Tail(t) = << >>
    <2>1. j.op \notin {"create", "reset"}
      <3>1. j.op \in {"create", "reset"} => BuildShape(t, scenario[j.id], api)
        BY <1>1 DEF JobShape, t
      <3>2. t[1].verb # "finish"
        BY DEF t
      <3>. QED  BY <1>1, <1>4, <3>1, <3>2, BuildTail
    <2>. QED  BY <1>3, <1>4, <2>1 DEF WellFormed, t, c
  <1>5. CASE Tail(t) # << >>
    <2>. DEFINE sc == scenario[j.id]
    <2>1. CASE j.op \in {"end", "reap", "sweep"}
      <3>1. api /\ TeardownShape(t, sc)
        BY <1>1, <2>1 DEF JobShape, t
      <3>2. TeardownShape(Tail(t), sc) /\ Tail(t)[1].kind \notin {"shuttle", "second"}
        BY <3>1, <1>1, <1>5, TeardownTail
      <3>. QED  BY <1>1, <1>3, <1>5, <2>1, <3>1, <3>2 DEF WellFormed, JobShape, t, c
    <2>2. CASE j.op \in {"create", "reset"}
      <3>1. BuildShape(t, sc, api) /\ t[1].verb # "finish"
        BY <1>1, <2>2 DEF JobShape, t
      <3>2. BuildShape(Tail(t), sc, api)
        BY <3>1, <1>1, BuildTail
      <3>. QED  BY <1>1, <1>3, <1>5, <2>2, <3>2 DEF WellFormed, JobShape, t, c
    <2>3. CASE j.op = "action"
      <3>1. Len(t) = 1
        BY <1>1, <2>3 DEF JobShape, ActionShape, t
      <3>2. PICK u \in Seq(Steps) : u = Tail(t)
        BY <1>2
      <3>3. Len(u) = 0
        BY <3>1, <3>2, <1>2
      <3>4. u = << >>
        BY <3>3
      <3>. QED  BY <3>2, <3>4, <1>5
    <2>. QED  BY <1>1, <2>1, <2>2, <2>3 DEF JobShape
  <1>. QED  BY <1>4, <1>5

\* A call that fails on the way to the shuttle leaves only the closing update.
LEMMA ContinueFinish ==
    ASSUME NEW ops, NEW j \in Jobs, j # NoJob, WellFormed(j, ops), j.op \in {"create", "reset"}
    PROVE  /\ Continue(j, finish) \in Jobs /\ Continue(j, finish) # NoJob
           /\ WellFormed(Continue(j, finish), ops)
           /\ Continue(j, finish).op = j.op /\ Continue(j, finish).id = j.id
           /\ Continue(j, finish).todo = finish
  <1>. DEFINE c == Continue(j, finish)
  <1>1. j.op \in Ops /\ j.id \in Ids /\ j.op \in ops
    BY DEF WellFormed, JobShape, Jobs
  <1>2. finish \in Seq(Steps) /\ finish # << >> /\ BuildShape(finish, scenario[j.id], api)
    BY BuildFinish
  <1>3. c \in Jobs /\ c # NoJob /\ c.op = j.op /\ c.id = j.id /\ c.todo = finish
    BY <1>1, <1>2, StartTyped DEF Continue
  <1>. HIDE DEF c
  <1>. QED  BY <1>1, <1>2, <1>3 DEF WellFormed, JobShape, c

-----------------------------------------------------------------------------
(* Calls                                                                    *)

LEMMA KindsFacts ==
    ASSUME NEW sc \in AllScenarios
    PROVE  /\ {"connection", "shuttle", "namespace", "files"} \subseteq kinds_of(sc)
           /\ kinds_of(sc) \subseteq Kinds \ {"running", "second_running"}
           /\ "second" \in kinds_of(sc) <=> sc = "two_shuttles"
           /\ "topic" \in kinds_of(sc) <=> sc = "kafka"
           /\ "schema" \in kinds_of(sc) <=> sc \in {"cdc", "two_shuttles"}
           /\ "publication" \in kinds_of(sc) <=> sc = "cdc"
           /\ "slot" \in kinds_of(sc) <=> sc = "cdc"
  BY DEF kinds_of, AllScenarios, Kinds

LEMMA FaultFacts ==
    ASSUME Typed, NEW o \in Outcomes, Count(o)
    PROVE  faults' \in Nat /\ (faults' = 0 => faults = 0 /\ o = "ok")
  BY DEF Typed, Outcomes, Count

LEMMA DropEffect ==
    ASSUME Typed, NEW id \in Ids, NEW st, NEW o \in Outcomes, Drop(id, st, o)
    PROVE  /\ arts' \in [Ids -> SUBSET Kinds]
           /\ faults' \in Nat /\ (faults' = 0 => faults = 0 /\ o = "ok")
           /\ \A s \in Ids : s # id => arts'[s] = arts[s]
           /\ arts'[id] = arts[id] \/ arts'[id] = arts[id] \ with_dependents(st.kind)
           /\ o = "ok" /\ accepted(st) => arts'[id] = arts[id] \ with_dependents(st.kind)
  <1>1. faults' \in Nat /\ (faults' = 0 => faults = 0 /\ o = "ok")
    BY FaultFacts DEF Drop
  <1>2. arts \in [Ids -> SUBSET Kinds]
    BY DEF Typed
  <1>. QED  BY <1>1, <1>2 DEF Drop

LEMMA MakeEffect ==
    ASSUME Typed, NEW id \in Ids, NEW st, st.kind \in Kinds, NEW o \in Outcomes, Make(id, st, o)
    PROVE  /\ arts' \in [Ids -> SUBSET Kinds] /\ meddled' \subseteq Ids
           /\ faults' \in Nat /\ (faults' = 0 => faults = 0 /\ o = "ok")
           /\ \A s \in Ids : s # id => arts'[s] = arts[s]
           /\ arts'[id] = arts[id] \/ arts'[id] = arts[id] \cup {st.kind}
           /\ o = "ok" /\ accepted(st) => arts'[id] = arts[id] \cup {st.kind}
           /\ meddled \subseteq meddled'
           /\ \A s \in Ids : s # id => (s \in meddled' <=> s \in meddled)
           /\ id \in live \/ id \in meddled'
  <1>1. faults' \in Nat /\ (faults' = 0 => faults = 0 /\ o = "ok")
    BY FaultFacts DEF Make
  <1>2. arts \in [Ids -> SUBSET Kinds] /\ meddled \subseteq Ids
    BY DEF Typed
  <1>3. /\ meddled' \subseteq Ids /\ meddled \subseteq meddled'
        /\ \A s \in Ids : s # id => (s \in meddled' <=> s \in meddled)
        /\ id \in live \/ id \in meddled'
    BY <1>2 DEF Make
  <1>4. /\ arts' \in [Ids -> SUBSET Kinds]
        /\ \A s \in Ids : s # id => arts'[s] = arts[s]
        /\ arts'[id] = arts[id] \/ arts'[id] = arts[id] \cup {st.kind}
        /\ o = "ok" /\ accepted(st) => arts'[id] = arts[id] \cup {st.kind}
    BY <1>2 DEF Make
  <1>. QED  BY <1>1, <1>3, <1>4

LEMMA SetRunningEffect ==
    ASSUME Typed, NEW id \in Ids, NEW st, st.kind \in {"shuttle", "second"},
           NEW o \in Outcomes, SetRunning(id, st, o)
    PROVE  /\ arts' \in [Ids -> SUBSET Kinds]
           /\ faults' \in Nat /\ (faults' = 0 => faults = 0 /\ o = "ok")
           /\ \A s \in Ids : s # id => arts'[s] = arts[s]
           /\ \/ arts'[id] = arts[id]
              \/ arts'[id] = arts[id] \ {running(st.kind)}
              \/ st.kind \in arts[id] /\ arts'[id] = arts[id] \cup {running(st.kind)}
  <1>1. faults' \in Nat /\ (faults' = 0 => faults = 0 /\ o = "ok")
    BY FaultFacts DEF SetRunning
  <1>2. arts \in [Ids -> SUBSET Kinds] /\ running(st.kind) \in Kinds
    BY DEF Typed, running, Kinds
  <1>. QED  BY <1>1, <1>2 DEF SetRunning

-----------------------------------------------------------------------------
(* Types and shapes                                                         *)

ReqOps == {"create", "reset", "end", "action"}

\* What is known of the job of a request.
LEMMA ReqJob ==
    ASSUME Typed, Shapes, NEW r \in Requests, req[r] # NoJob
    PROVE  /\ req[r] \in Jobs /\ WellFormed(req[r], ReqOps)
           /\ req[r].id \in Ids /\ req[r].op \in ReqOps
           /\ req[r].todo \in Seq(Steps) /\ req[r].todo # << >>
           /\ Head(req[r].todo) = req[r].todo[1] /\ req[r].todo[1] \in Steps
           /\ scenario[req[r].id] \in AllScenarios
           /\ JobShape(req[r], scenario[req[r].id], api)
  <1>1. req[r] \in Jobs /\ WellFormed(req[r], ReqOps) /\ req[r].todo \in Seq(Steps)
    BY DEF Typed, Shapes, ReqOps, Jobs
  <1>2. /\ req[r].id \in Ids /\ req[r].op \in ReqOps /\ req[r].todo # << >>
        /\ JobShape(req[r], scenario[req[r].id], api)
    BY <1>1 DEF WellFormed, JobShape
  <1>3. scenario[req[r].id] \in AllScenarios
    BY <1>2 DEF Typed
  <1>. QED  BY <1>1, <1>2, <1>3, TailFacts

\* A step that does nothing to the reaper and the sweep but gives request r a job.
LEMMA ReqShapes ==
    ASSUME Typed, Shapes, NEW r \in Requests, NEW c \in Jobs, WellFormed(c, ReqOps),
           req' = [req EXCEPT ![r] = c], UNCHANGED <<api, scenario, reaper, sweep>>
    PROVE  req' \in [Requests -> Jobs] /\ Shapes'
  <1>1. /\ req' \in [Requests -> Jobs]
        /\ \A q \in Requests : req'[q] = IF q = r THEN c ELSE req[q]
    BY DEF Typed
  <1>2. \A q \in Requests : WellFormed(req[q], ReqOps)'
    BY <1>1 DEF Shapes, WellFormed, ReqOps
  <1>. QED  BY <1>1, <1>2 DEF Shapes, SweepShape, WellFormed, ReqOps

LEMMA SameShapes ==
    ASSUME Shapes, UNCHANGED <<api, scenario, req, reaper, sweep>>
    PROVE  Shapes'
  BY DEF Shapes, SweepShape, WellFormed

LEMMA TeardownJob ==
    ASSUME Typed, NEW op \in {"end", "reap", "sweep"}, NEW id \in Ids,
           NEW k \in {"shuttle", "second"}, k \in kinds_of(scenario[id]),
           k = "second" => op = "sweep"
    PROVE  LET c == Start(op, id, teardown_calls(k))
           IN  /\ c \in Jobs /\ \A ops : op \in ops => WellFormed(c, ops)
               /\ ~api => c = NoJob
               /\ api => /\ c # NoJob /\ c.op = op /\ c.id = id /\ c.todo[1].kind = k
                         /\ dropped_of(scenario[id]) \cup {k} \subseteq kinds_in(c.todo)
  <1>. DEFINE c == Start(op, id, teardown_calls(k))  t == teardown_session(k)  sc == scenario[id]
  <1>1. sc \in AllScenarios /\ api \in BOOLEAN /\ op \in Ops
    BY DEF Typed, Ops
  <1>2. CASE api
    <2>1. /\ t \in Seq(Steps) /\ t # << >> /\ t[1].kind = k /\ TeardownShape(t, sc)
          /\ dropped_of(sc) \cup {k} \subseteq kinds_in(t)
      <3>. HIDE DEF t
      <3>1. PICK x \in AllScenarios : x = sc
        BY <1>1
      <3>. QED  BY <3>1, TeardownList DEF t
    <2>2. c = Start(op, id, t)
      BY <1>2 DEF teardown_calls
    <2>. HIDE DEF t, c
    <2>3. c \in Jobs /\ c # NoJob /\ c.op = op /\ c.id = id /\ c.todo = t
      BY <1>1, <2>1, <2>2, StartTyped
    <2>4. JobShape(c, sc, api)
      BY <1>2, <2>1, <2>3 DEF JobShape
    <2>. QED  BY <1>2, <2>1, <2>3, <2>4 DEF WellFormed, c
  <1>3. CASE ~api
    <2>1. c = NoJob
      BY <1>3 DEF teardown_calls, Start
    <2>. QED  BY <1>3, <2>1, NoJobTyped DEF WellFormed
  <1>. QED  BY <1>1, <1>2, <1>3

LEMMA CreateJob ==
    ASSUME Typed, NEW id \in Ids
    PROVE  LET c == Start("create", id, create_calls(scenario[id]))
           IN  /\ c \in Jobs /\ WellFormed(c, ReqOps) /\ c # NoJob
               /\ c.op = "create" /\ c.id = id
  <1>. DEFINE c == Start("create", id, create_calls(scenario[id]))
  <1>1. PICK sc \in AllScenarios : sc = scenario[id]
    BY DEF Typed
  <1>2. PICK t \in Seq(Steps) : t = create_calls(sc)
    BY <1>1, CreateList DEF Typed
  <1>3. t # << >> /\ BuildShape(t, sc, api)
    BY <1>1, <1>2, CreateList DEF Typed
  <1>4. c = Start("create", id, t)
    BY <1>1, <1>2
  <1>. HIDE DEF c
  <1>5. c \in Jobs /\ c # NoJob /\ c.op = "create" /\ c.id = id /\ c.todo = t
    BY <1>3, <1>4, StartTyped DEF Ops
  <1>. QED  BY <1>1, <1>3, <1>5 DEF WellFormed, JobShape, ReqOps, c

LEMMA ResetJob ==
    ASSUME Typed, NEW id \in Ids, api
    PROVE  LET c == Start("reset", id, reset_calls(scenario[id]))
           IN  /\ c \in Jobs /\ WellFormed(c, ReqOps) /\ c # NoJob
               /\ c.op = "reset" /\ c.id = id
  <1>. DEFINE c == Start("reset", id, reset_calls(scenario[id]))
  <1>1. PICK sc \in AllScenarios : sc = scenario[id]
    BY DEF Typed
  <1>2. PICK t \in Seq(Steps) : t = reset_calls(sc)
    BY <1>1, ResetList
  <1>3. t # << >> /\ BuildShape(t, sc, TRUE) /\ api = TRUE
    BY <1>1, <1>2, ResetList DEF Typed
  <1>4. c = Start("reset", id, t)
    BY <1>1, <1>2
  <1>. HIDE DEF c
  <1>5. c \in Jobs /\ c # NoJob /\ c.op = "reset" /\ c.id = id /\ c.todo = t
    BY <1>3, <1>4, StartTyped DEF Ops
  <1>. QED  BY <1>1, <1>3, <1>5 DEF WellFormed, JobShape, ReqOps, c

LEMMA ActionJob ==
    ASSUME Typed, NEW id \in Ids, NEW calls \in action_calls(scenario[id])
    PROVE  LET c == Start("action", id, calls)
           IN  /\ c \in Jobs /\ WellFormed(c, ReqOps) /\ c # NoJob
               /\ c.op = "action" /\ c.id = id
  <1>. DEFINE c == Start("action", id, calls)
  <1>1. PICK sc \in AllScenarios : sc = scenario[id]
    BY DEF Typed
  <1>2. PICK st \in Steps : /\ calls = << st >>
                            /\ \/ st \in {produce_kafka, upload_file} /\ st.kind \in kinds_of(sc)
                               \/ api /\ st.verb \in {"pause", "resume"} /\ st.kind = "shuttle"
    <2>1. CASE sc = "kafka" /\ calls = << produce_kafka >>
      <3>1. produce_kafka.kind = "topic"
        BY DEF produce_kafka, Step
      <3>. QED  BY <2>1, <3>1, CallsAreSteps, KindsFacts
    <2>2. CASE sc = "upload" /\ calls = << upload_file >>
      <3>1. upload_file.kind = "files"
        BY DEF upload_file, Step
      <3>. QED  BY <2>2, <3>1, CallsAreSteps, KindsFacts
    <2>3. CASE api /\ calls = << Step("pause", "shuttle", "sql") >>
      BY <2>3, CallsAreSteps DEF Step
    <2>4. CASE api /\ calls = << Step("resume", "shuttle", "sql") >>
      BY <2>4, CallsAreSteps DEF Step
    <2>. QED  BY <1>1, <2>1, <2>2, <2>3, <2>4 DEF action_calls
  <1>3. calls \in Seq(Steps) /\ calls # << >> /\ Len(calls) = 1 /\ calls[1] = st
    BY <1>2
  <1>4. ActionShape(calls, sc, api)
    BY <1>2, <1>3 DEF ActionShape
  <1>5. c \in Jobs /\ c # NoJob /\ c.op = "action" /\ c.id = id /\ c.todo = calls
    <2>1. "action" \in Ops
      BY DEF Ops
    <2>. QED  BY <1>3, <2>1, StartTyped
  <1>. HIDE DEF c
  <1>. QED  BY <1>1, <1>3, <1>4, <1>5 DEF WellFormed, JobShape, ReqOps, c

\* The next call of request r and what it leaves to do.
next_job(r) == Continue(req[r], Tail(req[r].todo))

LEMMA NextJob ==
    ASSUME Typed, Shapes, NEW r \in Requests, req[r] # NoJob, Head(req[r].todo).verb # "finish"
    PROVE  /\ next_job(r) \in Jobs /\ WellFormed(next_job(r), ReqOps)
           /\ \/ next_job(r) = NoJob /\ req[r].op \notin {"create", "reset"} /\ Tail(req[r].todo) = << >>
              \/ /\ next_job(r) # NoJob /\ next_job(r).op = req[r].op /\ next_job(r).id = req[r].id
                 /\ next_job(r).todo = Tail(req[r].todo) /\ Tail(req[r].todo) # << >>
  <1>1. /\ req[r] \in Jobs /\ WellFormed(req[r], ReqOps)
        /\ Head(req[r].todo) = req[r].todo[1]
    BY ReqJob
  <1>2. PICK j \in Jobs : j = req[r]
    BY <1>1
  <1>3. j # NoJob /\ WellFormed(j, ReqOps) /\ j.todo[1].verb # "finish"
    BY <1>1, <1>2
  <1>4. next_job(r) = Continue(j, Tail(j.todo))
    BY <1>2 DEF next_job
  <1>. QED  BY <1>2, <1>3, <1>4, ContinueTail

LEMMA ReqCreateStep ==
    ASSUME Typed, Shapes, NEW r \in Requests, ReqCreate(r)
    PROVE  /\ \E c \in Jobs, o \in Outcomes :
                /\ WellFormed(c, ReqOps) /\ req' = [req EXCEPT ![r] = c]
                /\ Make(req[r].id, req[r].todo[1], o)
                /\ c = NoJob \/ (c.op = req[r].op /\ c.id = req[r].id)
                /\ o = "ok" => c = next_job(r)
           /\ req[r].todo[1].kind \in kinds_of(scenario[req[r].id])
           /\ accepted(req[r].todo[1]) /\ req[r].todo[1].verb = "create"
           /\ req[r].op \in {"create", "reset", "action"}
           /\ (req[r].op = "action") <=> req[r].todo[1].kind \in {"topic", "files"}
           /\ ~api => req[r].todo[1].kind \in {"schema", "topic", "files"}
  <1>1. /\ req[r] \in Jobs /\ WellFormed(req[r], ReqOps) /\ req[r] # NoJob
        /\ req[r].id \in Ids /\ req[r].op \in ReqOps
        /\ req[r].todo \in Seq(Steps) /\ req[r].todo # << >>
        /\ Head(req[r].todo) = req[r].todo[1] /\ req[r].todo[1].verb = "create"
        /\ JobShape(req[r], scenario[req[r].id], api)
    BY ReqJob DEF ReqCreate
  <1>2. PICK j \in Jobs : j = req[r]
    BY <1>1
  <1>3. PICK sc : sc = scenario[j.id]
    OBVIOUS
  <1>4. PICK st \in Steps : st = j.todo[1]
    BY <1>1, <1>2, ReqJob
  <1>5. 1 \in 1..Len(j.todo)
    BY <1>1, <1>2
  <1>6. CASE j.op \in {"create", "reset"}
    <2>1. BuildShape(j.todo, sc, api)
      BY <1>1, <1>2, <1>3, <1>6 DEF JobShape
    <2>2. /\ st.kind \in kinds_of(sc) \ {"topic", "files"} /\ accepted(st)
          /\ ~api => st.kind = "schema"
      BY <2>1, <1>1, <1>2, <1>4, <1>5 DEF BuildShape
    <2>3. /\ next_job(r) \in Jobs /\ WellFormed(next_job(r), ReqOps)
          /\ next_job(r).op = j.op /\ next_job(r).id = j.id
      BY <1>1, <1>2, <1>6, NextJob
    <2>4. PICK o \in Outcomes :
            /\ Make(j.id, st, o)
            /\ req' = [req EXCEPT ![r] = Continue(j, IF o = "ok" THEN Tail(j.todo)
                                                     ELSE skip_after_failure(st, Tail(j.todo)))]
      BY <1>1, <1>2, <1>4 DEF ReqCreate
    <2>5. CASE o = "ok"
      <3>1. req' = [req EXCEPT ![r] = next_job(r)]
        BY <2>4, <2>5, <1>2 DEF next_job
      <3>. QED  BY <3>1, <2>2, <2>3, <2>4, <1>1, <1>2, <1>3, <1>4, <1>6
    <2>6. CASE o # "ok" /\ st.kind # "schema"
      <3>1. skip_after_failure(st, Tail(j.todo)) = finish
        BY <2>2, <2>6 DEF skip_after_failure
      <3>2. req' = [req EXCEPT ![r] = Continue(j, finish)]
        BY <2>4, <2>6, <3>1
      <3>3. /\ Continue(j, finish) \in Jobs /\ WellFormed(Continue(j, finish), ReqOps)
            /\ Continue(j, finish).op = j.op /\ Continue(j, finish).id = j.id
        BY <1>1, <1>2, <1>6, ContinueFinish
      <3>. QED  BY <2>6, <3>2, <3>3, <2>2, <2>4, <1>1, <1>2, <1>3, <1>4, <1>6
    <2>7. CASE o # "ok" /\ st.kind = "schema"
      <3>1. PICK u \in Seq(Steps) : u = Tail(j.todo)
        BY <1>1, <1>2, TailFacts
      <3>2. u # << >> /\ BuildShape(u, sc, api)
        BY <3>1, <2>1, <1>1, <1>2, BuildTail
      <3>3. PICK c : c = Continue(j, Tail(u))
        OBVIOUS
      <3>4. req' = [req EXCEPT ![r] = c]
        BY <2>4, <2>7, <3>1, <3>3 DEF skip_after_failure
      <3>5. Tail(u) \in Seq(Steps) /\ Len(Tail(u)) = Len(u) - 1 /\ Len(u) \in Nat \ {0}
        BY <3>2, TailFacts
      <3>6. /\ c \in Jobs
            /\ Tail(u) = << >> => c = NoJob
            /\ Tail(u) # << >> => c # NoJob /\ c.op = j.op /\ c.id = j.id /\ c.todo = Tail(u)
        <4>1. PICK op \in Ops, id \in Ids, t \in Seq(Steps) : op = j.op /\ id = j.id /\ t = Tail(u)
          BY <3>5, <1>1, <1>2 DEF Jobs
        <4>2. c = Start(op, id, t)
          BY <4>1, <3>3 DEF Continue
        <4>3. /\ c \in Jobs
              /\ t = << >> => c = NoJob
              /\ t # << >> => c # NoJob /\ c.op = op /\ c.id = id /\ c.todo = t
          BY <4>2, StartTyped
        <4>. QED  BY <4>1, <4>3
      <3>7. Tail(u) # << >> => BuildShape(Tail(u), sc, api)
        <4>. SUFFICES ASSUME Tail(u) # << >> PROVE BuildShape(Tail(u), sc, api)
          OBVIOUS
        <4>1. Len(u) # 1
          <5>. SUFFICES ASSUME Len(u) = 1 PROVE FALSE
            OBVIOUS
          <5>1. PICK w \in Seq(Steps) : w = Tail(u)
            BY <3>5
          <5>2. Len(w) = 0
            BY <5>1, <3>5
          <5>3. w = << >>
            BY <5>2
          <5>. QED  BY <5>1, <5>3
        <4>2. u[1].verb # "finish"
          <5>1. \A i \in 1..Len(u) : (u[i].verb = "finish") <=> (i = Len(u))
            BY <3>2 DEF BuildShape
          <5>2. 1 \in 1..Len(u)
            BY <3>5
          <5>. QED  BY <5>1, <5>2, <4>1
        <4>. QED  BY <3>2, <4>2, BuildTail
      <3>8. WellFormed(c, ReqOps)
        BY <3>6, <3>7, <1>1, <1>2, <1>3, <1>6 DEF WellFormed, JobShape
      <3>9. c = NoJob \/ (c.op = req[r].op /\ c.id = req[r].id)
        BY <3>6, <1>2
      <3>. QED  BY <2>7, <3>4, <3>6, <3>8, <3>9, <2>2, <2>4, <1>1, <1>2, <1>3, <1>4, <1>6
    <2>. QED  BY <2>5, <2>6, <2>7
  <1>7. CASE j.op = "action"
    <2>1. /\ st \in {produce_kafka, upload_file} /\ st.kind \in kinds_of(sc) /\ Len(j.todo) = 1
      BY <1>1, <1>2, <1>3, <1>4, <1>7 DEF JobShape, ActionShape
    <2>2. st.kind \in {"topic", "files"} /\ accepted(st)
      BY <2>1 DEF produce_kafka, upload_file, Step, accepted
    <2>3. PICK o \in Outcomes :
            /\ Make(j.id, st, o)
            /\ req' = [req EXCEPT ![r] = Continue(j, IF o = "ok" THEN Tail(j.todo)
                                                     ELSE skip_after_failure(st, Tail(j.todo)))]
      BY <1>1, <1>2, <1>4 DEF ReqCreate
    <2>4. next_job(r) = NoJob
      <3>1. PICK u \in Seq(Steps) : u = Tail(j.todo) /\ Len(u) = Len(j.todo) - 1
        BY <1>1, <1>2, TailFacts
      <3>2. u = << >>
        <4>1. Len(u) = 0
          BY <3>1, <2>1
        <4>. QED  BY <4>1
      <3>. QED  BY <3>1, <3>2, <1>2 DEF next_job, Continue, Start
    <2>5. req' = [req EXCEPT ![r] = NoJob]
      <3>1. CASE o = "ok"
        BY <3>1, <2>3, <2>4, <1>2 DEF next_job
      <3>2. CASE o # "ok"
        <4>1. skip_after_failure(st, Tail(j.todo)) = << >>
          BY <2>2 DEF skip_after_failure
        <4>. QED  BY <3>2, <4>1, <2>3 DEF Continue, Start
      <3>. QED  BY <3>1, <3>2
    <2>6. NoJob \in Jobs /\ WellFormed(NoJob, ReqOps)
      BY NoJobTyped DEF WellFormed
    <2>. QED  BY <2>1, <2>2, <2>3, <2>4, <2>5, <2>6, <1>1, <1>2, <1>3, <1>4, <1>7
  <1>8. CASE j.op = "end"
    <2>1. st.verb = "drop"
      BY <1>1, <1>2, <1>4, <1>5, <1>8 DEF JobShape, TeardownShape
    <2>. QED  BY <2>1, <1>1, <1>2, <1>4
  <1>. QED  BY <1>1, <1>2, <1>6, <1>7, <1>8 DEF ReqOps

LEMMA ReqRunningStep ==
    ASSUME Typed, Shapes, NEW r \in Requests, ReqSetRunning(r)
    PROVE  /\ \E c \in Jobs, o \in Outcomes :
                /\ WellFormed(c, ReqOps) /\ req' = [req EXCEPT ![r] = c]
                /\ SetRunning(req[r].id, req[r].todo[1], o)
                /\ \/ c = NoJob /\ req[r].op = "action"
                   \/ c # NoJob /\ c.op = req[r].op /\ c.id = req[r].id
           /\ req[r].todo[1].kind \in {"shuttle", "second"} /\ api
           /\ req[r].op \in {"create", "reset", "action"}
           /\ \A i \in 1..Len(req[r].todo) : req[r].todo[i].verb # "create"
  <1>1. /\ req[r] \in Jobs /\ WellFormed(req[r], ReqOps) /\ req[r] # NoJob
        /\ req[r].id \in Ids /\ req[r].op \in ReqOps
        /\ req[r].todo \in Seq(Steps) /\ req[r].todo # << >>
        /\ Head(req[r].todo) = req[r].todo[1] /\ req[r].todo[1].verb \in {"resume", "pause"}
        /\ JobShape(req[r], scenario[req[r].id], api)
    BY ReqJob DEF ReqSetRunning
  <1>2. PICK j \in Jobs : j = req[r]
    BY <1>1
  <1>3. PICK sc : sc = scenario[j.id]
    OBVIOUS
  <1>4. PICK st \in Steps : st = j.todo[1]
    BY <1>1, <1>2, ReqJob
  <1>5. 1 \in 1..Len(j.todo)
    BY <1>1, <1>2
  <1>9. PICK o \in Outcomes :
            /\ SetRunning(j.id, st, o)
            /\ req' = [req EXCEPT ![r] = Continue(j, IF (o = "ok" /\ st.kind \in arts[j.id])
                                                        \/ Tail(j.todo) = << >>
                                                     THEN Tail(j.todo) ELSE finish)]
    BY <1>1, <1>2, <1>4 DEF ReqSetRunning
  <1>6. CASE j.op \in {"create", "reset"}
    <2>1. BuildShape(j.todo, sc, api)
      BY <1>1, <1>2, <1>3, <1>6 DEF JobShape
    <2>2. st.verb = "resume" /\ api
      BY <2>1, <1>1, <1>2, <1>4, <1>5 DEF BuildShape
    <2>3. st.kind \in {"shuttle", "second"} /\ \A i \in 1..Len(j.todo) : j.todo[i].verb # "create"
      BY <2>1, <2>2, <1>4, <1>5 DEF BuildShape
    <2>4. PICK c : req' = [req EXCEPT ![r] = c] /\ c \in {Continue(j, Tail(j.todo)), Continue(j, finish)}
      BY <1>9
    <2>5. /\ c \in Jobs /\ WellFormed(c, ReqOps) /\ c # NoJob
          /\ c.op = j.op /\ c.id = j.id
      <3>1. j.todo[1].verb # "finish"
        BY <1>4, <2>2
      <3>2. CASE c = Continue(j, Tail(j.todo))
        BY <3>1, <3>2, <1>1, <1>2, <1>6, ContinueTail
      <3>3. CASE c = Continue(j, finish)
        BY <3>3, <1>1, <1>2, <1>6, ContinueFinish
      <3>. QED  BY <2>4, <3>2, <3>3
    <2>. QED  BY <2>2, <2>3, <2>4, <2>5, <1>2, <1>4, <1>6, <1>9
  <1>7. CASE j.op = "action"
    <2>1. Len(j.todo) = 1 /\ st.verb \in {"resume", "pause"}
      BY <1>1, <1>2, <1>4, <1>7 DEF JobShape, ActionShape
    <2>2. api /\ st.kind = "shuttle"
      <3>1. produce_kafka.verb = "create" /\ upload_file.verb = "create"
        BY DEF produce_kafka, upload_file, Step
      <3>. QED  BY <3>1, <2>1, <1>1, <1>2, <1>4, <1>7 DEF JobShape, ActionShape
    <2>3. Tail(j.todo) = << >>
      <3>1. PICK u \in Seq(Steps) : u = Tail(j.todo) /\ Len(u) = Len(j.todo) - 1
        BY <1>1, <1>2, TailFacts
      <3>2. Len(u) = 0
        BY <3>1, <2>1
      <3>3. u = << >>
        BY <3>2
      <3>. QED  BY <3>1, <3>3
    <2>4. req' = [req EXCEPT ![r] = NoJob]
      BY <2>3, <1>9 DEF Continue, Start
    <2>5. NoJob \in Jobs /\ WellFormed(NoJob, ReqOps)
      BY NoJobTyped DEF WellFormed
    <2>6. \A i \in 1..Len(j.todo) : j.todo[i].verb # "create"
      <3>1. \A i \in 1..Len(j.todo) : i = 1
        BY <2>1
      <3>. QED  BY <3>1, <2>1, <1>4
    <2>. QED  BY <2>2, <2>4, <2>5, <2>6, <1>2, <1>4, <1>7, <1>9
  <1>8. CASE j.op = "end"
    <2>1. st.verb = "drop"
      BY <1>1, <1>2, <1>4, <1>5, <1>8 DEF JobShape, TeardownShape
    <2>. QED  BY <2>1, <1>1, <1>2, <1>4
  <1>. QED  BY <1>1, <1>2, <1>6, <1>7, <1>8 DEF ReqOps

\* One call of a teardown: a drop, after which what else it covers is to come.
LEMMA TeardownStep ==
    ASSUME Typed, NEW ops, NEW j \in Jobs, j # NoJob, WellFormed(j, ops),
           j.op \in {"end", "reap", "sweep"}
    PROVE  LET d == Continue(j, Tail(j.todo))  k == j.todo[1].kind
           IN  /\ j.id \in Ids /\ Head(j.todo) = j.todo[1] /\ j.todo[1] \in Steps
               /\ j.todo[1].verb = "drop" /\ accepted(j.todo[1]) /\ api
               /\ k = "second" => j.op = "sweep"
               /\ d \in Jobs /\ WellFormed(d, ops)
               /\ \/ d = NoJob /\ kinds_in(j.todo) = {k}
                  \/ /\ d # NoJob /\ d.op = j.op /\ d.id = j.id
                     /\ kinds_in(j.todo) = {k} \cup kinds_in(d.todo)
                     /\ kinds_in(d.todo) \cap {"shuttle", "second"} = {}
               /\ k \in {"shuttle", "second"} =>
                    d # NoJob /\ dropped_of(scenario[j.id]) \subseteq kinds_in(d.todo)
  <1>. DEFINE d == Continue(j, Tail(j.todo))  t == j.todo  sc == scenario[j.id]
  <1>1. /\ t \in Seq(Steps) /\ t # << >> /\ j.id \in Ids /\ api
        /\ TeardownShape(t, sc) /\ (t[1].kind = "second" => j.op = "sweep")
    BY DEF WellFormed, JobShape, Jobs
  <1>2. /\ Head(t) = t[1] /\ t[1] \in Steps /\ Tail(t) \in Seq(Steps)
        /\ Len(Tail(t)) = Len(t) - 1 /\ Len(t) \in Nat \ {0}
        /\ \A i \in 1..(Len(t) - 1) : Tail(t)[i] = t[i + 1]
    BY <1>1, TailFacts
  <1>3. 1 \in 1..Len(t)
    BY <1>2
  <1>4. t[1].verb = "drop" /\ accepted(t[1])
    BY <1>1, <1>3 DEF TeardownShape
  <1>5. /\ d \in Jobs /\ WellFormed(d, ops)
        /\ Tail(t) = << >> => d = NoJob
        /\ Tail(t) # << >> => d # NoJob /\ d.op = j.op /\ d.id = j.id /\ d.todo = Tail(t)
    BY <1>4, ContinueTail
  <1>6. kinds_in(t) = {t[1].kind} \cup kinds_in(Tail(t))
    BY <1>1, KindsTail
  <1>7. kinds_in(Tail(t)) \cap {"shuttle", "second"} = {}
    <2>. SUFFICES ASSUME NEW i \in 1..Len(Tail(t))
                  PROVE  Tail(t)[i].kind \notin {"shuttle", "second"}
      BY DEF kinds_in
    <2>1. i + 1 \in 2..Len(t) /\ Tail(t)[i] = t[i + 1]
      BY <1>2
    <2>. QED  BY <2>1, <1>1 DEF TeardownShape
  <1>8. Tail(t) = << >> => kinds_in(Tail(t)) = {}
    <2>1. kinds_in(<< >>) = {}
      <3>1. Len(<< >>) = 0 /\ 1..0 = {}
        OBVIOUS
      <3>. QED  BY <3>1 DEF kinds_in
    <2>. QED  BY <2>1
  <1>9. t[1].kind \in {"shuttle", "second"} =>
          Tail(t) # << >> /\ dropped_of(sc) \subseteq kinds_in(Tail(t))
    <2>1. "namespace" \in dropped_of(sc)
      <3>1. sc \in AllScenarios
        BY <1>1 DEF Typed
      <3>2. "namespace" \in kinds_of(sc)
        BY <3>1, KindsFacts
      <3>. QED  BY <3>2 DEF dropped_of
    <2>. QED  BY <1>1, <1>8, <2>1 DEF TeardownShape
  <1>. HIDE DEF d, t, sc
  <1>. QED  BY <1>1, <1>2, <1>4, <1>5, <1>6, <1>7, <1>8, <1>9 DEF d, t, sc

LEMMA Fixed == ASSUME Next PROVE UNCHANGED <<load, api, scenario>>
  BY DEF Next, CreateSession, ResetSession, ExtendSession, EndSession, ExecuteAction,
         RequestStep, ReqDrop, ReqCreate, ReqSetRunning, ReqInitSql, ReqFinish, ClientGone, Expire,
         ShuttleRuns, ReaperStep, ReaperTick, ReaperPick, ReaperDrop, SweepStep, SweepSnapshot,
         SweepListShuttles, SweepPick, SweepDrop, SweepListConnections, SweepDropConnection,
         Restart, session_vars

LEMMA TypeShapeReq ==
    ASSUME Typed, Shapes, NEW r \in Requests, NEW s \in Ids,
           \/ CreateSession(r, s) \/ ResetSession(r, s) \/ EndSession(r, s)
           \/ ExecuteAction(r, s) \/ RequestStep(r) \/ ClientGone(r)
    PROVE  Typed' /\ Shapes'
  <1>. DEFINE Frame(c) == /\ c \in Jobs /\ WellFormed(c, ReqOps)
                          /\ req' = [req EXCEPT ![r] = c]
                          /\ UNCHANGED <<api, scenario, reaper, sweep>>
  <1>a. ASSUME NEW c, Frame(c) PROVE req' \in [Requests -> Jobs] /\ Shapes'
    BY <1>a, ReqShapes
  <1>b. Frame(NoJob) <=> req' = [req EXCEPT ![r] = NoJob] /\ UNCHANGED <<api, scenario, reaper, sweep>>
    BY NoJobTyped DEF WellFormed
  <1>k. "shuttle" \in kinds_of(scenario[s])
    BY KindsFacts DEF Typed
  <1>1. CASE CreateSession(r, s)
    <2>1. PICK c : c = Start("create", s, create_calls(scenario[s]))
      OBVIOUS
    <2>2. Frame(c)
      BY <1>1, <2>1, CreateJob DEF CreateSession
    <2>. HIDE DEF Frame
    <2>3. req' \in [Requests -> Jobs] /\ Shapes'
      BY <2>2, <1>a
    <2>. QED  BY <1>1, <2>3 DEF CreateSession, Typed, Statuses
  <1>2. CASE ResetSession(r, s)
    <2>1. PICK c : c = IF api THEN Start("reset", s, reset_calls(scenario[s])) ELSE NoJob
      OBVIOUS
    <2>2. Frame(c)
      <3>1. CASE api
        BY <1>2, <2>1, <3>1, ResetJob DEF ResetSession
      <3>2. CASE ~api
        BY <1>2, <1>b, <2>1, <3>2 DEF ResetSession
      <3>. QED  BY <3>1, <3>2
    <2>. HIDE DEF Frame
    <2>3. req' \in [Requests -> Jobs] /\ Shapes'
      BY <2>2, <1>a
    <2>. QED  BY <1>2, <2>3 DEF ResetSession, Typed, Statuses
  <1>3. CASE EndSession(r, s)
    <2>1. PICK c : c = Start("end", s, teardown_calls("shuttle"))
      OBVIOUS
    <2>2. c \in Jobs /\ \A ops : "end" \in ops => WellFormed(c, ops)
      BY <2>1, <1>k, TeardownJob
    <2>3. Frame(c)
      BY <1>3, <2>1, <2>2 DEF EndSession, ReqOps
    <2>. HIDE DEF Frame
    <2>4. req' \in [Requests -> Jobs] /\ Shapes'
      BY <2>3, <1>a
    <2>. QED  BY <1>3, <2>4 DEF EndSession, Typed
  <1>4. CASE ExecuteAction(r, s)
    <2>1. PICK calls \in action_calls(scenario[s]) : req' = [req EXCEPT ![r] = Start("action", s, calls)]
      BY <1>4 DEF ExecuteAction
    <2>2. PICK c : c = Start("action", s, calls)
      OBVIOUS
    <2>3. Frame(c)
      BY <1>4, <2>1, <2>2, ActionJob DEF ExecuteAction, session_vars
    <2>. HIDE DEF Frame
    <2>4. req' \in [Requests -> Jobs] /\ Shapes'
      BY <2>3, <1>a
    <2>. QED  BY <1>4, <2>4 DEF ExecuteAction, Typed, session_vars
  <1>5. CASE ReqDrop(r)
    <2>1. /\ req[r] # NoJob /\ Head(req[r].todo).verb = "drop"
          /\ req[r].id \in Ids
      BY <1>5, ReqJob DEF ReqDrop
    <2>2. PICK o \in Outcomes : Drop(req[r].id, Head(req[r].todo), o)
      BY <1>5 DEF ReqDrop
    <2>3. arts' \in [Ids -> SUBSET Kinds] /\ faults' \in Nat
      BY <2>1, <2>2, DropEffect
    <2>4. PICK c : c = next_job(r)
      OBVIOUS
    <2>5. Frame(c)
      BY <1>5, <2>1, <2>4, NextJob DEF ReqDrop, session_vars, next_job
    <2>. HIDE DEF Frame
    <2>6. req' \in [Requests -> Jobs] /\ Shapes'
      BY <2>5, <1>a
    <2>. QED  BY <1>5, <2>3, <2>6 DEF ReqDrop, Typed, session_vars
  <1>6. CASE ReqCreate(r)
    <2>1. PICK c \in Jobs, o \in Outcomes :
            /\ WellFormed(c, ReqOps) /\ req' = [req EXCEPT ![r] = c]
            /\ Make(req[r].id, req[r].todo[1], o)
      BY <1>6, ReqCreateStep
    <2>2. req[r].id \in Ids /\ req[r].todo[1].kind \in Kinds
      <3>1. req[r].id \in Ids /\ scenario[req[r].id] \in AllScenarios
        BY <1>6, ReqJob DEF ReqCreate
      <3>2. req[r].todo[1].kind \in kinds_of(scenario[req[r].id])
        BY <1>6, ReqCreateStep
      <3>. QED  BY <3>1, <3>2, KindsFacts
    <2>3. arts' \in [Ids -> SUBSET Kinds] /\ faults' \in Nat /\ meddled' \subseteq Ids
      BY <2>1, <2>2, MakeEffect
    <2>4. Frame(c)
      BY <1>6, <2>1 DEF ReqCreate, session_vars
    <2>. HIDE DEF Frame
    <2>5. req' \in [Requests -> Jobs] /\ Shapes'
      BY <2>4, <1>a
    <2>. QED  BY <1>6, <2>3, <2>5 DEF ReqCreate, Typed, session_vars
  <1>7. CASE ReqSetRunning(r)
    <2>1. PICK c \in Jobs, o \in Outcomes :
            /\ WellFormed(c, ReqOps) /\ req' = [req EXCEPT ![r] = c]
            /\ SetRunning(req[r].id, req[r].todo[1], o)
      BY <1>7, ReqRunningStep
    <2>2. req[r].id \in Ids /\ req[r].todo[1].kind \in {"shuttle", "second"}
      BY <1>7, ReqJob, ReqRunningStep DEF ReqSetRunning
    <2>3. arts' \in [Ids -> SUBSET Kinds] /\ faults' \in Nat
      BY <2>1, <2>2, SetRunningEffect
    <2>4. Frame(c)
      BY <1>7, <2>1 DEF ReqSetRunning, session_vars
    <2>. HIDE DEF Frame
    <2>5. req' \in [Requests -> Jobs] /\ Shapes'
      BY <2>4, <1>a
    <2>. QED  BY <1>7, <2>3, <2>5 DEF ReqSetRunning, Typed, session_vars
  <1>8. CASE ReqInitSql(r)
    <2>1. /\ req[r] # NoJob /\ Head(req[r].todo).verb = "init"
          /\ req[r].id \in Ids
      BY <1>8, ReqJob DEF ReqInitSql
    <2>2. arts' \in [Ids -> SUBSET Kinds] /\ faults' \in Nat /\ meddled' \subseteq Ids
      <3>1. CASE scenario[req[r].id] = "cdc" /\ "schema" \in arts[req[r].id]
        <4>1. PICK o \in Outcomes : Make(req[r].id, Step("create", "publication", "source"), o)
          BY <1>8, <3>1 DEF ReqInitSql
        <4>2. Step("create", "publication", "source").kind \in Kinds
          BY DEF Step, Kinds
        <4>. QED  BY <2>1, <4>1, <4>2, MakeEffect
      <3>2. CASE ~(scenario[req[r].id] = "cdc" /\ "schema" \in arts[req[r].id])
        BY <1>8, <3>2 DEF ReqInitSql, Typed
      <3>. QED  BY <3>1, <3>2
    <2>3. PICK c : c = next_job(r)
      OBVIOUS
    <2>4. Frame(c)
      BY <1>8, <2>1, <2>3, NextJob DEF ReqInitSql, session_vars, next_job
    <2>. HIDE DEF Frame
    <2>5. req' \in [Requests -> Jobs] /\ Shapes'
      BY <2>4, <1>a
    <2>. QED  BY <1>8, <2>2, <2>5 DEF ReqInitSql, Typed, session_vars
  <1>9. CASE ReqFinish(r)
    <2>1. Frame(NoJob)
      BY <1>9, <1>b DEF ReqFinish
    <2>. HIDE DEF Frame
    <2>2. req' \in [Requests -> Jobs] /\ Shapes'
      BY <2>1, <1>a
    <2>3. status' \in [Ids -> Statuses]
      BY <1>9 DEF ReqFinish, Typed, Statuses
    <2>. QED  BY <1>9, <2>2, <2>3 DEF ReqFinish, Typed
  <1>10. CASE ClientGone(r)
    <2>1. Frame(NoJob)
      BY <1>10, <1>b DEF ClientGone, session_vars
    <2>. HIDE DEF Frame
    <2>2. req' \in [Requests -> Jobs] /\ Shapes'
      BY <2>1, <1>a
    <2>. QED  BY <1>10, <2>2 DEF ClientGone, Typed, session_vars
  <1>. QED
    BY <1>1, <1>2, <1>3, <1>4, <1>5, <1>6, <1>7, <1>8, <1>9, <1>10 DEF RequestStep

\* What is known of the jobs of the reaper and of the sweep.
LEMMA BackgroundJobs ==
    ASSUME Typed, Shapes
    PROVE  /\ reaper.job \in Jobs /\ WellFormed(reaper.job, {"reap"}) /\ reaper.todo \subseteq Ids
           /\ reaper.job # NoJob => reaper.job.op = "reap" /\ reaper.job.id \in Ids
           /\ sweep.job \in Jobs /\ WellFormed(sweep.job, {"sweep"})
           /\ sweep.todo \subseteq Ids \X Registered
           /\ sweep.job # NoJob => sweep.job.op = "sweep" /\ sweep.job.id \in Ids
  BY DEF Typed, Shapes, SweepShape, SweepStates, WellFormed, JobShape

LEMMA OwnedRegistered ==
    ASSUME Typed, Owned, NEW t \in Ids \X Registered, t[2] \in arts[t[1]]
    PROVE  t[2] \in kinds_of(scenario[t[1]])
  <1>1. t[1] \in Ids /\ t[2] \in Registered
    OBVIOUS
  <1>2. arts[t[1]] \subseteq kinds_of(scenario[t[1]]) \cup {"running", "second_running"}
    BY <1>1 DEF Owned, OwnsRight
  <1>3. t[2] \notin {"running", "second_running"}
    BY <1>1 DEF Registered
  <1>. QED  BY <1>2, <1>3

LEMMA TypeShapeReaper ==
    ASSUME Typed, Shapes, ReaperStep
    PROVE  Typed' /\ Shapes'
  <1>0. /\ reaper.job \in Jobs /\ WellFormed(reaper.job, {"reap"}) /\ reaper.todo \subseteq Ids
        /\ reaper.job # NoJob => reaper.job.op = "reap" /\ reaper.job.id \in Ids
    BY BackgroundJobs
  <1>1. CASE ReaperTick
    <2>1. reaper' = [todo |-> live \cap lapsed, job |-> NoJob]
      BY <1>1 DEF ReaperTick, IdleReaper
    <2>2. live \cap lapsed \subseteq Ids
      BY DEF Typed
    <2>3. reaper' \in [todo : SUBSET Ids, job : Jobs]
      BY <2>1, <2>2, NoJobTyped
    <2>4. reaper'.job = NoJob
      BY <2>1
    <2>5. Shapes'
      BY <1>1, <2>4 DEF Shapes, SweepShape, WellFormed, ReaperTick
    <2>. QED  BY <1>1, <2>3, <2>5 DEF ReaperTick, Typed
  <1>2. CASE ReaperPick
    <2>1. PICK s \in reaper.todo :
            reaper' = [todo |-> reaper.todo \ {s},
                       job |-> Start("reap", s, teardown_calls("shuttle"))]
      BY <1>2 DEF ReaperPick
    <2>2. s \in Ids
      BY <1>0
    <2>3. "shuttle" \in kinds_of(scenario[s])
      BY <2>2, KindsFacts DEF Typed
    <2>4. PICK c : c = Start("reap", s, teardown_calls("shuttle"))
      OBVIOUS
    <2>5. c \in Jobs /\ \A ops : "reap" \in ops => WellFormed(c, ops)
      BY <2>2, <2>3, <2>4, TeardownJob
    <2>6. reaper' = [todo |-> reaper.todo \ {s}, job |-> c]
      BY <2>1, <2>4
    <2>7. reaper' \in [todo : SUBSET Ids, job : Jobs] /\ reaper'.job = c
      BY <1>0, <2>5, <2>6
    <2>8. Shapes'
      BY <1>2, <2>5, <2>7 DEF Shapes, SweepShape, WellFormed, ReaperPick, session_vars
    <2>. QED  BY <1>2, <2>7, <2>8 DEF ReaperPick, Typed, session_vars
  <1>3. CASE ReaperDrop
    <2>1. PICK j \in Jobs : j = reaper.job
      BY <1>0
    <2>2. j # NoJob /\ WellFormed(j, {"reap"}) /\ j.op = "reap" /\ j.id \in Ids
      BY <1>0, <1>3, <2>1 DEF ReaperDrop
    <2>3. PICK o \in Outcomes : Drop(j.id, Head(j.todo), o)
      BY <1>3, <2>1 DEF ReaperDrop
    <2>4. arts' \in [Ids -> SUBSET Kinds] /\ faults' \in Nat
      BY <2>2, <2>3, DropEffect
    <2>5. PICK d : d = Continue(j, Tail(j.todo))
      OBVIOUS
    <2>6. d \in Jobs /\ WellFormed(d, {"reap"})
      BY <2>2, <2>5, TeardownStep
    <2>7. reaper' = [reaper EXCEPT !.job = d]
      BY <1>3, <2>1, <2>5 DEF ReaperDrop
    <2>8. reaper' \in [todo : SUBSET Ids, job : Jobs] /\ reaper'.job = d
      BY <2>6, <2>7 DEF Typed
    <2>9. Shapes'
      BY <1>3, <2>6, <2>8 DEF Shapes, SweepShape, WellFormed, ReaperDrop, session_vars
    <2>. QED  BY <1>3, <2>4, <2>8, <2>9 DEF ReaperDrop, Typed, session_vars
  <1>. QED  BY <1>1, <1>2, <1>3 DEF ReaperStep

\* A step that changes nothing but the sweep and the artifacts.
LEMMA SweepShapes ==
    ASSUME Typed, Shapes, UNCHANGED <<api, scenario, req, reaper>>,
           NEW n \in SweepStates, SweepShape(n), sweep' = n
    PROVE  sweep' \in SweepStates /\ Shapes'
  BY DEF Shapes, SweepShape, WellFormed

LEMMA SweepFields ==
    ASSUME Typed, Shapes
    PROVE  /\ sweep.pc \in {"boot", "listing", "shuttles", "connections", "over"}
           /\ sweep.live \subseteq Ids /\ sweep.found \subseteq Ids /\ sweep.orphans \subseteq Ids
           /\ sweep.todo \subseteq Ids \X Registered /\ sweep.job \in Jobs /\ sweep.ok \in BOOLEAN
           /\ sweep \in SweepStates /\ SweepShape(sweep)
  BY DEF Typed, Shapes, SweepStates

LEMMA OverFits == /\ SweepOver \in SweepStates /\ SweepShape(SweepOver)
                  /\ BootSweep \in SweepStates /\ SweepShape(BootSweep)
                  /\ SweepOver.orphans = {} /\ BootSweep.orphans = {}
                  /\ SweepOver.job = NoJob /\ BootSweep.job = NoJob
                  /\ SweepOver.todo = {} /\ BootSweep.todo = {}
                  /\ SweepOver.pc = "over" /\ BootSweep.pc = "boot"
  <1>1. /\ BootSweep \in SweepStates
        /\ BootSweep.job = NoJob /\ BootSweep.todo = {} /\ BootSweep.pc = "boot" /\ BootSweep.orphans = {}
    BY NoJobTyped DEF BootSweep, SweepStates
  <1>2. SweepOver \in SweepStates /\ SweepOver.pc = "over"
    BY <1>1 DEF SweepOver, SweepStates
  <1>3. SweepOver.job = NoJob /\ SweepOver.todo = {} /\ SweepOver.orphans = {}
    BY <1>1 DEF SweepOver, SweepStates
  <1>. QED  BY <1>1, <1>2, <1>3 DEF SweepShape, WellFormed

LEMMA TypeShapeSweep ==
    ASSUME Typed, Shapes, Owned, SweepStep
    PROVE  Typed' /\ Shapes'
  <1>0. /\ sweep \in SweepStates /\ SweepShape(sweep)
        /\ sweep.live \subseteq Ids /\ sweep.todo \subseteq Ids \X Registered /\ sweep.job \in Jobs
    BY SweepFields
  <1>1. CASE SweepSnapshot
    <2>1. PICK n : n = sweep'
      OBVIOUS
    <2>2. n \in SweepStates /\ SweepShape(n)
      <3>1. CASE ~api
        BY <1>1, <2>1, <3>1, OverFits DEF SweepSnapshot
      <3>2. CASE api
        <4>1. PICK u : u = {t[1] : t \in listed({"shuttle", "second", "connection"})}
                             \ (live \cup {req[r].id : r \in Requests})
          OBVIOUS
        <4>2. u \subseteq Ids
          BY <4>1 DEF listed
        <4>3. n = [sweep EXCEPT !.pc = "listing", !.live = live, !.orphans = u]
          BY <1>1, <2>1, <3>2, <4>1 DEF SweepSnapshot
        <4>4. /\ n \in SweepStates /\ n.pc = "listing" /\ n.todo = sweep.todo /\ n.job = sweep.job
          BY <1>0, <4>2, <4>3 DEF SweepStates, Typed
        <4>5. sweep.job = NoJob
          BY <1>0, <1>1 DEF SweepShape, SweepSnapshot
        <4>. QED  BY <1>0, <3>2, <4>4, <4>5 DEF SweepShape
      <3>. QED  BY <3>1, <3>2
    <2>3. sweep' \in SweepStates /\ Shapes'
      BY <1>1, <2>1, <2>2, SweepShapes DEF SweepSnapshot, session_vars
    <2>. QED  BY <1>1, <2>3 DEF SweepSnapshot, session_vars, Typed
  <1>2. CASE SweepListShuttles
    <2>1. PICK o \in Outcomes :
            /\ sweep' = IF o = "ok"
                        THEN [sweep EXCEPT !.pc = "shuttles", !.found = having("shuttle"),
                                           !.todo = orphan_shuttles]
                        ELSE SweepOver
            /\ Count(o)
      BY <1>2 DEF SweepListShuttles
    <2>2. PICK n : n = sweep'
      OBVIOUS
    <2>3. n \in SweepStates /\ SweepShape(n)
      <3>1. CASE o # "ok"
        BY <2>1, <2>2, <3>1, OverFits
      <3>2. CASE o = "ok"
        <4>1. PICK f, t : f = having("shuttle") /\ t = orphan_shuttles
          OBVIOUS
        <4>2. f \subseteq Ids /\ t \subseteq Ids \X {"shuttle", "second"}
          BY <4>1 DEF having, orphan_shuttles, listed
        <4>3. n = [sweep EXCEPT !.pc = "shuttles", !.found = f, !.todo = t]
          BY <2>1, <2>2, <3>2, <4>1
        <4>4. t \subseteq Ids \X Registered
          BY <4>2 DEF Registered
        <4>5. n \in SweepStates /\ n.pc = "shuttles" /\ n.todo = t /\ n.job = sweep.job
          BY <1>0, <4>2, <4>3, <4>4 DEF SweepStates
        <4>6. api
          BY <1>0, <1>2 DEF SweepShape, SweepListShuttles
        <4>7. \A x \in t : x[2] \in kinds_of(scenario[x[1]])
          <5>1. \A x \in t : x[2] \in arts[x[1]]
            BY <4>1 DEF orphan_shuttles, listed
          <5>. QED  BY <4>4, <5>1, OwnedRegistered
        <4>. QED  BY <1>0, <4>2, <4>5, <4>6, <4>7 DEF SweepShape
      <3>. QED  BY <3>1, <3>2
    <2>4. sweep' \in SweepStates /\ Shapes'
      BY <1>2, <2>2, <2>3, SweepShapes DEF SweepListShuttles, session_vars
    <2>5. faults' \in Nat
      BY <2>1, FaultFacts
    <2>. QED  BY <1>2, <2>4, <2>5 DEF SweepListShuttles, session_vars, Typed
  <1>3. CASE SweepPick
    <2>1. PICK t \in sweep.todo :
            sweep' = [sweep EXCEPT !.todo = @ \ {t},
                                   !.job = Start("sweep", t[1], teardown_calls(t[2]))]
      BY <1>3 DEF SweepPick
    <2>2. PICK id, k : id = t[1] /\ k = t[2]
      OBVIOUS
    <2>3. /\ id \in Ids /\ k \in {"shuttle", "second"} /\ k \in kinds_of(scenario[id]) /\ api
          /\ sweep.pc = "shuttles"
      BY <1>0, <1>3, <2>2 DEF SweepShape, SweepPick
    <2>4. PICK c : c = Start("sweep", id, teardown_calls(k))
      OBVIOUS
    <2>5. c \in Jobs /\ WellFormed(c, {"sweep"})
      BY <2>3, <2>4, TeardownJob
    <2>6. PICK n : n = sweep'
      OBVIOUS
    <2>7. n = [sweep EXCEPT !.todo = sweep.todo \ {t}, !.job = c]
      BY <2>1, <2>2, <2>4, <2>6
    <2>8. /\ n \in SweepStates /\ n.pc = sweep.pc /\ n.todo = sweep.todo \ {t} /\ n.job = c
      BY <1>0, <2>5, <2>7 DEF SweepStates
    <2>9. SweepShape(n)
      BY <1>0, <2>3, <2>5, <2>8 DEF SweepShape
    <2>10. sweep' \in SweepStates /\ Shapes'
      BY <1>3, <2>6, <2>8, <2>9, SweepShapes DEF SweepPick, session_vars
    <2>. QED  BY <1>3, <2>10 DEF SweepPick, session_vars, Typed
  <1>4. CASE SweepDrop
    <2>1. PICK j \in Jobs : j = sweep.job
      BY <1>0
    <2>2. j # NoJob /\ WellFormed(j, {"sweep"}) /\ j.op = "sweep" /\ j.id \in Ids
      BY <1>4, <2>1, BackgroundJobs DEF SweepDrop
    <2>3. PICK o \in Outcomes :
            /\ Drop(j.id, Head(j.todo), o)
            /\ sweep' = [sweep EXCEPT !.job = Continue(@, Tail(@.todo)), !.ok = @ /\ o = "ok"]
      BY <1>4, <2>1 DEF SweepDrop
    <2>4. arts' \in [Ids -> SUBSET Kinds] /\ faults' \in Nat
      BY <2>2, <2>3, DropEffect
    <2>5. PICK d : d = Continue(j, Tail(j.todo))
      OBVIOUS
    <2>6. d \in Jobs /\ WellFormed(d, {"sweep"})
      BY <2>2, <2>5, TeardownStep
    <2>7. PICK n : n = sweep'
      OBVIOUS
    <2>8. n = [sweep EXCEPT !.job = d, !.ok = sweep.ok /\ o = "ok"]
      BY <2>1, <2>3, <2>5, <2>7
    <2>9. n \in SweepStates /\ n.pc = sweep.pc /\ n.todo = sweep.todo /\ n.job = d
      BY <1>0, <2>6, <2>8 DEF SweepStates
    <2>10. SweepShape(n)
      BY <1>0, <2>1, <2>2, <2>6, <2>9 DEF SweepShape
    <2>11. sweep' \in SweepStates /\ Shapes'
      BY <1>4, <2>7, <2>9, <2>10, SweepShapes DEF SweepDrop, session_vars
    <2>. QED  BY <1>4, <2>4, <2>11 DEF SweepDrop, session_vars, Typed
  <1>5. CASE SweepListConnections
    <2>1. PICK o \in Outcomes :
            /\ sweep' = IF o = "ok"
                        THEN [sweep EXCEPT !.pc = "connections", !.todo = unused_connections,
                                           !.live = {}, !.found = {}]
                        ELSE SweepOver
            /\ Count(o)
      BY <1>5 DEF SweepListConnections
    <2>2. PICK n : n = sweep'
      OBVIOUS
    <2>3. n \in SweepStates /\ SweepShape(n)
      <3>1. CASE o # "ok"
        BY <2>1, <2>2, <3>1, OverFits
      <3>2. CASE o = "ok"
        <4>1. PICK t : t = unused_connections
          OBVIOUS
        <4>2. t \subseteq Ids \X {"connection"}
          BY <4>1 DEF unused_connections, listed
        <4>3. n = [sweep EXCEPT !.pc = "connections", !.todo = t, !.live = {}, !.found = {}]
          BY <2>1, <2>2, <3>2, <4>1
        <4>4. t \subseteq Ids \X Registered
          BY <4>2 DEF Registered
        <4>5. n \in SweepStates /\ n.pc = "connections" /\ n.todo = t /\ n.job = sweep.job
          BY <1>0, <4>2, <4>3, <4>4 DEF SweepStates
        <4>6. api /\ sweep.job = NoJob
          BY <1>0, <1>5 DEF SweepShape, SweepListConnections
        <4>7. \A x \in t : x[2] \in kinds_of(scenario[x[1]])
          <5>1. \A x \in t : x[2] \in arts[x[1]]
            BY <4>1 DEF unused_connections, listed
          <5>. QED  BY <4>4, <5>1, OwnedRegistered
        <4>. QED  BY <1>0, <4>2, <4>5, <4>6, <4>7 DEF SweepShape
      <3>. QED  BY <3>1, <3>2
    <2>4. sweep' \in SweepStates /\ Shapes'
      BY <1>5, <2>2, <2>3, SweepShapes DEF SweepListConnections, session_vars
    <2>5. faults' \in Nat
      BY <2>1, FaultFacts
    <2>. QED  BY <1>5, <2>4, <2>5 DEF SweepListConnections, session_vars, Typed
  <1>6. CASE SweepDropConnection
    <2>1. PICK t \in sweep.todo, o \in Outcomes :
            /\ Drop(t[1], Step("drop", "connection", "sql"), o)
            /\ sweep' = [sweep EXCEPT !.todo = @ \ {t}, !.ok = @ /\ o = "ok"]
      BY <1>6 DEF SweepDropConnection
    <2>2. t[1] \in Ids
      BY <1>0
    <2>3. arts' \in [Ids -> SUBSET Kinds] /\ faults' \in Nat
      BY <2>1, <2>2, DropEffect
    <2>4. PICK n : n = sweep'
      OBVIOUS
    <2>5. n = [sweep EXCEPT !.todo = sweep.todo \ {t}, !.ok = sweep.ok /\ o = "ok"]
      BY <2>1, <2>4
    <2>6. n \in SweepStates /\ n.pc = sweep.pc /\ n.todo = sweep.todo \ {t} /\ n.job = sweep.job
      BY <1>0, <2>5 DEF SweepStates
    <2>7. SweepShape(n)
      BY <1>0, <2>6 DEF SweepShape
    <2>8. sweep' \in SweepStates /\ Shapes'
      BY <1>6, <2>4, <2>6, <2>7, SweepShapes DEF SweepDropConnection, session_vars
    <2>. QED  BY <1>6, <2>3, <2>8 DEF SweepDropConnection, session_vars, Typed
  <1>. QED  BY <1>1, <1>2, <1>3, <1>4, <1>5, <1>6 DEF SweepStep

LEMMA TypeShapeStep ==
    ASSUME Typed, Shapes, Owned, [Next]_vars
    PROVE  Typed' /\ Shapes'
  <1>1. ASSUME NEW s \in Ids, ExtendSession(s) \/ Expire(s) PROVE Typed' /\ Shapes'
    <2>1. UNCHANGED <<load, api, live, scenario, status, arts, req, reaper, sweep, meddled, faults>>
      BY <1>1 DEF ExtendSession, Expire
    <2>2. lapsed' \subseteq Ids
      BY <1>1 DEF ExtendSession, Expire, Typed
    <2>. QED  BY <2>1, <2>2, SameShapes DEF Typed
  <1>2. ASSUME NEW s \in Ids, ShuttleRuns(s) PROVE Typed' /\ Shapes'
    <2>1. arts' \in [Ids -> SUBSET Kinds]
      <3>1. {"namespace", "files", "slot"} \subseteq Kinds
        BY DEF Kinds
      <3>. QED  BY <1>2, <3>1 DEF ShuttleRuns, Typed
    <2>. QED  BY <1>2, <2>1, SameShapes DEF ShuttleRuns, session_vars, Typed
  <1>3. CASE Restart
    <2>1. /\ req' = [r \in Requests |-> NoJob] /\ reaper' = IdleReaper /\ sweep' = BootSweep
          /\ live' \subseteq Ids /\ faults' \in Nat
          /\ UNCHANGED <<load, api, lapsed, scenario, status, arts, meddled>>
      BY <1>3 DEF Restart, Typed
    <2>2. /\ req' \in [Requests -> Jobs] /\ reaper' \in [todo : SUBSET Ids, job : Jobs]
          /\ reaper'.job = NoJob
      BY <2>1, NoJobTyped DEF IdleReaper
    <2>3. sweep' \in SweepStates
      BY <2>1, OverFits
    <2>4. Shapes'
      <3>1. \A r \in Requests : req'[r] = NoJob
        BY <2>1
      <3>2. SweepShape(sweep)'
        <4>1. sweep'.job = NoJob /\ sweep'.todo = {} /\ sweep'.pc = "boot"
          BY <2>1, OverFits
        <4>. QED  BY <4>1 DEF SweepShape, WellFormed
      <3>. QED  BY <2>2, <3>1, <3>2 DEF Shapes, WellFormed
    <2>. QED  BY <2>1, <2>2, <2>3, <2>4 DEF Typed
  <1>4. CASE UNCHANGED vars
    BY <1>4, SameShapes DEF vars, Typed
  <1>5. ASSUME NEW r \in Requests, RequestStep(r) \/ ClientGone(r) PROVE Typed' /\ Shapes'
    <2>1. req[r] # NoJob
      BY <1>5 DEF RequestStep, ReqDrop, ReqCreate, ReqSetRunning, ReqInitSql, ReqFinish, ClientGone
    <2>2. req[r].id \in Ids
      BY <2>1, ReqJob
    <2>. QED  BY <1>5, <2>2, TypeShapeReq
  <1>. QED
    BY <1>1, <1>2, <1>3, <1>4, <1>5, TypeShapeReq, TypeShapeReaper, TypeShapeSweep DEF Next

-----------------------------------------------------------------------------
(* What a session owns                                                      *)

\* What a step can do to the artifacts of a session.
Loses(s) == \E k : arts'[s] = arts[s] \ with_dependents(k)
Runs(s) ==
    \E k \in {"shuttle", "second"} :
        /\ api
        /\ \/ arts'[s] = arts[s] \ {running(k)}
           \/ k \in arts[s] /\ arts'[s] = arts[s] \cup {running(k)}
Gains(s) ==
    /\ \E k \in kinds_of(scenario[s]) : /\ arts'[s] = arts[s] \cup {k}
                                        /\ ~api => k \in {"schema", "publication", "topic", "files"}
    /\ \E r \in Requests : req[r] # NoJob /\ req[r].id = s
Fills(s) ==
    /\ arts[s] \cap {"running", "second_running"} # {}
    /\ arts'[s] = arts[s] \cup ({"namespace", "files", "slot"} \cap kinds_of(scenario[s]))

\* The job of request r makes a publication or finds nothing to make it for.
LEMMA ReqInitStep ==
    ASSUME Typed, Shapes, NEW r \in Requests, ReqInitSql(r)
    PROVE  /\ req[r] # NoJob /\ req[r].id \in Ids /\ req[r].op \in {"create", "reset"}
           /\ req' = [req EXCEPT ![r] = next_job(r)] /\ next_job(r) # NoJob
           /\ arts' \in [Ids -> SUBSET Kinds] /\ meddled \subseteq meddled'
           /\ faults' = 0 => faults = 0
           /\ \A s \in Ids : s # req[r].id => arts'[s] = arts[s] /\ (s \in meddled' <=> s \in meddled)
           /\ \/ arts' = arts /\ meddled' = meddled
              \/ /\ scenario[req[r].id] = "cdc"
                 /\ \/ arts'[req[r].id] = arts[req[r].id]
                    \/ arts'[req[r].id] = arts[req[r].id] \cup {"publication"}
                 /\ req[r].id \in live \/ req[r].id \in meddled'
  <1>1. /\ req[r] # NoJob /\ Head(req[r].todo).verb = "init" /\ req[r].id \in Ids
        /\ Head(req[r].todo) = req[r].todo[1] /\ req[r].op \in ReqOps /\ req[r].todo # << >>
        /\ req[r].todo \in Seq(Steps)
        /\ JobShape(req[r], scenario[req[r].id], api)
    BY ReqJob DEF ReqInitSql
  <1>2. req[r].op \in {"create", "reset"}
    <2>1. CASE req[r].op = "end"
      <3>1. 1 \in 1..Len(req[r].todo)
        BY <1>1
      <3>. QED  BY <1>1, <2>1, <3>1 DEF JobShape, TeardownShape
    <2>2. CASE req[r].op = "action"
      <3>1. produce_kafka.verb = "create" /\ upload_file.verb = "create"
        BY DEF produce_kafka, upload_file, Step
      <3>. QED  BY <1>1, <2>2, <3>1 DEF JobShape, ActionShape
    <2>. QED  BY <1>1, <2>1, <2>2 DEF ReqOps
  <1>3. next_job(r) # NoJob
    BY <1>1, <1>2, NextJob
  <1>4. req' = [req EXCEPT ![r] = next_job(r)]
    BY DEF ReqInitSql, next_job
  <1>5. CASE scenario[req[r].id] = "cdc" /\ "schema" \in arts[req[r].id]
    <2>1. PICK o \in Outcomes : Make(req[r].id, Step("create", "publication", "source"), o)
      BY <1>5 DEF ReqInitSql
    <2>2. Step("create", "publication", "source").kind = "publication"
      BY DEF Step
    <2>3. "publication" \in Kinds
      BY DEF Kinds
    <2>4. PICK st : st = Step("create", "publication", "source")
      OBVIOUS
    <2>5. st.kind = "publication" /\ Make(req[r].id, st, o)
      BY <2>1, <2>2, <2>4
    <2>6. /\ arts' \in [Ids -> SUBSET Kinds] /\ meddled \subseteq meddled'
          /\ faults' = 0 => faults = 0
          /\ \A s \in Ids : s # req[r].id => arts'[s] = arts[s]
          /\ \A s \in Ids : s # req[r].id => (s \in meddled' <=> s \in meddled)
          /\ arts'[req[r].id] = arts[req[r].id] \/ arts'[req[r].id] = arts[req[r].id] \cup {st.kind}
          /\ req[r].id \in live \/ req[r].id \in meddled'
      BY <1>1, <2>3, <2>5, MakeEffect
    <2>. QED  BY <1>1, <1>2, <1>3, <1>4, <1>5, <2>5, <2>6
  <1>6. CASE ~(scenario[req[r].id] = "cdc" /\ "schema" \in arts[req[r].id])
    <2>1. UNCHANGED <<arts, meddled, faults>>
      BY <1>6 DEF ReqInitSql
    <2>. QED  BY <1>1, <1>2, <1>3, <1>4, <2>1 DEF Typed
  <1>. QED  BY <1>5, <1>6

LEMMA ArtsStep ==
    ASSUME Typed, Shapes, [Next]_vars, NEW s \in Ids
    PROVE  arts'[s] = arts[s] \/ Loses(s) \/ Runs(s) \/ Gains(s) \/ Fills(s)
  <1>1. CASE arts' = arts
    BY <1>1
  <1>2. ASSUME NEW id \in Ids, NEW st, NEW o \in Outcomes, Drop(id, st, o)
        PROVE  arts'[s] = arts[s] \/ Loses(s)
    <2>1. /\ s # id => arts'[s] = arts[s]
          /\ arts'[id] = arts[id] \/ arts'[id] = arts[id] \ with_dependents(st.kind)
      BY <1>2, DropEffect
    <2>. QED  BY <2>1 DEF Loses
  <1>3. ASSUME NEW r \in Requests, ReqDrop(r) PROVE arts'[s] = arts[s] \/ Loses(s)
    <2>1. req[r].id \in Ids
      BY <1>3, ReqJob DEF ReqDrop
    <2>2. \E o \in Outcomes : Drop(req[r].id, Head(req[r].todo), o)
      BY <1>3 DEF ReqDrop
    <2>. QED  BY <1>2, <2>1, <2>2
  <1>4. CASE ReaperDrop
    <2>1. reaper.job.id \in Ids
      BY <1>4, BackgroundJobs DEF ReaperDrop
    <2>2. \E o \in Outcomes : Drop(reaper.job.id, Head(reaper.job.todo), o)
      BY <1>4 DEF ReaperDrop
    <2>. QED  BY <1>2, <2>1, <2>2
  <1>5. CASE SweepDrop
    <2>1. sweep.job.id \in Ids
      BY <1>5, BackgroundJobs DEF SweepDrop
    <2>2. \E o \in Outcomes : Drop(sweep.job.id, Head(sweep.job.todo), o)
      BY <1>5 DEF SweepDrop
    <2>. QED  BY <1>2, <2>1, <2>2
  <1>6. CASE SweepDropConnection
    <2>1. PICK t \in sweep.todo, o \in Outcomes : Drop(t[1], Step("drop", "connection", "sql"), o)
      BY <1>6 DEF SweepDropConnection
    <2>2. t[1] \in Ids
      BY BackgroundJobs
    <2>. QED  BY <1>2, <2>1, <2>2
  <1>7. ASSUME NEW r \in Requests, ReqCreate(r) PROVE arts'[s] = arts[s] \/ Gains(s)
    <2>1. req[r] # NoJob /\ req[r].id \in Ids /\ scenario[req[r].id] \in AllScenarios
      BY <1>7, ReqJob DEF ReqCreate
    <2>2. /\ req[r].todo[1].kind \in kinds_of(scenario[req[r].id])
          /\ ~api => req[r].todo[1].kind \in {"schema", "topic", "files"}
      BY <1>7, ReqCreateStep
    <2>3. PICK o \in Outcomes : Make(req[r].id, req[r].todo[1], o)
      BY <1>7, ReqCreateStep
    <2>4. req[r].todo[1].kind \in Kinds
      BY <2>1, <2>2, KindsFacts
    <2>5. /\ s # req[r].id => arts'[s] = arts[s]
          /\ \/ arts'[req[r].id] = arts[req[r].id]
             \/ arts'[req[r].id] = arts[req[r].id] \cup {req[r].todo[1].kind}
      BY <2>1, <2>3, <2>4, MakeEffect
    <2>. QED  BY <2>1, <2>2, <2>5 DEF Gains
  <1>8. ASSUME NEW r \in Requests, ReqInitSql(r) PROVE arts'[s] = arts[s] \/ Gains(s)
    <2>1. /\ req[r] # NoJob /\ req[r].id \in Ids
          /\ s # req[r].id => arts'[s] = arts[s]
          /\ \/ arts' = arts
             \/ /\ scenario[req[r].id] = "cdc"
                /\ \/ arts'[req[r].id] = arts[req[r].id]
                   \/ arts'[req[r].id] = arts[req[r].id] \cup {"publication"}
      BY <1>8, ReqInitStep
    <2>2. scenario[req[r].id] = "cdc" => "publication" \in kinds_of(scenario[req[r].id])
      BY <2>1, KindsFacts DEF Typed
    <2>. QED  BY <2>1, <2>2 DEF Gains
  <1>9. ASSUME NEW r \in Requests, ReqSetRunning(r) PROVE arts'[s] = arts[s] \/ Runs(s)
    <2>1. req[r].id \in Ids
      BY <1>9, ReqJob DEF ReqSetRunning
    <2>2. PICK o \in Outcomes : SetRunning(req[r].id, req[r].todo[1], o)
      BY <1>9, ReqRunningStep
    <2>3. PICK k \in {"shuttle", "second"} : k = req[r].todo[1].kind /\ api
      BY <1>9, ReqRunningStep
    <2>4. /\ s # req[r].id => arts'[s] = arts[s]
          /\ \/ arts'[req[r].id] = arts[req[r].id]
             \/ arts'[req[r].id] = arts[req[r].id] \ {running(k)}
             \/ k \in arts[req[r].id] /\ arts'[req[r].id] = arts[req[r].id] \cup {running(k)}
      BY <2>1, <2>2, <2>3, SetRunningEffect
    <2>. QED  BY <2>3, <2>4 DEF Runs
  <1>10. ASSUME NEW u \in Ids, ShuttleRuns(u) PROVE arts'[s] = arts[s] \/ Fills(s)
    BY <1>10 DEF ShuttleRuns, Fills, Typed
  <1>. QED
    BY <1>1, <1>3, <1>4, <1>5, <1>6, <1>7, <1>8, <1>9, <1>10
    DEF Next, vars, CreateSession, ResetSession, ExtendSession, EndSession, ExecuteAction,
        RequestStep, ReqFinish, ClientGone, Expire, ReaperStep, ReaperTick, ReaperPick, SweepStep,
        SweepSnapshot, SweepListShuttles, SweepPick, SweepListConnections, Restart

\* An id that was drawn stays drawn.
LEMMA StatusStep ==
    ASSUME Typed, [Next]_vars, NEW s \in Ids, status[s] # "none"
    PROVE  status'[s] # "none"
  <1>1. ASSUME NEW r \in Requests, NEW u \in Ids, CreateSession(r, u) PROVE status'[s] # "none"
    BY <1>1 DEF CreateSession, Typed
  <1>2. ASSUME NEW r \in Requests, NEW u \in Ids, ResetSession(r, u) PROVE status'[s] # "none"
    BY <1>2 DEF ResetSession, Typed
  <1>3. ASSUME NEW r \in Requests, ReqFinish(r) PROVE status'[s] # "none"
    BY <1>3 DEF ReqFinish, Typed
  <1>. QED
    BY <1>1, <1>2, <1>3
    DEF Next, vars, session_vars, ExtendSession, EndSession, ExecuteAction,
        RequestStep, ReqDrop, ReqCreate, ReqSetRunning, ReqInitSql, ClientGone, Expire, ShuttleRuns,
        ReaperStep, ReaperTick, ReaperPick, ReaperDrop, SweepStep, SweepSnapshot, SweepListShuttles,
        SweepPick, SweepDrop, SweepListConnections, SweepDropConnection, Restart

LEMMA OwnedStep ==
    ASSUME Typed, Shapes, Owned, Ended, [Next]_vars
    PROVE  Owned'
  <1>. SUFFICES ASSUME NEW s \in Ids
                PROVE  OwnsRight(arts'[s], scenario[s], api) /\ (status'[s] = "none" => arts'[s] = {})
    BY Fixed DEF Owned, vars
  <1>1. /\ OwnsRight(arts[s], scenario[s], api) /\ (status[s] = "none" => arts[s] = {})
        /\ (status'[s] = "none" => status[s] = "none")
        /\ scenario[s] \in AllScenarios
    BY StatusStep DEF Owned, Typed
  <1>. DEFINE a == arts[s]  sc == scenario[s]
  <1>2. CASE arts'[s] = arts[s]
    BY <1>1, <1>2
  <1>3. CASE Loses(s)
    <2>1. PICK k : arts'[s] = a \ with_dependents(k)
      BY <1>3 DEF Loses
    <2>2. OwnsRight(a \ with_dependents(k), sc, api)
      BY <1>1 DEF OwnsRight, with_dependents, running
    <2>. QED  BY <1>1, <2>1, <2>2
  <1>4. CASE Runs(s)
    <2>1. PICK k \in {"shuttle", "second"} :
            /\ api
            /\ \/ arts'[s] = a \ {running(k)}
               \/ k \in a /\ arts'[s] = a \cup {running(k)}
      BY <1>4 DEF Runs
    <2>2. OwnsRight(arts'[s], sc, api)
      BY <1>1, <2>1 DEF OwnsRight, running
    <2>. QED  BY <1>1, <2>1, <2>2
  <1>5. CASE Gains(s)
    <2>1. PICK k \in kinds_of(sc) : /\ arts'[s] = a \cup {k}
                                    /\ ~api => k \in {"schema", "publication", "topic", "files"}
      BY <1>5 DEF Gains
    <2>2. k \notin {"running", "second_running"}
      BY <1>1, KindsFacts
    <2>3. OwnsRight(arts'[s], sc, api)
      BY <1>1, <2>1, <2>2 DEF OwnsRight
    <2>4. status[s] # "none"
      BY <1>5 DEF Gains, Ended
    <2>. QED  BY <1>1, <2>3, <2>4
  <1>6. CASE Fills(s)
    <2>1. /\ a \cap {"running", "second_running"} # {}
          /\ arts'[s] = a \cup ({"namespace", "files", "slot"} \cap kinds_of(sc))
      BY <1>6 DEF Fills
    <2>2. api
      BY <1>1, <2>1 DEF OwnsRight
    <2>3. OwnsRight(arts'[s], sc, api)
      BY <1>1, <2>1, <2>2 DEF OwnsRight
    <2>. QED  BY <1>1, <2>1, <2>3
  <1>. QED  BY <1>2, <1>3, <1>4, <1>5, <1>6, ArtsStep

-----------------------------------------------------------------------------
(* Who works for whom                                                       *)

\* How a request's job changes: it ends, goes on, or begins for an id that is
\* in the map or enters it.
Worked(r) ==
    \/ req'[r] = NoJob
    \/ /\ req[r] # NoJob /\ req'[r] # NoJob
       /\ req'[r].op = req[r].op /\ req'[r].id = req[r].id
    \/ /\ req'[r] # NoJob /\ status'[req'[r].id] # "none"
       /\ req'[r].op = "end" => req'[r].id \notin live'
       /\ req'[r].id \in Ids
       /\ req'[r].id \in live \/ status[req'[r].id] = "none"

LEMMA RequestsStep ==
    ASSUME Typed, Shapes, Ended, Next, ~Restart, NEW q \in Requests
    PROVE  Worked(q)
  <1>0. CASE req' = req
    BY <1>0 DEF Worked
  <1>1. ASSUME NEW r \in Requests, NEW s \in Ids, CreateSession(r, s) PROVE Worked(q)
    <2>1. PICK c : c = Start("create", s, create_calls(scenario[s]))
      OBVIOUS
    <2>2. c # NoJob /\ c.op = "create" /\ c.id = s
      BY <2>1, CreateJob
    <2>3. /\ req' = [req EXCEPT ![r] = c] /\ status'[s] # "none" /\ status[s] = "none"
      BY <1>1, <2>1 DEF CreateSession, Typed
    <2>4. \A x \in Requests : req'[x] = IF x = r THEN c ELSE req[x]
      BY <2>3 DEF Typed
    <2>. QED  BY <2>2, <2>3, <2>4 DEF Worked
  <1>2. ASSUME NEW r \in Requests, NEW s \in Ids, ResetSession(r, s) PROVE Worked(q)
    <2>1. PICK c : c = IF api THEN Start("reset", s, reset_calls(scenario[s])) ELSE NoJob
      OBVIOUS
    <2>2. c = NoJob \/ (c # NoJob /\ c.op = "reset" /\ c.id = s)
      BY <2>1, ResetJob
    <2>3. /\ req' = [req EXCEPT ![r] = c] /\ status'[s] # "none" /\ s \in live
      BY <1>2, <2>1 DEF ResetSession, Typed
    <2>4. \A x \in Requests : req'[x] = IF x = r THEN c ELSE req[x]
      BY <2>3 DEF Typed
    <2>. QED  BY <2>2, <2>3, <2>4 DEF Worked
  <1>3. ASSUME NEW r \in Requests, NEW s \in Ids, EndSession(r, s) PROVE Worked(q)
    <2>1. PICK c : c = Start("end", s, teardown_calls("shuttle"))
      OBVIOUS
    <2>2. "shuttle" \in kinds_of(scenario[s])
      BY KindsFacts DEF Typed
    <2>3. c = NoJob \/ (c # NoJob /\ c.op = "end" /\ c.id = s)
      BY <2>1, <2>2, TeardownJob
    <2>4. /\ req' = [req EXCEPT ![r] = c] /\ s \notin live' /\ status' = status /\ s \in live
      BY <1>3, <2>1 DEF EndSession
    <2>5. status[s] # "none"
      BY <2>4 DEF Ended
    <2>6. \A x \in Requests : req'[x] = IF x = r THEN c ELSE req[x]
      BY <2>4 DEF Typed
    <2>. QED  BY <2>3, <2>4, <2>5, <2>6 DEF Worked
  <1>4. ASSUME NEW r \in Requests, NEW s \in Ids, ExecuteAction(r, s) PROVE Worked(q)
    <2>1. PICK calls \in action_calls(scenario[s]) : req' = [req EXCEPT ![r] = Start("action", s, calls)]
      BY <1>4 DEF ExecuteAction
    <2>2. PICK c : c = Start("action", s, calls)
      OBVIOUS
    <2>3. c # NoJob /\ c.op = "action" /\ c.id = s
      BY <2>2, ActionJob
    <2>4. req' = [req EXCEPT ![r] = c] /\ status' = status /\ s \in live
      BY <1>4, <2>1, <2>2 DEF ExecuteAction, session_vars
    <2>5. status[s] # "none"
      BY <2>4 DEF Ended
    <2>6. \A x \in Requests : req'[x] = IF x = r THEN c ELSE req[x]
      BY <2>4 DEF Typed
    <2>. QED  BY <2>3, <2>4, <2>5, <2>6 DEF Worked
  <1>5. ASSUME NEW r \in Requests, NEW c, req[r] # NoJob, req' = [req EXCEPT ![r] = c],
               c = NoJob \/ (c # NoJob /\ c.op = req[r].op /\ c.id = req[r].id)
        PROVE  Worked(q)
    <2>1. \A x \in Requests : req'[x] = IF x = r THEN c ELSE req[x]
      BY <1>5 DEF Typed
    <2>. QED  BY <1>5, <2>1 DEF Worked
  <1>6. ASSUME NEW r \in Requests, ReqDrop(r) PROVE Worked(q)
    <2>1. req[r] # NoJob /\ Head(req[r].todo).verb # "finish" /\ req' = [req EXCEPT ![r] = next_job(r)]
      BY <1>6 DEF ReqDrop, next_job
    <2>2. PICK c : c = next_job(r)
      OBVIOUS
    <2>3. c = NoJob \/ (c # NoJob /\ c.op = req[r].op /\ c.id = req[r].id)
      BY <2>1, <2>2, NextJob
    <2>. QED  BY <2>1, <2>2, <2>3, <1>5
  <1>7. ASSUME NEW r \in Requests, ReqInitSql(r) PROVE Worked(q)
    <2>1. req[r] # NoJob /\ Head(req[r].todo).verb # "finish" /\ req' = [req EXCEPT ![r] = next_job(r)]
      BY <1>7 DEF ReqInitSql, next_job
    <2>2. PICK c : c = next_job(r)
      OBVIOUS
    <2>3. c = NoJob \/ (c # NoJob /\ c.op = req[r].op /\ c.id = req[r].id)
      BY <2>1, <2>2, NextJob
    <2>. QED  BY <2>1, <2>2, <2>3, <1>5
  <1>8. ASSUME NEW r \in Requests, ReqCreate(r) PROVE Worked(q)
    <2>1. req[r] # NoJob
      BY <1>8 DEF ReqCreate
    <2>2. PICK c \in Jobs : /\ req' = [req EXCEPT ![r] = c]
                            /\ c = NoJob \/ (c.op = req[r].op /\ c.id = req[r].id)
      BY <1>8, ReqCreateStep
    <2>. QED  BY <2>1, <2>2, <1>5
  <1>9. ASSUME NEW r \in Requests, ReqSetRunning(r) PROVE Worked(q)
    <2>1. req[r] # NoJob
      BY <1>9 DEF ReqSetRunning
    <2>2. PICK c \in Jobs : /\ req' = [req EXCEPT ![r] = c]
                            /\ c = NoJob \/ (c.op = req[r].op /\ c.id = req[r].id)
      BY <1>9, ReqRunningStep
    <2>. QED  BY <2>1, <2>2, <1>5
  <1>10. ASSUME NEW r \in Requests, ReqFinish(r) \/ ClientGone(r) PROVE Worked(q)
    <2>1. req[r] # NoJob /\ req' = [req EXCEPT ![r] = NoJob]
      BY <1>10 DEF ReqFinish, ClientGone
    <2>. QED  BY <2>1, <1>5
  <1>. QED
    BY <1>0, <1>1, <1>2, <1>3, <1>4, <1>6, <1>7, <1>8, <1>9, <1>10
    DEF Next, RequestStep, ExtendSession, Expire, ShuttleRuns, ReaperStep, ReaperTick, ReaperPick, ReaperDrop,
        SweepStep, SweepSnapshot, SweepListShuttles, SweepPick, SweepDrop, SweepListConnections,
        SweepDropConnection

\* An id enters the map when it is drawn; the reaper works for ids it took from the map.
LEMMA MapStep ==
    ASSUME Typed, Shapes, Ended, Next, ~Restart
    PROVE  /\ \A s \in live' : s \in live \/ (s \in Ids /\ status[s] = "none" /\ status'[s] # "none")
           /\ \A s \in reaper'.todo : s \in reaper.todo \/ (s \in live /\ s \notin live')
           /\ \/ reaper'.job = NoJob
              \/ reaper.job # NoJob /\ reaper'.job.id = reaper.job.id
              \/ reaper'.job.id \in reaper.todo
  <1>1. \A s \in live' : s \in live \/ (s \in Ids /\ status[s] = "none" /\ status'[s] # "none")
    <2>1. ASSUME NEW r \in Requests, NEW u \in Ids, CreateSession(r, u)
          PROVE  \A s \in live' : s \in live \/ (s \in Ids /\ status[s] = "none" /\ status'[s] # "none")
      <3>1. live' = live \cup {u} /\ status[u] = "none" /\ status'[u] = "provisioning"
        BY <2>1 DEF CreateSession, Typed
      <3>. QED  BY <3>1
    <2>2. CASE live' \subseteq live
      BY <2>2
    <2>. QED
      BY <2>1, <2>2
      DEF Next, RequestStep, ResetSession, EndSession, ExecuteAction, ReqFinish, ReqDrop,
          ReqInitSql, ReqSetRunning, ReqCreate, ClientGone, session_vars,
          ExtendSession, Expire, ShuttleRuns, ReaperStep, ReaperTick, ReaperPick, ReaperDrop,
          SweepStep, SweepSnapshot, SweepListShuttles, SweepPick, SweepDrop, SweepListConnections,
          SweepDropConnection
  <1>2. CASE UNCHANGED reaper
    BY <1>1, <1>2
  <1>3. CASE ReaperTick
    <2>1. reaper' = [todo |-> live \cap lapsed, job |-> NoJob] /\ live' = live \ lapsed
      BY <1>3 DEF ReaperTick, IdleReaper
    <2>2. reaper'.todo = live \cap lapsed /\ reaper'.job = NoJob
      BY <2>1
    <2>. QED  BY <1>1, <2>1, <2>2
  <1>4. CASE ReaperPick
    <2>1. PICK s \in reaper.todo :
            reaper' = [todo |-> reaper.todo \ {s}, job |-> Start("reap", s, teardown_calls("shuttle"))]
      BY <1>4 DEF ReaperPick
    <2>2. PICK c : c = Start("reap", s, teardown_calls("shuttle"))
      OBVIOUS
    <2>3. s \in Ids
      BY BackgroundJobs
    <2>4. "shuttle" \in kinds_of(scenario[s])
      BY <2>3, KindsFacts DEF Typed
    <2>5. c = NoJob \/ c.id = s
      BY <2>2, <2>3, <2>4, TeardownJob
    <2>6. reaper' = [todo |-> reaper.todo \ {s}, job |-> c]
      BY <2>1, <2>2
    <2>7. reaper'.todo = reaper.todo \ {s} /\ reaper'.job = c
      BY <2>6
    <2>. QED  BY <1>1, <2>5, <2>7
  <1>5. CASE ReaperDrop
    <2>1. PICK j \in Jobs : j = reaper.job
      BY BackgroundJobs
    <2>2. j # NoJob /\ WellFormed(j, {"reap"}) /\ j.op = "reap"
      BY <1>5, <2>1, BackgroundJobs DEF ReaperDrop
    <2>3. PICK d : d = Continue(j, Tail(j.todo))
      OBVIOUS
    <2>4. d = NoJob \/ d.id = j.id
      BY <2>2, <2>3, TeardownStep
    <2>5. reaper' = [reaper EXCEPT !.job = d]
      BY <1>5, <2>1, <2>3 DEF ReaperDrop
    <2>6. reaper'.job = d /\ reaper'.todo = reaper.todo
      BY <2>5 DEF Typed
    <2>. QED  BY <1>1, <2>1, <2>2, <2>4, <2>6
  <1>. QED
    BY <1>2, <1>3, <1>4, <1>5
    DEF Next, RequestStep, CreateSession, ResetSession, EndSession, ExecuteAction, ReqFinish, ReqDrop,
        ReqInitSql, ReqSetRunning, ReqCreate, ClientGone, ExtendSession, Expire, ShuttleRuns, ReaperStep,
        SweepStep, SweepSnapshot, SweepListShuttles, SweepPick, SweepDrop, SweepListConnections,
        SweepDropConnection

LEMMA EndedStep ==
    ASSUME Typed, Shapes, Ended, [Next]_vars, Typed', Shapes'
    PROVE  Ended'
  <1>0. NoJob.id \notin Ids /\ NoJob.op = "idle"
    BY NoJobTyped, LifecycleAssumption
  <1>1. CASE UNCHANGED vars
    BY <1>1 DEF vars, Ended, TeardownOnlyEnded
  <1>2. CASE Restart
    <2>1. /\ \A r \in Requests : req'[r] = NoJob
          /\ reaper'.job = NoJob /\ reaper'.todo = {}
      BY <1>2 DEF Restart, IdleReaper
    <2>2. \A s \in live' : status'[s] # "none"
      BY <1>2 DEF Restart
    <2>3. live' \subseteq Ids
      BY DEF Typed
    <2>. QED  BY <1>0, <2>1, <2>2, <2>3 DEF Ended, TeardownOnlyEnded
  <1>3. CASE Next /\ ~Restart
    <2>0. \A s \in Ids : status[s] # "none" => status'[s] # "none"
      BY StatusStep
    <2>1. /\ live \subseteq Ids /\ live' \subseteq Ids /\ reaper.todo \subseteq Ids
          /\ reaper.job # NoJob => reaper.job.id \in Ids
          /\ \A r \in Requests : req[r] # NoJob => req[r].id \in Ids
      BY BackgroundJobs, ReqJob DEF Typed
    <2>2. /\ \A s \in live' : s \in live \/ (s \in Ids /\ status[s] = "none" /\ status'[s] # "none")
          /\ \A s \in reaper'.todo : s \in reaper.todo \/ (s \in live /\ s \notin live')
          /\ \/ reaper'.job = NoJob
             \/ reaper.job # NoJob /\ reaper'.job.id = reaper.job.id
             \/ reaper'.job.id \in reaper.todo
      BY <1>3, MapStep
    <2>3. \A r \in Requests : Worked(r)
      BY <1>3, RequestsStep
    <2>4. \A s \in live' \cup reaper'.todo : status'[s] # "none"
      BY <2>0, <2>1, <2>2 DEF Ended
    <2>5. \A r \in Requests : req'[r] # NoJob => status'[req'[r].id] # "none"
      BY <2>0, <2>1, <2>3 DEF Ended, Worked
    <2>6. reaper'.job # NoJob => status'[reaper'.job.id] # "none"
      BY <2>0, <2>1, <2>2 DEF Ended
    <2>7. ASSUME NEW r \in Requests, req'[r].op = "end" PROVE req'[r].id \notin live'
      <3>1. req'[r] # NoJob
        BY <1>0, <2>7
      <3>2. CASE req[r] # NoJob /\ req'[r].op = req[r].op /\ req'[r].id = req[r].id
        BY <2>1, <2>2, <2>7, <3>2 DEF Ended, TeardownOnlyEnded
      <3>. QED  BY <2>3, <2>7, <3>1, <3>2 DEF Worked
    <2>8. reaper'.job.id \notin live' /\ reaper'.todo \cap live' = {}
      BY <1>0, <2>1, <2>2 DEF Ended, TeardownOnlyEnded
    <2>. QED  BY <2>4, <2>5, <2>6, <2>7, <2>8 DEF Ended, TeardownOnlyEnded
  <1>. QED  BY <1>1, <1>2, <1>3

-----------------------------------------------------------------------------
(* Resets, and the orphan sweep                                             *)

LEMMA FaultsStep ==
    ASSUME Typed, [Next]_vars, faults' = 0
    PROVE  faults = 0 /\ ~Restart /\ \A r \in Requests : ~ClientGone(r)
  <1>1. faults \in Nat
    BY DEF Typed
  <1>2. ~Restart /\ \A r \in Requests : ~ClientGone(r)
    BY <1>1 DEF Restart, ClientGone
  <1>3. ASSUME NEW o \in Outcomes, Count(o) PROVE faults = 0
    BY <1>3, FaultFacts
  <1>4. CASE faults' = faults
    BY <1>2, <1>4
  <1>. QED
    BY <1>2, <1>3, <1>4
    DEF Next, vars, CreateSession, ResetSession, ExtendSession, EndSession, ExecuteAction,
        RequestStep, ReqDrop, ReqCreate, ReqSetRunning, ReqInitSql, ReqFinish, Drop, Make, SetRunning,
        Expire, ShuttleRuns, ReaperStep, ReaperTick, ReaperPick, ReaperDrop,
        SweepStep, SweepSnapshot, SweepListShuttles, SweepPick, SweepDrop,
        SweepListConnections, SweepDropConnection

\* As long as nothing fails, create_session and reset_session go on to their end.
LEMMA BuildGoesOn ==
    ASSUME Typed, Shapes, Next, faults' = 0, NEW q \in Requests, req[q].op \in {"create", "reset"}
    PROVE  \/ req'[q] = req[q]
           \/ ReqFinish(q)
           \/ /\ req'[q] # NoJob /\ req'[q].op = req[q].op /\ req'[q].id = req[q].id
              /\ \/ ReqSetRunning(q)
                 \/ (ReqDrop(q) \/ ReqInitSql(q) \/ ReqCreate(q)) /\ req'[q].todo = Tail(req[q].todo)
  <1>0. req[q] # NoJob
    BY NoJobTyped
  <1>f. faults = 0 /\ ~Restart /\ \A r \in Requests : ~ClientGone(r)
    BY FaultsStep
  <1>1. ASSUME NEW r \in Requests, NEW c, r # q, req' = [req EXCEPT ![r] = c] PROVE req'[q] = req[q]
    BY <1>1 DEF Typed
  <1>2. CASE req' = req
    BY <1>2
  <1>3. ASSUME NEW r \in Requests, NEW s \in Ids,
               CreateSession(r, s) \/ ResetSession(r, s) \/ EndSession(r, s) \/ ExecuteAction(r, s)
        PROVE  req'[q] = req[q]
    <2>1. r # q
      BY <1>0, <1>3 DEF CreateSession, ResetSession, EndSession, ExecuteAction
    <2>2. \E c : req' = [req EXCEPT ![r] = c]
      BY <1>3 DEF CreateSession, ResetSession, EndSession, ExecuteAction
    <2>. QED  BY <1>1, <2>1, <2>2
  <1>4. ASSUME NEW r \in Requests, r # q, RequestStep(r) PROVE req'[q] = req[q]
    <2>1. \E c : req' = [req EXCEPT ![r] = c]
      BY <1>4 DEF RequestStep, ReqDrop, ReqCreate, ReqSetRunning, ReqInitSql, ReqFinish
    <2>. QED  BY <1>1, <1>4, <2>1
  <1>5. /\ req[q].todo # << >>
        /\ Head(req[q].todo).verb # "finish" =>
             /\ next_job(q) # NoJob /\ next_job(q).op = req[q].op /\ next_job(q).id = req[q].id
             /\ next_job(q).todo = Tail(req[q].todo)
    BY <1>0, ReqJob, NextJob
  <1>6. CASE ReqDrop(q) \/ ReqInitSql(q)
    <2>1. Head(req[q].todo).verb # "finish" /\ req' = [req EXCEPT ![q] = next_job(q)]
      BY <1>6 DEF ReqDrop, ReqInitSql, next_job
    <2>2. req'[q] = next_job(q)
      BY <2>1 DEF Typed
    <2>. QED  BY <1>5, <1>6, <2>1, <2>2
  <1>7. CASE ReqCreate(q)
    <2>1. Head(req[q].todo).verb # "finish"
      BY <1>7 DEF ReqCreate
    <2>2. PICK c \in Jobs, o \in Outcomes :
            /\ req' = [req EXCEPT ![q] = c]
            /\ Make(req[q].id, req[q].todo[1], o)
            /\ o = "ok" => c = next_job(q)
      BY <1>7, ReqCreateStep
    <2>3. o = "ok"
      BY <2>2, FaultFacts DEF Make
    <2>4. req'[q] = next_job(q)
      BY <2>2, <2>3 DEF Typed
    <2>. QED  BY <1>5, <1>7, <2>1, <2>4
  <1>8. CASE ReqSetRunning(q)
    <2>1. PICK c \in Jobs : /\ req' = [req EXCEPT ![q] = c]
                            /\ \/ c = NoJob /\ req[q].op = "action"
                               \/ c # NoJob /\ c.op = req[q].op /\ c.id = req[q].id
      BY <1>8, ReqRunningStep
    <2>2. req'[q] = c
      BY <2>1 DEF Typed
    <2>. QED  BY <1>8, <2>1, <2>2
  <1>9. ASSUME NEW r \in Requests, RequestStep(r)
        PROVE  \/ req'[q] = req[q]
               \/ ReqFinish(q) \/ ReqDrop(q) \/ ReqInitSql(q) \/ ReqCreate(q) \/ ReqSetRunning(q)
    BY <1>4, <1>9 DEF RequestStep
  <1>. QED
    BY <1>f, <1>2, <1>3, <1>6, <1>7, <1>8, <1>9
    DEF Next, ExtendSession, Expire, ShuttleRuns, ReaperStep, ReaperTick, ReaperPick, ReaperDrop,
        SweepStep, SweepSnapshot, SweepListShuttles, SweepPick, SweepDrop, SweepListConnections,
        SweepDropConnection

LEMMA ResetStep ==
    ASSUME Typed, Shapes, Ended, ResettingMeansReset, [Next]_vars, Typed', Shapes'
    PROVE  ResettingMeansReset'
  <1>. SUFFICES ASSUME api', faults' = 0, NEW s \in live', status'[s] = "resetting"
                PROVE  \E r \in Requests : req'[r].op = "reset" /\ req'[r].id = s
    BY DEF ResettingMeansReset
  <1>0. /\ s \in Ids /\ faults = 0 /\ ~Restart /\ \A r \in Requests : ~ClientGone(r)
    BY FaultsStep DEF Typed
  <1>1. CASE UNCHANGED vars
    BY <1>1, <1>0 DEF vars, ResettingMeansReset
  <1>2. ASSUME NEW r \in Requests, ResetSession(r, s)
        PROVE  \E q \in Requests : req'[q].op = "reset" /\ req'[q].id = s
    <2>1. api
      BY <1>2 DEF ResetSession
    <2>2. PICK c : c = Start("reset", s, reset_calls(scenario[s]))
      OBVIOUS
    <2>3. c.op = "reset" /\ c.id = s
      BY <1>0, <2>1, <2>2, ResetJob
    <2>4. req' = [req EXCEPT ![r] = c]
      BY <1>2, <2>1, <2>2 DEF ResetSession
    <2>5. req'[r] = c
      BY <2>4 DEF Typed
    <2>. QED  BY <2>3, <2>5
  <1>3. CASE Next /\ \A r \in Requests : ~ResetSession(r, s)
    <2>1. status[s] = "resetting" /\ api
      <3>1. api
        BY <1>3, Fixed
      <3>2. ASSUME NEW r \in Requests, NEW u \in Ids, CreateSession(r, u) PROVE status[s] = "resetting"
        BY <1>0, <3>2 DEF CreateSession, Typed
      <3>3. ASSUME NEW r \in Requests, NEW u \in Ids, ResetSession(r, u) PROVE status[s] = "resetting"
        BY <1>0, <1>3, <3>3 DEF ResetSession, Typed
      <3>4. ASSUME NEW r \in Requests, ReqFinish(r) PROVE status[s] = "resetting"
        BY <1>0, <3>4 DEF ReqFinish, Typed
      <3>5. CASE status' = status
        BY <3>1, <3>5
      <3>. QED
        BY <1>0, <1>3, <3>1, <3>2, <3>3, <3>4, <3>5
        DEF Next, session_vars, ExtendSession, EndSession, ExecuteAction,
            RequestStep, ReqDrop, ReqCreate, ReqSetRunning, ReqInitSql, Expire, ShuttleRuns,
            ReaperStep, ReaperTick, ReaperPick, ReaperDrop, SweepStep, SweepSnapshot, SweepListShuttles,
            SweepPick, SweepDrop, SweepListConnections, SweepDropConnection
    <2>2. s \in live
      BY <1>0, <1>3, <2>1, MapStep
    <2>3. PICK q \in Requests : req[q].op = "reset" /\ req[q].id = s
      BY <1>0, <2>1, <2>2 DEF ResettingMeansReset
    <2>4. ~ReqFinish(q)
      <3>. SUFFICES ASSUME ReqFinish(q) PROVE FALSE
        OBVIOUS
      <3>1. status' = [status EXCEPT ![s] = "active"]
        BY <2>2, <2>3 DEF ReqFinish
      <3>. QED  BY <1>0, <3>1 DEF Typed
    <2>5. req'[q].op = "reset" /\ req'[q].id = s
      BY <1>3, <2>3, <2>4, BuildGoesOn
    <2>. QED  BY <2>5
  <1>. QED  BY <1>1, <1>2, <1>3

\* Nothing is added to the registry for an id no request works for.
LEMMA RegistryShrinks ==
    ASSUME Typed, Shapes, [Next]_vars, NEW s \in Ids, \A r \in Requests : req[r].id # s
    PROVE  arts'[s] \cap Registered \subseteq arts[s]
  <1>1. ~Gains(s)
    BY DEF Gains
  <1>2. arts'[s] = arts[s] \/ Loses(s) \/ Runs(s) \/ Fills(s)
    BY <1>1, ArtsStep
  <1>. QED  BY <1>2 DEF Loses, Runs, Fills, running, Registered

LEMMA SweepingStep ==
    ASSUME Typed, Shapes, Owned, Ended, Sweeping, [Next]_vars, Typed', Shapes'
    PROVE  Sweeping'
  <1>0. NoJob.id \notin Ids
    BY NoJobTyped, LifecycleAssumption
  <1>1. CASE UNCHANGED vars
    BY <1>1 DEF vars, Sweeping
  <1>2. CASE Restart
    BY <1>2, OverFits DEF Restart, Sweeping
  <1>3. CASE SweepSnapshot
    <2>1. CASE ~api
      BY <1>3, <2>1, OverFits DEF SweepSnapshot, Sweeping
    <2>2. CASE api
      <3>1. PICK u : u = {t[1] : t \in listed({"shuttle", "second", "connection"})}
                             \ (live \cup {req[r].id : r \in Requests})
        OBVIOUS
      <3>2. sweep' = [sweep EXCEPT !.pc = "listing", !.live = live, !.orphans = u]
        BY <1>3, <2>2, <3>1 DEF SweepSnapshot
      <3>3. sweep'.pc = "listing" /\ sweep'.live = live /\ sweep'.orphans = u
        BY <3>2 DEF Typed, SweepStates
      <3>4. ASSUME NEW s \in u
            PROVE  s \in Ids /\ s \notin live /\ status[s] # "none" /\ \A r \in Requests : req[r].id # s
        <4>1. PICK t \in Ids \X {"shuttle", "second", "connection"} : t[2] \in arts[t[1]] /\ s = t[1]
          BY <3>1 DEF listed
        <4>. QED  BY <3>1, <4>1 DEF Owned
      <3>5. UNCHANGED <<live, status, req>>
        BY <1>3 DEF SweepSnapshot, session_vars
      <3>. QED  BY <3>3, <3>4, <3>5 DEF Sweeping
    <2>. QED  BY <2>1, <2>2
  <1>4. CASE SweepListShuttles
    <2>1. PICK o \in Outcomes :
            sweep' = IF o = "ok"
                     THEN [sweep EXCEPT !.pc = "shuttles", !.found = having("shuttle"),
                                        !.todo = orphan_shuttles]
                     ELSE SweepOver
      BY <1>4 DEF SweepListShuttles
    <2>2. UNCHANGED <<live, status, req, arts>>
      BY <1>4 DEF SweepListShuttles, session_vars
    <2>3. CASE o # "ok"
      BY <2>1, <2>3, OverFits DEF Sweeping
    <2>4. CASE o = "ok"
      <3>1. PICK f, t : f = having("shuttle") /\ t = orphan_shuttles
        OBVIOUS
      <3>2. sweep' = [sweep EXCEPT !.pc = "shuttles", !.found = f, !.todo = t]
        BY <2>1, <2>4, <3>1
      <3>3. /\ sweep'.pc = "shuttles" /\ sweep'.live = sweep.live /\ sweep'.orphans = sweep.orphans
            /\ sweep'.todo = t
        BY <3>2 DEF Typed, SweepStates
      <3>4. ASSUME NEW s \in sweep.orphans, NEW k \in arts[s] \cap {"shuttle", "second"}
            PROVE  <<s, k>> \in t
        <4>1. s \in Ids /\ s \notin sweep.live
          BY <3>4, SweepFields DEF Sweeping
        <4>. QED  BY <3>1, <4>1 DEF orphan_shuttles, listed
      <3>. QED  BY <2>2, <3>3, <3>4 DEF Sweeping
    <2>. QED  BY <2>3, <2>4
  <1>5. CASE SweepPick
    <2>1. PICK t \in sweep.todo :
            sweep' = [sweep EXCEPT !.todo = @ \ {t},
                                   !.job = Start("sweep", t[1], teardown_calls(t[2]))]
      BY <1>5 DEF SweepPick
    <2>2. UNCHANGED <<live, status, req, arts>> /\ sweep.job = NoJob
      BY <1>5 DEF SweepPick, session_vars
    <2>3. PICK id, k : id = t[1] /\ k = t[2]
      OBVIOUS
    <2>4. /\ id \in Ids /\ k \in {"shuttle", "second"} /\ k \in kinds_of(scenario[id]) /\ api
          /\ sweep.pc = "shuttles" /\ t = <<id, k>>
      BY <1>5, <2>3, SweepFields DEF SweepShape, SweepPick
    <2>5. PICK c : c = Start("sweep", id, teardown_calls(k))
      OBVIOUS
    <2>6. c # NoJob /\ c.id = id /\ c.todo[1].kind = k
      BY <2>4, <2>5, TeardownJob
    <2>7. sweep' = [sweep EXCEPT !.todo = sweep.todo \ {t}, !.job = c]
      BY <2>1, <2>3, <2>5
    <2>8. /\ sweep'.pc = sweep.pc /\ sweep'.live = sweep.live /\ sweep'.orphans = sweep.orphans
          /\ sweep'.todo = sweep.todo \ {t} /\ sweep'.job = c /\ sweep'.ok = sweep.ok
      BY <2>7 DEF Typed, SweepStates
    <2>. QED  BY <2>2, <2>4, <2>6, <2>8 DEF Sweeping
  <1>6. CASE SweepDrop
    <2>1. PICK j \in Jobs : j = sweep.job
      BY SweepFields
    <2>2. j # NoJob /\ WellFormed(j, {"sweep"}) /\ j.op = "sweep" /\ j.id \in Ids
      BY <1>6, <2>1, BackgroundJobs DEF SweepDrop
    <2>3. PICK o \in Outcomes :
            /\ Drop(j.id, Head(j.todo), o)
            /\ sweep' = [sweep EXCEPT !.job = Continue(@, Tail(@.todo)), !.ok = @ /\ o = "ok"]
      BY <1>6, <2>1 DEF SweepDrop
    <2>4. Head(j.todo) = j.todo[1] /\ accepted(j.todo[1])
      BY <2>2, TeardownStep
    <2>5. /\ \A s \in Ids : s # j.id => arts'[s] = arts[s]
          /\ o = "ok" => arts'[j.id] = arts[j.id] \ with_dependents(j.todo[1].kind)
      BY <2>2, <2>3, <2>4, DropEffect
    <2>6. sweep.pc = "shuttles"
      BY <2>1, <2>2, SweepFields DEF SweepShape
    <2>7. /\ sweep'.pc = sweep.pc /\ sweep'.live = sweep.live /\ sweep'.orphans = sweep.orphans
          /\ sweep'.todo = sweep.todo /\ (sweep'.ok => sweep.ok /\ o = "ok")
      BY <2>3 DEF Typed, SweepStates
    <2>8. UNCHANGED <<live, status, req>>
      BY <1>6 DEF SweepDrop, session_vars
    <2>9. ASSUME NEW s \in sweep.orphans, sweep'.ok, NEW k \in arts'[s] \cap {"shuttle", "second"}
          PROVE  <<s, k>> \in sweep'.todo
      <3>1. s \in Ids
        BY SweepFields
      <3>2. k \in arts[s] /\ (s = j.id => k # j.todo[1].kind)
        BY <2>5, <2>7, <2>9, <3>1 DEF with_dependents
      <3>. QED  BY <2>1, <2>6, <2>7, <2>9, <3>2 DEF Sweeping
    <2>10. sweep'.pc = "shuttles"
      BY <2>6, <2>7
    <2>. QED  BY <2>7, <2>8, <2>9, <2>10 DEF Sweeping
  <1>7. CASE SweepListConnections
    <2>1. PICK o \in Outcomes :
            sweep' = IF o = "ok"
                     THEN [sweep EXCEPT !.pc = "connections", !.todo = unused_connections,
                                        !.live = {}, !.found = {}]
                     ELSE SweepOver
      BY <1>7 DEF SweepListConnections
    <2>2. /\ UNCHANGED <<live, status, req, arts>>
          /\ sweep.pc = "shuttles" /\ sweep.todo = {} /\ sweep.job = NoJob
      BY <1>7 DEF SweepListConnections, session_vars
    <2>3. CASE o # "ok"
      BY <2>1, <2>3, OverFits DEF Sweeping
    <2>4. CASE o = "ok"
      <3>1. PICK t : t = unused_connections
        OBVIOUS
      <3>2. sweep' = [sweep EXCEPT !.pc = "connections", !.todo = t, !.live = {}, !.found = {}]
        BY <2>1, <2>4, <3>1
      <3>3. /\ sweep'.pc = "connections" /\ sweep'.live = {} /\ sweep'.orphans = sweep.orphans
            /\ sweep'.todo = t /\ sweep'.ok = sweep.ok
        BY <3>2 DEF Typed, SweepStates
      <3>4. ASSUME NEW s \in sweep.orphans, "connection" \in arts[s]
            PROVE  <<s, "connection">> \in t
        <4>1. s \in Ids /\ s \notin sweep.live
          BY <3>4, SweepFields DEF Sweeping
        <4>. QED  BY <3>1, <3>4, <4>1 DEF unused_connections, listed
      <3>5. ASSUME NEW s \in sweep.orphans, sweep.ok PROVE arts[s] \cap {"shuttle", "second"} = {}
        BY <2>2, <3>5 DEF Sweeping
      <3>. QED  BY <2>2, <3>3, <3>4, <3>5 DEF Sweeping
    <2>. QED  BY <2>3, <2>4
  <1>8. CASE SweepDropConnection
    <2>1. PICK t \in sweep.todo, o \in Outcomes :
            /\ Drop(t[1], Step("drop", "connection", "sql"), o)
            /\ sweep' = [sweep EXCEPT !.todo = @ \ {t}, !.ok = @ /\ o = "ok"]
      BY <1>8 DEF SweepDropConnection
    <2>2. sweep.pc = "connections"
      BY <1>8 DEF SweepDropConnection
    <2>3. t[1] \in Ids /\ t = <<t[1], "connection">>
      BY <2>2, SweepFields DEF SweepShape
    <2>4. PICK st : st = Step("drop", "connection", "sql")
      OBVIOUS
    <2>5. st.kind = "connection" /\ accepted(st)
      BY <2>4 DEF Step, accepted, classify_statement
    <2>6. /\ \A s \in Ids : s # t[1] => arts'[s] = arts[s]
          /\ arts'[t[1]] = arts[t[1]] \/ arts'[t[1]] = arts[t[1]] \ with_dependents("connection")
          /\ o = "ok" => arts'[t[1]] = arts[t[1]] \ with_dependents("connection")
      BY <2>1, <2>3, <2>4, <2>5, DropEffect
    <2>7. /\ sweep'.pc = sweep.pc /\ sweep'.live = sweep.live /\ sweep'.orphans = sweep.orphans
          /\ sweep'.todo = sweep.todo \ {t} /\ (sweep'.ok => sweep.ok /\ o = "ok")
      BY <2>1 DEF Typed, SweepStates
    <2>8. UNCHANGED <<live, status, req>>
      BY <1>8 DEF SweepDropConnection, session_vars
    <2>9. ASSUME NEW s \in sweep.orphans, sweep'.ok
          PROVE  /\ arts'[s] \cap {"shuttle", "second"} = {}
                 /\ "connection" \in arts'[s] => <<s, "connection">> \in sweep'.todo
      <3>1. s \in Ids
        BY SweepFields
      <3>2. /\ arts[s] \cap {"shuttle", "second"} = {}
            /\ "connection" \in arts[s] => <<s, "connection">> \in sweep.todo
        BY <2>2, <2>7, <2>9 DEF Sweeping
      <3>3. CASE s = t[1]
        BY <2>6, <2>7, <2>9, <3>2, <3>3 DEF with_dependents
      <3>4. CASE s # t[1]
        <4>1. <<s, "connection">> # t
          BY <2>3, <3>4
        <4>. QED  BY <2>6, <2>7, <3>1, <3>2, <3>4, <4>1
      <3>. QED  BY <3>3, <3>4
    <2>10. sweep'.pc = "connections"
      BY <2>2, <2>7
    <2>. QED  BY <2>7, <2>8, <2>9, <2>10 DEF Sweeping
  <1>9. CASE Next /\ ~Restart /\ UNCHANGED sweep
    <2>. SUFFICES ASSUME NEW s \in sweep.orphans
                  PROVE  /\ s \notin live' /\ status'[s] # "none"
                         /\ \A r \in Requests : req'[r].id # s
                         /\ arts'[s] \cap Registered \subseteq arts[s]
      BY <1>9 DEF Sweeping, Registered
    <2>1. s \in Ids /\ s \notin live /\ status[s] # "none" /\ \A r \in Requests : req[r].id # s
      BY SweepFields DEF Sweeping
    <2>2. s \notin live' /\ status'[s] # "none"
      BY <1>9, <2>1, MapStep, StatusStep
    <2>3. arts'[s] \cap Registered \subseteq arts[s]
      BY <2>1, RegistryShrinks
    <2>4. ASSUME NEW r \in Requests PROVE req'[r].id # s
      <3>1. Worked(r)
        BY <1>9, RequestsStep
      <3>. QED  BY <1>0, <2>1, <3>1 DEF Worked
    <2>. QED  BY <2>2, <2>3, <2>4
  <1>. QED
    BY <1>1, <1>2, <1>3, <1>4, <1>5, <1>6, <1>7, <1>8, <1>9
    DEF Next, RequestStep, CreateSession, ResetSession, EndSession, ExecuteAction, ReqFinish, ReqDrop,
        ReqInitSql, ReqSetRunning, ReqCreate, ClientGone, ExtendSession, Expire, ShuttleRuns, ReaperStep,
        ReaperTick, ReaperPick, ReaperDrop, SweepStep

-----------------------------------------------------------------------------
(* Teardowns go on to their end                                             *)

\* As long as nothing fails, a teardown stays where it is or drops the next thing.
LEMMA TornGoesOn ==
    ASSUME Typed, Shapes, Next, faults' = 0, NEW s \in Ids, NEW j \in jobs, tearing(s, j)
    PROVE  /\ j \in Jobs /\ WellFormed(j, Ops) /\ j.op \in {"end", "reap", "sweep"}
           /\ \/ j \in jobs'
              \/ /\ arts'[s] = arts[s] \ with_dependents(j.todo[1].kind)
                 /\ Continue(j, Tail(j.todo)) \in jobs'
  <1>0. j # NoJob /\ j.id = s /\ j.op \in {"end", "reap", "sweep"}
    BY DEF tearing
  <1>f. ~Restart /\ \A r \in Requests : ~ClientGone(r)
    BY FaultsStep
  <1>d. ASSUME NEW o \in Outcomes, j \in Jobs, WellFormed(j, Ops), Drop(j.id, Head(j.todo), o)
        PROVE  arts'[s] = arts[s] \ with_dependents(j.todo[1].kind)
    <2>1. Head(j.todo) = j.todo[1] /\ accepted(j.todo[1])
      BY <1>0, <1>d, TeardownStep
    <2>2. Drop(s, j.todo[1], o)
      BY <1>0, <1>d, <2>1
    <2>3. o = "ok"
      BY <2>2, DropEffect
    <2>. QED  BY <2>1, <2>2, <2>3, DropEffect
  <1>1. ASSUME NEW r \in Requests, j = req[r]
        PROVE  /\ j \in Jobs /\ WellFormed(j, Ops)
               /\ \/ j \in jobs'
                  \/ /\ arts'[s] = arts[s] \ with_dependents(j.todo[1].kind)
                     /\ Continue(j, Tail(j.todo)) \in jobs'
    <2>1. j \in Jobs /\ WellFormed(j, Ops) /\ j.op = "end"
      BY <1>0, <1>1, ReqJob DEF WellFormed, ReqOps, Ops
    <2>2. CASE req'[r] = req[r]
      BY <1>1, <2>1, <2>2 DEF jobs
    <2>3. CASE ReqDrop(r)
      <3>1. PICK o \in Outcomes : Drop(j.id, Head(j.todo), o)
        BY <1>1, <2>3 DEF ReqDrop
      <3>2. req'[r] = Continue(j, Tail(j.todo))
        BY <1>1, <2>3 DEF ReqDrop, Typed
      <3>. QED  BY <1>d, <2>1, <3>1, <3>2 DEF jobs
    <2>4. Head(j.todo).verb = "drop"
      BY <2>1, <1>0, TeardownStep
    <2>5. ~(ReqCreate(r) \/ ReqSetRunning(r) \/ ReqInitSql(r) \/ ReqFinish(r))
      BY <1>1, <2>4 DEF ReqCreate, ReqSetRunning, ReqInitSql, ReqFinish
    <2>6. ASSUME NEW q \in Requests, NEW c, q # r, req' = [req EXCEPT ![q] = c] PROVE req'[r] = req[r]
      BY <2>6 DEF Typed
    <2>7. ASSUME NEW q \in Requests, NEW u \in Ids,
                 CreateSession(q, u) \/ ResetSession(q, u) \/ EndSession(q, u) \/ ExecuteAction(q, u)
          PROVE  req'[r] = req[r]
      <3>1. q # r /\ \E c : req' = [req EXCEPT ![q] = c]
        BY <1>0, <1>1, <2>7 DEF CreateSession, ResetSession, EndSession, ExecuteAction
      <3>. QED  BY <2>6, <3>1
    <2>8. ASSUME NEW q \in Requests, q # r, RequestStep(q) PROVE req'[r] = req[r]
      <3>1. \E c : req' = [req EXCEPT ![q] = c]
        BY <2>8 DEF RequestStep, ReqDrop, ReqCreate, ReqSetRunning, ReqInitSql, ReqFinish
      <3>. QED  BY <2>6, <2>8, <3>1
    <2>9. ASSUME NEW q \in Requests, RequestStep(q) PROVE req'[r] = req[r] \/ ReqDrop(r)
      BY <2>5, <2>8, <2>9 DEF RequestStep
    <2>10. CASE req' = req
      BY <2>2, <2>10
    <2>. QED
      BY <1>f, <2>2, <2>3, <2>7, <2>9, <2>10
      DEF Next, ExtendSession, Expire, ShuttleRuns, ReaperStep, ReaperTick, ReaperPick, ReaperDrop,
          SweepStep, SweepSnapshot, SweepListShuttles, SweepPick, SweepDrop, SweepListConnections,
          SweepDropConnection
  <1>2. CASE j = reaper.job
    <2>1. j \in Jobs /\ WellFormed(j, Ops)
      BY <1>0, <1>2, BackgroundJobs DEF WellFormed, Ops
    <2>2. CASE reaper'.job = reaper.job
      BY <1>0, <1>2, <2>1, <2>2 DEF jobs
    <2>3. CASE ReaperDrop
      <3>1. PICK o \in Outcomes : Drop(j.id, Head(j.todo), o)
        BY <1>2, <2>3 DEF ReaperDrop
      <3>2. reaper' = [reaper EXCEPT !.job = Continue(j, Tail(j.todo))]
        BY <1>2, <2>3 DEF ReaperDrop
      <3>3. reaper'.job = Continue(j, Tail(j.todo))
        BY <3>2 DEF Typed
      <3>. QED  BY <1>0, <1>d, <2>1, <3>1, <3>3 DEF jobs
    <2>4. ~ReaperTick /\ ~ReaperPick
      BY <1>0, <1>2 DEF ReaperTick, ReaperPick, IdleReaper
    <2>. QED
      BY <1>0, <1>f, <2>2, <2>3, <2>4
      DEF Next, RequestStep, CreateSession, ResetSession, EndSession, ExecuteAction, ReqFinish, ReqDrop,
          ReqInitSql, ReqSetRunning, ReqCreate, ExtendSession, Expire, ShuttleRuns, ReaperStep,
          SweepStep, SweepSnapshot, SweepListShuttles, SweepPick, SweepDrop, SweepListConnections,
          SweepDropConnection
  <1>3. CASE j = sweep.job
    <2>1. j \in Jobs /\ WellFormed(j, Ops)
      BY <1>0, <1>3, BackgroundJobs DEF WellFormed, Ops
    <2>2. CASE sweep'.job = sweep.job
      BY <1>0, <1>3, <2>1, <2>2 DEF jobs
    <2>3. CASE SweepDrop
      <3>1. PICK o \in Outcomes :
              /\ Drop(j.id, Head(j.todo), o)
              /\ sweep' = [sweep EXCEPT !.job = Continue(@, Tail(@.todo)), !.ok = @ /\ o = "ok"]
        BY <1>3, <2>3 DEF SweepDrop
      <3>2. sweep'.job = Continue(j, Tail(j.todo))
        BY <1>3, <3>1 DEF Typed, SweepStates
      <3>. QED  BY <1>0, <1>d, <2>1, <3>1, <3>2 DEF jobs
    <2>4. sweep.pc = "shuttles"
      BY <1>0, <1>3, SweepFields DEF SweepShape
    <2>5. ~SweepSnapshot /\ ~SweepListShuttles /\ ~SweepPick /\ ~SweepListConnections
          /\ ~SweepDropConnection
      BY <1>0, <1>3, <2>4
      DEF SweepSnapshot, SweepListShuttles, SweepPick, SweepListConnections, SweepDropConnection
    <2>. QED
      BY <1>0, <1>f, <2>2, <2>3, <2>5
      DEF Next, RequestStep, CreateSession, ResetSession, EndSession, ExecuteAction, ReqFinish, ReqDrop,
          ReqInitSql, ReqSetRunning, ReqCreate, ExtendSession, Expire, ShuttleRuns, ReaperStep,
          ReaperTick, ReaperPick, ReaperDrop, SweepStep
  <1>. QED  BY <1>0, <1>1, <1>2, <1>3 DEF jobs

\* What a teardown has on its list stays on it until it is dropped.
LEMMA CoverStep ==
    ASSUME Typed, Shapes, Next, faults' = 0, NEW s \in Ids, NEW x \in arts'[s], covered(s, x)
    PROVE  covered(s, x)'
  <1>1. PICK j \in jobs : tearing(s, j) /\ x \in kinds_in(j.todo)
    BY DEF covered
  <1>2. /\ j \in Jobs /\ WellFormed(j, Ops) /\ j.op \in {"end", "reap", "sweep"} /\ j # NoJob /\ j.id = s
        /\ \/ j \in jobs'
           \/ /\ arts'[s] = arts[s] \ with_dependents(j.todo[1].kind)
              /\ Continue(j, Tail(j.todo)) \in jobs'
    BY <1>1, TornGoesOn DEF tearing
  <1>3. CASE j \in jobs'
    BY <1>1, <1>3 DEF covered
  <1>4. CASE /\ arts'[s] = arts[s] \ with_dependents(j.todo[1].kind)
             /\ Continue(j, Tail(j.todo)) \in jobs'
    <2>1. PICK d : d = Continue(j, Tail(j.todo))
      OBVIOUS
    <2>2. x # j.todo[1].kind
      BY <1>4 DEF with_dependents
    <2>3. d # NoJob /\ d.op = j.op /\ d.id = j.id /\ x \in kinds_in(d.todo)
      BY <1>1, <1>2, <2>1, <2>2, TeardownStep
    <2>4. tearing(s, d) /\ d \in jobs'
      BY <1>2, <1>4, <2>1, <2>3 DEF tearing
    <2>. QED  BY <2>3, <2>4 DEF covered
  <1>. QED  BY <1>2, <1>3, <1>4

-----------------------------------------------------------------------------
(* What is left of a session                                                *)

LEMMA MeddledGrows == ASSUME Next PROVE meddled \subseteq meddled'
  BY DEF Next, CreateSession, ResetSession, ExtendSession, EndSession, ExecuteAction, Make,
         RequestStep, ReqDrop, ReqCreate, ReqSetRunning, ReqInitSql, ReqFinish, ClientGone, Expire,
         ShuttleRuns, ReaperStep, ReaperTick, ReaperPick, ReaperDrop, SweepStep, SweepSnapshot,
         SweepListShuttles, SweepPick, SweepDrop, SweepListConnections, SweepDropConnection, Restart

\* A job that takes a step on the way to CREATE SHUTTLE still has it to do.
LEMMA StillBuilding ==
    ASSUME Typed, Shapes, api, NEW r \in Requests, req[r].op \in {"create", "reset"},
           NEW s, req[r].id = s, NEW i \in 1..Len(req[r].todo),
           req[r].todo[i] = create_shuttle \/ leads_up(req[r].todo[i]),
           i # 1 \/ leads_up(req[r].todo[1]),
           req'[r].op = req[r].op, req'[r].id = req[r].id, req'[r].todo = Tail(req[r].todo)
    PROVE  building(s)'
  <1>1. PICK t \in Seq(Steps) : t = req[r].todo /\ t # << >>
    BY NoJobTyped, ReqJob
  <1>2. BuildShape(t, scenario[req[r].id], api)
    BY <1>1, NoJobTyped, ReqJob DEF JobShape
  <1>3. /\ Len(t) \in Nat \ {0} /\ Len(Tail(t)) = Len(t) - 1
        /\ \A k \in 1..(Len(t) - 1) : Tail(t)[k] = t[k + 1]
    BY <1>1, TailFacts
  <1>4. ~leads_up(create_shuttle)
    BY DEF leads_up, create_shuttle, Step
  <1>5. PICK m \in 1..Len(t) : t[m] = create_shuttle /\ m # 1
    <2>1. CASE leads_up(t[1])
      <3>1. 1 \in 1..Len(t)
        BY <1>3
      <3>2. PICK m \in 1..Len(t) : t[m] = create_shuttle
        BY <1>2, <2>1, <3>1 DEF BuildShape
      <3>. QED  BY <1>4, <2>1, <3>2
    <2>2. CASE ~leads_up(t[1])
      <3>1. i # 1 /\ i \in 1..Len(t)
        BY <1>1, <2>2
      <3>2. CASE t[i] = create_shuttle
        BY <3>1, <3>2
      <3>3. CASE leads_up(t[i])
        <4>1. PICK m \in i..Len(t) : t[m] = create_shuttle
          BY <1>2, <3>1, <3>3 DEF BuildShape
        <4>2. m \in 1..Len(t) /\ m # 1
          BY <1>3, <3>1
        <4>. QED  BY <4>1, <4>2
      <3>. QED  BY <1>1, <3>2, <3>3
    <2>. QED  BY <2>1, <2>2
  <1>6. m - 1 \in 1..Len(Tail(t)) /\ Tail(t)[m - 1] = t[m]
    BY <1>3, <1>5
  <1>7. /\ req'[r].op \in {"create", "reset"} /\ req'[r].id = s
        /\ req'[r].todo = Tail(t)
    BY <1>1
  <1>8. \E k \in 1..Len(req'[r].todo) : req'[r].todo[k] = create_shuttle
    BY <1>5, <1>6, <1>7
  <1>. QED  BY <1>7, <1>8 DEF building

\* A session that gets an artifact after it left the map counts as meddled with, and
\* gets its shuttle, if what it gets does not stay behind for good anyway.
LEMMA GainStep ==
    ASSUME Typed, Shapes, Next, faults' = 0, NEW s \in Ids \ live, Gains(s),
           ~Fills(s), ~(arts'[s] \subseteq arts[s])
    PROVE  /\ s \in meddled'
           /\ api => \/ building(s)'
                     \/ arts'[s] \cap {"shuttle", "second"} # {}
                     \/ arts'[s] \subseteq arts[s] \cup {"topic", "files"}
  <1>1. ASSUME NEW id \in Ids, NEW st, NEW o \in Outcomes, Drop(id, st, o) PROVE FALSE
    <2>1. /\ s # id => arts'[s] = arts[s]
          /\ arts'[id] = arts[id] \/ arts'[id] = arts[id] \ with_dependents(st.kind)
      BY <1>1, DropEffect
    <2>. QED  BY <2>1
  <1>2. CASE arts' = arts
    BY <1>2
  <1>3. ASSUME NEW r \in Requests, ReqDrop(r) PROVE FALSE
    <2>1. req[r].id \in Ids
      BY <1>3, ReqJob DEF ReqDrop
    <2>. QED  BY <1>1, <1>3, <2>1 DEF ReqDrop
  <1>4. CASE ReaperDrop
    <2>1. reaper.job.id \in Ids
      BY <1>4, BackgroundJobs DEF ReaperDrop
    <2>. QED  BY <1>1, <1>4, <2>1 DEF ReaperDrop
  <1>5. CASE SweepDrop
    <2>1. sweep.job.id \in Ids
      BY <1>5, BackgroundJobs DEF SweepDrop
    <2>. QED  BY <1>1, <1>5, <2>1 DEF SweepDrop
  <1>6. CASE SweepDropConnection
    <2>1. \A t \in sweep.todo : t[1] \in Ids
      BY BackgroundJobs
    <2>. QED  BY <1>1, <1>6, <2>1 DEF SweepDropConnection
  <1>7. ASSUME NEW r \in Requests, ReqCreate(r)
        PROVE  /\ s \in meddled'
               /\ api => \/ building(s)'
                         \/ arts'[s] \cap {"shuttle", "second"} # {}
                         \/ arts'[s] \subseteq arts[s] \cup {"topic", "files"}
    <2>1. /\ req[r] # NoJob /\ req[r].id \in Ids /\ scenario[req[r].id] \in AllScenarios
          /\ req[r].todo # << >> /\ req[r].todo \in Seq(Steps)
      BY <1>7, ReqJob DEF ReqCreate
    <2>2. /\ req[r].todo[1].kind \in kinds_of(scenario[req[r].id]) /\ req[r].todo[1].verb = "create"
          /\ req[r].op \in {"create", "reset", "action"}
          /\ (req[r].op = "action") <=> req[r].todo[1].kind \in {"topic", "files"}
      BY <1>7, ReqCreateStep
    <2>3. PICK o \in Outcomes : Make(req[r].id, req[r].todo[1], o)
      BY <1>7, ReqCreateStep
    <2>4. PICK k \in Kinds : k = req[r].todo[1].kind
      BY <2>1, <2>2, KindsFacts
    <2>5. /\ s # req[r].id => arts'[s] = arts[s]
          /\ \/ arts'[req[r].id] = arts[req[r].id]
             \/ arts'[req[r].id] = arts[req[r].id] \cup {k}
          /\ req[r].id \in live \/ req[r].id \in meddled'
      BY <2>1, <2>3, <2>4, MakeEffect
    <2>6. s = req[r].id /\ arts'[s] = arts[s] \cup {k} /\ s \in meddled'
      BY <2>5
    <2>7. CASE k \in {"topic", "files"}
      BY <2>6, <2>7
    <2>8. CASE k \in {"shuttle", "second"}
      BY <2>6, <2>8
    <2>9. CASE k \notin {"topic", "files", "shuttle", "second"} /\ api
      <3>1. leads_up(req[r].todo[1]) /\ req[r].op \in {"create", "reset"}
        BY <2>2, <2>4, <2>9 DEF leads_up
      <3>2. req'[r].op = req[r].op /\ req'[r].id = req[r].id /\ req'[r].todo = Tail(req[r].todo)
        <4>1. PICK c \in Jobs, p \in Outcomes :
                /\ req' = [req EXCEPT ![r] = c] /\ Make(req[r].id, req[r].todo[1], p)
                /\ p = "ok" => c = next_job(r)
          BY <1>7, ReqCreateStep
        <4>2. p = "ok"
          BY <4>1, FaultFacts DEF Make
        <4>3. req'[r] = next_job(r)
          BY <4>1, <4>2 DEF Typed
        <4>4. Head(req[r].todo).verb # "finish"
          BY <1>7 DEF ReqCreate
        <4>. QED  BY <2>1, <3>1, <4>3, <4>4, NextJob
      <3>3. 1 \in 1..Len(req[r].todo)
        BY <2>1
      <3>4. building(s)'
        BY <2>6, <2>9, <3>1, <3>2, <3>3, StillBuilding
      <3>. QED  BY <2>6, <3>4
    <2>. QED  BY <2>6, <2>7, <2>8, <2>9
  <1>8. ASSUME NEW r \in Requests, ReqInitSql(r)
        PROVE  /\ s \in meddled'
               /\ api => building(s)'
    <2>1. /\ req[r] # NoJob /\ req[r].id \in Ids /\ req[r].op \in {"create", "reset"}
          /\ req' = [req EXCEPT ![r] = next_job(r)]
          /\ s # req[r].id => arts'[s] = arts[s]
          /\ arts' = arts \/ req[r].id \in live \/ req[r].id \in meddled'
      BY <1>8, ReqInitStep
    <2>2. s = req[r].id /\ s \in meddled'
      BY <2>1
    <2>3. /\ req[r].todo # << >> /\ req[r].todo \in Seq(Steps)
          /\ Head(req[r].todo) = req[r].todo[1] /\ Head(req[r].todo).verb = "init"
      BY <1>8, ReqJob DEF ReqInitSql
    <2>4. req'[r] = next_job(r)
      BY <2>1 DEF Typed
    <2>5. req'[r].op = req[r].op /\ req'[r].id = req[r].id /\ req'[r].todo = Tail(req[r].todo)
      BY <2>1, <2>3, <2>4, NextJob
    <2>6. 1 \in 1..Len(req[r].todo) /\ leads_up(req[r].todo[1])
      BY <2>3 DEF leads_up
    <2>7. api => building(s)'
      BY <2>1, <2>2, <2>5, <2>6, StillBuilding
    <2>. QED  BY <2>2, <2>7
  <1>9. ASSUME NEW r \in Requests, ReqSetRunning(r) PROVE FALSE
    <2>1. req[r].id \in Ids
      BY <1>9, ReqJob DEF ReqSetRunning
    <2>2. PICK o \in Outcomes : SetRunning(req[r].id, req[r].todo[1], o)
      BY <1>9, ReqRunningStep
    <2>3. PICK k \in {"shuttle", "second"} : k = req[r].todo[1].kind /\ api
      BY <1>9, ReqRunningStep
    <2>4. /\ s # req[r].id => arts'[s] = arts[s]
          /\ \/ arts'[req[r].id] \subseteq arts[req[r].id]
             \/ arts'[req[r].id] = arts[req[r].id] \cup {running(k)}
      BY <2>1, <2>2, <2>3, SetRunningEffect
    <2>5. PICK x \in kinds_of(scenario[s]) : arts'[s] = arts[s] \cup {x}
      BY DEF Gains
    <2>6. x \notin {"running", "second_running"}
      BY KindsFacts DEF Typed
    <2>7. running(k) \in {"running", "second_running"}
      BY DEF running
    <2>. QED  BY <2>4, <2>5, <2>6, <2>7
  <1>10. ASSUME NEW u \in Ids, ShuttleRuns(u) PROVE FALSE
    BY <1>10 DEF ShuttleRuns, Fills, Typed
  <1>. QED
    BY <1>2, <1>3, <1>4, <1>5, <1>6, <1>7, <1>8, <1>9, <1>10
    DEF Next, CreateSession, ResetSession, ExtendSession, EndSession, ExecuteAction,
        RequestStep, ReqFinish, ClientGone, Expire, ReaperStep, ReaperTick, ReaperPick, SweepStep,
        SweepSnapshot, SweepListShuttles, SweepPick, SweepListConnections, Restart


\* All that a session without a shuttle has is covered by a teardown that has
\* dropped no more than the shuttle.
LEMMA FullCover ==
    ASSUME Typed', Owned', NEW s \in Ids, arts'[s] \cap {"shuttle", "second"} = {},
           NEW d \in jobs', tearing(s, d), dropped_of(scenario'[s]) \subseteq kinds_in(d.todo)
    PROVE  \A x \in arts'[s] \ exempt(s)' : covered(s, x)'
  <1>. SUFFICES ASSUME NEW x \in arts'[s] \ exempt(s)' PROVE covered(s, x)'
    OBVIOUS
  <1>1. OwnsRight(arts'[s], scenario'[s], api')
    BY DEF Owned
  <1>2. x \in kinds_of(scenario'[s])
    BY <1>1 DEF OwnsRight
  <1>3. x \notin {"shuttle", "second", "topic"}
    BY DEF exempt
  <1>4. x \in kinds_in(d.todo)
    BY <1>2, <1>3 DEF dropped_of
  <1>. QED  BY <1>4 DEF covered

\* A session loses its last shuttle to a teardown that has all the rest still to
\* drop, or to a reset that is to make it again.
LEMMA LeadLost ==
    ASSUME Typed, Shapes, Next, faults' = 0, api, NEW s \in Ids,
           arts[s] \cap {"shuttle", "second"} # {}, arts'[s] \cap {"shuttle", "second"} = {}
    PROVE  \/ building(s)'
           \/ \E d \in jobs' : tearing(s, d) /\ dropped_of(scenario[s]) \subseteq kinds_in(d.todo)
  <1>. DEFINE Goal == \/ building(s)'
                      \/ \E d \in jobs' : /\ tearing(s, d)
                                          /\ dropped_of(scenario[s]) \subseteq kinds_in(d.todo)
  <1>1. ASSUME NEW id \in Ids, NEW st, NEW o \in Outcomes, Drop(id, st, o)
        PROVE  id = s /\ st.kind \in {"shuttle", "second"}
    <2>1. /\ s # id => arts'[s] = arts[s]
          /\ arts'[id] = arts[id] \/ arts'[id] = arts[id] \ with_dependents(st.kind)
      BY <1>1, DropEffect
    <2>. QED  BY <2>1 DEF with_dependents
  <1>2. ASSUME NEW ops, NEW j \in Jobs, j # NoJob, WellFormed(j, ops), j.op \in {"end", "reap", "sweep"},
               NEW o \in Outcomes, Drop(j.id, Head(j.todo), o), Continue(j, Tail(j.todo)) \in jobs'
        PROVE  Goal
    <2>1. j.id \in Ids /\ Head(j.todo) = j.todo[1]
      BY <1>2, TeardownStep
    <2>2. j.id = s /\ j.todo[1].kind \in {"shuttle", "second"}
      BY <1>1, <1>2, <2>1
    <2>3. PICK d : d = Continue(j, Tail(j.todo))
      OBVIOUS
    <2>4. /\ d # NoJob /\ dropped_of(scenario[s]) \subseteq kinds_in(d.todo)
          /\ d.op = j.op /\ d.id = s
      BY <1>2, <2>2, <2>3, TeardownStep
    <2>5. d \in jobs' /\ tearing(s, d)
      BY <1>2, <2>3, <2>4 DEF tearing
    <2>. QED  BY <2>4, <2>5
  <1>3. ASSUME NEW r \in Requests, ReqDrop(r) PROVE Goal
    <2>1. /\ req[r] # NoJob /\ req[r] \in Jobs /\ WellFormed(req[r], ReqOps) /\ req[r].id \in Ids
          /\ req[r].op \in ReqOps /\ Head(req[r].todo).verb = "drop"
          /\ Head(req[r].todo) = req[r].todo[1]
          /\ req[r].todo # << >> /\ req[r].todo \in Seq(Steps)
          /\ JobShape(req[r], scenario[req[r].id], api)
      BY <1>3, ReqJob DEF ReqDrop
    <2>2. PICK o \in Outcomes : Drop(req[r].id, Head(req[r].todo), o)
      BY <1>3 DEF ReqDrop
    <2>3. req'[r] = Continue(req[r], Tail(req[r].todo)) /\ req'[r] = next_job(r)
      BY <1>3 DEF ReqDrop, next_job, Typed
    <2>4. CASE req[r].op = "end"
      <3>1. Continue(req[r], Tail(req[r].todo)) \in jobs'
        BY <2>3 DEF jobs
      <3>. QED  BY <1>2, <2>1, <2>2, <2>4, <3>1
    <2>5. CASE req[r].op \in {"create", "reset"}
      <3>1. req[r].id = s
        BY <1>1, <2>1, <2>2
      <3>2. req'[r].op = req[r].op /\ req'[r].id = req[r].id /\ req'[r].todo = Tail(req[r].todo)
        BY <2>1, <2>3, <2>5, NextJob
      <3>3. 1 \in 1..Len(req[r].todo) /\ leads_up(req[r].todo[1])
        BY <2>1 DEF leads_up
      <3>. QED  BY <2>5, <3>1, <3>2, <3>3, StillBuilding
    <2>6. req[r].op # "action"
      <3>1. produce_kafka.verb = "create" /\ upload_file.verb = "create"
        BY DEF produce_kafka, upload_file, Step
      <3>. QED  BY <2>1, <3>1 DEF JobShape, ActionShape
    <2>. QED  BY <2>1, <2>4, <2>5, <2>6 DEF ReqOps
  <1>4. CASE ReaperDrop
    <2>1. /\ reaper.job # NoJob /\ reaper.job \in Jobs /\ WellFormed(reaper.job, {"reap"})
          /\ reaper.job.op = "reap"
      BY <1>4, BackgroundJobs DEF ReaperDrop
    <2>2. PICK o \in Outcomes : Drop(reaper.job.id, Head(reaper.job.todo), o)
      BY <1>4 DEF ReaperDrop
    <2>3. reaper'.job = Continue(reaper.job, Tail(reaper.job.todo))
      BY <1>4 DEF ReaperDrop, Typed
    <2>4. Continue(reaper.job, Tail(reaper.job.todo)) \in jobs'
      BY <2>3 DEF jobs
    <2>. QED  BY <1>2, <2>1, <2>2, <2>4
  <1>5. CASE SweepDrop
    <2>1. /\ sweep.job # NoJob /\ sweep.job \in Jobs /\ WellFormed(sweep.job, {"sweep"})
          /\ sweep.job.op = "sweep"
      BY <1>5, BackgroundJobs DEF SweepDrop
    <2>2. PICK o \in Outcomes :
            /\ Drop(sweep.job.id, Head(sweep.job.todo), o)
            /\ sweep' = [sweep EXCEPT !.job = Continue(@, Tail(@.todo)), !.ok = @ /\ o = "ok"]
      BY <1>5 DEF SweepDrop
    <2>3. sweep'.job = Continue(sweep.job, Tail(sweep.job.todo))
      BY <2>2 DEF Typed, SweepStates
    <2>4. Continue(sweep.job, Tail(sweep.job.todo)) \in jobs'
      BY <2>3 DEF jobs
    <2>. QED  BY <1>2, <2>1, <2>2, <2>4
  <1>6. CASE SweepDropConnection
    <2>1. PICK t \in sweep.todo, o \in Outcomes : Drop(t[1], Step("drop", "connection", "sql"), o)
      BY <1>6 DEF SweepDropConnection
    <2>2. t[1] \in Ids
      BY BackgroundJobs
    <2>3. Step("drop", "connection", "sql").kind = "connection"
      BY DEF Step
    <2>. QED  BY <1>1, <2>1, <2>2, <2>3
  <1>7. ASSUME NEW r \in Requests, ReqCreate(r) PROVE FALSE
    <2>1. req[r].id \in Ids /\ scenario[req[r].id] \in AllScenarios
      BY <1>7, ReqJob DEF ReqCreate
    <2>2. req[r].todo[1].kind \in Kinds
      BY <1>7, <2>1, ReqCreateStep, KindsFacts
    <2>3. PICK o \in Outcomes : Make(req[r].id, req[r].todo[1], o)
      BY <1>7, ReqCreateStep
    <2>4. arts[s] \subseteq arts'[s]
      BY <2>1, <2>2, <2>3, MakeEffect
    <2>. QED  BY <2>4
  <1>8. ASSUME NEW r \in Requests, ReqInitSql(r) PROVE FALSE
    <2>1. arts[s] \subseteq arts'[s]
      BY <1>8, ReqInitStep
    <2>. QED  BY <2>1
  <1>9. ASSUME NEW r \in Requests, ReqSetRunning(r) PROVE FALSE
    <2>1. req[r].id \in Ids
      BY <1>9, ReqJob DEF ReqSetRunning
    <2>2. PICK o \in Outcomes : SetRunning(req[r].id, req[r].todo[1], o)
      BY <1>9, ReqRunningStep
    <2>3. PICK k \in {"shuttle", "second"} : k = req[r].todo[1].kind
      BY <1>9, ReqRunningStep
    <2>4. /\ s # req[r].id => arts'[s] = arts[s]
          /\ \/ arts[req[r].id] \subseteq arts'[req[r].id]
             \/ arts'[req[r].id] = arts[req[r].id] \ {running(k)}
      BY <2>1, <2>2, <2>3, SetRunningEffect
    <2>5. running(k) \in {"running", "second_running"}
      BY DEF running
    <2>. QED  BY <2>4, <2>5
  <1>10. ASSUME NEW u \in Ids, ShuttleRuns(u) PROVE FALSE
    BY <1>10 DEF ShuttleRuns, Typed
  <1>11. arts' # arts
    OBVIOUS
  <1>. QED
    BY <1>3, <1>4, <1>5, <1>6, <1>7, <1>8, <1>9, <1>10, <1>11
    DEF Next, CreateSession, ResetSession, ExtendSession, EndSession, ExecuteAction,
        RequestStep, ReqFinish, ClientGone, Expire, ReaperStep, ReaperTick, ReaperPick, SweepStep,
        SweepSnapshot, SweepListShuttles, SweepPick, SweepListConnections, Restart

\* A session that leaves the map, or that the reaper took from it, waits for the
\* reaper or gets a teardown of all its scenario makes.
LEMMA HandedOver ==
    ASSUME Typed, Shapes, Next, faults' = 0, NEW s \in Ids,
           (s \in live /\ s \notin live') \/ s \in reaper.todo
    PROVE  \/ s \in reaper'.todo
           \/ /\ arts' = arts
              /\ api => \E d \in jobs' :
                          /\ tearing(s, d) /\ d.op # "sweep"
                          /\ dropped_of(scenario[s]) \cup {"shuttle"} \subseteq kinds_in(d.todo)
  <1>. DEFINE Goal == \/ s \in reaper'.todo
                      \/ /\ arts' = arts
                         /\ api => \E d \in jobs' :
                              /\ tearing(s, d) /\ d.op # "sweep"
                              /\ dropped_of(scenario[s]) \cup {"shuttle"} \subseteq kinds_in(d.todo)
  <1>f. ~Restart
    BY FaultsStep
  <1>1. ASSUME NEW op \in {"end", "reap"}, Start(op, s, teardown_calls("shuttle")) \in jobs', arts' = arts
        PROVE  Goal
    <2>1. "shuttle" \in kinds_of(scenario[s])
      BY KindsFacts DEF Typed
    <2>2. PICK d : d = Start(op, s, teardown_calls("shuttle"))
      OBVIOUS
    <2>3. api => /\ d # NoJob /\ d.op = op /\ d.id = s
                 /\ dropped_of(scenario[s]) \cup {"shuttle"} \subseteq kinds_in(d.todo)
      BY <2>1, <2>2, TeardownJob
    <2>4. d \in jobs'
      BY <1>1, <2>2
    <2>5. api => tearing(s, d) /\ d.op # "sweep"
      BY <2>3 DEF tearing
    <2>. QED  BY <1>1, <2>3, <2>4, <2>5
  <1>2. ASSUME NEW r \in Requests, NEW u \in Ids, EndSession(r, u) PROVE Goal
    <2>1. CASE u = s
      <3>1. req'[r] = Start("end", s, teardown_calls("shuttle")) /\ arts' = arts
        BY <1>2, <2>1 DEF EndSession, Typed
      <3>2. Start("end", s, teardown_calls("shuttle")) \in jobs'
        BY <3>1 DEF jobs
      <3>. QED  BY <1>1, <3>1, <3>2
    <2>2. CASE u # s
      BY <1>2, <2>2 DEF EndSession
    <2>. QED  BY <2>1, <2>2
  <1>3. CASE ReaperTick
    <2>1. reaper'.todo = live \cap lapsed /\ reaper.todo = {} /\ live' = live \ lapsed
      BY <1>3 DEF ReaperTick, IdleReaper
    <2>. QED  BY <2>1
  <1>4. CASE ReaperPick
    <2>1. PICK u \in reaper.todo :
            reaper' = [todo |-> reaper.todo \ {u},
                       job |-> Start("reap", u, teardown_calls("shuttle"))]
      BY <1>4 DEF ReaperPick
    <2>2. /\ live' = live /\ arts' = arts /\ reaper'.todo = reaper.todo \ {u}
          /\ reaper'.job = Start("reap", u, teardown_calls("shuttle"))
      BY <1>4, <2>1 DEF ReaperPick, session_vars
    <2>3. CASE u = s
      <3>1. Start("reap", s, teardown_calls("shuttle")) \in jobs'
        BY <2>2, <2>3 DEF jobs
      <3>. QED  BY <1>1, <2>2, <3>1
    <2>. QED  BY <2>2, <2>3
  <1>5. CASE ReaperDrop
    <2>1. reaper'.todo = reaper.todo /\ live' = live
      BY <1>5 DEF ReaperDrop, session_vars, Typed
    <2>. QED  BY <2>1
  <1>6. CASE reaper' = reaper /\ live \subseteq live'
    BY <1>6
  <1>. QED
    BY <1>f, <1>2, <1>3, <1>4, <1>5, <1>6
    DEF Next, session_vars, CreateSession, ResetSession, ExtendSession, ExecuteAction,
        RequestStep, ReqDrop, ReqCreate, ReqSetRunning, ReqInitSql, ReqFinish, ClientGone, Expire,
        ShuttleRuns, ReaperStep, SweepStep, SweepSnapshot, SweepListShuttles, SweepPick, SweepDrop,
        SweepListConnections, SweepDropConnection

\* A job that is to make the shuttle still is, or has made it.
LEMMA BuildingStep ==
    ASSUME Typed, Shapes, Next, faults' = 0, api, NEW s \in Ids, building(s)
    PROVE  building(s)' \/ "shuttle" \in arts'[s]
  <1>0. PICK r \in Requests :
          /\ req[r].op \in {"create", "reset"} /\ req[r].id = s
          /\ \E i \in 1..Len(req[r].todo) : req[r].todo[i] = create_shuttle
    BY DEF building
  <1>1. PICK i \in 1..Len(req[r].todo) :
          /\ req[r].op \in {"create", "reset"} /\ req[r].id = s
          /\ req[r].todo[i] = create_shuttle
    BY <1>0
  <1>2. /\ req[r] # NoJob /\ req[r].todo \in Seq(Steps) /\ req[r].todo # << >>
        /\ Head(req[r].todo) = req[r].todo[1] /\ BuildShape(req[r].todo, scenario[s], api)
    BY <1>1, NoJobTyped, ReqJob DEF JobShape
  <1>3. create_shuttle.verb = "create" /\ create_shuttle.kind = "shuttle"
    BY DEF create_shuttle, Step
  <1>4. CASE req'[r] = req[r]
    BY <1>1, <1>4 DEF building
  <1>5. ~ReqFinish(r)
    <2>. SUFFICES ASSUME req[r].todo[1].verb = "finish" PROVE FALSE
      BY <1>2 DEF ReqFinish
    <2>1. 1 \in 1..Len(req[r].todo) /\ Len(req[r].todo) \in Nat
      BY <1>2
    <2>2. 1 = Len(req[r].todo)
      BY <1>2, <2>1 DEF BuildShape
    <2>3. i \in 1..1
      BY <2>2
    <2>4. i = 1
      BY <2>3
    <2>. QED  BY <1>1, <1>3, <2>4
  <1>6. ~ReqSetRunning(r)
    BY <1>1, <1>3, ReqRunningStep
  <1>7. CASE /\ ReqDrop(r) \/ ReqInitSql(r) \/ ReqCreate(r)
             /\ req'[r].op = req[r].op /\ req'[r].id = req[r].id /\ req'[r].todo = Tail(req[r].todo)
    <2>1. CASE i # 1
      BY <1>1, <1>7, <2>1, StillBuilding
    <2>2. CASE i = 1
      <3>1. ReqCreate(r)
        BY <1>1, <1>2, <1>3, <1>7, <2>2 DEF ReqDrop, ReqInitSql
      <3>2. PICK o \in Outcomes : Make(s, req[r].todo[1], o)
        BY <1>1, <3>1, ReqCreateStep
      <3>3. accepted(req[r].todo[1]) /\ req[r].todo[1].kind = "shuttle"
        BY <1>1, <1>3, <2>2, <3>1, ReqCreateStep
      <3>4. "shuttle" \in Kinds
        BY DEF Kinds
      <3>5. arts'[s] = arts[s] \cup {"shuttle"}
        BY <3>2, <3>3, <3>4, MakeEffect
      <3>. QED  BY <3>5
    <2>. QED  BY <2>1, <2>2
  <1>. QED  BY <1>1, <1>4, <1>5, <1>6, <1>7, BuildGoesOn

\* Where no request makes anything for a session that has no shuttle, and nothing
\* of it runs, it does not get more.
LEMMA NewArtifacts ==
    ASSUME Typed, Shapes, Owned, Next, faults' = 0, api, NEW s \in Ids \ live,
           arts[s] \cap {"shuttle", "second"} = {}, arts'[s] \cap {"shuttle", "second"} = {},
           ~building(s)', NEW x \in arts'[s], x \notin arts[s]
    PROVE  x \in exempt(s)'
  <1>1. OwnsRight(arts[s], scenario[s], api)
    BY DEF Owned
  <1>2. ~Fills(s)
    BY <1>1 DEF Fills, OwnsRight
  <1>3. ~Runs(s) /\ ~Loses(s)
    BY DEF Runs, Loses
  <1>4. Gains(s)
    BY <1>2, <1>3, ArtsStep
  <1>5. s \in meddled' /\ arts'[s] \subseteq arts[s] \cup {"topic", "files"}
    BY <1>2, <1>4, GainStep
  <1>. QED  BY <1>5 DEF exempt

LEMMA StrandedStep ==
    ASSUME Typed, Shapes, Owned, Stranded, [Next]_vars, Typed', Owned'
    PROVE  Stranded'
  <1>1. CASE UNCHANGED vars
    BY <1>1 DEF vars, Stranded, building, covered, exempt, jobs
  <1>2. CASE Next
    <2>. SUFFICES ASSUME api', faults' = 0, NEW s \in Ids \ live',
                         arts'[s] \cap {"shuttle", "second"} = {}, ~building(s)', s \notin reaper'.todo
                  PROVE  \A x \in arts'[s] \ exempt(s)' : covered(s, x)'
      BY DEF Stranded
    <2>0. api /\ faults = 0 /\ scenario' = scenario
      BY <1>2, Fixed, FaultsStep
    <2>1. ASSUME NEW d \in jobs', tearing(s, d), dropped_of(scenario[s]) \subseteq kinds_in(d.todo)
          PROVE  \A x \in arts'[s] \ exempt(s)' : covered(s, x)'
      BY <2>0, <2>1, FullCover
    <2>2. CASE arts[s] \cap {"shuttle", "second"} # {}
      <3>1. \E d \in jobs' : tearing(s, d) /\ dropped_of(scenario[s]) \subseteq kinds_in(d.todo)
        BY <1>2, <2>0, <2>2, LeadLost
      <3>. QED  BY <2>1, <3>1
    <2>3. CASE s \in live \/ s \in reaper.todo
      <3>1. \E d \in jobs' : tearing(s, d) /\ dropped_of(scenario[s]) \subseteq kinds_in(d.todo)
        BY <1>2, <2>0, <2>3, HandedOver
      <3>. QED  BY <2>1, <3>1
    <2>4. CASE building(s)
      BY <1>2, <2>0, <2>4, BuildingStep
    <2>5. CASE /\ arts[s] \cap {"shuttle", "second"} = {} /\ s \notin live
               /\ \A x \in arts[s] \ exempt(s) : covered(s, x)
      <3>. SUFFICES ASSUME NEW x \in arts'[s] \ exempt(s)' PROVE covered(s, x)'
        OBVIOUS
      <3>1. x \in arts[s]
        BY <1>2, <2>0, <2>5, NewArtifacts
      <3>2. x \notin exempt(s)
        BY <1>2, MeddledGrows DEF exempt
      <3>. QED  BY <1>2, <2>5, <3>1, <3>2, CoverStep
    <2>. QED  BY <2>0, <2>2, <2>3, <2>4, <2>5 DEF Stranded
  <1>. QED  BY <1>1, <1>2

\* What survives an orderly end, by kind.
LEMMA SurvivorsFacts ==
    ASSUME Typed, Owned, NEW s \in Ids
    PROVE  /\ {"shuttle", "running"} \cap survivors(s) = {}
           /\ "second" \in survivors(s) \/ "second_running" \in survivors(s) =>
                api /\ scenario[s] = "two_shuttles"
           /\ api /\ scenario[s] = "two_shuttles" =>
                {"second", "second_running", "namespace", "files"} \subseteq survivors(s)
           /\ api /\ scenario[s] = "kafka" => "topic" \in survivors(s)
           /\ ~api => arts[s] \subseteq survivors(s)
  <1>1. OwnsRight(arts[s], scenario[s], api)
    BY DEF Owned
  <1>2. CASE ~api
    <2>1. survivors(s) = {"schema", "publication", "topic", "files"}
      BY <1>2 DEF survivors
    <2>. QED  BY <1>1, <1>2, <2>1 DEF OwnsRight
  <1>3. CASE api /\ scenario[s] = "two_shuttles"
    <2>1. survivors(s) = {"second", "second_running", "namespace", "files"}
      BY <1>3 DEF survivors
    <2>. QED  BY <1>3, <2>1
  <1>4. CASE api /\ scenario[s] = "kafka"
    <2>1. survivors(s) = {"topic"}
      BY <1>4 DEF survivors
    <2>. QED  BY <1>4, <2>1
  <1>5. CASE api /\ scenario[s] \notin {"two_shuttles", "kafka"}
    <2>1. survivors(s) = {}
      BY <1>5 DEF survivors
    <2>. QED  BY <1>5, <2>1
  <1>. QED  BY <1>2, <1>3, <1>4, <1>5

\* What a whole teardown does not drop survives.
LEMMA WholeTeardown ==
    ASSUME Typed, Owned, api, NEW s \in Ids, NEW d,
           dropped_of(scenario[s]) \cup {"shuttle"} \subseteq kinds_in(d.todo)
    PROVE  arts[s] \subseteq survivors(s) \cup removes(d)
  <1>. SUFFICES ASSUME NEW x \in arts[s] PROVE x \in survivors(s) \cup removes(d)
    OBVIOUS
  <1>1. OwnsRight(arts[s], scenario[s], api) /\ scenario[s] \in AllScenarios
    BY DEF Owned, Typed
  <1>2. CASE x \in {"shuttle", "running"}
    BY <1>2 DEF removes
  <1>3. CASE x \in {"second", "second_running"}
    <2>1. "second" \in arts[s]
      BY <1>1, <1>3 DEF OwnsRight
    <2>2. "second" \in kinds_of(scenario[s])
      BY <1>1, <2>1 DEF OwnsRight
    <2>3. scenario[s] = "two_shuttles"
      BY <1>1, <2>2, KindsFacts
    <2>. QED  BY <1>3, <2>3, SurvivorsFacts
  <1>4. CASE x \notin {"shuttle", "running", "second", "second_running"}
    <2>1. x \in kinds_of(scenario[s])
      BY <1>1, <1>4 DEF OwnsRight
    <2>2. CASE x = "topic"
      <3>1. scenario[s] = "kafka"
        BY <1>1, <2>1, <2>2, KindsFacts
      <3>. QED  BY <2>2, <3>1, SurvivorsFacts
    <2>3. CASE x # "topic"
      BY <1>4, <2>1, <2>3 DEF dropped_of, removes
    <2>. QED  BY <2>2, <2>3
  <1>. QED  BY <1>2, <1>3, <1>4

\* What can still happen to a session that left the map and that no request makes
\* anything for.
LEMMA QuietStep ==
    ASSUME Typed, Shapes, Next, faults' = 0, NEW s \in Ids \ live, s \notin meddled'
    PROVE  \/ arts'[s] \subseteq arts[s]
           \/ \E k \in {"shuttle", "second"} : k \in arts[s] /\ arts'[s] = arts[s] \cup {running(k)}
           \/ Fills(s)
  <1>1. CASE Gains(s) /\ ~Fills(s)
    BY <1>1, GainStep
  <1>. QED  BY <1>1, ArtsStep DEF Loses, Runs

\* A running shuttle makes nothing that a teardown which is still to drop it does
\* not drop, and the second one nothing that does not survive.
LEMMA LeftRunning ==
    ASSUME Typed, Shapes, Owned, api, NEW s \in Ids,
           NEW R, arts[s] \subseteq survivors(s) \cup R,
           "shuttle" \in R => {"running"} \cup dropped_of(scenario[s]) \subseteq R,
           \/ arts'[s] \subseteq arts[s]
           \/ \E k \in {"shuttle", "second"} : k \in arts[s] /\ arts'[s] = arts[s] \cup {running(k)}
           \/ Fills(s)
    PROVE  arts'[s] \subseteq survivors(s) \cup R
  <1>1. OwnsRight(arts[s], scenario[s], api) /\ scenario[s] \in AllScenarios
    BY DEF Owned, Typed
  <1>2. "shuttle" \in arts[s] => "shuttle" \in R
    BY SurvivorsFacts
  <1>3. "second" \in arts[s] => scenario[s] = "two_shuttles"
    <2>1. "second" \in arts[s] => "second" \in kinds_of(scenario[s])
      BY <1>1 DEF OwnsRight
    <2>. QED  BY <1>1, <2>1, KindsFacts
  <1>4. CASE arts'[s] \subseteq arts[s]
    BY <1>4
  <1>5. ASSUME NEW k \in {"shuttle", "second"}, k \in arts[s], arts'[s] = arts[s] \cup {running(k)}
        PROVE  arts'[s] \subseteq survivors(s) \cup R
    <2>1. CASE k = "shuttle"
      BY <1>2, <1>5, <2>1 DEF running
    <2>2. CASE k = "second"
      <3>1. "second_running" \in survivors(s)
        BY <1>3, <1>5, <2>2, SurvivorsFacts
      <3>. QED  BY <1>5, <2>2, <3>1 DEF running
    <2>. QED  BY <2>1, <2>2
  <1>6. CASE Fills(s)
    <2>1. /\ arts[s] \cap {"running", "second_running"} # {}
          /\ arts'[s] = arts[s] \cup ({"namespace", "files", "slot"} \cap kinds_of(scenario[s]))
      BY <1>6 DEF Fills
    <2>2. CASE "shuttle" \in arts[s]
      <3>1. {"namespace", "files", "slot"} \cap kinds_of(scenario[s]) \subseteq R
        BY <1>2, <2>2 DEF dropped_of
      <3>. QED  BY <2>1, <3>1
    <2>3. CASE "shuttle" \notin arts[s]
      <3>1. "second" \in arts[s]
        BY <1>1, <2>1, <2>3 DEF OwnsRight
      <3>2. "slot" \notin kinds_of(scenario[s]) /\ {"namespace", "files"} \subseteq survivors(s)
        BY <1>1, <1>3, <3>1, KindsFacts, SurvivorsFacts
      <3>. QED  BY <2>1, <3>2
    <2>. QED  BY <2>2, <2>3
  <1>. QED  BY <1>4, <1>5, <1>6

LEMMA LeftStep ==
    ASSUME Typed, Shapes, Owned, Left, [Next]_vars, Typed', Owned'
    PROVE  Left'
  <1>1. CASE UNCHANGED vars
    BY <1>1 DEF vars, Left, survivors, jobs
  <1>2. CASE Next
    <2>. SUFFICES ASSUME faults' = 0, NEW s \in Ids \ (live' \cup meddled'), s \notin reaper'.todo
                  PROVE  \/ arts'[s] \subseteq survivors(s)
                         \/ \E j \in jobs' : /\ tearing(s, j) /\ j.op # "sweep"
                                             /\ arts'[s] \subseteq survivors(s) \cup removes(j)
      BY <1>2, Fixed DEF Left, survivors
    <2>0. faults = 0 /\ s \notin meddled
      BY <1>2, MeddledGrows, FaultsStep
    <2>1. CASE s \in live \/ s \in reaper.todo
      <3>1. /\ arts' = arts
            /\ api => \E d \in jobs' :
                        /\ tearing(s, d) /\ d.op # "sweep"
                        /\ dropped_of(scenario[s]) \cup {"shuttle"} \subseteq kinds_in(d.todo)
        BY <1>2, <2>1, HandedOver
      <3>2. CASE api
        BY <3>1, <3>2, WholeTeardown
      <3>3. CASE ~api
        BY <3>1, <3>3, SurvivorsFacts
      <3>. QED  BY <3>2, <3>3
    <2>2. CASE s \notin live \cup reaper.todo
      <3>1. \/ arts'[s] \subseteq arts[s]
            \/ \E k \in {"shuttle", "second"} : k \in arts[s] /\ arts'[s] = arts[s] \cup {running(k)}
            \/ Fills(s)
        BY <1>2, <2>2, QuietStep
      <3>2. CASE ~api
        <4>1. OwnsRight(arts'[s], scenario[s], api)
          BY <1>2, Fixed DEF Owned
        <4>2. survivors(s) = {"schema", "publication", "topic", "files"}
          BY <3>2 DEF survivors
        <4>. QED  BY <3>2, <4>1, <4>2 DEF OwnsRight
      <3>3. CASE api /\ arts[s] \subseteq survivors(s)
        <4>1. PICK R : R = {}
          OBVIOUS
        <4>2. arts'[s] \subseteq survivors(s) \cup R
          BY <3>1, <3>3, <4>1, LeftRunning
        <4>. QED  BY <4>1, <4>2
      <3>4. ASSUME api, NEW j \in jobs, tearing(s, j), j.op # "sweep",
                   arts[s] \subseteq survivors(s) \cup removes(j)
            PROVE  \/ arts'[s] \subseteq survivors(s)
                   \/ \E d \in jobs' : /\ tearing(s, d) /\ d.op # "sweep"
                                       /\ arts'[s] \subseteq survivors(s) \cup removes(d)
        <4>1. /\ j \in Jobs /\ WellFormed(j, Ops) /\ j.op \in {"end", "reap", "sweep"}
              /\ j # NoJob /\ j.id = s
              /\ \/ j \in jobs'
                 \/ /\ arts'[s] = arts[s] \ with_dependents(j.todo[1].kind)
                    /\ Continue(j, Tail(j.todo)) \in jobs'
          BY <1>2, <3>4, TornGoesOn DEF tearing
        <4>2. PICK d, k : d = Continue(j, Tail(j.todo)) /\ k = j.todo[1].kind
          OBVIOUS
        <4>3. /\ k # "second"
              /\ \/ d = NoJob /\ kinds_in(j.todo) = {k}
                 \/ /\ d # NoJob /\ d.op = j.op /\ d.id = j.id
                    /\ kinds_in(j.todo) = {k} \cup kinds_in(d.todo)
                    /\ kinds_in(d.todo) \cap {"shuttle", "second"} = {}
              /\ k = "shuttle" => d # NoJob /\ dropped_of(scenario[s]) \subseteq kinds_in(d.todo)
          BY <3>4, <4>1, <4>2, TeardownStep
        <4>4. CASE j \in jobs'
          <5>1. "shuttle" \in removes(j) => {"running"} \cup dropped_of(scenario[s]) \subseteq removes(j)
            BY <4>3 DEF removes
          <5>2. arts'[s] \subseteq survivors(s) \cup removes(j)
            BY <3>1, <3>4, <5>1, LeftRunning
          <5>. QED  BY <3>4, <4>4, <5>2
        <4>5. CASE arts'[s] = arts[s] \ with_dependents(k) /\ d \in jobs'
          <5>1. CASE d = NoJob
            BY <3>4, <4>3, <4>5, <5>1 DEF removes, with_dependents
          <5>2. CASE d # NoJob
            <6>1. arts'[s] \subseteq survivors(s) \cup removes(d)
              BY <3>4, <4>3, <4>5, <5>2 DEF removes, with_dependents, running
            <6>2. tearing(s, d) /\ d.op # "sweep"
              BY <3>4, <4>1, <4>3, <5>2 DEF tearing
            <6>. QED  BY <4>5, <6>1, <6>2
          <5>. QED  BY <5>1, <5>2
        <4>. QED  BY <4>1, <4>2, <4>4, <4>5
      <3>. QED  BY <2>0, <2>2, <3>2, <3>3, <3>4 DEF Left
    <2>. QED  BY <2>1, <2>2
  <1>. QED  BY <1>1, <1>2

-----------------------------------------------------------------------------
(* Theorems                                                                 *)

LEMMA InvInit == Init => Inv
  <1>. SUFFICES ASSUME Init PROVE Inv
    OBVIOUS
  <1>1. /\ load \in Workloads /\ api \in BOOLEAN /\ live = {} /\ lapsed = {} /\ meddled = {}
        /\ scenario \in [Ids -> load.scenarios] /\ faults = 0
        /\ status = [s \in Ids |-> "none"] /\ arts = [s \in Ids |-> {}]
        /\ req = [r \in Requests |-> NoJob] /\ reaper = IdleReaper /\ sweep = BootSweep
    BY DEF Init
  <1>2. load.scenarios \subseteq AllScenarios
    BY <1>1, LifecycleAssumption
  <1>3. reaper.todo = {} /\ reaper.job = NoJob /\ reaper \in [todo : SUBSET Ids, job : Jobs]
    BY <1>1, NoJobTyped DEF IdleReaper
  <1>4. req \in [Requests -> Jobs] /\ \A r \in Requests : req[r] = NoJob
    BY <1>1, NoJobTyped
  <1>5. \A s \in Ids : arts[s] = {} /\ status[s] = "none"
    BY <1>1
  <1>6. Typed
    <2>1. status \in [Ids -> Statuses]
      BY <1>1 DEF Statuses
    <2>2. arts \in [Ids -> SUBSET Kinds]
      BY <1>1
    <2>3. scenario \in [Ids -> AllScenarios]
      BY <1>1, <1>2
    <2>4. sweep \in SweepStates
      BY <1>1, OverFits
    <2>. QED  BY <1>1, <1>3, <1>4, <2>1, <2>2, <2>3, <2>4 DEF Typed
  <1>7. Shapes
    BY <1>1, <1>3, <1>4, OverFits DEF Shapes, WellFormed
  <1>8. Owned
    BY <1>5 DEF Owned, OwnsRight
  <1>9. Ended
    <2>1. NoJob.id = NoId /\ NoJob.op = "idle"
      BY NoJobTyped
    <2>. QED  BY <1>1, <1>3, <1>4, <2>1 DEF Ended, TeardownOnlyEnded
  <1>10. ResettingMeansReset
    BY <1>1 DEF ResettingMeansReset
  <1>11. Sweeping
    BY <1>1, OverFits DEF Sweeping
  <1>12. Stranded /\ Left
    BY <1>5 DEF Stranded, Left
  <1>. QED  BY <1>6, <1>7, <1>8, <1>9, <1>10, <1>11, <1>12 DEF Inv

LEMMA InvStep == Inv /\ [Next]_vars => Inv'
  <1>. SUFFICES ASSUME Inv, [Next]_vars PROVE Inv'
    OBVIOUS
  <1>1. Typed /\ Shapes /\ Owned /\ Ended /\ ResettingMeansReset /\ Sweeping /\ Stranded /\ Left
    BY DEF Inv
  <1>2. Typed' /\ Shapes'
    BY <1>1, TypeShapeStep
  <1>3. Owned'
    BY <1>1, OwnedStep
  <1>4. Ended'
    BY <1>1, <1>2, EndedStep
  <1>5. ResettingMeansReset'
    BY <1>1, <1>2, ResetStep
  <1>6. Sweeping'
    BY <1>1, <1>2, SweepingStep
  <1>7. Stranded' /\ Left'
    BY <1>1, <1>2, <1>3, StrandedStep, LeftStep
  <1>. QED  BY <1>2, <1>3, <1>4, <1>5, <1>6, <1>7 DEF Inv

\* The inductive invariant: what each job still has to do, what a session may own,
\* who may work for whom, and what is known of the sessions that left the map.
THEOREM LifecycleInductive == Spec => []Inv
  BY InvInit, InvStep, PTL DEF Spec

\* end_session and the reaper work only on sessions that have left the map, for any
\* interleaving of requests, ticks, lost clients and restarts.
THEOREM TeardownAfterEnd == Spec => []TeardownOnlyEnded
  <1>1. Inv => TeardownOnlyEnded
    BY DEF Inv, Ended
  <1>. QED  BY <1>1, LifecycleInductive, PTL

\* A session whose status says that it is being reset has a reset working for it,
\* as long as nothing failed.
THEOREM ResetsAreReal == Spec => []ResettingMeansReset
  <1>1. Inv => ResettingMeansReset
    BY DEF Inv
  <1>. QED  BY <1>1, LifecycleInductive, PTL

\* A boot sweep all of whose calls succeeded leaves no shuttle and no connection of
\* the sessions that were orphans when it started.
THEOREM SweepReaps == Spec => []BootSweepReaps
  <1>1. Inv => BootSweepReaps
    BY DEF Inv, Sweeping, BootSweepReaps
  <1>. QED  BY <1>1, LifecycleInductive, PTL

\* When nothing failed, what is left of a session nobody works for is led to by a
\* shuttle, which the next boot's sweep lists.
THEOREM StrandedIsFound == Spec => []StrandedIsSweepable
  <1>1. Inv => StrandedIsSweepable
    <2>. SUFFICES ASSUME Inv, api, faults = 0, NEW s \in Ids \ live, unattended(s)
                  PROVE  \/ arts[s] \subseteq {"topic"} \cup (IF s \in meddled THEN {"files"} ELSE {})
                         \/ arts[s] \cap {"shuttle", "second"} # {}
      BY DEF StrandedIsSweepable
    <2>1. \/ arts[s] \cap {"shuttle", "second"} # {} \/ building(s) \/ s \in reaper.todo
          \/ \A x \in arts[s] \ exempt(s) : covered(s, x)
      BY DEF Inv, Stranded
    <2>2. (\A j \in jobs : j.id # s) /\ s \notin reaper.todo
      BY DEF unattended
    <2>3. ~building(s)
      BY <2>2 DEF building, jobs
    <2>4. \A x : ~covered(s, x)
      BY <2>2 DEF covered, tearing
    <2>. QED  BY <2>1, <2>2, <2>3, <2>4 DEF exempt
  <1>. QED  BY <1>1, LifecycleInductive, PTL

\* When nothing failed and no request went on making things for it, a session that
\* was ended or reaped leaves behind only the kinds no teardown drops.
THEOREM EndIsOrderly == Spec => []EndLeavesSurvivors
  <1>1. Inv => EndLeavesSurvivors
    <2>. SUFFICES ASSUME Inv, faults = 0, NEW s \in Ids \ (live \cup meddled), unattended(s)
                  PROVE  arts[s] \subseteq survivors(s)
      BY DEF EndLeavesSurvivors
    <2>1. (\A j \in jobs : j.id # s) /\ s \notin reaper.todo
      BY DEF unattended
    <2>. QED  BY <2>1 DEF Inv, Left, tearing
  <1>. QED  BY <1>1, LifecycleInductive, PTL

=============================================================================
