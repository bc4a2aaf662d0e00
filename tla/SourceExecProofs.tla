-------------------------- MODULE SourceExecProofs --------------------------
(***************************************************************************)
(* Proofs about the source dispatcher, for any number of requests and any  *)
(* length of scripts, pool size and kind of source: scripts apply in       *)
(* order, a teardown misses nothing that was there, and the tables a       *)
(* script creates without naming a schema do not end up in two places.     *)
(***************************************************************************)
EXTENDS SourceExec, TLAPS

Effects == {"own", "outside"} \X Items

JobSet == [kind : Kinds \cup {"none"}, pc : {"new", "init", "acquire", "run", "done"},
           phase : {"none", "provision", "script", "teardown"}, at : 1 .. Len + 1,
           plain : SUBSET (1 .. Len), pending : SUBSET Effects]

Typed ==
    /\ service \in Services /\ exists \in BOOLEAN
    /\ own \subseteq Items /\ outside \subseteq Items /\ late \subseteq Items
    /\ job \in [Execs -> JobSet]
    /\ dropped \in BOOLEAN /\ torn \in BOOLEAN

\* Which step a request is at says how far its script or its scan has come: only
\* a running one is past its first statement or page, and only a script in a
\* transaction has effects to commit, all of them its own.
Shape ==
    \A e \in Execs :
        /\ job[e].pc = "new" => job[e] = NewJob
        /\ job[e].phase = "teardown" => job[e].kind = "end"
        /\ job[e].phase # "script" => \A k \in 1 .. Len : <<e, k>> \notin outside
        /\ job[e].pc \in {"new", "init", "acquire"} => job[e].at = 1
        /\ At(e, "run", "provision") => job[e].at = 1
        /\ At(e, "run", "teardown") => job[e].at <= Len
        /\ At(e, "run", "script") /\ ~transactional => job[e].at <= Len
        /\ job[e].pending # {} => At(e, "run", "script") /\ transactional
        /\ job[e].pending \subseteq {"own", "outside"} \X ({e} \X (1 .. Len))

\* Exactly the first n statements of e have had their effect.
AppliedUpTo(e, n) == \A k \in 1 .. Len : <<e, k>> \in own \cup outside <=> k <= n

\* Exactly the first n statements of e have an effect that is to be committed.
PendingUpTo(e, n) ==
    \A k \in 1 .. Len :
        (<<"own", <<e, k>>>> \in job[e].pending \/ <<"outside", <<e, k>>>> \in job[e].pending)
            <=> k <= n

\* What a request has done so far, by the step it is at.
Progress ==
    \A e \in Execs :
        /\ At(e, "run", "script") /\ transactional => PendingUpTo(e, job[e].at - 1)
        /\ ~dropped /\ job[e].pc # "done" =>
             AppliedUpTo(e, IF At(e, "run", "script") /\ ~transactional
                            THEN job[e].at - 1 ELSE 0)
        /\ ~dropped /\ job[e].pc = "done" =>
             \E n \in 0 .. Len : AppliedUpTo(e, n) /\ (transactional => n \in {0, Len})

\* What the scan of a teardown has passed holds nothing but what came late.
Scanned ==
    \A e \in Execs : At(e, "run", "teardown") =>
        \A i \in own : i[2] < job[e].at => i \in late

\* The first plain statement of the script of e.
First(e, j) == j \in job[e].plain /\ \A i \in job[e].plain : j <= i

\* What a transaction wrote to the schema keeps the schema there.  Therefore plain
\* statements that went to public, committed or not, began with the first one; and
\* a schema that was made for an init script is there until it is dropped.
Inside ==
    \A e \in Execs :
        /\ \A k \in 1 .. Len : <<"own", <<e, k>>>> \in job[e].pending => exists
        /\ \A k \in job[e].plain : <<"outside", <<e, k>>>> \in job[e].pending =>
             \E j \in job[e].plain : First(e, j) /\ <<"outside", <<e, j>>>> \in job[e].pending
        /\ \A k \in job[e].plain : <<e, k>> \in outside =>
             \E j \in job[e].plain : First(e, j) /\ <<e, j>> \in outside
        /\ job[e].kind = "create" /\ ~dropped =>
             /\ job[e].phase = "script" => exists \/ service = "redis"
             /\ \A k \in job[e].plain : /\ <<"outside", <<e, k>>>> \notin job[e].pending
                                        /\ <<e, k>> \notin outside

IndInv == Typed /\ Shape /\ Progress /\ Scanned /\ TeardownClears /\ Inside

-----------------------------------------------------------------------------
(* The kinds of step                                                        *)

LEMMA InitInv == Init => IndInv
  <1> SUFFICES ASSUME Init PROVE IndInv
    OBVIOUS
  <1> USE SourceAssumption DEF Init, NewJob
  <1>0. NewJob \in JobSet
    BY DEF JobSet, Kinds
  <1>1. Typed
    BY <1>0 DEF Typed
  <1>2. Shape
    BY DEF Shape, At
  <1>3. Progress
    BY DEF Progress, At, AppliedUpTo
  <1>4. QED
    BY <1>1, <1>2, <1>3 DEF IndInv, Scanned, TeardownClears, Inside, At

\* Whatever ends a request, what it did so far stays as it is.
LEMMA EndedInv ==
    ASSUME IndInv, NEW e \in Execs, job[e].pc # "done", job' = Ended(e),
           exists' \in BOOLEAN, exists => exists',
           UNCHANGED <<service, own, outside, dropped, torn, late>>
    PROVE  IndInv'
  <1> USE SourceAssumption DEF IndInv, Ended
  <1>0. [job[e] EXCEPT !.pc = "done", !.pending = {}] \in JobSet
    <2>1. job[e] \in JobSet
      BY DEF Typed
    <2>2. QED
      BY <2>1 DEF JobSet
  <1>1. Typed'
    BY <1>0 DEF Typed
  <1>2. \A o \in Execs : /\ o # e => job'[o] = job[o]
                         /\ job'[o].kind = job[o].kind /\ job'[o].phase = job[o].phase
                         /\ job'[o].plain = job[o].plain
    BY DEF Typed, JobSet
  <1>3. job'[e].pc = "done" /\ job'[e].pending = {}
    BY DEF Typed, JobSet
  <1>4. Shape'
    BY <1>2, <1>3 DEF Typed, Shape, At, transactional
  <1>5. Progress'
    <2> SUFFICES ASSUME NEW o \in Execs
                 PROVE  Progress!(o)'
      BY DEF Progress
    <2>1. CASE o # e
      BY <2>1, <1>2 DEF Progress, At, AppliedUpTo, PendingUpTo, transactional
    <2>2. CASE o = e
      <3>1. PICK n \in 0 .. Len : ~dropped => AppliedUpTo(e, n) /\ (transactional => n = 0)
        <4>1. CASE At(e, "run", "script") /\ ~transactional
          <5>1. job[e].at - 1 \in 0 .. Len
            BY <4>1 DEF Typed, JobSet
          <5>2. QED
            BY <4>1, <5>1 DEF Progress
        <4>2. CASE ~(At(e, "run", "script") /\ ~transactional)
          BY <4>2, 0 \in 0 .. Len DEF Progress
        <4>3. QED
          BY <4>1, <4>2
      <3>2. QED
        BY <2>2, <3>1, <1>3 DEF AppliedUpTo, At, transactional
    <2>3. QED
      BY <2>1, <2>2
  <1>6. Scanned'
    BY <1>2, <1>3 DEF Scanned, At
  <1>7. TeardownClears'
    BY DEF TeardownClears
  <1>8. Inside'
    <2> HIDE DEF IndInv, Ended
    <2> SUFFICES ASSUME NEW o \in Execs
                 PROVE  Inside!(o)'
      BY DEF Inside
    <2>1. \A j : First(o, j)' <=> First(o, j)
      BY <1>2 DEF First
    <2>2. CASE o # e
      BY <1>2, <2>1, <2>2 DEF IndInv, Inside
    <2>3. CASE o = e
      <3>1. \A x : x \notin job'[o].pending
        BY <1>3, <2>3
      <3>2. /\ \A k \in job[o].plain : <<o, k>> \in outside =>
                 \E j \in job[o].plain : First(o, j) /\ <<o, j>> \in outside
            /\ job[o].kind = "create" /\ ~dropped =>
                 /\ job[o].phase = "script" => exists \/ service = "redis"
                 /\ \A k \in job[o].plain : <<o, k>> \notin outside
        BY DEF IndInv, Inside
      <3>3. QED
        BY <1>2, <2>1, <3>1, <3>2
    <2>4. QED
      BY <2>2, <2>3
  <1>9. QED
    BY <1>1, <1>4, <1>5, <1>6, <1>7, <1>8

\* A request that is given its pool or its connection has done nothing yet.
LEMMA GotoInv ==
    ASSUME IndInv, NEW e \in Execs, job[e].pc \in {"init", "acquire"},
           NEW pc \in {"acquire", "run"}, job' = Goto(e, pc),
           UNCHANGED <<service, exists, own, outside, dropped, torn, late>>
    PROVE  IndInv'
  <1> USE SourceAssumption DEF IndInv, Goto
  <1>1. Typed'
    BY DEF Typed, JobSet
  <1>2. \A o \in Execs : /\ o # e => job'[o] = job[o]
                         /\ job'[o].kind = job[o].kind /\ job'[o].phase = job[o].phase
                         /\ job'[o].at = job[o].at /\ job'[o].pending = job[o].pending
                         /\ job'[o].plain = job[o].plain
    BY DEF Typed, JobSet
  <1>3. job[e].at = 1 /\ job[e].pending = {} /\ job'[e].pc = pc
    BY DEF Typed, JobSet, Shape, At
  <1>4. Shape'
    BY <1>2, <1>3 DEF Shape, At, transactional
  <1>5. Progress'
    BY <1>2, <1>3 DEF Progress, At, AppliedUpTo, PendingUpTo, transactional
  <1>6. Scanned'
    BY <1>2, <1>3 DEF Scanned, At, Typed, Items
  <1>7. TeardownClears'
    BY DEF TeardownClears
  <1>8. Inside'
    <2>1. \A o \in Execs : \A j : First(o, j)' <=> First(o, j)
      BY <1>2 DEF First
    <2>2. \A o \in Execs : job'[o].pending \subseteq job[o].pending
      BY <1>2, <1>3
    <2>3. \A o \in Execs : o # e => Inside!(o)'
      BY <1>2, <2>1 DEF Inside
    <2>4. Inside!(e)'
      BY <1>2, <1>3, <2>1, <2>2 DEF Inside
    <2>5. QED
      BY <2>3, <2>4 DEF Inside
  <1>9. QED
    BY <1>1, <1>4, <1>5, <1>6, <1>7, <1>8

LEMMA SubmitInv ==
    ASSUME IndInv, NEW e \in Execs, NEW kind \in Kinds, NEW plain \in SUBSET (1 .. Len),
           Submit(e, kind, plain)
    PROVE  IndInv'
  <1> USE SourceAssumption DEF IndInv, Submit
  <1> DEFINE j == [NewJob EXCEPT !.kind = kind, !.pc = "init", !.plain = plain,
                                 !.phase = first_phase(kind)]
  <1>1. first_phase(kind) \in {"provision", "script", "teardown"}
    BY DEF first_phase, Kinds
  <1>2. job' = [job EXCEPT ![e] = j]
    BY Zenon DEF Submit
  <1>3. /\ j \in JobSet
        /\ j.kind = kind /\ j.pc = "init" /\ j.phase = first_phase(kind) /\ j.at = 1 /\ j.pending = {}
        /\ j.plain = plain
    <2> HIDE DEF Submit, IndInv
    <2>1. j.kind = kind /\ j.plain = plain
      BY DEF NewJob
    <2>2. j.pc = "init" /\ j.at = 1 /\ j.pending = {}
      BY DEF NewJob
    <2>3. j.phase = first_phase(kind)
      BY DEF NewJob
    <2>4. j \in JobSet
      <3>1. j = [NewJob EXCEPT !.kind = kind, !.pc = "init", !.plain = plain,
                               !.phase = first_phase(kind)]
        OBVIOUS
      <3>2. kind \in Kinds \cup {"none"} /\ NewJob \in JobSet
        BY DEF NewJob, JobSet
      <3> HIDE DEF j
      <3>3. QED
        BY <1>1, <3>1, <3>2 DEF JobSet
    <2>5. QED
      BY <2>1, <2>2, <2>3, <2>4
  <1>4. Typed'
    BY <1>2, <1>3 DEF Typed
  <1> HIDE DEF j
  <1>5. job'[e] = j /\ \A o \in Execs : o # e => job'[o] = job[o]
    BY <1>2 DEF Typed
  <1>6. job[e] = NewJob /\ \A k \in 1 .. Len : <<e, k>> \notin outside
    BY DEF Shape, NewJob
  <1>7. Shape'
    BY <1>3, <1>5, <1>6 DEF Shape, At, transactional, first_phase, Kinds, NewJob
  <1>8. Progress'
    BY <1>3, <1>5, <1>6 DEF Progress, Shape, At, AppliedUpTo, PendingUpTo, transactional
  <1>9. Scanned'
    BY <1>3, <1>5 DEF Scanned, At
  <1>10. TeardownClears'
    BY DEF TeardownClears
  <1>11. Inside'
    BY <1>3, <1>5, <1>6 DEF Inside, First, first_phase, NewJob
  <1>12. QED
    BY <1>4, <1>7, <1>8, <1>9, <1>10, <1>11

LEMMA GetPoolInv == ASSUME IndInv, NEW e \in Execs, GetPool(e) PROVE IndInv'
  <1>1. CASE job' = Goto(e, "acquire")
    BY <1>1, GotoInv DEF GetPool
  <1>2. CASE UNCHANGED job
    BY <1>2 DEF GetPool, IndInv, Typed, Shape, Progress, Scanned, TeardownClears, Inside,
       First, At, AppliedUpTo, PendingUpTo, transactional
  <1>3. QED
    BY <1>1, <1>2 DEF GetPool

\* Building, waiting for a connection, giving up.
LEMMA WaitInv ==
    ASSUME IndInv, NEW e \in Execs,
           Build(e) \/ Acquire(e) \/ AcquireTimeout(e) \/ ClientGone(e)
    PROVE  IndInv'
  <1>1. UNCHANGED <<service, exists, own, outside, dropped, torn, late>>
    BY DEF Build, Acquire, AcquireTimeout, ClientGone
  <1>2. \/ job[e].pc # "done" /\ job' = Ended(e)
        \/ job[e].pc \in {"init", "acquire"} /\ (job' = Goto(e, "acquire") \/ job' = Goto(e, "run"))
    BY DEF Build, Acquire, AcquireTimeout, ClientGone
  <1>3. exists \in BOOLEAN
    BY DEF IndInv, Typed
  <1>4. QED
    BY <1>1, <1>2, <1>3, EndedInv, GotoInv

\* CREATE SCHEMA: a request goes on to its script only if it is there.
LEMMA ProvisionInv == ASSUME IndInv, NEW e \in Execs, Provision(e) PROVE IndInv'
  <1> USE SourceAssumption DEF IndInv
  <1>1. PICK o \in Outcomes : exists' = (exists \/ o # "failed") /\ job' = after_provision(e, o)
    BY DEF Provision
  <1>2. exists' \in BOOLEAN /\ (exists => exists') /\ (o = "ok" => exists')
    BY <1>1 DEF Typed
  <1>3. CASE o = "ok"
    <2> DEFINE j == [job[e] EXCEPT !.pc = "init", !.phase = "script"]
    <2>1. j \in JobSet
      <3>1. job[e] \in JobSet
        BY DEF Typed
      <3>2. QED
        BY <3>1 DEF JobSet
    <2>2. job' = [job EXCEPT ![e] = j]
      BY <1>1, <1>3 DEF after_provision, Typed
    <2>3. Typed'
      BY <1>2, <2>1, <2>2 DEF Typed, Provision
    <2>4. /\ \A x \in Execs : x # e => job'[x] = job[x]
          /\ job'[e].kind = job[e].kind /\ job'[e].pc = "init" /\ job'[e].phase = "script"
          /\ job'[e].at = job[e].at /\ job'[e].pending = job[e].pending
          /\ job'[e].plain = job[e].plain
      BY <2>2 DEF Typed, JobSet
    <2>5. job[e].at = 1 /\ job[e].pending = {}
      BY DEF Provision, Shape, At
    <2>6. Shape'
      BY <2>4, <2>5 DEF Shape, At, transactional, Provision
    <2>7. Progress'
      BY <2>4, <2>5 DEF Progress, At, AppliedUpTo, PendingUpTo, transactional, Provision
    <2>8. Scanned'
      BY <2>4 DEF Scanned, At, Provision
    <2>9. TeardownClears'
      BY DEF TeardownClears, Provision
    <2>10. Inside'
      BY <1>2, <1>3, <2>4 DEF Inside, First, Provision
    <2>11. QED
      BY <2>3, <2>6, <2>7, <2>8, <2>9, <2>10
  <1>4. CASE o # "ok"
    <2>1. job' = Ended(e) /\ job[e].pc # "done"
      BY <1>1, <1>4 DEF after_provision, Provision, At
    <2>2. QED
      BY <1>2, <2>1, EndedInv DEF Provision
  <1>5. QED
    BY <1>3, <1>4

-----------------------------------------------------------------------------
(* Scripts                                                                  *)

\* What is applied comes on top of what is there, and counts as late if a teardown
\* has begun to delete.
LEMMA ApplyFacts ==
    ASSUME Typed, NEW effects \in SUBSET Effects, Apply(effects)
    PROVE  /\ \A i \in Items : i \in own' <=> i \in own \/ <<"own", i>> \in effects
           /\ \A i \in Items : i \in outside' <=> i \in outside \/ <<"outside", i>> \in effects
           /\ own' \subseteq Items /\ outside' \subseteq Items
           /\ late \subseteq late' /\ late' \subseteq Items
           /\ deleting => own' \ own \subseteq late'
           /\ effects = {} => UNCHANGED <<own, outside, late>>
  <1> DEFINE to(p) == {w[2] : w \in {x \in effects : x[1] = p}}
  <1>1. \A p \in {"own", "outside"} : \A i : i \in to(p) <=> i \in Items /\ <<p, i>> \in effects
    BY DEF Effects
  <1>2. own' = own \cup to("own") /\ outside' = outside \cup to("outside")
    BY DEF Apply
  <1>3. late' = IF deleting THEN late \cup (own' \ own) ELSE late
    BY DEF Apply
  <1> HIDE DEF to
  <1>4. own' \subseteq Items /\ outside' \subseteq Items
    BY <1>1, <1>2 DEF Typed
  <1>5. late \subseteq late' /\ late' \subseteq Items /\ (deleting => own' \ own \subseteq late')
    BY <1>3, <1>4 DEF Typed
  <1>6. ASSUME effects = {} PROVE UNCHANGED <<own, outside, late>>
    <2>1. to("own") = {} /\ to("outside") = {}
      BY <1>1, <1>6
    <2>2. own' = own /\ outside' = outside
      BY <1>2, <2>1
    <2>3. QED
      BY <2>2, <1>3
  <1>7. QED
    BY <1>1, <1>2, <1>4, <1>5, <1>6

\* A request that works on its script, in a transaction or not, disturbs neither a
\* scan that is under way nor what is known after one.
LEMMA ApplyScan ==
    ASSUME IndInv, NEW effects \in SUBSET Effects, Apply(effects), NEW e \in Execs,
           ~(job'[e].pc = "run" /\ job'[e].phase = "teardown"),
           \A o \in Execs : o # e => job'[o] = job[o], UNCHANGED torn
    PROVE  Scanned' /\ TeardownClears'
  <1> USE DEF IndInv
  <1>1. /\ own' \subseteq Items /\ late \subseteq late'
        /\ deleting => own' \ own \subseteq late'
    BY ApplyFacts
  <1>2. TeardownClears'
    BY <1>1 DEF TeardownClears, deleting
  <1>3. Scanned'
    <2> SUFFICES ASSUME NEW t \in Execs, At(t, "run", "teardown")', NEW i \in own',
                        i[2] < job'[t].at
                 PROVE  i \in late'
      BY DEF Scanned
    <2>1. At(t, "run", "teardown") /\ job'[t] = job[t]
      BY DEF At
    <2>2. job[t].at \in Nat /\ i[2] \in Nat /\ i[2] >= 1
      BY <1>1, SourceAssumption DEF Typed, JobSet, Items
    <2>3. deleting
      BY <2>1, <2>2 DEF deleting
    <2>4. QED
      BY <1>1, <2>1, <2>3 DEF Scanned
  <1>4. QED
    BY <1>2, <1>3

\* Where the statements of a script go.  A plain one goes to public when there is
\* no schema, or when one before it did.
LEMMA PlaceFacts ==
    ASSUME IndInv, NEW e \in Execs, NEW p \in places(e)
    PROVE  /\ p \in {"own", "outside", "refused"}
           /\ p = "own" => exists \/ service = "redis"
           /\ transactional => p # "refused"
           /\ job[e].at \in job[e].plain /\ p = "outside" =>
                \/ ~exists /\ transactional
                \/ \E k \in job[e].plain : <<"outside", <<e, k>>>> \in job[e].pending
  BY DEF IndInv, Typed, Services, places, session_place, elsewhere, transactional

\* A statement of a script in a transaction.
LEMMA PendingInv ==
    ASSUME IndInv, NEW e \in Execs, Statement(e), transactional PROVE IndInv'
  <1> USE SourceAssumption DEF IndInv
  <1>1. PICK o \in Outcomes, p \in places(e) :
          /\ Apply({})
          /\ job' = IF o = "ok"
                    THEN [job EXCEPT ![e].at = @ + 1,
                                     ![e].pending = @ \cup {<<p, <<e, job[e].at>>>>}]
                    ELSE Ended(e)
    <2>1. PICK o \in Outcomes, p \in places(e) :
            LET effect == IF o = "failed" \/ p = "refused" THEN {} ELSE {<<p, <<e, job[e].at>>>>}
                goes_on == o = "ok" /\ p # "refused"
            IN  /\ Apply(IF transactional THEN {} ELSE effect)
                /\ job' = IF goes_on /\ (transactional \/ job[e].at < Len)
                          THEN [job EXCEPT ![e].at = @ + 1,
                                           ![e].pending = IF transactional THEN @ \cup effect ELSE @]
                          ELSE Ended(e)
      BY DEF Statement
    <2>2. p # "refused"
      BY PlaceFacts
    <2>3. QED
      BY <2>1, <2>2
  <1>2. UNCHANGED <<service, exists, own, outside, dropped, torn, late>>
    <2>1. {} \in SUBSET Effects
      OBVIOUS
    <2>2. QED
      BY <1>1, <2>1, ApplyFacts DEF Statement
  <1>3. CASE o # "ok"
    BY <1>1, <1>2, <1>3, EndedInv DEF Statement, At, Typed
  <1>4. CASE o = "ok"
    <2> DEFINE w == <<p, <<e, job[e].at>>>>
               j == [job[e] EXCEPT !.at = job[e].at + 1, !.pending = job[e].pending \cup {w}]
    <2>1. /\ job[e].at \in 1 .. Len /\ job[e] \in JobSet
          /\ job[e].pc = "run" /\ job[e].phase = "script"
      BY DEF Statement, At, Typed, JobSet
    <2>2. /\ p \in {"own", "outside"} /\ (p = "own" => exists)
          /\ job[e].at \in job[e].plain /\ p = "outside" =>
               ~exists \/ \E k \in job[e].plain : <<"outside", <<e, k>>>> \in job[e].pending
      BY PlaceFacts DEF transactional
    <2>3. w \in Effects
      BY <2>1, <2>2 DEF Effects, Items
    <2>4. job' = [job EXCEPT ![e] = j]
      BY <1>1, <1>4 DEF Typed
    <2>5. w \in {"own", "outside"} \X ({e} \X (1 .. Len))
      BY <2>1, <2>2
    <2> HIDE DEF w
    <2>6. job[e].pending \cup {w} \in SUBSET Effects /\ job[e].at + 1 \in 1 .. Len + 1
      BY <2>1, <2>3 DEF JobSet
    <2>7. j \in JobSet
      BY <2>1, <2>6 DEF JobSet
    <2>8. Typed'
      BY <1>2, <2>4, <2>7 DEF Typed
    <2>9. /\ \A x \in Execs : x # e => job'[x] = job[x]
          /\ job'[e].kind = job[e].kind /\ job'[e].pc = "run" /\ job'[e].phase = "script"
          /\ job'[e].at = job[e].at + 1 /\ job'[e].pending = job[e].pending \cup {w}
          /\ job'[e].plain = job[e].plain
      BY <2>1, <2>4 DEF Typed, JobSet
    <2> HIDE DEF j, IndInv
    <2>10. IndInv
      OBVIOUS
    <2>11. Shape'
      BY <1>2, <2>1, <2>5, <2>9, <2>10 DEF IndInv, Shape, At, transactional
    <2>12. Progress'
      <3>1. PendingUpTo(e, job[e].at - 1)
        BY <2>1, <2>10 DEF IndInv, Progress, At
      <3>2. PendingUpTo(e, job[e].at - 1)'
        BY <2>1, <2>2, <2>9, <3>1 DEF PendingUpTo, w
      <3>3. QED
        BY <1>2, <2>1, <2>9, <2>10, <3>2
           DEF IndInv, Progress, PendingUpTo, AppliedUpTo, At, transactional
    <2>13. Scanned' /\ TeardownClears'
      BY <1>2, <2>9, <2>10 DEF IndInv, Scanned, TeardownClears, At
    <2>14. Inside'
      <3>1. \A x \in Execs : x # e => Inside!(x)'
        BY <1>2, <2>9, <2>10 DEF IndInv, Inside, First
      <3>2. \A k \in 1 .. Len : <<"own", <<e, k>>>> \in job'[e].pending => exists
        BY <2>2, <2>9, <2>10 DEF IndInv, Inside, w
      <3>3. ASSUME NEW k \in job[e].plain, <<"outside", <<e, k>>>> \in job'[e].pending
            PROVE  \E j1 \in job[e].plain :
                     First(e, j1) /\ <<"outside", <<e, j1>>>> \in job'[e].pending
        <4>1. CASE \E i \in job[e].plain : <<"outside", <<e, i>>>> \in job[e].pending
          BY <2>9, <2>10, <4>1 DEF IndInv, Inside
        <4>2. CASE ~\E i \in job[e].plain : <<"outside", <<e, i>>>> \in job[e].pending
          <5>1. k = job[e].at /\ p = "outside" /\ ~exists
            BY <2>2, <2>9, <3>3, <4>2 DEF w
          <5>2. PendingUpTo(e, job[e].at - 1)
            BY <2>1, <2>10 DEF IndInv, Progress, At
          <5>3. \A i \in job[e].plain : i \in 1 .. Len /\ i \in Nat
            BY <2>1 DEF JobSet
          <5>4. ASSUME NEW i \in job[e].plain PROVE ~(i < k)
            <6>1. <<"own", <<e, i>>>> \notin job[e].pending
              BY <2>10, <5>1, <5>3 DEF IndInv, Inside
            <6>2. <<"outside", <<e, i>>>> \notin job[e].pending
              BY <4>2
            <6>3. ~(i <= job[e].at - 1)
              BY <5>2, <5>3, <6>1, <6>2 DEF PendingUpTo
            <6>4. QED
              BY <2>1, <5>1, <5>3, <6>3
          <5>5. First(e, k)
            BY <5>3, <5>4 DEF First
          <5>6. QED
            BY <3>3, <5>5
        <4>3. QED
          BY <4>1, <4>2
      <3>4. job[e].kind = "create" /\ ~dropped =>
              \A k \in job[e].plain : <<"outside", <<e, k>>>> \notin job'[e].pending
        <4>1. service # "redis"
          BY DEF transactional
        <4>2. QED
          BY <2>1, <2>2, <2>9, <2>10, <4>1 DEF IndInv, Inside, w
      <3>5. \A j1 : First(e, j1)' <=> First(e, j1)
        BY <2>9 DEF First
      <3>6. /\ \A k \in job[e].plain : <<e, k>> \in outside =>
                 \E j1 \in job[e].plain : First(e, j1) /\ <<e, j1>> \in outside
            /\ job[e].kind = "create" /\ ~dropped =>
                 /\ job[e].phase = "script" => exists \/ service = "redis"
                 /\ \A k \in job[e].plain : <<e, k>> \notin outside
        BY <2>10 DEF IndInv, Inside
      <3>7. Inside!(e)'
        BY <1>2, <2>1, <2>9, <3>2, <3>3, <3>4, <3>5, <3>6
      <3>8. QED
        BY <3>1, <3>7 DEF Inside
    <2>15. QED
      BY <2>8, <2>11, <2>12, <2>13, <2>14 DEF IndInv
  <1>5. QED
    BY <1>3, <1>4

LEMMA OwnEffects ==
    ASSUME NEW e \in Execs PROVE {"own", "outside"} \X ({e} \X (1 .. Len)) \subseteq Effects
  <1>1. {e} \X (1 .. Len) \subseteq Items
    BY DEF Items
  <1>2. QED
    BY <1>1 DEF Effects

\* What every step of a script that takes effect keeps, whether it is one statement
\* outside a transaction or a commit: the effects are those of one request, in its
\* script, and the plain ones among them that are outside begin with the first.
LEMMA EffectInv ==
    ASSUME IndInv, NEW e \in Execs, At(e, "run", "script"),
           NEW effects \in SUBSET ({"own", "outside"} \X ({e} \X (1 .. Len))), Apply(effects),
           \A k \in job[e].plain : <<"outside", <<e, k>>>> \in effects =>
               \E j \in job[e].plain : First(e, j) /\ <<"outside", <<e, j>>>> \in effects,
           job[e].kind = "create" /\ ~dropped =>
               \A k \in job[e].plain : <<"outside", <<e, k>>>> \notin effects,
           \A x \in Execs : x # e => job'[x] = job[x],
           job'[e].kind = job[e].kind, job'[e].phase = "script", job'[e].pending = {},
           job'[e].plain = job[e].plain,
           UNCHANGED <<service, exists, dropped, torn>>
    PROVE  /\ own' \subseteq Items /\ outside' \subseteq Items /\ late' \subseteq Items
           /\ \A x \in Execs \ {e} : Progress!(x)'
           /\ \A x \in Execs \ {e} : Shape!(x)'
           /\ Scanned' /\ TeardownClears' /\ Inside'
  <1>1. effects \in SUBSET Effects
    BY OwnEffects
  <1>2. /\ \A i \in Items : i \in own' <=> i \in own \/ <<"own", i>> \in effects
        /\ \A i \in Items : i \in outside' <=> i \in outside \/ <<"outside", i>> \in effects
        /\ own' \subseteq Items /\ outside' \subseteq Items /\ late' \subseteq Items
    BY <1>1, ApplyFacts DEF IndInv
  <1>3. \A x \in Execs \ {e} : \A k \in 1 .. Len :
          (<<x, k>> \in own' <=> <<x, k>> \in own) /\ (<<x, k>> \in outside' <=> <<x, k>> \in outside)
    <2> SUFFICES ASSUME NEW x \in Execs \ {e}, NEW k \in 1 .. Len
                 PROVE  /\ <<x, k>> \in own' <=> <<x, k>> \in own
                        /\ <<x, k>> \in outside' <=> <<x, k>> \in outside
      OBVIOUS
    <2>1. \A p : <<p, <<x, k>>>> \notin effects
      OBVIOUS
    <2>2. <<x, k>> \in Items
      BY DEF Items
    <2>3. QED
      BY <1>2, <2>1, <2>2
  <1>4. \A x \in Execs \ {e} : Progress!(x)'
    BY <1>3 DEF IndInv, Progress, AppliedUpTo, PendingUpTo, At, transactional
  <1>5. \A x \in Execs \ {e} : Shape!(x)'
    BY <1>3 DEF IndInv, Shape, At, transactional
  <1>6. Scanned' /\ TeardownClears'
    BY <1>1, ApplyScan
  <1>7. Inside'
    <2>1. \A x \in Execs : job[x].plain \subseteq 1 .. Len
      BY DEF IndInv, Typed, JobSet
    <2>2. \A x \in Execs : x # e => Inside!(x)'
      BY <1>3, <2>1 DEF IndInv, Inside, First
    <2>3. \A k \in job[e].plain :
            <<e, k>> \in outside' <=> <<e, k>> \in outside \/ <<"outside", <<e, k>>>> \in effects
      BY <1>2, <2>1 DEF Items
    <2>4. \A j : First(e, j)' <=> First(e, j)
      BY DEF First
    <2>5. ASSUME NEW k \in job[e].plain, <<e, k>> \in outside'
          PROVE  \E j \in job[e].plain : First(e, j) /\ <<e, j>> \in outside'
      BY <2>3, <2>5 DEF IndInv, Inside
    <2>6. job[e].kind = "create" /\ ~dropped =>
            /\ exists \/ service = "redis"
            /\ \A k \in job[e].plain : <<e, k>> \notin outside'
      BY <2>3 DEF IndInv, Inside, At
    <2>7. Inside!(e)'
      BY <2>4, <2>5, <2>6
    <2>8. QED
      BY <2>2, <2>7 DEF Inside
  <1>8. QED
    BY <1>2, <1>4, <1>5, <1>6, <1>7

\* A statement of a script that is not in a transaction.
LEMMA ImmediateInv ==
    ASSUME IndInv, NEW e \in Execs, Statement(e), ~transactional PROVE IndInv'
  <1> USE SourceAssumption
  <1>1. /\ job[e].at \in 1 .. Len /\ job[e] \in JobSet /\ At(e, "run", "script")
        /\ job[e].pc = "run" /\ job[e].phase = "script" /\ job[e].pending = {}
        /\ UNCHANGED <<service, exists, dropped, torn>>
        /\ AppliedUpTo(e, job[e].at - 1) \/ dropped
    BY SourceAssumption DEF Statement, At, IndInv, Typed, JobSet, Shape, Progress
  <1>2. PICK p \in places(e) :
        \/ Apply({}) /\ job' = Ended(e)
        \/ /\ p # "refused" /\ Apply({<<p, <<e, job[e].at>>>>})
           /\ \/ job' = Ended(e)
              \/ job[e].at < Len /\ job' = [job EXCEPT ![e].at = @ + 1, ![e].pending = @]
    <2>1. PICK o \in Outcomes, p \in places(e) :
            LET effect == IF o = "failed" \/ p = "refused" THEN {} ELSE {<<p, <<e, job[e].at>>>>}
                goes_on == o = "ok" /\ p # "refused"
            IN  /\ Apply(IF transactional THEN {} ELSE effect)
                /\ job' = IF goes_on /\ (transactional \/ job[e].at < Len)
                          THEN [job EXCEPT ![e].at = @ + 1,
                                           ![e].pending = IF transactional THEN @ \cup effect ELSE @]
                          ELSE Ended(e)
      BY DEF Statement
    <2>2. CASE o = "failed" \/ p = "refused"
      BY <2>1, <2>2
    <2>3. CASE ~(o = "failed" \/ p = "refused")
      BY <2>1, <2>3
    <2>4. QED
      BY <2>2, <2>3
  <1> DEFINE w == <<p, <<e, job[e].at>>>>
  <1>3. CASE Apply({}) /\ job' = Ended(e)
    <2>1. {} \in SUBSET Effects
      OBVIOUS
    <2>2. UNCHANGED <<own, outside, late>>
      BY <1>3, <2>1, ApplyFacts DEF IndInv
    <2>3. QED
      BY <1>1, <1>3, <2>2, EndedInv DEF IndInv, Typed
  <1>4. CASE /\ p # "refused" /\ Apply({w})
             /\ \/ job' = Ended(e)
                \/ job[e].at < Len /\ job' = [job EXCEPT ![e].at = @ + 1, ![e].pending = @]
    <2>1. p \in {"own", "outside"} /\ (p = "outside" => job[e].at \notin job[e].plain)
      BY <1>1, <1>4, PlaceFacts
    <2>2. {w} \in SUBSET ({"own", "outside"} \X ({e} \X (1 .. Len)))
      BY <1>1, <2>1
    <2>3. \A k \in job[e].plain : <<"outside", <<e, k>>>> \notin {w}
      BY <2>1
    <2>4. job' \in [Execs -> JobSet]
      <3>1. [job[e] EXCEPT !.pc = "done", !.pending = {}] \in JobSet
        BY <1>1 DEF JobSet
      <3>2. job[e].pending \in SUBSET Effects /\ job[e].at + 1 \in 1 .. Len + 1
        BY <1>1 DEF JobSet
      <3>3. [job[e] EXCEPT !.at = job[e].at + 1, !.pending = job[e].pending] \in JobSet
        BY <1>1, <3>2 DEF JobSet
      <3>4. QED
        BY <1>4, <3>1, <3>3 DEF IndInv, Typed, Ended
    <2>5. /\ \A x \in Execs : x # e => job'[x] = job[x]
          /\ job'[e].kind = job[e].kind /\ job'[e].phase = "script" /\ job'[e].pending = {}
          /\ job'[e].plain = job[e].plain
          /\ \/ job'[e].pc = "done"
             \/ job[e].at < Len /\ job'[e].pc = "run" /\ job'[e].at = job[e].at + 1
      BY <1>1, <1>4 DEF IndInv, Typed, JobSet, Ended
    <2>6. /\ own' \subseteq Items /\ outside' \subseteq Items /\ late' \subseteq Items
          /\ \A x \in Execs \ {e} : Progress!(x)'
          /\ \A x \in Execs \ {e} : Shape!(x)'
          /\ Scanned' /\ TeardownClears' /\ Inside'
      BY <1>1, <1>4, <2>2, <2>3, <2>5, EffectInv
    <2>7. Typed'
      BY <1>1, <2>4, <2>6 DEF IndInv, Typed
    <2>8. Shape'
      <3>1. Shape!(e)'
        BY <1>1, <2>5 DEF At, transactional
      <3>2. QED
        BY <2>6, <3>1 DEF Shape
    <2>9. \A n : n = job[e].at /\ ~dropped => AppliedUpTo(e, n)'
      <3>1. /\ \A i \in Items : i \in own' <=> i \in own \/ <<"own", i>> = w
            /\ \A i \in Items : i \in outside' <=> i \in outside \/ <<"outside", i>> = w
        <4>1. {w} \in SUBSET Effects
          BY <2>2, OwnEffects
        <4>2. QED
          BY <1>4, <4>1, ApplyFacts DEF IndInv
      <3>2. QED
        BY <1>1, <2>1, <3>1 DEF AppliedUpTo, Items
    <2>10. Progress'
      <3>1. CASE job'[e].pc = "done"
        <4>1. job[e].at \in 0 .. Len
          BY <1>1
        <4>2. Progress!(e)'
          BY <1>1, <2>9, <3>1, <4>1 DEF At, transactional
        <4>3. QED
          BY <2>6, <4>2 DEF Progress
      <3>2. CASE job'[e].pc = "run" /\ job'[e].at = job[e].at + 1
        <4>1. job'[e].at - 1 = job[e].at
          BY <1>1, <3>2
        <4>2. Progress!(e)'
          BY <1>1, <2>5, <2>9, <3>2, <4>1 DEF At, transactional, AppliedUpTo
        <4>3. QED
          BY <2>6, <4>2 DEF Progress
      <3>3. QED
        BY <2>5, <3>1, <3>2
    <2>11. QED
      BY <2>6, <2>7, <2>8, <2>10 DEF IndInv
  <1>5. QED
    BY <1>2, <1>3, <1>4

\* The end of a transaction.
LEMMA CommitInv == ASSUME IndInv, NEW e \in Execs, Commit(e) PROVE IndInv'
  <1> USE SourceAssumption
  <1>1. /\ job[e].at = Len + 1 /\ job[e] \in JobSet /\ At(e, "run", "script") /\ transactional
        /\ job[e].phase = "script" /\ job[e].pc = "run"
        /\ job[e].pending \in SUBSET ({"own", "outside"} \X ({e} \X (1 .. Len)))
        /\ job' = Ended(e) /\ UNCHANGED <<service, exists, dropped, torn>>
        /\ PendingUpTo(e, Len)
        /\ AppliedUpTo(e, 0) \/ dropped
    BY SourceAssumption DEF Commit, At, IndInv, Typed, JobSet, Shape, Progress
  <1>2. Apply({}) \/ Apply(job[e].pending)
    BY DEF Commit
  <1>3. CASE Apply({})
    <2>1. {} \in SUBSET Effects
      OBVIOUS
    <2>2. UNCHANGED <<own, outside, late>>
      BY <1>3, <2>1, ApplyFacts DEF IndInv
    <2>3. QED
      BY <1>1, <2>2, EndedInv DEF IndInv, Typed
  <1>4. CASE Apply(job[e].pending)
    <2>1. /\ \A k \in job[e].plain : <<"outside", <<e, k>>>> \in job[e].pending =>
               \E j \in job[e].plain : First(e, j) /\ <<"outside", <<e, j>>>> \in job[e].pending
          /\ job[e].kind = "create" /\ ~dropped =>
               \A k \in job[e].plain : <<"outside", <<e, k>>>> \notin job[e].pending
      BY DEF IndInv, Inside
    <2>2. job' \in [Execs -> JobSet]
      <3>1. [job[e] EXCEPT !.pc = "done", !.pending = {}] \in JobSet
        BY <1>1 DEF JobSet
      <3>2. QED
        BY <1>1, <3>1 DEF IndInv, Typed, Ended
    <2>3. /\ \A x \in Execs : x # e => job'[x] = job[x]
          /\ job'[e].kind = job[e].kind /\ job'[e].phase = "script" /\ job'[e].pending = {}
          /\ job'[e].pc = "done" /\ job'[e].plain = job[e].plain
      BY <1>1 DEF IndInv, Typed, JobSet, Ended
    <2>4. /\ own' \subseteq Items /\ outside' \subseteq Items /\ late' \subseteq Items
          /\ \A x \in Execs \ {e} : Progress!(x)'
          /\ \A x \in Execs \ {e} : Shape!(x)'
          /\ Scanned' /\ TeardownClears' /\ Inside'
      BY <1>1, <1>4, <2>1, <2>3, EffectInv
    <2>5. Typed'
      BY <1>1, <2>2, <2>4 DEF IndInv, Typed
    <2>6. Shape'
      <3>1. Shape!(e)'
        BY <1>1, <2>3 DEF At, transactional
      <3>2. QED
        BY <2>4, <3>1 DEF Shape
    <2>7. ~dropped => AppliedUpTo(e, Len)'
      <3>1. /\ \A i \in Items : i \in own' <=> i \in own \/ <<"own", i>> \in job[e].pending
            /\ \A i \in Items : i \in outside' <=> i \in outside \/ <<"outside", i>> \in job[e].pending
        <4>1. job[e].pending \in SUBSET Effects
          BY <1>1, OwnEffects
        <4>2. QED
          BY <1>4, <4>1, ApplyFacts DEF IndInv
      <3>2. \A k \in 1 .. Len : /\ <<e, k>> \in Items
                                /\ \/ <<"own", <<e, k>>>> \in job[e].pending
                                   \/ <<"outside", <<e, k>>>> \in job[e].pending
        BY <1>1 DEF PendingUpTo, Items
      <3>3. \A k \in 1 .. Len : <<e, k>> \in own' \/ <<e, k>> \in outside'
        BY <3>1, <3>2
      <3>4. \A k \in 1 .. Len : k <= Len
        OBVIOUS
      <3>5. QED
        BY <3>3, <3>4 DEF AppliedUpTo
    <2>8. Progress'
      <3>1. Len \in 0 .. Len
        OBVIOUS
      <3>2. Progress!(e)'
        BY <1>1, <2>3, <2>7, <3>1 DEF At, transactional
      <3>3. QED
        BY <2>4, <3>2 DEF Progress
    <2>9. QED
      BY <2>4, <2>5, <2>6, <2>8 DEF IndInv
  <1>5. QED
    BY <1>2, <1>3, <1>4

-----------------------------------------------------------------------------
(* Teardown                                                                 *)

LEMMA TeardownInv == ASSUME IndInv, NEW e \in Execs, Teardown(e) PROVE IndInv'
  <1> USE SourceAssumption
  <1>1. /\ job[e] \in JobSet /\ job[e].pc = "run" /\ job[e].phase = "teardown" /\ job[e].kind = "end"
        /\ job' = Ended(e) /\ UNCHANGED <<service, outside, late>>
    BY DEF Teardown, At, IndInv, Typed, Shape
  <1>2. \/ UNCHANGED <<exists, own, dropped, torn>>
        \/ exists' = FALSE /\ own' = {} /\ dropped' = TRUE /\ torn' \in BOOLEAN
    BY DEF Teardown, IndInv, Typed
  <1>3. CASE UNCHANGED <<exists, own, dropped, torn>>
    BY <1>1, <1>3, EndedInv DEF IndInv, Typed
  <1>4. CASE exists' = FALSE /\ own' = {} /\ dropped' = TRUE /\ torn' \in BOOLEAN
    <2>1. [job[e] EXCEPT !.pc = "done", !.pending = {}] \in JobSet
      BY <1>1 DEF JobSet
    <2>2. Typed'
      BY <1>1, <1>4, <2>1 DEF IndInv, Typed, Ended
    <2>3. /\ \A x \in Execs : x # e => job'[x] = job[x]
          /\ job'[e].kind = "end" /\ job'[e].phase = "teardown" /\ job'[e].pending = {}
          /\ job'[e].pc = "done" /\ job'[e].plain = job[e].plain
      BY <1>1 DEF IndInv, Typed, JobSet, Ended
    <2>4. Shape'
      BY <1>1, <2>3 DEF IndInv, Shape, At, transactional
    <2>5. Progress'
      BY <1>1, <1>4, <2>3 DEF IndInv, Progress, PendingUpTo, At, transactional
    <2>6. Scanned' /\ TeardownClears'
      BY <1>4 DEF Scanned, TeardownClears
    <2>7. Inside'
      <3>1. \A x \in Execs : \A k \in 1 .. Len : <<"own", <<x, k>>>> \notin job[x].pending
        BY DEF Teardown, locked, Items
      <3>2. \A x \in Execs : job'[x].plain = job[x].plain
        BY <2>3
      <3>3. QED
        BY <1>1, <1>4, <2>3, <3>1, <3>2 DEF IndInv, Inside, First
    <2>8. QED
      BY <2>2, <2>4, <2>5, <2>6, <2>7 DEF IndInv
  <1>5. QED
    BY <1>2, <1>3, <1>4

LEMMA ScanPageInv == ASSUME IndInv, NEW e \in Execs, ScanPage(e) PROVE IndInv'
  <1> USE SourceAssumption
  <1>1. /\ job[e] \in JobSet /\ job[e].pc = "run" /\ job[e].phase = "teardown" /\ job[e].kind = "end"
        /\ job[e].at \in 1 .. Len /\ job[e].pending = {} /\ ~transactional
        /\ UNCHANGED <<service, exists, outside, late>>
        /\ exists \in BOOLEAN /\ own \subseteq Items /\ torn \in BOOLEAN /\ dropped \in BOOLEAN
    BY DEF ScanPage, At, IndInv, Typed, Shape, JobSet, transactional
  <1>2. PICK o \in Outcomes :
          /\ own' = IF o = "failed" THEN own ELSE own \ page(job[e].at)
          /\ torn' = (torn \/ (o = "ok" /\ last_page(job[e].at)))
          /\ dropped' = (dropped \/ o # "failed")
          /\ job' = IF o = "ok" /\ ~last_page(job[e].at)
                    THEN [job EXCEPT ![e].at = @ + 1] ELSE Ended(e)
    BY DEF ScanPage
  <1>3. CASE o = "failed"
    BY <1>1, <1>2, <1>3, EndedInv
  <1>4. CASE o # "failed"
    <2>1. dropped' = TRUE /\ torn' \in BOOLEAN
      BY <1>2, <1>4
    <2>2. \A i \in own' : i \in own /\ i \in Items /\ i[2] # job[e].at
      BY <1>1, <1>2, <1>4 DEF page, Items
    <2>3. job' \in [Execs -> JobSet]
      <3>1. [job[e] EXCEPT !.pc = "done", !.pending = {}] \in JobSet
        BY <1>1 DEF JobSet
      <3>2. job[e].at + 1 \in 1 .. Len + 1
        BY <1>1
      <3>3. [job[e] EXCEPT !.at = job[e].at + 1] \in JobSet
        BY <1>1, <3>2 DEF JobSet
      <3>4. QED
        BY <1>2, <3>1, <3>3 DEF IndInv, Typed, Ended
    <2>4. Typed'
      BY <1>1, <2>1, <2>2, <2>3 DEF IndInv, Typed
    <2>5. /\ \A x \in Execs : x # e => job'[x] = job[x]
          /\ job'[e].kind = "end" /\ job'[e].phase = "teardown" /\ job'[e].pending = {}
          /\ job'[e].plain = job[e].plain
          /\ \/ job'[e].pc = "done"
             \/ job'[e].pc = "run" /\ job[e].at < Len /\ job'[e].at = job[e].at + 1
      BY <1>1, <1>2 DEF IndInv, Typed, JobSet, Ended, last_page
    <2>6. Shape'
      BY <1>1, <2>5 DEF IndInv, Shape, At, transactional
    <2>7. Progress'
      BY <1>1, <2>1, <2>5 DEF IndInv, Progress, PendingUpTo, At, transactional
    <2>8. \A i \in own' : i[2] < job[e].at + 1 => i \in late
      <3>1. \A i \in own' : i[2] \in Nat
        BY <2>2 DEF Items
      <3>2. \A i \in own : i[2] < job[e].at => i \in late
        BY <1>1 DEF IndInv, Scanned, At
      <3>3. QED
        BY <1>1, <2>2, <3>1, <3>2
    <2>9. Scanned'
      BY <1>1, <2>2, <2>5, <2>8 DEF IndInv, Scanned, At
    <2>10. TeardownClears'
      <3>1. CASE torn
        BY <1>1, <2>2, <3>1 DEF IndInv, TeardownClears
      <3>2. CASE ~torn
        <4> SUFFICES ASSUME torn', NEW i \in own' PROVE i \in late'
          BY DEF TeardownClears
        <4>1. job[e].at = Len
          BY <1>2, <3>2 DEF last_page
        <4>2. i[2] \in 1 .. Len
          BY <2>2 DEF Items
        <4>3. QED
          BY <1>1, <2>8, <4>1, <4>2
      <3>3. QED
        BY <3>1, <3>2
    <2>11. Inside'
      BY <1>1, <2>1, <2>5 DEF IndInv, Inside, First
    <2>12. QED
      BY <2>4, <2>6, <2>7, <2>9, <2>10, <2>11 DEF IndInv
  <1>5. QED
    BY <1>3, <1>4

-----------------------------------------------------------------------------
LEMMA NextInv == IndInv /\ [Next]_vars => IndInv'
  <1> SUFFICES ASSUME IndInv, [Next]_vars PROVE IndInv'
    OBVIOUS
  <1>1. CASE UNCHANGED vars
    BY <1>1 DEF vars, IndInv, Typed, Shape, Progress, Scanned, TeardownClears, Inside,
       First, At, AppliedUpTo, PendingUpTo, transactional
  <1>2. ASSUME NEW e \in Execs, Step(e) PROVE IndInv'
    BY <1>2, GetPoolInv, WaitInv, ProvisionInv, PendingInv, ImmediateInv, CommitInv, TeardownInv,
       ScanPageInv DEF Step
  <1>3. ASSUME NEW e \in Execs, NEW kind \in {"create", "run"}, NEW plain \in Scripts,
               Submit(e, kind, plain)
        PROVE  IndInv'
    BY <1>3, SubmitInv, SourceAssumption DEF Kinds
  <1>4. ASSUME NEW e \in Execs, Submit(e, "end", {}) PROVE IndInv'
    BY <1>4, SubmitInv, {} \in SUBSET (1 .. Len) DEF Kinds
  <1>5. QED
    BY <1>1, <1>2, <1>3, <1>4, WaitInv DEF Next

\* The invariant the theorems below rest on holds in every reachable state.
THEOREM SourceInductive == Spec => []IndInv
  <1>1. Init => IndInv
    BY InitInv
  <1>2. IndInv /\ [Next]_vars => IndInv'
    BY NextInv
  <1>3. QED
    BY <1>1, <1>2, PTL DEF Spec

\* Whatever fails, times out or loses its client, and however many requests
\* overlap, a script leaves a prefix of its statements, and on postgres none or all.
THEOREM InOrder == Spec => []ScriptsApplyInOrder
  <1>1. IndInv => ScriptsApplyInOrder
    <2> SUFFICES ASSUME IndInv, ~dropped, NEW e \in Execs
                 PROVE  /\ \A k \in applied(e) : 1 .. k \subseteq applied(e)
                        /\ service = "postgres" => applied(e) \in {{}, 1 .. Len}
      BY DEF ScriptsApplyInOrder
    <2>1. PICK n \in 0 .. Len : AppliedUpTo(e, n) /\ (transactional => n \in {0, Len})
      <3>1. CASE job[e].pc = "done"
        BY <3>1 DEF IndInv, Progress
      <3>2. CASE job[e].pc # "done"
        <4>1. job[e].at - 1 \in 0 .. Len /\ 0 \in 0 .. Len
          BY SourceAssumption DEF IndInv, Typed, JobSet
        <4>2. QED
          BY <3>2, <4>1 DEF IndInv, Progress
      <3>3. QED
        BY <3>1, <3>2
    <2>2. applied(e) = 1 .. n
      BY <2>1, SourceAssumption DEF AppliedUpTo, applied
    <2>3. QED
      BY <2>1, <2>2, SourceAssumption DEF transactional
  <1>2. QED
    BY <1>1, SourceInductive, PTL

\* After a teardown that reported success nothing is left that was there when it
\* began to delete, for any number of pages, writers and overlapping teardowns.
THEOREM TeardownMissesNothing == Spec => []TeardownClears
  <1>1. IndInv => TeardownClears
    BY DEF IndInv
  <1>2. QED
    BY <1>1, SourceInductive, PTL

\* For any number of requests, statements and teardowns: the tables a script
\* creates without naming a schema go to public only from the first one on, and
\* those of an init script only once the schema was dropped.
THEOREM PlainNamesStay == Spec => []PlainNamesInside
  <1>1. IndInv => PlainNamesInside
    BY DEF IndInv, Inside, First, PlainNamesInside, public
  <1>2. QED
    BY <1>1, SourceInductive, PTL

=============================================================================
