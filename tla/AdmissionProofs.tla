--------------------------- MODULE AdmissionProofs ---------------------------
(***************************************************************************)
(* Proofs about the way to a session, for any requests, tenants, days and  *)
(* restarts: it charges the quota as the quota's specification says, and   *)
(* therefore the cap bounds the sessions themselves; and for any files the *)
(* manifest in force is sound, and the gate lets in what the gallery shows.*)
(***************************************************************************)
EXTENDS Admission, QuotaProofs, FiniteSetTheorems, WellFoundedInduction

\* Charges of this tenant and date whose session is not decided yet.
pending(t, d) ==
    {r \in Requests : ask[r].stage = "charged" /\ ask[r].tenant = t /\ ask[r].today = d}

\* Every session, and every one on the way, has a charge of its own.
Paid ==
    \A t \in Tenants, d \in Days : bought[t][d] + Cardinality(pending(t, d)) <= granted[t][d]

\* The request that is being charged is the one that asked.
SameTenant == \A r \in Requests : ask[r].stage = "stamped" => req[r].tenant = ask[r].tenant

AdmInv == IndInv /\ AdmTypeOK /\ SameTenant /\ Paid

-----------------------------------------------------------------------------
LEMMA IdleStage == Idle.stage = "idle"
  BY DEF Idle

\* What the stage of a request says about its other fields.
LEMMA AskFields ==
    ASSUME AdmTypeOK, NEW r \in Requests
    PROVE  /\ ask[r].stage = "idle" <=> ask[r] = Idle
           /\ ask[r].stage \in {"let in", "stamped"} => ask[r] \in LetIn
           /\ ask[r].stage = "charged" => ask[r] \in Charged
           /\ ask[r].stage \in {"let in", "stamped", "charged"} =>
                 /\ ask[r].tenant \in Tenants
                 /\ ask[r].user \in Users
                 /\ ask[r].ttl \in Ttls
  <1>1. ask[r] = Idle \/ ask[r] \in LetIn \/ ask[r] \in Charged
    BY DEF AdmTypeOK
  <1>2. CASE ask[r] = Idle
    BY <1>2 DEF Idle
  <1>3. CASE ask[r] \in LetIn
    <2>1. /\ ask[r].stage \in {"let in", "stamped"}
          /\ ask[r].tenant \in Tenants /\ ask[r].user \in Users /\ ask[r].ttl \in Ttls
      BY <1>3 DEF LetIn
    <2>2. ask[r] # Idle
      BY <2>1, IdleStage
    <2>3. QED
      BY <1>3, <2>1, <2>2
  <1>4. CASE ask[r] \in Charged
    <2>1. /\ ask[r].stage = "charged"
          /\ ask[r].tenant \in Tenants /\ ask[r].user \in Users /\ ask[r].ttl \in Ttls
      BY <1>4 DEF Charged
    <2>2. ask[r] # Idle
      BY <2>1, IdleStage
    <2>3. QED
      BY <1>4, <2>1, <2>2
  <1>5. QED
    BY <1>1, <1>2, <1>3, <1>4

\* Every step of the request path is a step of the quota or leaves it alone.
LEMMA QuotaStep ==
    ASSUME AdmTypeOK, [AdmNext]_admVars
    PROVE  [Next]_vars
  <1>1. ASSUME NEW r \in Requests, ReadDate(r)
        PROVE  Next
    <2>1. ask[r].tenant \in Tenants
      BY <1>1, AskFields DEF ReadDate
    <2>2. QED
      BY <1>1, <2>1 DEF ReadDate, Next
  <1>2. ASSUME NEW r \in Requests, Charge(r)
        PROVE  Next
    BY <1>2 DEF Charge, Next
  <1>3. ASSUME NEW r \in Requests, NEW q, NEW t, NEW ttl,
               Arrive(r, q, t, ttl) \/ Create(r) \/ Gone(r)
        PROVE  UNCHANGED vars
    BY <1>3 DEF Arrive, Create, Gone
  <1>4. ASSUME NEW u \in Users, SessionOver(u)
        PROVE  UNCHANGED vars
    BY <1>4 DEF SessionOver
  <1>5. CASE Midnight
    BY <1>5 DEF Midnight, Next
  <1>6. CASE StartAgain
    BY <1>6 DEF StartAgain, Next
  <1>7. CASE UNCHANGED admVars
    BY <1>7 DEF admVars
  <1>8. QED
    BY <1>1, <1>2, <1>3, <1>4, <1>5, <1>6, <1>7 DEF AdmNext

LEMMA PendingFinite ==
    ASSUME NEW t, NEW d
    PROVE  IsFiniteSet(pending(t, d)) /\ Cardinality(pending(t, d)) \in Nat
  <1>1. pending(t, d) \subseteq Requests
    BY DEF pending
  <1>2. QED
    BY <1>1, AdmissionAssumption, FS_Subset, FS_CardinalityType

LEMMA PendingFiniteNext ==
    ASSUME NEW t, NEW d
    PROVE  IsFiniteSet(pending(t, d)') /\ Cardinality(pending(t, d)') \in Nat
  <1>1. pending(t, d)' \subseteq Requests
    BY DEF pending
  <1>2. QED
    BY <1>1, AdmissionAssumption, FS_Subset, FS_CardinalityType

\* Paid is kept by a step that charges nobody, opens nothing and puts no request
\* among the charged.
LEMMA PaidKept ==
    ASSUME AdmInv, bought' = bought, granted' = granted,
           \A t \in Tenants, d \in Days : pending(t, d)' \subseteq pending(t, d)
    PROVE  Paid'
  <1>1. SUFFICES ASSUME NEW t \in Tenants, NEW d \in Days
                 PROVE  bought'[t][d] + Cardinality(pending(t, d)') <= granted'[t][d]
    BY DEF Paid, pending
  <1>2. Cardinality(pending(t, d)') <= Cardinality(pending(t, d))
    BY PendingFinite, FS_Subset
  <1>3. bought[t][d] \in Nat /\ granted[t][d] \in Nat
    BY DEF AdmInv, AdmTypeOK, TypeOK
  <1>4. bought[t][d] + Cardinality(pending(t, d)) <= granted[t][d]
    BY DEF AdmInv, Paid
  <1>5. QED
    BY <1>2, <1>3, <1>4, PendingFinite, PendingFiniteNext

-----------------------------------------------------------------------------
LEMMA AdmInitInv == AdmInit => AdmInv
  <1>1. SUFFICES ASSUME AdmInit PROVE AdmInv
    OBVIOUS
  <1>2. IndInv /\ TypeOK
    BY <1>1, InitInv DEF AdmInit, IndInv
  <1>3. AdmTypeOK /\ SameTenant
    BY <1>1, <1>2 DEF AdmInit, AdmTypeOK, SameTenant, Idle, Init
  <1>4. Paid
    <2>1. SUFFICES ASSUME NEW t \in Tenants, NEW d \in Days
                   PROVE  bought[t][d] + Cardinality(pending(t, d)) <= granted[t][d]
      BY DEF Paid
    <2>2. pending(t, d) = {}
      BY <1>1 DEF AdmInit, pending, Idle
    <2>3. QED
      BY <1>1, <2>2, FS_EmptySet DEF AdmInit, Init
  <1>5. QED
    BY <1>2, <1>3, <1>4 DEF AdmInv

LEMMA ArriveInv ==
    ASSUME AdmInv, NEW r \in Requests, NEW q \in Request, NEW t \in Tenants,
           NEW ttl \in Ttls, Arrive(r, q, t, ttl), IndInv'
    PROVE  AdmInv'
  <1>1. q.user \in Users
    <2>1. gate(q) = 0
      BY DEF Arrive
    <2>2. QED
      BY <2>1 DEF gate, is_exempt, Request, Probes, Paths
  <1>2. DEFINE a == [stage |-> "let in", user |-> q.user, tenant |-> t, ttl |-> ttl]
  <1>3. a \in LetIn /\ a.stage = "let in"
    BY <1>1 DEF LetIn
  <1>4. ask' = [ask EXCEPT ![r] = a]
    BY DEF Arrive
  <1> HIDE DEF a
  <1>5. AdmTypeOK'
    <2>1. TypeOK'
      BY DEF IndInv
    <2>2. ask' \in [Requests -> {Idle} \cup LetIn \cup Charged]
      BY <1>3, <1>4 DEF AdmInv, AdmTypeOK
    <2>3. req' = req /\ ask[r].stage = "idle" /\ a.stage # "stamped"
      BY <1>3, IdleStage DEF Arrive, vars
    <2>4. \A p \in Requests : ask'[p].stage = "stamped" <=> req'[p] # NoRequest
      BY <1>4, <2>3 DEF AdmInv, AdmTypeOK
    <2>5. QED
      BY <2>1, <2>2, <2>4 DEF AdmInv, AdmTypeOK, Arrive, LetIn, Charged, Idle, Days
  <1>6. SameTenant'
    BY <1>3, <1>4 DEF Arrive, AdmInv, SameTenant, AdmTypeOK, vars
  <1>7. Paid'
    BY <1>3, <1>4, PaidKept DEF Arrive, AdmInv, AdmTypeOK, pending, vars
  <1>8. QED
    BY <1>5, <1>6, <1>7 DEF AdmInv

LEMMA ReadDateInv ==
    ASSUME AdmInv, NEW r \in Requests, ReadDate(r), IndInv'
    PROVE  AdmInv'
  <1> DEFINE a == [ask[r] EXCEPT !.stage = "stamped"]
  <1>1. ask[r] \in LetIn /\ ask[r].stage = "let in" /\ ask[r].tenant \in Tenants
    BY AskFields DEF ReadDate, AdmInv
  <1>2. a \in LetIn /\ a.stage = "stamped" /\ a.tenant = ask[r].tenant
    BY <1>1 DEF LetIn
  <1>3. ask' = [ask EXCEPT ![r] = a]
    BY <1>1 DEF ReadDate, AdmInv, AdmTypeOK
  <1>4. req' = [req EXCEPT ![r] = [tenant |-> ask[r].tenant, today |-> day]]
    BY DEF ReadDate, Stamp
  <1> HIDE DEF a
  <1>5. AdmTypeOK'
    <2>1. TypeOK' /\ TypeOK
      BY DEF IndInv, AdmInv
    <2>2. ask' \in [Requests -> {Idle} \cup LetIn \cup Charged]
      BY <1>2, <1>3 DEF AdmInv, AdmTypeOK
    <2>3. [tenant |-> ask[r].tenant, today |-> day] # NoRequest
      <3>1. day \in Days
        BY <2>1 DEF TypeOK
      <3>2. [tenant |-> ask[r].tenant, today |-> day] \in [tenant : Tenants, today : Days]
        BY <1>1, <3>1
      <3>3. QED
        BY <3>2, NoRequestAssumption
    <2>4. \A p \in Requests : ask'[p].stage = "stamped" <=> req'[p] # NoRequest
      <3>1. ask'[r] = a /\ req'[r] # NoRequest
        BY <1>3, <1>4, <2>1, <2>3 DEF AdmInv, AdmTypeOK, TypeOK
      <3>2. \A p \in Requests : p # r => ask'[p] = ask[p] /\ req'[p] = req[p]
        BY <1>3, <1>4, <2>1 DEF AdmInv, AdmTypeOK, TypeOK
      <3>3. QED
        BY <1>2, <3>1, <3>2 DEF AdmInv, AdmTypeOK
    <2>5. QED
      BY <2>1, <2>2, <2>4 DEF AdmInv, AdmTypeOK, ReadDate, LetIn, Charged, Idle, Days
  <1>6. SameTenant'
    <2>1. req'[r].tenant = ask[r].tenant
      BY <1>4 DEF AdmInv, IndInv, TypeOK
    <2>2. \A p \in Requests : p # r => req'[p] = req[p] /\ ask'[p] = ask[p]
      BY <1>3, <1>4 DEF AdmInv, IndInv, TypeOK, AdmTypeOK
    <2>3. ask'[r] = a
      BY <1>3 DEF AdmInv, AdmTypeOK
    <2>4. QED
      BY <1>2, <2>1, <2>2, <2>3 DEF AdmInv, SameTenant
  <1>7. Paid'
    BY <1>2, <1>3, PaidKept DEF ReadDate, Stamp, AdmInv, AdmTypeOK, pending
  <1>8. QED
    BY <1>5, <1>6, <1>7 DEF AdmInv

\* A slot falls idle: what the request had paid for is forfeited.
LEMMA IdleInv ==
    ASSUME AdmInv, NEW r \in Requests, ask' = [ask EXCEPT ![r] = Idle],
           ask[r].stage = "charged", req' = req
    PROVE  /\ ask' \in [Requests -> {Idle} \cup LetIn \cup Charged]
           /\ \A p \in Requests : ask'[p].stage = "stamped" <=> req'[p] # NoRequest
           /\ SameTenant'
           /\ \A t \in Tenants, d \in Days : pending(t, d)' \subseteq pending(t, d)
  <1>1. ask' \in [Requests -> {Idle} \cup LetIn \cup Charged]
    BY DEF AdmInv, AdmTypeOK
  <1>2. ask'[r] = Idle /\ \A p \in Requests : p # r => ask'[p] = ask[p]
    BY DEF AdmInv, AdmTypeOK
  <1>3. \A p \in Requests : ask'[p].stage = "stamped" <=> req'[p] # NoRequest
    BY <1>2, IdleStage DEF AdmInv, AdmTypeOK
  <1>4. SameTenant'
    BY <1>2, IdleStage DEF AdmInv, SameTenant
  <1>5. \A t \in Tenants, d \in Days : pending(t, d)' \subseteq pending(t, d)
    BY <1>2, IdleStage DEF pending
  <1>6. QED
    BY <1>1, <1>3, <1>4, <1>5

LEMMA GoneInv ==
    ASSUME AdmInv, NEW r \in Requests, Gone(r), IndInv'
    PROVE  AdmInv'
  <1>1. /\ ask' \in [Requests -> {Idle} \cup LetIn \cup Charged]
        /\ \A p \in Requests : ask'[p].stage = "stamped" <=> req'[p] # NoRequest
        /\ SameTenant'
        /\ \A t \in Tenants, d \in Days : pending(t, d)' \subseteq pending(t, d)
    BY IdleInv DEF Gone, vars
  <1>2. Paid'
    BY <1>1, PaidKept DEF Gone, vars
  <1>3. AdmTypeOK'
    BY <1>1 DEF AdmInv, AdmTypeOK, IndInv, Gone, LetIn, Charged, Idle, Days
  <1>4. QED
    BY <1>1, <1>2, <1>3 DEF AdmInv

LEMMA CreateInv ==
    ASSUME AdmInv, NEW r \in Requests, Create(r), IndInv'
    PROVE  AdmInv'
  <1> DEFINE t == ask[r].tenant
             d == ask[r].today
  <1>1. /\ ask' \in [Requests -> {Idle} \cup LetIn \cup Charged]
        /\ \A p \in Requests : ask'[p].stage = "stamped" <=> req'[p] # NoRequest
        /\ SameTenant'
        /\ \A k \in Tenants, e \in Days : pending(k, e)' \subseteq pending(k, e)
    BY IdleInv DEF Create, vars
  <1>2. ask[r] \in Charged /\ t \in Tenants /\ ask[r].user \in Users
    BY AskFields DEF Create, AdmInv
  <1>3. d \in Days
    BY <1>2 DEF Charged
  <1>4. CASE create(ask[r]) # 201
    <2>1. bought' = bought /\ live' = live
      BY <1>4 DEF Create, open
    <2>2. Paid'
      BY <1>1, <2>1, PaidKept DEF Create, vars
    <2>3. AdmTypeOK'
      BY <1>1, <2>1 DEF AdmInv, AdmTypeOK, IndInv, Create, LetIn, Charged, Idle, Days
    <2>4. QED
      BY <1>1, <2>2, <2>3 DEF AdmInv
  <1>5. CASE create(ask[r]) = 201
    <2>1. bought' = [bought EXCEPT ![t][d] = @ + 1] /\ live' = live \cup {ask[r].user}
      BY <1>5 DEF Create, open
    <2>2. bought \in [Tenants -> [Days -> Nat]]
      BY DEF AdmInv, AdmTypeOK
    <2>3. /\ bought' \in [Tenants -> [Days -> Nat]]
          /\ bought'[t][d] = bought[t][d] + 1
          /\ \A k \in Tenants, e \in Days : <<k, e>> # <<t, d>> => bought'[k][e] = bought[k][e]
      BY <1>2, <1>3, <2>1, <2>2
    <2>4. AdmTypeOK'
      BY <1>1, <1>2, <2>1, <2>3 DEF AdmInv, AdmTypeOK, IndInv, Create, LetIn, Charged, Idle, Days
    <2>5. Paid'
      <3>1. SUFFICES ASSUME NEW k \in Tenants, NEW e \in Days
                     PROVE  bought'[k][e] + Cardinality(pending(k, e)') <= granted'[k][e]
        BY DEF Paid, pending
      <3>2. /\ granted' = granted /\ granted[k][e] \in Nat /\ bought[k][e] \in Nat
            /\ bought[k][e] + Cardinality(pending(k, e)) <= granted[k][e]
        BY DEF Create, vars, AdmInv, IndInv, TypeOK, AdmTypeOK, Paid
      <3>3. CASE k = t /\ e = d
        <4>1. r \in pending(k, e)
          BY <3>3 DEF pending, Create
        <4>2. r \notin pending(k, e)'
          <5>1. ask'[r] = Idle
            BY DEF Create, AdmInv, AdmTypeOK
          <5>2. QED
            BY <5>1, IdleStage DEF pending
        <4>3. pending(k, e)' \subseteq pending(k, e) \ {r}
          BY <1>1, <4>2
        <4>4. /\ IsFiniteSet(pending(k, e) \ {r})
              /\ Cardinality(pending(k, e) \ {r}) = Cardinality(pending(k, e)) - 1
          BY <4>1, PendingFinite, FS_RemoveElement
        <4>5. Cardinality(pending(k, e)') <= Cardinality(pending(k, e) \ {r})
          BY <4>3, <4>4, FS_Subset
        <4>6. QED
          BY <2>3, <3>2, <3>3, <4>4, <4>5, PendingFinite, PendingFiniteNext
      <3>4. CASE ~(k = t /\ e = d)
        <4>1. bought'[k][e] = bought[k][e]
          BY <2>3, <3>4
        <4>2. Cardinality(pending(k, e)') <= Cardinality(pending(k, e))
          BY <1>1, PendingFinite, FS_Subset
        <4>3. QED
          BY <3>2, <4>1, <4>2, PendingFinite, PendingFiniteNext
      <3>5. QED
        BY <3>3, <3>4
    <2>6. QED
      BY <1>1, <2>4, <2>5 DEF AdmInv
  <1>6. QED
    BY <1>4, <1>5

LEMMA ChargeInv ==
    ASSUME AdmInv, NEW r \in Requests, Charge(r), IndInv'
    PROVE  AdmInv'
  <1> DEFINE t == req[r].tenant
             d == req[r].today
             a == IF exhausted(count(t, d)) THEN Idle ELSE charged(r, d)
  <1>1. /\ ask[r].stage = "stamped" /\ ask[r].tenant = t /\ ask[r].tenant \in Tenants
        /\ ask[r].user \in Users /\ ask[r].ttl \in Ttls
    BY AskFields DEF Charge, AdmInv, SameTenant
  <1>2. t \in Tenants /\ d \in Days
    BY <1>1 DEF AdmInv, AdmTypeOK, IndInv, TypeOK
  <1>3. charged(r, d) \in Charged /\ charged(r, d).stage = "charged"
          /\ charged(r, d).tenant = t /\ charged(r, d).today = d
    BY <1>1, <1>2 DEF charged, Charged
  <1>4. ask' = [ask EXCEPT ![r] = a] /\ req' = [req EXCEPT ![r] = NoRequest]
    BY DEF Charge, Consume
  <1>5. /\ a \in {Idle} \cup LetIn \cup Charged
        /\ a.stage # "stamped"
    BY <1>3, IdleStage
  <1>6. /\ ask'[r] = a /\ req'[r] = NoRequest
        /\ \A p \in Requests : p # r => ask'[p] = ask[p] /\ req'[p] = req[p]
    BY <1>4 DEF AdmInv, IndInv, TypeOK, AdmTypeOK
  <1>7. ask' \in [Requests -> {Idle} \cup LetIn \cup Charged]
    BY <1>4, <1>5 DEF AdmInv, AdmTypeOK
  <1>8. started' \in [ok : Nat, denied : Nat]
    BY DEF Charge, tick, AdmInv, AdmTypeOK
  <1>9. \A p \in Requests : ask'[p].stage = "stamped" <=> req'[p] # NoRequest
    BY <1>5, <1>6 DEF AdmInv, AdmTypeOK
  <1>10. AdmTypeOK'
    BY <1>7, <1>8, <1>9 DEF AdmInv, AdmTypeOK, IndInv, Charge, LetIn, Charged, Idle, Days
  <1>11. SameTenant'
    BY <1>5, <1>6 DEF AdmInv, SameTenant
  <1>12. CASE exhausted(count(t, d))
    <2>1. granted' = granted /\ bought' = bought
      BY <1>12 DEF Charge, Consume
    <2>2. \A k \in Tenants, e \in Days : pending(k, e)' \subseteq pending(k, e)
      BY <1>6, <1>12, IdleStage DEF pending
    <2>3. QED
      BY <1>10, <1>11, <2>1, <2>2, PaidKept DEF AdmInv
  <1>13. CASE ~exhausted(count(t, d))
    <2>1. granted' = [granted EXCEPT ![t][d] = @ + 1] /\ bought' = bought
      BY <1>13 DEF Charge, Consume
    <2>2. granted \in [Tenants -> [Days -> Nat]] /\ bought \in [Tenants -> [Days -> Nat]]
      BY DEF AdmInv, IndInv, TypeOK, AdmTypeOK
    <2>3. /\ granted'[t][d] = granted[t][d] + 1
          /\ \A k \in Tenants, e \in Days : <<k, e>> # <<t, d>> => granted'[k][e] = granted[k][e]
      BY <1>2, <2>1, <2>2
    <2>4. ask'[r] = charged(r, d)
      BY <1>6, <1>13
    <2>5. Paid'
      <3>1. SUFFICES ASSUME NEW k \in Tenants, NEW e \in Days
                     PROVE  bought'[k][e] + Cardinality(pending(k, e)') <= granted'[k][e]
        BY DEF Paid, pending
      <3>2. /\ granted[k][e] \in Nat /\ bought[k][e] \in Nat
            /\ bought[k][e] + Cardinality(pending(k, e)) <= granted[k][e]
        BY <2>2 DEF AdmInv, Paid
      <3>3. CASE k = t /\ e = d
        <4>1. pending(k, e)' = pending(k, e) \cup {r} /\ r \notin pending(k, e)
          BY <1>1, <1>3, <1>6, <2>4, <3>3 DEF pending
        <4>2. Cardinality(pending(k, e)') = Cardinality(pending(k, e)) + 1
          BY <4>1, PendingFinite, FS_AddElement
        <4>3. QED
          BY <2>1, <2>3, <3>2, <3>3, <4>2, PendingFinite
      <3>4. CASE ~(k = t /\ e = d)
        <4>1. pending(k, e)' = pending(k, e)
          BY <1>1, <1>3, <1>6, <2>4, <3>4 DEF pending
        <4>2. QED
          BY <2>1, <2>3, <3>2, <3>4, <4>1, PendingFinite
      <3>5. QED
        BY <3>3, <3>4
    <2>6. QED
      BY <1>10, <1>11, <2>5 DEF AdmInv
  <1>14. QED
    BY <1>12, <1>13

LEMMA StartAgainInv ==
    ASSUME AdmInv, StartAgain, IndInv'
    PROVE  AdmInv'
  <1>1. /\ ask' = [r \in Requests |-> Idle] /\ req' = [r \in Requests |-> NoRequest]
        /\ granted' = granted /\ bought' = bought
    BY DEF StartAgain, Restart
  <1>2. AdmTypeOK'
    BY <1>1, IdleStage DEF StartAgain, AdmInv, AdmTypeOK, IndInv, LetIn, Charged, Idle, Days
  <1>3. SameTenant'
    BY <1>1, IdleStage DEF SameTenant
  <1>4. \A t \in Tenants, d \in Days : pending(t, d)' \subseteq pending(t, d)
    BY <1>1, IdleStage DEF pending
  <1>5. QED
    BY <1>1, <1>2, <1>3, <1>4, PaidKept DEF AdmInv

\* Steps that leave the requests, the charges and the sessions bought alone.
LEMMA AsideInv ==
    ASSUME AdmInv, IndInv', ask' = ask, req' = req, granted' = granted, bought' = bought,
           started' = started, live' \subseteq live
    PROVE  AdmInv'
  <1>1. AdmTypeOK' /\ SameTenant'
    BY DEF AdmInv, AdmTypeOK, IndInv, SameTenant, LetIn, Charged, Idle, Days
  <1>2. \A t \in Tenants, d \in Days : pending(t, d)' \subseteq pending(t, d)
    BY DEF pending
  <1>3. QED
    BY <1>1, <1>2, PaidKept DEF AdmInv

LEMMA AdmNextInv == AdmInv /\ [AdmNext]_admVars => AdmInv'
  <1>1. SUFFICES ASSUME AdmInv, [AdmNext]_admVars
                 PROVE  AdmInv'
    OBVIOUS
  <1>2. IndInv'
    <2>1. [Next]_vars
      BY <1>1, QuotaStep DEF AdmInv
    <2>2. QED
      BY <1>1, <2>1, NextInv DEF AdmInv
  <1>3. ASSUME NEW u \in Users, SessionOver(u)
        PROVE  AdmInv'
    BY <1>1, <1>2, <1>3, AsideInv DEF SessionOver, vars
  <1>4. CASE Midnight
    BY <1>1, <1>2, <1>4, AsideInv DEF Midnight, NextDay, own
  <1>5. CASE UNCHANGED admVars
    BY <1>1, <1>2, <1>5, AsideInv DEF admVars, vars, own
  <1>6. QED
    BY <1>1, <1>2, <1>3, <1>4, <1>5, ArriveInv, ReadDateInv, ChargeInv, CreateInv, GoneInv,
       StartAgainInv
    DEF AdmNext

-----------------------------------------------------------------------------
\* AdmInv holds in every reachable state.
THEOREM AdmInductive == AdmSpec => []AdmInv
  <1>1. AdmInit => AdmInv
    BY AdmInitInv
  <1>2. AdmInv /\ [AdmNext]_admVars => AdmInv'
    BY AdmNextInv
  <1>3. QED
    BY <1>1, <1>2, PTL DEF AdmSpec

\* create_session's types, and "stamped" exactly while try_consume runs.
THEOREM AdmTyped == AdmSpec => []AdmTypeOK
  <1>1. AdmInv => AdmTypeOK
    BY DEF AdmInv
  <1>2. QED
    BY <1>1, AdmInductive, PTL

\* The request path is an implementation of the quota's specification: no early
\* return, failed creation, lost client or restart changes the table otherwise.
THEOREM AdmissionRefinesQuota == AdmSpec => ChargesAsQuota
  <1>1. AdmInit => Init
    BY DEF AdmInit
  <1>2. AdmInv /\ [AdmNext]_admVars => [Next]_vars
    BY QuotaStep DEF AdmInv
  <1>3. QED
    BY <1>1, <1>2, AdmInductive, PTL DEF AdmSpec, Spec, ChargesAsQuota

\* The cap on charges is a cap on sessions: each one was paid for, so a date that
\* was not reopened gives no tenant more than max_per_day of them.
THEOREM SessionsCapped == AdmSpec => []SessionsWithinCap
  <1>1. AdmInv => SessionsWithinCap
    <2>1. SUFFICES ASSUME AdmInv, NEW t \in Tenants, NEW d \in Days
                   PROVE  /\ bought[t][d] <= granted[t][d]
                          /\ d \notin reopened => bought[t][d] <= max_per_day
      BY DEF SessionsWithinCap
    <2>2. /\ bought[t][d] \in Nat /\ granted[t][d] \in Nat
          /\ bought[t][d] + Cardinality(pending(t, d)) <= granted[t][d]
      BY <2>1 DEF AdmInv, AdmTypeOK, TypeOK, Paid
    <2>3. d \notin reopened => granted[t][d] <= max_per_day
      BY <2>1 DEF AdmInv, IndInv, CapUnlessReopened
    <2>4. QED
      BY <2>2, <2>3, PendingFinite, QuotaAssumption
  <1>2. QED
    BY <1>1, AdmInductive, PTL

-----------------------------------------------------------------------------
(* The counter of starts                                                    *)

CounterInv == StartedCountsCharges /\ (restarts = 0 => IsFiniteSet(let_through))

LEMMA LetThroughElements ==
    ASSUME NEW x
    PROVE  x \in let_through <=>
             \E t \in Tenants, d \in Days : \E n \in 1..granted[t][d] : x = <<t, d, n>>
  <1>. DEFINE those(t, d) == {<<t, d, n>> : n \in 1..granted[t][d]}
  <1>1. let_through = UNION {those(t, d) : t \in Tenants, d \in Days}
    BY DEF let_through
  <1>2. x \in let_through <=> \E t \in Tenants, d \in Days : x \in those(t, d)
    <2>. HIDE DEF those
    <2>. QED  BY <1>1
  <1>. QED  BY <1>2

LEMMA LetThroughElementsNext ==
    ASSUME NEW x
    PROVE  x \in let_through' <=>
             \E t \in Tenants, d \in Days : \E n \in 1..granted'[t][d] : x = <<t, d, n>>
  <1>. DEFINE those(t, d) == {<<t, d, n>> : n \in 1..granted'[t][d]}
  <1>1. let_through' = UNION {those(t, d) : t \in Tenants, d \in Days}
    BY DEF let_through, Days
  <1>2. x \in let_through' <=> \E t \in Tenants, d \in Days : x \in those(t, d)
    <2>. HIDE DEF those
    <2>. QED  BY <1>1
  <1>. QED  BY <1>2

\* A charge adds one creation to those let through.
LEMMA OneMoreLetThrough ==
    ASSUME NEW t \in Tenants, NEW d \in Days, granted \in [Tenants -> [Days -> Nat]],
           granted' = [granted EXCEPT ![t][d] = @ + 1]
    PROVE  /\ let_through' = let_through \cup {<<t, d, granted[t][d] + 1>>}
           /\ <<t, d, granted[t][d] + 1>> \notin let_through
  <1>1. PICK m \in Nat : m = granted[t][d]
    OBVIOUS
  <1>2. granted'[t][d] = m + 1
    BY <1>1
  <1>3. ASSUME NEW k \in Tenants, NEW e \in Days, <<k, e>> # <<t, d>>
        PROVE  granted'[k][e] = granted[k][e]
    BY <1>3
  <1>4. <<t, d, m + 1>> \notin let_through
    <2>1. SUFFICES ASSUME NEW k \in Tenants, NEW e \in Days, NEW n \in 1..granted[k][e],
                          <<t, d, m + 1>> = <<k, e, n>>
                   PROVE  FALSE
      BY LetThroughElements
    <2>. QED  BY <1>1, <2>1
  <1>5. <<t, d, m + 1>> \in let_through'
    <2>1. m + 1 \in 1..granted'[t][d]
      BY <1>2
    <2>. QED  BY <2>1, LetThroughElementsNext
  <1>6. ASSUME NEW x \in let_through
        PROVE  x \in let_through'
    <2>1. PICK k \in Tenants, e \in Days : \E n \in 1..granted[k][e] : x = <<k, e, n>>
      BY <1>6, LetThroughElements
    <2>2. PICK n \in 1..granted[k][e] : x = <<k, e, n>>
      BY <2>1
    <2>3. n \in 1..granted'[k][e]
      <3>1. CASE <<k, e>> = <<t, d>>
        BY <1>1, <1>2, <3>1
      <3>2. CASE <<k, e>> # <<t, d>>
        BY <1>3, <3>2
      <3>. QED  BY <3>1, <3>2
    <2>. QED  BY <2>2, <2>3, LetThroughElementsNext
  <1>7. ASSUME NEW x \in let_through'
        PROVE  x \in let_through \/ x = <<t, d, m + 1>>
    <2>1. PICK k \in Tenants, e \in Days : \E n \in 1..granted'[k][e] : x = <<k, e, n>>
      BY <1>7, LetThroughElementsNext
    <2>2. PICK n \in 1..granted'[k][e] : x = <<k, e, n>>
      BY <2>1
    <2>3. CASE <<k, e>> = <<t, d>>
      <3>1. n \in 1..(m + 1)
        BY <1>2, <2>3
      <3>2. CASE n = m + 1
        BY <2>2, <2>3, <3>2
      <3>3. CASE n # m + 1
        <4>1. n \in 1..granted[k][e]
          BY <1>1, <2>3, <3>1, <3>3
        <4>. QED  BY <2>2, <4>1, LetThroughElements
      <3>. QED  BY <3>2, <3>3
    <2>4. CASE <<k, e>> # <<t, d>>
      <3>1. n \in 1..granted[k][e]
        BY <1>3, <2>4
      <3>. QED  BY <2>2, <3>1, LetThroughElements
    <2>. QED  BY <2>3, <2>4
  <1>. QED  BY <1>1, <1>4, <1>5, <1>6, <1>7

LEMMA ChargeCounted ==
    ASSUME AdmInv, CounterInv, NEW r \in Requests, Charge(r)
    PROVE  CounterInv'
  <1>1. ask[r].stage = "stamped" /\ req[r] # NoRequest
    BY DEF Charge, Consume
  <1>2. PICK t \in Tenants : t = req[r].tenant
    BY <1>1 DEF AdmInv, AdmTypeOK, TypeOK
  <1>3. PICK d \in Days : d = req[r].today
    BY <1>1 DEF AdmInv, AdmTypeOK, TypeOK
  <1>4. /\ started.ok \in Nat /\ started.denied \in Nat
        /\ DOMAIN started = {"ok", "denied"}
    BY DEF AdmInv, AdmTypeOK
  <1>5. /\ granted \in [Tenants -> [Days -> Nat]]
        /\ DOMAIN table \subseteq Tenants /\ table \in [DOMAIN table -> DailyRecord]
    BY DEF AdmInv, AdmTypeOK, TypeOK
  <1>6. \A k \in DOMAIN table : table[k].count <= started.ok
    BY DEF CounterInv, StartedCountsCharges
  <1>7. \A k \in DOMAIN table : table[k].count \in Nat
    BY <1>5 DEF DailyRecord
  <1>8. count(t, d) \in Nat /\ count(t, d) <= started.ok
    BY <1>4, <1>6, <1>7 DEF count, retained
  <1>9. restarts' = restarts
    BY DEF Charge, Consume
  <1>10. CASE exhausted(count(t, d))
    <2>1. started' = [started EXCEPT !["denied"] = @ + 1]
      BY <1>2, <1>3, <1>10 DEF Charge, tick
    <2>2. started'.ok = started.ok
      BY <1>4, <2>1
    <2>3. granted' = granted /\ refused' = refused \cup {<<t, d>>}
      BY <1>2, <1>3, <1>10 DEF Charge, Consume
    <2>4. table' = [k \in retained(d) \cup {t} |->
                      IF k = t THEN [day |-> d, count |-> count(t, d)] ELSE table[k]]
      BY <1>2, <1>3, <1>10 DEF Charge, Consume
    <2>5. ASSUME NEW k \in DOMAIN table'
          PROVE  table'[k].count <= started'.ok
      <3>1. k \in retained(d) \cup {t}
        BY <2>4
      <3>2. CASE k = t
        BY <1>8, <2>2, <2>4, <3>1, <3>2
      <3>3. CASE k # t
        BY <1>6, <2>2, <2>4, <3>1, <3>3 DEF retained
      <3>. QED  BY <3>2, <3>3
    <2>6. let_through' = let_through
      BY <2>3 DEF let_through, Days
    <2>7. refused' # {}
      BY <2>3
    <2>. QED
      BY <1>9, <2>2, <2>5, <2>6, <2>7 DEF CounterInv, StartedCountsCharges
  <1>11. CASE ~exhausted(count(t, d))
    <2>1. started' = [started EXCEPT !["ok"] = @ + 1]
      BY <1>2, <1>3, <1>11 DEF Charge, tick
    <2>2. started'.ok = started.ok + 1 /\ started'.denied = started.denied
      BY <1>4, <2>1
    <2>3. granted' = [granted EXCEPT ![t][d] = @ + 1] /\ refused' = refused
      BY <1>2, <1>3, <1>11 DEF Charge, Consume
    <2>4. table' = [k \in retained(d) \cup {t} |->
                      IF k = t THEN [day |-> d, count |-> count(t, d) + 1] ELSE table[k]]
      BY <1>2, <1>3, <1>11 DEF Charge, Consume
    <2>5. ASSUME NEW k \in DOMAIN table'
          PROVE  table'[k].count <= started'.ok
      <3>1. k \in retained(d) \cup {t}
        BY <2>4
      <3>2. CASE k = t
        BY <1>4, <1>8, <2>2, <2>4, <3>1, <3>2
      <3>3. CASE k # t
        BY <1>4, <1>6, <1>7, <2>2, <2>4, <3>1, <3>3 DEF retained
      <3>. QED  BY <3>2, <3>3
    <2>6. PICK x : let_through' = let_through \cup {x} /\ x \notin let_through
      BY <1>5, <2>3, OneMoreLetThrough
    <2>7. restarts = 0 =>
            /\ IsFiniteSet(let_through')
            /\ Cardinality(let_through') = Cardinality(let_through) + 1
      BY <2>6, FS_AddElement DEF CounterInv
    <2>. QED
      BY <1>9, <2>2, <2>3, <2>5, <2>7 DEF CounterInv, StartedCountsCharges
  <1>. QED  BY <1>10, <1>11

\* Nothing but a charge and a restart touches the counter or what it is compared to.
LEMMA CounterAside ==
    ASSUME CounterInv, table' = table, started' = started, refused' = refused,
           granted' = granted, restarts' = restarts
    PROVE  CounterInv'
  BY DEF CounterInv, StartedCountsCharges, let_through, Days

\* session_started_total{outcome="ok"} is what the quota let through: no path
\* counts a start that was not charged, or charges one that is not counted.
THEOREM StartsAreCharges == AdmSpec => []StartedCountsCharges
  <1>1. AdmInit => CounterInv
    <2>. SUFFICES ASSUME AdmInit PROVE CounterInv
      OBVIOUS
    <2>1. let_through = {}
      <3>1. SUFFICES ASSUME NEW x \in let_through PROVE FALSE
        OBVIOUS
      <3>2. PICK t \in Tenants, d \in Days : \E n \in 1..granted[t][d] : x = <<t, d, n>>
        BY LetThroughElements
      <3>3. granted[t][d] = 0
        BY DEF AdmInit, Init
      <3>. QED  BY <3>2, <3>3
    <2>2. started.ok = 0 /\ started.denied = 0 /\ DOMAIN table = {}
      BY DEF AdmInit, Init
    <2>. QED  BY <2>1, <2>2, FS_EmptySet DEF CounterInv, StartedCountsCharges
  <1>2. AdmInv /\ CounterInv /\ [AdmNext]_admVars => CounterInv'
    <2>. SUFFICES ASSUME AdmInv, CounterInv, [AdmNext]_admVars PROVE CounterInv'
      OBVIOUS
    <2>1. CASE StartAgain
      <3>1. restarts' # 0 /\ DOMAIN table' = {} /\ started'.denied = 0
        BY <2>1 DEF StartAgain, Restart, AdmInv, AdmTypeOK, TypeOK
      <3>. QED  BY <3>1 DEF CounterInv, StartedCountsCharges
    <2>2. ASSUME NEW r \in Requests, ReadDate(r) \/ Create(r) \/ Gone(r)
          PROVE  CounterInv'
      BY <2>2, CounterAside DEF ReadDate, Stamp, Create, Gone, vars
    <2>3. ASSUME NEW r \in Requests, NEW q, NEW t, NEW ttl, Arrive(r, q, t, ttl)
          PROVE  CounterInv'
      BY <2>3, CounterAside DEF Arrive, vars
    <2>4. ASSUME NEW u \in Users, SessionOver(u)
          PROVE  CounterInv'
      BY <2>4, CounterAside DEF SessionOver, vars
    <2>5. CASE Midnight \/ UNCHANGED admVars
      BY <2>5, CounterAside DEF Midnight, NextDay, admVars, own, vars
    <2>. QED
      BY <2>1, <2>2, <2>3, <2>4, <2>5, ChargeCounted DEF AdmNext
  <1>3. CounterInv => StartedCountsCharges
    BY DEF CounterInv
  <1>. QED  BY <1>1, <1>2, <1>3, AdmInductive, PTL DEF AdmSpec

-----------------------------------------------------------------------------
(* The manifest in force                                                    *)

less == {p \in Nat \X Nat : p[1] < p[2]}

LEMMA SmallestOf ==
    ASSUME NEW I, I \subseteq Nat, I # {}
    PROVE  Min(I) \in I /\ \A y \in I : Min(I) <= y
  <1>1. IsWellFoundedOn(less, Nat)
    BY NatLessThanWellFounded DEF OpToRel, less
  <1>2. PICK x \in I : \A y \in I : ~(<<y, x>> \in less)
    BY <1>1, WFMin
  <1>3. ASSUME NEW y \in I PROVE x <= y
    <2>1. x \in Nat /\ y \in Nat
      OBVIOUS
    <2>2. <<y, x>> \notin less
      BY <1>2
    <2>. QED  BY <2>1, <2>2 DEF less
  <1>. QED  BY <1>3 DEF Min

\* load_manifest finds nothing, or a file that passed validate().
LEMMA LoadedIsUsable ==
    ASSUME NEW files \in Candidates
    PROVE  \/ load_manifest(files) = NoManifest
           \/ load_manifest(files) \in Range(files) /\ usable(load_manifest(files))
  <1>. DEFINE I == {i \in 1..Len(files) : usable(files[i])}
  <1>1. files \in Seq(Range(files))
    BY AdmissionAssumption
  <1>2. CASE I = {}
    <2>1. SelectInSeq(files, usable) = 0
      BY <1>2 DEF SelectInSeq
    <2>. QED  BY <2>1 DEF load_manifest
  <1>3. CASE I # {}
    <2>1. I \subseteq Nat
      OBVIOUS
    <2>2. Min(I) \in I
      BY <1>3, <2>1, SmallestOf
    <2>3. SelectInSeq(files, usable) = Min(I)
      BY <1>3 DEF SelectInSeq
    <2>4. Min(I) # 0 /\ Min(I) \in DOMAIN files /\ usable(files[Min(I)])
      BY <1>1, <2>2
    <2>5. load_manifest(files) = files[Min(I)]
      BY <2>3, <2>4 DEF load_manifest
    <2>. QED  BY <2>4, <2>5 DEF Range
  <1>. QED  BY <1>2, <1>3

\* What is known of the manifest in force: it passed validate().
InForce ==
    manifest # NoManifest =>
        validate(manifest) /\ manifest.scenarios \in Seq(Range(manifest.scenarios))

LEMMA LoadedInForce ==
    ASSUME NEW files \in Candidates, NEW m, m = load_manifest(files), m # NoManifest
    PROVE  validate(m) /\ m.scenarios \in Seq(Range(m.scenarios))
  <1>1. m \in Range(files) /\ usable(m)
    BY LoadedIsUsable
  <1>. QED  BY <1>1, AdmissionAssumption DEF usable

\* Every manifest the server ever works with passed validate(), those of later
\* starts included.
THEOREM ManifestInForce == AdmSpec => []InForce
  <1>1. AdmInit => InForce
    BY LoadedInForce DEF AdmInit, InForce
  <1>2. InForce /\ [AdmNext]_admVars => InForce'
    <2>. SUFFICES ASSUME InForce, [AdmNext]_admVars PROVE InForce'
      OBVIOUS
    <2>1. CASE manifest' = manifest
      BY <2>1 DEF InForce
    <2>2. CASE StartAgain
      BY <2>2, LoadedInForce DEF StartAgain, InForce
    <2>. QED
      BY <2>1, <2>2
      DEF AdmNext, admVars, own, Arrive, ReadDate, Charge, Create, Gone, SessionOver, Midnight
  <1>. QED  BY <1>1, <1>2, PTL DEF AdmSpec

\* validate() accepts only manifests in which ids are unambiguous, sources exist and
\* every action has the payload of its kind.
THEOREM ManifestsSound == AdmSpec => []LoadedManifestSound
  <1>1. InForce => LoadedManifestSound
    <2>. SUFFICES ASSUME InForce, manifest # NoManifest PROVE LoadedManifestSound
      BY DEF LoadedManifestSound
    <2>1. validate(manifest)
      BY DEF InForce
    <2>2. ASSUME NEW s, distinct(ids(s)), NEW j \in DOMAIN s, NEW k \in DOMAIN s, s[j].id = s[k].id
          PROVE  j = k
      BY <2>2 DEF distinct, ids, IsInjective
    <2>3. \A j, k \in DOMAIN manifest.scenarios :
            manifest.scenarios[j].id = manifest.scenarios[k].id => j = k
      BY <2>1, <2>2 DEF validate
    <2>4. ASSUME NEW sc \in Range(manifest.scenarios)
          PROVE  /\ \E k \in DOMAIN manifest.sources : manifest.sources[k] = sc.source_id
                 /\ \A j, k \in DOMAIN all_actions(sc) :
                      all_actions(sc)[j].id = all_actions(sc)[k].id => j = k
                 /\ \A a \in Range(all_actions(sc)) : \E f \in a.has : f \in payload_of(a.kind)
      <3>1. /\ sc.source_id \in Range(manifest.sources)
            /\ distinct(ids(all_actions(sc)))
            /\ \A a \in Range(all_actions(sc)) : validate_action(a)
        BY <2>1 DEF validate
      <3>2. \E k \in DOMAIN manifest.sources : manifest.sources[k] = sc.source_id
        BY <3>1 DEF Range
      <3>3. PICK all : all = all_actions(sc)
        OBVIOUS
      <3>4. \A j, k \in DOMAIN all : all[j].id = all[k].id => j = k
        BY <2>2, <3>1, <3>3
      <3>. QED  BY <3>1, <3>2, <3>3, <3>4 DEF validate_action
    <2>. QED  BY <2>3, <2>4 DEF LoadedManifestSound
  <1>. QED  BY <1>1, ManifestInForce, PTL

\* Manifest::scenario() finds the scenario of an id that has one.
LEMMA ScenarioFound ==
    ASSUME NEW m, m.scenarios \in Seq(Range(m.scenarios)), NEW id, has_scenario(m, id)
    PROVE  scenario(m, id) \in Range(m.scenarios) /\ scenario(m, id).id = id
  <1>. DEFINE I == {i \in 1..Len(m.scenarios) : m.scenarios[i].id = id}
  <1>1. I \subseteq Nat
    OBVIOUS
  <1>2. I # {}
    BY DEF has_scenario, Range
  <1>3. Min(I) \in I
    BY <1>1, <1>2, SmallestOf
  <1>4. scenario(m, id) = m.scenarios[Min(I)]
    BY <1>2 DEF scenario, SelectInSeq
  <1>5. PICK k \in I : k = Min(I)
    BY <1>3
  <1>6. k \in DOMAIN m.scenarios /\ m.scenarios[k].id = id
    OBVIOUS
  <1>7. m.scenarios[k] \in Range(m.scenarios)
    BY <1>6 DEF Range
  <1>. QED  BY <1>4, <1>5, <1>6, <1>7

\* Probes are answered whoever asks, and the gallery shows exactly the scenarios a
\* proper request is let in for.
THEOREM GateAndGallery == AdmSpec => []GateAgrees
  <1>1. ASSUME NEW path \in Probes
        PROVE  gate([path |-> path, bearer |-> FALSE, user |-> NoUser, body |-> "garbage"]) = 200
    BY DEF gate, auth, is_exempt, Probes, Paths
  <1>2. ASSUME InForce, NEW id \in ScenarioIds, NEW u \in Users
        PROVE  id \in visible <=>
                 gate([path |-> "/api/v1/sessions", bearer |-> TRUE, user |-> u, body |-> id]) = 0
    <2>. DEFINE here == deployment_of(deployment_kind)
    <2>1. PICK g : g = gate([path |-> "/api/v1/sessions", bearer |-> TRUE, user |-> u, body |-> id])
      OBVIOUS
    <2>2. g = IF manifest = NoManifest THEN 503
              ELSE IF ~has_scenario(manifest, id) THEN 404
              ELSE IF ~allowed_in(scenario(manifest, id), here) THEN 403
              ELSE 0
      BY <2>1, AdmissionAssumption DEF gate, auth, is_exempt, Probes, Paths
    <2>3. CASE manifest = NoManifest
      BY <2>1, <2>2, <2>3 DEF visible
    <2>4. CASE manifest # NoManifest /\ ~has_scenario(manifest, id)
      BY <2>1, <2>2, <2>4 DEF visible, has_scenario
    <2>5. CASE manifest # NoManifest /\ has_scenario(manifest, id)
      <3>1. PICK sc : sc = scenario(manifest, id)
        OBVIOUS
      <3>2. sc \in Range(manifest.scenarios) /\ sc.id = id
        BY <1>2, <2>5, <3>1, ScenarioFound DEF InForce
      <3>3. \A other \in Range(manifest.scenarios) : other.id = id => other = sc
        BY <1>2, <2>5, <3>2 DEF InForce, validate, distinct, ids, IsInjective, Range
      <3>4. id \in visible <=> allowed_in(sc, here)
        BY <2>5, <3>2, <3>3 DEF visible
      <3>. QED  BY <2>1, <2>2, <2>5, <3>1, <3>4
    <2>. QED  BY <2>3, <2>4, <2>5
  <1>3. InForce => GateAgrees
    BY <1>1, <1>2 DEF GateAgrees
  <1>. QED  BY <1>3, ManifestInForce, PTL

=============================================================================
