------------------------- MODULE FulfillmentProofs --------------------------
(* Theorems about Fulfillment, for every set of users, events, payloads,    *)
(* operator facts and workers.                                              *)
EXTENDS Fulfillment, TLAPS

\* The UC-05 decision always has an apply outcome and a snapshot label; it
\* touches the snapshot only of a fact that names a user, and only an accepted
\* fact of an allowlisted type with a user activates.
LEMMA DecisionIsSafe ==
    ASSUME NEW fact \in Fact
    PROVE  LET d == FirstTimeDecision(fact) IN
           /\ d.outcome \in ApplyOutcomes
           /\ d.label \in SnapshotLabels
           /\ d.label # "absent" => fact.user \in Users
           /\ d.label = "active" <=> d.outcome = "active_applied"
           /\ d.outcome = "active_applied" <=>
                 /\ fact.status = "accepted"
                 /\ fact.type = "subscription_activated"
                 /\ fact.user # NoUser
  BY DEF FirstTimeDecision, Decision, Fact, ApplyOutcomes, SnapshotLabels,
         BillingEventLedgerStatus, EventTypes, AllowlistedEventTypes

\* A request asks for a payload unless it is the operator's, which goes no
\* further than the apply transaction; either way it names an event.
LEMMA RequestShape ==
    ASSUME TypeOK, NEW w \in Workers, step[w] # "idle"
    PROVE  /\ job[w] \in Job
           /\ job[w].event \in Events
           /\ ~ByOperator(w) => job[w] \in Payload
           /\ step[w] \notin {"apply", "commit"} => job[w] \in Payload /\ ~ByOperator(w)
           /\ job[w] \in Payload => job[w].user \in Users /\ job[w].until \in Nat
  BY NoUserAssumption DEF TypeOK, Job, Payload, OperatorJob, ByOperator

-----------------------------------------------------------------------------
(* Each lemma: one group of actions preserves RecordsInv. *)

LEMMA RecordsInvDelivery ==
    ASSUME RecordsInv, NEW w \in Workers,
           \/ \E p \in Payloads : Deliver(w, p) \/ Redeliver(w, p)
           \/ \E e \in OperatorApplies : OperatorApply(w, e)
    PROVE  RecordsInv'
<1> USE DEF tables, requests, bounds, RecordsInv
<1>1. ASSUME NEW p \in Payloads, Deliver(w, p) \/ Redeliver(w, p) PROVE RecordsInv'
  <2>1. p \in Payload /\ p \in Job /\ p # Null
    BY FulfillmentAssumption DEF Job
  <2>2. TypeOK'
    BY <1>1, <2>1, FulfillmentAssumption DEF TypeOK, Deliver, Redeliver, Start, Steps
  <2>3. RequestsFollowRecords'
    BY <1>1, <2>1 DEF TypeOK, RequestsFollowRecords, Deliver, Redeliver, Start, ByOperator
  <2>4. QED BY <1>1, <2>2, <2>3 DEF AuditMatchesRecords, OkMeansApplied, Deliver, Redeliver
<1>2. ASSUME NEW e \in OperatorApplies, OperatorApply(w, e) PROVE RecordsInv'
  <2>1. OperatorJob(e) \in Job /\ OperatorJob(e) # Null /\ OperatorJob(e).user = NoUser
    BY FulfillmentAssumption DEF Job, OperatorJob
  <2>2. TypeOK'
    BY <1>2, <2>1, FulfillmentAssumption DEF TypeOK, OperatorApply, Start, Steps
  <2>3. RequestsFollowRecords'
    BY <1>2, <2>1 DEF TypeOK, RequestsFollowRecords, OperatorApply, Start, ByOperator
  <2>4. QED BY <1>2, <2>2, <2>3 DEF AuditMatchesRecords, OkMeansApplied, OperatorApply
<1>3. QED BY <1>1, <1>2

LEMMA RecordsInvIngest ==
    ASSUME RecordsInv, NEW w \in Workers, CreateIfAbsent(w) \/ Ingest(w)
    PROVE  RecordsInv'
<1> USE DEF RecordsInv
<1>1. job[w].event \in Events /\ job[w].user \in Users /\ job[w] \in Payload /\ job[w] # Null
  BY RequestShape, FulfillmentAssumption DEF CreateIfAbsent, Ingest, Job
<1>2. CASE CreateIfAbsent(w)
  <2>1. TypeOK'
    BY <1>1, <1>2 DEF TypeOK, CreateIfAbsent, GoTo, Steps, bounds
  <2>2. RequestsFollowRecords'
    BY <1>1, <1>2 DEF TypeOK, RequestsFollowRecords, CreateIfAbsent, GoTo, ByOperator
  <2>3. QED BY <1>2, <2>1, <2>2 DEF AuditMatchesRecords, OkMeansApplied, CreateIfAbsent
<1>3. CASE Ingest(w)
  <2> DEFINE fact == PaidFact(job[w])
  <2>1. fact \in Fact /\ fact # Null
    BY <1>1, FulfillmentAssumption DEF Fact, PaidFact, BillingEventLedgerStatus, EventTypes
  <2> HIDE DEF fact
  <2>2. IngestNormalizedBillingFact(job[w].event, fact)
    BY <1>3 DEF Ingest, fact
  <2>3. TypeOK'
    BY <1>1, <1>3, <2>1, <2>2
       DEF TypeOK, Ingest, IngestNormalizedBillingFact, AfterIngest, GoTo, Steps, bounds
  <2>4. RequestsFollowRecords'
    <3>1. \A e \in Events : ledger[e] # Null => ledger'[e] # Null
      BY <2>1, <2>2 DEF TypeOK, IngestNormalizedBillingFact
    <3>2. QED
      BY <1>1, <1>3, <3>1, RequestShape
         DEF TypeOK, RequestsFollowRecords, Ingest, AfterIngest, GoTo, ByOperator
  <2>5. AuditMatchesRecords' /\ OkMeansApplied'
    BY <1>1, <1>3, <2>1, <2>2
       DEF TypeOK, AuditMatchesRecords, OkMeansApplied, Ingest, IngestNormalizedBillingFact
  <2>6. QED BY <2>3, <2>4, <2>5
<1>4. QED BY <1>2, <1>3

LEMMA RecordsInvApply ==
    ASSUME RecordsInv, NEW w \in Workers,
           ApplyNotFound(w) \/ ApplyConflict(w) \/ ApplyBegin(w) \/ ApplyReplayed(w) \/ Fail(w)
    PROVE  RecordsInv'
<1> USE DEF RecordsInv, ApplyNotFound, ApplyConflict, ApplyBegin, ApplyReplayed, Fail, tables, bounds
<1>1. job[w] \in Job /\ job[w].event \in Events /\ (~ByOperator(w) => job[w] \in Payload)
  BY RequestShape
<1>2. TypeOK'
  BY <1>1, FulfillmentAssumption DEF TypeOK, Finish, GoTo, AfterReplay, Steps
<1>3. RequestsFollowRecords'
  BY <1>1 DEF TypeOK, RequestsFollowRecords, Finish, GoTo, AfterReplay, ByOperator, NotApplied
<1>4. QED BY <1>2, <1>3 DEF AuditMatchesRecords, OkMeansApplied

LEMMA RecordsInvCommit ==
    ASSUME RecordsInv, NEW w \in Workers, ApplyCommit(w)
    PROVE  RecordsInv'
<1> USE DEF RecordsInv
<1> DEFINE e == job[w].event
           d == FirstTimeDecision(ledger[e])
           record == [user |-> ledger[e].user, outcome |-> d.outcome]
<1>1. e \in Events /\ job[w] \in Job /\ (~ByOperator(w) => job[w] \in Payload)
  BY RequestShape DEF ApplyCommit
<1>2. ledger[e] \in Fact
  BY <1>1 DEF ApplyCommit, RequestsFollowRecords, TypeOK
<1>3. record \in ApplyRecord /\ record # Null
  <2>1. d.outcome \in ApplyOutcomes /\ ledger[e].user \in Users \union {NoUser}
    BY <1>2, DecisionIsSafe DEF Fact
  <2>2. QED BY <2>1, FulfillmentAssumption DEF ApplyRecord
<1>4. d.label \in SnapshotLabels /\ (d.label # "absent" => ledger[e].user \in Users)
  BY <1>2, DecisionIsSafe
<1>5. applied' = [applied EXCEPT ![e] = record] /\ applied[e] = Null
  BY DEF ApplyCommit, NotApplied
<1>6. IF d.label = "absent" THEN UNCHANGED snapshot
      ELSE UpsertState(ledger[e].user, d.label, Null)
  BY DEF ApplyCommit
<1> HIDE DEF e, d, record
<1>7. applyAudit' = [applyAudit EXCEPT ![e] = @ + 1]
  BY DEF ApplyCommit, e
<1>8. /\ step' = [step EXCEPT ![w] = IF ByOperator(w) THEN "idle" ELSE "upsert"]
      /\ job' = IF ByOperator(w) THEN [job EXCEPT ![w] = Null] ELSE job
      /\ firsts' \subseteq Workers
  BY DEF ApplyCommit, Finish, TypeOK
<1>9. UNCHANGED <<identities, ledger, ingestAudit, replayAudit, notices, acked, bounds>>
  BY DEF ApplyCommit
<1>10. TypeOK'
  <2>1. snapshot' \in [Users -> Snapshot]
    BY <1>4, <1>6 DEF UpsertState, TypeOK, Snapshot
  <2>2. /\ job' \in [Workers -> Job \union {Null}] /\ step' \in [Workers -> Steps]
        /\ \A v \in Workers : step'[v] = "idle" <=> job'[v] = Null
        /\ \A v \in Workers : step'[v] \notin {"idle", "apply", "commit"} => job'[v] \in Payload
    <3>1. CASE ByOperator(w)
      BY <1>1, <1>8, <3>1 DEF TypeOK, Steps
    <3>2. CASE ~ByOperator(w)
      BY <1>1, <1>8, <3>2, FulfillmentAssumption DEF TypeOK, Steps, Job
    <3>3. QED BY <3>1, <3>2
  <2>3. applied' \in [Events -> ApplyRecord \union {Null}] /\ applyAudit' \in [Events -> Nat]
    BY <1>1, <1>3, <1>5, <1>7 DEF TypeOK
  <2>4. /\ identities' \subseteq Users /\ ledger' \in [Events -> Fact \union {Null}]
        /\ ingestAudit' \in [Events -> Nat] /\ replayAudit' \in [Events -> Nat]
        /\ notices' \in [Events -> Nat] /\ acked' \subseteq Events
        /\ failures' \in 0..MaxFailures /\ duplicates' \in 0..MaxDuplicates
    BY <1>9 DEF TypeOK, bounds
  <2>5. firsts' \subseteq Workers
    BY <1>8
  <2>6. QED BY <2>1, <2>2, <2>3, <2>4, <2>5 DEF TypeOK
<1>11. RequestsFollowRecords'
  <2>1. step[w] = "commit"
    BY DEF ApplyCommit
  <2>2. QED BY <1>1, <1>3, <1>5, <1>8, <1>9, <2>1 DEF TypeOK, RequestsFollowRecords, ByOperator, e
<1>12. AuditMatchesRecords' /\ OkMeansApplied'
  BY <1>1, <1>2, <1>3, <1>5, <1>7, <1>9, FulfillmentAssumption
     DEF TypeOK, AuditMatchesRecords, OkMeansApplied
<1>13. QED BY <1>10, <1>11, <1>12

LEMMA RecordsInvFinish ==
    ASSUME RecordsInv, NEW w \in Workers, Upsert(w) \/ SendActivationNotice(w) \/ RespondOk(w)
    PROVE  RecordsInv'
<1> USE DEF RecordsInv, tables, bounds
<1>1. /\ job[w] \in Payload /\ job[w].event \in Events /\ ~ByOperator(w)
      /\ job[w].user \in Users /\ job[w].until \in Nat
  BY RequestShape DEF Upsert, SendActivationNotice, RespondOk
<1>2. CASE Upsert(w)
  <2>1. TypeOK'
    BY <1>1, <1>2 DEF TypeOK, Upsert, UpsertState, GoTo, Steps, Snapshot, SnapshotLabels
  <2>2. RequestsFollowRecords'
    BY <1>1, <1>2 DEF TypeOK, RequestsFollowRecords, Upsert, GoTo, ByOperator
  <2>3. QED BY <1>2, <2>1, <2>2 DEF AuditMatchesRecords, OkMeansApplied, Upsert
<1>3. CASE SendActivationNotice(w)
  <2>1. TypeOK'
    BY <1>1, <1>3 DEF TypeOK, SendActivationNotice, GoTo, Steps
  <2>2. RequestsFollowRecords'
    BY <1>1, <1>3 DEF TypeOK, RequestsFollowRecords, SendActivationNotice, GoTo, ByOperator
  <2>3. QED BY <1>3, <2>1, <2>2 DEF AuditMatchesRecords, OkMeansApplied, SendActivationNotice
<1>4. CASE RespondOk(w)
  <2>1. TypeOK'
    BY <1>1, <1>4 DEF TypeOK, RespondOk, Finish, Steps
  <2>2. RequestsFollowRecords'
    BY <1>1, <1>4 DEF TypeOK, RequestsFollowRecords, RespondOk, Finish, ByOperator
  <2>3. OkMeansApplied'
    BY <1>1, <1>4 DEF OkMeansApplied, RequestsFollowRecords, AuditMatchesRecords, RespondOk
  <2>4. QED BY <1>4, <2>1, <2>2, <2>3 DEF AuditMatchesRecords, RespondOk
<1>5. QED BY <1>2, <1>3, <1>4

LEMMA RecordsInvOthers ==
    ASSUME RecordsInv,
           \/ \E f \in OperatorFacts : OperatorIngest(f)
           \/ \E u \in Users : BootstrapIdentity(u) \/ BootstrapSnapshot(u)
           \/ UNCHANGED vars
    PROVE  RecordsInv'
<1> USE DEF RecordsInv, requests, bounds
<1>1. ASSUME NEW f \in OperatorFacts, OperatorIngest(f) PROVE RecordsInv'
  <2>1. f.event \in Events /\ f.fact \in Fact /\ f.fact # Null
    BY FulfillmentAssumption DEF OperatorFact
  <2>2. TypeOK'
    BY <1>1, <2>1, FulfillmentAssumption DEF TypeOK, OperatorIngest, IngestNormalizedBillingFact
  <2>3. RequestsFollowRecords'
    <3>1. \A e \in Events : ledger[e] # Null => ledger'[e] # Null
      BY <1>1, <2>1 DEF TypeOK, OperatorIngest, IngestNormalizedBillingFact
    <3>2. QED
      BY <1>1, <3>1, RequestShape DEF TypeOK, RequestsFollowRecords, OperatorIngest, ByOperator
  <2>4. QED
    BY <1>1, <2>1, <2>2, <2>3
       DEF TypeOK, AuditMatchesRecords, OkMeansApplied, OperatorIngest, IngestNormalizedBillingFact
<1>2. ASSUME NEW u \in Users, BootstrapIdentity(u) \/ BootstrapSnapshot(u) PROVE RecordsInv'
  <2>1. TypeOK'
    BY <1>2 DEF TypeOK, BootstrapIdentity, BootstrapSnapshot, UpsertState, Snapshot, SnapshotLabels
  <2>2. QED
    BY <1>2, <2>1 DEF RequestsFollowRecords, AuditMatchesRecords, OkMeansApplied,
                     BootstrapIdentity, BootstrapSnapshot, ByOperator
<1>3. ASSUME UNCHANGED vars PROVE RecordsInv'
  BY <1>3 DEF vars, tables, TypeOK, RequestsFollowRecords, AuditMatchesRecords, OkMeansApplied,
              ByOperator
<1>4. QED BY <1>1, <1>2, <1>3

\* Types, the audit trail, and the meaning of a 200, are invariant.
THEOREM RecordsInvariant == Spec => []RecordsInv
<1>1. Init => RecordsInv
  BY FulfillmentAssumption
     DEF Init, RecordsInv, TypeOK, RequestsFollowRecords, AuditMatchesRecords, OkMeansApplied,
         Snapshot, NoSnapshot, SnapshotLabels, Steps
<1>2. RecordsInv /\ [Next]_vars => RecordsInv'
  BY RecordsInvDelivery, RecordsInvIngest, RecordsInvApply, RecordsInvCommit, RecordsInvFinish,
     RecordsInvOthers DEF Next, Work
<1>3. QED BY <1>1, <1>2, PTL DEF Spec

\* Every table, request and counter keeps its type.
THEOREM TypeCorrect == Spec => []TypeOK
  BY RecordsInvariant, PTL DEF RecordsInv

\* There is one audit row for each ledger row and each apply record.
THEOREM AuditCorrect == Spec => []AuditMatchesRecords
  BY RecordsInvariant, PTL DEF RecordsInv

\* An event that was answered 200 was recorded and applied.
THEOREM OkCorrect == Spec => []OkMeansApplied
  BY RecordsInvariant, PTL DEF RecordsInv

-----------------------------------------------------------------------------
(* At most one notice. *)

\* The steps of one worker: which requests they touch, and how.
LEMMA NoticesInvWork ==
    ASSUME NoticesInv, RecordsInv', NEW w \in Workers,
           \/ CreateIfAbsent(w) \/ Ingest(w) \/ ApplyNotFound(w) \/ ApplyConflict(w)
           \/ ApplyBegin(w) \/ ApplyReplayed(w) \/ Fail(w) \/ RespondOk(w)
    PROVE  OneTeller' /\ AtMostOneNotice'
<1> USE DEF NoticesInv, RecordsInv
<1>1. applied' = applied /\ notices' = notices
  BY DEF CreateIfAbsent, Ingest, ApplyNotFound, ApplyConflict, ApplyBegin, ApplyReplayed, Fail,
         RespondOk, tables
<1>2. step[w] # "idle" /\ (w \in firsts => step[w] \in {"upsert", "notify", "respond"})
  BY DEF CreateIfAbsent, Ingest, ApplyNotFound, ApplyConflict, ApplyBegin, ApplyReplayed, Fail,
         RespondOk, OneTeller
<1>4. \A v \in Workers \ {w} : step'[v] = step[v] /\ job'[v] = job[v]
  BY DEF TypeOK, CreateIfAbsent, Ingest, ApplyNotFound, ApplyConflict, ApplyBegin, ApplyReplayed,
         Fail, RespondOk, GoTo, Finish, AfterIngest, AfterReplay
<1>5. w \notin firsts'
  BY <1>2 DEF CreateIfAbsent, Ingest, ApplyNotFound, ApplyConflict, ApplyBegin, ApplyReplayed,
              Fail, RespondOk, GoTo, Finish, AfterIngest, AfterReplay
<1>6. step'[w] # "notify"
  BY DEF TypeOK, CreateIfAbsent, Ingest, ApplyNotFound, ApplyConflict, ApplyBegin, ApplyReplayed,
         Fail, RespondOk, GoTo, Finish, AfterIngest, AfterReplay
<1>7. \A v \in Workers \ {w} : v \in firsts' <=> v \in firsts
  BY DEF CreateIfAbsent, Ingest, ApplyNotFound, ApplyConflict, ApplyBegin, ApplyReplayed, Fail,
         RespondOk, GoTo, Finish, AfterIngest, AfterReplay
<1>8. OneTeller'
  BY <1>1, <1>4, <1>5, <1>6, <1>7 DEF TypeOK, OneTeller, Telling, Activates
<1>9. QED BY <1>1, <1>8 DEF AtMostOneNotice, Activates

LEMMA NoticesInvStart ==
    ASSUME NoticesInv, RecordsInv', NEW w \in Workers, NEW j, NEW s \in {"identity", "apply"},
           Start(w, j, s),
           UNCHANGED <<applied, notices>>
    PROVE  OneTeller' /\ AtMostOneNotice'
<1> USE DEF NoticesInv, RecordsInv, Start
<1>1. OneTeller'
  BY DEF TypeOK, OneTeller, Telling, Activates
<1>2. QED BY <1>1 DEF AtMostOneNotice, Activates

LEMMA NoticesInvCommit ==
    ASSUME NoticesInv, RecordsInv', NEW w \in Workers, ApplyCommit(w)
    PROVE  OneTeller' /\ AtMostOneNotice'
<1> USE DEF NoticesInv, RecordsInv
<1>1. PICK e \in Events : e = job[w].event
  BY RequestShape DEF ApplyCommit
<1> DEFINE d == FirstTimeDecision(ledger[e])
<1>2. step[w] = "commit" /\ ledger[e] \in Fact
  BY <1>1 DEF ApplyCommit, RequestsFollowRecords, TypeOK
<1>3. applied' = [applied EXCEPT ![e] = [user |-> ledger[e].user, outcome |-> d.outcome]]
      /\ applied[e] = Null /\ notices' = notices
  BY <1>1 DEF ApplyCommit, NotApplied
<1>4. d.outcome = "active_applied" => ledger[e].user \in Users
  BY <1>2, DecisionIsSafe DEF Fact
<1>5. /\ firsts' \ {w} = firsts \ {w}
      /\ w \in firsts' => d.outcome = "active_applied" /\ job'[w] = job[w]
      /\ step'[w] \in {"idle", "upsert"}
      /\ w \in firsts' => step'[w] = "upsert"
      /\ \A v \in Workers \ {w} : step'[v] = step[v] /\ job'[v] = job[v]
  BY <1>1, <1>2 DEF ApplyCommit, Finish, TypeOK, OneTeller
<1> HIDE DEF d
<1>6. notices[e] = 0
  <2>1. ~ \E u \in Users : Activates(e, u)
    BY <1>3 DEF Activates
  <2>2. notices[e] \in Nat /\ notices[e] <= 1 /\ notices[e] # 1
    BY <2>1 DEF AtMostOneNotice, TypeOK
  <2>3. QED BY <2>2
<1>7. \A a \in Events, u \in Users : Activates(a, u) => a # e /\ Activates(a, u)'
  BY <1>1, <1>3 DEF Activates, TypeOK
<1>8. \A v \in Workers \ {w} : Telling(v)' =>
          Telling(v) /\ job'[v] = job[v] /\ job[v].event # e /\ job[v].event \in Events
  BY <1>5, <1>7, RequestShape DEF Telling, OneTeller, TypeOK
<1>9. Telling(w)' => job'[w].event = e /\ \E u \in Users : Activates(e, u)'
  <2>1. SUFFICES ASSUME Telling(w)' PROVE job'[w].event = e /\ \E u \in Users : Activates(e, u)'
    OBVIOUS
  <2>2. PICK u \in Users : job'[w] = job[w] /\ d.outcome = "active_applied" /\ ledger[e].user = u
    BY <1>4, <1>5, <2>1 DEF Telling
  <2>3. [user |-> u, outcome |-> "active_applied"] # Null
    BY FulfillmentAssumption DEF ApplyRecord, ApplyOutcomes
  <2>4. Activates(e, u)'
    BY <1>3, <2>2, <2>3 DEF Activates, TypeOK
  <2>5. QED BY <1>1, <2>2, <2>4
<1>10. ASSUME NEW v \in Workers, Telling(v)'
       PROVE  /\ \E u \in Users : Activates(job[v].event, u)'
              /\ notices'[job'[v].event] = 0
              /\ \A x \in Workers : Telling(x)' /\ job'[x].event = job'[v].event => x = v
  <2>1. CASE v = w
    <3>1. job'[v].event = e /\ \E u \in Users : Activates(e, u)'
      BY <1>9, <1>10, <2>1
    <3>2. \E u \in Users : Activates(job[v].event, u)'
      BY <3>1 DEF Activates
    <3>3. QED BY <1>3, <1>6, <1>8, <2>1, <3>1, <3>2
  <2>2. CASE v # w
    <3>1. PICK a \in Events : Telling(v) /\ job'[v] = job[v] /\ job[v].event = a /\ a # e
      BY <1>8, <1>10, <2>2
    <3>2. /\ \E u \in Users : Activates(a, u)
          /\ notices[a] = 0
          /\ \A x \in Workers : Telling(x) /\ job[x].event = a => x = v
      BY <3>1 DEF OneTeller
    <3>3. \E u \in Users : Activates(a, u)'
      BY <1>7, <3>2
    <3>4. \E u \in Users : Activates(job[v].event, u)'
      BY <3>1, <3>3 DEF Activates
    <3>5. \A x \in Workers : Telling(x)' /\ job'[x].event = job'[v].event => x = v
      BY <1>8, <1>9, <3>1, <3>2
    <3>6. QED BY <1>3, <3>1, <3>2, <3>4, <3>5
  <2>3. QED BY <2>1, <2>2
<1>11. OneTeller'
  <2>1. \A v \in firsts' : step'[v] \in {"upsert", "notify", "respond"}
    BY <1>5 DEF OneTeller, TypeOK
  <2>2. \A v \in Workers : step'[v] = "notify" => v \in firsts'
    BY <1>5 DEF OneTeller
  <2>3. QED BY <1>10, <2>1, <2>2 DEF OneTeller
<1>12. AtMostOneNotice'
  BY <1>3, <1>7 DEF AtMostOneNotice
<1>13. QED BY <1>11, <1>12

LEMMA NoticesInvTell ==
    ASSUME NoticesInv, RecordsInv', NEW w \in Workers, Upsert(w) \/ SendActivationNotice(w)
    PROVE  OneTeller' /\ AtMostOneNotice'
<1> USE DEF NoticesInv, RecordsInv
<1>1. applied' = applied /\ job' = job /\ firsts' = firsts
  BY DEF Upsert, SendActivationNotice, GoTo, tables
<1>2. \A v \in Workers \ {w} : step'[v] = step[v]
  BY DEF Upsert, SendActivationNotice, GoTo, TypeOK
<1>3. CASE Upsert(w)
  <2>1. step'[w] = (IF w \in firsts THEN "notify" ELSE "respond") /\ step[w] = "upsert"
        /\ notices' = notices
    BY <1>3 DEF Upsert, GoTo, TypeOK
  <2>2. \A v \in Workers : Telling(v)' <=> Telling(v)
    BY <1>1, <1>2, <2>1 DEF Telling
  <2>3. OneTeller'
    BY <1>1, <1>2, <2>1, <2>2 DEF OneTeller, Activates, TypeOK
  <2>4. QED BY <1>1, <2>1, <2>3 DEF AtMostOneNotice, Activates
<1>4. CASE SendActivationNotice(w)
  <2>1. PICK e \in Events : e = job[w].event
    BY <1>4, RequestShape DEF SendActivationNotice
  <2>2. step'[w] = "respond" /\ step[w] = "notify"
    BY <1>4 DEF SendActivationNotice, GoTo, TypeOK
  <2>3. PICK n \in {0, 1} : notices' = [notices EXCEPT ![e] = @ + n]
    BY <1>4, <2>1 DEF SendActivationNotice
  <2>4. Telling(w)
    BY <2>2 DEF Telling, OneTeller
  <2>5. \A v \in Workers : Telling(v)' => Telling(v) /\ v # w /\ job[v].event # e
    BY <1>1, <1>2, <2>1, <2>2, <2>4 DEF Telling, OneTeller
  <2>6. notices[e] = 0 /\ \E u \in Users : Activates(e, u)
    BY <2>1, <2>4 DEF OneTeller
  <2>7. \A v \in Workers : Telling(v)' => notices'[job'[v].event] = 0
    BY <1>1, <2>3, <2>5 DEF OneTeller, TypeOK
  <2>8. OneTeller'
    BY <1>1, <1>2, <2>2, <2>5, <2>7 DEF OneTeller, Activates, TypeOK
  <2>9. AtMostOneNotice'
    BY <1>1, <2>3, <2>6 DEF AtMostOneNotice, Activates, TypeOK
  <2>10. QED BY <2>8, <2>9
<1>5. QED BY <1>3, <1>4

\* At most one notice per event, and only of a recorded activation.
THEOREM NoticesInvariant == Spec => []NoticesInv
<1>1. Init => NoticesInv
  BY FulfillmentAssumption
     DEF Init, NoticesInv, OneTeller, Telling, AtMostOneNotice, RecordsInv, TypeOK,
         RequestsFollowRecords, AuditMatchesRecords, OkMeansApplied, Snapshot, NoSnapshot,
         SnapshotLabels, Steps
<1>2. NoticesInv /\ RecordsInv' /\ [Next]_vars => NoticesInv'
  <2> SUFFICES ASSUME NoticesInv, RecordsInv', [Next]_vars PROVE OneTeller' /\ AtMostOneNotice'
    BY DEF NoticesInv
  <2>1. ASSUME NEW w \in Workers, Work(w) \/ Fail(w) PROVE OneTeller' /\ AtMostOneNotice'
    BY <2>1, NoticesInvWork, NoticesInvCommit, NoticesInvTell DEF Work
  <2>2. ASSUME NEW w \in Workers, NEW p \in Payloads, Deliver(w, p) \/ Redeliver(w, p)
        PROVE  OneTeller' /\ AtMostOneNotice'
    BY <2>2, NoticesInvStart DEF Deliver, Redeliver, tables
  <2>3. ASSUME NEW w \in Workers, NEW e \in OperatorApplies, OperatorApply(w, e)
        PROVE  OneTeller' /\ AtMostOneNotice'
    BY <2>3, NoticesInvStart DEF OperatorApply, tables
  <2>4. ASSUME UNCHANGED <<requests, applied, notices>> PROVE OneTeller' /\ AtMostOneNotice'
    BY <2>4 DEF NoticesInv, OneTeller, Telling, AtMostOneNotice, Activates, requests
  <2>5. QED
    BY <2>1, <2>2, <2>3, <2>4
       DEF Next, OperatorIngest, BootstrapIdentity, BootstrapSnapshot, vars, tables
<1>3. QED BY <1>1, <1>2, RecordsInvariant, PTL DEF Spec

\* However often and by whomever an event is delivered, its user is told of it
\* at most once.
THEOREM NoticesCorrect == Spec => []AtMostOneNotice
  BY NoticesInvariant, PTL DEF NoticesInv

-----------------------------------------------------------------------------
(* The billing path implements ApplyOnce. *)

Recorded == \E e \in Events, fact \in Fact :
    /\ ledger[e] = Null /\ ledger' = [ledger EXCEPT ![e] = fact]
    /\ UNCHANGED <<applied, notices>>
Decided == \E e \in Events :
    /\ applied[e] = Null /\ ledger[e] # Null
    /\ applied' = [applied EXCEPT ![e] =
          [user |-> ledger[e].user, outcome |-> FirstTimeDecision(ledger[e]).outcome]]
    /\ UNCHANGED <<ledger, notices>>
Told == \E e \in Events, u \in Users, n \in {0, 1} :
    /\ Activates(e, u) /\ notices[e] = 0 /\ notices' = [notices EXCEPT ![e] = @ + n]
    /\ UNCHANGED <<ledger, applied>>

\* Whatever else a step does, it records, decides or tells of one event.
LEMMA StepsRecordDecideOrTell ==
    ASSUME NoticesInv, [Next]_vars
    PROVE  Recorded \/ Decided \/ Told \/ UNCHANGED <<ledger, applied, notices>>
<1> USE DEF NoticesInv, RecordsInv
<1>1. ASSUME NEW e \in Events, NEW fact \in Fact, IngestNormalizedBillingFact(e, fact),
             UNCHANGED <<applied, notices>>
      PROVE  Recorded \/ UNCHANGED <<ledger, applied, notices>>
  BY <1>1 DEF IngestNormalizedBillingFact, Recorded
<1>2. ASSUME NEW w \in Workers, Ingest(w)
      PROVE  Recorded \/ UNCHANGED <<ledger, applied, notices>>
  <2>1. job[w].event \in Events /\ PaidFact(job[w]) \in Fact
    BY <1>2, RequestShape DEF Ingest, Fact, PaidFact, BillingEventLedgerStatus, EventTypes
  <2>2. IngestNormalizedBillingFact(job[w].event, PaidFact(job[w])) /\ UNCHANGED <<applied, notices>>
    BY <1>2 DEF Ingest
  <2>3. QED BY <1>1, <2>1, <2>2
<1>3. ASSUME NEW f \in OperatorFacts, OperatorIngest(f)
      PROVE  Recorded \/ UNCHANGED <<ledger, applied, notices>>
  <2>1. f.event \in Events /\ f.fact \in Fact
    BY FulfillmentAssumption DEF OperatorFact
  <2>2. IngestNormalizedBillingFact(f.event, f.fact) /\ UNCHANGED <<applied, notices>>
    BY <1>3 DEF OperatorIngest
  <2>3. QED BY <1>1, <2>1, <2>2
<1>4. ASSUME NEW w \in Workers, ApplyCommit(w) PROVE Decided
  <2>1. job[w].event \in Events /\ ledger[job[w].event] # Null
    BY <1>4, RequestShape DEF ApplyCommit, RequestsFollowRecords
  <2>2. QED BY <1>4, <2>1 DEF ApplyCommit, Decided, NotApplied
<1>5. ASSUME NEW w \in Workers, SendActivationNotice(w) PROVE Told
  <2>1. job[w].event \in Events /\ Telling(w)
    BY <1>5, RequestShape DEF SendActivationNotice, Telling, OneTeller
  <2>2. PICK u \in Users : Activates(job[w].event, u) /\ notices[job[w].event] = 0
    BY <2>1 DEF OneTeller
  <2>3. QED BY <1>5, <2>1, <2>2 DEF SendActivationNotice, Told, tables
<1>6. ASSUME NEW w \in Workers,
             \/ CreateIfAbsent(w) \/ ApplyNotFound(w) \/ ApplyReplayed(w) \/ ApplyBegin(w)
             \/ ApplyConflict(w) \/ Upsert(w) \/ RespondOk(w) \/ Fail(w)
             \/ \E p \in Payloads : Deliver(w, p) \/ Redeliver(w, p)
             \/ \E e \in OperatorApplies : OperatorApply(w, e)
      PROVE  UNCHANGED <<ledger, applied, notices>>
  BY <1>6 DEF CreateIfAbsent, ApplyNotFound, ApplyReplayed, ApplyBegin, ApplyConflict, Upsert,
              RespondOk, Fail, Deliver, Redeliver, OperatorApply, tables
<1>7. QED
  BY <1>2, <1>3, <1>4, <1>5, <1>6
     DEF Next, Work, BootstrapIdentity, BootstrapSnapshot, vars, tables

\* No ledger row and no apply record is ever changed or deleted.
THEOREM RecordsNeverChange == Spec => RecordsAreFinal
<1>1. ASSUME NoticesInv, [Next]_vars
      PROVE  RecordsKept
  BY <1>1, StepsRecordDecideOrTell DEF RecordsKept, Recorded, Decided, Told, NoticesInv, RecordsInv, TypeOK
<1>2. QED BY <1>1, NoticesInvariant, PTL DEF Spec, RecordsAreFinal

\* Records, decisions and notices are those of ApplyOnce, whoever delivers an
\* event, however often, and wherever a request fails.
THEOREM ImplementsApplyOnce == Spec => RefinesApplyOnce
<1>1. Init => Abstract!Init
  BY DEF Init, Abstract!Init
<1>2. ASSUME NoticesInv, [Next]_vars
      PROVE  [Abstract!Next]_<<ledger, applied, {e \in Events : notices[e] > 0}>>
  <2>1. CASE Recorded
    BY <2>1 DEF Recorded, Abstract!Next, Abstract!Record, Abstract!Fact, Fact,
                Abstract!BillingEventLedgerStatus, BillingEventLedgerStatus,
                Abstract!EventTypes, EventTypes
  <2>2. CASE Decided
    BY <2>2 DEF Decided, Abstract!Next, Abstract!Decide, Abstract!FirstTimeDecision,
                FirstTimeDecision, Abstract!Decision, Decision, Abstract!AllowlistedEventTypes,
                AllowlistedEventTypes
  <2>3. CASE Told
    <3>1. PICK e \in Events, u \in Users, n \in {0, 1} :
            /\ Activates(e, u) /\ notices[e] = 0 /\ notices' = [notices EXCEPT ![e] = @ + n]
            /\ UNCHANGED <<ledger, applied>>
      BY <2>3 DEF Told
    <3>2. CASE n = 0
      BY <1>2, <3>1, <3>2 DEF NoticesInv, RecordsInv, TypeOK
    <3>3. CASE n = 1
      <4>1. {x \in Events : notices'[x] > 0} = {x \in Events : notices[x] > 0} \union {e}
        BY <1>2, <3>1, <3>3 DEF NoticesInv, RecordsInv, TypeOK
      <4>2. Abstract!Tell(e)
        BY <3>1, <4>1 DEF Abstract!Tell, Activates
      <4>3. QED BY <4>2 DEF Abstract!Next
    <3>4. QED BY <3>2, <3>3
  <2>4. CASE UNCHANGED <<ledger, applied, notices>>
    BY <2>4
  <2>5. QED BY <1>2, <2>1, <2>2, <2>3, <2>4, StepsRecordDecideOrTell
<1>3. QED BY <1>1, <1>2, NoticesInvariant, PTL DEF Spec, RefinesApplyOnce, Abstract!Spec

-----------------------------------------------------------------------------
(* What the snapshots mean, when whoever brings an event brings the same   *)
(* fact (DeliveriesAgree): active users have paid, windows are paid for,   *)
(* and an endless window is still owed a repair.                           *)

\* Activations are never taken back.
LEMMA ActivationsStay ==
    ASSUME TypeOK, RecordsKept, NEW e \in Events, NEW u \in Users, Activates(e, u)
    PROVE  Activates(e, u)'
  BY DEF Activates, RecordsKept

\* A worker that upserts, notifies or answers has an activation behind it: the
\* fact in the ledger is the one it was delivered.
LEMMA ServedEventActivates ==
    ASSUME RecordsInv, OutcomesFollowFacts, FactsAreDelivered, NEW w \in Workers,
           step[w] \in {"upsert", "notify", "respond"}
    PROVE  Activates(job[w].event, job[w].user) /\ job[w] \in Payloads
<1>1. job[w] \in Payloads /\ job[w] \in Payload /\ job[w].event \in Events /\ job[w].user \in Users
  BY RequestShape DEF RecordsInv, RequestsFollowRecords
<1>2. applied[job[w].event] # Null /\ ledger[job[w].event] # Null
  BY <1>1 DEF RecordsInv, RequestsFollowRecords, AuditMatchesRecords
<1>3. ledger[job[w].event] = PaidFact(job[w])
  BY <1>1, <1>2 DEF FactsAreDelivered
<1>4. PaidFact(job[w]) \in Fact /\ FirstTimeDecision(PaidFact(job[w])).outcome = "active_applied"
  BY <1>1, NoUserAssumption
     DEF PaidFact, Fact, BillingEventLedgerStatus, EventTypes, FirstTimeDecision, Decision,
         AllowlistedEventTypes
<1>5. PaidFact(job[w]).user = job[w].user
  BY DEF PaidFact
<1>6. applied[job[w].event] = [user |-> job[w].user, outcome |-> "active_applied"]
  BY <1>1, <1>2, <1>3, <1>4, <1>5 DEF OutcomesFollowFacts
<1>7. QED BY <1>1, <1>2, <1>6 DEF Activates

\* Steps that leave the snapshots and the answers alone, and bring no request
\* to its notice or its answer.
LEMMA QuietStep ==
    ASSUME WindowsInv, RecordsKept, snapshot' = snapshot, acked' = acked,
           \A v \in Workers : step'[v] \in {"notify", "respond"} =>
               step[v] \in {"notify", "respond"} /\ job'[v] = job[v]
    PROVE  ActivationIsBacked' /\ WindowIsPaidFor' /\ EndlessWindowIsPending'
<1> USE DEF WindowsInv, RecordsInv
<1>1. ActivationIsBacked'
  BY ActivationsStay DEF ActivationIsBacked
<1>2. WindowIsPaidFor'
  BY FulfillmentAssumption DEF WindowIsPaidFor, RecordsKept, Payload
<1>3. EndlessWindowIsPending'
  <2> SUFFICES ASSUME NEW u \in Users, snapshot[u] = Endless
               PROVE  \E e \in Events : /\ Activates(e, u)'
                                        /\ e \notin acked
                                        /\ \A w \in Workers : Serves(w, e)' =>
                                              step'[w] \notin {"notify", "respond"}
    BY DEF EndlessWindowIsPending, Endless
  <2>1. PICK e \in Events : /\ Activates(e, u)
                            /\ e \notin acked
                            /\ \A w \in Workers : Serves(w, e) =>
                                  step[w] \notin {"notify", "respond"}
    BY DEF EndlessWindowIsPending
  <2>2. Activates(e, u)'
    BY <2>1, ActivationsStay
  <2>3. \A w \in Workers : Serves(w, e)' => step'[w] \notin {"notify", "respond"}
    BY <2>1 DEF Serves, ByOperator
  <2>4. QED BY <2>1, <2>2, <2>3
<1>4. QED BY <1>1, <1>2, <1>3

LEMMA WindowsCommit ==
    ASSUME WindowsInv, RecordsInv', RecordsKept, NEW w \in Workers, ApplyCommit(w)
    PROVE  ActivationIsBacked' /\ WindowIsPaidFor' /\ EndlessWindowIsPending'
<1> USE DEF WindowsInv, RecordsInv
<1>1. PICK e \in Events : e = job[w].event
  BY RequestShape DEF ApplyCommit
<1> DEFINE d == FirstTimeDecision(ledger[e])
<1>2. step[w] = "commit" /\ ledger[e] \in Fact
  BY <1>1 DEF ApplyCommit, RequestsFollowRecords, TypeOK
<1>3. /\ applied[e] = Null /\ acked' = acked
      /\ applied' = [applied EXCEPT ![e] = [user |-> ledger[e].user, outcome |-> d.outcome]]
      /\ IF d.label = "absent" THEN snapshot' = snapshot
         ELSE UpsertState(ledger[e].user, d.label, Null)
  BY <1>1 DEF ApplyCommit, NotApplied
<1>4. /\ step'[w] \in {"idle", "upsert"}
      /\ \A v \in Workers \ {w} : step'[v] = step[v] /\ job'[v] = job[v]
  BY DEF ApplyCommit, Finish, TypeOK
<1>5. /\ d.label # "absent" => ledger[e].user \in Users
      /\ d.label = "active" => d.outcome = "active_applied"
  BY <1>2, DecisionIsSafe
<1> HIDE DEF d
<1>6. CASE d.label = "absent"
  BY <1>3, <1>4, <1>6, QuietStep
<1>7. CASE d.label # "absent"
  <2>1. PICK u \in Users : u = ledger[e].user
    BY <1>5, <1>7
  <2>2. /\ snapshot'[u] = [label |-> d.label, until |-> Null]
        /\ \A x \in Users \ {u} : snapshot'[x] = snapshot[x]
    BY <1>3, <1>7, <2>1 DEF UpsertState, TypeOK
  <2>3. d.label = "active" => Activates(e, u)'
    <3>1. SUFFICES ASSUME d.label = "active" PROVE Activates(e, u)'
      OBVIOUS
    <3>2. [user |-> u, outcome |-> "active_applied"] # Null
      BY FulfillmentAssumption DEF ApplyRecord, ApplyOutcomes
    <3>3. QED BY <1>3, <1>5, <2>1, <3>1, <3>2 DEF Activates, TypeOK
  <2>4. ActivationIsBacked'
    BY <2>2, <2>3, ActivationsStay DEF ActivationIsBacked
  <2>5. WindowIsPaidFor'
    BY <2>2, FulfillmentAssumption DEF WindowIsPaidFor, RecordsKept, Payload
  <2>6. ASSUME NEW x \in Users, snapshot'[x] = Endless
        PROVE  \E a \in Events : /\ Activates(a, x)'
                                 /\ a \notin acked
                                 /\ \A v \in Workers : Serves(v, a)' =>
                                       step'[v] \notin {"notify", "respond"}
    <3>1. CASE x = u
      <4>1. Activates(e, x)'
        BY <2>2, <2>3, <2>6, <3>1 DEF Endless
      <4>2. e \notin acked
        BY <1>3 DEF OkMeansApplied
      <4>3. \A v \in Workers : Serves(v, e)' => step'[v] \notin {"notify", "respond"}
        BY <1>3, <1>4 DEF Serves, ByOperator, RequestsFollowRecords
      <4>4. QED BY <4>1, <4>2, <4>3
    <3>2. CASE x # u
      <4>1. PICK a \in Events : /\ Activates(a, x)
                                /\ a \notin acked
                                /\ \A v \in Workers : Serves(v, a) =>
                                      step[v] \notin {"notify", "respond"}
        BY <2>2, <2>6, <3>2 DEF EndlessWindowIsPending
      <4>2. Activates(a, x)'
        BY <4>1, ActivationsStay
      <4>3. \A v \in Workers : Serves(v, a)' => step'[v] \notin {"notify", "respond"}
        BY <1>4, <4>1 DEF Serves, ByOperator
      <4>4. QED BY <4>1, <4>2, <4>3
    <3>3. QED BY <3>1, <3>2
  <2>7. EndlessWindowIsPending'
    BY <1>3, <2>6 DEF EndlessWindowIsPending, Endless
  <2>8. QED BY <2>4, <2>5, <2>7
<1>8. QED BY <1>6, <1>7

LEMMA WindowsUpsert ==
    ASSUME WindowsInv, RecordsKept, NEW w \in Workers, Upsert(w)
    PROVE  ActivationIsBacked' /\ WindowIsPaidFor' /\ EndlessWindowIsPending'
<1> USE DEF WindowsInv, RecordsInv
<1>1. PICK p \in Payloads : p = job[w] /\ Activates(p.event, p.user)
  BY ServedEventActivates DEF Upsert
<1>2. p.event \in Events /\ p.user \in Users /\ p.until \in Nat /\ p.until # Null
  BY FulfillmentAssumption DEF Payload
<1>3. /\ snapshot'[p.user] = [label |-> "active", until |-> p.until]
      /\ \A x \in Users \ {p.user} : snapshot'[x] = snapshot[x]
      /\ acked' = acked /\ applied' = applied
  BY <1>1, <1>2 DEF Upsert, UpsertState, TypeOK
<1>4. job' = job /\ \A v \in Workers \ {w} : step'[v] = step[v]
  BY DEF Upsert, GoTo, TypeOK
<1>5. ActivationIsBacked'
  BY <1>1, <1>2, <1>3, ActivationsStay DEF ActivationIsBacked
<1>6. WindowIsPaidFor'
  <2>1. applied[p.event] # Null
    BY <1>1 DEF Activates
  <2>2. QED BY <1>2, <1>3, <2>1 DEF WindowIsPaidFor
<1>7. ASSUME NEW x \in Users, snapshot'[x] = Endless
      PROVE  \E a \in Events : /\ Activates(a, x)'
                               /\ a \notin acked
                               /\ \A v \in Workers : Serves(v, a)' =>
                                     step'[v] \notin {"notify", "respond"}
  <2>1. x # p.user
    BY <1>2, <1>3, <1>7 DEF Endless
  <2>2. PICK a \in Events : /\ Activates(a, x)
                            /\ a \notin acked
                            /\ \A v \in Workers : Serves(v, a) =>
                                  step[v] \notin {"notify", "respond"}
    BY <1>3, <1>7, <2>1 DEF EndlessWindowIsPending
  <2>3. a # p.event
    BY <1>1, <2>1, <2>2 DEF Activates
  <2>4. Activates(a, x)'
    BY <2>2, ActivationsStay
  <2>5. \A v \in Workers : Serves(v, a)' => step'[v] \notin {"notify", "respond"}
    BY <1>1, <1>4, <2>2, <2>3 DEF Serves, ByOperator
  <2>6. QED BY <2>2, <2>4, <2>5
<1>8. EndlessWindowIsPending'
  BY <1>3, <1>7 DEF EndlessWindowIsPending, Endless
<1>9. QED BY <1>5, <1>6, <1>8

LEMMA WindowsRespond ==
    ASSUME WindowsInv, RecordsKept, NEW w \in Workers, RespondOk(w) \/ SendActivationNotice(w)
    PROVE  ActivationIsBacked' /\ WindowIsPaidFor' /\ EndlessWindowIsPending'
<1> USE DEF WindowsInv, RecordsInv
<1>1. PICK e \in Events : e = job[w].event
  BY RequestShape DEF RespondOk, SendActivationNotice
<1>2. /\ step[w] \in {"notify", "respond"} /\ Serves(w, e)
      /\ snapshot' = snapshot /\ applied' = applied
      /\ acked' \subseteq acked \union {e}
      /\ \A v \in Workers \ {w} : step'[v] = step[v] /\ job'[v] = job[v]
  BY <1>1, RequestShape
     DEF RespondOk, SendActivationNotice, tables, Finish, GoTo, TypeOK, Serves
<1>3. w \in Workers /\ (step'[w] = "idle" \/ job'[w] = job[w])
  BY DEF RespondOk, SendActivationNotice, Finish, GoTo, TypeOK
<1>4. ActivationIsBacked' /\ WindowIsPaidFor'
  BY <1>2, ActivationsStay DEF ActivationIsBacked, WindowIsPaidFor
<1>5. ASSUME NEW u \in Users, snapshot[u] = Endless
      PROVE  \E a \in Events : /\ Activates(a, u)'
                               /\ a \notin acked'
                               /\ \A v \in Workers : Serves(v, a)' =>
                                     step'[v] \notin {"notify", "respond"}
  <2>1. PICK a \in Events : /\ Activates(a, u)
                            /\ a \notin acked
                            /\ \A v \in Workers : Serves(v, a) =>
                                  step[v] \notin {"notify", "respond"}
    BY <1>5 DEF EndlessWindowIsPending
  <2>2. a # e
    BY <1>2, <2>1
  <2>3. Activates(a, u)'
    BY <2>1, ActivationsStay
  <2>4. \A v \in Workers : Serves(v, a)' => step'[v] \notin {"notify", "respond"}
    BY <1>1, <1>2, <1>3, <2>1, <2>2 DEF Serves, ByOperator
  <2>5. QED BY <1>2, <2>1, <2>2, <2>3, <2>4
<1>6. EndlessWindowIsPending'
  BY <1>2, <1>5 DEF EndlessWindowIsPending, Endless
<1>7. QED BY <1>4, <1>6

LEMMA WindowsBootstrap ==
    ASSUME WindowsInv, RecordsKept, NEW u \in Users, BootstrapSnapshot(u)
    PROVE  ActivationIsBacked' /\ WindowIsPaidFor' /\ EndlessWindowIsPending'
<1> USE DEF WindowsInv, RecordsInv
<1>1. /\ snapshot'[u] = [label |-> "inactive", until |-> Null]
      /\ \A x \in Users \ {u} : snapshot'[x] = snapshot[x]
      /\ UNCHANGED <<acked, applied, step, job>>
  BY DEF BootstrapSnapshot, UpsertState, TypeOK, requests
<1>2. ActivationIsBacked' /\ WindowIsPaidFor'
  BY <1>1, ActivationsStay DEF ActivationIsBacked, WindowIsPaidFor
<1>3. EndlessWindowIsPending'
  BY <1>1, ActivationsStay DEF EndlessWindowIsPending, Endless, Serves, ByOperator, Activates
<1>4. QED BY <1>2, <1>3

\* Ingesting a fact that every payload of its event agrees with.
LEMMA IngestKeepsDeliveries ==
    ASSUME TypeOK, FactsAreDelivered, NEW e \in Events, NEW fact,
           IngestNormalizedBillingFact(e, fact),
           \A p \in Payloads : p.event = e => PaidFact(p) = fact
    PROVE  FactsAreDelivered'
<1>1. SUFFICES ASSUME NEW p \in Payloads, ledger'[p.event] # Null
               PROVE  ledger'[p.event] = PaidFact(p)
  BY DEF FactsAreDelivered, PaidFact
<1>2. p.event \in Events
  BY FulfillmentAssumption DEF Payload
<1>3. QED BY <1>1, <1>2 DEF TypeOK, FactsAreDelivered, IngestNormalizedBillingFact

\* The ledger holds what was delivered, and the apply records follow it.
LEMMA RecordsFollowDeliveries ==
    ASSUME DeliveriesAgree, WindowsInv, NoticesInv, [Next]_vars
    PROVE  OutcomesFollowFacts' /\ FactsAreDelivered'
<1> USE DEF WindowsInv, RecordsInv
<1>1. OutcomesFollowFacts'
  BY StepsRecordDecideOrTell
     DEF OutcomesFollowFacts, Recorded, Decided, Told, AuditMatchesRecords, TypeOK
<1>2. ASSUME NEW w \in Workers, Ingest(w) PROVE FactsAreDelivered'
  <2>1. PICK q \in Payloads : q = job[w] /\ q.event \in Events
    BY <1>2, RequestShape DEF Ingest, RequestsFollowRecords
  <2>2. IngestNormalizedBillingFact(q.event, PaidFact(q))
    BY <1>2, <2>1 DEF Ingest
  <2>3. \A p \in Payloads : p.event = q.event => PaidFact(p) = PaidFact(q)
    BY DEF DeliveriesAgree, PaidFact
  <2>4. QED BY <2>1, <2>2, <2>3, IngestKeepsDeliveries
<1>3. ASSUME NEW f \in OperatorFacts, OperatorIngest(f) PROVE FactsAreDelivered'
  <2>1. f.event \in Events /\ IngestNormalizedBillingFact(f.event, f.fact)
    BY <1>3, FulfillmentAssumption DEF OperatorIngest, OperatorFact
  <2>2. \A p \in Payloads : p.event = f.event => PaidFact(p) = f.fact
    BY DEF DeliveriesAgree
  <2>3. QED BY <2>1, <2>2, IngestKeepsDeliveries
<1>4. ASSUME ledger' = ledger PROVE FactsAreDelivered'
  BY <1>4 DEF FactsAreDelivered, PaidFact
<1>5. QED
  BY <1>1, <1>2, <1>3, <1>4
     DEF Next, Work, CreateIfAbsent, ApplyNotFound, ApplyReplayed, ApplyBegin, ApplyCommit,
         ApplyConflict, Upsert, SendActivationNotice, RespondOk, Fail, Deliver, Redeliver,
         OperatorApply, BootstrapIdentity, BootstrapSnapshot, vars, tables

\* Snapshots, answers and applied facts stay consistent when the deliveries of
\* an event agree.
THEOREM WindowsInvariant == ASSUME DeliveriesAgree PROVE Spec => []WindowsInv
<1>1. Init => WindowsInv
  BY FulfillmentAssumption
     DEF Init, WindowsInv, OutcomesFollowFacts, FactsAreDelivered, ActivationIsBacked,
         WindowIsPaidFor, EndlessWindowIsPending, Endless, RecordsInv, TypeOK,
         RequestsFollowRecords, AuditMatchesRecords, OkMeansApplied, Snapshot, NoSnapshot,
         SnapshotLabels, Steps, Payload
<1>2. WindowsInv /\ NoticesInv /\ NoticesInv' /\ [Next]_vars => WindowsInv'
  <2> SUFFICES ASSUME WindowsInv, NoticesInv, NoticesInv', [Next]_vars PROVE WindowsInv'
    OBVIOUS
  <2>1. RecordsKept
    BY StepsRecordDecideOrTell
       DEF RecordsKept, Recorded, Decided, Told, NoticesInv, RecordsInv, TypeOK
  <2>2. OutcomesFollowFacts' /\ FactsAreDelivered'
    BY RecordsFollowDeliveries
  <2> DEFINE Meaning == ActivationIsBacked /\ WindowIsPaidFor /\ EndlessWindowIsPending
  <2>3. ASSUME NEW w \in Workers,
               \/ CreateIfAbsent(w) \/ Ingest(w) \/ ApplyNotFound(w) \/ ApplyReplayed(w)
               \/ ApplyBegin(w) \/ ApplyConflict(w) \/ Fail(w)
        PROVE  Meaning'
    BY <2>1, <2>3, QuietStep
       DEF CreateIfAbsent, Ingest, ApplyNotFound, ApplyReplayed, ApplyBegin, ApplyConflict, Fail,
           GoTo, Finish, AfterIngest, AfterReplay, tables, WindowsInv, RecordsInv, TypeOK
  <2>4. ASSUME NEW w \in Workers,
               \/ \E p \in Payloads : Deliver(w, p) \/ Redeliver(w, p)
               \/ \E e \in OperatorApplies : OperatorApply(w, e)
        PROVE  Meaning'
    BY <2>1, <2>4, QuietStep
       DEF Deliver, Redeliver, OperatorApply, Start, tables, WindowsInv, RecordsInv, TypeOK
  <2>5. ASSUME UNCHANGED <<snapshot, requests, acked>> PROVE Meaning'
    BY <2>1, <2>5, QuietStep DEF requests
  <2>6. ASSUME NEW w \in Workers, Work(w) PROVE Meaning'
    BY <2>1, <2>3, <2>6, WindowsCommit, WindowsUpsert, WindowsRespond DEF Work, NoticesInv
  <2>7. ASSUME NEW u \in Users, BootstrapSnapshot(u) PROVE Meaning'
    BY <2>1, <2>7, WindowsBootstrap
  <2>8. Meaning'
    BY <2>3, <2>4, <2>5, <2>6, <2>7 DEF Next, OperatorIngest, BootstrapIdentity, vars, tables
  <2>9. QED BY <2>2, <2>8 DEF WindowsInv, NoticesInv
<1>3. QED BY <1>1, <1>2, NoticesInvariant, PTL DEF Spec

\* An active user has paid.
THEOREM ActivationIsAlwaysBacked == ASSUME DeliveriesAgree PROVE Spec => []ActivationIsBacked
  BY WindowsInvariant, PTL DEF WindowsInv

\* The end of a window is the end of a window the user paid for.
THEOREM WindowIsAlwaysPaidFor == ASSUME DeliveriesAgree PROVE Spec => []WindowIsPaidFor
  BY WindowsInvariant, PTL DEF WindowsInv

\* An endless window never hides behind a 200.
THEOREM EndlessWindowStaysUnacknowledged ==
    ASSUME DeliveriesAgree PROVE Spec => []EndlessWindowIsUnacknowledged
<1>1. EndlessWindowIsPending => EndlessWindowIsUnacknowledged
  BY DEF EndlessWindowIsPending, EndlessWindowIsUnacknowledged
<1>2. QED BY <1>1, WindowsInvariant, PTL DEF WindowsInv

=============================================================================
