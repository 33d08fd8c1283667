---------------------------- MODULE Fulfillment -----------------------------
(***************************************************************************)
(* From a paid event to an active subscription.                            *)
(*                                                                         *)
(* Requests of the payment-fulfillment ingress, and the operator's ingest  *)
(* and apply commands, run concurrently over one PostgreSQL database. A    *)
(* request awaits five times between the statements it runs: create the    *)
(* identity, ingest the fact (one transaction), apply the fact (another    *)
(* transaction), upsert the snapshot, send the notice. Another request, or *)
(* a failure, may come between any two of them. The provider delivers each *)
(* event until it is answered 200, and may deliver it more often.          *)
(*                                                                         *)
(* A ledger row is named by its external event id: the ledger holds one    *)
(* row per (provider, external id), so internal_fact_ref is a renaming.    *)
(***************************************************************************)
EXTENDS BillingRules, Naturals, FiniteSets

CONSTANTS Events,        \* external event ids
          Payloads,      \* what the provider may deliver, once validated
          OperatorFacts, \* what the operator may ingest by hand
          OperatorApplies, \* the events the operator may apply by hand
          Workers,       \* concurrent requests
          Null,          \* SQL NULL
          MaxFailures,   \* bound on failed statements and crashes
          MaxDuplicates  \* bound on deliveries of an event that needs none

Payload == [event : Events, user : Users, until : Nat]
OperatorFact == [event : Events, fact : Fact]

ApplyRecord == [user : Users \union {NoUser}, outcome : ApplyOutcomes]

\* A request of the ingress asks for a payload; the operator's apply command
\* names an event and brings neither user nor window.
OperatorJob(e) == [event |-> e, user |-> NoUser, until |-> Null]
Job == Payload \union {OperatorJob(e) : e \in Events}

ASSUME FulfillmentAssumption ==
    /\ Payloads \subseteq Payload
    /\ OperatorFacts \subseteq OperatorFact
    /\ OperatorApplies \subseteq Events
    /\ Null \notin Nat
    /\ Null \notin Fact \union ApplyRecord \union Job
    /\ MaxFailures \in Nat
    /\ MaxDuplicates \in Nat

VARIABLES identities,  \* users with a user_identities row
          ledger,      \* billing_events_ledger by event; Null is no row
          ingestAudit, \* ingestion audit rows of each fact with outcome 'accepted'
          replayAudit, \* and those with outcome 'idempotent_replay'
          applied,     \* billing_subscription_apply_records by fact; Null is no row
          applyAudit,  \* apply audit rows of each fact
          snapshot,    \* subscription_snapshots by user
          step,        \* the statement each worker runs next, or "idle"
          job,         \* what its request asks for
          firsts,      \* workers whose own apply activated: SUCCESS, not a replay,
                       \* ACTIVE_APPLIED
          notices,     \* activation notices sent for each event
          acked,       \* events the provider has been answered 200 for
          failures,
          duplicates

tables == <<identities, ledger, ingestAudit, replayAudit, applied, applyAudit, snapshot>>
requests == <<step, job, firsts>>
bounds == <<failures, duplicates>>
vars == <<tables, requests, notices, acked, bounds>>

Snapshot == [label : SnapshotLabels, until : Nat \union {Null}]
NoSnapshot == [label |-> "absent", until |-> Null]
Endless == [label |-> "active", until |-> Null]

\* "commit" is the rest of the apply transaction, after its reads.
Steps == {"idle", "identity", "ingest", "apply", "commit", "upsert", "notify", "respond"}

ByOperator(w) == job[w].user = NoUser
Serves(w, e) == step[w] # "idle" /\ ~ByOperator(w) /\ job[w].event = e

TypeOK ==
    /\ identities \subseteq Users
    /\ ledger \in [Events -> Fact \union {Null}]
    /\ ingestAudit \in [Events -> Nat]
    /\ replayAudit \in [Events -> Nat]
    /\ applied \in [Events -> ApplyRecord \union {Null}]
    /\ applyAudit \in [Events -> Nat]
    /\ snapshot \in [Users -> Snapshot]
    /\ step \in [Workers -> Steps]
    /\ job \in [Workers -> Job \union {Null}]
    /\ \A w \in Workers :
          /\ step[w] = "idle" <=> job[w] = Null
          /\ step[w] \notin {"idle", "apply", "commit"} => job[w] \in Payload
    /\ firsts \subseteq Workers
    /\ notices \in [Events -> Nat]
    /\ acked \subseteq Events
    /\ failures \in 0..MaxFailures
    /\ duplicates \in 0..MaxDuplicates

Init ==
    /\ identities = {}
    /\ ledger = [e \in Events |-> Null]
    /\ ingestAudit = [e \in Events |-> 0]
    /\ replayAudit = [e \in Events |-> 0]
    /\ applied = [e \in Events |-> Null]
    /\ applyAudit = [e \in Events |-> 0]
    /\ snapshot = [u \in Users |-> NoSnapshot]
    /\ step = [w \in Workers |-> "idle"]
    /\ job = [w \in Workers |-> Null]
    /\ firsts = {}
    /\ notices = [e \in Events |-> 0]
    /\ acked = {}
    /\ failures = 0
    /\ duplicates = 0

-----------------------------------------------------------------------------
(* The statements. *)

GoTo(w, s) == step' = [step EXCEPT ![w] = s] /\ UNCHANGED <<job, firsts>>

Start(w, j, s) ==
    /\ step[w] = "idle"
    /\ step' = [step EXCEPT ![w] = s]
    /\ job' = [job EXCEPT ![w] = j]
    /\ firsts' = firsts \ {w}

Finish(w) ==
    /\ step' = [step EXCEPT ![w] = "idle"]
    /\ job' = [job EXCEPT ![w] = Null]
    /\ firsts' = firsts \ {w}

\* Defect: the last delivery of an event wins.
IngestOverwriting(e, fact) ==
    /\ ledger' = [ledger EXCEPT ![e] = fact]
    /\ ingestAudit' = [ingestAudit EXCEPT ![e] = IF ledger[e] = Null THEN @ + 1 ELSE @]
    /\ replayAudit' = [replayAudit EXCEPT ![e] = IF ledger[e] = Null THEN @ ELSE @ + 1]

\* One transaction: the row if it is new, and an audit row either way.
IngestNormalizedBillingFact(e, fact) ==
    IF ledger[e] = Null
    THEN /\ ledger' = [ledger EXCEPT ![e] = fact]
         /\ ingestAudit' = [ingestAudit EXCEPT ![e] = @ + 1]
         /\ UNCHANGED replayAudit
    ELSE /\ replayAudit' = [replayAudit EXCEPT ![e] = @ + 1]
         /\ UNCHANGED <<ledger, ingestAudit>>

\* Defect: the upsert loses the column active_until_utc.
UpsertStateWithoutWindow(u, label, until) ==
    snapshot' = [snapshot EXCEPT ![u] = [label |-> label]]

\* Defect: the upsert extends the window it finds.
UpsertStateAddingWindows(u, label, until) ==
    snapshot' = [snapshot EXCEPT ![u] = [label |-> label,
        until |-> IF @.until # Null /\ until # Null THEN @.until + until ELSE until]]

\* ON CONFLICT DO UPDATE: whatever was there is overwritten.
UpsertState(u, label, until) ==
    snapshot' = [snapshot EXCEPT ![u] = [label |-> label, until |-> until]]

\* Defect: nothing stops a second apply of a fact.
WithoutPrimaryKey(e) == TRUE

\* The primary key of billing_subscription_apply_records: one row per fact.
NotApplied(e) == applied[e] = Null

(* The ingress: one action per awaited statement of _handler. *)

\* The provider still owes itself a 200 for the event and has no request open.
AwaitsDelivery(e) == e \notin acked /\ \A w \in Workers : ~Serves(w, e)

Deliver(w, p) ==
    /\ AwaitsDelivery(p.event)
    /\ Start(w, p, "identity")
    /\ UNCHANGED <<tables, notices, acked, bounds>>

Redeliver(w, p) ==
    /\ ~AwaitsDelivery(p.event)
    /\ duplicates < MaxDuplicates
    /\ duplicates' = duplicates + 1
    /\ Start(w, p, "identity")
    /\ UNCHANGED <<tables, notices, acked, failures>>

CreateIfAbsent(w) ==
    /\ step[w] = "identity"
    /\ identities' = identities \union {job[w].user}
    /\ GoTo(w, "ingest")
    /\ UNCHANGED <<ledger, ingestAudit, replayAudit, applied, applyAudit, snapshot,
                   notices, acked, bounds>>

\* The fact the ingress makes of a payload.
PaidFact(p) == [status |-> "accepted", type |-> "subscription_activated", user |-> p.user]

\* Defect: an ingest that replays is answered at once.
AfterIngestSkippingReplays(w) ==
    GoTo(w, IF ledger[job[w].event] = Null THEN "apply" ELSE "respond")

\* Where a request goes from the ingest: it applies new facts and replays alike.
AfterIngest(w) == GoTo(w, "apply")

Ingest(w) ==
    /\ step[w] = "ingest"
    /\ IngestNormalizedBillingFact(job[w].event, PaidFact(job[w]))
    /\ AfterIngest(w)
    /\ UNCHANGED <<identities, applied, applyAudit, snapshot,
                   notices, acked, bounds>>

\* NOT_FOUND: a 409, or exit code 1 of the operator's command.
ApplyNotFound(w) ==
    /\ step[w] = "apply"
    /\ ledger[job[w].event] = Null
    /\ Finish(w)
    /\ UNCHANGED <<tables, notices, acked, bounds>>

\* Defects: a replayed apply is answered 200 without the upsert, is announced
\* again, or is taken for a conflict and tried again.
AfterReplaySkippingUpsert(w) == GoTo(w, "respond")
AfterReplayAsFirst(w) ==
    step' = [step EXCEPT ![w] = "upsert"] /\ firsts' = firsts \union {w} /\ UNCHANGED job
AfterReplayRetrying(w) == GoTo(w, "apply")

\* After SUCCESS or IDEMPOTENT_NOOP alike the handler upserts.
AfterReplay(w) == GoTo(w, "upsert")

\* The apply record is there: IDEMPOTENT_NOOP.
ApplyReplayed(w) ==
    /\ step[w] = "apply"
    /\ ledger[job[w].event] # Null
    /\ ~NotApplied(job[w].event)
    /\ IF ByOperator(w) THEN Finish(w) ELSE AfterReplay(w)
    /\ UNCHANGED <<tables, notices, acked, bounds>>

ApplyBegin(w) ==
    /\ step[w] = "apply"
    /\ ledger[job[w].event] # Null
    /\ NotApplied(job[w].event)
    /\ GoTo(w, "commit")
    /\ UNCHANGED <<tables, notices, acked, bounds>>

\* Snapshot, apply record and apply audit row, committed together.
ApplyCommit(w) ==
    LET e == job[w].event
        fact == ledger[e]
        decision == FirstTimeDecision(fact)
    IN  /\ step[w] = "commit"
        /\ NotApplied(e)
        /\ IF decision.label = "absent" THEN UNCHANGED snapshot
           ELSE UpsertState(fact.user, decision.label, Null)
        /\ applied' = [applied EXCEPT ![e] = [user |-> fact.user, outcome |-> decision.outcome]]
        /\ applyAudit' = [applyAudit EXCEPT ![e] = @ + 1]
        /\ IF ByOperator(w) THEN Finish(w)
           ELSE /\ step' = [step EXCEPT ![w] = "upsert"]
                /\ firsts' = IF decision.outcome = "active_applied" THEN firsts \union {w} ELSE firsts
                /\ UNCHANGED job
        /\ UNCHANGED <<identities, ledger, ingestAudit, replayAudit, notices, acked, bounds>>

\* Another request committed the record since our read: the primary key makes
\* this transaction roll back, and the request ends in a 503.
ApplyConflict(w) ==
    /\ step[w] = "commit"
    /\ ~NotApplied(job[w].event)
    /\ Finish(w)
    /\ UNCHANGED <<tables, notices, acked, bounds>>

\* SUCCESS and IDEMPOTENT_NOOP alike, whatever the apply outcome was.
Upsert(w) ==
    /\ step[w] = "upsert"
    /\ UpsertState(job[w].user, "active", job[w].until)
    /\ GoTo(w, IF w \in firsts THEN "notify" ELSE "respond")
    /\ UNCHANGED <<identities, ledger, ingestAudit, replayAudit, applied, applyAudit,
                   notices, acked, bounds>>

\* Best effort: a notifier that fails is ignored.
SendActivationNotice(w) ==
    /\ step[w] = "notify"
    /\ \E n \in {0, 1} : notices' = [notices EXCEPT ![job[w].event] = @ + n]
    /\ GoTo(w, "respond")
    /\ UNCHANGED <<tables, acked, bounds>>

RespondOk(w) ==
    /\ step[w] = "respond"
    /\ acked' = acked \union {job[w].event}
    /\ Finish(w)
    /\ UNCHANGED <<tables, notices, bounds>>

\* A statement raises (503), the process dies, or the answer is lost.
Fail(w) ==
    /\ step[w] # "idle"
    /\ failures < MaxFailures
    /\ failures' = failures + 1
    /\ Finish(w)
    /\ UNCHANGED <<tables, notices, acked, duplicates>>

(* The operator's commands, and the bot's /start, which share the tables. *)

OperatorIngest(f) ==
    /\ ledger[f.event] # Null => duplicates < MaxDuplicates
    /\ duplicates' = IF ledger[f.event] = Null THEN duplicates ELSE duplicates + 1
    /\ IngestNormalizedBillingFact(f.event, f.fact)
    /\ UNCHANGED <<identities, applied, applyAudit, snapshot, requests, notices, acked, failures>>

OperatorApply(w, e) ==
    /\ Start(w, OperatorJob(e), "apply")
    /\ UNCHANGED <<tables, notices, acked, bounds>>

\* UC-01 creates the identity, then an inactive snapshot when there is none.
BootstrapIdentity(u) ==
    /\ u \notin identities
    /\ identities' = identities \union {u}
    /\ UNCHANGED <<ledger, ingestAudit, replayAudit, applied, applyAudit, snapshot,
                   requests, notices, acked, bounds>>

BootstrapSnapshot(u) ==
    /\ u \in identities
    /\ snapshot[u] = NoSnapshot
    /\ UpsertState(u, "inactive", Null)
    /\ UNCHANGED <<identities, ledger, ingestAudit, replayAudit, applied, applyAudit,
                   requests, notices, acked, bounds>>

-----------------------------------------------------------------------------

Work(w) ==
    \/ CreateIfAbsent(w)
    \/ Ingest(w)
    \/ ApplyNotFound(w)
    \/ ApplyReplayed(w)
    \/ ApplyBegin(w)
    \/ ApplyCommit(w)
    \/ ApplyConflict(w)
    \/ Upsert(w)
    \/ SendActivationNotice(w)
    \/ RespondOk(w)

Next ==
    \/ \E w \in Workers :
          \/ Work(w)
          \/ Fail(w)
          \/ \E p \in Payloads : Deliver(w, p) \/ Redeliver(w, p)
          \/ \E e \in OperatorApplies : OperatorApply(w, e)
    \/ \E f \in OperatorFacts : OperatorIngest(f)
    \/ \E u \in Users : BootstrapIdentity(u) \/ BootstrapSnapshot(u)

Spec == Init /\ [][Next]_vars

\* A request that was accepted runs on (asyncio resumes a ready task), and the
\* provider retries an event it has not been answered 200 for.
Fairness ==
    /\ \A w \in Workers : WF_vars(Work(w))
    /\ \A p \in Payloads : WF_vars(\E w \in Workers : Deliver(w, p))

FairSpec == Spec /\ Fairness

-----------------------------------------------------------------------------
(* Safety. *)

Activates(e, u) == applied[e] # Null /\ applied[e].user = u /\ applied[e].outcome = "active_applied"

\* Nobody is active unpaid: whatever overwrote the snapshot last, and in
\* whichever order requests of several workers interleaved, an active user has
\* a fact that was recorded, accepted and applied as an activation of that very
\* user. (Stated for deliveries that agree with what the ledger may hold.)
ActivationIsBacked ==
    \A u \in Users : snapshot[u].label = "active" => \E e \in Events : Activates(e, u)

\* The end of a window is never invented: it is that of a payment of this user
\* whose fact is in the ledger and was applied.
WindowIsPaidFor ==
    \A u \in Users : snapshot[u].until # Null =>
        \E p \in Payloads : p.user = u /\ p.until = snapshot[u].until /\ applied[p.event] # Null

\* An active subscription without an end never expires. It exists only while
\* some event applied to the user has not been acknowledged, so that whoever
\* delivers that event again repairs it; no crash, conflict or interleaving of
\* the apply transaction and the separate upsert leaves one behind a 200.
EndlessWindowIsUnacknowledged ==
    \A u \in Users : snapshot[u] = Endless =>
        \E e \in Events : Activates(e, u) /\ e \notin acked

\* A 200 means the payment has been recorded and applied, for a user the bot
\* knows: the provider never stops retrying earlier.
OkMeansApplied ==
    \A e \in acked : /\ ledger[e] # Null
                     /\ applied[e] # Null
                     /\ \E p \in Payloads : p.event = e /\ p.user \in identities

\* However often an event is delivered, by however many workers at once, the
\* user is notified at most once, and only of an activation that was recorded.
AtMostOneNotice ==
    \A e \in Events : /\ notices[e] <= 1
                      /\ notices[e] = 1 => \E u \in Users : Activates(e, u)

\* The audit trail counts what happened: one 'accepted' row per ledger row, one
\* apply row per apply record, whoever lost a race or crashed on the way.
AuditMatchesRecords ==
    \A e \in Events :
        /\ ingestAudit[e] = IF ledger[e] = Null THEN 0 ELSE 1
        /\ applyAudit[e] = IF applied[e] = Null THEN 0 ELSE 1
        /\ applied[e] # Null => ledger[e] # Null

\* The ledger is append-only and an apply outcome is final.
RecordsKept ==
    \A e \in Events : /\ ledger[e] # Null => ledger'[e] = ledger[e]
                      /\ applied[e] # Null => applied'[e] = applied[e]
RecordsAreFinal == [][RecordsKept]_vars

\* Every event is recorded, decided and told at most once: see ApplyOnce.
Abstract == INSTANCE ApplyOnce WITH
    facts <- ledger, outcomes <- applied, told <- {e \in Events : notices[e] > 0}
RefinesApplyOnce == Abstract!Spec

(* The strengthening that makes the safety properties inductive. *)

\* What the step of a request says of the tables: the statements behind it have
\* been committed, by this request or by another.
RequestsFollowRecords ==
    \A w \in Workers : step[w] # "idle" =>
        /\ ~ByOperator(w) => job[w] \in Payloads
        /\ step[w] = "commit" => ledger[job[w].event] # Null
        /\ ~ByOperator(w) /\ step[w] # "identity" => job[w].user \in identities
        /\ step[w] \in {"upsert", "notify", "respond"} => applied[job[w].event] # Null

\* A worker that is about to notify is alone in that, and nobody did before.
Telling(w) == w \in firsts /\ step[w] \in {"upsert", "notify"}
OneTeller ==
    /\ \A w \in firsts : step[w] \in {"upsert", "notify", "respond"}
    /\ \A w \in Workers : step[w] = "notify" => w \in firsts
    /\ \A w \in Workers : Telling(w) =>
          /\ \E u \in Users : Activates(job[w].event, u)
          /\ notices[job[w].event] = 0
          /\ \A v \in Workers : Telling(v) /\ job[v].event = job[w].event => v = w

\* An endless window has a witness: an applied event that nobody is about to
\* acknowledge.
EndlessWindowIsPending ==
    \A u \in Users : snapshot[u] = Endless =>
        \E e \in Events : /\ Activates(e, u)
                         /\ e \notin acked
                         /\ \A w \in Workers : Serves(w, e) => step[w] \notin {"notify", "respond"}

\* The apply record is the decision about the ledger row.
OutcomesFollowFacts ==
    \A e \in Events : applied[e] # Null =>
        applied[e] = [user |-> ledger[e].user, outcome |-> FirstTimeDecision(ledger[e]).outcome]

\* Whoever brings an event brings the same fact.
DeliveriesAgree ==
    /\ \A p, q \in Payloads : p.event = q.event => p.user = q.user
    /\ \A p \in Payloads, f \in OperatorFacts : p.event = f.event => f.fact = PaidFact(p)

FactsAreDelivered ==
    \A p \in Payloads : ledger[p.event] # Null => ledger[p.event] = PaidFact(p)

RecordsInv == TypeOK /\ RequestsFollowRecords /\ AuditMatchesRecords /\ OkMeansApplied
NoticesInv == RecordsInv /\ OneTeller /\ AtMostOneNotice
WindowsInv == /\ RecordsInv /\ OutcomesFollowFacts /\ FactsAreDelivered
              /\ ActivationIsBacked /\ WindowIsPaidFor /\ EndlessWindowIsPending

(* Liveness. *)

\* A provider that keeps retrying gets its 200, and by then the payment counts.
EveryPaymentIsHonoured == \A p \in Payloads : <>(p.event \in acked)

\* An activation without an end, left by a crash between the apply transaction
\* and the upsert, does not last.
EndlessWindowCloses ==
    \A u \in Users : snapshot[u] = Endless ~> snapshot[u] # Endless

(* What the documents say, and the code does not do. *)

\* docs/architecture/30: the replay of a fact has no new lifecycle effect.
ReplayHasNoEffect ==
    [][\A w \in Workers : Upsert(w) /\ job[w].event \in acked => UNCHANGED snapshot]_vars

=============================================================================
