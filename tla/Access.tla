------------------------------- MODULE Access -------------------------------
(***************************************************************************)
(* Who gives and takes access, over one table of snapshots and one of      *)
(* issuance rows: the bot's /get_access and /status, the support call      *)
(* ensure-access, the operator's command, and the reconcile job with the   *)
(* health check that watches it. Billing writes the snapshots.             *)
(*                                                                         *)
(* A handler is cut at its awaits. Of a call of the issuance service it    *)
(* keeps the statements on the table; its memory, refs and instructions    *)
(* are the business of Issuance. One clock serves every process and the    *)
(* database; the bot is one process, the admin service another.            *)
(***************************************************************************)
EXTENDS Naturals

CONSTANTS Users,
          IssueKeys,
          EnsureKey,      \* the deterministic key of ensure-access
          BotCalls, AdminCalls, Jobs,
          Cooldown,       \* ticks between two /get_access of a user
          MaxInterval,    \* ticks after which the health check calls a run stale
          MaxTime,        \* bound on the clock
          MaxPayments,    \* bound on what billing writes
          MaxFailures,    \* bound on failed statements, refusals and crashes
          Null

ASSUME AccessAssumption ==
    /\ EnsureKey \in IssueKeys
    /\ {Cooldown, MaxInterval, MaxTime, MaxPayments, MaxFailures} \subseteq Nat
    /\ BotCalls \cap AdminCalls = {}
ASSUME NullAssumption == Null \notin Nat \union Users \union IssueKeys

Times == 0..MaxTime
Calls == BotCalls \union AdminCalls
SnapshotLabels == {"active", "needs_review", "inactive"}
Snapshot == [label : SnapshotLabels, until : Times \union {Null}, updated : Times]
Row == [state : {"issued", "revoked"}, created : Times]
NoRow == [state |-> "none", created |-> 0]
Run == [status : {"none", "started", "completed", "failed"}, started : Times]

BotSteps == {"expiredLookup", "markExpired", "lookup", "fetch", "instruct", "statusLookup"}
EnsureSteps == {"readIssuance", "ensureFetch", "persist", "postRead"}
AdminSteps == EnsureSteps \union {"audit"}
Steps == {"idle"} \union BotSteps \union AdminSteps
BotOutcomes == {"not_eligible", "cooldown", "not_ready", "accepted", "temporarily_unavailable",
                "inactive", "expired", "active_ready", "active_not_ready", "error"}
EnsureOutcomes == {"noop_no_active_subscription", "noop_access_already_ready", "issued_access",
                   "failed_safe"}
Outcomes == {"none"} \union BotOutcomes \union EnsureOutcomes

VARIABLES now,
          snapshot,    \* subscription_snapshots
          rows,        \* issuance_state
          current,     \* the row of a user that was updated last
          remembered,  \* users whose ensure key the admin process knows as issued
          nextAllowed, \* cooldown of the bot process
          step,        \* what a call awaits
          user,        \* whom it is about
          held,        \* the key it has read, whether the label was active, or
                       \* whether the row is newly issued
          began,       \* when
          outcome,     \* its last outcome, or the one that is being audited
          run,         \* access_reconcile_runs: the last run of each job
          jobStep,
          latest,      \* the job that started last
          payments, failures

tables == <<snapshot, rows, current>>
memory == <<remembered, nextAllowed>>
calls == <<step, user, held, began, outcome>>
jobs == <<run, jobStep, latest>>
bounds == <<payments, failures>>
vars == <<now, tables, memory, calls, jobs, bounds>>

TypeOK ==
    /\ now \in Times
    /\ snapshot \in [Users -> Snapshot]
    /\ rows \in [Users \X IssueKeys -> Row \union {NoRow}]
    /\ current \in [Users -> IssueKeys \union {Null}]
    /\ remembered \subseteq Users
    /\ nextAllowed \in [Users -> Nat]
    /\ step \in [Calls -> Steps]
    /\ user \in [Calls -> Users \union {Null}]
    /\ held \in [Calls -> IssueKeys \union BOOLEAN \union {Null}]
    /\ began \in [Calls -> Times]
    /\ outcome \in [Calls -> Outcomes]
    /\ run \in [Jobs -> Run]
    /\ jobStep \in [Jobs -> {"idle", "reconcile", "complete", "fail"}]
    /\ latest \in Jobs \union {Null}
    /\ payments \in 0..MaxPayments
    /\ failures \in 0..MaxFailures
    /\ \A c \in Calls :
          /\ step[c] # "idle" => user[c] # Null
          /\ step[c] \in {"markExpired", "fetch", "instruct"} => held[c] \in IssueKeys
          /\ step[c] \in {"readIssuance", "postRead"} => held[c] \in BOOLEAN

Init ==
    /\ now = 0
    /\ snapshot = [u \in Users |-> [label |-> "inactive", until |-> Null, updated |-> 0]]
    /\ rows = [x \in Users \X IssueKeys |-> NoRow]
    /\ current = [u \in Users |-> Null]
    /\ remembered = {}
    /\ nextAllowed = [u \in Users |-> 0]
    /\ step = [c \in Calls |-> "idle"]
    /\ user = [c \in Calls |-> Null]
    /\ held = [c \in Calls |-> Null]
    /\ began = [c \in Calls |-> 0]
    /\ outcome = [c \in Calls |-> "none"]
    /\ run = [j \in Jobs |-> [status |-> "none", started |-> 0]]
    /\ jobStep = [j \in Jobs |-> "idle"]
    /\ latest = Null
    /\ payments = 0 /\ failures = 0

Tick == now < MaxTime /\ now' = now + 1 /\ UNCHANGED <<tables, memory, calls, jobs, bounds>>

-----------------------------------------------------------------------------
(* Expiry, as each reader decides it. *)

ActiveLabel(u) == snapshot[u].label = "active"

\* Defect: a window has a moment of grace.
SeesExpiredLate(u) == ActiveLabel(u) /\ snapshot[u].until # Null /\ now > snapshot[u].until + 1

\* /status and /get_access: after the end of the window.
SeesExpired(u) == ActiveLabel(u) /\ snapshot[u].until # Null /\ now > snapshot[u].until

\* Defect: the reconcile statement takes the last moment for expired.
ReconcileTooSoon(u, t) == ActiveLabel(u) /\ snapshot[u].until # Null /\ snapshot[u].until <= t

\* The EXISTS of the reconcile statement, for its parameter t.
ReconcileSeesExpired(u, t) == ActiveLabel(u) /\ snapshot[u].until # Null /\ snapshot[u].until < t

(* Rows. Of rows updated at the same moment, as the reconcile job leaves them,
   all are revoked: which of them is current makes no difference. *)

Issued(u, k) == rows[<<u, k>>].state = "issued"
CurrentIssued(u) == current[u] # Null /\ Issued(u, current[u])

\* Defect: the insert takes over a row that exists.
InsertRowOver(u, k) ==
    /\ rows' = [rows EXCEPT ![<<u, k>>] = [state |-> "issued", created |-> now]]
    /\ current' = [current EXCEPT ![u] = k]

\* INSERT ON CONFLICT DO NOTHING.
InsertRow(u, k) ==
    IF rows[<<u, k>>] = NoRow
    THEN /\ rows' = [rows EXCEPT ![<<u, k>>] = [state |-> "issued", created |-> now]]
         /\ current' = [current EXCEPT ![u] = k]
    ELSE UNCHANGED <<rows, current>>

Revoked(row) == [state |-> "revoked", created |-> row.created]

\* UPDATE of an issued row; any other stays as it is.
MarkRow(u, k) ==
    IF Issued(u, k)
    THEN /\ rows' = [rows EXCEPT ![<<u, k>>] = Revoked(rows[<<u, k>>])]
         /\ current' = [current EXCEPT ![u] = k]
    ELSE UNCHANGED <<rows, current>>

(* Calls. *)

Begin(c, u) ==
    /\ step[c] = "idle"
    /\ user' = [user EXCEPT ![c] = u]
    /\ began' = [began EXCEPT ![c] = now]

Await(c, s, h) ==
    /\ step' = [step EXCEPT ![c] = s]
    /\ held' = [held EXCEPT ![c] = h]
    /\ UNCHANGED outcome

Reply(c, o) ==
    /\ step' = [step EXCEPT ![c] = "idle"]
    /\ held' = [held EXCEPT ![c] = Null]
    /\ outcome' = [outcome EXCEPT ![c] = o]

At(c, s) == step[c] = s /\ UNCHANGED <<user, began>>

-----------------------------------------------------------------------------
(* The bot: /get_access. *)

CooldownOver(u) == nextAllowed[u] <= now

\* Defect: the next window follows the last one, not the call.
NextAllowedAfterLast(u) == nextAllowed[u] + Cooldown

NextAllowed(u) == now + Cooldown

\* The snapshot has arrived: what follows up to the next await reads the clock
\* and, for an open window, consumes the cooldown.
GetAccess(c, u) ==
    /\ Begin(c, u)
    /\ \/ ~ActiveLabel(u) /\ Reply(c, "not_eligible") /\ UNCHANGED nextAllowed
       \/ SeesExpired(u) /\ Await(c, "expiredLookup", Null) /\ UNCHANGED nextAllowed
       \/ /\ ActiveLabel(u) /\ ~SeesExpired(u) /\ CooldownOver(u)
          /\ nextAllowed' = [nextAllowed EXCEPT ![u] = NextAllowed(u)]
          /\ Await(c, "lookup", Null)
       \/ /\ ActiveLabel(u) /\ ~SeesExpired(u) /\ ~CooldownOver(u)
          /\ Reply(c, "cooldown")
          /\ UNCHANGED nextAllowed
    /\ UNCHANGED <<now, tables, remembered, jobs, bounds>>

\* Defect: a user without a row is not told apart.
ExpiredLookupUnchecked(c) ==
    /\ At(c, "expiredLookup")
    /\ Await(c, "markExpired", current[user[c]])
    /\ UNCHANGED <<now, tables, memory, jobs, bounds>>

ExpiredLookup(c) ==
    /\ At(c, "expiredLookup")
    /\ IF CurrentIssued(user[c]) THEN Await(c, "markExpired", current[user[c]])
       ELSE Reply(c, "not_eligible")
    /\ UNCHANGED <<now, tables, memory, jobs, bounds>>

MarkExpired(c) ==
    /\ At(c, "markExpired")
    /\ MarkRow(user[c], held[c])
    /\ Reply(c, "not_eligible")
    /\ UNCHANGED <<now, snapshot, memory, jobs, bounds>>

Lookup(c) ==
    /\ At(c, "lookup")
    /\ IF CurrentIssued(user[c]) THEN Await(c, "fetch", current[user[c]]) ELSE Reply(c, "not_ready")
    /\ UNCHANGED <<now, tables, memory, jobs, bounds>>

\* The service looks the row up again.
Fetch(c) ==
    /\ At(c, "fetch")
    /\ IF Issued(user[c], held[c]) THEN Await(c, "instruct", held[c]) ELSE Reply(c, "not_ready")
    /\ UNCHANGED <<now, tables, memory, jobs, bounds>>

Instruct(c) ==
    /\ At(c, "instruct")
    /\ Reply(c, "accepted")
    /\ UNCHANGED <<now, tables, memory, jobs, bounds>>

(* The bot: /status. *)

Status(c, u) ==
    /\ Begin(c, u)
    /\ \/ ~ActiveLabel(u) /\ Reply(c, "inactive")
       \/ SeesExpired(u) /\ Reply(c, "expired")
       \/ ActiveLabel(u) /\ ~SeesExpired(u) /\ Await(c, "statusLookup", Null)
    /\ UNCHANGED <<now, tables, memory, jobs, bounds>>

StatusLookup(c) ==
    /\ At(c, "statusLookup")
    /\ Reply(c, IF CurrentIssued(user[c]) THEN "active_ready" ELSE "active_not_ready")
    /\ UNCHANGED <<now, tables, memory, jobs, bounds>>

(* The admin service: ensure access. Whatever the result, an audit event is
   appended before it is returned: it answers what was read some awaits ago. *)

Settle(c, o) ==
    /\ step' = [step EXCEPT ![c] = "audit"]
    /\ held' = [held EXCEPT ![c] = Null]
    /\ outcome' = [outcome EXCEPT ![c] = o]

\* The label decides; the end of the window is not read.
EnsureAccess(c, u) ==
    /\ Begin(c, u)
    /\ Await(c, "readIssuance", ActiveLabel(u))
    /\ UNCHANGED <<now, tables, memory, jobs, bounds>>

ReadIssuance(c) ==
    LET u == user[c]
    IN  /\ At(c, "readIssuance")
        /\ \/ ~held[c] /\ Settle(c, "noop_no_active_subscription")
           \/ held[c] /\ CurrentIssued(u) /\ Settle(c, "noop_access_already_ready")
           \/ held[c] /\ ~CurrentIssued(u) /\ u \in remembered /\ Await(c, "postRead", FALSE)
           \/ held[c] /\ ~CurrentIssued(u) /\ u \notin remembered /\ Await(c, "ensureFetch", Null)
        /\ UNCHANGED <<now, tables, memory, jobs, bounds>>

EnsureFetch(c) ==
    LET row == rows[<<user[c], EnsureKey>>]
    IN  /\ At(c, "ensureFetch")
        /\ \/ row = NoRow /\ Await(c, "persist", Null) /\ UNCHANGED remembered
           \/ /\ row.state = "issued"
              /\ remembered' = remembered \union {user[c]}
              /\ Await(c, "postRead", FALSE)
           \/ row.state = "revoked" /\ Settle(c, "failed_safe") /\ UNCHANGED remembered
        /\ UNCHANGED <<now, tables, nextAllowed, jobs, bounds>>

\* The row may have been written, or even revoked, since it was looked up.
Persist(c) ==
    /\ At(c, "persist")
    /\ InsertRow(user[c], EnsureKey)
    /\ remembered' = remembered \union {user[c]}
    /\ Await(c, "postRead", TRUE)
    /\ UNCHANGED <<now, snapshot, nextAllowed, jobs, bounds>>

ReadyAnswer(c) == IF held[c] THEN "issued_access" ELSE "noop_access_already_ready"

\* Defect: what the service has answered is believed.
PostReadTrusting(c) ==
    /\ At(c, "postRead")
    /\ Settle(c, ReadyAnswer(c))
    /\ UNCHANGED <<now, tables, memory, jobs, bounds>>

PostRead(c) ==
    /\ At(c, "postRead")
    /\ Settle(c, IF CurrentIssued(user[c]) THEN ReadyAnswer(c) ELSE "failed_safe")
    /\ UNCHANGED <<now, tables, memory, jobs, bounds>>

\* The event is appended, or its failure swallowed.
Answer(c) ==
    /\ At(c, "audit")
    /\ Reply(c, outcome[c])
    /\ UNCHANGED <<now, tables, memory, jobs, bounds>>

(* What may go wrong in a call, MaxFailures times. *)

Fail == failures < MaxFailures /\ failures' = failures + 1

\* What an exception, or a refusal of the provider, becomes in the bot; of
\* "error" after "lookup" nobody is told (Delivery, ServeRaises).
OnFailure(s) ==
    IF s \in {"expiredLookup", "markExpired"} THEN {"not_eligible"}
    ELSE IF s \in {"lookup", "statusLookup"} THEN {"error"}
    ELSE IF s = "fetch" THEN {"temporarily_unavailable"}
    ELSE {"temporarily_unavailable", "not_ready"}

\* The statement failed, or it was committed and its result was lost.
CallFails(c) ==
    /\ Fail
    /\ \/ step[c] \in BotSteps /\ \E o \in OnFailure(step[c]) : Reply(c, o)
       \/ step[c] \in EnsureSteps /\ Settle(c, "failed_safe")
    /\ \/ UNCHANGED <<rows, current>>
       \/ step[c] = "markExpired" /\ MarkRow(user[c], held[c])
       \/ step[c] = "persist" /\ InsertRow(user[c], EnsureKey)
    /\ UNCHANGED <<now, snapshot, memory, user, began, jobs, payments>>

\* The calls of a process that ends are not answered.
Drop(cs) ==
    /\ step' = [c \in Calls |-> IF c \in cs THEN "idle" ELSE step[c]]
    /\ held' = [c \in Calls |-> IF c \in cs THEN Null ELSE held[c]]
    /\ outcome' = [c \in Calls |-> IF c \in cs THEN "none" ELSE outcome[c]]

RestartBot ==
    /\ Fail
    /\ \/ \E c \in BotCalls : step[c] # "idle"
       \/ \E u \in Users : nextAllowed[u] > now
    /\ Drop(BotCalls)
    /\ nextAllowed' = [u \in Users |-> 0]
    /\ UNCHANGED <<now, tables, remembered, user, began, jobs, payments>>

RestartAdmin ==
    /\ Fail
    /\ \/ \E c \in AdminCalls : step[c] # "idle"
       \/ remembered # {}
    /\ Drop(AdminCalls)
    /\ remembered' = {}
    /\ UNCHANGED <<now, tables, nextAllowed, user, began, jobs, payments>>

-----------------------------------------------------------------------------
(* Billing writes a paid window, one without an end (until the ingress has
   upserted the window), or asks for a review. A payment counts from its own
   time: a late one writes a window that has ended already. *)
Bill(u) ==
    /\ payments < MaxPayments
    /\ payments' = payments + 1
    /\ \/ \E until \in Times \union {Null} :
             snapshot' = [snapshot EXCEPT ![u] = [label |-> "active", until |-> until, updated |-> now]]
       \/ snapshot' = [snapshot EXCEPT ![u] = [label |-> "needs_review", until |-> Null, updated |-> now]]
    /\ UNCHANGED <<now, rows, current, memory, calls, jobs, failures>>

(* The operator's command, which asks for no subscription. *)
OperatorIssues(u, k) ==
    /\ k # EnsureKey
    /\ rows[<<u, k>>] = NoRow
    /\ InsertRow(u, k)
    /\ UNCHANGED <<now, snapshot, memory, calls, jobs, bounds>>

OperatorRevokes(u, k) ==
    /\ Issued(u, k)
    /\ MarkRow(u, k)
    /\ UNCHANGED <<now, snapshot, memory, calls, jobs, bounds>>

-----------------------------------------------------------------------------
(* The reconcile job, started by a scheduler. *)

\* Defect: a job waits for the last run to leave "started".
StartAlone(j) ==
    /\ jobStep[j] = "idle"
    /\ latest # Null => run[latest].status # "started"
    /\ run' = [run EXCEPT ![j] = [status |-> "started", started |-> now]]
    /\ jobStep' = [jobStep EXCEPT ![j] = "reconcile"]
    /\ latest' = j
    /\ UNCHANGED <<now, tables, memory, calls, bounds>>

\* Of runs that started at the same moment either may be found as the latest.
Start(j) ==
    /\ jobStep[j] = "idle"
    /\ run' = [run EXCEPT ![j] = [status |-> "started", started |-> now]]
    /\ jobStep' = [jobStep EXCEPT ![j] = "reconcile"]
    /\ \/ latest' = j
       \/ latest # Null /\ run[latest].started = now /\ UNCHANGED latest
    /\ UNCHANGED <<now, tables, memory, calls, bounds>>

\* The statement for a moment t since the run started.
ReconcileRows(t) ==
    rows' = [x \in Users \X IssueKeys |->
                IF rows[x].state = "issued" /\ ReconcileSeesExpired(x[1], t)
                THEN Revoked(rows[x]) ELSE rows[x]]

Reconcile(j) ==
    /\ jobStep[j] = "reconcile"
    /\ \E t \in run[j].started..now : ReconcileRows(t)
    /\ jobStep' = [jobStep EXCEPT ![j] = "complete"]
    /\ UNCHANGED <<now, snapshot, current, memory, calls, run, latest, bounds>>

Finish(j, status) ==
    /\ run' = [run EXCEPT ![j] = [status |-> status, started |-> run[j].started]]
    /\ jobStep' = [jobStep EXCEPT ![j] = "idle"]
    /\ UNCHANGED <<now, tables, memory, calls, latest, bounds>>

Complete(j) == jobStep[j] = "complete" /\ Finish(j, "completed")
RecordFailed(j) == jobStep[j] = "fail" /\ Finish(j, "failed")

ReconcileFails(j) ==
    /\ jobStep[j] = "reconcile"
    /\ Fail
    /\ UNCHANGED rows \/ \E t \in run[j].started..now : ReconcileRows(t)
    /\ jobStep' = [jobStep EXCEPT ![j] = "fail"]
    /\ UNCHANGED <<now, snapshot, current, memory, calls, run, latest, payments>>

\* A crash, or a heartbeat that is not written: the run stays "started".
JobDies(j) ==
    /\ jobStep[j] # "idle"
    /\ Fail
    /\ jobStep' = [jobStep EXCEPT ![j] = "idle"]
    /\ UNCHANGED <<now, tables, memory, calls, run, latest, payments>>

\* Defect: a run that has started counts.
HealthWithoutEnd == latest # Null /\ run[latest].status # "failed"
                    /\ now - run[latest].started <= MaxInterval

\* check_reconcile_health answers ok.
HealthOk == latest # Null /\ run[latest].status = "completed"
            /\ now - run[latest].started <= MaxInterval

-----------------------------------------------------------------------------

BotWork(c) ==
    \/ ExpiredLookup(c)
    \/ MarkExpired(c)
    \/ Lookup(c)
    \/ Fetch(c)
    \/ Instruct(c)
    \/ StatusLookup(c)

AdminWork(c) ==
    \/ ReadIssuance(c)
    \/ EnsureFetch(c)
    \/ Persist(c)
    \/ PostRead(c)
    \/ Answer(c)

JobWork(j) == Start(j) \/ Reconcile(j) \/ Complete(j) \/ RecordFailed(j)

Next ==
    \/ Tick
    \/ \E c \in BotCalls :
          \/ BotWork(c)
          \/ \E u \in Users : GetAccess(c, u) \/ Status(c, u)
    \/ \E c \in AdminCalls :
          \/ AdminWork(c)
          \/ \E u \in Users : EnsureAccess(c, u)
    \/ \E c \in Calls : CallFails(c)
    \/ RestartBot
    \/ RestartAdmin
    \/ \E u \in Users :
          \/ Bill(u)
          \/ \E k \in IssueKeys : OperatorIssues(u, k) \/ OperatorRevokes(u, k)
    \/ \E j \in Jobs : JobWork(j) \/ ReconcileFails(j) \/ JobDies(j)

Spec == Init /\ [][Next]_vars

\* The scheduler starts the job again and again, and a job goes on.
Fairness == \A j \in Jobs : WF_vars(JobWork(j))

-----------------------------------------------------------------------------
(* Safety. *)

\* The window ended before t, and its end was written before t.
LapsedBefore(u, t) ==
    /\ ActiveLabel(u) /\ snapshot[u].until # Null /\ snapshot[u].until < t
    /\ snapshot[u].updated < t

\* Two calls of /get_access that pass the cooldown of a user are Cooldown apart,
\* however they interleave (a restart of the bot ends both).
Passed(c) ==
    \/ step[c] \in {"lookup", "fetch", "instruct"}
    \/ step[c] = "idle" /\ outcome[c] \in {"accepted", "not_ready", "temporarily_unavailable"}

OneResendPerCooldown ==
    \A c, d \in BotCalls :
        c # d /\ Passed(c) /\ Passed(d) /\ user[c] = user[d] =>
            began[c] + Cooldown <= began[d] \/ began[d] + Cooldown <= began[c]

\* While the health check passes, no access outlives its window by more than
\* MaxInterval: what was issued, paid and ended before the interval is revoked,
\* whichever jobs overlapped, failed or died.
HealthMeansReconciled ==
    HealthOk => \A u \in Users, k \in IssueKeys :
        ~ /\ Issued(u, k) /\ rows[<<u, k>>].created + MaxInterval < now
          /\ LapsedBefore(u, now - MaxInterval)

Answers(c, outcomes) == step[c] # "idle" /\ step'[c] = "idle" /\ outcome'[c] \in outcomes

KeepsRevoked ==
    \A x \in Users \X IssueKeys : rows[x].state = "revoked" => rows'[x].state = "revoked"

\* No ensure-access, however old its lookup, brings a revoked row back.
RevokedForGood == [][KeepsRevoked]_vars

DeliversInWindow ==
    \A c \in BotCalls : Answers(c, {"accepted"}) => ~LapsedBefore(user[c], began[c])

\* No /get_access that began after the end of the window delivers access.
BotGatesOnWindow == [][DeliversInWindow]_vars

Revokes(u) == \E k \in IssueKeys : Issued(u, k) /\ ~Issued(u, k)'

SparesPaidAccess ==
    \A j \in Jobs, u \in Users : jobStep'[j] # jobStep[j] /\ Revokes(u) => SeesExpired(u)

\* The job revokes access only of those whom /status would call expired.
JobSparesPaidAccess == [][SparesPaidAccess]_vars

(* Liveness. *)

\* Access whose window has ended does not stay, unless the window is renewed.
ExpiredAccessIsRevoked ==
    \A u \in Users, k \in IssueKeys :
        Issued(u, k) /\ SeesExpired(u) ~> ~Issued(u, k) \/ ~SeesExpired(u)

-----------------------------------------------------------------------------
(* What documents and comments say. *)

\* "Entitlement and issuance decisions must be gated on whether the active period
\* has ended": no ensure-access that began after the end issues access.
EnsureGatesOnWindow ==
    [][\A c \in AdminCalls :
          step[c] = "persist" /\ step'[c] = "postRead" /\ rows' # rows
              => ~LapsedBefore(user[c], began[c])]_vars

\* "revoke for already-issued access when lifecycle is expired"
BotRevokesExpired ==
    [][\A c \in BotCalls :
          step[c] = "markExpired" /\ step'[c] = "idle" /\ Revokes(user[c])
              => SeesExpired(user[c])]_vars

\* "remediation for cases where identity is known, subscription is active, and
\* access is not ready": such a case ends with access unless something failed.
EnsureRemedies ==
    [][\A c \in AdminCalls :
          step[c] = "ensureFetch" /\ step'[c] = "audit" /\ outcome'[c] = "failed_safe"
          /\ ActiveLabel(user[c]) /\ ~CurrentIssued(user[c])
              => failures' # failures]_vars

=============================================================================
