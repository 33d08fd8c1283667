# TLA+ models of the subscription backend

This directory holds TLA+ models of the Python service under `src/backend`, the
TLC configurations that check them on small instances, and theorems about them
that TLAPS proves for every value of the constants. The models are translated
from the code; each definition that models code names the lines it stands for
in `PROJECT.json` (`map`).

## 1. The system

The service sells access through a Telegram bot. Several processes share one
PostgreSQL database and keep little state of their own:

| process | code | what it does |
|---|---|---|
| payment fulfillment ingress | `runtime/payment_fulfillment_ingress.py` | answers the payment provider's webhook: records the event, applies it, opens the subscription's window, notifies the user |
| operator commands | `application/billing_ingestion_main.py`, `billing_subscription_apply_main.py`, `issuance_operator_main.py` | one-shot: ingest a fact, apply a fact, issue, resend or revoke access |
| bot, polling or webhook | `runtime/polling.py`, `raw_polling.py`, `telegram_webhook_ingress.py` | turns updates into `/start`, status, resend and sends the answers |
| internal admin HTTP | `admin_support/*`, `internal_admin/*` | lookup (ADM-01), diagnostics, *ensure access* and its audit evidence (ADM-02) |
| scheduled jobs | `scripts/reconcile_expired_access.py`, `persistence/*retention*` | revoke access of expired subscriptions, delete old rows |
| start-up | `persistence/postgres_migrations.py` | applies the SQL files of the release |

(Paths without a prefix are under `src/backend/src/app`.)

### Inventory

| component | state | operations | hard behaviour | what makes it correct |
|---|---|---|---|---|
| billing ingest | `billing_events_ledger`, ingestion audit | `ingest_normalized_billing_fact` (one transaction) | duplicate and concurrent deliveries | append-only, one row per external event, one audit row per call |
| UC-05 apply | `billing_subscription_apply_records`, apply audit, `subscription_snapshots` | `apply_by_internal_fact_ref` (one transaction) | two applies that both read "not applied" | a fact is decided once, by the rules, and audited once |
| fulfillment ingress | none of its own | identity, ingest, apply, upsert, notify, respond | five awaits, a failure after each; retries | 200 only after the payment counts; no lasting endless window; one notice |
| UC-01 bootstrap | `user_identities`, `idempotency_records`, snapshot, audit | `/start` | crash between its writes, replays | one identity, one default snapshot, replay has no new effect |
| issuance service | process memory, `issuance_state` | issue, resend, revoke | several processes with memories that go stale; provider outages | a revoked row stays revoked; no answer hands out what is revoked |
| access resend, ensure access, reconcile | cooldown, `issuance_state`, `access_reconcile_runs` | the handlers of the bot, of ADM-02 and of the job | snapshot read before an await; expiry and renewal racing a revoke | only the expired lose access; only the paid get it |
| delivery | `slice1_uc01_outbound_deliveries`, polling offset (memory) | `process_batch`, `poll_once` | offset advanced first, swallowed exceptions, send before mark | every answer sent, and how often it may be repeated |
| update dedup | `telegram_update_dedup` or a bounded in-memory map | `mark_if_first_seen` | mark before processing, TTL, eviction | a mutating update runs at most once per TTL |
| rate limit, cooldown | in-memory windows | `allow`, `consume_or_reject` | boundaries of the window | never more than the limit in a window |
| retention | deletes from audit, idempotency, delivery | batches by age | deleting what a replay still needs | pending deliveries survive |
| migrations | `schema_migration_ledger` | apply in order | crash between statement and ledger row, two runners | each applied, drift refused |
| bot replies | none of its own | dispatch, present, plan, render | a code passes through four tables; the answer is composed later than it was read | the text says what the handler found |
| internal admin | the audit tables | lookup, diagnosis, ensure access, evidence | four reads are four statements; the record fails after the reads | nothing unrecorded or untrue is disclosed; access is issued by the rules |

Components interact through the tables: the snapshot is written by UC-01, by
the apply transaction and by the ingress, and read by the bot's handlers, by
ensure access and by reconcile; the issuance rows are written by the service
(in three processes), by the resend handler and by reconcile. The bot's
idempotency and delivery rows are deleted by retention, its deduplication rows
by the operational cleanup, and every table is made by the migrations.

## 2. Modules

| module | models |
|---|---|
| `BillingRules` | the vocabulary of billing facts and the pure decision `first_time_decision` |
| `ApplyOnce` | abstract: each event is recorded, decided and told at most once |
| `Fulfillment` | the ingress, the operator's ingest and apply, and UC-01's writes to the same tables |
| `MCFulfillment` | the instances of the runs |
| `FulfillmentProofs` | types, records, audit, notices, action property, refinement, and what an active snapshot and its window stand for |
| `Issuance` | the issuance service: several processes with their memories over one table |
| `MCIssuance` | its instances: who runs which process, what is asked |
| `IssuanceProofs` | answers and memories against the table, rows that only move forward |
| `Access` | who gives and takes access: `/get_access`, `/status`, ensure access, the operator, reconcile and its health check |
| `AccessWatched` | `Access` with a history: of which calls of ensure access it was true, at some moment since they began, that access is ready |
| `MCAccess`, `MCAccessCalls` | its model values; the jobs on their own; two calls of the bot, or of ensure access, at a time |
| `AccessProofs` | what the readiness answers, the cooldown, the window and the health check guarantee |
| `Delivery` | an update from `getUpdates` or the webhook to the message in the chat: UC-01, its replay, the outbound ledger, the offset |
| `MCDelivery` | its updates |
| `DeliveryProofs` | types, what the tables say, what a confirmed update stands for, how often one is dispatched, and what pays for a second audit row or message |
| `UpdateDedup` | the two guards against repeated updates, in memory and in a table, and the cleanup of the table |
| `RateLimit` | the fixed window per user and command |
| `Retention` | the slice-1 and the operational cleanup next to the bot and to each other |
| `RetentionProofs` | types, that no job deletes what is not old and finished, and that no row is counted twice |
| `Migrations` | several runners, of releases that differ, over one ledger |
| `MigrationsProofs` | types, what a ledger row stands for, what a finished run leaves |
| `BotReplies` | from an update and what the handler finds to the text, date, keyboard and follow-up of the answer |
| `InternalAdmin` | the admin process: its start, and one call of lookup, diagnostics, ensure access or audit evidence |
| `InternalAdminProofs` | that what it discloses is recorded and true, and what it issues is by the rules |
| `BotProofs` | that the limit holds over any stretch, what the guards remember and forget, and that replies are true |
| `MCOperations` | the six modules above that share no state, in one run |

`Fulfillment`, `Issuance` and `Access` meet in two tables. `Fulfillment` owns the snapshots and knows
nothing of issuance; `Issuance` owns the rows and takes the subscription's state
as an argument, as the service does; `Access` composes the two tables, with the
writes of the other two as actions reduced to what readers can tell apart
(`Bill` for `Upsert` and `ApplyCommit`, `OperatorIssues` and `OperatorRevokes`
for a whole run of the operator's command).

### Fulfillment

A worker is a request that is being served (or an operator's command);
`step[w]` is the statement it runs next, and `job[w]` what it was asked for.
Each action is one awaited statement with everything it changes in its
transaction: `CreateIfAbsent`, `Ingest`, the reads of the apply transaction
(`ApplyNotFound`, `ApplyReplayed`, `ApplyBegin`) and its commit
(`ApplyCommit`, or `ApplyConflict` when the primary key rejects it), `Upsert`,
`SendActivationNotice`, `RespondOk`. `Fail` ends a request at any step: an
exception answered 503, a killed process, an answer that is lost. `Deliver` is
the provider's first delivery and its retries, `Redeliver` any other copy.

What is abstracted: the checks of method, size, signature, age and schema (an
invalid request changes nothing; `Payloads` are those that pass); amounts and
timestamps of facts; the internal fact ref, which is a renaming of (provider,
external id); the end of the window, a natural number in place of a date.
A payload carries its own `until`: the handler computes it from the time of payment and the payload's
period or the current default one, so two deliveries of one event may differ in
it, and one instance has such a pair.

### Issuance

A process (the bot, the admin service, one run of the operator's command) has a
memory: the ledger of what it knows as issued or revoked, by user and issue
key, and the caches of answers by idempotency key. A call is a thread of it, cut
where `IssuanceService` awaits: the lookup of the row (`FetchForIssue`,
`FetchForResend`, `FetchForRevoke`), the provider (`Create`, `Instruct`,
`RevokeAtProvider`) and the write (`Persist`, `MarkRevoked`). Between two awaits
the memory is read and written in one step, as in one asyncio task.
`StatementFails` and `ProviderRefuses` are the two ways a call fails;
`StatementFails` may have committed before its result was lost. `Restart` forgets
a process's memory and drops its calls. `Asks` is the set of requests a process is
asked: the bot resends, the admin service issues, the operator does everything
in a process that lives for one request (`Fresh`).

Two facts that the model makes visible and that are no violations of a promise:
the admin process may answer "already issued" from its memory after another
process has revoked the row (ensure access reads the table again, see `Access`,
which is why this does no harm there), and the cache of resend instructions is
keyed by user and idempotency key, without the issue key, so that `IdAssumption`
(an id is used for one issue key) is needed for its answers to be right.

`MCIssuance` has two compositions, and a behaviour is one of them: the processes
as they are deployed, over one key; and one process that is asked everything the
contract allows, for two keys. Of that one, requests that are denied, which change
nothing another call reads, are asked where one call runs at a time.

Left out: the list of audit records in memory, which nothing reads; the mode
without a table; the validation of a request's format.

### Access

`snapshot` and `rows` are the two tables; `current[u]` is the row of a user that
was updated last, which is what every reader asks for. A call of the bot
or of the admin service has a step, the user it is about, what it has read that it
will use after the await (`held`: a key, or whether the label was active), and
when it began. `GetAccess` is the handler of `/get_access` from its snapshot to
its next await, the cooldown included; `ExpiredLookup` and `MarkExpired` its
revoke of expired access; `Lookup`, `Fetch` and `Instruct` the resend. `Status`
and `StatusLookup` are UC-02. `EnsureAccess`, `ReadIssuance`, `EnsureFetch`,
`Persist` and `PostRead` are ADM-02 over the issuance service; whatever they decide
(`Settle`) waits for the append of an audit event before `Answer` returns it, so the
answer is about a read some awaits ago. A job goes through
`Start` (its run is recorded), `Reconcile` (one UPDATE for a moment since it
started), `Complete` or `RecordFailed`; `JobDies` is a crash or a
heartbeat that could not be written. `CallFails` is an exception at any await,
before or after the commit; `RestartBot` and `RestartAdmin` lose the cooldown
and the memory.

Abstractions: one clock for the handlers and the database, and one bot and one
admin process; rows that were updated at the same moment are told apart only
when one of them is issued; of the service's memory only the ensure keys that
are known as issued, since the other entries agree with the table (`Issuance`
proves that); a resend has an idempotency key of its own, as each update has an
id of its own. Gates before the first read of a table (authorization, opt-in
flags, unknown identities) change nothing here; those of ensure access, and what
its answer and its audit row say, are in `InternalAdmin`. Outcome "error" of a lookup of
`/get_access` is an exception that leaves the handler: no message follows (`Delivery`). `MCAccessCalls` runs the calls of one
process at a time, since the bot and the admin process meet only in the tables,
where `OperatorIssues` and `OperatorRevokes` do what the other would do.
`/status` runs with one call at a time there: it writes nothing another call reads.
`AccessReconcile` has no calls (`ReconcileNext`): what they would write to the tables
the operator writes.

### Delivery

A task is the polling loop (`Poller`) or a request to the webhook; `at[t]` is
what it awaits and `upd[t]` the update it holds. `Fetch` confirms to Telegram
what lies below the offset, takes the oldest updates and moves the offset past
them before any is processed, as `poll_once` does; `TakeNext` is the loop over
the batch. `Receive` is a request of Telegram, `MarkSeen` the guard of mutating
commands. `Begin` to `Complete` are the statements of UC-01, `Find` and
`KeepSnapshot` its replay; `Serve` stands for every other command, up to its
answer, an answer to an exception of its statements included. The handler of
`/get_access` is the one that lets exceptions out (`ServeRaises`): its lookups have no
`try`, `process_batch` counts the failure, the update is confirmed and nobody is told.
`ReadLedger`, `EnsurePending`, `SendWelcome`, `MarkSent` are the outbound
ledger around the ready message, `SendOther` any other answer. `Done` ends an
update: with the next of the batch, or with a 200 that may be lost.

Every statement may be refused (`Refused`, `SendRefused`, `MarkSeenRefused`,
`FetchFails`) or take effect and lose its result (the second disjunct of each);
`Crash` cuts all tasks, `StopAndStart` is the orderly stop; both lose the
offset and keep the tables. `cut[u]` counts the faults that hit a task of an
update, and Telegram sending an update again while a request still holds it: it is what
`NothingTwiceWithoutFault` charges repetitions to.

Left out: the counters of a batch, which only a log reads; the follow-up message;
updates without a private chat, which end at once; the time to live of the guard
(`UpdateDedup`) and the retention of rows (`Retention`), both longer than any
replay here.

### UpdateDedup, RateLimit, Retention, Migrations

`UpdateDedup` asks both guards about every key and keeps what they answer.
`remembered` is the ordered dictionary as a sequence: `EvictExpired` drops from
the front up to the first entry that has not expired, `Repeated` moves a key to
the end with its old time (so the order is no longer that of the times), and
`Remember` drops the front when the memory is full. `PruneDedup` is the cleanup
job with a clock that may be ahead of the database by `ClockSkew`.

`RateLimit` keeps, next to the counter of the code, what was let through at
each moment, and compares the two over every stretch as long as a window.

`Retention` cuts each delete into `Lock` (the rows of the batch are chosen and
locked, `SKIP LOCKED`) and `Delete` (the statement ends), so that two jobs and
the bot interleave between them; `Following` is the loop over tables and rounds.
`DeleteFails` is a statement that is rolled back, or is committed and loses its
result; the job ends and counts none of its rows. `StartCleanup` has the gates of
the three entry points and takes the cutoff from the job's clock, which may be
ahead of the database's by `JobSkew`. A job that failed prints nothing: `total` is what
it had counted until then.

`Migrations` cuts a run at its statements: the ledger is read once (`Load`),
then each file is skipped, completed, refused, or executed and recorded as two
steps (`Execute`, `Record`). `RunAgain` is a crash at any point as well as a
start by the next process. A file is one step: asyncpg runs its statements in
one implicit transaction.

### BotReplies

An update (a kind, or the reason why it is none), a member as the reads would
find them, a fault, a configuration. Each arm of the dispatcher is an action that
ends in a `TransportSafeResponse`; `Compose` is the plan, the catalog and the runtime
action. `date` may move on in between. The wording of a message is its key.

### InternalAdmin

The start of the process with its settings (`Disabled`, `ConfigError`,
`StartFailed`, `Listen`), then one call: `Refuse` or `Receive` at the endpoint,
`Authorize`, `Resolve`, and the reads of its operation, each a step. Between two
steps another process may change the user (`PersonChanges`), and `saw` keeps
what the user was at every moment of the call, which is what "true" is measured
by. Diagnostics end in `Redact` and `RecordAccess`, which may fail or commit and
lose its result.

Ensure access goes `ReadBefore`, `ReadCurrent`, `Mutate` or `MutateFound` (the
issuance service, whose answer may be lost), `ReadAfter`, and every result
passes `AppendAudit`, which is best effort: the handler swallows its failure. Its
route exists only with the opt-in (`Mounted`), so the handler's own check of the
opt-in never refuses in the deployed process, and neither does it here.

One call at a time is enough: calls share only tables, and `PersonChanges` does
what another call would. Diagnostics are modelled as the handler is written; the
deployed process wires a placeholder handler in its place.

## 3. Runs

| run | instance | shows |
|---|---|---|
| `FulfillmentCore` | 2 events of one user, 2 workers, 2 failures, 1 duplicate; fair | windows are paid for; an endless one is never behind a 200; a 200 means applied; at most one notice; every payment is honoured and an endless window closes |
| `FulfillmentOperator` | 3 events, the operator ingests and applies facts of all kinds | activation is backed by an applied fact, audits count, records are final, `ApplyOnce` is implemented; no deadlock |
| `FulfillmentReplay` | violation | doc 30 says a replay has no lifecycle effect; a late duplicate overwrites the window |
| `FulfillmentIgnored` | violation | doc 30 says a duplicate or ignored fact does not activate; the ingress upserts all the same |
| `IssuanceCore` | 1 user, 1 key: a bot call, two admin calls, the operator; or one process, 2 keys, every kind of request, 2 calls at a time, or 1 with every state; 1 failure | answers, caches and memories agree with the table, and no key's memory answers for another; nothing is delivered by a resend that began after the revoke; rows move forward |
| `AccessCalls` | 2 calls of `/get_access`, or 2 of ensure access, or 1 of the bot with `/status`; the operator and billing, 1 failure, clock to 2 | the cooldown holds between overlapping calls; no delivery after the end of the window; "ready" is answered only of access that was ready at some moment of the call, "issued" only of a row inserted during it; a revoked row stays revoked |
| `AccessReconcile` | 2 jobs, fair, 1 failure, clock to 3 | a passing health check bounds how long access outlives its window; the job spares who has paid; expired access is revoked unless renewed |
| `AccessWindowIgnored` | violation | doc 38 asks for the end of the window; ensure access looks at the label |
| `AccessRenewalRevoked` | violation | a comment says the bot revokes the expired; a renewal during its awaits is revoked too |
| `AccessNotRemedied` | violation | the runbook calls ensure access a remedy; once its one row is revoked it never remedies |
| `Delivery` | `/start`, a mutating command and `/start` again of one user, polled or posted; 2 tasks, 2 faults, 1 restart; fair | the tables tell the truth; repetitions are paid for by faults; a confirmed update was handled and answered, but for commands whose handler raises or whose retry is swallowed after a fault; commands are dispatched once; rows only move forward; every update is confirmed in the end |
| `Operations` | dedup: 3 keys, room for 2, a time to live of 2 of 4 moments, a skewed job; rate: 2 keys with limits 2 and 1; retention: 2 slice-1 jobs over 2 rows, and the audit's job, with clocks up to a day ahead; migrations: 3 files, 2 releases, 3 further runs; every reply; every admin call with 1 change of the user | no update is new again within its time to live, and every one after it; the limit holds over any stretch and never starves; only old, finished rows go, no row is counted twice and none is missed while no delete fails; the ledger matches the schema and finished runs are recorded; replies match what was found; disclosure is recorded and true, and access is issued by the rules |

Bounds. Two workers are enough for every conflict in the code: a row is read by
one request and written by another. Two events of one user give ordering and
overwriting; a third, in the operator's run, gives a fact without a user.
`MaxFailures` and `MaxDuplicates` bound counters that the system leaves open;
one failure at every step and one duplicate at every moment are reached with 1,
and 2 failures let a retry fail too. `CHECK_DEADLOCK FALSE` stands where the
instance really ends: everything is acknowledged and the duplicates are spent.

In `Issuance`, two calls of a process and two processes give every pair of
overlapping statements on a row, and one failure every place a call can be cut
and retried (two give nothing new; they were checked once). In `Access`, two ticks are enough for a window that ends, a
call that begins after it and a cooldown that is over; three let a run of the job
grow stale by a tick after a window has ended and access was issued. Two jobs give
the overlap; a second payment gives the renewal. Calls, processes of one
kind and jobs are interchangeable (`SYMMETRY`), except where liveness is checked.

In `Delivery`, two tasks give the overlap of two requests for one update, and of
two `/start` of one user, who share an identity and a snapshot; one restart
after one of the faults gives every replay, and the second fault hits that
replay. Polling takes a batch of two, so that a batch may be cut in its middle
and a third update waits behind the offset. In `Operations`, three dedup keys
with room for two give an eviction for room and one for age at once; three jobs,
two of them on the same tables, give locks that are met; three
files and two releases give a drift after and before a crash. Its six parts share no
state: a behaviour is one of them while the others stay, which adds up their
state spaces instead of multiplying them. `CHECK_DEADLOCK FALSE` stands there
too, because a migration run, a job or a call that ended has nothing left to do,
and in `Delivery`, where every update is confirmed in the end.

Fairness. In `Fulfillment` `Work(w)` is weakly fair: an accepted request is a ready asyncio task,
and nothing in it blocks on another request (a conflict aborts, it does not
wait). `Deliver` is weakly fair: the provider retries what it has not been
answered 200. In `Access` only the job is fair, and liveness is claimed of it only:
`docs/mvp_release_readiness_runbook.md` makes the schedule part of operating the
service, and a run that was started ends or dies. In `Delivery`, `Poll` is
weakly fair because `run_until_stopped` goes on after any exception, `Work(t)`
because a task awaits nothing but its own statement, and `Receive` because
Telegram posts an update again until it is answered 200. Failures are not fair and are
bounded, as is usual for "it eventually stops failing".

## 4. Proofs

`FulfillmentProofs` proves for all users, events, payloads, workers and bounds
what the runs check. The argument has three layers:

1. `RecordsInv`: types, and that the step of a request tells what has been
   committed (`RequestsFollowRecords`). Without it neither the audit counts nor
   "200 means applied" is inductive: `RespondOk` knows nothing of the tables.
2. `NoticesInv` adds that a worker about to notify is alone in that for its
   event (`OneTeller`); `AtMostOneNotice` follows. The apply record's primary
   key is where the second teller is excluded.
3. `WindowsInv` adds the meaning of snapshots. It needs the assumption
   `DeliveriesAgree`: whoever delivers an event (the provider, twice, or the
   operator) says the same of it. `FulfillmentIgnored` shows that the assumption
   is needed. An endless window has a witness event that nobody is about to
   acknowledge (`EndlessWindowIsPending`).

`ImplementsApplyOnce` proves the refinement by mapping each action to a step of
`ApplyOnce` or a stutter; `RecordsNeverChange` follows from the same case split.

`IssuanceProofs` has one inductive invariant, `RowsInv`: types, and that what a
call holds, what a process caches, what it remembers and what was answered each
follow from the rows as they are or were (`HeldMatchesRows`, `CachesMatchRows`,
`MemoryFollowsRows`, `AnswersMatchRows`). None is inductive alone: an answer is
copied from the memory or the cache, the memory from what a call holds. It rests
on rows that only move forward, which is also a theorem. `RevokedIsNotDelivered`
needs no more: the property itself speaks of processes that do not both issue
and resend (`Apart`), as the deployed ones do not; in one that did both, a ledger
entry would outlive a revoke elsewhere.

`AccessProofs` has an invariant for each question:

- `JobInv`: a run whose UPDATE was executed left nothing issued that had lapsed
  when the run started (`RunsReconciled`). It is inductive because nothing comes
  to have lapsed before a moment that is past (`LapsedBeforeStays`) and no row
  comes to have been created before it. `HealthMeansReconciled` follows: a passing
  check knows a completed run that started within the interval.
- `WindowInv`: a call that sends began when the window had not lapsed; the same
  lemma keeps it while billing writes.
- `CooldownInv`: `nextAllowed` lies a window after every call that passed
  (`PassedHoldsBack`). `OneResendPerCooldown` alone says nothing of the next call.

- `ReadyInv`, over `AccessWatched`: a call whose pending outcome says "ready" is one of
  those that saw it so (`wasReady`), and one that is about to say "issued" knows
  of a row inserted since it began. A read sees the present, so it puts the call in
  the history; what the service's memory says does not, which is why the second
  read is needed. The row may be gone by the time of the answer, and the theorem claims no
  more than the code does.

`RevokedStays` and `JobSpares` are action properties over the types.

`DeliveryProofs` has three. `TablesInv` says what each step of UC-01 already knows
of the tables (`TasksMatchTables`): a task at `complete` has an identity, a
snapshot and an audit row behind it, one at `mark` a message. That is
what `TablesTellTheTruth` needs to be inductive when another task, or a replay
after a crash, is at another step of the same update. `ConfirmedInv` is about
the offset: what lies below it is in the batch, in the hands of the poller, or
settled (`PassedIsSettled`), settled being stable; a completed key whose ledger
has no row is one whose task still holds it or was cut (`CompletedIsPending`);
an update the guard has seen is being served, was dispatched, or was cut
(`SeenIsServed`); of two tasks on one update one was a fault (`OverlapIsCut`).
`ConfirmedMeansHandled` and `DispatchedOnce` follow. The first names what a fault may
lose for good: an answer of any update; the dispatch of a command whose handler
raised (`Resends`); behind the webhook, the dispatch of a mutating command whose retry
the guard swallows. The instance has one mutating command, which is `/get_access`;
that `/success`, which never raises, is not lost while polling is what the theorem adds.
`PaidInv` keeps an account
per `/start`: the rows that are there and the tasks that have still to append
one (`ToAudit`, `ToWelcome`) are at most the faults that hit the update
(`cut`), and one more that is due once the key is completed or while somebody
works on it (`AuditsArePaid`, `WelcomesArePaid`). The bare property is not
inductive: two overlapping requests may both be about to append. A step moves
one task (`OneTaskMoves`): it appends and leaves the set of those that are
still to append, or it is cut and pays; a new request that overlaps pays when it
enters (`OneTaskJoins`). `RowBeforeMessage` is needed so that what is found
pending is never missing. `NothingTwiceWithoutFault` follows for any number of
tasks, faults and restarts.

`MigrationsProofs`: `LedgerInv` adds that what a runner read of the ledger still
holds (`KnownHolds`; rows are only added and completed), that every file before
the one it is at is recorded (`PassedIsRecorded`), and that a runner about to
record has executed what it will record (`ExecutedIsDue`). The two properties follow for any
number of files, releases and runners.

`RetentionProofs`: `LockInv` says that a locked row is present, finished, old by
the clock at which its job started, and locked by one job. Finished rows stay
finished, and the clock does not go back, so the row that goes at the end of the
statement is still what it was at the lock. `ReportsAddUp` counts: `Reported` is the
set of pairs of a job and the number of a deletion it has counted, so that the sum of
the totals is a cardinality. A delete adds as many pairs as it takes rows,
because the rows it locked are present and, by `LockInv`, locked by no other; one that
fails adds none and may take rows all the same. Hence never more is counted than is
gone, and exactly that while no job has failed.

`BotProofs` has an invariant for each of its three parts:

- `RateInv`: what was let through since the counter's window began is its count,
  nothing lies beyond the window, and what lies in the stretch before it was
  the work of one window as well (`Counted`). Any stretch as long as a window
  meets at most these two, hence twice the limit; and a counter that is used up
  began within the last stretch, so nobody is refused for older calls.
  `Passes` numbers the calls of a moment, so that a count over a stretch is the
  cardinality of a set and needs no sum.
- `DedupInv`: the memory has one entry of a key, with the time it was called new,
  in the order in which keys were last mentioned (`Listed`); it misses no recent key
  but those dropped for room (`RemembersRecent`); a row of the table lasts until
  the cleanup's clock may be past it (`RowsLast`) and no longer than the time to
  live after the last question (`RowsEnd`). Repeated entries make the order
  differ from that of the entries' times, and eviction stops at the first entry
  that has not expired; since an entry is never younger than its last
  mention, whatever stands before a key left alone has expired too.
- `ReplyInv`: a response that waits to be composed is `Grounded` in what the handler
  read: its code is in the plan, a failure had a fault, an active status a
  window that was open at the read. There is one case for each arm of the
  dispatcher; `Compose` passes the code on or says that a link or a contact is
  not configured.

`InternalAdminProofs`: `CallInv` says that the step of a call belongs to its
operation and follows the gates before it (`StepOfOp`), and that what the call
has read was so at a moment it has seen (`HeldWasSeen`). The answer is composed of what
it has read, so its truth follows; a step that issued access leaves only two
remedies to answer and record.

The assumptions are named in the modules: natural-number bounds, disjoint sets of
calls, `Null` outside the data.

Only model-checked: the liveness properties `EveryPaymentIsHonoured`,
`EndlessWindowCloses`, `ExpiredAccessIsRevoked` and `EveryUpdateConfirmed`, since
fairness and ENABLED are outside the prover; and the violations. Every invariant
and every action property of a passing run is a theorem. In
`FulfillmentProofs` those about snapshots rest on `DeliveriesAgree`, which the
runs satisfy and the code does not enforce.

## 5. Not modelled

Wording, HTTP clients, the parsing of configuration and environment, signatures
and the checkout reference (pure functions of strings, whose verdict is what the
models take as their input), the in-memory repositories, which
stand in for the tables when a process is started without a database, `runtime/polling_policy.py`, whose three policies do nothing
but carry a timeout, the wiring of the processes, and the release and smoke
scripts. `PROJECT.json` lists each with its reason.

More disagreements between documents and code were seen while modelling. The
models have these behaviours; no run is kept for them:

- between the apply transaction and the upsert (`runtime/payment_fulfillment_ingress.py:492`)
  a snapshot is active without an end; doc 40 (line 73) calls the mutations one
  connection context. What is guaranteed instead is `EndlessWindowIsUnacknowledged`
  and `EndlessWindowCloses`.
- of two payments processed out of order the older window stays
  (`persistence/postgres_subscription_snapshot.py:54`); doc 30 (line 43) asks for
  ordering rules. What is guaranteed is only `WindowIsPaidFor`: the end is that of some
  applied payment, not of the one that reaches furthest.
- `issue_or_get` may return a row that was revoked after the lookup, and the
  service answers "issued" (`issuance/service.py:218`); its docstring (line 60)
  says that the outcome is reflected at rest. `AnswersMatchRows` therefore permits
  "issued" for a row that is revoked; ensure access reads the row again
  (`ReadyAnswersAreTrue`).
- the current row is the one updated last (`persistence/postgres_issuance_state.py:119`),
  so revoking an older key hides a newer row that is issued; the resend runbook
  (line 33) says that issued access shows as ready.
- doc 18 (`docs/architecture/18-telegram-runtime-send-policy.md`, line 106) says of a duplicate
  `/start`: send. The runtime sends nothing when the replay finds no pending row
  (`bot_transport/runtime_wrapper.py:129`). After a crash between the end of UC-01
  and `ensure_pending` the first answer is lost for good; `ConfirmedMeansHandled`
  says that this takes a fault.
- the wrapper's docstring (`bot_transport/runtime_wrapper.py:94`) says that expected
  paths do not raise and errors are expressed as safe copy; a lookup of `/get_access`
  that fails raises (`application/telegram_access_resend.py:171`, `:178`, `:225`), and
  the update is confirmed without an answer. `ConfirmedMeansHandled` names the case.
- the audit of ensure access is best effort (`admin_support/adm02_ensure_access.py:226`),
  so a call that issued access may leave no row; the runbook
  (`docs/admin_support_internal_read_gate_runbook.md`, lines 92 and 100) says that
  attempts write durable evidence. What is guaranteed is that a row that is there
  does not deny what was done. The outcome `denied_mutation_opt_in_disabled`
  never occurs in the deployed process, which does not mount the route then.

Three hazards have no property. That an older payment may win is the disagreement
above. That revoking an older key hides a newer row is
modelled in `Access` and is one of them too; and resend instructions are cached by user and
idempotency key, without the issue key (`issuance/service.py:270`). To be
answered with the instruction of an older key, an update would have to be delivered again
after the current row has changed, in the life of the same process. The webhook's
guard acknowledges such a delivery unprocessed (`DispatchedOnce`), and the polling
loop repeats an update only after a restart, which also empties the cache; what
is left is a delivery later than the guard's time to live.

## 6. What is left

All components with behaviour of their own are modelled. What could be added:

1. `Delivery` and `Retention` in one module, to let a replay meet a row that was
   deleted. With days of retention against minutes of replay the case needs
   clocks far apart; each module has its side of it.
2. The checkout reference as a conversion (encode, sign, verify, expire), if a
   property about its window of validity is wanted.
3. The parts of the liveness arguments that are safety: for each waiting state, that
   the step that ends it is enabled until it is taken.
