------------------------------ MODULE Delivery ------------------------------
(***************************************************************************)
(* From a Telegram update to the answer in the chat: long polling or the   *)
(* webhook, the UC-01 bootstrap of /start, and the outbound ledger that    *)
(* decides what a replay of /start sends.                                  *)
(*                                                                         *)
(* Every statement and every request is a step of its own: it may be       *)
(* refused, or take effect and lose its result. A restart loses the tasks  *)
(* and the polling offset and keeps the tables. Telegram keeps an update   *)
(* until a fetch with a higher offset, or a 200, confirms it.              *)
(***************************************************************************)
EXTENDS Naturals, FiniteSets

CONSTANTS Updates,     \* their ids, in the order Telegram numbers them
          Starts,      \* the updates that are /start; UC-01 keys them by id
          Mutating,    \* those the webhook deduplicates: /get_access, its alias, /success
          Resends,     \* /get_access and its alias, whose lookups may raise
          Users, Sender,
          Tasks,
          Poller,      \* the task of the polling loop
          BatchSize,   \* max_updates_per_batch
          MaxFaults, MaxRestarts,
          Null

ASSUME DeliveryAssumption ==
    /\ Updates \subseteq Nat \ {0}
    /\ Starts \subseteq Updates /\ Mutating \subseteq Updates \ Starts
    /\ Resends \subseteq Mutating
    /\ Sender \in [Updates -> Users]
    /\ Poller \in Tasks /\ IsFiniteSet(Tasks)
    /\ {BatchSize, MaxFaults, MaxRestarts} \subseteq Nat
ASSUME NoUpdate == Null \notin Updates

Uc01Steps == {"begin", "find", "keepSnapshot", "create", "snapshot", "audit", "complete"}
Steps == Uc01Steps \union {"idle", "dedup", "serve", "ledger", "pending", "sendWelcome",
                           "mark", "sendOther", "done"}

VARIABLES mode,        \* how the bot is deployed
          confirmed,   \* updates Telegram will not deliver again
          offset,      \* of the next fetch; 1 stands for none
          batch,       \* fetched updates still to be processed
          at, upd,     \* what a task awaits, and for which update
          idem,        \* idempotency_records
          identities, snapshots,
          audits,      \* rows of slice1_audit_events
          ledger,      \* slice1_uc01_outbound_deliveries
          seen,        \* telegram_update_dedup
          welcomes,    \* ready messages in the chat, by update
          handled,     \* how often an update was dispatched to its end
          told,        \* updates another answer was sent for, arrived or not
          cut,         \* faults while a task held the update
          faults, restarts

polling == <<offset, batch>>
tasks == <<at, upd>>
tables == <<idem, identities, snapshots, audits, ledger, seen>>
history == <<welcomes, told, handled, cut>>
bounds == <<faults, restarts>>
vars == <<mode, confirmed, polling, tasks, tables, history, bounds>>

DeliveryTypeOK ==
    /\ mode \in {"polling", "webhook"}
    /\ confirmed \subseteq Updates /\ batch \subseteq Updates
    /\ offset \in Nat \ {0}
    /\ at \in [Tasks -> Steps] /\ upd \in [Tasks -> Updates \union {Null}]
    /\ idem \in [Updates -> {"none", "open", "completed"}]
    /\ identities \subseteq Users /\ snapshots \subseteq Users
    /\ audits \in [Updates -> Nat]
    /\ ledger \in [Updates -> {"none", "pending", "sent"}]
    /\ seen \subseteq Updates /\ told \subseteq Updates
    /\ welcomes \in [Updates -> Nat] /\ handled \in [Updates -> Nat] /\ cut \in [Updates -> Nat]
    /\ faults \in Nat /\ restarts \in Nat

Init ==
    /\ mode \in {"polling", "webhook"}
    /\ confirmed = {} /\ batch = {} /\ offset = 1
    /\ at = [t \in Tasks |-> "idle"] /\ upd = [t \in Tasks |-> Null]
    /\ idem = [u \in Updates |-> "none"] /\ ledger = [u \in Updates |-> "none"]
    /\ identities = {} /\ snapshots = {} /\ seen = {} /\ told = {}
    /\ audits = [u \in Updates |-> 0] /\ welcomes = [u \in Updates |-> 0]
    /\ handled = [u \in Updates |-> 0] /\ cut = [u \in Updates |-> 0]
    /\ faults = 0 /\ restarts = 0

Fault == faults < MaxFaults /\ faults' = faults + 1
Cut(u) == Fault /\ cut' = [cut EXCEPT ![u] = @ + 1]
Goto(t, step) == at' = [at EXCEPT ![t] = step] /\ UNCHANGED upd
Free(t) == at' = [at EXCEPT ![t] = "idle"] /\ upd' = [upd EXCEPT ![t] = Null]
Hold(t, u, step) == at' = [at EXCEPT ![t] = step] /\ upd' = [upd EXCEPT ![t] = u]
Dispatched(u) == handled' = [handled EXCEPT ![u] = @ + 1]

\* An exception ends the update: it is counted, never raised.
Drop(t) == Goto(t, "done") /\ Cut(upd[t])

-----------------------------------------------------------------------------
(* Getting an update. *)

Entry(u) == IF u \in Starts THEN "begin" ELSE "serve"

\* A fetch confirms what lies below the offset and returns the oldest
\* updates; the offset moves past them before any is processed.
Below == {u \in Updates : u < offset}
Pending == Updates \ (confirmed \union Below)
Fetched == {b \in SUBSET Pending :
              /\ Cardinality(b) <= BatchSize
              /\ \A u \in b, v \in Pending : v < u => v \in b
              /\ Pending # {} => b # {}}
Advance(b) == IF b = {} THEN UNCHANGED offset
              ELSE \E u \in b : (\A v \in b : v <= u) /\ offset' = u + 1

\* Defect: the loop fetches again without waiting for the batch.
IdleUnawaited == mode = "polling" /\ at[Poller] = "idle"

Idle == mode = "polling" /\ at[Poller] = "idle" /\ batch = {}
Fetch ==
    /\ Idle
    /\ \E b \in Fetched : Advance(b) /\ batch' = b
    /\ confirmed' = confirmed \union Below
    /\ UNCHANGED <<mode, tasks, tables, history, bounds>>
FetchFails ==
    /\ Idle
    /\ Fault
    /\ confirmed' \in {confirmed, confirmed \union Below}
    /\ UNCHANGED <<mode, polling, tasks, tables, history, restarts>>
TakeNext ==
    /\ mode = "polling" /\ at[Poller] = "idle"
    /\ \E u \in batch : /\ \A v \in batch : u <= v
                        /\ Hold(Poller, u, Entry(u))
    /\ UNCHANGED <<mode, confirmed, polling, tables, history, bounds>>

\* A request to the webhook. Telegram sends an update again when it gave up
\* waiting for the answer of the last request.
Receive(t, u) ==
    /\ mode = "webhook" /\ at[t] = "idle" /\ u \notin confirmed
    /\ Hold(t, u, IF u \in Mutating THEN "dedup" ELSE Entry(u))
    /\ IF u \in {upd[s] : s \in Tasks} THEN Cut(u) ELSE UNCHANGED <<cut, faults>>
    /\ UNCHANGED <<mode, confirmed, polling, tables, welcomes, told, handled, restarts>>

\* Defect: what the guard says is not looked at.
MarkSeenUnchecked(t) ==
    /\ at[t] = "dedup"
    /\ seen' = seen \union {upd[t]}
    /\ \/ Goto(t, "serve") /\ UNCHANGED <<cut, faults>>
       \/ Free(t) /\ Cut(upd[t])
    /\ UNCHANGED <<mode, confirmed, polling, idem, identities, snapshots, audits, ledger,
                   welcomes, told, handled, restarts>>

\* Defect: a duplicate is refused instead of acknowledged.
MarkSeenRefusing(t) ==
    /\ at[t] = "dedup"
    /\ seen' = seen \union {upd[t]}
    /\ \/ upd[t] \notin seen /\ Goto(t, "serve") /\ UNCHANGED <<cut, faults>>
       \/ upd[t] \in seen /\ Free(t) /\ UNCHANGED <<cut, faults>>
       \/ Free(t) /\ Cut(upd[t])
    /\ UNCHANGED <<mode, confirmed, polling, idem, identities, snapshots, audits, ledger,
                   welcomes, told, handled, restarts>>

\* The guard is asked before the update is processed; when it raises, the
\* answer is a 500.
MarkSeen(t) ==
    /\ at[t] = "dedup"
    /\ seen' = seen \union {upd[t]}
    /\ \/ /\ Goto(t, IF upd[t] \in seen THEN "done" ELSE "serve")
          /\ UNCHANGED <<cut, faults>>
       \/ Free(t) /\ Cut(upd[t])
    /\ UNCHANGED <<mode, confirmed, polling, idem, identities, snapshots, audits, ledger,
                   welcomes, told, handled, restarts>>
MarkSeenRefused(t) ==
    /\ at[t] = "dedup"
    /\ Free(t) /\ Cut(upd[t])
    /\ UNCHANGED <<mode, confirmed, polling, tables, welcomes, told, handled, restarts>>

-----------------------------------------------------------------------------
(* UC-01. A statement whose result is lost, or that is refused, makes the  *)
(* handler answer with a failure, which is sent without a key.             *)

Fail(t) == Goto(t, "sendOther") /\ Dispatched(upd[t]) /\ Cut(upd[t])
Then(t, step) ==
    \/ Goto(t, step) /\ UNCHANGED <<handled, cut, faults>>
    \/ Fail(t)
Frame == UNCHANGED <<mode, confirmed, polling, seen, ledger, welcomes, told, restarts>>

\* Defect: the key is inserted as completed.
BeginCompleted(t) ==
    /\ at[t] = "begin"
    /\ idem' = [idem EXCEPT ![upd[t]] = "completed"]
    /\ Then(t, IF idem[upd[t]] = "completed" THEN "find" ELSE "create")
    /\ Frame /\ UNCHANGED <<identities, snapshots, audits>>

Begin(t) ==
    /\ at[t] = "begin"
    /\ LET u == upd[t] IN
        /\ idem' = [idem EXCEPT ![u] = IF @ = "none" THEN "open" ELSE @]
        /\ Then(t, IF idem[u] = "completed" THEN "find" ELSE "create")
    /\ Frame /\ UNCHANGED <<identities, snapshots, audits>>

\* A completed key: a replay. No identity is an invariant failure.
Find(t) ==
    /\ at[t] = "find"
    /\ IF Sender[upd[t]] \in identities THEN Then(t, "keepSnapshot")
       ELSE Goto(t, "sendOther") /\ Dispatched(upd[t]) /\ UNCHANGED <<cut, faults>>
    /\ Frame /\ UNCHANGED <<idem, identities, snapshots, audits>>
KeepSnapshot(t) ==
    /\ at[t] = "keepSnapshot"
    /\ snapshots' = snapshots \union {Sender[upd[t]]}
    /\ \/ Goto(t, "ledger") /\ Dispatched(upd[t]) /\ UNCHANGED <<cut, faults>>
       \/ Fail(t)
    /\ Frame /\ UNCHANGED <<idem, identities, audits>>

Create(t) ==
    /\ at[t] = "create"
    /\ identities' = identities \union {Sender[upd[t]]}
    /\ Then(t, "snapshot")
    /\ Frame /\ UNCHANGED <<idem, snapshots, audits>>
PutSnapshot(t) ==
    /\ at[t] = "snapshot"
    /\ snapshots' = snapshots \union {Sender[upd[t]]}
    /\ Then(t, "audit")
    /\ Frame /\ UNCHANGED <<idem, identities, audits>>
AppendAudit(t) ==
    /\ at[t] = "audit"
    /\ audits' = [audits EXCEPT ![upd[t]] = @ + 1]
    /\ Then(t, "complete")
    /\ Frame /\ UNCHANGED <<idem, identities, snapshots>>
Complete(t) ==
    /\ at[t] = "complete"
    /\ idem' = [idem EXCEPT ![upd[t]] = "completed"]
    /\ \/ Goto(t, "pending") /\ Dispatched(upd[t]) /\ UNCHANGED <<cut, faults>>
       \/ Fail(t)
    /\ Frame /\ UNCHANGED <<identities, snapshots, audits>>
Refused(t) ==
    /\ at[t] \in Uc01Steps
    /\ Fail(t)
    /\ Frame /\ UNCHANGED <<idem, identities, snapshots, audits>>

\* Any other command, to the answer it gives. Every handler but that of a resend
\* turns an exception into an answer.
Serve(t) ==
    /\ at[t] = "serve"
    /\ Goto(t, "sendOther") /\ Dispatched(upd[t])
    /\ UNCHANGED <<mode, confirmed, polling, tables, welcomes, told, cut, bounds>>

\* What the resend handler reads outside of a try may raise, and nothing up to
\* the batch catches it: the update is counted as failed, nothing is sent, and
\* the loop goes on or the webhook answers 200.
ServeRaises(t) ==
    /\ at[t] = "serve" /\ upd[t] \in Resends
    /\ Drop(t)
    /\ UNCHANGED <<mode, confirmed, polling, tables, welcomes, told, handled, restarts>>

-----------------------------------------------------------------------------
(* Sending. An exception ends the update as well.                          *)

SendFrame == UNCHANGED <<mode, confirmed, polling, idem, identities, snapshots, audits, seen,
                         handled, restarts>>

\* Defect: a replay sends whatever the ledger says.
ReadLedgerIgnored(t) ==
    /\ at[t] = "ledger"
    /\ Goto(t, "pending")
    /\ SendFrame /\ UNCHANGED <<ledger, welcomes, told, cut, faults>>

\* A replay sends only what the ledger has pending.
ReadLedger(t) ==
    /\ at[t] = "ledger"
    /\ LET u == upd[t] IN
        Goto(t, IF ledger[u] = "pending" THEN "pending" ELSE "done")
    /\ SendFrame /\ UNCHANGED <<ledger, welcomes, told, cut, faults>>

\* Defect: ON CONFLICT DO UPDATE instead of DO NOTHING.
EnsurePendingReset(t) ==
    /\ at[t] = "pending"
    /\ ledger' = [ledger EXCEPT ![upd[t]] = "pending"]
    /\ \/ Goto(t, "sendWelcome") /\ UNCHANGED <<cut, faults>>
       \/ Drop(t)
    /\ SendFrame /\ UNCHANGED <<welcomes, told>>

EnsurePending(t) ==
    /\ at[t] = "pending"
    /\ ledger' = [ledger EXCEPT ![upd[t]] = IF @ = "none" THEN "pending" ELSE @]
    /\ \/ Goto(t, "sendWelcome") /\ UNCHANGED <<cut, faults>>
       \/ Drop(t)
    /\ SendFrame /\ UNCHANGED <<welcomes, told>>
SendWelcome(t) ==
    /\ at[t] = "sendWelcome"
    /\ welcomes' = [welcomes EXCEPT ![upd[t]] = @ + 1]
    /\ \/ Goto(t, "mark") /\ UNCHANGED <<cut, faults>>
       \/ Drop(t)
    /\ SendFrame /\ UNCHANGED <<ledger, told>>
MarkSent(t) ==
    /\ at[t] = "mark"
    /\ ledger' = [ledger EXCEPT ![upd[t]] = IF @ = "pending" THEN "sent" ELSE @]
    /\ \/ Goto(t, "done") /\ UNCHANGED <<cut, faults>>
       \/ Drop(t)
    /\ SendFrame /\ UNCHANGED <<welcomes, told>>
SendOther(t) ==   \* nothing depends on whether it arrives
    /\ at[t] = "sendOther"
    /\ Goto(t, "done") /\ told' = told \union {upd[t]}
    /\ SendFrame /\ UNCHANGED <<ledger, welcomes, cut, faults>>
SendRefused(t) ==
    /\ at[t] \in {"ledger", "pending", "sendWelcome", "mark"}
    /\ Drop(t)
    /\ SendFrame /\ UNCHANGED <<ledger, welcomes, told>>

\* The loop goes on to the next update; the webhook answers 200, whatever
\* became of the message.
Done(t) ==
    /\ at[t] = "done"
    /\ Free(t)
    /\ IF mode = "polling"
       THEN batch' = batch \ {upd[t]} /\ UNCHANGED <<confirmed, faults>>
       ELSE /\ UNCHANGED batch
            /\ \/ confirmed' = confirmed \union {upd[t]} /\ UNCHANGED faults
               \/ Fault /\ UNCHANGED confirmed
    /\ UNCHANGED <<mode, offset, tables, history, restarts>>

-----------------------------------------------------------------------------
\* Defect: the offset of a new process is 0, which advance_polling_offset
\* does not accept.
RestartAtZero ==
    /\ restarts' = restarts + 1
    /\ offset' = 0 /\ batch' = {}
    /\ at' = [t \in Tasks |-> "idle"] /\ upd' = [t \in Tasks |-> Null]
    /\ UNCHANGED <<mode, confirmed, tables, welcomes, told, handled>>

Restart ==
    /\ restarts' = restarts + 1
    /\ offset' = 1 /\ batch' = {}
    /\ at' = [t \in Tasks |-> "idle"] /\ upd' = [t \in Tasks |-> Null]
    /\ UNCHANGED <<mode, confirmed, tables, welcomes, told, handled>>

\* The loop stops between two fetches, or the server drains its requests,
\* and is started again.
StopAndStart ==
    /\ restarts < MaxRestarts
    /\ batch = {} /\ \A t \in Tasks : at[t] = "idle"
    /\ Restart
    /\ UNCHANGED <<cut, faults>>

\* A crash cuts what the tasks were doing; a task that is done lost nothing.
Crash ==
    /\ restarts < MaxRestarts
    /\ Fault
    /\ cut' = [u \in Updates |->
                 IF \E t \in Tasks : upd[t] = u /\ at[t] # "done" THEN cut[u] + 1 ELSE cut[u]]
    /\ Restart

Uc01(t) == \/ Begin(t) \/ Find(t) \/ KeepSnapshot(t) \/ Create(t) \/ PutSnapshot(t)
           \/ AppendAudit(t) \/ Complete(t) \/ Refused(t)
Send(t) == \/ ReadLedger(t) \/ EnsurePending(t) \/ SendWelcome(t) \/ MarkSent(t)
           \/ SendOther(t) \/ SendRefused(t) \/ Done(t)
Work(t) == MarkSeen(t) \/ MarkSeenRefused(t) \/ Uc01(t) \/ Serve(t) \/ ServeRaises(t) \/ Send(t)
Poll == Fetch \/ FetchFails \/ TakeNext
Next ==
    \/ Poll
    \/ \E t \in Tasks, u \in Updates : Receive(t, u)
    \/ \E t \in Tasks : Work(t)
    \/ StopAndStart \/ Crash

-----------------------------------------------------------------------------
\* What the tables say of a /start is true in any order of crashes, replays
\* and overlapping requests: a completed key has its identity, its snapshot
\* and an audit row, a ledger row has a completed key, and a row that says
\* sent has a message in the chat.
TablesTellTheTruth ==
    \A u \in Starts :
        /\ idem[u] = "completed" =>
             Sender[u] \in identities /\ Sender[u] \in snapshots /\ audits[u] > 0
        /\ ledger[u] # "none" => idem[u] = "completed"
        /\ ledger[u] = "sent" => welcomes[u] > 0

\* A /start is audited and welcomed once; every further row or message is
\* paid for by a fault, a crash or an overlapping request that hit a task of
\* this update. A restart between updates, or a lost 200, costs nothing.
NothingTwiceWithoutFault ==
    \A u \in Starts : audits[u] <= 1 + cut[u] /\ welcomes[u] <= 1 + cut[u]

\* Telegram forgets an update only after it was dispatched to its end and its
\* user was sent something; a replay that stays silent follows an answer or a
\* fault. A fault loses two commands for good, with nobody told: /get_access,
\* when a lookup of its handler raises and the update is confirmed all the same;
\* and any command the webhook marks as seen before it is processed, when a
\* fault in between makes the guard swallow Telegram's retry.
ConfirmedMeansHandled ==
    \A u \in confirmed :
        /\ \/ handled[u] > 0
           \/ cut[u] > 0 /\ (u \in Resends \/ (u \in Mutating /\ mode = "webhook"))
        /\ welcomes[u] > 0 \/ u \in told \/ cut[u] > 0

\* Behind the webhook a mutating command is dispatched once, however often
\* Telegram sends it; the polling loop dispatches an update again only
\* because it was restarted and had lost its offset.
DispatchedOnce ==
    \A u \in Updates :
        /\ mode = "webhook" /\ u \in Mutating => handled[u] <= 1
        /\ mode = "polling" => handled[u] <= 1 + restarts

\* No late statement takes a row back: a key stays completed, and
\* ensure_pending of a slow task does not reopen what another has sent.
RowStep == \A u \in Updates :
    /\ idem[u] = "completed" => idem'[u] = "completed"
    /\ ledger[u] = "sent" => ledger'[u] = "sent"
    /\ ledger[u] = "pending" => ledger'[u] # "none"
DeliveryRowsMoveForward == [][RowStep]_vars

\* Every update is confirmed in the end: failures of a statement, a send or
\* the guard never wedge the loop or Telegram's queue.
EveryUpdateConfirmed == <>(confirmed = Updates)

-----------------------------------------------------------------------------
\* The process is rescheduled, its loop goes on, and Telegram tries again.
Fairness ==
    /\ WF_vars(Poll)
    /\ \A t \in Tasks : WF_vars(Work(t))
    /\ \A u \in Updates : WF_vars(\E t \in Tasks : Receive(t, u))
Spec == Init /\ [][Next]_vars
FairSpec == Spec /\ Fairness

=============================================================================
