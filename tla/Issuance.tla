------------------------------ MODULE Issuance ------------------------------
(***************************************************************************)
(* The issuance service: issue, resend and revoke of access.               *)
(*                                                                         *)
(* Several processes run a service each over one durable table. A service  *)
(* remembers what it has seen in process memory and trusts that memory     *)
(* before the table. Calls of one process interleave at their awaits: the  *)
(* lookup of the row, the call of the provider, the write of the row. What *)
(* lies between two awaits is one action.                                  *)
(*                                                                         *)
(* The provider is a port with one fake implementation. Here it returns    *)
(* any ref on any call, or refuses.                                        *)
(***************************************************************************)
EXTENDS Naturals, FiniteSets

CONSTANTS Users, IssueKeys, \* a row is keyed by both
          RequestIds,       \* idempotency keys of resends and revokes, with their user
          Refs,             \* provider issuance refs
          Processes,
          OneShot,          \* processes that serve one call: operator commands
          Calls,
          ProcessOf,        \* the process a call runs in
          Asks,             \* the requests each process makes of its service
          Null,
          MaxFailures       \* bound on refusals, failed statements and crashes

Keys == Users \X IssueKeys
Operations == {"issue", "resend", "revoke"}
SubscriptionStates == {"active", "needs_review", "other"}
Request == [op : Operations, key : Keys, id : RequestIds, state : SubscriptionStates]

ASSUME IssuanceAssumption ==
    /\ OneShot \subseteq Processes
    /\ ProcessOf \in [Calls -> Processes]
    /\ Asks \in [Processes -> SUBSET Request]
    /\ MaxFailures \in Nat

\* A row of issuance_state, and an entry of the process-local ledger.
Row == [state : {"issued", "revoked"}, ref : Refs]

\* IssuanceRequest: the id of a resend or a revoke scopes that one operation, so
\* it belongs to one key.
ASSUME IdAssumption ==
    \A p \in Processes : \A r, s \in Asks[p] :
        r.op # "issue" /\ s.op = r.op /\ s.id = r.id => s.key = r.key

ASSUME NullAssumption == Null \notin Row \union Refs \union Request

Categories == {"not_entitled", "needs_review", "provider_unavailable", "provider_rejected",
               "already_issued", "revoked", "unsafe_to_deliver", "internal_error", "issued",
               "delivery_ready"}
Answer == [category : Categories, ref : Refs \union {Null}]
NoAnswer == [category |-> "internal_error", ref |-> Null]

VARIABLES rows,        \* issuance_state by key; Null is no row
          memory,      \* _ledger of each process; _issue_idempotent_result holds
                       \* the keys whose entry is issued
          revokeDone,  \* _revoke_completed
          resendCache, \* _resend_cached; an instruction is named by its ref
          step,        \* what each call awaits, or "idle"
          request,     \* what it was asked, kept with its answer
          held,        \* the ref in its local variables
          answer,      \* its last answer
          late,        \* calls whose row had been revoked before they began
          failures

locals == <<memory, revokeDone, resendCache>>
calls == <<step, request, held, answer, late>>
vars == <<rows, locals, calls, failures>>

Steps == {"idle", "fetch", "create", "persist", "instruct", "revoke", "mark"}

TypeOK ==
    /\ rows \in [Keys -> Row \union {Null}]
    /\ memory \in [Processes \X Keys -> Row \union {Null}]
    /\ revokeDone \subseteq Processes \X RequestIds
    /\ resendCache \in [Processes \X RequestIds -> Refs \union {Null}]
    /\ step \in [Calls -> Steps]
    /\ request \in [Calls -> Request \union {Null}]
    /\ held \in [Calls -> Refs \union {Null}]
    /\ answer \in [Calls -> Answer]
    /\ late \subseteq Calls
    /\ failures \in 0..MaxFailures
    /\ \A c \in Calls :
          /\ step[c] # "idle" => request[c] # Null
          /\ step[c] \in {"create", "persist"} => request[c].op = "issue"
          /\ step[c] = "instruct" => request[c].op = "resend"
          /\ step[c] \in {"revoke", "mark"} => request[c].op = "revoke"
          /\ step[c] \in {"persist", "instruct", "revoke"} => held[c] # Null

Init ==
    /\ rows = [k \in Keys |-> Null]
    /\ memory = [x \in Processes \X Keys |-> Null]
    /\ revokeDone = {}
    /\ resendCache = [x \in Processes \X RequestIds |-> Null]
    /\ step = [c \in Calls |-> "idle"]
    /\ request = [c \in Calls |-> Null]
    /\ held = [c \in Calls |-> Null]
    /\ answer = [c \in Calls |-> NoAnswer]
    /\ late = {}
    /\ failures = 0

-----------------------------------------------------------------------------
(* The durable table. *)

Is(entry, s) == entry # Null /\ entry.state = s

\* INSERT ON CONFLICT DO NOTHING, then the row as it is.
IssueOrGet(k, ref) ==
    rows' = IF rows[k] = Null THEN [rows EXCEPT ![k] = [state |-> "issued", ref |-> ref]] ELSE rows

\* Defect: revoking deletes the row.
MarkRowDeleting(k) == rows' = [rows EXCEPT ![k] = Null]

\* UPDATE of an issued row; a missing or revoked one stays as it is.
MarkRow(k) ==
    rows' = IF Is(rows[k], "issued")
            THEN [rows EXCEPT ![k] = [state |-> "revoked", ref |-> rows[k].ref]] ELSE rows

(* Process memory. *)

SyncMemory(p, k, s, ref) == memory' = [memory EXCEPT ![<<p, k>>] = [state |-> s, ref |-> ref]]
RevokeCompleted(p, id) == revokeDone' = revokeDone \union {<<p, id>>}

Fresh(p) == /\ \A k \in Keys : memory[<<p, k>>] = Null
            /\ \A id \in RequestIds : <<p, id>> \notin revokeDone /\ resendCache[<<p, id>>] = Null

(* Calls. *)

Begin(c, r) ==
    /\ step[c] = "idle"
    /\ r \in Asks[ProcessOf[c]]
    /\ ProcessOf[c] \in OneShot => Fresh(ProcessOf[c])
    /\ request' = [request EXCEPT ![c] = r]
    /\ late' = IF Is(rows[r.key], "revoked") THEN late \union {c} ELSE late \ {c}

Await(c, s, ref) ==
    /\ step' = [step EXCEPT ![c] = s]
    /\ held' = [held EXCEPT ![c] = ref]
    /\ UNCHANGED answer

Reply(c, category, ref) ==
    /\ step' = [step EXCEPT ![c] = "idle"]
    /\ held' = [held EXCEPT ![c] = Null]
    /\ answer' = [answer EXCEPT ![c] = [category |-> category, ref |-> ref]]

Entitled(r) == r.state = "active"
Denial(r) == IF r.state = "needs_review" THEN "needs_review" ELSE "not_entitled"

Issue(c, r) ==
    LET entry == memory[<<ProcessOf[c], r.key>>]
    IN  /\ r.op = "issue"
        /\ Begin(c, r)
        /\ \/ ~Entitled(r) /\ Reply(c, Denial(r), Null)
           \/ Entitled(r) /\ entry = Null /\ Await(c, "fetch", Null)
           \/ Entitled(r) /\ Is(entry, "issued") /\ Reply(c, "already_issued", entry.ref)
           \/ Entitled(r) /\ Is(entry, "revoked") /\ Reply(c, "internal_error", Null)
        /\ UNCHANGED <<rows, locals, failures>>

\* The instruction of an issued row: from the cache, or from the provider.
Instructions(c, r, ref) ==
    LET cached == resendCache[<<ProcessOf[c], r.id>>]
    IN  IF cached # Null THEN Reply(c, "delivery_ready", cached) ELSE Await(c, "instruct", ref)

Resend(c, r) ==
    LET entry == memory[<<ProcessOf[c], r.key>>]
    IN  /\ r.op = "resend"
        /\ Begin(c, r)
        /\ \/ ~Entitled(r) /\ Reply(c, Denial(r), Null)
           \/ Entitled(r) /\ entry = Null /\ Await(c, "fetch", Null)
           \/ Entitled(r) /\ Is(entry, "issued") /\ Instructions(c, r, entry.ref)
           \/ Entitled(r) /\ Is(entry, "revoked") /\ Reply(c, "revoked", Null)
        /\ UNCHANGED <<rows, locals, failures>>

Revoke(c, r) ==
    LET p == ProcessOf[c]
        entry == memory[<<p, r.key>>]
        done == <<p, r.id>> \in revokeDone
    IN  /\ r.op = "revoke"
        /\ Begin(c, r)
        /\ \/ /\ done \/ Is(entry, "revoked")
              /\ Reply(c, "revoked", Null)
              /\ RevokeCompleted(p, r.id)
           \/ /\ ~done
              /\ \/ entry = Null /\ Await(c, "fetch", Null)
                 \/ Is(entry, "issued") /\ Await(c, "revoke", entry.ref)
              /\ UNCHANGED revokeDone
        /\ UNCHANGED <<rows, memory, resendCache, failures>>

FetchForIssue(c) ==
    LET k == request[c].key
        row == rows[k]
    IN  /\ step[c] = "fetch" /\ request[c].op = "issue"
        /\ \/ row = Null /\ Await(c, "create", Null) /\ UNCHANGED memory
           \/ /\ Is(row, "issued")
              /\ SyncMemory(ProcessOf[c], k, "issued", row.ref)
              /\ Reply(c, "already_issued", row.ref)
           \/ Is(row, "revoked") /\ Reply(c, "internal_error", Null) /\ UNCHANGED memory
        /\ UNCHANGED <<rows, revokeDone, resendCache, request, late, failures>>

\* Defect: a resend remembers the issued row it has looked up.
RememberLookup(c) == SyncMemory(ProcessOf[c], request[c].key, "issued", rows[request[c].key].ref)

\* A resend uses the issued row it has looked up and does not remember it.
KeepLookupLocal(c) == UNCHANGED memory

FetchForResend(c) ==
    LET k == request[c].key
        row == rows[k]
    IN  /\ step[c] = "fetch" /\ request[c].op = "resend"
        /\ \/ row = Null /\ Reply(c, "unsafe_to_deliver", Null) /\ UNCHANGED memory
           \/ Is(row, "issued") /\ Instructions(c, request[c], row.ref) /\ KeepLookupLocal(c)
           \/ /\ Is(row, "revoked")
              /\ SyncMemory(ProcessOf[c], k, "revoked", row.ref)
              /\ Reply(c, "revoked", Null)
        /\ UNCHANGED <<rows, revokeDone, resendCache, request, late, failures>>

FetchForRevoke(c) ==
    LET k == request[c].key
        row == rows[k]
    IN  /\ step[c] = "fetch" /\ request[c].op = "revoke"
        /\ \/ row = Null /\ Reply(c, "not_entitled", Null) /\ UNCHANGED <<memory, revokeDone>>
           \/ Is(row, "issued") /\ Await(c, "revoke", row.ref) /\ UNCHANGED <<memory, revokeDone>>
           \/ /\ Is(row, "revoked")
              /\ RevokeCompleted(ProcessOf[c], request[c].id)
              /\ SyncMemory(ProcessOf[c], k, "revoked", row.ref)
              /\ Reply(c, "revoked", Null)
        /\ UNCHANGED <<rows, resendCache, request, late, failures>>

\* Defect: a success of the provider without a ref is accepted.
CreateUnchecked(c) ==
    /\ step[c] = "create"
    /\ \E ref \in Refs \union {Null} : Await(c, "persist", ref)
    /\ UNCHANGED <<rows, locals, request, late, failures>>

Create(c) ==
    /\ step[c] = "create"
    /\ \E ref \in Refs : Await(c, "persist", ref)
    /\ UNCHANGED <<rows, locals, request, late, failures>>

\* Defect: the provider's ref is answered in place of the row's.
RefOfProvider(c, row) == held[c]

\* Whoever wrote the row first decides its ref.
RefOfRow(c, row) == row.ref

\* The row may have been written, or even revoked, since the lookup.
Persist(c) ==
    LET k == request[c].key
        ref == RefOfRow(c, rows'[k])
    IN  /\ step[c] = "persist"
        /\ IssueOrGet(k, held[c])
        /\ SyncMemory(ProcessOf[c], k, "issued", ref)
        /\ Reply(c, "issued", ref)
        /\ UNCHANGED <<revokeDone, resendCache, request, late, failures>>

Instruct(c) ==
    /\ step[c] = "instruct"
    /\ resendCache' = [resendCache EXCEPT ![<<ProcessOf[c], request[c].id>>] = held[c]]
    /\ Reply(c, "delivery_ready", held[c])
    /\ UNCHANGED <<rows, memory, revokeDone, request, late, failures>>

\* Defect: the revoke is remembered before it is written.
RevokeRemembered(c) ==
    /\ step[c] = "revoke"
    /\ Await(c, "mark", held[c])
    /\ SyncMemory(ProcessOf[c], request[c].key, "revoked", held[c])
    /\ UNCHANGED <<rows, revokeDone, resendCache, request, late, failures>>

RevokeAtProvider(c) ==
    /\ step[c] = "revoke"
    /\ Await(c, "mark", held[c])
    /\ UNCHANGED <<rows, locals, request, late, failures>>

MarkRevoked(c) ==
    LET k == request[c].key
    IN  /\ step[c] = "mark"
        /\ MarkRow(k)
        /\ IF rows'[k] = Null
           THEN Reply(c, "internal_error", Null) /\ UNCHANGED <<memory, revokeDone>>
           ELSE /\ SyncMemory(ProcessOf[c], k, "revoked", rows'[k].ref)
                /\ RevokeCompleted(ProcessOf[c], request[c].id)
                /\ Reply(c, "revoked", Null)
        /\ UNCHANGED <<resendCache, request, late, failures>>

(* What may go wrong, MaxFailures times. *)

\* What an unavailable, rejecting or unclear provider is answered as.
Refusals(c) ==
    {"provider_unavailable", "provider_rejected",
     IF step[c] = "instruct" THEN "unsafe_to_deliver" ELSE "internal_error"}

ProviderRefuses(c) ==
    /\ step[c] \in {"create", "instruct", "revoke"}
    /\ failures < MaxFailures
    /\ failures' = failures + 1
    /\ \E category \in Refusals(c) : Reply(c, category, Null)
    /\ UNCHANGED <<rows, locals, request, late>>

\* PersistenceDependencyError: the statement failed, or it was committed and its
\* result was lost.
StatementFails(c) ==
    /\ step[c] \in {"fetch", "persist", "mark"}
    /\ failures < MaxFailures
    /\ failures' = failures + 1
    /\ \/ UNCHANGED rows
       \/ step[c] = "persist" /\ IssueOrGet(request[c].key, held[c])
       \/ step[c] = "mark" /\ MarkRow(request[c].key)
    /\ Reply(c, "internal_error", Null)
    /\ UNCHANGED <<locals, request, late>>

\* The process begins anew, without memory; its calls end unanswered.
Restart(p) ==
    LET lost == {c \in Calls : ProcessOf[c] = p /\ step[c] # "idle"}
    IN  /\ ~Fresh(p) \/ lost # {}
        /\ memory' = [x \in Processes \X Keys |-> IF x[1] = p THEN Null ELSE memory[x]]
        /\ resendCache' = [x \in Processes \X RequestIds |-> IF x[1] = p THEN Null ELSE resendCache[x]]
        /\ revokeDone' = {x \in revokeDone : x[1] # p}
        /\ step' = [c \in Calls |-> IF c \in lost THEN "idle" ELSE step[c]]
        /\ held' = [c \in Calls |-> IF c \in lost THEN Null ELSE held[c]]
        /\ answer' = [c \in Calls |-> IF c \in lost THEN NoAnswer ELSE answer[c]]
        /\ IF lost = {} /\ p \in OneShot THEN UNCHANGED failures
           ELSE failures < MaxFailures /\ failures' = failures + 1
        /\ UNCHANGED <<rows, request, late>>

-----------------------------------------------------------------------------

Ask(c, r) == Issue(c, r) \/ Resend(c, r) \/ Revoke(c, r)

Work(c) ==
    \/ FetchForIssue(c)
    \/ FetchForResend(c)
    \/ FetchForRevoke(c)
    \/ Create(c)
    \/ Persist(c)
    \/ Instruct(c)
    \/ RevokeAtProvider(c)
    \/ MarkRevoked(c)

Next ==
    \/ \E c \in Calls :
          \/ \E r \in Asks[ProcessOf[c]] : Ask(c, r)
          \/ Work(c)
          \/ ProviderRefuses(c)
          \/ StatementFails(c)
    \/ \E p \in Processes : Restart(p)

Spec == Init /\ [][Next]_vars

-----------------------------------------------------------------------------
(* Safety. *)

Answered(c, categories) == request[c] # Null /\ step[c] = "idle" /\ answer[c].category \in categories

\* Whatever a call answered from, the memory of its process, its cache, the table
\* or the provider, it is what the table says of the key: the ref of the one row
\* there is, for every process alike; and "revoked" only of a row that is revoked.
AnswersMatchRows ==
    \A c \in Calls :
        /\ Answered(c, {"issued", "already_issued", "delivery_ready"}) =>
              rows[request[c].key] # Null /\ rows[request[c].key].ref = answer[c].ref
        /\ Answered(c, {"revoked"}) => Is(rows[request[c].key], "revoked")

\* Issuing and resending are not both the work of a process that lives on.
Apart(p) == p \in OneShot \/ \A r, s \in Asks[p] : ~(r.op = "issue" /\ s.op = "resend")

\* A resend that begins after the row was revoked delivers nothing, whichever
\* process revoked it, in every process that does not also issue, which is how
\* each one is deployed: no such process remembers a row as issued.
NoDeliveryAfterRevoke ==
    \A c \in late : Apart(ProcessOf[c]) => ~Answered(c, {"delivery_ready"})

\* Process memory is behind the table, never ahead of it or beside it.
MemoryFollowsRows ==
    \A p \in Processes, k \in Keys :
        memory[<<p, k>>] # Null =>
            /\ rows[k] # Null
            /\ rows[k].ref = memory[<<p, k>>].ref
            /\ memory[<<p, k>>].state = "revoked" => rows[k].state = "revoked"

Forward == \A k \in Keys : rows[k] # Null =>
               /\ rows'[k] # Null
               /\ rows'[k].ref = rows[k].ref
               /\ rows[k].state = "revoked" => rows'[k].state = "revoked"

\* A row is never lost, never changes its ref, and never leaves "revoked".
RowsMoveForward == [][Forward]_vars

=============================================================================
