--------------------------- MODULE IssuanceProofs ---------------------------
(* Theorems about Issuance, for every set of users, keys, processes, calls  *)
(* and requests.                                                            *)
EXTENDS Issuance, TLAPS

\* What a call holds between two awaits is the ref of a row, and it asks what
\* its process asks.
HeldMatchesRows ==
    \A c \in Calls :
        /\ request[c] # Null => request[c] \in Asks[ProcessOf[c]]
        /\ step[c] \in {"instruct", "revoke", "mark"} =>
              rows[request[c].key] # Null /\ rows[request[c].key].ref = held[c]

\* What a process has cached of a resend or a revoke is true of the row of every
\* request with that id.
CachesMatchRows ==
    \A p \in Processes : \A r \in Asks[p] :
        /\ r.op = "resend" /\ resendCache[<<p, r.id>>] # Null =>
              rows[r.key] # Null /\ rows[r.key].ref = resendCache[<<p, r.id>>]
        /\ r.op = "revoke" /\ <<p, r.id>> \in revokeDone => Is(rows[r.key], "revoked")

RowsInv == TypeOK /\ HeldMatchesRows /\ CachesMatchRows /\ MemoryFollowsRows /\ AnswersMatchRows

\* The fields of a request that is made.
LEMMA AskedRequest ==
    ASSUME NEW p \in Processes, NEW r \in Asks[p]
    PROVE  /\ r \in Request /\ r # Null
           /\ r.op \in Operations /\ r.key \in Keys /\ r.id \in RequestIds
           /\ r.state \in SubscriptionStates
  BY IssuanceAssumption, NullAssumption DEF Request

\* The request of a call that is not idle, and its process.
LEMMA CallShape ==
    ASSUME RowsInv, NEW c \in Calls
    PROVE  /\ ProcessOf[c] \in Processes
           /\ step[c] # "idle" =>
                 /\ request[c] \in Asks[ProcessOf[c]] /\ request[c] # Null
                 /\ request[c] \in Request
                 /\ request[c].key \in Keys /\ request[c].id \in RequestIds
           /\ step[c] \in {"persist", "instruct", "revoke"} => held[c] \in Refs /\ held[c] # Null
  BY IssuanceAssumption, NullAssumption, AskedRequest DEF RowsInv, TypeOK, HeldMatchesRows

\* A row is Null or a row with a ref.
LEMMA RowShape ==
    ASSUME TypeOK, NEW k \in Keys
    PROVE  /\ rows[k] \in Row \union {Null}
           /\ rows[k] # Null => /\ rows[k].ref \in Refs /\ rows[k].ref # Null
                                /\ rows[k].state \in {"issued", "revoked"}
                                /\ Is(rows[k], "issued") \/ Is(rows[k], "revoked")
  BY NullAssumption DEF TypeOK, Row, Is

-----------------------------------------------------------------------------
(* Rows only move forward. *)

LEMMA IssueForward ==
    ASSUME TypeOK, NEW k \in Keys, NEW ref \in Refs, IssueOrGet(k, ref)
    PROVE  /\ rows' \in [Keys -> Row \union {Null}]
           /\ Forward
           /\ rows'[k] # Null
  BY NullAssumption DEF TypeOK, IssueOrGet, Forward, Row

LEMMA MarkForward ==
    ASSUME TypeOK, NEW k \in Keys, MarkRow(k)
    PROVE  /\ rows' \in [Keys -> Row \union {Null}]
           /\ Forward
           /\ rows[k] # Null => Is(rows'[k], "revoked")
  BY NullAssumption, RowShape DEF TypeOK, MarkRow, Forward, Row, Is

LEMMA StepsMoveForward ==
    ASSUME RowsInv, [Next]_vars
    PROVE  /\ rows' \in [Keys -> Row \union {Null}]
           /\ Forward
<1> USE DEF RowsInv
<1>1. ASSUME UNCHANGED rows PROVE rows' \in [Keys -> Row \union {Null}] /\ Forward
  BY <1>1 DEF TypeOK, Forward
<1>2. ASSUME NEW c \in Calls, Persist(c) PROVE rows' \in [Keys -> Row \union {Null}] /\ Forward
  BY <1>2, CallShape, IssueForward DEF Persist
<1>3. ASSUME NEW c \in Calls, MarkRevoked(c)
      PROVE  rows' \in [Keys -> Row \union {Null}] /\ Forward
  BY <1>3, CallShape, MarkForward DEF MarkRevoked
<1>4. ASSUME NEW c \in Calls, StatementFails(c)
      PROVE  rows' \in [Keys -> Row \union {Null}] /\ Forward
  BY <1>1, <1>4, CallShape, IssueForward, MarkForward DEF StatementFails
<1>5. QED
  BY <1>1, <1>2, <1>3, <1>4
     DEF Next, Ask, Work, Issue, Resend, Revoke, FetchForIssue, FetchForResend, FetchForRevoke,
         Create, Instruct, RevokeAtProvider, ProviderRefuses, Restart, vars

-----------------------------------------------------------------------------
(* Each lemma: one group of actions preserves RowsInv. *)

\* What is not changed by a step stays true of rows that have moved forward.
LEMMA Unchanging ==
    ASSUME RowsInv, Forward
    PROVE  /\ UNCHANGED memory => MemoryFollowsRows'
           /\ UNCHANGED <<resendCache, revokeDone>> => CachesMatchRows'
           /\ UNCHANGED calls => HeldMatchesRows' /\ AnswersMatchRows'
<1> USE DEF RowsInv
<1>1. UNCHANGED memory => MemoryFollowsRows'
  BY DEF MemoryFollowsRows, Forward
<1>2. UNCHANGED <<resendCache, revokeDone>> => CachesMatchRows'
  BY AskedRequest DEF CachesMatchRows, Forward, Is
<1>3. ASSUME UNCHANGED calls PROVE HeldMatchesRows'
  BY <1>3, CallShape DEF HeldMatchesRows, Forward, calls, TypeOK
<1>4. ASSUME UNCHANGED calls PROVE AnswersMatchRows'
  BY <1>4, CallShape, NullAssumption DEF AnswersMatchRows, Answered, Forward, Is, calls, TypeOK, Request
<1>5. QED BY <1>1, <1>2, <1>3, <1>4

\* A call that ends: it holds nothing, and what it answers must be true of its row.
LEMMA CallReplies ==
    ASSUME RowsInv, Forward, NEW c \in Calls, NEW category \in Categories,
           NEW ref \in Refs \union {Null}, Reply(c, category, ref),
           request'[c] \in Asks[ProcessOf[c]],
           \A d \in Calls \ {c} : request'[d] = request[d],
           category \in {"issued", "already_issued", "delivery_ready"} =>
              rows'[request'[c].key] # Null /\ rows'[request'[c].key].ref = ref,
           category = "revoked" => Is(rows'[request'[c].key], "revoked")
    PROVE  HeldMatchesRows' /\ AnswersMatchRows'
<1> USE DEF RowsInv, Reply
<1>1. HeldMatchesRows'
  BY CallShape DEF HeldMatchesRows, Forward, TypeOK
<1>2. AnswersMatchRows'
  BY CallShape, NullAssumption DEF AnswersMatchRows, Answered, Forward, Is, TypeOK, Request
<1>3. QED BY <1>1, <1>2

\* A call that awaits: what it holds must be the ref of its row.
LEMMA CallAwaits ==
    ASSUME RowsInv, Forward, NEW c \in Calls, NEW s \in Steps \ {"idle"},
           NEW ref \in Refs \union {Null}, Await(c, s, ref),
           request'[c] \in Asks[ProcessOf[c]],
           \A d \in Calls \ {c} : request'[d] = request[d],
           s \in {"instruct", "revoke", "mark"} =>
              rows'[request'[c].key] # Null /\ rows'[request'[c].key].ref = ref
    PROVE  HeldMatchesRows' /\ AnswersMatchRows'
<1> USE DEF RowsInv, Await
<1>1. HeldMatchesRows'
  BY CallShape DEF HeldMatchesRows, Forward, TypeOK
<1>2. AnswersMatchRows'
  BY CallShape, NullAssumption DEF AnswersMatchRows, Answered, Forward, Is, TypeOK, Request
<1>3. QED BY <1>1, <1>2

\* Remembering a row as it is, or as it was before it was revoked.
LEMMA Remembering ==
    ASSUME RowsInv, Forward, NEW p \in Processes, NEW k \in Keys, NEW s \in {"issued", "revoked"},
           NEW ref \in Refs, SyncMemory(p, k, s, ref),
           rows'[k] # Null, rows'[k].ref = ref, s = "revoked" => rows'[k].state = "revoked"
    PROVE  MemoryFollowsRows' /\ memory' \in [Processes \X Keys -> Row \union {Null}]
<1> DEFINE entry == [state |-> s, ref |-> ref]
<1>1. entry \in Row /\ entry # Null /\ entry.state = s /\ entry.ref = ref
  BY NullAssumption DEF Row
<1>2. memory' = [memory EXCEPT ![<<p, k>>] = entry]
  BY DEF SyncMemory
<1> HIDE DEF entry
<1>3. memory' \in [Processes \X Keys -> Row \union {Null}]
  BY <1>1, <1>2 DEF RowsInv, TypeOK
<1>4. ASSUME NEW q \in Processes, NEW j \in Keys
      PROVE  memory'[<<q, j>>] = IF q = p /\ j = k THEN entry ELSE memory[<<q, j>>]
  BY <1>2 DEF RowsInv, TypeOK
<1>5. MemoryFollowsRows'
  BY <1>1, <1>4 DEF RowsInv, MemoryFollowsRows, Forward
<1>6. QED BY <1>3, <1>5

\* Caching that a revoked row was revoked under an id.
LEMMA Completing ==
    ASSUME RowsInv, Forward, NEW p \in Processes, NEW r \in Asks[p], r.op = "revoke",
           RevokeCompleted(p, r.id), UNCHANGED resendCache, Is(rows'[r.key], "revoked")
    PROVE  CachesMatchRows' /\ revokeDone' \subseteq Processes \X RequestIds
<1>1. revokeDone' = revokeDone \union {<<p, r.id>>}
  BY DEF RevokeCompleted
<1>2. revokeDone' \subseteq Processes \X RequestIds
  BY <1>1, AskedRequest DEF RowsInv, TypeOK
<1>3. ASSUME NEW q \in Processes, NEW t \in Asks[q], t.op = "revoke", <<q, t.id>> \in revokeDone'
      PROVE  Is(rows'[t.key], "revoked")
  <2>1. CASE <<q, t.id>> \in revokeDone
    BY <1>3, <2>1, AskedRequest DEF RowsInv, CachesMatchRows, Forward, Is
  <2>2. CASE q = p /\ t.id = r.id
    BY <1>3, <2>2, IdAssumption
  <2>3. QED BY <1>1, <1>3, <2>1, <2>2
<1>4. CachesMatchRows'
  BY <1>3, AskedRequest DEF RowsInv, CachesMatchRows, Forward, Is
<1>5. QED BY <1>2, <1>4

\* Caching the instruction of a row under the id of a resend.
LEMMA CachingInstruction ==
    ASSUME RowsInv, Forward, NEW p \in Processes, NEW r \in Asks[p], r.op = "resend",
           NEW ref \in Refs, resendCache' = [resendCache EXCEPT ![<<p, r.id>>] = ref],
           UNCHANGED revokeDone, rows'[r.key] # Null, rows'[r.key].ref = ref
    PROVE  /\ CachesMatchRows'
           /\ resendCache' \in [Processes \X RequestIds -> Refs \union {Null}]
<1>1. resendCache' \in [Processes \X RequestIds -> Refs \union {Null}]
  BY DEF RowsInv, TypeOK
<1>2. ASSUME NEW q \in Processes, NEW t \in Asks[q]
      PROVE  resendCache'[<<q, t.id>>] =
                IF q = p /\ t.id = r.id THEN ref ELSE resendCache[<<q, t.id>>]
  BY AskedRequest DEF RowsInv, TypeOK
<1>3. ASSUME NEW q \in Processes, NEW t \in Asks[q], t.op = "resend",
             resendCache'[<<q, t.id>>] # Null
      PROVE  rows'[t.key] # Null /\ rows'[t.key].ref = resendCache'[<<q, t.id>>]
  <2>1. CASE q = p /\ t.id = r.id
    BY <1>2, <1>3, <2>1, IdAssumption
  <2>2. CASE ~(q = p /\ t.id = r.id)
    BY <1>2, <1>3, <2>2, AskedRequest DEF RowsInv, CachesMatchRows, Forward
  <2>3. QED BY <2>1, <2>2
<1>4. CachesMatchRows'
  BY <1>3, AskedRequest DEF RowsInv, CachesMatchRows, Forward, Is
<1>5. QED BY <1>1, <1>4

\* The types of what Begin, Await and Reply change.
LEMMA CallTypes ==
    ASSUME RowsInv, NEW c \in Calls, NEW s \in Steps, NEW ref \in Refs \union {Null},
           NEW category \in Categories,
           \/ Reply(c, category, ref)
           \/ Await(c, s, ref)
    PROVE  /\ step' \in [Calls -> Steps]
           /\ held' \in [Calls -> Refs \union {Null}]
           /\ answer' \in [Calls -> Answer]
           /\ \A d \in Calls \ {c} : step'[d] = step[d] /\ held'[d] = held[d]
           /\ Reply(c, category, ref) => step'[c] = "idle"
           /\ Await(c, s, ref) => step'[c] = s /\ held'[c] = ref
<1> USE DEF RowsInv, TypeOK
<1>1. ASSUME Reply(c, category, ref)
      PROVE  /\ step' = [step EXCEPT ![c] = "idle"]
             /\ held' \in [Calls -> Refs \union {Null}]
             /\ answer' \in [Calls -> Answer]
             /\ \A d \in Calls \ {c} : held'[d] = held[d]
  <2>1. [category |-> category, ref |-> ref] \in Answer
    BY DEF Answer
  <2>2. QED BY <1>1, <2>1 DEF Reply
<1>2. "idle" \in Steps
  BY DEF Steps
<1>3. QED BY <1>1, <1>2 DEF Await

LEMMA IssuePreserves ==
    ASSUME RowsInv, NEW c \in Calls, NEW r \in Asks[ProcessOf[c]], Issue(c, r)
    PROVE  RowsInv'
<1> USE DEF RowsInv
<1> DEFINE entry == memory[<<ProcessOf[c], r.key>>]
<1>1. Forward /\ UNCHANGED <<rows, memory, revokeDone, resendCache, failures>>
  BY DEF Issue, TypeOK, Forward, locals
<1>2. /\ ProcessOf[c] \in Processes /\ r.key \in Keys /\ r.op = "issue" /\ r \in Request /\ r # Null
      /\ request' = [request EXCEPT ![c] = r] /\ step[c] = "idle" /\ late' \subseteq Calls
  BY CallShape, AskedRequest DEF Issue, Begin, TypeOK
<1>3. entry # Null => /\ entry.ref \in Refs
                      /\ rows'[r.key] # Null /\ rows'[r.key].ref = entry.ref
                      /\ Is(entry, "revoked") => Is(rows'[r.key], "revoked")
  BY <1>1, <1>2, NullAssumption DEF TypeOK, MemoryFollowsRows, Row, Is
<1> HIDE DEF entry
<1>4. \/ \E category \in {"needs_review", "not_entitled", "internal_error"} : Reply(c, category, Null)
      \/ Reply(c, "already_issued", entry.ref) /\ entry # Null
      \/ Await(c, "fetch", Null)
  BY DEF Issue, Denial, Is, entry
<1>5. HeldMatchesRows' /\ AnswersMatchRows'
  BY <1>1, <1>2, <1>3, <1>4, CallReplies, CallAwaits DEF Categories, Steps, TypeOK
<1>6. TypeOK'
  BY <1>1, <1>2, <1>3, <1>4, CallTypes DEF TypeOK, Categories, Steps
<1>7. QED BY <1>1, <1>5, <1>6, Unchanging

LEMMA ResendPreserves ==
    ASSUME RowsInv, NEW c \in Calls, NEW r \in Asks[ProcessOf[c]], Resend(c, r)
    PROVE  RowsInv'
<1> USE DEF RowsInv
<1> DEFINE entry == memory[<<ProcessOf[c], r.key>>]
           cached == resendCache[<<ProcessOf[c], r.id>>]
<1>1. Forward /\ UNCHANGED <<rows, memory, revokeDone, resendCache, failures>>
  BY DEF Resend, TypeOK, Forward, locals
<1>2. /\ ProcessOf[c] \in Processes /\ r.key \in Keys /\ r.op = "resend" /\ r \in Request /\ r # Null
      /\ request' = [request EXCEPT ![c] = r] /\ step[c] = "idle" /\ late' \subseteq Calls
      /\ r.id \in RequestIds
  BY CallShape, AskedRequest DEF Resend, Begin, TypeOK
<1>3. entry # Null => /\ entry.ref \in Refs /\ entry.ref # Null
                      /\ rows'[r.key] # Null /\ rows'[r.key].ref = entry.ref
                      /\ Is(entry, "revoked") => Is(rows'[r.key], "revoked")
  BY <1>1, <1>2, NullAssumption DEF TypeOK, MemoryFollowsRows, Row, Is
<1>4. cached # Null => /\ cached \in Refs
                       /\ rows'[r.key] # Null /\ rows'[r.key].ref = cached
  BY <1>1, <1>2 DEF TypeOK, CachesMatchRows
<1> HIDE DEF entry, cached
<1>5. \/ \E category \in {"needs_review", "not_entitled"} : Reply(c, category, Null)
      \/ Reply(c, "revoked", Null) /\ Is(entry, "revoked") /\ entry # Null
      \/ Reply(c, "delivery_ready", cached) /\ cached # Null
      \/ Await(c, "fetch", Null)
      \/ Await(c, "instruct", entry.ref) /\ entry # Null
  BY DEF Resend, Denial, Is, Instructions, entry, cached
<1>6. HeldMatchesRows' /\ AnswersMatchRows'
  BY <1>1, <1>2, <1>3, <1>4, <1>5, CallReplies, CallAwaits DEF Categories, Steps, TypeOK
<1>7. TypeOK'
  BY <1>1, <1>2, <1>3, <1>4, <1>5, CallTypes DEF TypeOK, Categories, Steps
<1>8. QED BY <1>1, <1>6, <1>7, Unchanging

LEMMA RevokePreserves ==
    ASSUME RowsInv, NEW c \in Calls, NEW r \in Asks[ProcessOf[c]], Revoke(c, r)
    PROVE  RowsInv'
<1> USE DEF RowsInv
<1> DEFINE p == ProcessOf[c]
           entry == memory[<<p, r.key>>]
           done == <<p, r.id>> \in revokeDone
<1>1. Forward /\ UNCHANGED <<rows, memory, resendCache, failures>>
  BY DEF Revoke, TypeOK, Forward
<1>2. /\ p \in Processes /\ r.key \in Keys /\ r.op = "revoke" /\ r \in Request /\ r # Null
      /\ request' = [request EXCEPT ![c] = r] /\ step[c] = "idle" /\ late' \subseteq Calls
      /\ r.id \in RequestIds
  BY CallShape, AskedRequest DEF Revoke, Begin, TypeOK
<1>3. entry # Null => /\ entry.ref \in Refs /\ entry.ref # Null
                      /\ rows'[r.key] # Null /\ rows'[r.key].ref = entry.ref
                      /\ Is(entry, "revoked") => Is(rows'[r.key], "revoked")
  BY <1>1, <1>2, NullAssumption DEF TypeOK, MemoryFollowsRows, Row, Is
<1>4. done => Is(rows'[r.key], "revoked")
  BY <1>1, <1>2 DEF CachesMatchRows
<1>5. \/ /\ Reply(c, "revoked", Null)
         /\ RevokeCompleted(p, r.id)
         /\ done \/ Is(entry, "revoked")
      \/ Await(c, "fetch", Null) /\ UNCHANGED revokeDone
      \/ Await(c, "revoke", entry.ref) /\ entry # Null /\ UNCHANGED revokeDone
  BY DEF Revoke, Is
<1>6. CachesMatchRows' /\ revokeDone' \subseteq Processes \X RequestIds
  BY <1>1, <1>2, <1>3, <1>4, <1>5, Completing, Unchanging DEF TypeOK, Is
<1> HIDE DEF entry, done, p
<1>7. HeldMatchesRows' /\ AnswersMatchRows'
  BY <1>1, <1>2, <1>3, <1>4, <1>5, CallReplies, CallAwaits DEF Categories, Steps, TypeOK, Is, p
<1>8. TypeOK'
  BY <1>1, <1>2, <1>3, <1>5, <1>6, CallTypes DEF TypeOK, Categories, Steps
<1>9. QED BY <1>1, <1>6, <1>7, <1>8, Unchanging

LEMMA FetchPreserves ==
    ASSUME RowsInv, NEW c \in Calls,
           FetchForIssue(c) \/ FetchForResend(c) \/ FetchForRevoke(c)
    PROVE  RowsInv'
<1> USE DEF RowsInv
<1> DEFINE p == ProcessOf[c]
           r == request[c]
           row == rows[r.key]
           cached == resendCache[<<p, r.id>>]
<1>1. Forward /\ UNCHANGED <<rows, resendCache, request, late, failures>>
  BY DEF FetchForIssue, FetchForResend, FetchForRevoke, TypeOK, Forward
<1>2. /\ p \in Processes /\ r \in Asks[p] /\ r \in Request /\ r # Null
      /\ r.key \in Keys /\ r.id \in RequestIds /\ step[c] = "fetch"
  BY CallShape DEF FetchForIssue, FetchForResend, FetchForRevoke
<1>3. row # Null => row.ref \in Refs /\ row.ref # Null /\ rows'[r.key] = row
  BY <1>1, <1>2, RowShape
<1>4. r.op = "resend" /\ cached # Null => cached \in Refs /\ row # Null /\ row.ref = cached
  BY <1>2 DEF TypeOK, CachesMatchRows
<1>5. \/ \E s \in {"issued", "revoked"} :
            SyncMemory(p, r.key, s, row.ref) /\ Is(row, s)
      \/ UNCHANGED memory
  BY DEF FetchForIssue, FetchForResend, FetchForRevoke, KeepLookupLocal
<1>6. UNCHANGED revokeDone \/ (RevokeCompleted(p, r.id) /\ r.op = "revoke" /\ Is(row, "revoked"))
  BY DEF FetchForIssue, FetchForResend, FetchForRevoke
<1>7. \/ Await(c, "create", Null) /\ r.op = "issue"
      \/ Await(c, "instruct", row.ref) /\ r.op = "resend" /\ row # Null
      \/ Await(c, "revoke", row.ref) /\ r.op = "revoke" /\ row # Null
      \/ Reply(c, "already_issued", row.ref) /\ row # Null
      \/ Reply(c, "delivery_ready", cached) /\ r.op = "resend" /\ cached # Null
      \/ \E category \in {"internal_error", "unsafe_to_deliver", "not_entitled"} :
            Reply(c, category, Null)
      \/ Reply(c, "revoked", Null) /\ Is(row, "revoked")
  BY DEF FetchForIssue, FetchForResend, FetchForRevoke, Instructions, Is
<1> HIDE DEF p, r, row, cached
<1>8. MemoryFollowsRows' /\ memory' \in [Processes \X Keys -> Row \union {Null}]
  BY <1>1, <1>2, <1>3, <1>5, Remembering, Unchanging DEF TypeOK, Is
<1>9. CachesMatchRows' /\ revokeDone' \subseteq Processes \X RequestIds
  BY <1>1, <1>2, <1>3, <1>6, Completing, Unchanging DEF TypeOK, Is
<1>10. HeldMatchesRows' /\ AnswersMatchRows'
  BY <1>1, <1>2, <1>3, <1>4, <1>7, CallReplies, CallAwaits
     DEF Categories, Steps, TypeOK, Is, p, r
<1>11. TypeOK'
  BY <1>1, <1>2, <1>3, <1>4, <1>7, <1>8, <1>9, CallTypes DEF TypeOK, Categories, Steps, r
<1>12. QED BY <1>8, <1>9, <1>10, <1>11

LEMMA ProviderPreserves ==
    ASSUME RowsInv, NEW c \in Calls,
           Create(c) \/ RevokeAtProvider(c) \/ ProviderRefuses(c)
    PROVE  RowsInv'
<1> USE DEF RowsInv
<1>1. Forward /\ UNCHANGED <<rows, memory, revokeDone, resendCache, request, late>>
  BY DEF Create, RevokeAtProvider, ProviderRefuses, TypeOK, Forward, locals
<1>2. /\ request[c] \in Asks[ProcessOf[c]]
      /\ step[c] = "create" => request[c].op = "issue"
      /\ step[c] = "revoke" => /\ request[c].op = "revoke" /\ held[c] \in Refs
                               /\ rows[request[c].key] # Null
                               /\ rows[request[c].key].ref = held[c]
  BY CallShape DEF Create, RevokeAtProvider, ProviderRefuses, TypeOK, HeldMatchesRows
<1>3. \/ \E ref \in Refs : Await(c, "persist", ref) /\ step[c] = "create"
      \/ Await(c, "mark", held[c]) /\ step[c] = "revoke"
      \/ \E category \in {"provider_unavailable", "provider_rejected", "unsafe_to_deliver",
                          "internal_error"} : Reply(c, category, Null)
  BY DEF Create, RevokeAtProvider, ProviderRefuses, Refusals
<1>4. failures' \in 0..MaxFailures
  BY IssuanceAssumption DEF Create, RevokeAtProvider, ProviderRefuses, TypeOK
<1>5. HeldMatchesRows' /\ AnswersMatchRows'
  <2>1. ASSUME NEW ref \in Refs, Await(c, "persist", ref) PROVE HeldMatchesRows' /\ AnswersMatchRows'
    BY <1>1, <1>2, <2>1, CallAwaits DEF Steps
  <2>2. ASSUME Await(c, "mark", held[c]), step[c] = "revoke"
        PROVE  HeldMatchesRows' /\ AnswersMatchRows'
    BY <1>1, <1>2, <2>2, CallAwaits DEF Steps
  <2>3. ASSUME NEW category \in {"provider_unavailable", "provider_rejected",
                                 "unsafe_to_deliver", "internal_error"},
               Reply(c, category, Null)
        PROVE  HeldMatchesRows' /\ AnswersMatchRows'
    BY <1>1, <1>2, <2>3, CallReplies DEF Categories
  <2>4. QED BY <1>3, <2>1, <2>2, <2>3
<1>6. TypeOK'
  BY <1>1, <1>2, <1>3, <1>4, CallTypes, NullAssumption DEF TypeOK, Categories, Steps
<1>7. QED BY <1>1, <1>5, <1>6, Unchanging

LEMMA PersistPreserves ==
    ASSUME RowsInv, NEW c \in Calls, Persist(c)
    PROVE  RowsInv'
<1> USE DEF RowsInv
<1> DEFINE p == ProcessOf[c]
           k == request[c].key
           ref == rows'[k].ref
<1>1. /\ p \in Processes /\ k \in Keys /\ request[c] \in Asks[p]
      /\ held[c] \in Refs /\ step[c] = "persist"
  BY CallShape DEF Persist
<1>2. rows' \in [Keys -> Row \union {Null}] /\ Forward /\ rows'[k] # Null
  BY <1>1, IssueForward DEF Persist
<1>3. ref \in Refs
  BY <1>1, <1>2 DEF Row
<1>4. /\ SyncMemory(p, k, "issued", ref)
      /\ Reply(c, "issued", ref)
      /\ UNCHANGED <<revokeDone, resendCache, request, late, failures>>
  BY DEF Persist, RefOfRow
<1> HIDE DEF p, k, ref
<1>5. MemoryFollowsRows' /\ memory' \in [Processes \X Keys -> Row \union {Null}]
  BY <1>1, <1>2, <1>3, <1>4, Remembering DEF ref
<1>6. CachesMatchRows'
  BY <1>2, <1>4, Unchanging
<1>7. HeldMatchesRows' /\ AnswersMatchRows'
  BY <1>1, <1>2, <1>3, <1>4, CallReplies DEF Categories, p, k, ref
<1>8. TypeOK'
  BY <1>2, <1>3, <1>4, <1>5, CallTypes DEF TypeOK, Categories, Steps
<1>9. QED BY <1>5, <1>6, <1>7, <1>8

LEMMA InstructPreserves ==
    ASSUME RowsInv, NEW c \in Calls, Instruct(c)
    PROVE  RowsInv'
<1> USE DEF RowsInv
<1> DEFINE p == ProcessOf[c]
           r == request[c]
<1>1. /\ p \in Processes /\ r \in Asks[p] /\ r.op = "resend" /\ r.key \in Keys /\ r.id \in RequestIds
      /\ held[c] \in Refs /\ rows[r.key] # Null /\ rows[r.key].ref = held[c]
  BY CallShape DEF Instruct, TypeOK, HeldMatchesRows
<1>2. /\ resendCache' = [resendCache EXCEPT ![<<p, r.id>>] = held[c]]
      /\ Reply(c, "delivery_ready", held[c])
      /\ UNCHANGED <<rows, memory, revokeDone, request, late, failures>>
  BY DEF Instruct
<1>3. Forward
  BY <1>2 DEF TypeOK, Forward
<1> HIDE DEF p, r
<1>4. CachesMatchRows' /\ resendCache' \in [Processes \X RequestIds -> Refs \union {Null}]
  BY <1>1, <1>2, <1>3, CachingInstruction
<1>5. HeldMatchesRows' /\ AnswersMatchRows'
  BY <1>1, <1>2, <1>3, CallReplies DEF Categories, p, r
<1>6. TypeOK'
  BY <1>1, <1>2, <1>4, CallTypes DEF TypeOK, Categories, Steps
<1>7. QED BY <1>2, <1>3, <1>4, <1>5, <1>6, Unchanging

LEMMA MarkPreserves ==
    ASSUME RowsInv, NEW c \in Calls, MarkRevoked(c)
    PROVE  RowsInv'
<1> USE DEF RowsInv
<1> DEFINE p == ProcessOf[c]
           r == request[c]
           ref == rows'[r.key].ref
<1>1. /\ p \in Processes /\ r \in Asks[p] /\ r.op = "revoke" /\ r.key \in Keys /\ r.id \in RequestIds
      /\ rows[r.key] # Null
  BY CallShape DEF MarkRevoked, TypeOK, HeldMatchesRows
<1>2. rows' \in [Keys -> Row \union {Null}] /\ Forward /\ Is(rows'[r.key], "revoked")
  BY <1>1, MarkForward DEF MarkRevoked
<1>3. ref \in Refs /\ rows'[r.key] # Null
  BY <1>1, <1>2 DEF Row, Is
<1>4. /\ SyncMemory(p, r.key, "revoked", ref)
      /\ RevokeCompleted(p, r.id)
      /\ Reply(c, "revoked", Null)
      /\ UNCHANGED <<resendCache, request, late, failures>>
  BY <1>3 DEF MarkRevoked
<1> HIDE DEF p, r, ref
<1>5. MemoryFollowsRows' /\ memory' \in [Processes \X Keys -> Row \union {Null}]
  BY <1>1, <1>2, <1>3, <1>4, Remembering DEF ref, Is
<1>6. CachesMatchRows' /\ revokeDone' \subseteq Processes \X RequestIds
  BY <1>1, <1>2, <1>4, Completing
<1>7. HeldMatchesRows' /\ AnswersMatchRows'
  BY <1>1, <1>2, <1>4, CallReplies DEF Categories, p, r
<1>8. TypeOK'
  BY <1>2, <1>4, <1>5, <1>6, CallTypes DEF TypeOK, Categories, Steps
<1>9. QED BY <1>5, <1>6, <1>7, <1>8

LEMMA FailurePreserves ==
    ASSUME RowsInv, NEW c \in Calls, StatementFails(c)
    PROVE  RowsInv'
<1> USE DEF RowsInv
<1>1. rows' \in [Keys -> Row \union {Null}] /\ Forward
  BY StepsMoveForward DEF Next
<1>2. /\ Reply(c, "internal_error", Null)
      /\ UNCHANGED <<memory, revokeDone, resendCache, request, late>>
      /\ request[c] \in Asks[ProcessOf[c]]
      /\ failures' \in 0..MaxFailures
  BY CallShape, IssuanceAssumption DEF StatementFails, locals, TypeOK
<1>3. HeldMatchesRows' /\ AnswersMatchRows'
  BY <1>1, <1>2, CallReplies DEF Categories
<1>4. TypeOK'
  BY <1>1, <1>2, CallTypes DEF TypeOK, Categories, Steps
<1>5. QED BY <1>1, <1>2, <1>3, <1>4, Unchanging

LEMMA RestartPreserves ==
    ASSUME RowsInv, NEW p \in Processes, Restart(p)
    PROVE  RowsInv'
<1> USE DEF RowsInv
<1>1. Forward /\ UNCHANGED <<rows, request, late>> /\ failures' \in 0..MaxFailures
  BY IssuanceAssumption DEF Restart, TypeOK, Forward
<1>2. /\ memory' \in [Processes \X Keys -> Row \union {Null}]
      /\ \A x \in Processes \X Keys : memory'[x] = Null \/ memory'[x] = memory[x]
  BY DEF Restart, TypeOK
<1>3. /\ resendCache' \in [Processes \X RequestIds -> Refs \union {Null}]
      /\ \A x \in Processes \X RequestIds :
            resendCache'[x] = Null \/ resendCache'[x] = resendCache[x]
      /\ revokeDone' \subseteq revokeDone
  BY DEF Restart, TypeOK
<1>4. \A c \in Calls :
         \/ step'[c] = "idle" /\ held'[c] = Null /\ answer'[c] = NoAnswer
         \/ step'[c] = step[c] /\ held'[c] = held[c] /\ answer'[c] = answer[c]
  BY DEF Restart
<1>5. MemoryFollowsRows'
  BY <1>1, <1>2 DEF MemoryFollowsRows
<1>6. CachesMatchRows'
  BY <1>1, <1>3, AskedRequest DEF CachesMatchRows
<1>7. HeldMatchesRows' /\ AnswersMatchRows'
  BY <1>1, <1>4 DEF HeldMatchesRows, AnswersMatchRows, Answered, NoAnswer
<1>8. NoAnswer \in Answer
  BY DEF NoAnswer, Answer, Categories
<1>9. /\ step' \in [Calls -> Steps]
      /\ held' \in [Calls -> Refs \union {Null}]
      /\ answer' \in [Calls -> Answer]
  BY <1>8 DEF Restart, TypeOK, Steps
<1>10. TypeOK'
  BY <1>1, <1>2, <1>3, <1>4, <1>9 DEF TypeOK
<1>11. QED BY <1>5, <1>6, <1>7, <1>10

-----------------------------------------------------------------------------
(* The theorems. *)

\* The table, what processes remember of it and what they answer agree.
THEOREM RowsInvariant == Spec => []RowsInv
<1>1. Init => RowsInv
  <2>1. NoAnswer \in Answer
    BY DEF NoAnswer, Answer, Categories
  <2>2. Init => TypeOK
    BY <2>1, IssuanceAssumption DEF Init, TypeOK, Steps
  <2>3. Init => HeldMatchesRows /\ CachesMatchRows /\ MemoryFollowsRows /\ AnswersMatchRows
    BY AskedRequest
       DEF Init, HeldMatchesRows, CachesMatchRows, MemoryFollowsRows, AnswersMatchRows, Answered
  <2>4. QED BY <2>2, <2>3 DEF RowsInv
<1>2. RowsInv /\ [Next]_vars => RowsInv'
  <2> SUFFICES ASSUME RowsInv, [Next]_vars PROVE RowsInv'
    OBVIOUS
  <2>1. ASSUME NEW c \in Calls, NEW r \in Asks[ProcessOf[c]], Ask(c, r) PROVE RowsInv'
    BY <2>1, IssuePreserves, ResendPreserves, RevokePreserves DEF Ask
  <2>2. ASSUME NEW c \in Calls, Work(c) \/ ProviderRefuses(c) \/ StatementFails(c) PROVE RowsInv'
    BY <2>2, FetchPreserves, ProviderPreserves, PersistPreserves, InstructPreserves,
       MarkPreserves, FailurePreserves DEF Work
  <2>3. CASE UNCHANGED vars
    <3>1. UNCHANGED <<rows, memory, revokeDone, resendCache, calls, failures>>
      BY <2>3 DEF vars, locals
    <3>2. TypeOK' /\ Forward
      BY <3>1 DEF RowsInv, TypeOK, Forward, calls
    <3>3. QED BY <3>1, <3>2, Unchanging DEF RowsInv
  <2>4. QED BY <2>1, <2>2, <2>3, RestartPreserves DEF Next
<1>3. QED BY <1>1, <1>2, PTL DEF Spec

\* Rows, memories, caches, calls and answers keep their types.
THEOREM TypeCorrect == Spec => []TypeOK
  BY RowsInvariant, PTL DEF RowsInv

\* Every answer is what the table says, whatever it was answered from.
THEOREM AnswersCorrect == Spec => []AnswersMatchRows
  BY RowsInvariant, PTL DEF RowsInv

\* No process remembers a row that there is not, or a revoke that was not written.
THEOREM MemoryCorrect == Spec => []MemoryFollowsRows
  BY RowsInvariant, PTL DEF RowsInv

\* No step loses a row, changes its ref, or takes back a revoke.
THEOREM RowsOnlyMoveForward == Spec => RowsMoveForward
<1>1. RowsInv /\ [Next]_vars => [Forward]_vars
  BY StepsMoveForward
<1>2. QED BY <1>1, RowsInvariant, PTL DEF Spec, RowsMoveForward

-----------------------------------------------------------------------------
(* No delivery after a revoke, where issuing and resending are the work of   *)
(* different processes, as they are in the deployed composition.             *)

\* A process that resends, does not issue, and lives on, remembers no row as issued.
ResendersRememberNone ==
    \A p \in Processes \ OneShot : Apart(p) => \A r \in Asks[p] :
        r.op = "resend" => \A k \in Keys : ~Is(memory[<<p, k>>], "issued")

LateGetsNothing ==
    \A c \in late :
        /\ request[c] # Null /\ Is(rows[request[c].key], "revoked")
        /\ Apart(ProcessOf[c]) =>
              /\ step[c] # "instruct"
              /\ step[c] = "idle" => answer[c].category # "delivery_ready"

DeliveryInv == ResendersRememberNone /\ LateGetsNothing

LEMMA ResendersForget ==
    ASSUME RowsInv, ResendersRememberNone, [Next]_vars
    PROVE  ResendersRememberNone'
<1>1. ASSUME UNCHANGED memory PROVE ResendersRememberNone'
  BY <1>1 DEF ResendersRememberNone
<1>2. ASSUME NEW p \in Processes, NEW k \in Keys, NEW ref, SyncMemory(p, k, "revoked", ref)
      PROVE  ResendersRememberNone'
  BY <1>2 DEF ResendersRememberNone, SyncMemory, Is, RowsInv, TypeOK
<1>3. ASSUME NEW p \in Processes, NEW r \in Asks[p], r.op = "issue", NEW ref,
             SyncMemory(p, r.key, "issued", ref)
      PROVE  ResendersRememberNone'
  BY <1>3 DEF ResendersRememberNone, Apart, SyncMemory, RowsInv, TypeOK
<1>4. ASSUME NEW c \in Calls, FetchForIssue(c) \/ Persist(c) PROVE ResendersRememberNone'
  BY <1>1, <1>3, <1>4, CallShape DEF FetchForIssue, Persist, RowsInv, TypeOK
<1>5. ASSUME NEW c \in Calls, FetchForResend(c) \/ FetchForRevoke(c) \/ MarkRevoked(c)
      PROVE  ResendersRememberNone'
  BY <1>1, <1>2, <1>5, CallShape DEF FetchForResend, FetchForRevoke, MarkRevoked, KeepLookupLocal
<1>6. ASSUME NEW p \in Processes, Restart(p) PROVE ResendersRememberNone'
  BY <1>6 DEF Restart, ResendersRememberNone, Is
<1>7. QED
  BY <1>1, <1>4, <1>5, <1>6
     DEF Next, Ask, Work, Issue, Resend, Revoke, Create, Instruct, RevokeAtProvider,
         ProviderRefuses, StatementFails, vars, locals

\* A late call stays late until its next request.
LEMMA LateCarries ==
    ASSUME RowsInv, LateGetsNothing, Forward, NEW c \in Calls,
           late' \subseteq Calls,
           \A d \in Calls \ {c} : /\ request'[d] = request[d] /\ step'[d] = step[d]
                                  /\ answer'[d] = answer[d] /\ (d \in late' => d \in late),
           c \in late' => request'[c] # Null /\ Is(rows'[request'[c].key], "revoked"),
           c \in late' /\ Apart(ProcessOf[c]) =>
               /\ step'[c] # "instruct"
               /\ step'[c] = "idle" => answer'[c].category # "delivery_ready"
    PROVE  LateGetsNothing'
<1>1. \A d \in late : d \in Calls /\ request[d].key \in Keys
  BY AskedRequest, IssuanceAssumption DEF RowsInv, TypeOK, HeldMatchesRows, LateGetsNothing
<1>2. QED BY <1>1 DEF LateGetsNothing, Forward, Is

\* What a call's begin, wait and reply leave alone.
LEMMA OtherCalls ==
    ASSUME RowsInv, NEW c \in Calls
    PROVE  /\ \A s, ref : Await(c, s, ref) =>
                 /\ \A d \in Calls \ {c} : step'[d] = step[d] /\ answer'[d] = answer[d]
                 /\ step'[c] = s
           /\ \A category, ref : Reply(c, category, ref) =>
                 /\ \A d \in Calls \ {c} : step'[d] = step[d] /\ answer'[d] = answer[d]
                 /\ step'[c] = "idle" /\ answer'[c].category = category
           /\ \A r \in Asks[ProcessOf[c]] : Begin(c, r) =>
                 /\ \A d \in Calls \ {c} : request'[d] = request[d] /\ (d \in late' => d \in late)
                 /\ late' \subseteq Calls
                 /\ request'[c] = r /\ r # Null
                 /\ c \in late' => Is(rows[r.key], "revoked")
  BY CallShape, AskedRequest DEF RowsInv, TypeOK, Await, Reply, Begin

LEMMA LateBegins ==
    ASSUME RowsInv, DeliveryInv, NEW c \in Calls, NEW r \in Asks[ProcessOf[c]], Ask(c, r)
    PROVE  LateGetsNothing'
<1> DEFINE entry == memory[<<ProcessOf[c], r.key>>]
<1>1. Begin(c, r) /\ UNCHANGED rows /\ Forward
  BY DEF Ask, Issue, Resend, Revoke, RowsInv, TypeOK, Forward
<1>2. Apart(ProcessOf[c]) /\ r.op = "resend" /\ Is(rows[r.key], "revoked") => ~Is(entry, "issued")
  BY <1>1, CallShape, AskedRequest DEF DeliveryInv, ResendersRememberNone, Begin, Fresh, Is
<1>3. \/ \E s \in {"fetch", "revoke"} : \E ref : Await(c, s, ref)
      \/ \E category \in {"not_entitled", "needs_review", "already_issued", "internal_error",
                          "revoked"} : \E ref : Reply(c, category, ref)
      \/ Is(entry, "issued") /\ r.op = "resend" /\ Instructions(c, r, entry.ref)
  BY DEF Ask, Issue, Resend, Revoke, Denial
<1>4. \/ \E s \in {"fetch", "revoke"} : \E ref : Await(c, s, ref)
      \/ \E category, ref : Reply(c, category, ref) /\ category # "delivery_ready"
      \/ /\ ~Apart(ProcessOf[c]) \/ ~Is(rows[r.key], "revoked")
         /\ \/ \E ref : Await(c, "instruct", ref)
            \/ \E ref : Reply(c, "delivery_ready", ref)
  BY <1>2, <1>3 DEF Instructions
<1> HIDE DEF entry
<1>5. /\ \A d \in Calls \ {c} : /\ request'[d] = request[d] /\ step'[d] = step[d]
                                /\ answer'[d] = answer[d] /\ (d \in late' => d \in late)
      /\ late' \subseteq Calls
      /\ request'[c] = r /\ r # Null /\ (c \in late' => Is(rows'[r.key], "revoked"))
  BY <1>1, <1>4, OtherCalls
<1>6. c \in late' /\ Apart(ProcessOf[c]) =>
         /\ step'[c] # "instruct"
         /\ step'[c] = "idle" => answer'[c].category # "delivery_ready"
  BY <1>1, <1>4, OtherCalls
<1>7. QED BY <1>1, <1>5, <1>6, LateCarries DEF DeliveryInv

LEMMA LateWorks ==
    ASSUME RowsInv, DeliveryInv, Forward, NEW c \in Calls,
           Work(c) \/ ProviderRefuses(c) \/ StatementFails(c)
    PROVE  LateGetsNothing'
<1>1. UNCHANGED <<request, late>> /\ step[c] # "idle"
  BY DEF Work, FetchForIssue, FetchForResend, FetchForRevoke, Create, Persist, Instruct,
         RevokeAtProvider, MarkRevoked, ProviderRefuses, StatementFails
<1>2. \/ \E s \in {"create", "persist", "revoke", "mark"} : \E ref : Await(c, s, ref)
      \/ \E category, ref : Reply(c, category, ref) /\ category # "delivery_ready"
      \/ /\ step[c] = "instruct" \/ Is(rows[request[c].key], "issued")
         /\ \/ \E ref : Await(c, "instruct", ref)
            \/ \E ref : Reply(c, "delivery_ready", ref)
  BY DEF Work, FetchForIssue, FetchForResend, FetchForRevoke, Create, Persist, Instruct,
         RevokeAtProvider, MarkRevoked, ProviderRefuses, StatementFails, Refusals, Instructions
<1>3. /\ \A d \in Calls \ {c} : step'[d] = step[d] /\ answer'[d] = answer[d]
      /\ c \in late /\ Apart(ProcessOf[c]) =>
            /\ step'[c] # "instruct"
            /\ step'[c] = "idle" => answer'[c].category # "delivery_ready"
  BY <1>2, OtherCalls DEF DeliveryInv, LateGetsNothing, Is
<1>4. request[c].key \in Keys /\ (c \in late => Is(rows'[request[c].key], "revoked"))
  BY <1>1, CallShape DEF DeliveryInv, LateGetsNothing, Forward, Is
<1>5. QED BY <1>1, <1>3, <1>4, LateCarries DEF DeliveryInv, LateGetsNothing, RowsInv, TypeOK

LEMMA LateStaysWithout ==
    ASSUME RowsInv, DeliveryInv, [Next]_vars
    PROVE  LateGetsNothing'
<1>1. Forward
  BY StepsMoveForward
<1>2. \A d \in late : d \in Calls /\ request[d].key \in Keys
  BY AskedRequest, IssuanceAssumption
     DEF RowsInv, TypeOK, HeldMatchesRows, DeliveryInv, LateGetsNothing
<1>3. ASSUME UNCHANGED calls PROVE LateGetsNothing'
  BY <1>1, <1>2, <1>3 DEF DeliveryInv, LateGetsNothing, Forward, Is, calls
<1>4. ASSUME NEW p \in Processes, Restart(p) PROVE LateGetsNothing'
  <2>1. \A c \in late : \/ step'[c] = "idle" /\ answer'[c].category = "internal_error"
                        \/ step'[c] = step[c] /\ answer'[c] = answer[c]
    BY <1>2, <1>4 DEF Restart, NoAnswer
  <2>2. UNCHANGED <<rows, request, late>>
    BY <1>4 DEF Restart
  <2>3. QED BY <2>1, <2>2 DEF DeliveryInv, LateGetsNothing
<1>5. QED BY <1>1, <1>3, <1>4, LateBegins, LateWorks DEF Next, vars

\* A resend that begins after the revoke delivers nothing.
THEOREM RevokedIsNotDelivered == Spec => []NoDeliveryAfterRevoke
<1>1. Init => DeliveryInv
  BY DEF Init, DeliveryInv, ResendersRememberNone, LateGetsNothing, Is
<1>2. RowsInv /\ DeliveryInv /\ [Next]_vars => DeliveryInv'
  BY ResendersForget, LateStaysWithout DEF DeliveryInv
<1>3. DeliveryInv => NoDeliveryAfterRevoke
  BY DEF DeliveryInv, LateGetsNothing, NoDeliveryAfterRevoke, Answered
<1>4. QED BY <1>1, <1>2, <1>3, RowsInvariant, PTL DEF Spec

=============================================================================
