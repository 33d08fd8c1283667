---------------------------- MODULE AccessProofs ----------------------------
(***************************************************************************)
(* Proofs about Access, for every set of users, keys, calls and jobs.      *)
(***************************************************************************)
EXTENDS AccessWatched, TLAPS

-----------------------------------------------------------------------------
(* Types. *)

LEMMA InitTypeOK == Init => TypeOK
  BY AccessAssumption DEF Init, TypeOK, Times, Calls, Snapshot, SnapshotLabels, Row, NoRow, Run, Steps, Outcomes,
     BotSteps, AdminSteps, EnsureSteps

\* The statements on the rows, with what they leave of the types.
LEMMA InsertRowType ==
    ASSUME TypeOK, NEW u \in Users, NEW k \in IssueKeys, InsertRow(u, k)
    PROVE  /\ rows' \in [Users \X IssueKeys -> Row \union {NoRow}]
           /\ current' \in [Users -> IssueKeys \union {Null}]
<1> DEFINE entry == [state |-> "issued", created |-> now]
<1>1. entry \in Row BY DEF TypeOK, Row
<1>2. <<u, k>> \in Users \X IssueKeys OBVIOUS
<1>3. CASE rows[<<u, k>>] = NoRow
  <2>1. rows' = [rows EXCEPT ![<<u, k>>] = entry] BY <1>3 DEF InsertRow
  <2>2. current' = [current EXCEPT ![u] = k] BY <1>3 DEF InsertRow
  <2> HIDE DEF entry
  <2> QED BY <1>1, <1>2, <2>1, <2>2 DEF TypeOK
<1>4. CASE rows[<<u, k>>] # NoRow BY <1>4 DEF InsertRow, TypeOK
<1> QED BY <1>3, <1>4

LEMMA RevokedType ==
    ASSUME TypeOK, NEW x \in Users \X IssueKeys, rows[x].state = "issued"
    PROVE  Revoked(rows[x]) \in Row
<1>1. rows[x] \in Row \union {NoRow} BY DEF TypeOK
<1>2. rows[x] \in Row BY <1>1 DEF NoRow
<1> QED BY <1>2 DEF Revoked, Row

LEMMA MarkRowType ==
    ASSUME TypeOK, NEW u \in Users, NEW k \in IssueKeys, MarkRow(u, k)
    PROVE  /\ rows' \in [Users \X IssueKeys -> Row \union {NoRow}]
           /\ current' \in [Users -> IssueKeys \union {Null}]
<1> DEFINE entry == Revoked(rows[<<u, k>>])
<1>2. <<u, k>> \in Users \X IssueKeys OBVIOUS
<1>3. CASE Issued(u, k)
  <2>1. rows' = [rows EXCEPT ![<<u, k>>] = entry] BY <1>3 DEF MarkRow
  <2>2. current' = [current EXCEPT ![u] = k] BY <1>3 DEF MarkRow
  <2>3. entry \in Row BY <1>2, <1>3, RevokedType DEF Issued
  <2> HIDE DEF entry
  <2> QED BY <1>2, <2>1, <2>2, <2>3 DEF TypeOK
<1>4. CASE ~Issued(u, k) BY <1>4 DEF MarkRow, TypeOK
<1> QED BY <1>3, <1>4

LEMMA ReconcileRowsType ==
    ASSUME TypeOK, NEW t, ReconcileRows(t)
    PROVE  rows' \in [Users \X IssueKeys -> Row \union {NoRow}]
<1> DEFINE E(x) == IF rows[x].state = "issued" /\ ReconcileSeesExpired(x[1], t)
                   THEN Revoked(rows[x]) ELSE rows[x]
<1>1. \A x \in Users \X IssueKeys : E(x) \in Row \union {NoRow} BY RevokedType DEF TypeOK
<1>2. rows' = [x \in Users \X IssueKeys |-> E(x)] BY DEF ReconcileRows
<1> HIDE DEF E
<1> QED BY <1>1, <1>2

\* What a call of the bot or the admin service keeps of the types.
CallTypes ==
    /\ step \in [Calls -> Steps]
    /\ user \in [Calls -> Users \union {Null}]
    /\ held \in [Calls -> IssueKeys \union BOOLEAN \union {Null}]
    /\ began \in [Calls -> Times]
    /\ outcome \in [Calls -> Outcomes]
    /\ \A c \in Calls :
          /\ step[c] # "idle" => user[c] # Null
          /\ step[c] \in {"markExpired", "fetch", "instruct"} => held[c] \in IssueKeys
          /\ step[c] \in {"readIssuance", "postRead"} => held[c] \in BOOLEAN

RowTypes ==
    /\ rows \in [Users \X IssueKeys -> Row \union {NoRow}]
    /\ current \in [Users -> IssueKeys \union {Null}]

RestTypes ==
    /\ now \in Times
    /\ snapshot \in [Users -> Snapshot]
    /\ remembered \subseteq Users
    /\ nextAllowed \in [Users -> Nat]
    /\ run \in [Jobs -> Run]
    /\ jobStep \in [Jobs -> {"idle", "reconcile", "complete", "fail"}]
    /\ latest \in Jobs \union {Null}
    /\ payments \in 0..MaxPayments
    /\ failures \in 0..MaxFailures

LEMMA TypeParts == TypeOK <=> CallTypes /\ RowTypes /\ RestTypes
  BY DEF TypeOK, CallTypes, RowTypes, RestTypes

\* A call that answers, and one that goes on to await.
LEMMA ReplyTypes ==
    ASSUME CallTypes, NEW c \in Calls, NEW o \in Outcomes, Reply(c, o),
           user' \in [Calls -> Users \union {Null}], began' \in [Calls -> Times],
           \A d \in Calls \ {c} : user'[d] = user[d]
    PROVE  CallTypes'
<1>1. /\ step' = [step EXCEPT ![c] = "idle"]
      /\ held' = [held EXCEPT ![c] = Null]
      /\ outcome' = [outcome EXCEPT ![c] = o]
  BY DEF Reply
<1>2. "idle" \in Steps BY DEF Steps
<1> QED BY <1>1, <1>2 DEF CallTypes

LEMMA AwaitTypes ==
    ASSUME CallTypes, NEW c \in Calls, NEW s \in Steps,
           NEW h \in IssueKeys \union BOOLEAN \union {Null}, Await(c, s, h),
           s \in {"markExpired", "fetch", "instruct"} => h \in IssueKeys,
           s \in {"readIssuance", "postRead"} => h \in BOOLEAN,
           user' \in [Calls -> Users \union {Null}], began' \in [Calls -> Times],
           user'[c] # Null, \A d \in Calls \ {c} : user'[d] = user[d]
    PROVE  CallTypes'
<1>1. /\ step' = [step EXCEPT ![c] = s]
      /\ held' = [held EXCEPT ![c] = h]
      /\ outcome' = outcome
  BY DEF Await
<1>2. \A d \in Calls : /\ step'[d] = IF d = c THEN s ELSE step[d]
                       /\ held'[d] = IF d = c THEN h ELSE held[d]
  BY <1>1 DEF CallTypes
<1>3. step' \in [Calls -> Steps] BY <1>1 DEF CallTypes
<1>4. held' \in [Calls -> IssueKeys \union BOOLEAN \union {Null}] BY <1>1 DEF CallTypes
<1> QED BY <1>1, <1>2, <1>3, <1>4 DEF CallTypes

\* A call of ensure-access that has its result.
LEMMA SettleTypes ==
    ASSUME CallTypes, NEW c \in Calls, NEW o \in Outcomes, Settle(c, o),
           UNCHANGED <<user, began>>, user[c] # Null
    PROVE  CallTypes'
<1>1. /\ step' = [step EXCEPT ![c] = "audit"]
      /\ held' = [held EXCEPT ![c] = Null]
      /\ outcome' = [outcome EXCEPT ![c] = o]
  BY DEF Settle
<1>2. "audit" \in Steps BY DEF Steps, AdminSteps
<1> QED BY <1>1, <1>2 DEF CallTypes

LEMMA BeginTypes ==
    ASSUME TypeOK, NEW c \in Calls, NEW u \in Users, Begin(c, u)
    PROVE  /\ user' \in [Calls -> Users \union {Null}]
           /\ began' \in [Calls -> Times]
           /\ user'[c] # Null
           /\ \A d \in Calls \ {c} : user'[d] = user[d]
  BY NullAssumption DEF Begin, TypeOK

LEMMA AtTypes ==
    ASSUME TypeOK, NEW c \in Calls, NEW s, s # "idle", At(c, s)
    PROVE  /\ user' \in [Calls -> Users \union {Null}]
           /\ began' \in [Calls -> Times]
           /\ user'[c] # Null /\ user[c] \in Users
           /\ \A d \in Calls \ {c} : user'[d] = user[d]
  BY DEF At, TypeOK

-----------------------------------------------------------------------------
(* Every action keeps the types. *)

LEMMA BotTypes ==
    ASSUME TypeOK, NEW c \in BotCalls,
           BotWork(c) \/ \E u \in Users : GetAccess(c, u) \/ Status(c, u)
    PROVE  TypeOK'
<1> USE DEF tables, memory, calls, jobs, bounds
<1>c. c \in Calls BY DEF Calls
<1>o. BotOutcomes \subseteq Outcomes BY DEF Outcomes
<1>s. BotSteps \subseteq Steps BY DEF Steps
<1>t. CallTypes /\ RowTypes /\ RestTypes BY TypeParts
<1>1. ASSUME NEW u \in Users, GetAccess(c, u) PROVE TypeOK'
  <2>1. Begin(c, u) /\ UNCHANGED <<now, tables, remembered, jobs, bounds>> BY <1>1 DEF GetAccess
  <2>2. nextAllowed' \in [Users -> Nat]
    <3>1. NextAllowed(u) \in Nat BY AccessAssumption DEF NextAllowed, TypeOK, Times
    <3> QED BY <1>1, <3>1 DEF GetAccess, TypeOK
  <2>3. RowTypes' /\ RestTypes' BY <1>t, <2>1, <2>2 DEF RowTypes, RestTypes
  <2>4. ASSUME \E o \in {"not_eligible", "cooldown"} : Reply(c, o) PROVE CallTypes'
    BY <1>c, <1>o, <1>t, <2>1, <2>4, BeginTypes, ReplyTypes DEF BotOutcomes
  <2>5. ASSUME \E s \in {"expiredLookup", "lookup"} : Await(c, s, Null) PROVE CallTypes'
    BY <1>c, <1>s, <1>t, <2>1, <2>5, BeginTypes, AwaitTypes DEF BotSteps
  <2>6. CallTypes' BY <1>1, <2>4, <2>5 DEF GetAccess
  <2> QED BY <2>3, <2>6, TypeParts DEF TypeOK, CallTypes, RowTypes, RestTypes
<1>2. ASSUME NEW u \in Users, Status(c, u) PROVE TypeOK'
  <2>1. Begin(c, u) /\ UNCHANGED <<now, tables, memory, jobs, bounds>> BY <1>2 DEF Status
  <2>2. RowTypes' /\ RestTypes' BY <1>t, <2>1 DEF RowTypes, RestTypes
  <2>3. ASSUME \E o \in {"inactive", "expired"} : Reply(c, o) PROVE CallTypes'
    BY <1>c, <1>o, <1>t, <2>1, <2>3, BeginTypes, ReplyTypes DEF BotOutcomes
  <2>4. ASSUME Await(c, "statusLookup", Null) PROVE CallTypes'
    BY <1>c, <1>s, <1>t, <2>1, <2>4, BeginTypes, AwaitTypes DEF BotSteps
  <2>5. CallTypes' BY <1>2, <2>3, <2>4 DEF Status
  <2> QED BY <2>2, <2>5 DEF TypeOK, CallTypes, RowTypes, RestTypes
<1>3. ASSUME ExpiredLookup(c) PROVE TypeOK'
  <2>1. At(c, "expiredLookup") /\ UNCHANGED <<now, tables, memory, jobs, bounds>> BY <1>3 DEF ExpiredLookup
  <2>2. RowTypes' /\ RestTypes' BY <1>t, <2>1 DEF RowTypes, RestTypes
  <2>u. user[c] \in Users BY <1>c, <2>1, AtTypes
  <2>3. ASSUME CurrentIssued(user[c]) PROVE CallTypes'
    <3>1. current[user[c]] \in IssueKeys BY <2>3, <2>u DEF CurrentIssued, TypeOK
    <3>2. Await(c, "markExpired", current[user[c]]) BY <1>3, <2>3 DEF ExpiredLookup
    <3> QED BY <1>c, <1>s, <1>t, <2>1, <3>1, <3>2, AtTypes, AwaitTypes DEF BotSteps
  <2>4. ASSUME Reply(c, "not_eligible") PROVE CallTypes'
    BY <1>c, <1>o, <1>t, <2>1, <2>4, AtTypes, ReplyTypes DEF BotOutcomes
  <2>5. CallTypes' BY <1>3, <2>3, <2>4 DEF ExpiredLookup
  <2> QED BY <2>2, <2>5 DEF TypeOK, CallTypes, RowTypes, RestTypes
<1>4. ASSUME MarkExpired(c) PROVE TypeOK'
  <2>1. At(c, "markExpired") /\ MarkRow(user[c], held[c]) /\ Reply(c, "not_eligible")
        /\ UNCHANGED <<now, snapshot, memory, jobs, bounds>>
    BY <1>4 DEF MarkExpired
  <2>2. user[c] \in Users /\ held[c] \in IssueKeys BY <1>c, <2>1, AtTypes DEF At, TypeOK
  <2>3. RowTypes' BY <2>1, <2>2, MarkRowType DEF RowTypes
  <2>4. RestTypes' BY <1>t, <2>1 DEF RestTypes
  <2>5. CallTypes' BY <1>c, <1>o, <1>t, <2>1, AtTypes, ReplyTypes DEF BotOutcomes
  <2> QED BY <2>3, <2>4, <2>5 DEF TypeOK, CallTypes, RowTypes, RestTypes
<1>5. ASSUME Lookup(c) PROVE TypeOK'
  <2>1. At(c, "lookup") /\ UNCHANGED <<now, tables, memory, jobs, bounds>> BY <1>5 DEF Lookup
  <2>2. RowTypes' /\ RestTypes' BY <1>t, <2>1 DEF RowTypes, RestTypes
  <2>u. user[c] \in Users BY <1>c, <2>1, AtTypes
  <2>3. ASSUME CurrentIssued(user[c]) PROVE CallTypes'
    <3>1. current[user[c]] \in IssueKeys BY <2>3, <2>u DEF CurrentIssued, TypeOK
    <3>2. Await(c, "fetch", current[user[c]]) BY <1>5, <2>3 DEF Lookup
    <3> QED BY <1>c, <1>s, <1>t, <2>1, <3>1, <3>2, AtTypes, AwaitTypes DEF BotSteps
  <2>4. ASSUME Reply(c, "not_ready") PROVE CallTypes'
    BY <1>c, <1>o, <1>t, <2>1, <2>4, AtTypes, ReplyTypes DEF BotOutcomes
  <2>5. CallTypes' BY <1>5, <2>3, <2>4 DEF Lookup
  <2> QED BY <2>2, <2>5 DEF TypeOK, CallTypes, RowTypes, RestTypes
<1>6. ASSUME Fetch(c) PROVE TypeOK'
  <2>1. At(c, "fetch") /\ UNCHANGED <<now, tables, memory, jobs, bounds>> BY <1>6 DEF Fetch
  <2>2. RowTypes' /\ RestTypes' BY <1>t, <2>1 DEF RowTypes, RestTypes
  <2>3. held[c] \in IssueKeys BY <1>c, <2>1 DEF At, TypeOK
  <2>4. ASSUME Await(c, "instruct", held[c]) PROVE CallTypes'
    BY <1>c, <1>s, <1>t, <2>1, <2>3, <2>4, AtTypes, AwaitTypes DEF BotSteps
  <2>5. ASSUME Reply(c, "not_ready") PROVE CallTypes'
    BY <1>c, <1>o, <1>t, <2>1, <2>5, AtTypes, ReplyTypes DEF BotOutcomes
  <2>6. CallTypes' BY <1>6, <2>4, <2>5 DEF Fetch
  <2> QED BY <2>2, <2>6 DEF TypeOK, CallTypes, RowTypes, RestTypes
<1>7. ASSUME Instruct(c) \/ StatusLookup(c) PROVE TypeOK'
  <2>1. PICK s \in {"instruct", "statusLookup"} : At(c, s) BY <1>7 DEF Instruct, StatusLookup
  <2>2. UNCHANGED <<now, tables, memory, jobs, bounds>> BY <1>7 DEF Instruct, StatusLookup
  <2>3. PICK o \in BotOutcomes : Reply(c, o) BY <1>7 DEF Instruct, StatusLookup, BotOutcomes
  <2>4. RowTypes' /\ RestTypes' BY <1>t, <2>2 DEF RowTypes, RestTypes
  <2>5. CallTypes' BY <1>c, <1>o, <1>t, <2>1, <2>3, AtTypes, ReplyTypes
  <2> QED BY <2>4, <2>5 DEF TypeOK, CallTypes, RowTypes, RestTypes
<1> QED BY <1>1, <1>2, <1>3, <1>4, <1>5, <1>6, <1>7 DEF BotWork

LEMMA AdminTypes ==
    ASSUME TypeOK, NEW c \in AdminCalls, AdminWork(c) \/ \E u \in Users : EnsureAccess(c, u)
    PROVE  TypeOK'
<1> USE DEF tables, memory, calls, jobs, bounds
<1>c. c \in Calls BY DEF Calls
<1>o. EnsureOutcomes \subseteq Outcomes BY DEF Outcomes
<1>s. AdminSteps \subseteq Steps BY DEF Steps
<1>t. CallTypes /\ RowTypes /\ RestTypes BY TypeParts
<1>1. ASSUME NEW u \in Users, EnsureAccess(c, u) PROVE TypeOK'
  <2>1. /\ Begin(c, u) /\ Await(c, "readIssuance", ActiveLabel(u))
        /\ UNCHANGED <<now, tables, memory, jobs, bounds>>
    BY <1>1 DEF EnsureAccess
  <2>2. RowTypes' /\ RestTypes' BY <1>t, <2>1 DEF RowTypes, RestTypes
  <2>3. ActiveLabel(u) \in BOOLEAN BY DEF ActiveLabel
  <2>4. CallTypes' BY <1>c, <1>s, <1>t, <2>1, <2>3, BeginTypes, AwaitTypes DEF AdminSteps, EnsureSteps
  <2> QED BY <2>2, <2>4 DEF TypeOK, CallTypes, RowTypes, RestTypes
<1>2. ASSUME ReadIssuance(c) PROVE TypeOK'
  <2>1. At(c, "readIssuance") /\ UNCHANGED <<now, tables, memory, jobs, bounds>> BY <1>2 DEF ReadIssuance
  <2>2. RowTypes' /\ RestTypes' BY <1>t, <2>1 DEF RowTypes, RestTypes
  <2>3. ASSUME \E o \in EnsureOutcomes : Settle(c, o) PROVE CallTypes'
    BY <1>c, <1>o, <1>t, <2>1, <2>3, AtTypes, SettleTypes DEF At
  <2>4. ASSUME Await(c, "postRead", FALSE) PROVE CallTypes'
    BY <1>c, <1>s, <1>t, <2>1, <2>4, AtTypes, AwaitTypes DEF AdminSteps, EnsureSteps
  <2>5. ASSUME Await(c, "ensureFetch", Null) PROVE CallTypes'
    BY <1>c, <1>s, <1>t, <2>1, <2>5, AtTypes, AwaitTypes DEF AdminSteps, EnsureSteps
  <2>6. CallTypes' BY <1>2, <2>3, <2>4, <2>5 DEF ReadIssuance, EnsureOutcomes
  <2> QED BY <2>2, <2>6 DEF TypeOK, CallTypes, RowTypes, RestTypes
<1>3. ASSUME EnsureFetch(c) PROVE TypeOK'
  <2>1. At(c, "ensureFetch") /\ UNCHANGED <<now, tables, nextAllowed, jobs, bounds>> BY <1>3 DEF EnsureFetch
  <2>2. remembered' \subseteq Users 
    <3>1. user[c] \in Users BY <1>c, <2>1, AtTypes
    <3> QED BY <1>3, <3>1 DEF EnsureFetch, TypeOK
  <2>3. RowTypes' /\ RestTypes' BY <1>t, <2>1, <2>2 DEF RowTypes, RestTypes
  <2>4. ASSUME Settle(c, "failed_safe") PROVE CallTypes'
    BY <1>c, <1>o, <1>t, <2>1, <2>4, AtTypes, SettleTypes DEF EnsureOutcomes, At
  <2>5. ASSUME Await(c, "persist", Null) PROVE CallTypes'
    BY <1>c, <1>s, <1>t, <2>1, <2>5, AtTypes, AwaitTypes DEF AdminSteps, EnsureSteps
  <2>6. ASSUME Await(c, "postRead", FALSE) PROVE CallTypes'
    BY <1>c, <1>s, <1>t, <2>1, <2>6, AtTypes, AwaitTypes DEF AdminSteps, EnsureSteps
  <2>7. CallTypes' BY <1>3, <2>4, <2>5, <2>6 DEF EnsureFetch
  <2> QED BY <2>3, <2>7 DEF TypeOK, CallTypes, RowTypes, RestTypes
<1>4. ASSUME Persist(c) PROVE TypeOK'
  <2>1. /\ At(c, "persist") /\ InsertRow(user[c], EnsureKey) /\ Await(c, "postRead", TRUE)
        /\ remembered' = remembered \union {user[c]}
        /\ UNCHANGED <<now, snapshot, nextAllowed, jobs, bounds>>
    BY <1>4 DEF Persist
  <2>2. user[c] \in Users BY <1>c, <2>1, AtTypes
  <2>3. RowTypes' BY <2>1, <2>2, InsertRowType, AccessAssumption DEF RowTypes
  <2>4. RestTypes' BY <1>t, <2>1, <2>2 DEF RestTypes
  <2>5. CallTypes' BY <1>c, <1>s, <1>t, <2>1, AtTypes, AwaitTypes DEF AdminSteps, EnsureSteps
  <2> QED BY <2>3, <2>4, <2>5 DEF TypeOK, CallTypes, RowTypes, RestTypes
<1>5. ASSUME PostRead(c) PROVE TypeOK'
  <2>1. At(c, "postRead") /\ UNCHANGED <<now, tables, memory, jobs, bounds>> BY <1>5 DEF PostRead
  <2>2. RowTypes' /\ RestTypes' BY <1>t, <2>1 DEF RowTypes, RestTypes
  <2>3. PICK o \in EnsureOutcomes : Settle(c, o) BY <1>5 DEF PostRead, ReadyAnswer, EnsureOutcomes
  <2>4. CallTypes' BY <1>c, <1>o, <1>t, <2>1, <2>3, AtTypes, SettleTypes DEF At
  <2> QED BY <2>2, <2>4 DEF TypeOK, CallTypes, RowTypes, RestTypes
<1>6. ASSUME Answer(c) PROVE TypeOK'
  <2>1. At(c, "audit") /\ Reply(c, outcome[c]) /\ UNCHANGED <<now, tables, memory, jobs, bounds>>
    BY <1>6 DEF Answer
  <2>2. RowTypes' /\ RestTypes' BY <1>t, <2>1 DEF RowTypes, RestTypes
  <2>3. outcome[c] \in Outcomes BY <1>c DEF TypeOK
  <2>4. CallTypes' BY <1>c, <1>t, <2>1, <2>3, AtTypes, ReplyTypes
  <2> QED BY <2>2, <2>4 DEF TypeOK, CallTypes, RowTypes, RestTypes
<1> QED BY <1>1, <1>2, <1>3, <1>4, <1>5, <1>6 DEF AdminWork

LEMMA CallFailsTypes ==
    ASSUME TypeOK, NEW c \in Calls, CallFails(c)
    PROVE  TypeOK'
<1> USE DEF memory, jobs
<1>t. CallTypes /\ RowTypes /\ RestTypes BY TypeParts
<1>1. step[c] # "idle" /\ Fail /\ UNCHANGED <<now, snapshot, memory, user, began, jobs, payments>>
  BY DEF CallFails, BotSteps, EnsureSteps
<1>5. user[c] \in Users BY <1>1 DEF TypeOK
<1>2. PICK o : (Reply(c, o) /\ o \in OnFailure(step[c])) \/ (Settle(c, o) /\ o = "failed_safe")
  <2>1. CASE \E o \in OnFailure(step[c]) : Reply(c, o) BY <2>1
  <2>2. CASE Settle(c, "failed_safe") BY <2>2
  <2> QED BY <2>1, <2>2 DEF CallFails
<1>3. o \in Outcomes BY <1>2 DEF OnFailure, Outcomes, BotOutcomes, EnsureOutcomes
<1>4. CallTypes'
  <2>1. user' = user /\ began' = began BY <1>1
  <2>2. user[c] # Null BY <1>1 DEF TypeOK
  <2> QED BY <1>2, <1>3, <1>t, <2>1, <2>2, ReplyTypes, SettleTypes DEF CallTypes
<1>6. ASSUME UNCHANGED <<rows, current>> PROVE RowTypes' BY <1>6, <1>t DEF RowTypes
<1>7. ASSUME step[c] = "markExpired" /\ MarkRow(user[c], held[c]) PROVE RowTypes'
  BY <1>5, <1>7, MarkRowType DEF RowTypes, TypeOK
<1>8. ASSUME step[c] = "persist" /\ InsertRow(user[c], EnsureKey) PROVE RowTypes'
  BY <1>5, <1>8, InsertRowType, AccessAssumption DEF RowTypes
<1>9. RowTypes' BY <1>6, <1>7, <1>8 DEF CallFails
<1>10. failures' \in 0..MaxFailures BY <1>1, AccessAssumption DEF Fail, TypeOK
<1>11. RestTypes' BY <1>1, <1>t, <1>10 DEF RestTypes
<1> QED BY <1>4, <1>9, <1>11 DEF TypeOK, CallTypes, RowTypes, RestTypes

LEMMA RestartTypes ==
    ASSUME TypeOK, RestartBot \/ RestartAdmin
    PROVE  TypeOK'
<1>1. PICK cs : Drop(cs) BY DEF RestartBot, RestartAdmin
<1>2. UNCHANGED <<now, tables, user, began, jobs, payments>> /\ Fail BY DEF RestartBot, RestartAdmin
<1>3. nextAllowed' \in [Users -> Nat] /\ remembered' \subseteq Users BY DEF RestartBot, RestartAdmin, TypeOK
<1>4. failures' \in 0..MaxFailures BY <1>2, AccessAssumption DEF Fail, TypeOK
<1>5. CallTypes'
  <2>1. "idle" \in Steps /\ "none" \in Outcomes BY DEF Steps, Outcomes
  <2> QED BY <1>1, <1>2, <2>1 DEF Drop, TypeOK, CallTypes
<1>6. RowTypes' /\ RestTypes' BY <1>2, <1>3, <1>4 DEF RowTypes, RestTypes, TypeOK, tables, jobs
<1> QED BY <1>5, <1>6 DEF TypeOK, CallTypes, RowTypes, RestTypes

LEMMA OutsideTypes ==
    ASSUME TypeOK, NEW u \in Users,
           Bill(u) \/ \E k \in IssueKeys : OperatorIssues(u, k) \/ OperatorRevokes(u, k)
    PROVE  TypeOK'
<1> USE DEF tables, memory, calls, jobs, bounds
<1>t. CallTypes /\ RowTypes /\ RestTypes BY TypeParts
<1>1. ASSUME Bill(u) PROVE TypeOK'
  <2>1. PICK new \in Snapshot : snapshot' = [snapshot EXCEPT ![u] = new]
    <3>1. ASSUME NEW until \in Times \union {Null}, NEW l \in SnapshotLabels
          PROVE  [label |-> l, until |-> until, updated |-> now] \in Snapshot
      BY DEF Snapshot, TypeOK
    <3>2. CASE \E until \in Times \union {Null} :
                  snapshot' = [snapshot EXCEPT ![u] = [label |-> "active", until |-> until, updated |-> now]]
      BY <3>1, <3>2 DEF SnapshotLabels
    <3>3. CASE snapshot' = [snapshot EXCEPT ![u] = [label |-> "needs_review", until |-> Null, updated |-> now]]
      BY <3>1, <3>3 DEF SnapshotLabels
    <3> QED BY <1>1, <3>2, <3>3 DEF Bill
  <2>2. payments' \in 0..MaxPayments BY <1>1, AccessAssumption DEF Bill, TypeOK
  <2> QED BY <1>1, <2>1, <2>2 DEF Bill, TypeOK
<1>2. ASSUME NEW k \in IssueKeys, OperatorIssues(u, k) PROVE TypeOK'
  BY <1>2, InsertRowType DEF OperatorIssues, TypeOK
<1>3. ASSUME NEW k \in IssueKeys, OperatorRevokes(u, k) PROVE TypeOK'
  BY <1>3, MarkRowType DEF OperatorRevokes, TypeOK
<1> QED BY <1>1, <1>2, <1>3

LEMMA JobTypes ==
    ASSUME TypeOK, NEW j \in Jobs, JobWork(j) \/ ReconcileFails(j) \/ JobDies(j)
    PROVE  TypeOK'
<1> USE DEF tables, memory, calls, jobs, bounds
<1>1. ASSUME Start(j) PROVE TypeOK'
  <2>1. [status |-> "started", started |-> now] \in Run BY DEF Run, TypeOK
  <2> QED BY <1>1, <2>1 DEF Start, TypeOK
<1>2. ASSUME Reconcile(j) PROVE TypeOK' BY <1>2, ReconcileRowsType DEF Reconcile, TypeOK
<1>3. ASSUME Complete(j) \/ RecordFailed(j) PROVE TypeOK'
  <2>1. PICK status \in {"completed", "failed"} : Finish(j, status) BY <1>3 DEF Complete, RecordFailed
  <2>2. [status |-> status, started |-> run[j].started] \in Run BY DEF Run, TypeOK
  <2> QED BY <2>1, <2>2 DEF Finish, TypeOK
<1>4. ASSUME ReconcileFails(j) PROVE TypeOK'
  <2>1. rows' \in [Users \X IssueKeys -> Row \union {NoRow}]
    BY <1>4, ReconcileRowsType DEF ReconcileFails, TypeOK
  <2>2. failures' \in 0..MaxFailures BY <1>4, AccessAssumption DEF ReconcileFails, Fail, TypeOK
  <2> QED BY <1>4, <2>1, <2>2 DEF ReconcileFails, TypeOK
<1>5. ASSUME JobDies(j) PROVE TypeOK'
  <2>1. failures' \in 0..MaxFailures BY <1>5, AccessAssumption DEF JobDies, Fail, TypeOK
  <2> QED BY <1>5, <2>1 DEF JobDies, TypeOK
<1> QED BY <1>1, <1>2, <1>3, <1>4, <1>5 DEF JobWork

LEMMA NextTypeOK == TypeOK /\ [Next]_vars => TypeOK'
<1> SUFFICES ASSUME TypeOK, [Next]_vars PROVE TypeOK' OBVIOUS
<1>1. CASE Tick
  <2>1. now' \in Times BY <1>1, AccessAssumption DEF Tick, TypeOK, Times
  <2> QED BY <1>1, <2>1 DEF Tick, TypeOK, tables, memory, calls, jobs, bounds
<1>2. CASE UNCHANGED vars BY <1>2 DEF TypeOK, vars, tables, memory, calls, jobs, bounds
<1> QED BY <1>1, <1>2, BotTypes, AdminTypes, CallFailsTypes, RestartTypes, OutsideTypes, JobTypes DEF Next

\* Times, snapshots, rows, calls and jobs keep their types.
THEOREM TypeCorrect == Spec => []TypeOK
  BY InitTypeOK, NextTypeOK, PTL DEF Spec

-----------------------------------------------------------------------------
(* What a step does to rows, snapshots and the clock. *)

LEMMA InsertRowEffect ==
    ASSUME TypeOK, NEW u \in Users, NEW k \in IssueKeys, InsertRow(u, k), NEW x \in Users \X IssueKeys
    PROVE  \/ rows'[x] = rows[x]
           \/ rows[x] = NoRow /\ rows'[x].state = "issued" /\ rows'[x].created = now
<1> DEFINE entry == [state |-> "issued", created |-> now]
<1>1. entry.state = "issued" /\ entry.created = now OBVIOUS
<1>2. \/ rows' = rows
      \/ rows' = [rows EXCEPT ![<<u, k>>] = entry] /\ rows[<<u, k>>] = NoRow
  BY DEF InsertRow
<1> HIDE DEF entry
<1> QED BY <1>1, <1>2 DEF TypeOK

LEMMA MarkRowEffect ==
    ASSUME TypeOK, NEW u \in Users, NEW k \in IssueKeys, MarkRow(u, k), NEW x \in Users \X IssueKeys
    PROVE  \/ rows'[x] = rows[x]
           \/ /\ rows[x].state = "issued" /\ rows'[x].state = "revoked"
              /\ rows'[x].created = rows[x].created
<1> DEFINE entry == Revoked(rows[<<u, k>>])
<1>1. entry.state = "revoked" /\ entry.created = rows[<<u, k>>].created BY DEF Revoked
<1>2. \/ rows' = rows
      \/ rows' = [rows EXCEPT ![<<u, k>>] = entry] /\ rows[<<u, k>>].state = "issued"
  BY DEF MarkRow, Issued
<1> HIDE DEF entry
<1> QED BY <1>1, <1>2 DEF TypeOK

LEMMA ReconcileRowsEffect ==
    ASSUME TypeOK, NEW t, ReconcileRows(t), NEW x \in Users \X IssueKeys
    PROVE  /\ \/ rows'[x] = rows[x]
              \/ /\ rows[x].state = "issued" /\ rows'[x].state = "revoked"
                 /\ rows'[x].created = rows[x].created
                 /\ ReconcileSeesExpired(x[1], t)
           /\ rows[x].state = "issued" /\ ReconcileSeesExpired(x[1], t) => rows'[x].state = "revoked"
<1>1. Revoked(rows[x]).state = "revoked" /\ Revoked(rows[x]).created = rows[x].created BY DEF Revoked
<1> DEFINE E(y) == IF rows[y].state = "issued" /\ ReconcileSeesExpired(y[1], t)
                   THEN Revoked(rows[y]) ELSE rows[y]
<1>2. rows' = [y \in Users \X IssueKeys |-> E(y)] BY DEF ReconcileRows
<1>3. rows'[x] = E(x) BY <1>2
<1> QED BY <1>1, <1>3

\* A row is inserted now, or revoked with the time of its insert, or left alone.
RowMoves(x) ==
    \/ rows'[x] = rows[x]
    \/ rows[x] = NoRow /\ rows'[x].state = "issued" /\ rows'[x].created = now
    \/ /\ rows[x].state = "issued" /\ rows'[x].state = "revoked"
       /\ rows'[x].created = rows[x].created

LEMMA RowChanges ==
    ASSUME TypeOK, [Next]_vars, NEW x \in Users \X IssueKeys
    PROVE  RowMoves(x)
<1> USE DEF tables, memory, calls, jobs, bounds
<1> SUFFICES ASSUME rows' # rows PROVE RowMoves(x) BY DEF RowMoves
<1>1. ASSUME NEW u \in Users, NEW k \in IssueKeys, InsertRow(u, k) \/ MarkRow(u, k) PROVE RowMoves(x)
  BY <1>1, InsertRowEffect, MarkRowEffect DEF RowMoves
<1>2. ASSUME NEW t, ReconcileRows(t) PROVE RowMoves(x) BY <1>2, ReconcileRowsEffect DEF RowMoves
<1>3. ASSUME NEW c \in BotCalls, BotWork(c) \/ \E u \in Users : GetAccess(c, u) \/ Status(c, u)
      PROVE  RowMoves(x)
  <2>1. MarkExpired(c)
    BY <1>3 DEF BotWork, GetAccess, Status, ExpiredLookup, Lookup, Fetch, Instruct, StatusLookup
  <2>2. user[c] \in Users /\ held[c] \in IssueKeys BY <2>1 DEF MarkExpired, At, TypeOK, Calls
  <2> QED BY <1>1, <2>1, <2>2 DEF MarkExpired
<1>4. ASSUME NEW c \in AdminCalls, AdminWork(c) \/ \E u \in Users : EnsureAccess(c, u) PROVE RowMoves(x)
  <2>1. Persist(c) BY <1>4 DEF AdminWork, EnsureAccess, ReadIssuance, EnsureFetch, PostRead, Answer
  <2>2. user[c] \in Users BY <2>1 DEF Persist, At, TypeOK, Calls
  <2> QED BY <1>1, <2>1, <2>2, AccessAssumption DEF Persist
<1>5. ASSUME NEW c \in Calls, CallFails(c) PROVE RowMoves(x)
  <2>1. user[c] \in Users BY <1>5 DEF CallFails, TypeOK
  <2>2. CASE step[c] = "markExpired" /\ MarkRow(user[c], held[c])
    <3>1. held[c] \in IssueKeys BY <2>2 DEF TypeOK
    <3> QED BY <1>1, <2>1, <2>2, <3>1
  <2>3. CASE InsertRow(user[c], EnsureKey) BY <1>1, <2>1, <2>3, AccessAssumption
  <2> QED BY <1>5, <2>2, <2>3 DEF CallFails
<1>6. ASSUME NEW u \in Users, \E k \in IssueKeys : OperatorIssues(u, k) \/ OperatorRevokes(u, k)
      PROVE  RowMoves(x)
  BY <1>1, <1>6 DEF OperatorIssues, OperatorRevokes
<1>7. ASSUME NEW j \in Jobs, JobWork(j) \/ ReconcileFails(j) \/ JobDies(j) PROVE RowMoves(x)
  <2>1. \E t \in run[j].started..now : ReconcileRows(t)
    BY <1>7 DEF JobWork, Start, Reconcile, Complete, RecordFailed, Finish, ReconcileFails, JobDies
  <2> QED BY <1>2, <2>1
<1>8. ~(Tick \/ UNCHANGED vars \/ RestartBot \/ RestartAdmin \/ \E u \in Users : Bill(u))
  BY DEF Tick, vars, RestartBot, RestartAdmin, Bill
<1> QED BY <1>3, <1>4, <1>5, <1>6, <1>7, <1>8 DEF Next

\* A snapshot is left alone, or written now.
SnapshotMoves(u) == snapshot'[u] = snapshot[u] \/ snapshot'[u].updated = now

LEMMA SnapshotChanges ==
    ASSUME TypeOK, [Next]_vars, NEW u \in Users
    PROVE  SnapshotMoves(u)
<1> SUFFICES ASSUME snapshot' # snapshot PROVE SnapshotMoves(u) BY DEF SnapshotMoves
<1>1. \E v \in Users : Bill(v)
  BY DEF Next, vars, Tick, tables, BotWork, GetAccess, Status, ExpiredLookup, MarkExpired, Lookup, Fetch,
     Instruct, StatusLookup, AdminWork, EnsureAccess, ReadIssuance, EnsureFetch, Persist, PostRead, Answer,
     CallFails, RestartBot, RestartAdmin, OperatorIssues, OperatorRevokes, JobWork, Start, Reconcile,
     Complete, RecordFailed, Finish, ReconcileFails, JobDies
<1>2. PICK v \in Users : Bill(v) BY <1>1
<1> DEFINE New(l, t) == [label |-> l, until |-> t, updated |-> now]
<1>3. \A l, t : New(l, t).label = l /\ New(l, t).until = t /\ New(l, t).updated = now OBVIOUS
<1>4. \/ \E t \in Times \union {Null} : snapshot' = [snapshot EXCEPT ![v] = New("active", t)]
      \/ snapshot' = [snapshot EXCEPT ![v] = New("needs_review", Null)]
  BY <1>2 DEF Bill
<1> HIDE DEF New
<1>5. PICK l, t : snapshot' = [snapshot EXCEPT ![v] = New(l, t)]
  <2>1. CASE \E t \in Times \union {Null} : snapshot' = [snapshot EXCEPT ![v] = New("active", t)]
    BY <2>1
  <2>2. CASE snapshot' = [snapshot EXCEPT ![v] = New("needs_review", Null)] BY <2>2
  <2> QED BY <1>4, <2>1, <2>2
<1> QED BY <1>3, <1>5 DEF SnapshotMoves, TypeOK

LEMMA TimeGrows ==
    ASSUME TypeOK, [Next]_vars
    PROVE  now \in Nat /\ now' \in Nat /\ now <= now'
<1>1. now \in Nat BY DEF TypeOK, Times
<1>2. now' = now \/ now' = now + 1
  BY DEF Next, vars, Tick, BotWork, GetAccess, Status, ExpiredLookup, MarkExpired, Lookup, Fetch,
     Instruct, StatusLookup, AdminWork, EnsureAccess, ReadIssuance, EnsureFetch, Persist, PostRead, Answer,
     CallFails, RestartBot, RestartAdmin, Bill, OperatorIssues, OperatorRevokes, JobWork, Start, Reconcile,
     Complete, RecordFailed, Finish, ReconcileFails, JobDies
<1> QED BY <1>1, <1>2

LEMMA StepKeepsRevoked == TypeOK /\ [Next]_vars => KeepsRevoked
<1> SUFFICES ASSUME TypeOK, [Next]_vars, NEW x \in Users \X IssueKeys, rows[x].state = "revoked"
             PROVE  rows'[x].state = "revoked"
  BY DEF KeepsRevoked
<1>1. RowMoves(x) BY RowChanges
<1> QED BY <1>1 DEF RowMoves, NoRow

\* No step, however old the lookup it rests on, brings a revoked row back.
THEOREM RevokedStays == Spec => RevokedForGood
<1>1. TypeOK /\ [Next]_vars => [KeepsRevoked]_vars BY StepKeepsRevoked
<1> QED BY <1>1, TypeCorrect, PTL DEF Spec, RevokedForGood

-----------------------------------------------------------------------------
(* The reconcile job and its health check. *)

\* What a step does to a job.
JobMoves(j) ==
    \/ jobStep'[j] = jobStep[j] /\ run'[j] = run[j]
    \/ jobStep'[j] = "reconcile" /\ run'[j].status = "started" /\ run'[j].started = now
    \/ /\ jobStep'[j] = "complete" /\ run'[j] = run[j] /\ snapshot' = snapshot
       /\ \E t \in run[j].started..now : ReconcileRows(t)
    \/ jobStep[j] = "complete" /\ jobStep'[j] = "idle" /\ run'[j].started = run[j].started
    \/ /\ jobStep'[j] \in {"idle", "fail"} /\ run'[j].started = run[j].started
       /\ run'[j].status = run[j].status \/ run'[j].status = "failed"

LEMMA JobChanges ==
    ASSUME TypeOK, [Next]_vars, NEW j \in Jobs
    PROVE  JobMoves(j)
<1> USE DEF tables, memory, calls, jobs, bounds
<1> DEFINE New(status, t) == [status |-> status, started |-> t]
<1>0. \A status, t : New(status, t).status = status /\ New(status, t).started = t OBVIOUS
<1>1. ASSUME NEW i \in Jobs, Start(i) PROVE JobMoves(j)
  <2>1. run' = [run EXCEPT ![i] = New("started", now)] /\ jobStep' = [jobStep EXCEPT ![i] = "reconcile"]
    BY <1>1 DEF Start
  <2> HIDE DEF New
  <2> QED BY <1>0, <2>1 DEF JobMoves, TypeOK
<1>2. ASSUME NEW i \in Jobs, Reconcile(i) PROVE JobMoves(j)
  BY <1>2 DEF Reconcile, JobMoves, TypeOK
<1>3. ASSUME NEW i \in Jobs, NEW status, Finish(i, status), status = "failed" \/ jobStep[i] = "complete"
      PROVE  JobMoves(j)
  <2>1. run' = [run EXCEPT ![i] = New(status, run[i].started)] /\ jobStep' = [jobStep EXCEPT ![i] = "idle"]
    BY <1>3 DEF Finish
  <2> HIDE DEF New
  <2> QED BY <1>0, <1>3, <2>1 DEF JobMoves, TypeOK
<1>4. ASSUME NEW i \in Jobs, ReconcileFails(i) \/ JobDies(i) PROVE JobMoves(j)
  BY <1>4 DEF ReconcileFails, JobDies, JobMoves, TypeOK
<1>5. ASSUME NEW i \in Jobs, JobWork(i) PROVE JobMoves(j)
  BY <1>1, <1>2, <1>3, <1>5 DEF JobWork, Complete, RecordFailed
<1>6. ASSUME UNCHANGED jobs PROVE JobMoves(j) BY <1>6 DEF JobMoves
<1>7. UNCHANGED jobs \/ \E i \in Jobs : JobWork(i) \/ ReconcileFails(i) \/ JobDies(i)
  BY DEF Next, vars, Tick, BotWork, GetAccess, Status, ExpiredLookup, MarkExpired, Lookup, Fetch,
     Instruct, StatusLookup, AdminWork, EnsureAccess, ReadIssuance, EnsureFetch, Persist, PostRead, Answer,
     CallFails, RestartBot, RestartAdmin, Bill, OperatorIssues, OperatorRevokes
<1> QED BY <1>4, <1>5, <1>6, <1>7

\* Access that was there at t for a window that had ended at t.
Outlives(u, k, t) ==
    /\ Issued(u, k) /\ rows[<<u, k>>].created < t
    /\ LapsedBefore(u, t)

\* A run whose statement has been executed left nothing that outlived its window
\* when it started.
RunsReconciled ==
    \A j \in Jobs : jobStep[j] = "complete" \/ run[j].status = "completed" =>
        \A u \in Users, k \in IssueKeys : ~Outlives(u, k, run[j].started)

RunsInPast == \A j \in Jobs : run[j].started <= now

JobInv == TypeOK /\ RunsReconciled /\ RunsInPast

LEMMA TypesOfTimes ==
    ASSUME TypeOK
    PROVE  /\ now \in Nat
           /\ \A j \in Jobs : run[j].started \in Nat
           /\ \A c \in Calls : began[c] \in Nat
           /\ \A u \in Users : snapshot[u].updated \in Nat
           /\ \A u \in Users : snapshot[u].until # Null => snapshot[u].until \in Nat
           /\ \A x \in Users \X IssueKeys : rows[x].created \in Nat
<1>1. Times \subseteq Nat BY DEF Times
<1>2. \A u \in Users : snapshot[u] \in Snapshot BY DEF TypeOK
<1>3. \A x \in Users \X IssueKeys : rows[x] \in Row \union {NoRow} BY DEF TypeOK
<1>4. \A j \in Jobs : run[j] \in Run BY DEF TypeOK
<1>5. \A u \in Users : snapshot[u].updated \in Nat /\ (snapshot[u].until # Null => snapshot[u].until \in Nat)
  BY <1>1, <1>2 DEF Snapshot
<1>6. \A x \in Users \X IssueKeys : rows[x].created \in Nat
  <2>1. \A row \in Row : row.created \in Nat BY <1>1 DEF Row
  <2>2. NoRow.created \in Nat BY DEF NoRow
  <2> QED BY <1>3, <2>1, <2>2
<1>7. \A j \in Jobs : run[j].started \in Nat BY <1>1, <1>4 DEF Run
<1>8. now \in Nat /\ \A c \in Calls : began[c] \in Nat BY <1>1 DEF TypeOK
<1> QED BY <1>5, <1>6, <1>7, <1>8

\* Nothing comes to have ended before a moment that is past.
LEMMA LapsedBeforeStays ==
    ASSUME TypeOK, [Next]_vars, NEW u \in Users, NEW t \in Nat, t <= now, LapsedBefore(u, t)'
    PROVE  LapsedBefore(u, t) /\ snapshot'[u] = snapshot[u]
<1>1. SnapshotMoves(u) BY SnapshotChanges
<1>2. TypeOK' BY NextTypeOK
<1>3. snapshot'[u].updated < t BY DEF LapsedBefore
<1>4. now \in Nat BY TypesOfTimes
<1> QED BY <1>1, <1>3, <1>4 DEF SnapshotMoves, LapsedBefore, ActiveLabel

LEMMA OutlivesStays ==
    ASSUME TypeOK, [Next]_vars, NEW u \in Users, NEW k \in IssueKeys, NEW t \in Nat, t <= now,
           Outlives(u, k, t)'
    PROVE  Outlives(u, k, t)
<1>1. RowMoves(<<u, k>>) BY RowChanges
<1>2. LapsedBefore(u, t) /\ snapshot'[u] = snapshot[u] BY LapsedBeforeStays DEF Outlives
<1>3. rows'[<<u, k>>].state = "issued" /\ rows'[<<u, k>>].created < t BY DEF Outlives, Issued
<1>4. now \in Nat BY TypesOfTimes
<1>5. rows'[<<u, k>>] = rows[<<u, k>>] BY <1>1, <1>3, <1>4 DEF RowMoves
<1> QED BY <1>2, <1>3, <1>5 DEF Outlives, Issued

LEMMA NextJobInv == JobInv /\ [Next]_vars => JobInv'
<1> SUFFICES ASSUME JobInv, [Next]_vars PROVE JobInv' OBVIOUS
<1>1. TypeOK /\ TypeOK' BY NextTypeOK DEF JobInv
<1>2. now \in Nat /\ now' \in Nat /\ now <= now' BY <1>1, TimeGrows
<1>3. ASSUME NEW j \in Jobs PROVE run'[j].started <= now'
  <2>1. JobMoves(j) BY <1>1, JobChanges
  <2>2. run[j].started <= now BY DEF JobInv, RunsInPast
  <2>3. run[j].started \in Nat BY <1>1, TypesOfTimes
  <2> QED BY <1>2, <2>1, <2>2, <2>3 DEF JobMoves
<1>4. ASSUME NEW j \in Jobs, NEW u \in Users, NEW k \in IssueKeys, NEW t \in Nat, t = run'[j].started,
             Outlives(u, k, t)', jobStep'[j] = "complete" \/ run'[j].status = "completed"
      PROVE  FALSE
  <2>1. JobMoves(j) BY <1>1, JobChanges
  <2>2. run[j].started \in Nat /\ run[j].started <= now BY <1>1, TypesOfTimes DEF JobInv, RunsInPast
  <2>3. t <= now BY <1>2, <1>4, <2>1, <2>2 DEF JobMoves
  <2>4. Outlives(u, k, t) BY <1>1, <1>4, <2>3, OutlivesStays
  <2>5. CASE (jobStep[j] = "complete" \/ run[j].status = "completed") /\ run[j].started = t
    BY <2>4, <2>5 DEF JobInv, RunsReconciled
  <2>6. CASE \E m \in run[j].started..now : ReconcileRows(m) /\ run'[j] = run[j] /\ snapshot' = snapshot
    <3>1. PICK m \in run[j].started..now : ReconcileRows(m) BY <2>6
    <3>2. snapshot[u].until # Null => snapshot[u].until \in Nat BY <1>1, TypesOfTimes
    <3>3. ReconcileSeesExpired(u, m)
      BY <1>2, <1>4, <2>2, <2>4, <2>6, <3>1, <3>2 DEF Outlives, LapsedBefore, ReconcileSeesExpired
    <3>4. rows'[<<u, k>>].state = "revoked"
      BY <1>1, <2>4, <3>1, <3>3, ReconcileRowsEffect DEF Outlives, Issued
    <3> QED BY <1>4, <3>4 DEF Outlives, Issued
  <2> QED BY <1>4, <2>1, <2>5, <2>6 DEF JobMoves
<1>5. RunsReconciled'
  <2> SUFFICES ASSUME NEW j \in Jobs, jobStep'[j] = "complete" \/ run'[j].status = "completed",
                      NEW u \in Users, NEW k \in IssueKeys, Outlives(u, k, run[j].started)'
               PROVE  FALSE
    BY DEF RunsReconciled
  <2>1. PICK t : t = run'[j].started OBVIOUS
  <2>2. t \in Nat
    <3>1. run'[j] \in Run BY <1>1 DEF TypeOK
    <3> QED BY <2>1, <3>1 DEF Run, Times
  <2>3. Outlives(u, k, t)' BY <2>1 DEF Outlives, Issued, LapsedBefore, ActiveLabel
  <2> QED BY <1>4, <2>1, <2>2, <2>3
<1> QED BY <1>1, <1>3, <1>5 DEF JobInv, RunsInPast

LEMMA InitJobInv == Init => JobInv
<1> SUFFICES ASSUME Init PROVE JobInv OBVIOUS
<1>1. TypeOK BY InitTypeOK
<1>2. \A j \in Jobs : jobStep[j] = "idle" /\ run[j].status = "none" /\ run[j].started = 0 BY DEF Init
<1> QED BY <1>1, <1>2 DEF JobInv, RunsReconciled, RunsInPast, Init

LEMMA HealthFromRuns == JobInv => HealthMeansReconciled
<1> SUFFICES ASSUME JobInv, HealthOk, NEW u \in Users, NEW k \in IssueKeys,
                    Issued(u, k), rows[<<u, k>>].created + MaxInterval < now,
                    LapsedBefore(u, now - MaxInterval)
             PROVE  FALSE
  BY DEF HealthMeansReconciled
<1>1. latest \in Jobs /\ run[latest].status = "completed" /\ now - run[latest].started <= MaxInterval
  BY DEF HealthOk, JobInv, TypeOK
<1>2. /\ now \in Nat /\ run[latest].started \in Nat /\ rows[<<u, k>>].created \in Nat
      /\ snapshot[u].updated \in Nat
      /\ snapshot[u].until # Null => snapshot[u].until \in Nat
  BY <1>1, TypesOfTimes DEF JobInv
<1>3. MaxInterval \in Nat BY AccessAssumption
<1>4. Outlives(u, k, run[latest].started) BY <1>1, <1>2, <1>3 DEF Outlives, LapsedBefore
<1> QED BY <1>1, <1>4 DEF JobInv, RunsReconciled

\* While the health check passes, nothing outlives its window by more than the
\* interval it allows.
THEOREM HealthSound == Spec => []HealthMeansReconciled
<1>1. Init => JobInv BY InitJobInv
<1>2. JobInv /\ [Next]_vars => JobInv' BY NextJobInv
<1>3. JobInv => HealthMeansReconciled BY HealthFromRuns
<1> QED BY <1>1, <1>2, <1>3, PTL DEF Spec

LEMMA StepSparesPaidAccess == TypeOK /\ [Next]_vars => SparesPaidAccess
<1> SUFFICES ASSUME TypeOK, [Next]_vars, NEW j \in Jobs, NEW u \in Users, jobStep'[j] # jobStep[j], Revokes(u)
             PROVE  SeesExpired(u)
  BY DEF SparesPaidAccess
<1>1. PICK k \in IssueKeys : Issued(u, k) /\ ~Issued(u, k)' BY DEF Revokes
<1>2. \E i \in Jobs : JobWork(i) \/ ReconcileFails(i) \/ JobDies(i)
  BY DEF Next, vars, jobs, Tick, BotWork, GetAccess, Status, ExpiredLookup, MarkExpired, Lookup, Fetch,
     Instruct, StatusLookup, AdminWork, EnsureAccess, ReadIssuance, EnsureFetch, Persist, PostRead, Answer,
     CallFails, RestartBot, RestartAdmin, Bill, OperatorIssues, OperatorRevokes
<1>3. PICK i \in Jobs : \E t \in run[i].started..now : ReconcileRows(t)
  BY <1>1, <1>2 DEF JobWork, Start, Reconcile, Complete, RecordFailed, Finish, ReconcileFails, JobDies, tables,
     Issued
<1>4. PICK t \in run[i].started..now : ReconcileRows(t) BY <1>3
<1>5. ReconcileSeesExpired(u, t)
  <2>1. <<u, k>> \in Users \X IssueKeys /\ <<u, k>>[1] = u OBVIOUS
  <2> QED BY <1>1, <1>4, <2>1, ReconcileRowsEffect DEF Issued
<1>6. now \in Nat /\ run[i].started \in Nat /\ (snapshot[u].until # Null => snapshot[u].until \in Nat)
  BY TypesOfTimes
<1> QED BY <1>4, <1>5, <1>6 DEF ReconcileSeesExpired, SeesExpired

\* The job never revokes the access of a user whose window is open.
THEOREM JobSpares == Spec => JobSparesPaidAccess
<1>1. TypeOK /\ [Next]_vars => [SparesPaidAccess]_vars BY StepSparesPaidAccess
<1> QED BY <1>1, TypeCorrect, PTL DEF Spec, JobSparesPaidAccess

-----------------------------------------------------------------------------
(* Calls of the bot. *)

Sending == {"lookup", "fetch", "instruct"}

\* A call that is where it was or sends on, and one that is over without sending.
GoesOn(c) ==
    /\ user'[c] = user[c] /\ began'[c] = began[c]
    /\ step'[c] \in Sending => step[c] \in Sending
    /\ Passed(c)' => Passed(c)
SendsNothing(c) == step'[c] \notin Sending /\ ~Passed(c)'

BotMoves(c) ==
    \/ \E u \in Users : GetAccess(c, u)
    \/ GoesOn(c)
    \/ SendsNothing(c)

LEMMA BotChanges ==
    ASSUME TypeOK, [Next]_vars, NEW c \in BotCalls
    PROVE  BotMoves(c)
<1> USE DEF tables, memory, calls, jobs, bounds
<1>c. c \in Calls /\ c \notin AdminCalls BY AccessAssumption DEF Calls
<1>1. ASSUME step'[c] = step[c], user'[c] = user[c], began'[c] = began[c], outcome'[c] = outcome[c]
      PROVE  BotMoves(c)
  BY <1>1 DEF BotMoves, GoesOn, Passed
<1>2. ASSUME NEW d \in Calls, d # c, NEW s, NEW h, Await(d, s, h) \/ Reply(d, s) \/ Settle(d, s),
             user'[c] = user[c], began'[c] = began[c]
      PROVE  BotMoves(c)
  BY <1>c, <1>1, <1>2 DEF Await, Reply, Settle, TypeOK
<1>3. ASSUME NEW s, s \notin Sending, s # "idle", NEW h, Await(c, s, h) PROVE BotMoves(c)
  BY <1>c, <1>3 DEF Await, TypeOK, BotMoves, SendsNothing, Passed, Sending
<1>4. ASSUME NEW o, o \notin {"accepted", "not_ready", "temporarily_unavailable"}, Reply(c, o)
      PROVE  BotMoves(c)
  BY <1>c, <1>4 DEF Reply, TypeOK, BotMoves, SendsNothing, Passed, Sending
<1>5. ASSUME step[c] \in Sending, UNCHANGED <<user, began>> PROVE BotMoves(c)
  BY <1>5 DEF BotMoves, GoesOn, Passed, Sending
<1>6. ASSUME NEW d \in BotCalls, BotWork(d) \/ \E u \in Users : GetAccess(d, u) \/ Status(d, u)
      PROVE  BotMoves(c)
  <2>1. CASE d # c
    <3>1. d \in Calls BY DEF Calls
    <3>2. user'[c] = user[c] /\ began'[c] = began[c]
      BY <1>c, <1>6, <2>1, <3>1 DEF BotWork, GetAccess, Status, ExpiredLookup, MarkExpired, Lookup, Fetch,
         Instruct, StatusLookup, At, Begin, TypeOK
    <3>3. \E s, h : Await(d, s, h) \/ Reply(d, s)
      BY <1>6 DEF BotWork, GetAccess, Status, ExpiredLookup, MarkExpired, Lookup, Fetch, Instruct, StatusLookup
    <3> QED BY <1>2, <2>1, <3>1, <3>2, <3>3
  <2>2. CASE d = c /\ \E u \in Users : GetAccess(c, u) BY <2>2 DEF BotMoves
  <2>3. CASE d = c /\ \E u \in Users : Status(c, u)
    BY <1>3, <1>4, <2>3 DEF Status, Sending
  <2>4. CASE d = c /\ (ExpiredLookup(c) \/ MarkExpired(c) \/ StatusLookup(c))
    BY <1>3, <1>4, <2>4 DEF ExpiredLookup, MarkExpired, StatusLookup, Sending
  <2>5. CASE d = c /\ (Lookup(c) \/ Fetch(c) \/ Instruct(c))
    BY <1>5, <2>5 DEF Lookup, Fetch, Instruct, At, Sending
  <2> QED BY <1>6, <2>1, <2>2, <2>3, <2>4, <2>5 DEF BotWork
<1>7. ASSUME NEW d \in AdminCalls, AdminWork(d) \/ \E u \in Users : EnsureAccess(d, u) PROVE BotMoves(c)
  <2>1. d \in Calls /\ d # c BY <1>c DEF Calls
  <2>2. user'[c] = user[c] /\ began'[c] = began[c]
    BY <1>c, <1>7, <2>1 DEF AdminWork, EnsureAccess, ReadIssuance, EnsureFetch, Persist, PostRead, Answer, At, Begin, TypeOK
  <2>3. \E s, h : Await(d, s, h) \/ Reply(d, s) \/ Settle(d, s)
    BY <1>7 DEF AdminWork, EnsureAccess, ReadIssuance, EnsureFetch, Persist, PostRead, Answer
  <2> QED BY <1>2, <2>1, <2>2, <2>3
<1>8. ASSUME NEW d \in Calls, CallFails(d) PROVE BotMoves(c)
  <2>1. UNCHANGED <<user, began>> BY <1>8 DEF CallFails
  <2>2. PICK o : \/ Reply(d, o) /\ o \in OnFailure(step[d]) /\ step[d] \in BotSteps
                 \/ Settle(d, o) /\ o = "failed_safe"
    <3>1. CASE step[d] \in BotSteps /\ \E o \in OnFailure(step[d]) : Reply(d, o) BY <3>1
    <3>2. CASE Settle(d, "failed_safe") BY <3>2
    <3> QED BY <1>8, <3>1, <3>2 DEF CallFails
  <2>3. CASE d # c BY <1>2, <2>1, <2>2, <2>3
  <2>4. CASE d = c /\ step[c] \in Sending BY <1>5, <2>1, <2>4
  <2>5. CASE d = c /\ step[c] \notin Sending /\ Settle(d, o)
    BY <1>c, <2>2, <2>5 DEF Settle, TypeOK, BotMoves, SendsNothing, Passed, Sending
  <2>6. CASE d = c /\ step[c] \notin Sending /\ Reply(d, o) /\ o \in OnFailure(step[d]) /\ step[c] \in BotSteps
    <3>1. o \notin {"accepted", "not_ready", "temporarily_unavailable"}
      BY <2>6 DEF OnFailure, Sending, BotSteps
    <3> QED BY <1>4, <2>6, <3>1
  <2> QED BY <2>2, <2>3, <2>4, <2>5, <2>6
<1>9. ASSUME RestartBot PROVE BotMoves(c)
  <2>1. step'[c] = "idle" /\ outcome'[c] = "none" BY <1>c, <1>9 DEF RestartBot, Drop
  <2> QED BY <2>1 DEF BotMoves, SendsNothing, Passed, Sending
<1>10. ASSUME RestartAdmin PROVE BotMoves(c)
  BY <1>c, <1>1, <1>10 DEF RestartAdmin, Drop
<1>11. ASSUME UNCHANGED calls PROVE BotMoves(c) BY <1>1, <1>11
<1>12. ASSUME Tick \/ UNCHANGED vars \/ \E u \in Users :
                 Bill(u) \/ \E k \in IssueKeys : OperatorIssues(u, k) \/ OperatorRevokes(u, k)
       PROVE  BotMoves(c)
  BY <1>11, <1>12 DEF Tick, vars, Bill, OperatorIssues, OperatorRevokes
<1>13. ASSUME NEW j \in Jobs, JobWork(j) \/ ReconcileFails(j) \/ JobDies(j) PROVE BotMoves(c)
  BY <1>11, <1>13 DEF JobWork, Start, Reconcile, Complete, RecordFailed, Finish, ReconcileFails, JobDies
<1> QED BY <1>6, <1>7, <1>8, <1>9, <1>10, <1>12, <1>13 DEF Next

LEMMA GetAccessEffect ==
    ASSUME TypeOK, NEW c \in BotCalls, NEW u \in Users, GetAccess(c, u)
    PROVE  /\ step[c] = "idle" /\ user'[c] = u /\ began'[c] = now
           /\ step'[c] \in Sending => ~SeesExpired(u)
           /\ Passed(c)' => /\ nextAllowed[u] <= now /\ nextAllowed'[u] = now + Cooldown
                            /\ step'[c] = "lookup"
           /\ \A v \in Users : \/ nextAllowed'[v] = nextAllowed[v]
                               \/ v = u /\ nextAllowed[u] <= now /\ nextAllowed'[u] = now + Cooldown
<1>c. c \in Calls BY DEF Calls
<1>1. Begin(c, u) BY DEF GetAccess
<1>2. step[c] = "idle" /\ user'[c] = u /\ began'[c] = now BY <1>c, <1>1 DEF Begin, TypeOK
<1>3. CASE Reply(c, "not_eligible") /\ UNCHANGED nextAllowed
  BY <1>c, <1>2, <1>3 DEF Reply, Passed, Sending, TypeOK
<1>4. CASE Reply(c, "cooldown") /\ UNCHANGED nextAllowed
  BY <1>c, <1>2, <1>4 DEF Reply, Passed, Sending, TypeOK
<1>5. CASE Await(c, "expiredLookup", Null) /\ UNCHANGED nextAllowed
  BY <1>c, <1>2, <1>5 DEF Await, Passed, Sending, TypeOK
<1>6. CASE /\ ~SeesExpired(u) /\ CooldownOver(u)
           /\ nextAllowed' = [nextAllowed EXCEPT ![u] = NextAllowed(u)]
           /\ Await(c, "lookup", Null)
  BY <1>c, <1>2, <1>6 DEF Await, CooldownOver, NextAllowed, TypeOK
<1> QED BY <1>3, <1>4, <1>5, <1>6 DEF GetAccess

\* What a call sends, it sends for a window that was open when it began.
SendsInWindow == \A c \in BotCalls : step[c] \in Sending => ~LapsedBefore(user[c], began[c])

BotBeganInPast == \A c \in BotCalls : began[c] <= now

WindowInv == TypeOK /\ SendsInWindow /\ BotBeganInPast

LEMMA BeganStaysInPast == TypeOK /\ BotBeganInPast /\ [Next]_vars => BotBeganInPast'
<1> SUFFICES ASSUME TypeOK, BotBeganInPast, [Next]_vars, NEW c \in BotCalls PROVE began'[c] <= now'
  BY DEF BotBeganInPast
<1>1. now \in Nat /\ now' \in Nat /\ now <= now' BY TimeGrows
<1>2. began[c] \in Nat BY TypesOfTimes DEF Calls
<1>3. began'[c] = began[c] \/ began'[c] = now
  <2>c. c \in Calls BY DEF Calls
  <2>1. UNCHANGED began \/ \E d \in Calls, u \in Users : Begin(d, u)
    BY DEF Next, vars, calls, Calls, Tick, BotWork, GetAccess, Status, ExpiredLookup, MarkExpired, Lookup, Fetch,
       Instruct, StatusLookup, AdminWork, EnsureAccess, ReadIssuance, EnsureFetch, Persist, PostRead, Answer, At,
       CallFails, RestartBot, RestartAdmin, Bill, OperatorIssues, OperatorRevokes, JobWork, Start, Reconcile,
       Complete, RecordFailed, Finish, ReconcileFails, JobDies
  <2> QED BY <2>c, <2>1 DEF Begin, TypeOK
<1> QED BY <1>1, <1>2, <1>3 DEF BotBeganInPast

LEMMA NextWindowInv == WindowInv /\ [Next]_vars => WindowInv'
<1> SUFFICES ASSUME WindowInv, [Next]_vars PROVE WindowInv' OBVIOUS
<1>1. TypeOK /\ TypeOK' BY NextTypeOK DEF WindowInv
<1>2. BotBeganInPast' BY BeganStaysInPast DEF WindowInv
<1>3. ASSUME NEW c \in BotCalls, step'[c] \in Sending, LapsedBefore(user[c], began[c])' PROVE FALSE
  <2>c. c \in Calls BY DEF Calls
  <2>1. PICK t, u : t = began'[c] /\ u = user'[c] OBVIOUS
  <2>2. LapsedBefore(u, t)' BY <1>3, <2>1 DEF LapsedBefore, ActiveLabel
  <2>3. now \in Nat /\ began[c] \in Nat /\ began[c] <= now
    BY <1>1, <2>c, TypesOfTimes DEF WindowInv, BotBeganInPast
  <2>4. CASE \E v \in Users : GetAccess(c, v)
    <3>1. t = now /\ u \in Users /\ ~SeesExpired(u) BY <1>1, <1>3, <2>1, <2>4, GetAccessEffect
    <3>2. LapsedBefore(u, t) BY <1>1, <2>2, <2>3, <3>1, LapsedBeforeStays
    <3>3. snapshot[u].until \in Nat BY <1>1, <3>1, <3>2, TypesOfTimes DEF LapsedBefore
    <3> QED BY <2>3, <3>1, <3>2, <3>3 DEF LapsedBefore, SeesExpired
  <2>5. CASE GoesOn(c)
    <3>1. t = began[c] /\ u = user[c] /\ step[c] \in Sending BY <1>3, <2>1, <2>5 DEF GoesOn
    <3>2. user[c] \in Users BY <1>1, <2>c, <3>1 DEF TypeOK, Sending
    <3>3. LapsedBefore(u, t) BY <1>1, <2>2, <2>3, <3>1, <3>2, LapsedBeforeStays
    <3> QED BY <3>1, <3>3 DEF WindowInv, SendsInWindow
  <2>6. BotMoves(c) BY <1>1, BotChanges
  <2> QED BY <1>3, <2>4, <2>5, <2>6 DEF BotMoves, SendsNothing
<1> QED BY <1>1, <1>2, <1>3 DEF WindowInv, SendsInWindow

LEMMA StepDeliversInWindow == WindowInv /\ [Next]_vars => DeliversInWindow
<1> SUFFICES ASSUME WindowInv, [Next]_vars, NEW c \in BotCalls, Answers(c, {"accepted"})
             PROVE  ~LapsedBefore(user[c], began[c])
  BY DEF DeliversInWindow
<1>1. BotMoves(c) BY BotChanges DEF WindowInv
<1>2. step[c] # "idle" /\ Passed(c)' BY DEF Answers, Passed
<1>3. Passed(c) BY <1>1, <1>2, GetAccessEffect DEF BotMoves, GoesOn, SendsNothing, WindowInv
<1> QED BY <1>2, <1>3 DEF Passed, Sending, WindowInv, SendsInWindow

LEMMA InitWindowInv == Init => WindowInv
  BY InitTypeOK DEF Init, WindowInv, SendsInWindow, BotBeganInPast, Sending, Calls

\* The bot delivers no access to a call that began after the end of the window.
THEOREM DeliveryInWindow == Spec => BotGatesOnWindow
<1>1. Init => WindowInv BY InitWindowInv
<1>2. WindowInv /\ [Next]_vars => WindowInv' BY NextWindowInv
<1>3. WindowInv /\ [Next]_vars => [DeliversInWindow]_vars BY StepDeliversInWindow
<1> QED BY <1>1, <1>2, <1>3, PTL DEF Spec, BotGatesOnWindow

-----------------------------------------------------------------------------
(* The cooldown. *)

\* The next call of a user is allowed a window after every one that passed.
PassedHoldsBack ==
    \A c \in BotCalls : Passed(c) =>
        user[c] \in Users /\ began[c] + Cooldown <= nextAllowed[user[c]]

CooldownInv == TypeOK /\ PassedHoldsBack /\ OneResendPerCooldown

\* Only a call of /get_access or a restart moves what is allowed next.
LEMMA NextAllowedMoves ==
    ASSUME [Next]_vars
    PROVE  \/ UNCHANGED nextAllowed
           \/ \E c \in BotCalls, u \in Users : GetAccess(c, u)
           \/ RestartBot
  BY DEF Next, vars, memory, Tick, BotWork, Status, ExpiredLookup, MarkExpired, Lookup, Fetch,
     Instruct, StatusLookup, AdminWork, EnsureAccess, ReadIssuance, EnsureFetch, Persist, PostRead, Answer,
     CallFails, RestartAdmin, Bill, OperatorIssues, OperatorRevokes, JobWork, Start, Reconcile,
     Complete, RecordFailed, Finish, ReconcileFails, JobDies

LEMMA NextCooldownInv == CooldownInv /\ [Next]_vars => CooldownInv'
<1> SUFFICES ASSUME CooldownInv, [Next]_vars PROVE CooldownInv' OBVIOUS
<1>1. TypeOK /\ TypeOK' BY NextTypeOK DEF CooldownInv
<1>2. now \in Nat /\ Cooldown \in Nat /\ \A c \in BotCalls : began[c] \in Nat
  BY <1>1, TypesOfTimes, AccessAssumption DEF Calls
<1>3. \A u \in Users : nextAllowed[u] \in Nat BY <1>1 DEF TypeOK
<1>4. CASE RestartBot
  <2>1. ASSUME NEW c \in BotCalls PROVE ~Passed(c)'
    <3>1. step'[c] = "idle" /\ outcome'[c] = "none" BY <1>4 DEF RestartBot, Drop, Calls
    <3> QED BY <3>1 DEF Passed
  <2> QED BY <1>1, <2>1 DEF CooldownInv, PassedHoldsBack, OneResendPerCooldown
<1>5. ASSUME ~RestartBot PROVE CooldownInv'
  \* A call that has passed did before, or passes now.
  <2>1. ASSUME NEW c \in BotCalls, Passed(c)'
        PROVE  \/ Passed(c) /\ user'[c] = user[c] /\ began'[c] = began[c]
               \/ \E u \in Users : GetAccess(c, u)
    BY <1>1, <2>1, BotChanges DEF BotMoves, GoesOn, SendsNothing
  <2>2. ASSUME NEW c \in BotCalls, Passed(c)' PROVE user'[c] \in Users /\ began'[c] + Cooldown <= nextAllowed'[user'[c]]
    <3>1. CASE \E u \in Users : GetAccess(c, u) BY <1>1, <1>2, <2>2, <3>1, GetAccessEffect
    <3>2. CASE Passed(c) /\ user'[c] = user[c] /\ began'[c] = began[c]
      <4>1. user[c] \in Users /\ began[c] + Cooldown <= nextAllowed[user[c]]
        BY <3>2 DEF CooldownInv, PassedHoldsBack
      <4>2. nextAllowed[user[c]] <= nextAllowed'[user[c]]
        <5>1. CASE UNCHANGED nextAllowed BY <1>3, <4>1, <5>1
        <5>2. CASE \E d \in BotCalls, u \in Users : GetAccess(d, u)
          BY <1>1, <1>2, <1>3, <4>1, <5>2, GetAccessEffect
        <5> QED BY <1>5, <5>1, <5>2, NextAllowedMoves
      <4>3. nextAllowed'[user[c]] \in Nat BY <1>1, <4>1 DEF TypeOK
      <4> QED BY <1>2, <1>3, <3>2, <4>1, <4>2, <4>3
    <3> QED BY <2>1, <2>2, <3>1, <3>2
  \* Whoever passes now, passes a window after those that have passed.
  <2>3. ASSUME NEW c \in BotCalls, NEW d \in BotCalls, c # d, NEW u \in Users, GetAccess(c, u), Passed(c)',
               Passed(d)', user'[c] = user'[d]
        PROVE  began'[d] + Cooldown <= began'[c]
    <3>1. user'[c] = u /\ began'[c] = now /\ nextAllowed[u] <= now BY <1>1, <2>3, GetAccessEffect
    <3>2. ~\E v \in Users : GetAccess(d, v)
      <4>1. ASSUME NEW v \in Users, GetAccess(d, v) PROVE FALSE
        <5>1. step[c] = "idle" /\ step'[c] = "lookup" BY <1>1, <2>3, GetAccessEffect
        <5>2. \E s, h : Await(d, s, h) \/ Reply(d, s) BY <4>1 DEF GetAccess
        <5>3. step'[c] = step[c] BY <1>1, <2>3, <5>2 DEF Await, Reply, TypeOK, Calls
        <5> QED BY <5>1, <5>3
      <4> QED BY <4>1
    <3>3. Passed(d) /\ user'[d] = user[d] /\ began'[d] = began[d] BY <2>1, <2>3, <3>2
    <3>4. began[d] + Cooldown <= nextAllowed[u] BY <2>3, <3>1, <3>3 DEF CooldownInv, PassedHoldsBack
    <3> QED BY <1>2, <1>3, <3>1, <3>3, <3>4
  <2>4. OneResendPerCooldown'
    <3> SUFFICES ASSUME NEW c \in BotCalls, NEW d \in BotCalls, c # d, Passed(c)', Passed(d)', user'[c] = user'[d]
                 PROVE  began'[c] + Cooldown <= began'[d] \/ began'[d] + Cooldown <= began'[c]
      BY DEF OneResendPerCooldown
    <3>1. CASE \E u \in Users : GetAccess(c, u) BY <2>3, <3>1
    <3>2. CASE \E u \in Users : GetAccess(d, u) BY <2>3, <3>2
    <3>3. CASE Passed(c) /\ Passed(d) /\ user'[c] = user[c] /\ user'[d] = user[d]
               /\ began'[c] = began[c] /\ began'[d] = began[d]
      BY <3>3 DEF CooldownInv, OneResendPerCooldown
    <3> QED BY <2>1, <3>1, <3>2, <3>3
  <2> QED BY <1>1, <2>2, <2>4 DEF CooldownInv, PassedHoldsBack
<1> QED BY <1>4, <1>5

LEMMA InitCooldownInv == Init => CooldownInv
<1> SUFFICES ASSUME Init PROVE CooldownInv OBVIOUS
<1>1. \A c \in BotCalls : ~Passed(c) BY DEF Init, Passed, Calls
<1> QED BY <1>1, InitTypeOK DEF CooldownInv, PassedHoldsBack, OneResendPerCooldown

\* Calls of one user that pass the cooldown are a window apart, whatever the calls
\* of the bot process.
THEOREM ResendsApart == Spec => []OneResendPerCooldown
<1>1. Init => CooldownInv BY InitCooldownInv
<1>2. CooldownInv /\ [Next]_vars => CooldownInv' BY NextCooldownInv
<1>3. CooldownInv => OneResendPerCooldown BY DEF CooldownInv
<1> QED BY <1>1, <1>2, <1>3, PTL DEF Spec


-----------------------------------------------------------------------------
(* Calls of ensure-access, over Access with its history. *)

ReadyAnswers == {"issued_access", "noop_access_already_ready"}

\* Where a call of ensure-access begins, what it awaits next in each step of its
\* own, and where it ends.
EnsureMoves(c) ==
    \/ step'[c] = step[c] /\ held'[c] = held[c] /\ outcome'[c] = outcome[c]
    \/ step'[c] \in {"readIssuance", "ensureFetch"}
    \/ step'[c] = "persist" /\ rows[<<user[c], EnsureKey>>] = NoRow
    \/ step'[c] = "postRead" /\ held'[c] = FALSE
    \/ step[c] = "persist" /\ step'[c] = "postRead" /\ InsertRow(user[c], EnsureKey)
    \/ step'[c] = "audit" /\ outcome'[c] \notin ReadyAnswers
    \/ /\ step'[c] = "audit" /\ CurrentIssued(user[c]) /\ UNCHANGED <<rows, current>>
       /\ outcome'[c] = "issued_access" => step[c] = "postRead" /\ held[c] = TRUE
    \/ step[c] = "audit" /\ step'[c] = "idle" /\ outcome'[c] = outcome[c]
    \/ step'[c] = "idle" /\ outcome'[c] \notin ReadyAnswers

\* A call keeps its user and its beginning, or begins now.
EnsureFrame(c) ==
    \/ user'[c] = user[c] /\ began'[c] = began[c]
    \/ began'[c] = now /\ step'[c] = "readIssuance"

LEMMA EnsureChanges ==
    ASSUME TypeOK, [Next]_vars, NEW c \in AdminCalls
    PROVE  EnsureMoves(c) /\ EnsureFrame(c)
<1> USE DEF tables, memory, calls, jobs, bounds
<1>c. c \in Calls /\ c \notin BotCalls BY AccessAssumption DEF Calls
<1>1. ASSUME NEW s, NEW h, Await(c, s, h)
      PROVE  step'[c] = s /\ held'[c] = h /\ outcome'[c] = outcome[c]
  BY <1>c, <1>1 DEF Await, TypeOK
<1>2. ASSUME NEW o, Settle(c, o) PROVE step'[c] = "audit" /\ outcome'[c] = o
  BY <1>c, <1>2 DEF Settle, TypeOK
<1>3. ASSUME NEW o, Reply(c, o) PROVE step'[c] = "idle" /\ outcome'[c] = o
  BY <1>c, <1>3 DEF Reply, TypeOK
<1>4. ASSUME NEW d \in Calls, d # c, NEW s, NEW h, Await(d, s, h) \/ Reply(d, s) \/ Settle(d, s)
      PROVE  EnsureMoves(c)
  BY <1>c, <1>4 DEF Await, Reply, Settle, TypeOK, EnsureMoves
<1>5. ASSUME NEW d \in Calls, NEW u, d # c, Begin(d, u) PROVE EnsureFrame(c)
  BY <1>c, <1>5 DEF Begin, TypeOK, EnsureFrame
<1>6. ASSUME UNCHANGED <<user, began>> PROVE EnsureFrame(c) BY <1>6 DEF EnsureFrame
<1>7. ASSUME NEW d \in BotCalls, BotWork(d) \/ \E u \in Users : GetAccess(d, u) \/ Status(d, u)
      PROVE  EnsureMoves(c) /\ EnsureFrame(c)
  <2>1. d \in Calls /\ d # c BY <1>c DEF Calls
  <2>2. \E s, h : Await(d, s, h) \/ Reply(d, s)
    BY <1>7 DEF BotWork, GetAccess, Status, ExpiredLookup, MarkExpired, Lookup, Fetch, Instruct, StatusLookup
  <2>3. UNCHANGED <<user, began>> \/ \E u : Begin(d, u)
    BY <1>7 DEF BotWork, GetAccess, Status, ExpiredLookup, MarkExpired, Lookup, Fetch, Instruct, StatusLookup, At
  <2> QED BY <1>4, <1>5, <1>6, <2>1, <2>2, <2>3
<1>8. ASSUME NEW d \in AdminCalls, d # c, AdminWork(d) \/ \E u \in Users : EnsureAccess(d, u)
      PROVE  EnsureMoves(c) /\ EnsureFrame(c)
  <2>1. d \in Calls BY DEF Calls
  <2>2. \E s, h : Await(d, s, h) \/ Reply(d, s) \/ Settle(d, s)
    BY <1>8 DEF AdminWork, EnsureAccess, ReadIssuance, EnsureFetch, Persist, PostRead, Answer
  <2>3. UNCHANGED <<user, began>> \/ \E u : Begin(d, u)
    BY <1>8 DEF AdminWork, EnsureAccess, ReadIssuance, EnsureFetch, Persist, PostRead, Answer, At
  <2> QED BY <1>4, <1>5, <1>6, <1>8, <2>1, <2>2, <2>3
<1>9. ASSUME NEW u \in Users, EnsureAccess(c, u) PROVE EnsureMoves(c) /\ EnsureFrame(c)
  <2>1. step'[c] = "readIssuance" BY <1>1, <1>9 DEF EnsureAccess
  <2>2. began'[c] = now BY <1>c, <1>9 DEF EnsureAccess, Begin, TypeOK
  <2> QED BY <2>1, <2>2 DEF EnsureMoves, EnsureFrame
<1>10. ASSUME AdminWork(c) PROVE EnsureMoves(c) /\ EnsureFrame(c)
  <2>1. EnsureFrame(c)
    BY <1>6, <1>10 DEF AdminWork, ReadIssuance, EnsureFetch, Persist, PostRead, Answer, At
  <2>2. CASE ReadIssuance(c)
    <3>1. CASE Settle(c, "noop_no_active_subscription")
      BY <1>2, <2>1, <3>1 DEF EnsureMoves, ReadyAnswers
    <3>2. CASE CurrentIssued(user[c]) /\ Settle(c, "noop_access_already_ready")
      BY <1>2, <2>1, <2>2, <3>2 DEF ReadIssuance, EnsureMoves
    <3>3. CASE Await(c, "postRead", FALSE) BY <1>1, <2>1, <3>3 DEF EnsureMoves
    <3>4. CASE Await(c, "ensureFetch", Null) BY <1>1, <2>1, <3>4 DEF EnsureMoves
    <3> QED BY <2>2, <3>1, <3>2, <3>3, <3>4 DEF ReadIssuance
  <2>3. CASE EnsureFetch(c)
    <3>1. CASE rows[<<user[c], EnsureKey>>] = NoRow /\ Await(c, "persist", Null)
      BY <1>1, <2>1, <3>1 DEF EnsureMoves
    <3>2. CASE Await(c, "postRead", FALSE) BY <1>1, <2>1, <3>2 DEF EnsureMoves
    <3>3. CASE Settle(c, "failed_safe") BY <1>2, <2>1, <3>3 DEF EnsureMoves, ReadyAnswers
    <3> QED BY <2>3, <3>1, <3>2, <3>3 DEF EnsureFetch
  <2>4. CASE Persist(c) BY <1>1, <2>1, <2>4 DEF Persist, At, EnsureMoves
  <2>5. CASE PostRead(c)
    <3>1. CASE CurrentIssued(user[c]) /\ Settle(c, ReadyAnswer(c))
      <4>1. step'[c] = "audit" /\ outcome'[c] = ReadyAnswer(c) BY <1>2, <3>1
      <4>2. step[c] = "postRead" /\ held[c] \in BOOLEAN /\ UNCHANGED <<rows, current>>
        BY <1>c, <2>5 DEF PostRead, At, TypeOK
      <4> QED BY <2>1, <3>1, <4>1, <4>2 DEF ReadyAnswer, EnsureMoves
    <3>2. CASE Settle(c, "failed_safe") BY <1>2, <2>1, <3>2 DEF EnsureMoves, ReadyAnswers
    <3> QED BY <2>5, <3>1, <3>2 DEF PostRead
  <2>6. CASE Answer(c) BY <1>3, <2>1, <2>6 DEF Answer, At, EnsureMoves
  <2> QED BY <1>10, <2>1, <2>2, <2>3, <2>4, <2>5, <2>6 DEF AdminWork
<1>11. ASSUME NEW d \in Calls, CallFails(d) PROVE EnsureMoves(c) /\ EnsureFrame(c)
  <2>1. EnsureFrame(c) BY <1>6, <1>11 DEF CallFails
  <2>2. CASE d # c
    <3>1. \E s : Reply(d, s) \/ Settle(d, s) BY <1>11 DEF CallFails
    <3> QED BY <1>4, <2>1, <2>2, <3>1
  <2>3. CASE d = c /\ Settle(c, "failed_safe") BY <1>2, <2>1, <2>3 DEF EnsureMoves, ReadyAnswers
  <2>4. CASE d = c /\ \E o \in OnFailure(step[c]) : Reply(c, o)
    <3>1. PICK o \in OnFailure(step[c]) : Reply(c, o) BY <2>4
    <3>2. o \notin ReadyAnswers BY DEF OnFailure, ReadyAnswers
    <3> QED BY <1>3, <2>1, <3>1, <3>2 DEF EnsureMoves
  <2> QED BY <1>11, <2>2, <2>3, <2>4 DEF CallFails
<1>12. ASSUME RestartBot \/ RestartAdmin PROVE EnsureMoves(c) /\ EnsureFrame(c)
  <2>1. CASE RestartBot BY <1>c, <1>6, <1>12, <2>1 DEF RestartBot, Drop, EnsureMoves
  <2>2. CASE RestartAdmin BY <1>c, <1>6, <1>12, <2>2 DEF RestartAdmin, Drop, EnsureMoves, ReadyAnswers
  <2> QED BY <1>12, <2>1, <2>2
<1>13. ASSUME UNCHANGED calls PROVE EnsureMoves(c) /\ EnsureFrame(c)
  BY <1>6, <1>13 DEF EnsureMoves
<1>14. ASSUME NEW j \in Jobs, JobWork(j) \/ ReconcileFails(j) \/ JobDies(j) PROVE UNCHANGED calls
  BY <1>14 DEF JobWork, Start, Reconcile, Complete, RecordFailed, Finish, ReconcileFails, JobDies
<1>15. ASSUME Tick \/ UNCHANGED vars \/ \E u \in Users :
                 Bill(u) \/ \E k \in IssueKeys : OperatorIssues(u, k) \/ OperatorRevokes(u, k)
       PROVE  UNCHANGED calls
  BY <1>15 DEF Tick, vars, Bill, OperatorIssues, OperatorRevokes
<1> QED BY <1>7, <1>8, <1>9, <1>10, <1>11, <1>12, <1>13, <1>14, <1>15 DEF Next


\* What a call has read before it settles, and since it settled.
ReadyInv ==
    /\ TypeOK
    /\ \A c \in AdminCalls :
          /\ began[c] <= now
          /\ step[c] = "persist" =>
                rows[<<user[c], EnsureKey>>] = NoRow \/ InsertedSince(user[c], began[c])
          /\ step[c] = "postRead" /\ held[c] = TRUE => InsertedSince(user[c], began[c])
          /\ step[c] = "audit" /\ outcome[c] \in ReadyAnswers => c \in wasReady
          /\ step[c] = "audit" /\ outcome[c] = "issued_access" => InsertedSince(user[c], began[c])

\* A row keeps the time of its insert; one that is inserted, is inserted now.
LEMMA InsertedSinceStays ==
    ASSUME TypeOK, [Next]_vars, NEW u \in Users, NEW t \in Nat, t <= now
    PROVE  /\ InsertedSince(u, t) => InsertedSince(u, t)'
           /\ rows[<<u, EnsureKey>>] = NoRow =>
                rows'[<<u, EnsureKey>>] = NoRow \/ InsertedSince(u, t)'
<1> DEFINE x == <<u, EnsureKey>>
<1>1. x \in Users \X IssueKeys BY AccessAssumption
<1>2. RowMoves(x) BY <1>1, RowChanges
<1>3. now \in Nat /\ rows[x].created \in Nat BY <1>1, TypesOfTimes
<1>4. InsertedSince(u, t) <=> rows[x] # NoRow /\ rows[x].created >= t BY DEF InsertedSince
<1>5. InsertedSince(u, t)' <=> rows'[x] # NoRow /\ rows'[x].created >= t BY DEF InsertedSince
<1>6. NoRow.state = "none" BY DEF NoRow
<1> HIDE DEF x
<1>7. /\ InsertedSince(u, t) => InsertedSince(u, t)'
      /\ rows[x] = NoRow => rows'[x] = NoRow \/ InsertedSince(u, t)'
  <2>1. CASE rows'[x] = rows[x] BY <1>4, <1>5, <2>1
  <2>2. CASE rows[x] = NoRow /\ rows'[x].state = "issued" /\ rows'[x].created = now
    BY <1>3, <1>4, <1>5, <1>6, <2>2
  <2>3. CASE /\ rows[x].state = "issued" /\ rows'[x].state = "revoked"
             /\ rows'[x].created = rows[x].created
    BY <1>4, <1>5, <1>6, <2>3
  <2> QED BY <1>2, <2>1, <2>2, <2>3 DEF RowMoves
<1> QED BY <1>7 DEF x

\* After the insert there is a row, and it is no older than its absence was.
LEMMA InsertRowSince ==
    ASSUME TypeOK, NEW u \in Users, NEW t \in Nat, t <= now, InsertRow(u, EnsureKey),
           rows[<<u, EnsureKey>>] = NoRow
    PROVE  InsertedSince(u, t)'
<1> DEFINE entry == [state |-> "issued", created |-> now]
<1>1. entry # NoRow /\ entry.created = now
  <2>1. entry.state = "issued" /\ NoRow.state = "none" BY DEF NoRow
  <2> QED BY <2>1
<1>2. rows' = [rows EXCEPT ![<<u, EnsureKey>>] = entry] BY DEF InsertRow
<1>3. now \in Nat BY TypesOfTimes
<1> HIDE DEF entry
<1>4. rows'[<<u, EnsureKey>>] = entry BY <1>2, AccessAssumption DEF TypeOK
<1> QED BY <1>1, <1>3, <1>4 DEF InsertedSince

LEMMA NextReadyInv == ReadyInv /\ [WatchedNext]_watchedVars => ReadyInv'
<1> SUFFICES ASSUME ReadyInv, [WatchedNext]_watchedVars PROVE ReadyInv' OBVIOUS
<1>1. [Next]_vars BY DEF WatchedNext, watchedVars
<1>2. TypeOK /\ TypeOK' BY <1>1, NextTypeOK DEF ReadyInv
<1>3. now \in Nat /\ now' \in Nat /\ now <= now' BY <1>1, <1>2, TimeGrows
<1> SUFFICES ASSUME NEW c \in AdminCalls
             PROVE  /\ began'[c] <= now'
                    /\ step'[c] = "persist" =>
                          rows'[<<user'[c], EnsureKey>>] = NoRow \/ InsertedSince(user[c], began[c])'
                    /\ step'[c] = "postRead" /\ held'[c] = TRUE => InsertedSince(user[c], began[c])'
                    /\ step'[c] = "audit" /\ outcome'[c] \in ReadyAnswers => c \in wasReady'
                    /\ step'[c] = "audit" /\ outcome'[c] = "issued_access"
                          => InsertedSince(user[c], began[c])'
  BY <1>2 DEF ReadyInv
<1>c. c \in Calls BY DEF Calls
<1>4. EnsureMoves(c) /\ EnsureFrame(c) BY <1>1, <1>2, EnsureChanges
<1>5. began[c] \in Nat /\ began[c] <= now BY <1>2, <1>c, TypesOfTimes DEF ReadyInv
<1>6. began'[c] <= now' BY <1>3, <1>4, <1>5 DEF EnsureFrame
<1>7. CASE step'[c] = "readIssuance" BY <1>6, <1>7
<1>8. CASE step'[c] = "idle" BY <1>6, <1>8
<1>9. CASE step'[c] \notin {"readIssuance", "idle"}
  <2>1. user'[c] = user[c] /\ began'[c] = began[c] BY <1>4, <1>9 DEF EnsureFrame
  <2>2. user[c] \in Users BY <1>2, <1>c, <1>9, <2>1 DEF TypeOK
  <2> DEFINE u == user[c]
             t == began[c]
             Absent == rows[<<u, EnsureKey>>] = NoRow
             Absent2 == rows'[<<u, EnsureKey>>] = NoRow
  <2>3. InsertedSince(user[c], began[c])' <=> rows'[<<u, EnsureKey>>] # NoRow /\ rows'[<<u, EnsureKey>>].created >= t
    BY <2>1 DEF InsertedSince
  <2>4. /\ InsertedSince(u, t) => InsertedSince(user[c], began[c])'
        /\ Absent => Absent2 \/ InsertedSince(user[c], began[c])'
    <3>1. PICK v \in Users, m \in Nat : v = u /\ m = t BY <1>5, <2>2
    <3>2. /\ InsertedSince(v, m) => InsertedSince(v, m)'
          /\ rows[<<v, EnsureKey>>] = NoRow => rows'[<<v, EnsureKey>>] = NoRow \/ InsertedSince(v, m)'
      BY <1>1, <1>2, <1>5, <3>1, InsertedSinceStays
    <3>3. InsertedSince(v, m)' <=> rows'[<<v, EnsureKey>>] # NoRow /\ rows'[<<v, EnsureKey>>].created >= m
      BY DEF InsertedSince
    <3> QED BY <2>3, <3>1, <3>2, <3>3
  <2>5. CASE step'[c] = step[c] /\ held'[c] = held[c] /\ outcome'[c] = outcome[c]
    <3>1. c \in wasReady => c \in wasReady' BY <1>9, <2>5 DEF Watch, WatchedNext, watchedVars
    <3> QED BY <1>6, <2>1, <2>4, <2>5, <3>1 DEF ReadyInv
  <2>6. CASE step'[c] = "ensureFetch" BY <1>6, <2>6
  <2>7. CASE step'[c] = "persist" /\ Absent BY <1>6, <2>1, <2>4, <2>7
  <2>8. CASE step'[c] = "postRead" /\ held'[c] = FALSE BY <1>6, <2>8
  <2>9. CASE step[c] = "persist" /\ step'[c] = "postRead" /\ InsertRow(user[c], EnsureKey)
    <3>1. CASE InsertedSince(u, t) BY <1>6, <2>4, <2>9, <3>1
    <3>2. CASE Absent
      <4>1. PICK v \in Users, m \in Nat : v = u /\ m = t BY <1>5, <2>2
      <4>2. InsertedSince(v, m)' BY <1>2, <1>5, <2>9, <3>2, <4>1, InsertRowSince
      <4>3. InsertedSince(v, m)' <=> rows'[<<v, EnsureKey>>] # NoRow /\ rows'[<<v, EnsureKey>>].created >= m
        BY DEF InsertedSince
      <4> QED BY <1>6, <2>3, <2>9, <4>1, <4>2, <4>3
    <3> QED BY <2>9, <3>1, <3>2 DEF ReadyInv
  <2>10. CASE step'[c] = "audit" /\ outcome'[c] \notin ReadyAnswers BY <1>6, <2>10 DEF ReadyAnswers
  <2>11. CASE /\ step'[c] = "audit" /\ CurrentIssued(user[c]) /\ UNCHANGED <<rows, current>>
              /\ outcome'[c] = "issued_access" => step[c] = "postRead" /\ held[c] = TRUE
    <3>1. CASE UNCHANGED watchedVars
      <4>1. step'[c] = step[c] /\ held'[c] = held[c] /\ outcome'[c] = outcome[c]
        BY <3>1 DEF watchedVars, vars, calls
      <4> QED BY <2>5, <4>1
    <3>2. CASE Watch
      <4>1. CurrentIssued(user[c])' BY <2>1, <2>11 DEF CurrentIssued, Issued
      <4>2. c \in wasReady' BY <2>11, <3>2, <4>1 DEF Watch
      <4> QED BY <1>6, <2>4, <2>11, <4>2 DEF ReadyInv
    <3> QED BY <3>1, <3>2 DEF WatchedNext
  <2> QED BY <1>4, <1>9, <2>5, <2>6, <2>7, <2>8, <2>9, <2>10, <2>11 DEF EnsureMoves
<1> QED BY <1>7, <1>8, <1>9

LEMMA StepAnswersReadyTruly == ReadyInv /\ [WatchedNext]_watchedVars => AnswersReadyTruly
<1> SUFFICES ASSUME ReadyInv, [WatchedNext]_watchedVars, NEW c \in AdminCalls, step[c] # "idle",
                    step'[c] = "idle", outcome'[c] \in ReadyAnswers
             PROVE  /\ c \in wasReady
                    /\ outcome'[c] = "issued_access" => InsertedSince(user[c], began[c])
  BY DEF AnswersReadyTruly, Answers, ReadyAnswers
<1>1. [Next]_vars BY DEF WatchedNext, watchedVars
<1>2. EnsureMoves(c) BY <1>1, EnsureChanges DEF ReadyInv
<1>3. step[c] = "audit" /\ outcome'[c] = outcome[c] BY <1>2 DEF EnsureMoves
<1> QED BY <1>3 DEF ReadyInv

LEMMA InitReadyInv == WatchedInit => ReadyInv
  BY InitTypeOK DEF WatchedInit, Init, ReadyInv, Calls

\* An answer of ensure-access that access is ready was true at some moment of the
\* call, and "issued" speaks of a row that was inserted while it ran.
THEOREM ReadyIsTrue == WatchedSpec => ReadyAnswersAreTrue
<1>1. WatchedInit => ReadyInv BY InitReadyInv
<1>2. ReadyInv /\ [WatchedNext]_watchedVars => ReadyInv' BY NextReadyInv
<1>3. ReadyInv /\ [WatchedNext]_watchedVars => [AnswersReadyTruly]_watchedVars BY StepAnswersReadyTruly
<1> QED BY <1>1, <1>2, <1>3, PTL DEF WatchedSpec, ReadyAnswersAreTrue

=============================================================================
