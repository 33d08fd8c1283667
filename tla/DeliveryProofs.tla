--------------------------- MODULE DeliveryProofs ---------------------------
(* What holds of Delivery for every stream of updates, every number of     *)
(* tasks and any number of faults and restarts.                            *)
EXTENDS Delivery, FiniteSetTheorems, TLAPS

-----------------------------------------------------------------------------
(* The tables. *)

AfterUc01 == {"find", "keepSnapshot", "ledger", "pending", "sendWelcome", "mark"}

\* What a task has established for its /start by the step it awaits.
TaskMatches(t) ==
    /\ at[t] # "idle" => upd[t] \in Updates
    /\ at[t] = "idle" => upd[t] = Null
    /\ at[t] \in Uc01Steps \union AfterUc01 => upd[t] \in Starts
    /\ at[t] \in {"snapshot", "audit", "complete"} => Sender[upd[t]] \in identities
    /\ at[t] \in {"audit", "complete"} => Sender[upd[t]] \in snapshots
    /\ at[t] = "complete" => audits[upd[t]] > 0
    /\ at[t] \in AfterUc01 => idem[upd[t]] = "completed"
    /\ at[t] = "mark" => welcomes[upd[t]] > 0
TasksMatchTables == \A t \in Tasks : TaskMatches(t)

TablesInv == DeliveryTypeOK /\ TasksMatchTables /\ TablesTellTheTruth

\* The polling loop and its offset.
LEMMA FetchTypes ==
    ASSUME DeliveryTypeOK, Fetch PROVE offset' \in Nat \ {0} /\ batch' \subseteq Updates
  BY DeliveryAssumption DEF DeliveryTypeOK, Fetch, Fetched, Pending, Below, Advance

LEMMA Held ==
    ASSUME TablesInv, NEW t \in Tasks, at[t] # "idle"
    PROVE  /\ upd[t] \in Updates
           /\ at[t] \in Uc01Steps \union AfterUc01 => upd[t] \in Starts /\ Sender[upd[t]] \in Users
  BY DeliveryAssumption DEF TablesInv, TasksMatchTables, TaskMatches

\* What the parts of an action do to the types.
LEMMA PartTypes ==
    ASSUME DeliveryTypeOK, NEW t \in Tasks
    PROVE  /\ \A s \in Steps : Goto(t, s) => at' \in [Tasks -> Steps] /\ upd' = upd
           /\ \A s \in Steps, u \in Updates :
                 Hold(t, u, s) => at' \in [Tasks -> Steps] /\ upd' \in [Tasks -> Updates \union {Null}]
           /\ Free(t) => at' \in [Tasks -> Steps] /\ upd' \in [Tasks -> Updates \union {Null}]
           /\ \A u : Cut(u) => cut' \in [Updates -> Nat] /\ faults' \in Nat
           /\ \A u : Dispatched(u) => handled' \in [Updates -> Nat]
  BY DEF DeliveryTypeOK, Goto, Hold, Free, Cut, Fault, Dispatched, Steps, Uc01Steps

LEMMA TypeStep ==
    ASSUME TablesInv, [Next]_vars
    PROVE  DeliveryTypeOK'
<1> USE DEF TablesInv, DeliveryTypeOK, polling, tasks, tables, history, bounds
<1>1. CASE Fetch
  BY <1>1, FetchTypes DEF Fetch, Below
<1>2. CASE FetchFails
  BY <1>2 DEF FetchFails, Below, Fault
<1>3. CASE TakeNext
  BY <1>3, PartTypes, DeliveryAssumption DEF TakeNext, Entry, Steps, Uc01Steps
<1>4. ASSUME NEW t \in Tasks, NEW u \in Updates, Receive(t, u) PROVE DeliveryTypeOK'
  BY <1>4, PartTypes DEF Receive, Entry, Steps, Uc01Steps
<1>5. ASSUME NEW t \in Tasks, MarkSeen(t) \/ MarkSeenRefused(t) PROVE DeliveryTypeOK'
  <2>1. upd[t] \in Updates
    BY <1>5, Held DEF MarkSeen, MarkSeenRefused
  <2>2. /\ at' \in [Tasks -> Steps] /\ upd' \in [Tasks -> Updates \union {Null}]
        /\ cut' \in [Updates -> Nat] /\ faults' \in Nat
    BY <1>5, PartTypes DEF MarkSeen, MarkSeenRefused, Steps
  <2>3. QED
    BY <1>5, <2>1, <2>2 DEF MarkSeen, MarkSeenRefused
<1>6. ASSUME NEW t \in Tasks, Uc01(t) PROVE DeliveryTypeOK'
  <2>1. upd[t] \in Updates /\ Sender[upd[t]] \in Users
    BY <1>6, Held DEF Uc01, Begin, Find, KeepSnapshot, Create, PutSnapshot, AppendAudit, Complete,
                      Refused, Uc01Steps, AfterUc01
  <2>2. ASSUME NEW s \in Steps, Then(t, s)
        PROVE  /\ at' \in [Tasks -> Steps] /\ upd' = upd
               /\ cut' \in [Updates -> Nat] /\ faults' \in Nat /\ handled' \in [Updates -> Nat]
    BY <2>2, PartTypes DEF Then, Fail, Steps
  <2>3. /\ at' \in [Tasks -> Steps] /\ upd' = upd
        /\ cut' \in [Updates -> Nat] /\ faults' \in Nat /\ handled' \in [Updates -> Nat]
    BY <1>6, <2>2, PartTypes
       DEF Uc01, Begin, Find, KeepSnapshot, Create, PutSnapshot, AppendAudit, Complete, Refused,
           Fail, Steps, Uc01Steps
  <2>4. /\ idem' \in [Updates -> {"none", "open", "completed"}]
        /\ identities' \subseteq Users /\ snapshots' \subseteq Users
        /\ audits' \in [Updates -> Nat]
    BY <1>6, <2>1 DEF Uc01, Begin, Find, KeepSnapshot, Create, PutSnapshot, AppendAudit, Complete, Refused
  <2>5. Frame
    BY <1>6 DEF Uc01, Begin, Find, KeepSnapshot, Create, PutSnapshot, AppendAudit, Complete, Refused
  <2>6. QED
    BY <2>3, <2>4, <2>5 DEF Frame
<1>7. ASSUME NEW t \in Tasks, Serve(t) \/ ServeRaises(t) PROVE DeliveryTypeOK'
  BY <1>7, PartTypes DEF Serve, ServeRaises, Drop, Steps
<1>8. ASSUME NEW t \in Tasks, Send(t) PROVE DeliveryTypeOK'
  <2>1. upd[t] \in Updates
    BY <1>8, Held DEF Send, ReadLedger, EnsurePending, SendWelcome, MarkSent, SendOther, SendRefused, Done
  <2>2. CASE Done(t)
    BY <2>1, <2>2, PartTypes DEF Done, Fault
  <2>3. CASE ~Done(t)
    <3>1. /\ at' \in [Tasks -> Steps] /\ upd' = upd
          /\ cut' \in [Updates -> Nat] /\ faults' \in Nat
      BY <1>8, <2>3, PartTypes
         DEF Send, ReadLedger, EnsurePending, SendWelcome, MarkSent, SendOther, SendRefused, Drop, Steps
    <3>2. /\ ledger' \in [Updates -> {"none", "pending", "sent"}]
          /\ welcomes' \in [Updates -> Nat] /\ told' \subseteq Updates
      BY <1>8, <2>1, <2>3
         DEF Send, ReadLedger, EnsurePending, SendWelcome, MarkSent, SendOther, SendRefused
    <3>3. SendFrame
      BY <1>8, <2>3
         DEF Send, ReadLedger, EnsurePending, SendWelcome, MarkSent, SendOther, SendRefused
    <3>4. QED
      BY <3>1, <3>2, <3>3 DEF SendFrame
  <2>4. QED BY <2>2, <2>3
<1>9. CASE StopAndStart \/ Crash
  BY <1>9 DEF StopAndStart, Crash, Restart, Fault, Steps
<1>10. CASE UNCHANGED vars
  BY <1>10 DEF vars
<1>11. QED
  BY <1>1, <1>2, <1>3, <1>4, <1>5, <1>6, <1>7, <1>8, <1>9, <1>10 DEF Next, Poll, Work

\* Nothing in the tables is taken back, whichever step is next.
LEMMA TablesGrow ==
    ASSUME TablesInv, [Next]_vars
    PROVE  /\ identities \subseteq identities' /\ snapshots \subseteq snapshots'
           /\ \A u \in Updates : /\ audits[u] > 0 => audits'[u] > 0
                                 /\ welcomes[u] > 0 => welcomes'[u] > 0
                                 /\ handled[u] > 0 => handled'[u] > 0
                                 /\ cut[u] > 0 => cut'[u] > 0
           /\ told \subseteq told' /\ mode' = mode
           /\ RowStep
<1> USE DEF TablesInv, DeliveryTypeOK, RowStep, polling, tasks, tables, history, bounds
<1>1. ASSUME NEW t \in Tasks, Uc01(t)
      PROVE  /\ identities \subseteq identities' /\ snapshots \subseteq snapshots'
             /\ \A u \in Updates : /\ audits[u] > 0 => audits'[u] > 0
                                   /\ idem[u] = "completed" => idem'[u] = "completed"
                                   /\ handled[u] > 0 => handled'[u] > 0
                                   /\ cut[u] > 0 => cut'[u] > 0
             /\ Frame
  <2>1. upd[t] \in Updates
    BY <1>1, Held DEF Uc01, Begin, Find, KeepSnapshot, Create, PutSnapshot, AppendAudit, Complete,
                      Refused, Uc01Steps
  <2>2. /\ identities \subseteq identities' /\ snapshots \subseteq snapshots' /\ Frame
        /\ \A u \in Updates : /\ audits[u] > 0 => audits'[u] > 0
                              /\ idem[u] = "completed" => idem'[u] = "completed"
    BY <1>1, <2>1 DEF Uc01, Begin, Find, KeepSnapshot, Create, PutSnapshot, AppendAudit, Complete, Refused
  <2>3. \/ handled' = handled
        \/ Dispatched(upd[t])
    BY <1>1 DEF Uc01, Begin, Find, KeepSnapshot, Create, PutSnapshot, AppendAudit, Complete, Refused,
                Then, Fail
  <2>4. cut' = cut \/ Cut(upd[t])
    BY <1>1 DEF Uc01, Begin, Find, KeepSnapshot, Create, PutSnapshot, AppendAudit, Complete, Refused,
                Then, Fail
  <2>5. QED BY <2>2, <2>3, <2>4 DEF Dispatched, Cut
<1>2. ASSUME NEW t \in Tasks, Send(t)
      PROVE  /\ \A u \in Updates : /\ welcomes[u] > 0 => welcomes'[u] > 0
                                   /\ ledger[u] = "sent" => ledger'[u] = "sent"
                                   /\ ledger[u] = "pending" => ledger'[u] # "none"
                                   /\ cut[u] > 0 => cut'[u] > 0
             /\ told \subseteq told'
             /\ UNCHANGED <<idem, identities, snapshots, audits, handled, mode>>
  BY <1>2 DEF Send, ReadLedger, EnsurePending, SendWelcome, MarkSent, SendOther, SendRefused, Done,
              Drop, SendFrame, Cut
<1>3. ASSUME NEW t \in Tasks, MarkSeen(t) \/ MarkSeenRefused(t) \/ Serve(t) \/ ServeRaises(t)
      PROVE  /\ UNCHANGED <<idem, identities, snapshots, audits, ledger, welcomes, told, mode>>
             /\ \A u \in Updates : /\ handled[u] > 0 => handled'[u] > 0
                                   /\ cut[u] > 0 => cut'[u] > 0
  BY <1>3 DEF MarkSeen, MarkSeenRefused, Serve, ServeRaises, Drop, Dispatched, Cut
<1>4. ASSUME NEW t \in Tasks, NEW u \in Updates, Receive(t, u)
      PROVE  /\ UNCHANGED <<tables, welcomes, told, handled, mode>>
             /\ \A v \in Updates : cut[v] > 0 => cut'[v] > 0
  BY <1>4 DEF Receive, Cut
<1>5. ASSUME StopAndStart \/ Crash
      PROVE  /\ UNCHANGED <<tables, welcomes, told, handled, mode>>
             /\ \A u \in Updates : cut[u] > 0 => cut'[u] > 0
  BY <1>5 DEF StopAndStart, Crash, Restart
<1>6. ASSUME Poll \/ UNCHANGED vars PROVE UNCHANGED <<tables, history, mode>>
  BY <1>6 DEF Poll, Fetch, FetchFails, TakeNext, vars
<1>7. ASSUME NEW t \in Tasks, Work(t)
      PROVE  MarkSeen(t) \/ MarkSeenRefused(t) \/ Uc01(t) \/ Serve(t) \/ ServeRaises(t) \/ Send(t)
  BY <1>7 DEF Work
<1> DEFINE Grows ==
        /\ identities \subseteq identities' /\ snapshots \subseteq snapshots'
        /\ \A u \in Updates : /\ audits[u] > 0 => audits'[u] > 0
                              /\ welcomes[u] > 0 => welcomes'[u] > 0
                              /\ handled[u] > 0 => handled'[u] > 0
                              /\ cut[u] > 0 => cut'[u] > 0
        /\ told \subseteq told' /\ mode' = mode
        /\ RowStep
<1> HIDE DEF TablesInv, DeliveryTypeOK
<1>8. ASSUME NEW t \in Tasks, Work(t) PROVE Grows
  <2>1. CASE Uc01(t)
    BY <1>1, <2>1 DEF Frame
  <2>2. CASE Send(t)
    BY <1>2, <2>2
  <2>3. CASE MarkSeen(t) \/ MarkSeenRefused(t) \/ Serve(t) \/ ServeRaises(t)
    BY <1>3, <2>3
  <2>4. QED BY <1>7, <1>8, <2>1, <2>2, <2>3
<1>9. ASSUME NEW t \in Tasks, NEW u \in Updates, Receive(t, u) PROVE Grows
  BY <1>4, <1>9
<1>10. CASE StopAndStart \/ Crash
  BY <1>5, <1>10
<1>11. CASE Poll \/ UNCHANGED vars
  BY <1>6, <1>11
<1>12. QED
  BY <1>8, <1>9, <1>10, <1>11 DEF Next

\* A task's step leaves the other tasks where they are.
LEMMA OthersStay ==
    ASSUME TablesInv, NEW t \in Tasks, Work(t) \/ \E u \in Updates : Receive(t, u)
    PROVE  \A s \in Tasks \ {t} : at'[s] = at[s] /\ upd'[s] = upd[s]
<1>1. \/ \E step : Goto(t, step)
      \/ Free(t)
      \/ \E u, step : Hold(t, u, step)
  BY DEF Work, MarkSeen, MarkSeenRefused, Uc01, Begin, Find, KeepSnapshot, Create, PutSnapshot,
         AppendAudit, Complete, Refused, Then, Fail, Serve, ServeRaises, Send, ReadLedger, EnsurePending,
         SendWelcome, MarkSent, SendOther, SendRefused, Drop, Done, Receive
<1>2. QED BY <1>1 DEF Goto, Free, Hold, TablesInv, DeliveryTypeOK

\* What a task has established stays so while the task waits.
LEMMA WaitingMatches ==
    ASSUME TablesInv, [Next]_vars, NEW t \in Tasks, at'[t] = at[t], upd'[t] = upd[t]
    PROVE  TaskMatches(t)'
<1>1. TaskMatches(t)
  BY DEF TablesInv, TasksMatchTables
<1>2. upd[t] \in Starts => upd[t] \in Updates
  BY DeliveryAssumption
<1>3. at[t] # "idle" => upd[t] \in Updates
  BY <1>1 DEF TaskMatches
<1> DEFINE u == upd[t]
<1>4. /\ identities \subseteq identities' /\ snapshots \subseteq snapshots'
      /\ u \in Updates => /\ audits[u] > 0 => audits'[u] > 0
                          /\ welcomes[u] > 0 => welcomes'[u] > 0
                          /\ idem[u] = "completed" => idem'[u] = "completed"
  BY TablesGrow DEF RowStep
<1>5. QED
  BY <1>1, <1>2, <1>3, <1>4 DEF TaskMatches, AfterUc01, Uc01Steps

LEMMA WorkMatches ==
    ASSUME TablesInv, [Next]_vars, NEW t \in Tasks, Work(t)
    PROVE  TaskMatches(t)'
<1> USE DEF AfterUc01, Uc01Steps
<1>1. /\ TaskMatches(t) /\ at[t] # "idle" /\ upd[t] \in Updates
      /\ at \in [Tasks -> Steps] /\ upd \in [Tasks -> Updates \union {Null}]
  BY Held DEF TablesInv, TasksMatchTables, DeliveryTypeOK, Work, MarkSeen, MarkSeenRefused, Uc01, Begin,
         Find, KeepSnapshot, Create, PutSnapshot, AppendAudit, Complete, Refused, Serve, ServeRaises, Send, ReadLedger,
         EnsurePending, SendWelcome, MarkSent, SendOther, SendRefused, Done
<1>2. ASSUME Free(t) PROVE TaskMatches(t)'
  BY <1>1, <1>2 DEF TaskMatches, Free
<1>3. ASSUME NEW step \in {"sendOther", "done", "serve"}, Goto(t, step) PROVE TaskMatches(t)'
  BY <1>1, <1>3 DEF TaskMatches, Goto
<1>4. ASSUME Uc01(t) PROVE TaskMatches(t)'
  <2>1. ASSUME NEW step \in Steps \ {"idle"}, Then(t, step), ~Fail(t)
        PROVE  at'[t] = step /\ upd'[t] = upd[t] /\ upd[t] \in Starts
    BY <1>1, <1>4, <2>1 DEF Then, Goto, TaskMatches, Uc01, Begin, Find, KeepSnapshot, Create, PutSnapshot,
           AppendAudit, Complete, Refused
  <2>2. CASE Fail(t)
    BY <1>3, <2>2 DEF Fail
  <2>3. CASE Refused(t)
    BY <2>2, <2>3 DEF Refused
  <2>4. CASE Begin(t) /\ ~Fail(t)
    <3>1. at'[t] \in {"find", "create"} /\ upd'[t] = upd[t] /\ upd[t] \in Starts
          /\ (at'[t] = "find" => idem[upd[t]] = "completed")
      BY <2>1, <2>4 DEF Begin, Steps
    <3>2. QED BY <1>1, <3>1, TablesGrow DEF TaskMatches, RowStep
  <2>5. CASE Find(t) /\ ~Fail(t)
    <3>1. CASE Sender[upd[t]] \in identities
      <4>1. at'[t] = "keepSnapshot" /\ upd'[t] = upd[t] /\ upd[t] \in Starts /\ idem' = idem
        BY <2>1, <2>5, <3>1 DEF Find, Steps
      <4>2. QED BY <1>1, <2>5, <4>1 DEF TaskMatches, Find
    <3>2. CASE Sender[upd[t]] \notin identities
      BY <1>3, <2>5, <3>2 DEF Find
    <3>3. QED BY <3>1, <3>2
  <2>6. CASE KeepSnapshot(t) /\ ~Fail(t)
    BY <1>1, <2>6 DEF KeepSnapshot, Goto, TaskMatches
  <2>7. CASE Create(t) /\ ~Fail(t)
    <3>1. at'[t] = "snapshot" /\ upd'[t] = upd[t] /\ upd[t] \in Starts
          /\ Sender[upd[t]] \in identities'
      BY <2>1, <2>7 DEF Create, Steps
    <3>2. QED BY <1>1, <3>1 DEF TaskMatches
  <2>8. CASE PutSnapshot(t) /\ ~Fail(t)
    <3>1. at'[t] = "audit" /\ upd'[t] = upd[t] /\ upd[t] \in Starts
          /\ Sender[upd[t]] \in snapshots' /\ identities' = identities
      BY <2>1, <2>8 DEF PutSnapshot, Steps
    <3>2. QED BY <1>1, <2>8, <3>1 DEF TaskMatches, PutSnapshot
  <2>9. CASE AppendAudit(t) /\ ~Fail(t)
    <3>1. at'[t] = "complete" /\ upd'[t] = upd[t] /\ upd[t] \in Starts
          /\ audits'[upd[t]] > 0 /\ identities' = identities /\ snapshots' = snapshots
      BY <1>1, <2>1, <2>9 DEF AppendAudit, Steps, TablesInv, DeliveryTypeOK
    <3>2. QED BY <1>1, <2>9, <3>1 DEF TaskMatches, AppendAudit
  <2>10. CASE Complete(t) /\ ~Fail(t)
    BY <1>1, <2>10 DEF Complete, Goto, TaskMatches, TablesInv, DeliveryTypeOK
  <2>11. QED
    BY <1>4, <2>2, <2>3, <2>4, <2>5, <2>6, <2>7, <2>8, <2>9, <2>10 DEF Uc01
<1>5. ASSUME Send(t) PROVE TaskMatches(t)'
  <2>1. CASE Done(t)
    BY <1>2, <2>1 DEF Done
  <2>2. CASE ~Done(t)
    <3>1. \/ Goto(t, "done")
          \/ /\ Goto(t, "pending") \/ Goto(t, "sendWelcome")
             /\ at[t] \in AfterUc01
          \/ Goto(t, "mark") /\ at[t] \in AfterUc01 /\ SendWelcome(t)
      BY <1>5, <2>2 DEF Send, ReadLedger, EnsurePending, SendWelcome, MarkSent, SendOther, SendRefused,
                        Drop
    <3>2. idem' = idem
      BY <1>5, <2>2 DEF Send, ReadLedger, EnsurePending, SendWelcome, MarkSent, SendOther, SendRefused,
                        SendFrame
    <3>3. SendWelcome(t) => welcomes'[upd[t]] > 0
      BY <1>1 DEF SendWelcome, TablesInv, DeliveryTypeOK
    <3>4. QED BY <1>1, <1>3, <3>1, <3>2, <3>3 DEF Goto, TaskMatches
  <2>3. QED BY <2>1, <2>2
<1>6. QED
  BY <1>2, <1>3, <1>4, <1>5 DEF Work, MarkSeen, MarkSeenRefused, Serve, ServeRaises, Drop

LEMMA TasksStillMatch ==
    ASSUME TablesInv, [Next]_vars PROVE TasksMatchTables'
<1>1. ASSUME NEW t \in Tasks, Work(t) PROVE TasksMatchTables'
  BY <1>1, WorkMatches, WaitingMatches, OthersStay DEF TasksMatchTables
<1>2. ASSUME NEW t \in Tasks, NEW u \in Updates, Hold(t, u, Entry(u)) \/ Hold(t, u, "dedup")
      PROVE TaskMatches(t)'
  BY <1>2 DEF Hold, Entry, TaskMatches, TablesInv, DeliveryTypeOK, AfterUc01, Uc01Steps
<1>3. ASSUME NEW t \in Tasks, NEW u \in Updates, Receive(t, u) PROVE TasksMatchTables'
  <2>1. TaskMatches(t)'
    BY <1>2, <1>3 DEF Receive
  <2>2. QED BY <1>3, <2>1, WaitingMatches, OthersStay DEF TasksMatchTables
<1>4. CASE TakeNext
  <2>1. \E u \in Updates : Hold(Poller, u, Entry(u))
    BY <1>4 DEF TakeNext, TablesInv, DeliveryTypeOK
  <2>2. \A s \in Tasks \ {Poller} : at'[s] = at[s] /\ upd'[s] = upd[s]
    BY <2>1 DEF Hold, TablesInv, DeliveryTypeOK
  <2>3. QED BY <1>2, <2>1, <2>2, WaitingMatches, DeliveryAssumption DEF TasksMatchTables
<1>5. CASE Fetch \/ FetchFails \/ UNCHANGED vars
  BY <1>5, WaitingMatches DEF Fetch, FetchFails, vars, tasks, TasksMatchTables
<1>6. CASE StopAndStart \/ Crash
  BY <1>6 DEF StopAndStart, Crash, Restart, TasksMatchTables, TaskMatches, AfterUc01, Uc01Steps
<1>7. QED BY <1>1, <1>3, <1>4, <1>5, <1>6 DEF Next, Poll

LEMMA TablesStayTrue ==
    ASSUME TablesInv, [Next]_vars PROVE TablesTellTheTruth'
<1> DEFINE True(u) == /\ (idem[u] = "completed" =>
                            Sender[u] \in identities /\ Sender[u] \in snapshots /\ audits[u] > 0)
                      /\ (ledger[u] # "none" => idem[u] = "completed")
                      /\ (ledger[u] = "sent" => welcomes[u] > 0)
<1>1. \A u \in Starts : True(u) /\ u \in Updates
  BY DeliveryAssumption DEF TablesInv, TablesTellTheTruth
<1>2. ASSUME UNCHANGED <<idem, ledger>> PROVE TablesTellTheTruth'
  BY <1>1, <1>2, TablesGrow DEF TablesTellTheTruth
<1>3. ASSUME NEW t \in Tasks, Uc01(t) PROVE TablesTellTheTruth'
  <2>1. TaskMatches(t) /\ upd[t] \in Updates
    BY <1>3, Held DEF TablesInv, TasksMatchTables, Uc01, Begin, Find, KeepSnapshot, Create, PutSnapshot,
                      AppendAudit, Complete, Refused, Uc01Steps
  <2>2. CASE Begin(t)
    <3>1. \A u \in Updates : idem'[u] = "completed" => idem[u] = "completed"
      BY <2>1, <2>2 DEF Begin, TablesInv, DeliveryTypeOK
    <3>2. ledger' = ledger
      BY <2>2 DEF Begin, Frame
    <3>3. QED BY <1>1, <3>1, <3>2, TablesGrow DEF TablesTellTheTruth, RowStep
  <2>3. CASE Complete(t)
    <3>1. \A u \in Updates : idem'[u] = "completed" => idem[u] = "completed" \/ u = upd[t]
      BY <2>1, <2>3 DEF Complete, TablesInv, DeliveryTypeOK
    <3>2. /\ Sender[upd[t]] \in identities /\ Sender[upd[t]] \in snapshots /\ audits[upd[t]] > 0
          /\ ledger' = ledger
      BY <2>1, <2>3 DEF Complete, Frame, TaskMatches
    <3>3. QED BY <1>1, <3>1, <3>2, TablesGrow DEF TablesTellTheTruth, RowStep
  <2>4. CASE ~Begin(t) /\ ~Complete(t)
    BY <1>2, <1>3, <2>4 DEF Uc01, Find, KeepSnapshot, Create, PutSnapshot, AppendAudit, Refused, Frame
  <2>5. QED BY <2>2, <2>3, <2>4
<1>4. ASSUME NEW t \in Tasks, Send(t) PROVE TablesTellTheTruth'
  <2>1. CASE EnsurePending(t) \/ MarkSent(t)
    <3>1. /\ idem[upd[t]] = "completed" /\ upd[t] \in Updates
          /\ MarkSent(t) => welcomes[upd[t]] > 0
      BY <2>1, Held DEF EnsurePending, MarkSent, TablesInv, TasksMatchTables, TaskMatches, AfterUc01
    <3>2. \A u \in Updates :
             /\ (ledger'[u] # "none" => ledger[u] # "none" \/ u = upd[t])
             /\ (ledger'[u] = "sent" => ledger[u] = "sent" \/ (u = upd[t] /\ MarkSent(t)))
      BY <2>1, <3>1 DEF EnsurePending, MarkSent, TablesInv, DeliveryTypeOK
    <3>3. idem' = idem
      BY <2>1 DEF EnsurePending, MarkSent, SendFrame
    <3>4. QED BY <1>1, <3>1, <3>2, <3>3, TablesGrow DEF TablesTellTheTruth
  <2>2. CASE ~EnsurePending(t) /\ ~MarkSent(t)
    BY <1>2, <1>4, <2>2 DEF Send, ReadLedger, SendWelcome, SendOther, SendRefused, Done, SendFrame, tables
  <2>3. QED BY <2>1, <2>2
<1>5. ASSUME NEW t \in Tasks, MarkSeen(t) \/ MarkSeenRefused(t) \/ Serve(t) \/ ServeRaises(t) PROVE TablesTellTheTruth'
  BY <1>2, <1>5 DEF MarkSeen, MarkSeenRefused, Serve, ServeRaises, tables
<1>6. CASE Poll \/ StopAndStart \/ Crash \/ UNCHANGED vars \/ \E t \in Tasks, u \in Updates : Receive(t, u)
  BY <1>2, <1>6 DEF Poll, Fetch, FetchFails, TakeNext, StopAndStart, Crash, Restart, Receive, vars, tables
<1>7. QED
  BY <1>3, <1>4, <1>5, <1>6 DEF Next, Work

LEMMA TablesStart == Init => TablesInv
  BY DeliveryAssumption DEF Init, TablesInv, DeliveryTypeOK, TasksMatchTables, TaskMatches,
     TablesTellTheTruth, Steps, Uc01Steps, AfterUc01

LEMMA TablesInvariant == Spec => []TablesInv
<1>1. TablesInv /\ [Next]_vars => TablesInv'
  BY TypeStep, TasksStillMatch, TablesStayTrue DEF TablesInv
<1>2. QED BY <1>1, TablesStart, PTL DEF Spec

\* Updates, tasks, tables and counters keep their types.
THEOREM DeliveryTypesCorrect == Spec => []DeliveryTypeOK
  BY TablesInvariant, PTL DEF TablesInv

\* A completed key has its identity, snapshot and audit row, and a sent row
\* its message, whatever was cut off or ran at the same time.
THEOREM TablesAreTrue == Spec => []TablesTellTheTruth
  BY TablesInvariant, PTL DEF TablesInv

\* A key stays completed, and a sent row stays sent.
THEOREM DeliveryRowsOnlyMoveForward == Spec => DeliveryRowsMoveForward
<1>1. TablesInv /\ [Next]_vars => [RowStep]_vars
  BY TablesGrow
<1>2. QED BY <1>1, TablesInvariant, PTL DEF Spec, DeliveryRowsMoveForward

-----------------------------------------------------------------------------
(* Confirmed updates. *)

DispatchedOrSwallowed(u) ==
    \/ handled[u] > 0
    \/ cut[u] > 0 /\ (u \in Resends \/ (u \in Mutating /\ mode = "webhook"))
Answered(u) == welcomes[u] > 0 \/ u \in told \/ cut[u] > 0
Settled(u) == DispatchedOrSwallowed(u) /\ Answered(u)

Sending == {"ledger", "pending", "sendWelcome", "mark", "sendOther", "done"}

\* Two tasks hold one update only after an overlapping request, which counts.
OverlapIsCut ==
    \A s, t \in Tasks : s # t /\ upd[s] = upd[t] /\ upd[t] # Null => cut[upd[t]] > 0

TaskDispatches(t) ==
    /\ at[t] = "dedup" => upd[t] \in Mutating /\ mode = "webhook"
    /\ at[t] \in Sending => DispatchedOrSwallowed(upd[t])
    /\ at[t] = "done" => Answered(upd[t])
TasksDispatch == \A t \in Tasks : TaskDispatches(t)

OnlyThePollerPolls == mode = "polling" => \A t \in Tasks \ {Poller} : at[t] = "idle"

\* A completed key without a ledger row belongs to a task about to insert
\* one, or to a task that was cut.
CompletedIsPending ==
    \A u \in Starts : idem[u] = "completed" /\ ledger[u] = "none" =>
        cut[u] > 0 \/ \E t \in Tasks : upd[t] = u /\ at[t] = "pending"

\* A mark that is seen belongs to a settled update, or to a task that settles it.
SeenIsServed ==
    \A u \in seen : /\ u \in Mutating /\ mode = "webhook"
                    /\ Settled(u) \/ \E t \in Tasks : upd[t] = u /\ at[t] \in {"serve", "sendOther"}

\* The offset passes an update only with the batch it is in.
PassedIsSettled ==
    mode = "polling" => \A u \in Updates : u < offset /\ u \notin batch => Settled(u)

ConfirmedInv == /\ TablesInv /\ OverlapIsCut /\ TasksDispatch /\ OnlyThePollerPolls
                /\ CompletedIsPending /\ SeenIsServed /\ PassedIsSettled /\ ConfirmedMeansHandled

\* What is settled stays so.
LEMMA SettledStays ==
    ASSUME TablesInv, [Next]_vars
    PROVE  /\ \A u \in Updates : /\ DispatchedOrSwallowed(u) => DispatchedOrSwallowed(u)'
                                 /\ Answered(u) => Answered(u)'
                                 /\ Settled(u) => Settled(u)'
           /\ mode' = mode
  BY TablesGrow DEF DispatchedOrSwallowed, Answered, Settled

\* A task's step keeps its update, or lets go of it.
LEMMA KeepsOrFrees ==
    ASSUME TablesInv, NEW t \in Tasks, Work(t)
    PROVE  /\ at[t] # "idle" /\ upd[t] \in Updates
           /\ upd'[t] = upd[t] \/ (upd'[t] = Null /\ at'[t] = "idle")
<1>1. at[t] # "idle"
  BY DEF Work, MarkSeen, MarkSeenRefused, Uc01, Begin, Find, KeepSnapshot, Create, PutSnapshot,
         AppendAudit, Complete, Refused, Uc01Steps, Serve, ServeRaises, Send, ReadLedger, EnsurePending, SendWelcome,
         MarkSent, SendOther, SendRefused, Done
<1>2. Free(t) \/ \E step : Goto(t, step)
  BY DEF Work, MarkSeen, MarkSeenRefused, Uc01, Begin, Find, KeepSnapshot, Create, PutSnapshot,
         AppendAudit, Complete, Refused, Then, Fail, Serve, ServeRaises, Send, ReadLedger, EnsurePending,
         SendWelcome, MarkSent, SendOther, SendRefused, Drop, Done
<1>3. QED BY <1>1, <1>2, Held DEF Free, Goto, TablesInv, DeliveryTypeOK

LEMMA OverlapStaysCut ==
    ASSUME ConfirmedInv, [Next]_vars PROVE OverlapIsCut'
<1>1. \A t \in Tasks : upd[t] \in Updates \union {Null}
  BY DEF ConfirmedInv, TablesInv, DeliveryTypeOK
<1>2. \A u \in Updates : cut[u] > 0 => cut'[u] > 0
  BY TablesGrow DEF ConfirmedInv
<1>3. ASSUME NEW t \in Tasks, Work(t) PROVE OverlapIsCut'
  BY <1>1, <1>2, <1>3, KeepsOrFrees, OthersStay DEF ConfirmedInv, OverlapIsCut
<1>4. ASSUME NEW t \in Tasks, NEW u \in Updates, Receive(t, u) PROVE OverlapIsCut'
  <2>1. upd'[t] = u /\ \A s \in Tasks \ {t} : upd'[s] = upd[s]
    BY <1>4 DEF Receive, Hold, ConfirmedInv, TablesInv, DeliveryTypeOK
  <2>2. (\E s \in Tasks : upd[s] = u) => cut'[u] > 0
    BY <1>4 DEF Receive, Cut, ConfirmedInv, TablesInv, DeliveryTypeOK
  <2>3. QED BY <1>1, <1>2, <2>1, <2>2 DEF ConfirmedInv, OverlapIsCut
<1>5. CASE TakeNext
  <2>1. \A s \in Tasks \ {Poller} : upd'[s] = Null
    BY <1>5 DEF TakeNext, Hold, ConfirmedInv, TablesInv, DeliveryTypeOK, OnlyThePollerPolls,
                TasksMatchTables, TaskMatches
  <2>2. QED BY <2>1 DEF OverlapIsCut
<1>6. CASE Fetch \/ FetchFails \/ UNCHANGED vars
  BY <1>6 DEF Fetch, FetchFails, vars, tasks, history, ConfirmedInv, OverlapIsCut
<1>7. CASE StopAndStart \/ Crash
  BY <1>7 DEF StopAndStart, Crash, Restart, OverlapIsCut
<1>8. QED BY <1>3, <1>4, <1>5, <1>6, <1>7 DEF Next, Poll

LEMMA OnlyThePollerStays ==
    ASSUME ConfirmedInv, [Next]_vars PROVE OnlyThePollerPolls'
<1> USE DEF ConfirmedInv, TablesInv, OnlyThePollerPolls
<1>1. mode' = mode
  BY SettledStays
<1>2. ASSUME NEW t \in Tasks, Work(t) PROVE OnlyThePollerPolls'
  BY <1>1, <1>2, KeepsOrFrees, OthersStay
<1>3. ASSUME NEW t \in Tasks, NEW u \in Updates, Receive(t, u) PROVE OnlyThePollerPolls'
  BY <1>1, <1>3 DEF Receive
<1>4. CASE TakeNext
  BY <1>1, <1>4 DEF TakeNext, Hold, DeliveryTypeOK
<1>5. CASE Fetch \/ FetchFails \/ UNCHANGED vars \/ StopAndStart \/ Crash
  BY <1>1, <1>5 DEF Fetch, FetchFails, vars, tasks, StopAndStart, Crash, Restart
<1>6. QED BY <1>2, <1>3, <1>4, <1>5 DEF Next, Poll

\* A mark that the guard finds is of an update that is settled, or held by two tasks.
LEMMA SeenIsSettled ==
    ASSUME ConfirmedInv, NEW t \in Tasks, at[t] = "dedup", upd[t] \in seen
    PROVE  Settled(upd[t])
<1>1. upd[t] \in Mutating /\ mode = "webhook" /\ upd[t] # Null
  BY NoUpdate, DeliveryAssumption DEF ConfirmedInv, SeenIsServed
<1>2. CASE \E s \in Tasks : upd[s] = upd[t] /\ at[s] \in {"serve", "sendOther"}
  <2>1. cut[upd[t]] > 0
    BY <1>1, <1>2 DEF ConfirmedInv, OverlapIsCut
  <2>2. QED BY <1>1, <2>1 DEF Settled, DispatchedOrSwallowed, Answered
<1>3. QED BY <1>2 DEF ConfirmedInv, SeenIsServed

\* A replay stays silent when the message was sent, or when a task was cut.
LEMMA SilentIsAnswered ==
    ASSUME ConfirmedInv, NEW t \in Tasks, at[t] = "ledger", ledger[upd[t]] # "pending"
    PROVE  Answered(upd[t])
<1>1. upd[t] \in Starts /\ upd[t] \in Updates /\ upd[t] # Null /\ idem[upd[t]] = "completed"
  BY NoUpdate, DeliveryAssumption
     DEF ConfirmedInv, TablesInv, TasksMatchTables, TaskMatches, AfterUc01
<1>2. CASE ledger[upd[t]] = "sent"
  BY <1>1, <1>2 DEF ConfirmedInv, TablesInv, TablesTellTheTruth, Answered
<1>3. CASE ledger[upd[t]] = "none"
  <2>1. CASE \E s \in Tasks : upd[s] = upd[t] /\ at[s] = "pending"
    BY <1>1, <2>1 DEF ConfirmedInv, OverlapIsCut, Answered
  <2>2. QED BY <1>1, <1>3, <2>1 DEF ConfirmedInv, CompletedIsPending, Answered
<1>4. QED BY <1>1, <1>2, <1>3 DEF ConfirmedInv, TablesInv, DeliveryTypeOK

LEMMA WaitingDispatches ==
    ASSUME ConfirmedInv, [Next]_vars, NEW t \in Tasks, at'[t] = at[t], upd'[t] = upd[t]
    PROVE  TaskDispatches(t)'
<1>1. TaskDispatches(t) /\ (at[t] # "idle" => upd[t] \in Updates)
  BY Held DEF ConfirmedInv, TasksDispatch
<1>2. QED
  BY <1>1, SettledStays DEF ConfirmedInv, TaskDispatches, Sending, DispatchedOrSwallowed, Answered

LEMMA WorkDispatches ==
    ASSUME ConfirmedInv, [Next]_vars, NEW t \in Tasks, Work(t)
    PROVE  TaskDispatches(t)'
<1> USE DEF Sending
<1>1. /\ TaskDispatches(t) /\ upd[t] \in Updates /\ TablesInv
      /\ at \in [Tasks -> Steps] /\ upd \in [Tasks -> Updates \union {Null}]
      /\ handled \in [Updates -> Nat] /\ cut \in [Updates -> Nat]
  BY KeepsOrFrees DEF ConfirmedInv, TasksDispatch, TablesInv, DeliveryTypeOK
<1>2. ASSUME Free(t) PROVE TaskDispatches(t)'
  BY <1>1, <1>2 DEF Free, TaskDispatches
<1>3. ASSUME NEW step \in Uc01Steps \union {"serve"}, Goto(t, step) PROVE TaskDispatches(t)'
  BY <1>1, <1>3 DEF Goto, TaskDispatches, Uc01Steps
<1>4. ASSUME NEW step \in {"ledger", "pending", "sendOther"}, Goto(t, step), Dispatched(upd[t])
      PROVE  TaskDispatches(t)'
  <2>1. handled'[upd[t]] > 0
    BY <1>1, <1>4 DEF Dispatched
  <2>2. QED BY <1>1, <1>4, <2>1 DEF Goto, TaskDispatches, DispatchedOrSwallowed
<1>5. ASSUME NEW step \in Sending \ {"done"}, Goto(t, step), at[t] \in Sending
      PROVE  TaskDispatches(t)'
  BY <1>1, <1>5, SettledStays DEF Goto, TaskDispatches
<1>6. ASSUME Goto(t, "done"), DispatchedOrSwallowed(upd[t]), Answered(upd[t])'
      PROVE  TaskDispatches(t)'
  <2>1. DispatchedOrSwallowed(upd[t])'
    <3>1. upd'[t] = upd[t]
      BY <1>6 DEF Goto
    <3>2. QED BY <1>1, <1>6, <3>1, SettledStays DEF DispatchedOrSwallowed
  <2>2. QED BY <1>1, <1>6, <2>1 DEF Goto, TaskDispatches
<1>7. ASSUME Uc01(t) PROVE TaskDispatches(t)'
  <2>1. \/ \E step \in Uc01Steps : Goto(t, step)
        \/ \E step \in {"ledger", "pending", "sendOther"} : Goto(t, step) /\ Dispatched(upd[t])
    BY <1>7 DEF Uc01, Begin, Find, KeepSnapshot, Create, PutSnapshot, AppendAudit, Complete, Refused,
                Then, Fail, Uc01Steps
  <2>2. QED BY <1>3, <1>4, <2>1
<1>8. ASSUME MarkSeen(t) \/ MarkSeenRefused(t) PROVE TaskDispatches(t)'
  <2>1. CASE MarkSeen(t) /\ upd[t] \in seen /\ Goto(t, "done")
    <3>1. Settled(upd[t])
      BY <2>1, SeenIsSettled DEF MarkSeen
    <3>2. upd'[t] = upd[t]
      BY <2>1 DEF Goto
    <3>3. Answered(upd[t])'
      BY <1>1, <3>1, <3>2, SettledStays DEF Settled, Answered
    <3>4. QED BY <1>6, <2>1, <3>1, <3>3 DEF Settled
  <2>2. QED BY <1>2, <1>3, <1>8, <2>1 DEF MarkSeen, MarkSeenRefused
<1>9. ASSUME Send(t) PROVE TaskDispatches(t)'
  <2>1. CASE Done(t)
    BY <1>2, <2>1 DEF Done
  <2>2. CASE ~Done(t)
    <3>1. at[t] \in Sending /\ DispatchedOrSwallowed(upd[t])
      BY <1>1, <1>9, <2>2 DEF TaskDispatches, Send, ReadLedger, EnsurePending, SendWelcome, MarkSent,
                              SendOther, SendRefused
    <3>2. CASE Goto(t, "done")
      <4>1. upd'[t] = upd[t]
        BY <3>2 DEF Goto
      <4>2. CASE Cut(upd[t])
        <5>1. cut'[upd[t]] > 0
          BY <1>1, <4>2 DEF Cut
        <5>2. QED BY <1>6, <3>1, <3>2, <4>1, <5>1 DEF Answered
      <4>3. CASE MarkSent(t)
        <5>1. welcomes[upd[t]] > 0
          BY <1>1, <4>3 DEF MarkSent, TablesInv, TasksMatchTables, TaskMatches
        <5>2. QED BY <1>1, <1>6, <3>1, <3>2, <4>1, <5>1, TablesGrow DEF Answered
      <4>4. CASE SendOther(t)
        <5>1. upd[t] \in told'
          BY <4>4 DEF SendOther
        <5>2. QED BY <1>6, <3>1, <3>2, <4>1, <5>1 DEF Answered
      <4>5. CASE ReadLedger(t) /\ ledger[upd[t]] # "pending"
        <5>1. Answered(upd[t])
          BY <4>5, SilentIsAnswered DEF ReadLedger
        <5>2. Answered(upd[t])'
          BY <1>1, <4>1, <5>1, SettledStays DEF Answered
        <5>3. QED BY <1>6, <3>1, <3>2, <5>2
      <4>6. QED
        BY <1>1, <1>9, <2>2, <3>2, <4>2, <4>3, <4>4, <4>5
           DEF Send, ReadLedger, EnsurePending, SendWelcome, SendRefused, Drop, Goto, Steps
    <3>3. CASE \E step \in Sending \ {"done"} : Goto(t, step)
      BY <1>5, <3>1, <3>3
    <3>4. QED
      BY <1>9, <2>2, <3>2, <3>3 DEF Send, ReadLedger, EnsurePending, SendWelcome, MarkSent, SendOther,
                                    SendRefused, Drop
  <2>3. QED BY <2>1, <2>2
<1>10. ASSUME ServeRaises(t) PROVE TaskDispatches(t)'
  <2>1. upd[t] \in Resends /\ Goto(t, "done") /\ Cut(upd[t])
    BY <1>10 DEF ServeRaises, Drop
  <2>2. upd'[t] = upd[t] /\ cut'[upd[t]] > 0
    BY <1>1, <2>1 DEF Goto, Cut
  <2>3. DispatchedOrSwallowed(upd[t])' /\ Answered(upd[t])'
    BY <2>1, <2>2 DEF DispatchedOrSwallowed, Answered
  <2>4. QED BY <1>1, <2>1, <2>3 DEF Goto, TaskDispatches
<1>11. QED
  BY <1>4, <1>7, <1>8, <1>9, <1>10 DEF Work, Serve

LEMMA TasksStillDispatch ==
    ASSUME ConfirmedInv, [Next]_vars PROVE TasksDispatch'
<1>1. ASSUME NEW t \in Tasks, Work(t) PROVE TasksDispatch'
  BY <1>1, WorkDispatches, WaitingDispatches, OthersStay DEF TasksDispatch, ConfirmedInv
<1>2. ASSUME NEW t \in Tasks, NEW u \in Updates, Hold(t, u, Entry(u)) PROVE TaskDispatches(t)'
  BY <1>2 DEF Hold, Entry, TaskDispatches, Sending, ConfirmedInv, TablesInv, DeliveryTypeOK
<1>3. ASSUME NEW t \in Tasks, NEW u \in Updates, Receive(t, u) PROVE TasksDispatch'
  <2>1. TaskDispatches(t)'
    <3>1. CASE u \in Mutating
      BY <1>3, <3>1 DEF Receive, Hold, TaskDispatches, Sending, ConfirmedInv, TablesInv, DeliveryTypeOK
    <3>2. QED BY <1>2, <1>3, <3>1 DEF Receive
  <2>2. QED BY <1>3, <2>1, WaitingDispatches, OthersStay DEF TasksDispatch, ConfirmedInv
<1>4. CASE TakeNext
  <2>1. \E u \in Updates : Hold(Poller, u, Entry(u))
    BY <1>4 DEF TakeNext, ConfirmedInv, TablesInv, DeliveryTypeOK
  <2>2. \A s \in Tasks \ {Poller} : at'[s] = at[s] /\ upd'[s] = upd[s]
    BY <2>1 DEF Hold, ConfirmedInv, TablesInv, DeliveryTypeOK
  <2>3. QED BY <1>2, <2>1, <2>2, WaitingDispatches, DeliveryAssumption DEF TasksDispatch
<1>5. CASE Fetch \/ FetchFails \/ UNCHANGED vars
  BY <1>5, WaitingDispatches DEF Fetch, FetchFails, vars, tasks, TasksDispatch
<1>6. CASE StopAndStart \/ Crash
  BY <1>6 DEF StopAndStart, Crash, Restart, TasksDispatch, TaskDispatches, Sending
<1>7. QED BY <1>1, <1>3, <1>4, <1>5, <1>6 DEF Next, Poll

\* What a step does to the tasks at a given step: they go on, or are cut.
LEMMA PendingGoesOn ==
    ASSUME ConfirmedInv, [Next]_vars, NEW t \in Tasks, at[t] = "pending", upd[t] \in Starts
    PROVE  \/ at'[t] = "pending" /\ upd'[t] = upd[t]
           \/ ledger'[upd[t]] # "none"
           \/ cut'[upd[t]] > 0
<1> USE DEF ConfirmedInv, TablesInv, DeliveryTypeOK
<1>1. upd[t] \in Updates
  BY DeliveryAssumption
<1>2. CASE Work(t)
  BY <1>1, <1>2 DEF Work, MarkSeen, MarkSeenRefused, Uc01, Begin, Find, KeepSnapshot, Create, PutSnapshot,
         AppendAudit, Complete, Refused, Uc01Steps, Serve, ServeRaises, Send, ReadLedger, EnsurePending, SendWelcome,
         MarkSent, SendOther, SendRefused, Drop, Cut, Done
<1>3. ASSUME NEW s \in Tasks, s # t, Work(s) \/ \E u \in Updates : Receive(s, u)
      PROVE  at'[t] = "pending" /\ upd'[t] = upd[t]
  BY <1>3, OthersStay
<1>4. ASSUME NEW u \in Updates, Receive(t, u) PROVE FALSE
  BY <1>4 DEF Receive
<1>5. CASE Crash
  BY <1>1, <1>5 DEF Crash
<1>6. CASE StopAndStart
  BY <1>6 DEF StopAndStart
<1>7. CASE Poll \/ UNCHANGED vars
  BY <1>7 DEF Poll, Fetch, FetchFails, TakeNext, Hold, vars, tasks
<1>8. QED BY <1>2, <1>3, <1>4, <1>5, <1>6, <1>7 DEF Next

LEMMA ServedGoesOn ==
    ASSUME ConfirmedInv, [Next]_vars, NEW t \in Tasks, at[t] \in {"serve", "sendOther"},
           NEW u \in Mutating, upd[t] = u, mode = "webhook"
    PROVE  \/ at'[t] \in {"serve", "sendOther"} /\ upd'[t] = u
           \/ Settled(u)'
<1> USE DEF ConfirmedInv, TablesInv, DeliveryTypeOK
<1>1. u \in Updates /\ mode' = mode
  BY DeliveryAssumption, SettledStays
<1>2. CASE Serve(t)
  BY <1>1, <1>2 DEF Serve, Goto
<1>3. CASE SendOther(t)
  <2>1. u \in told'
    BY <1>3 DEF SendOther, Goto
  <2>2. DispatchedOrSwallowed(u)
    BY <1>3 DEF SendOther, TasksDispatch, TaskDispatches, Sending
  <2>3. DispatchedOrSwallowed(u)'
    BY <1>1, <2>2, SettledStays
  <2>4. QED BY <2>1, <2>3 DEF Settled, Answered
<1>4. CASE Work(t) /\ ~Serve(t) /\ ~ServeRaises(t) /\ ~SendOther(t)
  BY <1>4 DEF Work, MarkSeen, MarkSeenRefused, Uc01, Begin, Find, KeepSnapshot, Create, PutSnapshot,
         AppendAudit, Complete, Refused, Uc01Steps, Send, ReadLedger, EnsurePending, SendWelcome,
         MarkSent, SendRefused, Done
<1>5. ASSUME NEW s \in Tasks, s # t, Work(s) \/ \E v \in Updates : Receive(s, v)
      PROVE  at'[t] = at[t] /\ upd'[t] = upd[t]
  BY <1>5, OthersStay
<1>6. ASSUME NEW v \in Updates, Receive(t, v) PROVE FALSE
  BY <1>6 DEF Receive
<1>7. CASE Crash
  <2>1. cut'[u] > 0
    BY <1>1, <1>7 DEF Crash
  <2>2. QED BY <1>1, <2>1 DEF Settled, DispatchedOrSwallowed, Answered
<1>8. CASE StopAndStart
  BY <1>8 DEF StopAndStart
<1>9. CASE Poll \/ UNCHANGED vars
  BY <1>9 DEF Poll, Fetch, FetchFails, TakeNext, Hold, vars, tasks
<1>10. CASE ServeRaises(t)
  <2>1. cut'[u] > 0
    BY <1>1, <1>10 DEF ServeRaises, Drop, Cut
  <2>2. QED BY <1>1, <2>1 DEF Settled, DispatchedOrSwallowed, Answered
<1>11. QED BY <1>2, <1>3, <1>4, <1>5, <1>6, <1>7, <1>8, <1>9, <1>10 DEF Next

LEMMA CompletedStaysPending ==
    ASSUME ConfirmedInv, [Next]_vars PROVE CompletedIsPending'
<1> SUFFICES ASSUME NEW u \in Starts, idem'[u] = "completed", ledger'[u] = "none"
             PROVE  cut'[u] > 0 \/ \E t \in Tasks : upd'[t] = u /\ at'[t] = "pending"
  BY DEF CompletedIsPending
<1> USE DEF ConfirmedInv, TablesInv, DeliveryTypeOK
<1>1. u \in Updates /\ ledger[u] = "none"
  BY DeliveryAssumption, TablesGrow DEF RowStep
<1>2. CASE idem[u] = "completed"
  <2>1. cut[u] > 0 \/ \E t \in Tasks : upd[t] = u /\ at[t] = "pending"
    BY <1>1, <1>2 DEF CompletedIsPending
  <2>2. QED BY <1>1, <2>1, PendingGoesOn, TablesGrow
<1>3. CASE idem[u] # "completed"
  <2>1. PICK t \in Tasks : Uc01(t)
    BY <1>3 DEF Next, Poll, Fetch, FetchFails, TakeNext, Receive, Work, MarkSeen, MarkSeenRefused, Serve, ServeRaises,
           Send, ReadLedger, EnsurePending, SendWelcome, MarkSent, SendOther, SendRefused, Done, SendFrame,
           StopAndStart, Crash, Restart, tables, vars
  <2>2. upd[t] \in Updates
    BY <2>1, KeepsOrFrees DEF Work
  <2>3. Complete(t) /\ upd[t] = u
    BY <1>1, <1>3, <2>1, <2>2 DEF Uc01, Begin, Find, KeepSnapshot, Create, PutSnapshot, AppendAudit, Complete,
           Refused
  <2>4. QED BY <1>1, <2>3 DEF Complete, Goto, Fail, Cut
<1>4. QED BY <1>2, <1>3

LEMMA SeenStaysServed ==
    ASSUME ConfirmedInv, [Next]_vars PROVE SeenIsServed'
<1> USE DEF ConfirmedInv, TablesInv, DeliveryTypeOK
<1>1. mode' = mode /\ Mutating \subseteq Updates
  BY DeliveryAssumption, SettledStays
<1>2. ASSUME NEW u \in seen
      PROVE  u \in Mutating /\ mode' = "webhook"
             /\ (Settled(u)' \/ \E t \in Tasks : upd'[t] = u /\ at'[t] \in {"serve", "sendOther"})
  <2>1. u \in Mutating /\ mode = "webhook"
    BY DEF SeenIsServed
  <2>2. CASE Settled(u)
    BY <1>1, <2>1, <2>2, SettledStays
  <2>3. CASE ~Settled(u)
    <3>1. PICK t \in Tasks : upd[t] = u /\ at[t] \in {"serve", "sendOther"}
      BY <2>3 DEF SeenIsServed
    <3>2. QED BY <1>1, <2>1, <3>1, ServedGoesOn
  <2>4. QED BY <2>2, <2>3
<1>3. ASSUME seen' \subseteq seen PROVE SeenIsServed'
  BY <1>2, <1>3 DEF SeenIsServed
<1>4. ASSUME NEW t \in Tasks, MarkSeen(t) PROVE SeenIsServed'
  <2>1. PICK u \in Updates : u = upd[t]
    BY <1>4, Held DEF MarkSeen
  <2>2. u \in Mutating /\ mode = "webhook" /\ seen' = seen \union {u}
    BY <1>4, <2>1 DEF MarkSeen, TasksDispatch, TaskDispatches
  <2>3. CASE u \in seen
    BY <1>3, <2>2, <2>3
  <2>4. CASE u \notin seen
    <3>1. Settled(u)' \/ (upd'[t] = u /\ at'[t] = "serve")
      <4>1. CASE Cut(u)
        <5>1. cut'[u] > 0
          BY <4>1 DEF Cut
        <5>2. QED BY <1>1, <2>2, <5>1 DEF Settled, DispatchedOrSwallowed, Answered
      <4>2. CASE Goto(t, "serve")
        BY <2>1, <4>2 DEF Goto
      <4>3. QED BY <1>4, <2>1, <2>4, <4>1, <4>2 DEF MarkSeen
    <3>2. QED BY <1>1, <1>2, <2>2, <3>1 DEF SeenIsServed
  <2>5. QED BY <2>3, <2>4
<1>5. CASE UNCHANGED seen
  BY <1>3, <1>5
<1>6. QED
  BY <1>4, <1>5 DEF Next, Poll, Fetch, FetchFails, TakeNext, Receive, Work, MarkSeenRefused, Uc01, Begin, Find,
         KeepSnapshot, Create, PutSnapshot, AppendAudit, Complete, Refused, Frame, Serve, ServeRaises, Send, ReadLedger,
         EnsurePending, SendWelcome, MarkSent, SendOther, SendRefused, SendFrame, Done, StopAndStart, Crash,
         Restart, tables, vars

\* A done task lets go of an update that is settled.
LEMMA DoneIsSettled ==
    ASSUME ConfirmedInv, NEW t \in Tasks, Done(t) PROVE Settled(upd[t]) /\ upd[t] \in Updates
  BY Held DEF ConfirmedInv, TasksDispatch, TaskDispatches, Sending, Done, Settled

\* While the loop is idle, what lies below the offset is settled.
LEMMA BelowIsSettled ==
    ASSUME ConfirmedInv, Idle PROVE \A u \in Below : u \in Updates /\ Settled(u)
  BY DEF ConfirmedInv, PassedIsSettled, Idle, Below

LEMMA PassedStaysSettled ==
    ASSUME ConfirmedInv, [Next]_vars PROVE PassedIsSettled'
<1> USE DEF ConfirmedInv, TablesInv, DeliveryTypeOK
<1>1. mode' = mode /\ \A u \in Updates : Settled(u) => Settled(u)'
  BY SettledStays
<1>2. ASSUME UNCHANGED polling PROVE PassedIsSettled'
  BY <1>1, <1>2 DEF PassedIsSettled, polling
<1>3. CASE Fetch
  <2>1. PICK b \in Fetched : Advance(b) /\ batch' = b
    BY <1>3 DEF Fetch
  <2>2. ASSUME NEW u \in Updates, u < offset', u \notin b PROVE Settled(u)
    <3>1. CASE u < offset
      BY <1>3, <3>1, BelowIsSettled DEF Fetch, Below
    <3>2. CASE u \in confirmed
      BY <3>2 DEF ConfirmedMeansHandled, Settled, DispatchedOrSwallowed, Answered
    <3>3. CASE ~(u < offset) /\ u \notin confirmed
      <4>1. u \in Pending
        BY <3>3 DEF Pending, Below
      <4>2. PICK m \in b : offset' = m + 1
        BY <2>1, <2>2, <3>3 DEF Advance
      <4>3. m \in Updates /\ u < m
        BY <2>1, <2>2, <4>2, DeliveryAssumption DEF Fetched, Pending
      <4>4. QED BY <2>1, <2>2, <4>1, <4>2, <4>3 DEF Fetched
    <3>4. QED BY <3>1, <3>2, <3>3
  <2>3. QED BY <1>1, <2>1, <2>2 DEF PassedIsSettled
<1>4. ASSUME NEW t \in Tasks, Done(t) PROVE PassedIsSettled'
  BY <1>1, <1>4, DoneIsSettled DEF Done, PassedIsSettled
<1>5. CASE StopAndStart \/ Crash
  BY <1>5, DeliveryAssumption DEF StopAndStart, Crash, Restart, PassedIsSettled
<1>6. QED
  BY <1>2, <1>3, <1>4, <1>5 DEF Next, Poll, FetchFails, TakeNext, Receive, Work, MarkSeen, MarkSeenRefused,
         Uc01, Begin, Find, KeepSnapshot, Create, PutSnapshot, AppendAudit, Complete, Refused, Frame, Serve, ServeRaises,
         Send, ReadLedger, EnsurePending, SendWelcome, MarkSent, SendOther, SendRefused, SendFrame, vars

LEMMA ConfirmedStaysHandled ==
    ASSUME ConfirmedInv, [Next]_vars PROVE ConfirmedMeansHandled'
<1> USE DEF ConfirmedInv, TablesInv, DeliveryTypeOK
<1>1. /\ mode' = mode
      /\ \A u \in Updates : Settled(u) => Settled(u)'
      /\ \A u \in confirmed : Settled(u)
  BY SettledStays DEF ConfirmedMeansHandled, Settled, DispatchedOrSwallowed, Answered
<1>2. ASSUME confirmed' \subseteq Updates, \A u \in confirmed' : Settled(u)
      PROVE  ConfirmedMeansHandled'
  BY <1>1, <1>2 DEF ConfirmedMeansHandled, Settled, DispatchedOrSwallowed, Answered
<1>3. CASE Fetch \/ FetchFails
  BY <1>1, <1>2, <1>3, BelowIsSettled DEF Fetch, FetchFails, Below
<1>4. ASSUME NEW t \in Tasks, Done(t) PROVE ConfirmedMeansHandled'
  BY <1>1, <1>2, <1>4, DoneIsSettled DEF Done
<1>5. CASE UNCHANGED confirmed
  BY <1>1, <1>2, <1>5
<1>6. QED
  BY <1>3, <1>4, <1>5 DEF Next, Poll, TakeNext, Receive, Work, MarkSeen, MarkSeenRefused, Uc01, Begin, Find,
         KeepSnapshot, Create, PutSnapshot, AppendAudit, Complete, Refused, Frame, Serve, ServeRaises, Send, ReadLedger,
         EnsurePending, SendWelcome, MarkSent, SendOther, SendRefused, SendFrame, StopAndStart, Crash,
         Restart, vars

LEMMA ConfirmedInvariant == Spec => []ConfirmedInv
<1>1. Init => ConfirmedInv
  BY TablesStart, DeliveryAssumption
     DEF Init, ConfirmedInv, OverlapIsCut, TasksDispatch, TaskDispatches, OnlyThePollerPolls,
         CompletedIsPending, SeenIsServed, PassedIsSettled, ConfirmedMeansHandled, Sending
<1>2. ConfirmedInv /\ [Next]_vars => ConfirmedInv'
  BY TypeStep, TasksStillMatch, TablesStayTrue, OverlapStaysCut, TasksStillDispatch, OnlyThePollerStays,
     CompletedStaysPending, SeenStaysServed, PassedStaysSettled, ConfirmedStaysHandled
     DEF ConfirmedInv, TablesInv
<1>3. QED BY <1>1, <1>2, PTL DEF Spec

\* Telegram forgets an update only after it was dispatched to its end and its
\* user was told; only a fault that hit it leaves the user untold, and leaves it
\* undispatched only when a lookup of the resend handler raised or the webhook's
\* guard swallowed the retry of a mutating command.
THEOREM ConfirmedIsHandled == Spec => []ConfirmedMeansHandled
<1>1. ConfirmedInv => ConfirmedMeansHandled
  BY DEF ConfirmedInv
<1>2. QED BY <1>1, ConfirmedInvariant, PTL

-----------------------------------------------------------------------------
(* No update is dispatched twice without a restart, and no deduplicated one *)
(* at all.                                                                   *)

Undispatched == Uc01Steps \union {"serve"}

\* Behind the webhook: one task, the one that set the mark, gets past the guard.
OneGetsPastTheGuard ==
    mode = "webhook" => \A u \in Mutating :
        /\ u \notin seen => handled[u] = 0 /\ \A t \in Tasks : upd[t] = u => at[t] = "dedup"
        /\ \A t \in Tasks : upd[t] = u /\ at[t] = "serve" =>
              handled[u] = 0 /\ \A s \in Tasks \ {t} : upd[s] = u => at[s] # "serve"
        /\ handled[u] <= 1

\* While polling: what is still to come was dispatched before the last restart only.
BatchIsAhead ==
    mode = "polling" =>
        /\ batch \subseteq Below
        /\ \A t \in Tasks : at[t] # "idle" => upd[t] \in batch
        /\ \A u \in Updates :
              /\ handled[u] <= 1 + restarts
              /\ u >= offset => handled[u] <= restarts
              /\ u \in batch /\ (\A t \in Tasks : upd[t] # u) => handled[u] <= restarts
        /\ \A t \in Tasks : at[t] \in Undispatched => handled[upd[t]] <= restarts

\* A task dispatches only what it has not yet dispatched.
LEMMA WhoDispatches ==
    ASSUME ConfirmedInv, NEW t \in Tasks, Work(t)
    PROVE  \/ handled' = handled
           \/ /\ Dispatched(upd[t]) /\ at[t] \in Undispatched /\ at'[t] \notin Undispatched
              /\ upd'[t] = upd[t]
<1>1. at \in [Tasks -> Steps]
  BY DEF ConfirmedInv, TablesInv, DeliveryTypeOK
<1>2. CASE Uc01(t) \/ Serve(t)
  BY <1>1, <1>2 DEF Uc01, Begin, Find, KeepSnapshot, Create, PutSnapshot, AppendAudit, Complete, Refused, Then,
         Fail, Goto, Serve, Undispatched, Uc01Steps
<1>3. CASE MarkSeen(t) \/ MarkSeenRefused(t) \/ ServeRaises(t) \/ Send(t)
  BY <1>3 DEF MarkSeen, MarkSeenRefused, ServeRaises, Send, ReadLedger, EnsurePending, SendWelcome, MarkSent, SendOther,
         SendRefused, SendFrame, Done, history
<1>4. QED BY <1>2, <1>3 DEF Work

\* A task that has dispatched its update does not begin it again.
LEMMA NoStepBack ==
    ASSUME ConfirmedInv, NEW t \in Tasks, Work(t)
    PROVE  /\ at'[t] \in Undispatched => at[t] \in Undispatched \union {"dedup"} /\ upd'[t] = upd[t]
           /\ at[t] = "dedup" => at'[t] \in {"serve", "done", "idle"}
           /\ at'[t] = "serve" => MarkSeen(t) /\ upd[t] \notin seen
           /\ at'[t] = "idle" => upd'[t] = Null
           /\ at'[t] # "dedup"
<1> USE DEF Undispatched, Uc01Steps
<1>1. at \in [Tasks -> Steps] /\ upd \in [Tasks -> Updates \union {Null}]
  BY DEF ConfirmedInv, TablesInv, DeliveryTypeOK
<1>2. CASE Uc01(t)
  BY <1>1, <1>2 DEF Uc01, Begin, Find, KeepSnapshot, Create, PutSnapshot, AppendAudit, Complete, Refused, Then,
         Fail, Goto
<1>3. CASE MarkSeen(t) \/ MarkSeenRefused(t) \/ Serve(t) \/ ServeRaises(t)
  BY <1>1, <1>3 DEF MarkSeen, MarkSeenRefused, Serve, ServeRaises, Drop, Goto, Free
<1>4. CASE Send(t)
  BY <1>1, <1>4 DEF Send, ReadLedger, EnsurePending, SendWelcome, MarkSent, SendOther, SendRefused, Done, Drop,
         Goto, Free
<1>5. QED BY <1>2, <1>3, <1>4 DEF Work

LEMMA GuardStays ==
    ASSUME ConfirmedInv, OneGetsPastTheGuard, [Next]_vars PROVE OneGetsPastTheGuard'
<1> USE DEF ConfirmedInv, TablesInv, DeliveryTypeOK
<1>1. mode' = mode /\ Mutating \subseteq Updates /\ Mutating \intersect Starts = {} /\ Null \notin Mutating
  BY SettledStays, DeliveryAssumption, NoUpdate
<1>2. ASSUME NEW t \in Tasks, Work(t), mode = "webhook", NEW u \in Mutating
      PROVE  /\ u \notin seen' => handled'[u] = 0 /\ \A s \in Tasks : upd'[s] = u => at'[s] = "dedup"
             /\ \A s \in Tasks : upd'[s] = u /\ at'[s] = "serve" =>
                   handled'[u] = 0 /\ \A r \in Tasks \ {s} : upd'[r] = u => at'[r] # "serve"
             /\ handled'[u] <= 1
  <2>1. /\ u \notin seen => handled[u] = 0 /\ \A s \in Tasks : upd[s] = u => at[s] = "dedup"
        /\ \A s \in Tasks : upd[s] = u /\ at[s] = "serve" =>
              handled[u] = 0 /\ \A r \in Tasks \ {s} : upd[r] = u => at[r] # "serve"
        /\ handled[u] <= 1
    BY <1>2 DEF OneGetsPastTheGuard
  <2>2. /\ \A s \in Tasks \ {t} : at'[s] = at[s] /\ upd'[s] = upd[s]
        /\ upd[t] \in Updates /\ at[t] # "idle" /\ (upd'[t] = upd[t] \/ upd'[t] = Null)
    BY <1>2, OthersStay, KeepsOrFrees
  <2>3. seen' = seen \/ (MarkSeen(t) /\ seen' = seen \union {upd[t]})
    BY <1>2 DEF Work, MarkSeen, MarkSeenRefused, Uc01, Begin, Find, KeepSnapshot, Create, PutSnapshot,
           AppendAudit, Complete, Refused, Frame, Serve, ServeRaises, Send, ReadLedger, EnsurePending, SendWelcome, MarkSent,
           SendOther, SendRefused, SendFrame, Done, tables
  <2>4. upd[t] = u => at[t] \notin Uc01Steps
    BY <1>1 DEF TasksMatchTables, TaskMatches
  <2>5. CASE upd[t] # u
    <3>1. handled'[u] = handled[u]
      BY <1>1, <1>2, <2>2, <2>5, WhoDispatches DEF Dispatched
    <3>2. upd'[t] # u
      BY <1>1, <2>2, <2>5
    <3>3. u \notin seen' => u \notin seen
      BY <2>3
    <3>4. QED BY <2>1, <2>2, <3>1, <3>2, <3>3
  <2>6. CASE upd[t] = u /\ MarkSeen(t)
    <3>1. handled' = handled /\ seen' = seen \union {u} /\ at[t] = "dedup"
      BY <2>6 DEF MarkSeen
    <3>2. QED BY <1>2, <2>1, <2>2, <2>6, <3>1, NoStepBack
  <2>7. CASE upd[t] = u /\ ~MarkSeen(t)
    <3>1. seen' = seen /\ at'[t] # "serve" /\ at'[t] # "dedup"
      BY <1>2, <2>3, <2>7, NoStepBack
    <3>2. CASE handled' = handled
      <4>1. CASE u \in seen
        BY <2>1, <2>2, <2>7, <3>1, <3>2, <4>1
      <4>2. CASE u \notin seen
        <5>1. at[t] = "dedup"
          BY <2>1, <2>7, <4>2
        <5>2. MarkSeenRefused(t)
          BY <1>2, <2>7, <5>1 DEF Work, Uc01, Begin, Find, KeepSnapshot, Create, PutSnapshot, AppendAudit,
                 Complete, Refused, Uc01Steps, Serve, ServeRaises, Send, ReadLedger, EnsurePending, SendWelcome, MarkSent,
                 SendOther, SendRefused, Done
        <5>3. upd'[t] = Null
          BY <5>2 DEF MarkSeenRefused, Free
        <5>4. QED BY <1>1, <2>1, <2>2, <3>1, <3>2, <4>2, <5>3
      <4>3. QED BY <4>1, <4>2
    <3>3. CASE handled' # handled
      <4>1. at[t] = "serve" /\ Dispatched(u)
        BY <1>2, <2>4, <2>7, <3>3, WhoDispatches DEF Undispatched
      <4>2. handled[u] = 0 /\ u \in seen /\ \A r \in Tasks \ {t} : upd[r] = u => at[r] # "serve"
        BY <2>1, <2>7, <4>1
      <4>3. handled'[u] = 1
        BY <1>1, <4>1, <4>2 DEF Dispatched
      <4>4. QED BY <2>2, <3>1, <4>2, <4>3
    <3>4. QED BY <3>2, <3>3
  <2>8. QED BY <2>5, <2>6, <2>7
<1>3. ASSUME NEW t \in Tasks, NEW u \in Updates, Receive(t, u) PROVE OneGetsPastTheGuard'
  <2>1. /\ \A s \in Tasks \ {t} : at'[s] = at[s] /\ upd'[s] = upd[s]
        /\ handled' = handled /\ seen' = seen
        /\ u \in Mutating => at'[t] = "dedup"
        /\ upd'[t] = u
    BY <1>3, OthersStay DEF Receive, Hold, tables
  <2>2. QED BY <1>1, <2>1 DEF OneGetsPastTheGuard
<1>4. ASSUME UNCHANGED <<seen, handled>>, \A t \in Tasks : upd'[t] = Null PROVE OneGetsPastTheGuard'
  BY <1>1, <1>4 DEF OneGetsPastTheGuard
<1>5. CASE StopAndStart \/ Crash
  BY <1>4, <1>5 DEF StopAndStart, Crash, Restart, tables
<1>6. CASE Poll \/ UNCHANGED vars
  <2>1. mode = "polling" \/ UNCHANGED vars
    BY <1>6 DEF Poll, Fetch, FetchFails, TakeNext, Idle
  <2>2. CASE UNCHANGED vars
    BY <2>2 DEF vars, tasks, tables, history, OneGetsPastTheGuard
  <2>3. QED BY <1>1, <2>1, <2>2 DEF OneGetsPastTheGuard
<1>7. ASSUME NEW t \in Tasks, Work(t) PROVE OneGetsPastTheGuard'
  BY <1>1, <1>2, <1>7 DEF OneGetsPastTheGuard
<1>8. QED BY <1>3, <1>5, <1>6, <1>7 DEF Next

\* A task's step leaves the offset alone, and the batch unless it is done.
LEMMA WorkAndTheBatch ==
    ASSUME ConfirmedInv, NEW t \in Tasks, Work(t)
    PROVE  /\ offset' = offset /\ restarts' = restarts /\ mode' = mode
           /\ Done(t) /\ mode = "polling" => batch' = batch \ {upd[t]} /\ upd'[t] = Null /\ handled' = handled
           /\ ~Done(t) => batch' = batch
           /\ mode = "polling" /\ ~Done(t) => upd'[t] = upd[t] /\ at'[t] # "idle"
<1>1. at \in [Tasks -> Steps] /\ upd \in [Tasks -> Updates \union {Null}]
  BY DEF ConfirmedInv, TablesInv, DeliveryTypeOK
<1>2. CASE Uc01(t)
  BY <1>1, <1>2 DEF Uc01, Begin, Find, KeepSnapshot, Create, PutSnapshot, AppendAudit, Complete, Refused, Frame,
         Then, Fail, Goto, Done, Uc01Steps, polling
<1>3. CASE MarkSeen(t) \/ MarkSeenRefused(t)
  BY <1>3 DEF MarkSeen, MarkSeenRefused, Done, polling, ConfirmedInv, TasksDispatch, TaskDispatches
<1>4. CASE Serve(t) \/ ServeRaises(t)
  BY <1>1, <1>4 DEF Serve, ServeRaises, Drop, Goto, Done, polling, bounds
<1>5. CASE Send(t)
  BY <1>1, <1>5 DEF Send, ReadLedger, EnsurePending, SendWelcome, MarkSent, SendOther, SendRefused, SendFrame,
         Done, Drop, Goto, Free, polling, history
<1>6. QED BY <1>2, <1>3, <1>4, <1>5 DEF Work

LEMMA BatchStaysAhead ==
    ASSUME ConfirmedInv, BatchIsAhead, [Next]_vars PROVE BatchIsAhead'
<1> USE DEF ConfirmedInv, TablesInv, DeliveryTypeOK
<1>1. mode' = mode
  BY SettledStays
<1>2. CASE mode = "webhook"
  BY <1>1, <1>2 DEF BatchIsAhead
<1> SUFFICES ASSUME mode = "polling" PROVE BatchIsAhead'
  BY <1>2
<1>3. /\ batch \subseteq Below
      /\ \A t \in Tasks : at[t] # "idle" => upd[t] \in batch
      /\ \A u \in Updates : /\ handled[u] <= 1 + restarts
                            /\ u >= offset => handled[u] <= restarts
                            /\ u \in batch /\ (\A t \in Tasks : upd[t] # u) => handled[u] <= restarts
      /\ \A t \in Tasks : at[t] \in Undispatched => handled[upd[t]] <= restarts
  BY DEF BatchIsAhead
<1>4. \A t \in Tasks : t # Poller => at[t] = "idle" /\ upd[t] = Null
  BY DEF OnlyThePollerPolls, TasksMatchTables, TaskMatches
<1>5. Updates \subseteq Nat \ {0} /\ Null \notin Updates
  BY DeliveryAssumption, NoUpdate
<1>6. CASE Fetch
  <2>1. PICK b \in Fetched : Advance(b) /\ batch' = b
    BY <1>6 DEF Fetch
  <2>2. /\ batch = {} /\ at[Poller] = "idle" /\ upd[Poller] = Null
        /\ UNCHANGED <<at, upd, handled, restarts>>
    BY <1>6, DeliveryAssumption DEF Fetch, Idle, tasks, history, bounds, TasksMatchTables, TaskMatches
  <2>3. \A u \in b : u \in Updates /\ u >= offset
    BY <1>5 DEF Fetched, Pending, Below
  <2>4. (b = {} /\ offset' = offset) \/ \E m \in b : (\A v \in b : v <= m) /\ offset' = m + 1
    BY <2>1 DEF Advance
  <2>5. offset' >= offset /\ offset' \in Nat /\ b \subseteq {u \in Updates : u < offset'}
    <3>1. CASE b = {}
      BY <2>4, <3>1
    <3>2. ASSUME NEW m \in b, \A v \in b : v <= m, offset' = m + 1
          PROVE  offset' >= offset /\ offset' \in Nat /\ b \subseteq {u \in Updates : u < offset'}
      <4>1. m \in Nat /\ m >= offset /\ \A u \in b : u \in Nat /\ u <= m
        BY <1>5, <2>3, <3>2
      <4>2. \A u \in b : u < offset'
        BY <3>2, <4>1
      <4>3. offset' >= offset /\ offset' \in Nat
        BY <3>2, <4>1
      <4>4. QED BY <2>3, <4>2, <4>3
    <3>3. QED BY <2>4, <3>1, <3>2
  <2>6. \A t \in Tasks : at[t] = "idle"
    BY <1>4, <2>2
  <2>7. QED BY <1>3, <1>5, <2>1, <2>2, <2>3, <2>5, <2>6 DEF BatchIsAhead, Below, Undispatched, Uc01Steps
<1>7. CASE FetchFails \/ UNCHANGED vars
  BY <1>3, <1>7 DEF FetchFails, vars, polling, tasks, history, bounds, BatchIsAhead, Below
<1>8. CASE TakeNext
  <2>1. PICK u \in batch : Hold(Poller, u, Entry(u))
    BY <1>8 DEF TakeNext
  <2>2. /\ UNCHANGED <<batch, offset, handled, restarts>> /\ at[Poller] = "idle" /\ upd[Poller] = Null
        /\ u \in Updates /\ u # Null
    BY <1>5, <1>8, DeliveryAssumption DEF TakeNext, polling, history, bounds, TasksMatchTables, TaskMatches
  <2>3. /\ upd'[Poller] = u
        /\ \A t \in Tasks \ {Poller} : at'[t] = "idle" /\ upd'[t] = Null
    BY <1>4, <2>1, DeliveryAssumption DEF Hold
  <2>4. \A v \in batch : v \in Updates /\ handled[v] <= restarts
    BY <1>3, <1>4, <1>5, <2>2 DEF Below
  <2>5. QED BY <1>3, <1>4, <2>2, <2>3, <2>4 DEF BatchIsAhead, Below, Undispatched, Uc01Steps
<1>9. ASSUME NEW t \in Tasks, Work(t) PROVE BatchIsAhead'
  <2>1. t = Poller /\ upd[t] \in Updates /\ upd[t] \in batch /\ upd[t] < offset
    BY <1>3, <1>4, <1>9, KeepsOrFrees DEF Below
  <2>2. \A s \in Tasks \ {t} : at'[s] = at[s] /\ upd'[s] = upd[s] /\ at[s] = "idle" /\ upd[s] = Null
    BY <1>4, <1>9, <2>1, OthersStay
  <2>3. offset' = offset /\ restarts' = restarts
    BY <1>9, WorkAndTheBatch
  <2>4. CASE Done(t)
    <3>1. batch' = batch \ {upd[t]} /\ upd'[t] = Null /\ handled' = handled /\ at'[t] = "idle"
      BY <1>9, <2>4, WorkAndTheBatch DEF Done, Free
    <3>2. \A u \in batch' : \A s \in Tasks : upd[s] # u
      BY <1>3, <1>5, <2>1, <2>2, <3>1 DEF Below
    <3>3. QED BY <1>3, <1>5, <2>1, <2>2, <2>3, <3>1, <3>2 DEF BatchIsAhead, Below, Undispatched, Uc01Steps
  <2>5. CASE ~Done(t)
    <3>1. batch' = batch /\ upd'[t] = upd[t] /\ at'[t] # "idle"
      BY <1>9, <2>5, WorkAndTheBatch
    <3>2. at'[t] \in Undispatched => at[t] \in Undispatched
      BY <1>9, NoStepBack DEF TasksDispatch, TaskDispatches
    <3>3. \A u \in Updates : handled'[u] # handled[u] =>
             u = upd[t] /\ handled'[u] <= 1 + restarts /\ at'[t] \notin Undispatched
      BY <1>3, <1>9, <2>1, WhoDispatches DEF Dispatched
    <3>4. \A u \in Updates : handled'[u] <= 1 + restarts
      BY <1>3, <3>3
    <3>5. \A u \in Updates : u # upd[t] => handled'[u] = handled[u]
      BY <3>3
    <3>6. at'[t] \in Undispatched => handled'[upd[t]] <= restarts
      BY <1>3, <2>1, <3>2, <3>3
    <3>7. \A u \in Updates : /\ u >= offset => u # upd[t]
                             /\ (\A s \in Tasks : upd'[s] # u) => u # upd[t] /\ \A s \in Tasks : upd[s] # u
      <4> SUFFICES ASSUME NEW u \in Updates
                   PROVE  /\ u >= offset => u # upd[t]
                          /\ (\A s \in Tasks : upd'[s] # u) => u # upd[t] /\ \A s \in Tasks : upd[s] # u
        OBVIOUS
      <4>1. u >= offset => u # upd[t]
        BY <1>5, <2>1
      <4>2. (\A s \in Tasks : upd'[s] # u) => u # upd[t]
        BY <3>1
      <4>3. \A s \in Tasks : upd[s] = upd'[s]
        BY <2>2, <3>1
      <4>4. QED BY <4>1, <4>2, <4>3
    <3>8. QED
      BY <1>3, <2>1, <2>2, <2>3, <3>1, <3>4, <3>5, <3>6, <3>7
         DEF BatchIsAhead, Below, Undispatched, Uc01Steps
  <2>6. QED BY <2>4, <2>5
<1>10. ASSUME NEW t \in Tasks, NEW u \in Updates, Receive(t, u) PROVE BatchIsAhead'
  BY <1>10 DEF Receive
<1>11. CASE StopAndStart \/ Crash
  <2>1. /\ handled' = handled /\ restarts' = restarts + 1 /\ batch' = {}
        /\ \A t \in Tasks : at'[t] = "idle" /\ upd'[t] = Null
    BY <1>11 DEF StopAndStart, Crash, Restart
  <2>2. QED BY <1>3, <2>1 DEF BatchIsAhead, Undispatched, Uc01Steps
<1>12. QED BY <1>6, <1>7, <1>8, <1>9, <1>10, <1>11 DEF Next, Poll

\* No update is dispatched again without a restart of the loop, and no
\* deduplicated command at all, however many requests overlap.
THEOREM NothingIsDispatchedTwice == Spec => []DispatchedOnce
<1>1. Init => OneGetsPastTheGuard /\ BatchIsAhead
  BY DeliveryAssumption, NoUpdate DEF Init, OneGetsPastTheGuard, BatchIsAhead, Below, Undispatched, Uc01Steps
<1>2. ConfirmedInv /\ OneGetsPastTheGuard /\ BatchIsAhead /\ [Next]_vars
      => OneGetsPastTheGuard' /\ BatchIsAhead'
  BY GuardStays, BatchStaysAhead
<1>3. OneGetsPastTheGuard /\ BatchIsAhead => DispatchedOnce
  BY DeliveryAssumption DEF OneGetsPastTheGuard, BatchIsAhead, DispatchedOnce
<1>4. QED BY <1>1, <1>2, <1>3, ConfirmedInvariant, PTL DEF Spec

-----------------------------------------------------------------------------
(* Rows and messages are paid for. *)

\* Tasks that have still to append the audit row of u, and those that are on
\* the way to complete its key.
ToAudit(u) ==
    {t \in Tasks : /\ upd[t] = u
                   /\ \/ at[t] \in {"create", "snapshot", "audit"}
                      \/ at[t] = "begin" /\ idem[u] # "completed"}
AuditLine == {"begin", "create", "snapshot", "audit", "complete"}
Auditing(u) == \E t \in Tasks : upd[t] = u /\ at[t] \in AuditLine

\* The same of the welcome, which is over when the row says sent.
ToWelcome(u) ==
    {t \in Tasks : /\ upd[t] = u
                   /\ \/ at[t] \in {"create", "snapshot", "audit", "complete", "pending", "sendWelcome"}
                      \/ at[t] \in {"begin", "find", "keepSnapshot", "ledger"} /\ ledger[u] # "sent"}
WelcomeLine == Uc01Steps \union {"ledger", "pending", "sendWelcome", "mark"}
Welcoming(u) == \E t \in Tasks : upd[t] = u /\ at[t] \in WelcomeLine

One(b) == IF b THEN 1 ELSE 0

\* What is there and what may still be appended was paid for, but for the one
\* that is due: while nobody works on it, only if it is finished.
AuditsArePaid == \A u \in Starts :
    audits[u] + Cardinality(ToAudit(u)) <= cut[u] + One(idem[u] = "completed" \/ Auditing(u))
WelcomesArePaid == \A u \in Starts :
    welcomes[u] + Cardinality(ToWelcome(u)) <= cut[u] + One(ledger[u] = "sent" \/ Welcoming(u))
RowBeforeMessage ==
    \A t \in Tasks : at[t] \in {"sendWelcome", "mark"} => ledger[upd[t]] # "none"

PaidInv == ConfirmedInv /\ AuditsArePaid /\ WelcomesArePaid /\ RowBeforeMessage

LEMMA SomeTasks ==
    ASSUME NEW A \in SUBSET Tasks PROVE IsFiniteSet(A) /\ Cardinality(A) \in Nat
  BY DeliveryAssumption, FS_Subset, FS_CardinalityType

\* The account when only one task moves: a fault pays for one, a task that goes
\* on keeps the one that is due, and what is appended was to be appended.
Moves(A, B, t, n, m, c, d, due, stays) ==
    /\ A \in SUBSET Tasks /\ B \in SUBSET Tasks /\ t \in Tasks /\ B \ {t} \subseteq A
    /\ n \in Nat /\ m \in Nat /\ c \in Nat /\ d \in Nat /\ due \in BOOLEAN /\ stays \in BOOLEAN
    /\ n + Cardinality(A) <= c + One(due)
    /\ d = c \/ d = c + 1
    /\ \/ m = n /\ (t \in B => t \in A)
       \/ m = n + 1 /\ t \in A /\ t \notin B
    /\ d = c => stays \/ ~due \/ (m = n /\ t \in A /\ t \notin B)
LEMMA OneTaskMoves ==
    ASSUME NEW A, NEW B, NEW t, NEW n, NEW m, NEW c, NEW d, NEW due, NEW stays,
           Moves(A, B, t, n, m, c, d, due, stays)
    PROVE  m + Cardinality(B) <= d + One(stays)
<1> USE DEF Moves
<1>1. /\ IsFiniteSet(A) /\ IsFiniteSet(B)
      /\ Cardinality(A) \in Nat /\ Cardinality(B) \in Nat
  BY SomeTasks
<1>2. t \in B => t \in A
  OBVIOUS
<1>3. Cardinality(B) <= Cardinality(A)
  BY <1>1, <1>2, FS_Subset
<1>4. ASSUME t \in A, t \notin B PROVE Cardinality(B) + 1 <= Cardinality(A)
  <2>1. IsFiniteSet(B \union {t}) /\ Cardinality(B \union {t}) = Cardinality(B) + 1
    BY <1>1, <1>4, FS_AddElement
  <2>2. B \union {t} \subseteq A
    BY <1>4
  <2>3. QED BY <1>1, <2>1, <2>2, FS_Subset
<1>5. CASE m = n
  <2>1. CASE d = c + 1
    BY <1>1, <1>3, <1>5, <2>1 DEF One
  <2>2. CASE d = c /\ (stays \/ ~due)
    BY <1>1, <1>3, <1>5, <2>2 DEF One
  <2>3. CASE d = c /\ t \in A /\ t \notin B
    BY <1>1, <1>4, <1>5, <2>3 DEF One
  <2>4. QED BY <1>5, <2>1, <2>2, <2>3
<1>6. CASE m = n + 1 /\ t \in A /\ t \notin B
  BY <1>1, <1>4, <1>6 DEF One
<1>7. QED BY <1>5, <1>6

\* A task's step concerns its own update only.
LEMMA WorkIsLocal ==
    ASSUME TablesInv, NEW t \in Tasks, Work(t), NEW v \in Updates, v # upd[t]
    PROVE  /\ audits'[v] = audits[v] /\ welcomes'[v] = welcomes[v] /\ cut'[v] = cut[v]
           /\ idem'[v] = idem[v] /\ ledger'[v] = ledger[v]
<1> USE DEF TablesInv, DeliveryTypeOK
<1>1. cut' = cut \/ Cut(upd[t])
  BY DEF Work, MarkSeen, MarkSeenRefused, Uc01, Begin, Find, KeepSnapshot, Create, PutSnapshot,
         AppendAudit, Complete, Refused, Then, Fail, Serve, ServeRaises, Send, ReadLedger, EnsurePending,
         SendWelcome, MarkSent, SendOther, SendRefused, Drop, Done, history
<1>2. cut'[v] = cut[v]
  BY <1>1 DEF Cut
<1>3. CASE Uc01(t)
  BY <1>2, <1>3 DEF Uc01, Begin, Find, KeepSnapshot, Create, PutSnapshot, AppendAudit, Complete,
                    Refused, Frame
<1>4. CASE Send(t)
  BY <1>2, <1>4 DEF Send, ReadLedger, EnsurePending, SendWelcome, MarkSent, SendOther, SendRefused,
                    SendFrame, Done, tables, history
<1>5. CASE MarkSeen(t) \/ MarkSeenRefused(t) \/ Serve(t) \/ ServeRaises(t)
  BY <1>2, <1>5 DEF MarkSeen, MarkSeenRefused, Serve, ServeRaises, tables
<1>6. QED BY <1>3, <1>4, <1>5 DEF Work

\* What a step of UC-01 does to the account of its update: see OneTaskMoves.
LEMMA Uc01Pays ==
    ASSUME TablesInv, NEW t \in Tasks, Uc01(t), NEW u, u = upd[t]
    PROVE  /\ u \in Updates /\ upd' = upd /\ UNCHANGED <<welcomes, ledger>>
           /\ cut'[u] = cut[u] \/ cut'[u] = cut[u] + 1
           /\ \/ audits'[u] = audits[u] /\ (t \in ToAudit(u)' => t \in ToAudit(u))
              \/ audits'[u] = audits[u] + 1 /\ t \in ToAudit(u) /\ t \notin ToAudit(u)'
           /\ t \in ToWelcome(u)' => t \in ToWelcome(u)
           /\ cut'[u] = cut[u] =>
                 /\ at'[t] \in AuditLine \/ idem'[u] = "completed"
                 /\ at'[t] \in WelcomeLine \/ (t \in ToWelcome(u) /\ t \notin ToWelcome(u)')
                    \/ ledger[u] = "sent"
<1> USE DEF ToAudit, ToWelcome, AuditLine, WelcomeLine, Uc01Steps, Steps
<1>1. /\ TaskMatches(t) /\ u \in Updates
      /\ at \in [Tasks -> Steps] /\ cut \in [Updates -> Nat] /\ audits \in [Updates -> Nat]
      /\ idem \in [Updates -> {"none", "open", "completed"}]
      /\ at[t] \in Uc01Steps
  BY Held DEF TablesInv, DeliveryTypeOK, TasksMatchTables, Uc01, Begin, Find, KeepSnapshot, Create, PutSnapshot,
              AppendAudit, Complete, Refused
<1>2. ASSUME Fail(t) PROVE at'[t] = "sendOther" /\ cut'[u] = cut[u] + 1 /\ upd' = upd
  BY <1>1, <1>2 DEF Fail, Goto, Cut
<1>3. ASSUME NEW step \in Steps, Then(t, step)
      PROVE  /\ upd' = upd /\ (cut'[u] = cut[u] \/ cut'[u] = cut[u] + 1)
             /\ at'[t] \in {step, "sendOther"}
             /\ cut'[u] = cut[u] => at'[t] = step
  BY <1>1, <1>2, <1>3 DEF Then, Goto
<1>4. UNCHANGED <<welcomes, ledger>>
  BY DEF Uc01, Begin, Find, KeepSnapshot, Create, PutSnapshot, AppendAudit, Complete, Refused, Frame
<1>5. CASE Begin(t)
  <2>1. /\ audits' = audits /\ at[t] = "begin"
        /\ idem'[u] = "completed" <=> idem[u] = "completed"
    BY <1>1, <1>5 DEF Begin
  <2>2. CASE idem[u] = "completed"
    <3>1. Then(t, "find")
      BY <1>5, <2>2 DEF Begin
    <3>2. /\ upd' = upd /\ (cut'[u] = cut[u] \/ cut'[u] = cut[u] + 1)
          /\ at'[t] \in {"find", "sendOther"} /\ (cut'[u] = cut[u] => at'[t] = "find")
      BY <1>3, <3>1
    <3>3. QED BY <1>1, <1>4, <2>1, <2>2, <3>2
  <2>3. CASE idem[u] # "completed"
    <3>1. Then(t, "create")
      BY <1>5, <2>3 DEF Begin
    <3>2. /\ upd' = upd /\ (cut'[u] = cut[u] \/ cut'[u] = cut[u] + 1)
          /\ at'[t] \in {"create", "sendOther"} /\ (cut'[u] = cut[u] => at'[t] = "create")
      BY <1>3, <3>1
    <3>3. ledger[u] # "sent"
      BY <1>1, <2>1, <2>3 DEF TablesInv, TablesTellTheTruth, TaskMatches
    <3>4. QED BY <1>1, <1>4, <2>1, <2>3, <3>2, <3>3
  <2>4. QED BY <2>2, <2>3
<1>6. CASE Find(t)
  <2>1. idem[u] = "completed" /\ idem' = idem /\ audits' = audits /\ at[t] = "find"
    BY <1>1, <1>6 DEF Find, TaskMatches, AfterUc01
  <2>2. CASE Then(t, "keepSnapshot")
    <3>1. /\ upd' = upd /\ (cut'[u] = cut[u] \/ cut'[u] = cut[u] + 1)
          /\ at'[t] \in {"keepSnapshot", "sendOther"} /\ (cut'[u] = cut[u] => at'[t] = "keepSnapshot")
      BY <1>3, <2>2
    <3>2. QED BY <1>1, <1>4, <2>1, <3>1
  <2>3. CASE Goto(t, "sendOther") /\ UNCHANGED cut
    <3>1. at'[t] = "sendOther" /\ upd' = upd /\ cut' = cut
      BY <1>1, <2>3 DEF Goto
    <3>2. QED BY <1>1, <1>4, <2>1, <3>1
  <2>4. QED BY <1>6, <2>2, <2>3 DEF Find
<1>7. CASE KeepSnapshot(t)
  <2>1. idem[u] = "completed" /\ idem' = idem /\ audits' = audits /\ at[t] = "keepSnapshot"
    BY <1>1, <1>7 DEF KeepSnapshot, TaskMatches, AfterUc01
  <2>2. CASE Goto(t, "ledger") /\ UNCHANGED cut
    <3>1. at'[t] = "ledger" /\ upd' = upd /\ cut' = cut
      BY <1>1, <2>2 DEF Goto
    <3>2. QED BY <1>1, <1>4, <2>1, <3>1
  <2>3. CASE Fail(t)
    BY <1>1, <1>2, <1>4, <2>1, <2>3
  <2>4. QED BY <1>7, <2>2, <2>3 DEF KeepSnapshot
<1>8. ASSUME NEW step \in {"snapshot", "audit", "complete"}, Then(t, step),
             Create(t) \/ PutSnapshot(t) \/ AppendAudit(t), step = "complete" <=> AppendAudit(t)
      PROVE  /\ upd' = upd /\ (cut'[u] = cut[u] \/ cut'[u] = cut[u] + 1)
             /\ at'[t] \in {step, "sendOther"} /\ (cut'[u] = cut[u] => at'[t] = step)
             /\ idem' = idem /\ at[t] \in {"create", "snapshot", "audit"}
             /\ audits'[u] = IF step = "complete" THEN audits[u] + 1 ELSE audits[u]
  <2>1. step \in Steps
    OBVIOUS
  <2>2. /\ idem' = idem /\ at[t] \in {"create", "snapshot", "audit"}
        /\ audits'[u] = IF step = "complete" THEN audits[u] + 1 ELSE audits[u]
    BY <1>1, <1>8 DEF Create, PutSnapshot, AppendAudit
  <2>3. QED BY <1>3, <1>8, <2>1, <2>2
<1>9. CASE Create(t) \/ PutSnapshot(t) \/ AppendAudit(t)
  <2>1. PICK step \in {"snapshot", "audit", "complete"} : Then(t, step) /\ (step = "complete" <=> AppendAudit(t))
    BY <1>9 DEF Create, PutSnapshot, AppendAudit
  <2>2. QED BY <1>1, <1>4, <1>8, <1>9, <2>1
<1>10. CASE Complete(t)
  <2>1. idem'[u] = "completed" /\ audits' = audits /\ at[t] = "complete"
    BY <1>1, <1>10 DEF Complete
  <2>2. CASE Goto(t, "pending") /\ UNCHANGED cut
    <3>1. at'[t] = "pending" /\ upd' = upd /\ cut' = cut
      BY <1>1, <2>2 DEF Goto
    <3>2. QED BY <1>1, <1>4, <2>1, <3>1
  <2>3. CASE Fail(t)
    BY <1>1, <1>2, <1>4, <2>1, <2>3
  <2>4. QED BY <1>10, <2>2, <2>3 DEF Complete
<1>11. CASE Refused(t)
  BY <1>1, <1>2, <1>4, <1>11 DEF Refused
<1>12. QED
  BY <1>5, <1>6, <1>7, <1>9, <1>10, <1>11 DEF Uc01

\* The same of a step of the sending.
LEMMA SendPays ==
    ASSUME TablesInv, RowBeforeMessage, NEW t \in Tasks, Send(t), NEW u, u = upd[t]
    PROVE  /\ u \in Updates /\ UNCHANGED <<audits, idem>>
           /\ cut'[u] = cut[u] \/ cut'[u] = cut[u] + 1
           /\ at[t] \notin AuditLine /\ t \notin ToAudit(u)'
           /\ \/ welcomes'[u] = welcomes[u] /\ (t \in ToWelcome(u)' => t \in ToWelcome(u))
              \/ welcomes'[u] = welcomes[u] + 1 /\ t \in ToWelcome(u) /\ t \notin ToWelcome(u)'
           /\ cut'[u] = cut[u] =>
                 \/ upd'[t] = u /\ at'[t] \in WelcomeLine
                 \/ ledger'[u] = "sent"
                 \/ at[t] \notin WelcomeLine
                 \/ welcomes'[u] = welcomes[u] /\ t \in ToWelcome(u) /\ t \notin ToWelcome(u)'
<1> USE DEF ToAudit, ToWelcome, AuditLine, WelcomeLine, Uc01Steps
<1>1. /\ u \in Updates
      /\ at \in [Tasks -> Steps] /\ upd \in [Tasks -> Updates \union {Null}]
      /\ cut \in [Updates -> Nat] /\ welcomes \in [Updates -> Nat]
      /\ ledger \in [Updates -> {"none", "pending", "sent"}]
      /\ at[t] \in {"sendWelcome", "mark"} => ledger[u] # "none"
  BY Held DEF TablesInv, DeliveryTypeOK, RowBeforeMessage, Send, ReadLedger, EnsurePending, SendWelcome,
              MarkSent, SendOther, SendRefused, Done
<1>2. ASSUME Drop(t) PROVE at'[t] = "done" /\ cut'[u] = cut[u] + 1 /\ upd' = upd
  BY <1>1, <1>2 DEF Drop, Goto, Cut
<1>3. ASSUME NEW step \in Steps, Goto(t, step) /\ UNCHANGED <<cut, faults>>
      PROVE  at'[t] = step /\ cut' = cut /\ upd' = upd
  BY <1>1, <1>3 DEF Goto
<1>4. CASE ReadLedger(t)
  <2>1. at[t] = "ledger" /\ UNCHANGED <<audits, idem, ledger, welcomes>>
    BY <1>4 DEF ReadLedger, SendFrame
  <2>2. at'[t] = (IF ledger[u] = "pending" THEN "pending" ELSE "done") /\ cut' = cut /\ upd' = upd
    BY <1>3, <1>4 DEF ReadLedger, Steps
  <2>3. QED BY <1>1, <2>1, <2>2
<1>5. CASE EnsurePending(t)
  <2>1. at[t] = "pending" /\ UNCHANGED <<audits, idem, welcomes>>
    BY <1>5 DEF EnsurePending, SendFrame
  <2>2. \/ at'[t] = "sendWelcome" /\ cut' = cut /\ upd' = upd
        \/ Drop(t)
    BY <1>3, <1>5 DEF EnsurePending, Steps
  <2>3. QED BY <1>1, <1>2, <2>1, <2>2
<1>6. CASE SendWelcome(t)
  <2>1. at[t] = "sendWelcome" /\ UNCHANGED <<audits, idem, ledger>> /\ welcomes'[u] = welcomes[u] + 1
    BY <1>1, <1>6 DEF SendWelcome, SendFrame
  <2>2. \/ at'[t] = "mark" /\ cut' = cut /\ upd' = upd
        \/ Drop(t)
    BY <1>3, <1>6 DEF SendWelcome, Steps
  <2>3. QED BY <1>1, <1>2, <2>1, <2>2
<1>7. CASE MarkSent(t)
  <2>1. at[t] = "mark" /\ UNCHANGED <<audits, idem, welcomes>>
    BY <1>7 DEF MarkSent, SendFrame
  <2>2. ledger'[u] = "sent"
    BY <1>1, <1>7, <2>1 DEF MarkSent
  <2>3. \/ at'[t] = "done" /\ cut' = cut /\ upd' = upd
        \/ Drop(t)
    BY <1>3, <1>7 DEF MarkSent, Steps
  <2>4. QED BY <1>1, <1>2, <2>1, <2>2, <2>3
<1>8. CASE SendOther(t)
  <2>1. at[t] = "sendOther" /\ UNCHANGED <<audits, idem, welcomes, ledger>>
    BY <1>8 DEF SendOther, SendFrame
  <2>2. at'[t] = "done" /\ cut' = cut /\ upd' = upd
    BY <1>3, <1>8 DEF SendOther, Steps
  <2>3. QED BY <1>1, <2>1, <2>2
<1>9. CASE SendRefused(t)
  BY <1>1, <1>2, <1>9 DEF SendRefused, SendFrame
<1>10. CASE Done(t)
  <2>1. at[t] = "done" /\ UNCHANGED <<audits, idem, welcomes, ledger, cut>>
    BY <1>10 DEF Done, tables, history
  <2>2. at'[t] = "idle"
    BY <1>1, <1>10 DEF Done, Free
  <2>3. QED BY <1>1, <2>1, <2>2
<1>11. QED
  BY <1>4, <1>5, <1>6, <1>7, <1>8, <1>9, <1>10 DEF Send

\* Any step of a task.
LEMMA WorkPays ==
    ASSUME TablesInv, RowBeforeMessage, NEW t \in Tasks, Work(t), NEW u, u = upd[t]
    PROVE  /\ u \in Updates /\ upd'[t] \in {u, Null}
           /\ cut'[u] = cut[u] \/ cut'[u] = cut[u] + 1
           /\ \/ audits'[u] = audits[u] /\ (t \in ToAudit(u)' => t \in ToAudit(u))
              \/ audits'[u] = audits[u] + 1 /\ t \in ToAudit(u) /\ t \notin ToAudit(u)'
           /\ \/ welcomes'[u] = welcomes[u] /\ (t \in ToWelcome(u)' => t \in ToWelcome(u))
              \/ welcomes'[u] = welcomes[u] + 1 /\ t \in ToWelcome(u) /\ t \notin ToWelcome(u)'
           /\ cut'[u] = cut[u] =>
                 /\ \/ upd'[t] = u /\ at'[t] \in AuditLine
                    \/ idem'[u] = "completed"
                    \/ at[t] \notin AuditLine
                 /\ \/ upd'[t] = u /\ at'[t] \in WelcomeLine
                    \/ ledger'[u] = "sent"
                    \/ at[t] \notin WelcomeLine
                    \/ welcomes'[u] = welcomes[u] /\ t \in ToWelcome(u) /\ t \notin ToWelcome(u)'
<1>1. CASE Uc01(t)
  BY <1>1, Uc01Pays
<1>2. CASE Send(t)
  <2>1. upd'[t] \in {u, Null}
    BY <1>2 DEF Send, ReadLedger, EnsurePending, SendWelcome, MarkSent, SendOther, SendRefused, Done, Drop,
                Goto, Free, TablesInv, DeliveryTypeOK
  <2>2. t \in ToAudit(u)' => t \in ToAudit(u)
    BY <1>2, SendPays
  <2>3. QED BY <1>2, <2>1, <2>2, SendPays
<1>3. CASE MarkSeen(t) \/ MarkSeenRefused(t) \/ Serve(t) \/ ServeRaises(t)
  <2>1. /\ u \in Updates /\ at[t] \in {"dedup", "serve"}
        /\ at \in [Tasks -> Steps] /\ upd \in [Tasks -> Updates \union {Null}]
        /\ cut \in [Updates -> Nat]
    BY <1>3, Held DEF MarkSeen, MarkSeenRefused, Serve, ServeRaises, TablesInv, DeliveryTypeOK
  <2>2. upd'[t] \in {u, Null} /\ at'[t] \in {"serve", "done", "sendOther", "idle"}
    BY <1>3, <2>1 DEF MarkSeen, MarkSeenRefused, Serve, ServeRaises, Drop, Goto, Free
  <2>3. UNCHANGED <<audits, welcomes>>
    BY <1>3 DEF MarkSeen, MarkSeenRefused, Serve, ServeRaises, tables
  <2>4. cut'[u] = cut[u] \/ cut'[u] = cut[u] + 1
    BY <1>3, <2>1 DEF MarkSeen, MarkSeenRefused, Serve, ServeRaises, Drop, Cut
  <2>5. /\ t \notin ToAudit(u)' /\ t \notin ToWelcome(u)'
        /\ at[t] \notin AuditLine /\ at[t] \notin WelcomeLine
    BY <2>1, <2>2 DEF ToAudit, ToWelcome, AuditLine, WelcomeLine, Uc01Steps
  <2>6. QED BY <2>1, <2>2, <2>3, <2>4, <2>5
<1>4. QED BY <1>1, <1>2, <1>3 DEF Work

\* What becomes of the other tasks on a /start, whoever works.
LEMMA OthersOnTheLine ==
    ASSUME TablesInv, [Next]_vars, NEW t \in Tasks, NEW v \in Starts,
           \A s \in Tasks \ {t} : at'[s] = at[s] /\ upd'[s] = upd[s]
    PROVE  /\ ToAudit(v)' \ {t} \subseteq ToAudit(v) /\ ToWelcome(v)' \ {t} \subseteq ToWelcome(v)
           /\ \/ idem'[v] = "completed" \/ Auditing(v)'
              \/ ~(idem[v] = "completed" \/ Auditing(v))
              \/ upd[t] = v /\ at[t] \in AuditLine
           /\ \/ ledger'[v] = "sent" \/ Welcoming(v)'
              \/ ~(ledger[v] = "sent" \/ Welcoming(v))
              \/ upd[t] = v /\ at[t] \in WelcomeLine
<1>1. /\ idem[v] = "completed" => idem'[v] = "completed"
      /\ ledger[v] = "sent" => ledger'[v] = "sent"
  BY TablesGrow, DeliveryAssumption DEF RowStep
<1>2. ToAudit(v)' \ {t} \subseteq ToAudit(v) /\ ToWelcome(v)' \ {t} \subseteq ToWelcome(v)
  BY <1>1 DEF ToAudit, ToWelcome
<1>3. /\ Auditing(v) => Auditing(v)' \/ (upd[t] = v /\ at[t] \in AuditLine)
      /\ Welcoming(v) => Welcoming(v)' \/ (upd[t] = v /\ at[t] \in WelcomeLine)
  BY DEF Auditing, Welcoming
<1>4. QED BY <1>1, <1>2, <1>3

LEMMA WorkKeepsAccounts ==
    ASSUME TablesInv, RowBeforeMessage, AuditsArePaid, WelcomesArePaid, [Next]_vars,
           NEW t \in Tasks, Work(t), NEW v \in Starts
    PROVE  /\ audits'[v] + Cardinality(ToAudit(v)') <=
                cut'[v] + One(idem'[v] = "completed" \/ Auditing(v)')
           /\ welcomes'[v] + Cardinality(ToWelcome(v)') <=
                cut'[v] + One(ledger'[v] = "sent" \/ Welcoming(v)')
<1> DEFINE due == idem[v] = "completed" \/ Auditing(v)
           stays == idem'[v] = "completed" \/ Auditing(v)'
           wDue == ledger[v] = "sent" \/ Welcoming(v)
           wStays == ledger'[v] = "sent" \/ Welcoming(v)'
<1>1. /\ v \in Updates /\ audits[v] \in Nat /\ welcomes[v] \in Nat /\ cut[v] \in Nat
      /\ audits'[v] \in Nat /\ welcomes'[v] \in Nat /\ cut'[v] \in Nat
  <2>1. v \in Updates /\ DeliveryTypeOK'
    BY TypeStep, DeliveryAssumption
  <2>2. QED BY <2>1 DEF TablesInv, DeliveryTypeOK
<1>2. /\ ToAudit(v) \in SUBSET Tasks /\ ToAudit(v)' \in SUBSET Tasks
      /\ ToWelcome(v) \in SUBSET Tasks /\ ToWelcome(v)' \in SUBSET Tasks
  BY DEF ToAudit, ToWelcome
<1>3. /\ due \in BOOLEAN /\ stays \in BOOLEAN /\ wDue \in BOOLEAN /\ wStays \in BOOLEAN
  BY DEF Auditing, Welcoming
<1>4. \A s \in Tasks \ {t} : at'[s] = at[s] /\ upd'[s] = upd[s]
  BY OthersStay
<1>5. /\ ToAudit(v)' \ {t} \subseteq ToAudit(v) /\ ToWelcome(v)' \ {t} \subseteq ToWelcome(v)
      /\ stays \/ ~due \/ (upd[t] = v /\ at[t] \in AuditLine)
      /\ wStays \/ ~wDue \/ (upd[t] = v /\ at[t] \in WelcomeLine)
  BY <1>4, OthersOnTheLine
<1>6. /\ audits[v] + Cardinality(ToAudit(v)) <= cut[v] + One(due)
      /\ welcomes[v] + Cardinality(ToWelcome(v)) <= cut[v] + One(wDue)
  BY DEF AuditsArePaid, WelcomesArePaid
<1>7. /\ cut'[v] = cut[v] \/ cut'[v] = cut[v] + 1
      /\ \/ audits'[v] = audits[v] /\ (t \in ToAudit(v)' => t \in ToAudit(v))
         \/ audits'[v] = audits[v] + 1 /\ t \in ToAudit(v) /\ t \notin ToAudit(v)'
      /\ \/ welcomes'[v] = welcomes[v] /\ (t \in ToWelcome(v)' => t \in ToWelcome(v))
         \/ welcomes'[v] = welcomes[v] + 1 /\ t \in ToWelcome(v) /\ t \notin ToWelcome(v)'
      /\ cut'[v] = cut[v] => stays \/ ~due
      /\ cut'[v] = cut[v] =>
           wStays \/ ~wDue \/ (welcomes'[v] = welcomes[v] /\ t \in ToWelcome(v) /\ t \notin ToWelcome(v)')
  <2>1. CASE v = upd[t]
    <3>1. upd'[t] = v /\ at'[t] \in AuditLine => stays
      BY DEF Auditing
    <3>2. upd'[t] = v /\ at'[t] \in WelcomeLine => wStays
      BY DEF Welcoming
    <3>3. /\ stays \/ idem'[v] # "completed"
          /\ wStays \/ ledger'[v] # "sent"
      OBVIOUS
    <3> HIDE DEF due, stays, wDue, wStays
    <3>4. QED BY <1>5, <2>1, <3>1, <3>2, <3>3, WorkPays
  <2>2. CASE v # upd[t]
    <3>1. audits'[v] = audits[v] /\ welcomes'[v] = welcomes[v] /\ cut'[v] = cut[v]
      BY <1>1, <2>2, WorkIsLocal
    <3>2. upd'[t] # v
      BY <1>1, <2>2, WorkPays, NoUpdate
    <3>3. t \notin ToAudit(v)' /\ t \notin ToWelcome(v)'
      BY <3>2 DEF ToAudit, ToWelcome
    <3>4. QED BY <1>5, <2>2, <3>1, <3>3
  <2>3. QED BY <2>1, <2>2
<1> HIDE DEF due, stays, wDue, wStays
<1>8. Moves(ToAudit(v), ToAudit(v)', t, audits[v], audits'[v], cut[v], cut'[v], due, stays)
  BY <1>1, <1>2, <1>3, <1>5, <1>6, <1>7 DEF Moves
<1>9. Moves(ToWelcome(v), ToWelcome(v)', t, welcomes[v], welcomes'[v], cut[v], cut'[v], wDue, wStays)
  BY <1>1, <1>2, <1>3, <1>5, <1>6, <1>7 DEF Moves
<1>10. audits'[v] + Cardinality(ToAudit(v)') <= cut'[v] + One(stays)
  BY <1>8, OneTaskMoves
<1>11. welcomes'[v] + Cardinality(ToWelcome(v)') <= cut'[v] + One(wStays)
  BY <1>9, OneTaskMoves
<1>12. QED BY <1>10, <1>11 DEF stays, wStays

\* The account when a task starts on the update: it is due from now on, and a
\* fault pays for the task if others have it already.
Joins(A, B, t, n, c, d, due) ==
    /\ A \in SUBSET Tasks /\ B \in SUBSET Tasks /\ t \in Tasks /\ B \ {t} \subseteq A
    /\ n \in Nat /\ c \in Nat /\ d \in Nat /\ due \in BOOLEAN
    /\ n + Cardinality(A) <= c + One(due)
    /\ d = c + 1 \/ (d = c /\ A = {} /\ (t \in B => ~due))
LEMMA OneTaskJoins ==
    ASSUME NEW A, NEW B, NEW t, NEW n, NEW c, NEW d, NEW due, Joins(A, B, t, n, c, d, due)
    PROVE  n + Cardinality(B) <= d + One(TRUE)
<1> USE DEF Joins
<1>1. /\ IsFiniteSet(A) /\ IsFiniteSet(B)
      /\ Cardinality(A) \in Nat /\ Cardinality(B) \in Nat
  BY SomeTasks
<1>2. IsFiniteSet(A \union {t}) /\ Cardinality(A \union {t}) <= Cardinality(A) + 1
  <2>1. CASE t \in A
    <3>1. A \union {t} = A
      BY <2>1
    <3>2. QED BY <1>1, <3>1
  <2>2. CASE t \notin A
    <3>1. IsFiniteSet(A \union {t}) /\ Cardinality(A \union {t}) = Cardinality(A) + 1
      BY <1>1, <2>2, FS_AddElement
    <3>2. QED BY <1>1, <3>1
  <2>3. QED BY <2>1, <2>2
<1>3. Cardinality(B) <= Cardinality(A \union {t}) /\ Cardinality(A \union {t}) \in Nat
  BY <1>2, FS_Subset, FS_CardinalityType
<1>4. CASE d = c + 1
  BY <1>1, <1>2, <1>3, <1>4 DEF One
<1>5. CASE d = c /\ A = {} /\ t \in B /\ ~due
  BY <1>1, <1>2, <1>3, <1>5 DEF One
<1>6. CASE d = c /\ A = {} /\ t \notin B
  <2>1. B \subseteq A
    BY <1>6
  <2>2. Cardinality(B) <= Cardinality(A)
    BY <1>1, <2>1, FS_Subset
  <2>3. QED BY <1>1, <1>6, <2>2 DEF One
<1>7. QED BY <1>4, <1>5, <1>6

LEMMA JoinKeepsAccounts ==
    ASSUME TablesInv, AuditsArePaid, WelcomesArePaid, [Next]_vars,
           NEW t \in Tasks, at[t] = "idle", NEW u \in Updates, NEW step \in Steps, Hold(t, u, step),
           u \in Starts => step = "begin",
           UNCHANGED <<idem, ledger, audits, welcomes>>,
           \/ UNCHANGED cut /\ \A s \in Tasks : upd[s] # u
           \/ Cut(u),
           NEW v \in Starts
    PROVE  /\ audits'[v] + Cardinality(ToAudit(v)') <=
                cut'[v] + One(idem'[v] = "completed" \/ Auditing(v)')
           /\ welcomes'[v] + Cardinality(ToWelcome(v)') <=
                cut'[v] + One(ledger'[v] = "sent" \/ Welcoming(v)')
<1> DEFINE due == idem[v] = "completed" \/ Auditing(v)
           stays == idem'[v] = "completed" \/ Auditing(v)'
           wDue == ledger[v] = "sent" \/ Welcoming(v)
           wStays == ledger'[v] = "sent" \/ Welcoming(v)'
<1>1. /\ v \in Updates /\ audits[v] \in Nat /\ welcomes[v] \in Nat /\ cut[v] \in Nat
      /\ cut \in [Updates -> Nat]
      /\ at \in [Tasks -> Steps] /\ upd \in [Tasks -> Updates \union {Null}]
      /\ upd[t] = Null /\ upd[t] # v
  BY DeliveryAssumption, NoUpdate DEF TablesInv, DeliveryTypeOK, TasksMatchTables, TaskMatches
<1>2. /\ ToAudit(v) \in SUBSET Tasks /\ ToAudit(v)' \in SUBSET Tasks
      /\ ToWelcome(v) \in SUBSET Tasks /\ ToWelcome(v)' \in SUBSET Tasks
  BY DEF ToAudit, ToWelcome
<1>3. /\ due \in BOOLEAN /\ stays \in BOOLEAN /\ wDue \in BOOLEAN /\ wStays \in BOOLEAN
  BY DEF Auditing, Welcoming
<1>4. /\ at'[t] = step /\ upd'[t] = u
      /\ \A s \in Tasks \ {t} : at'[s] = at[s] /\ upd'[s] = upd[s]
  BY <1>1 DEF Hold
<1>5. /\ ToAudit(v)' \ {t} \subseteq ToAudit(v) /\ ToWelcome(v)' \ {t} \subseteq ToWelcome(v)
      /\ stays \/ ~due
      /\ wStays \/ ~wDue
  BY <1>1, <1>4, OthersOnTheLine
<1>6. /\ audits[v] + Cardinality(ToAudit(v)) <= cut[v] + One(due)
      /\ welcomes[v] + Cardinality(ToWelcome(v)) <= cut[v] + One(wDue)
  BY DEF AuditsArePaid, WelcomesArePaid
<1>7. CASE v # u
  <2>1. cut'[v] = cut[v]
    BY <1>1, <1>7 DEF Cut
  <2>2. t \notin ToAudit(v)' /\ t \notin ToWelcome(v)'
    BY <1>4, <1>7 DEF ToAudit, ToWelcome
  <2> HIDE DEF due, stays, wDue, wStays
  <2>3. Moves(ToAudit(v), ToAudit(v)', t, audits[v], audits[v], cut[v], cut'[v], due, stays)
    BY <1>1, <1>2, <1>3, <1>5, <1>6, <2>1, <2>2 DEF Moves
  <2>4. Moves(ToWelcome(v), ToWelcome(v)', t, welcomes[v], welcomes[v], cut[v], cut'[v], wDue, wStays)
    BY <1>1, <1>2, <1>3, <1>5, <1>6, <2>1, <2>2 DEF Moves
  <2>5. /\ audits[v] + Cardinality(ToAudit(v)') <= cut'[v] + One(stays)
        /\ welcomes[v] + Cardinality(ToWelcome(v)') <= cut'[v] + One(wStays)
    BY <2>3, <2>4, OneTaskMoves
  <2>6. QED BY <2>5 DEF stays, wStays
<1>8. CASE v = u
  <2>1. at'[t] = "begin" /\ stays /\ wStays
    BY <1>4, <1>8 DEF Auditing, Welcoming, AuditLine, WelcomeLine, Uc01Steps
  <2>2. /\ t \in ToAudit(v)' => idem[v] # "completed"
        /\ t \in ToWelcome(v)' => ledger[v] # "sent"
    BY <2>1 DEF ToAudit, ToWelcome
  <2>3. \/ cut'[v] = cut[v] + 1
        \/ cut'[v] = cut[v] /\ \A s \in Tasks : upd[s] # v
    BY <1>1, <1>8 DEF Cut
  <2>4. (\A s \in Tasks : upd[s] # v) => /\ ToAudit(v) = {} /\ ToWelcome(v) = {}
                                         /\ ~Auditing(v) /\ ~Welcoming(v)
    BY DEF ToAudit, ToWelcome, Auditing, Welcoming
  <2>5. cut'[v] \in Nat
    BY <1>1, <2>3
  <2>6. Joins(ToAudit(v), ToAudit(v)', t, audits[v], cut[v], cut'[v], due)
    BY <1>1, <1>2, <1>3, <1>5, <1>6, <2>2, <2>3, <2>4, <2>5 DEF Joins
  <2>7. Joins(ToWelcome(v), ToWelcome(v)', t, welcomes[v], cut[v], cut'[v], wDue)
    BY <1>1, <1>2, <1>3, <1>5, <1>6, <2>2, <2>3, <2>4, <2>5 DEF Joins
  <2>8. /\ audits[v] + Cardinality(ToAudit(v)') <= cut'[v] + One(TRUE)
        /\ welcomes[v] + Cardinality(ToWelcome(v)') <= cut'[v] + One(TRUE)
    BY <2>6, <2>7, OneTaskJoins
  <2>9. QED BY <2>1, <2>8 DEF One
<1>9. QED BY <1>7, <1>8

\* A restart leaves nobody working; whoever was cut pays for what was due.
LEMMA RestartKeepsAccounts ==
    ASSUME TablesInv, AuditsArePaid, WelcomesArePaid, StopAndStart \/ Crash, NEW v \in Starts
    PROVE  /\ audits'[v] + Cardinality(ToAudit(v)') <=
                cut'[v] + One(idem'[v] = "completed" \/ Auditing(v)')
           /\ welcomes'[v] + Cardinality(ToWelcome(v)') <=
                cut'[v] + One(ledger'[v] = "sent" \/ Welcoming(v)')
<1>1. /\ v \in Updates /\ audits[v] \in Nat /\ welcomes[v] \in Nat /\ cut[v] \in Nat
  BY DeliveryAssumption DEF TablesInv, DeliveryTypeOK
<1>2. /\ UNCHANGED <<idem, ledger, audits, welcomes>>
      /\ \A t \in Tasks : at'[t] = "idle"
  BY DEF StopAndStart, Crash, Restart, tables
<1>3. /\ ToAudit(v)' = {} /\ ToWelcome(v)' = {} /\ ~Auditing(v)' /\ ~Welcoming(v)'
  BY <1>2 DEF ToAudit, ToWelcome, Auditing, Welcoming, AuditLine, WelcomeLine, Uc01Steps
<1>4. \/ cut'[v] = cut[v] + 1
      \/ cut'[v] = cut[v] /\ ~Auditing(v) /\ ~Welcoming(v)
  BY <1>1 DEF StopAndStart, Crash, Auditing, Welcoming, AuditLine, WelcomeLine, Uc01Steps
<1>5. Cardinality(ToAudit(v)) \in Nat /\ Cardinality(ToWelcome(v)) \in Nat
  <2>1. ToAudit(v) \in SUBSET Tasks /\ ToWelcome(v) \in SUBSET Tasks
    BY DEF ToAudit, ToWelcome
  <2>2. QED BY <2>1, SomeTasks
<1>6. /\ audits[v] + Cardinality(ToAudit(v)) <=
           cut[v] + One(idem[v] = "completed" \/ Auditing(v))
      /\ welcomes[v] + Cardinality(ToWelcome(v)) <=
           cut[v] + One(ledger[v] = "sent" \/ Welcoming(v))
  BY DEF AuditsArePaid, WelcomesArePaid
<1>7. Cardinality(ToAudit(v)') = 0 /\ Cardinality(ToWelcome(v)') = 0
  BY <1>3, FS_EmptySet
<1>8. QED BY <1>1, <1>2, <1>3, <1>4, <1>5, <1>6, <1>7 DEF One

\* A task that is about to send, or has sent, made sure of the row.
LEMMA RowComesFirst ==
    ASSUME TablesInv, RowBeforeMessage, [Next]_vars PROVE RowBeforeMessage'
<1>1. /\ at \in [Tasks -> Steps] /\ upd \in [Tasks -> Updates \union {Null}]
      /\ ledger \in [Updates -> {"none", "pending", "sent"}]
  BY DEF TablesInv, DeliveryTypeOK
<1>2. ASSUME NEW s \in Tasks, at'[s] = at[s], upd'[s] = upd[s], at'[s] \in {"sendWelcome", "mark"}
      PROVE  ledger'[upd'[s]] # "none"
  <2>1. upd[s] \in Updates
    BY <1>2, Held
  <2>2. ledger[upd[s]] # "none"
    BY <1>2 DEF RowBeforeMessage
  <2>3. QED BY <1>1, <1>2, <2>1, <2>2, TablesGrow DEF RowStep
<1>3. ASSUME NEW t \in Tasks, Work(t) PROVE RowBeforeMessage'
  <2>1. \A s \in Tasks \ {t} : at'[s] = at[s] /\ upd'[s] = upd[s]
    BY <1>3, OthersStay
  <2>2. ASSUME at'[t] \in {"sendWelcome", "mark"} PROVE ledger'[upd'[t]] # "none"
    <3>1. at[t] # "idle"
      BY <1>3 DEF Work, MarkSeen, MarkSeenRefused, Uc01, Begin, Find, KeepSnapshot, Create, PutSnapshot,
           AppendAudit, Complete, Refused, Uc01Steps, Serve, ServeRaises, Send, ReadLedger, EnsurePending,
           SendWelcome, MarkSent, SendOther, SendRefused, Done
    <3>2. upd[t] \in Updates
      BY <3>1, Held
    <3>3. EnsurePending(t) \/ SendWelcome(t)
      BY <1>1, <1>3, <2>2 DEF Work, MarkSeen, MarkSeenRefused, Uc01, Begin, Find, KeepSnapshot, Create,
           PutSnapshot, AppendAudit, Complete, Refused, Then, Fail, Serve, ServeRaises, Send, ReadLedger, MarkSent,
           SendOther, SendRefused, Done, Drop, Goto, Free
    <3>4. upd' = upd
      BY <3>3 DEF EnsurePending, SendWelcome, Drop, Goto
    <3>5. CASE EnsurePending(t)
      BY <1>1, <3>2, <3>4, <3>5 DEF EnsurePending
    <3>6. CASE SendWelcome(t)
      BY <3>4, <3>6 DEF SendWelcome, RowBeforeMessage
    <3>7. QED BY <3>3, <3>5, <3>6
  <2>3. QED BY <1>2, <2>1, <2>2 DEF RowBeforeMessage
<1>4. ASSUME NEW t \in Tasks, NEW u \in Updates, Receive(t, u) PROVE RowBeforeMessage'
  <2>1. at'[t] \in {"dedup", "begin", "serve"} /\ \A s \in Tasks \ {t} : at'[s] = at[s] /\ upd'[s] = upd[s]
    BY <1>1, <1>4 DEF Receive, Hold, Entry
  <2>2. QED BY <1>2, <2>1 DEF RowBeforeMessage
<1>5. CASE TakeNext
  <2>1. at'[Poller] \in {"begin", "serve"}
        /\ \A s \in Tasks \ {Poller} : at'[s] = at[s] /\ upd'[s] = upd[s]
    BY <1>1, <1>5, DeliveryAssumption DEF TakeNext, Hold, Entry
  <2>2. QED BY <1>2, <2>1 DEF RowBeforeMessage
<1>6. CASE Fetch \/ FetchFails \/ UNCHANGED vars
  BY <1>2, <1>6 DEF Fetch, FetchFails, vars, tasks, RowBeforeMessage
<1>7. CASE StopAndStart \/ Crash
  BY <1>7 DEF StopAndStart, Crash, Restart, RowBeforeMessage
<1>8. QED BY <1>3, <1>4, <1>5, <1>6, <1>7 DEF Next, Poll

LEMMA AccountsStay ==
    ASSUME PaidInv, [Next]_vars PROVE AuditsArePaid' /\ WelcomesArePaid'
<1> DEFINE Paid(v) ==
        /\ audits'[v] + Cardinality(ToAudit(v)') <=
             cut'[v] + One(idem'[v] = "completed" \/ Auditing(v)')
        /\ welcomes'[v] + Cardinality(ToWelcome(v)') <=
             cut'[v] + One(ledger'[v] = "sent" \/ Welcoming(v)')
<1> SUFFICES ASSUME NEW v \in Starts PROVE Paid(v)
  BY DEF AuditsArePaid, WelcomesArePaid
<1> USE DEF PaidInv
<1>1. TablesInv /\ OnlyThePollerPolls
  BY DEF ConfirmedInv
<1>2. ASSUME NEW t \in Tasks, Work(t) PROVE Paid(v)
  BY <1>1, <1>2, WorkKeepsAccounts
<1>3. ASSUME NEW t \in Tasks, NEW u \in Updates, Receive(t, u) PROVE Paid(v)
  <2> DEFINE step == IF u \in Mutating THEN "dedup" ELSE Entry(u)
  <2>1. /\ at[t] = "idle" /\ Hold(t, u, step) /\ UNCHANGED <<idem, ledger, audits, welcomes>>
        /\ \/ UNCHANGED cut /\ \A s \in Tasks : upd[s] # u
           \/ Cut(u)
    BY <1>3 DEF Receive, tables
  <2>2. step \in Steps /\ (u \in Starts => step = "begin")
    BY DeliveryAssumption DEF Entry, Steps, Uc01Steps
  <2> HIDE DEF step
  <2>3. QED BY <1>1, <2>1, <2>2, JoinKeepsAccounts
<1>4. CASE TakeNext
  <2>1. PICK u \in batch : Hold(Poller, u, Entry(u))
    BY <1>4 DEF TakeNext
  <2>2. /\ u \in Updates /\ Poller \in Tasks /\ at[Poller] = "idle"
        /\ UNCHANGED <<idem, ledger, audits, welcomes, cut>> /\ mode = "polling"
    BY <1>1, <1>4, DeliveryAssumption DEF TakeNext, TablesInv, DeliveryTypeOK, tables, history
  <2>3. Entry(u) \in Steps /\ (u \in Starts => Entry(u) = "begin")
    BY DEF Entry, Steps, Uc01Steps
  <2>4. \A s \in Tasks : upd[s] # u
    BY <1>1, <2>2, NoUpdate DEF OnlyThePollerPolls, TablesInv, TasksMatchTables, TaskMatches
  <2>5. QED BY <1>1, <2>1, <2>2, <2>3, <2>4, JoinKeepsAccounts
<1>5. CASE StopAndStart \/ Crash
  BY <1>1, <1>5, RestartKeepsAccounts
<1>6. CASE Fetch \/ FetchFails \/ UNCHANGED vars
  <2>1. UNCHANGED <<at, upd, idem, ledger, audits, welcomes, cut>>
    BY <1>6 DEF Fetch, FetchFails, vars, tasks, tables, history
  <2>2. /\ ToAudit(v)' = ToAudit(v) /\ ToWelcome(v)' = ToWelcome(v)
        /\ Auditing(v)' = Auditing(v) /\ Welcoming(v)' = Welcoming(v)
    BY <2>1 DEF ToAudit, ToWelcome, Auditing, Welcoming
  <2>3. QED BY <2>1, <2>2 DEF AuditsArePaid, WelcomesArePaid
<1>7. QED BY <1>2, <1>3, <1>4, <1>5, <1>6 DEF Next, Poll

LEMMA PaidInvariant == Spec => []PaidInv
<1>1. Init => AuditsArePaid /\ WelcomesArePaid /\ RowBeforeMessage
  <2> SUFFICES ASSUME Init PROVE AuditsArePaid /\ WelcomesArePaid /\ RowBeforeMessage
    OBVIOUS
  <2>1. ASSUME NEW u \in Starts
        PROVE  /\ ToAudit(u) = {} /\ ToWelcome(u) = {} /\ ~Auditing(u) /\ ~Welcoming(u)
               /\ audits[u] = 0 /\ welcomes[u] = 0 /\ cut[u] = 0
               /\ idem[u] = "none" /\ ledger[u] = "none"
    BY DeliveryAssumption
       DEF Init, ToAudit, ToWelcome, Auditing, Welcoming, AuditLine, WelcomeLine, Uc01Steps
  <2>2. AuditsArePaid /\ WelcomesArePaid
    BY <2>1, FS_EmptySet DEF AuditsArePaid, WelcomesArePaid, One
  <2>3. QED BY <2>2 DEF Init, RowBeforeMessage
<1>2. PaidInv /\ [Next]_vars => AuditsArePaid' /\ WelcomesArePaid' /\ RowBeforeMessage'
  BY AccountsStay, RowComesFirst DEF PaidInv, ConfirmedInv
<1>3. QED BY <1>1, <1>2, ConfirmedInvariant, PTL DEF Spec, PaidInv

\* Every audit row and every ready message beyond the first of a /start goes
\* with a fault, a crash or an overlapping request of its own, in any number of
\* replays, requests and restarts.
THEOREM NothingIsTwiceForFree == Spec => []NothingTwiceWithoutFault
<1>1. PaidInv => NothingTwiceWithoutFault
  <2> SUFFICES ASSUME PaidInv, NEW u \in Starts
               PROVE  audits[u] <= 1 + cut[u] /\ welcomes[u] <= 1 + cut[u]
    BY DEF NothingTwiceWithoutFault
  <2>1. audits[u] \in Nat /\ welcomes[u] \in Nat /\ cut[u] \in Nat
    BY DeliveryAssumption DEF PaidInv, ConfirmedInv, TablesInv, DeliveryTypeOK
  <2>2. Cardinality(ToAudit(u)) \in Nat /\ Cardinality(ToWelcome(u)) \in Nat
    <3>1. ToAudit(u) \in SUBSET Tasks /\ ToWelcome(u) \in SUBSET Tasks
      BY DEF ToAudit, ToWelcome
    <3>2. QED BY <3>1, SomeTasks
  <2>3. /\ audits[u] + Cardinality(ToAudit(u)) <=
             cut[u] + One(idem[u] = "completed" \/ Auditing(u))
        /\ welcomes[u] + Cardinality(ToWelcome(u)) <=
             cut[u] + One(ledger[u] = "sent" \/ Welcoming(u))
    BY DEF PaidInv, AuditsArePaid, WelcomesArePaid
  <2>4. QED BY <2>1, <2>2, <2>3 DEF One
<1>2. QED BY <1>1, PaidInvariant, PTL

=============================================================================
