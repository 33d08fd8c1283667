------------------------ MODULE InternalAdminProofs ------------------------
(***************************************************************************)
(* What an answer of the internal admin process rests on, however often    *)
(* the user changes under it and however much audit evidence there is.     *)
(***************************************************************************)
EXTENDS InternalAdmin, SequenceTheorems, TLAPS

LookupSteps == {"snapshot", "entitlement", "issuance", "policy"}
DiagnosticsSteps == {"facts", "quarantine", "runs", "redact", "record"}

EnsureSteps == {"before", "current", "mutate", "after"}

\* The step belongs to the operation, past the authorization the principal is
\* on the allowlist, and ensure access runs only with the opt-in.
StepOfOp ==
    /\ step \in LookupSteps => op = "lookup"
    /\ step \in DiagnosticsSteps => op = "diagnostics"
    /\ step = "evidence" => op = "evidence"
    /\ step \in EnsureSteps \union {"audit"} => op = "ensure"
    /\ step \in LookupSteps \union DiagnosticsSteps \union EnsureSteps \union {"resolve", "evidence"}
         => request.principal = "admin"
    /\ step = "none" => op = "none"
    /\ step = "authorize" => op \in Ops
    /\ step = "resolve" => op \in {"lookup", "diagnostics", "ensure"}
    /\ step \notin {"none", "answered"} /\ op = "ensure" => settings.optIn = "on"
    /\ process = "starting" => step = "none"
    /\ step \in LookupSteps \union DiagnosticsSteps \union EnsureSteps
         \union {"none", "authorize", "resolve", "evidence", "audit", "answered"}

\* What the call holds was so when it read it.
HeldWasSeen ==
    /\ step \notin {"none", "answered", "audit"} =>
         person \in saw /\ summary = NoSummary /\ answer = "none"
    /\ step = "none" => summary = NoSummary /\ answer = "none"
    /\ step \notin {"after", "audit", "answered"} => ~wrote
    /\ step = "after" /\ wrote => issuedNew
    /\ step # "answered" => recorded = "none"
    /\ step \in {"entitlement", "issuance", "policy", "current", "mutate", "after"} =>
         \E p \in saw : Bucket(p.label) = subscription
    /\ step \in {"mutate", "after"} => \E p \in saw : p.label = "active"
    /\ step = "policy" /\ readiness = "ready" =>
         /\ \E p \in saw : p.label = "active"
         /\ \E p \in saw : p.access = "issued"
    /\ step = "quarantine" => \E p \in saw : findings = <<p.facts>>
    /\ step = "runs" => \E p, q \in saw : findings = <<p.facts, q.quarantined>>
    /\ step \in {"redact", "record"} =>
         \E p, q, s \in saw : findings = <<p.facts, q.quarantined, s.ran>>

CallInv == StepOfOp /\ HeldWasSeen /\ SummaryIsTrue /\ IssuedByTheRules

-----------------------------------------------------------------------------
(* The words of a summary. *)

LEMMA ActiveBucket == ASSUME NEW label, Bucket(label) = "active" PROVE label = "active"
<1>1. CASE label \in {"active", "cancelled", "expired"}
  BY <1>1, Zenon DEF Bucket
<1>2. CASE label \notin {"active", "cancelled", "expired"} /\ label = "needs_review"
  BY <1>2, Zenon DEF Bucket
<1>3. CASE label \notin {"active", "cancelled", "expired"} /\ label # "needs_review"
  BY <1>3, Zenon DEF Bucket
<1> QED
  BY <1>1, <1>2, <1>3

LEMMA OnlyReadyGets ==
    ASSUME NEW ready, NextAction(ready) = "use_get_access" PROVE ready = "ready"
<1>1. CASE ready \in {"not_ready", "unknown_due_to_error"} /\ ready # "ready"
  BY <1>1, Zenon DEF NextAction
<1>2. CASE ready \notin {"not_ready", "unknown_due_to_error", "ready"}
  BY <1>2, Zenon DEF NextAction
<1> QED
  BY <1>1, <1>2

LEMMA ReadyIsIssued ==
    ASSUME NEW label, NEW access, Readiness(label, IssuanceState(access)) = "ready"
    PROVE  label = "active" /\ access = "issued"
  BY DEF Readiness, IssuanceState

LEMMA SummaryFields ==
    ASSUME NEW s, NEW r, NEW n, NEW f, NEW i
    PROVE  /\ Summary(s, r, n, f, i).status = s
           /\ Summary(s, r, n, f, i).next = n
           /\ Summary(s, r, n, f, i).findings = f
  BY DEF Summary

\* The list of findings grows at its end.
LEMMA SecondFinding ==
    ASSUME NEW a, NEW b, NEW f, f = <<a>>, NEW s, s = Append(f, b)
    PROVE  s = <<a, b>>
<1> DEFINE S == {a, b}
<1>1. f \in Seq(S) /\ Len(f) = 1 /\ f[1] = a
  OBVIOUS
<1>2. s \in Seq(S) /\ Len(s) = 2 /\ s[1] = a /\ s[2] = b
  BY <1>1
<1>3. <<a, b>> \in Seq(S) /\ Len(<<a, b>>) = 2
  OBVIOUS
<1>4. \A i \in 1..Len(s) : s[i] = <<a, b>>[i]
  BY <1>2
<1> QED
  BY <1>2, <1>3, <1>4, SeqEqual

LEMMA ThirdFinding ==
    ASSUME NEW a, NEW b, NEW c, NEW f, f = <<a, b>>, NEW s, s = Append(f, c)
    PROVE  s = <<a, b, c>>
<1> DEFINE S == {a, b, c}
<1>1. f \in Seq(S) /\ Len(f) = 2 /\ f[1] = a /\ f[2] = b
  OBVIOUS
<1>2. s \in Seq(S) /\ Len(s) = 3 /\ s[1] = a /\ s[2] = b /\ s[3] = c
  BY <1>1
<1>3. <<a, b, c>> \in Seq(S) /\ Len(<<a, b, c>>) = 3
  OBVIOUS
<1>4. \A i \in 1..Len(s) : s[i] = <<a, b, c>>[i]
  BY <1>2
<1> QED
  BY <1>2, <1>3, <1>4, SeqEqual

-----------------------------------------------------------------------------
LEMMA CallInvInit == AdminInit => CallInv
  BY DEF AdminInit, CallInv, StepOfOp, HeldWasSeen, SummaryIsTrue, IssuedByTheRules, LookupSteps,
     DiagnosticsSteps, EnsureSteps

LEMMA NothingIssued == ASSUME wrote' = FALSE PROVE IssuedByTheRules'
  BY DEF IssuedByTheRules

LEMMA CallUnchanged ==
  ASSUME CallInv, UNCHANGED <<process, settings, person, callVars, factsOfAccess, saw>>
  PROVE  CallInv'
  BY DEF callVars, remedyVars, CallInv, StepOfOp, HeldWasSeen, SummaryIsTrue, IssuedByTheRules

\* The call ends with no summary and without having issued anything.
LEMMA EndsSilently ==
  ASSUME \/ step' = "answered"
         \/ step' = "audit" /\ op' = "ensure" /\ settings'.optIn = "on" /\ recorded' = "none",
         process' # "starting", summary' = NoSummary, wrote' = FALSE
  PROVE  CallInv'
  BY DEF CallInv, StepOfOp, HeldWasSeen, SummaryIsTrue, IssuedByTheRules, LookupSteps,
     DiagnosticsSteps, EnsureSteps

\* A refusal by the endpoint, before the handler is called.
LEMMA RefuseStep ==
  ASSUME CallInv, NEW o \in Ops, NEW r \in Requests, Refuse(o, r)
  PROVE  CallInv'
<1>1. step = "none" /\ op = "none" /\ wrote = FALSE
  BY DEF Refuse, CallInv, StepOfOp, HeldWasSeen, IssuedByTheRules, AdminInit
<1>2. process' # "starting" /\ wrote' = FALSE
  BY <1>1 DEF Refuse, Mounted, remedyVars
<1>3. step' = "answered" /\ summary' = NoSummary
  BY <1>1 DEF Refuse, Answer
<1> QED
  BY <1>2, <1>3, EndsSilently

\* A call that fails or is denied.
LEMMA UnansweredStep ==
  ASSUME CallInv, NEW outcome, Answer(outcome, NoSummary), Still,
         step \notin {"none", "after", "audit", "answered"}
  PROVE  CallInv'
<1>1. step' = (IF op = "ensure" THEN "audit" ELSE "answered") /\ summary' = NoSummary
  BY DEF Answer
<1>2. UNCHANGED <<process, settings, op, recorded, wrote>>
  BY DEF Still, remedyVars
<1>3. process # "starting" /\ wrote = FALSE /\ recorded = "none"
  BY DEF CallInv, StepOfOp, HeldWasSeen
<1>4. op = "ensure" => settings.optIn = "on"
  BY DEF CallInv, StepOfOp
<1> QED
  BY <1>1, <1>2, <1>3, <1>4, EndsSilently

\* The steps before the first read.
LEMMA EntryStep ==
  ASSUME CallInv,
         \/ \E o \in Ops, r \in Requests : Refuse(o, r) \/ \E p \in People(o) : Receive(o, r, p)
         \/ Authorize
         \/ Resolve
  PROVE  CallInv'
<1> USE DEF CallInv, StepOfOp, HeldWasSeen, LookupSteps, DiagnosticsSteps, EnsureSteps
<1>1. ASSUME NEW o \in Ops, NEW r \in Requests, Refuse(o, r) PROVE CallInv'
  BY <1>1, RefuseStep
<1>2. ASSUME NEW o \in Ops, NEW r \in Requests, NEW p \in People(o), Receive(o, r, p)
      PROVE  CallInv'
  <2>1. /\ step = "none" /\ step' = "authorize" /\ op' = o /\ person' = p /\ saw' = {p}
        /\ summary' = NoSummary /\ answer' = "none" /\ ~wrote' /\ recorded' = "none"
        /\ process' = "serving" /\ settings' = settings
    BY <1>2 DEF Receive, Going, Mounted, remedyVars
  <2>2. o = "ensure" => settings.optIn = "on"
    BY <1>2 DEF Receive, Mounted
  <2> QED
    BY <2>1, <2>2 DEF SummaryIsTrue, IssuedByTheRules
<1>3. CASE Authorize
  <2>1. CASE request.principal = "admin"
    <3>1. /\ step = "authorize" /\ step' = (IF op = "evidence" THEN "evidence" ELSE "resolve")
          /\ summary' = summary /\ summary = NoSummary
          /\ UNCHANGED <<process, settings, op, request, person, saw, answer, wrote, recorded>>
      BY <1>3, <2>1 DEF Authorize, Going, Still, remedyVars
    <3> QED
      BY <2>1, <3>1 DEF Ops, SummaryIsTrue, IssuedByTheRules
  <2>2. CASE request.principal # "admin"
    BY <1>3, <2>2, UnansweredStep DEF Authorize
  <2> QED
    BY <2>1, <2>2
<1>4. CASE Resolve
  <2>1. /\ step = "resolve" /\ request.principal = "admin"
        /\ op \in {"lookup", "diagnostics", "ensure"}
        /\ summary = NoSummary /\ ~wrote /\ recorded = "none" /\ process # "starting"
        /\ op = "ensure" => settings.optIn = "on"
        /\ UNCHANGED <<process, settings, op, request, person, saw, wrote, recorded>>
    BY <1>4 DEF Resolve, Still, remedyVars
  <2>2. CASE step' = FirstRead(op) /\ Going
    <3>1. /\ summary' = NoSummary /\ answer' = answer /\ answer = "none" /\ person \in saw
          /\ step' \in {"snapshot", "facts", "before"}
          /\ step' = "snapshot" => op = "lookup"
          /\ step' = "facts" => op = "diagnostics"
          /\ step' = "before" => op = "ensure"
      BY <2>1, <2>2 DEF FirstRead, Going
    <3> QED
      BY <2>1, <3>1 DEF SummaryIsTrue, IssuedByTheRules
  <2>3. ASSUME NEW u \in {Unknown, Unidentified}, op # "diagnostics", Answer("success", u)
        PROVE  CallInv'
    <3>1. step' = (IF op = "ensure" THEN "audit" ELSE "answered") /\ summary' = u
      BY <2>3 DEF Answer
    <3>2. u.status = "unknown" /\ u.next = "use_status" /\ u.findings = <<>>
      BY DEF Unknown, Unidentified, Remedied, Shown, Summary
    <3>3. SummaryIsTrue'
      BY <2>1, <2>3, <3>1, <3>2 DEF SummaryIsTrue
    <3> QED
      BY <2>1, <3>1, <3>3 DEF IssuedByTheRules
  <2>4. CASE Answer("target_not_resolved", NoSummary) \/ Fails
    <3>1. Still
      BY <1>4 DEF Resolve
    <3> QED
      BY <2>1, <2>4, <3>1, UnansweredStep DEF Fails
  <2> QED
    BY <1>4, <2>2, <2>3, <2>4 DEF Resolve
<1> QED
  BY <1>1, <1>2, <1>3, <1>4

LEMMA LookupStep ==
  ASSUME CallInv, ReadSnapshot \/ ReadEntitlement \/ ReadIssuance \/ ReadPolicy \/ ReadFails
  PROVE  CallInv'
<1> USE DEF CallInv, StepOfOp, HeldWasSeen, LookupSteps, DiagnosticsSteps, EnsureSteps, Still,
            ReadOn, Going, remedyVars
<1>1. CASE ReadSnapshot
  <2>1. /\ step = "snapshot" /\ step' = "entitlement" /\ subscription' = Bucket(person.label)
        /\ UNCHANGED <<process, settings, op, request, person, saw, summary, answer, wrote, recorded>>
    BY <1>1 DEF ReadSnapshot
  <2>2. person \in saw
    BY <2>1
  <2> QED
    BY <2>1, <2>2 DEF SummaryIsTrue, IssuedByTheRules
<1>2. CASE ReadEntitlement
  BY <1>2 DEF ReadEntitlement, KeepReads, SummaryIsTrue, IssuedByTheRules
<1>3. CASE ReadIssuance
  <2>1. /\ step = "issuance" /\ step' = "policy" /\ person \in saw
        /\ readiness' = Readiness(subscription, IssuanceState(person.access))
        /\ UNCHANGED <<process, settings, op, request, person, saw, summary, answer, wrote, recorded,
                       subscription>>
    BY <1>3 DEF ReadIssuance
  <2>2. PICK p \in saw : Bucket(p.label) = subscription
    BY <2>1
  <2>3. readiness' = "ready" => subscription = "active" /\ person.access = "issued"
    <3>1. readiness' = Readiness(subscription, IssuanceState(person.access))
      BY <2>1
    <3> QED
      BY ONLY <3>1, ReadyIsIssued
  <2>4. subscription = "active" => p.label = "active"
    BY ONLY <2>2, ActiveBucket
  <2> QED
    BY <2>1, <2>2, <2>3, <2>4 DEF SummaryIsTrue, IssuedByTheRules
<1>4. CASE ReadPolicy
  <2>1. /\ step = "policy" /\ step' = "answered" /\ wrote' = FALSE
        /\ summary' = Shown(subscription, readiness, NextAction(readiness))
        /\ UNCHANGED <<process, op, request, saw>>
    BY <1>4 DEF ReadPolicy, Answer
  <2>2. /\ summary'.status = subscription
        /\ summary'.next = NextAction(readiness)
        /\ summary'.findings = <<>>
    BY <2>1, SummaryFields DEF Shown
  <2>3. op = "lookup" /\ request.principal = "admin"
    BY <2>1
  <2>4. PICK p \in saw : Bucket(p.label) = subscription
    BY <2>1
  <2>5. summary'.next = "use_get_access" =>
          (\E q \in saw : q.label = "active") /\ (\E q \in saw : q.access = "issued")
    BY <2>1, <2>2, OnlyReadyGets
  <2>6. SummaryIsTrue'
    BY <2>1, <2>2, <2>3, <2>4, <2>5 DEF SummaryIsTrue
  <2> QED
    BY <2>1, <2>6, NothingIssued
<1>5. CASE ReadFails
  <2>1. /\ step \in LookupSteps /\ step' = "answered" /\ wrote' = FALSE
        /\ UNCHANGED <<process, op, request>>
        /\ summary' = Shown("unknown", "unknown_due_to_error", NextAction("unknown_due_to_error"))
    BY <1>5 DEF ReadFails, Answer
  <2>2. /\ summary'.status = "unknown"
        /\ summary'.next = NextAction("unknown_due_to_error")
        /\ summary'.findings = <<>>
    BY <2>1, SummaryFields DEF Shown
  <2>3. summary'.next # "use_get_access"
    BY <2>2, OnlyReadyGets
  <2>4. op = "lookup" /\ request.principal = "admin"
    BY <2>1
  <2>5. SummaryIsTrue'
    BY <2>1, <2>2, <2>3, <2>4 DEF SummaryIsTrue
  <2> QED
    BY <2>1, <2>5, NothingIssued
<1> QED
  BY <1>1, <1>2, <1>3, <1>4, <1>5

LEMMA DiagnosticsStep ==
  ASSUME CallInv,
         \/ ReadBillingFacts \/ ReadQuarantine \/ ReadRuns \/ Redact \/ DiagnosticsFail
         \/ RecordAccess
  PROVE  CallInv'
<1> USE DEF CallInv, StepOfOp, HeldWasSeen, LookupSteps, DiagnosticsSteps, EnsureSteps, Still,
            ReadOn, Going, remedyVars
<1>1. CASE ReadBillingFacts
  <2>1. /\ step = "facts" /\ step' = "quarantine" /\ findings' = <<person.facts>>
        /\ UNCHANGED <<process, settings, op, request, person, saw, summary, answer, wrote, recorded>>
    BY <1>1 DEF ReadBillingFacts
  <2>2. person \in saw
    BY <2>1
  <2> QED
    BY <2>1, <2>2 DEF SummaryIsTrue, IssuedByTheRules
<1>2. CASE ReadQuarantine
  <2>1. /\ step = "quarantine" /\ step' = "runs"
        /\ findings' = Append(findings, person.quarantined)
        /\ UNCHANGED <<process, settings, op, request, person, saw, summary, answer, wrote, recorded>>
    BY <1>2 DEF ReadQuarantine
  <2>2. person \in saw
    BY <2>1
  <2>3. PICK p \in saw : findings = <<p.facts>>
    BY <2>1
  <2>4. findings' = <<p.facts, person.quarantined>>
    <3>1. findings' = Append(findings, person.quarantined)
      BY <2>1
    <3> QED
      BY ONLY <2>3, <3>1, SecondFinding
  <2> QED
    BY <2>1, <2>2, <2>4 DEF SummaryIsTrue, IssuedByTheRules
<1>3. CASE ReadRuns
  <2>1. /\ step = "runs" /\ step' = "redact"
        /\ findings' = Append(findings, person.ran)
        /\ UNCHANGED <<process, settings, op, request, person, saw, summary, answer, wrote, recorded>>
    BY <1>3 DEF ReadRuns
  <2>2. person \in saw
    BY <2>1
  <2>3. PICK p \in saw, q \in saw : findings = <<p.facts, q.quarantined>>
    BY <2>1
  <2>4. findings' = Append(findings, person.ran)
    BY <2>1
  <2>5. findings' = <<p.facts, q.quarantined, person.ran>>
    BY ONLY <2>3, <2>4, ThirdFinding
  <2> QED
    BY <2>1, <2>2, <2>5 DEF SummaryIsTrue, IssuedByTheRules
<1>4. CASE Redact
  BY <1>4 DEF Redact, SummaryIsTrue, IssuedByTheRules
<1>5. CASE DiagnosticsFail
  <2>1. Answer("dependency_failure", NoSummary) /\ Still /\ step \in DiagnosticsSteps
    BY <1>5 DEF DiagnosticsFail, Fails
  <2> QED
    BY <2>1, UnansweredStep
<1>6. CASE RecordAccess
  <2>1. CASE Fails
    <3>1. Answer("dependency_failure", NoSummary) /\ Still /\ step \in DiagnosticsSteps
      BY <1>6, <2>1 DEF RecordAccess, Fails
    <3> QED
      BY <3>1, UnansweredStep
  <2>2. CASE ~Fails
    <3>1. /\ step = "record" /\ step' = "answered" /\ summary' = Diagnosed /\ wrote' = FALSE
          /\ factsOfAccess' = factsOfAccess \union {<<request.principal, disclosure>>}
          /\ UNCHANGED <<process, op, request, saw, disclosure>>
      BY <1>6, <2>2 DEF RecordAccess, Answer, KeepReads
    <3>2. /\ summary'.status = "none" /\ summary'.next = "none"
          /\ summary'.findings = findings
      BY <3>1, SummaryFields DEF Diagnosed
    <3>3. op = "diagnostics" /\ request.principal = "admin"
      BY <3>1
    <3>4. PICK p \in saw, q \in saw, s \in saw :
            findings = <<p.facts, q.quarantined, s.ran>>
      BY <3>1
    <3>5. ASSUME NEW i \in DOMAIN findings
          PROVE  \E w \in saw : w[Fields[i]] = findings[i]
      <4>1. i \in 1..3
        BY <3>4
      <4>2. CASE i = 1
        BY <3>4, <4>2 DEF Fields
      <4>3. CASE i = 2
        BY <3>4, <4>3 DEF Fields
      <4>4. CASE i = 3
        BY <3>4, <4>4 DEF Fields
      <4> QED
        BY <4>1, <4>2, <4>3, <4>4
    <3>6. SummaryIsTrue'
      BY <3>1, <3>2, <3>3, <3>5 DEF SummaryIsTrue
    <3> QED
      BY <3>1, <3>6, NothingIssued
  <2> QED
    BY <2>1, <2>2
<1> QED
  BY <1>1, <1>2, <1>3, <1>4, <1>5, <1>6

LEMMA EvidenceStep ==
  ASSUME CallInv, ReadEvidence
  PROVE  CallInv'
<1> USE DEF CallInv, StepOfOp, HeldWasSeen, LookupSteps, DiagnosticsSteps, EnsureSteps, Still,
            remedyVars
<1>1. CASE Fails
  <2>1. Answer("dependency_failure", NoSummary) /\ Still /\ step = "evidence"
    BY <1>1 DEF ReadEvidence, Fails
  <2> QED
    BY <2>1, UnansweredStep
<1>2. CASE ~Fails
  <2> DEFINE n == IF rows < request.limit THEN rows ELSE request.limit
  <2>1. step = "evidence" /\ step' = "answered" /\ summary' = Items(n) /\ wrote' = FALSE
    BY <1>2 DEF ReadEvidence, Answer
  <2>2. UNCHANGED <<process, op, request>>
    BY DEF ReadEvidence, Still
  <2>3. /\ summary'.status = "none" /\ summary'.next = "none"
        /\ summary'.findings = <<>>
    BY <2>1, SummaryFields DEF Items
  <2>4. op = "evidence" /\ request.principal = "admin"
    BY <2>1
  <2>5. SummaryIsTrue'
    BY <2>2, <2>3, <2>4 DEF SummaryIsTrue
  <2> QED
    BY <2>1, <2>2, <2>5, NothingIssued
<1> QED
  BY <1>1, <1>2

\* Ensure access decides on a summary.
LEMMA RemedyDecided ==
  ASSUME CallInv, NEW status, NEW r, NEW n, NEW m,
         Answer("success", Remedied(status, r, n, m)),
         step \in EnsureSteps,
         UNCHANGED <<process, settings, op, request, recorded>>,
         saw \subseteq saw',
         wrote' => /\ m \in {"issued_access", "failed_safe"}
                   /\ \E p \in saw : p.label = "active",
         status # "unknown" => \E p \in saw : Bucket(p.label) = status,
         n = "use_get_access" => /\ \E p \in saw' : p.label = "active"
                                 /\ \E p \in saw' : p.access = "issued"
  PROVE  CallInv'
<1>1. /\ op = "ensure" /\ request.principal = "admin" /\ settings.optIn = "on"
      /\ process # "starting" /\ recorded = "none"
  BY DEF CallInv, StepOfOp, HeldWasSeen, EnsureSteps
<1>2. step' = "audit" /\ answer' = "success" /\ summary' = Remedied(status, r, n, m)
  BY <1>1 DEF Answer
<1>3. /\ summary'.status = status /\ summary'.next = n
      /\ summary'.findings = <<>> /\ summary'.remedy = m
  BY <1>2 DEF Remedied, Shown, Summary
<1>4. SummaryIsTrue'
  BY <1>1, <1>3 DEF SummaryIsTrue
<1>5. IssuedByTheRules'
  BY <1>1, <1>2, <1>3 DEF IssuedByTheRules
<1> QED
  BY <1>1, <1>2, <1>4, <1>5 DEF CallInv, StepOfOp, HeldWasSeen, LookupSteps, DiagnosticsSteps,
     EnsureSteps

LEMMA EnsureStep ==
  ASSUME CallInv,
         \/ ReadBefore \/ ReadCurrent \/ Mutate \/ MutateFound \/ ReadAfter \/ EnsureFails
         \/ AppendAudit
  PROVE  CallInv'
<1> USE DEF CallInv, StepOfOp, HeldWasSeen, LookupSteps, DiagnosticsSteps, EnsureSteps, remedyVars
<1>1. CASE ReadBefore
  <2>1. /\ step = "before" /\ step' = "current" /\ subscription' = Bucket(person.label)
        /\ UNCHANGED <<process, settings, op, request, person, saw, summary, answer, wrote, recorded>>
    BY <1>1 DEF ReadBefore, Still, ReadOn, Going
  <2>2. person \in saw
    BY <2>1
  <2> QED
    BY <2>1, <2>2 DEF SummaryIsTrue, IssuedByTheRules
<1>2. CASE ReadCurrent
  <2>1. /\ step = "current" /\ ~wrote /\ person \in saw
        /\ UNCHANGED <<process, settings, op, request, person, saw, wrote, recorded, subscription>>
    BY <1>2 DEF ReadCurrent, Still, KeepReads
  <2>2. PICK p \in saw : Bucket(p.label) = subscription
    BY <2>1
  <2>3. CASE Answer("success", Idle(subscription))
    BY <2>1, <2>2, <2>3, RemedyDecided DEF Idle
  <2>4. subscription = "active" => p.label = "active"
    BY <2>2, ActiveBucket
  <2>5. CASE subscription = "active" /\ IssuanceState(person.access) = "ok"
             /\ Answer("success", Made("noop_access_already_ready"))
    <3>1. person.access = "issued"
      BY <2>5 DEF IssuanceState
    <3> QED
      BY <2>1, <2>2, <2>4, <2>5, <3>1, RemedyDecided DEF Made
  <2>6. CASE subscription = "active" /\ step' = "mutate" /\ Going
    BY <2>1, <2>2, <2>4, <2>6 DEF Going, SummaryIsTrue, IssuedByTheRules
  <2> QED
    BY <1>2, <2>3, <2>5, <2>6 DEF ReadCurrent
<1>3. CASE Mutate
  <2>1. /\ step = "mutate" /\ person' \in saw' /\ saw \subseteq saw' /\ wrote' = TRUE /\ issuedNew' = TRUE
        /\ UNCHANGED <<process, settings, op, request, recorded, subscription>>
    BY <1>3 DEF Mutate, KeepReads
  <2>2. PICK p \in saw : p.label = "active"
    BY <2>1
  <2>3. PICK q \in saw : Bucket(q.label) = subscription
    BY <2>1
  <2>4. CASE step' = "after" /\ Going
    <3>1. /\ op = "ensure" /\ request.principal = "admin" /\ settings.optIn = "on"
          /\ answer' = "none" /\ summary' = NoSummary /\ recorded = "none"
      BY <2>1, <2>4 DEF Going
    <3> QED
      BY <2>1, <2>2, <2>3, <2>4, <3>1 DEF SummaryIsTrue, IssuedByTheRules
  <2>5. CASE Answer("success", FailedSafe)
    BY <2>1, <2>2, <2>5, RemedyDecided DEF FailedSafe
  <2> QED
    BY <1>3, <2>4, <2>5 DEF Mutate
<1>4. CASE MutateFound
  <2>1. /\ step = "mutate" /\ step' = "after" /\ ~wrote
        /\ UNCHANGED <<process, settings, op, request, person, saw, summary, answer, wrote, recorded,
                       subscription>>
    BY <1>4 DEF MutateFound, Going, KeepReads
  <2> QED
    BY <2>1 DEF SummaryIsTrue, IssuedByTheRules
<1>5. CASE ReadAfter
  <2>1. /\ step = "after" /\ person \in saw /\ wrote => issuedNew
        /\ UNCHANGED <<process, settings, op, request, person, saw, wrote, recorded>>
    BY <1>5 DEF ReadAfter, Still
  <2>2. PICK p \in saw : p.label = "active"
    BY <1>5 DEF ReadAfter
  <2>3. CASE Answer("success", FailedSafe)
    BY <1>5, <2>1, <2>2, <2>3, RemedyDecided DEF FailedSafe, ReadAfter
  <2>4. ASSUME NEW m, Answer("success", Made(m)), person.access = "issued",
               issuedNew => m = "issued_access"
        PROVE  CallInv'
    <3>1. Bucket(p.label) = "active"
      BY <2>2, Zenon DEF Bucket
    <3> QED
      BY <1>5, <2>1, <2>2, <2>4, <3>1, RemedyDecided DEF Made, ReadAfter
  <2>5. CASE IssuanceState(person.access) = "ok"
    <3>1. person.access = "issued"
      BY <2>5 DEF IssuanceState
    <3>2. Answer("success", IF issuedNew THEN Made("issued_access")
                            ELSE Made("noop_access_already_ready"))
      BY <1>5, <2>5 DEF ReadAfter
    <3> QED
      BY <3>1, <3>2, <2>4
  <2>6. CASE IssuanceState(person.access) # "ok"
    BY <1>5, <2>3, <2>6 DEF ReadAfter
  <2> QED
    BY <2>5, <2>6
<1>6. CASE EnsureFails
  <2>1. /\ step \in EnsureSteps /\ Answer("success", FailedSafe)
        /\ UNCHANGED <<process, settings, op, request, person, saw, wrote, recorded>>
    BY <1>6 DEF EnsureFails, Still
  <2>2. wrote => \E p \in saw : p.label = "active"
    BY DEF IssuedByTheRules
  <2> QED
    BY <2>1, <2>2, RemedyDecided DEF FailedSafe
<1>7. CASE AppendAudit
  <2>1. /\ step = "audit" /\ step' = "answered" /\ op = "ensure" /\ process # "starting"
        /\ UNCHANGED <<process, settings, op, request, saw, summary, answer, wrote>>
        /\ recorded' = AuditOutcome \/ recorded' = recorded
    BY <1>7 DEF AppendAudit, Going
  <2>2. SummaryIsTrue'
    BY <2>1 DEF SummaryIsTrue
  <2>3. wrote => recorded' \in {"none", "issued_access", "failed_safe"}
    BY <2>1 DEF AuditOutcome, IssuedByTheRules
  <2>4. IssuedByTheRules'
    BY <2>1, <2>3 DEF IssuedByTheRules
  <2> QED
    BY <2>1, <2>2, <2>4
<1> QED
  BY <1>1, <1>2, <1>3, <1>4, <1>5, <1>6, <1>7

LEMMA ChangeStep ==
  ASSUME CallInv, PersonChanges
  PROVE  CallInv'
<1>1. /\ person' \in saw' /\ saw \subseteq saw'
      /\ UNCHANGED <<process, settings, callVars, factsOfAccess>>
      /\ step \notin {"none", "answered"}
  BY DEF PersonChanges
<1>2. SummaryIsTrue' /\ IssuedByTheRules'
  BY <1>1 DEF callVars, remedyVars, CallInv, SummaryIsTrue, IssuedByTheRules
<1>3. StepOfOp' /\ HeldWasSeen'
  BY <1>1 DEF callVars, remedyVars, CallInv, StepOfOp, HeldWasSeen
<1> QED
  BY <1>2, <1>3 DEF CallInv

LEMMA StartsStep ==
  ASSUME CallInv, Disabled \/ ConfigError \/ StartFailed \/ Listen
  PROVE  CallInv'
<1>1. process = "starting" /\ process' # "starting" /\ UNCHANGED <<person, callVars, factsOfAccess, saw>>
  BY DEF Disabled, ConfigError, StartFailed, Listen, StartStep
<1>2. step = "none" /\ op = "none" /\ ~wrote
  BY <1>1 DEF CallInv, StepOfOp, HeldWasSeen
<1> QED
  BY <1>1, <1>2 DEF callVars, remedyVars, CallInv, StepOfOp, HeldWasSeen, SummaryIsTrue,
     IssuedByTheRules, LookupSteps, DiagnosticsSteps, EnsureSteps

LEMMA CallInvStep == CallInv /\ [AdminNext]_adminVars => CallInv'
<1> SUFFICES ASSUME CallInv, [AdminNext]_adminVars PROVE CallInv'
  OBVIOUS
<1>1. CASE UNCHANGED adminVars
  BY <1>1, CallUnchanged DEF adminVars
<1> QED
  BY <1>1, StartsStep, EntryStep, LookupStep, DiagnosticsStep, EvidenceStep, EnsureStep, ChangeStep
  DEF AdminNext

-----------------------------------------------------------------------------
\* Diagnostics and lookups answer only what an allowlisted principal asked
\* for, what the process recorded first, and what was so while the call ran -
\* for any number of changes to the user between its reads.
THEOREM OnlyRecordedAndTrueIsDisclosed == AdminSpec => []DisclosureIsRecordedAndTrue
<1>1. CallInv => DisclosureIsRecordedAndTrue
  BY DEF CallInv, DisclosureIsRecordedAndTrue
<1> QED
  BY <1>1, CallInvInit, CallInvStep, PTL DEF AdminSpec

=============================================================================
