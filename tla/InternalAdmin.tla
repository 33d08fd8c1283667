--------------------------- MODULE InternalAdmin ---------------------------
(***************************************************************************)
(* The internal admin process: its start, and one call of ADM-01 lookup,   *)
(* ADM-02 diagnostics, ADM-02 ensure access or its audit evidence. Every   *)
(* read is a statement of its own, and the user may change between two of  *)
(* them. (Access has the overlapping calls of ensure access; here are its  *)
(* gates, its answer and the record it leaves.)                            *)
(***************************************************************************)
EXTENDS Naturals, Sequences

CONSTANTS MaxChanges,   \* of the user, while a call runs
          MaxRows       \* of audit evidence

ASSUME AdminAssumption == {MaxChanges, MaxRows} \subseteq Nat

Switches == {"on", "off", "bad"}
Settings == [listener : Switches, host : {"loopback", "other", "all"},
             insecure : BOOLEAN, trust : BOOLEAN, optIn : Switches,
             runtime : {"bad", "no_dsn", "dsn"}, allowlist : BOOLEAN]

Ready == [listener |-> "on", host |-> "loopback", insecure |-> FALSE, trust |-> FALSE,
          optIn |-> "off", runtime |-> "dsn", allowlist |-> TRUE]

Labels == {"missing", "active", "cancelled", "needs_review"}
Stable == [known |-> TRUE, label |-> "active", access |-> "issued",
           facts |-> FALSE, quarantined |-> FALSE, ran |-> FALSE]
\* What a call of each kind may find.
People(op) ==
    CASE op \in {"lookup", "ensure"} ->
                          [known : BOOLEAN, label : Labels, access : {"none", "issued", "revoked"},
                           facts : {FALSE}, quarantined : {FALSE}, ran : {FALSE}]
      [] op = "diagnostics" -> [known : BOOLEAN, label : {"active"}, access : {"issued"},
                                facts : BOOLEAN, quarantined : BOOLEAN, ran : BOOLEAN]
      [] op = "evidence" -> {Stable}

\* The request: a valid one, or one with a single fault.
Ops == {"lookup", "diagnostics", "evidence", "ensure"}
Good == [body |-> "object", principal |-> "admin", correlation |-> TRUE,
         target |-> "telegram", filter |-> TRUE, limit |-> 1]
Requests == {Good, [Good EXCEPT !.body = "not_json"], [Good EXCEPT !.body = "not_object"],
             [Good EXCEPT !.principal = "stranger"], [Good EXCEPT !.principal = "blank"],
             [Good EXCEPT !.correlation = FALSE], [Good EXCEPT !.target = "internal"],
             [Good EXCEPT !.target = "both"], [Good EXCEPT !.target = "none"],
             [Good EXCEPT !.target = "malformed"], [Good EXCEPT !.filter = FALSE],
             [Good EXCEPT !.limit = 0], [Good EXCEPT !.limit = 101]}

VARIABLES process, settings,
          person, changes, rows,
          op, request, step,
          subscription, readiness,  \* what the call has read so far
          findings,
          disclosure,               \* of the summary, in diagnostics
          answer,                   \* the outcome, "none" until it is decided
          summary,                  \* the fields it carries
          issuedNew,                \* what the mutation returned
          wrote,                    \* the call issued access
          recorded,                 \* the outcome its audit row states
          factsOfAccess,            \* the disclosures recorded, by principal
          saw                       \* the person at every moment of the call

remedyVars == <<issuedNew, wrote, recorded>>
callVars == <<op, request, step, subscription, readiness, findings, disclosure,
              answer, summary, remedyVars>>
adminVars == <<process, settings, person, changes, rows, callVars, factsOfAccess, saw>>

Summary(s, r, n, f, i) ==
    [status |-> s, ready |-> r, next |-> n, remedy |-> "none", findings |-> f, items |-> i]
NoSummary == Summary("none", "none", "none", <<>>, 0)
Shown(s, r, n) == Summary(s, r, n, <<>>, 0)
Remedied(s, r, n, m) == [Shown(s, r, n) EXCEPT !.remedy = m]
Items(i) == Summary("none", "none", "none", <<>>, i)
AdminInit ==
    /\ process = "starting" /\ settings \in Settings
    /\ person = Stable /\ changes = 0 /\ rows = 0
    /\ op = "none" /\ request = Good /\ step = "none"
    /\ subscription = "unread" /\ readiness = "unread" /\ findings = <<>>
    /\ disclosure = "none" /\ answer = "none" /\ summary = NoSummary
    /\ issuedNew = FALSE /\ wrote = FALSE /\ recorded = "none"
    /\ factsOfAccess = {} /\ saw = {}

-----------------------------------------------------------------------------
(* The start. *)

\* validate_adm01_internal_http_config
BindAllowed(s) ==
    /\ s.host = "all" => s.insecure
    /\ s.host # "loopback" => s.trust
StartStep(outcome) ==
    /\ process = "starting" /\ process' = outcome
    /\ UNCHANGED <<settings, person, changes, rows, callVars, factsOfAccess, saw>>
Disabled == settings.listener = "off" /\ StartStep("disabled")
ConfigError ==
    /\ \/ settings.listener = "bad"
       \/ settings.listener = "on" /\ (\/ ~BindAllowed(settings) \/ settings.optIn = "bad"
                                       \/ settings.runtime # "dsn" \/ ~settings.allowlist)
    /\ StartStep("config_error")
Configured ==
    /\ settings.listener = "on" /\ BindAllowed(settings) /\ settings.optIn # "bad"
    /\ settings.runtime = "dsn" /\ settings.allowlist
\* The migrations, the pool or the listener raise.
StartFailed == Configured /\ StartStep("failed")
\* Of the settings, only the opt-in is read once the listener runs.
Listen ==
    /\ Configured
    /\ process = "starting" /\ process' = "serving" /\ settings' = [Ready EXCEPT !.optIn = settings.optIn]
    /\ UNCHANGED <<person, changes, rows, callVars, factsOfAccess, saw>>

-----------------------------------------------------------------------------
(* The endpoint. *)

PrincipalGiven(r) == r.principal # "blank"
Targeted(r) == r.target \in {"internal", "telegram"}
Wellformed(o, r) ==
    /\ PrincipalGiven(r) /\ r.correlation
    /\ IF o = "evidence" THEN r.filter /\ r.limit \in 1..100 ELSE Targeted(r)

\* The result of ensure access passes through its audit.
Answer(outcome, s) ==
    answer' = outcome /\ summary' = s /\ step' = (IF op = "ensure" THEN "audit" ELSE "answered")
Still == UNCHANGED <<process, settings, person, changes, rows, op, request, remedyVars>>
KeepReads == UNCHANGED <<subscription, readiness, findings, disclosure>>
Going == UNCHANGED <<answer, summary>>

\* Without the opt-in ensure access has no route.
Mounted(o) == process = "serving" /\ (o = "ensure" => settings.optIn = "on")
Refuse(o, r) ==
    /\ Mounted(o) /\ step = "none"
    /\ op' = o /\ request' = r
    /\ r.body # "object" \/ ~Wellformed(o, r)
    /\ Answer(IF r.body = "object" THEN "invalid_input" ELSE "http_400", NoSummary)
    /\ KeepReads
    /\ UNCHANGED <<process, settings, person, changes, rows, remedyVars, factsOfAccess, saw>>
Receive(o, r, p) ==
    /\ Mounted(o) /\ step = "none"
    /\ op' = o /\ request' = r /\ person' = p /\ saw' = {p}
    /\ rows' \in (IF o = "evidence" THEN 0..MaxRows ELSE {0})
    /\ r.body = "object" /\ Wellformed(o, r)
    /\ step' = "authorize" /\ Going
    /\ KeepReads
    /\ UNCHANGED <<process, settings, changes, remedyVars, factsOfAccess>>

Fails == Answer("dependency_failure", NoSummary)
\* The handler of ensure access asks for the opt-in too: it is the constant
\* that mounted its route.
Authorize ==
    /\ step = "authorize"
    /\ IF request.principal = "admin"
       THEN step' = (IF op = "evidence" THEN "evidence" ELSE "resolve") /\ Going
       ELSE Answer("denied", NoSummary)
    /\ KeepReads /\ Still /\ UNCHANGED <<factsOfAccess, saw>>

\* An internal id is taken as it is; only a Telegram id is looked up.
Unknown == Shown("unknown", "not_applicable", "use_status")
Unidentified == Remedied("unknown", "not_applicable", "use_status", "noop_identity_unknown")
FirstRead(o) ==
    CASE o = "lookup" -> "snapshot" [] o = "diagnostics" -> "facts" [] OTHER -> "before"
Resolve ==
    /\ step = "resolve"
    /\ \/ /\ request.target = "internal" \/ person.known
          /\ step' = FirstRead(op) /\ Going
       \/ /\ request.target = "telegram" /\ ~person.known
          /\ \/ op = "lookup" /\ Answer("success", Unknown)
             \/ op = "diagnostics" /\ Answer("target_not_resolved", NoSummary)
             \/ op = "ensure" /\ Answer("success", Unidentified)
       \/ request.target = "telegram" /\ Fails
    /\ KeepReads /\ Still /\ UNCHANGED <<factsOfAccess, saw>>

-----------------------------------------------------------------------------
(* ADM-01 lookup. *)

Bucket(label) ==
    CASE label \in {"active", "cancelled", "expired"} -> label
      [] label = "needs_review" -> "inactive"
      [] OTHER -> "unknown"
IssuanceState(access) == IF access = "issued" THEN "ok" ELSE "none"
Readiness(bucket, state) ==
    IF bucket # "active" THEN "not_applicable"
    ELSE IF state = "ok" THEN "ready" ELSE "not_ready"
NextAction(ready) ==
    CASE ready = "ready" -> "use_get_access"
      [] ready \in {"not_ready", "unknown_due_to_error"} -> "investigate_issuance"
      [] OTHER -> "investigate_billing"

ReadOn(here, there) == step = here /\ step' = there /\ Going
ReadSnapshot ==
    /\ ReadOn("snapshot", "entitlement") /\ subscription' = Bucket(person.label)
    /\ Still /\ UNCHANGED <<readiness, findings, disclosure, factsOfAccess, saw>>
\* The entitlement and the policy flag are read and not shown.
ReadEntitlement ==
    /\ ReadOn("entitlement", "issuance")
    /\ KeepReads /\ Still /\ UNCHANGED <<factsOfAccess, saw>>
ReadIssuance ==
    /\ ReadOn("issuance", "policy")
    /\ readiness' = Readiness(subscription, IssuanceState(person.access))
    /\ Still /\ UNCHANGED <<subscription, findings, disclosure, factsOfAccess, saw>>
ReadPolicy ==
    /\ step = "policy"
    /\ Answer("success", Shown(subscription, readiness, NextAction(readiness)))
    /\ KeepReads /\ Still /\ UNCHANGED <<factsOfAccess, saw>>
ReadFails ==
    /\ step \in {"snapshot", "entitlement", "issuance", "policy"}
    /\ Answer("success", Shown("unknown", "unknown_due_to_error",
                               NextAction("unknown_due_to_error")))
    /\ KeepReads /\ Still /\ UNCHANGED <<factsOfAccess, saw>>

-----------------------------------------------------------------------------
(* ADM-02 diagnostics: billing facts, quarantine, the last reconciliation  *)
(* run, the redaction, and the record of the access.                       *)

ReadBillingFacts ==
    /\ ReadOn("facts", "quarantine") /\ findings' = <<person.facts>>
    /\ Still /\ UNCHANGED <<subscription, readiness, disclosure, factsOfAccess, saw>>
ReadQuarantine ==
    /\ ReadOn("quarantine", "runs") /\ findings' = Append(findings, person.quarantined)
    /\ Still /\ UNCHANGED <<subscription, readiness, disclosure, factsOfAccess, saw>>
ReadRuns ==
    /\ ReadOn("runs", "redact") /\ findings' = Append(findings, person.ran)
    /\ Still /\ UNCHANGED <<subscription, readiness, disclosure, factsOfAccess, saw>>
Redact ==
    /\ ReadOn("redact", "record")
    /\ disclosure' \in {"unredacted", "partial", "fully_redacted"}
    /\ Still /\ UNCHANGED <<subscription, readiness, findings, factsOfAccess, saw>>
DiagnosticsFail ==
    /\ step \in {"facts", "quarantine", "runs", "redact"} /\ Fails
    /\ KeepReads /\ Still /\ UNCHANGED <<factsOfAccess, saw>>

Diagnosed == Summary("none", "none", "none", findings, 0)
\* Defect: an access that cannot be recorded is answered all the same.
RecordAccessBestEffort ==
    /\ step = "record" /\ Answer("success", Diagnosed)
    /\ factsOfAccess' \in {factsOfAccess,
                           factsOfAccess \union {<<request.principal, disclosure>>}}
    /\ KeepReads /\ Still /\ UNCHANGED saw

\* The summary leaves only after the access was recorded.
RecordAccess ==
    /\ step = "record"
    /\ \/ /\ factsOfAccess' = factsOfAccess \union {<<request.principal, disclosure>>}
          /\ Answer("success", Diagnosed) \/ Fails
       \/ Fails /\ UNCHANGED factsOfAccess
    /\ KeepReads /\ Still /\ UNCHANGED saw

\* The newest rows, no more than asked for.
ReadEvidence ==
    /\ step = "evidence"
    /\ \/ Answer("success", Items(IF rows < request.limit THEN rows ELSE request.limit))
       \/ Fails
    /\ KeepReads /\ Still /\ UNCHANGED <<factsOfAccess, saw>>

-----------------------------------------------------------------------------
(* ADM-02 ensure access. *)

Idle(s) == Remedied(s, "not_applicable", "investigate_billing", "noop_no_active_subscription")
Made(remedy) == Remedied("active", "ready", "use_get_access", remedy)
FailedSafe == Remedied("unknown", "unknown_due_to_error", "investigate_issuance", "failed_safe")

ReadBefore ==
    /\ ReadOn("before", "current") /\ subscription' = Bucket(person.label)
    /\ Still /\ UNCHANGED <<readiness, findings, disclosure, factsOfAccess, saw>>
\* Both reads are made before either is looked at.
ReadCurrent ==
    /\ step = "current"
    /\ \/ subscription # "active" /\ Answer("success", Idle(subscription))
       \/ /\ subscription = "active"
          /\ IF IssuanceState(person.access) = "ok"
             THEN Answer("success", Made("noop_access_already_ready"))
             ELSE step' = "mutate" /\ Going
    /\ KeepReads /\ Still /\ UNCHANGED <<factsOfAccess, saw>>
\* The service makes the row of its key unless there is one. Its answer may
\* be lost after the row was made.
Mutate ==
    /\ step = "mutate"
    /\ person' = [person EXCEPT !.access = "issued"] /\ saw' = saw \union {person'}
    /\ wrote' = TRUE /\ issuedNew' = TRUE
    /\ \/ step' = "after" /\ Going
       \/ Answer("success", FailedSafe)
    /\ KeepReads
    /\ UNCHANGED <<process, settings, changes, rows, op, request, recorded, factsOfAccess>>
\* There is a row of its key, found by the lookup (already issued) or met by
\* the insert (issued), whatever has become of it since.
MutateFound ==
    /\ step = "mutate" /\ person.access # "none"
    /\ issuedNew' \in BOOLEAN
    /\ step' = "after" /\ Going
    /\ KeepReads
    /\ UNCHANGED <<process, settings, person, changes, rows, op, request, wrote, recorded,
                   factsOfAccess, saw>>
ReadAfter ==
    /\ step = "after"
    /\ Answer("success", IF IssuanceState(person.access) # "ok" THEN FailedSafe
                         ELSE IF issuedNew THEN Made("issued_access")
                         ELSE Made("noop_access_already_ready"))
    /\ KeepReads /\ Still /\ UNCHANGED <<factsOfAccess, saw>>
EnsureFails ==
    /\ step \in {"before", "current", "mutate", "after"}
    /\ Answer("success", FailedSafe)
    /\ KeepReads /\ Still /\ UNCHANGED <<factsOfAccess, saw>>

AuditOutcome ==
    CASE answer = "denied" -> "denied_unauthorized"
      [] answer = "success" -> summary.remedy
      [] OTHER -> answer
\* Best effort: the call is answered whether or not its row was written.
AppendAudit ==
    /\ step = "audit" /\ step' = "answered" /\ Going
    /\ \/ recorded' = AuditOutcome /\ rows' = rows + 1
       \/ UNCHANGED <<recorded, rows>>
    /\ KeepReads
    /\ UNCHANGED <<process, settings, person, changes, op, request, issuedNew, wrote,
                   factsOfAccess, saw>>

-----------------------------------------------------------------------------
\* Other processes go on while the call runs.
PersonChanges ==
    /\ step \notin {"none", "answered"} /\ changes < MaxChanges /\ changes' = changes + 1
    /\ person' \in People(op)
    /\ saw' = saw \union {person'}
    /\ UNCHANGED <<process, settings, rows, callVars, factsOfAccess>>

AdminNext ==
    \/ Disabled \/ ConfigError \/ StartFailed \/ Listen
    \/ \E o \in Ops, r \in Requests : Refuse(o, r) \/ \E p \in People(o) : Receive(o, r, p)
    \/ Authorize \/ Resolve
    \/ ReadSnapshot \/ ReadEntitlement \/ ReadIssuance \/ ReadPolicy \/ ReadFails
    \/ ReadBillingFacts \/ ReadQuarantine \/ ReadRuns \/ Redact \/ DiagnosticsFail
    \/ RecordAccess \/ ReadEvidence
    \/ ReadBefore \/ ReadCurrent \/ Mutate \/ MutateFound \/ ReadAfter \/ EnsureFails \/ AppendAudit
    \/ PersonChanges
AdminSpec == AdminInit /\ [][AdminNext]_adminVars

-----------------------------------------------------------------------------
Fields == <<"facts", "quarantined", "ran">>

\* What an answer says, and what was issued and recorded for it.
SummaryIsTrue ==
    summary # NoSummary =>
        /\ request.principal = "admin"
        /\ op = "diagnostics" => <<request.principal, disclosure>> \in factsOfAccess
        /\ \A i \in DOMAIN summary.findings :
             \E p \in saw : p[Fields[i]] = summary.findings[i]
        /\ op \in {"lookup", "ensure"} /\ summary.status # "unknown" =>
             \E p \in saw : Bucket(p.label) = summary.status
        /\ summary.next = "use_get_access" =>
             /\ \E p \in saw : p.label = "active"
             /\ \E p \in saw : p.access = "issued"
IssuedByTheRules ==
    wrote =>
        /\ request.principal = "admin" /\ settings.optIn = "on"
        /\ \E p \in saw : p.label = "active"
        /\ answer # "none" => answer = "success" /\ summary.remedy \in {"issued_access", "failed_safe"}
        /\ recorded \in {"none", "issued_access", "failed_safe"}

\* What leaves the process was asked for by an allowlisted principal;
\* diagnostics were recorded first, at the disclosure they
\* have, even when the append fails or loses its result; and every reported
\* field was so at some moment of the call, though another process changed
\* the user between two reads. "Ready" is never said of a subscription that
\* was not active, or of access that was not issued, while the call ran.
\* Access is issued only for an allowlisted principal, with the opt-in, to
\* a subscription that was active, and neither the answer nor the audit row
\* of a call that issued it says that nothing was done.
DisclosureIsRecordedAndTrue == SummaryIsTrue /\ IssuedByTheRules

=============================================================================
