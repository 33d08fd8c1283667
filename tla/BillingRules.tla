---------------------------- MODULE BillingRules ----------------------------
(***************************************************************************)
(* The vocabulary of billing facts and the pure UC-05 decision: what a     *)
(* ledger fact that has not been applied yet does to its user.             *)
(* No state; the stateful modules about billing extend this one.           *)
(***************************************************************************)

CONSTANTS Users,    \* internal user ids
          NoUser    \* a fact without internal_user_id (UC05_NO_USER_SENTINEL)

ASSUME NoUserAssumption == NoUser \notin Users

BillingEventLedgerStatus == {"accepted", "duplicate", "ignored"}

\* "other" stands for every event type outside the allowlist.
EventTypes == {"subscription_activated", "other"}
AllowlistedEventTypes == {"subscription_activated"}

Fact == [status : BillingEventLedgerStatus, type : EventTypes, user : Users \union {NoUser}]

ApplyOutcomes == {"active_applied", "no_activation", "needs_review"}

\* The labels a subscription snapshot can carry here; "absent" is a missing row.
SnapshotLabels == {"absent", "inactive", "needs_review", "active"}

Decision(outcome, label) == [outcome |-> outcome, label |-> label]

\* Defect: an event type outside the allowlist activates.
DecisionForAnyType(fact) ==
    IF fact.status # "accepted" THEN Decision("no_activation", "absent")
    ELSE IF fact.user = NoUser THEN Decision("needs_review", "absent")
    ELSE Decision(IF fact.type \in AllowlistedEventTypes THEN "active_applied"
                  ELSE "needs_review", "active")

\* The decision for a fact without an apply record. The label "absent" means
\* that the apply leaves the snapshot alone.
FirstTimeDecision(fact) ==
    IF fact.status # "accepted" THEN Decision("no_activation", "absent")
    ELSE IF fact.user = NoUser THEN Decision("needs_review", "absent")
    ELSE IF fact.type \notin AllowlistedEventTypes THEN Decision("needs_review", "needs_review")
    ELSE Decision("active_applied", "active")

=============================================================================
