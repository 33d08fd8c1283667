----------------------------- MODULE ApplyOnce ------------------------------
(***************************************************************************)
(* What the billing path promises of each external event, whoever delivers *)
(* it and however often: its fact is recorded once and never changes, the  *)
(* fact is decided once, by the UC-05 rules, and the user hears of it at   *)
(* most once and only when the decision was an activation.                 *)
(***************************************************************************)
EXTENDS BillingRules, Naturals

CONSTANTS Events, Null

VARIABLES facts,     \* the fact of each event, or Null
          outcomes,  \* what the fact was decided to mean, or Null
          told       \* the events whose activation the user was told of

Init ==
    /\ facts = [e \in Events |-> Null]
    /\ outcomes = [e \in Events |-> Null]
    /\ told = {}

Record(e, fact) ==
    /\ facts[e] = Null
    /\ facts' = [facts EXCEPT ![e] = fact]
    /\ UNCHANGED <<outcomes, told>>

Decide(e) ==
    /\ facts[e] # Null
    /\ outcomes[e] = Null
    /\ outcomes' = [outcomes EXCEPT ![e] =
          [user |-> facts[e].user, outcome |-> FirstTimeDecision(facts[e]).outcome]]
    /\ UNCHANGED <<facts, told>>

Tell(e) ==
    /\ outcomes[e] # Null
    /\ outcomes[e].outcome = "active_applied"
    /\ e \notin told
    /\ told' = told \union {e}
    /\ UNCHANGED <<facts, outcomes>>

Next == \E e \in Events : (\E fact \in Fact : Record(e, fact)) \/ Decide(e) \/ Tell(e)

Spec == Init /\ [][Next]_<<facts, outcomes, told>>

=============================================================================
