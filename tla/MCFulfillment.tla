--------------------------- MODULE MCFulfillment ----------------------------
(* Small instances of Fulfillment: what is delivered, and what the operator *)
(* ingests, in each run.                                                    *)
EXTENDS Fulfillment, TLC

CONSTANTS u1, u2, e1, e2, e3

Paid(e, u, until) == [event |-> e, user |-> u, until |-> until]
Accepted(e, u) == [event |-> e, fact |-> [status |-> "accepted",
                                          type |-> "subscription_activated", user |-> u]]

\* One event, delivered under two values of the default period.
OneEvent == {Paid(e1, u1, 1), Paid(e1, u1, 2)}

\* Two payments of one user, the second one for longer.
TwoPayments == {Paid(e1, u1, 1), Paid(e2, u1, 2)}

\* Payments of two users.
TwoUsers == {Paid(e1, u1, 1), Paid(e2, u2, 2)}

\* The operator ingests the fact the provider delivers too, one of a type that
\* is not allowlisted, under two statuses, and one without a user.
HandIngested == {Accepted(e1, u1),
                 [event |-> e2, fact |-> [status |-> "accepted", type |-> "other", user |-> u1]],
                 [event |-> e2, fact |-> [status |-> "ignored", type |-> "other", user |-> u1]],
                 [event |-> e3, fact |-> [status |-> "accepted", type |-> "other", user |-> NoUser]]}

\* The provider's event was ingested by hand as a duplicate.
HandIgnored == {[event |-> e1, fact |-> [status |-> "duplicate",
                                         type |-> "subscription_activated", user |-> u1]]}

NoFacts == {}
Payment1 == {Paid(e1, u1, 1)}

=============================================================================
