------------------------------ MODULE MCAccess ------------------------------
EXTENDS Access, TLC

CONSTANTS b1, b2, a1, a2, job1, job2

\* What is left of Next where nobody calls the bot or the admin service.
ReconcileNext ==
    \/ Tick
    \/ \E u \in Users :
          \/ Bill(u)
          \/ \E k \in IssueKeys : OperatorIssues(u, k) \/ OperatorRevokes(u, k)
    \/ \E j \in Jobs : JobWork(j) \/ ReconcileFails(j) \/ JobDies(j)

ReconcileSpec == Init /\ [][ReconcileNext]_vars /\ Fairness

=============================================================================
