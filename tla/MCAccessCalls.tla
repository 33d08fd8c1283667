---------------------------- MODULE MCAccessCalls ----------------------------
EXTENDS MCAccess, AccessWatched

\* Two calls of one process at a time, with billing and the operator: a behaviour
\* has calls of /get_access, calls of ensure access, or one call of the bot at a
\* time, /status among them (which writes nothing that another call reads).
VARIABLE serving

Compositions == {BotCalls, AdminCalls} \union {{c} : c \in BotCalls}

PaymentsWhile(s) == IF s = AdminCalls THEN MaxPayments - 1 ELSE MaxPayments

CallsNext ==
    /\ \/ Tick
       \/ \E c \in BotCalls \intersect serving :
             \/ BotWork(c)
             \/ \E u \in Users : GetAccess(c, u) \/ (serving = {c} /\ Status(c, u))
       \/ \E c \in AdminCalls \intersect serving :
             \/ AdminWork(c)
             \/ \E u \in Users : EnsureAccess(c, u)
       \/ \E c \in serving : CallFails(c)
       \/ serving # AdminCalls /\ RestartBot
       \/ serving = AdminCalls /\ RestartAdmin
       \/ \E u \in Users :
             \/ payments < PaymentsWhile(serving) /\ Bill(u)
             \/ \E k \in IssueKeys : OperatorIssues(u, k) \/ OperatorRevokes(u, k)
    /\ Watch
    /\ UNCHANGED serving

CallsInit == WatchedInit /\ serving \in Compositions

CallsSpec == CallsInit /\ [][CallsNext]_<<watchedVars, serving>>

\* Nothing orders the calls of a process.
CallSymmetry == Permutations({b1, b2}) \union Permutations({a1, a2})

=============================================================================
