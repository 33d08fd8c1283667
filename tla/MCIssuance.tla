----------------------------- MODULE MCIssuance -----------------------------
EXTENDS Issuance, TLC

CONSTANTS u1, i1, i2, update1, update2, revoke1,
          bot, admin, command, service, b1, a1, a2, o1, s1, s2, ref1, ref2

Req(op, i, id, state) == [op |-> op, key |-> <<u1, i>>, id |-> id, state |-> state]

ResendOne == Req("resend", i1, update1, "active")
IssueOne == Req("issue", i1, update1, "active")
RevokeOne == Req("revoke", i1, revoke1, "active")

\* As deployed: the bot resends, the admin process issues, two calls at a time,
\* and each run of the operator's command does one of the three and ends. All of
\* them ask for active subscriptions only.
DeployedCalls == {b1, a1, a2, o1}

\* As the service may be asked by its contract: any operation, for two keys and
\* for any subscription, two calls at a time in one process. What is denied changes
\* nothing another call reads, and is asked for where one call runs at a time.
ServiceCalls == {s1, s2}

AllProcesses == {bot, admin, command, service}
AllCalls == DeployedCalls \union ServiceCalls
CallsProcess ==
    [c \in AllCalls |-> CASE c = b1 -> bot
                          [] c \in {a1, a2} -> admin
                          [] c = o1 -> command
                          [] c \in ServiceCalls -> service]
Requests ==
    [p \in AllProcesses |->
        CASE p = bot -> {ResendOne}
          [] p = admin -> {IssueOne}
          [] p = command -> {ResendOne, IssueOne, RevokeOne}
          [] p = service -> {IssueOne, RevokeOne, ResendOne,
                             Req("issue", i2, update2, "active"), Req("resend", i2, update2, "active"),
                             Req("resend", i1, update1, "needs_review"),
                             Req("issue", i1, update1, "other")}]

\* A behaviour is one of the compositions.
VARIABLE serving

Compositions == {DeployedCalls, ServiceCalls} \union {{c} : c \in ServiceCalls}

CompositionNext ==
    /\ \/ \E c \in serving :
             \/ \E r \in Asks[ProcessOf[c]] : (Entitled(r) \/ serving = {c}) /\ Ask(c, r)
             \/ Work(c)
             \/ ProviderRefuses(c)
             \/ StatementFails(c)
       \/ \E p \in {ProcessOf[c] : c \in serving} : Restart(p)
    /\ UNCHANGED serving

CompositionInit == Init /\ serving \in Compositions

CompositionSpec == CompositionInit /\ [][CompositionNext]_<<vars, serving>>

\* Nothing orders the refs, or the calls of one process.
CompositionSymmetry ==
    Permutations({ref1, ref2}) \union {(a1 :> a2) @@ (a2 :> a1) @@ (s1 :> s2) @@ (s2 :> s1)}

=============================================================================
