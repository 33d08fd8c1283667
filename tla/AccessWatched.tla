---------------------------- MODULE AccessWatched ----------------------------
(***************************************************************************)
(* Access with a history: of which calls of ensure-access it was true, at  *)
(* some moment since they began, that their user's access is ready. A call *)
(* answers what it read some awaits ago, so this is what an answer can be  *)
(* held to.                                                                *)
(***************************************************************************)
EXTENDS Access

VARIABLE wasReady

WatchedInit == Init /\ wasReady = {}

Watch ==
    wasReady' = {c \in AdminCalls :
                    step'[c] # "idle" /\ (c \in wasReady \/ CurrentIssued(user[c])')}

WatchedNext == Next /\ Watch
watchedVars == <<vars, wasReady>>
WatchedSpec == WatchedInit /\ [][WatchedNext]_watchedVars

-----------------------------------------------------------------------------

\* The row of the deterministic key was inserted at t or later.
InsertedSince(u, t) ==
    rows[<<u, EnsureKey>>] # NoRow /\ rows[<<u, EnsureKey>>].created >= t

AnswersReadyTruly ==
    \A c \in AdminCalls :
        /\ Answers(c, {"issued_access", "noop_access_already_ready"}) => c \in wasReady
        /\ Answers(c, {"issued_access"}) => InsertedSince(user[c], began[c])

\* A call of ensure-access that answers "ready" has not been told so by a memory
\* that another process made stale: if it is no longer true, the access was taken
\* while the call ran. And "issued" is claimed only of a row that was inserted
\* while the call ran, by it or by a call beside it, never of an older one.
ReadyAnswersAreTrue == [][AnswersReadyTruly]_watchedVars

=============================================================================
