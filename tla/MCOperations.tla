---------------------------- MODULE MCOperations ----------------------------
(***************************************************************************)
(* The parts of the operation that share no state with each other, checked *)
(* in one run: a behaviour is a behaviour of one of them, while the others *)
(* stay as they start. The state spaces add up.                            *)
(***************************************************************************)
EXTENDS UpdateDedup, RateLimit, Retention, Migrations, BotReplies, InternalAdmin, TLC

CONSTANTS k1, k2, k3, j1, j2, j3, o1, o2, d1

VARIABLE part

MCMaxRequests == ("status" :> 2) @@ ("support" :> 1)
MCWindow == ("status" :> 2) @@ ("support" :> 3)
MCTableOf == (o1 :> "outbound") @@ (o2 :> "outbound") @@ (d1 :> "adm02")
\* The two releases differ in their second file.
MCChecksum == [r \in {"older", "newer"} |-> [f \in Files |->
                IF r = "newer" /\ f = 2 THEN "c2" ELSE "c1"]]
MCSymmetry == Permutations({k1, k2, k3})

\* The ADM-02 audit and its job share no row and no lock with the others and
\* are taken apart from them.
Slice1Part == stage'[j3] = stage[j3] /\ d1 \notin present'
AuditPart == stage'[j1] = stage[j1] /\ stage'[j2] = stage[j2] /\ present' \subseteq {d1}

OpsInit ==
    /\ part \in {"dedup", "rate", "slice1", "audit", "migrations", "replies", "admin"}
    /\ DedupInit /\ RateInit /\ RetentionInit /\ MigrationsInit /\ RepliesInit /\ AdminInit
    /\ part # "migrations" => old = {}
    /\ part # "admin" => settings = Ready
OpsNext ==
    /\ UNCHANGED part
    /\ \/ part = "dedup" /\ DedupNext
       \/ part # "dedup" /\ UNCHANGED dedupVars
    /\ \/ part = "rate" /\ RateNext
       \/ part # "rate" /\ UNCHANGED rateVars
    /\ \/ part = "slice1" /\ RetentionNext /\ Slice1Part
       \/ part = "audit" /\ RetentionNext /\ AuditPart
       \/ part \notin {"slice1", "audit"} /\ UNCHANGED retentionVars
    /\ \/ part = "migrations" /\ MigrationsNext
       \/ part # "migrations" /\ UNCHANGED migrationVars
    /\ \/ part = "replies" /\ RepliesNext
       \/ part # "replies" /\ UNCHANGED replyVars
    /\ \/ part = "admin" /\ AdminNext
       \/ part # "admin" /\ UNCHANGED adminVars
OpsSpec == OpsInit /\ [][OpsNext]_<<part, dedupVars, rateVars, retentionVars, migrationVars,
                                  replyVars, adminVars>>

=============================================================================
