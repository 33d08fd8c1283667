----------------------------- MODULE Retention -----------------------------
(***************************************************************************)
(* The jobs that delete old rows, next to the bot that writes them: the    *)
(* manual and the scheduled slice-1 cleanup, in rounds of one batch per    *)
(* table, and the operational cleanup of the ADM-02 audit. Two jobs may    *)
(* run at once: a batch locks its rows, skips those another batch has      *)
(* locked, and deletes them when the statement ends. The cutoff is taken   *)
(* from the job's own clock, which may be ahead of the database's, whose   *)
(* NOW() stamps the rows, by JobSkew days; one that is behind only deletes *)
(* later.                                                                  *)
(***************************************************************************)
EXTENDS Integers, FiniteSets

CONSTANTS Rows, TableOf,
          Cleanups,          \* runs of the slice-1 cleanup
          AuditCleanups,     \* runs of the operational cleanup
          RetentionTtl, AuditDays, BatchLimit, MaxRounds,
          JobSkew,           \* how far a job's clock may be ahead
          LastDay, MaxInserts

Slice1Tables == {"audit", "idempotency", "outbound"}
ASSUME RetentionAssumption ==
    /\ IsFiniteSet(Rows)
    /\ TableOf \in [Rows -> Slice1Tables \union {"adm02"}]
    /\ Cleanups \cap AuditCleanups = {}
    /\ {RetentionTtl, AuditDays, BatchLimit, MaxRounds} \subseteq Nat \ {0}
    /\ {JobSkew, LastDay, MaxInserts} \subseteq Nat

Jobs == Cleanups \union AuditCleanups
Days == 0..LastDay

VARIABLES today,
          present, created,  \* the rows, and when they were inserted
          settled,           \* completed keys and sent deliveries; audit rows always
          stage,             \* the table whose batch a job is at
          started,           \* when it computed its cutoff
          locked,            \* the rows of its open statement
          found,             \* what it deleted in this round
          round, total,      \* rounds_executed, and what it reports
          inserts

rowVars == <<present, created, settled>>
jobVars == <<stage, started, locked, found, round, total>>
retentionVars == <<today, rowVars, jobVars, inserts>>

RetentionTypeOK ==
    /\ today \in Days
    /\ present \subseteq Rows /\ settled \subseteq Rows
    /\ created \in [Rows -> Days]
    /\ stage \in [Jobs -> Slice1Tables \union {"idle", "adm02", "done", "failed"}]
    /\ started \in [Jobs -> 0..(LastDay + JobSkew)]
    /\ locked \in [Jobs -> SUBSET Rows]
    /\ found \in [Jobs -> Nat] /\ round \in [Jobs -> Nat] /\ total \in [Jobs -> Nat]
    /\ inserts \in Nat

RetentionInit ==
    /\ today = 0 /\ present = {} /\ settled = {} /\ inserts = 0
    /\ created = [r \in Rows |-> 0]
    /\ stage = [j \in Jobs |-> "idle"] /\ locked = [j \in Jobs |-> {}]
    /\ started = [j \in Jobs |-> 0] /\ found = [j \in Jobs |-> 0]
    /\ round = [j \in Jobs |-> 0] /\ total = [j \in Jobs |-> 0]

-----------------------------------------------------------------------------
(* The rows. *)

Insert(r) ==
    /\ inserts < MaxInserts /\ inserts' = inserts + 1
    /\ r \notin present
    /\ present' = present \union {r}
    /\ created' = [created EXCEPT ![r] = today]
    /\ settled' = IF TableOf[r] \in {"audit", "adm02"} THEN settled \union {r} ELSE settled \ {r}
    /\ UNCHANGED <<today, jobVars>>

\* complete and mark_sent; they leave created_at alone.
Settle(r) ==
    /\ r \in present \ settled
    /\ settled' = settled \union {r}
    /\ UNCHANGED <<today, present, created, jobVars, inserts>>

NextDay == today < LastDay /\ today' = today + 1 /\ UNCHANGED <<rowVars, jobVars, inserts>>

-----------------------------------------------------------------------------
(* The jobs. *)

Age(j) == IF j \in AuditCleanups THEN AuditDays ELSE RetentionTtl
Old(j, r) == created[r] < started[j] - Age(j)
\* Defect: a batch takes rows another batch is deleting.
NobodyLocks(j) == {}

OthersLock(j) == UNION {locked[k] : k \in Jobs \ {j}}

\* The manual job obeys its dry-run flag; the scheduled one and the
\* operational one delete only when they are told to.
Destructive(scheduled, dryRun, optIn) == ~dryRun /\ (scheduled => optIn)
StartCleanup(j) ==
    /\ stage[j] = "idle"
    /\ \E skew \in 0..JobSkew : started' = [started EXCEPT ![j] = today + skew]
    /\ \E scheduled, dryRun, optIn \in BOOLEAN :
        stage' = [stage EXCEPT ![j] =
            IF ~Destructive(scheduled, dryRun, optIn) THEN "done"
            ELSE IF j \in AuditCleanups THEN "adm02" ELSE "audit"]
    /\ round' = [round EXCEPT ![j] = 1]
    /\ UNCHANGED <<today, rowVars, locked, found, total, inserts>>

\* Defect: pending deliveries and open keys are deleted as well.
EligibleByAge(j) == {r \in present \ OthersLock(j) : TableOf[r] = stage[j] /\ Old(j, r)}

Eligible(j) == {r \in present \ OthersLock(j) :
                  TableOf[r] = stage[j] /\ r \in settled /\ Old(j, r)}
\* The oldest rows of a batch; the operational delete has no limit.
Batches(j) == {b \in SUBSET Eligible(j) :
    /\ \A r \in b, s \in Eligible(j) \ b : created[r] <= created[s]
    /\ IF stage[j] = "adm02" \/ Cardinality(Eligible(j)) <= BatchLimit
       THEN b = Eligible(j) ELSE Cardinality(b) = BatchLimit}
Lock(j) ==
    /\ stage[j] \in Slice1Tables \union {"adm02"} /\ locked[j] = {}
    /\ Eligible(j) # {}
    /\ \E b \in Batches(j) : locked' = [locked EXCEPT ![j] = b]
    /\ UNCHANGED <<today, rowVars, stage, started, found, round, total, inserts>>

\* After the third table the job goes on only if the round found something
\* and it has rounds left.
Following(j, deleted) ==
    CASE stage[j] = "audit" -> "idempotency"
      [] stage[j] = "idempotency" -> "outbound"
      [] stage[j] = "adm02" -> "done"
      [] stage[j] = "outbound" ->
           IF found[j] + deleted = 0 \/ round[j] >= MaxRounds THEN "done" ELSE "audit"
Delete(j) ==
    /\ stage[j] \in Slice1Tables \union {"adm02"}
    /\ locked[j] = {} => Eligible(j) = {}
    /\ LET deleted == Cardinality(locked[j])
           next == Following(j, deleted)
       IN  /\ stage' = [stage EXCEPT ![j] = next]
           /\ total' = [total EXCEPT ![j] = @ + deleted]
           /\ found' = [found EXCEPT ![j] = IF stage[j] = "outbound" THEN 0 ELSE @ + deleted]
           /\ round' = [round EXCEPT ![j] =
                          IF stage[j] = "outbound" /\ next = "audit" THEN @ + 1 ELSE @]
    /\ present' = present \ locked[j]
    /\ locked' = [locked EXCEPT ![j] = {}]
    /\ UNCHANGED <<today, created, settled, started, inserts>>

\* The statement is rolled back, or it is committed and its result is lost;
\* either way the job ends and counts none of its rows.
DeleteFails(j) ==
    /\ stage[j] \in Slice1Tables \union {"adm02"}
    /\ present' \in {present, present \ locked[j]}
    /\ stage' = [stage EXCEPT ![j] = "failed"]
    /\ locked' = [locked EXCEPT ![j] = {}]
    /\ UNCHANGED <<today, created, settled, started, found, round, total, inserts>>

RetentionNext ==
    \/ \E r \in Rows : Insert(r) \/ Settle(r)
    \/ NextDay
    \/ \E j \in Jobs : StartCleanup(j) \/ Lock(j) \/ Delete(j) \/ DeleteFails(j)
RetentionSpec == RetentionInit /\ [][RetentionNext]_retentionVars

-----------------------------------------------------------------------------
\* A row that goes was finished - never a pending delivery or an open key -
\* and, but for the skew of the job's clock, as old as its table is kept for
\* at the moment it goes; a row inserted or settled while a job runs, or whose
\* delete is never counted, is no exception.
KeepStep == \A r \in present \ present' :
    /\ r \in settled
    /\ today - created[r] > (IF TableOf[r] = "adm02" THEN AuditDays ELSE RetentionTtl) - JobSkew
OnlyOldFinishedRowsGo == [][KeepStep]_retentionVars

\* No row is counted twice: the jobs together never count more rows than are
\* gone, and exactly those that are gone while no statement of theirs has
\* failed. One that failed may have been committed: its rows go uncounted.
Reported == UNION {{j} \X (1..total[j]) : j \in Jobs}
Gone == inserts - Cardinality(present)
ReportsAddUp ==
    /\ Cardinality(Reported) <= Gone
    /\ (\A j \in Jobs : stage[j] # "failed") => Cardinality(Reported) = Gone

=============================================================================
