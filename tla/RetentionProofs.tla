-------------------------- MODULE RetentionProofs --------------------------
(***************************************************************************)
(* Theorems about Retention, for any rows, jobs, limits and schedules.     *)
(*                                                                         *)
(* That a deleted row was old and finished is true of its lock: it was so  *)
(* when the statement took the row, and a locked row stays what it is      *)
(* because no other job can take it and nothing but its own statement      *)
(* deletes it. RowsLocked says so and is inductive.                        *)
(***************************************************************************)
EXTENDS Retention, TLAPS, FiniteSetTheorems

AnyTable == Slice1Tables \union {"adm02"}

\* The operational job works on the ADM-02 audit, the others on their tables.
OwnTables == \A j \in Jobs :
    /\ stage[j] = "adm02" => j \in AuditCleanups
    /\ stage[j] \in Slice1Tables => j \notin AuditCleanups

\* A row under a job's open statement.
LockedWell(j, r) ==
    /\ r \in present /\ r \in settled
    /\ TableOf[r] = stage[j]
    /\ Old(j, r)
RowsLocked == \A j \in Jobs : \A r \in locked[j] : LockedWell(j, r)
LocksApart == \A j, k \in Jobs : j # k => locked[j] \cap locked[k] = {}
StartedBefore == \A j \in Jobs : started[j] <= today + JobSkew

LockInv ==
    /\ RetentionTypeOK
    /\ OwnTables
    /\ RowsLocked
    /\ LocksApart
    /\ StartedBefore

LEMMA LockInvInit == RetentionInit => LockInv
<1> SUFFICES ASSUME RetentionInit PROVE LockInv
  OBVIOUS
<1> USE RetentionAssumption DEF RetentionInit
<1>1. RetentionTypeOK
  BY DEF RetentionTypeOK, Days
<1>2. OwnTables /\ RowsLocked /\ LocksApart /\ StartedBefore
  BY DEF OwnTables, RowsLocked, LocksApart, StartedBefore, Slice1Tables
<1> QED
  BY <1>1, <1>2 DEF LockInv

-----------------------------------------------------------------------------
(* Types. *)

LEMMA BatchesAreEligible ==
  ASSUME NEW j \in Jobs, NEW b \in Batches(j)
  PROVE  b \subseteq Eligible(j)
  BY DEF Batches

LEMMA DeletedIsNatural ==
  ASSUME RetentionTypeOK, NEW j \in Jobs
  PROVE  Cardinality(locked[j]) \in Nat
<1>1. locked[j] \subseteq Rows
  BY DEF RetentionTypeOK
<1>2. IsFiniteSet(locked[j])
  BY <1>1, FS_Subset, RetentionAssumption
<1> QED
  BY <1>2, FS_CardinalityType

LEMMA FollowingIsStage ==
  ASSUME RetentionTypeOK, NEW j \in Jobs, stage[j] \in AnyTable, NEW n \in Nat
  PROVE  /\ Following(j, n) \in AnyTable \union {"done"}
         /\ stage[j] = "adm02" => Following(j, n) = "done"
         /\ stage[j] # "adm02" => Following(j, n) # "adm02"
<1>1. CASE stage[j] = "audit"
  BY <1>1 DEF Following, AnyTable, Slice1Tables
<1>2. CASE stage[j] = "idempotency"
  BY <1>2 DEF Following, AnyTable, Slice1Tables
<1>3. CASE stage[j] = "adm02"
  BY <1>3 DEF Following, AnyTable, Slice1Tables
<1>4. CASE stage[j] = "outbound"
  BY <1>4 DEF Following, AnyTable, Slice1Tables
<1> QED
  BY <1>1, <1>2, <1>3, <1>4 DEF AnyTable, Slice1Tables

LEMMA StartTypes ==
  ASSUME RetentionTypeOK, NEW j \in Jobs, StartCleanup(j)
  PROVE  /\ RetentionTypeOK'
         /\ stage'[j] = "adm02" => j \in AuditCleanups
         /\ stage'[j] \in Slice1Tables => j \notin AuditCleanups
         /\ \A k \in Jobs \ {j} : stage'[k] = stage[k]
<1> DEFINE first == IF j \in AuditCleanups THEN "adm02" ELSE "audit"
<1>1. PICK s \in {"done", first} : stage' = [stage EXCEPT ![j] = s]
  BY DEF StartCleanup
<1>2. s \in Slice1Tables \union {"idle", "adm02", "done", "failed"}
  BY DEF Slice1Tables
<1>3. stage' \in [Jobs -> Slice1Tables \union {"idle", "adm02", "done", "failed"}]
  BY <1>1, <1>2 DEF RetentionTypeOK
<1>4. RetentionTypeOK'
  <2>1. PICK skew \in 0..JobSkew : started' = [started EXCEPT ![j] = today + skew]
    BY DEF StartCleanup
  <2>2. today + skew \in 0..(LastDay + JobSkew)
    BY RetentionAssumption DEF RetentionTypeOK, Days
  <2>3. started' \in [Jobs -> 0..(LastDay + JobSkew)]
    BY <2>1, <2>2 DEF RetentionTypeOK
  <2> QED
    BY <1>3, <2>3 DEF RetentionTypeOK, StartCleanup, rowVars
<1>5. stage'[j] = s /\ \A k \in Jobs \ {j} : stage'[k] = stage[k]
  BY <1>1 DEF RetentionTypeOK
<1> QED
  BY <1>4, <1>5 DEF Slice1Tables

LEMMA DeleteTypes ==
  ASSUME RetentionTypeOK, NEW j \in Jobs, Delete(j)
  PROVE  /\ RetentionTypeOK'
         /\ stage[j] \in AnyTable
         /\ stage'[j] \in AnyTable \union {"done"}
         /\ stage[j] = "adm02" => stage'[j] = "done"
         /\ stage[j] # "adm02" => stage'[j] # "adm02"
         /\ \A k \in Jobs \ {j} : stage'[k] = stage[k]
<1> DEFINE deleted == Cardinality(locked[j])
           next == Following(j, deleted)
<1>1. deleted \in Nat
  BY DeletedIsNatural
<1>2. stage[j] \in AnyTable
  BY DEF Delete, AnyTable
<1>3. /\ next \in AnyTable \union {"done"}
      /\ stage[j] = "adm02" => next = "done"
      /\ stage[j] # "adm02" => next # "adm02"
  BY <1>1, <1>2, FollowingIsStage
<1>4. /\ stage' = [stage EXCEPT ![j] = next]
      /\ total' = [total EXCEPT ![j] = @ + deleted]
      /\ found' = [found EXCEPT ![j] = IF stage[j] = "outbound" THEN 0 ELSE @ + deleted]
      /\ round' = [round EXCEPT ![j] =
                     IF stage[j] = "outbound" /\ next = "audit" THEN @ + 1 ELSE @]
  BY DEF Delete
<1> HIDE DEF deleted, next
<1>5. stage' \in [Jobs -> Slice1Tables \union {"idle", "adm02", "done", "failed"}]
  BY <1>3, <1>4 DEF RetentionTypeOK, AnyTable
<1>6. /\ total' \in [Jobs -> Nat] /\ found' \in [Jobs -> Nat] /\ round' \in [Jobs -> Nat]
  BY <1>1, <1>4 DEF RetentionTypeOK
<1>7. RetentionTypeOK'
  BY <1>5, <1>6 DEF RetentionTypeOK, Delete
<1>8. stage'[j] = next /\ \A k \in Jobs \ {j} : stage'[k] = stage[k]
  BY <1>4 DEF RetentionTypeOK
<1> QED
  BY <1>2, <1>3, <1>7, <1>8

LEMMA RetentionTypesStep ==
  RetentionTypeOK /\ [RetentionNext]_retentionVars => RetentionTypeOK'
<1> SUFFICES ASSUME RetentionTypeOK, [RetentionNext]_retentionVars PROVE RetentionTypeOK'
  OBVIOUS
<1>1. CASE UNCHANGED retentionVars
  BY <1>1 DEF RetentionTypeOK, retentionVars, rowVars, jobVars
<1>2. ASSUME NEW r \in Rows, Insert(r) PROVE RetentionTypeOK'
  BY <1>2 DEF RetentionTypeOK, Insert, jobVars
<1>3. ASSUME NEW r \in Rows, Settle(r) PROVE RetentionTypeOK'
  BY <1>3 DEF RetentionTypeOK, Settle, jobVars
<1>4. CASE NextDay
  BY <1>4, RetentionAssumption DEF RetentionTypeOK, NextDay, rowVars, jobVars, Days
<1>5. ASSUME NEW j \in Jobs, Lock(j) PROVE RetentionTypeOK'
  <2>1. PICK b \in Batches(j) : locked' = [locked EXCEPT ![j] = b]
    BY <1>5 DEF Lock
  <2>2. b \subseteq Rows
    BY BatchesAreEligible DEF Eligible, RetentionTypeOK
  <2> QED
    BY <1>5, <2>1, <2>2 DEF RetentionTypeOK, Lock, rowVars
<1>6. ASSUME NEW j \in Jobs, DeleteFails(j) PROVE RetentionTypeOK'
  BY <1>6 DEF RetentionTypeOK, DeleteFails, rowVars
<1> QED
  BY <1>1, <1>2, <1>3, <1>4, <1>5, <1>6, StartTypes, DeleteTypes DEF RetentionNext

-----------------------------------------------------------------------------
(* The locks. *)

\* What is locked and stays so is locked well as long as the row, the job's
\* table and its cutoff stay as they are.
LEMMA LockKept ==
  ASSUME NEW j \in Jobs, NEW r \in locked[j], LockedWell(j, r),
         r \in present', r \in settled', created'[r] = created[r],
         stage'[j] = stage[j], started'[j] = started[j]
  PROVE  LockedWell(j, r)'
  BY DEF LockedWell, Old, Age

LEMMA LocksStep ==
  ASSUME LockInv, RetentionNext, RetentionTypeOK'
  PROVE  RowsLocked' /\ LocksApart'
<1> USE DEF LockInv, RetentionTypeOK
<1>1. ASSUME NEW r \in Rows, Insert(r) PROVE RowsLocked' /\ LocksApart'
  <2>1. \A j \in Jobs : \A s \in locked[j] : s \in present /\ s # r /\ s \in settled
    BY <1>1 DEF Insert, RowsLocked, LockedWell
  <2>2. /\ locked' = locked /\ stage' = stage /\ started' = started
        /\ present' = present \union {r}
        /\ \A s \in Rows \ {r} : created'[s] = created[s] /\ (s \in settled' <=> s \in settled)
    BY <1>1 DEF Insert, jobVars
  <2>3. RowsLocked'
    BY <2>1, <2>2, LockKept DEF RowsLocked
  <2> QED
    BY <2>2, <2>3 DEF LocksApart
<1>2. ASSUME NEW r \in Rows, Settle(r) PROVE RowsLocked' /\ LocksApart'
  <2>1. /\ locked' = locked /\ stage' = stage /\ started' = started /\ present' = present
        /\ created' = created /\ settled \subseteq settled'
    BY <1>2 DEF Settle, jobVars
  <2>2. \A j \in Jobs : \A s \in locked[j] : s \in present /\ s \in settled /\ LockedWell(j, s)
    BY DEF RowsLocked, LockedWell
  <2> QED
    BY <2>1, <2>2, LockKept DEF RowsLocked, LocksApart
<1>3. CASE NextDay
  BY <1>3 DEF NextDay, rowVars, jobVars, RowsLocked, LocksApart, LockedWell, Old, Age
<1>4. ASSUME NEW j \in Jobs, StartCleanup(j) PROVE RowsLocked' /\ LocksApart'
  <2>1. locked' = locked /\ present' = present /\ settled' = settled /\ created' = created
    BY <1>4 DEF StartCleanup, rowVars
  <2>2. locked[j] = {}
    <3>1. stage[j] = "idle"
      BY <1>4 DEF StartCleanup
    <3>2. \A r \in Rows : TableOf[r] # "idle"
      BY RetentionAssumption DEF Slice1Tables
    <3> QED
      BY <3>1, <3>2 DEF RowsLocked, LockedWell
  <2>3. \A k \in Jobs \ {j} : stage'[k] = stage[k] /\ started'[k] = started[k]
    BY <1>4, StartTypes DEF StartCleanup
  <2>4. \A k \in Jobs : \A s \in locked[k] :
           k # j /\ s \in present /\ s \in settled /\ LockedWell(k, s)
    BY <2>2 DEF RowsLocked, LockedWell
  <2> QED
    BY <2>1, <2>3, <2>4, LockKept DEF RowsLocked, LocksApart
<1>5. ASSUME NEW j \in Jobs, Lock(j) PROVE RowsLocked' /\ LocksApart'
  <2>1. PICK b \in Batches(j) : locked' = [locked EXCEPT ![j] = b]
    BY <1>5 DEF Lock
  <2>2. b \subseteq Eligible(j)
    BY BatchesAreEligible
  <2>3. /\ present' = present /\ settled' = settled /\ created' = created
        /\ stage' = stage /\ started' = started
    BY <1>5 DEF Lock, rowVars
  <2>4. locked'[j] = b /\ \A k \in Jobs \ {j} : locked'[k] = locked[k]
    BY <2>1
  <2>5. \A r \in b : LockedWell(j, r)
    BY <2>2 DEF Eligible, LockedWell
  <2>6. \A k \in Jobs \ {j} : b \cap locked[k] = {}
    BY <2>2 DEF Eligible, OthersLock
  <2>7. \A k \in Jobs : \A r \in locked'[k] : LockedWell(k, r)
    BY <2>4, <2>5 DEF RowsLocked
  <2>8. RowsLocked'
    BY <2>3, <2>7 DEF RowsLocked, LockedWell, Old, Age
  <2> QED
    BY <2>4, <2>6, <2>8 DEF LocksApart
<1>6. ASSUME NEW j \in Jobs, Delete(j) PROVE RowsLocked' /\ LocksApart'
  <2>1. /\ locked' = [locked EXCEPT ![j] = {}] /\ present' = present \ locked[j]
        /\ settled' = settled /\ created' = created /\ started' = started
    BY <1>6 DEF Delete
  <2>2. \A k \in Jobs \ {j} : stage'[k] = stage[k] /\ locked'[k] = locked[k]
    BY <1>6, <2>1, DeleteTypes
  <2>3. locked'[j] = {}
    BY <2>1
  <2>4. \A k \in Jobs \ {j} : \A s \in locked[k] :
           s \in present' /\ s \in settled /\ LockedWell(k, s)
    BY <2>1 DEF RowsLocked, LockedWell, LocksApart
  <2>5. RowsLocked'
    BY <2>1, <2>2, <2>3, <2>4, LockKept DEF RowsLocked
  <2> QED
    BY <2>2, <2>3, <2>5 DEF LocksApart
<1>7. ASSUME NEW j \in Jobs, DeleteFails(j) PROVE RowsLocked' /\ LocksApart'
  <2>1. /\ locked' = [locked EXCEPT ![j] = {}] /\ present \ locked[j] \subseteq present'
        /\ settled' = settled /\ created' = created /\ started' = started
    BY <1>7 DEF DeleteFails
  <2>2. \A k \in Jobs \ {j} : stage'[k] = stage[k] /\ locked'[k] = locked[k]
    BY <1>7, <2>1 DEF DeleteFails
  <2>3. locked'[j] = {}
    BY <2>1
  <2>4. \A k \in Jobs \ {j} : \A s \in locked[k] :
           s \in present' /\ s \in settled /\ LockedWell(k, s)
    BY <2>1 DEF RowsLocked, LockedWell, LocksApart
  <2>5. RowsLocked'
    BY <2>1, <2>2, <2>3, <2>4, LockKept DEF RowsLocked
  <2> QED
    BY <2>2, <2>3, <2>5 DEF LocksApart
<1> QED
  BY <1>1, <1>2, <1>3, <1>4, <1>5, <1>6, <1>7 DEF RetentionNext

LEMMA SchedulesStep ==
  ASSUME LockInv, RetentionNext, RetentionTypeOK'
  PROVE  OwnTables' /\ StartedBefore'
<1> USE DEF LockInv, RetentionTypeOK
<1>1. ASSUME NEW r \in Rows, Insert(r) \/ Settle(r) PROVE OwnTables' /\ StartedBefore'
  BY <1>1 DEF Insert, Settle, jobVars, OwnTables, StartedBefore
<1>2. CASE NextDay
  BY <1>2, RetentionAssumption DEF NextDay, jobVars, OwnTables, StartedBefore, Days
<1>3. ASSUME NEW j \in Jobs, StartCleanup(j) PROVE OwnTables' /\ StartedBefore'
  <2>1. PICK skew \in 0..JobSkew : today' = today /\ started' = [started EXCEPT ![j] = today + skew]
    BY <1>3 DEF StartCleanup
  <2>2. today + skew <= today + JobSkew
    BY RetentionAssumption DEF Days
  <2>3. StartedBefore'
    BY <2>1, <2>2 DEF StartedBefore
  <2> QED
    BY <1>3, <2>3, StartTypes DEF OwnTables
<1>4. ASSUME NEW j \in Jobs, Lock(j) PROVE OwnTables' /\ StartedBefore'
  BY <1>4 DEF Lock, OwnTables, StartedBefore
<1>5. ASSUME NEW j \in Jobs, Delete(j) PROVE OwnTables' /\ StartedBefore'
  <2>1. started' = started /\ today' = today
    BY <1>5 DEF Delete
  <2>2. OwnTables'
    BY <1>5, DeleteTypes DEF OwnTables, AnyTable, Slice1Tables
  <2> QED
    BY <2>1, <2>2 DEF StartedBefore
<1>6. ASSUME NEW j \in Jobs, DeleteFails(j) PROVE OwnTables' /\ StartedBefore'
  BY <1>6 DEF DeleteFails, OwnTables, StartedBefore, Slice1Tables
<1> QED
  BY <1>1, <1>2, <1>3, <1>4, <1>5, <1>6 DEF RetentionNext

LEMMA LockInvStep == LockInv /\ [RetentionNext]_retentionVars => LockInv'
<1> SUFFICES ASSUME LockInv, [RetentionNext]_retentionVars PROVE LockInv'
  OBVIOUS
<1>1. RetentionTypeOK'
  BY RetentionTypesStep DEF LockInv
<1>2. CASE UNCHANGED retentionVars
  BY <1>1, <1>2 DEF retentionVars, rowVars, jobVars, LockInv, OwnTables, RowsLocked, LockedWell,
     Old, Age, LocksApart, StartedBefore
<1>3. CASE RetentionNext
  BY <1>1, <1>3, LocksStep, SchedulesStep DEF LockInv
<1> QED
  BY <1>2, <1>3

LEMMA LockInvHolds == RetentionSpec => []LockInv
  BY LockInvInit, LockInvStep, PTL DEF RetentionSpec

-----------------------------------------------------------------------------
(* What goes. *)

LEMMA LockedIsOld ==
  ASSUME LockInv, NEW j \in Jobs, NEW r \in locked[j]
  PROVE  /\ r \in settled
         /\ today - created[r] > (IF TableOf[r] = "adm02" THEN AuditDays ELSE RetentionTtl) - JobSkew
<1> USE RetentionAssumption DEF LockInv, RetentionTypeOK, Days
<1>1. LockedWell(j, r) /\ r \in Rows
  BY DEF RowsLocked
<1>2. Age(j) = IF TableOf[r] = "adm02" THEN AuditDays ELSE RetentionTtl
  BY <1>1 DEF LockedWell, OwnTables, Age
<1>3. created[r] < started[j] - Age(j) /\ started[j] <= today + JobSkew
  BY <1>1 DEF LockedWell, Old, StartedBefore
<1>4. created[r] \in Int /\ started[j] \in Int /\ today \in Int /\ Age(j) \in Int
  BY <1>1 DEF Age
<1> QED
  BY <1>1, <1>2, <1>3, <1>4 DEF LockedWell

LEMMA StepsKeep == LockInv /\ [RetentionNext]_retentionVars => KeepStep
<1> SUFFICES ASSUME LockInv, [RetentionNext]_retentionVars, NEW r \in present \ present'
             PROVE  /\ r \in settled
                    /\ today - created[r] >
                         (IF TableOf[r] = "adm02" THEN AuditDays ELSE RetentionTtl) - JobSkew
  BY DEF KeepStep
<1>1. PICK j \in Jobs : r \in locked[j]
  BY DEF RetentionNext, Insert, Settle, NextDay, StartCleanup, Lock, Delete, DeleteFails,
     retentionVars, rowVars
<1> QED
  BY <1>1, LockedIsOld

\* The rows and the jobs keep their types.
THEOREM RetentionTypesCorrect == RetentionSpec => []RetentionTypeOK
<1>1. LockInv => RetentionTypeOK
  BY DEF LockInv
<1> QED
  BY <1>1, LockInvHolds, PTL

\* No cleanup, whatever it overlaps with and however it fails, deletes a row
\* that is pending, open or, but for the skew of the job's clock, younger than
\* its table is kept for.
THEOREM CleanupSparesTheRest == RetentionSpec => OnlyOldFinishedRowsGo
<1>1. RetentionSpec => [][RetentionNext]_retentionVars
  BY DEF RetentionSpec
<1> QED
  BY <1>1, LockInvHolds, StepsKeep, PTL DEF OnlyOldFinishedRowsGo

-----------------------------------------------------------------------------
(* What is reported. *)

ReportsInv == IsFiniteSet(Reported) /\ ReportsAddUp

\* A statement that is committed takes the rows it has locked.
LEMMA LockedGo ==
  ASSUME LockInv, NEW j \in Jobs, present' = present \ locked[j]
  PROVE  /\ Cardinality(present') = Cardinality(present) - Cardinality(locked[j])
         /\ Cardinality(present) \in Nat
<1> USE DEF LockInv, RetentionTypeOK
<1>1. locked[j] \subseteq present /\ IsFiniteSet(present)
  BY FS_Subset, RetentionAssumption DEF RowsLocked, LockedWell
<1>2. /\ IsFiniteSet(present \ locked[j])
      /\ Cardinality(present \ locked[j]) = Cardinality(present) - Cardinality(present \cap locked[j])
  BY <1>1, FS_Difference
<1>3. present \cap locked[j] = locked[j]
  BY <1>1
<1> QED
  BY <1>1, <1>2, <1>3, FS_CardinalityType

\* The next d numbers of a job that has reported a rows.
Numbers(j, a, d) == {j} \X (a + 1 .. a + d)
LEMMA Numbered ==
  ASSUME NEW j, NEW a \in Nat, NEW d \in Nat
  PROVE  IsFiniteSet(Numbers(j, a, d)) /\ Cardinality(Numbers(j, a, d)) = d
<1>1. IsFiniteSet({j}) /\ Cardinality({j}) = 1
  BY FS_Singleton
<1>2. a + 1 \in Int /\ a + d \in Int
  OBVIOUS
<1>3. /\ IsFiniteSet(a + 1 .. a + d)
      /\ Cardinality(a + 1 .. a + d) = IF a + 1 <= a + d THEN (a + d) - (a + 1) + 1 ELSE 0
  BY <1>2, FS_Interval
<1>4. Cardinality(a + 1 .. a + d) = d
  BY <1>3
<1> DEFINE I == a + 1 .. a + d
<1> HIDE DEF I
<1>5. IsFiniteSet({j} \X I) /\ Cardinality({j} \X I) = Cardinality({j}) * Cardinality(I)
  BY <1>1, <1>3, FS_Product DEF I
<1> QED
  BY <1>1, <1>4, <1>5 DEF I, Numbers

\* A statement reports as many rows as it deletes.
LEMMA DeleteReports ==
  ASSUME LockInv, ReportsInv, NEW j \in Jobs, Delete(j)
  PROVE  ReportsInv'
<1> DEFINE d == Cardinality(locked[j])
           new == Numbers(j, total[j], d)
<1> USE DEF LockInv, RetentionTypeOK, ReportsInv
<1>1. d \in Nat /\ total[j] \in Nat /\ inserts \in Nat
  BY DeletedIsNatural
<1>2. /\ total' = [total EXCEPT ![j] = @ + d]
      /\ present' = present \ locked[j] /\ inserts' = inserts
  BY DEF Delete
<1>3. Cardinality(present') = Cardinality(present) - d /\ Cardinality(present) \in Nat
  BY <1>2, LockedGo
<1>4. stage[j] # "failed" /\ \A k \in Jobs \ {j} : stage'[k] = stage[k]
  BY DeleteTypes DEF AnyTable, Slice1Tables
<1> HIDE DEF d
<1>5. IsFiniteSet(new) /\ Cardinality(new) = d
  BY <1>1, Numbered
<1>6. Reported' = Reported \union new
  <2>1. \A k \in Jobs : total'[k] = IF k = j THEN total[j] + d ELSE total[k]
    BY <1>1, <1>2
  <2>2. 1..(total[j] + d) = (1..total[j]) \union (total[j] + 1 .. total[j] + d)
    BY <1>1
  <2>3. \A k \in Jobs : {k} \X (1..total'[k]) =
           IF k = j THEN ({j} \X (1..total[j])) \union new ELSE {k} \X (1..total[k])
    BY <2>1, <2>2 DEF Numbers
  <2> QED
    BY <2>3 DEF Reported
<1>7. Reported \cap new = {}
  <2> SUFFICES ASSUME NEW x \in Reported, x \in new PROVE FALSE
    OBVIOUS
  <2>1. PICK k \in Jobs : x \in {k} \X (1..total[k])
    BY DEF Reported
  <2>2. x[1] = k /\ x[2] \in 1..total[k] /\ x[1] = j /\ x[2] \in total[j] + 1 .. total[j] + d
    BY <2>1 DEF Numbers
  <2> QED
    BY <1>1, <2>2
<1> HIDE DEF new
<1>8. /\ IsFiniteSet(Reported \union new)
      /\ Cardinality(Reported \union new) = Cardinality(Reported) + Cardinality(new) - Cardinality({})
  BY <1>5, <1>7, FS_Union
<1>9. Cardinality(Reported') = Cardinality(Reported) + d /\ Cardinality(Reported) \in Nat
  BY <1>1, <1>5, <1>6, <1>8, FS_EmptySet, FS_CardinalityType
<1>10. Gone' = Gone + d /\ Gone \in Int
  BY <1>1, <1>2, <1>3 DEF Gone
<1>11. (\A k \in Jobs : stage'[k] # "failed") => \A k \in Jobs : stage[k] # "failed"
  BY <1>4
<1> QED
  BY <1>1, <1>6, <1>8, <1>9, <1>10, <1>11 DEF ReportsAddUp

\* One that fails counts nothing, whether its rows are gone or not.
LEMMA FailureReports ==
  ASSUME LockInv, ReportsInv, NEW j \in Jobs, DeleteFails(j)
  PROVE  ReportsInv'
<1> USE DEF LockInv, RetentionTypeOK, ReportsInv
<1>1. /\ total' = total /\ inserts' = inserts /\ stage'[j] = "failed"
      /\ present' = present \/ present' = present \ locked[j]
  BY DEF DeleteFails
<1>2. Cardinality(locked[j]) \in Nat
  BY DeletedIsNatural
<1>3. present' = present \/ (/\ Cardinality(present') = Cardinality(present) - Cardinality(locked[j])
                            /\ Cardinality(present) \in Nat)
  BY <1>1, LockedGo
<1>4. Reported' = Reported /\ Cardinality(Reported) \in Nat
  BY <1>1, FS_CardinalityType DEF Reported
<1>5. Cardinality(present) \in Nat /\ inserts \in Nat
  BY FS_Subset, FS_CardinalityType, RetentionAssumption
<1>6. Gone <= Gone' /\ Gone \in Int /\ Gone' \in Int
  BY <1>1, <1>2, <1>3, <1>5 DEF Gone
<1> QED
  BY <1>1, <1>4, <1>6 DEF ReportsAddUp

LEMMA ReportsStep ==
  LockInv /\ ReportsInv /\ [RetentionNext]_retentionVars
  => ReportsInv'
<1> SUFFICES ASSUME LockInv, ReportsInv, [RetentionNext]_retentionVars
             PROVE  ReportsInv'
  OBVIOUS
<1>1. ASSUME NEW r \in Rows, Insert(r) PROVE ReportsInv'
  <2>1. /\ total' = total /\ inserts' = inserts + 1
        /\ present' = present \union {r} /\ r \notin present /\ stage' = stage
    BY <1>1 DEF Insert, jobVars
  <2>2. IsFiniteSet(present) /\ inserts \in Nat
    BY FS_Subset, RetentionAssumption DEF LockInv, RetentionTypeOK
  <2>3. Cardinality(present') = Cardinality(present) + 1 /\ Cardinality(present) \in Nat
    BY <2>1, <2>2, FS_AddElement, FS_CardinalityType
  <2>4. Reported' = Reported
    BY <2>1 DEF Reported
  <2> QED
    BY <2>1, <2>2, <2>3, <2>4 DEF ReportsInv, ReportsAddUp, Gone
<1>2. ASSUME NEW j \in Jobs, Delete(j) \/ DeleteFails(j) PROVE ReportsInv'
  BY <1>2, DeleteReports, FailureReports
<1>3. ASSUME UNCHANGED <<total, present, inserts>>,
             \A j \in Jobs : stage[j] = "failed" => stage'[j] = "failed"
      PROVE  ReportsInv'
  BY <1>3 DEF ReportsInv, Reported, ReportsAddUp, Gone
<1>4. ASSUME NEW r \in Rows, Settle(r) PROVE ReportsInv'
  BY <1>3, <1>4 DEF Settle, jobVars
<1>5. ASSUME NEW j \in Jobs, StartCleanup(j) PROVE ReportsInv'
  <2>1. stage[j] = "idle" /\ \A k \in Jobs \ {j} : stage'[k] = stage[k]
    BY <1>5, StartTypes DEF StartCleanup, LockInv
  <2> QED
    BY <1>3, <1>5, <2>1 DEF StartCleanup, rowVars
<1>6. ASSUME NEW j \in Jobs, Lock(j) PROVE ReportsInv'
  BY <1>3, <1>6 DEF Lock, rowVars
<1>7. ASSUME NextDay \/ UNCHANGED retentionVars PROVE ReportsInv'
  BY <1>3, <1>7 DEF NextDay, retentionVars, rowVars, jobVars
<1> QED
  BY <1>1, <1>2, <1>4, <1>5, <1>6, <1>7 DEF RetentionNext

\* However many jobs run at once, fail or are told not to delete, together they
\* count no more rows than are gone, and all of those as long as none of their
\* statements has failed.
THEOREM WhatIsGoneIsReportedOnce == RetentionSpec => []ReportsAddUp
<1>1. RetentionInit => ReportsInv
  <2> SUFFICES ASSUME RetentionInit PROVE ReportsInv
    OBVIOUS
  <2>1. Reported = {}
    BY DEF RetentionInit, Reported
  <2> QED
    BY <2>1, FS_EmptySet DEF RetentionInit, ReportsInv, ReportsAddUp, Gone
<1> QED
  BY <1>1, ReportsStep, LockInvHolds, PTL DEF RetentionSpec, ReportsInv

=============================================================================
