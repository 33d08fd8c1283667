------------------------- MODULE MigrationsProofs -------------------------
(***************************************************************************)
(* Theorems about Migrations, for every release, every number of runners   *)
(* and every interleaving of their statements.                             *)
(*                                                                         *)
(* LedgerMatchesSchema is not inductive: that a row recorded by a runner   *)
(* matches the schema rests on where the runner is. LedgerInv says what a  *)
(* runner knows of the ledger, and what it has left behind it.             *)
(***************************************************************************)
EXTENDS Migrations, TLAPS

\* What a run read stays true: a row never goes, and a checksum never changes.
KnownHolds == \A r \in Runners, f \in Files :
    /\ known[r][f] # "none" => ledger[f] # "none"
    /\ known[r][f] = "null" => f \in old
    /\ known[r][f] \in Checksums => ledger[f] = known[r][f]

OldAreRecorded == \A f \in Files :
    /\ f \in old => ledger[f] # "none"
    /\ ledger[f] = "null" => f \in old

Running(r) == phase[r] \in {"next", "record", "done"}

\* What the run has passed is recorded, as its release has it where it could tell.
PassedIsRecorded == \A r \in Runners, f \in Files :
    Running(r) /\ f < file[r] =>
        /\ ledger[f] \in Checksums
        /\ known[r][f] \in Checksums => ledger[f] = Checksum[r][f]

\* Between the two statements of a file.
ExecutedIsDue == \A r \in Runners :
    /\ Running(r) => \A f \in Files : known[r][f] = "none" => f \notin old
    /\ phase[r] = "record" =>
         /\ file[r] \in Files
         /\ Checksum[r][file[r]] \in executed[file[r]]
         /\ known[r][file[r]] = "none"
    /\ phase[r] = "done" => file[r] > FileCount
    /\ Running(r) => file[r] > 0

LedgerInv ==
    /\ MigrationsTypeOK
    /\ LedgerMatchesSchema
    /\ KnownHolds
    /\ OldAreRecorded
    /\ PassedIsRecorded
    /\ ExecutedIsDue

LEMMA LedgerInvInit == MigrationsInit => LedgerInv
<1> SUFFICES ASSUME MigrationsInit PROVE LedgerInv
  OBVIOUS
<1> USE MigrationsAssumption DEF MigrationsInit, Files
<1>1. MigrationsTypeOK
  BY SMT DEF MigrationsTypeOK, Recorded
<1>2. LedgerMatchesSchema
  BY <1>1, SMT DEF LedgerMatchesSchema, MigrationsTypeOK
<1>3. KnownHolds /\ OldAreRecorded
  BY SMT DEF KnownHolds, OldAreRecorded
<1>4. PassedIsRecorded /\ ExecutedIsDue
  BY SMT DEF PassedIsRecorded, ExecutedIsDue, Running
<1> QED
  BY <1>1, <1>2, <1>3, <1>4 DEF LedgerInv

LEMMA RunnerTypes ==
  ASSUME LedgerInv, NEW r \in Runners, RunnerStep(r)
  PROVE  MigrationsTypeOK'
<1> USE MigrationsAssumption DEF LedgerInv, MigrationsTypeOK, Recorded, Files
<1>1. CASE Load(r)
  BY <1>1 DEF Load, schema
<1>2. CASE Backfill(r)
  BY <1>2 DEF Backfill, At, Own, Read, Advance
<1>3. CASE Skip(r)
  BY <1>3 DEF Skip, At, Advance, schema
<1>4. CASE Drift(r)
  BY <1>4 DEF Drift, At, schema
<1>5. CASE Execute(r)
  <2>1. executed' \in [Files -> SUBSET Checksums]
    BY <1>5 DEF Execute, At, Own
  <2> QED
    BY <1>5, <2>1 DEF Execute, At
<1>6. CASE Record(r)
  <2>1. file[r] \in Files
    BY <1>6 DEF Record, ExecutedIsDue
  <2> QED
    BY <1>6, <2>1 DEF Record, Own, Advance
<1>7. CASE FinishRun(r)
  BY <1>7 DEF FinishRun, schema
<1>8. CASE RunAgain(r)
  BY <1>8 DEF RunAgain, schema
<1> QED
  BY <1>1, <1>2, <1>3, <1>4, <1>5, <1>6, <1>7, <1>8 DEF RunnerStep

(***************************************************************************)
(* What a step may do to the schema: nothing, complete an old row, execute *)
(* a file whose predecessors are recorded, or record one that was executed.*)
(***************************************************************************)

SchemaStays == UNCHANGED <<ledger, executed, old>>
RowSet(f, c) ==
    /\ ledger' = [ledger EXCEPT ![f] = c]
    /\ UNCHANGED <<executed, old>>
Fills(f, c) ==
    \/ ledger[f] = "null" /\ f \in old
    \/ ledger[f] = "none" /\ f \notin old /\ c \in executed[f]
FileExecuted(f, c) ==
    /\ executed' = [executed EXCEPT ![f] = @ \union {c}]
    /\ \A g \in Files : g < f => ledger[g] # "none"
    /\ UNCHANGED <<ledger, old>>

\* The effect of a step, in the words of the schema alone.
SchemaStep ==
    \/ SchemaStays
    \/ \E f \in Files, c \in Checksums : RowSet(f, c) /\ Fills(f, c)
    \/ \E f \in Files, c \in Checksums : FileExecuted(f, c)

LEMMA StepsAreSchemaSteps ==
  ASSUME LedgerInv, NEW r \in Runners, RunnerStep(r)
  PROVE  SchemaStep
<1> USE MigrationsAssumption
<1> DEFINE f == file[r]
           c == Checksum[r][f]
<1>1. CASE Load(r) \/ Skip(r) \/ Drift(r) \/ FinishRun(r) \/ RunAgain(r)
  BY <1>1 DEF Load, Skip, Drift, FinishRun, RunAgain, SchemaStep, SchemaStays, schema
<1>2. CASE Backfill(r)
  <2>1. f \in Files /\ c \in Checksums /\ known[r][f] = "null"
    BY <1>2 DEF Backfill, At, Read
  <2>2. f \in old
    BY <2>1 DEF LedgerInv, KnownHolds
  <2>3. CASE ledger[f] = "null"
    <3>1. RowSet(f, c) /\ Fills(f, c)
      BY <1>2, <2>2, <2>3 DEF Backfill, Own, RowSet, Fills
    <3> QED
      BY <2>1, <3>1 DEF SchemaStep
  <2>4. CASE ledger[f] # "null"
    BY <1>2, <2>1, <2>4 DEF Backfill, SchemaStep, SchemaStays, LedgerInv, MigrationsTypeOK
  <2> QED
    BY <2>3, <2>4
<1>3. CASE Execute(r)
  <2>1. f \in Files /\ c \in Checksums /\ phase[r] = "next"
    BY <1>3 DEF Execute, At
  <2>2. \A g \in Files : g < f => ledger[g] # "none"
    BY <2>1 DEF LedgerInv, PassedIsRecorded, Running
  <2>3. FileExecuted(f, c)
    BY <1>3, <2>2 DEF Execute, Own, FileExecuted
  <2> QED
    BY <2>1, <2>3 DEF SchemaStep
<1>4. CASE Record(r)
  <2>1. f \in Files /\ c \in Checksums /\ c \in executed[f] /\ f \notin old
    BY <1>4 DEF Record, LedgerInv, ExecutedIsDue, Running
  <2>2. CASE ledger[f] = "none"
    <3>1. RowSet(f, c) /\ Fills(f, c)
      BY <1>4, <2>1, <2>2 DEF Record, Own, RowSet, Fills
    <3> QED
      BY <2>1, <3>1 DEF SchemaStep
  <2>3. CASE ledger[f] # "none"
    BY <1>4, <2>1, <2>3 DEF Record, SchemaStep, SchemaStays, LedgerInv, MigrationsTypeOK
  <2> QED
    BY <2>2, <2>3
<1> QED
  BY <1>1, <1>2, <1>3, <1>4 DEF RunnerStep

\* A row once written stays, a checksum once written stays what it is, and
\* what was executed stays executed.
SchemaGrows == \A f \in Files :
    /\ ledger[f] # "none" => ledger'[f] # "none"
    /\ ledger[f] \in Checksums => ledger'[f] = ledger[f]
    /\ executed[f] \subseteq executed'[f]
    /\ (f \in old) = (f \in old')

LEMMA SchemaOnlyGrows ==
  ASSUME MigrationsTypeOK, SchemaStep
  PROVE  SchemaGrows
<1> USE MigrationsAssumption DEF MigrationsTypeOK, SchemaGrows
<1>1. CASE SchemaStays
  BY <1>1 DEF SchemaStays
<1>2. ASSUME NEW f \in Files, NEW c \in Checksums, RowSet(f, c), Fills(f, c)
      PROVE  SchemaGrows
  BY <1>2 DEF RowSet, Fills
<1>3. ASSUME NEW f \in Files, NEW c \in Checksums, FileExecuted(f, c)
      PROVE  SchemaGrows
  BY <1>3 DEF FileExecuted
<1> QED
  BY <1>1, <1>2, <1>3 DEF SchemaStep

LEMMA SchemaKept ==
  ASSUME MigrationsTypeOK, MigrationsTypeOK', LedgerMatchesSchema, OldAreRecorded, SchemaStep
  PROVE  LedgerMatchesSchema' /\ OldAreRecorded'
<1> USE MigrationsAssumption DEF MigrationsTypeOK
<1>1. CASE SchemaStays
  BY <1>1 DEF SchemaStays, LedgerMatchesSchema, OldAreRecorded
<1>2. ASSUME NEW f \in Files, NEW c \in Checksums, RowSet(f, c), Fills(f, c)
      PROVE  LedgerMatchesSchema' /\ OldAreRecorded'
  <2>1. executed' = executed /\ old' = old
    BY <1>2 DEF RowSet
  <2>2. ledger'[f] = c /\ \A g \in Files \ {f} : ledger'[g] = ledger[g]
    BY <1>2 DEF RowSet
  <2>3. c # "none" /\ c # "null"
    OBVIOUS
  <2>4. executed[f] # {}
    BY <1>2 DEF Fills, LedgerMatchesSchema
  <2>5. \A g \in Files : ledger'[g] # "none" => executed[g] # {}
    BY <2>2, <2>4 DEF LedgerMatchesSchema
  <2>6. \A g \in Files : ledger'[g] \in Checksums /\ g \notin old => ledger'[g] \in executed[g]
    BY <1>2, <2>2 DEF Fills, LedgerMatchesSchema
  <2>7. \A g \in Files : ledger[g] # "none" => ledger'[g] # "none"
    BY <2>2, <2>3
  <2>8. LedgerMatchesSchema'
    BY <2>1, <2>5, <2>6, <2>7 DEF LedgerMatchesSchema
  <2> QED
    BY <2>1, <2>2, <2>3, <2>7, <2>8 DEF OldAreRecorded
<1>3. ASSUME NEW f \in Files, NEW c \in Checksums, FileExecuted(f, c)
      PROVE  LedgerMatchesSchema' /\ OldAreRecorded'
  <2>1. ledger' = ledger /\ old' = old /\ \A g \in Files : g < f => ledger[g] # "none"
    BY <1>3 DEF FileExecuted
  <2>2. executed'[f] = executed[f] \union {c}
    BY <1>3 DEF FileExecuted
  <2>3. \A g \in Files \ {f} : executed'[g] = executed[g]
    BY <1>3 DEF FileExecuted
  <2> QED
    BY <2>1, <2>2, <2>3 DEF LedgerMatchesSchema, OldAreRecorded
<1> QED
  BY <1>1, <1>2, <1>3 DEF SchemaStep

(***************************************************************************)
(* The runners. What one knows and has passed stays true while the others  *)
(* take their steps, and its own steps add to it.                          *)
(***************************************************************************)

OthersStand(r) == \A q \in Runners \ {r} :
    phase'[q] = phase[q] /\ file'[q] = file[q] /\ known'[q] = known[q]

LEMMA OthersDo ==
  ASSUME MigrationsTypeOK, NEW r \in Runners, RunnerStep(r)
  PROVE  OthersStand(r)
<1> USE DEF MigrationsTypeOK, OthersStand
<1>1. CASE Load(r)
  BY <1>1 DEF Load
<1>2. CASE Backfill(r) \/ Skip(r)
  BY <1>2 DEF Backfill, Skip, Advance
<1>3. CASE Drift(r) \/ Execute(r)
  BY <1>3 DEF Drift, Execute
<1>4. CASE Record(r)
  BY <1>4 DEF Record, Advance
<1>5. CASE FinishRun(r) \/ RunAgain(r)
  BY <1>5 DEF FinishRun, RunAgain
<1> QED
  BY <1>1, <1>2, <1>3, <1>4, <1>5 DEF RunnerStep

\* The invariant of one runner.
KnowsRow(r, f) ==
    /\ known[r][f] # "none" => ledger[f] # "none"
    /\ known[r][f] = "null" => f \in old
    /\ known[r][f] \in Checksums => ledger[f] = known[r][f]
Passed(r, f) ==
    Running(r) /\ f < file[r] =>
        /\ ledger[f] \in Checksums
        /\ known[r][f] \in Checksums => ledger[f] = Checksum[r][f]
Due(r) ==
    /\ Running(r) => \A f \in Files : known[r][f] = "none" => f \notin old
    /\ phase[r] = "record" =>
         /\ file[r] \in Files
         /\ Checksum[r][file[r]] \in executed[file[r]]
         /\ known[r][file[r]] = "none"
    /\ phase[r] = "done" => file[r] > FileCount
    /\ Running(r) => file[r] > 0
RunnerInv(r) == (\A f \in Files : KnowsRow(r, f) /\ Passed(r, f)) /\ Due(r)

LEMMA RunnerByRunner ==
    (\A r \in Runners : RunnerInv(r)) <=> KnownHolds /\ PassedIsRecorded /\ ExecutedIsDue
  BY DEF RunnerInv, KnowsRow, Passed, Due, KnownHolds, PassedIsRecorded, ExecutedIsDue

LEMMA OthersKeep ==
  ASSUME LedgerInv, MigrationsTypeOK', SchemaGrows, NEW r \in Runners, OthersStand(r),
         NEW q \in Runners \ {r}, RunnerInv(q)
  PROVE  RunnerInv(q)'
<1>1. phase'[q] = phase[q] /\ file'[q] = file[q] /\ known'[q] = known[q]
  BY DEF OthersStand
<1>2. \A f \in Files : KnowsRow(q, f)'
  BY <1>1, MigrationsAssumption DEF RunnerInv, KnowsRow, SchemaGrows, LedgerInv, MigrationsTypeOK
<1>3. \A f \in Files : Passed(q, f)'
  BY <1>1 DEF RunnerInv, Passed, Running, SchemaGrows, LedgerInv, MigrationsTypeOK
<1>4. Due(q)'
  BY <1>1 DEF RunnerInv, Due, Running, SchemaGrows, LedgerInv, MigrationsTypeOK
<1> QED
  BY <1>2, <1>3, <1>4 DEF RunnerInv

\* A step that leaves what the runner read as it was.
LEMMA ReadsKept ==
  ASSUME LedgerInv, SchemaGrows, NEW r \in Runners, RunnerInv(r), known' = known
  PROVE  \A f \in Files : KnowsRow(r, f)'
  BY MigrationsAssumption DEF RunnerInv, KnowsRow, SchemaGrows, LedgerInv, MigrationsTypeOK

\* A step that moves on to the next file, once this one is recorded.
LEMMA MovedOn ==
  ASSUME LedgerInv, MigrationsTypeOK', SchemaGrows, NEW r \in Runners, RunnerInv(r),
         known' = known, Running(r), file[r] \in Files, phase'[r] = "next",
         file'[r] = file[r] + 1,
         ledger'[file[r]] \in Checksums,
         known[r][file[r]] \in Checksums => ledger'[file[r]] = Checksum[r][file[r]]
  PROVE  RunnerInv(r)'
<1> USE MigrationsAssumption DEF Files
<1>1. \A f \in Files : KnowsRow(r, f)'
  BY ReadsKept
<1>2. file[r] \in Nat
  BY DEF LedgerInv, MigrationsTypeOK
<1>3. ASSUME NEW f \in Files PROVE Passed(r, f)'
  <2>1. CASE f = file[r]
    BY <2>1 DEF Passed
  <2>2. CASE f # file[r]
    <3>1. f < file'[r] => f < file[r]
      BY <1>2, <2>2
    <3>2. Passed(r, f)
      BY DEF RunnerInv
    <3> QED
      BY <3>1, <3>2 DEF Passed, SchemaGrows
  <2> QED
    BY <2>1, <2>2
<1>4. Due(r)'
  BY <1>2 DEF RunnerInv, Due, Running, SchemaGrows
<1> QED
  BY <1>1, <1>3, <1>4 DEF RunnerInv

LEMMA OwnStep ==
  ASSUME LedgerInv, MigrationsTypeOK', SchemaGrows, NEW r \in Runners, RunnerStep(r),
         RunnerInv(r)
  PROVE  RunnerInv(r)'
<1> USE MigrationsAssumption DEF LedgerInv, MigrationsTypeOK, Recorded
<1> DEFINE f == file[r]
<1>1. CASE Load(r)
  <2>1. known'[r] = ledger /\ ledger' = ledger /\ old' = old
    BY <1>1 DEF Load, schema
  <2>2. phase'[r] = "next" /\ file'[r] = 1
    BY <1>1 DEF Load
  <2>3. \A g \in Files : KnowsRow(r, g)'
    BY <2>1 DEF KnowsRow, OldAreRecorded
  <2>4. \A g \in Files : Passed(r, g)'
    BY <2>2 DEF Passed, Files
  <2>5. Due(r)'
    BY <2>1, <2>2 DEF Due, Running, OldAreRecorded
  <2> QED
    BY <2>3, <2>4, <2>5 DEF RunnerInv
<1>2. CASE Backfill(r)
  <2>1. f \in Files /\ phase[r] = "next" /\ known[r][f] = "null" /\ known' = known
    BY <1>2 DEF Backfill, At, Read
  <2>2. phase'[r] = "next" /\ file'[r] = f + 1
    BY <1>2 DEF Backfill, At, Advance
  <2>3. ledger[f] # "none"
    BY <2>1 DEF RunnerInv, KnowsRow
  <2>4. ledger'[f] \in Checksums
    BY <1>2, <2>1, <2>3 DEF Backfill, Own
  <2> QED
    BY <2>1, <2>2, <2>4, MovedOn DEF Running
<1>3. CASE Skip(r)
  <2>1. f \in Files /\ phase[r] = "next" /\ known[r][f] = Checksum[r][f] /\ known' = known
    BY <1>3 DEF Skip, At, Read, Own
  <2>2. phase'[r] = "next" /\ file'[r] = f + 1 /\ ledger' = ledger
    BY <1>3 DEF Skip, At, Advance, schema
  <2>3. ledger[f] = Checksum[r][f]
    BY <2>1 DEF RunnerInv, KnowsRow
  <2> QED
    BY <2>1, <2>2, <2>3, MovedOn DEF Running
<1>4. CASE Drift(r)
  <2>1. phase'[r] = "drift" /\ known' = known
    BY <1>4 DEF Drift
  <2> QED
    BY <2>1, ReadsKept DEF RunnerInv, Passed, Due, Running
<1>5. CASE Execute(r)
  <2>1. f \in Files /\ phase[r] = "next" /\ known[r][f] = "none" /\ known' = known
    BY <1>5 DEF Execute, At, Read
  <2>2. phase'[r] = "record" /\ file' = file /\ ledger' = ledger /\ old' = old
    BY <1>5 DEF Execute
  <2>3. Checksum[r][f] \in executed'[f]
    BY <1>5, <2>1 DEF Execute, Own
  <2>4. \A g \in Files : Passed(r, g)'
    BY <2>1, <2>2 DEF RunnerInv, Passed, Running
  <2>5. Due(r)'
    BY <2>1, <2>2, <2>3 DEF RunnerInv, Due, Running
  <2> QED
    BY <2>1, <2>4, <2>5, ReadsKept DEF RunnerInv
<1>6. CASE Record(r)
  <2>1. phase[r] = "record" /\ f \in Files /\ known[r][f] = "none" /\ f \notin old
    BY <1>6 DEF Record, RunnerInv, Due, Running
  <2>2. phase'[r] = "next" /\ file'[r] = f + 1 /\ known' = known
    BY <1>6 DEF Record, Advance
  <2>3. ledger[f] # "null"
    BY <2>1 DEF OldAreRecorded
  <2>4. ledger'[f] \in Checksums
    BY <1>6, <2>1, <2>3 DEF Record, Own
  <2> QED
    BY <2>1, <2>2, <2>4, MovedOn DEF Running
<1>7. CASE FinishRun(r)
  <2>1. phase[r] = "next" /\ f \notin Files /\ phase'[r] = "done"
    BY <1>7 DEF FinishRun
  <2>2. known' = known /\ file' = file /\ ledger' = ledger /\ old' = old
    BY <1>7 DEF FinishRun, schema
  <2>3. f > FileCount
    BY <2>1 DEF RunnerInv, Due, Running, Files
  <2>4. \A g \in Files : Passed(r, g)'
    BY <2>1, <2>2 DEF RunnerInv, Passed, Running
  <2>5. Due(r)'
    BY <2>1, <2>2, <2>3 DEF RunnerInv, Due, Running
  <2> QED
    BY <2>2, <2>4, <2>5, ReadsKept DEF RunnerInv
<1>8. CASE RunAgain(r)
  <2>1. phase'[r] = "start" /\ known' = known
    BY <1>8 DEF RunAgain
  <2> QED
    BY <2>1, ReadsKept DEF RunnerInv, Passed, Due, Running
<1> QED
  BY <1>1, <1>2, <1>3, <1>4, <1>5, <1>6, <1>7, <1>8 DEF RunnerStep

LEMMA LedgerInvStep == LedgerInv /\ [MigrationsNext]_migrationVars => LedgerInv'
<1> SUFFICES ASSUME LedgerInv, [MigrationsNext]_migrationVars PROVE LedgerInv'
  OBVIOUS
<1>1. CASE UNCHANGED migrationVars
  BY <1>1 DEF migrationVars, schema, LedgerInv, MigrationsTypeOK, LedgerMatchesSchema, KnownHolds,
     OldAreRecorded, PassedIsRecorded, ExecutedIsDue, Running
<1>2. ASSUME NEW r \in Runners, RunnerStep(r) PROVE LedgerInv'
  <2>1. MigrationsTypeOK' /\ SchemaStep
    BY <1>2, RunnerTypes, StepsAreSchemaSteps
  <2>2. LedgerMatchesSchema' /\ OldAreRecorded'
    BY <2>1, SchemaKept DEF LedgerInv
  <2>3. SchemaGrows /\ OthersStand(r)
    BY <1>2, <2>1, SchemaOnlyGrows, OthersDo DEF LedgerInv
  <2>4. \A q \in Runners : RunnerInv(q)
    BY RunnerByRunner DEF LedgerInv
  <2>5. \A q \in Runners \ {r} : RunnerInv(q)'
    BY <2>1, <2>3, <2>4, OthersKeep
  <2>6. RunnerInv(r)'
    BY <1>2, <2>1, <2>3, <2>4, OwnStep
  <2>7. \A q \in Runners : RunnerInv(q)'
    BY <2>5, <2>6
  <2>8. KnownHolds' /\ PassedIsRecorded' /\ ExecutedIsDue'
    BY <2>7 DEF RunnerInv, KnowsRow, Passed, Due, KnownHolds, PassedIsRecorded, ExecutedIsDue,
       Running
  <2> QED
    BY <2>1, <2>2, <2>8 DEF LedgerInv
<1> QED
  BY <1>1, <1>2 DEF MigrationsNext

LEMMA LedgerInvHolds == MigrationsSpec => []LedgerInv
  BY LedgerInvInit, LedgerInvStep, PTL DEF MigrationsSpec

-----------------------------------------------------------------------------
\* The ledger, the schema and the runners keep their types.
THEOREM MigrationTypesCorrect == MigrationsSpec => []MigrationsTypeOK
<1>1. LedgerInv => MigrationsTypeOK
  BY DEF LedgerInv
<1> QED
  BY <1>1, LedgerInvHolds, PTL

\* However many releases run at once and wherever a run ends, a ledger row is
\* never ahead of the schema and no file runs before its predecessors.
THEOREM LedgerIsTrue == MigrationsSpec => []LedgerMatchesSchema
<1>1. LedgerInv => LedgerMatchesSchema
  BY DEF LedgerInv
<1> QED
  BY <1>1, LedgerInvHolds, PTL

\* apply_postgres_migrations returns only when every file of its release is
\* recorded, and with its own checksum wherever it had one to compare.
THEOREM FinishedIsRecorded == MigrationsSpec => []FinishedMeansRecorded
<1>1. LedgerInv => FinishedMeansRecorded
  BY MigrationsAssumption DEF LedgerInv, FinishedMeansRecorded, PassedIsRecorded, ExecutedIsDue,
     Running, Files, MigrationsTypeOK
<1> QED
  BY <1>1, LedgerInvHolds, PTL

=============================================================================
