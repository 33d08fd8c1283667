----------------------------- MODULE Migrations -----------------------------
(***************************************************************************)
(* Applying the SQL files of a release, in the order of their names, with  *)
(* a ledger of what was applied. Several processes may run it at once,     *)
(* from releases whose files differ; a file and its ledger row are two     *)
(* statements, and a run may end between them.                             *)
(***************************************************************************)
EXTENDS Naturals

CONSTANTS FileCount,    \* of the files of a release, in their order
          Checksums, Runners,
          Checksum,     \* of a file in the release of a runner
          MaxRuns

Files == 1..FileCount
ASSUME MigrationsAssumption ==
    /\ FileCount \in Nat
    /\ Checksum \in [Runners -> [Files -> Checksums]]
    /\ MaxRuns \in Nat
    /\ {"none", "null"} \cap Checksums = {}

VARIABLES ledger,      \* schema_migration_ledger; "null" is a row without checksum
          executed,    \* the contents of a file the database has executed
          phase, file, \* of a runner, and the file it is at
          known,       \* ledger_checksums: the ledger as the run read it
          old,         \* files that were applied before checksums were kept
          runs

schema == <<ledger, executed>>
migrationVars == <<schema, phase, file, known, old, runs>>

Recorded == Checksums \union {"none", "null"}
MigrationsTypeOK ==
    /\ ledger \in [Files -> Recorded]
    /\ executed \in [Files -> SUBSET Checksums]
    /\ phase \in [Runners -> {"start", "next", "record", "done", "drift"}]
    /\ file \in [Runners -> Nat]
    /\ known \in [Runners -> [Files -> Recorded]]
    /\ old \subseteq Files
    /\ runs \in Nat

MigrationsInit ==
    /\ \E n \in Files \union {0} : old = {f \in Files : f <= n}
    /\ ledger = [f \in Files |-> IF f \in old THEN "null" ELSE "none"]
    /\ executed \in [Files -> SUBSET Checksums]
    /\ \A f \in Files : executed[f] # {} <=> f \in old
    /\ phase = [r \in Runners |-> "start"] /\ file = [r \in Runners |-> 0]
    /\ known = [r \in Runners |-> [f \in Files |-> "none"]]
    /\ runs = 0

Load(r) ==
    /\ phase[r] = "start"
    /\ known' = [known EXCEPT ![r] = ledger]
    /\ phase' = [phase EXCEPT ![r] = "next"] /\ file' = [file EXCEPT ![r] = 1]
    /\ UNCHANGED <<schema, old, runs>>

At(r) == phase[r] = "next" /\ file[r] \in Files
Own(r) == Checksum[r][file[r]]
Read(r) == known[r][file[r]]
Advance(r) == file' = [file EXCEPT ![r] = @ + 1]

\* Defect: a row without checksum is trusted and left as it is.
BackfillForgotten(r) ==
    /\ At(r) /\ Read(r) = "null"
    /\ Advance(r)
    /\ UNCHANGED <<ledger, executed, phase, known, old, runs>>

\* A row without checksum is trusted and completed.
Backfill(r) ==
    /\ At(r) /\ Read(r) = "null"
    /\ ledger' = [ledger EXCEPT ![file[r]] = IF @ = "null" THEN Own(r) ELSE @]
    /\ Advance(r)
    /\ UNCHANGED <<executed, phase, known, old, runs>>
Skip(r) ==
    /\ At(r) /\ Read(r) = Own(r)
    /\ Advance(r)
    /\ UNCHANGED <<schema, phase, known, old, runs>>
Drift(r) ==
    /\ At(r) /\ Read(r) \notin {"none", "null", Own(r)}
    /\ phase' = [phase EXCEPT ![r] = "drift"]
    /\ UNCHANGED <<schema, file, known, old, runs>>
\* Defect: the ledger row is written before the file is executed.
ExecuteRecordedFirst(r) ==
    /\ At(r) /\ Read(r) = "none"
    /\ IF ledger[file[r]] = "none"
       THEN ledger' = [ledger EXCEPT ![file[r]] = Own(r)] /\ UNCHANGED <<executed, phase>>
       ELSE /\ executed' = [executed EXCEPT ![file[r]] = @ \union {Own(r)}]
            /\ phase' = [phase EXCEPT ![r] = "record"] /\ UNCHANGED ledger
    /\ UNCHANGED <<file, known, old, runs>>

Execute(r) ==
    /\ At(r) /\ Read(r) = "none"
    /\ executed' = [executed EXCEPT ![file[r]] = @ \union {Own(r)}]
    /\ phase' = [phase EXCEPT ![r] = "record"]
    /\ UNCHANGED <<ledger, file, known, old, runs>>
\* ON CONFLICT DO NOTHING: the first to record keeps the row.
Record(r) ==
    /\ phase[r] = "record"
    /\ ledger' = [ledger EXCEPT ![file[r]] = IF @ = "none" THEN Own(r) ELSE @]
    /\ phase' = [phase EXCEPT ![r] = "next"]
    /\ Advance(r)
    /\ UNCHANGED <<executed, known, old, runs>>
FinishRun(r) ==
    /\ phase[r] = "next" /\ file[r] \notin Files
    /\ phase' = [phase EXCEPT ![r] = "done"]
    /\ UNCHANGED <<schema, file, known, old, runs>>

\* A run that failed, crashed or ended is started again.
RunAgain(r) ==
    /\ runs < MaxRuns /\ runs' = runs + 1
    /\ phase[r] # "start"
    /\ phase' = [phase EXCEPT ![r] = "start"]
    /\ UNCHANGED <<schema, file, known, old>>

RunnerStep(r) == \/ Load(r) \/ Backfill(r) \/ Skip(r) \/ Drift(r) \/ Execute(r)
                 \/ Record(r) \/ FinishRun(r) \/ RunAgain(r)
MigrationsNext == \E r \in Runners : RunnerStep(r)
MigrationsSpec == MigrationsInit /\ [][MigrationsNext]_migrationVars

-----------------------------------------------------------------------------
\* The ledger never claims what did not happen, and no file runs early: a row
\* means the file was executed, with exactly the recorded contents unless it
\* is older than the checksums, and a file is executed only after every
\* earlier one is recorded - whatever crashes and overlaps there were.
LedgerMatchesSchema == \A f \in Files :
    /\ ledger[f] # "none" => executed[f] # {}
    /\ ledger[f] \in Checksums /\ f \notin old => ledger[f] \in executed[f]
    /\ executed[f] # {} => \A g \in Files : g < f => ledger[g] # "none"

\* A run that finishes leaves its whole release recorded: a checksum it read
\* is its own, and one it could not read was written by it or by a run it
\* overlapped with.
FinishedMeansRecorded == \A r \in Runners, f \in Files :
    phase[r] = "done" =>
        /\ ledger[f] \in Checksums
        /\ known[r][f] \in Checksums => ledger[f] = Checksum[r][f]

=============================================================================
