------------------------------ MODULE Migrations ------------------------------
(***************************************************************************)
(* Opening the database: db.Open and applyMigrations, by a server and by   *)
(* commands that start at the same time on one file, of the same or of     *)
(* different releases, killed or failing anywhere.                         *)
(*                                                                         *)
(* Of SQLite in WAL mode the model keeps what decides who fails:           *)
(*   - one writer at a time; readers see what was committed;               *)
(*   - a transaction (BEGIN is deferred) reads the snapshot of its first   *)
(*     read; if that read comes before its first write, the write neither  *)
(*     waits nor succeeds unless nothing was committed since and nobody    *)
(*     writes;                                                             *)
(*   - a transaction that begins with a write, like a single statement,    *)
(*     waits for the writer for busy_timeout and then sees its work;       *)
(*   - a process that dies or closes the file loses what is not committed. *)
(*                                                                         *)
(* A version stands for its change of the schema: 1 for the tables of      *)
(* 001_init.sql, 2 for the column of 002_verified_by.sql.                  *)
(***************************************************************************)
EXTENDS FiniteSetsExt

CONSTANTS
  Procs,      \* processes that open the file
  NoProc,
  Supports,   \* [Procs -> the last version a process has the migration of]
  MaxFaults   \* bound: failing statements and crashes

ASSUME MigrationsAssumption ==
  /\ NoProc \notin Procs
  /\ Supports \in [Procs -> 1 .. 2]
  /\ MaxFaults \in Nat

VARIABLES
  ledger,    \* the table schema_migrations exists
  versions,  \* its rows
  schema,    \* the versions whose change the tables have
  commits,   \* how often something was committed
  writer,    \* who holds the write lock
  pc,        \* where each process is
  at,        \* m.version
  snapshot,  \* commits at the first read of its transaction, or None
  added,     \* changed but not committed: does its transaction alter the schema?
  faults,    \* failing statements and crashes so far
  excused    \* history: processes with a fault, or with a writer beside them

file == <<ledger, versions, schema, commits>>
tx == <<snapshot, added>>
vars == <<file, writer, pc, at, tx, faults, excused>>

None == -1

Labels ==
  {"idle", "ledger", "look", "check", "create", "inspect", "alter", "record", "commit",
   "open", "refused", "failed"}

Opening(p) == pc[p] \notin {"idle", "open", "refused", "failed"}

\* Uncommitted changes are those of the writer, and a transaction that has
\* read without writing holds no lock.
TypeOK ==
  /\ ledger \in BOOLEAN
  /\ versions \subseteq 1 .. 3
  /\ schema \subseteq 1 .. 3
  /\ versions # {} => ledger
  /\ commits \in Nat
  /\ writer \in Procs \union {NoProc}
  /\ pc \in [Procs -> Labels]
  /\ at \in [Procs -> 1 .. 2]
  /\ \A p \in Procs : at[p] <= Supports[p]
  /\ snapshot \in [Procs -> Nat \union {None}]
  /\ added \in [Procs -> BOOLEAN]
  /\ \A p \in Procs : added[p] => writer = p
  /\ writer # NoProc => pc[writer] \in {"record", "commit"}
  /\ faults \in 0 .. MaxFaults
  /\ excused \subseteq Procs

\* Files as they may be found: none yet; tables from before version tracking,
\* with or without the column; every version; one of a later release.
Init ==
  /\ \/ schema \in {{}, {1}, {1, 2}} /\ versions = {}
     \/ schema \in {{1}, {1, 2}, {1, 2, 3}} /\ versions = schema
  /\ ledger = (versions # {})
  /\ commits = 0
  /\ writer = NoProc
  /\ pc = [p \in Procs |-> "idle"]
  /\ at = [p \in Procs |-> 1]
  /\ snapshot = [p \in Procs |-> None]
  /\ added = [p \in Procs |-> FALSE]
  /\ faults = 0
  /\ excused = {}

-----------------------------------------------------------------------------
Goto(p, label) == pc' = [pc EXCEPT ![p] = label]

\* p writes: whoever is opening the file beside it may fail for that.
Disturb(p) == excused' = excused \union {q \in Procs \ {p} : Opening(q)}

\* The transaction ends.
Ends(p) ==
  /\ writer' = IF writer = p THEN NoProc ELSE writer
  /\ snapshot' = [snapshot EXCEPT ![p] = None]
  /\ added' = [added EXCEPT ![p] = FALSE]

\* Mutant: the error path forgets the rollback.
GivesUpHolding(p) ==
  /\ Goto(p, "failed")
  /\ UNCHANGED <<file, writer, at, tx>>

\* An error: rollback, the file is closed, the process gives up.
GivesUp(p) ==
  /\ Goto(p, "failed")
  /\ Ends(p)
  /\ UNCHANGED <<file, at>>

\* Somebody starts the program.
Start(p) ==
  /\ pc[p] \in {"idle", "failed"}
  /\ Goto(p, "ledger")
  /\ excused' = IF writer = NoProc THEN excused \ {p} ELSE excused \union {p}
  /\ UNCHANGED <<file, writer, at, tx, faults>>

\* CREATE TABLE IF NOT EXISTS schema_migrations.
Ledger(p) ==
  /\ pc[p] = "ledger"
  /\ Goto(p, "look")
  /\ \/ ledger /\ UNCHANGED <<ledger, commits, excused>>
     \/ /\ ~ledger
        /\ writer = NoProc
        /\ ledger' = TRUE
        /\ commits' = commits + 1
        /\ Disturb(p)
  /\ UNCHANGED <<versions, schema, writer, at, tx, faults>>

\* SELECT MAX(version): a file of a later release is left alone.
Look(p) ==
  /\ pc[p] = "look"
  /\ at' = [at EXCEPT ![p] = 1]
  /\ Goto(p, IF Max(versions \union {0}) > Supports[p] THEN "refused" ELSE "check")
  /\ UNCHANGED <<file, writer, tx, faults, excused>>

\* Mutant: there is always one more migration.
AdvanceOneMore(p) ==
  /\ at' = [at EXCEPT ![p] = @ + 1]
  /\ Goto(p, IF at[p] <= Supports[p] THEN "check" ELSE "open")

\* The migration is dealt with: on to the next one, or Open returns.
Advance(p) ==
  IF at[p] = Supports[p]
  THEN Goto(p, "open") /\ UNCHANGED at
  ELSE Goto(p, "check") /\ at' = [at EXCEPT ![p] = @ + 1]

\* SELECT COUNT(*) ... WHERE version = ?, then BEGIN.
Check(p) ==
  /\ pc[p] = "check"
  /\ IF at[p] \in versions
     THEN Advance(p)
     ELSE Goto(p, IF at[p] = 1 THEN "create" ELSE "inspect") /\ UNCHANGED at
  /\ UNCHANGED <<file, writer, tx, faults, excused>>

\* 001_init.sql: every statement says IF NOT EXISTS.  Where all is there they
\* only read.
Create(p) ==
  /\ pc[p] = "create"
  /\ Goto(p, "record")
  /\ snapshot' = [snapshot EXCEPT ![p] = commits]
  /\ \/ 1 \in schema /\ UNCHANGED <<writer, added, excused>>
     \/ /\ 1 \notin schema
        /\ writer = NoProc
        /\ writer' = p
        /\ added' = [added EXCEPT ![p] = TRUE]
        /\ Disturb(p)
  /\ UNCHANGED <<file, at, faults>>

\* Mutant: the column is added without a look whether it is there.
InspectNot(p) ==
  /\ pc[p] = "inspect"
  /\ snapshot' = [snapshot EXCEPT ![p] = commits]
  /\ Goto(p, "alter")
  /\ UNCHANGED <<file, writer, at, added, faults, excused>>

\* PRAGMA table_info(requests), the first read of the transaction.
Inspect(p) ==
  /\ pc[p] = "inspect"
  /\ snapshot' = [snapshot EXCEPT ![p] = commits]
  /\ Goto(p, IF 2 \in schema THEN "record" ELSE "alter")
  /\ UNCHANGED <<file, writer, at, added, faults, excused>>

\* A transaction that has read may write.
Current(p) == writer = p \/ (writer = NoProc /\ snapshot[p] = commits)

\* ALTER TABLE requests ADD COLUMN.
Alter(p) ==
  /\ pc[p] = "alter"
  /\ \/ /\ Current(p) /\ 2 \notin schema
        /\ Goto(p, "record")
        /\ writer' = p
        /\ added' = [added EXCEPT ![p] = TRUE]
        /\ Disturb(p)
        /\ UNCHANGED <<file, at, snapshot>>
     \/ /\ ~(Current(p) /\ 2 \notin schema)
        /\ GivesUp(p)
        /\ UNCHANGED excused
  /\ UNCHANGED faults

\* INSERT INTO schema_migrations, where version is the primary key.
Record(p) ==
  /\ pc[p] = "record"
  /\ \/ /\ Current(p) /\ at[p] \notin versions
        /\ Goto(p, "commit")
        /\ writer' = p
        /\ Disturb(p)
        /\ UNCHANGED <<file, at, tx>>
     \/ /\ ~(Current(p) /\ at[p] \notin versions)
        /\ GivesUp(p)
        /\ UNCHANGED excused
  /\ UNCHANGED faults

Commit(p) ==
  /\ pc[p] = "commit"
  /\ versions' = versions \union {at[p]}
  /\ schema' = IF added[p] THEN schema \union {at[p]} ELSE schema
  /\ commits' = commits + 1
  /\ Ends(p)
  /\ Advance(p)
  /\ Disturb(p)
  /\ UNCHANGED <<ledger, faults>>

\* busy_timeout passes while another process writes.
Busy(p) ==
  /\ \/ pc[p] = "ledger" /\ ~ledger
     \/ pc[p] = "create" /\ 1 \notin schema
  /\ writer # NoProc
  /\ GivesUp(p)
  /\ UNCHANGED <<faults, excused>>

-----------------------------------------------------------------------------
Fault(p) ==
  /\ faults < MaxFaults
  /\ faults' = faults + 1
  /\ excused' = excused \union {p}

\* Mutant: the error of a migration's statement is overlooked.
FailsUnnoticed(p) ==
  /\ Opening(p)
  /\ Fault(p)
  /\ IF pc[p] \in {"create", "alter"}
     THEN /\ Goto(p, "record")
          /\ snapshot' = [snapshot EXCEPT ![p] = commits]
          /\ UNCHANGED <<file, at, writer, added>>
     ELSE GivesUp(p)

\* Mutant: the error of the COMMIT is overlooked.
FailsToCommit(p) ==
  /\ Opening(p)
  /\ Fault(p)
  /\ IF pc[p] = "commit"
     THEN Ends(p) /\ Advance(p) /\ UNCHANGED file
     ELSE GivesUp(p)

\* A statement fails, the disk being full, say, or the connection.
Fails(p) ==
  /\ Opening(p)
  /\ Fault(p)
  /\ GivesUp(p)

\* The process is killed while it opens the file, or ends later.
Crash(p) ==
  /\ Opening(p)
  /\ Fault(p)
  /\ Goto(p, "idle")
  /\ Ends(p)
  /\ UNCHANGED <<file, at>>

Exit(p) ==
  /\ pc[p] = "open"
  /\ Goto(p, "idle")
  /\ UNCHANGED <<file, writer, at, tx, faults, excused>>

Step(p) ==
  \/ Ledger(p) \/ Look(p) \/ Check(p) \/ Create(p) \/ Inspect(p) \/ Alter(p)
  \/ Record(p) \/ Commit(p) \/ Busy(p)

Next == \E p \in Procs : Start(p) \/ Step(p) \/ Fails(p) \/ Crash(p) \/ Exit(p)

Spec == Init /\ [][Next]_vars

\* A statement ends, by its busy_timeout if not before, and whoever saw the
\* program fail starts it again.
FairSpec == Spec /\ \A p \in Procs : WF_vars(Step(p)) /\ WF_vars(pc[p] = "failed" /\ Start(p))

-----------------------------------------------------------------------------
\* A recorded version is in the schema: nobody will ever skip a change that
\* was not made, whoever died in between.
VersionsTrue == versions \subseteq schema

\* A process whose Open succeeded has every table and column it was written
\* for, recorded.
OpenedComplete ==
  \A p \in Procs : pc[p] = "open" => 1 .. Supports[p] \subseteq versions \intersect schema

\* docs/storage.md: "Existing databases from before version tracking are
\* adopted".  Whatever file it finds, a process fails only for a fault or
\* because another one writes, and refuses only a later release's file.
AloneOpens ==
  \A p \in Procs :
    /\ pc[p] = "failed" => p \in excused
    /\ pc[p] = "refused" => \E v \in versions : v > Supports[p]

\* Processes that start together disturb each other, but not for ever: who
\* starts the program again gets in, or learns that his release is too old.
RetryOpens ==
  \A p \in Procs : Opening(p) ~> (pc[p] \in {"open", "refused"} \/ pc[p] = "idle")
=============================================================================
