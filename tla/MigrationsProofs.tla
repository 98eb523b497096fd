--------------------------- MODULE MigrationsProofs ---------------------------
(***************************************************************************)
(* What holds of a database file for any number of processes that open it, *)
(* whatever fails and whoever dies.                                        *)
(***************************************************************************)
EXTENDS Migrations, TLAPS

\* The greatest recorded version is one of them, or there is none.
LEMMA MaxFacts ==
  ASSUME NEW S \in SUBSET (0 .. 3), S # {}
  PROVE  Max(S) \in S /\ \A x \in S : x <= Max(S)
<1>1. \E x \in S : \A y \in S : x >= y
  <2>1. CASE 3 \in S
    BY <2>1
  <2>2. CASE 3 \notin S /\ 2 \in S
    BY <2>2
  <2>3. CASE 3 \notin S /\ 2 \notin S /\ 1 \in S
    BY <2>3
  <2>4. CASE 3 \notin S /\ 2 \notin S /\ 1 \notin S
    <3>1. \A x \in S : x = 0
      BY <2>4
    <3>2. PICK x \in S : x = 0
      BY <3>1
    <3> QED
      BY <3>1, <3>2
  <2> QED
    BY <2>1, <2>2, <2>3, <2>4
<1> QED
  BY <1>1 DEF Max

-----------------------------------------------------------------------------
(* The inductive invariant. *)

InTx(p) == pc[p] \in {"create", "inspect", "alter", "record", "commit"}

\* A transaction is about the version its label says, and who is about to
\* commit has the change in the schema or makes it.
TxInv ==
  \A p \in Procs :
    /\ pc[p] = "create" => at[p] = 1
    /\ pc[p] \in {"inspect", "alter"} => at[p] = 2
    /\ pc[p] \in {"record", "commit"} => at[p] \in schema \/ added[p]
    /\ pc[p] = "commit" => writer = p

\* Who is past a version has found or recorded it.
ProgressInv ==
  \A p \in Procs :
    /\ pc[p] \in {"look", "check"} \/ InTx(p) => ledger
    /\ pc[p] = "check" \/ InTx(p) => \A v \in 1 .. 2 : v < at[p] => v \in versions
    /\ pc[p] = "open" => \A v \in 1 .. 2 : v <= Supports[p] => v \in versions

\* Without an excuse nobody writes beside a process, and what it has read is
\* still true.
AloneInv ==
  \A p \in Procs \ excused :
    /\ pc[p] # "failed"
    /\ Opening(p) => writer \in {p, NoProc}
    /\ InTx(p) => at[p] \notin versions
    /\ pc[p] = "alter" => 2 \notin schema
    /\ pc[p] \in {"alter", "record"} => snapshot[p] = commits

\* Who refused the file was right.
RefusedInv == \A p \in Procs : pc[p] = "refused" => \E v \in versions : v > Supports[p]

Inv ==
  /\ TypeOK
  /\ VersionsTrue
  /\ TxInv
  /\ ProgressInv
  /\ AloneInv
  /\ RefusedInv

\* Constants, spelled out.
LEMMA SupportFacts == \A q \in Procs : Supports[q] = 1 \/ Supports[q] = 2
BY MigrationsAssumption

LEMMA InitInv == Init => Inv
<1> SUFFICES ASSUME Init
             PROVE  Inv
  OBVIOUS
<1> USE DEF Init
<1>1. TypeOK
  <2>1. versions \subseteq 1 .. 3 /\ schema \subseteq 1 .. 3 /\ ledger \in BOOLEAN
    OBVIOUS
  <2>2. at \in [Procs -> 1 .. 2] /\ \A q \in Procs : at[q] <= Supports[q]
    BY SupportFacts
  <2>3. versions # {} => ledger
    OBVIOUS
  <2> QED
    BY <2>1, <2>2, <2>3, MigrationsAssumption DEF TypeOK, Labels, None
<1>2. VersionsTrue
  BY DEF VersionsTrue
<1>3. TxInv /\ ProgressInv /\ AloneInv /\ RefusedInv
  BY DEF TxInv, ProgressInv, AloneInv, RefusedInv, InTx, Opening
<1> QED
  BY <1>1, <1>2, <1>3 DEF Inv

-----------------------------------------------------------------------------
(* One lemma per action. *)

LEMMA StartInv ==
  ASSUME Inv, NEW p \in Procs, Start(p)
  PROVE  Inv'
<1> USE MigrationsAssumption DEF Inv, Start, Goto, Opening, file, tx
<1>1. TypeOK'
  BY DEF TypeOK, Labels, None, TxInv
<1>2. VersionsTrue'
  BY DEF TypeOK, VersionsTrue, TxInv
<1>3. TxInv'
  BY DEF TypeOK, TxInv
<1>4. ProgressInv'
  BY DEF TypeOK, ProgressInv, TxInv, InTx
<1>5. AloneInv'
  BY DEF TypeOK, AloneInv, TxInv, InTx
<1>6. RefusedInv'
  BY DEF TypeOK, RefusedInv
<1> QED
  BY <1>1, <1>2, <1>3, <1>4, <1>5, <1>6

LEMMA LedgerInv ==
  ASSUME Inv, NEW p \in Procs, Ledger(p)
  PROVE  Inv'
<1> USE MigrationsAssumption DEF Inv, Ledger, Goto, Opening, Disturb, file, tx
<1>1. TypeOK'
  <2>1. (/\ ledger \in BOOLEAN
         /\ versions # {} => ledger)'
    BY DEF TypeOK, ProgressInv, InTx
  <2>2. (/\ writer \in Procs \union {NoProc}
         /\ pc \in [Procs -> Labels]
         /\ writer # NoProc => pc[writer] \in {"record", "commit"})'
    BY DEF TypeOK, Labels, TxInv
  <2>3. (/\ at \in [Procs -> 1 .. 2]
         /\ \A q \in Procs : at[q] <= Supports[q])'
    BY SupportFacts DEF TypeOK
  <2>4. (added \in [Procs -> BOOLEAN])'
    BY DEF TypeOK
  <2>9. ASSUME NEW q \in Procs, added'[q]
        PROVE  writer' = q
    BY <2>9 DEF TypeOK, TxInv
  <2>5. (commits \in Nat)'
    BY DEF TypeOK
  <2>6. (excused \subseteq Procs)'
    BY DEF TypeOK
  <2>7. (versions \subseteq 1 .. 3 /\ schema \subseteq 1 .. 3)'
    BY DEF TypeOK
  <2>8. (snapshot \in [Procs -> Nat \union {None}] /\ faults \in 0 .. MaxFaults)'
    BY DEF TypeOK, None
  <2> QED
    BY <2>1, <2>2, <2>3, <2>4, <2>5, <2>6, <2>7, <2>8, <2>9 DEF TypeOK
<1>2. VersionsTrue'
  BY DEF TypeOK, VersionsTrue, TxInv
<1>3. TxInv'
  BY DEF TypeOK, TxInv
<1>4. ProgressInv'
  BY DEF TypeOK, ProgressInv, TxInv, InTx
<1>5. AloneInv'
  BY DEF TypeOK, AloneInv, TxInv, InTx
<1>6. RefusedInv'
  BY DEF TypeOK, RefusedInv
<1> QED
  BY <1>1, <1>2, <1>3, <1>4, <1>5, <1>6

LEMMA LookInv ==
  ASSUME Inv, NEW p \in Procs, Look(p)
  PROVE  Inv'
<1> USE MigrationsAssumption DEF Inv, Look, Goto, Opening, file, tx
<1>1. TypeOK'
  <2>1. (/\ ledger \in BOOLEAN
         /\ versions # {} => ledger)'
    BY DEF TypeOK, ProgressInv, InTx
  <2>2. (/\ writer \in Procs \union {NoProc}
         /\ pc \in [Procs -> Labels]
         /\ writer # NoProc => pc[writer] \in {"record", "commit"})'
    BY DEF TypeOK, Labels, TxInv
  <2>3. (/\ at \in [Procs -> 1 .. 2]
         /\ \A q \in Procs : at[q] <= Supports[q])'
    BY SupportFacts DEF TypeOK
  <2>4. (added \in [Procs -> BOOLEAN])'
    BY DEF TypeOK
  <2>9. ASSUME NEW q \in Procs, added'[q]
        PROVE  writer' = q
    BY <2>9 DEF TypeOK, TxInv
  <2>5. (commits \in Nat)'
    BY DEF TypeOK
  <2>6. (excused \subseteq Procs)'
    BY DEF TypeOK
  <2>7. (versions \subseteq 1 .. 3 /\ schema \subseteq 1 .. 3)'
    BY DEF TypeOK
  <2>8. (snapshot \in [Procs -> Nat \union {None}] /\ faults \in 0 .. MaxFaults)'
    BY DEF TypeOK, None
  <2> QED
    BY <2>1, <2>2, <2>3, <2>4, <2>5, <2>6, <2>7, <2>8, <2>9 DEF TypeOK
<1>2. VersionsTrue'
  BY DEF TypeOK, VersionsTrue, TxInv
<1>3. TxInv'
  BY DEF TypeOK, TxInv
<1>4. ProgressInv'
  BY DEF TypeOK, ProgressInv, TxInv, InTx
<1>5. AloneInv'
  BY DEF TypeOK, AloneInv, TxInv, InTx
<1>6. RefusedInv'
  <2>1. versions \union {0} \in SUBSET (0 .. 3)
    BY DEF TypeOK
  <2>2. Max(versions \union {0}) \in versions \union {0}
    BY <2>1, MaxFacts
  <2>3. ASSUME pc'[p] = "refused"
        PROVE  \E v \in versions : v > Supports[p]
    <3>1. Max(versions \union {0}) > Supports[p]
      BY <2>3 DEF TypeOK
    <3>2. Max(versions \union {0}) # 0
      BY <3>1, SupportFacts
    <3> QED
      BY <2>2, <3>1, <3>2
  <2> QED
    BY <2>3 DEF TypeOK, RefusedInv
<1> QED
  BY <1>1, <1>2, <1>3, <1>4, <1>5, <1>6

LEMMA CheckInv ==
  ASSUME Inv, NEW p \in Procs, Check(p)
  PROVE  Inv'
<1> USE MigrationsAssumption DEF Inv, Check, Advance, Goto, Opening, file, tx
<1>1. TypeOK'
  BY DEF TypeOK, Labels, None, TxInv
<1>2. VersionsTrue'
  BY DEF TypeOK, VersionsTrue, TxInv
<1>3. TxInv'
  BY DEF TypeOK, TxInv
<1>4. ProgressInv'
  BY DEF TypeOK, ProgressInv, TxInv, InTx
<1>5. AloneInv'
  BY DEF TypeOK, AloneInv, TxInv, InTx
<1>6. RefusedInv'
  BY DEF TypeOK, RefusedInv
<1> QED
  BY <1>1, <1>2, <1>3, <1>4, <1>5, <1>6

LEMMA CreateInv ==
  ASSUME Inv, NEW p \in Procs, Create(p)
  PROVE  Inv'
<1> USE MigrationsAssumption DEF Inv, Create, Goto, Opening, Disturb, file, tx
<1>1. TypeOK'
  <2>1. (/\ ledger \in BOOLEAN
         /\ versions # {} => ledger)'
    BY DEF TypeOK, ProgressInv, InTx
  <2>2. (/\ writer \in Procs \union {NoProc}
         /\ pc \in [Procs -> Labels]
         /\ writer # NoProc => pc[writer] \in {"record", "commit"})'
    BY DEF TypeOK, Labels, TxInv
  <2>3. (/\ at \in [Procs -> 1 .. 2]
         /\ \A q \in Procs : at[q] <= Supports[q])'
    BY SupportFacts DEF TypeOK
  <2>4. (added \in [Procs -> BOOLEAN])'
    BY DEF TypeOK
  <2>9. ASSUME NEW q \in Procs, added'[q]
        PROVE  writer' = q
    BY <2>9 DEF TypeOK, TxInv
  <2>5. (commits \in Nat)'
    BY DEF TypeOK
  <2>6. (excused \subseteq Procs)'
    BY DEF TypeOK
  <2>7. (versions \subseteq 1 .. 3 /\ schema \subseteq 1 .. 3)'
    BY DEF TypeOK
  <2>8. (snapshot \in [Procs -> Nat \union {None}] /\ faults \in 0 .. MaxFaults)'
    BY DEF TypeOK, None
  <2> QED
    BY <2>1, <2>2, <2>3, <2>4, <2>5, <2>6, <2>7, <2>8, <2>9 DEF TypeOK
<1>2. VersionsTrue'
  BY DEF TypeOK, VersionsTrue, TxInv
<1>3. TxInv'
  BY DEF TypeOK, TxInv
<1>4. ProgressInv'
  BY DEF TypeOK, ProgressInv, TxInv, InTx
<1>5. AloneInv'
  BY DEF TypeOK, AloneInv, TxInv, InTx
<1>6. RefusedInv'
  BY DEF TypeOK, RefusedInv
<1> QED
  BY <1>1, <1>2, <1>3, <1>4, <1>5, <1>6

LEMMA InspectInv ==
  ASSUME Inv, NEW p \in Procs, Inspect(p)
  PROVE  Inv'
<1> USE MigrationsAssumption DEF Inv, Inspect, Goto, Opening, file, tx
<1>1. TypeOK'
  BY DEF TypeOK, Labels, None, TxInv
<1>2. VersionsTrue'
  BY DEF TypeOK, VersionsTrue, TxInv
<1>3. TxInv'
  BY DEF TypeOK, TxInv
<1>4. ProgressInv'
  BY DEF TypeOK, ProgressInv, TxInv, InTx
<1>5. AloneInv'
  BY DEF TypeOK, AloneInv, TxInv, InTx
<1>6. RefusedInv'
  BY DEF TypeOK, RefusedInv
<1> QED
  BY <1>1, <1>2, <1>3, <1>4, <1>5, <1>6

LEMMA AlterInv ==
  ASSUME Inv, NEW p \in Procs, Alter(p)
  PROVE  Inv'
<1> USE MigrationsAssumption DEF Inv, Alter, Goto, Opening, Disturb, Current, GivesUp, Ends, file, tx
<1>1. TypeOK'
  <2>1. (/\ ledger \in BOOLEAN
         /\ versions # {} => ledger)'
    BY DEF TypeOK, ProgressInv, InTx
  <2>2. (/\ writer \in Procs \union {NoProc}
         /\ pc \in [Procs -> Labels]
         /\ writer # NoProc => pc[writer] \in {"record", "commit"})'
    BY DEF TypeOK, Labels, TxInv
  <2>3. (/\ at \in [Procs -> 1 .. 2]
         /\ \A q \in Procs : at[q] <= Supports[q])'
    BY SupportFacts DEF TypeOK
  <2>4. (added \in [Procs -> BOOLEAN])'
    BY DEF TypeOK
  <2>9. ASSUME NEW q \in Procs, added'[q]
        PROVE  writer' = q
    BY <2>9 DEF TypeOK, TxInv
  <2>5. (commits \in Nat)'
    BY DEF TypeOK
  <2>6. (excused \subseteq Procs)'
    BY DEF TypeOK
  <2>7. (versions \subseteq 1 .. 3 /\ schema \subseteq 1 .. 3)'
    BY DEF TypeOK
  <2>8. (snapshot \in [Procs -> Nat \union {None}] /\ faults \in 0 .. MaxFaults)'
    BY DEF TypeOK, None
  <2> QED
    BY <2>1, <2>2, <2>3, <2>4, <2>5, <2>6, <2>7, <2>8, <2>9 DEF TypeOK
<1>2. VersionsTrue'
  BY DEF TypeOK, VersionsTrue, TxInv
<1>3. TxInv'
  BY DEF TypeOK, TxInv
<1>4. ProgressInv'
  BY DEF TypeOK, ProgressInv, TxInv, InTx
<1>5. AloneInv'
  BY DEF TypeOK, AloneInv, TxInv, InTx
<1>6. RefusedInv'
  BY DEF TypeOK, RefusedInv
<1> QED
  BY <1>1, <1>2, <1>3, <1>4, <1>5, <1>6

LEMMA RecordInv ==
  ASSUME Inv, NEW p \in Procs, Record(p)
  PROVE  Inv'
<1> USE MigrationsAssumption DEF Inv, Record, Goto, Opening, Disturb, Current, GivesUp, Ends, file, tx
<1>1. TypeOK'
  <2>1. (/\ ledger \in BOOLEAN
         /\ versions # {} => ledger)'
    BY DEF TypeOK, ProgressInv, InTx
  <2>2. (/\ writer \in Procs \union {NoProc}
         /\ pc \in [Procs -> Labels]
         /\ writer # NoProc => pc[writer] \in {"record", "commit"})'
    BY DEF TypeOK, Labels, TxInv
  <2>3. (/\ at \in [Procs -> 1 .. 2]
         /\ \A q \in Procs : at[q] <= Supports[q])'
    BY SupportFacts DEF TypeOK
  <2>4. (added \in [Procs -> BOOLEAN])'
    BY DEF TypeOK
  <2>9. ASSUME NEW q \in Procs, added'[q]
        PROVE  writer' = q
    BY <2>9 DEF TypeOK, TxInv
  <2>5. (commits \in Nat)'
    BY DEF TypeOK
  <2>6. (excused \subseteq Procs)'
    BY DEF TypeOK
  <2>7. (versions \subseteq 1 .. 3 /\ schema \subseteq 1 .. 3)'
    BY DEF TypeOK
  <2>8. (snapshot \in [Procs -> Nat \union {None}] /\ faults \in 0 .. MaxFaults)'
    BY DEF TypeOK, None
  <2> QED
    BY <2>1, <2>2, <2>3, <2>4, <2>5, <2>6, <2>7, <2>8, <2>9 DEF TypeOK
<1>2. VersionsTrue'
  BY DEF TypeOK, VersionsTrue, TxInv
<1>3. TxInv'
  BY DEF TypeOK, TxInv
<1>4. ProgressInv'
  BY DEF TypeOK, ProgressInv, TxInv, InTx
<1>5. AloneInv'
  BY DEF TypeOK, AloneInv, TxInv, InTx
<1>6. RefusedInv'
  BY DEF TypeOK, RefusedInv
<1> QED
  BY <1>1, <1>2, <1>3, <1>4, <1>5, <1>6

LEMMA CommitInv ==
  ASSUME Inv, NEW p \in Procs, Commit(p)
  PROVE  Inv'
<1> USE MigrationsAssumption DEF Inv, Commit, Advance, Goto, Opening, Disturb, Ends, file, tx
<1>1. TypeOK'
  <2>1. (/\ ledger \in BOOLEAN
         /\ versions # {} => ledger)'
    BY DEF TypeOK, ProgressInv, InTx
  <2>2. (/\ writer \in Procs \union {NoProc}
         /\ pc \in [Procs -> Labels]
         /\ writer # NoProc => pc[writer] \in {"record", "commit"})'
    BY DEF TypeOK, Labels, TxInv
  <2>3. (/\ at \in [Procs -> 1 .. 2]
         /\ \A q \in Procs : at[q] <= Supports[q])'
    BY SupportFacts DEF TypeOK
  <2>4. (added \in [Procs -> BOOLEAN])'
    BY DEF TypeOK
  <2>9. ASSUME NEW q \in Procs, added'[q]
        PROVE  writer' = q
    BY <2>9 DEF TypeOK, TxInv
  <2>5. (commits \in Nat)'
    BY DEF TypeOK
  <2>6. (excused \subseteq Procs)'
    BY DEF TypeOK
  <2>7. (versions \subseteq 1 .. 3 /\ schema \subseteq 1 .. 3)'
    <3>1. at[p] \in 1 .. 3
      BY DEF TypeOK
    <3>2. versions' = versions \union {at[p]} /\ schema' \subseteq schema \union {at[p]}
      OBVIOUS
    <3> QED
      BY <3>1, <3>2 DEF TypeOK
  <2>8. (snapshot \in [Procs -> Nat \union {None}] /\ faults \in 0 .. MaxFaults)'
    BY DEF TypeOK, None
  <2> QED
    BY <2>1, <2>2, <2>3, <2>4, <2>5, <2>6, <2>7, <2>8, <2>9 DEF TypeOK
<1>2. VersionsTrue'
  BY DEF TypeOK, VersionsTrue, TxInv
<1>3. TxInv'
  BY DEF TypeOK, TxInv
<1>4. ProgressInv'
  BY DEF TypeOK, ProgressInv, TxInv, InTx
<1>5. AloneInv'
  BY DEF TypeOK, AloneInv, TxInv, InTx
<1>6. RefusedInv'
  BY DEF TypeOK, RefusedInv
<1> QED
  BY <1>1, <1>2, <1>3, <1>4, <1>5, <1>6

LEMMA BusyInv ==
  ASSUME Inv, NEW p \in Procs, Busy(p)
  PROVE  Inv'
<1> USE MigrationsAssumption DEF Inv, Busy, GivesUp, Ends, Goto, Opening, file, tx
<1>1. TypeOK'
  BY DEF TypeOK, Labels, None, TxInv
<1>2. VersionsTrue'
  BY DEF TypeOK, VersionsTrue, TxInv
<1>3. TxInv'
  BY DEF TypeOK, TxInv
<1>4. ProgressInv'
  BY DEF TypeOK, ProgressInv, TxInv, InTx
<1>5. AloneInv'
  BY DEF TypeOK, AloneInv, TxInv, InTx
<1>6. RefusedInv'
  BY DEF TypeOK, RefusedInv
<1> QED
  BY <1>1, <1>2, <1>3, <1>4, <1>5, <1>6

LEMMA FailsInv ==
  ASSUME Inv, NEW p \in Procs, Fails(p)
  PROVE  Inv'
<1> USE MigrationsAssumption DEF Inv, Fails, Fault, GivesUp, Ends, Goto, Opening, file, tx
<1>1. TypeOK'
  BY DEF TypeOK, Labels, None, TxInv
<1>2. VersionsTrue'
  BY DEF TypeOK, VersionsTrue, TxInv
<1>3. TxInv'
  BY DEF TypeOK, TxInv
<1>4. ProgressInv'
  BY DEF TypeOK, ProgressInv, TxInv, InTx
<1>5. AloneInv'
  BY DEF TypeOK, AloneInv, TxInv, InTx
<1>6. RefusedInv'
  BY DEF TypeOK, RefusedInv
<1> QED
  BY <1>1, <1>2, <1>3, <1>4, <1>5, <1>6

LEMMA CrashInv ==
  ASSUME Inv, NEW p \in Procs, Crash(p)
  PROVE  Inv'
<1> USE MigrationsAssumption DEF Inv, Crash, Fault, Ends, Goto, Opening, file, tx
<1>1. TypeOK'
  BY DEF TypeOK, Labels, None, TxInv
<1>2. VersionsTrue'
  BY DEF TypeOK, VersionsTrue, TxInv
<1>3. TxInv'
  BY DEF TypeOK, TxInv
<1>4. ProgressInv'
  BY DEF TypeOK, ProgressInv, TxInv, InTx
<1>5. AloneInv'
  BY DEF TypeOK, AloneInv, TxInv, InTx
<1>6. RefusedInv'
  BY DEF TypeOK, RefusedInv
<1> QED
  BY <1>1, <1>2, <1>3, <1>4, <1>5, <1>6

LEMMA ExitInv ==
  ASSUME Inv, NEW p \in Procs, Exit(p)
  PROVE  Inv'
<1> USE MigrationsAssumption DEF Inv, Exit, Goto, Opening, file, tx
<1>1. TypeOK'
  BY DEF TypeOK, Labels, None, TxInv
<1>2. VersionsTrue'
  BY DEF TypeOK, VersionsTrue, TxInv
<1>3. TxInv'
  BY DEF TypeOK, TxInv
<1>4. ProgressInv'
  BY DEF TypeOK, ProgressInv, TxInv, InTx
<1>5. AloneInv'
  BY DEF TypeOK, AloneInv, TxInv, InTx
<1>6. RefusedInv'
  BY DEF TypeOK, RefusedInv
<1> QED
  BY <1>1, <1>2, <1>3, <1>4, <1>5, <1>6

-----------------------------------------------------------------------------
LEMMA StepInv ==
  ASSUME Inv, [Next]_vars
  PROVE  Inv'
<1>1. ASSUME UNCHANGED vars
      PROVE  Inv'
  BY <1>1 DEF vars, file, tx, Inv, TypeOK, VersionsTrue, TxInv, ProgressInv, AloneInv,
              RefusedInv, InTx, Opening
<1>2. ASSUME NEW p \in Procs, Start(p) \/ Step(p) \/ Fails(p) \/ Crash(p) \/ Exit(p)
      PROVE  Inv'
  BY <1>2, StartInv, LedgerInv, LookInv, CheckInv, CreateInv, InspectInv, AlterInv, RecordInv,
     CommitInv, BusyInv, FailsInv, CrashInv, ExitInv DEF Step
<1> QED
  BY <1>1, <1>2 DEF Next

\* The invariant holds of every behaviour.
LEMMA Invariance == Spec => []Inv
<1>1. Init => Inv
  BY InitInv
<1>2. Inv /\ [Next]_vars => Inv'
  BY StepInv
<1> QED
  BY <1>1, <1>2, PTL DEF Spec

\* Types; uncommitted changes are those of the writer, who is about to record
\* or commit (applyMigrations holds the lock nowhere else).
THEOREM TypeCorrect == Spec => []TypeOK
<1>1. Inv => TypeOK
  BY DEF Inv
<1> QED
  BY <1>1, Invariance, PTL

\* Whoever dies between the statements of applyMigrations, and however many
\* processes race: a version in schema_migrations is in the schema.
THEOREM VersionsAreTrue == Spec => []VersionsTrue
<1>1. Inv => VersionsTrue
  BY DEF Inv
<1> QED
  BY <1>1, Invariance, PTL

\* A process whose Open succeeded finds every table and column it was written
\* for, and its versions recorded.
THEOREM OpenedAreComplete == Spec => []OpenedComplete
<1>1. Inv => OpenedComplete
  BY MigrationsAssumption, SupportFacts
     DEF Inv, TypeOK, VersionsTrue, ProgressInv, OpenedComplete
<1> QED
  BY <1>1, Invariance, PTL

\* Open fails only for a fault or for a process that writes at the same time,
\* whatever file it finds; it refuses only the file of a later release.
THEOREM AloneGetsIn == Spec => []AloneOpens
<1>1. Inv => AloneOpens
  BY DEF Inv, AloneInv, RefusedInv, AloneOpens
<1> QED
  BY <1>1, Invariance, PTL
=============================================================================
