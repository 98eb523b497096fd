------------------------------ MODULE Endpoints ------------------------------
(***************************************************************************)
(* Configuring an endpoint: POST, PATCH and DELETE /api/endpoints, the     *)
(* command `omnihook new` (a process of its own on the same database), and *)
(* the capture handler's SELECT and auto-create, all on one row.  Rows of  *)
(* different slugs never meet in a statement.                              *)
(*                                                                         *)
(* A creation is up to four statements without a transaction, so other     *)
(* operations, failures and a crash come between them, and between the     *)
(* last of them and the answer.  An answer that nothing was done is one    *)
(* step with the statement that found it out: it follows no change.  Each  *)
(* operation has an identity, and a column holds the identity of the       *)
(* operation that wrote it: two operations never write the same value.     *)
(* response stands for the columns that only PATCH can set: the name and   *)
(* the mock answer.                                                        *)
(***************************************************************************)
EXTENDS Naturals, FiniteSets

CONSTANTS
  Ops,      \* identities of operations, each used once
  Default,  \* the column's default value
  NoRow,    \* there is no row
  Shapes,   \* bound: the sets of columns an operation may supply
  Faulty    \* may a statement fail?

Posted == {"provider", "secret_ref", "target_url"}
Columns == Posted \union {"response"}

\* The UPDATEs of a creation, in the order of the code.
Order == <<"provider", "secret_ref", "target_url">>

ASSUME EndpointsAssumption ==
  /\ Default \notin Ops
  /\ NoRow \notin [Columns -> Ops \union {Default}]
  /\ Shapes \subseteq SUBSET Columns
  /\ Faulty \in BOOLEAN

VARIABLES
  row,     \* the endpoint's row, column by column, or NoRow
  kind,    \* what an operation is
  given,   \* the columns it supplies
  pc,      \* the statement it is about to issue, or the answer
  reply,   \* how it was answered
  view,    \* capture: the configuration it goes on with
  wrote,   \* history: the columns an operation wrote
  cut,     \* history: operations begun before the latest deletion of the row
  before,  \* history: operations answered "ok" when this one began
  births   \* history: how many times the row was created

vars == <<row, kind, given, pc, reply, view, wrote, cut, before, births>>

Creations == {"post", "new"}
Kinds == Creations \union {"patch", "delete", "capture"}
Labels ==
  {"idle", "insert", "update", "delete", "lookup", "answer", "done"} \union Posted

\* 200 or exit code 0; 400 or a usage error; 404; 500, 503 or another error.
Replies == {"none", "ok", "invalid", "missing", "failed"}

Rows == [Columns -> Ops \union {Default}]

TypeOK ==
  /\ row \in Rows \union {NoRow}
  /\ kind \in [Ops -> Kinds]
  /\ given \in [Ops -> SUBSET Columns]
  /\ pc \in [Ops -> Labels]
  /\ reply \in [Ops -> Replies]
  /\ view \in [Ops -> Rows \union {NoRow}]
  /\ wrote \in [Ops -> SUBSET Columns]
  /\ cut \subseteq Ops
  /\ before \in [Ops -> SUBSET Ops]
  /\ births \in Nat
  /\ \A o \in Ops : wrote[o] \subseteq given[o]

Init ==
  /\ row = NoRow
  /\ kind = [o \in Ops |-> "capture"]
  /\ given = [o \in Ops |-> {}]
  /\ pc = [o \in Ops |-> "idle"]
  /\ reply = [o \in Ops |-> "none"]
  /\ view = [o \in Ops |-> NoRow]
  /\ wrote = [o \in Ops |-> {}]
  /\ cut = {}
  /\ before = [o \in Ops |-> {}]
  /\ births = 0

-----------------------------------------------------------------------------
Goto(o, label) == pc' = [pc EXCEPT ![o] = label]

Answer(o, code) ==
  /\ Goto(o, "done")
  /\ reply' = [reply EXCEPT ![o] = code]

\* An operation of kind k that supplies the columns in g starts at label.
Begin(o, k, g, label) ==
  /\ pc[o] = "idle"
  /\ g \in Shapes
  /\ kind' = [kind EXCEPT ![o] = k]
  /\ given' = [given EXCEPT ![o] = g]
  /\ before' = [before EXCEPT ![o] = {p \in Ops : reply[p] = "ok"}]
  /\ Goto(o, label)
  /\ UNCHANGED <<row, reply, view, wrote, cut, births>>

BeginPost(o) == \E g \in SUBSET Posted : Begin(o, "post", g, "insert")
BeginNew(o) == \E g \in SUBSET Posted : Begin(o, "new", g, "insert")
BeginPatch(o) == \E g \in SUBSET Columns : Begin(o, "patch", g, "update")
BeginDelete(o) == Begin(o, "delete", {}, "delete")
BeginCapture(o) == Begin(o, "capture", {}, "lookup")

\* Malformed JSON or slug, unknown provider, a status out of range, nothing
\* to update: answered before any statement.
Reject(o) ==
  /\ \/ kind[o] \in Creations /\ pc[o] = "insert"
     \/ pc[o] = "update"
  /\ Answer(o, "invalid")
  /\ UNCHANGED <<row, kind, given, view, wrote, cut, before, births>>

-----------------------------------------------------------------------------
\* Mutant: fields that were not supplied are written as well.
RestUnsupplied(o, i) == {j \in 1 .. 3 : j > i}

\* Mutant: the first field after each statement is passed over.
RestSkips(o, i) == {j \in 1 .. 3 : j > i + 1 /\ Order[j] \in given[o]}

\* The UPDATEs still to come after the i-th.
Rest(o, i) == {j \in 1 .. 3 : j > i /\ Order[j] \in given[o]}

\* On to the next supplied field, and after the last one to the answer.
Proceed(o, i) ==
  /\ \/ /\ Rest(o, i) = {}
        /\ Goto(o, "answer")
     \/ \E j \in Rest(o, i) :
          /\ \A k \in Rest(o, i) : j <= k
          /\ Goto(o, Order[j])
  /\ UNCHANGED reply

\* The columns the INSERT sets.  A provider that is not supplied is inserted
\* as "generic", which is the default.
Inserted(o) == given[o] \intersect {"provider"}

Fresh(o) == [c \in Columns |-> IF c \in Inserted(o) THEN o ELSE Default]

\* Mutant: INSERT OR REPLACE.
InsertRowReplacing(o) ==
  /\ row' = Fresh(o)
  /\ births' = IF row = NoRow THEN births + 1 ELSE births
  /\ wrote' = [wrote EXCEPT ![o] = @ \union Inserted(o)]

\* INSERT OR IGNORE INTO endpoints: nothing happens to a row that is there.
InsertRow(o) ==
  \/ /\ row = NoRow
     /\ row' = Fresh(o)
     /\ births' = births + 1
     /\ wrote' = [wrote EXCEPT ![o] = @ \union Inserted(o)]
  \/ /\ row # NoRow
     /\ UNCHANGED <<row, births, wrote>>

Insert(o) ==
  /\ kind[o] \in Creations
  /\ pc[o] = "insert"
  /\ InsertRow(o)
  /\ Proceed(o, 0)
  /\ UNCHANGED <<kind, given, view, cut, before>>

\* UPDATE endpoints SET <column>=?: the number of rows it hit is not looked at.
Update(o) ==
  \E i \in 1 .. 3 :
    /\ pc[o] = Order[i]
    /\ \/ /\ row # NoRow
          /\ row' = [row EXCEPT ![Order[i]] = o]
          /\ wrote' = [wrote EXCEPT ![o] = @ \union {Order[i]}]
       \/ /\ row = NoRow
          /\ UNCHANGED <<row, wrote>>
    /\ Proceed(o, i)
    /\ UNCHANGED <<kind, given, view, cut, before, births>>

\* Mutant: one UPDATE per column.
PatchPiecewise(o) ==
  /\ pc[o] = "update"
  /\ row # NoRow
  /\ \E c \in given[o] \ wrote[o] :
       /\ row' = [row EXCEPT ![c] = o]
       /\ wrote' = [wrote EXCEPT ![o] = @ \union {c}]
       /\ IF given[o] \ wrote[o] = {c} THEN Goto(o, "answer") ELSE UNCHANGED pc
  /\ UNCHANGED <<kind, given, reply, view, cut, before, births>>

\* One UPDATE sets every supplied column; no row hit is a 404.
Patch(o) ==
  /\ pc[o] = "update"
  /\ given[o] # {}
  /\ \/ /\ row # NoRow
        /\ row' = [c \in Columns |-> IF c \in given[o] THEN o ELSE row[c]]
        /\ wrote' = [wrote EXCEPT ![o] = given[o]]
        /\ Goto(o, "answer")
        /\ UNCHANGED reply
     \/ /\ row = NoRow
        /\ Answer(o, "missing")
        /\ UNCHANGED <<row, wrote>>
  /\ UNCHANGED <<kind, given, view, cut, before, births>>

\* Mutant: the number of rows deleted is not looked at.
DeleteUnchecked(o) ==
  /\ pc[o] = "delete"
  /\ row' = NoRow
  /\ cut' = {p \in Ops : pc[p] # "idle"}
  /\ Goto(o, "answer")
  /\ UNCHANGED <<kind, given, reply, view, wrote, before, births>>

\* RowsAffected tells a deletion that removed the row from one that found none.
Delete(o) ==
  /\ pc[o] = "delete"
  /\ \/ /\ row # NoRow
        /\ row' = NoRow
        /\ cut' = {p \in Ops : pc[p] # "idle"}
        /\ Goto(o, "answer")
        /\ UNCHANGED reply
     \/ /\ row = NoRow
        /\ Answer(o, "missing")
        /\ UNCHANGED <<row, cut>>
  /\ UNCHANGED <<kind, given, view, wrote, before, births>>

\* The capture handler's SELECT, and its auto-create when there is no row.
Lookup(o) ==
  /\ pc[o] = "lookup"
  /\ \/ /\ row # NoRow
        /\ view' = [view EXCEPT ![o] = row]
        /\ Answer(o, "ok")
     \/ /\ row = NoRow
        /\ Goto(o, "insert")
        /\ UNCHANGED <<view, reply>>
  /\ UNCHANGED <<row, kind, given, wrote, cut, before, births>>

\* It goes on with the defaults, whether its INSERT OR IGNORE created the row
\* or met one that somebody else created meanwhile.
AutoCreate(o) ==
  /\ kind[o] = "capture"
  /\ pc[o] = "insert"
  /\ InsertRow(o)
  /\ view' = [view EXCEPT ![o] = Fresh(o)]
  /\ Answer(o, "ok")
  /\ UNCHANGED <<kind, given, cut, before>>

\* writeJSON with 200, or exit code 0: the last statement has been committed.
Succeed(o) ==
  /\ pc[o] = "answer"
  /\ Answer(o, "ok")
  /\ UNCHANGED <<row, kind, given, view, wrote, cut, before, births>>

Running == {o \in Ops : pc[o] \notin {"idle", "done"}}

\* Mutant: a failed UPDATE of a creation is ignored.
FailsUnnoticed(o) ==
  /\ Faulty
  /\ o \in Running
  /\ \/ \E i \in 1 .. 3 : pc[o] = Order[i] /\ Proceed(o, i)
     \/ pc[o] \notin Posted \union {"answer"} /\ Answer(o, "failed")
  /\ UNCHANGED <<row, kind, given, view, wrote, cut, before, births>>

\* The statement fails; what earlier statements did stays.
Fails(o) ==
  /\ Faulty
  /\ o \in Running
  /\ pc[o] # "answer"
  /\ Answer(o, "failed")
  /\ UNCHANGED <<row, kind, given, view, wrote, cut, before, births>>

\* The process of `omnihook new` is killed.
Kill(o) ==
  /\ kind[o] = "new"
  /\ o \in Running
  /\ Goto(o, "done")
  /\ UNCHANGED <<row, kind, given, reply, view, wrote, cut, before, births>>

\* The server dies, and every operation it was working on goes unanswered.
Crash ==
  /\ \E o \in Running : kind[o] # "new"
  /\ pc' = [o \in Ops |-> IF o \in Running /\ kind[o] # "new" THEN "done" ELSE pc[o]]
  /\ UNCHANGED <<row, kind, given, reply, view, wrote, cut, before, births>>

Start(o) ==
  BeginPost(o) \/ BeginNew(o) \/ BeginPatch(o) \/ BeginDelete(o) \/ BeginCapture(o)

Statement(o) ==
  \/ Insert(o) \/ Update(o) \/ Patch(o) \/ Delete(o) \/ Lookup(o) \/ AutoCreate(o)

Next ==
  \/ \E o \in Ops : Start(o) \/ Reject(o) \/ Statement(o) \/ Succeed(o) \/ Fails(o) \/ Kill(o)
  \/ Crash

Spec == Init /\ [][Next]_vars

-----------------------------------------------------------------------------
\* api/server.go and cli.go: "Create never destroys".  A creation, or a
\* capture's auto-create, leaves an existing row in place and changes only the
\* columns it was given, even if the row appeared after it had looked.
CreateKeeps ==
  [][\A o \in Ops :
       (kind[o] \in Creations \union {"capture"} /\ pc'[o] # pc[o] /\ row # NoRow) =>
         /\ row' # NoRow
         /\ \A c \in Columns \ given[o] : row'[c] = row[c]]_vars

\* Two PATCHes that both set two columns never leave one column of each: what
\* a user saved in one form is not mixed with what another saved.
PatchAtomic ==
  \A p, q \in Ops :
    (p # q /\ kind[p] = "patch" /\ kind[q] = "patch" /\ row # NoRow) =>
      \A c, d \in given[p] \intersect given[q] : ~(row[c] = p /\ row[d] = q)

\* The answer tells what was done.  "ok": the row had every supplied column
\* written and is there, unless somebody deleted it since the operation began.
\* A PATCH that was answered an error, and whatever was answered 400 or 404,
\* changed nothing; a PATCH that the server left unanswered wrote all that was
\* supplied or nothing.
AnswersTrue ==
  \A o \in Ops :
    /\ reply[o] = "ok" /\ kind[o] \in Creations \union {"patch"} =>
         o \in cut \/ (wrote[o] = given[o] /\ row # NoRow)
    /\ kind[o] = "patch" =>
         /\ reply[o] = "ok" => wrote[o] = given[o]
         /\ reply[o] = "failed" => wrote[o] = {}
         /\ wrote[o] \in {{}, given[o]}
    /\ reply[o] \in {"invalid", "missing"} => wrote[o] = {}

\* A capture that begins after a configuration was answered "ok" is verified
\* and forwarded with it, unless another operation supplied the same column
\* or the row was deleted: the handler's fallback to the defaults never hides
\* a configuration that was there.
ReadYourWrites ==
  \A k \in Ops : kind[k] = "capture" /\ reply[k] = "ok" =>
    \A o \in before[k] \ cut : \A c \in given[o] :
      \/ view[k][c] = o
      \/ \E x \in Ops \ {o} : pc[x] # "idle" /\ c \in given[x]

\* How many rows there are.
Alive == IF row = NoRow THEN 0 ELSE 1

\* Deletions that were answered "ok" or are about to be.
Told == {o \in Ops : kind[o] = "delete" /\ (reply[o] = "ok" \/ pc[o] = "answer")}

\* Deletions whose server died before it answered.
Unheard == {o \in Ops : kind[o] = "delete" /\ pc[o] = "done" /\ reply[o] = "none"}

\* Every deletion that is told "ok" removed a row of its own: two users who
\* delete the same endpoint are not both told they did.  And every row that is
\* gone was removed by a deletion that is told so, unless the server died
\* between its DELETE and its answer.
DeletionsTold ==
  /\ Cardinality(Told) + Alive <= births
  /\ births <= Cardinality(Told \union Unheard) + Alive
=============================================================================
