--------------------------- MODULE EndpointsProofs ---------------------------
(***************************************************************************)
(* What holds of the configuration of an endpoint for any number of        *)
(* operations, whatever columns they supply, whatever fails.               *)
(***************************************************************************)
EXTENDS Endpoints, FiniteSetTheorems, TLAPS

\* The UPDATEs of a creation, spelled out.
LEMMA OrderFacts ==
  /\ Order[1] = "provider" /\ Order[2] = "secret_ref" /\ Order[3] = "target_url"
  /\ \A i \in 1 .. 3 : Order[i] \in Posted
  /\ \A c \in Posted : \E i \in 1 .. 3 : c = Order[i]
  /\ \A i, j \in 1 .. 3 : Order[i] = Order[j] => i = j
<1>1. Order[1] = "provider" /\ Order[2] = "secret_ref" /\ Order[3] = "target_url"
  BY DEF Order
<1>2. 1 .. 3 = {1, 2, 3}
  OBVIOUS
<1> QED
  BY <1>1, <1>2 DEF Posted

-----------------------------------------------------------------------------
(* The inductive invariant. *)

Started == {o \in Ops : pc[o] # "idle"}

\* What an operation's label tells of its kind, its answer and its writes.
LabelInv ==
  \A o \in Ops :
    /\ pc[o] # "done" => reply[o] = "none"
    /\ pc[o] \in {"idle", "insert", "update", "delete", "lookup"} => wrote[o] = {}
    /\ pc[o] = "idle" => kind[o] = "capture" /\ given[o] = {}
    /\ pc[o] \in Posted => kind[o] \in Creations /\ pc[o] \in given[o]
    /\ pc[o] = "insert" => kind[o] \in Creations \union {"capture"}
    /\ pc[o] = "update" => kind[o] = "patch"
    /\ pc[o] = "delete" => kind[o] = "delete"
    /\ pc[o] = "lookup" => kind[o] = "capture"
    /\ kind[o] \in {"delete", "capture"} => given[o] = {}
    /\ kind[o] \in Creations => given[o] \subseteq Posted
    /\ pc[o] = "answer" => kind[o] \in Creations \union {"patch", "delete"}
    /\ kind[o] = "patch" =>
         /\ pc[o] = "answer" \/ reply[o] = "ok" => wrote[o] = given[o]
         /\ reply[o] = "failed" => wrote[o] = {}
         /\ wrote[o] \in {{}, given[o]}
    /\ reply[o] \in {"invalid", "missing"} => wrote[o] = {}

\* How far a creation has come, unless the row was deleted under it.
ProgressInv ==
  \A o \in Ops \ cut :
    /\ \A i \in 1 .. 3 : pc[o] = Order[i] =>
         /\ row # NoRow
         /\ \A j \in 1 .. 3 : j < i /\ Order[j] \in given[o] => Order[j] \in wrote[o]
    /\ (pc[o] = "answer" \/ reply[o] = "ok") /\ kind[o] \in Creations \union {"patch"} =>
         wrote[o] = given[o] /\ row # NoRow

\* Another operation was given the column as well.
Contested(o, c) == \E x \in Ops \ {o} : pc[x] # "idle" /\ c \in given[x]

\* What was written is in the row, unless it was overwritten or deleted.
WrittenInv ==
  \A o \in Ops \ cut : \A c \in wrote[o] :
    row # NoRow /\ (row[c] = o \/ Contested(o, c))

\* A column holds what an operation wrote.
OwnerInv ==
  row # NoRow => \A c \in Columns : row[c] \in Ops => c \in wrote[row[c]]

\* Who was answered before, stays answered; a capture that found no row met
\* no earlier configuration that is still in force.
BeforeInv ==
  \A k \in Ops :
    /\ \A o \in before[k] : reply[o] = "ok"
    /\ kind[k] = "capture" /\ pc[k] = "insert" =>
         \A o \in before[k] \ cut : given[o] = {}
    /\ kind[k] = "capture" /\ reply[k] = "ok" =>
         \A o \in before[k] \ cut : \A c \in given[o] : view[k][c] = o \/ Contested(o, c)

Inv ==
  /\ TypeOK /\ LabelInv /\ cut \subseteq Started
  /\ ProgressInv /\ WrittenInv /\ OwnerInv /\ BeforeInv /\ PatchAtomic

-----------------------------------------------------------------------------
LEMMA InitInv == Init => Inv
<1> SUFFICES ASSUME Init PROVE Inv
  OBVIOUS
<1>1. TypeOK
  BY DEF Init, TypeOK, Kinds, Labels, Replies, Posted
<1>2. LabelInv
  BY DEF Init, LabelInv, Posted, Creations
<1>3. cut \subseteq Started /\ BeforeInv /\ PatchAtomic
  BY DEF Init, Started, BeforeInv, PatchAtomic
<1>4. ProgressInv
  BY OrderFacts DEF Init, ProgressInv, Posted, Creations
<1>5. WrittenInv /\ OwnerInv
  BY DEF Init, WrittenInv, OwnerInv
<1> QED
  BY <1>1, <1>2, <1>3, <1>4, <1>5 DEF Inv

\* An operation that has started stays with its columns, so what was contested
\* stays contested.
LEMMA ContestedStays ==
  ASSUME NEW o \in Ops, NEW c \in Columns, Contested(o, c),
         \A x \in Ops : pc[x] # "idle" => pc'[x] # "idle" /\ given'[x] = given[x]
  PROVE  Contested(o, c)'
BY DEF Contested

LEMMA BeginInv ==
  ASSUME Inv, NEW o \in Ops, Start(o) PROVE Inv'
<1>1. PICK k \in Kinds, g \in SUBSET Columns, label \in {"insert", "update", "delete", "lookup"} :
        /\ Begin(o, k, g, label)
        /\ label = "insert" => k \in Creations /\ g \subseteq Posted
        /\ label = "update" => k = "patch"
        /\ label = "delete" => k = "delete" /\ g = {}
        /\ label = "lookup" => k = "capture" /\ g = {}
  BY DEF Start, BeginPost, BeginNew, BeginPatch, BeginDelete, BeginCapture,
         Kinds, Creations, Posted, Columns
<1> USE <1>1 DEF Begin, Goto
<1>2. TypeOK'
  BY DEF Inv, TypeOK, Labels, LabelInv
<1>3. LabelInv'
  BY DEF Inv, TypeOK, LabelInv, Posted, Creations
<1>4. (cut \subseteq Started)'
  BY DEF Inv, TypeOK, Started
<1>5. ProgressInv'
  BY OrderFacts DEF Inv, TypeOK, LabelInv, ProgressInv, Posted
<1>6. \A p \in Ops, c \in Columns : Contested(p, c) => Contested(p, c)'
  BY DEF Inv, TypeOK, LabelInv, Contested
<1>7. WrittenInv'
  BY <1>6 DEF Inv, TypeOK, WrittenInv
<1>8. OwnerInv'
  BY DEF Inv, OwnerInv
<1>9. reply[o] = "none" /\ wrote[o] = {}
  BY DEF Inv, LabelInv
<1>10. BeforeInv'
  <2> SUFFICES ASSUME NEW q \in Ops
               PROVE  /\ \A p \in before'[q] : reply'[p] = "ok"
                      /\ kind'[q] = "capture" /\ pc'[q] = "insert" =>
                           \A p \in before'[q] \ cut' : given'[p] = {}
                      /\ kind'[q] = "capture" /\ reply'[q] = "ok" =>
                           \A p \in before'[q] \ cut' : \A c \in given'[p] :
                             view'[q][c] = p \/ Contested(p, c)'
    BY DEF BeforeInv
  <2>1. CASE q = o
    BY <1>9, <2>1 DEF Inv, TypeOK, LabelInv, Creations
  <2>2. CASE q # o
    <3>1. o \notin before[q] /\ before[q] \subseteq Ops
      BY <1>9 DEF Inv, BeforeInv, TypeOK
    <3>2. \A p \in before[q] : given'[p] = given[p] /\ given[p] \subseteq Columns
      BY <3>1 DEF Inv, TypeOK
    <3> QED
      BY <1>6, <2>2, <3>1, <3>2 DEF Inv, TypeOK, BeforeInv
  <2> QED
    BY <2>1, <2>2
<1>11. PatchAtomic'
  <2>1. \A c \in Columns : row # NoRow => row[c] # o
    BY <1>9 DEF Inv, OwnerInv
  <2> QED
    BY <2>1 DEF Inv, TypeOK, PatchAtomic
<1> QED
  BY <1>2, <1>3, <1>4, <1>5, <1>7, <1>8, <1>10, <1>11 DEF Inv

-----------------------------------------------------------------------------
\* Steps that end operations without success and change nothing else.
LEMMA QuietInv ==
  ASSUME Inv, TypeOK', LabelInv',
         UNCHANGED <<row, kind, given, view, wrote, cut, before>>,
         \A o \in Ops : /\ pc'[o] = pc[o] \/ (pc[o] # "idle" /\ pc'[o] = "done")
                        /\ reply'[o] = reply[o] \/ (reply[o] = "none" /\ reply'[o] # "ok")
  PROVE  Inv'
<1>1. (cut \subseteq Started)'
  BY DEF Inv, Started
<1>2. ProgressInv'
  BY OrderFacts DEF Inv, ProgressInv, Posted
<1>3. \A p \in Ops, c \in Columns : Contested(p, c) => Contested(p, c)'
  BY DEF Contested
<1>4. WrittenInv' /\ OwnerInv' /\ PatchAtomic'
  BY <1>3 DEF Inv, TypeOK, WrittenInv, OwnerInv, PatchAtomic
<1>5. \A q \in Ops : before[q] \subseteq Ops
  BY DEF Inv, TypeOK
<1>6. \A p \in Ops : given[p] \subseteq Columns
  BY DEF Inv, TypeOK
<1>7. BeforeInv'
  BY <1>3, <1>5, <1>6 DEF Inv, BeforeInv
<1> QED
  BY <1>1, <1>2, <1>4, <1>7 DEF Inv

LEMMA RejectInv ==
  ASSUME Inv, NEW o \in Ops, Reject(o) PROVE Inv'
<1> USE DEF Reject, Answer, Goto
<1>1. TypeOK'
  BY DEF Inv, TypeOK, Labels, Replies
<1>2. LabelInv'
  BY DEF Inv, TypeOK, LabelInv, Posted, Creations
<1> QED
  BY <1>1, <1>2, QuietInv DEF Inv, TypeOK, LabelInv

LEMMA FailsInv ==
  ASSUME Inv, NEW o \in Ops, Fails(o) PROVE Inv'
<1> USE DEF Fails, Running, Answer, Goto
<1>1. TypeOK'
  BY DEF Inv, TypeOK, Labels, Replies
<1>2. LabelInv'
  <2>1. kind[o] = "patch" => wrote[o] = {}
    BY DEF Inv, TypeOK, LabelInv, Labels, Creations
  <2>2. pc'[o] = "done" /\ reply'[o] = "failed"
    BY DEF Inv, TypeOK
  <2>3. \A q \in Ops \ {o} : reply'[q] = reply[q] /\ pc'[q] = pc[q]
    BY DEF Inv, TypeOK
  <2> QED
    BY <2>1, <2>2, <2>3 DEF Inv, LabelInv, Posted, Creations
<1> QED
  BY <1>1, <1>2, QuietInv DEF Inv, TypeOK, LabelInv

LEMMA KillInv ==
  ASSUME Inv, NEW o \in Ops, Kill(o) PROVE Inv'
<1> USE DEF Kill, Running, Goto
<1>1. TypeOK'
  BY DEF Inv, TypeOK, Labels
<1>2. LabelInv'
  BY DEF Inv, TypeOK, LabelInv, Posted, Creations
<1> QED
  BY <1>1, <1>2, QuietInv DEF Inv, TypeOK

LEMMA CrashInv ==
  ASSUME Inv, Crash PROVE Inv'
<1> USE DEF Crash, Running
<1>1. TypeOK'
  BY DEF Inv, TypeOK, Labels
<1>2. LabelInv'
  BY DEF Inv, TypeOK, LabelInv, Posted, Creations
<1> QED
  BY <1>1, <1>2, QuietInv DEF Inv, TypeOK

-----------------------------------------------------------------------------
\* Statements.  One of o leaves the other operations where they are, and o is
\* not answered twice.
LEMMA BeforeStays ==
  ASSUME Inv, NEW o \in Ops, reply[o] = "none", pc[o] # "idle",
         UNCHANGED <<kind, given, before>>, cut \subseteq cut',
         pc'[o] \notin {"idle", "insert"},
         \A q \in Ops \ {o} : /\ pc'[q] = pc[q] /\ reply'[q] = reply[q]
                              /\ view'[q] = view[q],
         kind[o] = "capture" /\ reply'[o] = "ok" =>
           \A p \in before[o] \ cut : \A c \in given[p] :
             view'[o][c] = p \/ Contested(p, c)
  PROVE  BeforeInv'
<1>1. \A p \in Ops, c \in Columns : Contested(p, c) => Contested(p, c)'
  BY DEF Contested
<1>2. ASSUME NEW q \in Ops PROVE o \notin before[q] /\ before[q] \subseteq Ops
  BY DEF Inv, TypeOK, BeforeInv
<1>3. \A p \in Ops : given[p] \subseteq Columns
  BY DEF Inv, TypeOK
<1>4. ASSUME NEW q \in Ops
      PROVE  /\ \A p \in before'[q] : reply'[p] = "ok"
             /\ kind'[q] = "capture" /\ pc'[q] = "insert" =>
                  \A p \in before'[q] \ cut' : given'[p] = {}
             /\ kind'[q] = "capture" /\ reply'[q] = "ok" =>
                  \A p \in before'[q] \ cut' : \A c \in given'[p] :
                    view'[q][c] = p \/ Contested(p, c)'
  <2>1. CASE q = o
    BY <1>1, <1>2, <1>3, <2>1 DEF Inv, BeforeInv
  <2>2. CASE q # o
    BY <1>1, <1>2, <1>3, <2>2 DEF Inv, BeforeInv
  <2> QED
    BY <2>1, <2>2
<1> QED
  BY <1>4 DEF BeforeInv

\* What INSERT OR IGNORE does, to a row or without one.
LEMMA InsertRowFacts ==
  ASSUME Inv, NEW o \in Ops, InsertRow(o), wrote[o] = {}
  PROVE  /\ row' \in Rows /\ row' # NoRow
         /\ row # NoRow => row' = row /\ wrote' = wrote
         /\ wrote' \in [Ops -> SUBSET Columns]
         /\ wrote'[o] \subseteq Inserted(o)
         /\ \A q \in Ops \ {o} : wrote'[q] = wrote[q]
         /\ row = NoRow => /\ wrote'[o] = Inserted(o)
                           /\ \A c \in Columns : row'[c] = IF c \in Inserted(o) THEN o ELSE Default
         /\ births' \in Nat
<1>1. Fresh(o) \in Rows /\ Fresh(o) # NoRow
  BY EndpointsAssumption DEF Fresh, Rows
<1>2. Inserted(o) \subseteq Columns
  BY DEF Inserted, Columns, Posted
<1> QED
  BY <1>1, <1>2 DEF Inv, TypeOK, InsertRow, Fresh

LEMMA InsertInv ==
  ASSUME Inv, NEW o \in Ops, Insert(o) PROVE Inv'
<1>1. /\ kind[o] \in Creations /\ pc[o] = "insert" /\ reply[o] = "none"
      /\ wrote[o] = {} /\ given[o] \subseteq Posted
      /\ UNCHANGED <<kind, given, view, cut, before>>
  BY DEF Insert, Inv, LabelInv
<1>2. /\ row' \in Rows /\ row' # NoRow
      /\ row # NoRow => row' = row /\ wrote' = wrote
      /\ wrote' \in [Ops -> SUBSET Columns]
      /\ wrote'[o] \subseteq Inserted(o)
      /\ \A q \in Ops \ {o} : wrote'[q] = wrote[q]
      /\ row = NoRow => /\ wrote'[o] = Inserted(o)
                        /\ \A c \in Columns : row'[c] = IF c \in Inserted(o) THEN o ELSE Default
      /\ births' \in Nat
  BY <1>1, InsertRowFacts DEF Insert
<1>3. /\ \/ Rest(o, 0) = {} /\ pc' = [pc EXCEPT ![o] = "answer"]
         \/ \E j \in Rest(o, 0) : /\ \A k \in Rest(o, 0) : j <= k
                                  /\ pc' = [pc EXCEPT ![o] = Order[j]]
      /\ reply' = reply
  BY DEF Insert, Proceed, Goto
<1>4. /\ \A j \in Rest(o, 0) : j \in 1 .. 3 /\ Order[j] \in given[o]
      /\ Rest(o, 0) = {} => given[o] = {}
  BY <1>1, OrderFacts DEF Rest
<1>5. Inserted(o) \subseteq given[o]
  BY DEF Inserted
<1>6. TypeOK'
  BY <1>1, <1>2, <1>3, <1>4, <1>5, OrderFacts DEF Inv, TypeOK, Labels, Replies
<1>7. LabelInv'
  BY <1>1, <1>2, <1>3, <1>4, <1>5, OrderFacts DEF Inv, TypeOK, LabelInv, Posted, Creations
<1>8. (cut \subseteq Started)'
  BY <1>1, <1>3, <1>4, OrderFacts DEF Inv, TypeOK, Started, Posted
<1>9. ProgressInv'
  <2>1. ASSUME NEW i \in 1 .. 3, pc'[o] = Order[i], NEW j \in 1 .. 3, j < i
        PROVE  Order[j] \notin given[o]
    BY <1>3, <2>1, OrderFacts DEF Rest, Posted, Inv, TypeOK
  <2>2. pc'[o] = "answer" => wrote'[o] = given[o]
    BY <1>1, <1>2, <1>3, <1>4, <1>5, OrderFacts DEF Inv, TypeOK, Posted
  <2>3. \A q \in Ops \ {o} : pc'[q] = pc[q] /\ reply'[q] = reply[q]
    BY <1>3 DEF Inv, TypeOK
  <2> QED
    BY <1>1, <1>2, <1>3, <2>1, <2>2, <2>3 DEF Inv, ProgressInv
<1>10. \A p \in Ops, c \in Columns : Contested(p, c) => Contested(p, c)'
  BY <1>1, <1>3, <1>4, OrderFacts DEF Inv, TypeOK, Contested, Posted
<1>11. WrittenInv'
  BY <1>1, <1>2, <1>10 DEF Inv, TypeOK, WrittenInv
<1>12. OwnerInv'
  BY <1>1, <1>2, EndpointsAssumption DEF Inv, OwnerInv
<1>13. BeforeInv'
  BY <1>1, <1>3, <1>4, OrderFacts, BeforeStays DEF Inv, TypeOK, Posted, Creations
<1>14. PatchAtomic'
  BY <1>1, <1>2, EndpointsAssumption DEF Inv, TypeOK, PatchAtomic, Creations
<1> QED
  BY <1>6, <1>7, <1>8, <1>9, <1>11, <1>12, <1>13, <1>14 DEF Inv

LEMMA AutoCreateInv ==
  ASSUME Inv, NEW o \in Ops, AutoCreate(o) PROVE Inv'
<1>1. /\ kind[o] = "capture" /\ pc[o] = "insert" /\ reply[o] = "none"
      /\ wrote[o] = {} /\ given[o] = {} /\ Inserted(o) = {}
      /\ UNCHANGED <<kind, given, cut, before>>
      /\ pc' = [pc EXCEPT ![o] = "done"] /\ reply' = [reply EXCEPT ![o] = "ok"]
      /\ view' = [view EXCEPT ![o] = Fresh(o)]
  BY DEF AutoCreate, Answer, Goto, Inv, LabelInv, Inserted
<1>2. /\ row' \in Rows /\ row' # NoRow
      /\ row # NoRow => row' = row
      /\ wrote' \in [Ops -> SUBSET Columns]
      /\ \A q \in Ops : wrote'[q] = wrote[q]
      /\ row = NoRow => \A c \in Columns : row'[c] = Default
      /\ births' \in Nat
  BY <1>1, InsertRowFacts DEF AutoCreate
<1>3. Fresh(o) \in Rows
  BY <1>1 DEF Fresh, Rows
<1>4. TypeOK'
  BY <1>1, <1>2, <1>3 DEF Inv, TypeOK, Labels, Replies
<1>5. LabelInv'
  BY <1>1, <1>2 DEF Inv, TypeOK, LabelInv, Posted, Creations
<1>6. (cut \subseteq Started)'
  BY <1>1 DEF Inv, TypeOK, Started
<1>7. ProgressInv'
  BY <1>1, <1>2, OrderFacts DEF Inv, TypeOK, ProgressInv, Posted, Creations
<1>8. \A p \in Ops, c \in Columns : Contested(p, c) => Contested(p, c)'
  BY <1>1 DEF Inv, TypeOK, Contested
<1>9. WrittenInv'
  BY <1>1, <1>2, <1>8 DEF Inv, TypeOK, WrittenInv
<1>10. OwnerInv'
  BY <1>1, <1>2, EndpointsAssumption DEF Inv, OwnerInv
<1>11. BeforeInv'
  BY <1>1, BeforeStays DEF Inv, TypeOK, BeforeInv
<1>12. PatchAtomic'
  BY <1>1, <1>2, EndpointsAssumption DEF Inv, TypeOK, PatchAtomic
<1> QED
  BY <1>4, <1>5, <1>6, <1>7, <1>9, <1>10, <1>11, <1>12 DEF Inv

LEMMA LookupInv ==
  ASSUME Inv, NEW o \in Ops, Lookup(o) PROVE Inv'
<1>1. /\ kind[o] = "capture" /\ pc[o] = "lookup" /\ reply[o] = "none"
      /\ wrote[o] = {} /\ given[o] = {}
      /\ UNCHANGED <<row, kind, given, wrote, cut, before, births>>
      /\ \/ /\ row # NoRow /\ view' = [view EXCEPT ![o] = row]
            /\ pc' = [pc EXCEPT ![o] = "done"] /\ reply' = [reply EXCEPT ![o] = "ok"]
         \/ /\ row = NoRow /\ view' = view
            /\ pc' = [pc EXCEPT ![o] = "insert"] /\ reply' = reply
  BY DEF Lookup, Answer, Goto, Inv, LabelInv
<1>2. TypeOK'
  BY <1>1 DEF Inv, TypeOK, Labels, Replies
<1>3. LabelInv'
  BY <1>1 DEF Inv, TypeOK, LabelInv, Posted, Creations
<1>4. (cut \subseteq Started)'
  BY <1>1 DEF Inv, TypeOK, Started
<1>5. ProgressInv'
  BY <1>1, OrderFacts DEF Inv, TypeOK, ProgressInv, Posted, Creations
<1>6. \A p \in Ops, c \in Columns : Contested(p, c) => Contested(p, c)'
  BY <1>1 DEF Inv, TypeOK, Contested
<1>7. WrittenInv' /\ OwnerInv' /\ PatchAtomic'
  BY <1>1, <1>6 DEF Inv, TypeOK, WrittenInv, OwnerInv, PatchAtomic
<1>8. ASSUME NEW p \in before[o] \ cut
      PROVE  \/ given[p] = {}
             \/ row # NoRow /\ \A c \in given[p] : row[c] = p \/ Contested(p, c)
  <2>1. p \in Ops /\ p \notin cut /\ reply[p] = "ok"
    BY DEF Inv, TypeOK, BeforeInv
  <2>2. CASE kind[p] \in Creations \union {"patch"}
    BY <2>1, <2>2 DEF Inv, ProgressInv, WrittenInv
  <2>3. CASE kind[p] \in {"delete", "capture"}
    BY <2>1, <2>3 DEF Inv, LabelInv
  <2> QED
    BY <2>1, <2>2, <2>3 DEF Inv, TypeOK, Kinds
<1>9. BeforeInv'
  <2>1. CASE row # NoRow
    BY <1>1, <1>8, <2>1, BeforeStays DEF Inv, TypeOK
  <2>2. CASE row = NoRow
    <3>1. \A p \in before[o] \ cut : given[p] = {}
      BY <1>8, <2>2
    <3>2. \A q \in Ops : before[q] \subseteq Ops
      BY DEF Inv, TypeOK
    <3>3. \A p \in Ops : given[p] \subseteq Columns
      BY DEF Inv, TypeOK
    <3> QED
      BY <1>1, <1>6, <2>2, <3>1, <3>2, <3>3 DEF Inv, TypeOK, BeforeInv
  <2> QED
    BY <2>1, <2>2
<1> QED
  BY <1>2, <1>3, <1>4, <1>5, <1>7, <1>9 DEF Inv

LEMMA UpdateInv ==
  ASSUME Inv, NEW o \in Ops, Update(o) PROVE Inv'
<1>1. PICK i \in 1 .. 3 :
        /\ pc[o] = Order[i]
        /\ \/ /\ row # NoRow
              /\ row' = [row EXCEPT ![Order[i]] = o]
              /\ wrote' = [wrote EXCEPT ![o] = @ \union {Order[i]}]
           \/ /\ row = NoRow
              /\ UNCHANGED <<row, wrote>>
        /\ Proceed(o, i)
        /\ UNCHANGED <<kind, given, view, cut, before, births>>
  BY DEF Update
<1>2. /\ kind[o] \in Creations /\ reply[o] = "none" /\ Order[i] \in given[o]
      /\ given[o] \subseteq Posted /\ Order[i] \in Columns
      /\ \A q \in Ops \ {o} : wrote'[q] = wrote[q]
      /\ wrote'[o] \subseteq wrote[o] \union {Order[i]}
      /\ wrote[o] \subseteq wrote'[o]
      /\ row # NoRow => row' # NoRow /\ Order[i] \in wrote'[o]
  BY <1>1, OrderFacts, EndpointsAssumption DEF Inv, TypeOK, LabelInv, Posted, Columns, Rows
<1>3. /\ \/ Rest(o, i) = {} /\ pc' = [pc EXCEPT ![o] = "answer"]
         \/ \E j \in Rest(o, i) : /\ \A k \in Rest(o, i) : j <= k
                                  /\ pc' = [pc EXCEPT ![o] = Order[j]]
      /\ reply' = reply
  BY <1>1 DEF Proceed, Goto
<1>4. \A j \in Rest(o, i) : j \in 1 .. 3 /\ Order[j] \in given[o]
  BY DEF Rest
<1>5. \A q \in Ops \ {o} : pc'[q] = pc[q] /\ reply'[q] = reply[q]
  BY <1>3 DEF Inv, TypeOK
<1>6. TypeOK'
  <2>1. row' \in Rows \union {NoRow} /\ wrote' \in [Ops -> SUBSET Columns]
    BY <1>1, <1>2 DEF Inv, TypeOK, Rows
  <2>2. pc' \in [Ops -> Labels] /\ reply' \in [Ops -> Replies]
    BY <1>3, <1>4, OrderFacts DEF Inv, TypeOK, Labels, Replies
  <2>3. \A q \in Ops : wrote'[q] \subseteq given[q]
    BY <1>2 DEF Inv, TypeOK
  <2> QED
    BY <1>1, <2>1, <2>2, <2>3 DEF Inv, TypeOK
<1>7. LabelInv'
  <2>1. /\ pc'[o] \in Posted \union {"answer"}
        /\ pc'[o] \in Posted => pc'[o] \in given[o]
        /\ reply'[o] = "none"
    BY <1>2, <1>3, <1>4, OrderFacts DEF Inv, TypeOK, Posted
  <2>2. pc'[o] # "done" => reply'[o] = "none"
    BY <2>1
  <2>3. pc'[o] \notin {"idle", "insert", "update", "delete", "lookup"}
    BY <2>1 DEF Posted
  <2>4. kind[o] \notin {"delete", "capture", "patch"}
    BY <1>2 DEF Creations
  <2> QED
    BY <1>1, <1>2, <1>5, <2>1, <2>2, <2>3, <2>4 DEF Inv, LabelInv
<1>8. (cut \subseteq Started)'
  BY <1>1, <1>3, <1>4, OrderFacts DEF Inv, TypeOK, Started, Posted
<1>9. ProgressInv'
  <2> SUFFICES ASSUME o \notin cut
               PROVE  /\ \A k \in 1 .. 3 : pc'[o] = Order[k] =>
                           /\ row' # NoRow
                           /\ \A j \in 1 .. 3 : j < k /\ Order[j] \in given[o] =>
                                Order[j] \in wrote'[o]
                      /\ pc'[o] = "answer" => wrote'[o] = given[o] /\ row' # NoRow
    BY <1>1, <1>2, <1>3, <1>5 DEF Inv, ProgressInv
  <2>1. row # NoRow /\ \A j \in 1 .. 3 : j < i /\ Order[j] \in given[o] => Order[j] \in wrote[o]
    BY <1>1 DEF Inv, ProgressInv
  <2>2. \A j \in 1 .. 3 : j <= i /\ Order[j] \in given[o] => Order[j] \in wrote'[o]
    BY <1>2, <2>1
  <2>3. ASSUME pc'[o] = "answer" PROVE given[o] \subseteq wrote'[o]
    <3>1. Rest(o, i) = {}
      BY <1>3, <1>4, <2>3, OrderFacts DEF Posted, Inv, TypeOK
    <3> QED
      BY <1>2, <2>2, <3>1, OrderFacts DEF Rest
  <2>4. ASSUME NEW k \in 1 .. 3, pc'[o] = Order[k], NEW j \in 1 .. 3, j < k,
               Order[j] \in given[o]
        PROVE  j <= i
    BY <1>3, <2>4, OrderFacts DEF Rest, Posted, Inv, TypeOK
  <2> QED
    BY <1>1, <1>2, <1>6, <2>1, <2>2, <2>3, <2>4 DEF TypeOK
<1>10. \A p \in Ops, c \in Columns : Contested(p, c) => Contested(p, c)'
  BY <1>1, <1>3, <1>4, OrderFacts DEF Inv, TypeOK, Contested, Posted
<1>11. WrittenInv'
  <2>1. \A q \in Ops \ {o} : Contested(q, Order[i])'
    BY <1>1, <1>2, <1>3, <1>4, OrderFacts DEF Inv, TypeOK, Contested, Posted
  <2>2. \A q \in Ops : wrote[q] \subseteq Columns
    BY DEF Inv, TypeOK
  <2>3. \A q \in Ops : \A c \in wrote'[q] : c \in wrote[q] \/ (q = o /\ c = Order[i])
    BY <1>2
  <2>4. row # NoRow => \A c \in Columns : row'[c] = IF c = Order[i] THEN o ELSE row[c]
    BY <1>1, <1>2 DEF Inv, TypeOK, Rows
  <2>5. o \notin cut => row # NoRow
    BY <1>1 DEF Inv, ProgressInv
  <2> QED
    BY <1>1, <1>2, <1>10, <2>1, <2>2, <2>3, <2>4, <2>5 DEF Inv, WrittenInv
<1>12. OwnerInv'
  BY <1>1, <1>2 DEF Inv, TypeOK, OwnerInv, Rows
<1>13. BeforeInv'
  BY <1>1, <1>2, <1>3, <1>4, OrderFacts, BeforeStays DEF Inv, TypeOK, Posted, Creations
<1>14. PatchAtomic'
  BY <1>1, <1>2 DEF Inv, TypeOK, PatchAtomic, Creations, Rows
<1> QED
  BY <1>6, <1>7, <1>8, <1>9, <1>11, <1>12, <1>13, <1>14 DEF Inv

LEMMA PatchInv ==
  ASSUME Inv, NEW o \in Ops, Patch(o) PROVE Inv'
<1>1. /\ kind[o] = "patch" /\ pc[o] = "update" /\ reply[o] = "none" /\ wrote[o] = {}
      /\ UNCHANGED <<kind, given, view, cut, before, births>>
      /\ \E l \in {"answer", "done"} : pc' = [pc EXCEPT ![o] = l]
      /\ given[o] \subseteq Columns
  BY DEF Patch, Answer, Goto, Inv, TypeOK, LabelInv
<1>2. TypeOK'
  BY <1>1 DEF Patch, Answer, Inv, TypeOK, Labels, Replies, Rows
<1>3. LabelInv'
  <2>1. \/ pc'[o] = "answer" /\ reply'[o] = "none" /\ wrote'[o] = given[o]
        \/ pc'[o] = "done" /\ reply'[o] = "missing" /\ wrote'[o] = {}
    BY <1>1 DEF Patch, Answer, Goto, Inv, TypeOK
  <2>2. \A q \in Ops \ {o} : reply'[q] = reply[q] /\ wrote'[q] = wrote[q] /\ pc'[q] = pc[q]
    BY <1>1 DEF Patch, Answer, Inv, TypeOK
  <2> QED
    BY <1>1, <2>1, <2>2 DEF Inv, LabelInv, Posted, Creations
<1>4. CASE row = NoRow
  BY <1>1, <1>2, <1>3, <1>4, QuietInv DEF Patch, Answer, Goto, Inv, TypeOK
<1>5. CASE row # NoRow
  <2>1. /\ row' = [c \in Columns |-> IF c \in given[o] THEN o ELSE row[c]]
        /\ wrote' = [wrote EXCEPT ![o] = given[o]]
        /\ pc' = [pc EXCEPT ![o] = "answer"] /\ reply' = reply
        /\ row' # NoRow
    BY <1>2, <1>5, EndpointsAssumption DEF Patch, Goto, Inv, TypeOK, Rows
  <2>2. (cut \subseteq Started)'
    BY <1>1 DEF Inv, TypeOK, Started
  <2>3. ProgressInv'
    BY <1>1, <1>5, <2>1, OrderFacts DEF Inv, TypeOK, ProgressInv, Posted
  <2>4. \A p \in Ops, c \in Columns : Contested(p, c) => Contested(p, c)'
    BY <1>1 DEF Inv, TypeOK, Contested
  <2>5. \A p \in Ops \ {o} : \A c \in given[o] : Contested(p, c)'
    BY <1>1 DEF Inv, TypeOK, Contested
  <2>6. WrittenInv'
    BY <1>1, <1>5, <2>1, <2>4, <2>5 DEF Inv, TypeOK, WrittenInv
  <2>7. OwnerInv'
    BY <1>1, <1>5, <2>1 DEF Inv, TypeOK, OwnerInv
  <2>8. BeforeInv'
    BY <1>1, <2>1, BeforeStays DEF Inv, TypeOK
  <2>9. PatchAtomic'
    BY <1>1, <1>5, <2>1 DEF Inv, TypeOK, PatchAtomic
  <2> QED
    BY <1>2, <1>3, <2>2, <2>3, <2>6, <2>7, <2>8, <2>9 DEF Inv
<1> QED
  BY <1>4, <1>5

LEMMA DeleteInv ==
  ASSUME Inv, NEW o \in Ops, Delete(o) PROVE Inv'
<1>1. /\ kind[o] = "delete" /\ pc[o] = "delete" /\ reply[o] = "none" /\ wrote[o] = {}
      /\ UNCHANGED <<kind, given, view, wrote, before, births>>
      /\ \E l \in {"answer", "done"} : pc' = [pc EXCEPT ![o] = l]
  BY DEF Delete, Answer, Goto, Inv, LabelInv
<1>2. TypeOK'
  BY <1>1 DEF Delete, Answer, Goto, Inv, TypeOK, Labels, Replies
<1>3. LabelInv'
  BY <1>1 DEF Delete, Answer, Goto, Inv, TypeOK, LabelInv, Posted, Creations
<1>4. CASE row = NoRow
  BY <1>1, <1>2, <1>3, <1>4, QuietInv DEF Delete, Answer, Goto, Inv, TypeOK
<1>5. CASE row # NoRow
  <2>1. /\ row' = NoRow /\ cut' = Started
        /\ pc' = [pc EXCEPT ![o] = "answer"] /\ reply' = reply
    BY <1>5 DEF Delete, Goto, Started
  <2>2. (cut \subseteq Started)' /\ cut \subseteq cut'
    BY <1>1, <2>1 DEF Inv, TypeOK, Started
  <2>3. \A q \in Ops \ cut' : pc'[q] = "idle" /\ reply'[q] = "none" /\ wrote'[q] = {}
    BY <1>1, <2>1 DEF Inv, TypeOK, LabelInv, Started
  <2>4. ProgressInv'
    BY <2>3, OrderFacts DEF ProgressInv, Posted
  <2>5. WrittenInv' /\ OwnerInv' /\ PatchAtomic'
    BY <2>1, <2>3 DEF WrittenInv, OwnerInv, PatchAtomic
  <2>6. BeforeInv'
    BY <1>1, <2>1, <2>2, BeforeStays DEF Inv, TypeOK
  <2> QED
    BY <1>2, <1>3, <2>2, <2>4, <2>5, <2>6 DEF Inv
<1> QED
  BY <1>4, <1>5

LEMMA SucceedInv ==
  ASSUME Inv, NEW o \in Ops, Succeed(o) PROVE Inv'
<1>1. /\ kind[o] \in Creations \union {"patch", "delete"}
      /\ pc[o] = "answer" /\ reply[o] = "none"
      /\ UNCHANGED <<row, kind, given, view, wrote, cut, before, births>>
      /\ pc' = [pc EXCEPT ![o] = "done"] /\ reply' = [reply EXCEPT ![o] = "ok"]
  BY DEF Succeed, Answer, Goto, Inv, LabelInv
<1>2. TypeOK'
  BY <1>1 DEF Inv, TypeOK, Labels, Replies
<1>3. LabelInv'
  BY <1>1 DEF Inv, TypeOK, LabelInv, Posted, Creations
<1>4. (cut \subseteq Started)'
  BY <1>1 DEF Inv, TypeOK, Started
<1>5. ProgressInv'
  BY <1>1, OrderFacts DEF Inv, TypeOK, ProgressInv, Posted
<1>6. \A p \in Ops, c \in Columns : Contested(p, c) => Contested(p, c)'
  BY <1>1 DEF Inv, TypeOK, Contested
<1>7. WrittenInv' /\ OwnerInv' /\ PatchAtomic'
  BY <1>1, <1>6 DEF Inv, TypeOK, WrittenInv, OwnerInv, PatchAtomic
<1>8. BeforeInv'
  BY <1>1, BeforeStays DEF Inv, TypeOK, Creations
<1> QED
  BY <1>2, <1>3, <1>4, <1>5, <1>7, <1>8 DEF Inv

-----------------------------------------------------------------------------
(* The theorems. *)

LEMMA NextInv == Inv /\ [Next]_vars => Inv'
<1> SUFFICES ASSUME Inv, [Next]_vars PROVE Inv'
  OBVIOUS
<1>1. CASE UNCHANGED vars
  BY <1>1 DEF vars, Inv, TypeOK, LabelInv, Started, ProgressInv, Contested, WrittenInv,
              OwnerInv, BeforeInv, PatchAtomic
<1>2. ASSUME NEW o \in Ops, Start(o) PROVE Inv'
  BY <1>2, BeginInv
<1>3. ASSUME NEW o \in Ops, Reject(o) \/ Succeed(o) \/ Fails(o) \/ Kill(o) PROVE Inv'
  BY <1>3, RejectInv, SucceedInv, FailsInv, KillInv
<1>4. ASSUME NEW o \in Ops, Statement(o) PROVE Inv'
  BY <1>4, InsertInv, UpdateInv, PatchInv, DeleteInv, LookupInv, AutoCreateInv DEF Statement
<1>5. CASE Crash
  BY <1>5, CrashInv
<1> QED
  BY <1>1, <1>2, <1>3, <1>4, <1>5 DEF Next

LEMMA Invariance == Spec => []Inv
BY InitInv, NextInv, PTL DEF Spec

\* Columns hold the default or the identity of an operation, operations are at
\* labels of the code, and none writes a column it was not given.
THEOREM TypeCorrect == Spec => []TypeOK
<1>1. Inv => TypeOK
  BY DEF Inv
<1> QED
  BY <1>1, Invariance, PTL

\* handleEndpointAction: a PATCH is one UPDATE, so whatever interleaves, two
\* PATCHes of the same two columns never leave one column of each.
THEOREM PatchesAtomic == Spec => []PatchAtomic
<1>1. Inv => PatchAtomic
  BY DEF Inv
<1> QED
  BY <1>1, Invariance, PTL

\* A success answer of POST or PATCH was earned, an answer that something was
\* wrong with the request means that nothing was changed, and a server that
\* dies on either side of a PATCH's UPDATE leaves all of it or nothing.
THEOREM AnswersAreTrue == Spec => []AnswersTrue
<1>1. Inv => AnswersTrue
  BY DEF Inv, ProgressInv, LabelInv, AnswersTrue
<1> QED
  BY <1>1, Invariance, PTL

\* ServeHook's SELECT and its fallback to the defaults: a configuration that
\* was answered "ok" is what a later capture goes on with.
THEOREM ReadsWrites == Spec => []ReadYourWrites
<1>1. Inv => ReadYourWrites
  BY DEF Inv, BeforeInv, Contested, ReadYourWrites
<1> QED
  BY <1>1, Invariance, PTL

\* "Create never destroys": INSERT OR IGNORE and the UPDATEs after it leave
\* alone the row that is there and the columns that were not supplied.
THEOREM CreationKeeps == Spec => CreateKeeps
<1> DEFINE Keeps ==
      \A o \in Ops :
        (kind[o] \in Creations \union {"capture"} /\ pc'[o] # pc[o] /\ row # NoRow) =>
          /\ row' # NoRow
          /\ \A c \in Columns \ given[o] : row'[c] = row[c]
<1>1. Inv /\ [Next]_vars => [Keeps]_vars
  <2> SUFFICES ASSUME Inv, Next, NEW o \in Ops,
                      kind[o] \in Creations \union {"capture"}, pc'[o] # pc[o], row # NoRow
               PROVE  /\ row' # NoRow
                      /\ \A c \in Columns \ given[o] : row'[c] = row[c]
    BY DEF vars
  <2>1. ASSUME NEW p \in Ops, Start(p) \/ Reject(p) \/ Succeed(p) \/ Fails(p) \/ Kill(p) PROVE row' = row
    BY <2>1 DEF Start, BeginPost, BeginNew, BeginPatch, BeginDelete, BeginCapture, Begin,
                Reject, Succeed, Fails, Kill
  <2>2. Crash => row' = row
    BY DEF Crash
  <2>3. ASSUME NEW p \in Ops, Statement(p), p # o PROVE FALSE
    <3>1. \E l \in Labels : pc' = [pc EXCEPT ![p] = l]
      BY <2>3, OrderFacts DEF Statement, Insert, Update, Patch, Delete, Lookup, AutoCreate,
                              Proceed, Answer, Goto, Rest, Labels
    <3> QED
      BY <2>3, <3>1 DEF Inv, TypeOK
  <2>4. ASSUME Statement(o)
        PROVE  /\ row' # NoRow
               /\ \A c \in Columns \ given[o] : row'[c] = row[c]
    <3>1. ~Patch(o) /\ ~Delete(o)
      BY DEF Patch, Delete, Inv, LabelInv, Creations
    <3>2. Insert(o) \/ AutoCreate(o) \/ Lookup(o) => row' = row
      BY DEF Insert, AutoCreate, Lookup, InsertRow
    <3>3. CASE Update(o)
      BY <3>3, EndpointsAssumption, OrderFacts
         DEF Update, Inv, TypeOK, LabelInv, Rows
    <3> QED
      BY <2>4, <3>1, <3>2, <3>3 DEF Statement
  <2> QED
    BY <2>1, <2>2, <2>3, <2>4 DEF Next
<1> QED
  BY <1>1, Invariance, PTL DEF Spec, CreateKeeps

-----------------------------------------------------------------------------
(* Deletions. *)

\* So far finitely many operations began, and the count is right.
ToldInv == IsFiniteSet(Started) /\ DeletionsTold

\* Those who are told and those who are not have begun.
LEMMA ToldFinite ==
  ASSUME Inv, ToldInv
  PROVE  /\ IsFiniteSet(Told) /\ Cardinality(Told) \in Nat
         /\ IsFiniteSet(Told \union Unheard) /\ Cardinality(Told \union Unheard) \in Nat
<1>1. Told \union Unheard \subseteq Started
  BY DEF Told, Unheard, Started, Inv, LabelInv
<1>2. Told \subseteq Started
  BY <1>1
<1> QED
  BY <1>1, <1>2, FS_Subset, FS_CardinalityType DEF ToldInv

\* Steps that neither make nor remove the row and tell nobody anything new; of
\* those who were about to be told, some may die.
LEMMA ToldStays ==
  ASSUME Inv, ToldInv, Inv', IsFiniteSet(Started'),
         Told' \subseteq Told, Told \union Unheard \subseteq (Told \union Unheard)',
         births' = births, row' = NoRow <=> row = NoRow
  PROVE  ToldInv'
<1>1. (Told \union Unheard)' \subseteq Started'
  BY DEF Told, Unheard, Started, Inv, LabelInv
<1>2. /\ IsFiniteSet((Told \union Unheard)')
      /\ Cardinality((Told \union Unheard)') \in Nat
      /\ Cardinality(Told \union Unheard) <= Cardinality((Told \union Unheard)')
  BY <1>1, FS_Subset, FS_CardinalityType
<1>3. Cardinality(Told') \in Nat /\ Cardinality(Told') <= Cardinality(Told)
  BY ToldFinite, FS_Subset, FS_CardinalityType
<1>4. /\ Cardinality(Told) \in Nat /\ Cardinality(Told \union Unheard) \in Nat
      /\ births \in Nat /\ Alive \in Nat /\ Alive' = Alive
  BY ToldFinite DEF Inv, TypeOK, Alive
<1> QED
  BY <1>2, <1>3, <1>4 DEF ToldInv, DeletionsTold

\* A step of an operation that had begun begins no other.
LEMMA StartedStays ==
  ASSUME ToldInv, Started' \subseteq Started PROVE IsFiniteSet(Started')
BY FS_Subset DEF ToldInv

\* Nobody who deletes is told anything by a step of another kind.
LEMMA OthersTellNothing ==
  ASSUME Inv, NEW o \in Ops, kind[o] # "delete", kind' = kind, pc[o] # "idle",
         \A p \in Ops \ {o} : reply'[p] = reply[p] /\ pc'[p] = pc[p]
  PROVE  Told' = Told /\ Unheard' = Unheard /\ Started' \subseteq Started
BY DEF Told, Unheard, Started

LEMMA InsertTold ==
  ASSUME Inv, ToldInv, Inv', NEW o \in Ops, InsertRow(o),
         Told' = Told, Unheard' = Unheard, Started' \subseteq Started
  PROVE  ToldInv'
<1>1. CASE row = NoRow
  <2>1. Fresh(o) \in Rows
    BY DEF Fresh, Rows
  <2>2. row' # NoRow /\ births' = births + 1
    BY <1>1, <2>1, EndpointsAssumption DEF InsertRow, Rows
  <2>3. births \in Nat /\ Alive = 0 /\ Alive' = 1
    BY <1>1, <2>2 DEF Inv, TypeOK, Alive
  <2>4. (Told \union Unheard)' = Told \union Unheard
    OBVIOUS
  <2> QED
    BY <2>2, <2>3, <2>4, ToldFinite, StartedStays DEF ToldInv, DeletionsTold
<1>2. CASE row # NoRow
  BY <1>2, ToldStays, StartedStays DEF InsertRow
<1> QED
  BY <1>1, <1>2

LEMMA DeleteTold ==
  ASSUME Inv, ToldInv, Inv', NEW o \in Ops, Delete(o) PROVE ToldInv'
<1>1. /\ kind[o] = "delete" /\ pc[o] = "delete" /\ reply[o] = "none"
      /\ kind' = kind /\ births' = births
  BY DEF Delete, Inv, LabelInv
<1>2. Started' \subseteq Started
  BY <1>1 DEF Delete, Answer, Goto, Started, Inv, TypeOK
<1>3. CASE row = NoRow
  <2>1. Told' = Told /\ Unheard' = Unheard
    BY <1>1, <1>3 DEF Delete, Answer, Goto, Told, Unheard, Inv, TypeOK
  <2> QED
    BY <1>1, <1>2, <1>3, <2>1, ToldStays, StartedStays DEF Delete
<1>4. CASE row # NoRow
  <2>1. row' = NoRow /\ pc' = [pc EXCEPT ![o] = "answer"] /\ reply' = reply
    BY <1>4 DEF Delete, Goto
  <2>2. /\ Told' = Told \union {o} /\ o \notin Told
        /\ (Told \union Unheard)' = (Told \union Unheard) \union {o}
        /\ o \notin Told \union Unheard
    BY <1>1, <2>1 DEF Told, Unheard, Inv, TypeOK
  <2>3. /\ Cardinality(Told') = Cardinality(Told) + 1
        /\ Cardinality((Told \union Unheard)') = Cardinality(Told \union Unheard) + 1
    BY <2>2, ToldFinite, FS_AddElement
  <2>4. births \in Nat /\ Alive = 1 /\ Alive' = 0
    BY <1>4, <2>1 DEF Inv, TypeOK, Alive
  <2> QED
    BY <1>1, <1>2, <2>3, <2>4, ToldFinite, StartedStays DEF ToldInv, DeletionsTold
<1> QED
  BY <1>3, <1>4

LEMMA StatementTold ==
  ASSUME Inv, ToldInv, Inv', NEW o \in Ops, Statement(o) PROVE ToldInv'
<1>1. ASSUME Insert(o) \/ Update(o) \/ Patch(o) \/ Lookup(o) \/ AutoCreate(o)
      PROVE  Told' = Told /\ Unheard' = Unheard /\ Started' \subseteq Started
  <2>1. kind[o] # "delete" /\ pc[o] # "idle"
    BY <1>1, OrderFacts DEF Insert, Update, Patch, Lookup, AutoCreate, Creations,
                            Posted, Inv, LabelInv
  <2>2. kind' = kind /\ \A p \in Ops \ {o} : reply'[p] = reply[p] /\ pc'[p] = pc[p]
    BY <1>1 DEF Insert, Update, Patch, Lookup, AutoCreate, Proceed, Answer, Goto,
                Inv, TypeOK
  <2> QED
    BY <2>1, <2>2, OthersTellNothing
<1>2. CASE Insert(o) \/ AutoCreate(o)
  BY <1>1, <1>2, InsertTold DEF Insert, AutoCreate
<1>3. CASE Update(o)
  <2>1. births' = births
    BY <1>3 DEF Update
  <2>2. row # NoRow => row' \in Rows
    BY <1>3, OrderFacts DEF Update, Inv, TypeOK, Rows, Columns
  <2>3. row = NoRow => row' = NoRow
    BY <1>3 DEF Update
  <2> QED
    BY <1>1, <1>3, <2>1, <2>2, <2>3, EndpointsAssumption, ToldStays, StartedStays DEF Rows
<1>4. CASE Patch(o)
  <2>1. births' = births
    BY <1>4 DEF Patch
  <2>2. row # NoRow => row' \in Rows
    BY <1>4 DEF Patch, Inv, TypeOK, Rows
  <2>3. row = NoRow => row' = NoRow
    BY <1>4 DEF Patch
  <2> QED
    BY <1>1, <1>4, <2>1, <2>2, <2>3, EndpointsAssumption, ToldStays, StartedStays DEF Rows
<1>5. CASE Lookup(o)
  BY <1>1, <1>5, ToldStays, StartedStays DEF Lookup
<1> QED
  BY <1>2, <1>3, <1>4, <1>5, DeleteTold DEF Statement

LEMMA ToldNext ==
  ASSUME Inv, ToldInv, Inv', [Next]_vars PROVE ToldInv'
<1>1. CASE UNCHANGED vars
  BY <1>1, ToldStays, StartedStays DEF vars, Told, Unheard, Started
<1>2. ASSUME NEW o \in Ops, Start(o) PROVE ToldInv'
  <2>1. PICK k \in Kinds, g \in SUBSET Columns, label \in {"insert", "update", "delete", "lookup"} :
          Begin(o, k, g, label)
    BY <1>2 DEF Start, BeginPost, BeginNew, BeginPatch, BeginDelete, BeginCapture,
                Kinds, Creations, Posted, Columns
  <2>2. Told' = Told /\ Unheard' = Unheard
    BY <2>1 DEF Begin, Goto, Told, Unheard, Inv, TypeOK, LabelInv
  <2>3. Started' \subseteq Started \union {o}
    BY <2>1 DEF Begin, Goto, Started, Inv, TypeOK
  <2>4. IsFiniteSet(Started')
    BY <2>3, FS_AddElement, FS_Subset DEF ToldInv
  <2> QED
    BY <2>1, <2>2, <2>4, ToldStays DEF Begin
<1>3. ASSUME NEW o \in Ops, Reject(o) \/ Succeed(o) \/ Fails(o) \/ Kill(o) PROVE ToldInv'
  <2>1. Told' \subseteq Told /\ Unheard \subseteq Unheard' /\ Told \subseteq (Told \union Unheard)'
    BY <1>3 DEF Reject, Succeed, Fails, Kill, Running, Answer, Goto, Told, Unheard,
                Inv, TypeOK, LabelInv
  <2>2. Started' \subseteq Started
    BY <1>3 DEF Reject, Succeed, Fails, Kill, Running, Answer, Goto, Started, Inv, TypeOK,
                Creations
  <2> QED
    BY <1>3, <2>1, <2>2, ToldStays, StartedStays DEF Reject, Succeed, Fails, Kill
<1>4. ASSUME NEW o \in Ops, Statement(o) PROVE ToldInv'
  BY <1>4, StatementTold
<1>5. CASE Crash
  <2>1. Told' \subseteq Told /\ Told \union Unheard \subseteq (Told \union Unheard)'
    BY <1>5 DEF Crash, Running, Told, Unheard, Inv, TypeOK, LabelInv
  <2>2. Started' \subseteq Started
    BY <1>5 DEF Crash, Running, Started, Inv, TypeOK
  <2> QED
    BY <1>5, <2>1, <2>2, ToldStays, StartedStays DEF Crash
<1> QED
  BY <1>1, <1>2, <1>3, <1>4, <1>5 DEF Next

\* DELETE /api/endpoints: RowsAffected decides between success and 404, so
\* however many users delete the same endpoint, at most one of them is told
\* that it did for every time the row was created, and exactly one unless a
\* server died between its DELETE and its answer.
THEOREM DeletionsAreTold == Spec => []DeletionsTold
<1>1. Init => ToldInv
  <2> SUFFICES ASSUME Init PROVE ToldInv
    OBVIOUS
  <2>1. Told = {} /\ Unheard = {} /\ Started = {} /\ Alive = 0 /\ births = 0
    BY DEF Init, Told, Unheard, Started, Alive
  <2>2. Told \union Unheard = {}
    BY <2>1
  <2> QED
    BY <2>1, <2>2, FS_EmptySet DEF ToldInv, DeletionsTold
<1>2. Inv /\ ToldInv /\ [Next]_vars => ToldInv'
  BY ToldNext, NextInv
<1>3. ToldInv => DeletionsTold
  BY DEF ToldInv
<1> QED
  BY <1>1, <1>2, <1>3, Invariance, PTL DEF Spec
=============================================================================
