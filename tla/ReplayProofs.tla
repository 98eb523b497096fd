----------------------------- MODULE ReplayProofs -----------------------------
(***************************************************************************)
(* The invariants of Replay for any number of batches, sends and captured  *)
(* headers.  What the results tell of the wire is counted: every result    *)
(* adds one to the count of its class, so that wire lies between the       *)
(* statuses and the statuses with the errors except while a send is under  *)
(* way.  A late or stray exchange leaves its batch where the next look at  *)
(* batchCtx or the next SELECT stops it.                                   *)
(***************************************************************************)
EXTENDS Replay, SignaturesProofs, FiniteSetTheorems

USE ReplayAssumption

\* A send is wanted and not over.
Sending == {"sleep", "poll", "load", "send", "await", "record", "return"}

\* Nothing was sent before the loop, the loop never runs over, and the answer
\* is the last thing a batch does.
StageInv ==
  \A b \in Batches :
    /\ pc[b] \in {"idle", "exists"} => results[b] = <<>> /\ wire[b] = 0
    /\ pc[b] = "next" => times[b] \in 1 .. MaxTimes /\ Len(results[b]) <= times[b]
    /\ pc[b] \in Sending => times[b] \in 1 .. MaxTimes /\ Len(results[b]) < times[b]
    /\ pc[b] # "done" => reply[b] = "none"
    /\ pc[b] \in {"record", "return"} => outcome[b] # "missing"

Statuses(b) == HowMany(results[b], Answered)
Exchanges(b) == HowMany(results[b], Answered \union {"error"})

\* An exchange under way has no result yet.
WireInv ==
  \A b \in Batches :
    /\ pc[b] = "await" \/ (pc[b] \in {"record", "return"} /\ outcome[b] \in Answered) =>
         Statuses(b) + 1 <= wire[b] /\ wire[b] <= Exchanges(b) + 1
    /\ pc[b] \in {"record", "return"} /\ outcome[b] = "error" =>
         Statuses(b) <= wire[b] /\ wire[b] <= Exchanges(b) + 1
    /\ pc[b] \in {"record", "return"} /\ outcome[b] \notin Answered \union {"error"} =>
         Statuses(b) <= wire[b] /\ wire[b] <= Exchanges(b)
    /\ pc[b] \notin {"await", "record", "return", "done"} \/ reply[b] # "none" =>
         Statuses(b) <= wire[b] /\ wire[b] <= Exchanges(b)

\* What HistoryAgrees allows of a batch without an answer is so exactly between
\* the row and the result, where outcome still is the one recorded.
RowsInv ==
  \A b \in Batches :
    stored /\ b \notin lost =>
      LET told == HowMany(results[b], Recorded) IN
      /\ pc[b] \notin {"return", "done"} \/ reply[b] # "none" => Len(rows[b]) = told
      /\ pc[b] = "return" => Len(rows[b]) = told + 1 /\ rows[b][told + 1] = outcome[b]

\* After a late exchange batchCtx is done and was not looked at since.
LateInv ==
  \A b \in Batches :
    /\ late[b] <= 1
    /\ late[b] = 1 => ended[b] /\ pc[b] \notin {"load", "send"}

\* A stray exchange was loaded while the row was there.
StrayInv ==
  /\ \A b \in Batches :
       /\ stray[b] <= 1
       /\ stored \/ pc[b] = "send" => stray[b] = 0
  /\ ~stored => \A b \in Batches : rows[b] = <<>>

Inv ==
  /\ TypeOK /\ StageInv /\ ResultsComplete /\ WireInv /\ HistoryAgrees /\ RowsInv
  /\ LateInv /\ StrayInv /\ ExitTells /\ ResignVerifies

-----------------------------------------------------------------------------
\* Counting a sequence's elements.
LEMMA RankNat ==
  ASSUME NEW s, NEW S, NEW n \in Nat
  PROVE  /\ IsFiniteSet({i \in 1 .. n : s[i] \in S})
         /\ Rank(s, S, n) \in 0 .. n
<1>1. IsFiniteSet(1 .. n) /\ Cardinality(1 .. n) = n
  BY FS_Interval, SMT
<1>2. {i \in 1 .. n : s[i] \in S} \in SUBSET (1 .. n)
  OBVIOUS
<1>3. /\ IsFiniteSet({i \in 1 .. n : s[i] \in S})
      /\ Cardinality({i \in 1 .. n : s[i] \in S}) <= n
  BY <1>1, <1>2, FS_Subset
<1>4. Cardinality({i \in 1 .. n : s[i] \in S}) \in Nat
  BY <1>3, FS_CardinalityType
<1> QED
  BY <1>3, <1>4, SMT DEF Rank

\* An element that counts is among the first, and not beyond all of them.
LEMMA RankBounds ==
  ASSUME NEW T, NEW s \in Seq(T), NEW S, NEW i \in 1 .. Len(s), s[i] \in S
  PROVE  Rank(s, S, i) \in 1 .. HowMany(s, S)
<1> DEFINE first(n) == {k \in 1 .. n : s[k] \in S}
<1>0. Len(s) \in Nat /\ i \in Nat
  BY SMT
<1>1. IsFiniteSet(first(i)) /\ IsFiniteSet(first(Len(s)))
  BY <1>0, RankNat
<1>2. first(i) \in SUBSET first(Len(s)) /\ i \in first(i)
  BY <1>0, SMT
<1>3. Cardinality(first(i)) <= Cardinality(first(Len(s)))
  BY <1>1, <1>2, FS_Subset
<1>4. Cardinality(first(i)) # 0
  BY <1>1, <1>2, FS_EmptySet
<1>5. Cardinality(first(i)) \in Nat /\ Cardinality(first(Len(s))) \in Nat
  BY <1>1, FS_CardinalityType
<1> QED
  BY <1>3, <1>4, <1>5, SMT DEF Rank, HowMany

\* One more element leaves the counts of the earlier ones alone,
LEMMA RankPrefix ==
  ASSUME NEW T, NEW s \in Seq(T), NEW x \in T, NEW S, NEW n \in 0 .. Len(s)
  PROVE  Rank(Append(s, x), S, n) = Rank(s, S, n)
<1>1. \A i \in 1 .. n : Append(s, x)[i] = s[i]
  BY SMT
<1>2. {i \in 1 .. n : Append(s, x)[i] \in S} = {i \in 1 .. n : s[i] \in S}
  BY <1>1
<1> QED
  BY <1>2 DEF Rank

\* and adds one to the count of all if it counts.
LEMMA HowManyAppend ==
  ASSUME NEW T, NEW s \in Seq(T), NEW x \in T, NEW S
  PROVE  HowMany(Append(s, x), S) = IF x \in S THEN HowMany(s, S) + 1 ELSE HowMany(s, S)
<1> DEFINE t == Append(s, x)
           n == Len(s)
           old == {i \in 1 .. n : t[i] \in S}
           new == {i \in 1 .. n + 1 : t[i] \in S}
<1>1. n \in Nat /\ Len(t) = n + 1 /\ t[n + 1] = x
  BY SMT
<1>2. 1 .. n + 1 = (1 .. n) \union {n + 1} /\ n + 1 \notin 1 .. n
  BY <1>1, SMT
<1>3. IsFiniteSet(old) /\ Cardinality(old) = HowMany(s, S)
  <2>1. IsFiniteSet(old)
    BY <1>1, RankNat
  <2>2. n \in 0 .. Len(s)
    BY <1>1, SMT
  <2>3. Rank(t, S, n) = Rank(s, S, n)
    BY <2>2, RankPrefix
  <2> QED
    BY <2>1, <2>3 DEF Rank, HowMany
<1>4. Cardinality(new) = HowMany(t, S)
  BY <1>1 DEF Rank, HowMany
<1>5. CASE x \in S
  <2>1. new = old \union {n + 1} /\ n + 1 \notin old
    BY <1>1, <1>2, <1>5
  <2>2. Cardinality(new) = Cardinality(old) + 1
    BY <1>3, <2>1, FS_AddElement
  <2> QED
    BY <1>3, <1>4, <1>5, <2>2
<1>6. CASE x \notin S
  <2>1. new = old
    BY <1>1, <1>2, <1>6
  <2> QED
    BY <1>3, <1>4, <1>6, <2>1
<1> QED
  BY <1>5, <1>6

\* Of no results none counts.
LEMMA HowManyNone == \A S : HowMany(<<>>, S) = 0
<1> SUFFICES ASSUME NEW S PROVE HowMany(<<>>, S) = 0
  OBVIOUS
<1>1. Len(<<>>) = 0
  BY SMT
<1>2. Rank(<<>>, S, 0) \in 0 .. 0
  BY RankNat
<1> QED
  BY <1>1, <1>2, SMT DEF HowMany

\* The counts of a batch are numbers.
LEMMA CountsNat ==
  ASSUME TypeOK
  PROVE  \A b \in Batches : \A S : HowMany(results[b], S) \in Nat
<1> SUFFICES ASSUME NEW b \in Batches, NEW S PROVE HowMany(results[b], S) \in Nat
  OBVIOUS
<1>1. Len(results[b]) \in Nat
  BY SMT DEF TypeOK
<1>2. Rank(results[b], S, Len(results[b])) \in 0 .. Len(results[b])
  BY <1>1, RankNat
<1> QED
  BY <1>1, <1>2, SMT DEF HowMany

\* What the end of a send does to its batch's results.
LEMMA Gained ==
  ASSUME TypeOK, NEW b \in Batches, NEW r \in Results, Gains(b, r)
  PROVE  /\ \A d \in Batches \ {b} : results'[d] = results[d] /\ pc'[d] = pc[d]
         /\ results'[b] = Append(results[b], r) /\ pc'[b] = "next"
         /\ Len(results'[b]) = Len(results[b]) + 1
         /\ results' \in [Batches -> Seq(Results)]
         /\ \A S : HowMany(results'[b], S) =
                   IF r \in S THEN HowMany(results[b], S) + 1 ELSE HowMany(results[b], S)
<1>1. results[b] \in Seq(Results) /\ results \in [Batches -> Seq(Results)]
  BY DEF TypeOK
<1>2. /\ \A d \in Batches \ {b} : results'[d] = results[d] /\ pc'[d] = pc[d]
      /\ results'[b] = Append(results[b], r) /\ pc'[b] = "next"
  BY DEF Gains, Goto, TypeOK
<1>3. Append(results[b], r) \in Seq(Results) /\ Len(Append(results[b], r)) = Len(results[b]) + 1
  BY <1>1
<1>4. results' \in [Batches -> Seq(Results)]
  BY <1>1, <1>3 DEF Gains
<1>5. \A S : HowMany(Append(results[b], r), S) =
             IF r \in S THEN HowMany(results[b], S) + 1 ELSE HowMany(results[b], S)
  BY <1>1, HowManyAppend
<1> QED
  BY <1>2, <1>3, <1>4, <1>5

-----------------------------------------------------------------------------
\* What is signed anew passes when it is captured again, but for the exceptions.
LEMMA ResignedPasses ==
  ASSUME NEW verdict \in Verdicts
  PROVE  verdict \notin {"FAIL", "SKIPPED"}
<1>1. PICK r \in Requests, provider \in Hints, secret \in Secrets \union {NoSecret},
           body \in Bodies : verdict = Resigned(r, provider, secret, body)
  BY DEF Verdicts
<1>2. PICK h \in Captured :
        r \in [headers : {h}, verifiedBy : {""} \union {VerifiedBy(hint, h) : hint \in Hints}]
  BY DEF Requests
<1>3. PICK hint \in Hints : r.verifiedBy = "" \/ r.verifiedBy = VerifiedBy(hint, h)
  <2>1. "" \in Hints
    BY DEF Hints
  <2> QED
    BY <1>2, <2>1
<1>4. r.headers = h
  BY <1>2
<1> DEFINE p == Effective(r.verifiedBy, provider)
           recorded == IF r.verifiedBy = "" THEN provider ELSE r.verifiedBy
           sent == Stripped(Merged(Refresh(p, secret, h, body), h))
<1>5. SUFFICES ASSUME CanRefresh(p, secret, h), ~Excepted(p, h)
               PROVE  Status(secret, recorded, sent, body) = "PASS"
  BY <1>1, <1>4 DEF Resigned
<1>6. p \in Providers
  BY <1>5 DEF CanRefresh
<1>7. Detect(p, sent) /\ Passes(p, secret, sent, body)
  BY <1>5, <1>6, RefreshedPasses
<1>8. VerifiedBy(recorded, sent) = p
  <2>1. CASE r.verifiedBy = "generic"
    <3>1. Found(h) = {}
      BY <1>3, <2>1, GenericFoundNothing
    <3>2. p = provider /\ recorded = "generic"
      BY <2>1 DEF Effective
    <3> HIDE DEF p, recorded
    <3>3. VerifiedBy("generic", sent) = p
      BY <1>6, <1>7, <3>1, GenericKept
    <3> QED
      BY <3>2, <3>3
  <2>2. CASE r.verifiedBy # "generic"
    <3>1. recorded = p
      BY <2>2 DEF Effective
    <3> QED
      BY <1>6, <3>1 DEF VerifiedBy
  <2> QED
    BY <2>1, <2>2
<1>9. p # "generic"
  BY <1>6 DEF Providers
<1> HIDE DEF p, recorded, sent
<1> QED
  BY <1>7, <1>8, <1>9 DEF Status

-----------------------------------------------------------------------------
\* Steps that leave rows and results alone: a batch stays where it is, or moves
\* on elsewhere than between the two, or dies between them.
LEMMA RowsStay ==
  ASSUME Inv, UNCHANGED <<stored, rows, results, lost>>,
         \A d \in Batches :
           \/ pc'[d] = pc[d] /\ reply'[d] = reply[d] /\ outcome'[d] = outcome[d]
           \/ pc[d] \notin {"return", "done"} /\ pc'[d] # "return"
           \/ pc'[d] = "done" /\ reply'[d] = reply[d] /\ outcome'[d] = outcome[d]
  PROVE  HistoryAgrees' /\ RowsInv'
<1>1. \A d \in Batches : pc[d] = "return" => reply[d] = "none"
  BY DEF Inv, StageInv
<1> QED
  BY <1>1 DEF Inv, HistoryAgrees, RowsInv

\* A batch begins.
LEMMA BeginInv ==
  ASSUME Inv, NEW b \in Batches, BeginAPI(b) \/ BeginCommand(b)
  PROVE  Inv'
<1> USE DEF Inv, At, Goto, batch, history
<1>0. PICK k \in {"api", "command"}, n \in Nat, label \in {"exists", "next"} :
        /\ Begin(b, k, n, label)
        /\ label = "next" => n \in 1 .. MaxTimes
  BY DEF BeginAPI, BeginCommand
<1> USE <1>0 DEF Begin
<1>1. TypeOK'
  <2>1. (times \in [Batches -> Nat])' /\ (kind \in [Batches -> {"api", "command"}])'
    BY DEF TypeOK
  <2>2. (pc \in [Batches -> Labels])'
    BY DEF TypeOK, Labels
  <2> QED
    BY <2>1, <2>2 DEF TypeOK
<1>2. StageInv'
  <2>1. \A d \in Batches \ {b} : pc'[d] = pc[d] /\ times'[d] = times[d]
    BY DEF TypeOK
  <2>2. /\ pc'[b] = label /\ times'[b] = n
        /\ results[b] = <<>> /\ wire[b] = 0 /\ reply[b] = "none"
    BY DEF TypeOK, StageInv
  <2>3. Len(<<>>) = 0
    BY SMT
  <2> QED
    BY <2>1, <2>2, <2>3 DEF StageInv, Sending
<1>3. ResultsComplete'
  <2>1. times'[b] = n /\ \A d \in Batches \ {b} : times'[d] = times[d]
    BY DEF TypeOK
  <2>2. reply' = reply /\ reply[b] = "none"
    BY DEF StageInv
  <2> QED
    BY <2>1, <2>2 DEF ResultsComplete, Last
<1>4. WireInv'
  BY DEF TypeOK, StageInv, WireInv, Statuses, Exchanges
<1>5. HistoryAgrees' /\ RowsInv'
  BY RowsStay DEF TypeOK, StageInv
<1>6. LateInv'
  BY DEF TypeOK, LateInv
<1>7. StrayInv'
  BY DEF TypeOK, StrayInv
<1>8. ExitTells'
  BY DEF TypeOK, StageInv, ExitTells
<1>9. ResignVerifies'
  BY DEF ResignVerifies
<1> QED
  BY <1>1, <1>2, <1>3, <1>4, <1>5, <1>6, <1>7, <1>8, <1>9

\* The number of sends is checked.
LEMMA ExistsInv ==
  ASSUME Inv, NEW b \in Batches, Exists(b)
  PROVE  Inv'
<1> USE DEF Inv, At, Goto, batch, history, Answer, Exists, WithinCap, Clamped
<1>1. TypeOK'
  <2>1. (times \in [Batches -> Nat])'
    BY DEF TypeOK
  <2>2. (pc \in [Batches -> Labels])'
    <3>1. pc' \in {[pc EXCEPT ![b] = "done"], [pc EXCEPT ![b] = "next"]}
      OBVIOUS
    <3>2. \A label \in {"done", "next"} : [pc EXCEPT ![b] = label] \in [Batches -> Labels]
      BY DEF TypeOK, Labels
    <3> QED
      BY <3>1, <3>2
  <2>3. (reply \in [Batches -> Replies])'
    BY DEF TypeOK, Replies
  <2> QED
    BY <2>1, <2>2, <2>3 DEF TypeOK
<1>2. StageInv'
  BY DEF TypeOK, StageInv, Sending
<1>3. ResultsComplete'
  <2>1. \A d \in Batches \ {b} : times'[d] = times[d] /\ reply'[d] = reply[d]
    BY DEF TypeOK
  <2>2. reply'[b] \in {"none", "404", "500"} /\ wire[b] = 0
    BY DEF TypeOK, StageInv
  <2> QED
    BY <2>1, <2>2 DEF ResultsComplete, Last
<1>4. WireInv'
  BY DEF TypeOK, StageInv, WireInv, Statuses, Exchanges
<1>5. HistoryAgrees' /\ RowsInv'
  BY RowsStay DEF TypeOK, StageInv
<1>6. LateInv'
  BY DEF TypeOK, LateInv
<1>7. StrayInv'
  BY DEF TypeOK, StrayInv
<1>8. ExitTells'
  BY DEF TypeOK, StageInv, ExitTells
<1>9. ResignVerifies'
  BY DEF ResignVerifies
<1> QED
  BY <1>1, <1>2, <1>3, <1>4, <1>5, <1>6, <1>7, <1>8, <1>9

\* A step that leaves results and exchanges alone, and either is none of those
\* around an exchange or ends the batch without an answer.
LEMMA WireStays ==
  ASSUME WireInv, NEW b \in Batches, UNCHANGED <<results, wire, outcome>>,
         \A c \in Batches \ {b} : pc'[c] = pc[c] /\ reply'[c] = reply[c],
         \/ pc[b] \notin {"await", "record", "return", "done"}
         \/ pc'[b] = "done" /\ reply'[b] = "none",
         pc'[b] \notin {"await", "record", "return"}
  PROVE  WireInv'
<1>1. \A c \in Batches : Statuses(c)' = Statuses(c) /\ Exchanges(c)' = Exchanges(c)
  BY DEF Statuses, Exchanges
<1> QED
  BY <1>1 DEF WireInv

\* Steps that only move on or answer.
LEMMA LabelInv ==
  ASSUME Inv, NEW b \in Batches, 
         Usage(b) \/ Reject(b) \/ Wake(b) \/ Cancel(b) \/ Poll(b) \/ Die(b)
  PROVE  Inv'
<1> USE DEF Inv, At, Goto, batch, history, Answer, Usage, Reject, Wake, Cancel, Poll, Die, InProgress
<1>1. TypeOK'
  BY DEF TypeOK, Labels, Replies, Results, Recorded, Answered
<1>2. StageInv'
  BY DEF TypeOK, StageInv, Sending
<1>3. ResultsComplete'
  BY DEF TypeOK, StageInv, Sending, ResultsComplete, Last
<1>4. WireInv'
  <2>1. /\ UNCHANGED <<results, wire, outcome>>
        /\ \A c \in Batches \ {b} : pc'[c] = pc[c] /\ reply'[c] = reply[c]
    BY DEF TypeOK
  <2>2. \/ pc[b] \notin {"await", "record", "return", "done"}
        \/ pc'[b] = "done" /\ reply'[b] = "none"
    BY DEF TypeOK, StageInv
  <2>3. pc'[b] \notin {"await", "record", "return"}
    BY DEF TypeOK
  <2> QED
    BY <2>1, <2>2, <2>3, WireStays
<1>5. HistoryAgrees' /\ RowsInv'
  BY RowsStay DEF TypeOK, StageInv
<1>6. LateInv'
  BY DEF TypeOK, LateInv
<1>7. StrayInv'
  BY DEF TypeOK, StrayInv
<1>8. ExitTells'
  BY DEF TypeOK, StageInv, ExitTells
<1>9. ResignVerifies'
  BY DEF ResignVerifies
<1> QED
  BY <1>1, <1>2, <1>3, <1>4, <1>5, <1>6, <1>7, <1>8, <1>9

\* The head of the loop: a delay, the next send, or the answer.
LEMMA NextSendInv ==
  ASSUME Inv, NEW b \in Batches, NextSend(b)
  PROVE  Inv'
<1> USE DEF Inv, At, Goto, batch, history
<1>0. PICK label \in {"sleep", "poll", "done"}, code \in Replies :
        /\ At(b, "next")
        /\ pc' = [pc EXCEPT ![b] = label]
        /\ reply' = [reply EXCEPT ![b] = code]
        /\ \/ label # "done" /\ ~Last(b) /\ code = "none"
           \/ label = "done" /\ Last(b) /\ code = "single" /\ times[b] = 1
           \/ label = "done" /\ Last(b) /\ code = "list"
           \/ label = "done" /\ Last(b) /\ code \in {"exit0", "exit1"} /\ Exits(b, code)
        /\ UNCHANGED <<stored, rows, batch, outcome, results, history>>
  <2>1. reply = [reply EXCEPT ![b] = "none"] \/ pc[b] # "next"
    BY DEF TypeOK, StageInv
  <2>2. CASE ~Last(b)
    BY <2>1, <2>2 DEF NextSend, Replies
  <2>3. CASE Last(b) /\ kind[b] = "api"
    BY <2>3 DEF NextSend, Answer, Replies
  <2>4. CASE Last(b) /\ kind[b] = "command"
    BY <2>4 DEF NextSend, Answer, Replies
  <2> QED
    BY <2>2, <2>3, <2>4 DEF NextSend
<1> USE <1>0
<1>1. TypeOK'
  BY DEF TypeOK, Labels
<1>2. StageInv'
  BY DEF TypeOK, StageInv, Sending, Last
<1>3. ResultsComplete'
  <2>1. /\ \A d \in Batches \ {b} : reply'[d] = reply[d]
        /\ reply'[b] = code /\ times[b] \in 1 .. MaxTimes
    BY DEF TypeOK, StageInv
  <2> QED
    BY <2>1 DEF ResultsComplete, Last
<1>4. WireInv'
  BY DEF TypeOK, StageInv, WireInv, Statuses, Exchanges
<1>5. HistoryAgrees' /\ RowsInv'
  BY RowsStay DEF TypeOK, StageInv
<1>6. LateInv'
  BY DEF TypeOK, LateInv
<1>7. StrayInv'
  BY DEF TypeOK, StrayInv
<1>8. ExitTells'
  <2>1. /\ \A d \in Batches \ {b} : reply'[d] = reply[d]
        /\ reply'[b] = code
    BY DEF TypeOK
  <2>2. code = "exit0" => Only(results[b], Answered)
    BY DEF Exits, Only
  <2>3. code = "exit1" => ~Only(results[b], {"accepted"})
    BY DEF Exits, Only, Answered
  <2> QED
    BY <2>1, <2>2, <2>3 DEF ExitTells
<1>9. ResignVerifies'
  BY DEF ResignVerifies
<1> QED
  BY <1>1, <1>2, <1>3, <1>4, <1>5, <1>6, <1>7, <1>8, <1>9

\* batchCtx is done.
LEMMA EndInv ==
  ASSUME Inv, NEW b \in Batches, Expire(b) \/ Mute(b)
  PROVE  Inv'
<1> USE DEF Inv, At, Goto, batch, history, Expire, Mute, InProgress
<1>1. TypeOK'
  BY DEF TypeOK, Labels, Replies, Results, Recorded, Answered
<1>2. StageInv'
  BY DEF TypeOK, StageInv, Sending
<1>3. ResultsComplete'
  <2>1. \A d \in Batches : ended[d] => ended'[d]
    BY DEF TypeOK
  <2> QED
    BY <2>1 DEF ResultsComplete, Last
<1>4. WireInv'
  BY DEF TypeOK, StageInv, WireInv, Statuses, Exchanges
<1>5. HistoryAgrees' /\ RowsInv'
  BY RowsStay DEF TypeOK, StageInv
<1>6. LateInv'
  BY DEF TypeOK, LateInv
<1>7. StrayInv'
  BY DEF TypeOK, StrayInv
<1>8. ExitTells'
  BY DEF TypeOK, StageInv, ExitTells
<1>9. ResignVerifies'
  BY DEF ResignVerifies
<1> QED
  BY <1>1, <1>2, <1>3, <1>4, <1>5, <1>6, <1>7, <1>8, <1>9

\* The SELECT and the checks before the wire.
LEMMA LoadInv ==
  ASSUME Inv, NEW b \in Batches, Load(b)
  PROVE  Inv'
<1> USE DEF Inv, At, Goto, batch, history
<1>0. PICK label \in {"send", "record"}, what \in Results :
        /\ At(b, "load") /\ stored
        /\ pc' = [pc EXCEPT ![b] = label]
        /\ outcome' = [outcome EXCEPT ![b] = what]
        /\ label = "record" => what \in {"blocked", "unsigned"}
        /\ UNCHANGED <<stored, rows, batch, results, reply, history>>
  <2>1. outcome = [outcome EXCEPT ![b] = outcome[b]] /\ outcome[b] \in Results
    BY DEF TypeOK
  <2>2. stale' = stale
    BY ResignedPasses DEF Load
  <2>3. CASE Blocked(target[b])
    BY <2>2, <2>3 DEF Load, Becomes, Results
  <2>4. CASE ~Blocked(target[b]) /\ Goto(b, "send") /\ UNCHANGED outcome
    BY <2>1, <2>2, <2>4 DEF Load
  <2>5. CASE ~Blocked(target[b]) /\ Becomes(b, "unsigned")
    BY <2>2, <2>5 DEF Load, Becomes, Results
  <2> QED
    BY <2>3, <2>4, <2>5 DEF Load
<1> USE <1>0
<1>1. TypeOK'
  BY DEF TypeOK, Labels
<1>2. StageInv'
  BY DEF TypeOK, StageInv, Sending
<1>3. ResultsComplete'
  BY DEF TypeOK, StageInv, Sending, ResultsComplete, Last
<1>4. WireInv'
  <2>1. /\ \A d \in Batches \ {b} : pc'[d] = pc[d] /\ outcome'[d] = outcome[d]
        /\ pc[b] = "load" /\ pc'[b] = label /\ outcome'[b] = what
    BY DEF TypeOK
  <2>2. what \in {"blocked", "unsigned"} => what \notin Answered \union {"error"}
    BY DEF Answered
  <2>3. \A d \in Batches : Statuses(d)' = Statuses(d) /\ Exchanges(d)' = Exchanges(d)
    BY DEF Statuses, Exchanges
  <2> QED
    BY <2>1, <2>2, <2>3 DEF WireInv
<1>5. HistoryAgrees' /\ RowsInv'
  BY RowsStay DEF TypeOK, StageInv
<1>6. LateInv'
  BY DEF TypeOK, LateInv
<1>7. StrayInv'
  BY DEF TypeOK, StrayInv
<1>8. ExitTells'
  BY DEF TypeOK, StageInv, ExitTells
<1>9. ResignVerifies'
  BY DEF ResignVerifies
<1> QED
  BY <1>1, <1>2, <1>3, <1>4, <1>5, <1>6, <1>7, <1>8, <1>9

\* An exchange begins.
LEMMA SendInv ==
  ASSUME Inv, NEW b \in Batches, Send(b)
  PROVE  Inv'
<1> USE DEF Inv, At, Goto, batch, history, Count, Send
<1>1. TypeOK'
  <2>1. (wire \in [Batches -> Nat])'
    BY DEF TypeOK
  <2>2. (late \in [Batches -> Nat])'
    BY DEF TypeOK
  <2>3. (stray \in [Batches -> Nat])'
    BY DEF TypeOK
  <2>4. (pc \in [Batches -> Labels])'
    BY DEF TypeOK, Labels
  <2> QED
    BY <2>1, <2>2, <2>3, <2>4 DEF TypeOK
<1>2. StageInv'
  BY DEF TypeOK, StageInv, Sending
<1>3. ResultsComplete'
  BY DEF TypeOK, StageInv, Sending, ResultsComplete, Last
<1>4. WireInv'
  <2>1. /\ \A d \in Batches \ {b} : pc'[d] = pc[d] /\ wire'[d] = wire[d]
        /\ pc[b] = "send" /\ pc'[b] = "await" /\ wire'[b] = wire[b] + 1 /\ wire[b] \in Nat
        /\ reply[b] = "none" /\ reply' = reply
    BY DEF TypeOK, StageInv
  <2>2. \A d \in Batches : Statuses(d)' = Statuses(d) /\ Exchanges(d)' = Exchanges(d)
    BY DEF Statuses, Exchanges
  <2>3. Statuses(b) \in Nat /\ Exchanges(b) \in Nat
    BY CountsNat DEF Statuses, Exchanges
  <2>4. Statuses(b) <= wire[b] /\ wire[b] <= Exchanges(b)
    BY <2>1 DEF WireInv
  <2> QED
    BY <2>1, <2>2, <2>3, <2>4 DEF WireInv
<1>5. HistoryAgrees' /\ RowsInv'
  BY RowsStay DEF TypeOK, StageInv
<1>6. LateInv'
  BY DEF TypeOK, LateInv
<1>7. StrayInv'
  BY DEF TypeOK, StrayInv
<1>8. ExitTells'
  BY DEF TypeOK, StageInv, ExitTells
<1>9. ResignVerifies'
  BY DEF ResignVerifies
<1> QED
  BY <1>1, <1>2, <1>3, <1>4, <1>5, <1>6, <1>7, <1>8, <1>9

\* The connection is refused, or the exchange has its outcome.
LEMMA OutcomeInv ==
  ASSUME Inv, NEW b \in Batches, SendFails(b) \/ Await(b)
  PROVE  Inv'
<1> USE DEF Inv, At, Goto, batch, history
<1>0. PICK what \in Answered \union {"error"} :
        /\ pc[b] = "await" \/ (pc[b] = "send" /\ what = "error")
        /\ Becomes(b, what)
        /\ UNCHANGED <<stored, rows, batch, results, reply, history>>
  BY DEF SendFails, Await
<1> USE <1>0 DEF Becomes
<1>1. TypeOK'
  <2>1. what \in Results
    BY DEF Answered, Results
  <2> QED
    BY <2>1 DEF TypeOK, Labels
<1>2. StageInv'
  <2>1. what # "missing"
    BY DEF Answered
  <2> QED
    BY <2>1 DEF TypeOK, StageInv, Sending
<1>3. ResultsComplete'
  BY DEF TypeOK, StageInv, Sending, ResultsComplete, Last
<1>4. WireInv'
  <2>1. /\ \A d \in Batches \ {b} : pc'[d] = pc[d] /\ outcome'[d] = outcome[d]
        /\ pc'[b] = "record" /\ outcome'[b] = what
        /\ reply[b] = "none" /\ reply' = reply /\ wire' = wire
    BY DEF TypeOK, StageInv
  <2>2. \A d \in Batches : Statuses(d)' = Statuses(d) /\ Exchanges(d)' = Exchanges(d)
    BY DEF Statuses, Exchanges
  <2>3. Statuses(b) \in Nat /\ Exchanges(b) \in Nat /\ wire[b] \in Nat
    BY CountsNat DEF Statuses, Exchanges, TypeOK
  <2>4. "error" \notin Answered
    BY DEF Answered
  <2>5. /\ pc[b] = "await" => Statuses(b) + 1 <= wire[b] /\ wire[b] <= Exchanges(b) + 1
        /\ pc[b] = "send" => Statuses(b) <= wire[b] /\ wire[b] <= Exchanges(b)
    BY DEF WireInv
  <2>6. /\ what \in Answered => Statuses(b) + 1 <= wire[b] /\ wire[b] <= Exchanges(b) + 1
        /\ what = "error" => Statuses(b) <= wire[b] /\ wire[b] <= Exchanges(b) + 1
    BY <2>3, <2>4, <2>5
  <2> QED
    BY <2>1, <2>2, <2>4, <2>6 DEF WireInv
<1>5. HistoryAgrees' /\ RowsInv'
  BY RowsStay DEF TypeOK, StageInv
<1>6. LateInv'
  BY DEF TypeOK, LateInv
<1>7. StrayInv'
  BY DEF TypeOK, StrayInv
<1>8. ExitTells'
  BY DEF TypeOK, StageInv, ExitTells
<1>9. ResignVerifies'
  BY DEF ResignVerifies
<1> QED
  BY <1>1, <1>2, <1>3, <1>4, <1>5, <1>6, <1>7, <1>8, <1>9

\* The request is deleted.
LEMMA DeleteInv ==
  ASSUME Inv, Delete
  PROVE  Inv'
<1> USE DEF Inv, batch, history, Delete
<1>1. TypeOK'
  <2>1. (rows \in [Batches -> Seq(Recorded)])'
    <3>1. <<>> \in Seq(Recorded)
      OBVIOUS
    <3> QED
      BY <3>1
  <2> QED
    BY <2>1 DEF TypeOK
<1>2. StageInv'
  BY DEF TypeOK, StageInv, Sending
<1>3. ResultsComplete'
  BY DEF TypeOK, StageInv, Sending, ResultsComplete, Last
<1>4. WireInv'
  BY DEF TypeOK, StageInv, WireInv, Statuses, Exchanges
<1>5. HistoryAgrees' /\ RowsInv'
  BY DEF HistoryAgrees, RowsInv
<1>6. LateInv'
  BY DEF TypeOK, LateInv
<1>7. StrayInv'
  BY DEF TypeOK, StrayInv
<1>8. ExitTells'
  BY DEF TypeOK, StageInv, ExitTells
<1>9. ResignVerifies'
  BY DEF ResignVerifies
<1> QED
  BY <1>1, <1>2, <1>3, <1>4, <1>5, <1>6, <1>7, <1>8, <1>9

\* A send ends without a record.
LEMMA LoadFailsInv ==
  ASSUME Inv, NEW b \in Batches, LoadFails(b)
  PROVE  Inv'
<1> USE DEF Inv, At, Goto, batch, history, Gains, LoadFails
<1>a. "missing" \in Results /\ "missing" \notin Answered \union {"error"}
      /\ "missing" \notin Recorded
  BY DEF Results, Answered, Recorded
<1>b. /\ \A d \in Batches \ {b} : results'[d] = results[d] /\ pc'[d] = pc[d]
      /\ results'[b] = Append(results[b], "missing") /\ pc'[b] = "next"
      /\ Len(results'[b]) = Len(results[b]) + 1
      /\ results' \in [Batches -> Seq(Results)]
      /\ \A S : HowMany(results'[b], S) =
                 IF "missing" \in S THEN HowMany(results[b], S) + 1 ELSE HowMany(results[b], S)
  BY <1>a, Gained
<1>1. TypeOK'
  <2>1. results' \in [Batches -> Seq(Results)]
    BY <1>b
  <2>2. /\ times[b] \in 1 .. MaxTimes /\ Len(results[b]) < times[b]
        /\ Len(results[b]) \in Nat
    BY DEF TypeOK, StageInv, Sending
  <2>3. \A d \in Batches : Len(results'[d]) <= MaxTimes
    BY <1>b, <2>2 DEF TypeOK
  <2>4. pc' \in [Batches -> Labels]
    BY DEF TypeOK, Labels
  <2> QED
    BY <2>1, <2>3, <2>4 DEF TypeOK
<1>2. StageInv'
  <2>1. \A d \in Batches : times'[d] = times[d] /\ wire'[d] = wire[d] /\ reply'[d] = reply[d]
    OBVIOUS
  <2>2. /\ times[b] \in 1 .. MaxTimes /\ Len(results[b]) < times[b] /\ reply[b] = "none"
        /\ Len(results[b]) \in Nat
    BY DEF TypeOK, StageInv, Sending
  <2>3. Len(results'[b]) <= times[b]
    BY <1>b, <2>2
  <2> QED
    BY <1>b, <2>1, <2>2, <2>3 DEF StageInv, Sending
<1>3. ResultsComplete'
  <2>1. \A d \in Batches \ {b} : results'[d] = results[d]
    BY <1>b
  <2>2. reply[b] = "none"
    BY DEF StageInv
  <2> QED
    BY <2>1, <2>2 DEF ResultsComplete, Last
<1>4. WireInv'
  <2>1. \A d \in Batches \ {b} : Statuses(d)' = Statuses(d) /\ Exchanges(d)' = Exchanges(d)
    BY <1>b DEF Statuses, Exchanges
  <2>2. Statuses(b)' = Statuses(b) /\ Exchanges(b)' = Exchanges(b)
    BY <1>b, <1>a DEF Statuses, Exchanges
  <2>3. pc[b] = "load" /\ reply' = reply /\ wire' = wire /\ outcome' = outcome
    OBVIOUS
  <2> QED
    BY <1>b, <2>1, <2>2, <2>3 DEF WireInv
<1>5. HistoryAgrees' /\ RowsInv'
  <2>1. HowMany(results'[b], Recorded) = HowMany(results[b], Recorded)
    BY <1>b, <1>a
  <2>2. ASSUME stored, b \notin lost, NEW i \in 1 .. Len(results'[b]), results'[b][i] \in Recorded
        PROVE  rows[b][Rank(results'[b], Recorded, i)] = results'[b][i]
    <3>1. results[b] \in Seq(Results) /\ Len(results[b]) \in Nat
      BY DEF TypeOK
    <3>2. i \in 1 .. Len(results[b]) /\ results'[b][i] = results[b][i]
      BY <1>b, <1>a, <2>2, <3>1
    <3>3. Rank(results'[b], Recorded, i) = Rank(results[b], Recorded, i)
      BY <1>b, <1>a, <3>1, <3>2, RankPrefix
    <3> QED
      BY <2>2, <3>2, <3>3 DEF HistoryAgrees
  <2>3. stored /\ b \notin lost => Len(rows[b]) = HowMany(results[b], Recorded)
    BY DEF RowsInv
  <2> QED
    BY <1>b, <2>1, <2>2, <2>3 DEF HistoryAgrees, RowsInv
<1>6. LateInv'
  BY DEF TypeOK, LateInv
<1>7. StrayInv'
  BY DEF TypeOK, StrayInv
<1>8. ExitTells'
  <2>1. \A d \in Batches \ {b} : results'[d] = results[d]
    BY <1>b
  <2>2. reply[b] = "none"
    BY DEF StageInv
  <2> QED
    BY <2>1, <2>2 DEF ExitTells, Only
<1>9. ResignVerifies'
  BY DEF ResignVerifies
<1> QED
  BY <1>1, <1>2, <1>3, <1>4, <1>5, <1>6, <1>7, <1>8, <1>9

\* What came of a send is recorded.
LEMMA RecordInv ==
  ASSUME Inv, NEW b \in Batches, Record(b)
  PROVE  Inv'
<1> USE DEF Inv, At, Goto, batch, history, Record
<1>a. outcome[b] \in Recorded /\ reply[b] = "none"
  BY DEF TypeOK, StageInv, Recorded
<1>c. /\ rows[b] \in Seq(Recorded) /\ Len(rows[b]) \in Nat /\ results[b] \in Seq(Results)
      /\ HowMany(results[b], Recorded) \in Nat
  BY CountsNat DEF TypeOK
<1>1. TypeOK'
  <2>1. rows' \in [Batches -> Seq(Recorded)]
    <3>1. rows \in [Batches -> Seq(Recorded)] /\ Append(rows[b], outcome[b]) \in Seq(Recorded)
      BY <1>a, <1>c DEF TypeOK
    <3>2. rows' \in {rows, [rows EXCEPT ![b] = Append(rows[b], outcome[b])]}
      OBVIOUS
    <3> QED
      BY <3>1, <3>2
  <2>2. lost' \subseteq Batches /\ pc' \in [Batches -> Labels]
    BY DEF TypeOK, Labels
  <2> QED
    BY <2>1, <2>2 DEF TypeOK
<1>2. StageInv'
  BY DEF TypeOK, StageInv, Sending
<1>3. ResultsComplete'
  BY DEF TypeOK, StageInv, Sending, ResultsComplete, Last
<1>4. WireInv'
  <2>1. /\ \A d \in Batches \ {b} : pc'[d] = pc[d]
        /\ pc[b] = "record" /\ pc'[b] = "return"
    BY DEF TypeOK
  <2>2. \A d \in Batches : Statuses(d)' = Statuses(d) /\ Exchanges(d)' = Exchanges(d)
    BY DEF Statuses, Exchanges
  <2> QED
    BY <1>a, <2>1, <2>2 DEF WireInv
<1>5. HistoryAgrees' /\ RowsInv'
  <2>1. \A d \in Batches \ {b} :
          rows'[d] = rows[d] /\ pc'[d] = pc[d] /\ (d \notin lost' => d \notin lost)
    BY DEF TypeOK
  <2> DEFINE told == HowMany(results[b], Recorded)
  <2>2. ASSUME stored, b \notin lost'
        PROVE  /\ Len(rows'[b]) = told + 1 /\ rows'[b][told + 1] = outcome[b]
               /\ \A i \in 1 .. Len(results[b]) : results[b][i] \in Recorded =>
                    rows'[b][Rank(results[b], Recorded, i)] = results[b][i]
    <3>1. rows'[b] = Append(rows[b], outcome[b]) /\ b \notin lost
      BY <2>2 DEF TypeOK
    <3>2. Len(rows[b]) = told
      BY <2>2, <3>1 DEF RowsInv
    <3>3. ASSUME NEW i \in 1 .. Len(results[b]), results[b][i] \in Recorded
          PROVE  rows'[b][Rank(results[b], Recorded, i)] = results[b][i]
      <4>1. Rank(results[b], Recorded, i) \in 1 .. Len(rows[b])
        BY <1>c, <3>2, <3>3, RankBounds
      <4>2. rows[b][Rank(results[b], Recorded, i)] = results[b][i]
        BY <2>2, <3>1, <3>3 DEF HistoryAgrees
      <4> QED
        BY <1>a, <1>c, <3>1, <4>1, <4>2
    <3>4. Len(rows'[b]) = Len(rows[b]) + 1 /\ rows'[b][Len(rows[b]) + 1] = outcome[b]
      BY <1>a, <1>c, <3>1
    <3> QED
      BY <3>2, <3>3, <3>4
  <2>3. pc'[b] = "return"
    BY DEF TypeOK
  <2> QED
    BY <1>a, <2>1, <2>2, <2>3 DEF HistoryAgrees, RowsInv
<1>6. LateInv'
  BY DEF TypeOK, LateInv
<1>7. StrayInv'
  BY DEF TypeOK, StrayInv
<1>8. ExitTells'
  BY DEF ExitTells
<1>9. ResignVerifies'
  BY DEF ResignVerifies
<1> QED
  BY <1>1, <1>2, <1>3, <1>4, <1>5, <1>6, <1>7, <1>8, <1>9

\* A recorded send is over.
LEMMA ReturnInv ==
  ASSUME Inv, NEW b \in Batches, Return(b)
  PROVE  Inv'
<1> USE DEF Inv, At, Goto, batch, history, Gains, Return
<1>a. outcome[b] \in Results /\ outcome[b] \in Recorded
  BY DEF TypeOK, StageInv, Recorded
<1>b. /\ \A d \in Batches \ {b} : results'[d] = results[d] /\ pc'[d] = pc[d]
      /\ results'[b] = Append(results[b], outcome[b]) /\ pc'[b] = "next"
      /\ Len(results'[b]) = Len(results[b]) + 1
      /\ results' \in [Batches -> Seq(Results)]
      /\ \A S : HowMany(results'[b], S) =
                 IF outcome[b] \in S THEN HowMany(results[b], S) + 1 ELSE HowMany(results[b], S)
  BY <1>a, Gained
<1>c. /\ rows[b] \in Seq(Recorded) /\ Len(rows[b]) \in Nat
      /\ results[b] \in Seq(Results) /\ Len(results[b]) \in Nat
  BY DEF TypeOK
<1>1. TypeOK'
  <2>1. results' \in [Batches -> Seq(Results)]
    BY <1>b
  <2>2. /\ times[b] \in 1 .. MaxTimes /\ Len(results[b]) < times[b]
        /\ Len(results[b]) \in Nat
    BY DEF TypeOK, StageInv, Sending
  <2>3. \A d \in Batches : Len(results'[d]) <= MaxTimes
    BY <1>b, <2>2 DEF TypeOK
  <2>4. pc' \in [Batches -> Labels]
    BY DEF TypeOK, Labels
  <2> QED
    BY <2>1, <2>3, <2>4 DEF TypeOK
<1>2. StageInv'
  <2>1. \A d \in Batches : times'[d] = times[d] /\ wire'[d] = wire[d] /\ reply'[d] = reply[d]
    OBVIOUS
  <2>2. /\ times[b] \in 1 .. MaxTimes /\ Len(results[b]) < times[b] /\ reply[b] = "none"
        /\ Len(results[b]) \in Nat
    BY DEF TypeOK, StageInv, Sending
  <2>3. Len(results'[b]) <= times[b]
    BY <1>b, <2>2
  <2> QED
    BY <1>b, <2>1, <2>2, <2>3 DEF StageInv, Sending
<1>3. ResultsComplete'
  <2>1. \A d \in Batches \ {b} : results'[d] = results[d]
    BY <1>b
  <2>2. reply[b] = "none"
    BY DEF StageInv
  <2> QED
    BY <2>1, <2>2 DEF ResultsComplete, Last
<1>4. WireInv'
  <2>1. \A d \in Batches \ {b} : Statuses(d)' = Statuses(d) /\ Exchanges(d)' = Exchanges(d)
    BY <1>b DEF Statuses, Exchanges
  <2>2. /\ Statuses(b)' = IF outcome[b] \in Answered THEN Statuses(b) + 1 ELSE Statuses(b)
        /\ Exchanges(b)' = IF outcome[b] \in Answered \union {"error"} THEN Exchanges(b) + 1
                           ELSE Exchanges(b)
    BY <1>b DEF Statuses, Exchanges
  <2>3. pc[b] = "return" /\ reply' = reply /\ wire' = wire /\ outcome' = outcome
    OBVIOUS
  <2>4. Statuses(b) \in Nat /\ Exchanges(b) \in Nat /\ wire[b] \in Nat
    BY CountsNat DEF Statuses, Exchanges, TypeOK
  <2>5. Statuses(b)' <= wire[b] /\ wire[b] <= Exchanges(b)'
    <3>1. CASE outcome[b] \in Answered
      BY <2>2, <2>3, <2>4, <3>1 DEF WireInv
    <3>2. CASE outcome[b] \notin Answered /\ outcome[b] = "error"
      BY <2>2, <2>3, <2>4, <3>2 DEF WireInv
    <3>3. CASE outcome[b] \notin Answered \union {"error"}
      BY <2>2, <2>3, <2>4, <3>3 DEF WireInv
    <3> QED
      BY <3>1, <3>2, <3>3
  <2> QED
    BY <1>b, <2>1, <2>3, <2>5 DEF WireInv
<1>5. HistoryAgrees' /\ RowsInv'
  <2>0. SUFFICES ASSUME stored, b \notin lost
                 PROVE  /\ Len(rows[b]) = HowMany(results'[b], Recorded)
                        /\ \A i \in 1 .. Len(results'[b]) : results'[b][i] \in Recorded =>
                             rows[b][Rank(results'[b], Recorded, i)] = results'[b][i]
    <3>1. \A d \in Batches \ {b} : results'[d] = results[d] /\ pc'[d] = pc[d]
      BY <1>b
    <3>2. pc'[b] = "next" /\ UNCHANGED <<stored, lost, rows, reply, outcome>>
      BY <1>b
    <3> QED
      BY <3>1, <3>2 DEF HistoryAgrees, RowsInv
  <2>1. /\ HowMany(results'[b], Recorded) = HowMany(results[b], Recorded) + 1
        /\ Len(rows[b]) = HowMany(results[b], Recorded) + 1
        /\ rows[b][HowMany(results[b], Recorded) + 1] = outcome[b]
    BY <1>a, <1>b, <2>0 DEF RowsInv
  <2>2. ASSUME NEW i \in 1 .. Len(results[b]), results'[b][i] \in Recorded
        PROVE  rows[b][Rank(results'[b], Recorded, i)] = results'[b][i]
    <3>1. results'[b][i] = results[b][i]
      BY <1>b, <1>a, <1>c
    <3>2. Rank(results'[b], Recorded, i) = Rank(results[b], Recorded, i)
      BY <1>b, <1>a, <1>c, RankPrefix
    <3> QED
      BY <2>0, <2>2, <3>1, <3>2 DEF HistoryAgrees
  <2>3. rows[b][Rank(results'[b], Recorded, Len(results'[b]))] = results'[b][Len(results'[b])]
    <3>1. results'[b][Len(results'[b])] = outcome[b]
      BY <1>b, <1>a, <1>c
    <3> QED
      BY <2>1, <3>1 DEF HowMany
  <2>4. \A i \in 1 .. Len(results'[b]) : i \in 1 .. Len(results[b]) \/ i = Len(results'[b])
    BY <1>b, <1>c
  <2> QED
    BY <2>1, <2>2, <2>3, <2>4
<1>6. LateInv'
  BY DEF TypeOK, LateInv
<1>7. StrayInv'
  BY DEF TypeOK, StrayInv
<1>8. ExitTells'
  <2>1. \A d \in Batches \ {b} : results'[d] = results[d]
    BY <1>b
  <2>2. reply[b] = "none"
    BY DEF StageInv
  <2> QED
    BY <2>1, <2>2 DEF ExitTells, Only
<1>9. ResignVerifies'
  BY DEF ResignVerifies
<1> QED
  BY <1>1, <1>2, <1>3, <1>4, <1>5, <1>6, <1>7, <1>8, <1>9

\* Initially nothing was sent.
LEMMA InitInv == Init => Inv
<1> SUFFICES ASSUME Init PROVE Inv
  OBVIOUS
<1> USE DEF Init
<1>0. /\ \A S : HowMany(<<>>, S) = 0
      /\ Len(<<>>) = 0 /\ \A T : <<>> \in Seq(T)
  BY HowManyNone
<1>1. TypeOK
  <2>1. rows \in [Batches -> Seq(Recorded)] /\ results \in [Batches -> Seq(Results)]
    BY <1>0
  <2>2. outcome \in [Batches -> Results] /\ pc \in [Batches -> Labels] /\ reply \in [Batches -> Replies]
    BY DEF Results, Labels, Replies
  <2>3. times \in [Batches -> Nat] /\ kind \in [Batches -> {"api", "command"}]
    OBVIOUS
  <2>4. \A b \in Batches : Len(results[b]) <= MaxTimes
    BY <1>0
  <2>5. wire \in [Batches -> Nat] /\ late \in [Batches -> Nat] /\ stray \in [Batches -> Nat]
    OBVIOUS
  <2>6. ended \in [Batches -> BOOLEAN] /\ mute \in [Batches -> BOOLEAN]
    OBVIOUS
  <2> QED
    BY <2>1, <2>2, <2>3, <2>4, <2>5, <2>6 DEF TypeOK
<1>2. StageInv
  BY DEF StageInv, Sending
<1>3. ResultsComplete
  BY DEF ResultsComplete
<1>4. WireInv
  BY <1>0 DEF WireInv, Statuses, Exchanges
<1>5. HistoryAgrees /\ RowsInv
  BY <1>0 DEF HistoryAgrees, RowsInv
<1>6. LateInv /\ StrayInv
  BY DEF LateInv, StrayInv
<1>7. ExitTells /\ ResignVerifies
  BY DEF ExitTells, ResignVerifies
<1> QED
  BY <1>1, <1>2, <1>3, <1>4, <1>5, <1>6, <1>7 DEF Inv

\* Every step keeps the invariant.
LEMMA StepInv == Inv /\ [Next]_vars => Inv'
<1> SUFFICES ASSUME Inv, [Next]_vars PROVE Inv'
  OBVIOUS
<1>1. ASSUME NEW b \in Batches, BeginAPI(b) \/ BeginCommand(b) PROVE Inv'
  BY <1>1, BeginInv
<1>2. ASSUME NEW b \in Batches,
             Usage(b) \/ Reject(b) \/ Wake(b) \/ Cancel(b) \/ Poll(b) \/ Die(b)
      PROVE  Inv'
  BY <1>2, LabelInv
<1>3. ASSUME NEW b \in Batches, Exists(b) PROVE Inv'
  BY <1>3, ExistsInv
<1>4. ASSUME NEW b \in Batches, NextSend(b) PROVE Inv'
  BY <1>4, NextSendInv
<1>5. ASSUME NEW b \in Batches, Expire(b) \/ Mute(b) PROVE Inv'
  BY <1>5, EndInv
<1>6. ASSUME NEW b \in Batches, Load(b) PROVE Inv'
  BY <1>6, LoadInv
<1>7. ASSUME NEW b \in Batches, LoadFails(b) PROVE Inv'
  BY <1>7, LoadFailsInv
<1>8. ASSUME NEW b \in Batches, Send(b) PROVE Inv'
  BY <1>8, SendInv
<1>9. ASSUME NEW b \in Batches, SendFails(b) \/ Await(b) PROVE Inv'
  BY <1>9, OutcomeInv
<1>10. ASSUME NEW b \in Batches, Record(b) \/ Return(b) PROVE Inv'
  BY <1>10, RecordInv, ReturnInv
<1>11. CASE Delete
  BY <1>11, DeleteInv
<1>12. CASE UNCHANGED vars
  <2> USE <1>12 DEF vars, Inv
  <2>1. TypeOK' /\ StageInv' /\ ResultsComplete'
    BY DEF TypeOK, StageInv, ResultsComplete, Last
  <2>2. WireInv' /\ HistoryAgrees' /\ RowsInv'
    BY DEF WireInv, Statuses, Exchanges, HistoryAgrees, RowsInv
  <2>3. LateInv' /\ StrayInv' /\ ExitTells' /\ ResignVerifies'
    BY DEF LateInv, StrayInv, ExitTells, ResignVerifies
  <2> QED
    BY <2>1, <2>2, <2>3
<1> QED
  BY <1>1, <1>2, <1>3, <1>4, <1>5, <1>6, <1>7, <1>8, <1>9, <1>10, <1>11, <1>12 DEF Next, Step

\* Inv is an invariant.
LEMMA Invariance == Spec => []Inv
<1> QED
  BY InitInv, StepInv, PTL DEF Spec

-----------------------------------------------------------------------------
\* TypeOK: types, and never more than MaxTimes results.
THEOREM TypeCorrect == Spec => []TypeOK
<1>1. Inv => TypeOK
  BY DEF Inv
<1> QED
  BY <1>1, Invariance, PTL

\* ResultsComplete: the answer of api.replay and the exit code of the command
\* come with a result for every send; only what was cut off has fewer.
THEOREM ResultsAreComplete == Spec => []ResultsComplete
<1>1. Inv => ResultsComplete
  BY DEF Inv
<1> QED
  BY <1>1, Invariance, PTL

\* WireTold: what SendWithOptions returned counts the exchanges that began.
THEOREM WireIsTold == Spec => []WireTold
<1>1. Inv => WireTold
  <2> SUFFICES ASSUME Inv, NEW b \in Batches, reply[b] # "none"
               PROVE  /\ HowMany(results[b], Answered) <= wire[b]
                      /\ wire[b] <= HowMany(results[b], Answered \union {"error"})
    BY DEF WireTold
  <2> QED
    BY DEF Inv, WireInv, Statuses, Exchanges
<1> QED
  BY <1>1, Invariance, PTL

\* HistoryAgrees: the rows of replays are the results, in their order; a batch
\* killed between its INSERT and its result leaves one row more.
THEOREM HistoriesAgree == Spec => []HistoryAgrees
<1>1. Inv => HistoryAgrees
  BY DEF Inv
<1> QED
  BY <1>1, Invariance, PTL

\* AtMostOneLate: the check of batchCtx bounds what a deadline cannot stop.
THEOREM OneLate == Spec => []AtMostOneLate
<1>1. Inv => AtMostOneLate
  BY DEF Inv, LateInv, AtMostOneLate
<1> QED
  BY <1>1, Invariance, PTL

\* AtMostOneStray: the SELECT of every send bounds what a DELETE cannot stop.
THEOREM OneStray == Spec => []AtMostOneStray
<1>1. Inv => AtMostOneStray
  BY DEF Inv, StrayInv, AtMostOneStray
<1> QED
  BY <1>1, Invariance, PTL

\* ExitTells: the exit code of omnihook replay is about all of its sends.
THEOREM ExitCodesTell == Spec => []ExitTells
<1>1. Inv => ExitTells
  BY DEF Inv
<1> QED
  BY <1>1, Invariance, PTL

\* ResignVerifies: no batch signs in vain, for any captured headers but those
\* Excepted names.
THEOREM ResignsVerify == Spec => []ResignVerifies
<1>1. Inv => ResignVerifies
  BY DEF Inv
<1> QED
  BY <1>1, Invariance, PTL
=============================================================================
