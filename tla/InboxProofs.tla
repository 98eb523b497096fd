----------------------------- MODULE InboxProofs -----------------------------
(***************************************************************************)
(* NothingMissed and OlderComplete for any number of requests, endpoints   *)
(* and connections, any page and channel size, and any faults.             *)
(*                                                                         *)
(* While a refresh is in flight what is on the screen does not count: a    *)
(* capture is brought there by an event, by the next refresh, or by the    *)
(* answers in hand, each of which lists it or is still to be read.  An     *)
(* older page has every row that is owed from its cursor down to the next  *)
(* one, because such a row was in the table before the first click.        *)
(***************************************************************************)
EXTENDS Inbox, FiniteSetTheorems, TLAPS

USE InboxAssumption

\* A request that belongs on the first page.
First(r) == Cardinality({q \in used : q > r}) < Limit

\* Flags that go together, and the cursor of a page in hand.
RefreshInv ==
  /\ again => busy
  /\ asked # {} => busy
  /\ ~world.live => \A s \in Slugs : srv[s] = "none"
  /\ page.next # NoCursor => page.next = Min(page.rows)

\* What will show r once the refresh in flight is over.
InHand(r) ==
  /\ "page" \in asked \/ r \in page.rows
  /\ "eps" \in asked \/ SlugOf[r] \in eps

WakeInv ==
  \A r \in stored \ coming :
    srv[SlugOf[r]] = "live" /\ First(r) =>
      \/ chan[SlugOf[r]] > 0 \/ wire[SlugOf[r]] > 0
      \/ again
      \/ busy /\ InHand(r)
      \/ ~busy /\ (r \in view \/ failed)

\* Where the older pages stand.
PagesInv ==
  /\ \A r \in Reqs : older[r] \in {0, 1}
  /\ owed \subseteq stored
  /\ ~paging => bottom = next
  /\ load.at # "idle" /\ paging => load.cursor = next
  /\ load.at # "idle" /\ ~paging => \A r \in owed : r < load.cursor
  /\ paging => \A r \in owed : r >= next => older[r] = 1
  /\ load.at = "answered" =>
       \A r \in owed :
         (load.cursor = NoCursor \/ r < load.cursor) /\ r >= load.page.next
           => r \in load.page.rows

Inv == TypeOK /\ RefreshInv /\ WakeInv /\ PagesInv

-----------------------------------------------------------------------------
\* A set of natural numbers has a least element.
LEMMA MinFacts ==
  ASSUME NEW S \in SUBSET Nat, S # {}
  PROVE  Min(S) \in S /\ \A x \in S : Min(S) <= x
<1> DEFINE less == {pair \in Nat \X Nat : pair[1] < pair[2]}
<1>1. IsWellFoundedOn(less, Nat)
  BY NatLessThanWellFounded DEF OpToRel
<1>2. \A x, y \in Nat : y < x => <<y, x>> \in less
  OBVIOUS
<1> HIDE DEF less
<1>3. PICK x \in S : \A y \in S : ~(<<y, x>> \in less)
  BY <1>1, WFMin
<1>4. ASSUME NEW y \in S PROVE x <= y
  <2>1. x \in Nat /\ y \in Nat
    OBVIOUS
  <2>2. ~(y < x)
    BY <1>2, <1>3, <2>1
  <2> QED
    BY <2>1, <2>2
<1> QED
  BY <1>4 DEF Min

\* The requests above one of a set, and their number.
LEMMA AboveFacts ==
  ASSUME NEW R \in SUBSET Reqs, NEW r \in Reqs
  PROVE  /\ IsFiniteSet(R) /\ Cardinality(R) \in Nat
         /\ IsFiniteSet({q \in R : q > r}) /\ Cardinality({q \in R : q > r}) \in Nat
<1>1. IsFiniteSet(R)
  BY FS_Subset
<1>2. {q \in R : q > r} \in SUBSET R
  OBVIOUS
<1>3. IsFiniteSet({q \in R : q > r})
  BY <1>1, <1>2, FS_Subset
<1> QED
  BY <1>1, <1>3, FS_CardinalityType

\* In a larger set more are above, and more above a smaller one.
LEMMA AboveMonotone ==
  ASSUME NEW R \in SUBSET Reqs, NEW T \in SUBSET R, NEW r \in Reqs, NEW t \in Reqs, r <= t
  PROVE  Cardinality({q \in T : q > t}) <= Cardinality({q \in R : q > r})
<1>1. {q \in T : q > t} \in SUBSET {q \in R : q > r}
  <2>1. ASSUME NEW q \in T, q > t PROVE q \in R /\ q > r
    BY <2>1
  <2> QED
    BY <2>1
<1>2. IsFiniteSet({q \in R : q > r})
  BY AboveFacts
<1> QED
  BY <1>1, <1>2, FS_Subset

\* What belongs on the first page of a set belongs on that of a smaller one.
LEMMA FirstKept ==
  ASSUME NEW T \in SUBSET Reqs, NEW U \in SUBSET Reqs, T \subseteq U, NEW r \in Reqs,
         Cardinality({q \in U : q > r}) < Limit
  PROVE  Cardinality({q \in T : q > r}) < Limit
<1>1. Cardinality({q \in T : q > r}) <= Cardinality({q \in U : q > r})
  <2>1. r <= r /\ T \in SUBSET U
    OBVIOUS
  <2> QED
    BY <2>1, AboveMonotone
<1>2. /\ Cardinality({q \in T : q > r}) \in Nat /\ Cardinality({q \in U : q > r}) \in Nat
      /\ Limit \in Nat
  BY AboveFacts
<1> QED
  BY <1>1, <1>2

\* A stored request that belongs on the first page is on it.
LEMMA FirstListed ==
  ASSUME NEW T \in SUBSET Reqs, NEW U \in SUBSET Reqs, T \subseteq U, NEW r \in T,
         Cardinality({q \in U : q > r}) < Limit
  PROVE  r \in Newest(T, Limit)
BY FirstKept DEF Newest

\* Something is on a page of a table that has something: the greatest, for
\* the number of rows above another one is not the least.
LEMMA NewestNotEmpty ==
  ASSUME NEW R \in SUBSET Reqs, R # {}
  PROVE  Newest(R, Limit) # {}
<1> DEFINE above(r) == Cardinality({q \in R : q > r})
           counts == {above(r) : r \in R}
<1>1. \A r \in R : above(r) \in Nat
  BY AboveFacts
<1> HIDE DEF above
<1>2. counts \in SUBSET Nat /\ counts # {}
  BY <1>1
<1>3. Min(counts) \in counts /\ \A n \in counts : Min(counts) <= n
  BY <1>2, MinFacts
<1>4. PICK r \in R : \A q \in R : above(r) <= above(q)
  BY <1>3
<1> HIDE DEF counts
<1>5. ASSUME NEW q \in R, q > r PROVE FALSE
  <2>1. {t \in R : t > q} \in SUBSET {t \in R : t > r}
    <3>1. ASSUME NEW t \in R, t > q PROVE t > r
      BY <1>5, <3>1
    <3> QED
      BY <3>1
  <2>2. q \in {t \in R : t > r} /\ q \notin {t \in R : t > q}
    BY <1>5
  <2>3. IsFiniteSet({t \in R : t > r})
    BY AboveFacts
  <2>4. above(q) <= above(r) /\ above(q) # above(r)
    BY <2>1, <2>2, <2>3, FS_Subset DEF above
  <2> QED
    BY <1>1, <1>4, <1>5, <2>4
<1>6. {q \in R : q > r} = {}
  BY <1>5
<1>7. Cardinality({q \in R : q > r}) = 0
  BY <1>6, FS_EmptySet
<1> QED
  BY <1>7 DEF Newest

\* The cursor of a page is its last row.
LEMMA FollowingFacts ==
  ASSUME NEW R \in SUBSET Reqs
  PROVE  /\ Newest(R, Limit) \in SUBSET R
         /\ Following(R) \in Cursors
         /\ Following(R) # NoCursor => Following(R) = Min(Newest(R, Limit))
<1>1. Newest(R, Limit) \in SUBSET R
  BY DEF Newest
<1>2. CASE Cardinality(R) > Limit
  <2>1. R # {}
    BY <1>2, FS_EmptySet
  <2>2. Min(Newest(R, Limit)) \in Reqs
    BY <1>1, <2>1, NewestNotEmpty, MinFacts
  <2> QED
    BY <1>1, <1>2, <2>2 DEF Following, Cursors
<1>3. CASE ~(Cardinality(R) > Limit)
  BY <1>1, <1>3 DEF Following, Cursors
<1> QED
  BY <1>2, <1>3

\* A page leaves nothing out: whatever is not below its cursor is on it.
LEMMA PageComplete ==
  ASSUME NEW R \in SUBSET Reqs, NEW r \in R, r >= Following(R)
  PROVE  r \in Newest(R, Limit)
<1>1. Cardinality({q \in R : q > r}) \in Nat /\ Cardinality(R) \in Nat /\ Limit \in Nat
  BY AboveFacts
<1>2. CASE Cardinality(R) > Limit
  <2>1. R # {} /\ Following(R) = Min(Newest(R, Limit))
    BY <1>2 DEF Following
  <2>2. PICK m \in Newest(R, Limit) : m <= r
    BY <2>1, NewestNotEmpty, FollowingFacts, MinFacts
  <2>3. m \in R /\ Cardinality({q \in R : q > m}) < Limit
    BY <2>2 DEF Newest
  <2>4. Cardinality({q \in R : q > r}) <= Cardinality({q \in R : q > m})
    BY <2>2, <2>3, AboveMonotone
  <2>5. Cardinality({q \in R : q > m}) \in Nat
    BY <2>3, AboveFacts
  <2>6. Cardinality({q \in R : q > r}) < Limit
    BY <1>1, <2>3, <2>4, <2>5
  <2> QED
    BY <2>6 DEF Newest
<1>3. CASE ~(Cardinality(R) > Limit)
  <2>1. {q \in R : q > r} \in SUBSET R /\ r \notin {q \in R : q > r}
    OBVIOUS
  <2>2. Cardinality({q \in R : q > r}) < Cardinality(R)
    BY <2>1, FS_Subset, AboveFacts
  <2>3. Cardinality({q \in R : q > r}) < Limit
    BY <1>1, <1>3, <2>2
  <2> QED
    BY <2>3 DEF Newest
<1> QED
  BY <1>2, <1>3

\* A page that is read: rows of the table, all from its cursor on.
LEMMA PageFacts ==
  ASSUME TypeOK, NEW cursor \in Cursors
  PROVE  /\ Below(cursor) \in SUBSET stored
         /\ PageFrom(cursor) \in Page
         /\ PageFrom(cursor).next # NoCursor =>
              PageFrom(cursor).next = Min(PageFrom(cursor).rows)
         /\ \A r \in Below(cursor) : r >= PageFrom(cursor).next => r \in PageFrom(cursor).rows
         /\ \A r \in stored : cursor = NoCursor \/ r < cursor => r \in Below(cursor)
<1>1. Below(cursor) \in SUBSET stored /\ stored \in SUBSET Reqs
  BY DEF Below, TypeOK
<1>2. /\ PageFrom(cursor).rows = Newest(Below(cursor), Limit)
      /\ PageFrom(cursor).next = Following(Below(cursor))
      /\ PageFrom(cursor) = [rows |-> Newest(Below(cursor), Limit), next |-> Following(Below(cursor))]
  BY DEF PageFrom
<1>3. Below(cursor) \in SUBSET Reqs
  BY <1>1
<1>4. PageFrom(cursor) \in Page
  BY <1>2, <1>3, FollowingFacts DEF Page
<1>5. PageFrom(cursor).next # NoCursor => PageFrom(cursor).next = Min(PageFrom(cursor).rows)
  BY <1>2, <1>3, FollowingFacts
<1>6. \A r \in Below(cursor) : r >= PageFrom(cursor).next => r \in PageFrom(cursor).rows
  BY <1>2, <1>3, PageComplete
<1>7. \A r \in stored : cursor = NoCursor \/ r < cursor => r \in Below(cursor)
  BY DEF Below
<1> QED
  BY <1>1, <1>4, <1>5, <1>6, <1>7

\* Steps that have nothing to do with the older pages.
LEMMA PagesKept ==
  ASSUME PagesInv, stored' = stored, UNCHANGED pages
  PROVE  PagesInv'
BY DEF PagesInv, pages

-----------------------------------------------------------------------------
\* An endpoint is created.
LEMMA CreateInv ==
  ASSUME Inv, NEW s \in Slugs, Create(s)
  PROVE  Inv'
<1> USE DEF Inv, tables, stream, refreshing, answers, screen, pages, Create
<1>1. TypeOK'
  BY DEF TypeOK
<1>2. RefreshInv'
  BY DEF TypeOK, RefreshInv
<1>3. WakeInv'
  BY DEF TypeOK, RefreshInv, WakeInv, InHand, First
<1>4. PagesInv'
  BY DEF TypeOK, PagesInv
<1> QED
  BY <1>1, <1>2, <1>3, <1>4

\* A capture is stored; it belongs on the first page of nobody who was not told.
LEMMA CaptureInv ==
  ASSUME Inv, NEW r \in Reqs, Capture(r)
  PROVE  Inv'
<1> USE DEF Inv, tables, stream, refreshing, answers, screen, pages, Capture
<1>1. TypeOK'
  BY DEF TypeOK
<1>2. RefreshInv'
  BY DEF TypeOK, RefreshInv
<1>3. WakeInv'
  <2>1. \A q \in stored : First(q)' => First(q)
    <3>1. used \in SUBSET Reqs /\ used' \in SUBSET Reqs /\ used \subseteq used'
          /\ stored \in SUBSET Reqs
      BY DEF TypeOK
    <3> HIDE DEF Capture
    <3> QED
      BY <3>1, FirstKept DEF First
  <2>2. r \in coming' \/ srv[SlugOf[r]] = "none"
    BY DEF RefreshInv
  <2>3. ASSUME NEW q \in stored' \ coming', q # r PROVE q \in stored \ coming
    BY <2>3
  <2>4. \A q \in Reqs : InHand(q)' = InHand(q)
    BY DEF InHand
  <2>5. stored' \in SUBSET Reqs
    BY DEF TypeOK
  <2> QED
    BY <2>1, <2>2, <2>3, <2>4, <2>5 DEF WakeInv
<1>4. PagesInv'
  BY DEF TypeOK, PagesInv
<1> QED
  BY <1>1, <1>2, <1>3, <1>4

\* A capture is announced.
LEMMA BroadcastInv ==
  ASSUME Inv, NEW r \in Reqs, Broadcast(r)
  PROVE  Inv'
<1> USE DEF Inv, tables, stream, refreshing, answers, screen, pages, Broadcast, Subscribed
<1>1. TypeOK'
  <2>1. (chan \in [Slugs -> 0 .. Cap])'
    <3>1. SlugOf[r] \in Slugs /\ chan[SlugOf[r]] \in 0 .. Cap /\ Cap \in Nat
      BY DEF TypeOK
    <3>2. PICK n \in 0 .. Cap : chan' = [chan EXCEPT ![SlugOf[r]] = n]
      <4>1. CASE Subscribed(SlugOf[r]) /\ chan[SlugOf[r]] < Cap
        <5>1. chan[SlugOf[r]] + 1 \in 0 .. Cap
          BY <3>1, <4>1
        <5> QED
          BY <4>1, <5>1
      <4>2. CASE ~(Subscribed(SlugOf[r]) /\ chan[SlugOf[r]] < Cap)
        BY <3>1, <4>2
      <4> QED
        BY <4>1, <4>2
    <3> QED
      BY <3>2 DEF TypeOK
  <2>2. (coming \subseteq used)'
    BY DEF TypeOK
  <2> QED
    BY <2>1, <2>2 DEF TypeOK
<1>2. RefreshInv'
  BY DEF TypeOK, RefreshInv
<1>3. WakeInv'
  BY DEF TypeOK, RefreshInv, WakeInv, InHand, First
<1>4. PagesInv'
  <2>1. stored' = stored /\ UNCHANGED pages
    OBVIOUS
  <2> QED
    BY <2>1, PagesKept
<1> QED
  BY <1>1, <1>2, <1>3, <1>4

\* Requests are deleted.
LEMMA DeleteRequestsInv ==
  ASSUME Inv, DeleteRequests
  PROVE  Inv'
<1> USE DEF Inv, tables, stream, refreshing, answers, screen, pages, DeleteRequests, Erase
<1>1. TypeOK'
  BY DEF TypeOK
<1>2. RefreshInv'
  BY DEF TypeOK, RefreshInv
<1>3. WakeInv'
  BY DEF TypeOK, RefreshInv, WakeInv, InHand, First
<1>4. PagesInv'
  BY DEF TypeOK, PagesInv
<1> QED
  BY <1>1, <1>2, <1>3, <1>4

\* An endpoint is deleted.
LEMMA DeleteEndpointInv ==
  ASSUME Inv, NEW s \in Slugs, DeleteEndpoint(s)
  PROVE  Inv'
<1> USE DEF Inv, tables, stream, refreshing, answers, screen, pages, DeleteEndpoint, Erase
<1>1. TypeOK'
  BY DEF TypeOK
<1>2. RefreshInv'
  BY DEF TypeOK, RefreshInv
<1>3. WakeInv'
  BY DEF TypeOK, RefreshInv, WakeInv, InHand, First
<1>4. PagesInv'
  BY DEF TypeOK, PagesInv
<1> QED
  BY <1>1, <1>2, <1>3, <1>4

\* A stream moves on before it is live.
LEMMA HandlerInv ==
  ASSUME Inv, NEW s \in Slugs, Exists(s) \/ Subscribe(s) \/ Error(s)
  PROVE  Inv'
<1> USE DEF Inv, tables, stream, refreshing, answers, screen, pages
<1>0. PICK to \in {"exists", "over", "subscribed", "none"} :
        /\ srv[s] # "none" /\ srv' = [srv EXCEPT ![s] = to]
        /\ UNCHANGED <<tables, chan, wire, told, world, refreshing, answers, screen, pages, faults>>
  BY DEF Exists, Subscribe, Error, Handler
<1> USE <1>0
<1>1. TypeOK'
  <2>1. (srv \in [Slugs -> {"none", "new", "exists", "subscribed", "live", "over"}])'
    BY DEF TypeOK
  <2> QED
    BY <2>1 DEF TypeOK
<1>2. RefreshInv'
  BY DEF TypeOK, RefreshInv
<1>3. WakeInv'
  <2>1. \A d \in Slugs \ {s} : srv'[d] = srv[d] /\ chan'[d] = chan[d] /\ wire'[d] = wire[d]
    BY DEF TypeOK
  <2>2. srv'[s] # "live"
    BY DEF TypeOK
  <2>3. \A q \in stored : InHand(q)' = InHand(q) /\ First(q)' = First(q) /\ SlugOf[q] \in Slugs
    BY DEF InHand, First, TypeOK
  <2> QED
    BY <2>1, <2>2, <2>3 DEF WakeInv
<1>4. PagesInv'
  <2>1. stored' = stored /\ UNCHANGED pages
    OBVIOUS
  <2> QED
    BY <2>1, PagesKept
<1> QED
  BY <1>1, <1>2, <1>3, <1>4

\* A stream ends.
LEMMA EndInv ==
  ASSUME Inv, NEW s \in Slugs, End(s)
  PROVE  Inv'
<1> USE DEF Inv, tables, stream, refreshing, answers, screen, pages, End, Open
<1>1. TypeOK'
  <2>1. (srv \in [Slugs -> {"none", "new", "exists", "subscribed", "live", "over"}])'
    BY DEF TypeOK
  <2>2. (chan \in [Slugs -> 0 .. Cap])'
    BY DEF TypeOK
  <2>3. (wire \in [Slugs -> 0 .. WireLen])'
    BY DEF TypeOK
  <2> QED
    BY <2>1, <2>2, <2>3 DEF TypeOK
<1>2. RefreshInv'
  BY DEF TypeOK, RefreshInv
<1>3. WakeInv'
  <2>1. \A d \in Slugs \ {s} : srv'[d] = srv[d] /\ chan'[d] = chan[d] /\ wire'[d] = wire[d]
    BY DEF TypeOK
  <2>2. srv'[s] # "live"
    BY DEF TypeOK
  <2>3. \A q \in stored : InHand(q)' = InHand(q) /\ First(q)' = First(q) /\ SlugOf[q] \in Slugs
    BY DEF InHand, First, TypeOK
  <2> QED
    BY <2>1, <2>2, <2>3 DEF WakeInv
<1>4. PagesInv'
  <2>1. stored' = stored /\ UNCHANGED pages
    OBVIOUS
  <2> QED
    BY <2>1, PagesKept
<1> QED
  BY <1>1, <1>2, <1>3, <1>4

\* A stream goes live.
LEMMA ReadyInv ==
  ASSUME Inv, NEW s \in Slugs, Ready(s)
  PROVE  Inv'
<1> USE DEF Inv, tables, stream, refreshing, answers, screen, pages, Ready, Handler
<1>1. TypeOK'
  <2>1. (srv \in [Slugs -> {"none", "new", "exists", "subscribed", "live", "over"}])'
    BY DEF TypeOK
  <2>2. (wire \in [Slugs -> 0 .. WireLen])'
    BY DEF TypeOK
  <2> QED
    BY <2>1, <2>2 DEF TypeOK
<1>2. RefreshInv'
  BY DEF TypeOK, RefreshInv
<1>3. WakeInv'
  <2>1. \A d \in Slugs \ {s} : srv'[d] = srv[d] /\ chan'[d] = chan[d] /\ wire'[d] = wire[d]
    BY DEF TypeOK
  <2>2. wire'[s] > 0
    BY DEF TypeOK
  <2>3. \A q \in stored : InHand(q)' = InHand(q) /\ First(q)' = First(q) /\ SlugOf[q] \in Slugs
    BY DEF InHand, First, TypeOK
  <2> QED
    BY <2>1, <2>2, <2>3 DEF WakeInv
<1>4. PagesInv'
  <2>1. stored' = stored /\ UNCHANGED pages
    OBVIOUS
  <2> QED
    BY <2>1, PagesKept
<1> QED
  BY <1>1, <1>2, <1>3, <1>4

\* A stream sends an event.
LEMMA SendInv ==
  ASSUME Inv, NEW s \in Slugs, Send(s)
  PROVE  Inv'
<1> USE DEF Inv, tables, stream, refreshing, answers, screen, pages, Send
<1>1. TypeOK'
  <2>1. (chan \in [Slugs -> 0 .. Cap])'
    BY DEF TypeOK
  <2>2. (wire \in [Slugs -> 0 .. WireLen])'
    BY DEF TypeOK
  <2> QED
    BY <2>1, <2>2 DEF TypeOK
<1>2. RefreshInv'
  BY DEF TypeOK, RefreshInv
<1>3. WakeInv'
  <2>1. \A d \in Slugs \ {s} : srv'[d] = srv[d] /\ chan'[d] = chan[d] /\ wire'[d] = wire[d]
    BY DEF TypeOK
  <2>2. wire'[s] > 0
    BY DEF TypeOK
  <2>3. \A q \in stored : InHand(q)' = InHand(q) /\ First(q)' = First(q) /\ SlugOf[q] \in Slugs
    BY DEF InHand, First, TypeOK
  <2> QED
    BY <2>1, <2>2, <2>3 DEF WakeInv
<1>4. PagesInv'
  <2>1. stored' = stored /\ UNCHANGED pages
    OBVIOUS
  <2> QED
    BY <2>1, PagesKept
<1> QED
  BY <1>1, <1>2, <1>3, <1>4

\* The server crashes.
LEMMA CrashInv ==
  ASSUME Inv, Crash
  PROVE  Inv'
<1> USE DEF Inv, tables, stream, refreshing, answers, screen, pages, Crash, Fails
<1>1. TypeOK'
  <2>1. (srv \in [Slugs -> {"none", "new", "exists", "subscribed", "live", "over"}])'
    BY DEF TypeOK
  <2>2. (chan \in [Slugs -> 0 .. Cap])'
    BY DEF TypeOK
  <2>3. (wire \in [Slugs -> 0 .. WireLen])'
    BY DEF TypeOK
  <2>4. (faults \in 0 .. world.faults)'
    BY DEF TypeOK, World
  <2> QED
    BY <2>1, <2>2, <2>3, <2>4 DEF TypeOK
<1>2. RefreshInv'
  BY DEF TypeOK, RefreshInv
<1>3. WakeInv'
  BY DEF TypeOK, RefreshInv, WakeInv, InHand, First
<1>4. PagesInv'
  BY DEF TypeOK, PagesInv
<1> QED
  BY <1>1, <1>2, <1>3, <1>4

\* A refresh is asked for.
LEMMA TickInv ==
  ASSUME Inv, Tick
  PROVE  Inv'
<1> USE DEF Inv, tables, stream, refreshing, answers, screen, pages, Tick, Refresh
<1>1. TypeOK'
  BY DEF TypeOK
<1>2. RefreshInv'
  BY DEF TypeOK, RefreshInv
<1>3. WakeInv'
  BY DEF TypeOK, RefreshInv, WakeInv, InHand, First
<1>4. PagesInv'
  BY DEF TypeOK, PagesInv
<1> QED
  BY <1>1, <1>2, <1>3, <1>4

\* A message asks for a refresh.
LEMMA MessageInv ==
  ASSUME Inv, NEW s \in Slugs, Message(s)
  PROVE  Inv'
<1> USE DEF Inv, tables, stream, refreshing, answers, screen, pages, Message, Refresh
<1>1. TypeOK'
  <2>1. (wire \in [Slugs -> 0 .. WireLen])'
    BY DEF TypeOK
  <2>2. ({busy, again} \subseteq BOOLEAN /\ asked \subseteq {"eps", "page"})'
    BY DEF TypeOK
  <2> QED
    BY <2>1, <2>2 DEF TypeOK
<1>2. RefreshInv'
  BY DEF TypeOK, RefreshInv
<1>3. WakeInv'
  BY DEF TypeOK, RefreshInv, WakeInv, InHand, First
<1>4. PagesInv'
  <2>1. stored' = stored /\ UNCHANGED pages
    OBVIOUS
  <2> QED
    BY <2>1, PagesKept
<1> QED
  BY <1>1, <1>2, <1>3, <1>4

\* The answer to a DELETE closes the stream and asks for a refresh.
LEMMA DeletedInv ==
  ASSUME Inv, NEW s \in Slugs, Deleted(s)
  PROVE  Inv'
<1> USE DEF Inv, tables, stream, refreshing, answers, screen, pages, Deleted, Refresh
<1>1. TypeOK'
  <2>1. (srv \in [Slugs -> {"none", "new", "exists", "subscribed", "live", "over"}])'
    BY DEF TypeOK
  <2>2. (chan \in [Slugs -> 0 .. Cap])'
    BY DEF TypeOK
  <2>3. (wire \in [Slugs -> 0 .. WireLen])'
    BY DEF TypeOK
  <2>4. ({busy, again} \subseteq BOOLEAN /\ asked \subseteq {"eps", "page"})'
    BY DEF TypeOK
  <2>5. (told \subseteq Slugs)'
    BY DEF TypeOK
  <2> QED
    BY <2>1, <2>2, <2>3, <2>4, <2>5 DEF TypeOK
<1>2. RefreshInv'
  BY DEF TypeOK, RefreshInv
<1>3. WakeInv'
  BY DEF TypeOK, RefreshInv, WakeInv, InHand, First
<1>4. PagesInv'
  <2>1. stored' = stored /\ UNCHANGED pages
    OBVIOUS
  <2> QED
    BY <2>1, PagesKept
<1> QED
  BY <1>1, <1>2, <1>3, <1>4

\* The endpoints are read.
LEMMA ReadEndpointsInv ==
  ASSUME Inv, ReadEndpoints
  PROVE  Inv'
<1> USE DEF Inv, tables, stream, refreshing, answers, screen, pages, ReadEndpoints
<1>1. TypeOK'
  BY DEF TypeOK
<1>2. RefreshInv'
  BY DEF TypeOK, RefreshInv
<1>3. WakeInv'
  BY DEF TypeOK, RefreshInv, WakeInv, InHand, First
<1>4. PagesInv'
  BY DEF TypeOK, PagesInv
<1> QED
  BY <1>1, <1>2, <1>3, <1>4

\* The first page is read: what belongs on it is on it.
LEMMA ReadPageInv ==
  ASSUME Inv, ReadPage
  PROVE  Inv'
<1> USE DEF Inv, tables, stream, refreshing, answers, screen, pages, ReadPage
<1>0. page' \in Page /\ (page'.next # NoCursor => page'.next = Min(page'.rows))
  BY PageFacts DEF TypeOK, Cursors
<1>5. \A r \in stored : First(r) => r \in page'.rows
  <2>1. stored \in SUBSET Reqs /\ used \in SUBSET Reqs /\ stored \subseteq used
    BY DEF TypeOK
  <2>2. page'.rows = Newest(stored, Limit)
    BY DEF PageFrom, Below
  <2> QED
    BY <2>1, <2>2, FirstListed DEF First
<1>1. TypeOK'
  <2>1. (asked \subseteq {"eps", "page"})'
    BY DEF TypeOK
  <2>2. (page \in Page)'
    BY <1>0
  <2> QED
    BY <2>1, <2>2 DEF TypeOK
<1>2. RefreshInv'
  BY <1>0 DEF RefreshInv
<1>3. WakeInv'
  <2>1. \A r \in stored : First(r)' = First(r) /\ (First(r) /\ InHand(r) => InHand(r)')
    BY <1>5 DEF First, InHand
  <2> QED
    BY <2>1 DEF WakeInv
<1>4. PagesInv'
  <2>1. stored' = stored /\ UNCHANGED pages
    OBVIOUS
  <2> QED
    BY <2>1, PagesKept
<1> QED
  BY <1>1, <1>2, <1>3, <1>4

\* A refresh fails: the next one begins, or the error stays.
LEMMA ReadFailsInv ==
  ASSUME Inv, ReadFails
  PROVE  Inv'
<1> USE DEF Inv, tables, stream, refreshing, answers, screen, pages, ReadFails, Fails, Settle
<1>0. NoPage \in Page /\ NoPage.next = NoCursor /\ NoLoad.at = "idle"
      /\ NoLoad \in [at : {"idle", "asked", "answered", "failed"}, cursor : Cursors, page : Page]
  BY DEF NoPage, Page, NoLoad, Cursors
<1>5. load' \in {load, NoLoad} /\ (load' = NoLoad \/ load'.at = load.at)
  BY DEF Redraw
<1>1. TypeOK'
  <2>1. ({busy, again, button, failed} \subseteq BOOLEAN)'
    BY DEF TypeOK
  <2>2. (faults \in 0 .. world.faults)'
    BY DEF TypeOK, World
  <2>3. (load \in [at : {"idle", "asked", "answered", "failed"}, cursor : Cursors, page : Page])'
    BY <1>0, <1>5 DEF TypeOK
  <2>4. (asked \subseteq {"eps", "page"} /\ eps \subseteq Slugs /\ page \in Page /\ view \subseteq Reqs)'
    BY <1>0 DEF TypeOK
  <2> QED
    BY <2>1, <2>2, <2>3, <2>4 DEF TypeOK
<1>2. RefreshInv'
  BY <1>0 DEF RefreshInv
<1>3. WakeInv'
  BY DEF TypeOK, RefreshInv, WakeInv, InHand, First
<1>4. PagesInv'
  <2>1. load' = load \/ load'.at = "idle"
    BY <1>0, <1>5
  <2>2. UNCHANGED <<stored, next, paging, older, bottom, owed>>
    OBVIOUS
  <2> QED
    BY <2>1, <2>2 DEF PagesInv
<1> QED
  BY <1>1, <1>2, <1>3, <1>4

\* A refresh is over: what is in hand is on the screen.
LEMMA RenderInv ==
  ASSUME Inv, Render
  PROVE  Inv'
<1> USE DEF Inv, tables, stream, refreshing, answers, screen, pages, Render, Settle
<1>0. NoPage \in Page /\ NoPage.next = NoCursor /\ NoLoad.at = "idle"
      /\ NoLoad \in [at : {"idle", "asked", "answered", "failed"}, cursor : Cursors, page : Page]
  BY DEF NoPage, Page, NoLoad, Cursors
<1>5. load' \in {load, NoLoad} /\ (load' = NoLoad \/ load'.at = load.at)
  BY DEF Redraw
<1>1. TypeOK'
  <2>1. ({busy, again, button, failed} \subseteq BOOLEAN)'
    BY DEF TypeOK
  <2>2. (load \in [at : {"idle", "asked", "answered", "failed"}, cursor : Cursors, page : Page])'
    BY <1>0, <1>5 DEF TypeOK
  <2>3. (srv \in [Slugs -> {"none", "new", "exists", "subscribed", "live", "over"}])'
    BY DEF TypeOK
  <2>4. (asked \subseteq {"eps", "page"} /\ eps \subseteq Slugs /\ page \in Page)'
    BY <1>0 DEF TypeOK
  <2>5. (view \subseteq Reqs)'
    BY DEF TypeOK, Page, Seen
  <2>6. (next \in Cursors /\ bottom \in Cursors)'
    <3>1. page.next \in Cursors /\ next \in Cursors /\ bottom \in Cursors /\ NoCursor \in Cursors
      BY DEF TypeOK, Page, Cursors
    <3>2. page.next # NoCursor => Min(page.rows) = page.next
      BY DEF RefreshInv
    <3> QED
      BY <3>1, <3>2
  <2> QED
    BY <2>1, <2>2, <2>3, <2>4, <2>5, <2>6 DEF TypeOK
<1>2. RefreshInv'
  <2>1. (page.next # NoCursor => page.next = Min(page.rows))'
    BY <1>0
  <2>2. ~world.live => \A s \in Slugs : srv'[s] = "none"
    BY DEF RefreshInv
  <2> QED
    BY <2>1, <2>2 DEF RefreshInv
<1>3. WakeInv'
  BY DEF TypeOK, RefreshInv, WakeInv, InHand, First
<1>4. PagesInv'
  <2>1. load' = load \/ load'.at = "idle"
    BY <1>0, <1>5
  <2>2. UNCHANGED <<stored, paging, older, owed>> /\ (paging => UNCHANGED <<next, bottom>>)
    OBVIOUS
  <2>3. ~paging => bottom' = next'
    BY DEF RefreshInv
  <2> QED
    BY <2>1, <2>2, <2>3 DEF PagesInv
<1> QED
  BY <1>1, <1>2, <1>3, <1>4

\* An older page is asked for.
LEMMA ClickInv ==
  ASSUME Inv, Click
  PROVE  Inv'
<1> USE DEF Inv, tables, stream, refreshing, answers, screen, pages, Click
<1>1. TypeOK'
  BY DEF TypeOK
<1>2. RefreshInv'
  BY DEF TypeOK, RefreshInv
<1>3. WakeInv'
  BY DEF TypeOK, RefreshInv, WakeInv, InHand, First
<1>4. PagesInv'
  <2>1. CASE load.at = "idle"
    <3>1. load'.at = "asked" /\ load'.cursor = next
      BY <2>1 DEF TypeOK
    <3>2. ~paging => owed' = {r \in stored : r < bottom}
      BY <2>1
    <3>3. paging => owed' = owed
      BY <2>1
    <3> QED
      BY <3>1, <3>2, <3>3 DEF PagesInv
  <2>2. CASE load.at = "failed"
    <3>1. load'.at = "asked" /\ load'.cursor = load.cursor /\ owed' = owed
      BY <2>2 DEF TypeOK
    <3> QED
      BY <2>2, <3>1 DEF PagesInv
  <2> QED
    BY <2>1, <2>2
<1> QED
  BY <1>1, <1>2, <1>3, <1>4

\* It is read: what is owed and comes next is on it.
LEMMA ReadOlderInv ==
  ASSUME Inv, ReadOlder
  PROVE  Inv'
<1> USE DEF Inv, tables, stream, refreshing, answers, screen, pages, ReadOlder
<1>0. load.cursor \in Cursors /\ load'.at = "answered" /\ load'.cursor = load.cursor
      /\ load'.page = PageFrom(load.cursor)
  BY DEF TypeOK
<1>5. load'.page \in Page /\ \A r \in stored :
        (load.cursor = NoCursor \/ r < load.cursor) /\ r >= load'.page.next => r \in load'.page.rows
  BY <1>0, PageFacts
<1>1. TypeOK'
  <2>1. (load \in [at : {"idle", "asked", "answered", "failed"}, cursor : Cursors, page : Page])'
    BY <1>0, <1>5 DEF TypeOK
  <2> QED
    BY <2>1 DEF TypeOK
<1>2. RefreshInv'
  BY DEF TypeOK, RefreshInv
<1>3. WakeInv'
  BY DEF TypeOK, RefreshInv, WakeInv, InHand, First
<1>4. PagesInv'
  <2>1. UNCHANGED <<stored, next, paging, older, bottom, owed>>
    OBVIOUS
  <2> QED
    BY <1>0, <1>5, <2>1 DEF PagesInv
<1> QED
  BY <1>1, <1>2, <1>3, <1>4

\* It arrives, and is appended without what is there already.
LEMMA ShowOlderInv ==
  ASSUME Inv, ShowOlder
  PROVE  Inv'
<1> USE DEF Inv, tables, stream, refreshing, answers, screen, pages, ShowOlder, Refresh
<1>1. TypeOK'
  <2>1. (load \in [at : {"idle", "asked", "answered", "failed"}, cursor : Cursors, page : Page])'
    BY DEF NoPage, NoLoad, Page, Cursors
  <2>2. ({busy, again, paging} \subseteq BOOLEAN /\ asked \subseteq {"eps", "page"})'
    BY DEF TypeOK
  <2>3. (older \in [Reqs -> Nat])'
    BY DEF TypeOK
  <2>4. (next \in Cursors /\ bottom \in Cursors)'
    BY DEF TypeOK, Page, Cursors
  <2> QED
    BY <2>1, <2>2, <2>3, <2>4 DEF TypeOK
<1>2. RefreshInv'
  BY DEF TypeOK, RefreshInv
<1>3. WakeInv'
  BY DEF TypeOK, RefreshInv, WakeInv, InHand, First
<1>4. PagesInv'
  <2>1. \A r \in Reqs : /\ older[r] \in {0, 1} /\ older'[r] \in {0, 1}
                        /\ older[r] = 1 => older'[r] = 1
                        /\ r \in load.page.rows => older'[r] = 1
    BY DEF PagesInv, Seen
  <2>2. load'.at = "idle" /\ paging' /\ next' = load.page.next /\ owed' = owed /\ stored' = stored
    BY DEF NoLoad
  <2>3. owed \subseteq stored /\ stored \subseteq Reqs /\ load.page.next \in Cursors /\ load.cursor \in Cursors
    BY DEF TypeOK, PagesInv, Page
  <2>4. ASSUME NEW r \in owed, r >= load.page.next PROVE older'[r] = 1
    <3>1. r \in Reqs /\ r \in Nat /\ load.cursor \in Nat
      <4>1. Reqs \subseteq Nat /\ NoCursor \in Nat
        BY DEF NoCursor
      <4>2. r \in Reqs
        BY <2>3, <2>4
      <4>3. load.cursor \in Reqs \union {NoCursor}
        BY <2>3 DEF Cursors
      <4> QED
        BY <4>1, <4>2, <4>3
    <3>2. CASE load.cursor = NoCursor \/ r < load.cursor
      <4>1. r \in load.page.rows
        BY <2>4, <3>2 DEF PagesInv
      <4> QED
        BY <2>1, <3>1, <4>1
    <3>3. CASE ~(load.cursor = NoCursor \/ r < load.cursor)
      <4>1. r >= load.cursor /\ paging /\ load.cursor = next
        BY <3>1, <3>3 DEF PagesInv
      <4>2. older[r] = 1
        BY <2>4, <4>1 DEF PagesInv
      <4> QED
        BY <2>1, <3>1, <4>2
    <3> QED
      BY <3>2, <3>3
  <2> QED
    BY <2>1, <2>2, <2>3, <2>4 DEF PagesInv
<1> QED
  BY <1>1, <1>2, <1>3, <1>4

\* It cannot be read.
LEMMA OlderFailsInv ==
  ASSUME Inv, OlderFails
  PROVE  Inv'
<1> USE DEF Inv, tables, stream, refreshing, answers, screen, pages, OlderFails, Fails
<1>1. TypeOK'
  <2>1. (faults \in 0 .. world.faults)'
    BY DEF TypeOK, World
  <2>2. (load \in [at : {"idle", "asked", "answered", "failed"}, cursor : Cursors, page : Page])'
    BY DEF TypeOK
  <2>3. ({failed, button} \subseteq BOOLEAN /\ view \subseteq Reqs)'
    BY DEF TypeOK
  <2> QED
    BY <2>1, <2>2, <2>3 DEF TypeOK
<1>2. RefreshInv'
  BY DEF TypeOK, RefreshInv
<1>3. WakeInv'
  BY DEF TypeOK, RefreshInv, WakeInv, InHand, First
<1>4. PagesInv'
  BY DEF TypeOK, PagesInv
<1> QED
  BY <1>1, <1>2, <1>3, <1>4

\* Nothing was read yet.
LEMMA InitInv == Init => Inv
<1> SUFFICES ASSUME Init PROVE Inv
  OBVIOUS
<1> USE DEF Init
<1>1. TypeOK
  <2>1. page \in Page
    BY DEF NoPage, Page, Cursors
  <2>2. load \in [at : {"idle", "asked", "answered", "failed"}, cursor : Cursors, page : Page]
    BY DEF NoLoad, NoPage, Page, Cursors
  <2>3. faults \in 0 .. world.faults /\ next \in Cursors /\ bottom \in Cursors
    BY DEF World, Cursors
  <2>4. older \in [Reqs -> Nat] /\ chan \in [Slugs -> 0 .. Cap] /\ wire \in [Slugs -> 0 .. WireLen]
    OBVIOUS
  <2>5. srv \in [Slugs -> {"none", "new", "exists", "subscribed", "live", "over"}]
    OBVIOUS
  <2> QED
    BY <2>1, <2>2, <2>3, <2>4, <2>5 DEF TypeOK
<1>2. RefreshInv
  BY DEF RefreshInv, NoPage
<1>3. WakeInv
  BY DEF WakeInv
<1>4. PagesInv
  BY DEF PagesInv, NoLoad
<1> QED
  BY <1>1, <1>2, <1>3, <1>4 DEF Inv

\* Every step keeps the invariant.
LEMMA StepInv == Inv /\ [Next]_vars => Inv'
<1> SUFFICES ASSUME Inv, [Next]_vars PROVE Inv'
  OBVIOUS
<1>1. ASSUME NEW s \in Slugs, Create(s) PROVE Inv'
  BY <1>1, CreateInv
<1>2. ASSUME NEW s \in Slugs, DeleteEndpoint(s) PROVE Inv'
  BY <1>2, DeleteEndpointInv
<1>3. ASSUME NEW s \in Slugs, Deleted(s) PROVE Inv'
  BY <1>3, DeletedInv
<1>4. ASSUME NEW r \in Reqs, Capture(r) PROVE Inv'
  BY <1>4, CaptureInv
<1>5. ASSUME NEW r \in Reqs, Broadcast(r) PROVE Inv'
  BY <1>5, BroadcastInv
<1>6. CASE DeleteRequests
  BY <1>6, DeleteRequestsInv
<1>7. ASSUME NEW s \in Slugs, Exists(s) \/ Subscribe(s) \/ Error(s) PROVE Inv'
  BY <1>7, HandlerInv
<1>8. ASSUME NEW s \in Slugs, Ready(s) PROVE Inv'
  BY <1>8, ReadyInv
<1>9. ASSUME NEW s \in Slugs, Send(s) PROVE Inv'
  BY <1>9, SendInv
<1>10. ASSUME NEW s \in Slugs, End(s) PROVE Inv'
  BY <1>10, EndInv
<1>11. ASSUME NEW s \in Slugs, Message(s) PROVE Inv'
  BY <1>11, MessageInv
<1>12. CASE Crash
  BY <1>12, CrashInv
<1>13. CASE Tick
  BY <1>13, TickInv
<1>14. CASE ReadEndpoints
  BY <1>14, ReadEndpointsInv
<1>15. CASE ReadPage
  BY <1>15, ReadPageInv
<1>16. CASE ReadFails
  BY <1>16, ReadFailsInv
<1>17. CASE Render
  BY <1>17, RenderInv
<1>18. CASE Click
  BY <1>18, ClickInv
<1>19. CASE ReadOlder
  BY <1>19, ReadOlderInv
<1>20. CASE ShowOlder
  BY <1>20, ShowOlderInv
<1>21. CASE OlderFails
  BY <1>21, OlderFailsInv
<1>22. CASE UNCHANGED vars
  <2> USE <1>22 DEF vars, tables, stream, refreshing, answers, screen, pages, Inv
  <2>1. TypeOK'
    BY DEF TypeOK
  <2>2. RefreshInv' /\ PagesInv'
    BY DEF RefreshInv, PagesInv
  <2>3. WakeInv'
    BY DEF WakeInv, InHand, First
  <2> QED
    BY <2>1, <2>2, <2>3
<1> QED
  BY <1>1, <1>2, <1>3, <1>4, <1>5, <1>6, <1>7, <1>8, <1>9, <1>10, <1>11, <1>12, <1>13, <1>14,
     <1>15, <1>16, <1>17, <1>18, <1>19, <1>20, <1>21, <1>22 DEF Next

\* Inv is an invariant.
LEMMA Invariance == Spec => []Inv
<1> QED
  BY InitInv, StepInv, PTL DEF Spec

-----------------------------------------------------------------------------
\* TypeOK: types; channels and messages within their bounds.
THEOREM TypeCorrect == Spec => []TypeOK
<1>1. Inv => TypeOK
  BY DEF Inv
<1> QED
  BY <1>1, Invariance, PTL

\* NothingMissed: between the hub's full channels and refresh()'s coalescing
\* no wakeup is lost.
THEOREM NothingIsMissed == Spec => []NothingMissed
<1>1. Inv => NothingMissed
  BY DEF Inv, WakeInv, InHand, First, NothingMissed, UnderWay
<1> QED
  BY <1>1, Invariance, PTL

\* OlderComplete: the cursor of listRequests neither skips nor repeats a row
\* that was there when the user asked for the first older page.
THEOREM OlderIsComplete == Spec => []OlderComplete
<1>1. Inv => OlderComplete
  BY DEF Inv, PagesInv, OlderComplete
<1> QED
  BY <1>1, Invariance, PTL
=============================================================================
