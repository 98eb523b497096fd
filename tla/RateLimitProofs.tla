--------------------------- MODULE RateLimitProofs ---------------------------
(***************************************************************************)
(* RateBound and DenialDeserved for every number of clients, callers and   *)
(* tokens, and every clock.                                                *)
(*                                                                         *)
(* No client gets too much: credit - last never grows except when a bucket *)
(* is created, and a grant takes Cost from it; a sweep happens so late     *)
(* (Idle >= Second + 2 * Skew) that a fresh full bucket costs less than    *)
(* the silence before it.                                                  *)
(*                                                                         *)
(* No client gets too little: credit - last shrinks only by what a grant   *)
(* takes, and a bucket capped at Second was full not long ago.             *)
(***************************************************************************)
EXTENDS RateLimit, FiniteSetTheorems, TLAPS

USE RateLimitAssumption

\* A caller's reading is at most Skew old.
ReadingInv ==
  \A c \in Callers :
    wants[c] # NoIP => at[c] <= clock /\ clock <= at[c] + Skew

\* A bucket is never further in debt than the skew explains.
BucketInv ==
  \A ip \in buckets :
    /\ last[ip] <= clock
    /\ credit[ip] >= -Skew
    /\ credit[ip] >= last[ip] - clock

\* The number of grants from the i-th on.
Since(ip, i) == Len(grants[ip]) - i + 1

\* The grants since the i-th, and what is left in the bucket, are paid for by
\* one full bucket and the time since; without a bucket, by the time alone.
PaidInv ==
  \A ip \in IPs : \A i \in 1 .. Len(grants[ip]) :
    /\ ip \in buckets =>
         Cost * Since(ip, i) + credit[ip] <= Second + last[ip] - grants[ip][i]
    /\ ip \notin buckets =>
         Cost * Since(ip, i) + Skew <= clock - grants[ip][i]

Inv == TypeOK /\ ReadingInv /\ BucketInv /\ PaidInv /\ RateBound

LEMMA SecondNat == Second \in Nat
BY SMT DEF Second

\* One more grant costs Cost.
LEMMA OneMore ==
  \A n, i \in Int : Cost * ((n + 1) - i + 1) = Cost * (n - i + 1) + Cost
BY SMT

\* One grant costs Cost.
LEMMA JustOne == \A n \in Int : Cost * (n - n + 1) = Cost
BY SMT

LEMMA InitInv == Init => Inv
<1> SUFFICES ASSUME Init PROVE Inv
  OBVIOUS
<1>1. TypeOK
  BY SecondNat, SMT DEF Init, TypeOK
<1>2. ReadingInv /\ BucketInv
  BY SMT DEF Init, ReadingInv, BucketInv
<1>3. PaidInv
  BY SMT DEF Init, PaidInv
<1>4. RateBound
  BY SMT DEF Init, RateBound
<1> QED
  BY <1>1, <1>2, <1>3, <1>4 DEF Inv

\* The value Refilled computes lies between -Skew and a full bucket, and for
\* a surviving bucket it never exceeds what time has added.
LEMMA RefilledBounds ==
  ASSUME Inv, NEW c \in Callers, NEW ip \in IPs, wants[c] = ip
  PROVE  /\ Refilled(ip, at[c]) \in Int
         /\ Refilled(ip, at[c]) <= Second
         /\ Refilled(ip, at[c]) >= -Skew
         /\ Refilled(ip, at[c]) >= at[c] - clock
         /\ ip \in Survivors(at[c]) =>
              Refilled(ip, at[c]) <= credit[ip] + at[c] - last[ip]
         /\ ip \notin Survivors(at[c]) => Refilled(ip, at[c]) = Second
<1>1. /\ clock \in Nat /\ at[c] \in Nat /\ Skew \in Nat /\ Second \in Nat
      /\ credit[ip] \in Int /\ last[ip] \in Nat
  BY SecondNat DEF Inv, TypeOK
<1>2. at[c] <= clock /\ clock <= at[c] + Skew
  BY DEF Inv, ReadingInv
<1>3. ip \in Survivors(at[c]) => credit[ip] >= last[ip] - clock
  BY DEF Inv, BucketInv, Survivors
<1> QED
  BY <1>1, <1>2, <1>3, SMT DEF Refilled

\* A bucket that is missing or swept now: its grants are paid for by time.
LEMMA SweptPaid ==
  ASSUME Inv, NEW c \in Callers, wants[c] # NoIP,
         NEW k \in IPs, k \notin Survivors(at[c]),
         NEW i \in 1 .. Len(grants[k])
  PROVE  Cost * Since(k, i) + Skew <= clock - grants[k][i]
<1>1. CASE k \notin buckets
  BY <1>1 DEF Inv, PaidInv
<1>2. CASE k \in buckets
  <2>1. /\ clock \in Nat /\ at[c] \in Nat /\ Skew \in Nat /\ Second \in Nat
        /\ credit[k] \in Int /\ last[k] \in Nat /\ grants[k][i] \in Nat
        /\ Idle \in Nat
    BY SecondNat DEF Inv, TypeOK
  <2>2. PICK paid \in Int : paid = Cost * Since(k, i)
    BY <2>1, SMT DEF Since, Inv, TypeOK
  <2>9. paid \in Int
    BY <2>2
  <2>3. at[c] - last[k] > Idle
    BY <1>2, <2>1 DEF Survivors
  <2>4. paid + credit[k] <= Second + last[k] - grants[k][i]
    BY <1>2, <2>2 DEF Inv, PaidInv
  <2>5. credit[k] >= -Skew
    BY <1>2 DEF Inv, BucketInv
  <2>6. at[c] <= clock
    BY DEF Inv, ReadingInv
  <2>10. paid - Skew <= Second + last[k] - grants[k][i]
    BY <2>1, <2>9, <2>4, <2>5
  <2>11. at[c] > Second + 2 * Skew + last[k]
    BY <2>1, <2>3
  <2>12. clock > Second + 2 * Skew + last[k]
    BY <2>1, <2>11, <2>6
  <2>7. paid + Skew <= clock - grants[k][i]
    BY <2>1, <2>9, <2>10, <2>12
  <2> QED
    BY <2>2, <2>7
<1> QED
  BY <1>1, <1>2

\* What both outcomes of Allow do to the invariant, but for the history.
LEMMA TouchInv ==
  ASSUME Inv, NEW c \in Callers, NEW ip \in IPs, wants[c] = ip,
         NEW left \in Int, left <= Second, Touch(c, ip, left),
         left >= -Skew, left >= at[c] - clock
  PROVE  /\ clock' \in 0 .. MaxClock
         /\ wants' \in [Callers -> IPs \union {NoIP}]
         /\ at' \in [Callers -> Nat]
         /\ buckets' \subseteq IPs
         /\ credit' \in [IPs -> Int]
         /\ \A k \in IPs : credit'[k] <= Second
         /\ last' \in [IPs -> Nat]
         /\ ReadingInv'
         /\ BucketInv'
<1>1. at[c] \in Nat /\ clock \in Nat /\ at[c] <= clock
  BY DEF Inv, TypeOK, ReadingInv
<1>2. buckets' \subseteq IPs /\ buckets' \subseteq buckets \union {ip}
  BY DEF Touch, Survivors, Inv, TypeOK
<1>3. /\ clock' \in 0 .. MaxClock
      /\ wants' \in [Callers -> IPs \union {NoIP}]
      /\ at' \in [Callers -> Nat]
      /\ credit' \in [IPs -> Int]
      /\ last' \in [IPs -> Nat]
  BY <1>1 DEF Touch, Inv, TypeOK
<1>4. \A k \in IPs : credit'[k] <= Second
  BY DEF Touch, Inv, TypeOK
<1>5. ReadingInv'
  BY DEF Touch, Inv, TypeOK, ReadingInv
<1>6. BucketInv'
  <2> SUFFICES ASSUME NEW k \in buckets'
               PROVE  /\ last'[k] <= clock'
                      /\ credit'[k] >= -Skew
                      /\ credit'[k] >= last'[k] - clock'
    BY DEF BucketInv
  <2>1. CASE k = ip
    BY <2>1, <1>1 DEF Touch, Inv, TypeOK
  <2>2. CASE k # ip
    BY <2>2, <1>2 DEF Touch, Inv, TypeOK, BucketInv
  <2> QED
    BY <2>1, <2>2
<1> QED
  BY <1>2, <1>3, <1>4, <1>5, <1>6

\* The buckets of other clients stay paid for.
LEMMA OthersPaid ==
  ASSUME Inv, NEW c \in Callers, NEW ip \in IPs, wants[c] = ip,
         NEW left \in Int, Touch(c, ip, left),
         NEW k \in IPs, k # ip, grants'[k] = grants[k],
         NEW i \in 1 .. Len(grants[k])
  PROVE  /\ k \in buckets' =>
              Cost * Since(k, i)' + credit'[k] <= Second + last'[k] - grants'[k][i]
         /\ k \notin buckets' =>
              Cost * Since(k, i)' + Skew <= clock' - grants'[k][i]
<1>1. /\ Since(k, i)' = Since(k, i)
      /\ credit'[k] = credit[k]
      /\ last'[k] = last[k]
      /\ clock' = clock
  BY DEF Since, Touch, Inv, TypeOK
<1>2. CASE k \in buckets'
  <2>1. k \in buckets
    BY <1>2 DEF Touch, Survivors
  <2> QED
    BY <1>1, <1>2, <2>1 DEF Inv, PaidInv
<1>3. CASE k \notin buckets'
  <2>1. k \notin Survivors(at[c]) /\ wants[c] # NoIP
    BY <1>3 DEF Touch
  <2>2. Cost * Since(k, i) + Skew <= clock - grants[k][i]
    BY <2>1, SweptPaid
  <2> QED
    BY <1>1, <1>3, <2>2
<1> QED
  BY <1>2, <1>3

\* The client's own earlier grants, before the new one is added.
LEMMA OwnPaid ==
  ASSUME Inv, NEW c \in Callers, NEW ip \in IPs, wants[c] = ip,
         NEW i \in 1 .. Len(grants[ip])
  PROVE  Cost * Since(ip, i) + Refilled(ip, at[c]) <= Second + at[c] - grants[ip][i]
<1>1. clock \in Nat /\ at[c] \in Nat /\ grants[ip][i] \in Nat
  BY DEF Inv, TypeOK
<1>2. PICK paid \in Int : paid = Cost * Since(ip, i)
  BY SMT DEF Since, Inv, TypeOK
<1>6. paid \in Int
  BY <1>2
<1>3. clock <= at[c] + Skew
  BY DEF Inv, ReadingInv
<1>4. CASE ip \in Survivors(at[c])
  <2>1. paid + credit[ip] <= Second + last[ip] - grants[ip][i]
    BY <1>2, <1>4 DEF Survivors, Inv, PaidInv
  <2>2. /\ Refilled(ip, at[c]) \in Int
        /\ Refilled(ip, at[c]) <= credit[ip] + at[c] - last[ip]
    BY <1>4, RefilledBounds
  <2>3. credit[ip] \in Int /\ last[ip] \in Nat
    BY DEF Inv, TypeOK
  <2>4. paid + Refilled(ip, at[c]) <= Second + at[c] - grants[ip][i]
    <3> DEFINE full == Refilled(ip, at[c])
               had == credit[ip]
               then == last[ip]
               since == grants[ip][i]
    <3>1. /\ full \in Int /\ had \in Int /\ then \in Nat /\ since \in Nat
          /\ paid + had <= Second + then - since
          /\ full <= had + at[c] - then
      BY <1>1, <2>1, <2>2, <2>3
    <3> HIDE DEF full, had, then, since
    <3>2. paid + full <= Second + at[c] - since
      BY <1>1, <1>6, <3>1, SecondNat
    <3> QED
      BY <3>2 DEF full, since
  <2> QED
    BY <1>2, <2>4
<1>5. CASE ip \notin Survivors(at[c])
  <2>1. paid + Skew <= clock - grants[ip][i]
    BY <1>2, <1>5, SweptPaid
  <2>2. Refilled(ip, at[c]) = Second
    BY <1>5, RefilledBounds
  <2>3. paid + Refilled(ip, at[c]) <= Second + at[c] - grants[ip][i]
    BY <1>1, <1>6, <1>3, <2>1, <2>2, SecondNat
  <2> QED
    BY <1>2, <2>3
<1> QED
  BY <1>4, <1>5

LEMMA DenyInv ==
  ASSUME Inv, NEW c \in Callers, NEW ip \in IPs, Deny(c, ip)
  PROVE  Inv'
<1> DEFINE left == Refilled(ip, at[c])
<1>1. wants[c] = ip /\ Touch(c, ip, left) /\ grants' = grants
  BY DEF Deny
<1>2. /\ left \in Int /\ left <= Second
      /\ left >= -Skew /\ left >= at[c] - clock
  BY <1>1, RefilledBounds
<1> HIDE DEF left
<1>3. TypeOK' /\ ReadingInv' /\ BucketInv'
  BY <1>1, <1>2, TouchInv DEF Inv, TypeOK
<1>4. PaidInv'
  <2> SUFFICES ASSUME NEW k \in IPs, NEW i \in 1 .. Len(grants[k])
      PROVE /\ k \in buckets' =>
                 Cost * Since(k, i)' + credit'[k] <= Second + last'[k] - grants'[k][i]
            /\ k \notin buckets' =>
                 Cost * Since(k, i)' + Skew <= clock' - grants'[k][i]
    BY <1>1 DEF PaidInv
  <2>1. CASE k # ip
    BY <1>1, <1>2, <2>1, OthersPaid
  <2>2. CASE k = ip
    <3>1. Cost * Since(ip, i) + left <= Second + at[c] - grants[ip][i]
      BY <1>1, <2>2, OwnPaid DEF left
    <3>2. /\ ip \in buckets' /\ credit'[ip] = left /\ last'[ip] = at[c]
          /\ Since(ip, i)' = Since(ip, i)
      BY <1>1 DEF Touch, Since, Inv, TypeOK
    <3> QED
      BY <1>1, <2>2, <3>1, <3>2
  <2> QED
    BY <2>1, <2>2
<1>5. RateBound'
  BY <1>1 DEF Inv, RateBound
<1> QED
  BY <1>3, <1>4, <1>5 DEF Inv

LEMMA GrantInv ==
  ASSUME Inv, NEW c \in Callers, NEW ip \in IPs, Grant(c, ip)
  PROVE  Inv'
<1> DEFINE full == Refilled(ip, at[c])
           left == full - Cost
           n == Len(grants[ip])
<1>1. /\ wants[c] = ip /\ Touch(c, ip, left) /\ full >= Cost
      /\ grants' = [grants EXCEPT ![ip] = Append(@, at[c])]
  BY DEF Grant
<1>2. full \in Int /\ full <= Second
  BY <1>1, RefilledBounds
<1>3. /\ at[c] \in Nat /\ clock \in Nat /\ at[c] <= clock
      /\ grants[ip] \in Seq(Nat) /\ n \in Nat
      /\ Second \in Nat
  BY <1>1, SecondNat DEF Inv, TypeOK, ReadingInv
<1>4. /\ left \in Int /\ left <= Second
      /\ left >= 0 /\ left >= -Skew /\ left >= at[c] - clock
  BY <1>1, <1>2, <1>3, SMT
<1>5. /\ grants'[ip] = Append(grants[ip], at[c])
      /\ Len(grants'[ip]) = n + 1
      /\ grants'[ip][n + 1] = at[c]
      /\ \A i \in 1 .. n : grants'[ip][i] = grants[ip][i]
      /\ \A k \in IPs : k # ip => grants'[k] = grants[k]
      /\ grants' \in [IPs -> Seq(Nat)]
  BY <1>1, <1>3 DEF Inv, TypeOK
<1>6. ip \in buckets' /\ credit'[ip] = left /\ last'[ip] = at[c]
  BY <1>1 DEF Touch, Inv, TypeOK
<1>7. ASSUME NEW i \in 1 .. n
      PROVE  /\ Cost * ((n + 1) - i + 1) + left <= Second + at[c] - grants[ip][i]
             /\ Cost * ((n + 1) - i + 1) \in Int
             /\ grants[ip][i] \in Nat
  <2>1. Cost * (n - i + 1) + full <= Second + at[c] - grants[ip][i]
    BY <1>1, OwnPaid DEF Since
  <2>2. Cost * ((n + 1) - i + 1) = Cost * (n - i + 1) + Cost
    BY <1>3, OneMore
  <2>3. Cost * (n - i + 1) \in Int /\ grants[ip][i] \in Nat
    BY <1>3, SMT
  <2> QED
    BY <1>2, <1>3, <2>1, <2>2, <2>3, SMT
<1>8. Cost * ((n + 1) - (n + 1) + 1) = Cost
  BY <1>3, JustOne
<1> HIDE DEF left, n, full
<1>9. TypeOK' /\ ReadingInv' /\ BucketInv'
  BY <1>1, <1>4, <1>5, TouchInv DEF Inv, TypeOK
<1>10. PaidInv'
  <2> SUFFICES ASSUME NEW k \in IPs, NEW i \in 1 .. Len(grants'[k])
      PROVE /\ k \in buckets' =>
                 Cost * Since(k, i)' + credit'[k] <= Second + last'[k] - grants'[k][i]
            /\ k \notin buckets' =>
                 Cost * Since(k, i)' + Skew <= clock' - grants'[k][i]
    BY DEF PaidInv
  <2>1. CASE k # ip
    BY <1>1, <1>4, <1>5, <2>1, OthersPaid
  <2>2. CASE k = ip /\ i \in 1 .. n
    BY <1>5, <1>6, <1>7, <2>2 DEF Since
  <2>3. CASE k = ip /\ i = n + 1
    <3>1. Since(k, i)' = (n + 1) - (n + 1) + 1
      BY <1>5, <2>3 DEF Since
    <3>2. Cost + left = full
      BY <1>2, <1>4, SMT DEF left
    <3>3. full <= Second + at[c] - at[c]
      BY <1>2, <1>3, SMT
    <3> QED
      BY <1>5, <1>6, <1>8, <2>3, <3>1, <3>2, <3>3
  <2> QED
    BY <1>3, <1>5, <2>1, <2>2, <2>3
<1>11. RateBound'
  <2> SUFFICES ASSUME NEW k \in IPs,
                      NEW i \in DOMAIN grants'[k], NEW j \in DOMAIN grants'[k], i <= j
      PROVE Cost * (j - i + 1) <= Second + grants'[k][j] - grants'[k][i]
    BY DEF RateBound
  <2>1. CASE k # ip
    BY <1>5, <2>1 DEF Inv, RateBound
  <2>2. CASE k = ip /\ j \in 1 .. n
    <3>1. i \in 1 .. n /\ DOMAIN grants[ip] = 1 .. n
      BY <1>3, <1>5, <2>2 DEF n
    <3> QED
      BY <1>5, <2>2, <3>1 DEF Inv, RateBound
  <2>3. CASE k = ip /\ j = n + 1 /\ i \in 1 .. n
    <3>1. /\ Cost * ((n + 1) - i + 1) + left <= Second + at[c] - grants[ip][i]
          /\ Cost * ((n + 1) - i + 1) \in Int /\ grants[ip][i] \in Nat
      BY <1>7, <2>3
    <3>2. PICK cost \in Int : cost = Cost * ((n + 1) - i + 1)
      BY <3>1
    <3>4. cost \in Int /\ cost + left <= Second + at[c] - grants[ip][i]
      BY <3>1, <3>2
    <3>5. grants[ip][i] \in Nat
      BY <3>1
    <3>3. cost <= Second + at[c] - grants[ip][i]
      BY <1>3, <1>4, <3>4, <3>5
    <3> QED
      BY <1>5, <2>3, <3>2, <3>3
  <2>4. CASE k = ip /\ j = n + 1 /\ i = n + 1
    <3>1. Cost <= Second
      BY <1>1, <1>2, <1>3, SMT
    <3> QED
      BY <1>3, <1>5, <1>8, <2>4, <3>1, SMT
  <2>5. k = ip => i \in 1 .. (n + 1) /\ j \in 1 .. (n + 1)
    BY <1>3, <1>5
  <2>6. k = ip => \/ j \in 1 .. n
                  \/ j = n + 1 /\ i \in 1 .. n
                  \/ j = n + 1 /\ i = n + 1
    BY <1>3, <2>5, SMT
  <2> QED
    BY <2>1, <2>2, <2>3, <2>4, <2>6
<1> QED
  BY <1>9, <1>10, <1>11 DEF Inv

LEMMA TickInv == Inv /\ Tick => Inv'
<1> SUFFICES ASSUME Inv, Tick PROVE Inv'
  OBVIOUS
<1>1. TypeOK'
  BY SMT DEF Inv, TypeOK, Tick
<1>2. ReadingInv'
  BY SMT DEF Inv, TypeOK, ReadingInv, Tick
<1>3. BucketInv'
  BY SMT DEF Inv, TypeOK, BucketInv, Tick
<1>4. PaidInv'
  <2> SUFFICES ASSUME NEW k \in IPs, NEW i \in 1 .. Len(grants[k])
      PROVE /\ k \in buckets =>
                 Cost * Since(k, i) + credit[k] <= Second + last[k] - grants[k][i]
            /\ k \notin buckets =>
                 Cost * Since(k, i) + Skew <= (clock + 1) - grants[k][i]
    BY DEF PaidInv, Since, Tick
  <2> DEFINE paid == Cost * Since(k, i)
  <2>1. paid \in Int /\ grants[k][i] \in Nat /\ clock \in Nat
    BY SMT DEF Since, Inv, TypeOK
  <2>2. /\ k \in buckets => paid + credit[k] <= Second + last[k] - grants[k][i]
        /\ k \notin buckets => paid + Skew <= clock - grants[k][i]
    BY DEF Inv, PaidInv
  <2> HIDE DEF paid
  <2>3. k \notin buckets => paid + Skew <= (clock + 1) - grants[k][i]
    BY <2>1, <2>2, SMT
  <2> QED
    BY <2>2, <2>3 DEF paid
<1>5. RateBound'
  BY DEF Inv, RateBound, Tick
<1> QED
  BY <1>1, <1>2, <1>3, <1>4, <1>5 DEF Inv

LEMMA NowInv == ASSUME Inv, NEW c \in Callers, Now(c) PROVE Inv'
<1>1. TypeOK'
  BY SMT DEF Inv, TypeOK, Now
<1>2. ReadingInv'
  BY SMT DEF Inv, TypeOK, ReadingInv, Now
<1>3. BucketInv' /\ PaidInv' /\ RateBound'
  BY DEF Inv, BucketInv, PaidInv, Since, RateBound, Now
<1> QED
  BY <1>1, <1>2, <1>3 DEF Inv

LEMMA NextInv == Inv /\ [Next]_vars => Inv'
<1> SUFFICES ASSUME Inv, [Next]_vars PROVE Inv'
  OBVIOUS
<1>1. CASE Tick
  BY <1>1, TickInv
<1>2. ASSUME NEW c \in Callers, Now(c) PROVE Inv'
  BY <1>2, NowInv
<1>3. ASSUME NEW c \in Callers, NEW ip \in IPs, Grant(c, ip) PROVE Inv'
  BY <1>3, GrantInv
<1>4. ASSUME NEW c \in Callers, NEW ip \in IPs, Deny(c, ip) PROVE Inv'
  BY <1>4, DenyInv
<1>5. CASE UNCHANGED vars
  BY <1>5 DEF vars, Inv, TypeOK, ReadingInv, BucketInv, PaidInv, Since, RateBound
<1> QED
  BY <1>1, <1>2, <1>3, <1>4, <1>5 DEF Next

\* Allow keeps every variable in its type: no bucket holds more than rps
\* tokens, and the clock readings stay readings.
THEOREM TypeCorrect == Spec => []TypeOK
<1>1. Spec => []Inv
  BY InitInv, NextInv, PTL DEF Spec
<1>2. Inv => TypeOK
  BY DEF Inv
<1> QED
  BY <1>1, <1>2, PTL

\* The limiter's promise for every RATE_LIMIT_RPS, every number of clients and
\* concurrent callers and any order of reaching the mutex.
THEOREM RateLimited == Spec => []RateBound
<1>1. Spec => []Inv
  BY InitInv, NextInv, PTL DEF Spec
<1>2. Inv => RateBound
  BY DEF Inv
<1> QED
  BY <1>1, <1>2, PTL

-----------------------------------------------------------------------------
(* A denial is deserved.  Since the bucket was last full, its credit is the *)
(* time that passed less what the grants took, and grants applied since a   *)
(* moment have readings no older than that moment less the skew.            *)

\* What the recent grants before t took, and what is left, is a full bucket
\* but for the time that may have been capped away.
SpentInv ==
  \A ip \in buckets : \A t \in Int :
    \/ Cost * Cardinality(Recent(ip, t)) + credit[ip] >= Second + last[ip] - t
    \/ Cost * Cardinality(Recent(ip, t)) + credit[ip] >= Second + last[ip] - clock

LEMMA RecentNat ==
  ASSUME Inv, NEW ip \in IPs, NEW t \in Int
  PROVE  /\ IsFiniteSet(Recent(ip, t))
         /\ Cardinality(Recent(ip, t)) \in Nat
         /\ Cost * Cardinality(Recent(ip, t)) \in Nat
<1>1. Len(grants[ip]) \in Nat /\ DOMAIN grants[ip] = 1 .. Len(grants[ip])
  BY DEF Inv, TypeOK
<1>2. IsFiniteSet(1 .. Len(grants[ip]))
  BY <1>1, FS_Interval
<1>3. IsFiniteSet(Recent(ip, t))
  BY <1>1, <1>2, FS_Subset DEF Recent
<1>4. Cardinality(Recent(ip, t)) \in Nat
  BY <1>3, FS_CardinalityType
<1>5. \A n \in Nat : Cost * n \in Nat
  BY SMT
<1> QED
  BY <1>3, <1>4, <1>5

\* A grant whose reading is recent enough is one more; the others stay.
LEMMA RecentGrows ==
  ASSUME Inv, NEW c \in Callers, NEW ip \in IPs, Grant(c, ip), NEW t \in Int
  PROVE  /\ at[c] > t - Second - Skew =>
              Cost * Cardinality(Recent(ip, t)') = Cost * Cardinality(Recent(ip, t)) + Cost
         /\ at[c] <= t - Second - Skew => Recent(ip, t)' = Recent(ip, t)
<1> DEFINE n == Len(grants[ip])
<1>1. /\ at[c] \in Nat /\ grants[ip] \in Seq(Nat) /\ n \in Nat
      /\ DOMAIN grants[ip] = 1 .. n /\ Second \in Nat
  BY SecondNat DEF Inv, TypeOK
<1>2. grants'[ip] = Append(grants[ip], at[c])
  BY DEF Grant, Inv, TypeOK
<1>3. /\ DOMAIN grants'[ip] = 1 .. (n + 1)
      /\ grants'[ip][n + 1] = at[c]
      /\ \A i \in 1 .. n : grants'[ip][i] = grants[ip][i]
  BY <1>1, <1>2
<1> HIDE DEF n
<1>4. at[c] <= t - Second - Skew => Recent(ip, t)' = Recent(ip, t)
  BY <1>1, <1>3 DEF Recent
<1>5. ASSUME at[c] > t - Second - Skew
      PROVE  Cost * Cardinality(Recent(ip, t)') = Cost * Cardinality(Recent(ip, t)) + Cost
  <2>1. Recent(ip, t)' = Recent(ip, t) \union {n + 1} /\ n + 1 \notin Recent(ip, t)
    BY <1>1, <1>3, <1>5 DEF Recent
  <2>2. Cardinality(Recent(ip, t)') = Cardinality(Recent(ip, t)) + 1
    BY <2>1, RecentNat, FS_AddElement
  <2>3. \A k \in Nat : Cost * (k + 1) = Cost * k + Cost
    BY SMT
  <2> QED
    BY <2>2, <2>3, RecentNat
<1> QED
  BY <1>4, <1>5

\* The buckets an Allow for another client leaves are as they were.
LEMMA OthersSpent ==
  ASSUME Inv, SpentInv, NEW c \in Callers, NEW ip \in IPs, NEW left \in Int,
         Touch(c, ip, left), NEW k \in buckets', k # ip, grants'[k] = grants[k],
         NEW t \in Int
  PROVE  \/ Cost * Cardinality(Recent(k, t)') + credit'[k] >= Second + last'[k] - t
         \/ Cost * Cardinality(Recent(k, t)') + credit'[k] >= Second + last'[k] - clock'
<1>1. k \in buckets /\ k \in IPs
  BY DEF Touch, Survivors, Inv, TypeOK
<1>2. credit'[k] = credit[k] /\ last'[k] = last[k] /\ clock' = clock
  BY <1>1 DEF Touch, Inv, TypeOK
<1>3. Recent(k, t)' = Recent(k, t)
  BY DEF Recent
<1> QED
  BY <1>1, <1>2, <1>3 DEF SpentInv

\* A caller that is denied found a bucket, and nothing was capped.
LEMMA DeniedUncapped ==
  ASSUME Inv, NEW c \in Callers, NEW ip \in IPs, Deny(c, ip)
  PROVE  /\ ip \in buckets
         /\ Refilled(ip, at[c]) = credit[ip] + at[c] - last[ip]
         /\ credit[ip] + at[c] - last[ip] < Cost
<1>1. /\ at[c] \in Nat /\ credit[ip] \in Int /\ last[ip] \in Nat /\ Second \in Nat
  BY SecondNat DEF Inv, TypeOK
<1>2. Cost <= Second
  BY SMT DEF Second
<1> QED
  BY <1>1, <1>2 DEF Deny, Refilled, Survivors

LEMMA DenySpent ==
  ASSUME Inv, SpentInv, NEW c \in Callers, NEW ip \in IPs, Deny(c, ip)
  PROVE  SpentInv'
<1> DEFINE left == Refilled(ip, at[c])
<1>1. /\ wants[c] = ip /\ Touch(c, ip, left) /\ grants' = grants
  BY DEF Deny
<1>2. left \in Int
  BY <1>1, RefilledBounds
<1> SUFFICES ASSUME NEW k \in buckets', NEW t \in Int
    PROVE \/ Cost * Cardinality(Recent(k, t)') + credit'[k] >= Second + last'[k] - t
          \/ Cost * Cardinality(Recent(k, t)') + credit'[k] >= Second + last'[k] - clock'
  BY DEF SpentInv
<1>3. CASE k # ip
  BY <1>1, <1>2, <1>3, OthersSpent
<1>4. CASE k = ip
  <2>1. ip \in buckets /\ left = credit[ip] + at[c] - last[ip]
    BY DeniedUncapped
  <2> HIDE DEF left
  <2>2. credit'[ip] = left /\ last'[ip] = at[c] /\ clock' = clock
    BY <1>1 DEF Touch, Inv, TypeOK
  <2>3. Recent(ip, t)' = Recent(ip, t)
    BY <1>1 DEF Recent
  <2>4. PICK spent \in Nat : spent = Cost * Cardinality(Recent(ip, t))
    BY RecentNat
  <2>5. \/ spent + credit[ip] >= Second + last[ip] - t
        \/ spent + credit[ip] >= Second + last[ip] - clock
    BY <2>1, <2>4 DEF SpentInv
  <2>6. /\ at[c] \in Nat /\ credit[ip] \in Int /\ last[ip] \in Nat /\ Second \in Nat
        /\ clock \in Nat
    BY SecondNat DEF Inv, TypeOK
  <2>7. \/ spent + left >= Second + at[c] - t
        \/ spent + left >= Second + at[c] - clock
    BY <2>1, <2>4, <2>5, <2>6
  <2> QED
    BY <1>4, <2>2, <2>3, <2>4, <2>7
<1> QED
  BY <1>3, <1>4

LEMMA GrantSpent ==
  ASSUME Inv, SpentInv, NEW c \in Callers, NEW ip \in IPs, Grant(c, ip)
  PROVE  SpentInv'
<1> DEFINE full == Refilled(ip, at[c])
           left == full - Cost
<1>1. /\ wants[c] = ip /\ Touch(c, ip, left) /\ full >= Cost
      /\ \A k \in IPs \ {ip} : grants'[k] = grants[k]
  BY DEF Grant, Inv, TypeOK
<1>2. full \in Int /\ left \in Int
  BY <1>1, RefilledBounds
<1>3. /\ at[c] \in Nat /\ credit[ip] \in Int /\ last[ip] \in Nat /\ Second \in Nat
      /\ clock \in Nat /\ at[c] <= clock /\ clock <= at[c] + Skew
  BY <1>1, SecondNat DEF Inv, TypeOK, ReadingInv
<1>4. \/ full = Second
      \/ ip \in buckets /\ full = credit[ip] + at[c] - last[ip]
  BY <1>3 DEF Refilled, Survivors
<1> SUFFICES ASSUME NEW k \in buckets', NEW t \in Int
    PROVE \/ Cost * Cardinality(Recent(k, t)') + credit'[k] >= Second + last'[k] - t
          \/ Cost * Cardinality(Recent(k, t)') + credit'[k] >= Second + last'[k] - clock'
  BY DEF SpentInv
<1> HIDE DEF full
<1>5. CASE k # ip
  <2>1. k \in IPs
    BY <1>1 DEF Touch, Survivors, Inv, TypeOK
  <2> QED
    BY <1>1, <1>2, <1>5, <2>1, OthersSpent
<1>6. CASE k = ip
  <2>1. credit'[ip] = left /\ last'[ip] = at[c] /\ clock' = clock
    BY <1>1 DEF Touch, Inv, TypeOK
  <2>2. PICK spent \in Nat : spent = Cost * Cardinality(Recent(ip, t))
    BY RecentNat
  <2>3. CASE at[c] <= t - Second - Skew
    <3>1. Recent(ip, t)' = Recent(ip, t)
      BY <2>3, RecentGrows
    <3>2. spent + left >= Second + at[c] - t
      BY <1>1, <1>2, <1>3, <2>2, <2>3
    <3> QED
      BY <1>6, <2>1, <2>2, <3>1, <3>2
  <2>4. CASE at[c] > t - Second - Skew
    <3>1. Cost * Cardinality(Recent(ip, t)') = spent + Cost
      BY <2>2, <2>4, RecentGrows
    <3>2. spent + full = (spent + Cost) + left
      BY <1>2, <2>2
    <3>3. CASE full = Second
      <4>1. spent + full >= Second + at[c] - clock
        BY <1>3, <2>2, <3>3
      <4> QED
        BY <1>6, <2>1, <3>1, <3>2, <4>1
    <3>4. CASE ip \in buckets /\ full = credit[ip] + at[c] - last[ip]
      <4>1. \/ spent + credit[ip] >= Second + last[ip] - t
            \/ spent + credit[ip] >= Second + last[ip] - clock
        BY <2>2, <3>4 DEF SpentInv
      <4>2. \/ spent + full >= Second + at[c] - t
            \/ spent + full >= Second + at[c] - clock
        BY <1>3, <2>2, <3>4, <4>1
      <4> QED
        BY <1>6, <2>1, <3>1, <3>2, <4>2
    <3> QED
      BY <1>4, <3>3, <3>4
  <2> QED
    BY <1>3, <2>3, <2>4
<1> QED
  BY <1>5, <1>6

LEMMA TickSpent == Inv /\ SpentInv /\ Tick => SpentInv'
<1> SUFFICES ASSUME Inv, SpentInv, Tick, NEW k \in buckets, NEW t \in Int
    PROVE \/ Cost * Cardinality(Recent(k, t)) + credit[k] >= Second + last[k] - t
          \/ Cost * Cardinality(Recent(k, t)) + credit[k] >= Second + last[k] - (clock + 1)
  BY DEF SpentInv, Tick, Recent
<1>1. k \in IPs /\ clock \in Nat
  BY DEF Inv, TypeOK
<1>2. credit[k] \in Int /\ last[k] \in Nat /\ Second \in Nat
  BY <1>1, SecondNat DEF Inv, TypeOK
<1>3. PICK spent \in Nat : spent = Cost * Cardinality(Recent(k, t))
  BY <1>1, RecentNat
<1>4. \/ spent + credit[k] >= Second + last[k] - t
      \/ spent + credit[k] >= Second + last[k] - clock
  BY <1>3 DEF SpentInv
<1>5. \/ spent + credit[k] >= Second + last[k] - t
      \/ spent + credit[k] >= Second + last[k] - (clock + 1)
  BY <1>1, <1>2, <1>3, <1>4
<1> QED
  BY <1>3, <1>5

LEMMA SpentNext == Inv /\ SpentInv /\ [Next]_vars => SpentInv'
<1> SUFFICES ASSUME Inv, SpentInv, [Next]_vars PROVE SpentInv'
  OBVIOUS
<1>1. ASSUME NEW c \in Callers, Now(c) PROVE SpentInv'
  BY <1>1 DEF Now, SpentInv, Recent
<1>2. CASE UNCHANGED vars
  BY <1>2 DEF vars, SpentInv, Recent
<1> QED
  BY <1>1, <1>2, TickSpent, GrantSpent, DenySpent DEF Next

\* What a denial tells of the grants, in a state of SpentInv.
LEMMA Deserved ==
  ASSUME Inv, SpentInv, NEW c \in Callers, NEW ip \in IPs, Deny(c, ip)
  PROVE  Cost * (Cardinality(Recent(ip, at[c])) + 1) + Skew > Second
<1>1. /\ at[c] \in Nat /\ credit[ip] \in Int /\ last[ip] \in Nat /\ Second \in Nat
      /\ clock \in Nat /\ clock <= at[c] + Skew
  BY SecondNat DEF Deny, Inv, TypeOK, ReadingInv
<1>2. ip \in buckets /\ credit[ip] + at[c] - last[ip] < Cost
  BY DeniedUncapped
<1>3. PICK spent \in Nat : spent = Cost * Cardinality(Recent(ip, at[c]))
  BY <1>1, RecentNat
<1>4. \/ spent + credit[ip] >= Second + last[ip] - at[c]
      \/ spent + credit[ip] >= Second + last[ip] - clock
  BY <1>1, <1>2, <1>3 DEF SpentInv
<1>5. spent + Cost + Skew > Second
  BY <1>1, <1>2, <1>3, <1>4
<1>6. \A k \in Nat : Cost * (k + 1) = Cost * k + Cost
  BY SMT
<1>7. Cardinality(Recent(ip, at[c])) \in Nat
  BY <1>1, RecentNat
<1>8. Cost * (Cardinality(Recent(ip, at[c])) + 1) = spent + Cost
  BY <1>3, <1>6, <1>7
<1> QED
  BY <1>5, <1>8

\* Allow: whoever is answered 429 had, up to the skew, a full second's worth of
\* grants within the second before, for every rate and any number of callers.
THEOREM DenialsDeserved == Spec => DenialDeserved
<1>1. Init => SpentInv
  BY DEF Init, SpentInv
<1>2. Inv /\ SpentInv /\ [Next]_vars =>
        [\A c \in Callers, ip \in IPs :
           Deny(c, ip) => Cost * (Cardinality(Recent(ip, at[c])) + 1) + Skew > Second]_vars
  BY Deserved
<1> QED
  BY <1>1, <1>2, InitInv, NextInv, SpentNext, PTL DEF Spec, DenialDeserved
=============================================================================
