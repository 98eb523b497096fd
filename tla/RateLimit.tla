------------------------------ MODULE RateLimit ------------------------------
(***************************************************************************)
(* The token bucket per client IP that decides between the mock response   *)
(* and 429 (ratelimit.Limiter, RATE_LIMIT_RPS > 0).                        *)
(*                                                                         *)
(* Time is counted in ticks.  One token is worth Cost ticks of refilling,  *)
(* so that a bucket of rps tokens fills in Second = rps * Cost ticks, and  *)
(* credit is tokens * Cost.  In this unit the refill of dt is dt itself.   *)
(*                                                                         *)
(* Allow reads the clock BEFORE it takes the mutex, so callers may apply   *)
(* their readings out of order.  Skew bounds how long a caller waits for   *)
(* the mutex.  The float64 of the code is an exact integer here.           *)
(***************************************************************************)
EXTENDS Integers, Sequences, FiniteSets

CONSTANTS
  IPs,      \* client addresses
  Callers,  \* goroutines that call Allow
  NoIP,     \* the caller is not inside Allow
  Cost,     \* ticks in which one token is refilled
  Rps,      \* l.rps, the burst
  Idle,     \* ticks after which a bucket is swept (time.Minute)
  Skew,     \* the longest wait for the mutex
  MaxClock  \* bound: the clock stops here

Second == Rps * Cost

ASSUME RateLimitAssumption ==
  /\ NoIP \notin IPs
  /\ Cost \in Nat \ {0}
  /\ Rps \in Nat \ {0}
  /\ Skew \in Nat
  /\ MaxClock \in Nat
  /\ Idle \in Nat
  /\ Idle >= Second + 2 * Skew

VARIABLES
  clock,    \* time.Now
  wants,    \* the ip a caller asks for; NoIP outside Allow
  at,       \* t, the caller's reading of the clock
  buckets,  \* the ips that have a bucket
  credit,   \* b.tokens, in ticks
  last,     \* b.last, and b.seen, which is always assigned with it
  grants    \* history: the readings t for which Allow returned true

vars == <<clock, wants, at, buckets, credit, last, grants>>

TypeOK ==
  /\ clock \in 0 .. MaxClock
  /\ wants \in [Callers -> IPs \union {NoIP}]
  /\ at \in [Callers -> Nat]
  /\ buckets \subseteq IPs
  /\ credit \in [IPs -> Int]
  /\ \A ip \in IPs : credit[ip] <= Second
  /\ last \in [IPs -> Nat]
  /\ grants \in [IPs -> Seq(Nat)]

Init ==
  /\ clock = 0
  /\ wants = [c \in Callers |-> NoIP]
  /\ at = [c \in Callers |-> 0]
  /\ buckets = {}
  /\ credit = [ip \in IPs |-> 0]
  /\ last = [ip \in IPs |-> 0]
  /\ grants = [ip \in IPs |-> <<>>]

\* Time passes, but no caller waits longer than Skew for the mutex.
Tick ==
  /\ clock < MaxClock
  /\ \A c \in Callers : wants[c] # NoIP => clock < at[c] + Skew
  /\ clock' = clock + 1
  /\ UNCHANGED <<wants, at, buckets, credit, last, grants>>

\* t := l.now()
Now(c) ==
  /\ wants[c] = NoIP
  /\ \E ip \in IPs : wants' = [wants EXCEPT ![c] = ip]
  /\ at' = [at EXCEPT ![c] = clock]
  /\ UNCHANGED <<clock, buckets, credit, last, grants>>

-----------------------------------------------------------------------------
\* Under the mutex, with the reading t of caller c.

\* Mutant: seconds taken for minutes, buckets are swept early.
SurvivorsEarly(t) == {k \in buckets : t - last[k] <= 1}

\* The buckets the opportunistic sweep leaves.
Survivors(t) == {k \in buckets : t - last[k] <= Idle}

\* Mutant: the refill is not capped.
RefilledUncapped(ip, t) ==
  IF ip \in Survivors(t) THEN credit[ip] + (t - last[ip]) ELSE Second

\* Mutant: a new bucket starts empty.
RefilledEmpty(ip, t) ==
  IF ip \notin Survivors(t) THEN 0
  ELSE IF credit[ip] + (t - last[ip]) > Second THEN Second
  ELSE credit[ip] + (t - last[ip])

\* The credit after the refill, capped; a new bucket starts full.
Refilled(ip, t) ==
  IF ip \notin Survivors(t) \/ credit[ip] + (t - last[ip]) > Second
  THEN Second
  ELSE credit[ip] + (t - last[ip])

\* Both outcomes: the bucket exists and carries the reading t.
Touch(c, ip, left) ==
  /\ buckets' = Survivors(at[c]) \union {ip}
  /\ credit' = [credit EXCEPT ![ip] = left]
  /\ last' = [last EXCEPT ![ip] = at[c]]
  /\ wants' = [wants EXCEPT ![c] = NoIP]
  /\ at' = [at EXCEPT ![c] = 0]
  /\ UNCHANGED clock

Grant(c, ip) ==
  /\ wants[c] = ip
  /\ Refilled(ip, at[c]) >= Cost
  /\ Touch(c, ip, Refilled(ip, at[c]) - Cost)
  /\ grants' = [grants EXCEPT ![ip] = Append(@, at[c])]

Deny(c, ip) ==
  /\ wants[c] = ip
  /\ Refilled(ip, at[c]) < Cost
  /\ Touch(c, ip, Refilled(ip, at[c]))
  /\ UNCHANGED grants

Next ==
  \/ Tick
  \/ \E c \in Callers : Now(c) \/ \E ip \in IPs : Grant(c, ip) \/ Deny(c, ip)

Spec == Init /\ [][Next]_vars

-----------------------------------------------------------------------------
\* The limit itself, over any two grants to one client and whatever order the
\* callers reached the mutex in: the grants from the i-th to the j-th are paid
\* for by one full bucket and the time between their readings.  Sweeping a
\* bucket and starting a full one never lends a client a second burst.
RateBound ==
  \A ip \in IPs : \A i, j \in DOMAIN grants[ip] :
    i <= j =>
      Cost * (j - i + 1) <= Second + grants[ip][j] - grants[ip][i]

Recent(ip, t) == {i \in DOMAIN grants[ip] : grants[ip][i] > t - Second - Skew}

\* A denial is deserved: up to the skew, the client used a full second's worth
\* of grants within the second before the reading that was denied.
DenialDeserved ==
  [][\A c \in Callers, ip \in IPs : Deny(c, ip) => Cost * (Cardinality(Recent(ip, at[c])) + 1) + Skew > Second]_vars

\* ratelimit.go: "Limiter allows rps requests per second with bursts up to
\* rps": a client that was granted fewer than rps requests is not denied.
BurstAllowed ==
  [][\A c \in Callers, ip \in IPs :
       Deny(c, ip) => Len(grants[ip]) >= Rps]_vars
=============================================================================
