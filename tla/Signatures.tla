------------------------------ MODULE Signatures ------------------------------
(***************************************************************************)
(* Verifying and re-signing: verify.Chain and verify.RefreshSignatures.    *)
(*                                                                         *)
(* Headers are a function from the names that are present to values; that  *)
(* of "Connection" is the set of the names in its first line.  An          *)
(* HMAC is what it was made from, so that two are equal exactly if they    *)
(* were made from the same; the encodings differ by provider and tell two  *)
(* providers' signatures apart only by their header.  A time is "fresh"    *)
(* within five minutes of the verifier's clock and "old" otherwise.        *)
(***************************************************************************)
EXTENDS Naturals, Sequences

CONSTANTS
  Secrets,   \* signing secrets
  Base64,    \* those that are valid base64 behind "whsec_"
  NoSecret   \* the empty secret

ASSUME SignaturesAssumption == NoSecret \notin Secrets /\ Base64 \subseteq Secrets

Providers == {"stripe", "github", "standard", "razorpay", "shopify"}

\* What an endpoint may be configured with; "" and the last two detect.
Hints == Providers \union {"", "generic", "auto"}

\* The headers that make a provider's Detect true.
Marks == [
  stripe   |-> {"Stripe-Signature"},
  github   |-> {"X-Hub-Signature-256", "X-Hub-Signature"},
  standard |-> {"Webhook-Signature", "Svix-Signature"},
  razorpay |-> {"X-Razorpay-Signature"},
  shopify  |-> {"X-Shopify-Hmac-Sha256", "X-Shopify-Topic"}]

Detect(p, h) == Marks[p] \intersect DOMAIN h # {}

\* The header that carries the signature, except for "standard".
Carrier == [
  stripe   |-> "Stripe-Signature",
  github   |-> "X-Hub-Signature-256",
  razorpay |-> "X-Razorpay-Signature",
  shopify  |-> "X-Shopify-Hmac-Sha256"]

\* What is signed: Stripe signs a time with the body, Standard Webhooks an
\* identity and a time, the others the body alone.
Hmac(secret, id, time, body) ==
  [secret |-> secret, id |-> id, time |-> time, body |-> body]

Timed(p, time) == IF p = "stripe" THEN time ELSE "none"

\* headerLookup of one name and, if it is not there, of the other.
Either(h, a, b) ==
  IF a \in DOMAIN h THEN {h[a]} ELSE IF b \in DOMAIN h THEN {h[b]} ELSE {}

\* Verifier.Verify returns PASS: of the providers with one signature header,
SignedOnce(p, secret, h, body) ==
  /\ Carrier[p] \in DOMAIN h
  /\ h[Carrier[p]] = Hmac(secret, "none", Timed(p, "fresh"), body)

\* of Standard Webhooks, which looks for each header in both shapes,
SignedStandard(secret, h, body) ==
  /\ secret \in Base64
  /\ \E id \in Either(h, "Webhook-Id", "Svix-Id"),
        time \in Either(h, "Webhook-Timestamp", "Svix-Timestamp"),
        signature \in Either(h, "Webhook-Signature", "Svix-Signature") :
       time = "fresh" /\ signature = Hmac(secret, id, time, body)

\* of any.
Passes(p, secret, h, body) ==
  /\ secret # NoSecret
  /\ IF p = "standard" THEN SignedStandard(secret, h, body) ELSE SignedOnce(p, secret, h, body)

\* The order in which Chain asks them.
Detectors == <<"stripe", "github", "standard", "razorpay", "shopify">>

Found(h) == {i \in DOMAIN Detectors : Detect(Detectors[i], h)}

\* The provider Chain reports, to be kept in verified_by: the one configured,
\* even if its headers are not there, or the first that detects its headers.
VerifiedBy(hint, h) ==
  IF hint \in Providers THEN hint
  ELSE IF Found(h) = {} THEN "generic"
  ELSE Detectors[CHOOSE i \in Found(h) : \A j \in Found(h) : i <= j]

\* The status it reports, to be kept in verify_status.
Status(secret, hint, h, body) ==
  LET p == VerifiedBy(hint, h) IN
  IF p = "generic" \/ ~Detect(p, h) THEN "SKIPPED"
  ELSE IF Passes(p, secret, h, body) THEN "PASS" ELSE "FAIL"

\* Mutant: the endpoint's present provider comes first.
ConfiguredFirst(verifiedBy, provider) ==
  IF provider \in {"", "generic"} THEN verifiedBy ELSE provider

\* SendWithOptions: for whom a stored request is signed anew.
Effective(verifiedBy, provider) ==
  IF verifiedBy \in {"", "generic"} THEN provider ELSE verifiedBy

\* RefreshSignatures returns headers, and no error.
CanRefresh(p, secret, h) ==
  /\ p \in Providers
  /\ secret # NoSecret
  /\ p = "standard" =>
       secret \in Base64 /\ Either(h, "Webhook-Id", "Svix-Id") # {}

\* Mutant: a svix message gets its signature, and keeps its time.
RefreshKeepsTime(p, secret, h, body) ==
  IF p = "standard"
  THEN [name \in {"Svix-Signature"} |->
          Hmac(secret, CHOOSE id \in Either(h, "Webhook-Id", "Svix-Id") : TRUE, "fresh", body)]
  ELSE [name \in {Carrier[p]} |-> Hmac(secret, "none", Timed(p, "fresh"), body)]

\* The headers it returns.
Refresh(p, secret, h, body) ==
  IF p = "standard"
  THEN LET prefix == IF "Svix-Signature" \in DOMAIN h THEN "Svix" ELSE "Webhook"
           stamp == IF prefix = "Svix" THEN "Svix-Timestamp" ELSE "Webhook-Timestamp"
           id == CHOOSE x \in Either(h, "Webhook-Id", "Svix-Id") : TRUE
       IN [name \in {stamp, IF prefix = "Svix" THEN "Svix-Signature" ELSE "Webhook-Signature"} |->
             IF name = stamp THEN "fresh" ELSE Hmac(secret, id, "fresh", body)]
  ELSE [name \in {Carrier[p]} |-> Hmac(secret, "none", Timed(p, "fresh"), body)]

\* The stored headers below those that were made anew.
Merged(fresh, h) ==
  [name \in DOMAIN fresh \union DOMAIN h |->
     IF name \in DOMAIN fresh THEN fresh[name] ELSE h[name]]

\* hopHeaders: what a Connection header names beside the standard ones.
Named(h) == IF "Connection" \in DOMAIN h THEN h["Connection"] ELSE {}

\* StripHopByHop: those headers and Connection itself are not sent.
Stripped(h) == [name \in DOMAIN h \ (Named(h) \union {"Connection"}) |-> h[name]]

\* Headers of Standard Webhooks in both shapes: Refresh signs the svix ones,
\* Passes looks at the others first.
TwoShapes(h) ==
  /\ "Svix-Signature" \in DOMAIN h
  /\ {"Webhook-Timestamp", "Webhook-Signature"} \intersect DOMAIN h # {}

\* The headers Verify of p reads.
Reads(p) ==
  IF p = "standard"
  THEN {"Webhook-Id", "Webhook-Timestamp", "Webhook-Signature",
        "Svix-Id", "Svix-Timestamp", "Svix-Signature"}
  ELSE {Carrier[p]}

\* What re-signing for p cannot be relied upon to mend: both shapes, and a
\* Connection header that takes one of these headers off what is sent, the
\* fresh signature included.
Excepted(p, h) ==
  \/ p = "standard" /\ TwoShapes(h)
  \/ Named(h) \intersect Reads(p) # {}
=============================================================================
