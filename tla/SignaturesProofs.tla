--------------------------- MODULE SignaturesProofs ---------------------------
(***************************************************************************)
(* What RefreshSignatures makes is what Verify looks for, for all headers, *)
(* secrets and bodies: the signature is put under a name of the provider's *)
(* marks, the merge lets the fresh values win, and for Standard Webhooks   *)
(* the shape that is looked at first is the one that was signed, unless    *)
(* the headers have both.  StripHopByHop then leaves what the provider     *)
(* reads, unless the stored Connection header names it.                    *)
(***************************************************************************)
EXTENDS Signatures, TLAPS

\* The name each provider's signature is sent under is one of its marks.
LEMMA CarriersMark ==
  \A p \in Providers \ {"standard"} : Carrier[p] \in Marks[p]
BY DEF Providers, Carrier, Marks

\* headerLookup finds one value at most, and the same one in headers that
\* agree on the two names.
LEMMA EitherFacts ==
  ASSUME NEW h, NEW g, NEW a, NEW b,
         a \in DOMAIN h <=> a \in DOMAIN g, b \in DOMAIN h <=> b \in DOMAIN g,
         a \in DOMAIN h => h[a] = g[a], b \in DOMAIN h => h[b] = g[b]
  PROVE  Either(h, a, b) = Either(g, a, b)
BY DEF Either

\* The id a message is signed with is the one it is verified with.
LEMMA OneId ==
  ASSUME NEW h, NEW a, NEW b, Either(h, a, b) # {}
  PROVE  (CHOOSE x \in Either(h, a, b) : TRUE) \in Either(h, a, b)
OBVIOUS

\* Providers with one signature header.
LEMMA SignedOncePasses ==
  ASSUME NEW p \in Providers \ {"standard"}, NEW secret, NEW h, NEW body
  PROVE  LET sent == Merged(Refresh(p, secret, h, body), h) IN
         Detect(p, sent) /\ SignedOnce(p, secret, sent, body)
<1> DEFINE fresh == Refresh(p, secret, h, body)
           sent == Merged(fresh, h)
<1>1. fresh = [name \in {Carrier[p]} |-> Hmac(secret, "none", Timed(p, "fresh"), body)]
  BY DEF Refresh
<1>2. DOMAIN fresh = {Carrier[p]} /\ fresh[Carrier[p]] = Hmac(secret, "none", Timed(p, "fresh"), body)
  BY <1>1
<1> HIDE DEF fresh
<1>3. Carrier[p] \in DOMAIN sent /\ sent[Carrier[p]] = fresh[Carrier[p]]
  BY <1>2 DEF Merged
<1> HIDE DEF sent
<1>4. Detect(p, sent)
  BY <1>3, CarriersMark DEF Detect
<1>5. SignedOnce(p, secret, sent, body)
  BY <1>2, <1>3 DEF SignedOnce
<1> QED
  BY <1>4, <1>5 DEF sent, fresh

\* Standard Webhooks, signed in the shape of svix.
LEMMA SvixPasses ==
  ASSUME NEW secret \in Base64, NEW h, NEW body,
         Either(h, "Webhook-Id", "Svix-Id") # {},
         "Svix-Signature" \in DOMAIN h, ~TwoShapes(h)
  PROVE  LET sent == Merged(Refresh("standard", secret, h, body), h) IN
         Detect("standard", sent) /\ SignedStandard(secret, sent, body)
<1> DEFINE fresh == Refresh("standard", secret, h, body)
           sent == Merged(fresh, h)
           id == CHOOSE x \in Either(h, "Webhook-Id", "Svix-Id") : TRUE
<1>1. /\ DOMAIN fresh = {"Svix-Timestamp", "Svix-Signature"}
      /\ fresh["Svix-Timestamp"] = "fresh"
      /\ fresh["Svix-Signature"] = Hmac(secret, id, "fresh", body)
  BY DEF Refresh
<1> HIDE DEF fresh
<1>2. /\ "Webhook-Timestamp" \notin DOMAIN h
      /\ "Webhook-Signature" \notin DOMAIN h
  BY DEF TwoShapes
<1>3. DOMAIN sent = {"Svix-Timestamp", "Svix-Signature"} \union DOMAIN h
  BY <1>1 DEF Merged
<1>4. /\ sent["Svix-Timestamp"] = "fresh"
      /\ sent["Svix-Signature"] = Hmac(secret, id, "fresh", body)
  BY <1>1 DEF Merged
<1>5. Either(sent, "Webhook-Id", "Svix-Id") = Either(h, "Webhook-Id", "Svix-Id")
  <2>1. \A name \in {"Webhook-Id", "Svix-Id"} :
          /\ name \in DOMAIN h <=> name \in DOMAIN sent
          /\ name \in DOMAIN h => h[name] = sent[name]
    BY <1>1, <1>3 DEF Merged
  <2> HIDE DEF sent
  <2> QED
    BY <2>1, EitherFacts
<1> HIDE DEF sent
<1>6. Either(sent, "Webhook-Timestamp", "Svix-Timestamp") = {"fresh"}
  BY <1>2, <1>3, <1>4 DEF Either
<1>7. Either(sent, "Webhook-Signature", "Svix-Signature") = {Hmac(secret, id, "fresh", body)}
  BY <1>2, <1>3, <1>4 DEF Either
<1>8. id \in Either(sent, "Webhook-Id", "Svix-Id")
  BY <1>5, OneId
<1> HIDE DEF id
<1>9. SignedStandard(secret, sent, body)
  BY <1>6, <1>7, <1>8 DEF SignedStandard
<1>10. Detect("standard", sent)
  BY <1>3 DEF Detect, Marks
<1> QED
  BY <1>9, <1>10 DEF sent, fresh

\* Standard Webhooks, signed in its own shape, which is looked at first.
LEMMA WebhookPasses ==
  ASSUME NEW secret \in Base64, NEW h, NEW body,
         Either(h, "Webhook-Id", "Svix-Id") # {},
         "Svix-Signature" \notin DOMAIN h
  PROVE  LET sent == Merged(Refresh("standard", secret, h, body), h) IN
         Detect("standard", sent) /\ SignedStandard(secret, sent, body)
<1> DEFINE fresh == Refresh("standard", secret, h, body)
           sent == Merged(fresh, h)
           id == CHOOSE x \in Either(h, "Webhook-Id", "Svix-Id") : TRUE
<1>1. /\ DOMAIN fresh = {"Webhook-Timestamp", "Webhook-Signature"}
      /\ fresh["Webhook-Timestamp"] = "fresh"
      /\ fresh["Webhook-Signature"] = Hmac(secret, id, "fresh", body)
  BY DEF Refresh
<1> HIDE DEF fresh
<1>3. DOMAIN sent = {"Webhook-Timestamp", "Webhook-Signature"} \union DOMAIN h
  BY <1>1 DEF Merged
<1>4. /\ sent["Webhook-Timestamp"] = "fresh"
      /\ sent["Webhook-Signature"] = Hmac(secret, id, "fresh", body)
  BY <1>1 DEF Merged
<1>5. Either(sent, "Webhook-Id", "Svix-Id") = Either(h, "Webhook-Id", "Svix-Id")
  <2>1. \A name \in {"Webhook-Id", "Svix-Id"} :
          /\ name \in DOMAIN h <=> name \in DOMAIN sent
          /\ name \in DOMAIN h => h[name] = sent[name]
    BY <1>1, <1>3 DEF Merged
  <2> HIDE DEF sent
  <2> QED
    BY <2>1, EitherFacts
<1> HIDE DEF sent
<1>6. Either(sent, "Webhook-Timestamp", "Svix-Timestamp") = {"fresh"}
  BY <1>3, <1>4 DEF Either
<1>7. Either(sent, "Webhook-Signature", "Svix-Signature") = {Hmac(secret, id, "fresh", body)}
  BY <1>3, <1>4 DEF Either
<1>8. id \in Either(sent, "Webhook-Id", "Svix-Id")
  BY <1>5, OneId
<1> HIDE DEF id
<1>9. SignedStandard(secret, sent, body)
  BY <1>6, <1>7, <1>8 DEF SignedStandard
<1>10. Detect("standard", sent)
  BY <1>3 DEF Detect, Marks
<1> QED
  BY <1>9, <1>10 DEF sent, fresh

\* A Connection header is not among those made anew.
LEMMA NamedStays ==
  ASSUME NEW p \in Providers, NEW secret, NEW h, NEW body
  PROVE  Named(Merged(Refresh(p, secret, h, body), h)) = Named(h)
<1> DEFINE fresh == Refresh(p, secret, h, body)
<1>1. "Connection" \notin DOMAIN fresh
  BY DEF Refresh, Carrier, Providers
<1> HIDE DEF fresh
<1>2. "Connection" \notin DOMAIN fresh => Named(Merged(fresh, h)) = Named(h)
  BY DEF Named, Merged
<1> QED
  BY <1>1, <1>2 DEF fresh

\* What passes still passes without headers that Verify does not read.
LEMMA StrippedPasses ==
  ASSUME NEW p \in Providers, NEW secret, NEW g, NEW body,
         Named(g) \intersect Reads(p) = {}, Passes(p, secret, g, body)
  PROVE  Passes(p, secret, Stripped(g), body)
<1> DEFINE kept == Stripped(g)
<1>1. "Connection" \notin Reads(p)
  BY DEF Reads, Carrier, Providers
<1>2. \A name \in Reads(p) :
        /\ name \in DOMAIN g <=> name \in DOMAIN kept
        /\ name \in DOMAIN g => g[name] = kept[name]
  BY <1>1 DEF Stripped
<1> HIDE DEF kept
<1>3. CASE p = "standard"
  <2>1. /\ Either(g, "Webhook-Id", "Svix-Id") = Either(kept, "Webhook-Id", "Svix-Id")
        /\ Either(g, "Webhook-Timestamp", "Svix-Timestamp")
             = Either(kept, "Webhook-Timestamp", "Svix-Timestamp")
        /\ Either(g, "Webhook-Signature", "Svix-Signature")
             = Either(kept, "Webhook-Signature", "Svix-Signature")
    BY <1>2, <1>3, EitherFacts DEF Reads
  <2> QED
    BY <1>3, <2>1 DEF Passes, SignedStandard, kept
<1>4. CASE p # "standard"
  BY <1>2, <1>4 DEF Passes, SignedOnce, Reads, kept
<1> QED
  BY <1>3, <1>4

\* What passes is detected: the signature's header is one of the marks.
LEMMA PassingDetected ==
  ASSUME NEW p \in Providers, NEW secret, NEW g, NEW body, Passes(p, secret, g, body)
  PROVE  Detect(p, g)
<1>1. CASE p = "standard"
  <2>1. Either(g, "Webhook-Signature", "Svix-Signature") # {}
    BY <1>1 DEF Passes, SignedStandard
  <2>2. "Webhook-Signature" \in DOMAIN g \/ "Svix-Signature" \in DOMAIN g
    BY <2>1 DEF Either
  <2> QED
    BY <1>1, <2>2 DEF Detect, Marks
<1>2. CASE p # "standard"
  BY <1>2, CarriersMark DEF Passes, SignedOnce, Detect
<1> QED
  BY <1>1, <1>2

\* A request signed anew passes when it is captured again: RefreshSignatures,
\* StripHopByHop and Verify agree for every provider, secret, body and captured
\* headers, except those of Standard Webhooks in both shapes and those with a
\* Connection header that names what Verify reads.
THEOREM RefreshedPasses ==
  ASSUME NEW p \in Providers, NEW secret, NEW h, NEW body,
         CanRefresh(p, secret, h), ~Excepted(p, h)
  PROVE  LET sent == Stripped(Merged(Refresh(p, secret, h, body), h)) IN
         Detect(p, sent) /\ Passes(p, secret, sent, body)
<1> DEFINE signed == Merged(Refresh(p, secret, h, body), h)
<1>1. Passes(p, secret, signed, body)
  <2>1. CASE p = "standard"
    <3>1. secret \in Base64 /\ Either(h, "Webhook-Id", "Svix-Id") # {} /\ secret # NoSecret
      BY <2>1 DEF CanRefresh
    <3>2. ~TwoShapes(h)
      BY <2>1 DEF Excepted
    <3> QED
      BY <2>1, <3>1, <3>2, SvixPasses, WebhookPasses DEF Passes
  <2>2. CASE p # "standard"
    <3>1. secret # NoSecret /\ p \in Providers \ {"standard"}
      BY <2>2 DEF CanRefresh
    <3> QED
      BY <2>2, <3>1, SignedOncePasses DEF Passes
  <2> QED
    BY <2>1, <2>2
<1>2. Named(signed) \intersect Reads(p) = {}
  BY NamedStays DEF Excepted
<1> HIDE DEF signed
<1>3. Passes(p, secret, Stripped(signed), body)
  BY <1>1, <1>2, StrippedPasses
<1>4. Detect(p, Stripped(signed))
  BY <1>3, PassingDetected
<1> QED
  BY <1>3, <1>4 DEF signed

-----------------------------------------------------------------------------
\* Chain's places are those of the five providers.
LEMMA DetectorFacts ==
  /\ DOMAIN Detectors = 1 .. 5
  /\ \A i \in 1 .. 5 : Detectors[i] \in Providers
  /\ \A p \in Providers : \E i \in 1 .. 5 : Detectors[i] = p
  /\ \A i, j \in 1 .. 5 : Detectors[i] = Detectors[j] => i = j
<1>1. /\ Detectors[1] = "stripe" /\ Detectors[2] = "github" /\ Detectors[3] = "standard"
      /\ Detectors[4] = "razorpay" /\ Detectors[5] = "shopify" /\ DOMAIN Detectors = 1 .. 5
  BY DEF Detectors
<1>2. \A i \in 1 .. 5 : i = 1 \/ i = 2 \/ i = 3 \/ i = 4 \/ i = 5
  BY SMT
<1> QED
  BY <1>1, <1>2 DEF Providers

\* Of the detectors that find something one comes first.
LEMMA FirstDetector ==
  ASSUME NEW h, Found(h) # {}
  PROVE  (CHOOSE i \in Found(h) : \A j \in Found(h) : i <= j) \in Found(h)
<1>1. Found(h) \subseteq 1 .. 5
  BY DetectorFacts DEF Found
<1>2. \E i \in Found(h) : \A j \in Found(h) : i <= j
  <2>1. \A i \in 1 .. 5 : i = 1 \/ i = 2 \/ i = 3 \/ i = 4 \/ i = 5
    BY SMT
  <2> QED
    BY <1>1, <2>1, SMT
<1> QED
  BY <1>2

\* "generic" is reported only of headers in which nothing was found.
LEMMA GenericFoundNothing ==
  ASSUME NEW hint, NEW h, VerifiedBy(hint, h) = "generic"
  PROVE  Found(h) = {}
<1> SUFFICES ASSUME Found(h) # {} PROVE FALSE
  OBVIOUS
<1>1. hint \notin Providers
  BY DEF VerifiedBy, Providers
<1>2. Detectors[CHOOSE i \in Found(h) : \A j \in Found(h) : i <= j] = "generic"
  BY <1>1 DEF VerifiedBy
<1>3. (CHOOSE i \in Found(h) : \A j \in Found(h) : i <= j) \in 1 .. 5
  BY FirstDetector, DetectorFacts DEF Found
<1> QED
  BY <1>2, <1>3, DetectorFacts DEF Providers

\* Headers nobody detected, signed for p, are detected by p alone.
LEMMA FreshlyDetected ==
  ASSUME NEW p \in Providers, NEW secret, NEW h, NEW body, Found(h) = {},
         NEW q \in Providers, Detect(q, Merged(Refresh(p, secret, h, body), h))
  PROVE  q = p
<1> DEFINE fresh == Refresh(p, secret, h, body)
           names == IF p = "standard" THEN {"Webhook-Timestamp", "Webhook-Signature"}
                    ELSE {Carrier[p]}
<1>1. \A d \in Providers : Marks[d] \intersect DOMAIN h = {}
  BY DetectorFacts DEF Found, Detect
<1>2. "Svix-Signature" \notin DOMAIN h
  BY <1>1 DEF Providers, Marks
<1>3. DOMAIN fresh = names
  BY <1>2 DEF Refresh
<1>4. DOMAIN Merged(fresh, h) = names \union DOMAIN h
  BY <1>3 DEF Merged
<1>5. Marks[q] \intersect names # {}
  BY <1>1, <1>4 DEF Detect
<1> QED
  BY <1>5 DEF Providers, Marks, Carrier

\* Nothing is detected that StripHopByHop took off,
LEMMA StrippedDetects ==
  ASSUME NEW q, NEW g, Detect(q, Stripped(g)) PROVE Detect(q, g)
BY DEF Detect, Stripped

\* so that Chain, left to detect the provider, finds the one it was signed for.
LEMMA GenericKept ==
  ASSUME NEW p \in Providers, NEW secret, NEW h, NEW body, Found(h) = {},
         Detect(p, Stripped(Merged(Refresh(p, secret, h, body), h)))
  PROVE  VerifiedBy("generic", Stripped(Merged(Refresh(p, secret, h, body), h))) = p
<1> DEFINE sent == Stripped(Merged(Refresh(p, secret, h, body), h))
<1>1. PICK k \in 1 .. 5 : Detectors[k] = p
  BY DetectorFacts
<1>2. Found(sent) = {k}
  <2>1. ASSUME NEW i \in Found(sent) PROVE i = k
    <3>1. i \in 1 .. 5 /\ Detect(Detectors[i], sent)
      BY <2>1, DetectorFacts DEF Found
    <3> QED
      BY <1>1, <3>1, DetectorFacts, FreshlyDetected, StrippedDetects
  <2>2. k \in Found(sent)
    BY <1>1, DetectorFacts DEF Found
  <2> HIDE DEF sent
  <2> QED
    BY <2>1, <2>2
<1> HIDE DEF sent
<1>3. (CHOOSE i \in Found(sent) : \A j \in Found(sent) : i <= j) = k
  BY <1>2, FirstDetector
<1>4. VerifiedBy("generic", sent) = p
  BY <1>1, <1>2, <1>3 DEF VerifiedBy, Providers
<1> QED
  BY <1>4 DEF sent
=============================================================================
