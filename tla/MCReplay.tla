------------------------------- MODULE MCReplay -------------------------------
(* Constants for the model-checking runs of Replay. *)
EXTENDS Replay, TLC

CONSTANTS tApp, tMeta, sKey, sText

AllUrls ==
  (tApp :> [parses |-> TRUE, scheme |-> "http", host |-> "localhost", dot |-> FALSE,
            port |-> "3000", hook |-> FALSE])
  @@ (tMeta :> [parses |-> TRUE, scheme |-> "http", host |-> "169.254.169.254",
                dot |-> FALSE, port |-> "", hook |-> FALSE])

Ids == {"Webhook-Id", "Svix-Id"}
Stamps == {"Webhook-Timestamp", "Svix-Timestamp"}
Signs ==
  {"Webhook-Signature", "Svix-Signature", "Stripe-Signature", "X-Hub-Signature",
   "X-Hub-Signature-256", "X-Razorpay-Signature", "X-Shopify-Hmac-Sha256", "X-Shopify-Topic"}

\* Signed long ago, with the endpoint's secret.
Old(names) ==
  [name \in names |->
     IF name \in Stamps THEN "old" ELSE IF name \in Ids THEN name
     ELSE [secret |-> sKey, id |-> "Webhook-Id", time |-> "old", body |-> "captured"]]

\* h, with a Connection header that names one header.
Scoped(h, name) == ("Connection" :> {name}) @@ h

\* Two signatures at most, with or without each identity and time; or one, and
\* a Connection header that names any of them or none.
MCCaptured ==
  {Old(names \union {a, b}) : names \in SUBSET (Ids \union Stamps), a \in Signs, b \in Signs}
  \union {Old(names) : names \in SUBSET (Ids \union Stamps)}
  \union {Scoped(Old(names \union {a}), name) :
            names \in SUBSET (Ids \union Stamps), a \in Signs,
            name \in Ids \union Stamps \union Signs \union {"X-Other"}}

MCUrl == [t \in Targets |-> AllUrls[t]]
=============================================================================
