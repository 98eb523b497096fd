------------------------------ MODULE Outbound ------------------------------
(***************************************************************************)
(* The outbound policy of OmniHook: which target URLs a delivery may use.  *)
(*                                                                         *)
(* A target is a model value; Url gives the parts of it that url.Parse     *)
(* would return and that the policy looks at.  Host names are lower case:  *)
(* both functions lower them before comparing.  A trailing dot is kept     *)
(* apart, because Blocked strips it and selfTarget does not.               *)
(***************************************************************************)
EXTENDS Naturals, Sequences

CONSTANTS
  Targets,      \* non-empty values of endpoints.target_url
  Url,          \* [Targets -> parsed URL], see UrlType
  OwnPort,      \* cfg.Port, as a string
  MetadataIPs   \* host names that are literal IPs in a metadata range

UrlType ==
  [parses : BOOLEAN, scheme : STRING, host : STRING, dot : BOOLEAN,
   port : STRING, hook : BOOLEAN]

ASSUME UrlAssumption == DOMAIN Url = Targets

blockedHosts ==
  {"169.254.169.254", "100.100.100.200", "metadata.google.internal",
   "metadata.google", "instance-data"}

isMetadataIP(host) == host \in MetadataIPs

\* Barred by the URL-level policy, whatever the name resolves to.
Blocked(t) ==
  LET u == Url[t] IN
  \/ ~u.parses
  \/ u.scheme \notin {"http", "https"}
  \/ u.host = "" /\ u.port = ""
  \/ u.host \in blockedHosts
  \/ isMetadataIP(u.host)

effectivePort(u) ==
  IF u.port # "" THEN u.port ELSE IF u.scheme = "https" THEN "443" ELSE "80"

\* The target is, by its spelling, this server's own capture surface.
selfTarget(t) ==
  LET u == Url[t] IN
  /\ u.parses
  /\ u.hook
  /\ u.host \in {"localhost", "127.0.0.1", "::1"}
  /\ ~u.dot
  /\ effectivePort(u) = OwnPort
=============================================================================
