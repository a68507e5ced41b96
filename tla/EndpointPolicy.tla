--------------------------- MODULE EndpointPolicy ---------------------------
(***************************************************************************)
(* Which model servers a local-first application may call                  *)
(* (model_harness/endpoint_policy.py).  An address is known by the one     *)
(* thing the policy asks of it: its kind.  A host resolves to a set of     *)
(* kinds; a host that does not resolve, and one that resolves to nothing,  *)
(* get the same verdict and are both the empty set.                        *)
(***************************************************************************)
CONSTANTS AllowPublic,   \* ARTIFICE_ALLOW_PUBLIC_MODELS
          AlwaysAllowed  \* hosts of the allowlist

ASSUME PolicyAssumption == AllowPublic \in BOOLEAN

AddressKinds == {"loopback", "private", "link-local", "public"}
LocalKinds == {"loopback", "private"}

\* What a user or a registry entry names: a scheme and, after parsing, a host.
Urls(hosts) == [scheme : {"http", "https", "other"}, host : hosts \cup {""}]

\* classify_host: link-local is refused whatever the allowlist says.
ClassifyHost(host, kinds) ==
  IF kinds = {}
  THEN host \in AlwaysAllowed
  ELSE /\ "link-local" \notin kinds
       /\ \/ host \in AlwaysAllowed
          \/ kinds \subseteq LocalKinds
          \/ AllowPublic

\* validate_url and resolve: TRUE for a URL that is returned, FALSE for one
\* that raises EndpointRejected.
ValidateUrl(url, kinds) ==
  /\ url.scheme # "other"
  /\ url.host # ""
  /\ ClassifyHost(url.host, kinds)
=============================================================================
