-------------------------------- MODULE Jwks --------------------------------
(***************************************************************************)
(* fetchIssuerJWKS (ccf_keyfetch.go) apart from the network: which issuers *)
(* it goes to, and what it makes of the JWKS that comes back.              *)
(*                                                                         *)
(* An issuer is a record: the labels of its host in lower case, the port,  *)
(* the spelling (letter case) that makes it another string for the same    *)
(* host, and whether it is a plain host at all or something with a scheme, *)
(* a path or user information.  A JWKS is a sequence of [kid, key].        *)
(***************************************************************************)
EXTENDS Naturals, Sequences, SequencesExt

CONSTANTS
  NoPort,
  UnknownKey     \* a JWK that is not an EC key on a known curve

\* issuerHostRegex: at least two labels, and a port at most after them.
PlainHost(issuer) == issuer.plain /\ Len(issuer.host) >= 2

\* Equal to the domain or below it.  The port is cut off the issuer but not
\* off the domain, so a domain with a port matches nothing.
InDomain(issuer, domain) ==
  domain.port = NoPort /\ IsSuffix(domain.host, issuer.host)

Allowed(issuer, domains) ==
  PlainHost(issuer) /\ \E d \in domains : InDomain(issuer, d)

Endpoint(issuer) == [host |-> issuer.host, port |-> issuer.port]

\* jwkToPublicKey makes an EC key of it.
HasPublicKey(jwk) == jwk.key # UnknownKey

\* So it does of every JWK, and equal kids have equal keys.
JWKSetOK(set) ==
  /\ \A a \in DOMAIN set : HasPublicKey(set[a])
  /\ \A a, b \in DOMAIN set : set[a].kid = set[b].kid => set[a].key = set[b].key

KeyMap(set) ==
  [kid \in {set[a].kid : a \in DOMAIN set} |->
     (CHOOSE k \in Range(set) : k.kid = kid).key]

\* A finite set of numbers as a list, in their order.
InOrder(S) ==
  CHOOSE list \in SetToSeqs(S) :
    \A a, b \in DOMAIN list : a < b => list[a] < list[b]

\* The same key set as a list: the first JWK of every kid, in their order.
KeyList(set) ==
  LET first == InOrder({a \in DOMAIN set :
                          \A b \in 1 .. a - 1 : set[b].kid # set[a].kid})
  IN  [m \in DOMAIN first |-> set[first[m]]]
=============================================================================
