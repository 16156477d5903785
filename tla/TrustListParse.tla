--------------------------- MODULE TrustListParse ---------------------------
(***************************************************************************)
(* What ParseTTLPayload promises its callers: in one step, the map of the  *)
(* whole trust list if every issuer in it has a usable key, and otherwise  *)
(* an error and no map at all.  No order of issuers, no partial result.    *)
(***************************************************************************)
EXTENDS KeySets

VARIABLES
  ttl,     \* the payload, whatever it is
  status,
  result

vars == <<ttl, status, result>>

Init ==
  /\ status = "running"
  /\ result = <<>>

Succeed ==
  /\ TTLOK(ttl)
  /\ status' = "returned"
  /\ result' = TrustMap(ttl)

GiveUp ==
  /\ ~TTLOK(ttl)
  /\ status' = "failed"
  /\ UNCHANGED result

Decide ==
  /\ status = "running"
  /\ Succeed \/ GiveUp
  /\ UNCHANGED ttl

Spec == Init /\ [][Decide]_vars
=============================================================================
