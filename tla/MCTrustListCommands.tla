------------------------ MODULE MCTrustListCommands ------------------------
(***************************************************************************)
(* Two ledgers and one with a port, each with every JWKS of up to two keys *)
(* out of: two keys for one kid, another kid, no kid, no EC key; files of  *)
(* before: none, another list, signed and not, with a key no JWK can name. *)
(***************************************************************************)
EXTENDS TrustListCommands, TLC

CONSTANTS k1, k2, ed, kL, kM, did1

MCVerifierAlgs == [k \in {kL, kM} |-> {"ES256"}]

LedgerAt(label, port) ==
  [host |-> <<label, "ledger">>, port |-> port, spelling |-> "lower",
   plain |-> TRUE]

ledgerA == LedgerAt("a", NoPort)
ledgerB == LedgerAt("b", NoPort)
ledgerP == LedgerAt("a", 8000)

MCLedgerLists == {<<>>, <<ledgerA>>, <<ledgerA, ledgerB>>, <<ledgerB, ledgerB>>,
                  <<ledgerA, ledgerP>>}

JWKs == [kid : {EmptyKid, 1, 2}, key : {k1, k2}]
          \cup {[kid |-> 1, key |-> UnknownKey]}

MCJWKSets ==
  [e \in {Endpoint(x) : x \in {ledgerA, ledgerB, ledgerP}} |->
     BoundedSeq(JWKs, 2)]

header == [alg |-> "ES256", x5chain |-> [single |-> [key |-> kL]]]

SignedBy(k, payload) ==
  [protected |-> header, unprotected |-> <<>>, payload |-> payload,
   signature |-> Sign(k, "ES256", header, payload)]

old == ledgerB :> [keys |-> <<[kid |-> 3, key |-> k1], [kid |-> 2, key |-> k2],
                              [kid |-> 1, key |-> k2]>>]

MCFiles ==
  {NoFile, Malformed, [ttl |-> old], [signed |-> SignedBy(kL, old)],
   [signed |-> SignedBy(kM, old)],
   [ttl |-> ledgerB :> [keys |-> <<[kid |-> 3, key |-> ed]>>]]}
=============================================================================
