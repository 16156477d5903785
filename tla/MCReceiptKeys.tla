--------------------------- MODULE MCReceiptKeys ---------------------------
(***************************************************************************)
(* Up to three receipts of two ledgers in one domain and one outside, with *)
(* one ledger under two spellings, against trust lists that hold none or   *)
(* some of them, and key sets that are disjoint, overlapping, ambiguous or *)
(* unreadable.                                                             *)
(***************************************************************************)
EXTENDS ReceiptKeys, TLC

CONSTANTS k1, k2

IssuerAt(labels) ==
  [host |-> labels, port |-> NoPort, spelling |-> "lower", plain |-> TRUE]

ledgerA == IssuerAt(<<"a", "ledger">>)
ledgerB == IssuerAt(<<"b", "ledger">>)
LedgerA == [ledgerA EXCEPT !.spelling = "mixed"]
outside == IssuerAt(<<"a", "elsewhere">>)
oneLabel == IssuerAt(<<"ledger">>)
ported == [ledgerA EXCEPT !.port = 8443]

Receipts(issuers) == [m \in DOMAIN issuers |-> [issuer |-> issuers[m]]]

Domain(issuer) == [host |-> issuer.host, port |-> issuer.port]

MCEndpoints == {Domain(ledgerA), Domain(ledgerB)}

Jwk(kid, key) == [kid |-> kid, key |-> key]

MCJWKSets ==
  [e \in MCEndpoints |->
     {<<>>, <<Jwk("x", k1)>>, <<Jwk("x", k2)>>, <<Jwk("y", k2), Jwk("y", k2)>>,
      <<Jwk("x", k1), Jwk("x", k2)>>, <<Jwk("y", UnknownKey)>>}]

Preloads ==
  {<<>>, ledgerA :> ("x" :> k1), ledgerB :> (("x" :> k2) @@ ("y" :> k2))}

MCCalls ==
  [ receipts : {Receipts(s) : s \in SeqOf({ledgerA, ledgerB, LedgerA}, 3)
                  \cup SeqOf({ledgerA, outside, oneLabel, NoIssuer}, 2)
                  \cup {<<ported>>}},
    allowed : {{Domain(IssuerAt(<<"ledger">>))}, {Domain(ledgerA)}},
    preloaded : Preloads ]

\* -require-receipt-from: the matching receipts, the issuer as the allow list.
RequireCalls ==
  { [receipts |-> Receipts(<<issuer>>), allowed |-> {issuer},
     preloaded |-> p] :
      issuer \in {ledgerA, ledgerB, LedgerA, ported, oneLabel}, p \in Preloads }
=============================================================================
