---------------------------- MODULE MCTrustList ----------------------------
(***************************************************************************)
(* Every payload of one issuer with up to four elements, and of two        *)
(* issuers with up to two, out of: two keys for one kid, another kid, no   *)
(* kid, a key that is not understood, no COSE_Key; and the entries that    *)
(* fail as a whole.                                                        *)
(***************************************************************************)
EXTENDS TrustList, SequencesExt, TLC

CONSTANTS k1, k2, a, b, ledger1, ledger2

Elements ==
  {[kid |-> a, key |-> k1], [kid |-> a, key |-> k2], [kid |-> b, key |-> k2],
   [kid |-> EmptyKid, key |-> k1], [kid |-> b, key |-> Malformed], Malformed}

Entries(length) ==
  {Malformed, [owner |-> a]}
    \cup [keys : {Malformed} \cup SeqOf(Elements, length)]

MCPayloads ==
  {Malformed, <<>>}
    \cup {ledger1 :> e : e \in Entries(4)}
    \cup {(ledger1 :> e) @@ (ledger2 :> f) : e \in Entries(2), f \in Entries(2)}
=============================================================================
