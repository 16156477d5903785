------------------------------ MODULE MCTools ------------------------------
(***************************************************************************)
(* A leaf L under a root R.  Chain files: good, with text at the end, of   *)
(* one certificate, in the wrong order, with another kind of block, with   *)
(* nothing in it.  Envelopes there at first: without tag, with a single    *)
(* certificate and receipts.  Every sequence of MaxCommands commands.      *)
(***************************************************************************)
EXTENDS Tools, TLC

CONSTANTS kL, kR, body, given, ledger

MCVerifierAlgs == [k \in {kL, kR} |-> {"ES256"}]

L == [key |-> kL, name |-> "leaf"]
R == [key |-> kR, name |-> "root"]

MCValidChains == {<<L, R>>}
MCDidMatches == {<<<<L, R>>, [ca |-> R, leaf |-> "leaf"]>>}

Other(type, item) == [type |-> type, der |-> item]

ChainFiles ==
  {Pem(<<L, R>>), [Pem(<<L, R>>) EXCEPT !.text = TRUE], Pem(<<L>>),
   Pem(<<R, L>>), [NoText EXCEPT !.text = TRUE],
   [blocks |-> <<Other("CERTIFICATE", <<L>>), Other("KEY", <<Malformed>>)>>,
    text |-> FALSE],
   [blocks |-> <<Other("EMPTY", <<>>)>>, text |-> FALSE]}

\* Receipts, one of them without a key id.
good == [protected |-> [kid |-> "a1", cwt |-> [iss |-> ledger]]]
bad == [protected |-> [cwt |-> [iss |-> ledger]]]

Given(x5chain, unprotected, tagged) ==
  LET header == [alg |-> "ES256", x5chain |-> x5chain]
  IN  [sign1 |-> [protected |-> header, unprotected |-> unprotected,
                  payload |-> given, signature |-> Sign(kL, "ES256", header, given)],
       tagged |-> tagged]

Envs ==
  {NoFile, Malformed, Given([array |-> <<L, R>>], <<>>, FALSE),
   Given([single |-> L], [receipts |-> <<good>>, other |-> 1], TRUE),
   Given([array |-> <<>>], [receipts |-> <<>>], TRUE),
   Given([array |-> <<L, R>>], [receipts |-> <<good, bad>>], TRUE)}

MCPaths == {"chain", "env", "out", "key"}

MCFileSystems ==
  {[p \in MCPaths |-> CASE p = "chain" -> c [] p = "env" -> e [] OTHER -> NoFile] :
     c \in ChainFiles, e \in Envs}

MCCommands ==
  [name : {"create"}, chain : {"chain", "out"}, key : {kL}, alg : {"ES256"},
   payload : {body}, out : {"env"}]
  \cup
  {[name |-> "create", chain |-> "chain", key |-> k, alg |-> a,
    payload |-> body, out |-> "out"] :
     <<k, a>> \in {<<kL, "ES256">>, <<kR, "ES256">>, <<kL, "PS256">>,
                   <<Malformed, "ES256">>, <<kL, Malformed>>}}
  \cup
  [name : {"attach_receipt"}, in : {"env"}, donor : {NoFile}, receipt : {good, bad},
   out : {"env", "out"}]
  \cup
  [name : {"attach_receipt"}, in : {"out"}, donor : {"env"}, receipt : {NoFile},
   out : {"out"}]
  \cup
  [name : {"leaf"}, in : {"env", "out"}, keyout : {"key"}, certout : {"chain"}]
  \cup
  [name : {"chain"}, in : {"env"}, out : {"out", "chain"}]
  \cup
  [name : {"did-x509"}, in : {NoFile}, chain : {"chain", "out"}, index : 0 .. 2,
   policy : {"CN"}]
  \cup
  [name : {"did-x509"}, in : {"env"}, chain : {NoFile, "chain"}, index : {1},
   policy : {"CN", Malformed}]
=============================================================================
