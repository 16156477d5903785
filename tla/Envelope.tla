------------------------------ MODULE Envelope ------------------------------
(***************************************************************************)
(* A COSE_Sign1 envelope and UnpackAndValidateCOSE1CertChain (check.go).   *)
(* An envelope is [protected, unprotected, payload, signature], or         *)
(* Malformed when its bytes are no tagged COSE_Sign1.  The x5chain header  *)
(* is [array |-> certificates] or [single |-> certificate].  What the      *)
(* did:x509 resolver's library decides is a relation given as a constant.  *)
(***************************************************************************)
EXTENDS CCFReceipt

CONSTANTS
  Empty,        \* the empty string
  ValidChains,  \* certificate sequences VerifyCertificateChain accepts now
  DidMatches    \* the pairs <<chain, did>> didx509resolver.Resolve accepts

\* "an arbitrary 100 which would be quite unreasonable"
MaxChain == 100

X5Chain(env) ==
  LET v == env.protected.x5chain
  IN  IF "single" \in DOMAIN v THEN <<v.single>> ELSE v.array

LeafKey(env) == Head(X5Chain(env)).key

\* A header or claim that is no string counts as absent.
StringValue(map, label) ==
  IF label \in DOMAIN map /\ map[label] # Malformed THEN map[label] ELSE Empty

EnvelopeIssuer(env) ==
  IF "cwt" \in DOMAIN env.protected
    THEN StringValue(env.protected.cwt, "iss")
    ELSE StringValue(env.protected, "iss")

\* The statement a ledger registers: the envelope, tagged, its unprotected
\* header emptied.
DataHash(env) == Sha256(<<18, env.protected, <<>>, env.payload, env.signature>>)

ReceiptParses(msg) ==
  /\ msg # Malformed
  /\ "kid" \in DOMAIN msg.protected
  /\ msg.protected.kid # Malformed
  /\ "cwt" \in DOMAIN msg.protected
  /\ msg.protected.cwt # Malformed
  /\ "iss" \in DOMAIN msg.protected.cwt
  /\ msg.protected.cwt.iss # Malformed

\* One receipt that does not parse fails them all.
ReceiptsParse(env) ==
  "receipts" \in DOMAIN env.unprotected =>
    /\ env.unprotected.receipts # Malformed
    /\ \A msg \in Range(env.unprotected.receipts) : ReceiptParses(msg)

ParsedReceipts(env) ==
  IF "receipts" \notin DOMAIN env.unprotected THEN <<>>
  ELSE [m \in DOMAIN env.unprotected.receipts |->
          LET msg == env.unprotected.receipts[m]
          IN  [message |-> msg, issuer |-> msg.protected.cwt.iss,
               kid |-> msg.protected.kid, expectedDataHash |-> DataHash(env)]]

ChainParses(env) ==
  /\ "x5chain" \in DOMAIN env.protected
  /\ env.protected.x5chain # Malformed
  /\ \A cert \in Range(X5Chain(env)) : cert # Malformed
  /\ Len(X5Chain(env)) \in 1 .. MaxChain

\* The whole of UnpackAndValidateCOSE1CertChain, its checks in order.
UnpackOK(env) ==
  /\ env # Malformed
  /\ "alg" \in DOMAIN env.protected
  /\ env.protected.alg # Malformed
  /\ ChainParses(env)
  /\ Len(X5Chain(env)) > 1 => X5Chain(env) \in ValidChains
  /\ env.protected.alg \in VerifierAlgs[LeafKey(env)]
  /\ Verify(env, env.payload, env.protected.alg, LeafKey(env))
  /\ "cwt" \in DOMAIN env.protected => env.protected.cwt # Malformed
  /\ ReceiptsParse(env)
=============================================================================
