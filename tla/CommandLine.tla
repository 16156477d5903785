---------------------------- MODULE CommandLine ----------------------------
(***************************************************************************)
(* The command line of a command that checks an envelope, with what the    *)
(* files it names hold: [name, envelope, chain, did, ttl, require,         *)
(* validate, allowed]; and what there is to be found out about it.         *)
(***************************************************************************)
EXTENDS TrustListFiles, Jwks, Ledgers

CONSTANTS
  Commands,
  LedgerOf      \* ledger key -> the endpoint of the ledger that signs with it

Attached(c) == ParsedReceipts(c.envelope)

\* The two files are read and the envelope unpacked.
Unpacks(c) == c.envelope # NoFile /\ c.chain # Malformed /\ UnpackOK(c.envelope)

\* The receipts an option asks to validate: those of one issuer, or all.
ToValidate(c) ==
  {r \in Range(Attached(c)) :
     IF c.require # Empty THEN r.issuer = c.require ELSE c.validate}

\* Mutant: check resolves nothing but an explicit -did.
DidResolves_OnlyExplicit(c) ==
  c.did # Empty =>
    <<IF c.chain = NoFile THEN X5Chain(c.envelope) ELSE c.chain, c.did>>
      \in DidMatches

\* -did is resolved against the chain file if there is one; without -did the
\* check command resolves the envelope's issuer against its own chain.
DidResolves(c) ==
  LET own == X5Chain(c.envelope)
      issuer == EnvelopeIssuer(c.envelope)
  IN  IF c.did # Empty
        THEN <<IF c.chain = NoFile THEN own ELSE c.chain, c.did>> \in DidMatches
        ELSE c.name = "check" /\ issuer # Empty => <<own, issuer>> \in DidMatches

\* The ledger at this endpoint registered the envelope.
RegisteredAt(c, endpoint) ==
  \E k \in Keys :
    LedgerOf[k] = endpoint /\ RegistersData(k, DataHash(c.envelope))

-----------------------------------------------------------------------------
\* All that the files decide.
Grounds(c) ==
  /\ TTLFileOK(c.ttl)
  /\ Unpacks(c)
  /\ c.require # Empty /\ Attached(c) # <<>> => ToValidate(c) # {}
  /\ DidResolves(c)

\* The ledgers have the envelope in their trees.
Proven(c) == \A r \in ToValidate(c) : RegisteredAt(c, Endpoint(r.issuer))

\* The trust list alone is enough: it has the issuer of every receipt, under
\* whose keys the receipt is valid, and no two issuers share a key ID.
Settled(c) ==
  LET list == ParsedTTLFile(c.ttl)
  IN  /\ \A r \in ToValidate(c) :
           /\ r.issuer # Empty
           /\ r.issuer \in DOMAIN list
           /\ ReceiptValid(r, list[r.issuer])
      /\ \A r, s \in ToValidate(c) :
           r.issuer # s.issuer =>
             DOMAIN list[r.issuer] \cap DOMAIN list[s.issuer] = {}
=============================================================================
