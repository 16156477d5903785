--------------------------- MODULE MCCheckCommand ---------------------------
(***************************************************************************)
(* Ledger A rolls over from key kA1 to kA2, ledger B has kB and may reuse  *)
(* the key id a1.  One envelope with every combination of receipts, and    *)
(* every way an envelope can be wrong with none.                           *)
(***************************************************************************)
EXTENDS CheckCommand, TLC

CONSTANTS kA1, kA2, kB, kL, kM, tx, body, body2, did1, did2

MCVerifierAlgs == [k \in {kA1, kA2, kB, kL, kM} |-> {"ES256"}]

IssuerAt(label) ==
  [host |-> <<label, "ledger">>, port |-> NoPort, spelling |-> "lower",
   plain |-> TRUE]

ledgerA == IssuerAt("a")
ledgerB == IssuerAt("b")

MCLedgerOf ==
  [k \in {kA1, kA2, kB} |->
     Endpoint(IF k = kB THEN ledgerB ELSE ledgerA)]

MCEndpoints == {Endpoint(ledgerA), Endpoint(ledgerB)}

Jwk(kid, key) == [kid |-> kid, key |-> key]

MCJWKSets ==
  (Endpoint(ledgerA) :> {<<Jwk("a1", kA1)>>, <<Jwk("a1", kA1), Jwk("a2", kA2)>>,
                         <<Jwk("a2", kA2)>>})
  @@ (Endpoint(ledgerB) :> {<<Jwk("b1", kB)>>, <<Jwk("b1", kB), Jwk("a1", kB)>>})

\* ---- envelopes ---------------------------------------------------------
Cert(k) == [key |-> k]
chain1 == <<Cert(kL), Cert(kM)>>
chain2 == <<Cert(kM), Cert(kM)>>
MCValidChains == {chain1, chain2}
MCDidMatches == {<<chain1, did1>>, <<chain2, did2>>}

Signed(protected, payload, k) ==
  [protected |-> protected, unprotected |-> <<>>, payload |-> payload,
   signature |-> Sign(k, "ES256", protected, payload)]

header == [alg |-> "ES256", x5chain |-> [array |-> chain1],
           cwt |-> [iss |-> did1]]

main == Signed(header, body, kL)

Without(f, label) == Restrict(f, DOMAIN f \ {label})

\* Other headers: single certificate, no or another issuer, and wrong ones.
Headers ==
  {[alg |-> "ES256", x5chain |-> [single |-> Cert(kL)]],
   [alg |-> "ES256", x5chain |-> [array |-> chain1], iss |-> did1],
   [alg |-> "ES256", x5chain |-> [array |-> chain1], iss |-> Malformed],
   [header EXCEPT !.cwt.iss = did2],
   [header EXCEPT !.cwt.iss = Malformed],
   [header EXCEPT !.cwt = Malformed],
   [header EXCEPT !.alg = Malformed],
   [header EXCEPT !.alg = "PS256"],
   Without(header, "alg"), Without(header, "x5chain")}
  \cup {[header EXCEPT !.x5chain = c] :
          c \in {Malformed, [array |-> chain2], [array |-> <<>>],
                 [array |-> Reverse(chain1)],
                 [array |-> <<Cert(kL), Malformed>>],
                 [array |-> [m \in 1 .. MaxChain + 1 |-> Cert(kL)]]}}

Others ==
  {NoFile, Malformed, Signed(header, Nil, kL), Signed(header, body, kM),
   [main EXCEPT !.payload = body2]}
  \cup {Signed(h1, body, kL) : h1 \in Headers}

\* ---- receipts ----------------------------------------------------------
kids == (kA1 :> "a1") @@ (kA2 :> "a2") @@ (kB :> "b1")

\* Another envelope, registered by ledger B only.
second == Signed(header, body2, kL)

Entry(data) == [tx |-> tx, evidence |-> 9, data |-> data]

MCEntries ==
  [k \in {kA1, kA2, kB} |->
     <<Entry(DataHash(main)), Entry(IF k = kB THEN DataHash(second) ELSE body)>>]

MCSplit == [t \in (1 .. 2) \X (1 .. 2) |-> t[1]]

\* A receipt with the inclusion proof of an entry of k's ledger, signed with k;
\* kM, the key of no ledger, takes its proof from ledger B.
ReceiptOf(x, k, kid) ==
  LET ledger == IF k = kM THEN kB ELSE k
      protected == [alg |-> "ES256", kid |-> kid,
                    cwt |-> [iss |-> IF k = kB THEN ledgerB ELSE ledgerA],
                    vds |-> [type |-> "int64", n |-> CCFLedgerSha256]]
  IN  [protected |-> protected, payload |-> Nil,
       unprotected |-> [vdp |-> [inclusion |-> <<InclusionProof(ledger, 2, x)>>]],
       signature |-> Sign(k, "ES256", protected, Digest[ledger][<<1, 2>>])]

RA1 == ReceiptOf(1, kA1, "a1")
RA2 == ReceiptOf(1, kA2, "a2")
RB == ReceiptOf(1, kB, "b1")
RBa1 == ReceiptOf(1, kB, "a1")

SB == ReceiptOf(2, kB, "b1")

\* In the name of ledger A, and signed by somebody else.
SM == ReceiptOf(2, kM, "a1")

Attach(env, receipts) == [env EXCEPT !.unprotected = [receipts |-> receipts]]

WithReceipts ==
  {main} \cup
  {Attach(main, rs) :
     rs \in {Malformed, <<>>, <<Malformed>>, <<RA1>>, <<RA2>>, <<RB>>, <<RBa1>>,
             <<SB>>, <<RA1, RA2>>, <<RA1, RB>>, <<RB, RA2, RA1>>, <<SB, RA1>>,
             <<[RA1 EXCEPT !.protected.cwt.iss = Malformed]>>,
             <<[RA1 EXCEPT !.protected.cwt.iss = NoIssuer]>>,
             <<RA1, [RA1 EXCEPT !.protected.kid = Malformed]>>}}
  \cup {Attach(second, rs) :
          rs \in {<<SB>>, <<RB>>, <<RA1>>, <<SM>>, <<SB, RA1>>, <<RA2, SB>>}}

list == ledgerA :> [keys |-> <<Malformed, Jwk("a1", kA1), Jwk("a1", kA2)>>]

both == (ledgerA :> [keys |-> <<Jwk("a2", kA2)>>])
          @@ (ledgerB :> [keys |-> <<Jwk("b1", kB)>>])

\* A list of the keys of nobody, signed by kM in the name of kL.
fake == Signed(header, ledgerA :> [keys |-> <<Jwk("a1", kM)>>], kM)

TTLs ==
  {NoFile, Malformed, [ttl |-> list], [ttl |-> Malformed],
   [ttl |-> list @@ (ledgerB :> [keys |-> <<Jwk(EmptyKid, kB)>>])],
   [signed |-> Signed(header, both, kL)], [signed |-> Malformed],
   [signed |-> fake]}

Requires == {NoIssuer, ledgerA, ledgerB}

domains == {[host |-> <<"ledger">>, port |-> NoPort]}

MCCommands ==
  [name : {"check"}, envelope : WithReceipts, chain : {NoFile}, did : {Empty},
   ttl : TTLs, require : Requires, validate : {FALSE}, allowed : {{}}]
  \cup
  [name : {"print"}, envelope : WithReceipts, chain : {NoFile}, did : {Empty},
   ttl : {NoFile}, require : Requires, validate : BOOLEAN, allowed : {domains}]
  \cup
  [name : {"check"}, envelope : Others \cup {main},
   chain : {NoFile, Malformed, chain2}, did : {Empty, did1, did2},
   ttl : {NoFile}, require : {NoIssuer}, validate : {FALSE}, allowed : {{}}]
=============================================================================
