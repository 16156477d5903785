------------------------- MODULE MCReceiptValidate -------------------------
(***************************************************************************)
(* Two ledgers with their Merkle trees, the receipts they issue, and every *)
(* such receipt with one thing changed: a field missing or of another      *)
(* type, a path cut, extended, reordered or mirrored, another envelope,    *)
(* another signer.                                                         *)
(***************************************************************************)
EXTENDS ReceiptValidate

CONSTANTS kA, kB, kX, d1, d2, d3, tx1, tx2, tx3, tx4, other

MCVerifierAlgs == [k \in {kA, kB, kX} |-> {"ES256"}]

\* ---- ledgers -----------------------------------------------------------
\* The entries of each ledger in order; d1 is registered twice with kA.
MCEntries ==
  (kA :> << [tx |-> tx1, evidence |-> 1, data |-> d1],
            [tx |-> tx2, evidence |-> MaxEvidence, data |-> d2],
            [tx |-> tx3, evidence |-> 7, data |-> d1],
            [tx |-> tx3, evidence |-> 7, data |-> d3],
            [tx |-> tx4, evidence |-> 7, data |-> d2] >>)
  @@ (kB :> << [tx |-> tx4, evidence |-> 7, data |-> d2],
               [tx |-> tx1, evidence |-> 7, data |-> d1],
               [tx |-> tx2, evidence |-> 2, data |-> d3] >>)

\* The tree over entries lo..hi is divided at the largest power of two below
\* its size.
MCSplit ==
  [t \in (1 .. 5) \X (1 .. 5) |->
     IF t[1] < t[2] THEN t[1] - 1 + Max({p \in {1, 2, 4} : p < t[2] - t[1] + 1})
                    ELSE t[1]]

Sizes(k) == 2 .. Size(k)

\* ---- receipts ----------------------------------------------------------
Kid == (kA :> "kidA") @@ (kB :> "kidB")

Issuer == (kA :> "ledgerA") @@ (kB :> "ledgerB")

Receipt(k, proofs, root, data) ==
  LET protected == [alg |-> "ES256", kid |-> Kid[k], iss |-> Issuer[k],
                    vds |-> [type |-> "int64", n |-> CCFLedgerSha256]]
  IN  [ message |->
          [ protected |-> protected,
            unprotected |-> [vdp |-> [inclusion |-> proofs]],
            payload |-> Nil,
            signature |-> Sign(k, "ES256", protected, root) ],
        issuer |-> Issuer[k],
        kid |-> Kid[k],
        expectedDataHash |-> data ]

\* All a ledger issues: one proof, or two when the statement is there twice.
IssuedAtSize(k, n) ==
  { Receipt(k, [p \in DOMAIN xs |-> InclusionProof(k, n, xs[p])],
            Digest[k][<<1, n>>], Entries[k][xs[1]].data) :
      xs \in {xs \in SeqOf(1 .. n, 2) :
                /\ xs # <<>>
                /\ \A p \in DOMAIN xs :
                     Entries[k][xs[p]].data = Entries[k][xs[1]].data} }

MCIssued == UNION {UNION {IssuedAtSize(k, n) : n \in Sizes(k)} : k \in Keys}

ASSUME IssuedAreIssued ==
  \A r \in MCIssued : IssuedBy(r.message.signature.key, r)

Without(f, label) == Restrict(f, DOMAIN f \ {label})

\* The same receipt with another protected header, signed again.
Resigned(r, protected) ==
  [r EXCEPT !.message.protected = protected,
            !.message.signature.protected = protected,
            !.message.signature.alg =
               IF "alg" \in DOMAIN protected THEN protected.alg ELSE Malformed]

HeaderVariants(r) ==
  LET p == r.message.protected
      u == r.message.unprotected
  IN  {Resigned(r, q) :
         q \in {Without(p, "vds"), Without(p, "alg")}
               \cup {[p EXCEPT !.vds = v] :
                       v \in {Malformed}
                             \cup [type : {"int64", "uint64"}, n : {1, 2}]
                             \cup [type : {"uint64"}, n : {MaxInt64 + 1}]}
               \cup {[p EXCEPT !.alg = a] : a \in {Malformed, "PS256"}}}
      \cup {[r EXCEPT !.message.unprotected = v] :
              v \in {Without(u, "vdp")}
                    \cup [vdp : {Malformed} \cup [consistency : {<<>>}]
                                \cup [inclusion : {Malformed, <<>>}]]}
      \cup {[r EXCEPT !.message.payload = r.message.signature.payload],
            [r EXCEPT !.message.signature.key = kX],
            [r EXCEPT !.kid = "kidX"]}
      \cup {[r EXCEPT !.message.signature.payload = root] :
              root \in SignedRoots(r.message.signature.key)}
      \cup {[r EXCEPT !.expectedDataHash = d] : d \in {d1, d2, d3}}

ElementVariants(el) ==
  {Malformed}
    \cup {[el EXCEPT !.left = b] : b \in {Malformed, ~el.left}}
    \cup {[el EXCEPT !.hash = g] : g \in {Malformed, other}}

LeafVariants(leaf) ==
  {Malformed}
    \cup {[leaf EXCEPT !.tx = t] : t \in {Malformed, other}}
    \cup {[leaf EXCEPT !.evidence = e] :
            e \in {Malformed, 0, 7, MaxEvidence + 1}}
    \cup {[leaf EXCEPT !.data = d] : d \in {Malformed, d1, d2, d3}}

PathVariants(path) ==
  {Malformed, Reverse(path), Front(path), Tail(path),
   Append(path, Head(path)), Append(path, [left |-> TRUE, hash |-> other])}
    \cup UNION {{[path EXCEPT ![q] = e] : e \in ElementVariants(path[q])} :
                  q \in DOMAIN path}

ProofVariants(proof) ==
  {Malformed, Without(proof, "leaf"), Without(proof, "path")}
    \cup {[proof EXCEPT !.leaf = l] : l \in LeafVariants(proof.leaf)}
    \cup {[proof EXCEPT !.path = q] : q \in PathVariants(proof.path)}

Variants(r) ==
  {r} \cup HeaderVariants(r)
    \cup UNION {{[r EXCEPT !.message.unprotected.vdp.inclusion[p] = v] :
                   v \in ProofVariants(Proofs(r)[p])} : p \in DOMAIN Proofs(r)}

MCReceipts ==
  UNION {Variants(r) : r \in MCIssued}

\* No key, the right keys, one ledger's keys, and a kid bound to another key.
MCKeyMaps ==
  {<<>>, "kidA" :> kA, ("kidA" :> kA) @@ ("kidB" :> kB), "kidA" :> kB}
=============================================================================
