------------------------------- MODULE Ledgers -------------------------------
(***************************************************************************)
(* The environment of Validate: CCF ledgers, each the owner of a key.  A   *)
(* ledger keeps its entries in a Merkle tree (RFC 9162, 2.1), signs roots  *)
(* of it and issues receipts with audit paths (RFC 9162, 2.1.3).  None of  *)
(* this is code of the repository; it is what check.go validates against.  *)
(***************************************************************************)
EXTENDS CCFReceipt

CONSTANTS
  Entries,  \* ledger key -> the entries in order: [tx, evidence, data]
  Split     \* <<lo, hi>> -> the entry after which the tree over lo..hi is divided

Keys == DOMAIN Entries

Size(k) == Len(Entries[k])

\* The tree over entries lo to hi is known by <<lo, hi>>.
Intervals(k) == (1 .. Size(k)) \X (1 .. Size(k))

LeftPart(t) == <<t[1], Split[t]>>

RightPart(t) == <<Split[t] + 1, t[2]>>

Digest ==
  [k \in Keys |->
     LET D[t \in Intervals(k)] ==
           IF t[1] < t[2] THEN Sha256(<<D[LeftPart(t)], D[RightPart(t)]>>)
           ELSE LeafHash(Entries[k][t[1]])
     IN  D]

\* The audit paths of entry x in the trees it is in, nearest sibling first.
AuditPaths(k, x) ==
  LET P[t \in Intervals(k)] ==
        IF t[1] >= t[2] THEN <<>>
        ELSE IF x <= Split[t]
          THEN Append(P[LeftPart(t)],
                      [left |-> FALSE, hash |-> Digest[k][RightPart(t)]])
          ELSE Append(P[RightPart(t)],
                      [left |-> TRUE, hash |-> Digest[k][LeftPart(t)]])
  IN  P

\* The digests in the trees of a key.
TreeNodes(k) == {Digest[k][t] : t \in Intervals(k)}

\* Roots are over the first entries of the ledger.
SignedRoots(k) == {Digest[k][<<1, n>>] : n \in 1 .. Size(k)}

\* Signatures cannot be forged: one by a ledger key is over a root it signed.
Unforged(r) ==
  r.message.signature.key \in Keys
    => r.message.signature.payload \in SignedRoots(r.message.signature.key)

InclusionProof(k, n, x) ==
  [leaf |-> Entries[k][x], path |-> AuditPaths(k, x)[<<1, n>>]]

\* The receipts a ledger issues: headers of the CCF profile, a signature over
\* a root, and for every place of the statement in that tree a proof.
IssuedBy(k, r) ==
  LET protected == r.message.protected
      unprotected == r.message.unprotected
  IN  /\ {"vds", "alg"} \subseteq DOMAIN protected
      /\ protected.vds # Malformed
      /\ protected.vds.n = CCFLedgerSha256
      /\ protected.alg # Malformed
      /\ protected.alg \in VerifierAlgs[k]
      /\ r.message.payload = Nil
      /\ "vdp" \in DOMAIN unprotected
      /\ unprotected.vdp # Malformed
      /\ "inclusion" \in DOMAIN unprotected.vdp
      /\ Proofs(r) # Malformed
      /\ Proofs(r) # <<>>
      /\ \E n \in 2 .. Size(k) :
           /\ r.message.signature =
                Sign(k, protected.alg, protected, Digest[k][<<1, n>>])
           /\ \A proof \in Range(Proofs(r)) :
                \E x \in 1 .. n :
                  /\ proof = InclusionProof(k, n, x)
                  /\ Entries[k][x].data = r.expectedDataHash

\* The statement's data hash is in an entry of the ledger.
RegistersData(k, data) == \E x \in 1 .. Size(k) : Entries[k][x].data = data

\* What a proof names is an entry of the ledger, for the expected statement.
RegistersLeaf(k, leaf, data) ==
  \E x \in 1 .. Size(k) :
    /\ LeafPreimage(Entries[k][x]) = LeafPreimage(leaf)
    /\ Entries[k][x].data = data

-----------------------------------------------------------------------------
\* A ledger is a sequence of entries as the CCF profile has them: evidence is
\* text of 1 to 1024 bytes, the hashes have their length.
ASSUME EntriesAssumption ==
  \A k \in Keys :
    /\ Entries[k] \in Seq(Range(Entries[k]))
    /\ \A x \in 1 .. Size(k) :
         /\ Entries[k][x].evidence \in 1 .. 1024
         /\ Malformed \notin {Entries[k][x], Entries[k][x].tx, Entries[k][x].data}

\* Both parts of a tree of two entries or more are not empty.
ASSUME SplitAssumption ==
  \A k \in Keys : \A t \in Intervals(k) :
    t[1] < t[2] => Split[t] \in t[1] .. t[2] - 1

\* A version number, and what ledgers send, are neither nil nor of another type.
ASSUME MalformedAssumption ==
  /\ CCFLedgerSha256 # Malformed
  /\ MaxInt64 \in Nat /\ CCFLedgerSha256 <= MaxInt64
  /\ \A k \in Keys : \A t \in Intervals(k) :
       /\ Digest[k][t] \notin {Nil, Malformed}
       /\ \A left \in BOOLEAN : [left |-> left, hash |-> Digest[k][t]] # Malformed
       /\ \A x \in 1 .. Size(k) :
            AuditPaths(k, x)[t] # Malformed /\ InclusionProof(k, t[2], x) # Malformed
=============================================================================
