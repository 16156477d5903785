----------------------------- MODULE CCFReceipt -----------------------------
(***************************************************************************)
(* The data a receipt is made of and the functions check.go computes over  *)
(* it.  Digests and signatures are symbolic: Sha256 is a constructor, so   *)
(* equal digests have equal preimages, and a signature is the record of    *)
(* what was signed, with which key and algorithm.  A CBOR map is a         *)
(* function whose DOMAIN is the labels present; a value of the wrong type  *)
(* or length is Malformed, an absent payload is Nil.                       *)
(***************************************************************************)
EXTENDS Integers, Sequences, SequencesExt

CONSTANTS
  Nil,          \* Go's nil slice: a detached payload
  Malformed,    \* a value of another type or length than the code asks for
  MaxInt64,     \* math.MaxInt64
  VerifierAlgs  \* key -> the algorithms cose.NewVerifier accepts it for

\* "internal-evidence: tstr .size (1..1024)"; the text is known by its length.
MaxEvidence == 1024

\* COSE_vds_CCF_LEDGER_SHA256
CCFLedgerSha256 == 2

Sha256(preimage) == [sha256 |-> preimage]

\* An integer header: [type, n], where n > MaxInt64 needs an unsigned type.
AsInt64(v) ==
  IF v = Malformed \/ (v.type = "uint64" /\ v.n > MaxInt64)
    THEN Malformed
    ELSE v.n

LeafPreimage(leaf) == <<leaf.tx, Sha256(<<leaf.evidence>>), leaf.data>>

LeafHash(leaf) == Sha256(LeafPreimage(leaf))

PathStep(h, el) ==
  IF el.left THEN Sha256(<<el.hash, h>>) ELSE Sha256(<<h, el.hash>>)

\* What a genuine signer puts into a COSE_Sign1, and what Verify recomputes.
Sign(key, alg, protected, payload) ==
  [key |-> key, alg |-> alg, protected |-> protected, payload |-> payload]

Verify(msg, payload, alg, key) ==
  /\ payload # Nil
  /\ msg.signature = Sign(key, alg, msg.protected, payload)

Proofs(r) == r.message.unprotected.vdp.inclusion

\* The checks of Validate before its loop, in the order of the code.
HeadersOK(r, keys) ==
  LET protected == r.message.protected
      unprotected == r.message.unprotected
  IN  /\ "vds" \in DOMAIN protected
      /\ AsInt64(protected.vds) # Malformed
      /\ r.message.payload = Nil
      /\ "alg" \in DOMAIN protected
      /\ protected.alg # Malformed
      /\ r.kid \in DOMAIN keys
      /\ "vdp" \in DOMAIN unprotected
      /\ unprotected.vdp # Malformed
      /\ "inclusion" \in DOMAIN unprotected.vdp
      /\ Proofs(r) # Malformed
      /\ Proofs(r) # <<>>
      /\ protected.alg \in VerifierAlgs[keys[r.kid]]

\* Mutant: off by one at the upper length of the evidence.
LeafOK_ShortEvidence(leaf) ==
  /\ leaf # Malformed
  /\ leaf.tx # Malformed
  /\ leaf.evidence \in 1 .. MaxEvidence - 1
  /\ leaf.data # Malformed

LeafOK(leaf) ==
  /\ leaf # Malformed
  /\ leaf.tx # Malformed
  /\ leaf.evidence \in 1 .. MaxEvidence
  /\ leaf.data # Malformed

\* The proof is a byte string, the vds names the CCF profile, and the decoded
\* map has a leaf and a path one can start to fold.
ProofOpens(r, proof) ==
  /\ proof # Malformed
  /\ AsInt64(r.message.protected.vds) = CCFLedgerSha256
  /\ {"leaf", "path"} \subseteq DOMAIN proof
  /\ LeafOK(proof.leaf)
  /\ proof.path # Malformed
  /\ proof.path # <<>>

ElementOK(el) ==
  /\ el # Malformed
  /\ el.left \in BOOLEAN
  /\ el.hash # Malformed

\* The hashes of CCF_ComputeRoot from a leaf hash up, one per path element.
Hashes(base, path) ==
  LET H[n \in 0 .. Len(path)] ==
        IF n = 0 THEN base ELSE PathStep(H[n - 1], path[n])
  IN  H

ComputeRoot(proof) ==
  Hashes(LeafHash(proof.leaf), proof.path)[Len(proof.path)]

\* CBOR arrays are decoded into slices.
DecodedArrays(r, keys) ==
  HeadersOK(r, keys) =>
    /\ Proofs(r) \in Seq(Range(Proofs(r)))
    /\ \A proof \in Range(Proofs(r)) :
         ProofOpens(r, proof) => proof.path \in Seq(Range(proof.path))

ProofValid(r, keys, proof) ==
  /\ ProofOpens(r, proof)
  /\ \A el \in Range(proof.path) : ElementOK(el)
  /\ proof.leaf.data = r.expectedDataHash
  /\ Verify(r.message, ComputeRoot(proof),
            r.message.protected.alg, keys[r.kid])

\* Validate as a function: what the loop of ReceiptValidate computes.
ReceiptValid(r, keys) ==
  /\ HeadersOK(r, keys)
  /\ \A proof \in Range(Proofs(r)) : ProofValid(r, keys, proof)
=============================================================================
