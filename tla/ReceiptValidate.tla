-------------------------- MODULE ReceiptValidate --------------------------
(***************************************************************************)
(* ParsedCOSEReceipt.Validate (check.go) with CCF_ComputeRoot inlined, one *)
(* action per iteration of a loop and per early return.  The receipt and   *)
(* the key map are the arguments of the call and are chosen initially.     *)
(*                                                                         *)
(* The ledgers are the environment (Ledgers): the receipts that exist are  *)
(* their signatures over the roots of their trees, and others' forgeries.  *)
(***************************************************************************)
EXTENDS Ledgers

CONSTANTS
  Receipts,    \* the parsed receipts a call may be given
  KeyMaps      \* the kid -> public key maps a call may be given

ASSUME KeysAssumption ==
  \A ks \in KeyMaps : \A kid \in DOMAIN ks : ks[kid] \in Keys

ASSUME SignaturesAssumption ==
  \A r \in Receipts : Unforged(r)

ASSUME ArraysAssumption ==
  \A r \in Receipts, ks \in KeyMaps : DecodedArrays(r, ks)

-----------------------------------------------------------------------------
VARIABLES
  receipt,  \* the receiver r
  keys,     \* the argument
  pc,       \* where the call is
  i,        \* index of the proof the outer loop is at
  j,        \* index of the path element the inner loop is at
  h,        \* the running hash of CCF_ComputeRoot
  payload   \* msg.Payload, a copy local to the call

vars == <<receipt, keys, pc, i, j, h, payload>>

Proof == Proofs(receipt)[i]

Key == keys[receipt.kid]

Init ==
  /\ receipt \in Receipts
  /\ keys \in KeyMaps
  /\ pc = "headers"
  /\ i = 1
  /\ j = 1
  /\ h = Nil
  /\ payload = receipt.message.payload

Reject ==
  /\ pc' = "rejected"
  /\ UNCHANGED <<receipt, keys, i, j, h, payload>>

CheckHeaders ==
  /\ pc = "headers"
  /\ HeadersOK(receipt, keys)
  /\ pc' = "proof"
  /\ UNCHANGED <<receipt, keys, i, j, h, payload>>

RejectHeaders ==
  /\ pc = "headers"
  /\ ~HeadersOK(receipt, keys)
  /\ Reject

\* Decode proof i and hash its leaf.
OpenProof ==
  /\ pc = "proof"
  /\ i <= Len(Proofs(receipt))
  /\ ProofOpens(receipt, Proof)
  /\ h' = LeafHash(Proof.leaf)
  /\ j' = 1
  /\ pc' = "path"
  /\ UNCHANGED <<receipt, keys, i, payload>>

RejectProof ==
  /\ pc = "proof"
  /\ i <= Len(Proofs(receipt))
  /\ ~ProofOpens(receipt, Proof)
  /\ Reject

\* Mutant: the sibling replaces the running hash instead of joining it.
FoldElement_TakesSibling ==
  /\ pc = "path"
  /\ j <= Len(Proof.path)
  /\ ElementOK(Proof.path[j])
  /\ h' = Proof.path[j].hash
  /\ j' = j + 1
  /\ UNCHANGED <<receipt, keys, pc, i, payload>>

FoldElement ==
  /\ pc = "path"
  /\ j <= Len(Proof.path)
  /\ ElementOK(Proof.path[j])
  /\ h' = PathStep(h, Proof.path[j])
  /\ j' = j + 1
  /\ UNCHANGED <<receipt, keys, pc, i, payload>>

RejectElement ==
  /\ pc = "path"
  /\ j <= Len(Proof.path)
  /\ ~ElementOK(Proof.path[j])
  /\ Reject

\* Mutant: the caller of CCF_ComputeRoot forgets to compare the data hash.
MatchDataHash_Unchecked ==
  /\ pc = "path"
  /\ j > Len(Proof.path)
  /\ payload' = h
  /\ pc' = "verify"
  /\ UNCHANGED <<receipt, keys, i, j, h>>

\* The recomputed root becomes the detached payload the signature is over.
MatchDataHash ==
  /\ pc = "path"
  /\ j > Len(Proof.path)
  /\ Proof.leaf.data = receipt.expectedDataHash
  /\ payload' = h
  /\ pc' = "verify"
  /\ UNCHANGED <<receipt, keys, i, j, h>>

RejectDataHash ==
  /\ pc = "path"
  /\ j > Len(Proof.path)
  /\ Proof.leaf.data # receipt.expectedDataHash
  /\ Reject

SignatureVerifies ==
  Verify(receipt.message, payload, receipt.message.protected.alg, Key)

\* Mutant: the next proof is not opened, the old path is taken for its own.
VerifySignature_StaysInPath ==
  /\ pc = "verify"
  /\ SignatureVerifies
  /\ payload' = Nil
  /\ i' = i + 1
  /\ pc' = "path"
  /\ UNCHANGED <<receipt, keys, j, h>>

\* Mutant: the outer loop does not advance.
VerifySignature_SameProof ==
  /\ pc = "verify"
  /\ SignatureVerifies
  /\ payload' = Nil
  /\ pc' = "proof"
  /\ UNCHANGED <<receipt, keys, i, j, h>>

VerifySignature ==
  /\ pc = "verify"
  /\ SignatureVerifies
  /\ payload' = Nil
  /\ i' = i + 1
  /\ pc' = "proof"
  /\ UNCHANGED <<receipt, keys, j, h>>

RejectSignature ==
  /\ pc = "verify"
  /\ ~SignatureVerifies
  /\ Reject

\* Mutant: one good proof is enough.
Accept_FirstProof ==
  /\ pc = "proof"
  /\ i > 1
  /\ pc' = "accepted"
  /\ UNCHANGED <<receipt, keys, i, j, h, payload>>

Accept ==
  /\ pc = "proof"
  /\ i > Len(Proofs(receipt))
  /\ pc' = "accepted"
  /\ UNCHANGED <<receipt, keys, i, j, h, payload>>

\* The call has returned.
Done ==
  /\ pc \in {"accepted", "rejected"}
  /\ UNCHANGED vars

Next ==
  \/ CheckHeaders \/ RejectHeaders
  \/ OpenProof \/ RejectProof
  \/ FoldElement \/ RejectElement
  \/ MatchDataHash \/ RejectDataHash
  \/ VerifySignature \/ RejectSignature
  \/ Accept
  \/ Done

Spec == Init /\ [][Next]_vars

FairSpec == Spec /\ WF_vars(Next)

-----------------------------------------------------------------------------
PCs == {"headers", "proof", "path", "verify", "accepted", "rejected"}

\* The call keeps its arguments: msg := r.Message and the range over inclArr
\* copy, and nothing is written back to the receiver (check.go:353-354).
Arguments ==
  /\ receipt \in Receipts
  /\ keys \in KeyMaps

\* The control state is one of the places of the call, the loop indices are
\* positive, and inside the loops proof i exists and was found well formed.
TypeOK ==
  /\ pc \in PCs
  /\ i \in Nat \ {0}
  /\ j \in Nat \ {0}
  /\ pc \in {"path", "verify"} => i <= Len(Proofs(receipt))

\* An accepted receipt's statement is registered: every inclusion proof is for
\* a leaf that the owner of the key the receipt names put into a tree it
\* signed, and the data hash in that leaf is the one of the envelope.  This is
\* what Validate is for; a receipt grafted from another envelope, or one whose
\* path was altered in any element or order, must not pass (check.go:423-432).
RegisteredLeaf(n) ==
  RegistersLeaf(Key, Proofs(receipt)[n].leaf, receipt.expectedDataHash)

AcceptedMeansRegistered ==
  pc = "accepted" => \A n \in 1 .. Len(Proofs(receipt)) : RegisteredLeaf(n)

\* Why it holds.  The running hash can only be a digest of the signed trees if
\* the leaf hash it started from is one: an inner node has its children in the
\* trees.  No fold can climb into a tree from outside, wherever the early
\* returns and the loop ends fall (check.go:511-546).
HashClimbs ==
  pc \in {"path", "verify"} =>
    (h \in TreeNodes(Key) => LeafHash(Proof.leaf) \in TreeNodes(Key))

\* The loops compute ReceiptValid: no proof and no path element is skipped,
\* taken twice or folded onto the hash of the proof before it, and the payload
\* of one iteration never reaches the next (check.go:408-434, 511-546).
VerdictIsReceiptValid ==
  /\ pc = "accepted" => ReceiptValid(receipt, keys)
  /\ pc = "rejected" => ~ReceiptValid(receipt, keys)

\* A receipt its ledger issued for this envelope is not rejected by a caller
\* who holds the ledger's key: the fold agrees with the way the trees were
\* built, on both sides and at every depth.
IssuedNotRejected ==
  pc = "rejected" =>
    ~ /\ receipt.kid \in DOMAIN keys
      /\ IssuedBy(Key, receipt)

\* Past the checks before the loop there is a key and there are proofs.
HeadersPassed ==
  pc \in {"proof", "path", "verify", "accepted"} => HeadersOK(receipt, keys)

\* Inside a proof, the elements before the inner index were well formed and the
\* running hash is that of all of them.
FoldedSoFar ==
  pc \in {"path", "verify"} =>
    /\ ProofOpens(receipt, Proof)
    /\ j <= Len(Proof.path) + 1
    /\ \A q \in 1 .. j - 1 : ElementOK(Proof.path[q])
    /\ h = Hashes(LeafHash(Proof.leaf), Proof.path)[j - 1]

\* The signature is verified over this proof's root, after its data hash.
VerifyingThisProof ==
  pc = "verify" =>
    /\ j = Len(Proof.path) + 1
    /\ payload = h
    /\ Proof.leaf.data = receipt.expectedDataHash

\* The proofs behind the loop are valid, and the loop ends when none is left.
ValidSoFar ==
  /\ \A n \in 1 .. i - 1 : ProofValid(receipt, keys, Proofs(receipt)[n])
  /\ pc = "headers" => i = 1
  /\ pc = "accepted" => i > Len(Proofs(receipt))

IInv ==
  /\ Arguments
  /\ TypeOK
  /\ HeadersPassed
  /\ FoldedSoFar
  /\ VerifyingThisProof
  /\ ValidSoFar
  /\ VerdictIsReceiptValid

\* The call returns.
Termination == <>(pc \in {"accepted", "rejected"})
=============================================================================
