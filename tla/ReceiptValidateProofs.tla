----------------------- MODULE ReceiptValidateProofs -----------------------
(***************************************************************************)
(* Validate's loops decide ReceiptValid, for every receipt, key map and    *)
(* set of ledgers: the inductive invariant says which hash of the path the *)
(* running hash is and what is known of the proofs behind the loop.  What  *)
(* the verdict is worth follows from LedgersProofs.                        *)
(***************************************************************************)
EXTENDS ReceiptValidate, LedgersProofs

\* The key of a receipt that passed the checks before the loop is a ledger's.
LEMMA KeyIsKnown ==
  ASSUME Arguments, HeadersOK(receipt, keys)
  PROVE  Key \in Keys
  BY KeysAssumption DEF Arguments, HeadersOK, Key

\* The proofs are a sequence, and so is the path of each that can be opened.
LEMMA ProofsAreSequences ==
  ASSUME Arguments, HeadersOK(receipt, keys)
  PROVE  /\ Len(Proofs(receipt)) \in Nat
         /\ Range(Proofs(receipt)) =
              {Proofs(receipt)[n] : n \in 1 .. Len(Proofs(receipt))}
         /\ \A proof \in Range(Proofs(receipt)) :
              ProofOpens(receipt, proof) =>
                /\ Len(proof.path) \in Nat
                /\ Range(proof.path) = {proof.path[q] : q \in 1 .. Len(proof.path)}
<1>1. Proofs(receipt) \in Seq(Range(Proofs(receipt)))
  BY ArraysAssumption DEF Arguments, DecodedArrays
<1>2. ASSUME NEW s, s \in Seq(Range(s))
      PROVE  Len(s) \in Nat /\ Range(s) = {s[q] : q \in 1 .. Len(s)}
  <2>1. Len(s) \in Nat /\ DOMAIN s = 1 .. Len(s)
    BY <1>2
  <2> QED
    BY <2>1 DEF Range
<1>3. \A proof \in Range(Proofs(receipt)) :
        ProofOpens(receipt, proof) => proof.path \in Seq(Range(proof.path))
  BY ArraysAssumption DEF Arguments, DecodedArrays
<1> QED
  BY <1>1, <1>2, <1>3

-----------------------------------------------------------------------------
\* The invariant holds when the call begins.
LEMMA InitEstablishes ==
  Init => IInv
  BY DEF Init, IInv, Arguments, TypeOK, PCs, HeadersPassed, FoldedSoFar,
         VerifyingThisProof, ValidSoFar, VerdictIsReceiptValid

\* Every early return is taken with a reason: something the receipt must have
\* to be valid is not there.
LEMMA RejectedForAReason ==
  ASSUME IInv,
         RejectHeaders \/ RejectProof \/ RejectElement
           \/ RejectDataHash \/ RejectSignature
  PROVE  ~ReceiptValid(receipt, keys)
<1> USE DEF IInv
<1>1. CASE RejectHeaders
  BY <1>1 DEF RejectHeaders, ReceiptValid
<1>2. ASSUME pc \in {"proof", "path", "verify"}, i <= Len(Proofs(receipt))
      PROVE  Proof \in Range(Proofs(receipt))
  BY <1>2, ProofsAreSequences DEF HeadersPassed, TypeOK, Proof
<1>3. CASE RejectProof
  BY <1>2, <1>3 DEF RejectProof, ReceiptValid, ProofValid
<1>4. CASE RejectElement
  <2>1. /\ pc = "path" /\ j <= Len(Proof.path) /\ ~ElementOK(Proof.path[j])
        /\ i <= Len(Proofs(receipt))
    BY <1>4 DEF RejectElement, TypeOK
  <2>2. Proof.path[j] \in Range(Proof.path)
    BY <1>2, <2>1, ProofsAreSequences DEF HeadersPassed, TypeOK, FoldedSoFar
  <2> QED
    BY <1>2, <2>1, <2>2 DEF ReceiptValid, ProofValid
<1>5. CASE RejectDataHash
  BY <1>2, <1>5 DEF RejectDataHash, TypeOK, ReceiptValid, ProofValid
<1>6. CASE RejectSignature
  <2>1. /\ pc = "verify" /\ ~SignatureVerifies /\ i <= Len(Proofs(receipt))
    BY <1>6 DEF RejectSignature, TypeOK
  <2>2. Proof \in Range(Proofs(receipt)) /\ Len(Proof.path) \in Nat
    BY <1>2, <2>1, ProofsAreSequences DEF HeadersPassed, FoldedSoFar
  <2>3. payload = ComputeRoot(Proof)
    BY <2>1, <2>2 DEF FoldedSoFar, VerifyingThisProof, ComputeRoot
  <2> QED
    BY <2>1, <2>2, <2>3 DEF SignatureVerifies, Key, ReceiptValid, ProofValid
<1> QED
  BY <1>1, <1>3, <1>4, <1>5, <1>6

\* Every step, accepting, rejecting or looping, keeps it.
LEMMA StepPreserves ==
  IInv /\ [Next]_vars => IInv'
<1> SUFFICES ASSUME IInv, [Next]_vars
             PROVE  IInv'
  OBVIOUS
<1> USE DEF IInv
<1>0. Arguments' /\ receipt' = receipt /\ keys' = keys
  BY DEF Next, vars, Arguments, CheckHeaders, RejectHeaders, OpenProof,
         RejectProof, FoldElement, RejectElement, MatchDataHash,
         RejectDataHash, VerifySignature, RejectSignature, Accept, Done, Reject
<1>1. CASE RejectHeaders \/ RejectProof \/ RejectElement \/ RejectDataHash
             \/ RejectSignature
  <2>1. ~ReceiptValid(receipt, keys)
    BY <1>1, RejectedForAReason
  <2>2. Reject
    BY <1>1 DEF RejectHeaders, RejectProof, RejectElement, RejectDataHash,
                RejectSignature
  <2>3. TypeOK' /\ HeadersPassed' /\ FoldedSoFar' /\ VerifyingThisProof'
    BY <2>2 DEF Reject, TypeOK, PCs, HeadersPassed, FoldedSoFar,
                VerifyingThisProof
  <2>4. ValidSoFar' /\ VerdictIsReceiptValid'
    BY <2>1, <2>2 DEF Reject, ValidSoFar, VerdictIsReceiptValid
  <2> QED
    BY <1>0, <2>3, <2>4
<1>2. CASE CheckHeaders
  BY <1>0, <1>2
     DEF CheckHeaders, TypeOK, PCs, HeadersPassed, FoldedSoFar,
         VerifyingThisProof, ValidSoFar, VerdictIsReceiptValid
<1>3. CASE OpenProof
  <2> USE <1>0, <1>3 DEF OpenProof
  <2>1. TypeOK' /\ HeadersPassed' /\ VerifyingThisProof' /\ ValidSoFar'
        /\ VerdictIsReceiptValid'
    BY DEF TypeOK, PCs, HeadersPassed, VerifyingThisProof, ValidSoFar,
           VerdictIsReceiptValid
  <2>2. Proof \in Range(Proofs(receipt)) /\ Len(Proof.path) \in Nat
    BY ProofsAreSequences DEF HeadersPassed, TypeOK, Proof
  <2>3. FoldedSoFar'
    BY <2>2, HashesSteps DEF FoldedSoFar, Proof
  <2> QED
    BY <2>1, <2>3
<1>4. CASE FoldElement
  <2> USE <1>0, <1>4 DEF FoldElement
  <2>1. TypeOK' /\ HeadersPassed' /\ VerifyingThisProof' /\ ValidSoFar'
        /\ VerdictIsReceiptValid'
    BY DEF TypeOK, PCs, HeadersPassed, VerifyingThisProof, ValidSoFar,
           VerdictIsReceiptValid
  <2>2. Proof \in Range(Proofs(receipt)) /\ Len(Proof.path) \in Nat
    BY ProofsAreSequences DEF HeadersPassed, TypeOK, FoldedSoFar, Proof
  <2>3. j \in 1 .. Len(Proof.path) /\ Proof' = Proof /\ j' = j + 1
        /\ pc' = "path" /\ pc = "path"
    BY <2>2 DEF TypeOK, Proof
  <2>4. h' = Hashes(LeafHash(Proof.leaf), Proof.path)[j' - 1]
    BY <2>2, <2>3, HashesSteps DEF FoldedSoFar
  <2>5. 1 .. j' - 1 = (1 .. j - 1) \cup {j}
    BY <2>3
  <2>6. FoldedSoFar'
    BY <2>2, <2>3, <2>4, <2>5 DEF FoldedSoFar
  <2> QED
    BY <2>1, <2>6
<1>5. CASE MatchDataHash
  <2> USE <1>0, <1>5 DEF MatchDataHash
  <2>1. TypeOK' /\ HeadersPassed' /\ ValidSoFar' /\ VerdictIsReceiptValid'
    BY DEF TypeOK, PCs, HeadersPassed, ValidSoFar, VerdictIsReceiptValid
  <2>2. Proof \in Range(Proofs(receipt)) /\ Len(Proof.path) \in Nat
    BY ProofsAreSequences DEF HeadersPassed, TypeOK, FoldedSoFar, Proof
  <2>3. FoldedSoFar' /\ VerifyingThisProof'
    BY <2>2 DEF FoldedSoFar, VerifyingThisProof, TypeOK, Proof
  <2> QED
    BY <2>1, <2>3
<1>6. CASE VerifySignature
  <2> USE <1>0, <1>6 DEF VerifySignature
  <2>1. TypeOK' /\ HeadersPassed' /\ FoldedSoFar' /\ VerifyingThisProof'
        /\ VerdictIsReceiptValid'
    BY DEF TypeOK, PCs, HeadersPassed, FoldedSoFar, VerifyingThisProof,
           VerdictIsReceiptValid
  <2>2. ProofValid(receipt, keys, Proof)
    <3>1. Proof \in Range(Proofs(receipt)) /\ Len(Proof.path) \in Nat
      BY ProofsAreSequences DEF HeadersPassed, TypeOK, FoldedSoFar, Proof
    <3>2. /\ j - 1 = Len(Proof.path)
          /\ payload = ComputeRoot(Proof)
      BY <3>1 DEF FoldedSoFar, VerifyingThisProof, ComputeRoot
    <3>3. \A el \in Range(Proof.path) : ElementOK(el)
      <4>1. HeadersOK(receipt, keys) /\ ProofOpens(receipt, Proof)
        BY DEF FoldedSoFar, HeadersPassed
      <4>2. Range(Proof.path) = {Proof.path[q] : q \in 1 .. Len(Proof.path)}
        BY <3>1, <4>1, ProofsAreSequences
      <4>3. \A q \in 1 .. Len(Proof.path) : ElementOK(Proof.path[q])
        BY <3>2 DEF FoldedSoFar
      <4> QED
        BY <4>2, <4>3
    <3> QED
      BY <3>2, <3>3
         DEF FoldedSoFar, VerifyingThisProof, SignatureVerifies, Key, ProofValid
  <2>3. 1 .. i' - 1 = (1 .. i - 1) \cup {i}
    BY DEF TypeOK
  <2>4. ValidSoFar'
    BY <2>2, <2>3 DEF ValidSoFar, Proof
  <2> QED
    BY <2>1, <2>4
<1>7. CASE Accept
  <2> USE <1>0, <1>7 DEF Accept
  <2>1. TypeOK' /\ HeadersPassed' /\ FoldedSoFar' /\ VerifyingThisProof'
        /\ ValidSoFar'
    BY DEF TypeOK, PCs, HeadersPassed, FoldedSoFar, VerifyingThisProof,
           ValidSoFar
  <2>2. HeadersOK(receipt, keys)
    BY DEF HeadersPassed
  <2>3. \A n \in 1 .. Len(Proofs(receipt)) : n \in 1 .. i - 1
    BY <2>2, ProofsAreSequences DEF TypeOK
  <2>4. \A proof \in Range(Proofs(receipt)) : ProofValid(receipt, keys, proof)
    BY <2>2, <2>3, ProofsAreSequences DEF ValidSoFar
  <2>5. VerdictIsReceiptValid'
    BY <2>2, <2>4 DEF VerdictIsReceiptValid, ReceiptValid
  <2> QED
    BY <2>1, <2>5
<1>8. CASE UNCHANGED vars
  BY <1>0, <1>8 DEF vars, TypeOK, HeadersPassed, FoldedSoFar,
     VerifyingThisProof, ValidSoFar, VerdictIsReceiptValid, Proof
<1> QED
  BY <1>1, <1>2, <1>3, <1>4, <1>5, <1>6, <1>7, <1>8 DEF Next, Done

\* The inductive invariant holds in every run of the call.
LEMMA Invariant == Spec => []IInv
  BY InitEstablishes, StepPreserves, PTL DEF Spec

-----------------------------------------------------------------------------
\* Validate's variables keep their types.
THEOREM TypeCorrect ==
  Spec => []TypeOK
<1>1. IInv => TypeOK
  BY DEF IInv
<1> QED
  BY <1>1, Invariant, PTL

\* When the running hash is a digest of the ledger's trees, the leaf hash it
\* began with is one.
THEOREM RunningHashesClimb ==
  Spec => []HashClimbs
<1>1. IInv => HashClimbs
  <2> SUFFICES ASSUME IInv, pc \in {"path", "verify"}, h \in TreeNodes(Key)
               PROVE  LeafHash(Proof.leaf) \in TreeNodes(Key)
    BY DEF HashClimbs
  <2> USE DEF IInv
  <2>1. Key \in Keys
    BY KeyIsKnown DEF HeadersPassed
  <2>2. Proof \in Range(Proofs(receipt)) /\ Len(Proof.path) \in Nat
    BY ProofsAreSequences DEF HeadersPassed, TypeOK, FoldedSoFar, Proof
  <2>3. /\ j - 1 \in 0 .. Len(Proof.path)
        /\ h = Hashes(LeafHash(Proof.leaf), Proof.path)[j - 1]
    BY <2>2 DEF FoldedSoFar, TypeOK
  <2> QED
    BY <2>1, <2>2, <2>3, HashesClimb
<1> QED
  BY <1>1, Invariant, PTL

\* Validate returns nil exactly for the valid receipts: what the loops compute
\* is the function that CheckCommand and Tools use for the call.
THEOREM VerdictIsValidity ==
  Spec => []VerdictIsReceiptValid
<1>1. IInv => VerdictIsReceiptValid
  BY DEF IInv
<1> QED
  BY <1>1, Invariant, PTL

\* Validate returns nil only for statements registered, by an inclusion proof
\* each, in the ledger with the key it was given for the receipt's kid.
THEOREM AcceptedAreRegistered ==
  Spec => []AcceptedMeansRegistered
<1>1. IInv => AcceptedMeansRegistered
  <2> SUFFICES ASSUME IInv, pc = "accepted",
                      NEW n \in 1 .. Len(Proofs(receipt))
               PROVE  RegisteredLeaf(n)
    BY DEF AcceptedMeansRegistered
  <2> USE DEF IInv
  <2> DEFINE proof == Proofs(receipt)[n]
  <2>1. HeadersOK(receipt, keys) /\ Unforged(receipt) /\ keys[receipt.kid] \in Keys
    BY KeyIsKnown, SignaturesAssumption DEF HeadersPassed, Arguments, Key
  <2>2. proof \in Range(Proofs(receipt)) /\ ProofValid(receipt, keys, proof)
    BY <2>1, ProofsAreSequences DEF VerdictIsReceiptValid, ReceiptValid
  <2>3. Len(proof.path) \in Nat
    BY <2>1, <2>2, ProofsAreSequences DEF ProofValid
  <2> QED
    BY <2>1, <2>2, <2>3, ValidIsRegistered DEF RegisteredLeaf, Key
<1> QED
  BY <1>1, Invariant, PTL

\* Validate rejects no receipt that the ledger with that key issued.
THEOREM IssuedAreNotRejected ==
  Spec => []IssuedNotRejected
<1>1. IInv => IssuedNotRejected
  <2> SUFFICES ASSUME IInv, receipt.kid \in DOMAIN keys, IssuedBy(Key, receipt)
               PROVE  pc # "rejected"
    BY DEF IssuedNotRejected
  <2>1. Key \in Keys
    BY KeysAssumption DEF IInv, Arguments, Key
  <2>2. ReceiptValid(receipt, keys)
    BY <2>1, IssuedIsValid DEF Key
  <2> QED
    BY <2>2 DEF IInv, VerdictIsReceiptValid
<1> QED
  BY <1>1, Invariant, PTL
=============================================================================
