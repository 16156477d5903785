---------------------------- MODULE LedgersProofs ----------------------------
(***************************************************************************)
(* What an inclusion proof is worth, for trees of every size and shape and *)
(* paths of every length.  Soundness: a receipt that is valid under a      *)
(* ledger's key is for a statement in that ledger.  Completeness: what a   *)
(* ledger issues is valid.                                                 *)
(***************************************************************************)
EXTENDS Ledgers, InductionLemmas

\* CCF_ComputeRoot's recurrence: the recursive definition of the hashes of a
\* path has a solution.
LEMMA HashesRecurrence ==
  ASSUME NEW base, NEW path, Len(path) \in Nat
  PROVE  Hashes(base, path) =
           [n \in 0 .. Len(path) |->
              IF n = 0 THEN base
              ELSE PathStep(Hashes(base, path)[n - 1], path[n])]
<1> DEFINE
      UpTo(f, m) ==
        f = [n \in 0 .. m |->
               IF n = 0 THEN base ELSE PathStep(f[n - 1], path[n])]
      S == {m \in Nat : \E f : UpTo(f, m)}
<1>1. 0 \in S
  <2> DEFINE f == [n \in 0 .. 0 |-> base]
  <2>1. UpTo(f, 0)
    OBVIOUS
  <2> QED
    BY <2>1
<1>2. ASSUME NEW m \in Nat, m \in S PROVE m + 1 \in S
  <2>1. PICK f : UpTo(f, m)
    BY <1>2
  <2> DEFINE g == [n \in 0 .. m + 1 |->
                     IF n = m + 1 THEN PathStep(f[m], path[m + 1]) ELSE f[n]]
  <2>2. ASSUME NEW n \in 0 .. m + 1
        PROVE  g[n] = IF n = 0 THEN base ELSE PathStep(g[n - 1], path[n])
    <3>1. CASE n = 0
      BY <2>1, <3>1
    <3>2. CASE n \in 1 .. m
      BY <2>1, <3>2
    <3>3. CASE n = m + 1
      BY <3>3
    <3> QED
      BY <3>1, <3>2, <3>3
  <2>3. g = [n \in 0 .. m + 1 |-> g[n]]
    OBVIOUS
  <2> HIDE DEF g
  <2>4. UpTo(g, m + 1)
    BY <2>2, <2>3
  <2> QED
    BY <2>4
<1>3. Nat \subseteq S
  <2> HIDE DEF S
  <2> QED
    BY <1>1, <1>2, NatSetInduction
<1>4. \E f : UpTo(f, Len(path))
  BY <1>3
<1> QED
  BY <1>4 DEF Hashes

\* The first hash is the leaf's, each further one takes in an element.
LEMMA HashesSteps ==
  ASSUME NEW base, NEW path, Len(path) \in Nat
  PROVE  /\ Hashes(base, path)[0] = base
         /\ \A n \in 1 .. Len(path) :
              Hashes(base, path)[n] = PathStep(Hashes(base, path)[n - 1], path[n])
<1> DEFINE H == Hashes(base, path)
<1>1. H = [n \in 0 .. Len(path) |->
             IF n = 0 THEN base ELSE PathStep(H[n - 1], path[n])]
  BY HashesRecurrence
<1> HIDE DEF H
<1>2. H[0] = base /\ \A n \in 1 .. Len(path) : H[n] = PathStep(H[n - 1], path[n])
  BY <1>1
<1> QED
  BY <1>2 DEF H

\* Another element at the end takes the root one step up.
LEMMA HashesOfAppend ==
  ASSUME NEW base, NEW E, NEW path \in Seq(E), NEW el
  PROVE  Hashes(base, Append(path, el))[Len(path) + 1]
           = PathStep(Hashes(base, path)[Len(path)], el)
<1> DEFINE longer == Append(path, el)
           S == {n \in Nat : n <= Len(path) =>
                               Hashes(base, longer)[n] = Hashes(base, path)[n]}
<1>1. /\ Len(path) \in Nat
      /\ Len(longer) = Len(path) + 1
      /\ \A n \in 1 .. Len(path) : longer[n] = path[n]
      /\ longer[Len(path) + 1] = el
  OBVIOUS
<1> HIDE DEF longer
<1>2. 0 \in S
  BY <1>1, HashesSteps
<1>3. ASSUME NEW n \in Nat, n \in S PROVE n + 1 \in S
  <2> SUFFICES ASSUME n + 1 <= Len(path)
               PROVE  Hashes(base, longer)[n + 1] = Hashes(base, path)[n + 1]
    OBVIOUS
  <2>1. n + 1 \in 1 .. Len(path) /\ n + 1 \in 1 .. Len(longer) /\ (n + 1) - 1 = n
    BY <1>1
  <2>2. Hashes(base, longer)[n] = Hashes(base, path)[n]
    BY <1>1, <1>3
  <2>3. Hashes(base, longer)[n + 1] = PathStep(Hashes(base, longer)[n], longer[n + 1])
    BY <1>1, <2>1, HashesSteps
  <2>4. Hashes(base, path)[n + 1] = PathStep(Hashes(base, path)[n], path[n + 1])
    BY <1>1, <2>1, HashesSteps
  <2> QED
    BY <1>1, <2>1, <2>2, <2>3, <2>4
<1>4. Nat \subseteq S
  <2> HIDE DEF S
  <2> QED
    BY <1>2, <1>3, NatSetInduction
<1>5. Hashes(base, longer)[Len(path)] = Hashes(base, path)[Len(path)]
  BY <1>1, <1>4
<1>6. /\ Len(path) + 1 \in 1 .. Len(longer)
      /\ (Len(path) + 1) - 1 = Len(path)
  BY <1>1
<1>7. Hashes(base, longer)[Len(path) + 1]
        = PathStep(Hashes(base, longer)[Len(path)], el)
  BY <1>1, <1>6, HashesSteps
<1> QED
  BY <1>5, <1>7 DEF longer

-----------------------------------------------------------------------------
\* A ledger has a length.
LEMMA SizeIsNat ==
  ASSUME NEW k \in Keys
  PROVE  Size(k) \in Nat
<1>1. Entries[k] \in Seq(Range(Entries[k]))
  BY EntriesAssumption
<1> QED
  BY <1>1 DEF Size

\* Splitting leaves two smaller trees.
LEMMA PartsAreSmaller ==
  ASSUME NEW k \in Keys, NEW t \in Intervals(k), t[1] < t[2]
  PROVE  /\ LeftPart(t) \in Intervals(k)
         /\ RightPart(t) \in Intervals(k)
         /\ LeftPart(t)[2] - LeftPart(t)[1] < t[2] - t[1]
         /\ RightPart(t)[2] - RightPart(t)[1] < t[2] - t[1]
         /\ LeftPart(t)[1] = t[1] /\ LeftPart(t)[2] = Split[t]
         /\ RightPart(t)[1] = Split[t] + 1 /\ RightPart(t)[2] = t[2]
         /\ t[1] <= Split[t] /\ Split[t] < t[2]
         /\ t[1] \in 1 .. Size(k) /\ t[2] \in 1 .. Size(k)
<1>1. Size(k) \in Nat
  BY SizeIsNat
<1>2. t[1] \in 1 .. Size(k) /\ t[2] \in 1 .. Size(k)
  BY DEF Intervals
<1>3. Split[t] \in t[1] .. t[2] - 1
  BY SplitAssumption
<1> QED
  BY <1>1, <1>2, <1>3 DEF Intervals, LeftPart, RightPart

\* The recursive definition of the digests of a ledger has a solution.
LEMMA DigestRecurrence ==
  ASSUME NEW k \in Keys
  PROVE  Digest[k] =
           [t \in Intervals(k) |->
              IF t[1] < t[2]
                THEN Sha256(<<Digest[k][LeftPart(t)], Digest[k][RightPart(t)]>>)
                ELSE LeafHash(Entries[k][t[1]])]
<1> DEFINE
      Step(f, t) == IF t[1] < t[2] THEN Sha256(<<f[LeftPart(t)], f[RightPart(t)]>>)
                    ELSE LeafHash(Entries[k][t[1]])
      Upto(m) == {t \in Intervals(k) : t[2] - t[1] <= m}
      Solves(f, m) == f = [t \in Upto(m) |-> Step(f, t)]
      S == {m \in Nat : \E f : Solves(f, m)}
<1>1. Size(k) \in Nat
  BY SizeIsNat
<1>2. \A t \in Intervals(k) : t[1] \in 1 .. Size(k) /\ t[2] \in 1 .. Size(k)
  BY DEF Intervals
<1>3. 0 \in S
  <2> DEFINE f == [t \in Upto(0) |-> LeafHash(Entries[k][t[1]])]
  <2>1. ASSUME NEW t \in Upto(0) PROVE f[t] = Step(f, t)
    BY <1>1, <1>2
  <2>2. f = [t \in Upto(0) |-> f[t]]
    OBVIOUS
  <2> HIDE DEF f
  <2>3. Solves(f, 0)
    BY <2>1, <2>2
  <2> QED
    BY <2>3
<1>4. ASSUME NEW m \in Nat, m \in S PROVE m + 1 \in S
  <2>1. PICK f : Solves(f, m)
    BY <1>4
  <2> DEFINE g == [t \in Upto(m + 1) |-> Step(f, t)]
  <2>2. \A t \in Upto(m) : t \in Upto(m + 1) /\ g[t] = f[t]
    <3> TAKE t \in Upto(m)
    <3>1. t \in Upto(m + 1)
      BY <1>1, <1>2
    <3>2. f[t] = Step(f, t)
      <4> HIDE DEF Step, Upto
      <4> QED
        BY <2>1
    <3> HIDE DEF Step, Upto
    <3> QED
      BY <3>1, <3>2
  <2>3. ASSUME NEW t \in Upto(m + 1) PROVE g[t] = Step(g, t)
    <3>1. g[t] = Step(f, t)
      <4> HIDE DEF Step, Upto
      <4> QED
        OBVIOUS
    <3>2. CASE t[1] < t[2]
      <4>1. LeftPart(t) \in Upto(m) /\ RightPart(t) \in Upto(m)
        BY <1>1, <1>2, <3>2, PartsAreSmaller DEF Intervals
      <4> HIDE DEF g, Upto
      <4>2. g[LeftPart(t)] = f[LeftPart(t)] /\ g[RightPart(t)] = f[RightPart(t)]
        BY <2>2, <4>1
      <4> QED
        BY <3>1, <3>2, <4>2
    <3>3. CASE ~(t[1] < t[2])
      <4> HIDE DEF g, Upto
      <4> QED
        BY <3>1, <3>3
    <3> QED
      BY <3>2, <3>3
  <2>4. g = [t \in Upto(m + 1) |-> g[t]]
    OBVIOUS
  <2> HIDE DEF g, Upto, Step
  <2>5. Solves(g, m + 1)
    BY <2>3, <2>4
  <2> QED
    BY <2>5
<1>5. Nat \subseteq S
  <2> HIDE DEF S
  <2> QED
    BY <1>3, <1>4, NatSetInduction
<1>6. \E f : Solves(f, Size(k))
  <2> HIDE DEF Solves
  <2> QED
    BY <1>1, <1>5
<1>7. Upto(Size(k)) = Intervals(k)
  BY <1>1, <1>2
<1>8. \E f : f = [t \in Intervals(k) |-> Step(f, t)]
  BY <1>6, <1>7
<1> QED
  BY <1>8 DEF Digest

\* What a digest in a tree is made of.
LEMMA DigestOf ==
  ASSUME NEW k \in Keys, NEW t \in Intervals(k)
  PROVE  /\ t[1] < t[2] =>
              Digest[k][t] = Sha256(<<Digest[k][LeftPart(t)], Digest[k][RightPart(t)]>>)
         /\ ~(t[1] < t[2]) => Digest[k][t] = LeafHash(Entries[k][t[1]])
<1> DEFINE D == Digest[k]
<1>1. D = [u \in Intervals(k) |->
             IF u[1] < u[2] THEN Sha256(<<D[LeftPart(u)], D[RightPart(u)]>>)
             ELSE LeafHash(Entries[k][u[1]])]
  BY DigestRecurrence
<1> HIDE DEF D
<1>2. D[t] = IF t[1] < t[2] THEN Sha256(<<D[LeftPart(t)], D[RightPart(t)]>>)
             ELSE LeafHash(Entries[k][t[1]])
  BY <1>1
<1> QED
  BY <1>2 DEF D

-----------------------------------------------------------------------------
\* Distinct preimages have distinct digests.
LEMMA Sha256Injective ==
  ASSUME NEW a, NEW b, Sha256(a) = Sha256(b)
  PROVE  a = b
  BY DEF Sha256

\* A digest of two children is never that of a leaf, which has three parts;
\* both children of one in a tree are in the tree.
LEMMA ChildrenAreNodes ==
  ASSUME NEW k \in Keys, NEW a, NEW b, Sha256(<<a, b>>) \in TreeNodes(k)
  PROVE  a \in TreeNodes(k) /\ b \in TreeNodes(k)
<1>1. PICK t \in Intervals(k) : Sha256(<<a, b>>) = Digest[k][t]
  BY DEF TreeNodes
<1>2. CASE t[1] < t[2]
  <2>1. <<a, b>> = <<Digest[k][LeftPart(t)], Digest[k][RightPart(t)]>>
    <3>1. Sha256(<<a, b>>) = Sha256(<<Digest[k][LeftPart(t)], Digest[k][RightPart(t)]>>)
      BY <1>1, <1>2, DigestOf
    <3> QED
      BY <3>1, Sha256Injective
  <2>2. LeftPart(t) \in Intervals(k) /\ RightPart(t) \in Intervals(k)
    BY <1>2, PartsAreSmaller
  <2> QED
    BY <2>1, <2>2 DEF TreeNodes
<1>3. CASE ~(t[1] < t[2])
  <2>1. <<a, b>> = LeafPreimage(Entries[k][t[1]])
    <3>1. Sha256(<<a, b>>) = Sha256(LeafPreimage(Entries[k][t[1]]))
      BY <1>1, <1>3, DigestOf DEF LeafHash
    <3> QED
      BY <3>1, Sha256Injective
  <2>2. Len(<<a, b>>) = 2 /\ Len(LeafPreimage(Entries[k][t[1]])) = 3
    BY DEF LeafPreimage
  <2> QED
    BY <2>1, <2>2
<1> QED
  BY <1>2, <1>3

\* A leaf hash in the tree of a ledger is the hash of one of its entries.
LEMMA LeafHashIsLeaf ==
  ASSUME NEW k \in Keys, NEW leaf, LeafHash(leaf) \in TreeNodes(k)
  PROVE  \E x \in 1 .. Size(k) : LeafPreimage(Entries[k][x]) = LeafPreimage(leaf)
<1>1. PICK t \in Intervals(k) : Sha256(LeafPreimage(leaf)) = Digest[k][t]
  BY DEF TreeNodes, LeafHash
<1>2. CASE t[1] < t[2]
  <2>1. LeafPreimage(leaf) = <<Digest[k][LeftPart(t)], Digest[k][RightPart(t)]>>
    <3>1. Sha256(LeafPreimage(leaf))
            = Sha256(<<Digest[k][LeftPart(t)], Digest[k][RightPart(t)]>>)
      BY <1>1, <1>2, DigestOf
    <3> QED
      BY <3>1, Sha256Injective
  <2>2. Len(LeafPreimage(leaf)) = 3
    BY DEF LeafPreimage
  <2>3. Len(<<Digest[k][LeftPart(t)], Digest[k][RightPart(t)]>>) = 2
    OBVIOUS
  <2> QED
    BY <2>1, <2>2, <2>3
<1>3. CASE ~(t[1] < t[2])
  <2>1. LeafPreimage(leaf) = LeafPreimage(Entries[k][t[1]])
    <3>1. Sha256(LeafPreimage(leaf)) = Sha256(LeafPreimage(Entries[k][t[1]]))
      BY <1>1, <1>3, DigestOf DEF LeafHash
    <3> QED
      BY <3>1, Sha256Injective
  <2>2. t[1] \in 1 .. Size(k)
    BY DEF Intervals
  <2> QED
    BY <2>1, <2>2
<1> QED
  BY <1>2, <1>3

\* One step of the fold stays outside the tree of a ledger: when its result is
\* in it, so is the hash it started from (CCF_ComputeRoot's loop).
LEMMA PathStepClimbs ==
  ASSUME NEW k \in Keys, NEW g, NEW el, PathStep(g, el) \in TreeNodes(k)
  PROVE  g \in TreeNodes(k)
  BY ChildrenAreNodes DEF PathStep

\* So do any number of steps: a hash of the path that is in the tree shows the
\* first one to be in it.
LEMMA HashesClimb ==
  ASSUME NEW k \in Keys, NEW base, NEW path, Len(path) \in Nat,
         NEW m \in 0 .. Len(path), Hashes(base, path)[m] \in TreeNodes(k)
  PROVE  base \in TreeNodes(k)
<1> DEFINE S == {n \in Nat : n <= Len(path) /\ Hashes(base, path)[n] \in TreeNodes(k)
                               => base \in TreeNodes(k)}
<1>1. 0 \in S
  BY HashesSteps
<1>2. ASSUME NEW n \in Nat, n \in S PROVE n + 1 \in S
  <2> SUFFICES ASSUME n + 1 <= Len(path), Hashes(base, path)[n + 1] \in TreeNodes(k)
               PROVE  base \in TreeNodes(k)
    OBVIOUS
  <2>1. n + 1 \in 1 .. Len(path) /\ (n + 1) - 1 = n
    OBVIOUS
  <2>2. PathStep(Hashes(base, path)[n], path[n + 1]) \in TreeNodes(k)
    BY <2>1, HashesSteps
  <2>3. Hashes(base, path)[n] \in TreeNodes(k)
    BY <2>2, PathStepClimbs
  <2> QED
    BY <1>2, <2>3
<1>3. Nat \subseteq S
  <2> HIDE DEF S
  <2> QED
    BY <1>1, <1>2, NatSetInduction
<1> QED
  BY <1>3

\* Soundness.  A proof that is valid under a ledger's key, on a receipt whose
\* signature is not forged, is for an entry of that ledger with the data hash of
\* the envelope (Validate, check.go:349-437).
THEOREM ValidIsRegistered ==
  ASSUME NEW r, NEW ks, NEW proof, ProofValid(r, ks, proof),
         ks[r.kid] \in Keys, Unforged(r), Len(proof.path) \in Nat
  PROVE  RegistersLeaf(ks[r.kid], proof.leaf, r.expectedDataHash)
<1> DEFINE k == ks[r.kid]
<1>1. /\ r.message.signature.key = k
      /\ r.message.signature.payload = ComputeRoot(proof)
  BY DEF ProofValid, Verify, Sign
<1>2. ComputeRoot(proof) \in SignedRoots(k)
  BY <1>1 DEF Unforged
<1>3. SignedRoots(k) \subseteq TreeNodes(k)
  <2>1. Size(k) \in Nat
    BY SizeIsNat
  <2>2. \A n \in 1 .. Size(k) : <<1, n>> \in Intervals(k)
    BY <2>1 DEF Intervals
  <2> QED
    BY <2>2 DEF SignedRoots, TreeNodes
<1>4. LeafHash(proof.leaf) \in TreeNodes(k)
  BY <1>2, <1>3, HashesClimb DEF ComputeRoot
<1>5. PICK x \in 1 .. Size(k) : LeafPreimage(Entries[k][x]) = LeafPreimage(proof.leaf)
  BY <1>4, LeafHashIsLeaf
<1>6. Entries[k][x].data = proof.leaf.data
  BY <1>5 DEF LeafPreimage
<1> QED
  BY <1>5, <1>6 DEF RegistersLeaf, ProofValid

\* So a valid receipt is for a statement in the ledger: it has a proof at least.
THEOREM ValidHasData ==
  ASSUME NEW r, NEW ks, ReceiptValid(r, ks), DecodedArrays(r, ks),
         ks[r.kid] \in Keys, Unforged(r)
  PROVE  RegistersData(ks[r.kid], r.expectedDataHash)
<1>1. HeadersOK(r, ks) /\ Proofs(r) # <<>> /\ Proofs(r) \in Seq(Range(Proofs(r)))
  BY DEF ReceiptValid, HeadersOK, DecodedArrays
<1>2. Proofs(r)[1] \in Range(Proofs(r))
  BY <1>1
<1>3. ProofValid(r, ks, Proofs(r)[1])
  BY <1>2 DEF ReceiptValid
<1>4. Len(Proofs(r)[1].path) \in Nat
  BY <1>1, <1>2, <1>3 DEF DecodedArrays, ProofValid
<1> QED
  BY <1>3, <1>4, ValidIsRegistered DEF RegistersLeaf, RegistersData

-----------------------------------------------------------------------------
\* The recursive definition of the audit paths of an entry has a solution.
LEMMA AuditPathsRecurrence ==
  ASSUME NEW k \in Keys, NEW x \in 1 .. Size(k)
  PROVE  AuditPaths(k, x) =
           [t \in Intervals(k) |->
              IF t[1] >= t[2] THEN <<>>
              ELSE IF x <= Split[t]
                THEN Append(AuditPaths(k, x)[LeftPart(t)],
                            [left |-> FALSE, hash |-> Digest[k][RightPart(t)]])
                ELSE Append(AuditPaths(k, x)[RightPart(t)],
                            [left |-> TRUE, hash |-> Digest[k][LeftPart(t)]])]
<1> DEFINE
      Step(f, t) ==
        IF t[1] >= t[2] THEN <<>>
        ELSE IF x <= Split[t]
          THEN Append(f[LeftPart(t)],
                      [left |-> FALSE, hash |-> Digest[k][RightPart(t)]])
          ELSE Append(f[RightPart(t)],
                      [left |-> TRUE, hash |-> Digest[k][LeftPart(t)]])
      Upto(m) == {t \in Intervals(k) : t[2] - t[1] <= m}
      Solves(f, m) == f = [t \in Upto(m) |-> Step(f, t)]
      S == {m \in Nat : \E f : Solves(f, m)}
<1>1. Size(k) \in Nat
  BY SizeIsNat
<1>2. \A t \in Intervals(k) : t[1] \in 1 .. Size(k) /\ t[2] \in 1 .. Size(k)
  BY DEF Intervals
<1>3. 0 \in S
  <2> DEFINE f == [t \in Upto(0) |-> <<>>]
  <2>1. ASSUME NEW t \in Upto(0) PROVE f[t] = Step(f, t)
    BY <1>1, <1>2
  <2>2. f = [t \in Upto(0) |-> f[t]]
    OBVIOUS
  <2> HIDE DEF f
  <2>3. Solves(f, 0)
    BY <2>1, <2>2
  <2> QED
    BY <2>3
<1>4. ASSUME NEW m \in Nat, m \in S PROVE m + 1 \in S
  <2>1. PICK f : Solves(f, m)
    BY <1>4
  <2> DEFINE g == [t \in Upto(m + 1) |-> Step(f, t)]
  <2>2. \A t \in Upto(m) : t \in Upto(m + 1) /\ g[t] = f[t]
    <3> TAKE t \in Upto(m)
    <3>1. t \in Upto(m + 1)
      BY <1>1, <1>2
    <3>2. f[t] = Step(f, t)
      <4> HIDE DEF Step, Upto
      <4> QED
        BY <2>1
    <3> HIDE DEF Step, Upto
    <3> QED
      BY <3>1, <3>2
  <2>3. ASSUME NEW t \in Upto(m + 1) PROVE g[t] = Step(g, t)
    <3>1. g[t] = Step(f, t)
      <4> HIDE DEF Step, Upto
      <4> QED
        OBVIOUS
    <3>2. CASE t[1] < t[2]
      <4>1. LeftPart(t) \in Upto(m) /\ RightPart(t) \in Upto(m)
        BY <1>1, <1>2, <3>2, PartsAreSmaller DEF Intervals
      <4> HIDE DEF g, Upto
      <4>2. g[LeftPart(t)] = f[LeftPart(t)] /\ g[RightPart(t)] = f[RightPart(t)]
        BY <2>2, <4>1
      <4> QED
        BY <3>1, <3>2, <4>2
    <3>3. CASE t[1] >= t[2]
      <4> HIDE DEF g, Upto
      <4> QED
        BY <3>1, <3>3
    <3> QED
      BY <1>2, <3>2, <3>3
  <2>4. g = [t \in Upto(m + 1) |-> g[t]]
    OBVIOUS
  <2> HIDE DEF g, Upto, Step
  <2>5. Solves(g, m + 1)
    BY <2>3, <2>4
  <2> QED
    BY <2>5
<1>5. Nat \subseteq S
  <2> HIDE DEF S
  <2> QED
    BY <1>3, <1>4, NatSetInduction
<1>6. \E f : Solves(f, Size(k))
  <2> HIDE DEF Solves
  <2> QED
    BY <1>1, <1>5
<1>7. Upto(Size(k)) = Intervals(k)
  BY <1>1, <1>2
<1>8. \E f : f = [t \in Intervals(k) |-> Step(f, t)]
  BY <1>6, <1>7
<1> QED
  BY <1>8 DEF AuditPaths

\* How an audit path is made of one in the half of the tree the entry is in.
LEMMA AuditPathOf ==
  ASSUME NEW k \in Keys, NEW x \in 1 .. Size(k), NEW t \in Intervals(k)
  PROVE  LET P == AuditPaths(k, x)
         IN  /\ t[1] >= t[2] => P[t] = <<>>
             /\ t[1] < t[2] /\ x <= Split[t] =>
                  P[t] = Append(P[LeftPart(t)],
                                [left |-> FALSE, hash |-> Digest[k][RightPart(t)]])
             /\ t[1] < t[2] /\ ~(x <= Split[t]) =>
                  P[t] = Append(P[RightPart(t)],
                                [left |-> TRUE, hash |-> Digest[k][LeftPart(t)]])
<1> DEFINE P == AuditPaths(k, x)
<1>1. P = [u \in Intervals(k) |->
             IF u[1] >= u[2] THEN <<>>
             ELSE IF x <= Split[u]
               THEN Append(P[LeftPart(u)],
                           [left |-> FALSE, hash |-> Digest[k][RightPart(u)]])
               ELSE Append(P[RightPart(u)],
                           [left |-> TRUE, hash |-> Digest[k][LeftPart(u)]])]
  BY AuditPathsRecurrence
<1> HIDE DEF P
<1>2. P[t] = IF t[1] >= t[2] THEN <<>>
             ELSE IF x <= Split[t]
               THEN Append(P[LeftPart(t)],
                           [left |-> FALSE, hash |-> Digest[k][RightPart(t)]])
               ELSE Append(P[RightPart(t)],
                           [left |-> TRUE, hash |-> Digest[k][LeftPart(t)]])
  BY <1>1
<1>3. t[1] \in Int /\ t[2] \in Int
  BY DEF Intervals
<1> QED
  BY <1>2, <1>3 DEF P

\* The path elements a ledger sends.
Elements(k) == [left : BOOLEAN, hash : TreeNodes(k)]

\* Folding the audit path of an entry, in every tree it is in, gives the root
\* of that tree.
LEMMA AuditPathsLead ==
  ASSUME NEW k \in Keys, NEW x \in 1 .. Size(k),
         NEW t \in Intervals(k), x \in t[1] .. t[2]
  PROVE  LET path == AuditPaths(k, x)[t]
         IN  /\ path \in Seq(Elements(k))
             /\ t[1] < t[2] => path # <<>>
             /\ Hashes(LeafHash(Entries[k][x]), path)[Len(path)] = Digest[k][t]
<1> DEFINE
      P == AuditPaths(k, x)
      base == LeafHash(Entries[k][x])
      Leads(u) == /\ P[u] \in Seq(Elements(k))
                  /\ u[1] < u[2] => P[u] # <<>>
                  /\ Hashes(base, P[u])[Len(P[u])] = Digest[k][u]
      S == {m \in Nat : \A u \in Intervals(k) :
                          u[2] - u[1] <= m /\ x \in u[1] .. u[2] => Leads(u)}
<1>1. Size(k) \in Nat
  BY SizeIsNat
<1>2. \A u \in Intervals(k) : u[1] \in 1 .. Size(k) /\ u[2] \in 1 .. Size(k)
  BY DEF Intervals
<1>3. ASSUME NEW u \in Intervals(k), x \in u[1] .. u[2], u[1] >= u[2]
      PROVE  Leads(u)
  <2>1. u[1] = x
    BY <1>2, <1>3
  <2>2. P[u] = <<>> /\ Digest[k][u] = base
    <3>1. P[u] = <<>>
      BY <1>3, AuditPathOf
    <3>2. ~(u[1] < u[2])
      BY <1>2, <1>3
    <3>3. Digest[k][u] = LeafHash(Entries[k][u[1]])
      BY <3>2, DigestOf
    <3> QED
      BY <2>1, <3>1, <3>3
  <2>3. Len(P[u]) = 0 /\ P[u] \in Seq(Elements(k))
    BY <2>2
  <2>4. Hashes(base, P[u])[0] = base
    BY <2>3, HashesSteps
  <2> QED
    BY <1>2, <1>3, <2>2, <2>3, <2>4
<1>4. 0 \in S
  BY <1>2, <1>3
<1>5. ASSUME NEW m \in Nat, m \in S PROVE m + 1 \in S
  <2> SUFFICES ASSUME NEW u \in Intervals(k), x \in u[1] .. u[2],
                      u[2] - u[1] <= m + 1, u[1] < u[2]
               PROVE  Leads(u)
    BY <1>2, <1>3
  <2>1. /\ LeftPart(u) \in Intervals(k) /\ RightPart(u) \in Intervals(k)
        /\ LeftPart(u)[2] - LeftPart(u)[1] <= m
        /\ RightPart(u)[2] - RightPart(u)[1] <= m
        /\ Split[u] \in Int
    BY <1>2, PartsAreSmaller DEF Intervals
  <2>2. /\ Digest[k][LeftPart(u)] \in TreeNodes(k)
        /\ Digest[k][RightPart(u)] \in TreeNodes(k)
        /\ Digest[k][u] = Sha256(<<Digest[k][LeftPart(u)], Digest[k][RightPart(u)]>>)
    BY <2>1, DigestOf DEF TreeNodes
  <2>3. CASE x <= Split[u]
    <3> DEFINE el == [left |-> FALSE, hash |-> Digest[k][RightPart(u)]]
               half == P[LeftPart(u)]
    <3>1. Leads(LeftPart(u))
      BY <1>2, <1>5, <2>1, <2>3, PartsAreSmaller
    <3>2. P[u] = Append(half, el)
      BY <2>3, AuditPathOf
    <3>3. el \in Elements(k)
      BY <2>2 DEF Elements
    <3>4. PathStep(Digest[k][LeftPart(u)], el) = Digest[k][u]
      BY <2>2 DEF PathStep
    <3>5. half \in Seq(Elements(k)) /\ Hashes(base, half)[Len(half)] = Digest[k][LeftPart(u)]
      BY <3>1
    <3> HIDE DEF el, half, P
    <3>6. Hashes(base, Append(half, el))[Len(half) + 1] = Digest[k][u]
      BY <3>4, <3>5, HashesOfAppend
    <3>7. /\ Append(half, el) \in Seq(Elements(k)) /\ Append(half, el) # <<>>
          /\ Len(Append(half, el)) = Len(half) + 1
      BY <3>3, <3>5
    <3> QED
      BY <3>2, <3>6, <3>7
  <2>4. CASE ~(x <= Split[u])
    <3> DEFINE el == [left |-> TRUE, hash |-> Digest[k][LeftPart(u)]]
               half == P[RightPart(u)]
    <3>1. Leads(RightPart(u))
      BY <1>2, <1>5, <2>1, <2>4, PartsAreSmaller
    <3>2. P[u] = Append(half, el)
      BY <2>4, AuditPathOf
    <3>3. el \in Elements(k)
      BY <2>2 DEF Elements
    <3>4. PathStep(Digest[k][RightPart(u)], el) = Digest[k][u]
      BY <2>2 DEF PathStep
    <3>5. half \in Seq(Elements(k)) /\ Hashes(base, half)[Len(half)] = Digest[k][RightPart(u)]
      BY <3>1
    <3> HIDE DEF el, half, P
    <3>6. Hashes(base, Append(half, el))[Len(half) + 1] = Digest[k][u]
      BY <3>4, <3>5, HashesOfAppend
    <3>7. /\ Append(half, el) \in Seq(Elements(k)) /\ Append(half, el) # <<>>
          /\ Len(Append(half, el)) = Len(half) + 1
      BY <3>3, <3>5
    <3> QED
      BY <3>2, <3>6, <3>7
  <2> QED
    BY <2>3, <2>4
<1>6. Nat \subseteq S
  <2> HIDE DEF S
  <2> QED
    BY <1>4, <1>5, NatSetInduction
<1>7. t[2] - t[1] \in Nat
  BY <1>2
<1>8. Leads(t)
  BY <1>6, <1>7
<1> QED
  BY <1>8

\* Validate can decode the entries of a ledger.
LEMMA EntryIsALeaf ==
  ASSUME NEW k \in Keys, NEW x \in 1 .. Size(k)
  PROVE  LeafOK(Entries[k][x])
<1> DEFINE entry == Entries[k][x]
<1>1. /\ entry.evidence \in 1 .. 1024
      /\ Malformed \notin {entry, entry.tx, entry.data}
  BY EntriesAssumption
<1> QED
  BY <1>1 DEF LeafOK, MaxEvidence

\* Completeness.  A receipt that a ledger issued is valid for everyone who has
\* the ledger's key under the receipt's kid (Validate, check.go:349-437).
THEOREM IssuedIsValid ==
  ASSUME NEW k \in Keys, NEW r, IssuedBy(k, r),
         NEW ks, r.kid \in DOMAIN ks, ks[r.kid] = k
  PROVE  ReceiptValid(r, ks)
<1>1. Size(k) \in Nat
  BY SizeIsNat
<1>2. AsInt64(r.message.protected.vds) = CCFLedgerSha256
  <2>1. ~(CCFLedgerSha256 > MaxInt64)
    BY MalformedAssumption DEF CCFLedgerSha256
  <2>2. /\ r.message.protected.vds # Malformed
        /\ r.message.protected.vds.n = CCFLedgerSha256
    BY DEF IssuedBy
  <2> QED
    BY <2>1, <2>2 DEF AsInt64
<1>3. HeadersOK(r, ks)
  BY <1>2, MalformedAssumption DEF IssuedBy, HeadersOK
<1>4. PICK n \in 2 .. Size(k) :
        /\ r.message.signature = Sign(k, r.message.protected.alg,
                                      r.message.protected, Digest[k][<<1, n>>])
        /\ \A proof \in Range(Proofs(r)) :
             \E x \in 1 .. n : /\ proof = InclusionProof(k, n, x)
                              /\ Entries[k][x].data = r.expectedDataHash
  BY DEF IssuedBy
<1>5. ASSUME NEW proof \in Range(Proofs(r)) PROVE ProofValid(r, ks, proof)
  <2>1. PICK x \in 1 .. n : /\ proof = InclusionProof(k, n, x)
                            /\ Entries[k][x].data = r.expectedDataHash
    BY <1>4
  <2> DEFINE t == <<1, n>>
             path == AuditPaths(k, x)[t]
  <2>2. x \in 1 .. Size(k) /\ t \in Intervals(k) /\ t[1] = 1 /\ t[2] = n /\ 1 < n
    BY <1>1 DEF Intervals
  <2>3. /\ path \in Seq(Elements(k)) /\ path # <<>>
        /\ Hashes(LeafHash(Entries[k][x]), path)[Len(path)] = Digest[k][t]
    BY <2>2, AuditPathsLead
  <2>4. proof.leaf = Entries[k][x] /\ proof.path = path /\ DOMAIN proof = {"leaf", "path"}
    BY <2>1 DEF InclusionProof
  <2>5. /\ path # Malformed /\ proof # Malformed
        /\ \A u \in Intervals(k) :
             /\ Digest[k][u] # Malformed
             /\ \A left \in BOOLEAN : [left |-> left, hash |-> Digest[k][u]] # Malformed
    BY <2>1, <2>2, MalformedAssumption
  <2>6. ASSUME NEW el \in Range(path) PROVE ElementOK(el)
    <3>1. el \in Elements(k)
      BY <2>3 DEF Range
    <3>2. PICK u \in Intervals(k) : el.hash = Digest[k][u]
      BY <3>1 DEF Elements, TreeNodes
    <3>3. el.left \in BOOLEAN /\ el = [left |-> el.left, hash |-> Digest[k][u]]
      BY <3>1, <3>2 DEF Elements
    <3> QED
      BY <2>5, <3>2, <3>3 DEF ElementOK
  <2>7. ProofOpens(r, proof)
    <3>1. LeafOK(Entries[k][x])
      BY <2>2, EntryIsALeaf
    <3> QED
      BY <1>2, <2>3, <2>4, <2>5, <3>1 DEF ProofOpens
  <2>8. ComputeRoot(proof) = Digest[k][t]
    BY <2>3, <2>4 DEF ComputeRoot
  <2>9. Digest[k][t] # Nil
    BY <2>2, MalformedAssumption
  <2>10. Verify(r.message, ComputeRoot(proof), r.message.protected.alg, ks[r.kid])
    BY <1>4, <2>8, <2>9 DEF Verify
  <2> QED
    BY <2>1, <2>4, <2>6, <2>7, <2>10 DEF ProofValid
<1> QED
  BY <1>3, <1>5 DEF ReceiptValid
=============================================================================
