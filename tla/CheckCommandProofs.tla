------------------------- MODULE CheckCommandProofs -------------------------
(***************************************************************************)
(* A command that checks an envelope does what CheckPolicy says, for every *)
(* set of command lines, ledgers and key sets and every number of          *)
(* rotations: what passes is registered, signed and named, and what the    *)
(* trust list settles does not fail.                                       *)
(***************************************************************************)
EXTENDS CheckCommand, ReceiptKeysProofs, LedgersProofs

\* The receipts of an envelope that unpacks are a sequence.
LEMMA AttachedIsSequence ==
  ASSUME NEW c \in Commands, Unpacks(c)
  PROVE  /\ Attached(c) \in Seq(Range(Attached(c)))
         /\ \A r \in Range(Attached(c)) : r.expectedDataHash = DataHash(c.envelope)
<1>1. CASE "receipts" \notin DOMAIN c.envelope.unprotected
  <2>1. Attached(c) = <<>>
    BY <1>1 DEF Attached, ParsedReceipts
  <2> QED
    BY <2>1 DEF Range
<1>2. CASE "receipts" \in DOMAIN c.envelope.unprotected
  <2> DEFINE rs == c.envelope.unprotected.receipts
  <2>1. rs \in Seq(Range(rs))
    BY <1>2, ArraysAssumption DEF Unpacks
  <2>2. Len(rs) \in Nat /\ DOMAIN rs = 1 .. Len(rs)
    BY <2>1
  <2>3. /\ Attached(c) = [m \in 1 .. Len(rs) |-> Attached(c)[m]]
        /\ \A m \in 1 .. Len(rs) :
             Attached(c)[m].expectedDataHash = DataHash(c.envelope)
    BY <1>2, <2>2 DEF Attached, ParsedReceipts
  <2>4. Attached(c) \in Seq(Range(Attached(c)))
    BY <2>2, <2>3 DEF Range
  <2> QED
    BY <2>2, <2>3, <2>4 DEF Range
<1> QED
  BY <1>1, <1>2

\* Validate looks up nothing but the key of the receipt's kid.
LEMMA OneKeyDecides ==
  ASSUME NEW r, NEW K1, NEW K2, r.kid \in DOMAIN K2, K1[r.kid] = K2[r.kid],
         ReceiptValid(r, K1)
  PROVE  ReceiptValid(r, K2) /\ r.kid \in DOMAIN K1
  BY DEF ReceiptValid, HeadersOK, ProofValid

\* A receipt that is valid under a ledger's key is for a statement in that
\* ledger, and the ledger is the one that the receipt names.
LEMMA ValidUnderALedgersKey ==
  ASSUME NEW c \in Commands, c.envelope # NoFile, UnpackOK(c.envelope),
         NEW r \in Range(ParsedReceipts(c.envelope)),
         NEW k \in Keys, ReceiptValid(r, [kid \in {r.kid} |-> k])
  PROVE  RegistersData(k, r.expectedDataHash) /\ LedgerOf[k] = Endpoint(r.issuer)
<1> DEFINE ks == [kid \in {r.kid} |-> k]
<1>1. ks[r.kid] = k /\ Unforged(r) /\ DecodedArrays(r, ks)
  BY ReceiptsAssumption
<1>2. RegistersData(k, r.expectedDataHash)
  BY <1>1, ValidHasData
<1>3. /\ r.message.signature.key = k
      /\ r.message.signature.protected = r.message.protected
  <2>1. PICK proof \in Range(Proofs(r)) : ProofValid(r, ks, proof)
    <3>1. HeadersOK(r, ks) /\ Proofs(r) # <<>> /\ Proofs(r) \in Seq(Range(Proofs(r)))
      BY <1>1 DEF ReceiptValid, HeadersOK, DecodedArrays
    <3>2. Proofs(r)[1] \in Range(Proofs(r))
      BY <3>1
    <3> QED
      BY <3>2 DEF ReceiptValid
  <2> QED
    BY <1>1, <2>1 DEF ProofValid, Verify, Sign
<1>4. r.issuer = r.message.protected.cwt.iss
  <2> DEFINE rs == ParsedReceipts(c.envelope)
  <2>1. \E m \in DOMAIN rs : r = rs[m]
    <3> HIDE DEF rs
    <3>1. \A f : Range(f) = {f[m] : m \in DOMAIN f}
      BY DEF Range
    <3> QED
      BY <3>1 DEF rs
  <2>2. "receipts" \in DOMAIN c.envelope.unprotected
    <3>1. rs # <<>>
      BY <2>1
    <3> QED
      BY <3>1 DEF ParsedReceipts
  <2>3. PICK m \in DOMAIN rs : r = rs[m]
    BY <2>1
  <2> DEFINE msgs == c.envelope.unprotected.receipts
  <2>4. rs = [a \in DOMAIN msgs |->
                [message |-> msgs[a], issuer |-> msgs[a].protected.cwt.iss,
                 kid |-> msgs[a].protected.kid,
                 expectedDataHash |-> DataHash(c.envelope)]]
    BY <2>2 DEF ParsedReceipts
  <2> HIDE DEF rs
  <2> QED
    BY <2>3, <2>4
<1> QED
  BY <1>2, <1>3, <1>4, ReceiptsAssumption

\* The keys of a JWKS that the code takes are those of its ledger.
LEMMA JwksKeysAreTheLedgers ==
  ASSUME NEW e \in Endpoints, NEW set \in JWKSets[e], JWKSetOK(set),
         NEW kid \in DOMAIN KeyMap(set)
  PROVE  /\ KeyMap(set)[kid] \in Keys
         /\ LedgerOf[KeyMap(set)[kid]] = e
<1>1. PICK a \in DOMAIN set : set[a].kid = kid
  BY DEF KeyMap
<1>2. \E k \in Range(set) : k.kid = kid
  BY <1>1 DEF Range
<1>3. PICK b \in DOMAIN set : KeyMap(set)[kid] = set[b].key
  BY <1>2 DEF KeyMap, Range
<1>4. set[b].key # UnknownKey
  BY DEF JWKSetOK, HasPublicKey
<1> QED
  BY <1>3, <1>4, LedgersAssumption

\* The keys a trust list file gives an issuer are those of its ledger.
LEMMA ListedKeysAreTheLedgers ==
  ASSUME NEW c \in Commands, TTLFileOK(c.ttl),
         NEW x \in DOMAIN ParsedTTLFile(c.ttl),
         NEW kid \in DOMAIN ParsedTTLFile(c.ttl)[x]
  PROVE  /\ ParsedTTLFile(c.ttl)[x][kid] \in Keys
         /\ LedgerOf[ParsedTTLFile(c.ttl)[x][kid]] = Endpoint(x)
<1>1. c.ttl # NoFile /\ c.ttl # Malformed
  BY DEF ParsedTTLFile, TTLFileOK
<1> DEFINE ttl == IF "signed" \in DOMAIN c.ttl THEN c.ttl.signed.payload
                                              ELSE c.ttl.ttl
<1>2. ("signed" \in DOMAIN c.ttl => UnpackOK(c.ttl.signed)) /\ TTLOK(ttl)
  BY <1>1 DEF TTLFileOK
<1>3. ParsedTTLFile(c.ttl) = [y \in DOMAIN ttl |-> KeySetMap(ttl[y].keys)]
  BY <1>1 DEF ParsedTTLFile, TrustMap
<1>4. x \in DOMAIN ttl /\ ParsedTTLFile(c.ttl)[x] = KeySetMap(ttl[x].keys)
  BY <1>3
<1> QED
  BY <1>1, <1>2, <1>4, TrustListsAssumption

\* Every receipt valid under the collected keys: the ledgers registered them.
LEMMA AllValidMeansProven ==
  ASSUME CommandInv, phase = "validate",
         \A m \in DOMAIN args.receipts : ReceiptValid(args.receipts[m], keys)
  PROVE  Proven(cmd)
<1> SUFFICES ASSUME NEW r \in ToValidate(cmd)
             PROVE  RegisteredAt(cmd, Endpoint(r.issuer))
  BY DEF Proven
<1> USE DEF CommandInv
<1>1. TTLFileOK(cmd.ttl) /\ Unpacks(cmd)
  BY DEF FilesRead
<1>2. PICK m \in DOMAIN args.receipts : r = args.receipts[m]
  BY DEF Collecting, Range
<1>3. ReceiptValid(r, keys)
  BY <1>2
<1>4. r.kid \in DOMAIN keys
  BY <1>3 DEF ReceiptValid, HeadersOK
<1>5. PICK x \in DOMAIN got : r.kid \in DOMAIN got[x] /\ keys[r.kid] = got[x][r.kid]
  <2>1. call = "returned"
    BY DEF CommandTypeOK
  <2> QED
    BY <1>4, <2>1 DEF IInv, KeysAreCollected
<1>6. keys[r.kid] \in Keys
  <2>1. CASE x \in DOMAIN args.preloaded
    <3>1. /\ x \in DOMAIN ParsedTTLFile(cmd.ttl)
          /\ got[x] = ParsedTTLFile(cmd.ttl)[x]
      BY <2>1 DEF Collecting
    <3>2. ParsedTTLFile(cmd.ttl)[x][r.kid] \in Keys
      BY <1>1, <1>5, <3>1, ListedKeysAreTheLedgers
    <3> QED
      BY <1>5, <3>1, <3>2
  <2>2. CASE x \notin DOMAIN args.preloaded
    <3>1. /\ Endpoint(x) \in Endpoints
          /\ \E set \in JWKSets[Endpoint(x)] :
               JWKSetOK(set) /\ got[x] = KeyMap(set)
      BY <2>2 DEF Collecting
    <3>2. PICK set \in JWKSets[Endpoint(x)] : JWKSetOK(set) /\ got[x] = KeyMap(set)
      BY <3>1
    <3>3. KeyMap(set)[r.kid] \in Keys
      BY <1>5, <3>1, <3>2, JwksKeysAreTheLedgers
    <3> QED
      BY <1>5, <3>2, <3>3
  <2> QED
    BY <2>1, <2>2
<1>7. ReceiptValid(r, [kid \in {r.kid} |-> keys[r.kid]])
  <2> DEFINE K == [kid \in {r.kid} |-> keys[r.kid]]
  <2>1. r.kid \in DOMAIN K /\ keys[r.kid] = K[r.kid]
    OBVIOUS
  <2> HIDE DEF K
  <2>2. ReceiptValid(r, K)
    BY <1>3, <2>1, OneKeyDecides
  <2> QED
    BY <2>2 DEF K
<1>8. r \in Range(ParsedReceipts(cmd.envelope))
  BY DEF ToValidate, Attached
<1>9. r.expectedDataHash = DataHash(cmd.envelope)
  BY <1>1, <1>8, AttachedIsSequence DEF Attached
<1>10. RegistersData(keys[r.kid], r.expectedDataHash)
       /\ LedgerOf[keys[r.kid]] = Endpoint(r.issuer)
  BY <1>1, <1>6, <1>7, <1>8, ValidUnderALedgersKey DEF Unpacks
<1> QED
  BY <1>6, <1>9, <1>10 DEF RegisteredAt

\* A receipt that is valid under its own issuer's keys is so under all keys.
LEMMA OwnKeysAreEnough ==
  ASSUME CommandInv, phase = "validate", NEW m \in DOMAIN args.receipts,
         ReceiptValid(args.receipts[m], got[args.receipts[m].issuer])
  PROVE  ReceiptValid(args.receipts[m], keys)
<1> USE DEF CommandInv
<1> DEFINE r == args.receipts[m]
<1>1. r.kid \in DOMAIN got[r.issuer]
  BY DEF ReceiptValid, HeadersOK
<1>2. call = "returned"
  BY DEF CommandTypeOK
<1>3. r.issuer \in DOMAIN got
  <2>1. DOMAIN args.receipts = 1 .. n - 1
    BY <1>2 DEF IInv, MetIssuers, ReceiptsAreASlice
  <2> QED
    BY <1>2, <2>1 DEF IInv, MetIssuers, Before
<1>4. r.kid \in DOMAIN keys /\ keys[r.kid] = got[r.issuer][r.kid]
  BY <1>1, <1>2, <1>3 DEF IInv, KeysAreCollected
<1> QED
  BY <1>4, OneKeyDecides

\* A receipt rejected under all keys is not one that the list settles.
LEMMA RejectedIsNotSettled ==
  ASSUME CommandInv, phase = "validate", NEW m \in DOMAIN args.receipts,
         ~ReceiptValid(args.receipts[m], keys)
  PROVE  ~Settled(cmd)
<1> USE DEF CommandInv
<1> SUFFICES ASSUME Settled(cmd) PROVE FALSE
  OBVIOUS
<1> DEFINE r == args.receipts[m]
<1>1. r \in ToValidate(cmd)
  BY DEF Collecting, Range
<1>2. r.issuer \in DOMAIN args.preloaded
      /\ ReceiptValid(r, args.preloaded[r.issuer])
  BY <1>1 DEF Settled, Collecting
<1>3. r.issuer \in DOMAIN got
  <2>1. call = "returned"
    BY DEF CommandTypeOK
  <2>2. DOMAIN args.receipts = 1 .. n - 1
    BY <2>1 DEF IInv, MetIssuers, ReceiptsAreASlice
  <2> QED
    BY <2>1, <2>2 DEF IInv, MetIssuers, Before
<1>4. got[r.issuer] = args.preloaded[r.issuer]
  BY <1>2, <1>3 DEF Collecting
<1> QED
  BY <1>2, <1>4, OwnKeysAreEnough

\* The invariant holds when the command begins.
LEMMA CommandInitEstablishes ==
  CommandInit => CommandInv
<1> SUFFICES ASSUME CommandInit PROVE CommandInv
  OBVIOUS
<1> USE DEF CommandInit, Idle
<1>1. /\ args.receipts = <<>>
      /\ Len(args.receipts) = 0
      /\ Range(args.receipts) = {}
  BY DEF Range
<1>2. Before = {} /\ IssuersOf(args.receipts) = {} /\ Range(dialled) = {}
  BY <1>1 DEF Before, IssuersOf, Range
<1>3. IInv
  BY <1>1, <1>2
     DEF IInv, TypeOK, NoErr, Errors, MetIssuers, KeysAreCollected,
         DialledIssuers, DialsAreDue, ConflictsAreBetweenIssuers,
         ReceiptsAreASlice
<1>4. NothingCollected /\ LedgersPublish
  BY <1>1 DEF NothingCollected, LedgersPublish
<1> QED
  BY <1>1, <1>3, <1>4
     DEF CommandInv, CommandTypeOK, FilesRead, Selecting, Collecting,
         ValidSoFar, Established, FetchesAreAskedFor

-----------------------------------------------------------------------------
\* What a step that only changes the phase leaves as it is.
LEMMA GotoKeeps ==
  ASSUME CommandInv, NEW p, Goto(p)
  PROVE  /\ cmd \in Commands /\ cmd' = cmd /\ phase' = p
         /\ UNCHANGED <<v, args, call, n, seen, keys, err, dialled, got, published>>
         /\ IInv' /\ LedgersPublish' /\ FetchesAreAskedFor'
<1> USE DEF CommandInv, Goto
<1>1. UNCHANGED <<v, args, call, n, seen, keys, err, dialled, got, published>>
  BY DEF vars, callVars
<1>2. IInv'
  BY StepPreserves
<1> QED
  BY <1>1, <1>2 DEF LedgersPublish, FetchesAreAskedFor

\* A step of the key collection keeps what the command relies on.
LEMMA FetchKeeps ==
  ASSUME CommandInv, Fetch
  PROVE  CommandInv'
<1> USE DEF CommandInv, Fetch
<1>1. UNCHANGED <<cmd, phase, v>> /\ phase = "fetch"
  BY DEF commandVars
<1>2. IInv'
  BY StepPreserves DEF Next
<1>3. args' = args /\ published' = published
  BY DEF FetchStep, RejectNoIssuer, SkipSeen, UsePreloaded, RejectIssuer,
         Dial, Answer, RejectAnswer, GetFails, Return
<1>4. call' # "idle"
  BY DEF FetchStep, RejectNoIssuer, SkipSeen, UsePreloaded, RejectIssuer,
         Dial, Answer, RejectAnswer, GetFails, Return, Take, Merge, Conflict,
         Fail, CommandTypeOK
<1>5. CommandTypeOK' /\ FilesRead' /\ LedgersPublish'
  BY <1>1, <1>3, <1>4 DEF CommandTypeOK, FilesRead, LedgersPublish
<1>6. NothingCollected' /\ Selecting' /\ ValidSoFar' /\ Established'
  BY <1>1 DEF NothingCollected, Selecting, ValidSoFar, Established
\* The receipt at hand is one to validate.
<1>7. AtReceipt \/ call = "waiting" =>
        \E r \in ToValidate(cmd) : r.issuer = Issuer
  <2> SUFFICES ASSUME AtReceipt \/ call = "waiting"
               PROVE  \E r \in ToValidate(cmd) : r.issuer = Issuer
    OBVIOUS
  <2>1. n \in DOMAIN args.receipts
    BY DEF IInv, TypeOK, ReceiptsAreASlice, AtReceipt
  <2> QED
    BY <1>1, <2>1 DEF Collecting, Issuer, Range
<1>8. ASSUME NEW x \in DOMAIN got
      PROVE  \E r \in ToValidate(cmd) : r.issuer = x
  <2>1. x \in IssuersOf(args.receipts)
    BY <1>8 DEF IInv, TypeOK
  <2> QED
    BY <1>1, <2>1 DEF Collecting, IssuersOf, Range
<1>9. Collecting'
  <2>1. /\ Range(args.receipts') = ToValidate(cmd')
        /\ args'.receipts # <<>>
        /\ args'.preloaded = ParsedTTLFile(cmd'.ttl)
        /\ cmd'.require # Empty \/ cmd'.validate
    BY <1>1, <1>3 DEF Collecting
  <2>5. v' = 1
    BY <1>1 DEF Collecting
  <2>2. call' = "waiting" => Issuer' \notin DOMAIN args'.preloaded
    BY <1>1, <1>3
       DEF Collecting, FetchStep, RejectNoIssuer, SkipSeen, UsePreloaded,
           RejectIssuer, Dial, Answer, RejectAnswer, GetFails, Return, Take,
           Merge, Conflict, Fail, AtNewIssuer, AtReceipt, Issuer
  <2>3. call' = "failed" => ~Settled(cmd')
    <3> SUFFICES ASSUME call' = "failed", Settled(cmd) PROVE FALSE
      BY <1>1
    <3>1. \A r \in ToValidate(cmd) :
            r.issuer # Empty /\ r.issuer \in DOMAIN args.preloaded
      BY <1>1 DEF Settled, Collecting
    <3>2. AtReceipt \/ call = "waiting" =>
            Issuer # NoIssuer /\ Issuer \in DOMAIN args.preloaded
      BY <1>7, <3>1, NoIssuerAssumption
    <3>3. call # "waiting"
      BY <1>1, <3>2 DEF Collecting
    <3>4. UsePreloaded /\ Conflict(args.preloaded[Issuer])
      BY <1>1, <3>2, <3>3
         DEF FetchStep, RejectNoIssuer, SkipSeen, UsePreloaded, RejectIssuer,
             Dial, Answer, RejectAnswer, GetFails, Return, AtNewIssuer,
             AtReceipt, Take, Merge
    <3>5. PICK kid \in DOMAIN args.preloaded[Issuer] : kid \in DOMAIN keys
      BY <3>4 DEF Conflict
    <3>6. AtReceipt /\ Issuer \notin DOMAIN got /\ call # "failed"
      BY <3>4
         DEF UsePreloaded, AtNewIssuer, AtReceipt, IInv, TypeOK
    <3>7. PICK x \in DOMAIN got : kid \in DOMAIN got[x]
      BY <3>5, <3>6 DEF IInv, KeysAreCollected
    <3>8. got[x] = args.preloaded[x]
      <4>1. x \in DOMAIN args.preloaded
        BY <1>8, <3>1
      <4> QED
        BY <1>1, <4>1 DEF Collecting
    <3>9. DOMAIN args.preloaded[x] \cap DOMAIN args.preloaded[Issuer] = {}
      <4>1. PICK r \in ToValidate(cmd) : r.issuer = x
        BY <1>8
      <4>2. PICK q \in ToValidate(cmd) : q.issuer = Issuer
        BY <1>7, <3>6
      <4>3. r.issuer # q.issuer
        BY <3>6, <4>1, <4>2
      <4> QED
        BY <1>1, <4>1, <4>2, <4>3 DEF Settled, Collecting
    <3> QED
      BY <3>5, <3>7, <3>8, <3>9
  <2>4. \A x \in DOMAIN got' :
          IF x \in DOMAIN args'.preloaded THEN got'[x] = args'.preloaded[x]
          ELSE /\ Endpoint(x) \in Endpoints
               /\ \E set \in JWKSets[Endpoint(x)] :
                    JWKSetOK(set) /\ got'[x] = KeyMap(set)
    <3>1. CASE UsePreloaded
      BY <1>1, <1>3, <3>1 DEF UsePreloaded, Take, Assign, Collecting
    <3>2. CASE Answer
      <4>1. /\ Issuer \notin DOMAIN args.preloaded
            /\ Endpoint(Issuer) \in Endpoints
            /\ JWKSetOK(published[Endpoint(Issuer)])
            /\ published[Endpoint(Issuer)] \in JWKSets[Endpoint(Issuer)]
        BY <1>1, <3>2 DEF Answer, Collecting, LedgersPublish
      <4> QED
        BY <1>1, <1>3, <3>2, <4>1 DEF Answer, Take, Assign, Collecting
    <3>3. CASE ~UsePreloaded /\ ~Answer
      <4>1. got' = got
        BY <3>3
           DEF FetchStep, RejectNoIssuer, SkipSeen, RejectIssuer, Dial,
               RejectAnswer, GetFails, Return
      <4> QED
        BY <1>1, <1>3, <4>1 DEF Collecting
    <3> QED
      BY <3>1, <3>2, <3>3
  <2> QED
    BY <2>1, <2>2, <2>3, <2>4, <2>5 DEF Collecting
<1>10. FetchesAreAskedFor'
  <2> SUFFICES ASSUME dialled' # <<>> PROVE FetchesAreAskedFor'
    BY DEF FetchesAreAskedFor
  <2>1. /\ cmd.require # Empty \/ cmd.validate
        /\ Unpacks(cmd)
    BY <1>1 DEF Collecting, FilesRead
  <2>2. dialled' \in Seq(IssuersOf(args.receipts))
    BY <1>2, <1>3 DEF IInv, DialledIssuers
  <2>3. Range(dialled') # {} /\ Range(dialled') \subseteq IssuersOf(args.receipts)
    <3>1. /\ Len(dialled') \in Nat \ {0}
          /\ DOMAIN dialled' = 1 .. Len(dialled')
          /\ \A m \in 1 .. Len(dialled') : dialled'[m] \in IssuersOf(args.receipts)
      BY <2>2
    <3>2. 1 \in DOMAIN dialled'
      BY <3>1
    <3> QED
      BY <3>1, <3>2 DEF Range
  <2>4. cmd.require # Empty => \A x \in IssuersOf(args.receipts) : x = cmd.require
    BY <1>1 DEF Collecting, IssuersOf, Range, ToValidate
  <2> QED
    BY <1>1, <2>1, <2>3, <2>4 DEF FetchesAreAskedFor
<1> QED
  BY <1>1, <1>2, <1>5, <1>6, <1>9, <1>10

\* The invariant of ReceiptKeys holds before its loop begins.
LEMMA BeforeTheLoop ==
  ASSUME args'.receipts \in Seq(Range(args'.receipts)), call' \in {"idle", "loop"},
         n' = 1, seen' = {}, keys' = <<>>, err' = NoErr, dialled' = <<>>,
         got' = <<>>
  PROVE  IInv'
<1>1. Len(args'.receipts) \in Nat
  OBVIOUS
<1>2. Before' = {} /\ Range(dialled') = {}
  BY DEF Before, Range
<1> QED
  BY <1>1, <1>2
     DEF IInv, TypeOK, NoErr, Errors, MetIssuers, KeysAreCollected,
         DialledIssuers, DialsAreDue, ConflictsAreBetweenIssuers,
         ReceiptsAreASlice

\* The collection starts with the receipts to validate.
LEMMA StartFetchKeeps ==
  ASSUME CommandInv, phase \in {"read", "match"}, Unpacks(cmd),
         cmd.require # Empty \/ cmd.validate,
         NEW receipts, NEW allowed, StartFetch(receipts, allowed),
         receipts \in Seq(Range(receipts)), receipts # <<>>,
         Range(receipts) = ToValidate(cmd)
  PROVE  CommandInv'
<1> USE DEF CommandInv, StartFetch
<1>1. /\ n = 1 /\ seen = {} /\ keys = <<>> /\ err = NoErr
      /\ dialled = <<>> /\ got = <<>>
  BY DEF NothingCollected
<1>2. IInv'
  BY <1>1, BeforeTheLoop
<1>3. Len(receipts) \in Nat
  OBVIOUS
<1>4. Collecting'
  BY <1>1 DEF Collecting
<1>5. FilesRead' /\ LedgersPublish'
  BY DEF FilesRead, LedgersPublish
<1>6. FetchesAreAskedFor'
  BY <1>1 DEF FetchesAreAskedFor
<1> QED
  BY <1>2, <1>3, <1>4, <1>5, <1>6
     DEF CommandTypeOK, NothingCollected, Selecting, ValidSoFar, Established

\* When the loop over the receipts is done, those selected are all to validate.
LEMMA AllMatchedAreToValidate ==
  ASSUME CommandInv, phase = "match", v > Len(Attached(cmd))
  PROVE  Range(args.receipts) = ToValidate(cmd)
<1> USE DEF CommandInv
<1>1. /\ Len(Attached(cmd)) \in Nat
      /\ DOMAIN Attached(cmd) = 1 .. Len(Attached(cmd))
  BY AttachedIsSequence DEF FilesRead
<1>2. v - 1 = Len(Attached(cmd))
  BY <1>1 DEF CommandTypeOK
<1> QED
  BY <1>1, <1>2 DEF Selecting, ToValidate, Range

\* Every step keeps the invariant.
LEMMA CommandStepPreserves ==
  CommandInv /\ [CommandNext]_allVars => CommandInv'
<1> SUFFICES ASSUME CommandInv, [CommandNext]_allVars PROVE CommandInv'
  OBVIOUS
<1> USE DEF CommandInv
\* The conjuncts that say nothing of a phase behind the collection.
<1>0. ASSUME NEW p \in {"did", "passed", "failed"}, Goto(p)
      PROVE  NothingCollected' /\ Selecting' /\ Collecting' /\ ValidSoFar'
  BY <1>0, GotoKeeps
     DEF NothingCollected, Selecting, Collecting, ValidSoFar
<1>1. ASSUME Goto("failed") PROVE CommandInv'
  BY <1>0, <1>1, GotoKeeps DEF CommandTypeOK, FilesRead, Established
<1>2. CASE LoadTTL
  <2>1. Goto("read") /\ phase = "ttl" /\ TTLFileOK(cmd.ttl)
    BY <1>2 DEF LoadTTL
  <2> QED
    BY <2>1, GotoKeeps
       DEF CommandTypeOK, NothingCollected, FilesRead, Selecting, Collecting,
           ValidSoFar, Established
<1>3. CASE RejectTTL \/ RejectEnvelope \/ RejectNoneMatching \/ FetchFailed
           \/ RejectReceipt \/ RejectDid
  BY <1>1, <1>3 DEF RejectTTL, RejectEnvelope, RejectNoneMatching, FetchFailed,
     RejectReceipt, RejectDid
<1>4. CASE BeginMatching
  <2>1. /\ Goto("match") /\ phase = "read" /\ Unpacks(cmd)
        /\ cmd.require # Empty /\ Attached(cmd) # <<>>
    BY <1>4 DEF BeginMatching
  <2>2. Len(Attached(cmd)) \in Nat
    BY <2>1, AttachedIsSequence
  <2>3. Selecting'
    BY <2>1, GotoKeeps DEF Selecting, NothingCollected, Range
  <2> QED
    BY <2>1, <2>2, <2>3, GotoKeeps
       DEF CommandTypeOK, NothingCollected, FilesRead, Collecting, ValidSoFar,
           Established
<1> DEFINE Selected(m) == {Attached(cmd)[x] : x \in
                             {y \in 1 .. m : Attached(cmd)[y].issuer = cmd.require}}
<1>5. CASE SelectReceipt
  <2> DEFINE r == Attached(cmd)[v]
  <2>1. /\ phase = "match" /\ v <= Len(Attached(cmd)) /\ r.issuer = cmd.require
        /\ args' = [args EXCEPT !.receipts = Append(@, r)]
        /\ v' = v + 1
        /\ UNCHANGED <<cmd, phase, call, n, seen, keys, err, dialled, got, published>>
    BY <1>5 DEF SelectReceipt, AtAttached
  <2>2. Len(Attached(cmd)) \in Nat /\ v \in 1 .. Len(Attached(cmd))
    BY <2>1, AttachedIsSequence DEF FilesRead, CommandTypeOK
  <2>3. /\ n = 1 /\ seen = {} /\ keys = <<>> /\ err = NoErr /\ call = "idle"
        /\ dialled = <<>> /\ got = <<>>
        /\ \E rs : args = [receipts |-> rs, allowed |-> {}, preloaded |-> <<>>]
    BY <2>1 DEF NothingCollected, CommandTypeOK
  <2>4. PICK rs : args = [receipts |-> rs, allowed |-> {}, preloaded |-> <<>>]
    BY <2>3
  <2>5. args.receipts = rs
    BY <2>4
  <2> HIDE DEF r
  <2>6. args' = [receipts |-> Append(rs, r), allowed |-> {}, preloaded |-> <<>>]
    BY <2>1, <2>4 DEF r
  <2>7. /\ Range(Append(rs, r)) = Range(rs) \cup {r}
        /\ Append(rs, r) \in Seq(Range(Append(rs, r)))
    <3>1. rs \in Seq(Range(rs) \cup {r})
      <4>1. rs \in Seq(Range(rs))
        BY <2>5 DEF IInv, ReceiptsAreASlice
      <4> DEFINE S == Range(rs)
      <4> HIDE DEF S
      <4> QED
        BY <4>1 DEF S
    <3>2. /\ Len(rs) \in Nat /\ DOMAIN rs = 1 .. Len(rs)
          /\ Len(Append(rs, r)) = Len(rs) + 1
          /\ DOMAIN Append(rs, r) = 1 .. Len(rs) + 1
          /\ \A m \in 1 .. Len(rs) : Append(rs, r)[m] = rs[m]
          /\ Append(rs, r)[Len(rs) + 1] = r
          /\ Append(rs, r) \in Seq(Range(rs) \cup {r})
      BY <3>1
    <3>3. Range(Append(rs, r)) = Range(rs) \cup {r}
      BY <3>2 DEF Range
    <3> QED
      BY <3>2, <3>3
  <2>8. /\ args'.receipts = Append(rs, r)
         /\ args' = [receipts |-> args'.receipts, allowed |-> {}, preloaded |-> <<>>]
    BY <2>6
  <2>9. args'.receipts \in Seq(Range(args'.receipts))
    BY <2>7, <2>8
  <2>10. IInv'
    BY <2>1, <2>3, <2>9, BeforeTheLoop
  <2>11. Selecting'
    <3>1. 1 .. v' - 1 = (1 .. v - 1) \cup {v}
      BY <2>1, <2>2
    <3>2. Selected(v' - 1) = Selected(v - 1) \cup {r}
      BY <2>1, <2>2, <3>1 DEF r
    <3>3. /\ phase' = "match" /\ cmd' = cmd /\ cmd.require # Empty
          /\ Attached(cmd) # <<>>
          /\ Range(args.receipts) = Selected(v - 1)
      BY <2>1 DEF Selecting
    <3>4. Range(args'.receipts) = Selected(v' - 1)
      BY <2>7, <2>5, <2>8, <3>2, <3>3
    <3> QED
      BY <3>3, <3>4 DEF Selecting
  <2>12. CommandTypeOK'
    BY <2>1, <2>2 DEF CommandTypeOK
  <2>13. NothingCollected'
    BY <2>1, <2>3, <2>8 DEF NothingCollected
  <2> QED
    BY <2>1, <2>3, <2>10, <2>11, <2>12, <2>13
       DEF FilesRead, Collecting, LedgersPublish, ValidSoFar,
           Established, FetchesAreAskedFor
<1>6. CASE IgnoreReceipt
  <2>1. /\ phase = "match" /\ v <= Len(Attached(cmd))
        /\ Attached(cmd)[v].issuer # cmd.require
        /\ v' = v + 1
        /\ UNCHANGED <<cmd, phase, args, call, n, seen, keys, err, dialled, got,
                       published>>
    BY <1>6 DEF IgnoreReceipt, AtAttached, vars, callVars
  <2>2. Len(Attached(cmd)) \in Nat /\ v \in 1 .. Len(Attached(cmd))
    BY <2>1, AttachedIsSequence DEF FilesRead, CommandTypeOK
  <2>3. Selecting'
    <3>1. 1 .. v' - 1 = (1 .. v - 1) \cup {v}
      BY <2>1, <2>2
    <3>2. Selected(v' - 1) = Selected(v - 1)
      BY <2>1, <3>1
    <3> QED
      BY <2>1, <3>2 DEF Selecting
  <2>4. IInv'
    BY <1>6, StepPreserves DEF IgnoreReceipt
  <2>5. CommandTypeOK'
    BY <2>1, <2>2 DEF CommandTypeOK
  <2> QED
    BY <2>1, <2>3, <2>4, <2>5
       DEF NothingCollected, FilesRead, Collecting, LedgersPublish, ValidSoFar,
           Established, FetchesAreAskedFor
<1>7. CASE RequireReceipts
  <2>1. /\ phase = "match" /\ v > Len(Attached(cmd)) /\ args.receipts # <<>>
        /\ StartFetch(args.receipts, {cmd.require})
    BY <1>7 DEF RequireReceipts, AllMatched
  <2>2. Unpacks(cmd) /\ cmd.require # Empty
    BY <2>1 DEF FilesRead, Selecting
  <2>3. Range(args.receipts) = ToValidate(cmd)
    BY <2>1, AllMatchedAreToValidate
  <2> QED
    BY <2>1, <2>2, <2>3, StartFetchKeeps DEF IInv, ReceiptsAreASlice
<1>8. CASE ValidateReceipts
  <2>1. /\ phase = "read" /\ Unpacks(cmd) /\ Attached(cmd) # <<>>
        /\ cmd.require = Empty /\ cmd.validate
        /\ StartFetch(Attached(cmd), cmd.allowed)
    BY <1>8 DEF ValidateReceipts
  <2>2. Attached(cmd) \in Seq(Range(Attached(cmd)))
    BY <2>1, AttachedIsSequence
  <2>3. Range(Attached(cmd)) = ToValidate(cmd)
    BY <2>1 DEF ToValidate
  <2> QED
    BY <2>1, <2>2, <2>3, StartFetchKeeps
<1>9. CASE SkipReceipts
  <2>1. /\ Goto("did") /\ phase = "read" /\ Unpacks(cmd)
        /\ Attached(cmd) = <<>> \/ (cmd.require = Empty /\ ~cmd.validate)
    BY <1>9 DEF SkipReceipts
  <2>2. ToValidate(cmd) = {}
    BY <2>1 DEF ToValidate, Range
  <2>3. Established'
    BY <2>1, <2>2, GotoKeeps DEF Established, Proven
  <2> QED
    BY <1>0, <2>1, <2>3, GotoKeeps DEF CommandTypeOK, FilesRead
<1>10. CASE Fetch
  BY <1>10, FetchKeeps
<1>11. CASE FetchReturned
  <2>1. Goto("validate") /\ phase = "fetch" /\ call = "returned"
    BY <1>11 DEF FetchReturned
  <2>2. v = 1
    BY <2>1 DEF Collecting
  <2> QED
    BY <2>1, <2>2, GotoKeeps
       DEF CommandTypeOK, NothingCollected, FilesRead, Selecting, Collecting,
           ValidSoFar, Established
<1>12. CASE ValidateReceipt
  <2>1. /\ phase = "validate" /\ v <= Len(args.receipts) /\ v' = v + 1
        /\ ReceiptValid(args.receipts[v], keys)
        /\ UNCHANGED <<cmd, phase, args, call, n, seen, keys, err, dialled, got,
                       published>>
    BY <1>12 DEF ValidateReceipt, vars, callVars
  <2>2. /\ Len(args.receipts) \in Nat /\ v \in 1 .. Len(args.receipts)
        /\ 1 .. v' - 1 = (1 .. v - 1) \cup {v}
    BY <2>1 DEF IInv, ReceiptsAreASlice, CommandTypeOK
  <2>3. ValidSoFar'
    BY <2>1, <2>2 DEF ValidSoFar
  <2>4. IInv'
    BY <1>12, StepPreserves DEF ValidateReceipt
  <2>5. Collecting'
    BY <2>1 DEF Collecting, Issuer
  <2> QED
    BY <2>1, <2>2, <2>3, <2>4, <2>5
       DEF CommandTypeOK, NothingCollected, FilesRead, Selecting,
           LedgersPublish, Established, FetchesAreAskedFor
<1>13. CASE AllValidated
  <2>1. Goto("did") /\ phase = "validate" /\ v > Len(args.receipts)
    BY <1>13 DEF AllValidated
  <2>2. Proven(cmd)
    <3>1. \A m \in DOMAIN args.receipts : m \in 1 .. v - 1
      BY <2>1 DEF CommandTypeOK, IInv, ReceiptsAreASlice
    <3> QED
      BY <2>1, <3>1, AllValidMeansProven DEF ValidSoFar
  <2>3. ToValidate(cmd) # {}
    <3>1. args.receipts # <<>> /\ Range(args.receipts) = ToValidate(cmd)
      BY <2>1 DEF Collecting
    <3>2. /\ Len(args.receipts) \in Nat \ {0}
          /\ DOMAIN args.receipts = 1 .. Len(args.receipts)
      BY <3>1 DEF IInv, ReceiptsAreASlice
    <3>3. 1 \in DOMAIN args.receipts
      BY <3>2
    <3> QED
      BY <3>1, <3>3 DEF Range
  <2>4. Established'
    BY <2>1, <2>2, <2>3, GotoKeeps DEF Established
  <2> QED
    BY <1>0, <2>1, <2>4, GotoKeeps DEF CommandTypeOK, FilesRead
<1>14. CASE Pass
  <2>1. Goto("passed") /\ phase = "did" /\ DidResolves(cmd)
    BY <1>14 DEF Pass
  <2>2. Established'
    BY <2>1, GotoKeeps DEF Established
  <2> QED
    BY <1>0, <2>1, <2>2, GotoKeeps DEF CommandTypeOK, FilesRead
<1>15. CASE LedgersRotate
  <2>1. UNCHANGED <<cmd, phase, v, args, call, n, seen, keys, err, dialled, got>>
    BY <1>15 DEF LedgersRotate, commandVars, Rotate, callVars
  <2>2. IInv'
    BY <1>15, StepPreserves DEF LedgersRotate, Next
  <2>3. LedgersPublish'
    BY <1>15 DEF LedgersRotate, Rotate, LedgersPublish
  <2>4. Collecting'
    BY <2>1 DEF Collecting, Issuer
  <2> QED
    BY <2>1, <2>2, <2>3, <2>4
       DEF CommandTypeOK, NothingCollected, FilesRead, Selecting, ValidSoFar,
           Established, FetchesAreAskedFor
<1>16. CASE UNCHANGED allVars
  <2>1. UNCHANGED <<cmd, phase, v, args, call, n, seen, keys, err, dialled, got,
                   published, vars>>
    BY <1>16 DEF allVars, commandVars, vars, callVars
  <2>2. IInv'
    BY <2>1, StepPreserves
  <2>3. Collecting'
    BY <2>1 DEF Collecting, Issuer
  <2> QED
    BY <2>1, <2>2, <2>3
       DEF CommandTypeOK, NothingCollected, FilesRead, Selecting, ValidSoFar,
           LedgersPublish, Established, FetchesAreAskedFor
<1> QED
  BY <1>2, <1>3, <1>4, <1>5, <1>6, <1>7, <1>8, <1>9, <1>10, <1>11, <1>12,
     <1>13, <1>14, <1>15, <1>16
     DEF CommandNext, CommandStep, Exited

-----------------------------------------------------------------------------
\* The inductive invariant holds in every run of the command.
THEOREM CommandInvariant == CommandSpec => []CommandInv
<1>1. CommandInit => CommandInv
  BY CommandInitEstablishes
<1>2. CommandInv /\ [CommandNext]_allVars => CommandInv'
  BY CommandStepPreserves
<1> QED
  BY <1>1, <1>2, PTL DEF CommandSpec

\* The phases, the two loops and the key collection stay in step.
THEOREM CommandTypeCorrect == CommandSpec => []CommandTypeOK
<1>1. CommandInv => CommandTypeOK
  BY DEF CommandInv
<1> QED
  BY <1>1, CommandInvariant, PTL

\* -require-receipt-from passes only what the named ledger registered: one
\* receipt at least is to validate, and all that are to validate are proven.
THEOREM RequiredIsRegistered == CommandSpec => []RequiredMeansRegistered
<1>1. CommandInv => RequiredMeansRegistered
  BY DEF CommandInv, RequiredMeansRegistered, Established, Proven, ToValidate
<1> QED
  BY <1>1, CommandInvariant, PTL

\* print -validate-receipts passes only what every ledger registered.
THEOREM ValidatedIsRegistered == CommandSpec => []ValidatedMeansRegistered
<1>1. CommandInv => ValidatedMeansRegistered
  BY DEF CommandInv, ValidatedMeansRegistered, Established, Proven, ToValidate
<1> QED
  BY <1>1, CommandInvariant, PTL

\* Nothing is fetched unasked, from another host, or before the signature.
THEOREM FetchesOnlyWhatIsAskedFor == CommandSpec => []FetchesAreAskedFor
<1>1. CommandInv => FetchesAreAskedFor
  BY DEF CommandInv
<1> QED
  BY <1>1, CommandInvariant, PTL

\* A passing check names the signer.
THEOREM SignerIsNamed == CommandSpec => []PassedMeansSignerNamed
<1>1. CommandInv => PassedMeansSignerNamed
  <2> SUFFICES ASSUME CommandInv, phase = "passed", cmd.name = "check",
                      cmd.chain = NoFile
               PROVE  PassedMeansSignerNamed
    BY DEF PassedMeansSignerNamed
  <2> DEFINE did == IF cmd.did # Empty THEN cmd.did
                                       ELSE EnvelopeIssuer(cmd.envelope)
             own == X5Chain(cmd.envelope)
  <2>1. DidResolves(cmd) /\ Unpacks(cmd)
    BY DEF CommandInv, Established, FilesRead
  <2>2. did # Empty => <<own, did>> \in DidMatches
    BY <2>1 DEF DidResolves
  <2>3. cmd.envelope.signature.key = Head(own).key
    BY <2>1 DEF Unpacks, UnpackOK, Verify, Sign, LeafKey
  <2> QED
    BY <2>2, <2>3 DEF PassedMeansSignerNamed
<1> QED
  BY <1>1, CommandInvariant, PTL

\* Collecting the keys of several issuers rejects no receipt that is valid
\* under its own issuer's.
THEOREM OwnKeysSufficient == CommandSpec => OwnKeysSuffice
<1> DEFINE Own == RejectReceipt =>
                    LET r == args.receipts[v] IN ~ReceiptValid(r, got[r.issuer])
<1>1. CommandInv /\ [CommandNext]_allVars => [Own]_allVars
  <2> SUFFICES ASSUME CommandInv, RejectReceipt,
                      ReceiptValid(args.receipts[v], got[args.receipts[v].issuer])
               PROVE  FALSE
    OBVIOUS
  <2>1. /\ phase = "validate" /\ v <= Len(args.receipts)
        /\ ~ReceiptValid(args.receipts[v], keys)
    BY DEF RejectReceipt
  <2>2. v \in DOMAIN args.receipts
    BY <2>1 DEF CommandInv, CommandTypeOK, IInv, ReceiptsAreASlice
  <2> QED
    BY <2>1, <2>2, OwnKeysAreEnough
<1> QED
  BY <1>1, CommandInvariant, PTL DEF CommandSpec, OwnKeysSuffice

\* The command implements its policy, step by step.
THEOREM ImplementsThePolicy == CommandSpec => ImplementsPolicy
<1> DEFINE verdict == IF phase \in {"passed", "failed"} THEN phase ELSE "none"
<1>1. CommandInit => Policy!Init
  BY DEF CommandInit, Policy!Init
<1>2. CommandInv /\ [CommandNext]_allVars => [Policy!Next]_<<cmd, verdict>>
  <2> SUFFICES ASSUME CommandInv, [CommandNext]_allVars
               PROVE  [Policy!Next]_<<cmd, verdict>>
    OBVIOUS
  <2> USE DEF CommandInv
  <2>1. ASSUME Goto("failed"), phase \notin {"passed", "failed"},
               ~(Grounds(cmd) /\ Settled(cmd))
        PROVE  Policy!Fail
    BY <2>1 DEF Goto, Policy!Fail, Policy!Decide
  <2>2. CASE RejectTTL \/ RejectEnvelope \/ RejectDid
    <3>1. ~Grounds(cmd) /\ Goto("failed") /\ phase \notin {"passed", "failed"}
      BY <2>2 DEF RejectTTL, RejectEnvelope, RejectDid, Grounds
    <3> QED
      BY <2>1, <3>1 DEF Policy!Next
  <2>3. CASE RejectNoneMatching
    <3>1. /\ Goto("failed") /\ phase = "match" /\ v > Len(Attached(cmd))
          /\ args.receipts = <<>>
      BY <2>3 DEF RejectNoneMatching, AllMatched
    <3>2. ToValidate(cmd) = {}
      BY <3>1, AllMatchedAreToValidate DEF Range
    <3>3. ~Grounds(cmd)
      BY <3>1, <3>2 DEF Grounds, Selecting
    <3> QED
      BY <2>1, <3>1, <3>3 DEF Policy!Next
  <2>4. CASE FetchFailed
    BY <2>1, <2>4 DEF FetchFailed, Collecting, Policy!Next
  <2>5. CASE RejectReceipt
    <3>1. /\ Goto("failed") /\ phase = "validate"
          /\ v \in DOMAIN args.receipts /\ ~ReceiptValid(args.receipts[v], keys)
      BY <2>5 DEF RejectReceipt, CommandTypeOK, IInv, ReceiptsAreASlice
    <3> QED
      BY <2>1, <3>1, RejectedIsNotSettled DEF Policy!Next
  <2>6. CASE Pass
    <3>1. /\ Goto("passed") /\ phase = "did" /\ DidResolves(cmd)
      BY <2>6 DEF Pass
    <3>2. Grounds(cmd) /\ Proven(cmd)
      BY <3>1 DEF Grounds, FilesRead, Established
    <3> QED
      BY <3>1, <3>2 DEF Goto, Policy!Next, Policy!Pass, Policy!Decide
  <2>7. ASSUME cmd' = cmd, verdict' = verdict
        PROVE  [Policy!Next]_<<cmd, verdict>>
    BY <2>7
  <2>8. CASE LoadTTL \/ BeginMatching \/ SkipReceipts \/ FetchReturned
             \/ AllValidated
    BY <2>7, <2>8
       DEF LoadTTL, BeginMatching, SkipReceipts, FetchReturned, AllValidated, Goto
  <2>9. CASE SelectReceipt \/ IgnoreReceipt \/ RequireReceipts
             \/ ValidateReceipts \/ Fetch \/ ValidateReceipt
    BY <2>7, <2>9
       DEF SelectReceipt, IgnoreReceipt, RequireReceipts, ValidateReceipts,
           Fetch, ValidateReceipt, AtAttached, AllMatched, StartFetch, commandVars
  <2>10. CASE LedgersRotate \/ Exited \/ UNCHANGED allVars
    BY <2>7, <2>10 DEF LedgersRotate, Exited, allVars, commandVars
  <2> QED
    BY <2>2, <2>3, <2>4, <2>5, <2>6, <2>8, <2>9, <2>10 DEF CommandNext, CommandStep
<1> QED
  BY <1>1, <1>2, CommandInvariant, PTL
     DEF CommandSpec, ImplementsPolicy, Policy!Spec
=============================================================================
