------------------------- MODULE ReceiptKeysProofs -------------------------
(***************************************************************************)
(* fetchCCFReceiptKeys, for every set of calls, ledgers and key sets and   *)
(* every number of rotations: the map it returns is the disjoint union of  *)
(* one key set per receipt issuer, no kid is bound anew on the way, and    *)
(* only what is due is dialled.                                            *)
(***************************************************************************)
EXTENDS ReceiptKeys, TLAPS

\* Merging or refusing the keys of an issuer that was not answered before
\* keeps the map a disjoint union, and is refused for another issuer's key.
LEMMA TakeCollects ==
  ASSUME NEW issuerKeys, KeysAreCollected, ConflictsAreBetweenIssuers,
         call # "failed", err = NoErr, Issuer \notin DOMAIN got,
         Take(issuerKeys)
  PROVE  KeysAreCollected' /\ ConflictsAreBetweenIssuers'
<1>1. /\ DOMAIN got' = DOMAIN got \cup {Issuer}
      /\ got'[Issuer] = issuerKeys
      /\ \A x \in DOMAIN got : got'[x] = got[x]
  BY DEF Take, Assign
<1>2. CASE Merge(issuerKeys)
  <2>1. DOMAIN issuerKeys \cap DOMAIN keys = {}
    BY <1>2 DEF Merge
  <2>2. /\ DOMAIN keys' = DOMAIN keys \cup DOMAIN issuerKeys
        /\ \A k \in DOMAIN keys : keys'[k] = keys[k]
        /\ \A k \in DOMAIN issuerKeys : keys'[k] = issuerKeys[k]
    BY <1>2, <2>1 DEF Merge, AssignAll
  <2>3. \A x \in DOMAIN got' : \A kid \in DOMAIN got'[x] :
          kid \in DOMAIN keys' /\ keys'[kid] = got'[x][kid]
    BY <1>1, <2>2 DEF KeysAreCollected
  <2>4. \A kid \in DOMAIN keys' : \E x \in DOMAIN got' : kid \in DOMAIN got'[x]
    BY <1>1, <2>2 DEF KeysAreCollected
  <2>5. \A a, b \in DOMAIN got' :
          a # b => DOMAIN got'[a] \cap DOMAIN got'[b] = {}
    BY <1>1, <2>1 DEF KeysAreCollected
  <2>6. err' = NoErr
    BY <1>2 DEF Merge
  <2> QED
    BY <2>3, <2>4, <2>5, <2>6
       DEF KeysAreCollected, ConflictsAreBetweenIssuers, NoErr
<1>3. CASE Conflict(issuerKeys)
  <2>1. PICK kid \in DOMAIN issuerKeys : kid \in DOMAIN keys
    BY <1>3 DEF Conflict
  <2>2. PICK other \in DOMAIN got : kid \in DOMAIN got[other]
    BY <2>1 DEF KeysAreCollected
  <2>3. /\ Issuer # other
        /\ kid \in DOMAIN got'[Issuer] \cap DOMAIN got'[other]
    BY <1>1, <2>1, <2>2
  <2> QED
    BY <1>1, <1>3, <2>3
       DEF Conflict, Fail, KeysAreCollected, ConflictsAreBetweenIssuers
<1> QED
  BY <1>2, <1>3 DEF Take

\* The invariant holds when the call begins.
LEMMA InitEstablishes ==
  Init => IInv
<1> SUFFICES ASSUME Init PROVE IInv
  OBVIOUS
<1>1. Len(args.receipts) \in Nat
  BY CallsAssumption DEF Init
<1>3. ReceiptsAreASlice
  BY CallsAssumption DEF Init, ReceiptsAreASlice
<1>2. Before = {}
  BY DEF Init, Idle, Before
<1> QED
  BY <1>1, <1>2, <1>3
     DEF Init, Idle, IInv, TypeOK, NoErr, Errors, MetIssuers,
         KeysAreCollected, DialledIssuers, DialsAreDue,
         ConflictsAreBetweenIssuers, Range

\* Every step keeps it.
LEMMA StepPreserves ==
  IInv /\ [Next]_vars => IInv'
<1> SUFFICES ASSUME IInv, [Next]_vars PROVE IInv'
  OBVIOUS
<1> USE DEF IInv, ReceiptsAreASlice
<1>0. /\ args.receipts \in Seq(Range(args.receipts))
      /\ Len(args.receipts) \in Nat
      /\ n \in Nat \ {0}
  BY DEF ReceiptsAreASlice, TypeOK
<1>1. AtReceipt => /\ n \in 1 .. Len(args.receipts)
                   /\ n + 1 \in 1 .. Len(args.receipts) + 1
                   /\ 1 .. n + 1 - 1 = (1 .. n - 1) \cup {n}
                   /\ Issuer \in IssuersOf(args.receipts)
  BY <1>0 DEF AtReceipt, Issuer, IssuersOf
\* Going on to the next receipt adds the issuer to those behind the loop.
<1>2. ASSUME args' = args, n' = n + 1, n \in 1 .. Len(args.receipts)
      PROVE  /\ Before' = Before \cup {Issuer}
             /\ n' \in 1 .. Len(args.receipts) + 1
  <2>1. 1 .. n' - 1 = (1 .. n - 1) \cup {n}
    BY <1>0, <1>2
  <2> QED
    BY <1>0, <1>2, <2>1 DEF Before, Issuer
<1>3. CASE RejectNoIssuer
  BY <1>3 DEF RejectNoIssuer, AtReceipt, Fail, TypeOK, NoErr, Errors, MetIssuers,
     KeysAreCollected, DialledIssuers, DialsAreDue, ConflictsAreBetweenIssuers
<1>4. CASE SkipSeen
  <2>1. MetIssuers'
    BY <1>1, <1>2, <1>4 DEF SkipSeen, AtReceipt, MetIssuers
  <2> QED
    BY <1>1, <1>2, <1>4, <2>1
       DEF SkipSeen, AtReceipt, TypeOK, NoErr, Errors, KeysAreCollected,
           DialledIssuers, DialsAreDue, ConflictsAreBetweenIssuers
<1>5. CASE UsePreloaded
  <2>1. /\ Issuer \notin DOMAIN got
        /\ err = NoErr
        /\ call = "loop"
        /\ n \in 1 .. Len(args.receipts)
        /\ Issuer \in IssuersOf(args.receipts)
    BY <1>1, <1>5 DEF UsePreloaded, AtNewIssuer, AtReceipt, MetIssuers, TypeOK
  <2>2. KeysAreCollected' /\ ConflictsAreBetweenIssuers'
    BY <1>5, <2>1, TakeCollects DEF UsePreloaded
  <2>3. DOMAIN got' = DOMAIN got \cup {Issuer}
    BY <1>5 DEF UsePreloaded, Take, Assign
  <2>4. \/ call' = "loop" /\ n' = n + 1 /\ err' = err
        \/ call' = "failed" /\ n' = n /\ err' = "conflict"
    BY <1>5 DEF UsePreloaded, Take, Merge, Conflict, Fail
  <2>5. MetIssuers'
    BY <1>2, <1>5, <2>1, <2>3, <2>4 DEF UsePreloaded, MetIssuers
  <2>6. TypeOK'
    BY <1>2, <1>5, <2>1, <2>3, <2>4 DEF UsePreloaded, TypeOK, NoErr, Errors
  <2> QED
    BY <1>5, <2>2, <2>5, <2>6 DEF UsePreloaded, DialledIssuers, DialsAreDue
<1>6. CASE RejectIssuer
  BY <1>1, <1>6
     DEF RejectIssuer, AtNewIssuer, AtReceipt, Fail, TypeOK, NoErr, Errors,
         MetIssuers, KeysAreCollected, DialledIssuers, DialsAreDue,
         ConflictsAreBetweenIssuers
<1>7. CASE Dial
  <2>1. /\ n \in 1 .. Len(args.receipts)
        /\ Issuer \in IssuersOf(args.receipts)
        /\ Issuer \notin Range(dialled)
        /\ call = "loop"
        /\ err = NoErr
    BY <1>1, <1>7 DEF Dial, AtNewIssuer, AtReceipt, TypeOK
  <2>2. /\ dialled' \in Seq(IssuersOf(args.receipts))
        /\ Len(dialled') = Len(dialled) + 1
        /\ Len(dialled) \in Nat
        /\ dialled'[Len(dialled) + 1] = Issuer
        /\ \A m \in 1 .. Len(dialled) : dialled'[m] = dialled[m]
        /\ DOMAIN dialled = 1 .. Len(dialled)
        /\ DOMAIN dialled' = 1 .. Len(dialled) + 1
    BY <1>7, <2>1 DEF Dial, DialledIssuers
  <2>3. Range(dialled') \subseteq Range(dialled) \cup {Issuer}
    BY <2>2 DEF Range
  <2>4. TypeOK'
    BY <1>7, <2>1, <2>3 DEF Dial, TypeOK, NoErr, Errors
  <2>5. MetIssuers'
    BY <1>7, <2>1
       DEF Dial, AtNewIssuer, AtReceipt, MetIssuers, Before, Issuer
  <2>6. DialsAreDue'
    <3>1. \A m \in 1 .. Len(dialled) : dialled[m] # Issuer
      BY <2>1, <2>2 DEF Range
    <3> QED
      BY <1>7, <2>1, <2>2, <3>1 DEF Dial, DialsAreDue
  <2> QED
    BY <1>7, <2>1, <2>2, <2>4, <2>5, <2>6
       DEF Dial, KeysAreCollected, DialledIssuers, ConflictsAreBetweenIssuers
<1>8. CASE Answer
  <2>1. /\ Issuer \notin DOMAIN got
        /\ err = NoErr
        /\ n \in 1 .. Len(args.receipts)
        /\ Issuer \in seen
    BY <1>0, <1>8 DEF Answer, MetIssuers, TypeOK
  <2>2. KeysAreCollected' /\ ConflictsAreBetweenIssuers'
    BY <1>8, <2>1, TakeCollects DEF Answer
  <2>3. DOMAIN got' = DOMAIN got \cup {Issuer}
    BY <1>8 DEF Answer, Take, Assign
  <2>4. \/ call' = "loop" /\ n' = n + 1 /\ err' = err
        \/ call' = "failed" /\ n' = n /\ err' = "conflict"
    BY <1>8 DEF Answer, Take, Merge, Conflict, Fail
  <2>5. MetIssuers'
    BY <1>2, <1>8, <2>1, <2>3, <2>4 DEF Answer, MetIssuers
  <2>6. TypeOK'
    BY <1>2, <1>8, <2>1, <2>3, <2>4 DEF Answer, TypeOK, NoErr, Errors
  <2> QED
    BY <1>8, <2>2, <2>5, <2>6 DEF Answer, DialledIssuers, DialsAreDue
<1>9. CASE RejectAnswer \/ GetFails
  BY <1>9
     DEF RejectAnswer, GetFails, Fail, TypeOK, NoErr, Errors, MetIssuers,
         KeysAreCollected, DialledIssuers, DialsAreDue,
         ConflictsAreBetweenIssuers
<1>10. CASE Return
  <2>1. n = Len(args.receipts) + 1
    BY <1>0, <1>10 DEF Return, TypeOK
  <2> QED
    BY <1>10, <2>1
       DEF Return, TypeOK, NoErr, Errors, MetIssuers, Before, KeysAreCollected,
           DialledIssuers, DialsAreDue, ConflictsAreBetweenIssuers
<1>11. CASE Rotate \/ UNCHANGED vars
  <2>1. UNCHANGED <<args, call, n, seen, keys, err, dialled, got>>
    BY <1>11 DEF Rotate, vars, callVars
  <2>2. TypeOK' /\ MetIssuers'
    BY <2>1 DEF TypeOK, MetIssuers, Before, Issuer
  <2>3. KeysAreCollected' /\ ConflictsAreBetweenIssuers'
    BY <2>1 DEF KeysAreCollected, ConflictsAreBetweenIssuers
  <2> QED
    BY <2>1, <2>2, <2>3 DEF DialledIssuers, DialsAreDue
<1> QED
  BY <1>3, <1>4, <1>5, <1>6, <1>7, <1>8, <1>9, <1>10, <1>11
     DEF Next, FetchStep, Ended

\* Indices, errors and the sets of issuers keep belonging together.
THEOREM TypeCorrect ==
  Spec => []TypeOK
<1>1. IInv => TypeOK
  BY DEF IInv
<1> QED
  BY <1>1, InitEstablishes, StepPreserves, PTL DEF Spec

\* fetchCCFReceiptKeys returns the disjoint union of one key set per issuer of
\* the receipts, whatever the ledgers publish meanwhile.
THEOREM ReturnsTheIssuersKeys ==
  Spec => []ReturnedKeysAreTheIssuers
<1>1. IInv => ReturnedKeysAreTheIssuers
  <2> SUFFICES ASSUME IInv, call = "returned"
               PROVE  ReturnedKeysAreTheIssuers
    BY DEF ReturnedKeysAreTheIssuers
  <2>1. Len(args.receipts) \in Nat
        /\ DOMAIN args.receipts = 1 .. Len(args.receipts)
    BY DEF IInv, ReceiptsAreASlice
  <2>2. IssuersOf(args.receipts) = DOMAIN got
    BY <2>1 DEF IInv, MetIssuers, Before, IssuersOf
  <2> QED
    BY <2>2 DEF IInv, KeysAreCollected, ReturnedKeysAreTheIssuers
<1> QED
  BY <1>1, InitEstablishes, StepPreserves, PTL DEF Spec

\* fetchCCFReceiptKeys asks allowed issuers of receipts only, none of them
\* twice and none whose keys were preloaded.
THEOREM DialsOnlyWhatIsDue ==
  Spec => []DialsAreDue
<1>1. IInv => DialsAreDue
  BY DEF IInv
<1> QED
  BY <1>1, InitEstablishes, StepPreserves, PTL DEF Spec

\* A kid collision that fails the call is one between two issuers.
THEOREM ConflictsNameTwoIssuers ==
  Spec => []ConflictsAreBetweenIssuers
<1>1. IInv => ConflictsAreBetweenIssuers
  BY DEF IInv
<1> QED
  BY <1>1, InitEstablishes, StepPreserves, PTL DEF Spec

\* No step of the call or of a ledger binds a kid anew.
THEOREM BindingsAreFinal ==
  Spec => KeysNeverRebound
<1> DEFINE Kept == \A kid \in DOMAIN keys :
                     kid \in DOMAIN keys' /\ keys'[kid] = keys[kid]
<1>1. ASSUME NEW issuerKeys, Take(issuerKeys) PROVE Kept
  BY <1>1 DEF Take, Merge, Conflict, AssignAll
<1>2. Next => Kept
  BY <1>1
     DEF Next, FetchStep, RejectNoIssuer, SkipSeen, UsePreloaded, RejectIssuer,
         Dial, Answer, RejectAnswer, GetFails, Return, Rotate, Ended, vars,
         callVars
<1>3. [Next]_vars => [Kept]_vars
  BY <1>2
<1> QED
  BY <1>3, PTL DEF Spec, KeysNeverRebound
=============================================================================
