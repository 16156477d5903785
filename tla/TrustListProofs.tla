-------------------------- MODULE TrustListProofs --------------------------
(***************************************************************************)
(* For every payload, whatever the order of the issuers: each issuer gets  *)
(* the keys of the first valid element per kid, and never an empty map.    *)
(***************************************************************************)
EXTENDS TrustList, TLAPS

\* A valid element adds its key when its kid is new, and changes nothing when
\* the same key is there already (keyset.go:48-56).
LEMMA AddKeyHoldsFirst ==
  ASSUME NEW map, NEW set, NEW p \in Nat \ {0},
         HoldsFirst(map, set, p), Valid(set[p]),
         set[p].kid \notin DOMAIN map \/ map[set[p].kid] = set[p].key
  PROVE  HoldsFirst(Assign(map, set[p].kid, set[p].key), set, p + 1)
<1> DEFINE new == Assign(map, set[p].kid, set[p].key)
<1>1. /\ DOMAIN new = DOMAIN map \cup {set[p].kid}
      /\ \A kid \in DOMAIN map : kid # set[p].kid => new[kid] = map[kid]
      /\ new[set[p].kid] = set[p].key
  BY DEF Assign
<1>2. 1 .. p + 1 - 1 = (1 .. p - 1) \cup {p}
  OBVIOUS
<1>3. set[p].kid \notin DOMAIN map => IsFirst(set, p)
  BY DEF HoldsFirst, IsFirst
<1>4. \A kid \in DOMAIN new :
        \E m \in 1 .. p + 1 - 1 : IsFirst(set, m) /\ kid = set[m].kid
  BY <1>1, <1>2, <1>3 DEF HoldsFirst
<1>5. \A m \in 1 .. p + 1 - 1 : Valid(set[m]) => set[m].kid \in DOMAIN new
  BY <1>1, <1>2 DEF HoldsFirst
<1>6. ASSUME NEW m \in 1 .. p + 1 - 1, IsFirst(set, m)
      PROVE  new[set[m].kid] = set[m].key
  <2>1. CASE m = p
    BY <1>1, <2>1
  <2>2. CASE m \in 1 .. p - 1
    <3>1. set[m].kid \in DOMAIN map /\ map[set[m].kid] = set[m].key
      BY <1>6, <2>2 DEF HoldsFirst, IsFirst
    <3> QED
      BY <1>1, <3>1
  <2> QED
    BY <1>2, <2>1, <2>2
<1> QED
  BY <1>4, <1>5, <1>6 DEF HoldsFirst

\* An element that is not valid, or whose kid has another key already, leaves
\* the map what the elements before it made it.
LEMMA IgnoredHoldsFirst ==
  ASSUME NEW map, NEW set, NEW p \in Nat \ {0},
         HoldsFirst(map, set, p),
         Valid(set[p]) => set[p].kid \in DOMAIN map
  PROVE  HoldsFirst(map, set, p + 1)
<1>1. 1 .. p + 1 - 1 = (1 .. p - 1) \cup {p}
  OBVIOUS
<1>2. ~IsFirst(set, p)
  <2> SUFFICES ASSUME IsFirst(set, p) PROVE FALSE
    OBVIOUS
  <2>1. PICK m \in 1 .. p - 1 : IsFirst(set, m) /\ set[p].kid = set[m].kid
    BY DEF HoldsFirst, IsFirst
  <2> QED
    BY <2>1 DEF IsFirst
<1> QED
  BY <1>1, <1>2 DEF HoldsFirst

\* The invariant holds when the call begins.
LEMMA InitEstablishes ==
  Init => IInv
<1>1. DOMAIN <<>> = {} /\ <<>> = [x \in DOMAIN <<>> |-> <<>>[x]]
  OBVIOUS
<1> QED
  BY <1>1 DEF Init, IInv, AreMaps, TypeOK, PCs, Stored, KeysAreFirstValid,
         ErrorKept, NoEmptyKeyMap

\* The key set at hand is a sequence with an element in it.
LEMMA KeySetIsSequence ==
  ASSUME TypeOK, Stored, pc = "elements"
  PROVE  Len(KeySet(issuer)) \in Nat \ {0}
<1>1. EntryOK(ttl[issuer]) /\ ttl \in Payloads \ {Malformed}
      /\ issuer \in DOMAIN ttl
  BY DEF TypeOK, Stored, PayloadOK
<1>2. KeySet(issuer) \in Seq(Range(KeySet(issuer)))
  BY <1>1, PayloadsAssumption DEF KeySet
<1>3. KeySet(issuer) # <<>>
  BY <1>1 DEF EntryOK, KeySet
<1> QED
  BY <1>2, <1>3

\* Maps are made empty and change by assignments only.
LEMMA StepKeepsMaps ==
  ASSUME AreMaps, [Next]_vars
  PROVE  AreMaps'
<1>1. <<>> = [x \in DOMAIN <<>> |-> <<>>[x]]
  OBVIOUS
<1>2. CASE UNCHANGED <<keys, out>>
  BY <1>2 DEF AreMaps
<1>3. CASE \E x \in todo : DecodeEntry(x)
  BY <1>1, <1>3 DEF AreMaps, DecodeEntry
<1>4. CASE AddKey
  BY <1>4 DEF AreMaps, AddKey, Assign
<1>5. CASE StoreKeys
  <2>1. out' = Assign(out, issuer, keys) /\ keys' = keys
    BY <1>5 DEF StoreKeys
  <2>2. out' = [x \in DOMAIN out \cup {issuer} |->
                  IF x = issuer THEN keys ELSE out[x]]
    BY <2>1 DEF Assign
  <2> QED
    BY <2>1, <2>2 DEF AreMaps
<1> QED
  BY <1>2, <1>3, <1>4, <1>5
     DEF Next, vars, Fail, RejectPayload, DecodePayload, RejectEntry,
         IgnoreElement, IgnoreConflict, RejectKeySet, Return, Done

\* Every step keeps it.
LEMMA StepPreserves ==
  IInv /\ [Next]_vars => IInv'
<1> SUFFICES ASSUME IInv, [Next]_vars
             PROVE  IInv'
  OBVIOUS
<1>0. AreMaps'
  BY StepKeepsMaps DEF IInv
<1> USE <1>0 DEF IInv
<1>1. CASE Fail
  BY <1>1 DEF Fail, TypeOK, PCs, Stored, KeysAreFirstValid, ErrorKept,
     NoEmptyKeyMap
<1>2. CASE DecodePayload
  BY <1>2 DEF DecodePayload, TypeOK, PCs, Stored, PayloadOK, KeysAreFirstValid,
     ErrorKept, NoEmptyKeyMap
<1>3. ASSUME NEW x \in todo, DecodeEntry(x)
      PROVE  IInv'
  <2> USE <1>3 DEF DecodeEntry
  <2>1. TypeOK'
    <3>1. /\ x \in DOMAIN ttl \ (todo' \cup DOMAIN out)
          /\ DOMAIN ttl = {x} \cup todo' \cup DOMAIN out
      BY DEF TypeOK
    <3>2. KeySet(x) \in Seq(Range(KeySet(x)))
      BY <3>1, PayloadsAssumption DEF KeySet, Stored, PayloadOK
    <3>3. 1 <= Len(KeySet(x)) + 1
      BY <3>2
    <3> QED
      BY <3>1, <3>3 DEF TypeOK, PCs, KeySet
  <2>2. Stored' /\ ErrorKept' /\ NoEmptyKeyMap'
    BY DEF Stored, ErrorKept, NoEmptyKeyMap, PayloadOK
  <2>3. HoldsFirst(keys', KeySet(issuer)', pos')
    BY DEF HoldsFirst
  <2>4. KeysAreFirstValid'
    BY <2>3 DEF KeysAreFirstValid, KeySet
  <2> QED
    BY <2>1, <2>2, <2>4
<1>4. CASE IgnoreElement \/ IgnoreConflict
  <2> USE <1>4 DEF IgnoreElement, IgnoreConflict, AtElement
  <2>1. Len(KeySet(issuer)) \in Nat \ {0} /\ pos \in Nat \ {0}
    BY KeySetIsSequence DEF TypeOK
  <2>2. TypeOK'
    <3>1. pos' = pos + 1 /\ pos <= Len(KeySet(issuer)) /\ pc = "elements"
          /\ lastKeyError' \in {"nil", "element"}
          /\ UNCHANGED <<ttl, pc, todo, issuer, out>>
      BY DEF TypeOK
    <3> QED
      BY <2>1, <3>1 DEF TypeOK, PCs, KeySet
  <2>3. Stored' /\ NoEmptyKeyMap'
    BY DEF Stored, NoEmptyKeyMap, PayloadOK
  <2>4. ErrorKept'
    BY DEF ErrorKept, Conflicting
  <2>5. HoldsFirst(keys, KeySet(issuer), pos + 1)
    BY <2>1, IgnoredHoldsFirst DEF KeysAreFirstValid, Element, Conflicting
  <2>6. KeysAreFirstValid'
    BY <2>5 DEF KeysAreFirstValid, KeySet
  <2> QED
    BY <2>2, <2>3, <2>4, <2>6
<1>5. CASE AddKey
  <2> USE <1>5 DEF AddKey, AtElement
  <2>1. Len(KeySet(issuer)) \in Nat \ {0} /\ pos \in Nat \ {0}
    BY KeySetIsSequence DEF TypeOK
  <2>2. TypeOK'
    BY <2>1 DEF TypeOK, PCs, KeySet
  <2>3. Stored' /\ NoEmptyKeyMap'
    BY DEF Stored, NoEmptyKeyMap, PayloadOK
  <2>4. ErrorKept'
    BY DEF ErrorKept, Assign
  <2>5. HoldsFirst(keys', KeySet(issuer), pos + 1)
    BY <2>1, AddKeyHoldsFirst DEF KeysAreFirstValid, Element, Conflicting
  <2>6. KeysAreFirstValid'
    BY <2>5 DEF KeysAreFirstValid, KeySet
  <2> QED
    BY <2>2, <2>3, <2>4, <2>6
<1>6. CASE StoreKeys
  <2> USE <1>6 DEF StoreKeys, EndOfKeySet
  <2>1. Len(KeySet(issuer)) \in Nat \ {0} /\ pos = Len(KeySet(issuer)) + 1
    BY KeySetIsSequence DEF TypeOK
  <2>2. DOMAIN keys # {}
    BY <2>1 DEF ErrorKept
  <2>3. /\ DOMAIN out' = {issuer} \cup DOMAIN out
        /\ out'[issuer] = keys
        /\ \A x \in DOMAIN out \ {issuer} : out'[x] = out[x]
    BY DEF Assign
  <2>4. TypeOK'
    BY <2>3 DEF TypeOK, PCs
  <2>5. Stored' /\ ErrorKept'
    BY <2>3 DEF Stored, ErrorKept, TypeOK, PayloadOK
  <2>6. NoEmptyKeyMap'
    BY <2>2, <2>3 DEF NoEmptyKeyMap
  <2>7. HoldsFirst(keys, KeySet(issuer), Len(KeySet(issuer)) + 1)
    BY <2>1 DEF KeysAreFirstValid
  <2>8. KeysAreFirstValid'
    BY <2>3, <2>7 DEF KeysAreFirstValid, KeySet
  <2> QED
    BY <2>4, <2>5, <2>6, <2>8
<1>7. CASE Return
  BY <1>7 DEF Return, TypeOK, PCs, Stored, KeysAreFirstValid, ErrorKept,
     NoEmptyKeyMap, KeySet, PayloadOK
<1>8. CASE UNCHANGED vars
  <2> USE <1>8 DEF vars
  <2>1. TypeOK'
    BY DEF TypeOK, PCs, KeySet
  <2>2. Stored' /\ ErrorKept' /\ NoEmptyKeyMap'
    BY DEF Stored, ErrorKept, NoEmptyKeyMap, PayloadOK
  <2>3. KeysAreFirstValid'
    BY DEF KeysAreFirstValid, KeySet
  <2> QED
    BY <2>1, <2>2, <2>3
<1> QED
  BY <1>1, <1>2, <1>3, <1>4, <1>5, <1>6, <1>7, <1>8
     DEF Next, RejectPayload, RejectEntry, RejectKeySet, Done

\* The loops stay within the payload.
THEOREM TypeCorrect ==
  Spec => []TypeOK
<1>1. IInv => TypeOK
  BY DEF IInv
<1> QED
  BY <1>1, InitEstablishes, StepPreserves, PTL DEF Spec

\* Every issuer's map has, for each kid, the key of its first valid element,
\* and no other keys: elements are processed independently.
THEOREM FirstValidWins ==
  Spec => []KeysAreFirstValid
<1>1. IInv => KeysAreFirstValid
  BY DEF IInv
<1> QED
  BY <1>1, InitEstablishes, StepPreserves, PTL DEF Spec

\* ParseKeySetAsMap never returns a nil map with a nil error: no issuer is
\* stored without a key.
THEOREM NeverNilNil ==
  Spec => []NoEmptyKeyMap
<1>1. IInv => NoEmptyKeyMap
  BY DEF IInv
<1> QED
  BY <1>1, InitEstablishes, StepPreserves, PTL DEF Spec

\* A call that returns has a usable key for every issuer of the payload.
LEMMA ReturnedIsOK ==
  ASSUME IInv
  PROVE  ReturnedMeansOK
<1> SUFFICES ASSUME pc = "returned"
             PROVE  TTLOK(ttl) /\ DOMAIN out = DOMAIN ttl
  BY DEF ReturnedMeansOK
<1> USE DEF IInv
<1>1. ttl # Malformed /\ DOMAIN ttl # {} /\ DOMAIN out = DOMAIN ttl
  BY DEF TypeOK, Stored, PayloadOK
<1>2. ASSUME NEW x \in DOMAIN ttl
      PROVE  EntryOK(ttl[x]) /\ HasValid(KeySet(x))
  <2>1. EntryOK(ttl[x])
    BY <1>1 DEF Stored
  <2>2. KeySet(x) \in Seq(Range(KeySet(x)))
    BY <1>1, <2>1, PayloadsAssumption DEF KeySet, Stored, PayloadOK
  <2>3. PICK kid \in DOMAIN out[x] : TRUE
    BY <1>1 DEF NoEmptyKeyMap
  <2>4. PICK m \in 1 .. Len(KeySet(x)) + 1 - 1 : IsFirst(KeySet(x), m)
    BY <1>1, <2>3 DEF KeysAreFirstValid, HoldsFirst
  <2>5. m \in DOMAIN KeySet(x)
    BY <2>2, <2>4
  <2> QED
    BY <2>1, <2>4, <2>5 DEF HasValid, IsFirst
<1> QED
  BY <1>1, <1>2 DEF TTLOK, PayloadOK, KeySet

\* A call fails at a payload, an entry or a key set that is not usable.
LEMMA StepFailsForCause ==
  IInv /\ FailedMeansNotOK /\ [Next]_vars => FailedMeansNotOK'
<1> SUFFICES ASSUME IInv, FailedMeansNotOK, [Next]_vars, pc' = "failed"
             PROVE  ~TTLOK(ttl)'
  BY DEF FailedMeansNotOK
<1> USE DEF IInv
<1>1. CASE RejectPayload
  BY <1>1 DEF RejectPayload, Fail, TTLOK, PayloadOK
<1>2. CASE \E x \in todo : RejectEntry(x)
  BY <1>2 DEF RejectEntry, Fail, TTLOK, TypeOK, PayloadOK
<1>3. CASE RejectKeySet
  <2> USE <1>3 DEF RejectKeySet, EndOfKeySet, Fail
  <2>1. ttl' = ttl /\ issuer \in DOMAIN ttl /\ EntryOK(ttl[issuer])
    BY DEF TypeOK
  <2>2. /\ KeySet(issuer) \in Seq(Range(KeySet(issuer)))
        /\ pos \in Nat /\ pos > Len(KeySet(issuer))
    BY <2>1, PayloadsAssumption DEF KeySet, Stored, PayloadOK, TypeOK
  <2>3. DOMAIN KeySet(issuer) \subseteq 1 .. pos - 1
    BY <2>2
  <2>4. ~HasValid(KeySet(issuer))
    BY <2>3 DEF KeysAreFirstValid, HoldsFirst, HasValid
  <2> QED
    BY <2>1, <2>4 DEF TTLOK, KeySet, PayloadOK
<1>4. CASE UNCHANGED vars
  <2>1. ttl' = ttl /\ pc = "failed"
    BY <1>4 DEF vars
  <2>2. TTLOK(ttl)' <=> TTLOK(ttl)
    BY <2>1 DEF TTLOK, KeySet, PayloadOK
  <2> QED
    BY <2>1, <2>2 DEF FailedMeansNotOK
<1> QED
  BY <1>1, <1>2, <1>3, <1>4
     DEF Next, DecodePayload, DecodeEntry, IgnoreElement, AddKey,
         IgnoreConflict, AtElement, StoreKeys, Return, Done

\* The verdict is a function of the payload: every issuer is usable, or the
\* call fails, in whichever order the issuers come.
THEOREM VerdictIsOrderFree ==
  Spec => []VerdictIgnoresOrder
<1>1. Init => FailedMeansNotOK
  BY DEF Init, FailedMeansNotOK
<1>2. IInv /\ FailedMeansNotOK => VerdictIgnoresOrder
  BY ReturnedIsOK DEF VerdictIgnoresOrder
<1> QED
  BY <1>1, <1>2, InitEstablishes, StepPreserves, StepFailsForCause, PTL DEF Spec

\* The map of a key set is the one HoldsFirst describes.
LEMMA HoldsFirstIsKeySetMap ==
  ASSUME NEW map, NEW set, set \in Seq(Range(set)),
         map = [kid \in DOMAIN map |-> map[kid]],
         HoldsFirst(map, set, Len(set) + 1)
  PROVE  map = KeySetMap(set)
<1>1. DOMAIN set = 1 .. Len(set) + 1 - 1
  OBVIOUS
<1>2. DOMAIN map = {set[m].kid : m \in Firsts(set)}
  <2>1. ASSUME NEW kid \in DOMAIN map
        PROVE  \E m \in Firsts(set) : kid = set[m].kid
    BY <1>1 DEF HoldsFirst, Firsts
  <2>2. ASSUME NEW m \in Firsts(set)
        PROVE  set[m].kid \in DOMAIN map
    BY <1>1 DEF HoldsFirst, Firsts, IsFirst
  <2> QED
    BY <2>1, <2>2
<1>3. ASSUME NEW kid \in DOMAIN map
      PROVE  map[kid] = set[CHOOSE m \in Firsts(set) : set[m].kid = kid].key
  <2>1. \E m \in Firsts(set) : set[m].kid = kid
    BY <1>2
  <2> DEFINE first == CHOOSE m \in Firsts(set) : set[m].kid = kid
  <2>2. first \in Firsts(set) /\ set[first].kid = kid
    BY <2>1
  <2> QED
    BY <1>1, <2>2 DEF HoldsFirst, Firsts
<1> DEFINE value(kid) == set[CHOOSE m \in Firsts(set) : set[m].kid = kid].key
<1>4. map = [kid \in DOMAIN map |-> value(kid)]
  <2> HIDE DEF value
  <2>1. \A kid \in DOMAIN map : map[kid] = value(kid)
    BY <1>3 DEF value
  <2> QED
    BY <2>1
<1> QED
  BY <1>2, <1>4 DEF KeySetMap

\* What a returning call has is the trust list's map.
LEMMA ReturnedIsTrustMap ==
  ASSUME IInv, pc = "returned"
  PROVE  out = TrustMap(ttl)
<1>1. ttl \in Payloads \ {Malformed} /\ DOMAIN out = DOMAIN ttl
  BY DEF IInv, TypeOK, Stored, PayloadOK
<1>2. ASSUME NEW x \in DOMAIN ttl
      PROVE  out[x] = KeySetMap(ttl[x].keys)
  <2>1. KeySet(x) \in Seq(Range(KeySet(x)))
    BY <1>1, PayloadsAssumption DEF IInv, Stored, KeySet
  <2>2. HoldsFirst(out[x], KeySet(x), Len(KeySet(x)) + 1)
    BY <1>1 DEF IInv, KeysAreFirstValid
  <2>3. out[x] = [kid \in DOMAIN out[x] |-> out[x][kid]]
    BY <1>1 DEF IInv, AreMaps
  <2>4. out[x] = KeySetMap(KeySet(x))
    BY <2>1, <2>2, <2>3, HoldsFirstIsKeySetMap
  <2> QED
    BY <2>4 DEF KeySet
<1> QED
  BY <1>1, <1>2 DEF TrustMap, IInv, AreMaps

\* The abstract specification judges payloads by the same definitions.
LEMMA SameMeaning ==
  /\ Parse!TTLOK(ttl) <=> TTLOK(ttl)
  /\ Parse!TrustMap(ttl) = TrustMap(ttl)
BY DEF Parse!TTLOK, Parse!PayloadOK, Parse!EntryOK, Parse!HasValid, Parse!Valid,
       TTLOK, PayloadOK, EntryOK, HasValid, Valid, Parse!TrustMap,
       Parse!KeySetMap, Parse!Firsts, Parse!IsFirst, TrustMap, KeySetMap,
       Firsts, IsFirst

\* ParseTTLPayload implements the one step from payload to result: a step of
\* the loops is invisible, the last one decides.
THEOREM Implements ==
  Spec => ImplementsParse
<1> DEFINE Good == IInv /\ FailedMeansNotOK
<1>1. Init => Good
  BY InitEstablishes DEF Init, FailedMeansNotOK
<1>2. Good /\ [Next]_vars => Good'
  BY StepPreserves, StepFailsForCause
<1>3. Init => Parse!Init
  BY DEF Init, Parse!Init
<1>4. Good /\ Good' /\ [Next]_vars => [Parse!Decide]_Parse!vars
  <2> SUFFICES ASSUME Good, Good', [Next]_vars
               PROVE  [Parse!Decide]_Parse!vars
    OBVIOUS
  <2>1. ttl' = ttl
    BY DEF Next, vars, Fail, RejectPayload, DecodePayload, DecodeEntry,
       RejectEntry, IgnoreElement, AddKey, IgnoreConflict, RejectKeySet,
       StoreKeys, Return, Done
  <2>2. CASE Return
    <3>1. pc = "issuers" /\ pc' = "returned" /\ out' = out
      BY <2>2 DEF Return
    <3>2. TTLOK(ttl)
      <4>1. ReturnedMeansOK'
        BY ReturnedIsOK, PTL
      <4> QED
        BY <2>1, <3>1, <4>1 DEF ReturnedMeansOK, TTLOK, PayloadOK
    <3>3. out = TrustMap(ttl)
      <4>1. (pc = "returned" => out = TrustMap(ttl))'
        BY ReturnedIsTrustMap, PTL
      <4> QED
        BY <2>1, <3>1, <4>1 DEF TrustMap
    <3> QED
      BY <2>1, <3>1, <3>2, <3>3, SameMeaning DEF Parse!Decide, Parse!Succeed
  <2>3. CASE pc' = "failed" /\ pc # "failed"
    <3>1. pc # "returned"
      BY <2>3 DEF Next, vars, Fail, RejectPayload, DecodePayload, DecodeEntry,
         RejectEntry, AtElement, EndOfKeySet, IgnoreElement, AddKey,
         IgnoreConflict, RejectKeySet, StoreKeys, Return, Done
    <3>2. ~TTLOK(ttl)
      BY <2>1, <2>3 DEF FailedMeansNotOK, TTLOK, PayloadOK
    <3> QED
      BY <2>1, <2>3, <3>1, <3>2, SameMeaning DEF Parse!Decide, Parse!GiveUp
  <2>4. CASE ~Return /\ (pc' = "failed" => pc = "failed")
    <3>1. /\ pc' = "returned" => pc = "returned" /\ out' = out
          /\ pc = "returned" \/ pc = "failed" => pc' = pc
      BY <2>4 DEF Next, vars, Fail, RejectPayload, DecodePayload, DecodeEntry,
         RejectEntry, AtElement, EndOfKeySet, IgnoreElement, AddKey,
         IgnoreConflict, RejectKeySet, StoreKeys, Done
    <3> QED
      BY <2>1, <2>4, <3>1 DEF Parse!vars
  <2> QED
    BY <2>2, <2>3, <2>4
<1> QED
  BY <1>1, <1>2, <1>3, <1>4, PTL DEF Spec, ImplementsParse, Parse!Spec
=============================================================================
