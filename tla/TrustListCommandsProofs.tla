---------------------- MODULE TrustListCommandsProofs ----------------------
(***************************************************************************)
(* ttl-from-ledger leaves the file alone until every ledger has answered,  *)
(* and what it writes reads back as what the ledgers published; what       *)
(* dump-ttl prints stands for the list read, whatever the order of Go's    *)
(* maps.  For every list of ledgers, whatever they publish.                *)
(***************************************************************************)
EXTENDS TrustListCommands, InductionLemmas, TLAPS

\* InOrder lists a finite set of numbers: each once, in their order.
LEMMA InOrderLists ==
  ASSUME NEW S \in SUBSET Nat, IsFiniteSet(S)
  PROVE  \E n \in Nat :
           /\ InOrder(S) \in [1 .. n -> S]
           /\ \A a, b \in 1 .. n : a < b => InOrder(S)[a] < InOrder(S)[b]
           /\ \A x \in S : \E a \in 1 .. n : InOrder(S)[a] = x
<1> DEFINE n == Cardinality(S)
           Increases(t) == \A a, b \in DOMAIN t : a < b => t[a] < t[b]
<1>1. n \in Nat
  BY FS_CardinalityType
<1>2. PICK t \in [1 .. n -> S] : \A a, b \in 1 .. n : a < b => t[a] < t[b]
  BY IncreasingEnumeration
<1> HIDE DEF n
<1>3. ASSUME NEW i \in 1 .. n, NEW j \in 1 .. n, i # j PROVE t[i] # t[j]
  <2>1. t[i] \in Nat /\ t[j] \in Nat
    BY <1>2
  <2>2. CASE i < j
    BY <1>2, <2>1, <2>2
  <2>3. CASE j < i
    BY <1>2, <2>1, <2>3
  <2> QED
    BY <1>1, <1>3, <2>2, <2>3
<1>4. SetToSeqs(S) =
        {f \in [1 .. n -> S] : \A i, j \in 1 .. n : i # j => f[i] # f[j]}
  BY DEF SetToSeqs, n
<1>5. t \in SetToSeqs(S) /\ Increases(t)
  BY <1>2, <1>3, <1>4
<1>6. InOrder(S) \in SetToSeqs(S) /\ Increases(InOrder(S))
  BY <1>5 DEF InOrder
<1>7. /\ InOrder(S) \in [1 .. n -> S]
      /\ \A i, j \in 1 .. n : i # j => InOrder(S)[i] # InOrder(S)[j]
  BY <1>4, <1>6
<1>8. InOrder(S) \in Injection(1 .. n, S)
  BY <1>7 DEF Injection, IsInjective
<1>9. Cardinality(1 .. n) = n
  <2>1. Cardinality(1 .. n) = IF 1 > n THEN 0 ELSE n - 1 + 1
    BY <1>1, FS_Interval
  <2> QED
    BY <1>1, <2>1
<1>10. InOrder(S) \in Surjection(1 .. n, S)
  BY <1>8, <1>9, FS_Injection DEF n
<1> QED
  BY <1>1, <1>6, <1>7, <1>10 DEF Surjection

\* KeyList lists the JWKs of a slice, one of every kid.
LEMMA KeyListLists ==
  ASSUME NEW set, set \in Seq(Range(set))
  PROVE  /\ KeyList(set) \in Seq(Range(set))
         /\ \A a \in DOMAIN set :
              \E m \in DOMAIN KeyList(set) : KeyList(set)[m].kid = set[a].kid
         /\ \A m, q \in DOMAIN KeyList(set) :
              KeyList(set)[m].kid = KeyList(set)[q].kid => m = q
<1> DEFINE N == Len(set)
           F == {a \in DOMAIN set : \A b \in 1 .. a - 1 : set[b].kid # set[a].kid}
           first == InOrder(F)
<1>1. N \in Nat /\ DOMAIN set = 1 .. N
  OBVIOUS
<1>2. F \in SUBSET Nat /\ IsFiniteSet(F)
  <2>1. IsFiniteSet(1 .. N)
    BY <1>1, FS_Interval
  <2> QED
    BY <1>1, <2>1, FS_Subset
<1>3. PICK n \in Nat :
        /\ first \in [1 .. n -> F]
        /\ \A a, b \in 1 .. n : a < b => first[a] < first[b]
        /\ \A x \in F : \E a \in 1 .. n : first[a] = x
  <2> HIDE DEF F
  <2> QED
    BY <1>2, InOrderLists
<1> HIDE DEF first
<1>4. KeyList(set) = [m \in 1 .. n |-> set[first[m]]]
  BY <1>3 DEF KeyList, first
<1>5. \A a \in DOMAIN set : set[a] \in Range(set)
  BY DEF Range
<1>6. KeyList(set) \in Seq(Range(set))
  <2>1. \A m \in 1 .. n : set[first[m]] \in Range(set)
    BY <1>3, <1>5
  <2>2. KeyList(set) \in [1 .. n -> Range(set)]
    BY <1>4, <2>1
  <2> QED
    BY <2>2
<1>7. ASSUME NEW a \in DOMAIN set
      PROVE  \E m \in DOMAIN KeyList(set) : KeyList(set)[m].kid = set[a].kid
  <2> DEFINE Same == {b \in 1 .. N : set[b].kid = set[a].kid}
  <2>1. PICK b \in Same : \A c \in Same : b <= c
    <3>1. Same \in SUBSET Nat /\ Same # {}
      BY <1>1
    <3> QED
      BY <3>1, LeastElement
  <2>2. b \in F
    BY <1>1, <2>1
  <2>3. PICK m \in 1 .. n : first[m] = b
    BY <1>3, <2>2
  <2> QED
    BY <1>4, <2>1, <2>3
<1>8. ASSUME NEW m \in 1 .. n, NEW q \in 1 .. n, m < q
      PROVE  set[first[m]].kid # set[first[q]].kid
  <2>1. first[m] \in F /\ first[q] \in F /\ first[m] < first[q]
    BY <1>3, <1>8
  <2>2. first[m] \in 1 .. first[q] - 1
    BY <1>1, <2>1
  <2> QED
    BY <2>1, <2>2
<1>9. ASSUME NEW m \in 1 .. n, NEW q \in 1 .. n,
             set[first[m]].kid = set[first[q]].kid
      PROVE  m = q
  BY <1>8, <1>9
<1> QED
  BY <1>4, <1>6, <1>7, <1>9

\* The --ledger options are a slice, and Len is its length.
LEMMA LedgersAreASlice ==
  ASSUME ledgers \in LedgerLists
  PROVE  /\ ledgers \in Seq(Range(ledgers))
         /\ Len(ledgers) \in Nat
         /\ DOMAIN ledgers = 1 .. Len(ledgers)
         /\ \A m \in 1 .. Len(ledgers) : ledgers[m] \in AllLedgers
<1>1. ledgers \in Seq(Range(ledgers))
  BY LedgerListsAssumption
<1>2. Len(ledgers) \in Nat /\ DOMAIN ledgers = 1 .. Len(ledgers)
  BY <1>1
<1>3. \A m \in 1 .. Len(ledgers) : ledgers[m] \in Range(ledgers)
  BY <1>2 DEF Range
<1> QED
  BY <1>1, <1>2, <1>3 DEF AllLedgers

\* The invariant holds when ttl-from-ledger begins.
LEMMA InitEstablishes ==
  Init => IInv
<1> SUFFICES ASSUME Init PROVE IInv
  OBVIOUS
<1>1. Len(ledgers) \in Nat
  BY LedgersAreASlice DEF Init
<1>2. 1 .. at - 1 = {}
  BY DEF Init
<1> QED
  BY <1>1, <1>2
     DEF IInv, Init, TypeOK, NoneTwice, AnswersListed, FileIsKnown,
         DumpIsARendering

\* A ledger's answer is stored under the ledger, and as the list of its keys.
LEMMA FetchPreserves ==
  ASSUME IInv, FetchLedger
  PROVE  IInv'
<1> USE DEF IInv
<1>1. /\ at <= Len(ledgers) /\ ledgers[at] \notin DOMAIN issuerKeys
      /\ at' = at + 1
      /\ pc = "fetch"
      /\ UNCHANGED <<ledgers, pc, file, dump>>
      /\ DOMAIN issuerKeys' = DOMAIN issuerKeys \cup {ledgers[at]}
      /\ DOMAIN answered' = DOMAIN answered \cup {ledgers[at]}
  BY DEF FetchLedger, NextLedger, Ledger, Assign
<1>2. Len(ledgers) \in Nat /\ at \in 1 .. Len(ledgers)
  BY <1>1, LedgersAreASlice DEF TypeOK
<1>3. 1 .. at' - 1 = (1 .. at - 1) \cup {at}
  BY <1>1, <1>2
<1>4. TypeOK'
  BY <1>1, <1>2, <1>3 DEF TypeOK
<1>5. \A a \in 1 .. at - 1 : ledgers[a] # ledgers[at]
  BY <1>1 DEF TypeOK
<1>6. NoneTwice'
  BY <1>1, <1>3, <1>5 DEF NoneTwice
<1>7. AnswersListed'
  <2>1. PICK set \in JWKSets[Endpoint(ledgers[at])] :
          /\ JWKSetOK(set)
          /\ issuerKeys' = Assign(issuerKeys, ledgers[at], KeyList(set))
          /\ answered' = Assign(answered, ledgers[at], set)
    BY DEF FetchLedger, Ledger
  <2>2. /\ answered'[ledgers[at]] = set
        /\ issuerKeys'[ledgers[at]] = KeyList(set)
    BY <2>1 DEF Assign
  <2>3. ASSUME NEW x \in DOMAIN answered
        PROVE  answered'[x] = answered[x] /\ issuerKeys'[x] = issuerKeys[x]
    BY <1>1, <2>1 DEF Assign, TypeOK
  <2> QED
    BY <1>1, <2>1, <2>2, <2>3 DEF AnswersListed
<1>8. FileIsKnown'
  BY <1>1 DEF FileIsKnown
<1>9. DumpIsARendering'
  BY <1>1 DEF DumpIsARendering, Ended
<1> QED
  BY <1>1, <1>4, <1>6, <1>7, <1>8, <1>9

\* Every step keeps the invariant.
LEMMA StepPreserves ==
  IInv /\ [Next]_vars => IInv'
<1> SUFFICES ASSUME IInv, [Next]_vars PROVE IInv'
  OBVIOUS
<1> USE DEF IInv
<1>1. CASE FetchLedger
  BY <1>1, FetchPreserves
<1>2. CASE RejectLedgers \/ FetchFails \/ RejectEncoding \/ WriteFails
  <2>1. /\ pc = "fetch" /\ pc' = "failed"
        /\ UNCHANGED <<ledgers, at, issuerKeys, dump, answered>>
        /\ file' \in {file, Malformed}
    BY <1>2 DEF RejectLedgers, FetchFails, RejectEncoding, WriteFails, Fail,
       NextLedger, Fetched
  <2>2. TypeOK' /\ NoneTwice' /\ AnswersListed'
    BY <2>1 DEF TypeOK, NoneTwice, AnswersListed
  <2>3. FileIsKnown'
    BY <2>1 DEF FileIsKnown
  <2>4. DumpIsARendering'
    BY <2>1 DEF DumpIsARendering, Ended
  <2> QED
    BY <2>1, <2>2, <2>3, <2>4
<1>3. CASE Write
  <2>1. /\ pc = "fetch" /\ pc' = "written"
        /\ UNCHANGED <<ledgers, at, issuerKeys, dump, answered>>
        /\ file' = [ttl |-> TTLPayload]
        /\ Encodes /\ at > Len(ledgers) /\ ledgers # <<>>
    BY <1>3 DEF Write, Fetched
  <2>2. TypeOK' /\ NoneTwice' /\ AnswersListed'
    BY <2>1 DEF TypeOK, NoneTwice, AnswersListed
  <2>3. FileIsKnown'
    BY <2>1 DEF FileIsKnown, TTLPayload, Encodes
  <2>4. DumpIsARendering'
    BY <2>1 DEF DumpIsARendering, Ended
  <2> QED
    BY <2>1, <2>2, <2>3, <2>4
<1>4. CASE DumpTTL \/ RejectDump
  <2>1. /\ Ended
        /\ UNCHANGED <<ledgers, at, issuerKeys, pc, file, answered>>
    BY <1>4 DEF DumpTTL, RejectDump
  <2>2. TypeOK' /\ NoneTwice' /\ AnswersListed'
    BY <2>1 DEF TypeOK, NoneTwice, AnswersListed
  <2>3. FileIsKnown'
    BY <2>1 DEF FileIsKnown, TTLPayload, Encodes
  <2>4. dump'.status = "printed" =>
          /\ Dumps
          /\ \E met \in Orders(ParsedTTLFile(file)) :
               dump'.jwks = Rendering(ParsedTTLFile(file), met)
    BY <1>4 DEF DumpTTL, RejectDump
  <2>5. DumpIsARendering'
    BY <2>1, <2>4 DEF DumpIsARendering, Ended, Dumps
  <2> QED
    BY <2>1, <2>2, <2>3, <2>5
<1>5. CASE UNCHANGED vars
  BY <1>5 DEF vars, TypeOK, NoneTwice, AnswersListed, FileIsKnown, TTLPayload,
     Encodes, DumpIsARendering, Ended, Dumps
<1> QED
  BY <1>1, <1>2, <1>3, <1>4, <1>5 DEF Next, FromLedger

\* The loop, the keys fetched and the answers belong together.
THEOREM TypeCorrect == Spec => []TypeOK
<1>1. IInv => TypeOK
  BY DEF IInv
<1> QED
  BY <1>1, InitEstablishes, StepPreserves, PTL DEF Spec

\* The file changes only when every ledger asked for, none of them twice, has
\* answered: at the only two steps that touch it the loop is behind them all.
THEOREM FileIsWholeOrUntouched == Spec => WholeOrUntouched
<1> DEFINE Whole == file' # file =>
                      /\ ledgers # <<>>
                      /\ DOMAIN answered = {ledgers[m] : m \in DOMAIN ledgers}
                      /\ IsInjective(ledgers)
<1>1. IInv /\ [Next]_vars => [Whole]_vars
  <2> SUFFICES ASSUME IInv, Next, file' # file PROVE Whole
    OBVIOUS
  <2>1. Fetched
    BY DEF Next, FromLedger, RejectLedgers, FetchLedger, FetchFails,
       RejectEncoding, Write, WriteFails, DumpTTL, RejectDump
  <2>2. Len(ledgers) \in Nat /\ DOMAIN ledgers = 1 .. Len(ledgers)
    BY LedgersAreASlice DEF IInv
  <2>3. at - 1 = Len(ledgers)
    BY <2>1, <2>2 DEF Fetched, IInv, TypeOK
  <2> QED
    BY <2>1, <2>2, <2>3 DEF Fetched, IInv, TypeOK, NoneTwice, IsInjective
<1> QED
  BY <1>1, InitEstablishes, StepPreserves, PTL DEF Spec, WholeOrUntouched

\* What a ledger answered is a slice of JWKs, each with its public key.
LEMMA AnswerIsUsable ==
  ASSUME IInv, NEW x \in DOMAIN answered
  PROVE  /\ x \in AllLedgers
         /\ answered[x] \in Seq(Range(answered[x]))
         /\ Range(answered[x]) \subseteq AllJWKs
         /\ JWKSetOK(answered[x])
         /\ issuerKeys[x] = KeyList(answered[x])
<1>1. x \in AllLedgers
  <2>1. PICK m \in 1 .. at - 1 : x = ledgers[m]
    BY DEF IInv, TypeOK
  <2>2. m \in 1 .. Len(ledgers)
    BY LedgersAreASlice DEF IInv, TypeOK
  <2> QED
    BY <2>1, <2>2, LedgersAreASlice DEF IInv
<1>2. answered[x] \in JWKSets[Endpoint(x)]
  BY DEF IInv, AnswersListed
<1>3. Range(answered[x]) \subseteq AllJWKs
  BY <1>1, <1>2 DEF AllJWKs
<1> QED
  BY <1>1, <1>2, <1>3, JWKSetsAssumption DEF IInv, AnswersListed

\* The list of a JWKS is a key set that stands for the JWKS, short of the keys
\* without a key ID (ccf_keyfetch.go:118-136 against keyset.go:44-62).
LEMMA ListStandsForJWKS ==
  ASSUME NEW set, set \in Seq(Range(set)), Range(set) \subseteq AllJWKs,
         JWKSetOK(set)
  PROVE  /\ HasValid(KeyList(set)) <=> DOMAIN Nameable(set) # {}
         /\ KeySetMap(KeyList(set)) = Nameable(set)
<1> DEFINE list == KeyList(set)
           kids == {set[a].kid : a \in DOMAIN set}
<1>1. /\ list \in Seq(Range(set))
      /\ \A a \in DOMAIN set : \E m \in DOMAIN list : list[m].kid = set[a].kid
      /\ \A m, q \in DOMAIN list : list[m].kid = list[q].kid => m = q
  BY KeyListLists
<1> HIDE DEF list
<1>2. Len(list) \in Nat /\ DOMAIN list = 1 .. Len(list)
  BY <1>1
<1>3. \A m \in DOMAIN list : \E a \in DOMAIN set : list[m] = set[a]
  <2>1. \A m \in DOMAIN list : list[m] \in Range(set)
    BY <1>1
  <2> QED
    BY <2>1 DEF Range
<1>4. \A a \in DOMAIN set : set[a] # Malformed /\ set[a].key # Malformed
  <2>1. \A a \in DOMAIN set : set[a] \in AllJWKs
    BY DEF Range
  <2> QED
    BY <2>1, JWKSetsAssumption DEF JWKSetOK
<1>5. \A m \in DOMAIN list : Valid(list[m]) <=> list[m].kid # EmptyKid
  BY <1>3, <1>4 DEF Valid
<1>6. DOMAIN KeyMap(set) = kids
  BY DEF KeyMap
<1>7. DOMAIN Nameable(set) = kids \ {EmptyKid}
  BY <1>6 DEF Nameable, Restrict
<1>8. HasValid(list) <=> DOMAIN Nameable(set) # {}
  <2>1. HasValid(list) <=> \E m \in DOMAIN list : list[m].kid # EmptyKid
    BY <1>5 DEF HasValid
  <2>2. ASSUME NEW m \in DOMAIN list, list[m].kid # EmptyKid
        PROVE  list[m].kid \in kids \ {EmptyKid}
    BY <1>3, <2>2
  <2>3. ASSUME NEW kid \in kids \ {EmptyKid}
        PROVE  \E m \in DOMAIN list : list[m].kid # EmptyKid
    BY <1>1
  <2> QED
    BY <1>7, <2>1, <2>2, <2>3
<1>9. Firsts(list) = {m \in DOMAIN list : list[m].kid # EmptyKid}
  <2>1. ASSUME NEW m \in DOMAIN list, NEW q \in 1 .. m - 1
        PROVE  list[q].kid # list[m].kid
    BY <1>1, <1>2
  <2> QED
    BY <1>5, <2>1 DEF Firsts, IsFirst
<1>10. {list[m].kid : m \in Firsts(list)} = kids \ {EmptyKid}
  BY <1>1, <1>3, <1>9
<1>11. ASSUME NEW kid \in kids \ {EmptyKid}
       PROVE  list[CHOOSE m \in Firsts(list) : list[m].kid = kid].key
                = Nameable(set)[kid]
  <2>1. PICK a \in DOMAIN set : set[a].kid = kid
    OBVIOUS
  <2> DEFINE m == CHOOSE m \in Firsts(list) : list[m].kid = kid
             jwk == CHOOSE k \in Range(set) : k.kid = kid
  <2>2. m \in DOMAIN list /\ list[m].kid = kid
    BY <1>9, <1>10
  <2>3. PICK b \in DOMAIN set : list[m] = set[b]
    BY <1>3, <2>2
  <2>4. jwk \in Range(set) /\ jwk.kid = kid
    BY <2>1 DEF Range
  <2>5. PICK c \in DOMAIN set : jwk = set[c]
    BY <2>4 DEF Range
  <2>6. Nameable(set)[kid] = jwk.key
    BY <1>6 DEF Nameable, Restrict, KeyMap
  <2> HIDE DEF m, jwk
  <2>7. list[m].key = jwk.key
    BY <2>2, <2>3, <2>4, <2>5 DEF JWKSetOK
  <2> QED
    BY <2>6, <2>7 DEF m
<1>12. Nameable(set) = [kid \in kids \ {EmptyKid} |-> Nameable(set)[kid]]
  BY <1>6 DEF Nameable, Restrict
<1>13. KeySetMap(list) = Nameable(set)
  BY <1>10, <1>11, <1>12 DEF KeySetMap
<1> QED
  BY <1>8, <1>13 DEF list

\* The list written is a file, and each of its entries has keys.
LEMMA WrittenDecodes ==
  ASSUME IInv, pc = "written"
  PROVE  /\ file = [ttl |-> TTLPayload]
         /\ file # NoFile /\ file # Malformed
         /\ PayloadOK(TTLPayload)
         /\ DOMAIN TTLPayload = DOMAIN answered
         /\ \A x \in DOMAIN answered :
              /\ EntryOK(TTLPayload[x])
              /\ TTLPayload[x].keys = KeyList(answered[x])
              /\ TTLPayload[x].keys \in Seq(AllJWKs)
<1> DEFINE lists == Seq(AllJWKs)
           entries == [keys : lists]
<1>1. /\ file = [ttl |-> TTLPayload]
      /\ Encodes /\ at > Len(ledgers) /\ ledgers # <<>>
  BY DEF IInv, FileIsKnown
<1>2. DOMAIN issuerKeys = DOMAIN answered
  BY DEF IInv, TypeOK
<1>3. ASSUME NEW x \in DOMAIN answered
      PROVE  issuerKeys[x] \in lists /\ issuerKeys[x] = KeyList(answered[x])
  <2>1. /\ answered[x] \in Seq(Range(answered[x]))
        /\ Range(answered[x]) \subseteq AllJWKs
        /\ issuerKeys[x] = KeyList(answered[x])
    BY AnswerIsUsable
  <2>2. KeyList(answered[x]) \in Seq(Range(answered[x]))
    BY <2>1, KeyListLists
  <2> QED
    BY <2>1, <2>2
<1>4. DOMAIN answered \in SUBSET AllLedgers
  BY AnswerIsUsable
<1>5. TTLPayload = [x \in DOMAIN answered |-> [keys |-> issuerKeys[x]]]
  BY <1>2 DEF TTLPayload
<1> HIDE DEF lists
<1>6. TTLPayload \in [DOMAIN answered -> entries]
  BY <1>3, <1>5
<1>7. file \in [ttl : [DOMAIN answered -> entries]]
  BY <1>1, <1>6
<1>8. /\ Malformed \notin lists
      /\ Malformed \notin entries
      /\ Malformed \notin [DOMAIN answered -> entries]
      /\ Malformed \notin [ttl : [DOMAIN answered -> entries]]
      /\ NoFile \notin [ttl : [DOMAIN answered -> entries]]
  BY <1>4, EncodingsAssumption DEF lists
<1>9. DOMAIN answered # {}
  <2>1. Len(ledgers) \in Nat \ {0}
    BY <1>1, LedgersAreASlice DEF IInv
  <2>2. 1 \in 1 .. at - 1
    BY <1>1, <2>1 DEF IInv, TypeOK
  <2> QED
    BY <1>2, <2>2 DEF IInv, TypeOK
<1>10. ASSUME NEW x \in DOMAIN answered
       PROVE  /\ EntryOK(TTLPayload[x])
              /\ TTLPayload[x].keys = KeyList(answered[x])
              /\ TTLPayload[x].keys \in lists
  <2>1. TTLPayload[x] \in entries /\ TTLPayload[x] = [keys |-> issuerKeys[x]]
    BY <1>5, <1>6
  <2>2. issuerKeys[x] # <<>>
    BY <1>1, <1>2 DEF Encodes
  <2>3. TTLPayload[x] # Malformed /\ issuerKeys[x] # Malformed
    BY <1>3, <1>8, <2>1
  <2> QED
    BY <1>3, <2>1, <2>2, <2>3 DEF EntryOK
<1>11. PayloadOK(TTLPayload)
  BY <1>5, <1>6, <1>8, <1>9 DEF PayloadOK
<1> QED
  BY <1>1, <1>5, <1>7, <1>8, <1>10, <1>11 DEF lists

\* The list written can be read when every ledger has a key with an ID, and
\* stands for what the ledgers answered with.
LEMMA ReadsBack ==
  ASSUME IInv, pc = "written"
  PROVE  /\ TTLFileOK(file) <=> \A x \in DOMAIN answered :
                                  DOMAIN Nameable(answered[x]) # {}
         /\ ParsedTTLFile(file) =
               [x \in DOMAIN answered |-> Nameable(answered[x])]
<1>1. /\ file = [ttl |-> TTLPayload]
      /\ file # NoFile /\ file # Malformed
      /\ PayloadOK(TTLPayload)
      /\ DOMAIN TTLPayload = DOMAIN answered
      /\ \A x \in DOMAIN answered :
           /\ EntryOK(TTLPayload[x])
           /\ TTLPayload[x].keys = KeyList(answered[x])
  BY WrittenDecodes
<1>2. \A x \in DOMAIN answered :
        /\ HasValid(KeyList(answered[x])) <=> DOMAIN Nameable(answered[x]) # {}
        /\ KeySetMap(KeyList(answered[x])) = Nameable(answered[x])
  BY AnswerIsUsable, ListStandsForJWKS
<1>3. "signed" \notin DOMAIN file /\ file.ttl = TTLPayload
  BY <1>1
<1>4. TTLFileOK(file) <=> TTLOK(TTLPayload)
  BY <1>1, <1>3 DEF TTLFileOK
<1>5. TTLOK(TTLPayload) <=> \A x \in DOMAIN answered :
                             DOMAIN Nameable(answered[x]) # {}
  BY <1>1, <1>2 DEF TTLOK
<1>6. ParsedTTLFile(file) = TrustMap(TTLPayload)
  BY <1>1, <1>3 DEF ParsedTTLFile
<1>7. TrustMap(TTLPayload) = [x \in DOMAIN answered |-> Nameable(answered[x])]
  BY <1>1, <1>2 DEF TrustMap
<1> QED
  BY <1>4, <1>5, <1>6, <1>7

\* What ttl-from-ledger wrote is what check and dump-ttl read back, whatever
\* the ledgers published: two loops that look at the same keys, the one over a
\* JWKS and the other over a COSE_KeySet, come to the same map.
THEOREM WrittenIsReadBack == Spec => []WrittenReadsBack
<1>1. IInv => WrittenReadsBack
  BY ReadsBack DEF WrittenReadsBack
<1> QED
  BY <1>1, InitEstablishes, StepPreserves, PTL DEF Spec

\* An order in which all of a finite set is met has all of it.
LEMMA OrderHasAll ==
  ASSUME NEW S, IsFiniteSet(S), NEW met \in SetToSeqs(S)
  PROVE  Range(met) = S
<1> DEFINE n == Cardinality(S)
<1>1. n \in Nat
  BY FS_CardinalityType
<1>2. /\ met \in [1 .. n -> S]
      /\ \A i, j \in 1 .. n : i # j => met[i] # met[j]
  BY DEF SetToSeqs
<1> HIDE DEF n
<1>3. met \in Injection(1 .. n, S)
  BY <1>2 DEF Injection, IsInjective
<1>4. Cardinality(1 .. n) = n
  <2>1. Cardinality(1 .. n) = IF 1 > n THEN 0 ELSE n - 1 + 1
    BY <1>1, FS_Interval
  <2> QED
    BY <1>1, <2>1
<1>5. met \in Surjection(1 .. n, S)
  BY <1>3, <1>4, FS_Injection DEF n
<1> QED
  BY <1>2, <1>5 DEF Surjection, Range

\* The map of a key set that is a slice is finite, and numbers are its keys.
LEMMA SlicesMakeFiniteMaps ==
  ASSUME NEW set, set \in Seq(Range(set)),
         \A m \in DOMAIN set : Valid(set[m]) => set[m].kid \in Nat
  PROVE  /\ DOMAIN KeySetMap(set) \in SUBSET Nat
         /\ IsFiniteSet(DOMAIN KeySetMap(set))
<1> DEFINE D == {set[m].kid : m \in Firsts(set)}
           f == [m \in Firsts(set) |-> set[m].kid]
<1>1. D \in SUBSET Nat
  BY DEF Firsts, IsFirst
<1>2. IsFiniteSet(Firsts(set))
  <2>1. Len(set) \in Nat /\ Firsts(set) \subseteq 1 .. Len(set)
    BY DEF Firsts
  <2>2. IsFiniteSet(1 .. Len(set))
    BY <2>1, FS_Interval
  <2> QED
    BY <2>1, <2>2, FS_Subset
<1>3. f \in Surjection(Firsts(set), D)
  BY DEF Surjection
<1>4. IsFiniteSet(D)
  BY <1>2, <1>3, FS_Surjection
<1> QED
  BY <1>1, <1>4 DEF KeySetMap

\* The maps dump-ttl renders are finite, and numbers are their keys.
LEMMA MapsReadAreFinite ==
  ASSUME IInv, Ended, Dumps, NEW x \in DOMAIN ParsedTTLFile(file)
  PROVE  /\ DOMAIN ParsedTTLFile(file)[x] \in SUBSET Nat
         /\ IsFiniteSet(DOMAIN ParsedTTLFile(file)[x])
         /\ ParsedTTLFile(file)[x] =
              [kid \in DOMAIN ParsedTTLFile(file)[x] |->
                 ParsedTTLFile(file)[x][kid]]
<1> DEFINE set == Payload(file)[x].keys
<1>1. ParsedTTLFile(file) = TrustMap(Payload(file))
  BY DEF Dumps, ParsedTTLFile, Payload
<1>2. x \in DOMAIN Payload(file) /\ ParsedTTLFile(file)[x] = KeySetMap(set)
  BY <1>1 DEF TrustMap
<1>3. /\ set \in Seq(Range(set))
      /\ \A m \in DOMAIN set : Valid(set[m]) => set[m].kid \in Nat
  <2>1. CASE pc = "written"
    <3>1. Payload(file) = TTLPayload /\ set \in Seq(AllJWKs)
      <4>1. file = [ttl |-> TTLPayload] /\ DOMAIN TTLPayload = DOMAIN answered
        BY <2>1, WrittenDecodes
      <4>2. Payload(file) = TTLPayload
        BY <4>1 DEF Payload
      <4> QED
        BY <1>2, <2>1, <4>1, <4>2, WrittenDecodes
    <3> HIDE DEF set
    <3>2. Len(set) \in Nat /\ set \in [1 .. Len(set) -> AllJWKs]
      BY <3>1
    <3>3. \A m \in DOMAIN set : set[m] \in Range(set)
      BY DEF Range
    <3>4. set \in [1 .. Len(set) -> Range(set)]
      BY <3>2, <3>3
    <3> QED
      BY <3>2, <3>4, JWKSetsAssumption
  <2>2. CASE pc # "written"
    <3>1. file \in Files
      BY <2>2 DEF IInv, FileIsKnown, Dumps, TTLFileOK
    <3> QED
      BY <1>2, <3>1, FilesAssumption DEF Dumps
  <2> QED
    BY <2>1, <2>2
<1> HIDE DEF set
<1>4. /\ DOMAIN KeySetMap(set) \in SUBSET Nat
      /\ IsFiniteSet(DOMAIN KeySetMap(set))
  BY <1>3, SlicesMakeFiniteMaps
<1>5. KeySetMap(set) = [kid \in DOMAIN KeySetMap(set) |-> KeySetMap(set)[kid]]
  BY DEF KeySetMap
<1> QED
  BY <1>2, <1>4, <1>5

\* What dump-ttl prints stands for the list read, sorted by kid, in whatever
\* order the keys of a ledger were met.
THEOREM PrintedIsTheList == Spec => []DumpIsTheList
<1>1. IInv => DumpIsTheList
  <2> DEFINE map == ParsedTTLFile(file)
  <2> SUFFICES ASSUME IInv, dump.status = "printed"
               PROVE  /\ DOMAIN dump.jwks = DOMAIN map
                      /\ \A x \in DOMAIN dump.jwks :
                           LET set == dump.jwks[x]
                           IN  /\ JWKSetOK(set)
                               /\ KeyMap(set) = map[x]
                               /\ \A a, b \in DOMAIN set :
                                    a < b => set[a].kid < set[b].kid
    BY DEF DumpIsTheList
  <2>1. Ended /\ Dumps
    BY DEF IInv, DumpIsARendering
  <2>2. PICK met \in Orders(map) : dump.jwks = Rendering(map, met)
    BY DEF IInv, DumpIsARendering
  <2>3. DOMAIN dump.jwks = DOMAIN map
    BY <2>2 DEF Rendering
  <2>4. ASSUME NEW x \in DOMAIN map
        PROVE  LET set == dump.jwks[x]
               IN  /\ JWKSetOK(set)
                   /\ KeyMap(set) = map[x]
                   /\ \A a, b \in DOMAIN set : a < b => set[a].kid < set[b].kid
    <3> DEFINE set == dump.jwks[x]
               D == DOMAIN map[x]
               mine == InOrder(D)
    <3>1. /\ D \in SUBSET Nat /\ IsFiniteSet(D)
          /\ map[x] = [kid \in D |-> map[x][kid]]
      BY <2>1, MapsReadAreFinite
    <3>2. Range(met[x]) = D
      <4>1. met[x] \in SetToSeqs(D)
        BY DEF Orders
      <4> HIDE DEF D
      <4> QED
        BY <3>1, <4>1, OrderHasAll
    <3>3. PICK n \in Nat :
            /\ mine \in [1 .. n -> D]
            /\ \A a, b \in 1 .. n : a < b => mine[a] < mine[b]
            /\ \A kid \in D : \E a \in 1 .. n : mine[a] = kid
      <4> HIDE DEF D
      <4> QED
        BY <3>1, InOrderLists
    <3>4. set = [m \in DOMAIN mine |-> [kid |-> mine[m], key |-> map[x][mine[m]]]]
      BY <2>2, <3>2 DEF Rendering
    <3>5. \A kid \in D : map[x][kid] # UnknownKey
      BY <2>1, EcKeysAssumption DEF Dumps, Renders
    <3> HIDE DEF set, mine, D, map
    <3>6. /\ DOMAIN set = 1 .. n
          /\ \A m \in 1 .. n : /\ set[m].kid = mine[m]
                              /\ mine[m] \in D
                              /\ set[m].key = map[x][mine[m]]
      BY <3>3, <3>4
    <3>7. JWKSetOK(set)
      BY <3>5, <3>6 DEF JWKSetOK, HasPublicKey
    <3>8. KeyMap(set) = map[x]
      <4>1. {set[a].kid : a \in DOMAIN set} = D
        BY <3>3, <3>6
      <4>2. ASSUME NEW kid \in D
            PROVE  (CHOOSE k \in Range(set) : k.kid = kid).key = map[x][kid]
        <5> DEFINE k == CHOOSE k \in Range(set) : k.kid = kid
        <5>1. k \in Range(set) /\ k.kid = kid
          BY <4>1 DEF Range
        <5>2. PICK m \in 1 .. n : k = set[m]
          BY <3>6, <5>1 DEF Range
        <5> HIDE DEF k
        <5>3. k.key = map[x][kid]
          BY <3>6, <5>1, <5>2
        <5> QED
          BY <5>3 DEF k
      <4> QED
        BY <3>1, <4>1, <4>2 DEF KeyMap
    <3>9. \A a, b \in DOMAIN set : a < b => set[a].kid < set[b].kid
      BY <3>3, <3>6
    <3> QED
      BY <3>7, <3>8, <3>9 DEF set
  <2> QED
    BY <2>3, <2>4
<1> QED
  BY <1>1, InitEstablishes, StepPreserves, PTL DEF Spec
=============================================================================
