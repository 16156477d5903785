----------------------------- MODULE TrustList -----------------------------
(***************************************************************************)
(* ParseTTLPayload and ParseKeySetAsMap (keyset.go): a Transparency Trust  *)
(* List becomes a map from issuer to that issuer's key map.  The outer     *)
(* loop ranges over a Go map, whose order is random; the inner one over    *)
(* the elements of a COSE_KeySet in order.                                 *)
(***************************************************************************)
EXTENDS KeySets, Functions, GoMap

CONSTANT Payloads  \* the payloads a call may be given

VARIABLES
  ttl,           \* the decoded payload, the argument
  pc,            \* where the call is
  todo,          \* issuers the outer loop has not reached
  issuer,        \* the issuer it is at
  pos,           \* index of the element the inner loop is at
  keys,          \* the key map of this issuer so far
  lastKeyError,  \* "nil", or the error an element was ignored for
  out            \* the result so far

vars == <<ttl, pc, todo, issuer, pos, keys, lastKeyError, out>>

KeySet(x) == ttl[x].keys

\* A decoded CBOR array is a sequence.
ASSUME PayloadsAssumption ==
  \A t \in Payloads \ {Malformed} : \A x \in DOMAIN t :
    EntryOK(t[x]) => t[x].keys \in Seq(Range(t[x].keys))

Init ==
  /\ ttl \in Payloads
  /\ pc = "payload"
  /\ todo = {}
  /\ issuer = EmptyKid
  /\ pos = 1
  /\ keys = <<>>
  /\ lastKeyError = "nil"
  /\ out = <<>>

Fail ==
  /\ pc' = "failed"
  /\ UNCHANGED <<ttl, todo, issuer, pos, keys, lastKeyError, out>>

RejectPayload ==
  /\ pc = "payload"
  /\ ~PayloadOK(ttl)
  /\ Fail

DecodePayload ==
  /\ pc = "payload"
  /\ PayloadOK(ttl)
  /\ pc' = "issuers"
  /\ todo' = DOMAIN ttl
  /\ UNCHANGED <<ttl, issuer, pos, keys, lastKeyError, out>>

\* Mutant: the issuer is left among those to do.
DecodeEntry_Again(x) ==
  /\ pc = "issuers"
  /\ EntryOK(ttl[x])
  /\ pc' = "elements"
  /\ issuer' = x
  /\ pos' = 1
  /\ keys' = <<>>
  /\ lastKeyError' = "nil"
  /\ UNCHANGED <<ttl, todo, out>>

\* Mutant: one map is made for all issuers.
DecodeEntry_SharedMap(x) ==
  /\ pc = "issuers"
  /\ EntryOK(ttl[x])
  /\ pc' = "elements"
  /\ issuer' = x
  /\ todo' = todo \ {x}
  /\ pos' = 1
  /\ lastKeyError' = "nil"
  /\ UNCHANGED <<ttl, keys, out>>

DecodeEntry(x) ==
  /\ pc = "issuers"
  /\ EntryOK(ttl[x])
  /\ pc' = "elements"
  /\ issuer' = x
  /\ todo' = todo \ {x}
  /\ pos' = 1
  /\ keys' = <<>>
  /\ lastKeyError' = "nil"
  /\ UNCHANGED <<ttl, out>>

\* Mutant: an entry that does not decode is left out of the result.
RejectEntry_Skips(x) ==
  /\ pc = "issuers"
  /\ ~EntryOK(ttl[x])
  /\ todo' = todo \ {x}
  /\ UNCHANGED <<ttl, pc, issuer, pos, keys, lastKeyError, out>>

RejectEntry(x) ==
  /\ pc = "issuers"
  /\ ~EntryOK(ttl[x])
  /\ Fail

AtElement == pc = "elements" /\ pos <= Len(KeySet(issuer))

Element == KeySet(issuer)[pos]

\* Mutant: the error of an ignored element is logged and not kept.
IgnoreElement_NoError ==
  /\ AtElement
  /\ ~Valid(Element)
  /\ pos' = pos + 1
  /\ UNCHANGED <<ttl, pc, todo, issuer, keys, lastKeyError, out>>

\* Mutant: the loop stays at an element it ignores.
IgnoreElement_Stays ==
  /\ AtElement
  /\ ~Valid(Element)
  /\ lastKeyError' = "element"
  /\ UNCHANGED <<ttl, pc, todo, issuer, pos, keys, out>>

\* "if one element ... is either malformed or uses a key that is not
\* understood by an application, that key is ignored"
IgnoreElement ==
  /\ AtElement
  /\ ~Valid(Element)
  /\ lastKeyError' = "element"
  /\ pos' = pos + 1
  /\ UNCHANGED <<ttl, pc, todo, issuer, keys, out>>

Conflicting ==
  Element.kid \in DOMAIN keys /\ keys[Element.kid] # Element.key

\* Mutant: the last key of a kid wins.
AddKey_LastWins ==
  /\ AtElement
  /\ Valid(Element)
  /\ keys' = Assign(keys, Element.kid, Element.key)
  /\ pos' = pos + 1
  /\ UNCHANGED <<ttl, pc, todo, issuer, lastKeyError, out>>

AddKey ==
  /\ AtElement
  /\ Valid(Element)
  /\ ~Conflicting
  /\ keys' = Assign(keys, Element.kid, Element.key)
  /\ pos' = pos + 1
  /\ UNCHANGED <<ttl, pc, todo, issuer, lastKeyError, out>>

IgnoreConflict ==
  /\ AtElement
  /\ Valid(Element)
  /\ Conflicting
  /\ pos' = pos + 1
  /\ UNCHANGED <<ttl, pc, todo, issuer, keys, lastKeyError, out>>

EndOfKeySet == pc = "elements" /\ pos > Len(KeySet(issuer))

\* No key at all: the error of the last element is returned.
RejectKeySet ==
  /\ EndOfKeySet
  /\ DOMAIN keys = {}
  /\ lastKeyError # "nil"
  /\ Fail

\* The caller stores what comes without an error, were it a nil map.
StoreKeys ==
  /\ EndOfKeySet
  /\ DOMAIN keys # {} \/ lastKeyError = "nil"
  /\ out' = Assign(out, issuer, keys)
  /\ pc' = "issuers"
  /\ UNCHANGED <<ttl, todo, issuer, pos, keys, lastKeyError>>

Return ==
  /\ pc = "issuers"
  /\ todo = {}
  /\ pc' = "returned"
  /\ UNCHANGED <<ttl, todo, issuer, pos, keys, lastKeyError, out>>

Done ==
  /\ pc \in {"returned", "failed"}
  /\ UNCHANGED vars

Next ==
  \/ RejectPayload \/ DecodePayload
  \/ \E x \in todo : DecodeEntry(x) \/ RejectEntry(x)
  \/ IgnoreElement \/ AddKey \/ IgnoreConflict
  \/ RejectKeySet \/ StoreKeys
  \/ Return
  \/ Done

Spec == Init /\ [][Next]_vars

FairSpec == Spec /\ WF_vars(Next)

-----------------------------------------------------------------------------
PCs == {"payload", "issuers", "elements", "returned", "failed"}

\* Past the payload check the loops are over issuers and elements the payload
\* has; the issuers done, at hand and to do are apart.
TypeOK ==
  /\ pc \in PCs
  /\ pos \in Nat \ {0}
  /\ lastKeyError \in {"nil", "element"}
  /\ pc \notin {"payload", "failed"} =>
       /\ todo \subseteq DOMAIN ttl
       /\ todo \cap DOMAIN out = {}
  /\ pc = "elements" =>
       /\ issuer \in DOMAIN ttl \ (todo \cup DOMAIN out)
       /\ DOMAIN ttl = {issuer} \cup todo \cup DOMAIN out
       /\ EntryOK(ttl[issuer])
       /\ pos <= Len(KeySet(issuer)) + 1
  /\ pc = "issuers" => DOMAIN ttl = todo \cup DOMAIN out
  /\ pc = "returned" => DOMAIN ttl = DOMAIN out

\* The map holds, for every kid of a valid element below the bound, the key of
\* the first such element, and nothing else.
HoldsFirst(map, set, bound) ==
  /\ \A kid \in DOMAIN map :
       \E m \in 1 .. bound - 1 : IsFirst(set, m) /\ kid = set[m].kid
  /\ \A m \in 1 .. bound - 1 : Valid(set[m]) => set[m].kid \in DOMAIN map
  /\ \A m \in 1 .. bound - 1 :
       IsFirst(set, m) => map[set[m].kid] = set[m].key

\* At every element, and for every issuer already stored, the map is what the
\* elements before say, each "processed independently" of the bad and the
\* conflicting ones around it, and of the other issuers (keyset.go:27-57).
KeysAreFirstValid ==
  /\ pc = "elements" => HoldsFirst(keys, KeySet(issuer), pos)
  /\ pc # "failed" =>
       \A x \in DOMAIN out :
         HoldsFirst(out[x], KeySet(x), Len(KeySet(x)) + 1)

\* No issuer ever gets a nil or empty key map: a key set without one valid
\* element fails the call, because the error kept from an ignored element is
\* there to return (keyset.go:34, 59-62).
NoEmptyKeyMap == \A x \in DOMAIN out : DOMAIN out[x] # {}

\* All issuers or none, whichever order Go's map iteration takes: one issuer
\* without a usable key fails the call, and nothing else does
\* (keyset.go:82-96).
ReturnedMeansOK == pc = "returned" => TTLOK(ttl) /\ DOMAIN out = DOMAIN ttl

FailedMeansNotOK == pc = "failed" => ~TTLOK(ttl)

VerdictIgnoresOrder == ReturnedMeansOK /\ FailedMeansNotOK

\* The loops, whatever the order, the ignored elements and the early returns,
\* amount to one decision on the whole payload: the map TrustMap, or an error
\* and nothing (keyset.go:73-97 with 16-64).
Parse == INSTANCE TrustListParse WITH
  status <- IF pc \in {"returned", "failed"} THEN pc ELSE "running",
  result <- IF pc = "returned" THEN out ELSE <<>>

ImplementsParse == Parse!Spec

\* Why: behind the first element, either a key was added or an error is kept.
ErrorKept ==
  pc = "elements" /\ pos > 1 /\ DOMAIN keys = {} => lastKeyError # "nil"

\* The payload stays one that can be passed, and only good entries are stored.
Stored ==
  /\ ttl \in Payloads
  /\ pc \notin {"payload", "failed"} => PayloadOK(ttl)
  /\ pc # "failed" => \A x \in DOMAIN out : EntryOK(ttl[x])
  /\ pc = "payload" => out = <<>>

\* The key maps are functions, and nothing is returned before the end.
AreMaps ==
  /\ keys = [kid \in DOMAIN keys |-> keys[kid]]
  /\ out = [x \in DOMAIN out |-> out[x]]
  /\ \A x \in DOMAIN out : out[x] = [kid \in DOMAIN out[x] |-> out[x][kid]]

IInv ==
  /\ TypeOK
  /\ Stored
  /\ AreMaps
  /\ KeysAreFirstValid
  /\ ErrorKept
  /\ NoEmptyKeyMap

\* The call returns.
Termination == <>(pc \in {"returned", "failed"})
=============================================================================
