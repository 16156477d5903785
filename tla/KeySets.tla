------------------------------ MODULE KeySets ------------------------------
(***************************************************************************)
(* COSE_KeySets and Transparency Trust Lists as data, and what they mean.  *)
(*                                                                         *)
(* A payload is Malformed or a function from issuers to entries; an entry  *)
(* is Malformed or a record that may have the attribute keys; a key set is *)
(* Malformed or a sequence of elements; an element is Malformed or has a   *)
(* kid and a key, where a key no public key can be built from is Malformed.*)
(***************************************************************************)
EXTENDS Naturals, Sequences

CONSTANTS
  Malformed,
  EmptyKid    \* the key ID of an element without one

\* Decodes, has a key ID, and yields a public key.
Valid(element) ==
  /\ element # Malformed
  /\ element.kid # EmptyKid
  /\ element.key # Malformed

PayloadOK(ttl) == ttl # Malformed /\ DOMAIN ttl # {}

EntryOK(entry) ==
  /\ entry # Malformed
  /\ "keys" \in DOMAIN entry
  /\ entry.keys # Malformed
  /\ entry.keys # <<>>

HasValid(set) == \E m \in DOMAIN set : Valid(set[m])

\* Element m of a key set is the first valid one with its kid.
IsFirst(set, m) ==
  /\ Valid(set[m])
  /\ \A q \in 1 .. m - 1 : Valid(set[q]) => set[q].kid # set[m].kid

\* Every issuer's entry has a usable key.
TTLOK(ttl) ==
  /\ PayloadOK(ttl)
  /\ \A x \in DOMAIN ttl : EntryOK(ttl[x]) /\ HasValid(ttl[x].keys)

Firsts(set) == {m \in DOMAIN set : IsFirst(set, m)}

\* The kid -> key map a key set stands for, and the map of a trust list.
KeySetMap(set) ==
  [kid \in {set[m].kid : m \in Firsts(set)} |->
     set[CHOOSE m \in Firsts(set) : set[m].kid = kid].key]

TrustMap(ttl) == [x \in DOMAIN ttl |-> KeySetMap(ttl[x].keys)]
=============================================================================
