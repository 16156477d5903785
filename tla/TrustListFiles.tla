--------------------------- MODULE TrustListFiles ---------------------------
(***************************************************************************)
(* parseTTLFile (main.go): a trust list file holds the payload itself,     *)
(* [ttl |-> payload], or an envelope around it, [signed |-> envelope], or  *)
(* bytes that are neither, Malformed; NoFile is the option left out.       *)
(***************************************************************************)
EXTENDS Envelope

CONSTANTS
  NoFile,    \* an option that names no file
  EmptyKid   \* the key ID of a key without one

INSTANCE KeySets

\* Mutant: whatever carries the tag is unwrapped without being checked.
TTLFileOK_Unverified(file) ==
  file # NoFile =>
    /\ file # Malformed
    /\ IF "signed" \in DOMAIN file
         THEN file.signed # Malformed /\ TTLOK(file.signed.payload)
         ELSE TTLOK(file.ttl)

\* What carries the tag of a COSE_Sign1 must check before it is unwrapped.
TTLFileOK(file) ==
  file # NoFile =>
    /\ file # Malformed
    /\ IF "signed" \in DOMAIN file
         THEN UnpackOK(file.signed) /\ TTLOK(file.signed.payload)
         ELSE TTLOK(file.ttl)

\* A nil map when there is no file.
ParsedTTLFile(file) ==
  IF file = NoFile THEN <<>>
  ELSE TrustMap(IF "signed" \in DOMAIN file THEN file.signed.payload
                                            ELSE file.ttl)
=============================================================================
