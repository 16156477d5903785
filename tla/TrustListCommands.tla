-------------------------- MODULE TrustListCommands --------------------------
(***************************************************************************)
(* ttl-from-ledger asks ledgers for their JWKS, one after the other, and   *)
(* writes them as a trust list; dump-ttl reads a trust list and renders it *)
(* as JWKS again.  A GET may fail, and so may the write, before or after   *)
(* the file has been cut off.  Key IDs are numbers in the order of their   *)
(* strings.                                                                *)
(***************************************************************************)
EXTENDS TrustListFiles, Jwks, GoMap

CONSTANTS
  LedgerLists,   \* the lists of --ledger options
  Files,         \* what the file may hold before
  JWKSets,       \* endpoint -> the JWKSs it may answer with
  EcKeys         \* the keys on a curve a JWK has a name for

AllLedgers == UNION {Range(list) : list \in LedgerLists}

AllJWKs ==
  UNION {Range(set) : set \in UNION {JWKSets[Endpoint(x)] : x \in AllLedgers}}

\* The --ledger options are a slice.
ASSUME LedgerListsAssumption ==
  \A list \in LedgerLists : list \in Seq(Range(list))

\* A JWKS is a slice of JWKs.  An EC key becomes an EC COSE_Key, so its public
\* key can be built again.
ASSUME JWKSetsAssumption ==
  /\ \A x \in AllLedgers : \A set \in JWKSets[Endpoint(x)] : set \in Seq(Range(set))
  /\ \A jwk \in AllJWKs :
       /\ jwk # Malformed
       /\ jwk.kid \in Nat
       /\ HasPublicKey(jwk) => jwk.key # Malformed

\* What is not an EC key is on none of the curves.
ASSUME EcKeysAssumption == UnknownKey \notin EcKeys

Payload(f) == IF "signed" \in DOMAIN f THEN f.signed.payload ELSE f.ttl

\* The key sets of a file are slices of elements with numbers for key IDs.
ASSUME FilesAssumption ==
  \A f \in Files :
    f # NoFile /\ TTLFileOK(f) =>
      \A x \in DOMAIN Payload(f) :
        LET set == Payload(f)[x].keys
        IN  /\ set \in Seq(Range(set))
            /\ \A m \in DOMAIN set : Valid(set[m]) => set[m].kid \in Nat

\* What ttl-from-ledger can put together decodes, and is a file.
ASSUME EncodingsAssumption ==
  LET lists == Seq(AllJWKs)
      entries == [keys : lists]
  IN  /\ Malformed \notin lists
      /\ Malformed \notin entries
      /\ \A X \in SUBSET AllLedgers :
           /\ Malformed \notin [X -> entries]
           /\ Malformed \notin [ttl : [X -> entries]]
           /\ NoFile \notin [ttl : [X -> entries]]

VARIABLES
  ledgers,     \* the --ledger options
  at,          \* index of the one the loop is at
  issuerKeys,  \* ledger -> the list of keys fetched
  pc,          \* where ttl-from-ledger is
  file,        \* the file, written by the one and read by the other
  dump,        \* what dump-ttl printed last, or its error
  answered     \* history: ledger -> the JWKS it answered with

vars == <<ledgers, at, issuerKeys, pc, file, dump, answered>>

Init ==
  /\ ledgers \in LedgerLists
  /\ at = 1
  /\ issuerKeys = <<>>
  /\ pc = "fetch"
  /\ file \in Files
  /\ dump = [status |-> "none", jwks |-> <<>>]
  /\ answered = <<>>

Fail ==
  /\ pc' = "failed"
  /\ UNCHANGED <<ledgers, at, issuerKeys, dump, answered>>

NextLedger == pc = "fetch" /\ at <= Len(ledgers)

Ledger == ledgers[at]

\* None given, or one given twice: found when the loop is there.
RejectLedgers ==
  /\ pc = "fetch"
  /\ ledgers = <<>> \/ (NextLedger /\ Ledger \in DOMAIN issuerKeys)
  /\ Fail
  /\ UNCHANGED file

FetchLedger ==
  /\ NextLedger
  /\ Ledger \notin DOMAIN issuerKeys
  /\ Allowed(Ledger, {Ledger})
  /\ \E set \in JWKSets[Endpoint(Ledger)] :
       /\ JWKSetOK(set)
       /\ issuerKeys' = Assign(issuerKeys, Ledger, KeyList(set))
       /\ answered' = Assign(answered, Ledger, set)
  /\ at' = at + 1
  /\ UNCHANGED <<ledgers, pc, file, dump>>

\* Mutant: a ledger that cannot be asked is left out.
FetchFails_Skips ==
  /\ NextLedger
  /\ Ledger \notin DOMAIN issuerKeys
  /\ at' = at + 1
  /\ UNCHANGED <<ledgers, issuerKeys, pc, file, dump, answered>>

\* Not allowed, no connection, no usable JWKS.
FetchFails ==
  /\ NextLedger
  /\ Ledger \notin DOMAIN issuerKeys
  /\ Fail
  /\ UNCHANGED file

Fetched == pc = "fetch" /\ at > Len(ledgers) /\ ledgers # <<>>

\* encodeKeySet refuses an empty list, and nothing else of what was fetched.
Encodes == \A x \in DOMAIN issuerKeys : issuerKeys[x] # <<>>

RejectEncoding ==
  /\ Fetched
  /\ ~Encodes
  /\ Fail
  /\ UNCHANGED file

\* Mutant: kid and key of neighbouring entries are paired.
TTLPayload_Shifted ==
  [x \in DOMAIN issuerKeys |->
     [keys |-> [m \in DOMAIN issuerKeys[x] |->
                  [kid |-> issuerKeys[x][m].kid,
                   key |-> issuerKeys[x][Len(issuerKeys[x]) + 1 - m].key]]]]

\* A COSE_Key per listed key; one with an empty ID is encoded without an ID.
TTLPayload == [x \in DOMAIN issuerKeys |-> [keys |-> issuerKeys[x]]]

Write ==
  /\ Fetched
  /\ Encodes
  /\ file' = [ttl |-> TTLPayload]
  /\ pc' = "written"
  /\ UNCHANGED <<ledgers, at, issuerKeys, dump, answered>>

\* Mutant: the file is opened before the ledgers are asked.
WriteFails_EarlyOpen ==
  /\ pc = "fetch"
  /\ file' = Malformed
  /\ Fail

\* os.WriteFile leaves the file as it was, or a part of the new one.
WriteFails ==
  /\ Fetched
  /\ Encodes
  /\ file' \in {file, Malformed}
  /\ Fail

\* For each ledger, an order in which Go's iteration may meet its keys.
Orders(map) ==
  {met \in [DOMAIN map -> UNION {SetToSeqs(DOMAIN map[x]) : x \in DOMAIN map}] :
     \A x \in DOMAIN map : met[x] \in SetToSeqs(DOMAIN map[x])}

\* Mutant: the keys stay in the order of Go's map iteration.
Rendering_Unsorted(map, met) ==
  [x \in DOMAIN map |->
     [m \in DOMAIN met[x] |-> [kid |-> met[x][m], key |-> map[x][met[x][m]]]]]

\* The keys met are sorted by kid.
Rendering(map, met) ==
  [x \in DOMAIN map |->
     LET mine == InOrder(Range(met[x]))
     IN  [m \in DOMAIN mine |-> [kid |-> mine[m], key |-> map[x][mine[m]]]]]

Renders(map) == \A x \in DOMAIN map : \A kid \in DOMAIN map[x] :
                  map[x][kid] \in EcKeys

Ended == pc \in {"written", "failed"}

Dumps ==
  /\ file # NoFile
  /\ TTLFileOK(file)
  /\ Renders(ParsedTTLFile(file))

DumpTTL ==
  /\ Ended
  /\ Dumps
  /\ \E met \in Orders(ParsedTTLFile(file)) :
       dump' = [status |-> "printed",
                jwks |-> Rendering(ParsedTTLFile(file), met)]
  /\ UNCHANGED <<ledgers, at, issuerKeys, pc, file, answered>>

RejectDump ==
  /\ Ended
  /\ ~Dumps
  /\ dump' = [status |-> "error", jwks |-> <<>>]
  /\ UNCHANGED <<ledgers, at, issuerKeys, pc, file, answered>>

FromLedger ==
  \/ RejectLedgers \/ FetchLedger \/ FetchFails
  \/ RejectEncoding \/ Write \/ WriteFails

Next == FromLedger \/ DumpTTL \/ RejectDump

Spec == Init /\ [][Next]_vars

-----------------------------------------------------------------------------
\* The loop is at one of the ledgers or behind them; it has a list of keys for
\* each ledger behind it, the one that is written.
TypeOK ==
  /\ pc \in {"fetch", "written", "failed"}
  /\ at \in 1 .. Len(ledgers) + 1
  /\ DOMAIN issuerKeys = {ledgers[m] : m \in 1 .. at - 1}
  /\ DOMAIN answered = DOMAIN issuerKeys

\* No ledger behind the loop is there twice.
NoneTwice ==
  \A a, b \in 1 .. at - 1 : ledgers[a] = ledgers[b] => a = b

\* The keys of each ledger are those of the JWKS it answered with.
AnswersListed ==
  \A x \in DOMAIN answered :
    /\ answered[x] \in JWKSets[Endpoint(x)]
    /\ JWKSetOK(answered[x])
    /\ issuerKeys[x] = KeyList(answered[x])

\* What the file holds: what it held before, the list, or a part of the list.
FileIsKnown ==
  IF pc = "written"
    THEN /\ file = [ttl |-> TTLPayload]
         /\ Encodes
         /\ at > Len(ledgers)
         /\ ledgers # <<>>
    ELSE file \in Files \cup {Malformed}

\* What was printed is the file's list, in some order of Go's maps.
DumpIsARendering ==
  /\ dump.status # "none" => Ended
  /\ dump.status = "printed" =>
       /\ Dumps
       /\ \E met \in Orders(ParsedTTLFile(file)) :
            dump.jwks = Rendering(ParsedTTLFile(file), met)

IInv ==
  /\ ledgers \in LedgerLists
  /\ TypeOK
  /\ NoneTwice
  /\ AnswersListed
  /\ FileIsKnown
  /\ DumpIsARendering

\* What check would have fetched, without the keys that have no key ID.
Nameable(set) == Restrict(KeyMap(set), DOMAIN KeyMap(set) \ {EmptyKid})

\* What ttl-from-ledger wrote is what check and dump-ttl read back: each
\* ledger's own keys, as check would have fetched them at that moment, short of
\* those without a key ID; and where a ledger has no other keys, the list as a
\* whole cannot be read (ccf_keyfetch.go:118-187 against keyset.go:16-97).
WrittenReadsBack ==
  pc = "written" =>
    /\ TTLFileOK(file) <=> \A x \in DOMAIN answered :
                             DOMAIN Nameable(answered[x]) # {}
    /\ TTLFileOK(file) =>
         ParsedTTLFile(file) = [x \in DOMAIN answered |-> Nameable(answered[x])]

\* The file is touched only when every ledger asked for, none of them twice,
\* has answered: a ledger that is down leaves the list of before, and no list
\* is written that lacks a ledger (main.go:734-749).
WholeOrUntouched ==
  [][file' # file =>
       /\ ledgers # <<>>
       /\ DOMAIN answered = {ledgers[m] : m \in DOMAIN ledgers}
       /\ IsInjective(ledgers)]_vars

\* What dump-ttl prints is a JWKS per ledger that stands for the list read,
\* sorted by kid: the same for every order of Go's maps (jwks.go:86-104).
DumpIsTheList ==
  dump.status = "printed" =>
    /\ DOMAIN dump.jwks = DOMAIN ParsedTTLFile(file)
    /\ \A x \in DOMAIN dump.jwks :
         LET set == dump.jwks[x]
         IN  /\ JWKSetOK(set)
             /\ KeyMap(set) = ParsedTTLFile(file)[x]
             /\ \A a, b \in DOMAIN set : a < b => set[a].kid < set[b].kid
=============================================================================
