---------------------------- MODULE CheckCommand ----------------------------
(***************************************************************************)
(* The commands that check an envelope (main.go): check, print and, with   *)
(* no option, leaf and did-x509 all go through checkCoseSign1.  It unpacks *)
(* the envelope, collects the keys of the receipt issuers (ReceiptKeys),   *)
(* validates receipts one by one (ReceiptValid) and resolves a DID, while  *)
(* the ledgers may roll their keys over.                                   *)
(***************************************************************************)
EXTENDS CommandLine, ReceiptKeys

VARIABLES
  cmd,    \* the command line, and what the files it names hold
  phase,  \* where the command is
  v       \* index of the receipt that is selected or validated next

commandVars == <<cmd, phase, v>>
allVars == <<vars, commandVars>>

\* Both are the empty string.
ASSUME NoIssuerAssumption == NoIssuer = Empty

\* The receipts of an envelope are an array.
ASSUME ArraysAssumption ==
  \A c \in Commands :
    /\ c.envelope # NoFile
    /\ UnpackOK(c.envelope)
    /\ "receipts" \in DOMAIN c.envelope.unprotected
    => c.envelope.unprotected.receipts
        \in Seq(Range(c.envelope.unprotected.receipts))

\* A ledger publishes its own keys only.
ASSUME LedgersAssumption ==
  \A e \in Endpoints : \A set \in JWKSets[e] : \A m \in DOMAIN set :
    set[m].key # UnknownKey =>
      set[m].key \in Keys /\ LedgerOf[set[m].key] = e

\* A trust list the user has, unsigned or in an envelope that checks, gives the
\* issuers their own keys.
ASSUME TrustListsAssumption ==
  \A c \in Commands :
    c.ttl # NoFile /\ c.ttl # Malformed =>
      LET ttl == IF "signed" \in DOMAIN c.ttl THEN c.ttl.signed.payload
                                              ELSE c.ttl.ttl
      IN  ("signed" \in DOMAIN c.ttl => UnpackOK(c.ttl.signed)) /\ TTLOK(ttl) =>
            \A x \in DOMAIN ttl : \A kid \in DOMAIN KeySetMap(ttl[x].keys) :
              LET key == KeySetMap(ttl[x].keys)[kid]
              IN  key \in Keys /\ LedgerOf[key] = Endpoint(x)

\* A ledger signs roots of its own tree, in its own name, and the receipts of
\* an envelope are decoded from CBOR.
ASSUME ReceiptsAssumption ==
  \A c \in Commands :
    c.envelope # NoFile /\ UnpackOK(c.envelope) =>
      \A r \in Range(ParsedReceipts(c.envelope)) :
        LET signature == r.message.signature
        IN  /\ Unforged(r)
            /\ signature.key \in Keys =>
                 LedgerOf[signature.key] = Endpoint(signature.protected.cwt.iss)
            /\ \A k \in Keys : DecodedArrays(r, [kid \in {r.kid} |-> k])

CommandInit ==
  /\ cmd \in Commands
  /\ phase = "ttl"
  /\ v = 1
  /\ args = [receipts |-> <<>>, allowed |-> {}, preloaded |-> <<>>]
  /\ call = "idle"
  /\ Idle

Goto(p) ==
  /\ phase' = p
  /\ UNCHANGED <<cmd, v, vars>>

LoadTTL ==
  /\ phase = "ttl"
  /\ TTLFileOK(cmd.ttl)
  /\ Goto("read")

RejectTTL ==
  /\ phase = "ttl"
  /\ ~TTLFileOK(cmd.ttl)
  /\ Goto("failed")

RejectEnvelope ==
  /\ phase = "read"
  /\ ~Unpacks(cmd)
  /\ Goto("failed")

BeginMatching ==
  /\ phase = "read"
  /\ Unpacks(cmd)
  /\ cmd.require # Empty
  /\ Attached(cmd) # <<>>
  /\ Goto("match")

AtAttached == phase = "match" /\ v <= Len(Attached(cmd))

\* args.receipts collects the matching ones before the call.
SelectReceipt ==
  /\ AtAttached
  /\ Attached(cmd)[v].issuer = cmd.require
  /\ args' = [args EXCEPT !.receipts = Append(@, Attached(cmd)[v])]
  /\ v' = v + 1
  /\ UNCHANGED <<cmd, phase, call, n, seen, keys, err, dialled, got, published,
                 rotations>>

IgnoreReceipt ==
  /\ AtAttached
  /\ Attached(cmd)[v].issuer # cmd.require
  /\ v' = v + 1
  /\ UNCHANGED <<cmd, phase, vars>>

AllMatched == phase = "match" /\ v > Len(Attached(cmd))

StartFetch(receipts, allowed) ==
  /\ args' = [receipts |-> receipts, allowed |-> allowed,
              preloaded |-> ParsedTTLFile(cmd.ttl)]
  /\ call' = "loop"
  /\ phase' = "fetch"
  /\ v' = 1
  /\ UNCHANGED <<cmd, n, seen, keys, err, dialled, got, published, rotations>>

RequireReceipts ==
  /\ AllMatched
  /\ args.receipts # <<>>
  /\ StartFetch(args.receipts, {cmd.require})

RejectNoneMatching ==
  /\ AllMatched
  /\ args.receipts = <<>>
  /\ Goto("failed")

\* Mutant: receipts are validated without having been asked for.
ValidateReceipts_Unasked ==
  /\ phase = "read"
  /\ Unpacks(cmd)
  /\ cmd.require = Empty
  /\ Attached(cmd) # <<>>
  /\ StartFetch(Attached(cmd), cmd.allowed)

ValidateReceipts ==
  /\ phase = "read"
  /\ Unpacks(cmd)
  /\ cmd.require = Empty
  /\ cmd.validate
  /\ Attached(cmd) # <<>>
  /\ StartFetch(Attached(cmd), cmd.allowed)

SkipReceipts ==
  /\ phase = "read"
  /\ Unpacks(cmd)
  /\ Attached(cmd) = <<>> \/ (cmd.require = Empty /\ ~cmd.validate)
  /\ Goto("did")

Fetch ==
  /\ phase = "fetch"
  /\ FetchStep
  /\ UNCHANGED commandVars

FetchFailed ==
  /\ phase = "fetch"
  /\ call = "failed"
  /\ Goto("failed")

\* Mutant: the validation starts before all keys are there.
FetchReturned_Early ==
  /\ phase = "fetch"
  /\ Goto("validate")

FetchReturned ==
  /\ phase = "fetch"
  /\ call = "returned"
  /\ Goto("validate")

\* Mutant: the loop stays at a receipt that is valid.
ValidateReceipt_Stays ==
  /\ phase = "validate"
  /\ v <= Len(args.receipts)
  /\ ReceiptValid(args.receipts[v], keys)
  /\ UNCHANGED allVars

ValidateReceipt ==
  /\ phase = "validate"
  /\ v <= Len(args.receipts)
  /\ ReceiptValid(args.receipts[v], keys)
  /\ v' = v + 1
  /\ UNCHANGED <<cmd, phase, vars>>

RejectReceipt ==
  /\ phase = "validate"
  /\ v <= Len(args.receipts)
  /\ ~ReceiptValid(args.receipts[v], keys)
  /\ Goto("failed")

\* Mutant: one valid receipt is enough.
AllValidated_First ==
  /\ phase = "validate"
  /\ v > 1
  /\ Goto("did")

AllValidated ==
  /\ phase = "validate"
  /\ v > Len(args.receipts)
  /\ Goto("did")

Pass ==
  /\ phase = "did"
  /\ DidResolves(cmd)
  /\ Goto("passed")

RejectDid ==
  /\ phase = "did"
  /\ ~DidResolves(cmd)
  /\ Goto("failed")

CommandStep ==
  \/ LoadTTL \/ RejectTTL \/ RejectEnvelope
  \/ BeginMatching \/ SelectReceipt \/ IgnoreReceipt
  \/ RequireReceipts \/ RejectNoneMatching \/ ValidateReceipts \/ SkipReceipts
  \/ Fetch \/ FetchFailed \/ FetchReturned
  \/ ValidateReceipt \/ RejectReceipt \/ AllValidated
  \/ Pass \/ RejectDid

LedgersRotate ==
  /\ Rotate
  /\ UNCHANGED commandVars

Exited ==
  /\ phase \in {"passed", "failed"}
  /\ UNCHANGED allVars

CommandNext == CommandStep \/ LedgersRotate \/ Exited

CommandSpec == CommandInit /\ [][CommandNext]_allVars

\* The command is one goroutine that only ever waits for a GET.
FairCommandSpec == CommandSpec /\ WF_allVars(CommandStep)

-----------------------------------------------------------------------------
\* The phase is one of the command's, the two loops stay in their sequence,
\* and a key collection is under way only in the phase that started it.
CommandTypeOK ==
  /\ phase \in {"ttl", "read", "match", "fetch", "validate", "did"}
        \cup {"passed", "failed"}
  /\ phase = "match" => v \in 1 .. Len(Attached(cmd)) + 1
  /\ phase \in {"fetch", "validate"} => v \in 1 .. Len(args.receipts) + 1
  /\ phase \in {"ttl", "read", "match"} => call = "idle"
  /\ phase = "fetch" => call # "idle"
  /\ phase = "validate" => call = "returned"

\* When -require-receipt-from passes an envelope that has receipts, the ledger
\* it names registered exactly this envelope: no receipt of another envelope or
\* ledger, and no rotation while the command runs, gets through
\* (main.go:130-161).
RequiredMeansRegistered ==
  phase = "passed" /\ cmd.require # Empty /\ Attached(cmd) # <<>> =>
    RegisteredAt(cmd, Endpoint(cmd.require))

\* When print -validate-receipts passes, every receipt's ledger registered the
\* envelope (main.go:162-174).
ValidatedMeansRegistered ==
  phase = "passed" /\ cmd.validate /\ cmd.require = Empty =>
    \A r \in Range(Attached(cmd)) : RegisteredAt(cmd, Endpoint(r.issuer))

\* Without an option that asks for it nothing is fetched; with
\* -require-receipt-from nothing from another host; and nothing before the
\* envelope's own signature and chain have been found good
\* (main.go:80-83, 117-121, 131-133).
FetchesAreAskedFor ==
  dialled # <<>> =>
    /\ cmd.require # Empty \/ cmd.validate
    /\ cmd.require # Empty => Range(dialled) = {cmd.require}
    /\ Unpacks(cmd)

\* A passing check ties the envelope to a DID: the issuer in it, or the one on
\* the command line, belongs to the chain whose leaf key signed it
\* (main.go:214-229, 468-474).
PassedMeansSignerNamed ==
  phase = "passed" /\ cmd.name = "check" /\ cmd.chain = NoFile =>
    LET did == IF cmd.did # Empty THEN cmd.did ELSE EnvelopeIssuer(cmd.envelope)
    IN  did # Empty =>
          \E pair \in DidMatches :
            /\ pair[2] = did
            /\ cmd.envelope.signature.key = Head(pair[1]).key
            /\ pair[1] = X5Chain(cmd.envelope)

\* A receipt that is valid under the keys of its own issuer is not rejected
\* because the keys of the other issuers are in the same map: collecting them
\* loses none and replaces none (ccf_keyfetch.go:216-221, main.go:168-174).
OwnKeysSuffice ==
  [][RejectReceipt =>
       LET r == args.receipts[v] IN ~ReceiptValid(r, got[r.issuer])]_allVars

\* From the command line to the verdict the steps do what CheckPolicy does in
\* one; in particular no order of the checks, no rotation and no failing GET
\* makes a command fail that the trust list settles (main.go:101-178, 438-476).
Policy == INSTANCE CheckPolicy
            WITH verdict <- IF phase \in {"passed", "failed"} THEN phase ELSE "none"
ImplementsPolicy == Policy!Spec

\* Before the key collection begins nothing has happened to its variables, but
\* for the receipts selected for it.
NothingCollected ==
  phase \in {"ttl", "read", "match"} =>
    /\ n = 1 /\ seen = {} /\ keys = <<>> /\ err = NoErr
    /\ dialled = <<>> /\ got = <<>>
    /\ args = [receipts |-> args.receipts, allowed |-> {}, preloaded |-> <<>>]
    /\ phase # "match" => v = 1 /\ args.receipts = <<>>

FilesRead ==
  /\ phase \notin {"ttl", "failed"} => TTLFileOK(cmd.ttl)
  /\ phase \notin {"ttl", "read", "failed"} => Unpacks(cmd)

\* The receipts selected are those of the issuer among the first ones.
Selecting ==
  phase = "match" =>
    /\ cmd.require # Empty
    /\ Attached(cmd) # <<>>
    /\ Range(args.receipts) =
         {Attached(cmd)[m] :
            m \in {x \in 1 .. v - 1 : Attached(cmd)[x].issuer = cmd.require}}

\* The keys are collected for the receipts to validate, each issuer's from the
\* list or else from its ledger, and only what the list does not settle fails.
Collecting ==
  phase \in {"fetch", "validate"} =>
    /\ phase = "fetch" => v = 1
    /\ Range(args.receipts) = ToValidate(cmd)
    /\ args.receipts # <<>>
    /\ args.preloaded = ParsedTTLFile(cmd.ttl)
    /\ cmd.require # Empty \/ cmd.validate
    /\ call = "waiting" => Issuer \notin DOMAIN args.preloaded
    /\ call = "failed" => ~Settled(cmd)
    /\ \A x \in DOMAIN got :
         IF x \in DOMAIN args.preloaded THEN got[x] = args.preloaded[x]
         ELSE /\ Endpoint(x) \in Endpoints
              /\ \E set \in JWKSets[Endpoint(x)] :
                   JWKSetOK(set) /\ got[x] = KeyMap(set)

LedgersPublish ==
  /\ published = [e \in Endpoints |-> published[e]]
  /\ \A e \in Endpoints : published[e] \in JWKSets[e]

ValidSoFar ==
  phase = "validate" =>
    \A m \in 1 .. v - 1 : ReceiptValid(args.receipts[m], keys)

Established ==
  /\ phase \in {"did", "passed"} =>
       /\ Proven(cmd)
       /\ cmd.require # Empty /\ Attached(cmd) # <<>> => ToValidate(cmd) # {}
  /\ phase = "passed" => DidResolves(cmd)

CommandInv ==
  /\ cmd \in Commands
  /\ CommandTypeOK
  /\ IInv
  /\ NothingCollected
  /\ FilesRead
  /\ Selecting
  /\ Collecting
  /\ LedgersPublish
  /\ ValidSoFar
  /\ Established
  /\ FetchesAreAskedFor

\* The command exits.
Exits == <>(phase \in {"passed", "failed"})

\* "requires that at least one receipt has its issuer exactly equal to this
\* domain" (main.go:90-91).
RequiredReceiptIsThere ==
  phase = "passed" /\ cmd.require # Empty =>
    \E r \in Range(Attached(cmd)) : r.issuer = cmd.require

\* "keys is a map of key IDs to public keys for this ledger" (check.go:348).
OnlyThisLedgersKeys ==
  phase = "validate" /\ v <= Len(args.receipts) =>
    DOMAIN keys \subseteq DOMAIN got[args.receipts[v].issuer]

\* "issuer and feed MUST be strings or not present" (check.go:22).
IssuerIsStringOrAbsent ==
  phase = "passed" =>
    LET claims == IF "cwt" \in DOMAIN cmd.envelope.protected
                    THEN cmd.envelope.protected.cwt ELSE cmd.envelope.protected
    IN  "iss" \in DOMAIN claims => claims.iss # Malformed
=============================================================================
