---------------------------- MODULE ReceiptKeys ----------------------------
(***************************************************************************)
(* fetchCCFReceiptKeys and fetchIssuerJWKS (ccf_keyfetch.go): the key map  *)
(* a command validates receipts with, collected issuer by issuer from a    *)
(* Transparency Trust List or over the network.  Between the GETs, and     *)
(* between a GET and its answer, the ledgers may publish other keys; a GET *)
(* may fail at any time, at the latest after the client's ten seconds.     *)
(***************************************************************************)
EXTENDS Jwks, GoMap

CONSTANTS
  Calls,         \* arguments: [receipts, allowed, preloaded]
  NoIssuer,      \* the empty string
  Endpoints,     \* the [host, port] where a ledger serves a JWKS
  JWKSets,       \* endpoint -> the JWKSs it may publish: sequences of [kid, key]
  MaxRotations   \* bound: how often the ledgers change their keys

\* The receipts are a slice.
ASSUME CallsAssumption ==
  \A c \in Calls : c.receipts \in Seq(Range(c.receipts))

VARIABLES
  args,       \* the arguments of the call
  call,       \* where it is
  n,          \* index of the receipt the loop is at
  seen,       \* the issuers the loop has met
  keys,       \* the kid -> public key map it builds
  err,        \* which error it returned
  dialled,    \* history: the issuers whose JWKS was asked for, in order
  got,        \* history: issuer -> the key map merged or refused for it
  published,  \* endpoint -> the JWKS it serves at the moment
  rotations   \* how often a JWKS has changed

callVars == <<args, call, n, seen, keys, err, dialled, got>>
vars == <<callVars, published, rotations>>

NoErr == "none"
Errors == {"no issuer", "not allowed", "GET", "JWKS", "conflict"}

Issuer == args.receipts[n].issuer

-----------------------------------------------------------------------------
Idle ==
  /\ n = 1
  /\ seen = {}
  /\ keys = <<>>
  /\ err = NoErr
  /\ dialled = <<>>
  /\ got = <<>>
  /\ published \in [Endpoints -> UNION Range(JWKSets)]
  /\ \A e \in Endpoints : published[e] \in JWKSets[e]
  /\ rotations = 0

Init ==
  /\ args \in Calls
  /\ call = "loop"
  /\ Idle

Fail(e) ==
  /\ call' = "failed"
  /\ err' = e

\* Mutant: a later issuer's key replaces an earlier one of the same kid.
Merge_Overwrites(issuerKeys) ==
  /\ keys' = AssignAll(keys, issuerKeys)
  /\ n' = n + 1
  /\ call' = "loop"
  /\ UNCHANGED err

\* The key map of the current issuer joins the others, or one of its kids is
\* there already.
Merge(issuerKeys) ==
  /\ DOMAIN issuerKeys \cap DOMAIN keys = {}
  /\ keys' = AssignAll(keys, issuerKeys)
  /\ n' = n + 1
  /\ call' = "loop"
  /\ UNCHANGED err

Conflict(issuerKeys) ==
  /\ DOMAIN issuerKeys \cap DOMAIN keys # {}
  /\ Fail("conflict")
  /\ UNCHANGED <<n, keys>>

Take(issuerKeys) ==
  /\ got' = Assign(got, Issuer, issuerKeys)
  /\ Merge(issuerKeys) \/ Conflict(issuerKeys)

AtReceipt == call = "loop" /\ n <= Len(args.receipts)

RejectNoIssuer ==
  /\ AtReceipt
  /\ Issuer = NoIssuer
  /\ Fail("no issuer")
  /\ UNCHANGED <<args, n, seen, keys, dialled, got, published, rotations>>

\* Mutant: an issuer counts as seen when its host was, in any spelling.
SkipSeen_ByHost ==
  /\ AtReceipt
  /\ Issuer # NoIssuer
  /\ \E s \in seen : Endpoint(s) = Endpoint(Issuer)
  /\ n' = n + 1
  /\ UNCHANGED <<args, call, seen, keys, err, dialled, got, published, rotations>>

\* Mutant: the loop stays at an issuer it has seen.
SkipSeen_Stays ==
  /\ AtReceipt
  /\ Issuer # NoIssuer
  /\ Issuer \in seen
  /\ UNCHANGED vars

SkipSeen ==
  /\ AtReceipt
  /\ Issuer # NoIssuer
  /\ Issuer \in seen
  /\ n' = n + 1
  /\ UNCHANGED <<args, call, seen, keys, err, dialled, got, published, rotations>>

\* Mutant: no issuer is ever remembered.
AtNewIssuer_Forgets == AtReceipt /\ Issuer # NoIssuer

AtNewIssuer == AtReceipt /\ Issuer # NoIssuer /\ Issuer \notin seen

\* Mutant: a preloaded issuer is not marked as seen.
UsePreloaded_Unmarked ==
  /\ AtNewIssuer
  /\ Issuer \in DOMAIN args.preloaded
  /\ Take(args.preloaded[Issuer])
  /\ UNCHANGED <<args, seen, dialled, published, rotations>>

UsePreloaded ==
  /\ AtNewIssuer
  /\ Issuer \in DOMAIN args.preloaded
  /\ seen' = seen \cup {Issuer}
  /\ Take(args.preloaded[Issuer])
  /\ UNCHANGED <<args, dialled, published, rotations>>

RejectIssuer ==
  /\ AtNewIssuer
  /\ Issuer \notin DOMAIN args.preloaded
  /\ ~Allowed(Issuer, args.allowed)
  /\ seen' = seen \cup {Issuer}
  /\ Fail("not allowed")
  /\ UNCHANGED <<args, n, keys, dialled, got, published, rotations>>

\* Mutant: the network is asked although the keys were preloaded.
Dial_IgnoresPreloaded ==
  /\ AtNewIssuer
  /\ Allowed(Issuer, args.allowed)
  /\ seen' = seen \cup {Issuer}
  /\ dialled' = Append(dialled, Issuer)
  /\ call' = "waiting"
  /\ UNCHANGED <<args, n, keys, err, got, published, rotations>>

Dial ==
  /\ AtNewIssuer
  /\ Issuer \notin DOMAIN args.preloaded
  /\ Allowed(Issuer, args.allowed)
  /\ seen' = seen \cup {Issuer}
  /\ dialled' = Append(dialled, Issuer)
  /\ call' = "waiting"
  /\ UNCHANGED <<args, n, keys, err, got, published, rotations>>

\* Status 200, a body below the limit, and the JSON of a key set in it.
Answer ==
  /\ call = "waiting"
  /\ Endpoint(Issuer) \in Endpoints
  /\ JWKSetOK(published[Endpoint(Issuer)])
  /\ Take(KeyMap(published[Endpoint(Issuer)]))
  /\ UNCHANGED <<args, seen, dialled, published, rotations>>

RejectAnswer ==
  /\ call = "waiting"
  /\ Endpoint(Issuer) \in Endpoints
  /\ ~JWKSetOK(published[Endpoint(Issuer)])
  /\ Fail("JWKS")
  /\ UNCHANGED <<args, n, seen, keys, dialled, got, published, rotations>>

\* No connection, the timeout, another status, a body too large or cut off.
GetFails ==
  /\ call = "waiting"
  /\ Fail("GET")
  /\ UNCHANGED <<args, n, seen, keys, dialled, got, published, rotations>>

Return ==
  /\ call = "loop"
  /\ n > Len(args.receipts)
  /\ call' = "returned"
  /\ UNCHANGED <<args, n, seen, keys, err, dialled, got, published, rotations>>

FetchStep ==
  \/ RejectNoIssuer \/ SkipSeen \/ UsePreloaded \/ RejectIssuer
  \/ Dial \/ Answer \/ RejectAnswer \/ GetFails \/ Return

\* A ledger rolls its keys over.
Rotate ==
  /\ rotations < MaxRotations
  /\ rotations' = rotations + 1
  /\ \E e \in Endpoints : \E set \in JWKSets[e] :
       /\ set # published[e]
       /\ published' = [published EXCEPT ![e] = set]
  /\ UNCHANGED callVars

Ended ==
  /\ call \in {"returned", "failed"}
  /\ UNCHANGED vars

Next == FetchStep \/ Rotate \/ Ended

Spec == Init /\ [][Next]_vars

\* The client's timeout ends every GET, so the call goes on.
FairSpec == Spec /\ WF_vars(FetchStep)

-----------------------------------------------------------------------------
IssuersOf(receipts) == {receipts[m].issuer : m \in DOMAIN receipts}

\* The loop index, the call's place and its error belong together; the issuers
\* asked for and answered are among those the loop has met.
TypeOK ==
  /\ call \in {"idle", "loop", "waiting", "returned", "failed"}
  /\ n \in 1 .. Len(args.receipts) + 1
  /\ err \in {NoErr} \cup Errors
  /\ call = "failed" <=> err # NoErr
  /\ call = "waiting" => n <= Len(args.receipts)
  /\ seen \subseteq IssuersOf(args.receipts)
  /\ DOMAIN got \subseteq seen
  /\ Range(dialled) \subseteq seen

\* The map that is returned has the keys of every receipt's issuer, all of one
\* snapshot, and every kid in it comes from exactly one of those issuers: the
\* receipts are validated with what their ledgers published, and nothing was
\* lost or replaced on the way (ccf_keyfetch.go:198-222).
ReturnedKeysAreTheIssuers ==
  call = "returned" =>
    /\ IssuersOf(args.receipts) = DOMAIN got
    /\ \A issuer \in DOMAIN got : \A kid \in DOMAIN got[issuer] :
         kid \in DOMAIN keys /\ keys[kid] = got[issuer][kid]
    /\ \A kid \in DOMAIN keys :
         \E issuer \in DOMAIN got :
           /\ kid \in DOMAIN got[issuer]
           /\ \A other \in DOMAIN got \ {issuer} : kid \notin DOMAIN got[other]

\* Once a kid is bound, to whatever key, no later issuer and no later answer
\* binds it to another (ccf_keyfetch.go:216-221).
KeysNeverRebound ==
  [][\A kid \in DOMAIN keys :
       kid \in DOMAIN keys' /\ keys'[kid] = keys[kid]]_vars

\* Nothing is asked of a host outside the allow list, nor of an issuer whose
\* keys were preloaded, nor of one that issued no receipt, and no issuer is
\* asked twice: a rotation during the call cannot mix two of its key sets
\* (ccf_keyfetch.go:202-215).
DialsAreDue ==
  /\ \A m \in DOMAIN dialled :
       /\ Allowed(dialled[m], args.allowed)
       /\ dialled[m] \notin DOMAIN args.preloaded
       /\ dialled[m] \in IssuersOf(args.receipts)
  /\ \A a, b \in DOMAIN dialled : dialled[a] = dialled[b] => a = b

\* Several receipts of one issuer never collide with each other: a conflict is
\* between the key sets of two different issuers.
ConflictsAreBetweenIssuers ==
  err = "conflict" =>
    \E a, b \in DOMAIN got :
      a # b /\ DOMAIN got[a] \cap DOMAIN got[b] # {}

\* The issuers of the receipts behind the loop index.
Before == {args.receipts[m].issuer : m \in 1 .. n - 1}

\* Every issuer behind the loop has been met and answered, and while a GET is
\* pending only its issuer is not answered yet.
MetIssuers ==
  /\ call \in {"loop", "returned"} => seen = Before /\ DOMAIN got = Before
  /\ call = "waiting" =>
       /\ Issuer \notin Before
       /\ seen = Before \cup {Issuer}
       /\ DOMAIN got = Before
  /\ call = "returned" => n = Len(args.receipts) + 1

\* The map is the disjoint union of what was collected.
KeysAreCollected ==
  call # "failed" =>
    /\ \A issuer \in DOMAIN got : \A kid \in DOMAIN got[issuer] :
         kid \in DOMAIN keys /\ keys[kid] = got[issuer][kid]
    /\ \A kid \in DOMAIN keys : \E issuer \in DOMAIN got :
         kid \in DOMAIN got[issuer]
    /\ \A a, b \in DOMAIN got :
         a # b => DOMAIN got[a] \cap DOMAIN got[b] = {}

\* The dials are issuers of the receipts.
DialledIssuers == dialled \in Seq(IssuersOf(args.receipts))

\* The receipts are a slice, whoever calls.
ReceiptsAreASlice == args.receipts \in Seq(Range(args.receipts))

IInv ==
  /\ ReceiptsAreASlice
  /\ TypeOK
  /\ MetIssuers
  /\ KeysAreCollected
  /\ DialledIssuers
  /\ DialsAreDue
  /\ ConflictsAreBetweenIssuers

\* The call ends, whatever the ledgers do.
Termination == <>(call \in {"returned", "failed"})

\* What the -require-receipt-from option relies on: its allow list is the
\* required issuer itself, so a plain host[:port] is not refused by it.
OwnDomainAllowed ==
  err = "not allowed" => ~(PlainHost(Issuer) /\ Issuer \in args.allowed)
=============================================================================
