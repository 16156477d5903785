------------------------------- MODULE Tools -------------------------------
(***************************************************************************)
(* The commands that write: create, attach_receipt, leaf, chain and        *)
(* did-x509, run one after the other over files they share.  A write may   *)
(* fail and leave the old file or a part of the new one.                   *)
(*                                                                         *)
(* A file is NoFile, Malformed, an envelope [sign1, tagged], or a PEM file *)
(* [blocks, text]: its blocks, and whether any text follows the last one.  *)
(* A block has a type and the DER in it, a sequence of no or one item,     *)
(* where an item that is no certificate is Malformed.                      *)
(***************************************************************************)
EXTENDS Envelope, GoMap

CONSTANTS
  Paths,
  NoFile,
  FileSystems,   \* what the files may hold at first
  Commands,      \* command lines: [name, ...]
  MaxCommands    \* bound: how many commands are run

IsX5Chain(v) ==
  /\ IsMap(v)
  /\ \/ DOMAIN v = {"single"}
     \/ DOMAIN v = {"array"} /\ v.array \in Seq(Range(v.array))

IsEnvelopeFile(file) ==
  LET env == file.sign1
  IN  /\ file = [sign1 |-> env, tagged |-> file.tagged]
      /\ env = [protected |-> env.protected, unprotected |-> env.unprotected,
                payload |-> env.payload, signature |-> env.signature]
      /\ "x5chain" \in DOMAIN env.protected /\ env.protected.x5chain # Malformed
           => IsX5Chain(env.protected.x5chain)

IsPemFile(file) ==
  /\ file = [blocks |-> file.blocks, text |-> file.text]
  /\ file.blocks \in Seq(Range(file.blocks))
  /\ \A b \in Range(file.blocks) : b.der \in Seq(Range(b.der))

\* What a path may hold: nothing, bytes of no kind, or a file of a known kind.
IsFile(file) ==
  \/ file \in {NoFile, Malformed}
  \/ DOMAIN file = {"sign1", "tagged"} /\ IsEnvelopeFile(file)
  \/ DOMAIN file = {"blocks", "text"} /\ IsPemFile(file)
  \/ DOMAIN file \in {{"key"}, {"cert"}}

IsPem(file) == file \notin {NoFile, Malformed} /\ "blocks" \in DOMAIN file

IsSign1(file) == file \notin {NoFile, Malformed} /\ "sign1" \in DOMAIN file

\* Signed as a create on one of the command lines would sign it.
SignedByCreate(env) ==
  \E c \in Commands :
    /\ c.name = "create"
    /\ env.signature = Sign(c.key, c.alg, env.protected, c.payload)

\* An unprotected header that does not decode makes bytes of no kind; and what
\* create is going to sign is not there before without its tag.
Decodes(file) ==
  IsSign1(file) =>
    /\ IsMap(file.sign1.unprotected)
    /\ ~file.tagged => ~SignedByCreate(file.sign1)

ASSUME FileSystemsAssumption ==
  \A f \in FileSystems :
    /\ IsMap(f)
    /\ DOMAIN f = Paths
    /\ \A p \in Paths : IsFile(f[p]) /\ Decodes(f[p])

\* The files a command reads and writes; and create's payload is the content of
\* a file, which is never nil.
ASSUME CommandsAssumption ==
  \A c \in Commands :
    /\ c.name \in {"create", "attach_receipt", "chain"} => c.out \in Paths
    /\ c.name \in {"attach_receipt", "leaf", "chain"} => c.in \in Paths
    /\ c.name = "leaf" => {c.keyout, c.certout} \subseteq Paths
    /\ c.name = "create" => c.chain \in Paths /\ c.payload # Nil

ASSUME MaxCommandsAssumption == MaxCommands \in Nat

VARIABLES
  fs,        \* path -> file
  cmd,       \* the command line of the command that runs, or ran last
  stage,     \* where it is, or how it ended
  rest,      \* what create has not decoded of the chain file
  der,       \* the certificates the command has in memory
  started,   \* how many commands have been run
  wrote,     \* history: the files the last command wrote as it meant to
  made,      \* history: the envelopes signed by create, with key and chain
  dids       \* history: the DIDs printed by did-x509, with the chain

work == <<rest, der>>
history == <<made, dids>>
vars == <<fs, cmd, stage, work, started, wrote, history>>

Ends == {"ok", "error", "panic"}

NoText == [blocks |-> <<>>, text |-> FALSE]

\* go-cose takes tagged envelopes only.
EnvelopeOf(file) ==
  IF IsSign1(file) /\ file.tagged /\ file.sign1.unprotected # Malformed
    THEN file.sign1
    ELSE Malformed

Init ==
  /\ fs \in FileSystems
  /\ cmd = [name |-> "none"]
  /\ stage = "ok"
  /\ rest = NoText
  /\ der = <<>>
  /\ started = 0
  /\ wrote = {}
  /\ made = {}
  /\ dids = {}

Start ==
  /\ stage \in Ends
  /\ started < MaxCommands
  /\ cmd' \in Commands
  /\ stage' = "start"
  /\ started' = started + 1
  /\ wrote' = {}
  /\ rest' = NoText
  /\ der' = <<>>
  /\ UNCHANGED <<fs, history>>

End(how) ==
  /\ stage' = how
  /\ UNCHANGED <<fs, cmd, work, started, wrote>>

Running(name) == stage = "start" /\ cmd.name = name

\* What is left of a file when writing it fails half-way: of a PEM file the
\* first blocks, with or without the beginning of another.
Parts(file) ==
  IF IsPem(file)
    THEN {[blocks |-> SubSeq(file.blocks, 1, m), text |-> t] :
            m \in 0 .. Len(file.blocks) - 1, t \in BOOLEAN}
    ELSE {Malformed}

\* os.WriteFile, with what follows when it succeeds and when it fails.
WriteFile(path, file, success, failure) ==
  /\ \/ fs' = [fs EXCEPT ![path] = file] /\ stage' = success
        /\ wrote' = wrote \cup {path}
     \/ fs' \in {[fs EXCEPT ![path] = part] : part \in Parts(file) \cup {fs[path]}}
        /\ stage' = failure /\ UNCHANGED wrote
  /\ UNCHANGED <<cmd, rest, started>>

-----------------------------------------------------------------------------
\* create: the algorithm is known, the key parses in one of three formats, the
\* chain file begins with a block, and the loop of pem2der goes over the blocks
\* behind it.
Chain == fs[cmd.chain]

\* r = append(r, block.Bytes...)
Grown(bytes, block) == bytes \o block.der

\* The DER in the first m blocks of a file, one after the other.
Ders(blocks) ==
  LET D[m \in 0 .. Len(blocks)] ==
        IF m = 0 THEN <<>> ELSE Grown(D[m - 1], blocks[m])
  IN  D

DerOf(file) == Ders(file.blocks)[Len(file.blocks)]

\* StringToAlgorithm knows the name.
AlgorithmKnown == cmd.alg # Malformed

Begins ==
  /\ AlgorithmKnown
  /\ cmd.key # Malformed
  /\ IsPem(Chain)
  /\ Chain.blocks # <<>>

RejectCreate ==
  /\ Running("create")
  /\ ~Begins
  /\ End("error")
  /\ UNCHANGED history

FirstBlock ==
  /\ Running("create")
  /\ Begins
  /\ der' = Head(Chain.blocks).der
  /\ rest' = [Chain EXCEPT !.blocks = Tail(@)]
  /\ stage' = "pem"
  /\ UNCHANGED <<fs, cmd, started, wrote, history>>

\* Mutant: the rest of the input is not taken over.
NextBlock_Stays ==
  /\ stage = "pem"
  /\ rest.blocks # <<>>
  /\ der' = Head(rest.blocks).der
  /\ UNCHANGED <<fs, cmd, stage, rest, started, wrote, history>>

\* Mutant: every block replaces the ones before it.
NextBlock_KeepsLast ==
  /\ stage = "pem"
  /\ rest.blocks # <<>>
  /\ der' = Head(rest.blocks).der
  /\ rest' = [rest EXCEPT !.blocks = Tail(@)]
  /\ UNCHANGED <<fs, cmd, stage, started, wrote, history>>

NextBlock ==
  /\ stage = "pem"
  /\ rest.blocks # <<>>
  /\ der' = Grown(der, Head(rest.blocks))
  /\ rest' = [rest EXCEPT !.blocks = Tail(@)]
  /\ UNCHANGED <<fs, cmd, stage, started, wrote, history>>

Spinning == stage = "pem" /\ rest.blocks = <<>> /\ rest.text

\* pem.Decode finds no block and gives all of its input back.
Spin == Spinning /\ UNCHANGED vars

\* Mutant: the blocks behind the first are not waited for.
AllDecoded_FirstOnly == stage = "pem"

AllDecoded == stage = "pem" /\ rest = NoText

\* The debug line about the leaf takes the first of no certificates.
PanicNoLeaf ==
  /\ AllDecoded
  /\ der = <<>>
  /\ End("panic")
  /\ UNCHANGED history

SignerOK == Malformed \notin Range(der) /\ cmd.alg \in VerifierAlgs[cmd.key]

RejectChain ==
  /\ AllDecoded
  /\ der # <<>>
  /\ ~SignerOK
  /\ End("error")
  /\ UNCHANGED history

\* Mutant: a single certificate goes into the header as it is, undecorated.
CreatedHeader_Leaf(issuer) ==
  LET base == [alg |-> cmd.alg, x5chain |-> [single |-> Head(der)]]
  IN  IF issuer = Empty THEN base ELSE Assign(base, "iss", issuer)

\* x5chain is an array even of one; no issuer, no label.
CreatedHeader(issuer) ==
  LET base == [alg |-> cmd.alg, x5chain |-> [array |-> der]]
  IN  IF issuer = Empty THEN base ELSE Assign(base, "iss", issuer)

CreatedEnvelope(issuer) ==
  LET protected == CreatedHeader(issuer)
  IN  [protected |-> protected, unprotected |-> <<>>, payload |-> cmd.payload,
       signature |-> Sign(cmd.key, cmd.alg, protected, cmd.payload)]

\* The -issuer is none, or a DID the user was shown.
CreateSigned ==
  /\ AllDecoded
  /\ der # <<>>
  /\ SignerOK
  /\ \E issuer \in {Empty} \cup {d.did : d \in dids} :
       LET env == CreatedEnvelope(issuer)
       IN  /\ WriteFile(cmd.out, [sign1 |-> env, tagged |-> TRUE], "ok", "error")
           /\ made' = made \cup {[env |-> env, issuer |-> issuer,
                                 key |-> cmd.key, chain |-> DerOf(Chain)]}
  /\ UNCHANGED <<der, dids>>

-----------------------------------------------------------------------------
\* attach_receipt: fxamacker/cbor decodes a label above zero as uint64, and
\* the new label is an int64; encoded, both are the same label.
Decoded(unprotected) ==
  [label \in {<<"uint64", x>> : x \in DOMAIN unprotected} |->
     unprotected[label[2]]]

Encoded(map) ==
  IF \E a, b \in DOMAIN map : a # b /\ a[2] = b[2] THEN Malformed
  ELSE [x \in {label[2] : label \in DOMAIN map} |->
          map[CHOOSE label \in DOMAIN map : label[2] = x]]

BothLabels == {<<"int64", "receipts">>, <<"uint64", "receipts">>}

\* Mutant: only the label of the type that is set is deleted.
Replaced_Int64Only(unprotected, receipts) ==
  Encoded(Assign(Decoded(unprotected), <<"int64", "receipts">>, receipts))

Replaced(unprotected, receipts) ==
  LET map == Decoded(unprotected)
  IN  Encoded(Assign([label \in DOMAIN map \ BothLabels |-> map[label]],
                     <<"int64", "receipts">>, receipts))

\* The donor's receipts, Malformed when there are none to take.
Donated(file) ==
  IF ~IsSign1(file) THEN Malformed
  ELSE IF "receipts" \notin DOMAIN file.sign1.unprotected THEN Malformed
  ELSE IF file.sign1.unprotected.receipts = <<>> THEN Malformed
  ELSE file.sign1.unprotected.receipts

Receipts == IF cmd.donor # NoFile THEN Donated(fs[cmd.donor]) ELSE <<cmd.receipt>>

Attaches == IsSign1(fs[cmd.in]) /\ Receipts # Malformed

Attached(file) ==
  [file EXCEPT !.sign1.unprotected = Replaced(@, Receipts)]

Attach ==
  /\ Running("attach_receipt")
  /\ Attaches
  /\ WriteFile(cmd.out, Attached(fs[cmd.in]), "ok", "error")
  /\ UNCHANGED <<der, history>>

RejectAttach ==
  /\ Running("attach_receipt")
  /\ ~Attaches
  /\ End("error")
  /\ UNCHANGED history

-----------------------------------------------------------------------------
In == EnvelopeOf(fs[cmd.in])

\* leaf: checkCoseSign1 without options, then two writes; what goes wrong with
\* the first is printed, and the error made of it is dropped.
LeafKeyOut ==
  /\ Running("leaf")
  /\ UnpackOK(In)
  /\ WriteFile(cmd.keyout, [key |-> LeafKey(In)], "cert", "cert")
  /\ der' = X5Chain(In)
  /\ UNCHANGED history

\* Mutant: the certificate is taken from the other end of the chain.
LeafCertOut_Root ==
  /\ stage = "cert"
  /\ WriteFile(cmd.certout, [cert |-> der[Len(der)]], "ok", "error")
  /\ UNCHANGED <<der, history>>

LeafCertOut ==
  /\ stage = "cert"
  /\ WriteFile(cmd.certout, [cert |-> Head(der)], "ok", "error")
  /\ UNCHANGED <<der, history>>

RejectLeaf ==
  /\ Running("leaf")
  /\ ~UnpackOK(In)
  /\ End("error")
  /\ UNCHANGED history

\* chain: no signature is checked, and the x5chain must be an array.
PemChainOK ==
  /\ In # Malformed
  /\ "x5chain" \in DOMAIN In.protected
  /\ In.protected.x5chain # Malformed
  /\ "array" \in DOMAIN In.protected.x5chain
  /\ Malformed \notin Range(X5Chain(In))

\* Mutant: every block is followed by a blank line.
Pem_BlankLine(chain) ==
  [blocks |-> [m \in DOMAIN chain |->
                 [type |-> "CERTIFICATE", der |-> <<chain[m]>>]],
   text |-> TRUE]

Pem(chain) ==
  [blocks |-> [m \in DOMAIN chain |->
                 [type |-> "CERTIFICATE", der |-> <<chain[m]>>]],
   text |-> FALSE]

WriteChain ==
  /\ Running("chain")
  /\ PemChainOK
  /\ WriteFile(cmd.out, Pem(X5Chain(In)), "ok", "error")
  /\ UNCHANGED <<der, history>>

RejectWriteChain ==
  /\ Running("chain")
  /\ ~PemChainOK
  /\ End("error")
  /\ UNCHANGED history

-----------------------------------------------------------------------------
\* did-x509: parsePemChain takes CERTIFICATE blocks only, and all of them must
\* parse.
CertificateBlocks(file) ==
  IF IsPem(file) THEN SelectSeq(file.blocks, LAMBDA b : b.type = "CERTIFICATE")
  ELSE <<>>

PemParses(file) ==
  IsPem(file) =>
    \A b \in Range(file.blocks) :
      b.type = "CERTIFICATE" => b.der # <<>> /\ b.der[1] # Malformed

DidChain ==
  IF cmd.in # NoFile THEN X5Chain(In)
  ELSE LET blocks == CertificateBlocks(Chain)
       IN  [m \in DOMAIN blocks |-> blocks[m].der[1]]

DidSource ==
  IF cmd.in # NoFile THEN cmd.chain = NoFile /\ UnpackOK(In)
  ELSE cmd.chain # NoFile /\ Chain # NoFile /\ PemParses(Chain)

\* did:x509 with the fingerprint of the certificate at the index (counted from
\* 0) and the subject of the leaf.
Did == [ca |-> DidChain[cmd.index + 1], leaf |-> DidChain[1].name]

\* The fingerprint algorithm and the policy are ones it knows how to name, and
\* the DID is resolved against its own chain before it is printed.
MakesDid ==
  /\ DidSource
  /\ cmd.policy # Malformed
  /\ cmd.index >= 1
  /\ DidChain # <<>>
  /\ cmd.index <= Len(DidChain) - 1
  /\ <<DidChain, Did>> \in DidMatches

PrintDid ==
  /\ Running("did-x509")
  /\ MakesDid
  /\ dids' = dids \cup {[did |-> Did, chain |-> DidChain]}
  /\ End("ok")
  /\ UNCHANGED made

RejectDid ==
  /\ Running("did-x509")
  /\ ~MakesDid
  /\ End("error")
  /\ UNCHANGED history

Step ==
  \/ RejectCreate \/ FirstBlock \/ NextBlock \/ Spin \/ PanicNoLeaf
  \/ RejectChain \/ CreateSigned
  \/ Attach \/ RejectAttach
  \/ LeafKeyOut \/ LeafCertOut \/ RejectLeaf
  \/ WriteChain \/ RejectWriteChain
  \/ PrintDid \/ RejectDid

Done == stage \in Ends /\ started = MaxCommands /\ UNCHANGED vars

Next == Start \/ Step \/ Done

\* A command that runs goes on.
Spec == Init /\ [][Next]_vars /\ WF_vars(Step)

-----------------------------------------------------------------------------
\* A file is of a known kind; what is left of a chain is there only while
\* create decodes it; no more commands ran than the bound.
TypeOK ==
  /\ \A p \in Paths : IsFile(fs[p])
  /\ stage \in Ends \cup {"start", "pem", "cert"}
  /\ rest # NoText => stage = "pem" /\ cmd.name = "create"
  /\ started \in 0 .. MaxCommands
  /\ wrote \subseteq Paths

\* Whether check will take what create signs: the key on the command line is
\* the leaf's and the chain leads from it to its root, neither of which create
\* looks at.
Sound(m) ==
  /\ m.key = Head(m.chain).key
  /\ Len(m.chain) \in 1 .. MaxChain
  /\ Len(m.chain) > 1 => m.chain \in ValidChains

\* An envelope that create made is found good exactly if it was signed with the
\* leaf's key under a valid chain, after any sequence of attach_receipt that
\* puts well-formed receipts on it (create.go:46-143, attach_receipt 93-117,
\* check.go:160-306).
CreatedChecks ==
  \A p \in Paths, m \in made :
    IsSign1(fs[p]) /\ DataHash(fs[p].sign1) = DataHash(m.env) =>
      /\ EnvelopeOf(fs[p]) # Malformed
      /\ UnpackOK(EnvelopeOf(fs[p])) <=>
           (Sound(m) /\ ReceiptsParse(EnvelopeOf(fs[p])))

\* attach_receipt changes what is attached and nothing else: the statement, its
\* signature and tag stay, the receipts are exactly those given, and check's
\* verdict on the rest of the envelope is what it was
\* (attach_receipt/main.go:93-117).
AttachKeepsStatement ==
  [][Attach /\ cmd.out \in wrote' =>
       LET before == fs[cmd.in]
           after == fs'[cmd.out]
           bare == [EnvelopeOf(before) EXCEPT !.unprotected = <<>>]
       IN  /\ DataHash(after.sign1) = DataHash(before.sign1)
           /\ EnvelopeOf(after) = Malformed <=> EnvelopeOf(before) = Malformed
           /\ EnvelopeOf(after) # Malformed =>
                /\ EnvelopeOf(after).unprotected.receipts = Receipts
                /\ UnpackOK(EnvelopeOf(after)) <=>
                     (UnpackOK(bare) /\ ReceiptsParse(EnvelopeOf(after)))]_vars

\* An issuer that did-x509 made from a chain, given to create with that chain
\* and its leaf's key, is one that check resolves against the envelope: both
\* agree on label, order and index (create.go:129-131, makedidx509.go:51-107,
\* main.go:468-474).
PrintedDidsResolve ==
  \A d \in dids, m \in made :
    m.issuer = d.did /\ m.chain = d.chain =>
      /\ EnvelopeIssuer(m.env) = d.did
      /\ <<X5Chain(m.env), d.did>> \in DidMatches

\* When leaf succeeds, the certificate it wrote is the signer's, and the key it
\* wrote, if it could be written, is that certificate's (main.go:545-581).
LeafIsTheSigner ==
  /\ stage = "ok"
  /\ cmd.name = "leaf"
  /\ cmd.in \notin {cmd.keyout, cmd.certout}
  /\ cmd.keyout # cmd.certout
  =>
  /\ cmd.certout \in wrote
  /\ In.signature.key = fs[cmd.certout].cert.key
  /\ cmd.keyout \in wrote => fs[cmd.keyout].key = In.signature.key

\* Which command is where, and that it has written nothing before it starts.
InStep ==
  /\ fs = [p \in Paths |-> fs[p]]
  /\ cmd \in Commands \cup {[name |-> "none"]}
  /\ stage = "pem" => cmd.name = "create"
  /\ stage = "cert" => cmd.name = "leaf"
  /\ stage = "start" => wrote = {}

\* Between its two writes leaf still has the envelope it read.
BetweenWrites ==
  stage = "cert" /\ cmd.in \notin {cmd.keyout, cmd.certout} =>
    /\ UnpackOK(In)
    /\ der = X5Chain(In)
    /\ cmd.keyout \in wrote => fs[cmd.keyout] = [key |-> LeafKey(In)]

\* Blocks decoded and blocks left are the blocks of the chain file.
InLoop ==
  stage = "pem" =>
    /\ Begins
    /\ rest = [blocks |-> rest.blocks, text |-> Chain.text]
    /\ \E n \in 1 .. Len(Chain.blocks) :
         /\ der = Ders(Chain.blocks)[n]
         /\ rest.blocks = SubSeq(Chain.blocks, n + 1, Len(Chain.blocks))

\* What create signed, with which key, and what is in the header.
MadeAsTold ==
  \A m \in made :
    LET header == m.env.protected
    IN  /\ {"alg", "x5chain"} \subseteq DOMAIN header
        /\ "cwt" \notin DOMAIN header
        /\ header.alg # Malformed
        /\ header.alg \in VerifierAlgs[m.key]
        /\ header.x5chain = [array |-> m.chain]
        /\ m.chain \in Seq(Range(m.chain)) /\ m.chain # <<>>
        /\ Malformed \notin Range(m.chain)
        /\ m.env.payload # Nil
        /\ m.env.signature = Sign(m.key, header.alg, header, m.env.payload)
        /\ SignedByCreate(m.env)
        /\ EnvelopeIssuer(m.env) = m.issuer

\* A DID was resolved before it was printed.
DidsMatch ==
  \A d \in dids : IsMap(d.did) /\ <<d.chain, d.did>> \in DidMatches

CoreInv ==
  /\ TypeOK
  /\ InStep
  /\ BetweenWrites
  /\ LeafIsTheSigner
  /\ \A p \in Paths : Decodes(fs[p])
  /\ InLoop

IInv == CoreInv /\ MadeAsTold /\ DidsMatch

\* chain refuses no envelope that check takes, but for an x5chain that is one
\* certificate and no array; and what it writes is the chain check went by, in a
\* form that create and did-x509 can read to the end (misc.go:106-144).
ChainAgreesWithCheck ==
  [][/\ RejectWriteChain /\ UnpackOK(In) =>
          "single" \in DOMAIN In.protected.x5chain
     /\ WriteChain /\ cmd.out \in wrote' =>
          /\ DerOf(fs'[cmd.out]) = X5Chain(In)
          /\ PemParses(fs'[cmd.out])
          /\ ~fs'[cmd.out].text]_vars

\* Every command ends with a result or an error, but for create when its chain
\* file has text behind the last block, or no DER in any block
\* (create.go:16-30, 84-88).
CommandsEnd ==
  stage \notin Ends ~>
    \/ stage \in {"ok", "error"}
    \/ cmd.name = "create" /\ IsPem(Chain) /\ (Chain.text \/ DerOf(Chain) = <<>>)

\* "CreateCoseSign1 returns a COSE Sign1 document as an array of bytes"
\* (create.go:32), or an error.
CreateReturns == stage = "pem" ~> stage \in Ends

\* "This command allows extracting that key from a given COSE Sign1 document."
\* (cmd/sign1util/README.md:44)
LeafExtractsKey ==
  stage = "ok" /\ cmd.name = "leaf" => cmd.keyout \in wrote
=============================================================================
