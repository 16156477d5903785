---------------------------- MODULE ToolsProofs ----------------------------
(***************************************************************************)
(* What create signs, what attach_receipt leaves alone, what chain and     *)
(* leaf write and what did-x509 prints: for all files, all command lines   *)
(* and every sequence of commands, whichever of their writes fails.        *)
(***************************************************************************)
EXTENDS Tools, InductionLemmas, TLAPS

\* The recursion that defines Ders has a solution.
LEMMA DersRecurrence ==
  ASSUME NEW blocks, Len(blocks) \in Nat
  PROVE  Ders(blocks) =
           [n \in 0 .. Len(blocks) |->
              IF n = 0 THEN <<>>
              ELSE Grown(Ders(blocks)[n - 1], blocks[n])]
<1> DEFINE
      UpTo(f, m) ==
        f = [n \in 0 .. m |->
               IF n = 0 THEN <<>> ELSE Grown(f[n - 1], blocks[n])]
      S == {m \in Nat : \E f : UpTo(f, m)}
<1>1. 0 \in S
  <2> DEFINE f == [n \in 0 .. 0 |-> <<>>]
  <2>1. UpTo(f, 0)
    OBVIOUS
  <2> QED
    BY <2>1
<1>2. ASSUME NEW m \in Nat, m \in S PROVE m + 1 \in S
  <2>1. PICK f : UpTo(f, m)
    BY <1>2
  <2> DEFINE g == [n \in 0 .. m + 1 |->
                     IF n = m + 1 THEN Grown(f[m], blocks[m + 1]) ELSE f[n]]
  <2>2. ASSUME NEW n \in 0 .. m + 1
        PROVE  g[n] = IF n = 0 THEN <<>> ELSE Grown(g[n - 1], blocks[n])
    <3>1. CASE n = 0
      BY <2>1, <3>1
    <3>2. CASE n \in 1 .. m
      BY <2>1, <3>2
    <3>3. CASE n = m + 1
      BY <3>3
    <3> QED
      BY <3>1, <3>2, <3>3
  <2>3. g = [n \in 0 .. m + 1 |-> g[n]]
    OBVIOUS
  <2> HIDE DEF g
  <2>4. UpTo(g, m + 1)
    BY <2>2, <2>3
  <2> QED
    BY <2>4
<1>3. Nat \subseteq S
  <2> HIDE DEF S
  <2> QED
    BY <1>1, <1>2, NatSetInduction
<1>4. \E f : UpTo(f, Len(blocks))
  BY <1>3
<1> QED
  BY <1>4 DEF Ders

\* The DER of the blocks, block after block.
LEMMA DersSteps ==
  ASSUME NEW blocks, blocks \in Seq(Range(blocks)),
         \A b \in Range(blocks) : b.der \in Seq(Range(b.der))
  PROVE  /\ Ders(blocks)[0] = <<>>
         /\ \A n \in 1 .. Len(blocks) :
              Ders(blocks)[n] = Grown(Ders(blocks)[n - 1], blocks[n])
         /\ \E S : \A n \in 0 .. Len(blocks) : Ders(blocks)[n] \in Seq(S)
<1> DEFINE N == Len(blocks)
           S == UNION {Range(b.der) : b \in Range(blocks)}
           H == Ders(blocks)
<1>1. N \in Nat
  OBVIOUS
<1>2. ASSUME NEW n \in 1 .. N PROVE blocks[n].der \in Seq(S)
  <2>1. blocks[n] \in Range(blocks)
    BY DEF Range
  <2>2. Range(blocks[n].der) \subseteq S
    BY <2>1
  <2> QED
    BY <2>1, <2>2
<1> HIDE DEF S
<1>3. <<>> \in Seq(S)
  OBVIOUS
<1>4. H = [m \in 0 .. N |-> IF m = 0 THEN <<>> ELSE Grown(H[m - 1], blocks[m])]
  BY <1>1, DersRecurrence
<1> HIDE DEF H, N
<1>5. H[0] = <<>> /\ \A n \in 1 .. N : H[n] = Grown(H[n - 1], blocks[n])
  BY <1>1, <1>4
<1> DEFINE I == {n \in Nat : n <= N => H[n] \in Seq(S)}
<1>6. 0 \in I
  BY <1>3, <1>5
<1>7. ASSUME NEW n \in Nat, n \in I PROVE n + 1 \in I
  <2> SUFFICES ASSUME n + 1 <= N PROVE H[n + 1] \in Seq(S)
    OBVIOUS
  <2>1. n + 1 \in 1 .. N /\ n + 1 - 1 = n /\ H[n] \in Seq(S)
    BY <1>1, <1>7
  <2>2. H[n + 1] = Grown(H[n], blocks[n + 1])
    BY <1>5, <2>1
  <2> QED
    BY <1>2, <2>1, <2>2 DEF Grown
<1>8. Nat \subseteq I
  <2> HIDE DEF I
  <2> QED
    BY <1>6, <1>7, NatSetInduction
<1> QED
  BY <1>5, <1>8 DEF H, N

\* What chain writes has the chain in it.
LEMMA PemHoldsChain ==
  ASSUME NEW chain, chain \in Seq(Range(chain))
  PROVE  /\ Pem(chain).blocks \in Seq(Range(Pem(chain).blocks))
         /\ \A b \in Range(Pem(chain).blocks) :
              /\ b.type = "CERTIFICATE"
              /\ b.der \in Seq(Range(b.der))
              /\ \E cert \in Range(chain) : b.der = <<cert>>
         /\ DerOf(Pem(chain)) = chain
<1> DEFINE blocks == Pem(chain).blocks
           N == Len(chain)
           H == Ders(blocks)
<1>1. /\ N \in Nat /\ DOMAIN chain = 1 .. N
      /\ blocks = [m \in 1 .. N |-> [type |-> "CERTIFICATE", der |-> <<chain[m]>>]]
  BY DEF Pem
<1>2. \A m \in 1 .. N : chain[m] \in Range(chain)
  BY <1>1 DEF Range
<1> HIDE DEF blocks
<1>3. blocks \in Seq(Range(blocks)) /\ Len(blocks) = N
  <2>1. \A m \in 1 .. N : blocks[m] \in Range(blocks)
    BY <1>1 DEF Range
  <2>2. blocks \in [1 .. N -> Range(blocks)]
    BY <1>1, <2>1
  <2> QED
    BY <1>1, <2>2
<1>4. ASSUME NEW b \in Range(blocks)
      PROVE  /\ b.type = "CERTIFICATE"
             /\ b.der \in Seq(Range(b.der))
             /\ \E cert \in Range(chain) : b.der = <<cert>>
  <2>1. PICK m \in 1 .. N : b = blocks[m]
    BY <1>1 DEF Range
  <2>2. b.type = "CERTIFICATE" /\ b.der = <<chain[m]>>
    BY <1>1, <2>1
  <2>3. chain[m] \in Range(b.der)
    BY <2>2 DEF Range
  <2> QED
    BY <1>2, <2>2, <2>3
<1>5. H[0] = <<>> /\ \A n \in 1 .. N : H[n] = Grown(H[n - 1], blocks[n])
  BY <1>3, <1>4, DersSteps
<1> HIDE DEF H
<1> DEFINE I == {n \in Nat : n <= N => H[n] = SubSeq(chain, 1, n)}
<1>6. 0 \in I
  <2>1. SubSeq(chain, 1, 0) = <<>>
    OBVIOUS
  <2> QED
    BY <1>5, <2>1
<1>7. ASSUME NEW n \in Nat, n \in I PROVE n + 1 \in I
  <2> SUFFICES ASSUME n + 1 <= N PROVE H[n + 1] = SubSeq(chain, 1, n + 1)
    OBVIOUS
  <2>1. n + 1 \in 1 .. N /\ n + 1 - 1 = n /\ H[n] = SubSeq(chain, 1, n)
    BY <1>1, <1>7
  <2>2. H[n + 1] = Grown(H[n], blocks[n + 1])
    <3>1. H[n + 1] = Grown(H[n + 1 - 1], blocks[n + 1])
      BY <1>5, <2>1
    <3> QED
      BY <2>1, <3>1
  <2>3. SubSeq(chain, 1, n) \o <<chain[n + 1]>> = SubSeq(chain, 1, n + 1)
    BY <1>1, <2>1
  <2>4. blocks[n + 1].der = <<chain[n + 1]>>
    BY <1>1, <2>1
  <2> QED
    BY <2>1, <2>2, <2>3, <2>4 DEF Grown
<1>8. Nat \subseteq I
  <2> HIDE DEF I
  <2> QED
    BY <1>6, <1>7, NatSetInduction
<1>9. H[N] = SubSeq(chain, 1, N)
  BY <1>1, <1>8
<1>10. SubSeq(chain, 1, N) = chain
  BY <1>1
<1>11. DerOf(Pem(chain)) = chain
  BY <1>3, <1>9, <1>10 DEF DerOf, H, blocks
<1> QED
  BY <1>3, <1>4, <1>11 DEF blocks
-----------------------------------------------------------------------------
\* A file with an envelope in it is an envelope file, one with blocks a PEM
\* file.
LEMMA FilesByKind ==
  ASSUME NEW file, IsFile(file)
  PROVE  /\ IsSign1(file) => IsEnvelopeFile(file)
         /\ IsPem(file) => IsPemFile(file)
  BY DEF IsFile, IsSign1, IsPem

\* What is left of a file when writing it fails is of its kind, or of none.
LEMMA PartsAreFiles ==
  ASSUME NEW file, IsFile(file), NEW part \in Parts(file)
  PROVE  IsFile(part) /\ Decodes(part)
<1>1. CASE ~IsPem(file)
  BY <1>1 DEF Parts, IsFile, Decodes, IsSign1
<1>2. CASE IsPem(file)
  <2> DEFINE all == file.blocks
  <2>1. /\ all \in Seq(Range(all))
        /\ \A b \in Range(all) : b.der \in Seq(Range(b.der))
    BY <1>2, FilesByKind DEF IsPemFile
  <2>2. PICK m \in 0 .. Len(all) - 1, t \in BOOLEAN :
          part = [blocks |-> SubSeq(all, 1, m), text |-> t]
    BY <1>2 DEF Parts
  <2> DEFINE some == SubSeq(all, 1, m)
  <2>3. /\ m \in Nat /\ m <= Len(all) /\ DOMAIN all = 1 .. Len(all)
        /\ some = [n \in 1 .. m |-> all[n]]
    BY <2>1
  <2>4. Range(some) \subseteq Range(all)
    BY <2>3 DEF Range
  <2>5. some \in Seq(Range(some))
    <3>1. \A n \in 1 .. m : some[n] \in Range(some)
      BY <2>3 DEF Range
    <3> HIDE DEF some
    <3>2. some \in [1 .. m -> Range(some)]
      BY <2>3, <3>1
    <3> QED
      BY <2>3, <3>2
  <2> HIDE DEF some
  <2>6. part = [blocks |-> some, text |-> t]
    BY <2>2 DEF some
  <2>7. IsPemFile(part)
    BY <2>1, <2>4, <2>5, <2>6 DEF IsPemFile
  <2>8. DOMAIN part = {"blocks", "text"}
    BY <2>6
  <2> QED
    BY <2>7, <2>8 DEF IsFile, Decodes, IsSign1
<1> QED
  BY <1>1, <1>2

\* What a write leaves: the new file, a part of it, or the old one.
LEMMA Written ==
  ASSUME CoreInv, NEW path \in Paths, NEW file, NEW success, NEW failure,
         WriteFile(path, file, success, failure), IsFile(file), Decodes(file)
  PROVE  /\ \A p \in Paths : IsFile(fs'[p]) /\ Decodes(fs'[p])
         /\ fs' = [p \in Paths |-> fs'[p]]
         /\ \A p \in Paths : p # path => fs'[p] = fs[p]
         /\ UNCHANGED <<cmd, rest, started>>
         /\ \/ fs'[path] = file /\ stage' = success /\ wrote' = wrote \cup {path}
            \/ stage' = failure /\ wrote' = wrote
<1>1. \A part \in Parts(file) : IsFile(part) /\ Decodes(part)
  BY PartsAreFiles
<1>2. \A p \in Paths : IsFile(fs[p]) /\ Decodes(fs[p])
  BY DEF CoreInv, TypeOK
<1>3. PICK part : fs' = [fs EXCEPT ![path] = part] /\ IsFile(part) /\ Decodes(part)
                  /\ \/ part = file /\ stage' = success /\ wrote' = wrote \cup {path}
                     \/ stage' = failure /\ wrote' = wrote
  BY <1>1, <1>2 DEF WriteFile
<1>4. DOMAIN fs = Paths /\ fs = [p \in Paths |-> fs[p]]
  BY DEF CoreInv, InStep
<1>5. /\ fs' = [p \in Paths |-> fs'[p]]
      /\ fs'[path] = part
      /\ \A p \in Paths : p # path => fs'[p] = fs[p]
  BY <1>3, <1>4
<1> QED
  BY <1>2, <1>3, <1>5 DEF WriteFile

-----------------------------------------------------------------------------
\* The chain file create works on.
LEMMA ChainIsPem ==
  ASSUME CoreInv, Begins, cmd.name = "create"
  PROVE  /\ Chain = [blocks |-> Chain.blocks, text |-> Chain.text]
         /\ Chain.blocks \in Seq(Range(Chain.blocks))
         /\ \A b \in Range(Chain.blocks) : b.der \in Seq(Range(b.der))
         /\ Len(Chain.blocks) \in Nat \ {0}
<1>1. cmd.chain \in Paths
  BY CommandsAssumption DEF CoreInv, InStep
<1>2. IsFile(Chain) /\ IsPem(Chain) /\ Chain.blocks # <<>>
  BY <1>1 DEF CoreInv, TypeOK, Begins, Chain
<1>3. IsPemFile(Chain)
  BY <1>2, FilesByKind
<1> HIDE DEF Chain
<1>4. Len(Chain.blocks) \in Nat \ {0}
  BY <1>2, <1>3 DEF IsPemFile
<1> QED
  BY <1>3, <1>4 DEF IsPemFile

\* When pem2der is through, it has all the DER of the file.
LEMMA DecodedIsDer ==
  ASSUME CoreInv, AllDecoded
  PROVE  der = DerOf(Chain) /\ der \in Seq(Range(der))
<1>1. cmd.name = "create" /\ Begins
  BY DEF CoreInv, InStep, InLoop, AllDecoded
<1> DEFINE blocks == Chain.blocks
<1>2. /\ blocks \in Seq(Range(blocks))
      /\ \A b \in Range(blocks) : b.der \in Seq(Range(b.der))
      /\ Len(blocks) \in Nat \ {0}
  BY <1>1, ChainIsPem
<1>3. PICK n \in 1 .. Len(blocks) :
        der = Ders(blocks)[n] /\ rest.blocks = SubSeq(blocks, n + 1, Len(blocks))
  BY DEF CoreInv, InLoop, AllDecoded
<1>4. rest.blocks = <<>>
  BY DEF AllDecoded, NoText
<1> HIDE DEF blocks
<1>5. n = Len(blocks)
  <2> SUFFICES ASSUME n < Len(blocks) PROVE FALSE
    BY <1>2
  <2>1. Len(SubSeq(blocks, n + 1, Len(blocks))) = Len(blocks) - n
    BY <1>2
  <2> QED
    BY <1>2, <1>3, <1>4, <2>1
<1>6. PICK S : \A m \in 0 .. Len(blocks) : Ders(blocks)[m] \in Seq(S)
  BY <1>2, DersSteps
<1>7. der \in Seq(S)
  BY <1>2, <1>3, <1>6
<1>8. der \in Seq(Range(der))
  <2>1. \A m \in DOMAIN der : der[m] \in Range(der)
    BY DEF Range
  <2>2. Len(der) \in Nat /\ der \in [1 .. Len(der) -> Range(der)]
    BY <1>7, <2>1
  <2> QED
    BY <2>2
<1> QED
  BY <1>3, <1>5, <1>8 DEF DerOf, blocks

\* create's header has what it says, and no CWT claims.
LEMMA HeaderIsCreated ==
  ASSUME NEW issuer
  PROVE  LET header == CreatedHeader(issuer)
         IN  /\ {"alg", "x5chain"} \subseteq DOMAIN header
             /\ "cwt" \notin DOMAIN header
             /\ header.alg = cmd.alg
             /\ header.x5chain = [array |-> der]
             /\ issuer = Empty => "iss" \notin DOMAIN header
             /\ issuer # Empty => "iss" \in DOMAIN header /\ header["iss"] = issuer
  BY DEF CreatedHeader, Assign

\* attach_receipt's map encodes, with the receipts it was given: whatever type
\* the label had before, it is there once.
LEMMA ReplacedHasReceipts ==
  ASSUME NEW unprotected, NEW receipts
  PROVE  /\ IsMap(Replaced(unprotected, receipts))
         /\ "receipts" \in DOMAIN Replaced(unprotected, receipts)
         /\ Replaced(unprotected, receipts).receipts = receipts
<1> DEFINE map == Decoded(unprotected)
           others == [label \in DOMAIN map \ BothLabels |-> map[label]]
           new == <<"int64", "receipts">>
           all == Assign(others, new, receipts)
           names == {label[2] : label \in DOMAIN all}
<1>1. DOMAIN map = {<<"uint64", x>> : x \in DOMAIN unprotected}
  BY DEF Decoded
<1>2. DOMAIN all = (DOMAIN map \ BothLabels) \cup {new} /\ all[new] = receipts
  BY DEF Assign
<1>3. \A a, b \in DOMAIN all : a[2] = b[2] => a = b
  BY <1>1, <1>2 DEF BothLabels
<1>4. Replaced(unprotected, receipts) = Encoded(all)
  BY DEF Replaced
<1> HIDE DEF all
<1>5. Encoded(all) = [x \in names |->
                        all[CHOOSE label \in DOMAIN all : label[2] = x]]
  BY <1>3 DEF Encoded
<1>6. "receipts" \in names
  BY <1>2
<1>7. (CHOOSE label \in DOMAIN all : label[2] = "receipts") = new
  BY <1>2, <1>3
<1> HIDE DEF names, new
<1>8. IsMap(Encoded(all))
  BY <1>5 DEF IsMap
<1> QED
  BY <1>2, <1>4, <1>5, <1>6, <1>7, <1>8

\* What attach_receipt writes is an envelope file with another unprotected
\* header.
LEMMA AttachedIsFile ==
  ASSUME NEW file, IsSign1(file), IsFile(file), Decodes(file)
  PROVE  LET after == Attached(file)
         IN  /\ after = [sign1 |-> after.sign1, tagged |-> file.tagged]
             /\ after.sign1 = [protected |-> file.sign1.protected,
                              unprotected |-> Replaced(file.sign1.unprotected,
                                                       Receipts),
                              payload |-> file.sign1.payload,
                              signature |-> file.sign1.signature]
             /\ IsFile(after) /\ Decodes(after)
<1> DEFINE env == file.sign1
           new == Replaced(env.unprotected, Receipts)
           after == Attached(file)
<1>1. IsEnvelopeFile(file)
  BY FilesByKind
<1>2. /\ file = [sign1 |-> env, tagged |-> file.tagged]
      /\ env = [protected |-> env.protected, unprotected |-> env.unprotected,
                payload |-> env.payload, signature |-> env.signature]
      /\ "x5chain" \in DOMAIN env.protected /\ env.protected.x5chain # Malformed
           => IsX5Chain(env.protected.x5chain)
  BY <1>1 DEF IsEnvelopeFile
<1> DEFINE out == [protected |-> env.protected, unprotected |-> new,
                   payload |-> env.payload, signature |-> env.signature]
<1>3. after = [file EXCEPT !.sign1.unprotected = new]
  BY DEF Attached
<1> HIDE DEF new, after, env
<1>4. after = [sign1 |-> out, tagged |-> file.tagged]
  BY <1>2, <1>3 DEF env
<1>5. IsMap(new)
  BY ReplacedHasReceipts DEF new
<1>6. IsEnvelopeFile(after)
  BY <1>2, <1>4 DEF IsEnvelopeFile
<1>7. IsFile(after)
  BY <1>4, <1>6 DEF IsFile
<1>8. Decodes(after)
  BY <1>4, <1>5 DEF Decodes, IsSign1, SignedByCreate, env
<1> QED
  BY <1>4, <1>7, <1>8 DEF after, env, new

-----------------------------------------------------------------------------
\* Before the first command the files are as they are said to be.
LEMMA InitIsCore ==
  Init => CoreInv
<1> SUFFICES ASSUME Init PROVE CoreInv
  OBVIOUS
<1>1. TypeOK /\ \A p \in Paths : Decodes(fs[p])
  BY FileSystemsAssumption, MaxCommandsAssumption DEF Init, TypeOK, Ends
<1>2. InStep
  BY FileSystemsAssumption DEF Init, InStep, IsMap
<1> QED
  BY <1>1, <1>2 DEF CoreInv, Init, BetweenWrites, LeafIsTheSigner, InLoop

\* A step after which leaf is not, or not yet, done.
LEMMA NotLeaf ==
  ASSUME stage' = "ok" => cmd'.name # "leaf", stage' # "cert"
  PROVE  BetweenWrites' /\ LeafIsTheSigner'
  BY DEF BetweenWrites, LeafIsTheSigner

\* A command's only write, other than leaf's.
LEMMA SingleWrite ==
  ASSUME CoreInv, cmd.name \in {"create", "attach_receipt", "chain"},
         rest = NoText, NEW file, IsFile(file), Decodes(file),
         WriteFile(cmd.out, file, "ok", "error")
  PROVE  CoreInv'
<1> USE DEF CoreInv
<1>1. cmd.out \in Paths
  BY CommandsAssumption DEF InStep
<1>2. /\ \A p \in Paths : IsFile(fs'[p]) /\ Decodes(fs'[p])
      /\ fs' = [p \in Paths |-> fs'[p]]
      /\ UNCHANGED <<cmd, rest, started>>
      /\ \/ stage' = "ok" /\ wrote' = wrote \cup {cmd.out}
         \/ stage' = "error" /\ wrote' = wrote
  BY <1>1, Written
<1>3. TypeOK'
  BY <1>1, <1>2 DEF TypeOK, Ends
<1>4. InStep' /\ InLoop'
  BY <1>2 DEF InStep, InLoop
<1>5. BetweenWrites' /\ LeafIsTheSigner'
  BY <1>2, NotLeaf
<1> QED
  BY <1>2, <1>3, <1>4, <1>5

\* leaf's first write leaves the envelope alone, if it goes to another file.
LEMMA LeafKeyOutPreserves ==
  ASSUME CoreInv, LeafKeyOut PROVE CoreInv'
<1> USE DEF CoreInv
<1>1. /\ stage = "start" /\ cmd.name = "leaf" /\ wrote = {} /\ UnpackOK(In)
      /\ WriteFile(cmd.keyout, [key |-> LeafKey(In)], "cert", "cert")
      /\ der' = X5Chain(In)
  BY DEF LeafKeyOut, Running, InStep
<1>2. cmd.in \in Paths /\ cmd.keyout \in Paths /\ cmd.certout \in Paths
  BY <1>1, CommandsAssumption DEF InStep
<1>3. IsFile([key |-> LeafKey(In)]) /\ Decodes([key |-> LeafKey(In)])
  BY DEF IsFile, Decodes, IsSign1
<1>4. /\ \A p \in Paths : IsFile(fs'[p]) /\ Decodes(fs'[p])
      /\ fs' = [p \in Paths |-> fs'[p]]
      /\ \A p \in Paths : p # cmd.keyout => fs'[p] = fs[p]
      /\ UNCHANGED <<cmd, rest, started>> /\ stage' = "cert"
      /\ \/ fs'[cmd.keyout] = [key |-> LeafKey(In)] /\ wrote' = {cmd.keyout}
         \/ wrote' = {}
  BY <1>1, <1>2, <1>3, Written
<1>5. TypeOK'
  BY <1>1, <1>2, <1>4 DEF TypeOK
<1>6. InStep'
  BY <1>1, <1>4 DEF InStep
<1>7. BetweenWrites'
  <2> SUFFICES ASSUME cmd.in \notin {cmd.keyout, cmd.certout}
               PROVE  BetweenWrites'
    BY <1>4 DEF BetweenWrites
  <2>1. In' = In
    BY <1>2, <1>4 DEF In
  <2> QED
    BY <1>1, <1>4, <2>1 DEF BetweenWrites
<1>8. LeafIsTheSigner'
  BY <1>4 DEF LeafIsTheSigner
<1>9. InLoop'
  BY <1>4 DEF InLoop
<1> QED
  BY <1>4, <1>5, <1>6, <1>7, <1>8, <1>9

\* leaf's second write adds the signer's certificate.
LEMMA LeafCertOutPreserves ==
  ASSUME CoreInv, LeafCertOut PROVE CoreInv'
<1> USE DEF CoreInv
<1>1. /\ stage = "cert" /\ cmd.name = "leaf"
      /\ WriteFile(cmd.certout, [cert |-> Head(der)], "ok", "error")
      /\ der' = der
  BY DEF LeafCertOut, InStep
<1>2. cmd.in \in Paths /\ cmd.keyout \in Paths /\ cmd.certout \in Paths
  BY <1>1, CommandsAssumption DEF InStep
<1>3. IsFile([cert |-> Head(der)]) /\ Decodes([cert |-> Head(der)])
  BY DEF IsFile, Decodes, IsSign1
<1>4. /\ \A p \in Paths : IsFile(fs'[p]) /\ Decodes(fs'[p])
      /\ fs' = [p \in Paths |-> fs'[p]]
      /\ \A p \in Paths : p # cmd.certout => fs'[p] = fs[p]
      /\ UNCHANGED <<cmd, rest, started>>
      /\ \/ /\ fs'[cmd.certout] = [cert |-> Head(der)]
            /\ stage' = "ok" /\ wrote' = wrote \cup {cmd.certout}
         \/ stage' = "error" /\ wrote' = wrote
  BY <1>1, <1>2, <1>3, Written
<1>5. TypeOK'
  BY <1>1, <1>2, <1>4 DEF TypeOK, Ends
<1>6. InStep'
  BY <1>1, <1>4 DEF InStep
<1>7. BetweenWrites'
  BY <1>4 DEF BetweenWrites
<1>8. LeafIsTheSigner'
  <2> SUFFICES ASSUME stage' = "ok", cmd.in \notin {cmd.keyout, cmd.certout},
                      cmd.keyout # cmd.certout
               PROVE  LeafIsTheSigner'
    BY <1>4 DEF LeafIsTheSigner
  <2>1. /\ UnpackOK(In) /\ der = X5Chain(In)
        /\ cmd.keyout \in wrote => fs[cmd.keyout] = [key |-> LeafKey(In)]
    BY <1>1 DEF BetweenWrites
  <2>2. In' = In
    BY <1>2, <1>4 DEF In
  <2>3. In.signature.key = LeafKey(In)
    BY <2>1 DEF UnpackOK, Verify, Sign
  <2>4. /\ fs'[cmd.certout] = [cert |-> Head(der)]
        /\ wrote' = wrote \cup {cmd.certout}
        /\ fs'[cmd.keyout] = fs[cmd.keyout]
    BY <1>2, <1>4
  <2>5. fs'[cmd.certout].cert.key = In.signature.key
    BY <2>1, <2>3, <2>4 DEF LeafKey
  <2>6. cmd.keyout \in wrote' => fs'[cmd.keyout].key = In.signature.key
    BY <2>1, <2>3, <2>4
  <2> QED
    BY <1>4, <2>2, <2>4, <2>5, <2>6 DEF LeafIsTheSigner
<1>9. InLoop'
  BY <1>4 DEF InLoop
<1> QED
  BY <1>4, <1>5, <1>6, <1>7, <1>8, <1>9

\* A file without its first block.
LEMMA TailOfFile ==
  ASSUME NEW blocks, NEW text, NEW file, file = [blocks |-> blocks, text |-> text]
  PROVE  [file EXCEPT !.blocks = Tail(@)] = [blocks |-> Tail(blocks), text |-> text]
<1> DEFINE behind == Tail(blocks)
<1>1. [file EXCEPT !.blocks = Tail(@)] = [file EXCEPT !.blocks = behind]
  OBVIOUS
<1> HIDE DEF behind
<1>2. [file EXCEPT !.blocks = behind] = [blocks |-> behind, text |-> text]
  OBVIOUS
<1> QED
  BY <1>1, <1>2 DEF behind

\* The first of the elements left, and the ones behind it.
LEMMA HeadAndTail ==
  ASSUME NEW S, NEW s \in Seq(S), NEW n \in Nat, n < Len(s)
  PROVE  /\ Head(SubSeq(s, n + 1, Len(s))) = s[n + 1]
         /\ Tail(SubSeq(s, n + 1, Len(s))) = SubSeq(s, n + 1 + 1, Len(s))
<1> DEFINE N == Len(s)
           left == SubSeq(s, n + 1, N)
           fewer == SubSeq(s, n + 1 + 1, N)
<1>1. N \in Nat /\ N - n \in Nat /\ N - n - 1 \in Nat
  OBVIOUS
<1>2. /\ left \in Seq(S) /\ Len(left) = N - n
      /\ \A k \in 1 .. N - n : left[k] = s[n + k]
  OBVIOUS
<1>3. /\ fewer \in Seq(S) /\ Len(fewer) = N - n - 1
      /\ \A k \in 1 .. N - n - 1 : fewer[k] = s[n + 1 + k]
  OBVIOUS
<1> HIDE DEF left, fewer, N
<1>4. left # <<>>
  BY <1>1, <1>2
<1>5. /\ Tail(left) \in Seq(S) /\ Len(Tail(left)) = N - n - 1
      /\ \A k \in 1 .. N - n - 1 : Tail(left)[k] = left[k + 1]
  BY <1>1, <1>2, <1>4
<1>6. \A k \in 1 .. N - n - 1 : Tail(left)[k] = fewer[k]
  BY <1>1, <1>2, <1>3, <1>5
<1>7. Tail(left) = fewer
  BY <1>1, <1>3, <1>5, <1>6
<1>8. Head(left) = s[n + 1]
  BY <1>1, <1>2, <1>4
<1> QED
  BY <1>7, <1>8 DEF left, fewer, N

\* create begins with the first block and takes the others one by one.
LEMMA BlockPreserves ==
  ASSUME CoreInv, FirstBlock \/ NextBlock
  PROVE  CoreInv'
<1> USE DEF CoreInv
<1>1. /\ stage' = "pem" /\ cmd.name = "create" /\ Begins
      /\ UNCHANGED <<fs, cmd, started, wrote>>
  BY DEF FirstBlock, NextBlock, Running, InStep, InLoop
<1>2. TypeOK' /\ InStep' /\ \A p \in Paths : Decodes(fs'[p])
  BY <1>1 DEF TypeOK, InStep
<1>3. Chain' = Chain /\ Begins'
  BY <1>1 DEF Chain, Begins, AlgorithmKnown
<1> DEFINE blocks == Chain.blocks
           N == Len(blocks)
<1>4. /\ Chain = [blocks |-> blocks, text |-> Chain.text]
      /\ blocks \in Seq(Range(blocks))
      /\ \A b \in Range(blocks) : b.der \in Seq(Range(b.der))
      /\ N \in Nat \ {0}
  BY <1>1, ChainIsPem
<1>5. /\ Ders(blocks)[0] = <<>>
      /\ \A n \in 1 .. N : Ders(blocks)[n] = Grown(Ders(blocks)[n - 1], blocks[n])
  BY <1>4, DersSteps
<1>6. ASSUME NEW n \in 1 .. N,
             der' = Ders(blocks)[n],
             rest' = [blocks |-> SubSeq(blocks, n + 1, N), text |-> Chain.text]
      PROVE  InLoop'
  BY <1>3, <1>6 DEF InLoop
<1>7. CASE FirstBlock
  <2> HIDE DEF blocks, N
  <2>1. der' = Head(blocks).der /\ rest' = [Chain EXCEPT !.blocks = Tail(@)]
    BY <1>7 DEF FirstBlock, blocks
  <2>2. Head(blocks) = blocks[1] /\ Tail(blocks) = SubSeq(blocks, 2, N)
    BY <1>4 DEF N
  <2>3. rest' = [blocks |-> Tail(blocks), text |-> Chain.text]
    BY <1>4, <2>1, TailOfFile
  <2>4. Ders(blocks)[1] = Grown(<<>>, blocks[1])
    <3>1. 1 \in 1 .. N /\ 1 - 1 = 0
      BY <1>4
    <3>2. Ders(blocks)[1] = Grown(Ders(blocks)[1 - 1], blocks[1])
      BY <1>5, <3>1
    <3> QED
      BY <1>5, <3>1, <3>2
  <2>5. Grown(<<>>, blocks[1]) = blocks[1].der
    <3>1. blocks[1].der \in Seq(Range(blocks[1].der))
      BY <1>4 DEF Range, N
    <3> QED
      BY <3>1 DEF Grown
  <2>6. 1 \in 1 .. N /\ 1 + 1 = 2
    BY <1>4
  <2>7. InLoop'
    BY <1>6, <2>1, <2>2, <2>3, <2>4, <2>5, <2>6
  <2> QED
    BY <1>1, <1>2, <2>7, NotLeaf
<1>8. CASE NextBlock
  <2>1. PICK n \in 1 .. N :
          der = Ders(blocks)[n] /\ rest.blocks = SubSeq(blocks, n + 1, N)
    BY <1>8 DEF InLoop, NextBlock
  <2>2. /\ rest = [blocks |-> rest.blocks, text |-> Chain.text]
        /\ rest.blocks # <<>>
        /\ der' = Grown(der, Head(rest.blocks))
        /\ rest' = [rest EXCEPT !.blocks = Tail(@)]
    BY <1>8 DEF InLoop, NextBlock
  <2> HIDE DEF blocks
  <2>3. n < N
    BY <1>4, <2>1, <2>2
  <2>4. /\ Head(SubSeq(blocks, n + 1, N)) = blocks[n + 1]
        /\ Tail(SubSeq(blocks, n + 1, N)) = SubSeq(blocks, n + 1 + 1, N)
    <3>1. n \in Nat /\ N = Len(blocks)
      BY <1>4
    <3> HIDE DEF N
    <3> QED
      BY <1>4, <2>3, <3>1, HeadAndTail
  <2> HIDE DEF N
  <2>5. rest' = [blocks |-> Tail(rest.blocks), text |-> Chain.text]
    BY <2>2, TailOfFile
  <2>6. n + 1 \in 1 .. N /\ n + 1 - 1 = n
    BY <1>4, <2>3
  <2>7. der' = Ders(blocks)[n + 1]
    <3>1. Ders(blocks)[n + 1] = Grown(Ders(blocks)[n + 1 - 1], blocks[n + 1])
      BY <1>5, <2>6
    <3> QED
      BY <2>1, <2>2, <2>4, <2>6, <3>1
  <2>8. InLoop'
    BY <1>6, <2>1, <2>4, <2>5, <2>6, <2>7
  <2> QED
    BY <1>1, <1>2, <2>8, NotLeaf
<1> QED
  BY <1>7, <1>8

\* What chain writes is a PEM file with the chain in it.
LEMMA ChainToWrite ==
  ASSUME CoreInv, cmd.name = "chain", PemChainOK
  PROVE  /\ X5Chain(In) \in Seq(Range(X5Chain(In)))
         /\ IsFile(Pem(X5Chain(In))) /\ Decodes(Pem(X5Chain(In)))
<1>1. cmd.in \in Paths
  BY CommandsAssumption DEF CoreInv, InStep
<1>2. IsSign1(fs[cmd.in]) /\ In = fs[cmd.in].sign1
  BY DEF PemChainOK, In, EnvelopeOf
<1>3. IsEnvelopeFile(fs[cmd.in])
  BY <1>1, <1>2, FilesByKind DEF CoreInv, TypeOK
<1>4. IsX5Chain(In.protected.x5chain)
  BY <1>2, <1>3 DEF IsEnvelopeFile, PemChainOK
<1>5. X5Chain(In) \in Seq(Range(X5Chain(In)))
  BY <1>4 DEF IsX5Chain, X5Chain, PemChainOK
<1> DEFINE chain == X5Chain(In)
<1> HIDE DEF chain
<1>6. IsPemFile(Pem(chain))
  <2>1. chain \in Seq(Range(chain))
    BY <1>5 DEF chain
  <2>2. Pem(chain) = [blocks |-> Pem(chain).blocks, text |-> Pem(chain).text]
    BY DEF Pem
  <2> QED
    BY <2>1, <2>2, PemHoldsChain DEF IsPemFile
<1>7. IsFile(Pem(chain)) /\ Decodes(Pem(chain))
  <2>1. DOMAIN Pem(chain) = {"blocks", "text"}
    BY DEF Pem
  <2> QED
    BY <1>6, <2>1 DEF IsFile, Decodes, IsSign1
<1> QED
  BY <1>5, <1>7 DEF chain

\* What create writes is an envelope file.
LEMMA CreatedIsFile ==
  ASSUME CoreInv, AllDecoded, NEW issuer
  PROVE  LET file == [sign1 |-> CreatedEnvelope(issuer), tagged |-> TRUE]
         IN  IsFile(file) /\ Decodes(file)
<1> DEFINE header == CreatedHeader(issuer)
           env == CreatedEnvelope(issuer)
           file == [sign1 |-> env, tagged |-> TRUE]
<1>1. header.x5chain = [array |-> der] /\ der \in Seq(Range(der))
  BY HeaderIsCreated, DecodedIsDer
<1>2. IsX5Chain(header.x5chain)
  BY <1>1 DEF IsX5Chain, IsMap
<1>3. env = [protected |-> header, unprotected |-> <<>>, payload |-> cmd.payload,
             signature |-> Sign(cmd.key, cmd.alg, header, cmd.payload)]
  BY DEF CreatedEnvelope
<1> HIDE DEF header, env
<1>4. IsEnvelopeFile(file)
  BY <1>2, <1>3 DEF IsEnvelopeFile
<1>5. IsFile(file)
  BY <1>4 DEF IsFile
<1>6. IsMap(<<>>)
  BY DEF IsMap
<1>7. Decodes(file)
  BY <1>3, <1>6 DEF Decodes
<1> QED
  BY <1>5, <1>7 DEF env

\* Every step keeps the files, and the command that runs, in order.
LEMMA StepKeepsCore ==
  CoreInv /\ [Next]_vars => CoreInv'
<1> SUFFICES ASSUME CoreInv, [Next]_vars PROVE CoreInv'
  OBVIOUS
<1> USE DEF CoreInv
<1>1. CASE Start
  <2>1. /\ cmd' \in Commands /\ stage' = "start" /\ wrote' = {}
        /\ rest' = NoText /\ fs' = fs
        /\ started < MaxCommands /\ started' = started + 1
    BY <1>1 DEF Start
  <2>2. TypeOK'
    BY <2>1, MaxCommandsAssumption DEF TypeOK
  <2>3. InStep' /\ InLoop' /\ \A p \in Paths : Decodes(fs'[p])
    BY <2>1 DEF InStep, InLoop
  <2>4. BetweenWrites' /\ LeafIsTheSigner'
    BY <2>1, NotLeaf
  <2> QED
    BY <2>2, <2>3, <2>4
<1>2. ASSUME NEW how \in Ends, End(how), rest = NoText,
             how = "ok" => cmd.name # "leaf"
      PROVE  CoreInv'
  <2>1. stage' = how /\ UNCHANGED <<fs, cmd, rest, started, wrote>>
    BY <1>2 DEF End, work
  <2>2. TypeOK'
    BY <1>2, <2>1 DEF TypeOK
  <2>3. InStep' /\ InLoop' /\ \A p \in Paths : Decodes(fs'[p])
    BY <2>1 DEF InStep, InLoop, Ends
  <2>4. BetweenWrites' /\ LeafIsTheSigner'
    BY <1>2, <2>1, NotLeaf DEF Ends
  <2> QED
    BY <2>2, <2>3, <2>4
<1>3. stage # "pem" => rest = NoText
  BY DEF TypeOK
<1>4. CASE RejectCreate \/ RejectAttach \/ RejectLeaf \/ RejectWriteChain
           \/ PrintDid \/ RejectDid
  BY <1>2, <1>3, <1>4
     DEF RejectCreate, RejectAttach, RejectLeaf, RejectWriteChain, PrintDid,
         RejectDid, Running, Ends
<1>5. CASE PanicNoLeaf \/ RejectChain
  BY <1>2, <1>5 DEF PanicNoLeaf, RejectChain, AllDecoded, Ends
<1>6. CASE FirstBlock \/ NextBlock
  BY <1>6, BlockPreserves
<1>7. CASE CreateSigned
  <2>1. PICK issuer : WriteFile(cmd.out, [sign1 |-> CreatedEnvelope(issuer),
                                          tagged |-> TRUE], "ok", "error")
    BY <1>7 DEF CreateSigned
  <2>2. AllDecoded /\ cmd.name = "create" /\ rest = NoText
    BY <1>7 DEF CreateSigned, AllDecoded, InStep
  <2> QED
    BY <2>1, <2>2, CreatedIsFile, SingleWrite
<1>8. CASE Attach
  <2>1. /\ stage = "start" /\ cmd.name = "attach_receipt"
        /\ IsSign1(fs[cmd.in])
        /\ WriteFile(cmd.out, Attached(fs[cmd.in]), "ok", "error")
    BY <1>8 DEF Attach, Running, Attaches
  <2>2. IsFile(fs[cmd.in]) /\ Decodes(fs[cmd.in])
    BY <2>1, CommandsAssumption DEF InStep, TypeOK
  <2>3. IsFile(Attached(fs[cmd.in])) /\ Decodes(Attached(fs[cmd.in]))
    BY <2>1, <2>2, AttachedIsFile
  <2> QED
    BY <1>3, <2>1, <2>3, SingleWrite
<1>9. CASE WriteChain
  <2>1. /\ stage = "start" /\ cmd.name = "chain" /\ PemChainOK
        /\ WriteFile(cmd.out, Pem(X5Chain(In)), "ok", "error")
    BY <1>9 DEF WriteChain, Running
  <2> QED
    BY <1>3, <2>1, ChainToWrite, SingleWrite
<1>10. CASE LeafKeyOut
  BY <1>10, LeafKeyOutPreserves
<1>11. CASE LeafCertOut
  BY <1>11, LeafCertOutPreserves
<1>12. CASE Spin \/ Done \/ UNCHANGED vars
  BY <1>12 DEF Spin, Done, vars, work, TypeOK, InStep, BetweenWrites,
     LeafIsTheSigner, In, InLoop, Chain, Begins, AlgorithmKnown
<1> QED
  BY <1>1, <1>4, <1>5, <1>6, <1>7, <1>8, <1>9, <1>10, <1>11, <1>12
     DEF Next, Step

-----------------------------------------------------------------------------
\* Bytes of no kind, and no file at all, are told from every map.  No instance
\* evaluates this, the DOMAIN of a model value being none of TLC's.
NoMaps == ~IsMap(Malformed) /\ ~IsMap(NoFile)

\* The envelope create signs is the one it notes down.
LEMMA CreatedAsTold ==
  ASSUME CoreInv, DidsMatch, NoMaps, AllDecoded, der # <<>>, SignerOK,
         NEW issuer \in {Empty} \cup {d.did : d \in dids}
  PROVE  LET env == CreatedEnvelope(issuer)
             header == env.protected
         IN  /\ {"alg", "x5chain"} \subseteq DOMAIN header
             /\ "cwt" \notin DOMAIN header
             /\ header.alg # Malformed
             /\ header.alg \in VerifierAlgs[cmd.key]
             /\ header.x5chain = [array |-> DerOf(Chain)]
             /\ DerOf(Chain) \in Seq(Range(DerOf(Chain))) /\ DerOf(Chain) # <<>>
             /\ Malformed \notin Range(DerOf(Chain))
             /\ env.payload # Nil
             /\ env.signature = Sign(cmd.key, header.alg, header, env.payload)
             /\ SignedByCreate(env)
             /\ EnvelopeIssuer(env) = issuer
<1> DEFINE env == CreatedEnvelope(issuer)
           header == CreatedHeader(issuer)
<1>1. der = DerOf(Chain) /\ der \in Seq(Range(der))
  BY DecodedIsDer
<1>2. /\ env.protected = header
      /\ env.payload = cmd.payload
      /\ env.signature = Sign(cmd.key, cmd.alg, header, cmd.payload)
  BY DEF CreatedEnvelope
<1>3. /\ {"alg", "x5chain"} \subseteq DOMAIN header
      /\ "cwt" \notin DOMAIN header
      /\ header.alg = cmd.alg
      /\ header.x5chain = [array |-> der]
      /\ issuer = Empty => "iss" \notin DOMAIN header
      /\ issuer # Empty => "iss" \in DOMAIN header /\ header["iss"] = issuer
  BY HeaderIsCreated
<1> HIDE DEF env, header
<1>4. cmd.name = "create" /\ Begins /\ cmd \in Commands
  BY DEF CoreInv, InStep, InLoop, AllDecoded
<1>5. cmd.payload # Nil
  BY <1>4, CommandsAssumption
<1>6. SignedByCreate(env)
  BY <1>2, <1>4 DEF SignedByCreate
<1>7. EnvelopeIssuer(env) = issuer
  <2>1. CASE issuer = Empty
    BY <1>2, <1>3, <2>1 DEF EnvelopeIssuer, StringValue
  <2>2. CASE issuer # Empty
    <3>1. issuer # Malformed
      BY <2>2 DEF DidsMatch, NoMaps
    <3> QED
      BY <1>2, <1>3, <2>2, <3>1 DEF EnvelopeIssuer, StringValue
  <2> QED
    BY <2>1, <2>2
<1> QED
  BY <1>1, <1>2, <1>3, <1>4, <1>5, <1>6, <1>7
     DEF env, Begins, AlgorithmKnown, SignerOK

\* The invariant holds before the first command.
LEMMA InitEstablishes ==
  Init => IInv
  BY InitIsCore DEF IInv, Init, MadeAsTold, DidsMatch

\* Every step keeps it.
LEMMA StepPreserves ==
  ASSUME NoMaps
  PROVE  IInv /\ [Next]_vars => IInv'
<1> SUFFICES ASSUME IInv, [Next]_vars PROVE MadeAsTold' /\ DidsMatch'
  BY StepKeepsCore DEF IInv
<1>1. CASE UNCHANGED history
  BY <1>1 DEF history, IInv, MadeAsTold, DidsMatch
<1>2. CASE CreateSigned
  <2>1. /\ AllDecoded /\ der # <<>> /\ SignerOK /\ dids' = dids
        /\ \E issuer \in {Empty} \cup {d.did : d \in dids} :
             made' = made \cup {[env |-> CreatedEnvelope(issuer), issuer |-> issuer,
                                 key |-> cmd.key, chain |-> DerOf(Chain)]}
    BY <1>2 DEF CreateSigned
  <2>2. PICK issuer \in {Empty} \cup {d.did : d \in dids} :
          made' = made \cup {[env |-> CreatedEnvelope(issuer), issuer |-> issuer,
                              key |-> cmd.key, chain |-> DerOf(Chain)]}
    BY <2>1
  <2> DEFINE env == CreatedEnvelope(issuer)
             chain == DerOf(Chain)
             new == [env |-> env, issuer |-> issuer, key |-> cmd.key, chain |-> chain]
  <2>3. LET header == env.protected
        IN  /\ {"alg", "x5chain"} \subseteq DOMAIN header
            /\ "cwt" \notin DOMAIN header
            /\ header.alg # Malformed
            /\ header.alg \in VerifierAlgs[cmd.key]
            /\ header.x5chain = [array |-> chain]
            /\ chain \in Seq(Range(chain)) /\ chain # <<>>
            /\ Malformed \notin Range(chain)
            /\ env.payload # Nil
            /\ env.signature = Sign(cmd.key, header.alg, header, env.payload)
            /\ SignedByCreate(env)
            /\ EnvelopeIssuer(env) = issuer
    BY <2>1, CreatedAsTold DEF IInv
  <2>4. made' = made \cup {new}
    BY <2>2
  <2>5. /\ new.env = env /\ new.issuer = issuer
        /\ new.key = cmd.key /\ new.chain = chain
    OBVIOUS
  <2> HIDE DEF env, chain, new
  <2>6. MadeAsTold'
    BY <2>3, <2>4, <2>5 DEF IInv, MadeAsTold
  <2>7. DidsMatch'
    BY <2>1 DEF IInv, DidsMatch
  <2> QED
    BY <2>6, <2>7
<1>3. CASE PrintDid
  <2>1. /\ dids' = dids \cup {[did |-> Did, chain |-> DidChain]}
        /\ <<DidChain, Did>> \in DidMatches
        /\ made' = made
    BY <1>3 DEF PrintDid, MakesDid
  <2>2. IsMap(Did)
    BY DEF IsMap, Did
  <2> DEFINE new == [did |-> Did, chain |-> DidChain]
  <2>3. new.did = Did /\ new.chain = DidChain
    OBVIOUS
  <2> HIDE DEF new
  <2>4. DidsMatch'
    BY <2>1, <2>2, <2>3 DEF IInv, DidsMatch, new
  <2>5. MadeAsTold'
    BY <2>1 DEF IInv, MadeAsTold
  <2> QED
    BY <2>4, <2>5
<1> QED
  BY <1>1, <1>2, <1>3
     DEF Next, Step, Start, RejectCreate, FirstBlock, NextBlock, Spin,
         PanicNoLeaf, RejectChain, Attach, RejectAttach, LeafKeyOut, LeafCertOut,
         RejectLeaf, WriteChain, RejectWriteChain, RejectDid, Done, vars, history

-----------------------------------------------------------------------------
\* Files stay of a known kind whatever is written over them.
THEOREM TypeCorrect == Spec => []TypeOK
<1>1. CoreInv => TypeOK
  BY DEF CoreInv
<1> QED
  BY <1>1, InitIsCore, StepKeepsCore, PTL DEF Spec

\* A leaf that succeeds has written the certificate of the signer, and no
\* other key than that certificate's.
THEOREM LeafWritesTheSigner == Spec => []LeafIsTheSigner
<1>1. CoreInv => LeafIsTheSigner
  BY DEF CoreInv
<1> QED
  BY <1>1, InitIsCore, StepKeepsCore, PTL DEF Spec

\* chain refuses nothing that check takes but a single certificate, and writes
\* the chain check went by so that it can be read to the end.
THEOREM ChainWritesTheChain == Spec => ChainAgreesWithCheck
<1> DEFINE Agrees == /\ RejectWriteChain /\ UnpackOK(In) =>
                          "single" \in DOMAIN In.protected.x5chain
                     /\ WriteChain /\ cmd.out \in wrote' =>
                          /\ DerOf(fs'[cmd.out]) = X5Chain(In)
                          /\ PemParses(fs'[cmd.out])
                          /\ ~fs'[cmd.out].text
<1>1. CoreInv /\ [Next]_vars => [Agrees]_vars
  <2> SUFFICES ASSUME CoreInv PROVE Agrees
    OBVIOUS
  <2>1. ASSUME RejectWriteChain, UnpackOK(In)
        PROVE  "single" \in DOMAIN In.protected.x5chain
    <3>1. cmd.name = "chain" /\ ~PemChainOK
      BY <2>1 DEF RejectWriteChain, Running
    <3>2. cmd.in \in Paths
      BY <3>1, CommandsAssumption DEF CoreInv, InStep
    <3>3. /\ In # Malformed /\ "x5chain" \in DOMAIN In.protected
          /\ In.protected.x5chain # Malformed
          /\ Malformed \notin Range(X5Chain(In))
      BY <2>1 DEF UnpackOK, ChainParses
    <3>4. IsSign1(fs[cmd.in]) /\ In = fs[cmd.in].sign1
      BY <3>3 DEF In, EnvelopeOf
    <3>5. IsX5Chain(In.protected.x5chain)
      BY <3>2, <3>3, <3>4, FilesByKind DEF CoreInv, TypeOK, IsEnvelopeFile
    <3> QED
      BY <3>1, <3>3, <3>5 DEF PemChainOK, IsX5Chain
  <2>2. ASSUME WriteChain, cmd.out \in wrote'
        PROVE  /\ DerOf(fs'[cmd.out]) = X5Chain(In)
               /\ PemParses(fs'[cmd.out])
               /\ ~fs'[cmd.out].text
    <3> DEFINE chain == X5Chain(In)
               file == fs'[cmd.out]
    <3>1. /\ stage = "start" /\ cmd.name = "chain" /\ PemChainOK
          /\ wrote = {}
          /\ WriteFile(cmd.out, Pem(chain), "ok", "error")
      BY <2>2 DEF WriteChain, Running, CoreInv, InStep
    <3>2. cmd.out \in Paths
      BY <3>1, CommandsAssumption DEF CoreInv, InStep
    <3>3. /\ chain \in Seq(Range(chain))
          /\ IsFile(Pem(chain)) /\ Decodes(Pem(chain))
      BY <3>1, ChainToWrite
    <3>4. file = Pem(chain)
      BY <2>2, <3>1, <3>2, <3>3, Written
    <3>5. Malformed \notin Range(chain)
      BY <3>1 DEF PemChainOK
    <3> HIDE DEF chain, file
    <3>6. DerOf(file) = chain
      BY <3>3, <3>4, PemHoldsChain
    <3>7. \A b \in Range(Pem(chain).blocks) : \E cert \in Range(chain) : b.der = <<cert>>
      BY <3>3, PemHoldsChain
    <3>8. \A b \in Range(Pem(chain).blocks) : b.der # <<>> /\ b.der[1] # Malformed
      BY <3>5, <3>7
    <3>9. PemParses(file)
      BY <3>4, <3>8 DEF PemParses
    <3>10. ~file.text
      BY <3>4 DEF Pem
    <3> QED
      BY <3>6, <3>9, <3>10 DEF chain, file
  <2> QED
    BY <2>1, <2>2
<1> QED
  BY <1>1, InitIsCore, StepKeepsCore, PTL DEF Spec, ChainAgreesWithCheck

\* Of an envelope with a tag the receipts alone may fail to decode.
LEMMA TaggedIsEnvelope ==
  ASSUME NoMaps, NEW file, IsSign1(file), IsFile(file), Decodes(file)
  PROVE  /\ EnvelopeOf(file) = IF file.tagged THEN file.sign1 ELSE Malformed
         /\ file.sign1 # Malformed
<1>1. IsEnvelopeFile(file)
  BY FilesByKind
<1>2. IsMap(file.sign1)
  BY <1>1 DEF IsEnvelopeFile, IsMap
<1>3. IsMap(file.sign1.unprotected)
  BY DEF Decodes
<1> QED
  BY <1>2, <1>3 DEF NoMaps, EnvelopeOf

\* attach_receipt changes the receipts and nothing else.
THEOREM AttachChangesReceiptsOnly ==
  ASSUME NoMaps
  PROVE  Spec => AttachKeepsStatement
<1> DEFINE Keeps ==
      Attach /\ cmd.out \in wrote' =>
        LET before == fs[cmd.in]
            after == fs'[cmd.out]
            bare == [EnvelopeOf(before) EXCEPT !.unprotected = <<>>]
        IN  /\ DataHash(after.sign1) = DataHash(before.sign1)
            /\ EnvelopeOf(after) = Malformed <=> EnvelopeOf(before) = Malformed
            /\ EnvelopeOf(after) # Malformed =>
                 /\ EnvelopeOf(after).unprotected.receipts = Receipts
                 /\ UnpackOK(EnvelopeOf(after)) <=>
                      (UnpackOK(bare) /\ ReceiptsParse(EnvelopeOf(after)))
<1>1. CoreInv /\ [Next]_vars => [Keeps]_vars
  <2> SUFFICES ASSUME CoreInv, Attach, cmd.out \in wrote' PROVE Keeps
    OBVIOUS
  <2> DEFINE before == fs[cmd.in]
             after == fs'[cmd.out]
             old == before.sign1
             env == after.sign1
             new == Replaced(old.unprotected, Receipts)
  <2>1. /\ stage = "start" /\ cmd.name = "attach_receipt" /\ wrote = {}
        /\ IsSign1(before)
        /\ WriteFile(cmd.out, Attached(before), "ok", "error")
    BY DEF Attach, Running, Attaches, CoreInv, InStep
  <2>2. cmd.in \in Paths /\ cmd.out \in Paths
    BY <2>1, CommandsAssumption DEF CoreInv, InStep
  <2>3. IsFile(before) /\ Decodes(before)
    BY <2>2 DEF CoreInv, TypeOK
  <2>4. IsFile(Attached(before)) /\ Decodes(Attached(before))
    BY <2>1, <2>3, AttachedIsFile
  <2>5. after = Attached(before)
    BY <2>1, <2>2, <2>4, Written
  <2> HIDE DEF before, after
  <2>6. /\ after = [sign1 |-> env, tagged |-> before.tagged]
        /\ env = [protected |-> old.protected, unprotected |-> new,
                  payload |-> old.payload, signature |-> old.signature]
    BY <2>1, <2>3, <2>5, AttachedIsFile
  <2>7. IsSign1(after)
    <3>1. IsMap(after) /\ "sign1" \in DOMAIN after
      BY <2>6 DEF IsMap
    <3> QED
      BY <3>1 DEF NoMaps, IsSign1
  <2>8. /\ EnvelopeOf(before) = IF before.tagged THEN old ELSE Malformed
        /\ EnvelopeOf(after) = IF before.tagged THEN env ELSE Malformed
        /\ old # Malformed /\ env # Malformed
    BY <2>1, <2>3, <2>4, <2>5, <2>6, <2>7, TaggedIsEnvelope
  <2>9. old = [protected |-> old.protected, unprotected |-> old.unprotected,
               payload |-> old.payload, signature |-> old.signature]
    BY <2>1, <2>3, FilesByKind DEF IsEnvelopeFile
  <2>10. new.receipts = Receipts
    BY ReplacedHasReceipts
  <2> HIDE DEF old, env, new
  <2>11. DataHash(env) = DataHash(old)
    BY <2>6 DEF DataHash
  <2>12. ASSUME before.tagged
         PROVE  UnpackOK(env) <=>
                  (UnpackOK([old EXCEPT !.unprotected = <<>>]) /\ ReceiptsParse(env))
    <3> DEFINE bare == [old EXCEPT !.unprotected = <<>>]
    <3>1. bare = [protected |-> old.protected, unprotected |-> <<>>,
                  payload |-> old.payload, signature |-> old.signature]
      BY <2>9
    <3>2. bare # Malformed
      <4>1. IsMap(bare)
        BY <3>1 DEF IsMap
      <4> QED
        BY <4>1 DEF NoMaps
    <3> HIDE DEF bare
    <3>3. ReceiptsParse(bare)
      BY <3>1 DEF ReceiptsParse
    <3>4. X5Chain(bare) = X5Chain(env) /\ LeafKey(bare) = LeafKey(env)
      BY <2>6, <3>1 DEF X5Chain, LeafKey
    <3>5. ChainParses(bare) <=> ChainParses(env)
      BY <2>6, <3>1, <3>4 DEF ChainParses
    <3>6. /\ bare.protected = env.protected /\ bare.payload = env.payload
          /\ bare.signature = env.signature
      BY <2>6, <3>1
    <3>7. UnpackOK(env) <=> UnpackOK(bare) /\ ReceiptsParse(env)
      BY <2>8, <3>2, <3>3, <3>4, <3>5, <3>6 DEF UnpackOK, Verify
    <3> QED
      BY <3>7 DEF bare
  <2>13. DataHash(after.sign1) = DataHash(before.sign1)
    BY <2>11 DEF env, old
  <2>14. EnvelopeOf(after) # Malformed =>
           /\ EnvelopeOf(after).unprotected.receipts = Receipts
           /\ UnpackOK(EnvelopeOf(after)) <=>
                (/\ UnpackOK([EnvelopeOf(before) EXCEPT !.unprotected = <<>>])
                 /\ ReceiptsParse(EnvelopeOf(after)))
    BY <2>6, <2>8, <2>10, <2>12
  <2> QED
    BY <2>8, <2>13, <2>14 DEF before, after
<1> QED
  BY <1>1, InitIsCore, StepKeepsCore, PTL DEF Spec, AttachKeepsStatement

\* An envelope that create made is found good exactly if it was signed with the
\* leaf's key under a valid chain and its receipts parse, wherever it has been
\* copied to and whatever has been attached since.
THEOREM CreatedEnvelopesCheck ==
  ASSUME NoMaps
  PROVE  Spec => []CreatedChecks
<1>1. IInv => CreatedChecks
  <2> SUFFICES ASSUME IInv, NEW p \in Paths, NEW m \in made,
                      IsSign1(fs[p]), DataHash(fs[p].sign1) = DataHash(m.env)
               PROVE  /\ EnvelopeOf(fs[p]) # Malformed
                      /\ UnpackOK(EnvelopeOf(fs[p])) <=>
                           (Sound(m) /\ ReceiptsParse(EnvelopeOf(fs[p])))
    BY DEF CreatedChecks
  <2> DEFINE file == fs[p]
             env == file.sign1
             header == env.protected
  <2>1. IsFile(file) /\ Decodes(file)
    BY DEF IInv, CoreInv, TypeOK
  <2>2. /\ header = m.env.protected /\ env.payload = m.env.payload
        /\ env.signature = m.env.signature
    BY DEF DataHash, Sha256
  <2>3. /\ {"alg", "x5chain"} \subseteq DOMAIN header
        /\ "cwt" \notin DOMAIN header
        /\ header.alg # Malformed
        /\ header.alg \in VerifierAlgs[m.key]
        /\ header.x5chain = [array |-> m.chain]
        /\ m.chain \in Seq(Range(m.chain)) /\ m.chain # <<>>
        /\ Malformed \notin Range(m.chain)
        /\ env.payload # Nil
        /\ env.signature = Sign(m.key, header.alg, header, env.payload)
        /\ SignedByCreate(m.env)
    BY <2>2 DEF IInv, MadeAsTold
  <2>4. SignedByCreate(env)
    BY <2>2, <2>3 DEF SignedByCreate
  <2>5. file.tagged
    BY <2>1, <2>4 DEF Decodes
  <2>6. EnvelopeOf(file) = env /\ env # Malformed
    BY <2>1, <2>5, TaggedIsEnvelope
  <2> HIDE DEF file, env
  <2>7. header.x5chain # Malformed
    <3>1. IsMap(header.x5chain)
      BY <2>3 DEF IsMap
    <3> QED
      BY <3>1 DEF NoMaps
  <2>8. X5Chain(env) = m.chain /\ LeafKey(env) = Head(m.chain).key
    BY <2>3 DEF X5Chain, LeafKey
  <2>9. ChainParses(env) <=> Len(m.chain) \in 1 .. MaxChain
    BY <2>3, <2>7, <2>8 DEF ChainParses
  <2> DEFINE leaf == LeafKey(env)
  <2> HIDE DEF leaf, header
  <2>10. (header.alg \in VerifierAlgs[leaf] /\ Verify(env, env.payload, header.alg, leaf))
           <=> leaf = m.key
    BY <2>3 DEF Verify, Sign, header
  <2>11. UnpackOK(env) <=> Sound(m) /\ ReceiptsParse(env)
    BY <2>3, <2>6, <2>8, <2>9, <2>10 DEF UnpackOK, Sound, leaf, header
  <2> QED
    BY <2>6, <2>11 DEF file, env
<1> QED
  BY <1>1, InitEstablishes, StepPreserves, PTL DEF Spec

\* A DID that did-x509 printed for a chain is the issuer of what create signs
\* with it under that chain, and resolves against what check finds there.
THEOREM PrintedDidsAreIssuers ==
  ASSUME NoMaps
  PROVE  Spec => []PrintedDidsResolve
<1>1. IInv => PrintedDidsResolve
  <2> SUFFICES ASSUME IInv, NEW d \in dids, NEW m \in made,
                      m.issuer = d.did, m.chain = d.chain
               PROVE  /\ EnvelopeIssuer(m.env) = d.did
                      /\ <<X5Chain(m.env), d.did>> \in DidMatches
    BY DEF PrintedDidsResolve
  <2>1. /\ EnvelopeIssuer(m.env) = m.issuer
        /\ m.env.protected.x5chain = [array |-> m.chain]
    BY DEF IInv, MadeAsTold
  <2>2. X5Chain(m.env) = d.chain
    BY <2>1 DEF X5Chain
  <2>3. <<d.chain, d.did>> \in DidMatches
    BY DEF IInv, DidsMatch
  <2> QED
    BY <2>1, <2>2, <2>3
<1> QED
  BY <1>1, InitEstablishes, StepPreserves, PTL DEF Spec
=============================================================================
