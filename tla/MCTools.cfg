SPECIFICATION Spec
CONSTANTS
  Nil = Nil
  Malformed = Malformed
  Empty = Empty
  NoFile = NoFile
  MaxInt64 = 7
  MaxCommands = 3
  kL = kL
  kR = kR
  body = body
  given = given
  ledger = ledger
  VerifierAlgs <- MCVerifierAlgs
  ValidChains <- MCValidChains
  DidMatches <- MCDidMatches
  Paths <- MCPaths
  FileSystems <- MCFileSystems
  Commands <- MCCommands
INVARIANTS
  TypeOK
  CreatedChecks
  PrintedDidsResolve
  LeafIsTheSigner
PROPERTIES
  AttachKeepsStatement
  ChainAgreesWithCheck
  
