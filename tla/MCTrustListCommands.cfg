SPECIFICATION Spec
CONSTANTS
  Nil = Nil
  Malformed = Malformed
  Empty = Empty
  NoPort = NoPort
  NoFile = NoFile
  EmptyKid = 0
  UnknownKey = UnknownKey
  MaxInt64 = 7
  k1 = k1
  k2 = k2
  ed = ed
  kL = kL
  kM = kM
  did1 = did1
  VerifierAlgs <- MCVerifierAlgs
  ValidChains = {}
  DidMatches = {}
  LedgerLists <- MCLedgerLists
  Files <- MCFiles
  JWKSets <- MCJWKSets
  EcKeys = {k1, k2}
INVARIANTS
  TypeOK
  WrittenReadsBack
  
PROPERTIES
  WholeOrUntouched
