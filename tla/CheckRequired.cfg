SPECIFICATION FairCommandSpec
CONSTANTS
  Nil = Nil
  Malformed = Malformed
  Empty = Empty
  NoIssuer = Empty
  NoPort = NoPort
  NoFile = NoFile
  EmptyKid = EmptyKid
  UnknownKey = UnknownKey
  MaxInt64 = 7
  MaxRotations = 2
  kA1 = kA1
  kA2 = kA2
  kB = kB
  kL = kL
  kM = kM
  tx = tx
  body = body
  body2 = body2
  did1 = did1
  did2 = did2
  VerifierAlgs <- MCVerifierAlgs
  ValidChains <- MCValidChains
  DidMatches <- MCDidMatches
  Calls = {}
  Endpoints <- MCEndpoints
  JWKSets <- MCJWKSets
  Commands <- MCCommands
  LedgerOf <- MCLedgerOf
  Entries <- MCEntries
  Split <- MCSplit
INVARIANT
  RequiredReceiptIsThere
