SPECIFICATION FairSpec
CONSTANTS
  NoIssuer = NoIssuer
  NoPort = NoPort
  UnknownKey = UnknownKey
  MaxRotations = 1
  k1 = k1
  k2 = k2
  Calls <- MCCalls
  Endpoints <- MCEndpoints
  JWKSets <- MCJWKSets
INVARIANTS
  TypeOK
  ReturnedKeysAreTheIssuers
  
  ConflictsAreBetweenIssuers
PROPERTIES
  
  Termination
