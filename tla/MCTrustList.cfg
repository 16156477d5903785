SPECIFICATION FairSpec
CONSTANTS
  Malformed = Malformed
  EmptyKid = EmptyKid
  Payloads <- MCPayloads
  k1 = k1
  k2 = k2
  a = a
  b = b
  ledger1 = ledger1
  ledger2 = ledger2
INVARIANTS
  TypeOK
  KeysAreFirstValid
  NoEmptyKeyMap
  VerdictIgnoresOrder
PROPERTIES
  ImplementsParse
  
