SPECIFICATION FairSpec
CONSTANTS
  Nil = Nil
  Malformed = Malformed
  MaxInt64 = 7
  VerifierAlgs <- MCVerifierAlgs
  Entries <- MCEntries
  Split <- MCSplit
  Receipts <- MCReceipts
  KeyMaps <- MCKeyMaps
  kA = kA
  kB = kB
  kX = kX
  d1 = d1
  d2 = d2
  d3 = d3
  tx1 = tx1
  tx2 = tx2
  tx3 = tx3
  tx4 = tx4
  other = other
INVARIANTS
  TypeOK
  HashClimbs
  AcceptedMeansRegistered
  VerdictIsReceiptValid
  IssuedNotRejected

  
