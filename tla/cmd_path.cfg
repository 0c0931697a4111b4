SPECIFICATION Spec
CONSTANTS
  LogAddresses <- MCLogAddresses
  LogSizes <- MCLogSizes
  Samples <- MCSamples
INVARIANTS
  TypeOK TaskFilePreserved TransferAgrees SuccessMeansDone LogsWhole
  TriedAsUsed ChecksumDecides
PROPERTY ImplementsService
