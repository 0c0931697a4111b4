SPECIFICATION Spec
CONSTANTS
  LogAddresses <- MCLogAddresses
  LogSizes <- MCLogSizes
  Samples <- MCSamples
INVARIANT AutosaveEnabled
