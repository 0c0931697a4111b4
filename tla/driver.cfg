\* One process that sets the mode at any time, the thread call, start and stop.
SPECIFICATION Spec
CONSTANTS
  Setters = {s1}
  Enclosures <- MCEnclosures
  Ids <- MCIds
  Identifiers <- MCIdentifiers
  Unknown <- MCUnknown
  Orders <- MCOrders
  Personality <- MCPersonality
INVARIANTS
  TypeOK
  ReferencesExact
  ModeAgrees
  CapablePropertyTrue
  CommandsAsConfigured
  KnownByName
PROPERTIES
  AutoFindsMode
  PollReachesVerdict
  DriverFreed
\* A detached driver does nothing any more.
CHECK_DEADLOCK FALSE
