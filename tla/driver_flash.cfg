\* An enclosure that understands none of the modes, under the automatic detection.
SPECIFICATION Spec
CONSTANTS
  Setters = {s1}
  Enclosures <- MCEnclosures
  Ids <- MCIds
  Identifiers <- MCIdentifiers
  Unknown <- MCUnknown
  Orders <- MCOrders
  Personality <- MCPersonality
INVARIANT CapableMeansIdentified
CHECK_DEADLOCK FALSE
