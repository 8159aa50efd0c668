\* An attribute without "type" is accepted with fields its deduced type forbids.
CONSTANTS
  Strings    <- MCStrings
  UrnStrings <- MCUrnStrings
  Inputs     <- MCInputs
  DbTypes    <- MCDbTypes
SPECIFICATION Spec
INVARIANT AcceptedAttributeCoherent
