\* A payload naming one attribute by its long name and then by its short
\* name is accepted with the attribute twice.
CONSTANTS
  Expansion      <- MCExpansion
  InvalidNames   <- MCInvalidNames
  UriValues      <- MCUriValues
  DotForEq       <- MCDotForEq
  Inputs         <- MCInputs
  DbAttrsChoices <- MCDbAttrsChoices
SPECIFICATION Spec
INVARIANT AcceptedMembersDistinct
