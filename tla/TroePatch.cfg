\* The TRoE patch of an entity: the path handling of every PATH of up to
\* seven names, and sequences of up to three tree edits of the patch base.
SPECIFICATION PatchSpec
CONSTANTS
  Names <- MCNames
  MaxPathLen = 7
  Leaves <- MCLeaves
  InitialBase <- MCInitialBase
  Patches <- MCPatches
INVARIANTS
  StepPathsAgreeWithReference
PROPERTIES
  PatchEditsOnlyItsPath
