\* The Name Resolver composed with the database-to-API rendering of
\* sub-attributes that calls it: lookups of other callers and renders
\* interleave and share the compaction counters.
SPECIFICATION RenderSpec
CONSTANTS
  Terms <- MCTerms
  Core = "core"
  UserContexts <- MCUserContexts
  ContextTable <- MCContextTable
  NoItem = NoItem
  NULL = NULL
  MaxLookups = 3
  DbSubAttrs <- MCDbSubAttrs
  EqForDot <- MCEqForDot
  NumberToDate <- MCNumberToDate
  MaxRenders = 2
INVARIANTS
  AliasAgreesWithReference
  RenderedAsApi
