\* Every bounded subscription/alteration pair: the loop body agrees with spec section 8.
CONSTANTS
  Subs            = {"s1"}
  Sub             = "s1"
  Tenants         = {"t0", "t1"}
  ReqTenant       = "t0"
  Multitenancy    = TRUE
  EntityIds       <- MCEntityIds
  EntityTypes     <- MCEntityTypes
  Patterns        <- MCPatterns
  RegexMatch      <- MCRegexMatch
  AttrNames       <- MCAttrNames
  AlterationTypes <- MCAlterationTypes
  AttrAlterationTypes <- MCAttrAlterationTypes
  EntityModified  = "EntityModified"
  EntityInfoChoices <- MCEntityInfoChoices
  MaxEntityInfos  = 2
  MaxAttrAlterations = 2
  RequestTime     = 10
SPECIFICATION Spec
INVARIANT MatchAgreesWithReference
