\* A rolled-back creation frees its subscription while a pass uses it.
CONSTANTS
  Subs            <- MCSubs
  Tenants         <- MCTenants
  EntityIds       <- MCEntityIds
  EntityTypes     <- MCEntityTypes
  Patterns        <- MCPatterns
  RegexMatch      <- MCRegexMatch
  AttrNames       <- MCAttrNames
  AlterationTypes <- MCAlterationTypes
  EntityModified  = "EntityModified"
  Multitenancy    = TRUE
  Requests        <- MCRequests
  InitialCache    <- MCInitialCache
  Creations       = {"s3"}
  SubConfig       <- MCSubConfig
  InitialStatus   <- MCInitialStatus
  ReqTenant       <- MCReqTenant
  ReqAlterations  <- MCReqAlterations
  RequestTime     = 5
SPECIFICATION Spec
INVARIANT NoFreedSubscriptionInUse
