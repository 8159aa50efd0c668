\* Two overlapping requests both pass the throttle check before either notifies.
CONSTANTS
  Subs            <- MCSubs
  Tenants         <- MCTenants
  EntityIds       <- MCEntityIds
  EntityTypes     <- MCEntityTypes
  Patterns        <- MCPatterns
  RegexMatch      <- MCRegexMatch
  AttrNames       <- MCAttrNames
  AlterationTypes <- MCAlterationTypes
  EntityModified  = "EntityModified"
  Multitenancy    = TRUE
  Requests        <- MCRequests
  CacheList       <- MCCacheList
  SubConfig       <- MCSubConfig
  InitialStatus   <- MCInitialStatus
  ReqTenant       <- MCReqTenant
  ReqAlterations  <- MCReqAlterations
  StartTime       = 2
  MaxTime         = 5
  MaxOverlap      = 2
SPECIFICATION Spec
INVARIANT ThrottleRespected
