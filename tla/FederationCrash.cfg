\* Every remote broker creates every new id; two registrations lead to the
\* same broker.
SPECIFICATION Spec
CONSTANTS
  Requests <- MCRequests2
  ReqSubId <- MCReqSubId2
  ReqMqtt <- MCReqFalse2
  ReqPernot <- MCReqFalse2
  ReqEntityType <- MCReqEntityType2
  SubIds <- MCSubIds
  EntityTypes <- MCEntityTypes
  NoType = NoType
  Brokers <- MCBrokers
  RegInfo <- MCRegInfo
  RegBroker <- MCRegBroker
  RegList <- MCSameBroker
  DistSubsEnabled = TRUE
  ReqLocal <- MCReqFalse2
  RemoteOutcomes = {"created"}
  DbMayFail = FALSE
  MaxRestarts = 0
INVARIANTS
  NoCrash
