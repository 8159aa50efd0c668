SPECIFICATION Spec
CONSTANTS
  Requests <- MCRequests2
  ReqSubId <- MCReqSubId2
  ReqMqtt <- MCReqFalse2
  ReqPernot <- MCReqFalse2
  ReqEntityType <- MCReqEntityType2
  SubIds <- MCSubIds
  EntityTypes <- MCEntityTypes
  NoType = NoType
  Brokers <- MCBrokers
  RegInfo <- MCRegInfo
  RegBroker <- MCRegBroker
  RegList <- MCCoverT2
  DistSubsEnabled = TRUE
  ReqLocal <- MCReqFalse2
  RemoteOutcomes = {"created"}
  DbMayFail = FALSE
  MaxRestarts = 0
INVARIANTS
  SubordinateOnlyOnCoveringRegistration
