SPECIFICATION Spec
CONSTANTS
  Requests <- MCRequests
  ReqSubId <- MCReqSubId
  ReqMqtt <- MCReqMqtt
  ReqPernot <- MCReqPernot
  ReqEntityType <- MCReqEntityType
  SubIds <- MCSubIds
  EntityTypes <- MCEntityTypes
  NoType = NoType
  Brokers <- MCBrokers
  RegInfo <- MCRegInfo
  RegBroker <- MCRegBroker
  RegList <- MCNoInfoFirst
  DistSubsEnabled = TRUE
  ReqLocal <- MCReqLocal
  RemoteOutcomes = {"created", "redirected", "lost", "failed"}
  DbMayFail = TRUE
  MaxRestarts = 1
INVARIANTS
  TypeOK
  CreateAllOrNothing
PROPERTIES
  EveryCreationAnswered
