----------------------- MODULE MCSubscriptionMatching -----------------------
(***************************************************************************)
(* Model of SubscriptionMatching: three cached subscriptions, two request  *)
(* threads of tenant t0.                                                   *)
(*  s1: type T1 with any id, watches "temp", AttributeAdded trigger off,  *)
(*      throttling 2, never expires within the clock bound;               *)
(*  s2: id E1 (literal) or any id of type T2 -- a broad match accepts E2  *)
(*      of type T1 too -- watches everything, expires at time 2;          *)
(*  s3: tenant t1, no entity filter, paused.                               *)
(* r1 alters E1 (two attributes) and then replaces E1 as a whole: three  *)
(* matches of s2 in one pass. r2 alters "temp" of E2.                     *)
(***************************************************************************)
EXTENDS SubscriptionMatching

MCSubs            == {"s1", "s2", "s3"}
MCTenants         == {"t0", "t1"}
MCEntityIds       == {"E1", "E2"}
MCEntityTypes     == {"T1", "T2"}
MCPatterns        == {".*"}
MCRegexMatch      == [p \in MCPatterns |-> MCEntityIds]
MCAttrNames       == {"temp", "batt"}
MCAlterationTypes == {"EntityModified", "AttributeModified", "AttributeAdded"}
MCRequests        == {"r1", "r2"}
MCCacheList       == <<"s1", "s2", "s3">>

AllOn == [t \in MCAlterationTypes |-> TRUE]

MCSubConfig ==
  [s1 |-> [tenant |-> "t0",
           entityIdInfos |-> <<[entityId |-> ".*", isPattern |-> TRUE, entityType |-> "T1"]>>,
           notifyConditionV |-> <<"temp">>,
           triggers |-> [AllOn EXCEPT !["AttributeAdded"] = FALSE],
           expirationTime |-> 100, throttling |-> 2],
   s2 |-> [tenant |-> "t0",
           entityIdInfos |-> <<[entityId |-> "E1", isPattern |-> FALSE, entityType |-> "T2"],
                               [entityId |-> ".*", isPattern |-> TRUE, entityType |-> "T1"]>>,
           notifyConditionV |-> << >>,
           triggers |-> AllOn,
           expirationTime |-> 2, throttling |-> 0],
   s3 |-> [tenant |-> "t1",
           entityIdInfos |-> << >>,
           notifyConditionV |-> << >>,
           triggers |-> AllOn,
           expirationTime |-> 100, throttling |-> 0]]

MCInitialStatus == [s1 |-> "active", s2 |-> "active", s3 |-> "paused"]

MCReqTenant == [r \in MCRequests |-> "t0"]

MCReqAlterations ==
  [r1 |-> << [entityId |-> "E1", entityType |-> "T1",
              alteredAttributeV |-> << [attrName |-> "temp", alterationType |-> "AttributeModified"],
                                       [attrName |-> "batt", alterationType |-> "AttributeAdded"] >>],
             [entityId |-> "E1", entityType |-> "T1", alteredAttributeV |-> << >>] >>,
   r2 |-> << [entityId |-> "E2", entityType |-> "T1",
              alteredAttributeV |-> << [attrName |-> "temp", alterationType |-> "AttributeModified"] >>] >>]

=============================================================================
