----------------------------- MODULE MCCacheRace -----------------------------
(***************************************************************************)
(* Model of CacheRace: s1 and s2 are cached, both of tenant t0 with no    *)
(* entity filter; a creation inserts s3 (same shape) and rolls it back.  *)
(* One request of t0 alters one attribute of E1.                          *)
(***************************************************************************)
EXTENDS CacheRace

MCSubs            == {"s1", "s2", "s3"}
MCTenants         == {"t0"}
MCEntityIds       == {"E1"}
MCEntityTypes     == {"T1"}
MCPatterns        == {".*"}
MCRegexMatch      == [p \in MCPatterns |-> MCEntityIds]
MCAttrNames       == {"temp"}
MCAlterationTypes == {"EntityModified", "AttributeModified"}
MCRequests        == {"r1"}
MCInitialCache    == <<"s1", "s2">>

MCSubConfig ==
  [s \in MCSubs |-> [tenant |-> "t0", entityIdInfos |-> << >>,
                     notifyConditionV |-> << >>,
                     triggers |-> [t \in MCAlterationTypes |-> TRUE],
                     expirationTime |-> 100, throttling |-> 0]]

MCInitialStatus == [s \in MCSubs |-> "active"]
MCReqTenant     == [r \in MCRequests |-> "t0"]
MCReqAlterations ==
  [r \in MCRequests |-> << [entityId |-> "E1", entityType |-> "T1",
                            alteredAttributeV |-> << [attrName |-> "temp",
                                                      alterationType |-> "AttributeModified"] >>] >>]

=============================================================================
