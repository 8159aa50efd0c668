---------------------------- MODULE MCMatchPass ----------------------------
(***************************************************************************)
(* Inputs of MatchPass: two tenants, two entity ids and types, the "any   *)
(* id" pattern, two attributes, subscriptions with up to two EntityInfos  *)
(* drawn from four (literal and pattern ids, both types), alterations     *)
(* with up to two attribute alterations. The expiry and throttling values  *)
(* sit on both sides of their boundaries.                                  *)
(***************************************************************************)
EXTENDS MatchPass

MCEntityIds       == {"E1", "E2"}
MCEntityTypes     == {"T1", "T2"}
MCPatterns        == {".*"}
MCRegexMatch      == [p \in MCPatterns |-> MCEntityIds]
MCAttrNames       == {"temp", "batt"}
MCAlterationTypes == {"EntityModified", "AttributeModified", "AttributeAdded"}
MCAttrAlterationTypes == {"AttributeModified", "AttributeAdded"}

MCEntityInfoChoices ==
  { [entityId |-> "E1", isPattern |-> FALSE, entityType |-> "T1"],
    [entityId |-> "E2", isPattern |-> FALSE, entityType |-> "T2"],
    [entityId |-> ".*", isPattern |-> TRUE,  entityType |-> "T1"],
    [entityId |-> ".*", isPattern |-> TRUE,  entityType |-> "T2"] }

=============================================================================
