------------------------------ MODULE MatchPass ------------------------------
(***************************************************************************)
(* The matching predicate of subCacheAlterationMatch, checked against the *)
(* characterisation of spec section 8 over every bounded input: one       *)
(* cached subscription (filter, triggers, watched attributes, status,     *)
(* expiry, throttling, tenant) against one alteration.                    *)
(*                                                                         *)
(* Init picks an input; Evaluate runs one iteration of the loop body      *)
(* (OrionldMatch!SubAlterationMatch) on it.                                *)
(***************************************************************************)
EXTENDS OrionldMatch, FiniteSets

CONSTANTS
  Sub,           \* the subscription under test
  ReqTenant,     \* tenant of the request
  RequestTime,   \* orionldState.requestTime of the pass
  EntityInfoChoices,  \* EntityInfo records a subscription may hold
  MaxEntityInfos,     \* bound on Len(entityIdInfos)
  MaxAttrAlterations, \* bound on Len(alteredAttributeV)
  AttrAlterationTypes \* alteration types an attribute alteration carries

VARIABLES cfg, st, alt, result

vars == <<cfg, st, alt, result>>

SubConfigs ==
  [tenant           : Tenants,
   entityIdInfos    : BoundedSeq(EntityInfoChoices, MaxEntityInfos),
   notifyConditionV : {<< >>} \cup {<<a>> : a \in AttrNames},
   triggers         : [AlterationTypes -> BOOLEAN],
   expirationTime   : {RequestTime - 1, RequestTime},
   throttling       : {0, 2}]

\* isActive is FALSE exactly when the subscription is paused or expired
SubStates ==
  {[isActive |-> s = "active", status |-> s, lastNotificationTime |-> t] :
     s \in {"active", "paused"}, t \in {RequestTime - 2, RequestTime - 1}}

Alterations ==
  [entityId          : EntityIds,
   entityType        : EntityTypes,
   alteredAttributeV : BoundedSeq([attrName : AttrNames,
                                   alterationType : AttrAlterationTypes],
                                  MaxAttrAlterations)]

TypeOK ==
  /\ cfg \in SubConfigs
  /\ st \in SubDynamic
  /\ alt \in Alteration
  /\ result.matchList \in Seq(AlterationMatch)

Init ==
  /\ cfg \in SubConfigs
  /\ st \in SubStates
  /\ alt \in Alterations
  /\ result = [st |-> st, matchList |-> << >>, pending |-> TRUE]

Evaluate ==
  /\ result.pending
  /\ result' = LET r == SubAlterationMatch(Sub, cfg, st, 1, alt, ReqTenant, RequestTime, << >>)
               IN  [st |-> r.st, matchList |-> r.matchList, pending |-> FALSE]
  /\ UNCHANGED <<cfg, st, alt>>

Done ==
  /\ ~result.pending
  /\ UNCHANGED vars

Next == Evaluate \/ Done

Spec == Init /\ [][Next]_vars

-----------------------------------------------------------------------------
(* Reference, from spec section 8: S is matched by A iff the tenant       *)
(* matches, S is active and unexpired and not throttled, S has no         *)
(* EntityInfo or some EntityInfo id-matches A and some EntityInfo type-   *)
(* matches A, and the trigger of the alteration kind is on (EntityModified *)
(* for a whole-entity replace) with, for attributes, the attribute in the *)
(* watch list or the watch list empty. Written from the spec, not from    *)
(* the code.                                                               *)

IdMatches(ei, id) ==
  IF ei.entityId \in Patterns THEN id \in RegexMatch[ei.entityId] ELSE id = ei.entityId

RefSubMatches ==
  /\ Multitenancy => cfg.tenant = ReqTenant
  /\ st.status = "active" /\ st.isActive
  /\ RequestTime <= cfg.expirationTime
  /\ cfg.throttling > 0 => RequestTime - st.lastNotificationTime >= cfg.throttling
  /\ \/ cfg.entityIdInfos = << >>
     \/ /\ \E i \in DOMAIN cfg.entityIdInfos : IdMatches(cfg.entityIdInfos[i], alt.entityId)
        /\ \E j \in DOMAIN cfg.entityIdInfos : cfg.entityIdInfos[j].entityType = alt.entityType

\* The set of attribute indices (0: the whole entity) that must be matched
RefMatches ==
  IF ~RefSubMatches THEN {}
  ELSE IF alt.alteredAttributeV = << >>
       THEN IF cfg.triggers[EntityModified] THEN {0} ELSE {}
       ELSE {i \in DOMAIN alt.alteredAttributeV :
               /\ cfg.triggers[alt.alteredAttributeV[i].alterationType]
               /\ \/ cfg.notifyConditionV = << >>
                  \/ alt.alteredAttributeV[i].attrName \in Range(cfg.notifyConditionV)}

RefExpires ==
  /\ Multitenancy => cfg.tenant = ReqTenant
  /\ st.status = "active" /\ st.isActive
  /\ cfg.expirationTime < RequestTime

\* The pass produces exactly the reference matches, each once, all bound
\* to this alteration and subscription; and it makes the expiry transition
\* exactly when the subscription is seen expired.
MatchAgreesWithReference ==
  ~result.pending =>
    LET ml == result.matchList
    IN  /\ {ml[i].aaIx : i \in DOMAIN ml} = RefMatches
        /\ Len(ml) = Cardinality(RefMatches)
        /\ \A i \in DOMAIN ml : ml[i].altIx = 1 /\ ml[i].sub = Sub
        /\ result.st.status = (IF RefExpires THEN "expired" ELSE st.status)
        /\ result.st.isActive = (st.isActive /\ ~RefExpires)

=============================================================================
