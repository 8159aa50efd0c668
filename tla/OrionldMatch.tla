---------------------------- MODULE OrionldMatch ----------------------------
(***************************************************************************)
(* The operators of the alteration matching engine, translated from        *)
(* src/lib/orionld/notifications/subCacheAlterationMatch.cpp.             *)
(*                                                                         *)
(* A cached subscription is split in two records: its filter (SubConfig:  *)
(* tenant, entities, watched attributes, triggers, expiration, throttling) *)
(* which only a PATCH changes, and the fields a matching pass or a        *)
(* notification writes (isActive, status, lastNotificationTime).          *)
(* A match list is a sequence of AlterationMatch records; the C linked    *)
(* list built by pointer splicing becomes sequence insertion.              *)
(***************************************************************************)
EXTENDS Integers, Sequences, SequencesExt

CONSTANTS
  Subs,             \* subscription ids (model values)
  Tenants,          \* tenant names
  EntityIds,        \* entity ids an alteration can carry
  EntityTypes,      \* entity types (expanded names)
  Patterns,         \* entity id patterns of subscriptions (isPattern)
  RegexMatch,       \* [Patterns -> SUBSET EntityIds]: what regexec accepts
  AttrNames,        \* attribute names (expanded)
  AlterationTypes,  \* the values of OrionldAlterationType
  EntityModified,   \* the whole-entity alteration type
  Multitenancy      \* the -multiservice option

ASSUME EntityModified \in AlterationTypes
ASSUME RegexMatch \in [Patterns -> SUBSET EntityIds]

EntityInfo ==
  [entityId : EntityIds \cup Patterns, isPattern : BOOLEAN, entityType : EntityTypes]

AttributeAlteration == [attrName : AttrNames, alterationType : AlterationTypes]

\* alteredAttributeV = << >> is a complete replace of the entity
Alteration ==
  [entityId : EntityIds, entityType : EntityTypes, alteredAttributeV : Seq(AttributeAlteration)]

\* aaIx = 0 stands for altAttrP == NULL (the whole-entity match)
AlterationMatch == [altIx : Nat \ {0}, aaIx : Nat, sub : Subs]

SubStatus == {"active", "paused", "expired"}

SubDynamic == [isActive : BOOLEAN, status : SubStatus, lastNotificationTime : Nat]

-----------------------------------------------------------------------------
(* Entity filter of a subscription: an id from one EntityInfo and a type  *)
(* from any (possibly other) EntityInfo.                                   *)

entityIdMatch(cfg, entityId) ==
  \E ix \in 1..Len(cfg.entityIdInfos) :
    LET eiP == cfg.entityIdInfos[ix]
    IN  IF eiP.isPattern THEN entityId \in RegexMatch[eiP.entityId]
                         ELSE eiP.entityId = entityId

entityTypeMatch(cfg, entityType) ==
  \E ix \in 1..Len(cfg.entityIdInfos) : cfg.entityIdInfos[ix].entityType = entityType

-----------------------------------------------------------------------------
(* Match list. A mutated variant is defined before each operator; the     *)
(* verification project substitutes it to check that a property notices.  *)

\* MUTANT: every match starts a new run at the head, as if the list were not grouped
matchListInsert_prepend(matchList, itemP) == <<itemP>> \o matchList

\* A match of a subscription already in the list is spliced in right after
\* the FIRST node of that subscription's run; otherwise it is prepended.
matchListInsert(matchList, itemP) ==
  LET matchIx == SelectInSeq(matchList, LAMBDA m : m.sub = itemP.sub)
  IN  IF matchIx = 0 THEN <<itemP>> \o matchList
                     ELSE InsertAt(matchList, matchIx + 1, itemP)

\* MUTANT: the alteration is recorded by its zero-based position in the list
matchToMatchList_zeroBased(matchList, subP, altIx, aaIx) ==
  LET amP == [altIx |-> altIx - 1, aaIx |-> aaIx, sub |-> subP]
  IN  IF matchList = << >> THEN <<amP>> ELSE matchListInsert(matchList, amP)

matchToMatchList(matchList, subP, altIx, aaIx) ==
  LET amP == [altIx |-> altIx, aaIx |-> aaIx, sub |-> subP]
  IN  IF matchList = << >> THEN <<amP>> ELSE matchListInsert(matchList, amP)

-----------------------------------------------------------------------------
(* Attribute-level pass                                                   *)

\* MUTANT: the watched-attribute list is not consulted
watchedAttribute_ignored(cfg, attrName) == TRUE

watchedAttribute(cfg, attrName) ==
  \/ cfg.notifyConditionV = << >>
  \/ Contains(cfg.notifyConditionV, attrName)

attributeMatch(matchList, subP, cfg, altIx, altP) ==
  LET wholeEntity ==
        IF altP.alteredAttributeV = << >> /\ cfg.triggers[EntityModified]
        THEN matchToMatchList(matchList, subP, altIx, 0)
        ELSE matchList
      admit(ml, aaIx) ==
        LET aaP == altP.alteredAttributeV[aaIx]
        IN  IF watchedAttribute(cfg, aaP.attrName) /\ cfg.triggers[aaP.alterationType]
            THEN matchToMatchList(ml, subP, altIx, aaIx)
            ELSE ml
  IN  FoldLeftDomain(admit, wholeEntity, altP.alteredAttributeV)

-----------------------------------------------------------------------------
(* Subscription-level guards of subCacheAlterationMatch, in code order.   *)

tenantMatch(subTenant, reqTenant) == subTenant = reqTenant

\* Not skipped by the tenant, isActive and status checks
Considered(cfg, st, reqTenant) ==
  /\ Multitenancy => tenantMatch(cfg.tenant, reqTenant)
  /\ st.isActive
  /\ st.status = "active"

Expired(cfg, requestTime) == cfg.expirationTime < requestTime

Throttled(cfg, st, requestTime) ==
  /\ cfg.throttling > 0
  /\ requestTime - st.lastNotificationTime < cfg.throttling

EntityMatch(cfg, altP) ==
  Len(cfg.entityIdInfos) > 0 =>
    /\ entityIdMatch(cfg, altP.entityId)
    /\ entityTypeMatch(cfg, altP.entityType)

\* One iteration of the inner loop: subscription subP against alteration
\* altIx. Returns the subscription's new dynamic fields (the expiry
\* transition is a side effect of matching) and the new match list.
SubAlterationMatch(subP, cfg, st, altIx, altP, reqTenant, requestTime, matchList) ==
  LET considered == Considered(cfg, st, reqTenant)
      expiresNow == considered /\ Expired(cfg, requestTime)
      eligible   == /\ considered
                    /\ ~Expired(cfg, requestTime)
                    /\ ~Throttled(cfg, st, requestTime)
                    /\ EntityMatch(cfg, altP)
  IN  [st |-> IF expiresNow
              THEN [st EXCEPT !.status = "expired", !.isActive = FALSE]
              ELSE st,
       matchList |-> IF eligible
                     THEN attributeMatch(matchList, subP, cfg, altIx, altP)
                     ELSE matchList]

=============================================================================
