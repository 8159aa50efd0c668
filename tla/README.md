# TLA+ models of the Orion-LD subscription core

This directory holds TLA+ models of the subscription matching, notification
and federation code of Orion-LD under `src/src/lib/orionld/`. It also holds
the TLC configurations that check them. Every operator and action is
translated from the C++ source. `PROJECT.json` maps each definition to the
lines it models. The only exception is code that is not under `src/`, such
as the notification dispatcher loop and the start-up cache refresh. Those
are modelled from `spec.md` and marked `spec_modelled` in the map.

## 1. The system

The parts, how they interact, and their state. Spec section numbers are in
brackets.

| Part | Source | State | Operations |
|---|---|---|---|
| Matching Engine [4.3] | `notifications/subCacheAlterationMatch.cpp` | reads the subscription cache; writes `status`/`isActive` (expiry) | `subCacheAlterationMatch` (loop over alterations × cached subscriptions), `attributeMatch`, `entityIdMatch`, `entityTypeMatch`, `matchToMatchList`, `matchListInsert` |
| Notification Dispatcher [4.4] | not under `src/`; `http/httpRequest.cpp` is its HTTP primitive | `lastNotificationTime`, counters `timesSent`/`timesFailed` (`types/SubCacheItem.h`) | one delivery per subscription run of the match list; `httpRequest` (curl, 5000 ms timeout, FAILONERROR, FOLLOWLOCATION) |
| Subscription Registry [4.2] and creation | `serviceRoutines/orionldPostSubscriptions.cpp` | sub cache, pernot (periodic) cache, database, MQTT connections | existence check, MQTT connect, cache insert, federation, DB insert, rollback |
| Federation Manager [4.5] | `orionldPostSubscriptions.cpp` (`subordinateCreate`), `regMatch/regMatchSubscription.cpp` | the parent's subordinate list (`types/SubordinateSubscription.h`), subscriptions on remote brokers | matching registrations, creating subordinates with run numbers |
| Notification relay [4.5] | `serviceRoutines/orionldPostNotification.cpp` | none of its own | parent lookup, id substitution, forward to the parent's endpoint |
| Name Resolver [4.1] | `context/orionldContextItemAliasLookup.cpp` | `compactions` counters of contexts | alias lookup: default URL, then core context, then the given context |
| Registration deletion | `serviceRoutines/orionldDeleteRegistration.cpp` | registrations in the DB | `mongoRegistrationDelete` only |
| TRoE patch | `troe/troePatchEntity2.cpp` | the patch base of the request (`orionldState.patchBase`) | `pathComponentsSplit`, `pathComponentsFix`, `pathArrayJoin`, `kjNavigate`, `patchApply` (add, remove or replace at the fixed path), the step loop of `troePatchEntity2` |
| Payload checks [not in spec] | `payloadCheck/pbodyAttribute.cpp`, `payloadCheck/pCheckEntity.cpp` | none (pure, rewrites the request tree) | smart-format check and normalisation of an attribute; entity member loop |
| DB model conversion | `db/dbModelToApiSubAttribute.cpp` | none of its own; calls the Name Resolver, so it counts compactions | `dbModelToApiSubAttribute2` (stored sub-attribute to API form), `dbModelToObservedAt` |
| v2, errors | `serviceRoutinesV2/getEntity.cpp`, `common/orionldError.cpp`, `temporal/temporal.h` | none shared | conversion of JSON trees, error records |

Interactions:
- A request thread that altered entities runs the matching loop over the
  shared subscription cache. It takes no lock.
- The loop's match list goes to the dispatcher. The dispatcher writes
  `lastNotificationTime`, which the throttling check of the next pass reads.
- Creating a subscription writes the same cache, then runs federation
  synchronously. Federation is one `httpRequest` per matching registration.
  The database insertion comes after it, and its failure rolls back the
  cache entry and the MQTT connection.
- A remote broker holding a subordinate sends notifications to
  `/ngsi-ld/ex/v1/notifications/<parent>`. The relay looks the parent up in
  the cache and forwards them there.

Hard behaviours:
- Matching passes of several requests interleave with each other, with
  dispatches, and with creations and rollbacks. The throttling and expiry
  checks are check-then-act on fields that other threads write.
- The match list is grouped by pointer splicing.
- Federation meets remote brokers that refuse, redirect, time out or are
  unreachable.
- Creation can fail partway, after the cache insertion and the remote
  subordinates.
- The process can crash (NULL dereferences on the federation paths) and
  restart from the database.

## 2. Modules

| Module | Models | State (VARIABLES) | Actions |
|---|---|---|---|
| `OrionldMatch` | the operators of `subCacheAlterationMatch.cpp` | (constants only) | `entityIdMatch`, `entityTypeMatch`, `matchListInsert`, `matchToMatchList`, `watchedAttribute`, `attributeMatch`, `Considered`, `Expired`, `Throttled`, `EntityMatch`, `SubAlterationMatch` (one iteration of the inner loop: new subscription state and new match list) |
| `SubscriptionMatching` | concurrent matching passes and dispatch | `subState` (isActive, status, lastNotificationTime per subscription), `now`, `req` (per request: pc, requestTime, loop indices, match list), `notified` (history) | `Tick`, `StartRequest`, `MatchStep` (one subscription × one alteration), `MatchDone`, `Dispatch` (one run of the match list, success or failure), `DispatchDone` |
| `MatchPass` | the matching predicate, checked against the spec's rules | `cfg`, `st`, `alt`, `result` | `Evaluate` (one call of `SubAlterationMatch` on an input enumerated by `Init`) |
| `NameResolver` | `orionldContextItemAliasLookup` | `compactions` per context, `calls` (history) | `AliasLookup` (one call: default-prefix strip, core context, then the given one, fallback to the long name, counter increment) |
| `SubAttributeRender` | `dbModelToApiSubAttribute2` and `dbModelToObservedAt`, composed with `NameResolver` (it EXTENDS it) | those of `NameResolver`, and `renders` (history: context, stored sub-attribute, sysAttrs, rendered name and value) | `RenderSubAttribute` (eqForDot, one `AliasLookup`, type moved, `value` renamed after the type, unitCode/observedAt kept, creDate/modDate renamed under sysAttrs, the rest dropped), `RenderObservedAt` (number to DateTime, string kept, else a 500 and "ERROR"), and `NameResolver`'s lookups of other callers interleaved |
| `TroePath` | `pathComponentsSplit`, `pathComponentsFix`, `pathArrayJoin` and the skip decision of `patchApply` | (operators only) | `PatchPathOutcomes` (the path handling of one patch step; the C loops are RECURSIVE operators over the 7-slot `compV`) |
| `TroePatch` | `kjNavigate`, `patchApply` and `troePatchEntity2` (it EXTENDS `TroePath`); a KjNode tree is a function from node paths to kinds (`obj`, `null`, a leaf) | `base` (the patch base), `patch` (steps not applied yet), `applied` (history of path outcomes), `pushed` (the tree handed to `troePatchEntity`) | `ApplyStep` (one `patchApply`: path handling, navigation, strip of modDate/creDate/mdNames, then add under the parent, remove, replace, or nothing; a lookup inside a non-object is recorded as undefined), `Push` (lines 300-303) |
| `ResponseBuffer` | `writeCallback` of `httpRequest` | `buf`, `size`, `used`, `received`, `writes` (history of the copies) | `writeCallback` (one body chunk: grow if the chunk and the NUL do not fit, copy, terminate) |
| `PostSubscription` | `orionldPostSubscriptions`, `subordinateCreate`, `regMatchSubscription`, the status `httpRequest` returns | `pc`, `regIx` per request; `subCache`, `pernotCache`, `subordinates`, `db`, `remoteSubs` (per remote broker), `mqttConns`, `crashed`, `restarts`, `relayed` (notifications of remote subordinates and where the relay sent them) | `CheckExists`, `MqttConnect`, `CacheInsert`, `FederateReg` (one registration of the loop: `regMatchSubscription`, then `subordinateCreate`, including the crash on a NULL), `FederationDone`, `DbInsert` (with rollback), `Relay` (`orionldPostNotification`: parent lookup in the sub cache, forward or drop), `Restart` |
| `PayloadAttribute` | `pbodyAttribute` and every helper it calls (`pbodyAttributeType`, `valueAndTypeCheck`, `pbodyGeoPropertyValue`, `attributeTransform`, the per-type functions), as RECURSIVE operators over bounded JSON values; `pcheckAttributeType` as the reference | `input`, `dbType`, `result` | `Evaluate` (one call of `pbodyAttribute` on an input enumerated by `Init`) |
| `EntityPayload` | `pCheckEntity` with `kjLookupByNameExceptOne`, `idCheck`, `typeCheck`, `attrTypeFromDb`; the entity is a sequence of members whose names the loop rewrites in place | `entity`, `dbAttrs` (`<< >>` for no entity in the DB), `result` | `Evaluate` (one call of `pCheckEntity`: timestamp removal, then the RECURSIVE member loop) |
| `NotificationService` | what matching and dispatch promise together (spec 4.3, 4.4, 8), with no list or cache: the abstract specification | `passTime`, `pending`, `delivered` per request | `Start` (a pass starts at a time), `Hand` (one step hands over a set of subscriptions eligible at that time), `Deliver` (one delivery attempt) |
| `CacheRace` | the cached subscription list shared by a matching pass (pointer walk of line 219) and by a creation that inserts and rolls back (lines 388-398, 469-477) | `cache` (the list), `subState`, `req` (per request: pc, current node `cur`, alteration index, match list), `created`, `freed`, `staleNext` (the next pointer left in a freed node) | `StartRequest`, `MatchStep` (one node: `SubAlterationMatch`, then `subP = subP->next`, undefined on a freed node), `NextAlteration`, `MatchDone`, `Dispatch`, `CacheInsert` (at any position), `CacheRemove` (unlink and free) |

`MC*` modules give the constants values for TLC.

Abstractions:
- Entity ids, types, attribute names, tenants and subscription ids are
  strings in the code and model values here.
- A regular expression is the set of ids it accepts (`RegexMatch`).
- The C linked match list is a sequence. Splicing after the first node of a
  run is `InsertAt(ml, ix + 1, m)`.
- A subordinate id `"<parent>:<runNo>"` is the pair `<<parent, runNo>>`.
- An HTTP exchange is its sequence of status lines plus whether the
  transport succeeded. `httpRequest` returns what the header callback and
  FAILONERROR make of it.

## 3. Runs

| Run | Config | Expect | What it shows |
|---|---|---|---|
| matching_concurrent | `SubscriptionMatching.cfg` | pass | Two requests in their passes at once over s1 (throttled, watches `temp`), s2 (broad match, expires at 2) and s3 (other tenant, paused). The concurrent passes refine `NotificationService` (`ImplementsNotificationService`): each pass hands over, at once, a set of subscriptions eligible at its request time, each gets exactly one delivery attempt (grouping), and eventually all of them do (liveness). |
| throttle_concurrent | `ThrottleConcurrent.cfg` | violation | With two overlapping passes, both read the old `lastNotificationTime` and both deliver inside the window (line 247). |
| match_reference | `MatchPass.cfg` | pass | Covers 2.7 million inputs: entity filters of up to two EntityInfos (literal or pattern), trigger masks, watch lists, expiry at and just before the request time, throttling on or off, paused or active, up to two attribute alterations or a whole-entity replace. The loop body gives exactly the reference matches and expiry transition. |
| post_subscription | `PostSubscription.cfg` | pass | Four concurrent creations: two share an id, one is periodic with `?local=true` (no federation), one is periodic over MQTT and is refused with 501 before the cache. Federation runs over a registration without `information` followed by a covering one. Database failures, remote outcomes (created, redirected, lost, failed) and one crash with restart all occur. Creation is all or nothing in the caches, the database and the MQTT connections, and every started creation is eventually answered unless the broker crashes (`EveryCreationAnswered`). |
| federation_crash | `FederationCrash.cfg` | violation | With every remote broker healthy, two registrations of one broker crash the broker. The second subordinate reuses the id `<parent>:1`, because the run number is never raised (line 101). The remote answers 409, and line 450 dereferences the NULL that `subordinateCreate` returns. A timeout or an unreachable broker ends the same way. |
| federation_coverage | `FederationCoverage.cfg` | violation | A registration covering T2 gets a subordinate of a T1 subscription (regMatchSubscription, line 69). |
| cache_race | `CacheRace.cfg` | violation | A creation inserts s3 at the head of the cache, a pass starts on it, the database insertion fails and the rollback frees s3: the pass's next `subP->next` reads freed memory (`NoFreedSubscriptionInUse`). |
| payload_attribute | `PayloadAttribute.cfg` | violation | Over 331,580 attribute payloads × database types, `pbodyAttribute` accepts `{"object": "urn:ngsi-ld:E1"}` for an attribute that is a Property in the database: with no `type` in the body, the type comes from the database and `valueAndTypeCheck` (line 564) is skipped, so `object` is taken for a sub-attribute (`AcceptedAttributeCoherent`). |
| entity_duplicates | `EntityPayload.cfg` | violation | Over every entity payload of up to three members, and every database state, `pCheckEntity` accepts `{"https://ex.org/temperature": …, "temperature": …}` and leaves both members named `https://ex.org/temperature`. The duplicate check at line 200 compares the current member's name, still unexpanded, with the names of the earlier members, already expanded at line 238. The other order is rejected (`AcceptedMembersDistinct`). |
| troe_patch | `TroePatch.cfg` | pass | Every PATH of up to 7 names, over the names that steer the code (`attrs`, `md`, `value`, `observedAt`, `unitCode`, `modDate`, an attribute), is split, rewritten, skipped and joined as the comments of `troePatchEntity2.cpp` describe (`StepPathsAgreeWithReference`). Sequences of up to three tree edits (a new attribute in DB form, a value, an observedAt through `md`, a null TREE, a sub-attribute, a missing attribute, a modDate) each edit the base at the path the comments give and nowhere else (`PatchEditsOnlyItsPath`, an action property). The bare path `attrs` is excluded: for it `pathComponentsFix` reads `compV[-1]` (line 168), and the model makes the skip decision nondeterministic. |
| name_resolver | `SubAttributeRender.cfg` | pass | Up to three lookups, direct or made by two renders of stored sub-attributes, with or without a user context: each returns the alias of spec 4.1, with the core context first, and the counters add up to the number of compacted calls. Every stored sub-attribute is rendered in API form: the alias of its decoded name, its type, its value under `value`, `object` or `languageMap` after the type, `createdAt`/`modifiedAt` exactly when sysAttrs is set, nothing of the DB model left over (`RenderedAsApi`). |
| response_buffer | `ResponseBuffer.cfg` | pass | Up to four chunks of 0, 1, 511 or 512 bytes. A 512-byte chunk after the first exactly fills the room left. Every copy and its NUL stay inside the buffer. |

These disagreements are documented as hazards in `PROJECT.json` and not
checked by a run:
- A pass whose request arrived before a subscription's expiry, but which
  reaches it after a later pass has made the expiry transition (line 239),
  finds `isActive` false and skips it, so that notification is lost.
  `NotificationService` lets a pass hand over any subset of the
  subscriptions eligible at its time, so the refinement allows this.
- A subordinate whose creation answer is lost (the 5000 ms timeout) or
  redirected exists on the remote broker, and the parent records nothing
  (lines 159-163).
- The crash of line 436 for a periodic subscription with registrations
  that have `information` is modelled in `FederateReg`, but no run reaches
  it: the periodic requests of `post_subscription` are local or refused
  for MQTT.
- `matchListInsert` (line 103) splices a new match after the first node of
  its subscription's run. Three matches of one subscription come out m1,
  m3, m2, while the spec says a match is appended. Only the order inside a
  group changes.
- Line 99 of `orionldContextItemAliasLookup` counts a compaction on the
  context passed in, also when the core context held the alias. Spec 4.1
  says the holding context. Only statistics change.
- `pathComponentsFix` reads `compV[-1]` for the PATH `attrs` (line 168). A
  unit test with that one path reaches it.
- Federation runs before the database insertion (lines 432-460 and 463),
  and the rollback at lines 469-484 removes only the cache entry and the
  MQTT connection. A subordinate created for a parent whose insertion then
  fails stays on the remote broker, and the relay drops its notifications
  (`orionldPostNotification.cpp:72`). Spec 7(d) says a failed creation is
  rolled back. The relay is modelled (`Relay`), and this was shown in an
  earlier version of the project; no run checks it now.

Throttling is checked as a guard against the reference in
`match_reference`. Across overlapping passes it is checked in
`throttle_concurrent`.

### Refinement
`SubscriptionMatching` instantiates `NotificationService` with the mapping:
- `passTime[r]` is the request's `requestTime`;
- `pending[r]` is the set of subscriptions in the match list while the
  request is dispatching, and empty otherwise;
- `delivered[r]` is the set of subscriptions `notified` records for `r`;
- `Eligible(r, t)` is the subscriptions of `r`'s tenant, active when the
  cache was loaded and not expired at `t`.

A matching step is a stutter of the abstract spec; `MatchDone` is `Hand`;
each `Dispatch` of one run of the match list is `Deliver`. The grouping bug
(a match inserted at the head instead of after its run) makes one
subscription two runs, so it would be delivered twice, which `Deliver`
cannot do.

Each property of a passing run has a mutant in `PROJECT.json`: a plausible
bug in the mapped code that TLC must catch under that run's configuration.
The mutants are a group insertion that always prepends, an expiry
off-by-one, an ignored watch list, an inverted periodic test at the cache
insertion, a rollback that keeps the cache entry, a subordinate recorded
whatever the status, a federation loop that does not advance, a path split
one component early, a lookup that prefers the given context to the core
context, a lookup with no fallback, and a buffer growth test that forgets
the NUL.

### Bounds and why they suffice
- **SubscriptionMatching** uses 3 subscriptions, 2 requests (3 and 1
  alterations, up to 2 attributes each), a clock from 2 to 5 and
  `MaxOverlap` 2.
  - Three matches of one subscription in one pass are enough to tell
    "after the first node" from "append".
  - A throttling interval of 2 on a clock of 4 ticks lets a second delivery
    fall both inside and outside the window.
  - An expiry at 2 is crossed while the other pass runs.
- **MatchPass** enumerates every combination within its sets, so each guard
  is seen on both sides of every boundary: expiry equal to or one below the
  request time, and last notification 1 or 2 before it.
- **PostSubscription** uses 4 requests (2 with the same id), two
  registrations (one without `information`, then one covering the
  subscription) and two remote brokers. One restart is allowed.
  - Two same-id creations are the smallest case of the existence-check
    race.
  - One covering registration is enough for every remote outcome; the one
    without `information` first makes the loop take its no-match branch,
    which is where a loop that does not advance would hang.
  - The violation runs use 2 requests and the registration lists named in
    each cfg, the smallest that show each bug.

- **TroePatch** applies one step for each of the 7^k paths for k up to 7.
  Seven names reach both early returns of the split (six components, and
  `attrs.X.value`) and the slot the observedAt/unitCode check reads after
  the in-place rewrite. Paths such as `attrs.P1.value.value` go below a
  leaf of the base. Its multi-step patches are every sequence of up to
  three of seven steps: three steps are enough to add an attribute, edit
  inside it, and then push. The step on a missing attribute is the case
  where only an earlier name is missing.
- **SubAttributeRender** (with NameResolver) uses two terms, one user
  context, three lookups and two renders. That covers a name held by both
  contexts, by the user context only and by neither, and the default
  prefix. The stored sub-attributes are a Relationship with both
  timestamps, a LanguageProperty with an observedAt, a Property with a
  unitCode and a member the API drops, and the three shapes of a stored
  observedAt, each rendered with and without sysAttrs.
- **PayloadAttribute** enumerates every simple RHS and every object made
  of the special fields (`type` with each type name, a GeoJSON type or a
  number; `@type`; `value`; `object`; `languageMap`; `coordinates`;
  `observedAt`; `unitCode`; `datasetId`), each absent or present, plus a
  sub-attribute that is simple or an object of `type`, `value`, `object`
  and `unitCode`. Each is checked as a new attribute and against each of
  the four database types.
- **EntityPayload** enumerates every sequence of up to three members.
  The members are `@context`, `id` (a URN or not), `@id`, `type`,
  `createdAt`, and an attribute given by its short name (as a Property or
  a Relationship), by its long name, by an uncontexted name or by an
  invalid name. Each payload is checked with no entity in the database,
  and with the attribute stored as a Property or with no `type`. Two
  attribute members in both orders is the smallest case of the
  expanded-name collision. Three members put an `id`/`type` member
  between them.
- **CacheRace** uses two cached subscriptions, one creation and one
  request with one alteration. The insertion may put the new subscription
  at the head, between or at the end, so the pass can stand on it, have
  matched it, or pass it.
- **ResponseBuffer**: the growth rule is size + chunk + 512. After a first
  chunk of n bytes the room left is 512, so a 512-byte chunk is the
  exact-fit case.

### Fairness
`SubscriptionMatching` and `PostSubscription` assume weak fairness of each
request thread's own steps (`RequestStep`). A thread that has started a
request runs it to the end: the matching pass and the creation are
synchronous, and every `httpRequest` (dispatch or federation) returns
within its 5000 ms timeout. The arrival of requests, the clock, remote
notifications, crashes and restarts are not fair. `NotificationService`
assumes weak fairness of each delivery; the refinement check shows the
implementation's fairness provides it.

## 4. What is not modelled, and the plan

What the models leave out:
- Inside `pCheckEntity` (modelled in `EntityPayload`): the checks it
  calls that are not under `src/` are abstracted. `pCheckAttribute` is the
  attribute type its value carries, checked against the type in the
  database. `pCheckName`/`pCheckUri` are a set of rejected names, and the
  context expansion and `dotForEq` are tables. The unused `batch`
  parameter and the unimplemented id/type requirements of the closing
  comment (lines 251-255) have no code to model.
- Rendering, URL and header building: formatting.
- In the DB model conversion: `dbModelToApiSubAttribute` (the removal of
  `createdAt`/`modifiedAt`) has no caller under `src/`. The callers of
  `dbModelToApiSubAttribute2` are not in the repository either, so the model
  renders each stored sub-attribute afresh and takes it to have a string
  `type`. The NULL dereference of line 121 for a stored sub-attribute
  without one, and a second render of a tree the first render emptied,
  are a hazard in `PROJECT.json`.
- The v2 `getEntity`: a conversion of one entity tree with no state
  shared with the rest; its mongo query is in `mongoBackend/`, not under
  `src/`.
- `orionldError`: the text of responses only.
- `temporal.h`: declarations only.
- In `TroePatch`: what `kjLookup` does inside a string or number node
  (it reads the value as a child list) is undefined, and the model stops
  there. `troePatchEntity`, which writes the patched base to the TRoE
  database, is not under `src/`. Whether it expects the API form decides
  whether a new attribute patched in database form (its sub-attributes
  under `md`) is wrong. That is listed as a hazard.
- The release of response buffers (`delayedFreePointer`, httpRequest.cpp
  line 93): one pointer per request, overwritten by every response of a
  federated creation that grows its buffer, so all but the last leak. It
  is listed as a hazard; responses are abstracted to their status in
  PostSubscription.
- What `kjParse` does with the NULL buffer of a response with no body:
  the kjson library is not in the repository.

Components left out on purpose:
- **Registration deletion**: `orionldDeleteRegistration` only calls
  `mongoRegistrationDelete`, which is in `mongoBackend/`, not under
  `src/`. Its effect on the registration cache is not in the repository,
  so no modelled state changes.

The later steps of the plan, in order:
1. **Premature expiry**: a property that a request earlier than
   `expirationTime` is not skipped because a later pass already expired the
   subscription.
2. The generated-id branch of creation, with its uninitialized
   `subscriptionId` as a nondeterministic pernot cache id. A periodic
   request without an id would put a pernot cache entry whose id is not
   the database id, so `CreateAllOrNothing` no longer holds in the
   passing creation run. The disagreement needs a violation run of its
   own, with a property that says the pernot cache id is the stored id.

