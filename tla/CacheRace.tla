------------------------------ MODULE CacheRace ------------------------------
(***************************************************************************)
(* The subscription cache shared by matching passes and by subscription   *)
(* creation, composed: subCacheAlterationMatch walks the cached list by   *)
(* pointer (for subP = subCacheHeadGet(); subP != NULL; subP = subP->next, *)
(* line 219) with no lock, while orionldPostSubscriptions inserts a new   *)
(* subscription (line 390) and, when the database insertion fails,        *)
(* removes and frees it again (subCacheItemRemove, line 478). The pass    *)
(* keeps the subscriptions it matched in its match list until the         *)
(* dispatcher has used them.                                              *)
(*                                                                         *)
(* subCacheApiSubscriptionInsert and subCacheItemRemove are not under     *)
(* src/ (spec_modelled): the insertion may put the new subscription at    *)
(* any position of the list; the removal unlinks it and frees it.         *)
(* Reading subP->next of a freed subscription is undefined: the freed     *)
(* memory still holds the successor it had, or it has been reused and the *)
(* walk ends (or crashes) there.                                          *)
(***************************************************************************)
EXTENDS OrionldMatch, FiniteSets

CONSTANTS
  Requests,
  InitialCache,    \* Seq(Subs): the cached list at start
  Creations,       \* subscriptions a concurrent creation inserts
  SubConfig, InitialStatus, ReqTenant, ReqAlterations,
  RequestTime

NULL == "NULL"

VARIABLES
  cache,      \* Seq(Subs): the cached subscription list
  subState,   \* [Subs -> SubDynamic]
  req,        \* per request: pc, cur (subP), altIx, matchList
  created,    \* subscriptions a creation has inserted
  freed,      \* subscriptions removed from the cache and freed
  staleNext   \* [Subs -> Subs \cup {NULL}]: next pointer left in a freed node

vars == <<cache, subState, req, created, freed, staleNext>>

TypeOK ==
  /\ cache \in Seq(Subs) /\ Cardinality(Range(cache)) = Len(cache)
  /\ subState \in [Subs -> SubDynamic]
  /\ req \in [Requests -> [pc : {"idle", "match", "dispatch", "done"},
                           cur : Subs \cup {NULL}, altIx : Nat \ {0},
                           matchList : Seq(AlterationMatch)]]
  /\ created \subseteq Creations /\ freed \subseteq created
  /\ staleNext \in [Subs -> Subs \cup {NULL}]

Init ==
  /\ cache = InitialCache
  /\ subState = [s \in Subs |-> [isActive |-> InitialStatus[s] = "active",
                                 status |-> InitialStatus[s], lastNotificationTime |-> 0]]
  /\ req = [r \in Requests |-> [pc |-> "idle", cur |-> NULL, altIx |-> 1, matchList |-> << >>]]
  /\ created = {} /\ freed = {}
  /\ staleNext = [s \in Subs |-> NULL]

\* subCacheHeadGet()
subCacheHeadGet(list) == IF list = << >> THEN NULL ELSE Head(list)

\* subP->next of a subscription that is in the list
Successor(list, s) ==
  LET i == SelectInSeq(list, LAMBDA x : x = s)
  IN  IF i = Len(list) THEN NULL ELSE list[i + 1]

-----------------------------------------------------------------------------
StartRequest(r) ==
  /\ req[r].pc = "idle"
  /\ req' = [req EXCEPT ![r] = [pc |-> "match", cur |-> subCacheHeadGet(cache),
                                altIx |-> 1, matchList |-> << >>]]
  /\ UNCHANGED <<cache, subState, created, freed, staleNext>>

\* One iteration of the inner loop (lines 219-264) at subP = cur, then
\* subP = subP->next.
MatchStep(r) ==
  LET q   == req[r]
      s   == q.cur
      res == SubAlterationMatch(s, SubConfig[s], subState[s], q.altIx,
                                ReqAlterations[r][q.altIx], ReqTenant[r],
                                RequestTime, q.matchList)
  IN  /\ q.pc = "match" /\ s # NULL
      /\ subState' = [subState EXCEPT ![s] = res.st]
      /\ \E next \in IF s \in freed THEN {staleNext[s], NULL} ELSE {Successor(cache, s)} :
           req' = [req EXCEPT ![r].matchList = res.matchList, ![r].cur = next]
      /\ UNCHANGED <<cache, created, freed, staleNext>>

\* The inner loop ended: next alteration (line 217), from the head again.
NextAlteration(r) ==
  /\ req[r].pc = "match" /\ req[r].cur = NULL
  /\ req[r].altIx <= Len(ReqAlterations[r])
  /\ req' = [req EXCEPT ![r].altIx = @ + 1, ![r].cur = subCacheHeadGet(cache)]
  /\ UNCHANGED <<cache, subState, created, freed, staleNext>>

\* The outer loop ended: the match list is returned to the dispatcher (line 269).
MatchDone(r) ==
  /\ req[r].pc = "match"
  /\ req[r].altIx > Len(ReqAlterations[r])
  /\ req' = [req EXCEPT ![r].pc = "dispatch"]
  /\ UNCHANGED <<cache, subState, created, freed, staleNext>>

\* The dispatcher uses every subscription of the list and releases it.
Dispatch(r) ==
  /\ req[r].pc = "dispatch"
  /\ req' = [req EXCEPT ![r].pc = "done", ![r].matchList = << >>]
  /\ UNCHANGED <<cache, subState, created, freed, staleNext>>

\* orionldPostSubscriptions line 390: subCacheApiSubscriptionInsert
CacheInsert(s) ==
  /\ s \in Creations \ created
  /\ \E i \in 1..Len(cache) + 1 : cache' = InsertAt(cache, i, s)
  /\ created' = created \cup {s}
  /\ UNCHANGED <<subState, req, freed, staleNext>>

\* orionldPostSubscriptions line 478: the database insertion failed, the
\* rollback removes the subscription from the cache and frees it
CacheRemove(s) ==
  /\ s \in created \ freed
  /\ cache' = SelectSeq(cache, LAMBDA x : x # s)
  /\ freed' = freed \cup {s}
  /\ staleNext' = [staleNext EXCEPT ![s] = Successor(cache, s)]
  /\ UNCHANGED <<subState, req, created>>

Next ==
  \/ \E r \in Requests :
       StartRequest(r) \/ MatchStep(r) \/ NextAlteration(r) \/ MatchDone(r) \/ Dispatch(r)
  \/ \E s \in Creations : CacheInsert(s) \/ CacheRemove(s)

Spec == Init /\ [][Next]_vars

-----------------------------------------------------------------------------
\* Spec section 5 (shared resource): access to the cached list is
\* protected so that a subscription is never freed while a matching pass
\* stands on it (it reads subP->next next) or while a match list handed to
\* the dispatcher still points at it. The loop at line 219 takes no lock
\* and a rolled-back creation frees its subscription at line 478.
NoFreedSubscriptionInUse ==
  \A r \in Requests :
    /\ req[r].pc = "match" => req[r].cur \notin freed
    /\ req[r].pc \in {"match", "dispatch"} =>
         \A i \in 1..Len(req[r].matchList) : req[r].matchList[i].sub \notin freed

=============================================================================
