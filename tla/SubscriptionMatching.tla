------------------------- MODULE SubscriptionMatching -------------------------
(***************************************************************************)
(* Concurrent matching passes over the subscription cache and the         *)
(* notifications they dispatch.                                           *)
(*                                                                         *)
(* Each request thread that altered entities runs subCacheAlterationMatch *)
(* (src/lib/orionld/notifications/subCacheAlterationMatch.cpp) over its  *)
(* alteration batch: for every alteration, for every cached subscription, *)
(* one MatchStep. The loop takes no lock, and it writes status/isActive   *)
(* of the subscription it looks at; the notification that follows writes *)
(* lastNotificationTime. Passes of different requests interleave at the   *)
(* granularity of one subscription per alteration. The dispatcher (one    *)
(* notification per run of the match list, success or failure) is not    *)
(* under src/ and is modelled from the spec, section 4.4.                 *)
(***************************************************************************)
EXTENDS OrionldMatch, FiniteSets

CONSTANTS
  Requests,        \* request threads that produce one alteration batch each
  CacheList,       \* Seq(Subs): order of the cached subscription list
  SubConfig,       \* [Subs -> filter, triggers, expiration, throttling]
  InitialStatus,   \* [Subs -> SubStatus]: status the subscription was cached with
  ReqTenant,       \* [Requests -> Tenants]
  ReqAlterations,  \* [Requests -> Seq(Alteration)]
  StartTime,       \* clock value at start (> every throttling interval)
  MaxTime,         \* bound on the clock
  MaxOverlap       \* how many requests may be in a pass or dispatch at once

ASSUME Len(CacheList) > 0 /\ Range(CacheList) = Subs
ASSUME StartTime \in Nat /\ MaxTime \in Nat /\ StartTime <= MaxTime
ASSUME MaxOverlap \in Nat \ {0}

VARIABLES
  subState,   \* [Subs -> SubDynamic]: the mutable fields of the cached subscriptions
  now,        \* wall clock (orionldState.requestTime is taken from it)
  req,        \* per request thread: pc, requestTime, loop indices, matchList
  notified    \* history: every notification attempt [req, sub, reqTime, ok]

vars == <<subState, now, req, notified>>

PC == {"idle", "match", "dispatch", "done"}

Notification == [req : Requests, sub : Subs, reqTime : Nat, ok : BOOLEAN]

TypeOK ==
  /\ subState \in [Subs -> SubDynamic]
  /\ now \in StartTime..MaxTime
  /\ req \in [Requests -> [pc : PC, requestTime : Nat, altIx : Nat \ {0},
                           subIx : Nat \ {0}, matchList : Seq(AlterationMatch)]]
  /\ notified \in Seq(Notification)

Init ==
  /\ subState = [s \in Subs |-> [isActive |-> InitialStatus[s] = "active",
                                 status   |-> InitialStatus[s],
                                 lastNotificationTime |-> 0]]
  /\ now = StartTime
  /\ req = [r \in Requests |-> [pc |-> "idle", requestTime |-> 0, altIx |-> 1,
                                subIx |-> 1, matchList |-> << >>]]
  /\ notified = << >>

Busy == {r \in Requests : req[r].pc \in {"match", "dispatch"}}

-----------------------------------------------------------------------------
(* The clock advances between and during requests.                        *)
Tick ==
  /\ now < MaxTime
  /\ now' = now + 1
  /\ UNCHANGED <<subState, req, notified>>

\* A request thread has altered entities and starts matching; requestTime
\* is the time the request arrived.
StartRequest(r) ==
  /\ req[r].pc = "idle"
  /\ Cardinality(Busy) < MaxOverlap
  /\ req' = [req EXCEPT ![r] = [pc |-> "match", requestTime |-> now, altIx |-> 1,
                                subIx |-> 1, matchList |-> << >>]]
  /\ UNCHANGED <<subState, now, notified>>

\* One iteration of the nested loop of subCacheAlterationMatch: the
\* subscription at position subIx of the cache against alteration altIx.
MatchStep(r) ==
  LET q    == req[r]
      s    == CacheList[q.subIx]
      res  == SubAlterationMatch(s, SubConfig[s], subState[s], q.altIx,
                                 ReqAlterations[r][q.altIx], ReqTenant[r],
                                 q.requestTime, q.matchList)
      last == q.subIx = Len(CacheList)
  IN  /\ q.pc = "match"
      /\ q.altIx <= Len(ReqAlterations[r])
      /\ subState' = [subState EXCEPT ![s] = res.st]
      /\ req' = [req EXCEPT ![r].matchList = res.matchList,
                            ![r].subIx     = IF last THEN 1 ELSE q.subIx + 1,
                            ![r].altIx     = IF last THEN q.altIx + 1 ELSE q.altIx]
      /\ UNCHANGED <<now, notified>>

\* The outer loop is exhausted; the match list is handed to the dispatcher.
MatchDone(r) ==
  /\ req[r].pc = "match"
  /\ req[r].altIx > Len(ReqAlterations[r])
  /\ req' = [req EXCEPT ![r].pc = "dispatch"]
  /\ UNCHANGED <<subState, now, notified>>

-----------------------------------------------------------------------------
(* Dispatcher (spec 4.4): one notification per run of consecutive matches *)
(* of the same subscription. A delivery may fail (transport error,        *)
(* timeout, non-2xx); only a success updates lastNotificationTime.        *)

HeadRunLength(ml) ==
  LET Other(m) == m.sub # ml[1].sub
      ix       == SelectInSeq(ml, Other)
  IN  IF ix = 0 THEN Len(ml) ELSE ix - 1

RestAfterHeadRun(ml) == SubSeq(ml, HeadRunLength(ml) + 1, Len(ml))

Dispatch(r) ==
  LET ml == req[r].matchList
      s  == ml[1].sub
  IN  /\ req[r].pc = "dispatch"
      /\ ml # << >>
      /\ \E ok \in BOOLEAN :
           /\ subState' = IF ok THEN [subState EXCEPT ![s].lastNotificationTime = now]
                                ELSE subState
           /\ notified' = Append(notified, [req |-> r, sub |-> s,
                                            reqTime |-> req[r].requestTime, ok |-> ok])
      /\ req' = [req EXCEPT ![r].matchList = RestAfterHeadRun(ml)]
      /\ UNCHANGED now

DispatchDone(r) ==
  /\ req[r].pc = "dispatch"
  /\ req[r].matchList = << >>
  /\ req' = [req EXCEPT ![r].pc = "done"]
  /\ UNCHANGED <<subState, now, notified>>

\* All batches handled and the clock at its bound: the model stops here.
Finished ==
  /\ \A r \in Requests : req[r].pc = "done"
  /\ now = MaxTime
  /\ UNCHANGED vars

RequestStep(r) == MatchStep(r) \/ MatchDone(r) \/ Dispatch(r) \/ DispatchDone(r)

Next ==
  \/ Tick
  \/ \E r \in Requests : StartRequest(r)
  \/ \E r \in Requests : RequestStep(r)
  \/ Finished

\* A request thread that has started its pass runs it to the end: the pass
\* is synchronous and every delivery returns within its timeout. Arrival
\* of requests and the clock are not fair.
Fairness == \A r \in Requests : WF_vars(RequestStep(r))

Spec == Init /\ [][Next]_vars /\ Fairness

-----------------------------------------------------------------------------
(* Properties                                                             *)

MatchedSubs(ml) == {ml[i].sub : i \in 1..Len(ml)}

\* Throttling (spec section 8): two delivered notifications of the same
\* subscription come from alterations at least `throttling` apart; the
\* second one inside the window is suppressed. The check at line 247 reads
\* lastNotificationTime, which only the dispatcher of an earlier pass writes.
ThrottleRespected ==
  \A i, j \in 1..Len(notified) :
    LET a == notified[i]
        b == notified[j]
    IN  (i < j /\ a.ok /\ b.ok /\ a.sub = b.sub) =>
          b.reqTime - a.reqTime >= SubConfig[a.sub].throttling

-----------------------------------------------------------------------------
(* Refinement: the passes and the dispatcher implement NotificationService. *)
(* A pass is visible only when it starts (requestTime) and when it hands   *)
(* its match list to the dispatcher; the subscriptions of the remaining    *)
(* list are the pending ones, those of the notifications sent the          *)
(* delivered ones.                                                         *)

\* Spec 4.3: same tenant (with -multiservice), active when cached, request
\* not later than the expiration time.
SpecEligible(r, t) ==
  {s \in Subs : /\ Multitenancy => SubConfig[s].tenant = ReqTenant[r]
               /\ InitialStatus[s] = "active"
               /\ t <= SubConfig[s].expirationTime}

NS == INSTANCE NotificationService WITH
        Times     <- StartTime..MaxTime,
        Eligible  <- SpecEligible,
        passTime  <- [r \in Requests |-> req[r].requestTime],
        pending   <- [r \in Requests |-> IF req[r].pc = "dispatch"
                                         THEN MatchedSubs(req[r].matchList) ELSE {}],
        delivered <- [r \in Requests |-> {notified[i].sub : i \in {i \in 1..Len(notified) : notified[i].req = r}}]

\* The matching passes with the dispatcher implement NotificationService:
\* each pass hands over only subscriptions eligible for its request, all
\* matches of one subscription in one pass give ONE delivery attempt
\* (matchListInsert keeps them in one run of the list, lines 95-115), and
\* every subscription handed over is eventually attempted, however the
\* passes of two requests interleave over the unlocked cache.
ImplementsNotificationService == NS!Spec

=============================================================================
