--------------------------- MODULE PostSubscription ---------------------------
(***************************************************************************)
(* Creation of subscriptions (POST /ngsi-ld/v1/subscriptions) with the    *)
(* federation of subordinate subscriptions, translated from               *)
(*   src/lib/orionld/serviceRoutines/orionldPostSubscriptions.cpp         *)
(*   src/lib/orionld/regMatch/regMatchSubscription.cpp                    *)
(*   src/lib/orionld/http/httpRequest.cpp (the status it returns)         *)
(*   src/lib/orionld/serviceRoutines/orionldPostNotification.cpp (relay)  *)
(*                                                                         *)
(* Several request threads run the handler at once. A handler step is     *)
(* one phase of orionldPostSubscriptions: the existence check, the MQTT   *)
(* connection, the insertion in the (sub or pernot) cache, one            *)
(* registration of the federation loop, the database insertion with its   *)
(* rollback. Remote brokers behind registrations keep the subordinate     *)
(* subscriptions created on them. The process can crash (a NULL           *)
(* dereference) and restart, reloading its caches from the database.      *)
(* Payload validation (pCheckSubscription) and the rendering of bodies    *)
(* are left out: an invalid payload returns before any state changes.     *)
(***************************************************************************)
EXTENDS Integers, Sequences, SequencesExt, FiniteSets

CONSTANTS
  Requests,         \* request threads, each posting one subscription
  ReqSubId,         \* [Requests -> SubIds]: the id in the payload
  ReqMqtt,          \* [Requests -> BOOLEAN]: endpoint is an MQTT uri
  ReqPernot,        \* [Requests -> BOOLEAN]: timeInterval != 0
  ReqEntityType,    \* [Requests -> EntityTypes \cup {NoType}]: type of an
                    \*   EntityInfo with id ".*" (NoType: no such EntityInfo)
  SubIds, EntityTypes, NoType,
  RegList,          \* Seq(Regs): the tenant's registration cache, in order
  RegInfo,          \* [Regs -> [hasInformation, typeOnly]]: has "information";
                    \*   types of its entity descriptors holding only a "type"
  RegBroker,        \* [Regs -> Brokers]: broker behind the registration
  Brokers,
  DistSubsEnabled,  \* the -distSubs option
  ReqLocal,         \* [Requests -> BOOLEAN]: the request has ?local=true
  RemoteOutcomes,   \* subset of {"created", "redirected", "lost", "failed"}
  DbMayFail,        \* mongocSubscriptionInsert may fail for other reasons
  MaxRestarts       \* bound on process restarts

Regs == Range(RegList)

VARIABLES
  pc,            \* [Requests -> phase of the handler]
  regIx,         \* [Requests -> position in RegList of the federation loop]
  subCache,      \* set of [id, req]: cached (non-periodic) subscriptions
  pernotCache,   \* set of [id, req]: cached periodic subscriptions
  subordinates,  \* [Requests -> Seq(SubordinateSubscription)] of cSubP
  db,            \* set of [id, req, pernot, subordinates]: persisted
  remoteSubs,    \* [Brokers -> SUBSET [parent, runNo]]: subscriptions on remote brokers
  mqttConns,     \* requests whose MQTT connection is established
  crashed,       \* the broker process is down
  restarts,
  relayed        \* set of [parent, to]: notifications of remote subordinates
                 \*   relayed to the cached parent of request `to` (NoReq: dropped)

vars == <<pc, regIx, subCache, pernotCache, subordinates, db, remoteSubs,
          mqttConns, crashed, restarts, relayed>>

NoReq == "none"

Phases == {"idle", "mqtt", "cache", "fed", "db", "done", "failed"}

InFlight == {"mqtt", "cache", "fed", "db"}

CacheEntry == [id : SubIds, req : Requests]

\* subscriptionId "<parent>:<runNo>" is the pair <<parent, runNo>>
SubordinateSubscription ==
  [subscriptionId : SubIds \X (Nat \ {0}), runNo : Nat \ {0}, registrationId : Regs]

TypeOK ==
  /\ pc \in [Requests -> Phases]
  /\ regIx \in [Requests -> Nat \ {0}]
  /\ subCache    \subseteq {e \in CacheEntry : ~ReqPernot[e.req]}
  /\ pernotCache \subseteq {e \in CacheEntry : ReqPernot[e.req]}
  /\ subordinates \in [Requests -> Seq(SubordinateSubscription)]
  /\ \A d \in db : d.id \in SubIds /\ d.req \in Requests /\ d.pernot \in BOOLEAN
  /\ remoteSubs \in [Brokers -> SUBSET (SubIds \X (Nat \ {0}))]
  /\ mqttConns \subseteq Requests
  /\ crashed \in BOOLEAN /\ restarts \in 0..MaxRestarts
  /\ relayed \subseteq [parent : SubIds, to : Requests \cup {NoReq}]

Init ==
  /\ pc = [r \in Requests |-> "idle"]
  /\ regIx = [r \in Requests |-> 1]
  /\ subCache = {} /\ pernotCache = {}
  /\ subordinates = [r \in Requests |-> << >>]
  /\ db = {}
  /\ remoteSubs = [b \in Brokers |-> {}]
  /\ mqttConns = {}
  /\ crashed = FALSE /\ restarts = 0
  /\ relayed = {}

Ids(S) == {e.id : e \in S}

Entry(r) == [id |-> ReqSubId[r], req |-> r]

Up == ~crashed

-----------------------------------------------------------------------------
(* Lines 244-270: a subscription whose id is in the sub cache, the pernot *)
(* cache or the database is refused with 409 (500 when the database       *)
(* lookup itself fails). Every request carries its id: a generated uuid   *)
(* (lines 271-276) never collides and skips nothing else.                 *)
CheckExists(r) ==
  /\ Up /\ pc[r] = "idle"
  /\ \E dbError \in IF DbMayFail THEN BOOLEAN ELSE {FALSE} :
       pc' = [pc EXCEPT ![r] =
                IF \/ ReqSubId[r] \in Ids(subCache) \cup Ids(pernotCache) \cup Ids(db)
                   \/ dbError
                THEN "failed" ELSE "mqtt"]
  /\ UNCHANGED <<regIx, subCache, pernotCache, subordinates, db, remoteSubs, mqttConns, crashed, restarts, relayed>>

\* Lines 333-382: MQTT is refused for periodic subscriptions (501); the
\* connection to the MQTT broker is established before the subscription is
\* accepted, and its failure is a 500.
MqttConnect(r) ==
  /\ Up /\ pc[r] = "mqtt"
  /\ \/ /\ ~ReqMqtt[r]
        /\ pc' = [pc EXCEPT ![r] = "cache"]
        /\ UNCHANGED mqttConns
     \/ /\ ReqMqtt[r] /\ ReqPernot[r]
        /\ pc' = [pc EXCEPT ![r] = "failed"]
        /\ UNCHANGED mqttConns
     \/ /\ ReqMqtt[r] /\ ~ReqPernot[r]
        /\ \E ok \in BOOLEAN :
             /\ pc' = [pc EXCEPT ![r] = IF ok THEN "cache" ELSE "failed"]
             /\ mqttConns' = IF ok THEN mqttConns \cup {r} ELSE mqttConns
  /\ UNCHANGED <<regIx, subCache, pernotCache, subordinates, db, remoteSubs, crashed, restarts, relayed>>

\* Lines 385-461: into the sub cache (or the pernot cache), then into the
\* federation loop when distributed subscriptions are enabled.
\* line 426: federation only with -distSubs and without ?local=true
Federated(r) == DistSubsEnabled /\ ~ReqLocal[r]

\* MUTANT: the timeInterval test at line 388 inverted
CacheInsert_inverted(r) ==
  /\ Up /\ pc[r] = "cache"
  /\ subCache'    = IF ~ReqPernot[r] THEN subCache ELSE subCache \cup {Entry(r)}
  /\ pernotCache' = IF ~ReqPernot[r] THEN pernotCache \cup {Entry(r)} ELSE pernotCache
  /\ subordinates' = [subordinates EXCEPT ![r] = << >>]
  /\ pc' = [pc EXCEPT ![r] = IF Federated(r) THEN "fed" ELSE "db"]
  /\ regIx' = [regIx EXCEPT ![r] = 1]
  /\ UNCHANGED <<db, remoteSubs, mqttConns, crashed, restarts, relayed>>

CacheInsert(r) ==
  /\ Up /\ pc[r] = "cache"
  /\ subCache'    = IF ReqPernot[r] THEN subCache ELSE subCache \cup {Entry(r)}
  /\ pernotCache' = IF ReqPernot[r] THEN pernotCache \cup {Entry(r)} ELSE pernotCache
  /\ subordinates' = [subordinates EXCEPT ![r] = << >>]
  /\ pc' = [pc EXCEPT ![r] = IF Federated(r) THEN "fed" ELSE "db"]
  /\ regIx' = [regIx EXCEPT ![r] = 1]
  /\ UNCHANGED <<db, remoteSubs, mqttConns, crashed, restarts, relayed>>

-----------------------------------------------------------------------------
(* regMatchSubscription: for the registration rciP it is asked about, it  *)
(* only checks that rciP has "information"; then, for an EntityInfo of   *)
(* the subscription with a type and id ".*", it walks the WHOLE           *)
(* registration list and succeeds on the first entity descriptor holding  *)
(* only a "type" -- whatever that type is.                                 *)
regMatchSubscription(rciP, r) ==
  /\ RegInfo[rciP].hasInformation
  /\ ReqEntityType[r] # NoType
  /\ \E reg \in Regs : RegInfo[reg].hasInformation /\ RegInfo[reg].typeOnly # {}

\* MUTANT: runNo starts at 0 instead of 1
subordinateRunNo_zeroBase(subs) ==
  FoldSeq(LAMBDA s, m : IF s.runNo > m THEN s.runNo ELSE m, 0, subs)

\* subordinateCreate lines 97-102: runNo = MAX(1, runNo of every subordinate)
subordinateRunNo(subs) ==
  FoldSeq(LAMBDA s, m : IF s.runNo > m THEN s.runNo ELSE m, 1, subs)

\* subordinateCreate line 159: only a 201 is a success
subordinateCreated(httpStatus) == httpStatus = 201

\* subordinateCreate lines 165-177: the new subordinate is prepended to the
\* parent's list
subordinateLink(subs, subSubP) == <<subSubP>> \o subs

\* responseHeaderRead (httpRequest.cpp 110-130): the header callback keeps
\* overwriting the status while it is below 200 (-1 initially, or a 1xx),
\* so the FIRST status line >= 200 of the exchange is the one kept; with
\* CURLOPT_FOLLOWLOCATION that is the redirect's 3xx, not the final answer.
responseHeaderRead(statusLines) ==
  FoldSeq(LAMBDA line, code : IF code < 200 THEN line ELSE code, -1, statusLines)

\* httpRequest (lines 235-305): CURLOPT_FAILONERROR turns a final status
\* >= 400 into a curl error, returned as -1 like a timeout or a transport
\* error; otherwise the status kept by the header callback is returned.
httpRequest(exchange) ==
  IF ~exchange.transportOk \/ exchange.statusLines[Len(exchange.statusLines)] >= 400
  THEN -1
  ELSE responseHeaderRead(exchange.statusLines)

\* What the remote broker behind a registration does with the POST of a
\* subordinate subscription: it refuses an id it already has (409); else
\* it creates it and answers 201 ("created"), or through a redirect
\* ("redirected"), or the answer misses the 5000 ms timeout ("lost"), or
\* it is unreachable ("failed").
RemoteExchange(id, b, outcome) ==
  CASE id \in remoteSubs[b]     -> [statusLines |-> <<409>>,      transportOk |-> TRUE,  created |-> FALSE]
    [] outcome = "created"      -> [statusLines |-> <<201>>,      transportOk |-> TRUE,  created |-> TRUE]
    [] outcome = "redirected"   -> [statusLines |-> <<307, 201>>, transportOk |-> TRUE,  created |-> TRUE]
    [] outcome = "lost"         -> [statusLines |-> <<201>>,      transportOk |-> FALSE, created |-> TRUE]
    [] outcome = "failed"       -> [statusLines |-> << >>,        transportOk |-> FALSE, created |-> FALSE]

\* subordinateCreate (lines 93-181): the run number and id of the new
\* subordinate, the POST of its body to the broker of the registration,
\* and the SubordinateSubscription it returns, or NULL (<< >>) unless the
\* remote answered 201. Body, URL and header building are left out.
subordinateCreate(r, rciP, outcome) ==
  LET runNo == subordinateRunNo(subordinates[r])
      id    == <<ReqSubId[r], runNo>>
      b     == RegBroker[rciP]
      ex    == RemoteExchange(id, b, outcome)
  IN  [remote  |-> IF ex.created THEN [remoteSubs EXCEPT ![b] = @ \cup {id}] ELSE remoteSubs,
       subSubP |-> IF subordinateCreated(httpRequest(ex))
                   THEN <<[subscriptionId |-> id, runNo |-> runNo, registrationId |-> rciP]>>
                   ELSE << >>]

\* MUTANT: the loop does not move on to the next registration
regNext_stuck(ix) == ix

\* line 432: rciP = rciP->next
regNext(ix) == ix + 1

\* One iteration of the federation loop (lines 432-460) on RegList[regIx].
\* A periodic subscription has cSubP == NULL, which regMatchSubscription
\* dereferences; a failed subordinateCreate returns NULL, which line 450
\* dereferences. Both crash the process.
FederateReg(r) ==
  LET rciP == RegList[regIx[r]]
  IN
  /\ Up /\ pc[r] = "fed" /\ regIx[r] <= Len(RegList)
  /\ \/ /\ ReqPernot[r] /\ RegInfo[rciP].hasInformation
        /\ crashed' = TRUE
        /\ UNCHANGED <<regIx, subordinates, remoteSubs>>
     \/ /\ ~(ReqPernot[r] /\ RegInfo[rciP].hasInformation)
        /\ ~(~ReqPernot[r] /\ regMatchSubscription(rciP, r))
        /\ regIx' = [regIx EXCEPT ![r] = regNext(@)]
        /\ UNCHANGED <<subordinates, remoteSubs, crashed>>
     \/ /\ ~ReqPernot[r] /\ regMatchSubscription(rciP, r)
        /\ \E outcome \in RemoteOutcomes :
             LET sc == subordinateCreate(r, rciP, outcome)
             IN  /\ remoteSubs' = sc.remote
                 /\ IF sc.subSubP # << >>
                    THEN /\ subordinates' = [subordinates EXCEPT ![r] =
                                               subordinateLink(@, sc.subSubP[1])]
                         /\ regIx' = [regIx EXCEPT ![r] = regNext(@)]
                         /\ UNCHANGED crashed
                    ELSE /\ crashed' = TRUE
                         /\ UNCHANGED <<regIx, subordinates>>
  /\ UNCHANGED <<pc, subCache, pernotCache, db, mqttConns, restarts, relayed>>

FederationDone(r) ==
  /\ Up /\ pc[r] = "fed" /\ regIx[r] > Len(RegList)
  /\ pc' = [pc EXCEPT ![r] = "db"]
  /\ UNCHANGED <<regIx, subCache, pernotCache, subordinates, db, remoteSubs, mqttConns, crashed, restarts, relayed>>

-----------------------------------------------------------------------------
(* Lines 463-485: the document, with its "subordinate" array, goes to the *)
(* database; a duplicate _id (or another database error) makes it fail,   *)
(* and then the MQTT connection is closed and the cache entry removed.    *)

\* MUTANT: the rollback leaves the cache entry in place
RollbackCache_keep(S, r) == S

RollbackCache(S, r) == S \ {Entry(r)}

DbInsert(r) ==
  /\ Up /\ pc[r] = "db"
  /\ \E ok \in IF ReqSubId[r] \in Ids(db) THEN {FALSE}
               ELSE IF DbMayFail THEN BOOLEAN ELSE {TRUE} :
       IF ok
       THEN /\ db' = db \cup {[id |-> ReqSubId[r], req |-> r, pernot |-> ReqPernot[r],
                               subordinates |-> subordinates[r]]}
            /\ pc' = [pc EXCEPT ![r] = "done"]
            /\ UNCHANGED <<subCache, pernotCache, mqttConns>>
       ELSE /\ mqttConns' = mqttConns \ {r}
            /\ subCache'    = IF ReqPernot[r] THEN subCache ELSE RollbackCache(subCache, r)
            /\ pernotCache' = IF ReqPernot[r] THEN pernotCache \ {Entry(r)} ELSE pernotCache
            /\ pc' = [pc EXCEPT ![r] = "failed"]
            /\ UNCHANGED db
  /\ UNCHANGED <<regIx, subordinates, remoteSubs, crashed, restarts, relayed>>

-----------------------------------------------------------------------------
(* Crash and restart (spec_modelled: the start-up cache refresh is not    *)
(* under src/): in-flight requests are lost with the process; the caches  *)
(* are reloaded from the database, subordinate lists included; MQTT       *)
(* connections are re-established for the persisted MQTT subscriptions.  *)
Restart ==
  /\ crashed /\ restarts < MaxRestarts
  /\ crashed' = FALSE /\ restarts' = restarts + 1
  /\ pc' = [r \in Requests |-> IF pc[r] \in InFlight THEN "failed" ELSE pc[r]]
  /\ subCache'    = {[id |-> d.id, req |-> d.req] : d \in {d \in db : ~d.pernot}}
  /\ pernotCache' = {[id |-> d.id, req |-> d.req] : d \in {d \in db : d.pernot}}
  /\ subordinates' = [r \in Requests |->
                        IF \E d \in db : d.req = r
                        THEN (CHOOSE d \in db : d.req = r).subordinates ELSE << >>]
  /\ mqttConns' = {d.req : d \in {d \in db : ReqMqtt[d.req]}}
  /\ UNCHANGED <<regIx, db, remoteSubs, relayed>>

-----------------------------------------------------------------------------
(* The relay (orionldPostNotification): a remote broker notifies on a    *)
(* subordinate; the parent is looked up in the sub cache by id (line 68)  *)
(* and, if found, the notification is forwarded to its endpoint with the *)
(* parent's id (lines 75-106), whatever its status and whatever the      *)
(* remote answers; if not, it is dropped (line 72). With -distSubs off   *)
(* the request is answered 501 and nothing changes (lines 54-62).        *)

\* subCacheItemLookup: the requests whose cached entry has the parent's id
subCacheItemLookup(parentId) == {e.req : e \in {e \in subCache : e.id = parentId}}

Relay(b, sid) ==
  /\ Up /\ DistSubsEnabled
  /\ sid \in remoteSubs[b]
  /\ \/ /\ subCacheItemLookup(sid[1]) = {}
        /\ relayed' = relayed \cup {[parent |-> sid[1], to |-> NoReq]}
     \/ \E cSub \in subCacheItemLookup(sid[1]) :
          relayed' = relayed \cup {[parent |-> sid[1], to |-> cSub]}
  /\ UNCHANGED <<pc, regIx, subCache, pernotCache, subordinates, db, remoteSubs,
                 mqttConns, crashed, restarts>>

\* A crashed process that is not restarted, or a quiescent one, stops.
Halted ==
  /\ \/ crashed /\ restarts = MaxRestarts
     \/ Up /\ \A r \in Requests : pc[r] \in {"done", "failed"}
  /\ UNCHANGED vars

RequestStep(r) ==
  \/ CheckExists(r) \/ MqttConnect(r) \/ CacheInsert(r)
  \/ FederateReg(r) \/ FederationDone(r) \/ DbInsert(r)

Next ==
  \/ \E r \in Requests : RequestStep(r)
  \/ \E b \in Brokers : \E sid \in remoteSubs[b] : Relay(b, sid)
  \/ Restart
  \/ Halted

\* A request thread runs the handler synchronously to its end while the
\* process is up: each step is local work or one call bounded by a
\* timeout (5000 ms per subordinate, httpRequest). Restarts, relays and
\* the arrival of requests are not fair.
Fairness == \A r \in Requests : WF_vars(RequestStep(r))

Spec == Init /\ [][Next]_vars /\ Fairness

-----------------------------------------------------------------------------
(* Properties                                                             *)

Quiescent == Up /\ \A r \in Requests : pc[r] \notin InFlight

Stored(r) == \E d \in db : d.req = r

\* Creation is all or nothing (spec 7(d)): once no creation is in flight,
\* a request's subscription is in its cache exactly when it is in the
\* database, and its MQTT connection is open exactly then. Two requests
\* posting the same id both pass the existence check (lines 254-256) and
\* both cache an entry; the loser's duplicate-key failure at line 469 must
\* take out its own entry and connection, and a crash in between must not
\* leave anything half-created after the restart.
CreateAllOrNothing ==
  Quiescent =>
    \A r \in Requests :
      /\ (Entry(r) \in subCache \cup pernotCache) = Stored(r)
      /\ (r \in mqttConns) = (Stored(r) /\ ReqMqtt[r])

\* Every creation is answered (spec 4.5, blocking points): a request
\* that passed the existence check ends in success or failure, however
\* many registrations the federation loop (line 432) visits and whatever
\* the remote brokers answer, unless the process goes down first.
EveryCreationAnswered ==
  \A r \in Requests :
    pc[r] \in InFlight ~> (pc[r] \in {"done", "failed"} \/ crashed)

\* Spec 4.5 step 4: a failing subordinate creation is logged and federation
\* goes on; the broker never goes down because a remote broker refused,
\* timed out or was unreachable (line 450 dereferences the NULL that
\* subordinateCreate returns).
NoCrash == ~crashed

\* Spec 4.5 steps 1-2 and section 8: a subordinate is created only behind a
\* registration that advertises type-only coverage of the subscription's
\* entity type (regMatchSubscription ignores the registration it is asked
\* about and the type of the descriptor it finds).
SubordinateOnlyOnCoveringRegistration ==
  \A r \in Requests : \A i \in 1..Len(subordinates[r]) :
    ReqEntityType[r] \in RegInfo[subordinates[r][i].registrationId].typeOnly

====
