------------------------- MODULE NotificationService -------------------------
(***************************************************************************)
(* What the matching engine and the dispatcher promise together (spec     *)
(* 4.3, 4.4 and section 8), with no loop, list or cache in it. A request *)
(* starts its pass at some time; the pass hands over, in one step, a set  *)
(* of subscriptions eligible for that request (its tenant, active when    *)
(* cached, not expired at the request time); each of them then gets one *)
(* delivery attempt, and eventually all of them do. Throttling is not     *)
(* promised here: overlapping passes do not keep it.                      *)
(***************************************************************************)

CONSTANTS
  Requests,
  Subs,
  Times,           \* the request times a pass may start with
  Eligible(_, _)   \* Eligible(r, t): subscriptions request r may notify at time t

VARIABLES
  passTime,    \* [Requests -> Times \cup {0}]: when the request's pass started
  pending,     \* [Requests -> SUBSET Subs]: handed over, not yet attempted
  delivered    \* [Requests -> SUBSET Subs]: attempted (successfully or not)

vars == <<passTime, pending, delivered>>

Init ==
  /\ passTime  = [r \in Requests |-> 0]
  /\ pending   = [r \in Requests |-> {}]
  /\ delivered = [r \in Requests |-> {}]

Start(r, t) ==
  /\ pending[r] = {} /\ delivered[r] = {}
  /\ passTime' = [passTime EXCEPT ![r] = t]
  /\ UNCHANGED <<pending, delivered>>

Hand(r, S) ==
  /\ pending[r] = {} /\ delivered[r] = {}
  /\ S \subseteq Eligible(r, passTime[r])
  /\ pending' = [pending EXCEPT ![r] = S]
  /\ UNCHANGED <<passTime, delivered>>

Deliver(r, s) ==
  /\ s \in pending[r]
  /\ pending'   = [pending EXCEPT ![r] = @ \ {s}]
  /\ delivered' = [delivered EXCEPT ![r] = @ \cup {s}]
  /\ UNCHANGED passTime

Next ==
  \E r \in Requests :
    \/ \E t \in Times : Start(r, t)
    \/ \E S \in SUBSET Subs : Hand(r, S)
    \/ \E s \in Subs : Deliver(r, s)

Spec ==
  /\ Init /\ [][Next]_vars
  /\ \A r \in Requests, s \in Subs : WF_vars(Deliver(r, s))

=============================================================================
