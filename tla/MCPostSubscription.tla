------------------------- MODULE MCPostSubscription -------------------------
(***************************************************************************)
(* Model of PostSubscription. Requests r1 and r2 post the same id P       *)
(* (the duplicate-id race); r3 posts Q as a periodic subscription with    *)
(* ?local=true (no federation); r4 posts Q periodic with an MQTT endpoint *)
(* and is federated; r1 has an MQTT endpoint. All select entity type T1  *)
(* with id ".*".                                                          *)
(* The registration lists below are chosen per run in the .cfg files.     *)
(***************************************************************************)
EXTENDS PostSubscription

MCRequests      == {"r1", "r2", "r3", "r4"}
MCSubIds        == {"P", "Q"}
MCEntityTypes   == {"T1", "T2"}
MCBrokers       == {"b1", "b2"}

MCReqSubId      == [r1 |-> "P", r2 |-> "P", r3 |-> "Q", r4 |-> "Q"]
MCReqMqtt       == [r1 |-> TRUE, r2 |-> FALSE, r3 |-> FALSE, r4 |-> TRUE]
MCReqPernot     == [r1 |-> FALSE, r2 |-> FALSE, r3 |-> TRUE, r4 |-> TRUE]
MCReqEntityType == [r \in MCRequests |-> "T1"]
MCReqLocal      == [r1 |-> FALSE, r2 |-> FALSE, r3 |-> TRUE, r4 |-> FALSE]

\* Two requests, no periodic one: for the federation runs
MCRequests2     == {"r1", "r2"}
MCReqSubId2     == [r1 |-> "P", r2 |-> "Q"]
MCReqFalse2     == [r \in MCRequests2 |-> FALSE]
MCReqEntityType2 == [r \in MCRequests2 |-> "T1"]

\* g1 covers T1 type-only on b1; g2 covers T2 type-only on b2; g3 has
\* "information" but only descriptors with an id as well, on b2; g4 covers
\* T1 on b2; g5 has no "information", on b2; g6 has "information" with
\* an id in each descriptor, on b1.
MCRegInfo  == [g1 |-> [hasInformation |-> TRUE, typeOnly |-> {"T1"}],
               g2 |-> [hasInformation |-> TRUE, typeOnly |-> {"T2"}],
               g3 |-> [hasInformation |-> TRUE, typeOnly |-> {}],
               g4 |-> [hasInformation |-> TRUE, typeOnly |-> {"T1"}],
               g5 |-> [hasInformation |-> FALSE, typeOnly |-> {}],
               g6 |-> [hasInformation |-> TRUE, typeOnly |-> {}]]
MCRegBroker == [g1 |-> "b1", g2 |-> "b2", g3 |-> "b2", g4 |-> "b2", g5 |-> "b2", g6 |-> "b1"]

MCOneReg    == <<"g1">>
\* g5 has no "information": regMatchSubscription returns false at once
MCNoInfoFirst == <<"g5", "g1">>
MCTwoRegs   == <<"g1", "g4">>
MCMixedRegs == <<"g3", "g1">>
MCCoverT2   == <<"g2">>
\* two registrations of one remote broker
MCSameBroker == <<"g1", "g6">>

=============================================================================
