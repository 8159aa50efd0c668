---------------------------- MODULE EntityPayload ----------------------------
(***************************************************************************)
(* The check of an entity payload body, translated from                   *)
(*   src/lib/orionld/payloadCheck/pCheckEntity.cpp                         *)
(* An entity is the ordered list of its members, each a name and a value. *)
(* pCheckEntity removes the builtin timestamps, then walks the members in *)
(* order: it rejects a member whose name another member also has, skips   *)
(* "@context" and "scope", checks "id"/"@id" and "type"/"@type", and for  *)
(* any other member checks the name, replaces it IN PLACE by its expanded *)
(* (long) name and checks the attribute against its type in the database. *)
(*                                                                         *)
(* Not under src/ (spec_modelled): orionldAttributeExpand and             *)
(* orionldContextItemExpand are a table from names to long names (a long *)
(* name expands to itself); pCheckName and pCheckUri reject the names of  *)
(* InvalidNames; dotForEq is a table from long names to database keys;    *)
(* pCheckAttribute is abstracted to the attribute type its value carries. *)
(***************************************************************************)
EXTENDS Naturals, SequencesExt

CONSTANTS
  Expansion,     \* [names -> long names]: orionldAttributeExpand
  InvalidNames,  \* names pCheckName / pCheckUri(name, false) reject
  UriValues,     \* strings PCHECK_URI(s, true) accepts
  DotForEq,      \* [long names -> database keys]
  Inputs,        \* entity payloads: sequences of [name, value]
  DbAttrsChoices \* "attrs" of the entity in the database: [keys -> type],
                 \* NoTypeMember for an attribute with no "type"

NULL == "NULL"
NoTypeMember == "NoTypeMember"
NoAttributeType == "NoAttributeType"
Fail == [ok |-> FALSE, members |-> << >>]

\* orionldAttributeType (types/, not under src/)
orionldAttributeType(s) ==
  IF s \in {"Property", "Relationship", "GeoProperty", "LanguageProperty"}
  THEN s ELSE NoAttributeType

\* kjLookup + kjChildRemove (lines 191-192): the FIRST member of that name
RemoveMember(ms, name) ==
  IF \E i \in DOMAIN ms : ms[i].name = name
  THEN RemoveAt(ms, SelectInSeq(ms, LAMBDA m : m.name = name))
  ELSE ms

\* kjLookupByNameExceptOne (lines 55-70): another member has the name
kjLookupByNameExceptOne(ms, name, i) ==
  \E j \in DOMAIN ms : j # i /\ ms[j].name = name

\* idCheck (lines 78-90): no earlier id, a string, a valid URI
idCheck(v, idP) == idP = NULL /\ v.t = "String" /\ v.s \in UriValues

\* typeCheck (lines 98-110): no earlier type, a string, no forbidden char
typeCheck(v, typeP) == typeP = NULL /\ v.t = "String" /\ v.s \notin InvalidNames

\* attrTypeFromDb (lines 120-133): the type of the attribute in the DB,
\* none if it is not there or has no "type"
attrTypeFromDb(dbAttrsP, attrName) ==
  IF attrName \notin DOMAIN dbAttrsP \/ dbAttrsP[attrName] = NoTypeMember
  THEN NoAttributeType
  ELSE orionldAttributeType(dbAttrsP[attrName])

\* pCheckAttribute (not under src/): the value is an attribute of some
\* type, and that is the type it has in the database, if any
pCheckAttribute(v, aTypeFromDb) ==
  /\ v.t = "Attribute"
  /\ aTypeFromDb \in {NoAttributeType, v.s}

\* The member loop (lines 194-249) from member i on; idP and typeP are
\* NULL or the name of the id and the type member met; dbAttrsP is << >> (NULL) or
\* << the attributes in the database >>. The names of the members
\* before i are already expanded, those from i on are not.
RECURSIVE MemberLoop(_, _, _, _, _)
MemberLoop(ms, i, idP, typeP, dbAttrsP) ==
  IF i > Len(ms) THEN [ok |-> TRUE, members |-> ms]
  ELSE
  LET m    == ms[i]
      long == Expansion[m.name]
      aTypeFromDb == IF dbAttrsP = << >> THEN NoAttributeType
                     ELSE attrTypeFromDb(dbAttrsP[1], DotForEq[long])
  IN
  CASE kjLookupByNameExceptOne(ms, m.name, i) -> Fail
    [] m.name \in {"@context", "scope"} -> MemberLoop(ms, i + 1, idP, typeP, dbAttrsP)
    [] m.name \in {"id", "@id"} ->
         IF idCheck(m.value, idP) THEN MemberLoop(ms, i + 1, m.name, typeP, dbAttrsP) ELSE Fail
    [] m.name \in {"type", "@type"} ->
         IF typeCheck(m.value, typeP)
         THEN MemberLoop([ms EXCEPT ![i].value.s = Expansion[@]], i + 1, idP, m.name, dbAttrsP)
         ELSE Fail
    [] m.name \in InvalidNames -> Fail
    [] ~pCheckAttribute(m.value, aTypeFromDb) -> Fail
    [] OTHER -> MemberLoop([ms EXCEPT ![i].name = long], i + 1, idP, typeP, dbAttrsP)

\* pCheckEntity (lines 181-258). The "batch" parameter is not used.
pCheckEntity(entityP, dbAttrsP) ==
  MemberLoop(RemoveMember(RemoveMember(entityP, "createdAt"), "modifiedAt"),
             1, NULL, NULL, dbAttrsP)

-----------------------------------------------------------------------------
(* The check: Init picks a payload and the attributes the entity has in   *)
(* the database (<< >>: NULL, a creation); Evaluate runs pCheckEntity.    *)

VARIABLES entity, dbAttrs, result   \* result: << >> before, << [ok, members] >> after

vars == <<entity, dbAttrs, result>>

Init ==
  /\ entity \in Inputs
  /\ dbAttrs \in {<< >>} \cup {<< a >> : a \in DbAttrsChoices}
  /\ result = << >>

Evaluate ==
  /\ result = << >>
  /\ result' = << pCheckEntity(entity, dbAttrs) >>
  /\ UNCHANGED <<entity, dbAttrs>>

Done ==
  /\ result # << >>
  /\ UNCHANGED vars

Next == Evaluate \/ Done

Spec == Init /\ [][Next]_vars

-----------------------------------------------------------------------------
\* "Duplicated field in an entity" (line 202): an entity pCheckEntity
\* accepts names each of its members once, attributes by the long name
\* they are stored under. The lookup at line 200 compares a member's name
\* as given with the names of the members before it as already expanded
\* at line 238, so whether a short and a long name of one attribute are
\* caught depends on their order in the payload.
AcceptedMembersDistinct ==
  result # << >> /\ result[1].ok =>
    IsInjective([i \in DOMAIN result[1].members |-> result[1].members[i].name])

=============================================================================
