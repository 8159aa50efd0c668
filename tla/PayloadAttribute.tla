--------------------------- MODULE PayloadAttribute ---------------------------
(***************************************************************************)
(* The smart-format check and normalisation of an attribute payload,      *)
(* translated from src/lib/orionld/payloadCheck/pbodyAttribute.cpp.       *)
(* A simple RHS (string, number, boolean, array) becomes an object with a *)
(* "type" and a "value" (or "object" for a string that starts with        *)
(* "urn:ngsi-ld:"); an object RHS gets its attribute type from "type" or *)
(* "@type", from the database, or deduced from value/object/languageMap,  *)
(* and every member that is not a special field is checked recursively   *)
(* as a sub-attribute.                                                    *)
(*                                                                         *)
(* A JSON value is a record [t, s, m]: its JSON type, its string (for a   *)
(* String) and its members (for an Object). The string test strncmp(...,  *)
(* "urn:ngsi-ld:", 12) is membership of UrnStrings. An object holds each *)
(* member name once (kjLookup finds the first of duplicates). Error texts *)
(* are left out: a check either passes or fails.                          *)
(***************************************************************************)
EXTENDS Naturals, FiniteSets

CONSTANTS
  Strings,      \* the strings a payload may hold
  UrnStrings,   \* those starting with "urn:ngsi-ld:"
  Inputs,       \* attribute RHS values to check
  DbTypes       \* attribute types an existing attribute may have in the DB

NULL == "NULL"
NoMembers == [n \in {} |-> NULL]

Has(v, n) == n \in DOMAIN v.m
Str(s)    == [t |-> "String", s |-> s, m |-> NoMembers]
Obj(f)    == [t |-> "Object", s |-> "", m |-> f]
Fail      == [ok |-> FALSE, out |-> NULL]
Accept(v) == [ok |-> TRUE, out |-> v]

\* orionldAttributeType (types/, not under src/): the four type names
orionldAttributeType(s) ==
  IF s \in {"Property", "Relationship", "GeoProperty", "LanguageProperty"}
  THEN s ELSE "NoAttributeType"

DbAttributeType(dbType) ==
  IF dbType = NULL THEN "NoAttributeType" ELSE orionldAttributeType(dbType)

-----------------------------------------------------------------------------
\* attributeTransform (lines 202-216): the RHS becomes an object holding
\* "type" and the value node under the name key
attributeTransform(type, key, valueP) ==
  Obj([n \in {"type", key} |-> IF n = "type" THEN Str(type) ELSE valueP])

\* pbodyAttributeString (lines 223-245)
pbodyAttributeString(v) ==
  IF v.s \in UrnStrings
  THEN attributeTransform("Relationship", "object", v)
  ELSE attributeTransform("Property", "value", v)

\* pbodyAttributeInteger, -Float, -Boolean, -Array (lines 253-303)
pbodyAttributeScalar(v) == attributeTransform("Property", "value", v)

\* pbodyGeoPropertyValue (lines 357-381); pCheckGeoPropertyValue (328-331)
\* accepts anything: with "coordinates" the whole object is the value
pbodyGeoPropertyValue(v) ==
  IF Has(v, "coordinates")
  THEN Accept(attributeTransform("GeoProperty", "value", v))
  ELSE Fail

\* pbodyAttributeType (lines 389-433), mandatory == false: "type" or
\* "@type", not both, and a string
pbodyAttributeType(v) ==
  LET key == IF Has(v, "type") THEN "type" ELSE IF Has(v, "@type") THEN "@type" ELSE NULL
  IN  [ok  |-> /\ ~(Has(v, "type") /\ Has(v, "@type"))
               /\ key # NULL => v.m[key].t = "String",
       key |-> key]

\* valueAndTypeCheck (lines 441-488): no branch for GeoProperty
valueAndTypeCheck(v, T) ==
  CASE T = "Property"         -> ~Has(v, "object") /\ ~Has(v, "languageMap")
    [] T = "Relationship"     -> ~Has(v, "value")  /\ ~Has(v, "languageMap")
    [] T = "LanguageProperty" -> ~Has(v, "value")  /\ ~Has(v, "object")
    [] OTHER                  -> TRUE

\* lines 582-601: type absent and not known from the DB
DeducedType(v) ==
  CASE Has(v, "value")       -> "Property"
    [] Has(v, "object")      -> "Relationship"
    [] Has(v, "languageMap") -> "LanguageProperty"
    [] OTHER                 -> "NoAttributeType"

\* The member loop (lines 604-656): what happens to member f. The checks
\* unitCodeCheck, datasetIdCheck, timestampCheck, objectCheck and
\* languageMapCheck (lines 492-496) all return true.
FieldAction(f, typeKey, isAttribute, T) ==
  CASE f = typeKey \/ f = "value" \/ f = "observedAt"  -> "keep"
    [] isAttribute /\ f = "datasetId"                  -> "keep"
    [] f = "unitCode" -> IF T \in {"Property", "NoAttributeType"} THEN "keep" ELSE "reject"
    [] T = "Relationship" /\ f = "object"              -> "keep"
    [] T = "LanguageProperty" /\ f = "languageMap"     -> "keep"
    [] OTHER                                           -> "recurse"

RECURSIVE pbodyAttribute(_, _, _)

\* pbodyAttributeObject (lines 512-659)
pbodyAttributeObject(v, isAttribute, dbType) ==
  LET tc    == pbodyAttributeType(v)
      given == IF tc.key # NULL THEN orionldAttributeType(v.m[tc.key].s) ELSE "NoAttributeType"
      T     == CASE tc.key # NULL                            -> given
                 [] DbAttributeType(dbType) # "NoAttributeType" -> DbAttributeType(dbType)
                 [] OTHER                                     -> DeducedType(v)
      act   == [f \in DOMAIN v.m |-> FieldAction(f, tc.key, isAttribute, T)]
      subs  == {f \in DOMAIN v.m : act[f] = "recurse"}
      sub   == [f \in subs |-> pbodyAttribute(v.m[f], FALSE, NULL)]
  IN  CASE ~tc.ok                                -> Fail
        [] tc.key # NULL /\ given = "NoAttributeType" -> pbodyGeoPropertyValue(v)
        [] tc.key # NULL /\ ~valueAndTypeCheck(v, given) -> Fail
        [] tc.key # NULL /\ dbType # NULL /\ v.m[tc.key].s # dbType -> Fail
        [] \E f \in DOMAIN v.m : act[f] = "reject" -> Fail
        [] \E f \in subs : ~sub[f].ok           -> Fail
        [] OTHER -> Accept(Obj([f \in DOMAIN v.m |-> IF f \in subs THEN sub[f].out ELSE v.m[f]]))

\* pbodyAttribute (lines 720-760): dispatch on the JSON type of the RHS;
\* pbodyAttributeNull (lines 311-320) rejects null
pbodyAttribute(v, isAttribute, dbType) ==
  CASE v.t = "String"                               -> Accept(pbodyAttributeString(v))
    [] v.t \in {"Int", "Float", "Boolean", "Array"} -> Accept(pbodyAttributeScalar(v))
    [] v.t = "Object"                               -> pbodyAttributeObject(v, isAttribute, dbType)
    [] OTHER                                        -> Fail

-----------------------------------------------------------------------------
(* The check: Init picks an attribute RHS and the type the attribute has  *)
(* in the database (NULL: new attribute); Evaluate runs pbodyAttribute.   *)

VARIABLES input, dbType, result   \* result: << >> before, << [ok, out] >> after

vars == <<input, dbType, result>>

Init ==
  /\ input \in Inputs
  /\ dbType \in DbTypes \cup {NULL}
  /\ result = << >>

Evaluate ==
  /\ result = << >>
  /\ result' = << pbodyAttribute(input, TRUE, dbType) >>
  /\ UNCHANGED <<input, dbType>>

Done ==
  /\ result # << >>
  /\ UNCHANGED vars

Next == Evaluate \/ Done

Spec == Init /\ [][Next]_vars

-----------------------------------------------------------------------------
\* pcheckAttributeType (lines 100-190): the fields an attribute of each
\* type may not hold
ForbiddenFields(T) ==
  CASE T \in {"Property", "GeoProperty"} -> {"object", "languageMap"}
    [] T = "Relationship"                -> {"value", "languageMap"}
    [] T = "LanguageProperty"            -> {"value", "object"}
    [] OTHER                             -> {}

SpecialFields == {"type", "@type", "value", "object", "languageMap",
                  "observedAt", "unitCode", "datasetId"}

\* An attribute, and each of its sub-attributes, is coherent with the type
\* it has (given, from the DB or deduced as the comment at line 509 says):
\* it holds none of the fields pcheckAttributeType forbids for that type.
\* An object whose "type" is no attribute type is a GeoProperty value.
RECURSIVE Coherent(_, _)
Coherent(v, dbT) ==
  v.t = "Object" =>
    LET key == IF Has(v, "type") THEN "type" ELSE IF Has(v, "@type") THEN "@type" ELSE NULL
        T   == CASE key # NULL                              -> orionldAttributeType(v.m[key].s)
                 [] DbAttributeType(dbT) # "NoAttributeType" -> DbAttributeType(dbT)
                 [] OTHER                                    -> DeducedType(v)
    IN  \/ key # NULL /\ T = "NoAttributeType"
        \/ /\ ForbiddenFields(T) \cap DOMAIN v.m = {}
           /\ \A f \in DOMAIN v.m \ SpecialFields : Coherent(v.m[f], NULL)

\* Whatever way pbodyAttribute learns an attribute's type (the "type"
\* member, the database, or the deduction from value/object/languageMap
\* of lines 582-601), an attribute it accepts is coherent with that type,
\* as valueAndTypeCheck and pcheckAttributeType require of a typed one.
AcceptedAttributeCoherent ==
  result # << >> /\ result[1].ok => Coherent(input, dbType)

=============================================================================
