------------------------- MODULE MCPayloadAttribute -------------------------
(***************************************************************************)
(* Inputs of PayloadAttribute: every simple RHS, and objects built from   *)
(* the special fields (each absent or with a value that steers the code) *)
(* and one sub-attribute P1, itself simple or an object of type, value,  *)
(* object and unitCode. Strings: a plain text, a URN, the four attribute *)
(* type names and a GeoJSON type.                                         *)
(***************************************************************************)
EXTENDS PayloadAttribute, TLC

MCStrings    == {"text", "urn:ngsi-ld:E1", "Property", "Relationship",
                 "GeoProperty", "LanguageProperty", "Point"}
MCUrnStrings == {"urn:ngsi-ld:E1"}
MCDbTypes    == {"Property", "Relationship", "GeoProperty", "LanguageProperty"}

Kind(k)  == [t |-> k, s |-> "", m |-> NoMembers]
Leaves   == {Str(s) : s \in MCStrings} \cup {Kind(k) : k \in {"Int", "Float", "Boolean", "Array", "Null"}}

\* every object whose members are a subset of DOMAIN opts, member n taking
\* a value in opts[n]
RECURSIVE Objects(_, _)
Objects(opts, names) ==
  IF names = {} THEN {NoMembers}
  ELSE LET n    == CHOOSE x \in names : TRUE
           rest == Objects(opts, names \ {n})
       IN  rest \cup {(n :> o) @@ f : o \in opts[n], f \in rest}

SubOpts ==
  ("type" :> {Str("Relationship"), Str("GeoProperty")}) @@
  ("value" :> {Kind("Int")}) @@ ("object" :> {Str("urn:ngsi-ld:E1")}) @@
  ("unitCode" :> {Str("text")})

SubValues == Leaves \cup {Obj(f) : f \in Objects(SubOpts, DOMAIN SubOpts)}

TopOpts ==
  ("type" :> ({Str(s) : s \in MCStrings \ {"text", "urn:ngsi-ld:E1"}} \cup {Kind("Int")})) @@
  ("@type" :> {Str("Property")}) @@ ("value" :> {Kind("Int")}) @@
  ("object" :> {Str("urn:ngsi-ld:E1")}) @@ ("languageMap" :> {Str("text")}) @@
  ("coordinates" :> {Kind("Array")}) @@ ("observedAt" :> {Str("text")}) @@
  ("unitCode" :> {Str("text")}) @@ ("datasetId" :> {Str("urn:ngsi-ld:E1")}) @@
  ("P1" :> SubValues)

MCInputs == Leaves \cup {Obj(f) : f \in Objects(TopOpts, DOMAIN TopOpts)}

=============================================================================
