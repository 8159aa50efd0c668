--------------------------- MODULE MCEntityPayload ---------------------------
(***************************************************************************)
(* Inputs of EntityPayload: every payload of up to three members. The     *)
(* context maps "temperature" to "https://ex.org/temperature"; "speed" is *)
(* in no context and gets the default vocabulary; "temp<1>" holds a       *)
(* forbidden character. In the database, when the entity exists, the     *)
(* attribute "temperature" is a Property, or has no "type".               *)
(***************************************************************************)
EXTENDS EntityPayload

Temp      == "https://ex.org/temperature"
Speed     == "https://uri.etsi.org/ngsi-ld/default-context/speed"
EntityT   == "https://ex.org/Vehicle"

MCExpansion ==
  [n \in {"temperature", Temp, "speed", Speed, "Vehicle", EntityT, "temp<1>"} |->
     CASE n = "temperature" -> Temp
       [] n = "speed"       -> Speed
       [] n = "Vehicle"     -> EntityT
       [] OTHER             -> n]

MCDotForEq == [n \in {Temp, Speed, "temp<1>"} |->
                 CASE n = Temp  -> "https://ex=org/temperature"
                   [] n = Speed -> "https://uri=etsi=org/ngsi-ld/default-context/speed"
                   [] OTHER     -> n]

MCInvalidNames == {"temp<1>"}
MCUriValues    == {"urn:ngsi-ld:Vehicle:1"}

Str(s)  == [t |-> "String", s |-> s]
Attr(T) == [t |-> "Attribute", s |-> T]

\* the values each member name is tried with
MemberValues ==
  ("@context" :> {Str("https://ex.org/ctx.jsonld")}) @@
  ("id" :> {Str("urn:ngsi-ld:Vehicle:1"), Str("Vehicle")}) @@
  ("@id" :> {Str("urn:ngsi-ld:Vehicle:1")}) @@
  ("type" :> {Str("Vehicle")}) @@
  ("createdAt" :> {Str("2024-01-01T00:00:00Z")}) @@
  ("temperature" :> {Attr("Property"), Attr("Relationship")}) @@
  (Temp :> {Attr("Property")}) @@
  ("speed" :> {Attr("Property")}) @@
  ("temp<1>" :> {Attr("Property")})

Members == UNION {{[name |-> n, value |-> v] : v \in MemberValues[n]} : n \in DOMAIN MemberValues}

MCInputs == UNION {[1..k -> Members] : k \in 0..3}

MCDbAttrsChoices ==
  {("https://ex=org/temperature" :> "Property"),
   ("https://ex=org/temperature" :> NoTypeMember)}

=============================================================================
