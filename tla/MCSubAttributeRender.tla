------------------------- MODULE MCSubAttributeRender -------------------------
(***************************************************************************)
(* Model of SubAttributeRender over the contexts of MCNameResolver. The   *)
(* stored names are "other=a", "other=b" and "default=b" ('=' for '.'),    *)
(* eqForDot decodes them to the long names of those terms. The stored      *)
(* sub-attributes are a Relationship with both timestamps, a              *)
(* LanguageProperty with an observedAt, a Property with a unitCode and a  *)
(* member the API form drops, and the three shapes of a stored            *)
(* observedAt: { value: <number> }, a string, and a broken object.        *)
(***************************************************************************)
EXTENDS SubAttributeRender, TLC

MCTerms        == {"a", "b"}
MCUserContexts == {"u1"}

MCLong(ns, t) == [namespace |-> ns, term |-> t]

MCContextTable ==
  [c \in {"core"} \cup MCUserContexts |->
     [ln \in [namespace : {"default", "other"}, term : MCTerms] |->
        CASE c = "core" /\ ln = MCLong("other", "a") -> "a"
          [] c = "u1"   /\ ln = MCLong("other", "a") -> "b"
          [] c = "u1"   /\ ln = MCLong("other", "b") -> "b"
          [] OTHER                                  -> NoItem]]

MCEqForDot ==
  ("other=a" :> MCLong("other", "a")) @@ ("other=b" :> MCLong("other", "b"))
    @@ ("default=b" :> MCLong("default", "b"))

MCNumberToDate == "1700000000.0" :> "2023-11-14T22:13:20.000Z"

Leaf(t, s) == [t |-> t, s |-> s, m |-> NoMembers]
Obj(m)     == [t |-> "Object", s |-> "", m |-> m]
Num        == Leaf("Float", "1700000000.0")

MCDbSubAttrs ==
  { [name |-> "other=a",
     v |-> Obj(("type" :> Leaf("String", "Relationship")) @@ ("value" :> Leaf("String", "urn:E:1"))
               @@ ("creDate" :> Num) @@ ("modDate" :> Num))],
    [name |-> "default=b",
     v |-> Obj(("type" :> Leaf("String", "LanguageProperty")) @@ ("value" :> Leaf("String", "hello"))
               @@ ("observedAt" :> Leaf("String", "2023-11-14T22:13:20.000Z")))],
    [name |-> "other=b",
     v |-> Obj(("type" :> Leaf("String", "Property")) @@ ("value" :> Num)
               @@ ("unitCode" :> Leaf("String", "CEL")) @@ ("md" :> Leaf("String", "x")))],
    [name |-> "observedAt", v |-> Obj("value" :> Num)],
    [name |-> "observedAt", v |-> Leaf("String", "2023-11-14T22:13:20.000Z")],
    [name |-> "observedAt", v |-> Obj("value" :> Leaf("String", "now"))] }

=============================================================================
