------------------------------ MODULE MCTroePatch ------------------------------
(***************************************************************************)
(* Model of TroePatch. The patch base holds attribute P1 with a value, an *)
(* observedAt and a unitCode. A patch is either one step with any PATH of *)
(* up to 7 names over the names the DB model puts in a PATH and a leaf    *)
(* TREE (the path handling of TroePath, over every path), or up to three  *)
(* steps out of: a new attribute P2 in DB form (with modDate, md and      *)
(* mdNames), a new value of P2, a new observedAt of P1 (PATH through md   *)
(* and "value"), the removal of P1's unitCode (null TREE), a sub-attribute *)
(* value of P2, a sub-attribute of a missing attribute P3, and a modDate. *)
(***************************************************************************)
EXTENDS TroePatch, TLC

MCNames  == {"attrs", "P1", "md", "observedAt", "unitCode", "value", "modDate"}
MCLeaves == {"v1", "v2"}

\* A node path from names, each name a component of its own
Comps(names) == [i \in 1..Len(names) |-> <<names[i]>>]

\* A tree from <<names, kind>> pairs
T(nodes) == [q \in {Comps(n[1]) : n \in nodes} |-> (CHOOSE n \in nodes : Comps(n[1]) = q)[2]]

Leaf(v) == T({<< << >>, v >>})

MCInitialBase ==
  T({<< << >>, "obj" >>, << <<"P1">>, "obj" >>, << <<"P1", "type">>, "v1" >>,
     << <<"P1", "value">>, "v1" >>, << <<"P1", "observedAt">>, "v1" >>,
     << <<"P1", "unitCode">>, "v1" >>})

DbFormP2 ==
  T({<< << >>, "obj" >>, << <<"type">>, "v2" >>, << <<"value">>, "v2" >>,
     << <<"modDate">>, "v2" >>, << <<"mdNames">>, "obj" >>, << <<"md">>, "obj" >>,
     << <<"md", "Sub">>, "obj" >>, << <<"md", "Sub", "value">>, "v2" >>,
     << <<"md", "Sub", "creDate">>, "v2" >>})

Step(path, tree) == [path |-> path, tree |-> tree]

MCSteps ==
  { Step(<<"attrs", "P2">>, DbFormP2),
    Step(<<"attrs", "P2", "value">>, Leaf("v1")),
    Step(<<"attrs", "P1", "md", "observedAt", "value">>, Leaf("v2")),
    Step(<<"attrs", "P1", "md", "unitCode">>, Leaf("null")),
    Step(<<"attrs", "P2", "md", "Sub", "value">>, Leaf("v1")),
    Step(<<"attrs", "P3", "md", "Sub">>, Leaf("v1")),
    Step(<<"attrs", "P1", "modDate">>, Leaf("v2")) }

MCPatches ==
  {<< Step(p, Leaf("v2")) >> : p \in Paths}
    \cup UNION {[1..k -> MCSteps] : k \in 1..3}

=============================================================================
