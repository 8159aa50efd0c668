------------------------------ MODULE TroePatch ------------------------------
(***************************************************************************)
(* The tree edits of a TRoE patch, translated from                        *)
(*   src/lib/orionld/troe/troePatchEntity2.cpp                            *)
(* troePatchEntity2 applies the steps of the patch tree (each a PATH and  *)
(* a TREE) to the patch base in order: patchApply fixes the PATH (module *)
(* TroePath), walks the base along the fixed components with kjNavigate, *)
(* strips modDate, creDate and mdNames from an object TREE, and then adds *)
(* the TREE under the parent if only the last component is missing,      *)
(* removes the node for a null TREE, or replaces the node by the TREE.    *)
(* The patched base is then handed to troePatchEntity (not under src/).   *)
(*                                                                         *)
(* A KjNode tree is a function from node paths to kinds: a node path is  *)
(* the sequence of the names from the root, a name is a component as in  *)
(* TroePath (a sequence of dot-separated names, so that an unsplit rest  *)
(* such as "a.b" is one name), a kind is "obj", "null" or a leaf value.   *)
(* Member names of one object are distinct, so kjLookup (first member of *)
(* that name) is membership in the DOMAIN. kjLookup in a node that is not *)
(* an object reads its value as a child list: undefined behaviour, after *)
(* which the model records the step as undefined and stops.              *)
(***************************************************************************)
EXTENDS TroePath

CONSTANTS
  Leaves,        \* leaf values of a tree
  InitialBase,   \* orionldState.patchBase
  Patches        \* patch trees: sequences of [path, tree]

Root == << >>
Unwanted == {<<"modDate">>, <<"creDate">>, <<"mdNames">>}

\* The nodes at and under node path p
Under(t, p) == {q \in DOMAIN t : IsPrefix(p, q)}

\* The subtree at p, as a tree of its own
SubTree(t, p) == [r \in {SubSeq(q, Len(p) + 1, Len(q)) : q \in Under(t, p)} |-> t[p \o r]]

\* kjChildRemove(parentP, nodeP): the node and everything under it
kjChildRemove(t, p) == [q \in DOMAIN t \ Under(t, p) |-> t[q]]

\* kjChildAdd of tree tr under the name Last(p) (after a remove, if any)
Graft(t, p, tr) ==
  LET rest == kjChildRemove(t, p)
      new  == {p \o r : r \in DOMAIN tr}
  IN  [q \in DOMAIN rest \cup new |->
         IF q \in new THEN tr[SubSeq(q, Len(p) + 1, Len(q))] ELSE rest[q]]

\* Lines 234-244: the unwanted members of an object TREE are removed
StripUnwanted(tr) ==
  IF tr[Root] = "obj"
  THEN [q \in {q \in DOMAIN tr : q = Root \/ q[1] \notin Unwanted} |-> tr[q]]
  ELSE tr

\* MUTANT: onlyLastMissing set whenever a lookup misses
RECURSIVE kjNavigate_anyMissing(_, _, _, _, _)
kjNavigate_anyMissing(t, cv, n, i, cur) ==
  LET hit == cur \o <<cv[i]>>
  IN  CASE t[cur] # "obj"      -> [ub |-> TRUE]
        [] hit \notin DOMAIN t -> [ub |-> FALSE, found |-> FALSE, parent |-> cur, onlyLastMissing |-> TRUE]
        [] i = n               -> [ub |-> FALSE, found |-> TRUE, node |-> hit, parent |-> cur]
        [] OTHER               -> kjNavigate_anyMissing(t, cv, n, i + 1, hit)

\* kjNavigate (lines 90-106) from component i (slot i of compV) in node
\* cur: pathCompV[1] == NULL is i = n
RECURSIVE kjNavigate(_, _, _, _, _)
kjNavigate(t, cv, n, i, cur) ==
  LET hit == cur \o <<cv[i]>>
  IN  CASE t[cur] # "obj"      -> [ub |-> TRUE]
        [] hit \notin DOMAIN t -> [ub |-> FALSE, found |-> FALSE, parent |-> cur, onlyLastMissing |-> i = n]
        [] i = n               -> [ub |-> FALSE, found |-> TRUE, node |-> hit, parent |-> cur]
        [] OTHER               -> kjNavigate(t, cv, n, i + 1, hit)

\* patchApply (lines 197-273) of step s to base t: the set of outcomes
\* [out, ub, base], out being the path handling of TroePath. With the
\* bare PATH "attrs" and no skip, compV[0] is NULL and kjLookup compares
\* with a NULL name: undefined as well.
patchApply(t, s) ==
  LET split == pathComponentsSplit(s.path)
      fix   == pathComponentsFix(split, Components(split))
      tree  == StripUnwanted(s.tree)
      nav   == IF fix.n > 0 THEN kjNavigate(t, fix.compV, fix.n, 1, Root) ELSE [ub |-> TRUE]
      edit  == CASE ~nav.found /\ nav.onlyLastMissing -> Graft(t, nav.parent \o <<fix.compV[fix.n]>>, tree)
                 [] ~nav.found                        -> t
                 [] s.tree[Root] = "null"             -> kjChildRemove(t, nav.node)
                 [] OTHER                             -> Graft(t, nav.node, tree)
  IN  {IF o.skip THEN [out |-> o, ub |-> FALSE, base |-> t]
       ELSE IF nav.ub THEN [out |-> o, ub |-> TRUE, base |-> t]
       ELSE [out |-> o, ub |-> FALSE, base |-> edit] : o \in PatchPathOutcomes(s.path)}

-----------------------------------------------------------------------------
VARIABLES
  base,      \* orionldState.patchBase
  patch,     \* the steps of the patch tree not applied yet
  applied,   \* history: [path, out, ub] per applied step
  pushed     \* << >>, or << the tree handed to troePatchEntity >>

patchVars == <<base, patch, applied, pushed>>

Undefined == \E i \in DOMAIN applied : applied[i].ub

PatchInit ==
  /\ base = InitialBase
  /\ patch \in Patches
  /\ applied = << >>
  /\ pushed = << >>

\* One iteration of the loop of lines 289-292
ApplyStep ==
  /\ patch # << >> /\ ~Undefined
  /\ \E o \in patchApply(base, Head(patch)) :
       /\ base' = o.base
       /\ applied' = Append(applied, [path |-> Head(patch).path, out |-> o.out, ub |-> o.ub])
       /\ patch' = IF o.ub THEN << >> ELSE Tail(patch)
  /\ UNCHANGED pushed

\* Lines 300-303: the patched base becomes the request tree of troePatchEntity
Push ==
  /\ patch = << >> /\ ~Undefined /\ pushed = << >>
  /\ pushed' = <<base>>
  /\ UNCHANGED <<base, patch, applied>>

PatchDone ==
  /\ patch = << >> /\ (pushed # << >> \/ Undefined)
  /\ UNCHANGED patchVars

PatchNext == ApplyStep \/ Push \/ PatchDone

PatchSpec == PatchInit /\ [][PatchNext]_patchVars

-----------------------------------------------------------------------------
\* Every applied step's PATH, the bare "attrs" aside, is split, fixed,
\* skipped and joined as the comments of the file describe (TroePath).
StepPathsAgreeWithReference ==
  \A i \in DOMAIN applied :
    applied[i].path # <<"attrs">> => PathOutcomeAgrees(applied[i].path, applied[i].out)

\* A patch step edits the base at the path the comments give for its
\* PATH and nowhere else: a skipped step changes nothing; otherwise every
\* node off that path keeps its value, and at the path the base holds the
\* TREE without modDate/creDate/mdNames (replaced, or added when only the
\* last name is missing), nothing for a null TREE of an existing node,
\* and the base is left as it was when an earlier name is missing. The
\* onlyLastMissing flag (line 98) and the parent kjNavigate leaves in
\* parentP decide where the TREE goes.
PatchEditsOnlyItsPath ==
  [][ /\ patch # << >> /\ Head(patch).path # <<"attrs">>
      /\ Len(applied') = Len(applied) + 1 /\ ~applied'[Len(applied')].ub
      => LET s == Head(patch)
             p == RefComponents(s.path)
         IN  IF RefSkip(s.path) THEN base' = base
             ELSE /\ \A q \in DOMAIN base \cup DOMAIN base' :
                       ~IsPrefix(p, q) =>
                         q \in DOMAIN base /\ q \in DOMAIN base' /\ base'[q] = base[q]
                  /\ CASE p \in DOMAIN base /\ s.tree[Root] = "null" -> Under(base', p) = {}
                       [] Front(p) \in DOMAIN base -> SubTree(base', p) = StripUnwanted(s.tree)
                       [] OTHER -> base' = base
    ]_patchVars

=============================================================================
