------------------------------ MODULE TroePath ------------------------------
(***************************************************************************)
(* The PATH handling of a TRoE patch, translated from                     *)
(*   src/lib/orionld/troe/troePatchEntity2.cpp                            *)
(* pathComponentsSplit cuts the dotted PATH of a patch step in place into *)
(* at most 6 components; pathComponentsFix rewrites the component array  *)
(* in place (dropping "attrs", "md", a trailing "value" of observedAt or *)
(* unitCode) and decides whether the step is skipped; pathArrayJoin      *)
(* glues the components back into the PATH stored for the TRoE database. *)
(*                                                                         *)
(* A path is the sequence of its dot-separated names; a component is the *)
(* sequence of names it holds (the last one may hold the unsplit rest).   *)
(* compV is a sequence of 7 slots (char* compV[7]); << >> is NULL.       *)
(***************************************************************************)
EXTENDS Integers, Sequences, SequencesExt

CONSTANTS
  Names,        \* the names a path is made of
  MaxPathLen    \* bound on the number of names in a path

NULL == << >>

\* pathArrayJoin (lines 178-189): the components joined by "."
pathArrayJoin(compV, components) ==
  FoldLeft(LAMBDA acc, c : acc \o c, << >>, SubSeq(compV, 1, components))

-----------------------------------------------------------------------------
(* pathComponentsSplit (lines 47-82). Each iteration of the C loop that  *)
(* meets a '.' cuts the path there and starts component compIx at the    *)
(* next name; the loop returns early at compIx 5 and after "attrs.X.value". *)
(* Component i < count holds one name; the last holds the rest.          *)

\* MUTANT: the six-component cut made one component early
RECURSIVE SplitLoop_early(_, _, _)
SplitLoop_early(names, dot, compIx) ==
  IF dot >= Len(names) THEN compIx
  ELSE IF compIx = 4 THEN 5
  ELSE IF compIx = 3 /\ names[3] = "value" THEN 4
  ELSE SplitLoop_early(names, dot + 1, compIx + 1)

RECURSIVE SplitLoop(_, _, _)
SplitLoop(names, dot, compIx) ==
  IF dot >= Len(names) THEN compIx                            \* *path == 0
  ELSE IF compIx = 5 THEN 6
  ELSE IF compIx = 3 /\ names[3] = "value" THEN 4
  ELSE SplitLoop(names, dot + 1, compIx + 1)

pathComponentsSplit(names) ==
  LET count == SplitLoop(names, 1, 1)
  IN  [i \in 1..7 |-> IF i < count THEN <<names[i]>>
                      ELSE IF i = count THEN SubSeq(names, i, Len(names))
                      ELSE NULL]

Components(compV) == SelectInSeq(compV, LAMBDA c : c = NULL) - 1

-----------------------------------------------------------------------------
(* pathComponentsFix (lines 121-175), translated loop for loop. C index j *)
(* is slot j + 1. The array is rewritten in place: compV[newIx] =        *)
(* compV[oldIx] may overwrite a slot a later check reads (compV[3]).      *)
(* The result: the new component count (-1: skipped at the start), the  *)
(* skip flag, the array, and whether compV[newIx - 1] was read with       *)
(* newIx = 0 (outside the array: undefined behaviour).                    *)

Is(c, name) == c = <<name>>

RECURSIVE FixLoop(_, _, _, _, _)
FixLoop(cv, components, ix, oldIx, newIx) ==
  IF ix >= components
  THEN LET last   == IF newIx > 0 THEN cv[newIx] ELSE NULL
           oob    == newIx = 0
       IN  [n |-> newIx, compV |-> [cv EXCEPT ![newIx + 1] = NULL], oob |-> oob,
            skip |-> ~oob /\ \E nm \in {"modDate", "creDate", "mdNames"} : Is(last, nm)]
  ELSE IF oldIx = 0
  THEN IF Is(cv[oldIx + 1], "attrs")
       THEN FixLoop(cv, components, ix + 1, oldIx + 1, newIx)
       ELSE [n |-> -1, compV |-> cv, oob |-> FALSE, skip |-> TRUE]
  ELSE IF oldIx = 2 /\ Is(cv[oldIx + 1], "md")
  THEN FixLoop(cv, components, ix + 1, oldIx + 1, newIx)
  ELSE IF /\ oldIx = 4 /\ Is(cv[oldIx + 1], "value")
          /\ (Is(cv[4], "observedAt") \/ Is(cv[4], "unitCode"))
  THEN [n |-> newIx, compV |-> [cv EXCEPT ![newIx + 1] = NULL], oob |-> FALSE, skip |-> FALSE]
  ELSE FixLoop([cv EXCEPT ![newIx + 1] = cv[oldIx + 1]], components, ix + 1, oldIx + 1, newIx + 1)

pathComponentsFix(compV, components) == FixLoop(compV, components, 0, 0, 0)

-----------------------------------------------------------------------------
(* patchApply (lines 197-226): split, fix, and either skip the step or   *)
(* store the joined fixed path. The undefined read of compV[-1] compares *)
(* whatever lies before the array: the step may or may not be skipped.   *)
PatchPathOutcomes(names) ==
  LET split == pathComponentsSplit(names)
      fix   == pathComponentsFix(split, Components(split))
  IN  { [skip |-> s, path |-> IF s THEN NULL ELSE pathArrayJoin(fix.compV, fix.n),
         components |-> IF s THEN NULL ELSE SubSeq(fix.compV, 1, fix.n),
         oob |-> fix.oob] :
          s \in IF fix.oob THEN BOOLEAN ELSE {fix.skip} }

\* Every path of up to MaxPathLen names
Paths == UNION {[1..k -> Names] : k \in 1..MaxPathLen}

-----------------------------------------------------------------------------
(* Reference, from the comments of troePatchEntity2.cpp: only the first  *)
(* 6 components are split ("attrs.P1.md.Sub-P1.value[.X]*"), and not     *)
(* beyond "attrs.X.value"; a path outside "attrs" is skipped; "attrs" and *)
(* "md" are redundant for TRoE, as is the "value" of an observedAt or     *)
(* unitCode; paths ending in modDate, creDate or mdNames are skipped.     *)

RefSplit(names) ==
  LET count == IF Len(names) >= 4 /\ names[3] = "value" THEN 4
               ELSE IF Len(names) > 6 THEN 6 ELSE Len(names)
  IN  [i \in 1..count |-> IF i < count THEN <<names[i]>> ELSE SubSeq(names, i, Len(names))]

RefComponents(names) ==
  LET c      == RefSplit(names)
      noMd   == IF Len(c) >= 3 /\ c[3] = <<"md">> THEN <<c[2]>> \o SubSeq(c, 4, Len(c))
                ELSE SubSeq(c, 2, Len(c))
      dropValue == /\ Len(c) >= 5 /\ c[5] = <<"value">>
                   /\ c[4] \in {<<"observedAt">>, <<"unitCode">>}
  IN  IF dropValue THEN SubSeq(noMd, 1, Len(noMd) - (Len(c) - 4)) ELSE noMd

RefSkip(names) ==
  \/ names[1] # "attrs"
  \/ LET rc == RefComponents(names)
     IN  rc[Len(rc)] \in {<<"modDate">>, <<"creDate">>, <<"mdNames">>}

\* The outcome of the path handling of a step with PATH names is the one
\* the comments describe: skipped exactly when the reference skips it,
\* and otherwise stored as the reference's components joined by dots.
PathOutcomeAgrees(names, out) ==
  /\ out.skip = RefSkip(names)
  /\ ~out.skip => /\ out.components = RefComponents(names)
                  /\ out.path = FoldLeft(LAMBDA acc, c : acc \o c, << >>, RefComponents(names))

=============================================================================
