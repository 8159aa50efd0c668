----------------------------- MODULE NameResolver -----------------------------
(***************************************************************************)
(* Alias lookup of the Name Resolver, translated from                      *)
(*   src/lib/orionld/context/orionldContextItemAliasLookup.cpp            *)
(* A long name is a record: the default-vocabulary prefix ("default") or *)
(* another namespace, and the term after it. A context table maps long   *)
(* names to the alias (short name) of its item, or to NoItem. Each call   *)
(* of orionldContextItemAliasLookup is one step; the compaction counters *)
(* of the contexts are the state it changes. Calls of one request thread *)
(* are sequential; concurrent increments are best effort by the spec and *)
(* are not modelled.                                                      *)
(***************************************************************************)
EXTENDS Integers, Sequences, FiniteSets, Functions

CONSTANTS
  Terms,          \* terms after a namespace
  Core,           \* orionldCoreContextP
  UserContexts,   \* per-request contexts
  ContextTable,   \* [Contexts -> [LongNames -> Terms \cup {NoItem}]]
  NoItem,
  NULL,           \* no context given: the core context is used
  MaxLookups

Contexts  == {Core} \cup UserContexts
LongNames == [namespace : {"default", "other"}, term : Terms]

\* A short name (an alias, or the remainder after the default prefix)
Short(t) == [namespace |-> "alias", term |-> t]

VARIABLES
  compactions,    \* [Contexts -> Nat]: contextP->compactions
  calls           \* history: [contextP, longName, result, counted]

vars == <<compactions, calls>>

TypeOK ==
  /\ compactions \in [Contexts -> 0..MaxLookups]
  /\ calls \in Seq([contextP : Contexts \cup {NULL}, longName : LongNames,
                    result : LongNames \cup [namespace : {"alias"}, term : Terms], counted : Contexts \cup {NULL}])

Init ==
  /\ compactions = [c \in Contexts |-> 0]
  /\ calls = << >>

\* orionldContextItemValueLookup: the item of longName in a context table
orionldContextItemValueLookup(contextP, longName) == ContextTable[contextP][longName]

\* MUTANT: the provided context is consulted before the core context
ItemFound_overrideFirst(contextP, longName) ==
  IF contextP # Core /\ orionldContextItemValueLookup(contextP, longName) # NoItem
  THEN orionldContextItemValueLookup(contextP, longName)
  ELSE orionldContextItemValueLookup(Core, longName)

\* Steps 2 and 3: the core context, then the provided one unless it is the core
ItemFound(contextP, longName) ==
  IF orionldContextItemValueLookup(Core, longName) = NoItem /\ contextP # Core
  THEN orionldContextItemValueLookup(contextP, longName)
  ELSE orionldContextItemValueLookup(Core, longName)

\* One call: returns [result, counted] where counted is the context whose
\* counter was incremented (NULL: none).
orionldContextItemAliasLookup(ctxArg, longName) ==
  LET contextP == IF ctxArg = NULL THEN Core ELSE ctxArg
      item     == ItemFound(contextP, longName)
  IN  CASE longName.namespace = "default" -> [result |-> Short(longName.term), counted |-> Core]
        [] item = NoItem                  -> [result |-> longName, counted |-> NULL]
        [] OTHER                          -> [result |-> Short(item), counted |-> contextP]

AliasLookup(ctxArg, longName) ==
  LET out == orionldContextItemAliasLookup(ctxArg, longName)
  IN  /\ Len(calls) < MaxLookups
      /\ compactions' = IF out.counted = NULL THEN compactions
                        ELSE [compactions EXCEPT ![out.counted] = @ + 1]
      /\ calls' = Append(calls, [contextP |-> ctxArg, longName |-> longName,
                                 result |-> out.result, counted |-> out.counted])

Done ==
  /\ Len(calls) = MaxLookups
  /\ UNCHANGED vars

Next ==
  \/ \E c \in UserContexts \cup {NULL}, ln \in LongNames : AliasLookup(c, ln)
  \/ Done

Spec == Init /\ [][Next]_vars

-----------------------------------------------------------------------------
(* Reference, spec 4.1: a default-vocabulary name is prefix-stripped;     *)
(* otherwise the default context's table is looked up first, then the    *)
(* override's; an unresolved name is returned unchanged.                 *)

RefHolder(ctxArg, ln) ==
  IF ContextTable[Core][ln] # NoItem THEN Core
  ELSE IF ctxArg \in UserContexts /\ ContextTable[ctxArg][ln] # NoItem THEN ctxArg
  ELSE NULL

RefAlias(ctxArg, ln) ==
  IF ln.namespace = "default" THEN Short(ln.term)
  ELSE IF RefHolder(ctxArg, ln) = NULL THEN ln
  ELSE Short(ContextTable[RefHolder(ctxArg, ln)][ln])

\* Every call returns the alias spec 4.1 gives, and the compaction counters
\* add up to the number of calls that compacted: the core-first order of
\* the two table lookups (lines 73-77) decides which alias wins when both
\* contexts define the name.
AliasAgreesWithReference ==
  /\ \A i \in 1..Len(calls) :
       calls[i].result = RefAlias(calls[i].contextP, calls[i].longName)
  /\ LET compacted == {i \in 1..Len(calls) : calls[i].counted # NULL}
     IN  Cardinality(compacted) = FoldFunction(LAMBDA x, y : x + y, 0, compactions)

=============================================================================
