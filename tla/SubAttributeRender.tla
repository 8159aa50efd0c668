------------------------- MODULE SubAttributeRender -------------------------
(***************************************************************************)
(* The conversion of a sub-attribute from the database model to the API   *)
(* format, translated from src/lib/orionld/db/dbModelToApiSubAttribute.cpp, *)
(* composed with the Name Resolver it calls: dbModelToApiSubAttribute2    *)
(* decodes the stored name (eqForDot), compacts it with                   *)
(* orionldContextItemAliasLookup in the request's context (which counts a *)
(* compaction), moves "type" over, renames "value" after the attribute    *)
(* type, keeps unitCode and observedAt, renames creDate/modDate when      *)
(* system attributes are asked for, and drops everything else. A          *)
(* sub-attribute named "observedAt" is a timestamp: dbModelToObservedAt   *)
(* turns it into a DateTime string, and calls no lookup.                  *)
(*                                                                         *)
(* A JSON value is a record [t, s, m] as in PayloadAttribute. eqForDot and *)
(* numberToDate are tables over the names and numbers the model uses.     *)
(* The database is written by code outside src/; every stored            *)
(* sub-attribute other than observedAt is taken to have a string "type". *)
(***************************************************************************)
EXTENDS NameResolver

CONSTANTS
  DbSubAttrs,     \* sub-attributes as stored: [name, v]
  EqForDot,       \* [stored names -> LongNames]: eqForDot
  NumberToDate,   \* [stored timestamps -> DateTime strings]: numberToDate
  MaxRenders

\* The member names of a sub-attribute in API format
ApiNames == {"type", "value", "object", "languageMap", "unitCode",
             "observedAt", "createdAt", "modifiedAt"}

NoMembers == [n \in {} |-> NULL]
Has(v, n) == n \in DOMAIN v.m
Str(s)    == [t |-> "String", s |-> s, m |-> NoMembers]

\* orionldAttributeType (types/, not under src/)
orionldAttributeType(s) ==
  IF s \in {"Property", "Relationship", "GeoProperty", "LanguageProperty"}
  THEN s ELSE "NoAttributeType"

\* dbModelToObservedAt (lines 73-99): a { value: <number> } object or a
\* string; anything else is a database error (500) rendered as "ERROR"
dbModelToObservedAt(v) ==
  CASE v.t = "Object" /\ Has(v, "value") /\ v.m["value"].t = "Float"
         -> [ok |-> TRUE, v |-> Str(NumberToDate[v.m["value"].s])]
    [] v.t = "String" -> [ok |-> TRUE, v |-> v]
    [] OTHER          -> [ok |-> FALSE, v |-> Str("ERROR")]

\* MUTANT: the stored timestamps are renamed and kept without sysAttrs
ApiMemberName_noSysAttrs(n, subAttrType, sysAttrs) ==
  CASE n = "value" -> CASE subAttrType = "Relationship"     -> "object"
                        [] subAttrType = "LanguageProperty" -> "languageMap"
                        [] OTHER                            -> "value"
    [] n \in {"unitCode", "observedAt"} -> n
    [] n = "creDate" -> "createdAt"
    [] n = "modDate" -> "modifiedAt"
    [] OTHER -> NULL

\* The loop of lines 124-155: the API name a stored member goes under,
\* or NULL when it is skipped
ApiMemberName(n, subAttrType, sysAttrs) ==
  CASE n = "value" -> CASE subAttrType = "Relationship"     -> "object"
                        [] subAttrType = "LanguageProperty" -> "languageMap"
                        [] OTHER                            -> "value"
    [] n \in {"unitCode", "observedAt"} -> n
    [] sysAttrs /\ n = "creDate" -> "createdAt"
    [] sysAttrs /\ n = "modDate" -> "modifiedAt"
    [] OTHER -> NULL

\* dbModelToApiSubAttribute2 (lines 107-158), given the alias its name
\* compacts to: "type" moved first (lines 118-122), then the loop
dbModelToApiSubAttribute2(db, sysAttrs) ==
  LET subAttrType == orionldAttributeType(db.v.m["type"].s)
      moved == {n \in DOMAIN db.v.m \ {"type"} :
                  ApiMemberName(n, subAttrType, sysAttrs) # NULL}
      from(a) == CHOOSE n \in moved : ApiMemberName(n, subAttrType, sysAttrs) = a
      names == {"type"} \cup {ApiMemberName(n, subAttrType, sysAttrs) : n \in moved}
  IN  [t |-> "Object", s |-> "",
       m |-> [a \in names |-> IF a = "type" THEN db.v.m["type"] ELSE db.v.m[from(a)]]]

VARIABLE renders   \* history: [ctx, db, sysAttrs, name, v, ok]

renderVars == <<compactions, calls, renders>>

RenderInit ==
  /\ Init
  /\ renders = << >>

\* Line 110: the timestamp sub-attribute; no name lookup
RenderObservedAt(ctxArg, db, sysAttrs) ==
  LET out == dbModelToObservedAt(db.v)
  IN  /\ Len(renders) < MaxRenders /\ db.name = "observedAt"
      /\ renders' = Append(renders, [ctx |-> ctxArg, db |-> db, sysAttrs |-> sysAttrs,
                                     name |-> Short("observedAt"), v |-> out.v, ok |-> out.ok])
      /\ UNCHANGED <<compactions, calls>>

\* Lines 113-158: decode the stored name, compact it (one call of
\* orionldContextItemAliasLookup in the request's context), convert
RenderSubAttribute(ctxArg, db, sysAttrs) ==
  LET longName == EqForDot[db.name]
  IN  /\ Len(renders) < MaxRenders /\ db.name # "observedAt"
      /\ AliasLookup(ctxArg, longName)
      /\ renders' = Append(renders, [ctx |-> ctxArg, db |-> db, sysAttrs |-> sysAttrs,
                                     name |-> orionldContextItemAliasLookup(ctxArg, longName).result,
                                     v |-> dbModelToApiSubAttribute2(db, sysAttrs), ok |-> TRUE])

RenderDone ==
  /\ Len(renders) = MaxRenders
  /\ UNCHANGED renderVars

\* Lookups of other callers (NameResolver's Next) interleave with renders
RenderNext ==
  \/ Next /\ UNCHANGED renders
  \/ \E c \in UserContexts \cup {NULL}, db \in DbSubAttrs, sa \in BOOLEAN :
       RenderObservedAt(c, db, sa) \/ RenderSubAttribute(c, db, sa)
  \/ RenderDone

RenderSpec == RenderInit /\ [][RenderNext]_renderVars

-----------------------------------------------------------------------------
\* NGSI-LD: the member that holds the value of an attribute of a type
ValueKey(t) ==
  CASE t = "Relationship" -> "object"
    [] t = "LanguageProperty" -> "languageMap"
    [] OTHER -> "value"

\* A sub-attribute read from the database is rendered in API form: under
\* the alias the Name Resolver gives (spec 4.1) for the decoded stored
\* name in the request's context, with its stored type and its stored
\* value under the member NGSI-LD names for that type, with createdAt /
\* modifiedAt exactly when system attributes are asked for and stored,
\* and with no member of the database model left over; a stored
\* observedAt is rendered as a DateTime string unless it is reported as
\* a database error. The rename of "value" reads the type before it is
\* moved (lines 119-123), and the timestamp renames sit under the sysAttrs
\* branch (lines 140-152).
RenderedAsApi ==
  \A i \in DOMAIN renders :
    LET r  == renders[i]
        st == r.db.v.m
    IN  IF r.db.name = "observedAt"
        THEN r.name = Short("observedAt") /\ (r.ok => r.v.t = "String")
        ELSE LET t == st["type"].s IN
             /\ r.name = RefAlias(r.ctx, EqForDot[r.db.name])
             /\ r.v.m["type"] = st["type"]
             /\ "value" \in DOMAIN st => r.v.m[ValueKey(t)] = st["value"]
             /\ ("createdAt" \in DOMAIN r.v.m) <=> (r.sysAttrs /\ "creDate" \in DOMAIN st)
             /\ ("modifiedAt" \in DOMAIN r.v.m) <=> (r.sysAttrs /\ "modDate" \in DOMAIN st)
             /\ DOMAIN r.v.m \subseteq
                  {"type", ValueKey(t), "unitCode", "observedAt", "createdAt", "modifiedAt"}

=============================================================================
