----------------------------- MODULE FieldTypes -----------------------------
(***************************************************************************)
(* models/common.py and the models built from it: which decoded documents  *)
(* the engine's own types accept, and the config block it reads from them. *)
(*                                                                         *)
(* A model is the table of its fields.  The config block is complete; of   *)
(* Charter and CarveOutRatified, the fields left out are well formed in    *)
(* every document considered.                                              *)
(***************************************************************************)
EXTENDS Documents, Absent

Field(type, keywords) ==
  [type |-> type, keywords |-> keywords, model |-> None, nullable |-> FALSE, required |-> FALSE]
\* The type T | None, with None for its default.
Nullable(field) == [field EXCEPT !.nullable = TRUE]
Required(field) == [field EXCEPT !.required = TRUE]

NoBounds   == [keyword \in {} |-> 0]
DocInt     == Field("integer", NoBounds)
DocFloat   == Field("number", NoBounds)
StrictBool == Field("boolean", NoBounds)
ShortText  == Field("string", [minLength |-> 1, pattern |-> "HAS_CONTENT"])
CarveOutIdStr == Field("string", [pattern |-> "CARVE_OUT_ID"])
Literal(names) == Field("string", [enum |-> names])
ModelType(name) == [Field("object", NoBounds) EXCEPT !.model = name]

\* Annotated[field, Field(...)]
Bounded(field, bounds) == [field EXCEPT !.keywords = bounds]

FIELDS ==
  [Charter |-> [config |-> Nullable(ModelType("ConfigBlock"))],
   ConfigBlock |->
     [density_window_days     |-> Nullable(Bounded(DocInt, [ge |-> 1])),
      density_threshold       |-> Nullable(Bounded(DocInt, [ge |-> 1])),
      cumulative_ratio        |-> Nullable(Bounded(DocFloat, [gt |-> 0, le |-> 1])),
      default_carveout_budget |-> Nullable(Bounded(DocInt, [ge |-> 0])),
      window_boundary         |-> Nullable(Literal({"inclusive", "exclusive"})),
      require_review_artifact |-> Nullable(StrictBool),
      ledger_pr_isolation     |-> Nullable(StrictBool),
      approval_policy         |-> Nullable(ModelType("ApprovalPolicyConfig"))],
   ApprovalPolicyConfig |->
     [min_approvals             |-> Nullable(Bounded(DocInt, [ge |-> 0])),
      require_code_owner        |-> Nullable(StrictBool),
      distinct_from_author      |-> Nullable(StrictBool),
      self_ratification_allowed |-> Nullable(StrictBool)],
   CarveOutRatified |-> [id |-> Required(CarveOutIdStr), title |-> Required(ShortText)]]

\* None is neither a model nor what a model holds.
ASSUME NoneIsNoValue ==
  /\ None \notin DOMAIN FIELDS /\ None \notin {"inclusive", "exclusive"}
  /\ None \notin BOOLEAN /\ None \notin Int /\ None \notin Int \X Int

-----------------------------------------------------------------------------
(* One value.  The Python value is the only member of the set, which is    *)
(* empty when the type refuses; numbers are <<digits, places>>.            *)

NUMERALS == [text \in {"'2'", "'0.5'"} |-> IF text = "'2'" THEN <<2, 0>> ELSE <<5, 1>>]

\* What pydantic's lax mode makes a number of.
lax_number(v) ==
  CASE v[1] = "integer" -> {<<v[2], 0>>}
    [] v[1] = "number"  -> {v[2]}
    [] v[1] = "boolean" -> {<<IF v[2] THEN 1 ELSE 0, 0>>}
    [] v[1] = "string"  -> {NUMERALS[s] : s \in {v[2]} \cap DOMAIN NUMERALS}
    [] OTHER            -> {}

whole(q) == q[1] % 10 ^ q[2] = 0

\* Mutant: only strings are stopped, and a boolean is an integer in Python.
reject_strings_only(v) == IF v[1] = "string" THEN {} ELSE {v}
reject_cross_type(v) == IF v[1] \in {"string", "boolean"} THEN {} ELSE {v}

coerced(type, v) ==
  CASE type = "integer" -> {q \in UNION {lax_number(w) : w \in reject_cross_type(v)} : whole(q)}
    [] type = "number"  -> UNION {lax_number(w) : w \in reject_cross_type(v)}
    [] type = "boolean" -> IF v[1] = "boolean" THEN {v[2]} ELSE {}
    [] type = "string"  -> IF v[1] = "string" THEN {v[2]} ELSE {}
    [] type = "object"  -> {}

\* Quotes are kept in a text: '' is the empty string.
matches(pattern, text) ==
  CASE pattern = "HAS_CONTENT"  -> text \notin {"''", "' '"}
    [] pattern = "CARVE_OUT_ID" -> text \in {"CO-1", "CO-2"}

satisfies(keyword, bound, x) ==
  CASE keyword = "ge" -> x[1] >= bound * 10 ^ x[2]
    [] keyword = "gt" -> x[1] > bound * 10 ^ x[2]
    [] keyword = "le" -> x[1] <= bound * 10 ^ x[2]
    [] keyword = "enum"      -> x \in bound
    [] keyword = "minLength" -> bound = 0 \/ x # "''"
    [] keyword = "pattern"   -> matches(bound, x)

\* The Python values a field takes from v, the value of a scalar.
taken(field, v) ==
  {x \in coerced(field.type, v) :
     \A keyword \in DOMAIN field.keywords : satisfies(keyword, field.keywords[keyword], x)}

-----------------------------------------------------------------------------
(* A model, at a path of the mapping.                                      *)

KeysAt(mapping, p) ==
  {path[Len(path)] : path \in {q \in DOMAIN mapping :
                                 Len(q) = Len(p) + 1 /\ SubSeq(q, 1, Len(p)) = p}}

\* StrictModel: extra="forbid".  The blocks of the fields that are models
\* themselves are left to Nested.
fields_valid(model, mapping, p, Nested(_, _, _)) ==
  /\ KeysAt(mapping, p) \subseteq DOMAIN FIELDS[model]
  /\ \A key \in DOMAIN FIELDS[model] :
       LET field == FIELDS[model][key]
           at == Append(p, key)
       IN  IF at \notin DOMAIN mapping THEN ~field.required
           ELSE \/ field.nullable /\ mapping[at] = Null
                \/ field.model # None /\ mapping[at] = Block /\ Nested(field.model, mapping, at)
                \/ field.model = None /\ taken(field, mapping[at]) # {}

\* Models nest two deep, an approval policy in a config block in a charter, so
\* that many rounds validate them all.
none_deeper(model, mapping, p)     == FALSE
validates_policy(model, mapping, p) == fields_valid(model, mapping, p, none_deeper)
validates_block(model, mapping, p) == fields_valid(model, mapping, p, validates_policy)
validates(model, mapping)          == fields_valid(model, mapping, <<>>, validates_block)

-----------------------------------------------------------------------------
(* What the engine reads from a mapping it has accepted: None for a key    *)
(* that is omitted or null.                                                *)

given(mapping, at) == at \in DOMAIN mapping /\ mapping[at] # Null

value_read(field, v) ==
  LET x == CHOOSE y \in taken(field, v) : TRUE
  IN  IF field.type = "integer" THEN x[1] \div 10 ^ x[2] ELSE x

policy_of(mapping, p) ==
  [key \in DOMAIN FIELDS.ApprovalPolicyConfig |->
     IF given(mapping, Append(p, key))
     THEN value_read(FIELDS.ApprovalPolicyConfig[key], mapping[Append(p, key)])
     ELSE None]

block_of(mapping, p) ==
  [key \in DOMAIN FIELDS.ConfigBlock |->
     CASE ~given(mapping, Append(p, key)) -> None
       [] given(mapping, Append(p, key)) /\ key = "approval_policy" -> policy_of(mapping, Append(p, key))
       [] OTHER -> value_read(FIELDS.ConfigBlock[key], mapping[Append(p, key)])]

config_of(mapping) ==
  IF given(mapping, <<"config">>) THEN block_of(mapping, <<"config">>) ELSE None
=============================================================================
