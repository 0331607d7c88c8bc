---------------------------- MODULE SchemaExport ----------------------------
(***************************************************************************)
(* schema_export.py: the JSON Schema published for a model, generated from *)
(* the model's own field table, and what a validator of the published      *)
(* schema accepts.                                                         *)
(*                                                                         *)
(* A schema is a function from its keywords to their values; under         *)
(* properties and $defs these are functions from names to schemas, under   *)
(* anyOf a list of schemas.  Sorting of keys, $schema and $id,             *)
(* descriptions and the order of a list of names are left out.             *)
(***************************************************************************)
EXTENDS FieldTypes, Settings

\* mapping[key] = value
With(mapping, key, value) ==
  [k \in DOMAIN mapping \cup {key} |-> IF k = key THEN value ELSE mapping[k]]

-----------------------------------------------------------------------------
(* What pydantic emits.  A bound on a type that is wrapped in a validator  *)
(* comes out under the constraint's own name, ge, gt or le, because it is  *)
(* applied around the validator and not inside the number's schema.        *)

type_schema(field) ==
  IF field.model # None THEN With(NoBounds, "$ref", field.model)
  ELSE With(field.keywords, "type", field.type)

field_schema(key, field) ==
  IF field.nullable
  THEN [anyOf |-> <<type_schema(field), [type |-> "null"]>>, default |-> None, title |-> key]
  ELSE With(type_schema(field), "title", key)

object_schema(model) ==
  [type |-> "object", title |-> model, additionalProperties |-> FALSE,
   required |-> {key \in DOMAIN FIELDS[model] : FIELDS[model][key].required},
   properties |-> [key \in DOMAIN FIELDS[model] |-> field_schema(key, FIELDS[model][key])]]

emitted(model) ==
  LET defs == IF model = "Charter" THEN {"ConfigBlock", "ApprovalPolicyConfig"} ELSE {}
  IN  With(object_schema(model), "$defs", [name \in defs |-> object_schema(name)])

-----------------------------------------------------------------------------
(* What is published.                                                      *)

VOLATILE_KEYS == {"title"}
NAME_KEYED == {"properties", "$defs", "definitions", "patternProperties", "dependentSchemas"}

\* The keys of a mapping that _normalise keeps.
\* Mutant: names are taken for keywords.
kept_as_keywords(keys, keys_are_names) == keys \ VOLATILE_KEYS
kept(keys, keys_are_names) == IF keys_are_names THEN keys ELSE keys \ VOLATILE_KEYS

\* _normalise of a schema; Nested is what it does to the schemas inside.
normalised(schema, Nested(_)) ==
  [keyword \in kept(DOMAIN schema, FALSE) |->
     CASE keyword \in NAME_KEYED ->
            [name \in kept(DOMAIN schema[keyword], TRUE) |-> Nested(schema[keyword][name])]
       [] keyword = "anyOf" -> [k \in DOMAIN schema[keyword] |-> Nested(schema[keyword][k])]
       [] OTHER -> schema[keyword]]

\* A definition has properties, a property alternatives, and these are flat.
unchanged(schema)             == schema
normalised_type(schema)       == normalised(schema, unchanged)
normalised_property(schema)   == normalised(schema, normalised_type)
normalised_definition(schema) == normalised(schema, normalised_property)
normalise(schema)             == normalised(schema, normalised_definition)

\* _stamp_effective_defaults, on the properties of a block's schema.
stamped(block) ==
  With(block, "properties",
       [key \in DOMAIN block.properties |->
          IF key \in DOMAIN SCHEMA_DEFAULTS
          THEN With(block.properties[key], "default", SCHEMA_DEFAULTS[key])
          ELSE block.properties[key]])
stamp_effective_defaults(schema) ==
  With(schema, "$defs", [name \in DOMAIN schema["$defs"] |-> stamped(schema["$defs"][name])])

generate(model) ==
  LET published == normalise(emitted(model))
  IN  IF model = "Charter" THEN stamp_effective_defaults(published) ELSE published

-----------------------------------------------------------------------------
(* JSON Schema, draft 2020-12: a keyword the dialect does not have is an   *)
(* annotation, and restricts nothing.                                      *)

of_type(type, v) ==
  CASE type = "integer" -> v[1] = "integer" \/ (v[1] = "number" /\ whole(v[2]))
    [] type = "number"  -> v[1] \in {"integer", "number"}
    [] OTHER            -> v[1] = type

\* The keywords about a value itself.
asserts(schema, v) ==
  LET Has(keyword) == keyword \in DOMAIN schema
      Text(condition) == v[1] = "string" => condition
  IN  /\ Has("type")      => of_type(schema["type"], v)
      /\ Has("enum")      => v[1] = "string" /\ v[2] \in schema["enum"]
      /\ Has("minLength") => Text(schema["minLength"] = 0 \/ v[2] # "''")
      /\ Has("pattern")   => Text(matches(schema["pattern"], v[2]))

\* The keywords about what a block holds; Nested validates the values.
describes(schema, defs, mapping, p, Nested(_, _, _, _)) ==
  LET Has(keyword) == keyword \in DOMAIN schema
      properties == IF Has("properties") THEN schema["properties"] ELSE NoBounds
  IN  /\ Has("required") => schema["required"] \subseteq KeysAt(mapping, p)
      /\ Has("additionalProperties") => KeysAt(mapping, p) \subseteq DOMAIN properties
      /\ \A key \in KeysAt(mapping, p) \cap DOMAIN properties :
           Nested(properties[key], defs, mapping, Append(p, key))

value_at(mapping, p) == IF p = <<>> THEN Block ELSE mapping[p]

meets(schema, defs, mapping, p, Nested(_, _, _, _)) ==
  /\ asserts(schema, value_at(mapping, p))
  /\ value_at(mapping, p) = Block => describes(schema, defs, mapping, p, Nested)

\* $ref, to a definition that refers no further.
follows(schema, defs, mapping, p, Nested(_, _, _, _)) ==
  /\ meets(schema, defs, mapping, p, Nested)
  /\ "$ref" \in DOMAIN schema => meets(defs[schema["$ref"]], defs, mapping, p, Nested)

accepts(schema, defs, mapping, p, Nested(_, _, _, _)) ==
  /\ follows(schema, defs, mapping, p, Nested)
  /\ "anyOf" \in DOMAIN schema =>
       \E k \in DOMAIN schema["anyOf"] : follows(schema["anyOf"][k], defs, mapping, p, Nested)

\* A mapping against a whole schema: the fields of a charter, of its config
\* block, and of the approval policy in that.
anything(schema, defs, mapping, p)         == TRUE
accepts_in_policy(schema, defs, mapping, p) == accepts(schema, defs, mapping, p, anything)
accepts_in_block(schema, defs, mapping, p) == accepts(schema, defs, mapping, p, accepts_in_policy)
accepts_field(schema, defs, mapping, p)    == accepts(schema, defs, mapping, p, accepts_in_block)
valid_under(schema, mapping) == accepts(schema, schema["$defs"], mapping, <<>>, accepts_field)
=============================================================================
