--------------------------- MODULE MCSchemaDefault ---------------------------
(***************************************************************************)
(* The mock LLM is asked for one schema after another: leaves, and objects,*)
(* arrays and unions over them, nested twice.                              *)
(***************************************************************************)
EXTENDS RuleCalls, SchemaDefault, TLC

CONSTANTS Minima,      \* minimum of integers and numbers, in halves
          Closed,      \* values of "no additional properties"
          BareArrays   \* minItems of arrays without items

VARIABLES schema, value

schemaVars == <<schema, value>>

KV(k, v) == k :> v
Leaves == {<<>>, KV("type", <<"string">>), KV("type", <<"null", "boolean">>), KV("type", <<"null">>),
           KV("enum", <<Val("string", "b"), Val("string", "a")>>) @@ KV("type", <<"string">>),
           KV("default", Val("number", 14)) @@ KV("type", <<"integer">>) @@ KV("minimum", 4)}
          \union {KV("type", <<t>>) @@ KV("minimum", m) : t \in {"integer", "number"}, m \in Minima}
Objects(S) == {KV("type", <<"object">>) @@ KV("required", r) @@ KV("closed", c) @@ KV("properties", p) :
                  r \in {{}, {"a"}, {"a", "z"}}, c \in Closed,
                  p \in [{"a"} -> S] \union [{"a", "b"} -> S] \union {<<>>}}
Arrays(S) == {KV("type", <<"array">>) @@ KV("items", s) @@ KV("minItems", n) : s \in S, n \in 0..2}
             \union {KV("type", <<"array">>) @@ KV("minItems", n) : n \in BareArrays}
Unions(S) == {KV("anyOf", <<s, u>>) : s \in S, u \in {KV("type", <<"null">>)}}
Small == {KV("type", <<"string">>), KV("type", <<"integer">>) @@ KV("minimum", 4)}
Composite == Objects(Leaves) \union Arrays(Leaves) \union Unions(Leaves)
Schemas == Leaves \union Composite \union Arrays(Objects(Small)) \union Unions(Arrays(Small)) \union Objects(Arrays(Small))

NoSchema == <<>>
SchemaInit == phase = "idle" /\ schema = NoSchema /\ value = OkTrue

AskSchema(s) == phase' = "answered" /\ schema' = s /\ value' = default_from_schema(s)
SchemaDone == phase = "answered" /\ phase' = "idle" /\ schema' = NoSchema /\ value' = OkTrue

SchemaNext == SchemaDone \/ (phase = "idle" /\ \E s \in Schemas : AskSchema(s))
SchemaSpec == SchemaInit /\ [][SchemaNext]_<<phase, schemaVars>>

-----------------------------------------------------------------------------
TypeIs(t, v) == IF t = "integer" THEN v.t = "number" /\ v.v % 2 = 0 ELSE v.t = t

\* JSON Schema's own reading of these keywords.
RECURSIVE Valid(_, _)
Valid(v, s) ==
    LET props == Get(s, "properties", <<>>)
    IN  /\ Has(s, "type") => \E i \in DOMAIN s["type"] : TypeIs(s["type"][i], v)
        /\ Has(s, "enum") => \E i \in DOMAIN s["enum"] : s["enum"][i] = v
        /\ v.t = "number" => v.v >= Get(s, "minimum", v.v)
        /\ v.t = "array" => /\ Len(v.v) >= Get(s, "minItems", 0)
                            /\ Has(s, "items") => \A i \in DOMAIN v.v : Valid(v.v[i], s["items"])
        /\ v.t = "object" => /\ Get(s, "required", {}) \subseteq DOMAIN v.v
                             /\ \A k \in DOMAIN v.v \intersect DOMAIN props : Valid(v.v[k], props[k])
                             /\ Get(s, "closed", FALSE) => DOMAIN v.v \subseteq DOMAIN props
        /\ Has(s, "anyOf") => \E i \in DOMAIN s["anyOf"] : Valid(v, s["anyOf"][i])

\* "Without a fixture it returns a schema-valid deterministic default": the value
\* that default_from_schema builds satisfies the schema it was built from, at every
\* level of nesting.
DefaultIsValid == phase = "answered" => Valid(value, schema)
=============================================================================
