---------------------------- MODULE SchemaDefault ----------------------------
(***************************************************************************)
(* default_from_schema of the mock LLM (mock_llm/main.py): the answer when *)
(* no fixture matches, built from the JSON schema of the request.          *)
(*                                                                         *)
(* A schema is a function from the keywords it has.  Numbers are counted   *)
(* in halves, so that 1 is 0.5; a value is [t, v], its JSON type and       *)
(* content.  "type" holds the list of types; a name alone is a list of     *)
(* one.  const is an enum of one value, and anyOf stands for oneOf too.     *)
(***************************************************************************)
EXTENDS Integers, Sequences

Has(schema, keyword) == keyword \in DOMAIN schema
Get(schema, keyword, default) == IF Has(schema, keyword) THEN schema[keyword] ELSE default

Val(t, v) == [t |-> t, v |-> v]
OkTrue == Val("object", [ok |-> Val("boolean", TRUE)])

\* int(x) drops the fraction, towards zero.
truncate(halves) == IF halves >= 0 THEN 2 * (halves \div 2) ELSE -(2 * ((-halves) \div 2))

\* The first type that is not null, the first one if all are.
type_name(schema) ==
    LET types == Get(schema, "type", <<>>)
        others == SelectSeq(types, LAMBDA t : t # "null")
    IN  IF others # <<>> THEN Head(others) ELSE IF types # <<>> THEN Head(types) ELSE "none"

\* Mutant of object_keys: required is not looked at.
object_keysDeclared(schema) == DOMAIN Get(schema, "properties", <<>>)

\* The keys an object gets: the required ones, or all that have a schema.
object_keys(schema) == LET required == Get(schema, "required", {})
                       IN  IF required # {} THEN required ELSE DOMAIN Get(schema, "properties", <<>>)

RECURSIVE default_from_schema(_)

default_object(schema) ==
    LET props == Get(schema, "properties", <<>>)
        keys == object_keys(schema)
    IN  IF keys = {} THEN OkTrue
        ELSE Val("object", [k \in keys |-> default_from_schema(IF k \in DOMAIN props THEN props[k] ELSE <<>>)])

default_array(schema) ==
    LET n == IF Has(schema, "items") THEN Get(schema, "minItems", 0) ELSE 0
    IN  Val("array", [i \in 1..n |-> default_from_schema(schema["items"])])

default_from_schema(schema) ==
    LET name == type_name(schema)
    IN  IF schema = <<>> THEN OkTrue
        ELSE IF Get(schema, "enum", <<>>) # <<>> THEN Head(schema["enum"])
        ELSE IF Has(schema, "default") THEN schema["default"]
        ELSE IF name = "object" \/ Has(schema, "properties") THEN default_object(schema)
        ELSE CASE name = "array"   -> default_array(schema)
               [] name = "string"  -> Val("string", "default")
               [] name = "integer" -> Val("number", truncate(Get(schema, "minimum", 0)))
               [] name = "number"  -> Val("number", Get(schema, "minimum", 0))
               [] name = "boolean" -> Val("boolean", FALSE)
               [] name = "null"    -> Val("null", 0)
               [] OTHER -> IF Get(schema, "anyOf", <<>>) # <<>>
                           THEN default_from_schema(Head(schema["anyOf"])) ELSE OkTrue
=============================================================================
