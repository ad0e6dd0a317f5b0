--------------------------- MODULE MCErrorTaxonomy ---------------------------
(***************************************************************************)
(* One error after another is classified, and one delay after another      *)
(* computed, by both implementations.                                      *)
(***************************************************************************)
EXTENDS RuleCalls, ErrorTaxonomy

CONSTANTS Inputs,     \* the errors to classify
          Attempts,   \* the attempts to compute a delay for
          Kinds,      \* the kinds of status values
          Codes,      \* error codes, normalised
          Quoted,     \* statuses that the description of a nested error quotes
          MaxAttempt  \* attempt numbers are -1 to this, or missing

TextTypes == [empty : BOOLEAN, markers : SUBSET {"transient", "rate_limit", "invalid"}, status : Int]
ValueTypes == [kind : Kinds \union {"absent"}, n : Int]
BlockTypes == [status : ValueTypes, statusCode : ValueTypes, code : Codes \union {"none"}, message : TextTypes,
               description : TextTypes, idempotent_create : BOOLEAN]

\* The error field's text is empty unless it is a text.
ASSUME InputsAssumption ==
    /\ FloatMaxExp \in Nat
    /\ \A i \in Inputs : /\ i \in [src : BlockTypes, error : {"none", "text", "object"}, text : TextTypes, nested : BlockTypes]
                         /\ i.error # "text" => i.text = NoText
    /\ Attempts \subseteq ValueTypes

VARIABLES in, attempt, py, js

errorVars == <<in, attempt, py, js>>

Value(k, n) == [kind |-> k, n |-> n]
Values == {AbsentValue} \union {Value(k, n) : k \in Kinds, n \in {409, 503, 200, 99, 600}}
SomeAttempts == {AbsentValue} \union {Value("int", a) : a \in -1..MaxAttempt}
Text(m, s) == [empty |-> FALSE, markers |-> m, status |-> s]
Texts == {NoText, Text({}, 0), Text({"transient", "rate_limit"}, 0), Text({"invalid"}, 404)}

\* The error field is missing, a text, or an object whose fields are nested.
Errors == {[error |-> "none", text |-> NoText, nested |-> NoBlock],
           [error |-> "text", text |-> Text({"rate_limit"}, 503), nested |-> NoBlock]}
          \union {[error |-> "object", text |-> NoText,
                   nested |-> [NoBlock EXCEPT !.status = v, !.description = d, !.idempotent_create = i]] :
                     v \in {AbsentValue, Value("int", 429)}, d \in {NoText} \union {Text({}, q) : q \in Quoted}, i \in BOOLEAN}
SomeInputs == {[src |-> [NoBlock EXCEPT !.status = v, !.statusCode = w, !.code = c, !.message = m, !.description = d],
                error |-> e.error, text |-> e.text, nested |-> e.nested] :
                  v \in Values, w \in {AbsentValue, Value("int", 401)}, c \in Codes, m \in Texts, e \in Errors,
                  d \in {NoText, Text({"transient"}, 0)}}
NoInput == [src |-> NoBlock, error |-> "none", text |-> NoText, nested |-> NoBlock]

ErrorInit == phase = "idle" /\ in = NoInput /\ attempt = AbsentValue /\ py = "unknown" /\ js = "unknown"

Classify(i) == /\ phase' = "classified" /\ in' = i /\ attempt' = AbsentValue
               /\ py' = classify_error(i) /\ js' = classify_error_js(i)

ComputeDelay(a) == phase' = "delayed" /\ attempt' = a /\ UNCHANGED <<in, py, js>>

ErrorDone == /\ phase \in {"classified", "delayed"}
             /\ phase' = "idle" /\ in' = NoInput /\ attempt' = AbsentValue /\ py' = "unknown" /\ js' = "unknown"

ErrorNext == \/ phase = "idle" /\ \E i \in Inputs : Classify(i)
             \/ phase = "idle" /\ \E a \in Attempts : ComputeDelay(a)
             \/ ErrorDone

ErrorSpec == ErrorInit /\ [][ErrorNext]_<<phase, errorVars>>

-----------------------------------------------------------------------------
\* Errors that both languages read alike: no status in exponent notation, no code
\* that every JavaScript object inherits, no status quoted only in the description
\* of a nested error, and no attempt past the range of a float.
ReadAlike ==
    /\ \A i \in Inputs :
          /\ \A v \in {i.src.status, i.src.statusCode, i.nested.status, i.nested.statusCode} : v.kind # "exponent"
          /\ "constructor" \notin {i.src.code, i.nested.code}
          /\ i.error # "text" => ~InRange(i.nested.description.status)
    /\ \A a \in Attempts : a.n <= FloatMaxExp

\* "Implemented twice with one shared fixture table so both give the same answer":
\* the class and the delay are the same in Python and in JavaScript.
SameAnswer == py = js /\ compute_next_delay(attempt) = compute_next_delay_js(attempt)

\* The same error without its codes and texts.
Bare(i) == [i EXCEPT !.src.code = "none", !.src.message = NoText, !.src.description = NoText, !.text = NoText,
                     !.nested.code = "none", !.nested.message = NoText, !.nested.description = NoText]

\* What a status field decides stays decided: if an error is classified by its
\* fields alone, no code, message or description in it changes the class, so a
\* permanent failure is never retried, nor a conflict on an idempotent create
\* reported, because of its wording.
StatusDecides == classify_error(Bare(in)) # "unknown" => py = classify_error(Bare(in))
=============================================================================
