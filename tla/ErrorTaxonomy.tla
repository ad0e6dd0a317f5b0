---------------------------- MODULE ErrorTaxonomy ----------------------------
(***************************************************************************)
(* The error taxonomy, written twice: platform/libs/python/errors.py and   *)
(* code-snippets/classify_error.js.  The keys that mean the same are       *)
(* represented by two for the status (status, statusCode), one for the     *)
(* code and both for the message.                                          *)
(*                                                                         *)
(* A value is [kind, n]: "int", "float" and "digits" (a string of decimal  *)
(* digits) hold the number n, "exponent" is a string such as "5e2", and    *)
(* "absent", "bool", "fraction" and "text" are never a status.  A text is  *)
(* [empty, markers, status]: the marker lists it hits and the status it    *)
(* quotes ("status code 503"), 0 for none; NoText is the empty one.        *)
(***************************************************************************)
EXTENDS Integers, Sequences, FiniteSetsExt

CONSTANT FloatMaxExp      \* the largest power of two a float holds, 1023

MAX_ATTEMPTS == 6
BASE_DELAY_S == 2
CAP_DELAY_S == 300

NoStatus == 0
OverflowError == -1
NoText == [empty |-> TRUE, markers |-> {}, status |-> NoStatus]
AbsentValue == [kind |-> "absent", n |-> 0]
NoBlock == [status |-> AbsentValue, statusCode |-> AbsentValue, code |-> "none",
            message |-> NoText, description |-> NoText, idempotent_create |-> FALSE]

\* The class of each status that has one.
ClassOfStatus == [s \in {500, 502, 503, 504, 429, 400, 422, 401, 403, 404, 410, 501, 409} |->
    CASE s \in {500, 502, 503, 504} -> "transient"
      [] s = 429                    -> "rate_limited"
      [] s \in {400, 422}           -> "invalid_data"
      [] s \in {401, 403}           -> "auth"
      [] s \in {404, 410, 501, 409} -> "permanent"]

InRange(n) == n \in 100..599

\* The first element that says something, or nothing.
firstOf(s, nothing) == LET hits == {i \in DOMAIN s : s[i] # nothing}
                       IN  IF hits = {} THEN nothing ELSE s[Min(hits)]

\* What the codes and texts give when no status decided.
textClass(p) == IF p.transient THEN "transient"
                ELSE IF "rate_limit" \in p.markers THEN "rate_limited"
                ELSE IF "invalid" \in p.markers THEN "invalid_data" ELSE "unknown"

\* Mutant of classify: what the texts say comes first.
classifyTextFirst(p) == IF p.status = 409 /\ p.idempotent_create THEN "success"
                        ELSE IF textClass(p) = "unknown" /\ p.status \in DOMAIN ClassOfStatus
                             THEN ClassOfStatus[p.status] ELSE textClass(p)

\* The ladder of classify_error, the same in both languages.
classify(p) == IF p.status = 409 /\ p.idempotent_create THEN "success"
               ELSE IF p.status \in DOMAIN ClassOfStatus THEN ClassOfStatus[p.status]
               ELSE textClass(p)

-----------------------------------------------------------------------------
(* errors.py *)

_to_status(v) == IF v.kind \in {"int", "float", "digits"} /\ InRange(v.n) THEN v.n ELSE NoStatus

\* str(src.message or nested.message or src.error): the error is a text, or a dict
\* whose str() spells out every value in it.
_messageStatus(in) ==
    LET nested == in.nested
    IN  CASE in.src.message # NoText -> in.src.message.status
          [] in.src.message = NoText /\ nested.message # NoText -> nested.message.status
          [] OTHER -> IF in.error = "text" THEN in.text.status ELSE nested.description.status

_first_status(in) ==
    LET found == firstOf(<<_to_status(in.src.status), _to_status(in.nested.status),
                         _to_status(in.src.statusCode), _to_status(in.nested.statusCode)>>, NoStatus)
    IN  IF found # NoStatus THEN found
        ELSE IF InRange(_messageStatus(in)) THEN _messageStatus(in) ELSE NoStatus

_first_text(src, nested) ==
    firstOf(<<src.message, nested.message, src.description, nested.description>>, NoText)

firstCode(src, nested) == firstOf(<<src.code, nested.code>>, "none")

_is_transient(code, markers) == code = "etimedout" \/ "transient" \in markers

_parse(in) ==
    LET code == firstCode(in.src, in.nested)
        markers == _first_text(in.src, in.nested).markers \union in.text.markers
    IN  [status |-> _first_status(in), markers |-> markers, transient |-> _is_transient(code, markers),
         idempotent_create |-> in.src.idempotent_create \/ in.nested.idempotent_create]

classify_error(in) == classify(_parse(in))

\* An attempt is a value too; a fraction stands for n and a half.  The delay is
\* what the jitter scales.  2**exp is an int: past the range of a float, base
\* times it raises OverflowError.
Capped(exp) == IF BASE_DELAY_S * 2^exp <= CAP_DELAY_S THEN BASE_DELAY_S * 2^exp ELSE CAP_DELAY_S

compute_next_delay(attempt) ==
    LET exp == IF attempt.kind = "absent" \/ attempt.n < 0 THEN 0 ELSE attempt.n
    IN  IF exp > FloatMaxExp THEN OverflowError ELSE Capped(exp)

-----------------------------------------------------------------------------
(* classify_error.js *)

toStatus(v) == IF v.kind \in {"int", "float", "digits", "exponent"} /\ InRange(v.n) THEN v.n ELSE NoStatus

\* String(...) of an object is "[object Object]".
messageStatus(in) ==
    LET nested == in.nested
    IN  CASE in.src.message # NoText -> in.src.message.status
          [] in.src.message = NoText /\ nested.message # NoText -> nested.message.status
          [] OTHER -> in.text.status

\* Mutant of firstStatus: all the keys of the input come before the nested ones.
firstStatusByBlock(in) ==
    LET found == firstOf(<<toStatus(in.src.status), toStatus(in.src.statusCode),
                         toStatus(in.nested.status), toStatus(in.nested.statusCode)>>, NoStatus)
    IN  IF found # NoStatus THEN found ELSE messageStatus(in)

firstStatus(in) ==
    LET found == firstOf(<<toStatus(in.src.status), toStatus(in.nested.status),
                         toStatus(in.src.statusCode), toStatus(in.nested.statusCode)>>, NoStatus)
    IN  IF found # NoStatus THEN found
        ELSE IF InRange(messageStatus(in)) THEN messageStatus(in) ELSE NoStatus

\* TRANSIENT_CODES is an object: what it inherits, such as "constructor", is found.
isTransient(code, markers) == code \in {"etimedout", "constructor"} \/ "transient" \in markers

parseInput(in) ==
    LET code == firstCode(in.src, in.nested)
        markers == _first_text(in.src, in.nested).markers \union in.text.markers
    IN  [status |-> firstStatus(in), markers |-> markers, transient |-> isTransient(code, markers),
         idempotent_create |-> in.src.idempotent_create \/ in.nested.idempotent_create]

classify_error_js(in) == classify(parseInput(in))

toAttempt(attempt) == IF attempt.kind = "absent" \/ attempt.n < 0 THEN 0 ELSE attempt.n

\* Math.pow gives Infinity past the range of a double, of which the cap is left.
compute_next_delay_js(attempt) ==
    IF toAttempt(attempt) > FloatMaxExp THEN CAP_DELAY_S ELSE Capped(toAttempt(attempt))
=============================================================================
