------------------------------- MODULE MockLlm -------------------------------
(***************************************************************************)
(* The mode switch of the mock LLM (platform/services/mock-llm main.py).   *)
(* chat_completions runs on the event loop and reads state.mode anew at    *)
(* every check; set_mode is a plain function, so FastAPI runs it in a      *)
(* thread that can get in between any two of them.  In timeout mode the    *)
(* request sleeps and other requests run meanwhile.                        *)
(***************************************************************************)
EXTENDS Naturals, FiniteSets

CONSTANTS Calls,          \* concurrent calls of chat_completions
          MaxSwitches     \* bound on the number of mode changes

AdminModes == {"normal", "invalid_json", "timeout", "429", "500"}

VARIABLES llmMode,     \* state.mode
          llmPc,       \* per request: the check it is about to make
          slept,       \* per request: it has waited timeout_seconds
          answer,      \* per request: what it was answered
          seen,        \* per request: the modes in force since it began
          switches

llmVars == <<llmMode, llmPc, slept, answer, seen, switches>>

Checks == {"check500", "check429", "checkTimeout", "checkInvalid"}

LlmTypeOK == /\ llmMode \in AdminModes
             /\ llmPc \in [Calls -> {"idle", "sleeping", "done"} \union Checks]
             /\ slept \in [Calls -> BOOLEAN]
             /\ answer \in [Calls -> {"none", "500", "429", "invalid_json", "completion"}]
             /\ seen \in [Calls -> SUBSET AdminModes]
             /\ switches \in Nat

LlmInit == /\ llmMode = "normal"
           /\ llmPc = [r \in Calls |-> "idle"]
           /\ slept = [r \in Calls |-> FALSE]
           /\ answer = [r \in Calls |-> "none"]
           /\ seen = [r \in Calls |-> {}]
           /\ switches = 0

-----------------------------------------------------------------------------
\* The event loop runs one request until it awaits: only a sleeping request
\* lets another one in.
Running == {r \in Calls : llmPc[r] \in Checks}

set_mode(m) == /\ switches < MaxSwitches
               /\ switches' = switches + 1
               /\ llmMode' = m
               /\ seen' = [r \in Calls |-> IF llmPc[r] \in {"idle", "done"} THEN seen[r] ELSE seen[r] \union {m}]
               /\ UNCHANGED <<llmPc, slept, answer>>

Begin(r) == /\ llmPc[r] = "idle" /\ Running = {}
            /\ llmPc' = [llmPc EXCEPT ![r] = "check500"]
            /\ seen' = [seen EXCEPT ![r] = {llmMode}]
            /\ UNCHANGED <<llmMode, slept, answer, switches>>

reply(r, a) == /\ llmPc' = [llmPc EXCEPT ![r] = "done"]
               /\ answer' = [answer EXCEPT ![r] = a]
               /\ UNCHANGED <<llmMode, slept, seen, switches>>

goto(r, l) == llmPc' = [llmPc EXCEPT ![r] = l] /\ UNCHANGED <<llmMode, slept, answer, seen, switches>>

Check500(r) == /\ llmPc[r] = "check500"
               /\ IF llmMode = "500" THEN reply(r, "500") ELSE goto(r, "check429")

Check429(r) == /\ llmPc[r] = "check429"
               /\ IF llmMode = "429" THEN reply(r, "429") ELSE goto(r, "checkTimeout")

CheckTimeout(r) == /\ llmPc[r] = "checkTimeout"
                   /\ goto(r, IF llmMode = "timeout" THEN "sleeping" ELSE "checkInvalid")

\* asyncio.sleep returns once the loop is free.
Wake(r) == /\ llmPc[r] = "sleeping" /\ Running = {}
           /\ llmPc' = [llmPc EXCEPT ![r] = "checkInvalid"]
           /\ slept' = [slept EXCEPT ![r] = TRUE]
           /\ UNCHANGED <<llmMode, answer, seen, switches>>

\* Mutant of CheckInvalid: the check is left out.
CheckInvalidNever(r) == llmPc[r] = "checkInvalid" /\ reply(r, "completion")

\* The last check; past it comes what Fixtures calls the completion.
CheckInvalid(r) == /\ llmPc[r] = "checkInvalid"
                   /\ reply(r, IF llmMode = "invalid_json" THEN "invalid_json" ELSE "completion")

\* The next call.
NextCall(r) == /\ llmPc[r] = "done"
                /\ llmPc' = [llmPc EXCEPT ![r] = "idle"]
                /\ slept' = [slept EXCEPT ![r] = FALSE]
                /\ answer' = [answer EXCEPT ![r] = "none"]
                /\ seen' = [seen EXCEPT ![r] = {}]
                /\ UNCHANGED <<llmMode, switches>>

LlmNext == \/ \E m \in AdminModes : set_mode(m)
           \/ \E r \in Calls : \/ Begin(r) \/ Check500(r) \/ Check429(r) \/ CheckTimeout(r)
                               \/ Wake(r) \/ CheckInvalid(r) \/ NextCall(r)

LlmSpec == LlmInit /\ [][LlmNext]_llmVars

-----------------------------------------------------------------------------
\* What a request answers and whether it sleeps when the mode is m throughout.
Forced(m) == IF m \in {"500", "429", "invalid_json"} THEN m ELSE "completion"

\* A mode that is in force for the whole of a request decides its answer and
\* whether it waits, and no request answers with a fault, or waits, that was not
\* asked for while it ran, however requests, sleeps and switches interleave.
AnswersFollowModes ==
    \A r \in Calls : llmPc[r] = "done" =>
        /\ \A m \in AdminModes : seen[r] = {m} => answer[r] = Forced(m) /\ slept[r] = (m = "timeout")
        /\ answer[r] # "completion" => answer[r] \in seen[r]
        /\ slept[r] => "timeout" \in seen[r]
=============================================================================
