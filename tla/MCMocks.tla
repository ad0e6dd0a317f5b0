------------------------------- MODULE MCMocks --------------------------------
(***************************************************************************)
(* Both test doubles, flaky-api and the mock LLM.  They share nothing, so  *)
(* it is enough that each is explored while the other one rests.           *)
(***************************************************************************)
EXTENDS MCFlakyApi, MockLlm

CONSTANTS q1, q2, q3

MocksInit == Init /\ LlmInit

MocksNext == \/ Next /\ LlmInit /\ UNCHANGED llmVars
             \/ LlmNext /\ Init /\ UNCHANGED vars

MocksSpec == MocksInit /\ [][MocksNext]_<<vars, llmVars>>
=============================================================================
