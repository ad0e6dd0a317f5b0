--------------------------- MODULE MCWorkflowFiles ----------------------------
(***************************************************************************)
(* Two workflows of one project and one of another.  Drafts: a workflow    *)
(* that carries every kind of volatile field, one whose code has drifted   *)
(* from its snippet, one with a secret in its pinned data, one with a      *)
(* request that has no timeout.                                            *)
(***************************************************************************)
EXTENDS WorkflowFiles

Field(key, parent, text, secret) == [key |-> key, parent |-> parent, text |-> text, secret |-> secret]

Code(version, newline) == [snippet |-> "a", version |-> version, crlf |-> FALSE, newline |-> newline, secret |-> FALSE]

NoCode == [snippet |-> NoSnippet, version |-> 0, crlf |-> FALSE, newline |-> FALSE, secret |-> FALSE]

NoTime == [kind |-> "none", val |-> 0]

Node(type, options, code) ==
    [type |-> type, name |-> "own", options |-> options, timeout |-> [kind |-> "number", val |-> 5],
     url |-> "expression", query |-> "none", code |-> code]

Plain == {Field("pinData", "workflow", FALSE, FALSE), Field("staticData", "node", FALSE, FALSE),
          Field("instanceId", "meta", TRUE, FALSE), Field("instanceId", "node", TRUE, FALSE),
          Field("execution", "node", TRUE, FALSE), Field("execution", "workflow", FALSE, FALSE)}

Draft(fields, nodes) == [fields |-> fields, errorHandler |-> FALSE, errorWorkflow |-> TRUE, nodes |-> nodes]

Snippet(version) == Draft(Plain, <<Node("code", NoTime, Code(version, TRUE)), Node("other", NoTime, NoCode)>>)

Leaky == Draft({Field("pinData", "workflow", FALSE, TRUE)}, <<Node("code", NoTime, Code(1, TRUE))>>)

Timeless == Draft({}, <<Node("http", [kind |-> "number", val |-> 0], NoCode)>>)

MCDrafts == [id \in Ids |-> CASE id = 1 -> {Snippet(2), Leaky}
                              [] id = 2 -> {Snippet(1), Timeless}
                              [] OTHER -> {Snippet(1)}]

MCProject == [id \in Ids |-> IF id = 3 THEN "p02" ELSE "p01"]

MCTexts == {Code(1, TRUE), Code(1, FALSE)}
=============================================================================
