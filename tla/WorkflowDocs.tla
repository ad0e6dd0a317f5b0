----------------------------- MODULE WorkflowDocs -----------------------------
(***************************************************************************)
(* What the workflow scripts compute from one document: find_secret_       *)
(* matches, _strip and sanitize_document (sanitize_workflows.py), sync_    *)
(* workflow (sync_snippets.py) and lint_workflow (lint_workflows.py).      *)
(*                                                                         *)
(* A workflow is [fields, errorHandler, errorWorkflow, nodes]: its fields  *)
(* apart from the code, is it named an Error Handler, has it a             *)
(* settings.errorWorkflow, and its nodes.  A field is [key, parent, text,  *)
(* secret]: the object it is in, is its value a string, does a string in   *)
(* it match a secret pattern.  A node is [type, name, options, timeout,    *)
(* url, query, code]; a text of code is [snippet, version, crlf, newline,  *)
(* secret]: the name after "// snippet:" on its first line, the other      *)
(* lines, their line ends, the last line end.                              *)
(*                                                                         *)
(* n8n writes one object per file, so lists of workflows are left out.     *)
(***************************************************************************)
EXTENDS Integers, Sequences

CONSTANTS Missing,       \* no snippet file of that name, or an invalid name
          NoSnippet      \* the first line names none

MAX_NODES == 40

-----------------------------------------------------------------------------
\* sanitize_workflows.py
_DROP_KEYS == {"pinData", "staticData", "executionId", "executionIds", "lastExecution", "lastExecutionStatus"}

find_secret_matches(w) == (\E f \in w.fields : f.secret) \/ (\E i \in DOMAIN w.nodes : w.nodes[i].code.secret)

\* Mutant of dropped: only the top level is looked at.
droppedTop(f) == \/ f.key \in _DROP_KEYS /\ f.parent = "workflow"
                 \/ f.key = "instanceId" /\ f.parent = "meta"
                 \/ f.key = "execution" /\ ~f.text

\* Mutant of dropped: an instanceId anywhere.
droppedInstance(f) == f.key \in _DROP_KEYS \union {"instanceId"} \/ (f.key = "execution" /\ ~f.text)

dropped(f) == \/ f.key \in _DROP_KEYS
              \/ f.key = "instanceId" /\ f.parent = "meta"
              \/ f.key = "execution" /\ ~f.text

_strip(w) == [w EXCEPT !.fields = {f \in w.fields : ~dropped(f)}]

-----------------------------------------------------------------------------
\* sync_snippets.py.  snippets is the directory: a text by name, or Missing.
Lf(text) == [text EXCEPT !.crlf = FALSE]

snippetBacked(node) == node.type = "code" /\ node.code.snippet # NoSnippet

\* SyncError: a name with ".." in it, or no file.
syncFails(w, snippets) ==
    \E i \in DOMAIN w.nodes : snippetBacked(w.nodes[i]) /\ snippets[w.nodes[i].code.snippet] = Missing

syncNode(node, snippets) ==
    LET replacement == [Lf(snippets[node.code.snippet]) EXCEPT !.newline = TRUE]
    IN  IF snippetBacked(node) /\ Lf(node.code) # replacement
        THEN [node EXCEPT !.code = replacement]
        ELSE node

sync_workflow(w, snippets) ==
    [w EXCEPT !.nodes = [i \in DOMAIN w.nodes |-> syncNode(w.nodes[i], snippets)]]

-----------------------------------------------------------------------------
\* lint_workflows.py.  A timeout is [kind, val]: "none" stands for null and "",
\* "word" for a text that is no number, an expression or any other value.
_http_timeout(node) == IF node.options.kind # "none" THEN node.options ELSE node.timeout

_timeout_is_set(node) ==
    LET timeout == _http_timeout(node)
    IN  timeout.kind = "word" \/ (timeout.kind = "number" /\ timeout.val > 0)

_is_settings_lookup_node(node) == node.name = "settings" \/ (node.type = "postgres" /\ node.query = "settings")

_snippet_issues(node, snippets) ==
    /\ node.code.snippet # NoSnippet
    /\ \/ snippets[node.code.snippet] = Missing
       \/ Lf(node.code) # Lf(snippets[node.code.snippet])

\* A literal http(s) address in any text of the parameters.
_scan_hardcoded_urls(node) == node.url = "literal"

node_issues(node, snippets) ==
    \/ node.name = "default"
    \/ node.type = "http" /\ ~_timeout_is_set(node)
    \/ node.type = "code" /\ _snippet_issues(node, snippets)
    \/ ~_is_settings_lookup_node(node) /\ _scan_hardcoded_urls(node)

\* Is there any issue?
lint_workflow(w, snippets) ==
    \/ \E f \in w.fields : f.key = "pinData" /\ f.parent \in {"workflow", "node"}
    \/ ~w.errorWorkflow /\ ~w.errorHandler
    \/ Len(w.nodes) > MAX_NODES
    \/ \E i \in DOMAIN w.nodes : node_issues(w.nodes[i], snippets)
    \/ find_secret_matches(w)
=============================================================================
