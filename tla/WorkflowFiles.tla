----------------------------- MODULE WorkflowFiles ----------------------------
(***************************************************************************)
(* The life of the workflow files: export_workflows.sh copies what n8n     *)
(* holds into a project's directory, sanitises and lints it; sync_         *)
(* snippets.py rewrites the code of every file; import_workflows.sh takes  *)
(* a directory back into n8n and publishes it.  A developer runs one       *)
(* command at a time.  Any of them can be interrupted, also in the middle  *)
(* of a write, and a write can fail; the files it has not reached keep     *)
(* what they held, and the next command finds them like that.              *)
(*                                                                         *)
(* A file is named by the id of its workflow and belongs to the project    *)
(* Project[id], whose prefix its name starts with.  Its content is [w,     *)
(* tidy]: a workflow of WorkflowDocs, and is the text the one dumps_stable *)
(* would write; or NoFile, or Broken (not JSON).  n8n itself is external:  *)
(* canvas is what it holds, published what it runs.                        *)
(***************************************************************************)
EXTENDS WorkflowDocs, FiniteSets, TLC

CONSTANTS Ids, Projects, Project,    \* Project[id]: the directory of a workflow
          Drafts,                    \* Drafts[id]: the workflows the editor can hold
          Names, Texts,              \* snippet names, and the texts a file can have
          NoFile, Broken, MaxEdits, MaxJobs, MaxFaults

CodeTexts == [snippet : Names \union {NoSnippet}, version : Nat, crlf : BOOLEAN, newline : BOOLEAN, secret : BOOLEAN]
Timeouts == [kind : {"none", "word", "number"}, val : Int]
Nodes == [type : STRING, name : STRING, options : Timeouts, timeout : Timeouts,
          url : STRING, query : STRING, code : CodeTexts]
Workflows == [fields : SUBSET [key : STRING, parent : STRING, text : BOOLEAN, secret : BOOLEAN],
              errorHandler : BOOLEAN, errorWorkflow : BOOLEAN, nodes : Seq(Nodes)]
Contents == [w : Workflows, tidy : BOOLEAN]

ASSUME TypesAssumption ==
    /\ Project \in [Ids -> Projects] /\ \A id \in Ids : Drafts[id] \subseteq Workflows
    /\ Texts \subseteq CodeTexts /\ Missing \notin CodeTexts /\ NoSnippet \notin Names
    /\ NoFile \notin Workflows \union Contents \union {Broken} /\ Broken \notin Contents
    /\ MaxEdits \in Nat /\ MaxJobs \in Nat /\ MaxFaults \in Nat

VARIABLES canvas, published, container, file, snippets, tmp, job, pc, todo, failed, edits, jobs, faults

vars == <<canvas, published, container, file, snippets, tmp, job, pc, todo, failed, edits, jobs, faults>>

n8n == <<canvas, published, container>>

JobKinds == {"export", "sanitize", "sync", "import"}
NoJob == [kind |-> "none", project |-> "none"]

Dir(p) == {id \in Ids : Project[id] = p /\ file[id] # NoFile}
AllFiles == {id \in Ids : file[id] # NoFile}

\* The loops go through the files in the order of their names.
current(id) == id \in todo /\ \A other \in todo : id <= other

\* The repository has some sanitised files; n8n is new.
Committed(id) ==
    {NoFile} \union {[w |-> _strip(w), tidy |-> TRUE] : w \in {w \in Drafts[id] : ~find_secret_matches(w)}}

Init == /\ file \in {f \in [Ids -> UNION {Committed(id) : id \in Ids}] : \A id \in Ids : f[id] \in Committed(id)}
        /\ canvas = [id \in Ids |-> NoFile]
        /\ published = canvas /\ container = canvas /\ tmp = canvas
        /\ snippets \in [Names -> Texts \union {Missing}]
        /\ job = NoJob /\ pc = "idle" /\ todo = {} /\ failed = FALSE
        /\ edits = 0 /\ jobs = 0 /\ faults = 0

-----------------------------------------------------------------------------
\* Between commands: someone edits a workflow in n8n, or a snippet.
EditCanvas(id, w) == /\ pc = "idle" /\ edits < MaxEdits
                     /\ canvas' = [canvas EXCEPT ![id] = w]
                     /\ edits' = edits + 1
                     /\ UNCHANGED <<published, container, file, snippets, tmp, job, pc, todo, failed, jobs, faults>>

EditSnippet(n, t) == /\ pc = "idle" /\ edits < MaxEdits
                     /\ snippets' = [snippets EXCEPT ![n] = t]
                     /\ edits' = edits + 1
                     /\ UNCHANGED <<n8n, file, tmp, job, pc, todo, failed, jobs, faults>>

Begin(kind, p) == /\ pc = "idle" /\ jobs < MaxJobs
                  /\ job' = [kind |-> kind, project |-> p]
                  /\ jobs' = jobs + 1
                  /\ UNCHANGED <<snippets, edits, faults>>

\* A command ends: failed is its exit status, tmp (HOST_TMP) goes in Done.
Exit(bad) == pc' = "exited" /\ failed' = bad /\ todo' = {}

Done == /\ pc = "exited"
        /\ pc' = "idle" /\ job' = NoJob /\ failed' = FALSE
        /\ tmp' = [id \in Ids |-> NoFile]
        /\ UNCHANGED <<n8n, file, snippets, todo, edits, jobs, faults>>

-----------------------------------------------------------------------------
\* sanitize_workflows.py: process_file, and main's loop, which goes on after a
\* file that is refused.
sanitized(c) == [w |-> _strip(c.w), tidy |-> TRUE]

SanitizeFile(id) ==
    /\ pc = "sanitizing" /\ current(id)
    /\ todo' = todo \ {id}
    /\ LET refused == file[id] = Broken \/ find_secret_matches(file[id].w)
       IN  /\ failed' = (failed \/ refused)
           /\ file' = IF refused THEN file ELSE [file EXCEPT ![id] = sanitized(@)]
    /\ UNCHANGED <<n8n, snippets, tmp, job, pc, edits, jobs, faults>>

StartSanitize(p) == /\ Begin("sanitize", p)
                    /\ pc' = "sanitizing" /\ todo' = Dir(p)
                    /\ UNCHANGED <<n8n, file, tmp, failed>>

\* No file: main sanitises its standard input instead, whatever that is.
SanitizeStdin == /\ pc = "sanitizing" /\ Dir(job.project) = {}
                 /\ \/ Exit(TRUE)
                    \/ IF job.kind = "export" THEN pc' = "linting" /\ UNCHANGED <<failed, todo>> ELSE Exit(FALSE)
                 /\ UNCHANGED <<n8n, file, snippets, tmp, job, edits, jobs, faults>>

SanitizeEnds == /\ pc = "sanitizing" /\ todo = {} /\ Dir(job.project) # {}
                /\ IF job.kind = "export" /\ ~failed
                   THEN pc' = "linting" /\ UNCHANGED <<failed, todo>>
                   ELSE Exit(failed)
                /\ UNCHANGED <<n8n, file, snippets, tmp, job, edits, jobs, faults>>

-----------------------------------------------------------------------------
\* export_workflows.sh.  n8n writes all it holds, --separate --pretty.
StartExport(p) == /\ Begin("export", p)
                  /\ pc' = "copying"
                  /\ tmp' = canvas
                  /\ todo' = {id \in Ids : canvas[id] # NoFile /\ Project[id] = p}
                  /\ UNCHANGED <<n8n, file, failed>>

CopyFile(id) == /\ pc = "copying" /\ current(id)
                /\ todo' = todo \ {id}
                /\ file' = [file EXCEPT ![id] = [w |-> tmp[id], tidy |-> FALSE]]
                /\ UNCHANGED <<n8n, snippets, tmp, job, pc, failed, edits, jobs, faults>>

\* Mutant of CopyEnds: it names files that are not there.
CopyEndsGlob == /\ pc = "copying" /\ todo = {}
                /\ pc' = "sanitizing" /\ todo' = {id \in Ids : Project[id] = job.project}
                /\ UNCHANGED <<n8n, file, snippets, tmp, job, failed, edits, jobs, faults>>

CopyEnds == /\ pc = "copying" /\ todo = {}
            /\ pc' = "sanitizing" /\ todo' = Dir(job.project)
            /\ UNCHANGED <<n8n, file, snippets, tmp, job, failed, edits, jobs, faults>>

\* lint_workflows.py --dir: an empty directory means every workflow file there
\* is, and none at all is an error.
lintTargets(p) == IF Dir(p) # {} THEN Dir(p) ELSE AllFiles

lintFails(ids) == \/ ids = {}
                  \/ \E id \in ids : file[id] = Broken \/ lint_workflow(file[id].w, snippets)

Lint == /\ pc = "linting"
        /\ Exit(lintFails(lintTargets(job.project)))
        /\ UNCHANGED <<n8n, file, snippets, tmp, job, edits, jobs, faults>>

-----------------------------------------------------------------------------
\* sync_snippets.py over the default files; each one is written again.
StartSync == /\ Begin("sync", "all")
             /\ IF AllFiles = {} THEN Exit(TRUE) ELSE pc' = "syncing" /\ todo' = AllFiles /\ failed' = FALSE
             /\ UNCHANGED <<n8n, file, tmp>>

synced(c) == [w |-> sync_workflow(c.w, snippets), tidy |-> TRUE]

\* Mutant of SyncFile: an error is only printed.
SyncFileLenient(id) ==
    /\ pc = "syncing" /\ current(id)
    /\ todo' = todo \ {id}
    /\ file' = IF file[id] = Broken \/ syncFails(file[id].w, snippets) THEN file ELSE [file EXCEPT ![id] = synced(@)]
    /\ UNCHANGED <<n8n, snippets, tmp, job, pc, failed, edits, jobs, faults>>

SyncFile(id) ==
    /\ pc = "syncing" /\ current(id)
    /\ todo' = todo \ {id}
    /\ LET refused == file[id] = Broken \/ syncFails(file[id].w, snippets)
       IN  /\ failed' = (failed \/ refused)
           /\ file' = IF refused THEN file ELSE [file EXCEPT ![id] = synced(@)]
    /\ UNCHANGED <<n8n, snippets, tmp, job, pc, edits, jobs, faults>>

SyncEnds == /\ pc = "syncing" /\ todo = {}
            /\ Exit(failed)
            /\ UNCHANGED <<n8n, file, snippets, tmp, job, edits, jobs, faults>>

-----------------------------------------------------------------------------
\* import_workflows.sh
StartImport(p) == /\ Begin("import", p)
                  /\ pc' = "sending" /\ todo' = Dir(p)
                  /\ UNCHANGED <<n8n, file, tmp, failed>>

\* Mutant of CopyIn: what is there stays.
CopyInNew == /\ pc = "sending"
             /\ container' = [id \in Ids |-> IF id \in todo /\ container[id] = NoFile THEN file[id] ELSE container[id]]
             /\ pc' = "importing"
             /\ UNCHANGED <<canvas, published, file, snippets, tmp, job, todo, failed, edits, jobs, faults>>

\* compose cp adds to the directory in the container, which nobody clears.
CopyIn == /\ pc = "sending"
          /\ container' = [id \in Ids |-> IF id \in todo THEN file[id] ELSE container[id]]
          /\ pc' = "importing"
          /\ UNCHANGED <<canvas, published, file, snippets, tmp, job, todo, failed, edits, jobs, faults>>

\* n8n import:workflow takes every file of that directory; at one that is no
\* JSON it stops, with some of the others imported.
ImportWorkflows ==
    /\ pc = "importing"
    /\ \E taken \in SUBSET {id \in Ids : container[id] \notin {NoFile, Broken}} :
          /\ canvas' = [id \in Ids |-> IF id \in taken THEN container[id].w ELSE canvas[id]]
          /\ IF \E id \in Ids : container[id] = Broken
             THEN Exit(TRUE)
             ELSE /\ taken = {id \in Ids : container[id] # NoFile}
                  /\ pc' = "publishing" /\ UNCHANGED <<todo, failed>>
    /\ UNCHANGED <<published, container, file, snippets, tmp, job, edits, jobs, faults>>

Publish(id) == /\ pc = "publishing" /\ current(id)
               /\ published' = [published EXCEPT ![id] = canvas[id]]
               /\ todo' = todo \ {id}
               /\ UNCHANGED <<canvas, container, file, snippets, tmp, job, pc, failed, edits, jobs, faults>>

PublishEnds == /\ pc = "publishing" /\ todo = {}
               /\ Exit(FALSE)
               /\ UNCHANGED <<n8n, file, snippets, tmp, job, edits, jobs, faults>>

-----------------------------------------------------------------------------
\* Would the loop write this file?  The sanitiser leaves one alone that it does
\* not change, and nothing is written when a file is refused.
writes(id) == \/ pc = "copying"
              \/ /\ pc = "sanitizing" /\ file[id] # Broken
                 /\ ~find_secret_matches(file[id].w) /\ file[id] # sanitized(file[id])
              \/ pc = "syncing" /\ file[id] # Broken /\ ~syncFails(file[id].w, snippets)

\* A file cannot be read or written (OSError), and the loop goes on.
FileError(id) == /\ pc \in {"sanitizing", "syncing"} /\ current(id) /\ faults < MaxFaults
                 /\ faults' = faults + 1
                 /\ todo' = todo \ {id} /\ failed' = TRUE
                 /\ \/ UNCHANGED file
                    \/ writes(id) /\ file' = [file EXCEPT ![id] = Broken]
                 /\ UNCHANGED <<n8n, snippets, tmp, job, pc, edits, jobs>>

\* The command is interrupted, or under set -e one of its steps fails; a write
\* may be half done.
Stop == /\ pc \notin {"idle", "exited"} /\ faults < MaxFaults
        /\ faults' = faults + 1
        /\ Exit(TRUE)
        /\ \/ UNCHANGED file
           \/ \E id \in todo : current(id) /\ writes(id) /\ file' = [file EXCEPT ![id] = Broken]
        /\ UNCHANGED <<n8n, snippets, tmp, job, edits, jobs>>

Next == \/ \E id \in Ids : \E w \in Drafts[id] : EditCanvas(id, w)
        \/ \E n \in Names, t \in Texts : EditSnippet(n, t)
        \/ \E p \in Projects : StartExport(p) \/ StartSanitize(p) \/ StartImport(p)
        \/ \E id \in Ids : CopyFile(id) \/ SanitizeFile(id) \/ SyncFile(id) \/ Publish(id) \/ FileError(id)
        \/ CopyEnds \/ SanitizeStdin \/ SanitizeEnds \/ Lint
        \/ StartSync \/ SyncEnds
        \/ CopyIn \/ ImportWorkflows \/ PublishEnds
        \/ Stop \/ Done

Spec == Init /\ [][Next]_vars

-----------------------------------------------------------------------------
\* Every variable keeps its type: the steps of the scripts, their exit status,
\* and files that are absent, broken or a workflow.
TypeOK ==
    /\ canvas \in [Ids -> Workflows \union {NoFile}] /\ published \in [Ids -> Workflows \union {NoFile}]
    /\ tmp \in [Ids -> Workflows \union {NoFile}]
    /\ file \in [Ids -> Contents \union {NoFile, Broken}] /\ container \in [Ids -> Contents \union {NoFile, Broken}]
    /\ snippets \in [Names -> Texts \union {Missing}]
    /\ job \in [kind : JobKinds, project : Projects \union {"all"}] \union {NoJob}
    /\ pc \in {"idle", "copying", "sanitizing", "linting", "syncing", "sending", "importing", "publishing", "exited"}
    /\ todo \subseteq AllFiles \union {id \in Ids : tmp[id] # NoFile}
    /\ failed \in BOOLEAN
    /\ edits \in 0..MaxEdits /\ jobs \in 0..MaxJobs /\ faults \in 0..MaxFaults

Ended(kind) == pc = "exited" /\ job.kind = kind /\ ~failed

Volatile(f) == f.key \in {"pinData", "staticData"} \/ (f.key = "instanceId" /\ f.parent = "meta")

\* After an export that exits 0, every file of the directory, also one that
\* earlier commands left there, is stable JSON without pinned, static or
\* instance data, without secrets and without lint issues, and every workflow
\* of the project in n8n is there with its nodes.
ExportedIsClean ==
    Ended("export") =>
        /\ \A id \in Dir(job.project) :
              /\ file[id] # Broken /\ file[id].tidy
              /\ ~\E f \in file[id].w.fields : Volatile(f) \/ f.secret
              /\ ~lint_workflow(file[id].w, snippets)
        /\ \A id \in Ids :
              Project[id] = job.project /\ tmp[id] # NoFile => file[id] # NoFile /\ file[id].w.nodes = tmp[id].nodes

\* Every snippet file starts with its own name and ends with a line end.
SnippetsWellFormed ==
    \A n \in Names : snippets[n] # Missing => snippets[n].snippet = n /\ snippets[n].newline

\* After sync_snippets.py exits 0, lint_workflows.py has nothing to say about
\* the code of any file, provided that the snippet files are well formed.
SyncedPassesLint ==
    Ended("sync") /\ SnippetsWellFormed =>
        \A id \in AllFiles : /\ file[id] # Broken
                             /\ \A i \in DOMAIN file[id].w.nodes :
                                   LET node == file[id].w.nodes[i]
                                   IN  node.type = "code" => ~_snippet_issues(node, snippets)

\* After an import that exits 0, n8n runs what the files of the directory hold,
\* whatever earlier imports and interrupted ones left in the container.
ImportedIsPublished ==
    Ended("import") => \A id \in Dir(job.project) : published[id] = file[id].w

\* What rewriting a file in place keeps: the settings, every field that does not
\* tell about an execution or an instance, the nodes, and all code but that of
\* snippets, which becomes the text of the file it names.
SameWorkflow(before, after) ==
    /\ before.errorHandler = after.errorHandler /\ before.errorWorkflow = after.errorWorkflow
    /\ after.fields \subseteq before.fields
    /\ \A f \in before.fields \ after.fields : Volatile(f) \/ f.key \in _DROP_KEYS \union {"execution"}
    /\ DOMAIN before.nodes = DOMAIN after.nodes
    /\ \A i \in DOMAIN before.nodes :
          LET old == before.nodes[i]
              new == after.nodes[i]
          IN  new = old \/ (/\ snippetBacked(old)
                            /\ new = [old EXCEPT !.code = new.code]
                            /\ new.code.version = snippets[old.code.snippet].version)

\* Sanitising and synchronising never lose a workflow: a file that either of
\* them rewrites is still the same workflow, unless the write itself was cut off.
RewriteKeepsWorkflow ==
    [][\A id \in Ids : file'[id] # file[id] /\ pc # "copying" /\ file'[id] # Broken
          => SameWorkflow(file[id].w, file'[id].w)]_vars
=============================================================================
