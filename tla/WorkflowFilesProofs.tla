------------------------- MODULE WorkflowFilesProofs --------------------------
(***************************************************************************)
(* Proofs about WorkflowFiles, for any workflows, snippets, projects and   *)
(* any number of edits, commands and faults.                               *)
(***************************************************************************)
EXTENDS WorkflowFiles, TLAPS

\* Which command is where, and which files it still has to do.
Loops == /\ pc \in {"idle", "linting", "exited"} => todo = {}
         /\ pc \in {"copying", "linting"} => job.kind = "export"
         /\ pc = "sanitizing" => job.kind \in {"export", "sanitize"}
         /\ pc = "syncing" => job.kind = "sync"
         /\ pc \in {"sending", "importing", "publishing"} => job.kind = "import"
         /\ pc = "copying" => todo \subseteq {id \in Ids : tmp[id] # NoFile /\ Project[id] = job.project}
         /\ pc \in {"sanitizing", "sending", "importing", "publishing"} => todo \subseteq Dir(job.project)
         /\ pc = "syncing" => todo \subseteq AllFiles
         /\ pc \notin {"sanitizing", "syncing", "exited"} => ~failed
         /\ pc = "sanitizing" /\ failed => Dir(job.project) # {}

Clean(c) == c # Broken /\ c.tidy /\ ~\E f \in c.w.fields : Volatile(f) \/ f.secret

\* What n8n exported is in the files so far.
Held(ids) == \A id \in ids :
    Project[id] = job.project /\ tmp[id] # NoFile => file[id] \in Contents /\ file[id].w.nodes = tmp[id].nodes

\* How far an export has come.
Exporting ==
    /\ pc = "copying" => Held(Ids \ todo)
    /\ pc \in {"sanitizing", "linting"} /\ job.kind = "export" /\ ~failed => Held(Ids)
    /\ pc = "sanitizing" /\ ~failed => \A id \in Dir(job.project) \ todo : Clean(file[id])
    /\ pc = "linting" => \A id \in Dir(job.project) : Clean(file[id])
    /\ ExportedIsClean

InStep(c) == c # Broken /\ \A i \in DOMAIN c.w.nodes : c.w.nodes[i].type = "code" => ~_snippet_issues(c.w.nodes[i], snippets)

\* How far sync_snippets.py has come.
Syncing == /\ pc = "syncing" /\ ~failed /\ SnippetsWellFormed => \A id \in AllFiles \ todo : InStep(file[id])
           /\ SyncedPassesLint

\* How far an import has come.
Importing ==
    /\ pc \in {"sending", "importing"} => todo = Dir(job.project)
    /\ pc = "importing" => \A id \in todo : container[id] = file[id]
    /\ pc = "publishing" => \A id \in Dir(job.project) :
                               canvas[id] = file[id].w /\ (id \notin todo => published[id] = file[id].w)
    /\ ImportedIsPublished

\* The inductive invariant.
IInv == TypeOK /\ Loops /\ Exporting /\ Syncing /\ Importing

-----------------------------------------------------------------------------
\* _strip gives a workflow with the same nodes and without volatile fields.
LEMMA StripFacts ==
    ASSUME NEW w \in Workflows
    PROVE  /\ _strip(w) \in Workflows
           /\ _strip(w).nodes = w.nodes
           /\ _strip(w).fields \subseteq w.fields
           /\ \A f \in _strip(w).fields : ~Volatile(f)
           /\ SameWorkflow(w, _strip(w))
  <1>1. /\ _strip(w) \in Workflows /\ _strip(w).nodes = w.nodes
        /\ _strip(w).errorHandler = w.errorHandler /\ _strip(w).errorWorkflow = w.errorWorkflow
        /\ _strip(w).fields = {f \in w.fields : ~dropped(f)}
    BY DEF _strip, Workflows
  <1>2. \A f : Volatile(f) => dropped(f)
    BY DEF Volatile, dropped, _DROP_KEYS
  <1>3. \A f : dropped(f) => Volatile(f) \/ f.key \in _DROP_KEYS \union {"execution"}
    BY DEF Volatile, dropped
  <1> QED
    BY <1>1, <1>2, <1>3 DEF SameWorkflow

\* A file that the sanitiser does not refuse is clean afterwards.
LEMMA SanitizedFacts ==
    ASSUME NEW c \in Contents, ~find_secret_matches(c.w)
    PROVE  sanitized(c) \in Contents /\ Clean(sanitized(c)) /\ sanitized(c).w.nodes = c.w.nodes
  <1>1. c.w \in Workflows
    BY DEF Contents
  <1>2. sanitized(c) \in Contents /\ sanitized(c).w = _strip(c.w) /\ sanitized(c).tidy
    BY <1>1, StripFacts DEF sanitized, Contents
  <1>3. \A f \in _strip(c.w).fields : ~f.secret
    BY <1>1, StripFacts DEF find_secret_matches
  <1> QED
    BY <1>1, <1>2, <1>3, StripFacts, TypesAssumption DEF Clean

\* What sync_workflow may make of a node.
SyncsTo(old, new) ==
    /\ new \in Nodes
    /\ SnippetsWellFormed /\ new.type = "code" => ~_snippet_issues(new, snippets)
    /\ \/ new = old
       \/ /\ snippetBacked(old)
          /\ new = [old EXCEPT !.code = new.code]
          /\ new.code.version = snippets[old.code.snippet].version

\* It makes that of every node whose snippet is there.
LEMMA SyncNodeFacts ==
    ASSUME TypeOK, NEW old \in Nodes, snippetBacked(old) => snippets[old.code.snippet] # Missing
    PROVE  SyncsTo(old, syncNode(old, snippets))
  <1> DEFINE new == syncNode(old, snippets)
  <1>2. CASE ~snippetBacked(old)
    BY <1>2 DEF syncNode, snippetBacked, _snippet_issues, SyncsTo
  <1>3. CASE snippetBacked(old)
    <2> DEFINE text == snippets[old.code.snippet]
               replacement == [Lf(text) EXCEPT !.newline = TRUE]
    <2>1. old.code \in CodeTexts /\ old.code.snippet \in Names /\ text \in CodeTexts
      BY <1>3, TypesAssumption DEF TypeOK, CodeTexts, snippetBacked, Nodes
    <2>2. replacement \in CodeTexts /\ replacement.version = text.version /\ replacement.snippet = text.snippet
          /\ Lf(replacement) = replacement /\ (text.newline => replacement = Lf(text))
      BY <2>1, Zenon DEF CodeTexts, Lf
    <2>3. SnippetsWellFormed => text.snippet = old.code.snippet /\ text.newline
      BY <2>1, TypesAssumption DEF SnippetsWellFormed
    <2> HIDE DEF replacement
    <2>4. new = IF Lf(old.code) # replacement THEN [old EXCEPT !.code = replacement] ELSE old
      BY <1>3 DEF syncNode, replacement
    <2>5. CASE Lf(old.code) # replacement
      <3>1. new = [old EXCEPT !.code = replacement] /\ new.code = replacement
        BY <2>4, <2>5 DEF Nodes
      <3> QED
        BY <1>3, <2>1, <2>2, <2>3, <3>1, TypesAssumption DEF _snippet_issues, Nodes, SyncsTo
    <2>6. CASE Lf(old.code) = replacement
      BY <2>1, <2>2, <2>3, <2>4, <2>6, TypesAssumption DEF _snippet_issues, SyncsTo
    <2> QED
      BY <2>5, <2>6
  <1> QED
    BY <1>2, <1>3, ZenonT(60)

\* A file that sync does not refuse is in step with its snippets afterwards, and is
\* the same workflow.
LEMMA SyncedFacts ==
    ASSUME TypeOK, NEW c \in Contents, ~syncFails(c.w, snippets)
    PROVE  /\ synced(c) \in Contents
           /\ SnippetsWellFormed => InStep(synced(c))
           /\ SameWorkflow(c.w, synced(c).w)
  <1> DEFINE w == c.w
             nodes == [i \in DOMAIN w.nodes |-> syncNode(w.nodes[i], snippets)]
             after == [w EXCEPT !.nodes = nodes]
  <1>1. w \in Workflows /\ w.nodes \in Seq(Nodes) /\ synced(c) = [w |-> after, tidy |-> TRUE]
    BY DEF Contents, Workflows, synced, sync_workflow
  <1>2. ASSUME NEW i \in DOMAIN w.nodes PROVE SyncsTo(w.nodes[i], nodes[i])
    <2>1. w.nodes[i] \in Nodes
      BY <1>1
    <2>2. snippetBacked(w.nodes[i]) => snippets[w.nodes[i].code.snippet] # Missing
      BY DEF syncFails
    <2> QED
      BY <2>1, <2>2, SyncNodeFacts
  <1>3. nodes \in Seq(Nodes) /\ DOMAIN nodes = DOMAIN w.nodes
    <2>1. PICK n \in Nat : DOMAIN w.nodes = 1..n
      BY <1>1
    <2>2. \A i \in 1..n : nodes[i] \in Nodes
      BY <1>2, <2>1, Zenon DEF SyncsTo
    <2> QED
      BY <2>1, <2>2
  <1> HIDE DEF nodes
  <1>4. /\ after \in Workflows /\ after.nodes = nodes /\ after.fields = w.fields
        /\ after.errorHandler = w.errorHandler /\ after.errorWorkflow = w.errorWorkflow
    BY <1>1, <1>3, Zenon DEF Workflows
  <1> HIDE DEF after
  <1>5. synced(c) \in Contents /\ synced(c).w = after
    BY <1>1, <1>4 DEF Contents
  <1>6. SnippetsWellFormed => InStep(synced(c))
    BY <1>2, <1>3, <1>4, <1>5, TypesAssumption, ZenonT(60) DEF InStep, SyncsTo
  <1>7. SameWorkflow(w, after)
    BY <1>2, <1>3, <1>4 DEF SameWorkflow, SyncsTo
  <1> QED
    BY <1>5, <1>6, <1>7

-----------------------------------------------------------------------------
\* A step that takes files from todo and removes none keeps the types.
LEMMA LoopTypes ==
    ASSUME TypeOK, UNCHANGED <<n8n, snippets, tmp, job, edits, jobs>>,
           file' \in [Ids -> Contents \union {NoFile, Broken}], \A id \in Ids : file[id] # NoFile => file'[id] # NoFile,
           todo' \subseteq todo, pc' \in {pc, "linting", "exited"}, failed' \in BOOLEAN, faults' \in 0..MaxFaults
    PROVE  TypeOK'
  BY DEF TypeOK, n8n, AllFiles

\* So does one that leaves the files alone.
LEMMA QuietTypes ==
    ASSUME TypeOK, UNCHANGED <<n8n, snippets, tmp, job, edits, jobs, file, faults>>,
           todo' \subseteq todo, pc' \in {pc, "linting", "exited"}, failed' \in BOOLEAN
    PROVE  TypeOK'
  <1>1. file' \in [Ids -> Contents \union {NoFile, Broken}] /\ faults' \in 0..MaxFaults
    BY DEF TypeOK
  <1>2. \A id \in Ids : file[id] # NoFile => file'[id] # NoFile
    OBVIOUS
  <1> QED
    BY <1>1, <1>2, LoopTypes

\* And one that writes a file.
LEMMA WriteTypes ==
    ASSUME TypeOK, UNCHANGED <<n8n, snippets, tmp, job, edits, jobs>>,
           NEW id \in Ids, NEW c \in Contents \union {Broken}, file' = [file EXCEPT ![id] = c],
           todo' \subseteq todo, pc' \in {pc, "exited"}, failed' \in BOOLEAN, faults' \in 0..MaxFaults
    PROVE  TypeOK'
  <1>1. file' \in [Ids -> Contents \union {NoFile, Broken}] /\ \A other \in Ids : file[other] # NoFile => file'[other] # NoFile
    BY TypesAssumption DEF TypeOK
  <1> QED
    BY <1>1, LoopTypes

\* Types when a command begins.
LEMMA StartTypes ==
    ASSUME TypeOK, NEW kind \in JobKinds, NEW p \in Projects \union {"all"}, Begin(kind, p),
           UNCHANGED <<n8n, file>>, tmp' \in [Ids -> Workflows \union {NoFile}],
           pc' \in {"copying", "sanitizing", "syncing", "sending", "exited"}, failed' \in BOOLEAN,
           todo' \subseteq AllFiles \union {id \in Ids : tmp'[id] # NoFile}
    PROVE  TypeOK'
  <1>1. jobs' \in 0..MaxJobs /\ job' \in [kind : JobKinds, project : Projects \union {"all"}]
    BY TypesAssumption DEF TypeOK, Begin
  <1>2. AllFiles' = AllFiles
    BY DEF AllFiles
  <1> QED
    BY <1>1, <1>2 DEF TypeOK, n8n, Begin

\* Every step keeps the types.
LEMMA NextTypes == ASSUME TypeOK, Loops, Next PROVE TypeOK'
  <1>1. ASSUME NEW id \in Ids, NEW w \in Drafts[id], EditCanvas(id, w) PROVE TypeOK'
    BY <1>1, TypesAssumption DEF TypeOK, AllFiles, EditCanvas
  <1>2. ASSUME NEW n \in Names, NEW t \in Texts, EditSnippet(n, t) PROVE TypeOK'
    BY <1>2, TypesAssumption DEF TypeOK, AllFiles, EditSnippet, n8n
  <1>3. ASSUME NEW p \in Projects, StartExport(p) PROVE TypeOK'
    BY <1>3, StartTypes DEF StartExport, TypeOK, JobKinds, n8n
  <1>4. ASSUME NEW p \in Projects, StartSanitize(p) \/ StartImport(p) PROVE TypeOK'
    <2>1. Dir(p) \subseteq AllFiles
      BY DEF Dir, AllFiles
    <2> QED
      BY <1>4, <2>1, StartTypes DEF StartSanitize, StartImport, TypeOK, JobKinds, n8n
  <1>5. CASE StartSync
    <2>1. todo' \subseteq AllFiles /\ pc' \in {"syncing", "exited"} /\ failed' \in BOOLEAN /\ UNCHANGED <<n8n, file, tmp>>
      BY <1>5, Zenon DEF StartSync, Exit
    <2> QED
      BY <1>5, <2>1, StartTypes DEF StartSync, TypeOK, JobKinds
  <1>6. ASSUME NEW id \in Ids, CopyFile(id) PROVE TypeOK'
    <2>1. [w |-> tmp[id], tidy |-> FALSE] \in Contents /\ failed' \in BOOLEAN /\ faults' \in 0..MaxFaults
      BY <1>6 DEF CopyFile, current, TypeOK, Loops, Contents
    <2>2. todo' \subseteq todo /\ pc' = pc /\ UNCHANGED <<n8n, snippets, tmp, job, edits, jobs>>
          /\ file' = [file EXCEPT ![id] = [w |-> tmp[id], tidy |-> FALSE]]
      BY <1>6 DEF CopyFile
    <2> QED
      BY <2>1, <2>2, WriteTypes, Zenon
  <1>7. CASE CopyEnds
    BY <1>7 DEF CopyEnds, TypeOK, Dir, AllFiles, n8n
  <1>8. ASSUME NEW id \in Ids, SanitizeFile(id) PROVE TypeOK'
    <2>1. todo' \subseteq todo /\ pc' = pc /\ failed' \in BOOLEAN /\ UNCHANGED <<n8n, snippets, tmp, job, edits, jobs, faults>>
      BY <1>8 DEF SanitizeFile, TypeOK
    <2>2. CASE file' = file
      BY <2>1, <2>2, QuietTypes
    <2>3. CASE file' # file
      <3>1. file[id] \in Contents /\ ~find_secret_matches(file[id].w) /\ file' = [file EXCEPT ![id] = sanitized(file[id])]
        BY <1>8, <2>3 DEF SanitizeFile, current, TypeOK, Loops, Dir
      <3> QED
        BY <2>1, <3>1, SanitizedFacts, WriteTypes, Zenon DEF TypeOK
    <2> QED
      BY <2>2, <2>3
  <1>9. ASSUME NEW id \in Ids, SyncFile(id) PROVE TypeOK'
    <2>1. todo' \subseteq todo /\ pc' = pc /\ failed' \in BOOLEAN /\ UNCHANGED <<n8n, snippets, tmp, job, edits, jobs, faults>>
      BY <1>9 DEF SyncFile, TypeOK
    <2>2. CASE file' = file
      BY <2>1, <2>2, QuietTypes
    <2>3. CASE file' # file
      <3>1. file[id] \in Contents /\ ~syncFails(file[id].w, snippets) /\ file' = [file EXCEPT ![id] = synced(file[id])]
        BY <1>9, <2>3 DEF SyncFile, current, TypeOK, Loops, AllFiles
      <3> QED
        BY <2>1, <3>1, SyncedFacts, WriteTypes, Zenon DEF TypeOK
    <2> QED
      BY <2>2, <2>3
  <1>10. CASE SanitizeStdin \/ SanitizeEnds \/ Lint \/ SyncEnds \/ PublishEnds
    <2>1. todo' \subseteq todo /\ pc' \in {"linting", "exited"} /\ UNCHANGED <<n8n, file, snippets, tmp, job, edits, jobs, faults>>
      BY <1>10 DEF SanitizeStdin, SanitizeEnds, Lint, SyncEnds, PublishEnds, Exit
    <2>2. failed' \in BOOLEAN
      BY <1>10, Zenon DEF SanitizeStdin, SanitizeEnds, Lint, lintFails, SyncEnds, PublishEnds, Exit, TypeOK
    <2> QED
      BY <2>1, <2>2, QuietTypes
  <1>11. CASE CopyIn
    BY <1>11 DEF CopyIn, TypeOK, AllFiles
  <1>12. CASE ImportWorkflows
    <2>1. canvas' \in [Ids -> Workflows \union {NoFile}]
      BY <1>12 DEF ImportWorkflows, TypeOK, Contents
    <2>2. todo' \subseteq todo /\ pc' \in {"publishing", "exited"} /\ failed' \in BOOLEAN
      BY <1>12, Zenon DEF ImportWorkflows, Exit, TypeOK
    <2> QED
      BY <1>12, <2>1, <2>2, Zenon DEF ImportWorkflows, TypeOK, AllFiles
  <1>13. ASSUME NEW id \in Ids, Publish(id) PROVE TypeOK'
    BY <1>13 DEF Publish, TypeOK, AllFiles
  <1>14. CASE Done
    BY <1>14, Zenon DEF Done, TypeOK, Loops, AllFiles, n8n
  <1>15. ASSUME Stop \/ \E id \in Ids : FileError(id) PROVE TypeOK'
    <2>1. /\ UNCHANGED <<n8n, snippets, tmp, job, edits, jobs>>
          /\ todo' \subseteq todo /\ failed' \in BOOLEAN /\ pc' \in {pc, "exited"}
      BY <1>15, Zenon DEF FileError, Stop, Exit
    <2>2. faults' \in 0..MaxFaults
      <3>1. faults < MaxFaults /\ faults' = faults + 1
        BY <1>15, Zenon DEF FileError, Stop
      <3> QED
        BY <3>1, TypesAssumption DEF TypeOK
    <2>3. file' = file \/ \E id \in Ids : file' = [file EXCEPT ![id] = Broken]
      <3>1. todo \subseteq Ids
        BY DEF TypeOK, AllFiles
      <3>2. ASSUME NEW id \in Ids, FileError(id) PROVE file' = file \/ file' = [file EXCEPT ![id] = Broken]
        BY <3>2 DEF FileError
      <3>3. CASE Stop
        BY <3>1, <3>3 DEF Stop
      <3> QED
        BY <1>15, <3>2, <3>3
    <2>4. CASE file' = file
      <3>1. file' \in [Ids -> Contents \union {NoFile, Broken}] /\ \A id \in Ids : file[id] # NoFile => file'[id] # NoFile
        BY <2>4 DEF TypeOK
      <3> QED
        BY <2>1, <2>2, <3>1, LoopTypes
    <2> QED
      BY <2>1, <2>2, <2>3, <2>4, WriteTypes
  <1> QED
    BY <1>1, <1>2, <1>3, <1>4, <1>5, <1>6, <1>7, <1>8, <1>9, <1>10, <1>11, <1>12, <1>13, <1>14, <1>15 DEF Next

\* The directories and their files do not change while a loop other than the copying runs.
LEMMA SameFiles ==
    ASSUME TypeOK, Loops, job' = job,
           \/ file' = file
           \/ \E id \in Ids : id \in AllFiles /\ \E c \in Contents \union {Broken} : file' = [file EXCEPT ![id] = c]
    PROVE  AllFiles' = AllFiles /\ Dir(job.project)' = Dir(job.project)
  <1>1. \A id \in Ids : file'[id] # NoFile <=> file[id] # NoFile
    BY TypesAssumption DEF TypeOK, AllFiles
  <1> QED
    BY <1>1 DEF AllFiles, Dir

\* Every step keeps the phases and their remaining files.
LEMMA NextLoops == ASSUME TypeOK, Loops, Next PROVE Loops'
  <1>1. CASE pc = "idle" /\ pc' = "idle" /\ UNCHANGED <<todo, failed>>
    BY <1>1 DEF Loops
  <1>2. CASE pc' = "exited" /\ todo' = {}
    BY <1>2 DEF Loops
  <1>3. CASE Done
    BY <1>3 DEF Done, Loops
  <1>4. ASSUME NEW p \in Projects, StartExport(p) PROVE Loops'
    BY <1>4 DEF StartExport, Begin, Loops
  <1>5. ASSUME NEW p \in Projects, StartSanitize(p) \/ StartImport(p) PROVE Loops'
    <2>1. job'.project = p /\ todo' = Dir(p) /\ Dir(p)' = Dir(p) /\ failed' = failed /\ pc = "idle"
      BY <1>5 DEF StartSanitize, StartImport, Begin, Dir
    <2>2. Dir(job.project)' = Dir(p)
      BY <2>1 DEF Dir
    <2> QED
      BY <1>5, <2>1, <2>2 DEF StartSanitize, StartImport, Begin, Loops
  <1>6. CASE StartSync /\ AllFiles # {}
    <2>1. pc' = "syncing" /\ todo' = AllFiles /\ AllFiles' = AllFiles /\ job'.kind = "sync"
      BY <1>6, ZenonT(60) DEF StartSync, Begin, AllFiles
    <2> QED
      BY <2>1 DEF Loops
  <1>7. ASSUME NEW id \in Ids, CopyFile(id) PROVE Loops'
    BY <1>7 DEF CopyFile, Loops
  <1>8. CASE CopyEnds
    <2>1. Dir(job.project)' = todo'
      BY <1>8, Zenon DEF CopyEnds, Dir
    <2> QED
      BY <1>8, <2>1 DEF CopyEnds, Loops
  <1>9. ASSUME NEW id \in Ids, SanitizeFile(id) PROVE Loops'
    <2>1. id \in Dir(job.project) /\ id \in AllFiles /\ job' = job
      BY <1>9 DEF SanitizeFile, current, Loops, Dir, AllFiles
    <2>2. file' = file \/ \E c \in Contents \union {Broken} : file' = [file EXCEPT ![id] = c]
      <3>1. CASE file' # file
        <4>1. file[id] \in Contents /\ ~find_secret_matches(file[id].w) /\ file' = [file EXCEPT ![id] = sanitized(file[id])]
          BY <1>9, <2>1, <3>1 DEF SanitizeFile, TypeOK, AllFiles
        <4> QED
          BY <4>1, SanitizedFacts, ZenonT(60)
      <3> QED
        BY <3>1
    <2>3. Dir(job.project)' = Dir(job.project)
      BY <2>1, <2>2, SameFiles
    <2> QED
      BY <1>9, <2>1, <2>3 DEF SanitizeFile, Loops
  <1>10. CASE SanitizeStdin /\ pc' = "linting"
    BY <1>10 DEF SanitizeStdin, Exit, Loops
  <1>11. CASE SanitizeEnds /\ pc' = "linting"
    BY <1>11, Zenon DEF SanitizeEnds, Exit, Loops
  <1>12. ASSUME NEW id \in Ids, SyncFile(id) PROVE Loops'
    <2>1. id \in AllFiles /\ job' = job
      BY <1>12 DEF SyncFile, current, Loops
    <2>2. file' = file \/ \E c \in Contents \union {Broken} : file' = [file EXCEPT ![id] = c]
      <3>1. CASE file' # file
        <4>1. file[id] \in Contents /\ ~syncFails(file[id].w, snippets) /\ file' = [file EXCEPT ![id] = synced(file[id])]
          BY <1>12, <2>1, <3>1 DEF SyncFile, TypeOK, AllFiles
        <4> QED
          BY <4>1, SyncedFacts, Zenon
      <3> QED
        BY <3>1
    <2>3. AllFiles' = AllFiles
      BY <2>1, <2>2, SameFiles
    <2> QED
      BY <1>12, <2>1, <2>3, Zenon DEF SyncFile, Loops
  <1>13. CASE CopyIn
    BY <1>13 DEF CopyIn, Loops, Dir
  <1>14. CASE ImportWorkflows /\ pc' = "publishing"
    BY <1>14, SMTT(60) DEF ImportWorkflows, Exit, Loops, Dir
  <1>15. ASSUME NEW id \in Ids, Publish(id) PROVE Loops'
    BY <1>15, Zenon DEF Publish, Loops, Dir
  <1>16. ASSUME NEW id \in Ids, FileError(id) PROVE Loops'
    <2>1. id \in AllFiles /\ job' = job /\ (pc = "sanitizing" => id \in Dir(job.project))
      BY <1>16 DEF FileError, current, Loops, Dir, AllFiles
    <2>2. AllFiles' = AllFiles /\ Dir(job.project)' = Dir(job.project)
      BY <1>16, <2>1, SameFiles DEF FileError
    <2> QED
      BY <1>16, <2>1, <2>2, Zenon DEF FileError, Loops
  <1>17. ASSUME SanitizeStdin \/ SanitizeEnds \/ Lint \/ SyncEnds \/ PublishEnds \/ Stop PROVE pc' \in {"linting", "exited"} /\ (pc' = "exited" => todo' = {})
    BY <1>17 DEF SanitizeStdin, SanitizeEnds, Lint, SyncEnds, PublishEnds, Stop, Exit
  <1>18. ASSUME Lint \/ SyncEnds \/ PublishEnds \/ Stop PROVE pc' = "exited"
    BY <1>18 DEF Lint, SyncEnds, PublishEnds, Stop, Exit
  <1>19. ASSUME StartSync, AllFiles = {} PROVE pc' = "exited" /\ todo' = {}
    BY <1>19, SMTT(60) DEF StartSync, Exit
  <1>20. ASSUME ImportWorkflows PROVE pc' = "publishing" \/ (pc' = "exited" /\ todo' = {})
    BY <1>20, ZenonT(60) DEF ImportWorkflows, Exit
  <1>21. ASSUME (\E id \in Ids : \E w \in Drafts[id] : EditCanvas(id, w)) \/ (\E n \in Names, t \in Texts : EditSnippet(n, t))
         PROVE  pc = "idle" /\ pc' = "idle" /\ UNCHANGED <<todo, failed>>
    BY <1>21 DEF EditCanvas, EditSnippet
  <1> QED
    BY Zenon, <1>1, <1>2, <1>3, <1>4, <1>5, <1>6, <1>7, <1>8, <1>9, <1>10, <1>11, <1>12, <1>13, <1>14, <1>15, <1>16, <1>17, <1>18,
       <1>19, <1>20, <1>21 DEF Next

-----------------------------------------------------------------------------
\* How the steps that may exit early leave the command.
LEMMA Outcomes ==
    /\ ImportWorkflows => pc' = "publishing" \/ (pc' = "exited" /\ failed')
    /\ StartSync => pc' = "syncing" \/ (pc' = "exited" /\ failed')
    /\ Stop => pc' = "exited" /\ failed'
    /\ \A id \in Ids : FileError(id) => pc' \in {"sanitizing", "syncing"} /\ failed'
  <1>1. ImportWorkflows => pc' = "publishing" \/ (pc' = "exited" /\ failed')
    BY DEF ImportWorkflows, Exit
  <1>2. StartSync => pc' = "syncing" \/ (pc' = "exited" /\ failed')
    BY DEF StartSync, Exit
  <1>3. Stop => pc' = "exited" /\ failed'
    BY DEF Stop, Exit
  <1>4. \A id \in Ids : FileError(id) => pc' \in {"sanitizing", "syncing"} /\ failed'
    BY DEF FileError
  <1> QED
    BY <1>1, <1>2, <1>3, <1>4

\* Where the other steps lead.
LEMMA Leads ==
    /\ \A id, w : EditCanvas(id, w) => pc' = "idle"
    /\ \A n, t : EditSnippet(n, t) => pc' = "idle"
    /\ Done => pc' = "idle"
    /\ \A p : (StartExport(p) => pc' = "copying") /\ (StartSanitize(p) => pc' = "sanitizing") /\ (StartImport(p) => pc' = "sending")
    /\ \A id : (CopyFile(id) => pc' = "copying") /\ (SanitizeFile(id) => pc' = "sanitizing") /\ (Publish(id) => pc' = "publishing")
    /\ (CopyEnds => pc' = "sanitizing") /\ (CopyIn => pc' = "importing")
  <1>1. (\A id, w : EditCanvas(id, w) => pc' = "idle") /\ (\A n, t : EditSnippet(n, t) => pc' = "idle") /\ (Done => pc' = "idle")
    BY DEF EditCanvas, EditSnippet, Done
  <1>2. \A p : (StartExport(p) => pc' = "copying") /\ (StartSanitize(p) => pc' = "sanitizing") /\ (StartImport(p) => pc' = "sending")
    BY DEF StartExport, StartSanitize, StartImport
  <1>3. \A id : (CopyFile(id) => pc' = "copying") /\ (SanitizeFile(id) => pc' = "sanitizing") /\ (Publish(id) => pc' = "publishing")
    BY SMTT(60) DEF CopyFile, SanitizeFile, Publish
  <1>4. (CopyEnds => pc' = "sanitizing") /\ (CopyIn => pc' = "importing")
    BY ZenonT(60) DEF CopyEnds, CopyIn
  <1> QED
    BY <1>1, <1>2, <1>3, <1>4

\* Nothing is claimed of an export that is not running, or has failed.
LEMMA ExportingElsewhere ==
    ASSUME \/ pc' \notin {"copying", "sanitizing", "linting", "exited"}
           \/ pc' = "exited" /\ (failed' \/ job'.kind # "export")
           \/ pc' = "sanitizing" /\ failed'
    PROVE  Exporting'
  BY DEF Exporting, ExportedIsClean, Ended

\* Every step keeps what is claimed of an export.
LEMMA NextExporting == ASSUME IInv, Next PROVE Exporting'
  <1> USE DEF IInv
  <1>1. ASSUME NEW p \in Projects, StartExport(p) PROVE Exporting'
    <2>1. pc' = "copying" /\ todo' = {id \in Ids : tmp'[id] # NoFile /\ Project[id] = job'.project}
      BY <1>1, SMTT(60) DEF StartExport, Begin
    <2> QED
      BY <2>1 DEF Exporting, ExportedIsClean, Ended, Held
  <1>2. ASSUME NEW p \in Projects, StartSanitize(p) PROVE Exporting'
    <2>1. pc' = "sanitizing" /\ job'.kind = "sanitize" /\ Dir(job.project)' = todo'
      BY <1>2, ZenonT(60) DEF StartSanitize, Begin, Dir
    <2> QED
      BY <2>1, Zenon DEF Exporting, ExportedIsClean, Ended
  <1>3. ASSUME NEW id \in Ids, CopyFile(id) PROVE Exporting'
    <2>1. pc = "copying" /\ pc' = pc /\ job' = job /\ tmp' = tmp /\ todo' = todo \ {id} /\ id \in todo
          /\ file' = [file EXCEPT ![id] = [w |-> tmp[id], tidy |-> FALSE]]
      BY <1>3 DEF CopyFile, current
    <2>2. [w |-> tmp[id], tidy |-> FALSE] \in Contents
      BY <2>1 DEF Loops, TypeOK, Contents
    <2>3. Held(Ids \ todo)'
      BY <2>1, <2>2, ZenonT(60) DEF Exporting, Held, TypeOK
    <2> QED
      BY <2>1, <2>3 DEF Exporting, ExportedIsClean, Ended
  <1>4. CASE CopyEnds
    <2>1. pc = "copying" /\ todo = {} /\ pc' = "sanitizing" /\ todo' = Dir(job.project)'
          /\ UNCHANGED <<file, tmp, job, failed>>
      BY <1>4 DEF CopyEnds, Dir
    <2>2. Held(Ids)'
      BY <2>1 DEF Exporting, Held
    <2> QED
      BY <2>1, <2>2, SMTT(60) DEF Exporting, ExportedIsClean, Ended
  <1>5. ASSUME NEW id \in Ids, SanitizeFile(id) PROVE Exporting'
    <2>1. pc = "sanitizing" /\ pc' = pc /\ job' = job /\ tmp' = tmp /\ todo' = todo \ {id}
          /\ id \in Dir(job.project) /\ file[id] # NoFile
      BY <1>5 DEF SanitizeFile, current, Loops, Dir
    <2>2. CASE file[id] = Broken \/ find_secret_matches(file[id].w)
      BY <1>5, <2>1, <2>2, ExportingElsewhere, Zenon DEF SanitizeFile
    <2>3. CASE ~(file[id] = Broken \/ find_secret_matches(file[id].w))
      <3> DEFINE c == sanitized(file[id])
      <3>1. file[id] \in Contents
        BY <2>1, <2>3 DEF TypeOK
      <3>2. file' = [file EXCEPT ![id] = c] /\ failed' = failed
        BY <1>5, <2>3 DEF SanitizeFile, TypeOK
      <3>3. c \in Contents /\ Clean(c) /\ c.w.nodes = file[id].w.nodes
        BY <2>3, <3>1, SanitizedFacts, ZenonT(60)
      <3> HIDE DEF c
      <3>4. Held(Ids) => Held(Ids)'
        BY <2>1, <3>1, <3>2, <3>3 DEF Held, TypeOK
      <3>5. Dir(job.project)' \subseteq Dir(job.project)
        BY <2>1, <3>2, <3>3, ZenonT(60) DEF Dir, TypeOK
      <3>6. ~failed => \A other \in Dir(job.project)' \ todo' : Clean(file'[other])
        BY <2>1, <3>2, <3>3, <3>5 DEF Exporting, TypeOK, Dir
      <3> QED
        BY <2>1, <3>2, <3>4, <3>6, Zenon DEF Exporting, ExportedIsClean, Ended, Clean
    <2> QED
      BY <2>2, <2>3, Zenon
  <1>6. CASE SanitizeStdin \/ SanitizeEnds
    <2>1. pc = "sanitizing" /\ UNCHANGED <<file, tmp, job>>
      BY <1>6, ZenonT(60) DEF SanitizeStdin, SanitizeEnds
    <2>2. CASE pc' = "linting"
      <3>1. job.kind = "export" /\ ~failed /\ ~failed' /\ (todo = {} \/ Dir(job.project) = {})
        BY <1>6, <2>1, <2>2, Zenon DEF SanitizeStdin, SanitizeEnds, Exit, Loops
      <3>2. Dir(job.project)' = Dir(job.project) /\ \A id \in Dir(job.project) : Clean(file[id])
        BY <2>1, <3>1, ZenonT(60) DEF Exporting, Dir
      <3>3. Held(Ids)'
        BY <2>1, <3>1 DEF Exporting, Held
      <3> QED
        BY <2>1, <2>2, <3>2, <3>3, Zenon DEF Exporting, ExportedIsClean, Ended
    <2>3. CASE pc' # "linting"
      <3>1. pc' = "exited" /\ (failed' \/ job'.kind # "export")
        BY <1>6, <2>1, <2>3 DEF SanitizeStdin, SanitizeEnds, Exit
      <3> QED
        BY <3>1, ExportingElsewhere
    <2> QED
      BY <2>2, <2>3
  <1>7. CASE Lint
    <2>1. pc = "linting" /\ pc' = "exited" /\ ~failed /\ job.kind = "export" /\ UNCHANGED <<file, tmp, job, snippets>>
      BY <1>7 DEF Lint, Exit, Loops
    <2>2. Dir(job.project)' = Dir(job.project)
      BY <2>1 DEF Dir
    <2>3. ~failed' => \A id \in Dir(job.project) : ~lint_workflow(file[id].w, snippets)
      BY <1>7 DEF Lint, Exit, lintFails, lintTargets
    <2>4. \A id \in Dir(job.project) : Clean(file[id])
      BY <2>1 DEF Exporting
    <2>5. Held(Ids)
      BY <2>1 DEF Exporting
    <2>6. \A id \in Ids : Project[id] = job.project /\ tmp[id] # NoFile => file[id] # NoFile /\ file[id].w.nodes = tmp[id].nodes
      BY <2>5, TypesAssumption, ZenonT(60) DEF Held
    <2>7. ExportedIsClean'
      BY <2>1, <2>2, <2>3, <2>4, <2>6 DEF ExportedIsClean, Ended, Clean
    <2> QED
      BY <2>1, <2>7 DEF Exporting
  <1>8. ASSUME \/ \E id \in Ids : \E w \in Drafts[id] : EditCanvas(id, w)
               \/ \E n \in Names, t \in Texts : EditSnippet(n, t)
               \/ \E p \in Projects : StartImport(p)
               \/ StartSync \/ CopyIn \/ ImportWorkflows \/ Done \/ \E id \in Ids : Publish(id)
        PROVE  Exporting'
    <2>1. pc' \in {"idle", "syncing", "sending", "importing", "publishing"} \/ (pc' = "exited" /\ failed')
      BY <1>8, Outcomes, Leads, Zenon
    <2> QED
      BY <2>1, ExportingElsewhere, SMTT(60)
  <1>9. ASSUME SyncEnds \/ PublishEnds \/ Stop \/ \E id \in Ids : SyncFile(id) \/ FileError(id) PROVE Exporting'
    <2>1. CASE SyncEnds \/ PublishEnds
      BY <2>1, ExportingElsewhere DEF SyncEnds, PublishEnds, Exit, Loops
    <2>2. ASSUME NEW id \in Ids, SyncFile(id) PROVE Exporting'
      BY <2>2, ExportingElsewhere, Zenon DEF SyncFile
    <2> QED
      BY <1>9, <2>1, <2>2, Outcomes, ExportingElsewhere, ZenonT(60)
  <1> QED
    BY <1>1, <1>2, <1>3, <1>4, <1>5, <1>6, <1>7, <1>8, <1>9, ZenonT(60) DEF Next

\* Nothing is claimed of a sync that is not running, or has failed.
LEMMA SyncingElsewhere ==
    ASSUME \/ pc' \notin {"syncing", "exited"}
           \/ pc' = "exited" /\ job'.kind # "sync"
           \/ pc' \in {"syncing", "exited"} /\ failed'
    PROVE  Syncing'
  BY ZenonT(60) DEF Syncing, SyncedPassesLint, Ended

\* Every step keeps what is claimed of a sync.
LEMMA NextSyncing == ASSUME IInv, Next PROVE Syncing'
  <1> USE DEF IInv
  <1>1. CASE StartSync
    <2>1. CASE AllFiles = {}
      BY <1>1, <2>1, SyncingElsewhere, Zenon DEF StartSync, Exit
    <2>2. CASE AllFiles # {}
      <3>1. pc' = "syncing" /\ todo' = AllFiles'
        BY <1>1, <2>2, Zenon DEF StartSync, AllFiles
      <3> QED
        BY <3>1 DEF Syncing, SyncedPassesLint, Ended
    <2> QED
      BY <2>1, <2>2
  <1>2. ASSUME NEW id \in Ids, SyncFile(id) PROVE Syncing'
    <2>1. pc = "syncing" /\ pc' = pc /\ snippets' = snippets /\ todo' = todo \ {id} /\ id \in AllFiles /\ file[id] # NoFile
      BY <1>2 DEF SyncFile, current, Loops, AllFiles
    <2>2. CASE file[id] = Broken \/ syncFails(file[id].w, snippets)
      BY <1>2, <2>1, <2>2, SyncingElsewhere, ZenonT(60) DEF SyncFile
    <2>3. CASE ~(file[id] = Broken \/ syncFails(file[id].w, snippets))
      <3> DEFINE c == synced(file[id])
      <3>1. file[id] \in Contents
        BY <2>1, <2>3 DEF TypeOK
      <3>2. file' = [file EXCEPT ![id] = c] /\ failed' = failed
        BY <1>2, <2>3 DEF SyncFile, TypeOK
      <3>3. SnippetsWellFormed => InStep(c)
        BY <2>3, <3>1, SyncedFacts
      <3>4. \A d : InStep(d)' <=> InStep(d)
        BY <2>1 DEF InStep
      <3>5. SnippetsWellFormed' <=> SnippetsWellFormed
        BY <2>1 DEF SnippetsWellFormed
      <3> HIDE DEF c
      <3>6. \A other \in Ids \ {id} : file'[other] = file[other]
        BY <3>2 DEF TypeOK
      <3>7. ASSUME ~failed', SnippetsWellFormed', NEW other \in AllFiles' \ todo' PROVE InStep(file'[other])
        <4>1. CASE other = id
          BY <3>2, <3>3, <3>5, <3>7, <4>1 DEF TypeOK
        <4>2. CASE other # id
          <5>1. other \in AllFiles \ todo /\ file'[other] = file[other]
            BY <2>1, <3>6, <3>7, <4>2, ZenonT(60) DEF AllFiles
          <5> QED
            BY <2>1, <3>2, <3>5, <3>7, <5>1 DEF Syncing
        <4> QED
          BY <4>1, <4>2
      <3>8. ASSUME ~failed', SnippetsWellFormed', NEW other \in AllFiles' \ todo' PROVE InStep(file[other])'
        BY <2>1, <3>7, <3>8 DEF InStep
      <3> QED
        BY <2>1, <3>8 DEF Syncing, SyncedPassesLint, Ended
    <2> QED
      BY <2>2, <2>3, ZenonT(60)
  <1>3. CASE SyncEnds
    <2>1. pc = "syncing" /\ pc' = "exited" /\ todo = {} /\ failed' = failed /\ UNCHANGED <<file, snippets>>
      BY <1>3 DEF SyncEnds, Exit
    <2>2. ~failed /\ SnippetsWellFormed => \A id \in AllFiles : InStep(file[id])
      BY <2>1 DEF Syncing
    <2>3. AllFiles' = AllFiles /\ (SnippetsWellFormed' <=> SnippetsWellFormed)
      BY <2>1, SMTT(60) DEF AllFiles, SnippetsWellFormed
    <2>4. SyncedPassesLint'
      BY <2>1, <2>2, <2>3, Zenon DEF SyncedPassesLint, Ended, InStep
    <2> QED
      BY <2>1, <2>4 DEF Syncing
  <1>4. ASSUME NEW id \in Ids, FileError(id) PROVE Syncing'
    BY <1>4, SyncingElsewhere DEF FileError
  <1>5. CASE Stop
    BY <1>5, SyncingElsewhere DEF Stop, Exit
  <1>6. CASE SanitizeStdin \/ SanitizeEnds \/ Lint \/ PublishEnds
    <2>1. pc' = "linting" \/ (pc' = "exited" /\ job'.kind # "sync")
      BY <1>6, Zenon DEF SanitizeStdin, SanitizeEnds, Lint, PublishEnds, Exit, Loops
    <2> QED
      BY <2>1, SyncingElsewhere, SMTT(60)
  <1>7. ASSUME \/ \E id \in Ids : \E w \in Drafts[id] : EditCanvas(id, w)
               \/ \E n \in Names, t \in Texts : EditSnippet(n, t)
               \/ \E p \in Projects : StartExport(p) \/ StartSanitize(p) \/ StartImport(p)
               \/ CopyEnds \/ CopyIn \/ ImportWorkflows \/ Done
               \/ \E id \in Ids : CopyFile(id) \/ SanitizeFile(id) \/ Publish(id)
        PROVE  Syncing'
    <2>1. pc' \notin {"syncing", "exited"} \/ (pc' = "exited" /\ failed')
      BY <1>7, Outcomes, Leads, ZenonT(60)
    <2> QED
      BY <2>1, SyncingElsewhere, SMTT(60)
  <1> QED
    BY <1>1, <1>2, <1>3, <1>4, <1>5, <1>6, <1>7 DEF Next

\* Nothing is claimed of an import that is not running, or has failed.
LEMMA ImportingElsewhere ==
    ASSUME \/ pc' \notin {"sending", "importing", "publishing", "exited"}
           \/ pc' = "exited" /\ (failed' \/ job'.kind # "import")
    PROVE  Importing'
  BY ZenonT(60) DEF Importing, ImportedIsPublished, Ended

\* Every step keeps what is claimed of an import.
LEMMA NextImporting == ASSUME IInv, Next PROVE Importing'
  <1> USE DEF IInv
  <1>1. ASSUME NEW p \in Projects, StartImport(p) PROVE Importing'
    <2>1. pc' = "sending" /\ todo' = Dir(job.project)'
      BY <1>1, Zenon DEF StartImport, Begin, Dir
    <2> QED
      BY <2>1, SMTT(60) DEF Importing, ImportedIsPublished, Ended
  <1>2. CASE CopyIn
    <2>1. pc' = "importing" /\ todo' = todo /\ todo = Dir(job.project) /\ Dir(job.project)' = Dir(job.project) /\ file' = file
      BY <1>2, ZenonT(60) DEF CopyIn, Importing, Dir
    <2>2. \A id \in todo : container'[id] = file[id]
      BY <1>2, <2>1 DEF CopyIn, Dir
    <2> QED
      BY <2>1, <2>2, SMTT(60) DEF Importing, ImportedIsPublished, Ended
  <1>3. CASE ImportWorkflows
    <2>1. pc = "importing" /\ UNCHANGED <<file, job, published>> /\ todo = Dir(job.project) /\ Dir(job.project)' = Dir(job.project)
          /\ \A id \in todo : id \in Ids /\ container[id] = file[id] /\ file[id] # NoFile
      BY <1>3, ZenonT(60) DEF ImportWorkflows, Importing, Dir
    <2>2. CASE pc' = "publishing"
      <3>1. todo' = todo /\ canvas' = [id \in Ids |-> IF container[id] # NoFile THEN container[id].w ELSE canvas[id]]
        BY <1>3, <2>2, ZenonT(60) DEF ImportWorkflows, Exit
      <3>2. \A id \in todo : canvas'[id] = file[id].w
        BY <2>1, <3>1, Zenon
      <3> QED
        BY <2>1, <2>2, <3>1, <3>2, SMTT(60) DEF Importing, ImportedIsPublished, Ended
    <2>3. CASE pc' # "publishing"
      BY <1>3, <2>3, ImportingElsewhere, SMTT(60) DEF ImportWorkflows, Exit
    <2> QED
      BY <2>2, <2>3, Zenon
  <1>4. ASSUME NEW id \in Ids, Publish(id) PROVE Importing'
    <2>1. pc = "publishing" /\ pc' = pc /\ UNCHANGED <<file, job, canvas>> /\ todo' = todo \ {id}
          /\ published' = [published EXCEPT ![id] = canvas[id]]
      BY <1>4 DEF Publish
    <2>2. Dir(job.project)' = Dir(job.project)
      BY <2>1, Zenon DEF Dir
    <2>3. \A other \in Dir(job.project) : canvas[other] = file[other].w /\ (other \notin todo' => published'[other] = file[other].w)
      BY <2>1 DEF Importing, TypeOK, Dir
    <2> QED
      BY <2>1, <2>2, <2>3, ZenonT(60) DEF Importing, ImportedIsPublished, Ended
  <1>5. CASE PublishEnds
    <2>1. pc = "publishing" /\ pc' = "exited" /\ todo = {} /\ UNCHANGED <<file, job, published>>
      BY <1>5 DEF PublishEnds, Exit, n8n
    <2>2. Dir(job.project)' = Dir(job.project)
      BY <2>1, Zenon DEF Dir
    <2>3. ImportedIsPublished'
      BY <2>1, <2>2 DEF Importing, ImportedIsPublished
    <2> QED
      BY <2>1, <2>3 DEF Importing
  <1>6. CASE SanitizeStdin \/ SanitizeEnds \/ Lint \/ SyncEnds \/ Stop \/ StartSync
    <2>1. pc' \in {"linting", "syncing"} \/ (pc' = "exited" /\ (failed' \/ job'.kind # "import"))
      BY <1>6, Zenon DEF SanitizeStdin, SanitizeEnds, Lint, SyncEnds, Stop, StartSync, Exit, Loops
    <2> QED
      BY <2>1, ImportingElsewhere, SMTT(60)
  <1>7. ASSUME \/ \E id \in Ids : \E w \in Drafts[id] : EditCanvas(id, w)
               \/ \E n \in Names, t \in Texts : EditSnippet(n, t)
               \/ \E p \in Projects : StartExport(p) \/ StartSanitize(p)
               \/ CopyEnds \/ Done
               \/ \E id \in Ids : CopyFile(id) \/ SanitizeFile(id) \/ SyncFile(id) \/ FileError(id)
        PROVE  Importing'
    <2>1. pc' \in {"idle", "copying", "sanitizing", "syncing"}
      BY <1>7, Zenon DEF EditCanvas, EditSnippet, StartExport, StartSanitize, CopyEnds, Done, CopyFile, SanitizeFile, SyncFile, FileError
    <2> QED
      BY <2>1, ImportingElsewhere, SMTT(60)
  <1> QED
    BY <1>1, <1>2, <1>3, <1>4, <1>5, <1>6, <1>7, Zenon DEF Next

-----------------------------------------------------------------------------
\* The invariant is inductive.
LEMMA NextIInv == IInv /\ [Next]_vars => IInv'
  <1> SUFFICES ASSUME IInv, [Next]_vars PROVE IInv'
    OBVIOUS
  <1>1. CASE Next
    BY <1>1, NextTypes, NextLoops, NextExporting, NextSyncing, NextImporting DEF IInv
  <1>2. CASE UNCHANGED vars
    <2>1. TypeOK' /\ Loops'
      BY <1>2, ZenonT(60) DEF vars, IInv, TypeOK, Loops, Dir, AllFiles
    <2>2. Exporting'
      BY <1>2, ZenonT(60) DEF vars, IInv, Exporting, Held, ExportedIsClean, Ended, Dir
    <2>3. Syncing'
      BY <1>2, ZenonT(60) DEF vars, IInv, Syncing, SyncedPassesLint, SnippetsWellFormed, InStep, Ended, AllFiles
    <2>4. Importing'
      BY <1>2 DEF vars, IInv, Importing, ImportedIsPublished, Ended, Dir
    <2> QED
      BY <2>1, <2>2, <2>3, <2>4, SMTT(60) DEF IInv
  <1> QED
    BY <1>1, <1>2

\* The initial state satisfies it: the committed files are sanitised ones.
LEMMA InitIInv == Init => IInv
  <1> SUFFICES ASSUME Init PROVE IInv
    OBVIOUS
  <1>1. ASSUME NEW id \in Ids PROVE Committed(id) \subseteq Contents \union {NoFile}
    <2>1. \A w \in Drafts[id] : _strip(w) \in Workflows
      BY StripFacts, TypesAssumption, ZenonT(60)
    <2>2. ASSUME NEW c \in Committed(id), c # NoFile PROVE c \in Contents
      <3>1. PICK w \in Drafts[id] : c = [w |-> _strip(w), tidy |-> TRUE]
        BY <2>2 DEF Committed
      <3> QED
        BY <2>1, <3>1, Zenon DEF Contents
    <2> QED
      BY <2>2, SMTT(60)
  <1>2. file \in [Ids -> Contents \union {NoFile, Broken}]
    BY <1>1 DEF Init
  <1>3. TypeOK
    <2>1. canvas = [id \in Ids |-> NoFile] /\ published = canvas /\ container = canvas /\ tmp = canvas
      BY Zenon DEF Init
    <2>2. snippets \in [Names -> Texts \union {Missing}] /\ job = NoJob /\ pc = "idle" /\ todo = {} /\ failed = FALSE
          /\ edits = 0 /\ jobs = 0 /\ faults = 0
      BY Zenon DEF Init
    <2>3. /\ canvas \in [Ids -> Workflows \union {NoFile}] /\ published \in [Ids -> Workflows \union {NoFile}]
          /\ tmp \in [Ids -> Workflows \union {NoFile}] /\ container \in [Ids -> Contents \union {NoFile, Broken}]
      BY <2>1, Zenon
    <2>4. edits \in 0..MaxEdits /\ jobs \in 0..MaxJobs /\ faults \in 0..MaxFaults
      BY <2>2, TypesAssumption, SMTT(60), Z3
    <2> QED
      BY <1>2, <2>2, <2>3, <2>4, ZenonT(60) DEF TypeOK
  <1>4. Loops /\ Exporting /\ Syncing /\ Importing
    BY Zenon DEF Init, NoJob, Loops, Exporting, Syncing, Importing, ExportedIsClean, SyncedPassesLint, ImportedIsPublished, Ended
  <1> QED
    BY <1>3, <1>4, Zenon DEF IInv

\* The invariant holds throughout.
LEMMA Invariance == Spec => []IInv
  BY InitIInv, NextIInv, PTL DEF Spec

-----------------------------------------------------------------------------
\* Every variable of the scripts keeps its type.
THEOREM TypeCorrect == Spec => []TypeOK
  <1>1. IInv => TypeOK
    BY Zenon DEF IInv
  <1> QED
    BY Invariance, <1>1, PTL

\* An export that exits 0 leaves a clean and complete directory.
THEOREM ExportClean == Spec => []ExportedIsClean
  <1>1. IInv => ExportedIsClean
    BY Zenon DEF IInv, Exporting
  <1> QED
    BY Invariance, <1>1, PTL

\* After a sync that exits 0 no code is out of step with well-formed snippets.
THEOREM SyncThenLint == Spec => []SyncedPassesLint
  <1>1. IInv => SyncedPassesLint
    BY Zenon DEF IInv, Syncing
  <1> QED
    BY Invariance, <1>1, PTL

\* After an import that exits 0 n8n runs what the files hold.
THEOREM ImportPublishes == Spec => []ImportedIsPublished
  <1>1. IInv => ImportedIsPublished
    BY Zenon DEF IInv, Importing
  <1> QED
    BY Invariance, <1>1, PTL

\* What a step may do to a file.
Rewrites == \A id \in Ids : file'[id] # file[id] /\ pc # "copying" /\ file'[id] # Broken
                               => SameWorkflow(file[id].w, file'[id].w)

\* Only the two rewriting loops change a file outside the copying, and they keep it.
LEMMA StepRewrites == IInv /\ [Next]_vars => [Rewrites]_vars
  <1> SUFFICES ASSUME IInv, Next PROVE Rewrites
    BY Zenon DEF vars
  <1> USE DEF Rewrites
  <1>0. TypeOK /\ Loops /\ file \in [Ids -> Contents \union {NoFile, Broken}]
    BY Zenon DEF IInv, TypeOK
  <1>1. CASE UNCHANGED file
    BY <1>1, Zenon
  <1>2. ASSUME NEW id \in Ids, SanitizeFile(id) PROVE Rewrites
    <2>1. CASE file[id] = Broken \/ find_secret_matches(file[id].w)
      BY <1>2, <2>1, Zenon DEF SanitizeFile
    <2>2. CASE ~(file[id] = Broken \/ find_secret_matches(file[id].w))
      <3>0. file[id] # NoFile
        BY <1>0, <1>2, Zenon DEF SanitizeFile, current, Loops, Dir
      <3>1. file[id] \in Contents /\ file[id].w \in Workflows
        BY <1>0, <2>2, <3>0, Zenon DEF Contents
      <3>2. SameWorkflow(file[id].w, sanitized(file[id]).w)
        BY <3>1, StripFacts, Zenon DEF sanitized
      <3> QED
        BY <1>0, <1>2, <2>2, <3>2, Zenon DEF SanitizeFile
    <2> QED
      BY <2>1, <2>2, ZenonT(60)
  <1>3. ASSUME NEW id \in Ids, SyncFile(id) PROVE Rewrites
    <2>1. CASE file[id] = Broken \/ syncFails(file[id].w, snippets)
      BY <1>3, <2>1, Zenon DEF SyncFile
    <2>2. CASE ~(file[id] = Broken \/ syncFails(file[id].w, snippets))
      <3>0. file[id] # NoFile
        BY <1>0, <1>3, Zenon DEF SyncFile, current, Loops, AllFiles
      <3>1. file[id] \in Contents
        BY <1>0, <2>2, <3>0, Zenon
      <3>2. SameWorkflow(file[id].w, synced(file[id]).w)
        BY <1>0, <2>2, <3>1, SyncedFacts, Zenon
      <3> QED
        BY <1>0, <1>3, <2>2, <3>2, Zenon DEF SyncFile
    <2> QED
      BY <2>1, <2>2, ZenonT(60)
  <1>4. ASSUME NEW id \in Ids, CopyFile(id) \/ FileError(id) PROVE Rewrites
    BY <1>0, <1>4, ZenonT(60) DEF CopyFile, FileError
  <1>5. CASE Stop
    BY <1>0, <1>5, Zenon DEF Stop
  <1> QED
    BY ZenonT(60), <1>1, <1>2, <1>3, <1>4, <1>5
    DEF Next, EditCanvas, EditSnippet, StartExport, StartSanitize, StartImport, Publish, CopyEnds, SanitizeStdin,
        SanitizeEnds, Lint, StartSync, SyncEnds, CopyIn, ImportWorkflows, PublishEnds, Done

\* Sanitising and synchronising keep the workflow in every file they rewrite.
THEOREM RewritesKeep == Spec => RewriteKeepsWorkflow
  BY Invariance, StepRewrites, PTL DEF Spec, RewriteKeepsWorkflow, Rewrites
=============================================================================
