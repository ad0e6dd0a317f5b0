CONSTANTS
    Ids = {1, 2, 3}
    Projects = {"p01", "p02"}
    Project <- MCProject
    Drafts <- MCDrafts
    Names = {"a"}
    Texts <- MCTexts
    Missing = Missing
    NoSnippet = NoSnippet
    NoFile = NoFile
    Broken = Broken
    MaxEdits = 2
    MaxJobs = 3
    MaxFaults = 1
SPECIFICATION Spec
INVARIANTS TypeOK ExportedIsClean SyncedPassesLint 
PROPERTY RewriteKeepsWorkflow
CHECK_DEADLOCK FALSE
