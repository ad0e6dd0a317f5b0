SPECIFICATION Spec
CONSTANTS
    p1 = p1
    p2 = p2
    Replicas = {p1}
    Uploads <- OneFile
    NoUpload = NoUpload
    NoRow = NoRow
    Faults = {}
    MaxCrashes = 1
INVARIANT ServedIsUploaded
