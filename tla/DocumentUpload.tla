---------------------------- MODULE DocumentUpload ----------------------------
(***************************************************************************)
(* The p02 doc-service's upload path (main.py upload_document, storage.py  *)
(* FilesystemStorage, documents.py PostgresDocuments, intake.py            *)
(* HttpIntake) and file download, for replicas that share the files volume *)
(* and the database.                                                       *)
(*                                                                         *)
(* upload_document never awaits after it has read the body, so a replica's *)
(* event loop runs one upload at a time from the checks to the answer; the *)
(* replicas interleave, and get_file runs in threads of its own.           *)
(*                                                                         *)
(* A body is [tag, size, magic]; its sha256 is idealised as its tag (two   *)
(* bodies with one tag are the same bytes).  An upload is [present, body,  *)
(* name, suffix]: is there a file part, its bytes, the file's name and the *)
(* type that the name's extension stands for ("other" if for none).        *)
(***************************************************************************)
EXTENDS Naturals

CONSTANTS Replicas,
          Uploads,        \* the uploads clients send, and send again
          NoUpload, NoRow,
          Faults,         \* what may fail: a subset of {"disk", "database", "webhook"}
          MaxCrashes      \* bound on the number of crashes

ASSUME BoundsAssumption == MaxCrashes \in Nat /\ Faults \subseteq {"disk", "database", "webhook"}

MAX_UPLOAD_BYTES == 10 * 1024 * 1024

VARIABLES pc, upload, status,   \* per replica: where upload_document is, its request, its answer
          file,                 \* the files volume by digest: "absent", "partial" or "whole"
          row,                  \* p02.documents by sha256
          intake,               \* how often the intake webhook has received a digest
          acked,                \* digests whose client has seen a 200 or 201
          torn,                 \* digests that get_file has answered with other than the uploaded bytes
          crashes

localVars == <<pc, upload, status>>
vars == <<pc, upload, status, file, row, intake, acked, torn, crashes>>

\* detect_mime and filename_matches_mime.
Mimes == {"pdf", "png", "jpeg"}
detect_mime(body) == IF body.magic \in Mimes THEN body.magic ELSE "none"
filename_matches_mime(suffix, mime) == suffix \in Mimes => suffix = mime

\* Mutant of uploadStatus: the limit is off by one.
uploadStatusLoose(u) == IF ~u.present THEN 400
                        ELSE IF u.body.size > MAX_UPLOAD_BYTES + 1 THEN 413
                        ELSE IF u.body.size = 0 THEN 400
                        ELSE IF detect_mime(u.body) = "none" THEN 415
                        ELSE IF ~filename_matches_mime(u.suffix, detect_mime(u.body)) THEN 415
                        ELSE 0

\* The checks of upload_document, in their order; 0 goes on to the storage.
uploadStatus(u) == IF ~u.present THEN 400
                   ELSE IF u.body.size > MAX_UPLOAD_BYTES THEN 413
                   ELSE IF u.body.size = 0 THEN 400
                   ELSE IF detect_mime(u.body) = "none" THEN 415
                   ELSE IF ~filename_matches_mime(u.suffix, detect_mime(u.body)) THEN 415
                   ELSE 0

\* The row documents.put writes, and the table's CHECK constraints on it.
NewDocument(u) == [name |-> u.name, mime |-> detect_mime(u.body), size |-> u.body.size]
SatisfiesChecks(r) == r.mime \in Mimes /\ r.size > 0 /\ r.size <= 10485760

Digests == {u.body.tag : u \in Uploads}
Rows == {NewDocument(u) : u \in Uploads}
Statuses == {0, 200, 201, 400, 413, 415, 500}

ASSUME TypesAssumption == /\ NoRow \notin Rows /\ NoUpload \notin Uploads
                          /\ \A u \in Uploads : u.body.size \in Nat

TypeOK == /\ pc \in [Replicas -> {"idle", "checking", "storing", "opening", "writing",
                                  "inserting", "notifying", "responding"}]
          /\ upload \in [Replicas -> Uploads \union {NoUpload}]
          /\ status \in [Replicas -> Statuses]
          /\ file \in [Digests -> {"absent", "partial", "whole"}]
          /\ row \in [Digests -> Rows \union {NoRow}]
          /\ intake \in [Digests -> Nat]
          /\ acked \subseteq Digests
          /\ torn \subseteq Digests
          /\ crashes \in 0..MaxCrashes

Init == /\ pc = [p \in Replicas |-> "idle"]
        /\ upload = [p \in Replicas |-> NoUpload]
        /\ status = [p \in Replicas |-> 0]
        /\ file = [d \in Digests |-> "absent"]
        /\ row = [d \in Digests |-> NoRow]
        /\ intake = [d \in Digests |-> 0]
        /\ acked = {}
        /\ torn = {}
        /\ crashes = 0

-----------------------------------------------------------------------------
digest(p) == upload[p].body.tag

goto(p, l) == pc' = [pc EXCEPT ![p] = l] /\ UNCHANGED <<upload, status>>

answer(p, code) == /\ pc' = [pc EXCEPT ![p] = "responding"]
                   /\ status' = [status EXCEPT ![p] = code]
                   /\ UNCHANGED upload

\* A client sends u, for the first time or again.
Upload(p, u) == /\ pc[p] = "idle"
                /\ pc' = [pc EXCEPT ![p] = "checking"]
                /\ upload' = [upload EXCEPT ![p] = u]
                /\ UNCHANGED <<status, file, row, intake, acked, torn, crashes>>

Check(p) == LET code == uploadStatus(upload[p])
            IN  /\ pc[p] = "checking"
                /\ IF code = 0 THEN goto(p, "storing") ELSE answer(p, code)
                /\ UNCHANGED <<file, row, intake, acked, torn, crashes>>

\* Mutants of Stat: the row is written before the file; the status is one that
\* upload_document never gives.
StatSkipsFile(p) == /\ pc[p] = "storing"
                    /\ goto(p, IF file[digest(p)] = "absent" THEN "inserting" ELSE "opening")
                    /\ UNCHANGED <<file, row, intake, acked, torn, crashes>>

StatRefuses(p) == /\ pc[p] = "storing"
                  /\ IF file[digest(p)] = "absent" THEN goto(p, "opening") ELSE answer(p, 409)
                  /\ UNCHANGED <<file, row, intake, acked, torn, crashes>>

\* FilesystemStorage.put: dest.exists().
Stat(p) == /\ pc[p] = "storing"
           /\ goto(p, IF file[digest(p)] = "absent" THEN "opening" ELSE "inserting")
           /\ UNCHANGED <<file, row, intake, acked, torn, crashes>>

\* write_bytes opens the file, which creates or truncates it ...
Open(p) == /\ pc[p] = "opening"
           /\ file' = [file EXCEPT ![digest(p)] = "partial"]
           /\ goto(p, "writing")
           /\ UNCHANGED <<row, intake, acked, torn, crashes>>

\* ... and writes the bytes.
Write(p) == /\ pc[p] = "writing"
            /\ file' = [file EXCEPT ![digest(p)] = "whole"]
            /\ goto(p, "inserting")
            /\ UNCHANGED <<row, intake, acked, torn, crashes>>

\* OSError (disk full) in write_bytes: unhandled_error answers 500, and the
\* file stays as it is.
WriteFails(p) == /\ "disk" \in Faults
                 /\ pc[p] = "writing"
                 /\ answer(p, 500)
                 /\ UNCHANGED <<file, row, intake, acked, torn, crashes>>

\* Mutant of insertRow: ON CONFLICT DO UPDATE.
insertRowUpsert(d, r) == row' = [row EXCEPT ![d] = r]

\* INSERT ... ON CONFLICT (sha256) DO NOTHING.
insertRow(d, r) == row' = IF row[d] = NoRow THEN [row EXCEPT ![d] = r] ELSE row

\* Mutant of Insert: a duplicate is announced as well.
InsertAnnouncesAll(p) == /\ pc[p] = "inserting"
                         /\ SatisfiesChecks(NewDocument(upload[p]))
                         /\ insertRow(digest(p), NewDocument(upload[p]))
                         /\ goto(p, "notifying")
                         /\ UNCHANGED <<file, intake, acked, torn, crashes>>

\* PostgresDocuments.put: a new row is announced, an existing one returned as
\* deduplicated with 200.
Insert(p) == LET d == digest(p)
             IN  /\ pc[p] = "inserting"
                 /\ SatisfiesChecks(NewDocument(upload[p]))
                 /\ insertRow(d, NewDocument(upload[p]))
                 /\ IF row[d] = NoRow
                    THEN goto(p, "notifying")
                    ELSE answer(p, 200)
                 /\ UNCHANGED <<file, intake, acked, torn, crashes>>

\* psycopg.Error or a CHECK violation becomes a 500.  When the connection
\* breaks during conn.commit() the row may be there nevertheless.
InsertFails(p) == /\ pc[p] = "inserting"
                  /\ "database" \in Faults \/ ~SatisfiesChecks(NewDocument(upload[p]))
                  /\ \/ SatisfiesChecks(NewDocument(upload[p])) /\ insertRow(digest(p), NewDocument(upload[p]))
                     \/ UNCHANGED row
                  /\ answer(p, 500)
                  /\ UNCHANGED <<file, intake, acked, torn, crashes>>

receive(p) == intake' = [intake EXCEPT ![digest(p)] = @ + 1]

\* HttpIntake.notify: one POST; every httpx.HTTPError is logged and dropped,
\* whether or not the workflow got the message.
Notify(p) == /\ pc[p] = "notifying"
             /\ receive(p) \/ ("webhook" \in Faults /\ UNCHANGED intake)
             /\ answer(p, 201)
             /\ UNCHANGED <<file, row, acked, torn, crashes>>

\* The client gets the answer, or has gone away.
Respond(p) == /\ pc[p] = "responding"
              /\ acked' = IF status[p] \in {200, 201} THEN acked \union {digest(p)} ELSE acked
              /\ pc' = [pc EXCEPT ![p] = "idle"]
              /\ upload' = [upload EXCEPT ![p] = NoUpload]
              /\ status' = [status EXCEPT ![p] = 0]
              /\ UNCHANGED <<file, row, intake, torn, crashes>>

\* get_file: the row's storage_path is read, whatever the file holds by then; a
\* missing file is a 404.
GetFile(d) == /\ row[d] # NoRow
              /\ file[d] # "absent"
              /\ torn' = IF file[d] = "whole" THEN torn ELSE torn \union {d}
              /\ UNCHANGED <<localVars, file, row, intake, acked, crashes>>

\* A replica dies and restarts.  Its INSERT may have been committed, its
\* webhook call may have been received.
Crash(p) == /\ crashes < MaxCrashes
            /\ pc[p] # "idle"
            /\ crashes' = crashes + 1
            /\ pc' = [pc EXCEPT ![p] = "idle"]
            /\ upload' = [upload EXCEPT ![p] = NoUpload]
            /\ status' = [status EXCEPT ![p] = 0]
            /\ \/ UNCHANGED <<row, intake>>
               \/ /\ pc[p] = "inserting" /\ SatisfiesChecks(NewDocument(upload[p]))
                  /\ insertRow(digest(p), NewDocument(upload[p])) /\ UNCHANGED intake
               \/ pc[p] = "notifying" /\ receive(p) /\ UNCHANGED row
            /\ UNCHANGED <<file, acked, torn>>

Next == \/ \E p \in Replicas : \/ \E u \in Uploads : Upload(p, u)
                               \/ Check(p) \/ Stat(p) \/ Open(p) \/ Write(p) \/ WriteFails(p)
                               \/ Insert(p) \/ InsertFails(p) \/ Notify(p) \/ Respond(p)
                               \/ Crash(p)
        \/ \E d \in Digests : GetFile(d)

Spec == Init /\ [][Next]_vars

-----------------------------------------------------------------------------
\* A recorded or acknowledged document has a file, whichever of storage,
\* database, webhook and process failed on the way (storage.put comes before
\* documents.put, documents.put before the answer).
RecordedHasFile == /\ \A d \in Digests : row[d] # NoRow => file[d] # "absent"
                   /\ \A d \in acked : row[d] # NoRow

\* An upload that the handler lets through never trips over the table's CHECK
\* constraints on mime_type and size_bytes, at the size limit included.
AcceptedFitsTable == \A p \in Replicas :
    pc[p] \in {"storing", "opening", "writing", "inserting"} => SatisfiesChecks(NewDocument(upload[p]))

\* The intake workflow is started at most once per file, however often, under
\* whatever names and on whichever replicas it is uploaded (only the INSERT that
\* made the row is followed by notify).
IntakeAtMostOnce == \A d \in Digests : intake[d] <= 1

\* A download returns the uploaded bytes.
ServedIsUploaded == torn = {}

\* doc-service implements WriteOnce: the first row of a digest is final, and the
\* intake workflow is told only of recorded documents.
Told == {d \in Digests : intake[d] > 0}
Register == INSTANCE WriteOnce WITH Keys <- Digests, stored <- row, told <- Told
DocumentIsFinal == Register!Spec
=============================================================================
