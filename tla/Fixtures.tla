------------------------------- MODULE Fixtures -------------------------------
(***************************************************************************)
(* The recorded answers of the mock LLM (platform/services/mock-llm        *)
(* main.py, lookup_fixture).  A message is [dict, role, content, extra]:   *)
(* is it an object, and what it says beside role and content.  A digest is *)
(* the text that is hashed.  A fixture file is [stem, form, hash, model,   *)
(* messages, body]: form is "object", "list" (no object) or "broken" (not  *)
(* JSON); stem and hash are a digest or NoDigest; model is NoModel where   *)
(* the file has no model or no list of messages; body is [content,         *)
(* response], either of them "absent", "null" or a text.  The directory is *)
(* the sequence of its files in the order of their names.                  *)
(***************************************************************************)
EXTENDS Integers, Sequences, FiniteSetsExt

CONSTANTS NoDigest, NoModel

\* Mutant of request_hash: everything in a message counts.
request_hashAll(model, messages) == <<model, messages>>

\* sha256 over the model and, of each message, the role and the content.
request_hash(model, messages) ==
    <<model, [i \in DOMAIN messages |-> [role |-> messages[i].role, content |-> messages[i].content]]>>

_unwrap_fixture(file) ==
    IF file.form = "object" /\ file.body.content # "absent" THEN file.body.content
    ELSE IF file.form = "object" /\ file.body.response # "absent" THEN file.body.response
    ELSE "file"

typed_messages(messages) == SelectSeq(messages, LAMBDA m : m.dict)

fits(file, digest) ==
    /\ file.form = "object"
    /\ \/ file.hash = digest
       \/ file.model # NoModel /\ request_hash(file.model, typed_messages(file.messages)) = digest

\* The index of the file whose answer is used, 0 for None.  It raises at a file
\* that is not JSON, unless one that fits comes first: -1.
chosen(digest, directory) ==
    LET hashed == {i \in DOMAIN directory : directory[i].stem = digest}
        stop == {i \in DOMAIN directory : directory[i].form = "broken" \/ fits(directory[i], digest)}
        n == IF hashed # {} THEN Min(hashed) ELSE IF stop # {} THEN Min(stop) ELSE 0
    IN  IF n # 0 /\ directory[n].form = "broken" THEN -1 ELSE n

\* What chat_completions answers in normal mode.
completion(model, messages, directory) ==
    LET n == chosen(request_hash(model, messages), directory)
    IN  IF n = -1 THEN [code |-> 500, content |-> "none"]
        ELSE [code |-> 200, content |-> IF n = 0 \/ _unwrap_fixture(directory[n]) = "null" THEN "default"
                                        ELSE _unwrap_fixture(directory[n])]
=============================================================================
