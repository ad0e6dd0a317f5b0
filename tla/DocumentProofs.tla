--------------------------- MODULE DocumentProofs ---------------------------
(***************************************************************************)
(* Proofs about the documents of P02: their upload (DocumentUpload), for   *)
(* any replicas, uploads, faults and any number of crashes; and the        *)
(* recorded answers to what the LLM is asked about them (Fixtures), for    *)
(* any questions and any directories.                                      *)
(***************************************************************************)
EXTENDS DocumentUpload, MCFixtures, TLAPS

\* What a replica's step says about the file, the row and the webhook.  A replica
\* that is about to notify is the only one for its digest: it made the row.
Local(p) ==
    /\ pc[p] # "idle" => upload[p] \in Uploads
    /\ pc[p] \in {"storing", "opening", "writing", "inserting"} => SatisfiesChecks(NewDocument(upload[p]))
    /\ pc[p] \in {"writing", "inserting"} => file[digest(p)] # "absent"
    /\ pc[p] = "notifying" => row[digest(p)] # NoRow /\ intake[digest(p)] = 0
    /\ pc[p] = "responding" /\ status[p] \in {200, 201} => row[digest(p)] # NoRow

Sole == \A p, q \in Replicas : pc[p] = "notifying" /\ pc[q] = "notifying" /\ digest(p) = digest(q) => p = q

Shared == /\ \A d \in Digests : row[d] # NoRow => file[d] # "absent"
          /\ \A d \in acked : row[d] # NoRow
          /\ \A d \in Digests : intake[d] <= 1 /\ (intake[d] > 0 => row[d] # NoRow)

\* The inductive invariant.
IInv == TypeOK /\ (\A p \in Replicas : Local(p)) /\ Sole /\ Shared

\* The model's uploads have digests, and rows of the table's type.
LEMMA UploadTypes ==
    ASSUME NEW u \in Uploads
    PROVE  u.body.tag \in Digests /\ NewDocument(u) \in Rows /\ NewDocument(u) # NoRow
  BY TypesAssumption DEF Digests, Rows

\* What upload_document lets through satisfies the CHECK constraints of the table.
LEMMA CheckedFits ==
    ASSUME NEW u \in Uploads, uploadStatus(u) = 0
    PROVE  SatisfiesChecks(NewDocument(u))
  BY TypesAssumption DEF uploadStatus, SatisfiesChecks, NewDocument, detect_mime, Mimes, MAX_UPLOAD_BYTES

\* The other outcomes of the checks are the statuses of upload_document, none a 2xx.
LEMMA CheckStatuses == \A u : uploadStatus(u) \in {0, 400, 413, 415}
  BY DEF uploadStatus

\* ON CONFLICT DO NOTHING: the digest has a row, every row that was there stays, and
\* the others are as they were.
LEMMA InsertRowFacts ==
    ASSUME TypeOK, NEW d \in Digests, NEW r \in Rows, insertRow(d, r)
    PROVE  /\ row' \in [Digests -> Rows \union {NoRow}]
           /\ row'[d] # NoRow
           /\ \A e \in Digests : (row[e] # NoRow => row'[e] = row[e]) /\ (e # d => row'[e] = row[e])
  BY TypesAssumption DEF TypeOK, insertRow

\* The initial state satisfies the invariant.
LEMMA InitIInv == Init => IInv
  BY BoundsAssumption DEF Init, IInv, TypeOK, Local, Sole, Shared, Statuses

\* Steps before the storage, and the answer.
LEMMA FrontIInv ==
    ASSUME IInv, NEW p \in Replicas, (\E u \in Uploads : Upload(p, u)) \/ Check(p) \/ Respond(p)
    PROVE  IInv'
  <1> USE DEF IInv, TypeOK, Local, Sole, Shared, digest
  <1>1. ASSUME NEW u \in Uploads, Upload(p, u) PROVE IInv'
    BY <1>1 DEF Upload
  <1>2. CASE Check(p)
    <2>1. upload[p] \in Uploads
      BY <1>2 DEF Check
    <2>2. CASE uploadStatus(upload[p]) = 0
      BY <1>2, <2>1, <2>2, CheckedFits DEF Check, goto
    <2>3. CASE uploadStatus(upload[p]) # 0
      <3>1. uploadStatus(upload[p]) \in {400, 413, 415}
        BY <2>3, CheckStatuses
      <3> QED
        BY <1>2, <2>1, <2>3, <3>1 DEF Check, answer, Statuses
    <2> QED
      BY <2>2, <2>3
  <1>3. CASE Respond(p)
    <2>1. upload[p].body.tag \in Digests
      BY <1>3, UploadTypes, ZenonT(60) DEF Respond
    <2> QED
      BY <1>3, <2>1 DEF Respond, Statuses
  <1> QED
    BY <1>1, <1>2, <1>3, Zenon

\* The steps of FilesystemStorage.put.
LEMMA StorageIInv ==
    ASSUME IInv, NEW p \in Replicas, Stat(p) \/ Open(p) \/ Write(p) \/ WriteFails(p)
    PROVE  IInv'
  <1> USE DEF IInv, TypeOK, Local, Sole, Shared, digest
  <1>1. pc[p] \in {"storing", "opening", "writing"} /\ upload[p] \in Uploads /\ upload[p].body.tag \in Digests
    BY UploadTypes, Zenon DEF Stat, Open, Write, WriteFails
  <1>2. CASE Stat(p)
    BY <1>1, <1>2 DEF Stat, goto
  <1>3. CASE Open(p)
    BY <1>1, <1>3 DEF Open, goto
  <1>4. CASE Write(p)
    BY <1>1, <1>4 DEF Write, goto
  <1>5. CASE WriteFails(p)
    BY <1>1, <1>5 DEF WriteFails, answer, Statuses
  <1> QED
    BY <1>2, <1>3, <1>4, <1>5

\* The INSERT, whether it succeeds, is a duplicate, or fails with unknown outcome.
LEMMA InsertIInv ==
    ASSUME IInv, NEW p \in Replicas, Insert(p) \/ InsertFails(p)
    PROVE  IInv'
  <1> USE DEF IInv, TypeOK, Local, Sole, Shared, digest
  <1>0. \A q \in Replicas : pc[q] # "idle" => upload[q] \in Uploads /\ upload[q].body.tag \in Digests
    BY UploadTypes
  <1>1. pc[p] = "inserting" /\ upload[p] \in Uploads /\ upload[p].body.tag \in Digests
           /\ NewDocument(upload[p]) \in Rows
    BY UploadTypes, Zenon DEF Insert, InsertFails
  <1>2. CASE Insert(p)
    <2>1. insertRow(digest(p), NewDocument(upload[p]))
      BY <1>2 DEF Insert
    <2>2. /\ row' \in [Digests -> Rows \union {NoRow}] /\ row'[digest(p)] # NoRow
          /\ \A e \in Digests : (row[e] # NoRow => row'[e] = row[e]) /\ (e # digest(p) => row'[e] = row[e])
      BY <1>1, <2>1, InsertRowFacts, Zenon
    <2>3. CASE row[digest(p)] = NoRow
      <3>1. TypeOK' /\ Shared'
        BY <1>1, <1>2, <2>2, <2>3 DEF Insert, goto
      <3>2. ASSUME NEW q \in Replicas PROVE Local(q)'
        BY <1>0, <1>1, <1>2, <2>2, <2>3 DEF Insert, goto
      <3>3. Sole'
        BY <1>0, <1>1, <1>2, <2>2, <2>3, SMTT(60), Z3 DEF Insert, goto
      <3> QED
        BY <3>1, <3>2, <3>3, Zenon
    <2>4. CASE row[digest(p)] # NoRow
      BY <1>1, <1>2, <2>2, <2>4 DEF Insert, answer, Statuses
    <2> QED
      BY <2>3, <2>4
  <1>3. CASE InsertFails(p)
    <2>1. /\ row' \in [Digests -> Rows \union {NoRow}]
          /\ \A e \in Digests : (row[e] # NoRow => row'[e] = row[e]) /\ (e # digest(p) => row'[e] = row[e])
      BY <1>1, <1>3, InsertRowFacts, Zenon DEF InsertFails
    <2> QED
      BY <1>0, <1>1, <1>3, <2>1 DEF InsertFails, answer, Statuses
  <1> QED
    BY <1>2, <1>3

\* The POST to the intake, received or not.
LEMMA NotifyIInv == ASSUME IInv, NEW p \in Replicas, Notify(p) PROVE IInv'
  <1> USE DEF IInv, TypeOK, Local, Sole, Shared, digest
  <1>1. pc[p] = "notifying" /\ upload[p] \in Uploads /\ upload[p].body.tag \in Digests
    BY UploadTypes DEF Notify
  <1>2. \A q \in Replicas : q # p /\ pc[q] = "notifying" => upload[q] \in Uploads /\ upload[q].body.tag \in Digests
    BY UploadTypes
  <1> QED
    BY <1>1, <1>2, SMTT(20) DEF Notify, answer, receive, Statuses

\* A crash at any step.
LEMMA CrashIInv == ASSUME IInv, NEW p \in Replicas, Crash(p) PROVE IInv'
  <1> USE DEF IInv, TypeOK, Local, Sole, Shared, digest
  <1>0. \A q \in Replicas : pc[q] # "idle" => upload[q] \in Uploads /\ upload[q].body.tag \in Digests
    BY UploadTypes
  <1>1. upload[p] \in Uploads /\ upload[p].body.tag \in Digests /\ NewDocument(upload[p]) \in Rows
    BY UploadTypes DEF Crash
  <1>2. crashes' \in 0..MaxCrashes
    BY BoundsAssumption DEF Crash
  <1>3. CASE UNCHANGED <<row, intake>>
    BY <1>1, <1>2, <1>3, SMTT(60) DEF Crash, Statuses
  <1>4. CASE pc[p] = "inserting" /\ insertRow(digest(p), NewDocument(upload[p])) /\ UNCHANGED intake
    <2>1. /\ row' \in [Digests -> Rows \union {NoRow}]
          /\ \A e \in Digests : (row[e] # NoRow => row'[e] = row[e]) /\ (e # digest(p) => row'[e] = row[e])
      BY <1>1, <1>4, InsertRowFacts, Zenon
    <2> QED
      BY <1>0, <1>1, <1>2, <1>4, <2>1, SMTT(20) DEF Crash, Statuses
  <1>5. CASE pc[p] = "notifying" /\ receive(p) /\ UNCHANGED row
    BY <1>1, <1>2, <1>5, UploadTypes, SMTT(20) DEF Crash, receive, Statuses
  <1> QED
    BY <1>3, <1>4, <1>5, Zenon DEF Crash

\* The invariant is inductive.
LEMMA NextIInv == IInv /\ [Next]_vars => IInv'
  <1> SUFFICES ASSUME IInv, [Next]_vars PROVE IInv'
    BY Zenon
  <1>1. ASSUME NEW d \in Digests, GetFile(d) PROVE IInv'
    BY <1>1, ZenonT(60) DEF IInv, TypeOK, Local, Sole, Shared, digest, GetFile, localVars
  <1>2. CASE UNCHANGED vars
    BY <1>2 DEF IInv, TypeOK, Local, Sole, Shared, digest, vars
  <1> QED
    BY <1>1, <1>2, FrontIInv, StorageIInv, InsertIInv, NotifyIInv, CrashIInv DEF Next

\* The invariant holds throughout.
LEMMA Invariance == Spec => []IInv
  BY InitIInv, NextIInv, PTL DEF Spec

-----------------------------------------------------------------------------
\* Every variable of doc-service keeps its type.
THEOREM TypeCorrect == Spec => []TypeOK
  <1>1. IInv => TypeOK
    BY DEF IInv
  <1> QED
    BY Invariance, <1>1, PTL

\* A recorded or acknowledged document has a file (storage.put comes first).
THEOREM FileBeforeRow == Spec => []RecordedHasFile
  <1>1. IInv => RecordedHasFile
    BY Zenon DEF IInv, Shared, RecordedHasFile
  <1> QED
    BY Invariance, <1>1, PTL

\* What the handler lets through fits the CHECK constraints of p02.documents.
THEOREM ChecksAgree == Spec => []AcceptedFitsTable
  <1>1. IInv => AcceptedFitsTable
    BY DEF IInv, Local, AcceptedFitsTable
  <1> QED
    BY Invariance, <1>1, PTL

\* The intake workflow hears of a file at most once (notify follows a new row only).
THEOREM AtMostOneIntake == Spec => []IntakeAtMostOnce
  <1>1. IInv => IntakeAtMostOnce
    BY DEF IInv, Shared, IntakeAtMostOnce
  <1> QED
    BY Invariance, <1>1, PTL

\* A step that inserts is a Record of the abstract register or leaves it alone.
LEMMA InsertImplements ==
    ASSUME IInv, NEW d \in Digests, NEW r \in Rows, insertRow(d, r), UNCHANGED intake
    PROVE  [Register!Next]_<<row, Told>>
  BY DEF insertRow, Register!Next, Register!Record, Told

\* A step that posts is a Tell of the abstract register.
LEMMA ReceiveImplements ==
    ASSUME IInv, NEW p \in Replicas, pc[p] = "notifying", receive(p), UNCHANGED row
    PROVE  [Register!Next]_<<row, Told>>
  <1>1. upload[p] \in Uploads /\ digest(p) \in Digests
    BY UploadTypes DEF IInv, Local, digest
  <1>2. row[digest(p)] # NoRow /\ intake[digest(p)] = 0 /\ intake \in [Digests -> Nat]
    BY <1>1 DEF IInv, Local, TypeOK
  <1>3. \A e \in Digests : intake'[e] > 0 <=> intake[e] > 0 \/ e = digest(p)
    BY <1>1, <1>2 DEF receive
  <1>4. Told' = Told \union {digest(p)}
    BY <1>1, <1>3 DEF Told
  <1>5. Register!Tell(digest(p))
    BY <1>2, <1>4, ZenonT(60) DEF Register!Tell, Told
  <1> QED
    BY <1>1, <1>5 DEF Register!Next

\* Every step implements a step of the register, or a stutter.
LEMMA StepImplements ==
    IInv /\ [Next]_vars => [Register!Next]_<<row, Told>>
  <1> SUFFICES ASSUME IInv, [Next]_vars PROVE [Register!Next]_<<row, Told>>
    OBVIOUS
  <1>1. CASE UNCHANGED <<row, intake>>
    BY <1>1 DEF Told
  <1>2. ASSUME NEW p \in Replicas, pc[p] = "inserting", UNCHANGED intake,
               insertRow(digest(p), NewDocument(upload[p]))
        PROVE  [Register!Next]_<<row, Told>>
    <2>1. digest(p) \in Digests /\ NewDocument(upload[p]) \in Rows
      BY <1>2, UploadTypes DEF IInv, Local, digest
    <2> QED
      BY <1>2, <2>1, InsertImplements, Zenon
  <1>3. ASSUME NEW p \in Replicas, pc[p] = "notifying", receive(p), UNCHANGED row
        PROVE  [Register!Next]_<<row, Told>>
    BY <1>3, ReceiveImplements
  <1> QED
    BY <1>1, <1>2, <1>3, SMTT(20) DEF Next, vars, Upload, Check, Stat, Open, Write, WriteFails, Insert, InsertFails,
       Notify, Respond, Crash, GetFile

\* doc-service implements WriteOnce: the first row of a digest is final, and the
\* intake workflow is told only of recorded documents.
THEOREM Refinement == Spec => DocumentIsFinal
  <1>1. Init => Register!Init
    BY DEF Init, Register!Init, Told
  <1> QED
    BY <1>1, Invariance, StepImplements, PTL DEF Spec, DocumentIsFinal, Register!Spec, Told

-----------------------------------------------------------------------------
\* The files of d that are recorded for q, as RecordedFor has them of files.
Hits(q, d) ==
    {i \in DOMAIN d :
        \/ d[i].stem = DigestOf(q)
        \/ d[i].form = "object" /\ d[i].hash = DigestOf(q)
        \/ /\ d[i].form = "object" /\ d[i].model = q.model
           /\ Said(typed_messages(d[i].messages)) = Said(q.messages)}

\* Two conversations have one digest when they say the same to the same model.
LEMMA SameDigest ==
  ASSUME NEW m, NEW s, NEW k, NEW t
  PROVE  request_hash(m, s) = request_hash(k, t) <=> m = k /\ Said(s) = Said(t)
<1> DEFINE hs == [i \in DOMAIN s |-> [role |-> s[i].role, content |-> s[i].content]]
           ht == [i \in DOMAIN t |-> [role |-> t[i].role, content |-> t[i].content]]
<1>1. hs = ht => Said(s) = Said(t)
  <2> SUFFICES ASSUME hs = ht PROVE Said(s) = Said(t)
    OBVIOUS
  <2>1. DOMAIN s = DOMAIN t
    <3>1. DOMAIN hs = DOMAIN s /\ DOMAIN ht = DOMAIN t
      OBVIOUS
    <3> HIDE DEF hs, ht
    <3> QED BY <3>1
  <2>2. ASSUME NEW i \in DOMAIN s PROVE s[i].role = t[i].role /\ s[i].content = t[i].content
    <3>1. hs[i] = [role |-> s[i].role, content |-> s[i].content] /\ ht[i] = [role |-> t[i].role, content |-> t[i].content]
      BY <2>1
    <3>2. hs[i].role = s[i].role /\ hs[i].content = s[i].content /\ ht[i].role = t[i].role /\ ht[i].content = t[i].content
      BY <3>1
    <3> HIDE DEF hs, ht
    <3> QED BY <3>2
  <2> QED BY <2>1, <2>2 DEF Said
<1>2. Said(s) = Said(t) => hs = ht
  <2> SUFFICES ASSUME Said(s) = Said(t) PROVE hs = ht
    OBVIOUS
  <2> DEFINE a == Said(s)
             b == Said(t)
  <2>1. /\ DOMAIN a = DOMAIN s /\ \A i \in DOMAIN s : a[i] = <<s[i].role, s[i].content>>
        /\ DOMAIN b = DOMAIN t /\ \A i \in DOMAIN t : b[i] = <<t[i].role, t[i].content>>
    BY DEF Said
  <2> HIDE DEF a, b
  <2>2. a = b
    BY DEF a, b
  <2>3. DOMAIN s = DOMAIN t
    BY <2>1, <2>2
  <2>4. ASSUME NEW i \in DOMAIN s PROVE s[i].role = t[i].role /\ s[i].content = t[i].content
    <3>1. <<s[i].role, s[i].content>> = <<t[i].role, t[i].content>>
      BY <2>1, <2>2, <2>3
    <3> QED BY <3>1
  <2> QED BY <2>3, <2>4
<1> HIDE DEF hs, ht
<1>3. request_hash(m, s) = <<m, hs>> /\ request_hash(k, t) = <<k, ht>>
  BY DEF request_hash, hs, ht
<1> QED
  BY <1>1, <1>2, <1>3

\* lookup_fixture looks for just these.
LEMMA HitsAre ==
  ASSUME NEW q \in Questions, NEW d
  PROVE  Hits(q, d) = {i \in DOMAIN d : d[i].stem = DigestOf(q) \/ fits(d[i], DigestOf(q))}
<1>1. q.model # NoModel
  BY FixturesAssumption
<1>2. ASSUME NEW f
      PROVE  f.model # NoModel /\ request_hash(f.model, typed_messages(f.messages)) = DigestOf(q)
             <=> f.model = q.model /\ Said(typed_messages(f.messages)) = Said(q.messages)
  BY <1>1, SameDigest DEF DigestOf
<1>3. ASSUME NEW f
      PROVE  fits(f, DigestOf(q)) <=>
                 \/ f.form = "object" /\ f.hash = DigestOf(q)
                 \/ f.form = "object" /\ f.model = q.model /\ Said(typed_messages(f.messages)) = Said(q.messages)
  BY <1>2 DEF fits
<1> QED
  BY <1>3, Zenon DEF Hits

\* The answer that a file gives.
AnswerOf(f) == [code |-> 200, content |-> IF _unwrap_fixture(f) = "null" THEN "default" ELSE _unwrap_fixture(f)]

\* The least of one number.
LEMMA MinOne == \A i \in Int : Min({i}) = i
BY DEF Min

\* Where no file is broken and one is recorded for the question, or none is.
LEMMA OneRecorded ==
  ASSUME NEW q \in Questions, NEW d, DOMAIN d \subseteq Nat \ {0}, \A i \in DOMAIN d : d[i].form # "broken"
  PROVE  /\ Hits(q, d) = {} => completion(q.model, q.messages, d) = NoReply
         /\ \A i \in DOMAIN d : Hits(q, d) = {i} => completion(q.model, q.messages, d) = AnswerOf(d[i])
<1> DEFINE g == DigestOf(q)
           hashed == {i \in DOMAIN d : d[i].stem = g}
           stop == {i \in DOMAIN d : d[i].form = "broken" \/ fits(d[i], g)}
           n == IF hashed # {} THEN Min(hashed) ELSE IF stop # {} THEN Min(stop) ELSE 0
           answered(x) == IF x = -1 THEN [code |-> 500, content |-> "none"]
                        ELSE [code |-> 200, content |-> IF x = 0 \/ _unwrap_fixture(d[x]) = "null" THEN "default"
                                                        ELSE _unwrap_fixture(d[x])]
<1>1. Hits(q, d) = hashed \union stop
  BY HitsAre, SMTT(60)
<1>2. completion(q.model, q.messages, d) = answered(IF n # 0 /\ d[n].form = "broken" THEN -1 ELSE n)
  BY ZenonT(60) DEF completion, chosen, DigestOf
<1>3. CASE Hits(q, d) = {}
  <2>1. n = 0
    BY <1>1, <1>3
  <2> HIDE DEF n
  <2>2. completion(q.model, q.messages, d) = answered(0)
    BY <1>2, <2>1
  <2> QED BY <1>3, <2>2 DEF NoReply
<1>4. ASSUME NEW i \in DOMAIN d, Hits(q, d) = {i} PROVE completion(q.model, q.messages, d) = AnswerOf(d[i])
  <2>1. i \in Int /\ i # 0 /\ i # -1
    OBVIOUS
  <2>2. hashed = {i} \/ (hashed = {} /\ stop = {i})
    BY <1>1, <1>4
  <2>3. n = i
    <3> HIDE DEF hashed, stop
    <3> QED BY <2>1, <2>2, MinOne
  <2> HIDE DEF n
  <2>4. completion(q.model, q.messages, d) = answered(i)
    BY <1>2, <2>3
  <2> QED BY <2>1, <2>4 DEF AnswerOf
<1> QED
  BY <1>3, <1>4

\* In another order the same files are recorded.
LEMMA ReorderedHits ==
  ASSUME NEW q \in Questions, NEW d, DOMAIN d \subseteq Nat \ {0}, NEW e \in Reordered(d)
  PROVE  /\ DOMAIN e = DOMAIN d
         /\ (\A i \in DOMAIN d : d[i].form # "broken") => \A k \in DOMAIN e : e[k].form # "broken"
         /\ Hits(q, d) = {} => Hits(q, e) = {}
         /\ \A i \in DOMAIN d : Hits(q, d) = {i} => \E k \in DOMAIN e : Hits(q, e) = {k} /\ e[k] = d[i]
<1>1. PICK p \in Bijection(DOMAIN d, DOMAIN d) : e = [i \in DOMAIN d |-> d[p[i]]]
  BY DEF Reordered
<1>2. /\ p \in [DOMAIN d -> DOMAIN d] /\ \A a, b \in DOMAIN d : p[a] = p[b] => a = b
      /\ \A b \in DOMAIN d : \E a \in DOMAIN d : p[a] = b
  BY DEF Bijection, Injection, Surjection, IsInjective
<1>3. DOMAIN e = DOMAIN d /\ \A k \in DOMAIN d : p[k] \in DOMAIN d /\ e[k] = d[p[k]]
  BY <1>1, <1>2, Zenon
<1>4. \A k \in DOMAIN d : k \in Hits(q, e) <=> p[k] \in Hits(q, d)
  BY <1>3 DEF Hits
<1>5. Hits(q, e) \subseteq DOMAIN d
  BY <1>3 DEF Hits
<1>6. Hits(q, d) = {} => Hits(q, e) = {}
  BY <1>4, <1>5
<1>7. ASSUME NEW i \in DOMAIN d, Hits(q, d) = {i} PROVE \E k \in DOMAIN e : Hits(q, e) = {k} /\ e[k] = d[i]
  <2>1. PICK k \in DOMAIN d : p[k] = i
    BY <1>2
  <2>2. Hits(q, e) = {k}
    BY <1>2, <1>4, <1>5, <1>7, <2>1
  <2> QED BY <1>3, <2>1, <2>2
<1> QED
  BY <1>3, <1>6, <1>7

\* A question that fails has no file of its own name but one that is not JSON.
LEMMA NamedNeverFails ==
  ASSUME NEW q \in Questions, NEW d \in Directories, completion(q.model, q.messages, d).code = 500,
         NEW i \in DOMAIN d, d[i].stem = DigestOf(q)
  PROVE  d[i].form = "broken"
<1> DEFINE g == DigestOf(q)
           hashed == {j \in DOMAIN d : d[j].stem = g}
           stop == {j \in DOMAIN d : d[j].form = "broken" \/ fits(d[j], g)}
           n == IF hashed # {} THEN Min(hashed) ELSE IF stop # {} THEN Min(stop) ELSE 0
           answered(x) == IF x = -1 THEN [code |-> 500, content |-> "none"]
                        ELSE [code |-> 200, content |-> IF x = 0 \/ _unwrap_fixture(d[x]) = "null" THEN "default"
                                                        ELSE _unwrap_fixture(d[x])]
<1>1. /\ i \in Int /\ i # -1 /\ g # NoDigest
      /\ \A j \in DOMAIN d : d[j].stem = d[i].stem /\ d[j].stem # NoDigest => j = i
  BY FixturesAssumption
<1>2. hashed = {i}
  BY <1>1
<1>3. n = i
  <2> HIDE DEF hashed, stop
  <2> QED BY <1>1, <1>2, MinOne, SMTT(60)
<1>4. completion(q.model, q.messages, d) = answered(IF n # 0 /\ d[n].form = "broken" THEN -1 ELSE n)
  BY Zenon DEF completion, chosen, DigestOf
<1> HIDE DEF n
<1>5. SUFFICES ASSUME d[i].form # "broken" PROVE FALSE
  BY SMTT(60)
<1>6. completion(q.model, q.messages, d) = answered(i)
  BY <1>3, <1>4, <1>5, ZenonT(60)
<1>7. answered(i).code = 200
  BY <1>1
<1> QED
  BY <1>6, <1>7

\* Both answers are of the question asked, put to the same files in some order.
Asked ==
    phase = "recorded" =>
        /\ asked \in Questions /\ files \in Directories
        /\ given = completion(asked.model, asked.messages, files)
        /\ \E again \in Questions, e \in Reordered(files) :
              /\ again.model = asked.model /\ Said(again.messages) = Said(asked.messages)
              /\ givenAgain = completion(again.model, again.messages, e)

\* Asked holds whatever is recorded and asked (chat_completions).
LEMMA AlwaysAsked == FixtureSpec => []Asked
<1>1. FixtureInit => Asked
  BY DEF FixtureInit, Asked
<1>2. Asked /\ [FixtureNext]_<<phase, fixtureVars>> => Asked'
  <2> SUFFICES ASSUME Asked, [FixtureNext]_<<phase, fixtureVars>> PROVE Asked'
    OBVIOUS
  <2>1. ASSUME NEW q \in Questions, NEW again \in Questions, NEW d \in Directories, NEW e \in Reordered(d),
               q.model = again.model, Said(q.messages) = Said(again.messages), Ask(q, again, d, e)
        PROVE  Asked'
    <3>1. /\ asked' = q /\ files' = d /\ given' = completion(q.model, q.messages, d)
          /\ givenAgain' = completion(again.model, again.messages, e)
      BY <2>1 DEF Ask
    <3>2. asked' \in Questions /\ files' \in Directories /\ e \in Reordered(files')
      BY <3>1, Zenon
    <3>3. given' = completion(asked'.model, asked'.messages, files')
      BY <3>1, Zenon
    <3>4. again.model = asked'.model /\ Said(again.messages) = Said(asked'.messages)
      BY <2>1, <3>1, Zenon
    <3> QED BY <3>1, <3>2, <3>3, <3>4 DEF Asked
  <2>2. ASSUME FixtureDone PROVE Asked'
    BY <2>2 DEF FixtureDone, Asked
  <2>3. ASSUME UNCHANGED <<phase, fixtureVars>> PROVE Asked'
    BY <2>3 DEF fixtureVars, Asked
  <2> QED BY <2>1, <2>2, <2>3 DEF FixtureNext
<1> QED
  BY <1>1, <1>2, PTL DEF FixtureSpec

\* A recorded answer is given to the question it was recorded for, and to no other,
\* whatever the files are called, whichever way they name the question and whatever
\* the messages carry beside role and content (lookup_fixture).
THEOREM RecordedAnswersGiven == FixtureSpec => []RecordedIsAnswered
<1>1. Asked => RecordedIsAnswered
  <2> SUFFICES ASSUME Asked, phase = "recorded" PROVE RecordedIsAnswered
    BY DEF RecordedIsAnswered
  <2>1. /\ asked \in Questions /\ files \in Directories
        /\ given = completion(asked.model, asked.messages, files)
    BY DEF Asked
  <2>2. PICK again \in Questions, e \in Reordered(files) :
            /\ again.model = asked.model /\ Said(again.messages) = Said(asked.messages)
            /\ givenAgain = completion(again.model, again.messages, e)
    BY DEF Asked
  <2>3. DigestOf(again) = DigestOf(asked)
    BY <2>2, SameDigest, SMTT(60) DEF DigestOf
  <2>4. \A d : Hits(again, d) = Hits(asked, d)
    BY <2>2, <2>3 DEF Hits
  <2>5. DOMAIN files \subseteq Nat \ {0}
    BY <2>1, FixturesAssumption, SMTT(60)
  <2>6. RecordedFor(asked) = Hits(asked, files)
    BY Zenon DEF RecordedFor, Hits
  <2>7. given.code = 500 => \A i \in DOMAIN files : files[i].stem = DigestOf(asked) => files[i].form = "broken"
    BY <2>1, NamedNeverFails
  <2>8. ASSUME \A i \in DOMAIN files : files[i].form # "broken" PROVE
            /\ Hits(asked, files) = {} => given = NoReply /\ givenAgain = NoReply
            /\ \A i \in DOMAIN files : Hits(asked, files) = {i} => given = AnswerOf(files[i]) /\ givenAgain = AnswerOf(files[i])
    <3>1. DOMAIN e = DOMAIN files /\ \A k \in DOMAIN e : e[k].form # "broken"
      BY <2>1, <2>2, <2>5, <2>8, ReorderedHits
    <3>2. CASE Hits(asked, files) = {}
      <4>1. Hits(again, e) = {}
        BY <2>1, <2>2, <2>4, <2>5, <3>2, ReorderedHits, SMTT(60), Z3
      <4>2. givenAgain = NoReply
        BY <2>2, <2>5, <3>1, <4>1, OneRecorded, ZenonT(60)
      <4>3. given = NoReply
        BY <2>1, <2>5, <2>8, <3>2, OneRecorded
      <4> QED BY <3>2, <4>2, <4>3, Zenon
    <3>3. ASSUME NEW i \in DOMAIN files, Hits(asked, files) = {i}
          PROVE  given = AnswerOf(files[i]) /\ givenAgain = AnswerOf(files[i])
      <4>1. PICK k \in DOMAIN e : Hits(asked, e) = {k} /\ e[k] = files[i]
        BY <2>1, <2>2, <2>5, <3>3, ReorderedHits, SMTT(60), Z3
      <4>2. givenAgain = AnswerOf(e[k])
        BY <2>2, <2>4, <2>5, <3>1, <4>1, OneRecorded, ZenonT(60)
      <4>3. given = AnswerOf(files[i])
        BY <2>1, <2>5, <2>8, <3>3, OneRecorded, SMTT(60)
      <4> QED BY <4>1, <4>2, <4>3, Zenon
    <3> QED BY <3>2, <3>3, Zenon
  <2>9. ASSUME NEW i \in DOMAIN files PROVE
            /\ AnswerOf(files[i]).code = 200
            /\ files[i].form = "object" =>
                  /\ files[i].body.content \notin {"absent", "null"} => AnswerOf(files[i]).content = files[i].body.content
                  /\ files[i].body.content = "null" => AnswerOf(files[i]).content = "default"
                  /\ files[i].body.content = "absent" /\ files[i].body.response \notin {"absent", "null"} =>
                         AnswerOf(files[i]).content = files[i].body.response
    BY ZenonT(60) DEF AnswerOf, _unwrap_fixture
  <2>10. ASSUME \A i \in DOMAIN files : files[i].form # "broken", NEW i \in DOMAIN files, RecordedFor(asked) = {i}
         PROVE  given = AnswerOf(files[i]) /\ givenAgain = AnswerOf(files[i])
    BY <2>6, <2>8, <2>10, ZenonT(60)
  <2>11. ASSUME \A i \in DOMAIN files : files[i].form # "broken", RecordedFor(asked) = {}
         PROVE  given = NoReply /\ givenAgain = NoReply
    BY <2>6, <2>8, <2>11, Zenon
  <2> HIDE DEF AnswerOf
  <2> QED BY <2>7, <2>9, <2>10, <2>11, SMTT(60) DEF RecordedIsAnswered
<1> QED
  BY <1>1, AlwaysAsked, PTL
=============================================================================
