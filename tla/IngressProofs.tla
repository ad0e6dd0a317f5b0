---------------------------- MODULE IngressProofs ----------------------------
(***************************************************************************)
(* Proofs about Ingress, for any number of handlers, any requests, any     *)
(* tolerance and any number of crashes.  The theorems about what is stored *)
(* are about the durable store (SQLStore); MemoryStore loses its rows.     *)
(* The last part is about the signature checks alone (WebhookAuth), for    *)
(* any requests, any clock and any tolerance.                              *)
(***************************************************************************)
EXTENDS Ingress, MCWebhookAuth, WellFoundedInduction, TLAPS

\* A set of naturals that is not empty has a least element: what an induction
\* over data comes down to here, by way of a least counterexample.
LEMMA LeastOf ==
  ASSUME NEW T \in SUBSET Nat, T # {}
  PROVE  \E m \in T : \A k \in T : m <= k
<1>1. \E x \in T : \A y \in T : ~ (<<y, x>> \in OpToRel(<, Nat))
  <2> HIDE DEF OpToRel
  <2> QED BY NatLessThanWellFounded, WFMin, Zenon
<1>2. PICK m \in T : \A y \in T : ~ (<<y, m>> \in OpToRel(<, Nat))
  BY <1>1, Zenon
<1>3. \A y \in T : m <= y
  <2> TAKE y \in T
  <2>1. ~(y < m)
    BY <1>2, Zenon DEF OpToRel
  <2> QED BY <2>1
<1> QED BY <1>3

\* m passes every check of handleHook at some time.
Admissible(m) == \E t \in 0..MaxClock : hookStatus(m, t) = 0

\* Every row is the event of an admissible request.
StoredIsAdmissible ==
    \A k \in Keys : rows[k] # NoRow =>
        \E m \in Messages : inboxKey(m) = k /\ rows[k] = InboxEvent(m) /\ Admissible(m)

\* The strengthening: only an admissible request reaches the store, a 200 is
\* only ever prepared when the row is there, and rows, once won, stay.
IInv == /\ TypeOK
        /\ \A h \in Handlers :
              /\ pc[h] # "idle" => msg[h] \in Messages
              /\ pc[h] = "inserting" => Admissible(msg[h])
              /\ pc[h] = "responding" /\ status[h] = 200 => rows[inboxKey(msg[h])] # NoRow
        /\ \A m \in orphans : Admissible(m)
        /\ AckedIsStored
        /\ NewOnce
        /\ StoredIsAdmissible

\* Each request of the model has a key and a row of the inbox's types.
LEMMA MessageTypes ==
    ASSUME NEW m \in Messages
    PROVE  inboxKey(m) \in Keys /\ InboxEvent(m) \in Rows /\ InboxEvent(m) # NoRow
BY NoRowAssumption DEF Keys, Rows

\* handleHook has no other answers than these before the insert.
LEMMA HookStatusType == \A m, t : hookStatus(m, t) \in Statuses
BY DEF hookStatus, Statuses

\* The checks of handleHook never answer 200 themselves: only the insert leads there.
LEMMA HookStatusNot200 == \A m, t : hookStatus(m, t) # 200
BY DEF hookStatus

\* The invariant holds when run has started the server on an empty inbox.
LEMMA InitIInv == Init => IInv
<1> SUFFICES ASSUME Init PROVE IInv
  OBVIOUS
<1>1. TypeOK
  BY BoundsAssumption DEF Init, TypeOK, Statuses, Results
<1>2. AckedIsStored /\ NewOnce /\ StoredIsAdmissible
  BY DEF Init, AckedIsStored, NewOnce, StoredIsAdmissible
<1>. QED  BY <1>1, <1>2 DEF Init, IInv

\* ON CONFLICT DO NOTHING keeps the table well typed, keeps every row, makes the
\* statement's own row present, and adds at most that one.
LEMMA InsertRowFacts ==
    ASSUME TypeOK, NEW m \in Messages, insertRow(m)
    PROVE  /\ rows' \in [Keys -> Rows \union {NoRow}]
           /\ \A k \in Keys : rows[k] # NoRow => rows'[k] = rows[k]
           /\ rows'[inboxKey(m)] # NoRow
           /\ \A k \in Keys : rows'[k] = rows[k] \/ (k = inboxKey(m) /\ rows'[k] = InboxEvent(m))
BY MessageTypes DEF TypeOK, insertRow

\* Every step keeps the strengthened invariant when the store is durable.
LEMMA NextIInv == ASSUME Durable, IInv, [Next]_vars PROVE IInv'
<1> USE DEF Admissible
<1>a. TypeOK /\ AckedIsStored /\ NewOnce /\ StoredIsAdmissible
  BY DEF IInv
<1>1. ASSUME NEW h \in Handlers, NEW m \in Messages, Post(h, m) PROVE IInv'
  BY <1>1 DEF IInv, TypeOK, AckedIsStored, NewOnce, StoredIsAdmissible, Post
<1>2. ASSUME NEW h \in Handlers, Check(h) PROVE IInv'
  <2>1. msg[h] \in Messages
    BY <1>2 DEF IInv, Check
  <2>2. CASE hookStatus(msg[h], clock) = 0
    BY <1>2, <2>1, <2>2
       DEF IInv, TypeOK, AckedIsStored, NewOnce, StoredIsAdmissible, Check
  <2>3. CASE hookStatus(msg[h], clock) # 0
    <3>1. hookStatus(msg[h], clock) \in Statuses /\ hookStatus(msg[h], clock) # 200
      BY HookStatusType, HookStatusNot200
    <3>. QED
      BY <1>2, <2>1, <2>3, <3>1
         DEF IInv, TypeOK, AckedIsStored, NewOnce, StoredIsAdmissible, Check, answer, Results
  <2>. QED  BY <2>2, <2>3
<1>3. ASSUME NEW h \in Handlers, Insert(h) PROVE IInv'
  <2> DEFINE k == inboxKey(msg[h])
  <2>1. msg[h] \in Messages /\ Admissible(msg[h]) /\ insertRow(msg[h])
    BY <1>3 DEF IInv, Insert
  <2>2. k \in Keys
    BY <2>1, MessageTypes
  <2>3. /\ rows' \in [Keys -> Rows \union {NoRow}]
        /\ \A j \in Keys : rows[j] # NoRow => rows'[j] = rows[j]
        /\ rows'[k] # NoRow
        /\ \A j \in Keys : rows'[j] = rows[j] \/ (j = k /\ rows'[j] = InboxEvent(msg[h]))
    BY <1>a, <2>1, InsertRowFacts
  <2>4. StoredIsAdmissible'
    BY <1>a, <2>1, <2>3 DEF StoredIsAdmissible
  <2>5. AckedIsStored'
    BY <1>a, <1>3, <2>3, MessageTypes DEF AckedIsStored, Insert, TypeOK
  <2>6. NewOnce'
    BY <1>a, <1>3, <2>2, <2>3 DEF NewOnce, Insert, TypeOK
  <2>7. TypeOK'
    BY <1>a, <1>3, <2>2, <2>3 DEF TypeOK, Insert, answer, Statuses, Results
  <2>8. \A g \in Handlers : /\ pc'[g] # "idle" => msg'[g] \in Messages
                            /\ pc'[g] = "inserting" => Admissible(msg'[g])
    BY <1>3, <2>1 DEF IInv, Insert, answer, TypeOK
  <2>9. \A g \in Handlers : pc'[g] = "responding" /\ status'[g] = 200
                               => rows'[inboxKey(msg'[g])] # NoRow
    BY <1>3, <2>1, <2>3, MessageTypes DEF IInv, Insert, answer, TypeOK
  <2>10. \A m \in orphans' : Admissible(m)
    BY <1>3 DEF IInv, Insert
  <2>. QED  BY <2>4, <2>5, <2>6, <2>7, <2>8, <2>9, <2>10 DEF IInv
<1>4. ASSUME NEW h \in Handlers, InsertError(h) PROVE IInv'
  BY <1>4 DEF IInv, TypeOK, AckedIsStored, NewOnce, StoredIsAdmissible, InsertError, answer,
              Statuses, Results
<1>5. ASSUME NEW h \in Handlers, InsertUnknown(h) PROVE IInv'
  BY <1>5 DEF IInv, TypeOK, AckedIsStored, NewOnce, StoredIsAdmissible, InsertUnknown, answer,
              Statuses, Results
<1>6. ASSUME NEW h \in Handlers, Respond(h) PROVE IInv'
  BY <1>6 DEF IInv, TypeOK, AckedIsStored, NewOnce, StoredIsAdmissible, Respond, release,
              Statuses, Results
<1>7. ASSUME NEW h \in Handlers, ResponseLost(h) PROVE IInv'
  BY <1>7 DEF IInv, TypeOK, AckedIsStored, NewOnce, StoredIsAdmissible, ResponseLost, release,
              Statuses, Results
<1>8. ASSUME NEW m \in Messages, OrphanCommit(m) PROVE IInv'
  <2>1. /\ rows' \in [Keys -> Rows \union {NoRow}]
        /\ \A j \in Keys : rows[j] # NoRow => rows'[j] = rows[j]
        /\ \A j \in Keys : rows'[j] = rows[j] \/ (j = inboxKey(m) /\ rows'[j] = InboxEvent(m))
    BY <1>a, <1>8, InsertRowFacts DEF OrphanCommit
  <2>2. StoredIsAdmissible'
    BY <1>a, <1>8, <2>1 DEF StoredIsAdmissible, OrphanCommit, IInv
  <2>3. AckedIsStored' /\ NewOnce'
    BY <1>a, <1>8, <2>1, MessageTypes DEF AckedIsStored, NewOnce, OrphanCommit, TypeOK
  <2>4. TypeOK'
    BY <1>a, <1>8, <2>1 DEF TypeOK, OrphanCommit, handlerVars
  <2>. QED
    BY <1>8, <2>1, <2>2, <2>3, <2>4, MessageTypes DEF IInv, OrphanCommit, handlerVars
<1>9. ASSUME NEW m \in Messages, OrphanAbort(m) PROVE IInv'
  BY <1>9 DEF IInv, TypeOK, AckedIsStored, NewOnce, StoredIsAdmissible, OrphanAbort, handlerVars
<1>10. ASSUME Crash PROVE IInv'
  <2>1. rows' = rows /\ acked' = acked /\ wins' = wins /\ clock' = clock
    BY <1>10 DEF Crash
  <2>2. \A m \in orphans' : m \in Messages /\ Admissible(m)
    BY <1>10, <1>a DEF Crash, IInv, TypeOK
  <2>3. TypeOK'
    BY <1>10, <1>a, <2>1, <2>2, BoundsAssumption DEF TypeOK, Crash, Statuses, Results
  <2>4. AckedIsStored' /\ NewOnce' /\ StoredIsAdmissible'
    BY <1>a, <2>1 DEF AckedIsStored, NewOnce, StoredIsAdmissible
  <2>. QED  BY <1>10, <2>2, <2>3, <2>4, Zenon DEF IInv, Crash
<1>11. ASSUME Tick PROVE IInv'
  BY <1>11, BoundsAssumption
     DEF IInv, TypeOK, AckedIsStored, NewOnce, StoredIsAdmissible, Tick, handlerVars
<1>12. ASSUME UNCHANGED vars PROVE IInv'
  BY <1>12 DEF IInv, TypeOK, AckedIsStored, NewOnce, StoredIsAdmissible, vars
<1>. QED
  BY <1>1, <1>2, <1>3, <1>4, <1>5, <1>6, <1>7, <1>8, <1>9, <1>10, <1>11, <1>12 DEF Next

\* The strengthened invariant holds throughout.
THEOREM Invariance == ASSUME Durable PROVE Spec => []IInv
<1>1. IInv /\ [Next]_vars => IInv'
  BY NextIInv
<1>. QED  BY InitIInv, <1>1, PTL DEF Spec

\* Types: handlers, table and counters stay in their ranges.
THEOREM TypeCorrect == ASSUME Durable PROVE Spec => []TypeOK
<1>1. IInv => TypeOK
  BY DEF IInv
<1>. QED  BY Invariance, <1>1, PTL

\* A 200 means the row is in Postgres and stays there: for any number of
\* handlers, repeated deliveries, lost answers, statements of unknown outcome
\* and crashes (handleHook answers 200 only after Store.Insert).
THEOREM StoredBefore2xx == ASSUME Durable PROVE Spec => []AckedIsStored
<1>1. IInv => AckedIsStored
  BY DEF IInv
<1>. QED  BY Invariance, <1>1, PTL

\* At most one delivery of a key is answered "new".
THEOREM OneWinner == ASSUME Durable PROVE Spec => []NewOnce
<1>1. IInv => NewOnce
  BY DEF IInv
<1>. QED  BY Invariance, <1>1, PTL

\* What passes the checks of handleHook carries a MAC of the secret's owner over its
\* body: a plain one for GitHub and Shopify, a timed one for custom and Stripe.
LEMMA AdmissibleIsSigned == ASSUME NEW m, Admissible(m) PROVE SignedByOwner(m)
<1>1. PICK t : verify(m, t)
  BY DEF Admissible, hookStatus
<1>2. CASE m.source = "github" /\ validGitHub(m.body, m.sig)
  BY <1>2 DEF validGitHub, SignedByOwner, Secret
<1>3. CASE m.source = "shopify" /\ validShopify(m.body, m.sig)
  BY <1>3 DEF validShopify, SignedByOwner, Secret
<1>4. CASE m.source = "custom" /\ validCustom(m.body, m.ts, m.sig, t)
  <2> DEFINE c == TimedMac("custom", m.ts.text, m.body)
  <2>1. c = m.sig.mac
    BY <1>4 DEF validCustom, Secret
  <2>2. Len(c) = 3 /\ c[1] = "custom" /\ c[3] = m.body
    BY DEF TimedMac
  <2>. HIDE DEF c
  <2>. QED  BY <1>4, <2>1, <2>2 DEF SignedByOwner, Secret
<1>5. CASE m.source = "stripe" /\ validStripe(m.body, m.parts, t)
  <2> DEFINE c == TimedMac("stripe", Decimal(LastTime(m.parts)), m.body)
  <2>1. c \in {m.parts[i].mac : i \in DOMAIN m.parts}
    BY <1>5 DEF validStripe, StripeSigs, Secret
  <2>2. Len(c) = 3 /\ c[1] = "stripe" /\ c[3] = m.body
    BY DEF TimedMac
  <2>. HIDE DEF c
  <2>. QED  BY <1>5, <2>1, <2>2, Zenon DEF SignedByOwner, Secret
<1>. QED  BY <1>1, <1>2, <1>3, <1>4, <1>5 DEF verify

\* Every row comes from a request whose body its provider signed.
THEOREM OnlyAuthenticStored == ASSUME Durable PROVE Spec => []StoredIsAuthentic
<1>1. IInv => StoredIsAuthentic
  BY AdmissibleIsSigned DEF IInv, StoredIsAdmissible, StoredIsAuthentic
<1>. QED  BY Invariance, <1>1, PTL

-----------------------------------------------------------------------------
Told == {inboxKey(m) : m \in acked}

\* An insert, by a live handler or by an orphaned statement, records one key or
\* changes nothing.
LEMMA InsertImplements ==
    ASSUME TypeOK, NEW m \in Messages, insertRow(m), acked' = acked
    PROVE  Promise!Next \/ UNCHANGED <<rows, Told>>
<1>1. Told' = Told
  BY DEF Told
<1>2. CASE rows[inboxKey(m)] = NoRow
  <2>1. Promise!Record(inboxKey(m), InboxEvent(m))
    BY <1>1, <1>2 DEF Promise!Record, insertRow, Told
  <2>. QED  BY <2>1, MessageTypes DEF Promise!Next
<1>3. CASE rows[inboxKey(m)] # NoRow
  BY <1>1, <1>3 DEF insertRow
<1>. QED  BY <1>2, <1>3

\* Every step of the ingress is a step of WriteOnce or invisible to it.
LEMMA StepImplements ==
    ASSUME Durable, IInv, [Next]_vars
    PROVE  Promise!Next \/ UNCHANGED <<rows, Told>>
<1>a. TypeOK
  BY DEF IInv
<1>1. ASSUME NEW h \in Handlers, Insert(h) PROVE Promise!Next \/ UNCHANGED <<rows, Told>>
  <2>1. msg[h] \in Messages /\ insertRow(msg[h]) /\ acked' = acked
    BY <1>1 DEF IInv, Insert
  <2>. QED  BY <1>a, <2>1, InsertImplements
<1>2. ASSUME NEW m \in Messages, OrphanCommit(m) PROVE Promise!Next \/ UNCHANGED <<rows, Told>>
  BY <1>a, <1>2, InsertImplements DEF OrphanCommit
<1>3. ASSUME NEW h \in Handlers, Respond(h) PROVE Promise!Next \/ UNCHANGED <<rows, Told>>
  <2>1. CASE status[h] = 200
    <3>1. msg[h] \in Messages /\ rows[inboxKey(msg[h])] # NoRow
      BY <1>3, <2>1 DEF IInv, Respond
    <3>2. Told' = Told \union {inboxKey(msg[h])}
      BY <1>3, <2>1 DEF Told, Respond
    <3>3. Promise!Tell(inboxKey(msg[h]))
      BY <1>3, <3>1, <3>2 DEF Promise!Tell, Told, Respond
    <3>. QED  BY <3>1, <3>3, MessageTypes, Zenon DEF Promise!Next
  <2>2. CASE status[h] # 200
    BY <1>3, <2>2 DEF Respond, Told
  <2>. QED  BY <2>1, <2>2
<1>4. ASSUME rows' = rows, acked' = acked PROVE UNCHANGED <<rows, Told>>
  BY <1>4 DEF Told
<1>5. ASSUME NEW h \in Handlers,
             \/ \E m \in Messages : Post(h, m)
             \/ Check(h) \/ InsertError(h) \/ InsertUnknown(h) \/ ResponseLost(h)
      PROVE  rows' = rows /\ acked' = acked
  BY <1>5 DEF Post, Check, InsertError, InsertUnknown, ResponseLost
<1>6. ASSUME Crash \/ Tick \/ UNCHANGED vars \/ \E m \in Messages : OrphanAbort(m)
      PROVE  rows' = rows /\ acked' = acked
  BY <1>6 DEF Crash, Tick, OrphanAbort, vars
<1>. QED  BY <1>1, <1>2, <1>3, <1>4, <1>5, <1>6, Zenon DEF Next

\* The durable ingress implements the inbox's promise, step by step: every
\* action of handleHook, of the database and of the environment is a Record, a
\* Tell or invisible.
THEOREM Refinement == ASSUME Durable PROVE Spec => ImplementsInbox
<1>1. Init => Promise!Init
  BY DEF Init, Promise!Init
<1>2. IInv /\ [Next]_vars => [Promise!Next]_<<rows, Told>>
  BY StepImplements
<1>. QED  BY Invariance, <1>1, <1>2, PTL DEF Spec, ImplementsInbox, Promise!Spec, Told

-----------------------------------------------------------------------------
\* withinTolerance (verify.go) is the window around the clock, both ends
\* included, for a time that is no further ahead than a Duration reaches.
LEMMA ToleranceWindow ==
  ASSUME NEW s \in Int, NEW t \in Int, s - t <= MaxDuration
  PROVE  withinTolerance(s, t) <=> s \in (t - Tolerance)..(t + Tolerance)
BY ToleranceAssumption DEF withinTolerance, Sub, Negate, MinDuration

\* The time that validStripe uses is one of those its header states.
LEMMA LastTimeStated ==
  ASSUME NEW r \in Requests, TimePositions(r.parts) # {}
  PROVE  LastTime(r.parts) \in StripeTimes(r)
<1> DEFINE Pos == TimePositions(r.parts)
           n == Len(r.parts)
           Back == {n - i : i \in Pos}
<1>1. n \in Nat /\ Pos \subseteq 1..n
  BY RequestsAssumption DEF TimePositions
<1>2. Back \in SUBSET Nat /\ Back # {}
  BY <1>1
<1>3. PICK m \in Back : \A k \in Back : m <= k
  <2> HIDE DEF Back
  <2> QED BY <1>2, LeastOf
<1>4. PICK i \in Pos : m = n - i
  BY <1>3
<1>5. \A j \in Pos : j <= i
  <2> TAKE j \in Pos
  <2>1. n - j \in Back
    OBVIOUS
  <2>2. n - i <= n - j
    BY <1>3, <1>4, <2>1
  <2> QED BY <1>1, <2>2
<1>6. (CHOOSE k \in Pos : \A j \in Pos : j <= k) \in Pos
  <2> HIDE DEF Pos
  <2> QED BY <1>5
<1> QED
  BY <1>6, Zenon DEF LastTime, StripeTimes

\* What is recorded is what hookStatus said of the request, or nothing yet.
Answered == \/ req = Base /\ code = 404
            \/ req \in Requests /\ now \in Clock /\ code = hookStatus(req, now)

\* Answered holds in every state.
LEMMA AlwaysAnswered == AuthSpec => []Answered
<1>1. AuthInit => Answered
  BY DEF AuthInit, Answered
<1>2. Answered /\ [AuthNext]_<<phase, authVars>> => Answered'
  BY ZenonT(60) DEF Answered, AuthNext, Serve, AuthDone, authVars
<1> QED
  BY <1>1, <1>2, PTL DEF AuthSpec

\* What lets a request through, in the words of the property.
LEMMA AcceptedStep ==
  ASSUME Answered
  PROVE  AcceptedIsGenuine
<1> SUFFICES ASSUME code = 0
             PROVE  \/ req.source \in {"github", "shopify"} /\ PlainMac(req.source, req.body) \in SeenMacs
                    \/ /\ req.source = "stripe"
                       /\ \E t \in StripeTimes(req) : InWindow(t) /\ TimedMac("stripe", Decimal(t), req.body) \in SeenMacs
                    \/ /\ req.source = "custom"
                       /\ InWindow(req.ts.val) /\ TimedMac("custom", req.ts.text, req.body) \in SeenMacs
  BY DEF AcceptedIsGenuine
<1>1. req \in Requests /\ now \in Clock /\ verify(req, now)
  BY DEF Answered, hookStatus
<1>2. now \in Int /\ \A t \in StatedTimes(req) : t \in Int /\ t - now <= MaxDuration
  BY <1>1, RequestsAssumption
<1>3. CASE req.source = "github" /\ validGitHub(req.body, req.sig)
  BY <1>3 DEF validGitHub, SeenMacs, Secret
<1>4. CASE req.source = "shopify" /\ validShopify(req.body, req.sig)
  BY <1>4 DEF validShopify, SeenMacs, Secret
<1>5. CASE req.source = "stripe" /\ validStripe(req.body, req.parts, now)
  <2> DEFINE last == LastTime(req.parts)
  <2>1. TimePositions(req.parts) # {} /\ withinTolerance(last, now)
        /\ TimedMac("stripe", Decimal(last), req.body) \in StripeSigs(req.parts)
    BY <1>5 DEF validStripe, Secret
  <2>2. last \in StripeTimes(req)
    BY <1>1, <2>1, LastTimeStated
  <2>3. InWindow(last)
    BY <1>2, <2>1, <2>2, ToleranceWindow DEF InWindow, StatedTimes
  <2>4. StripeSigs(req.parts) \subseteq SeenMacs
    BY DEF StripeSigs, SeenMacs
  <2> HIDE DEF last
  <2> QED BY <1>5, <2>1, <2>2, <2>3, <2>4, Zenon
<1>6. CASE req.source = "custom" /\ validCustom(req.body, req.ts, req.sig, now)
  <2>1. req.ts.val \in StatedTimes(req)
    BY DEF StatedTimes
  <2>2. withinTolerance(req.ts.val, now) /\ req.sig.mac = TimedMac("custom", req.ts.text, req.body)
    BY <1>6 DEF validCustom, Secret
  <2>3. InWindow(req.ts.val)
    BY <1>2, <2>1, <2>2, ToleranceWindow DEF InWindow
  <2> QED BY <1>6, <2>2, <2>3 DEF SeenMacs
<1> QED
  BY <1>1, <1>3, <1>4, <1>5, <1>6 DEF verify

\* handleHook lets a request through only if it is genuine and fresh: whatever
\* requests come in, whatever the clock and the tolerance.
THEOREM OnlyGenuineAccepted == AuthSpec => []AcceptedIsGenuine
BY AlwaysAnswered, AcceptedStep, PTL

\* What the property asks of a request makes every check of handleHook succeed.
LEMMA GenuineStep ==
  ASSUME Answered
  PROVE  GenuineIsAccepted
<1> SUFFICES ASSUME NEW t \in StatedTimes(req),
                    req.read = "ok" /\ req.body.json /\ extractable(req) /\ InWindow(t),
                    \/ /\ req.source = "stripe"
                       /\ \A i \in DOMAIN req.parts : req.parts[i].key # "malformed"
                       /\ \A i \in TimePositions(req.parts) : req.parts[i].num /\ req.parts[i].val = t
                       /\ TimePositions(req.parts) # {}
                       /\ \E i \in DOMAIN req.parts :
                             req.parts[i].key = "v1" /\ req.parts[i].dec
                             /\ req.parts[i].mac = TimedMac("stripe", Decimal(t), req.body)
                    \/ /\ req.source = "custom"
                       /\ req.ts.num /\ req.ts.val = t
                       /\ req.sig = [prefix |-> TRUE, dec |-> TRUE, mac |-> TimedMac("custom", req.ts.text, req.body)]
             PROVE  code = 0
  BY DEF GenuineIsAccepted
<1>1. req \in Requests /\ now \in Clock /\ code = hookStatus(req, now)
  BY SMTT(60), Z3 DEF Answered, Base
<1>2. now \in Int /\ t \in Int /\ t - now <= MaxDuration
  BY <1>1, RequestsAssumption
<1>3. withinTolerance(t, now)
  BY <1>2, ToleranceWindow, Zenon DEF InWindow
<1>4. verify(req, now)
  <2>1. CASE req.source = "stripe"
    <3>1. LastTime(req.parts) = t
      BY <1>1, <2>1, LastTimeStated DEF StripeTimes
    <3>2. TimedMac("stripe", Decimal(t), req.body) \in StripeSigs(req.parts)
      BY <2>1 DEF StripeSigs
    <3>3. req.parts # <<>>
      BY <2>1, SMTT(60) DEF TimePositions
    <3> QED BY <1>3, <2>1, <3>1, <3>2, <3>3, Zenon DEF verify, validStripe, Secret
  <2>2. CASE req.source = "custom"
    BY <1>3, <2>2 DEF verify, validCustom, Secret
  <2> QED BY <2>1, <2>2, Zenon
<1> QED
  BY <1>1, <1>4, ZenonT(60) DEF hookStatus, AllowedSources

\* What a provider signs and sends is let through while it is fresh: a genuine
\* event is not lost to its header's other signatures or their order.
THEOREM AllGenuineAccepted == AuthSpec => []GenuineIsAccepted
BY AlwaysAnswered, GenuineStep, PTL
=============================================================================
