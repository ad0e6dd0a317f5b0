------------------------- MODULE ReviewDecisionProofs -------------------------
(***************************************************************************)
(* Proofs about ReviewDecision, for any number of workers, reviews and     *)
(* crashes.  The invariant that makes AuditMatchesStatus inductive says    *)
(* who may commit: a row lock belongs to exactly the transaction that is   *)
(* between its UPDATE and its end, a locked row is still pending, and a    *)
(* worker that posts has committed and not yet posted.                     *)
(***************************************************************************)
EXTENDS ReviewDecision, TLAPS

InTransaction(w) == pc[w] \in {"auditing", "committing"}

\* Row locks and running transactions correspond.
LockInv ==
    /\ \A w \in Workers : pc[w] # "idle" => id[w] \in Reviews /\ choice[w] \in Decisions
    /\ \A w \in Workers : InTransaction(w) => lock[id[w]] = w
    /\ \A r \in Reviews : lock[r] \in Workers => InTransaction(lock[r]) /\ id[lock[r]] = r
    /\ \A r \in Reviews : lock[r] = "limbo" <=> limbo[r] # "none"
    /\ \A r \in Reviews : lock[r] # Unlocked => queue[r] = "pending"

\* A worker that posts is the one that committed the decision, and its message
\* has not been sent.
PostInv ==
    /\ \A w \in Workers : pc[w] = "posting" => queue[id[w]] = choice[w]
    /\ \A w \in Workers : pc[w] = "posting" => received[id[w]][choice[w]] = 0
    /\ \A v, w \in Workers : pc[v] = "posting" /\ pc[w] = "posting" /\ id[v] = id[w] => v = w
    /\ \A w \in Workers : pc[w] # "redirecting" => notice[w] = "none"

IInv == TypeOK /\ LockInv /\ PostInv /\ AuditMatchesStatus /\ ReceivedIsDecided /\ NoticeIsTrue

USE DEF Decisions

\* The notices redirect writes are notices.
LEMMA NoticeFacts ==
    /\ \A d \in Decisions : d \in Notices /\ ReceiverFailed(d) \in Notices
    /\ {"none", "db_error", "already_decided"} \subseteq Notices
    /\ \A d \in Decisions : d \notin {"none", "db_error", "already_decided", "absent", "pending"}
    /\ \A d \in Decisions : ReceiverFailed(d) \notin {"none", "db_error", "already_decided"} \union Decisions
    /\ \A d, e \in Decisions : ReceiverFailed(d) = ReceiverFailed(e) => d = e
BY DEF Notices, ReceiverFailed

\* The invariant holds when the service starts on an empty queue.
LEMMA InitIInv == Init => IInv
<1>. SUFFICES ASSUME Init PROVE IInv
  OBVIOUS
<1>1. TypeOK
  BY NoticeFacts, BoundsAssumption DEF Init, TypeOK, NoCount
<1>2. LockInv /\ PostInv
  BY ModelValues DEF Init, LockInv, PostInv, InTransaction
<1>3. AuditMatchesStatus /\ ReceivedIsDecided
  BY DEF Init, AuditMatchesStatus, ReceivedIsDecided, NoCount
<1>4. NoticeIsTrue
  BY NoticeFacts DEF Init, NoticeIsTrue
<1>. QED  BY <1>1, <1>2, <1>3, <1>4 DEF IInv

\* A transaction that commits decides a row that was pending, so there was
\* neither an audit row nor a message for it.
LEMMA CommitFacts ==
    ASSUME IInv, NEW r \in Reviews, NEW d \in Decisions, lock[r] # Unlocked,
           commitDecision(r, d), received' = received
    PROVE  /\ queue[r] = "pending"
           /\ \A e \in Decisions : audit[r][e] = 0 /\ received[r][e] = 0
           /\ \A q \in Reviews : queue'[q] = IF q = r THEN d ELSE queue[q]
           /\ \A w \in Workers : pc[w] = "posting" => id[w] # r
           /\ AuditMatchesStatus'
           /\ ReceivedIsDecided'
<1>1. queue[r] = "pending"
  BY DEF IInv, LockInv
<1>2. ASSUME NEW e \in Decisions PROVE audit[r][e] = 0 /\ received[r][e] = 0
  <2>1. received[r][e] \in Nat /\ queue[r] # e
    BY <1>1 DEF IInv, TypeOK
  <2>2. audit[r][e] = (IF queue[r] = e THEN 1 ELSE 0)
    BY DEF IInv, AuditMatchesStatus
  <2>3. received[r][e] <= 1 /\ (received[r][e] = 1 => queue[r] = e)
    BY DEF IInv, ReceivedIsDecided
  <2>. QED  BY <2>1, <2>2, <2>3
<1>3. \A q \in Reviews : queue'[q] = IF q = r THEN d ELSE queue[q]
  BY DEF commitDecision, IInv, TypeOK
<1>4. \A w \in Workers : pc[w] = "posting" => id[w] # r
  BY <1>1 DEF IInv, PostInv, LockInv
<1>5. \A q \in Reviews, e \in Decisions :
         audit'[q][e] = IF q = r /\ e = d THEN audit[q][e] + 1 ELSE audit[q][e]
  BY DEF commitDecision, IInv, TypeOK
<1>6. AuditMatchesStatus'
  <2>1. ASSUME NEW q \in Reviews, NEW e \in Decisions
        PROVE  audit'[q][e] = (IF queue'[q] = e THEN 1 ELSE 0)
    <3>1. audit[q][e] = (IF queue[q] = e THEN 1 ELSE 0)
      BY DEF IInv, AuditMatchesStatus
    <3>2. CASE q = r
      BY <1>2, <1>3, <1>5, <3>2
    <3>3. CASE q # r
      BY <1>3, <1>5, <3>1, <3>3
    <3>. QED  BY <3>2, <3>3
  <2>. QED  BY <2>1 DEF AuditMatchesStatus
<1>7. ReceivedIsDecided'
  BY <1>2, <1>3 DEF IInv, ReceivedIsDecided
<1>. QED  BY <1>1, <1>2, <1>3, <1>4, <1>6, <1>7

\* Every step preserves the invariant, action by action.
LEMMA NextIInv == ASSUME IInv, [Next]_vars PROVE IInv'
<1>a. TypeOK /\ LockInv /\ PostInv /\ AuditMatchesStatus /\ ReceivedIsDecided /\ NoticeIsTrue
  BY DEF IInv
<1>. USE DEF InTransaction
<1>1. ASSUME NEW r \in Reviews, Enqueue(r) PROVE IInv'
  <2>1. TypeOK'
    BY <1>a, <1>1, NoticeFacts, BoundsAssumption DEF TypeOK, LockInv, Enqueue
  <2>2. LockInv'
    BY <1>a, <1>1, NoticeFacts, ModelValues DEF TypeOK, LockInv, Enqueue
  <2>3. PostInv'
    BY <1>a, <1>1, NoticeFacts, SMTT(60) DEF TypeOK, LockInv, PostInv, AuditMatchesStatus, ReceivedIsDecided, Enqueue
  <2>4. AuditMatchesStatus' /\ ReceivedIsDecided'
    BY <1>a, <1>1, NoticeFacts DEF TypeOK, LockInv, PostInv, AuditMatchesStatus, ReceivedIsDecided, Enqueue
  <2>5. NoticeIsTrue'
    BY <1>a, <1>1, NoticeFacts DEF TypeOK, LockInv, PostInv, NoticeIsTrue, ReceivedIsDecided, Enqueue
  <2>. QED  BY <2>1, <2>2, <2>3, <2>4, <2>5 DEF IInv
<1>2. ASSUME NEW w \in Workers, NEW r \in Reviews, NEW d \in Decisions, Decide(w, r, d) PROVE IInv'
  <2>1. TypeOK'
    BY <1>a, <1>2, NoticeFacts, BoundsAssumption DEF TypeOK, LockInv, Decide, serverVars
  <2>2. LockInv'
    BY <1>a, <1>2, NoticeFacts, ModelValues DEF TypeOK, LockInv, Decide, serverVars
  <2>3. PostInv'
    BY <1>a, <1>2, NoticeFacts DEF TypeOK, LockInv, PostInv, AuditMatchesStatus, ReceivedIsDecided, Decide, serverVars
  <2>4. AuditMatchesStatus' /\ ReceivedIsDecided'
    BY <1>a, <1>2, NoticeFacts DEF TypeOK, LockInv, PostInv, AuditMatchesStatus, ReceivedIsDecided, Decide, serverVars
  <2>5. NoticeIsTrue'
    BY <1>a, <1>2, NoticeFacts DEF TypeOK, LockInv, PostInv, NoticeIsTrue, ReceivedIsDecided, Decide, serverVars
  <2>. QED  BY <2>1, <2>2, <2>3, <2>4, <2>5 DEF IInv
<1>3. ASSUME NEW w \in Workers, Claim(w) PROVE IInv'
  <2>1. CASE queue[id[w]] = "pending"
    <3>0. /\ id[w] \in Reviews /\ pc[w] = "claiming" /\ lock[id[w]] = Unlocked
          /\ pc' = [pc EXCEPT ![w] = "auditing"] /\ lock' = [lock EXCEPT ![id[w]] = w]
          /\ UNCHANGED <<id, choice, notice, queue, limbo, audit, received, crashes>>
      BY <1>a, <1>3, <2>1 DEF Claim, goto, LockInv
    <3>1. TypeOK'
      BY <1>a, <3>0 DEF TypeOK
    <3>2. LockInv'
      BY <1>a, <2>1, <3>0, ModelValues DEF TypeOK, LockInv
    <3>3. PostInv' /\ NoticeIsTrue'
      BY <1>a, <3>0 DEF TypeOK, PostInv, NoticeIsTrue
    <3>. QED  BY <1>a, <3>0, <3>1, <3>2, <3>3 DEF IInv, AuditMatchesStatus, ReceivedIsDecided
  <2>2. CASE queue[id[w]] # "pending"
    <3>0. /\ pc[w] = "claiming"
          /\ pc' = [pc EXCEPT ![w] = "redirecting"] /\ notice' = [notice EXCEPT ![w] = "already_decided"]
          /\ UNCHANGED <<id, choice, lock, queue, limbo, audit, received, crashes>>
      BY <1>3, <2>2 DEF Claim, redirect
    <3>1. TypeOK'
      BY <1>a, <3>0, NoticeFacts DEF TypeOK
    <3>2. LockInv'
      BY <1>a, <3>0 DEF TypeOK, LockInv
    <3>3. PostInv' /\ NoticeIsTrue'
      BY <1>a, <3>0, NoticeFacts DEF TypeOK, PostInv, NoticeIsTrue
    <3>. QED  BY <1>a, <3>0, <3>1, <3>2, <3>3 DEF IInv, AuditMatchesStatus, ReceivedIsDecided
  <2>. QED  BY <2>1, <2>2
<1>4. ASSUME NEW w \in Workers, InsertAudit(w) PROVE IInv'
  <2>1. TypeOK'
    BY <1>a, <1>4, NoticeFacts, BoundsAssumption DEF TypeOK, LockInv, InsertAudit, goto, serverVars
  <2>2. LockInv'
    BY <1>a, <1>4, NoticeFacts, ModelValues DEF TypeOK, LockInv, InsertAudit, goto, serverVars
  <2>3. PostInv'
    BY <1>a, <1>4, NoticeFacts DEF TypeOK, LockInv, PostInv, AuditMatchesStatus, ReceivedIsDecided, InsertAudit, goto, serverVars
  <2>4. AuditMatchesStatus' /\ ReceivedIsDecided'
    BY <1>a, <1>4, NoticeFacts DEF TypeOK, LockInv, PostInv, AuditMatchesStatus, ReceivedIsDecided, InsertAudit, goto, serverVars
  <2>5. NoticeIsTrue'
    BY <1>a, <1>4, NoticeFacts DEF TypeOK, LockInv, PostInv, NoticeIsTrue, ReceivedIsDecided, InsertAudit, goto, serverVars
  <2>. QED  BY <2>1, <2>2, <2>3, <2>4, <2>5 DEF IInv
<1>5. ASSUME NEW w \in Workers, Commit(w) PROVE IInv'
  <2>0. /\ id[w] \in Reviews /\ choice[w] \in Decisions
        /\ \A e \in Decisions : received[id[w]][e] = 0
        /\ queue[id[w]] = "pending"
        /\ \A q \in Reviews : queue'[q] = IF q = id[w] THEN choice[w] ELSE queue[q]
        /\ \A v \in Workers : pc[v] = "posting" => id[v] # id[w]
        /\ AuditMatchesStatus' /\ ReceivedIsDecided'
    <3>1. id[w] \in Reviews /\ choice[w] \in Decisions /\ lock[id[w]] # Unlocked
      BY <1>a, <1>5, ModelValues DEF Commit, LockInv
    <3>2. commitDecision(id[w], choice[w]) /\ received' = received
      BY <1>5 DEF Commit
    <3>. QED  BY <3>1, <3>2, CommitFacts
  <2>1. TypeOK'
    BY <1>a, <1>5, NoticeFacts, BoundsAssumption DEF TypeOK, LockInv, Commit, commitDecision, goto
  <2>2. LockInv'
    BY <1>a, <1>5, NoticeFacts, ModelValues DEF TypeOK, LockInv, Commit, commitDecision, goto
  <2>3. PostInv'
    BY <1>a, <1>5, <2>0 DEF TypeOK, LockInv, PostInv, Commit, goto
  <2>4. NoticeIsTrue'
    BY <1>a, <1>5, <2>0, NoticeFacts DEF TypeOK, LockInv, PostInv, NoticeIsTrue, Commit, goto
  <2>. QED  BY <2>0, <2>1, <2>2, <2>3, <2>4 DEF IInv
<1>6. ASSUME NEW w \in Workers, DatabaseError(w) PROVE IInv'
  <2>1. TypeOK'
    BY <1>a, <1>6, NoticeFacts, BoundsAssumption DEF TypeOK, LockInv, DatabaseError, redirect
  <2>2. LockInv'
    BY <1>a, <1>6, NoticeFacts, ModelValues DEF TypeOK, LockInv, DatabaseError, redirect
  <2>3. PostInv'
    BY <1>a, <1>6, NoticeFacts DEF TypeOK, LockInv, PostInv, AuditMatchesStatus, ReceivedIsDecided, DatabaseError, redirect
  <2>4. AuditMatchesStatus' /\ ReceivedIsDecided'
    BY <1>a, <1>6, NoticeFacts DEF TypeOK, LockInv, PostInv, AuditMatchesStatus, ReceivedIsDecided, DatabaseError, redirect
  <2>5. NoticeIsTrue'
    BY <1>a, <1>6, NoticeFacts DEF TypeOK, LockInv, PostInv, NoticeIsTrue, ReceivedIsDecided, DatabaseError, redirect
  <2>. QED  BY <2>1, <2>2, <2>3, <2>4, <2>5 DEF IInv
<1>7. ASSUME NEW w \in Workers, CommitUnknown(w) PROVE IInv'
  <2>1. TypeOK'
    BY <1>a, <1>7, NoticeFacts, BoundsAssumption DEF TypeOK, LockInv, CommitUnknown, redirect
  <2>2. LockInv'
    BY <1>a, <1>7, NoticeFacts, ModelValues, SMTT(60) DEF TypeOK, LockInv, CommitUnknown, redirect
  <2>3. PostInv'
    BY <1>a, <1>7, NoticeFacts DEF TypeOK, LockInv, PostInv, AuditMatchesStatus, ReceivedIsDecided, CommitUnknown, redirect
  <2>4. AuditMatchesStatus' /\ ReceivedIsDecided'
    BY <1>a, <1>7, NoticeFacts DEF TypeOK, LockInv, PostInv, AuditMatchesStatus, ReceivedIsDecided, CommitUnknown, redirect
  <2>5. NoticeIsTrue'
    BY <1>a, <1>7, NoticeFacts DEF TypeOK, LockInv, PostInv, NoticeIsTrue, ReceivedIsDecided, CommitUnknown, redirect
  <2>. QED  BY <2>1, <2>2, <2>3, <2>4, <2>5 DEF IInv
<1>8. ASSUME NEW r \in Reviews, LimboCommits(r) PROVE IInv'
  <2>0. /\ limbo[r] \in Decisions
        /\ \A e \in Decisions : received[r][e] = 0
        /\ queue[r] = "pending"
        /\ \A q \in Reviews : queue'[q] = IF q = r THEN limbo[r] ELSE queue[q]
        /\ \A v \in Workers : pc[v] = "posting" => id[v] # r
        /\ AuditMatchesStatus' /\ ReceivedIsDecided'
    <3>1. limbo[r] \in Decisions /\ lock[r] # Unlocked
      BY <1>a, <1>8, ModelValues DEF LimboCommits, LockInv, TypeOK
    <3>2. commitDecision(r, limbo[r]) /\ received' = received
      BY <1>8 DEF LimboCommits
    <3>. QED  BY <3>1, <3>2, CommitFacts
  <2>1. TypeOK'
    BY <1>a, <1>8, NoticeFacts, BoundsAssumption DEF TypeOK, LockInv, LimboCommits, commitDecision
  <2>2. LockInv'
    BY <1>a, <1>8, NoticeFacts, ModelValues DEF TypeOK, LockInv, LimboCommits, commitDecision
  <2>3. PostInv'
    BY <1>a, <1>8, <2>0 DEF TypeOK, LockInv, PostInv, LimboCommits
  <2>4. NoticeIsTrue'
    BY <1>a, <1>8, <2>0, NoticeFacts DEF TypeOK, LockInv, PostInv, NoticeIsTrue, LimboCommits
  <2>. QED  BY <2>0, <2>1, <2>2, <2>3, <2>4 DEF IInv
<1>9. ASSUME NEW r \in Reviews, LimboAborts(r) PROVE IInv'
  <2>1. TypeOK'
    BY <1>a, <1>9, NoticeFacts, BoundsAssumption DEF TypeOK, LockInv, LimboAborts
  <2>2. LockInv'
    BY <1>a, <1>9, NoticeFacts, ModelValues DEF TypeOK, LockInv, LimboAborts
  <2>3. PostInv'
    BY <1>a, <1>9, NoticeFacts DEF TypeOK, LockInv, PostInv, AuditMatchesStatus, ReceivedIsDecided, LimboAborts
  <2>4. AuditMatchesStatus' /\ ReceivedIsDecided'
    BY <1>a, <1>9, NoticeFacts DEF TypeOK, LockInv, PostInv, AuditMatchesStatus, ReceivedIsDecided, LimboAborts
  <2>5. NoticeIsTrue'
    BY <1>a, <1>9, NoticeFacts DEF TypeOK, LockInv, PostInv, NoticeIsTrue, ReceivedIsDecided, LimboAborts
  <2>. QED  BY <2>1, <2>2, <2>3, <2>4, <2>5 DEF IInv
<1>10. ASSUME NEW w \in Workers, PostOk(w) PROVE IInv'
  <2>1. TypeOK'
    BY <1>a, <1>10, NoticeFacts, BoundsAssumption DEF TypeOK, LockInv, PostOk, receive, redirect, serverVars
  <2>2. LockInv'
    BY <1>a, <1>10, NoticeFacts, ModelValues DEF TypeOK, LockInv, PostOk, receive, redirect, serverVars
  <2>3. PostInv'
    BY <1>a, <1>10, NoticeFacts DEF TypeOK, LockInv, PostInv, AuditMatchesStatus, ReceivedIsDecided, PostOk, receive, redirect, serverVars
  <2>4. AuditMatchesStatus' /\ ReceivedIsDecided'
    BY <1>a, <1>10, NoticeFacts DEF TypeOK, LockInv, PostInv, AuditMatchesStatus, ReceivedIsDecided, PostOk, receive, redirect, serverVars
  <2>5. NoticeIsTrue'
    BY <1>a, <1>10, NoticeFacts DEF TypeOK, LockInv, PostInv, NoticeIsTrue, ReceivedIsDecided, PostOk, receive, redirect, serverVars
  <2>. QED  BY <2>1, <2>2, <2>3, <2>4, <2>5 DEF IInv
<1>11. ASSUME NEW w \in Workers, PostFails(w) PROVE IInv'
  <2>0. id[w] \in Reviews /\ choice[w] \in Decisions
    BY <1>a, <1>11 DEF LockInv, PostFails
  <2>1. TypeOK'
    <3>1. received' \in [Reviews -> [Decisions -> Nat]]
      BY <1>a, <1>11, <2>0, SMTT(60), Z3 DEF TypeOK, PostFails, receive
    <3>. QED  BY <1>a, <1>11, <2>0, <3>1, NoticeFacts, SMTT(20) DEF TypeOK, PostFails, redirect, serverVars
  <2>2. LockInv'
    BY <1>a, <1>11, NoticeFacts, ModelValues DEF TypeOK, LockInv, PostFails, receive, redirect, serverVars
  <2>3. PostInv'
    BY <1>a, <1>11, NoticeFacts DEF TypeOK, LockInv, PostInv, AuditMatchesStatus, ReceivedIsDecided, PostFails, receive, redirect, serverVars
  <2>4. AuditMatchesStatus' /\ ReceivedIsDecided'
    BY <1>a, <1>11, NoticeFacts, SMTT(60), Z3 DEF TypeOK, LockInv, PostInv, AuditMatchesStatus, ReceivedIsDecided, PostFails, receive, redirect, serverVars
  <2>5. NoticeIsTrue'
    BY <1>a, <1>11, NoticeFacts DEF TypeOK, LockInv, PostInv, NoticeIsTrue, ReceivedIsDecided, PostFails, receive, redirect, serverVars
  <2>. QED  BY <2>1, <2>2, <2>3, <2>4, <2>5 DEF IInv
<1>12. ASSUME NEW w \in Workers, Finish(w) PROVE IInv'
  <2>1. TypeOK'
    BY <1>a, <1>12, NoticeFacts, BoundsAssumption DEF TypeOK, LockInv, Finish, serverVars
  <2>2. LockInv'
    BY <1>a, <1>12, NoticeFacts, ModelValues DEF TypeOK, LockInv, Finish, serverVars
  <2>3. PostInv'
    BY <1>a, <1>12, NoticeFacts DEF TypeOK, LockInv, PostInv, AuditMatchesStatus, ReceivedIsDecided, Finish, serverVars
  <2>4. AuditMatchesStatus' /\ ReceivedIsDecided'
    BY <1>a, <1>12, NoticeFacts DEF TypeOK, LockInv, PostInv, AuditMatchesStatus, ReceivedIsDecided, Finish, serverVars
  <2>5. NoticeIsTrue'
    BY <1>a, <1>12, NoticeFacts DEF TypeOK, LockInv, PostInv, NoticeIsTrue, ReceivedIsDecided, Finish, serverVars
  <2>. QED  BY <2>1, <2>2, <2>3, <2>4, <2>5 DEF IInv
<1>13. ASSUME Crash PROVE IInv'
  <2>1. TypeOK'
    BY <1>a, <1>13, NoticeFacts, BoundsAssumption DEF TypeOK, LockInv, Crash
  <2>2. LockInv'
    BY <1>a, <1>13, NoticeFacts, ModelValues, SMTT(60), Z3 DEF TypeOK, LockInv, Crash
  <2>3. PostInv'
    BY <1>a, <1>13, NoticeFacts DEF TypeOK, LockInv, PostInv, AuditMatchesStatus, ReceivedIsDecided, Crash
  <2>4. AuditMatchesStatus' /\ ReceivedIsDecided'
    BY <1>a, <1>13, NoticeFacts DEF TypeOK, LockInv, PostInv, AuditMatchesStatus, ReceivedIsDecided, Crash
  <2>5. NoticeIsTrue'
    BY <1>a, <1>13, NoticeFacts DEF TypeOK, LockInv, PostInv, NoticeIsTrue, ReceivedIsDecided, Crash
  <2>. QED  BY <2>1, <2>2, <2>3, <2>4, <2>5 DEF IInv
<1>14. ASSUME UNCHANGED vars PROVE IInv'
  <2>1. TypeOK'
    BY <1>a, <1>14, NoticeFacts, BoundsAssumption DEF TypeOK, LockInv, vars
  <2>2. LockInv'
    BY <1>a, <1>14, NoticeFacts, ModelValues DEF TypeOK, LockInv, vars
  <2>3. PostInv'
    BY <1>a, <1>14, NoticeFacts DEF TypeOK, LockInv, PostInv, AuditMatchesStatus, ReceivedIsDecided, vars
  <2>4. AuditMatchesStatus' /\ ReceivedIsDecided'
    BY <1>a, <1>14, NoticeFacts DEF TypeOK, LockInv, PostInv, AuditMatchesStatus, ReceivedIsDecided, vars
  <2>5. NoticeIsTrue'
    BY <1>a, <1>14, NoticeFacts DEF TypeOK, LockInv, PostInv, NoticeIsTrue, ReceivedIsDecided, vars
  <2>. QED  BY <2>1, <2>2, <2>3, <2>4, <2>5 DEF IInv
<1>. QED
  BY <1>1, <1>2, <1>3, <1>4, <1>5, <1>6, <1>7, <1>8, <1>9, <1>10, <1>11, <1>12, <1>13, <1>14 DEF Next

\* The strengthened invariant holds throughout.
THEOREM Invariance == Spec => []IInv
<1>1. IInv /\ [Next]_vars => IInv'
  BY NextIInv
<1>. QED  BY InitIInv, <1>1, PTL DEF Spec

\* Types: workers, rows, locks and counters stay in their ranges.
THEOREM TypeCorrect == Spec => []TypeOK
<1>1. IInv => TypeOK
  BY DEF IInv
<1>. QED  BY Invariance, <1>1, PTL

\* A decided review has exactly one audit row, of its decision, and an undecided
\* one has none, for any number of racing requests, failures and crashes
\* (apply_decision's single transaction).
THEOREM AuditExact == Spec => []AuditMatchesStatus
<1>1. IInv => AuditMatchesStatus
  BY DEF IInv
<1>. QED  BY Invariance, <1>1, PTL

\* The receiver hears of a review at most once, and only of its decision.
THEOREM AtMostOncePost == Spec => []ReceivedIsDecided
<1>1. IInv => ReceivedIsDecided
  BY DEF IInv
<1>. QED  BY Invariance, <1>1, PTL

\* The notice a reviewer sees names the decision in the table.
THEOREM TruthfulNotice == Spec => []NoticeIsTrue
<1>1. IInv => NoticeIsTrue
  BY DEF IInv
<1>. QED  BY Invariance, <1>1, PTL

-----------------------------------------------------------------------------
Stored == [r \in Reviews |-> IF queue[r] \in Decisions THEN queue[r] ELSE "none"]
Told == {r \in Reviews : \E d \in Decisions : received[r][d] > 0}

\* A commit, by a live worker or out of limbo, records one review's decision.
LEMMA CommitImplements ==
    ASSUME IInv, NEW r \in Reviews, NEW d \in Decisions, lock[r] # Unlocked,
           commitDecision(r, d), received' = received
    PROVE  Ledger!Next
<1>1. Stored[r] = "none" /\ Told' = Told
  BY CommitFacts DEF Stored, Told
<1>2. Stored' = [Stored EXCEPT ![r] = d]
  <2>1. \A q \in Reviews : Stored'[q] = IF q = r THEN d ELSE Stored[q]
    BY CommitFacts DEF Stored
  <2>. QED  BY <2>1, Zenon DEF Stored
<1>3. Ledger!Record(r, d)
  BY <1>1, <1>2 DEF Ledger!Record, Stored, Told
<1>. QED  BY <1>3 DEF Ledger!Next

\* A message, answered or not, tells the receiver of a recorded decision.
LEMMA PostImplements ==
    ASSUME IInv, NEW w \in Workers, pc[w] = "posting", receive(w), queue' = queue
    PROVE  Ledger!Next
<1>1. id[w] \in Reviews /\ choice[w] \in Decisions /\ queue[id[w]] = choice[w]
  BY DEF IInv, LockInv, PostInv
<1>2. \A r \in Reviews, d \in Decisions :
         received'[r][d] = IF r = id[w] /\ d = choice[w] THEN received[r][d] + 1 ELSE received[r][d]
  BY <1>1 DEF receive, IInv, TypeOK
<1>3. \A r \in Reviews, d \in Decisions : received[r][d] \in Nat
  BY Zenon DEF IInv, TypeOK
<1>. PICK k \in Reviews : k = id[w]
  BY <1>1
<1>4. Told' = Told \union {k}
  BY <1>1, <1>2, <1>3 DEF Told
<1>5. Stored' = Stored /\ Stored[k] # "none"
  BY <1>1 DEF Stored
<1>6. Ledger!Tell(k)
  BY <1>4, <1>5 DEF Ledger!Tell, Stored, Told
<1>. QED  BY <1>6, Zenon DEF Ledger!Next

\* Every step of review-ui is a step of WriteOnce or invisible to it.
LEMMA StepImplements ==
    ASSUME IInv, [Next]_vars PROVE Ledger!Next \/ UNCHANGED <<Stored, Told>>
<1>1. ASSUME NEW w \in Workers, Commit(w) PROVE Ledger!Next
  <2>1. id[w] \in Reviews /\ choice[w] \in Decisions /\ lock[id[w]] # Unlocked
    BY <1>1, ModelValues DEF Commit, IInv, LockInv, InTransaction
  <2>. QED  BY <1>1, <2>1, CommitImplements DEF Commit
<1>2. ASSUME NEW r \in Reviews, LimboCommits(r) PROVE Ledger!Next
  <2>1. limbo[r] \in Decisions /\ lock[r] # Unlocked
    BY <1>2, ModelValues DEF LimboCommits, IInv, LockInv, TypeOK
  <2>. QED  BY <1>2, <2>1, CommitImplements DEF LimboCommits
<1>3. ASSUME NEW w \in Workers, PostOk(w) PROVE Ledger!Next
  BY <1>3, PostImplements DEF PostOk, serverVars
<1>4. ASSUME Stored' = Stored, received' = received PROVE UNCHANGED <<Stored, Told>>
  BY <1>4 DEF Told
<1>5. ASSUME queue' = queue PROVE Stored' = Stored
  BY <1>5, Zenon DEF Stored
<1>6. ASSUME NEW w \in Workers, PostFails(w) PROVE Ledger!Next \/ UNCHANGED <<Stored, Told>>
  <2>1. CASE receive(w)
    BY <1>6, <2>1, PostImplements DEF PostFails, serverVars
  <2>2. CASE UNCHANGED received
    BY <1>4, <1>5, <1>6, <2>2 DEF PostFails, serverVars
  <2>. QED  BY <1>6, <2>1, <2>2 DEF PostFails
<1>7. ASSUME NEW r \in Reviews, Enqueue(r) PROVE Stored' = Stored /\ received' = received
  <2>1. \A q \in Reviews : queue'[q] = IF q = r THEN "pending" ELSE queue[q]
    BY <1>7 DEF Enqueue, IInv, TypeOK
  <2>2. \A q \in Reviews : (IF queue'[q] \in Decisions THEN queue'[q] ELSE "none")
                           = (IF queue[q] \in Decisions THEN queue[q] ELSE "none")
    BY <1>7, <2>1 DEF Enqueue
  <2>. QED  BY <1>7, <2>2 DEF Enqueue, Stored
<1>8. ASSUME NEW w \in Workers,
             \/ \E r \in Reviews, d \in Decisions : Decide(w, r, d)
             \/ Claim(w) \/ InsertAudit(w) \/ DatabaseError(w) \/ CommitUnknown(w) \/ Finish(w)
      PROVE  queue' = queue /\ received' = received
  BY <1>8 DEF Decide, Claim, InsertAudit, DatabaseError, CommitUnknown, Finish, serverVars
<1>9. ASSUME Crash \/ UNCHANGED vars \/ \E r \in Reviews : LimboAborts(r)
      PROVE  queue' = queue /\ received' = received
  BY <1>9 DEF Crash, LimboAborts, vars
<1>. QED  BY <1>1, <1>2, <1>3, <1>4, <1>5, <1>6, <1>7, <1>8, <1>9 DEF Next

\* review-ui implements WriteOnce: decisions are final, and only committed ones
\* are posted.
THEOREM Refinement == Spec => DecisionIsFinal
<1>1. Init => Ledger!Init
  <2>. SUFFICES ASSUME Init PROVE Ledger!Init
    OBVIOUS
  <2>1. Stored = [r \in Reviews |-> "none"]
    BY DEF Init, Stored
  <2>2. Told = {}
    BY DEF Init, Told, NoCount
  <2>. QED  BY <2>1, <2>2 DEF Ledger!Init, Stored, Told
<1>2. IInv /\ [Next]_vars => [Ledger!Next]_<<Stored, Told>>
  BY StepImplements
<1>. QED  BY Invariance, <1>1, <1>2, PTL DEF Spec, DecisionIsFinal, Ledger!Spec, Stored, Told
=============================================================================
