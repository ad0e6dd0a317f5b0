---------------------------- MODULE ReviewDecision ----------------------------
(***************************************************************************)
(* review-ui's approve and reject (app.py _decide, db.py apply_decision,   *)
(* receiver.py post_decision): several requests decide the same items      *)
(* through one Postgres transaction each and then tell the receiver        *)
(* workflow once, over HTTP.  The database and the receiver can fail at    *)
(* every step, the outcome of a COMMIT can be unknown, and the process can *)
(* die between any two steps.                                              *)
(*                                                                         *)
(* The server side of a transaction is READ COMMITTED Postgres: an UPDATE  *)
(* waits for the row lock of a running transaction and then evaluates      *)
(* status = 'pending' on the committed row.                                *)
(***************************************************************************)
EXTENDS Naturals

CONSTANTS Workers,       \* threads of the server's pool running _decide
          Reviews,       \* review ids that requests name
          NoReview, Unlocked,
          MaxCrashes     \* bound on the number of crashes

ASSUME BoundsAssumption == MaxCrashes \in Nat
ASSUME ModelValues == NoReview \notin Reviews /\ Unlocked \notin Workers \union {"limbo"}
                      /\ "limbo" \notin Workers

Decisions == {"approved", "rejected"}
ReceiverFailed(d) == IF d = "approved" THEN "approved_receiver_failed" ELSE "rejected_receiver_failed"
Notices == Decisions \union {ReceiverFailed(d) : d \in Decisions}
           \union {"none", "db_error", "already_decided"}

VARIABLES pc, id, choice, notice,   \* per worker: where _decide is, its arguments, the redirect's notice
          queue,      \* status of each ops.review_queue row, "absent" before it exists
          lock,       \* the transaction that has updated the row and not ended
          limbo,      \* the decision in a transaction whose client is gone, "none" if there is none
          audit,      \* ops.audit_log: rows per review and decision
          received,   \* decisions that reached the receiver workflow
          crashes

serverVars == <<queue, lock, limbo, audit>>
vars == <<pc, id, choice, notice, queue, lock, limbo, audit, received, crashes>>

TypeOK == /\ pc \in [Workers -> {"idle", "claiming", "auditing", "committing", "posting", "redirecting"}]
          /\ id \in [Workers -> Reviews \union {NoReview}]
          /\ choice \in [Workers -> Decisions \union {"none"}]
          /\ notice \in [Workers -> Notices]
          /\ queue \in [Reviews -> Decisions \union {"absent", "pending"}]
          /\ lock \in [Reviews -> Workers \union {Unlocked, "limbo"}]
          /\ limbo \in [Reviews -> Decisions \union {"none"}]
          /\ audit \in [Reviews -> [Decisions -> Nat]]
          /\ received \in [Reviews -> [Decisions -> Nat]]
          /\ crashes \in 0..MaxCrashes

NoCount == [r \in Reviews |-> [d \in Decisions |-> 0]]

Init == /\ pc = [w \in Workers |-> "idle"]
        /\ id = [w \in Workers |-> NoReview]
        /\ choice = [w \in Workers |-> "none"]
        /\ notice = [w \in Workers |-> "none"]
        /\ queue = [r \in Reviews |-> "absent"]
        /\ lock = [r \in Reviews |-> Unlocked]
        /\ limbo = [r \in Reviews |-> "none"]
        /\ audit = NoCount
        /\ received = NoCount
        /\ crashes = 0

-----------------------------------------------------------------------------
\* A workflow puts an item up for review.
Enqueue(r) == /\ queue[r] = "absent"
              /\ queue' = [queue EXCEPT ![r] = "pending"]
              /\ UNCHANGED <<pc, id, choice, notice, lock, limbo, audit, received, crashes>>

\* reviews_approve or reviews_reject: from whatever page the reviewer looks at,
\* also one that still shows a decided item as pending.
Decide(w, r, d) == /\ pc[w] = "idle"
                   /\ pc' = [pc EXCEPT ![w] = "claiming"]
                   /\ id' = [id EXCEPT ![w] = r]
                   /\ choice' = [choice EXCEPT ![w] = d]
                   /\ UNCHANGED <<notice, serverVars, received, crashes>>

redirect(w, n) == /\ pc' = [pc EXCEPT ![w] = "redirecting"]
                  /\ notice' = [notice EXCEPT ![w] = n]
                  /\ UNCHANGED <<id, choice>>

goto(w, p) == /\ pc' = [pc EXCEPT ![w] = p]
              /\ UNCHANGED <<id, choice, notice>>

\* Mutants of Claim: the UPDATE commits on its own; it lacks status = 'pending';
\* it parks the row in a status the table does not allow.
ClaimAutocommit(w) == LET r == id[w]
                      IN  /\ pc[w] = "claiming"
                          /\ lock[r] = Unlocked
                          /\ IF queue[r] = "pending"
                             THEN /\ goto(w, "auditing") /\ lock' = [lock EXCEPT ![r] = w]
                                  /\ queue' = [queue EXCEPT ![r] = choice[w]]
                             ELSE redirect(w, "already_decided") /\ UNCHANGED <<queue, lock>>
                          /\ UNCHANGED <<limbo, audit, received, crashes>>

ClaimAnyStatus(w) == LET r == id[w]
                     IN  /\ pc[w] = "claiming"
                         /\ lock[r] = Unlocked
                         /\ IF queue[r] # "absent"
                            THEN goto(w, "auditing") /\ lock' = [lock EXCEPT ![r] = w]
                            ELSE redirect(w, "already_decided") /\ UNCHANGED lock
                         /\ UNCHANGED <<queue, limbo, audit, received, crashes>>

ClaimParks(w) == LET r == id[w]
                 IN  /\ pc[w] = "claiming"
                     /\ lock[r] = Unlocked
                     /\ IF queue[r] = "pending"
                        THEN /\ goto(w, "auditing") /\ lock' = [lock EXCEPT ![r] = w]
                             /\ queue' = [queue EXCEPT ![r] = "deciding"]
                        ELSE redirect(w, "already_decided") /\ UNCHANGED <<queue, lock>>
                     /\ UNCHANGED <<limbo, audit, received, crashes>>

\* CLAIM_DECISION_SQL: the UPDATE returns the row and locks it, or returns no
\* row, for a decided and for an unknown review alike.
Claim(w) == LET r == id[w]
            IN  /\ pc[w] = "claiming"
                /\ lock[r] = Unlocked
                /\ IF queue[r] = "pending"
                   THEN goto(w, "auditing") /\ lock' = [lock EXCEPT ![r] = w]
                   ELSE redirect(w, "already_decided") /\ UNCHANGED lock
                /\ UNCHANGED <<queue, limbo, audit, received, crashes>>

\* INSERT_AUDIT_SQL, in the same transaction: visible once it commits.
InsertAudit(w) == /\ pc[w] = "auditing"
                  /\ goto(w, "committing")
                  /\ UNCHANGED <<serverVars, received, crashes>>

\* The status and the audit row of a transaction become visible together.
commitDecision(r, d) == /\ queue' = [queue EXCEPT ![r] = d]
                        /\ audit' = [audit EXCEPT ![r][d] = @ + 1]
                        /\ lock' = [lock EXCEPT ![r] = Unlocked]

\* The end of conn.transaction(): COMMIT succeeds and _decide goes on to the POST.
Commit(w) == /\ pc[w] = "committing"
             /\ commitDecision(id[w], choice[w])
             /\ goto(w, "posting")
             /\ UNCHANGED <<limbo, received, crashes>>

\* Mutant of DatabaseError: the connection is left open with its transaction.
DatabaseErrorLeaks(w) == /\ pc[w] \in {"claiming", "auditing", "committing"}
                         /\ redirect(w, "db_error")
                         /\ UNCHANGED <<serverVars, received, crashes>>

\* psycopg.Error, from the connection attempt to a refused COMMIT: the
\* transaction is rolled back and _decide reports db_error.
DatabaseError(w) == /\ pc[w] \in {"claiming", "auditing", "committing"}
                    /\ lock' = [r \in Reviews |-> IF lock[r] = w THEN Unlocked ELSE lock[r]]
                    /\ redirect(w, "db_error")
                    /\ UNCHANGED <<queue, limbo, audit, received, crashes>>

\* Mutant of CommitUnknown: the failed COMMIT is taken for a success.
CommitUnknownPosts(w) == /\ pc[w] = "committing"
                         /\ lock' = [lock EXCEPT ![id[w]] = "limbo"]
                         /\ limbo' = [limbo EXCEPT ![id[w]] = choice[w]]
                         /\ goto(w, "posting")
                         /\ UNCHANGED <<queue, audit, received, crashes>>

\* The connection breaks while COMMIT is under way: _decide reports db_error,
\* and the server may or may not commit.
CommitUnknown(w) == /\ pc[w] = "committing"
                    /\ lock' = [lock EXCEPT ![id[w]] = "limbo"]
                    /\ limbo' = [limbo EXCEPT ![id[w]] = choice[w]]
                    /\ redirect(w, "db_error")
                    /\ UNCHANGED <<queue, audit, received, crashes>>

LimboCommits(r) == /\ limbo[r] # "none"
                   /\ commitDecision(r, limbo[r])
                   /\ limbo' = [limbo EXCEPT ![r] = "none"]
                   /\ UNCHANGED <<pc, id, choice, notice, received, crashes>>

LimboAborts(r) == /\ limbo[r] # "none"
                  /\ lock' = [lock EXCEPT ![r] = Unlocked]
                  /\ limbo' = [limbo EXCEPT ![r] = "none"]
                  /\ UNCHANGED <<pc, id, choice, notice, queue, audit, received, crashes>>

receive(w) == received' = [received EXCEPT ![id[w]][choice[w]] = @ + 1]

\* post_decision: the receiver gets the message and answers 2xx.
PostOk(w) == /\ pc[w] = "posting"
             /\ receive(w)
             /\ redirect(w, choice[w])
             /\ UNCHANGED <<serverVars, crashes>>

\* Mutant of PostFails: ReceiverError is ignored.
PostFailsQuietly(w) == /\ pc[w] = "posting"
                       /\ receive(w) \/ UNCHANGED received
                       /\ redirect(w, choice[w])
                       /\ UNCHANGED <<serverVars, crashes>>

\* httpx.HTTPError: nobody listens, or the receiver got the message and its
\* answer is an error, too late or lost.  There is no second attempt.
PostFails(w) == /\ pc[w] = "posting"
                /\ receive(w) \/ UNCHANGED received
                /\ redirect(w, ReceiverFailed(choice[w]))
                /\ UNCHANGED <<serverVars, crashes>>

\* The reviewer's browser follows the redirect.
Finish(w) == /\ pc[w] = "redirecting"
             /\ pc' = [pc EXCEPT ![w] = "idle"]
             /\ id' = [id EXCEPT ![w] = NoReview]
             /\ choice' = [choice EXCEPT ![w] = "none"]
             /\ notice' = [notice EXCEPT ![w] = "none"]
             /\ UNCHANGED <<serverVars, received, crashes>>

\* The process dies and restarts.  Postgres rolls its transactions back, but
\* for those whose COMMIT may have been sent.
Crash == /\ crashes < MaxCrashes
         /\ crashes' = crashes + 1
         /\ pc' = [w \in Workers |-> "idle"]
         /\ id' = [w \in Workers |-> NoReview]
         /\ choice' = [w \in Workers |-> "none"]
         /\ notice' = [w \in Workers |-> "none"]
         /\ lock' = [r \in Reviews |->
                       IF lock[r] \notin Workers THEN lock[r]
                       ELSE IF pc[lock[r]] = "committing" THEN "limbo" ELSE Unlocked]
         /\ limbo' = [r \in Reviews |->
                       IF lock[r] \in Workers /\ pc[lock[r]] = "committing"
                       THEN choice[lock[r]] ELSE limbo[r]]
         /\ UNCHANGED <<queue, audit, received>>

Next == \/ \E w \in Workers : \/ \E r \in Reviews, d \in Decisions : Decide(w, r, d)
                              \/ Claim(w) \/ InsertAudit(w) \/ Commit(w)
                              \/ DatabaseError(w) \/ CommitUnknown(w)
                              \/ PostOk(w) \/ PostFails(w) \/ Finish(w)
        \/ \E r \in Reviews : Enqueue(r) \/ LimboCommits(r) \/ LimboAborts(r)
        \/ Crash

Spec == Init /\ [][Next]_vars

-----------------------------------------------------------------------------
\* A review's status and its audit trail agree whatever fails: a decided item
\* has exactly one audit row, for that decision, and an undecided one has none
\* (claim and audit share a transaction in apply_decision).
AuditMatchesStatus ==
    \A r \in Reviews, d \in Decisions : audit[r][d] = (IF queue[r] = d THEN 1 ELSE 0)

\* The receiver hears of a review at most once, and only the decision that is
\* in the table, although reviewers race and retry (_decide posts only what its
\* own UPDATE claimed, after the commit).
ReceivedIsDecided ==
    \A r \in Reviews, d \in Decisions :
        received[r][d] <= 1 /\ (received[r][d] = 1 => queue[r] = d)

\* What the reviewer is told is true: an approved or rejected notice names the
\* decision in the table, and without "receiver_failed" the receiver has it.
NoticeIsTrue ==
    \A w \in Workers, d \in Decisions :
        /\ notice[w] \in {d, ReceiverFailed(d)} => queue[id[w]] = d
        /\ notice[w] = d => received[id[w]][d] = 1

\* review-ui implements WriteOnce: the first committed decision on a review is
\* final, and the receiver is told only of committed decisions.
Ledger == INSTANCE WriteOnce WITH
             Keys <- Reviews, Rows <- Decisions, NoRow <- "none",
             stored <- [r \in Reviews |-> IF queue[r] \in Decisions THEN queue[r] ELSE "none"],
             told <- {r \in Reviews : \E d \in Decisions : received[r][d] > 0}
DecisionIsFinal == Ledger!Spec

-----------------------------------------------------------------------------
\* A worker goes on, the browser follows its redirect, and Postgres ends every
\* transaction it holds.  Postgres grants row locks in the order of waiting, so
\* a claim that is possible again and again succeeds; an error is never owed to it.
Fairness ==
    /\ \A w \in Workers : /\ SF_vars(Claim(w))
                          /\ WF_vars(pc[w] = "auditing" /\ (InsertAudit(w) \/ DatabaseError(w)))
                          /\ WF_vars(Commit(w) \/ CommitUnknown(w))
                          /\ WF_vars(PostOk(w) \/ PostFails(w))
                          /\ WF_vars(Finish(w))
    /\ \A r \in Reviews : WF_vars(LimboCommits(r) \/ LimboAborts(r))

FairSpec == Spec /\ Fairness

\* Every click is answered or dies with the process: no request waits forever
\* for a row lock (connections are closed on every path of apply_decision).
EveryRequestEnds == \A w \in Workers : pc[w] = "claiming" ~> pc[w] = "idle"

\* "On decision, posts a signed message to [PLT] Review Decision Receiver":
\* a decided review is eventually received.
DecisionIsPosted ==
    \A r \in Reviews, d \in Decisions : queue[r] = d ~> received[r][d] > 0
=============================================================================
