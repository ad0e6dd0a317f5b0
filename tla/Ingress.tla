------------------------------- MODULE Ingress -------------------------------
(***************************************************************************)
(* The p03 webhook ingress: concurrent runs of handleHook over one inbox,  *)
(* providers that post and post again, a database that can fail before,    *)
(* during and after the insert, and a process that can die at any point.   *)
(*                                                                         *)
(* Durable chooses the store: TRUE is SQLStore over Postgres, FALSE the    *)
(* MemoryStore that cmd/ingress/main.go wires.                             *)
(***************************************************************************)
EXTENDS WebhookAuth

CONSTANTS Handlers,      \* goroutines serving POST /hooks/{source}
          Messages,      \* the requests providers send, and send again
          NoMsg, NoRow,
          Durable,
          MaxClock,      \* bound on the clock
          MaxCrashes     \* bound on the number of crashes

ASSUME BoundsAssumption == MaxClock \in Nat /\ MaxCrashes \in Nat
ASSUME StoreAssumption == Durable \in BOOLEAN
ASSUME NoRowAssumption == \A m \in Messages : InboxEvent(m) # NoRow

VARIABLES pc, msg, status, result,   \* per handler: where it is, its request, its answer
          rows,                      \* p03.inbox_events by unique key
          orphans,                   \* inserts sent to Postgres whose handler is gone
          acked,                     \* requests whose provider has seen a 200
          wins,                      \* how often "new" was answered for a key
          clock, crashes

handlerVars == <<pc, msg, status, result>>
vars == <<pc, msg, status, result, rows, orphans, acked, wins, clock, crashes>>

Keys == {inboxKey(m) : m \in Messages}
Rows == {InboxEvent(m) : m \in Messages}
Statuses == {0, 200, 400, 401, 404, 413, 503}
Results == {"none", "new", "duplicate"}

TypeOK == /\ pc \in [Handlers -> {"idle", "reading", "inserting", "responding"}]
          /\ msg \in [Handlers -> Messages \union {NoMsg}]
          /\ status \in [Handlers -> Statuses]
          /\ result \in [Handlers -> Results]
          /\ rows \in [Keys -> Rows \union {NoRow}]
          /\ orphans \subseteq Messages
          /\ acked \subseteq Messages
          /\ wins \in [Keys -> Nat]
          /\ clock \in 0..MaxClock
          /\ crashes \in 0..MaxCrashes

Init == /\ pc = [h \in Handlers |-> "idle"]
        /\ msg = [h \in Handlers |-> NoMsg]
        /\ status = [h \in Handlers |-> 0]
        /\ result = [h \in Handlers |-> "none"]
        /\ rows = [k \in Keys |-> NoRow]
        /\ orphans = {}
        /\ acked = {}
        /\ wins = [k \in Keys |-> 0]
        /\ clock = 0
        /\ crashes = 0

-----------------------------------------------------------------------------
\* A provider sends m, for the first time or again.  Providers give up on no
\* request: a copy may arrive even after a 200.
Post(h, m) == /\ pc[h] = "idle"
              /\ pc' = [pc EXCEPT ![h] = "reading"]
              /\ msg' = [msg EXCEPT ![h] = m]
              /\ UNCHANGED <<status, result, rows, orphans, acked, wins, clock, crashes>>

answer(h, code, res) == /\ pc' = [pc EXCEPT ![h] = "responding"]
                        /\ status' = [status EXCEPT ![h] = code]
                        /\ result' = [result EXCEPT ![h] = res]
                        /\ UNCHANGED msg

\* The body is read and checked; a request that fails a check is answered
\* without touching the store.
Check(h) == /\ pc[h] = "reading"
            /\ LET code == hookStatus(msg[h], clock)
               IN  IF code = 0
                   THEN /\ pc' = [pc EXCEPT ![h] = "inserting"]
                        /\ UNCHANGED <<msg, status, result>>
                   ELSE answer(h, code, "none")
            /\ UNCHANGED <<rows, orphans, acked, wins, clock, crashes>>

\* Mutant of insertRow: ON CONFLICT DO UPDATE.
insertRowUpsert(m) == rows' = [rows EXCEPT ![inboxKey(m)] = InboxEvent(m)]

\* INSERT ... ON CONFLICT (source, external_event_id) DO NOTHING.
insertRow(m) == rows' = IF rows[inboxKey(m)] = NoRow
                        THEN [rows EXCEPT ![inboxKey(m)] = InboxEvent(m)]
                        ELSE rows

\* Postgres refuses a payload its jsonb type cannot hold; a Go map holds any.
storable(m) == Durable => m.body.jsonb

\* Mutants of Insert: every insert is reported as the winner; a conflict is
\* reported as an error.
InsertAlwaysNew(h) == LET k == inboxKey(msg[h])
                      IN  /\ pc[h] = "inserting"
                          /\ storable(msg[h])
                          /\ insertRow(msg[h])
                          /\ answer(h, 200, "new")
                          /\ wins' = [wins EXCEPT ![k] = @ + 1]
                          /\ UNCHANGED <<orphans, acked, clock, crashes>>

InsertConflictFails(h) == LET k == inboxKey(msg[h])
                          IN  /\ pc[h] = "inserting"
                              /\ storable(msg[h])
                              /\ insertRow(msg[h])
                              /\ IF rows[k] = NoRow
                                 THEN answer(h, 200, "new") /\ wins' = [wins EXCEPT ![k] = @ + 1]
                                 ELSE answer(h, 503, "none") /\ UNCHANGED wins
                              /\ UNCHANGED <<orphans, acked, clock, crashes>>

\* Store.Insert returns without an error: "new" for the insert that made the row.
Insert(h) == LET k == inboxKey(msg[h])
             IN  /\ pc[h] = "inserting"
                 /\ storable(msg[h])
                 /\ insertRow(msg[h])
                 /\ IF rows[k] = NoRow
                    THEN answer(h, 200, "new") /\ wins' = [wins EXCEPT ![k] = @ + 1]
                    ELSE answer(h, 200, "duplicate") /\ UNCHANGED wins
                 /\ UNCHANGED <<orphans, acked, clock, crashes>>

\* Mutants of InsertError: the error is swallowed; the status is outside the contract.
InsertErrorSwallowed(h) == /\ Durable
                           /\ pc[h] = "inserting"
                           /\ answer(h, 200, "duplicate")
                           /\ UNCHANGED <<rows, orphans, acked, wins, clock, crashes>>

InsertErrorInternal(h) == /\ Durable
                          /\ pc[h] = "inserting"
                          /\ answer(h, 500, "none")
                          /\ UNCHANGED <<rows, orphans, acked, wins, clock, crashes>>

\* SQLStore.Insert returns an error and the row was not written.
InsertError(h) == /\ Durable
                  /\ pc[h] = "inserting"
                  /\ answer(h, 503, "none")
                  /\ UNCHANGED <<rows, orphans, acked, wins, clock, crashes>>

\* Exec fails on the client's side (r.Context() cancelled, connection lost)
\* while the statement is with Postgres, which may still commit it.
InsertUnknown(h) == /\ Durable
                    /\ pc[h] = "inserting"
                    /\ storable(msg[h])
                    /\ orphans' = orphans \union {msg[h]}
                    /\ answer(h, 503, "none")
                    /\ UNCHANGED <<rows, acked, wins, clock, crashes>>

\* Postgres commits, or drops, a statement nobody waits for any more.
OrphanCommit(m) == /\ m \in orphans
                   /\ orphans' = orphans \ {m}
                   /\ insertRow(m)
                   /\ UNCHANGED <<handlerVars, acked, wins, clock, crashes>>

OrphanAbort(m) == /\ m \in orphans
                  /\ orphans' = orphans \ {m}
                  /\ UNCHANGED <<handlerVars, rows, acked, wins, clock, crashes>>

release(h) == /\ pc' = [pc EXCEPT ![h] = "idle"]
              /\ msg' = [msg EXCEPT ![h] = NoMsg]
              /\ status' = [status EXCEPT ![h] = 0]
              /\ result' = [result EXCEPT ![h] = "none"]

\* writeJSON reaches the provider.
Respond(h) == /\ pc[h] = "responding"
              /\ acked' = IF status[h] = 200 THEN acked \union {msg[h]} ELSE acked
              /\ release(h)
              /\ UNCHANGED <<rows, orphans, wins, clock, crashes>>

\* The connection is gone before the answer arrives.
ResponseLost(h) == /\ pc[h] = "responding"
                   /\ release(h)
                   /\ UNCHANGED <<rows, orphans, acked, wins, clock, crashes>>

\* The process dies, or is shut down, and comes back.  A MemoryStore comes
\* back empty (NewMemoryStore in run); Postgres keeps its rows and may still
\* hold the statements of the dead process.
Crash == /\ crashes < MaxCrashes
         /\ crashes' = crashes + 1
         /\ pc' = [h \in Handlers |-> "idle"]
         /\ msg' = [h \in Handlers |-> NoMsg]
         /\ status' = [h \in Handlers |-> 0]
         /\ result' = [h \in Handlers |-> "none"]
         /\ IF Durable
            THEN /\ orphans' = orphans \union
                       {m \in Messages : storable(m) /\ \E h \in Handlers : pc[h] = "inserting" /\ msg[h] = m}
                 /\ UNCHANGED rows
            ELSE /\ rows' = [k \in Keys |-> NoRow]
                 /\ UNCHANGED orphans
         /\ UNCHANGED <<acked, wins, clock>>

Tick == /\ clock < MaxClock
        /\ clock' = clock + 1
        /\ UNCHANGED <<handlerVars, rows, orphans, acked, wins, crashes>>

Next == \/ \E h \in Handlers : \/ \E m \in Messages : Post(h, m)
                               \/ Check(h)
                               \/ Insert(h)
                               \/ InsertError(h)
                               \/ InsertUnknown(h)
                               \/ Respond(h)
                               \/ ResponseLost(h)
        \/ \E m \in Messages : OrphanCommit(m) \/ OrphanAbort(m)
        \/ Crash
        \/ Tick

Spec == Init /\ [][Next]_vars

-----------------------------------------------------------------------------
\* Stored before 2xx: whenever a provider has seen a 200 for a request, the
\* inbox holds the row of its key, whatever crashed or was lost in between
\* (handleHook answers 200 only after Store.Insert).
AckedIsStored == \A m \in acked : rows[inboxKey(m)] # NoRow

\* One winner: of all deliveries of one key, concurrent, repeated or crossing
\* a crash, at most one is answered "new", and then the row exists
\* (rowsAffected of ON CONFLICT DO NOTHING).
NewOnce == \A k \in Keys : wins[k] <= 1 /\ (wins[k] = 1 => rows[k] # NoRow)

\* The headers of m carry a MAC that the owner of its source's secret made over
\* its body, with or without a timestamp.
SignedByOwner(m) ==
    \E c \in {m.sig.mac} \union {m.parts[i].mac : i \in DOMAIN m.parts} :
        \/ c = PlainMac(Secret(m.source), m.body)
        \/ Len(c) = 3 /\ c[1] = Secret(m.source) /\ c[3] = m.body

\* Nothing unauthentic is stored: every row is the event of a request with the
\* row's key whose body the provider signed, however its insert came about
\* (handleHook verifies before it extracts and inserts).
StoredIsAuthentic ==
    \A k \in Keys : rows[k] # NoRow =>
        \E m \in Messages : inboxKey(m) = k /\ rows[k] = InboxEvent(m) /\ SignedByOwner(m)

\* The ingress implements the promise of WriteOnce: rows are write-once and only
\* recorded keys are acknowledged.
Promise == INSTANCE WriteOnce WITH stored <- rows, told <- {inboxKey(m) : m \in acked}
ImplementsInbox == Promise!Spec

-----------------------------------------------------------------------------
\* What the environment and the scheduler owe: a running handler goes on; a
\* provider keeps posting a request that was not acknowledged; a database
\* and a connection that work again and again serve each request eventually.
ServingHandler(h, m) == msg[h] = m
Fairness ==
    /\ \A h \in Handlers : WF_vars(Check(h)) /\ WF_vars(Respond(h) \/ ResponseLost(h))
                           /\ WF_vars(Insert(h) \/ InsertError(h) \/ InsertUnknown(h))
    /\ \A m \in Messages :
          /\ SF_vars(m \notin acked /\ \E h \in Handlers : Post(h, m))
          /\ SF_vars(\E h \in Handlers : ServingHandler(h, m) /\ Insert(h))
          /\ SF_vars(\E h \in Handlers : ServingHandler(h, m) /\ status[h] = 200 /\ Respond(h))

FairSpec == Spec /\ Fairness

\* A request that its signature check accepts at any time, and whose payload
\* the store can hold.
Deliverable(m) == storable(m) /\ \A t \in 0..MaxClock : hookStatus(m, t) = 0

\* Retrying works: an authentic event is eventually acknowledged although
\* inserts fail, answers get lost and the process dies (503 asks for a retry,
\* a repeated insert is answered "duplicate" with 200).
EventuallyAcked == \A m \in Messages : Deliverable(m) => <>(m \in acked)
=============================================================================
