------------------------------- MODULE FlakyApi -------------------------------
(***************************************************************************)
(* The fault-injecting mock API (platform/services/flaky-api): concurrent  *)
(* requests through withFaults, the item store, POST /admin/mode and POST  *)
(* /admin/reset.  Modes, counters, metrics and items each have a lock of   *)
(* their own, so a step is one critical section, and a reset is four.      *)
(*                                                                         *)
(* An item is [id, name]; its id is [kind, val]: "none" when the field is  *)
(* missing, null or empty, "text" for the decimal text of val, "number"    *)
(* for a JSON number of val tenths.  A mode is [auth, rate, status]: rate  *)
(* is "zero", "some" (between 0 and 1) or "one", status 0 when unset.      *)
(***************************************************************************)
EXTENDS Naturals, FiniteSets

CONSTANTS Clients,      \* goroutines serving item requests
          Requests,     \* [route, item]
          Modes,        \* routeModes that /admin/mode is asked for
          MaxKey,       \* largest id that occurs
          MaxRequests,  \* bound on the number of item requests
          MaxModes,     \* bound on the number of mode changes
          MaxResets,    \* bound on the number of resets
          NoItem, NoRequest

ASSUME BoundsAssumption == /\ MaxRequests \in Nat /\ MaxModes \in Nat /\ MaxResets \in Nat
                           /\ MaxKey \in Nat /\ MaxKey > MaxRequests

Keys == 1..MaxKey

Routes == {"GET /items", "POST /items", "PUT /items", "GET /items/{id}"}

Names == {r.item.name : r \in Requests}

ASSUME RequestsAssumption == /\ IsFiniteSet(Clients)
                             /\ \A r \in Requests :
                                  /\ r.route \in Routes
                                  /\ r.item \in [id : [kind : {"none", "text", "number"}, val : Nat], name : Names]

NoFault == [auth |-> FALSE, rate |-> "zero", status |-> 0]

VARIABLES pc, req, mode, code,   \* per client: step of withFaults, request, mode snapshot, status
          modes,                 \* modeStore, NoFault where nothing is set
          stats,                 \* statStore
          metrics,               \* metricStore, summed over the status codes
          items, seq,            \* store
          admin,                 \* step of handleAdminReset, "idle" outside
          quiet,                 \* nothing else has run since the last reset began
          issued, changed, resets

storeVars == <<items, seq>>
requestVars == <<pc, req, mode, code>>
bounds == <<issued, changed, resets>>
vars == <<pc, req, mode, code, modes, stats, metrics, items, seq, admin, quiet, issued, changed, resets>>

Codes == {0, 200, 201, 400, 401, 404, 409, 500} \union {m.status : m \in Modes}

\* What a client sent, and the same with an id of the store's own.
Items == {r.item : r \in Requests} \union [id : [kind : {"text"}, val : Keys], name : Names]

TypeOK == /\ pc \in [Clients -> {"idle", "counted", "deciding", "observing"}]
          /\ req \in [Clients -> Requests \union {NoRequest}]
          /\ mode \in [Clients -> Modes \union {NoFault}]
          /\ code \in [Clients -> Codes]
          /\ modes \in [Routes -> Modes \union {NoFault}]
          /\ stats \in [Routes -> Nat] /\ metrics \in [Routes -> Nat]
          /\ items \in [Keys -> Items \union {NoItem}]
          /\ seq \in Nat
          /\ admin \in {"idle", "stats", "metrics", "store", "done"}
          /\ quiet \in BOOLEAN
          /\ issued \in 0..MaxRequests /\ changed \in 0..MaxModes /\ resets \in 0..MaxResets

Empty == [k \in Keys |-> NoItem]
Zero == [r \in Routes |-> 0]

Init == /\ pc = [c \in Clients |-> "idle"]
        /\ req = [c \in Clients |-> NoRequest]
        /\ mode = [c \in Clients |-> NoFault]
        /\ code = [c \in Clients |-> 0]
        /\ modes = [r \in Routes |-> NoFault]
        /\ stats = Zero /\ metrics = Zero
        /\ items = Empty /\ seq = 0
        /\ admin = "idle" /\ quiet = FALSE
        /\ issued = 0 /\ changed = 0 /\ resets = 0

-----------------------------------------------------------------------------
\* withFaults: the request is counted first ...
Start(c, r) == /\ pc[c] = "idle"
               /\ issued < MaxRequests
               /\ issued' = issued + 1
               /\ pc' = [pc EXCEPT ![c] = "counted"]
               /\ req' = [req EXCEPT ![c] = r]
               /\ stats' = [stats EXCEPT ![r.route] = @ + 1]
               /\ quiet' = FALSE
               /\ UNCHANGED <<mode, code, modes, metrics, storeVars, admin, changed, resets>>

\* ... then the mode is read once, for the whole request, and slept on.
ReadMode(c) == /\ pc[c] = "counted"
               /\ pc' = [pc EXCEPT ![c] = "deciding"]
               /\ mode' = [mode EXCEPT ![c] = modes[req[c].route]]
               /\ UNCHANGED <<req, code, modes, stats, metrics, storeVars, admin, quiet, bounds>>

finish(c, status) == /\ pc' = [pc EXCEPT ![c] = "observing"]
                     /\ code' = [code EXCEPT ![c] = status]
                     /\ UNCHANGED <<req, mode, modes, stats, metrics, admin, quiet, bounds>>

\* shouldFail, where rand.Float64() may decide either way.
mayFail(m) == m.rate # "zero" \/ m.status # 0
mayPass(m) == m.rate = "some" \/ (m.rate = "zero" /\ m.status = 0)

\* Mutants of Fault: an unset status is answered with 503; a 401 is not observed.
FaultUnavailable(c) == /\ pc[c] = "deciding"
                       /\ \/ mode[c].auth /\ finish(c, 401)
                          \/ /\ ~mode[c].auth /\ mayFail(mode[c])
                             /\ finish(c, IF mode[c].status = 0 THEN 503 ELSE mode[c].status)
                       /\ UNCHANGED storeVars

FaultUnobserved(c) == /\ pc[c] = "deciding"
                      /\ \/ /\ mode[c].auth
                            /\ pc' = [pc EXCEPT ![c] = "idle"]
                            /\ UNCHANGED <<req, mode, code, modes, stats, metrics, admin, quiet, bounds>>
                         \/ /\ ~mode[c].auth /\ mayFail(mode[c])
                            /\ finish(c, IF mode[c].status = 0 THEN 500 ELSE mode[c].status)
                      /\ UNCHANGED storeVars

\* The two early returns of withFaults: a 401, or the mode's status.
Fault(c) == /\ pc[c] = "deciding"
            /\ \/ mode[c].auth /\ finish(c, 401)
               \/ /\ ~mode[c].auth /\ mayFail(mode[c])
                  /\ finish(c, IF mode[c].status = 0 THEN 500 ELSE mode[c].status)
            /\ UNCHANGED storeVars

passes(c) == pc[c] = "deciding" /\ ~mode[c].auth /\ mayPass(mode[c])

\* itemID: a number is cut to its integer part.
hasID(item) == item.id.kind # "none"
itemID(item) == IF item.id.kind = "number" THEN item.id.val \div 10 ELSE item.id.val
Text(k) == [kind |-> "text", val |-> k]

\* Mutant of create: no conflict check.
createBlindly(c, item) ==
    LET k == IF hasID(item) THEN itemID(item) ELSE seq + 1
    IN  /\ items' = [items EXCEPT ![k] = [item EXCEPT !.id = Text(k)]]
        /\ seq' = IF hasID(item) THEN seq ELSE seq + 1
        /\ finish(c, 201)

\* store.create: an explicit id may not exist yet, a missing one is generated.
create(c, item) ==
    IF hasID(item)
    THEN IF items[itemID(item)] # NoItem
         THEN finish(c, 409) /\ UNCHANGED storeVars
         ELSE finish(c, 201) /\ items' = [items EXCEPT ![itemID(item)] = item] /\ UNCHANGED seq
    ELSE /\ seq' = seq + 1
         /\ items' = [items EXCEPT ![seq + 1] = [item EXCEPT !.id = Text(seq + 1)]]
         /\ finish(c, 201)

\* store.upsert.
upsert(c, item) ==
    IF hasID(item)
    THEN /\ items' = [items EXCEPT ![itemID(item)] = [item EXCEPT !.id = Text(itemID(item))]]
         /\ finish(c, 200) /\ UNCHANGED seq
    ELSE finish(c, 400) /\ UNCHANGED storeVars

handleListItems(c) == /\ passes(c) /\ req[c].route = "GET /items"
                      /\ finish(c, 200) /\ UNCHANGED storeVars
handleCreateItem(c) == passes(c) /\ req[c].route = "POST /items" /\ create(c, req[c].item)
handlePutItem(c) == passes(c) /\ req[c].route = "PUT /items" /\ upsert(c, req[c].item)
handleGetItem(c) == /\ passes(c) /\ req[c].route = "GET /items/{id}"
                    /\ finish(c, IF items[req[c].item.id.val] = NoItem THEN 404 ELSE 200)
                    /\ UNCHANGED storeVars

\* observe counts the answer; the answer itself has been written.
Observe(c) == /\ pc[c] = "observing"
              /\ metrics' = [metrics EXCEPT ![req[c].route] = @ + 1]
              /\ pc' = [pc EXCEPT ![c] = "idle"]
              /\ req' = [req EXCEPT ![c] = NoRequest]
              /\ mode' = [mode EXCEPT ![c] = NoFault]
              /\ code' = [code EXCEPT ![c] = 0]
              /\ UNCHANGED <<modes, stats, storeVars, admin, quiet, bounds>>

handleAdminMode(r, m) == /\ changed < MaxModes
                         /\ changed' = changed + 1
                         /\ modes' = [modes EXCEPT ![r] = m]
                         /\ quiet' = FALSE
                         /\ UNCHANGED <<requestVars, stats, metrics, storeVars, admin, issued, resets>>

\* handleAdminReset: modes, stats, metrics and store, each under its own lock.
ResetModes == /\ admin = "idle" /\ resets < MaxResets
              /\ resets' = resets + 1
              /\ admin' = "stats"
              /\ modes' = [r \in Routes |-> NoFault]
              /\ quiet' = (\A c \in Clients : pc[c] = "idle")
              /\ UNCHANGED <<requestVars, stats, metrics, storeVars, issued, changed>>

ResetStats == /\ admin = "stats" /\ admin' = "metrics"
              /\ stats' = Zero
              /\ UNCHANGED <<requestVars, modes, metrics, storeVars, quiet, bounds>>

ResetMetrics == /\ admin = "metrics" /\ admin' = "store"
                /\ metrics' = Zero
                /\ UNCHANGED <<requestVars, modes, stats, storeVars, quiet, bounds>>

\* Mutant of ResetStore: the sequence goes on.
ResetItemsOnly == /\ admin = "store" /\ admin' = "done"
                  /\ items' = Empty
                  /\ UNCHANGED <<requestVars, modes, stats, metrics, seq, quiet, bounds>>

ResetStore == /\ admin = "store" /\ admin' = "done"
              /\ items' = Empty /\ seq' = 0
              /\ UNCHANGED <<requestVars, modes, stats, metrics, quiet, bounds>>

\* The next reset may come.
ResetAnswered == /\ admin = "done" /\ admin' = "idle"
                 /\ quiet' = FALSE
                 /\ UNCHANGED <<requestVars, modes, stats, metrics, storeVars, bounds>>

\* Nothing is left to do within the bounds.
Idle == /\ issued = MaxRequests /\ admin = "idle" /\ \A c \in Clients : pc[c] = "idle"
        /\ UNCHANGED vars

Next == \/ \E c \in Clients : \/ \E r \in Requests : Start(c, r)
                              \/ ReadMode(c) \/ Fault(c)
                              \/ handleListItems(c) \/ handleCreateItem(c)
                              \/ handlePutItem(c) \/ handleGetItem(c)
                              \/ Observe(c)
        \/ \E r \in Routes, m \in Modes : handleAdminMode(r, m)
        \/ ResetModes \/ ResetStats \/ ResetMetrics \/ ResetStore \/ ResetAnswered
        \/ Idle

Spec == Init /\ [][Next]_vars

-----------------------------------------------------------------------------
InFlight(r) == {c \in Clients : pc[c] # "idle" /\ req[c].route = r}

\* The counters tests use to assert "no hammering" and the metrics agree: a
\* request is in both, or in stats and still running, on every path through
\* withFaults (until a reset comes between its count and its metric).
CountsAgree == resets = 0 =>
    \A r \in Routes : stats[r] = metrics[r] + Cardinality(InFlight(r))

\* A reset that nothing else runs beside leaves the service as it started: no
\* counts, no metrics, no modes, no items, and generated ids begin anew
\* (handleAdminReset clears four stores one after the other).
ResetIsClean == admin = "done" /\ quiet =>
    /\ modes = [r \in Routes |-> NoFault]
    /\ stats = Zero /\ metrics = Zero
    /\ items = Empty /\ seq = 0

\* No item is sent with an id that the store generates within the bound.
IdsApart == \A r \in Requests :
    r.route \in {"POST /items", "PUT /items"} /\ hasID(r.item) => itemID(r.item) > MaxRequests

\* POST /items never replaces an item: what is in the store changes only by a
\* PUT or a reset ("item already exists", errConflict).
CreatePreserves ==
    [][\A k \in Keys : items[k] # NoItem /\ items'[k] # items[k] =>
          \/ items' = Empty /\ admin = "store"
          \/ \E c \in Clients : pc[c] = "deciding" /\ pc'[c] = "observing" /\ req[c].route = "PUT /items"]_vars
=============================================================================
