----------------------------- MODULE MocksProofs -----------------------------
(***************************************************************************)
(* Proofs about the mock services: the flaky API (FlakyApi), for any       *)
(* finite number of clients and any requests, modes, mode changes and      *)
(* resets, and the mock LLM (MockLlm), for any set of requests and any     *)
(* number of mode changes.                                                 *)
(***************************************************************************)
EXTENDS FlakyApi, MockLlm, FiniteSetTheorems, TLAPS

Counters == /\ pc \in [Clients -> {"idle", "counted", "deciding", "observing"}]
            /\ req \in [Clients -> Requests \union {NoRequest}]
            /\ stats \in [Routes -> Nat] /\ metrics \in [Routes -> Nat]
            /\ resets \in Nat
            /\ admin \in {"idle", "stats", "metrics", "store", "done"}
            /\ \A c \in Clients : pc[c] # "idle" => req[c] \in Requests
            /\ admin # "idle" => resets > 0

\* How far a reset beside which nothing runs has come.
Cleaning == quiet =>
    /\ admin # "idle"
    /\ \A c \in Clients : pc[c] = "idle"
    /\ modes = [r \in Routes |-> NoFault]
    /\ admin \in {"metrics", "store", "done"} => stats = Zero
    /\ admin \in {"store", "done"} => metrics = Zero
    /\ admin = "done" => items = Empty /\ seq = 0

\* The inductive invariant.
IInv == Counters /\ CountsAgree /\ Cleaning

\* A request that starts joins the ones in flight on its route, and no other.
LEMMA Joins ==
    ASSUME Counters, NEW c \in Clients, NEW q \in Requests, Start(c, q)
    PROVE  /\ c \notin InFlight(q.route)
           /\ InFlight(q.route)' = InFlight(q.route) \union {c}
           /\ \A r \in Routes \ {q.route} : InFlight(r)' = InFlight(r)
  BY DEF Counters, Start, InFlight

\* One that has been observed leaves them.
LEMMA Leaves ==
    ASSUME Counters, NEW c \in Clients, Observe(c), NEW CONSTANT route, route = req[c].route
    PROVE  /\ c \in InFlight(route)
           /\ InFlight(route)' = InFlight(route) \ {c}
           /\ \A r \in Routes \ {route} : InFlight(r)' = InFlight(r)
  BY DEF Counters, Observe, InFlight

\* The requests in flight are finitely many.
LEMMA Finite == \A r : IsFiniteSet(InFlight(r)) /\ Cardinality(InFlight(r)) \in Nat
  <1>1. \A r : IsFiniteSet(InFlight(r))
    BY RequestsAssumption, FS_Subset DEF InFlight
  <1> QED
    BY <1>1, FS_CardinalityType

\* What the handlers between the counting and the observing do.
Handling(c) == \/ ReadMode(c) \/ Fault(c) \/ handleListItems(c) \/ handleCreateItem(c)
               \/ handlePutItem(c) \/ handleGetItem(c)

\* They leave the counters, the metrics and the request alone, on every path.
LEMMA HandlingFacts ==
    ASSUME Counters, NEW c \in Clients, Handling(c)
    PROVE  /\ pc[c] # "idle" /\ (pc' = [pc EXCEPT ![c] = "deciding"] \/ pc' = [pc EXCEPT ![c] = "observing"])
           /\ UNCHANGED <<req, stats, metrics, modes, admin, quiet, resets>>
  <1>1. CASE ReadMode(c)
    BY <1>1 DEF ReadMode, bounds
  <1>2. CASE Fault(c)
    BY <1>2 DEF Fault, finish, bounds
  <1>3. CASE handleListItems(c)
    BY <1>3, Zenon DEF handleListItems, passes, finish, bounds
  <1>4. CASE handleGetItem(c)
    BY <1>4, Zenon DEF handleGetItem, passes, finish, bounds
  <1>5. CASE handleCreateItem(c)
    <2>1. pc[c] = "deciding" /\ create(c, req[c].item)
      BY <1>5, Zenon DEF handleCreateItem, passes
    <2>2. finish(c, 201) \/ finish(c, 409)
      BY <2>1 DEF create
    <2> QED
      BY <2>1, <2>2 DEF finish, bounds
  <1>6. CASE handlePutItem(c)
    <2>1. pc[c] = "deciding" /\ upsert(c, req[c].item)
      BY <1>6, Zenon DEF handlePutItem, passes
    <2>2. finish(c, 200) \/ finish(c, 400)
      BY <2>1 DEF upsert
    <2> QED
      BY <2>1, <2>2 DEF finish, bounds
  <1> QED
    BY <1>1, <1>2, <1>3, <1>4, <1>5, <1>6 DEF Handling

\* The initial state satisfies the invariant.
LEMMA InitIInv == Init => IInv
  <1> SUFFICES ASSUME Init PROVE IInv
    OBVIOUS
  <1>1. Counters /\ Cleaning
    BY DEF Init, Counters, Cleaning, Zero
  <1>2. \A r \in Routes : InFlight(r) = {}
    BY DEF Init, InFlight
  <1>3. CountsAgree
    BY <1>2, FS_EmptySet DEF CountsAgree, Init, Zero
  <1> QED
    BY <1>1, <1>3 DEF IInv

\* Counting a request.
LEMMA StartIInv == ASSUME IInv, NEW c \in Clients, NEW q \in Requests, Start(c, q) PROVE IInv'
  <1> USE DEF IInv
  <1>1. q.route \in Routes
    BY RequestsAssumption
  <1>2. Counters' /\ Cleaning'
    BY <1>1 DEF Start, Counters, Cleaning
  <1>3. Cardinality(InFlight(q.route)') = Cardinality(InFlight(q.route)) + 1
    <2>1. c \notin InFlight(q.route) /\ InFlight(q.route)' = InFlight(q.route) \union {c}
      BY Joins
    <2>2. IsFiniteSet(InFlight(q.route))
      BY Finite
    <2> QED
      BY <2>1, <2>2, FS_AddElement, Zenon
  <1>4. ASSUME resets' = 0, NEW r \in Routes PROVE stats'[r] = metrics'[r] + Cardinality(InFlight(r)')
    <2>1. resets = 0 /\ stats[r] = metrics[r] + Cardinality(InFlight(r))
      BY <1>4 DEF Start, CountsAgree
    <2>2. CASE r = q.route
      BY <1>1, <1>3, <2>1, <2>2, Finite DEF Start, Counters
    <2>3. CASE r # q.route
      BY <1>1, <2>1, <2>3, Joins, Zenon DEF Start, Counters
    <2> QED
      BY <2>2, <2>3
  <1>5. CountsAgree'
    BY <1>4 DEF CountsAgree
  <1> QED
    BY <1>2, <1>5

\* Observing its answer.
LEMMA ObserveIInv == ASSUME IInv, NEW c \in Clients, Observe(c) PROVE IInv'
  <1> USE DEF IInv
  <1>1. PICK route \in Routes : route = req[c].route
    BY RequestsAssumption DEF Counters, Observe
  <1>2. Counters' /\ Cleaning'
    BY <1>1 DEF Observe, Counters, Cleaning, bounds, storeVars
  <1>3. Cardinality(InFlight(route)') = Cardinality(InFlight(route)) - 1
    <2>1. c \in InFlight(route) /\ InFlight(route)' = InFlight(route) \ {c}
      BY <1>1, Leaves
    <2>2. IsFiniteSet(InFlight(route))
      BY Finite
    <2> QED
      BY <2>1, <2>2, FS_RemoveElement, Zenon
  <1>4. ASSUME resets' = 0, NEW r \in Routes PROVE stats'[r] = metrics'[r] + Cardinality(InFlight(r)')
    <2>1. resets = 0 /\ stats[r] = metrics[r] + Cardinality(InFlight(r))
      BY <1>4 DEF Observe, CountsAgree, bounds
    <2>2. CASE r = route
      BY <1>1, <1>3, <2>1, <2>2, Finite DEF Observe, Counters
    <2>3. CASE r # route
      BY <1>1, <2>1, <2>3, Leaves, Zenon DEF Observe, Counters
    <2> QED
      BY <2>2, <2>3
  <1>5. CountsAgree'
    BY <1>4 DEF CountsAgree
  <1> QED
    BY <1>2, <1>5

\* Deciding and handling it.
LEMMA HandlingIInv == ASSUME IInv, NEW c \in Clients, Handling(c) PROVE IInv'
  <1> USE DEF IInv
  <1>1. /\ pc[c] # "idle" /\ (pc' = [pc EXCEPT ![c] = "deciding"] \/ pc' = [pc EXCEPT ![c] = "observing"])
        /\ UNCHANGED <<req, stats, metrics, modes, admin, quiet, resets>>
    BY HandlingFacts
  <1>2. Counters' /\ Cleaning'
    BY <1>1 DEF Counters, Cleaning
  <1>3. \A r : InFlight(r)' = InFlight(r)
    BY <1>1 DEF InFlight, Counters
  <1>4. CountsAgree'
    BY <1>1, <1>3 DEF CountsAgree
  <1> QED
    BY <1>2, <1>4

\* The administration: a mode, the four steps of a reset and its answer.
LEMMA AdminIInv ==
    ASSUME IInv,
           \/ \E r \in Routes, m \in Modes : handleAdminMode(r, m)
           \/ ResetModes \/ ResetStats \/ ResetMetrics \/ ResetStore \/ ResetAnswered
    PROVE  IInv'
  <1> USE DEF IInv, requestVars, storeVars, bounds
  <1>1. pc' = pc /\ req' = req
    BY Zenon DEF handleAdminMode, ResetModes, ResetStats, ResetMetrics, ResetStore, ResetAnswered
  <1>2. \A r : InFlight(r)' = InFlight(r)
    BY <1>1 DEF InFlight
  <1>3. ASSUME NEW r \in Routes, NEW m \in Modes, handleAdminMode(r, m) PROVE IInv'
    BY <1>2, <1>3 DEF handleAdminMode, Counters, CountsAgree, Cleaning
  <1>4. CASE ResetModes
    <2>1. Counters'
      BY <1>4 DEF ResetModes, Counters, Zero
    <2>2. Cleaning'
      BY <1>4, Zenon DEF ResetModes, Counters, Cleaning
    <2>3. CountsAgree'
      BY <1>2, <1>4 DEF ResetModes, Counters, CountsAgree
    <2> QED
      BY <2>1, <2>2, <2>3
  <1>5. CASE ResetStats
    <2>1. Counters'
      BY <1>5 DEF ResetStats, Counters, Zero
    <2>2. Cleaning'
      BY <1>5 DEF ResetStats, Counters, Cleaning
    <2>3. CountsAgree'
      BY <1>2, <1>5 DEF ResetStats, Counters, CountsAgree
    <2> QED
      BY <2>1, <2>2, <2>3
  <1>6. CASE ResetMetrics
    <2>1. Counters'
      BY <1>6 DEF ResetMetrics, Counters, Zero
    <2>2. Cleaning'
      BY <1>6 DEF ResetMetrics, Counters, Cleaning
    <2>3. CountsAgree'
      BY <1>2, <1>6 DEF ResetMetrics, Counters, CountsAgree
    <2> QED
      BY <2>1, <2>2, <2>3
  <1>7. CASE ResetStore
    <2>1. Counters'
      BY <1>7 DEF ResetStore, Counters, Zero
    <2>2. Cleaning'
      BY <1>7 DEF ResetStore, Counters, Cleaning
    <2>3. CountsAgree'
      BY <1>2, <1>7 DEF ResetStore, Counters, CountsAgree
    <2> QED
      BY <2>1, <2>2, <2>3
  <1>8. CASE ResetAnswered
    <2>1. Counters'
      BY <1>8 DEF ResetAnswered, Counters, Zero
    <2>2. Cleaning'
      BY <1>8 DEF ResetAnswered, Counters, Cleaning
    <2>3. CountsAgree'
      BY <1>2, <1>8 DEF ResetAnswered, Counters, CountsAgree
    <2> QED
      BY <2>1, <2>2, <2>3
  <1> QED
    BY <1>3, <1>4, <1>5, <1>6, <1>7, <1>8

\* The invariant is inductive.
LEMMA NextIInv == IInv /\ [Next]_vars => IInv'
  <1> SUFFICES ASSUME IInv, [Next]_vars PROVE IInv'
    OBVIOUS
  <1>1. CASE UNCHANGED vars
    <2>1. \A r : InFlight(r)' = InFlight(r)
      BY <1>1 DEF vars, InFlight
    <2> QED
      BY <1>1, <2>1 DEF vars, IInv, Counters, CountsAgree, Cleaning
  <1> QED
    BY <1>1, StartIInv, HandlingIInv, ObserveIInv, AdminIInv DEF Next, Handling, Idle

\* The invariant holds throughout.
LEMMA Invariance == Spec => []IInv
  BY InitIInv, NextIInv, PTL DEF Spec

-----------------------------------------------------------------------------
\* stats and metrics differ by the requests in flight until the first reset: every
\* path through withFaults counts and observes exactly once.
THEOREM EveryRequestObserved == Spec => []CountsAgree
  <1>1. IInv => CountsAgree
    BY DEF IInv
  <1> QED
    BY Invariance, <1>1, PTL

\* A reset beside which nothing runs leaves nothing behind (handleAdminReset).
THEOREM QuietResetIsClean == Spec => []ResetIsClean
  <1>1. IInv => ResetIsClean
    BY DEF IInv, Cleaning, ResetIsClean
  <1> QED
    BY Invariance, <1>1, PTL

-----------------------------------------------------------------------------
(* The store: what is in it, and which ids are taken. *)

\* What a create or an update writes is an item: the one that was sent, or the same
\* with an id of the store's own.
LEMMA Written ==
    ASSUME NEW q \in Requests, NEW k \in Keys
    PROVE  q.item \in Items /\ [q.item EXCEPT !.id = Text(k)] \in Items
  <1>1. q.item \in [id : [kind : {"none", "text", "number"}, val : Nat], name : Names]
    BY RequestsAssumption
  <1>2. [q.item EXCEPT !.id = Text(k)] \in [id : [kind : {"text"}, val : Keys], name : Names]
    BY <1>1 DEF Text
  <1> QED
    BY <1>2 DEF Items

\* One item is written at one key: create counts the ids it generates, an explicit id
\* is free unless this is an update.
Writes(c, k, i) ==
    /\ items' = [items EXCEPT ![k] = i]
    /\ k \in Keys => i \in Items
    /\ pc[c] = "deciding" /\ pc'[c] = "observing"
    /\ \/ seq' = seq + 1 /\ k = seq + 1
       \/ /\ seq' = seq /\ (IdsApart => k > MaxRequests)
          /\ req[c].route = "PUT /items" \/ items[k] = NoItem

\* Handling a request leaves the store alone, or writes one item.
LEMMA StoreWrites ==
    ASSUME IInv, TypeOK, NEW c \in Clients, Handling(c)
    PROVE  (items' = items /\ seq' = seq) \/ \E k \in Nat : \E i : Writes(c, k, i)
  <1>1. CASE ReadMode(c) \/ Fault(c) \/ handleListItems(c) \/ handleGetItem(c)
    BY <1>1, Zenon DEF ReadMode, Fault, handleListItems, handleGetItem, storeVars
  <1>2. req[c] \in Requests /\ pc[c] # "idle"
    BY HandlingFacts DEF IInv, Counters
  <1> DEFINE item == req[c].item
  <1>3. item \in [id : [kind : {"none", "text", "number"}, val : Nat], name : Names]
    BY <1>2, RequestsAssumption
  <1>4. itemID(item) \in Nat
    BY <1>3 DEF itemID
  <1>5. CASE handleCreateItem(c)
    <2>1. pc[c] = "deciding" /\ req[c].route = "POST /items" /\ create(c, item)
      BY <1>5, Zenon DEF handleCreateItem, passes
    <2>2. pc'[c] = "observing"
      BY <2>1, <1>2, Zenon DEF create, finish, TypeOK
    <2>3. CASE ~hasID(item)
      <3>1. seq' = seq + 1 /\ items' = [items EXCEPT ![seq + 1] = [item EXCEPT !.id = Text(seq + 1)]]
        BY <2>1, <2>3, Zenon DEF create
      <3>2. seq + 1 \in Nat
        BY DEF TypeOK
      <3>3. seq + 1 \in Keys => [item EXCEPT !.id = Text(seq + 1)] \in Items
        BY <1>2, Written
      <3> QED
        BY <2>1, <2>2, <3>1, <3>2, <3>3, Zenon DEF Writes
    <2>4. CASE hasID(item) /\ items[itemID(item)] # NoItem
      BY <2>1, <2>4, Zenon DEF create, storeVars
    <2>5. CASE hasID(item) /\ items[itemID(item)] = NoItem
      <3>1. seq' = seq /\ items' = [items EXCEPT ![itemID(item)] = item]
        BY <2>1, <2>5, Zenon DEF create
      <3>2. item \in Items
        BY <1>2 DEF Items
      <3>3. IdsApart => itemID(item) > MaxRequests
        BY <1>2, <2>1, <2>5, Zenon DEF IdsApart
      <3> QED
        BY <1>4, <2>1, <2>2, <2>5, <3>1, <3>2, <3>3, Zenon DEF Writes
    <2> QED
      BY <2>3, <2>4, <2>5
  <1>6. CASE handlePutItem(c)
    <2>1. pc[c] = "deciding" /\ req[c].route = "PUT /items" /\ upsert(c, item)
      BY <1>6, Zenon DEF handlePutItem, passes
    <2>2. pc'[c] = "observing"
      BY <2>1, <1>2, Zenon DEF upsert, finish, TypeOK
    <2>3. CASE ~hasID(item)
      BY <2>1, <2>3, Zenon DEF upsert, storeVars
    <2>4. CASE hasID(item)
      <3>1. seq' = seq /\ items' = [items EXCEPT ![itemID(item)] = [item EXCEPT !.id = Text(itemID(item))]]
        BY <2>1, <2>4, Zenon DEF upsert
      <3>2. itemID(item) \in Keys => [item EXCEPT !.id = Text(itemID(item))] \in Items
        BY <1>2, Written
      <3>3. IdsApart => itemID(item) > MaxRequests
        BY <1>2, <2>1, <2>4, Zenon DEF IdsApart
      <3> QED
        BY <1>4, <2>1, <2>2, <3>1, <3>2, <3>3, Zenon DEF Writes
    <2> QED
      BY <2>3, <2>4
  <1> QED
    BY <1>1, <1>5, <1>6, SMTT(60) DEF Handling

\* The steps of the administration and of a request that starts or ends keep the
\* types, and so do the handlers, whatever code they finish with.
LEMMA CodesKept ==
    ASSUME IInv, TypeOK, NEW c \in Clients, Handling(c)
    PROVE  /\ mode' \in [Clients -> Modes \union {NoFault}]
           /\ code' \in [Clients -> Codes]
           /\ UNCHANGED bounds
  <1>1. CASE ReadMode(c)
    <2>1. modes[req[c].route] \in Modes \union {NoFault}
      BY <1>1, RequestsAssumption DEF ReadMode, IInv, Counters, TypeOK
    <2> QED
      BY <1>1, <2>1 DEF ReadMode, TypeOK
  <1>2. ASSUME NEW status \in Codes, finish(c, status)
        PROVE  /\ mode' \in [Clients -> Modes \union {NoFault}]
               /\ code' \in [Clients -> Codes]
               /\ UNCHANGED bounds
    BY <1>2 DEF finish, TypeOK
  <1>3. {200, 201, 400, 401, 404, 409, 500} \subseteq Codes
    BY DEF Codes
  <1>4. mode[c].status \in Codes
    BY DEF TypeOK, NoFault, Codes
  <1>5. CASE Fault(c)
    <2>1. finish(c, 401) \/ finish(c, 500) \/ finish(c, mode[c].status)
      BY <1>5 DEF Fault
    <2> QED
      BY <1>2, <1>3, <1>4, <2>1
  <1>6. CASE handleListItems(c) \/ handleGetItem(c)
    <2>1. finish(c, 200) \/ finish(c, 404)
      BY <1>6, Zenon DEF handleListItems, handleGetItem
    <2> QED
      BY <1>2, <1>3, <2>1
  <1>7. CASE handleCreateItem(c) \/ handlePutItem(c)
    <2>1. finish(c, 200) \/ finish(c, 201) \/ finish(c, 400) \/ finish(c, 409)
      BY <1>7, ZenonT(60) DEF handleCreateItem, handlePutItem, create, upsert
    <2> QED
      BY <1>2, <1>3, <2>1
  <1> QED
    BY <1>1, <1>5, <1>6, <1>7 DEF Handling

\* Every step keeps the types.
LEMMA NextTypeOK == IInv /\ TypeOK /\ [Next]_vars => TypeOK'
  <1> SUFFICES ASSUME IInv, TypeOK, [Next]_vars PROVE TypeOK'
    OBVIOUS
  <1> USE DEF TypeOK, requestVars, storeVars, bounds
  <1>1. ASSUME NEW c \in Clients, NEW q \in Requests, Start(c, q) PROVE TypeOK'
    <2>1. q.route \in Routes
      BY RequestsAssumption, Zenon
    <2>2. issued + 1 \in 0..MaxRequests
      BY <1>1, BoundsAssumption DEF Start
    <2>3. quiet' \in BOOLEAN
      BY <1>1, Zenon DEF Start
    <2> QED
      BY <1>1, <2>1, <2>2, <2>3, SMTT(60) DEF Start
  <1>2. ASSUME NEW c \in Clients, Handling(c) PROVE TypeOK'
    <2>1. pc' \in [Clients -> {"idle", "counted", "deciding", "observing"}]
          /\ UNCHANGED <<req, stats, metrics, modes, admin, quiet, resets>>
      BY <1>2, HandlingFacts DEF IInv
    <2>2. mode' \in [Clients -> Modes \union {NoFault}] /\ code' \in [Clients -> Codes] /\ UNCHANGED bounds
      BY <1>2, CodesKept
    <2>3. items' \in [Keys -> Items \union {NoItem}] /\ seq' \in Nat
      BY <1>2, StoreWrites, ZenonT(60) DEF Writes
    <2> QED
      BY <2>1, <2>2, <2>3
  <1>3. ASSUME NEW c \in Clients, Observe(c) PROVE TypeOK'
    <2>1. req[c].route \in Routes
      BY <1>3, RequestsAssumption, SMTT(60) DEF Observe, IInv, Counters
    <2>2. 0 \in Codes
      BY DEF Codes
    <2> QED
      BY <1>3, <2>1, <2>2 DEF Observe
  <1>4. ASSUME NEW r \in Routes, NEW m \in Modes, handleAdminMode(r, m) PROVE TypeOK'
    <2>1. changed + 1 \in 0..MaxModes
      BY <1>4, BoundsAssumption DEF handleAdminMode
    <2>2. quiet' \in BOOLEAN
      BY <1>4, Zenon DEF handleAdminMode
    <2> QED
      BY <1>4, <2>1, <2>2 DEF handleAdminMode
  <1>5. CASE ResetModes
    BY <1>5, BoundsAssumption DEF ResetModes
  <1>6. CASE ResetStats \/ ResetMetrics \/ ResetStore
    BY <1>6 DEF ResetStats, ResetMetrics, ResetStore, Zero, Empty
  <1>7. CASE ResetAnswered
    <2>1. quiet' \in BOOLEAN
      BY <1>7, Zenon DEF ResetAnswered
    <2> QED
      BY <1>7, <2>1 DEF ResetAnswered
  <1>8. CASE UNCHANGED vars
    BY <1>8 DEF vars
  <1> QED
    BY <1>1, <1>2, <1>3, <1>4, <1>5, <1>6, <1>7, <1>8, ZenonT(60) DEF Next, Handling, Idle

\* Every variable keeps its type; in particular a handler finishes with a code that
\* some mode or the handler itself names, and the store holds items only.
THEOREM TypeCorrect == Spec => []TypeOK
  <1>1. Init => TypeOK
    <2> SUFFICES ASSUME Init PROVE TypeOK
      OBVIOUS
    <2>1. quiet \in BOOLEAN
      BY Zenon DEF Init
    <2>2. 0 \in Codes
      BY DEF Codes
    <2> QED
      BY <2>1, <2>2, BoundsAssumption DEF Init, TypeOK, Zero, Empty
  <1> QED
    BY <1>1, Invariance, NextTypeOK, PTL DEF Spec

-----------------------------------------------------------------------------
\* The requests that may still create something.
Pending == {c \in Clients : pc[c] \in {"counted", "deciding"}}

\* Each generated id has cost a request, and where explicit ids stay above the bound
\* the ids that come next are free.
Fresh == /\ seq + Cardinality(Pending) <= issued
         /\ \A k \in Keys : items[k] # NoItem => k <= seq \/ k > MaxRequests

\* The pending requests are finitely many.
LEMMA PendingFinite == IsFiniteSet(Pending) /\ Cardinality(Pending) \in Nat
  <1>1. IsFiniteSet(Pending)
    BY RequestsAssumption, FS_Subset DEF Pending
  <1> QED
    BY <1>1, FS_CardinalityType

\* Counting a request makes one more pending.
LEMMA StartFresh ==
    ASSUME IInv, TypeOK, Fresh, NEW c \in Clients, NEW q \in Requests, Start(c, q)
    PROVE  Fresh'
  <1>1. c \notin Pending /\ Pending' = Pending \union {c}
    BY DEF Start, Pending, TypeOK
  <1>2. Cardinality(Pending') = Cardinality(Pending) + 1
    BY <1>1, PendingFinite, FS_AddElement, Zenon
  <1>3. issued' = issued + 1 /\ seq' = seq /\ items' = items
    BY DEF Start, storeVars
  <1> QED
    BY <1>2, <1>3, PendingFinite DEF Fresh, TypeOK

\* Handling it takes at most one id, and then it is pending no more.
LEMMA HandlingFresh ==
    ASSUME IdsApart, IInv, TypeOK, Fresh, NEW c \in Clients, Handling(c)
    PROVE  Fresh'
  <1>1. c \in Pending
    BY Zenon DEF Handling, ReadMode, Fault, handleListItems, handleGetItem, handleCreateItem, handlePutItem,
           passes, Pending
  <1>2. issued' = issued
    BY CodesKept DEF bounds
  <1>3. Pending' \subseteq Pending /\ (pc'[c] = "observing" => Pending' = Pending \ {c})
    BY <1>1, HandlingFacts DEF Pending, IInv, TypeOK
  <1>4. Cardinality(Pending') <= Cardinality(Pending) /\ Cardinality(Pending') \in Nat
    BY <1>3, PendingFinite, FS_Subset, FS_CardinalityType
  <1>5. pc'[c] = "observing" => Cardinality(Pending') = Cardinality(Pending) - 1
    BY <1>1, <1>3, PendingFinite, FS_RemoveElement
  <1>6. CASE items' = items /\ seq' = seq
    BY <1>2, <1>4, <1>6, PendingFinite DEF Fresh, TypeOK
  <1>7. ASSUME NEW k \in Nat, NEW i, Writes(c, k, i) PROVE Fresh'
    <2>1. /\ items' = [items EXCEPT ![k] = i] /\ pc'[c] = "observing"
          /\ (seq' = seq + 1 /\ k = seq + 1) \/ (seq' = seq /\ k > MaxRequests)
      BY <1>7, Zenon DEF Writes
    <2>2. seq' + Cardinality(Pending') <= issued'
      BY <1>2, <1>5, <2>1, PendingFinite DEF Fresh, TypeOK
    <2>3. \A j \in Keys : items'[j] # NoItem => j <= seq' \/ j > MaxRequests
      BY <2>1 DEF Fresh, TypeOK, Keys
    <2> QED
      BY <2>2, <2>3 DEF Fresh
  <1> QED
    BY <1>6, <1>7, StoreWrites

\* No other step takes an id or a request.
LEMMA NextFresh == ASSUME IdsApart PROVE IInv /\ TypeOK /\ Fresh /\ [Next]_vars => Fresh'
  <1> SUFFICES ASSUME IInv, TypeOK, Fresh, [Next]_vars PROVE Fresh'
    OBVIOUS
  <1> USE DEF requestVars, storeVars, bounds
  <1>1. ASSUME NEW c \in Clients, Observe(c) PROVE Fresh'
    <2>1. Pending' = Pending
      BY <1>1 DEF Observe, Pending, TypeOK
    <2> QED
      BY <1>1, <2>1 DEF Observe, Fresh
  <1>2. ASSUME NEW r \in Routes, NEW m \in Modes, handleAdminMode(r, m) PROVE Fresh'
    BY <1>2 DEF handleAdminMode, Fresh, Pending
  <1>3. CASE ResetModes \/ ResetStats \/ ResetMetrics \/ ResetAnswered
    BY <1>3, Zenon DEF ResetModes, ResetStats, ResetMetrics, ResetAnswered, Fresh, Pending
  <1>4. CASE ResetStore
    <2>1. Pending' = Pending /\ issued' = issued /\ seq' = 0 /\ items' = Empty
      BY <1>4 DEF ResetStore, Pending
    <2> QED
      BY <2>1, PendingFinite DEF Fresh, Empty, TypeOK
  <1>5. CASE UNCHANGED vars
    BY <1>5 DEF vars, Fresh, Pending
  <1> QED
    BY <1>1, <1>2, <1>3, <1>4, <1>5, StartFresh, HandlingFresh DEF Next, Handling, Idle

\* What a step may do to an item that is in the store.
ItemsStay == \A k \in Keys : items[k] # NoItem /\ items'[k] # items[k] =>
    \/ items' = Empty /\ admin = "store"
    \/ \E c \in Clients : pc[c] = "deciding" /\ pc'[c] = "observing" /\ req[c].route = "PUT /items"

\* A generated id is always one that no item has: it is at most the number of
\* requests, and every id up to there that is taken is at most seq.
LEMMA StepPreserves == ASSUME IdsApart PROVE IInv /\ TypeOK /\ Fresh /\ [Next]_vars => ItemsStay
  <1> SUFFICES ASSUME IInv, TypeOK, Fresh, [Next]_vars, NEW k \in Keys, items[k] # NoItem, items'[k] # items[k]
               PROVE  \/ items' = Empty /\ admin = "store"
                      \/ \E c \in Clients : pc[c] = "deciding" /\ pc'[c] = "observing" /\ req[c].route = "PUT /items"
    BY Zenon DEF ItemsStay
  <1>1. ASSUME NEW c \in Clients, Handling(c)
        PROVE  pc[c] = "deciding" /\ pc'[c] = "observing" /\ req[c].route = "PUT /items"
    <2>0. PICK j \in Nat : \E i : Writes(c, j, i)
      BY <1>1, StoreWrites
    <2>1. PICK i : Writes(c, j, i)
      BY <2>0
    <2>2. j = k
      BY <2>1, Zenon DEF Writes, TypeOK
    <2>3. ASSUME j = seq + 1 PROVE FALSE
      <3>1. Cardinality(Pending) > 0
        <4>1. c \in Pending
          BY <2>1, Zenon DEF Writes, Pending
        <4> QED
          BY <4>1, PendingFinite, FS_EmptySet
      <3>2. seq + 1 <= MaxRequests
        BY <3>1, PendingFinite, BoundsAssumption DEF Fresh, TypeOK
      <3> QED
        BY <2>2, <2>3, <3>2, BoundsAssumption, SMTT(60) DEF Fresh, TypeOK
    <2> QED
      BY <2>1, <2>2, <2>3, Zenon DEF Writes
  <1>2. CASE ResetStore
    BY <1>2 DEF ResetStore
  <1>3. ASSUME items' = items PROVE FALSE
    BY <1>3, Zenon
  <1> USE DEF requestVars, storeVars, bounds
  <1>4. ASSUME NEW c \in Clients, \/ Observe(c) \/ \E q \in Requests : Start(c, q) PROVE items' = items
    BY <1>4, SMTT(60) DEF Observe, Start
  <1>5. ASSUME \/ \E r \in Routes, m \in Modes : handleAdminMode(r, m)
               \/ ResetModes \/ ResetStats \/ ResetMetrics \/ ResetAnswered \/ UNCHANGED vars
        PROVE  items' = items
    BY <1>5, Zenon DEF handleAdminMode, ResetModes, ResetStats, ResetMetrics, ResetAnswered, vars
  <1> QED
    BY <1>1, <1>2, <1>3, <1>4, <1>5, ZenonT(60) DEF Next, Handling, Idle

\* Where explicit ids stay above the generated ones, POST /items never replaces an
\* item, with any number of clients, resets and modes in between (store.create).
THEOREM CreateNeverReplaces == ASSUME IdsApart PROVE Spec => CreatePreserves
  <1>1. Init => Fresh
    <2> SUFFICES ASSUME Init PROVE Fresh
      OBVIOUS
    <2>1. Pending = {}
      BY DEF Init, Pending
    <2> QED
      BY <2>1, FS_EmptySet DEF Init, Fresh, Empty
  <1>2. IInv /\ TypeOK /\ Fresh /\ [Next]_vars => Fresh'
    BY NextFresh
  <1>3. IInv /\ TypeOK /\ Fresh /\ [Next]_vars => ItemsStay
    BY StepPreserves
  <1>4. ItemsStay <=> \A k \in Keys : items[k] # NoItem /\ items'[k] # items[k] =>
           \/ items' = Empty /\ admin = "store"
           \/ \E c \in Clients : pc[c] = "deciding" /\ pc'[c] = "observing" /\ req[c].route = "PUT /items"
    BY DEF ItemsStay
  <1> QED
    BY <1>1, <1>2, <1>3, <1>4, Invariance, TypeCorrect, PTL DEF Spec, CreatePreserves

-----------------------------------------------------------------------------
\* What a request knows of the modes it has run under.  The mode in force is always
\* among them; past a check, one of them differs from the mode the check is for;
\* and whether it slept follows from its step.
Progress(r) ==
    /\ llmPc[r] \in Checks \union {"sleeping"} => llmMode \in seen[r]
    /\ llmPc[r] \in {"check429", "checkTimeout", "sleeping", "checkInvalid"} => seen[r] # {"500"}
    /\ llmPc[r] \in {"checkTimeout", "sleeping", "checkInvalid"} => seen[r] # {"429"}
    /\ llmPc[r] \in {"idle", "check500", "check429", "checkTimeout", "sleeping"} => ~slept[r]
    /\ llmPc[r] = "sleeping" => "timeout" \in seen[r]
    /\ slept[r] => "timeout" \in seen[r]
    /\ llmPc[r] = "checkInvalid" /\ ~slept[r] => seen[r] # {"timeout"}

\* The inductive invariant.
LlmIInv == LlmTypeOK /\ (\A r \in Calls : Progress(r)) /\ AnswersFollowModes

\* The initial state satisfies the invariant.
LEMMA InitLlmIInv == LlmInit => LlmIInv
  BY DEF LlmInit, LlmIInv, LlmTypeOK, Progress, AnswersFollowModes, AdminModes, Checks

\* A change of the mode, at any moment, keeps the invariant (set_mode).
LEMMA SetModeLlmIInv == ASSUME LlmIInv, NEW m \in AdminModes, set_mode(m) PROVE LlmIInv'
  <1>1. LlmTypeOK'
    BY SMTT(60) DEF LlmIInv, LlmTypeOK, set_mode
  <1>2. ASSUME NEW r \in Calls PROVE Progress(r)'
    BY DEF LlmIInv, LlmTypeOK, Progress, set_mode, Checks, AdminModes
  <1>3. AnswersFollowModes'
    BY Zenon DEF LlmIInv, LlmTypeOK, AnswersFollowModes, set_mode, Forced
  <1> QED
    BY <1>1, <1>2, <1>3 DEF LlmIInv

\* The steps of one request.
Step(r) == \/ Begin(r) \/ Check500(r) \/ Check429(r) \/ CheckTimeout(r)
           \/ Wake(r) \/ CheckInvalid(r) \/ NextCall(r)

\* A step of a request keeps the types (chat_completions).
LEMMA StepTypeOK == ASSUME LlmTypeOK, NEW q \in Calls, Step(q) PROVE LlmTypeOK'
  <1> USE DEF LlmTypeOK, Checks, AdminModes
  <1>1. CASE Begin(q)
    BY <1>1, Zenon DEF Begin
  <1>2. CASE Check500(q) \/ Check429(q) \/ CheckTimeout(q)
    BY <1>2 DEF Check500, Check429, CheckTimeout, reply, goto
  <1>3. CASE Wake(q)
    BY <1>3 DEF Wake
  <1>4. CASE CheckInvalid(q)
    BY <1>4 DEF CheckInvalid, reply
  <1>5. CASE NextCall(q)
    BY <1>5, Zenon DEF NextCall
  <1> QED
    BY <1>1, <1>2, <1>3, <1>4, <1>5, Zenon DEF Step

\* A step of a request leaves the other ones alone.
LEMMA StepIsLocal ==
    ASSUME LlmTypeOK, NEW q \in Calls, Step(q), NEW r \in Calls, r # q
    PROVE  /\ llmMode' = llmMode /\ llmPc'[r] = llmPc[r] /\ slept'[r] = slept[r] /\ seen'[r] = seen[r] /\ answer'[r] = answer[r]
  BY SMTT(60) DEF LlmTypeOK, Step, Begin, Check500, Check429, CheckTimeout, Wake, CheckInvalid, NextCall, reply, goto

\* A step of a request keeps what it knows of its modes, and what it answers agrees
\* with them (the four checks of chat_completions).
LEMMA StepProgress ==
    ASSUME LlmIInv, NEW q \in Calls, Step(q)
    PROVE  /\ Progress(q)'
           /\ llmPc'[q] = "done" =>
                 /\ \A m \in AdminModes : seen'[q] = {m} => answer'[q] = Forced(m) /\ slept'[q] = (m = "timeout")
                 /\ answer'[q] # "completion" => answer'[q] \in seen'[q]
                 /\ slept'[q] => "timeout" \in seen'[q]
  <1> USE DEF LlmIInv, LlmTypeOK, Progress, Checks, AdminModes, Forced
  <1>1. CASE Begin(q)
    BY <1>1, ZenonT(60) DEF Begin
  <1>2. CASE Check500(q)
    BY <1>2, SMTT(60) DEF Check500, reply, goto
  <1>3. CASE Check429(q)
    BY <1>3, SMTT(60) DEF Check429, reply, goto
  <1>4. CASE CheckTimeout(q)
    BY <1>4, Zenon DEF CheckTimeout, goto
  <1>5. CASE Wake(q)
    BY <1>5, Zenon DEF Wake
  <1>6. CASE CheckInvalid(q)
    BY <1>6, Zenon DEF CheckInvalid, reply
  <1>7. CASE NextCall(q)
    BY <1>7 DEF NextCall
  <1> QED
    BY <1>1, <1>2, <1>3, <1>4, <1>5, <1>6, <1>7, ZenonT(60) DEF Step

\* The invariant is inductive.
LEMMA NextLlmIInv == LlmIInv /\ [LlmNext]_llmVars => LlmIInv'
  <1> SUFFICES ASSUME LlmIInv, [LlmNext]_llmVars PROVE LlmIInv'
    OBVIOUS
  <1>1. ASSUME NEW q \in Calls, Step(q) PROVE LlmIInv'
    <2>1. LlmTypeOK'
      BY <1>1, StepTypeOK DEF LlmIInv
    <2>2. ASSUME NEW r \in Calls PROVE Progress(r)'
      <3>1. CASE r = q
        BY <1>1, <3>1, StepProgress, ZenonT(60)
      <3>2. CASE r # q
        BY <1>1, <3>2, StepIsLocal, ZenonT(60) DEF LlmIInv, Progress
      <3> QED
        BY <3>1, <3>2, Zenon
    <2>3. AnswersFollowModes'
      <3> SUFFICES ASSUME NEW r \in Calls, llmPc'[r] = "done"
                   PROVE  /\ \A m \in AdminModes : seen'[r] = {m} => answer'[r] = Forced(m) /\ slept'[r] = (m = "timeout")
                          /\ answer'[r] # "completion" => answer'[r] \in seen'[r]
                          /\ slept'[r] => "timeout" \in seen'[r]
        BY Zenon DEF AnswersFollowModes
      <3>1. CASE r = q
        BY <1>1, <3>1, StepProgress, Zenon
      <3>2. CASE r # q
        BY <1>1, <3>2, StepIsLocal, ZenonT(60) DEF LlmIInv, AnswersFollowModes
      <3> QED
        BY <3>1, <3>2, Zenon
    <2> QED
      BY <2>1, <2>2, <2>3 DEF LlmIInv
  <1>2. CASE UNCHANGED llmVars
    BY <1>2 DEF LlmIInv, LlmTypeOK, Progress, AnswersFollowModes, llmVars
  <1> QED
    BY <1>1, <1>2, SetModeLlmIInv DEF LlmNext, Step

\* Every variable of the mock LLM keeps its type.
THEOREM LlmTypeCorrect == LlmSpec => []LlmTypeOK
  <1>1. LlmIInv => LlmTypeOK
    BY DEF LlmIInv
  <1> QED
    BY InitLlmIInv, NextLlmIInv, <1>1, PTL DEF LlmSpec

\* A mode in force for the whole of a request decides its answer, and no fault or
\* wait appears that was not asked for while it ran (chat_completions, set_mode).
THEOREM ModesDecide == LlmSpec => []AnswersFollowModes
  <1>1. LlmIInv => AnswersFollowModes
    BY DEF LlmIInv
  <1> QED
    BY InitLlmIInv, NextLlmIInv, <1>1, PTL DEF LlmSpec
=============================================================================
