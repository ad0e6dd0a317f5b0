----------------------------- MODULE RulesProofs -----------------------------
(***************************************************************************)
(* Proofs about rules that keep no state, for any input: two that loop     *)
(* over their data, the lead score (LeadScore), through the overrides of   *)
(* the scoring rules, and the sums of an invoice (InvoiceRules), through   *)
(* its lines; and the error taxonomy (ErrorTaxonomy).  A loop is a         *)
(* function on 0..n that gives the value after each turn.  Its equation    *)
(* has a solution, which is shown first; what holds after every turn then  *)
(* follows from there being no least turn at which it does not             *)
(* (LeastOf).                                                              *)
(***************************************************************************)
EXTENDS MCLeadScore, MCInvoiceRules, MCErrorTaxonomy, WellFoundedInduction, TLAPS

\* A set of naturals that is not empty has a least element: what an induction
\* over data comes down to here, by way of a least counterexample.
LEMMA LeastOf ==
  ASSUME NEW T \in SUBSET Nat, T # {}
  PROVE  \E m \in T : \A k \in T : m <= k
<1>1. \E x \in T : \A y \in T : ~ (<<y, x>> \in OpToRel(<, Nat))
  <2> HIDE DEF OpToRel
  <2> QED BY NatLessThanWellFounded, WFMin, Zenon
<1>2. PICK m \in T : \A y \in T : ~ (<<y, m>> \in OpToRel(<, Nat))
  BY <1>1, Zenon
<1>3. \A y \in T : m <= y
  <2> TAKE y \in T
  <2>1. ~(y < m)
    BY <1>2, Zenon DEF OpToRel
  <2> QED BY <2>1
<1> QED BY <1>3

\* Induction up to N, for a property given as the set of numbers that have it.
LEMMA Induct ==
  ASSUME NEW N \in Nat, NEW T, 0 \in T, \A n \in 1..N : n - 1 \in T => n \in T
  PROVE  \A n \in 0..N : n \in T
<1> DEFINE Bad == {n \in 0..N : n \notin T}
<1> SUFFICES ASSUME Bad # {} PROVE FALSE
  OBVIOUS
<1>1. PICK m \in Bad : \A k \in Bad : m <= k
  <2>1. Bad \in SUBSET Nat
    OBVIOUS
  <2> HIDE DEF Bad
  <2> QED BY <2>1, LeastOf
<1>2. m \in 1..N /\ m \notin T
  BY <1>1
<1>3. m - 1 \in 0..N /\ ~(m <= m - 1)
  BY <1>2
<1>4. m - 1 \in T
  BY <1>1, <1>3
<1> QED
  BY <1>2, <1>4

\* A loop of N turns from a has a value of V after every turn.
HasRun(N, V, a, step) ==
    \E g \in [0..N -> V] : g[0] = a /\ \A n \in 1..N : g[n] = step[<<n, g[n - 1]>>]

\* It has if each turn stays in V.
LEMMA LoopHasValue ==
  ASSUME NEW N \in Nat, NEW V, NEW a \in V, NEW step \in [(1..N) \X V -> V]
  PROVE  HasRun(N, V, a, step)
<1> DEFINE Runs(n, g) == g[0] = a /\ \A k \in 1..n : g[k] = step[<<k, g[k - 1]>>]
           T == {n \in 0..N : \E g \in [0..n -> V] : Runs(n, g)}
<1>1. 0 \in T
  <2> DEFINE g == [k \in 0..0 |-> a]
  <2>1. g \in [0..0 -> V] /\ Runs(0, g)
    OBVIOUS
  <2> HIDE DEF g, Runs
  <2> QED BY <2>1
<1>2. ASSUME NEW n \in 1..N, n - 1 \in T PROVE n \in T
  <2>1. PICK g \in [0..(n - 1) -> V] : Runs(n - 1, g)
    BY <1>2
  <2> DEFINE v == step[<<n, g[n - 1]>>]
             h == [k \in 0..n |-> IF k = n THEN v ELSE g[k]]
  <2>2. n - 1 \in 0..(n - 1) /\ g[n - 1] \in V
    BY <2>1
  <2>3. v \in V
    BY <2>2
  <2> HIDE DEF v
  <2>4. \A k \in 0..n : k # n => k \in 0..(n - 1)
    OBVIOUS
  <2>5. h \in [0..n -> V]
    BY <2>1, <2>3, <2>4
  <2>6. h[0] = a
    BY <2>1
  <2>7. ASSUME NEW k \in 1..n PROVE h[k] = step[<<k, h[k - 1]>>]
    <3>1. k - 1 \in 0..n /\ k - 1 # n /\ h[k - 1] = g[k - 1] /\ k \in 0..n
      OBVIOUS
    <3>2. CASE k = n
      BY <3>1, <3>2 DEF v
    <3>3. CASE k # n
      <4>1. k \in 1..(n - 1)
        BY <3>3
      <4>2. g[k] = step[<<k, g[k - 1]>>]
        BY <2>1, <4>1
      <4> QED BY <3>1, <3>3, <4>2
    <3> QED BY <3>2, <3>3
  <2>8. Runs(n, h)
    <3> HIDE DEF h
    <3> QED BY <2>6, <2>7
  <2> HIDE DEF h, Runs
  <2> QED BY <2>5, <2>8
<1>3. \A n \in 0..N : n \in T
  <2> HIDE DEF T
  <2> QED BY <1>1, <1>2, Induct
<1>4. N \in T
  BY <1>3
<1> QED
  BY <1>4 DEF HasRun

\* The sums of the first terms of s, as SumOf's loop makes them.
Partial(s) == LET upTo[n \in 0..Len(s)] == IF n = 0 THEN 0 ELSE upTo[n - 1] + s[n]
              IN  upTo

\* What they are, and that the last of them is SumOf.
LEMMA PartialSums ==
  ASSUME NEW s, Len(s) \in Nat, \A i \in 1..Len(s) : s[i] \in Int
  PROVE  /\ SumOf(s) = Partial(s)[Len(s)]
         /\ Partial(s)[0] = 0
         /\ \A n \in 1..Len(s) : Partial(s)[n] = Partial(s)[n - 1] + s[n]
         /\ \A n \in 0..Len(s) : Partial(s)[n] \in Int
<1> DEFINE N == Len(s)
           step == [p \in (1..N) \X Int |-> p[2] + s[p[1]]]
<1>1. PICK g \in [0..N -> Int] : g[0] = 0 /\ \A n \in 1..N : g[n] = step[<<n, g[n - 1]>>]
  <2>1. step \in [(1..N) \X Int -> Int] /\ 0 \in Int
    OBVIOUS
  <2> HIDE DEF step, N
  <2>2. N \in Nat
    BY DEF N
  <2>3. HasRun(N, Int, 0, step)
    BY <2>1, <2>2, LoopHasValue, Zenon
  <2> QED BY <2>3, Zenon DEF HasRun
<1>2. \A n \in 0..N : g[n] = IF n = 0 THEN 0 ELSE g[n - 1] + s[n]
  <2> SUFFICES ASSUME NEW n \in 1..N PROVE g[n] = g[n - 1] + s[n]
    BY <1>1
  <2>1. n - 1 \in 0..N /\ g[n - 1] \in Int
    BY <1>1
  <2>2. <<n, g[n - 1]>> \in (1..N) \X Int
    BY <2>1
  <2>3. step[<<n, g[n - 1]>>] = g[n - 1] + s[n]
    BY <2>2
  <2> HIDE DEF step
  <2> QED BY <1>1, <2>3
<1>3. g = [n \in 0..N |-> IF n = 0 THEN 0 ELSE g[n - 1] + s[n]]
  BY <1>1, <1>2
<1> DEFINE P == Partial(s)
<1>4. P = [n \in 0..N |-> IF n = 0 THEN 0 ELSE P[n - 1] + s[n]]
  <2> HIDE DEF step
  <2> QED BY <1>3, Zenon DEF Partial
<1> HIDE DEF P
<1>5. P[0] = 0 /\ \A n \in 1..N : P[n] = P[n - 1] + s[n]
  BY <1>4
<1>6. \A n \in 0..N : P[n] \in Int
  <2> DEFINE T == {n \in 0..N : P[n] \in Int}
  <2>1. 0 \in T /\ \A n \in 1..N : n - 1 \in T => n \in T
    BY <1>5
  <2>2. \A n \in 0..N : n \in T
    <3> HIDE DEF T
    <3> QED BY <2>1, Induct, Zenon
  <2> QED BY <2>2
<1>7. SumOf(s) = P[N]
  BY DEF SumOf, Partial, P
<1> QED
  BY <1>5, <1>6, <1>7 DEF P

-----------------------------------------------------------------------------

\* The route that a score leads to, and how high each route stands.
Ladder(s) == IF s >= 80 THEN "sales" ELSE IF s >= 50 THEN "nurture" ELSE "archive"

\* _route_from_score with the shipped routes, for a score that is not negative.
LEMMA RouteOfScore ==
  ASSUME NEW s \in Nat, NEW c, c.routes = ShippedRoutes
  PROVE  _route_from_score(s, c) = Ladder(s)
<1> DEFINE reached == {r \in c.routes : s >= r.min}
           top == CHOOSE r \in reached : \A q \in reached : q.min <= r.min
           sales == [name |-> "sales", min |-> 80]
           nurture == [name |-> "nurture", min |-> 50]
           archive == [name |-> "archive", min |-> 0]
<1>1. c.routes = {sales, nurture, archive}
  BY DEF ShippedRoutes
<1>2. /\ sales.name = "sales" /\ nurture.name = "nurture" /\ archive.name = "archive"
      /\ sales.min = 80 /\ nurture.min = 50 /\ archive.min = 0
  OBVIOUS
<1> HIDE DEF sales, nurture, archive
<1>3. archive \in reached
  BY <1>1, <1>2
<1>4. _route_from_score(s, c) = top.name
  BY <1>3 DEF _route_from_score
<1>5. CASE s >= 80
  <2>1. sales \in reached /\ \A q \in reached : q.min <= sales.min
    BY <1>1, <1>2, <1>5
  <2>2. top \in reached /\ \A q \in reached : q.min <= top.min
    <3> HIDE DEF reached
    <3> QED BY <2>1
  <2>3. top = sales
    BY <1>1, <1>2, <2>1, <2>2
  <2> HIDE DEF top, reached
  <2> QED BY <1>2, <1>4, <1>5, <2>3 DEF Ladder
<1>6. CASE s < 80 /\ s >= 50
  <2>1. nurture \in reached /\ \A q \in reached : q.min <= nurture.min
    BY <1>1, <1>2, <1>6
  <2>2. top \in reached /\ \A q \in reached : q.min <= top.min
    <3> HIDE DEF reached
    <3> QED BY <2>1
  <2>3. top \in {nurture, archive}
    <3>1. reached \subseteq {nurture, archive}
      BY <1>1, <1>2, <1>6
    <3> HIDE DEF top
    <3> QED BY <2>2, <3>1
  <2>4. top = nurture
    <3> HIDE DEF top, reached
    <3> QED BY <1>2, <2>1, <2>2, <2>3
  <2> HIDE DEF top, reached
  <2> QED BY <1>2, <1>4, <1>6, <2>4 DEF Ladder
<1>7. CASE s < 50
  <2>1. archive \in reached /\ \A q \in reached : q.min <= archive.min
    BY <1>1, <1>2, <1>7
  <2>2. top \in reached /\ \A q \in reached : q.min <= top.min
    <3> HIDE DEF reached
    <3> QED BY <2>1
  <2>3. reached \subseteq {archive}
    BY <1>1, <1>2, <1>7
  <2>4. top = archive
    <3> HIDE DEF top
    <3> QED BY <2>2, <2>3
  <2> HIDE DEF top, reached
  <2> QED BY <1>2, <1>4, <1>7, <2>4 DEF Ladder
<1> QED
  BY <1>5, <1>6, <1>7

\* LADDER_ROUTES as numbers.
LEMMA Ranks ==
  /\ Rank("archive") = 1 /\ Rank("nurture") = 2 /\ Rank("sales") = 3
  /\ \A route : OnLadder(route) <=> route \in {"archive", "nurture", "sales"}
BY DEF Rank, OnLadder, LADDER_ROUTES, Range

\* What capping at nurture does to a route (_cap_route).
LEMMA NurtureCap ==
  \A route : _cap_route(route, "nurture") = IF route = "sales" THEN "nurture" ELSE route
BY Ranks DEF _cap_route

-----------------------------------------------------------------------------
\* The turns of score_lead's loop, and what they amount to when the overrides in S
\* have come up: every forced route, the cap on the score and the cap on the route
\* in force at once, in no order.
Turns(l, c) == LET after[n \in 0..Len(c.overrides)] ==
                       IF n = 0 THEN scored(l, c) ELSE applyOverride(l, c, after[n - 1], c.overrides[n])
               IN  after

ForcedBy(l, S) == \/ l.intent = "spam" /\ 1 \in S
                  \/ l.intent = "job_application" /\ 2 \in S
                  \/ l.intent = "support" /\ 3 \in S
Destination(l) == IF l.intent = "spam" THEN "archive"
                  ELSE IF l.intent = "job_application" THEN "hr_forward" ELSE "support_forward"
ScoreBy(l, t, S) == IF l.is_free_mail /\ 4 \in S THEN Least(t, 60) ELSE t
RouteBy(l, t, S) ==
    IF ForcedBy(l, S) THEN Destination(l)
    ELSE IF l.llm_status = "failed" /\ 5 \in S /\ Ladder(ScoreBy(l, t, S)) = "sales" THEN "nurture"
    ELSE Ladder(ScoreBy(l, t, S))
At(l, t, S) == [score |-> ScoreBy(l, t, S), forced |-> ForcedBy(l, S), route |-> RouteBy(l, t, S)]

\* The shipped overrides, field by field.
LEMMA OverrideFields ==
  /\ ShippedOverrides[1] = Override([intent |-> "spam"], {"archive"}, {}, {})
  /\ ShippedOverrides[2] = Override([intent |-> "job_application"], {"hr_forward"}, {}, {})
  /\ ShippedOverrides[3] = Override([intent |-> "support"], {"support_forward"}, {}, {})
  /\ ShippedOverrides[4] = Override([is_free_mail |-> TRUE], {}, {60}, {})
  /\ ShippedOverrides[5] = Override([llm_status |-> "failed"], {}, {}, {"nurture"})
BY DEF ShippedOverrides

\* When an override that asks for one field applies (_matches).
LEMMA OverrideApplies ==
  ASSUME NEW l
  PROVE  /\ \A v : _matches([intent |-> v], l) <=> l.intent = v
         /\ \A v : _matches([is_free_mail |-> v], l) <=> l.is_free_mail = v
         /\ \A v : _matches([llm_status |-> v], l) <=> l.llm_status = v
BY DEF _matches

\* The one effect of its kind.
LEMMA TheOne == \A e : The({e}) = e
BY DEF The

\* The turn of an override that forces a route (applyOverride).
LEMMA ForcingTurn ==
  ASSUME NEW l, NEW c, NEW acc, NEW v, NEW r
  PROVE  applyOverride(l, c, acc, Override([intent |-> v], {r}, {}, {}))
             = IF l.intent = v THEN [score |-> acc.score, forced |-> TRUE, route |-> r] ELSE acc
<1> DEFINE o == Override([intent |-> v], {r}, {}, {})
<1>1. o.when = [intent |-> v] /\ o.route = {r} /\ o.cap_score = {} /\ o.cap_route = {}
  BY DEF Override
<1>2. _matches(o.when, l) <=> l.intent = v
  BY <1>1, OverrideApplies
<1>3. The(o.route) = r
  BY <1>1, TheOne, Zenon
<1> HIDE DEF o
<1>4. applyOverride(l, c, acc, o) = IF l.intent = v THEN [score |-> acc.score, forced |-> TRUE, route |-> r] ELSE acc
  BY <1>1, <1>2, <1>3, Zenon DEF applyOverride
<1> QED BY <1>4 DEF o

\* The turn of the cap on the score of a free mail address.
LEMMA ScoreCapTurn ==
  ASSUME NEW l, NEW c, NEW acc, NEW o, l.is_free_mail \in BOOLEAN, acc.forced \in BOOLEAN,
         o = ShippedOverrides[4]
  PROVE  /\ ~l.is_free_mail => applyOverride(l, c, acc, o) = acc
         /\ l.is_free_mail =>
               applyOverride(l, c, acc, o)
                   = [score |-> Least(acc.score, 60), forced |-> acc.forced,
                      route |-> IF acc.forced THEN acc.route ELSE _route_from_score(Least(acc.score, 60), c)]
<1>1. o.when = [is_free_mail |-> TRUE] /\ o.route = {} /\ o.cap_score = {60} /\ o.cap_route = {}
  BY OverrideFields DEF Override
<1>2. _matches(o.when, l) <=> l.is_free_mail
  <2>1. _matches([is_free_mail |-> TRUE], l) <=> l.is_free_mail = TRUE
    BY OverrideApplies, Zenon
  <2>2. _matches(o.when, l) <=> l.is_free_mail = TRUE
    BY <1>1, <2>1, Zenon
  <2> QED BY <2>2
<1>3. The(o.cap_score) = 60
  BY <1>1, TheOne, Zenon
<1>4. CASE ~l.is_free_mail
  BY <1>2, <1>4 DEF applyOverride
<1>5. CASE l.is_free_mail /\ acc.forced
  <2>1. applyOverride(l, c, acc, o) = [score |-> Least(acc.score, 60), forced |-> acc.forced, route |-> acc.route]
    BY <1>1, <1>2, <1>3, <1>5, Zenon DEF applyOverride
  <2> QED BY <1>5, <2>1
<1>6. CASE l.is_free_mail /\ ~acc.forced
  <2>1. applyOverride(l, c, acc, o) = [score |-> Least(acc.score, 60), forced |-> acc.forced,
                                       route |-> _route_from_score(Least(acc.score, 60), c)]
    BY <1>1, <1>2, <1>3, <1>6 DEF applyOverride
  <2> QED BY <1>6, <2>1
<1> QED
  BY <1>4, <1>5, <1>6

\* The turn of the cap on the route when the model failed.
LEMMA RouteCapTurn ==
  ASSUME NEW l, NEW c, NEW acc, NEW r, acc.forced \in BOOLEAN
  PROVE  applyOverride(l, c, acc, Override([llm_status |-> "failed"], {}, {}, {r}))
             = IF l.llm_status = "failed"
               THEN [score |-> acc.score, forced |-> acc.forced, route |-> _cap_route(acc.route, r)]
               ELSE acc
<1> DEFINE o == Override([llm_status |-> "failed"], {}, {}, {r})
<1>1. o.when = [llm_status |-> "failed"] /\ o.route = {} /\ o.cap_score = {} /\ o.cap_route = {r}
  BY DEF Override
<1>2. _matches(o.when, l) <=> l.llm_status = "failed"
  BY <1>1, OverrideApplies
<1>3. The(o.cap_route) = r
  BY <1>1, TheOne, Zenon
<1> HIDE DEF o
<1>4. applyOverride(l, c, acc, o)
          = IF l.llm_status = "failed"
            THEN [score |-> acc.score, forced |-> acc.forced, route |-> _cap_route(acc.route, r)]
            ELSE acc
  BY <1>1, <1>2, <1>3 DEF applyOverride
<1> QED BY <1>4 DEF o

\* One turn of the loop adds the override to those that have come up.
TurnAdds(l, c, t, S, k, o) == applyOverride(l, c, At(l, t, S), o) = At(l, t, S \union {k})

\* It does for each shipped override, whichever have come up before it.
LEMMA Turn ==
  ASSUME NEW l, IsLead(l), NEW c, c.routes = ShippedRoutes,
         NEW t \in Nat, NEW S \in SUBSET (1..5), NEW k \in 1..5, NEW o, o = ShippedOverrides[k]
  PROVE  TurnAdds(l, c, t, S, k, o)
<1> l.is_free_mail \in BOOLEAN
  BY DEF IsLead
<1> DEFINE acc == At(l, t, S)
           next == S \union {k}
<1>1. /\ acc.score = ScoreBy(l, t, S) /\ acc.forced = ForcedBy(l, S) /\ acc.route = RouteBy(l, t, S)
      /\ acc = [score |-> acc.score, forced |-> acc.forced, route |-> acc.route]
  BY DEF At
<1>2. acc.forced \in BOOLEAN
  BY <1>1 DEF ForcedBy
<1>3. ScoreBy(l, t, S) \in Nat /\ Least(ScoreBy(l, t, S), 60) \in Nat
  BY DEF ScoreBy, Least
<1> SUFFICES applyOverride(l, c, acc, ShippedOverrides[k])
                 = [score |-> ScoreBy(l, t, next), forced |-> ForcedBy(l, next), route |-> RouteBy(l, t, next)]
  BY DEF TurnAdds, At
<1> HIDE DEF acc
<1>4. CASE k \in {1, 2, 3}
  <2> DEFINE v == CASE k = 1 -> "spam" [] k = 2 -> "job_application" [] OTHER -> "support"
             r == CASE k = 1 -> "archive" [] k = 2 -> "hr_forward" [] OTHER -> "support_forward"
  <2>1. ShippedOverrides[k] = Override([intent |-> v], {r}, {}, {})
    <3>1. CASE k = 1
      <4>1. v = "spam" /\ r = "archive"
        BY <3>1
      <4> HIDE DEF v, r
      <4> QED BY <3>1, <4>1, OverrideFields
    <3>2. CASE k = 2
      <4>1. v = "job_application" /\ r = "hr_forward"
        BY <3>2
      <4> HIDE DEF v, r
      <4> QED BY <3>2, <4>1, OverrideFields
    <3>3. CASE k = 3
      <4>1. v = "support" /\ r = "support_forward"
        BY <3>3
      <4> HIDE DEF v, r
      <4> QED BY <3>3, <4>1, OverrideFields
    <3> QED BY <1>4, <3>1, <3>2, <3>3
  <2>2. applyOverride(l, c, acc, ShippedOverrides[k])
            = IF l.intent = v THEN [score |-> acc.score, forced |-> TRUE, route |-> r] ELSE acc
    <3> HIDE DEF v, r
    <3> QED BY <2>1, ForcingTurn
  <2>3. ScoreBy(l, t, next) = ScoreBy(l, t, S)
    BY <1>4 DEF ScoreBy
  <2>4. CASE l.intent = v
    <3>1. ForcedBy(l, next) = TRUE
      BY <1>4, <2>4 DEF ForcedBy
    <3>2. RouteBy(l, t, next) = r
      BY <1>4, <2>4, <3>1 DEF RouteBy, Destination
    <3> QED BY <1>1, <2>2, <2>3, <2>4, <3>1, <3>2, Zenon
  <2>5. CASE l.intent # v
    <3>1. ForcedBy(l, next) = ForcedBy(l, S)
      BY <1>4, <2>5 DEF ForcedBy
    <3>2. RouteBy(l, t, next) = RouteBy(l, t, S)
      BY <1>4, <2>3, <3>1 DEF RouteBy
    <3> QED BY <1>1, <2>2, <2>3, <2>5, <3>1, <3>2
  <2> QED BY <2>4, <2>5
<1>5. CASE k = 4
  <2>1. ForcedBy(l, next) = ForcedBy(l, S)
    BY <1>5 DEF ForcedBy
  <2>2. /\ ~l.is_free_mail => applyOverride(l, c, acc, ShippedOverrides[k]) = acc
        /\ l.is_free_mail =>
              applyOverride(l, c, acc, ShippedOverrides[k])
                  = [score |-> Least(acc.score, 60), forced |-> acc.forced,
                     route |-> IF acc.forced THEN acc.route ELSE _route_from_score(Least(acc.score, 60), c)]
    BY <1>2, <1>5, ScoreCapTurn
  <2>3. CASE l.is_free_mail
    <3> DEFINE s == Least(ScoreBy(l, t, S), 60)
    <3>1. ScoreBy(l, t, next) = s
      BY <1>5, <2>3 DEF ScoreBy, Least
    <3>2. applyOverride(l, c, acc, ShippedOverrides[k])
              = [score |-> s, forced |-> acc.forced,
                 route |-> IF acc.forced THEN acc.route ELSE _route_from_score(s, c)]
      BY <1>1, <2>3, <2>2
    <3>3. s \in Nat /\ s <= 60
      BY <1>3 DEF Least
    <3>4. Ladder(s) # "sales" /\ _route_from_score(s, c) = Ladder(s)
      BY <3>3, RouteOfScore DEF Ladder
    <3> HIDE DEF s
    <3>5. RouteBy(l, t, next) = IF acc.forced THEN acc.route ELSE Ladder(s)
      BY <1>1, <2>1, <3>1, <3>4 DEF RouteBy
    <3> QED BY <1>1, <2>1, <3>1, <3>2, <3>4, <3>5
  <2>4. CASE ~l.is_free_mail
    <3>1. applyOverride(l, c, acc, ShippedOverrides[k]) = acc
      BY <2>4, <2>2
    <3>2. ScoreBy(l, t, next) = ScoreBy(l, t, S)
      BY <2>4 DEF ScoreBy
    <3>3. RouteBy(l, t, next) = RouteBy(l, t, S)
      BY <1>5, <2>1, <3>2 DEF RouteBy
    <3> QED BY <1>1, <2>1, <3>1, <3>2, <3>3
  <2> QED BY <2>3, <2>4
<1>6. CASE k = 5
  <2>1. ForcedBy(l, next) = ForcedBy(l, S) /\ ScoreBy(l, t, next) = ScoreBy(l, t, S)
    BY <1>6 DEF ForcedBy, ScoreBy
  <2>2. applyOverride(l, c, acc, ShippedOverrides[k])
            = IF l.llm_status = "failed"
              THEN [score |-> acc.score, forced |-> acc.forced, route |-> _cap_route(acc.route, "nurture")]
              ELSE acc
    <3>1. ShippedOverrides[k] = Override([llm_status |-> "failed"], {}, {}, {"nurture"})
      BY <1>6, OverrideFields
    <3> QED BY <1>2, <3>1, RouteCapTurn
  <2>3. CASE l.llm_status = "failed"
    <3>1. applyOverride(l, c, acc, ShippedOverrides[k])
              = [score |-> acc.score, forced |-> acc.forced, route |-> _cap_route(acc.route, "nurture")]
      BY <2>3, <2>2
    <3>2. RouteBy(l, t, next) = IF acc.route = "sales" THEN "nurture" ELSE acc.route
      <4>1. CASE ForcedBy(l, S)
        BY <1>1, <2>1, <4>1 DEF RouteBy, Destination
      <4>2. CASE ~ForcedBy(l, S)
        BY <1>1, <1>6, <2>1, <2>3, <4>2 DEF RouteBy
      <4> QED BY <4>1, <4>2
    <3>3. _cap_route(acc.route, "nurture") = IF acc.route = "sales" THEN "nurture" ELSE acc.route
      BY NurtureCap
    <3> QED BY <1>1, <2>1, <3>1, <3>2, <3>3
  <2>4. CASE l.llm_status # "failed"
    <3>1. applyOverride(l, c, acc, ShippedOverrides[k]) = acc
      BY <2>4, <2>2
    <3>2. RouteBy(l, t, next) = RouteBy(l, t, S)
      BY <2>1, <2>4 DEF RouteBy
    <3> QED BY <1>1, <2>1, <3>1, <3>2
  <2> QED BY <2>3, <2>4
<1> QED
  BY <1>4, <1>5, <1>6

\* No two of the shipped overrides are the same.
LEMMA OverridesDiffer ==
  ASSUME NEW j \in 1..5, NEW k \in 1..5, ShippedOverrides[j] = ShippedOverrides[k]
  PROVE  j = k
<1>1. /\ ShippedOverrides[1].route = {"archive"} /\ ShippedOverrides[2].route = {"hr_forward"}
      /\ ShippedOverrides[3].route = {"support_forward"}
      /\ ShippedOverrides[4].route = {} /\ ShippedOverrides[4].cap_score = {60}
      /\ ShippedOverrides[5].route = {} /\ ShippedOverrides[5].cap_score = {}
  BY OverrideFields DEF Override
<1>2. {"archive"} # {"hr_forward"} /\ {"archive"} # {"support_forward"} /\ {"hr_forward"} # {"support_forward"}
      /\ {"archive"} # {} /\ {"hr_forward"} # {} /\ {"support_forward"} # {} /\ {60} # {}
  OBVIOUS
<1>3. j \in {1, 2, 3, 4, 5} /\ k \in {1, 2, 3, 4, 5}
  OBVIOUS
<1> QED
  BY <1>1, <1>2, <1>3

\* The overrides that have come up after n turns.
Seen(c, n) == {k \in 1..5 : \E j \in 1..n : c.overrides[j] = ShippedOverrides[k]}

\* Each turn adds one.
LEMMA SeenGrows ==
  ASSUME NEW c, NEW n \in Nat \ {0}, NEW k \in 1..5, c.overrides[n] = ShippedOverrides[k]
  PROVE  Seen(c, n) = Seen(c, n - 1) \union {k}
<1>1. \A j : j \in 1..n <=> (j \in 1..(n - 1) \/ j = n)
  OBVIOUS
<1>2. \A i \in 1..5 : ShippedOverrides[i] = ShippedOverrides[k] => i = k
  BY OverridesDiffer
<1> QED
  BY <1>1, <1>2 DEF Seen

\* The total before the loop.
Total(l, c) == scored(l, c).score

\* The loop of score_lead does what all overrides do at once, in whatever order the
\* file lists them.
LEMMA LoopOutcome ==
  ASSUME NEW l, IsLead(l), NEW c, IsRules(c), Total(l, c) \in Nat
  PROVE  score_lead(l, c) = At(l, Total(l, c), 1..5)
<1> DEFINE t == Total(l, c)
           N == Len(c.overrides)
           body(f, n) == IF n = 0 THEN scored(l, c) ELSE applyOverride(l, c, f[n - 1], c.overrides[n])
           g == [n \in 0..N |-> At(l, t, Seen(c, n))]
<1>1. /\ N \in Nat /\ c.routes = ShippedRoutes /\ l.is_free_mail \in BOOLEAN
      /\ \A n \in 1..N : \E k \in 1..5 : c.overrides[n] = ShippedOverrides[k]
      /\ \A k \in 1..5 : \E n \in 1..N : c.overrides[n] = ShippedOverrides[k]
  <2>1. c.overrides \in Seq(Overrides) /\ \A o \in Overrides : \E n \in 1..N : c.overrides[n] = o
    BY DEF IsRules
  <2>2. N \in Nat /\ \A n \in 1..N : c.overrides[n] \in Overrides
    BY <2>1
  <2>3. \A n \in 1..N : \E k \in 1..5 : c.overrides[n] = ShippedOverrides[k]
    BY <2>2 DEF Overrides
  <2>4. \A k \in 1..5 : \E n \in 1..N : c.overrides[n] = ShippedOverrides[k]
    <3>1. \A k \in 1..5 : ShippedOverrides[k] \in Overrides
      BY DEF Overrides
    <3> QED BY <2>1, <3>1, Zenon
  <2>5. c.routes = ShippedRoutes /\ l.is_free_mail \in BOOLEAN
    BY DEF IsRules, IsLead
  <2> QED BY <2>2, <2>3, <2>4, <2>5
<1>2. scored(l, c) = At(l, t, {})
  <2>1. scored(l, c) = [score |-> t, forced |-> FALSE, route |-> _route_from_score(t, c)]
    BY DEF scored, Total
  <2>2. ScoreBy(l, t, {}) = t /\ ForcedBy(l, {}) = FALSE
    BY DEF ScoreBy, ForcedBy
  <2>3. RouteBy(l, t, {}) = _route_from_score(t, c)
    BY <1>1, <2>2, RouteOfScore DEF RouteBy
  <2> QED BY <2>1, <2>2, <2>3, Zenon DEF At
<1>3. \A n \in 0..N : At(l, t, Seen(c, n)) = body(g, n)
  <2> SUFFICES ASSUME NEW n \in 0..N
               PROVE  At(l, t, Seen(c, n)) = body(g, n)
    BY Zenon
  <2>1. CASE n = 0
    <3>1. Seen(c, 0) = {}
      BY DEF Seen
    <3> QED BY <1>2, <2>1, <3>1, Zenon
  <2>2. CASE n # 0
    <3>1. n \in 1..N /\ n - 1 \in 0..N /\ n \in Nat \ {0}
      BY <1>1, <2>2
    <3>2. PICK k \in 1..5 : c.overrides[n] = ShippedOverrides[k]
      BY <1>1, <3>1, Zenon
    <3>3. Seen(c, n) = Seen(c, n - 1) \union {k}
      BY <3>1, <3>2, SeenGrows, SMTT(60), Z3
    <3>4. Seen(c, n - 1) \in SUBSET (1..5)
      BY DEF Seen
    <3>5. applyOverride(l, c, At(l, t, Seen(c, n - 1)), c.overrides[n]) = At(l, t, Seen(c, n))
      <4> DEFINE S == Seen(c, n - 1)
      <4>1. t \in Nat /\ c.routes = ShippedRoutes /\ S \in SUBSET (1..5)
        BY <1>1, <3>4
      <4> HIDE DEF t, S
      <4>2. TurnAdds(l, c, t, S, k, c.overrides[n])
        BY <3>2, <4>1, Turn
      <4> QED BY <3>3, <4>2 DEF S, TurnAdds
    <3>6. g[n - 1] = At(l, t, Seen(c, n - 1))
      BY <3>1
    <3> HIDE DEF g
    <3> QED BY <2>2, <3>2, <3>5, <3>6
  <2> QED BY <2>1, <2>2
<1>4. g = [n \in 0..N |-> body(g, n)]
  BY <1>3
<1>5. Turns(l, c) = [n \in 0..N |-> body(Turns(l, c), n)]
  <2> HIDE DEF g
  <2> QED BY <1>4, Zenon DEF Turns
<1>6. \A n \in 0..N : Turns(l, c)[n] = At(l, t, Seen(c, n))
  <2> DEFINE Bad == {n \in 0..N : Turns(l, c)[n] # At(l, t, Seen(c, n))}
  <2> SUFFICES ASSUME Bad # {} PROVE FALSE
    OBVIOUS
  <2>1. PICK m \in Bad : \A k \in Bad : m <= k
    <3>1. Bad \in SUBSET Nat
      BY <1>1
    <3> HIDE DEF Bad
    <3> QED BY <3>1, LeastOf
  <2>2. Turns(l, c)[m] = body(Turns(l, c), m)
    BY <1>5, Zenon
  <2>3. CASE m = 0
    BY <1>3, <2>2, <2>3, ZenonT(60)
  <2>4. CASE m # 0
    <3>1. m \in 0..N
      OBVIOUS
    <3>2. m - 1 \in 0..N /\ ~(m <= m - 1)
      BY <1>1, <2>4, <3>1
    <3>3. m - 1 \notin Bad
      <4> HIDE DEF Bad
      <4> QED BY <2>1, <3>2
    <3>4. Turns(l, c)[m - 1] = g[m - 1]
      BY <3>2, <3>3, ZenonT(60)
    <3>5. body(Turns(l, c), m) = body(g, m)
      BY <3>4
    <3> QED BY <1>3, <2>2, <3>5
  <2> QED BY <2>3, <2>4
<1>7. Seen(c, N) = 1..5
  BY <1>1, Zenon DEF Seen
<1>8. score_lead(l, c) = Turns(l, c)[N]
  BY DEF score_lead, Turns
<1>9. N \in 0..N
  BY <1>1
<1> HIDE DEF N
<1> QED
  BY <1>6, <1>7, <1>8, <1>9
-----------------------------------------------------------------------------
\* A mapping whose points are not negative.
LEMMA TablePoints ==
  ASSUME NEW rows, \A row \in rows : row[2] \in Nat
  PROVE  IsPoints(PointsTable(rows))
<1> DEFINE texts == {row[1] : row \in rows}
<1>1. \A text \in texts : (CHOOSE row \in rows : row[1] = text)[2] \in Nat
  OBVIOUS
<1> QED
  BY <1>1 DEF IsPoints, PointsTable

\* The shipped file has the form the proofs assume of any file.
LEMMA ShippedRules == IsRules(Scoring)
<1>1. Scoring.max_score \in 0..100 /\ Scoring.routes = ShippedRoutes /\ Scoring.overrides = ShippedOverrides
  BY DEF Scoring
<1>2. /\ ShippedOverrides \in Seq(Overrides)
      /\ \A o \in Overrides : \E n \in 1..Len(ShippedOverrides) : ShippedOverrides[n] = o
  <2>1. Len(ShippedOverrides) = 5
    BY DEF ShippedOverrides
  <2>2. \A k \in 1..5 : ShippedOverrides[k] \in Overrides
    BY DEF Overrides
  <2>3. ShippedOverrides \in Seq(Overrides)
    <3>1. ShippedOverrides = [k \in 1..5 |-> ShippedOverrides[k]]
      BY DEF ShippedOverrides
    <3> QED BY <2>2, <3>1
  <2>4. 1..Len(ShippedOverrides) = 1..5
    BY <2>1
  <2>5. \A o \in Overrides : \E n \in 1..5 : ShippedOverrides[n] = o
    BY Zenon DEF Overrides
  <2> QED BY <2>3, <2>4, <2>5, Zenon
<1>3. Scoring.company_size.max \in Nat /\ IsPoints(Scoring.company_size.bands)
  BY TablePoints, SMTT(60) DEF Scoring
<1>4. Scoring.budget.max \in Nat /\ IsPoints(Scoring.budget.bands)
  BY TablePoints DEF Scoring
<1>5. Scoring.urgency.max \in Nat /\ IsPoints(Scoring.urgency.bands)
  <2> DEFINE quarter == "1-3 months"
             half == "3-6 months"
             rows == {<<"now", 15>>, <<quarter, 10>>, <<half, 5>>, <<"exploring", 2>>, <<"unknown", 3>>}
  <2>1. Scoring.urgency.max = 15 /\ Scoring.urgency.bands = PointsTable(rows)
    BY Zenon DEF Scoring
  <2> HIDE DEF quarter, half
  <2>2. \A row \in rows : row[2] \in Nat
    BY SMTT(60)
  <2> HIDE DEF rows
  <2> QED BY <2>1, <2>2, TablePoints, SMTT(60)
<1>6. {Scoring.industry_fit.max, Scoring.industry_fit.fit_points, Scoring.industry_fit.partial_points,
       Scoring.industry_fit.other_points} \subseteq Nat
  BY SMTT(60) DEF Scoring
<1>7. Scoring.ai_qualification.max \in Nat /\ IsPoints(Scoring.ai_qualification.intent_points)
  BY DEF Scoring, IsPoints
<1> QED
  BY <1>1, <1>2, <1>3, <1>4, <1>5, <1>6, <1>7, ZenonT(60) DEF IsRules

\* A lead with nothing in it.
LEMMA EmptyLead == IsLead(Empty)
BY DEF IsLead, Empty

\* The points of a component, and what the cap of the model's part does to them
\* (_cap_component).
LEMMA ComponentPoints ==
  ASSUME NEW name, NEW points \in Nat, NEW part, part.max \in Nat
  PROVE  /\ _cap_component(name, points, part) \in Nat
         /\ name = "ai_qualification" => _cap_component(name, points, part) <= LLM_SCORE_CAP
BY DEF _cap_component, Least, LLM_SCORE_CAP

\* The points of a band are not negative, whatever text is looked up (_band_points).
LEMMA BandPoints ==
  ASSUME NEW bands, IsPoints(bands), NEW key
  PROVE  _band_points(bands, key) \in Nat
BY SMTT(60) DEF _band_points, IsPoints

\* The components that the model has no part in when the timeline is tl.
FormPoints(l, c, tl) ==
    _company_size_points(l, c) + _industry_points(l, c) + _budget_points(l, c)
        + _cap_component("urgency", _band_points(c.urgency.bands, tl), c.urgency)

\* The sum before the overrides, in its two parts: what the form gives and what the
\* model gives, the second between 0 and LLM_SCORE_CAP and 0 when the model failed.
LEMMA Points ==
  ASSUME NEW l, IsLead(l), NEW c, IsRules(c)
  PROVE  /\ FormPoints(l, c, timelineUsed(l)) \in Nat
         /\ _ai_points(l, c) \in 0..LLM_SCORE_CAP
         /\ l.llm_status = "failed" \/ stripped(l.intent) \in Absent => _ai_points(l, c) = 0
         /\ Total(l, c) = Least(FormPoints(l, c, timelineUsed(l)) + _ai_points(l, c), c.max_score)
         /\ Total(l, c) \in 0..100
<1>1. /\ c.max_score \in 0..100 /\ c.company_size.max \in Nat /\ c.budget.max \in Nat /\ c.urgency.max \in Nat
      /\ IsPoints(c.company_size.bands) /\ IsPoints(c.budget.bands) /\ IsPoints(c.urgency.bands)
      /\ c.industry_fit.max \in Nat /\ c.industry_fit.fit_points \in Nat
      /\ c.industry_fit.partial_points \in Nat /\ c.industry_fit.other_points \in Nat
      /\ c.ai_qualification.max \in Nat /\ IsPoints(c.ai_qualification.intent_points)
  BY Zenon DEF IsRules
<1>2. _company_size_points(l, c) \in Nat
  BY <1>1, BandPoints, ComponentPoints, Zenon DEF _company_size_points
<1>3. _industry_points(l, c) \in Nat
  BY <1>1, ComponentPoints, Zenon DEF _industry_points
<1>4. _budget_points(l, c) \in Nat
  BY <1>1, BandPoints, ComponentPoints, Zenon DEF _budget_points
<1>5. _urgency_points(l, c) \in Nat
  BY <1>1, BandPoints, ComponentPoints DEF _urgency_points
<1>6. FormPoints(l, c, timelineUsed(l)) = _company_size_points(l, c) + _industry_points(l, c) + _budget_points(l, c)
                                        + _urgency_points(l, c)
  BY DEF FormPoints, _urgency_points
<1>7. _ai_points(l, c) \in 0..LLM_SCORE_CAP
  <2> DEFINE part == c.ai_qualification
             intent == stripped(l.intent)
  <2>1. CASE l.llm_status = "failed" \/ intent \notin DOMAIN part.intent_points \ Absent
    BY <2>1, SMTT(60) DEF _ai_points, LLM_SCORE_CAP
  <2>2. CASE ~(l.llm_status = "failed" \/ intent \notin DOMAIN part.intent_points \ Absent)
    <3>1. part.intent_points[intent] \in Nat
      BY <1>1, <2>2, Zenon DEF IsPoints
    <3>2. /\ _cap_component("ai_qualification", part.intent_points[intent], part) \in Nat
          /\ _cap_component("ai_qualification", part.intent_points[intent], part) <= LLM_SCORE_CAP
      BY <1>1, <3>1, ComponentPoints
    <3>3. _ai_points(l, c) = _cap_component("ai_qualification", part.intent_points[intent], part)
      BY <2>2 DEF _ai_points
    <3> QED BY <3>2, <3>3 DEF LLM_SCORE_CAP
  <2> QED BY <2>1, <2>2, Zenon
<1>8. l.llm_status = "failed" \/ stripped(l.intent) \in Absent => _ai_points(l, c) = 0
  BY DEF _ai_points
<1>9. Total(l, c) = Least(_company_size_points(l, c) + _industry_points(l, c) + _budget_points(l, c)
                              + _urgency_points(l, c) + _ai_points(l, c), c.max_score)
  BY DEF Total, scored
<1> DEFINE base == FormPoints(l, c, timelineUsed(l))
           ai == _ai_points(l, c)
<1>10. base \in Nat /\ Total(l, c) = Least(base + ai, c.max_score)
  BY <1>2, <1>3, <1>4, <1>5, <1>6, <1>9
<1>11. Total(l, c) \in 0..100
  <2>1. c.max_score \in 0..100 /\ base \in Nat /\ ai \in 0..20
    BY <1>1, <1>7, <1>10 DEF LLM_SCORE_CAP
  <2> HIDE DEF base, ai
  <2> QED BY <1>10, <2>1, SMTT(60), Z3 DEF Least
<1> QED
  BY <1>7, <1>8, <1>10, <1>11, Zenon

\* What score_lead answers: the total with all overrides in force.
LEMMA Answer ==
  ASSUME NEW l, IsLead(l), NEW c, IsRules(c)
  PROVE  score_lead(l, c) = At(l, Total(l, c), 1..5) /\ Total(l, c) \in 0..100
<1>1. Total(l, c) \in 0..100 /\ Total(l, c) \in Nat
  BY Points
<1>2. score_lead(l, c) = At(l, Total(l, c), 1..5)
  BY <1>1, LoopOutcome, Zenon
<1> QED
  BY <1>1, <1>2

-----------------------------------------------------------------------------
\* Every answer the service gives is score_lead's for a lead and rules of the form
\* above (PostScore); between requests it keeps nothing.
Scored == IsLead(lead) /\ IsRules(config) /\ result = score_lead(lead, config)

\* Scored holds in every state.
LEMMA AlwaysScored == ScoreSpec => []Scored
<1>1. ScoreInit => Scored
  BY EmptyLead, ShippedRules DEF ScoreInit, Scored
<1>2. Scored /\ [ScoreNext]_<<phase, scoreVars>> => Scored'
  <2> SUFFICES ASSUME Scored, [ScoreNext]_<<phase, scoreVars>> PROVE Scored'
    OBVIOUS
  <2>1. CASE ScoreDone
    BY <2>1, EmptyLead, ShippedRules DEF ScoreDone, Scored
  <2>2. CASE \E p \in Posts : PostScore(p)
    BY <2>2, PostsAssumption DEF PostScore, Scored
  <2>3. CASE UNCHANGED <<phase, scoreVars>>
    BY <2>3 DEF scoreVars, Scored
  <2> QED BY <2>1, <2>2, <2>3 DEF ScoreNext
<1> QED
  BY <1>1, <1>2, PTL DEF ScoreSpec

\* Whatever points the rules give and in whatever order they list the overrides, a
\* lead's route is what its intent forces, or else what its score reaches, and not
\* sales when the model failed; the score is at most 60 for a free mail address and
\* at most 100 for any (score_lead).
THEOREM RoutesFollowRules == ScoreSpec => []RouteFollowsRules
<1>1. Scored => RouteFollowsRules
  <2> SUFFICES ASSUME Scored PROVE RouteFollowsRules
    OBVIOUS
  <2> DEFINE t == Total(lead, config)
             s == ScoreBy(lead, t, 1..5)
  <2>1. t \in 0..100 /\ lead.is_free_mail \in BOOLEAN /\ result = At(lead, t, 1..5)
    BY Answer DEF Scored, IsLead
  <2> HIDE DEF t
  <2>2. result.score = s /\ result.route = RouteBy(lead, t, 1..5)
    BY <2>1 DEF At
  <2>3. s \in 0..(IF lead.is_free_mail THEN 60 ELSE 100)
    BY <2>1 DEF ScoreBy, Least
  <2> HIDE DEF s
  <2>4. RouteBy(lead, t, 1..5)
            = IF lead.intent = "spam" THEN "archive"
              ELSE IF lead.intent = "job_application" THEN "hr_forward"
              ELSE IF lead.intent = "support" THEN "support_forward"
              ELSE IF lead.llm_status = "failed" /\ Ladder(s) = "sales" THEN "nurture"
              ELSE Ladder(s)
    BY DEF RouteBy, ForcedBy, Destination, s
  <2> QED BY <2>2, <2>3, <2>4 DEF RouteFollowsRules, Ladder
<1> QED
  BY <1>1, AlwaysScored, PTL

\* The form's part of the sum does not depend on whether the model's call failed,
\* nor, for a given timeline, on what the model said.
LEMMA FormPart ==
  ASSUME NEW l, NEW m, NEW c, NEW tl,
         l.company_size = m.company_size, l.industry = m.industry, l.budget_range = m.budget_range
  PROVE  FormPoints(l, c, tl) = FormPoints(m, c, tl)
BY DEF FormPoints, _company_size_points, _industry_points, _budget_points

\* A better score stands no lower on the ladder.
LEMMA LadderClimbs ==
  ASSUME NEW s \in Nat, NEW u \in Nat, s <= u
  PROVE  /\ Rank(Ladder(s)) <= Rank(Ladder(u))
         /\ Ladder(s) = "sales" => Rank("nurture") <= Rank(Ladder(u))
BY Ranks DEF Ladder

\* A failed model call never gives a lead a higher score or a better route than the
\* same lead gets when the call succeeds (_ai_points, the llm_status override).
THEOREM FailureIsNoHelp == ScoreSpec => []FailureNeverHelps
<1>1. Scored => FailureNeverHelps
  <2> SUFFICES ASSUME Scored PROVE FailureNeverHelps
    OBVIOUS
  <2> DEFINE l == [lead EXCEPT !.llm_status = "failed"]
             m == [lead EXCEPT !.llm_status = "ok"]
             tf == Total(l, config)
             tk == Total(m, config)
             base == FormPoints(m, config, timelineUsed(m))
             ai == _ai_points(m, config)
  <2>1. IsRules(config) /\ IsLead(l) /\ IsLead(m)
    BY DEF Scored, IsLead
  <2>2. /\ l.company_size = m.company_size /\ l.industry = m.industry /\ l.budget_range = m.budget_range
        /\ l.timeline = m.timeline /\ l.urgency_hint = m.urgency_hint /\ l.intent = m.intent
        /\ l.is_free_mail = m.is_free_mail /\ l.llm_status = "failed" /\ m.llm_status = "ok"
        /\ m.is_free_mail \in BOOLEAN
    BY DEF Scored, IsLead
  <2> HIDE DEF l, m
  <2>3. timelineUsed(l) = timelineUsed(m)
    BY <2>2, Zenon DEF timelineUsed
  <2>4. FormPoints(l, config, timelineUsed(l)) = base
    BY <2>2, <2>3, FormPart
  <2>5. /\ base \in Nat /\ ai \in 0..20 /\ config.max_score \in 0..100
        /\ tf = Least(base + 0, config.max_score) /\ tk = Least(base + ai, config.max_score)
    <3>1. _ai_points(l, config) = 0 /\ tf = Least(base + _ai_points(l, config), config.max_score)
      BY <2>1, <2>2, <2>4, Points
    <3>2. base \in Nat /\ ai \in 0..LLM_SCORE_CAP /\ tk = Least(base + ai, config.max_score)
      BY <2>1, Points, ZenonT(60)
    <3>3. config.max_score \in 0..100
      BY <2>1 DEF IsRules
    <3> HIDE DEF base, ai, tf, tk
    <3> QED BY <3>1, <3>2, <3>3 DEF LLM_SCORE_CAP
  <2>6. tf \in Nat /\ tk \in Nat /\ tf <= tk
    <3> HIDE DEF base, ai, tf, tk
    <3> QED BY <2>5 DEF Least
  <2>7. score_lead(l, config) = At(l, tf, 1..5) /\ score_lead(m, config) = At(m, tk, 1..5)
    BY <2>1, Answer
  <2> HIDE DEF base, ai, tf, tk
  <2> DEFINE sf == ScoreBy(l, tf, 1..5)
             sk == ScoreBy(m, tk, 1..5)
  <2>8. sf \in Nat /\ sk \in Nat /\ sf <= sk
    BY <2>2, <2>6 DEF ScoreBy, Least
  <2>9. /\ OnLadder(RouteBy(l, tf, 1..5)) /\ OnLadder(RouteBy(m, tk, 1..5))
             => Rank(RouteBy(l, tf, 1..5)) <= Rank(RouteBy(m, tk, 1..5))
    <3>1. CASE ForcedBy(l, 1..5)
      <4>1. ForcedBy(m, 1..5) /\ Destination(l) = Destination(m)
        BY <2>2, <3>1 DEF ForcedBy, Destination
      <4>2. RouteBy(l, tf, 1..5) = RouteBy(m, tk, 1..5)
        BY <3>1, <4>1 DEF RouteBy
      <4> QED BY <4>2, Ranks
    <3>2. CASE ~ForcedBy(l, 1..5)
      <4>1. ~ForcedBy(m, 1..5)
        BY <2>2, <3>2 DEF ForcedBy
      <4> HIDE DEF sf, sk
      <4>2. RouteBy(l, tf, 1..5) = IF Ladder(sf) = "sales" THEN "nurture" ELSE Ladder(sf)
        BY <2>2, <3>2, SMTT(60) DEF RouteBy, sf
      <4>3. RouteBy(m, tk, 1..5) = Ladder(sk)
        BY <2>2, <4>1 DEF RouteBy, sk
      <4> QED BY <2>8, <4>2, <4>3, LadderClimbs
    <3> QED BY <3>1, <3>2
  <2>10. /\ score_lead(l, config).score = sf /\ score_lead(l, config).route = RouteBy(l, tf, 1..5)
         /\ score_lead(m, config).score = sk /\ score_lead(m, config).route = RouteBy(m, tk, 1..5)
    BY <2>7 DEF At
  <2> QED BY <2>8, <2>9, <2>10 DEF FailureNeverHelps, l, m
<1> QED
  BY <1>1, AlwaysScored, PTL

\* When the form gave a timeline, what the model said moves the score by no more
\* than LLM_SCORE_CAP, whatever maximum and points the rules give its component
\* (_cap_component).
THEOREM ModelIsCapped == ScoreSpec => []ModelCappedGivenTimeline
<1>1. Scored => ModelCappedGivenTimeline
  <2> SUFFICES ASSUME Scored, lead.timeline \notin Absent \union {"unknown"}
               PROVE  result.score - score_lead(WithoutModel(lead), config).score <= LLM_SCORE_CAP
    BY DEF ModelCappedGivenTimeline, ModelAddsAtMostCap
  <2> DEFINE m == WithoutModel(lead)
             tw == Total(lead, config)
             tm == Total(m, config)
             base == FormPoints(lead, config, lead.timeline)
             ai == _ai_points(lead, config)
  <2>1. IsRules(config) /\ IsLead(lead) /\ IsLead(m)
    <3> DEFINE n == [lead EXCEPT !.intent = "none"]
    <3>1. IsLead(n)
      BY DEF Scored, IsLead
    <3> HIDE DEF n
    <3>2. IsLead([n EXCEPT !.urgency_hint = "none"])
      BY <3>1 DEF IsLead
    <3> QED BY <3>2 DEF Scored, WithoutModel, n
  <2>2. /\ lead.company_size = m.company_size /\ lead.industry = m.industry
        /\ lead.budget_range = m.budget_range /\ lead.timeline = m.timeline /\ m.intent = "none"
        /\ lead.is_free_mail = m.is_free_mail /\ m.is_free_mail \in BOOLEAN
    BY DEF Scored, IsLead, WithoutModel
  <2> HIDE DEF m
  <2>3. timelineUsed(lead) = lead.timeline /\ timelineUsed(m) = lead.timeline
    BY <2>2, Zenon DEF timelineUsed
  <2>4. stripped(m.intent) \in Absent
    <3>1. stripped("none") = "none"
      BY Zenon DEF stripped
    <3>2. "none" \in Absent
      BY DEF Absent
    <3> QED BY <2>2, <3>1, <3>2
  <2>5. FormPoints(m, config, timelineUsed(m)) = base
    BY <2>2, <2>3, FormPart
  <2>6. /\ base \in Nat /\ ai \in 0..20 /\ config.max_score \in 0..100
        /\ tm = Least(base + 0, config.max_score) /\ tw = Least(base + ai, config.max_score)
    <3>1. _ai_points(m, config) = 0 /\ tm = Least(base + _ai_points(m, config), config.max_score)
      BY <2>1, <2>4, <2>5, Points
    <3>2. base \in Nat /\ ai \in 0..LLM_SCORE_CAP /\ tw = Least(base + ai, config.max_score)
      BY <2>1, <2>3, Points, ZenonT(60)
    <3>3. config.max_score \in 0..100
      BY <2>1 DEF IsRules
    <3> HIDE DEF base, ai, tw, tm
    <3> QED BY <3>1, <3>2, <3>3 DEF LLM_SCORE_CAP
  <2>7. result = At(lead, tw, 1..5) /\ score_lead(m, config) = At(m, tm, 1..5)
    BY <2>1, Answer DEF Scored
  <2> HIDE DEF base, ai, tw, tm
  <2>8. result.score = ScoreBy(lead, tw, 1..5) /\ score_lead(m, config).score = ScoreBy(m, tm, 1..5)
    BY <2>7 DEF At
  <2>9. ScoreBy(lead, tw, 1..5) - ScoreBy(m, tm, 1..5) <= 20
    <3>1. tw \in Nat /\ tm \in Nat /\ tm <= tw /\ tw - tm <= 20
      BY <2>6 DEF Least
    <3> QED BY <2>2, <3>1 DEF ScoreBy, Least
  <2> QED BY <2>8, <2>9 DEF m, LLM_SCORE_CAP
<1> QED
  BY <1>1, AlwaysScored, PTL

-----------------------------------------------------------------------------
\* One more term on each side.
LEMMA TermAdded ==
  ASSUME NEW x \in Int, NEW y \in Int, NEW c \in Int, NEW d \in Int, NEW p \in Int, NEW w \in Nat,
         x * Unit - y <= p, y - x * Unit <= p, c * Unit - d \in -w..w
  PROVE  (x + c) * Unit - (y + d) <= p + w /\ (y + d) - (x + c) * Unit <= p + w
BY DEF Unit

\* Sums of as many terms are no further apart than their terms together, one of
\* them counted in cents and the other in 1/Unit cents.
LEMMA SumsApart ==
  ASSUME NEW a, NEW b, NEW N \in Nat, Len(a) = N, Len(b) = N, NEW w \in Nat,
         \A i \in 1..N : a[i] \in Int /\ b[i] \in Int /\ a[i] * Unit - b[i] \in -w..w
  PROVE  /\ SumOf(a) \in Int /\ SumOf(b) \in Int
         /\ SumOf(a) * Unit - SumOf(b) \in -(N * w)..(N * w)
<1> DEFINE A == Partial(a)
           B == Partial(b)
           Near(n) == A[n] * Unit - B[n] <= n * w /\ B[n] - A[n] * Unit <= n * w
           Bad == {n \in 0..N : ~Near(n)}
<1>1. /\ SumOf(a) = A[N] /\ A[0] = 0 /\ \A n \in 1..N : A[n] = A[n - 1] + a[n]
      /\ \A n \in 0..N : A[n] \in Int
  BY PartialSums, Zenon
<1>2. /\ SumOf(b) = B[N] /\ B[0] = 0 /\ \A n \in 1..N : B[n] = B[n - 1] + b[n]
      /\ \A n \in 0..N : B[n] \in Int
  BY PartialSums, Zenon
<1> HIDE DEF A, B
<1>3. \A n \in 0..N : Near(n)
  <2> SUFFICES ASSUME Bad # {} PROVE FALSE
    BY Zenon
  <2>1. PICK m \in Bad : \A k \in Bad : m <= k
    <3>1. Bad \in SUBSET Nat
      OBVIOUS
    <3> HIDE DEF Bad
    <3> QED BY <3>1, LeastOf
  <2>2. m \in 0..N /\ ~Near(m)
    BY <2>1
  <2>3. CASE m = 0
    BY <1>1, <1>2, <2>2, <2>3, SMTT(60) DEF Unit
  <2>4. CASE m # 0
    <3>1. m - 1 \in 0..N /\ m \in 1..N /\ ~(m <= m - 1)
      BY <2>2, <2>4
    <3>2. Near(m - 1)
      BY <2>1, <3>1
    <3>3. m * w = (m - 1) * w + w
      BY <3>1
    <3>4. A[m] = A[m - 1] + a[m] /\ B[m] = B[m - 1] + b[m] /\ a[m] * Unit - b[m] \in -w..w
      BY <1>1, <1>2, <3>1, ZenonT(60)
    <3>5. A[m - 1] \in Int /\ B[m - 1] \in Int /\ a[m] \in Int /\ b[m] \in Int /\ (m - 1) * w \in Int
      BY <1>1, <1>2, <3>1, SMTT(60), Z3
    <3>6. A[m] * Unit - B[m] <= m * w /\ B[m] - A[m] * Unit <= m * w
      <4> DEFINE x == A[m - 1]
                 y == B[m - 1]
                 c == a[m]
                 d == b[m]
                 p == (m - 1) * w
      <4>1. /\ x \in Int /\ y \in Int /\ c \in Int /\ d \in Int /\ p \in Int
            /\ x * Unit - y <= p /\ y - x * Unit <= p /\ c * Unit - d \in -w..w
        BY <3>2, <3>4, <3>5, Zenon
      <4>2. A[m] = x + c /\ B[m] = y + d /\ m * w = p + w
        BY <3>3, <3>4
      <4> HIDE DEF x, y, c, d, p
      <4>3. (x + c) * Unit - (y + d) <= p + w /\ (y + d) - (x + c) * Unit <= p + w
        BY <4>1, TermAdded, Zenon
      <4> QED BY <4>2, <4>3
    <3> QED BY <2>2, <3>6
  <2> QED BY <2>3, <2>4
<1>4. Near(N) /\ A[N] \in Int /\ B[N] \in Int /\ N * w \in Int
  BY <1>1, <1>2, <1>3, SMTT(60)
<1> QED
  BY <1>1, <1>2, <1>4 DEF Unit

-----------------------------------------------------------------------------
\* The verdict on an invoice is validate's, and its figures and dates are as an
\* extraction has them (Validate).
Validated ==
    phase = "validated" =>
        /\ {invoice.net, invoice.vat, invoice.gross, today} \subseteq Int
        /\ invoice.lines \in Seq([rate : Int, base : Int, vat : Int])
        /\ invoice.hasTotals \in BOOLEAN
        /\ \A t \in {invoice.date, invoice.due} \union {row.valid_from : row \in rates} : IsText(t)
        /\ verdict = validate(invoice, rates, MoneyTolerance, unit, today)

\* Validated holds in every state.
LEMMA AlwaysValidated == InvoiceSpec => []Validated
<1>1. InvoiceInit => Validated
  BY ZenonT(60) DEF InvoiceInit, Validated
<1>2. Validated /\ [InvoiceNext]_<<phase, invoiceVars>> => Validated'
  <2> SUFFICES ASSUME Validated, [InvoiceNext]_<<phase, invoiceVars>> PROVE Validated'
    OBVIOUS
  <2>1. CASE InvoiceDone
    BY <2>1 DEF InvoiceDone, Validated
  <2>2. CASE \E e \in Extractions : Validate(e)
    <3>1. PICK e \in Extractions : Validate(e)
      BY <2>2, ZenonT(60)
    <3> QED BY <3>1, ExtractionsAssumption, Zenon DEF Validate, Validated
  <2>3. CASE UNCHANGED <<phase, invoiceVars>>
    BY <2>3 DEF invoiceVars, Validated
  <2> QED BY <2>1, <2>2, <2>3 DEF InvoiceNext
<1> QED
  BY <1>1, <1>2, PTL DEF InvoiceSpec

\* A date that was understood is a positive number (parse_date).
LEMMA DateNumber ==
  ASSUME NEW t, IsText(t)
  PROVE  parse_date(t) \in Nat
BY DEF parse_date, IsText, NoDate

\* Lines and what SumOf makes of them: the VAT they state and the VAT that their
\* bases and rates give (SumVat, _line_vat).
LEMMA LinesSums ==
  ASSUME NEW lines \in Seq([rate : Int, base : Int, vat : Int]), NEW u, NEW w \in Nat,
         \A n \in DOMAIN lines : lines[n].vat * Unit - _line_vat(lines[n], u) \in -w..w
  PROVE  /\ SumVat(lines) \in Int /\ LinesVat(lines, u) \in Int
         /\ SumVat(lines) * Unit - LinesVat(lines, u) \in -(Len(lines) * w)..(Len(lines) * w)
<1> DEFINE N == Len(lines)
           a == [n \in DOMAIN lines |-> lines[n].vat]
           b == [n \in DOMAIN lines |-> _line_vat(lines[n], u)]
<1>1. N \in Nat /\ DOMAIN lines = 1..N /\ \A n \in 1..N : lines[n] \in [rate : Int, base : Int, vat : Int]
  <2> DEFINE T == [rate : Int, base : Int, vat : Int]
  <2> HIDE DEF T
  <2>1. lines \in Seq(T)
    BY DEF T
  <2>2. N \in Nat /\ DOMAIN lines = 1..N /\ \A n \in 1..N : lines[n] \in T
    BY <2>1
  <2> QED BY <2>2 DEF T
<1>2. \A n \in 1..N : lines[n].vat \in Int /\ _line_vat(lines[n], u) \in Int
  BY <1>1, SMTT(60) DEF _line_vat
<1>3. a \in Seq(Int) /\ b \in Seq(Int) /\ Len(a) = N /\ Len(b) = N
  BY <1>1, <1>2, SMTT(60), Z3
<1>4. \A i \in 1..N : a[i] \in Int /\ b[i] \in Int /\ a[i] * Unit - b[i] \in -w..w
  BY <1>1, <1>2, Zenon
<1> HIDE DEF a, b, N
<1>5. SumOf(a) \in Int /\ SumOf(b) \in Int /\ SumOf(a) * Unit - SumOf(b) \in -(N * w)..(N * w)
  BY <1>1, <1>3, <1>4, SumsApart, Zenon
<1> QED
  BY <1>5 DEF SumVat, LinesVat, a, b, N

\* What vat_math looks at, one test after the other.
LEMMA MathPassed ==
  ASSUME NEW i, NEW tolerance, NEW u
  PROVE  vat_math(i, tolerance, u) = "passed" <=>
             /\ i.hasTotals
             /\ ~(i.net < 0 \/ i.vat < 0 \/ i.gross < 0)
             /\ _within(i.gross, i.net + i.vat, tolerance)
             /\ \A n \in DOMAIN i.lines : _within(i.lines[n].vat * Unit, _line_vat(i.lines[n], u), tolerance * Unit)
             /\ i.lines # <<>> => _within(SumVat(i.lines), i.vat, tolerance)
BY DEF vat_math

\* The tolerances add up: one for each line, one for the sum of the lines and one
\* for the total.
LEMMA TolerancesAdd ==
  ASSUME NEW gross \in Int, NEW net \in Int, NEW vat \in Int, NEW sum \in Int, NEW exact \in Int,
         NEW tol \in Nat, NEW N \in Nat,
         gross - (net + vat) \in -tol..tol, sum - vat \in -tol..tol,
         sum * Unit - exact \in -(N * (tol * Unit))..(N * (tol * Unit))
  PROVE  gross * Unit - (net * Unit + exact) \in -((N + 2) * tol * Unit)..((N + 2) * tol * Unit)
<1> DEFINE nt == N * tol
<1>1. nt \in Int /\ N * (tol * Unit) = nt * 100000 /\ (N + 2) * tol * Unit = nt * 100000 + tol * 200000
  BY DEF Unit
<1> HIDE DEF nt
<1>2. sum * 100000 - exact <= nt * 100000 /\ exact - sum * 100000 <= nt * 100000
  BY <1>1 DEF Unit
<1>3. /\ gross * 100000 - (net * 100000 + exact) <= nt * 100000 + tol * 200000
      /\ (net * 100000 + exact) - gross * 100000 <= nt * 100000 + tol * 200000
  BY <1>1, <1>2
<1> QED
  BY <1>1, <1>3 DEF Unit

\* An invoice that passes all rules adds up to within the tolerances that were
\* applied, has rates in force on its date and dates in order, and one with exact
\* figures is not turned away (vat_math, vat_rates, dates), for any tolerance, any
\* number of lines and any table of rates.
THEOREM PassedInvoicesAddUp == InvoiceSpec => []PassedAddsUp
<1>1. Validated => PassedAddsUp
  <2> SUFFICES ASSUME Validated, phase = "validated"
               PROVE  /\ verdict.vat_math = "passed" /\ invoice.lines # <<>> =>
                            _within(invoice.gross * Unit, invoice.net * Unit + LinesVat(invoice.lines, unit),
                                    (Len(invoice.lines) + 2) * MoneyTolerance * Unit)
                      /\ verdict.dates = "passed" /\ verdict.vat_rates = "passed" =>
                            /\ parse_date(invoice.date) \in 1..today
                            /\ parse_date(invoice.date) <= parse_date(invoice.due)
                            /\ \A n \in DOMAIN invoice.lines : \E r \in rates :
                                  /\ r.complete /\ r.rate = invoice.lines[n].rate
                                  /\ parse_date(r.valid_from) \in 1..parse_date(invoice.date)
                      /\ /\ invoice.hasTotals /\ invoice.net >= 0 /\ invoice.vat >= 0 /\ ExactLines
                         /\ invoice.vat * Unit = LinesVat(invoice.lines, unit)
                         /\ invoice.gross = invoice.net + invoice.vat
                         => verdict.vat_math = "passed"
    BY DEF PassedAddsUp
  <2> DEFINE tol == MoneyTolerance
             N == Len(invoice.lines)
  <2>1. /\ invoice.net \in Int /\ invoice.vat \in Int /\ invoice.gross \in Int /\ today \in Int
        /\ invoice.lines \in Seq([rate : Int, base : Int, vat : Int]) /\ tol \in Nat
    BY ExtractionsAssumption DEF Validated
  <2>2. N \in Nat
    <3> DEFINE T == [rate : Int, base : Int, vat : Int]
    <3> HIDE DEF T
    <3>1. invoice.lines \in Seq(T)
      BY <2>1, ZenonT(60) DEF T
    <3> QED BY <3>1
  <2>3. /\ verdict.vat_math = vat_math(invoice, tol, unit)
        /\ verdict.dates = dates(invoice.date, invoice.due, today)
        /\ verdict.vat_rates = vat_rates(invoice.lines, load_vat_rates(rates), invoice.date)
    BY DEF Validated, validate
  <2>4. ASSUME verdict.vat_math = "passed", invoice.lines # <<>>
        PROVE  _within(invoice.gross * Unit, invoice.net * Unit + LinesVat(invoice.lines, unit),
                       (N + 2) * tol * Unit)
    <3>1. /\ _within(invoice.gross, invoice.net + invoice.vat, tol)
          /\ \A n \in DOMAIN invoice.lines :
                _within(invoice.lines[n].vat * Unit, _line_vat(invoice.lines[n], unit), tol * Unit)
          /\ _within(SumVat(invoice.lines), invoice.vat, tol)
      BY <2>3, <2>4, MathPassed, Zenon
    <3>2. tol * Unit \in Nat
      BY <2>1 DEF Unit
    <3>3. \A n \in DOMAIN invoice.lines :
             invoice.lines[n].vat * Unit - _line_vat(invoice.lines[n], unit) \in -(tol * Unit)..(tol * Unit)
      BY <3>1, Zenon DEF _within
    <3>4. /\ SumVat(invoice.lines) \in Int /\ LinesVat(invoice.lines, unit) \in Int
          /\ SumVat(invoice.lines) * Unit - LinesVat(invoice.lines, unit)
                 \in -(N * (tol * Unit))..(N * (tol * Unit))
      BY <2>1, <3>2, <3>3, LinesSums, Zenon
    <3>5. /\ invoice.gross - (invoice.net + invoice.vat) \in -tol..tol
          /\ SumVat(invoice.lines) - invoice.vat \in -tol..tol
      BY <3>1, Zenon DEF _within
    <3>6. invoice.gross * Unit - (invoice.net * Unit + LinesVat(invoice.lines, unit))
              \in -((N + 2) * tol * Unit)..((N + 2) * tol * Unit)
      BY <2>1, <2>2, <3>4, <3>5, TolerancesAdd, Zenon
    <3> QED BY <3>6, Zenon DEF _within
  <2>5. ASSUME verdict.dates = "passed", verdict.vat_rates = "passed"
        PROVE  /\ parse_date(invoice.date) \in 1..today
               /\ parse_date(invoice.date) <= parse_date(invoice.due)
               /\ \A n \in DOMAIN invoice.lines : \E r \in rates :
                     /\ r.complete /\ r.rate = invoice.lines[n].rate
                     /\ parse_date(r.valid_from) \in 1..parse_date(invoice.date)
    <3>1. IsText(invoice.date) /\ IsText(invoice.due) /\ \A r \in rates : IsText(r.valid_from)
      BY Zenon DEF Validated
    <3>2. parse_date(invoice.date) \in Nat /\ parse_date(invoice.due) \in Nat
      BY <3>1, DateNumber, Zenon
    <3>3. /\ parse_date(invoice.date) # NoDate /\ ~(parse_date(invoice.date) > today)
          /\ ~(parse_date(invoice.due) < parse_date(invoice.date))
      BY <2>3, <2>5, Zenon DEF dates
    <3>4. parse_date(invoice.date) \in 1..today /\ parse_date(invoice.date) <= parse_date(invoice.due)
      BY <2>1, <3>2, <3>3, SMTT(60), Z3 DEF NoDate
    <3>5. ASSUME NEW n \in DOMAIN invoice.lines
          PROVE  \E r \in rates : /\ r.complete /\ r.rate = invoice.lines[n].rate
                                  /\ parse_date(r.valid_from) \in 1..parse_date(invoice.date)
      <4>1. \E r \in inForce(load_vat_rates(rates), parse_date(invoice.date)) : r.rate = invoice.lines[n].rate
        BY <2>3, <2>5, Zenon DEF vat_rates
      <4>2. PICK r \in inForce(load_vat_rates(rates), parse_date(invoice.date)) : r.rate = invoice.lines[n].rate
        BY <4>1, Zenon
      <4>3. /\ r \in rates /\ r.complete
            /\ parse_date(r.valid_from) # NoDate /\ parse_date(r.valid_from) <= parse_date(invoice.date)
        BY <3>3, <4>2, Zenon DEF inForce, load_vat_rates
      <4>4. parse_date(r.valid_from) \in Nat
        BY <3>1, <4>3, DateNumber, ZenonT(60)
      <4>5. parse_date(r.valid_from) \in 1..parse_date(invoice.date)
        BY <3>2, <4>3, <4>4, SMTT(60), Z3 DEF NoDate
      <4> QED BY <4>2, <4>3, <4>5, Zenon
    <3> QED BY <3>4, <3>5, Zenon
  <2>6. ASSUME invoice.hasTotals, invoice.net >= 0, invoice.vat >= 0, ExactLines,
               invoice.vat * Unit = LinesVat(invoice.lines, unit), invoice.gross = invoice.net + invoice.vat
        PROVE  verdict.vat_math = "passed"
    <3>1. \A n \in DOMAIN invoice.lines : invoice.lines[n].vat * Unit = _line_vat(invoice.lines[n], unit)
      BY <2>6, Zenon DEF ExactLines
    <3>2. \A n \in DOMAIN invoice.lines : invoice.lines[n].vat \in Int
      <4> DEFINE T == [rate : Int, base : Int, vat : Int]
      <4>1. \A x \in T : x.vat \in Int
        BY Zenon
      <4> HIDE DEF T
      <4>2. invoice.lines \in Seq(T)
        BY <2>1, Zenon DEF T
      <4>3. \A n \in DOMAIN invoice.lines : invoice.lines[n] \in T
        BY <4>2, SMTT(60), Z3
      <4> QED BY <4>1, <4>3, Zenon
    <3>3. \A n \in DOMAIN invoice.lines :
             /\ invoice.lines[n].vat * Unit - _line_vat(invoice.lines[n], unit) \in -0..0
             /\ invoice.lines[n].vat * Unit - _line_vat(invoice.lines[n], unit) \in -(tol * Unit)..(tol * Unit)
      <4> TAKE n \in DOMAIN invoice.lines
      <4>1. invoice.lines[n].vat * Unit \in Int /\ invoice.lines[n].vat * Unit = _line_vat(invoice.lines[n], unit)
        BY <3>1, <3>2, SMTT(60), Z3 DEF Unit
      <4>2. invoice.lines[n].vat * Unit - _line_vat(invoice.lines[n], unit) = 0
        BY <4>1, SMTT(60), Z3
      <4>3. 0 \in -0..0 /\ 0 \in -(tol * Unit)..(tol * Unit)
        BY <2>1, SMTT(60), Z3 DEF Unit
      <4> QED BY <4>2, <4>3, ZenonT(60)
    <3>4. /\ SumVat(invoice.lines) \in Int /\ LinesVat(invoice.lines, unit) \in Int
          /\ SumVat(invoice.lines) * Unit - LinesVat(invoice.lines, unit) \in -(N * 0)..(N * 0)
      <4>1. 0 \in Nat
        BY Zenon
      <4> QED BY <2>1, <3>3, <4>1, LinesSums, Zenon
    <3>5. SumVat(invoice.lines) = invoice.vat
      BY <2>1, <2>2, <2>6, <3>4, SMTT(60), Z3 DEF Unit
    <3>6. _within(invoice.gross, invoice.net + invoice.vat, tol) /\ _within(SumVat(invoice.lines), invoice.vat, tol)
      BY <2>1, <2>6, <3>5, SMTT(60), Z3 DEF _within
    <3>7. \A n \in DOMAIN invoice.lines :
             _within(invoice.lines[n].vat * Unit, _line_vat(invoice.lines[n], unit), tol * Unit)
      BY <3>3, Zenon DEF _within
    <3>8. ~(invoice.net < 0 \/ invoice.vat < 0 \/ invoice.gross < 0)
      BY <2>1, <2>6, SMTT(60), Z3
    <3>9. vat_math(invoice, tol, unit) = "passed"
      BY <2>6, <3>6, <3>7, <3>8, MathPassed, Zenon
    <3> QED BY <2>3, <3>9, Zenon
  <2> QED BY <2>4, <2>5, <2>6, ZenonT(60)
<1> QED
  BY <1>1, AlwaysValidated, PTL

-----------------------------------------------------------------------------
\* Both answers are about the error last given, and the attempt is one that was.
Classified == /\ in \in Inputs \union {NoInput} /\ attempt \in Attempts \union {AbsentValue}
              /\ py = classify_error(in) /\ js = classify_error_js(in)

\* The first of a list that says nothing is nothing.
LEMMA FirstOfNone ==
  ASSUME NEW s, NEW nothing, \A i \in DOMAIN s : s[i] = nothing
  PROVE  firstOf(s, nothing) = nothing
BY Zenon DEF firstOf

\* The first of a list is nothing or one of them.
LEMMA FirstOfOne ==
  ASSUME NEW s, NEW nothing, DOMAIN s \subseteq Nat
  PROVE  firstOf(s, nothing) = nothing \/ \E i \in DOMAIN s : firstOf(s, nothing) = s[i]
<1> DEFINE hits == {i \in DOMAIN s : s[i] # nothing}
<1> SUFFICES ASSUME hits # {}
             PROVE  \E i \in DOMAIN s : firstOf(s, nothing) = s[i]
  BY Zenon DEF firstOf
<1>1. \E m \in hits : \A k \in hits : m <= k
  BY LeastOf, Zenon
<1>2. Min(hits) \in hits
  <2> HIDE DEF hits
  <2> QED BY <1>1, Zenon DEF Min
<1> QED
  BY <1>2, Zenon DEF firstOf

\* An error without fields, codes and texts is unknown to both.
LEMMA EmptyUnknown == classify_error(NoInput) = "unknown" /\ classify_error_js(NoInput) = "unknown"
<1>1. _to_status(AbsentValue) = NoStatus /\ toStatus(AbsentValue) = NoStatus
  BY Zenon DEF _to_status, toStatus, AbsentValue
<1>2. /\ NoInput.src = NoBlock /\ NoInput.nested = NoBlock /\ NoInput.text = NoText /\ NoInput.error = "none"
      /\ NoBlock.status = AbsentValue /\ NoBlock.statusCode = AbsentValue /\ NoBlock.code = "none"
      /\ NoBlock.message = NoText /\ NoBlock.description = NoText /\ NoBlock.idempotent_create = FALSE
      /\ NoText.markers = {} /\ NoText.status = NoStatus
  BY Zenon DEF NoInput, NoBlock, NoText
<1>3. _messageStatus(NoInput) = NoStatus /\ messageStatus(NoInput) = NoStatus /\ ~InRange(NoStatus)
  BY <1>2, SMTT(60), Z3 DEF _messageStatus, messageStatus, InRange, NoStatus
<1>4. firstOf(<<NoStatus, NoStatus, NoStatus, NoStatus>>, NoStatus) = NoStatus
  BY FirstOfNone, SMTT(60), Z3
<1>5. _first_status(NoInput) = NoStatus /\ firstStatus(NoInput) = NoStatus
  BY <1>1, <1>2, <1>3, <1>4, Zenon DEF _first_status, firstStatus
<1>6. _first_text(NoInput.src, NoInput.nested) = NoText
  <2>1. firstOf(<<NoText, NoText, NoText, NoText>>, NoText) = NoText
    BY FirstOfNone, SMTT(60), Z3
  <2> QED BY <1>2, <2>1, Zenon DEF _first_text
<1>7. firstCode(NoInput.src, NoInput.nested) = "none"
  <2>1. firstOf(<<"none", "none">>, "none") = "none"
    BY FirstOfNone, SMTT(60), Z3
  <2> QED BY <1>2, <2>1, Zenon DEF firstCode
<1>8. NoStatus \notin DOMAIN ClassOfStatus /\ NoStatus # 409
  BY SMTT(60), Z3 DEF ClassOfStatus, NoStatus
<1>9. _parse(NoInput) = [status |-> NoStatus, markers |-> {}, transient |-> FALSE, idempotent_create |-> FALSE]
  BY <1>2, <1>5, <1>6, <1>7, Zenon DEF _parse, _is_transient
<1>10. parseInput(NoInput) = _parse(NoInput)
  BY <1>2, <1>5, <1>6, <1>7, <1>9, Zenon DEF parseInput, isTransient
<1> QED
  BY <1>8, <1>9, <1>10, SMTT(60), Z3 DEF classify_error, classify_error_js, classify, textClass

\* What holds of every error last given: both answers are about it.
LEMMA AlwaysClassified == ErrorSpec => []Classified
<1>1. ErrorInit => Classified
  BY EmptyUnknown, Zenon DEF ErrorInit, Classified
<1>2. Classified /\ [ErrorNext]_<<phase, errorVars>> => Classified'
  BY EmptyUnknown, Zenon DEF Classified, ErrorNext, Classify, ComputeDelay, ErrorDone, errorVars
<1> QED
  BY <1>1, <1>2, PTL DEF ErrorSpec

\* What an error is, given or not.
LEMMA InputTypes ==
  ASSUME NEW i \in Inputs \union {NoInput}
  PROVE  /\ i \in [src : BlockTypes, error : {"none", "text", "object"}, text : TextTypes, nested : BlockTypes]
         /\ i.error # "text" => i.text = NoText
<1>1. NoText \in TextTypes
  BY SMTT(60), Z3 DEF NoText, TextTypes, NoStatus
<1>2. AbsentValue \in ValueTypes
  BY SMTT(60), Z3 DEF AbsentValue, ValueTypes
<1>3. NoBlock \in BlockTypes
  BY <1>1, <1>2, Zenon DEF NoBlock, BlockTypes
<1>4. NoInput \in [src : BlockTypes, error : {"none", "text", "object"}, text : TextTypes, nested : BlockTypes]
      /\ NoInput.text = NoText
  BY <1>1, <1>3, Zenon DEF NoInput
<1> QED
  BY <1>4, InputsAssumption, ZenonT(60)

\* errors.py and classify_error.js read the same statuses and the same words out of
\* an error of the kind that ReadAlike describes.
LEMMA SameParse ==
  ASSUME ReadAlike, NEW i \in Inputs
  PROVE  parseInput(i) = _parse(i)
<1>1. \A v \in {i.src.status, i.src.statusCode, i.nested.status, i.nested.statusCode} : toStatus(v) = _to_status(v)
  BY Zenon DEF ReadAlike, toStatus, _to_status
<1>2. ~InRange(NoStatus) /\ NoText.status = NoStatus
  BY SMTT(60), Z3 DEF InRange, NoStatus, NoText
<1>3. firstCode(i.src, i.nested) # "constructor"
  <2>1. firstCode(i.src, i.nested) \in {i.src.code, i.nested.code, "none"}
    <3> DEFINE s == <<i.src.code, i.nested.code>>
    <3>1. DOMAIN s = {1, 2} /\ s[1] = i.src.code /\ s[2] = i.nested.code
      BY SMTT(60), Z3
    <3> HIDE DEF s
    <3> QED BY <3>1, FirstOfOne, SMTT(60), Z3 DEF firstCode, s
  <2> QED BY <2>1, Zenon DEF ReadAlike
<1>4. CASE i.src.message = NoText /\ i.nested.message = NoText /\ i.error # "text"
  <2>1. messageStatus(i) = NoStatus
    BY <1>2, <1>4, InputsAssumption, Zenon DEF messageStatus
  <2>2. ~InRange(_messageStatus(i))
    BY <1>4, Zenon DEF _messageStatus, ReadAlike
  <2>3. firstStatus(i) = _first_status(i)
    BY <1>1, <1>2, <2>1, <2>2, ZenonT(60) DEF firstStatus, _first_status
  <2> QED BY <1>3, <2>3, Zenon DEF parseInput, _parse, isTransient, _is_transient
<1>5. CASE ~(i.src.message = NoText /\ i.nested.message = NoText /\ i.error # "text")
  <2>1. messageStatus(i) = _messageStatus(i)
    BY <1>5, Zenon DEF messageStatus, _messageStatus
  <2>2. firstStatus(i) = _first_status(i)
    BY <1>1, <2>1, Zenon DEF firstStatus, _first_status
  <2> QED BY <1>3, <2>2, SMTT(60), Z3 DEF parseInput, _parse, isTransient, _is_transient
<1> QED
  BY <1>4, <1>5, Zenon

\* "Both give the same answer": the class and the delay do not depend on which of
\* the two implementations a project uses, for any errors and attempts that both
\* languages read alike.
THEOREM BothAgree ==
  ASSUME ReadAlike
  PROVE  ErrorSpec => []SameAnswer
<1>1. Classified => SameAnswer
  <2> SUFFICES ASSUME Classified
               PROVE  SameAnswer
    BY Zenon
  <2>1. py = js
    <3>1. CASE in \in Inputs
      BY <3>1, SameParse, Zenon DEF Classified, classify_error, classify_error_js
    <3>2. CASE in = NoInput
      BY <3>2, EmptyUnknown, ZenonT(60) DEF Classified
    <3> QED BY <3>1, <3>2, Zenon DEF Classified
  <2>2. attempt.kind = "absent" \/ (attempt.n \in Int /\ attempt.n <= FloatMaxExp)
    BY InputsAssumption, SMTT(60), Z3 DEF Classified, AbsentValue, ValueTypes, ReadAlike
  <2>3. toAttempt(attempt) \in Int /\ toAttempt(attempt) <= FloatMaxExp
    BY <2>2, InputsAssumption, SMTT(60), Z3 DEF toAttempt
  <2>4. compute_next_delay(attempt) = Capped(toAttempt(attempt))
    BY <2>3, InputsAssumption, SMTT(60), Z3 DEF compute_next_delay, toAttempt
  <2>5. compute_next_delay_js(attempt) = Capped(toAttempt(attempt))
    BY <2>3, InputsAssumption, SMTT(60), Z3 DEF compute_next_delay_js
  <2> QED BY <2>1, <2>4, <2>5, Zenon DEF SameAnswer
<1> QED
  BY <1>1, AlwaysClassified, PTL

-----------------------------------------------------------------------------
\* Without its codes and texts an error is classified by its status fields or not
\* at all.
LEMMA BareByStatus ==
  ASSUME NEW i \in Inputs \union {NoInput}
  PROVE  /\ _first_status(Bare(i)) # NoStatus => _first_status(i) = _first_status(Bare(i))
         /\ _parse(Bare(i)) = [status |-> _first_status(Bare(i)), markers |-> {}, transient |-> FALSE,
                               idempotent_create |-> _parse(i).idempotent_create]
<1> DEFINE b == Bare(i)
<1>1. /\ b.src = [i.src EXCEPT !.code = "none", !.message = NoText, !.description = NoText]
      /\ b.nested = [i.nested EXCEPT !.code = "none", !.message = NoText, !.description = NoText]
      /\ b.text = NoText /\ b.error = i.error
  BY InputTypes, ZenonT(60) DEF Bare
<1>2. i.src \in BlockTypes /\ i.nested \in BlockTypes
  BY InputTypes, Zenon
<1>3. /\ b.src.status = i.src.status /\ b.src.statusCode = i.src.statusCode
      /\ b.src.code = "none" /\ b.src.message = NoText /\ b.src.description = NoText
      /\ b.src.idempotent_create = i.src.idempotent_create
      /\ b.nested.status = i.nested.status /\ b.nested.statusCode = i.nested.statusCode
      /\ b.nested.code = "none" /\ b.nested.message = NoText /\ b.nested.description = NoText
      /\ b.nested.idempotent_create = i.nested.idempotent_create
  BY <1>1, <1>2, Zenon DEF BlockTypes
<1>4. _messageStatus(b) = NoStatus /\ ~InRange(NoStatus)
  BY <1>1, <1>3, SMTT(60), Z3 DEF _messageStatus, NoText, NoStatus, InRange
<1>5. _first_status(b) = firstOf(<<_to_status(i.src.status), _to_status(i.nested.status),
                                  _to_status(i.src.statusCode), _to_status(i.nested.statusCode)>>, NoStatus)
  BY <1>3, <1>4, ZenonT(60) DEF _first_status
<1>6. _first_status(b) # NoStatus => _first_status(i) = _first_status(b)
  BY <1>5, ZenonT(60) DEF _first_status
<1>7. _first_text(b.src, b.nested) = NoText
  <2>1. firstOf(<<NoText, NoText, NoText, NoText>>, NoText) = NoText
    BY FirstOfNone, SMTT(60), Z3
  <2> QED BY <1>3, <2>1, ZenonT(60) DEF _first_text
<1>8. firstCode(b.src, b.nested) = "none"
  <2>1. firstOf(<<"none", "none">>, "none") = "none"
    BY FirstOfNone, SMTT(60), Z3
  <2> QED BY <1>3, <2>1, Zenon DEF firstCode
<1>9. NoText.markers = {}
  BY Zenon DEF NoText
<1>10. _parse(b) = [status |-> _first_status(b), markers |-> {}, transient |-> FALSE,
                    idempotent_create |-> b.src.idempotent_create \/ b.nested.idempotent_create]
  <2> HIDE DEF b
  <2> QED BY <1>1, <1>7, <1>8, <1>9, ZenonT(60) DEF _parse, _is_transient
<1>11. _parse(i).idempotent_create = (i.src.idempotent_create \/ i.nested.idempotent_create)
  BY Zenon DEF _parse
<1> QED
  BY <1>3, <1>6, <1>10, <1>11, Zenon

\* What a status field decides, no code, message or description changes, for any
\* errors: a permanent failure is never retried because of its wording.
THEOREM FieldsDecide == ErrorSpec => []StatusDecides
<1>1. Classified => StatusDecides
  <2> SUFFICES ASSUME Classified, classify_error(Bare(in)) # "unknown"
               PROVE  py = classify_error(Bare(in))
    BY Zenon DEF StatusDecides
  <2> DEFINE bare == _parse(Bare(in))
  <2>1. /\ bare.status = _first_status(Bare(in)) /\ bare.markers = {} /\ bare.transient = FALSE
        /\ bare.idempotent_create = _parse(in).idempotent_create
        /\ bare.status # NoStatus => _first_status(in) = bare.status
    BY BareByStatus, SMTT(60), Z3 DEF Classified
  <2>2. classify(bare) # "unknown"
    BY Zenon DEF classify_error
  <2>3. bare.status \in DOMAIN ClassOfStatus
    <3>1. 409 \in DOMAIN ClassOfStatus
      BY SMTT(60), Z3 DEF ClassOfStatus
    <3> HIDE DEF bare
    <3> QED BY <2>1, <2>2, <3>1, Zenon DEF classify, textClass
  <2>4. _parse(in).status = bare.status
    <3>1. bare.status # NoStatus
      BY <2>3, SMTT(60), Z3 DEF ClassOfStatus, NoStatus
    <3> QED BY <2>1, <3>1, Zenon DEF _parse
  <2>5. classify(_parse(in)) = classify(bare)
    <3> HIDE DEF bare
    <3> QED BY <2>1, <2>3, <2>4, ZenonT(60) DEF classify
  <2> QED BY <2>5, Zenon DEF Classified, classify_error
<1> QED
  BY <1>1, AlwaysClassified, PTL
=============================================================================
