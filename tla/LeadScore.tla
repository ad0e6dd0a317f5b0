------------------------------ MODULE LeadScore ------------------------------
(***************************************************************************)
(* The lead scorer of P01 (p01_backend/score.py) with the rules it reads   *)
(* from config/scoring.yaml.  A field of a lead that was not sent is       *)
(* "none", one of spaces only is "blank".  Every field is stripped before  *)
(* it is looked up, but the overrides compare it as it was sent: only for  *)
(* the intent does that matter to the rules in force.                      *)
(***************************************************************************)
EXTENDS Integers, Sequences, Functions

LLM_SCORE_CAP == 20

URGENCY_HINT_TO_BAND == [now |-> "now", soon |-> "1-3 months", later |-> "3-6 months", unknown |-> "unknown"]

LADDER_ROUTES == <<"archive", "nurture", "sales">>

Absent == {"none", "blank"}

\* An override: the fields it asks for and its effects, each at most once.
Override(when, route, cap_score, cap_route) ==
    [when |-> when, route |-> route, cap_score |-> cap_score, cap_route |-> cap_route]

\* The routes and the overrides of config/scoring.yaml.
ShippedRoutes == {[name |-> "sales", min |-> 80], [name |-> "nurture", min |-> 50], [name |-> "archive", min |-> 0]}
ShippedOverrides == << Override([intent |-> "spam"], {"archive"}, {}, {}),
                       Override([intent |-> "job_application"], {"hr_forward"}, {}, {}),
                       Override([intent |-> "support"], {"support_forward"}, {}, {}),
                       Override([is_free_mail |-> TRUE], {}, {60}, {}),
                       Override([llm_status |-> "failed"], {}, {}, {"nurture"}) >>

\* A mapping of texts to points.
PointsTable(rows) == [text \in {row[1] : row \in rows} |-> (CHOOSE row \in rows : row[1] = text)[2]]

\* config/scoring.yaml; the industries stand for the lists of their kind.
Scoring ==
    [max_score |-> 100,
     company_size |-> [max |-> 25, bands |-> PointsTable({<<"1-10", 5>>, <<"11-50", 15>>, <<"51-200", 25>>,
                           <<"201-1000", 20>>, <<"1000+", 10>>, <<"unknown", 5>>})],
     industry_fit |-> [max |-> 20, fit |-> {"software"}, partial |-> {"retail"},
                       fit_points |-> 20, partial_points |-> 10, other_points |-> 0],
     budget |-> [max |-> 20, bands |-> PointsTable({<<"<5k", 0>>, <<"5k-20k", 10>>, <<"20k-50k", 16>>, <<"50k+", 20>>,
                     <<"unknown", 5>>})],
     urgency |-> [max |-> 15, bands |-> PointsTable({<<"now", 15>>, <<"1-3 months", 10>>, <<"3-6 months", 5>>,
                      <<"exploring", 2>>, <<"unknown", 3>>})],
     ai_qualification |-> [max |-> 20, intent_points |->
         [demo_request |-> 20, pricing |-> 16, partnership |-> 8, other |-> 4,
          support |-> 0, job_application |-> 0, spam |-> 0]],
     routes |-> ShippedRoutes, overrides |-> ShippedOverrides]

-----------------------------------------------------------------------------
Least(a, b) == IF a <= b THEN a ELSE b
The(effect) == CHOOSE e \in effect : TRUE

_band_points(bands, key) ==
    LET used == IF key \in DOMAIN bands \ Absent THEN key ELSE "unknown"
    IN  IF used \in DOMAIN bands THEN bands[used] ELSE 0

\* Mutant of _cap_component: only the configured maximum counts.
_cap_componentConfigured(name, points, component) == Least(points, component.max)

_cap_component(name, points, component) ==
    LET capped == Least(points, component.max)
    IN  IF name = "ai_qualification" THEN Least(capped, LLM_SCORE_CAP) ELSE capped

_company_size_points(inp, config) ==
    _cap_component("company_size", _band_points(config.company_size.bands, inp.company_size), config.company_size)

_industry_points(inp, config) ==
    LET c == config.industry_fit
    IN  _cap_component("industry_fit",
            IF inp.industry \in c.fit THEN c.fit_points
            ELSE IF inp.industry \in c.partial THEN c.partial_points ELSE c.other_points, c)

_budget_points(inp, config) ==
    _cap_component("budget", _band_points(config.budget.bands, inp.budget_range), config.budget)

\* The form's timeline, or the model's hint when the form has none.
timelineUsed(inp) ==
    IF inp.timeline \in Absent \union {"unknown"} /\ inp.urgency_hint \notin Absent
    THEN IF inp.urgency_hint \in DOMAIN URGENCY_HINT_TO_BAND THEN URGENCY_HINT_TO_BAND[inp.urgency_hint] ELSE "unknown"
    ELSE inp.timeline

_urgency_points(inp, config) ==
    _cap_component("urgency", _band_points(config.urgency.bands, timelineUsed(inp)), config.urgency)

\* str.strip, for the one padded intent that is told apart.
stripped(text) == IF text = "spam " THEN "spam" ELSE text

\* Mutant of _ai_points: a failed call counts as the intent "other".
_ai_pointsFailed(inp, config) ==
    LET c == config.ai_qualification
        intent == IF inp.llm_status = "failed" THEN "other" ELSE stripped(inp.intent)
    IN  IF intent \notin DOMAIN c.intent_points \ Absent THEN 0
        ELSE _cap_component("ai_qualification", c.intent_points[intent], c)

_ai_points(inp, config) ==
    LET c == config.ai_qualification
        intent == stripped(inp.intent)
    IN  IF inp.llm_status = "failed" \/ intent \notin DOMAIN c.intent_points \ Absent THEN 0
        ELSE _cap_component("ai_qualification", c.intent_points[intent], c)

-----------------------------------------------------------------------------
\* The route with the highest minimum that the score reaches.
_route_from_score(score, config) ==
    LET reached == {r \in config.routes : score >= r.min}
    IN  IF reached = {} THEN "archive"
        ELSE (CHOOSE r \in reached : \A q \in reached : q.min <= r.min).name

Rank(route) == CHOOSE i \in DOMAIN LADDER_ROUTES : LADDER_ROUTES[i] = route
OnLadder(route) == route \in Range(LADDER_ROUTES)

_cap_route(current, cap) ==
    IF OnLadder(current) /\ OnLadder(cap) /\ Rank(current) > Rank(cap) THEN cap ELSE current

_matches(when, inp) == \A key \in DOMAIN when : inp[key] = when[key]

\* Mutant of applyOverride: a cap on the score recomputes a forced route too.
applyOverrideUnforced(inp, config, acc, o) ==
    IF ~_matches(o.when, inp) THEN acc
    ELSE LET total == IF o.cap_score = {} THEN acc.score ELSE Least(acc.score, The(o.cap_score))
             ranked == IF o.cap_score # {} THEN _route_from_score(total, config) ELSE acc.route
             routed == IF o.route = {} THEN ranked ELSE The(o.route)
         IN  [score |-> total, forced |-> acc.forced \/ o.route # {},
              route |-> IF o.cap_route = {} THEN routed ELSE _cap_route(routed, The(o.cap_route))]

\* One turn of the loop over the overrides.
applyOverride(inp, config, acc, o) ==
    IF ~_matches(o.when, inp) THEN acc
    ELSE LET total == IF o.cap_score = {} THEN acc.score ELSE Least(acc.score, The(o.cap_score))
             ranked == IF o.cap_score # {} /\ ~acc.forced THEN _route_from_score(total, config) ELSE acc.route
             routed == IF o.route = {} THEN ranked ELSE The(o.route)
         IN  [score |-> total, forced |-> acc.forced \/ o.route # {},
              route |-> IF o.cap_route = {} THEN routed ELSE _cap_route(routed, The(o.cap_route))]

\* What the loop over the overrides starts from.
scored(inp, config) ==
    LET points == _company_size_points(inp, config) + _industry_points(inp, config)
                  + _budget_points(inp, config) + _urgency_points(inp, config) + _ai_points(inp, config)
        total == Least(points, config.max_score)
    IN  [score |-> total, forced |-> FALSE, route |-> _route_from_score(total, config)]

score_lead(inp, config) ==
    LET after[n \in 0..Len(config.overrides)] ==
            IF n = 0 THEN scored(inp, config) ELSE applyOverride(inp, config, after[n - 1], config.overrides[n])
    IN  after[Len(config.overrides)]
=============================================================================
