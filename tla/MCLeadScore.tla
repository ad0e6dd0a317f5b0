----------------------------- MODULE MCLeadScore -----------------------------
(***************************************************************************)
(* POST /v1/score for one lead after another, under scoring rules that may *)
(* give any points and list the shipped overrides in any order.            *)
(***************************************************************************)
EXTENDS RuleCalls, LeadScore

CONSTANT Posts      \* the requests: [lead, config], a lead and the rules in force

LeadsOver(sizes, industries, budgets, timelines, hints, intents) ==
    [company_size : sizes, industry : industries, budget_range : budgets, timeline : timelines,
     urgency_hint : hints, intent : intents, is_free_mail : BOOLEAN, llm_status : {"ok", "failed"}]

Overrides == {ShippedOverrides[k] : k \in 1..5}

\* A lead has these fields; a free mail address it has or not.
IsLead(l) ==
    /\ l = [company_size |-> l.company_size, industry |-> l.industry, budget_range |-> l.budget_range,
            timeline |-> l.timeline, urgency_hint |-> l.urgency_hint, intent |-> l.intent,
            is_free_mail |-> l.is_free_mail, llm_status |-> l.llm_status]
    /\ l.is_free_mail \in BOOLEAN

\* Points for some texts.
IsPoints(points) == points \in [DOMAIN points -> Nat]

\* Rules with the shipped routes and the shipped overrides in some order.
IsRules(c) ==
    /\ c.max_score \in 0..100 /\ c.routes = ShippedRoutes
    /\ c.overrides \in Seq(Overrides) /\ \A o \in Overrides : \E n \in 1..Len(c.overrides) : c.overrides[n] = o
    /\ \A part \in {c.company_size, c.budget, c.urgency} : part.max \in Nat /\ IsPoints(part.bands)
    /\ {c.industry_fit.max, c.industry_fit.fit_points, c.industry_fit.partial_points,
        c.industry_fit.other_points} \subseteq Nat
    /\ c.ai_qualification.max \in Nat /\ IsPoints(c.ai_qualification.intent_points)

ASSUME PostsAssumption ==
    \A p \in Posts : IsLead(p.lead) /\ IsRules(p.config)

VARIABLES lead, config, result

scoreVars == <<lead, config, result>>

\* The model's own maximum at its cap and above it, and its points with it; the
\* overrides in the order given.
Configured(max, order) ==
    [Scoring EXCEPT !.ai_qualification.max = max,
                    !.ai_qualification.intent_points.demo_request = max,
                    !.overrides = [i \in DOMAIN order |-> ShippedOverrides[order[i]]]]

Shipped == [i \in 1..5 |-> i]
Orders == {f \in [1..5 -> 1..5] : \A i, j \in 1..5 : f[i] = f[j] => i = j}
PostsOf(leads, configs) == {[lead |-> l, config |-> c] : l \in leads, c \in configs}
AllIntents == {"none", "demo_request", "other", "spam", "spam ", "job_application", "support"}

\* Every kind of lead in the shipped order, and leads that hit each override in
\* every order.
SomePosts ==
    PostsOf(LeadsOver({"1-10", "51-200", "huge"}, {"software", "farming"}, {"50k+", "blank"},
                      {"now", "exploring", "unknown", "none"}, {"now", "later", "none", "asap"}, AllIntents),
            {Configured(max, Shipped) : max \in {20, 40}})
    \union PostsOf(LeadsOver({"51-200", "none"}, {"software"}, {"50k+", "<5k"}, {"now"}, {"none"},
                             {"demo_request", "spam", "job_application", "support"}),
                   {Configured(20, order) : order \in Orders})

\* Leads with and without a timeline of their own and a hint of the model's.
HintedPosts == PostsOf(LeadsOver({"51-200"}, {"software"}, {"50k+"}, {"now", "none"}, {"now", "none"},
                                 {"none", "demo_request"}), {Scoring})

Empty == [company_size |-> "none", industry |-> "none", budget_range |-> "none", timeline |-> "none",
          urgency_hint |-> "none", intent |-> "none", is_free_mail |-> FALSE, llm_status |-> "ok"]

ScoreInit == phase = "idle" /\ lead = Empty /\ config = Scoring /\ result = score_lead(Empty, Scoring)

PostScore(p) == /\ phase' = "scored"
                /\ lead' = p.lead /\ config' = p.config /\ result' = score_lead(p.lead, p.config)

\* The service keeps nothing of a request.
ScoreDone == /\ phase = "scored"
             /\ phase' = "idle" /\ lead' = Empty /\ config' = Scoring /\ result' = score_lead(Empty, Scoring)

ScoreNext == ScoreDone \/ (phase = "idle" /\ \E p \in Posts : PostScore(p))

ScoreSpec == ScoreInit /\ [][ScoreNext]_<<phase, scoreVars>>

-----------------------------------------------------------------------------
\* The route of a lead as the rules read when no order is put on them: an intent
\* that is forwarded or archived goes where its rule says; any other lead is routed
\* by its score, which is at most 60 for a free mail address, and not above nurture
\* when the model failed.  score_lead's loop gives this whatever the order of the
\* overrides in scoring.yaml.
RouteFollowsRules ==
    LET ladder == IF result.score >= 80 /\ lead.llm_status # "failed" THEN "sales"
                  ELSE IF result.score >= 50 THEN "nurture" ELSE "archive"
    IN  /\ result.route = CASE lead.intent = "spam" -> "archive"
                            [] lead.intent = "job_application" -> "hr_forward"
                            [] lead.intent = "support" -> "support_forward"
                            [] OTHER -> ladder
        /\ result.score \in 0..(IF lead.is_free_mail THEN 60 ELSE 100)

\* A failed model call never gives a lead a higher score or a better route than the
\* same lead gets when the call succeeds, whatever the model had answered.
FailureNeverHelps ==
    LET failed == score_lead([lead EXCEPT !.llm_status = "failed"], config)
        ok     == score_lead([lead EXCEPT !.llm_status = "ok"], config)
    IN  /\ failed.score <= ok.score
        /\ OnLadder(failed.route) /\ OnLadder(ok.route) => Rank(failed.route) <= Rank(ok.route)

\* The same lead without anything the model said.
WithoutModel(l) == [l EXCEPT !.intent = "none", !.urgency_hint = "none"]

\* "The model may contribute at most 20 of 100 points": taking away what the model
\* said changes the score of a lead by no more than LLM_SCORE_CAP.
ModelAddsAtMostCap == result.score - score_lead(WithoutModel(lead), config).score <= LLM_SCORE_CAP

\* The same for the leads whose form gave a timeline, for any maximum the file sets.
ModelCappedGivenTimeline ==
    lead.timeline \notin Absent \union {"unknown"} => ModelAddsAtMostCap
=============================================================================
