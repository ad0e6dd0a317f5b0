---------------------------- MODULE MCWebhookAuth ----------------------------
(***************************************************************************)
(* One request after another is checked by hookStatus.  For TLC they are   *)
(* every Stripe-Signature header of up to MaxParts parts, and every        *)
(* combination of the other sources' headers, at every clock value.        *)
(***************************************************************************)
EXTENDS RuleCalls, WebhookAuth

CONSTANTS Requests,           \* the requests that come in
          Clock,              \* the values of the clock
          MaxParts, Times     \* what the requests for TLC are made of

\* The times that the headers of a request state: Stripe's, and all of them.
StripeTimes(r) == {r.parts[i].val : i \in TimePositions(r.parts)}
StatedTimes(r) == StripeTimes(r) \union {r.ts.val}

\* A header has parts one after the other, and no time it states is further ahead of
\* the clock than a Duration reaches.
ASSUME RequestsAssumption ==
    /\ Clock \subseteq Int
    /\ \A r \in Requests : /\ DOMAIN r.parts = 1..Len(r.parts) /\ Len(r.parts) \in Nat
                          /\ StatedTimes(r) \subseteq Int
                          /\ \A s \in StatedTimes(r), t \in Clock : s - t <= MaxDuration

VARIABLES req,     \* the request last checked
          now,     \* the clock when it was checked
          code     \* hookStatus of it

authVars == <<req, now, code>>

Body == [json |-> TRUE, jsonb |-> TRUE, typed |-> TRUE, id |-> "e1", type |-> "t", n |-> 1]
OtherBody == [Body EXCEPT !.n = 2]
NoMac == <<>>
Padded(v) == <<"padded", v>>

TimePart(t) == [key |-> "t", num |-> TRUE, val |-> t, dec |-> FALSE, mac |-> NoMac]
BadTime == [TimePart(0) EXCEPT !.num = FALSE]
MacPart(secret, text) == [key |-> "v1", num |-> FALSE, val |-> 0, dec |-> TRUE,
                          mac |-> TimedMac(secret, text, Body)]
BadHex == [key |-> "v1", num |-> FALSE, val |-> 0, dec |-> FALSE, mac |-> NoMac]
Parts == {TimePart(t) : t \in Times}
         \union {MacPart("stripe", Decimal(t)) : t \in Times}
         \union {MacPart("wrong", Decimal(1)), MacPart("stripe", Padded(1))}
         \union {BadTime, BadHex, [BadHex EXCEPT !.key = "v0"], [BadHex EXCEPT !.key = "malformed"]}
Headers == UNION {[1..n -> Parts] : n \in 0..MaxParts}

StampTexts == {Decimal(t) : t \in Times} \union {Padded(t) : t \in Times}
Sigs == {[prefix |-> p, dec |-> d, mac |-> m] : p \in BOOLEAN, d \in BOOLEAN,
            m \in {PlainMac(s, b) : s \in {"github", "shopify", "wrong"}, b \in {Body, OtherBody}}
                  \union {TimedMac(s, x, b) : s \in {"custom", "wrong"}, x \in StampTexts, b \in {Body, OtherBody}}}
NoStamp == [num |-> FALSE, val |-> 0, text |-> <<>>]
Stamps == {NoStamp} \union UNION {{[num |-> TRUE, val |-> t, text |-> x] : x \in {Decimal(t), Padded(t)}} : t \in Times}
NoSig == [prefix |-> FALSE, dec |-> FALSE, mac |-> NoMac]

Base == [source |-> "other", read |-> "ok", body |-> Body, sig |-> NoSig, parts |-> <<>>,
         ts |-> NoStamp, id |-> "e1", type |-> "t"]
SomeRequests ==
    {[Base EXCEPT !.source = "stripe", !.parts = p] : p \in Headers}
    \union {[Base EXCEPT !.source = s, !.sig = g, !.ts = t] :
               s \in {"github", "shopify", "custom"}, g \in Sigs, t \in Stamps}
    \union {[Base EXCEPT !.source = s, !.read = x] : s \in AllowedSources \union {"other"},
               x \in {"ok", "tooLarge", "broken"}}
    \union {[Base EXCEPT !.source = "github", !.body = b, !.id = i, !.type = y,
                         !.sig = [prefix |-> TRUE, dec |-> TRUE, mac |-> PlainMac("github", b)]] :
               b \in {Body, [Body EXCEPT !.json = FALSE]}, i \in {"", "e1"}, y \in {"", "t"}}

AuthInit == phase = "idle" /\ req = Base /\ now = 0 /\ code = 404

Serve(r, t) == /\ phase' = "checked"
               /\ req' = r /\ now' = t /\ code' = hookStatus(r, t)

AuthDone == /\ phase = "checked"
            /\ phase' = "idle" /\ req' = Base /\ now' = 0 /\ code' = 404

AuthNext == \/ phase = "idle" /\ \E r \in Requests, t \in Clock : Serve(r, t)
            \/ AuthDone

AuthSpec == AuthInit /\ [][AuthNext]_<<phase, authVars>>

-----------------------------------------------------------------------------
InWindow(t) == t \in (now - Tolerance)..(now + Tolerance)
SeenMacs == {req.sig.mac} \union {req.parts[i].mac : i \in DOMAIN req.parts}

\* A request is let through only if its headers carry a MAC that the owner of
\* the source's secret made over this very body and, for Stripe and custom, over
\* a timestamp that the headers state and that is no further than the tolerance
\* from the clock, before or after it (validGitHub, validShopify, validStripe,
\* validCustom: "Timestamp outside 5 minutes" is a 401).
AcceptedIsGenuine ==
    code = 0 =>
       \/ req.source \in {"github", "shopify"} /\ PlainMac(req.source, req.body) \in SeenMacs
       \/ /\ req.source = "stripe"
          /\ \E t \in StripeTimes(req) : InWindow(t) /\ TimedMac("stripe", Decimal(t), req.body) \in SeenMacs
       \/ /\ req.source = "custom"
          /\ InWindow(req.ts.val) /\ TimedMac("custom", req.ts.text, req.body) \in SeenMacs

\* What a provider signs and sends is let through while it is fresh, up to and
\* including the tolerance on either side; a Stripe header also when it carries
\* further signatures (a rotated secret, another scheme, an undecodable one) in
\* any order around the genuine one (validStripe, validCustom).
GenuineIsAccepted ==
    \A t \in StatedTimes(req) :
       /\ req.read = "ok" /\ req.body.json /\ extractable(req) /\ InWindow(t)
       /\ \/ /\ req.source = "stripe"
             /\ \A i \in DOMAIN req.parts : req.parts[i].key # "malformed"
             /\ \A i \in TimePositions(req.parts) : req.parts[i].num /\ req.parts[i].val = t
             /\ TimePositions(req.parts) # {}
             /\ \E i \in DOMAIN req.parts :
                   req.parts[i].key = "v1" /\ req.parts[i].dec
                   /\ req.parts[i].mac = TimedMac("stripe", Decimal(t), req.body)
          \/ /\ req.source = "custom"
             /\ req.ts.num /\ req.ts.val = t
             /\ req.sig = [prefix |-> TRUE, dec |-> TRUE, mac |-> TimedMac("custom", req.ts.text, req.body)]
       => code = 0
=============================================================================
