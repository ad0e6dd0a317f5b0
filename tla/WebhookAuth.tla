----------------------------- MODULE WebhookAuth -----------------------------
(***************************************************************************)
(* Signature checks and event extraction of the p03 ingress                *)
(* (ingress/verify.go, ingress/extract.go).                                *)
(*                                                                         *)
(* HMAC-SHA256 is idealised: a MAC is the tuple of what was hashed, so two *)
(* MACs are equal exactly when secret, timestamp and body are.  A decoded  *)
(* signature is a record [dec |-> BOOLEAN, mac |-> tuple]; dec is FALSE    *)
(* when hex or base64 decoding fails.  A decimal field is a record         *)
(* [num |-> BOOLEAN, val |-> Int]; num is FALSE when ParseInt fails.  The   *)
(* text of a number matters where it is hashed: Decimal(v) is the canonical *)
(* text of v, and a zero-padded header has another text with the same val.  *)
(***************************************************************************)
EXTENDS Integers, Sequences, FiniteSets

CONSTANTS Tolerance,      \* sigTolerance, in ticks of the model's clock
          MaxDuration     \* the largest time.Duration, in the same ticks

ASSUME ToleranceAssumption == Tolerance \in Nat /\ MaxDuration \in Nat /\ Tolerance < MaxDuration

AllowedSources == {"stripe", "shopify", "github", "custom"}

\* The secrets loadConfig requires: one per source, none of them empty.
Secret(source) == source

PlainMac(secret, body) == <<secret, body>>
TimedMac(secret, text, body) == <<secret, text, body>>
Decimal(v) == <<"decimal", v>>

\* time.Time.Sub saturates at the ends of the signed Duration, and the negation
\* of the smallest Duration is itself.
MinDuration == -MaxDuration - 1
Sub(a, b) == IF a - b > MaxDuration THEN MaxDuration
             ELSE IF a - b < MinDuration THEN MinDuration ELSE a - b
Negate(d) == IF d = MinDuration THEN MinDuration ELSE -d

\* Mutants of withinTolerance: the absolute value is forgotten; the comparison is strict.
withinToleranceSigned(t, now) == Sub(now, t) <= Tolerance
withinToleranceStrict(t, now) == now - t < Tolerance /\ t - now < Tolerance

\* Inclusive on both sides: a timestamp exactly Tolerance old, or exactly
\* Tolerance ahead of the clock, is accepted.
withinTolerance(t, now) ==
    LET delta == Sub(now, t)
    IN  (IF delta < 0 THEN Negate(delta) ELSE delta) <= Tolerance

\* validGitHub: sig.prefix is strings.HasPrefix(header, "sha256=").
validGitHub(body, sig) ==
    /\ sig.prefix
    /\ sig.dec
    /\ sig.mac = PlainMac(Secret("github"), body)

\* validShopify: base64 of the MAC of the raw body; sig.prefix is a non-empty header.
validShopify(body, sig) ==
    /\ sig.prefix
    /\ sig.dec
    /\ sig.mac = PlainMac(Secret("shopify"), body)

\* validCustom: the MAC covers "timestamp.body" with the header's own text.
validCustom(body, ts, sig, now) ==
    /\ ts.num
    /\ withinTolerance(ts.val, now)
    /\ sig.dec
    /\ sig.mac = TimedMac(Secret("custom"), ts.text, body)

\* A Stripe-Signature header is a sequence of comma separated parts, each a
\* record [key, num, val, dec, mac]; key "malformed" is a part without "=".
TimePositions(parts) == {i \in DOMAIN parts : parts[i].key = "t"}
LastTime(parts) ==
    parts[CHOOSE i \in TimePositions(parts) : \A j \in TimePositions(parts) : j <= i].val
StripeSigs(parts) == {parts[i].mac : i \in {j \in DOMAIN parts : parts[j].key = "v1" /\ parts[j].dec}}

\* validStripe: one malformed part or unparsable t= refuses the header, an
\* undecodable v1= is skipped, the last t= wins, and any v1= may match.  The
\* MAC is computed over the timestamp formatted anew ("%d"), not over its text.
validStripe(body, parts, now) ==
    /\ parts # <<>>
    /\ \A i \in DOMAIN parts : parts[i].key # "malformed"
    /\ \A i \in TimePositions(parts) : parts[i].num
    /\ TimePositions(parts) # {}
    /\ StripeSigs(parts) # {}
    /\ withinTolerance(LastTime(parts), now)
    /\ TimedMac(Secret("stripe"), Decimal(LastTime(parts)), body) \in StripeSigs(parts)

(***************************************************************************)
(* A request is a record with the path's source, how reading the body ends *)
(* (read), the body, and the headers:                                      *)
(*   sig    the signature header of github, shopify and custom             *)
(*   parts  the parts of Stripe-Signature                                  *)
(*   ts     X-Timestamp of custom, [num, val, text]                        *)
(*   id, type  the id and type headers of github, shopify and custom       *)
(* body is [json, jsonb, typed, id, type, n]: is it JSON, does jsonb hold  *)
(* it, does it unmarshal into stripeBody, the id and type it then yields,  *)
(* and a payload tag.                                                      *)
(***************************************************************************)
verify(r, now) ==
    \/ r.source = "github"  /\ validGitHub(r.body, r.sig)
    \/ r.source = "stripe"  /\ validStripe(r.body, r.parts, now)
    \/ r.source = "shopify" /\ validShopify(r.body, r.sig)
    \/ r.source = "custom"  /\ validCustom(r.body, r.ts, r.sig, now)

\* extractEvent: Stripe's id and type come from the body, the others' from
\* headers; custom has a default type.
EventId(r) == IF r.source = "stripe" THEN r.body.id ELSE r.id
EventType(r) ==
    CASE r.source = "stripe" -> r.body.type
      [] r.source = "custom" -> IF r.type = "" THEN "custom" ELSE r.type
      [] OTHER -> r.type
extractable(r) ==
    /\ r.source = "stripe" => r.body.typed
    /\ EventId(r) # ""
    /\ EventType(r) # ""

\* Mutant of hookStatus: the signature is not checked.
hookStatusUnverified(r, now) ==
    IF r.source \notin AllowedSources THEN 404
    ELSE IF r.read # "ok" \/ ~r.body.json \/ ~extractable(r) THEN 400 ELSE 0

\* The checks of handleHook before the insert, in their order; 0 goes on to it.
hookStatus(r, now) ==
    CASE r.source \notin AllowedSources -> 404
      [] r.source \in AllowedSources /\ r.read = "tooLarge" -> 413
      [] r.source \in AllowedSources /\ r.read = "broken" -> 400
      [] OTHER ->
            IF ~verify(r, now) THEN 401
            ELSE IF ~r.body.json \/ ~extractable(r) THEN 400 ELSE 0

\* inboxKey: the unique key (source, external_event_id).
inboxKey(r) == <<r.source, EventId(r)>>

\* The row InsertInboxSQL writes, as far as the properties tell rows apart.
InboxEvent(r) == [type |-> EventType(r), payload |-> r.body.n]
=============================================================================
