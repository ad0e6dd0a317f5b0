------------------------------ MODULE MCIngress ------------------------------
(***************************************************************************)
(* Instances of Ingress for TLC: two payloads under one delivery id, the    *)
(* same id from another source, a bad signature, and a payload that jsonb  *)
(* refuses.                                                                *)
(***************************************************************************)
EXTENDS Ingress, TLC

CONSTANTS h1, h2

Body(id, n) == [json |-> TRUE, jsonb |-> TRUE, typed |-> TRUE, id |-> id, type |-> "t", n |-> n]
Unsigned == [prefix |-> FALSE, dec |-> FALSE, mac |-> <<>>]
Signed(mac) == [prefix |-> TRUE, dec |-> TRUE, mac |-> mac]
Request(source, id, body) ==
    [source |-> source, read |-> "ok", body |-> body, sig |-> Unsigned, parts |-> <<>>,
     ts |-> [num |-> FALSE, val |-> 0, text |-> <<>>], id |-> id, type |-> "t"]
TimePart(t) == [key |-> "t", num |-> TRUE, val |-> t, dec |-> FALSE, mac |-> <<>>]
MacPart(mac) == [key |-> "v1", num |-> FALSE, val |-> 0, dec |-> TRUE, mac |-> mac]

GitHub(id, body) == [Request("github", id, body) EXCEPT !.sig = Signed(PlainMac("github", body))]
Custom(id, body, t) ==
    [Request("custom", id, body) EXCEPT !.ts = [num |-> TRUE, val |-> t, text |-> Decimal(t)],
                                        !.sig = Signed(TimedMac("custom", Decimal(t), body))]
Stripe(body, t) ==
    [Request("stripe", "", body) EXCEPT !.parts = <<TimePart(t), MacPart(TimedMac("stripe", Decimal(t), body))>>]

Push == GitHub("e1", Body("", 1))
PushChanged == GitHub("e1", Body("", 2))             \* same delivery id, other payload
Charge == Stripe(Body("e1", 1), 0)                   \* same id, other source; expires
Mismatched == [Push EXCEPT !.body.n = 3]             \* the MAC is over another body
Unstorable == Custom("e3", [Body("", 1) EXCEPT !.jsonb = FALSE], 1)

SomeMessages == {Push, PushChanged, Charge, Mismatched, Unstorable}
FewMessages == {Push, PushChanged}

HandlerSymmetry == Permutations({h1, h2})
=============================================================================
