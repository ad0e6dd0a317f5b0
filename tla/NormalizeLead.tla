---------------------------- MODULE NormalizeLead -----------------------------
(***************************************************************************)
(* The normalisation of a lead (p01_backend/normalize.py).  A text is a    *)
(* sequence of parts [t, up]: Space, "@", ":", "/", "www.", a word, and is *)
(* it in capitals.  None and the empty text are both <<>>, since the code  *)
(* only asks whether there is something.  What the message says about the  *)
(* language is a set of signs.  The address checker and the telephone      *)
(* library are external.                                                   *)
(***************************************************************************)
EXTENDS Integers, Sequences, FiniteSetsExt

CONSTANTS FreeMail, Disposable      \* _free_mail_domains(), _disposable_domains()

Space == "space"
Part(t) == [t |-> t, up |-> FALSE]
None == <<>>

lower(s) == [i \in DOMAIN s |-> Part(s[i].t)]

strip(s) == LET solid == {i \in DOMAIN s : s[i].t # Space}
            IN  IF solid = {} THEN None ELSE SubSeq(s, Min(solid), Max(solid))

\* s.split(t, 1)[0] and s.rsplit(t, 1)[-1].
Positions(s, t) == {i \in DOMAIN s : s[i].t = t}
Before(s, t) == IF Positions(s, t) = {} THEN s ELSE SubSeq(s, 1, Min(Positions(s, t)) - 1)
AfterLast(s, t) == IF Positions(s, t) = {} THEN s ELSE SubSeq(s, Max(Positions(s, t)) + 1, Len(s))

startswith(s, prefix) == Len(prefix) <= Len(s) /\ SubSeq(s, 1, Len(prefix)) = prefix
WithoutPrefix(s, prefix) == IF startswith(s, prefix) THEN SubSeq(s, Len(prefix) + 1, Len(s)) ELSE s
Scheme(t) == <<Part(t), Part(":"), Part("/"), Part("/")>>

\* validate_email: a name, one @ and a domain.
addressValid(s) == Len(s) = 3 /\ s[2].t = "@" /\ \A i \in {1, 3} : s[i].t \notin {Space, "@", ":", "/"}

\* Mutant of _normalize_email: an address that is refused stays as it is.
_normalize_emailRaw(raw) ==
    LET candidate == strip(raw)
    IN  IF candidate = None THEN [email |-> None, valid |-> FALSE, domain |-> None, errors |-> {"email_missing"}]
        ELSE IF addressValid(candidate)
        THEN [email |-> lower(candidate), valid |-> TRUE, domain |-> AfterLast(lower(candidate), "@"), errors |-> {}]
        ELSE [email |-> candidate, valid |-> FALSE, domain |-> None, errors |-> {"email_invalid"}]

_normalize_email(raw) ==
    LET candidate == strip(raw)
        lowered == lower(candidate)
        domain == AfterLast(lowered, "@")
    IN  IF candidate = None THEN [email |-> None, valid |-> FALSE, domain |-> None, errors |-> {"email_missing"}]
        ELSE IF addressValid(candidate) THEN [email |-> lowered, valid |-> TRUE, domain |-> domain, errors |-> {}]
        ELSE [email |-> lowered, valid |-> FALSE, errors |-> {"email_invalid"},
              domain |-> IF \E i \in DOMAIN lowered : lowered[i].t = "@" THEN domain ELSE None]

_company_domain(website, email_domain, is_free_mail) ==
    LET address == WithoutPrefix(WithoutPrefix(lower(strip(website)), Scheme("https")), Scheme("http"))
        host == WithoutPrefix(Before(Before(address, "/"), ":"), <<Part("www.")>>)
    IN  IF host # None THEN host
        ELSE IF is_free_mail THEN None ELSE email_domain

\* phonenumbers.parse with region FI, is_possible_number and format_number: a
\* national and an international spelling of one number have one E.164 form.
_to_e164(phone) == IF phone.form \in {"national", "international"} THEN phone.number ELSE "none"
phone_errors(phone) == IF phone.form \in {"unparsable", "impossible"} THEN {"phone_invalid"} ELSE {}

_language_hint(explicit, signs) ==
    LET value == lower(strip(explicit))
    IN  IF \E l \in {"fi", "sv", "en", "other"} : value = <<Part(l)>> THEN value[1].t
        ELSE IF signs \intersect {"a ring", "Swedish word"} # {} THEN "sv"
        ELSE IF signs # {} THEN "fi"
        ELSE "other"

normalize_lead(inp) ==
    LET e == _normalize_email(inp.email)
        is_free_mail == e.domain # None /\ e.domain \in FreeMail
    IN  [email_normalized |-> e.email, email_valid |-> e.valid,
         is_free_mail |-> is_free_mail,
         is_disposable |-> e.domain # None /\ e.domain \in Disposable,
         company_domain |-> _company_domain(inp.website, e.domain, is_free_mail),
         phone_e164 |-> _to_e164(inp.phone),
         language |-> _language_hint(inp.language, inp.signs),
         errors |-> e.errors \union phone_errors(inp.phone)]
=============================================================================
