--------------------------- MODULE MCNormalizeLead ----------------------------
(***************************************************************************)
(* A person fills in the form twice and spells the same things in another  *)
(* way: capitals, spaces around them, the scheme, www, port and path of    *)
(* the web site, the country code of the telephone number.                 *)
(***************************************************************************)
EXTENDS RuleCalls, NormalizeLead

CONSTANTS Pieces,                  \* what texts are made of
          Emails, Hosts, Languages,   \* what is meant, written plainly
          Rests                    \* what may follow the host of a web site

VARIABLES first, second, record, again

leadVars == <<first, second, record, again>>

\* Written in small letters, no spaces around it.
Plain(s) == /\ s \in Seq(Pieces)
            /\ \A i \in DOMAIN s : s[i] = Part(s[i].t)
            /\ s # <<>> => s[1].t # Space /\ s[Len(s)].t # Space

\* A host is a word, and what follows it begins with ":" or "/".
ASSUME LeadsAssumption ==
    /\ {Part(t) : t \in {Space, ":", "/", "www.", "http", "https"}} \subseteq Pieces
    /\ \A s \in Emails \union Hosts \union Languages \union Rests : Plain(s)
    /\ \A s \in Hosts : s # <<>> =>
          Len(s) = 1 /\ s[1].t \notin {":", "/", "www.", "http", "https"}
    /\ \A s \in Rests : s # <<>> => s[1].t \in {":", "/"}
    /\ None \notin FreeMail

Words(ts) == [i \in DOMAIN ts |-> Part(ts[i])]
SomePieces == {Part(t) : t \in {Space, "@", ":", "/", "www.", "http", "https", "anna", "acme.fi", "gmail.com", "temp.fi",
                                "sv", "de", "8080", "about"}}
SomeEmails == {Words(ts) : ts \in {<<"anna", "@", "acme.fi">>, <<"anna", "@", "gmail.com">>, <<"anna", "@", "temp.fi">>,
                                   <<"anna">>, <<"anna", "@", "@", "gmail.com">>, <<"anna", "@">>, <<>>}}
SomeHosts == {Words(ts) : ts \in {<<"acme.fi">>, <<"gmail.com">>, <<>>}}
SomeLanguages == {Words(ts) : ts \in {<<"sv">>, <<"de">>, <<>>}}
SomeRests == {Words(ts) : ts \in {<<>>, <<":", "8080">>, <<"/", "about", ":", "/">>}}

\* The ways to write a text or a web site.
Up(s) == [i \in DOMAIN s |-> [t |-> s[i].t, up |-> TRUE]]
Spaced(s) == <<Part(Space)>> \o s \o <<Part(Space)>>
Spellings(s) == {s, Up(s), Spaced(s)}
Sites(host) ==
    IF host = <<>> THEN {<<>>, Scheme("https")}
    ELSE UNION {Spellings(scheme \o www \o host \o rest) :
                   scheme \in {<<>>, Scheme("https"), Scheme("http")}, www \in {<<>>, <<Part("www.")>>}, rest \in Rests}

Lead(email, website, language, phone, signs) ==
    [email |-> email, website |-> website, language |-> language, phone |-> phone, signs |-> signs]

Phone(form) == [form |-> form, number |-> IF form \in {"national", "international"} THEN "+358401234567" ELSE "none"]
NoLead == Lead(<<>>, <<>>, <<>>, Phone("blank"), {})

LeadInit == phase = "idle" /\ first = NoLead /\ second = NoLead /\ record = normalize_lead(NoLead) /\ again = record

Submit(a, b) == /\ phase' = "submitted" /\ first' = a /\ second' = b
                /\ record' = normalize_lead(a) /\ again' = normalize_lead(b)

LeadDone == /\ phase = "submitted"
            /\ phase' = "idle" /\ first' = NoLead /\ second' = NoLead
            /\ record' = normalize_lead(NoLead) /\ again' = normalize_lead(NoLead)

SubmitAddress ==
    \E email \in Emails, host \in Hosts : \E e \in Spellings(email), site \in Sites(host) :
        Submit(Lead(email, host, <<>>, Phone("blank"), {}), Lead(e, site, <<>>, Phone("blank"), {}))

SubmitLanguage ==
    \E language \in Languages, signs \in SUBSET {"a ring", "Finnish word"} : \E l \in Spellings(language) :
        Submit(Lead(<<>>, <<>>, language, Phone("blank"), signs), Lead(<<>>, <<>>, l, Phone("blank"), signs))

SubmitPhone ==
    \E forms \in {<<"national", "international">>, <<"unparsable", "impossible">>} :
        Submit([NoLead EXCEPT !.phone = Phone(forms[1])], [NoLead EXCEPT !.phone = Phone(forms[2])])

LeadNext == LeadDone \/ (phase = "idle" /\ (SubmitAddress \/ SubmitLanguage \/ SubmitPhone))

LeadSpec == LeadInit /\ [][LeadNext]_<<phase, leadVars>>

-----------------------------------------------------------------------------
endswith(s, suffix) == \E n \in 0..Len(s) : SubSeq(s, n + 1, Len(s)) = suffix

\* Two submissions that differ in spelling only give one record, so the lead is
\* found again by its normalised address and keeps its company (normalize_lead);
\* and a free-mail domain is the company's only when the web site says so, also
\* when the address itself is refused (_company_domain).
SameLeadSameRecord ==
    phase = "submitted" =>
        /\ record = again
        /\ record.company_domain \in FreeMail => second.website # <<>>
        /\ record.company_domain # <<>> =>
              \E s \in {first.email, first.website} : endswith(s, record.company_domain)
=============================================================================
