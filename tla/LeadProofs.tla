----------------------------- MODULE LeadProofs -----------------------------
(***************************************************************************)
(* Proofs about NormalizeLead: a lead that is submitted again, spelt in    *)
(* another way, is the record it was.  For any addresses, hosts, languages *)
(* and ends of a web site's address, written plainly.                      *)
(***************************************************************************)
EXTENDS MCNormalizeLead, WellFoundedInduction, TLAPS

\* A set of naturals that is not empty has a least element: what an induction
\* over data comes down to here, by way of a least counterexample.
LEMMA LeastOf ==
  ASSUME NEW T \in SUBSET Nat, T # {}
  PROVE  \E m \in T : \A k \in T : m <= k
<1>1. \E x \in T : \A y \in T : ~ (<<y, x>> \in OpToRel(<, Nat))
  <2> HIDE DEF OpToRel
  <2> QED BY NatLessThanWellFounded, WFMin, Zenon
<1>2. PICK m \in T : \A y \in T : ~ (<<y, m>> \in OpToRel(<, Nat))
  BY <1>1, Zenon
<1>3. \A y \in T : m <= y
  <2> TAKE y \in T
  <2>1. ~(y < m)
    BY <1>2, Zenon DEF OpToRel
  <2> QED BY <2>1
<1> QED BY <1>3

\* A text is empty when it has no parts.
LEMMA EmptyText ==
  ASSUME NEW C, NEW s \in Seq(C)
  PROVE  Len(s) \in Nat /\ DOMAIN s = 1..Len(s) /\ (s = <<>> <=> Len(s) = 0)
OBVIOUS

\* Two texts are the same if their parts are.
LEMMA SameText ==
  ASSUME NEW C, NEW D, NEW s \in Seq(C), NEW t \in Seq(D), NEW N \in Nat, Len(s) = N, Len(t) = N,
         \A i \in 1..N : s[i] = t[i]
  PROVE  s = t
<1>1. DOMAIN s = 1..N /\ DOMAIN t = 1..N
  OBVIOUS
<1>2. s = [i \in 1..N |-> s[i]] /\ t = [i \in 1..N |-> t[i]]
  BY <1>1
<1> QED
  BY <1>2

\* Part of a text.
LEMMA PartOf ==
  ASSUME NEW C, NEW s \in Seq(C), NEW a \in Nat \ {0}, NEW b \in Nat, b <= Len(s), a <= b + 1
  PROVE  /\ SubSeq(s, a, b) \in Seq(C) /\ Len(SubSeq(s, a, b)) = (b - a) + 1
         /\ \A i \in 1..((b - a) + 1) : SubSeq(s, a, b)[i] = s[(i + a) - 1]
OBVIOUS

\* A text with another after it.
LEMMA JoinOf ==
  ASSUME NEW C, NEW s \in Seq(C), NEW t \in Seq(C)
  PROVE  /\ s \o t \in Seq(C) /\ Len(s \o t) = Len(s) + Len(t)
         /\ \A i \in 1..Len(s) : (s \o t)[i] = s[i]
         /\ \A i \in 1..Len(t) : (s \o t)[Len(s) + i] = t[i]
OBVIOUS

\* A plainly written text, part by part.
LEMMA PlainAt ==
  ASSUME NEW s, Plain(s)
  PROVE  /\ s \in Seq(Pieces) /\ Len(s) \in Nat /\ DOMAIN s = 1..Len(s)
         /\ \A i \in 1..Len(s) : s[i] = Part(s[i].t)
         /\ Len(s) # 0 => Len(s) >= 1 /\ s[1].t # Space /\ s[Len(s)].t # Space
         /\ s = <<>> <=> Len(s) = 0
<1>1. s \in Seq(Pieces)
  BY DEF Plain
<1>2. Len(s) \in Nat /\ DOMAIN s = 1..Len(s) /\ (s = <<>> <=> Len(s) = 0)
  BY <1>1, EmptyText
<1>3. \A i \in 1..Len(s) : s[i] = Part(s[i].t)
  BY <1>2 DEF Plain
<1>4. Len(s) # 0 => s[1].t # Space /\ s[Len(s)].t # Space
  BY <1>2 DEF Plain
<1> QED
  BY <1>1, <1>2, <1>3, <1>4

\* str.strip of a text that has no spaces at its ends.
LEMMA StripWhole ==
  ASSUME NEW C, NEW s \in Seq(C), Len(s) >= 1, s[1].t # Space, s[Len(s)].t # Space
  PROVE  strip(s) = s
<1> DEFINE solid == {i \in DOMAIN s : s[i].t # Space}
<1>1. Len(s) \in Nat /\ DOMAIN s = 1..Len(s)
  OBVIOUS
<1>2. 1 \in solid /\ Len(s) \in solid /\ \A i \in solid : 1 <= i /\ i <= Len(s) /\ i \in Int
  BY <1>1
<1> HIDE DEF solid
<1>3. Min(solid) = 1 /\ Max(solid) = Len(s)
  BY <1>1, <1>2 DEF Min, Max
<1>4. SubSeq(s, 1, Len(s)) = s
  BY <1>1
<1> QED
  BY <1>2, <1>3, <1>4, Zenon DEF strip, solid

\* Spaces around it are taken off.
LEMMA StripSpaced ==
  ASSUME NEW s, Plain(s)
  PROVE  strip(Spaced(s)) = s
<1> DEFINE u == Spaced(s)
           N == Len(s)
           solid == {i \in DOMAIN u : u[i].t # Space}
<1>1. /\ s \in Seq(Pieces) /\ N \in Nat
      /\ N # 0 => N >= 1 /\ s[1].t # Space /\ s[N].t # Space
      /\ s = <<>> <=> N = 0
  BY PlainAt
<1>2. /\ u \in Seq(Pieces) /\ Len(u) = N + 2 /\ u[1] = Part(Space) /\ u[N + 2] = Part(Space)
      /\ \A i \in 1..N : u[i + 1] = s[i]
  <2> DEFINE p == Part(Space)
  <2>1. p \in Pieces
    BY LeadsAssumption
  <2> HIDE DEF p
  <2>2. /\ <<p>> \o s \o <<p>> \in Seq(Pieces) /\ Len(<<p>> \o s \o <<p>>) = N + 2
        /\ (<<p>> \o s \o <<p>>)[1] = p /\ (<<p>> \o s \o <<p>>)[N + 2] = p
        /\ \A i \in 1..N : (<<p>> \o s \o <<p>>)[i + 1] = s[i]
    BY <1>1, <2>1
  <2> QED BY <2>2 DEF Spaced, p
<1>3. DOMAIN u = 1..(N + 2) /\ u[1].t = Space /\ u[N + 2].t = Space
  BY <1>1, <1>2 DEF Part
<1> HIDE DEF u
<1>4. CASE N = 0
  <2>1. solid = {}
    BY <1>3, <1>4
  <2> QED BY <1>1, <1>4, <2>1 DEF strip, None, u
<1>5. CASE N # 0
  <2>1. N >= 1 /\ s[1].t # Space /\ s[N].t # Space
    BY <1>1, <1>5
  <2>2. u[2] = s[1] /\ u[N + 1] = s[N]
    <3>1. 1 \in 1..N /\ N \in 1..N /\ 1 + 1 = 2
      BY <1>1, <2>1
    <3> QED BY <1>2, <3>1
  <2>3. 2 \in solid /\ N + 1 \in solid
    BY <1>1, <1>3, <2>1, <2>2
  <2>4. \A i \in solid : i \in Int /\ 2 <= i /\ i <= N + 1
    BY <1>1, <1>3
  <2> HIDE DEF solid
  <2>5. Min(solid) = 2 /\ Max(solid) = N + 1
    BY <1>1, <2>3, <2>4 DEF Min, Max
  <2>6. SubSeq(u, 2, N + 1) = s
    <3> DEFINE v == SubSeq(u, 2, N + 1)
               m == N + 1
    <3>1. m \in Nat /\ m <= Len(u) /\ 2 <= m + 1 /\ 2 \in Nat \ {0} /\ (m - 2) + 1 = N
      BY <1>1, <1>2, <2>1
    <3>2. v \in Seq(Pieces) /\ Len(v) = N /\ \A i \in 1..N : v[i] = u[(i + 2) - 1]
      <4> HIDE DEF m
      <4>1. /\ SubSeq(u, 2, m) \in Seq(Pieces) /\ Len(SubSeq(u, 2, m)) = (m - 2) + 1
            /\ \A i \in 1..((m - 2) + 1) : SubSeq(u, 2, m)[i] = u[(i + 2) - 1]
        BY <1>2, <3>1, PartOf
      <4> QED BY <3>1, <4>1 DEF m
    <3>3. \A i \in 1..N : (i + 2) - 1 = i + 1
      BY <1>1
    <3> HIDE DEF v
    <3>4. \A i \in 1..N : v[i] = s[i]
      BY <1>2, <3>2, <3>3
    <3>5. v = s
      BY <1>1, <3>2, <3>4, SameText
    <3> QED BY <3>5 DEF v
  <2> QED BY <2>3, <2>5, <2>6, Zenon DEF strip, solid, u
<1> QED
  BY <1>4, <1>5

\* Nothing is left of nothing.
LEMMA StripEmpty == strip(<<>>) = <<>>
<1>1. {i \in DOMAIN <<>> : <<>>[i].t # Space} = {}
  OBVIOUS
<1> QED
  BY <1>1 DEF strip, None

\* What a text in capitals is stripped to.
LEMMA StripUp ==
  ASSUME NEW s, Plain(s)
  PROVE  strip(Up(s)) = Up(s) /\ DOMAIN Up(s) = DOMAIN s /\ (\A i \in DOMAIN s : Up(s)[i].t = s[i].t)
         /\ Len(Up(s)) = Len(s)
<1> DEFINE u == Up(s)
           N == Len(s)
           C == {u[i] : i \in 1..N}
<1>1. /\ N \in Nat /\ DOMAIN s = 1..N
      /\ N # 0 => N >= 1 /\ s[1].t # Space /\ s[N].t # Space
      /\ s = <<>> <=> N = 0
  BY PlainAt
<1>2. u = [i \in 1..N |-> [t |-> s[i].t, up |-> TRUE]]
  BY <1>1 DEF Up
<1>3. DOMAIN u = 1..N /\ \A i \in 1..N : u[i].t = s[i].t
  BY <1>2
<1>4. u \in [1..N -> C]
  BY <1>2, Zenon
<1> HIDE DEF u, C
<1>5. u \in Seq(C) /\ Len(u) = N
  BY <1>1, <1>4
<1>6. CASE N = 0
  <2>1. u = <<>>
    BY <1>5, <1>6
  <2> QED BY <1>1, <1>3, <1>5, <2>1, StripEmpty DEF u
<1>7. CASE N # 0
  <2>1. 1 \in 1..N /\ N \in 1..N /\ N >= 1
    BY <1>1, <1>7
  <2>2. u[1].t # Space /\ u[N].t # Space
    BY <1>1, <1>3, <1>7, <2>1
  <2>3. strip(u) = u
    BY <1>5, <2>1, <2>2, StripWhole
  <2> QED BY <1>1, <1>3, <1>5, <2>3 DEF u
<1> QED
  BY <1>6, <1>7

\* However a text is spelt, str.strip and str.lower make one text of it, and the
\* address checker does not mind the capitals.
LEMMA SpeltAlike ==
  ASSUME NEW s, Plain(s), NEW w \in Spellings(s)
  PROVE  /\ lower(strip(w)) = s /\ (strip(w) = None <=> s = None)
         /\ addressValid(strip(w)) <=> addressValid(s)
<1> DEFINE N == Len(s)
<1>1. /\ s \in Seq(Pieces) /\ N \in Nat /\ DOMAIN s = 1..N
      /\ N # 0 => N >= 1 /\ s[1].t # Space /\ s[N].t # Space
      /\ s = <<>> <=> N = 0
      /\ \A i \in 1..N : s[i] = Part(s[i].t)
  BY PlainAt
<1>2. lower(s) = s
  <2>1. s = [i \in DOMAIN s |-> s[i]]
    BY <1>1
  <2> QED BY <1>1, <2>1 DEF lower
<1>3. strip(s) = s
  <2>1. CASE N = 0
    BY <1>1, <2>1, StripEmpty
  <2>2. CASE N # 0
    BY <1>1, <2>2, StripWhole
  <2> QED BY <2>1, <2>2
<1>4. CASE w = s
  BY <1>2, <1>3, <1>4
<1>5. CASE w = Spaced(s)
  <2>1. strip(w) = s
    BY <1>5, StripSpaced
  <2> QED BY <1>2, <2>1
<1>6. CASE w = Up(s)
  <2> DEFINE u == Up(s)
  <2>1. strip(u) = u /\ DOMAIN u = DOMAIN s /\ (\A i \in DOMAIN s : u[i].t = s[i].t) /\ Len(u) = N
    BY StripUp
  <2> HIDE DEF u
  <2>2. lower(u) = lower(s)
    BY <2>1 DEF lower
  <2>3. u = None <=> s = None
    <3>1. u = <<>> => Len(u) = 0
      OBVIOUS
    <3>2. s = <<>> => u = <<>>
      <4>1. s = <<>> => Up(s) = <<>>
        BY DEF Up
      <4> QED BY <4>1 DEF u
    <3> QED BY <1>1, <2>1, <3>1, <3>2 DEF None
  <2>4. addressValid(u) <=> addressValid(s)
    <3>1. CASE N = 3
      <4>1. u[1].t = s[1].t /\ u[2].t = s[2].t /\ u[3].t = s[3].t
        BY <1>1, <2>1, <3>1
      <4> QED BY <2>1, <3>1, <4>1 DEF addressValid
    <3>2. CASE N # 3
      BY <2>1, <3>2 DEF addressValid
    <3> QED BY <3>1, <3>2
  <2>5. strip(w) = u
    BY <1>6, <2>1 DEF u
  <2> QED BY <1>2, <2>2, <2>3, <2>4, <2>5
<1> QED
  BY <1>4, <1>5, <1>6 DEF Spellings

\* So every spelling of an address is normalised to the same.
LEMMA EmailAlike ==
  ASSUME NEW s, Plain(s), NEW w \in Spellings(s)
  PROVE  _normalize_email(w) = _normalize_email(s)
<1>1. /\ lower(strip(w)) = s /\ (strip(w) = None <=> s = None)
      /\ addressValid(strip(w)) <=> addressValid(s)
  BY SpeltAlike
<1>2. s \in Spellings(s)
  BY DEF Spellings
<1>3. /\ lower(strip(s)) = s /\ (strip(s) = None <=> s = None)
      /\ addressValid(strip(s)) <=> addressValid(s)
  BY <1>2, SpeltAlike
<1> QED
  BY <1>1, <1>3, Zenon DEF _normalize_email

-----------------------------------------------------------------------------
\* A prefix is taken off where it is.
LEMMA PrefixOff ==
  ASSUME NEW C, NEW s \in Seq(C), NEW p \in Seq(C)
  PROVE  WithoutPrefix(p \o s, p) = s
<1> DEFINE x == p \o s
           m == Len(p)
           k == Len(s)
<1>1. m \in Nat /\ k \in Nat
  OBVIOUS
<1>2. /\ x \in Seq(C) /\ Len(x) = m + k
      /\ \A i \in 1..m : x[i] = p[i]
      /\ \A i \in 1..k : x[m + i] = s[i]
  BY JoinOf
<1> HIDE DEF x, m, k
<1>3. SubSeq(x, 1, m) = p
  <2> DEFINE v == SubSeq(x, 1, m)
  <2>1. v \in Seq(C) /\ Len(v) = (m - 1) + 1 /\ \A i \in 1..((m - 1) + 1) : v[i] = x[(i + 1) - 1]
    <3>1. 1 \in Nat \ {0} /\ m \in Nat /\ m <= Len(x) /\ 1 <= m + 1
      BY <1>1, <1>2
    <3> QED BY <1>2, <3>1, PartOf
  <2>2. (m - 1) + 1 = m /\ \A i \in 1..m : (i + 1) - 1 = i
    BY <1>1
  <2> HIDE DEF v
  <2>3. Len(v) = m /\ \A i \in 1..m : v[i] = p[i]
    BY <1>2, <2>1, <2>2
  <2>4. Len(p) = m
    BY DEF m
  <2>5. v = p
    BY <1>1, <2>1, <2>3, <2>4, SameText
  <2> QED BY <2>5 DEF v
<1>4. SubSeq(x, m + 1, Len(x)) = s
  <2> DEFINE a == m + 1
             b == Len(x)
             v == SubSeq(x, a, b)
  <2>1. a \in Nat \ {0} /\ b \in Nat /\ b <= Len(x) /\ a <= b + 1 /\ (b - a) + 1 = k
    BY <1>1, <1>2, SMTT(60), Z3
  <2>2. \A i \in 1..k : (i + a) - 1 = m + i
    BY <1>1
  <2> HIDE DEF a, b
  <2>3. v \in Seq(C) /\ Len(v) = (b - a) + 1 /\ \A i \in 1..((b - a) + 1) : v[i] = x[(i + a) - 1]
    BY <1>2, <2>1, PartOf
  <2> HIDE DEF v
  <2>4. Len(v) = k /\ \A i \in 1..k : v[i] = s[i]
    BY <1>2, <2>1, <2>2, <2>3, Zenon
  <2>5. Len(s) = k
    BY DEF k
  <2>6. v = s
    BY <1>1, <2>3, <2>4, <2>5, SameText
  <2> QED BY <2>6 DEF v, a, b
<1>5. m <= Len(x)
  BY <1>1, <1>2
<1> QED
  BY <1>3, <1>4, <1>5 DEF WithoutPrefix, startswith, x, m

\* And nothing is where it is not.
LEMMA PrefixStays ==
  ASSUME NEW C, NEW s \in Seq(C), NEW p \in Seq(C), Len(p) >= 1, Len(s) >= 1 => s[1] # p[1]
  PROVE  WithoutPrefix(s, p) = s
<1> SUFFICES ASSUME Len(p) <= Len(s), SubSeq(s, 1, Len(p)) = p PROVE FALSE
  BY DEF WithoutPrefix, startswith
<1> DEFINE m == Len(p)
<1>1. m \in Nat /\ Len(s) \in Nat /\ 1 <= m + 1 /\ 1 \in Nat \ {0}
  OBVIOUS
<1> HIDE DEF m
<1>2. \A i \in 1..((m - 1) + 1) : SubSeq(s, 1, m)[i] = s[(i + 1) - 1]
  <2>1. m <= Len(s)
    BY DEF m
  <2> QED BY <1>1, <2>1, PartOf
<1>3. 1 \in 1..((m - 1) + 1) /\ (1 + 1) - 1 = 1 /\ Len(s) >= 1
  BY <1>1 DEF m
<1>4. SubSeq(s, 1, m)[1] = s[1]
  BY <1>2, <1>3
<1> QED
  BY <1>3, <1>4 DEF m

\* x is a host p with, maybe, "www." before it, n parts, and then nothing or a port
\* or a path.
Shape(x, n, p) ==
    /\ x \in Seq(Pieces) /\ n \in {1, 2} /\ Len(x) >= n /\ x[n] = p
    /\ n = 2 => x[1] = Part("www.")
    /\ Len(x) > n => x[n + 1].t \in {":", "/"}

\* The least of the positions of a part.
LEMMA FirstAt ==
  ASSUME NEW C, NEW s \in Seq(C), NEW t, Positions(s, t) # {}
  PROVE  /\ Min(Positions(s, t)) \in 1..Len(s) /\ s[Min(Positions(s, t))].t = t
         /\ \A i \in 1..Len(s) : s[i].t = t => Min(Positions(s, t)) <= i
<1> DEFINE S == Positions(s, t)
<1>1. Len(s) \in Nat /\ DOMAIN s = 1..Len(s)
  OBVIOUS
<1>2. S = {i \in 1..Len(s) : s[i].t = t}
  BY <1>1 DEF Positions
<1>3. S \in SUBSET Nat
  BY <1>1, <1>2
<1> HIDE DEF S
<1>4. \E m \in S : \A k \in S : m <= k
  <2>1. S # {}
    BY DEF S
  <2> QED BY <1>3, <2>1, LeastOf
<1>5. Min(S) \in S /\ \A k \in S : Min(S) <= k
  BY <1>4 DEF Min
<1>6. Min(S) \in 1..Len(s) /\ s[Min(S)].t = t /\ \A i \in 1..Len(s) : s[i].t = t => Min(S) <= i
  BY <1>2, <1>5
<1> QED
  BY <1>6 DEF S

\* The host of an address, _company_domain's last line but two, and the address
\* without its scheme.
HostIn(x) == WithoutPrefix(Before(Before(x, "/"), ":"), <<Part("www.")>>)
Schemeless(x) == WithoutPrefix(WithoutPrefix(x, Scheme("https")), Scheme("http"))

\* Nothing comes before a part that is not there.
LEMMA BeforeNone ==
  ASSUME NEW C, NEW s \in Seq(C), NEW t, \A i \in 1..Len(s) : s[i].t # t
  PROVE  Before(s, t) = s
<1>1. DOMAIN s = 1..Len(s)
  OBVIOUS
<1> QED
  BY <1>1 DEF Before, Positions

\* The beginning of a text, cut at a t that the first n parts do not have.
LEMMA CutAfter ==
  ASSUME NEW C, NEW s \in Seq(C), NEW t, NEW n \in Nat, n <= Len(s), \A i \in 1..n : s[i].t # t
  PROVE  \E k \in n..Len(s) : /\ Before(s, t) = SubSeq(s, 1, k)
                              /\ (Len(s) > n /\ s[n + 1].t = t) => k = n
<1>1. Len(s) \in Nat /\ DOMAIN s = 1..Len(s)
  BY SMTT(60)
<1>2. CASE Positions(s, t) = {}
  <2>1. Before(s, t) = s
    BY <1>2 DEF Before
  <2>2. SubSeq(s, 1, Len(s)) = s
    <3> DEFINE m == Len(s)
               v == SubSeq(s, 1, m)
    <3>1. m \in Nat /\ m <= Len(s) /\ 1 <= m + 1 /\ 1 \in Nat \ {0} /\ (m - 1) + 1 = m /\ \A i \in 1..m : (i + 1) - 1 = i
      BY <1>1
    <3>2. Len(s) = m
      OBVIOUS
    <3> HIDE DEF m
    <3>3. v \in Seq(C) /\ Len(v) = (m - 1) + 1 /\ \A i \in 1..((m - 1) + 1) : v[i] = s[(i + 1) - 1]
      BY <3>1, PartOf
    <3> HIDE DEF v
    <3>4. Len(v) = m /\ \A i \in 1..m : v[i] = s[i]
      BY <3>1, <3>3
    <3>5. v = s
      BY <3>1, <3>2, <3>3, <3>4, SameText
    <3> QED BY <3>5 DEF v, m
  <2>3. ~ (Len(s) > n /\ s[n + 1].t = t)
    BY <1>1, <1>2 DEF Positions
  <2>4. Len(s) \in n..Len(s)
    BY <1>1
  <2> QED BY <2>1, <2>2, <2>3, <2>4, Zenon
<1>3. CASE Positions(s, t) # {}
  <2> DEFINE m == Min(Positions(s, t))
  <2>1. m \in 1..Len(s) /\ s[m].t = t /\ \A i \in 1..Len(s) : s[i].t = t => m <= i
    BY <1>3, FirstAt
  <2>2. Before(s, t) = SubSeq(s, 1, m - 1)
    BY <1>3, Zenon DEF Before
  <2> HIDE DEF m
  <2>3. m \notin 1..n
    BY <2>1
  <2>4. m - 1 \in n..Len(s)
    BY <1>1, <2>1, <2>3
  <2>5. (Len(s) > n /\ s[n + 1].t = t) => m - 1 = n
    <3> SUFFICES ASSUME Len(s) > n, s[n + 1].t = t PROVE m - 1 = n
      OBVIOUS
    <3>1. n + 1 \in 1..Len(s)
      BY <1>1
    <3>2. m <= n + 1
      BY <2>1, <3>1
    <3> QED BY <1>1, <2>1, <2>4, <3>2
  <2> QED BY <2>2, <2>4, <2>5
<1> QED
  BY <1>2, <1>3

\* The first n parts of a web site are left when its port and path are cut off
\* (the two split calls of _company_domain).
LEMMA PortAndPathOff ==
  ASSUME NEW x, NEW n, NEW p, Shape(x, n, p), p.t \notin {":", "/"}
  PROVE  /\ Before(Before(x, "/"), ":") \in Seq(Pieces) /\ Len(Before(Before(x, "/"), ":")) = n
         /\ \A i \in 1..n : Before(Before(x, "/"), ":")[i] = x[i]
<1>1. /\ x \in Seq(Pieces) /\ n \in Nat /\ n \in {1, 2} /\ n <= Len(x) /\ x[n] = p
      /\ n = 2 => x[1] = Part("www.")
      /\ Len(x) > n => x[n + 1].t \in {":", "/"}
  BY DEF Shape
<1>2. \A i \in 1..n : x[i].t \notin {":", "/"}
  <2> SUFFICES ASSUME NEW i \in 1..n PROVE x[i].t \notin {":", "/"}
    OBVIOUS
  <2>1. i = n \/ (n = 2 /\ i = 1)
    BY <1>1
  <2>2. Part("www.").t \notin {":", "/"}
    BY DEF Part
  <2> QED BY <1>1, <2>1, <2>2
<1>3. PICK k \in n..Len(x) : /\ Before(x, "/") = SubSeq(x, 1, k)
                             /\ (Len(x) > n /\ x[n + 1].t = "/") => k = n
  <2>1. \A i \in 1..n : x[i].t # "/"
    BY <1>2
  <2> QED BY <1>1, <2>1, CutAfter
<1> DEFINE y == SubSeq(x, 1, k)
<1>4. k \in Nat /\ k <= Len(x) /\ n <= k /\ 1 <= k + 1 /\ 1 \in Nat \ {0} /\ (k - 1) + 1 = k
      /\ \A i \in 1..k : (i + 1) - 1 = i
  BY <1>1, <1>3
<1>5. y \in Seq(Pieces) /\ Len(y) = (k - 1) + 1 /\ \A i \in 1..((k - 1) + 1) : y[i] = x[(i + 1) - 1]
  BY <1>1, <1>4, PartOf
<1> HIDE DEF y
<1>6. Len(y) = k /\ \A i \in 1..k : y[i] = x[i]
  BY <1>4, <1>5
<1>7. PICK j \in n..Len(y) : /\ Before(y, ":") = SubSeq(y, 1, j)
                             /\ (Len(y) > n /\ y[n + 1].t = ":") => j = n
  <2>1. n <= Len(y)
    BY <1>4, <1>6
  <2>2. \A i \in 1..n : y[i].t # ":"
    <3> SUFFICES ASSUME NEW i \in 1..n PROVE y[i].t # ":"
      OBVIOUS
    <3>1. i \in 1..k
      BY <1>1, <1>4
    <3> QED BY <1>2, <1>6, <3>1
  <2> QED BY <1>1, <1>5, <2>1, <2>2, CutAfter, Zenon
<1>8. j = n
  <2>1. CASE k = n
    BY <1>1, <1>6, <1>7, <2>1
  <2>2. CASE k # n
    <3>1. k > n /\ Len(x) > n /\ n + 1 \in 1..k
      BY <1>1, <1>4, <2>2
    <3>2. x[n + 1].t = ":"
      BY <1>1, <1>3, <2>2, <3>1
    <3>3. y[n + 1].t = ":"
      BY <1>6, <3>1, <3>2
    <3> QED BY <1>6, <1>7, <3>1, <3>3
  <2> QED BY <2>1, <2>2
<1> DEFINE z == SubSeq(y, 1, n)
<1>9. n <= Len(y) /\ 1 <= n + 1 /\ (n - 1) + 1 = n /\ \A i \in 1..n : (i + 1) - 1 = i /\ i \in 1..k
  BY <1>1, <1>4, <1>6
<1>10. z \in Seq(Pieces) /\ Len(z) = (n - 1) + 1 /\ \A i \in 1..((n - 1) + 1) : z[i] = y[(i + 1) - 1]
  BY <1>1, <1>4, <1>5, <1>9, PartOf
<1> HIDE DEF z
<1>11. Len(z) = n /\ \A i \in 1..n : z[i] = x[i]
  BY <1>6, <1>9, <1>10
<1>12. Before(Before(x, "/"), ":") = z
  BY <1>3, <1>7, <1>8, Zenon DEF y, z
<1> QED
  BY <1>10, <1>11, <1>12

\* The host is found in a web site (the end of _company_domain).
LEMMA HostFound ==
  ASSUME NEW x, NEW n, NEW p, Shape(x, n, p), p \in Pieces, p.t \notin {":", "/", "www."}
  PROVE  HostIn(x) = <<p>>
<1> DEFINE z == Before(Before(x, "/"), ":")
           w == <<Part("www.")>>
           q == <<p>>
<1>1. z \in Seq(Pieces) /\ Len(z) = n /\ \A i \in 1..n : z[i] = x[i]
  BY PortAndPathOff
<1>2. n \in {1, 2} /\ x[n] = p /\ (n = 2 => x[1] = Part("www."))
  BY DEF Shape
<1>3. w \in Seq(Pieces) /\ Len(w) = 1 /\ w[1] = Part("www.") /\ q \in Seq(Pieces) /\ Len(q) = 1 /\ q[1] = p
  BY LeadsAssumption
<1>4. HostIn(x) = WithoutPrefix(z, w)
  BY DEF HostIn
<1> HIDE DEF z, w, q
<1>5. CASE n = 1
  <2>1. z = q
    <3>1. Len(z) = 1 /\ Len(q) = 1 /\ \A i \in 1..1 : z[i] = q[i]
      BY <1>1, <1>2, <1>3, <1>5
    <3> QED BY <1>1, <1>3, <3>1, SameText
  <2>2. Len(w) >= 1 /\ (Len(q) >= 1 => q[1] # w[1])
    BY <1>3 DEF Part
  <2>3. WithoutPrefix(q, w) = q
    BY <1>3, <2>2, PrefixStays
  <2> QED BY <1>4, <2>1, <2>3 DEF q
<1>6. CASE n = 2
  <2> DEFINE v == w \o q
  <2>1. v \in Seq(Pieces) /\ Len(v) = Len(w) + Len(q) /\ (\A i \in 1..Len(w) : v[i] = w[i])
        /\ (\A i \in 1..Len(q) : v[Len(w) + i] = q[i])
    BY <1>3, JoinOf
  <2>2. WithoutPrefix(v, w) = q
    BY <1>3, PrefixOff
  <2> HIDE DEF v
  <2>3. Len(v) = 2 /\ v[1] = Part("www.") /\ v[1 + 1] = p
    BY <1>3, <2>1
  <2>4. Len(z) = 2 /\ z[1] = Part("www.") /\ z[2] = p
    BY <1>1, <1>2, <1>6
  <2>5. \A i \in 1..2 : z[i] = v[i]
    BY <2>3, <2>4
  <2>6. z = v
    BY <1>1, <2>1, <2>3, <2>4, <2>5, SameText
  <2> QED BY <1>4, <2>2, <2>6 DEF q
<1> QED
  BY <1>2, <1>5, <1>6

\* The ways to write the site of a host, before capitals and spaces.
SiteOf(scheme, www, host, rest) == scheme \o www \o host \o rest

\* The two schemes are texts of four small parts.
LEMMA SchemeIs ==
  ASSUME NEW t \in {"http", "https"}
  PROVE  /\ Scheme(t) \in Seq(Pieces) /\ Len(Scheme(t)) = 4
         /\ Scheme(t)[1] = Part(t) /\ Scheme(t)[2] = Part(":") /\ Scheme(t)[3] = Part("/") /\ Scheme(t)[4] = Part("/")
<1>1. Part(t) \in Pieces /\ Part(":") \in Pieces /\ Part("/") \in Pieces
  BY LeadsAssumption
<1> QED
  BY <1>1 DEF Scheme

\* A text before another and a third is the text before the two.
LEMMA JoinAll ==
  ASSUME NEW C, NEW s \in Seq(C), NEW t \in Seq(C), NEW u \in Seq(C)
  PROVE  (s \o t) \o u = s \o (t \o u)
<1> DEFINE a == s \o t
           b == t \o u
           l == a \o u
           r == s \o b
           S == Len(s)
           T == Len(t)
           U == Len(u)
           N == (S + T) + U
<1>1. S \in Nat /\ T \in Nat /\ U \in Nat /\ N \in Nat
  OBVIOUS
<1>2. a \in Seq(C) /\ Len(a) = S + T /\ (\A i \in 1..S : a[i] = s[i]) /\ (\A i \in 1..T : a[S + i] = t[i])
  BY JoinOf
<1>3. b \in Seq(C) /\ Len(b) = T + U /\ (\A i \in 1..T : b[i] = t[i]) /\ (\A i \in 1..U : b[T + i] = u[i])
  BY JoinOf
<1> HIDE DEF a, b
<1>4. l \in Seq(C) /\ Len(l) = Len(a) + U /\ (\A i \in 1..Len(a) : l[i] = a[i]) /\ (\A i \in 1..U : l[Len(a) + i] = u[i])
  <2>1. a \in Seq(C)
    BY <1>2
  <2> QED BY ONLY <2>1, u \in Seq(C), JoinOf
<1>5. r \in Seq(C) /\ Len(r) = S + Len(b) /\ (\A i \in 1..S : r[i] = s[i]) /\ (\A i \in 1..Len(b) : r[S + i] = b[i])
  <2>1. b \in Seq(C)
    BY <1>3
  <2> QED BY ONLY <2>1, s \in Seq(C), JoinOf
<1> HIDE DEF l, r, S, T, U
<1>6. Len(l) = N /\ Len(r) = N
  BY <1>1, <1>2, <1>3, <1>4, <1>5
<1>7. \A i \in 1..N : l[i] = r[i]
  <2> SUFFICES ASSUME NEW i \in 1..N PROVE l[i] = r[i]
    OBVIOUS
  <2>1. CASE i \in 1..S
    <3>1. i \in 1..Len(a)
      BY <1>1, <1>2, <2>1
    <3> QED BY <1>2, <1>4, <1>5, <2>1, <3>1, Zenon
  <2>2. CASE i \notin 1..S /\ i - S \in 1..T
    <3> DEFINE j == i - S
    <3>1. S + j = i /\ j \in 1..T /\ i \in 1..Len(a) /\ j \in 1..Len(b)
      BY <1>1, <1>2, <1>3, <2>2
    <3> HIDE DEF j
    <3>2. l[i] = a[S + j] /\ r[i] = r[S + j]
      BY <1>4, <3>1
    <3> QED BY <1>2, <1>3, <1>5, <3>1, <3>2
  <2>3. CASE i \notin 1..S /\ i - S \notin 1..T
    <3> DEFINE j == i - (S + T)
               k == T + j
    <3>1. (S + T) + j = i /\ S + k = i /\ k = T + j
      BY <1>1
    <3>2. i > S + T /\ i <= (S + T) + U
      BY <1>1, <2>3
    <3>3. j \in 1..U /\ k \in 1..Len(b)
      BY <1>1, <1>3, <3>2
    <3> HIDE DEF j, k
    <3>4. l[i] = u[j]
      BY <1>2, <1>4, <3>1, <3>3, Zenon
    <3>5. r[i] = b[k]
      BY <1>5, <3>1, <3>3
    <3>6. b[k] = u[j]
      BY <1>3, <3>1, <3>3
    <3> QED BY <3>4, <3>5, <3>6
  <2> QED BY <2>1, <2>2, <2>3
<1> HIDE DEF N
<1>8. l = r
  BY <1>1, <1>4, <1>5, <1>6, <1>7, SameText, SMTT(60)
<1> QED
  BY <1>8 DEF l, r, a, b

\* In small letters.
Small(s) == s \in Seq(Pieces) /\ \A i \in 1..Len(s) : s[i] = Part(s[i].t)

\* Two texts in small letters make one.
LEMMA SmallJoin ==
  ASSUME NEW s, NEW t, Small(s), Small(t)
  PROVE  Small(s \o t)
<1> DEFINE u == s \o t
           m == Len(s)
           k == Len(t)
<1>1. s \in Seq(Pieces) /\ t \in Seq(Pieces) /\ (\A i \in 1..m : s[i] = Part(s[i].t)) /\ (\A i \in 1..k : t[i] = Part(t[i].t))
  BY DEF Small
<1>2. m \in Nat /\ k \in Nat
  BY <1>1
<1>3. u \in Seq(Pieces) /\ Len(u) = m + k /\ (\A i \in 1..m : u[i] = s[i]) /\ (\A i \in 1..k : u[m + i] = t[i])
  BY <1>1, JoinOf
<1> HIDE DEF u, m, k
<1>4. \A i \in 1..Len(u) : u[i] = Part(u[i].t)
  <2> SUFFICES ASSUME NEW i \in 1..Len(u) PROVE u[i] = Part(u[i].t)
    OBVIOUS
  <2>1. CASE i \in 1..m
    BY <1>1, <1>3, <2>1
  <2>2. CASE i \notin 1..m
    <3> DEFINE j == i - m
    <3>1. j \in 1..k /\ m + j = i
      BY <1>2, <1>3, <2>2
    <3> HIDE DEF j
    <3>2. u[i] = t[j]
      BY <1>3, <3>1
    <3> QED BY <1>1, <3>1, <3>2
  <2> QED BY <2>1, <2>2
<1>5. Small(u)
  BY <1>3, <1>4 DEF Small
<1> QED
  BY <1>5 DEF u

\* The host and what is around it: where the parts of a web site are.
LEMMA SiteShape ==
  ASSUME NEW host \in Hosts, host # <<>>, NEW www \in {<<>>, <<Part("www.")>>}, NEW rest \in Rests \union {<<>>}
  PROVE  LET x == (www \o host) \o rest
         IN  /\ Small(x) /\ Shape(x, Len(www) + 1, host[1]) /\ Len(x) >= 1
             /\ x[1].t \notin {"http", "https"} /\ x[1].t # Space /\ x[Len(x)].t # Space
<1>1. Plain(host) /\ Plain(rest) /\ Len(host) = 1 /\ host[1].t \notin {":", "/", "www.", "http", "https"}
      /\ (rest # <<>> => rest[1].t \in {":", "/"})
  <2>1. Plain(<<>>)
    BY DEF Plain
  <2> QED BY <2>1, LeadsAssumption
<1>2. /\ host \in Seq(Pieces) /\ rest \in Seq(Pieces) /\ Len(rest) \in Nat
      /\ \A i \in 1..Len(host) : host[i] = Part(host[i].t)
      /\ \A i \in 1..Len(rest) : rest[i] = Part(rest[i].t)
  BY <1>1 DEF Plain
<1>3. host[1].t # Space /\ (Len(rest) >= 1 => rest # <<>> /\ rest[Len(rest)].t # Space)
  BY <1>1, <1>2 DEF Plain
<1>4. www \in Seq(Pieces) /\ Len(www) \in {0, 1} /\ (Len(www) = 1 => www[1] = Part("www."))
  <2> DEFINE p == Part("www.")
  <2>1. p \in Pieces /\ www \in {<<>>, <<p>>}
    BY LeadsAssumption
  <2> HIDE DEF p
  <2>2. CASE www = <<>>
    BY <2>2
  <2>3. CASE www = <<p>>
    BY <2>1, <2>3
  <2>4. www \in Seq(Pieces) /\ Len(www) \in {0, 1} /\ (Len(www) = 1 => www[1] = p)
    BY <2>1, <2>2, <2>3
  <2> QED BY <2>4 DEF p
<1>5. Small(host) /\ Small(rest)
  BY <1>2 DEF Small
<1>6. Small(www)
  <2>1. Part("www.").t = "www."
    BY DEF Part
  <2>2. \A i \in 1..Len(www) : www[i] = Part("www.")
    BY <1>4
  <2> QED BY <1>4, <2>1, <2>2 DEF Small
<1> DEFINE w == www \o host
           x == w \o rest
           m == Len(www)
           n == m + 1
           N == n + Len(rest)
<1>7. w \in Seq(Pieces) /\ Len(w) = m + Len(host) /\ (\A i \in 1..m : w[i] = www[i]) /\ (\A i \in 1..Len(host) : w[m + i] = host[i])
  BY <1>2, <1>4, JoinOf
<1>8. Small(w)
  BY <1>5, <1>6, SmallJoin
<1> HIDE DEF w
<1>9. x \in Seq(Pieces) /\ Len(x) = Len(w) + Len(rest) /\ (\A i \in 1..Len(w) : x[i] = w[i]) /\ (\A i \in 1..Len(rest) : x[Len(w) + i] = rest[i])
  <2>1. w \in Seq(Pieces)
    BY <1>7
  <2> QED BY <1>2, <2>1, JoinOf
<1>10. Small(x)
  BY <1>5, <1>8, SmallJoin
<1> HIDE DEF x
<1>11. m \in {0, 1} /\ Len(w) = n /\ Len(x) = N
  BY <1>1, <1>4, <1>7, <1>9
<1> HIDE DEF m
<1>12. x[n] = host[1]
  <2>1. 1 \in 1..Len(host) /\ n \in 1..Len(w)
    BY <1>1, <1>11
  <2>2. w[m + 1] = host[1]
    BY <1>7, <2>1
  <2> QED BY <1>9, <2>1, <2>2
<1>13. m = 1 => x[1] = Part("www.")
  <2> SUFFICES ASSUME m = 1 PROVE x[1] = Part("www.")
    OBVIOUS
  <2>1. 1 \in 1..m /\ 1 \in 1..Len(w)
    BY <1>11
  <2> QED BY <1>4, <1>7, <1>9, <2>1 DEF m
<1>14. Len(x) > n => x[n + 1] = rest[1] /\ rest # <<>>
  <2> SUFFICES ASSUME Len(x) > n PROVE x[n + 1] = rest[1] /\ rest # <<>>
    OBVIOUS
  <2>1. 1 \in 1..Len(rest)
    BY <1>2, <1>11
  <2>2. x[Len(w) + 1] = rest[1]
    BY <1>9, <2>1
  <2>3. Len(rest) >= 1
    BY <2>1
  <2> QED BY <1>3, <1>11, <2>2, <2>3
<1>15. Shape(x, n, host[1])
  <2>1. n \in {1, 2} /\ Len(x) >= n
    BY <1>2, <1>11
  <2>2. n = 2 => x[1] = Part("www.")
    BY <1>11, <1>13
  <2>3. Len(x) > n => x[n + 1].t \in {":", "/"}
    BY <1>1, <1>14
  <2> QED BY <1>9, <1>12, <2>1, <2>2, <2>3 DEF Shape
<1>16. x[1] = host[1] \/ x[1] = Part("www.")
  <2>1. CASE m = 0
    BY <1>12, <2>1
  <2>2. CASE m = 1
    BY <1>13, <2>2
  <2> QED BY <1>11, <2>1, <2>2
<1>17. x[1].t \notin {"http", "https"} /\ x[1].t # Space
  <2>1. Part("www.").t \notin {"http", "https"} /\ Part("www.").t # Space
    BY DEF Part, Space
  <2> QED BY <1>1, <1>3, <1>16, <2>1
<1>18. x[Len(x)].t # Space
  <2>1. CASE Len(rest) = 0
    <3>1. Len(x) = n
      BY <1>11, <2>1
    <3> QED BY <1>3, <1>12, <3>1
  <2>2. CASE Len(rest) # 0
    <3>1. Len(rest) \in 1..Len(rest) /\ Len(rest) >= 1
      BY <1>2, <2>2
    <3>2. x[Len(w) + Len(rest)] = rest[Len(rest)]
      BY <1>9, <3>1
    <3> QED BY <1>3, <1>9, <3>1, <3>2
  <2> QED BY <2>1, <2>2
<1>19. Len(x) >= 1
  BY <1>2, <1>11
<1> QED
  BY <1>10, <1>15, <1>17, <1>18, <1>19 DEF x, w, m

\* The scheme is taken off a web site (the loop of _company_domain).
LEMMA SchemeOff ==
  ASSUME NEW x \in Seq(Pieces), Len(x) >= 1, x[1].t \notin {"http", "https"},
         NEW scheme \in {<<>>, Scheme("https"), Scheme("http")}
  PROVE  Schemeless(scheme \o x) = x
<1> DEFINE a == Scheme("https")
           b == Scheme("http")
<1>1. a \in Seq(Pieces) /\ Len(a) = 4 /\ a[1] = Part("https")
  BY SchemeIs
<1>2. b \in Seq(Pieces) /\ Len(b) = 4 /\ b[1] = Part("http")
  BY SchemeIs
<1>3. Schemeless(scheme \o x) = WithoutPrefix(WithoutPrefix(scheme \o x, a), b)
  BY DEF Schemeless
<1>4. scheme \in {<<>>, a, b}
  OBVIOUS
<1> HIDE DEF a, b
<1>5. x[1] # a[1] /\ x[1] # b[1] /\ b[1] # a[1]
  <2>1. Part("https").t = "https" /\ Part("http").t = "http"
    BY DEF Part
  <2> QED BY <1>1, <1>2, <2>1
<1>6. WithoutPrefix(x, a) = x /\ WithoutPrefix(x, b) = x
  <2>1. Len(a) >= 1 /\ Len(b) >= 1
    BY <1>1, <1>2
  <2>2. WithoutPrefix(x, a) = x
    BY <1>1, <1>5, <2>1, PrefixStays
  <2>3. WithoutPrefix(x, b) = x
    BY <1>2, <1>5, <2>1, PrefixStays
  <2> QED BY <2>2, <2>3
<1>7. CASE scheme = <<>>
  <2>1. scheme \o x = x
    BY <1>7
  <2> QED BY <1>3, <1>6, <2>1
<1>8. CASE scheme = a
  <2>1. WithoutPrefix(a \o x, a) = x
    BY <1>1, PrefixOff
  <2> QED BY <1>3, <1>6, <1>8, <2>1
<1>9. CASE scheme = b
  <2> DEFINE y == b \o x
  <2>1. y \in Seq(Pieces) /\ \A i \in 1..Len(b) : y[i] = b[i]
    <3>1. b \in Seq(Pieces)
      BY <1>2
    <3> QED BY ONLY <3>1, x \in Seq(Pieces), JoinOf
  <2>2. WithoutPrefix(y, b) = x
    BY <1>2, PrefixOff
  <2> HIDE DEF y
  <2>3. y[1] # a[1] /\ Len(a) >= 1
    BY <1>1, <1>2, <1>5, <2>1
  <2>4. WithoutPrefix(y, a) = y
    BY <1>1, <2>1, <2>3, PrefixStays
  <2> QED BY <1>3, <1>9, <2>2, <2>4 DEF y
<1> QED
  BY <1>4, <1>7, <1>8, <1>9

\* What may stand before and after the host, and that the host of a site is found.
Schemes == {<<>>, Scheme("https"), Scheme("http")}
Webs == {<<>>, <<Part("www.")>>}
Afters == Rests \union {<<>>}
ReadsAs(base, host) == Plain(base) /\ base # <<>> /\ HostIn(Schemeless(base)) = host

\* Every way to write the site of a host is a plain text the host is found in.
LEMMA SiteRead ==
  ASSUME NEW host \in Hosts, host # <<>>, NEW www \in Webs, NEW rest \in Afters, NEW scheme \in Schemes
  PROVE  ReadsAs(SiteOf(scheme, www, host, rest), host)
<1>0. /\ www \in {<<>>, <<Part("www.")>>} /\ rest \in Rests \union {<<>>}
      /\ scheme \in {<<>>, Scheme("https"), Scheme("http")}
  BY DEF Webs, Afters, Schemes
<1> DEFINE w == www \o host
           x == w \o rest
           y == scheme \o x
<1>1. /\ host \in Seq(Pieces) /\ rest \in Seq(Pieces) /\ host[1] \in Pieces /\ host = <<host[1]>>
      /\ host[1].t \notin {":", "/", "www."}
  <2>1. host \in Seq(Pieces) /\ Len(host) = 1 /\ host[1].t \notin {":", "/", "www.", "http", "https"}
    BY LeadsAssumption DEF Plain
  <2>2. rest \in Seq(Pieces)
    <3>1. <<>> \in Seq(Pieces)
      OBVIOUS
    <3>2. CASE rest \in Rests
      BY <3>2, LeadsAssumption DEF Plain
    <3> QED BY <1>0, <3>1, <3>2, Zenon
  <2>3. host[1] \in Pieces
    BY <2>1
  <2>4. host = <<host[1]>>
    <3> DEFINE q == <<host[1]>>
    <3>1. q \in Seq(Pieces) /\ Len(q) = 1 /\ q[1] = host[1]
      BY <2>3
    <3> HIDE DEF q
    <3>2. \A i \in 1..1 : host[i] = q[i]
      BY <3>1
    <3>3. host = q
      BY <2>1, <3>1, <3>2, SameText
    <3> QED BY <3>3 DEF q
  <2> QED BY <2>1, <2>2, <2>3, <2>4
<1>2. www \in Seq(Pieces)
  <2> DEFINE p == Part("www.")
  <2>1. p \in Pieces /\ www \in {<<>>, <<p>>}
    BY <1>0, LeadsAssumption
  <2> HIDE DEF p
  <2>2. CASE www = <<>>
    BY <2>2
  <2>3. CASE www = <<p>>
    BY <2>1, <2>3
  <2> QED BY <2>1, <2>2, <2>3
<1>3. scheme \in Seq(Pieces) /\ Small(scheme) /\ (Len(scheme) >= 1 => scheme[1].t # Space)
  <2>1. CASE scheme = <<>>
    BY <2>1 DEF Small
  <2>2. ASSUME NEW t \in {"http", "https"}, scheme = Scheme(t)
        PROVE  scheme \in Seq(Pieces) /\ Small(scheme) /\ (Len(scheme) >= 1 => scheme[1].t # Space)
    <3>1. /\ scheme \in Seq(Pieces) /\ Len(scheme) = 4
          /\ scheme[1] = Part(t) /\ scheme[2] = Part(":") /\ scheme[3] = Part("/") /\ scheme[4] = Part("/")
      BY <2>2, SchemeIs
    <3>2. \A i \in 1..4 : scheme[i] = Part(scheme[i].t)
      <4>1. \A u \in {t, ":", "/"} : Part(u) = Part(Part(u).t)
        BY DEF Part
      <4>2. \A i \in 1..4 : i = 1 \/ i = 2 \/ i = 3 \/ i = 4
        OBVIOUS
      <4> QED BY <3>1, <4>1, <4>2
    <3>3. Part(t).t # Space
      BY DEF Part, Space
    <3> QED BY <3>1, <3>2, <3>3 DEF Small
  <2> QED BY <1>0, <2>1, <2>2
<1>4. /\ Small(x) /\ Shape(x, Len(www) + 1, host[1]) /\ Len(x) >= 1
      /\ x[1].t \notin {"http", "https"} /\ x[1].t # Space /\ x[Len(x)].t # Space
  BY <1>0, SiteShape, Zenon
<1>5. scheme \o www \o host \o rest = y
  <2>1. (scheme \o www) \o host = scheme \o w
    <3>1. scheme \in Seq(Pieces) /\ host \in Seq(Pieces)
      BY <1>1, <1>3
    <3> QED BY ONLY SMTT(60), <1>2, <3>1, JoinAll
  <2>2. w \in Seq(Pieces)
    BY <1>1, <1>2, JoinOf
  <2> HIDE DEF w
  <2>3. (scheme \o w) \o rest = scheme \o (w \o rest)
    <3>1. scheme \in Seq(Pieces) /\ rest \in Seq(Pieces)
      BY <1>1, <1>3
    <3>2. \A a, b, c \in Seq(Pieces) : (a \o b) \o c = a \o (b \o c)
      BY JoinAll, SMTT(60), Z3
    <3> QED BY ONLY Zenon, <2>2, <3>1, <3>2
  <2> QED BY <2>1, <2>3
<1> HIDE DEF x
<1>6. x \in Seq(Pieces) /\ Len(x) \in Nat
  BY <1>4 DEF Small
<1>7. HostIn(Schemeless(y)) = host
  <2>1. Schemeless(y) = x
    BY <1>0, <1>4, <1>6, SchemeOff, Zenon
  <2>2. HostIn(x) = <<host[1]>>
    BY <1>1, <1>4, HostFound
  <2> QED BY <1>1, <2>1, <2>2
<1>8. Plain(y) /\ y # <<>>
  <2>1. Small(y)
    BY <1>3, <1>4, SmallJoin
  <2>2. /\ Len(y) = Len(scheme) + Len(x) /\ (\A i \in 1..Len(scheme) : y[i] = scheme[i])
        /\ \A i \in 1..Len(x) : y[Len(scheme) + i] = x[i]
    <3>1. scheme \in Seq(Pieces)
      BY <1>3
    <3> QED BY ONLY <1>6, <3>1, JoinOf
  <2>3. Len(scheme) \in Nat /\ Len(y) \in Nat /\ y \in Seq(Pieces) /\ DOMAIN y = 1..Len(y)
    BY <1>3, <2>1 DEF Small
  <2> HIDE DEF y
  <2>4. y[Len(y)].t # Space
    <3>1. Len(x) \in 1..Len(x)
      BY <1>4, <1>6
    <3>2. y[Len(scheme) + Len(x)] = x[Len(x)]
      BY <2>2, <3>1
    <3> QED BY <1>4, <2>2, <3>2
  <2>5. y[1].t # Space
    <3>1. CASE Len(scheme) = 0
      <4>1. 1 \in 1..Len(x) /\ Len(scheme) + 1 = 1
        BY <1>4, <1>6, <3>1
      <4>2. y[Len(scheme) + 1] = x[1]
        BY <2>2, <4>1
      <4> QED BY <1>4, <4>1, <4>2
    <3>2. CASE Len(scheme) # 0
      <4>1. 1 \in 1..Len(scheme) /\ Len(scheme) >= 1
        BY <2>3, <3>2
      <4> QED BY <1>3, <2>2, <4>1
    <3> QED BY <3>1, <3>2
  <2>6. \A i \in DOMAIN y : y[i] = Part(y[i].t)
    BY <2>1, <2>3 DEF Small
  <2>7. Len(y) # 0
    BY <1>4, <1>6, <2>2, <2>3
  <2>8. y # <<>>
    BY <2>7
  <2> QED BY <2>3, <2>4, <2>5, <2>6, <2>8 DEF Plain
<1> QED
  BY <1>5, <1>7, <1>8 DEF SiteOf, ReadsAs

\* No host is found where there is none.
LEMMA NoSite ==
  ASSUME NEW site \in {<<>>, Scheme("https")}
  PROVE  Plain(site) /\ HostIn(Schemeless(site)) = <<>>
<1> DEFINE a == Scheme("https")
           b == Scheme("http")
           w == <<Part("www.")>>
           e == <<>>
<1>1. /\ a \in Seq(Pieces) /\ Len(a) = 4
      /\ a[1] = Part("https") /\ a[2] = Part(":") /\ a[3] = Part("/") /\ a[4] = Part("/")
  BY SchemeIs
<1>2. b \in Seq(Pieces) /\ Len(b) = 4
  BY SchemeIs
<1>3. w \in Seq(Pieces) /\ Len(w) = 1
  BY LeadsAssumption
<1>4. e \in Seq(Pieces) /\ Len(e) = 0
  OBVIOUS
<1>5. \A s \in {a, b, w} : WithoutPrefix(e, s) = e
  <2> SUFFICES ASSUME NEW s \in {a, b, w} PROVE WithoutPrefix(e, s) = e
    OBVIOUS
  <2> HIDE DEF a, b, w, e
  <2>1. s \in Seq(Pieces) /\ Len(s) >= 1
    <3>1. a \in Seq(Pieces) /\ Len(a) >= 1
      BY <1>1
    <3>2. b \in Seq(Pieces) /\ Len(b) >= 1
      BY <1>2
    <3>3. w \in Seq(Pieces) /\ Len(w) >= 1
      BY <1>3
    <3> QED BY <3>1, <3>2, <3>3, Zenon
  <2>2. Len(e) >= 1 => e[1] # s[1]
    BY <1>4
  <2> QED BY <1>4, <2>1, <2>2, PrefixStays, Zenon
<1>6. WithoutPrefix(a, a) = e
  <2>1. WithoutPrefix(a \o e, a) = e
    <3> HIDE DEF a, e
    <3> QED BY <1>1, <1>4, PrefixOff, Zenon
  <2>2. a \o e = a
    <3> HIDE DEF a
    <3> QED BY <1>1
  <2> QED BY <2>1, <2>2
<1>7. Schemeless(site) = e
  <2>1. site = e \/ site = a
    OBVIOUS
  <2> HIDE DEF a, b, w, e
  <2>2. Schemeless(site) = WithoutPrefix(WithoutPrefix(site, a), b)
    BY DEF Schemeless, a, b
  <2> QED BY <1>5, <1>6, <2>1, <2>2
<1>8. HostIn(e) = e
  <2>1. \A i \in 1..Len(e) : FALSE
    BY <1>4
  <2>2. Before(e, "/") = e
    BY <1>4, <2>1, BeforeNone, Zenon
  <2>3. Before(e, ":") = e
    BY <1>4, <2>1, BeforeNone, Zenon
  <2> HIDE DEF e
  <2> QED BY <1>5, <2>2, <2>3 DEF HostIn
<1>9. Plain(a)
  <2>1. \A i \in 1..4 : a[i] = Part(a[i].t)
    <3>1. \A u \in {"https", ":", "/"} : Part(u) = Part(Part(u).t)
      BY DEF Part
    <3>2. \A i \in 1..4 : i = 1 \/ i = 2 \/ i = 3 \/ i = 4
      OBVIOUS
    <3> HIDE DEF a
    <3> QED BY <1>1, <3>1, <3>2
  <2>2. a[1].t # Space /\ a[4].t # Space
    BY <1>1 DEF Part, Space
  <2>3. DOMAIN a = 1..4
    BY <1>1
  <2> HIDE DEF a
  <2> QED BY <1>1, <2>1, <2>2, <2>3 DEF Plain
<1>10. Plain(e)
  BY DEF Plain
<1> QED
  BY <1>7, <1>8, <1>9, <1>10

\* What _company_domain makes of a host and the domain of the e-mail address.
Company(host, email_domain, is_free_mail) ==
    IF host # None THEN host ELSE IF is_free_mail THEN None ELSE email_domain

\* _company_domain, by the host it finds.
LEMMA CompanyOf ==
  ASSUME NEW w, NEW x, NEW h, NEW d, NEW f, lower(strip(w)) = x, HostIn(Schemeless(x)) = h
  PROVE  _company_domain(w, d, f) = Company(h, d, f)
<1>1. _company_domain(w, d, f) = Company(HostIn(Schemeless(lower(strip(w)))), d, f)
  BY DEF _company_domain, Company, HostIn, Schemeless
<1> QED
  BY <1>1, Zenon

\* A web site counts for its host, however it is written (_company_domain).
LEMMA CompanyAlike ==
  ASSUME NEW host \in Hosts \union {<<>>}, NEW site \in Sites(host)
  PROVE  /\ \A d, f : /\ _company_domain(site, d, f) = Company(host, d, f)
                      /\ _company_domain(host, d, f) = Company(host, d, f)
         /\ host # <<>> => site # <<>>
<1>1. CASE host = <<>>
  <2>1. site \in {<<>>, Scheme("https")}
    BY <1>1 DEF Sites
  <2>2. Plain(site) /\ HostIn(Schemeless(site)) = host
    BY <1>1, <2>1, NoSite
  <2>3. Plain(host) /\ HostIn(Schemeless(host)) = host
    BY <1>1, NoSite
  <2>4. site \in Spellings(site) /\ host \in Spellings(host)
    BY DEF Spellings
  <2>5. lower(strip(site)) = site /\ lower(strip(host)) = host
    BY <2>2, <2>3, <2>4, SpeltAlike
  <2> QED BY <1>1, <2>2, <2>3, <2>5, CompanyOf
<1>2. CASE host # <<>>
  <2>1. host \in Hosts
    BY <1>2
  <2>2. PICK scheme \in {<<>>, Scheme("https"), Scheme("http")}, www \in {<<>>, <<Part("www.")>>}, rest \in Rests :
            site \in Spellings(scheme \o www \o host \o rest)
    BY <1>2 DEF Sites
  <2> DEFINE base == scheme \o www \o host \o rest
  <2>3. Plain(base) /\ base # <<>> /\ HostIn(Schemeless(base)) = host
    <3>1. rest \in Afters /\ www \in Webs /\ scheme \in Schemes
      BY DEF Afters, Webs, Schemes
    <3>2. ReadsAs(SiteOf(scheme, www, host, rest), host)
      BY ONLY <1>2, <2>1, <3>1, SiteRead
    <3> QED BY <3>2 DEF ReadsAs, SiteOf
  <2>4. site \in Spellings(base)
    BY <2>2
  <2> HIDE DEF base
  <2>5. lower(strip(site)) = base /\ (strip(site) = None <=> base = None)
    BY <2>3, <2>4, SpeltAlike
  <2>6. site # <<>>
    BY <2>3, <2>5, StripEmpty DEF None
  <2>7. Plain(host)
    BY <2>1, LeadsAssumption
  <2>8. host \in Spellings(host)
    BY DEF Spellings
  <2>9. lower(strip(host)) = host
    BY <2>7, <2>8, SpeltAlike
  <2>10. HostIn(Schemeless(host)) = host
    <3> DEFINE e == <<>>
    <3>1. HostIn(Schemeless(e \o e \o host \o e)) = host
      <4>1. e \in Schemes /\ e \in Webs /\ e \in Afters
        BY DEF Schemes, Webs, Afters
      <4> HIDE DEF e
      <4>2. ReadsAs(SiteOf(e, e, host, e), host)
        BY ONLY <1>2, <2>1, <4>1, SiteRead
      <4> QED BY <4>2 DEF ReadsAs, SiteOf
    <3>2. e \o e \o host \o e = host
      <4>1. host \in Seq(Pieces)
        BY <2>7 DEF Plain
      <4>2. e \o e = e /\ e \o host = host /\ host \o e = host
        BY <4>1
      <4> QED BY <4>2
    <3> QED BY <3>1, <3>2
  <2> QED BY <2>3, <2>5, <2>6, <2>9, <2>10, CompanyOf
<1> QED
  BY <1>1, <1>2

\* A language named in capitals or with spaces is the language (_language_hint).
LEMMA LanguageAlike ==
  ASSUME NEW s, Plain(s), NEW w \in Spellings(s), NEW signs
  PROVE  _language_hint(w, signs) = _language_hint(s, signs)
<1>1. s \in Spellings(s)
  BY DEF Spellings
<1>2. lower(strip(w)) = lower(strip(s))
  BY <1>1, SpeltAlike
<1> DEFINE Hint(value) == IF \E l \in {"fi", "sv", "en", "other"} : value = <<Part(l)>> THEN value[1].t
                          ELSE IF signs \intersect {"a ring", "Swedish word"} # {} THEN "sv"
                          ELSE IF signs # {} THEN "fi"
                          ELSE "other"
<1>3. _language_hint(w, signs) = Hint(lower(strip(w))) /\ _language_hint(s, signs) = Hint(lower(strip(s)))
  BY DEF _language_hint
<1> HIDE DEF Hint
<1> QED
  BY <1>2, <1>3

\* The whole is the end of a text.
LEMMA EndsWhole ==
  ASSUME NEW C, NEW s \in Seq(C)
  PROVE  endswith(s, s)
<1> DEFINE m == Len(s)
           a == 0 + 1
           v == SubSeq(s, a, m)
<1>1. m \in Nat /\ a \in Nat \ {0} /\ m <= Len(s) /\ a <= m + 1 /\ (m - a) + 1 = m /\ 0 \in 0..m
      /\ \A i \in 1..m : (i + a) - 1 = i
  OBVIOUS
<1>2. Len(s) = m
  OBVIOUS
<1> HIDE DEF m, a
<1>3. v \in Seq(C) /\ Len(v) = (m - a) + 1 /\ \A i \in 1..((m - a) + 1) : v[i] = s[(i + a) - 1]
  BY <1>1, PartOf
<1> HIDE DEF v
<1>4. Len(v) = m /\ \A i \in 1..m : v[i] = s[i]
  BY <1>1, <1>3
<1>5. v = s
  BY <1>1, <1>2, <1>3, <1>4, SameText
<1> QED
  BY <1>1, <1>2, <1>5 DEF endswith, v, a

\* So is what follows the last t.
LEMMA EndsAfterLast ==
  ASSUME NEW C, NEW s \in Seq(C), NEW t
  PROVE  endswith(s, AfterLast(s, t))
<1> DEFINE S == Positions(s, t)
           N == Len(s)
           T == {N - i : i \in S}
<1>1. N \in Nat /\ DOMAIN s = 1..N
  OBVIOUS
<1>2. CASE S = {}
  <2>1. AfterLast(s, t) = s
    BY <1>2 DEF AfterLast
  <2> QED BY <2>1, EndsWhole
<1>3. CASE S # {}
  <2>1. S \subseteq 1..N
    BY <1>1 DEF Positions
  <2>2. AfterLast(s, t) = SubSeq(s, Max(S) + 1, N)
    BY <1>3, Zenon DEF AfterLast
  <2> HIDE DEF S, N
  <2>0. N \in Nat
    BY <1>1
  <2>3. T \in SUBSET Nat /\ T # {}
    <3>1. \A i \in S : i \in 1..N
      BY <2>1
    <3>2. \A i \in S : N - i \in Nat
      BY ONLY <2>0, <3>1
    <3> QED BY <1>3, <3>2
  <2>4. PICK m \in T : \A k \in T : m <= k
    <3> HIDE DEF T
    <3> QED BY <2>3, LeastOf
  <2>5. PICK i \in S : m = N - i
    BY <2>4
  <2>6. \A j \in S : i >= j
    <3> SUFFICES ASSUME NEW j \in S PROVE i >= j
      OBVIOUS
    <3>1. N - j \in T
      OBVIOUS
    <3>2. N - i <= N - j
      BY <2>4, <2>5, <3>1
    <3> QED BY <1>1, <2>1, <3>2
  <2>7. Max(S) \in S
    BY <2>5, <2>6 DEF Max
  <2>8. Max(S) \in 0..N
    <3> DEFINE m0 == Max(S)
    <3>1. m0 \in 1..N
      BY <2>1, <2>7, Zenon
    <3> HIDE DEF m0
    <3>2. m0 \in 0..N
      BY ONLY <2>0, <3>1
    <3> QED BY <3>2 DEF m0
  <2> QED BY <2>2, <2>8 DEF endswith, N
<1> QED
  BY <1>2, <1>3

\* The domain of an address is the end of it (_normalize_email).
LEMMA DomainEnds ==
  ASSUME NEW s, Plain(s), _normalize_email(s).domain # None
  PROVE  endswith(s, _normalize_email(s).domain)
<1>1. s \in Spellings(s)
  BY DEF Spellings
<1>2. lower(strip(s)) = s
  BY <1>1, SpeltAlike, Zenon
<1> DEFINE last == AfterLast(lower(strip(s)), "@")
<1>3. _normalize_email(s).domain \in {None, last}
  BY DEF _normalize_email
<1>4. s \in Seq(Pieces)
  BY DEF Plain
<1>5. endswith(s, AfterLast(s, "@"))
  BY <1>4, EndsAfterLast
<1> QED
  BY <1>2, <1>3, <1>5

\* What a record needs to be right about the company, seen from the submission.
CompanyRight(a, b, company) ==
    /\ company \in FreeMail => b.website # <<>>
    /\ company # <<>> => \E s \in {a.email, a.website} : endswith(s, company)

\* The form filled in twice: the submissions a and b mean one thing.
SameMeaning(a, b) ==
    /\ DOMAIN a = DOMAIN b
    /\ Plain(a.email) /\ b.email \in Spellings(a.email)
    /\ a.website \in Hosts \union {<<>>} /\ b.website \in Sites(a.website)
    /\ Plain(a.language) /\ b.language \in Spellings(a.language)
    /\ _to_e164(a.phone) = _to_e164(b.phone) /\ phone_errors(a.phone) = phone_errors(b.phone)
    /\ a.signs = b.signs

\* Two submissions of one meaning have one record (normalize_lead).
LEMMA OneMeaningOneRecord ==
  ASSUME NEW a, NEW b, SameMeaning(a, b)
  PROVE  /\ normalize_lead(a) = normalize_lead(b)
         /\ CompanyRight(a, b, normalize_lead(a).company_domain)
<1>1. _normalize_email(b.email) = _normalize_email(a.email)
  BY EmailAlike, Zenon DEF SameMeaning
<1> DEFINE e == _normalize_email(a.email)
           free == e.domain # None /\ e.domain \in FreeMail
           company == Company(a.website, e.domain, free)
<1>2. /\ \A d, f : /\ _company_domain(b.website, d, f) = Company(a.website, d, f)
                   /\ _company_domain(a.website, d, f) = Company(a.website, d, f)
      /\ a.website # <<>> => b.website # <<>>
  BY CompanyAlike, Zenon DEF SameMeaning
<1>3. _language_hint(b.language, b.signs) = _language_hint(a.language, a.signs)
  BY LanguageAlike DEF SameMeaning
<1>4. _to_e164(a.phone) = _to_e164(b.phone) /\ phone_errors(a.phone) = phone_errors(b.phone)
  BY DEF SameMeaning
<1>5. _company_domain(a.website, e.domain, free) = company /\ _company_domain(b.website, e.domain, free) = company
  BY <1>2, Zenon
<1> DEFINE Rec(m, c, p, l, q) ==
               [email_normalized |-> m.email, email_valid |-> m.valid,
                is_free_mail |-> m.domain # None /\ m.domain \in FreeMail,
                is_disposable |-> m.domain # None /\ m.domain \in Disposable,
                company_domain |-> c, phone_e164 |-> p, language |-> l, errors |-> m.errors \union q]
<1>6. normalize_lead(a) = Rec(e, _company_domain(a.website, e.domain, free), _to_e164(a.phone),
                              _language_hint(a.language, a.signs), phone_errors(a.phone))
  BY Zenon DEF normalize_lead
<1>7. normalize_lead(b) = Rec(e, _company_domain(b.website, e.domain, free), _to_e164(b.phone),
                              _language_hint(b.language, b.signs), phone_errors(b.phone))
  BY <1>1, Zenon DEF normalize_lead
<1> DEFINE c == _company_domain(a.website, e.domain, free)
           p == _to_e164(a.phone)
           l == _language_hint(a.language, a.signs)
           q == phone_errors(a.phone)
<1>8. Rec(e, c, p, l, q).company_domain = c
  <2> HIDE DEF e, c, p, l, q
  <2> QED OBVIOUS
<1> HIDE DEF Rec
<1>9. normalize_lead(a) = normalize_lead(b)
  BY <1>3, <1>4, <1>5, <1>6, <1>7, ZenonT(60)
<1>10. normalize_lead(a).company_domain = company
  BY <1>5, <1>6, <1>8, Zenon
<1>11. company \in FreeMail => b.website # <<>>
  BY <1>2, LeadsAssumption, Zenon DEF Company, None
<1>12. company # <<>> => \E s \in {a.email, a.website} : endswith(s, company)
  <2> SUFFICES ASSUME company # <<>> PROVE \E s \in {a.email, a.website} : endswith(s, company)
    BY Zenon
  <2>1. CASE a.website # None
    <3>1. company = a.website
      BY <2>1, Zenon DEF Company
    <3>2. a.website \in Seq(Pieces)
      <4>1. a.website \in Hosts
        BY <2>1 DEF SameMeaning, None
      <4> QED BY <4>1, LeadsAssumption, Zenon DEF Plain
    <3>3. endswith(a.website, a.website)
      BY <3>2, EndsWhole, Zenon
    <3> QED BY <3>1, <3>3
  <2>2. CASE a.website = None
    <3>1. company = e.domain /\ e.domain # None
      BY <2>2, Zenon DEF Company, None
    <3>2. endswith(a.email, e.domain)
      BY <3>1, DomainEnds, Zenon DEF SameMeaning
    <3> QED BY <3>1, <3>2
  <2> QED BY <2>1, <2>2, Zenon
<1> HIDE DEF company
<1> QED
  BY <1>9, <1>10, <1>11, <1>12, Zenon DEF CompanyRight

\* The form is filled in twice with one meaning, and both records are made.
Resubmitted ==
    phase = "submitted" => /\ SameMeaning(first, second)
                           /\ record = normalize_lead(first) /\ again = normalize_lead(second)

\* The fields of a submission.
LEMMA LeadFields ==
  ASSUME NEW email, NEW website, NEW language, NEW phone, NEW signs
  PROVE  LET a == Lead(email, website, language, phone, signs)
         IN  /\ a.email = email /\ a.website = website /\ a.language = language /\ a.phone = phone /\ a.signs = signs
             /\ DOMAIN a = {"email", "website", "language", "phone", "signs"}
BY DEF Lead

\* A submission with another telephone number.
LEMMA PhoneChanged ==
  ASSUME NEW email, NEW website, NEW language, NEW phone, NEW signs, NEW p
  PROVE  [Lead(email, website, language, phone, signs) EXCEPT !.phone = p] = Lead(email, website, language, p, signs)
BY DEF Lead

\* Nothing, filled in plainly.
LEMMA NothingPlain == Plain(<<>>) /\ <<>> \in Spellings(<<>>) /\ <<>> \in Sites(<<>>)
BY DEF Plain, Spellings, Sites

\* Each way to fill in the form twice has one meaning.
LEMMA SubmissionsAgree ==
  ASSUME NEW email \in Emails \union {<<>>}, NEW host \in Hosts \union {<<>>}, NEW language \in Languages \union {<<>>},
         NEW e \in Spellings(email), NEW site \in Sites(host), NEW l \in Spellings(language),
         NEW p, NEW q, _to_e164(p) = _to_e164(q), phone_errors(p) = phone_errors(q), NEW signs
  PROVE  SameMeaning(Lead(email, host, language, p, signs), Lead(e, site, l, q, signs))
<1> DEFINE a == Lead(email, host, language, p, signs)
           b == Lead(e, site, l, q, signs)
<1>1. /\ a.email = email /\ a.website = host /\ a.language = language /\ a.phone = p /\ a.signs = signs
      /\ DOMAIN a = {"email", "website", "language", "phone", "signs"}
  BY LeadFields
<1>2. /\ b.email = e /\ b.website = site /\ b.language = l /\ b.phone = q /\ b.signs = signs
      /\ DOMAIN b = {"email", "website", "language", "phone", "signs"}
  BY LeadFields
<1> HIDE DEF a, b
<1>3. Plain(email) /\ Plain(language)
  BY NothingPlain, LeadsAssumption, Zenon
<1>4. SameMeaning(a, b)
  BY <1>1, <1>2, <1>3 DEF SameMeaning
<1> QED
  BY <1>4, Zenon DEF a, b

\* Every step keeps it (LeadNext).
LEMMA ResubmittedKept ==
  ASSUME Resubmitted, [LeadNext]_<<phase, leadVars>>
  PROVE  Resubmitted'
<1>1. CASE UNCHANGED <<phase, leadVars>>
  <2>1. /\ phase' = phase /\ first' = first /\ second' = second /\ record' = record /\ again' = again
    BY <1>1, Zenon DEF leadVars
  <2>2. SameMeaning(first, second)' <=> SameMeaning(first, second)
    BY <2>1 DEF SameMeaning
  <2>3. normalize_lead(first)' = normalize_lead(first) /\ normalize_lead(second)' = normalize_lead(second)
    BY <2>1
  <2> QED BY <2>1, <2>2, <2>3 DEF Resubmitted
<1>2. CASE LeadDone
  BY <1>2 DEF LeadDone, Resubmitted
<1>3. ASSUME NEW a, NEW b, SameMeaning(a, b), Submit(a, b)
      PROVE  Resubmitted'
  <2>1. first' = a /\ second' = b /\ record' = normalize_lead(a) /\ again' = normalize_lead(b)
    BY <1>3 DEF Submit
  <2>2. SameMeaning(first', second')
    BY <1>3, <2>1
  <2> QED BY <2>1, <2>2 DEF Resubmitted
<1> DEFINE blank == Phone("blank")
<1>4. CASE SubmitAddress
  <2>1. PICK email \in Emails, host \in Hosts : \E e \in Spellings(email), site \in Sites(host) :
            Submit(Lead(email, host, <<>>, blank, {}), Lead(e, site, <<>>, blank, {}))
    BY <1>4 DEF SubmitAddress
  <2>2. PICK e \in Spellings(email), site \in Sites(host) :
            Submit(Lead(email, host, <<>>, blank, {}), Lead(e, site, <<>>, blank, {}))
    BY <2>1
  <2> HIDE DEF blank
  <2>3. SameMeaning(Lead(email, host, <<>>, blank, {}), Lead(e, site, <<>>, blank, {}))
    BY NothingPlain, SubmissionsAgree, Zenon
  <2> QED BY <1>3, <2>2, <2>3
<1>5. CASE SubmitLanguage
  <2>1. PICK language \in Languages, signs \in SUBSET {"a ring", "Finnish word"} : \E l \in Spellings(language) :
            Submit(Lead(<<>>, <<>>, language, blank, signs), Lead(<<>>, <<>>, l, blank, signs))
    BY <1>5, Zenon DEF SubmitLanguage
  <2>2. PICK l \in Spellings(language) :
            Submit(Lead(<<>>, <<>>, language, blank, signs), Lead(<<>>, <<>>, l, blank, signs))
    BY <2>1, Zenon
  <2> HIDE DEF blank
  <2>3. SameMeaning(Lead(<<>>, <<>>, language, blank, signs), Lead(<<>>, <<>>, l, blank, signs))
    BY NothingPlain, SubmissionsAgree, Zenon
  <2> QED BY <1>3, <2>2, <2>3, Zenon
<1>6. CASE SubmitPhone
  <2>1. PICK forms \in {<<"national", "international">>, <<"unparsable", "impossible">>} :
            Submit([NoLead EXCEPT !.phone = Phone(forms[1])], [NoLead EXCEPT !.phone = Phone(forms[2])])
    BY <1>6 DEF SubmitPhone
  <2> DEFINE p == Phone(forms[1])
             q == Phone(forms[2])
  <2>2. /\ [NoLead EXCEPT !.phone = p] = Lead(<<>>, <<>>, <<>>, p, {})
        /\ [NoLead EXCEPT !.phone = q] = Lead(<<>>, <<>>, <<>>, q, {})
    <3> HIDE DEF p, q
    <3>1. NoLead = Lead(<<>>, <<>>, <<>>, blank, {})
      BY DEF NoLead
    <3> HIDE DEF blank
    <3> QED BY <3>1, PhoneChanged
  <2>3. _to_e164(p) = _to_e164(q) /\ phone_errors(p) = phone_errors(q)
    BY DEF Phone, _to_e164, phone_errors
  <2> HIDE DEF p, q
  <2>4. SameMeaning(Lead(<<>>, <<>>, <<>>, p, {}), Lead(<<>>, <<>>, <<>>, q, {}))
    BY <2>3, NothingPlain, SubmissionsAgree
  <2>5. Submit(Lead(<<>>, <<>>, <<>>, p, {}), Lead(<<>>, <<>>, <<>>, q, {}))
    BY <2>1, <2>2, Zenon DEF p, q
  <2> QED BY <1>3, <2>4, <2>5
<1> QED
  BY <1>1, <1>2, <1>4, <1>5, <1>6 DEF LeadNext

\* For every choice of addresses, hosts and languages written plainly, two
\* submissions that differ in spelling only give one record, a free-mail domain
\* is the company's only when the web site says so, and the company's domain is
\* the end of what was submitted (normalize_lead).
THEOREM SameLeadOneRecord == LeadSpec => []SameLeadSameRecord
<1>1. LeadInit => Resubmitted
  BY DEF LeadInit, Resubmitted
<1>2. Resubmitted /\ [LeadNext]_<<phase, leadVars>> => Resubmitted'
  BY ResubmittedKept
<1>3. Resubmitted => SameLeadSameRecord
  <2> SUFFICES ASSUME Resubmitted, phase = "submitted"
               PROVE  /\ record = again /\ CompanyRight(first, second, record.company_domain)
    BY DEF SameLeadSameRecord, CompanyRight
  <2>1. SameMeaning(first, second) /\ record = normalize_lead(first) /\ again = normalize_lead(second)
    BY DEF Resubmitted
  <2>2. /\ normalize_lead(first) = normalize_lead(second)
        /\ CompanyRight(first, second, normalize_lead(first).company_domain)
    BY <2>1, OneMeaningOneRecord
  <2> QED BY <2>1, <2>2
<1> QED
  BY <1>1, <1>2, <1>3, PTL DEF LeadSpec
=============================================================================
