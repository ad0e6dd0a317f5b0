---------------------------- MODULE ChecksumProofs ----------------------------
(***************************************************************************)
(* Proofs about the checksum rules (Checksums) for every number of any     *)
(* length its standard allows: one made as the standard says passes, and   *)
(* one read with a digit wrong or two neighbours exchanged does not.       *)
(***************************************************************************)
EXTENDS MCChecksums, WellFoundedInduction, TLAPS

\* A set of naturals that is not empty has a least element: what an induction
\* over data comes down to here, by way of a least counterexample.
LEMMA LeastOf ==
  ASSUME NEW T \in SUBSET Nat, T # {}
  PROVE  \E m \in T : \A k \in T : m <= k
<1>1. \E x \in T : \A y \in T : ~ (<<y, x>> \in OpToRel(<, Nat))
  <2> HIDE DEF OpToRel
  <2> QED BY NatLessThanWellFounded, WFMin, Zenon
<1>2. PICK m \in T : \A y \in T : ~ (<<y, m>> \in OpToRel(<, Nat))
  BY <1>1, Zenon
<1>3. \A y \in T : m <= y
  <2> TAKE y \in T
  <2>1. ~(y < m)
    BY <1>2, Zenon DEF OpToRel
  <2> QED BY <2>1
<1> QED BY <1>3

\* Induction up to N, for a property given as the set of numbers that have it.
LEMMA Induct ==
  ASSUME NEW N \in Nat, NEW T, 0 \in T, \A n \in 1..N : n - 1 \in T => n \in T
  PROVE  \A n \in 0..N : n \in T
<1> DEFINE Bad == {n \in 0..N : n \notin T}
<1> SUFFICES ASSUME Bad # {} PROVE FALSE
  OBVIOUS
<1>1. PICK m \in Bad : \A k \in Bad : m <= k
  <2>1. Bad \in SUBSET Nat
    OBVIOUS
  <2> HIDE DEF Bad
  <2> QED BY <2>1, LeastOf
<1>2. m \in 1..N /\ m \notin T
  BY <1>1
<1>3. m - 1 \in 0..N /\ ~(m <= m - 1)
  BY <1>2
<1>4. m - 1 \in T
  BY <1>1, <1>3
<1> QED
  BY <1>2, <1>4

\* A loop of N turns from a has a value of V after every turn.
HasRun(N, V, a, step) ==
    \E g \in [0..N -> V] : g[0] = a /\ \A n \in 1..N : g[n] = step[<<n, g[n - 1]>>]

\* It has if each turn stays in V.
LEMMA LoopHasValue ==
  ASSUME NEW N \in Nat, NEW V, NEW a \in V, NEW step \in [(1..N) \X V -> V]
  PROVE  HasRun(N, V, a, step)
<1> DEFINE Runs(n, g) == g[0] = a /\ \A k \in 1..n : g[k] = step[<<k, g[k - 1]>>]
           T == {n \in 0..N : \E g \in [0..n -> V] : Runs(n, g)}
<1>1. 0 \in T
  <2> DEFINE g == [k \in 0..0 |-> a]
  <2>1. g \in [0..0 -> V] /\ Runs(0, g)
    OBVIOUS
  <2> HIDE DEF g, Runs
  <2> QED BY <2>1
<1>2. ASSUME NEW n \in 1..N, n - 1 \in T PROVE n \in T
  <2>1. PICK g \in [0..(n - 1) -> V] : Runs(n - 1, g)
    BY <1>2
  <2> DEFINE v == step[<<n, g[n - 1]>>]
             h == [k \in 0..n |-> IF k = n THEN v ELSE g[k]]
  <2>2. n - 1 \in 0..(n - 1) /\ g[n - 1] \in V
    BY <2>1
  <2>3. v \in V
    BY <2>2
  <2> HIDE DEF v
  <2>4. \A k \in 0..n : k # n => k \in 0..(n - 1)
    OBVIOUS
  <2>5. h \in [0..n -> V]
    BY <2>1, <2>3, <2>4
  <2>6. h[0] = a
    BY <2>1
  <2>7. ASSUME NEW k \in 1..n PROVE h[k] = step[<<k, h[k - 1]>>]
    <3>1. k - 1 \in 0..n /\ k - 1 # n /\ h[k - 1] = g[k - 1] /\ k \in 0..n
      OBVIOUS
    <3>2. CASE k = n
      BY <3>1, <3>2 DEF v
    <3>3. CASE k # n
      <4>1. k \in 1..(n - 1)
        BY <3>3
      <4>2. g[k] = step[<<k, g[k - 1]>>]
        BY <2>1, <4>1
      <4> QED BY <3>1, <3>3, <4>2
    <3> QED BY <3>2, <3>3
  <2>8. Runs(n, h)
    <3> HIDE DEF h
    <3> QED BY <2>6, <2>7
  <2> HIDE DEF h, Runs
  <2> QED BY <2>5, <2>8
<1>3. \A n \in 0..N : n \in T
  <2> HIDE DEF T
  <2> QED BY <1>1, <1>2, Induct
<1>4. N \in T
  BY <1>3
<1> QED
  BY <1>4 DEF HasRun

\* The sums of the first terms of s, as SumOf's loop makes them.
Partial(s) == LET upTo[n \in 0..Len(s)] == IF n = 0 THEN 0 ELSE upTo[n - 1] + s[n]
              IN  upTo

\* What they are, and that the last of them is SumOf.
LEMMA PartialSums ==
  ASSUME NEW s, Len(s) \in Nat, \A i \in 1..Len(s) : s[i] \in Int
  PROVE  /\ SumOf(s) = Partial(s)[Len(s)]
         /\ Partial(s)[0] = 0
         /\ \A n \in 1..Len(s) : Partial(s)[n] = Partial(s)[n - 1] + s[n]
         /\ \A n \in 0..Len(s) : Partial(s)[n] \in Int
<1> DEFINE N == Len(s)
           step == [p \in (1..N) \X Int |-> p[2] + s[p[1]]]
<1>1. PICK g \in [0..N -> Int] : g[0] = 0 /\ \A n \in 1..N : g[n] = step[<<n, g[n - 1]>>]
  <2>1. step \in [(1..N) \X Int -> Int] /\ 0 \in Int
    OBVIOUS
  <2> HIDE DEF step, N
  <2>2. N \in Nat
    BY DEF N
  <2>3. HasRun(N, Int, 0, step)
    BY <2>1, <2>2, LoopHasValue, Zenon
  <2> QED BY <2>3, Zenon DEF HasRun
<1>2. \A n \in 0..N : g[n] = IF n = 0 THEN 0 ELSE g[n - 1] + s[n]
  <2> SUFFICES ASSUME NEW n \in 1..N PROVE g[n] = g[n - 1] + s[n]
    BY <1>1
  <2>1. n - 1 \in 0..N /\ g[n - 1] \in Int
    BY <1>1
  <2>2. <<n, g[n - 1]>> \in (1..N) \X Int
    BY <2>1
  <2>3. step[<<n, g[n - 1]>>] = g[n - 1] + s[n]
    BY <2>2
  <2> HIDE DEF step
  <2> QED BY <1>1, <2>3
<1>3. g = [n \in 0..N |-> IF n = 0 THEN 0 ELSE g[n - 1] + s[n]]
  BY <1>1, <1>2
<1> DEFINE P == Partial(s)
<1>4. P = [n \in 0..N |-> IF n = 0 THEN 0 ELSE P[n - 1] + s[n]]
  <2> HIDE DEF step
  <2> QED BY <1>3, Zenon DEF Partial
<1> HIDE DEF P
<1>5. P[0] = 0 /\ \A n \in 1..N : P[n] = P[n - 1] + s[n]
  BY <1>4
<1>6. \A n \in 0..N : P[n] \in Int
  <2> DEFINE T == {n \in 0..N : P[n] \in Int}
  <2>1. 0 \in T /\ \A n \in 1..N : n - 1 \in T => n \in T
    BY <1>5
  <2>2. \A n \in 0..N : n \in T
    <3> HIDE DEF T
    <3> QED BY <2>1, Induct, Zenon
  <2> QED BY <2>2
<1>7. SumOf(s) = P[N]
  BY DEF SumOf, Partial, P
<1> QED
  BY <1>5, <1>6, <1>7 DEF P

-----------------------------------------------------------------------------

\* t is s with the digit at j taken for another.
Mistaken(s, t, j, N) ==
    /\ Len(s) = N /\ Len(t) = N
    /\ \A i \in 1..N : s[i] \in Int /\ t[i] \in Int
    /\ s[j] \in 0..9 /\ t[j] \in 0..9 /\ s[j] # t[j]
    /\ \A i \in 1..N : i # j => s[i] = t[i]

\* t is s with the digits at j and j + 1 exchanged.
Exchanged(s, t, j, N) ==
    /\ Len(s) = N /\ Len(t) = N
    /\ \A i \in 1..N : s[i] \in Int /\ t[i] \in Int
    /\ j + 1 \in 1..N /\ s[j] \in 0..9 /\ s[j + 1] \in 0..9 /\ s[j] # s[j + 1]
    /\ t[j] = s[j + 1] /\ t[j + 1] = s[j] /\ \A i \in 1..N : i # j /\ i # j + 1 => s[i] = t[i]

\* One term of a sum changes.
LEMMA SumOneChanged ==
  ASSUME NEW u, NEW v, NEW N \in Nat, Len(u) = N, Len(v) = N,
         \A i \in 1..N : u[i] \in Int /\ v[i] \in Int,
         NEW j \in 1..N, \A i \in 1..N : i # j => u[i] = v[i]
  PROVE  SumOf(u) \in Int /\ SumOf(v) \in Int /\ SumOf(v) = SumOf(u) + (v[j] - u[j])
<1> DEFINE A == Partial(u)
           B == Partial(v)
           gap(n) == IF n < j THEN 0 ELSE v[j] - u[j]
           T == {n \in 0..N : B[n] = A[n] + gap(n)}
<1>1. /\ SumOf(u) = A[N] /\ A[0] = 0 /\ \A n \in 1..N : A[n] = A[n - 1] + u[n]
      /\ \A n \in 0..N : A[n] \in Int
  BY PartialSums, Zenon
<1>2. /\ SumOf(v) = B[N] /\ B[0] = 0 /\ \A n \in 1..N : B[n] = B[n - 1] + v[n]
      /\ \A n \in 0..N : B[n] \in Int
  BY PartialSums, Zenon
<1> HIDE DEF A, B
<1>3. 0 \in T
  BY <1>1, <1>2
<1>4. ASSUME NEW n \in 1..N, n - 1 \in T PROVE n \in T
  <2>1. /\ A[n] = A[n - 1] + u[n] /\ B[n] = B[n - 1] + v[n] /\ B[n - 1] = A[n - 1] + gap(n - 1)
        /\ A[n - 1] \in Int /\ B[n - 1] \in Int /\ u[n] \in Int /\ v[n] \in Int
        /\ u[j] \in Int /\ v[j] \in Int /\ (n # j => u[n] = v[n])
    <3>1. B[n - 1] = A[n - 1] + gap(n - 1)
      BY <1>4
    <3>2. n - 1 \in 0..N
      OBVIOUS
    <3> HIDE DEF gap
    <3> QED BY <1>1, <1>2, <3>1, <3>2, Zenon
  <2>2. CASE n < j
    <3>1. gap(n) = 0 /\ gap(n - 1) = 0
      BY <2>2
    <3> HIDE DEF gap
    <3> QED BY <2>1, <2>2, <3>1
  <2>3. CASE n = j
    <3>1. gap(n) = v[n] - u[n] /\ gap(n - 1) = 0
      BY <2>3
    <3> HIDE DEF gap
    <3> QED BY <2>1, <3>1, SMTT(60)
  <2>4. CASE n > j
    <3>1. gap(n) = gap(n - 1) /\ gap(n) \in Int
      BY <2>1, <2>4
    <3>2. v[n] = u[n]
      BY <2>1, <2>4
    <3> HIDE DEF gap
    <3>3. B[n] = A[n] + gap(n)
      BY <2>1, <3>1, <3>2
    <3> QED BY <3>3
  <2> QED BY <2>2, <2>3, <2>4
<1>5. \A n \in 0..N : n \in T
  <2> HIDE DEF T
  <2> QED BY <1>3, <1>4, Induct, Zenon
<1>6. N \in 0..N /\ N \in T
  BY <1>5
<1> QED
  BY <1>1, <1>2, <1>6

\* A sum is its first term and the sum of the others.
LEMMA SumShift ==
  ASSUME NEW u, NEW v, NEW N \in Nat, Len(u) = N + 1, Len(v) = N,
         \A i \in 1..(N + 1) : u[i] \in Int, \A i \in 1..N : v[i] = u[i + 1]
  PROVE  SumOf(v) \in Int /\ SumOf(u) = u[1] + SumOf(v)
<1> DEFINE A == Partial(u)
           B == Partial(v)
           T == {n \in 0..N : A[n + 1] = u[1] + B[n]}
<1>1. \A i \in 1..N : v[i] \in Int
  OBVIOUS
<1>2. /\ SumOf(u) = A[N + 1] /\ A[0] = 0 /\ \A n \in 1..(N + 1) : A[n] = A[n - 1] + u[n]
      /\ \A n \in 0..(N + 1) : A[n] \in Int
  <2>1. Len(u) \in Nat /\ \A i \in 1..Len(u) : u[i] \in Int
    OBVIOUS
  <2>2. /\ SumOf(u) = A[Len(u)] /\ A[0] = 0 /\ \A n \in 1..Len(u) : A[n] = A[n - 1] + u[n]
        /\ \A n \in 0..Len(u) : A[n] \in Int
    BY <2>1, PartialSums, Zenon
  <2> QED BY <2>2
<1>3. /\ SumOf(v) = B[N] /\ B[0] = 0 /\ \A n \in 1..N : B[n] = B[n - 1] + v[n]
      /\ \A n \in 0..N : B[n] \in Int
  BY <1>1, PartialSums, Zenon
<1> HIDE DEF A, B
<1>4. 0 \in T
  BY <1>2, <1>3
<1>5. ASSUME NEW n \in 1..N, n - 1 \in T PROVE n \in T
  <2>1. A[n] = u[1] + B[n - 1]
    BY <1>5
  <2>2. A[n + 1] = A[n] + u[n + 1]
    BY <1>2, SMTT(60)
  <2>3. B[n] = B[n - 1] + u[n + 1] /\ B[n - 1] \in Int /\ u[n + 1] \in Int /\ u[1] \in Int
    BY <1>3
  <2>4. A[n + 1] = u[1] + B[n]
    BY <2>1, <2>2, <2>3
  <2> QED BY <2>4
<1>6. \A n \in 0..N : n \in T
  <2> HIDE DEF T
  <2> QED BY <1>4, <1>5, Induct, Zenon
<1>7. N \in 0..N /\ N \in T
  BY <1>6
<1> QED
  BY <1>2, <1>3, <1>7

\* Two sequences of integers that differ at j and j + 1 only.
TwoChanged(u, v, j, N) ==
    /\ Len(u) = N /\ Len(v) = N /\ j + 1 \in 1..N
    /\ \A i \in 1..N : u[i] \in Int /\ v[i] \in Int
    /\ \A i \in 1..N : i # j /\ i # j + 1 => u[i] = v[i]

\* Two neighbouring terms of a sum change.
LEMMA SumTwoChanged ==
  ASSUME NEW u, NEW v, NEW N \in Nat, NEW j \in 1..N, TwoChanged(u, v, j, N)
  PROVE  /\ SumOf(u) \in Int /\ SumOf(v) \in Int
         /\ SumOf(v) = SumOf(u) + (v[j] - u[j]) + (v[j + 1] - u[j + 1])
<1> SUFFICES ASSUME Len(u) = N, Len(v) = N, \A i \in 1..N : u[i] \in Int /\ v[i] \in Int,
                    j + 1 \in 1..N, \A i \in 1..N : i # j /\ i # j + 1 => u[i] = v[i]
             PROVE  /\ SumOf(u) \in Int /\ SumOf(v) \in Int
                    /\ SumOf(v) = SumOf(u) + (v[j] - u[j]) + (v[j + 1] - u[j + 1])
  BY DEF TwoChanged
<1> DEFINE w == [i \in 1..N |-> IF i = j THEN v[j] ELSE u[i]]
           k == j + 1
<1>1. Len(w) = N /\ \A i \in 1..N : w[i] \in Int
  <2>1. w \in Seq(Int)
    OBVIOUS
  <2> QED BY <2>1
<1>2. w[j] = v[j] /\ w[k] = u[k] /\ \A i \in 1..N : (i # j => u[i] = w[i]) /\ (i # k => w[i] = v[i])
  OBVIOUS
<1>3. k \in 1..N
  OBVIOUS
<1> HIDE DEF w, k
<1>4. SumOf(u) \in Int /\ SumOf(w) = SumOf(u) + (w[j] - u[j])
  BY <1>1, <1>2, SumOneChanged, Zenon
<1>5. SumOf(w) \in Int /\ SumOf(v) \in Int /\ SumOf(v) = SumOf(w) + (v[k] - w[k])
  BY <1>1, <1>2, <1>3, SumOneChanged, Zenon
<1>6. u[j] \in Int /\ v[j] \in Int /\ u[k] \in Int /\ v[k] \in Int
  BY <1>3
<1>7. SumOf(v) = SumOf(u) + (v[j] - u[j]) + (v[k] - u[k])
  BY <1>2, <1>4, <1>5, <1>6
<1> QED
  BY <1>4, <1>5, <1>7 DEF k

-----------------------------------------------------------------------------
\* The weights of a Finnish reference: they are those of FI_WEIGHTS after the check
\* digit, prime to ten, and no two neighbours are alike.
LEMMA Weights ==
  ASSUME NEW i \in Nat \ {0}
  PROVE  /\ WeightFromRight(i) \in {1, 3, 7}
         /\ WeightFromRight(i + 1) = FI_WEIGHTS[((i - 1) % 3) + 1]
         /\ WeightFromRight(i + 1) - WeightFromRight(i) \in {6, -4, -2}
<1>1. \A k \in Nat : k % 3 \in {0, 1, 2}
  OBVIOUS
<1>2. <<7, 3, 1>>[1] = 7 /\ <<7, 3, 1>>[2] = 3 /\ <<7, 3, 1>>[3] = 1
  OBVIOUS
<1>3. \A k \in Nat \ {0, 1} : WeightFromRight(k) = <<7, 3, 1>>[((k - 2) % 3) + 1]
  BY DEF WeightFromRight
<1>4. WeightFromRight(1) = 1
  BY DEF WeightFromRight
<1>5. \A k \in Nat \ {0, 1} : /\ (k - 2) % 3 = 0 => WeightFromRight(k) = 7
                              /\ (k - 2) % 3 = 1 => WeightFromRight(k) = 3
                              /\ (k - 2) % 3 = 2 => WeightFromRight(k) = 1
  BY <1>2, <1>3
<1>6. WeightFromRight(i) \in {1, 3, 7}
  BY <1>1, <1>4, <1>5
<1>7. WeightFromRight(i + 1) = FI_WEIGHTS[((i - 1) % 3) + 1]
  <2>1. i + 1 \in Nat \ {0, 1} /\ (i + 1) - 2 = i - 1
    OBVIOUS
  <2> QED BY <1>3, <2>1 DEF FI_WEIGHTS
<1>8. WeightFromRight(i + 1) - WeightFromRight(i) \in {6, -4, -2}
  <2>1. i + 1 \in Nat \ {0, 1} /\ (i + 1) - 2 = i - 1
    OBVIOUS
  <2>2. CASE i = 1
    BY <1>4, <1>5, <2>1, <2>2
  <2>3. CASE i # 1
    <3>1. i \in Nat \ {0, 1}
      BY <2>3
    <3>2. CASE (i - 2) % 3 = 0
      <4>1. (i - 1) % 3 = 1
        BY <3>1, <3>2
      <4> QED BY <1>5, <2>1, <3>1, <3>2, <4>1
    <3>3. CASE (i - 2) % 3 = 1
      <4>1. (i - 1) % 3 = 2
        BY <3>1, <3>3
      <4> QED BY <1>5, <2>1, <3>1, <3>3, <4>1
    <3>4. CASE (i - 2) % 3 = 2
      <4>1. (i - 1) % 3 = 0
        BY <3>1, <3>4
      <4> QED BY <1>5, <2>1, <3>1, <3>4, <4>1
    <3> QED BY <1>1, <3>1, <3>2, <3>3, <3>4
  <2> QED BY <2>2, <2>3
<1> QED
  BY <1>6, <1>7, <1>8

\* The terms that Balanced adds up.
Terms(s) == [i \in DOMAIN s |-> s[(Len(s) + 1) - i] * WeightFromRight(i)]

\* They are as many integers as the text has digits.
LEMMA TermsOf ==
  ASSUME NEW s \in Seq(Int)
  PROVE  /\ Len(Terms(s)) = Len(s)
         /\ \A i \in 1..Len(s) : /\ Terms(s)[i] = s[(Len(s) + 1) - i] * WeightFromRight(i)
                                 /\ Terms(s)[i] \in Int
<1> DEFINE N == Len(s)
<1>1. N \in Nat /\ DOMAIN s = 1..N /\ \A i \in 1..N : s[i] \in Int
  OBVIOUS
<1>2. \A i \in 1..N : (N + 1) - i \in 1..N
  BY <1>1
<1>3. \A i \in 1..N : WeightFromRight(i) \in Int
  <2>1. \A i \in 1..N : i \in Nat \ {0}
    BY <1>1
  <2>2. \A i \in 1..N : WeightFromRight(i) \in {1, 3, 7}
    BY <2>1, Weights
  <2> QED BY <2>2
<1>4. \A i \in 1..N : s[(N + 1) - i] * WeightFromRight(i) \in Int
  BY <1>1, <1>2, <1>3
<1>5. Terms(s) = [i \in 1..N |-> s[(N + 1) - i] * WeightFromRight(i)]
  BY <1>1 DEF Terms
<1>6. Terms(s) \in Seq(Int)
  BY <1>1, <1>4, <1>5
<1> QED
  BY <1>1, <1>4, <1>5, <1>6

\* A Finnish reference passes if and only if it is one by its standard
\* (_finnish_reference, _finnish_check_digit).
LEMMA FinnishPasses ==
  ASSUME NEW s \in Seq(Int), AllDigits(s), Len(s) \in 4..20
  PROVE  _finnish_reference(s) <=> Balanced(s)
<1> DEFINE N == Len(s)
           body == SubSeq(s, 1, N - 1)
           v == [i \in DOMAIN reversed(body) |-> reversed(body)[i] * FI_WEIGHTS[((i - 1) % 3) + 1]]
           M == N - 1
           u == Terms(s)
<1>1. N \in Nat /\ M \in Nat /\ N = M + 1 /\ N \in 4..20 /\ DOMAIN s = 1..N /\ \A i \in 1..N : s[i] \in Int
  <2>1. N \in 4..20 /\ DOMAIN s = 1..N /\ \A i \in 1..N : s[i] \in Int
    OBVIOUS
  <2> HIDE DEF N
  <2>2. N \in Nat /\ M \in Nat /\ N = M + 1
    BY <2>1
  <2> QED BY <2>1, <2>2
<1>2. body \in Seq(Int) /\ Len(body) = M /\ \A i \in 1..M : body[i] = s[i]
  BY <1>1
<1>3. reversed(body) = [i \in 1..M |-> body[(M + 1) - i]]
  <2> HIDE DEF body, M, N
  <2>1. DOMAIN body = 1..M
    BY <1>1, <1>2
  <2> QED BY <1>2, <2>1 DEF reversed
<1>4. v = [i \in 1..M |-> s[(M + 1) - i] * FI_WEIGHTS[((i - 1) % 3) + 1]]
  <2>1. DOMAIN reversed(body) = 1..M
    BY <1>3
  <2>2. \A i \in 1..M : (M + 1) - i \in 1..M
    BY <1>1
  <2>3. \A i \in 1..M : reversed(body)[i] = s[(M + 1) - i]
    BY <1>2, <1>3, <2>2, Zenon
  <2> QED BY <2>1, <2>3, Zenon
<1> HIDE DEF v, body, u, M, N
<1>5. Len(u) = M + 1 /\ \A i \in 1..(M + 1) : u[i] \in Int /\ u[i] = s[(N + 1) - i] * WeightFromRight(i)
  BY <1>1, TermsOf, Zenon DEF u, N
<1>6. \A i \in 1..M : v[i] = u[i + 1]
  <2> SUFFICES ASSUME NEW i \in 1..M PROVE v[i] = u[i + 1]
    OBVIOUS
  <2>1. i \in Nat \ {0} /\ i + 1 \in 1..(M + 1) /\ (N + 1) - (i + 1) = (M + 1) - i
    BY <1>1
  <2>2. WeightFromRight(i + 1) = FI_WEIGHTS[((i - 1) % 3) + 1]
    BY <2>1, Weights
  <2>3. u[i + 1] = s[(N + 1) - (i + 1)] * WeightFromRight(i + 1)
    BY <1>5, <2>1
  <2>4. v[i] = s[(M + 1) - i] * FI_WEIGHTS[((i - 1) % 3) + 1]
    BY <1>4
  <2> QED BY <2>1, <2>2, <2>3, <2>4
<1>7. Len(v) = M
  <2>1. v = [i \in 1..M |-> u[i + 1]]
    BY <1>4, <1>6
  <2>2. v \in Seq(Int)
    BY <1>1, <1>5, <2>1
  <2> QED BY <1>1, <2>1, <2>2
<1>8. SumOf(v) \in Int /\ SumOf(u) = u[1] + SumOf(v)
  BY <1>1, <1>5, <1>6, <1>7, SumShift, Zenon
<1>9. u[1] = s[N] /\ s[N] \in 0..9
  <2>1. WeightFromRight(1) = 1 /\ 1 \in 1..(M + 1) /\ (N + 1) - 1 = N /\ s[N] \in Int
    BY <1>1 DEF WeightFromRight
  <2>2. s[N] \in 0..9
    BY <1>1, SMTT(60) DEF AllDigits, isDigit
  <2>3. u[1] = s[(N + 1) - 1] * WeightFromRight(1)
    BY <1>5, <2>1
  <2> QED BY <2>1, <2>2, <2>3
<1>10. Balanced(s) <=> SumOf(u) % 10 = 0
  BY DEF Balanced, u, Terms
<1>11. _finnish_reference(s) <=> s[N] = (10 - (SumOf(v) % 10)) % 10
  BY <1>1 DEF _finnish_reference, _finnish_check_digit, Weighted, v, body, N
<1>12. \A c \in 0..9, x \in Int : c = (10 - (x % 10)) % 10 <=> (c + x) % 10 = 0
  OBVIOUS
<1>13. s[N] = (10 - (SumOf(v) % 10)) % 10 <=> (s[N] + SumOf(v)) % 10 = 0
  BY <1>8, <1>9, <1>12, Zenon
<1>14. SumOf(u) = s[N] + SumOf(v)
  BY <1>8, <1>9
<1> QED
  BY <1>10, <1>11, <1>13, <1>14

\* A digit changed, its weight prime to ten.
LEMMA OffByTen ==
  ASSUME NEW x \in Int, x % 10 = 0, NEW a \in 0..9, NEW b \in 0..9, NEW c \in {1, 3, 7}, a # b
  PROVE  (x + (b * c - a * c)) % 10 # 0
<1> DEFINE e == b - a
<1>1. e \in -9..9 /\ e # 0
  OBVIOUS
<1>2. CASE c = 1
  <2>1. b * c - a * c = e
    BY <1>2
  <2> HIDE DEF e
  <2> QED BY <1>1, <2>1
<1>3. CASE c = 3
  <2>1. b * c - a * c = 3 * e
    BY <1>3
  <2> HIDE DEF e
  <2> QED BY <1>1, <2>1
<1>4. CASE c = 7
  <2>1. b * c - a * c = 7 * e
    BY <1>4
  <2> HIDE DEF e
  <2> QED BY <1>1, <2>1
<1> QED
  BY <1>2, <1>3, <1>4

\* x is a multiple of ten, and still is with b for a under the weight c and a for
\* b under the next weight, d.
StillTenfold(x, a, b, c, d) ==
    /\ x % 10 = 0 /\ d - c \in {6, -4, -2}
    /\ (x + (a * c - b * c) + (b * d - a * d)) % 10 = 0
FiveApart(a, b) == b - a \in {-5, 5}

\* Two digits exchanged, their weights different and both odd.
LEMMA OffByFive ==
  ASSUME NEW x \in Int, NEW a \in 0..9, NEW b \in 0..9, NEW c \in {1, 3, 7}, NEW d \in {1, 3, 7},
         a # b, StillTenfold(x, a, b, c, d)
  PROVE  FiveApart(a, b)
<1> SUFFICES ASSUME x % 10 = 0, d - c \in {6, -4, -2}, (x + (a * c - b * c) + (b * d - a * d)) % 10 = 0
             PROVE  b - a \in {-5, 5}
  BY DEF StillTenfold, FiveApart
<1> DEFINE e == b - a
<1>1. e \in -9..9 /\ e # 0
  OBVIOUS
<1>2. CASE c = 1 /\ d = 7
  <2>1. x + (a * c - b * c) + (b * d - a * d) = x + 6 * e
    BY <1>2
  <2> HIDE DEF e
  <2>2. e \in {-5, 5}
    BY <1>1, <2>1
  <2> QED BY <2>2 DEF e
<1>3. CASE c = 7 /\ d = 3
  <2>1. x + (a * c - b * c) + (b * d - a * d) = x - 4 * e
    BY <1>3
  <2> HIDE DEF e
  <2>2. e \in {-5, 5}
    BY <1>1, <2>1
  <2> QED BY <2>2 DEF e
<1>4. CASE c = 3 /\ d = 1
  <2>1. x + (a * c - b * c) + (b * d - a * d) = x - 2 * e
    BY <1>4
  <2> HIDE DEF e
  <2>2. e \in {-5, 5}
    BY <1>1, <2>1
  <2> QED BY <2>2 DEF e
<1> QED
  BY <1>2, <1>3, <1>4

\* One digit taken for another changes the sum by no multiple of ten.
LEMMA FinnishMisread ==
  ASSUME NEW s \in Seq(Int), NEW t \in Seq(Int), Balanced(s), NEW j \in 1..Len(s), Mistaken(s, t, j, Len(s))
  PROVE  ~Balanced(t)
<1> SUFFICES ASSUME Len(t) = Len(s), s[j] \in 0..9, t[j] \in 0..9, t[j] # s[j],
                    \A i \in 1..Len(s) : i # j => t[i] = s[i]
             PROVE  ~Balanced(t)
  BY DEF Mistaken
<1> DEFINE N == Len(s)
           k == (N + 1) - j
           u == Terms(s)
           v == Terms(t)
           w == WeightFromRight(k)
<1>1. N \in Nat /\ k \in 1..N /\ (N + 1) - k = j /\ k \in Nat \ {0}
  OBVIOUS
<1>2. \A i \in 1..N : (N + 1) - i \in 1..N /\ (i # k => (N + 1) - i # j)
  OBVIOUS
<1>3. Len(u) = N /\ \A i \in 1..N : u[i] \in Int /\ u[i] = s[(N + 1) - i] * WeightFromRight(i)
  BY TermsOf, Zenon
<1>4. Len(v) = N /\ \A i \in 1..N : v[i] \in Int /\ v[i] = t[(N + 1) - i] * WeightFromRight(i)
  BY TermsOf, Zenon
<1>5. w \in {1, 3, 7}
  BY <1>1, Weights
<1>6. SumOf(u) % 10 = 0 /\ (Balanced(t) <=> SumOf(v) % 10 = 0)
  BY DEF Balanced, Terms
<1> HIDE DEF u, v, k, N
<1>7. \A i \in 1..N : i # k => u[i] = v[i]
  BY <1>2, <1>3, <1>4, Zenon DEF N
<1>8. u[k] = s[j] * w /\ v[k] = t[j] * w
  BY <1>1, <1>3, <1>4, Zenon
<1>9. SumOf(u) \in Int /\ SumOf(v) = SumOf(u) + (v[k] - u[k])
  BY <1>1, <1>3, <1>4, <1>7, SumOneChanged, ZenonT(60)
<1> HIDE DEF w
<1>10. (SumOf(u) + (t[j] * w - s[j] * w)) % 10 # 0
  BY <1>5, <1>6, <1>9, OffByTen, Zenon
<1> QED
  BY <1>6, <1>8, <1>9, <1>10

\* Two neighbours exchanged change it by one only if they differ by five.
LEMMA FinnishExchange ==
  ASSUME NEW s \in Seq(Int), NEW t \in Seq(Int), Balanced(s), Balanced(t),
         NEW j \in 1..Len(s), Exchanged(s, t, j, Len(s))
  PROVE  t[j] - s[j] \in {-5, 5}
<1> SUFFICES ASSUME Len(t) = Len(s), j + 1 \in 1..Len(s), s[j] \in 0..9, s[j + 1] \in 0..9, s[j] # s[j + 1],
                    t[j] = s[j + 1], t[j + 1] = s[j],
                    \A i \in 1..Len(s) : i # j /\ i # j + 1 => t[i] = s[i]
             PROVE  t[j] - s[j] \in {-5, 5}
  BY DEF Exchanged
<1> DEFINE N == Len(s)
           k == N - j
           u == Terms(s)
           v == Terms(t)
           w == WeightFromRight(k)
           z == WeightFromRight(k + 1)
<1>1. N \in Nat /\ k \in 1..N /\ k + 1 \in 1..N /\ (N + 1) - k = j + 1 /\ (N + 1) - (k + 1) = j /\ k \in Nat \ {0}
  OBVIOUS
<1>2. \A i \in 1..N : (N + 1) - i \in 1..N /\ (i # k /\ i # k + 1 => (N + 1) - i # j /\ (N + 1) - i # j + 1)
  OBVIOUS
<1>3. Len(u) = N /\ \A i \in 1..N : u[i] \in Int /\ u[i] = s[(N + 1) - i] * WeightFromRight(i)
  BY TermsOf, Zenon
<1>4. Len(v) = N /\ \A i \in 1..N : v[i] \in Int /\ v[i] = t[(N + 1) - i] * WeightFromRight(i)
  BY TermsOf, Zenon
<1>5. z - w \in {6, -4, -2} /\ w \in {1, 3, 7} /\ z \in {1, 3, 7}
  <2> HIDE DEF k
  <2>1. k + 1 \in Nat \ {0}
    BY <1>1
  <2>2. WeightFromRight(k + 1) \in {1, 3, 7}
    BY <2>1, Weights
  <2>3. WeightFromRight(k) \in {1, 3, 7} /\ WeightFromRight(k + 1) - WeightFromRight(k) \in {6, -4, -2}
    BY <1>1, Weights
  <2> QED BY <2>2, <2>3
<1>6. SumOf(u) % 10 = 0 /\ SumOf(v) % 10 = 0
  BY DEF Balanced, Terms
<1> HIDE DEF u, v, k, N
<1>7. \A i \in 1..N : i # k /\ i # k + 1 => u[i] = v[i]
  <2> SUFFICES ASSUME NEW i \in 1..N, i # k, i # k + 1 PROVE u[i] = v[i]
    BY Zenon
  <2> DEFINE m == (N + 1) - i
  <2>1. m \in 1..Len(s) /\ m # j /\ m # j + 1
    BY <1>2 DEF N
  <2>2. u[i] = s[m] * WeightFromRight(i) /\ v[i] = t[m] * WeightFromRight(i)
    BY <1>3, <1>4
  <2> HIDE DEF m
  <2>3. t[m] = s[m]
    BY <2>1
  <2> QED BY <2>2, <2>3
<1>8. u[k] = s[j + 1] * w /\ v[k] = s[j] * w /\ u[k + 1] = s[j] * z /\ v[k + 1] = s[j + 1] * z
  BY <1>1, <1>3, <1>4, Zenon
<1>9. SumOf(u) \in Int /\ SumOf(v) = SumOf(u) + (v[k] - u[k]) + (v[k + 1] - u[k + 1])
  <2>1. TwoChanged(u, v, k, N)
    BY <1>1, <1>3, <1>4, <1>7, Zenon DEF TwoChanged
  <2> QED BY <1>1, <2>1, SumTwoChanged, ZenonT(60)
<1> HIDE DEF w, z
<1>10. (SumOf(u) + (s[j] * w - s[j + 1] * w) + (s[j + 1] * z - s[j] * z)) % 10 = 0
  BY <1>6, <1>8, <1>9
<1> DEFINE a == s[j]
           b == s[j + 1]
           x == SumOf(u)
<1>11. x \in Int /\ a \in 0..9 /\ b \in 0..9 /\ a # b /\ StillTenfold(x, a, b, w, z)
  BY <1>5, <1>6, <1>9, <1>10 DEF StillTenfold
<1>12. t[j] - s[j] = b - a
  OBVIOUS
<1> HIDE DEF a, b, x
<1>13. FiveApart(a, b)
  BY <1>5, <1>11, OffByFive, ZenonT(60)
<1> QED
  BY <1>12, <1>13 DEF FiveApart

-----------------------------------------------------------------------------
\* The terms that Elevenfold and business_id_checksum add up.
IdTerms(s) == [i \in 1..7 |-> s[i] * WEIGHTS[i]]

\* The form of a business id, NNNNNNN-N.
IdForm(s) == /\ s \in Seq(Int) /\ Len(s) = 9 /\ s[8] = Hyphen
             /\ \A i \in 1..9 \ {8} : s[i] \in 0..9

\* They are seven integers.
LEMMA IdTermsOf ==
  ASSUME NEW s, IdForm(s)
  PROVE  /\ Len(IdTerms(s)) = 7
         /\ \A i \in 1..7 : IdTerms(s)[i] = s[i] * WEIGHTS[i] /\ IdTerms(s)[i] \in Int
         /\ SumOf(IdTerms(s)) \in Int
<1> DEFINE u == IdTerms(s)
<1>1. \A i \in 1..7 : s[i] \in Int
  BY DEF IdForm
<1>2. \A i \in 1..7 : WEIGHTS[i] \in Int
  <2>1. \A i \in 1..7 : i = 1 \/ i = 2 \/ i = 3 \/ i = 4 \/ i = 5 \/ i = 6 \/ i = 7
    OBVIOUS
  <2> QED BY <2>1 DEF WEIGHTS
<1>3. \A i \in 1..7 : s[i] * WEIGHTS[i] \in Int
  BY <1>1, <1>2
<1>4. u \in Seq(Int) /\ Len(u) = 7 /\ \A i \in 1..7 : u[i] = s[i] * WEIGHTS[i]
  BY <1>3 DEF IdTerms
<1>5. \A i \in 1..7 : u[i] \in Int
  BY <1>3, <1>4, SMTT(60)
<1> HIDE DEF u
<1>6. /\ SumOf(u) = Partial(u)[Len(u)]
      /\ \A n \in 0..Len(u) : Partial(u)[n] \in Int
  <2>1. Len(u) \in Nat /\ \A i \in 1..Len(u) : u[i] \in Int
    BY <1>4, <1>5
  <2> QED BY <2>1, PartialSums
<1>7. SumOf(u) \in Int
  BY <1>4, <1>6
<1> QED
  BY <1>4, <1>5, <1>7, Zenon DEF u

\* A business id passes if and only if it is one by its standard
\* (business_id_checksum); a body of remainder 1 is nobody's.
LEMMA BusinessIdPasses ==
  ASSUME NEW s, IdForm(s)
  PROVE  /\ business_id_checksum(s) <=> Elevenfold(s)
         /\ Elevenfold(s) <=> (s[9] + SumOf(IdTerms(s))) % 11 = 0
<1> DEFINE x == SumOf(IdTerms(s))
<1>1. x \in Int /\ s[9] \in 0..9
  <2>1. SumOf(IdTerms(s)) \in Int
    BY IdTermsOf
  <2>2. 9 \in 1..9 \ {8}
    OBVIOUS
  <2>3. s[9] \in 0..9
    BY <2>2 DEF IdForm
  <2> QED BY <2>1, <2>3
<1>2. Elevenfold(s) <=> (s[9] + x) % 11 = 0
  BY DEF Elevenfold, IdTerms, WEIGHTS
<1>3. /\ Len(s) = 9 /\ s[8] = Hyphen /\ isDigit(s[9])
      /\ AllDigits(SubSeq(s, 1, 7))
  <2>1. Len(s) = 9 /\ s[8] = Hyphen /\ s \in Seq(Int) /\ \A i \in 1..7 : s[i] \in 0..9
    BY DEF IdForm
  <2>2. DOMAIN SubSeq(s, 1, 7) = 1..7 /\ \A i \in 1..7 : SubSeq(s, 1, 7)[i] = s[i]
    BY <2>1
  <2> QED BY <1>1, <2>1, <2>2 DEF isDigit, AllDigits
<1>4. business_id_checksum(s) <=> x % 11 # 1 /\ s[9] = IF x % 11 = 0 THEN 0 ELSE 11 - (x % 11)
  BY <1>3 DEF business_id_checksum, IdTerms
<1> HIDE DEF x
<1>5. \A c \in 0..9, y \in Int : y % 11 # 1 /\ c = (IF y % 11 = 0 THEN 0 ELSE 11 - (y % 11)) <=> (c + y) % 11 = 0
  <2> SUFFICES ASSUME NEW c \in 0..9, NEW y \in Int
               PROVE  y % 11 # 1 /\ c = (IF y % 11 = 0 THEN 0 ELSE 11 - (y % 11)) <=> (c + y) % 11 = 0
    BY Zenon
  <2>1. CASE y % 11 = 0
    BY <2>1
  <2>2. CASE y % 11 # 0
    BY <2>2
  <2> QED BY <2>1, <2>2
<1>6. x % 11 # 1 /\ s[9] = (IF x % 11 = 0 THEN 0 ELSE 11 - (x % 11)) <=> (s[9] + x) % 11 = 0
  BY <1>1, <1>5
<1> QED
  BY <1>2, <1>4, <1>6 DEF x

\* A multiple of eleven and one that is off it by a digit times a weight.
LEMMA OffByEleven ==
  ASSUME NEW x \in Int, x % 11 = 0, NEW e \in -9..9, e # 0,
         NEW c \in {-3, -2, -1, 1, 2, 4, 5, 7, 8, 9, 10}
  PROVE  (x + e * c) % 11 # 0
<1>1. CASE c = -3
  BY <1>1
<1>2. CASE c = -2
  BY <1>2
<1>3. CASE c = -1
  BY <1>3
<1>4. CASE c = 1
  BY <1>4
<1>5. CASE c = 2
  BY <1>5
<1>6. CASE c = 4
  BY <1>6
<1>7. CASE c = 5
  BY <1>7
<1>8. CASE c = 7
  BY <1>8
<1>9. CASE c = 8
  BY <1>9
<1>10. CASE c = 9
  BY <1>10
<1>11. CASE c = 10
  BY <1>11
<1> QED
  BY <1>1, <1>2, <1>3, <1>4, <1>5, <1>6, <1>7, <1>8, <1>9, <1>10, <1>11

\* One digit of a business id taken for another is caught.
LEMMA BusinessIdMisread ==
  ASSUME NEW s, NEW t, IdForm(s), IdForm(t), Elevenfold(s), NEW j \in 1..9 \ {8}, Mistaken(s, t, j, 9)
  PROVE  ~business_id_checksum(t)
<1> SUFFICES ASSUME t[j] # s[j], \A i \in 1..9 : i # j => t[i] = s[i]
             PROVE  ~business_id_checksum(t)
  BY DEF Mistaken
<1> DEFINE u == IdTerms(s)
           v == IdTerms(t)
           e == t[j] - s[j]
<1>1. s[9] \in Int /\ t[9] \in Int /\ s[j] \in 0..9 /\ t[j] \in 0..9
  BY DEF IdForm
<1>2. e \in -9..9 /\ e # 0
  BY <1>1
<1>3. Len(u) = 7 /\ (\A i \in 1..7 : u[i] = s[i] * WEIGHTS[i] /\ u[i] \in Int) /\ SumOf(u) \in Int
  BY IdTermsOf
<1>4. Len(v) = 7 /\ (\A i \in 1..7 : v[i] = t[i] * WEIGHTS[i] /\ v[i] \in Int) /\ SumOf(v) \in Int
  BY IdTermsOf
<1>5. (s[9] + SumOf(u)) % 11 = 0
  BY BusinessIdPasses
<1>6. business_id_checksum(t) <=> (t[9] + SumOf(v)) % 11 = 0
  BY BusinessIdPasses
<1> HIDE DEF u, v, e
<1>7. CASE j = 9
  <2>1. u = v
    <3>1. \A i \in 1..7 : s[i] = t[i]
      BY <1>7
    <3> QED BY <3>1 DEF u, v, IdTerms
  <2>2. t[9] + SumOf(v) = (s[9] + SumOf(u)) + e * 1
    BY <1>1, <1>3, <1>7, <2>1 DEF e
  <2> DEFINE x == s[9] + SumOf(u)
  <2>3. x \in Int /\ x % 11 = 0
    BY <1>1, <1>3, <1>5
  <2> HIDE DEF x
  <2>4. (x + e * 1) % 11 # 0
    BY <1>2, <2>3, OffByEleven
  <2> QED BY <1>6, <2>2, <2>4 DEF x
<1>8. CASE j \in 1..7
  <2> DEFINE c == WEIGHTS[j]
             x == s[9] + SumOf(u)
  <2>1. c \in {2, 4, 5, 7, 8, 9, 10}
    <3>1. j = 1 \/ j = 2 \/ j = 3 \/ j = 4 \/ j = 5 \/ j = 6 \/ j = 7
      BY <1>8
    <3> QED BY <3>1 DEF WEIGHTS
  <2>2. \A i \in 1..7 : i # j => u[i] = v[i]
    BY <1>3, <1>4
  <2>3. SumOf(v) = SumOf(u) + (v[j] - u[j])
    <3> DEFINE n == 7
               k == j
    <3>1. n \in Nat /\ Len(u) = n /\ Len(v) = n /\ k \in 1..n /\ \A i \in 1..n : u[i] \in Int /\ v[i] \in Int
      BY <1>3, <1>4, <1>8
    <3>2. \A i \in 1..n : i # k => u[i] = v[i]
      BY <2>2
    <3> HIDE DEF n, k, c, x
    <3>3. SumOf(v) = SumOf(u) + (v[k] - u[k])
      BY ONLY <3>1, <3>2, SumOneChanged, Zenon
    <3> QED BY <3>3 DEF k
  <2>4. u[j] = s[j] * c /\ v[j] = t[j] * c
    BY <1>3, <1>4, <1>8
  <2>5. t[9] = s[9]
    BY <1>8
  <2>6. x \in Int /\ x % 11 = 0
    BY <1>1, <1>3, <1>5
  <2> HIDE DEF c
  <2>7. v[j] - u[j] = e * c
    BY <1>1, <2>1, <2>4 DEF e
  <2>8. t[9] + SumOf(v) = x + e * c
    BY <1>1, <1>3, <1>2, <2>1, <2>3, <2>5, <2>7
  <2> HIDE DEF x
  <2>9. (x + e * c) % 11 # 0
    BY <1>2, <2>1, <2>6, OffByEleven
  <2> QED BY <1>6, <2>8, <2>9
<1> QED
  BY <1>7, <1>8

\* Two neighbouring digits of a business id exchanged are caught: no two
\* neighbouring weights are alike.
LEMMA BusinessIdExchange ==
  ASSUME NEW s, NEW t, IdForm(s), IdForm(t), Elevenfold(s), NEW j \in 1..6, Exchanged(s, t, j, 9)
  PROVE  ~business_id_checksum(t)
<1> SUFFICES ASSUME s[j] # s[j + 1], t[j] = s[j + 1], t[j + 1] = s[j],
                    \A i \in 1..9 : i # j /\ i # j + 1 => t[i] = s[i]
             PROVE  ~business_id_checksum(t)
  BY DEF Exchanged
<1> DEFINE u == IdTerms(s)
           v == IdTerms(t)
           e == s[j + 1] - s[j]
           c == WEIGHTS[j]
           d == WEIGHTS[j + 1]
           x == s[9] + SumOf(u)
<1>1. s[9] \in Int /\ s[j] \in 0..9 /\ s[j + 1] \in 0..9 /\ t[9] = s[9]
  BY DEF IdForm
<1>2. e \in -9..9 /\ e # 0
  BY <1>1
<1>3. Len(u) = 7 /\ (\A i \in 1..7 : u[i] = s[i] * WEIGHTS[i] /\ u[i] \in Int) /\ SumOf(u) \in Int
  BY IdTermsOf
<1>4. Len(v) = 7 /\ (\A i \in 1..7 : v[i] = t[i] * WEIGHTS[i] /\ v[i] \in Int) /\ SumOf(v) \in Int
  BY IdTermsOf
<1>5. x % 11 = 0
  BY BusinessIdPasses
<1>6. business_id_checksum(t) <=> (t[9] + SumOf(v)) % 11 = 0
  BY BusinessIdPasses
<1>7. c \in Int /\ d \in Int /\ c - d \in {-3, -2, -1, 2, 4, 5}
  <2>1. j = 1 \/ j = 2 \/ j = 3 \/ j = 4 \/ j = 5 \/ j = 6
    OBVIOUS
  <2> QED BY <2>1 DEF WEIGHTS
<1> HIDE DEF u, v, e, c, d
<1>8. \A i \in 1..7 : i # j /\ i # j + 1 => u[i] = v[i]
  BY <1>3, <1>4
<1>9. SumOf(v) = SumOf(u) + (v[j] - u[j]) + (v[j + 1] - u[j + 1])
  <2> DEFINE n == 7
  <2>1. /\ n \in Nat /\ Len(u) = n /\ Len(v) = n /\ j \in 1..n /\ j + 1 \in 1..n
        /\ \A i \in 1..n : u[i] \in Int /\ v[i] \in Int
    BY <1>3, <1>4
  <2>2. \A i \in 1..n : i # j /\ i # j + 1 => u[i] = v[i]
    BY <1>8
  <2> HIDE DEF n
  <2>3. TwoChanged(u, v, j, n)
    BY <2>1, <2>2 DEF TwoChanged
  <2> QED BY <2>1, <2>3, SumTwoChanged, Zenon
<1>10. /\ u[j] = s[j] * c /\ v[j] = s[j + 1] * c
       /\ u[j + 1] = s[j + 1] * d /\ v[j + 1] = s[j] * d
  BY <1>3, <1>4 DEF c, d
<1>11. (v[j] - u[j]) + (v[j + 1] - u[j + 1]) = e * (c - d)
  <2>1. \A a, b, p, q \in Int : (b * p - a * p) + (a * q - b * q) = (b - a) * (p - q)
    OBVIOUS
  <2>2. s[j] \in Int /\ s[j + 1] \in Int
    BY <1>1
  <2>3. (s[j + 1] * c - s[j] * c) + (s[j] * d - s[j + 1] * d) = (s[j + 1] - s[j]) * (c - d)
    BY <1>7, <2>1, <2>2
  <2> QED BY <1>10, <2>3 DEF e
<1>12. u[j] \in Int /\ v[j] \in Int /\ u[j + 1] \in Int /\ v[j + 1] \in Int
  BY <1>3, <1>4
<1>13. t[9] + SumOf(v) = x + e * (c - d)
  <2>1. SumOf(v) = SumOf(u) + e * (c - d)
    BY <1>3, <1>9, <1>11, <1>12
  <2>2. e * (c - d) \in Int
    BY <1>2, <1>7
  <2> QED BY <1>1, <1>3, <2>1, <2>2
<1>14. x \in Int
  BY <1>1, <1>3
<1> DEFINE f == c - d
<1> HIDE DEF x, f
<1>15. f \in {-3, -2, -1, 1, 2, 4, 5, 7, 8, 9, 10}
  BY <1>7 DEF f
<1>16. (x + e * f) % 11 # 0
  BY <1>2, <1>5, <1>14, <1>15, OffByEleven, Zenon
<1> QED
  BY <1>6, <1>13, <1>16 DEF f

-----------------------------------------------------------------------------
\* By what the number so far is multiplied when character c is spelt out.
Shift(c) == IF isDigit(c) THEN 10 ELSE 100

\* The remainder r after one more character.
SpeltOn(r, c) == (r * Shift(c) + c) % 97

\* It is a remainder again.
LEMMA SpeltOnStays ==
  ASSUME NEW r \in 0..96, NEW c \in Int
  PROVE  SpeltOn(r, c) \in 0..96
<1>1. CASE isDigit(c)
  <2>1. SpeltOn(r, c) = (r * 10 + c) % 97
    BY <1>1 DEF SpeltOn, Shift
  <2> QED BY <2>1
<1>2. CASE ~isDigit(c)
  <2>1. SpeltOn(r, c) = (r * 100 + c) % 97
    BY <1>2 DEF SpeltOn, Shift
  <2> QED BY <2>1
<1> QED
  BY <1>1, <1>2

\* f has the remainders of the numbers that the first characters of s spell.
Steps(f, s) ==
    /\ f[0] = 0
    /\ \A n \in 1..Len(s) : f[n] = SpeltOn(f[n - 1], s[n])
    /\ \A n \in 0..Len(s) : f[n] \in 0..96

\* The remainders that the loop of remainder goes through.
After(chars) ==
    LET after[n \in 0..Len(chars)] ==
            IF n = 0 THEN 0 ELSE (after[n - 1] * (IF isDigit(chars[n]) THEN 10 ELSE 100) + chars[n]) % 97
    IN  after

\* The last of them is remainder.
LEMMA Remainders ==
  ASSUME NEW s, Len(s) \in Nat, \A i \in 1..Len(s) : s[i] \in Int
  PROVE  remainder(s) = After(s)[Len(s)] /\ Steps(After(s), s)
<1> DEFINE N == Len(s)
           step == [p \in (1..N) \X (0..96) |-> SpeltOn(p[2], s[p[1]])]
<1>1. \A r \in 0..96, n \in 1..N : SpeltOn(r, s[n]) \in 0..96
  BY SpeltOnStays, Zenon
<1>2. PICK g \in [0..N -> 0..96] : g[0] = 0 /\ \A n \in 1..N : g[n] = step[<<n, g[n - 1]>>]
  <2> DEFINE V == 0..96
  <2>1. step \in [(1..N) \X V -> V] /\ 0 \in V
    <3>1. \A r \in V, n \in 1..N : SpeltOn(r, s[n]) \in V
      BY <1>1, Zenon
    <3>2. 0 \in V
      OBVIOUS
    <3> HIDE DEF V
    <3>3. \A p \in (1..N) \X V : SpeltOn(p[2], s[p[1]]) \in V
      BY <3>1
    <3>4. step = [p \in (1..N) \X V |-> SpeltOn(p[2], s[p[1]])]
      BY DEF V
    <3> HIDE DEF step
    <3> QED BY <3>2, <3>3, <3>4
  <2> HIDE DEF step, N, V
  <2>2. N \in Nat
    BY DEF N
  <2>3. HasRun(N, V, 0, step)
    BY <2>1, <2>2, LoopHasValue, ZenonT(60) DEF V
  <2> QED BY <2>3, Zenon DEF HasRun, V
<1>3. \A n \in 1..N : g[n] = SpeltOn(g[n - 1], s[n])
  <2> SUFFICES ASSUME NEW n \in 1..N PROVE g[n] = SpeltOn(g[n - 1], s[n])
    OBVIOUS
  <2>1. n - 1 \in 0..N /\ g[n - 1] \in 0..96
    <3> HIDE DEF step, N
    <3>1. n - 1 \in 0..N
      BY DEF N
    <3> QED BY <1>2, <3>1
  <2>2. <<n, g[n - 1]>> \in (1..N) \X (0..96)
    BY <2>1
  <2>3. step[<<n, g[n - 1]>>] = SpeltOn(g[n - 1], s[n])
    BY <2>2
  <2> HIDE DEF step
  <2> QED BY <1>2, <2>3
<1> DEFINE body(f) == [n \in 0..N |-> IF n = 0 THEN 0 ELSE (f[n - 1] * (IF isDigit(s[n]) THEN 10 ELSE 100) + s[n]) % 97]
           P == After(s)
<1>4. g = body(g)
  BY <1>2, <1>3 DEF SpeltOn, Shift
<1>5. P = body(P)
  <2> HIDE DEF step
  <2> QED BY <1>4, ZenonT(60) DEF After
<1>6. remainder(s) = P[N]
  BY DEF remainder, After
<1> HIDE DEF P
<1>7. P[0] = 0 /\ \A n \in 1..N : P[n] = SpeltOn(P[n - 1], s[n])
  BY <1>5 DEF SpeltOn, Shift
<1>8. \A n \in 0..N : P[n] \in 0..96
  <2> DEFINE T == {n \in 0..N : P[n] \in 0..96}
  <2>1. 0 \in T
    BY <1>7
  <2>2. ASSUME NEW n \in 1..N, n - 1 \in T PROVE n \in T
    <3>1. P[n - 1] \in 0..96 /\ P[n] = SpeltOn(P[n - 1], s[n])
      BY <1>7, <2>2, SMTT(60)
    <3>2. SpeltOn(P[n - 1], s[n]) \in 0..96
      BY <1>1, <3>1, Zenon
    <3> QED BY <3>1, <3>2
  <2>3. \A n \in 0..N : n \in T
    <3> HIDE DEF T
    <3> QED BY <2>1, <2>2, Induct, Zenon
  <2> QED BY <2>3
<1> QED
  BY <1>6, <1>7, <1>8 DEF P, Steps

\* s and t have the same at every place from m to n.
Alike(s, t, m, n) == \A i \in m..n : s[i] = t[i]

\* Where two texts agree from the start, so do their remainders.
LEMMA StepsAgree ==
  ASSUME NEW s, NEW t, NEW f, NEW g, Steps(f, s), Steps(g, t), Len(s) \in Nat, Len(t) \in Nat,
         NEW m \in Nat, m <= Len(s), m <= Len(t), Alike(s, t, 1, m)
  PROVE  Alike(f, g, 0, m)
<1> DEFINE T == {n \in 0..m : f[n] = g[n]}
<1>1. 0 \in T
  BY DEF Steps
<1>2. ASSUME NEW n \in 1..m, n - 1 \in T PROVE n \in T
  <2>1. n \in 1..Len(s) /\ n \in 1..Len(t) /\ s[n] = t[n]
    BY DEF Alike
  <2>2. f[n] = SpeltOn(f[n - 1], s[n]) /\ g[n] = SpeltOn(g[n - 1], t[n])
    BY <2>1 DEF Steps
  <2>3. f[n - 1] = g[n - 1]
    BY <1>2
  <2>4. f[n] = g[n]
    BY <2>1, <2>2, <2>3
  <2> QED BY <2>4
<1>3. \A n \in 0..m : n \in T
  <2> HIDE DEF T
  <2> QED BY <1>1, <1>2, Induct, Zenon
<1> QED
  BY <1>3 DEF Alike

\* 10 and 100 are prime to 97: the same character keeps different remainders apart.
LEMMA SpeltOnApart ==
  ASSUME NEW r \in 0..96, NEW q \in 0..96, NEW c \in Int, r # q
  PROVE  SpeltOn(r, c) # SpeltOn(q, c)
<1>1. CASE isDigit(c)
  <2>1. SpeltOn(r, c) = (r * 10 + c) % 97 /\ SpeltOn(q, c) = (q * 10 + c) % 97
    BY <1>1 DEF SpeltOn, Shift
  <2> QED BY <2>1
<1>2. CASE ~isDigit(c)
  <2>1. SpeltOn(r, c) = (r * 100 + c) % 97 /\ SpeltOn(q, c) = (q * 100 + c) % 97
    BY <1>2 DEF SpeltOn, Shift
  <2> QED BY <2>1
<1> QED
  BY <1>1, <1>2

\* Once apart, the remainders of two texts stay apart while their characters agree.
LEMMA StepsApart ==
  ASSUME NEW s, NEW t, NEW f, NEW g, Steps(f, s), Steps(g, t), NEW N \in Nat, Len(s) = N, Len(t) = N,
         \A i \in 1..N : s[i] \in Int,
         NEW m \in 0..N, f[m] # g[m], Alike(s, t, m + 1, N)
  PROVE  f[N] # g[N]
<1> DEFINE T == {n \in 0..N : n >= m => f[n] # g[n]}
<1>1. 0 \in T
  BY SMTT(60)
<1>2. ASSUME NEW n \in 1..N, n - 1 \in T PROVE n \in T
  <2> SUFFICES ASSUME n > m PROVE f[n] # g[n]
    OBVIOUS
  <2>1. n \in 1..Len(s) /\ n \in 1..Len(t) /\ s[n] = t[n] /\ s[n] \in Int
    BY DEF Alike
  <2>2. f[n] = SpeltOn(f[n - 1], s[n]) /\ g[n] = SpeltOn(g[n - 1], s[n])
    BY <2>1 DEF Steps
  <2>3. f[n - 1] # g[n - 1]
    BY <1>2
  <2>4. f[n - 1] \in 0..96 /\ g[n - 1] \in 0..96
    <3>1. n - 1 \in 0..Len(s) /\ n - 1 \in 0..Len(t)
      OBVIOUS
    <3> QED BY <3>1 DEF Steps
  <2> QED BY <2>1, <2>2, <2>3, <2>4, SpeltOnApart, Zenon
<1>3. \A n \in 0..N : n \in T
  <2> HIDE DEF T
  <2> QED BY <1>1, <1>2, Induct, Zenon
<1>4. N \in T
  BY <1>3
<1> QED
  BY <1>4

\* Different digits after the same text give different remainders.
LEMMA DigitsApart ==
  ASSUME NEW r \in 0..96, NEW a \in 0..9, NEW b \in 0..9, a # b
  PROVE  /\ SpeltOn(r, a) # SpeltOn(r, b)
         /\ SpeltOn(SpeltOn(r, a), b) # SpeltOn(SpeltOn(r, b), a)
<1>1. \A q \in 0..96, c \in 0..9 : SpeltOn(q, c) = (q * 10 + c) % 97
  BY DEF SpeltOn, Shift, isDigit
<1>2. SpeltOn(r, a) # SpeltOn(r, b)
  BY <1>1
<1> DEFINE x == (r * 10 + a) % 97
           y == (r * 10 + b) % 97
<1>3. x \in 0..96 /\ y \in 0..96
  OBVIOUS
<1>4. (x * 10 + b) % 97 # (y * 10 + a) % 97
  OBVIOUS
<1>5. SpeltOn(r, a) = x /\ SpeltOn(r, b) = y
  BY <1>1, Zenon
<1> HIDE DEF x, y
<1>6. SpeltOn(x, b) = (x * 10 + b) % 97 /\ SpeltOn(y, a) = (y * 10 + a) % 97
  BY <1>1, <1>3, Zenon
<1> QED
  BY <1>2, <1>4, <1>5, <1>6

\* One digit changed anywhere in a text changes the remainder.
LEMMA OneDigitTells ==
  ASSUME NEW s, NEW t, NEW N \in Nat, Len(s) = N, Len(t) = N,
         \A i \in 1..N : s[i] \in Int /\ t[i] \in Int,
         NEW j \in 1..N, s[j] \in 0..9, t[j] \in 0..9, s[j] # t[j], \A i \in 1..N : i # j => s[i] = t[i]
  PROVE  remainder(s) # remainder(t)
<1> DEFINE f == After(s)
           g == After(t)
<1>1. remainder(s) = f[N] /\ Steps(f, s) /\ remainder(t) = g[N] /\ Steps(g, t)
  BY Remainders
<1> HIDE DEF f, g
<1>2. f[j - 1] = g[j - 1] /\ f[j - 1] \in 0..96
  <2> DEFINE m == j - 1
  <2>1. m \in Nat /\ m <= Len(s) /\ m <= Len(t) /\ Alike(s, t, 1, m) /\ Len(s) \in Nat /\ Len(t) \in Nat
    BY DEF Alike
  <2>2. m \in 0..m /\ m \in 0..Len(s)
    OBVIOUS
  <2> HIDE DEF m
  <2>3. Alike(f, g, 0, m)
    BY <1>1, <2>1, StepsAgree
  <2>4. f[m] \in 0..96
    BY <1>1, <2>2 DEF Steps
  <2> QED BY <2>2, <2>3, <2>4 DEF m, Alike
<1>3. f[j] = SpeltOn(f[j - 1], s[j]) /\ g[j] = SpeltOn(g[j - 1], t[j])
  BY <1>1, SMTT(60) DEF Steps
<1>4. f[j] # g[j]
  BY <1>2, <1>3, DigitsApart, ZenonT(60)
<1>5. Alike(s, t, j + 1, N)
  BY DEF Alike
<1>6. j \in 0..N
  OBVIOUS
<1>7. f[N] # g[N]
  BY <1>1, <1>4, <1>5, <1>6, StepsApart
<1> QED
  BY <1>1, <1>7

\* So do two neighbouring digits exchanged.
LEMMA ExchangeTells ==
  ASSUME NEW s, NEW t, NEW N \in Nat, NEW j \in 1..N, Exchanged(s, t, j, N)
  PROVE  remainder(s) # remainder(t)
<1> SUFFICES ASSUME Len(s) = N, Len(t) = N, \A i \in 1..N : s[i] \in Int /\ t[i] \in Int,
                    j + 1 \in 1..N, s[j] \in 0..9, s[j + 1] \in 0..9, s[j] # s[j + 1],
                    t[j] = s[j + 1], t[j + 1] = s[j], \A i \in 1..N : i # j /\ i # j + 1 => s[i] = t[i]
             PROVE  remainder(s) # remainder(t)
  BY DEF Exchanged
<1> DEFINE f == After(s)
           g == After(t)
           k == j + 1
<1>1. remainder(s) = f[N] /\ Steps(f, s) /\ remainder(t) = g[N] /\ Steps(g, t)
  BY Remainders, SMTT(60)
<1> HIDE DEF f, g
<1>2. f[j - 1] = g[j - 1] /\ f[j - 1] \in 0..96
  <2> DEFINE m == j - 1
  <2>1. m \in Nat /\ m <= Len(s) /\ m <= Len(t) /\ Alike(s, t, 1, m) /\ Len(s) \in Nat /\ Len(t) \in Nat
    BY DEF Alike
  <2>2. m \in 0..m /\ m \in 0..Len(s)
    OBVIOUS
  <2> HIDE DEF m
  <2>3. Alike(f, g, 0, m)
    BY <1>1, <2>1, StepsAgree, Zenon
  <2>4. f[m] \in 0..96
    BY <1>1, <2>2 DEF Steps
  <2> QED BY <2>2, <2>3, <2>4 DEF m, Alike
<1>3. f[j] = SpeltOn(f[j - 1], s[j]) /\ g[j] = SpeltOn(g[j - 1], t[j])
  BY <1>1 DEF Steps
<1>4. k \in 1..N /\ k - 1 = j /\ k \in 0..N
  OBVIOUS
<1>5. f[k] = SpeltOn(f[j], s[k]) /\ g[k] = SpeltOn(g[j], t[k])
  <2> HIDE DEF k
  <2>1. f[k] = SpeltOn(f[k - 1], s[k]) /\ g[k] = SpeltOn(g[k - 1], t[k])
    BY <1>1, <1>4 DEF Steps
  <2> QED BY <1>4, <2>1, Zenon
<1>6. f[k] # g[k]
  <2> DEFINE r == f[j - 1]
             a == s[j]
             b == s[k]
  <2>1. r \in 0..96 /\ a \in 0..9 /\ b \in 0..9 /\ a # b
    BY <1>2
  <2>2. f[k] = SpeltOn(SpeltOn(r, a), b) /\ g[k] = SpeltOn(SpeltOn(r, b), a)
    BY <1>2, <1>3, <1>5, SMTT(60)
  <2> HIDE DEF r, a, b
  <2>3. SpeltOn(SpeltOn(r, a), b) # SpeltOn(SpeltOn(r, b), a)
    BY <2>1, DigitsApart, Zenon
  <2> QED BY <2>2, <2>3
<1>7. Alike(s, t, k + 1, N)
  BY DEF Alike
<1> HIDE DEF k
<1>8. f[N] # g[N]
  <2>1. \A i \in 1..N : s[i] \in Int
    OBVIOUS
  <2> QED BY <1>1, <1>4, <1>6, <1>7, <2>1, StepsApart, SMTT(60)
<1> QED
  BY <1>1, <1>8

-----------------------------------------------------------------------------
\* 100 * k + p for every k up to 66, where p is the remainder of 10^k: the longest
\* number, spelt out, has fewer digits than it takes for that to be 1 again.
PowersOfTen ==
    {1, 110, 203, 330, 409, 590, 627, 776, 881, 934, 1049, 1105,
     1250, 1315, 1453, 1545, 1662, 1738, 1889, 1917, 2073, 2151, 2225, 2356,
     2475, 2571, 2631, 2719, 2893, 2957, 3085, 3174, 3261, 3328, 3486, 3584,
     3664, 3758, 3895, 3977, 4091, 4137, 4279, 4314, 4443, 4542, 4632, 4729,
     4896, 4987, 5094, 5167, 5288, 5307, 5470, 5521, 5616, 5763, 5848, 5992,
     6047, 6182, 6244, 6352, 6435, 6559, 6608}

\* p is the remainder of 10^k.
Power(k, p) == k \in 0..66 /\ p \in 0..96 /\ 100 * k + p \in PowersOfTen

\* The remainder r after one more decimal digit c.
Ten(r, c) == (r * 10 + c) % 97

\* The table goes on by a step.
LEMMA PowerStep ==
  ASSUME NEW k \in 0..65, NEW p \in 0..96, Power(k, p)
  PROVE  Ten(p, 0) \in 0..96 /\ Power(k + 1, Ten(p, 0))
<1>1. 100 * (k + 1) + ((p * 10) % 97) \in PowersOfTen
  BY SMT DEF Power, PowersOfTen
<1>2. k + 1 \in 0..66 /\ Ten(p, 0) \in 0..96 /\ Ten(p, 0) = (p * 10) % 97
  BY DEF Ten
<1> QED
  BY <1>1, <1>2 DEF Power

\* 1 is not in it again.
LEMMA PowerApart ==
  ASSUME NEW k \in 1..66, NEW p \in 0..96, Power(k, p)
  PROVE  p \in 2..96
BY SMT DEF Power, PowersOfTen

\* r - q is p * e, multiples of 97 left out.
Off(r, q, p, e) == ((r - q) - p * e) % 97 = 0

\* The remainders r and q differ by e times a power of ten, up to the K-th.
Apart(r, q, e, K) == \E k \in 0..K : \E p \in 0..96 : Power(k, p) /\ Off(r, q, p, e)

\* 97 is prime: it divides no product of smaller numbers, here one of a digit's size.
LEMMA PrimeTo97 ==
  ASSUME NEW f \in 1..95, NEW e \in -9..9, e # 0
  PROVE  (f * e) % 97 # 0
<1>1. \A d \in 1..9 : (f * d) % 97 # 0
  <2> SUFFICES ASSUME NEW d \in 1..9 PROVE (f * d) % 97 # 0
    OBVIOUS
  <2>1. d = 1 \/ d = 2 \/ d = 3 \/ d = 4 \/ d = 5 \/ d = 6 \/ d = 7 \/ d = 8 \/ d = 9
    OBVIOUS
  <2> QED BY <2>1
<1>2. CASE e > 0
  BY <1>1, <1>2
<1>3. CASE e < 0
  <2> DEFINE d == 0 - e
             x == f * d
  <2>1. d \in 1..9 /\ f * e = 0 - x /\ x \in Int
    BY <1>3
  <2>2. x % 97 # 0
    BY <1>1, <2>1
  <2> HIDE DEF x
  <2>3. (0 - x) % 97 # 0
    BY <2>1, <2>2
  <2> QED BY <2>1, <2>3
<1> QED
  BY <1>2, <1>3

\* Two differences that are alike up to a multiple of 97 are so still tenfold.
LEMMA Tenfold ==
  ASSUME NEW r \in 0..96, NEW q \in 0..96, NEW e \in Int, NEW c \in Int, NEW p \in 0..96, Off(r, q, p, e)
  PROVE  Off(Ten(r, c), Ten(q, c), Ten(p, 0), e)
<1> DEFINE h == (p * 10) \div 97
           w == p * e
           z == h * e
           y == ((p * 10) % 97) * e
<1>1. h \in Int /\ (p * 10) % 97 = p * 10 - 97 * h /\ (p * 10) % 97 \in Int
  OBVIOUS
<1>2. \A a, b \in Int : (a * 10 - 97 * b) * e = 10 * (a * e) - 97 * (b * e)
  OBVIOUS
<1> HIDE DEF h
<1>3. y = 10 * w - 97 * z
  BY <1>1, <1>2
<1>4. w \in Int /\ z \in Int /\ y \in Int
  BY <1>1
<1> HIDE DEF w, z, y
<1>5. ((r - q) - w) % 97 = 0
  BY DEF w, Off
<1>6. ((((r * 10 + c) % 97) - ((q * 10 + c) % 97)) - y) % 97 = 0
  BY <1>3, <1>4, <1>5
<1>7. Ten(p, 0) = (p * 10) % 97
  BY DEF Ten
<1> QED
  BY <1>6, <1>7 DEF y, Off, Ten

\* One more digit of both texts takes the power one further.
LEMMA ApartTen ==
  ASSUME NEW r \in 0..96, NEW q \in 0..96, NEW e \in Int, NEW c \in Int, NEW K \in 0..65, Apart(r, q, e, K)
  PROVE  Apart(Ten(r, c), Ten(q, c), e, K + 1)
<1>1. PICK k \in 0..K : \E p \in 0..96 : Power(k, p) /\ Off(r, q, p, e)
  BY Zenon DEF Apart
<1>2. PICK p \in 0..96 : Power(k, p) /\ Off(r, q, p, e)
  BY <1>1
<1>3. k \in 0..65 /\ k + 1 \in 0..(K + 1)
  OBVIOUS
<1>4. Ten(p, 0) \in 0..96 /\ Power(k + 1, Ten(p, 0))
  BY <1>2, <1>3, PowerStep, ZenonT(60)
<1>5. Off(Ten(r, c), Ten(q, c), Ten(p, 0), e)
  BY <1>2, Tenfold, Zenon
<1> QED
  BY <1>3, <1>4, <1>5 DEF Apart

\* One more character of both texts takes it one or two further.
LEMMA ApartStep ==
  ASSUME NEW r \in 0..96, NEW q \in 0..96, NEW e \in Int, NEW c \in Int, NEW K \in 0..64, Apart(r, q, e, K)
  PROVE  Apart(SpeltOn(r, c), SpeltOn(q, c), e, K + 2)
<1> DEFINE L == K + 1
<1>1. L \in 0..65 /\ L + 1 = K + 2 /\ K \in 0..65 /\ 0 \in Int
  BY SMTT(60)
<1> HIDE DEF L
<1>2. \A d \in Int : Apart(Ten(r, d), Ten(q, d), e, L)
  BY <1>1, ApartTen, Zenon DEF L
<1>3. CASE isDigit(c)
  <2>1. SpeltOn(r, c) = Ten(r, c) /\ SpeltOn(q, c) = Ten(q, c)
    BY <1>3 DEF SpeltOn, Shift, Ten
  <2>2. \A k \in 0..L : k \in 0..(K + 2)
    BY <1>1
  <2>3. Apart(Ten(r, c), Ten(q, c), e, L)
    BY <1>2
  <2>4. Apart(Ten(r, c), Ten(q, c), e, K + 2)
    BY <2>2, <2>3 DEF Apart
  <2> QED BY <2>1, <2>4
<1>4. CASE ~isDigit(c)
  <2> DEFINE x == Ten(r, 0)
             y == Ten(q, 0)
  <2>1. SpeltOn(r, c) = (r * 100 + c) % 97 /\ SpeltOn(q, c) = (q * 100 + c) % 97
    BY <1>4 DEF SpeltOn, Shift
  <2>2. x \in 0..96 /\ y \in 0..96 /\ Ten(x, c) = (r * 100 + c) % 97 /\ Ten(y, c) = (q * 100 + c) % 97
    BY DEF Ten
  <2>3. Apart(x, y, e, L)
    BY <1>1, <1>2, SMTT(60)
  <2> HIDE DEF x, y
  <2>4. Apart(Ten(x, c), Ten(y, c), e, L + 1)
    BY <1>1, <2>2, <2>3, ApartTen, Zenon
  <2> QED BY <1>1, <2>1, <2>2, <2>4
<1> QED
  BY <1>3, <1>4

\* The last characters, exchanged with the first, do not make up for it.
LEMMA ApartEnd ==
  ASSUME NEW r \in 0..96, NEW q \in 0..96, NEW a \in 0..9, NEW b \in 0..9, a # b,
         NEW e, e = a - b, NEW K \in 0..65, Apart(r, q, e, K)
  PROVE  SpeltOn(r, b) # SpeltOn(q, a)
<1>1. PICK k \in 0..K : \E p \in 0..96 : Power(k, p) /\ Off(r, q, p, e)
  BY Zenon DEF Apart
<1>2. PICK p \in 0..96 : Power(k, p) /\ Off(r, q, p, e)
  BY <1>1
<1> DEFINE o == Ten(p, 0)
           l == k + 1
<1>3. e \in -9..9 /\ e # 0 /\ e \in Int /\ b \in Int /\ k \in 0..65 /\ l \in 1..66
  OBVIOUS
<1>4. o \in 0..96 /\ Power(l, o)
  BY <1>2, <1>3, PowerStep, ZenonT(60)
<1>5. Off(Ten(r, b), Ten(q, b), o, e)
  BY <1>2, <1>3, Tenfold, ZenonT(60)
<1> HIDE DEF o, l
<1>6. o \in 2..96
  BY <1>3, <1>4, PowerApart
<1>7. SpeltOn(r, b) = Ten(r, b) /\ SpeltOn(q, a) = Ten(q, a)
  BY DEF SpeltOn, Shift, isDigit, Ten
<1> SUFFICES ASSUME Ten(r, b) = Ten(q, a) PROVE FALSE
  BY <1>7
<1> DEFINE f == o - 1
           x == o * e
           y == f * e
<1>8. x \in Int /\ y \in Int /\ y = x - e /\ f \in 1..95
  BY <1>3, <1>6
<1>9. ((Ten(q, a) - Ten(q, b)) - x) % 97 = 0
  BY <1>5 DEF Off
<1> HIDE DEF x, y, f
<1>10. (e - x) % 97 = 0
  BY <1>3, <1>8, <1>9 DEF Ten
<1>11. y % 97 = 0
  BY <1>3, <1>8, <1>10
<1> QED
  BY <1>3, <1>8, <1>11, PrimeTo97, ZenonT(60) DEF y

\* The first and the last character, both digits, exchanged change the remainder of
\* a text that is no longer than a number may be.
LEMMA EndsTell ==
  ASSUME NEW s, NEW t, NEW N \in 2..34, Len(s) = N, Len(t) = N,
         \A i \in 1..N : s[i] \in Int /\ t[i] \in Int,
         s[1] \in 0..9, s[N] \in 0..9, s[1] # s[N], t[1] = s[N], t[N] = s[1],
         \A i \in 1..N : i # 1 /\ i # N => s[i] = t[i]
  PROVE  remainder(s) # remainder(t)
<1> DEFINE f == After(s)
           g == After(t)
           a == s[1]
           b == s[N]
           e == a - b
           M == N - 1
           T == {n \in 0..M : n >= 1 => Apart(f[n], g[n], e, 2 * (n - 1))}
<1>1. remainder(s) = f[N] /\ Steps(f, s) /\ remainder(t) = g[N] /\ Steps(g, t)
  BY Remainders
<1>2. a \in 0..9 /\ b \in 0..9 /\ a # b /\ e \in Int /\ M \in Nat /\ M \in 1..33 /\ N \in Nat
  OBVIOUS
<1> HIDE DEF f, g
<1>3. /\ f[0] = 0 /\ g[0] = 0
      /\ \A n \in 1..N : f[n] = SpeltOn(f[n - 1], s[n]) /\ g[n] = SpeltOn(g[n - 1], t[n])
      /\ \A n \in 0..N : f[n] \in 0..96 /\ g[n] \in 0..96
  BY <1>1 DEF Steps
<1>4. 0 \in T
  BY <1>2
<1>5. ASSUME NEW n \in 1..M, n - 1 \in T PROVE n \in T
  <2>1. CASE n = 1
    <3>1. SpeltOn(0, a) = a /\ SpeltOn(0, b) = b
      <4>1. \A d \in 0..9 : (0 * 10 + d) % 97 = d
        OBVIOUS
      <4>2. \A d \in 0..9 : SpeltOn(0, d) = d
        BY <4>1 DEF SpeltOn, Shift, isDigit
      <4> QED BY <1>2, <4>2, Zenon
    <3>2. f[1] = a /\ g[1] = b
      <4>1. 1 \in 1..N /\ 1 - 1 = 0
        BY <1>2
      <4>2. f[1] = SpeltOn(f[1 - 1], s[1]) /\ g[1] = SpeltOn(g[1 - 1], t[1])
        BY <1>3, <4>1
      <4> QED BY <1>3, <3>1, <4>1, <4>2
    <3>3. Power(0, 1)
      BY SMT DEF Power, PowersOfTen
    <3>4. Off(a, b, 1, e)
      BY <1>2 DEF Off
    <3>5. 0 \in 0..0 /\ 1 \in 0..96 /\ 2 * (1 - 1) = 0
      OBVIOUS
    <3> HIDE DEF a, b, e
    <3>6. Apart(a, b, e, 0)
      BY <3>3, <3>4, <3>5 DEF Apart
    <3> QED BY <1>2, <2>1, <3>2, <3>5, <3>6
  <2>2. CASE n # 1
    <3> DEFINE K == 2 * ((n - 1) - 1)
               r == f[n - 1]
               q == g[n - 1]
               c == s[n]
    <3>1. n - 1 >= 1 /\ K \in 0..64 /\ K + 2 = 2 * (n - 1) /\ n - 1 \in 0..N /\ n \in 1..N /\ n # N
      BY <1>2, <2>2
    <3>2. r \in 0..96 /\ q \in 0..96
      BY <1>3, <3>1, ZenonT(60)
    <3>3. s[n] = t[n] /\ c \in Int
      BY <2>2, <3>1, Zenon
    <3>4. f[n] = SpeltOn(r, c) /\ g[n] = SpeltOn(q, c)
      BY <1>3, <3>1, <3>3
    <3>5. Apart(r, q, e, K)
      BY <1>5, <3>1
    <3> HIDE DEF r, q, c, K, e
    <3>6. Apart(SpeltOn(r, c), SpeltOn(q, c), e, K + 2)
      BY <1>2, <3>1, <3>2, <3>3, <3>5, ApartStep, Zenon
    <3>7. Apart(f[n], g[n], e, 2 * (n - 1))
      BY <3>1, <3>4, <3>6
    <3> QED BY <3>7
  <2> QED BY <2>1, <2>2
<1>6. \A n \in 0..M : n \in T
  <2> HIDE DEF T, M
  <2> QED BY <1>2, <1>4, <1>5, Induct, Zenon
<1>7. Apart(f[M], g[M], e, 2 * (M - 1))
  <2>1. M \in 0..M /\ M >= 1
    BY <1>2
  <2> HIDE DEF M, e
  <2>2. M \in T
    BY <1>6, <2>1, Zenon
  <2> QED BY <2>1, <2>2
<1>8. f[N] = SpeltOn(f[M], b) /\ g[N] = SpeltOn(g[M], a) /\ f[M] \in 0..96 /\ g[M] \in 0..96
  BY <1>2, <1>3
<1> DEFINE K == 2 * (M - 1)
           r == f[M]
           q == g[M]
<1>9. K \in 0..65 /\ e = a - b
  BY <1>2, SMTT(60)
<1>10. SpeltOn(r, b) # SpeltOn(q, a)
  <2> HIDE DEF K, r, q, M, a, b, e
  <2>1. Apart(r, q, e, K)
    BY <1>7 DEF K, r, q
  <2>2. r \in 0..96 /\ q \in 0..96
    BY <1>8 DEF r, q
  <2> QED BY <1>2, <1>9, <2>1, <2>2, ApartEnd, ZenonT(60)
<1> QED
  BY <1>1, <1>8, <1>10

-----------------------------------------------------------------------------
\* The remainders that the loop of Rest97 goes through.
Rests(digits) ==
    LET after[n \in 0..Len(digits)] == IF n = 0 THEN 0 ELSE (after[n - 1] * 10 + digits[n]) % 97
    IN  after

\* On a text of digits the rule's remainder is the standard's.
LEMMA RestIsRemainder ==
  ASSUME NEW s \in Seq(0..9)
  PROVE  Rest97(s) = remainder(s)
<1> DEFINE N == Len(s)
           f == After(s)
           g == [n \in 0..N |-> f[n]]
           P == Rests(s)
           body(h) == [n \in 0..N |-> IF n = 0 THEN 0 ELSE (h[n - 1] * 10 + s[n]) % 97]
<1>1. N \in Nat /\ \A i \in 1..N : s[i] \in 0..9 /\ s[i] \in Int
  <2> DEFINE D == 0..9
  <2>1. N \in Nat /\ \A i \in 1..N : s[i] \in D
    OBVIOUS
  <2> QED BY <2>1
<1>2. remainder(s) = f[N] /\ Steps(f, s)
  BY <1>1, Remainders
<1> HIDE DEF f
<1>3. f[0] = 0 /\ \A n \in 1..N : f[n] = (f[n - 1] * 10 + s[n]) % 97
  <2>1. \A n \in 1..N : SpeltOn(f[n - 1], s[n]) = (f[n - 1] * 10 + s[n]) % 97
    BY <1>1 DEF SpeltOn, Shift, isDigit
  <2> QED BY <1>2, <2>1 DEF Steps
<1>4. g = body(g)
  <2>1. \A n \in 1..N : n - 1 \in 0..N /\ g[n - 1] = f[n - 1]
    BY <1>1
  <2> QED BY <1>3, <2>1
<1>5. P = body(P)
  BY <1>4 DEF Rests
<1>6. Rest97(s) = P[N]
  BY DEF Rest97, Rests
<1> HIDE DEF P
<1>7. P[0] = 0 /\ \A n \in 1..N : P[n] = (P[n - 1] * 10 + s[n]) % 97
  BY <1>1, <1>5
<1> DEFINE T == {n \in 0..N : P[n] = f[n]}
<1>8. 0 \in T
  BY <1>1, <1>3, <1>7
<1>9. ASSUME NEW n \in 1..N, n - 1 \in T PROVE n \in T
  <2>1. P[n] = f[n]
    BY <1>3, <1>7, <1>9
  <2> QED BY <2>1
<1>10. \A n \in 0..N : n \in T
  <2> HIDE DEF T, N
  <2> QED BY <1>1, <1>8, <1>9, Induct, Zenon
<1>11. P[N] = f[N]
  BY <1>1, <1>10
<1> QED
  BY <1>2, <1>6, <1>11

\* One more character.
LEMMA RemainderAppend ==
  ASSUME NEW s \in Seq(Int), NEW c \in Int
  PROVE  /\ remainder(s) \in 0..96
         /\ remainder(Append(s, c)) = SpeltOn(remainder(s), c)
<1> DEFINE N == Len(s)
           t == Append(s, c)
           f == After(s)
           g == After(t)
           M == N + 1
<1>1. /\ N \in Nat /\ M \in Nat /\ t \in Seq(Int) /\ Len(t) = M /\ t[M] = c
      /\ \A i \in 1..N : s[i] \in Int /\ t[i] = s[i]
  OBVIOUS
<1>2. \A i \in 1..M : t[i] \in Int
  BY <1>1
<1> HIDE DEF t
<1>3. remainder(s) = f[N] /\ Steps(f, s)
  BY <1>1, Remainders
<1>4. remainder(t) = g[Len(t)] /\ Steps(g, t)
  BY <1>1, <1>2, Remainders
<1> HIDE DEF f, g
<1>5. f[N] \in 0..96 /\ g[M] = SpeltOn(g[N], c)
  <2>1. M \in 1..M /\ M - 1 = N /\ N \in 0..N
    BY <1>1
  <2> QED BY <1>1, <1>3, <1>4, <2>1 DEF Steps
<1>6. f[N] = g[N]
  <2>1. N <= Len(s) /\ N <= Len(t) /\ Len(t) \in Nat /\ Alike(s, t, 1, N) /\ N \in 0..N
    BY <1>1 DEF Alike
  <2> HIDE DEF N, M
  <2>2. Alike(f, g, 0, N)
    BY <1>1, <1>3, <1>4, <2>1, StepsAgree DEF N
  <2> QED BY <2>1, <2>2 DEF Alike
<1> QED
  BY <1>1, <1>3, <1>4, <1>5, <1>6 DEF t

\* The first characters of a text, spelt out, as the loop of Spelt makes them.
Spellings(text) ==
    LET upTo[n \in 0..Len(text)] ==
            IF n = 0 THEN <<>>
            ELSE IF text[n] < 10 THEN Append(upTo[n - 1], text[n])
            ELSE Append(Append(upTo[n - 1], text[n] \div 10), text[n] % 10)
    IN  upTo

\* x with character c spelt out after it.
Spell(x, c) == IF c < 10 THEN Append(x, c) ELSE Append(Append(x, c \div 10), c % 10)

\* What spelling out does to a remainder is what the rule's loop does.
LEMMA SpellOne ==
  ASSUME NEW x \in Seq(0..9), NEW c \in 0..35
  PROVE  Spell(x, c) \in Seq(0..9) /\ remainder(Spell(x, c)) = SpeltOn(remainder(x), c)
<1>1. x \in Seq(Int)
  <2>1. 0..9 \subseteq Int
    OBVIOUS
  <2> DEFINE D == 0..9
  <2> HIDE DEF D
  <2> QED BY <2>1 DEF D
<1> DEFINE r == remainder(x)
<1>2. r \in 0..96
  <2>1. 0 \in Int
    OBVIOUS
  <2> QED BY <1>1, <2>1, RemainderAppend, Zenon
<1>3. CASE c < 10
  <2>1. Spell(x, c) = Append(x, c) /\ c \in 0..9 /\ c \in Int
    BY <1>3 DEF Spell
  <2>2. Append(x, c) \in Seq(0..9)
    BY <2>1
  <2> QED BY <1>1, <2>1, <2>2, RemainderAppend
<1>4. CASE ~(c < 10)
  <2> DEFINE a == c \div 10
             b == c % 10
             y == Append(x, a)
  <2>1. Spell(x, c) = Append(y, b)
    BY <1>4 DEF Spell
  <2>2. a \in 0..9 /\ b \in 0..9 /\ a \in Int /\ b \in Int /\ c = 10 * a + b
    OBVIOUS
  <2>3. SpeltOn(r, c) = (r * 100 + c) % 97
    BY <1>4 DEF SpeltOn, Shift, isDigit
  <2> HIDE DEF a, b, r
  <2>4. y \in Seq(0..9) /\ Append(y, b) \in Seq(0..9) /\ y \in Seq(Int)
    BY <1>1, <2>2
  <2>5. remainder(y) = SpeltOn(r, a)
    BY <1>1, <2>2, RemainderAppend DEF r
  <2> HIDE DEF y
  <2>6. remainder(Append(y, b)) = SpeltOn(remainder(y), b)
    BY <2>2, <2>4, RemainderAppend
  <2>7. \A q \in 0..96, d \in 0..9 : SpeltOn(q, d) = (q * 10 + d) % 97 /\ SpeltOn(q, d) \in 0..96
    BY DEF SpeltOn, Shift, isDigit
  <2>8. SpeltOn(SpeltOn(r, a), b) = (r * 100 + c) % 97
    <3>1. SpeltOn(r, a) = (r * 10 + a) % 97 /\ SpeltOn(r, a) \in 0..96
      BY <1>2, <2>2, <2>7, ZenonT(60)
    <3> DEFINE q == SpeltOn(r, a)
    <3> HIDE DEF q
    <3>2. SpeltOn(q, b) = (q * 10 + b) % 97
      BY <2>2, <2>7, <3>1, ZenonT(60) DEF q
    <3>3. (q * 10 + b) % 97 = (r * 100 + c) % 97
      BY <1>2, <2>2, <3>1, SMTT(60) DEF q
    <3> QED BY <3>2, <3>3, SMTT(60) DEF q
  <2> QED BY <2>1, <2>3, <2>4, <2>5, <2>6, <2>8 DEF r
<1> QED
  BY <1>3, <1>4

\* The length and the elements of a sequence.
LEMMA SeqOf ==
  ASSUME NEW C, NEW s \in Seq(C)
  PROVE  Len(s) \in Nat /\ DOMAIN s = 1..Len(s) /\ \A i \in 1..Len(s) : s[i] \in C
OBVIOUS

\* A text and its spelling have the same remainder.
LEMMA SpeltRemainder ==
  ASSUME NEW text \in Seq(0..35)
  PROVE  Spelt(text) \in Seq(0..9) /\ remainder(Spelt(text)) = remainder(text)
<1> DEFINE N == Len(text)
           V == Seq(0..9)
           step == [p \in (1..N) \X V |-> Spell(p[2], text[p[1]])]
           U == Spellings(text)
           f == After(text)
<1>1. N \in Nat /\ \A i \in 1..N : text[i] \in 0..35 /\ text[i] \in Int
  <2>1. N \in Nat /\ \A i \in 1..N : text[i] \in 0..35
    BY SeqOf
  <2>2. \A c \in 0..35 : c \in Int
    OBVIOUS
  <2> QED BY <2>1, <2>2, Zenon
<1>2. \A x \in V, n \in 1..N : Spell(x, text[n]) \in V
  BY <1>1, SpellOne, Zenon
<1>3. PICK g \in [0..N -> V] : g[0] = <<>> /\ \A n \in 1..N : g[n] = step[<<n, g[n - 1]>>]
  <2>1. <<>> \in V
    OBVIOUS
  <2> HIDE DEF V
  <2>2. \A p \in (1..N) \X V : Spell(p[2], text[p[1]]) \in V
    BY <1>2
  <2>3. step \in [(1..N) \X V -> V]
    BY <2>2
  <2> DEFINE a == <<>>
  <2>4. a \in V
    BY <2>1
  <2> HIDE DEF step, N, a
  <2>5. HasRun(N, V, a, step)
    BY <1>1, <2>3, <2>4, LoopHasValue, Zenon
  <2> QED BY <2>5, Zenon DEF HasRun, a
<1>4. \A n \in 1..N : g[n] = Spell(g[n - 1], text[n])
  <2> SUFFICES ASSUME NEW n \in 1..N PROVE g[n] = Spell(g[n - 1], text[n])
    OBVIOUS
  <2> HIDE DEF V
  <2>1. n - 1 \in 0..N
    BY <1>1
  <2>2. g[n - 1] \in V
    BY <1>3, <2>1
  <2>3. <<n, g[n - 1]>> \in (1..N) \X V
    BY <2>2
  <2>4. step[<<n, g[n - 1]>>] = Spell(g[n - 1], text[n])
    BY <2>3
  <2> HIDE DEF step
  <2> QED BY <1>3, <2>4
<1> DEFINE body(h) == [n \in 0..N |-> IF n = 0 THEN <<>>
                                      ELSE IF text[n] < 10 THEN Append(h[n - 1], text[n])
                                      ELSE Append(Append(h[n - 1], text[n] \div 10), text[n] % 10)]
<1> HIDE DEF V, step
<1>5. g = body(g)
  <2>1. \A n \in 0..N : g[n] = IF n = 0 THEN <<>> ELSE Spell(g[n - 1], text[n])
    BY <1>1, <1>3, <1>4
  <2>2. g = [n \in 0..N |-> IF n = 0 THEN <<>> ELSE Spell(g[n - 1], text[n])]
    BY <1>3, <2>1, SMTT(60)
  <2> QED BY <2>2, Zenon DEF Spell
<1>6. U = body(U)
  BY <1>5, Zenon DEF Spellings
<1>7. Spelt(text) = U[N]
  BY DEF Spelt, Spellings
<1> HIDE DEF U
<1>8. U[0] = <<>> /\ \A n \in 1..N : U[n] = Spell(U[n - 1], text[n])
  <2>1. U = [n \in 0..N |-> IF n = 0 THEN <<>> ELSE Spell(U[n - 1], text[n])]
    BY <1>6, Zenon DEF Spell
  <2> QED BY <1>1, <2>1
<1>9. remainder(text) = f[N] /\ Steps(f, text)
  BY <1>1, Remainders
<1> HIDE DEF f
<1>10. f[0] = 0 /\ \A n \in 1..N : f[n] = SpeltOn(f[n - 1], text[n])
  BY <1>9 DEF Steps
<1> DEFINE T == {n \in 0..N : U[n] \in Seq(0..9) /\ remainder(U[n]) = f[n]}
<1>11. 0 \in T
  <2>1. remainder(<<>>) = 0
    <3>1. Len(<<>>) = 0 /\ \A i \in 1..0 : <<>>[i] \in Int
      OBVIOUS
    <3>2. remainder(<<>>) = After(<<>>)[Len(<<>>)] /\ Steps(After(<<>>), <<>>)
      BY <3>1, Remainders
    <3> QED BY <3>1, <3>2 DEF Steps
  <2>2. <<>> \in Seq(0..9)
    OBVIOUS
  <2>3. U[0] \in Seq(0..9) /\ remainder(U[0]) = f[0]
    BY <1>8, <1>10, <2>1, <2>2
  <2> QED BY <1>1, <2>3
<1>12. ASSUME NEW n \in 1..N, n - 1 \in T PROVE n \in T
  <2> DEFINE x == U[n - 1]
             c == text[n]
  <2>1. x \in Seq(0..9) /\ remainder(x) = f[n - 1] /\ c \in 0..35
    BY <1>1, <1>12
  <2>2. U[n] = Spell(x, c) /\ f[n] = SpeltOn(f[n - 1], c)
    BY <1>8, <1>10
  <2> HIDE DEF x, c
  <2>3. Spell(x, c) \in Seq(0..9) /\ remainder(Spell(x, c)) = SpeltOn(remainder(x), c)
    BY <2>1, SpellOne, Zenon
  <2>4. U[n] \in Seq(0..9) /\ remainder(U[n]) = f[n]
    BY <2>1, <2>2, <2>3
  <2> QED BY <2>4
<1>13. \A n \in 0..N : n \in T
  <2> HIDE DEF T, N
  <2> QED BY <1>1, <1>11, <1>12, Induct, Zenon
<1>14. N \in 0..N
  BY <1>1
<1>15. U[N] \in Seq(0..9) /\ remainder(U[N]) = f[N]
  <2> HIDE DEF N
  <2>1. N \in T
    BY <1>13, <1>14
  <2> QED BY <2>1
<1> QED
  BY <1>7, <1>9, <1>15

\* A number with its country letters and check digits moved to the end.
Rearranged(s) == SubSeq(s, 5, Len(s)) \o SubSeq(s, 1, 4)

\* Where its characters come from.
LEMMA RearrangedAt ==
  ASSUME NEW C, NEW s \in Seq(C), NEW N \in Nat, Len(s) = N, N >= 5
  PROVE  /\ Rearranged(s) \in Seq(C) /\ Len(Rearranged(s)) = N
         /\ \A i \in 1..N : Rearranged(s)[i] = s[IF i <= N - 4 THEN i + 4 ELSE i - (N - 4)]
<1> DEFINE x == SubSeq(s, 5, N)
           y == SubSeq(s, 1, 4)
<1>1. x \in Seq(C) /\ Len(x) = N - 4 /\ \A i \in 1..(N - 4) : x[i] = s[i + 4]
  OBVIOUS
<1>2. y \in Seq(C) /\ Len(y) = 4 /\ \A i \in 1..4 : y[i] = s[i]
  OBVIOUS
<1>3. Rearranged(s) = x \o y
  BY DEF Rearranged
<1> HIDE DEF x, y
<1>4. /\ x \o y \in Seq(C) /\ Len(x \o y) = Len(x) + Len(y)
      /\ \A i \in 1..(Len(x) + Len(y)) : (x \o y)[i] = IF i <= Len(x) THEN x[i] ELSE y[i - Len(x)]
  <2>1. x \in Seq(C) /\ y \in Seq(C)
    BY <1>1, <1>2
  <2>2. x \o y \in Seq(C)
    BY <2>1
  <2>3. Len(x \o y) = Len(x) + Len(y)
    BY <2>1
  <2>4. \A i \in 1..(Len(x) + Len(y)) : (x \o y)[i] = IF i <= Len(x) THEN x[i] ELSE y[i - Len(x)]
    BY <2>1
  <2> QED BY <2>2, <2>3, <2>4
<1>5. /\ x \o y \in Seq(C) /\ Len(x \o y) = N
      /\ \A i \in 1..N : (x \o y)[i] = IF i <= N - 4 THEN x[i] ELSE y[i - (N - 4)]
  <2>1. Len(x) + Len(y) = N
    BY <1>1, <1>2
  <2> QED BY <1>1, <1>4, <2>1
<1>6. \A i \in 1..N : (x \o y)[i] = s[IF i <= N - 4 THEN i + 4 ELSE i - (N - 4)]
  <2> SUFFICES ASSUME NEW i \in 1..N PROVE (x \o y)[i] = s[IF i <= N - 4 THEN i + 4 ELSE i - (N - 4)]
    BY Zenon
  <2>1. CASE i <= N - 4
    BY <1>1, <1>5, <2>1
  <2>2. CASE ~(i <= N - 4)
    <3>1. i - (N - 4) \in 1..4
      BY <2>2
    <3> QED BY <1>2, <1>5, <2>2, <3>1
  <2> QED BY <2>1, <2>2, Zenon
<1> QED
  BY <1>3, <1>5, <1>6

\* The remainder r after two more digits.
TwoOn(r, c, d) == (r * 100 + c * 10 + d) % 97

\* Two more digits.
LEMMA RemainderTwo ==
  ASSUME NEW s \in Seq(Int), NEW c \in 0..9, NEW d \in 0..9
  PROVE  remainder(Append(Append(s, c), d)) = TwoOn(remainder(s), c, d)
<1> DEFINE r == remainder(s)
           t == Append(s, c)
           q == SpeltOn(r, c)
<1>1. c \in Int /\ d \in Int
  OBVIOUS
<1>2. t \in Seq(Int)
  BY <1>1
<1>3. r \in 0..96 /\ remainder(t) = q
  BY <1>1, RemainderAppend
<1>4. remainder(Append(t, d)) = SpeltOn(remainder(t), d)
  <2> HIDE DEF t, q
  <2> QED BY <1>1, <1>2, RemainderAppend
<1>5. \A p \in 0..96, e \in 0..9 : SpeltOn(p, e) = (p * 10 + e) % 97
  BY DEF SpeltOn, Shift, isDigit
<1>6. q = (r * 10 + c) % 97 /\ q \in 0..96
  <2> HIDE DEF r
  <2>1. (r * 10 + c) % 97 \in 0..96
    BY <1>3
  <2> QED BY <1>3, <1>5, <2>1, ZenonT(60)
<1> HIDE DEF r, q, t
<1>7. SpeltOn(q, d) = (q * 10 + d) % 97
  BY <1>5, <1>6, ZenonT(60)
<1>8. (q * 10 + d) % 97 = (r * 100 + c * 10 + d) % 97
  BY <1>3, <1>6
<1> QED
  BY <1>3, <1>4, <1>7, <1>8 DEF r, t, TwoOn

\* A sequence over a set is one over a larger set.
LEMMA SeqWider ==
  ASSUME NEW C, NEW D, C \subseteq D, NEW s \in Seq(C)
  PROVE  s \in Seq(D)
OBVIOUS

\* Two sequences in a row.
LEMMA Joined ==
  ASSUME NEW C, NEW x \in Seq(C), NEW y \in Seq(C)
  PROVE  /\ x \o y \in Seq(C) /\ Len(x \o y) = Len(x) + Len(y)
         /\ \A i \in 1..(Len(x) + Len(y)) : (x \o y)[i] = IF i <= Len(x) THEN x[i] ELSE y[i - Len(x)]
<1>1. x \o y \in Seq(C)
  OBVIOUS
<1>2. Len(x \o y) = Len(x) + Len(y)
  OBVIOUS
<1>3. \A i \in 1..(Len(x) + Len(y)) : (x \o y)[i] = IF i <= Len(x) THEN x[i] ELSE y[i - Len(x)]
  OBVIOUS
<1> QED
  BY <1>1, <1>2, <1>3

\* Rearranged, a number ends with its check digits.
LEMMA RearrangedEnd ==
  ASSUME NEW C, NEW s \in Seq(C), NEW N \in Nat, Len(s) = N, N >= 5,
         NEW B, B = SubSeq(s, 5, N) \o SubSeq(s, 1, 2)
  PROVE  B \in Seq(C) /\ Rearranged(s) = Append(Append(B, s[3]), s[4])
<1> DEFINE x == SubSeq(s, 5, N)
           y == SubSeq(s, 1, 2)
           w == Rearranged(s)
           z == Append(Append(B, s[3]), s[4])
<1>1. x \in Seq(C) /\ Len(x) = N - 4 /\ \A i \in 1..(N - 4) : x[i] = s[i + 4]
  OBVIOUS
<1>2. y \in Seq(C) /\ Len(y) = 2 /\ \A i \in 1..2 : y[i] = s[i]
  OBVIOUS
<1>3. s[3] \in C /\ s[4] \in C
  OBVIOUS
<1>4. B = x \o y
  OBVIOUS
<1> HIDE DEF x, y
<1>5. /\ B \in Seq(C) /\ Len(B) = Len(x) + Len(y)
      /\ \A i \in 1..(Len(x) + Len(y)) : B[i] = IF i <= Len(x) THEN x[i] ELSE y[i - Len(x)]
  BY <1>1, <1>2, <1>4, Joined
<1>6. /\ Len(B) = N - 2
      /\ \A i \in 1..(N - 2) : B[i] = IF i <= N - 4 THEN x[i] ELSE y[i - (N - 4)]
  <2>1. Len(x) + Len(y) = N - 2
    BY <1>1, <1>2
  <2> QED BY <1>1, <1>5, <2>1, Zenon
<1>7. z \in Seq(C) /\ Len(z) = N
  BY <1>3, <1>5, <1>6
<1>8. \A i \in 1..N : z[i] = IF i <= N - 2 THEN B[i] ELSE IF i = N - 1 THEN s[3] ELSE s[4]
  BY <1>3, <1>5, <1>6, SMTT(60)
<1>9. /\ w \in Seq(C) /\ Len(w) = N
      /\ \A i \in 1..N : w[i] = s[IF i <= N - 4 THEN i + 4 ELSE i - (N - 4)]
  BY RearrangedAt
<1> HIDE DEF w, z
<1>10. ASSUME NEW i \in 1..N PROVE w[i] = z[i]
  <2>1. CASE i <= N - 4
    <3>1. i \in 1..(N - 4) /\ i \in 1..(N - 2) /\ i <= N - 2
      BY <2>1
    <3>2. z[i] = B[i] /\ B[i] = x[i] /\ x[i] = s[i + 4]
      BY <1>1, <1>6, <1>8, <2>1, <3>1
    <3> QED BY <1>9, <2>1, <3>2
  <2>2. CASE i = N - 3 \/ i = N - 2
    <3>1. i - (N - 4) \in 1..2 /\ ~(i <= N - 4) /\ i <= N - 2 /\ i \in 1..(N - 2)
      BY <2>2
    <3>2. z[i] = B[i] /\ B[i] = s[i - (N - 4)]
      BY <1>2, <1>6, <1>8, <3>1, Zenon
    <3> QED BY <1>9, <3>1, <3>2, Zenon
  <2>3. CASE i = N - 1
    <3>1. i - (N - 4) = 3 /\ ~(i <= N - 4) /\ ~(i <= N - 2)
      BY <2>3
    <3> QED BY <1>8, <1>9, <2>3, <3>1, SMTT(60)
  <2>4. CASE i = N
    <3>1. i - (N - 4) = 4 /\ ~(i <= N - 4) /\ ~(i <= N - 2) /\ i # N - 1
      BY <2>4
    <3> QED BY <1>8, <1>9, <3>1
  <2> QED BY <2>1, <2>2, <2>3, <2>4
<1>11. w = [i \in 1..N |-> w[i]] /\ z = [i \in 1..N |-> z[i]]
  BY <1>7, <1>9
<1>12. w = z
  BY <1>10, <1>11
<1> QED
  BY <1>5, <1>12 DEF w, z

\* A number with the check digits of its standard leaves the remainder 1.
LEMMA CheckedRemainder ==
  ASSUME NEW s \in Seq(0..37), NEW N \in Nat, Len(s) = N, N >= 5, Checked(s)
  PROVE  s \in Seq(0..35) /\ remainder(Rearranged(s)) = 1
<1> DEFINE C == 0..35
           D == 0..9
           B == SubSeq(s, 5, N) \o SubSeq(s, 1, 2)
           c == s[3]
           d == s[4]
           S == Spelt(B)
           r == remainder(B)
<1>1. DOMAIN s = 1..N
  BY SeqOf
<1>2. s \in Seq(C)
  <2>1. \A i \in 1..N : s[i] \in C
    BY <1>1, Zenon DEF Checked
  <2>2. s = [i \in 1..N |-> s[i]]
    BY <1>1
  <2> HIDE DEF C
  <2>3. s \in [1..N -> C]
    BY <2>1, <2>2
  <2> QED BY <2>3
<1>3. c \in D /\ d \in D /\ 0 \in D
  BY DEF Checked
<1>4. C \subseteq Int /\ D \subseteq Int
  OBVIOUS
<1>5. c * 10 + d = 98 - Rest97(Append(Append(S, 0), 0))
  <2>1. Checked(s) /\ Len(s) = N
    OBVIOUS
  <2>2. s[3] * 10 + s[4] = CheckDigits(SubSeq(s, 1, 2), SubSeq(s, 5, N))
    BY <2>1, Zenon DEF Checked
  <2> QED BY <2>2, Zenon DEF CheckDigits
<1> HIDE DEF C, D, B, c, d, S, r
<1>6. B \in Seq(C) /\ Rearranged(s) = Append(Append(B, c), d)
  BY <1>2, RearrangedEnd, Zenon DEF B, c, d
<1>7. S \in Seq(D) /\ remainder(S) = r
  BY <1>6, SpeltRemainder DEF C, D, S, r
<1>8. B \in Seq(Int) /\ S \in Seq(Int)
  BY <1>4, <1>6, <1>7, SeqWider, Zenon
<1>9. r \in 0..96
  <2>1. 0 \in Int
    OBVIOUS
  <2> QED BY <1>8, <2>1, RemainderAppend, Zenon DEF r
<1>10. remainder(Append(Append(B, c), d)) = (r * 100 + c * 10 + d) % 97
  <2>1. c \in 0..9 /\ d \in 0..9
    BY <1>3 DEF D
  <2>2. remainder(Append(Append(B, c), d)) = TwoOn(remainder(B), c, d)
    BY <1>8, <2>1, RemainderTwo, Zenon
  <2> QED BY <2>2 DEF r, TwoOn
<1>11. Rest97(Append(Append(S, 0), 0)) = (r * 100) % 97
  <2>1. Append(Append(S, 0), 0) \in Seq(D)
    BY <1>3, <1>7
  <2>2. remainder(Append(Append(S, 0), 0)) = TwoOn(remainder(S), 0, 0)
    BY <1>3, <1>8, RemainderTwo DEF D
  <2> DEFINE q == Append(Append(S, 0), 0)
  <2> HIDE DEF q
  <2>3. Rest97(q) = remainder(q)
    <3>1. q \in Seq(D)
      BY <2>1 DEF q
    <3> QED BY <3>1, RestIsRemainder DEF D
  <2>4. TwoOn(r, 0, 0) = (r * 100) % 97
    BY <1>9 DEF TwoOn
  <2> QED BY <1>7, <2>2, <2>3, <2>4 DEF q
<1>12. (r * 100 + c * 10 + d) % 97 = 1
  <2> DEFINE k == c * 10 + d
  <2>1. c \in Int /\ d \in Int
    BY <1>3, <1>4
  <2>2. k \in Int /\ k = 98 - ((r * 100) % 97)
    BY <1>5, <1>11, <2>1
  <2>3. r * 100 + c * 10 + d = r * 100 + k
    BY <1>9, <2>1
  <2> HIDE DEF k
  <2>4. (r * 100 + k) % 97 = 1
    BY <1>9, <2>2
  <2> QED BY <2>3, <2>4
<1> QED
  BY <1>2, <1>6, <1>10, <1>12 DEF C

-----------------------------------------------------------------------------
\* Where the i-th character of a rearranged number of length N comes from.
From(i, N) == IF i <= N - 4 THEN i + 4 ELSE i - (N - 4)

\* Each comes from a place of its own.
LEMMA FromFacts ==
  ASSUME NEW N \in Nat, N >= 5
  PROVE  /\ \A i \in 1..N : From(i, N) \in 1..N
         /\ \A i, k \in 1..N : From(i, N) = From(k, N) => i = k
         /\ \A j \in 5..N : j - 4 \in 1..N /\ From(j - 4, N) = j
         /\ \A j \in 1..4 : j + (N - 4) \in 1..N /\ From(j + (N - 4), N) = j
<1>1. \A i \in 1..N : From(i, N) \in 1..N
  BY DEF From
<1>2. \A i, k \in 1..N : From(i, N) = From(k, N) => i = k
  <2> SUFFICES ASSUME NEW i \in 1..N, NEW k \in 1..N, From(i, N) = From(k, N) PROVE i = k
    OBVIOUS
  <2>1. CASE i <= N - 4 /\ k <= N - 4
    BY <2>1 DEF From
  <2>2. CASE i <= N - 4 /\ ~(k <= N - 4)
    BY <2>2 DEF From
  <2>3. CASE ~(i <= N - 4) /\ k <= N - 4
    BY <2>3 DEF From
  <2>4. CASE ~(i <= N - 4) /\ ~(k <= N - 4)
    BY <2>4 DEF From
  <2> QED BY <2>1, <2>2, <2>3, <2>4
<1>3. \A j \in 5..N : j - 4 \in 1..N /\ From(j - 4, N) = j
  BY DEF From
<1>4. \A j \in 1..4 : j + (N - 4) \in 1..N /\ From(j + (N - 4), N) = j
  BY DEF From
<1> QED
  BY <1>1, <1>2, <1>3, <1>4

\* A rearranged text of integers.
LEMMA RearrangedFrom ==
  ASSUME NEW s \in Seq(Int), NEW N \in Nat, Len(s) = N, N >= 5
  PROVE  /\ Len(Rearranged(s)) = N
         /\ \A i \in 1..N : Rearranged(s)[i] = s[From(i, N)] /\ Rearranged(s)[i] \in Int
<1> DEFINE w == Rearranged(s)
<1>1. /\ w \in Seq(Int) /\ Len(w) = N
      /\ \A i \in 1..N : w[i] = s[IF i <= N - 4 THEN i + 4 ELSE i - (N - 4)]
  BY RearrangedAt, Zenon
<1> HIDE DEF w
<1>2. \A i \in 1..N : w[i] = s[From(i, N)]
  BY <1>1 DEF From
<1>3. \A i \in 1..N : w[i] \in Int
  BY <1>1, SeqOf
<1> QED
  BY <1>1, <1>2, <1>3 DEF w

\* A digit taken for another changes the remainder of a rearranged number.
LEMMA MisreadTells ==
  ASSUME NEW s \in Seq(Int), NEW t \in Seq(Int), NEW N \in Nat, N >= 5, NEW j \in 1..N, Mistaken(s, t, j, N)
  PROVE  remainder(Rearranged(s)) # remainder(Rearranged(t))
<1> SUFFICES ASSUME Len(s) = N, Len(t) = N, s[j] \in 0..9, t[j] \in 0..9, s[j] # t[j],
                    \A i \in 1..N : i # j => s[i] = t[i]
             PROVE  remainder(Rearranged(s)) # remainder(Rearranged(t))
  BY DEF Mistaken
<1> DEFINE u == Rearranged(s)
           v == Rearranged(t)
<1>1. PICK k \in 1..N : From(k, N) = j
  <2>1. CASE j >= 5
    <3>1. j \in 5..N
      BY <2>1
    <3> QED BY <3>1, FromFacts
  <2>2. CASE ~(j >= 5)
    <3>1. j \in 1..4
      BY <2>2
    <3> QED BY <3>1, FromFacts, ZenonT(60)
  <2> QED BY <2>1, <2>2
<1>2. Len(u) = N /\ \A i \in 1..N : u[i] = s[From(i, N)] /\ u[i] \in Int
  BY RearrangedFrom, Zenon
<1>3. Len(v) = N /\ \A i \in 1..N : v[i] = t[From(i, N)] /\ v[i] \in Int
  BY RearrangedFrom, Zenon
<1>4. \A i \in 1..N : From(i, N) \in 1..N /\ (i # k => From(i, N) # j)
  BY <1>1, FromFacts, Zenon
<1> HIDE DEF u, v
<1>5. u[k] = s[j] /\ v[k] = t[j] /\ \A i \in 1..N : i # k => u[i] = v[i]
  <2>1. u[k] = s[j] /\ v[k] = t[j]
    BY <1>1, <1>2, <1>3, Zenon
  <2>2. ASSUME NEW i \in 1..N, i # k PROVE u[i] = v[i]
    <3> DEFINE p == From(i, N)
    <3>1. p \in 1..N /\ p # j /\ u[i] = s[p] /\ v[i] = t[p]
      BY <1>2, <1>3, <1>4, <2>2, Zenon
    <3> HIDE DEF p
    <3> QED BY <3>1
  <2> QED BY <2>1, <2>2
<1>6. remainder(u) # remainder(v)
  <2>1. \A i \in 1..N : u[i] \in Int /\ v[i] \in Int
    BY <1>2, <1>3, Zenon
  <2>2. u[k] \in 0..9 /\ v[k] \in 0..9 /\ u[k] # v[k]
    BY <1>5
  <2> QED BY <1>2, <1>3, <1>5, <2>1, <2>2, OneDigitTells, Zenon
<1> QED
  BY <1>6 DEF u, v

\* So do two neighbours exchanged, also where the number is cut to be rearranged.
LEMMA NeighboursTell ==
  ASSUME NEW s \in Seq(Int), NEW t \in Seq(Int), NEW N \in 5..34, NEW j \in 1..N, Exchanged(s, t, j, N)
  PROVE  remainder(Rearranged(s)) # remainder(Rearranged(t))
<1> SUFFICES ASSUME Len(s) = N, Len(t) = N, j + 1 \in 1..N, s[j] \in 0..9, s[j + 1] \in 0..9, s[j] # s[j + 1],
                    t[j] = s[j + 1], t[j + 1] = s[j], \A i \in 1..N : i # j /\ i # j + 1 => s[i] = t[i]
             PROVE  remainder(Rearranged(s)) # remainder(Rearranged(t))
  BY DEF Exchanged
<1> DEFINE u == Rearranged(s)
           v == Rearranged(t)
<1>1. N \in Nat /\ N >= 5
  OBVIOUS
<1>2. Len(u) = N /\ \A i \in 1..N : u[i] = s[From(i, N)] /\ u[i] \in Int
  BY <1>1, RearrangedFrom, Zenon
<1>3. Len(v) = N /\ \A i \in 1..N : v[i] = t[From(i, N)] /\ v[i] \in Int
  BY <1>1, RearrangedFrom, Zenon
<1>4. \A i \in 1..N : From(i, N) \in 1..N
  BY <1>1, FromFacts, Zenon
<1>5. \A i, k \in 1..N : From(i, N) = From(k, N) => i = k
  BY <1>1, FromFacts, Zenon
<1>6. \A i \in 1..N : u[i] \in Int /\ v[i] \in Int
  BY <1>2, <1>3, Zenon
<1> HIDE DEF u, v
<1>7. ASSUME NEW k \in 1..N, NEW l \in 1..N, From(k, N) = j, From(l, N) = j + 1
      PROVE  /\ u[k] \in 0..9 /\ u[l] \in 0..9 /\ u[k] # u[l] /\ v[k] = u[l] /\ v[l] = u[k]
             /\ \A i \in 1..N : i # k /\ i # l => u[i] = v[i]
  <2>1. u[k] = s[j] /\ v[k] = t[j] /\ u[l] = s[j + 1] /\ v[l] = t[j + 1]
    BY <1>2, <1>3, <1>7, Zenon
  <2>2. \A i \in 1..N : i # k /\ i # l => From(i, N) # j /\ From(i, N) # j + 1
    BY <1>5, <1>7, Zenon
  <2>3. ASSUME NEW i \in 1..N, i # k, i # l PROVE u[i] = v[i]
    <3> DEFINE p == From(i, N)
    <3>1. p \in 1..N /\ p # j /\ p # j + 1 /\ u[i] = s[p] /\ v[i] = t[p]
      BY <1>2, <1>3, <1>4, <2>2, <2>3, ZenonT(60)
    <3> HIDE DEF p
    <3> QED BY <3>1
  <2> QED BY <2>1, <2>3
<1>8. CASE j = 4
  <2>1. 1 \in 1..N /\ N \in 1..N /\ From(N, N) = j /\ From(1, N) = j + 1
    BY <1>8 DEF From
  <2>2. /\ u[N] \in 0..9 /\ u[1] \in 0..9 /\ u[N] # u[1] /\ v[N] = u[1] /\ v[1] = u[N]
        /\ \A i \in 1..N : i # N /\ i # 1 => u[i] = v[i]
    BY <1>7, <2>1
  <2>3. N \in 2..34
    OBVIOUS
  <2>4. remainder(u) # remainder(v)
    BY <1>2, <1>3, <1>6, <2>2, <2>3, EndsTell, ZenonT(60)
  <2> QED BY <2>4 DEF u, v
<1>9. ASSUME NEW k \in 1..N, k + 1 \in 1..N, From(k, N) = j, From(k + 1, N) = j + 1
      PROVE  remainder(u) # remainder(v)
  <2> DEFINE l == k + 1
  <2>1. l \in 1..N /\ From(l, N) = j + 1
    BY <1>9
  <2> HIDE DEF l
  <2>2. /\ u[k] \in 0..9 /\ u[l] \in 0..9 /\ u[k] # u[l] /\ v[k] = u[l] /\ v[l] = u[k]
        /\ \A i \in 1..N : i # k /\ i # l => u[i] = v[i]
    BY <1>7, <1>9, <2>1, Zenon
  <2>3. /\ u[k] \in 0..9 /\ u[k + 1] \in 0..9 /\ u[k] # u[k + 1] /\ v[k] = u[k + 1] /\ v[k + 1] = u[k]
        /\ \A i \in 1..N : i # k /\ i # k + 1 => u[i] = v[i]
    BY <2>2 DEF l
  <2>4. Len(u) = N /\ Len(v) = N /\ k + 1 \in 1..N
    BY <1>2, <1>3, <1>9, Zenon
  <2>5. Exchanged(u, v, k, N)
    BY <1>6, <2>3, <2>4, Zenon DEF Exchanged
  <2> QED BY <1>1, <2>5, ExchangeTells
<1>10. CASE j >= 5
  <2>1. j - 4 \in 1..N /\ (j - 4) + 1 \in 1..N /\ From(j - 4, N) = j /\ From((j - 4) + 1, N) = j + 1
    BY <1>10 DEF From
  <2>2. remainder(u) # remainder(v)
    BY <1>9, <2>1
  <2> QED BY <2>2 DEF u, v
<1>11. CASE j < 4
  <2> DEFINE k == j + (N - 4)
  <2>1. k \in 1..N /\ k + 1 \in 1..N /\ From(k, N) = j /\ From(k + 1, N) = j + 1
    BY <1>11 DEF From
  <2> HIDE DEF k
  <2>2. remainder(u) # remainder(v)
    BY <1>9, <2>1
  <2> QED BY <2>2 DEF u, v
<1> QED
  BY <1>8, <1>10, <1>11

-----------------------------------------------------------------------------
\* What is printed is a text.
LEMMA TextOf ==
  ASSUME NEW s \in Seq(0..37)
  PROVE  /\ s \in Seq(Int) /\ Len(s) \in Nat /\ DOMAIN s = 1..Len(s)
         /\ \A i \in 1..Len(s) : s[i] \in Int
<1> DEFINE C == 0..37
<1>1. s \in Seq(C) /\ C \subseteq Int
  OBVIOUS
<1> HIDE DEF C
<1>2. s \in Seq(Int)
  BY <1>1, SeqWider, Zenon
<1> QED
  BY <1>2, SeqOf

\* _mod97 of a text of digits and letters.
LEMMA Mod97Is ==
  ASSUME NEW s \in Seq(Int)
  PROVE  _mod97(s) = IF \E i \in DOMAIN s : ~(isDigit(s[i]) \/ isAlpha(s[i])) THEN -1 ELSE remainder(Rearranged(s))
BY DEF _mod97, Rearranged

\* A text with its check digits has the remainder that the rules ask for.
LEMMA Mod97Passes ==
  ASSUME NEW s \in Seq(0..37), Len(s) >= 5, Checked(s)
  PROVE  _mod97(s) = 1
<1> DEFINE N == Len(s)
<1>1. s \in Seq(Int) /\ N \in Nat /\ DOMAIN s = 1..N
  BY TextOf
<1>2. remainder(Rearranged(s)) = 1
  BY <1>1, CheckedRemainder
<1>3. \A i \in DOMAIN s : isDigit(s[i]) \/ isAlpha(s[i])
  BY <1>1 DEF Checked, isDigit, isAlpha
<1> QED
  BY <1>1, <1>2, <1>3, Mod97Is, Zenon

\* One read with a digit wrong, or two neighbours exchanged, has not.
LEMMA Mod97Catches ==
  ASSUME NEW s \in Seq(0..37), NEW t \in Seq(Int), NEW N \in 5..34, Len(s) = N, Checked(s),
         NEW j \in 1..N, Mistaken(s, t, j, N) \/ Exchanged(s, t, j, N)
  PROVE  _mod97(t) # 1
<1>1. N \in Nat /\ N >= 5 /\ s \in Seq(Int)
  BY TextOf
<1>2. remainder(Rearranged(s)) = 1
  BY <1>1, CheckedRemainder
<1>3. remainder(Rearranged(t)) # remainder(Rearranged(s))
  <2>1. CASE Mistaken(s, t, j, N)
    BY <1>1, <2>1, MisreadTells, SMTT(60)
  <2>2. CASE Exchanged(s, t, j, N)
    BY <1>1, <2>2, NeighboursTell, Zenon
  <2> QED BY <2>1, <2>2
<1>4. _mod97(t) = IF \E i \in DOMAIN t : ~(isDigit(t[i]) \/ isAlpha(t[i])) THEN -1 ELSE remainder(Rearranged(t))
  BY Mod97Is
<1> QED
  BY <1>2, <1>3, <1>4

\* The rule that a kind of number is read with (passed of MCChecksums).
Accepts(k, s) == IF k = "iban" THEN iban_checksum(s)
                 ELSE IF k = "business_id" THEN business_id_checksum(s) ELSE reference_number(s)

\* A number made as its standard says passes the rule of its field.
LEMMA MadeRightPasses ==
  ASSUME NEW k, NEW s \in Seq(0..37), MadeRight(k, s)
  PROVE  Accepts(k, s)
<1>0. s \in Seq(Int) /\ Len(s) \in Nat /\ DOMAIN s = 1..Len(s) /\ \A i \in 1..Len(s) : s[i] \in Int
  BY TextOf
<1>1. CASE k = "iban" /\ Len(s) \in 15..34 /\ isAlpha(s[1]) /\ isAlpha(s[2]) /\ Checked(s)
           /\ (s[1] = F /\ s[2] = I => Len(s) = 18)
  <2>1. _mod97(s) = 1
    BY <1>0, <1>1, Mod97Passes
  <2>2. isDigit(s[3]) /\ isDigit(s[4])
    BY <1>0, <1>1 DEF Checked, isDigit
  <2>3. SubSeq(s, 1, 2) = <<F, I>> => s[1] = F /\ s[2] = I
    <3>1. SubSeq(s, 1, 2)[1] = s[1] /\ SubSeq(s, 1, 2)[2] = s[2]
      BY <1>0, <1>1
    <3>2. <<F, I>>[1] = F /\ <<F, I>>[2] = I
      OBVIOUS
    <3> SUFFICES ASSUME SubSeq(s, 1, 2) = <<F, I>> PROVE s[1] = F /\ s[2] = I
      OBVIOUS
    <3> QED BY <3>1, <3>2, Zenon
  <2> QED BY <1>1, <2>1, <2>2, <2>3 DEF Accepts, iban_checksum
<1>2. CASE k = "creditor" /\ Len(s) \in 5..25 /\ s[1] = R /\ s[2] = F /\ Checked(s)
  <2>1. _mod97(s) = 1
    BY <1>0, <1>2, Mod97Passes
  <2>2. isDigit(s[3]) /\ isDigit(s[4]) /\ \A i \in 5..Len(s) : isDigit(s[i]) \/ isAlpha(s[i])
    <3>1. s[3] \in 0..9 /\ s[4] \in 0..9 /\ \A i \in 1..Len(s) : s[i] \in 0..35
      BY <1>0, <1>2, Zenon DEF Checked
    <3>2. \A i \in 5..Len(s) : i \in 1..Len(s)
      BY <1>0
    <3> QED BY <3>1, <3>2 DEF isDigit, isAlpha
  <2> QED BY <1>2, <2>1, <2>2 DEF Accepts, reference_number, _rf_reference
<1>3. CASE k = "finnish" /\ Len(s) \in 4..20 /\ AllDigits(s) /\ Balanced(s)
  <2>1. s \in Seq(Int)
    BY <1>0
  <2>2. _finnish_reference(s)
    BY <1>3, <2>1, FinnishPasses
  <2>3. s[1] # R /\ s # <<>>
    <3>1. 1 \in DOMAIN s /\ Len(s) # 0
      BY <1>0, <1>3
    <3>2. s[1] \in 0..9
      BY <1>3, <3>1 DEF AllDigits, isDigit
    <3> QED BY <3>1, <3>2 DEF R
  <2> QED BY <1>3, <2>2, <2>3 DEF Accepts, reference_number
<1>4. CASE k = "business_id" /\ Len(s) = 9 /\ s[8] = Hyphen /\ (\A i \in 1..9 \ {8} : isDigit(s[i])) /\ Elevenfold(s)
  <2>1. IdForm(s)
    BY <1>0, <1>4, Zenon DEF IdForm, isDigit
  <2> QED BY <1>4, <2>1, BusinessIdPasses DEF Accepts
<1> QED
  BY <1>1, <1>2, <1>3, <1>4 DEF MadeRight

\* A number read wrong does not, except a Finnish reference whose exchanged
\* digits differ by five.
LEMMA ReadWrong ==
  ASSUME NEW k, NEW s \in Seq(0..37), MadeRight(k, s), NEW t \in Seq(Int), NEW N \in Nat, Len(s) = N,
         NEW j \in 1..N, Mistaken(s, t, j, N) \/ Exchanged(s, t, j, N), Accepts(k, t)
  PROVE  k = "finnish" /\ Exchanged(s, t, j, N) /\ t[j] - s[j] \in {-5, 5}
<1>0. /\ s \in Seq(Int) /\ DOMAIN s = 1..N /\ \A i \in 1..N : s[i] \in Int
      /\ DOMAIN t = 1..Len(t)
  BY TextOf
<1>1. Len(t) = N /\ \A i \in 1..N : ~(s[i] \in 0..9) => t[i] = s[i]
  BY Zenon DEF Mistaken, Exchanged
<1>2. CASE k = "iban" /\ Len(s) \in 15..34 /\ isAlpha(s[1]) /\ isAlpha(s[2]) /\ Checked(s)
           /\ (s[1] = F /\ s[2] = I => Len(s) = 18)
  <2>1. N \in 5..34
    BY <1>2
  <2>2. _mod97(t) # 1
    BY <1>2, <2>1, Mod97Catches, Zenon
  <2> QED BY <1>2, <2>2 DEF Accepts, iban_checksum
<1>3. CASE k = "creditor" /\ Len(s) \in 5..25 /\ s[1] = R /\ s[2] = F /\ Checked(s)
  <2>1. N \in 5..34
    BY <1>3
  <2>2. _mod97(t) # 1
    BY <1>3, <2>1, Mod97Catches, Zenon
  <2>3. t[1] = R /\ t[2] = F /\ Len(t) >= 2
    <3>1. 1 \in 1..N /\ 2 \in 1..N
      BY <2>1
    <3>2. s[1] = 27 /\ s[2] = 15 /\ ~(27 \in 0..9) /\ ~(15 \in 0..9)
      BY <1>3 DEF R, F
    <3>3. ~(s[1] \in 0..9) /\ ~(s[2] \in 0..9)
      BY <3>2, Zenon
    <3>4. t[1] = s[1] /\ t[2] = s[2]
      BY <1>1, <3>1, <3>3, Zenon
    <3> QED BY <1>1, <1>3, <2>1, <3>4
  <2> QED BY <1>3, <2>2, <2>3 DEF Accepts, reference_number, _rf_reference
<1>4. CASE k = "finnish" /\ Len(s) \in 4..20 /\ AllDigits(s) /\ Balanced(s)
  <2>1. s \in Seq(Int) /\ \A i \in 1..N : t[i] \in 0..9
    <3>1. \A i \in 1..N : s[i] \in 0..9
      BY <1>0, <1>4, Zenon DEF AllDigits, isDigit
    <3>2. CASE Mistaken(s, t, j, N)
      BY <1>0, <3>1, <3>2, Zenon DEF Mistaken
    <3>3. CASE Exchanged(s, t, j, N)
      BY <1>0, <3>1, <3>3, Zenon DEF Exchanged
    <3> QED BY <3>2, <3>3
  <2>2. AllDigits(t) /\ Len(t) \in 4..20 /\ t[1] # R
    <3>1. 1 \in 1..N /\ DOMAIN t = 1..N /\ Len(t) \in 4..20
      BY <1>0, <1>1, <1>4
    <3>2. t[1] # R
      <4>1. t[1] \in 0..9
        BY <2>1, <3>1, Zenon
      <4> QED BY <4>1, SMTT(60) DEF R
    <3> QED BY <2>1, <3>1, <3>2, Zenon DEF AllDigits, isDigit
  <2>3. Balanced(t)
    <3>1. _finnish_reference(t)
      BY <1>4, <2>2 DEF Accepts, reference_number
    <3> QED BY <2>2, <3>1, FinnishPasses
  <2>4. ~Mistaken(s, t, j, N)
    BY <1>4, <2>1, <2>3, FinnishMisread
  <2>5. Exchanged(s, t, j, N)
    BY <2>4
  <2>6. t[j] - s[j] \in {-5, 5}
    BY <1>4, <2>1, <2>3, <2>5, FinnishExchange, Zenon
  <2> QED BY <1>4, <2>5, <2>6
<1>5. CASE k = "business_id" /\ Len(s) = 9 /\ s[8] = Hyphen /\ (\A i \in 1..9 \ {8} : isDigit(s[i])) /\ Elevenfold(s)
  <2>1. IdForm(s)
    BY <1>0, <1>5 DEF IdForm, isDigit
  <2>2. IdForm(t)
    <3>1. t[8] = Hyphen /\ Len(t) = 9
      BY <1>1, <1>5 DEF Hyphen
    <3>2. \A i \in 1..9 \ {8} : t[i] \in 0..9
      <4>1. \A i \in 1..9 \ {8} : s[i] \in 0..9
        BY <2>1, Zenon DEF IdForm
      <4>2. CASE Mistaken(s, t, j, N)
        BY <1>5, <4>1, <4>2, Zenon DEF Mistaken
      <4>3. CASE Exchanged(s, t, j, N)
        BY <1>5, <4>1, <4>3, Zenon DEF Exchanged
      <4> QED BY <4>2, <4>3
    <3> QED BY <3>1, <3>2 DEF IdForm
  <2>3. ~Mistaken(s, t, j, N)
    <3> SUFFICES ASSUME Mistaken(s, t, j, N) PROVE FALSE
      OBVIOUS
    <3>1. j \in 1..9 \ {8}
      <4>1. s[j] \in 0..9 /\ ~(36 \in 0..9) /\ s[8] = 36 /\ N = 9
        BY <1>5 DEF Mistaken, Hyphen
      <4> QED BY <4>1
    <3>2. Mistaken(s, t, j, 9)
      BY <1>5
    <3> QED BY <1>5, <2>1, <2>2, <3>1, <3>2, BusinessIdMisread DEF Accepts
  <2>4. ~Exchanged(s, t, j, N)
    <3> SUFFICES ASSUME Exchanged(s, t, j, N) PROVE FALSE
      OBVIOUS
    <3>1. j \in 1..6
      <4>1. /\ s[j] \in 0..9 /\ s[j + 1] \in 0..9 /\ ~(36 \in 0..9) /\ s[8] = 36
            /\ N = 9 /\ j + 1 \in 1..N
        BY <1>5 DEF Exchanged, Hyphen
      <4>2. j # 8 /\ j + 1 # 8
        BY <4>1
      <4> QED BY <4>1, <4>2
    <3>2. Exchanged(s, t, j, 9)
      BY <1>5
    <3> QED BY <1>5, <2>1, <2>2, <3>1, <3>2, BusinessIdExchange DEF Accepts
  <2> QED BY <2>3, <2>4
<1> QED
  BY <1>2, <1>3, <1>4, <1>5 DEF MadeRight

-----------------------------------------------------------------------------
\* What Misread leaves behind.
LEMMA MistakenBy ==
  ASSUME NEW s \in Seq(0..37), NEW j \in DOMAIN s, NEW d \in 0..9, isDigit(s[j]), d # s[j]
  PROVE  /\ j \in 1..Len(s) /\ [s EXCEPT ![j] = d] \in Seq(Int)
         /\ Mistaken(s, [s EXCEPT ![j] = d], j, Len(s))
<1> DEFINE t == [s EXCEPT ![j] = d]
<1>1. s \in Seq(Int) /\ Len(s) \in Nat /\ DOMAIN s = 1..Len(s) /\ \A i \in 1..Len(s) : s[i] \in Int
  BY TextOf
<1>2. t \in Seq(Int) /\ Len(t) = Len(s) /\ t[j] = d /\ \A i \in 1..Len(s) : i # j => t[i] = s[i]
  BY <1>1
<1>3. j \in 1..Len(s) /\ s[j] \in 0..9 /\ \A i \in 1..Len(s) : t[i] \in Int
  BY <1>1, <1>2 DEF isDigit
<1> HIDE DEF t
<1>4. Mistaken(s, t, j, Len(s))
  BY <1>1, <1>2, <1>3, Zenon DEF Mistaken
<1> QED
  BY <1>2, <1>3, <1>4 DEF t

\* What Exchange leaves behind.
LEMMA ExchangedBy ==
  ASSUME NEW s \in Seq(0..37), NEW j \in DOMAIN s, j + 1 \in DOMAIN s, isDigit(s[j]), isDigit(s[j + 1]),
         s[j] # s[j + 1]
  PROVE  /\ j \in 1..Len(s) /\ [s EXCEPT ![j] = s[j + 1], ![j + 1] = s[j]] \in Seq(Int)
         /\ Exchanged(s, [s EXCEPT ![j] = s[j + 1], ![j + 1] = s[j]], j, Len(s))
<1> DEFINE u == [s EXCEPT ![j] = s[j + 1]]
           t == [s EXCEPT ![j] = s[j + 1], ![j + 1] = s[j]]
           k == j + 1
<1>1. s \in Seq(Int) /\ Len(s) \in Nat /\ DOMAIN s = 1..Len(s) /\ \A i \in 1..Len(s) : s[i] \in Int
  BY TextOf
<1>2. j \in 1..Len(s) /\ k \in 1..Len(s) /\ k # j /\ s[j] \in 0..9 /\ s[k] \in 0..9
  BY <1>1 DEF isDigit
<1>3. u \in Seq(Int) /\ Len(u) = Len(s) /\ u[j] = s[k] /\ \A i \in 1..Len(s) : i # j => u[i] = s[i]
  BY <1>1, <1>2
<1>4. t = [u EXCEPT ![k] = s[j]]
  OBVIOUS
<1> HIDE DEF u, t, k
<1>5. t \in Seq(Int) /\ Len(t) = Len(s) /\ t[k] = s[j] /\ \A i \in 1..Len(s) : i # k => t[i] = u[i]
  BY <1>1, <1>2, <1>3, <1>4
<1>6. t[j] = s[k] /\ \A i \in 1..Len(s) : i # j /\ i # k => s[i] = t[i]
  BY <1>2, <1>3, <1>5, Zenon
<1>7. \A i \in 1..Len(s) : t[i] \in Int
  BY <1>5, SeqOf
<1>8. Exchanged(s, t, j, Len(s))
  BY <1>1, <1>2, <1>5, <1>6, <1>7 DEF Exchanged, k
<1> QED
  BY <1>2, <1>5, <1>8 DEF t

\* One digit wrong is not two exchanged.
LEMMA OneError ==
  ASSUME NEW s, NEW t, NEW N \in Nat, NEW j \in 1..N, Mistaken(s, t, j, N)
  PROVE  ~Exchanged(s, t, j, N)
<1> DEFINE k == j + 1
<1> SUFFICES ASSUME Exchanged(s, t, j, N) PROVE FALSE
  OBVIOUS
<1>1. k \in 1..N /\ k # j /\ t[k] # s[k]
  BY DEF Exchanged
<1> HIDE DEF k
<1> QED
  BY <1>1 DEF Mistaken

\* What is read comes from what was printed, which is as its standard has it.
NumberInv ==
    /\ phase \in {"read", "misread", "exchanged"} => printed \in Seq(0..37) /\ MadeRight(kind, printed)
    /\ phase = "read" => read = printed
    /\ phase = "misread" =>
           \E i \in DOMAIN printed, d \in 0..9 :
               isDigit(printed[i]) /\ d # printed[i] /\ read = [printed EXCEPT ![i] = d]
    /\ phase = "exchanged" =>
           \E i \in DOMAIN printed :
               /\ i + 1 \in DOMAIN printed /\ isDigit(printed[i]) /\ isDigit(printed[i + 1])
               /\ printed[i] # printed[i + 1]
               /\ read = [printed EXCEPT ![i] = printed[i + 1], ![i + 1] = printed[i]]

\* NumberInv holds whatever suppliers print and however it is read
\* (PrintNumber, Misread, Exchange, NumberDone).
LEMMA NumbersAreRead == NumberSpec => []NumberInv
<1>1. NumberInit => NumberInv
  BY DEF NumberInit, NumberInv
<1>2. NumberInv /\ [NumberNext]_<<phase, numberVars>> => NumberInv'
  <2> SUFFICES ASSUME NumberInv, [NumberNext]_<<phase, numberVars>> PROVE NumberInv'
    OBVIOUS
  <2>1. ASSUME phase = "idle", NEW x \in Numbers, PrintNumber(x) PROVE NumberInv'
    <3>1. x.text \in Seq(0..37) /\ MadeRight(x.kind, x.text)
      BY NumbersAssumption
    <3>2. phase' = "read" /\ kind' = x.kind /\ printed' = x.text /\ read' = x.text
      BY <2>1 DEF PrintNumber
    <3>3. printed' \in Seq(0..37) /\ MadeRight(kind', printed') /\ read' = printed'
      BY <3>1, <3>2, Zenon
    <3> QED BY <3>2, <3>3 DEF NumberInv
  <2>2. ASSUME phase = "read", NEW i \in DOMAIN read, Exchange(i) PROVE NumberInv'
    <3>1. printed \in Seq(0..37) /\ MadeRight(kind, printed) /\ read = printed
      BY <2>2 DEF NumberInv
    <3>2. phase' = "exchanged" /\ kind' = kind /\ printed' = printed
      BY <2>2 DEF Exchange
    <3>3. /\ i \in DOMAIN printed /\ i + 1 \in DOMAIN printed /\ isDigit(printed[i]) /\ isDigit(printed[i + 1])
          /\ printed[i] # printed[i + 1]
          /\ read' = [printed EXCEPT ![i] = printed[i + 1], ![i + 1] = printed[i]]
      BY <2>2, <3>1, Zenon DEF Exchange
    <3> QED BY <3>1, <3>2, <3>3, Zenon DEF NumberInv
  <2>3. ASSUME phase = "read", NEW i \in DOMAIN read, NEW d \in 0..9, Misread(i, d) PROVE NumberInv'
    <3>1. printed \in Seq(0..37) /\ MadeRight(kind, printed) /\ read = printed
      BY <2>3 DEF NumberInv
    <3>2. phase' = "misread" /\ kind' = kind /\ printed' = printed
      BY <2>3 DEF Misread
    <3>3. /\ i \in DOMAIN printed /\ isDigit(printed[i]) /\ d # printed[i]
          /\ read' = [printed EXCEPT ![i] = d]
      BY <2>3, <3>1, Zenon DEF Misread
    <3> QED BY <3>1, <3>2, <3>3, Zenon DEF NumberInv
  <2>4. ASSUME NumberDone PROVE NumberInv'
    BY <2>4 DEF NumberDone, NumberInv
  <2>5. ASSUME UNCHANGED <<phase, numberVars>> PROVE NumberInv'
    BY <2>5 DEF numberVars, NumberInv
  <2> QED BY <2>1, <2>2, <2>3, <2>4, <2>5 DEF NumberNext
<1> QED
  BY <1>1, <1>2, PTL DEF NumberSpec

\* The rules of P02 pass every IBAN, creditor reference, Finnish reference and
\* business id made as its standard says, of any length the standard allows
\* (iban_checksum, reference_number, business_id_checksum).
THEOREM StandardNumbersPass == NumberSpec => []CorrectIsPassed
<1>1. NumberInv => CorrectIsPassed
  <2> SUFFICES ASSUME NumberInv, phase = "read" PROVE passed
    BY DEF CorrectIsPassed
  <2>1. printed \in Seq(0..37) /\ MadeRight(kind, printed) /\ read = printed
    BY DEF NumberInv
  <2>2. Accepts(kind, printed)
    BY <2>1, MadeRightPasses
  <2> QED BY <2>1, <2>2 DEF Accepts, passed
<1> QED
  BY <1>1, NumbersAreRead, PTL

\* They reject every such number read with one digit wrong, and every one read with
\* two neighbouring digits exchanged, but for a Finnish reference whose exchanged
\* digits differ by five.
THEOREM ReadingErrorsCaught == NumberSpec => []WrongIsCaught
<1>1. NumberInv => WrongIsCaught
  <2> SUFFICES ASSUME NumberInv PROVE WrongIsCaught
    OBVIOUS
  <2>1. passed <=> Accepts(kind, read)
    BY DEF Accepts, passed
  <2>2. CASE phase = "misread"
    <3>1. printed \in Seq(0..37) /\ MadeRight(kind, printed)
      BY <2>2 DEF NumberInv
    <3>2. PICK i \in DOMAIN printed, d \in 0..9 :
              isDigit(printed[i]) /\ d # printed[i] /\ read = [printed EXCEPT ![i] = d]
      BY <2>2, SMTT(60) DEF NumberInv
    <3> DEFINE N == Len(printed)
    <3>3. N \in Nat /\ i \in 1..N /\ read \in Seq(Int) /\ Mistaken(printed, read, i, N)
      BY <3>1, <3>2, MistakenBy, TextOf, Zenon
    <3>4. ~Exchanged(printed, read, i, N)
      BY <3>3, OneError
    <3> HIDE DEF N
    <3>5. ~Accepts(kind, read)
      BY <3>1, <3>3, <3>4, ReadWrong DEF N
    <3> QED BY <2>1, <2>2, <3>5 DEF WrongIsCaught
  <2>3. CASE phase = "exchanged"
    <3>1. printed \in Seq(0..37) /\ MadeRight(kind, printed)
      BY <2>3 DEF NumberInv
    <3>2. PICK i \in DOMAIN printed :
              /\ i + 1 \in DOMAIN printed /\ isDigit(printed[i]) /\ isDigit(printed[i + 1])
              /\ printed[i] # printed[i + 1]
              /\ read = [printed EXCEPT ![i] = printed[i + 1], ![i + 1] = printed[i]]
      BY <2>3 DEF NumberInv
    <3> DEFINE N == Len(printed)
    <3>3. N \in Nat /\ i \in 1..N /\ read \in Seq(Int) /\ Exchanged(printed, read, i, N)
      BY <3>1, <3>2, ExchangedBy, TextOf, Zenon
    <3>4. i \in DOMAIN read /\ read[i] # printed[i]
      BY <3>3 DEF Exchanged
    <3>5. ASSUME Accepts(kind, read) PROVE kind = "finnish" /\ read[i] - printed[i] \in {-5, 5}
      <4> HIDE DEF N
      <4> QED BY <3>1, <3>3, <3>5, ReadWrong DEF N
    <3> QED BY <2>1, <2>3, <3>4, <3>5 DEF WrongIsCaught
  <2>4. CASE phase # "misread" /\ phase # "exchanged"
    BY <2>4 DEF WrongIsCaught
  <2> QED BY <2>2, <2>3, <2>4
<1> QED
  BY <1>1, NumbersAreRead, PTL
=============================================================================
