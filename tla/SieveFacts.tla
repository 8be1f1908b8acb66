----------------------------- MODULE SieveFacts -----------------------------
(***************************************************************************)
(* What Kept returns, for every list.  The induction over the length is    *)
(* carried out by hand, from the least length at which a claim would fail: *)
(* the library's induction rules take the claim as an operator.            *)
(***************************************************************************)
EXTENDS Sieve, TLAPS, WellFoundedInduction

\* Every non-empty set of naturals has a least element, the form of induction
\* the proofs below use.
LEMMA LeastNat ==
  ASSUME NEW T, T \subseteq Nat, T # {}
  PROVE  \E x \in T : \A y \in T : x <= y
<1> DEFINE R == OpToRel(<, Nat)
<1>1. IsWellFoundedOn(R, Nat)
  BY NatLessThanWellFounded
<1> HIDE DEF R
<1>2. PICK x \in T : \A y \in T : ~ (<<y, x>> \in R)
  BY <1>1, WFMin
<1>3. \A y \in T : ~ (y < x)
  BY <1>2 DEF R, OpToRel
<1> QED BY <1>3

\* The elements a list holds more than once.
Twice(s) == {e \in Elements(s) : \E i, j \in DOMAIN s : i # j /\ s[i] = e /\ s[j] = e}

\* Appending to a list adds one element, and repeats it only if it was there.
LEMMA AppendElements ==
  ASSUME NEW X, NEW g \in Seq(X), NEW e \in X
  PROVE  /\ Append(g, e) \in Seq(X)
         /\ Elements(Append(g, e)) = Elements(g) \cup {e}
         /\ \A x \in Twice(Append(g, e)) : x \in Twice(g) \/ (x = e /\ e \in Elements(g))
<1> DEFINE h == Append(g, e)
<1>1. h \in Seq(X) /\ DOMAIN h = 1..(Len(g) + 1) /\ DOMAIN g = 1..Len(g) /\ Len(g) \in Nat
  OBVIOUS
<1>2. h[Len(g) + 1] = e /\ \A i \in 1..Len(g) : h[i] = g[i]
  OBVIOUS
<1> HIDE DEF h
<1>3. Elements(h) \subseteq Elements(g) \cup {e}
  BY <1>1, <1>2 DEF Elements
<1>4. Elements(g) \subseteq Elements(h)
  <2> SUFFICES ASSUME NEW i \in DOMAIN g PROVE g[i] \in Elements(h)
    BY DEF Elements
  <2>1. i \in DOMAIN h /\ h[i] = g[i]
    BY <1>1, <1>2
  <2> QED BY <2>1 DEF Elements
<1>5. e \in Elements(h)
  <2>1. Len(g) + 1 \in DOMAIN h
    BY <1>1
  <2> QED BY <2>1, <1>2 DEF Elements
<1>6. ASSUME NEW x \in Twice(h)
      PROVE  x \in Twice(g) \/ (x = e /\ e \in Elements(g))
  <2>1. PICK i \in DOMAIN h, j \in DOMAIN h : i # j /\ h[i] = x /\ h[j] = x
    BY <1>6 DEF Twice
  <2>2. CASE i \in 1..Len(g) /\ j \in 1..Len(g)
    <3>1. i \in DOMAIN g /\ j \in DOMAIN g /\ g[i] = x /\ g[j] = x
      BY <2>1, <2>2, <1>1, <1>2
    <3> QED BY <3>1, <2>1 DEF Twice, Elements
  <2>3. CASE i = Len(g) + 1
    <3>1. j \in DOMAIN g /\ g[j] = e /\ x = e
      BY <2>1, <2>3, <1>1, <1>2
    <3> QED BY <3>1 DEF Elements
  <2>4. CASE j = Len(g) + 1
    <3>1. i \in DOMAIN g /\ g[i] = e /\ x = e
      BY <2>1, <2>4, <1>1, <1>2
    <3> QED BY <3>1 DEF Elements
  <2> QED BY <2>2, <2>3, <2>4, <1>1
<1> QED BY <1>1, <1>3, <1>4, <1>5, <1>6 DEF h

\* Dropping the first of a list leaves the others, and the first among them
\* only if the list held it more than once.
LEMMA TailElements ==
  ASSUME NEW X, NEW g \in Seq(X), g # <<>>
  PROVE  /\ Head(g) \in Elements(g) /\ Head(g) \in X /\ Tail(g) \in Seq(X)
         /\ Elements(g) = {Head(g)} \cup Elements(Tail(g))
         /\ Twice(Tail(g)) \subseteq Twice(g)
         /\ Head(g) \in Elements(Tail(g)) => Head(g) \in Twice(g)
<1> DEFINE h == Tail(g)
<1>1. /\ h \in Seq(X) /\ Len(g) \in Nat /\ Len(g) > 0 /\ Head(g) = g[1]
      /\ DOMAIN h = 1..(Len(g) - 1) /\ DOMAIN g = 1..Len(g)
      /\ \A i \in 1..(Len(g) - 1) : h[i] = g[i + 1]
  OBVIOUS
<1>2. Head(g) \in Elements(g) /\ Head(g) \in X
  BY <1>1 DEF Elements
<1> HIDE DEF h
<1>3. Elements(h) \subseteq Elements(g)
  <2> SUFFICES ASSUME NEW i \in DOMAIN h PROVE h[i] \in Elements(g)
    BY DEF Elements
  <2>1. i + 1 \in DOMAIN g /\ h[i] = g[i + 1]
    BY <1>1
  <2> QED BY <2>1 DEF Elements
<1>4. Elements(g) \subseteq {Head(g)} \cup Elements(h)
  <2> SUFFICES ASSUME NEW i \in DOMAIN g, i # 1 PROVE g[i] \in Elements(h)
    BY <1>1 DEF Elements
  <2>1. i - 1 \in DOMAIN h /\ h[i - 1] = g[i]
    BY <1>1
  <2> QED BY <2>1 DEF Elements
<1>5. Twice(h) \subseteq Twice(g)
  <2> SUFFICES ASSUME NEW x \in Twice(h) PROVE x \in Twice(g)
    OBVIOUS
  <2>1. PICK i \in DOMAIN h, j \in DOMAIN h : i # j /\ h[i] = x /\ h[j] = x
    BY DEF Twice
  <2>2. /\ i + 1 \in DOMAIN g /\ j + 1 \in DOMAIN g /\ i + 1 # j + 1
        /\ g[i + 1] = x /\ g[j + 1] = x
    BY <2>1, <1>1
  <2> QED BY <2>2 DEF Twice, Elements
<1>6. Head(g) \in Elements(h) => Head(g) \in Twice(g)
  <2> SUFFICES ASSUME NEW i \in DOMAIN h, h[i] = Head(g) PROVE Head(g) \in Twice(g)
    BY DEF Elements
  <2>1. i + 1 \in DOMAIN g /\ 1 \in DOMAIN g /\ i + 1 # 1 /\ g[i + 1] = Head(g) /\ g[1] = Head(g)
    BY <1>1
  <2> QED BY <2>1 DEF Twice, Elements
<1> QED BY <1>1, <1>2, <1>3, <1>4, <1>5, <1>6 DEF h

\* The first n steps of the filtering loop over s.
Prefix(s, S, n, G) ==
  G = [i \in 0..n |-> IF i = 0 THEN <<>>
                      ELSE IF s[i] \in S THEN Append(G[i - 1], s[i]) ELSE G[i - 1]]

\* The loop has an outcome: the recursion that defines Kept is well founded.
LEMMA PrefixExists ==
  ASSUME NEW s, NEW S, NEW n \in Nat
  PROVE  \E G : Prefix(s, S, n, G)
<1> DEFINE Bad == {k \in Nat : ~ \E G : Prefix(s, S, k, G)}
<1> SUFFICES ASSUME Bad # {} PROVE FALSE
  OBVIOUS
<1>1. PICK m \in Bad : \A k \in Bad : m <= k
  BY LeastNat
<1>2. m # 0
  <2>1. Prefix(s, S, 0, [i \in 0..0 |-> <<>>])
    BY DEF Prefix
  <2> QED BY <2>1
<1>3. PICK G : Prefix(s, S, m - 1, G)
  <2>1. m - 1 \in Nat /\ ~(m <= m - 1)
    BY <1>2
  <2> QED BY <2>1, <1>1
<1> DEFINE last == IF s[m] \in S THEN Append(G[m - 1], s[m]) ELSE G[m - 1]
           H == [i \in 0..m |-> IF i = m THEN last ELSE G[i]]
<1>4. \A i \in 0..m : H[i] = IF i = 0 THEN <<>>
                             ELSE IF s[i] \in S THEN Append(H[i - 1], s[i]) ELSE H[i - 1]
  <2> SUFFICES ASSUME NEW i \in 0..m
               PROVE  H[i] = IF i = 0 THEN <<>>
                             ELSE IF s[i] \in S THEN Append(H[i - 1], s[i]) ELSE H[i - 1]
    OBVIOUS
  <2>1. CASE i = m
    <3>1. H[i] = last /\ H[i - 1] = G[i - 1]
      BY <2>1, <1>2
    <3> QED BY <3>1, <2>1, <1>2
  <2>2. CASE i # m /\ i # 0
    <3>1. H[i] = G[i] /\ H[i - 1] = G[i - 1] /\ i \in 0..(m - 1)
      BY <2>2, <1>2
    <3>2. G[i] = IF s[i] \in S THEN Append(G[i - 1], s[i]) ELSE G[i - 1]
      BY <3>1, <2>2, <1>3 DEF Prefix
    <3> QED BY <3>1, <3>2, <2>2
  <2>3. CASE i # m /\ i = 0
    <3>1. H[i] = G[i] /\ i \in 0..(m - 1)
      BY <2>3, <1>2
    <3> QED BY <3>1, <2>3, <1>3 DEF Prefix
  <2> QED BY <2>1, <2>2, <2>3
<1>5. Prefix(s, S, m, H)
  BY <1>4 DEF Prefix
<1> QED BY <1>5

\* What filtering returns: a list over the same values, that holds exactly the
\* entries of the original that are in S, and none more often than it did.
LEMMA KeptFacts ==
  ASSUME NEW X, NEW s \in Seq(X), NEW S
  PROVE  /\ Kept(s, S) \in Seq(X)
         /\ Elements(Kept(s, S)) = Elements(s) \cap S
         /\ Twice(Kept(s, S)) \subseteq Twice(s)
<1> DEFINE N == Len(s)
           F == CHOOSE G : Prefix(s, S, N, G)
           Good(k) == /\ F[k] \in Seq(X)
                      /\ Elements(F[k]) = {s[i] : i \in 1..k} \cap S
                      /\ Twice(F[k]) \subseteq Twice(s)
           Bad == {k \in 0..N : ~Good(k)}
<1>1. N \in Nat /\ DOMAIN s = 1..N
  OBVIOUS
<1>2. Prefix(s, S, N, F)
  BY <1>1, PrefixExists
<1>3. Kept(s, S) = F[N]
  BY DEF Kept, Prefix
<1> HIDE DEF F
<1>4. Bad = {}
  <2> SUFFICES ASSUME Bad # {} PROVE FALSE
    OBVIOUS
  <2>1. PICK m \in Bad : \A k \in Bad : m <= k
    <3>1. Bad \subseteq Nat
      BY <1>1
    <3> QED BY <3>1, LeastNat
  <2>2. m # 0
    <3>1. F[0] = <<>>
      BY <1>1, <1>2 DEF Prefix
    <3>2. Good(0)
      BY <3>1 DEF Elements, Twice
    <3> QED BY <3>2
  <2>3. Good(m - 1) /\ m - 1 \in 0..N /\ m \in 1..N
    <3>1. m - 1 \in 0..N /\ ~(m <= m - 1) /\ m \in 1..N
      BY <2>2, <1>1
    <3> QED BY <3>1, <2>1
  <2>4. F[m] = IF s[m] \in S THEN Append(F[m - 1], s[m]) ELSE F[m - 1]
    BY <2>2, <1>2, <1>1 DEF Prefix
  <2>5. s[m] \in X
    BY <2>3, <1>1
  <2>6. {s[i] : i \in 1..m} = {s[i] : i \in 1..(m - 1)} \cup {s[m]}
    BY <2>3, <1>1
  <2>7. F[m] \in Seq(X)
    BY <2>3, <2>4, <2>5
  <2>8. Elements(F[m]) = {s[i] : i \in 1..m} \cap S
    <3> DEFINE g == F[m - 1]
    <3> HIDE DEF g
    <3>0. g \in Seq(X) /\ Elements(g) = {s[i] : i \in 1..(m - 1)} \cap S
      BY <2>3 DEF g
    <3>1. Elements(Append(g, s[m])) = Elements(g) \cup {s[m]}
      BY <3>0, <2>5, AppendElements
    <3>2. CASE s[m] \in S
      BY <3>0, <3>1, <3>2, <2>4, <2>6 DEF g
    <3>3. CASE s[m] \notin S
      BY <3>0, <3>3, <2>4, <2>6 DEF g
    <3> QED BY <3>2, <3>3
  <2>9. Twice(F[m]) \subseteq Twice(s)
    <3> DEFINE g == F[m - 1]
    <3> HIDE DEF g
    <3>1. /\ g \in Seq(X) /\ Twice(g) \subseteq Twice(s)
          /\ Elements(g) = {s[i] : i \in 1..(m - 1)} \cap S
      BY <2>3 DEF g
    <3>2. s[m] \in Elements(g) => s[m] \in Twice(s)
      <4> SUFFICES ASSUME NEW i \in 1..(m - 1), s[i] = s[m] PROVE s[m] \in Twice(s)
        BY <3>1
      <4>1. i \in DOMAIN s /\ m \in DOMAIN s /\ i # m
        BY <2>3, <1>1
      <4> QED BY <4>1 DEF Twice, Elements
    <3>3. \A x \in Twice(Append(g, s[m])) : x \in Twice(g) \/ (x = s[m] /\ s[m] \in Elements(g))
      BY <3>1, <2>5, AppendElements
    <3>4. CASE s[m] \in S
      BY <3>1, <3>2, <3>3, <3>4, <2>4 DEF g
    <3>5. CASE s[m] \notin S
      BY <3>1, <3>5, <2>4 DEF g
    <3> QED BY <3>4, <3>5
  <2>10. Good(m)
    BY <2>7, <2>8, <2>9
  <2> QED BY <2>10
<1>5. Good(N)
  <2>1. N \in 0..N
    BY <1>1
  <2> QED BY <2>1, <1>4
<1>6. {s[i] : i \in 1..N} = Elements(s)
  BY <1>1 DEF Elements
<1> QED BY <1>3, <1>5, <1>6
\* The entries of s come in the order R.
Ordered(s, R) == \A i, j \in DOMAIN s : i < j => <<s[i], s[j]>> \in R

\* Filtering keeps the order.
LEMMA KeptOrdered ==
  ASSUME NEW X, NEW s \in Seq(X), NEW S, NEW R, Ordered(s, R)
  PROVE  Ordered(Kept(s, S), R)
<1> DEFINE N == Len(s)
           F == CHOOSE G : Prefix(s, S, N, G)
           Good(k) == /\ F[k] \in Seq(X)
                      /\ \A i \in DOMAIN F[k] : \E j \in 1..k : F[k][i] = s[j]
                      /\ Ordered(F[k], R)
           Bad == {k \in 0..N : ~Good(k)}
<1>1. N \in Nat /\ DOMAIN s = 1..N
  OBVIOUS
<1>2. Prefix(s, S, N, F)
  BY <1>1, PrefixExists
<1>3. Kept(s, S) = F[N]
  BY DEF Kept, Prefix
<1> HIDE DEF F
<1>4. Bad = {}
  <2> SUFFICES ASSUME Bad # {} PROVE FALSE
    OBVIOUS
  <2>1. PICK m \in Bad : \A k \in Bad : m <= k
    <3>1. Bad \subseteq Nat
      BY <1>1
    <3> QED BY <3>1, LeastNat
  <2>2. m # 0
    <3>1. F[0] = <<>>
      BY <1>1, <1>2 DEF Prefix
    <3>2. Good(0)
      BY <3>1 DEF Ordered
    <3> QED BY <3>2
  <2>3. Good(m - 1) /\ m - 1 \in 0..N /\ m \in 1..N
    <3>1. m - 1 \in 0..N /\ ~(m <= m - 1) /\ m \in 1..N
      BY <2>2, <1>1
    <3> QED BY <3>1, <2>1
  <2> DEFINE g == F[m - 1]
  <2>4. F[m] = IF s[m] \in S THEN Append(g, s[m]) ELSE g
    BY <2>2, <1>2, <1>1 DEF Prefix
  <2>5. s[m] \in X
    BY <2>3, <1>1
  <2>6. /\ g \in Seq(X) /\ Ordered(g, R)
        /\ \A i \in DOMAIN g : \E j \in 1..(m - 1) : g[i] = s[j]
    BY <2>3
  <2> HIDE DEF g
  <2> DEFINE h == Append(g, s[m])
  <2>7. /\ h \in Seq(X) /\ DOMAIN h = 1..(Len(g) + 1) /\ DOMAIN g = 1..Len(g)
        /\ Len(g) \in Nat /\ h[Len(g) + 1] = s[m] /\ \A i \in 1..Len(g) : h[i] = g[i]
    BY <2>5, <2>6
  <2> HIDE DEF h
  <2>8. \A i \in DOMAIN h : \E j \in 1..m : h[i] = s[j]
    BY <2>3, <2>6, <2>7
  <2>9. Ordered(h, R)
    <3> SUFFICES ASSUME NEW i \in DOMAIN h, NEW j \in DOMAIN h, i < j
                 PROVE  <<h[i], h[j]>> \in R
      BY DEF Ordered
    <3>1. i \in DOMAIN g /\ h[i] = g[i]
      BY <2>7
    <3>2. CASE j \in DOMAIN g
      BY <3>1, <3>2, <2>6, <2>7 DEF Ordered
    <3>3. CASE j \notin DOMAIN g
      <4>1. h[j] = s[m]
        BY <3>3, <2>7
      <4>2. PICK k \in 1..(m - 1) : g[i] = s[k]
        BY <3>1, <2>6
      <4>3. k \in DOMAIN s /\ m \in DOMAIN s /\ k < m
        BY <2>3, <1>1
      <4> QED BY <3>1, <4>1, <4>2, <4>3 DEF Ordered
    <3> QED BY <3>2, <3>3
  <2>10. \A i \in DOMAIN g : \E j \in 1..m : g[i] = s[j]
    BY <2>3, <2>6
  <2>11. Good(m)
    BY <2>4, <2>6, <2>7, <2>8, <2>9, <2>10 DEF h
  <2> QED BY <2>11
<1>5. N \in 0..N
  BY <1>1
<1> QED BY <1>3, <1>4, <1>5
=============================================================================
