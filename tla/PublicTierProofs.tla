--------------------------- MODULE PublicTierProofs ---------------------------
(***************************************************************************)
(* Theorems about PublicReads and SlugRedirects: for any finite set of     *)
(* posts, of tag rows and of tags, any size of pages and number of instants *)
(* and of visits; for any finite set of slugs and any editors, rows and names.    *)
(***************************************************************************)
EXTENDS PublicReads, SlugRedirects, FiniteSetTheorems, FunctionTheorems, TLAPS

-----------------------------------------------------------------------------
(* Induction and iteration, for sets and functions *)

\* A set with 0 in it that is closed under successors has every number in it.
LEMMA NatClosure ==
  ASSUME NEW S, 0 \in S, \A n \in Nat : n \in S => n + 1 \in S
  PROVE  Nat \subseteq S
<1> SUFFICES ASSUME Nat \ S # {} PROVE FALSE
  OBVIOUS
<1>1. PICK n \in Nat \ S : \A m \in Nat \ S : ~(<<m, n>> \in OpToRel(<, Nat))
  BY NatLessThanWellFounded, WFMin
<1>2. n # 0
  OBVIOUS
<1>3. n - 1 \in Nat /\ n - 1 < n /\ (n - 1) + 1 = n
  BY <1>2
<1>4. n - 1 \in S
  BY <1>1, <1>3 DEF OpToRel
<1> QED
  BY <1>3, <1>4

\* Two finite runs of a step function from the same start agree.
LEMMA RunsAgree ==
  ASSUME NEW Step, NEW n \in Nat, NEW f, NEW g, f[0] = g[0],
         \A i \in 1..n : f[i] = Step[f[i - 1]] /\ g[i] = Step[g[i - 1]]
  PROVE  \A i \in 0..n : f[i] = g[i]
<1> DEFINE S == {i \in Nat : i <= n => f[i] = g[i]}
<1>1. 0 \in S
  OBVIOUS
<1>2. ASSUME NEW i \in Nat, i \in S PROVE i + 1 \in S
  <2> SUFFICES ASSUME i + 1 <= n PROVE f[i + 1] = g[i + 1]
    OBVIOUS
  <2>1. i + 1 \in 1..n /\ (i + 1) - 1 = i /\ i <= n
    OBVIOUS
  <2>2. f[i] = g[i]
    BY <1>2, <2>1
  <2> QED
    BY <2>1, <2>2
<1> HIDE DEF S
<1>3. Nat \subseteq S
  BY <1>1, <1>2, NatClosure
<1> QED
  BY <1>3 DEF S

\* A step function can be iterated from any start.
LEMMA Iteration ==
  ASSUME NEW D, NEW Step \in [D -> D], NEW d \in D
  PROVE  \E f \in [Nat -> D] : f[0] = d /\ \A n \in Nat \ {0} : f[n] = Step[f[n - 1]]
<1> DEFINE Run(n, f) == f \in [0..n -> D] /\ f[0] = d /\ \A i \in 1..n : f[i] = Step[f[i - 1]]
           S == {n \in Nat : \E f : Run(n, f)}
<1>1. 0 \in S
  <2>1. Run(0, [i \in 0..0 |-> d])
    OBVIOUS
  <2> QED
    BY <2>1
<1>2. ASSUME NEW n \in Nat, n \in S PROVE n + 1 \in S
  <2>1. PICK f : Run(n, f)
    BY <1>2
  <2> DEFINE g == [i \in 0..(n + 1) |-> IF i = n + 1 THEN Step[f[n]] ELSE f[i]]
  <2>2. g \in [0..(n + 1) -> D] /\ g[0] = d
    <3>1. ASSUME NEW i \in 0..(n + 1)
          PROVE  (IF i = n + 1 THEN Step[f[n]] ELSE f[i]) \in D
      <4>1. CASE i = n + 1
        BY <2>1, <4>1
      <4>2. CASE i # n + 1
        <5>1. i \in 0..n
          BY <4>2
        <5> QED
          BY <2>1, <4>2, <5>1
      <4> QED
        BY <4>1, <4>2
    <3>2. 0 \in 0..(n + 1) /\ 0 # n + 1
      OBVIOUS
    <3> QED
      BY <2>1, <3>1, <3>2
  <2>3. ASSUME NEW i \in 1..(n + 1) PROVE g[i] = Step[g[i - 1]]
    <3>1. i \in 0..(n + 1) /\ i - 1 \in 0..(n + 1) /\ i - 1 # n + 1
      OBVIOUS
    <3>2. g[i - 1] = f[i - 1] /\ g[i] = IF i = n + 1 THEN Step[f[n]] ELSE f[i]
      BY <3>1
    <3> HIDE DEF g
    <3>3. CASE i = n + 1
      <4>1. i - 1 = n
        BY <3>3
      <4> QED
        BY <3>2, <3>3, <4>1
    <3>4. CASE i # n + 1
      <4>1. i \in 1..n
        BY <3>4
      <4>2. f[i] = Step[f[i - 1]]
        BY <2>1, <4>1
      <4> QED
        BY <3>2, <3>4, <4>2
    <3> QED
      BY <3>3, <3>4
  <2> HIDE DEF g
  <2>4. Run(n + 1, g)
    BY <2>2, <2>3
  <2> QED
    BY <2>4
<1> HIDE DEF S
<1>3. Nat \subseteq S
  BY <1>1, <1>2, NatClosure
<1> DEFINE r == [n \in Nat |-> CHOOSE f : Run(n, f)]
           h == [n \in Nat |-> r[n][n]]
<1>4. ASSUME NEW n \in Nat PROVE Run(n, r[n])
  <2>1. \E f : Run(n, f)
    BY <1>3 DEF S
  <2> HIDE DEF Run
  <2> QED
    BY <2>1
<1> HIDE DEF r
<1>5. h \in [Nat -> D] /\ h[0] = d
  BY <1>4
<1>6. ASSUME NEW n \in Nat \ {0} PROVE h[n] = Step[h[n - 1]]
  <2>1. n - 1 \in Nat /\ n - 1 \in 0..(n - 1)
    BY <1>6
  <2>2. Run(n - 1, r[n - 1]) /\ Run(n, r[n])
    BY <1>4, <2>1
  <2>3. \A i \in 0..(n - 1) : r[n - 1][i] = r[n][i]
    <3> DEFINE f == r[n - 1]
               g == r[n]
    <3>1. /\ f \in [0..(n - 1) -> D] /\ f[0] = g[0]
          /\ \A i \in 1..(n - 1) : f[i] = Step[f[i - 1]] /\ g[i] = Step[g[i - 1]]
      <4>1. \A i \in 1..(n - 1) : i \in 1..n
        OBVIOUS
      <4>2. Run(n - 1, f) /\ Run(n, g)
        BY <2>2
      <4> HIDE DEF f, g
      <4> QED
        BY <4>1, <4>2
    <3> HIDE DEF f, g
    <3>2. PICK m \in Nat : m = n - 1
      BY <2>1
    <3>3. f[0] = g[0] /\ \A i \in 1..m : f[i] = Step[f[i - 1]] /\ g[i] = Step[g[i - 1]]
      BY <3>1, <3>2
    <3>4. \A i \in 0..m : f[i] = g[i]
      BY ONLY <3>3, RunsAgree
    <3> QED
      BY <3>2, <3>4 DEF f, g
  <2>4. r[n][n] = Step[r[n][n - 1]]
    BY <2>2
  <2> QED
    BY <2>1, <2>3, <2>4
<1> QED
  BY <1>5, <1>6

-----------------------------------------------------------------------------
(* Ranks: how many members of a finite set are ahead of one *)

\* R orders S: one of two different members is ahead of the other.
OrderedBy(R, S) ==
  /\ \A x \in S : <<x, x>> \notin R
  /\ \A x, y \in S : x = y \/ <<x, y>> \in R \/ <<y, x>> \in R
  /\ \A x, y, z \in S : <<x, y>> \in R /\ <<y, z>> \in R => <<x, z>> \in R

Rank(R, S) == [x \in S |-> Cardinality({y \in S : <<y, x>> \in R})]

\* What comes later in a finite order has more before it.
LEMMA RankGrows ==
  ASSUME NEW S, IsFiniteSet(S), NEW R, OrderedBy(R, S),
         NEW x \in S, NEW y \in S, <<x, y>> \in R
  PROVE  Rank(R, S)[x] < Rank(R, S)[y]
<1> DEFINE A == {z \in S : <<z, x>> \in R}
           B == {z \in S : <<z, y>> \in R}
<1>1. A \subseteq B /\ x \in B /\ x \notin A
  BY DEF OrderedBy
<1>2. IsFiniteSet(B) /\ IsFiniteSet(A) /\ Cardinality(A) <= Cardinality(B)
      /\ (Cardinality(B) = Cardinality(A) => B = A)
  <2>1. B \in SUBSET S /\ A \in SUBSET B
    BY <1>1
  <2>2. IsFiniteSet(B)
    BY <2>1, FS_Subset
  <2> HIDE DEF A, B
  <2> QED
    BY <2>1, <2>2, FS_Subset
<1>3. Cardinality(A) \in Nat /\ Cardinality(B) \in Nat
  <2> HIDE DEF A, B
  <2> QED
    BY <1>2, FS_CardinalityType
<1>4. Rank(R, S)[x] = Cardinality(A) /\ Rank(R, S)[y] = Cardinality(B)
  BY DEF Rank
<1> HIDE DEF A, B
<1> QED
  BY <1>1, <1>2, <1>3, <1>4

\* Ranks in a finite order count from zero to one less than its size.
LEMMA RankBounded ==
  ASSUME NEW S, IsFiniteSet(S), NEW R, OrderedBy(R, S)
  PROVE  Rank(R, S) \in [S -> 0..(Cardinality(S) - 1)]
<1> SUFFICES ASSUME NEW x \in S
             PROVE  Cardinality({y \in S : <<y, x>> \in R}) \in 0..(Cardinality(S) - 1)
  BY DEF Rank
<1> DEFINE A == {y \in S : <<y, x>> \in R}
<1>1. A \in SUBSET S /\ x \notin A
  BY DEF OrderedBy
<1> HIDE DEF A
<1>2. IsFiniteSet(A) /\ Cardinality(A) <= Cardinality(S) /\ Cardinality(S) # Cardinality(A)
  BY <1>1, FS_Subset
<1>3. Cardinality(A) \in Nat /\ Cardinality(S) \in Nat
  BY <1>2, FS_CardinalityType
<1> QED
  BY <1>2, <1>3 DEF A

\* Ranks number an ordered set without gaps or ties.
LEMMA RankBijects ==
  ASSUME NEW S, IsFiniteSet(S), NEW R, OrderedBy(R, S)
  PROVE  Rank(R, S) \in Bijection(S, 0..(Cardinality(S) - 1))
<1> DEFINE T == 0..(Cardinality(S) - 1)
           f == Rank(R, S)
<1>1. f \in [S -> T]
  BY RankBounded
<1>2. ASSUME NEW x \in S, NEW y \in S, f[x] = f[y] PROVE x = y
  <2>1. f[x] \in Int /\ f[y] \in Int
    BY <1>1
  <2>2. <<x, y>> \in R => f[x] < f[y]
    BY RankGrows
  <2>3. <<y, x>> \in R => f[y] < f[x]
    BY RankGrows
  <2>4. <<x, y>> \notin R /\ <<y, x>> \notin R
    BY <1>2, <2>1, <2>2, <2>3
  <2> QED
    BY <2>4 DEF OrderedBy
<1>3. IsFiniteSet(T) /\ Cardinality(T) = Cardinality(S)
  <2>1. Cardinality(S) \in Nat
    BY FS_CardinalityType
  <2>2. 0 \in Int /\ Cardinality(S) - 1 \in Int
    BY <2>1
  <2>3. /\ IsFiniteSet(T)
        /\ Cardinality(T) = IF 0 > Cardinality(S) - 1 THEN 0 ELSE Cardinality(S) - 1 - 0 + 1
    BY <2>2, FS_Interval
  <2> QED
    BY <2>1, <2>3
<1> HIDE DEF T, f
<1>4. f \in Injection(S, T)
  BY <1>1, <1>2, Fun_IsInj
<1>5. f \in Surjection(S, T)
  BY <1>3, <1>4, FS_Injection
<1>6. f \in Bijection(S, T)
  BY <1>4, <1>5, Fun_IsBij
<1> QED
  BY <1>6 DEF f, T

\* As many members have a rank in U as U has numbers.
LEMMA RanksIn ==
  ASSUME NEW S, IsFiniteSet(S), NEW R, OrderedBy(R, S), NEW U \in SUBSET (0..(Cardinality(S) - 1))
  PROVE  Cardinality({x \in S : Rank(R, S)[x] \in U}) = Cardinality(U)
<1> DEFINE T == 0..(Cardinality(S) - 1)
           f == Rank(R, S)
           P == {x \in S : f[x] \in U}
           g == [x \in P |-> f[x]]
<1>1. f \in [S -> T] /\ (\A a, b \in S : f[a] = f[b] => a = b) /\ (\A t \in T : \E s \in S : f[s] = t)
  <2>1. f \in Bijection(S, T)
    BY RankBijects
  <2> HIDE DEF f, T
  <2> QED
    BY <2>1, Fun_BijectionProperties
<1> HIDE DEF f
<1>2. g \in [P -> U]
  OBVIOUS
<1>3. \A a, b \in P : g[a] = g[b] => a = b
  BY <1>1
<1>4. \A t \in U : \E s \in P : g[s] = t
  BY <1>1
<1>5. IsFiniteSet(P)
  <2>1. P \in SUBSET S
    OBVIOUS
  <2> HIDE DEF P
  <2> QED
    BY <2>1, FS_Subset
<1> HIDE DEF g, P
<1>6. g \in Bijection(P, U)
  BY <1>2, <1>3, <1>4, Fun_IsBij
<1>7. ExistsBijection(P, U)
  BY <1>6 DEF ExistsBijection
<1>8. Cardinality(U) = Cardinality(P)
  BY <1>5, <1>7, FS_Bijection
<1> QED
  BY <1>8 DEF P, f

-----------------------------------------------------------------------------
(* Following next posts *)

AheadIn(S) == {x \in S \X S : Ahead(x[1], x[2])}

\* Any posts are ordered by date, and by id where dates tie.
LEMMA AheadOrders ==
  ASSUME date \in [Posts -> Instants], NEW S \in SUBSET Posts
  PROVE  OrderedBy(AheadIn(S), S)
<1>1. \A p \in S : p \in Nat /\ date[p] \in Nat
  BY PostsAreNumbers, BoundsAssumption DEF Instants
<1>2. \A x, y \in S : <<x, y>> \in AheadIn(S) <=> Ahead(x, y)
  BY DEF AheadIn
<1>3. \A x \in S : ~Ahead(x, x)
  BY <1>1 DEF Ahead
<1>4. \A x, y \in S : x = y \/ Ahead(x, y) \/ Ahead(y, x)
  BY <1>1 DEF Ahead
<1>5. \A x, y, z \in S : Ahead(x, y) /\ Ahead(y, z) => Ahead(x, z)
  BY <1>1 DEF Ahead
<1> QED
  BY <1>2, <1>3, <1>4, <1>5 DEF OrderedBy

\* The ranks of a set of posts, and what they say of two of them.
LEMMA AheadRanks ==
  ASSUME TypeOK, NEW S \in SUBSET Posts, NEW r, r = Rank(AheadIn(S), S)
  PROVE  /\ IsFiniteSet(S) /\ Cardinality(S) \in Nat
         /\ r \in [S -> 0..(Cardinality(S) - 1)]
         /\ \A i \in 0..(Cardinality(S) - 1) : \E p \in S : r[p] = i
         /\ \A p, q \in S : r[p] = r[q] => p = q
         /\ \A p, q \in S : Ahead(p, q) <=> r[p] < r[q]
<1>1. date \in [Posts -> Instants]
  BY DEF TypeOK
<1>2. IsFiniteSet(S) /\ Cardinality(S) \in Nat
  BY PostsAreNumbers, FS_Subset, FS_CardinalityType
<1>3. OrderedBy(AheadIn(S), S)
  BY <1>1, AheadOrders
<1>4. r \in Bijection(S, 0..(Cardinality(S) - 1))
  BY <1>2, <1>3, RankBijects
<1>5. /\ r \in [S -> 0..(Cardinality(S) - 1)]
      /\ \A i \in 0..(Cardinality(S) - 1) : \E p \in S : r[p] = i
      /\ \A p, q \in S : r[p] = r[q] => p = q
  <2> DEFINE T == 0..(Cardinality(S) - 1)
  <2> SUFFICES /\ r \in [S -> T]
               /\ \A i \in T : \E p \in S : r[p] = i
               /\ \A p, q \in S : r[p] = r[q] => p = q
    OBVIOUS
  <2>1. r \in Bijection(S, T)
    BY <1>4
  <2> HIDE DEF T
  <2> QED
    BY <2>1, Fun_BijectionProperties
<1>6. ASSUME NEW p \in S, NEW q \in S PROVE Ahead(p, q) <=> r[p] < r[q]
  <2>1. /\ <<p, q>> \in AheadIn(S) <=> Ahead(p, q)
        /\ <<q, p>> \in AheadIn(S) <=> Ahead(q, p)
    BY DEF AheadIn
  <2>2. Ahead(p, q) => r[p] < r[q]
    BY <1>2, <1>3, <2>1, RankGrows
  <2>3. Ahead(q, p) => r[q] < r[p]
    BY <1>2, <1>3, <2>1, RankGrows
  <2>4. p = q \/ Ahead(p, q) \/ Ahead(q, p)
    BY <1>3, <2>1 DEF OrderedBy
  <2>5. r[p] \in Int /\ r[q] \in Int
    BY <1>5
  <2> QED
    BY <2>2, <2>3, <2>4, <2>5
<1> QED
  BY <1>2, <1>5, <1>6

\* The newest of some posts is one of them, ahead of all the others.
LEMMA NewestIsAhead ==
  ASSUME TypeOK, NEW S \in SUBSET Posts, S # {}
  PROVE  Newest(S) \in S /\ \A q \in S \ {Newest(S)} : Ahead(Newest(S), q)
<1> DEFINE r == Rank(AheadIn(S), S)
<1>1. /\ IsFiniteSet(S) /\ Cardinality(S) \in Nat
      /\ r \in [S -> 0..(Cardinality(S) - 1)]
      /\ \A i \in 0..(Cardinality(S) - 1) : \E p \in S : r[p] = i
      /\ \A p, q \in S : r[p] = r[q] => p = q
      /\ \A p, q \in S : Ahead(p, q) <=> r[p] < r[q]
  BY AheadRanks
<1>2. 0 \in 0..(Cardinality(S) - 1)
  BY <1>1, FS_EmptySet
<1> HIDE DEF r
<1>3. PICK p \in S : r[p] = 0
  BY <1>1, <1>2
<1>4. \A q \in S \ {p} : Ahead(p, q)
  <2> SUFFICES ASSUME NEW q \in S \ {p} PROVE r[p] < r[q]
    BY <1>1
  <2>1. r[q] \in Nat /\ r[q] # r[p]
    BY <1>1
  <2> QED
    BY <1>3, <2>1
<1>5. \E n \in S : \A q \in S \ {n} : Ahead(n, q)
  BY <1>4
<1> QED
  BY <1>5 DEF Newest

\* The next post comes after one in the order of the listing, and the
\* newest after the last.
LEMMA NextRank ==
  ASSUME TypeOK, NEW now, NEW p \in Visible(now), NEW r, r = Rank(AheadIn(Visible(now)), Visible(now))
  PROVE  /\ NavNext(now, p, date[p]) \in Visible(now)
         /\ r[NavNext(now, p, date[p])] = IF r[p] = Cardinality(Visible(now)) - 1 THEN 0 ELSE r[p] + 1
<1> DEFINE V == Visible(now)
           older == {q \in V : Older(q, date[p], p)}
<1>1. V \in SUBSET Posts /\ V # {}
  BY DEF TypeOK, Visible
<1>2. /\ IsFiniteSet(V) /\ Cardinality(V) \in Nat
      /\ r \in [V -> 0..(Cardinality(V) - 1)]
      /\ \A i \in 0..(Cardinality(V) - 1) : \E q \in V : r[q] = i
      /\ \A q, s \in V : r[q] = r[s] => q = s
      /\ \A q, s \in V : Ahead(q, s) <=> r[q] < r[s]
  <2> HIDE DEF V
  <2>1. r = Rank(AheadIn(V), V)
    BY DEF V
  <2> QED
    BY <1>1, <2>1, AheadRanks
<1>3. \A q \in V : q \in older <=> r[p] < r[q]
  <2>1. \A q \in Posts : date[q] \in Nat /\ q \in Nat
    BY PostsAreNumbers, BoundsAssumption DEF TypeOK, Instants
  <2>2. \A q \in V : Older(q, date[p], p) <=> Ahead(p, q)
    BY <1>1, <2>1 DEF Older, Ahead
  <2> QED
    BY <1>2, <2>2
<1>4. NavNext(now, p, date[p]) = IF older # {} THEN Newest(older) ELSE Newest(V)
  BY <1>1 DEF NavNext, Olders
<1>5. p \in V /\ older \subseteq V
  OBVIOUS
<1> HIDE DEF V, older
<1>6. CASE older # {}
  <2>1. Newest(older) \in older /\ \A q \in older \ {Newest(older)} : Ahead(Newest(older), q)
    BY <1>1, <1>5, <1>6, NewestIsAhead
  <2> DEFINE n == Newest(older)
  <2>2. n \in V /\ r[p] < r[n] /\ r[p] \in Nat /\ r[n] \in 0..(Cardinality(V) - 1)
    BY <1>2, <1>3, <1>5, <2>1
  <2>3. r[p] + 1 \in 0..(Cardinality(V) - 1)
    BY <1>2, <2>2
  <2>4. PICK z \in V : r[z] = r[p] + 1
    BY <1>2, <2>3
  <2>5. z \in older
    BY <1>3, <2>2, <2>4
  <2>6. z # n => r[n] < r[z]
    BY <1>2, <2>1, <2>2, <2>5
  <2>7. r[n] = r[p] + 1
    BY <2>2, <2>4, <2>6
  <2> HIDE DEF n
  <2>8. NavNext(now, p, date[p]) = n
    BY <1>4, <1>6 DEF n
  <2> QED
    BY <1>2, <2>2, <2>7, <2>8 DEF V
<1>7. CASE older = {}
  <2>1. Newest(V) \in V /\ \A q \in V \ {Newest(V)} : Ahead(Newest(V), q)
    BY <1>1, NewestIsAhead
  <2> DEFINE n == Newest(V)
  <2>2. r[p] = Cardinality(V) - 1
    <3>1. r[p] \in 0..(Cardinality(V) - 1)
      BY <1>2, <1>5
    <3> SUFFICES ASSUME r[p] # Cardinality(V) - 1 PROVE FALSE
      OBVIOUS
    <3>2. r[p] + 1 \in 0..(Cardinality(V) - 1)
      BY <1>2, <3>1
    <3>3. PICK z \in V : r[z] = r[p] + 1
      BY <1>2, <3>2
    <3> QED
      BY <1>3, <1>7, <3>1, <3>3
  <2>3. r[n] = 0
    <3>1. r[n] \in 0..(Cardinality(V) - 1)
      BY <1>2, <2>1
    <3>2. 0 \in 0..(Cardinality(V) - 1)
      BY <1>2, <3>1
    <3>3. PICK z \in V : r[z] = 0
      BY <1>2, <3>2
    <3>4. z # n => r[n] < r[z]
      BY <1>2, <2>1
    <3> QED
      BY <3>1, <3>3, <3>4
  <2> HIDE DEF n
  <2>4. NavNext(now, p, date[p]) = n
    BY <1>4, <1>7 DEF n
  <2> QED
    BY <2>1, <2>2, <2>3, <2>4 DEF V, n
<1> QED
  BY <1>6, <1>7

\* Following next posts from a visible one comes by every one of them.
LEMMA TourIsAll ==
  ASSUME TypeOK, NEW p \in Visible(clock)
  PROVE  Tour(p) = Visible(clock)
<1> DEFINE V == Visible(clock)
           r == Rank(AheadIn(V), V)
           c == Cardinality(V)
           Step == [q \in V |-> NavNext(clock, q, date[q])]
<1>1. V \in SUBSET Posts
  BY DEF TypeOK, Visible
<1>2. /\ IsFiniteSet(V) /\ c \in Nat
      /\ r \in [V -> 0..(c - 1)]
      /\ \A q, s \in V : r[q] = r[s] => q = s
  <2> HIDE DEF V
  <2> QED
    BY <1>1, AheadRanks
<1>3. \A q \in V : Step[q] \in V /\ r[Step[q]] = IF r[q] = c - 1 THEN 0 ELSE r[q] + 1
  BY NextRank
<1>4. c <= Cardinality(Posts) /\ Cardinality(Posts) \in Nat
  BY <1>1, PostsAreNumbers, FS_Subset, FS_CardinalityType
<1>5. p \in V /\ Step \in [V -> V]
  BY <1>3
<1>6. PICK f \in [Nat -> V] : f[0] = p /\ \A n \in Nat \ {0} : f[n] = Step[f[n - 1]]
  <2> HIDE DEF V, Step
  <2> QED
    BY <1>5, Iteration
<1>7. \E stop : stop = [n \in Nat |-> IF n = 0 THEN p ELSE NavNext(clock, stop[n - 1], date[stop[n - 1]])]
  <2>1. \A n \in Nat : n # 0 => n - 1 \in Nat
    OBVIOUS
  <2>2. \A n \in Nat : f[n] = IF n = 0 THEN p ELSE NavNext(clock, f[n - 1], date[f[n - 1]])
    BY <1>6, <2>1
  <2> QED
    BY <2>2
<1> DEFINE stop == CHOOSE g : g = [n \in Nat |-> IF n = 0 THEN p ELSE NavNext(clock, g[n - 1], date[g[n - 1]])]
<1>8. /\ Tour(p) = {stop[n] : n \in 0..Cardinality(Posts)}
      /\ stop = [n \in Nat |-> IF n = 0 THEN p ELSE NavNext(clock, stop[n - 1], date[stop[n - 1]])]
  BY <1>7 DEF Tour
<1> HIDE DEF stop, V, r, c, Step
<1>9. stop[0] = p /\ \A n \in Nat : stop[n] \in V => stop[n + 1] = Step[stop[n]]
  <2>1. \A n \in Nat : n + 1 \in Nat /\ n + 1 # 0 /\ (n + 1) - 1 = n
    OBVIOUS
  <2> QED
    BY <1>8, <2>1 DEF Step
<1> DEFINE At(m) == IF r[p] + m < c THEN r[p] + m ELSE r[p] + m - c
           M == {m \in Nat : stop[m] \in V /\ (m <= c => r[stop[m]] = At(m))}
<1>10. Nat \subseteq M
  <2>1. r[p] \in 0..(c - 1)
    BY <1>2, <1>5
  <2>2. 0 \in M
    BY <1>2, <1>5, <1>9, <2>1
  <2>3. ASSUME NEW m \in Nat, m \in M PROVE m + 1 \in M
    <3>1. stop[m] \in V /\ stop[m + 1] = Step[stop[m]] /\ (m <= c => r[stop[m]] = At(m))
      BY <1>9, <2>3
    <3>2. stop[m + 1] \in V /\ r[stop[m + 1]] = IF r[stop[m]] = c - 1 THEN 0 ELSE r[stop[m]] + 1
      BY <1>3, <3>1
    <3>3. ASSUME m + 1 <= c PROVE r[stop[m + 1]] = At(m + 1)
      <4>1. r[stop[m]] = At(m)
        BY <1>2, <3>1, <3>3
      <4> QED
        BY <1>2, <2>1, <3>2, <3>3, <4>1
    <3> QED
      BY <3>2, <3>3
  <2> HIDE DEF M
  <2> QED
    BY <2>2, <2>3, NatClosure
<1>11. ASSUME NEW q \in V PROVE \E n \in 0..Cardinality(Posts) : stop[n] = q
  <2> DEFINE m == IF r[q] >= r[p] THEN r[q] - r[p] ELSE r[q] - r[p] + c
  <2>1. r[p] \in 0..(c - 1) /\ r[q] \in 0..(c - 1)
    BY <1>2, <1>5
  <2>2. m \in Nat /\ m <= c /\ At(m) = r[q]
    BY <1>2, <2>1
  <2>3. m \in 0..Cardinality(Posts)
    BY <1>2, <1>4, <2>2 DEF c
  <2> HIDE DEF m, At
  <2>4. stop[m] \in V /\ r[stop[m]] = r[q]
    BY <1>10, <2>2
  <2>5. stop[m] = q
    BY <1>2, <2>4
  <2> QED
    BY <2>3, <2>5
<1>12. \A n \in 0..Cardinality(Posts) : stop[n] \in V
  BY <1>4, <1>10
<1> QED
  BY <1>8, <1>11, <1>12 DEF V

-----------------------------------------------------------------------------
(* The items of a listing *)

BeforeIn(r, now) == {z \in Items(r, now) \X Items(r, now) : Before(r, z[1], z[2])}

\* Finitely many posts make finitely many items, with a copy for each tag row.
LEMMA ItemsFinite ==
  ASSUME NEW V \in SUBSET Posts, NEW t
  PROVE  IsFiniteSet(UNION {{p} \X Copies(p, t) : p \in V})
<1> DEFINE f == [p \in V |-> {p} \X Copies(p, t)]
           T == {{p} \X Copies(p, t) : p \in V}
<1>1. \A p \in V : IsFiniteSet({p} \X Copies(p, t))
  <2> SUFFICES ASSUME NEW p \in V PROVE IsFiniteSet({p} \X Copies(p, t))
    OBVIOUS
  <2>1. IsFiniteSet({p}) /\ IsFiniteSet({0})
    BY FS_Singleton
  <2>2. IsFiniteSet({l \in Links : LinkPost[l] = p})
    BY LinksJoin, FS_Subset
  <2>3. IsFiniteSet(Copies(p, t))
    BY <2>1, <2>2 DEF Copies
  <2> QED
    BY <2>1, <2>3, FS_Product
<1>2. f \in Surjection(V, T)
  BY DEF Surjection
<1>3. \A u \in T : IsFiniteSet(u)
  BY <1>1
<1>4. IsFiniteSet(V)
  BY PostsAreNumbers, FS_Subset
<1> HIDE DEF f, T
<1>5. IsFiniteSet(T)
  BY <1>2, <1>4, FS_Surjection
<1>6. IsFiniteSet(UNION T)
  BY <1>3, <1>5, FS_UNION
<1> QED
  BY <1>6 DEF T

\* The items of a listing: copies of the posts visible at the instant.
LEMMA ItemsAre ==
  ASSUME TypeOK, NEW r, NEW now
  PROVE  /\ IsFiniteSet(Items(r, now)) /\ Count(r, now) \in Nat
         /\ \A x : x \in Items(r, now) <=>
              \E p \in Visible(now), k \in Nat : k \in Copies(p, r.tagged) /\ x = <<p, k>>
<1>1. Visible(now) \in SUBSET Posts
  BY DEF TypeOK, Visible
<1>2. IsFiniteSet(Items(r, now))
  BY <1>1, ItemsFinite DEF Items
<1>3. Count(r, now) \in Nat
  BY <1>2, FS_CardinalityType DEF Count
<1>4. \A p \in Visible(now) : Copies(p, r.tagged) \subseteq Nat
  <2> SUFFICES ASSUME NEW p PROVE Copies(p, r.tagged) \subseteq Nat
    OBVIOUS
  <2>1. {l \in Links : LinkPost[l] = p} \subseteq Nat /\ {0} \subseteq Nat
    <3>1. Links \subseteq Nat
      BY LinksJoin
    <3>2. {l \in Links : LinkPost[l] = p} \subseteq Links
      OBVIOUS
    <3>3. {0} \subseteq Nat
      OBVIOUS
    <3> QED
      BY <3>1, <3>2, <3>3, Zenon
  <2>2. Copies(p, r.tagged) \in {{l \in Links : LinkPost[l] = p}, {0}}
    BY Zenon DEF Copies
  <2> QED
    BY <2>1, <2>2
<1>5. ASSUME NEW x
      PROVE  x \in Items(r, now) <=>
               \E p \in Visible(now), k \in Nat : k \in Copies(p, r.tagged) /\ x = <<p, k>>
  BY <1>4 DEF Items
<1> QED
  BY <1>2, <1>3, <1>5

\* The order of the posts in a listing.
PostBefore(r, p, q) == IF r.order = "recent" THEN Ahead(p, q) ELSE MoreVisited(p, q)

\* Either ORDER BY of the listing orders the posts, no two alike.
LEMMA PostsOrdered ==
  ASSUME TypeOK, NEW r
  PROVE  /\ \A p \in Posts : ~PostBefore(r, p, p)
         /\ \A p, q \in Posts : p = q \/ PostBefore(r, p, q) \/ PostBefore(r, q, p)
         /\ \A p, q, s \in Posts : PostBefore(r, p, q) /\ PostBefore(r, q, s) => PostBefore(r, p, s)
<1>1. \A p \in Posts : p \in Nat /\ date[p] \in Nat /\ visits[p] \in Nat
  BY PostsAreNumbers, BoundsAssumption DEF TypeOK, Instants
<1>2. /\ \A p \in Posts : ~Ahead(p, p)
      /\ \A p, q \in Posts : p = q \/ Ahead(p, q) \/ Ahead(q, p)
      /\ \A p, q, s \in Posts : Ahead(p, q) /\ Ahead(q, s) => Ahead(p, s)
  BY <1>1 DEF Ahead
<1>3. /\ \A p \in Posts : ~MoreVisited(p, p)
      /\ \A p, q \in Posts : p = q \/ MoreVisited(p, q) \/ MoreVisited(q, p)
      /\ \A p, q, s \in Posts : MoreVisited(p, q) /\ MoreVisited(q, s) => MoreVisited(p, s)
  BY <1>1, <1>2 DEF MoreVisited
<1> QED
  BY <1>2, <1>3 DEF PostBefore

\* A listing orders its items: by post, then by the copy of it.
LEMMA ItemsOrdered ==
  ASSUME TypeOK, NEW r, NEW now
  PROVE  OrderedBy(BeforeIn(r, now), Items(r, now))
<1> DEFINE I == Items(r, now)
<1>1. \A x \in I : x = <<x[1], x[2]>> /\ x[1] \in Posts /\ x[2] \in Nat
  <2> SUFFICES ASSUME NEW x \in I PROVE x = <<x[1], x[2]>> /\ x[1] \in Posts /\ x[2] \in Nat
    OBVIOUS
  <2>1. PICK p \in Visible(now), k \in Nat : x = <<p, k>>
    BY ItemsAre
  <2>2. p \in Posts
    BY DEF TypeOK, Visible
  <2> QED
    BY <2>1, <2>2
<1>2. \A x, y \in I : <<x, y>> \in BeforeIn(r, now) <=>
        IF x[1] = y[1] THEN x[2] < y[2] ELSE PostBefore(r, x[1], y[1])
  BY DEF BeforeIn, Before, PostBefore
<1>3. /\ \A p \in Posts : ~PostBefore(r, p, p)
      /\ \A p, q \in Posts : p = q \/ PostBefore(r, p, q) \/ PostBefore(r, q, p)
      /\ \A p, q, s \in Posts : PostBefore(r, p, q) /\ PostBefore(r, q, s) => PostBefore(r, p, s)
  BY PostsOrdered
<1> HIDE DEF I
<1>4. \A x \in I : <<x, x>> \notin BeforeIn(r, now)
  BY <1>1, <1>2
<1>5. ASSUME NEW x \in I, NEW y \in I
      PROVE  x = y \/ <<x, y>> \in BeforeIn(r, now) \/ <<y, x>> \in BeforeIn(r, now)
  <2>1. CASE x[1] = y[1]
    <3>1. x[2] = y[2] \/ x[2] < y[2] \/ y[2] < x[2]
      BY <1>1
    <3> QED
      BY <1>1, <1>2, <2>1, <3>1
  <2>2. CASE x[1] # y[1]
    BY <1>1, <1>2, <1>3, <2>2
  <2> QED
    BY <2>1, <2>2
<1>6. ASSUME NEW x \in I, NEW y \in I, NEW z \in I,
             <<x, y>> \in BeforeIn(r, now), <<y, z>> \in BeforeIn(r, now)
      PROVE  <<x, z>> \in BeforeIn(r, now)
  <2>1. /\ x[1] \in Posts /\ y[1] \in Posts /\ z[1] \in Posts
        /\ x[2] \in Nat /\ y[2] \in Nat /\ z[2] \in Nat
    BY <1>1
  <2>2. IF x[1] = y[1] THEN x[2] < y[2] ELSE PostBefore(r, x[1], y[1])
    BY <1>2, <1>6
  <2>3. IF y[1] = z[1] THEN y[2] < z[2] ELSE PostBefore(r, y[1], z[1])
    BY <1>2, <1>6
  <2>4. IF x[1] = z[1] THEN x[2] < z[2] ELSE PostBefore(r, x[1], z[1])
    BY <1>3, <2>1, <2>2, <2>3
  <2> QED
    BY <1>2, <2>4
<1> QED
  BY <1>4, <1>5, <1>6 DEF OrderedBy, I

\* A page ends where the next one begins.
LEMMA PageEnds ==
  ASSUME NEW n \in Nat \ {0}
  PROVE  /\ Offset(n) \in Nat /\ n * PageSize = Offset(n) + PageSize
         /\ Offset(n + 1) = n * PageSize
<1>1. PageSize \in Nat /\ n - 1 \in Nat /\ (n + 1) - 1 = n
  BY PagesHold
<1>2. (n - 1) * PageSize \in Nat /\ n * PageSize = (n - 1) * PageSize + PageSize
  BY <1>1
<1> QED
  BY <1>1, <1>2 DEF Offset

\* A page holds the items whose ranks are its own.
LEMMA PageHolds ==
  ASSUME TypeOK, NEW r, NEW now, NEW n \in Nat \ {0}
  PROVE  Cardinality(OnPage(r, now, n)) =
           IF n * PageSize <= Count(r, now) THEN PageSize
           ELSE IF Count(r, now) <= Offset(n) THEN 0 ELSE Count(r, now) - Offset(n)
<1> DEFINE I == Items(r, now)
           R == BeforeIn(r, now)
           c == Cardinality(I)
           U == Span(n) \cap (0..(c - 1))
<1>1. IsFiniteSet(I) /\ c \in Nat /\ OrderedBy(R, I)
  BY ItemsAre, ItemsOrdered DEF Count
<1>2. Rank(R, I) \in [I -> 0..(c - 1)]
  <2> HIDE DEF I, R
  <2> QED
    BY <1>1, RankBounded
<1>3. OnPage(r, now, n) = {x \in I : Rank(R, I)[x] \in Span(n)}
  <2>1. \A x \in I : {y \in I : Before(r, y, x)} = {y \in I : <<y, x>> \in R}
    BY DEF BeforeIn
  <2>2. \A x \in I : Cardinality({y \in I : Before(r, y, x)}) = Rank(R, I)[x]
    BY <2>1 DEF Rank
  <2> QED
    BY <2>2 DEF OnPage
<1> HIDE DEF I, R
<1>4. OnPage(r, now, n) = {x \in I : Rank(R, I)[x] \in U}
  BY <1>2, <1>3
<1>5. Cardinality(OnPage(r, now, n)) = Cardinality(U)
  <2>1. U \in SUBSET (0..(Cardinality(I) - 1))
    OBVIOUS
  <2> HIDE DEF U
  <2> QED
    BY <1>1, <1>4, <2>1, RanksIn
<1>6. PageSize \in Nat \ {0} /\ Offset(n) \in Nat /\ n * PageSize = Offset(n) + PageSize
  BY PagesHold, PageEnds
<1>7. Span(n) = Offset(n)..(Offset(n) + PageSize - 1)
  BY DEF Span
<1>8. Count(r, now) = c
  BY DEF Count, I
<1> HIDE DEF c
<1>9. CASE n * PageSize <= c
  <2>1. U = Offset(n)..(Offset(n) + PageSize - 1)
    BY <1>1, <1>6, <1>7, <1>9
  <2>2. Offset(n) \in Int /\ Offset(n) + PageSize - 1 \in Int
    BY <1>6
  <2>3. Cardinality(Offset(n)..(Offset(n) + PageSize - 1)) = PageSize
    BY <1>6, <2>2, FS_Interval
  <2> QED
    BY <1>5, <1>8, <1>9, <2>1, <2>3
<1>10. CASE ~(n * PageSize <= c) /\ c <= Offset(n)
  <2>1. U = {}
    BY <1>1, <1>6, <1>7, <1>10
  <2> QED
    BY <1>5, <1>8, <1>10, <2>1, FS_EmptySet
<1>11. CASE ~(n * PageSize <= c) /\ ~(c <= Offset(n))
  <2>1. U = Offset(n)..(c - 1)
    BY <1>1, <1>6, <1>7, <1>11
  <2>2. Offset(n) \in Int /\ c - 1 \in Int
    BY <1>1, <1>6
  <2>3. Cardinality(Offset(n)..(c - 1)) = c - Offset(n)
    BY <1>1, <1>6, <1>11, <2>2, FS_Interval
  <2> QED
    BY <1>5, <1>8, <1>11, <2>1, <2>3
<1> QED
  BY <1>9, <1>10, <1>11

-----------------------------------------------------------------------------
(* The inductive invariant of the reads *)

\* A detail in progress has a post, its date is the one that was read as long
\* as nobody edited the post, and posts that stayed unmoved are visible; past
\* the oldest post they are all newer.
RowKept ==
  pc \in {"row", "wrapped"} =>
    /\ row.post \in Posts
    /\ steady \subseteq Visible(began)
    /\ row.post \in steady => row.date = date[row.post]
    /\ pc = "wrapped" /\ row.post \in steady =>
         \A q \in steady \ {row.post} : Ahead(q, row.post)

\* Without a write since, the page is still what was read.
PageKept ==
  pc = "items" /\ quiet => got = Cardinality(OnPage(reading, began, page))

\* Without a write since, a cloud's number and the admin's are what was read.
NoteKept ==
  /\ pc = "cloud" /\ quiet =>
       note.about \in Tags /\ note.number = CloudCount(note.about, began)
  /\ pc = "admin" /\ quiet =>
       note.about \in States /\ note.number = Least(AdminLimit, Cardinality(AdminRows(note.about, began)))

\* The items a walk looks for, and what is ahead of one now.
Sought == {x \in steady \X Nat : x[2] \in Copies(x[1], reading.tagged)}
AheadOf(x) == {y \in Items(reading, began) : Before(reading, y, x)}

\* How many items the pages read so far have had room for.
Passed == IF pc = "asking" THEN Offset(page) ELSE page * PageSize

\* Unless a post slips, an item that the walk looks for and whose post it has
\* not seen has everything the walk has passed ahead of it: ranks only grow.
WalkKept ==
  pc \in {"asking", "items"} =>
    /\ steady \subseteq Visible(began)
    /\ ~slipped => \A x \in Sought : Cardinality(AheadOf(x)) < Passed => x[1] \in seen

ReadsInv == TypeOK /\ RowKept /\ PageKept /\ NoteKept /\ WalkKept

\* Posts and their dates are numbers.
LEMMA PostsHaveDates ==
  ASSUME TypeOK, NEW p \in Posts
  PROVE  p \in Nat /\ date[p] \in Nat
BY PostsAreNumbers, BoundsAssumption DEF TypeOK, Instants

\* The admin listing has finitely many rows.
LEMMA AdminFinite ==
  ASSUME TypeOK, NEW state \in States, NEW now
  PROVE  /\ AdminRows(state, now) \subseteq Posts /\ IsFiniteSet(AdminRows(state, now))
         /\ Cardinality(AdminRows(state, now)) \in Nat
<1>1. AdminRows(state, now) \subseteq Posts
  BY DEF AdminRows, States, TypeOK
<1> QED
  BY <1>1, PostsAreNumbers, FS_Subset, FS_CardinalityType

\* No step of a reader, a writer or the clock leaves the types.
LEMMA ReadsTypes ==
  ASSUME TypeOK, [Next]_vars
  PROVE  TypeOK'
<1> USE DEF TypeOK
<1>0. clock \in Nat /\ Instants \subseteq Nat /\ 0 \in Instants
  BY BoundsAssumption DEF Instants
<1>1. Visible(clock) \subseteq Posts
  BY DEF Visible
<1>2. ASSUME NEW r \in [order : Orders, tagged : BOOLEAN], OpenWalk(r) PROVE TypeOK'
  <2>1. clock' = clock /\ began' \in 0..clock' /\ page' \in Nat \ {0}
    BY <1>0, <1>2 DEF OpenWalk
  <2>2. reading' \in [order : Orders, tagged : BOOLEAN] /\ UNCHANGED content
    BY <1>2 DEF OpenWalk
  <2> QED
    BY <1>1, <1>2, <2>1, <2>2 DEF OpenWalk, content
<1>3. CASE ReadItems
  <2>1. got' \in 0..PageSize
    <3>1. page \in Nat \ {0} /\ Count(reading, began) \in Nat
      BY ItemsAre
    <3>2. Offset(page) \in Nat /\ page * PageSize = Offset(page) + PageSize /\ PageSize \in Nat
      BY <3>1, PageEnds, PagesHold
    <3>3. got' = IF page * PageSize <= Count(reading, began) THEN PageSize
                 ELSE IF Count(reading, began) <= Offset(page) THEN 0
                 ELSE Count(reading, began) - Offset(page)
      BY <1>3, <3>1, PageHolds DEF ReadItems
    <3> QED
      BY <3>1, <3>2, <3>3
  <2>2. seen' \subseteq Posts
    <3>1. ASSUME NEW x \in Items(reading, began) PROVE x[1] \in Posts
      <4>1. PICK p \in Visible(began), k \in Nat : x = <<p, k>>
        BY ItemsAre
      <4> QED
        BY <4>1 DEF Visible
    <3>2. OnPage(reading, began, page) \subseteq Items(reading, began)
      BY DEF OnPage
    <3>3. seen \subseteq Posts /\ seen' = seen \cup {x[1] : x \in OnPage(reading, began, page)}
      BY <1>3 DEF ReadItems
    <3> HIDE DEF TypeOK
    <3> QED
      BY <3>1, <3>2, <3>3
  <2> QED
    BY <1>3, <2>1, <2>2 DEF ReadItems, content
<1>4. CASE ReadTotal
  <2>1. clock' = clock /\ UNCHANGED <<date, open, visits, binned, row, note>> /\ got' = 0 /\ 0 \in 0..PageSize
    BY <1>4, PagesHold DEF ReadTotal, content
  <2>2. page' \in Nat \ {0} /\ began' \in 0..clock'
    <3>1. page + 1 \in Nat \ {0} /\ 1 \in Nat \ {0} /\ 0 \in 0..clock /\ clock \in 0..clock
      BY <1>0
    <3> QED
      BY <1>4, <2>1, <3>1 DEF ReadTotal, LeaveWalk, Rest
  <2>3. reading' \in [order : Orders, tagged : BOOLEAN]
    <3>1. NoWalk \in [order : Orders, tagged : BOOLEAN]
      BY DEF NoWalk, Orders
    <3>2. reading' \in {reading, NoWalk}
      BY <1>4 DEF ReadTotal, LeaveWalk
    <3> QED
      BY <3>1, <3>2
  <2>4. /\ pc' \in {"idle", "asking", "items", "row", "wrapped", "cloud", "admin"} /\ quiet' \in BOOLEAN /\ slipped' \in BOOLEAN
        /\ seen' \subseteq Posts /\ steady' \subseteq Posts
    BY <1>4 DEF ReadTotal, LeaveWalk, Rest
  <2> QED
    BY <2>1, <2>2, <2>3, <2>4
<1>5. ASSUME NEW p \in Posts, ReadRow(p) PROVE TypeOK'
  BY <1>0, <1>1, <1>5 DEF ReadRow, content, walk
<1>6. CASE ReadOlder \/ ReadNewest
  <2>1. UNCHANGED <<clock, content, binned, walk, quiet, note>>
    BY <1>6 DEF ReadOlder, ReadNewest
  <2>2. \/ LeaveRow
        \/ pc' = "wrapped" /\ UNCHANGED <<began, row, steady>>
    BY <1>6 DEF ReadOlder, ReadNewest
  <2> QED
    BY <1>0, <2>1, <2>2 DEF LeaveRow, Rest, NoRow, content, walk
<1>7. ASSUME NEW p \in Posts, NEW d \in Instants, NEW o \in BOOLEAN, Edit(p, d, o) PROVE TypeOK'
  BY <1>7 DEF Edit
<1>8. ASSUME NEW p \in Posts, Visit(p) PROVE TypeOK'
  <2>1. visits' \in [Posts -> 0..MaxVisits]
    <3>1. visits[p] + 1 \in 0..MaxVisits
      BY <1>8, BoundsAssumption DEF Visit
    <3> QED
      BY <1>8, <3>1 DEF Visit
  <2> QED
    BY <1>8, <2>1 DEF Visit
<1>9. CASE Tick
  <2>1. clock' \in Instants /\ 0..clock \subseteq 0..clock'
    BY <1>9, BoundsAssumption DEF Tick, Instants
  <2> QED
    BY <1>9, <2>1 DEF Tick, content, walk
<1>10. CASE UNCHANGED vars
  BY <1>10 DEF vars, content, walk
<1>11. CASE Missed
  <2>1. NoWalk \in [order : Orders, tagged : BOOLEAN] /\ 1 \in Nat \ {0} /\ 0 \in 0..clock
    BY <1>0 DEF NoWalk, Orders
  <2> QED
    BY <1>11, <2>1 DEF Missed, LeaveWalk, Rest, content
<1>12. ASSUME NEW k \in Tags, ReadCloud(k) PROVE TypeOK'
  <2>1. CloudCount(k, clock) \in Nat
    BY LinksJoin, FS_Subset, FS_CardinalityType DEF CloudCount
  <2>2. note' \in [about : Tags \cup States, number : Nat]
    BY <1>12, <2>1 DEF ReadCloud
  <2> QED
    BY <1>0, <1>12, <2>2 DEF ReadCloud, content, walk
<1>13. ASSUME NEW state \in States, ReadAdminRows(state) PROVE TypeOK'
  <2>1. Cardinality(AdminRows(state, clock)) \in Nat
    BY AdminFinite
  <2>2. note' \in [about : Tags \cup States, number : Nat]
    BY <1>13, <2>1, PagesHold DEF ReadAdminRows, Least
  <2> QED
    BY <1>0, <1>13, <2>2 DEF ReadAdminRows, content, walk
<1>14. CASE ReadOn
  <2>1. NoNote \in [about : Tags \cup States, number : Nat]
    BY DEF NoNote, States
  <2> QED
    <3>1. began' = 0 /\ clock' = clock /\ 0 \in 0..clock
      BY <1>0, <1>14 DEF ReadOn, Rest
    <3>2. pc' = "idle" /\ steady' = {} /\ note' = NoNote /\ quiet' = FALSE
      BY <1>14 DEF ReadOn, Rest
    <3>3. UNCHANGED <<date, open, visits, binned, reading, page, got, seen, slipped, row>>
      BY <1>14 DEF ReadOn, content, walk
    <3> QED
      BY <2>1, <3>1, <3>2, <3>3
<1>15. ASSUME NEW k \in Tags, TurnTag(k) PROVE TypeOK'
  BY <1>15 DEF TurnTag, content, walk
<1> QED
  BY <1>2, <1>3, <1>4, <1>5, <1>6, <1>7, <1>8, <1>9, <1>10, <1>11, <1>12, <1>13, <1>14, <1>15 DEF Next

\* What a reader of a detail page knows of its row outlives every step.
LEMMA RowStep ==
  ASSUME TypeOK, RowKept, [Next]_vars
  PROVE  RowKept'
<1>1. ASSUME pc' \notin {"row", "wrapped"} PROVE RowKept'
  BY <1>1 DEF RowKept
<1>2. ASSUME UNCHANGED <<pc, date, open, began, row, steady>> PROVE RowKept'
  BY <1>2 DEF RowKept, Visible, Ahead
<1>3. CASE ReadItems \/ Missed \/ ReadTotal \/ ReadOn \/ ReadNewest
  <2>1. pc' \in {"items", "idle", "asking"}
    BY <1>3 DEF ReadItems, Missed, ReadTotal, ReadOn, ReadNewest, LeaveWalk, LeaveRow, Rest
  <2> QED
    BY <1>1, <2>1
<1>4. ASSUME NEW p \in Posts, ReadRow(p) PROVE RowKept'
  BY <1>4 DEF ReadRow, RowKept, content, walk, Visible
<1>5. CASE ReadOlder
  <2>1. CASE Olders(began, row.post, row.date) # {}
    <3>1. pc' = "idle"
      BY <1>5, <2>1 DEF ReadOlder, LeaveRow, Rest
    <3> QED
      BY <1>1, <3>1
  <2>2. CASE Olders(began, row.post, row.date) = {}
    <3>1. pc = "row" /\ UNCHANGED <<date, open, began, row, steady>>
      BY <1>5, <2>2 DEF ReadOlder, content
    <3>2. ASSUME row.post \in steady, NEW q \in steady \ {row.post} PROVE Ahead(q, row.post)
      <4>1. q \in Visible(began) /\ row.date = date[row.post] /\ row.post \in Posts
        BY <3>1, <3>2 DEF RowKept
      <4>2. ~Older(q, row.date, row.post)
        BY <2>2, <4>1 DEF Olders
      <4>3. /\ q \in Posts /\ date[q] \in Nat /\ date[row.post] \in Nat
            /\ q \in Nat /\ row.post \in Nat /\ q # row.post
        <5>1. q \in Posts
          BY <3>2 DEF TypeOK
        <5> QED
          BY <3>2, <4>1, <5>1, PostsHaveDates
      <4> QED
        BY <4>1, <4>2, <4>3 DEF Older, Ahead
    <3> QED
      BY <3>1, <3>2 DEF RowKept, Visible, Ahead
  <2> QED
    BY <2>1, <2>2
<1>6. ASSUME NEW p \in Posts, NEW d \in Instants, NEW o \in BOOLEAN, Edit(p, d, o) PROVE RowKept'
  <2>1. /\ UNCHANGED <<pc, began, row>> /\ steady' = steady \ {p}
        /\ \A q \in Posts \ {p} : date'[q] = date[q] /\ (q \in open' <=> q \in open)
    BY <1>6 DEF Edit, TypeOK
  <2>2. steady \subseteq Posts
    BY DEF TypeOK
  <2> QED
    BY <2>1, <2>2 DEF RowKept, Visible, Ahead
<1>7. ASSUME NEW p \in Posts, Visit(p) PROVE RowKept'
  BY <1>7 DEF Visit, RowKept, Visible, Ahead
<1>8. ASSUME NEW k \in Tags, TurnTag(k) PROVE RowKept'
  BY <1>2, <1>8 DEF TurnTag, content
<1>9. ASSUME NEW r \in [order : Orders, tagged : BOOLEAN], OpenWalk(r) PROVE RowKept'
  BY <1>1, <1>9 DEF OpenWalk
<1>10. ASSUME NEW k \in Tags, ReadCloud(k) PROVE RowKept'
  BY <1>1, <1>10 DEF ReadCloud
<1>11. ASSUME NEW state \in States, ReadAdminRows(state) PROVE RowKept'
  BY <1>1, <1>11 DEF ReadAdminRows
<1>12. CASE Tick \/ UNCHANGED vars
  BY <1>2, <1>12 DEF Tick, content, vars
<1> QED
  BY <1>3, <1>4, <1>5, <1>6, <1>7, <1>8, <1>9, <1>10, <1>11, <1>12 DEF Next

\* What a page in hand says of the list outlives every step.
LEMMA PageStep ==
  ASSUME TypeOK, PageKept, [Next]_vars
  PROVE  PageKept'
<1>1. ASSUME UNCHANGED <<content, pc, reading, began, page, got, quiet>> PROVE PageKept'
  BY <1>1 DEF PageKept, content, OnPage, Items, Visible, Before, Ahead, MoreVisited
<1>2. ASSUME pc' # "items" PROVE PageKept'
  BY <1>2 DEF PageKept
<1>3. CASE ReadItems
  <2>1. UNCHANGED <<date, open, visits, reading, began, page>>
    BY <1>3 DEF ReadItems, content
  <2>2. OnPage(reading, began, page)' = OnPage(reading, began, page)
    BY <2>1 DEF OnPage, Items, Visible, Before, Ahead, MoreVisited
  <2> QED
    BY <1>3, <2>2 DEF ReadItems, PageKept
<1>4. CASE ReadTotal \/ Missed \/ ReadOlder \/ ReadNewest \/ ReadOn
  <2>1. pc' \in {"asking", "idle", "wrapped"}
    BY <1>4 DEF ReadTotal, Missed, ReadOlder, ReadNewest, ReadOn, LeaveWalk, LeaveRow, Rest
  <2> QED
    BY <1>2, <2>1
<1>5. ASSUME NEW p \in Posts, ReadRow(p) PROVE PageKept'
  BY <1>2, <1>5 DEF ReadRow
<1>6. ASSUME NEW r \in [order : Orders, tagged : BOOLEAN], OpenWalk(r) PROVE PageKept'
  BY <1>2, <1>6 DEF OpenWalk
<1>7. ASSUME NEW p \in Posts, NEW d \in Instants, NEW o \in BOOLEAN, Edit(p, d, o) PROVE PageKept'
  BY <1>7 DEF Edit, PageKept
<1>8. ASSUME NEW p \in Posts, Visit(p) PROVE PageKept'
  BY <1>8 DEF Visit, PageKept
<1>9. ASSUME NEW k \in Tags, ReadCloud(k) PROVE PageKept'
  BY <1>2, <1>9 DEF ReadCloud
<1>10. ASSUME NEW state \in States, ReadAdminRows(state) PROVE PageKept'
  BY <1>2, <1>10 DEF ReadAdminRows
<1>11. ASSUME NEW k \in Tags, TurnTag(k) PROVE PageKept'
  BY <1>1, <1>11 DEF TurnTag, walk
<1>12. CASE Tick \/ UNCHANGED vars
  BY <1>1, <1>12 DEF Tick, vars, walk
<1> QED
  BY <1>3, <1>4, <1>5, <1>6, <1>7, <1>8, <1>9, <1>10, <1>11, <1>12 DEF Next

\* What a noted count says of the rows outlives every step of a quiet reading.
LEMMA NoteStep ==
  ASSUME NoteKept, [Next]_vars
  PROVE  NoteKept'
<1>1. ASSUME UNCHANGED <<date, open, pc, began, note, quiet>> PROVE NoteKept'
  BY <1>1 DEF NoteKept, CloudCount, CloudPosts, Visible, AdminRows
<1>2. ASSUME ~quiet' \/ pc' \notin {"cloud", "admin"} PROVE NoteKept'
  BY <1>2 DEF NoteKept
<1>3. ASSUME NEW k \in Tags, ReadCloud(k) PROVE NoteKept'
  <2>1. CloudCount(k, clock)' = CloudCount(k, clock)
    BY <1>3 DEF ReadCloud, content, CloudCount, CloudPosts, Visible
  <2> QED
    BY <1>3, <2>1 DEF ReadCloud, NoteKept
<1>4. ASSUME NEW state \in States, ReadAdminRows(state) PROVE NoteKept'
  <2>1. AdminRows(state, clock)' = AdminRows(state, clock)
    BY <1>4 DEF ReadAdminRows, content, AdminRows
  <2> QED
    BY <1>4, <2>1 DEF ReadAdminRows, NoteKept
<1>5. CASE ReadItems \/ Missed \/ ReadTotal \/ ReadOlder \/ ReadNewest \/ ReadOn
  <2>1. pc' \in {"items", "asking", "idle", "wrapped"}
    BY <1>5 DEF ReadItems, ReadTotal, Missed, ReadOlder, ReadNewest, ReadOn, LeaveWalk, LeaveRow, Rest
  <2> QED
    BY <1>2, <2>1
<1>6. ASSUME NEW p \in Posts, ReadRow(p) PROVE NoteKept'
  BY <1>2, <1>6 DEF ReadRow
<1>7. ASSUME NEW r \in [order : Orders, tagged : BOOLEAN], OpenWalk(r) PROVE NoteKept'
  BY <1>2, <1>7 DEF OpenWalk
<1>8. ASSUME NEW p \in Posts, NEW d \in Instants, NEW o \in BOOLEAN, Edit(p, d, o) PROVE NoteKept'
  BY <1>2, <1>8 DEF Edit
<1>9. ASSUME NEW p \in Posts, Visit(p) PROVE NoteKept'
  BY <1>2, <1>9 DEF Visit
<1>10. ASSUME NEW k \in Tags, TurnTag(k) PROVE NoteKept'
  BY <1>1, <1>10 DEF TurnTag, content
<1>11. CASE Tick \/ UNCHANGED vars
  BY <1>1, <1>11 DEF Tick, vars, content
<1> QED
  BY <1>3, <1>4, <1>5, <1>6, <1>7, <1>8, <1>9, <1>10, <1>11 DEF Next

\* What is ahead of an item stays ahead of it, if posts stay visible and ahead.
LEMMA AheadStays ==
  ASSUME TypeOK, NEW x, reading' = reading,
         \A q \in Visible(began) :
           /\ q \in Visible(began)'
           /\ q # x[1] /\ PostBefore(reading, q, x[1]) => PostBefore(reading, q, x[1])'
  PROVE  AheadOf(x) \subseteq AheadOf(x)'
<1> SUFFICES ASSUME NEW y \in AheadOf(x) PROVE y \in AheadOf(x)'
  OBVIOUS
<1>1. PICK q \in Visible(began), k \in Nat : k \in Copies(q, reading.tagged) /\ y = <<q, k>>
  BY ItemsAre DEF AheadOf
<1>2. y[1] = q /\ y[2] = k /\ Before(reading, y, x)
  BY <1>1 DEF AheadOf
<1>3. y \in Items(reading, began)'
  BY <1>1 DEF Items
<1>4. Before(reading, y, x)'
  BY <1>2 DEF Before, PostBefore
<1> QED
  BY <1>3, <1>4 DEF AheadOf

\* Finitely many items are ahead of an item.
LEMMA AheadFinite ==
  ASSUME TypeOK', NEW x
  PROVE  IsFiniteSet(AheadOf(x)') /\ Cardinality(AheadOf(x)') \in Nat
<1>1. Visible(began)' \in SUBSET Posts
  BY DEF TypeOK, Visible
<1>2. IsFiniteSet(Items(reading, began)')
  BY <1>1, ItemsFinite DEF Items
<1>3. AheadOf(x)' \in SUBSET Items(reading, began)'
  BY DEF AheadOf
<1> QED
  BY <1>2, <1>3, FS_Subset, FS_CardinalityType

\* A walk that passes nothing new and sees no post slip keeps its promise.
LEMMA WalkGoesOn ==
  ASSUME TypeOK, TypeOK', WalkKept, pc \in {"asking", "items"},
         reading' = reading, steady' \subseteq steady, steady' \subseteq Visible(began)',
         slipped => slipped', Passed' = Passed, seen \subseteq seen',
         ~slipped' => \A x \in Sought' : AheadOf(x) \subseteq AheadOf(x)'
  PROVE  WalkKept'
<1> SUFFICES ASSUME ~slipped', NEW x \in Sought', Cardinality(AheadOf(x)') < Passed
             PROVE  x[1] \in seen'
  BY DEF WalkKept
<1>1. x \in Sought
  BY DEF Sought
<1>2. IsFiniteSet(AheadOf(x)') /\ Cardinality(AheadOf(x)') \in Nat
  BY AheadFinite
<1>3. AheadOf(x) \in SUBSET AheadOf(x)'
  BY <1>1
<1>4. IsFiniteSet(AheadOf(x)) /\ Cardinality(AheadOf(x)) <= Cardinality(AheadOf(x)')
  BY <1>2, <1>3, FS_Subset
<1>5. Cardinality(AheadOf(x)) \in Nat
  BY <1>4, FS_CardinalityType
<1>6. Passed \in Nat
  <2>1. page \in Nat \ {0}
    BY DEF TypeOK
  <2> QED
    BY <2>1, PageEnds, PagesHold DEF Passed
<1>7. Cardinality(AheadOf(x)) < Passed
  BY <1>2, <1>4, <1>5, <1>6
<1> QED
  BY <1>1, <1>7 DEF WalkKept

\* What a walk looks for is listed while the posts are visible.
LEMMA SoughtAreItems ==
  ASSUME NEW x \in Sought, steady \subseteq Visible(began)
  PROVE  x \in Items(reading, began)
<1>1. x[1] \in Visible(began) /\ x[2] \in Copies(x[1], reading.tagged) /\ x = <<x[1], x[2]>>
  BY DEF Sought
<1> QED
  BY <1>1 DEF Items

\* What a walk has met, and what is still before it, outlives every step.
LEMMA WalkStep ==
  ASSUME TypeOK, TypeOK', WalkKept, [Next]_vars
  PROVE  WalkKept'
<1> USE DEF TypeOK
<1>1. ASSUME NEW r \in [order : Orders, tagged : BOOLEAN], OpenWalk(r) PROVE WalkKept'
  <2>1. pc' = "asking" /\ page' = 1 /\ steady' = Visible(began)'
    BY <1>1 DEF OpenWalk, Visible, content
  <2>2. Passed' = 0
    <3>1. Passed' = (1 - 1) * PageSize
      BY <2>1 DEF Passed, Offset
    <3> QED
      BY <3>1, PagesHold
  <2>3. ASSUME NEW x \in Sought' PROVE ~(Cardinality(AheadOf(x)') < Passed')
    <3>1. Cardinality(AheadOf(x)') \in Nat
      BY AheadFinite
    <3> QED
      BY <2>2, <3>1
  <2> QED
    BY <2>1, <2>3 DEF WalkKept
<1>2. CASE ReadItems
  <2>1. /\ pc = "asking" /\ pc' = "items"
        /\ UNCHANGED <<date, open, visits, reading, began, page, steady, slipped>>
    BY <1>2 DEF ReadItems, content
  <2>2. Visible(began)' = Visible(began) /\ Sought' = Sought
    BY <2>1 DEF Visible, Sought, Copies
  <2>3. \A x : AheadOf(x)' = AheadOf(x)
    BY <2>1 DEF AheadOf, Items, Visible, Before, Ahead, MoreVisited
  <2>4. ASSUME ~slipped, NEW x \in Sought, Cardinality(AheadOf(x)) < Passed' PROVE x[1] \in seen'
    <3>1. Passed = Offset(page) /\ Passed' = Offset(page) + PageSize
          /\ Offset(page) \in Nat /\ PageSize \in Nat
      BY <2>1, PageEnds, PagesHold DEF Passed
    <3>2. CASE Cardinality(AheadOf(x)) < Offset(page)
      BY <1>2, <2>1, <2>4, <3>1, <3>2 DEF WalkKept, ReadItems
    <3>3. CASE ~(Cardinality(AheadOf(x)) < Offset(page))
      <4>1. x \in Items(reading, began)
        BY <2>1, SoughtAreItems DEF WalkKept
      <4>2. Cardinality(AheadOf(x)) \in Nat
        <5>1. IsFiniteSet(Items(reading, began)) /\ AheadOf(x) \in SUBSET Items(reading, began)
          BY ItemsAre DEF AheadOf
        <5> QED
          BY <5>1, FS_Subset, FS_CardinalityType
      <4>3. Cardinality(AheadOf(x)) \in Span(page)
        BY <2>4, <3>1, <3>3, <4>2 DEF Span
      <4>4. x \in OnPage(reading, began, page)
        BY <4>1, <4>3 DEF OnPage, AheadOf
      <4> QED
        BY <1>2, <4>4 DEF ReadItems
    <3> QED
      BY <3>2, <3>3
  <2> QED
    BY <2>1, <2>2, <2>3, <2>4 DEF WalkKept
<1>3. CASE ReadTotal
  <2>1. CASE page * PageSize < Count(reading, began)
    <3>1. /\ pc = "items" /\ pc' = "asking" /\ page' = page + 1 /\ began' = clock
          /\ UNCHANGED <<date, open, visits, reading, seen, steady, slipped>>
      BY <1>3, <2>1 DEF ReadTotal, content
    <3>2. Passed' = Passed
      <4>1. Offset(page + 1) = page * PageSize
        BY PageEnds
      <4> QED
        BY <3>1, <4>1 DEF Passed, Offset
    <3>3. Visible(began) \subseteq Visible(began)'
      <4>1. \A q \in open : date[q] \in Nat /\ began \in Nat /\ clock \in Nat /\ began <= clock
        BY BoundsAssumption DEF Instants
      <4> QED
        BY <3>1, <4>1 DEF Visible
    <3>4. \A x : AheadOf(x) \subseteq AheadOf(x)'
      <4> SUFFICES ASSUME NEW x PROVE AheadOf(x) \subseteq AheadOf(x)'
        OBVIOUS
      <4>1. \A q : PostBefore(reading, q, x[1])' = PostBefore(reading, q, x[1])
        BY <3>1 DEF PostBefore, Ahead, MoreVisited
      <4> QED
        BY <3>1, <3>3, <4>1, AheadStays
    <3> QED
      BY <3>1, <3>2, <3>3, <3>4, WalkGoesOn DEF WalkKept
  <2>2. CASE ~(page * PageSize < Count(reading, began))
    BY <1>3, <2>2 DEF ReadTotal, LeaveWalk, Rest, WalkKept
  <2> QED
    BY <2>1, <2>2
<1>4. ASSUME NEW p \in Posts, ReadRow(p) PROVE WalkKept'
  BY <1>4 DEF ReadRow, WalkKept
<1>5. CASE ReadOlder \/ ReadNewest \/ Missed \/ ReadOn
  <2>1. pc' \in {"idle", "wrapped"}
    BY <1>5 DEF ReadOlder, ReadNewest, Missed, ReadOn, LeaveWalk, LeaveRow, Rest
  <2> QED
    BY <2>1 DEF WalkKept
<1>6. ASSUME NEW e \in Posts, NEW d \in Instants, NEW o \in BOOLEAN, Edit(e, d, o) PROVE WalkKept'
  <2> SUFFICES ASSUME pc \in {"asking", "items"} PROVE WalkKept'
    BY <1>6 DEF Edit, WalkKept
  <2>1. /\ UNCHANGED <<clock, visits, pc, reading, began, page, seen>>
        /\ steady' = steady \ {e}
        /\ slipped => slipped'
        /\ \A q \in Posts \ {e} : date'[q] = date[q] /\ (q \in open' <=> q \in open)
        /\ date'[e] = d /\ (e \in open' <=> o)
    BY <1>6 DEF Edit
  <2>2. Passed' = Passed
    BY <2>1 DEF Passed, Offset
  <2>3. steady' \subseteq Visible(began)'
    BY <2>1 DEF WalkKept, Visible
  <2>4. ASSUME ~slipped', NEW x \in Sought' PROVE AheadOf(x) \subseteq AheadOf(x)'
    <3> DEFINE p == x[1]
    <3>1. p \in Posts /\ p # e /\ date'[p] = date[p] /\ visits'[p] = visits[p]
      BY <2>1 DEF Sought
    <3>2. \A q \in Posts : date[q] \in Nat /\ q \in Nat /\ visits[q] \in Nat
      BY PostsAreNumbers, BoundsAssumption DEF Instants
    <3>3. began \in Nat /\ clock \in Nat /\ began <= clock /\ d \in Nat
      BY BoundsAssumption DEF Instants
    <3>4. ASSUME e \in Visible(began) PROVE o /\ d >= date[e] /\ d <= began
      <4>1. e \in Visible(clock)
        BY <3>2, <3>3, <3>4 DEF Visible
      <4>2. ~(~o \/ d < date[e] \/ d > began)
        <5>1. slipped' = (slipped \/ (pc \in {"asking", "items"} /\ e \in Visible(clock)
                                         /\ (~o \/ d < date[e] \/ d > began)))
          BY <1>6 DEF Edit
        <5> QED
          BY <2>4, <4>1, <5>1
      <4>3. e \in Posts /\ date[e] \in Nat
        BY <3>2
      <4> QED
        BY <3>3, <4>2, <4>3
    <3>5. ASSUME NEW q \in Visible(began) PROVE q \in Visible(began)'
      BY <2>1, <3>4, <3>5 DEF Visible
    <3>6. ASSUME NEW q \in Visible(began), PostBefore(reading, q, p) PROVE PostBefore(reading, q, p)'
      <4>1. q \in Posts /\ visits'[q] = visits[q] /\ date'[q] \in Nat /\ date'[q] >= date[q]
        BY <2>1, <3>2, <3>3, <3>4 DEF Visible
      <4>2. Ahead(q, p) => Ahead(q, p)'
        BY <3>1, <3>2, <4>1 DEF Ahead
      <4>3. MoreVisited(q, p) => MoreVisited(q, p)'
        BY <3>1, <4>1, <4>2 DEF MoreVisited
      <4> QED
        BY <2>1, <3>6, <4>2, <4>3 DEF PostBefore
    <3> QED
      BY <2>1, <3>5, <3>6, AheadStays
  <2> QED
    BY <2>1, <2>2, <2>3, <2>4, WalkGoesOn
<1>7. ASSUME NEW e \in Posts, Visit(e) PROVE WalkKept'
  <2> SUFFICES ASSUME pc \in {"asking", "items"} PROVE WalkKept'
    BY <1>7 DEF Visit, WalkKept
  <2>1. /\ UNCHANGED <<clock, date, open, pc, reading, began, page, seen, slipped>>
        /\ steady' = IF reading.order = "visits" THEN steady \ {e} ELSE steady
        /\ \A q \in Posts \ {e} : visits'[q] = visits[q]
        /\ visits'[e] = visits[e] + 1
    BY <1>7 DEF Visit
  <2>2. Passed' = Passed
    BY <2>1 DEF Passed, Offset
  <2>3. Visible(began)' = Visible(began) /\ steady' \subseteq steady
    BY <2>1 DEF Visible
  <2>4. ASSUME NEW x \in Sought' PROVE AheadOf(x) \subseteq AheadOf(x)'
    <3> DEFINE p == x[1]
    <3>1. p \in Posts /\ (reading.order = "visits" => p # e)
      BY <2>1 DEF Sought
    <3>2. \A q, s : Ahead(q, s)' = Ahead(q, s)
      BY <2>1 DEF Ahead
    <3>3. ASSUME NEW q \in Visible(began), PostBefore(reading, q, p) PROVE PostBefore(reading, q, p)'
      <4>1. CASE reading.order = "recent"
        BY <2>1, <3>2, <3>3, <4>1 DEF PostBefore
      <4>2. CASE reading.order # "recent"
        <5>1. reading.order = "visits"
          BY <4>2 DEF Orders
        <5>2. q \in Posts /\ visits[q] \in Nat /\ visits[p] \in Nat
          BY <3>1, BoundsAssumption DEF Visible
        <5>3. visits'[p] = visits[p] /\ visits'[q] \in Nat /\ visits'[q] >= visits[q]
          BY <2>1, <3>1, <5>1, <5>2
        <5>4. MoreVisited(q, p) => MoreVisited(q, p)'
          BY <3>2, <5>2, <5>3 DEF MoreVisited
        <5> QED
          BY <2>1, <3>3, <4>2, <5>4 DEF PostBefore
      <4> QED
        BY <4>1, <4>2
    <3> QED
      BY <2>1, <2>3, <3>3, AheadStays
  <2> QED
    BY <2>1, <2>2, <2>3, <2>4, WalkGoesOn DEF WalkKept
<1>8. ASSUME UNCHANGED <<date, open, visits, pc, walk, began, steady>> PROVE WalkKept'
  <2>1. \A x : AheadOf(x)' = AheadOf(x)
    BY <1>8 DEF AheadOf, Items, Visible, Before, Ahead, MoreVisited, walk
  <2>2. Visible(began)' = Visible(began) /\ Sought' = Sought /\ Passed' = Passed
    BY <1>8 DEF Visible, Sought, Copies, Passed, Offset, walk
  <2> QED
    BY <1>8, <2>1, <2>2 DEF WalkKept, walk
<1>9. CASE Tick
  BY <1>8, <1>9 DEF Tick, content
<1>10. CASE UNCHANGED vars
  BY <1>8, <1>10 DEF vars, content
<1>11. ASSUME NEW k \in Tags, ReadCloud(k) PROVE WalkKept'
  BY <1>11 DEF ReadCloud, WalkKept
<1>12. ASSUME NEW state \in States, ReadAdminRows(state) PROVE WalkKept'
  BY <1>12 DEF ReadAdminRows, WalkKept
<1>13. ASSUME NEW k \in Tags, TurnTag(k) PROVE WalkKept'
  BY <1>8, <1>13 DEF TurnTag, content
<1> QED
  BY <1>1, <1>2, <1>3, <1>4, <1>5, <1>6, <1>7, <1>9, <1>10, <1>11, <1>12, <1>13 DEF Next

\* The invariant is inductive.
THEOREM ReadsInvariance == Spec => []ReadsInv
<1>1. Init => ReadsInv
  <2> SUFFICES ASSUME Init PROVE ReadsInv
    OBVIOUS
  <2>1. clock \in Nat /\ 0 \in Instants /\ 0 \in 0..clock /\ 0 \in 0..MaxVisits /\ 0 \in 0..PageSize
    BY BoundsAssumption, PagesHold DEF Init, Instants
  <2>2. TypeOK
    <3>1. NoWalk \in [order : Orders, tagged : BOOLEAN] /\ NoRow \in [post : Posts \cup {0}, date : Instants]
          /\ NoNote \in [about : Tags \cup States, number : Nat]
      BY <2>1 DEF NoWalk, NoRow, NoNote, Orders, States
    <3>2. visits \in [Posts -> 0..MaxVisits] /\ page \in Nat \ {0}
      BY <2>1 DEF Init
    <3> QED
      BY <2>1, <3>1, <3>2 DEF Init, TypeOK
  <2>3. RowKept /\ PageKept /\ NoteKept /\ WalkKept
    BY DEF Init, RowKept, PageKept, NoteKept, WalkKept
  <2> QED
    BY <2>2, <2>3 DEF ReadsInv
<1>2. ReadsInv /\ [Next]_vars => ReadsInv'
  BY ReadsTypes, RowStep, PageStep, NoteStep, WalkStep DEF ReadsInv
<1> QED
  BY <1>1, <1>2, PTL DEF Spec

-----------------------------------------------------------------------------
(* What the readers are answered *)

\* The sizes of sets that share nothing add up.
LEMMA DisjointSizes ==
  ASSUME NEW S, NEW T, IsFiniteSet(S), IsFiniteSet(T), S \cap T = {}
  PROVE  Cardinality(S \cup T) = Cardinality(S) + Cardinality(T)
<1>1. Cardinality({}) = 0
  BY FS_EmptySet
<1>2. Cardinality(S) \in Nat /\ Cardinality(T) \in Nat
  BY FS_CardinalityType
<1>3. Cardinality(S \cup T) = Cardinality(S) + Cardinality(T) - Cardinality(S \cap T)
  BY FS_Union
<1>4. Cardinality(S \cap T) = 0
  BY <1>1
<1> QED
  BY <1>2, <1>3, <1>4

\* Visible now is what was visible before and what fell due since.
LEMMA DueAre ==
  ASSUME TypeOK
  PROVE  /\ Visible(clock) = Visible(began) \cup Due /\ Visible(began) \cap Due = {}
         /\ Visible(clock) \subseteq Posts
<1>1. began \in Nat /\ clock \in Nat /\ began <= clock /\ \A p \in open : p \in Posts /\ date[p] \in Nat
  BY BoundsAssumption DEF TypeOK, Instants
<1> QED
  BY <1>1 DEF Visible, Due

\* The counts beside the admin's rows are of the rows, with what fell due
\* between the two transactions.
THEOREM CountsHold == Spec => []CountsFitRows
<1>1. ReadsInv => CountsFitRows
  <2> SUFFICES ASSUME ReadsInv, pc = "admin", quiet
               PROVE  note.number = Least(AdminLimit,
                        CASE note.about = "published" -> StateCounts(clock).published - Cardinality(Due)
                          [] note.about = "unpublished" -> StateCounts(clock).unpublished + Cardinality(Due)
                          [] OTHER -> StateCounts(clock).published + StateCounts(clock).unpublished)
    BY DEF CountsFitRows
  <2>1. TypeOK /\ note.about \in States
        /\ note.number = Least(AdminLimit, Cardinality(AdminRows(note.about, began)))
    BY DEF ReadsInv, NoteKept
  <2> DEFINE P == Visible(clock)
             U == Posts \ P
             B == Visible(began)
  <2>2. P = B \cup Due /\ B \cap Due = {} /\ P \subseteq Posts
    BY <2>1, DueAre
  <2>3. IsFiniteSet(Posts) /\ IsFiniteSet(P) /\ IsFiniteSet(U) /\ IsFiniteSet(B) /\ IsFiniteSet(Due)
    BY <2>2, PostsAreNumbers, FS_Subset
  <2>4. /\ Cardinality(P) \in Nat /\ Cardinality(U) \in Nat
        /\ Cardinality(B) \in Nat /\ Cardinality(Due) \in Nat
    BY <2>3, FS_CardinalityType
  <2>5. StateCounts(clock).published = Cardinality(P) /\ StateCounts(clock).unpublished = Cardinality(U)
    <3>1. {p \in Posts : ~(p \in open /\ date[p] <= clock)} = U
      BY DEF Visible
    <3> QED
      BY <3>1 DEF StateCounts, Visible
  <2>6. AdminRows("published", began) = B /\ AdminRows("all", began) = P \cup U
        /\ AdminRows("unpublished", began) = U \cup Due
    <3>1. AdminRows("published", began) = B
      BY DEF AdminRows, Visible
    <3>2. AdminRows("unpublished", began) = Posts \ B
      BY DEF AdminRows, Visible
    <3>3. AdminRows("all", began) = Posts
      BY DEF AdminRows
    <3> HIDE DEF P, B
    <3> QED
      BY <2>2, <3>1, <3>2, <3>3
  <2> HIDE DEF P, B
  <2>7. Cardinality(P) = Cardinality(B) + Cardinality(Due)
    BY <2>2, <2>3, <2>4, DisjointSizes
  <2>8. Cardinality(U \cup Due) = Cardinality(U) + Cardinality(Due)
    <3>1. U \cap Due = {}
      BY <2>2
    <3> HIDE DEF U
    <3> QED
      BY <2>3, <2>4, <3>1, DisjointSizes
  <2>9. Cardinality(P \cup U) = Cardinality(P) + Cardinality(U)
    <3>1. P \cap U = {}
      OBVIOUS
    <3> HIDE DEF U
    <3> QED
      BY <2>3, <2>4, <3>1, DisjointSizes
  <2> HIDE DEF U
  <2>10. CASE note.about = "published"
    BY <2>1, <2>4, <2>5, <2>6, <2>7, <2>10
  <2>11. CASE note.about = "unpublished"
    BY <2>1, <2>5, <2>6, <2>8, <2>11
  <2>12. CASE note.about = "all"
    BY <2>1, <2>5, <2>6, <2>9, <2>12
  <2> QED
    BY <2>1, <2>10, <2>11, <2>12 DEF States
<1> QED
  BY <1>1, ReadsInvariance, PTL

\* The total of a tagged listing counts rows of the join.
LEMMA TaggedCount ==
  ASSUME TypeOK, NEW now, NEW r,
         \A p : Copies(p, r.tagged) = {l \in Links : LinkPost[l] = p}
  PROVE  Count(r, now) = Cardinality({l \in Links : LinkPost[l] \in Visible(now)})
<1> DEFINE L == {l \in Links : LinkPost[l] \in Visible(now)}
           I == Items(r, now)
           f == [l \in L |-> <<LinkPost[l], l>>]
<1>1. \A x : x \in I <=> \E l \in L : x = <<LinkPost[l], l>>
  <2>1. \A p : /\ Copies(p, r.tagged) \subseteq Links
               /\ \A l \in Links : l \in Copies(p, r.tagged) <=> LinkPost[l] = p
    OBVIOUS
  <2> HIDE DEF I
  <2>2. ASSUME NEW x \in I PROVE \E l \in L : x = <<LinkPost[l], l>>
    <3>1. PICK p \in Visible(now), l \in Nat : l \in Copies(p, r.tagged) /\ x = <<p, l>>
      BY ItemsAre DEF I
    <3>2. l \in Links /\ LinkPost[l] = p
      BY <2>1, <3>1
    <3> QED
      BY <3>1, <3>2
  <2>3. ASSUME NEW l \in L PROVE <<LinkPost[l], l>> \in I
    <3>1. l \in Copies(LinkPost[l], r.tagged) /\ LinkPost[l] \in Visible(now) /\ l \in Nat
      BY <2>1, LinksJoin
    <3> QED
      BY <3>1, ItemsAre DEF I
  <2> QED
    BY <2>2, <2>3
<1> HIDE DEF I
<1>2. f \in [L -> I]
  BY <1>1
<1>3. \A j, k \in L : f[j] = f[k] => j = k
  OBVIOUS
<1>4. \A x \in I : \E l \in L : f[l] = x
  BY <1>1
<1>5. IsFiniteSet(L)
  BY LinksJoin, FS_Subset
<1> HIDE DEF f, L
<1>6. f \in Injection(L, I)
  BY <1>2, <1>3 DEF Injection, IsInjective
<1>7. f \in Surjection(L, I)
  BY <1>2, <1>4 DEF Surjection
<1>8. ExistsBijection(L, I)
  BY <1>6, <1>7 DEF Bijection, ExistsBijection
<1>9. Cardinality(I) = Cardinality(L)
  BY <1>5, <1>8, FS_Bijection
<1> QED
  BY <1>9 DEF Count, I, L

\* The listing opened at a tag of the cloud has the rows the cloud counted,
\* those of the slug's other tags and those that have fallen due: the cloud
\* drops deleted tags and groups by tag, the listing joins by the slug alone.
THEOREM CloudHolds == Spec => []ListingHoldsCloud
<1>1. ReadsInv => ListingHoldsCloud
  <2> DEFINE tagged == [order |-> "recent", tagged |-> TRUE]
             total == Count(tagged, clock)
             k == note.about
             A == {l \in Links : LinkTag[l] = k /\ LinkPost[l] \in Visible(began)}
             R == {l \in Links : LinkPost[l] \in Visible(clock) /\ (LinkTag[l] # k \/ LinkPost[l] \in Due)}
  <2> SUFFICES ASSUME ReadsInv, pc = "cloud", quiet
               PROVE  total = note.number + Cardinality(R)
    BY Zenon DEF ListingHoldsCloud
  <2>1. TypeOK /\ note.number = CloudCount(k, began)
    BY DEF ReadsInv, NoteKept
  <2>2. note.number = Cardinality(A)
    BY <2>1 DEF CloudCount, CloudPosts
  <2>3. total = Cardinality({l \in Links : LinkPost[l] \in Visible(clock)})
    <3>1. \A p : Copies(p, tagged.tagged) = {l \in Links : LinkPost[l] = p}
      BY Zenon DEF Copies
    <3> HIDE DEF tagged
    <3> QED
      BY <2>1, <3>1, TaggedCount
  <2>4. {l \in Links : LinkPost[l] \in Visible(clock)} = A \cup R /\ A \cap R = {}
    <3>1. Visible(clock) = Visible(began) \cup Due /\ Visible(began) \cap Due = {}
      BY <2>1, DueAre
    <3> QED
      BY <3>1
  <2>5. IsFiniteSet(A) /\ IsFiniteSet(R)
    BY LinksJoin, FS_Subset
  <2> HIDE DEF A, R
  <2>6. Cardinality(A) \in Nat /\ Cardinality(R) \in Nat
    BY <2>5, FS_CardinalityType
  <2>7. Cardinality(A \cup R) = Cardinality(A) + Cardinality(R)
    BY <2>4, <2>5, <2>6, DisjointSizes
  <2> QED
    BY <2>2, <2>3, <2>4, <2>7
<1> QED
  BY <1>1, ReadsInvariance, PTL

\* A page read without a write after it holds the items that the count
\* leaves for it, even if a post falls due in between.
THEOREM CountHolds == Spec => []CountFitsItems
<1>1. ReadsInv => CountFitsItems
  <2> SUFFICES ASSUME ReadsInv, pc = "items", quiet PROVE CountFitsItems
    BY DEF CountFitsItems
  <2>1. TypeOK /\ page \in Nat \ {0} /\ got = Cardinality(OnPage(reading, began, page))
    BY DEF ReadsInv, TypeOK, PageKept
  <2>2. got = IF page * PageSize <= Count(reading, began) THEN PageSize
              ELSE IF Count(reading, began) <= Offset(page) THEN 0
              ELSE Count(reading, began) - Offset(page)
    BY <2>1, PageHolds
  <2>3. Count(reading, began) \in Nat /\ page * PageSize = Offset(page) + PageSize
        /\ Offset(page) \in Nat /\ PageSize \in Nat \ {0}
    BY <2>1, ItemsAre, PageEnds, PagesHold
  <2>4. CASE page * PageSize <= Count(reading, began)
    <3>1. ~(Count(reading, began) <= Offset(page))
      BY <2>3, <2>4
    <3> QED
      BY <2>2, <2>4, <3>1 DEF CountFitsItems
  <2>5. CASE ~(page * PageSize <= Count(reading, began))
    BY <2>2, <2>5 DEF CountFitsItems
  <2> QED
    BY <2>4, <2>5
<1> QED
  BY <1>1, ReadsInvariance, PTL

\* A walk to the last page has met every post of the listing that stayed
\* visible and unmoved, for any page size, order and number of tag rows.
THEOREM WalkHolds == Spec => []WalkMissesNothing
<1>1. ReadsInv => WalkMissesNothing
  <2> SUFFICES ASSUME ReadsInv, pc = "items", page * PageSize >= Count(reading, began), ~slipped,
                      NEW p \in steady, Copies(p, reading.tagged) # {}
               PROVE  p \in seen
    BY DEF WalkMissesNothing
  <2>1. PICK l : l \in Copies(p, reading.tagged)
    OBVIOUS
  <2> DEFINE x == <<p, l>>
  <2>2. TypeOK /\ x \in Sought /\ page \in Nat \ {0}
    <3>1. l \in Nat
      BY <2>1, LinksJoin DEF Copies
    <3> QED
      BY <2>1, <3>1 DEF ReadsInv, TypeOK, Sought
  <2>3. x \in Items(reading, began)
    BY <2>2, SoughtAreItems DEF ReadsInv, WalkKept
  <2>4. l \in Nat
    BY <2>1, LinksJoin DEF Copies
  <2> HIDE DEF x
  <2>5. AheadOf(x) \in SUBSET Items(reading, began) /\ IsFiniteSet(Items(reading, began))
    BY <2>2, ItemsAre DEF AheadOf
  <2>6. Cardinality(AheadOf(x)) \in Nat /\ Count(reading, began) \in Nat
    BY <2>5, FS_Subset, FS_CardinalityType DEF Count
  <2>7. Cardinality(AheadOf(x)) < Count(reading, began)
    <3>1. ~Before(reading, x, x)
      BY <2>4 DEF Before, x
    <3>2. AheadOf(x) # Items(reading, began)
      BY <2>3, <3>1 DEF AheadOf
    <3>3. Cardinality(AheadOf(x)) <= Count(reading, began)
          /\ Cardinality(AheadOf(x)) # Count(reading, began)
      BY <2>5, <3>2, FS_Subset DEF Count
    <3> QED
      BY <2>6, <3>3
  <2>8. Cardinality(AheadOf(x)) < Passed
    <3>1. Passed = page * PageSize /\ page * PageSize \in Nat
      <4>1. Passed = page * PageSize
        BY DEF Passed
      <4> QED
        BY <2>2, <4>1, PageEnds, PagesHold
    <3> QED
      BY <2>6, <2>7, <3>1
  <2>9. x[1] \in seen
    BY <2>2, <2>8 DEF ReadsInv, WalkKept
  <2> QED
    BY <2>9 DEF x
<1> QED
  BY <1>1, ReadsInvariance, PTL

\* Following next posts from any visible one comes by all of them and no
\* other, whatever dates tie; read statement by statement it still moves on.
THEOREM TourHolds == Spec => []TourIsCycle
<1>1. ReadsInv => TourIsCycle
  <2> SUFFICES ASSUME ReadsInv PROVE TourIsCycle
    OBVIOUS
  <2>1. TypeOK
    BY DEF ReadsInv
  <2>2. NextMovesOn
    <3>1. RowKept
      BY DEF ReadsInv
    <3>2. ASSUME pc = "row", row.post \in steady, Olders(began, row.post, row.date) # {}
          PROVE  Newest(Olders(began, row.post, row.date)) # row.post
      <4>1. row.date = date[row.post] /\ row.post \in Posts
        BY <3>1, <3>2 DEF RowKept
      <4>2. ~Older(row.post, row.date, row.post)
        <5>1. row.post \in Nat /\ row.date \in Nat
          BY <2>1, <4>1, PostsHaveDates
        <5> QED
          BY <4>1, <5>1 DEF Older
      <4>3. Olders(began, row.post, row.date) \subseteq Posts
        BY <2>1 DEF TypeOK, Olders, Visible
      <4>4. Newest(Olders(began, row.post, row.date)) \in Olders(began, row.post, row.date)
        BY <2>1, <3>2, <4>3, NewestIsAhead
      <4> QED
        BY <4>2, <4>4 DEF Olders
    <3>3. ASSUME pc = "wrapped", row.post \in steady, steady # {row.post}
          PROVE  Newest(Visible(began)) # row.post
      <4>1. PICK q \in steady : q # row.post
        BY <3>3
      <4>2. Ahead(q, row.post) /\ q \in Visible(began) /\ row.post \in Posts
        BY <3>1, <3>3, <4>1 DEF RowKept
      <4>3. Visible(began) \subseteq Posts
        BY <2>1 DEF TypeOK, Visible
      <4>4. \A s \in Visible(began) \ {Newest(Visible(began))} : Ahead(Newest(Visible(began)), s)
        BY <2>1, <4>2, <4>3, NewestIsAhead
      <4>5. ~Ahead(row.post, q)
        <5>1. q \in Nat /\ date[q] \in Nat /\ row.post \in Nat /\ date[row.post] \in Nat
          BY <2>1, <4>2, <4>3, PostsHaveDates
        <5> QED
          BY <4>1, <4>2, <5>1 DEF Ahead
      <4> QED
        BY <4>1, <4>2, <4>4, <4>5
    <3> QED
      BY <3>2, <3>3 DEF NextMovesOn
  <2>3. \A p \in Visible(clock) : Tour(p) = Visible(clock)
    BY <2>1, TourIsAll
  <2> QED
    BY <2>1, <2>2, <2>3 DEF TourIsCycle
<1> QED
  BY <1>1, ReadsInvariance, PTL

-----------------------------------------------------------------------------
(* The inductive invariant of the redirects *)

Held == {slug[r] : r \in Rows} \ {None}

Committed == {e \in Editors : stage[e] = "committed"}

\* What a request has read and returned by now, and which rows the kind has.
RequestsKept ==
  /\ \A e \in Editors : stage[e] # "idle" => edited[e] \in Rows /\ before[e] \in Slugs
  /\ \A e \in Committed : after[e] \in Slugs
  /\ kind = "post" => None \notin {slug[r] : r \in Rows}
  /\ kind = "tag" => shown = Rows

\* H: slugs that a row has had under the blog's present name; left: when a
\* slug was left for the last time.

\* From a slug that was left the redirect leads to one that a row has or that
\* was left later.
Onward(left, s, t) == kind = "post" => t \in Held \/ left[t] > left[s]

HeldKept(H) == Held \subseteq H /\ served \subseteq {PathOf(s) : s \in H}

RedirectsKept(H, left) ==
  \A s \in H \ Held :
    \/ PathOf(s) \in lost \cup Pending
    \/ \E t \in H : redirect[PathOf(s)] = PathOf(t) /\ Onward(left, s, t)

MovesKept(H, left) ==
  \A e \in Committed :
    /\ kind = "tag" => after[e] \in H
    /\ kind = "post" /\ e \notin late /\ before[e] \in H \ Held =>
         after[e] \in H /\ Onward(left, before[e], after[e])

Trail(H, left) == HeldKept(H) /\ RedirectsKept(H, left) /\ MovesKept(H, left)

\* What a request that ends leaves of itself.
LEMMA FinishTypes ==
  ASSUME SlugTypeOK, RequestsKept, NEW e \in Editors, Finish(e)
  PROVE  /\ stage' \in [Editors -> {"idle", "looked", "committed"}]
         /\ edited' \in [Editors -> Rows \cup {None}]
         /\ before' \in [Editors -> Slugs \cup {None}]
         /\ after' \in [Editors -> Slugs \cup {None}]
         /\ Committed' = Committed \ {e}
         /\ \A f \in Editors \ {e} : /\ stage'[f] = stage[f] /\ edited'[f] = edited[f]
                                     /\ before'[f] = before[f] /\ after'[f] = after[f]
         /\ \A f \in Editors : stage'[f] # "idle" => edited'[f] \in Rows /\ before'[f] \in Slugs
         /\ \A f \in Committed' : after'[f] \in Slugs
<1>1. stage' = [stage EXCEPT ![e] = "idle"] /\ edited' = [edited EXCEPT ![e] = None]
      /\ before' = [before EXCEPT ![e] = None] /\ after' = [after EXCEPT ![e] = None]
  BY DEF Finish
<1>2. /\ stage \in [Editors -> {"idle", "looked", "committed"}]
      /\ edited \in [Editors -> Rows \cup {None}]
      /\ before \in [Editors -> Slugs \cup {None}]
      /\ after \in [Editors -> Slugs \cup {None}]
  BY DEF SlugTypeOK
<1>3. /\ stage' \in [Editors -> {"idle", "looked", "committed"}]
      /\ edited' \in [Editors -> Rows \cup {None}]
      /\ before' \in [Editors -> Slugs \cup {None}]
      /\ after' \in [Editors -> Slugs \cup {None}]
  BY <1>1, <1>2
<1>4. /\ stage'[e] = "idle"
      /\ \A f \in Editors \ {e} : /\ stage'[f] = stage[f] /\ edited'[f] = edited[f]
                                  /\ before'[f] = before[f] /\ after'[f] = after[f]
  BY <1>1, <1>2
<1>5. Committed' = Committed \ {e}
  BY <1>4 DEF Committed
<1> QED
  BY <1>3, <1>4, <1>5 DEF RequestsKept, Committed

\* The types and what requests in flight hold outlive every step.
LEMMA RequestsStep ==
  ASSUME SlugTypeOK, RequestsKept, [SlugNext]_slugVars
  PROVE  SlugTypeOK' /\ RequestsKept'
<1>1. ASSUME NEW e \in Editors, NEW r \in Rows, Look(e, r) PROVE SlugTypeOK' /\ RequestsKept'
  <2>1. slug[r] \in Slugs
    BY <1>1 DEF SlugTypeOK, Look
  <2>2. SlugTypeOK'
    BY <1>1, <2>1 DEF SlugTypeOK, Look, site, history, Paths
  <2>3. RequestsKept'
    BY <1>1, <2>1 DEF SlugTypeOK, RequestsKept, Look, site, history, Committed
  <2> QED
    BY <2>2, <2>3
<1>2. ASSUME NEW e \in Editors, NEW s \in Slugs, Patch(e, s) PROVE SlugTypeOK' /\ RequestsKept'
  <2> DEFINE r == edited[e]
  <2>1. r \in Rows /\ before[e] \in Slugs /\ slug[r] \in Slugs /\ stage[e] = "looked"
    BY <1>2 DEF Patch, SlugTypeOK, RequestsKept
  <2>2. /\ slug' = [slug EXCEPT ![r] = s] /\ \A q \in Rows \ {r} : slug[q] # s
        /\ served' = (IF r \in shown THEN served \cup {PathOf(s)} ELSE served)
        /\ lost' = (IF slug[r] \in {before[e], s} THEN lost ELSE lost \cup {PathOf(slug[r])})
        /\ late' = (IF slug[r] = s THEN late ELSE late \cup Overtaken(r))
        /\ UNCHANGED <<kind, shown, name, redirect>>
    BY <1>2 DEF Patch, Taken
  <2>3. /\ slug' \in [Rows -> Slugs \cup {None}]
        /\ \A q, x \in Rows : q # x /\ slug'[q] = slug'[x] => slug'[q] = None
    BY <2>1, <2>2 DEF SlugTypeOK
  <2>4. served' \subseteq Paths /\ lost' \subseteq Paths /\ late' \subseteq Editors
    <3>1. PathOf(s) \in Paths /\ PathOf(slug[r]) \in Paths
      BY <2>1 DEF PathOf, Paths, SlugTypeOK
    <3>2. Overtaken(r) \subseteq Editors
      BY DEF Overtaken
    <3> QED
      BY <2>2, <3>1, <3>2 DEF SlugTypeOK
  <2>5. /\ stage' \in [Editors -> {"idle", "looked", "committed"}]
        /\ edited' \in [Editors -> Rows \cup {None}]
        /\ before' \in [Editors -> Slugs \cup {None}]
        /\ after' \in [Editors -> Slugs \cup {None}]
        /\ \A f \in Editors : stage'[f] # "idle" => edited'[f] \in Rows /\ before'[f] \in Slugs
        /\ \A f \in Committed' : after'[f] \in Slugs
    <3>1. CASE Changed(e, s)
      <4>1. stage' = [stage EXCEPT ![e] = "committed"] /\ after' = [after EXCEPT ![e] = s]
            /\ edited' = edited /\ before' = before
        BY <1>2, <3>1 DEF Patch
      <4> QED
        BY <2>1, <4>1 DEF SlugTypeOK, RequestsKept, Committed
    <3>2. CASE ~Changed(e, s)
      BY <1>2, <3>2, FinishTypes DEF Patch
    <3> QED
      BY <3>1, <3>2
  <2>6. RequestsKept'
    <3>1. kind' = "post" => None \notin {slug'[q] : q \in Rows}
      BY <2>1, <2>2, SpecialValues DEF RequestsKept, SlugTypeOK
    <3> QED
      BY <2>2, <2>5, <3>1 DEF RequestsKept
  <2> QED
    BY <2>2, <2>3, <2>4, <2>5, <2>6 DEF SlugTypeOK, Paths
<1>3. ASSUME NEW e \in Editors, Finish(e), UNCHANGED <<kind, slug, shown, name, served>>,
             redirect' \in [Paths -> Paths \cup {None, Gone}],
             lost' \subseteq Paths, late' \subseteq Editors
      PROVE  SlugTypeOK' /\ RequestsKept'
  <2>1. /\ stage' \in [Editors -> {"idle", "looked", "committed"}]
        /\ edited' \in [Editors -> Rows \cup {None}]
        /\ before' \in [Editors -> Slugs \cup {None}]
        /\ after' \in [Editors -> Slugs \cup {None}]
        /\ \A f \in Editors : stage'[f] # "idle" => edited'[f] \in Rows /\ before'[f] \in Slugs
        /\ \A f \in Committed' : after'[f] \in Slugs
    BY <1>3, FinishTypes
  <2> QED
    BY <1>3, <2>1 DEF SlugTypeOK, RequestsKept, Paths
<1>4. ASSUME NEW e \in Editors, PatchFails(e) PROVE SlugTypeOK' /\ RequestsKept'
  <2>1. Finish(e) /\ UNCHANGED <<kind, slug, shown, name, redirect, served, lost, late>>
    BY <1>4 DEF PatchFails, site, history
  <2> QED
    BY <1>3, <2>1 DEF SlugTypeOK
<1>5. ASSUME NEW e \in Committed PROVE PathOf(before[e]) \in Paths /\ PathOf(after[e]) \in Paths
  BY <1>5 DEF Committed, RequestsKept, SlugTypeOK, PathOf, Paths
<1>6. ASSUME NEW e \in Editors, Record(e) PROVE SlugTypeOK' /\ RequestsKept'
  <2>1. e \in Committed /\ Finish(e) /\ UNCHANGED <<kind, slug, shown, name, served>>
    BY <1>6 DEF Record, Committed, site
  <2>2. redirect' \in [Paths -> Paths \cup {None, Gone}]
    BY <1>5, <1>6, <2>1 DEF Record, Move, SlugTypeOK
  <2>3. lost' \subseteq Paths /\ late' \subseteq Editors
    BY <1>5, <1>6, <2>1 DEF Record, SlugTypeOK
  <2> QED
    BY <1>3, <2>1, <2>2, <2>3
<1>7. ASSUME NEW e \in Editors, NotRecorded(e) PROVE SlugTypeOK' /\ RequestsKept'
  <2>1. e \in Committed /\ Finish(e) /\ UNCHANGED <<kind, slug, shown, name, served, redirect>>
    BY <1>7 DEF NotRecorded, Committed, site
  <2>2. lost' \subseteq Paths /\ late' \subseteq Editors
    BY <1>5, <1>7, <2>1 DEF NotRecorded, SlugTypeOK
  <2> QED
    BY <1>3, <2>1, <2>2 DEF SlugTypeOK
<1>8. ASSUME NEW p \in Rows, Show(p) PROVE SlugTypeOK' /\ RequestsKept'
  <2>1. PathOf(slug[p]) \in Paths
    BY <1>8 DEF Show, RequestsKept, SlugTypeOK, PathOf, Paths
  <2> QED
    BY <1>8, <2>1 DEF Show, request, RequestsKept, SlugTypeOK, Committed, Paths
<1>9. ASSUME NEW p \in Rows, Hide(p) PROVE SlugTypeOK' /\ RequestsKept'
  BY <1>9 DEF Hide, request, history, RequestsKept, SlugTypeOK, Committed, Paths
<1>10. ASSUME NEW k \in Rows, DeleteTag(k) PROVE SlugTypeOK' /\ RequestsKept'
  <2>1. PathOf(slug[k]) \in Paths
    BY <1>10 DEF DeleteTag, SlugTypeOK, PathOf, Paths
  <2>2. slug' = [slug EXCEPT ![k] = None] /\ kind' = "tag" /\ kind = "tag"
    BY <1>10 DEF DeleteTag
  <2>3. /\ slug' \in [Rows -> Slugs \cup {None}]
        /\ \A q, x \in Rows : q # x /\ slug'[q] = slug'[x] => slug'[q] = None
    BY <2>2 DEF SlugTypeOK
  <2> QED
    BY <1>10, <2>1, <2>2, <2>3 DEF DeleteTag, request, RequestsKept, SlugTypeOK, Committed, Paths
<1>11. ASSUME NEW k \in Rows, NEW s \in Slugs, CreateTag(k, s) PROVE SlugTypeOK' /\ RequestsKept'
  <2>1. PathOf(s) \in Paths
    BY DEF SlugTypeOK, PathOf, Paths
  <2>2. slug' = [slug EXCEPT ![k] = s] /\ kind' = "tag" /\ \A q \in Rows \ {k} : slug[q] # s
    BY <1>11 DEF CreateTag, Taken
  <2>3. /\ slug' \in [Rows -> Slugs \cup {None}]
        /\ \A q, x \in Rows : q # x /\ slug'[q] = slug'[x] => slug'[q] = None
    BY <2>2 DEF SlugTypeOK
  <2> QED
    BY <1>11, <2>1, <2>2, <2>3 DEF CreateTag, request, RequestsKept, SlugTypeOK, Committed, Paths
<1>12. ASSUME NEW n \in Names, RenameBlog(n) PROVE SlugTypeOK' /\ RequestsKept'
  <2>1. served' \subseteq Paths
    BY <1>12 DEF RenameBlog, RequestsKept, SlugTypeOK, Paths
  <2> QED
    BY <1>12, <2>1 DEF RenameBlog, request, RequestsKept, SlugTypeOK, Committed, Paths
<1>13. ASSUME NEW path \in Paths, MarkGone(path) PROVE SlugTypeOK' /\ RequestsKept'
  BY <1>13 DEF MarkGone, site, request, RequestsKept, SlugTypeOK, Committed, Paths
<1>14. CASE UNCHANGED slugVars
  BY <1>14 DEF slugVars, site, request, history, RequestsKept, SlugTypeOK, Committed, Paths
<1> QED
  BY <1>1, <1>2, <1>4, <1>6, <1>7, <1>8, <1>9, <1>10, <1>11, <1>12, <1>13, <1>14 DEF SlugNext

\* A step by which no post leaves its slug keeps the trail, if every slug that
\* is nobody's has its redirect as before, or an excuse, or one that leads
\* onward, and a new request returned a slug that a row has.
LEMMA TrailStays ==
  ASSUME NEW H \in SUBSET Slugs, NEW left, Trail(H, left),
         UNCHANGED <<kind, name>>, Held' \subseteq Held, kind = "post" => Held' = Held,
         \A path \in served' : \E s \in H : path = PathOf(s),
         \A s \in H \ Held' :
           \/ PathOf(s) \in lost' \cup Pending'
           \/ /\ s \notin Held /\ PathOf(s) \notin lost \cup Pending
              /\ redirect'[PathOf(s)] = redirect[PathOf(s)]
           \/ \E t \in H : redirect'[PathOf(s)] = PathOf(t) /\ Onward(left, s, t),
         \A e \in Committed' :
           \/ /\ e \in Committed /\ before'[e] = before[e] /\ after'[e] = after[e]
              /\ e \notin late' => e \notin late
           \/ after'[e] \in Held /\ after'[e] \in Held'
  PROVE  Trail(H, left)'
<1>1. Held \subseteq H
  BY DEF Trail, HeldKept
<1>2. \A s : PathOf(s)' = PathOf(s)
  BY DEF PathOf
<1>3. \A s, t : Onward(left, s, t) => Onward(left, s, t)'
  BY DEF Onward
<1>4. HeldKept(H)'
  BY <1>1, <1>2 DEF HeldKept
<1>5. RedirectsKept(H, left)'
  BY <1>2, <1>3 DEF RedirectsKept, Trail
<1>6. MovesKept(H, left)'
  <2> SUFFICES ASSUME NEW e \in Committed'
               PROVE  /\ kind = "tag" => after'[e] \in H
                      /\ kind = "post" /\ e \notin late' /\ before'[e] \in H \ Held' =>
                           after'[e] \in H /\ Onward(left, before[e], after[e])'
    BY DEF MovesKept
  <2>1. CASE after'[e] \in Held /\ after'[e] \in Held'
    BY <1>1, <2>1 DEF Onward
  <2>2. CASE /\ e \in Committed /\ before'[e] = before[e] /\ after'[e] = after[e]
             /\ e \notin late' => e \notin late
    BY <1>3, <2>2 DEF MovesKept, Trail
  <2> QED
    BY <2>1, <2>2
<1> QED
  BY <1>4, <1>5, <1>6 DEF Trail

\* Posts and tags that take a free slug: H grows by it, and the slug that is
\* left was left last.
LEMMA TrailMoves ==
  ASSUME SlugTypeOK, RequestsKept, NEW H \in SUBSET Slugs, NEW left \in [Slugs -> Nat],
         NEW last \in Nat, \A s \in Slugs : left[s] <= last, Trail(H, left),
         NEW e \in Editors, NEW s \in Slugs, Patch(e, s), NEW old, old = slug[edited[e]], old # s
  PROVE  Trail(H \cup {s}, [left EXCEPT ![old] = last + 1])'
<1> DEFINE r == edited[e]
           G == H \cup {s}
           new == [left EXCEPT ![old] = last + 1]
<1>1. r \in Rows /\ before[e] \in Slugs /\ old \in Slugs /\ stage[e] = "looked"
  BY DEF Patch, SlugTypeOK, RequestsKept
<1>2. /\ slug' = [slug EXCEPT ![r] = s] /\ \A q \in Rows \ {r} : slug[q] # s
      /\ served' = (IF r \in shown THEN served \cup {PathOf(s)} ELSE served)
      /\ lost' = (IF old \in {before[e], s} THEN lost ELSE lost \cup {PathOf(old)})
      /\ late' = late \cup Overtaken(r)
      /\ UNCHANGED <<kind, name, redirect>>
  BY DEF Patch, Taken
<1>3. Held' = (Held \ {old}) \cup {s} /\ old \in Held /\ s \notin Held
  <2>1. /\ \A q \in Rows \ {r} : slug'[q] = slug[q] /\ slug[q] # old
        /\ slug'[r] = s
    BY <1>1, <1>2, SpecialValues DEF SlugTypeOK
  <2>2. s # None /\ old # None
    BY <1>1, SpecialValues
  <2> QED
    BY <1>1, <1>2, <2>1, <2>2 DEF Held
<1>4. /\ \A f \in Editors \ {e} : /\ stage'[f] = stage[f] /\ before'[f] = before[f]
                                  /\ after'[f] = after[f]
      /\ e \in Committed' => before'[e] = before[e] /\ after'[e] = s
      /\ before[e] # s => e \in Committed'
  <2>1. CASE Changed(e, s)
    <3>1. stage' = [stage EXCEPT ![e] = "committed"] /\ after' = [after EXCEPT ![e] = s]
          /\ before' = before
      BY <2>1 DEF Patch
    <3> QED
      BY <3>1 DEF SlugTypeOK, Committed
  <2>2. CASE ~Changed(e, s)
    <3>1. Finish(e) /\ before[e] = s
      BY <2>2 DEF Patch, Changed
    <3> QED
      BY <3>1, FinishTypes
  <2> QED
    BY <2>1, <2>2
<1>5. e \notin Committed /\ Committed' \subseteq Committed \cup {e} /\ Committed \subseteq Committed'
  BY <1>1, <1>4 DEF Committed
<1>6. \A x : PathOf(x)' = PathOf(x)
  BY <1>2 DEF PathOf
<1>7. lost \subseteq lost' /\ Pending \subseteq Pending'
  <2>1. lost \subseteq lost'
    BY <1>2
  <2>2. /\ Pending = {<<name, before[f]>> : f \in Committed}
        /\ Pending' = {<<name', before'[f]>> : f \in Committed'}
    BY DEF Pending, Committed, PathOf
  <2> QED
    BY <1>2, <1>4, <1>5, <2>1, <2>2 DEF Committed
<1>8. /\ new \in [Slugs -> Nat] /\ new[old] = last + 1
      /\ \A x \in Slugs \ {old} : new[x] = left[x] /\ new[x] < new[old]
  BY <1>1
<1> HIDE DEF new
<1>9. ASSUME NEW x \in (H \ Held) \ {s}, NEW t \in H, Onward(left, x, t) PROVE Onward(new, x, t)'
  <2>1. x # old /\ x \in Slugs /\ t \in Slugs
    BY <1>3, <1>9
  <2>2. CASE t = old
    BY <1>8, <2>1, <2>2 DEF Onward
  <2>3. CASE t # old
    BY <1>2, <1>3, <1>8, <1>9, <2>1, <2>3 DEF Onward
  <2> QED
    BY <2>2, <2>3
<1>10. HeldKept(G)'
  BY <1>2, <1>3, <1>6 DEF Trail, HeldKept
<1>11. RedirectsKept(G, new)'
  <2> SUFFICES ASSUME NEW x \in G \ Held'
               PROVE  \/ PathOf(x) \in lost' \cup Pending'
                      \/ \E t \in G : redirect'[PathOf(x)] = PathOf(t) /\ Onward(new, x, t)'
    BY <1>6 DEF RedirectsKept
  <2>1. CASE x = old
    <3>1. CASE before[e] = old
      <4>1. e \in Committed' /\ before'[e] = old
        BY <1>4, <3>1
      <4> QED
        BY <1>6, <2>1, <4>1 DEF Pending, Committed
    <3>2. CASE before[e] # old
      BY <1>2, <2>1, <3>2
    <3> QED
      BY <3>1, <3>2
  <2>2. CASE x # old
    <3>1. x \in (H \ Held) \ {s}
      BY <1>3, <2>2
    <3> QED
      BY <1>2, <1>7, <1>9, <3>1 DEF Trail, RedirectsKept
  <2> QED
    BY <2>1, <2>2
<1>12. MovesKept(G, new)'
  <2> SUFFICES ASSUME NEW f \in Committed'
               PROVE  /\ kind = "tag" => after'[f] \in G
                      /\ kind = "post" /\ f \notin late' /\ before'[f] \in G \ Held' =>
                           after'[f] \in G /\ Onward(new, before[f], after[f])'
    BY <1>2 DEF MovesKept
  <2>1. CASE f = e
    BY <1>3, <1>4, <2>1 DEF Onward
  <2>2. CASE f # e
    <3>1. f \in Committed /\ f \in Editors /\ before'[f] = before[f] /\ after'[f] = after[f]
      BY <1>4, <1>5, <2>2 DEF Committed
    <3>2. kind = "tag" => after[f] \in H
      BY <3>1 DEF Trail, MovesKept
    <3>3. ASSUME kind = "post", f \notin late', before[f] \in G \ Held'
          PROVE  after[f] \in H /\ Onward(new, before[f], after[f])'
      <4>1. before[f] # old /\ f \notin late
        BY <1>2, <3>1, <3>3 DEF Overtaken, Committed
      <4>2. before[f] \in (H \ Held) \ {s}
        BY <1>3, <3>3, <4>1
      <4>3. after[f] \in H /\ Onward(left, before[f], after[f])
        BY <3>1, <3>3, <4>1, <4>2 DEF Trail, MovesKept
      <4>4. PICK x, t : x = before[f] /\ t = after[f]
        OBVIOUS
      <4>5. Onward(new, x, t)'
        BY <1>9, <4>2, <4>3, <4>4
      <4> QED
        BY <3>1, <4>3, <4>4, <4>5 DEF Onward
    <3> QED
      BY <3>1, <3>2, <3>3
  <2> QED
    BY <2>1, <2>2
<1> QED
  BY <1>10, <1>11, <1>12 DEF Trail, new

TrailKept ==
  \E H \in SUBSET Slugs, left \in [Slugs -> Nat], last \in Nat :
    (\A s \in Slugs : left[s] <= last) /\ Trail(H, left)

\* The trail from old slugs to the live one outlives every step.
LEMMA TrailStep ==
  ASSUME SlugTypeOK, RequestsKept, TrailKept, [SlugNext]_slugVars
  PROVE  TrailKept'
<1>1. PICK H \in SUBSET Slugs, left \in [Slugs -> Nat], last \in Nat :
        (\A s \in Slugs : left[s] <= last) /\ Trail(H, left)
  BY DEF TrailKept
<1>2. Trail(H, left)' => TrailKept'
  BY <1>1 DEF TrailKept
<1>3. Held \subseteq H /\ \A path \in served : \E s \in H : path = PathOf(s)
  BY <1>1 DEF Trail, HeldKept
<1>4. /\ \A s \in H \ Held : PathOf(s) \notin lost \cup Pending =>
                               \E t \in H : redirect[PathOf(s)] = PathOf(t) /\ Onward(left, s, t)
      /\ \A s, t : PathOf(s) = PathOf(t) => s = t
  BY <1>1 DEF Trail, RedirectsKept, PathOf
<1>5. Pending = {<<name, before[e]>> : e \in Committed}
  BY DEF Pending, Committed, PathOf
<1>6. Pending' = {<<name', before'[e]>> : e \in Committed'}
  BY DEF Pending, Committed, PathOf
<1>7. ASSUME NEW e \in Editors, NEW r \in Rows, Look(e, r) PROVE TrailKept'
  <2>1. /\ UNCHANGED <<kind, name, slug, served, lost, late, redirect, after>> /\ stage[e] = "idle"
        /\ stage' = [stage EXCEPT ![e] = "looked"] /\ before' = [before EXCEPT ![e] = slug[r]]
    BY <1>7 DEF Look, site, history
  <2>2. /\ Committed' = Committed /\ e \notin Committed
        /\ \A f \in Committed : before'[f] = before[f]
    BY <2>1 DEF Committed, SlugTypeOK
  <2>3. Pending' = Pending /\ Held' = Held
    BY <1>5, <1>6, <2>1, <2>2 DEF Held
  <2> QED
    BY <1>1, <1>2, <1>3, <2>1, <2>2, <2>3, TrailStays
<1>8. ASSUME NEW e \in Editors, NEW s \in Slugs, Patch(e, s) PROVE TrailKept'
  <2>1. CASE slug[edited[e]] # s
    <3>1. PICK old : old = slug[edited[e]]
      OBVIOUS
    <3> DEFINE G == H \cup {s}
               new == [left EXCEPT ![old] = last + 1]
    <3>2. Trail(G, new)'
      BY <1>1, <1>8, <2>1, <3>1, TrailMoves
    <3>3. G \in SUBSET Slugs /\ new \in [Slugs -> Nat] /\ last + 1 \in Nat
          /\ \A x \in Slugs : new[x] <= last + 1
      <4>1. \A x \in Slugs : left[x] \in Nat /\ left[x] <= last
        BY <1>1
      <4>2. \A x \in Slugs : new[x] = IF x = old THEN last + 1 ELSE left[x]
        OBVIOUS
      <4>3. last \in Nat /\ H \in SUBSET Slugs
        BY <1>1
      <4>4. \A x \in Slugs : new[x] \in Nat /\ new[x] <= last + 1
        BY <4>1, <4>2, <4>3
      <4>5. new \in [Slugs -> Nat]
        BY <1>1, <4>2, <4>4
      <4> QED
        BY <4>3, <4>4, <4>5
    <3> HIDE DEF G, new
    <3> QED
      BY <3>2, <3>3 DEF TrailKept
  <2>2. CASE slug[edited[e]] = s
    <3>1. /\ edited[e] \in Rows /\ stage[e] = "looked" /\ e \notin Committed
          /\ slug' = slug /\ lost' = lost /\ late' = late
          /\ UNCHANGED <<kind, name, shown, redirect>>
          /\ served' \subseteq served \cup {PathOf(s)}
      BY <1>8, <2>2 DEF Patch, SlugTypeOK, RequestsKept, Committed
    <3>2. Held' = Held /\ s \in Held
      BY <2>2, <3>1, SpecialValues DEF Held
    <3>3. /\ \A f \in Committed : f \in Committed' /\ before'[f] = before[f] /\ after'[f] = after[f]
          /\ \A f \in Committed' : f \in Committed \/ after'[f] = s
      <4>1. CASE Changed(e, s)
        <5>1. stage' = [stage EXCEPT ![e] = "committed"] /\ after' = [after EXCEPT ![e] = s]
              /\ before' = before
          BY <1>8, <4>1 DEF Patch
        <5> QED
          BY <3>1, <5>1 DEF SlugTypeOK, Committed
      <4>2. CASE ~Changed(e, s)
        <5>1. Finish(e)
          BY <1>8, <4>2 DEF Patch
        <5> QED
          BY <3>1, <5>1, FinishTypes DEF Committed
      <4> QED
        BY <4>1, <4>2
    <3>4. Pending \subseteq Pending'
      BY <1>5, <1>6, <3>1, <3>3
    <3> QED
      BY <1>1, <1>2, <1>3, <1>4, <3>1, <3>2, <3>3, <3>4, TrailStays
  <2> QED
    BY <2>1, <2>2
<1>9. ASSUME NEW e \in Editors, Finish(e), UNCHANGED <<kind, name, slug, served>>, late' = late \ {e},
             \A s \in H \ Held : s # before[e] \/ e \notin Committed =>
                                   /\ PathOf(s) \in lost => PathOf(s) \in lost'
                                   /\ redirect'[PathOf(s)] = redirect[PathOf(s)],
             \A s \in H \ Held : s = before[e] /\ e \in Committed =>
                 PathOf(s) \in lost' \/ \E t \in H : redirect'[PathOf(s)] = PathOf(t) /\ Onward(left, s, t)
      PROVE  TrailKept'
  <2>1. /\ Committed' = Committed \ {e}
        /\ \A f \in Editors \ {e} : before'[f] = before[f] /\ after'[f] = after[f]
    BY <1>9, FinishTypes
  <2>2. \A f \in Committed' : f \in Editors \ {e}
    BY <2>1 DEF Committed
  <2>3. Held' = Held
    BY <1>9 DEF Held
  <2>4. \A s : PathOf(s) \in Pending => PathOf(s) \in Pending' \/ (s = before[e] /\ e \in Committed)
    BY <1>5, <1>6, <1>9, <2>1, <2>2 DEF PathOf, Committed
  <2>5. \A s \in H \ Held' :
          \/ PathOf(s) \in lost' \cup Pending'
          \/ /\ s \notin Held /\ PathOf(s) \notin lost \cup Pending
             /\ redirect'[PathOf(s)] = redirect[PathOf(s)]
          \/ \E t \in H : redirect'[PathOf(s)] = PathOf(t) /\ Onward(left, s, t)
    BY <1>9, <2>3, <2>4
  <2>6. \A f \in Committed' : /\ f \in Committed /\ before'[f] = before[f] /\ after'[f] = after[f]
                              /\ f \notin late' => f \notin late
    BY <1>9, <2>1, <2>2
  <2> QED
    BY <1>1, <1>2, <1>3, <1>9, <2>3, <2>5, <2>6, TrailStays
<1>10. ASSUME NEW e \in Editors, PatchFails(e) PROVE TrailKept'
  <2>1. e \notin Committed /\ Finish(e)
        /\ UNCHANGED <<kind, name, slug, shown, served, lost, late, redirect>>
    BY <1>10 DEF PatchFails, site, history, Committed
  <2>2. \A f \in Committed' : f \in Committed /\ before'[f] = before[f] /\ after'[f] = after[f]
    <3>1. /\ Committed' = Committed \ {e}
          /\ \A f \in Editors \ {e} : before'[f] = before[f] /\ after'[f] = after[f]
      BY <2>1, FinishTypes
    <3> QED
      BY <3>1 DEF Committed
  <2>3. Held' = Held /\ Pending' = Pending
    <3>1. Committed' = Committed
      <4>1. Committed' = Committed \ {e}
        BY <2>1, FinishTypes
      <4> QED
        BY <2>1, <4>1
    <3> QED
      BY <1>5, <1>6, <2>1, <2>2, <3>1 DEF Held
  <2> QED
    BY <1>1, <1>2, <1>3, <2>1, <2>2, <2>3, TrailStays
<1>11. ASSUME NEW e \in Editors, Record(e) PROVE TrailKept'
  <2>1. /\ e \in Committed /\ Finish(e) /\ UNCHANGED <<kind, name, slug, served>> /\ late' = late \ {e}
        /\ redirect' = [redirect EXCEPT ![PathOf(before[e])] = PathOf(after[e])]
        /\ lost' = IF e \in late THEN lost \cup {PathOf(before[e])} ELSE lost \ {PathOf(before[e])}
    BY <1>11 DEF Record, Move, Committed, site
  <2>2. PathOf(before[e]) \in Paths
    BY <2>1 DEF RequestsKept, Committed, SlugTypeOK, PathOf, Paths
  <2>3. redirect'[PathOf(before[e])] = PathOf(after[e])
        /\ \A s : s # before[e] => redirect'[PathOf(s)] = redirect[PathOf(s)]
    BY <1>4, <2>1, <2>2 DEF SlugTypeOK
  <2>4. e \notin late /\ before[e] \in H \ Held => after[e] \in H /\ Onward(left, before[e], after[e])
    BY <1>1, <2>1 DEF Trail, MovesKept, Onward, SlugTypeOK
  <2> QED
    BY <1>4, <1>9, <2>1, <2>3, <2>4
<1>12. ASSUME NEW e \in Editors, NotRecorded(e) PROVE TrailKept'
  <2>1. /\ e \in Committed /\ Finish(e) /\ UNCHANGED <<kind, name, slug, served, redirect>>
        /\ late' = late \ {e} /\ lost' = lost \cup {PathOf(before[e])}
    BY <1>12 DEF NotRecorded, Committed, site
  <2> QED
    BY <1>9, <2>1
<1>13. ASSUME UNCHANGED <<kind, name, slug, stage, before, after, late>>, lost \subseteq lost',
              \A path \in served' : \E s \in H : path = PathOf(s),
              \A path \in Paths : redirect'[path] = redirect[path] \/ path \in lost'
       PROVE  TrailKept'
  <2>1. Held' = Held /\ Committed' = Committed
    BY <1>13 DEF Held, Committed
  <2>2. Pending' = Pending
    BY <1>5, <1>6, <1>13, <2>1
  <2>3. \A s \in H : PathOf(s) \in Paths
    BY DEF PathOf, Paths, SlugTypeOK
  <2> QED
    BY <1>1, <1>2, <1>13, <2>1, <2>2, <2>3, TrailStays
<1>14. ASSUME NEW p \in Rows, Show(p) \/ Hide(p) PROVE TrailKept'
  <2>1. UNCHANGED <<kind, name, slug, stage, before, after, late, lost, redirect>>
        /\ served' \subseteq served \cup {PathOf(slug[p])} /\ kind = "post"
    BY <1>14 DEF Show, Hide, request, history
  <2>2. slug[p] \in H
    BY <1>3, <2>1 DEF Held, RequestsKept
  <2> QED
    BY <1>3, <1>13, <2>1, <2>2
<1>15. ASSUME NEW k \in Rows, DeleteTag(k) PROVE TrailKept'
  <2>1. /\ kind = "tag" /\ slug' = [slug EXCEPT ![k] = None] /\ lost' = lost \cup {PathOf(slug[k])}
        /\ UNCHANGED <<kind, name, redirect, stage, before, after, served, late>>
    BY <1>15 DEF DeleteTag, request
  <2>2. Held' \subseteq Held /\ Held \ Held' \subseteq {slug[k]} /\ kind # "post"
    BY <2>1, SpecialValues DEF Held, SlugTypeOK
  <2>3. Committed' = Committed
    BY <2>1 DEF Committed
  <2>4. Pending' = Pending
    BY <1>5, <1>6, <2>1, <2>3
  <2>5. \A s \in H \ Held' :
          \/ PathOf(s) \in lost' \cup Pending'
          \/ /\ s \notin Held /\ PathOf(s) \notin lost \cup Pending
             /\ redirect'[PathOf(s)] = redirect[PathOf(s)]
    BY <2>1, <2>2, <2>4
  <2> QED
    BY <1>1, <1>2, <1>3, <2>1, <2>2, <2>3, <2>5, TrailStays
<1>16. ASSUME NEW k \in Rows, NEW s \in Slugs, CreateTag(k, s) PROVE TrailKept'
  <2> DEFINE G == H \cup {s}
  <2>1. /\ kind = "tag" /\ slug[k] = None /\ slug' = [slug EXCEPT ![k] = s]
        /\ served' = served \cup {PathOf(s)}
        /\ UNCHANGED <<kind, name, redirect, stage, before, after, lost, late>>
    BY <1>16 DEF CreateTag, request
  <2>2. Held' = Held \cup {s} /\ Committed' = Committed
    BY <2>1, SpecialValues DEF Held, Committed, SlugTypeOK
  <2>3. Pending' = Pending /\ \A x : PathOf(x)' = PathOf(x)
    BY <1>5, <1>6, <2>1, <2>2 DEF PathOf
  <2>4. HeldKept(G)'
    BY <1>3, <2>1, <2>2, <2>3 DEF HeldKept
  <2>5. RedirectsKept(G, left)'
    BY <1>1, <2>1, <2>2, <2>3 DEF Trail, RedirectsKept, Onward
  <2>6. MovesKept(G, left)'
    BY <1>1, <2>1, <2>2 DEF Trail, MovesKept
  <2>7. G \in SUBSET Slugs /\ Trail(G, left)'
    BY <2>4, <2>5, <2>6 DEF Trail
  <2> HIDE DEF G
  <2> QED
    BY <1>1, <2>7 DEF TrailKept
<1>17. ASSUME NEW n \in Names, RenameBlog(n) PROVE TrailKept'
  <2>1. PICK G : G = Held
    OBVIOUS
  <2>2. /\ kind = "post" /\ name' = n /\ served' = {<<n, slug[p]>> : p \in shown}
        /\ UNCHANGED <<kind, slug, shown>>
    BY <1>17 DEF RenameBlog
  <2>3. Held' = G /\ G \in SUBSET Slugs
    BY <2>1, <2>2 DEF Held, SlugTypeOK
  <2>4. \A p \in shown : slug[p] \in G
    BY <2>1, <2>2 DEF Held, RequestsKept, SlugTypeOK
  <2>5. HeldKept(G)'
    BY <2>2, <2>3, <2>4 DEF HeldKept, PathOf
  <2>6. RedirectsKept(G, left)' /\ MovesKept(G, left)'
    BY <2>2, <2>3 DEF RedirectsKept, MovesKept
  <2> QED
    BY <1>1, <2>3, <2>5, <2>6 DEF TrailKept, Trail
<1>18. ASSUME NEW path \in Paths, MarkGone(path) PROVE TrailKept'
  <2>1. /\ UNCHANGED <<kind, name, slug, stage, before, after, late, served>>
        /\ redirect' = [redirect EXCEPT ![path] = Gone] /\ lost' = lost \cup {path}
    BY <1>18 DEF MarkGone, site, request
  <2>2. \A q \in Paths : redirect'[q] = redirect[q] \/ q \in lost'
    BY <2>1 DEF SlugTypeOK
  <2> QED
    BY <1>3, <1>13, <2>1, <2>2
<1>19. CASE UNCHANGED slugVars
  BY <1>3, <1>13, <1>19 DEF slugVars, site, request, history
<1> QED
  BY <1>7, <1>8, <1>10, <1>11, <1>12, <1>14, <1>15, <1>16, <1>17, <1>18, <1>19 DEF SlugNext

RedirectsInv == SlugTypeOK /\ RequestsKept /\ TrailKept

\* The invariant is inductive.
THEOREM RedirectsInvariance == SlugSpec => []RedirectsInv
<1>1. SlugInit => RedirectsInv
  <2> SUFFICES ASSUME SlugInit PROVE RedirectsInv
    OBVIOUS
  <2>1. slug \in [Rows -> Slugs] /\ \A r, q \in Rows : r # q => slug[r] # slug[q]
    BY DEF SlugInit
  <2>2. Committed = {} /\ shown \subseteq Rows
    BY DEF Committed, SlugInit
  <2>3. SlugTypeOK
    BY <2>1, <2>2 DEF SlugInit, SlugTypeOK, Paths
  <2>4. RequestsKept
    BY <2>1, <2>2, SpecialValues DEF SlugInit, RequestsKept
  <2>5. PICK H : H = Held
    OBVIOUS
  <2>6. H \in SUBSET Slugs
    BY <2>1, <2>5 DEF Held
  <2>7. HeldKept(H)
    <3>1. \A r \in shown : slug[r] \in Held
      BY <2>1, <2>2, SpecialValues DEF Held
    <3> QED
      BY <2>5, <3>1 DEF HeldKept, SlugInit, PathOf
  <2>8. \A left : Trail(H, left)
    BY <2>2, <2>5, <2>7 DEF Trail, RedirectsKept, MovesKept
  <2>9. [s \in Slugs |-> 0] \in [Slugs -> Nat] /\ \A s \in Slugs : [x \in Slugs |-> 0][s] <= 0
    OBVIOUS
  <2>10. TrailKept
    BY <2>6, <2>8, <2>9 DEF TrailKept
  <2> QED
    BY <2>3, <2>4, <2>10 DEF RedirectsInv
<1>2. RedirectsInv /\ [SlugNext]_slugVars => RedirectsInv'
  BY RequestsStep, TrailStep DEF RedirectsInv
<1> QED
  BY <1>1, <1>2, PTL DEF SlugSpec

-----------------------------------------------------------------------------
(* Where old paths and old tags lead *)

\* A route goes from each path to the answer for it.
LEMMA RouteSteps ==
  ASSUME SlugTypeOK, NEW path \in Paths
  PROVE  /\ Route(path)[0] = path
         /\ \A n \in Nat : Route(path)[n] \in Paths => Route(path)[n + 1] = DetailAnswer(Route(path)[n])
<1> DEFINE D == Paths \cup {None, Gone}
           Step == [p \in D |-> IF p \in Paths THEN DetailAnswer(p) ELSE p]
<1>1. \A p \in Paths : DetailAnswer(p) \in D
  BY DEF DetailAnswer, SeamAnswer, SlugTypeOK
<1>2. Step \in [D -> D] /\ path \in D
  BY <1>1
<1>3. PICK f \in [Nat -> D] : f[0] = path /\ \A n \in Nat \ {0} : f[n] = Step[f[n - 1]]
  <2>1. PICK E, S, d : E = D /\ S = Step /\ d = path
    OBVIOUS
  <2> HIDE DEF D, Step
  <2>2. S \in [E -> E] /\ d \in E
    BY <1>2, <2>1
  <2>3. \E f \in [Nat -> E] : f[0] = d /\ \A n \in Nat \ {0} : f[n] = S[f[n - 1]]
    BY <2>2, Iteration
  <2> QED
    BY <2>1, <2>3
<1>4. \E stop : stop = [n \in Nat |-> IF n = 0 THEN path
                                      ELSE IF stop[n - 1] \in Paths THEN DetailAnswer(stop[n - 1])
                                           ELSE stop[n - 1]]
  <2>1. \A n \in Nat : n # 0 => n - 1 \in Nat
    OBVIOUS
  <2>2. \A n \in Nat : f[n] = IF n = 0 THEN path
                              ELSE IF f[n - 1] \in Paths THEN DetailAnswer(f[n - 1]) ELSE f[n - 1]
    BY <1>3, <2>1
  <2> QED
    BY <2>2
<1> DEFINE stop == Route(path)
<1>5. stop = [n \in Nat |-> IF n = 0 THEN path
                            ELSE IF stop[n - 1] \in Paths THEN DetailAnswer(stop[n - 1])
                                 ELSE stop[n - 1]]
  BY <1>4 DEF Route
<1> HIDE DEF stop
<1>6. \A n \in Nat : n + 1 \in Nat /\ n + 1 # 0 /\ (n + 1) - 1 = n
  OBVIOUS
<1>7. stop[0] = path /\ \A n \in Nat : stop[n] \in Paths => stop[n + 1] = DetailAnswer(stop[n])
  BY <1>5, <1>6
<1> QED
  BY <1>7 DEF stop

\* Each hop leads to a slug that was left later than the one before, so that
\* there are no more hops than slugs.
LEMMA OldPathLands ==
  ASSUME SlugTypeOK, RequestsKept, TrailKept, kind = "post", shown = Rows, NEW path \in served,
         \A n \in 0..Cardinality(Slugs) : Route(path)[n] \notin lost \cup Pending
  PROVE  Route(path)[Cardinality(Slugs)] \in Serving
<1>1. PICK H \in SUBSET Slugs, left \in [Slugs -> Nat] : Trail(H, left)
  BY DEF TrailKept
<1>2. Serving = {PathOf(s) : s \in Held}
  BY DEF Serving, Held
<1>3. /\ \A s, t : PathOf(s) = PathOf(t) => s = t
      /\ \A s \in Slugs : PathOf(s) \in Paths
      /\ \A s : PathOf(s)[1] = name
  BY DEF PathOf, Paths, SlugTypeOK
<1> DEFINE stop == Route(path)
           c == Cardinality(Slugs)
           Later(s) == {x \in Slugs : left[x] > left[s]}
<1>4. path \in Paths
  BY DEF SlugTypeOK
<1>5. stop[0] = path /\ \A n \in Nat : stop[n] \in Paths => stop[n + 1] = DetailAnswer(stop[n])
  BY <1>4, RouteSteps
<1>6. /\ c \in Nat
      /\ \A s \in Slugs : Cardinality(Later(s)) \in Nat /\ Cardinality(Later(s)) < c
      /\ \A s, t \in Slugs : left[t] > left[s] => Cardinality(Later(t)) < Cardinality(Later(s))
  <2>1. c \in Nat
    BY FewSlugs, FS_CardinalityType
  <2>2. ASSUME NEW A \in SUBSET Slugs
        PROVE  IsFiniteSet(A) /\ Cardinality(A) \in Nat
    BY FewSlugs, FS_Subset, FS_CardinalityType
  <2>3. ASSUME NEW A \in SUBSET Slugs, NEW B \in SUBSET A, B # A
        PROVE  Cardinality(B) < Cardinality(A)
    <3>1. IsFiniteSet(A) /\ Cardinality(A) \in Nat /\ Cardinality(B) \in Nat
      BY <2>2, <2>3
    <3>2. Cardinality(B) <= Cardinality(A) /\ Cardinality(A) # Cardinality(B)
      BY <2>3, <3>1, FS_Subset
    <3> QED
      BY <3>1, <3>2
  <2>4. ASSUME NEW s \in Slugs PROVE Cardinality(Later(s)) \in Nat /\ Cardinality(Later(s)) < c
    <3>1. Later(s) \in SUBSET Slugs /\ s \notin Later(s)
      OBVIOUS
    <3> HIDE DEF Later
    <3> QED
      BY <2>2, <2>3, <3>1
  <2>5. ASSUME NEW s \in Slugs, NEW t \in Slugs, left[t] > left[s]
        PROVE  Cardinality(Later(t)) < Cardinality(Later(s))
    <3>1. Later(s) \in SUBSET Slugs /\ Later(t) \in SUBSET Later(s) /\ t \in Later(s) /\ t \notin Later(t)
      BY <2>5
    <3> HIDE DEF Later
    <3> QED
      BY <2>3, <3>1
  <2> QED
    BY <2>1, <2>4, <2>5
<1> HIDE DEF stop, c, Later
<1> DEFINE At(n) == \/ stop[n] \in Serving
                    \/ \E s \in H \ Held : stop[n] = PathOf(s) /\ Cardinality(Later(s)) + n < c
           M == {n \in Nat : n <= c => At(n)}
<1>7. 0 \in M
  <2>1. PICK s \in H : path = PathOf(s)
    BY <1>1 DEF Trail, HeldKept
  <2>2. CASE s \in Held
    BY <1>2, <1>5, <2>1, <2>2
  <2>3. CASE s \notin Held
    BY <1>5, <1>6, <2>1, <2>3
  <2> QED
    BY <2>2, <2>3
<1>8. ASSUME NEW n \in Nat, n \in M PROVE n + 1 \in M
  <2> SUFFICES ASSUME n + 1 <= c PROVE At(n + 1)
    OBVIOUS
  <2>1. n <= c /\ At(n)
    BY <1>6, <1>8
  <2>2. stop[n] \notin lost \cup Pending
    BY <1>6, <2>1 DEF stop, c
  <2>3. CASE stop[n] \in Serving
    <3>1. PICK s \in Held : stop[n] = PathOf(s)
      BY <1>2, <2>3
    <3>2. s \in Slugs
      BY <1>1, <3>1 DEF Trail, HeldKept
    <3>3. stop[n + 1] = stop[n]
      BY <1>3, <1>5, <2>3, <3>1, <3>2 DEF DetailAnswer
    <3> QED
      BY <2>3, <3>3
  <2>4. ASSUME NEW s \in H \ Held, stop[n] = PathOf(s), Cardinality(Later(s)) + n < c PROVE At(n + 1)
    <3>1. PICK t \in H : redirect[PathOf(s)] = PathOf(t) /\ (t \in Held \/ left[t] > left[s])
      BY <1>1, <2>2, <2>4 DEF Trail, RedirectsKept, Onward
    <3>2. PathOf(s) \notin Serving
      BY <1>2, <1>3
    <3>3. stop[n + 1] = PathOf(t)
      BY <1>3, <1>5, <2>4, <3>1, <3>2 DEF DetailAnswer, SeamAnswer
    <3>4. CASE t \in Held
      BY <1>2, <3>3, <3>4
    <3>5. CASE t \notin Held
      <4>1. Cardinality(Later(t)) < Cardinality(Later(s))
        BY <1>6, <3>1, <3>5
      <4>2. Cardinality(Later(t)) + (n + 1) < c
        <5>1. Cardinality(Later(t)) \in Nat /\ Cardinality(Later(s)) \in Nat
          BY <1>6
        <5> QED
          BY <1>6, <2>4, <4>1, <5>1
      <4> QED
        BY <3>3, <3>5, <4>2
    <3> QED
      BY <3>4, <3>5
  <2> QED
    BY <2>1, <2>3, <2>4
<1> HIDE DEF M
<1>9. Nat \subseteq M
  BY <1>7, <1>8, NatClosure
<1>10. At(c)
  BY <1>6, <1>9 DEF M
<1>11. ASSUME NEW s \in H \ Held PROVE ~(Cardinality(Later(s)) + c < c)
  <2>1. Cardinality(Later(s)) \in Nat
    BY <1>6
  <2> QED
    BY <1>6, <2>1
<1> QED
  BY <1>10, <1>11 DEF stop, c

\* The path of every slug a post has had under the blog's present name ends
\* at a page, over as many hops as it takes and never in a circle, unless a
\* redirect on the way was lost or is still to be recorded.
THEOREM OldPathsHold == SlugSpec => []OldPathsLand
<1>1. RedirectsInv => OldPathsLand
  BY OldPathLands DEF RedirectsInv, OldPathsLand
<1> QED
  BY <1>1, RedirectsInvariance, PTL

\* A filter by slugs that tags have had is answered by a listing, or by one
\* redirect to a listing, unless the redirect of one of them was lost or is
\* still to be recorded.
THEOREM OldTagsHold == SlugSpec => []OldTagsAnswered
<1>1. RedirectsInv => OldTagsAnswered
  <2> SUFFICES ASSUME RedirectsInv, kind = "tag" PROVE OldTagsAnswered
    BY DEF OldTagsAnswered
  <2>1. SlugTypeOK /\ shown = Rows
    BY DEF RedirectsInv, RequestsKept
  <2>2. PICK H \in SUBSET Slugs, left \in [Slugs -> Nat] : Trail(H, left)
    BY DEF RedirectsInv, TrailKept
  <2>3. /\ Serving = {PathOf(s) : s \in Held} /\ Held \subseteq H
        /\ \A s, t : PathOf(s) = PathOf(t) => s = t
        /\ \A s : PathOf(s) = <<name, s>>
        /\ \A s \in Slugs : PathOf(s) \in Paths
    BY <2>1, <2>2 DEF Serving, Held, Trail, HeldKept, PathOf, Paths, SlugTypeOK
  \* A slug that tags have had is one, or its redirect leads to one they have had.
  <2>4. ASSUME NEW s \in H, PathOf(s) \notin lost \cup Pending
        PROVE  PathOf(s) \in Serving \/ (SeamAnswer(PathOf(s)) \in Paths /\ Canonical(s) \in H)
    <3>1. CASE s \in Held
      BY <2>3, <3>1
    <3>2. CASE s \notin Held
      <4>1. PICK t \in H : redirect[PathOf(s)] = PathOf(t)
        BY <2>2, <2>4, <3>2 DEF Trail, RedirectsKept
      <4>2. SeamAnswer(PathOf(s)) = PathOf(t) /\ PathOf(t) \in Paths /\ PathOf(t)[2] = t
        BY <2>3, <4>1 DEF SeamAnswer
      <4>3. PathOf(s) \notin Serving
        BY <2>3, <3>2
      <4>4. Canonical(s) = t
        BY <4>2, <4>3 DEF Canonical
      <4> QED
        BY <4>2, <4>4
    <3> QED
      BY <3>1, <3>2
  <2>5. ASSUME NEW s \in Slugs, PathOf(s) \in Serving \/ SeamAnswer(PathOf(s)) \in Paths
        PROVE  Canonical(s) \in Slugs
    BY <2>5 DEF Canonical, Paths
  <2>6. ASSUME NEW s \in Slugs, PathOf(s) \in Serving \/ SeamAnswer(PathOf(s)) \in Paths
        PROVE  \A b \in ListingAnswer({s}) : b # None /\ b[1] = "list"
    <3>1. ~ \E x \in {s} \ Found({s}) : SeamAnswer(PathOf(x)) \notin Paths
      BY <2>6 DEF Found
    <3>2. Cardinality({s}) = 1
      BY FS_Singleton
    <3>3. ListingAnswer({s}) = {<<"list", Canonical(x)>> : x \in {s}}
      BY <3>1, <3>2 DEF ListingAnswer
    <3>4. Canonical(s) \in Slugs
      BY <2>5, <2>6
    <3> QED
      BY <3>3, <3>4, SpecialValues
  <2>7. ASSUME NEW asked \in SUBSET Slugs \ {{}},
               \A s \in asked : PathOf(s) \in served \ (lost \cup Pending),
               NEW a \in ListingAnswer(asked)
        PROVE  /\ a # None
               /\ a[1] = "see" => \/ \A b \in ListingAnswer({a[2]}) : b # None /\ b[1] = "list"
                                  \/ PathOf(a[2]) \in lost \cup Pending
    <3>1. \A s \in asked : s \in H /\ s \in Slugs
      BY <2>2, <2>3, <2>7 DEF Trail, HeldKept
    <3>2. \A s \in asked : PathOf(s) \in Serving \/ (SeamAnswer(PathOf(s)) \in Paths /\ Canonical(s) \in H)
      BY <2>4, <2>7, <3>1
    <3>3. ~ \E s \in asked \ Found(asked) : SeamAnswer(PathOf(s)) \notin Paths
      BY <3>2 DEF Found
    <3>4. PICK s \in asked : a = <<"list", Canonical(s)>> \/ a = <<"see", Canonical(s)>>
      BY <3>3 DEF ListingAnswer, Found
    <3>5. Canonical(s) \in H /\ Canonical(s) \in Slugs
      <4>1. PathOf(s) \in Serving => Canonical(s) = s
        BY DEF Canonical
      <4> QED
        BY <3>1, <3>2, <4>1
    <3>6. a # None
      BY <3>4, <3>5, SpecialValues
    <3>7. CASE a = <<"list", Canonical(s)>>
      BY <3>6, <3>7
    <3>8. CASE a = <<"see", Canonical(s)>>
      <4>1. a[2] = Canonical(s)
        BY <3>8
      <4>2. PathOf(a[2]) \notin lost \cup Pending =>
              PathOf(a[2]) \in Serving \/ SeamAnswer(PathOf(a[2])) \in Paths
        BY <2>4, <3>5, <4>1
      <4> QED
        BY <2>6, <3>5, <3>6, <4>1, <4>2
    <3> QED
      BY <3>4, <3>7, <3>8
  <2> QED
    BY <2>7 DEF OldTagsAnswered
<1> QED
  BY <1>1, RedirectsInvariance, PTL

=============================================================================
