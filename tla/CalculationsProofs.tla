-------------------------- MODULE CalculationsProofs ------------------------
(***************************************************************************)
(* The engines, proved for any amounts ROIForm accepts, for any catalog    *)
(* and claims, for any tool and any rules of an organization, for any      *)
(* blocks of events and for the tools of any snapshot.                     *)
(* The invariant only says that an answer is the engine's; what is proved  *)
(* is what the engines compute.                                            *)
(*                                                                         *)
(* The sums of the risk engine are recursive functions: that they are      *)
(* defined is proved from a least counterexample (LeastExists), since the  *)
(* induction theorems of the library take a predicate that the provers     *)
(* cannot be given.  From there a total is bounded and compared number by  *)
(* number, a sorted sequence of rules is read by places, and two scores    *)
(* are compared by their results.                                          *)
(*                                                                         *)
(* The roots of a block are those of its segments, by induction on their   *)
(* length: a root determines the length and the leaves of a segment, and   *)
(* a segment has the root of its pairs, so every level has the same one.   *)
(*                                                                         *)
(* A report is summed up by two loops; each has an invariant over what it  *)
(* has passed (Counted, Gathered), and the places of the findings make the *)
(* count of the list a cardinality.                                        *)
(***************************************************************************)
EXTENDS Calculations, FiniteSetTheorems, SequenceTheorems, WellFoundedInduction,
        TLAPS

\* n / d is rounded to within half a unit, zero stays zero and a sign is kept.
LEMMA HalfUpRounds ==
  ASSUME NEW n \in Int, NEW d \in Nat \ {0}
  PROVE  LET q == HalfUp(n, d)
         IN  /\ q \in Int
             /\ 2 * (q * d - n) <= d /\ 2 * (q * d - n) >= -d
             /\ n >= 0 => q >= 0 /\ 2 * (q * d - n) > -d
             /\ n <= 0 => q <= 0
  <1> DEFINE h(m) == (2 * m + d) \div (2 * d)
  <1>1. ASSUME NEW m \in Nat
        PROVE  /\ h(m) \in Nat
               /\ 2 * (h(m) * d - m) <= d /\ 2 * (h(m) * d - m) > -d
    <2> DEFINE a == 2 * m + d
               b == 2 * d
               q == a \div b
    <2>1. a \in Nat /\ b \in Nat \ {0}
      OBVIOUS
    <2>2. a = b * q + (a % b) /\ 0 <= a % b /\ a % b < b /\ q \in Int /\ a % b \in Int
      <3> HIDE DEF a, b
      <3> QED BY <2>1
    <2>3. q \in Nat
      <3> HIDE DEF a, b
      <3> QED BY <2>1
    <2> DEFINE p == q * d
    <2>4. p \in Int /\ b * q = 2 * p
      <3> HIDE DEF q
      <3> QED BY <2>2
    <2>5. 2 * (p - m) <= d /\ 2 * (p - m) > -d
      <3> DEFINE r == a % b
      <3>1. 2 * m + d = 2 * p + r /\ 0 <= r /\ r < 2 * d /\ r \in Int
        BY <2>2, <2>4
      <3> HIDE DEF r, p
      <3> QED BY <2>4, <3>1
    <2> QED BY <2>3, <2>5
  <1> HIDE DEF h
  <1>2. CASE n >= 0
    <2>1. n \in Nat /\ HalfUp(n, d) = h(n)
      BY <1>2 DEF HalfUp, h
    <2>2. n = 0 => h(n) <= 0
      <3>1. ASSUME n = 0 PROVE h(n) = 0
        <4> DEFINE p == h(n) * d
        <4>1. h(n) \in Nat /\ 2 * p <= d
          BY <1>1, <3>1
        <4>2. CASE h(n) >= 1
          <5>1. p >= d
            BY <4>1, <4>2
          <5> QED BY <4>1, <5>1
        <4> QED BY <4>1, <4>2
      <3> QED BY <3>1
    <2>3. /\ h(n) \in Nat
          /\ 2 * (h(n) * d - n) <= d /\ 2 * (h(n) * d - n) > -d
      BY <1>1, <2>1
    <2> DEFINE k == h(n)
               p == k * d
    <2>4. p \in Int /\ k \in Nat
      BY <2>3
    <2>5. 2 * (p - n) <= d /\ 2 * (p - n) > -d
      BY <2>3
    <2>6. 2 * (p - n) >= -d
      <3> HIDE DEF p
      <3> QED BY <2>4, <2>5
    <2>7. n <= 0 => k <= 0
      BY <1>2, <2>2
    <2> HIDE DEF k
    <2> QED BY <1>2, <2>1, <2>4, <2>5, <2>6, <2>7 DEF k
  <1>3. CASE n < 0
    <2> DEFINE m == -n
    <2>1. m \in Nat /\ HalfUp(n, d) = -h(m)
      BY <1>3 DEF HalfUp, h
    <2>2. /\ h(m) \in Nat
          /\ 2 * (h(m) * d - m) <= d /\ 2 * (h(m) * d - m) > -d
      BY <1>1, <2>1
    <2> DEFINE k == h(m)
               p == k * d
    <2>3. p \in Int /\ (-k) * d = -p
      BY <2>2
    <2>4. 2 * (p - m) <= d /\ 2 * (p - m) > -d
      BY <2>2
    <2> HIDE DEF p, k
    <2>5. 2 * ((-k) * d - n) <= d /\ 2 * ((-k) * d - n) >= -d
      <3>1. 2 * (-p - n) <= d /\ 2 * (-p - n) >= -d
        BY <2>3, <2>4
      <3> QED BY <2>3, <3>1
    <2>6. -k <= 0 /\ -k \in Int
      BY <2>2 DEF k
    <2> QED BY <1>3, <2>1, <2>5, <2>6 DEF k
  <1> QED BY <1>2, <1>3

\* The figures of any amounts ROIForm accepts add up.
LEMMA RoiOfInputs ==
  ASSUME NEW i \in ROIForm, asked = [of |-> "roi", inputs |-> i], answer = CalculateRoi(i)
  PROVE  RoiAddsUp
  <1> DEFINE labor == HalfUp(i.hours * i.rate, 100)
             amortized == HalfUp(i.implementation, i.months)
             value == labor + i.revenue + i.avoided
             cost == i.subscription + amortized
  <1>1. /\ i.hours \in Nat /\ i.rate \in Nat /\ i.implementation \in Nat /\ i.months \in 1..120
        /\ i.revenue \in Nat /\ i.avoided \in Nat /\ i.subscription \in Nat
    BY DEF ROIForm
  <1>2. i.hours * i.rate \in Nat
    BY <1>1
  <1>3. /\ labor \in Nat /\ 2 * (100 * labor - i.hours * i.rate) \in -99..100
    <2> DEFINE n == i.hours * i.rate
    <2>1. n \in Nat
      BY <1>2
    <2> HIDE DEF n
    <2>2. /\ HalfUp(n, 100) \in Int /\ HalfUp(n, 100) >= 0
          /\ 2 * (HalfUp(n, 100) * 100 - n) <= 100 /\ 2 * (HalfUp(n, 100) * 100 - n) > -100
      BY <2>1, HalfUpRounds
    <2>3. HalfUp(n, 100) \in Nat /\ 2 * (100 * HalfUp(n, 100) - n) \in -99..100
      BY <2>1, <2>2
    <2> QED BY <2>3 DEF n
  <1>4. /\ amortized \in Nat
        /\ 2 * (amortized * i.months - i.implementation) \in -(i.months - 1)..i.months
    <2> DEFINE p == amortized * i.months
    <2>1. /\ amortized \in Int /\ amortized >= 0
          /\ 2 * (p - i.implementation) <= i.months
          /\ 2 * (p - i.implementation) > -i.months
      <3>1. i.implementation \in Int /\ i.months \in Nat \ {0} /\ i.implementation >= 0
        BY <1>1
      <3> QED BY <3>1, HalfUpRounds
    <2>2. p \in Int /\ i.months \in Int /\ i.implementation \in Int
      BY <1>1, <2>1
    <2> HIDE DEF p
    <2>3. 2 * (p - i.implementation) \in -(i.months - 1)..i.months
      BY <2>1, <2>2
    <2> QED BY <2>1, <2>3 DEF p
  <1>5. value \in Nat /\ cost \in Nat
    <2> HIDE DEF labor, amortized
    <2> QED BY <1>1, <1>3, <1>4
  <1>6. /\ answer.labor = labor /\ answer.amortized = amortized /\ answer.value = value
        /\ answer.cost = cost /\ answer.net = value - cost
        /\ answer.percent = Percent(value - cost, cost)
    BY DEF CalculateRoi
  <1> HIDE DEF labor, amortized, value, cost
  <1>7. Percent(value - cost, cost) = {} <=> cost = 0
    BY <1>5 DEF Percent
  <1>8. ASSUME NEW q \in Percent(value - cost, cost)
        PROVE  IsRounded(q, cost, value - cost)
    <2> DEFINE net == value - cost
               n == net * 10000
               p == q * cost
    <2>1. cost # 0 /\ q = HalfUp(n, cost)
      BY <1>5, <1>8 DEF Percent
    <2>2. net \in Int /\ n \in Int /\ cost \in Nat \ {0} /\ n = 10000 * net
      BY <1>5, <2>1
    <2>3. (net >= 0 => n >= 0) /\ (net <= 0 => n <= 0)
      BY <2>2
    <2> HIDE DEF n
    <2>4. /\ q \in Int /\ 2 * (p - n) <= cost /\ 2 * (p - n) >= -cost
          /\ n >= 0 => q >= 0
          /\ n <= 0 => q <= 0
      <3>1. n \in Int /\ cost \in Nat \ {0}
        BY <2>2
      <3> QED BY <2>1, <3>1, HalfUpRounds
    <2>5. p \in Int
      BY <2>2, <2>4
    <2> HIDE DEF p, net
    <2>6. 2 * (p - 10000 * net) \in -cost..cost
      BY <2>2, <2>4, <2>5
    <2> QED BY <2>3, <2>4, <2>6 DEF p, net, IsRounded
  <1>9. value - cost = answer.net
    BY <1>6
  <1> QED BY <1>3, <1>4, <1>6, <1>7, <1>8, <1>9 DEF RoiAddsUp

-----------------------------------------------------------------------------
\* The least of some priorities.
LEMMA LeastPriority ==
  ASSUME NEW S \in SUBSET (1..4), S # {}
  PROVE  Min(S) \in S /\ \A p \in S : Min(S) <= p
  <1>1. \E x \in S : \A y \in S : x <= y
    <2>0. \A y \in S : y = 1 \/ y = 2 \/ y = 3 \/ y = 4
      OBVIOUS
    <2>1. CASE 1 \in S
      BY <2>0, <2>1
    <2>2. CASE 1 \notin S /\ 2 \in S
      BY <2>0, <2>2
    <2>3. CASE 1 \notin S /\ 2 \notin S /\ 3 \in S
      BY <2>0, <2>3
    <2>4. CASE 1 \notin S /\ 2 \notin S /\ 3 \notin S
      <3>1. S = {4}
        BY <2>0, <2>4
      <3> QED BY <3>1
    <2> QED BY <2>1, <2>2, <2>3, <2>4
  <1> QED BY <1>1 DEF Min

\* A product is identified by the candidates of one priority, or is named by
\* those of the priorities up to it.
LEMMA NamedIsIdentified ==
  ASSUME NEW catalog, NEW candidates, asked.catalog = catalog, asked.candidates = candidates,
         NEW k \in 1..4
  PROVE  \A p : Naming(p, k) # {} <=> \E j \in 1..k : p \in Identified(catalog, candidates, j)
  <1>1. \A t \in Types : Priority[t] \in 1..4
    BY DEF Types, Priority
  <1>2. \A c \in candidates : Usable(c) => Priority[c.type] \in 1..4
    BY <1>1 DEF Usable
  <1>3. \A c, i : Identifies(i, c) <=>
          i.verified /\ <<i.type, i.scope>> = <<c.type, c.scope>>
          /\ i.canonical = Canonicalize(c.type, c.raw)
    BY DEF Identifies
  <1> TAKE p
  <1>4. ASSUME NEW c \in Naming(p, k)
        PROVE  \E j \in 1..k : p \in Identified(catalog, candidates, j)
    <2>1. c \in candidates /\ Usable(c) /\ Priority[c.type] <= k
      BY DEF Naming
    <2>2. PICK i \in catalog : i.product = p /\ Identifies(i, c)
      BY <1>3 DEF Naming
    <2>3. p \in Identified(catalog, candidates, Priority[c.type])
      BY <2>1, <2>2 DEF Identified
    <2>4. Priority[c.type] \in 1..k
      BY <1>2, <2>1
    <2> QED BY <2>3, <2>4
  <1>5. ASSUME NEW j \in 1..k, p \in Identified(catalog, candidates, j)
        PROVE  Naming(p, k) # {}
    <2>1. PICK i \in catalog : p = i.product /\ \E c \in candidates :
             Usable(c) /\ Priority[c.type] = j /\ Identifies(i, c)
      BY <1>5 DEF Identified
    <2>2. PICK c \in candidates : Usable(c) /\ Priority[c.type] = j /\ Identifies(i, c)
      BY <2>1
    <2>3. c \in Naming(p, k)
      BY <1>3, <2>1, <2>2 DEF Naming
    <2> QED BY <2>3
  <1> QED BY <1>4, <1>5

\* The match of any candidates is exact, with any catalog.
LEMMA MatchOfCandidates ==
  ASSUME NEW catalog \in SUBSET Identifiers, NEW candidates,
         asked = [of |-> "match", catalog |-> catalog, candidates |-> candidates],
         answer = MatchProduct(catalog, candidates)
  PROVE  MatchIsExact
  <1> DEFINE Found(k) == Identified(catalog, candidates, k)
             P == {k \in 1..4 : Found(k) # {}}
             m == Min(P)
             products == {i.product : i \in catalog}
             Named(k) == {p \in products : Naming(p, k) # {}}
  <1>1. \A k : Found(k) \subseteq products /\ IsFiniteSet(Found(k)) /\ IsFiniteSet(products)
    <2>1. IsFiniteSet(catalog)
      BY FS_Subset, CalculationsAssumption
    <2>2. IsFiniteSet(products)
      <3> DEFINE f == [i \in catalog |-> i.product]
      <3>1. f \in Surjection(catalog, products)
        BY DEF Surjection
      <3> HIDE DEF f, products
      <3> QED BY <2>1, <3>1, FS_Surjection
    <2>3. \A k : Found(k) \subseteq products
      BY DEF Identified
    <2> HIDE DEF Found, products
    <2> QED BY <2>2, <2>3, FS_Subset
  <1>2. \A k \in 1..4 : \A p : p \in Named(k) <=> \E j \in 1..k : p \in Found(j)
    <2> TAKE k \in 1..4
    <2>1. \A p : Naming(p, k) # {} <=> \E j \in 1..k : p \in Found(j)
      BY NamedIsIdentified
    <2> HIDE DEF Found, products
    <2> QED BY <1>1, <2>1
  <1>3. /\ P = {} => answer = [status |-> "unknown"]
        /\ P # {} /\ Cardinality(Found(m)) = 1 =>
             answer = [status |-> "known", product |-> CHOOSE p \in Found(m) : TRUE]
        /\ P # {} /\ Cardinality(Found(m)) # 1 => answer = [status |-> "review"]
    BY DEF MatchProduct, Deciding
  <1>4. {p \in products : Naming(p, 4) # {}} = Named(4)
    OBVIOUS
  <1> HIDE DEF Found, Named, products
  <1>5. P # {} => m \in 1..4 /\ Found(m) # {} /\ \A j \in 1..4 : j < m => Found(j) = {}
    BY LeastPriority
  <1>6. Named(4) = {} <=> P = {}
    BY <1>2
  <1> HIDE DEF P, m
  <1>7. ASSUME P # {}, Cardinality(Found(m)) = 1
        PROVE  \E k \in 1..4 : Named(k) = {answer.product}
    <2>1. PICK x : Found(m) = {x}
      BY <1>1, <1>7, FS_Singleton
    <2>2. answer.product = x
      BY <1>3, <1>7, <2>1
    <2>3. Named(m) = Found(m)
      <3>1. \A j \in 1..m : j \in 1..4 /\ (j # m => Found(j) = {})
        BY <1>5, <1>7
      <3> QED BY <1>2, <1>5, <1>7, <3>1
    <2> QED BY <1>5, <1>7, <2>1, <2>2, <2>3
  <1>8. ASSUME P # {}, Cardinality(Found(m)) # 1, NEW k \in 1..4
        PROVE  Cardinality(Named(k)) # 1
    <2> SUFFICES ASSUME Cardinality(Named(k)) = 1 PROVE FALSE
      OBVIOUS
    <2>1. IsFiniteSet(Named(k))
      <3>1. Named(k) \subseteq products
        BY DEF Named
      <3> QED BY <1>1, <3>1, FS_Subset
    <2>2. PICK x : Named(k) = {x}
      BY <2>1, FS_Singleton
    <2>3. PICK j \in 1..k : x \in Found(j)
      BY <1>2, <2>2
    <2>4. m <= j
      BY <1>5, <1>8, <2>3
    <2>5. m \in 1..k
      BY <1>5, <1>8, <2>3, <2>4
    <2>6. Found(m) \subseteq Named(k)
      BY <1>2, <2>5
    <2>7. Found(m) = {x}
      BY <1>5, <1>8, <2>2, <2>6
    <2> QED BY <1>8, <2>7, FS_Singleton
  <1>9. asked.catalog = catalog
    OBVIOUS
  <1>10. answer.status = "unknown" <=> Named(4) = {}
    BY <1>3, <1>6
  <1>11. answer.status = "known" => \E k \in 1..4 : Named(k) = {answer.product}
    BY <1>3, <1>7
  <1>12. answer.status = "review" => \A k \in 1..4 : Cardinality(Named(k)) # 1
    BY <1>3, <1>8
  <1> QED BY <1>9, <1>10, <1>11, <1>12 DEF MatchIsExact, Named, products

-----------------------------------------------------------------------------
\* A set of numbers has a least one.
LEMMA LeastExists ==
  ASSUME NEW T \in SUBSET Nat, T # {}
  PROVE  \E x \in T : \A y \in T : x <= y
  <1> DEFINE below(x) == {y \in T : y < x}
             F == {below(x) : x \in T}
  <1>1. F \subseteq FiniteSubsetsOf(T) /\ F # {}
    <2>1. ASSUME NEW x \in T PROVE below(x) \in SUBSET T /\ IsFiniteSet(below(x))
      <3>1. below(x) \in SUBSET (0..x) /\ x \in Nat
        <4>1. x \in Nat /\ \A y \in T : y \in Nat
          OBVIOUS
        <4>2. \A y \in T : y < x => y \in 0..x
          BY <4>1
        <4> QED BY <4>1, <4>2
      <3> HIDE DEF below
      <3>2. IsFiniteSet(0..x)
        BY <3>1, FS_Interval
      <3>3. IsFiniteSet(below(x))
        BY <3>1, <3>2, FS_Subset
      <3> QED BY <3>3 DEF below
    <2> HIDE DEF below
    <2> QED BY <2>1 DEF FiniteSubsetsOf
  <1>2. PICK S \in F : \A R \in F : ~(<<R, S>> \in StrictSubsetOrdering(T))
    <2> HIDE DEF F
    <2> QED BY <1>1, FS_StrictSubsetOrderingWellFounded, WFMin
  <1>3. PICK x \in T : S = below(x)
    BY <1>2
  <1>4. ASSUME NEW y \in T, ~(x <= y) PROVE FALSE
    <2>1. \A w, z \in T : w \in below(z) <=> w < z
      OBVIOUS
    <2>2. below(x) \subseteq T /\ below(y) \subseteq T
      OBVIOUS
    <2> HIDE DEF below
    <2>3. y < x /\ ~(y < y)
      BY <1>4
    <2>4. ASSUME NEW z \in T, z < y PROVE z < x
      BY <2>3, <2>4
    <2>5. below(y) \subseteq below(x) /\ y \in below(x) /\ y \notin below(y)
      BY <2>1, <2>2, <2>3, <2>4
    <2>6. <<below(y), below(x)>> \in StrictSubsetOrdering(T)
      BY <2>2, <2>5 DEF StrictSubsetOrdering
    <2>7. below(y) \in F
      OBVIOUS
    <2> HIDE DEF F
    <2> QED BY <1>2, <1>3, <2>6, <2>7
  <1> QED BY <1>4

\* Induction, with a set in the place of a predicate.
LEMMA Inductive ==
  ASSUME NEW m \in Nat, NEW S, 0 \in S, \A n \in 0..(m - 1) : n \in S => n + 1 \in S
  PROVE  0..m \subseteq S
  <1> SUFFICES ASSUME (0..m) \ S # {} PROVE FALSE
    OBVIOUS
  <1>1. PICK x \in (0..m) \ S : \A y \in (0..m) \ S : x <= y
    <2> DEFINE T == (0..m) \ S
    <2>1. T \in SUBSET Nat /\ T # {}
      OBVIOUS
    <2> HIDE DEF T
    <2>2. \E x \in T : \A y \in T : x <= y
      BY <2>1, LeastExists
    <2> QED BY <2>2 DEF T
  <1>2. x # 0 /\ x - 1 \in 0..(m - 1) /\ x - 1 \in 0..m
    BY <1>1
  <1>3. x - 1 \in S
    BY <1>1, <1>2
  <1>4. (x - 1) + 1 \in S
    BY <1>2, <1>3
  <1> QED BY <1>1, <1>4

\* Induction over all that is smaller.
LEMMA StronglyInductive ==
  ASSUME NEW m \in Nat, NEW S,
         \A n \in 1..m : (\A k \in 1..(n - 1) : k \in S) => n \in S
  PROVE  \A n \in 1..m : n \in S
  <1> SUFFICES ASSUME (1..m) \ S # {} PROVE FALSE
    OBVIOUS
  <1>1. PICK x \in (1..m) \ S : \A y \in (1..m) \ S : x <= y
    <2> DEFINE T == (1..m) \ S
    <2>1. T \in SUBSET Nat /\ T # {}
      OBVIOUS
    <2> HIDE DEF T
    <2>2. \E x \in T : \A y \in T : x <= y
      BY <2>1, LeastExists
    <2> QED BY <2>2 DEF T
  <1>2. \A k \in 1..(x - 1) : k \in S
    BY <1>1
  <1> QED BY <1>1, <1>2

\* the functions that m steps compute from base
Computed(m, S, base, step) ==
  {f \in [0..m -> S] : f[0] = base /\ \A i \in 1..m : f[i] = step[i][f[i - 1]]}

\* What is computed step by step exists.
LEMMA StepsExist ==
  ASSUME NEW m \in Nat, NEW S, NEW base \in S, NEW step \in [1..m -> [S -> S]]
  PROVE  Computed(m, S, base, step) # {}
  <1> DEFINE Computes(f, n) ==
               f \in [0..n -> S] /\ f[0] = base /\ \A i \in 1..n : f[i] = step[i][f[i - 1]]
             D == {n \in 0..m : \E f : Computes(f, n)}
  <1>1. 0 \in D
    <2>1. Computes([i \in 0..0 |-> base], 0)
      OBVIOUS
    <2> HIDE DEF Computes
    <2> QED BY <2>1
  <1>2. ASSUME NEW n \in 0..(m - 1), n \in D PROVE n + 1 \in D
    <2>1. PICK f : Computes(f, n)
      BY <1>2
    <2> DEFINE next == step[n + 1][f[n]]
               g == [i \in 0..(n + 1) |-> IF i = n + 1 THEN next ELSE f[i]]
    <2>2. f[n] \in S /\ n + 1 \in 1..m
      BY <2>1
    <2>3. next \in S
      BY <2>2
    <2>4. g \in [0..(n + 1) -> S]
      BY <2>1, <2>3
    <2>5. g[0] = base
      BY <2>1
    <2>6. ASSUME NEW i \in 1..(n + 1) PROVE g[i] = step[i][g[i - 1]]
      <3>1. CASE i = n + 1
        BY <3>1
      <3>2. CASE i # n + 1
        <4>1. i \in 1..n /\ i - 1 \in 0..n /\ i - 1 # n + 1 /\ i \in 0..(n + 1) /\ i - 1 \in 0..(n + 1)
          BY <3>2
        <4>2. g[i] = f[i] /\ g[i - 1] = f[i - 1]
          BY <3>2, <4>1
        <4>3. f[i] = step[i][f[i - 1]]
          BY <2>1, <4>1
        <4> HIDE DEF g
        <4> QED BY <4>2, <4>3
      <3> QED BY <3>1, <3>2
    <2>7. Computes(g, n + 1)
      BY <2>4, <2>5, <2>6
    <2> HIDE DEF Computes, g
    <2> QED BY <2>2, <2>7
  <1>3. m \in D
    <2> HIDE DEF D
    <2>1. m \in 0..m
      OBVIOUS
    <2> QED BY <1>1, <1>2, <2>1, Inductive
  <1> QED BY <1>3 DEF Computed

-----------------------------------------------------------------------------
\* A total is reached by adding one number after the other.
LEMMA TotalAdds ==
  ASSUME NEW s \in Seq(Nat)
  PROVE  \E t \in [0..Len(s) -> Nat] :
            t[0] = 0 /\ (\A i \in 1..Len(s) : t[i] = t[i - 1] + s[i]) /\ Total(s) = t[Len(s)]
  <1> DEFINE n == Len(s)
             step == [i \in 1..n |-> [x \in Nat |-> x + s[i]]]
             sum == CHOOSE sum : sum = [i \in 0..n |-> IF i = 0 THEN 0 ELSE sum[i - 1] + s[i]]
  <1>1. n \in Nat /\ \A i \in 1..n : s[i] \in Nat
    OBVIOUS
  <1>2. step \in [1..n -> [Nat -> Nat]]
    <2> HIDE DEF n
    <2> QED BY <1>1
  <1>3. PICK f \in [0..n -> Nat] : f[0] = 0 /\ \A i \in 1..n : f[i] = step[i][f[i - 1]]
    <2> HIDE DEF step, n
    <2>1. n \in Nat /\ 0 \in Nat
      BY <1>1
    <2>2. Computed(n, Nat, 0, step) # {}
      BY <1>2, <2>1, StepsExist
    <2> QED BY <2>2 DEF Computed
  <1>4. ASSUME NEW i \in 1..n PROVE f[i] = f[i - 1] + s[i]
    <2>1. i - 1 \in 0..n
      <3> HIDE DEF n
      <3> QED BY <1>1
    <2>2. f[i - 1] \in Nat
      BY <1>3, <2>1
    <2>3. step[i][f[i - 1]] = f[i - 1] + s[i]
      <3> HIDE DEF n
      <3> QED BY <2>2
    <2> QED BY <1>3, <2>3
  <1>5. f = [i \in 0..n |-> IF i = 0 THEN 0 ELSE f[i - 1] + s[i]]
    <2> HIDE DEF n, step
    <2> QED BY <1>1, <1>3, <1>4
  <1>6. sum = [i \in 0..n |-> IF i = 0 THEN 0 ELSE sum[i - 1] + s[i]]
    <2> HIDE DEF n
    <2> QED BY <1>5
  <1>7. Total(s) = sum[n]
    BY DEF Total
  <1> HIDE DEF sum, step
  <1>8. sum[0] = 0 /\ \A i \in 1..n : sum[i] = sum[i - 1] + s[i]
    <2> HIDE DEF n
    <2> QED BY <1>1, <1>6
  <1>9. 0..n \subseteq {i \in 0..n : sum[i] \in Nat}
    <2> HIDE DEF n
    <2> DEFINE D == {i \in 0..n : sum[i] \in Nat}
    <2>1. 0 \in D
      BY <1>1, <1>8
    <2>2. ASSUME NEW i \in 0..(n - 1), i \in D PROVE i + 1 \in D
      <3>1. i + 1 \in 1..n /\ (i + 1) - 1 = i /\ sum[i] \in Nat
        BY <1>1, <2>2
      <3>2. sum[i + 1] = sum[i] + s[i + 1]
        BY <1>8, <3>1
      <3>3. sum[i + 1] \in Nat /\ i + 1 \in 0..n
        BY <1>1, <3>1, <3>2
      <3> QED BY <3>3
    <2> HIDE DEF D
    <2>3. 0..n \subseteq D
      BY <1>1, <2>1, <2>2, Inductive
    <2> QED BY <2>3 DEF D
  <1>10. sum \in [0..n -> Nat]
    <2> HIDE DEF n
    <2> QED BY <1>6, <1>9
  <1> QED BY <1>7, <1>8, <1>10

\* A total grows with its numbers, and with more of them.
LEMMA TotalGrows ==
  ASSUME NEW s \in Seq(Nat), NEW r \in Seq(Nat), Len(s) <= Len(r),
         \A i \in 1..Len(s) : s[i] <= r[i]
  PROVE  Total(s) <= Total(r)
  <1>1. PICK t \in [0..Len(s) -> Nat] :
          t[0] = 0 /\ (\A i \in 1..Len(s) : t[i] = t[i - 1] + s[i]) /\ Total(s) = t[Len(s)]
    BY TotalAdds
  <1>2. PICK u \in [0..Len(r) -> Nat] :
          u[0] = 0 /\ (\A i \in 1..Len(r) : u[i] = u[i - 1] + r[i]) /\ Total(r) = u[Len(r)]
    BY TotalAdds
  <1> DEFINE n == Len(s)
             m == Len(r)
             D == {i \in 0..m : (i <= n => t[i] <= u[i]) /\ (i > n => t[n] <= u[i])}
  <1>3. n \in Nat /\ m \in Nat /\ n <= m
    OBVIOUS
  <1>4. (\A i \in 1..n : s[i] \in Nat) /\ (\A i \in 1..m : r[i] \in Nat)
    OBVIOUS
  <1> HIDE DEF n, m
  <1>5. 0 \in D
    BY <1>1, <1>2, <1>3 DEF n
  <1>6. ASSUME NEW i \in 0..(m - 1), i \in D PROVE i + 1 \in D
    <2>1. i + 1 \in 1..m /\ (i + 1) - 1 = i /\ i \in 0..m
      BY <1>3
    <2>2. u[i + 1] = u[i] + r[i + 1] /\ u[i] \in Nat /\ r[i + 1] \in Nat
      BY <1>2, <1>4, <2>1 DEF m
    <2>3. CASE i + 1 <= n
      <3>1. i + 1 \in 1..n /\ i \in 0..n
        BY <2>1, <2>3, <1>3
      <3>2. t[i + 1] = t[i] + s[i + 1] /\ t[i] \in Nat /\ s[i + 1] \in Nat /\ s[i + 1] <= r[i + 1]
        BY <1>1, <1>4, <2>1, <3>1 DEF n
      <3>3. t[i] <= u[i]
        BY <1>6, <2>3, <1>3
      <3>4. t[i + 1] <= u[i + 1]
        BY <2>2, <3>2, <3>3
      <3> QED BY <2>1, <2>3, <3>4, <1>3
    <2>4. CASE i + 1 > n
      <3>1. t[n] <= u[i]
        <4>1. i <= n => i = n
          BY <2>4, <1>3
        <4> QED BY <1>6, <4>1, <1>3
      <3>2. t[n] \in Nat
        <4>1. t \in [0..n -> Nat] /\ n \in 0..n
          BY <1>1, <1>3 DEF n
        <4> QED BY <4>1
      <3>3. t[n] <= u[i + 1]
        BY <2>2, <3>1, <3>2
      <3> QED BY <2>1, <2>4, <3>3, <1>3
    <2> QED BY <2>3, <2>4, <1>3
  <1>7. m \in D
    <2> HIDE DEF D
    <2>1. 0..m \subseteq D
      BY <1>3, <1>5, <1>6, Inductive
    <2> QED BY <1>3, <2>1
  <1>8. t[n] <= u[m]
    BY <1>3, <1>7
  <1> QED BY <1>1, <1>2, <1>8 DEF n, m

\* A total of which one number at most is not zero is at most that number.
LEMMA TotalOfOne ==
  ASSUME NEW s \in Seq(Nat), NEW c \in Nat, \A i \in 1..Len(s) : s[i] <= c,
         \A i, j \in 1..Len(s) : s[i] > 0 /\ s[j] > 0 => i = j
  PROVE  Total(s) <= c
  <1>1. PICK t \in [0..Len(s) -> Nat] :
          t[0] = 0 /\ (\A i \in 1..Len(s) : t[i] = t[i - 1] + s[i]) /\ Total(s) = t[Len(s)]
    BY TotalAdds
  <1> DEFINE n == Len(s)
             D == {i \in 0..n : t[i] <= c /\ (t[i] > 0 => \E j \in 1..i : s[j] > 0)}
  <1>2. n \in Nat /\ \A i \in 1..n : s[i] \in Nat
    OBVIOUS
  <1> HIDE DEF n
  <1>3. 0 \in D
    BY <1>1, <1>2
  <1>4. ASSUME NEW i \in 0..(n - 1), i \in D PROVE i + 1 \in D
    <2>1. i + 1 \in 1..n /\ (i + 1) - 1 = i /\ i \in 0..n /\ i \in Nat
      BY <1>2
    <2>2. t[i + 1] = t[i] + s[i + 1] /\ t[i] \in Nat /\ s[i + 1] \in Nat /\ s[i + 1] <= c
      BY <1>1, <1>2, <2>1 DEF n
    <2>3. CASE s[i + 1] = 0
      <3>1. t[i + 1] = t[i]
        BY <2>2, <2>3
      <3>2. \A j \in 1..i : j \in 1..(i + 1)
        BY <2>1
      <3> QED BY <1>4, <2>1, <3>1, <3>2
    <2>4. CASE s[i + 1] # 0
      <3>1. s[i + 1] > 0
        BY <2>2, <2>4
      <3>2. ~ \E j \in 1..i : s[j] > 0
        <4>1. ASSUME NEW j \in 1..i, s[j] > 0 PROVE FALSE
          <5>1. j \in 1..n /\ j # i + 1
            BY <2>1, <1>2
          <5> QED BY <2>1, <3>1, <4>1, <5>1 DEF n
        <4> QED BY <4>1
      <3>3. t[i] = 0
        BY <1>4, <2>2, <3>2
      <3>4. t[i + 1] <= c
        BY <2>2, <3>3
      <3>5. i + 1 \in 1..(i + 1) /\ i + 1 \in 0..n
        BY <2>1, <1>2
      <3> QED BY <3>1, <3>4, <3>5
    <2> QED BY <2>3, <2>4
  <1>5. n \in D
    <2> HIDE DEF D
    <2>1. 0..n \subseteq D
      BY <1>2, <1>3, <1>4, Inductive
    <2> QED BY <1>2, <2>1
  <1> QED BY <1>1, <1>5 DEF n

\* The total of two sequences, one after the other.
LEMMA TotalOfBoth ==
  ASSUME NEW s \in Seq(Nat), NEW r \in Seq(Nat)
  PROVE  Total(s \o r) = Total(s) + Total(r) /\ Total(s) \in Nat /\ Total(r) \in Nat
  <1> DEFINE n == Len(s)
             m == Len(r)
             b == s \o r
  <1>1. /\ n \in Nat /\ m \in Nat /\ b \in Seq(Nat) /\ Len(b) = n + m
        /\ \A i \in 1..n : b[i] = s[i]
        /\ \A i \in 1..m : b[n + i] = r[i]
    OBVIOUS
  <1>2. PICK t \in [0..n -> Nat] :
          t[0] = 0 /\ (\A i \in 1..n : t[i] = t[i - 1] + s[i]) /\ Total(s) = t[n]
    BY TotalAdds
  <1>3. PICK u \in [0..m -> Nat] :
          u[0] = 0 /\ (\A i \in 1..m : u[i] = u[i - 1] + r[i]) /\ Total(r) = u[m]
    BY TotalAdds
  <1> HIDE DEF b
  <1>4. PICK v \in [0..Len(b) -> Nat] :
          v[0] = 0 /\ (\A i \in 1..Len(b) : v[i] = v[i - 1] + b[i]) /\ Total(b) = v[Len(b)]
    BY <1>1, TotalAdds
  <1> DEFINE D == {i \in 0..n : v[i] = t[i]}
             E == {i \in 0..m : v[n + i] = t[n] + u[i]}
  <1> HIDE DEF n, m
  <1>5. n \in D
    <2>1. 0 \in D
      BY <1>1, <1>2, <1>4
    <2>2. ASSUME NEW i \in 0..(n - 1), i \in D PROVE i + 1 \in D
      <3>1. i + 1 \in 1..n /\ (i + 1) - 1 = i /\ i + 1 \in 1..Len(b) /\ i + 1 \in 0..n
        BY <1>1
      <3>2. t[i + 1] = t[i] + s[i + 1] /\ v[i + 1] = v[i] + s[i + 1] /\ v[i] = t[i]
        BY <1>1, <1>2, <1>4, <2>2, <3>1
      <3> QED BY <3>1, <3>2
    <2> HIDE DEF D
    <2>3. 0..n \subseteq D
      BY <1>1, <2>1, <2>2, Inductive
    <2> QED BY <1>1, <2>3
  <1>6. m \in E
    <2>1. 0 \in E
      <3>1. v[n] = t[n] /\ u[0] = 0 /\ t[n] \in Nat
        BY <1>1, <1>2, <1>3, <1>5
      <3> QED BY <1>1, <3>1
    <2>2. ASSUME NEW i \in 0..(m - 1), i \in E PROVE i + 1 \in E
      <3>1. /\ i + 1 \in 1..m /\ (i + 1) - 1 = i /\ n + (i + 1) \in 1..Len(b)
            /\ (n + (i + 1)) - 1 = n + i /\ i + 1 \in 0..m /\ i \in 0..m
        BY <1>1
      <3>2. u[i + 1] = u[i] + r[i + 1] /\ u[i] \in Nat /\ u[i + 1] \in Nat
        BY <1>3, <3>1
      <3>3. v[n + (i + 1)] = v[n + i] + r[i + 1] /\ v[n + i] = t[n] + u[i]
        BY <1>1, <1>4, <2>2, <3>1
      <3>4. t[n] \in Nat /\ r[i + 1] \in Nat
        <4>1. t[n] \in Nat
          BY <1>1, <1>2
        <4> QED BY <4>1, <3>1 DEF m
      <3>5. v[n + (i + 1)] = t[n] + u[i + 1]
        BY <3>2, <3>3, <3>4
      <3> QED BY <3>1, <3>5
    <2> HIDE DEF E
    <2>3. 0..m \subseteq E
      BY <1>1, <2>1, <2>2, Inductive
    <2> QED BY <1>1, <2>3
  <1>7. v[n + m] = t[n] + u[m]
    BY <1>6
  <1>8. t[n] \in Nat /\ u[m] \in Nat
    BY <1>1, <1>2, <1>3
  <1> QED BY <1>1, <1>2, <1>3, <1>4, <1>7, <1>8 DEF b

\* The effects of all results are collected result by result.
LEMMA EffectsAdd ==
  ASSUME NEW E, NEW results, Len(results) \in Nat,
         \A i \in 1..Len(results) : results[i].effects \in Seq(E)
  PROVE  \E a \in [0..Len(results) -> Seq(E)] :
            /\ a[0] = <<>> /\ Effects(results) = a[Len(results)]
            /\ \A i \in 1..Len(results) : a[i] = a[i - 1] \o results[i].effects
  <1> DEFINE none == <<>>
             n == Len(results)
             step == [i \in 1..n |-> [x \in Seq(E) |-> x \o results[i].effects]]
             all == CHOOSE all : all = [i \in 0..n |-> IF i = 0 THEN none
                                                      ELSE all[i - 1] \o results[i].effects]
  <1>1. n \in Nat /\ \A i \in 1..n : results[i].effects \in Seq(E)
    OBVIOUS
  <1>2. none \in Seq(E)
    OBVIOUS
  <1>3. step \in [1..n -> [Seq(E) -> Seq(E)]]
    <2> HIDE DEF n
    <2>1. \A i \in 1..n, x \in Seq(E) : x \o results[i].effects \in Seq(E)
      BY <1>1
    <2> QED BY <2>1
  <1>4. PICK f \in [0..n -> Seq(E)] : f[0] = none /\ \A i \in 1..n : f[i] = step[i][f[i - 1]]
    <2> HIDE DEF step, n
    <2>1. n \in Nat /\ none \in Seq(E)
      BY <1>1
    <2>2. Computed(n, Seq(E), none, step) # {}
      BY <1>3, <2>1, StepsExist
    <2> QED BY <2>2 DEF Computed
  <1>5. ASSUME NEW i \in 1..n PROVE f[i] = f[i - 1] \o results[i].effects
    <2>1. i - 1 \in 0..n
      <3> HIDE DEF n
      <3> QED BY <1>1
    <2>2. f[i - 1] \in Seq(E)
      BY <1>4, <2>1
    <2>3. step[i][f[i - 1]] = f[i - 1] \o results[i].effects
      <3> HIDE DEF n
      <3> QED BY <2>2
    <2> QED BY <1>4, <2>3
  <1>6. f = [i \in 0..n |-> IF i = 0 THEN none ELSE f[i - 1] \o results[i].effects]
    <2> HIDE DEF n, step, none
    <2>1. \A i \in 0..n : i = 0 \/ i \in 1..n
      BY <1>1
    <2>2. \A i \in 0..n : f[i] = IF i = 0 THEN none ELSE f[i - 1] \o results[i].effects
      BY <1>4, <1>5, <2>1, Zenon
    <2>3. f = [i \in 0..n |-> f[i]]
      BY <1>4
    <2> QED BY <2>2, <2>3, Zenon
  <1>7. all = [i \in 0..n |-> IF i = 0 THEN none ELSE all[i - 1] \o results[i].effects]
    <2> HIDE DEF n
    <2> QED BY <1>6
  <1>8. Effects(results) = all[n]
    BY DEF Effects
  <1> HIDE DEF all, step, none
  <1>9. all[0] = none /\ \A i \in 1..n : all[i] = all[i - 1] \o results[i].effects
    <2> HIDE DEF n
    <2>1. \A i \in 1..n : i \in 0..n /\ i # 0
      BY <1>1
    <2>2. 0 \in 0..n
      BY <1>1
    <2>3. \A i \in 0..n : all[i] = IF i = 0 THEN none ELSE all[i - 1] \o results[i].effects
      BY <1>7, Zenon
    <2> QED BY <2>1, <2>2, <2>3, Zenon
  <1>10. 0..n \subseteq {i \in 0..n : all[i] \in Seq(E)}
    <2> HIDE DEF n
    <2> DEFINE D == {i \in 0..n : all[i] \in Seq(E)}
    <2>1. 0 \in D
      BY <1>2, <1>1, <1>9
    <2>2. ASSUME NEW i \in 0..(n - 1), i \in D PROVE i + 1 \in D
      <3>1. i + 1 \in 1..n /\ (i + 1) - 1 = i /\ all[i] \in Seq(E)
        BY <1>1, <2>2
      <3>2. all[i + 1] = all[i] \o results[i + 1].effects /\ results[i + 1].effects \in Seq(E)
        BY <1>1, <1>9, <3>1
      <3>3. all[i + 1] \in Seq(E) /\ i + 1 \in 0..n
        BY <3>1, <3>2
      <3> QED BY <3>3
    <2> HIDE DEF D
    <2>3. 0..n \subseteq D
      BY <1>1, <2>1, <2>2, Inductive
    <2> QED BY <2>3 DEF D
  <1>11. all \in [0..n -> Seq(E)]
    <2> HIDE DEF n
    <2> QED BY <1>7, <1>10
  <1> QED BY <1>8, <1>9, <1>11 DEF none

\* what one effect adds
LEMMA GainIsPoints ==
  ASSUME NEW e \in OrganizationEffects, NEW d
  PROVE  Gain(e, d) \in 0..100
  BY DEF Gain, OrganizationEffects, BandOf

\* The points of two sequences of effects, one after the other.
LEMMA PointsAdd ==
  ASSUME NEW a \in Seq(OrganizationEffects), NEW b \in Seq(OrganizationEffects), NEW d
  PROVE  /\ RawPoints(a \o b, d) = RawPoints(a, d) + RawPoints(b, d)
         /\ RawPoints(a, d) \in Nat /\ RawPoints(b, d) \in Nat
  <1> DEFINE E == OrganizationEffects
             gains(s) == [k \in 1..Len(s) |-> Gain(s[k], d)]
  <1>1. \A s \in Seq(E) : gains(s) \in Seq(Nat) /\ Len(gains(s)) = Len(s)
    <2> SUFFICES ASSUME NEW s \in Seq(E) PROVE gains(s) \in Seq(Nat) /\ Len(gains(s)) = Len(s)
      OBVIOUS
    <2>1. \A k \in 1..Len(s) : Gain(s[k], d) \in Nat
      <3> TAKE k \in 1..Len(s)
      <3>1. s[k] \in E
        <4> HIDE DEF E
        <4> QED OBVIOUS
      <3>2. Gain(s[k], d) \in 0..100
        BY <3>1, GainIsPoints
      <3>3. \A g \in 0..100 : g \in Nat
        OBVIOUS
      <3> QED BY <3>2, <3>3, Zenon
    <2>2. Len(s) \in Nat
      OBVIOUS
    <2> QED BY <2>1, <2>2
  <1>2. a \in Seq(E) /\ b \in Seq(E)
    OBVIOUS
  <1> HIDE DEF E
  <1>3. a \o b \in Seq(E)
    BY <1>2
  <1>4. gains(a \o b) = gains(a) \o gains(b)
    <2>1. Len(a) \in Nat /\ Len(b) \in Nat /\ Len(a \o b) = Len(a) + Len(b)
      BY <1>2
    <2>2. /\ \A k \in 1..Len(a) : (a \o b)[k] = a[k]
          /\ \A k \in (Len(a) + 1)..(Len(a) + Len(b)) : (a \o b)[k] = b[k - Len(a)]
      BY <1>2
    <2>3. \A k \in (Len(a) + 1)..(Len(a) + Len(b)) : k - Len(a) \in 1..Len(b)
      BY <2>1
    <2>4. /\ \A k \in 1..Len(a) : gains(a \o b)[k] = gains(a)[k]
          /\ \A k \in (Len(a) + 1)..(Len(a) + Len(b)) : gains(a \o b)[k] = gains(b)[k - Len(a)]
      BY <2>1, <2>2, <2>3
    <2>5. /\ gains(a) \in Seq(Nat) /\ gains(b) \in Seq(Nat) /\ gains(a \o b) \in Seq(Nat)
          /\ Len(gains(a)) = Len(a) /\ Len(gains(b)) = Len(b)
          /\ Len(gains(a \o b)) = Len(a) + Len(b)
      BY <1>1, <1>2, <1>3, <2>1
    <2> HIDE DEF gains
    <2> DEFINE x == gains(a)
               y == gains(b)
               z == gains(a \o b)
    <2>6. /\ x \in Seq(Nat) /\ y \in Seq(Nat) /\ z \in Seq(Nat) /\ Len(z) = Len(x) + Len(y)
          /\ \A k \in 1..Len(x) : z[k] = x[k]
          /\ \A k \in (Len(x) + 1)..(Len(x) + Len(y)) : z[k] = y[k - Len(x)]
      BY <2>4, <2>5
    <2> HIDE DEF x, y, z
    <2>7. z = x \o y
      <3> DEFINE w == x \o y
      <3>1. w \in Seq(Nat) /\ Len(w) = Len(x) + Len(y)
            /\ \A k \in 1..(Len(x) + Len(y)) :
                 w[k] = IF k <= Len(x) THEN x[k] ELSE y[k - Len(x)]
        BY <2>6
      <3> HIDE DEF w
      <3>2. Len(x) \in Nat /\ Len(y) \in Nat
        BY <2>6
      <3>3. ASSUME NEW k \in 1..Len(z) PROVE z[k] = w[k]
        <4>1. k \in 1..(Len(x) + Len(y)) /\ w[k] = IF k <= Len(x) THEN x[k] ELSE y[k - Len(x)]
          BY <2>6, <3>1
        <4>2. CASE k <= Len(x)
          <5>1. k \in 1..Len(x)
            BY <3>2, <4>1, <4>2
          <5> QED BY <2>6, <4>1, <4>2, <5>1, Zenon
        <4>3. CASE k > Len(x)
          <5>1. k \in (Len(x) + 1)..(Len(x) + Len(y)) /\ ~(k <= Len(x))
            BY <3>2, <4>1, <4>3
          <5> QED BY <2>6, <4>1, <5>1, Zenon
        <4> QED BY <3>2, <4>2, <4>3
      <3>4. z = w
        BY <2>6, <3>1, <3>3, SeqEqual
      <3> QED BY <3>4 DEF w
    <2> QED BY <2>7 DEF x, y, z
  <1>5. gains(a) \in Seq(Nat) /\ gains(b) \in Seq(Nat)
    BY <1>1, <1>2
  <1>6. \A s : RawPoints(s, d) = Total(gains(s))
    BY DEF RawPoints
  <1> HIDE DEF gains
  <1> QED BY <1>4, <1>5, <1>6, TotalOfBoth

\* The points of all results are the total of the points of each.
LEMMA PointsOfResults ==
  ASSUME NEW results, Len(results) \in Nat, NEW d,
         \A i \in 1..Len(results) : results[i].effects \in Seq(OrganizationEffects)
  PROVE  LET points == [i \in 1..Len(results) |-> RawPoints(results[i].effects, d)]
         IN  points \in Seq(Nat) /\ RawPoints(Effects(results), d) = Total(points)
  <1> DEFINE E == OrganizationEffects
             n == Len(results)
             points == [i \in 1..n |-> RawPoints(results[i].effects, d)]
  <1>1. n \in Nat /\ \A i \in 1..n : results[i].effects \in Seq(E)
    OBVIOUS
  <1>2. \A x, y \in Seq(E) : /\ RawPoints(x \o y, d) = RawPoints(x, d) + RawPoints(y, d)
                             /\ RawPoints(x, d) \in Nat
    BY PointsAdd
  <1>3. PICK a \in [0..n -> Seq(E)] :
          /\ a[0] = <<>> /\ Effects(results) = a[n]
          /\ \A i \in 1..n : a[i] = a[i - 1] \o results[i].effects
    <2> HIDE DEF E
    <2> QED BY <1>1, EffectsAdd
  <1> HIDE DEF E
  <1>4. points \in Seq(Nat) /\ Len(points) = n /\ \A i \in 1..n : points[i] = RawPoints(results[i].effects, d)
    <2> HIDE DEF n
    <2>1. \A i \in 1..n : RawPoints(results[i].effects, d) \in Nat
      BY <1>1, <1>2
    <2> QED BY <1>1, <2>1
  <1> HIDE DEF points
  <1>5. PICK t \in [0..n -> Nat] :
          t[0] = 0 /\ (\A i \in 1..n : t[i] = t[i - 1] + points[i]) /\ Total(points) = t[n]
    BY <1>4, TotalAdds
  <1> HIDE DEF n
  <1> DEFINE D == {i \in 0..n : RawPoints(a[i], d) = t[i]}
  <1>6. 0 \in D
    <2>1. RawPoints(<<>>, d) = 0
      <3>1. PICK u \in [0..0 -> Nat] : u[0] = 0 /\ Total(<<>>) = u[0]
        <4>1. <<>> \in Seq(Nat) /\ Len(<<>>) = 0
          OBVIOUS
        <4> QED BY <4>1, TotalAdds
      <3>2. [k \in 1..Len(<<>>) |-> Gain(<<>>[k], d)] = <<>>
        OBVIOUS
      <3> QED BY <3>1, <3>2 DEF RawPoints
    <2> QED BY <1>1, <1>3, <1>5, <2>1
  <1>7. ASSUME NEW i \in 0..(n - 1), i \in D PROVE i + 1 \in D
    <2>1. i + 1 \in 1..n /\ (i + 1) - 1 = i /\ i \in 0..n /\ i + 1 \in 0..n
      BY <1>1
    <2>2. a[i + 1] = a[i] \o results[i + 1].effects /\ a[i] \in Seq(E)
      BY <1>3, <2>1
    <2>3. RawPoints(a[i + 1], d) = RawPoints(a[i], d) + points[i + 1]
      <3>1. results[i + 1].effects \in Seq(E)
        BY <1>1, <2>1
      <3>2. RawPoints(a[i] \o results[i + 1].effects, d)
              = RawPoints(a[i], d) + RawPoints(results[i + 1].effects, d)
        BY <1>2, <2>2, <3>1
      <3> QED BY <1>4, <2>1, <2>2, <3>2
    <2>4. t[i + 1] = t[i] + points[i + 1]
      BY <1>5, <2>1
    <2> QED BY <1>7, <2>1, <2>3, <2>4
  <1>8. n \in D
    <2> HIDE DEF D
    <2>1. 0..n \subseteq D
      BY <1>1, <1>6, <1>7, Inductive
    <2> QED BY <1>1, <2>1
  <1>9. RawPoints(Effects(results), d) = Total(points)
    BY <1>3, <1>5, <1>8
  <1> QED BY <1>4, <1>9 DEF points, n

\* the place of a rule in the order: one more than the rules before it
Place(rules, i) == Cardinality({j \in DOMAIN rules : Before(rules[j], rules[i])}) + 1

\* no two rules of a layer have one id
Distinct(rules) ==
  \A i, j \in DOMAIN rules :
    rules[i].layer = rules[j].layer /\ rules[i].id = rules[j].id => i = j

\* Ordering gives every rule a place of its own and every place a rule.
LEMMA OrderedPlaces ==
  ASSUME NEW R, \A r \in R : r.layer \in Nat /\ r.id \in Nat,
         NEW rules \in Seq(R), Distinct(rules)
  PROVE  /\ Ordered(rules) \in Seq(R) /\ Len(Ordered(rules)) = Len(rules)
         /\ \A i, j \in DOMAIN rules : Place(rules, i) = Place(rules, j) => i = j
         /\ \A k \in DOMAIN rules : \E i \in DOMAIN rules :
              Place(rules, i) = k /\ Ordered(rules)[k] = rules[i]
         /\ \A i \in DOMAIN rules :
              Place(rules, i) \in DOMAIN rules /\ Ordered(rules)[Place(rules, i)] = rules[i]
  <1> DEFINE n == Len(rules)
             N == 1..n
             Earlier(i) == {j \in N : Before(rules[j], rules[i])}
             place == [i \in N |-> Cardinality(Earlier(i)) + 1]
             places == {<<Cardinality(Earlier(i)) + 1, i>> : i \in N}
             rule(k) == rules[(CHOOSE p \in places : p[1] = k)[2]]
  <1>1. /\ n \in Nat /\ DOMAIN rules = N
        /\ \A i \in N : rules[i] \in R /\ rules[i].layer \in Nat /\ rules[i].id \in Nat
    OBVIOUS
  <1>2. IsFiniteSet(N) /\ Cardinality(N) = n
    <2>1. 1 \in Int /\ n \in Int /\ (IF 1 > n THEN 0 ELSE n - 1 + 1) = n
      BY <1>1
    <2> QED BY <2>1, FS_Interval
  <1>3. \A i \in N : Place(rules, i) = place[i]
    BY <1>1 DEF Place
  <1> HIDE DEF N
  <1>4. \A i, j, k \in N :
          /\ ~Before(rules[i], rules[i])
          /\ Before(rules[i], rules[j]) /\ Before(rules[j], rules[k]) => Before(rules[i], rules[k])
          /\ i # j => Before(rules[i], rules[j]) \/ Before(rules[j], rules[i])
    BY <1>1 DEF Distinct, Before
  <1>5. \A i \in N : Earlier(i) \in SUBSET N /\ IsFiniteSet(Earlier(i))
                     /\ Cardinality(Earlier(i)) \in Nat /\ Cardinality(Earlier(i)) < n
    <2> TAKE i \in N
    <2>1. Earlier(i) \in SUBSET N /\ i \notin Earlier(i)
      BY <1>4
    <2> HIDE DEF Earlier
    <2>2. IsFiniteSet(Earlier(i)) /\ Cardinality(Earlier(i)) <= n /\ Cardinality(Earlier(i)) # n
      BY <1>2, <2>1, FS_Subset
    <2>3. Cardinality(Earlier(i)) \in Nat
      BY <2>2, FS_CardinalityType
    <2> QED BY <1>1, <2>1, <2>2, <2>3
  <1>6. ASSUME NEW i \in N, NEW j \in N, Before(rules[i], rules[j])
        PROVE  Cardinality(Earlier(i)) < Cardinality(Earlier(j))
    <2>1. Earlier(i) \in SUBSET Earlier(j) /\ i \in Earlier(j) /\ i \notin Earlier(i)
      BY <1>4, <1>6
    <2>2. IsFiniteSet(Earlier(j)) /\ Cardinality(Earlier(i)) \in Nat /\ Cardinality(Earlier(j)) \in Nat
      BY <1>5
    <2> HIDE DEF Earlier
    <2>3. /\ Cardinality(Earlier(i)) <= Cardinality(Earlier(j))
          /\ Cardinality(Earlier(j)) = Cardinality(Earlier(i)) => Earlier(j) = Earlier(i)
      BY <2>1, <2>2, FS_Subset
    <2> QED BY <2>1, <2>2, <2>3
  <1>7. place \in [N -> N]
    <2> HIDE DEF Earlier
    <2>1. \A i \in N : Cardinality(Earlier(i)) + 1 \in N
      BY <1>1, <1>5 DEF N
    <2> QED BY <2>1
  <1>8. \A i, j \in N : place[i] = place[j] => i = j
    <2> SUFFICES ASSUME NEW i \in N, NEW j \in N, place[i] = place[j], i # j PROVE FALSE
      OBVIOUS
    <2>1. Before(rules[i], rules[j]) \/ Before(rules[j], rules[i])
      BY <1>4
    <2>2. place[i] = Cardinality(Earlier(i)) + 1 /\ place[j] = Cardinality(Earlier(j)) + 1
      OBVIOUS
    <2>3. Cardinality(Earlier(i)) \in Nat /\ Cardinality(Earlier(j)) \in Nat
      BY <1>5
    <2>4. Cardinality(Earlier(i)) = Cardinality(Earlier(j))
      <3>1. Cardinality(Earlier(i)) + 1 = Cardinality(Earlier(j)) + 1
        <4> HIDE DEF Earlier, place
        <4> QED BY <2>2, Zenon
      <3>2. \A x, y \in Nat : x + 1 = y + 1 => x = y
        OBVIOUS
      <3> HIDE DEF Earlier, place
      <3> QED BY <2>3, <3>1, <3>2, Zenon
    <2>5. Cardinality(Earlier(i)) < Cardinality(Earlier(j))
          \/ Cardinality(Earlier(j)) < Cardinality(Earlier(i))
      BY <1>6, <2>1
    <2> HIDE DEF Earlier, place
    <2> QED BY <2>3, <2>4, <2>5
  <1>9. place \in Surjection(N, N)
    <2> HIDE DEF place
    <2>1. place \in Injection(N, N)
      BY <1>7, <1>8 DEF Injection, IsInjective
    <2> QED BY <1>2, <2>1, FS_Injection
  <1>10. \A k \in N : \E i \in N : place[i] = k
    <2> HIDE DEF place
    <2> QED BY <1>9 DEF Surjection
  <1>11. \A i \in N : rule(place[i]) = rules[i]
    <2> TAKE i \in N
    <2>1. <<place[i], i>> \in places
      OBVIOUS
    <2>2. \A p \in places : p[1] = place[i] => p[2] = i
      <3>1. ASSUME NEW p \in places, p[1] = place[i] PROVE p[2] = i
        <4>1. PICK j \in N : p = <<Cardinality(Earlier(j)) + 1, j>>
          BY <3>1
        <4>2. p[1] = place[j] /\ p[2] = j
          BY <4>1
        <4> HIDE DEF place
        <4> QED BY <1>8, <3>1, <4>2
      <3> QED BY <3>1
    <2> HIDE DEF places, place
    <2>3. (CHOOSE p \in places : p[1] = place[i])[2] = i
      BY <2>1, <2>2
    <2> QED BY <2>3
  <1> DEFINE o == [k \in N |-> rule(k)]
  <1>12. \A k \in N : rule(k) \in R
    <2> HIDE DEF place, rule
    <2> QED BY <1>1, <1>10, <1>11
  <1>13. o \in Seq(R) /\ Len(o) = n /\ \A k \in N : o[k] = rule(k)
    <2> HIDE DEF rule
    <2> QED BY <1>1, <1>12 DEF N
  <1>14. Ordered(rules) = <<>> \o o
    BY <1>1 DEF Ordered, N
  <1> HIDE DEF o, rule, place
  <1>15. Ordered(rules) = o
    BY <1>13, <1>14, ConcatEmptySeq
  <1>16. Ordered(rules) \in Seq(R) /\ Len(Ordered(rules)) = Len(rules)
    BY <1>13, <1>15
  <1>17. \A k \in N : Ordered(rules)[k] = rule(k)
    BY <1>13, <1>15
  <1> HIDE DEF n
  <1>18. \A i, j \in N : Place(rules, i) = Place(rules, j) => i = j
    BY <1>3, <1>8
  <1>19. \A k \in N : \E i \in N : Place(rules, i) = k /\ Ordered(rules)[k] = rules[i]
    BY <1>3, <1>10, <1>11, <1>17
  <1>20. \A i \in N : Place(rules, i) \in N /\ Ordered(rules)[Place(rules, i)] = rules[i]
    BY <1>3, <1>7, <1>11, <1>17
  <1> QED BY <1>1, <1>16, <1>18, <1>19, <1>20

\* The elements of two sequences, one after the other.
LEMMA ConcatAt ==
  ASSUME NEW S, NEW s \in Seq(S), NEW r \in Seq(S), NEW b, b = s \o r
  PROVE  /\ b \in Seq(S) /\ Len(b) = Len(s) + Len(r)
         /\ \A k \in 1..Len(s) : b[k] = s[k]
         /\ \A k \in 1..Len(r) : b[Len(s) + k] = r[k]
  OBVIOUS

\* Tuples are sequences.
LEMMA TuplesAreSequences ==
  ASSUME NEW S
  PROVE  /\ \A x \in S : <<x>> \in Seq(S) /\ Len(<<x>>) = 1
         /\ \A x, y \in S : <<x, y>> \in Seq(S) /\ Len(<<x, y>>) = 2
         /\ \A x, y, z \in S : <<x, y, z>> \in Seq(S) /\ Len(<<x, y, z>>) = 3
  OBVIOUS

\* The eleven rules of the pack, in the order they are written in.
LEMMA PackRules ==
  LET P == PayrollRules
      B == BankRules
      C == ClientDataRules
      A == AutonomyRules
      R == ReviewRules
      p == AccountingRiskPack
  IN  /\ p \in Seq({P[1], P[2], B[1], B[2], C[1], C[2], C[3], A[1], R[1], R[2], R[3]})
      /\ Len(p) = 11
      /\ p[1] = P[1] /\ p[2] = P[2] /\ p[3] = B[1] /\ p[4] = B[2] /\ p[5] = C[1] /\ p[6] = C[2]
      /\ p[7] = C[3] /\ p[8] = A[1] /\ p[9] = R[1] /\ p[10] = R[2] /\ p[11] = R[3]
  <1> DEFINE P == PayrollRules
             B == BankRules
             C == ClientDataRules
             A == AutonomyRules
             R == ReviewRules
             S == {P[1], P[2], B[1], B[2], C[1], C[2], C[3], A[1], R[1], R[2], R[3]}
  <1>1. P \in Seq(S) /\ Len(P) = 2
    <2>1. P = <<P[1], P[2]>>
      BY DEF PayrollRules
    <2> HIDE DEF P, B, C, A, R
    <2>2. P[1] \in S /\ P[2] \in S
      OBVIOUS
    <2> HIDE DEF S
    <2> QED BY <2>1, <2>2, TuplesAreSequences, Zenon
  <1>2. B \in Seq(S) /\ Len(B) = 2
    <2>1. B = <<B[1], B[2]>>
      BY DEF BankRules
    <2> HIDE DEF P, B, C, A, R
    <2>2. B[1] \in S /\ B[2] \in S
      OBVIOUS
    <2> HIDE DEF S
    <2> QED BY <2>1, <2>2, TuplesAreSequences, Zenon
  <1>3. C \in Seq(S) /\ Len(C) = 3
    <2>1. C = <<C[1], C[2], C[3]>>
      BY DEF ClientDataRules
    <2> HIDE DEF P, B, C, A, R
    <2>2. C[1] \in S /\ C[2] \in S /\ C[3] \in S
      OBVIOUS
    <2> HIDE DEF S
    <2> QED BY <2>1, <2>2, TuplesAreSequences, Zenon
  <1>4. A \in Seq(S) /\ Len(A) = 1
    <2>1. A = <<A[1]>>
      BY DEF AutonomyRules
    <2> HIDE DEF P, B, C, A, R
    <2>2. A[1] \in S
      OBVIOUS
    <2> HIDE DEF S
    <2> QED BY <2>1, <2>2, TuplesAreSequences, Zenon
  <1>5. R \in Seq(S) /\ Len(R) = 3
    <2>1. R = <<R[1], R[2], R[3]>>
      BY DEF ReviewRules
    <2> HIDE DEF P, B, C, A, R
    <2>2. R[1] \in S /\ R[2] \in S /\ R[3] \in S
      OBVIOUS
    <2> HIDE DEF S
    <2> QED BY <2>1, <2>2, TuplesAreSequences, Zenon
  <1>6. AccountingRiskPack = P \o B \o C \o A \o R
    BY DEF AccountingRiskPack
  <1> HIDE DEF P, B, C, A, R, S
  <1>7. P \in Seq(S) /\ B \in Seq(S) /\ C \in Seq(S) /\ A \in Seq(S) /\ R \in Seq(S)
    BY <1>1, <1>2, <1>3, <1>4, <1>5
  <1> DEFINE b == P \o B
  <1>8. b = P \o B
    OBVIOUS
  <1> HIDE DEF b
  <1>9. b \in Seq(S) /\ Len(b) = 4 /\ b[1] = P[1] /\ b[2] = P[2] /\ b[3] = B[1] /\ b[4] = B[2]
    <2>1. /\ b \in Seq(S) /\ Len(b) = Len(P) + Len(B)
          /\ \A k \in 1..Len(P) : b[k] = P[k]
          /\ \A k \in 1..Len(B) : b[Len(P) + k] = B[k]
      BY <1>7, <1>8, ConcatAt
    <2>2. b[2 + 1] = B[1] /\ b[2 + 2] = B[2]
      BY <1>1, <1>2, <2>1
    <2> QED BY <1>1, <1>2, <2>1, <2>2
  <1>10. b \in Seq(S)
    BY <1>9
  <1> DEFINE c == b \o C
  <1>11. c = b \o C
    OBVIOUS
  <1> HIDE DEF c
  <1>12. c \in Seq(S) /\ Len(c) = 7 /\ (\A k \in 1..4 : c[k] = b[k])
        /\ c[5] = C[1] /\ c[6] = C[2] /\ c[7] = C[3]
    <2>1. /\ c \in Seq(S) /\ Len(c) = Len(b) + Len(C)
          /\ \A k \in 1..Len(b) : c[k] = b[k]
          /\ \A k \in 1..Len(C) : c[Len(b) + k] = C[k]
      BY <1>7, <1>11, <1>10, ConcatAt
    <2>2. c[4 + 1] = C[1] /\ c[4 + 2] = C[2] /\ c[4 + 3] = C[3]
      BY <1>3, <1>9, <2>1
    <2> QED BY <1>3, <1>9, <2>1, <2>2
  <1>13. c \in Seq(S)
    BY <1>12
  <1> DEFINE a == c \o A
  <1>14. a = c \o A
    OBVIOUS
  <1> HIDE DEF a
  <1>15. a \in Seq(S) /\ Len(a) = 8 /\ (\A k \in 1..7 : a[k] = c[k]) /\ a[8] = A[1]
    <2>1. /\ a \in Seq(S) /\ Len(a) = Len(c) + Len(A)
          /\ \A k \in 1..Len(c) : a[k] = c[k]
          /\ \A k \in 1..Len(A) : a[Len(c) + k] = A[k]
      BY <1>7, <1>14, <1>13, ConcatAt
    <2>2. a[7 + 1] = A[1]
      BY <1>4, <1>12, <2>1
    <2> QED BY <1>4, <1>12, <2>1, <2>2
  <1>16. a \in Seq(S)
    BY <1>15
  <1> DEFINE r == a \o R
  <1>17. r = a \o R
    OBVIOUS
  <1> HIDE DEF r
  <1>18. r \in Seq(S) /\ Len(r) = 11 /\ (\A k \in 1..8 : r[k] = a[k])
         /\ r[9] = R[1] /\ r[10] = R[2] /\ r[11] = R[3]
    <2>1. /\ r \in Seq(S) /\ Len(r) = Len(a) + Len(R)
          /\ \A k \in 1..Len(a) : r[k] = a[k]
          /\ \A k \in 1..Len(R) : r[Len(a) + k] = R[k]
      BY <1>7, <1>17, <1>16, ConcatAt
    <2>2. r[8 + 1] = R[1] /\ r[8 + 2] = R[2] /\ r[8 + 3] = R[3]
      BY <1>5, <1>15, <2>1
    <2> QED BY <1>5, <1>15, <2>1, <2>2
  <1>19. AccountingRiskPack = r
    BY <1>6 DEF r, a, c, b
  <1> QED BY <1>9, <1>12, <1>15, <1>18, <1>19 DEF P, B, C, A, R, S

\* what may be known of a tool
Tools ==
  LET Known == UNION {Offered[kind] : kind \in DOMAIN Offered}
  IN  [categories : SUBSET Known, capabilities : SUBSET Known, systems : SUBSET Known,
       permissions : SUBSET Known, autonomy : Nat, approval : BOOLEAN,
       product : {BareTool.product}, verified : BOOLEAN]

\* A fact adds to a set, raises the autonomy or takes a safeguard.
LEMMA FactCases ==
  ASSUME NEW fact \in OfferedFacts
  PROVE  \/ /\ fact[1] \in {"category", "capability", "system", "permission"}
            /\ fact[2] \in UNION {Offered[kind] : kind \in DOMAIN Offered}
         \/ fact[1] = "autonomy" /\ fact[2] \in Nat
         \/ fact[1] \in {"unapproved", "unverified"}
  <1>1. CASE fact \in UNION {{kind} \X Offered[kind] : kind \in DOMAIN Offered}
    <2>1. PICK kind \in DOMAIN Offered : fact \in {kind} \X Offered[kind]
      BY <1>1
    <2>2. DOMAIN Offered = {"category", "capability", "system", "permission"}
      BY DEF Offered
    <2> QED BY <2>1, <2>2
  <1>2. CASE fact \in {"autonomy"} \X (0..4)
    BY <1>2
  <1>3. CASE fact \in {<<"unapproved">>, <<"unverified">>}
    BY <1>3
  <1>4. \A f \in OfferedFacts :
          f \in (UNION {{kind} \X Offered[kind] : kind \in DOMAIN Offered})
               \cup ({"autonomy"} \X (0..4)) \cup {<<"unapproved">>, <<"unverified">>}
    BY DEF OfferedFacts
  <1> QED BY <1>1, <1>2, <1>3, <1>4

\* The larger of two numbers.
LEMMA LargerOfTwo ==
  ASSUME NEW x \in Nat, NEW y \in Nat
  PROVE  Max({x, y}) \in {x, y} /\ Max({x, y}) >= x /\ Max({x, y}) >= y
  <1>1. \E z \in {x, y} : \A w \in {x, y} : z >= w
    <2>1. CASE x >= y
      BY <2>1
    <2>2. CASE y >= x
      BY <2>2
    <2> QED BY <2>1, <2>2
  <1> QED BY <1>1 DEF Max

\* A fact leaves a tool all it had, and takes safeguards only.
LEMMA FactsAdd ==
  ASSUME NEW tool \in Tools, NEW fact \in OfferedFacts
  PROVE  LET more == With(tool, fact)
         IN  /\ more \in Tools
             /\ tool.categories \subseteq more.categories
             /\ tool.capabilities \subseteq more.capabilities
             /\ tool.systems \subseteq more.systems
             /\ tool.permissions \subseteq more.permissions
             /\ tool.autonomy <= more.autonomy
             /\ more.approval => tool.approval
             /\ more.product = tool.product
             /\ more.verified => tool.verified
  <1> DEFINE Known == UNION {Offered[kind] : kind \in DOMAIN Offered}
  <1> HIDE DEF Known
  <1>1. Tools = [categories : SUBSET Known, capabilities : SUBSET Known, systems : SUBSET Known,
                 permissions : SUBSET Known, autonomy : Nat, approval : BOOLEAN,
                 product : {BareTool.product}, verified : BOOLEAN]
    BY DEF Tools, Known
  <1>2. CASE fact[1] = "category" /\ fact[2] \in Known
    BY <1>1, <1>2 DEF With
  <1>3. CASE fact[1] = "capability" /\ fact[2] \in Known
    BY <1>1, <1>3 DEF With
  <1>4. CASE fact[1] = "system" /\ fact[2] \in Known
    BY <1>1, <1>4 DEF With
  <1>5. CASE fact[1] = "permission" /\ fact[2] \in Known
    BY <1>1, <1>5 DEF With
  <1>6. CASE fact[1] = "autonomy" /\ fact[2] \in Nat
    <2> DEFINE level == Max({tool.autonomy, fact[2]})
    <2>1. level \in Nat /\ tool.autonomy <= level
      BY <1>1, <1>6, LargerOfTwo
    <2>2. With(tool, fact) = [tool EXCEPT !.autonomy = level]
      BY <1>6 DEF With
    <2> HIDE DEF level
    <2> QED BY <1>1, <2>1, <2>2
  <1>7. CASE fact[1] = "unapproved"
    <2>1. With(tool, fact) = [tool EXCEPT !.approval = FALSE]
      BY <1>7 DEF With
    <2> DEFINE more == [tool EXCEPT !.approval = FALSE]
    <2>2. more \in Tools
      BY <1>1
    <2>3. /\ more.categories = tool.categories /\ more.capabilities = tool.capabilities
          /\ more.systems = tool.systems /\ more.permissions = tool.permissions
          /\ more.autonomy = tool.autonomy /\ more.product = tool.product
      BY <1>1
    <2>4. ~more.approval /\ more.verified = tool.verified
      BY <1>1
    <2>5. tool.autonomy <= tool.autonomy
      BY <1>1
    <2> HIDE DEF more
    <2> QED BY <1>1, <2>1, <2>2, <2>3, <2>4, <2>5
  <1>8. CASE fact[1] = "unverified"
    <2>1. With(tool, fact) = [tool EXCEPT !.verified = FALSE]
      BY <1>8 DEF With
    <2> DEFINE more == [tool EXCEPT !.verified = FALSE]
    <2>2. more \in Tools
      BY <1>1
    <2>3. /\ more.categories = tool.categories /\ more.capabilities = tool.capabilities
          /\ more.systems = tool.systems /\ more.permissions = tool.permissions
          /\ more.autonomy = tool.autonomy /\ more.product = tool.product
      BY <1>1
    <2>4. ~more.verified /\ more.approval = tool.approval
      BY <1>1
    <2>5. tool.autonomy <= tool.autonomy
      BY <1>1
    <2> HIDE DEF more
    <2> QED BY <1>1, <2>1, <2>2, <2>3, <2>4, <2>5
  <1> QED BY <1>2, <1>3, <1>4, <1>5, <1>6, <1>7, <1>8, FactCases DEF Known

\* a condition that more facts never make false
Steady(condition) ==
  \A tool \in Tools, fact \in OfferedFacts :
    Holds(condition, InventoryPolicyContext(tool)) =>
      Holds(condition, InventoryPolicyContext(With(tool, fact)))

\* the fields of sets and what a condition may ask of the others
SetFields == {"data_categories", "capabilities", "connected_systems", "permissions"}

\* the conditions of the pack that ask for no member of a set
OtherConditions ==
  {NoApproval, Condition("autonomy_level", "greater_than_or_equal", 3),
   Condition("vendor_review_status", "not_equals", "complete"),
   Condition("retention_status", "equals", "unknown"),
   Condition("training_behavior", "equals", "unknown")}

\* No condition of the pack, of the form or of a detector asks for less access.
LEMMA ConditionsAreSteady ==
  ASSUME NEW condition,
         \/ \E field \in SetFields : \E value : condition = Condition(field, "contains", value)
         \/ \E value : condition = Condition("catalog_product_id", "equals", value)
         \/ condition \in OtherConditions
  PROVE  Steady(condition)
  <1> SUFFICES ASSUME NEW tool \in Tools, NEW fact \in OfferedFacts,
                      Holds(condition, InventoryPolicyContext(tool))
               PROVE  Holds(condition, InventoryPolicyContext(With(tool, fact)))
    BY DEF Steady
  <1> DEFINE more == With(tool, fact)
  <1>1. /\ more \in Tools
        /\ tool.categories \subseteq more.categories
        /\ tool.capabilities \subseteq more.capabilities
        /\ tool.systems \subseteq more.systems
        /\ tool.permissions \subseteq more.permissions
        /\ tool.autonomy <= more.autonomy
        /\ more.approval => tool.approval
        /\ more.product = tool.product
        /\ more.verified => tool.verified
    BY FactsAdd
  <1> HIDE DEF more
  <1> SUFFICES Holds(condition, InventoryPolicyContext(more))
    BY DEF more
  <1> USE DEF Holds, InventoryPolicyContext, Condition
  <1>2. ASSUME NEW field \in SetFields, NEW value, condition = Condition(field, "contains", value)
        PROVE  Holds(condition, InventoryPolicyContext(more))
    <2>1. CASE field = "data_categories"
      BY <1>1, <1>2, <2>1
    <2>2. CASE field = "capabilities"
      BY <1>1, <1>2, <2>2
    <2>3. CASE field = "connected_systems"
      BY <1>1, <1>2, <2>3
    <2>4. CASE field = "permissions"
      BY <1>1, <1>2, <2>4
    <2> QED BY <2>1, <2>2, <2>3, <2>4 DEF SetFields
  <1>3. ASSUME NEW value, condition = Condition("catalog_product_id", "equals", value)
        PROVE  Holds(condition, InventoryPolicyContext(more))
    BY <1>1, <1>3
  <1>4. CASE condition = NoApproval
    BY <1>1, <1>4 DEF NoApproval
  <1>5. CASE condition = Condition("autonomy_level", "greater_than_or_equal", 3)
    BY <1>1, <1>5 DEF Tools
  <1>6. CASE condition = Condition("vendor_review_status", "not_equals", "complete")
    <2> DEFINE complete(t) == t.product # "none" /\ t.verified
    <2>1. /\ Holds(condition, InventoryPolicyContext(tool)) <=> ~complete(tool)
          /\ Holds(condition, InventoryPolicyContext(more)) <=> ~complete(more)
      BY <1>6
    <2>2. complete(more) => complete(tool)
      BY <1>1
    <2> HIDE DEF complete, Holds, InventoryPolicyContext
    <2> QED BY <2>1, <2>2
  <1>7. CASE condition = Condition("retention_status", "equals", "unknown")
    BY <1>7
  <1>8. CASE condition = Condition("training_behavior", "equals", "unknown")
    BY <1>8
  <1> QED BY <1>2, <1>3, <1>4, <1>5, <1>6, <1>7, <1>8 DEF OtherConditions

\* The eight dimensions, by name.
LEMMA DimensionNames ==
  Dimensions = {"data_sensitivity", "system_privilege", "autonomy", "external_connectivity",
                "human_oversight", "financial_impact", "regulatory_relevance", "vendor_risk"}
  <1>1. DOMAIN Weights = 1..8
    BY DEF Weights
  <1>2. \A n : n \in 1..8 <=> n \in {1, 2, 3, 4, 5, 6, 7, 8}
    OBVIOUS
  <1>3. /\ Weights[1] = <<"data_sensitivity", 20>> /\ Weights[2] = <<"system_privilege", 20>>
        /\ Weights[3] = <<"autonomy", 15>> /\ Weights[4] = <<"external_connectivity", 15>>
        /\ Weights[5] = <<"human_oversight", 10>> /\ Weights[6] = <<"financial_impact", 10>>
        /\ Weights[7] = <<"regulatory_relevance", 5>> /\ Weights[8] = <<"vendor_risk", 5>>
    BY DEF Weights
  <1>4. Dimensions = {Weights[n][1] : n \in {1, 2, 3, 4, 5, 6, 7, 8}}
    BY <1>1, <1>2 DEF Dimensions
  <1> QED BY <1>3, <1>4

\* Points and floors are effects.
LEMMA EffectTypes ==
  /\ \A d \in Dimensions, v \in 0..100 : Points(d, v) \in OrganizationEffects
  /\ \A s \in DOMAIN BandOf : Floor(s) \in OrganizationEffects
  BY DEF Points, Floor, OrganizationEffects

\* What every rule of the pack asks and does.
LEMMA PackFields ==
  /\ PayrollRules[1].id = 6 /\ PayrollRules[1].layer = Industry
  /\ PayrollRules[1].effects = <<Points("data_sensitivity", 25), Floor("HIGH")>>
  /\ PayrollRules[1].conditions = <<Data("payroll"), Can("external_transfer")>>
  /\ PayrollRules[2].id = 7 /\ PayrollRules[2].layer = Industry
  /\ PayrollRules[2].effects = <<Floor("CRITICAL")>>
  /\ PayrollRules[2].conditions = <<Data("payroll"), Can("external_transfer"), NoApproval>>
  /\ BankRules[1].id = 3 /\ BankRules[1].layer = Industry
  /\ BankRules[1].effects = <<Points("system_privilege", 30), Floor("HIGH")>>
  /\ BankRules[1].conditions = <<Banking, Condition("permissions", "contains", "write")>>
  /\ BankRules[2].id = 2 /\ BankRules[2].layer = Industry
  /\ BankRules[2].effects =
       <<Points("financial_impact", 40), Points("human_oversight", 30), Floor("CRITICAL")>>
  /\ BankRules[2].conditions = <<Banking, Can("financial_transaction"), NoApproval>>
  /\ ClientDataRules[1].id = 9 /\ ClientDataRules[1].layer = Industry
  /\ ClientDataRules[1].effects = <<Points("data_sensitivity", 25), Floor("HIGH")>>
  /\ ClientDataRules[1].conditions = <<Data("tax_records"), Can("external_transfer")>>
  /\ ClientDataRules[2].id = 5 /\ ClientDataRules[2].layer = Industry
  /\ ClientDataRules[2].effects = <<Points("data_sensitivity", 20)>>
  /\ ClientDataRules[2].conditions = <<Data("financial_records"), Can("data_export")>>
  /\ ClientDataRules[3].id = 4 /\ ClientDataRules[3].layer = Industry
  /\ ClientDataRules[3].effects = <<Points("external_connectivity", 20)>>
  /\ ClientDataRules[3].conditions = <<Data("financial_records"), Can("communication")>>
  /\ AutonomyRules[1].id = 1 /\ AutonomyRules[1].layer = Industry
  /\ AutonomyRules[1].effects = <<Points("autonomy", 30), Floor("HIGH")>>
  /\ AutonomyRules[1].conditions =
       <<Can("record_modification"), Condition("autonomy_level", "greater_than_or_equal", 3)>>
  /\ ReviewRules[1].id = 11 /\ ReviewRules[1].layer = Industry
  /\ ReviewRules[1].effects = <<Points("vendor_risk", 15)>>
  /\ ReviewRules[1].conditions = <<Condition("vendor_review_status", "not_equals", "complete")>>
  /\ ReviewRules[2].id = 8 /\ ReviewRules[2].layer = Industry
  /\ ReviewRules[2].effects = <<Points("regulatory_relevance", 10)>>
  /\ ReviewRules[2].conditions = <<Condition("retention_status", "equals", "unknown")>>
  /\ ReviewRules[3].id = 10 /\ ReviewRules[3].layer = Industry
  /\ ReviewRules[3].effects = <<Points("vendor_risk", 10)>>
  /\ ReviewRules[3].conditions = <<Condition("training_behavior", "equals", "unknown")>>
  BY DEF PayrollRules, BankRules, ClientDataRules, AutonomyRules, ReviewRules, Pack, Rule

\* The points of one, two and three effects.
LEMMA PointsOfTuples ==
  ASSUME NEW d
  PROVE  /\ \A e \in OrganizationEffects :
              <<e>> \in Seq(OrganizationEffects) /\ RawPoints(<<e>>, d) = Gain(e, d)
         /\ \A e, f \in OrganizationEffects :
              /\ <<e, f>> \in Seq(OrganizationEffects)
              /\ RawPoints(<<e, f>>, d) = Gain(e, d) + Gain(f, d)
         /\ \A e, f, g \in OrganizationEffects :
              /\ <<e, f, g>> \in Seq(OrganizationEffects)
              /\ RawPoints(<<e, f, g>>, d) = Gain(e, d) + Gain(f, d) + Gain(g, d)
  <1>1. \A e \in OrganizationEffects : Gain(e, d) \in Nat
    <2> TAKE e \in OrganizationEffects
    <2> DEFINE x == Gain(e, d)
    <2>1. x \in 0..100
      BY GainIsPoints
    <2> HIDE DEF x
    <2>2. x \in Nat
      BY <2>1
    <2> QED BY <2>2 DEF x
  <1>2. ASSUME NEW e \in OrganizationEffects PROVE RawPoints(<<e>>, d) = Gain(e, d)
    <2> DEFINE x == Gain(e, d)
    <2>1. RawPoints(<<e>>, d) = Total(<<x>>)
      <3>1. [k \in 1..Len(<<e>>) |-> Gain(<<e>>[k], d)] = <<x>>
        OBVIOUS
      <3> QED BY <3>1 DEF RawPoints
    <2>2. x \in Nat
      BY <1>1
    <2> HIDE DEF x
    <2>3. <<x>> \in Seq(Nat) /\ Len(<<x>>) = 1 /\ <<x>>[1] = x
      BY <2>2
    <2>4. PICK t \in [0..1 -> Nat] :
            t[0] = 0 /\ (\A i \in 1..1 : t[i] = t[i - 1] + <<x>>[i]) /\ Total(<<x>>) = t[1]
      BY <2>3, TotalAdds
    <2>5. Total(<<x>>) = x
      BY <2>2, <2>3, <2>4
    <2> QED BY <2>1, <2>5 DEF x
  <1>3. ASSUME NEW e \in OrganizationEffects, NEW f \in OrganizationEffects
        PROVE  RawPoints(<<e, f>>, d) = Gain(e, d) + Gain(f, d)
    <2> DEFINE x == Gain(e, d)
               y == Gain(f, d)
    <2>1. RawPoints(<<e, f>>, d) = Total(<<x, y>>)
      <3>1. [k \in 1..Len(<<e, f>>) |-> Gain(<<e, f>>[k], d)] = <<x, y>>
        OBVIOUS
      <3> QED BY <3>1 DEF RawPoints
    <2>2. x \in Nat /\ y \in Nat
      BY <1>1
    <2> HIDE DEF x, y
    <2>3. <<x, y>> \in Seq(Nat) /\ Len(<<x, y>>) = 2 /\ <<x, y>>[1] = x /\ <<x, y>>[2] = y
      BY <2>2
    <2>4. PICK t \in [0..2 -> Nat] :
            t[0] = 0 /\ (\A i \in 1..2 : t[i] = t[i - 1] + <<x, y>>[i]) /\ Total(<<x, y>>) = t[2]
      BY <2>3, TotalAdds
    <2>5. t[1] = x /\ t[2] = t[1] + y
      BY <2>2, <2>3, <2>4
    <2>6. Total(<<x, y>>) = x + y
      BY <2>4, <2>5
    <2> QED BY <2>1, <2>6 DEF x, y
  <1>4. ASSUME NEW e \in OrganizationEffects, NEW f \in OrganizationEffects,
               NEW g \in OrganizationEffects
        PROVE  RawPoints(<<e, f, g>>, d) = Gain(e, d) + Gain(f, d) + Gain(g, d)
    <2> DEFINE x == Gain(e, d)
               y == Gain(f, d)
               z == Gain(g, d)
    <2>1. RawPoints(<<e, f, g>>, d) = Total(<<x, y, z>>)
      <3>1. [k \in 1..Len(<<e, f, g>>) |-> Gain(<<e, f, g>>[k], d)] = <<x, y, z>>
        OBVIOUS
      <3> QED BY <3>1 DEF RawPoints
    <2>2. x \in Nat /\ y \in Nat /\ z \in Nat
      BY <1>1
    <2> HIDE DEF x, y, z
    <2>3. /\ <<x, y, z>> \in Seq(Nat) /\ Len(<<x, y, z>>) = 3
          /\ <<x, y, z>>[1] = x /\ <<x, y, z>>[2] = y /\ <<x, y, z>>[3] = z
      BY <2>2
    <2>4. PICK t \in [0..3 -> Nat] :
            /\ t[0] = 0 /\ Total(<<x, y, z>>) = t[3]
            /\ \A i \in 1..3 : t[i] = t[i - 1] + <<x, y, z>>[i]
      BY <2>3, TotalAdds
    <2>5. t[1] = x /\ t[2] = t[1] + y /\ t[3] = t[2] + z
      BY <2>2, <2>3, <2>4
    <2>6. Total(<<x, y, z>>) = x + y + z
      BY <2>4, <2>5
    <2> QED BY <2>1, <2>6 DEF x, y, z
  <1> QED BY <1>2, <1>3, <1>4, TuplesAreSequences, Zenon

\* what a rule of the pack may add to a dimension, and its floor
Adds(rule, dimensions, most, floor) ==
  /\ rule.effects \in Seq(OrganizationEffects)
  /\ \A d : RawPoints(rule.effects, d) \in 0..most
  /\ \A d : d \notin dimensions => RawPoints(rule.effects, d) = 0
  /\ FloorsOf(rule) = floor

\* The dimensions and floors of every rule of the pack.
LEMMA PackAdds ==
  /\ Adds(PayrollRules[1], {"data_sensitivity"}, 40, {"High"})
  /\ Adds(PayrollRules[2], {}, 40, {"Critical"})
  /\ Adds(BankRules[1], {"system_privilege"}, 40, {"High"})
  /\ Adds(BankRules[2], {"financial_impact", "human_oversight"}, 40, {"Critical"})
  /\ Adds(ClientDataRules[1], {"data_sensitivity"}, 40, {"High"})
  /\ Adds(ClientDataRules[2], {"data_sensitivity"}, 40, {})
  /\ Adds(ClientDataRules[3], {"external_connectivity"}, 40, {})
  /\ Adds(AutonomyRules[1], {"autonomy"}, 40, {"High"})
  /\ Adds(ReviewRules[1], {"vendor_risk"}, 40, {})
  /\ Adds(ReviewRules[2], {"regulatory_relevance"}, 40, {})
  /\ Adds(ReviewRules[3], {"vendor_risk"}, 40, {})
  <1>1. \A v \in 0..40 : v \in 0..100 /\ 0 \in 0..40
    OBVIOUS
  <1>2. ASSUME NEW rule, NEW n \in Dimensions, NEW v \in 0..40, rule.effects = <<Points(n, v)>>
        PROVE  Adds(rule, {n}, 40, {})
    <2>1. Points(n, v) \in OrganizationEffects
      BY <1>1, EffectTypes
    <2>2. rule.effects \in Seq(OrganizationEffects)
          /\ \A d : RawPoints(rule.effects, d) = Gain(Points(n, v), d)
      BY <1>2, <2>1, PointsOfTuples
    <2>3. \A d : Gain(Points(n, v), d) = IF d = n THEN v ELSE 0
      BY DEF Gain, Points
    <2>4. FloorsOf(rule) = {}
      BY <1>2 DEF FloorsOf, Range, Points
    <2>5. \A d : RawPoints(rule.effects, d) = IF d = n THEN v ELSE 0
      BY <2>2, <2>3, Zenon
    <2>6. \A d : RawPoints(rule.effects, d) \in 0..40
      BY <1>1, <2>5
    <2>7. \A d : d \notin {n} => RawPoints(rule.effects, d) = 0
      BY <2>5
    <2> QED BY <2>2, <2>4, <2>6, <2>7 DEF Adds
  <1>3. ASSUME NEW rule, NEW n \in Dimensions, NEW v \in 0..40, NEW s \in DOMAIN BandOf,
               rule.effects = <<Points(n, v), Floor(s)>>
        PROVE  Adds(rule, {n}, 40, {BandOf[s]})
    <2>1. Points(n, v) \in OrganizationEffects /\ Floor(s) \in OrganizationEffects
      BY <1>1, EffectTypes
    <2> DEFINE e == Points(n, v)
               f == Floor(s)
    <2>2. rule.effects \in Seq(OrganizationEffects)
          /\ \A d : RawPoints(rule.effects, d) = Gain(e, d) + Gain(f, d)
      <3>1. rule.effects = <<e, f>>
        BY <1>3
      <3>2. e \in OrganizationEffects /\ f \in OrganizationEffects
        BY <2>1
      <3> HIDE DEF e, f
      <3> QED BY <3>1, <3>2, PointsOfTuples
    <2>3. \A d : Gain(f, d) = 0 /\ Gain(e, d) = IF d = n THEN v ELSE 0
      BY DEF Gain, Points, Floor
    <2>4. FloorsOf(rule) = {BandOf[s]}
      BY <1>3 DEF FloorsOf, Range, Points, Floor
    <2>5. \A d : RawPoints(rule.effects, d) = IF d = n THEN v ELSE 0
      <3> HIDE DEF e, f
      <3>1. v \in Nat
        OBVIOUS
      <3> QED BY <2>2, <2>3, <3>1
    <2>6. \A d : RawPoints(rule.effects, d) \in 0..40
      BY <1>1, <2>5
    <2>7. \A d : d \notin {n} => RawPoints(rule.effects, d) = 0
      BY <2>5
    <2> HIDE DEF e, f
    <2> QED BY <2>2, <2>4, <2>6, <2>7 DEF Adds
  <1>4. Adds(PayrollRules[2], {}, 40, {"Critical"})
    <2> DEFINE e == Floor("CRITICAL")
    <2>1. e \in OrganizationEffects /\ BandOf["CRITICAL"] = "Critical"
      BY EffectTypes DEF BandOf
    <2>2. PayrollRules[2].effects = <<e>>
      BY PackFields
    <2>3. PayrollRules[2].effects \in Seq(OrganizationEffects)
          /\ \A d : RawPoints(PayrollRules[2].effects, d) = Gain(e, d)
      <3> HIDE DEF e
      <3> QED BY <2>1, <2>2, PointsOfTuples
    <2>4. \A d : Gain(e, d) = 0
      BY DEF Gain, Floor
    <2>5. FloorsOf(PayrollRules[2]) = {"Critical"}
      BY <2>1, <2>2 DEF FloorsOf, Range, Floor
    <2> HIDE DEF e
    <2>6. \A d : RawPoints(PayrollRules[2].effects, d) = 0
      BY <2>3, <2>4, Zenon
    <2>7. 0 \in 0..40
      OBVIOUS
    <2> QED BY <2>3, <2>5, <2>6, <2>7, Zenon DEF Adds
  <1>5. Adds(BankRules[2], {"financial_impact", "human_oversight"}, 40, {"Critical"})
    <2> DEFINE e == Points("financial_impact", 40)
               f == Points("human_oversight", 30)
               g == Floor("CRITICAL")
    <2>1. /\ e \in OrganizationEffects /\ f \in OrganizationEffects /\ g \in OrganizationEffects
          /\ BandOf["CRITICAL"] = "Critical"
      BY EffectTypes, DimensionNames DEF BandOf
    <2>2. BankRules[2].effects = <<e, f, g>>
      BY PackFields
    <2>3. BankRules[2].effects \in Seq(OrganizationEffects)
          /\ \A d : RawPoints(BankRules[2].effects, d) = Gain(e, d) + Gain(f, d) + Gain(g, d)
      <3> HIDE DEF e, f, g
      <3>1. <<e, f, g>> \in Seq(OrganizationEffects)
        BY <2>1, PointsOfTuples
      <3>2. \A d : RawPoints(<<e, f, g>>, d) = Gain(e, d) + Gain(f, d) + Gain(g, d)
        BY <2>1, PointsOfTuples
      <3> QED BY <2>2, <3>1, <3>2
    <2>4. \A d : /\ Gain(e, d) = IF d = "financial_impact" THEN 40 ELSE 0
                 /\ Gain(f, d) = IF d = "human_oversight" THEN 30 ELSE 0
                 /\ Gain(g, d) = 0
      BY DEF Gain, Points, Floor
    <2>5. FloorsOf(BankRules[2]) = {"Critical"}
      BY <2>1, <2>2 DEF FloorsOf, Range, Points, Floor
    <2> HIDE DEF e, f, g
    <2>6. \A d : RawPoints(BankRules[2].effects, d)
                  = (IF d = "financial_impact" THEN 40 ELSE 0)
                    + (IF d = "human_oversight" THEN 30 ELSE 0)
      BY <2>3, <2>4
    <2>7. \A d : /\ RawPoints(BankRules[2].effects, d) \in 0..40
                 /\ d \notin {"financial_impact", "human_oversight"} =>
                      RawPoints(BankRules[2].effects, d) = 0
      BY <2>6
    <2> QED BY <2>3, <2>5, <2>7, Zenon DEF Adds
  <1>6. BandOf["HIGH"] = "High" /\ "HIGH" \in DOMAIN BandOf
    BY DEF BandOf
  <1>7. 10 \in 0..40 /\ 15 \in 0..40 /\ 20 \in 0..40 /\ 25 \in 0..40 /\ 30 \in 0..40
    OBVIOUS
  <1>8. Adds(PayrollRules[1], {"data_sensitivity"}, 40, {"High"})
    <2>1. PayrollRules[1].effects = <<Points("data_sensitivity", 25), Floor("HIGH")>>
      BY PackFields
    <2>2. "data_sensitivity" \in Dimensions
      BY DimensionNames
    <2> QED BY <1>3, <1>6, <1>7, <2>1, <2>2
  <1>9. Adds(BankRules[1], {"system_privilege"}, 40, {"High"})
    <2>1. BankRules[1].effects = <<Points("system_privilege", 30), Floor("HIGH")>>
      BY PackFields
    <2>2. "system_privilege" \in Dimensions
      BY DimensionNames
    <2> QED BY <1>3, <1>6, <1>7, <2>1, <2>2
  <1>10. Adds(ClientDataRules[1], {"data_sensitivity"}, 40, {"High"})
    <2>1. ClientDataRules[1].effects = <<Points("data_sensitivity", 25), Floor("HIGH")>>
      BY PackFields
    <2>2. "data_sensitivity" \in Dimensions
      BY DimensionNames
    <2> QED BY <1>3, <1>6, <1>7, <2>1, <2>2
  <1>11. Adds(ClientDataRules[2], {"data_sensitivity"}, 40, {})
    <2>1. ClientDataRules[2].effects = <<Points("data_sensitivity", 20)>>
      BY PackFields
    <2>2. "data_sensitivity" \in Dimensions
      BY DimensionNames
    <2> QED BY <1>2, <1>7, <2>1, <2>2
  <1>12. Adds(ClientDataRules[3], {"external_connectivity"}, 40, {})
    <2>1. ClientDataRules[3].effects = <<Points("external_connectivity", 20)>>
      BY PackFields
    <2>2. "external_connectivity" \in Dimensions
      BY DimensionNames
    <2> QED BY <1>2, <1>7, <2>1, <2>2
  <1>13. Adds(AutonomyRules[1], {"autonomy"}, 40, {"High"})
    <2>1. AutonomyRules[1].effects = <<Points("autonomy", 30), Floor("HIGH")>>
      BY PackFields
    <2>2. "autonomy" \in Dimensions
      BY DimensionNames
    <2> QED BY <1>3, <1>6, <1>7, <2>1, <2>2
  <1>14. Adds(ReviewRules[1], {"vendor_risk"}, 40, {})
    <2>1. ReviewRules[1].effects = <<Points("vendor_risk", 15)>>
      BY PackFields
    <2>2. "vendor_risk" \in Dimensions
      BY DimensionNames
    <2> QED BY <1>2, <1>7, <2>1, <2>2
  <1>15. Adds(ReviewRules[2], {"regulatory_relevance"}, 40, {})
    <2>1. ReviewRules[2].effects = <<Points("regulatory_relevance", 10)>>
      BY PackFields
    <2>2. "regulatory_relevance" \in Dimensions
      BY DimensionNames
    <2> QED BY <1>2, <1>7, <2>1, <2>2
  <1>16. Adds(ReviewRules[3], {"vendor_risk"}, 40, {})
    <2>1. ReviewRules[3].effects = <<Points("vendor_risk", 10)>>
      BY PackFields
    <2>2. "vendor_risk" \in Dimensions
      BY DimensionNames
    <2> QED BY <1>2, <1>7, <2>1, <2>2
  <1> QED BY <1>4, <1>5, <1>8, <1>9, <1>10, <1>11, <1>12, <1>13, <1>14, <1>15, <1>16

\* a rule that keeps matching, and adds, as a tool has more facts
SoundRule(rule) ==
  /\ rule.layer \in Nat /\ rule.id \in Nat
  /\ rule.effects \in Seq(OrganizationEffects)
  /\ \A k \in DOMAIN rule.conditions : Steady(rule.conditions[k])

\* Every rule of the pack is sound, and has an id of its own.
LEMMA PackIsSound ==
  LET p == AccountingRiskPack
  IN  /\ \A i \in 1..11 : SoundRule(p[i]) /\ p[i].layer = Industry
      /\ \A i, j \in 1..11 : p[i].id = p[j].id => i = j
  <1>1. /\ \A v : Steady(Data(v)) /\ Steady(Can(v))
        /\ Steady(Banking) /\ Steady(Condition("permissions", "contains", "write"))
    BY ConditionsAreSteady DEF Data, Can, Banking, SetFields
  <1>2. \A c \in OtherConditions : Steady(c)
    BY ConditionsAreSteady
  <1>3. /\ NoApproval \in OtherConditions
        /\ Condition("autonomy_level", "greater_than_or_equal", 3) \in OtherConditions
        /\ Condition("vendor_review_status", "not_equals", "complete") \in OtherConditions
        /\ Condition("retention_status", "equals", "unknown") \in OtherConditions
        /\ Condition("training_behavior", "equals", "unknown") \in OtherConditions
    BY DEF OtherConditions
  <1>4. ASSUME NEW rule, rule.layer = Industry, rule.id \in Nat,
               rule.effects \in Seq(OrganizationEffects),
               \/ \E c : rule.conditions = <<c>> /\ Steady(c)
               \/ \E c, d : rule.conditions = <<c, d>> /\ Steady(c) /\ Steady(d)
               \/ \E c, d, e : rule.conditions = <<c, d, e>> /\ Steady(c) /\ Steady(d) /\ Steady(e)
        PROVE  SoundRule(rule)
    <2>1. CASE \E c : rule.conditions = <<c>> /\ Steady(c)
      <3>1. PICK c : rule.conditions = <<c>> /\ Steady(c)
        BY <2>1
      <3> QED BY <1>4, <3>1 DEF SoundRule, Industry
    <2>2. CASE \E c, d : rule.conditions = <<c, d>> /\ Steady(c) /\ Steady(d)
      <3>1. PICK c, d : rule.conditions = <<c, d>> /\ Steady(c) /\ Steady(d)
        BY <2>2
      <3> QED BY <1>4, <3>1 DEF SoundRule, Industry
    <2>3. CASE \E c, d, e : rule.conditions = <<c, d, e>> /\ Steady(c) /\ Steady(d) /\ Steady(e)
      <3>1. PICK c, d, e : rule.conditions = <<c, d, e>> /\ Steady(c) /\ Steady(d) /\ Steady(e)
        BY <2>3
      <3> QED BY <1>4, <3>1 DEF SoundRule, Industry
    <2> QED BY <1>4, <2>1, <2>2, <2>3
  <1>5. SoundRule(PayrollRules[1])
    <2>1. PayrollRules[1].conditions = <<Data("payroll"), Can("external_transfer")>>
      BY PackFields
    <2>2. PayrollRules[1].layer = Industry /\ PayrollRules[1].id = 6 /\ PayrollRules[1].effects \in Seq(OrganizationEffects)
      BY PackFields, PackAdds DEF Adds
    <2> QED BY <1>1, <1>2, <1>3, <1>4, <2>1, <2>2
  <1>6. SoundRule(PayrollRules[2])
    <2>1. PayrollRules[2].conditions = <<Data("payroll"), Can("external_transfer"), NoApproval>>
      BY PackFields
    <2>2. PayrollRules[2].layer = Industry /\ PayrollRules[2].id = 7 /\ PayrollRules[2].effects \in Seq(OrganizationEffects)
      BY PackFields, PackAdds DEF Adds
    <2> QED BY <1>1, <1>2, <1>3, <1>4, <2>1, <2>2
  <1>7. SoundRule(BankRules[1])
    <2>1. BankRules[1].conditions = <<Banking, Condition("permissions", "contains", "write")>>
      BY PackFields
    <2>2. BankRules[1].layer = Industry /\ BankRules[1].id = 3 /\ BankRules[1].effects \in Seq(OrganizationEffects)
      BY PackFields, PackAdds DEF Adds
    <2> QED BY <1>1, <1>2, <1>3, <1>4, <2>1, <2>2
  <1>8. SoundRule(BankRules[2])
    <2>1. BankRules[2].conditions = <<Banking, Can("financial_transaction"), NoApproval>>
      BY PackFields
    <2>2. BankRules[2].layer = Industry /\ BankRules[2].id = 2 /\ BankRules[2].effects \in Seq(OrganizationEffects)
      BY PackFields, PackAdds DEF Adds
    <2> QED BY <1>1, <1>2, <1>3, <1>4, <2>1, <2>2
  <1>9. SoundRule(ClientDataRules[1])
    <2>1. ClientDataRules[1].conditions = <<Data("tax_records"), Can("external_transfer")>>
      BY PackFields
    <2>2. ClientDataRules[1].layer = Industry /\ ClientDataRules[1].id = 9 /\ ClientDataRules[1].effects \in Seq(OrganizationEffects)
      BY PackFields, PackAdds DEF Adds
    <2> QED BY <1>1, <1>2, <1>3, <1>4, <2>1, <2>2
  <1>10. SoundRule(ClientDataRules[2])
    <2>1. ClientDataRules[2].conditions = <<Data("financial_records"), Can("data_export")>>
      BY PackFields
    <2>2. ClientDataRules[2].layer = Industry /\ ClientDataRules[2].id = 5 /\ ClientDataRules[2].effects \in Seq(OrganizationEffects)
      BY PackFields, PackAdds DEF Adds
    <2> QED BY <1>1, <1>2, <1>3, <1>4, <2>1, <2>2
  <1>11. SoundRule(ClientDataRules[3])
    <2>1. ClientDataRules[3].conditions = <<Data("financial_records"), Can("communication")>>
      BY PackFields
    <2>2. ClientDataRules[3].layer = Industry /\ ClientDataRules[3].id = 4 /\ ClientDataRules[3].effects \in Seq(OrganizationEffects)
      BY PackFields, PackAdds DEF Adds
    <2> QED BY <1>1, <1>2, <1>3, <1>4, <2>1, <2>2
  <1>12. SoundRule(AutonomyRules[1])
    <2>1. AutonomyRules[1].conditions = <<Can("record_modification"), Condition("autonomy_level", "greater_than_or_equal", 3)>>
      BY PackFields
    <2>2. AutonomyRules[1].layer = Industry /\ AutonomyRules[1].id = 1 /\ AutonomyRules[1].effects \in Seq(OrganizationEffects)
      BY PackFields, PackAdds DEF Adds
    <2> QED BY <1>1, <1>2, <1>3, <1>4, <2>1, <2>2
  <1>13. SoundRule(ReviewRules[1])
    <2>1. ReviewRules[1].conditions = <<Condition("vendor_review_status", "not_equals", "complete")>>
      BY PackFields
    <2>2. ReviewRules[1].layer = Industry /\ ReviewRules[1].id = 11 /\ ReviewRules[1].effects \in Seq(OrganizationEffects)
      BY PackFields, PackAdds DEF Adds
    <2> QED BY <1>1, <1>2, <1>3, <1>4, <2>1, <2>2
  <1>14. SoundRule(ReviewRules[2])
    <2>1. ReviewRules[2].conditions = <<Condition("retention_status", "equals", "unknown")>>
      BY PackFields
    <2>2. ReviewRules[2].layer = Industry /\ ReviewRules[2].id = 8 /\ ReviewRules[2].effects \in Seq(OrganizationEffects)
      BY PackFields, PackAdds DEF Adds
    <2> QED BY <1>1, <1>2, <1>3, <1>4, <2>1, <2>2
  <1>15. SoundRule(ReviewRules[3])
    <2>1. ReviewRules[3].conditions = <<Condition("training_behavior", "equals", "unknown")>>
      BY PackFields
    <2>2. ReviewRules[3].layer = Industry /\ ReviewRules[3].id = 10 /\ ReviewRules[3].effects \in Seq(OrganizationEffects)
      BY PackFields, PackAdds DEF Adds
    <2> QED BY <1>1, <1>2, <1>3, <1>4, <2>1, <2>2
  <1>16. /\ AccountingRiskPack[1] = PayrollRules[1] /\ AccountingRiskPack[2] = PayrollRules[2]
         /\ AccountingRiskPack[3] = BankRules[1] /\ AccountingRiskPack[4] = BankRules[2]
         /\ AccountingRiskPack[5] = ClientDataRules[1] /\ AccountingRiskPack[6] = ClientDataRules[2]
         /\ AccountingRiskPack[7] = ClientDataRules[3] /\ AccountingRiskPack[8] = AutonomyRules[1]
         /\ AccountingRiskPack[9] = ReviewRules[1] /\ AccountingRiskPack[10] = ReviewRules[2]
         /\ AccountingRiskPack[11] = ReviewRules[3]
    BY PackRules
  <1>17. \A i : i \in 1..11 <=> i \in {1, 2, 3, 4, 5, 6, 7, 8, 9, 10, 11}
    OBVIOUS
  <1> DEFINE p == AccountingRiskPack
  <1>18. /\ p[1].id = 6 /\ p[2].id = 7 /\ p[3].id = 3 /\ p[4].id = 2 /\ p[5].id = 9
         /\ p[6].id = 5 /\ p[7].id = 4 /\ p[8].id = 1 /\ p[9].id = 11 /\ p[10].id = 8
         /\ p[11].id = 10
    BY <1>16, PackFields
  <1>19. \A i \in {1, 2, 3, 4, 5, 6, 7, 8, 9, 10, 11} : p[i].layer = Industry
    BY <1>16, PackFields
  <1>20. \A i \in {1, 2, 3, 4, 5, 6, 7, 8, 9, 10, 11} : SoundRule(p[i])
    BY <1>5, <1>6, <1>7, <1>8, <1>9, <1>10, <1>11, <1>12, <1>13, <1>14, <1>15, <1>16
  <1> HIDE DEF p
  <1>21. \A i, j \in 1..11 : p[i].id = p[j].id => i = j
    BY <1>17, <1>18
  <1> QED BY <1>17, <1>19, <1>20, <1>21 DEF p

\* A sequence is one of any set that has its elements.
LEMMA SequenceOf ==
  ASSUME NEW E, NEW s \in Seq(E), NEW S, \A i \in 1..Len(s) : s[i] \in S
  PROVE  s \in Seq(S)
  OBVIOUS

\* So is a rule of an organization.
LEMMA OrganizationRuleIsSound ==
  ASSUME NEW rule \in OrganizationRules
  PROVE  SoundRule(rule) /\ rule.layer = Organization
  <1>1. /\ rule.layer = Organization /\ rule.id \in Nat
        /\ rule.effects \in Seq(OrganizationEffects)
        /\ rule.conditions \in Seq(OrganizationConditions)
    BY DEF OrganizationRules
  <1>2. ASSUME NEW k \in DOMAIN rule.conditions PROVE Steady(rule.conditions[k])
    <2> DEFINE c == rule.conditions[k]
    <2>1. c \in OrganizationConditions
      BY <1>1
    <2> HIDE DEF c
    <2>2. \/ c.field \in {"data_categories", "capabilities"} /\ c = Condition(c.field, "contains", c.value)
          \/ c = Condition("catalog_product_id", "equals", c.value)
      BY <2>1 DEF OrganizationConditions, Condition
    <2>3. Steady(c)
      BY <2>2, ConditionsAreSteady DEF SetFields
    <2> QED BY <2>3 DEF c
  <1> QED BY <1>1, <1>2 DEF SoundRule, Organization

\* no two rules of an organization have one id
DistinctIds(rules) == \A i, j \in DOMAIN rules : rules[i].id = rules[j].id => i = j

\* The rules that are evaluated: those of the pack, then those of the organization.
LEMMA RulesAreSound ==
  ASSUME NEW rules \in Seq(OrganizationRules), DistinctIds(rules)
  PROVE  LET all == AccountingRiskPack \o rules
             R == {all[i] : i \in 1..Len(all)}
         IN  /\ all \in Seq(R) /\ Len(all) = 11 + Len(rules) /\ Len(rules) \in Nat
             /\ \A r \in R : SoundRule(r)
             /\ Distinct(all)
             /\ \A i \in 1..11 : all[i] = AccountingRiskPack[i] /\ all[i].layer = Industry
             /\ \A i \in 12..Len(all) : all[i].layer = Organization
  <1> DEFINE p == AccountingRiskPack
             all == p \o rules
             n == Len(rules)
             S == {p[i] : i \in 1..11} \cup {rules[i] : i \in 1..n}
             R == {all[i] : i \in 1..Len(all)}
  <1>1. n \in Nat /\ DOMAIN rules = 1..n /\ \A i \in 1..n : rules[i] \in OrganizationRules
    OBVIOUS
  <1>2. rules \in Seq(S)
    <2> HIDE DEF p
    <2>1. \A i \in 1..n : rules[i] \in S
      OBVIOUS
    <2> HIDE DEF S
    <2> QED BY <2>1
  <1>3. p \in Seq(S) /\ Len(p) = 11
    <2>1. PICK E : p \in Seq(E)
      BY PackRules
    <2>2. Len(p) = 11
      BY PackRules
    <2> HIDE DEF p
    <2>3. \A i \in 1..11 : p[i] \in S
      OBVIOUS
    <2> HIDE DEF S
    <2>4. \A i \in 1..Len(p) : p[i] \in S
      BY <2>2, <2>3
    <2> QED BY <2>1, <2>2, <2>4, SequenceOf
  <1>4. \A i \in 1..11 : SoundRule(p[i]) /\ p[i].layer = Industry
    BY PackIsSound
  <1>5. \A i, j \in 1..11 : p[i].id = p[j].id => i = j
    BY PackIsSound
  <1> HIDE DEF p, S, n
  <1>6. /\ all \in Seq(S) /\ Len(all) = 11 + n
        /\ \A i \in 1..11 : all[i] = p[i]
        /\ \A i \in 12..(11 + n) : all[i] = rules[i - 11] /\ i - 11 \in 1..n
    <2>1. /\ all \in Seq(S) /\ Len(all) = Len(p) + Len(rules)
          /\ \A i \in 1..(Len(p) + Len(rules)) :
               all[i] = IF i <= Len(p) THEN p[i] ELSE rules[i - Len(p)]
      BY <1>2, <1>3, ConcatProperties
    <2> HIDE DEF all
    <2>2. Len(all) = 11 + n
      BY <1>3, <2>1 DEF n
    <2>3. \A i \in 1..(11 + n) : all[i] = IF i <= 11 THEN p[i] ELSE rules[i - 11]
      BY <1>3, <2>1 DEF n
    <2>4. \A i \in 12..(11 + n) : i \in 1..(11 + n) /\ ~(i <= 11) /\ i - 11 \in 1..n
      BY <1>1
    <2>5. \A i \in 1..11 : i \in 1..(11 + n) /\ i <= 11
      BY <1>1
    <2> QED BY <2>1, <2>2, <2>3, <2>4, <2>5, Zenon
  <1> HIDE DEF all
  <1>7. \A i \in 12..(11 + n) : SoundRule(all[i]) /\ all[i].layer = Organization
    BY <1>1, <1>6, OrganizationRuleIsSound
  <1>8. \A i \in 1..(11 + n) : i \in 1..11 \/ i \in 12..(11 + n)
    BY <1>1
  <1>9. \A r \in R : SoundRule(r)
    BY <1>4, <1>6, <1>7, <1>8
  <1>10. all \in Seq(R)
    <2>1. \A i \in 1..Len(all) : all[i] \in R
      OBVIOUS
    <2> HIDE DEF R
    <2> QED BY <1>6, <2>1
  <1>11. Distinct(all)
    <2> SUFFICES ASSUME NEW i \in 1..(11 + n), NEW j \in 1..(11 + n),
                        all[i].layer = all[j].layer, all[i].id = all[j].id
                 PROVE  i = j
      BY <1>6 DEF Distinct
    <2>1. CASE i \in 1..11 /\ j \in 1..11
      BY <1>6, <1>5, <2>1
    <2>2. CASE i \in 12..(11 + n) /\ j \in 12..(11 + n)
      <3>1. /\ all[i] = rules[i - 11] /\ all[j] = rules[j - 11]
            /\ i - 11 \in 1..n /\ j - 11 \in 1..n
        BY <1>6, <2>2
      <3>2. i - 11 = j - 11
        BY <1>1, <3>1 DEF DistinctIds
      <3> QED BY <1>1, <3>2
    <2>3. ASSUME NEW k \in 1..11, NEW l \in 12..(11 + n)
          PROVE  all[k].layer # all[l].layer
      <3>1. all[k].layer = Industry
        <4>1. all[k] = p[k]
          BY <1>6
        <4> QED BY <1>4, <4>1
      <3>2. all[l].layer = Organization
        BY <1>7
      <3> QED BY <3>1, <3>2 DEF Industry, Organization
    <2> QED BY <1>8, <2>1, <2>2, <2>3
  <1> QED BY <1>1, <1>4, <1>6, <1>7, <1>9, <1>10, <1>11 DEF R, all, n, p

\* Every rule is evaluated once, in the order of precedence.
LEMMA EvaluatedInOrder ==
  ASSUME NEW R, NEW all \in Seq(R), \A r \in R : SoundRule(r), Distinct(all), NEW c
  PROVE  LET results == EvaluatePolicies(all, c)
         IN  /\ Len(results) = Len(all) /\ DOMAIN results = 1..Len(all) /\ Len(all) \in Nat
             /\ \A k \in 1..Len(all) :
                  /\ Ordered(all)[k] \in R
                  /\ results[k] = EvaluateRule(Ordered(all)[k], c)
                  /\ results[k].effects \in Seq(OrganizationEffects)
  <1> DEFINE o == Ordered(all)
             n == Len(all)
             row == [k \in 1..n |-> EvaluateRule(o[k], c)]
             S == {EvaluateRule(o[k], c) : k \in 1..n}
  <1>1. o \in Seq(R) /\ Len(o) = n /\ n \in Nat
    BY OrderedPlaces DEF SoundRule
  <1>2. EvaluatePolicies(all, c) = <<>> \o row
    BY <1>1 DEF EvaluatePolicies
  <1> HIDE DEF o, n
  <1>3. row \in Seq(S) /\ Len(row) = n
    <2>1. \A k \in 1..n : EvaluateRule(o[k], c) \in S
      OBVIOUS
    <2> HIDE DEF S
    <2> QED BY <1>1, <2>1
  <1>4. EvaluatePolicies(all, c) = row
    BY <1>2, <1>3, ConcatEmptySeq
  <1>5. \A k \in 1..n : o[k] \in R
    BY <1>1
  <1>6. \A k \in 1..n : row[k] = EvaluateRule(o[k], c)
    OBVIOUS
  <1>7. \A r \in R : EvaluateRule(r, c).effects \in Seq(OrganizationEffects)
    <2> TAKE r \in R
    <2>1. r.effects \in Seq(OrganizationEffects)
      BY DEF SoundRule
    <2>2. <<>> \in Seq(OrganizationEffects)
      OBVIOUS
    <2>3. EvaluateRule(r, c).effects = r.effects \/ EvaluateRule(r, c).effects = <<>>
      BY DEF EvaluateRule
    <2> QED BY <2>1, <2>2, <2>3
  <1> HIDE DEF row
  <1> QED BY <1>1, <1>3, <1>4, <1>5, <1>6, <1>7 DEF o, n

\* The weighted points, written out.
LEMMA WeightedSum ==
  ASSUME NEW effects, \A d \in Dimensions : RawPoints(effects, d) \in Nat
  PROVE  /\ \A d \in Dimensions :
              /\ DimensionScore(effects, d) \in 0..100
              /\ RawPoints(effects, d) <= 100 => DimensionScore(effects, d) = RawPoints(effects, d)
              /\ RawPoints(effects, d) > 100 => DimensionScore(effects, d) = 100
         /\ RawWeighted(effects) =
              20 * DimensionScore(effects, "data_sensitivity")
              + 20 * DimensionScore(effects, "system_privilege")
              + 15 * DimensionScore(effects, "autonomy")
              + 15 * DimensionScore(effects, "external_connectivity")
              + 10 * DimensionScore(effects, "human_oversight")
              + 10 * DimensionScore(effects, "financial_impact")
              + 5 * DimensionScore(effects, "regulatory_relevance")
              + 5 * DimensionScore(effects, "vendor_risk")
  <1> DEFINE D(d) == DimensionScore(effects, d)
  <1>1. \A d \in Dimensions :
          /\ D(d) \in 0..100
          /\ RawPoints(effects, d) <= 100 => D(d) = RawPoints(effects, d)
          /\ RawPoints(effects, d) > 100 => D(d) = 100
    BY DEF DimensionScore
  <1> DEFINE s == [n \in 1..8 |-> D(Weights[n][1]) * Weights[n][2]]
  <1>2. Len(Weights) = 8
    BY DEF Weights
  <1>3. RawWeighted(effects) = Total(s)
    BY <1>2 DEF RawWeighted
  <1>4. /\ Weights[1] = <<"data_sensitivity", 20>> /\ Weights[2] = <<"system_privilege", 20>>
        /\ Weights[3] = <<"autonomy", 15>> /\ Weights[4] = <<"external_connectivity", 15>>
        /\ Weights[5] = <<"human_oversight", 10>> /\ Weights[6] = <<"financial_impact", 10>>
        /\ Weights[7] = <<"regulatory_relevance", 5>> /\ Weights[8] = <<"vendor_risk", 5>>
    BY DEF Weights
  <1> HIDE DEF D
  <1>5. /\ s[1] = D("data_sensitivity") * 20 /\ s[2] = D("system_privilege") * 20
        /\ s[3] = D("autonomy") * 15 /\ s[4] = D("external_connectivity") * 15
        /\ s[5] = D("human_oversight") * 10 /\ s[6] = D("financial_impact") * 10
        /\ s[7] = D("regulatory_relevance") * 5 /\ s[8] = D("vendor_risk") * 5
    BY <1>4
  <1>6. /\ D("data_sensitivity") \in Nat /\ D("system_privilege") \in Nat /\ D("autonomy") \in Nat
        /\ D("external_connectivity") \in Nat /\ D("human_oversight") \in Nat
        /\ D("financial_impact") \in Nat /\ D("regulatory_relevance") \in Nat
        /\ D("vendor_risk") \in Nat
    BY <1>1, DimensionNames
  <1>7. s = [n \in 1..8 |-> s[n]]
    OBVIOUS
  <1> HIDE DEF s
  <1>8. \A n \in 1..8 : s[n] \in Nat
    <2>1. /\ s[1] \in Nat /\ s[2] \in Nat /\ s[3] \in Nat /\ s[4] \in Nat
          /\ s[5] \in Nat /\ s[6] \in Nat /\ s[7] \in Nat /\ s[8] \in Nat
      BY <1>5, <1>6
    <2> QED BY <2>1
  <1>9. s \in Seq(Nat) /\ Len(s) = 8
    BY <1>7, <1>8
  <1>10. PICK t \in [0..8 -> Nat] :
           t[0] = 0 /\ (\A n \in 1..8 : t[n] = t[n - 1] + s[n]) /\ Total(s) = t[8]
    BY <1>9, TotalAdds
  <1>11. /\ t[1] = t[0] + s[1] /\ t[2] = t[1] + s[2] /\ t[3] = t[2] + s[3] /\ t[4] = t[3] + s[4]
         /\ t[5] = t[4] + s[5] /\ t[6] = t[5] + s[6] /\ t[7] = t[6] + s[7] /\ t[8] = t[7] + s[8]
    <2>1. \A n \in 1..8 : t[n] = t[n - 1] + s[n]
      BY <1>10
    <2> QED BY <2>1
  <1>12. t[8] = s[1] + s[2] + s[3] + s[4] + s[5] + s[6] + s[7] + s[8]
    BY <1>8, <1>10, <1>11
  <1>13. RawWeighted(effects) =
           20 * D("data_sensitivity") + 20 * D("system_privilege") + 15 * D("autonomy")
           + 15 * D("external_connectivity") + 10 * D("human_oversight")
           + 10 * D("financial_impact") + 5 * D("regulatory_relevance") + 5 * D("vendor_risk")
    BY <1>3, <1>5, <1>6, <1>10, <1>12
  <1> QED BY <1>1, <1>13 DEF D

\* The largest of some floors.
LEMMA LargestFloor ==
  ASSUME NEW S \in SUBSET {0, 25, 50, 75}, S # {}
  PROVE  Max(S) \in S /\ \A x \in S : Max(S) >= x
  <1>1. \E x \in S : \A y \in S : x >= y
    <2>1. CASE 75 \in S
      BY <2>1
    <2>2. CASE 75 \notin S /\ 50 \in S
      BY <2>2
    <2>3. CASE 75 \notin S /\ 50 \notin S /\ 25 \in S
      BY <2>3
    <2>4. CASE 75 \notin S /\ 50 \notin S /\ 25 \notin S
      <3>1. S = {0}
        BY <2>4
      <3> QED BY <3>1
    <2> QED BY <2>1, <2>2, <2>3, <2>4
  <1> QED BY <1>1 DEF Max

\* Results whose effects are those of rules.
Results(results) ==
  /\ Len(results) \in Nat /\ DOMAIN results = 1..Len(results)
  /\ \A i \in 1..Len(results) : results[i].effects \in Seq(OrganizationEffects)

\* weighted points
Hundredths == 0..10000

\* What a score is: its rounded points or a floor, whichever is higher.
Scores(results, risk) ==
  /\ \A d \in Dimensions : RawPoints(Effects(results), d) \in Nat
  /\ risk.weighted = RawWeighted(Effects(results)) /\ risk.weighted \in Hundredths
  /\ Rounded(risk.weighted) \in 0..100
  /\ 2 * (100 * Rounded(risk.weighted) - risk.weighted) \in -99..100
  /\ Floors(results) \subseteq Bands
  /\ risk.score \in 0..100
  /\ risk.score >= Rounded(risk.weighted)
  /\ \A b \in Floors(results) : risk.score >= BandMinimum[b]
  /\ \/ risk.score = Rounded(risk.weighted)
     \/ \E b \in Floors(results) : risk.score = BandMinimum[b]
  /\ risk.band = "Critical" <=> risk.score >= 75

\* This is what calculate_policy_risk makes of the results of any rules.
LEMMA ScoreOfResults ==
  ASSUME NEW results, Results(results)
  PROVE  Scores(results, PolicyRisk(results))
  <1> DEFINE w == RawWeighted(Effects(results))
             floors == Floors(results)
             S == {BandMinimum[b] : b \in floors} \cup {0}
             score == Max({Rounded(w), Max(S)})
  <1>1. \A d : RawPoints(Effects(results), d) \in Nat
    <2> TAKE d
    <2> DEFINE points == [i \in 1..Len(results) |-> RawPoints(results[i].effects, d)]
    <2>1. points \in Seq(Nat) /\ RawPoints(Effects(results), d) = Total(points)
      BY PointsOfResults DEF Results
    <2> HIDE DEF points
    <2>2. Total(points) \in Nat
      BY <2>1, TotalOfBoth
    <2> QED BY <2>1, <2>2
  <1>2. w \in Hundredths
    <2> DEFINE D(d) == DimensionScore(Effects(results), d)
    <2>1. /\ \A d \in Dimensions : D(d) \in 0..100
          /\ w = 20 * D("data_sensitivity") + 20 * D("system_privilege") + 15 * D("autonomy")
                 + 15 * D("external_connectivity") + 10 * D("human_oversight")
                 + 10 * D("financial_impact") + 5 * D("regulatory_relevance")
                 + 5 * D("vendor_risk")
      BY <1>1, WeightedSum
    <2> HIDE DEF D, w
    <2>2. /\ D("data_sensitivity") \in 0..100 /\ D("system_privilege") \in 0..100
          /\ D("autonomy") \in 0..100 /\ D("external_connectivity") \in 0..100
          /\ D("human_oversight") \in 0..100 /\ D("financial_impact") \in 0..100
          /\ D("regulatory_relevance") \in 0..100 /\ D("vendor_risk") \in 0..100
      BY <2>1, DimensionNames
    <2> DEFINE a == D("data_sensitivity")
               b == D("system_privilege")
               c == D("autonomy")
               d == D("external_connectivity")
               e == D("human_oversight")
               f == D("financial_impact")
               g == D("regulatory_relevance")
               h == D("vendor_risk")
               x == 20 * a + 20 * b + 15 * c + 15 * d
               y == 10 * e + 10 * f + 5 * g + 5 * h
    <2>3. w = x + 10 * e + 10 * f + 5 * g + 5 * h
      BY <2>1
    <2>4. a \in 0..100 /\ b \in 0..100 /\ c \in 0..100 /\ d \in 0..100
      BY <2>2
    <2>5. e \in 0..100 /\ f \in 0..100 /\ g \in 0..100 /\ h \in 0..100
      BY <2>2
    <2> HIDE DEF a, b, c, d, e, f, g, h
    <2>6. x \in Nat /\ x <= 7000
      BY <2>4
    <2>7. y \in Nat /\ y <= 3000
      BY <2>5
    <2>8. w = x + y
      <3>1. e \in Nat /\ f \in Nat /\ g \in Nat /\ h \in Nat
        BY <2>5
      <3> HIDE DEF x
      <3> QED BY <2>3, <2>6, <3>1
    <2> HIDE DEF x, y
    <2> QED BY <2>6, <2>7, <2>8 DEF Hundredths
  <1>3. PolicyRisk(results) = [score |-> score, band |-> ClassifyRisk(score), weighted |-> w]
    BY DEF PolicyRisk, FloorMinimum
  <1>4. floors \subseteq Bands
    <2>1. ASSUME NEW i \in DOMAIN results, NEW b \in FloorsOf(results[i]) PROVE b \in Bands
      <3>1. PICK e \in Range(results[i].effects) : e.type = "severity_floor" /\ b = BandOf[e.value]
        BY <2>1 DEF FloorsOf
      <3>2. e \in OrganizationEffects
        <4>1. results[i].effects \in Seq(OrganizationEffects)
          BY DEF Results
        <4>2. PICK k \in DOMAIN results[i].effects : e = results[i].effects[k]
          BY <3>1 DEF Range
        <4> QED BY <4>1, <4>2
      <3>3. e.value \in DOMAIN BandOf
        BY <3>1, <3>2 DEF OrganizationEffects
      <3> QED BY <3>1, <3>3 DEF BandOf, Bands
    <2> QED BY <2>1 DEF Floors
  <1> HIDE DEF w, floors
  <1>5. S \in SUBSET {0, 25, 50, 75} /\ S # {}
    <2>1. /\ BandMinimum["Low"] = 0 /\ BandMinimum["Moderate"] = 25
          /\ BandMinimum["High"] = 50 /\ BandMinimum["Critical"] = 75
      BY DEF BandMinimum
    <2> QED BY <1>4, <2>1 DEF Bands
  <1>6. \A b \in floors : BandMinimum[b] \in S
    OBVIOUS
  <1>7. \A x \in S : x = 0 \/ \E b \in floors : x = BandMinimum[b]
    OBVIOUS
  <1> HIDE DEF S
  <1> DEFINE m == Max(S)
             r == Rounded(w)
  <1>8. m \in S /\ \A x \in S : m >= x
    BY <1>5, LargestFloor
  <1>9. r \in 0..100 /\ 2 * (100 * r - w) \in -99..100
    BY <1>2 DEF Rounded, Hundredths
  <1>10. m \in 0..100
    <2>1. m \in {0, 25, 50, 75}
      BY <1>5, <1>8, Zenon
    <2> HIDE DEF m
    <2> QED BY <2>1
  <1> HIDE DEF m, r
  <1>11. score \in {r, m} /\ score >= r /\ score >= m
    <2>1. r \in Nat /\ m \in Nat
      BY <1>9, <1>10
    <2> QED BY <2>1, LargerOfTwo DEF r, m
  <1> HIDE DEF score
  <1>12. score \in 0..100
    BY <1>9, <1>10, <1>11
  <1>13. \A b \in floors : score >= BandMinimum[b]
    <2> TAKE b \in floors
    <2>1. BandMinimum[b] \in S /\ m >= BandMinimum[b]
      BY <1>6, <1>8
    <2>2. BandMinimum[b] \in Int
      <3>1. BandMinimum[b] \in {0, 25, 50, 75}
        BY <1>5, <2>1, Zenon
      <3> QED BY <3>1
    <2> QED BY <1>10, <1>11, <1>12, <2>1, <2>2
  <1>14. score = r \/ \E b \in floors : score = BandMinimum[b]
    <2>1. CASE score = m /\ m = 0
      BY <1>9, <1>11, <2>1
    <2>2. CASE score = m /\ m # 0
      BY <1>7, <1>8, <2>2
    <2> QED BY <1>11, <2>1, <2>2
  <1>15. ClassifyRisk(score) = "Critical" <=> score >= 75
    BY <1>12 DEF ClassifyRisk
  <1> DEFINE risk == PolicyRisk(results)
  <1>16. risk.score = score /\ risk.weighted = w /\ risk.band = ClassifyRisk(score)
    BY <1>3
  <1> HIDE DEF risk
  <1>17. Scores(results, risk)
    BY <1>1, <1>2, <1>4, <1>9, <1>11, <1>12, <1>13, <1>14, <1>15, <1>16 DEF r, w, floors, Scores
  <1> QED BY <1>17 DEF risk

\* A result without effects adds nothing.
LEMMA NoPoints ==
  ASSUME NEW d
  PROVE  RawPoints(<<>>, d) = 0 /\ <<>> \in Seq(OrganizationEffects)
  <1>1. PICK u \in [0..0 -> Nat] : u[0] = 0 /\ Total(<<>>) = u[0]
    <2>1. <<>> \in Seq(Nat) /\ Len(<<>>) = 0
      OBVIOUS
    <2> QED BY <2>1, TotalAdds
  <1>2. [k \in 1..Len(<<>>) |-> Gain(<<>>[k], d)] = <<>>
    OBVIOUS
  <1> QED BY <1>1, <1>2 DEF RawPoints

\* More points in every dimension weigh no less.
LEMMA WeightGrows ==
  ASSUME NEW x, NEW y,
         \A d \in Dimensions : /\ RawPoints(x, d) \in Nat /\ RawPoints(y, d) \in Nat
                               /\ RawPoints(x, d) <= RawPoints(y, d)
  PROVE  RawWeighted(x) <= RawWeighted(y)
  <1> DEFINE X(d) == DimensionScore(x, d)
             Y(d) == DimensionScore(y, d)
  <1>1. /\ \A d \in Dimensions :
             /\ X(d) \in 0..100
             /\ RawPoints(x, d) <= 100 => X(d) = RawPoints(x, d)
             /\ RawPoints(x, d) > 100 => X(d) = 100
        /\ RawWeighted(x) =
             20 * X("data_sensitivity") + 20 * X("system_privilege") + 15 * X("autonomy")
             + 15 * X("external_connectivity") + 10 * X("human_oversight")
             + 10 * X("financial_impact") + 5 * X("regulatory_relevance") + 5 * X("vendor_risk")
    BY WeightedSum
  <1>2. /\ \A d \in Dimensions :
             /\ Y(d) \in 0..100
             /\ RawPoints(y, d) <= 100 => Y(d) = RawPoints(y, d)
             /\ RawPoints(y, d) > 100 => Y(d) = 100
        /\ RawWeighted(y) =
             20 * Y("data_sensitivity") + 20 * Y("system_privilege") + 15 * Y("autonomy")
             + 15 * Y("external_connectivity") + 10 * Y("human_oversight")
             + 10 * Y("financial_impact") + 5 * Y("regulatory_relevance") + 5 * Y("vendor_risk")
    BY WeightedSum
  <1> HIDE DEF X, Y
  <1>3. \A d \in Dimensions : X(d) \in Nat /\ Y(d) \in Nat /\ X(d) <= Y(d)
    BY <1>1, <1>2
  <1> DEFINE a == X("data_sensitivity")
             b == X("system_privilege")
             c == X("autonomy")
             d == X("external_connectivity")
             e == X("human_oversight")
             f == X("financial_impact")
             g == X("regulatory_relevance")
             h == X("vendor_risk")
             k == Y("data_sensitivity")
             l == Y("system_privilege")
             m == Y("autonomy")
             n == Y("external_connectivity")
             o == Y("human_oversight")
             p == Y("financial_impact")
             q == Y("regulatory_relevance")
             r == Y("vendor_risk")
  <1>4. /\ a \in Nat /\ k \in Nat /\ a <= k /\ b \in Nat /\ l \in Nat /\ b <= l
        /\ c \in Nat /\ m \in Nat /\ c <= m /\ d \in Nat /\ n \in Nat /\ d <= n
        /\ e \in Nat /\ o \in Nat /\ e <= o /\ f \in Nat /\ p \in Nat /\ f <= p
        /\ g \in Nat /\ q \in Nat /\ g <= q /\ h \in Nat /\ r \in Nat /\ h <= r
    BY <1>3, DimensionNames
  <1>5. RawWeighted(x) = 20 * a + 20 * b + 15 * c + 15 * d + 10 * e + 10 * f + 5 * g + 5 * h
    BY <1>1
  <1>6. RawWeighted(y) = 20 * k + 20 * l + 15 * m + 15 * n + 10 * o + 10 * p + 5 * q + 5 * r
    BY <1>2
  <1> HIDE DEF a, b, c, d, e, f, g, h, k, l, m, n, o, p, q, r
  <1> QED BY <1>4, <1>5, <1>6

\* More points and more floors are no lower score.
LEMMA ScoresCompare ==
  ASSUME NEW A, NEW B, NEW ra, NEW rb, Scores(A, ra), Scores(B, rb),
         \A d : RawPoints(Effects(A), d) <= RawPoints(Effects(B), d),
         Floors(A) \subseteq Floors(B)
  PROVE  ra.score <= rb.score
  <1> DEFINE ia == Rounded(ra.weighted)
             ib == Rounded(rb.weighted)
  <1>1. ra.weighted \in Hundredths /\ rb.weighted \in Hundredths /\ ra.weighted <= rb.weighted
    <2>1. \A d \in Dimensions : /\ RawPoints(Effects(A), d) \in Nat /\ RawPoints(Effects(B), d) \in Nat
                               /\ RawPoints(Effects(A), d) <= RawPoints(Effects(B), d)
      BY DEF Scores
    <2>2. RawWeighted(Effects(A)) <= RawWeighted(Effects(B))
      BY <2>1, WeightGrows
    <2>3. /\ ra.weighted = RawWeighted(Effects(A)) /\ ra.weighted \in Hundredths
          /\ rb.weighted = RawWeighted(Effects(B)) /\ rb.weighted \in Hundredths
      BY DEF Scores
    <2> QED BY <2>2, <2>3
  <1>2. ia <= ib
    <2> SUFFICES ASSUME NEW x \in Hundredths, NEW y \in Hundredths, x <= y
                 PROVE  Rounded(x) <= Rounded(y)
      BY <1>1
    <2> QED BY DEF Rounded, Hundredths
  <1>3. ia \in 0..100 /\ ib \in 0..100 /\ ra.score \in 0..100 /\ rb.score \in 0..100
    BY DEF Scores
  <1>4. rb.score >= ib /\ \A b \in Floors(B) : rb.score >= BandMinimum[b]
    BY DEF Scores
  <1>5. ra.score = ia \/ \E b \in Floors(A) : ra.score = BandMinimum[b]
    BY DEF Scores
  <1> HIDE DEF ia, ib
  <1>6. ra.score <= ib \/ \E b \in Floors(B) : ra.score = BandMinimum[b]
    BY <1>2, <1>5
  <1> QED
    <2> SUFFICES ASSUME NEW x \in 0..100, NEW y \in 0..100, y >= ib,
                        \A b \in Floors(B) : y >= BandMinimum[b],
                        x <= ib \/ \E b \in Floors(B) : x = BandMinimum[b]
                 PROVE  x <= y
      BY <1>3, <1>4, <1>6
    <2> QED BY <1>3

\* Results to which effects are added, and more results after them, score no less.
LEMMA ScoreGrows ==
  ASSUME NEW A, NEW B, Results(A), Results(B), Len(A) <= Len(B),
         \A i \in 1..Len(A) : A[i].effects = <<>> \/ A[i].effects = B[i].effects
  PROVE  PolicyRisk(A).score <= PolicyRisk(B).score
  <1> DEFINE ra == PolicyRisk(A)
             rb == PolicyRisk(B)
  <1>1. \A d : RawPoints(Effects(A), d) <= RawPoints(Effects(B), d)
    <2> TAKE d
    <2> DEFINE pa == [i \in 1..Len(A) |-> RawPoints(A[i].effects, d)]
               pb == [i \in 1..Len(B) |-> RawPoints(B[i].effects, d)]
    <2>1. pa \in Seq(Nat) /\ RawPoints(Effects(A), d) = Total(pa)
      BY PointsOfResults DEF Results
    <2>2. pb \in Seq(Nat) /\ RawPoints(Effects(B), d) = Total(pb)
      BY PointsOfResults DEF Results
    <2>3. Len(A) \in Nat /\ Len(B) \in Nat /\ \A i \in 1..Len(A) : i \in 1..Len(B)
      BY DEF Results
    <2>4. Len(pa) = Len(A) /\ Len(pb) = Len(B)
      BY <2>3
    <2>5. \A i \in 1..Len(A) : pa[i] <= pb[i]
      <3> TAKE i \in 1..Len(A)
      <3>1. pa[i] = RawPoints(A[i].effects, d) /\ pb[i] = RawPoints(B[i].effects, d)
        BY <2>3
      <3>2. pb[i] \in Nat
        <4> HIDE DEF pb
        <4> QED BY <2>2, <2>3, <2>4
      <3>3. pa[i] = 0 \/ pa[i] = pb[i]
        BY <3>1, NoPoints
      <3> HIDE DEF pa, pb
      <3> QED BY <3>2, <3>3
    <2> HIDE DEF pa, pb
    <2>6. Total(pa) <= Total(pb)
      BY <2>1, <2>2, <2>4, <2>5, TotalGrows
    <2> QED BY <2>1, <2>2, <2>6
  <1>2. Scores(A, ra)
    BY ScoreOfResults
  <1>3. Scores(B, rb)
    BY ScoreOfResults
  <1> HIDE DEF ra, rb
  <1>4. Floors(A) \subseteq Floors(B)
    <2> SUFFICES ASSUME NEW b \in Floors(A) PROVE b \in Floors(B)
      OBVIOUS
    <2>1. PICK i \in 1..Len(A) : b \in FloorsOf(A[i])
      BY DEF Floors, Results
    <2>2. A[i].effects # <<>>
      BY <2>1 DEF FloorsOf, Range
    <2>3. FloorsOf(A[i]) = FloorsOf(B[i])
      BY <2>2 DEF FloorsOf
    <2>4. i \in DOMAIN B
      BY DEF Results
    <2> QED BY <2>1, <2>3, <2>4 DEF Floors
  <1>5. ra.score <= rb.score
    BY <1>1, <1>2, <1>3, <1>4, ScoresCompare
  <1> QED BY <1>5 DEF ra, rb

\* The results of any rules of an organization are those of all its rules in order.
LEMMA AllEvaluated ==
  ASSUME NEW tool, NEW rules \in Seq(OrganizationRules), DistinctIds(rules)
  PROVE  LET all == AccountingRiskPack \o rules
             results == Evaluate(tool, rules)
         IN  /\ Results(results) /\ Len(results) = Len(all) /\ Len(all) \in Nat
             /\ \A k \in 1..Len(all) :
                  /\ SoundRule(Ordered(all)[k])
                  /\ results[k] = EvaluateRule(Ordered(all)[k], InventoryPolicyContext(tool))
  <1> DEFINE all == AccountingRiskPack \o rules
             R == {all[i] : i \in 1..Len(all)}
             c == InventoryPolicyContext(tool)
             results == EvaluatePolicies(all, c)
  <1>1. all \in Seq(R) /\ (\A r \in R : SoundRule(r)) /\ Distinct(all)
    BY RulesAreSound
  <1> HIDE DEF all, R, c
  <1>2. /\ Len(results) = Len(all) /\ DOMAIN results = 1..Len(all) /\ Len(all) \in Nat
        /\ \A k \in 1..Len(all) :
             /\ Ordered(all)[k] \in R
             /\ results[k] = EvaluateRule(Ordered(all)[k], c)
             /\ results[k].effects \in Seq(OrganizationEffects)
    BY <1>1, EvaluatedInOrder
  <1>3. Evaluate(tool, rules) = results
    BY DEF Evaluate, all, c
  <1> HIDE DEF results
  <1>4. Results(results)
    BY <1>2 DEF Results
  <1> QED BY <1>1, <1>2, <1>3, <1>4 DEF all, c

\* A rule that matches a tool matches it with more access, and does the same.
LEMMA MatchesStay ==
  ASSUME NEW rule, SoundRule(rule), NEW tool \in Tools, NEW fact \in OfferedFacts
  PROVE  LET a == EvaluateRule(rule, InventoryPolicyContext(tool))
             b == EvaluateRule(rule, InventoryPolicyContext(With(tool, fact)))
         IN  a.effects = <<>> \/ a.effects = b.effects
  <1> DEFINE c == InventoryPolicyContext(tool)
             d == InventoryPolicyContext(With(tool, fact))
  <1>1. ASSUME Matches(rule, c) PROVE Matches(rule, d)
    <2>1. \A k \in DOMAIN rule.conditions : Holds(rule.conditions[k], c)
      BY <1>1 DEF Matches
    <2>2. \A k \in DOMAIN rule.conditions : Steady(rule.conditions[k])
      BY DEF SoundRule
    <2>3. \A k \in DOMAIN rule.conditions : Holds(rule.conditions[k], d)
      BY <2>1, <2>2 DEF Steady
    <2> QED BY <2>3 DEF Matches
  <1> HIDE DEF c, d
  <1>2. CASE Matches(rule, c)
    <2>1. Matches(rule, d)
      BY <1>1, <1>2
    <2>2. EvaluateRule(rule, c).effects = EvaluateRule(rule, d).effects
      BY <1>2, <2>1 DEF EvaluateRule
    <2> QED BY <2>2 DEF c, d
  <1>3. CASE ~Matches(rule, c)
    <2>1. EvaluateRule(rule, c).effects = <<>>
      BY <1>3 DEF EvaluateRule
    <2> QED BY <2>1 DEF c, d
  <1> QED BY <1>2, <1>3

\* One fact more about a tool does not lower its score, whatever the rules.
LEMMA AccessRaisesRisk ==
  ASSUME NEW tool \in Tools, NEW fact \in OfferedFacts,
         NEW rules \in Seq(OrganizationRules), DistinctIds(rules)
  PROVE  Assess(tool, rules).score <= Assess(With(tool, fact), rules).score
  <1> DEFINE all == AccountingRiskPack \o rules
             more == With(tool, fact)
             A == Evaluate(tool, rules)
             B == Evaluate(more, rules)
             n == Len(all)
  <1>1. /\ Results(A) /\ Len(A) = n /\ n \in Nat
        /\ \A k \in 1..n :
             /\ SoundRule(Ordered(all)[k])
             /\ A[k] = EvaluateRule(Ordered(all)[k], InventoryPolicyContext(tool))
    BY AllEvaluated
  <1>2. /\ Results(B) /\ Len(B) = n
        /\ \A k \in 1..n :
             B[k] = EvaluateRule(Ordered(all)[k], InventoryPolicyContext(more))
    BY AllEvaluated
  <1> HIDE DEF A, B, n, all
  <1>3. \A k \in 1..Len(A) : A[k].effects = <<>> \/ A[k].effects = B[k].effects
    <2> TAKE k \in 1..Len(A)
    <2>1. k \in 1..n
      BY <1>1
    <2>2. SoundRule(Ordered(all)[k])
      BY <1>1, <2>1
    <2>3. /\ A[k] = EvaluateRule(Ordered(all)[k], InventoryPolicyContext(tool))
          /\ B[k] = EvaluateRule(Ordered(all)[k], InventoryPolicyContext(more))
      BY <1>1, <1>2, <2>1
    <2> QED BY <2>2, <2>3, MatchesStay
  <1>4. Len(A) <= Len(B)
    BY <1>1, <1>2
  <1>5. PolicyRisk(A).score <= PolicyRisk(B).score
    BY <1>1, <1>2, <1>3, <1>4, ScoreGrows
  <1> QED BY <1>5 DEF Assess, A, B

\* an answer about a risk is that of the rules to the tool as it is known now
RiskInv ==
  asked.of = "risk" =>
    \E tool \in Tools, rules \in RuleSets :
      /\ asked = [of |-> "risk", tool |-> tool, rules |-> rules]
      /\ answer = Assess(tool, rules)

\* The tool that is asked about first.
LEMMA BareToolIsATool == BareTool \in Tools
  BY DEF BareTool, Tools

\* What is assumed of the rules of an organization.
LEMMA RuleSetTypes ==
  ASSUME NEW rules \in RuleSets
  PROVE  rules \in Seq(OrganizationRules) /\ DistinctIds(rules)
  BY CalculationsAssumption DEF DistinctIds

\* The first question about a risk.
LEMMA RiskAsked == AskRisk => RiskInv'
  <1> SUFFICES ASSUME AskRisk PROVE RiskInv'
    OBVIOUS
  <1>1. PICK rules \in RuleSets :
          /\ asked' = [of |-> "risk", tool |-> BareTool, rules |-> rules]
          /\ answer' = Assess(BareTool, rules)
    BY DEF AskRisk, Ask
  <1> QED BY <1>1, BareToolIsATool DEF RiskInv

\* What GrantFact asks, and its answer.
LEMMA FactGranted ==
  ASSUME RiskInv, GrantFact
  PROVE  \E tool \in Tools, rules \in RuleSets, fact \in OfferedFacts :
           /\ With(tool, fact) \in Tools
           /\ asked' = [of |-> "risk", tool |-> With(tool, fact), rules |-> rules]
           /\ answer' = Assess(With(tool, fact), rules)
           /\ answer = Assess(tool, rules)
  <1>1. PICK fact \in Facts :
          /\ asked.of = "risk"
          /\ asked' = [asked EXCEPT !.tool = With(asked.tool, fact)]
          /\ answer' = Assess(With(asked.tool, fact), asked.rules)
    BY DEF GrantFact, Ask
  <1>2. PICK tool \in Tools, rules \in RuleSets :
          /\ asked = [of |-> "risk", tool |-> tool, rules |-> rules]
          /\ answer = Assess(tool, rules)
    BY <1>1 DEF RiskInv
  <1>3. fact \in OfferedFacts
    BY CalculationsAssumption
  <1>4. With(tool, fact) \in Tools
    BY <1>3, FactsAdd
  <1>5. asked.tool = tool /\ asked.rules = rules
    BY <1>2
  <1>6. asked' = [of |-> "risk", tool |-> With(tool, fact), rules |-> rules]
    BY <1>1, <1>2, <1>5
  <1> QED BY <1>1, <1>2, <1>3, <1>4, <1>5, <1>6

\* A risk is a score of its results.
LEMMA AssessedScores ==
  ASSUME NEW rules \in RuleSets, NEW tool
  PROVE  Scores(Evaluate(tool, rules), Assess(tool, rules)) /\ Assess(tool, rules).score \in 0..100
  <1>1. rules \in Seq(OrganizationRules) /\ DistinctIds(rules)
    BY RuleSetTypes
  <1>2. Results(Evaluate(tool, rules))
    BY <1>1, AllEvaluated
  <1>3. Scores(Evaluate(tool, rules), Assess(tool, rules))
    BY <1>2, ScoreOfResults DEF Assess
  <1> DEFINE risk == Assess(tool, rules)
  <1>4. Scores(Evaluate(tool, rules), risk)
    BY <1>3
  <1> HIDE DEF risk
  <1>5. risk.score \in 0..100
    BY <1>4 DEF Scores
  <1> QED BY <1>4, <1>5 DEF risk

\* No step lowers a score that was asked for.
LEMMA RiskGrows == RiskInv /\ [CalcNext]_calcvars => RiskRises
  <1> SUFFICES ASSUME RiskInv, [CalcNext]_calcvars, asked.of = "risk"
               PROVE  answer'.score >= answer.score
    BY DEF RiskRises
  <1>1. PICK t \in Tools, r \in RuleSets : answer = Assess(t, r)
    BY DEF RiskInv
  <1>2. answer.score \in 0..100
    BY <1>1, AssessedScores
  <1>3. CASE GrantFact
    <2>1. PICK tool \in Tools, rules \in RuleSets, fact \in OfferedFacts :
            /\ answer' = Assess(With(tool, fact), rules)
            /\ answer = Assess(tool, rules)
      BY <1>3, FactGranted
    <2>2. rules \in Seq(OrganizationRules) /\ DistinctIds(rules)
      BY RuleSetTypes
    <2>3. Assess(tool, rules).score <= Assess(With(tool, fact), rules).score
      BY <2>2, AccessRaisesRisk
    <2>4. Assess(tool, rules).score \in 0..100 /\ Assess(With(tool, fact), rules).score \in 0..100
      BY AssessedScores
    <2>5. answer.score <= answer'.score
      BY <2>1, <2>3
    <2>6. answer.score \in 0..100 /\ answer'.score \in 0..100
      BY <2>1, <2>4
    <2> DEFINE x == answer.score
               y == answer'.score
    <2>7. x <= y /\ x \in 0..100 /\ y \in 0..100
      BY <2>5, <2>6
    <2> HIDE DEF x, y
    <2>8. y >= x
      BY <2>7
    <2> QED BY <2>8 DEF x, y
  <1>4. CASE UNCHANGED calcvars
    BY <1>2, <1>4 DEF calcvars
  <1>5. CASE AskRisk \/ AskRoi \/ AskMatch \/ AskRoot \/ AskReport
    <2>1. asked = NoQuestion
      BY <1>5 DEF AskRisk, AskRoi, AskMatch, AskRoot, AskReport
    <2> QED BY <2>1 DEF NoQuestion
  <1>6. CASE ClaimMore \/ AppendEvent \/ ReportMore
    BY <1>6 DEF ClaimMore, AppendEvent, ReportMore
  <1> QED BY <1>3, <1>4, <1>5, <1>6 DEF CalcNext

\* A rule of the pack is evaluated at one place among the first eleven, whatever
\* rules an organization has, and no place among them has another rule.
LEMMA PackFirst ==
  ASSUME NEW rules \in Seq(OrganizationRules), DistinctIds(rules)
  PROVE  LET all == AccountingRiskPack \o rules
         IN  /\ 11 \in Nat /\ Len(all) \in Nat /\ Len(all) >= 11
             /\ \A i \in 1..11 :
                  /\ Place(all, i) = Place(AccountingRiskPack, i) /\ Place(all, i) \in 1..11
                  /\ Ordered(all)[Place(all, i)] = AccountingRiskPack[i]
             /\ \A k \in 1..11 : \E i \in 1..11 :
                  Place(all, i) = k /\ Ordered(all)[k] = AccountingRiskPack[i]
  <1> DEFINE p == AccountingRiskPack
             all == p \o rules
             R == {all[i] : i \in 1..Len(all)}
             Q == {p[i] : i \in 1..11}
  <1>1. /\ all \in Seq(R) /\ Len(all) = 11 + Len(rules) /\ Len(rules) \in Nat
        /\ \A r \in R : SoundRule(r)
        /\ Distinct(all)
        /\ \A i \in 1..11 : all[i] = p[i] /\ all[i].layer = Industry
        /\ \A i \in 12..Len(all) : all[i].layer = Organization
    BY RulesAreSound
  <1>2. Len(p) = 11 /\ p \in Seq(Q)
    BY PackRules
  <1>3. /\ \A i \in 1..11 : SoundRule(p[i]) /\ p[i].layer = Industry
        /\ \A i, j \in 1..11 : p[i].id = p[j].id => i = j
    BY PackIsSound
  <1> HIDE DEF all, p, R
  <1>4. Distinct(p) /\ DOMAIN p = 1..11
    BY <1>2, <1>3 DEF Distinct
  <1>5. DOMAIN all = 1..Len(all) /\ Len(all) \in Nat /\ Len(all) >= 11
        /\ \A i \in 1..11 : i \in 1..Len(all)
    BY <1>1
  <1>6. \A i \in 1..11 : Place(all, i) = Place(p, i)
    <2> TAKE i \in 1..11
    <2>1. ASSUME NEW j \in 1..Len(all), Before(all[j], all[i]) PROVE j \in 1..11
      <3>1. CASE j \in 12..Len(all)
        <4>1. all[j].layer = 3 /\ all[i].layer = 2
          BY <1>1, <3>1 DEF Organization, Industry
        <4> QED BY <2>1, <4>1 DEF Before
      <3> QED BY <1>1, <3>1
    <2>2. \A j \in 1..11 : Before(all[j], all[i]) <=> Before(p[j], p[i])
      BY <1>1
    <2>3. {j \in 1..Len(all) : Before(all[j], all[i])} = {j \in 1..11 : Before(p[j], p[i])}
      BY <1>5, <2>1, <2>2
    <2> QED BY <1>4, <1>5, <2>3 DEF Place
  <1>7. \A r \in R : r.layer \in Nat /\ r.id \in Nat
    BY <1>1 DEF SoundRule
  <1>8. \A r \in Q : r.layer \in Nat /\ r.id \in Nat
    BY <1>3 DEF SoundRule
  <1>9. \A i \in 1..Len(all) :
          Place(all, i) \in 1..Len(all) /\ Ordered(all)[Place(all, i)] = all[i]
    BY <1>1, <1>5, <1>7, OrderedPlaces
  <1> HIDE DEF Q
  <1>10. /\ \A i \in 1..11 : Place(p, i) \in 1..11
         /\ \A k \in 1..11 : \E i \in 1..11 : Place(p, i) = k
    BY <1>2, <1>4, <1>8, OrderedPlaces
  <1>11. \A i \in 1..11 :
           Place(all, i) = Place(p, i) /\ Place(all, i) \in 1..11
           /\ Ordered(all)[Place(all, i)] = p[i]
    BY <1>1, <1>5, <1>6, <1>9, <1>10
  <1>12. \A k \in 1..11 : \E i \in 1..11 : Place(all, i) = k /\ Ordered(all)[k] = p[i]
    BY <1>10, <1>11
  <1> QED BY <1>5, <1>11, <1>12 DEF p, all

\* The results of the rules of the pack, by their places.
LEMMA PackResults ==
  ASSUME NEW tool, NEW rules \in Seq(OrganizationRules), DistinctIds(rules)
  PROVE  LET results == Evaluate(tool, rules)
             all == AccountingRiskPack \o rules
             c == InventoryPolicyContext(tool)
         IN  /\ Len(results) = Len(all) /\ Len(all) \in Nat /\ Len(all) >= 11
             /\ \A i \in 1..11 :
                  /\ Place(AccountingRiskPack, i) \in 1..Len(all)
                  /\ results[Place(AccountingRiskPack, i)] = EvaluateRule(AccountingRiskPack[i], c)
             /\ \A k \in 1..11 : \E i \in 1..11 :
                  /\ k = Place(AccountingRiskPack, i)
                  /\ results[k] = EvaluateRule(AccountingRiskPack[i], c)
  <1> DEFINE p == AccountingRiskPack
             all == p \o rules
             c == InventoryPolicyContext(tool)
             results == Evaluate(tool, rules)
             n == Len(all)
  <1>1. /\ n \in Nat /\ n >= 11
        /\ \A i \in 1..11 :
             /\ Place(all, i) = Place(p, i) /\ Place(all, i) \in 1..11
             /\ Ordered(all)[Place(all, i)] = p[i]
        /\ \A k \in 1..11 : \E i \in 1..11 : Place(all, i) = k /\ Ordered(all)[k] = p[i]
    BY PackFirst
  <1>2. /\ Len(results) = n
        /\ \A k \in 1..n : results[k] = EvaluateRule(Ordered(all)[k], c)
    BY AllEvaluated
  <1> HIDE DEF p, all, c, results, n
  <1>3. \A k \in 1..11 : k \in 1..n
    BY <1>1
  <1>4. \A i \in 1..11 : Place(p, i) \in 1..n /\ results[Place(p, i)] = EvaluateRule(p[i], c)
    BY <1>1, <1>2, <1>3
  <1>5. \A k \in 1..11 : \E i \in 1..11 : k = Place(p, i) /\ results[k] = EvaluateRule(p[i], c)
    <2> TAKE k \in 1..11
    <2>1. PICK i \in 1..11 : Place(all, i) = k
      BY <1>1
    <2>2. Place(p, i) = k
      BY <1>1, <2>1
    <2> QED BY <1>4, <2>2
  <1> QED BY <1>1, <1>2, <1>4, <1>5 DEF p, all, c, results, n

\* The rules of an organization only add to what the pack says.
LEMMA RulesAddRisk ==
  ASSUME NEW tool, NEW rules \in Seq(OrganizationRules), DistinctIds(rules)
  PROVE  Assess(tool, <<>>).score <= Assess(tool, rules).score
  <1> DEFINE p == AccountingRiskPack
             c == InventoryPolicyContext(tool)
             A == Evaluate(tool, <<>>)
             B == Evaluate(tool, rules)
  <1>1. <<>> \in Seq(OrganizationRules) /\ DistinctIds(<<>>)
    BY DEF DistinctIds
  <1>2. Results(A) /\ Results(B)
    BY <1>1, AllEvaluated
  <1>3. Len(p \o <<>>) = 11
    <2>1. Len(p) = 11
      BY PackRules
    <2>2. p \in Seq({p[1], p[2], p[3], p[4], p[5], p[6], p[7], p[8], p[9], p[10], p[11]})
      BY PackRules
    <2> HIDE DEF p
    <2> QED BY <2>1, <2>2
  <1>4. /\ Len(A) = 11
        /\ \A k \in 1..11 : \E i \in 1..11 : k = Place(p, i) /\ A[k] = EvaluateRule(p[i], c)
    BY <1>1, <1>3, PackResults
  <1>5. /\ Len(B) \in Nat /\ Len(B) >= 11
        /\ \A i \in 1..11 : B[Place(p, i)] = EvaluateRule(p[i], c)
    BY PackResults
  <1> HIDE DEF A, B, p, c
  <1>6. Len(A) <= Len(B) /\ \A k \in 1..Len(A) : A[k].effects = <<>> \/ A[k].effects = B[k].effects
    BY <1>4, <1>5
  <1>7. PolicyRisk(A).score <= PolicyRisk(B).score
    BY <1>2, <1>6, ScoreGrows
  <1> QED BY <1>7 DEF Assess, A, B

\* Unchecked says that one of two rules of the pack matches.
LEMMA UncheckedMatches ==
  ASSUME NEW tool
  PROVE  Unchecked(tool) <=>
           \/ Matches(PayrollRules[2], InventoryPolicyContext(tool))
           \/ Matches(BankRules[2], InventoryPolicyContext(tool))
  <1> DEFINE c == InventoryPolicyContext(tool)
  <1>1. /\ PayrollRules[2].conditions = <<Data("payroll"), Can("external_transfer"), NoApproval>>
        /\ BankRules[2].conditions = <<Banking, Can("financial_transaction"), NoApproval>>
    BY PackFields
  <1>2. /\ Holds(Data("payroll"), c) <=> "payroll" \in tool.categories
        /\ Holds(Can("external_transfer"), c) <=> "external_transfer" \in tool.capabilities
        /\ Holds(Can("financial_transaction"), c) <=> "financial_transaction" \in tool.capabilities
        /\ Holds(Banking, c) <=> "banking" \in tool.systems
        /\ Holds(NoApproval, c) <=> ~tool.approval
    BY DEF Holds, Data, Can, Banking, NoApproval, Condition, InventoryPolicyContext
  <1> HIDE DEF c
  <1>3. ASSUME NEW rule, NEW x, NEW y, NEW z, rule.conditions = <<x, y, z>>
        PROVE  Matches(rule, c) <=> Holds(x, c) /\ Holds(y, c) /\ Holds(z, c)
    BY <1>3 DEF Matches
  <1>4. /\ Matches(PayrollRules[2], c) <=>
             Holds(Data("payroll"), c) /\ Holds(Can("external_transfer"), c) /\ Holds(NoApproval, c)
        /\ Matches(BankRules[2], c) <=>
             Holds(Banking, c) /\ Holds(Can("financial_transaction"), c) /\ Holds(NoApproval, c)
    BY <1>1, <1>3
  <1>5. Unchecked(tool) <=> Matches(PayrollRules[2], c) \/ Matches(BankRules[2], c)
    BY <1>2, <1>4 DEF Unchecked
  <1> QED BY <1>5 DEF c

\* The floors of a result are those of its rule, if the rule matches.
LEMMA FloorsOfResult ==
  ASSUME NEW rule, NEW c
  PROVE  /\ Matches(rule, c) => FloorsOf(EvaluateRule(rule, c)) = FloorsOf(rule)
         /\ ~Matches(rule, c) => FloorsOf(EvaluateRule(rule, c)) = {}
  <1>1. ASSUME Matches(rule, c) PROVE FloorsOf(EvaluateRule(rule, c)) = FloorsOf(rule)
    <2>1. EvaluateRule(rule, c).effects = rule.effects
      BY <1>1 DEF EvaluateRule
    <2> QED BY <2>1 DEF FloorsOf
  <1>2. ASSUME ~Matches(rule, c) PROVE FloorsOf(EvaluateRule(rule, c)) = {}
    <2>1. EvaluateRule(rule, c).effects = <<>>
      BY <1>2 DEF EvaluateRule
    <2> QED BY <2>1 DEF FloorsOf, Range
  <1> QED BY <1>1, <1>2

\* Whatever else is known, payroll or payments without an approval are Critical.
LEMMA UncheckedIsCritical ==
  ASSUME NEW tool, Unchecked(tool), NEW rules \in RuleSets
  PROVE  Assess(tool, rules).band = "Critical"
  <1> DEFINE p == AccountingRiskPack
             c == InventoryPolicyContext(tool)
             results == Evaluate(tool, rules)
             risk == Assess(tool, rules)
  <1>1. rules \in Seq(OrganizationRules) /\ DistinctIds(rules)
    BY RuleSetTypes
  <1>2. /\ Len(results) \in Nat
        /\ \A i \in 1..11 :
             /\ Place(p, i) \in 1..Len(results)
             /\ results[Place(p, i)] = EvaluateRule(p[i], c)
    BY <1>1, PackResults
  <1>3. Results(results)
    BY <1>1, AllEvaluated
  <1>4. Scores(results, risk)
    BY AssessedScores
  <1>5. \E i \in 1..11 : Matches(p[i], c) /\ FloorsOf(p[i]) = {"Critical"}
    <2>1. p[2] = PayrollRules[2] /\ p[4] = BankRules[2]
      BY PackRules
    <2>2. FloorsOf(PayrollRules[2]) = {"Critical"} /\ FloorsOf(BankRules[2]) = {"Critical"}
      BY PackAdds DEF Adds
    <2>3. Matches(PayrollRules[2], c) \/ Matches(BankRules[2], c)
      BY UncheckedMatches
    <2> HIDE DEF p, c
    <2>4. 2 \in 1..11 /\ 4 \in 1..11
      OBVIOUS
    <2> QED BY <2>1, <2>2, <2>3, <2>4
  <1> HIDE DEF p, c, results, risk
  <1>6. PICK i \in 1..11 : Matches(p[i], c) /\ FloorsOf(p[i]) = {"Critical"}
    BY <1>5
  <1>7. FloorsOf(results[Place(p, i)]) = {"Critical"}
    BY <1>2, <1>6, FloorsOfResult
  <1>8. Place(p, i) \in DOMAIN results
    BY <1>2, <1>3 DEF Results
  <1>9. "Critical" \in Floors(results)
    BY <1>7, <1>8 DEF Floors
  <1>10. risk.score >= BandMinimum["Critical"]
    BY <1>4, <1>9 DEF Scores
  <1>11. BandMinimum["Critical"] = 75
    BY DEF BandMinimum
  <1>12. risk.band = "Critical" <=> risk.score >= 75
    BY <1>4 DEF Scores
  <1> QED BY <1>10, <1>11, <1>12 DEF risk

\* Six dimensions have one rule of the pack each.
PointsOf(d) ==
  CASE d = "system_privilege" -> 3 [] d = "human_oversight" -> 4 [] d = "financial_impact" -> 4
    [] d = "external_connectivity" -> 7 [] d = "autonomy" -> 8 [] d = "regulatory_relevance" -> 10

\* the six dimensions
Single ==
  {"system_privilege", "human_oversight", "financial_impact", "external_connectivity",
   "autonomy", "regulatory_relevance"}

\* In such a dimension one rule of the pack adds points, 40 at most.
LEMMA OnePackRule ==
  ASSUME NEW d \in Single, NEW i \in 1..11
  PROVE  /\ RawPoints(AccountingRiskPack[i].effects, d) \in 0..40
         /\ i # PointsOf(d) => RawPoints(AccountingRiskPack[i].effects, d) = 0
  <1> DEFINE p == AccountingRiskPack
             g(n) == RawPoints(p[n].effects, d)
  <1>1. /\ p[1] = PayrollRules[1] /\ p[2] = PayrollRules[2] /\ p[3] = BankRules[1]
        /\ p[4] = BankRules[2] /\ p[5] = ClientDataRules[1] /\ p[6] = ClientDataRules[2]
        /\ p[7] = ClientDataRules[3] /\ p[8] = AutonomyRules[1] /\ p[9] = ReviewRules[1]
        /\ p[10] = ReviewRules[2] /\ p[11] = ReviewRules[3]
    BY PackRules
  <1> HIDE DEF p
  <1>2. /\ Adds(p[1], {"data_sensitivity"}, 40, {"High"})
        /\ Adds(p[2], {}, 40, {"Critical"})
        /\ Adds(p[3], {"system_privilege"}, 40, {"High"})
        /\ Adds(p[4], {"financial_impact", "human_oversight"}, 40, {"Critical"})
        /\ Adds(p[5], {"data_sensitivity"}, 40, {"High"})
        /\ Adds(p[6], {"data_sensitivity"}, 40, {})
        /\ Adds(p[7], {"external_connectivity"}, 40, {})
        /\ Adds(p[8], {"autonomy"}, 40, {"High"})
        /\ Adds(p[9], {"vendor_risk"}, 40, {})
        /\ Adds(p[10], {"regulatory_relevance"}, 40, {})
        /\ Adds(p[11], {"vendor_risk"}, 40, {})
    BY <1>1, PackAdds
  <1>3. /\ g(1) \in 0..40 /\ g(2) \in 0..40 /\ g(3) \in 0..40 /\ g(4) \in 0..40 /\ g(5) \in 0..40
        /\ g(6) \in 0..40 /\ g(7) \in 0..40 /\ g(8) \in 0..40 /\ g(9) \in 0..40
        /\ g(10) \in 0..40 /\ g(11) \in 0..40
    BY <1>2 DEF Adds
  <1>4. /\ d \notin {"data_sensitivity"} /\ d \notin {"vendor_risk"} /\ d \notin {}
        /\ (PointsOf(d) # 3 => d \notin {"system_privilege"})
        /\ (PointsOf(d) # 4 => d \notin {"financial_impact", "human_oversight"})
        /\ (PointsOf(d) # 7 => d \notin {"external_connectivity"})
        /\ (PointsOf(d) # 8 => d \notin {"autonomy"})
        /\ (PointsOf(d) # 10 => d \notin {"regulatory_relevance"})
    BY DEF Single, PointsOf
  <1>5. /\ g(1) = 0 /\ g(2) = 0 /\ (PointsOf(d) # 3 => g(3) = 0) /\ (PointsOf(d) # 4 => g(4) = 0)
        /\ g(5) = 0 /\ g(6) = 0 /\ (PointsOf(d) # 7 => g(7) = 0) /\ (PointsOf(d) # 8 => g(8) = 0)
        /\ g(9) = 0 /\ (PointsOf(d) # 10 => g(10) = 0) /\ g(11) = 0
    BY <1>2, <1>4 DEF Adds
  <1>6. i \in {1, 2, 3, 4, 5, 6, 7, 8, 9, 10, 11}
    OBVIOUS
  <1> HIDE DEF g
  <1>7. g(i) \in 0..40 /\ (i # PointsOf(d) => g(i) = 0)
    BY <1>3, <1>5, <1>6
  <1> QED BY <1>7 DEF g, p

\* With the pack alone a dimension of one rule has 40 points at most.
LEMMA FewPoints ==
  ASSUME NEW tool, NEW d \in Single
  PROVE  LET results == Evaluate(tool, <<>>)
         IN  RawPoints(Effects(results), d) \in 0..40
  <1> DEFINE p == AccountingRiskPack
             c == InventoryPolicyContext(tool)
             results == Evaluate(tool, <<>>)
             points == [k \in 1..Len(results) |-> RawPoints(results[k].effects, d)]
  <1>1. <<>> \in Seq(OrganizationRules) /\ DistinctIds(<<>>)
    BY DEF DistinctIds
  <1>2. Results(results)
    BY <1>1, AllEvaluated
  <1>3. Len(results) = 11
    <2>1. p \in Seq({p[1], p[2], p[3], p[4], p[5], p[6], p[7], p[8], p[9], p[10], p[11]})
          /\ Len(p) = 11
      BY PackRules
    <2>2. Len(p \o <<>>) = 11
      <3> HIDE DEF p
      <3> QED BY <2>1
    <2> QED BY <1>1, <2>2, PackResults
  <1>4. \A k \in 1..11 : \E i \in 1..11 :
          k = Place(p, i) /\ results[k] = EvaluateRule(p[i], c)
    BY <1>1, PackResults
  <1>5. \A i \in 1..11 :
          /\ RawPoints(p[i].effects, d) \in 0..40
          /\ i # PointsOf(d) => RawPoints(p[i].effects, d) = 0
    BY OnePackRule
  <1>6. points \in Seq(Nat) /\ RawPoints(Effects(results), d) = Total(points)
    BY <1>2, PointsOfResults DEF Results
  <1> HIDE DEF p, c, results
  <1>7. Len(points) = 11 /\ \A k \in 1..11 : points[k] = RawPoints(results[k].effects, d)
    BY <1>3
  <1>8. ASSUME NEW k \in 1..11
        PROVE  points[k] \in 0..40 /\ (points[k] > 0 => k = Place(p, PointsOf(d)))
    <2>1. PICK i \in 1..11 : k = Place(p, i) /\ results[k] = EvaluateRule(p[i], c)
      BY <1>4
    <2>2. results[k].effects = <<>> \/ results[k].effects = p[i].effects
      BY <2>1 DEF EvaluateRule
    <2>3. points[k] = RawPoints(results[k].effects, d)
      BY <1>7
    <2> HIDE DEF points
    <2>4. points[k] = 0 \/ points[k] = RawPoints(p[i].effects, d)
      BY <2>2, <2>3, NoPoints
    <2>5. CASE i = PointsOf(d)
      <3>1. points[k] \in 0..40
        BY <1>5, <2>4
      <3> QED BY <2>1, <2>5, <3>1
    <2>6. CASE i # PointsOf(d)
      <3>1. points[k] = 0
        BY <1>5, <2>4, <2>6
      <3> QED BY <3>1
    <2> QED BY <2>5, <2>6
  <1> HIDE DEF points
  <1>9. Total(points) <= 40
    <2>1. \A k \in 1..Len(points) : points[k] <= 40
      BY <1>7, <1>8
    <2>2. \A k, l \in 1..Len(points) : points[k] > 0 /\ points[l] > 0 => k = l
      BY <1>7, <1>8
    <2>3. 40 \in Nat
      OBVIOUS
    <2> QED BY <1>6, <2>1, <2>2, <2>3, TotalOfOne
  <1>10. Total(points) \in Nat
    BY <1>6, TotalOfBoth
  <1>11. RawPoints(Effects(results), d) \in 0..40
    <2> DEFINE t == Total(points)
    <2>1. t \in 0..40
      <3>1. t \in Nat /\ t <= 40
        BY <1>9, <1>10
      <3> HIDE DEF t
      <3> QED BY <3>1
    <2> QED BY <1>6, <2>1
  <1> QED BY <1>11 DEF results

\* as few points as the pack alone gives
Few(effects) ==
  /\ \A d \in Dimensions : RawPoints(effects, d) \in Nat
  /\ \A d \in Single : RawPoints(effects, d) \in 0..40

\* less than 75 points, by far
Light == 0..5500

\* Such points weigh too little to be Critical by themselves.
LEMMA FewWeighted ==
  ASSUME NEW effects, Few(effects)
  PROVE  RawWeighted(effects) \in Light
  <1>1. \A d \in Dimensions : RawPoints(effects, d) \in Nat
    BY DEF Few
  <1>2. \A d \in Single : RawPoints(effects, d) \in 0..40
    BY DEF Few
  <1> DEFINE D(d) == DimensionScore(effects, d)
  <1>3. /\ \A d \in Dimensions :
             /\ D(d) \in 0..100
             /\ RawPoints(effects, d) <= 100 => D(d) = RawPoints(effects, d)
        /\ RawWeighted(effects) =
             20 * D("data_sensitivity") + 20 * D("system_privilege") + 15 * D("autonomy")
             + 15 * D("external_connectivity") + 10 * D("human_oversight")
             + 10 * D("financial_impact") + 5 * D("regulatory_relevance")
             + 5 * D("vendor_risk")
    BY <1>1, WeightedSum
  <1> HIDE DEF D
  <1>4. \A d \in Single : D(d) \in 0..40
    <2> TAKE d \in Single
    <2>1. d \in Dimensions
      BY DimensionNames DEF Single
    <2>2. RawPoints(effects, d) \in 0..40
      BY <1>2
    <2>3. RawPoints(effects, d) <= 100
      BY <2>2
    <2> QED BY <1>3, <2>1, <2>2, <2>3
  <1> DEFINE a == D("data_sensitivity")
             b == D("system_privilege")
             c == D("autonomy")
             d == D("external_connectivity")
             e == D("human_oversight")
             f == D("financial_impact")
             g == D("regulatory_relevance")
             h == D("vendor_risk")
             x == 20 * a + 20 * b + 15 * c + 15 * d
             y == 10 * e + 10 * f + 5 * g + 5 * h
  <1>5. a \in 0..100 /\ h \in 0..100
    BY <1>3, DimensionNames
  <1>6. b \in 0..40 /\ c \in 0..40 /\ d \in 0..40 /\ e \in 0..40 /\ f \in 0..40 /\ g \in 0..40
    BY <1>4 DEF Single
  <1>7. RawWeighted(effects) = x + 10 * e + 10 * f + 5 * g + 5 * h
    BY <1>3
  <1> HIDE DEF a, b, c, d, e, f, g, h
  <1>8. x \in Nat /\ x <= 4000
    <2>1. a \in 0..100 /\ b \in 0..40 /\ c \in 0..40 /\ d \in 0..40
      BY <1>5, <1>6
    <2> QED BY <2>1
  <1>9. y \in Nat /\ y <= 1500
    <2>1. e \in 0..40 /\ f \in 0..40 /\ g \in 0..40 /\ h \in 0..100
      BY <1>5, <1>6
    <2> QED BY <2>1
  <1>10. RawWeighted(effects) = x + y
    <2>1. e \in Nat /\ f \in Nat /\ g \in Nat /\ h \in Nat
      BY <1>5, <1>6
    <2> HIDE DEF x
    <2> QED BY <1>7, <1>8, <2>1
  <1> HIDE DEF x, y
  <1> QED BY <1>8, <1>9, <1>10 DEF Light

\* With the pack alone nothing else is Critical.
LEMMA CriticalIsUnchecked ==
  ASSUME NEW tool, <<>> \in RuleSets, Assess(tool, <<>>).band = "Critical"
  PROVE  Unchecked(tool)
  <1> DEFINE p == AccountingRiskPack
             c == InventoryPolicyContext(tool)
             results == Evaluate(tool, <<>>)
             risk == Assess(tool, <<>>)
  <1>1. <<>> \in Seq(OrganizationRules) /\ DistinctIds(<<>>)
    BY RuleSetTypes
  <1>2. Scores(results, risk)
    BY AssessedScores
  <1>3. Results(results)
    BY <1>1, AllEvaluated
  <1>4. /\ Len(results) = Len(p \o <<>>)
        /\ \A k \in 1..11 : \E i \in 1..11 :
             k = Place(p, i) /\ results[k] = EvaluateRule(p[i], c)
    BY <1>1, PackResults
  <1>5. Len(p \o <<>>) = 11
    <2>1. p \in Seq({p[1], p[2], p[3], p[4], p[5], p[6], p[7], p[8], p[9], p[10], p[11]})
          /\ Len(p) = 11
      BY PackRules
    <2> HIDE DEF p
    <2> QED BY <2>1
  <1> DEFINE all == Effects(results)
  <1>6. \A d \in Single : RawPoints(all, d) \in 0..40
    BY FewPoints
  <1>7. risk.band = "Critical"
    OBVIOUS
  <1> HIDE DEF p, c, results, risk
  <1>8. \A d \in Dimensions : RawPoints(all, d) \in Nat
    BY <1>2 DEF Scores
  <1>9. RawWeighted(all) \in Light
    <2> HIDE DEF all
    <2>1. Few(all)
      BY <1>6, <1>8 DEF Few
    <2> QED BY <2>1, FewWeighted, Zenon
  <1>10. risk.weighted \in Light
    <2>1. risk.weighted = RawWeighted(Effects(results))
      BY <1>2 DEF Scores
    <2> QED BY <1>9, <2>1
  <1>11. Rounded(risk.weighted) <= 55
    <2> DEFINE w == risk.weighted
    <2>1. w \in Light
      BY <1>10
    <2> HIDE DEF w
    <2>2. Rounded(w) <= 55
      BY <2>1 DEF Rounded, Light
    <2> QED BY <2>2 DEF w
  <1>12. Rounded(risk.weighted) \in 0..100 /\ risk.score \in 0..100 /\ risk.score >= 75
    <2>1. Rounded(risk.weighted) \in 0..100
      BY <1>2 DEF Scores
    <2>2. risk.score \in 0..100
      BY <1>2 DEF Scores
    <2>3. risk.band = "Critical" <=> risk.score >= 75
      BY <1>2 DEF Scores
    <2> QED BY <1>7, <2>1, <2>2, <2>3
  <1>13. PICK b \in Floors(results) : risk.score = BandMinimum[b]
    <2>1. risk.score = Rounded(risk.weighted)
          \/ \E b \in Floors(results) : risk.score = BandMinimum[b]
      BY <1>2 DEF Scores
    <2>2. risk.score # Rounded(risk.weighted)
      <3> DEFINE r == Rounded(risk.weighted)
                 s == risk.score
      <3>1. r \in 0..100 /\ r <= 55 /\ s \in 0..100 /\ s >= 75
        BY <1>11, <1>12
      <3> HIDE DEF r, s
      <3>2. s # r
        BY <3>1
      <3> QED BY <3>2 DEF r, s
    <2> QED BY <2>1, <2>2
  <1>14. b = "Critical"
    <2>1. b \in Bands
      BY <1>2 DEF Scores
    <2>2. BandMinimum["Low"] = 0 /\ BandMinimum["Moderate"] = 25 /\ BandMinimum["High"] = 50
      BY DEF BandMinimum
    <2>3. risk.score # 0 /\ risk.score # 25 /\ risk.score # 50
      BY <1>12
    <2> QED BY <1>13, <2>1, <2>2, <2>3 DEF Bands
  <1>15. PICK k \in 1..11 : "Critical" \in FloorsOf(results[k])
    <2>1. DOMAIN results = 1..11
      BY <1>3, <1>4, <1>5 DEF Results
    <2> QED BY <1>13, <1>14, <2>1 DEF Floors
  <1>16. PICK i \in 1..11 : results[k] = EvaluateRule(p[i], c)
    BY <1>4
  <1>17. Matches(p[i], c) /\ "Critical" \in FloorsOf(p[i])
    BY <1>15, <1>16, FloorsOfResult
  <1>18. p[i] = PayrollRules[2] \/ p[i] = BankRules[2]
    <2>1. /\ p[1] = PayrollRules[1] /\ p[2] = PayrollRules[2] /\ p[3] = BankRules[1]
          /\ p[4] = BankRules[2] /\ p[5] = ClientDataRules[1] /\ p[6] = ClientDataRules[2]
          /\ p[7] = ClientDataRules[3] /\ p[8] = AutonomyRules[1] /\ p[9] = ReviewRules[1]
          /\ p[10] = ReviewRules[2] /\ p[11] = ReviewRules[3]
      BY PackRules DEF p
    <2>2. /\ FloorsOf(p[1]) = {"High"} /\ FloorsOf(p[3]) = {"High"} /\ FloorsOf(p[5]) = {"High"}
          /\ FloorsOf(p[6]) = {} /\ FloorsOf(p[7]) = {} /\ FloorsOf(p[8]) = {"High"}
          /\ FloorsOf(p[9]) = {} /\ FloorsOf(p[10]) = {} /\ FloorsOf(p[11]) = {}
      BY <2>1, PackAdds DEF Adds
    <2>3. i \in {1, 2, 3, 4, 5, 6, 7, 8, 9, 10, 11}
      OBVIOUS
    <2> QED BY <1>17, <2>1, <2>2, <2>3
  <1>19. Matches(PayrollRules[2], c) \/ Matches(BankRules[2], c)
    BY <1>17, <1>18
  <1> QED BY <1>19, UncheckedMatches DEF c

\* All that is said of a risk holds of the answer to any tool and any rules.
LEMMA AnsweredIsSound == RiskInv => RiskIsSound
  <1> SUFFICES ASSUME RiskInv, asked.of = "risk" PROVE RiskIsSound
    BY DEF RiskIsSound
  <1>1. PICK tool \in Tools, rules \in RuleSets :
          /\ asked = [of |-> "risk", tool |-> tool, rules |-> rules]
          /\ answer = Assess(tool, rules)
    BY DEF RiskInv
  <1>2. asked.tool = tool /\ asked.rules = rules
    BY <1>1
  <1> DEFINE results == Evaluate(tool, rules)
  <1>3. Scores(results, answer)
    BY <1>1, AssessedScores
  <1>4. Unchecked(tool) => answer.band = "Critical"
    BY <1>1, UncheckedIsCritical
  <1>5. rules = <<>> /\ answer.band = "Critical" => Unchecked(tool)
    BY <1>1, CriticalIsUnchecked
  <1>6. Assess(tool, <<>>).score <= answer.score
    <2>1. rules \in Seq(OrganizationRules) /\ DistinctIds(rules)
      BY RuleSetTypes
    <2> QED BY <1>1, <2>1, RulesAddRisk
  <1> HIDE DEF results
  <1>7. answer.score \in 0..100
    BY <1>3 DEF Scores
  <1>8. \A b \in Floors(results) : answer.score >= BandMinimum[b]
    BY <1>3 DEF Scores
  <1>9. \/ \E b \in Floors(results) : answer.score = BandMinimum[b]
        \/ 2 * (100 * answer.score - answer.weighted) \in -99..100
    <2>1. 2 * (100 * Rounded(answer.weighted) - answer.weighted) \in -99..100
      BY <1>3 DEF Scores
    <2>2. answer.score = Rounded(answer.weighted)
          \/ \E b \in Floors(results) : answer.score = BandMinimum[b]
      BY <1>3 DEF Scores
    <2> QED BY <2>1, <2>2
  <1>10. Evaluate(asked.tool, asked.rules) = results
    BY <1>2 DEF results
  <1> QED BY <1>2, <1>4, <1>5, <1>6, <1>7, <1>8, <1>9, <1>10 DEF RiskIsSound

-----------------------------------------------------------------------------
\* what HighestBit is on the numbers up to n
BitsUpTo(n) ==
  {f \in [0..n -> Nat] : \A k \in 0..n : f[k] = IF k <= 1 THEN 1 ELSE 2 * f[k \div 2]}

\* There are such functions, and where two are defined they agree.
LEMMA BitsExist == ASSUME NEW m \in Nat PROVE BitsUpTo(m) # {}
  <1> DEFINE D == {n \in 0..m : BitsUpTo(n) # {}}
  <1>1. 0 \in D
    <2>1. [k \in 0..0 |-> 1] \in BitsUpTo(0)
      BY DEF BitsUpTo
    <2> QED BY <2>1
  <1>2. ASSUME NEW n \in 0..(m - 1), n \in D PROVE n + 1 \in D
    <2>1. PICK f : f \in BitsUpTo(n)
      BY <1>2
    <2> DEFINE next == IF n + 1 <= 1 THEN 1 ELSE 2 * f[(n + 1) \div 2]
               g == [k \in 0..(n + 1) |-> IF k = n + 1 THEN next ELSE f[k]]
    <2>2. f \in [0..n -> Nat] /\ \A k \in 0..n : f[k] = IF k <= 1 THEN 1 ELSE 2 * f[k \div 2]
      BY <2>1 DEF BitsUpTo
    <2>3. n + 1 > 1 => (n + 1) \div 2 \in 0..n
      OBVIOUS
    <2>4. next \in Nat
      BY <2>2, <2>3
    <2>5. g \in [0..(n + 1) -> Nat]
      <3> HIDE DEF next
      <3> QED BY <2>2, <2>4
    <2>6. ASSUME NEW k \in 0..(n + 1)
          PROVE  g[k] = IF k <= 1 THEN 1 ELSE 2 * g[k \div 2]
      <3>1. k > 1 => k \div 2 \in 0..n /\ k \div 2 # n + 1
        OBVIOUS
      <3>2. k > 1 => g[k \div 2] = f[k \div 2]
        <4> HIDE DEF next
        <4> QED BY <3>1
      <3>3. CASE k = n + 1
        <4>1. g[k] = next
          BY <3>3
        <4> HIDE DEF g
        <4> QED BY <3>2, <3>3, <4>1
      <3>4. CASE k \in 0..n
        <4>1. g[k] = f[k]
          <5> HIDE DEF next
          <5> QED BY <3>4
        <4> HIDE DEF g
        <4> QED BY <2>2, <3>2, <3>4, <4>1
      <3> QED BY <3>3, <3>4
    <2> HIDE DEF g
    <2>7. g \in BitsUpTo(n + 1)
      BY <2>5, <2>6 DEF BitsUpTo
    <2> QED BY <2>7
  <1> HIDE DEF D
  <1>3. m \in D
    BY <1>1, <1>2, Inductive
  <1> QED BY <1>3 DEF D

LEMMA BitsAgree ==
  ASSUME NEW m \in Nat, NEW n \in Nat, NEW f \in BitsUpTo(m), NEW g \in BitsUpTo(n),
         NEW k \in Nat, k <= m, k <= n
  PROVE  f[k] = g[k]
  <1> DEFINE S == {x \in 1..k : f[x] = g[x]}
  <1>1. \A x \in 0..m : f[x] = IF x <= 1 THEN 1 ELSE 2 * f[x \div 2]
    BY DEF BitsUpTo
  <1>2. \A x \in 0..n : g[x] = IF x <= 1 THEN 1 ELSE 2 * g[x \div 2]
    BY DEF BitsUpTo
  <1>3. ASSUME NEW x \in 1..k, \A y \in 1..(x - 1) : y \in S PROVE x \in S
    <2>1. x \in 0..m /\ x \in 0..n
      OBVIOUS
    <2>2. CASE x <= 1
      BY <1>1, <1>2, <2>1, <2>2
    <2>3. CASE x > 1
      <3>1. x \div 2 \in 1..(x - 1)
        BY <2>3
      <3>2. f[x \div 2] = g[x \div 2]
        BY <1>3, <3>1
      <3> QED BY <1>1, <1>2, <2>1, <2>3, <3>2
    <2> QED BY <2>2, <2>3
  <1> HIDE DEF S
  <1>4. \A x \in 1..k : x \in S
    BY <1>3, StronglyInductive
  <1>5. CASE k = 0
    BY <1>1, <1>2, <1>5
  <1>6. CASE k # 0
    BY <1>4, <1>6 DEF S
  <1> QED BY <1>5, <1>6

\* HighestBit is what its definition says.
LEMMA HighestBitDoubles ==
  ASSUME NEW n \in Nat
  PROVE  HighestBit[n] = IF n <= 1 THEN 1 ELSE 2 * HighestBit[n \div 2]
  <1> DEFINE up(m) == CHOOSE f : f \in BitsUpTo(m)
             F == [m \in Nat |-> up(m)[m]]
  <1>1. ASSUME NEW m \in Nat PROVE up(m) \in BitsUpTo(m)
    BY BitsExist
  <1>2. ASSUME NEW m \in Nat PROVE F[m] = IF m <= 1 THEN 1 ELSE 2 * F[m \div 2]
    <2>1. m \div 2 \in Nat /\ m \div 2 <= m
      OBVIOUS
    <2>2. up(m) \in BitsUpTo(m) /\ up(m \div 2) \in BitsUpTo(m \div 2)
      BY <1>1, <2>1
    <2>3. up(m)[m] = IF m <= 1 THEN 1 ELSE 2 * up(m)[m \div 2]
      <3> HIDE DEF up
      <3> QED BY <2>2 DEF BitsUpTo
    <2>4. up(m)[m \div 2] = up(m \div 2)[m \div 2]
      <3> HIDE DEF up
      <3> QED BY <2>1, <2>2, BitsAgree
    <2>5. F[m] = up(m)[m] /\ F[m \div 2] = up(m \div 2)[m \div 2]
      <3> HIDE DEF up
      <3> QED BY <2>1
    <2> HIDE DEF up, F
    <2> QED BY <2>3, <2>4, <2>5
  <1>3. F = [m \in Nat |-> IF m <= 1 THEN 1 ELSE 2 * F[m \div 2]]
    <2>1. F = [m \in Nat |-> F[m]]
      OBVIOUS
    <2> HIDE DEF F
    <2> QED BY <1>2, <2>1
  <1>4. HighestBit = [m \in Nat |-> IF m <= 1 THEN 1 ELSE 2 * HighestBit[m \div 2]]
    <2> HIDE DEF F
    <2> QED BY <1>3 DEF HighestBit
  <1> QED BY <1>4

\* The split of a block: positive, and less than the block.
LEMMA SplitIsInside ==
  ASSUME NEW n \in Nat, n >= 2
  PROVE  LargestPowerOfTwoLessThan(n) \in 1..(n - 1)
  <1> DEFINE S == {k \in 1..(n - 1) : HighestBit[k] \in 1..k}
  <1>1. ASSUME NEW k \in 1..(n - 1), \A j \in 1..(k - 1) : j \in S PROVE k \in S
    <2>1. HighestBit[k] = IF k <= 1 THEN 1 ELSE 2 * HighestBit[k \div 2]
      BY HighestBitDoubles
    <2>2. CASE k <= 1
      BY <2>1, <2>2
    <2>3. CASE k > 1
      <3>1. k \div 2 \in 1..(k - 1) /\ 2 * (k \div 2) <= k
        BY <2>3
      <3>2. HighestBit[k \div 2] \in 1..(k \div 2)
        BY <1>1, <3>1
      <3> QED BY <2>1, <2>3, <3>1, <3>2
    <2> QED BY <2>2, <2>3
  <1> HIDE DEF S
  <1>2. n - 1 \in S
    BY <1>1, StronglyInductive
  <1> QED BY <1>2 DEF S, LargestPowerOfTwoLessThan

\* A block of three or more is split at twice the split of its pairs.
LEMMA SplitOfPairs ==
  ASSUME NEW n \in Nat, n >= 3
  PROVE  LargestPowerOfTwoLessThan(n) = 2 * LargestPowerOfTwoLessThan((n + 1) \div 2)
  <1>1. n - 1 \in Nat /\ n - 1 > 1 /\ (n - 1) \div 2 = ((n + 1) \div 2) - 1
    OBVIOUS
  <1>2. HighestBit[n - 1] = 2 * HighestBit[(n - 1) \div 2]
    BY <1>1, HighestBitDoubles
  <1> QED BY <1>1, <1>2 DEF LargestPowerOfTwoLessThan

-----------------------------------------------------------------------------
\* what the roots of the segments of s are
RootOf(s, root, n, i) ==
  IF n = 1 THEN s[i]
  ELSE HashNode(root[LargestPowerOfTwoLessThan(n)][i],
                root[n - LargestPowerOfTwoLessThan(n)][i + LargestPowerOfTwoLessThan(n)])

\* f are the roots of the segments of s of up to m leaves
AreRoots(s, m, f) ==
  f = [n \in 1..m |-> [i \in 1..(Len(s) - n + 1) |-> RootOf(s, f, n, i)]]

\* The roots of all segments exist, and the last is that of the block.
LEMMA RootsExist ==
  ASSUME NEW s, Len(s) \in Nat \ {0}
  PROVE  \E root : AreRoots(s, Len(s), root) /\ MerkleRootFromHashes(s) = root[Len(s)][1]
  <1> DEFINE L == Len(s)
             D == {m \in 0..L : \E f : AreRoots(s, m, f)}
             p(n) == LargestPowerOfTwoLessThan(n)
  <1>1. 0 \in D
    <2> DEFINE f == [n \in 1..0 |-> [i \in 1..(Len(s) - n + 1) |-> 0]]
    <2>1. AreRoots(s, 0, f)
      BY DEF AreRoots
    <2> QED BY <2>1
  <1>2. ASSUME NEW m \in 0..(L - 1), m \in D PROVE m + 1 \in D
    <2>1. PICK f : AreRoots(s, m, f)
      BY <1>2
    <2> DEFINE row(n) == [i \in 1..(L - n + 1) |-> RootOf(s, f, n, i)]
               g == [n \in 1..(m + 1) |-> row(n)]
    <2>2. ASSUME NEW n \in 1..m PROVE g[n] = f[n]
      <3>1. f[n] = row(n)
        BY <2>1 DEF AreRoots
      <3> HIDE DEF row
      <3> QED BY <3>1
    <2>3. ASSUME NEW n \in 1..(m + 1), NEW i PROVE RootOf(s, g, n, i) = RootOf(s, f, n, i)
      <3>1. CASE n = 1
        BY <3>1 DEF RootOf
      <3>2. CASE n # 1
        <4>1. p(n) \in 1..m /\ n - p(n) \in 1..m
          <5>1. p(n) \in 1..(n - 1)
            BY <3>2, SplitIsInside
          <5> HIDE DEF p
          <5> QED BY <5>1
        <4>2. g[p(n)] = f[p(n)] /\ g[n - p(n)] = f[n - p(n)]
          <5> HIDE DEF p, g
          <5> QED BY <2>2, <4>1
        <4> HIDE DEF g
        <4> QED BY <3>2, <4>2 DEF RootOf
      <3> QED BY <3>1, <3>2
    <2>4. g = [n \in 1..(m + 1) |-> [i \in 1..(L - n + 1) |-> RootOf(s, g, n, i)]]
      <3>1. \A n \in 1..(m + 1) : row(n) = [i \in 1..(L - n + 1) |-> RootOf(s, g, n, i)]
        <4> HIDE DEF g
        <4> QED BY <2>3
      <3> DEFINE mine(n) == [i \in 1..(L - n + 1) |-> RootOf(s, g, n, i)]
      <3>2. \A n \in 1..(m + 1) : row(n) = mine(n)
        BY <3>1
      <3>3. [n \in 1..(m + 1) |-> row(n)] = [n \in 1..(m + 1) |-> mine(n)]
        <4> HIDE DEF row, mine
        <4> QED BY <3>2
      <3> QED BY <3>3
    <2>5. AreRoots(s, m + 1, g)
      <3> HIDE DEF g
      <3> QED BY <2>4 DEF AreRoots
    <2> HIDE DEF g
    <2> QED BY <2>5
  <1> DEFINE body(f) == [n \in 1..L |-> LET split == p(n)
                                        IN  [i \in 1..(L - n + 1) |->
                                              IF n = 1 THEN s[i]
                                              ELSE HashNode(f[split][i], f[n - split][i + split])]]
             root == CHOOSE f : f = body(f)
  <1>3. \A f : AreRoots(s, L, f) <=> f = body(f)
    BY DEF AreRoots, RootOf
  <1>4. L \in D
    <2>1. L \in Nat /\ L \in 0..L
      OBVIOUS
    <2> HIDE DEF D, L
    <2> QED BY <1>1, <1>2, <2>1, Inductive
  <1>5. root = body(root)
    <2> HIDE DEF body
    <2> QED BY <1>3, <1>4
  <1>6. MerkleRootFromHashes(s) = root[L][1]
    BY DEF MerkleRootFromHashes
  <1> HIDE DEF body, root
  <1> QED BY <1>3, <1>5, <1>6

\* A segment of one leaf has that leaf for its root.
LEMMA RootOfLeaf ==
  ASSUME NEW s, NEW root, AreRoots(s, Len(s), root), Len(s) \in Nat, NEW i \in 1..Len(s)
  PROVE  root[1][i] = s[i]
  <1>1. 1 \in 1..Len(s) /\ i \in 1..(Len(s) - 1 + 1)
    OBVIOUS
  <1>2. root[1] = [j \in 1..(Len(s) - 1 + 1) |-> RootOf(s, root, 1, j)]
    BY <1>1 DEF AreRoots
  <1>3. root[1][i] = RootOf(s, root, 1, i)
    BY <1>1, <1>2
  <1> QED BY <1>3 DEF RootOf

\* A longer one has a node of the roots of its two parts, which are inside it.
LEMMA RootOfNode ==
  ASSUME NEW s, NEW root, AreRoots(s, Len(s), root), Len(s) \in Nat,
         NEW n \in 2..Len(s), NEW i \in 1..(Len(s) - n + 1),
         NEW p, p = LargestPowerOfTwoLessThan(n)
  PROVE  /\ p \in 1..(n - 1) /\ n - p \in 1..(n - 1)
         /\ root[n][i] = HashNode(root[p][i], root[n - p][i + p])
  <1>1. n \in 1..Len(s)
    OBVIOUS
  <1>2. root[n] = [j \in 1..(Len(s) - n + 1) |-> RootOf(s, root, n, j)]
    BY <1>1 DEF AreRoots
  <1>3. root[n][i] = RootOf(s, root, n, i)
    BY <1>2
  <1>4. root[n][i] = HashNode(root[p][i], root[n - p][i + p])
    BY <1>3 DEF RootOf
  <1>5. p \in 1..(n - 1)
    BY SplitIsInside
  <1> QED BY <1>4, <1>5

\* s are the leaves of the events of b
AreLeaves(s, b) ==
  /\ Len(b) \in Nat \ {0} /\ Len(s) = Len(b)
  /\ \A k \in 1..Len(b) : s[k] = HashLeaf(b[k])

\* segments of b and c that have one root have one length and the same events
AreBound(b, c, f, g) ==
  \A n \in 1..Len(b), i \in 1..Len(b), m \in 1..Len(c), j \in 1..Len(c) :
    i + n - 1 <= Len(b) /\ j + m - 1 <= Len(c) /\ f[n][i] = g[m][j]
      => n = m /\ \A k \in 0..(n - 1) : b[i + k] = c[j + k]

\* A root is that of one segment of leaves only.
LEMMA SegmentsBind ==
  ASSUME NEW b, NEW c, NEW s, NEW t, NEW f, NEW g, AreLeaves(s, b), AreLeaves(t, c),
         AreRoots(s, Len(s), f), AreRoots(t, Len(t), g)
  PROVE  AreBound(b, c, f, g)
  <1> USE DEF AreLeaves
  <1> DEFINE L == Len(b)
             M == Len(c)
             Bound(n, i, m, j) ==
               i + n - 1 <= L /\ j + m - 1 <= M /\ f[n][i] = g[m][j]
                 => n = m /\ \A k \in 0..(n - 1) : b[i + k] = c[j + k]
             S == {n \in 1..L : \A i \in 1..L, m \in 1..M, j \in 1..M : Bound(n, i, m, j)}
  <1>1. ASSUME NEW n \in 1..L, \A q \in 1..(n - 1) : q \in S PROVE n \in S
    <2> SUFFICES ASSUME NEW i \in 1..L, NEW m \in 1..M, NEW j \in 1..M,
                        i + n - 1 <= L, j + m - 1 <= M, f[n][i] = g[m][j]
                 PROVE  n = m /\ \A k \in 0..(n - 1) : b[i + k] = c[j + k]
      OBVIOUS
    <2> DEFINE p == LargestPowerOfTwoLessThan(n)
               q == LargestPowerOfTwoLessThan(m)
    <2>1. i \in 1..(L - n + 1) /\ j \in 1..(M - m + 1)
      OBVIOUS
    <2>2. /\ n = 1 => f[n][i] = HashLeaf(b[i])
          /\ n # 1 => /\ p \in 1..(n - 1) /\ n - p \in 1..(n - 1)
                      /\ f[n][i] = HashNode(f[p][i], f[n - p][i + p])
      <3>1. s[i] = HashLeaf(b[i])
        OBVIOUS
      <3> QED BY <2>1, <3>1, RootOfLeaf, RootOfNode
    <2>3. /\ m = 1 => g[m][j] = HashLeaf(c[j])
          /\ m # 1 => /\ q \in 1..(m - 1) /\ m - q \in 1..(m - 1)
                      /\ g[m][j] = HashNode(g[q][j], g[m - q][j + q])
      <3>1. t[j] = HashLeaf(c[j])
        OBVIOUS
      <3> QED BY <2>1, <3>1, RootOfLeaf, RootOfNode
    <2> HIDE DEF p, q
    <2>4. CASE n = 1 \/ m = 1
      <3>1. n = 1 /\ m = 1
        BY <2>2, <2>3, <2>4 DEF HashLeaf, HashNode
      <3>2. b[i] = c[j]
        BY <2>2, <2>3, <3>1 DEF HashLeaf
      <3>3. \A k \in 0..(n - 1) : k = 0
        BY <3>1
      <3> QED BY <3>1, <3>2, <3>3
    <2>5. CASE n # 1 /\ m # 1
      <3>1. f[p][i] = g[q][j] /\ f[n - p][i + p] = g[m - q][j + q]
        BY <2>2, <2>3, <2>5 DEF HashNode
      <3> DEFINE x == n - p
                 y == m - q
                 u == i + p
                 v == j + q
      <3>2. /\ p \in 1..(n - 1) /\ x \in 1..(n - 1) /\ q \in 1..M /\ y \in 1..M
            /\ u \in 1..L /\ v \in 1..M
            /\ i + p - 1 <= L /\ j + q - 1 <= M /\ u + x - 1 <= L /\ v + y - 1 <= M
        <4>1. p \in 1..(n - 1) /\ q \in 1..(m - 1)
          BY <2>2, <2>3, <2>5
        <4>2. L \in Nat /\ M \in Nat /\ n \in 1..L /\ m \in 1..M /\ i \in 1..L /\ j \in 1..M
          OBVIOUS
        <4>3. i + n - 1 <= L /\ j + m - 1 <= M
          OBVIOUS
        <4> HIDE DEF S, L, M
        <4> QED BY <4>1, <4>2, <4>3
      <3>3. p = q /\ \A k \in 0..(p - 1) : b[i + k] = c[j + k]
        <4>1. p \in S
          BY <1>1, <3>2
        <4>2. Bound(p, i, q, j)
          BY <3>2, <4>1
        <4> HIDE DEF S, L, M
        <4> QED BY <3>1, <3>2, <4>2
      <3>4. x = y /\ \A k \in 0..(x - 1) : b[u + k] = c[v + k]
        <4>1. x \in S
          <5> HIDE DEF x, S
          <5> QED BY <1>1, <3>2
        <4>2. Bound(x, u, y, v)
          <5> HIDE DEF x, u, y, v, Bound
          <5> QED BY <3>2, <4>1
        <4>3. f[x][u] = g[y][v]
          BY <3>1
        <4> HIDE DEF x, u, y, v, S, L, M
        <4> QED BY <3>2, <4>2, <4>3
      <3>5. n = m
        <4>1. p \in Int /\ q \in Int /\ n \in Int /\ m \in Int /\ p = q /\ n - p = m - q
          BY <3>2, <3>3, <3>4
        <4> HIDE DEF S, L, M, p, q
        <4> QED BY <4>1
      <3>6. ASSUME NEW k \in 0..(n - 1) PROVE b[i + k] = c[j + k]
        <4>1. CASE k < p
          BY <2>2, <2>5, <3>3, <4>1
        <4>2. CASE k >= p
          <5>1. k - p \in 0..(x - 1) /\ u + (k - p) = i + k /\ v + (k - p) = j + k
            <6>1. p \in Int /\ i \in Int /\ j \in Int /\ n \in Int /\ q = p
              BY <3>2, <3>3
            <6> HIDE DEF S, L, M
            <6> QED BY <4>2, <6>1
          <5> HIDE DEF x, u, v
          <5> QED BY <3>4, <5>1
        <4> QED BY <2>2, <2>5, <4>1, <4>2
      <3> QED BY <3>5, <3>6
    <2> QED BY <2>4, <2>5
  <1> HIDE DEF S
  <1>2. \A n \in 1..L : n \in S
    <2>1. L \in Nat
      OBVIOUS
    <2> HIDE DEF L
    <2> QED BY <1>1, <2>1, StronglyInductive
  <1> QED BY <1>2 DEF S, AreBound

\* Two blocks have one root only if they are one block.
LEMMA RootIsOfOneBlock ==
  ASSUME NEW E, NEW b \in Seq(E), NEW c \in Seq(E), Len(b) # 0, Len(c) # 0,
         MerkleRoot(b) = MerkleRoot(c)
  PROVE  b = c
  <1> DEFINE s == [k \in DOMAIN b |-> HashLeaf(b[k])]
             t == [k \in DOMAIN c |-> HashLeaf(c[k])]
  <1>1. AreLeaves(s, b) /\ AreLeaves(t, c)
    <2>1. DOMAIN b = 1..Len(b) /\ DOMAIN c = 1..Len(c) /\ Len(b) \in Nat /\ Len(c) \in Nat
      OBVIOUS
    <2> QED BY <2>1 DEF AreLeaves
  <1>2. MerkleRootFromHashes(s) = MerkleRootFromHashes(t)
    BY DEF MerkleRoot
  <1> HIDE DEF s, t
  <1>3. PICK f : AreRoots(s, Len(s), f) /\ MerkleRootFromHashes(s) = f[Len(s)][1]
    BY <1>1, RootsExist DEF AreLeaves
  <1>4. PICK g : AreRoots(t, Len(t), g) /\ MerkleRootFromHashes(t) = g[Len(t)][1]
    BY <1>1, RootsExist DEF AreLeaves
  <1>5. AreBound(b, c, f, g)
    BY <1>1, <1>3, <1>4, SegmentsBind
  <1>6. f[Len(b)][1] = g[Len(c)][1]
    BY <1>1, <1>2, <1>3, <1>4 DEF AreLeaves
  <1>7. Len(b) = Len(c) /\ \A k \in 0..(Len(b) - 1) : b[1 + k] = c[1 + k]
    BY <1>5, <1>6 DEF AreBound
  <1>8. \A k \in 1..Len(b) : k - 1 \in 0..(Len(b) - 1) /\ 1 + (k - 1) = k
    OBVIOUS
  <1>9. \A k \in 1..Len(b) : b[k] = c[k]
    BY <1>7, <1>8
  <1> QED BY <1>7, <1>9

-----------------------------------------------------------------------------
\* t is the level above s
IsAbove(t, s) ==
  /\ Len(s) \in Nat \ {0} /\ Len(t) = (Len(s) + 1) \div 2
  /\ \A j \in 1..Len(t) :
       t[j] = IF 2 * j <= Len(s) THEN HashNode(s[2 * j - 1], s[2 * j]) ELSE s[Len(s)]

LEMMA PairsAreAbove ==
  ASSUME NEW s, Len(s) \in Nat \ {0}
  PROVE  IsAbove(Pairs(s, s[Len(s)]), s)
  <1> DEFINE h == (Len(s) + 1) \div 2
             node(i) == IF 2 * i <= Len(s) THEN HashNode(s[2 * i - 1], s[2 * i]) ELSE s[Len(s)]
             t == [i \in 1..h |-> node(i)]
  <1>1. h \in Nat
    OBVIOUS
  <1>2. Len(t) = h /\ \A j \in 1..h : t[j] = node(j)
    <2> HIDE DEF h, node
    <2> QED BY <1>1
  <1>3. Pairs(s, s[Len(s)]) = t
    BY DEF Pairs
  <1> HIDE DEF t
  <1> QED BY <1>2, <1>3 DEF IsAbove

\* A segment that begins with a pair, and ends with one or at the end of the
\* block, has the root of its pairs.
LEMMA SegmentOfPairs ==
  ASSUME NEW s, NEW t, IsAbove(t, s), NEW f, AreRoots(s, Len(s), f),
         NEW g, AreRoots(t, Len(t), g)
  PROVE  \A n \in 1..Len(s), j \in 1..Len(t) :
            2 * j + n - 2 = Len(s) \/ (2 * j + n - 2 < Len(s) /\ n % 2 = 0)
              => f[n][2 * j - 1] = g[(n + 1) \div 2][j]
  <1> DEFINE L == Len(s)
             h == Len(t)
             Ends(n, j) == 2 * j + n - 2 = L \/ (2 * j + n - 2 < L /\ n % 2 = 0)
             S == {n \in 1..L : \A j \in 1..h : Ends(n, j) => f[n][2 * j - 1] = g[(n + 1) \div 2][j]}
  <1>1. L \in Nat \ {0} /\ h \in Nat \ {0} /\ h = (L + 1) \div 2
    BY DEF IsAbove
  <1>2. ASSUME NEW n \in 1..L, \A q \in 1..(n - 1) : q \in S PROVE n \in S
    <2> SUFFICES ASSUME NEW j \in 1..h, Ends(n, j) PROVE f[n][2 * j - 1] = g[(n + 1) \div 2][j]
      OBVIOUS
    <2> DEFINE i == 2 * j - 1
               m == (n + 1) \div 2
               p == LargestPowerOfTwoLessThan(n)
               q == LargestPowerOfTwoLessThan(m)
    <2>1. i \in 1..(L - n + 1) /\ m \in 1..h /\ j \in 1..(h - m + 1)
      <3> HIDE DEF L, h, S
      <3> QED BY <1>1
    <2>2. /\ n = 1 => f[n][i] = s[i]
          /\ n # 1 => /\ p \in 1..(n - 1) /\ n - p \in 1..(n - 1)
                      /\ f[n][i] = HashNode(f[p][i], f[n - p][i + p])
      <3>1. n = 1 => f[n][i] = s[i]
        <4>1. n = 1 => i \in 1..L
          BY <1>1, <2>1
        <4> QED BY <1>1, <4>1, RootOfLeaf
      <3>2. n # 1 => n \in 2..L
        BY <1>1
      <3> QED BY <1>1, <2>1, <3>1, <3>2, RootOfNode
    <2>3. /\ m = 1 => g[m][j] = t[j]
          /\ m # 1 => /\ q \in 1..(m - 1)
                      /\ g[m][j] = HashNode(g[q][j], g[m - q][j + q])
      <3>1. m = 1 => g[m][j] = t[j]
        <4>1. AreRoots(t, Len(t), g) /\ Len(t) \in Nat /\ j \in 1..Len(t)
          BY <1>1
        <4>2. g[1][j] = t[j]
          <5> HIDE DEF m, q, p, i, S, Ends, L, h
          <5> QED BY <4>1, RootOfLeaf
        <4> HIDE DEF m
        <4> QED BY <4>2
      <3>2. m # 1 => m \in 2..h
        BY <1>1, <2>1
      <3>3. m # 1 => /\ q \in 1..(m - 1)
                     /\ g[m][j] = HashNode(g[q][j], g[m - q][j + q])
        <4> SUFFICES ASSUME m # 1
                     PROVE  q \in 1..(m - 1) /\ g[m][j] = HashNode(g[q][j], g[m - q][j + q])
          OBVIOUS
        <4>1. Len(t) \in Nat /\ m \in 2..Len(t) /\ j \in 1..(Len(t) - m + 1)
          BY <1>1, <2>1, <3>2
        <4>2. q = LargestPowerOfTwoLessThan(m)
          OBVIOUS
        <4>3. AreRoots(t, Len(t), g)
          OBVIOUS
        <4> HIDE DEF m, q, p, i, S, Ends, L, h
        <4> QED BY <4>1, <4>2, <4>3, RootOfNode
      <3> HIDE DEF m, q
      <3> QED BY <3>1, <3>3
    <2>4. t[j] = IF 2 * j <= L THEN HashNode(s[2 * j - 1], s[2 * j]) ELSE s[L]
      BY DEF IsAbove
    <2>5. CASE n = 1
      <3>1. m = 1 /\ 2 * j > L /\ i = L
        <4> HIDE DEF L, h, S
        <4> QED BY <1>1, <2>5
      <3> HIDE DEF i, m, p, q, S, Ends, L, h
      <3>2. f[n][i] = s[L] /\ g[m][j] = t[j]
        BY <2>2, <2>3, <2>5, <3>1
      <3>3. t[j] = s[L]
        <4>1. ~(2 * j <= L)
          BY <1>1, <3>1
        <4> QED BY <2>4, <4>1
      <3> QED BY <3>2, <3>3 DEF i, m
    <2>6. CASE n = 2
      <3>1. m = 1 /\ 2 * j <= L /\ i + 1 = 2 * j
        <4> HIDE DEF L, h, S
        <4> QED BY <1>1, <2>6
      <3>2. p = 1 /\ n - p = 1
        <4> HIDE DEF p, m, q, i, S, Ends
        <4> QED BY <2>2, <2>6
      <3>3. f[1][i] = s[i] /\ f[1][i + 1] = s[i + 1]
        <4>1. i \in 1..L /\ i + 1 \in 1..L
          <5> HIDE DEF L, h, S
          <5> QED BY <1>1, <2>6
        <4> HIDE DEF i
        <4> QED BY <1>1, <4>1, RootOfLeaf
      <3>4. t[j] = HashNode(s[i], s[i + 1])
        BY <2>4, <3>1
      <3> HIDE DEF i, m, p, q, S, Ends, L, h
      <3>5. f[n][i] = HashNode(s[i], s[i + 1])
        BY <2>2, <2>6, <3>2, <3>3
      <3>6. f[n][i] = g[m][j]
        BY <2>3, <3>1, <3>4, <3>5
      <3> QED BY <3>6 DEF i, m
    <2>7. CASE n >= 3
      <3>1. p = 2 * q
        <4> HIDE DEF L, h, S, Ends
        <4> QED BY <2>7, SplitOfPairs
      <3>2. m # 1 /\ p \in 1..(n - 1) /\ n - p \in 1..(n - 1) /\ q \in 1..(m - 1)
        <4>1. m # 1 /\ n # 1
          <5> HIDE DEF L, h, S, Ends
          <5> QED BY <2>7
        <4> HIDE DEF m, p, q, S, Ends, L, h, i
        <4> QED BY <2>2, <2>3, <4>1
      <3> DEFINE x == n - p
                 k == j + q
      <3>3. k \in 1..h /\ Ends(p, j) /\ Ends(x, k)
            /\ (p + 1) \div 2 = q /\ (x + 1) \div 2 = m - q /\ 2 * k - 1 = i + p
        <4> HIDE DEF p, q, L, h, S
        <4> QED BY <1>1, <2>7, <3>1, <3>2
      <3>4. p \in S /\ x \in S
        <4> HIDE DEF x, S, p
        <4> QED BY <1>2, <3>2 DEF x
      <3>5. f[p][i] = g[q][j]
        <4> HIDE DEF p, q, L, h, Ends
        <4> QED BY <3>3, <3>4
      <3>6. f[x][i + p] = g[m - q][k]
        <4>1. f[x][2 * k - 1] = g[(x + 1) \div 2][k]
          <5> HIDE DEF p, q, L, h, Ends, x, k
          <5> QED BY <3>3, <3>4
        <4> HIDE DEF p, q, L, h, Ends, x, k, i, m, S
        <4> QED BY <3>3, <4>1
      <3>7. f[n][i] = g[m][j]
        <4>1. n # 1
          BY <2>7
        <4> HIDE DEF p, q, L, h, Ends, i, m, S
        <4> QED BY <2>2, <2>3, <3>2, <3>5, <3>6, <4>1 DEF x, k
      <3> QED BY <3>7 DEF i, m
    <2> HIDE DEF S, L, h, Ends
    <2> QED BY <2>5, <2>6, <2>7
  <1>3. \A n \in 1..L : n \in S
    <2> HIDE DEF L, S
    <2> QED BY <1>1, <1>2, StronglyInductive
  <1> QED BY <1>3 DEF S

\* The level above has the same root.
LEMMA RootOfPairs ==
  ASSUME NEW s, NEW t, IsAbove(t, s)
  PROVE  MerkleRootFromHashes(t) = MerkleRootFromHashes(s)
  <1>1. Len(s) \in Nat \ {0} /\ Len(t) \in Nat \ {0} /\ Len(t) = (Len(s) + 1) \div 2
    BY DEF IsAbove
  <1>2. PICK f : AreRoots(s, Len(s), f) /\ MerkleRootFromHashes(s) = f[Len(s)][1]
    BY <1>1, RootsExist
  <1>3. PICK g : AreRoots(t, Len(t), g) /\ MerkleRootFromHashes(t) = g[Len(t)][1]
    BY <1>1, RootsExist
  <1> DEFINE L == Len(s)
  <1>4. f[L][2 * 1 - 1] = g[(L + 1) \div 2][1]
    <2>1. L \in 1..Len(s) /\ 1 \in 1..Len(t) /\ 2 * 1 + L - 2 = Len(s)
      BY <1>1
    <2> HIDE DEF L
    <2> QED BY <1>2, <1>3, <2>1, SegmentOfPairs
  <1> QED BY <1>1, <1>2, <1>3, <1>4

\* The levels of a tree exist; RootByLevels is the last.
AreLevels(s, n, level) ==
  level = [k \in 0..n |-> IF k = 0 THEN s
                          ELSE Pairs(level[k - 1], level[k - 1][Len(level[k - 1])])]

LEMMA LevelsExist ==
  ASSUME NEW s, Len(s) \in Nat
  PROVE  \E level : AreLevels(s, Len(s), level) /\ RootByLevels(s) = level[Len(s)][1]
  <1> DEFINE L == Len(s)
             D == {n \in 0..L : \E f : AreLevels(s, n, f)}
             above(x) == Pairs(x, x[Len(x)])
  <1>1. 0 \in D
    <2> DEFINE f == [k \in 0..0 |-> s]
    <2>1. AreLevels(s, 0, f)
      <3>1. \A k \in 0..0 : k = 0
        OBVIOUS
      <3> QED BY <3>1 DEF AreLevels
    <2> QED BY <2>1
  <1>2. ASSUME NEW n \in 0..(L - 1), n \in D PROVE n + 1 \in D
    <2>1. PICK f : AreLevels(s, n, f)
      BY <1>2
    <2> HIDE DEF above
    <2> DEFINE g == [k \in 0..(n + 1) |-> IF k = n + 1 THEN above(f[n]) ELSE f[k]]
    <2>2. ASSUME NEW k \in 0..(n + 1) PROVE g[k] = IF k = 0 THEN s ELSE above(g[k - 1])
      <3>1. k # 0 => k - 1 \in 0..n /\ k - 1 # n + 1
        OBVIOUS
      <3>2. k # 0 => g[k - 1] = f[k - 1]
        BY <3>1
      <3>3. CASE k = n + 1
        <4>1. g[k] = above(f[n]) /\ k # 0 /\ k - 1 = n
          BY <3>3
        <4> HIDE DEF g
        <4> QED BY <3>2, <4>1
      <3>4. CASE k \in 0..n
        <4>1. g[k] = f[k]
          BY <3>4
        <4>2. f[k] = IF k = 0 THEN s ELSE above(f[k - 1])
          BY <2>1, <3>4 DEF AreLevels, above
        <4> HIDE DEF g
        <4> QED BY <3>2, <4>1, <4>2
      <3> QED BY <3>3, <3>4
    <2>3. g = [k \in 0..(n + 1) |-> IF k = 0 THEN s ELSE above(g[k - 1])]
      <3>1. g = [k \in 0..(n + 1) |-> g[k]]
        OBVIOUS
      <3> HIDE DEF g
      <3> QED BY <2>2, <3>1
    <2>4. AreLevels(s, n + 1, g)
      <3> HIDE DEF g
      <3> QED BY <2>3 DEF AreLevels, above
    <2> HIDE DEF g
    <2> QED BY <2>4
  <1>3. L \in D
    <2>1. L \in Nat /\ L \in 0..L
      OBVIOUS
    <2> HIDE DEF D, L
    <2> QED BY <1>1, <1>2, <2>1, Inductive
  <1> DEFINE body(f) == [k \in 0..L |-> IF k = 0 THEN s ELSE Pairs(f[k - 1], f[k - 1][Len(f[k - 1])])]
             level == CHOOSE f : f = body(f)
  <1>4. \A f : AreLevels(s, L, f) <=> f = body(f)
    BY DEF AreLevels
  <1>5. level = body(level)
    <2> HIDE DEF body
    <2> QED BY <1>3, <1>4
  <1>6. RootByLevels(s) = level[L][1]
    BY DEF RootByLevels
  <1> HIDE DEF body, level
  <1> QED BY <1>4, <1>5, <1>6

\* The split at the largest power of two builds the tree of the levels.
LEMMA LevelsHaveTheRoot ==
  ASSUME NEW s, Len(s) \in Nat \ {0}
  PROVE  RootByLevels(s) = MerkleRootFromHashes(s)
  <1>1. PICK level : AreLevels(s, Len(s), level) /\ RootByLevels(s) = level[Len(s)][1]
    BY LevelsExist
  <1> DEFINE L == Len(s)
             Sound(k) == /\ Len(level[k]) \in Nat \ {0} /\ (Len(level[k]) = 1 \/ Len(level[k]) + k <= L)
                         /\ MerkleRootFromHashes(level[k]) = MerkleRootFromHashes(s)
             D == {k \in 0..L : Sound(k)}
  <1>2. 0 \in D
    <2>1. level[0] = s
      BY <1>1 DEF AreLevels
    <2> QED BY <2>1
  <1>3. ASSUME NEW k \in 0..(L - 1), k \in D PROVE k + 1 \in D
    <2> DEFINE below == level[k]
               this == level[k + 1]
    <2>1. this = Pairs(below, below[Len(below)])
      <3>1. k + 1 \in 0..L /\ k + 1 # 0 /\ (k + 1) - 1 = k
        OBVIOUS
      <3> HIDE DEF L, D
      <3> QED BY <1>1, <3>1 DEF AreLevels, L
    <2>2. Sound(k)
      BY <1>3
    <2> HIDE DEF this, below
    <2>3. Len(below) \in Nat \ {0}
      BY <2>2 DEF below
    <2>4. IsAbove(this, below)
      BY <2>1, <2>3, PairsAreAbove
    <2>5. MerkleRootFromHashes(this) = MerkleRootFromHashes(s)
      BY <2>2, <2>4, RootOfPairs DEF below
    <2>6. Len(this) = (Len(below) + 1) \div 2
      BY <2>4 DEF IsAbove
    <2>7. Len(below) = 1 \/ Len(below) + k <= L
      BY <2>2 DEF below
    <2>8. Len(this) \in Nat \ {0} /\ (Len(this) = 1 \/ Len(this) + (k + 1) <= L)
      <3> SUFFICES ASSUME NEW a \in Nat \ {0}, NEW b, b = (a + 1) \div 2,
                          a = 1 \/ a + k <= L
                   PROVE  b \in Nat \ {0} /\ (b = 1 \/ b + (k + 1) <= L)
        BY <2>3, <2>6, <2>7
      <3>1. L \in Nat /\ k \in Nat
        OBVIOUS
      <3> HIDE DEF L, D
      <3> QED BY <3>1
    <2>9. k + 1 \in 0..L
      OBVIOUS
    <2> HIDE DEF L
    <2> QED BY <2>5, <2>8, <2>9 DEF this
  <1>4. Sound(L)
    <2>1. L \in Nat /\ L \in 0..L
      OBVIOUS
    <2> HIDE DEF D, L
    <2>2. L \in D
      BY <1>2, <1>3, <2>1, Inductive
    <2> QED BY <2>2 DEF D
  <1>5. Len(level[L]) = 1
    BY <1>4
  <1>6. MerkleRootFromHashes(level[L]) = level[L][1]
    <2> DEFINE s1 == level[L]
    <2> HIDE DEF s1
    <2>1. Len(s1) = 1
      BY <1>5 DEF s1
    <2>2. PICK f : AreRoots(s1, Len(s1), f) /\ MerkleRootFromHashes(s1) = f[Len(s1)][1]
      <3>1. Len(s1) \in Nat \ {0}
        BY <2>1
      <3> QED BY <3>1, RootsExist
    <2>3. f[1][1] = s1[1]
      <3>1. Len(s1) \in Nat /\ 1 \in 1..Len(s1)
        BY <2>1
      <3> QED BY <2>2, <3>1, RootOfLeaf
    <2> QED BY <2>1, <2>2, <2>3 DEF s1
  <1> QED BY <1>1, <1>4, <1>6

-----------------------------------------------------------------------------
\* the blocks whose roots are asked for
Blocks == {b \in Seq(Events) : Len(b) # 0}

\* the roots are those of the two blocks as they are now
RootInv ==
  asked.of = "root" =>
    \E b, c \in Blocks :
      asked = [of |-> "root", blocks |-> <<b, c>>] /\ answer = [roots |-> Roots(<<b, c>>)]

LEMMA RootAsked == AskRoot => RootInv'
  <1> SUFFICES ASSUME NEW e \in Events, NEW f \in Events,
                      Ask([of |-> "root", blocks |-> <<<<e>>, <<f>>>>],
                          [roots |-> Roots(<<<<e>>, <<f>>>>)])
               PROVE  RootInv'
    BY DEF AskRoot
  <1> DEFINE b == <<e>>
             c == <<f>>
  <1>1. b \in Blocks /\ c \in Blocks
    BY DEF Blocks
  <1> HIDE DEF b, c
  <1>2. asked' = [of |-> "root", blocks |-> <<b, c>>] /\ answer' = [roots |-> Roots(<<b, c>>)]
    BY DEF Ask, b, c
  <1> QED BY <1>1, <1>2 DEF RootInv

LEMMA EventAppended == RootInv /\ AppendEvent => RootInv'
  <1> SUFFICES ASSUME RootInv, NEW i \in {1, 2}, NEW e \in Events, asked.of = "root",
                      LET blocks == [asked.blocks EXCEPT ![i] = Append(@, e)]
                      IN  Ask([asked EXCEPT !.blocks = blocks], [roots |-> Roots(blocks)])
               PROVE  RootInv'
    BY DEF AppendEvent
  <1>1. PICK b \in Blocks, c \in Blocks : asked = [of |-> "root", blocks |-> <<b, c>>]
    BY DEF RootInv
  <1> DEFINE p == IF i = 1 THEN Append(b, e) ELSE b
             q == IF i = 2 THEN Append(c, e) ELSE c
             blocks == [asked.blocks EXCEPT ![i] = Append(@, e)]
  <1>2. p \in Blocks /\ q \in Blocks
    <2>1. ASSUME NEW x \in Blocks PROVE Append(x, e) \in Blocks
      <3>1. x \in Seq(Events) /\ Len(x) \in Nat
        BY DEF Blocks
      <3>2. Append(x, e) \in Seq(Events) /\ Len(Append(x, e)) = Len(x) + 1
        BY <3>1
      <3> QED BY <3>1, <3>2 DEF Blocks
    <2> QED BY <2>1
  <1>3. blocks = <<p, q>>
    <2>1. asked.blocks = <<b, c>>
      BY <1>1
    <2> QED BY <2>1
  <1>4. asked' = [asked EXCEPT !.blocks = <<p, q>>] /\ answer' = [roots |-> Roots(<<p, q>>)]
    BY <1>3 DEF Ask
  <1> HIDE DEF p, q
  <1>5. asked' = [of |-> "root", blocks |-> <<p, q>>]
    BY <1>1, <1>4
  <1> QED BY <1>2, <1>4, <1>5 DEF RootInv

LEMMA RootsOfBlocksBind == RootInv => RootsBind
  <1> SUFFICES ASSUME RootInv, asked.of = "root" PROVE RootsBind
    BY DEF RootsBind
  <1>1. PICK b \in Blocks, c \in Blocks :
          asked = [of |-> "root", blocks |-> <<b, c>>] /\ answer = [roots |-> Roots(<<b, c>>)]
    BY DEF RootInv
  <1>2. asked.blocks[1] = b /\ asked.blocks[2] = c
    BY <1>1
  <1>3. answer.roots[1] = MerkleRoot(b) /\ answer.roots[2] = MerkleRoot(c)
    <2>1. answer.roots = Roots(<<b, c>>)
      BY <1>1
    <2> QED BY <2>1 DEF Roots
  <1>4. MerkleRoot(b) = MerkleRoot(c) <=> b = c
    BY RootIsOfOneBlock DEF Blocks
  <1>5. ASSUME NEW x \in Blocks
        PROVE  MerkleRoot(x) = RootByLevels([k \in DOMAIN x |-> HashLeaf(x[k])])
    <2> DEFINE s == [k \in DOMAIN x |-> HashLeaf(x[k])]
    <2>1. Len(s) \in Nat \ {0}
      <3>1. DOMAIN x = 1..Len(x) /\ Len(x) \in Nat \ {0}
        BY DEF Blocks
      <3> QED BY <3>1
    <2> HIDE DEF s
    <2>2. RootByLevels(s) = MerkleRootFromHashes(s)
      BY <2>1, LevelsHaveTheRoot
    <2> QED BY <2>2 DEF s, MerkleRoot
  <1>6. \A i \in {1, 2} :
          answer.roots[i] = RootByLevels([k \in DOMAIN asked.blocks[i] |-> HashLeaf(asked.blocks[i][k])])
    <2>1. answer.roots[1] = RootByLevels([k \in DOMAIN asked.blocks[1] |-> HashLeaf(asked.blocks[1][k])])
      BY <1>2, <1>3, <1>5
    <2>2. answer.roots[2] = RootByLevels([k \in DOMAIN asked.blocks[2] |-> HashLeaf(asked.blocks[2][k])])
      BY <1>2, <1>3, <1>5
    <2> QED BY <2>1, <2>2
  <1> QED BY <1>2, <1>3, <1>4, <1>6 DEF RootsBind

-----------------------------------------------------------------------------
\* the rows of a snapshot, as far as the figures of a report ask for them
AreRows(tools) ==
  /\ Len(tools) \in Nat /\ DOMAIN tools = 1..Len(tools)
  /\ \A i \in 1..Len(tools) :
       /\ tools[i].cost \in Nat /\ tools[i].known \in BOOLEAN
       /\ tools[i].risk.score \in Nat /\ tools[i].risk.band \in Bands
       /\ Len(tools[i].results) \in Nat
       /\ DOMAIN tools[i].results = 1..Len(tools[i].results)

\* the finding at a place, and all findings
Found(tools, p) == [of |-> p[1], finding |-> tools[p[1]].results[p[2]]]
Listed(tools) == {Found(tools, p) : p \in Failures(tools)}

\* the places of the findings up to a result of a tool
UpTo(tools, i, k) ==
  {p \in Failures(tools) : p[1] < i \/ (p[1] = i /\ p[2] <= k)}

Figures(listed) ==
  [counts_by_band : [Bands -> Nat], monthly_total : Nat, unknown_monthly_cost_count : Nat,
   highest : Nat, policy_findings : Seq(listed), recommendations : Seq(listed)]

\* the same figures but for the findings
SameCounts(x, y) ==
  /\ x.counts_by_band = y.counts_by_band /\ x.monthly_total = y.monthly_total
  /\ x.unknown_monthly_cost_count = y.unknown_monthly_cost_count /\ x.highest = y.highest

\* What the list and the recommendations are after the findings at some places.
Gathered(tools, places, list, advice) ==
  /\ IsFiniteSet(places) /\ Len(list) = Cardinality(places)
  /\ \A p \in places : \E n \in 1..Len(list) : list[n] = Found(tools, p)
  /\ \A p \in places : \E n \in 1..Len(advice) : SameAdvice(advice[n], Found(tools, p))
  /\ \A m, n \in 1..Len(advice) : SameAdvice(advice[m], advice[n]) => m = n
  /\ \A n \in 1..Len(advice) : \E p \in places :
       /\ advice[n] = Found(tools, p)
       /\ \A q \in places : SameAdvice(Found(tools, q), advice[n]) => p[2] <= q[2]

\* A finding is that of a result of a tool.
LEMMA PlacesOfFindings ==
  ASSUME NEW tools, AreRows(tools), NEW p \in Failures(tools)
  PROVE  /\ p = <<p[1], p[2]>> /\ p[1] \in 1..Len(tools) /\ p[2] \in 1..Len(tools[p[1]].results)
         /\ Failing(tools[p[1]].results[p[2]]) /\ p[1] \in Nat /\ p[2] \in Nat
  <1>1. PICK i \in 1..Len(tools) : p \in {i} \X DOMAIN tools[i].results
    BY DEF Failures, AreRows
  <1>2. p = <<p[1], p[2]>> /\ p[1] = i /\ p[2] \in 1..Len(tools[i].results)
    BY <1>1 DEF AreRows
  <1>3. Failing(tools[p[1]].results[p[2]])
    BY DEF Failures
  <1>4. i \in Nat /\ p[2] \in Nat
    BY <1>2 DEF AreRows
  <1> QED BY <1>2, <1>3, <1>4

\* And a result that fails is a finding.
LEMMA FindingAt ==
  ASSUME NEW tools, AreRows(tools), NEW i \in 1..Len(tools),
         NEW k \in 1..Len(tools[i].results), Failing(tools[i].results[k])
  PROVE  /\ <<i, k>> \in Failures(tools)
         /\ Found(tools, <<i, k>>) = [of |-> i, finding |-> tools[i].results[k]]
         /\ Found(tools, <<i, k>>) \in Listed(tools)
  <1>1. i \in DOMAIN tools /\ k \in DOMAIN tools[i].results
    BY DEF AreRows
  <1>2. <<i, k>> \in {i} \X DOMAIN tools[i].results
    BY <1>1
  <1>3. <<i, k>> \in Failures(tools)
    BY <1>1, <1>2 DEF Failures
  <1>4. Found(tools, <<i, k>>) = [of |-> i, finding |-> tools[i].results[k]]
    BY DEF Found
  <1> QED BY <1>3, <1>4 DEF Listed

\* One advice is that of one tool, and two that are the same as a third are the same.
LEMMA AdviceIsShared ==
  /\ \A x, y : SameAdvice(x, y) => SameAdvice(y, x)
  /\ \A x, y, z : SameAdvice(x, y) /\ SameAdvice(y, z) => SameAdvice(x, z)
  /\ \A tools, p, q : SameAdvice(Found(tools, p), Found(tools, q)) => p[1] = q[1]
  BY DEF SameAdvice, Found

\* A finding later than all others is added to the list and to the advice.
LEMMA OneFinding ==
  ASSUME NEW tools, AreRows(tools), NEW places \in SUBSET Failures(tools),
         NEW p \in Failures(tools), p \notin places,
         \A q \in places : q[1] = p[1] => q[2] < p[2],
         NEW list \in Seq(Listed(tools)), NEW advice \in Seq(Listed(tools)),
         Gathered(tools, places, list, advice)
  PROVE  Gathered(tools, places \cup {p}, Append(list, Found(tools, p)),
                  Advise(advice, Found(tools, p)))
  <1> DEFINE L == Listed(tools)
             f == Found(tools, p)
             more == Append(list, f)
             now == Advise(advice, f)
             all == places \cup {p}
  <1>1. f \in L
    BY DEF Listed
  <1>2. \A q \in all : q[1] \in Nat /\ q[2] \in Nat
    BY PlacesOfFindings
  <1>3. more \in Seq(L) /\ Len(more) = Len(list) + 1 /\ Len(list) \in Nat
        /\ (\A n \in 1..Len(list) : more[n] = list[n]) /\ more[Len(list) + 1] = f
    <2> HIDE DEF f, L
    <2>1. list \in Seq(L)
      BY DEF L
    <2> QED BY <1>1, <2>1
  <1>4. IsFiniteSet(all) /\ Cardinality(all) = Len(more)
    <2>1. IsFiniteSet(places) /\ Cardinality(places) = Len(list)
      BY DEF Gathered
    <2>2. IsFiniteSet(all) /\ Cardinality(all) = Cardinality(places) + 1
      BY <2>1, FS_AddElement
    <2> HIDE DEF more
    <2> QED BY <1>3, <2>1, <2>2
  <1>5. ASSUME NEW q \in all PROVE \E n \in 1..Len(more) : more[n] = Found(tools, q)
    <2> HIDE DEF more, all, L
    <2>1. CASE q = p
      <3>1. Len(list) + 1 \in 1..Len(more)
        BY <1>3
      <3> QED BY <1>3, <2>1, <3>1 DEF f
    <2>2. CASE q \in places
      <3>1. PICK n \in 1..Len(list) : list[n] = Found(tools, q)
        BY <2>2 DEF Gathered
      <3>2. n \in 1..Len(more)
        BY <1>3
      <3> QED BY <1>3, <3>1, <3>2
    <2> QED BY <2>1, <2>2 DEF all
  <1>6. /\ \A q \in places : \E n \in 1..Len(advice) : SameAdvice(advice[n], Found(tools, q))
        /\ \A m, n \in 1..Len(advice) : SameAdvice(advice[m], advice[n]) => m = n
        /\ \A n \in 1..Len(advice) : \E q \in places :
             /\ advice[n] = Found(tools, q)
             /\ \A r \in places : SameAdvice(Found(tools, r), advice[n]) => q[2] <= r[2]
    BY DEF Gathered
  <1>7. Len(advice) \in Nat /\ DOMAIN advice = 1..Len(advice)
    OBVIOUS
  <1> DEFINE Told(list2) ==
        /\ \A q \in all : \E n \in 1..Len(list2) : SameAdvice(list2[n], Found(tools, q))
        /\ \A m, n \in 1..Len(list2) : SameAdvice(list2[m], list2[n]) => m = n
        /\ \A n \in 1..Len(list2) : \E q \in all :
             /\ list2[n] = Found(tools, q)
             /\ \A r \in all : SameAdvice(Found(tools, r), list2[n]) => q[2] <= r[2]
  <1>8. ASSUME \E n \in DOMAIN advice : SameAdvice(advice[n], f) PROVE Told(now)
    <2>1. now = advice
      BY <1>8 DEF Advise
    <2>2. ASSUME NEW n \in 1..Len(advice)
          PROVE  \E q \in all :
                   /\ advice[n] = Found(tools, q)
                   /\ \A r \in all : SameAdvice(Found(tools, r), advice[n]) => q[2] <= r[2]
      <3>1. PICK q \in places :
              /\ advice[n] = Found(tools, q)
              /\ \A r \in places : SameAdvice(Found(tools, r), advice[n]) => q[2] <= r[2]
        BY <1>6
      <3>2. ASSUME SameAdvice(f, advice[n]) PROVE q[2] <= p[2]
        <4>1. p[1] = q[1]
          BY <3>1, <3>2, AdviceIsShared
        <4>2. q[2] < p[2]
          BY <4>1
        <4> QED BY <1>2, <4>2
      <3> QED BY <3>1, <3>2
    <2>3. \A q \in all : \E n \in 1..Len(advice) : SameAdvice(advice[n], Found(tools, q))
      BY <1>6, <1>7, <1>8
    <2>4. Told(advice)
      BY <1>6, <2>2, <2>3
    <2> HIDE DEF Told
    <2> QED BY <2>1, <2>4
  <1>9. ASSUME ~\E n \in DOMAIN advice : SameAdvice(advice[n], f) PROVE Told(now)
    <2> DEFINE last == Len(advice) + 1
    <2>1. /\ Len(now) = last /\ now[last] = f /\ last \notin 1..Len(advice)
          /\ 1..last = 1..Len(advice) \cup {last}
          /\ \A n \in 1..Len(advice) : now[n] = advice[n]
      <3>1. now = Append(advice, f)
        BY <1>9 DEF Advise
      <3> HIDE DEF f, L, now
      <3>2. advice \in Seq(L)
        BY DEF L
      <3> QED BY <1>1, <1>7, <3>1, <3>2
    <2> HIDE DEF now, last
    <2>2. \A n \in 1..Len(advice) : ~SameAdvice(now[n], f) /\ ~SameAdvice(f, now[n])
      BY <1>7, <1>9, <2>1, AdviceIsShared
    <2>3. ASSUME NEW q \in all PROVE \E n \in 1..last : SameAdvice(now[n], Found(tools, q))
      <3>1. CASE q = p
        <4>1. SameAdvice(f, f)
          BY DEF SameAdvice
        <4> QED BY <2>1, <3>1, <4>1
      <3>2. CASE q \in places
        BY <1>6, <2>1, <3>2
      <3> QED BY <3>1, <3>2
    <2>4. ASSUME NEW m \in 1..last, NEW n \in 1..last, SameAdvice(now[m], now[n]) PROVE m = n
      <3>1. CASE m \in 1..Len(advice) /\ n \in 1..Len(advice)
        BY <1>6, <2>1, <2>4, <3>1
      <3>2. CASE m = last \/ n = last
        BY <2>1, <2>2, <2>4, <3>2
      <3> QED BY <2>1, <3>1, <3>2
    <2>5. ASSUME NEW n \in 1..last
          PROVE  \E q \in all :
                   /\ now[n] = Found(tools, q)
                   /\ \A r \in all : SameAdvice(Found(tools, r), now[n]) => q[2] <= r[2]
      <3>1. CASE n \in 1..Len(advice)
        <4>1. PICK q \in places :
                /\ now[n] = Found(tools, q)
                /\ \A r \in places : SameAdvice(Found(tools, r), now[n]) => q[2] <= r[2]
          BY <1>6, <2>1, <3>1
        <4>2. ~SameAdvice(Found(tools, p), now[n])
          BY <2>2, <3>1
        <4> QED BY <4>1, <4>2
      <3>2. CASE n = last
        <4>1. now[n] = Found(tools, p)
          BY <2>1, <3>2
        <4>2. ASSUME NEW r \in all, SameAdvice(Found(tools, r), now[n]) PROVE r = p
          <5>1. ASSUME r \in places PROVE FALSE
            <6>1. PICK m \in 1..Len(advice) : SameAdvice(now[m], Found(tools, r))
              BY <1>6, <2>1, <5>1
            <6>2. SameAdvice(now[m], f)
              BY <4>1, <4>2, <6>1, AdviceIsShared
            <6> QED BY <2>2, <6>2
          <5> QED BY <5>1
        <4>3. p[2] <= p[2]
          BY <1>2
        <4> QED BY <4>1, <4>2, <4>3
      <3> QED BY <2>1, <3>1, <3>2
    <2>6. Len(now) = last
      BY <2>1
    <2> HIDE DEF all
    <2> QED BY <2>3, <2>4, <2>5, <2>6
  <1>10. Told(now)
    BY <1>8, <1>9
  <1> HIDE DEF more, now, all
  <1>11. Gathered(tools, all, more, now)
    BY <1>4, <1>5, <1>10 DEF Gathered
  <1> QED BY <1>11 DEF more, now, all

\* A finding keeps the figures what they are, and joins the findings before it.
LEMMA FindingJoins ==
  ASSUME NEW tools, AreRows(tools), NEW i \in 1..Len(tools),
         NEW k \in 1..Len(tools[i].results), NEW x \in Figures(Listed(tools))
  PROVE  LET y == AddFinding(x, i, tools[i].results[k])
         IN  /\ y \in Figures(Listed(tools)) /\ SameCounts(x, y)
             /\ Gathered(tools, UpTo(tools, i, k - 1), x.policy_findings, x.recommendations)
                => Gathered(tools, UpTo(tools, i, k), y.policy_findings, y.recommendations)
  <1> DEFINE L == Listed(tools)
             r == tools[i].results[k]
             y == AddFinding(x, i, r)
             p == <<i, k>>
             f == Found(tools, p)
  <1>1. i \in Nat /\ k \in Nat /\ p[1] = i /\ p[2] = k
    BY DEF AreRows
  <1>2. \A q \in Failures(tools) : q = <<q[1], q[2]>> /\ q[1] \in Nat /\ q[2] \in Nat
    BY PlacesOfFindings
  <1>3. CASE ~Failing(r)
    <2>1. y = x
      BY <1>3 DEF AddFinding
    <2>2. p \notin Failures(tools)
      <3>1. p \in Failures(tools) => Failing(tools[p[1]].results[p[2]])
        BY DEF Failures
      <3> QED BY <1>1, <1>3, <3>1
    <2>3. UpTo(tools, i, k) = UpTo(tools, i, k - 1)
      <3>1. ASSUME NEW q \in Failures(tools), q[1] = i, q[2] <= k PROVE q[2] <= k - 1
        <4>1. q[2] # k
          BY <1>2, <2>2, <3>1
        <4> QED BY <1>1, <1>2, <3>1, <4>1
      <3>2. ASSUME NEW q \in Failures(tools), q[2] <= k - 1 PROVE q[2] <= k
        BY <1>1, <1>2, <3>2
      <3> QED BY <3>1, <3>2 DEF UpTo
    <2> HIDE DEF y
    <2> QED BY <2>1, <2>3 DEF SameCounts, y, r
  <1>4. CASE Failing(r)
    <2>1. p \in Failures(tools) /\ f = [of |-> i, finding |-> r] /\ f \in L
      BY <1>4, FindingAt
    <2> DEFINE list == x.policy_findings
               advice == x.recommendations
    <2>2. list \in Seq(L) /\ advice \in Seq(L)
      <3> HIDE DEF L
      <3>1. x \in Figures(L)
        BY DEF L
      <3> QED BY <3>1 DEF Figures
    <2>3. y = [x EXCEPT !.policy_findings = Append(list, f),
                        !.recommendations = Advise(advice, f)]
      BY <1>4, <2>1 DEF AddFinding
    <2>4. Append(list, f) \in Seq(L) /\ Advise(advice, f) \in Seq(L)
      <3> HIDE DEF f, L, list, advice
      <3> QED BY <2>1, <2>2 DEF Advise
    <2>5. y \in Figures(L) /\ SameCounts(x, y) /\ y.policy_findings = Append(list, f)
          /\ y.recommendations = Advise(advice, f)
      <3> SUFFICES ASSUME NEW u \in Seq(L), NEW v \in Seq(L),
                          y = [x EXCEPT !.policy_findings = u, !.recommendations = v]
                   PROVE  y \in Figures(L) /\ SameCounts(x, y) /\ y.policy_findings = u
                          /\ y.recommendations = v
        BY <2>3, <2>4
      <3> HIDE DEF y, L, f, list, advice
      <3>1. x \in Figures(L)
        BY DEF L
      <3> QED BY <3>1 DEF Figures, SameCounts
    <2>6. ASSUME Gathered(tools, UpTo(tools, i, k - 1), list, advice)
          PROVE  Gathered(tools, UpTo(tools, i, k), Append(list, f), Advise(advice, f))
      <3> DEFINE before == UpTo(tools, i, k - 1)
      <3>1. before \in SUBSET Failures(tools)
        BY DEF UpTo
      <3>2. p \notin before /\ \A q \in before : q[1] = p[1] => q[2] < p[2]
        BY <1>1, <1>2 DEF UpTo
      <3>3. UpTo(tools, i, k) = before \cup {p}
        <4>1. ASSUME NEW q \in UpTo(tools, i, k), q \notin before PROVE q = p
          <5>1. q[1] = i /\ q[2] = k
            BY <1>1, <1>2, <4>1 DEF UpTo
          <5> QED BY <1>2, <4>1, <5>1 DEF UpTo
        <4>2. before \subseteq UpTo(tools, i, k)
          BY <1>1, <1>2 DEF UpTo
        <4>3. p \in UpTo(tools, i, k)
          BY <1>1, <2>1 DEF UpTo
        <4> HIDE DEF before, p
        <4> QED BY <4>1, <4>2, <4>3
      <3> HIDE DEF before, p, list, advice
      <3>4. list \in Seq(Listed(tools)) /\ advice \in Seq(Listed(tools))
            /\ Gathered(tools, before, list, advice) /\ p \in Failures(tools)
        BY <2>1, <2>2, <2>6 DEF before, L
      <3> HIDE DEF L
      <3>5. Gathered(tools, before \cup {p}, Append(list, Found(tools, p)),
                     Advise(advice, Found(tools, p)))
        BY <3>1, <3>2, <3>4, OneFinding
      <3> QED BY <3>3, <3>5
    <2> HIDE DEF y, f
    <2> QED BY <2>5, <2>6 DEF y
  <1> QED BY <1>3, <1>4

\* what the results of a tool lead to, within a set of figures, one by one
StayIn(S, i, results) ==
  \A k \in 1..Len(results), y \in S : AddFinding(y, i, results[k]) \in S

ResultByResult(S, x, i, results, g) ==
  /\ g \in [0..Len(results) -> S] /\ g[0] = x
  /\ \A k \in 1..Len(results) : g[k] = AddFinding(g[k - 1], i, results[k])

\* The loop over the results of a tool goes result by result.
LEMMA FindingsAreSteps ==
  ASSUME NEW S, NEW x \in S, NEW i, NEW results, Len(results) \in Nat,
         StayIn(S, i, results)
  PROVE  \E g : ResultByResult(S, x, i, results, g)
                  /\ AddFindings(x, i, results) = g[Len(results)]
  <1> DEFINE n == Len(results)
             step == [k \in 1..n |-> [y \in S |-> AddFinding(y, i, results[k])]]
             body(g) == [k \in 0..n |-> IF k = 0 THEN x ELSE AddFinding(g[k - 1], i, results[k])]
             after == CHOOSE g : g = body(g)
  <1>1. n \in Nat
    OBVIOUS
  <1> HIDE DEF n
  <1>2. step \in [1..n -> [S -> S]]
    BY DEF n, StayIn
  <1>3. PICK g \in [0..n -> S] : g[0] = x /\ \A k \in 1..n : g[k] = step[k][g[k - 1]]
    <2> HIDE DEF step
    <2>1. Computed(n, S, x, step) # {}
      BY <1>1, <1>2, StepsExist
    <2> QED BY <2>1 DEF Computed
  <1>4. ASSUME NEW k \in 1..n PROVE g[k] = AddFinding(g[k - 1], i, results[k])
    <2>1. g[k - 1] \in S
      BY <1>1, <1>3
    <2> QED BY <1>3, <2>1
  <1>5. g = body(g)
    <2> HIDE DEF step
    <2> QED BY <1>1, <1>3, <1>4
  <1>6. after = body(after)
    <2> HIDE DEF body
    <2> QED BY <1>5
  <1>7. AddFindings(x, i, results) = after[n]
    BY DEF AddFindings, n
  <1> HIDE DEF after, step
  <1>8. after[0] = x /\ \A k \in 1..n : after[k] = AddFinding(after[k - 1], i, results[k])
    BY <1>1, <1>6
  <1> DEFINE D == {k \in 0..n : after[k] = g[k]}
  <1>9. n \in D
    <2>1. 0 \in D
      BY <1>1, <1>3, <1>8
    <2>2. ASSUME NEW k \in 0..(n - 1), k \in D PROVE k + 1 \in D
      <3>1. k + 1 \in 1..n /\ (k + 1) - 1 = k /\ k + 1 \in 0..n
        BY <1>1
      <3> QED BY <1>4, <1>8, <2>2, <3>1
    <2> HIDE DEF D
    <2>3. 0..n \subseteq D
      BY <1>1, <2>1, <2>2, Inductive
    <2>4. n \in 0..n
      BY <1>1
    <2> QED BY <2>3, <2>4
  <1>10. ResultByResult(S, x, i, results, g)
    BY <1>3, <1>4 DEF n, ResultByResult
  <1>11. AddFindings(x, i, results) = g[Len(results)]
    BY <1>7, <1>9 DEF n
  <1> QED BY <1>10, <1>11

\* After the results of a tool its findings have joined those of the tools before.
LEMMA FindingsJoin ==
  ASSUME NEW tools, AreRows(tools), NEW i \in 1..Len(tools),
         NEW x \in Figures(Listed(tools))
  PROVE  LET y == AddFindings(x, i, tools[i].results)
         IN  /\ y \in Figures(Listed(tools)) /\ SameCounts(x, y)
             /\ Gathered(tools, UpTo(tools, i, 0), x.policy_findings, x.recommendations)
                => Gathered(tools, UpTo(tools, i + 1, 0), y.policy_findings, y.recommendations)
  <1> DEFINE S == Figures(Listed(tools))
             results == tools[i].results
             n == Len(results)
             y == AddFindings(x, i, results)
             Joined(k, z) == Gathered(tools, UpTo(tools, i, k), z.policy_findings, z.recommendations)
  <1>1. n \in Nat /\ i \in Nat
    BY DEF AreRows
  <1>2. ASSUME NEW k \in 1..n, NEW z \in S
        PROVE  /\ AddFinding(z, i, results[k]) \in S /\ SameCounts(z, AddFinding(z, i, results[k]))
               /\ Joined(k - 1, z) => Joined(k, AddFinding(z, i, results[k]))
    BY FindingJoins
  <1>3. x \in S
    OBVIOUS
  <1> HIDE DEF S, results, Joined
  <1>4. PICK g \in [0..n -> S] :
          /\ g[0] = x /\ y = g[n]
          /\ \A k \in 1..n : g[k] = AddFinding(g[k - 1], i, results[k])
    <2>1. StayIn(S, i, results)
      BY <1>2 DEF StayIn
    <2>2. Len(results) \in Nat
      BY <1>1
    <2>3. PICK g : ResultByResult(S, x, i, results, g) /\ y = g[Len(results)]
      <3> HIDE DEF n
      <3> QED BY <1>3, <2>1, <2>2, FindingsAreSteps
    <2> HIDE DEF y
    <2> QED BY <2>3 DEF ResultByResult
  <1> HIDE DEF y, n
  <1> DEFINE D == {k \in 0..n : SameCounts(x, g[k]) /\ (Joined(0, x) => Joined(k, g[k]))}
  <1>5. 0 \in D
    BY <1>1, <1>3, <1>4 DEF SameCounts
  <1>6. ASSUME NEW k \in 0..(n - 1), k \in D PROVE k + 1 \in D
    <2>1. k + 1 \in 1..n /\ (k + 1) - 1 = k /\ k \in 0..n /\ k + 1 \in 0..n
      BY <1>1
    <2>2. g[k + 1] = AddFinding(g[k], i, results[k + 1]) /\ g[k] \in S
      BY <1>4, <2>1
    <2>3. (Joined(0, x) => Joined(k, g[k])) /\ SameCounts(x, g[k])
      BY <1>6
    <2>4. (Joined(0, x) => Joined(k + 1, g[k + 1])) /\ SameCounts(g[k], g[k + 1])
      BY <1>2, <2>1, <2>2, <2>3
    <2>5. SameCounts(x, g[k + 1])
      BY <2>3, <2>4 DEF SameCounts
    <2> QED BY <2>1, <2>4, <2>5
  <1>7. n \in D
    <2> HIDE DEF D
    <2>1. 0..n \subseteq D /\ n \in 0..n
      BY <1>1, <1>5, <1>6, Inductive
    <2> QED BY <2>1
  <1>8. y \in S /\ SameCounts(x, y) /\ (Joined(0, x) => Joined(n, y))
    BY <1>1, <1>4, <1>7
  <1>9. UpTo(tools, i, n) = UpTo(tools, i + 1, 0)
    <2>1. \A p \in Failures(tools) :
            /\ p[1] \in Nat /\ p[2] \in 1..Len(tools[p[1]].results)
            /\ p[2] \in Nat /\ p[2] # 0
      <3> TAKE p \in Failures(tools)
      <3>1. p[1] \in Nat /\ p[2] \in 1..Len(tools[p[1]].results) /\ p[2] \in Nat
        BY PlacesOfFindings
      <3> QED BY <3>1
    <2>2. \A p \in Failures(tools) : p[1] = i => p[2] <= n
      <3> TAKE p \in Failures(tools)
      <3>1. p[1] = i => p[2] \in 1..n
        BY <2>1 DEF n, results
      <3> QED BY <1>1, <3>1
    <2>3. ASSUME NEW p \in Failures(tools)
          PROVE  p[1] < i + 1 \/ (p[1] = i + 1 /\ p[2] <= 0) <=> p[1] < i \/ p[1] = i
      BY <1>1, <2>1
    <2> QED BY <2>2, <2>3 DEF UpTo
  <1> QED BY <1>8, <1>9 DEF S, Joined, y, results

\* the tools of a band, and the tools whose cost is unknown
OfBand(tools, b) == {j \in DOMAIN tools : tools[j].risk.band = b}
Unpriced(tools) == {j \in DOMAIN tools : ~tools[j].known}

\* the first of some tools that no other of them exceeds
IsHighest(tools, i, best) ==
  /\ best \in 0..i /\ (best = 0 => i = 0)
  /\ \A j \in 1..i : /\ tools[j].risk.score <= tools[best].risk.score
                     /\ j < best => tools[j].risk.score < tools[best].risk.score

BandTotal(counts) == counts["Low"] + counts["Moderate"] + counts["High"] + counts["Critical"]

\* sums of the first numbers of a sequence
AreSums(s, t) == t \in [0..Len(s) -> Nat] /\ t[0] = 0 /\ \A i \in 1..Len(s) : t[i] = t[i - 1] + s[i]

Costs(tools) == [i \in 1..Len(tools) |-> tools[i].cost]
UnknownCosts(tools) == [i \in 1..Len(tools) |-> IF tools[i].known THEN 0 ELSE tools[i].cost]

\* What the figures are after some tools, t and u the sums of their costs.
Counted(tools, i, t, u, x) ==
  /\ \A b \in Bands : x.counts_by_band[b] = Cardinality(OfBand(tools, b) \cap (1..i))
  /\ BandTotal(x.counts_by_band) = i
  /\ x.monthly_total + u[i] = t[i]
  /\ x.unknown_monthly_cost_count = Cardinality(Unpriced(tools) \cap (1..i))
  /\ IsHighest(tools, i, x.highest)

\* One number more is counted if it is in the set.
LEMMA OneMoreCounted ==
  ASSUME NEW T, NEW i \in Nat
  PROVE  /\ Cardinality(T \cap (1..i)) \in Nat
         /\ i + 1 \in T => Cardinality(T \cap (1..(i + 1))) = Cardinality(T \cap (1..i)) + 1
         /\ i + 1 \notin T => Cardinality(T \cap (1..(i + 1))) = Cardinality(T \cap (1..i))
  <1> DEFINE A == T \cap (1..i)
  <1>1. IsFiniteSet(1..i)
    BY FS_Interval
  <1>2. IsFiniteSet(A) /\ Cardinality(A) \in Nat
    BY <1>1, FS_Subset, FS_CardinalityType
  <1>3. 1..(i + 1) = 1..i \cup {i + 1} /\ i + 1 \notin 1..i
    OBVIOUS
  <1>4. ASSUME i + 1 \in T PROVE Cardinality(T \cap (1..(i + 1))) = Cardinality(A) + 1
    <2>1. T \cap (1..(i + 1)) = A \cup {i + 1} /\ i + 1 \notin A
      BY <1>3, <1>4
    <2> HIDE DEF A
    <2> QED BY <1>2, <2>1, FS_AddElement
  <1>5. ASSUME i + 1 \notin T PROVE T \cap (1..(i + 1)) = A
    BY <1>3, <1>5
  <1> QED BY <1>2, <1>4, <1>5

\* The bands have one tool more when one of them has.
LEMMA BandTotalGrows ==
  ASSUME NEW counts \in [Bands -> Nat], NEW b \in Bands
  PROVE  LET more == [counts EXCEPT ![b] = @ + 1]
         IN  more \in [Bands -> Nat] /\ BandTotal(more) = BandTotal(counts) + 1
  <1>1. /\ "Low" \in Bands /\ "Moderate" \in Bands /\ "High" \in Bands /\ "Critical" \in Bands
        /\ b \in {"Low", "Moderate", "High", "Critical"}
    BY DEF Bands
  <1>2. counts["Low"] \in Nat /\ counts["Moderate"] \in Nat /\ counts["High"] \in Nat
        /\ counts["Critical"] \in Nat
    BY <1>1
  <1> QED BY <1>1, <1>2 DEF BandTotal

\* A tool is counted, and the findings stay.
LEMMA ToolCounted ==
  ASSUME NEW tools, AreRows(tools), NEW i \in 1..Len(tools), NEW L, NEW x \in Figures(L),
         NEW t, AreSums(Costs(tools), t), NEW u, AreSums(UnknownCosts(tools), u),
         Counted(tools, i - 1, t, u, x)
  PROVE  LET y == CountTool(x, i, tools)
         IN  /\ y \in Figures(L) /\ Counted(tools, i, t, u, y)
             /\ y.policy_findings = x.policy_findings
             /\ y.recommendations = x.recommendations
  <1> DEFINE y == CountTool(x, i, tools)
             row == tools[i]
             h == i - 1
             counts == x.counts_by_band
             more == [counts EXCEPT ![row.risk.band] = @ + 1]
             spent == x.monthly_total + KnownCost(row)
             unknown == IF row.known THEN x.unknown_monthly_cost_count
                        ELSE x.unknown_monthly_cost_count + 1
             best == Higher(tools, x.highest, i)
  <1>1. /\ row.cost \in Nat /\ row.known \in BOOLEAN /\ row.risk.band \in Bands
        /\ \A j \in 1..Len(tools) : tools[j].risk.score \in Nat
        /\ Len(tools) \in Nat /\ DOMAIN tools = 1..Len(tools)
    BY DEF AreRows
  <1>2. h \in Nat /\ h + 1 = i /\ i \in Nat /\ h <= Len(tools)
    BY <1>1
  <1>3. /\ counts \in [Bands -> Nat] /\ x.monthly_total \in Nat
        /\ x.unknown_monthly_cost_count \in Nat /\ x.highest \in Nat
    BY DEF Figures
  <1>4. Counted(tools, h, t, u, x)
    OBVIOUS
  <1> HIDE DEF h, row
  <1>5. more \in [Bands -> Nat] /\ BandTotal(more) = BandTotal(counts) + 1
    BY <1>1, <1>3, BandTotalGrows
  <1>6. ASSUME NEW b \in Bands PROVE more[b] = Cardinality(OfBand(tools, b) \cap (1..i))
    <2> DEFINE T == OfBand(tools, b)
    <2>1. i \in T <=> row.risk.band = b
      BY <1>1 DEF OfBand, row
    <2>2. more[b] = IF row.risk.band = b THEN counts[b] + 1 ELSE counts[b]
      BY <1>1, <1>3
    <2>3. counts[b] = Cardinality(T \cap (1..h))
      BY <1>4 DEF Counted
    <2> HIDE DEF T, more, counts
    <2>4. /\ i \in T => Cardinality(T \cap (1..i)) = Cardinality(T \cap (1..h)) + 1
          /\ i \notin T => Cardinality(T \cap (1..i)) = Cardinality(T \cap (1..h))
      BY <1>2, OneMoreCounted
    <2> QED BY <2>1, <2>2, <2>3, <2>4 DEF T
  <1>7. unknown \in Nat /\ unknown = Cardinality(Unpriced(tools) \cap (1..i))
    <2> DEFINE T == Unpriced(tools)
    <2>1. i \in T <=> ~row.known
      BY <1>1 DEF Unpriced, row
    <2>2. x.unknown_monthly_cost_count = Cardinality(T \cap (1..h))
      BY <1>4 DEF Counted
    <2> HIDE DEF T
    <2>3. /\ i \in T => Cardinality(T \cap (1..i)) = Cardinality(T \cap (1..h)) + 1
          /\ i \notin T => Cardinality(T \cap (1..i)) = Cardinality(T \cap (1..h))
      BY <1>2, OneMoreCounted
    <2> QED BY <1>3, <2>1, <2>2, <2>3 DEF T
  <1>8. spent \in Nat /\ spent + u[i] = t[i]
    <2>1. Len(Costs(tools)) = Len(tools) /\ Len(UnknownCosts(tools)) = Len(tools)
      BY <1>1 DEF Costs, UnknownCosts
    <2>2. t \in [0..Len(tools) -> Nat] /\ u \in [0..Len(tools) -> Nat]
      BY <2>1 DEF AreSums
    <2>3. t[i] = t[h] + Costs(tools)[i] /\ u[i] = u[h] + UnknownCosts(tools)[i]
      BY <2>1 DEF AreSums, h
    <2>4. /\ Costs(tools)[i] = row.cost
          /\ UnknownCosts(tools)[i] = IF row.known THEN 0 ELSE row.cost
      BY DEF Costs, UnknownCosts, row
    <2>5. KnownCost(row) = IF row.known THEN row.cost ELSE 0
      BY DEF KnownCost
    <2>6. x.monthly_total + u[h] = t[h]
      BY <1>4 DEF Counted
    <2>7. t[h] \in Nat /\ u[h] \in Nat
      BY <1>1, <1>2, <2>2
    <2>8. \A a, c, d, e \in Nat :
            a + d = c => /\ a + e \in Nat /\ a + 0 \in Nat
                         /\ a + e + (d + 0) = c + e /\ a + 0 + (d + e) = c + e
      OBVIOUS
    <2> DEFINE a == x.monthly_total
               e == row.cost
               c == t[h]
               d == u[h]
    <2>9. a \in Nat /\ e \in Nat /\ c \in Nat /\ d \in Nat /\ a + d = c
      BY <1>1, <1>3, <2>6, <2>7
    <2> HIDE DEF a, c, d, e
    <2>10. /\ a + e \in Nat /\ a + 0 \in Nat
           /\ a + e + (d + 0) = c + e /\ a + 0 + (d + e) = c + e
      BY <2>8, <2>9
    <2>11. CASE row.known
      <3>1. spent = a + e /\ t[i] = c + e /\ u[i] = d + 0
        BY <2>3, <2>4, <2>5, <2>11 DEF a, c, d, e
      <3> HIDE DEF spent
      <3> QED BY <2>10, <3>1
    <2>12. CASE ~row.known
      <3>1. spent = a + 0 /\ t[i] = c + e /\ u[i] = d + e
        BY <2>3, <2>4, <2>5, <2>12 DEF a, c, d, e
      <3> HIDE DEF spent
      <3> QED BY <2>10, <3>1
    <2> QED BY <2>11, <2>12
  <1>9. IsHighest(tools, i, best) /\ best \in Nat
    <2>1. IsHighest(tools, h, x.highest)
      BY <1>4 DEF Counted
    <2>2. \A j \in 1..i : j = i \/ j \in 1..h
      BY <1>2
    <2>3. CASE x.highest = 0
      <3>1. h = 0 /\ best = i
        BY <2>1, <2>3 DEF IsHighest, Higher
      <3>2. \A j \in 1..i : j = i
        BY <1>2, <3>1
      <3> HIDE DEF best
      <3> QED BY <1>1, <1>2, <3>1, <3>2 DEF IsHighest
    <2>4. CASE x.highest # 0
      <3> DEFINE old == x.highest
                 Score(j) == tools[j].risk.score
      <3>1. old \in 1..h /\ \A j \in 1..h : Score(j) <= Score(old) /\ (j < old => Score(j) < Score(old))
        BY <1>2, <2>1, <2>4 DEF IsHighest
      <3>2. best = IF Score(i) > Score(old) THEN i ELSE old
        BY <2>4 DEF Higher
      <3>3. \A j \in 1..i : Score(j) \in Nat
        BY <1>1, <1>2
      <3>4. best \in 1..i /\ \A j \in 1..i : Score(j) <= Score(best) /\ (j < best => Score(j) < Score(best))
        <4> HIDE DEF Score, best, old
        <4>1. CASE Score(i) > Score(old)
          <5>1. best = i
            BY <3>2, <4>1
          <5>2. \A j \in 1..h : Score(j) < Score(i)
            BY <1>2, <3>1, <3>3, <4>1
          <5> QED BY <1>2, <2>2, <3>3, <5>1, <5>2
        <4>2. CASE ~(Score(i) > Score(old))
          <5>1. best = old
            BY <3>2, <4>2
          <5>2. Score(i) <= Score(old) /\ ~(i < old)
            BY <1>2, <3>1, <3>3, <4>2
          <5> QED BY <1>2, <2>2, <3>1, <5>1, <5>2
        <4> QED BY <4>1, <4>2
      <3> HIDE DEF best, old
      <3> QED BY <1>2, <3>4 DEF IsHighest
    <2> QED BY <2>3, <2>4
  <1>10. y = [x EXCEPT !.counts_by_band = more, !.monthly_total = spent,
                       !.unknown_monthly_cost_count = unknown, !.highest = best]
    BY DEF CountTool, row, Figures
  <1> HIDE DEF y, more, spent, unknown, best
  <1>11. /\ y \in Figures(L) /\ y.policy_findings = x.policy_findings
         /\ y.recommendations = x.recommendations /\ y.counts_by_band = more
         /\ y.monthly_total = spent /\ y.unknown_monthly_cost_count = unknown /\ y.highest = best
    BY <1>5, <1>7, <1>8, <1>9, <1>10 DEF Figures
  <1>12. BandTotal(counts) = h
    BY <1>4 DEF Counted
  <1>13. Counted(tools, i, t, u, y)
    BY <1>2, <1>5, <1>6, <1>7, <1>8, <1>9, <1>11, <1>12 DEF Counted
  <1> QED BY <1>11, <1>13 DEF y

\* The figures stay figures when a tool is counted.
LEMMA CountIsTyped ==
  ASSUME NEW tools, AreRows(tools), NEW i \in 1..Len(tools), NEW L, NEW x \in Figures(L)
  PROVE  CountTool(x, i, tools) \in Figures(L)
  <1> DEFINE more == [x.counts_by_band EXCEPT ![tools[i].risk.band] = @ + 1]
             spent == x.monthly_total + KnownCost(tools[i])
             unknown == IF tools[i].known THEN x.unknown_monthly_cost_count
                        ELSE x.unknown_monthly_cost_count + 1
             best == Higher(tools, x.highest, i)
  <1>1. more \in [Bands -> Nat]
    BY BandTotalGrows DEF AreRows, Figures
  <1>2. spent \in Nat /\ unknown \in Nat /\ best \in Nat
    BY DEF AreRows, Figures, KnownCost, Higher
  <1>3. CountTool(x, i, tools)
          = [x EXCEPT !.counts_by_band = more, !.monthly_total = spent,
                      !.unknown_monthly_cost_count = unknown, !.highest = best]
    BY DEF CountTool, Figures
  <1> HIDE DEF more, spent, unknown, best
  <1> QED BY <1>1, <1>2, <1>3 DEF Figures

\* The figures before the first tool.
LEMMA NothingCounted ==
  ASSUME NEW L
  PROVE  NoFigures \in Figures(L)
  <1>1. <<>> \in Seq(L)
    OBVIOUS
  <1>2. [b \in {"Low", "Moderate", "High", "Critical"} |-> 0] \in [Bands -> Nat]
    BY DEF Bands
  <1> QED BY <1>1, <1>2 DEF NoFigures, Figures

\* the loop over the tools, one by one
NextTool(tools, y, i) == AddFindings(CountTool(y, i, tools), i, tools[i].results)

ToolByTool(S, tools, g) ==
  /\ g \in [0..Len(tools) -> S] /\ g[0] = NoFigures
  /\ \A i \in 1..Len(tools) : g[i] = NextTool(tools, g[i - 1], i)

LEMMA ToolsAreSteps ==
  ASSUME NEW S, NoFigures \in S, NEW tools, Len(tools) \in Nat,
         \A i \in 1..Len(tools), y \in S : NextTool(tools, y, i) \in S
  PROVE  \E g : ToolByTool(S, tools, g) /\ BuildReportContext(tools) = g[Len(tools)]
  <1> DEFINE n == Len(tools)
             step == [i \in 1..n |-> [y \in S |-> NextTool(tools, y, i)]]
             body(g) == [i \in 0..n |-> IF i = 0 THEN NoFigures ELSE NextTool(tools, g[i - 1], i)]
             after == CHOOSE g : g = body(g)
  <1>1. n \in Nat
    OBVIOUS
  <1> HIDE DEF n
  <1>2. step \in [1..n -> [S -> S]]
    BY DEF n
  <1>3. PICK g \in [0..n -> S] : g[0] = NoFigures /\ \A i \in 1..n : g[i] = step[i][g[i - 1]]
    <2> HIDE DEF step
    <2>1. Computed(n, S, NoFigures, step) # {}
      BY <1>1, <1>2, StepsExist
    <2> QED BY <2>1 DEF Computed
  <1>4. ASSUME NEW i \in 1..n PROVE g[i] = NextTool(tools, g[i - 1], i)
    <2>1. g[i - 1] \in S
      BY <1>1, <1>3
    <2> QED BY <1>3, <2>1
  <1>5. g = body(g)
    <2> HIDE DEF step
    <2> QED BY <1>1, <1>3, <1>4
  <1>6. after = body(after)
    <2> HIDE DEF body
    <2> QED BY <1>5
  <1>7. BuildReportContext(tools) = after[n]
    BY DEF BuildReportContext, NextTool, n
  <1> HIDE DEF after, step
  <1>8. after[0] = NoFigures /\ \A i \in 1..n : after[i] = NextTool(tools, after[i - 1], i)
    BY <1>1, <1>6
  <1> DEFINE D == {i \in 0..n : after[i] = g[i]}
  <1>9. n \in D
    <2>1. 0 \in D
      BY <1>1, <1>3, <1>8
    <2>2. ASSUME NEW i \in 0..(n - 1), i \in D PROVE i + 1 \in D
      <3>1. i + 1 \in 1..n /\ (i + 1) - 1 = i /\ i + 1 \in 0..n
        BY <1>1
      <3> QED BY <1>4, <1>8, <2>2, <3>1
    <2> HIDE DEF D
    <2>3. 0..n \subseteq D
      BY <1>1, <2>1, <2>2, Inductive
    <2>4. n \in 0..n
      BY <1>1
    <2> QED BY <2>3, <2>4
  <1>10. ToolByTool(S, tools, g)
    BY <1>3, <1>4 DEF n, ToolByTool
  <1>11. BuildReportContext(tools) = g[Len(tools)]
    BY <1>7, <1>9 DEF n
  <1> QED BY <1>10, <1>11

\* A total is the last of the sums.
LEMMA SumsOf ==
  ASSUME NEW s \in Seq(Nat)
  PROVE  \E t : AreSums(s, t) /\ Total(s) = t[Len(s)]
  BY TotalAdds DEF AreSums

\* The figures of a report are those of all its tools and all their findings.
LEMMA AllCounted ==
  ASSUME NEW tools, AreRows(tools)
  PROVE  LET x == BuildReportContext(tools)
         IN  /\ x \in Figures(Listed(tools))
             /\ Gathered(tools, Failures(tools), x.policy_findings, x.recommendations)
             /\ \E t, u : /\ AreSums(Costs(tools), t) /\ AreSums(UnknownCosts(tools), u)
                          /\ Total(Costs(tools)) = t[Len(tools)]
                          /\ Total(UnknownCosts(tools)) = u[Len(tools)]
                          /\ Counted(tools, Len(tools), t, u, x)
  <1> DEFINE n == Len(tools)
             L == Listed(tools)
             S == Figures(L)
             x == BuildReportContext(tools)
             Joined(i, z) == Gathered(tools, UpTo(tools, i + 1, 0), z.policy_findings, z.recommendations)
  <1>1. n \in Nat
    BY DEF AreRows
  <1>2. /\ Costs(tools) \in Seq(Nat) /\ UnknownCosts(tools) \in Seq(Nat)
        /\ Len(Costs(tools)) = n /\ Len(UnknownCosts(tools)) = n
    BY <1>1 DEF AreRows, Costs, UnknownCosts
  <1>3. PICK t : AreSums(Costs(tools), t) /\ Total(Costs(tools)) = t[n]
    BY <1>2, SumsOf
  <1>4. PICK u : AreSums(UnknownCosts(tools), u) /\ Total(UnknownCosts(tools)) = u[n]
    BY <1>2, SumsOf
  <1>5. ASSUME NEW i \in 1..n, NEW z \in S
        PROVE  /\ NextTool(tools, z, i) \in S
               /\ Counted(tools, i - 1, t, u, z) => Counted(tools, i, t, u, NextTool(tools, z, i))
               /\ Joined(i - 1, z) => Joined(i, NextTool(tools, z, i))
    <2> DEFINE c == CountTool(z, i, tools)
               y == AddFindings(c, i, tools[i].results)
    <2>1. c \in S
      BY CountIsTyped
    <2>2. NextTool(tools, z, i) = y
      BY DEF NextTool
    <2>3. ASSUME Counted(tools, i - 1, t, u, z) PROVE Counted(tools, i, t, u, c)
      BY <1>3, <1>4, <2>3, ToolCounted
    <2>4. c.policy_findings = z.policy_findings /\ c.recommendations = z.recommendations
      <3> HIDE DEF L
      <3> QED BY DEF CountTool, Figures
    <2> HIDE DEF c
    <2>5. /\ y \in S /\ SameCounts(c, y)
          /\ Gathered(tools, UpTo(tools, i, 0), c.policy_findings, c.recommendations) => Joined(i, y)
      BY <2>1, FindingsJoin
    <2> HIDE DEF y, S
    <2>6. Counted(tools, i, t, u, c) => Counted(tools, i, t, u, y)
      BY <2>5 DEF SameCounts, Counted
    <2>7. (i - 1) + 1 = i
      BY <1>1
    <2> QED BY <2>2, <2>3, <2>4, <2>5, <2>6, <2>7
  <1>6. NoFigures \in S
    BY NothingCounted
  <1> HIDE DEF S, Joined
  <1>7. PICK g : ToolByTool(S, tools, g) /\ x = g[n]
    <2>1. \A i \in 1..Len(tools), y \in S : NextTool(tools, y, i) \in S
      BY <1>5
    <2> HIDE DEF x
    <2> QED BY <1>1, <1>6, <2>1, ToolsAreSteps DEF x
  <1>8. /\ g \in [0..n -> S] /\ g[0] = NoFigures
        /\ \A i \in 1..n : g[i] = NextTool(tools, g[i - 1], i)
    BY <1>7 DEF ToolByTool
  <1> HIDE DEF x, n
  <1> DEFINE D == {i \in 0..n : Counted(tools, i, t, u, g[i]) /\ Joined(i, g[i])}
  <1>9. 0 \in D
    <2>1. 1..0 = {} /\ 0 \in 0..n /\ 0 + 1 = 1
      BY <1>1
    <2>2. \A T : Cardinality(T \cap {}) = 0
      BY FS_EmptySet
    <2>3. /\ \A b \in Bands : NoFigures.counts_by_band[b] = 0
          /\ BandTotal(NoFigures.counts_by_band) = 0 /\ NoFigures.monthly_total = 0
          /\ NoFigures.unknown_monthly_cost_count = 0 /\ NoFigures.highest = 0
          /\ NoFigures.policy_findings = <<>> /\ NoFigures.recommendations = <<>>
      BY DEF NoFigures, Bands, BandTotal
    <2>4. t[0] = 0 /\ u[0] = 0
      BY <1>3, <1>4 DEF AreSums
    <2>5. IsHighest(tools, 0, 0)
      BY <2>1 DEF IsHighest
    <2>6. Counted(tools, 0, t, u, NoFigures)
      BY <2>1, <2>2, <2>3, <2>4, <2>5 DEF Counted
    <2>7. UpTo(tools, 1, 0) = {}
      <3>1. ASSUME NEW p \in Failures(tools) PROVE ~(p[1] < 1 \/ (p[1] = 1 /\ p[2] <= 0))
        <4>1. p[1] \in 1..Len(tools) /\ p[2] \in 1..Len(tools[p[1]].results)
          BY PlacesOfFindings
        <4> QED BY <4>1
      <3> QED BY <3>1 DEF UpTo
    <2>8. Joined(0, NoFigures)
      <3>1. IsFiniteSet({}) /\ Cardinality({}) = 0
        BY FS_EmptySet
      <3>2. Len(<<>>) = 0
        OBVIOUS
      <3>3. Gathered(tools, {}, <<>>, <<>>)
        BY <2>1, <3>1, <3>2 DEF Gathered
      <3> QED BY <2>1, <2>3, <2>7, <3>3 DEF Joined
    <2> QED BY <1>8, <2>1, <2>6, <2>8
  <1>10. ASSUME NEW i \in 0..(n - 1), i \in D PROVE i + 1 \in D
    <2>1. i + 1 \in 1..n /\ (i + 1) - 1 = i /\ i \in 0..n /\ i + 1 \in 0..n
      BY <1>1
    <2>2. g[i + 1] = NextTool(tools, g[i], i + 1) /\ g[i] \in S
      BY <1>8, <2>1
    <2>3. Counted(tools, i, t, u, g[i]) /\ Joined(i, g[i])
      BY <1>10
    <2>4. Counted(tools, i + 1, t, u, g[i + 1]) /\ Joined(i + 1, g[i + 1])
      BY <1>5, <2>1, <2>2, <2>3
    <2> QED BY <2>1, <2>4
  <1>11. n \in D /\ n \in 0..n
    <2> HIDE DEF D
    <2>1. 0..n \subseteq D
      BY <1>1, <1>9, <1>10, Inductive
    <2>2. n \in 0..n
      BY <1>1
    <2> QED BY <2>1, <2>2
  <1>12. x \in S /\ Counted(tools, n, t, u, x) /\ Joined(n, x)
    BY <1>7, <1>8, <1>11
  <1>13. UpTo(tools, n + 1, 0) = Failures(tools)
    <2>1. ASSUME NEW p \in Failures(tools) PROVE p[1] < n + 1
      <3>1. p[1] \in 1..n
        BY PlacesOfFindings DEF n
      <3> QED BY <1>1, <3>1
    <2> QED BY <2>1 DEF UpTo
  <1>14. Gathered(tools, Failures(tools), x.policy_findings, x.recommendations)
    BY <1>12, <1>13 DEF Joined
  <1> QED BY <1>3, <1>4, <1>12, <1>14 DEF n, x, S

\* The figures of rows belong together.
LEMMA FiguresOfRows ==
  ASSUME AreRows(Rows(asked.tools, asked.rules)),
         answer = BuildReportContext(Rows(asked.tools, asked.rules)),
         Len(Rows(asked.tools, asked.rules)) # 0
  PROVE  ReportAddsUp
  <1> DEFINE tools == Rows(asked.tools, asked.rules)
             n == Len(tools)
             L == Listed(tools)
             listed == answer.policy_findings
             recommended == answer.recommendations
             F == Failures(tools)
             h == answer.highest
  <1>1. AreRows(tools) /\ answer = BuildReportContext(tools) /\ n # 0
    OBVIOUS
  <1> HIDE DEF tools
  <1>2. n \in Nat /\ DOMAIN tools = 1..n
    BY <1>1 DEF AreRows
  <1>3. /\ answer \in Figures(Listed(tools)) /\ Gathered(tools, F, listed, recommended)
        /\ \E t, u : /\ AreSums(Costs(tools), t) /\ AreSums(UnknownCosts(tools), u)
                     /\ Total(Costs(tools)) = t[n] /\ Total(UnknownCosts(tools)) = u[n]
                     /\ Counted(tools, n, t, u, answer)
    BY <1>1, AllCounted
  <1>4. PICK t, u : /\ Total(Costs(tools)) = t[n] /\ Total(UnknownCosts(tools)) = u[n]
                    /\ Counted(tools, n, t, u, answer)
    BY <1>3
  <1>5. listed \in Seq(L) /\ recommended \in Seq(L)
    <2> HIDE DEF L
    <2>1. answer \in Figures(L)
      BY <1>3 DEF L
    <2> QED BY <2>1 DEF Figures
  <1>6. DOMAIN listed = 1..Len(listed) /\ DOMAIN recommended = 1..Len(recommended)
    <2> HIDE DEF L, listed, recommended
    <2> QED BY <1>5
  <1> HIDE DEF n, L, F
  <1>7. ASSUME NEW T, T \subseteq 1..n PROVE T \cap (1..n) = T
    BY <1>7
  <1>8. \A b \in Bands :
          answer.counts_by_band[b] = Cardinality({i \in DOMAIN tools : tools[i].risk.band = b})
    <2> TAKE b \in Bands
    <2>1. OfBand(tools, b) \cap (1..n) = OfBand(tools, b)
      BY <1>2, <1>7 DEF OfBand
    <2> QED BY <1>4, <2>1 DEF Counted, OfBand
  <1>9. answer.counts_by_band["Low"] + answer.counts_by_band["Moderate"]
          + answer.counts_by_band["High"] + answer.counts_by_band["Critical"] = n
    BY <1>4 DEF Counted, BandTotal
  <1>10. /\ h \in DOMAIN tools
         /\ \A i \in DOMAIN tools : /\ tools[i].risk.score <= tools[h].risk.score
                                    /\ i < h => tools[i].risk.score < tools[h].risk.score
    <2>1. IsHighest(tools, n, h)
      BY <1>4 DEF Counted
    <2>2. n # 0
      BY <1>1 DEF n
    <2> HIDE DEF h
    <2> QED BY <1>2, <2>1, <2>2 DEF IsHighest
  <1>11. answer.monthly_total
           + Total([i \in 1..Len(tools) |-> IF tools[i].known THEN 0 ELSE tools[i].cost])
           = Total([i \in 1..Len(tools) |-> tools[i].cost])
    BY <1>4 DEF Counted, Costs, UnknownCosts
  <1>12. answer.unknown_monthly_cost_count = Cardinality({i \in DOMAIN tools : ~tools[i].known})
    <2>1. Unpriced(tools) \cap (1..n) = Unpriced(tools)
      BY <1>2, <1>7 DEF Unpriced
    <2> QED BY <1>4, <2>1 DEF Counted, Unpriced
  <1>13. Len(listed) = Cardinality(F)
    BY <1>3 DEF Gathered
  <1> DEFINE Finding(i, k) == [of |-> i, finding |-> tools[i].results[k]]
  <1>14. \A p : Found(tools, p) = Finding(p[1], p[2])
    BY DEF Found
  <1>15. \A p \in F : \E m \in DOMAIN listed : listed[m] = Finding(p[1], p[2])
    <2> HIDE DEF listed, Finding
    <2> QED BY <1>3, <1>6, <1>14 DEF Gathered
  <1>16. ASSUME NEW p \in F
         PROVE  \E m \in DOMAIN recommended :
                  Advice(p[1], tools[p[1]].results[p[2]].remediation) = {m}
    <2> DEFINE f == Found(tools, p)
    <2>1. PICK m \in 1..Len(recommended) : SameAdvice(recommended[m], f)
      BY <1>3 DEF Gathered
    <2>2. \A k \in 1..Len(recommended) : SameAdvice(recommended[k], f) => k = m
      <3>1. \A k \in 1..Len(recommended) : SameAdvice(recommended[k], recommended[m]) => k = m
        BY <1>3 DEF Gathered
      <3> HIDE DEF f, recommended
      <3> QED BY <2>1, <3>1, AdviceIsShared
    <2>3. Advice(p[1], tools[p[1]].results[p[2]].remediation)
            = {k \in DOMAIN recommended : SameAdvice(recommended[k], f)}
      BY DEF Advice, SameAdvice, Found
    <2> HIDE DEF f, recommended
    <2>4. {k \in DOMAIN recommended : SameAdvice(recommended[k], f)} = {m}
      BY <1>6, <2>1, <2>2
    <2> QED BY <1>6, <2>3, <2>4
  <1>17. \A m \in DOMAIN recommended : \E p \in F :
           /\ recommended[m] = Finding(p[1], p[2])
           /\ \A q \in F : SameAdvice(Finding(q[1], q[2]), recommended[m]) => p[2] <= q[2]
    <2>1. \A m \in 1..Len(recommended) : \E p \in F :
            /\ recommended[m] = Found(tools, p)
            /\ \A q \in F : SameAdvice(Found(tools, q), recommended[m]) => p[2] <= q[2]
      BY <1>3 DEF Gathered
    <2> HIDE DEF recommended, Finding
    <2> QED BY <1>6, <1>14, <2>1
  <1> QED
    BY <1>8, <1>9, <1>10, <1>11, <1>12, <1>13, <1>15, <1>16, <1>17
    DEF ReportAddsUp, tools, n, listed, recommended, F, h, Finding

\* A score has a band.
LEMMA BandOfScore ==
  ASSUME NEW score \in 0..100
  PROVE  ClassifyRisk(score) \in Bands
  <1>1. score <= 24 \/ score \in 25..49 \/ score \in 50..74 \/ score >= 75
    OBVIOUS
  <1> QED BY <1>1 DEF ClassifyRisk, Bands

\* The rows of a snapshot are rows, whatever its tools and the rules.
LEMMA RowsAreRows ==
  ASSUME NEW tools \in Seq(ReportTools), NEW rules \in RuleSets
  PROVE  AreRows(Rows(tools, rules)) /\ Len(Rows(tools, rules)) = Len(tools)
  <1>0. \A score \in 0..100 : score \in Nat
    OBVIOUS
  <1> DEFINE rows == Rows(tools, rules)
  <1>1. Len(tools) \in Nat /\ DOMAIN tools = 1..Len(tools)
    OBVIOUS
  <1>2. DOMAIN rows = 1..Len(tools) /\ Len(rows) = Len(tools)
    BY <1>1 DEF Rows
  <1>3. ASSUME NEW i \in 1..Len(rows)
        PROVE  /\ rows[i].cost \in Nat /\ rows[i].known \in BOOLEAN
               /\ rows[i].risk.score \in Nat /\ rows[i].risk.band \in Bands
               /\ Len(rows[i].results) \in Nat
               /\ DOMAIN rows[i].results = 1..Len(rows[i].results)
    <2> DEFINE tool == tools[i].facts
               results == Evaluate(tool, rules)
               risk == PolicyRisk(results)
    <2>1. tools[i] \in ReportTools
      BY <1>2
    <2>2. tools[i].cost \in Nat /\ tools[i].known \in BOOLEAN
      BY <2>1, CalculationsAssumption
    <2>3. rows[i] = [cost |-> tools[i].cost, known |-> tools[i].known,
                     results |-> results, risk |-> risk]
      BY <1>1, <1>2 DEF Rows
    <2>4. Results(results)
      BY RuleSetTypes, AllEvaluated
    <2>5. Assess(tool, rules).score \in 0..100 /\ Assess(tool, rules) = risk
      BY AssessedScores DEF Assess
    <2>6. risk.band = ClassifyRisk(risk.score)
      BY DEF PolicyRisk
    <2> HIDE DEF risk, results, rows
    <2>7. risk.score \in 0..100
      BY <2>5
    <2>8. risk.score \in Nat /\ risk.band \in Bands
      <3>1. risk.score \in Nat
        BY <1>0, <2>7
      <3>2. ClassifyRisk(risk.score) \in Bands
        BY <2>7, BandOfScore
      <3> QED BY <2>6, <3>1, <3>2
    <2>9. Len(results) \in Nat /\ DOMAIN results = 1..Len(results)
      BY <2>4 DEF Results
    <2> QED BY <2>2, <2>3, <2>8, <2>9
  <1> HIDE DEF rows
  <1>4. AreRows(rows)
    BY <1>1, <1>2, <1>3 DEF AreRows
  <1> QED BY <1>2, <1>4 DEF rows

\* the answer is the report of the tools of the snapshot
ReportInv ==
  asked.of = "report" =>
    \E tools \in Seq(ReportTools), rules \in RuleSets :
      /\ asked = [of |-> "report", tools |-> tools, rules |-> rules] /\ Len(tools) # 0
      /\ answer = BuildReportContext(Rows(tools, rules))

\* The first question about a report, and a tool more.
LEMMA ReportAsked == AskReport => ReportInv'
  <1> SUFFICES ASSUME AskReport PROVE ReportInv'
    OBVIOUS
  <1>1. PICK tool \in ReportTools, rules \in RuleSets :
          /\ asked' = [of |-> "report", tools |-> <<tool>>, rules |-> rules]
          /\ answer' = BuildReportContext(Rows(<<tool>>, rules))
    BY DEF AskReport, Ask
  <1>2. <<tool>> \in Seq(ReportTools) /\ Len(<<tool>>) # 0
    OBVIOUS
  <1> QED BY <1>1, <1>2 DEF ReportInv

LEMMA ToolReported == ReportInv /\ ReportMore => ReportInv'
  <1> SUFFICES ASSUME ReportInv, ReportMore PROVE ReportInv'
    OBVIOUS
  <1>1. PICK tool \in ReportTools :
          /\ asked.of = "report"
          /\ asked' = [asked EXCEPT !.tools = Append(asked.tools, tool)]
          /\ answer' = BuildReportContext(Rows(Append(asked.tools, tool), asked.rules))
    BY DEF ReportMore, Ask
  <1>2. PICK tools \in Seq(ReportTools), rules \in RuleSets :
          asked = [of |-> "report", tools |-> tools, rules |-> rules] /\ Len(tools) # 0
    BY <1>1 DEF ReportInv
  <1> DEFINE more == Append(tools, tool)
  <1>3. more \in Seq(ReportTools) /\ Len(more) # 0
    OBVIOUS
  <1>4. asked.tools = tools /\ asked.rules = rules
    BY <1>2
  <1> HIDE DEF more
  <1>5. asked' = [of |-> "report", tools |-> more, rules |-> rules]
    BY <1>1, <1>2, <1>4 DEF more
  <1>6. answer' = BuildReportContext(Rows(more, rules))
    BY <1>1, <1>4 DEF more
  <1> QED BY <1>3, <1>5, <1>6 DEF ReportInv

LEMMA ReportedAddsUp == ReportInv => ReportAddsUp
  <1> SUFFICES ASSUME ReportInv, asked.of = "report" PROVE ReportAddsUp
    BY DEF ReportAddsUp
  <1>1. PICK tools \in Seq(ReportTools), rules \in RuleSets :
          /\ asked = [of |-> "report", tools |-> tools, rules |-> rules] /\ Len(tools) # 0
          /\ answer = BuildReportContext(Rows(tools, rules))
    BY DEF ReportInv
  <1>2. asked.tools = tools /\ asked.rules = rules
    BY <1>1
  <1>3. AreRows(Rows(tools, rules)) /\ Len(Rows(tools, rules)) = Len(tools)
    BY RowsAreRows
  <1> QED BY <1>1, <1>2, <1>3, FiguresOfRows

-----------------------------------------------------------------------------
\* the answer is the engine's to the amounts that were entered
RoiInv ==
  asked.of = "roi" =>
    \E i \in RoiInputs :
      asked = [of |-> "roi", inputs |-> i] /\ answer = CalculateRoi(i)

\* the same for a match
MatchInv ==
  asked.of = "match" =>
    \E catalog \in SUBSET Identifiers, candidates \in SUBSET Candidates :
      /\ asked = [of |-> "match", catalog |-> catalog, candidates |-> candidates]
      /\ answer = MatchProduct(catalog, candidates)

\* Every answer is that of the engine to the question as it is asked now.
Answered ==
  /\ asked.of \in {"nothing", "risk", "roi", "match", "root", "report"}
  /\ RoiInv /\ MatchInv /\ RiskInv /\ RootInv /\ ReportInv

\* No question has an answer yet; and every step asks and answers anew.
LEMMA AnsweredInit == CalcInit => Answered
  BY DEF CalcInit, Answered, RoiInv, MatchInv, RiskInv, RootInv, ReportInv, NoQuestion

LEMMA AnsweredNext == Answered /\ [CalcNext]_calcvars => Answered'
  <1> SUFFICES ASSUME Answered, [CalcNext]_calcvars PROVE Answered'
    OBVIOUS
  <1> USE DEF Answered, RoiInv, MatchInv, RiskInv, RootInv, ReportInv, Ask
  <1>1. CASE AskRisk
    <2>1. asked'.of = "risk"
      BY <1>1 DEF AskRisk
    <2>2. RiskInv'
      BY <1>1, RiskAsked
    <2> QED BY <2>1, <2>2
  <1>2. CASE GrantFact
    <2>1. PICK tool \in Tools, rules \in RuleSets, fact \in OfferedFacts :
            /\ With(tool, fact) \in Tools
            /\ asked' = [of |-> "risk", tool |-> With(tool, fact), rules |-> rules]
            /\ answer' = Assess(With(tool, fact), rules)
      BY <1>2, FactGranted
    <2>2. asked'.of = "risk"
      BY <2>1
    <2>3. RiskInv'
      BY <2>1
    <2> QED BY <2>2, <2>3
  <1>3. CASE AskRoi
    BY <1>3 DEF AskRoi
  <1>4. CASE AskMatch
    <2>1. PICK catalog \in SUBSET Identifiers :
            /\ asked' = [of |-> "match", catalog |-> catalog, candidates |-> {}]
            /\ answer' = MatchProduct(catalog, {})
      BY <1>4 DEF AskMatch
    <2>2. {} \in SUBSET Candidates
      OBVIOUS
    <2>3. asked'.of = "match"
      BY <2>1
    <2>4. MatchInv'
      BY <2>1, <2>2
    <2> QED BY <2>3, <2>4
  <1>5. CASE ClaimMore
    <2>1. PICK candidate \in Candidates :
            LET more == asked.candidates \cup {candidate}
            IN  /\ asked' = [asked EXCEPT !.candidates = more]
                /\ answer' = MatchProduct(asked.catalog, more)
      BY <1>5 DEF ClaimMore
    <2>2. PICK catalog, candidates :
            /\ catalog \in SUBSET Identifiers /\ candidates \in SUBSET Candidates
            /\ asked = [of |-> "match", catalog |-> catalog, candidates |-> candidates]
      BY <1>5 DEF ClaimMore
    <2> DEFINE more == candidates \cup {candidate}
    <2>3. /\ asked' = [of |-> "match", catalog |-> catalog, candidates |-> more]
          /\ answer' = MatchProduct(catalog, more)
      BY <2>1, <2>2
    <2>4. more \in SUBSET Candidates
      BY <2>2
    <2> HIDE DEF more
    <2>5. asked'.of = "match"
      BY <2>3
    <2>6. MatchInv'
      BY <2>2, <2>3, <2>4
    <2> QED BY <2>5, <2>6
  <1>6. CASE AskRoot
    <2>1. asked'.of = "root"
      BY <1>6 DEF AskRoot
    <2>2. RootInv'
      BY <1>6, RootAsked
    <2> HIDE DEF RootInv
    <2> QED BY <2>1, <2>2
  <1>7. CASE AppendEvent
    <2>1. asked'.of = "root"
      BY <1>7 DEF AppendEvent
    <2>2. RootInv'
      BY <1>7, EventAppended
    <2> HIDE DEF RootInv
    <2> QED BY <2>1, <2>2
  <1>8. CASE AskReport
    <2>1. asked'.of = "report"
      BY <1>8 DEF AskReport
    <2>2. ReportInv'
      BY <1>8, ReportAsked
    <2> HIDE DEF ReportInv
    <2> QED BY <2>1, <2>2
  <1>9. CASE ReportMore
    <2>1. asked'.of = "report"
      BY <1>9 DEF ReportMore
    <2>2. ReportInv'
      BY <1>9, ToolReported
    <2> HIDE DEF ReportInv
    <2> QED BY <2>1, <2>2
  <1>10. CASE UNCHANGED calcvars
    BY <1>10 DEF calcvars
  <1> HIDE DEF Answered, RoiInv, MatchInv, RiskInv, RootInv, ReportInv, Ask
  <1> QED
    BY <1>1, <1>2, <1>3, <1>4, <1>5, <1>6, <1>7, <1>8, <1>9, <1>10 DEF CalcNext

LEMMA AnsweredAddsUp == Answered => RoiAddsUp
  <1> SUFFICES ASSUME Answered, asked.of = "roi" PROVE RoiAddsUp
    BY DEF RoiAddsUp
  <1>1. PICK i \in RoiInputs : asked = [of |-> "roi", inputs |-> i] /\ answer = CalculateRoi(i)
    BY DEF Answered, RoiInv
  <1>2. i \in ROIForm
    BY CalculationsAssumption
  <1> QED BY <1>1, <1>2, RoiOfInputs

LEMMA AnsweredIsExact == Answered => MatchIsExact
  <1> SUFFICES ASSUME Answered, asked.of = "match" PROVE MatchIsExact
    BY DEF MatchIsExact
  <1> QED BY MatchOfCandidates DEF Answered, MatchInv

\* For any amounts ROIForm accepts the value, cost and net of a calculation
\* belong together, and every rounding is by half a unit at most on either side
\* of zero (calculate_roi).
THEOREM RoiFiguresAddUp == CalcSpec => []RoiAddsUp
  BY AnsweredAddsUp, AnsweredInit, AnsweredNext, PTL DEF CalcSpec

\* For any catalog and any claims a product is known, in doubt or unknown exactly
\* as verified identifiers name it (match_product).
THEOREM MatchesAreExact == CalcSpec => []MatchIsExact
  BY AnsweredIsExact, AnsweredInit, AnsweredNext, PTL DEF CalcSpec

\* For any tool, any facts about it and any rules of its organization, payroll or
\* payments that can leave without an approval are Critical, and with the pack
\* alone nothing else is; a score reaches every floor, exceeds them only by its
\* rounded points, and is at least what the pack alone says (calculate_risk).
THEOREM RiskStaysSound == CalcSpec => []RiskIsSound
<1>1. Answered => RiskIsSound
  BY AnsweredIsSound DEF Answered
<1> QED BY <1>1, AnsweredInit, AnsweredNext, PTL DEF CalcSpec

\* No fact that gives a tool access or takes a safeguard away lowers its score,
\* whatever the rules (evaluate_policies, calculate_risk).
THEOREM AccessNeverLowersRisk == CalcSpec => MoreAccessIsNoLessRisk
<1>1. Answered /\ [CalcNext]_calcvars => [RiskRises]_calcvars
  BY RiskGrows DEF Answered
<1> QED BY <1>1, AnsweredInit, AnsweredNext, PTL DEF CalcSpec, MoreAccessIsNoLessRisk

\* Whatever the events of two blocks, they have one root only if they are the same
\* events in the same order, and a root is that of the tree that is built level by
\* level (merkle_root).
THEOREM OneRootOneBlock == CalcSpec => []RootsBind
<1>1. Answered => RootsBind
  BY RootsOfBlocksBind DEF Answered
<1> QED BY <1>1, AnsweredInit, AnsweredNext, PTL DEF CalcSpec

\* Whatever the tools of a snapshot, their costs and the rules of its organization,
\* the figures of a report belong together: bands, highest risk, known and
\* unknown costs, the findings and one recommendation for each remediation of a
\* tool (build_report_context).
THEOREM ReportFiguresAddUp == CalcSpec => []ReportAddsUp
<1>1. Answered => ReportAddsUp
  BY ReportedAddsUp DEF Answered
<1> QED BY <1>1, AnsweredInit, AnsweredNext, PTL DEF CalcSpec

=============================================================================
