--------------------------- MODULE Finance_proofs ---------------------------
(***************************************************************************)
(* Proofs about Finance for every set of rows and prices, every calendar   *)
(* of months, every zone with one change of its offset and every length of *)
(* a day.                                                                  *)
(***************************************************************************)
EXTENDS Finance, FiniteSetTheorems, WellFoundedInduction, TLAPS

USE DatesAssumption

-----------------------------------------------------------------------------
(* Midnights and dates *)

(* The midnight of a date is an instant. *)
LEMMA MidnightIsInstant ==
    ASSUME NEW d \in Int
    PROVE  MidnightOf(d) \in Int
  BY DEF MidnightOf

(* The next midnight is a day later. *)
LEMMA MidnightStep ==
    ASSUME NEW d \in Int
    PROVE  MidnightOf(d + 1) = MidnightOf(d) + TicksPerDay
  BY DEF MidnightOf

(* Midnights come in the order of their dates, a day or more apart. *)
LEMMA MidnightOrder ==
    ASSUME NEW d \in Int, NEW e \in Int, d < e
    PROVE  MidnightOf(d) + TicksPerDay <= MidnightOf(e)
<1> DEFINE n == e - d - 1
<1>1. n \in Nat /\ e = d + 1 + n
  OBVIOUS
<1> HIDE DEF n
<1>2. n * TicksPerDay >= 0
  BY <1>1
<1>3. (d + 1 + n) * TicksPerDay
         = d * TicksPerDay + TicksPerDay + n * TicksPerDay
  BY <1>1
<1> QED BY <1>1, <1>2, <1>3 DEF MidnightOf

(* An instant lies between the midnight of its date and the next one. *)
LEMMA DateBounds ==
    ASSUME NEW t \in Int
    PROVE  /\ DateOf(t) \in Int
           /\ MidnightOf(DateOf(t)) <= t
           /\ t < MidnightOf(DateOf(t)) + TicksPerDay
  BY DEF DateOf, MidnightOf

(* No other date has it between its midnights. *)
LEMMA DateIs ==
    ASSUME NEW t \in Int, NEW d \in Int,
           MidnightOf(d) <= t, t < MidnightOf(d) + TicksPerDay
    PROVE  DateOf(t) = d
<1>1. ~(DateOf(t) < d)
  BY DateBounds, MidnightOrder, MidnightIsInstant
<1>2. ~(d < DateOf(t))
  BY DateBounds, MidnightOrder, MidnightIsInstant
<1> QED BY <1>1, <1>2, DateBounds

-----------------------------------------------------------------------------
(* Induction, on sets of numbers *)

(* A set of numbers that has 0, and with each number the next one, has all *)
(* of them.                                                                *)
LEMMA AllNumbers ==
    ASSUME NEW S, 0 \in S, \A n \in S \cap Nat : n + 1 \in S
    PROVE  Nat \subseteq S
<1> DEFINE T == Nat \ S
<1> SUFFICES ASSUME T # {}
             PROVE  FALSE
  OBVIOUS
<1>1. PICK n \in T : \A m \in T : << m, n >> \notin OpToRel(<, Nat)
  BY NatLessThanWellFounded, WFMin, T \subseteq Nat
<1>2. n \in Nat /\ n \notin S
  OBVIOUS
<1>3. n - 1 \in Nat
  BY <1>2
<1>4. << n - 1, n >> \in OpToRel(<, Nat)
  BY <1>2, <1>3 DEF OpToRel
<1>5. n - 1 \in S
  BY <1>1, <1>3, <1>4, Zenon
<1>6. (n - 1) + 1 \in S
  BY <1>3, <1>5
<1> QED BY <1>2, <1>6

(* A set of subsets of a finite set that has a set whenever it has those   *)
(* with one element less has all of them.                                  *)
LEMMA AllSubsets ==
    ASSUME NEW D, IsFiniteSet(D), NEW F,
           \A s \in SUBSET D : (\A x \in s : s \ {x} \in F) => s \in F
    PROVE  SUBSET D \subseteq F
<1> DEFINE S == { n \in Nat : \A s \in SUBSET D : Cardinality(s) = n => s \in F }
<1>1. \A s \in SUBSET D : IsFiniteSet(s) /\ Cardinality(s) \in Nat
  BY FS_Subset, FS_CardinalityType
<1>2. 0 \in S
  <2> SUFFICES ASSUME NEW s \in SUBSET D, Cardinality(s) = 0
               PROVE  s \in F
    OBVIOUS
  <2>1. s = {}
    BY <1>1, FS_EmptySet
  <2> QED BY <2>1
<1>3. ASSUME NEW n \in S \cap Nat
      PROVE  n + 1 \in S
  <2> SUFFICES ASSUME NEW s \in SUBSET D, Cardinality(s) = n + 1
               PROVE  s \in F
    OBVIOUS
  <2>1. ASSUME NEW x \in s
        PROVE  s \ {x} \in F
    <3>1. Cardinality(s \ {x}) = Cardinality(s) - 1
      BY <1>1, FS_RemoveElement
    <3>2. Cardinality(s \ {x}) = n
      BY <3>1
    <3> QED BY <3>2
  <2> QED BY <2>1
<1>4. Nat \subseteq S
  <2> HIDE DEF S
  <2> QED BY <1>2, <1>3, AllNumbers
<1> QED BY <1>1, <1>4

-----------------------------------------------------------------------------
(* Sums *)

Chosen(s) == CHOOSE x \in s : TRUE

(* What a fold makes of s, if f says what it makes of smaller sets *)
Adds(q, f, s) == IF s = {} THEN 0 ELSE q[Chosen(s)] + f[s \ {Chosen(s)}]

(* f is the sum of q over each subset of D. *)
IsSum(f, q, D) == \A s \in SUBSET D : f[s] = Adds(q, f, s)

(* f is what the recursive definition of a fold asks for. *)
IsFold(f, q, D) == f = [s \in SUBSET D |-> Adds(q, f, s)]

(* f is so for all subsets with less than n elements. *)
KnowsBelow(f, n, q, D) ==
    /\ f = [s \in SUBSET D |-> f[s]]
    /\ \A s \in SUBSET D : Cardinality(s) < n => f[s] = Adds(q, f, s)

(* One of the elements is chosen. *)
LEMMA ChosenIsElement ==
    ASSUME NEW s, s # {}
    PROVE  Chosen(s) \in s
  BY DEF Chosen

(* There is such a function. *)
LEMMA SumExists ==
    ASSUME NEW D, IsFiniteSet(D), NEW q
    PROVE  \E f : IsFold(f, q, D)
<1> DEFINE S == { n \in Nat : \E f : KnowsBelow(f, n, q, D) }
<1>1. \A s \in SUBSET D : IsFiniteSet(s) /\ Cardinality(s) \in Nat
  BY FS_Subset, FS_CardinalityType
<1>2. 0 \in S
  <2> DEFINE f == [s \in SUBSET D |-> 0]
  <2>1. f = [s \in SUBSET D |-> f[s]]
    OBVIOUS
  <2>2. \A s \in SUBSET D : ~(Cardinality(s) < 0)
    BY <1>1
  <2> HIDE DEF f
  <2> QED BY <2>1, <2>2 DEF KnowsBelow
<1>3. ASSUME NEW n \in S \cap Nat
      PROVE  n + 1 \in S
  <2>1. PICK f : KnowsBelow(f, n, q, D)
    OBVIOUS
  <2> DEFINE g == [s \in SUBSET D |->
                      IF Cardinality(s) = n THEN Adds(q, f, s) ELSE f[s]]
  <2>2. g = [s \in SUBSET D |-> g[s]]
    OBVIOUS
  <2>3. ASSUME NEW s \in SUBSET D, Cardinality(s) < n + 1
        PROVE  g[s] = Adds(q, g, s)
    <3>1. g[s] = Adds(q, f, s)
      <4>1. Cardinality(s) = n \/ Cardinality(s) < n
        BY <1>1, <2>3
      <4> QED BY <2>1, <4>1 DEF KnowsBelow
    <3>2. CASE s = {}
      BY <3>1, <3>2 DEF Adds
    <3>3. CASE s # {}
      <4> DEFINE r == s \ {Chosen(s)}
      <4>1. Chosen(s) \in s
        BY <3>3, ChosenIsElement
      <4>2. r \in SUBSET D /\ Cardinality(r) = Cardinality(s) - 1
        BY <1>1, <4>1, FS_RemoveElement
      <4>3. Cardinality(r) # n
        BY <1>1, <2>3, <4>2
      <4> HIDE DEF r
      <4>4. g[r] = f[r]
        BY <4>2, <4>3
      <4> QED BY <3>1, <4>4 DEF Adds, r
    <3> QED BY <3>2, <3>3
  <2> HIDE DEF g
  <2>4. KnowsBelow(g, n + 1, q, D)
    BY <2>2, <2>3 DEF KnowsBelow
  <2> QED BY <2>4
<1>4. Cardinality(D) + 1 \in S
  <2> HIDE DEF S
  <2>1. Nat \subseteq S
    BY <1>2, <1>3, AllNumbers
  <2> QED BY <1>1, <2>1
<1>5. PICK f : KnowsBelow(f, Cardinality(D) + 1, q, D)
  BY <1>4
<1>6. ASSUME NEW s \in SUBSET D
      PROVE  f[s] = Adds(q, f, s)
  <2>1. Cardinality(s) <= Cardinality(D)
    BY FS_Subset
  <2>2. Cardinality(s) < Cardinality(D) + 1
    BY <1>1, <2>1
  <2> QED BY <1>5, <2>2 DEF KnowsBelow
<1>7. [s \in SUBSET D |-> f[s]] = [s \in SUBSET D |-> Adds(q, f, s)]
  BY <1>6
<1> QED BY <1>5, <1>7 DEF KnowsBelow, IsFold

(* The sum of what a function has is what such a function says of its      *)
(* domain.                                                                 *)
LEMMA TotalIsSum ==
    ASSUME NEW D, IsFiniteSet(D), NEW q, DOMAIN q = D
    PROVE  \E f : IsSum(f, q, D) /\ Total(q) = f[D]
<1> DEFINE iter == CHOOSE f : IsFold(f, q, D)
<1>1. IsFold(iter, q, D)
  BY SumExists, Zenon
<1>2. Total(q) = iter[D]
  BY DEF Total, MapThenSumSet, MapThenFoldSet, IsFold, Adds, Chosen
<1> HIDE DEF iter
<1>3. \A s \in SUBSET D : iter[s] = Adds(q, iter, s)
  BY <1>1, Zenon DEF IsFold
<1> QED BY <1>2, <1>3 DEF IsSum

(* Functions that are alike have sums that are alike. *)
LEMMA SumsAgree ==
    ASSUME NEW D, IsFiniteSet(D), NEW q, NEW r, \A x \in D : q[x] = r[x],
           NEW f, IsSum(f, q, D), NEW g, IsSum(g, r, D)
    PROVE  f[D] = g[D]
<1> DEFINE F == { s \in SUBSET D : f[s] = g[s] }
<1>1. ASSUME NEW s \in SUBSET D, \A x \in s : s \ {x} \in F
      PROVE  s \in F
  <2>1. f[s] = Adds(q, f, s) /\ g[s] = Adds(r, g, s)
    BY DEF IsSum
  <2>2. CASE s = {}
    BY <2>1, <2>2 DEF Adds
  <2>3. CASE s # {}
    <3>1. Chosen(s) \in s /\ Chosen(s) \in D
      BY <2>3, ChosenIsElement
    <3>2. f[s \ {Chosen(s)}] = g[s \ {Chosen(s)}]
      BY <1>1, <3>1
    <3>3. q[Chosen(s)] = r[Chosen(s)]
      BY <3>1
    <3> QED BY <2>1, <3>2, <3>3 DEF Adds
  <2> QED BY <2>2, <2>3
<1>2. SUBSET D \subseteq F
  <2> HIDE DEF F
  <2> QED BY <1>1, AllSubsets
<1>3. D \in SUBSET D
  OBVIOUS
<1> QED BY <1>2, <1>3

(* The sum of what q has for the elements of D *)
TotalOf(q, D) == Total([x \in D |-> q[x]])

(* The sum of a subset is part of the sum of the set. *)
LEMMA SumOfSubset ==
    ASSUME NEW D, IsFiniteSet(D), NEW q, NEW f, IsSum(f, q, D),
           NEW S \in SUBSET D
    PROVE  TotalOf(q, S) = f[S]
<1> DEFINE p == [x \in S |-> q[x]]
<1>1. IsFiniteSet(S)
  BY FS_Subset
<1>2. DOMAIN p = S /\ \A x \in S : p[x] = q[x]
  OBVIOUS
<1> HIDE DEF p
<1>3. PICK g : IsSum(g, p, S) /\ Total(p) = g[S]
  BY <1>1, <1>2, TotalIsSum
<1>4. IsSum(f, q, S)
  BY DEF IsSum
<1>5. g[S] = f[S]
  BY <1>1, <1>2, <1>3, <1>4, SumsAgree
<1> QED BY <1>3, <1>5 DEF TotalOf, p

(* A sum takes its elements one by one, in the order they are chosen. *)
LEMMA TotalStep ==
    ASSUME NEW D, IsFiniteSet(D), NEW q
    PROVE  /\ D = {} => TotalOf(q, D) = 0
           /\ D # {} => TotalOf(q, D)
                           = q[Chosen(D)] + TotalOf(q, D \ {Chosen(D)})
<1> DEFINE p == [x \in D |-> q[x]]
           S == D \ {Chosen(D)}
<1>1. DOMAIN p = D /\ \A x \in D : p[x] = q[x]
  OBVIOUS
<1>2. D \in SUBSET D /\ S \in SUBSET D
  OBVIOUS
<1>3. TotalOf(q, D) = Total(p)
  BY DEF TotalOf
<1>4. TotalOf(q, S) = TotalOf(p, S)
  <2>1. [x \in S |-> q[x]] = [x \in S |-> p[x]]
    BY <1>1
  <2> QED BY <2>1 DEF TotalOf
<1> HIDE DEF p, S
<1>5. PICK f : IsSum(f, p, D) /\ Total(p) = f[D]
  BY <1>1, TotalIsSum
<1>6. f[D] = Adds(p, f, D)
  BY <1>2, <1>5 DEF IsSum
<1>7. TotalOf(p, S) = f[S]
  BY <1>2, <1>5, SumOfSubset
<1>8. CASE D = {}
  BY <1>3, <1>5, <1>6, <1>8 DEF Adds
<1>9. CASE D # {}
  <2>1. Chosen(D) \in D
    BY <1>9, ChosenIsElement
  <2> QED BY <1>1, <1>3, <1>4, <1>5, <1>6, <1>7, <1>9, <2>1 DEF Adds, S
<1> QED BY <1>8, <1>9

(* The sum of whole numbers is one. *)
LEMMA TotalType ==
    ASSUME NEW D, IsFiniteSet(D), NEW q, \A x \in D : q[x] \in Int
    PROVE  TotalOf(q, D) \in Int
<1> DEFINE F == { s \in SUBSET D : TotalOf(q, s) \in Int }
<1>1. ASSUME NEW s \in SUBSET D, \A x \in s : s \ {x} \in F
      PROVE  s \in F
  <2>1. IsFiniteSet(s)
    BY FS_Subset
  <2>2. CASE s = {}
    BY <2>1, <2>2, TotalStep
  <2>3. CASE s # {}
    <3>1. Chosen(s) \in s /\ q[Chosen(s)] \in Int
      BY <2>3, ChosenIsElement
    <3>2. TotalOf(q, s \ {Chosen(s)}) \in Int
      BY <1>1, <3>1
    <3>3. TotalOf(q, s) = q[Chosen(s)] + TotalOf(q, s \ {Chosen(s)})
      BY <2>1, <2>3, TotalStep
    <3> QED BY <3>1, <3>2, <3>3
  <2> QED BY <2>2, <2>3
<1>2. SUBSET D \subseteq F
  <2> HIDE DEF F
  <2> QED BY <1>1, AllSubsets
<1>3. D \in SUBSET D
  OBVIOUS
<1> QED BY <1>2, <1>3

(* ... and in every other order. *)
LEMMA TotalWithout ==
    ASSUME NEW D, IsFiniteSet(D), NEW q, \A x \in D : q[x] \in Int,
           NEW y \in D
    PROVE  TotalOf(q, D) = q[y] + TotalOf(q, D \ {y})
<1> DEFINE F == { s \in SUBSET D :
                    \A x \in s : TotalOf(q, s) = q[x] + TotalOf(q, s \ {x}) }
<1>1. ASSUME NEW s \in SUBSET D, \A x \in s : s \ {x} \in F
      PROVE  s \in F
  <2> SUFFICES ASSUME NEW x \in s
               PROVE  TotalOf(q, s) = q[x] + TotalOf(q, s \ {x})
    OBVIOUS
  <2> DEFINE c == Chosen(s)
  <2>1. IsFiniteSet(s) /\ c \in s
    BY FS_Subset, ChosenIsElement
  <2>2. TotalOf(q, s) = q[c] + TotalOf(q, s \ {c})
    BY <2>1, TotalStep
  <2> HIDE DEF c
  <2>3. CASE x = c
    BY <2>2, <2>3
  <2>4. CASE x # c
    <3> DEFINE rest == (s \ {c}) \ {x}
    <3>1. TotalOf(q, s \ {c}) = q[x] + TotalOf(q, rest)
      BY <1>1, <2>1, <2>4
    <3>2. TotalOf(q, s \ {x}) = q[c] + TotalOf(q, (s \ {x}) \ {c})
      BY <1>1, <2>1, <2>4
    <3>3. (s \ {x}) \ {c} = rest
      OBVIOUS
    <3>4. IsFiniteSet(rest) /\ rest \in SUBSET D
      BY <2>1, FS_Subset
    <3>5. \A z \in rest : q[z] \in Int
      BY <3>4
    <3> HIDE DEF rest
    <3>6. TotalOf(q, rest) \in Int
      BY <3>4, <3>5, TotalType
    <3>7. q[x] \in Int /\ q[c] \in Int
      BY <2>1
    <3>8. TotalOf(q, s \ {x}) = q[c] + TotalOf(q, rest)
      BY <3>2, <3>3
    <3> QED BY <2>2, <3>1, <3>6, <3>7, <3>8
  <2> QED BY <2>3, <2>4
<1>2. SUBSET D \subseteq F
  <2> HIDE DEF F
  <2> QED BY <1>1, AllSubsets
<1>3. D \in SUBSET D
  OBVIOUS
<1> QED BY <1>2, <1>3

(* A multiple of each is a multiple of the sum. *)
LEMMA TotalOfMultiples ==
    ASSUME NEW D, IsFiniteSet(D), NEW q, \A x \in D : q[x] \in Int,
           NEW k \in Int, NEW r, \A x \in D : r[x] = k * q[x]
    PROVE  TotalOf(r, D) = k * TotalOf(q, D)
<1> DEFINE F == { s \in SUBSET D : TotalOf(r, s) = k * TotalOf(q, s) }
<1>1. ASSUME NEW s \in SUBSET D, \A x \in s : s \ {x} \in F
      PROVE  s \in F
  <2>1. IsFiniteSet(s)
    BY FS_Subset
  <2>2. CASE s = {}
    <3>1. TotalOf(r, s) = 0 /\ TotalOf(q, s) = 0
      BY <2>1, <2>2, TotalStep
    <3>2. k * 0 = 0
      OBVIOUS
    <3> QED BY <3>1, <3>2
  <2>3. CASE s # {}
    <3> DEFINE c == Chosen(s)
    <3>1. c \in s /\ q[c] \in Int /\ r[c] = k * q[c]
      BY <2>3, ChosenIsElement
    <3>2. TotalOf(r, s \ {c}) = k * TotalOf(q, s \ {c})
      BY <1>1, <3>1
    <3>3. TotalOf(q, s \ {c}) \in Int
      BY <2>1, FS_Subset, TotalType
    <3>4. /\ TotalOf(q, s) = q[c] + TotalOf(q, s \ {c})
          /\ TotalOf(r, s) = r[c] + TotalOf(r, s \ {c})
      BY <2>1, <2>3, TotalStep
    <3> HIDE DEF c
    <3>5. k * (q[c] + TotalOf(q, s \ {c}))
             = k * q[c] + k * TotalOf(q, s \ {c})
      BY <3>1, <3>3
    <3> QED BY <3>1, <3>2, <3>4, <3>5
  <2> QED BY <2>2, <2>3
<1>2. SUBSET D \subseteq F
  <2> HIDE DEF F
  <2> QED BY <1>1, AllSubsets
<1>3. D \in SUBSET D
  OBVIOUS
<1> QED BY <1>2, <1>3

(* What is less for each is less for the sum. *)
LEMMA TotalIsLess ==
    ASSUME NEW D, IsFiniteSet(D),
           NEW q, \A x \in D : q[x] \in Int,
           NEW r, \A x \in D : r[x] \in Int
    PROVE  /\ (\A x \in D : q[x] <= r[x]) => TotalOf(q, D) <= TotalOf(r, D)
           /\ D # {} /\ (\A x \in D : q[x] < r[x])
                => TotalOf(q, D) < TotalOf(r, D)
<1> DEFINE Less(s) ==
              /\ (\A x \in s : q[x] <= r[x]) => TotalOf(q, s) <= TotalOf(r, s)
              /\ s # {} /\ (\A x \in s : q[x] < r[x])
                   => TotalOf(q, s) < TotalOf(r, s)
           F == { s \in SUBSET D : Less(s) }
<1>1. ASSUME NEW s \in SUBSET D, \A x \in s : s \ {x} \in F
      PROVE  s \in F
  <2>1. IsFiniteSet(s)
    BY FS_Subset
  <2>2. CASE s = {}
    BY <2>1, <2>2, TotalStep
  <2>3. CASE s # {}
    <3> DEFINE c == Chosen(s)
               t == s \ {c}
    <3>1. c \in s /\ q[c] \in Int /\ r[c] \in Int
      BY <2>3, ChosenIsElement
    <3>2. Less(t)
      BY <1>1, <3>1
    <3>3. TotalOf(q, t) \in Int /\ TotalOf(r, t) \in Int
      BY <2>1, FS_Subset, TotalType
    <3>4. /\ TotalOf(q, s) = q[c] + TotalOf(q, t)
          /\ TotalOf(r, s) = r[c] + TotalOf(r, t)
      BY <2>1, <2>3, TotalStep
    <3>5. t = {} => TotalOf(q, t) = 0 /\ TotalOf(r, t) = 0
      BY <2>1, FS_Subset, TotalStep
    <3>6. \A x \in t : x \in s
      OBVIOUS
    <3> HIDE DEF c, t
    <3>7. (\A x \in s : q[x] <= r[x]) => TotalOf(q, s) <= TotalOf(r, s)
      BY <3>1, <3>2, <3>3, <3>4, <3>6
    <3>8. (\A x \in s : q[x] < r[x]) => TotalOf(q, s) < TotalOf(r, s)
      BY <3>1, <3>2, <3>3, <3>4, <3>5, <3>6
    <3> QED BY <3>7, <3>8
  <2> QED BY <2>2, <2>3
<1>2. SUBSET D \subseteq F
  <2> HIDE DEF F
  <2> QED BY <1>1, AllSubsets
<1>3. D \in SUBSET D
  OBVIOUS
<1> QED BY <1>2, <1>3

(* Elements that count nothing can be left out. *)
LEMMA TotalOfSupport ==
    ASSUME NEW D, IsFiniteSet(D), NEW q, \A x \in D : q[x] \in Int,
           NEW S \in SUBSET D, \A x \in D \ S : q[x] = 0
    PROVE  TotalOf(q, S) = TotalOf(q, D)
<1> DEFINE F == { s \in SUBSET D :
                    S \subseteq s => TotalOf(q, s) = TotalOf(q, S) }
<1>1. ASSUME NEW s \in SUBSET D, \A x \in s : s \ {x} \in F
      PROVE  s \in F
  <2> SUFFICES ASSUME S \subseteq s, S # s
               PROVE  TotalOf(q, s) = TotalOf(q, S)
    OBVIOUS
  <2>1. PICK x \in s : x \notin S
    OBVIOUS
  <2>2. TotalOf(q, s \ {x}) = TotalOf(q, S)
    BY <1>1, <2>1
  <2>3. IsFiniteSet(s) /\ IsFiniteSet(s \ {x})
    BY FS_Subset
  <2>4. TotalOf(q, s) = q[x] + TotalOf(q, s \ {x})
    BY <2>3, TotalWithout
  <2>5. TotalOf(q, s \ {x}) \in Int /\ q[x] = 0
    BY <2>1, <2>3, TotalType
  <2> QED BY <2>2, <2>4, <2>5
<1>2. SUBSET D \subseteq F
  <2> HIDE DEF F
  <2> QED BY <1>1, AllSubsets
<1>3. D \in SUBSET D
  OBVIOUS
<1> QED BY <1>2, <1>3


-----------------------------------------------------------------------------
(* What is read *)

(* What the server and the request have: the inductive invariant *)
Read == TypeOK /\ AnswersAreRead

(* What a SELECT answers is what the table has of its rows. *)
LEMMA Taken ==
    ASSUME NEW rows, rows \subseteq Rows, TypeOK
    PROVE  /\ DOMAIN Take(rows) = rows
           /\ \A r \in rows : Take(rows)[r] = row[r] /\ row[r] \in Row
           /\ \A r \in DOMAIN Take(rows) : Take(rows)[r] \in Row
  BY DEF Take, TypeOK

(* Between two instants there are only rows. *)
LEMMA BetweenIsRows ==
    ASSUME NEW from, NEW to
    PROVE  Between(from, to) \subseteq Rows
  BY DEF Between

(* A recorded quantity does not go away. *)
LEMMA SaveKeeps ==
    ASSUME TypeOK, NEW r \in Rows,
           \/ \E quantity \in Orders : SaveExpected(r, quantity)
           \/ \E quantity \in Counts : SaveServed(r, quantity)
    PROVE  /\ row' \in [Rows -> Row]
           /\ \A q \in Rows : row[q].expectedQuantity # Null
                 => row'[q].expectedQuantity # Null
           /\ saves' \in 0..MaxSaves
           /\ UNCHANGED << zone, now, request >>
<1>1. ASSUME NEW quantity \in Orders, SaveExpected(r, quantity)
      PROVE  /\ row' \in [Rows -> Row]
             /\ \A q \in Rows : row[q].expectedQuantity # Null
                   => row'[q].expectedQuantity # Null
  <2> DEFINE e == [row[r] EXCEPT !.expectedQuantity = quantity]
  <2>1. row[r] \in Row /\ row \in [Rows -> Row]
    BY DEF TypeOK
  <2>2. e \in Row /\ e.expectedQuantity = quantity
    BY <2>1 DEF Row
  <2>3. row' = [row EXCEPT ![r] = e]
    BY <1>1 DEF SaveExpected, Save
  <2>4. quantity # Null
    BY FinanceAssumption
  <2> HIDE DEF e
  <2> QED BY <2>1, <2>2, <2>3, <2>4
<1>2. ASSUME NEW quantity \in Counts, SaveServed(r, quantity)
      PROVE  /\ row' \in [Rows -> Row]
             /\ \A q \in Rows : row[q].expectedQuantity # Null
                   => row'[q].expectedQuantity # Null
  <2> DEFINE e == [row[r] EXCEPT !.servedQuantity = quantity]
  <2>1. row[r] \in Row /\ row \in [Rows -> Row]
    BY DEF TypeOK
  <2>2. e \in Row /\ e.expectedQuantity = row[r].expectedQuantity
    BY <2>1 DEF Row
  <2>3. row' = [row EXCEPT ![r] = e]
    BY <1>2 DEF SaveServed, Save
  <2> HIDE DEF e
  <2> QED BY <2>1, <2>2, <2>3
<1>3. /\ saves' \in 0..MaxSaves
      /\ UNCHANGED << zone, now, request >>
  BY FinanceAssumption DEF SaveExpected, SaveServed, Save, TypeOK
<1> QED BY <1>1, <1>2, <1>3

(* At first nothing is read. *)
LEMMA InitRead == Init => Read
<1> SUFFICES ASSUME Init
             PROVE  Read
  OBVIOUS
<1>1. DOMAIN Nothing = {}
  BY DEF Nothing
<1>2. TypeOK
  BY <1>1, FinanceAssumption DEF Init, TypeOK
<1>3. AnswersAreRead
  BY DEF Init, AnswersAreRead
<1> QED BY <1>2, <1>3 DEF Read

(* Every step leaves what is read as it was read. *)
LEMMA NextRead == Read /\ [Next]_vars => Read'
<1> SUFFICES ASSUME Read, [Next]_vars
             PROVE  TypeOK' /\ AnswersAreRead'
  BY DEF Read
<1> USE DEF Read
<1>0. /\ FirstHour \in Int /\ LastHour \in Int
      /\ now \in Int /\ asked \in Int /\ asked <= now /\ FirstHour <= asked
  BY FinanceAssumption DEF TypeOK
<1>1. CASE Ask
  BY <1>0, <1>1 DEF Ask, TypeOK, AnswersAreRead
<1>2. CASE SelectCurrent
  <2> DEFINE month == MonthOf(Asked)
  <2>1. month \subseteq Rows
    BY BetweenIsRows DEF MonthOf
  <2>2. current' = Take(month)
    BY <1>2 DEF SelectCurrent, Asked
  <2>3. month' = month
    BY <1>2 DEF SelectCurrent, Asked, MonthOf, Between, MidnightHere
  <2>4. /\ DOMAIN current' = month
        /\ \A r \in month : current'[r] = row[r] /\ row[r] \in Row
    BY <2>1, <2>2, Taken
  <2> HIDE DEF month
  <2>5. TypeOK'
    BY <1>2, <2>1, <2>4 DEF SelectCurrent, TypeOK
  <2>6. \A r \in Expected(current)' : row'[r].expectedQuantity # Null
    BY <1>2, <2>4 DEF SelectCurrent, Expected
  <2>7. AnswersAreRead'
    BY <1>2, <2>3, <2>4, <2>6 DEF SelectCurrent, AnswersAreRead, month
  <2> QED BY <2>5, <2>7
<1>3. CASE SelectPrevious
  <2> DEFINE month == PreviousMonth(Asked)
  <2>1. month \subseteq Rows
    BY BetweenIsRows DEF PreviousMonth
  <2>2. previous' = Take(month)
    BY <1>3 DEF SelectPrevious, Asked
  <2>3. month' = month /\ MonthOf(Asked)' = MonthOf(Asked)
    BY <1>3 DEF SelectPrevious, Asked, PreviousMonth, MonthOf, Between,
                MidnightHere
  <2>4. /\ DOMAIN previous' = month
        /\ \A r \in month : previous'[r] \in Row
    BY <2>1, <2>2, Taken
  <2> HIDE DEF month
  <2>5. TypeOK'
    BY <1>3, <2>1, <2>4 DEF SelectPrevious, TypeOK
  <2>6. Expected(current)' = Expected(current)
    BY <1>3 DEF SelectPrevious, Expected
  <2>7. AnswersAreRead'
    BY <1>3, <2>3, <2>4, <2>6 DEF SelectPrevious, AnswersAreRead, month
  <2> QED BY <2>5, <2>7
<1>4. CASE SelectUpcoming
  <2> DEFINE week == Between(asked, AddDays(asked, 7))
  <2>1. week \subseteq Rows
    BY BetweenIsRows
  <2>2. upcoming' = Take(week)
    BY <1>4 DEF SelectUpcoming
  <2>3. /\ week' = week
        /\ MonthOf(Asked)' = MonthOf(Asked)
        /\ PreviousMonth(Asked)' = PreviousMonth(Asked)
    BY <1>4 DEF SelectUpcoming, Asked, PreviousMonth, MonthOf, Between,
                MidnightHere
  <2>4. /\ DOMAIN upcoming' = week
        /\ \A r \in week : upcoming'[r] = row[r] /\ row[r] \in Row
    BY <2>1, <2>2, Taken
  <2> HIDE DEF week
  <2>5. TypeOK'
    BY <1>4, <2>1, <2>4 DEF SelectUpcoming, TypeOK
  <2>6. Expected(current)' = Expected(current)
    BY <1>4 DEF SelectUpcoming, Expected
  <2>7. \A r \in Expected(current) : row[r].expectedQuantity # Null
    BY <1>4 DEF SelectUpcoming, AnswersAreRead
  <2>8. Expected(current) \cap week \subseteq Expected(upcoming)'
    BY <2>4, <2>7 DEF Expected
  <2>9. AnswersAreRead'
    BY <1>4, <2>3, <2>4, <2>6, <2>7, <2>8
       DEF SelectUpcoming, AnswersAreRead, week
  <2> QED BY <2>5, <2>9
<1>5. CASE Answer
  <2>1. DOMAIN Nothing = {}
    BY DEF Nothing
  <2>2. TypeOK'
    BY <1>0, <1>5, <2>1 DEF Answer, TypeOK
  <2>3. AnswersAreRead'
    BY <1>5 DEF Answer, AnswersAreRead
  <2> QED BY <2>2, <2>3
<1>6. ASSUME NEW r \in Rows,
             \/ \E quantity \in Orders : SaveExpected(r, quantity)
             \/ \E quantity \in Counts : SaveServed(r, quantity)
      PROVE  TypeOK' /\ AnswersAreRead'
  <2>1. /\ row' \in [Rows -> Row]
        /\ \A q \in Rows : row[q].expectedQuantity # Null
              => row'[q].expectedQuantity # Null
        /\ saves' \in 0..MaxSaves
        /\ UNCHANGED << zone, now, request >>
    BY <1>6, SaveKeeps
  <2>2. TypeOK'
    BY <2>1 DEF TypeOK, request
  <2>3. /\ Asked' = Asked
        /\ MonthOf(Asked)' = MonthOf(Asked)
        /\ PreviousMonth(Asked)' = PreviousMonth(Asked)
        /\ Between(asked, AddDays(asked, 7))'
              = Between(asked, AddDays(asked, 7))
    BY <2>1 DEF request, Asked, PreviousMonth, MonthOf, Between, MidnightHere
  <2>4. /\ Expected(current)' = Expected(current)
        /\ Expected(upcoming)' = Expected(upcoming)
        /\ Expected(current) \subseteq Rows
    BY <2>1 DEF request, Expected, TypeOK
  <2>5. AnswersAreRead'
    BY <2>1, <2>3, <2>4 DEF AnswersAreRead, request
  <2> QED BY <2>2, <2>5
<1>7. CASE Tick \/ UNCHANGED vars
  <2>1. UNCHANGED << zone, row, saves, request >> /\ now' \in now..LastHour
    BY <1>0, <1>7 DEF Tick, vars, TypeOK
  <2>2. TypeOK'
    BY <1>0, <2>1 DEF TypeOK, request
  <2>3. /\ Asked' = Asked
        /\ MonthOf(Asked)' = MonthOf(Asked)
        /\ PreviousMonth(Asked)' = PreviousMonth(Asked)
        /\ Between(asked, AddDays(asked, 7))'
              = Between(asked, AddDays(asked, 7))
    BY <2>1 DEF request, Asked, PreviousMonth, MonthOf, Between, MidnightHere
  <2>4. /\ Expected(current)' = Expected(current)
        /\ Expected(upcoming)' = Expected(upcoming)
    BY <2>1 DEF request, Expected
  <2>5. AnswersAreRead'
    BY <2>1, <2>3, <2>4 DEF AnswersAreRead, request
  <2> QED BY <2>2, <2>5
<1> QED BY <1>1, <1>2, <1>3, <1>4, <1>5, <1>6, <1>7 DEF Next


-----------------------------------------------------------------------------
(* Deviations *)

(* The sums of days that all lie on one side of a limit lie on that side.  *)
LEMMA SumsOnOneSide ==
    ASSUME NEW D, IsFiniteSet(D),
           NEW s, \A x \in D : s[x] \in Int,
           NEW e, \A x \in D : e[x] \in Int,
           NEW k \in Int, NEW l \in Int
    PROVE  /\ (\A x \in D : k * s[x] <= l * e[x])
                 => k * TotalOf(s, D) <= l * TotalOf(e, D)
           /\ (\A x \in D : l * e[x] <= k * s[x])
                 => l * TotalOf(e, D) <= k * TotalOf(s, D)
           /\ D # {} /\ (\A x \in D : k * s[x] < l * e[x])
                 => k * TotalOf(s, D) < l * TotalOf(e, D)
           /\ D # {} /\ (\A x \in D : l * e[x] < k * s[x])
                 => l * TotalOf(e, D) < k * TotalOf(s, D)
<1> DEFINE p == [x \in D |-> k * s[x]]
           q == [x \in D |-> l * e[x]]
<1>1. /\ \A x \in D : p[x] = k * s[x] /\ q[x] = l * e[x]
      /\ \A x \in D : p[x] \in Int /\ q[x] \in Int
  OBVIOUS
<1> HIDE DEF p, q
<1>2. TotalOf(p, D) = k * TotalOf(s, D)
  BY <1>1, TotalOfMultiples
<1>3. TotalOf(q, D) = l * TotalOf(e, D)
  BY <1>1, TotalOfMultiples
<1>4. /\ (\A x \in D : p[x] <= q[x]) => TotalOf(p, D) <= TotalOf(q, D)
      /\ D # {} /\ (\A x \in D : p[x] < q[x])
            => TotalOf(p, D) < TotalOf(q, D)
  BY <1>1, TotalIsLess
<1>5. /\ (\A x \in D : q[x] <= p[x]) => TotalOf(q, D) <= TotalOf(p, D)
      /\ D # {} /\ (\A x \in D : q[x] < p[x])
            => TotalOf(q, D) < TotalOf(p, D)
  BY <1>1, TotalIsLess
<1>6. /\ (\A x \in D : k * s[x] <= l * e[x]) => \A x \in D : p[x] <= q[x]
      /\ (\A x \in D : l * e[x] <= k * s[x]) => \A x \in D : q[x] <= p[x]
      /\ (\A x \in D : k * s[x] < l * e[x]) => \A x \in D : p[x] < q[x]
      /\ (\A x \in D : l * e[x] < k * s[x]) => \A x \in D : q[x] < p[x]
  BY <1>1
<1> QED BY <1>2, <1>3, <1>4, <1>5, <1>6

(* Days that were compared are counted fairly. *)
LEMMA FairlyCompared ==
    ASSUME TypeOK, NEW c \in Contracts
    PROVE  LET days == Compared(current, c)
               less == { r \in days : 10 * current[r].servedQuantity
                                         < 9 * current[r].expectedQuantity }
               more == { r \in days : 10 * current[r].servedQuantity
                                         > 11 * current[r].expectedQuantity }
           IN  /\ days # {} /\ days \in {less, more} => Deviates(current, c)
               /\ less \cup more = {} => ~Deviates(current, c)
<1> DEFINE days == Compared(current, c)
           s == [r \in days |-> current[r].servedQuantity]
           e == [r \in days |-> current[r].expectedQuantity]
           less == { r \in days : 10 * current[r].servedQuantity
                                     < 9 * current[r].expectedQuantity }
           more == { r \in days : 10 * current[r].servedQuantity
                                     > 11 * current[r].expectedQuantity }
           S == TotalOf(s, days)
           E == TotalOf(e, days)
<1>1. IsFiniteSet(days)
  BY FS_Subset, FinanceAssumption DEF Compared, TypeOK
<1>2. ASSUME NEW r \in days
      PROVE  s[r] \in Int /\ e[r] \in Int
  <2>1. current[r] \in Row /\ r \in days
    BY DEF Compared, TypeOK
  <2>2. current[r].servedQuantity # Null /\ current[r].expectedQuantity # Null
    BY DEF Compared
  <2>3. /\ current[r].servedQuantity \in Int
        /\ current[r].expectedQuantity \in Int
    <3>1. Orders \subseteq Int /\ Counts \subseteq Int
      BY FinanceAssumption
    <3>2. /\ current[r].servedQuantity \in Counts
          /\ current[r].expectedQuantity \in Orders
      BY <2>1, <2>2 DEF Row
    <3> QED BY <3>1, <3>2
  <2> QED BY <2>3
<1>3. TotalServed(current, days) = S /\ TotalExpected(current, days) = E
  <2>1. s = [r \in days |-> s[r]] /\ e = [r \in days |-> e[r]]
    OBVIOUS
  <2> QED BY <2>1 DEF TotalServed, TotalExpected, TotalOf
<1>4. /\ less = { r \in days : 10 * s[r] < 9 * e[r] }
      /\ more = { r \in days : 11 * e[r] < 10 * s[r] }
  BY <1>2
<1>5. Deviates(current, c) = OverATenth(S, E)
  BY <1>3 DEF Deviates
<1> HIDE DEF s, e, less, more, days
<1>6. S \in Int /\ E \in Int
  BY <1>1, <1>2, TotalType
<1>7. /\ (\A r \in days : 9 * e[r] <= 10 * s[r]) => 9 * E <= 10 * S
      /\ days # {} /\ (\A r \in days : 10 * s[r] < 9 * e[r])
            => 10 * S < 9 * E
  BY <1>1, <1>2, SumsOnOneSide
<1>8. /\ (\A r \in days : 10 * s[r] <= 11 * e[r]) => 10 * S <= 11 * E
      /\ days # {} /\ (\A r \in days : 11 * e[r] < 10 * s[r])
            => 11 * E < 10 * S
  <2> HIDE DEF S, E
  <2>1. 10 \in Int /\ 11 \in Int
    OBVIOUS
  <2> QED BY <1>1, <1>2, <2>1, SumsOnOneSide DEF S, E
<1> HIDE DEF S, E
<1>9. days # {} /\ days = less => OverATenth(S, E)
  BY <1>4, <1>6, <1>7 DEF OverATenth
<1>10. days # {} /\ days = more => OverATenth(S, E)
  BY <1>4, <1>6, <1>8 DEF OverATenth
<1>11. less \cup more = {} => ~OverATenth(S, E)
  <2> SUFFICES ASSUME less = {}, more = {}
               PROVE  ~OverATenth(S, E)
    OBVIOUS
  <2>1. \A r \in days : 9 * e[r] <= 10 * s[r] /\ 10 * s[r] <= 11 * e[r]
    BY <1>2, <1>4
  <2> QED BY <1>6, <1>7, <1>8, <2>1 DEF OverATenth
<1> QED BY <1>5, <1>9, <1>10, <1>11 DEF days, less, more

(* Deviations are counted fairly, whatever a SELECT has answered. *)
LEMMA FairlyCounted == TypeOK => DeviationsAreFair
<1> SUFFICES ASSUME TypeOK, NEW c \in Contracts
             PROVE  LET days == { r \in Served(current) \cap Expected(current) :
                                    r[1] = c }
                        less == { r \in days :
                                    10 * current[r].servedQuantity
                                       < 9 * current[r].expectedQuantity }
                        more == { r \in days :
                                    10 * current[r].servedQuantity
                                       > 11 * current[r].expectedQuantity }
                        zero == { r \in days :
                                    0 \in {current[r].servedQuantity,
                                           current[r].expectedQuantity} }
                    IN  /\ days \in {less, more}
                              => Deviates(current, c) \/ days = zero
                        /\ less \cup more = {} => ~Deviates(current, c)
  BY DEF DeviationsAreFair
<1> DEFINE days == { r \in Served(current) \cap Expected(current) : r[1] = c }
           zero == { r \in days : 0 \in {current[r].servedQuantity,
                                        current[r].expectedQuantity} }
           less(D) == { r \in D : 10 * current[r].servedQuantity
                                     < 9 * current[r].expectedQuantity }
           more(D) == { r \in D : 10 * current[r].servedQuantity
                                     > 11 * current[r].expectedQuantity }
           compared == Compared(current, c)
<1>1. compared = days \ zero
  BY Zenon DEF Compared, Served, Expected
<1>2. /\ compared # {} /\ compared \in {less(compared), more(compared)}
            => Deviates(current, c)
      /\ less(compared) \cup more(compared) = {} => ~Deviates(current, c)
  BY FairlyCompared
<1> HIDE DEF compared
<1>3. days = less(days) => compared = less(compared)
  BY <1>1
<1>4. days = more(days) => compared = more(compared)
  BY <1>1
<1>5. days # zero => compared # {}
  BY <1>1
<1>6. less(days) \cup more(days) = {} => less(compared) \cup more(compared) = {}
  BY <1>1
<1> QED BY <1>2, <1>3, <1>4, <1>5, <1>6

(* In every reachable state the request for metrics has its types, has     *)
(* read the rows of its months and of the week to come, and counts the     *)
(* deviating contracts fairly.                                             *)
THEOREM ReadCorrect == Spec => []Inv
<1>1. Read => Inv
  BY FairlyCounted DEF Read, Inv
<1> QED BY <1>1, InitRead, NextRead, PTL DEF Spec


-----------------------------------------------------------------------------
(* The zone of the server *)

Realistic == zone \in Zone /\ StaysWithinDay(zone)

(* The server is in such a zone. *)
LEMMA ZoneIsRealistic == TypeOK => Realistic
  BY FinanceAssumption DEF TypeOK, Realistic

(* The numbers of a realistic zone *)
LEMMA ZoneNumbers ==
    ASSUME Realistic
    PROVE  /\ zone.before \in Int /\ zone.after \in Int /\ zone.at \in Int
           /\ -TicksPerDay < zone.before /\ zone.before < TicksPerDay
           /\ -TicksPerDay < zone.after /\ zone.after < TicksPerDay
           /\ -TicksPerDay < zone.after - zone.before
           /\ zone.after - zone.before < TicksPerDay
  BY DEF Realistic, Zone, StaysWithinDay

(* The date that is asked for is the date of its midnight here, or one     *)
(* earlier.                                                                *)
DateHere(d) == DateOf(MidnightHere(d))

LEMMA DateHereIs ==
    ASSUME Realistic, NEW d \in Int
    PROVE  MidnightHere(d) \in Int /\ DateHere(d) \in {d - 1, d}
<1> DEFINE t == MidnightHere(d)
           m == MidnightOf(d)
<1>1. m \in Int /\ MidnightOf(d - 1) = m - TicksPerDay
  BY MidnightIsInstant DEF MidnightOf
<1>2. t \in Int /\ m - TicksPerDay < t /\ t < m + TicksPerDay
  <2>1. t = m - zone.before \/ t = m - zone.after
    BY DEF MidnightHere, FromLocal, MidnightOf
  <2> HIDE DEF t, m
  <2> QED BY <1>1, <2>1, ZoneNumbers
<1> HIDE DEF t
<1>3. CASE m <= t
  BY <1>2, <1>3, DateIs DEF DateHere, t
<1>4. CASE t < m
  <2> HIDE DEF m
  <2>1. d - 1 \in Int /\ MidnightOf(d - 1) <= t
           /\ t < MidnightOf(d - 1) + TicksPerDay
    BY <1>1, <1>2, <1>4
  <2>2. DateOf(t) = d - 1
    BY <1>2, <2>1, DateIs
  <2> QED BY <1>2, <2>2 DEF DateHere, t
<1> QED BY <1>1, <1>2, <1>3, <1>4

(* A date on which no clock changes is a day long. *)
LEMMA DateHereGoesOn ==
    ASSUME Realistic, NEW d \in Int, ~ChangesOn(d)
    PROVE  DateHere(d + 1) = DateHere(d) + 1
<1> DEFINE t == MidnightHere(d)
           e == DateOf(t)
<1>1. t \in Int /\ MidnightHere(d + 1) \in Int
  BY DateHereIs
<1>2. MidnightHere(d + 1) = t + TicksPerDay
  BY <1>1 DEF ChangesOn
<1> HIDE DEF t
<1>3. e \in Int /\ MidnightOf(e) <= t /\ t < MidnightOf(e) + TicksPerDay
  BY <1>1, DateBounds
<1> HIDE DEF e
<1>4. MidnightOf(e) \in Int /\ MidnightOf(e + 1) = MidnightOf(e) + TicksPerDay
  BY <1>3, MidnightStep, MidnightIsInstant
<1>5. DateOf(t + TicksPerDay) = e + 1
  <2>1. t + TicksPerDay \in Int /\ e + 1 \in Int
    BY <1>1, <1>3
  <2>2. /\ MidnightOf(e + 1) <= t + TicksPerDay
        /\ t + TicksPerDay < MidnightOf(e + 1) + TicksPerDay
    BY <1>1, <1>3, <1>4
  <2> QED BY <2>1, <2>2, DateIs
<1> QED BY <1>2, <1>5 DEF DateHere, t, e

-----------------------------------------------------------------------------
(* Months *)

(* A set of numbers has a least one. *)
LEMMA LeastNumber ==
    ASSUME NEW S, S \subseteq Nat, S # {}
    PROVE  \E n \in S : \A m \in S : n <= m
<1>1. PICK n \in S : \A m \in S : << m, n >> \notin OpToRel(<, Nat)
  BY NatLessThanWellFounded, WFMin
<1>2. ASSUME NEW m \in S
      PROVE  n <= m
  <2>1. m \in Nat /\ n \in Nat
    OBVIOUS
  <2>2. ~(m < n)
    BY <1>1, <2>1 DEF OpToRel
  <2> QED BY <2>1, <2>2
<1> QED BY <1>2

(* f begins the month of d. *)
Begins(f, d) ==
    /\ f \in FirstDays /\ f <= d
    /\ \A e \in FirstDays : e <= d => e <= f

(* g is the first day of the month after that of d. *)
Follows(g, d) ==
    /\ g \in FirstDays /\ d < g
    /\ \A e \in FirstDays : d < e => g <= e

(* First days are dates. *)
LEMMA FirstDaysAreDates == \A f \in FirstDays : f \in Int
  BY FinanceAssumption

(* FirstOf is the day that begins the month. *)
LEMMA FirstIs ==
    ASSUME NEW d \in Int, NEW f, Begins(f, d)
    PROVE  FirstOf(d) = f
<1> DEFINE S == { e \in FirstDays : e <= d }
<1>1. f \in S /\ \A e \in S : e \in Int /\ f >= e
  BY FirstDaysAreDates DEF Begins
<1> HIDE DEF S
<1>2. Max(S) \in S /\ \A e \in S : Max(S) >= e
  BY <1>1 DEF Max
<1>3. Max(S) = f
  BY <1>1, <1>2
<1> QED BY <1>3 DEF FirstOf, S

(* LastOf is the day before the next month. *)
LEMMA LastIs ==
    ASSUME NEW d \in Int, NEW g, Follows(g, d)
    PROVE  LastOf(d) = g - 1
<1> DEFINE S == { e \in FirstDays : e > d }
<1>1. g \in S /\ \A e \in S : e \in Int /\ g <= e
  BY FirstDaysAreDates DEF Follows
<1> HIDE DEF S
<1>2. Min(S) \in S /\ \A e \in S : Min(S) <= e
  BY <1>1 DEF Min
<1>3. Min(S) = g
  BY <1>1, <1>2
<1> QED BY <1>3 DEF LastOf, S

(* A date that is not before all months is in one. *)
LEMMA MonthBegins ==
    ASSUME NEW d \in Int, NEW e \in FirstDays, e <= d
    PROVE  \E f : Begins(f, d)
<1> DEFINE S == { n \in Nat : d - n \in FirstDays }
<1>1. d - e \in S
  BY FirstDaysAreDates
<1>2. PICK n \in S : \A m \in S : n <= m
  <2>1. S \subseteq Nat /\ S # {}
    BY <1>1
  <2> HIDE DEF S
  <2> QED BY <2>1, LeastNumber
<1>3. ASSUME NEW g \in FirstDays, g <= d
      PROVE  g <= d - n
  <2>1. g \in Int /\ d - g \in S
    BY <1>3, FirstDaysAreDates
  <2>2. n <= d - g
    BY <1>2, <2>1
  <2> QED BY <2>1, <2>2
<1> QED BY <1>3 DEF Begins

(* ... and the next begins, if there is a later one at all. *)
LEMMA MonthFollows ==
    ASSUME NEW d \in Int, NEW e \in FirstDays, d < e
    PROVE  \E g : Follows(g, d)
<1> DEFINE S == { n \in Nat : d + 1 + n \in FirstDays }
<1>1. e - d - 1 \in S
  BY FirstDaysAreDates
<1>2. PICK n \in S : \A m \in S : n <= m
  <2>1. S \subseteq Nat /\ S # {}
    BY <1>1
  <2> HIDE DEF S
  <2> QED BY <2>1, LeastNumber
<1>3. ASSUME NEW g \in FirstDays, d < g
      PROVE  d + 1 + n <= g
  <2>1. g \in Int /\ g - d - 1 \in S
    BY <1>3, FirstDaysAreDates
  <2>2. n <= g - d - 1
    BY <1>2, <2>1
  <2> QED BY <2>1, <2>2
<1> QED BY <1>3 DEF Follows


(* The rows of a month *)
LEMMA RowsOfMonth ==
    ASSUME NEW f \in FirstDays, NEW g, Follows(g, f), NEW r \in Rows
    PROVE  r \in MonthOf(f)
              <=> DateHere(f) <= r[2] /\ r[2] <= DateHere(g - 1)
<1>1. f \in Int
  BY FirstDaysAreDates
<1>2. Begins(f, f)
  BY <1>1 DEF Begins
<1>3. FirstOf(f) = f /\ LastOf(f) = g - 1
  BY <1>1, <1>2, FirstIs, LastIs
<1> QED BY <1>3 DEF MonthOf, Between, DateHere

(* A month that no other follows begins later than the dates that have     *)
(* their months.                                                           *)
LEMMA LastMonthIsLate ==
    ASSUME Realistic, NEW r \in Rows, NEW g \in FirstDays,
           NEW h \in FirstDays, r[2] < g, g < h,
           NEW f \in FirstDays, ~\E e \in FirstDays : f < e
    PROVE  r \notin MonthOf(f)
<1>1. f \in Int /\ g \in Int /\ h \in Int /\ r[2] \in Int
  BY FirstDaysAreDates, FinanceAssumption
<1>2. h <= f
  BY <1>1
<1>3. Begins(f, f)
  BY <1>1 DEF Begins
<1>4. FirstOf(f) = f
  BY <1>1, <1>3, FirstIs
<1>5. DateHere(f) \in {f - 1, f}
  BY <1>1, DateHereIs
<1>6. ~(DateHere(f) <= r[2])
  BY <1>1, <1>2, <1>5
<1> QED BY <1>4, <1>6 DEF MonthOf, Between, DateHere

(* A row can be in the month of its date and in the next one, and in no    *)
(* other.                                                                  *)
LEMMA MonthsOfRow ==
    ASSUME Realistic, NEW r \in Rows,
           NEW f, Begins(f, r[2]), NEW g, Follows(g, r[2])
    PROVE  /\ \A e \in FirstDays : r \in MonthOf(e) => e \in {f, g}
           /\ r \in MonthOf(f) <=> r[2] <= DateHere(g - 1)
           /\ r \in MonthOf(g) <=> DateHere(g) <= r[2]
<1> DEFINE d == r[2]
<1>1. d \in Int /\ f \in Int /\ g \in Int /\ f <= d /\ d < g
  BY FirstDaysAreDates, FinanceAssumption DEF Begins, Follows
<1>2. PICK h1, h2 \in FirstDays : d < h1 /\ h1 < h2
  BY FinanceAssumption DEF HasMonths
<1>3. f \in FirstDays /\ g \in FirstDays
  BY DEF Begins, Follows
<1>4. DateHere(f) <= d
  BY <1>1, DateHereIs
<1>5. Follows(g, f)
  BY <1>1, FirstDaysAreDates DEF Follows, Begins
<1>6. r \in MonthOf(f) <=> d <= DateHere(g - 1)
  BY <1>3, <1>4, <1>5, RowsOfMonth
<1>7. ASSUME NEW e \in FirstDays, r \in MonthOf(e), e # f, e # g
      PROVE  FALSE
  <2>1. e \in Int
    BY FirstDaysAreDates
  <2>2. PICK n : Follows(n, e)
    <3>1. \E x \in FirstDays : e < x
      BY <1>2, <1>7, LastMonthIsLate
    <3> QED BY <2>1, <3>1, MonthFollows
  <2>3. n \in Int /\ n \in FirstDays /\ e < n
    BY <2>2, FirstDaysAreDates DEF Follows
  <2>4. DateHere(e) <= d /\ d <= DateHere(n - 1)
    BY <1>7, <2>2, RowsOfMonth
  <2>5. DateHere(e) \in {e - 1, e} /\ DateHere(n - 1) \in {n - 2, n - 1}
    <3>1. n - 1 \in Int /\ (n - 1) - 1 = n - 2
      BY <2>3
    <3> QED BY <2>1, <3>1, DateHereIs
  <2>6. CASE e < f
    <3>1. n <= f
      BY <1>1, <1>3, <2>2, <2>6 DEF Follows
    <3> QED BY <1>1, <2>3, <2>4, <2>5, <3>1
  <2>7. CASE f < e
    <3>1. d < e
      BY <1>1, <2>1, <2>7 DEF Begins
    <3>2. g <= e
      BY <3>1 DEF Follows
    <3> QED BY <1>1, <1>7, <2>1, <2>4, <2>5, <3>2
  <2> QED BY <1>1, <1>7, <2>1, <2>6, <2>7
<1>8. r \in MonthOf(g) <=> DateHere(g) <= d
  <2>1. PICK n : Follows(n, g)
    <3>1. g <= h1 /\ h1 \in Int /\ h2 \in Int
      BY <1>2, FirstDaysAreDates DEF Follows
    <3>2. g < h2
      BY <1>1, <1>2, <3>1
    <3> QED BY <1>1, <3>2, MonthFollows
  <2>2. n \in Int /\ g < n
    BY <2>1, FirstDaysAreDates DEF Follows
  <2>3. DateHere(n - 1) \in {n - 2, n - 1}
    <3>1. n - 1 \in Int /\ (n - 1) - 1 = n - 2
      BY <2>2
    <3> QED BY <3>1, DateHereIs
  <2>4. d <= DateHere(n - 1)
    BY <1>1, <2>2, <2>3
  <2> QED BY <1>3, <2>1, <2>4, RowsOfMonth
<1> QED BY <1>6, <1>7, <1>8

(* A date whose midnight here is of the date before begins early. *)
LEMMA EarlyDate ==
    ASSUME Realistic, NEW d \in Int, DateHere(d) = d - 1
    PROVE  BeginsEarly(d)
<1>1. MidnightHere(d) \in Int /\ d - 1 \in Int /\ (d - 1) + 1 = d
  BY DateHereIs
<1>2. MidnightHere(d) < MidnightOf(d - 1) + TicksPerDay
  BY <1>1, DateBounds DEF DateHere
<1>3. MidnightOf(d) = MidnightOf(d - 1) + TicksPerDay
  BY <1>1, MidnightStep
<1> QED BY <1>2, <1>3 DEF BeginsEarly

(* A row is in its own month, but for the last date of a month before one  *)
(* that begins early or on which clocks change.                            *)
LEMMA OneMonth ==
    ASSUME Realistic, NEW r \in Rows
    PROVE  LET d      == r[2]
               months == { f \in FirstDays : r \in MonthOf(f) }
           IN  \/ months = {FirstOf(d)}
               \/ IsLastOfMonth(d) /\ BeginsEarly(d + 1) /\ months = {d + 1}
               \/ IsLastOfMonth(d) /\ ChangesOn(d)
<1> DEFINE d == r[2]
           months == { f \in FirstDays : r \in MonthOf(f) }
<1>1. d \in Int
  BY FinanceAssumption
<1>2. PICK e, h \in FirstDays : e <= d /\ d < h
  BY FinanceAssumption DEF HasMonths
<1>3. PICK f : Begins(f, d)
  BY <1>1, <1>2, MonthBegins
<1>4. PICK g : Follows(g, d)
  BY <1>1, <1>2, MonthFollows
<1>5. /\ \A x \in FirstDays : r \in MonthOf(x) => x \in {f, g}
      /\ r \in MonthOf(f) <=> d <= DateHere(g - 1)
      /\ r \in MonthOf(g) <=> DateHere(g) <= d
  BY <1>3, <1>4, MonthsOfRow
<1>6. /\ f \in FirstDays /\ g \in FirstDays
      /\ f \in Int /\ g \in Int /\ f <= d /\ d < g
  BY <1>3, <1>4, FirstDaysAreDates DEF Begins, Follows
<1>7. DateHere(g - 1) \in {g - 2, g - 1} /\ DateHere(g) \in {g - 1, g}
  <2>1. g - 1 \in Int /\ (g - 1) - 1 = g - 2
    BY <1>6
  <2> QED BY <1>6, <2>1, DateHereIs
<1>8. SUFFICES ASSUME ~(IsLastOfMonth(d) /\ ChangesOn(d))
               PROVE  \/ months = {f}
                      \/ /\ IsLastOfMonth(d) /\ BeginsEarly(d + 1)
                         /\ months = {d + 1}
  BY <1>1, <1>3, FirstIs
<1>9. CASE d < g - 1
  <2>1. r \in MonthOf(f) /\ r \notin MonthOf(g)
    BY <1>1, <1>5, <1>6, <1>7, <1>9
  <2> QED BY <1>5, <1>6, <2>1
<1>10. CASE ~(d < g - 1)
  <2>1. g = d + 1
    BY <1>1, <1>6, <1>10
  <2>2. DateHere(g) = DateHere(g - 1) + 1
    <3>1. ~ChangesOn(d) /\ g - 1 = d
      BY <1>1, <1>6, <1>8, <2>1 DEF IsLastOfMonth
    <3> QED BY <1>1, <2>1, <3>1, DateHereGoesOn
  <2>3. r \in MonthOf(f) <=> r \notin MonthOf(g)
    BY <1>1, <1>5, <1>6, <1>7, <2>1, <2>2
  <2>4. CASE r \in MonthOf(f)
    BY <1>5, <1>6, <2>3, <2>4
  <2>5. CASE r \in MonthOf(g)
    <3>1. DateHere(g) = g - 1
      BY <1>1, <1>5, <1>6, <1>7, <2>1, <2>5
    <3>2. BeginsEarly(d + 1)
      BY <1>6, <2>1, <3>1, EarlyDate
    <3>3. months = {g}
      BY <1>5, <1>6, <2>3, <2>5
    <3> QED BY <1>6, <2>1, <3>2, <3>3 DEF IsLastOfMonth
  <2> QED BY <2>3, <2>4, <2>5
<1> QED BY <1>9, <1>10


-----------------------------------------------------------------------------
(* Weeks *)

(* A date of a midnight *)
LEMMA DateOfMidnight ==
    ASSUME NEW d \in Int
    PROVE  DateOf(MidnightOf(d)) = d
<1>1. /\ MidnightOf(d) \in Int
      /\ MidnightOf(d) <= MidnightOf(d)
      /\ MidnightOf(d) < MidnightOf(d) + TicksPerDay
  BY MidnightIsInstant
<1> QED BY <1>1, DateIs

(* Six midnights later *)
LEMMA SixMidnights ==
    ASSUME NEW d \in Int
    PROVE  /\ MidnightOf(d + 5) = MidnightOf(d) + 5 * TicksPerDay
           /\ MidnightOf(d + 6) = MidnightOf(d) + 6 * TicksPerDay
  BY DEF MidnightOf

EndOfWeek(w) == DateOf(AddLocalDays(zone, MidnightOf(w), 6))

(* A week ends on its Sunday, or on its Saturday if clocks go forward.     *)
LEMMA WeekEnds ==
    ASSUME Realistic, NEW w \in Int
    PROVE  /\ EndOfWeek(w) \in {w + 5, w + 6}
           /\ EndOfWeek(w) = w + 5 =>
                 Offset(zone, MidnightOf(w)) < Offset(zone, MidnightOf(w + 6))
<1> DEFINE t == MidnightOf(w)
           u == AddLocalDays(zone, t, 6)
           diff == zone.after - zone.before
<1>1. /\ t \in Int
      /\ MidnightOf(w + 5) = t + 5 * TicksPerDay
      /\ MidnightOf(w + 6) = t + 6 * TicksPerDay
  BY MidnightIsInstant, SixMidnights
<1> HIDE DEF t
<1>2. /\ -TicksPerDay < diff /\ diff < TicksPerDay
      /\ zone.before \in Int /\ zone.after \in Int /\ zone.at \in Int
  BY ZoneNumbers
<1>3. \/ u = t + 6 * TicksPerDay
      \/ /\ u = t + 6 * TicksPerDay - diff
         /\ t < zone.at /\ t + 6 * TicksPerDay >= zone.at
  BY <1>1, <1>2 DEF AddLocalDays, FromLocal, Local, Offset
<1> HIDE DEF u
<1>4. CASE u = t + 6 * TicksPerDay
  <2>1. EndOfWeek(w) = w + 6
    BY <1>1, <1>4, DateOfMidnight DEF EndOfWeek, t, u
  <2> QED BY <2>1
<1>5. CASE /\ u = t + 6 * TicksPerDay - diff
           /\ t < zone.at /\ t + 6 * TicksPerDay >= zone.at
  <2>1. u \in Int
    BY <1>1, <1>2, <1>5
  <2>2. CASE diff > 0
    <3>1. MidnightOf(w + 5) <= u /\ u < MidnightOf(w + 5) + TicksPerDay
      <4>1. diff \in Int
        BY <1>2
      <4> HIDE DEF diff
      <4> QED BY <1>1, <1>2, <1>5, <2>2, <4>1
    <3>2. DateOf(u) = w + 5
      BY <2>1, <3>1, DateIs
    <3>3. Offset(zone, t) = zone.before
      BY <1>5 DEF Offset
    <3>4. Offset(zone, MidnightOf(w + 6)) = zone.after
      BY <1>1, <1>2, <1>5 DEF Offset
    <3>5. zone.before < zone.after
      BY <1>2, <2>2
    <3> QED BY <3>2, <3>3, <3>4, <3>5 DEF EndOfWeek, t, u
  <2>3. CASE ~(diff > 0)
    <3>1. MidnightOf(w + 6) <= u /\ u < MidnightOf(w + 6) + TicksPerDay
      <4>1. diff \in Int
        BY <1>2
      <4> HIDE DEF diff
      <4> QED BY <1>1, <1>2, <1>5, <2>3, <4>1
    <3>2. DateOf(u) = w + 6
      BY <2>1, <3>1, DateIs
    <3> QED BY <3>2 DEF EndOfWeek, t, u
  <2> QED BY <2>2, <2>3
<1> QED BY <1>3, <1>4, <1>5

(* A row is in the report of the week of its date and in no other near it, *)
(* unless clocks go forward in that week and its date is the Sunday.       *)
LEMMA OneWeek ==
    ASSUME Realistic, NEW r \in Rows
    PROVE  LET d      == r[2]
               monday == Monday(d)
           IN  \/ { w \in {monday - 7, monday, monday + 7} : r \in WeekOf(w) }
                     = {monday}
               \/ /\ d = monday + 6
                  /\ Offset(zone, MidnightOf(monday))
                        < Offset(zone, MidnightOf(d))
<1> DEFINE d == r[2]
           monday == Monday(d)
<1>1. /\ d \in Int /\ monday \in Int
      /\ monday <= d /\ d <= monday + 6
  BY FinanceAssumption DEF Monday
<1> HIDE DEF monday
<1>2. ASSUME NEW w \in Int
      PROVE  r \in WeekOf(w) <=> w <= d /\ d <= EndOfWeek(w)
  BY DateOfMidnight DEF WeekOf, Between, EndOfWeek
<1>3. r \notin WeekOf(monday + 7)
  <2>1. monday + 7 \in Int /\ ~(monday + 7 <= d)
    BY <1>1
  <2> QED BY <1>2, <2>1
<1>4. r \notin WeekOf(monday - 7)
  <2>1. monday - 7 \in Int
    BY <1>1
  <2>2. EndOfWeek(monday - 7) \in {(monday - 7) + 5, (monday - 7) + 6}
    BY <2>1, WeekEnds
  <2>3. ~(d <= EndOfWeek(monday - 7))
    BY <1>1, <2>2
  <2> QED BY <1>2, <2>1, <2>3
<1>5. CASE r \in WeekOf(monday)
  <2>1. { w \in {monday - 7, monday, monday + 7} : r \in WeekOf(w) } = {monday}
    BY <1>3, <1>4, <1>5
  <2> QED BY <2>1 DEF monday
<1>6. CASE r \notin WeekOf(monday)
  <2>1. ~(d <= EndOfWeek(monday))
    BY <1>1, <1>2, <1>6
  <2>2. EndOfWeek(monday) \in {monday + 5, monday + 6}
    BY <1>1, WeekEnds
  <2>3. d = monday + 6 /\ EndOfWeek(monday) = monday + 5
    BY <1>1, <2>1, <2>2
  <2>4. Offset(zone, MidnightOf(monday)) < Offset(zone, MidnightOf(d))
    BY <1>1, <2>3, WeekEnds
  <2> QED BY <2>3, <2>4 DEF monday
<1> QED BY <1>5, <1>6

(* A served meal counts in its own month and in one weekly report, but for *)
(* the last date of a month, which may count in the next where dates begin *)
(* early and anywhere if clocks change on it, and for the Sunday of a week *)
(* in which they go forward.                                               *)
THEOREM CountsCorrect == Spec => []EveryMealCountsOnce
<1>1. TypeOK => EveryMealCountsOnce
  <2> SUFFICES ASSUME TypeOK,
                      NEW r \in { q \in Rows : row[q].servedQuantity # Null }
               PROVE  LET d      == r[2]
                          monday == Monday(d)
                          months == { f \in FirstDays : r \in MonthOf(f) }
                      IN  /\ \/ months = {FirstOf(d)}
                             \/ /\ IsLastOfMonth(d) /\ BeginsEarly(d + 1)
                                /\ months = {d + 1}
                             \/ IsLastOfMonth(d) /\ ChangesOn(d)
                          /\ \/ { w \in {monday - 7, monday, monday + 7} :
                                    r \in WeekOf(w) } = {monday}
                             \/ /\ d = monday + 6
                                /\ Offset(zone, MidnightOf(monday))
                                      < Offset(zone, MidnightOf(d))
    BY DEF EveryMealCountsOnce
  <2>1. Realistic /\ r \in Rows
    BY ZoneIsRealistic
  <2> QED BY <2>1, OneMonth, OneWeek
<1>2. Inv => TypeOK
  BY DEF Inv
<1> QED BY <1>1, <1>2, ReadCorrect, PTL


-----------------------------------------------------------------------------
(* The end of a month *)

(* A date that comes while the program runs has its month, and others     *)
(* before it and after it.                                                 *)
LEMMA TimesHaveMonths ==
    ASSUME Realistic, NEW t \in FirstHour..LastHour
    PROVE  LocalDate(zone, t) \in Int /\ HasMonths(LocalDate(zone, t))
<1> DEFINE d == LocalDate(zone, t)
           u == Local(zone, t)
<1>1. FirstHour \in Int /\ LastHour \in Int /\ t \in Int
  BY FinanceAssumption
<1>2. u \in Int /\ t - TicksPerDay < u /\ u < t + TicksPerDay
  BY <1>1, ZoneNumbers DEF Local, Offset
<1>3. d = DateOf(u)
  BY DEF LocalDate, DateOf
<1> HIDE DEF u, d
<1>4. /\ d \in Int
      /\ MidnightOf(d) <= u /\ u < MidnightOf(d) + TicksPerDay
  BY <1>2, <1>3, DateBounds
<1>5. DateOf(FirstHour) - 1 <= d
  <2> DEFINE e == DateOf(FirstHour)
  <2>1. e \in Int /\ MidnightOf(e) <= FirstHour
    BY <1>1, DateBounds
  <2> HIDE DEF e
  <2>2. MidnightOf(d) \in Int /\ MidnightOf(e) \in Int
    BY <1>4, <2>1, MidnightIsInstant
  <2>3. d < e - 1 => MidnightOf(d) + 2 * TicksPerDay <= MidnightOf(e)
    <3>1. d < e - 1 => MidnightOf(d + 1) + TicksPerDay <= MidnightOf(e)
      BY <1>4, <2>1, MidnightOrder
    <3>2. MidnightOf(d + 1) = MidnightOf(d) + TicksPerDay
      BY <1>4, MidnightStep
    <3> QED BY <2>2, <3>1, <3>2
  <2> QED BY <1>1, <1>2, <1>4, <2>1, <2>2, <2>3 DEF e
<1>6. d <= DateOf(LastHour) + 1
  <2> DEFINE e == DateOf(LastHour)
  <2>1. e \in Int /\ LastHour < MidnightOf(e) + TicksPerDay
    BY <1>1, DateBounds
  <2> HIDE DEF e
  <2>2. MidnightOf(d) \in Int /\ MidnightOf(e) \in Int
    BY <1>4, <2>1, MidnightIsInstant
  <2>3. e + 1 < d => MidnightOf(e) + 2 * TicksPerDay <= MidnightOf(d)
    <3>1. e + 1 < d => MidnightOf(e + 1) + TicksPerDay <= MidnightOf(d)
      BY <1>4, <2>1, MidnightOrder
    <3>2. MidnightOf(e + 1) = MidnightOf(e) + TicksPerDay
      BY <2>1, MidnightStep
    <3> QED BY <2>2, <3>1, <3>2
  <2> QED BY <1>1, <1>2, <1>4, <2>1, <2>2, <2>3 DEF e
<1>7. DateOf(FirstHour) \in Int /\ DateOf(LastHour) \in Int
  BY <1>1, DateBounds
<1>8. d \in (DateOf(FirstHour) - 1)..(DateOf(LastHour) + 1)
  BY <1>4, <1>5, <1>6, <1>7
<1> QED BY <1>4, <1>8, FinanceAssumption DEF d

(* After one tick it is the same date or the next, or clocks went back.    *)
LEMMA DateAfterTick ==
    ASSUME Realistic, NEW t \in Int
    PROVE  /\ LocalDate(zone, t) \in Int /\ LocalDate(zone, t + 1) \in Int
           /\ LocalDate(zone, t + 1) <= LocalDate(zone, t) + 1
<1> DEFINE u == Local(zone, t)
           v == Local(zone, t + 1)
<1>1. u \in Int /\ v \in Int /\ v <= u + TicksPerDay
  BY ZoneNumbers DEF Local, Offset
<1>2. LocalDate(zone, t) = DateOf(u) /\ LocalDate(zone, t + 1) = DateOf(v)
  BY DEF LocalDate, DateOf
<1> HIDE DEF u, v
<1> DEFINE d == DateOf(u)
           e == DateOf(v)
<1>3. /\ d \in Int /\ u < MidnightOf(d) + TicksPerDay
      /\ e \in Int /\ MidnightOf(e) <= v
  BY <1>1, DateBounds
<1> HIDE DEF d, e
<1>4. MidnightOf(d) \in Int /\ MidnightOf(e) \in Int
  BY <1>3, MidnightIsInstant
<1>5. d + 1 < e => MidnightOf(d) + 2 * TicksPerDay <= MidnightOf(e)
  <2>1. d + 1 < e => MidnightOf(d + 1) + TicksPerDay <= MidnightOf(e)
    BY <1>3, MidnightOrder
  <2>2. MidnightOf(d + 1) = MidnightOf(d) + TicksPerDay
    BY <1>3, MidnightStep
  <2> QED BY <1>4, <2>1, <2>2
<1>6. e <= d + 1
  BY <1>1, <1>3, <1>4, <1>5
<1> QED BY <1>2, <1>3, <1>6 DEF d, e

(* If a later month begins, it begins on the next date, and the month      *)
(* before it is the one that was.                                          *)
LEMMA MonthBecomesPrevious ==
    ASSUME NEW d \in Int, HasMonths(d), NEW e \in Int, HasMonths(e),
           e <= d + 1, FirstOf(e) > FirstOf(d)
    PROVE  PreviousMonth(e) = MonthOf(d)
<1>1. PICK f : Begins(f, d)
  BY MonthBegins DEF HasMonths
<1>2. PICK g : Begins(g, e)
  BY MonthBegins DEF HasMonths
<1>3. FirstOf(d) = f /\ FirstOf(e) = g
  BY <1>1, <1>2, FirstIs
<1>4. f \in Int /\ g \in Int
  BY <1>1, <1>2, FirstDaysAreDates DEF Begins
<1>5. g = d + 1
  <2>1. g > d
    BY <1>1, <1>2, <1>3, <1>4 DEF Begins
  <2>2. g <= d + 1
    BY <1>2, <1>4 DEF Begins
  <2> QED BY <1>4, <2>1, <2>2
<1>6. Follows(g, d)
  BY <1>2, <1>5, FirstDaysAreDates DEF Begins, Follows
<1>7. LastOf(d) = d
  BY <1>4, <1>5, <1>6, LastIs
<1>8. FirstOf(e) - 1 = d
  BY <1>3, <1>5
<1> QED BY <1>7, <1>8 DEF PreviousMonth, MonthOf

(* What was consumed in a month when it ends is what the next one finds as *)
(* consumed in the month before it.                                        *)
THEOREM ClosesCorrect == Spec => MonthClosesAsShown
<1>1. TypeOK /\ TypeOK' /\ [Next]_vars =>
         [LET d       == LocalDate(zone, now)
              shown   == Take(MonthOf(d))
              comesTo == Take(PreviousMonth(LocalDate(zone, now)))'
          IN  FirstOf(LocalDate(zone, now')) > FirstOf(d)
                 => Consumed(comesTo) = Consumed(shown)]_vars
  <2> DEFINE d == LocalDate(zone, now)
             e == LocalDate(zone, now')
  <2> SUFFICES ASSUME TypeOK, TypeOK', [Next]_vars,
                      FirstOf(e) > FirstOf(d)
               PROVE  Consumed(Take(PreviousMonth(LocalDate(zone, now)))')
                         = Consumed(Take(MonthOf(d)))
    OBVIOUS
  <2>1. Realistic
    BY ZoneIsRealistic
  <2>2. zone' = zone /\ (now' = now \/ (now' = now + 1 /\ row' = row))
    BY DEF Next, vars, request, Ask, SelectCurrent, SelectPrevious,
           SelectUpcoming, Answer, SaveExpected, SaveServed, Save, Tick
  <2>3. now \in FirstHour..LastHour /\ now' \in FirstHour..LastHour
    BY <2>2 DEF TypeOK
  <2>4. /\ d \in Int /\ HasMonths(d)
        /\ e \in Int /\ HasMonths(e)
    BY <2>1, <2>3, TimesHaveMonths
  <2>5. now' # now
    <3> SUFFICES ASSUME now' = now
                 PROVE  FALSE
      OBVIOUS
    <3>1. PICK f : Begins(f, d)
      BY <2>4, MonthBegins DEF HasMonths
    <3>2. FirstOf(d) = f /\ f \in Int
      BY <2>4, <3>1, FirstIs, FirstDaysAreDates DEF Begins
    <3> QED BY <3>2
  <2>6. now' = now + 1 /\ row' = row /\ now \in Int
    BY <2>2, <2>3, <2>5, FinanceAssumption
  <2>7. e <= d + 1
    BY <2>1, <2>6, DateAfterTick
  <2>8. PreviousMonth(e) = MonthOf(d)
    BY <2>4, <2>7, MonthBecomesPrevious
  <2>9. Take(PreviousMonth(LocalDate(zone, now)))' = Take(MonthOf(d))
    <3>1. PreviousMonth(LocalDate(zone, now))' = PreviousMonth(e)
      BY <2>2 DEF PreviousMonth, Between, MidnightHere
    <3> QED BY <2>6, <2>8, <3>1 DEF Take
  <2> QED BY <2>9
<1>2. Inv => TypeOK
  BY DEF Inv
<1> QED BY <1>1, <1>2, ReadCorrect, PTL DEF Spec, MonthClosesAsShown


-----------------------------------------------------------------------------
(* What an answer shows *)

(* An answer has numbers where it has something. *)
AnswerIsTyped(m) ==
    /\ DOMAIN m \subseteq Rows
    /\ \A r \in DOMAIN m : m[r] \in Row

LEMMA AnswersAreTyped ==
    TypeOK => AnswerIsTyped(current) /\ AnswerIsTyped(previous)
  BY DEF TypeOK, AnswerIsTyped

(* Prices are numbers. *)
LEMMA PriceType ==
    ASSUME NEW r \in Rows
    PROVE  Price(r) \in Nat
  BY FinanceAssumption DEF Price, Contracts

(* The served and the expected quantities *)
ServedOf(m)   == [r \in Served(m) |-> m[r].servedQuantity]
ExpectedOf(m) == [r \in Expected(m) |-> m[r].expectedQuantity]
CostOf(m)     == [r \in Served(m) |-> m[r].servedQuantity * Price(r)]

LEMMA Quantities ==
    ASSUME NEW m, AnswerIsTyped(m)
    PROVE  /\ IsFiniteSet(Served(m)) /\ IsFiniteSet(Expected(m))
           /\ Served(m) \subseteq Rows /\ Expected(m) \subseteq Rows
           /\ \A r \in Served(m) : /\ m[r].servedQuantity \in Nat
                                   /\ ServedOf(m)[r] = m[r].servedQuantity
                                   /\ CostOf(m)[r] = m[r].servedQuantity
                                                        * Price(r)
                                   /\ CostOf(m)[r] \in Nat
           /\ \A r \in Expected(m) : /\ m[r].expectedQuantity \in Nat
                                     /\ ExpectedOf(m)[r] = m[r].expectedQuantity
<1>1. Served(m) \subseteq Rows /\ Expected(m) \subseteq Rows
  BY DEF AnswerIsTyped, Served, Expected
<1>2. IsFiniteSet(Served(m)) /\ IsFiniteSet(Expected(m))
  BY <1>1, FS_Subset, FinanceAssumption
<1>3. Orders \subseteq Nat /\ Counts \subseteq Nat
  BY FinanceAssumption
<1>4. ASSUME NEW r \in Served(m)
      PROVE  m[r].servedQuantity \in Nat
  BY <1>3 DEF Served, AnswerIsTyped, Row
<1>5. ASSUME NEW r \in Expected(m)
      PROVE  m[r].expectedQuantity \in Nat
  BY <1>3 DEF Expected, AnswerIsTyped, Row
<1>6. ASSUME NEW r \in Served(m)
      PROVE  m[r].servedQuantity * Price(r) \in Nat
  <2>1. Price(r) \in Nat
    BY <1>1, PriceType
  <2> QED BY <1>4, <2>1
<1>7. \A r \in Served(m) : CostOf(m)[r] = m[r].servedQuantity * Price(r)
  BY DEF CostOf
<1> QED BY <1>1, <1>2, <1>4, <1>5, <1>6, <1>7 DEF ServedOf, ExpectedOf

(* The sums of an answer are numbers. *)
LEMMA SumTypes ==
    ASSUME NEW m, AnswerIsTyped(m)
    PROVE  /\ Persons(m) = TotalOf(ServedOf(m), Served(m))
           /\ Meals(m) = TotalOf(ExpectedOf(m), Expected(m))
           /\ Consumed(m) = TotalOf(CostOf(m), Served(m))
           /\ Persons(m) \in Nat /\ Meals(m) \in Nat /\ Consumed(m) \in Nat
<1>1. /\ Persons(m) = TotalOf(ServedOf(m), Served(m))
      /\ Meals(m) = TotalOf(ExpectedOf(m), Expected(m))
      /\ Consumed(m) = TotalOf(CostOf(m), Served(m))
  <2>1. /\ ServedOf(m) = [r \in Served(m) |-> ServedOf(m)[r]]
        /\ ExpectedOf(m) = [r \in Expected(m) |-> ExpectedOf(m)[r]]
        /\ CostOf(m) = [r \in Served(m) |-> CostOf(m)[r]]
    BY DEF ServedOf, ExpectedOf, CostOf
  <2>2. /\ Persons(m) = Total(ServedOf(m))
        /\ Meals(m) = Total(ExpectedOf(m))
        /\ Consumed(m) = Total(CostOf(m))
    BY DEF Persons, Meals, Consumed, TotalServed, TotalExpected, ServedOf,
           ExpectedOf, CostOf
  <2> QED BY <2>1, <2>2 DEF TotalOf
<1>2. ASSUME NEW D, IsFiniteSet(D), NEW q, \A x \in D : q[x] \in Nat
      PROVE  TotalOf(q, D) \in Nat
  <2> DEFINE z == [x \in D |-> 0 * q[x]]
  <2>1. \A x \in D : /\ q[x] \in Int /\ z[x] \in Int
                     /\ z[x] = 0 * q[x] /\ z[x] <= q[x]
    BY <1>2
  <2> HIDE DEF z
  <2>2. TotalOf(z, D) = 0 * TotalOf(q, D)
    BY <1>2, <2>1, TotalOfMultiples
  <2>3. TotalOf(z, D) <= TotalOf(q, D)
    BY <1>2, <2>1, TotalIsLess
  <2>4. TotalOf(q, D) \in Int
    BY <1>2, <2>1, TotalType
  <2> QED BY <2>2, <2>3, <2>4
<1>3. \A r \in Served(m) : ServedOf(m)[r] \in Nat /\ CostOf(m)[r] \in Nat
  BY Quantities
<1>4. \A r \in Expected(m) : ExpectedOf(m)[r] \in Nat
  BY Quantities
<1> QED BY <1>1, <1>2, <1>3, <1>4, Quantities

(* A ratio is rounded to a number half a unit from it at most. *)
LEMMA RoundedIsNear ==
    ASSUME NEW a \in Int, NEW b \in Nat \ {0}, NEW n \in Rounded(a, b)
    PROVE  /\ n \in Int
           /\ 2 * a - b <= 2 * (n * b)
           /\ 2 * (n * b) <= 2 * a + b
<1>1. /\ n \in (a \div b)..(a \div b + 1)
      /\ 2 * a - b <= 2 * n * b /\ 2 * n * b <= 2 * a + b
  BY DEF Rounded
<1>2. a \div b \in Int
  OBVIOUS
<1>3. n \in Int
  BY <1>1, <1>2
<1>4. 2 * n * b = 2 * (n * b)
  BY <1>3
<1> QED BY <1>1, <1>3, <1>4

(* A factor keeps the order of two numbers. *)
LEMMA FactorKeepsOrder ==
    ASSUME NEW a \in Int, NEW b \in Int, NEW k \in Nat, a <= b
    PROVE  a * k <= b * k
<1> DEFINE i == b - a
<1>1. i \in Nat /\ b = a + i
  OBVIOUS
<1> HIDE DEF i
<1>2. i * k \in Nat /\ a * k \in Int
  BY <1>1
<1>3. (a + i) * k = a * k + i * k
  BY <1>1
<1> QED BY <1>1, <1>2, <1>3

(* ... and can be cancelled. *)
LEMMA FactorIsCancelled ==
    ASSUME NEW a \in Int, NEW b \in Int, NEW k \in Nat \ {0},
           a * k <= b * k
    PROVE  a <= b
<1> SUFFICES ASSUME b < a
             PROVE  FALSE
  OBVIOUS
<1> DEFINE i == a - b - 1
<1>1. i \in Nat /\ a = b + 1 + i
  OBVIOUS
<1> HIDE DEF i
<1>2. i * k \in Nat /\ b * k \in Int
  BY <1>1
<1>3. (b + 1 + i) * k = b * k + k + i * k
  BY <1>1
<1> QED BY <1>1, <1>2, <1>3

(* The greater of two ratios is shown as the greater number, or as the     *)
(* same, wherever halves fall.                                             *)
LEMMA RoundedOrder ==
    ASSUME NEW a \in Int, NEW b \in Nat \ {0}, NEW n \in Rounded(a, b),
           NEW c \in Int, NEW d \in Nat \ {0}, NEW k \in Rounded(c, d),
           a * d < c * b
    PROVE  n <= k
<1>1. /\ n \in Int /\ k \in Int
      /\ 2 * (n * b) <= 2 * a + b
      /\ 2 * c - d <= 2 * (k * d)
  BY RoundedIsNear
<1> SUFFICES ASSUME k < n
             PROVE  FALSE
  BY <1>1
<1> DEFINE i == n - k - 1
           x == b * d
<1>2. i \in Nat /\ n = k + 1 + i
  BY <1>1
<1> HIDE DEF i
<1>3. x \in Nat \ {0}
  OBVIOUS
<1>4. (2 * (n * b)) * d <= (2 * a + b) * d
  <2>1. 2 * (n * b) \in Int /\ 2 * a + b \in Int
    BY <1>1
  <2> QED BY <1>1, <2>1, FactorKeepsOrder
<1>5. (2 * c - d) * b <= (2 * (k * d)) * b
  <2>1. 2 * (k * d) \in Int /\ 2 * c - d \in Int
    BY <1>1
  <2> QED BY <1>1, <2>1, FactorKeepsOrder
<1>6. /\ (2 * (n * b)) * d = 2 * (n * x)
      /\ (2 * a + b) * d = 2 * (a * d) + x
      /\ (2 * c - d) * b = 2 * (c * b) - x
      /\ (2 * (k * d)) * b = 2 * (k * x)
  BY <1>1
<1>7. a * d \in Int /\ c * b \in Int
  OBVIOUS
<1> HIDE DEF x
<1>8. n * x = k * x + x + i * x /\ i * x \in Nat /\ k * x \in Int
  BY <1>1, <1>2, <1>3
<1> QED BY <1>3, <1>4, <1>5, <1>6, <1>7, <1>8

(* A ratio by a factor is rounded as it is without.                        *)
LEMMA FactorIsRoundedOff ==
    ASSUME NEW a \in Int, NEW b \in Nat \ {0}, NEW f \in Nat \ {0},
           NEW k \in Rounded(a * f, f * b)
    PROVE  /\ k \in Int
           /\ 2 * a - b <= 2 * (k * b)
           /\ 2 * (k * b) <= 2 * a + b
<1>1. a * f \in Int /\ f * b \in Nat \ {0}
  OBVIOUS
<1>2. /\ k \in Int
      /\ 2 * (a * f) - f * b <= 2 * (k * (f * b))
      /\ 2 * (k * (f * b)) <= 2 * (a * f) + f * b
  BY <1>1, RoundedIsNear
<1>3. /\ 2 * (a * f) - f * b = (2 * a - b) * f
      /\ 2 * (k * (f * b)) = (2 * (k * b)) * f
      /\ 2 * (a * f) + f * b = (2 * a + b) * f
  BY <1>2
<1>4. 2 * a - b \in Int /\ 2 * (k * b) \in Int /\ 2 * a + b \in Int
  BY <1>2
<1> QED BY <1>2, <1>3, <1>4, FactorIsCancelled

(* Two numbers half a unit from an amount at most are the same, or the     *)
(* amount is a half between them.                                          *)
LEMMA HalvesDiffer ==
    ASSUME NEW a \in Int, NEW n \in Int, NEW k \in Int,
           2 * a - Cents <= 2 * (n * Cents), 2 * (n * Cents) <= 2 * a + Cents,
           2 * a - Cents <= 2 * (k * Cents), 2 * (k * Cents) <= 2 * a + Cents,
           n < k
    PROVE  IsHalf(a) /\ k = n + 1
<1>1. Cents \in Nat \ {0}
  BY FinanceAssumption
<1> DEFINE i == k - n - 1
           q == a \div Cents
           r == a % Cents
<1>2. i \in Nat /\ k = n + 1 + i
  OBVIOUS
<1>3. /\ q \in Int /\ r \in Int /\ a = q * Cents + r
      /\ 0 <= r /\ r < Cents
  BY <1>1
<1> HIDE DEF i, q, r
<1>4. /\ k * Cents = n * Cents + Cents + i * Cents
      /\ i * Cents \in Nat /\ n * Cents \in Int
  BY <1>1, <1>2
<1>5. i * Cents = 0 /\ 2 * (n * Cents) + Cents = 2 * a
  BY <1>1, <1>4
<1>6. i = 0
  BY <1>1, <1>2, <1>5
<1> DEFINE j == n - q
<1>7. j \in Int /\ n = q + j
  BY <1>3
<1> HIDE DEF j
<1>8. /\ n * Cents = q * Cents + j * Cents
      /\ q * Cents \in Int /\ j * Cents \in Int
  BY <1>1, <1>3, <1>7
<1>9. 2 * (j * Cents) + Cents = 2 * r
  BY <1>1, <1>3, <1>5, <1>8
<1>10. j = 0
  <2>1. CASE j < 0
    <3>1. j * Cents <= (-1) * Cents
      BY <1>1, <1>7, <2>1, FactorKeepsOrder, -1 \in Int, j <= -1
    <3> QED BY <1>1, <1>3, <1>8, <1>9, <3>1
  <2>2. CASE j > 0
    <3>1. 1 * Cents <= j * Cents
      BY <1>1, <1>7, <2>2, FactorKeepsOrder, 1 \in Int, 1 <= j
    <3> QED BY <1>1, <1>3, <1>8, <1>9, <3>1
  <2> QED BY <1>7, <2>1, <2>2
<1>11. 2 * r = Cents
  BY <1>1, <1>3, <1>9, <1>10
<1> QED BY <1>2, <1>6, <1>11 DEF IsHalf, r

(* The contracts that have served somebody are not all dearer than what a  *)
(* person costs, and not all cheaper.                                      *)
LEMMA SomeAreNoDearer ==
    ASSUME NEW m, AnswerIsTyped(m), Persons(m) > 0
    PROVE  /\ \E r \in ServedIn(m) : Price(r) * Persons(m) <= Consumed(m)
           /\ \E r \in ServedIn(m) : Consumed(m) <= Price(r) * Persons(m)
<1> DEFINE s == ServedOf(m)
           k == CostOf(m)
           D == Served(m)
           I == ServedIn(m)
           S == TotalOf(s, D)
           C == TotalOf(k, D)
<1>1. /\ Persons(m) = S /\ Consumed(m) = C
      /\ S \in Nat \ {0} /\ C \in Nat
  BY SumTypes
<1>2. /\ IsFiniteSet(D) /\ I \in SUBSET D
      /\ \A r \in D : /\ s[r] \in Nat /\ k[r] \in Nat
                      /\ k[r] = s[r] * Price(r) /\ Price(r) \in Nat
      /\ \A r \in I : s[r] > 0
      /\ \A r \in D \ I : s[r] = 0
  BY Quantities, PriceType DEF ServedIn
<1>3. \A r \in D \ I : k[r] = 0
  <2> SUFFICES ASSUME NEW r \in D \ I
               PROVE  k[r] = 0
    OBVIOUS
  <2>1. s[r] = 0 /\ Price(r) \in Nat /\ k[r] = s[r] * Price(r)
    BY <1>2
  <2>2. 0 * Price(r) = 0
    BY <2>1
  <2> QED BY <2>1, <2>2
<1> HIDE DEF s, k, D, I
<1>4. TotalOf(s, I) = S /\ TotalOf(k, I) = C
  <2>1. \A r \in D : s[r] \in Int /\ k[r] \in Int
    BY <1>2
  <2> QED BY <1>2, <1>3, <2>1, TotalOfSupport
<1>5. I # {}
  <2>1. TotalOf(s, {}) = 0
    BY FS_EmptySet, TotalStep
  <2> QED BY <1>1, <1>4, <2>1
<1>6. /\ IsFiniteSet(I) /\ S \in Int /\ C \in Int
      /\ \A r \in I : s[r] \in Int
      /\ \A r \in I : k[r] \in Int
  BY <1>1, <1>2, FS_Subset
<1>7. S * C = C * S
  BY <1>6
<1> HIDE DEF S, C
<1>8. ASSUME NEW r \in I
      PROVE  /\ C < Price(r) * S => C * s[r] < S * k[r]
             /\ Price(r) * S < C => S * k[r] < C * s[r]
  <2> DEFINE p == Price(r)
             v == s[r]
  <2>1. p \in Nat /\ v \in Nat /\ v > 0 /\ k[r] = v * p
    BY <1>2
  <2> HIDE DEF p, v
  <2>2. S * (v * p) = (p * S) * v
    BY <1>6, <2>1
  <2>3. p * S \in Int /\ C * v \in Int /\ (p * S) * v \in Int
    BY <1>6, <2>1
  <2> DEFINE u == p * S
  <2>4. u \in Int /\ S * k[r] = u * v
    BY <2>1, <2>2, <2>3
  <2> HIDE DEF u
  <2>5. C < u => C * v < u * v
    <3> SUFFICES ASSUME C < u
                 PROVE  C * v < u * v
      OBVIOUS
    <3> DEFINE i == u - C
    <3>1. i \in Nat \ {0} /\ u = C + i
      BY <1>6, <2>4
    <3> HIDE DEF i
    <3>2. i * v > 0 /\ (C + i) * v = C * v + i * v
      BY <1>6, <2>1, <3>1
    <3>3. i * v \in Int
      BY <2>1, <3>1
    <3> QED BY <2>3, <3>1, <3>2, <3>3
  <2>6. u < C => u * v < C * v
    <3> SUFFICES ASSUME u < C
                 PROVE  u * v < C * v
      OBVIOUS
    <3> DEFINE i == C - u
    <3>1. i \in Nat \ {0} /\ C = u + i
      BY <1>6, <2>4
    <3> HIDE DEF i
    <3>2. i * v > 0 /\ (u + i) * v = u * v + i * v
      BY <2>1, <2>4, <3>1
    <3>3. i * v \in Int /\ u * v \in Int
      BY <2>1, <2>4, <3>1
    <3> QED BY <3>1, <3>2, <3>3
  <2> QED BY <2>4, <2>5, <2>6 DEF u, p, v
<1>9. ASSUME \A r \in I : C < Price(r) * S
      PROVE  FALSE
  <2>1. \A r \in I : C * s[r] < S * k[r]
    BY <1>8, <1>9
  <2>2. C * TotalOf(s, I) < S * TotalOf(k, I)
    BY <1>5, <1>6, <2>1, SumsOnOneSide
  <2>3. C * S \in Int
    BY <1>6
  <2> QED BY <1>4, <1>7, <2>2, <2>3
<1>10. ASSUME \A r \in I : Price(r) * S < C
       PROVE  FALSE
  <2>1. \A r \in I : S * k[r] < C * s[r]
    BY <1>8, <1>10
  <2>2. S * TotalOf(k, I) < C * TotalOf(s, I)
    BY <1>5, <1>6, <2>1, SumsOnOneSide
  <2>3. C * S \in Int
    BY <1>6
  <2> QED BY <1>4, <1>7, <2>2, <2>3
<1>11. \A r \in I : Price(r) * S \in Int
  <2> SUFFICES ASSUME NEW r \in I
               PROVE  Price(r) * S \in Int
    OBVIOUS
  <2>1. Price(r) \in Int
    BY <1>2
  <2> QED BY <1>6, <2>1
<1> QED BY <1>1, <1>6, <1>9, <1>10, <1>11 DEF I

(* A person costs no less than the cheapest contract that has served one   *)
(* and no more than the dearest, to half a unit.                           *)
LEMMA PersonCosts ==
    ASSUME NEW m, AnswerIsTyped(m), Persons(m) > 0, NEW cost \in CostPerPerson(m)
    PROVE  /\ \E r \in ServedIn(m) : 2 * Price(r) <= (2 * cost + 1) * Cents
           /\ \E r \in ServedIn(m) : (2 * cost - 1) * Cents <= 2 * Price(r)
<1> DEFINE S == Persons(m)
           C == Consumed(m)
<1>1. S \in Nat \ {0} /\ C \in Int /\ Cents \in Nat \ {0}
  BY SumTypes, FinanceAssumption
<1>2. cost \in Rounded(C, S * Cents)
  BY DEF CostPerPerson
<1>3. ASSUME NEW r \in ServedIn(m)
      PROVE  Price(r) \in Int
  BY Quantities, PriceType DEF ServedIn
<1> HIDE DEF S, C
<1>4. S * Cents \in Nat \ {0}
  BY <1>1
<1>5. /\ cost \in Int
      /\ 2 * C - S * Cents <= 2 * (cost * (S * Cents))
      /\ 2 * (cost * (S * Cents)) <= 2 * C + S * Cents
  BY <1>1, <1>2, <1>4, RoundedIsNear
<1>6. /\ 2 * (cost * (S * Cents)) + S * Cents = ((2 * cost + 1) * Cents) * S
      /\ 2 * (cost * (S * Cents)) - S * Cents = ((2 * cost - 1) * Cents) * S
      /\ cost * (S * Cents) \in Int
      /\ (2 * cost + 1) * Cents \in Int /\ (2 * cost - 1) * Cents \in Int
  BY <1>1, <1>5
<1>7. ASSUME NEW p \in Int
      PROVE  /\ p * S <= C => 2 * p <= (2 * cost + 1) * Cents
             /\ C <= p * S => (2 * cost - 1) * Cents <= 2 * p
  <2>1. (2 * p) * S = 2 * (p * S) /\ p * S \in Int /\ 2 * p \in Int
    BY <1>1
  <2> DEFINE u == p * S
             v == 2 * p
             hi == (2 * cost + 1) * Cents
             lo == (2 * cost - 1) * Cents
  <2>2. /\ u \in Int /\ v \in Int /\ hi \in Int /\ lo \in Int
        /\ v * S = 2 * u
        /\ 2 * C <= hi * S /\ lo * S <= 2 * C
    BY <1>1, <1>4, <1>5, <1>6, <2>1
  <2> HIDE DEF u, v, hi, lo
  <2>3. u <= C => v * S <= hi * S
    BY <1>1, <2>2
  <2>4. C <= u => lo * S <= v * S
    BY <1>1, <2>2
  <2>5. u <= C => v <= hi
    BY <1>1, <2>2, <2>3, FactorIsCancelled
  <2>6. C <= u => lo <= v
    BY <1>1, <2>2, <2>4, FactorIsCancelled
  <2> QED BY <2>5, <2>6 DEF u, v, hi, lo
<1>8. /\ \E r \in ServedIn(m) : Price(r) * S <= C
      /\ \E r \in ServedIn(m) : C <= Price(r) * S
  BY SomeAreNoDearer DEF S, C
<1> QED BY <1>3, <1>7, <1>8

(* If more than all is used, there is a service that served more than was  *)
(* expected of it.                                                         *)
LEMMA OverUse ==
    ASSUME NEW m, AnswerIsTyped(m),
           NEW rate \in UtilizationRate(m), rate > 100
    PROVE  \E r \in ServedIn(m) :
              \/ r \notin Expected(m)
              \/ m[r].servedQuantity > m[r].expectedQuantity
<1> SUFFICES ASSUME \A r \in ServedIn(m) :
                       /\ r \in Expected(m)
                       /\ ~(m[r].servedQuantity > m[r].expectedQuantity)
             PROVE  FALSE
  OBVIOUS
<1> DEFINE s == ServedOf(m)
           e == ExpectedOf(m)
           I == ServedIn(m)
           D == Served(m)
           E == Expected(m)
<1>1. /\ Persons(m) = TotalOf(s, D) /\ Meals(m) = TotalOf(e, E)
      /\ Persons(m) \in Nat /\ Meals(m) \in Nat
  BY SumTypes
<1>2. Persons(m) > Meals(m)
  <2>1. Meals(m) > 0
    BY <1>1 DEF UtilizationRate, Rounded
  <2>2. 100 * Persons(m) \in Int /\ Meals(m) \in Nat \ {0}
    BY <1>1, <2>1
  <2>3. /\ rate \in Int
        /\ 2 * (rate * Meals(m)) <= 2 * (100 * Persons(m)) + Meals(m)
    BY <2>2, RoundedIsNear DEF UtilizationRate
  <2>4. 101 * Meals(m) <= rate * Meals(m)
    BY <2>2, <2>3, FactorKeepsOrder, 101 \in Int, 101 <= rate
  <2>5. rate * Meals(m) \in Int
    BY <2>2, <2>3
  <2> QED BY <1>1, <2>1, <2>3, <2>4, <2>5
<1>3. /\ IsFiniteSet(D) /\ IsFiniteSet(E) /\ I \in SUBSET D /\ I \in SUBSET E
      /\ \A r \in D : s[r] \in Int
      /\ \A r \in E : e[r] \in Int /\ e[r] >= 0
      /\ \A r \in I : s[r] <= e[r]
      /\ \A r \in D \ I : s[r] = 0
  BY Quantities DEF ServedIn
<1> DEFINE p == [r \in E |-> IF r \in I THEN s[r] ELSE 0]
<1> HIDE DEF s, e, I, D, E
<1>4. /\ \A r \in E : p[r] \in Int /\ p[r] <= e[r]
      /\ \A r \in I : p[r] = s[r]
      /\ \A r \in E \ I : p[r] = 0
  BY <1>3
<1> HIDE DEF p
<1>5. TotalOf(s, I) = TotalOf(s, D)
  BY <1>3, TotalOfSupport
<1>6. TotalOf(p, I) = TotalOf(p, E)
  BY <1>3, <1>4, TotalOfSupport
<1>7. TotalOf(p, I) = TotalOf(s, I)
  <2>1. [r \in I |-> p[r]] = [r \in I |-> s[r]]
    BY <1>4
  <2> QED BY <2>1 DEF TotalOf
<1>8. TotalOf(p, E) <= TotalOf(e, E)
  BY <1>3, <1>4, TotalIsLess
<1> QED BY <1>1, <1>2, <1>5, <1>6, <1>7, <1>8


(* What is projected is what is consumed, or more; on the last date of a   *)
(* month it is what is consumed, or a half is rounded apart.               *)
LEMMA ProjectedFits ==
    ASSUME NEW m, AnswerIsTyped(m), NEW t \in FirstHour..LastHour, Realistic,
           NEW consumed \in Shown(Consumed(m)), NEW projected \in Projected(m, t)
    PROVE  IF IsLastOfMonth(LocalDate(zone, t))
           THEN \/ projected = consumed
                \/ /\ IsHalf(Consumed(m))
                   /\ projected \in {consumed - 1, consumed + 1}
           ELSE consumed <= projected
<1> DEFINE d == LocalDate(zone, t)
           c == Consumed(m)
<1>1. d \in Int /\ HasMonths(d)
  BY TimesHaveMonths
<1>2. c \in Nat /\ Cents \in Nat \ {0}
  BY SumTypes, FinanceAssumption
<1> HIDE DEF c
<1>3. PICK f : Begins(f, d)
  BY <1>1, MonthBegins DEF HasMonths
<1>4. PICK g : Follows(g, d)
  BY <1>1, MonthFollows DEF HasMonths
<1>5. FirstOf(d) = f /\ LastOf(d) = g - 1
  BY <1>1, <1>3, <1>4, FirstIs, LastIs
<1>6. f \in Int /\ g \in Int /\ f <= d /\ d < g
  BY <1>3, <1>4, FirstDaysAreDates DEF Begins, Follows
<1> DEFINE n   == d - f + 1
           len == (g - 1) - f + 1
<1>7. projected \in Rounded(c * len, n * Cents)
  BY <1>5 DEF Projected, c
<1>8. n \in Nat \ {0} /\ len \in Nat /\ n <= len
  BY <1>1, <1>6
<1>9. IsLastOfMonth(d) <=> len = n
  <2>1. d + 1 \in FirstDays => g <= d + 1
    BY <1>1, <1>4 DEF Follows
  <2>2. g = d + 1 => d + 1 \in FirstDays
    BY <1>4 DEF Follows
  <2> QED BY <1>1, <1>6, <2>1, <2>2 DEF IsLastOfMonth
<1>10. consumed \in Rounded(c, Cents)
  BY DEF Shown, c
<1>11. /\ consumed \in Int
       /\ 2 * c - Cents <= 2 * (consumed * Cents)
       /\ 2 * (consumed * Cents) <= 2 * c + Cents
  BY <1>2, <1>10, RoundedIsNear
<1> HIDE DEF n, len, d
<1>12. CASE IsLastOfMonth(d)
  <2>1. /\ projected \in Int
        /\ 2 * c - Cents <= 2 * (projected * Cents)
        /\ 2 * (projected * Cents) <= 2 * c + Cents
    <3>1. projected \in Rounded(c * n, n * Cents) /\ c \in Int
      BY <1>2, <1>7, <1>9, <1>12
    <3> QED BY <1>2, <1>8, <3>1, FactorIsRoundedOff
  <2>2. CASE projected < consumed
    BY <1>2, <1>11, <1>12, <2>1, <2>2, HalvesDiffer DEF c, d
  <2>3. CASE consumed < projected
    BY <1>2, <1>11, <1>12, <2>1, <2>3, HalvesDiffer DEF c, d
  <2> QED BY <1>11, <1>12, <2>1, <2>2, <2>3 DEF d
<1>13. CASE ~IsLastOfMonth(d)
  <2>1. n < len /\ n * Cents \in Nat \ {0} /\ c * len \in Int
    BY <1>2, <1>8, <1>9, <1>13
  <2>2. CASE c = 0
    <3>1. consumed = 0
      <4> HIDE DEF c
      <4>1. 2 * (consumed * Cents) <= Cents /\ -Cents <= 2 * (consumed * Cents)
        BY <1>2, <1>11, <2>2
      <4>2. consumed > 0 => 1 * Cents <= consumed * Cents
        BY <1>2, <1>11, FactorKeepsOrder, 1 \in Int, consumed > 0 => 1 <= consumed
      <4>3. consumed < 0 => consumed * Cents <= (-1) * Cents
        BY <1>2, <1>11, FactorKeepsOrder, -1 \in Int,
           consumed < 0 => consumed <= -1
      <4>4. consumed * Cents \in Int
        BY <1>2, <1>11
      <4> QED BY <1>2, <1>11, <4>1, <4>2, <4>3, <4>4
    <3> DEFINE b == n * Cents
    <3>2. b \in Nat \ {0} /\ c * len = 0
      BY <1>8, <2>1, <2>2
    <3> HIDE DEF b
    <3>3. projected \in Int /\ 2 * 0 - b <= 2 * (projected * b)
      BY <1>7, <3>2, RoundedIsNear, 0 \in Int DEF b
    <3>4. projected < 0 => projected * b <= (-1) * b
      BY <3>2, <3>3, FactorKeepsOrder, -1 \in Int, projected < 0 => projected <= -1
    <3>5. projected * b \in Int
      BY <3>2, <3>3
    <3>6. 0 <= projected
      BY <3>2, <3>3, <3>4, <3>5
    <3> QED BY <1>13, <3>1, <3>6 DEF d
  <2>3. CASE c # 0
    <3> DEFINE k == c * Cents
    <3>1. k \in Nat \ {0} /\ c * (n * Cents) = n * k /\ (c * len) * Cents = len * k
      BY <1>2, <1>8, <2>3
    <3> HIDE DEF k
    <3>2. n * k < len * k
      <4>1. (n + 1) * k <= len * k
        BY <1>8, <2>1, <3>1, FactorKeepsOrder, n + 1 \in Int, n + 1 <= len
      <4>2. (n + 1) * k = n * k + k /\ n * k \in Int /\ len * k \in Int
        BY <1>8, <3>1
      <4> QED BY <3>1, <4>1, <4>2
    <3>3. c * (n * Cents) < (c * len) * Cents
      BY <3>1, <3>2
    <3>4. consumed <= projected
      BY <1>2, <1>7, <1>10, <2>1, <3>3, RoundedOrder
    <3> QED BY <1>13, <3>4 DEF d
  <2> QED BY <2>2, <2>3
<1> QED BY <1>12, <1>13

(* A row is in a month and in the one before it only if clocks changed on  *)
(* the last date of that.                                                  *)
LEMMA MonthsShareNothing ==
    ASSUME Realistic, NEW d \in Int, HasMonths(d),
           NEW r \in MonthOf(d) \cap PreviousMonth(d)
    PROVE  ChangesOn(FirstOf(d) - 1)
<1>1. PICK f : Begins(f, d)
  BY MonthBegins DEF HasMonths
<1>2. FirstOf(d) = f /\ f \in Int /\ f - 1 \in Int /\ r[2] \in Int
  <2>1. FirstOf(d) = f
    BY <1>1, FirstIs
  <2>2. f \in Int
    BY <1>1, FirstDaysAreDates DEF Begins
  <2>3. r \in Rows
    BY DEF MonthOf, Between
  <2> QED BY <2>1, <2>2, <2>3, FinanceAssumption
<1>3. DateHere(f) <= r[2] /\ r[2] <= DateHere(f - 1)
  BY <1>2 DEF MonthOf, PreviousMonth, Between, DateHere
<1>4. DateHere(f) \in Int /\ DateHere(f - 1) \in Int
  BY <1>2, DateHereIs, DateBounds DEF DateHere
<1>5. DateHere(f) # DateHere(f - 1) + 1
  BY <1>2, <1>3, <1>4
<1>6. (f - 1) + 1 = f
  BY <1>2
<1> QED BY <1>2, <1>5, <1>6, DateHereGoesOn

(* Of the rows up to a moment the last one is always shown. *)
LEMMA LastIsRecent ==
    ASSUME NEW m, AnswerIsTyped(m), NEW t \in Int,
           NEW r \in DOMAIN m, MidnightOf(r[2]) <= t
    PROVE  \/ r \in RecentServices(m, t)
           \/ \E q \in RecentServices(m, t) : q[2] > r[2]
<1> DEFINE past == { q \in DOMAIN m : MidnightOf(q[2]) <= t }
           newer(q) == { x \in past : x[2] > q[2] }
           last == DateOf(t)
           S == { last - q[2] : q \in past }
<1>1. /\ RecentLimit \in Nat \ {0}
      /\ \A q \in past : q \in Rows /\ q[2] \in Int
  BY FinanceAssumption DEF AnswerIsTyped
<1>2. r \in past
  OBVIOUS
<1>3. last \in Int /\ \A q \in past : q[2] <= last
  <2>1. last \in Int /\ t < MidnightOf(last) + TicksPerDay
    BY DateBounds
  <2>2. ASSUME NEW q \in past, last < q[2]
        PROVE  FALSE
    <3>1. q[2] \in Int /\ MidnightOf(q[2]) \in Int /\ MidnightOf(last) \in Int
      BY <1>1, <2>1, MidnightIsInstant
    <3>2. MidnightOf(last) + TicksPerDay <= MidnightOf(q[2])
      BY <2>1, <2>2, <3>1, MidnightOrder
    <3>3. MidnightOf(q[2]) <= t
      OBVIOUS
    <3> QED BY <2>1, <3>1, <3>2, <3>3
  <2> QED BY <1>1, <2>1, <2>2
<1>4. PICK q \in past : \A x \in past : x[2] <= q[2]
  <2>1. S \subseteq Nat /\ S # {}
    BY <1>1, <1>2, <1>3
  <2>2. \E n \in S : \A k \in S : n <= k
    <3> HIDE DEF S
    <3> QED BY <2>1, LeastNumber
  <2>3. PICK q \in past : \A k \in S : last - q[2] <= k
    BY <2>2
  <2>4. \A x \in past : last - q[2] <= last - x[2]
    BY <2>3
  <2> HIDE DEF past, last
  <2>5. \A x \in past : x[2] <= q[2]
    BY <1>1, <1>3, <2>4
  <2> QED BY <2>5
<1>5. newer(q) = {}
  <2> HIDE DEF past
  <2> QED BY <1>1, <1>4
<1>6. RecentServices(m, t)
         = { x \in past : Cardinality(newer(x)) < RecentLimit }
  BY DEF RecentServices
<1>7. q \in RecentServices(m, t)
  BY <1>1, <1>5, <1>6, FS_EmptySet
<1>8. q[2] > r[2] \/ q[2] = r[2]
  BY <1>1, <1>2, <1>4
<1>9. q[2] = r[2] => r \in RecentServices(m, t)
  <2>1. q[2] = r[2] => newer(r) = {}
    BY <1>5
  <2> QED BY <1>1, <1>2, <1>6, <2>1, FS_EmptySet
<1> QED BY <1>7, <1>8, <1>9

(* A date whose midnight is to come within a week is upcoming. *)
LEMMA WeekToCome ==
    ASSUME NEW t \in Int, NEW r \in Rows,
           ~(MidnightOf(r[2]) <= t), ~(MidnightOf(r[2]) > AddDays(t, 7))
    PROVE  r \in Between(t, AddDays(t, 7))
<1> DEFINE d == r[2]
           u == AddDays(t, 7)
<1>1. d \in Int /\ u \in Int /\ MidnightOf(d) \in Int
  BY FinanceAssumption, MidnightIsInstant DEF AddDays
<1> HIDE DEF u
<1>2. /\ DateOf(t) \in Int /\ MidnightOf(DateOf(t)) <= t
      /\ DateOf(u) \in Int /\ u < MidnightOf(DateOf(u)) + TicksPerDay
  BY <1>1, DateBounds
<1>3. MidnightOf(DateOf(t)) \in Int /\ MidnightOf(DateOf(u)) \in Int
  BY <1>2, MidnightIsInstant
<1>4. ~(d < DateOf(t))
  <2>1. d < DateOf(t) =>
           MidnightOf(d) + TicksPerDay <= MidnightOf(DateOf(t))
    BY <1>1, <1>2, MidnightOrder
  <2> QED BY <1>1, <1>2, <1>3, <2>1
<1>5. ~(DateOf(u) < d)
  <2>1. DateOf(u) < d =>
           MidnightOf(DateOf(u)) + TicksPerDay <= MidnightOf(d)
    BY <1>1, <1>2, MidnightOrder
  <2> QED BY <1>1, <1>2, <1>3, <2>1 DEF u
<1> QED BY <1>1, <1>2, <1>4, <1>5 DEF Between, u

(* The figures of an answer fit together: see FiguresFit.                  *)
THEOREM FiguresCorrect == Spec => []FiguresFit
<1>1. Read => FiguresFit
  <2> SUFFICES ASSUME Read, stage = "answered"
               PROVE  /\ \A r \in DOMAIN current \cap DOMAIN previous :
                            ChangesOn(FirstOf(Asked) - 1)
                      /\ \A consumed \in Shown(Consumed(current)),
                            projected \in Projected(current, asked) :
                            IF IsLastOfMonth(Asked)
                            THEN \/ projected = consumed
                                 \/ /\ IsHalf(Consumed(current))
                                    /\ projected \in {consumed - 1,
                                                      consumed + 1}
                            ELSE consumed <= projected
                      /\ \A m \in {current, previous} : Persons(m) > 0 =>
                            \A cost \in CostPerPerson(m) :
                               /\ \E r \in ServedIn(m) :
                                     2 * Price(r) <= (2 * cost + 1) * Cents
                               /\ \E r \in ServedIn(m) :
                                     (2 * cost - 1) * Cents <= 2 * Price(r)
                      /\ (\E rate \in UtilizationRate(current) :
                            rate > 100) =>
                            \E r \in ServedIn(current) :
                               \/ r \notin Expected(current)
                               \/ current[r].servedQuantity
                                     > current[r].expectedQuantity
                      /\ \A r \in Expected(current) :
                            \/ r \in RecentServices(current, asked)
                            \/ r \in UpcomingServices(upcoming)
                            \/ MidnightOf(r[2]) > AddDays(asked, 7)
                            \/ \E q \in RecentServices(current, asked) :
                                  q[2] > r[2]
    BY DEF FiguresFit
  <2>1. /\ Realistic
        /\ AnswerIsTyped(current) /\ AnswerIsTyped(previous)
    BY ZoneIsRealistic, AnswersAreTyped DEF Read
  <2>2. asked \in FirstHour..LastHour /\ asked \in Int
    BY FinanceAssumption DEF Read, TypeOK
  <2>3. Asked \in Int /\ HasMonths(Asked)
    BY <2>1, <2>2, TimesHaveMonths DEF Asked
  <2>4. /\ DOMAIN current = MonthOf(Asked)
        /\ DOMAIN previous = PreviousMonth(Asked)
        /\ DOMAIN upcoming = Between(asked, AddDays(asked, 7))
        /\ Expected(current) \cap DOMAIN upcoming \subseteq Expected(upcoming)
    BY DEF Read, AnswersAreRead
  <2>5. \A r \in DOMAIN current \cap DOMAIN previous :
           ChangesOn(FirstOf(Asked) - 1)
    BY <2>1, <2>3, <2>4, MonthsShareNothing
  <2>6. \A consumed \in Shown(Consumed(current)),
           projected \in Projected(current, asked) :
           IF IsLastOfMonth(Asked)
           THEN \/ projected = consumed
                \/ /\ IsHalf(Consumed(current))
                   /\ projected \in {consumed - 1, consumed + 1}
           ELSE consumed <= projected
    BY <2>1, <2>2, ProjectedFits DEF Asked
  <2>7. ASSUME NEW r \in Expected(current)
        PROVE  \/ r \in RecentServices(current, asked)
               \/ r \in UpcomingServices(upcoming)
               \/ MidnightOf(r[2]) > AddDays(asked, 7)
               \/ \E q \in RecentServices(current, asked) : q[2] > r[2]
    <3>1. r \in DOMAIN current /\ r \in Rows
      BY <2>1 DEF Expected, AnswerIsTyped
    <3>2. CASE MidnightOf(r[2]) <= asked
      BY <2>1, <2>2, <3>1, <3>2, LastIsRecent
    <3>3. CASE /\ ~(MidnightOf(r[2]) <= asked)
               /\ ~(MidnightOf(r[2]) > AddDays(asked, 7))
      BY <2>2, <2>4, <3>1, <3>3, WeekToCome DEF UpcomingServices
    <3> QED BY <3>2, <3>3
  <2>8. \A m \in {current, previous} : AnswerIsTyped(m)
    BY <2>1
  <2>9. \A m \in {current, previous} : Persons(m) > 0 =>
           \A cost \in CostPerPerson(m) :
              /\ \E r \in ServedIn(m) : 2 * Price(r) <= (2 * cost + 1) * Cents
              /\ \E r \in ServedIn(m) : (2 * cost - 1) * Cents <= 2 * Price(r)
    BY <2>8, PersonCosts
  <2>10. (\E rate \in UtilizationRate(current) : rate > 100) =>
            \E r \in ServedIn(current) :
               \/ r \notin Expected(current)
               \/ current[r].servedQuantity > current[r].expectedQuantity
    BY <2>1, OverUse
  <2> QED BY <2>5, <2>6, <2>7, <2>9, <2>10
<1> QED BY <1>1, InitRead, NextRead, PTL DEF Spec
=============================================================================
