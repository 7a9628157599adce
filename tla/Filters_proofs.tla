--------------------------- MODULE Filters_proofs ---------------------------
(***************************************************************************)
(* What filtering a list returns.  Kept is a recursive function, of which  *)
(* the provers know its definition at best: that it exists, and what it    *)
(* returns for every list, come from the least prefix for which it would   *)
(* not, instead of an induction.                                           *)
(***************************************************************************)
EXTENDS Filters, SequencesExt, WellFoundedInduction, TLAPS

\* Every non-empty set of natural numbers has a least element.
LEMMA LeastElement ==
    ASSUME NEW T, T \subseteq Nat, T # {}
    PROVE  \E x \in T : \A y \in T : x <= y
<1>1. PICK x \in T : \A y \in T : ~(<<y, x>> \in OpToRel(<, Nat))
  BY NatLessThanWellFounded, WFMin
<1>2. ASSUME NEW y \in T, y < x PROVE FALSE
  <2>1. x \in Nat /\ y \in Nat
    OBVIOUS
  <2>2. <<y, x>> \in OpToRel(<, Nat)
    BY <1>2, <2>1 DEF OpToRel
  <2> QED BY <1>1, <2>2
<1>3. x \in Nat /\ \A y \in T : y \in Nat
  OBVIOUS
<1> QED BY <1>2, <1>3

\* One step of the filter, from what it made of the list before.
FilterStep(list, set, f, n) ==
    IF n = 0 THEN <<>>
    ELSE IF list[n] \in set THEN Append(f[n - 1], list[n])
    ELSE f[n - 1]

\* The filter exists: it can be extended from each prefix to the next.
LEMMA FilterExists ==
    ASSUME NEW S, NEW list \in Seq(S), NEW set
    PROVE  \E f \in [0..Len(list) -> Seq(S)] :
               \A n \in 0..Len(list) : f[n] = FilterStep(list, set, f, n)
<1> DEFINE Filters(m) == {f \in [0..m -> Seq(S)] :
                              \A n \in 0..m : f[n] = FilterStep(list, set, f, n)}
           T == {m \in 0..Len(list) : Filters(m) = {}}
<1>1. Len(list) \in Nat /\ \A n \in 1..Len(list) : list[n] \in S
  OBVIOUS
<1>2. Filters(0) # {}
  <2> DEFINE f == [n \in 0..0 |-> <<>>]
  <2>1. f \in [0..0 -> Seq(S)] /\ \A n \in 0..0 : f[n] = FilterStep(list, set, f, n)
    BY DEF FilterStep
  <2> QED BY <2>1
<1>3. ASSUME NEW m \in 1..Len(list), Filters(m - 1) # {}
      PROVE  Filters(m) # {}
  <2>1. PICK f \in Filters(m - 1) : TRUE
    BY <1>3
  <2>2. /\ f \in [0..(m - 1) -> Seq(S)]
        /\ \A n \in 0..(m - 1) : f[n] = FilterStep(list, set, f, n)
    BY <2>1
  <2> DEFINE last == FilterStep(list, set, f, m)
             g == [n \in 0..m |-> IF n = m THEN last ELSE f[n]]
  <2>3. last \in Seq(S)
    BY <1>1, <2>2 DEF FilterStep
  <2> HIDE DEF last
  <2>4. g \in [0..m -> Seq(S)] /\ g[m] = last /\ \A n \in 0..(m - 1) : g[n] = f[n]
    BY <2>2, <2>3
  <2> HIDE DEF g
  <2>5. ASSUME NEW n \in 0..m
        PROVE  g[n] = FilterStep(list, set, g, n)
    <3>1. CASE n = m
      <4>1. m - 1 \in 0..(m - 1) /\ m # 0
        OBVIOUS
      <4>2. FilterStep(list, set, g, m) = FilterStep(list, set, f, m)
        BY <2>4, <4>1 DEF FilterStep
      <4> QED BY <2>4, <3>1, <4>2 DEF last
    <3>2. CASE n \in 0..(m - 1)
      <4>1. n = 0 \/ n - 1 \in 0..(m - 1)
        BY <3>2
      <4> QED BY <2>2, <2>4, <3>2, <4>1 DEF FilterStep
    <3> QED BY <3>1, <3>2
  <2> QED BY <2>4, <2>5
<1> HIDE DEF Filters
<1>4. CASE T # {}
  <2>0. T \subseteq Nat
    OBVIOUS
  <2>1. PICK m \in T : \A k \in T : m <= k
    BY <1>4, <2>0, LeastElement
  <2>2. m \in 1..Len(list) /\ m - 1 \in 0..Len(list) /\ m - 1 \notin T
    BY <1>1, <1>2, <2>1
  <2> QED BY <1>3, <2>1, <2>2
<1>5. CASE T = {}
  <2>1. Filters(Len(list)) # {}
    BY <1>1, <1>5
  <2> QED BY <2>1 DEF Filters
<1> QED BY <1>4, <1>5

LEMMA KeptFilter ==
    ASSUME NEW S, NEW list \in Seq(S), NEW set
    PROVE  \E f : /\ \A n \in 0..Len(list) : f[n] = FilterStep(list, set, f, n)
                  /\ Kept(list, set) = f[Len(list)]
<1> DEFINE Def(f) == f = [n \in 0..Len(list) |->
                             IF n = 0 THEN <<>>
                             ELSE IF list[n] \in set THEN Append(f[n - 1], list[n])
                             ELSE f[n - 1]]
           filter == CHOOSE f : Def(f)
<1>1. PICK f \in [0..Len(list) -> Seq(S)] :
                \A n \in 0..Len(list) : f[n] = FilterStep(list, set, f, n)
  BY FilterExists
<1>2. Def(f)
  BY <1>1 DEF FilterStep
<1>3. Def(filter)
  <2> HIDE DEF Def
  <2> QED BY <1>2
<1>4. Kept(list, set) = filter[Len(list)]
  BY DEF Kept
<1>5. \A n \in 0..Len(list) : filter[n] = FilterStep(list, set, filter, n)
  <2> HIDE DEF filter
  <2> QED BY <1>3 DEF FilterStep
<1> QED BY <1>4, <1>5

\* What the filter returns: the members of the list that are in the set, no more
\* than the list has, and none of them twice if the list has none twice.
LEMMA KeptFacts ==
    ASSUME NEW S, NEW list \in Seq(S), NEW set
    PROVE  /\ Kept(list, set) \in Seq(S)
           /\ ToSet(Kept(list, set)) = ToSet(list) \cap set
           /\ Len(Kept(list, set)) <= Len(list)
           /\ IsInjective(list) => IsInjective(Kept(list, set))
<1>1. PICK f : /\ \A n \in 0..Len(list) : f[n] = FilterStep(list, set, f, n)
               /\ Kept(list, set) = f[Len(list)]
  BY KeptFilter
<1>2. Len(list) \in Nat /\ \A n \in 1..Len(list) : list[n] \in S
  OBVIOUS
<1> DEFINE Before(n) == {list[k] : k \in 1..n}
           Good(n) == /\ f[n] \in Seq(S) /\ ToSet(f[n]) = Before(n) \cap set
                      /\ IsInjective(list) => IsInjective(f[n])
                      /\ Len(f[n]) <= n
           T == {n \in 0..Len(list) : ~Good(n)}
<1>3. Good(0)
  <2>1. f[0] = <<>>
    BY <1>1, <1>2 DEF FilterStep
  <2> QED BY <2>1 DEF ToSet, IsInjective
<1>4. ASSUME NEW n \in 1..Len(list), Good(n - 1)
      PROVE  Good(n)
  <2>1. n - 1 \in 0..Len(list) /\ n \in 0..Len(list) /\ n # 0
    BY <1>2
  <2>2. f[n] = IF list[n] \in set THEN Append(f[n - 1], list[n]) ELSE f[n - 1]
    BY <1>1, <2>1 DEF FilterStep
  <2>3. Before(n) = Before(n - 1) \cup {list[n]}
    BY <1>2
  <2>4. IsInjective(list) => list[n] \notin Before(n - 1)
    BY <1>2 DEF IsInjective
  <2> HIDE DEF Before
  <2> DEFINE g == f[n - 1]
             x == list[n]
  <2>5. g \in Seq(S) /\ x \in S /\ ToSet(g) = Before(n - 1) \cap set
    BY <1>2, <1>4
  <2>6. CASE x \in set
    <3>1. f[n] = Append(g, x)
      BY <2>2, <2>6
    <3> HIDE DEF g, x
    <3>2. /\ Append(g, x) \in Seq(S) /\ DOMAIN Append(g, x) = DOMAIN g \cup {Len(g) + 1}
          /\ Append(g, x)[Len(g) + 1] = x /\ Len(g) + 1 \notin DOMAIN g
          /\ \A k \in DOMAIN g : Append(g, x)[k] = g[k]
      BY <2>5
    <3>3. ToSet(Append(g, x)) = ToSet(g) \cup {x}
      BY <3>2 DEF ToSet
    <3>4. IsInjective(g) /\ x \notin ToSet(g) => IsInjective(Append(g, x))
      BY <3>2 DEF ToSet, IsInjective
    <3> QED BY <1>4, <2>3, <2>4, <2>5, <2>6, <3>1, <3>2, <3>3, <3>4 DEF g, x
  <2>7. CASE x \notin set
    BY <1>4, <2>2, <2>3, <2>7
  <2> QED BY <2>6, <2>7
<1>5. ToSet(list) = Before(Len(list))
  BY DEF ToSet
<1>6. T = {}
  <2> HIDE DEF Good
  <2> SUFFICES ASSUME T # {} PROVE FALSE
    OBVIOUS
  <2>1. T \subseteq Nat
    OBVIOUS
  <2>2. PICK m \in T : \A k \in T : m <= k
    BY <2>1, LeastElement
  <2>3. m \in 1..Len(list) /\ m - 1 \in 0..Len(list) /\ m - 1 \notin T
    BY <1>2, <1>3, <2>2
  <2> QED BY <1>4, <2>2, <2>3
<1>7. Good(Len(list))
  <2> HIDE DEF Good
  <2> QED BY <1>2, <1>6
<1> QED BY <1>1, <1>5, <1>7

\* Two lists of which the filters keep alike are filtered alike.
Filtering(f, list, set, n) == \A k \in 0..n : f[k] = FilterStep(list, set, f, k)
Alike(p, A, q, B, n) == \A k \in 1..n : p[k] = q[k] /\ (p[k] \in A <=> q[k] \in B)

LEMMA SameSteps ==
    ASSUME NEW n \in Nat, NEW f, NEW g, NEW p, NEW q, NEW A, NEW B,
           Filtering(f, p, A, n), Filtering(g, q, B, n), Alike(p, A, q, B, n)
    PROVE  f[n] = g[n]
<1> USE DEF Filtering, Alike
<1> DEFINE T == {k \in 0..n : f[k] # g[k]}
<1>1. ASSUME T # {} PROVE FALSE
  <2>1. T \subseteq Nat
    OBVIOUS
  <2>2. PICK m \in T : \A k \in T : m <= k
    BY <1>1, <2>1, LeastElement
  <2>3. m # 0
    BY DEF FilterStep
  <2>4. m \in 1..n /\ m - 1 \in 0..n /\ m - 1 \notin T
    BY <2>2, <2>3
  <2>5. f[m] = FilterStep(p, A, f, m) /\ g[m] = FilterStep(q, B, g, m) /\ f[m - 1] = g[m - 1]
    BY <2>4
  <2>6. f[m] = g[m]
    BY <2>4, <2>5 DEF FilterStep
  <2> QED BY <2>2, <2>6
<1> QED BY <1>1

\* Only the members of the list matter.
LEMMA KeptSame ==
    ASSUME NEW S, NEW list \in Seq(S), NEW A, NEW B,
           \A x \in ToSet(list) : x \in A <=> x \in B
    PROVE  Kept(list, A) = Kept(list, B)
<1>1. PICK f : /\ \A n \in 0..Len(list) : f[n] = FilterStep(list, A, f, n)
               /\ Kept(list, A) = f[Len(list)]
  BY KeptFilter
<1>2. PICK g : /\ \A n \in 0..Len(list) : g[n] = FilterStep(list, B, g, n)
               /\ Kept(list, B) = g[Len(list)]
  BY KeptFilter
<1>3. Len(list) \in Nat /\ Alike(list, A, list, B, Len(list))
  BY DEF Alike, ToSet
<1>4. Filtering(f, list, A, Len(list)) /\ Filtering(g, list, B, Len(list))
  BY <1>1, <1>2 DEF Filtering
<1>5. f[Len(list)] = g[Len(list)]
  BY <1>3, <1>4, SameSteps
<1> QED BY <1>1, <1>2, <1>5

LEMMA KeptAppend ==
    ASSUME NEW S, NEW list \in Seq(S), NEW x \in S, NEW set
    PROVE  Kept(Append(list, x), set) =
               IF x \in set THEN Append(Kept(list, set), x) ELSE Kept(list, set)
<1> DEFINE longer == Append(list, x)
           n == Len(list)
<1>1. /\ longer \in Seq(S) /\ n \in Nat /\ Len(longer) = n + 1 /\ longer[n + 1] = x
      /\ \A k \in 1..n : longer[k] = list[k]
  OBVIOUS
<1> HIDE DEF longer
<1>2. PICK f : /\ \A k \in 0..n : f[k] = FilterStep(list, set, f, k)
               /\ Kept(list, set) = f[n]
  BY KeptFilter
<1>3. PICK g : /\ \A k \in 0..(n + 1) : g[k] = FilterStep(longer, set, g, k)
               /\ Kept(longer, set) = g[n + 1]
  BY <1>1, KeptFilter
<1> HIDE DEF n
<1>4. g[n] = f[n]
  <2>1. Filtering(f, list, set, n) /\ Filtering(g, longer, set, n)
    BY <1>1, <1>2, <1>3 DEF Filtering
  <2>2. Alike(longer, set, list, set, n)
    BY <1>1 DEF Alike
  <2> QED BY <1>1, <2>1, <2>2, SameSteps
<1>5. n + 1 \in 0..(n + 1) /\ n + 1 # 0 /\ (n + 1) - 1 = n
  BY <1>1
<1>6. g[n + 1] = IF x \in set THEN Append(g[n], x) ELSE g[n]
  BY <1>1, <1>3, <1>5 DEF FilterStep
<1> QED BY <1>2, <1>3, <1>4, <1>6 DEF longer

\* A list that is filtered twice.
LEMMA KeptKept ==
    ASSUME NEW S, NEW list \in Seq(S), NEW A, NEW B
    PROVE  Kept(Kept(list, A), B) = Kept(list, A \cap B)
<1>1. PICK f : /\ \A n \in 0..Len(list) : f[n] = FilterStep(list, A, f, n)
               /\ Kept(list, A) = f[Len(list)]
  BY KeptFilter
<1>2. PICK g : /\ \A n \in 0..Len(list) : g[n] = FilterStep(list, A \cap B, g, n)
               /\ Kept(list, A \cap B) = g[Len(list)]
  BY KeptFilter
<1>3. Len(list) \in Nat /\ \A n \in 1..Len(list) : list[n] \in S
  OBVIOUS
<1> DEFINE Good(n) == f[n] \in Seq(S) /\ Kept(f[n], B) = g[n]
           T == {n \in 0..Len(list) : ~Good(n)}
<1>4. Good(0)
  <2>1. f[0] = <<>> /\ g[0] = <<>>
    BY <1>1, <1>2, <1>3 DEF FilterStep
  <2>2. <<>> \in Seq(S) /\ Len(<<>>) = 0
    OBVIOUS
  <2>3. Kept(<<>>, B) \in Seq(S) /\ Len(Kept(<<>>, B)) <= 0
    BY <2>2, KeptFacts
  <2>4. Kept(<<>>, B) = <<>>
    BY <2>3
  <2> QED BY <2>1, <2>2, <2>4
<1>5. ASSUME NEW n \in 1..Len(list), Good(n - 1)
      PROVE  Good(n)
  <2>1. n \in 0..Len(list) /\ n # 0 /\ list[n] \in S
    BY <1>3
  <2>2. /\ f[n] = IF list[n] \in A THEN Append(f[n - 1], list[n]) ELSE f[n - 1]
        /\ g[n] = IF list[n] \in A \cap B THEN Append(g[n - 1], list[n]) ELSE g[n - 1]
    BY <1>1, <1>2, <2>1 DEF FilterStep
  <2>3. CASE list[n] \in A
    <3> DEFINE before == f[n - 1]
               x == list[n]
    <3>1. before \in Seq(S) /\ x \in S /\ Kept(before, B) = g[n - 1] /\ f[n] = Append(before, x)
      BY <1>5, <2>1, <2>2, <2>3
    <3>2. g[n] = IF x \in B THEN Append(g[n - 1], x) ELSE g[n - 1]
      BY <2>2, <2>3
    <3> HIDE DEF before, x
    <3>3. Kept(Append(before, x), B)
            = IF x \in B THEN Append(Kept(before, B), x) ELSE Kept(before, B)
      BY <3>1, KeptAppend
    <3>4. Append(before, x) \in Seq(S)
      BY <3>1
    <3> QED BY <3>1, <3>2, <3>3, <3>4
  <2>4. CASE list[n] \notin A
    BY <1>5, <2>2, <2>4
  <2> QED BY <2>3, <2>4
<1> HIDE DEF Good
<1>6. T = {}
  <2> SUFFICES ASSUME T # {} PROVE FALSE
    OBVIOUS
  <2>1. T \subseteq Nat
    OBVIOUS
  <2>2. PICK m \in T : \A k \in T : m <= k
    BY <2>1, LeastElement
  <2>3. m \in 1..Len(list) /\ m - 1 \in 0..Len(list) /\ m - 1 \notin T
    BY <1>3, <1>4, <2>2
  <2> QED BY <1>5, <2>2, <2>3
<1>7. Good(Len(list))
  BY <1>3, <1>6
<1> QED BY <1>1, <1>2, <1>7 DEF Good
=============================================================================
