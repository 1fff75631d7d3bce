----------------------------- MODULE SumTheorems -----------------------------
(***************************************************************************)
(* Sums over finite sets: SumFunctionOnSet(f, S), which is a recursive     *)
(* function on the subsets of S, adds the values of f on S in whatever     *)
(* order.  Each proof looks at a smallest subset that is an exception:     *)
(* strict inclusion is well-founded on the subsets of a finite set.        *)
(***************************************************************************)
EXTENDS Integers, Functions, FiniteSetTheorems, WellFoundedInduction, TLAPS

First(s) == CHOOSE x \in s : TRUE

\* g sums f over every subset of S, one element after the other.
Sums(f, S, g) ==
    g = [s \in SUBSET S |-> IF s = {} THEN 0 ELSE f[First(s)] + g[s \ {First(s)}]]

SumsTo(f, S) == CHOOSE g : Sums(f, S, g)

LEMMA SumIsRecursive ==
    ASSUME NEW f, NEW S
    PROVE  SumFunctionOnSet(f, S) = SumsTo(f, S)[S]
  BY DEF SumFunctionOnSet, FoldFunctionOnSet, MapThenFoldSet, SumsTo, Sums, First

\* Of a set of subsets of a finite set, one has no strict subset among them.
LEMMA SmallestException ==
    ASSUME NEW S, IsFiniteSet(S), NEW T, T \subseteq SUBSET S, T # {}
    PROVE  \E s \in T : \A t \in T : t \subseteq s => t = s
<1>1. PICK s \in T : \A t \in T : ~(<<t, s>> \in StrictSubsetOrdering(S))
  BY FS_StrictSubsetOrderingWellFounded, FS_FiniteSubsetsOfFinite, WFMin
<1>2. ASSUME NEW t \in T, t \subseteq s
      PROVE  t = s
  BY <1>1, <1>2 DEF StrictSubsetOrdering
<1> QED
  BY <1>2

LEMMA FirstIsIn ==
    ASSUME NEW s, s # {}
    PROVE  First(s) \in s
  BY DEF First

LEMMA SumsUnfold ==
    ASSUME NEW f, NEW S, NEW g, Sums(f, S, g), NEW s \in SUBSET S
    PROVE  /\ s = {} => g[s] = 0
           /\ s # {} => g[s] = f[First(s)] + g[s \ {First(s)}]
<1> DEFINE body == [t \in SUBSET S |-> IF t = {} THEN 0 ELSE f[First(t)] + g[t \ {First(t)}]]
<1>1. g = body
  BY DEF Sums
<1>2. g[s] = body[s]
  BY <1>1
<1> QED
  BY <1>2

\* The sums are the same whichever larger set they are taken in.
LEMMA SumsUnique ==
    ASSUME NEW f, NEW S, IsFiniteSet(S), NEW T, T \subseteq S,
           NEW g, NEW h, Sums(f, S, g), Sums(f, T, h)
    PROVE  \A s \in SUBSET T : g[s] = h[s]
<1> DEFINE Bad == {s \in SUBSET T : g[s] # h[s]}
<1> SUFFICES ASSUME Bad # {} PROVE FALSE
  OBVIOUS
<1>1. PICK s \in Bad : \A t \in Bad : t \subseteq s => t = s
  <2>1. Bad \subseteq SUBSET T /\ IsFiniteSet(T)
    BY FS_Subset
  <2> HIDE DEF Bad
  <2> QED
    BY <2>1, SmallestException
<1>2. s \in SUBSET T /\ s \in SUBSET S /\ g[s] # h[s]
  OBVIOUS
<1>3. s # {}
  BY <1>2, SumsUnfold
<1> DEFINE u == s \ {First(s)}
<1>4. g[s] = f[First(s)] + g[u] /\ h[s] = f[First(s)] + h[u]
  BY <1>2, <1>3, SumsUnfold
<1>5. u \in SUBSET T /\ u \subseteq s /\ u # s
  BY <1>2, <1>3, FirstIsIn
<1>6. g[u] = h[u]
  BY <1>1, <1>5
<1> QED
  BY <1>2, <1>4, <1>6

LEMMA SumsExist ==
    ASSUME NEW f, NEW S, IsFiniteSet(S)
    PROVE  Sums(f, S, SumsTo(f, S))
<1> DEFINE Bad == {s \in SUBSET S : ~Sums(f, s, SumsTo(f, s))}
<1> SUFFICES ASSUME Bad # {} PROVE FALSE
  OBVIOUS
<1>1. PICK s \in Bad : \A t \in Bad : t \subseteq s => t = s
  <2>1. Bad \subseteq SUBSET S /\ IsFiniteSet(S)
    BY FS_Subset
  <2> HIDE DEF Bad
  <2> QED
    BY <2>1, SmallestException
<1>2. s \in SUBSET S /\ IsFiniteSet(s) /\ ~Sums(f, s, SumsTo(f, s))
  BY FS_Subset
<1>3. \A t \in SUBSET s : t # s => Sums(f, t, SumsTo(f, t)) /\ IsFiniteSet(t)
  BY <1>1, <1>2, FS_Subset
<1> DEFINE last == f[First(s)] + SumsTo(f, s \ {First(s)})[s \ {First(s)}]
           g == [t \in SUBSET s |-> IF t = s THEN (IF s = {} THEN 0 ELSE last)
                                             ELSE SumsTo(f, t)[t]]
<1>4. ASSUME NEW t \in SUBSET s
      PROVE  g[t] = IF t = {} THEN 0 ELSE f[First(t)] + g[t \ {First(t)}]
  <2> DEFINE u == t \ {First(t)}
  <2>1. CASE t = {}
    <3>1. CASE s = {}
      BY <2>1, <3>1
    <3>2. CASE s # {}
      <4>1. Sums(f, t, SumsTo(f, t)) /\ t # s
        BY <1>3, <2>1, <3>2
      <4>2. SumsTo(f, t)[t] = 0
        BY <2>1, <4>1, SumsUnfold
      <4> QED
        BY <2>1, <4>1, <4>2
    <3> QED
      BY <3>1, <3>2
  <2>2. CASE t # {}
    <3>1. u \in SUBSET s /\ u \in SUBSET t /\ u # t /\ u # s
      BY <2>2, FirstIsIn
    <3>2. g[u] = SumsTo(f, u)[u]
      BY <3>1
    <3>3. CASE t = s
      BY <2>2, <3>2, <3>3
    <3>4. CASE t # s
      <4>1. Sums(f, t, SumsTo(f, t)) /\ IsFiniteSet(t) /\ Sums(f, u, SumsTo(f, u))
        BY <1>3, <3>1, <3>4
      <4>2. SumsTo(f, t)[t] = f[First(t)] + SumsTo(f, t)[u]
        BY <2>2, <4>1, SumsUnfold
      <4>3. SumsTo(f, t)[u] = SumsTo(f, u)[u]
        <5> HIDE DEF u
        <5> QED
          BY <3>1, <4>1, SumsUnique
      <4>4. g[t] = SumsTo(f, t)[t]
        BY <3>4
      <4> HIDE DEF g
      <4> QED
        BY <2>2, <3>2, <4>2, <4>3, <4>4
    <3> QED
      BY <3>3, <3>4
  <2> QED
    BY <2>1, <2>2
<1>5. g = [t \in SUBSET s |-> g[t]]
  OBVIOUS
<1> HIDE DEF g
<1>6. Sums(f, s, g)
  BY <1>4, <1>5 DEF Sums
<1>7. Sums(f, s, SumsTo(f, s))
  BY <1>6 DEF SumsTo
<1> QED
  BY <1>2, <1>7

\* The sums taken in any larger set are the sums.
LEMMA SumOfSubset ==
    ASSUME NEW f, NEW S, IsFiniteSet(S), NEW s \in SUBSET S
    PROVE  SumFunctionOnSet(f, s) = SumsTo(f, S)[s]
<1>1. IsFiniteSet(s)
  BY FS_Subset
<1>2. Sums(f, S, SumsTo(f, S)) /\ Sums(f, s, SumsTo(f, s))
  BY <1>1, SumsExist
<1>3. SumsTo(f, S)[s] = SumsTo(f, s)[s]
  BY <1>2, SumsUnique
<1> QED
  BY <1>3, SumIsRecursive

LEMMA SumOfEmpty ==
    ASSUME NEW f
    PROVE  SumFunctionOnSet(f, {}) = 0
<1>1. IsFiniteSet({})
  BY FS_EmptySet
<1>2. Sums(f, {}, SumsTo(f, {}))
  BY <1>1, SumsExist
<1> QED
  BY <1>2, SumsUnfold, SumIsRecursive

LEMMA SumOfFirst ==
    ASSUME NEW f, NEW S, IsFiniteSet(S), S # {}
    PROVE  SumFunctionOnSet(f, S) = f[First(S)] + SumFunctionOnSet(f, S \ {First(S)})
<1>1. Sums(f, S, SumsTo(f, S))
  BY SumsExist
<1> QED
  BY <1>1, SumsUnfold, SumOfSubset

LEMMA SumOfIntegers ==
    ASSUME NEW f, NEW S, IsFiniteSet(S), \A x \in S : f[x] \in Int
    PROVE  SumFunctionOnSet(f, S) \in Int
<1> DEFINE Bad == {s \in SUBSET S : SumFunctionOnSet(f, s) \notin Int}
<1> SUFFICES ASSUME Bad # {} PROVE FALSE
  OBVIOUS
<1>1. PICK s \in Bad : \A t \in Bad : t \subseteq s => t = s
  <2>1. Bad \subseteq SUBSET S
    OBVIOUS
  <2> HIDE DEF Bad
  <2> QED
    BY <2>1, SmallestException
<1>2. s # {} /\ IsFiniteSet(s)
  <2>1. s # {}
    BY SumOfEmpty
  <2>2. s \subseteq S
    OBVIOUS
  <2> QED
    BY <2>1, <2>2, FS_Subset
<1>3. First(s) \in s /\ SumFunctionOnSet(f, s \ {First(s)}) \in Int
  BY <1>1, <1>2, FirstIsIn
<1> QED
  BY <1>2, <1>3, SumOfFirst

\* Any element can be taken out first.
LEMMA SumWithout ==
    ASSUME NEW f, NEW S, IsFiniteSet(S), \A y \in S : f[y] \in Int, NEW x \in S
    PROVE  SumFunctionOnSet(f, S) = f[x] + SumFunctionOnSet(f, S \ {x})
<1> DEFINE Sum(s) == SumFunctionOnSet(f, s)
           Bad == {s \in SUBSET S : \E z \in s : Sum(s) # f[z] + Sum(s \ {z})}
<1> SUFFICES ASSUME Bad # {} PROVE FALSE
  OBVIOUS
<1>1. PICK s \in Bad : \A t \in Bad : t \subseteq s => t = s
  <2>1. Bad \subseteq SUBSET S
    OBVIOUS
  <2> HIDE DEF Bad
  <2> QED
    BY <2>1, SmallestException
<1>2. PICK z \in s : Sum(s) # f[z] + Sum(s \ {z})
  OBVIOUS
<1> DEFINE y == First(s)
           rest == (s \ {y}) \ {z}
<1>3. s \in SUBSET S /\ IsFiniteSet(s) /\ y \in s
  BY FS_Subset, FirstIsIn
<1>4. Sum(s) = f[y] + Sum(s \ {y})
  BY <1>2, <1>3, SumOfFirst
<1>5. y # z
  BY <1>2, <1>4
<1>6. s \ {y} \notin Bad /\ s \ {z} \notin Bad
  BY <1>1, <1>2, <1>3
<1>7. Sum(s \ {y}) = f[z] + Sum(rest)
  BY <1>2, <1>3, <1>5, <1>6
<1>8. (s \ {z}) \ {y} = rest
  OBVIOUS
<1>9. Sum(s \ {z}) = f[y] + Sum(rest)
  BY <1>2, <1>3, <1>5, <1>6, <1>8
<1>10. Sum(rest) \in Int /\ f[y] \in Int /\ f[z] \in Int
  BY <1>2, <1>3, SumOfIntegers, FS_Subset
<1> HIDE DEF Sum, y, rest
<1> QED
  BY <1>2, <1>4, <1>7, <1>9, <1>10

\* An element more.
LEMMA SumWith ==
    ASSUME NEW f, NEW S, IsFiniteSet(S), NEW x, x \notin S, \A y \in S \cup {x} : f[y] \in Int
    PROVE  SumFunctionOnSet(f, S \cup {x}) = SumFunctionOnSet(f, S) + f[x]
<1>1. IsFiniteSet(S \cup {x}) /\ (S \cup {x}) \ {x} = S
  BY FS_AddElement
<1>2. SumFunctionOnSet(f, S \cup {x}) = f[x] + SumFunctionOnSet(f, S)
  BY <1>1, SumWithout
<1> QED
  BY <1>2, SumOfIntegers

\* Only the values on the set count.
LEMMA SumOfEquals ==
    ASSUME NEW f, NEW g, NEW S, IsFiniteSet(S), \A x \in S : f[x] = g[x]
    PROVE  SumFunctionOnSet(f, S) = SumFunctionOnSet(g, S)
<1> DEFINE Bad == {s \in SUBSET S : SumFunctionOnSet(f, s) # SumFunctionOnSet(g, s)}
<1> SUFFICES ASSUME Bad # {} PROVE FALSE
  OBVIOUS
<1>1. PICK s \in Bad : \A t \in Bad : t \subseteq s => t = s
  <2>1. Bad \subseteq SUBSET S
    OBVIOUS
  <2> HIDE DEF Bad
  <2> QED
    BY <2>1, SmallestException
<1>2. s \in SUBSET S /\ s # {} /\ IsFiniteSet(s)
  BY SumOfEmpty, FS_Subset
<1>3. /\ First(s) \in s /\ f[First(s)] = g[First(s)]
      /\ SumFunctionOnSet(f, s \ {First(s)}) = SumFunctionOnSet(g, s \ {First(s)})
  BY <1>1, <1>2, FirstIsIn
<1> QED
  BY <1>2, <1>3, SumOfFirst

\* The same values under other names: h pairs S with what it maps S to.
LEMMA SumAcross ==
    ASSUME NEW f, NEW g, NEW h, NEW S, IsFiniteSet(S),
           \A x \in S : f[x] \in Int /\ g[h[x]] = f[x],
           \A x, y \in S : h[x] = h[y] => x = y
    PROVE  /\ IsFiniteSet({h[x] : x \in S})
           /\ SumFunctionOnSet(g, {h[x] : x \in S}) = SumFunctionOnSet(f, S)
<1> DEFINE Image(s) == {h[x] : x \in s}
           Holds(s) == /\ IsFiniteSet(Image(s))
                       /\ SumFunctionOnSet(g, Image(s)) = SumFunctionOnSet(f, s)
           Bad == {s \in SUBSET S : ~Holds(s)}
<1> SUFFICES ASSUME Bad # {} PROVE FALSE
  OBVIOUS
<1>1. PICK s \in Bad : \A t \in Bad : t \subseteq s => t = s
  <2>1. Bad \subseteq SUBSET S
    OBVIOUS
  <2> HIDE DEF Bad
  <2> QED
    BY <2>1, SmallestException
<1>2. s \in SUBSET S /\ ~Holds(s)
  OBVIOUS
<1>3. s # {}
  <2>1. Image({}) = {}
    OBVIOUS
  <2>2. Holds({})
    BY <2>1, SumOfEmpty, FS_EmptySet
  <2> HIDE DEF Holds
  <2> QED
    BY <1>2, <2>2
<1> DEFINE y == First(s)
           rest == s \ {y}
<1>4. y \in s /\ IsFiniteSet(s)
  BY <1>2, <1>3, FirstIsIn, FS_Subset
<1>5. Holds(rest)
  <2>1. rest \in SUBSET S /\ rest \subseteq s /\ rest # s
    BY <1>2, <1>4
  <2> HIDE DEF rest, Holds
  <2>2. rest \notin Bad
    <3> HIDE DEF Bad
    <3> QED
      BY <1>1, <2>1
  <2> QED
    BY <2>1, <2>2
<1>6. SumFunctionOnSet(f, s) = f[y] + SumFunctionOnSet(f, rest)
  BY <1>3, <1>4, SumOfFirst
<1>7. /\ Image(s) = Image(rest) \cup {h[y]}
      /\ h[y] \notin Image(rest)
      /\ \A z \in Image(rest) \cup {h[y]} : g[z] \in Int
  BY <1>2, <1>4
<1>8. f[y] \in Int /\ SumFunctionOnSet(f, rest) \in Int /\ g[h[y]] = f[y]
  <2>1. IsFiniteSet(rest) /\ \A x \in rest : f[x] \in Int
    BY <1>2, <1>4, FS_Subset
  <2> QED
    BY <1>2, <1>4, <2>1, SumOfIntegers
<1> HIDE DEF y, rest, Image
<1>9. SumFunctionOnSet(g, Image(rest) \cup {h[y]}) = SumFunctionOnSet(g, Image(rest)) + g[h[y]]
  BY <1>5, <1>7, SumWith
<1>10. IsFiniteSet(Image(s))
  BY <1>5, <1>7, FS_AddElement
<1>11. Holds(s)
  BY <1>5, <1>6, <1>7, <1>8, <1>9, <1>10
<1> QED
  BY <1>2, <1>11

\* Values that exceed others by at most k exceed them in sum by at most k each.
LEMMA SumsApart ==
    ASSUME NEW f, NEW g, NEW S, IsFiniteSet(S), NEW k \in Nat,
           \A x \in S : f[x] \in Int /\ g[x] \in Int /\ g[x] <= f[x] /\ f[x] <= g[x] + k
    PROVE  /\ SumFunctionOnSet(g, S) <= SumFunctionOnSet(f, S)
           /\ SumFunctionOnSet(f, S) <= SumFunctionOnSet(g, S) + Cardinality(S) * k
<1> DEFINE Holds(s) ==
               /\ SumFunctionOnSet(g, s) <= SumFunctionOnSet(f, s)
               /\ SumFunctionOnSet(f, s) <= SumFunctionOnSet(g, s) + Cardinality(s) * k
           Bad == {s \in SUBSET S : ~Holds(s)}
<1> SUFFICES ASSUME Bad # {} PROVE FALSE
  OBVIOUS
<1>1. PICK s \in Bad : \A t \in Bad : t \subseteq s => t = s
  <2>1. Bad \subseteq SUBSET S
    OBVIOUS
  <2> HIDE DEF Bad
  <2> QED
    BY <2>1, SmallestException
<1>2. s \in SUBSET S /\ ~Holds(s)
  OBVIOUS
<1>3. s # {}
  <2>1. Holds({})
    BY SumOfEmpty, FS_EmptySet
  <2> QED
    BY <1>2, <2>1
<1> DEFINE y == First(s)
           rest == s \ {y}
<1>4. y \in s /\ IsFiniteSet(s) /\ IsFiniteSet(rest) /\ rest \in SUBSET S
  BY <1>2, <1>3, FirstIsIn, FS_Subset
<1>5. Holds(rest)
  <2>1. rest \subseteq s /\ rest # s
    BY <1>4
  <2> HIDE DEF rest, Holds
  <2>2. rest \notin Bad
    <3> HIDE DEF Bad
    <3> QED
      BY <1>1, <2>1
  <2> QED
    BY <1>4, <2>2
<1>6. /\ SumFunctionOnSet(f, s) = f[y] + SumFunctionOnSet(f, rest)
      /\ SumFunctionOnSet(g, s) = g[y] + SumFunctionOnSet(g, rest)
  BY <1>3, <1>4, SumOfFirst
<1>7. SumFunctionOnSet(f, rest) \in Int /\ SumFunctionOnSet(g, rest) \in Int
  BY <1>4, SumOfIntegers
<1>8. /\ Cardinality(rest) \in Nat
      /\ Cardinality(s) = Cardinality(rest) + 1
  BY <1>4, FS_RemoveElement, FS_CardinalityType
<1>9. f[y] \in Int /\ g[y] \in Int /\ g[y] <= f[y] /\ f[y] <= g[y] + k
  BY <1>2, <1>4
<1>10. Cardinality(s) * k = Cardinality(rest) * k + k /\ Cardinality(rest) * k \in Int
  <2>1. \A n \in Nat : (n + 1) * k = n * k + k /\ n * k \in Int
    OBVIOUS
  <2> QED
    BY <1>8, <2>1
<1> HIDE DEF y, rest
<1>11. Holds(s)
  BY <1>5, <1>6, <1>7, <1>9, <1>10
<1> QED
  BY <1>2, <1>11

\* What adds nothing can be left out.
LEMMA SumOfSome ==
    ASSUME NEW f, NEW S, IsFiniteSet(S), \A x \in S : f[x] \in Int,
           NEW T, T \subseteq S, \A x \in S \ T : f[x] = 0
    PROVE  SumFunctionOnSet(f, S) = SumFunctionOnSet(f, T)
<1> DEFINE Sum(s) == SumFunctionOnSet(f, s)
           Bad == {s \in SUBSET S : T \subseteq s /\ Sum(s) # Sum(T)}
<1> SUFFICES ASSUME Bad # {} PROVE FALSE
  OBVIOUS
<1>1. PICK s \in Bad : \A t \in Bad : t \subseteq s => t = s
  <2>1. Bad \subseteq SUBSET S
    OBVIOUS
  <2> HIDE DEF Bad
  <2> QED
    BY <2>1, SmallestException
<1>2. s \in SUBSET S /\ T \subseteq s /\ Sum(s) # Sum(T) /\ IsFiniteSet(s)
  BY FS_Subset
<1>3. PICK x \in s : x \notin T
  BY <1>2
<1>4. s \ {x} \notin Bad /\ s \ {x} \in SUBSET S /\ T \subseteq s \ {x}
  BY <1>1, <1>2, <1>3
<1>5. Sum(s) = f[x] + Sum(s \ {x})
  BY <1>2, SumWithout
<1>6. f[x] = 0 /\ Sum(s \ {x}) \in Int
  BY <1>2, <1>3, <1>4, SumOfIntegers, FS_Subset
<1>7. Sum(s \ {x}) = Sum(T)
  BY <1>4
<1> HIDE DEF Sum
<1> QED
  BY <1>2, <1>5, <1>6, <1>7

\* g adds the values of f on S in the order in which c takes them.
Takes(f, S, c, g) ==
    g = [s \in SUBSET S |-> IF s = {} THEN 0 ELSE g[s \ {c[s]}] + f[c[s]]]

LEMMA SumInAnyOrder ==
    ASSUME NEW f, NEW S, IsFiniteSet(S), \A x \in S : f[x] \in Int,
           NEW c, \A s \in SUBSET S : s # {} => c[s] \in s
    PROVE  /\ Takes(f, S, c, [s \in SUBSET S |-> SumFunctionOnSet(f, s)])
           /\ \A g : Takes(f, S, c, g) => g[S] = SumFunctionOnSet(f, S)
<1> DEFINE Sum(s) == SumFunctionOnSet(f, s)
           all == [s \in SUBSET S |-> Sum(s)]
<1>1. ASSUME NEW s \in SUBSET S, s # {}
      PROVE  Sum(s) = Sum(s \ {c[s]}) + f[c[s]]
  <2>1. IsFiniteSet(s) /\ c[s] \in s /\ \A y \in s : f[y] \in Int
    BY <1>1, FS_Subset
  <2>2. Sum(s) = f[c[s]] + Sum(s \ {c[s]})
    BY <2>1, SumWithout
  <2>3. Sum(s \ {c[s]}) \in Int /\ f[c[s]] \in Int
    BY <2>1, SumOfIntegers, FS_Subset
  <2> HIDE DEF Sum
  <2> QED
    BY <2>2, <2>3
<1>2. Takes(f, S, c, all)
  <2>1. ASSUME NEW s \in SUBSET S
        PROVE  all[s] = IF s = {} THEN 0 ELSE all[s \ {c[s]}] + f[c[s]]
    <3>1. CASE s = {}
      BY <3>1, SumOfEmpty
    <3>2. CASE s # {}
      <4>1. s \ {c[s]} \in SUBSET S
        OBVIOUS
      <4>2. all[s] = Sum(s) /\ all[s \ {c[s]}] = Sum(s \ {c[s]})
        BY <4>1
      <4> HIDE DEF all, Sum
      <4> QED
        BY <1>1, <3>2, <4>2
    <3> QED
      BY <3>1, <3>2
  <2>2. all = [s \in SUBSET S |-> all[s]]
    OBVIOUS
  <2> HIDE DEF all
  <2> QED
    BY <2>1, <2>2 DEF Takes
<1>3. ASSUME NEW g, Takes(f, S, c, g)
      PROVE  g[S] = Sum(S)
  <2> DEFINE Bad == {s \in SUBSET S : g[s] # Sum(s)}
  <2>u. ASSUME NEW s \in SUBSET S
        PROVE  g[s] = IF s = {} THEN 0 ELSE g[s \ {c[s]}] + f[c[s]]
    <3> DEFINE body == [t \in SUBSET S |-> IF t = {} THEN 0 ELSE g[t \ {c[t]}] + f[c[t]]]
    <3>1. g = body
      BY <1>3 DEF Takes
    <3>2. g[s] = body[s]
      BY <3>1, Zenon
    <3> QED
      BY <3>2
  <2>1. Bad = {}
    <3> SUFFICES ASSUME Bad # {} PROVE FALSE
      OBVIOUS
    <3>1. PICK s \in Bad : \A t \in Bad : t \subseteq s => t = s
      <4>1. Bad \subseteq SUBSET S
        OBVIOUS
      <4> HIDE DEF Bad
      <4> QED
        BY <4>1, SmallestException
    <3>2. s \in SUBSET S /\ g[s] # Sum(s)
      OBVIOUS
    <3>3. s # {}
      BY <2>u, <3>2, SumOfEmpty
    <3>4. s \ {c[s]} \in SUBSET S /\ s \ {c[s]} \notin Bad
      BY <3>1, <3>2, <3>3
    <3>5. g[s \ {c[s]}] = Sum(s \ {c[s]})
      BY <3>4
    <3> HIDE DEF Bad, Sum
    <3> QED
      BY <1>1, <2>u, <3>2, <3>3, <3>5
  <2> QED
    BY <2>1
<1> QED
  BY <1>2, <1>3
=============================================================================
