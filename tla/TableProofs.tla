----------------------------- MODULE TableProofs -----------------------------
(***************************************************************************)
(* What the table operators preserve, and the integer facts the contracts' *)
(* price arithmetic rests on, and how sums over finite sets behave.        *)
(***************************************************************************)
EXTENDS Tables, FiniteSetTheorems, TLAPS

\* A table stays a table when a row of the right type is emplaced, even when the
\* range of keys grows with it (an id counter that advanced).
LEMMA EmplaceTable ==
    ASSUME NEW t, NEW K, NEW L, NEW R, NEW k, NEW row,
           IsTable(t, K, R), K \subseteq L, k \in L, row \in R
    PROVE  IsTable(Emplace(t, k, row), L, R)
BY DEF IsTable, Emplace

\* A table stays a table when rows are erased.
LEMMA EraseTable ==
    ASSUME NEW t, NEW K, NEW R, NEW S, IsTable(t, K, R)
    PROVE  /\ IsTable(Erase(t, S), K, R)
           /\ DOMAIN Erase(t, S) = DOMAIN t \ S
           /\ \A x \in DOMAIN t \ S : Erase(t, S)[x] = t[x]
BY DEF IsTable, Erase

\* What emplace does to the rows and to the set of keys.
LEMMA EmplaceRows ==
    ASSUME NEW t, NEW k, NEW row
    PROVE  /\ DOMAIN Emplace(t, k, row) = DOMAIN t \cup {k}
           /\ Emplace(t, k, row)[k] = row
           /\ \A x \in DOMAIN t : x # k => Emplace(t, k, row)[x] = t[x]
BY DEF Emplace

\* A table is one for any larger range of keys.
LEMMA WidenTable ==
    ASSUME NEW t, NEW K, NEW L, NEW R, IsTable(t, K, R), K \subseteq L
    PROVE  IsTable(t, L, R)
BY DEF IsTable

\* Multiplication by a natural number is monotonic.
LEMMA TimesMonotone ==
    ASSUME NEW a \in Nat, NEW b \in Nat, NEW c \in Nat, a <= b
    PROVE  a * c <= b * c
<1>1. PICK d \in Nat : b = a + d
  <2>1. b - a \in Nat /\ b = a + (b - a)
    OBVIOUS
  <2> QED BY <2>1
<1>2. b * c = a * c + d * c
  BY <1>1
<1>3. d * c \in Nat
  OBVIOUS
<1> QED BY <1>2, <1>3

\* Division: q is p times the quotient, plus a remainder below p.
LEMMA Quotient ==
    ASSUME NEW q \in Nat, NEW p \in Nat \ {0}
    PROVE  /\ q \div p \in Nat
           /\ (q \div p) * p <= q
           /\ q < (q \div p) * p + p
OBVIOUS

\* Whole prices divide without a remainder.
LEMMA QuotientOfProduct ==
    ASSUME NEW n \in Nat, NEW p \in Nat \ {0}
    PROVE  (n * p) \div p = n
<1> DEFINE q == (n * p) \div p
<1>1. n * p \in Nat
  OBVIOUS
<1>2. q \in Nat /\ q * p <= n * p /\ n * p < q * p + p
  BY <1>1, Quotient
<1> HIDE DEF q
<1>3. ~ (n < q)
  <2>1. SUFFICES ASSUME n + 1 <= q PROVE FALSE
    BY <1>2
  <2>2. (n + 1) * p <= q * p
    BY <1>2, <2>1, TimesMonotone
  <2>3. (n + 1) * p = n * p + p
    OBVIOUS
  <2>4. q * p \in Nat
    BY <1>2
  <2> QED BY <1>1, <1>2, <2>2, <2>3, <2>4
<1>4. ~ (q < n)
  <2>1. SUFFICES ASSUME q + 1 <= n PROVE FALSE
    BY <1>2
  <2>2. (q + 1) * p <= n * p
    BY <1>2, <2>1, TimesMonotone
  <2>3. (q + 1) * p = q * p + p
    BY <1>2
  <2>4. q * p \in Nat
    BY <1>2
  <2> QED BY <1>1, <1>2, <2>2, <2>3, <2>4
<1>5. q = n
  BY <1>2, <1>3, <1>4
<1> QED BY <1>5 DEF q

\* An amount that f prices cover buys no more than f items.
LEMMA QuotientBound ==
    ASSUME NEW q \in Nat, NEW p \in Nat \ {0}, NEW f \in Nat, q <= f * p
    PROVE  q \div p <= f
<1> DEFINE n == q \div p
<1>1. n \in Nat /\ n * p <= q
  BY Quotient
<1>2. SUFFICES ASSUME f + 1 <= n PROVE FALSE
  BY <1>1
<1>3. (f + 1) * p <= n * p
  <2> HIDE DEF n
  <2> QED BY <1>1, <1>2, TimesMonotone
<1>4. (f + 1) * p = f * p + p
  OBVIOUS
<1>5. f * p \in Nat /\ n * p \in Nat
  BY <1>1
<1> HIDE DEF n
<1> QED BY <1>1, <1>3, <1>4, <1>5

\* A remainder is no more than what it is the remainder of.
LEMMA RemainderBound ==
    ASSUME NEW m \in Nat, NEW w \in Nat \ {0}
    PROVE  m % w \in Nat /\ m % w <= m
<1>1. m % w \in Nat
  OBVIOUS
<1>2. m % w <= m
  OBVIOUS
<1> QED BY <1>1, <1>2

------------------------------------------------------------------------------
(* Sums over finite sets.  The fold of the community modules adds in an order *)
(* that CHOOSE picks; the lemmas say that the order does not matter.          *)

Sum(w, S) == SumFunctionOnSet(w, S)

\* The element a fold takes off first.
Chosen(s) == CHOOSE x \in s : TRUE

\* f adds up w on every subset of S, taking Chosen's element off first.
AddsUp(f, w, S) ==
    f = [s \in SUBSET S |-> IF s = {} THEN 0 ELSE w[Chosen(s)] + f[s \ {Chosen(s)}]]

\* Among the bad subsets of a finite set there is one without a smaller bad one:
\* induction over subsets, told with sets alone.
LEMMA SmallestBad ==
    ASSUME NEW S, IsFiniteSet(S), NEW Bad \in SUBSET SUBSET S, Bad # {}
    PROVE  \E t \in Bad : \A u \in SUBSET t : u # t => u \notin Bad
<1>1. IsWellFoundedOn(StrictSubsetOrdering(S), FiniteSubsetsOf(S))
  BY FS_StrictSubsetOrderingWellFounded
<1>2. FiniteSubsetsOf(S) = SUBSET S
  BY FS_FiniteSubsetsOfFinite
<1>3. PICK t \in Bad : \A u \in Bad : ~ (<<u, t>> \in StrictSubsetOrdering(S))
  BY <1>1, <1>2, WFMin
<1>4. \A u \in SUBSET t : u # t => u \notin Bad
  BY <1>3 DEF StrictSubsetOrdering
<1> QED BY <1>4

\* Of finitely many things with a measure there is one with the least.
LEMMA LeastOf ==
    ASSUME NEW S, IsFiniteSet(S), S # {}, NEW h, \A x \in S : h[x] \in Int
    PROVE  \E x \in S : \A y \in S : h[x] <= h[y]
<1> DEFINE Least(T, x) == x \in T /\ \A y \in T : h[x] <= h[y]
           Bad == {T \in SUBSET S : T # {} /\ ~ \E x : Least(T, x)}
<1>0. S \notin Bad => \E x : Least(S, x)
  OBVIOUS
<1>1. Bad = {}
  <2>1. SUFFICES ASSUME Bad # {} PROVE FALSE
    OBVIOUS
  <2>2. PICK t \in Bad : \A u \in SUBSET t : u # t => u \notin Bad
    <3>1. Bad \in SUBSET SUBSET S
      OBVIOUS
    <3> HIDE DEF Bad
    <3> QED BY <2>1, <3>1, SmallestBad
  <2>3. PICK c \in t : h[c] \in Int
    OBVIOUS
  <2> DEFINE r == t \ {c}
  <2>4. CASE r = {}
    <3>1. Least(t, c)
      BY <2>3, <2>4
    <3> QED BY <2>2, <3>1
  <2>5. CASE r # {}
    <3>1. PICK m : Least(r, m)
      BY <2>2, <2>5
    <3>2. h[m] \in Int /\ \A y \in t : h[y] \in Int
      BY <3>1
    <3>3. Least(t, c) \/ Least(t, m)
      BY <2>3, <3>1, <3>2
    <3> QED BY <2>2, <3>3
  <2> QED BY <2>4, <2>5
<1> QED BY <1>0, <1>1

\* And one with the greatest.
LEMMA GreatestOf ==
    ASSUME NEW S, IsFiniteSet(S), S # {}, NEW h, \A x \in S : h[x] \in Int
    PROVE  \E x \in S : \A y \in S : h[y] <= h[x]
<1> DEFINE g == [x \in S |-> 0 - h[x]]
<1>1. \A x \in S : g[x] \in Int
  OBVIOUS
<1>2. \A x \in S : g[x] = 0 - h[x]
  OBVIOUS
<1> HIDE DEF g
<1>3. PICK x \in S : \A y \in S : g[x] <= g[y]
  BY <1>1, LeastOf
<1>4. \A y \in S : h[y] <= h[x]
  BY <1>2, <1>3
<1> QED BY <1>4

\* A non-empty set's pick is an element.
LEMMA ChosenIn == ASSUME NEW s, s # {} PROVE Chosen(s) \in s
BY DEF Chosen

\* Two such functions agree wherever both are defined.
LEMMA AddsUpAgree ==
    ASSUME NEW S, IsFiniteSet(S), NEW A \in SUBSET S, NEW B \in SUBSET S,
           NEW w, NEW v, \A x \in A \cap B : w[x] = v[x],
           NEW f, NEW g, AddsUp(f, w, A), AddsUp(g, v, B)
    PROVE  \A s \in SUBSET (A \cap B) : f[s] = g[s]
<1> DEFINE Bad == {s \in SUBSET (A \cap B) : f[s] # g[s]}
<1>1. SUFFICES ASSUME Bad # {} PROVE FALSE
  OBVIOUS
<1>2. PICK t \in Bad : \A u \in SUBSET t : u # t => u \notin Bad
  <2>1. Bad \in SUBSET SUBSET S
    OBVIOUS
  <2> HIDE DEF Bad
  <2> QED BY <1>1, <2>1, SmallestBad
<1>3. t \in SUBSET A /\ t \in SUBSET B /\ f[t] # g[t]
  OBVIOUS
<1>4. f[t] = IF t = {} THEN 0 ELSE w[Chosen(t)] + f[t \ {Chosen(t)}]
  BY <1>3 DEF AddsUp
<1>5. g[t] = IF t = {} THEN 0 ELSE v[Chosen(t)] + g[t \ {Chosen(t)}]
  BY <1>3 DEF AddsUp
<1>6. t # {}
  BY <1>3, <1>4, <1>5
<1>7. Chosen(t) \in A \cap B
  BY <1>3, <1>6, ChosenIn
<1>8. f[t \ {Chosen(t)}] = g[t \ {Chosen(t)}]
  BY <1>2, <1>6, ChosenIn
<1> QED BY <1>3, <1>4, <1>5, <1>6, <1>7, <1>8

\* There is such a function for every finite set.
LEMMA AddsUpExists ==
    ASSUME NEW S, IsFiniteSet(S), NEW w
    PROVE  \E f : AddsUp(f, w, S)
<1> DEFINE Bad == {s \in SUBSET S : ~ \E f : AddsUp(f, w, s)}
<1>1. SUFFICES ASSUME Bad # {} PROVE FALSE
  OBVIOUS
<1>2. PICK t \in Bad : \A u \in SUBSET t : u # t => u \notin Bad
  <2>1. Bad \in SUBSET SUBSET S
    OBVIOUS
  <2> HIDE DEF Bad
  <2> QED BY <1>1, <2>1, SmallestBad
<1>3. t \in SUBSET S /\ ~ \E f : AddsUp(f, w, t)
  OBVIOUS
<1> DEFINE G(s) == CHOOSE g : AddsUp(g, w, s)
           F == [s \in SUBSET t |-> IF s = {} THEN 0
                                    ELSE w[Chosen(s)] + G(s \ {Chosen(s)})[s \ {Chosen(s)}]]
<1>4. \A u \in SUBSET t : u # t => AddsUp(G(u), w, u)
  BY <1>2, <1>3
<1>5. ASSUME NEW s \in SUBSET t, s # {}
      PROVE  F[s \ {Chosen(s)}] = G(s \ {Chosen(s)})[s \ {Chosen(s)}]
  <2> DEFINE u == s \ {Chosen(s)}
             r == u \ {Chosen(u)}
  <2>1. u \in SUBSET t /\ u # t /\ AddsUp(G(u), w, u)
    BY <1>4, <1>5, ChosenIn
  <2>2. r \in SUBSET t /\ r # t /\ AddsUp(G(r), w, r) /\ r \in SUBSET u
    BY <2>1, <1>4
  <2>3. G(u)[u] = IF u = {} THEN 0 ELSE w[Chosen(u)] + G(u)[r]
    <3> HIDE DEF G, u
    <3> QED BY <2>1 DEF AddsUp
  <2>4. G(u)[r] = G(r)[r]
    <3>1. u \in SUBSET S /\ r \in SUBSET S /\ r \in SUBSET (u \cap r)
      BY <2>1, <2>2, <1>3
    <3>2. \A x \in u \cap r : w[x] = w[x]
      OBVIOUS
    <3> HIDE DEF G, u, r
    <3>3. \A y \in SUBSET (u \cap r) : G(u)[y] = G(r)[y]
      BY <2>1, <2>2, <3>1, <3>2, AddsUpAgree
    <3> QED BY <3>1, <3>3
  <2>5. F[u] = IF u = {} THEN 0 ELSE w[Chosen(u)] + G(r)[r]
    BY <2>1
  <2> HIDE DEF F, G, r
  <2> QED BY <2>3, <2>4, <2>5
<1>6. AddsUp(F, w, t)
  <2> HIDE DEF G
  <2> QED BY <1>5 DEF AddsUp
<1> QED BY <1>3, <1>6

\* The community modules' fold is what such a function says of the whole set.
LEMMA SumIsAddsUp ==
    ASSUME NEW S, IsFiniteSet(S), NEW w
    PROVE  \E f : AddsUp(f, w, S) /\ SumFunctionOnSet(w, S) = f[S]
<1> DEFINE f == CHOOSE f : AddsUp(f, w, S)
<1>1. AddsUp(f, w, S)
  BY AddsUpExists
<1>2. SumFunctionOnSet(w, S) = f[S]
  BY DEF SumFunctionOnSet, FoldFunctionOnSet, MapThenFoldSet, AddsUp, Chosen
<1> QED BY <1>1, <1>2

\* One function gives the sums of all subsets.
LEMMA SumIter ==
    ASSUME NEW S, IsFiniteSet(S), NEW w
    PROVE  \E f : AddsUp(f, w, S) /\ \A T \in SUBSET S : Sum(w, T) = f[T]
<1>1. PICK f : AddsUp(f, w, S)
  BY AddsUpExists
<1>2. ASSUME NEW T \in SUBSET S PROVE Sum(w, T) = f[T]
  <2>1. IsFiniteSet(T)
    BY FS_Subset
  <2>2. PICK g : AddsUp(g, w, T) /\ Sum(w, T) = g[T]
    BY <2>1, SumIsAddsUp DEF Sum
  <2>3. \A s \in SUBSET (S \cap T) : f[s] = g[s]
    <3>1. \A x \in S \cap T : w[x] = w[x]
      OBVIOUS
    <3> QED BY <1>1, <2>2, <3>1, AddsUpAgree
  <2> QED BY <2>2, <2>3
<1> QED BY <1>1, <1>2

\* Nothing adds up to zero.
LEMMA SumEmpty == ASSUME NEW w PROVE Sum(w, {}) = 0
<1>1. IsFiniteSet({})
  BY FS_EmptySet
<1>2. PICK f : AddsUp(f, w, {}) /\ Sum(w, {}) = f[{}]
  BY <1>1, SumIsAddsUp DEF Sum
<1> QED BY <1>2 DEF AddsUp

\* A sum depends on the values alone.
LEMMA SumSame ==
    ASSUME NEW S, IsFiniteSet(S), NEW w, NEW v, \A x \in S : w[x] = v[x]
    PROVE  Sum(w, S) = Sum(v, S)
<1>1. PICK f : AddsUp(f, w, S) /\ Sum(w, S) = f[S]
  BY SumIsAddsUp DEF Sum
<1>2. PICK g : AddsUp(g, v, S) /\ Sum(v, S) = g[S]
  BY SumIsAddsUp DEF Sum
<1>3. \A s \in SUBSET (S \cap S) : f[s] = g[s]
  <2>1. \A x \in S \cap S : w[x] = v[x]
    OBVIOUS
  <2> QED BY <1>1, <1>2, <2>1, AddsUpAgree
<1> QED BY <1>1, <1>2, <1>3

\* The recursion of the fold: the pick first, then the rest.
LEMMA SumChosen ==
    ASSUME NEW S, IsFiniteSet(S), NEW w, NEW T \in SUBSET S, T # {}
    PROVE  Sum(w, T) = w[Chosen(T)] + Sum(w, T \ {Chosen(T)})
<1>1. PICK f : AddsUp(f, w, S) /\ \A U \in SUBSET S : Sum(w, U) = f[U]
  BY SumIter
<1>2. f[T] = w[Chosen(T)] + f[T \ {Chosen(T)}]
  BY <1>1 DEF AddsUp
<1> QED BY <1>1, <1>2

\* A sum of integers is one, over every subset.
LEMMA SumInt ==
    ASSUME NEW S, IsFiniteSet(S), NEW w, \A x \in S : w[x] \in Int
    PROVE  \A T \in SUBSET S : Sum(w, T) \in Int
<1> DEFINE Bad == {s \in SUBSET S : Sum(w, s) \notin Int}
<1>1. SUFFICES ASSUME Bad # {} PROVE FALSE
  OBVIOUS
<1>2. PICK t \in Bad : \A u \in SUBSET t : u # t => u \notin Bad
  <2>1. Bad \in SUBSET SUBSET S
    OBVIOUS
  <2> HIDE DEF Bad
  <2> QED BY <1>1, <2>1, SmallestBad
<1>3. t \in SUBSET S /\ t # {} /\ Chosen(t) \in t
  BY SumEmpty, ChosenIn
<1>4. Sum(w, t) = w[Chosen(t)] + Sum(w, t \ {Chosen(t)})
  BY <1>3, SumChosen
<1>5. Sum(w, t \ {Chosen(t)}) \in Int
  BY <1>2, <1>3
<1> QED BY <1>3, <1>4, <1>5

\* A sum of naturals is one, over every subset.
LEMMA SumNat ==
    ASSUME NEW S, IsFiniteSet(S), NEW w, \A x \in S : w[x] \in Nat
    PROVE  \A T \in SUBSET S : Sum(w, T) \in Nat
<1> DEFINE Bad == {s \in SUBSET S : Sum(w, s) \notin Nat}
<1>1. SUFFICES ASSUME Bad # {} PROVE FALSE
  OBVIOUS
<1>2. PICK t \in Bad : \A u \in SUBSET t : u # t => u \notin Bad
  <2>1. Bad \in SUBSET SUBSET S
    OBVIOUS
  <2> HIDE DEF Bad
  <2> QED BY <1>1, <2>1, SmallestBad
<1>3. t \in SUBSET S /\ t # {} /\ Chosen(t) \in t
  BY SumEmpty, ChosenIn
<1>4. Sum(w, t) = w[Chosen(t)] + Sum(w, t \ {Chosen(t)})
  BY <1>3, SumChosen
<1>5. Sum(w, t \ {Chosen(t)}) \in Nat
  BY <1>2, <1>3
<1> QED BY <1>3, <1>4, <1>5

\* Any element may be taken off first: the order of a fold does not matter.
LEMMA SumTake ==
    ASSUME NEW S, IsFiniteSet(S), NEW w, \A x \in S : w[x] \in Int
    PROVE  \A T \in SUBSET S : \A x \in T : Sum(w, T) = w[x] + Sum(w, T \ {x})
<1> DEFINE Bad == {s \in SUBSET S : \E x \in s : Sum(w, s) # w[x] + Sum(w, s \ {x})}
<1>1. SUFFICES ASSUME Bad # {} PROVE FALSE
  OBVIOUS
<1>2. PICK t \in Bad : \A u \in SUBSET t : u # t => u \notin Bad
  <2>1. Bad \in SUBSET SUBSET S
    OBVIOUS
  <2> HIDE DEF Bad
  <2> QED BY <1>1, <2>1, SmallestBad
<1>3. PICK x \in t : Sum(w, t) # w[x] + Sum(w, t \ {x})
  OBVIOUS
<1> DEFINE c == Chosen(t)
<1>4. t \in SUBSET S /\ t # {} /\ c \in t
  BY <1>3, ChosenIn
<1>5. Sum(w, t) = w[c] + Sum(w, t \ {c})
  BY <1>4, SumChosen
<1> HIDE DEF c
<1>6. x # c
  BY <1>3, <1>5
<1>7. Sum(w, t \ {c}) = w[x] + Sum(w, (t \ {c}) \ {x})
  BY <1>2, <1>4, <1>6
<1>8. Sum(w, t \ {x}) = w[c] + Sum(w, (t \ {x}) \ {c})
  BY <1>2, <1>4, <1>6
<1>9. (t \ {x}) \ {c} = (t \ {c}) \ {x}
  OBVIOUS
<1>10. Sum(w, (t \ {c}) \ {x}) \in Int /\ w[x] \in Int /\ w[c] \in Int
  BY <1>4, SumInt
<1>11. Sum(w, t) = w[c] + (w[x] + Sum(w, (t \ {c}) \ {x}))
  BY <1>5, <1>7
<1>12. w[x] + Sum(w, t \ {x}) = w[x] + (w[c] + Sum(w, (t \ {c}) \ {x}))
  BY <1>8, <1>9
<1>13. \A a, b, d \in Int : a + (b + d) = b + (a + d)
  OBVIOUS
<1> QED BY <1>3, <1>10, <1>11, <1>12, <1>13

\* One more element adds its value.
LEMMA SumAdd ==
    ASSUME NEW S, IsFiniteSet(S), NEW x, x \notin S, NEW w,
           \A y \in S \cup {x} : w[y] \in Int
    PROVE  Sum(w, S \cup {x}) = w[x] + Sum(w, S)
<1>1. IsFiniteSet(S \cup {x})
  BY FS_AddElement
<1>2. (S \cup {x}) \ {x} = S
  OBVIOUS
<1>3. \A y \in S \cup {x} : Sum(w, S \cup {x}) = w[y] + Sum(w, (S \cup {x}) \ {y})
  BY <1>1, SumTake
<1> QED BY <1>2, <1>3

\* One value that changes changes the sum by as much.
LEMMA SumUpdate ==
    ASSUME NEW S, IsFiniteSet(S), NEW x \in S, NEW w, NEW v,
           \A y \in S : w[y] \in Int, v[x] \in Int,
           \A y \in S \ {x} : v[y] = w[y]
    PROVE  Sum(v, S) = Sum(w, S) - w[x] + v[x]
<1>1. \A y \in S : v[y] \in Int
  OBVIOUS
<1>2. Sum(w, S) = w[x] + Sum(w, S \ {x})
  BY SumTake
<1>3. Sum(v, S) = v[x] + Sum(v, S \ {x})
  BY <1>1, SumTake
<1>4. Sum(v, S \ {x}) = Sum(w, S \ {x})
  <2>1. IsFiniteSet(S \ {x})
    BY FS_RemoveElement
  <2> QED BY <2>1, SumSame
<1>5. Sum(w, S \ {x}) \in Int
  BY SumInt
<1>6. \A a, b, c \in Int : b + c = (a + c) - a + b
  OBVIOUS
<1>7. w[x] \in Int
  OBVIOUS
<1> QED BY <1>1, <1>2, <1>3, <1>4, <1>5, <1>6, <1>7

\* Sums add up value by value.
LEMMA SumPlus ==
    ASSUME NEW S, IsFiniteSet(S), NEW w, NEW u, NEW v,
           \A x \in S : u[x] \in Int /\ v[x] \in Int /\ w[x] = u[x] + v[x]
    PROVE  Sum(w, S) = Sum(u, S) + Sum(v, S)
<1> DEFINE Bad == {s \in SUBSET S : Sum(w, s) # Sum(u, s) + Sum(v, s)}
<1>0. Sum(w, S) # Sum(u, S) + Sum(v, S) => Bad # {}
  OBVIOUS
<1>1. SUFFICES ASSUME Bad # {} PROVE FALSE
  BY <1>0
<1>2. PICK t \in Bad : \A r \in SUBSET t : r # t => r \notin Bad
  <2>1. Bad \in SUBSET SUBSET S
    OBVIOUS
  <2> HIDE DEF Bad
  <2> QED BY <1>1, <2>1, SmallestBad
<1> DEFINE c == Chosen(t)
           r == t \ {c}
<1>3. t \in SUBSET S /\ Sum(w, t) # Sum(u, t) + Sum(v, t)
  OBVIOUS
<1>4. t # {}
  <2>1. Sum(w, {}) = 0 /\ Sum(u, {}) = 0 /\ Sum(v, {}) = 0
    BY SumEmpty
  <2>2. Sum(w, {}) = Sum(u, {}) + Sum(v, {})
    BY <2>1
  <2> HIDE DEF Bad
  <2> QED BY <1>3, <2>2
<1>5. c \in t /\ r \in SUBSET S /\ r \in SUBSET t /\ r # t
  BY <1>3, <1>4, ChosenIn
<1>6. Sum(w, t) = w[c] + Sum(w, r) /\ Sum(u, t) = u[c] + Sum(u, r) /\ Sum(v, t) = v[c] + Sum(v, r)
  BY <1>3, <1>4, SumChosen
<1>7. Sum(w, r) = Sum(u, r) + Sum(v, r)
  BY <1>2, <1>5
<1>8. Sum(u, r) \in Int /\ Sum(v, r) \in Int
  BY <1>5, SumInt
<1>9. w[c] = u[c] + v[c] /\ u[c] \in Int /\ v[c] \in Int
  BY <1>3, <1>5
<1> HIDE DEF c, r
<1>10. \A i, j, k, l \in Int : (i + j) + (k + l) = (i + k) + (j + l)
  OBVIOUS
<1> QED BY <1>3, <1>6, <1>7, <1>8, <1>9, <1>10

\* Zeros add up to zero.
LEMMA SumZero ==
    ASSUME NEW S, IsFiniteSet(S), NEW w, \A x \in S : w[x] = 0
    PROVE  Sum(w, S) = 0
<1> DEFINE Bad == {s \in SUBSET S : Sum(w, s) # 0}
<1>0. Sum(w, S) # 0 => Bad # {}
  OBVIOUS
<1>1. SUFFICES ASSUME Bad # {} PROVE FALSE
  BY <1>0
<1>2. PICK t \in Bad : \A r \in SUBSET t : r # t => r \notin Bad
  <2>1. Bad \in SUBSET SUBSET S
    OBVIOUS
  <2> HIDE DEF Bad
  <2> QED BY <1>1, <2>1, SmallestBad
<1>3. t \in SUBSET S /\ t # {} /\ Chosen(t) \in t
  <2>1. t \in SUBSET S /\ Sum(w, t) # 0
    OBVIOUS
  <2> QED BY <2>1, SumEmpty, ChosenIn
<1>4. Sum(w, t) = w[Chosen(t)] + Sum(w, t \ {Chosen(t)})
  BY <1>3, SumChosen
<1>5. Sum(w, t \ {Chosen(t)}) = 0
  BY <1>2, <1>3
<1> QED BY <1>3, <1>4, <1>5

\* The only value that is not zero is the sum.
LEMMA SumSingle ==
    ASSUME NEW S, IsFiniteSet(S), NEW x \in S, NEW w, w[x] \in Int,
           \A y \in S \ {x} : w[y] = 0
    PROVE  Sum(w, S) = w[x]
<1>1. \A y \in S : w[y] \in Int
  OBVIOUS
<1>2. Sum(w, S) = w[x] + Sum(w, S \ {x})
  BY <1>1, SumTake
<1>3. Sum(w, S \ {x}) = 0
  <2>1. IsFiniteSet(S \ {x})
    BY FS_RemoveElement
  <2> QED BY <2>1, SumZero
<1> QED BY <1>2, <1>3

\* The elements of T and those that are not.
LEMMA SumSplit ==
    ASSUME NEW S, IsFiniteSet(S), NEW T \in SUBSET S, NEW w, \A x \in S : w[x] \in Int
    PROVE  Sum(w, S) = Sum(w, T) + Sum(w, S \ T)
<1> DEFINE Bad == {s \in SUBSET S : Sum(w, s) # Sum(w, s \cap T) + Sum(w, s \ T)}
<1>0. S \notin Bad => Sum(w, S) = Sum(w, T) + Sum(w, S \ T)
  <2>1. S \cap T = T
    OBVIOUS
  <2> QED BY <2>1
<1>1. SUFFICES ASSUME Bad # {} PROVE FALSE
  BY <1>0
<1>2. PICK t \in Bad : \A r \in SUBSET t : r # t => r \notin Bad
  <2>1. Bad \in SUBSET SUBSET S
    OBVIOUS
  <2> HIDE DEF Bad
  <2> QED BY <1>1, <2>1, SmallestBad
<1> DEFINE c == Chosen(t)
           r == t \ {c}
<1>3. t \in SUBSET S /\ Sum(w, t) # Sum(w, t \cap T) + Sum(w, t \ T)
  OBVIOUS
<1>4. t # {}
  <2>1. t = {} => t \cap T = {} /\ t \ T = {}
    OBVIOUS
  <2> QED BY <1>3, <2>1, SumEmpty
<1>5. c \in t /\ r \in SUBSET S /\ r \in SUBSET t /\ r # t
  BY <1>3, <1>4, ChosenIn
<1>6. Sum(w, t) = w[c] + Sum(w, r)
  BY <1>3, <1>4, SumChosen
<1>7. Sum(w, r) = Sum(w, r \cap T) + Sum(w, r \ T)
  BY <1>2, <1>5
<1>8. Sum(w, r \cap T) \in Int /\ Sum(w, r \ T) \in Int
  <2>1. r \cap T \in SUBSET S /\ r \ T \in SUBSET S
    BY <1>5
  <2> QED BY <2>1, SumInt
<1>9. w[c] \in Int
  BY <1>3, <1>5
<1> HIDE DEF c
<1>10. \A i, j, k \in Int : i + (j + k) = (i + j) + k /\ i + (j + k) = j + (i + k)
  OBVIOUS
<1>11. CASE c \in T
  <2>1. (t \cap T) \ {c} = r \cap T /\ t \ T = r \ T /\ c \in t \cap T /\ t \cap T \in SUBSET S
    BY <1>3, <1>5, <1>11
  <2>2. Sum(w, t \cap T) = w[c] + Sum(w, r \cap T)
    <3>1. \A x \in t \cap T : Sum(w, t \cap T) = w[x] + Sum(w, (t \cap T) \ {x})
      BY <2>1, SumTake
    <3> QED BY <2>1, <3>1
  <2>3. w[c] + (Sum(w, r \cap T) + Sum(w, r \ T)) = (w[c] + Sum(w, r \cap T)) + Sum(w, r \ T)
    BY <1>8, <1>9, <1>10
  <2>4. Sum(w, t) = w[c] + (Sum(w, r \cap T) + Sum(w, r \ T))
    BY <1>6, <1>7
  <2>5. Sum(w, t \cap T) + Sum(w, t \ T) = (w[c] + Sum(w, r \cap T)) + Sum(w, r \ T)
    BY <2>1, <2>2
  <2> QED BY <1>3, <2>3, <2>4, <2>5
<1>12. CASE c \notin T
  <2>1. (t \ T) \ {c} = r \ T /\ t \cap T = r \cap T /\ c \in t \ T /\ t \ T \in SUBSET S
    BY <1>3, <1>5, <1>12
  <2>2. Sum(w, t \ T) = w[c] + Sum(w, r \ T)
    <3>1. \A x \in t \ T : Sum(w, t \ T) = w[x] + Sum(w, (t \ T) \ {x})
      BY <2>1, SumTake
    <3> QED BY <2>1, <3>1
  <2>3. w[c] + (Sum(w, r \cap T) + Sum(w, r \ T)) = Sum(w, r \cap T) + (w[c] + Sum(w, r \ T))
    BY <1>8, <1>9, <1>10
  <2>4. Sum(w, t) = w[c] + (Sum(w, r \cap T) + Sum(w, r \ T))
    BY <1>6, <1>7
  <2>5. Sum(w, t \cap T) + Sum(w, t \ T) = Sum(w, r \cap T) + (w[c] + Sum(w, r \ T))
    BY <2>1, <2>2
  <2> QED BY <1>3, <2>3, <2>4, <2>5
<1> QED BY <1>11, <1>12

\* Part of a sum of naturals is no more than the whole.
LEMMA SumLe ==
    ASSUME NEW S, IsFiniteSet(S), NEW T \in SUBSET S, NEW w, \A x \in S : w[x] \in Nat
    PROVE  Sum(w, T) <= Sum(w, S)
<1>1. \A x \in S : w[x] \in Int
  OBVIOUS
<1>2. Sum(w, S) = Sum(w, T) + Sum(w, S \ T)
  BY <1>1, SumSplit
<1>3. Sum(w, T) \in Nat /\ Sum(w, S \ T) \in Nat
  <2>1. S \ T \in SUBSET S
    OBVIOUS
  <2> QED BY <2>1, SumNat
<1> QED BY <1>2, <1>3

\* Each value is no more than a sum of naturals.
LEMMA SumCovers ==
    ASSUME NEW S, IsFiniteSet(S), NEW x \in S, NEW w, \A y \in S : w[y] \in Nat
    PROVE  w[x] <= Sum(w, S)
<1>1. \A y \in S : w[y] \in Int
  OBVIOUS
<1>2. Sum(w, S) = w[x] + Sum(w, S \ {x})
  BY <1>1, SumTake
<1>3. Sum(w, S \ {x}) \in Nat /\ w[x] \in Nat
  <2>1. S \ {x} \in SUBSET S
    OBVIOUS
  <2> QED BY <2>1, SumNat
<1> QED BY <1>2, <1>3

\* The elements of S that h puts in group a.
Group(S, h, a) == {x \in S : h[x] = a}

\* Adding up group by group.
LEMMA SumGroups ==
    ASSUME NEW S, NEW A, NEW w, NEW h, NEW g, IsFiniteSet(S), IsFiniteSet(A),
           \A x \in S : w[x] \in Int /\ h[x] \in A,
           \A a \in A : g[a] = Sum(w, Group(S, h, a))
    PROVE  Sum(g, A) = Sum(w, S)
<1> DEFINE G(s) == [a \in A |-> Sum(w, {x \in s : h[x] = a})]
           Bad == {s \in SUBSET S : Sum(G(s), A) # Sum(w, s)}
<1>0. S \notin Bad => Sum(g, A) = Sum(w, S)
  <2>1. Sum(g, A) = Sum(G(S), A)
    <3>1. \A a \in A : g[a] = G(S)[a]
      BY DEF Group
    <3> HIDE DEF G
    <3> QED BY <3>1, SumSame
  <2> QED BY <2>1
<1>1. SUFFICES ASSUME Bad # {} PROVE FALSE
  BY <1>0
<1>2. PICK t \in Bad : \A r \in SUBSET t : r # t => r \notin Bad
  <2>1. Bad \in SUBSET SUBSET S
    OBVIOUS
  <2> HIDE DEF Bad
  <2> QED BY <1>1, <2>1, SmallestBad
<1>3. t \in SUBSET S /\ Sum(G(t), A) # Sum(w, t)
  OBVIOUS
<1>4. t # {}
  <2>1. SUFFICES ASSUME t = {} PROVE FALSE
    OBVIOUS
  <2>2. \A a \in A : G(t)[a] = 0
    <3>1. \A a \in A : {x \in t : h[x] = a} = {}
      BY <2>1
    <3> QED BY <3>1, SumEmpty
  <2>3. Sum(G(t), A) = 0
    <3> HIDE DEF G
    <3> QED BY <2>2, SumZero
  <2> QED BY <1>3, <2>1, <2>3, SumEmpty
<1> DEFINE c == Chosen(t)
           r == t \ {c}
<1>5. c \in t /\ r \in SUBSET S /\ r \in SUBSET t /\ r # t
  BY <1>3, <1>4, ChosenIn
<1>6. Sum(w, t) = w[c] + Sum(w, r)
  BY <1>3, <1>4, SumChosen
<1>7. Sum(G(r), A) = Sum(w, r)
  BY <1>2, <1>5
<1>8. w[c] \in Int /\ h[c] \in A
  BY <1>3, <1>5
<1> HIDE DEF c
<1>9. \A s \in SUBSET S : \A a \in A : G(s)[a] \in Int
  <2> TAKE s \in SUBSET S
  <2> TAKE a \in A
  <2>1. {x \in s : h[x] = a} \in SUBSET S
    OBVIOUS
  <2>2. Sum(w, {x \in s : h[x] = a}) \in Int
    BY <2>1, SumInt
  <2> QED BY <2>2
<1>10. G(t)[h[c]] = w[c] + G(r)[h[c]]
  <2> DEFINE T == {x \in t : h[x] = h[c]}
  <2>1. T \in SUBSET S /\ c \in T /\ T \ {c} = {x \in r : h[x] = h[c]}
    BY <1>3, <1>5
  <2> HIDE DEF T
  <2>2. \A x \in T : Sum(w, T) = w[x] + Sum(w, T \ {x})
    BY <2>1, SumTake
  <2>3. Sum(w, T) = w[c] + Sum(w, {x \in r : h[x] = h[c]})
    BY <2>1, <2>2
  <2> QED BY <2>3, <1>8 DEF T
<1>11. \A a \in A \ {h[c]} : G(t)[a] = G(r)[a]
  <2> TAKE a \in A \ {h[c]}
  <2>1. {x \in t : h[x] = a} = {x \in r : h[x] = a}
    BY <1>5
  <2> QED BY <2>1
<1>12. Sum(G(t), A) = Sum(G(r), A) - G(r)[h[c]] + G(t)[h[c]]
  <2>1. /\ \A a \in A : G(r)[a] \in Int
        /\ G(t)[h[c]] \in Int
    BY <1>3, <1>5, <1>8, <1>9
  <2> HIDE DEF G, r
  <2> QED BY <1>8, <1>11, <2>1, SumUpdate
<1>13. Sum(w, r) \in Int /\ G(r)[h[c]] \in Int
  BY <1>5, <1>8, <1>9, SumInt
<1> HIDE DEF G, r
<1>14. \A i, j, k \in Int : i - j + (k + j) = k + i
  OBVIOUS
<1> QED BY <1>3, <1>6, <1>7, <1>8, <1>10, <1>12, <1>13, <1>14

\* The sum of a function is the sum over its domain.
LEMMA SumFunctionIsSum ==
    ASSUME NEW w
    PROVE  SumFunction(w) = Sum(w, DOMAIN w)
BY DEF SumFunction, Sum

\* The same for a function told over a set of keys.
LEMMA SumFunctionOver ==
    ASSUME NEW w, NEW S, IsFiniteSet(S), NEW v, v = [x \in S |-> w[x]]
    PROVE  SumFunction(v) = Sum(w, S)
<1>1. SumFunction(v) = Sum(v, S)
  BY SumFunctionIsSum
<1>2. \A x \in S : v[x] = w[x]
  OBVIOUS
<1> QED BY <1>1, <1>2, SumSame

\* What one element gives away another receives: a transfer inside a set of
\* accounts leaves the total alone.
LEMMA SumMove ==
    ASSUME NEW S, IsFiniteSet(S), NEW from \in S, NEW to \in S, from # to,
           NEW w, NEW v, \A x \in S : w[x] \in Int, \A x \in S : v[x] \in Int,
           v[from] + v[to] = w[from] + w[to],
           \A x \in S \ {from, to} : v[x] = w[x]
    PROVE  Sum(v, S) = Sum(w, S)
<1> DEFINE mid == [x \in S |-> IF x = to THEN v[to] ELSE w[x]]
<1>1. /\ \A x \in S : mid[x] \in Int
      /\ \A x \in S \ {to} : mid[x] = w[x]
      /\ mid[to] = v[to] /\ mid[to] \in Int /\ mid[from] = w[from]
      /\ \A x \in S \ {from} : v[x] = mid[x]
  OBVIOUS
<1> HIDE DEF mid
<1>2. Sum(mid, S) = Sum(w, S) - w[to] + mid[to]
  BY <1>1, SumUpdate
<1>3. Sum(v, S) = Sum(mid, S) - mid[from] + v[from]
  BY <1>1, SumUpdate
<1>4. Sum(w, S) \in Int /\ w[to] \in Int /\ w[from] \in Int /\ v[from] \in Int
  BY SumInt
<1>5. \A a, b, c, d, e \in Int : d + e = c + b => (a - b + e) - c + d = a
  OBVIOUS
<1>6. Sum(v, S) = (Sum(w, S) - w[to] + v[to]) - w[from] + v[from]
  BY <1>1, <1>2, <1>3
<1>7. v[to] \in Int
  OBVIOUS
<1> QED BY <1>4, <1>5, <1>6, <1>7

------------------------------------------------------------------------------
(* What a batch of payments comes to *)

\* One payment comes to its amount.
LEMMA PayOneSum ==
    ASSUME NEW A, IsFiniteSet(A), NEW to \in A, NEW amount \in Int
    PROVE  Sum(PayOne(A, to, amount), A) = amount
<1>1. /\ PayOne(A, to, amount)[to] = amount
      /\ \A y \in A \ {to} : PayOne(A, to, amount)[y] = 0
  BY DEF PayOne
<1> QED BY <1>1, SumSingle

\* A payment to an account that is not there pays nothing.
LEMMA PayNobodySum ==
    ASSUME NEW A, IsFiniteSet(A), NEW to, to \notin A, NEW amount
    PROVE  Sum(PayOne(A, to, amount), A) = 0
<1>1. \A y \in A : PayOne(A, to, amount)[y] = 0
  BY DEF PayOne
<1> QED BY <1>1, SumZero

\* Two batches come to the sum of both.
LEMMA PayBothSum ==
    ASSUME NEW A, IsFiniteSet(A), NEW p \in [A -> Int], NEW q \in [A -> Int]
    PROVE  /\ PayBoth(p, q) \in [A -> Int]
           /\ Sum(PayBoth(p, q), A) = Sum(p, A) + Sum(q, A)
<1>1. \A x \in A : p[x] \in Int /\ q[x] \in Int /\ PayBoth(p, q)[x] = p[x] + q[x]
  BY DEF PayBoth
<1>2. PayBoth(p, q) \in [A -> Int]
  BY DEF PayBoth
<1> QED BY <1>1, <1>2, SumPlus
------------------------------------------------------------------------------
(* Tables with a column that is added up *)

\* What val comes to over the rows that tag marks with a.
Tagged(tag, val, a) == SumFunction([i \in {j \in DOMAIN tag : tag[j] = a} |-> val[i]])

\* Row x is added, or changed under the same mark, by d.
TagMoves(tag, tag2, val, val2, x, d) ==
    /\ IsFiniteSet(DOMAIN tag) /\ DOMAIN tag2 = DOMAIN tag \cup {x} /\ d \in Int
    /\ \A i \in DOMAIN tag : val[i] \in Int
    /\ \A i \in DOMAIN tag : i = x \/ (tag2[i] = tag[i] /\ val2[i] = val[i])
    /\ x \notin DOMAIN tag \/ tag2[x] = tag[x]
    /\ val2[x] = (IF x \in DOMAIN tag THEN val[x] ELSE 0) + d

\* Then it adds to the sum of its mark what it adds to the row.
LEMMA TaggedChanges ==
    ASSUME NEW tag, NEW tag2, NEW val, NEW val2, NEW x, NEW d, TagMoves(tag, tag2, val, val2, x, d)
    PROVE  \A a : /\ Tagged(tag, val, a) \in Int
                  /\ Tagged(tag2, val2, a)
                         = Tagged(tag, val, a) + (IF a = tag2[x] THEN d ELSE 0)
<1> USE DEF TagMoves
<1> TAKE a
<1> DEFINE D == {j \in DOMAIN tag : tag[j] = a}
           E == {j \in DOMAIN tag2 : tag2[j] = a}
           f == [i \in D |-> val[i]]
           g == [i \in E |-> val2[i]]
           e == IF a = tag2[x] THEN d ELSE 0
<1>1. IsFiniteSet(D) /\ \A i \in D : i \in DOMAIN tag /\ val[i] \in Int
  <2>1. D \in SUBSET DOMAIN tag
    OBVIOUS
  <2> QED BY <2>1, FS_Subset
<1>2. Tagged(tag, val, a) = Sum(val, D)
  <2>1. Tagged(tag, val, a) = SumFunction(f)
    BY DEF Tagged
  <2> QED BY <1>1, <2>1, SumFunctionOver
<1>3. Sum(val, D) \in Int
  BY <1>1, SumInt
<1>4. IsFiniteSet(E)
  <2>1. E \in SUBSET (DOMAIN tag \cup {x}) /\ IsFiniteSet(DOMAIN tag \cup {x})
    BY FS_AddElement
  <2> QED BY <2>1, FS_Subset
<1>5. Tagged(tag2, val2, a) = Sum(val2, E)
  <2>1. Tagged(tag2, val2, a) = SumFunction(g)
    BY DEF Tagged
  <2> QED BY <1>4, <2>1, SumFunctionOver
<1>6. val2[x] \in Int
  OBVIOUS
<1>7. \A i \in E : i = x \/ (i \in D /\ val2[i] = val[i])
  OBVIOUS
<1>8. \A i \in D : i = x \/ (i \in E /\ val2[i] = val[i])
  OBVIOUS
<1>9. \A i \in E : val2[i] \in Int
  BY <1>1, <1>6, <1>7
<1>10. Sum(val2, E) = Sum(val, D) + e
  <2>1. CASE x \notin E
    <3>1. x \notin D /\ a # tag2[x]
      BY <2>1
    <3>2. D = E
      <4> HIDE DEF D, E
      <4> QED BY <1>7, <1>8, <2>1, <3>1
    <3>3. \A i \in D : val[i] = val2[i]
      <4> HIDE DEF D
      <4> QED BY <1>8, <3>1
    <3>4. e = 0
      BY <3>1
    <3> HIDE DEF D, E, e
    <3>5. Sum(val, D) = Sum(val2, D)
      BY <1>1, <3>3, SumSame
    <3> QED BY <1>3, <3>2, <3>4, <3>5
  <2>2. CASE x \in E /\ x \in D
    <3>1. e = d /\ x \in DOMAIN tag /\ val2[x] = val[x] + d /\ val[x] \in Int
      BY <2>2
    <3>2. D = E
      <4> HIDE DEF D, E
      <4> QED BY <1>7, <1>8, <2>2
    <3>3. \A i \in D \ {x} : val2[i] = val[i]
      <4> HIDE DEF D
      <4> QED BY <1>8
    <3> HIDE DEF D, E, e
    <3>4. Sum(val2, D) = Sum(val, D) - val[x] + val2[x]
      BY <1>1, <1>6, <2>2, <3>3, SumUpdate
    <3> QED BY <1>3, <3>1, <3>2, <3>4
  <2>3. CASE x \in E /\ x \notin D
    <3>1. e = d /\ x \notin DOMAIN tag /\ val2[x] = d
      BY <2>3
    <3>2. E = D \cup {x}
      <4> HIDE DEF D, E
      <4> QED BY <1>7, <1>8, <2>3
    <3>3. \A i \in D : val2[i] = val[i]
      <4> HIDE DEF D
      <4> QED BY <1>8, <2>3
    <3> HIDE DEF D, E, e
    <3>4. \A i \in D \cup {x} : val2[i] \in Int
      BY <1>1, <1>6, <3>3
    <3>5. Sum(val2, D \cup {x}) = val2[x] + Sum(val2, D)
      BY <1>1, <2>3, <3>4, SumAdd
    <3>6. Sum(val2, D) = Sum(val, D)
      BY <1>1, <3>3, SumSame
    <3> QED BY <1>3, <3>1, <3>2, <3>5, <3>6
  <2> QED BY <2>1, <2>2, <2>3
<1> HIDE DEF D, E, e
<1> QED BY <1>2, <1>3, <1>5, <1>10 DEF e
\* Sums compare as their values do.
LEMMA SumBelow ==
    ASSUME NEW S, IsFiniteSet(S), NEW w, NEW v,
           \A x \in S : w[x] \in Int /\ v[x] \in Int /\ w[x] <= v[x]
    PROVE  Sum(w, S) <= Sum(v, S)
<1> DEFINE d == [x \in S |-> v[x] - w[x]]
<1>1. \A x \in S : d[x] \in Nat
  OBVIOUS
<1>2. \A x \in S : w[x] \in Int /\ d[x] \in Int /\ v[x] = w[x] + d[x]
  OBVIOUS
<1> HIDE DEF d
<1>3. Sum(v, S) = Sum(w, S) + Sum(d, S)
  BY <1>2, SumPlus
<1>4. Sum(w, S) \in Int /\ Sum(d, S) \in Nat
  BY <1>1, <1>2, SumInt, SumNat
<1> QED BY <1>3, <1>4

\* A set has no more elements than the sum of a positive value for each.
LEMMA SumCounts ==
    ASSUME NEW S, IsFiniteSet(S), NEW w, \A x \in S : w[x] \in Nat \ {0}
    PROVE  Cardinality(S) <= Sum(w, S)
<1> DEFINE Bad == {s \in SUBSET S : ~(Cardinality(s) <= Sum(w, s))}
<1>0. ~(Cardinality(S) <= Sum(w, S)) => Bad # {}
  OBVIOUS
<1>1. SUFFICES ASSUME Bad # {} PROVE FALSE
  BY <1>0
<1>2. PICK t \in Bad : \A r \in SUBSET t : r # t => r \notin Bad
  <2>1. Bad \in SUBSET SUBSET S
    OBVIOUS
  <2> HIDE DEF Bad
  <2> QED BY <1>1, <2>1, SmallestBad
<1>3. t \in SUBSET S /\ ~(Cardinality(t) <= Sum(w, t))
  OBVIOUS
<1>4. t # {}
  <2>1. Sum(w, {}) = 0 /\ Cardinality({}) = 0
    BY SumEmpty, FS_EmptySet
  <2> QED BY <1>3, <2>1
<1>5. PICK x \in t : TRUE
  BY <1>4
<1> DEFINE r == t \ {x}
<1>6. IsFiniteSet(t) /\ r \in SUBSET S /\ r # t
  BY <1>3, FS_Subset
<1>7. Cardinality(r) <= Sum(w, r)
  BY <1>2, <1>6
<1>8. Sum(w, t) = w[x] + Sum(w, r)
  <2>1. \A y \in S : w[y] \in Int
    OBVIOUS
  <2> HIDE DEF Bad
  <2> QED BY <1>3, <2>1, SumTake
<1>9. Cardinality(r) = Cardinality(t) - 1 /\ Cardinality(t) \in Nat
  BY <1>5, <1>6, FS_RemoveElement, FS_CardinalityType
<1>10. Sum(w, r) \in Nat /\ w[x] \in Nat \ {0}
  <2>1. \A y \in S : w[y] \in Nat
    OBVIOUS
  <2> HIDE DEF Bad
  <2> QED BY <1>3, <1>6, <2>1, SumNat
<1> HIDE DEF Bad, r
<1> QED BY <1>3, <1>7, <1>8, <1>9, <1>10
=============================================================================
