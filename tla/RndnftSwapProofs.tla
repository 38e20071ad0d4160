-------------------------- MODULE RndnftSwapProofs --------------------------
(***************************************************************************)
(* Proofs about the random swap, for any number of booths, boxes and       *)
(* draws: as long as no counter of an intact booth leaves uint64_t, its    *)
(* counters agree with its boxes, every box can be drawn, each NFT given   *)
(* was paid for at the rate, and the contract holds what its tables say.   *)
(* Where no row was set by hand, the counters stay in uint64_t, the swap   *)
(* is a raffle, and no booth is short of what its counter says is left.    *)
(***************************************************************************)
EXTENDS RndnftSwap, TableProofs

(* Boxes *)

IsBoxes(boxes) == IsFiniteSet(DOMAIN boxes) /\ IsTable(boxes, Nat, BoxRow)

\* What a booth has of one token id.
IdAmounts(boxes, t) == [x \in DOMAIN boxes |-> IF boxes[x].id = t THEN boxes[x].amount ELSE 0]
WithId(boxes, t) == Sum(IdAmounts(boxes, t), DOMAIN boxes)
AllAmounts(boxes) == Sum(Amounts(boxes), DOMAIN boxes)

LEMMA BoxesAre ==
    ASSUME NEW boxes, IsBoxes(boxes)
    PROVE  /\ IsFiniteSet(DOMAIN boxes) /\ DOMAIN boxes \in SUBSET Nat
           /\ \A x \in DOMAIN boxes : /\ boxes[x].id \in TokenIds /\ boxes[x].amount \in Int
                                      /\ Amounts(boxes)[x] = boxes[x].amount
           /\ \A t : \A x \in DOMAIN boxes :
                 IdAmounts(boxes, t)[x] = (IF boxes[x].id = t THEN boxes[x].amount ELSE 0)
BY DEF IsBoxes, IsTable, BoxRow, Amounts, IdAmounts

\* One element of a sum is lowered by d, or goes when d is all of it.
OneLess(w, S, v, T, x, d) ==
    /\ IsFiniteSet(S) /\ x \in S /\ d \in Int /\ \A y \in S : w[y] \in Int
    /\ T = S \/ (T = S \ {x} /\ d = w[x])
    /\ x \notin T \/ v[x] = w[x] - d
    /\ \A y \in T : y = x \/ v[y] = w[y]

LEMMA OneLessSum ==
    ASSUME NEW w, NEW S, NEW v, NEW T, NEW x, NEW d, OneLess(w, S, v, T, x, d)
    PROVE  Sum(w, S) \in Int /\ Sum(v, T) = Sum(w, S) - d
<1> USE DEF OneLess
<1>1. Sum(w, S) \in Int /\ Sum(w, S \ {x}) \in Int /\ Sum(w, S) = w[x] + Sum(w, S \ {x})
  <2>1. S \in SUBSET S /\ S \ {x} \in SUBSET S
    OBVIOUS
  <2> QED BY <2>1, SumInt, SumTake
<1>2. CASE T = S
  <2>1. v[x] = w[x] - d /\ v[x] \in Int /\ \A y \in S \ {x} : v[y] = w[y]
    BY <1>2
  <2>2. Sum(v, S) = Sum(w, S) - w[x] + v[x]
    BY <2>1, SumUpdate
  <2> QED BY <1>1, <1>2, <2>1, <2>2
<1>3. CASE T = S \ {x} /\ d = w[x]
  <2>1. IsFiniteSet(T) /\ \A y \in T : v[y] = w[y]
    BY <1>3, FS_Subset
  <2>2. Sum(v, T) = Sum(w, T)
    BY <2>1, SumSame
  <2> QED BY <1>1, <1>3, <2>2
<1> QED BY <1>2, <1>3

\* The least of some box ids.
LEMMA LeastIs ==
    ASSUME NEW S \in SUBSET Nat, IsFiniteSet(S), S # {}
    PROVE  Least(S) \in S /\ \A y \in S : Least(S) <= y
<1> DEFINE h == [x \in S |-> x]
<1>1. \A x \in S : h[x] = x /\ h[x] \in Int
  OBVIOUS
<1> HIDE DEF h
<1>2. PICK x \in S : \A y \in S : h[x] <= h[y]
  BY <1>1, LeastOf
<1>3. \E z \in S : \A y \in S : z <= y
  BY <1>1, <1>2
<1> QED BY <1>3 DEF Least

\* The greatest.
LEMMA MaxIs ==
    ASSUME NEW S \in SUBSET Nat, IsFiniteSet(S), S # {}
    PROVE  Max(S) \in S /\ \A y \in S : y <= Max(S)
<1> DEFINE h == [x \in S |-> x]
<1>1. \A x \in S : h[x] = x /\ h[x] \in Int
  OBVIOUS
<1> HIDE DEF h
<1>2. PICK x \in S : \A y \in S : h[y] <= h[x]
  BY <1>1, GreatestOf
<1>3. \E z \in S : \A y \in S : z >= y
  BY <1>1, <1>2
<1>4. Max(S) \in S /\ \A y \in S : Max(S) >= y
  BY <1>3 DEF Max
<1> QED BY <1>4
------------------------------------------------------------------------------
(* One draw *)

\* A box gives one NFT, and goes with its last.
OutOf(boxes, x) ==
    IF boxes[x].amount = 1 THEN Erase(boxes, {x}) ELSE [boxes EXCEPT ![x].amount = @ - 1]

Lowers(boxes, x, u) ==
    /\ IsBoxes(u) /\ DOMAIN u \in SUBSET DOMAIN boxes
    /\ \A y \in DOMAIN u : /\ u[y].id = boxes[y].id
                           /\ u[y].amount = boxes[y].amount - (IF y = x THEN 1 ELSE 0)
    /\ DOMAIN u = (IF boxes[x].amount = 1 THEN DOMAIN boxes \ {x} ELSE DOMAIN boxes)

LEMMA OutOfLowers ==
    ASSUME NEW boxes, IsBoxes(boxes), NEW x \in DOMAIN boxes, NEW u, u = OutOf(boxes, x)
    PROVE  Lowers(boxes, x, u)
<1> USE DEF Lowers
<1>1. /\ IsFiniteSet(DOMAIN boxes) /\ DOMAIN boxes \in SUBSET Nat
      /\ \A y \in DOMAIN boxes : boxes[y] \in BoxRow
  BY DEF IsBoxes, IsTable
<1>2. CASE boxes[x].amount = 1
  <2>1. /\ DOMAIN u = DOMAIN boxes \ {x}
        /\ \A y \in DOMAIN u : u[y] = boxes[y]
    BY <1>2 DEF OutOf, Erase
  <2>2. IsFiniteSet(DOMAIN u)
    BY <1>1, <2>1, FS_RemoveElement
  <2> QED BY <1>1, <1>2, <2>1, <2>2 DEF IsBoxes, IsTable, BoxRow
<1>3. CASE boxes[x].amount # 1
  <2>1. u = [boxes EXCEPT ![x].amount = @ - 1]
    BY <1>3 DEF OutOf
  <2>2. /\ DOMAIN u = DOMAIN boxes
        /\ \A y \in DOMAIN u : y # x => u[y] = boxes[y]
        /\ u[x] = [boxes[x] EXCEPT !.amount = boxes[x].amount - 1]
    BY <2>1
  <2>3. /\ u[x].id = boxes[x].id /\ u[x].amount = boxes[x].amount - 1 /\ u[x] \in BoxRow
    BY <1>1, <2>2 DEF BoxRow
  <2>4. \A y \in DOMAIN u : y # x => /\ u[y].id = boxes[y].id /\ u[y] \in BoxRow
                                     /\ u[y].amount = boxes[y].amount - 0
    BY <1>1, <2>2 DEF BoxRow
  <2> QED BY <1>1, <1>3, <2>2, <2>3, <2>4 DEF IsBoxes, IsTable
<1> QED BY <1>2, <1>3

\* The sums fall by that NFT.
LEMMA OutOfSums ==
    ASSUME NEW boxes, IsBoxes(boxes), NEW x \in DOMAIN boxes, NEW u, u = OutOf(boxes, x)
    PROVE  /\ AllAmounts(boxes) \in Int /\ AllAmounts(u) = AllAmounts(boxes) - 1
           /\ \A t : /\ WithId(boxes, t) \in Int
                     /\ WithId(u, t) = WithId(boxes, t) - (IF boxes[x].id = t THEN 1 ELSE 0)
<1>0. Lowers(boxes, x, u)
  BY OutOfLowers
<1> DEFINE D == DOMAIN boxes
           T == DOMAIN u
<1>1. /\ IsBoxes(u) /\ T \in SUBSET D
      /\ \A y \in T : /\ u[y].id = boxes[y].id
                      /\ u[y].amount = boxes[y].amount - (IF y = x THEN 1 ELSE 0)
      /\ T = (IF boxes[x].amount = 1 THEN D \ {x} ELSE D)
  BY <1>0 DEF Lowers
<1>2. /\ IsFiniteSet(D) /\ \A y \in D : boxes[y].amount \in Int
      /\ \A y \in D : Amounts(boxes)[y] = boxes[y].amount
      /\ \A y \in T : Amounts(u)[y] = u[y].amount
  BY <1>1, BoxesAre
<1>3. OneLess(Amounts(boxes), D, Amounts(u), T, x, 1)
  <2> HIDE DEF D, T
  <2>1. x \in D
    BY DEF D
  <2> QED BY <1>1, <1>2, <2>1 DEF OneLess
<1>4. AllAmounts(boxes) \in Int /\ AllAmounts(u) = AllAmounts(boxes) - 1
  BY <1>3, OneLessSum DEF AllAmounts
<1>5. ASSUME NEW t
      PROVE  /\ WithId(boxes, t) \in Int
             /\ WithId(u, t) = WithId(boxes, t) - (IF boxes[x].id = t THEN 1 ELSE 0)
  <2> DEFINE e == IF boxes[x].id = t THEN 1 ELSE 0
             w == IdAmounts(boxes, t)
             v == IdAmounts(u, t)
  <2>1. /\ \A y \in D : w[y] = (IF boxes[y].id = t THEN boxes[y].amount ELSE 0)
        /\ \A y \in T : v[y] = (IF u[y].id = t THEN u[y].amount ELSE 0)
    BY <1>1, BoxesAre
  <2>2. e \in Int /\ x \in D
    OBVIOUS
  <2>3. \A y \in D : w[y] \in Int
    BY <1>2, <2>1
  <2>4. T = D \/ (T = D \ {x} /\ e = w[x])
    <3>1. boxes[x].amount = 1 => e = w[x]
      BY <2>1
    <3> HIDE DEF e, w, T, D
    <3> QED BY <1>1, <3>1
  <2>5. x \notin T \/ v[x] = w[x] - e
    <3>1. x \in T => u[x].id = boxes[x].id /\ u[x].amount = boxes[x].amount - 1
      BY <1>1
    <3>2. x \in T => v[x] = w[x] - e
      BY <1>2, <2>1, <3>1
    <3> QED BY <3>2
  <2>6. \A y \in T : y = x \/ v[y] = w[y]
    <3>1. \A y \in T : y # x => u[y].id = boxes[y].id /\ u[y].amount = boxes[y].amount - 0
      BY <1>1
    <3> HIDE DEF v, w
    <3> QED BY <1>1, <1>2, <2>1, <3>1
  <2>7. OneLess(w, D, v, T, x, e)
    <3> HIDE DEF w, D, v, T, e
    <3> QED BY <1>2, <2>2, <2>3, <2>4, <2>5, <2>6 DEF OneLess
  <2>8. Sum(w, D) \in Int /\ Sum(v, T) = Sum(w, D) - e
    <3> HIDE DEF w, D, v, T, e
    <3> QED BY <2>7, OneLessSum
  <2> QED BY <2>8 DEF WithId
<1> QED BY <1>4, <1>5
------------------------------------------------------------------------------
(* The draws *)

LEMMA FirstHitIs ==
    ASSUME NEW boxes, IsBoxes(boxes), DOMAIN boxes # {}, NEW hits \in SUBSET DOMAIN boxes
    PROVE  \E x \in DOMAIN boxes : FirstHit(boxes, hits) = {x}
<1> DEFINE S == IF hits = {} THEN DOMAIN boxes ELSE hits
<1>1. S \in SUBSET DOMAIN boxes /\ S # {}
  OBVIOUS
<1>2. S \in SUBSET Nat /\ IsFiniteSet(S)
  BY <1>1, BoxesAre, FS_Subset
<1>3. FirstHit(boxes, hits) = {Least(S)}
  BY DEF FirstHit
<1> HIDE DEF S
<1>4. Least(S) \in S
  BY <1>1, <1>2, LeastIs
<1> QED BY <1>1, <1>3, <1>4

LEMMA PickIs ==
    ASSUME NEW boxes, IsBoxes(boxes), DOMAIN boxes # {}, NEW many, NEW r
    PROVE  \E x \in DOMAIN boxes : Pick(boxes, many, r) = {x}
<1> DEFINE hits == {x \in DOMAIN boxes : IF many THEN x >= r ELSE UpTo(boxes, x) >= r}
<1>1. hits \in SUBSET DOMAIN boxes /\ Pick(boxes, many, r) = FirstHit(boxes, hits)
  BY DEF Pick
<1> HIDE DEF hits
<1> QED BY <1>1, FirstHitIs

\* A draw that takes from box x.
Taken(draw, x) ==
    [boxes  |-> OutOf(draw.boxes, x),
     num    |-> (draw.num - 1) % (UintMax + 1),
     boxnum |-> BoxesLeft(draw, draw.boxes[x]),
     bought |-> [draw.bought EXCEPT ![draw.boxes[x].id] = @ + 1]]

LEMMA DrawTakes ==
    ASSUME NEW draw, IsBoxes(draw.boxes), NEW boxsum, NEW d \in _one_nft(draw, boxsum)
    PROVE  draw.boxnum # 0 /\ \E x \in DOMAIN draw.boxes : d = Taken(draw, x)
<1> DEFINE many == draw.boxnum >= MAX_LOWER_BOUND
           I == 1 .. (IF many THEN boxsum ELSE draw.num)
           hits == IF DOMAIN draw.boxes = {} THEN {}
                   ELSE UNION {Pick(draw.boxes, many, r) : r \in I}
<1>1. PICK x \in (IF draw.boxnum = 0 THEN {} ELSE hits) : d = Taken(draw, x)
  BY DEF _one_nft, Taken, OutOf
<1>2. draw.boxnum # 0 /\ x \in hits
  BY <1>1
<1>3. DOMAIN draw.boxes # {} /\ \E r \in I : x \in Pick(draw.boxes, many, r)
  BY <1>2
<1> HIDE DEF I, many
<1>4. x \in DOMAIN draw.boxes
  BY <1>3, PickIs
<1> QED BY <1>1, <1>2, <1>4

\* Boxes that are counted, and none of them empty.
Full(boxes, num, count) ==
    /\ AllAmounts(boxes) = num /\ num <= UintMax
    /\ Cardinality(DOMAIN boxes) = count /\ count <= UintMax
    /\ \A x \in DOMAIN boxes : boxes[x].amount > 0

\* What i draws from the boxes keep.
Drawn(boxes, num, count, i, draw) ==
    /\ IsBoxes(draw.boxes) /\ DOMAIN draw.boxes \in SUBSET DOMAIN boxes
    /\ \A x \in DOMAIN draw.boxes : draw.boxes[x].id = boxes[x].id
    /\ draw.num \in Nat /\ draw.boxnum \in Nat /\ draw.bought \in [TokenIds -> Nat]
    /\ \A t \in TokenIds : WithId(draw.boxes, t) + draw.bought[t] = WithId(boxes, t)
    /\ Full(boxes, num, count) =>
          Full(draw.boxes, draw.num, draw.boxnum) /\ draw.num = num - i

Start(boxes, num, count) ==
    [boxes |-> boxes, num |-> num, boxnum |-> count, bought |-> [i \in TokenIds |-> 0]]

LEMMA StartDrawn ==
    ASSUME NEW boxes, IsBoxes(boxes), NEW num \in Nat, NEW count \in Nat
    PROVE  Drawn(boxes, num, count, 0, Start(boxes, num, count))
<1> DEFINE s == Start(boxes, num, count)
<1>1. /\ s.boxes = boxes /\ s.num = num /\ s.boxnum = count
      /\ s.bought = [i \in TokenIds |-> 0]
  BY DEF Start
<1>2. \A t \in TokenIds : WithId(boxes, t) \in Int
  <2>1. ASSUME NEW t \in TokenIds PROVE WithId(boxes, t) \in Int
    <3>1. \A x \in DOMAIN boxes : IdAmounts(boxes, t)[x] \in Int
      BY BoxesAre
    <3>2. IsFiniteSet(DOMAIN boxes)
      BY BoxesAre
    <3> QED BY <3>1, <3>2, SumInt DEF WithId
  <2> QED BY <2>1
<1>3. s.bought \in [TokenIds -> Nat] /\ \A t \in TokenIds : s.bought[t] = 0
  BY <1>1
<1>4. num = num - 0
  OBVIOUS
<1> HIDE DEF s
<1> QED BY <1>1, <1>2, <1>3, <1>4 DEF Drawn, s

\* Taking the last NFT out of a counter of zero gives the largest number.
LEMMA CountDown ==
    ASSUME NEW n \in Nat
    PROVE  /\ (n - 1) % (UintMax + 1) \in Nat
           /\ n > 0 /\ n <= UintMax => (n - 1) % (UintMax + 1) = n - 1
<1>1. UintMax \in Nat
  BY SwapInputs
<1>2. (n - 1) % (UintMax + 1) \in Nat
  BY <1>1
<1>3. ASSUME n > 0, n <= UintMax PROVE (n - 1) % (UintMax + 1) = n - 1
  BY <1>1, <1>3
<1> QED BY <1>2, <1>3

LEMMA OneMoreDrawn ==
    ASSUME NEW boxes, NEW num \in Nat, NEW count \in Nat, NEW i \in Nat, NEW draw, NEW boxsum,
           Drawn(boxes, num, count, i, draw), NEW d \in _one_nft(draw, boxsum)
    PROVE  Drawn(boxes, num, count, i + 1, d)
<1>1. /\ IsBoxes(draw.boxes) /\ DOMAIN draw.boxes \in SUBSET DOMAIN boxes
      /\ \A x \in DOMAIN draw.boxes : draw.boxes[x].id = boxes[x].id
      /\ draw.num \in Nat /\ draw.boxnum \in Nat /\ draw.bought \in [TokenIds -> Nat]
      /\ \A t \in TokenIds : WithId(draw.boxes, t) + draw.bought[t] = WithId(boxes, t)
  BY DEF Drawn
<1>2. PICK x \in DOMAIN draw.boxes : d = Taken(draw, x)
  BY <1>1, DrawTakes
<1> DEFINE b == draw.boxes
           u == OutOf(b, x)
           j == b[x].id
<1>3. draw.boxnum # 0
  BY <1>1, DrawTakes
<1>4. /\ d.boxes = u /\ d.num = (draw.num - 1) % (UintMax + 1)
      /\ d.boxnum = BoxesLeft(draw, b[x]) /\ d.bought = [draw.bought EXCEPT ![j] = @ + 1]
  BY <1>2 DEF Taken
<1>5. j \in TokenIds /\ b[x].amount \in Int
  BY <1>1, BoxesAre
<1>6. Lowers(b, x, u)
  BY <1>1, OutOfLowers
<1>7. /\ AllAmounts(b) \in Int /\ AllAmounts(u) = AllAmounts(b) - 1
      /\ \A t : /\ WithId(b, t) \in Int
                /\ WithId(u, t) = WithId(b, t) - (IF j = t THEN 1 ELSE 0)
  BY <1>1, OutOfSums
<1>8. d.num \in Nat /\ d.boxnum \in Nat
  BY <1>1, <1>4, CountDown DEF BoxesLeft
<1>9. /\ d.bought \in [TokenIds -> Nat]
      /\ \A t \in TokenIds : d.bought[t] = draw.bought[t] + (IF j = t THEN 1 ELSE 0)
  BY <1>1, <1>4, <1>5
<1> HIDE DEF u, j
<1>10. /\ IsBoxes(d.boxes) /\ DOMAIN d.boxes \in SUBSET DOMAIN boxes
       /\ \A y \in DOMAIN d.boxes : d.boxes[y].id = boxes[y].id
  BY <1>1, <1>4, <1>6 DEF Lowers
<1>11. ASSUME NEW t \in TokenIds PROVE WithId(d.boxes, t) + d.bought[t] = WithId(boxes, t)
  <2>1. /\ WithId(b, t) \in Int /\ WithId(u, t) = WithId(b, t) - (IF j = t THEN 1 ELSE 0)
    BY <1>7
  <2>2. d.bought[t] = draw.bought[t] + (IF j = t THEN 1 ELSE 0) /\ draw.bought[t] \in Nat
    BY <1>1, <1>9
  <2>3. WithId(b, t) + draw.bought[t] = WithId(boxes, t)
    BY <1>1
  <2>4. d.boxes = u
    BY <1>4
  <2> HIDE DEF b
  <2> QED BY <2>1, <2>2, <2>3, <2>4
<1>12. ASSUME Full(boxes, num, count)
       PROVE  Full(d.boxes, d.num, d.boxnum) /\ d.num = num - (i + 1)
  <2>1. Full(b, draw.num, draw.boxnum) /\ draw.num = num - i
    BY <1>12 DEF Drawn
  <2>2. /\ AllAmounts(b) = draw.num /\ draw.num <= UintMax
        /\ Cardinality(DOMAIN b) = draw.boxnum /\ draw.boxnum <= UintMax
        /\ \A y \in DOMAIN b : b[y].amount > 0
    BY <2>1 DEF Full
  <2>3. draw.num > 0
    <3>1. /\ IsFiniteSet(DOMAIN b) /\ x \in DOMAIN b
          /\ \A y \in DOMAIN b : Amounts(b)[y] = b[y].amount /\ b[y].amount \in Int
      BY <1>1, BoxesAre
    <3>2. \A y \in DOMAIN b : Amounts(b)[y] \in Nat
      BY <2>2, <3>1
    <3>3. Amounts(b)[x] <= AllAmounts(b)
      BY <3>1, <3>2, SumCovers DEF AllAmounts
    <3>4. Amounts(b)[x] > 0 /\ Amounts(b)[x] \in Int
      BY <2>2, <3>1
    <3> HIDE DEF b
    <3> QED BY <1>1, <2>2, <3>3, <3>4
  <2>4. d.num = draw.num - 1
    BY <1>1, <1>4, <2>2, <2>3, CountDown
  <2>5. \A y \in DOMAIN u : u[y].amount > 0
    <3>1. ASSUME NEW y \in DOMAIN u PROVE u[y].amount > 0
      <4>1. y \in DOMAIN b /\ b[y].amount > 0 /\ b[y].amount \in Int
        BY <1>1, <1>6, <2>2, BoxesAre DEF Lowers
      <4>2. u[y].amount = b[y].amount - (IF y = x THEN 1 ELSE 0)
        BY <1>6 DEF Lowers
      <4>3. y = x => b[x].amount # 1
        BY <1>6 DEF Lowers
      <4> HIDE DEF b
      <4> QED BY <4>1, <4>2, <4>3
    <3> QED BY <3>1
  <2>6. Cardinality(DOMAIN u) = d.boxnum
    <3>1. CASE b[x].amount = 1
      <4>1. DOMAIN u = DOMAIN b \ {x}
        BY <1>6, <3>1 DEF Lowers
      <4>2. Cardinality(DOMAIN u) = Cardinality(DOMAIN b) - 1
        <5>1. IsFiniteSet(DOMAIN b) /\ x \in DOMAIN b
          BY <1>1, BoxesAre
        <5> HIDE DEF b
        <5> QED BY <4>1, <5>1, FS_RemoveElement
      <4>3. d.boxnum = draw.boxnum - 1
        BY <1>1, <1>3, <1>4, <2>2, <3>1, CountDown DEF BoxesLeft
      <4> QED BY <2>2, <4>2, <4>3
    <3>2. CASE b[x].amount # 1
      <4>1. DOMAIN u = DOMAIN b
        BY <1>6, <3>2 DEF Lowers
      <4>2. d.boxnum = draw.boxnum
        BY <1>4, <3>2 DEF BoxesLeft
      <4> QED BY <2>2, <4>1, <4>2
    <3> QED BY <3>1, <3>2
  <2>7. d.boxnum <= draw.boxnum
    BY <1>1, <1>3, <1>4, <2>2, CountDown DEF BoxesLeft
  <2>8. UintMax \in Nat
    BY SwapInputs
  <2>9. d.num <= UintMax /\ d.boxnum <= UintMax /\ d.num = num - (i + 1)
    BY <1>1, <1>8, <2>1, <2>2, <2>4, <2>7, <2>8
  <2>10. AllAmounts(u) = d.num
    BY <1>7, <2>2, <2>4
  <2> QED BY <1>4, <2>5, <2>6, <2>9, <2>10 DEF Full
<1> QED BY <1>8, <1>9, <1>10, <1>11, <1>12 DEF Drawn

\* f[i] are the outcomes of i draws.
AreDraws(f, first, boxsum, count) ==
    f = [i \in 0 .. count |->
            IF i = 0 THEN {first} ELSE UNION {_one_nft(draw, boxsum) : draw \in f[i - 1]}]

LEMMA DrawsExist ==
    ASSUME NEW first, NEW boxsum, NEW count \in Nat
    PROVE  \E f : AreDraws(f, first, boxsum, count)
<1> DEFINE Bad == {c \in 0 .. count : ~ \E f : AreDraws(f, first, boxsum, c)}
           h == [c \in 0 .. count |-> c]
<1>1. SUFFICES ASSUME Bad # {} PROVE FALSE
  OBVIOUS
<1>2. IsFiniteSet(Bad) /\ \A c \in Bad : h[c] \in Int
  <2>1. IsFiniteSet(0 .. count) /\ Bad \subseteq 0 .. count
    BY FS_Interval
  <2>2. \A c \in Bad : h[c] \in Int
    OBVIOUS
  <2> HIDE DEF Bad
  <2> QED BY <2>1, <2>2, FS_Subset
<1>3. PICK c \in Bad : \A d \in Bad : h[c] <= h[d]
  <2> HIDE DEF Bad, h
  <2> QED BY <1>1, <1>2, LeastOf
<1>4. c \in Nat /\ c <= count /\ ~ \E f : AreDraws(f, first, boxsum, c)
  OBVIOUS
<1>5. CASE c = 0
  <2> DEFINE g == [i \in 0 .. 0 |-> {first}]
  <2>1. AreDraws(g, first, boxsum, 0)
    BY DEF AreDraws
  <2> QED BY <1>4, <1>5, <2>1
<1>6. CASE c # 0
  <2>1. c - 1 \in 0 .. count /\ c - 1 \notin Bad
    BY <1>3, <1>4, <1>6
  <2>2. PICK f : AreDraws(f, first, boxsum, c - 1)
    BY <2>1
  <2> DEFINE e(i) == IF i = 0 THEN {first}
                     ELSE UNION {_one_nft(draw, boxsum) : draw \in f[i - 1]}
             g == [i \in 0 .. c |-> e(i)]
  <2>3. ASSUME NEW i \in 0 .. c - 1 PROVE g[i] = f[i]
    <3>1. f = [j \in 0 .. c - 1 |-> e(j)]
      BY <2>2 DEF AreDraws
    <3>2. i \in 0 .. c
      BY <1>4
    <3> HIDE DEF e
    <3>3. f[i] = e(i) /\ g[i] = e(i)
      BY <3>1, <3>2
    <3> QED BY <3>3
  <2>4. ASSUME NEW i \in 0 .. c
        PROVE  g[i] = IF i = 0 THEN {first}
                      ELSE UNION {_one_nft(draw, boxsum) : draw \in g[i - 1]}
    <3>1. CASE i = 0
      BY <3>1
    <3>2. CASE i # 0
      <4>1. i - 1 \in 0 .. c - 1
        BY <1>4, <3>2
      <4>2. g[i - 1] = f[i - 1]
        BY <2>3, <4>1
      <4>3. g[i] = UNION {_one_nft(draw, boxsum) : draw \in f[i - 1]}
        BY <3>2
      <4> HIDE DEF g
      <4> QED BY <3>2, <4>2, <4>3
    <3> QED BY <3>1, <3>2
  <2>5. AreDraws(g, first, boxsum, c)
    <3>1. DOMAIN g = 0 .. c /\ g = [i \in 0 .. c |-> g[i]]
      OBVIOUS
    <3> HIDE DEF g
    <3> QED BY <2>4, <3>1 DEF AreDraws
  <2> QED BY <1>4, <2>5
<1> QED BY <1>5, <1>6

\* What Draws gives is the last of such outcomes.
LEMMA DrawsAre ==
    ASSUME NEW b, NEW count \in Nat
    PROVE  \E f : /\ AreDraws(f, Start(Boxes(b.id), b.base_nft_num, b.base_nftbox_num),
                             b.base_nftbox_sum, count)
                 /\ Draws(b, count) = f[count]
<1> DEFINE first == Start(Boxes(b.id), b.base_nft_num, b.base_nftbox_num)
           f == CHOOSE f : AreDraws(f, first, b.base_nftbox_sum, count)
<1>1. AreDraws(f, first, b.base_nftbox_sum, count)
  BY DrawsExist
<1>2. Draws(b, count) = f[count]
  BY DEF Draws, AreDraws, Start
<1> QED BY <1>1, <1>2

\* All outcomes of draws keep what draws keep.
LEMMA EachDrawn ==
    ASSUME NEW boxes, IsBoxes(boxes), NEW num \in Nat, NEW boxnum \in Nat, NEW boxsum,
           NEW count \in Nat, NEW f, AreDraws(f, Start(boxes, num, boxnum), boxsum, count)
    PROVE  \A i \in 0 .. count : \A d \in f[i] : Drawn(boxes, num, boxnum, i, d)
<1> DEFINE Bad == {i \in 0 .. count : ~ \A d \in f[i] : Drawn(boxes, num, boxnum, i, d)}
           h == [i \in 0 .. count |-> i]
           first == Start(boxes, num, boxnum)
<1>2. SUFFICES ASSUME Bad # {} PROVE FALSE
  OBVIOUS
<1>3. IsFiniteSet(Bad) /\ \A i \in Bad : h[i] \in Int
  <2>1. IsFiniteSet(0 .. count) /\ Bad \subseteq 0 .. count
    BY FS_Interval
  <2>2. \A i \in Bad : h[i] \in Int
    OBVIOUS
  <2> HIDE DEF Bad
  <2> QED BY <2>1, <2>2, FS_Subset
<1>4. PICK i \in Bad : \A j \in Bad : h[i] <= h[j]
  <2> HIDE DEF Bad, h
  <2> QED BY <1>2, <1>3, LeastOf
<1>5. PICK d \in f[i] : ~ Drawn(boxes, num, boxnum, i, d)
  OBVIOUS
<1>6. f[i] = IF i = 0 THEN {first}
             ELSE UNION {_one_nft(e, boxsum) : e \in f[i - 1]}
  BY DEF AreDraws
<1>7. CASE i = 0
  BY <1>5, <1>6, <1>7, StartDrawn
<1>8. CASE i # 0
  <2>1. i - 1 \in 0 .. count /\ i - 1 \in Nat /\ (i - 1) + 1 = i
    BY <1>8
  <2>2. i - 1 \notin Bad
    BY <1>4, <2>1
  <2>3. PICK e \in f[i - 1] : d \in _one_nft(e, boxsum)
    BY <1>5, <1>6, <1>8
  <2>4. Drawn(boxes, num, boxnum, i - 1, e)
    BY <2>1, <2>2, <2>3
  <2>5. Drawn(boxes, num, boxnum, (i - 1) + 1, d)
    BY <2>1, <2>3, <2>4, OneMoreDrawn
  <2> QED BY <1>5, <2>1, <2>5
<1> QED BY <1>7, <1>8

LEMMA DrawsAreDrawn ==
    ASSUME NEW b, IsBoxes(Boxes(b.id)), b.base_nft_num \in Nat, b.base_nftbox_num \in Nat,
           NEW count \in Nat, NEW draw \in Draws(b, count)
    PROVE  Drawn(Boxes(b.id), b.base_nft_num, b.base_nftbox_num, count, draw)
<1> DEFINE boxes == Boxes(b.id)
           num == b.base_nft_num
           boxnum == b.base_nftbox_num
           boxsum == b.base_nftbox_sum
<1>1. PICK f : AreDraws(f, Start(boxes, num, boxnum), boxsum, count) /\ draw \in f[count]
  BY DrawsAre
<1>2. IsBoxes(boxes) /\ num \in Nat /\ boxnum \in Nat /\ count \in 0 .. count
  OBVIOUS
<1> HIDE DEF boxes, num, boxnum, boxsum
<1>3. Drawn(boxes, num, boxnum, count, draw)
  BY <1>1, <1>2, EachDrawn
<1> QED BY <1>3 DEF boxes, num, boxnum
------------------------------------------------------------------------------
(* Every box can be drawn *)

\* The NFTs up to a box are at least its own, and more than those up to any box before.
LEMMA UpToGrows ==
    ASSUME NEW boxes, IsBoxes(boxes), \A y \in DOMAIN boxes : boxes[y].amount > 0,
           NEW x \in DOMAIN boxes
    PROVE  /\ UpTo(boxes, x) \in Nat /\ UpTo(boxes, x) >= 1
           /\ UpTo(boxes, x) <= AllAmounts(boxes)
           /\ \A y \in DOMAIN boxes : y < x => UpTo(boxes, y) < UpTo(boxes, x)
<1> DEFINE D == DOMAIN boxes
           w == Amounts(boxes)
           U(y) == {z \in D : z <= y}
<1>1. /\ IsFiniteSet(D) /\ D \in SUBSET Nat /\ x \in D
      /\ \A y \in D : w[y] = boxes[y].amount /\ boxes[y].amount \in Int
  BY BoxesAre
<1>2. \A y \in D : w[y] \in Nat /\ w[y] >= 1 /\ w[y] \in Int
  BY <1>1
<1>3. \A y : UpTo(boxes, y) = Sum(w, U(y))
  BY DEF UpTo, Sum
<1>4. \A y : U(y) \in SUBSET D
  OBVIOUS
<1>5. x \in U(x) /\ \A y \in D : y < x => U(y) \in SUBSET (U(x) \ {x})
  BY <1>1
<1>6. AllAmounts(boxes) = Sum(w, D)
  BY DEF AllAmounts
<1> HIDE DEF D, w, U
<1>7. \A T \in SUBSET D : Sum(w, T) \in Nat /\ Sum(w, T) \in Int
  <2>1. \A T \in SUBSET D : Sum(w, T) \in Nat
    BY <1>1, <1>2, SumNat
  <2> QED BY <2>1
<1>8. Sum(w, U(x)) = w[x] + Sum(w, U(x) \ {x})
  <2>1. IsFiniteSet(D) /\ \A y \in D : w[y] \in Int
    BY <1>1, <1>2
  <2>2. U(x) \in SUBSET D /\ x \in U(x)
    BY <1>4, <1>5
  <2> QED BY <2>1, <2>2, SumTake
<1>9. Sum(w, U(x)) <= Sum(w, D)
  BY <1>1, <1>2, <1>4, SumLe
<1>10. U(x) \ {x} \in SUBSET D
  BY <1>4
<1>11. w[x] \in Nat /\ w[x] >= 1
  BY <1>1, <1>2
<1>12. Sum(w, U(x)) \in Nat /\ Sum(w, U(x) \ {x}) \in Nat
  BY <1>4, <1>7, <1>10
<1>13. ASSUME NEW y \in D, y < x PROVE Sum(w, U(y)) < Sum(w, U(x))
  <2>1. U(y) \in SUBSET (U(x) \ {x})
    BY <1>5, <1>13
  <2>2. IsFiniteSet(U(x) \ {x}) /\ \A z \in U(x) \ {x} : w[z] \in Nat
    BY <1>1, <1>2, <1>10, FS_Subset
  <2>3. Sum(w, U(y)) <= Sum(w, U(x) \ {x})
    BY <2>1, <2>2, SumLe
  <2>4. Sum(w, U(y)) \in Nat
    BY <1>4, <1>7
  <2> QED BY <1>8, <1>11, <1>12, <2>3, <2>4
<1>14. Sum(w, U(x)) >= 1
  BY <1>8, <1>11, <1>12
<1> QED BY <1>3, <1>6, <1>9, <1>12, <1>13, <1>14 DEF D

\* Among hits that begin with x the first is x.
LEMMA FirstIs ==
    ASSUME NEW boxes, IsBoxes(boxes), NEW hits \in SUBSET DOMAIN boxes, NEW x \in DOMAIN boxes,
           x \in hits \/ hits = {},
           \A y \in DOMAIN boxes : y \in hits \/ hits = {} => ~ (y < x)
    PROVE  FirstHit(boxes, hits) = {x}
<1> DEFINE S == IF hits = {} THEN DOMAIN boxes ELSE hits
<1>1. S \in SUBSET DOMAIN boxes /\ x \in S /\ \A y \in S : ~ (y < x)
  OBVIOUS
<1>2. S \in SUBSET Nat /\ IsFiniteSet(S) /\ S # {}
  BY <1>1, BoxesAre, FS_Subset
<1>3. FirstHit(boxes, hits) = {Least(S)}
  BY DEF FirstHit
<1> HIDE DEF S
<1>4. Least(S) \in S /\ \A y \in S : Least(S) <= y
  BY <1>2, LeastIs
<1>5. Least(S) <= x /\ ~ (Least(S) < x) /\ Least(S) \in Nat /\ x \in Nat
  BY <1>1, <1>2, <1>4
<1>6. Least(S) = x
  BY <1>5
<1> QED BY <1>3, <1>6

\* Whichever way the draw takes, an index leads to the box: with few boxes the number of
\* NFTs up to it, with many its id, and for the first id, 0, the index past the last box,
\* which goes round to the first.
LEMMA BoxReached ==
    ASSUME NEW boxes, IsBoxes(boxes), \A y \in DOMAIN boxes : boxes[y].amount > 0,
           NEW num \in Nat, AllAmounts(boxes) = num,
           NEW boxsum \in Nat, \A y \in DOMAIN boxes : y < boxsum,
           NEW many \in BOOLEAN, NEW x \in DOMAIN boxes
    PROVE  \E r \in 1 .. (IF many THEN boxsum ELSE num) : Pick(boxes, many, r) = {x}
<1>1. DOMAIN boxes \in SUBSET Nat /\ x \in Nat /\ x < boxsum
  BY BoxesAre
<1>2. CASE many
  <2> DEFINE r == IF x = 0 THEN boxsum ELSE x
             hits == {y \in DOMAIN boxes : y >= r}
  <2>1. r \in 1 .. boxsum
    BY <1>1
  <2>2. Pick(boxes, many, r) = FirstHit(boxes, hits)
    BY <1>2 DEF Pick
  <2>3. x \in hits \/ hits = {}
    BY <1>1
  <2>4. \A y \in DOMAIN boxes : y \in hits \/ hits = {} => ~ (y < x)
    BY <1>1
  <2>5. hits \in SUBSET DOMAIN boxes
    OBVIOUS
  <2> HIDE DEF r, hits
  <2>6. Pick(boxes, many, r) = {x}
    BY <2>2, <2>3, <2>4, <2>5, FirstIs
  <2> QED BY <1>2, <2>1, <2>6
<1>3. CASE ~ many
  <2> DEFINE r == UpTo(boxes, x)
             hits == {y \in DOMAIN boxes : UpTo(boxes, y) >= r}
  <2>1. r \in Nat /\ r >= 1 /\ r <= num /\ \A y \in DOMAIN boxes : y < x => UpTo(boxes, y) < r
    BY UpToGrows
  <2>2. Pick(boxes, many, r) = FirstHit(boxes, hits)
    BY <1>3 DEF Pick
  <2>3. x \in hits
    BY <2>1
  <2>4. ASSUME NEW y \in DOMAIN boxes, y \in hits, y < x PROVE FALSE
    <3>1. UpTo(boxes, y) >= r /\ UpTo(boxes, y) < r /\ UpTo(boxes, y) \in Nat
      BY <2>1, <2>4, UpToGrows
    <3> HIDE DEF r
    <3> QED BY <2>1, <3>1
  <2>5. hits \in SUBSET DOMAIN boxes /\ hits # {}
    BY <2>3
  <2> HIDE DEF hits
  <2>6. Pick(boxes, many, r) = {x}
    BY <2>2, <2>3, <2>4, <2>5, FirstIs
  <2>7. r \in 1 .. num
    BY <2>1
  <2> QED BY <1>3, <2>6, <2>7
<1> QED BY <1>2, <1>3
------------------------------------------------------------------------------
(* The table of boxes, booth by booth *)

Keyed(t) == IsFiniteSet(DOMAIN t) /\ IsTable(t, Nat \X Nat, BoxRow)

BoxesIn(t, b) == [x \in {k[2] : k \in {j \in DOMAIN t : j[1] = b}} |-> t[<<b, x>>]]

LEMMA BoxesInAre ==
    ASSUME NEW t, Keyed(t), NEW b \in Nat
    PROVE  /\ DOMAIN BoxesIn(t, b) = {x \in Nat : <<b, x>> \in DOMAIN t}
           /\ \A x \in DOMAIN BoxesIn(t, b) : BoxesIn(t, b)[x] = t[<<b, x>>]
           /\ IsBoxes(BoxesIn(t, b))
<1> DEFINE u == BoxesIn(t, b)
           X == {x \in Nat : <<b, x>> \in DOMAIN t}
           f == [x \in X |-> <<b, x>>]
<1>1. DOMAIN t \subseteq Nat \X Nat /\ \A k \in DOMAIN t : t[k] \in BoxRow
  BY DEF Keyed, IsTable
<1>2. DOMAIN u = X
  <2>1. {k[2] : k \in {j \in DOMAIN t : j[1] = b}} = X
    <3>1. ASSUME NEW k \in DOMAIN t, k[1] = b PROVE k[2] \in X
      <4>1. k = <<k[1], k[2]>> /\ k[2] \in Nat
        BY <1>1
      <4> QED BY <3>1, <4>1
    <3>2. ASSUME NEW x \in X PROVE <<b, x>> \in DOMAIN t /\ <<b, x>>[1] = b /\ <<b, x>>[2] = x
      OBVIOUS
    <3> HIDE DEF X
    <3> QED BY <3>1, <3>2
  <2> QED BY <2>1 DEF BoxesIn
<1>3. \A x \in X : u[x] = t[<<b, x>>]
  BY <1>2 DEF BoxesIn
<1>4. IsFiniteSet(X)
  <2>1. f \in [X -> DOMAIN t]
    OBVIOUS
  <2>2. \A x, y \in X : f[x] = f[y] => x = y
    OBVIOUS
  <2>3. f \in Injection(X, DOMAIN t)
    <3> HIDE DEF f, X
    <3> QED BY <2>1, <2>2 DEF Injection, IsInjective
  <2> HIDE DEF f, X
  <2> QED BY <2>3, FS_Injection DEF Keyed
<1>5. IsBoxes(u)
  <2>1. X \subseteq Nat /\ \A x \in X : u[x] \in BoxRow
    BY <1>1, <1>3
  <2> HIDE DEF u, X
  <2> QED BY <1>2, <1>4, <2>1 DEF IsBoxes, IsTable
<1> QED BY <1>2, <1>3, <1>5

\* The boxes of a booth none of whose rows changed.
LEMMA Unmoved ==
    ASSUME NEW t, NEW u, Keyed(t), Keyed(u), NEW b \in Nat,
           \A x \in Nat : <<b, x>> \in DOMAIN t <=> <<b, x>> \in DOMAIN u,
           \A x \in Nat : <<b, x>> \in DOMAIN t => u[<<b, x>>] = t[<<b, x>>]
    PROVE  BoxesIn(u, b) = BoxesIn(t, b)
<1> DEFINE v == BoxesIn(t, b)
           w == BoxesIn(u, b)
<1>1. /\ DOMAIN v = {x \in Nat : <<b, x>> \in DOMAIN t}
      /\ \A x \in DOMAIN v : v[x] = t[<<b, x>>]
  BY BoxesInAre
<1>2. /\ DOMAIN w = {x \in Nat : <<b, x>> \in DOMAIN u}
      /\ \A x \in DOMAIN w : w[x] = u[<<b, x>>]
  BY BoxesInAre
<1>3. v = [x \in DOMAIN v |-> v[x]] /\ w = [x \in DOMAIN w |-> w[x]]
  BY DEF BoxesIn
<1> HIDE DEF v, w
<1>4. DOMAIN v = DOMAIN w /\ \A x \in DOMAIN v : v[x] = w[x]
  BY <1>1, <1>2
<1>5. v = w
  BY <1>3, <1>4
<1> QED BY <1>5 DEF v, w

\* A sum over the boxes of a booth is one over their keys.
Indexes(X, b, K, w, g) ==
    /\ K = {<<b, x>> : x \in X}
    /\ \A x \in X : w[<<b, x>>] \in Int /\ g[x] = w[<<b, x>>]

LEMMA SumKeys ==
    ASSUME NEW X, NEW b, NEW K, NEW w, NEW g, IsFiniteSet(X), IsFiniteSet(K), Indexes(X, b, K, w, g)
    PROVE  Sum(g, X) = Sum(w, K)
<1> DEFINE h == [k \in K |-> k[2]]
<1>1. \A x \in X : <<b, x>> \in K /\ h[<<b, x>>] = x
  BY DEF Indexes
<1>2. \A k \in K : w[k] \in Int /\ h[k] \in X /\ k = <<b, h[k]>>
  BY DEF Indexes
<1> HIDE DEF h
<1>3. ASSUME NEW x \in X PROVE g[x] = Sum(w, Group(K, h, x))
  <2>1. Group(K, h, x) = {<<b, x>>}
    BY <1>1, <1>2 DEF Group
  <2>2. Sum(w, {<<b, x>>}) = w[<<b, x>>]
    <3>1. IsFiniteSet({<<b, x>>}) /\ w[<<b, x>>] \in Int
      BY FS_Singleton DEF Indexes
    <3>2. <<b, x>> \in {<<b, x>>} /\ \A y \in {<<b, x>>} \ {<<b, x>>} : w[y] = 0
      OBVIOUS
    <3> QED BY <3>1, <3>2, SumSingle
  <2> QED BY <2>1, <2>2 DEF Indexes
<1>4. \A k \in K : w[k] \in Int /\ h[k] \in X
  BY <1>2
<1> QED BY <1>3, <1>4, SumGroups

\* What there is of one token id, as a sum over the boxes that have it.
LEMMA WithIdIs ==
    ASSUME NEW boxes, IsBoxes(boxes), NEW t
    PROVE  WithId(boxes, t) = Sum(Amounts(boxes), {x \in DOMAIN boxes : boxes[x].id = t})
<1> DEFINE D == DOMAIN boxes
           T == {x \in D : boxes[x].id = t}
           w == IdAmounts(boxes, t)
           v == Amounts(boxes)
<1>1. /\ IsFiniteSet(D)
      /\ \A x \in D : boxes[x].amount \in Int /\ v[x] = boxes[x].amount
      /\ \A x \in D : w[x] = (IF boxes[x].id = t THEN boxes[x].amount ELSE 0)
  BY BoxesAre
<1>2. /\ \A x \in D : w[x] \in Int
      /\ \A x \in T : w[x] = v[x]
      /\ \A x \in D \ T : w[x] = 0
  BY <1>1
<1>3. T \in SUBSET D /\ IsFiniteSet(T) /\ IsFiniteSet(D \ T)
  <2>1. T \in SUBSET D /\ D \ T \in SUBSET D
    OBVIOUS
  <2> HIDE DEF T, D
  <2> QED BY <1>1, <2>1, FS_Subset
<1> HIDE DEF w, v, T
<1>4. Sum(w, D) = Sum(w, T) + Sum(w, D \ T)
  BY <1>1, <1>2, <1>3, SumSplit
<1>5. Sum(w, T) = Sum(v, T)
  BY <1>2, <1>3, SumSame
<1>6. Sum(w, D \ T) = 0
  BY <1>2, <1>3, SumZero
<1>7. Sum(w, T) \in Int
  BY <1>1, <1>2, <1>3, SumInt
<1>8. WithId(boxes, t) = Sum(w, D)
  BY DEF WithId, w
<1> QED BY <1>4, <1>5, <1>6, <1>7, <1>8 DEF T, v
------------------------------------------------------------------------------
(* What the boxes of the booths hold of an NFT *)

BankIn(bs, b) == {bs[n].base_nft_contract : n \in {q \in DOMAIN bs : bs[q].id = b}}
KeysOf(bs, t, m) == {k \in DOMAIN t : t[k].id = m.id /\ m.bank \in BankIn(bs, k[1])}
BoxedIn(bs, t, m) == Sum(Amounts(t), KeysOf(bs, t, m))

\* The keys of an NFT in the boxes of other booths than b.
Elsewhere(bs, t, m, b) == {k \in KeysOf(bs, t, m) : k[1] # b}

\* No two booths share an id.
OwnIds(bs) ==
    /\ \A n \in DOMAIN bs : bs[n].id \in Nat
    /\ \A m, n \in DOMAIN bs : bs[m].id = bs[n].id => m = n

LEMMA KeyedRows ==
    ASSUME NEW t, Keyed(t)
    PROVE  /\ IsFiniteSet(DOMAIN t)
           /\ \A k \in DOMAIN t : /\ k = <<k[1], k[2]>> /\ k[1] \in Nat /\ k[2] \in Nat
                                  /\ t[k].id \in TokenIds /\ t[k].amount \in Int
                                  /\ Amounts(t)[k] = t[k].amount /\ Amounts(t)[k] \in Int
BY DEF Keyed, IsTable, BoxRow, Amounts

LEMMA BoxedSplits ==
    ASSUME NEW bs, NEW t, Keyed(t), OwnIds(bs), NEW n \in DOMAIN bs, NEW m
    PROVE  LET b == bs[n].id
               mine == IF m.bank = bs[n].base_nft_contract THEN WithId(BoxesIn(t, b), m.id) ELSE 0
               rest == Sum(Amounts(t), Elsewhere(bs, t, m, b))
           IN  mine \in Int /\ rest \in Int /\ BoxedIn(bs, t, m) = mine + rest
<1> DEFINE b == bs[n].id
           u == BoxesIn(t, b)
           K == KeysOf(bs, t, m)
           E == Elsewhere(bs, t, m, b)
           B == K \ E
           w == Amounts(t)
           v == Amounts(u)
           X == {x \in DOMAIN u : u[x].id = m.id}
           bank == bs[n].base_nft_contract
<1>1. b \in Nat /\ BankIn(bs, b) = {bank}
  BY DEF OwnIds, BankIn
<1>2. /\ DOMAIN u = {x \in Nat : <<b, x>> \in DOMAIN t}
      /\ \A x \in DOMAIN u : u[x] = t[<<b, x>>]
      /\ IsBoxes(u)
  BY <1>1, BoxesInAre
<1>3. /\ IsFiniteSet(DOMAIN t)
      /\ \A k \in DOMAIN t : /\ k = <<k[1], k[2]>> /\ k[1] \in Nat /\ k[2] \in Nat
                             /\ w[k] = t[k].amount /\ w[k] \in Int
  BY KeyedRows
<1>4. K \in SUBSET DOMAIN t /\ E \in SUBSET K /\ B \in SUBSET K
  BY DEF KeysOf, Elsewhere
<1>5. IsFiniteSet(K) /\ IsFiniteSet(B) /\ \A k \in K : w[k] \in Int
  <2> HIDE DEF K, E, B, w
  <2>1. IsFiniteSet(K)
    BY <1>3, <1>4, FS_Subset
  <2> QED BY <1>3, <1>4, <2>1, FS_Subset
<1>6. Sum(w, K) = Sum(w, E) + Sum(w, B) /\ Sum(w, E) \in Int /\ Sum(w, B) \in Int
  <2> HIDE DEF K, E, w
  <2>1. Sum(w, K) = Sum(w, E) + Sum(w, K \ E)
    BY <1>4, <1>5, SumSplit
  <2>2. Sum(w, E) \in Int /\ Sum(w, K \ E) \in Int
    BY <1>4, <1>5, SumInt
  <2> QED BY <2>1, <2>2
<1>7. CASE m.bank = bank
  <2>1. B = {<<b, x>> : x \in X}
    <3>1. ASSUME NEW k \in B PROVE k[2] \in X /\ k = <<b, k[2]>>
      <4>1. k \in DOMAIN t /\ k[1] = b /\ t[k].id = m.id
        BY DEF KeysOf, Elsewhere
      <4>2. k = <<b, k[2]>> /\ k[2] \in Nat
        BY <1>3, <4>1
      <4> HIDE DEF b, u
      <4> QED BY <1>2, <4>1, <4>2
    <3>2. ASSUME NEW x \in X PROVE <<b, x>> \in B
      <4>1. <<b, x>> \in DOMAIN t /\ t[<<b, x>>].id = m.id /\ <<b, x>>[1] = b
        BY <1>2
      <4> QED BY <1>1, <1>7, <4>1 DEF KeysOf, Elsewhere
    <3> HIDE DEF B, X, b
    <3> QED BY <3>1, <3>2
  <2>2. \A x \in X : w[<<b, x>>] \in Int /\ v[x] = w[<<b, x>>]
    <3>1. ASSUME NEW x \in X PROVE w[<<b, x>>] \in Int /\ v[x] = w[<<b, x>>]
      <4>1. x \in DOMAIN u /\ <<b, x>> \in DOMAIN t /\ u[x] = t[<<b, x>>]
        BY <1>2
      <4>2. v[x] = u[x].amount
        BY <4>1 DEF Amounts
      <4> QED BY <1>3, <4>1, <4>2
    <3> QED BY <3>1
  <2>3. IsFiniteSet(X)
    <3>1. X \in SUBSET DOMAIN u /\ IsFiniteSet(DOMAIN u)
      BY <1>2 DEF IsBoxes
    <3> HIDE DEF X, u
    <3> QED BY <3>1, FS_Subset
  <2>4. Sum(v, X) = Sum(w, B)
    <3> HIDE DEF v, X, w, B, b
    <3>1. Indexes(X, b, B, w, v)
      BY <2>1, <2>2 DEF Indexes
    <3> QED BY <1>5, <2>3, <3>1, SumKeys
  <2>5. WithId(u, m.id) = Sum(v, X)
    BY <1>2, WithIdIs
  <2> HIDE DEF K, E, B, u, w, X, b
  <2>6. BoxedIn(bs, t, m) = Sum(w, K)
    BY DEF BoxedIn, K, w
  <2> QED BY <1>6, <1>7, <2>4, <2>5, <2>6 DEF b, u, w, E
<1>8. CASE m.bank # bank
  <2>1. B = {}
    <3>1. ASSUME NEW k \in B PROVE FALSE
      <4>1. k[1] = b /\ m.bank \in BankIn(bs, k[1])
        BY DEF KeysOf, Elsewhere
      <4> QED BY <1>1, <1>8, <4>1
    <3> HIDE DEF B
    <3> QED BY <3>1
  <2>2. Sum(w, B) = 0
    BY <2>1, SumEmpty
  <2> HIDE DEF K, E, B, w, b
  <2>3. BoxedIn(bs, t, m) = Sum(w, K)
    BY DEF BoxedIn, K, w
  <2> QED BY <1>6, <1>8, <2>2, <2>3 DEF b, w, E
<1> QED BY <1>7, <1>8

\* Only the row of booth n and its boxes change; its id and what it gives from stay.
OneMoves(bs, bs2, t, t2, n) ==
    /\ Keyed(t) /\ Keyed(t2) /\ OwnIds(bs) /\ n \in DOMAIN bs
    /\ DOMAIN bs2 = DOMAIN bs
    /\ \A q \in DOMAIN bs : q = n \/ bs2[q] = bs[q]
    /\ bs2[n].id = bs[n].id /\ bs2[n].base_nft_contract = bs[n].base_nft_contract
    /\ \A k \in DOMAIN t \cup DOMAIN t2 :
          k[1] = bs[n].id \/ (k \in DOMAIN t /\ k \in DOMAIN t2 /\ t2[k] = t[k])

LEMMA OthersStay ==
    ASSUME NEW bs, NEW bs2, NEW t, NEW t2, NEW n, OneMoves(bs, bs2, t, t2, n),
           NEW q \in DOMAIN bs, q # n
    PROVE  bs2[q] = bs[q] /\ BoxesIn(t2, bs[q].id) = BoxesIn(t, bs[q].id)
<1> DEFINE b == bs[q].id
<1>1. b \in Nat /\ b # bs[n].id /\ bs2[q] = bs[q] /\ Keyed(t) /\ Keyed(t2)
  BY DEF OneMoves, OwnIds
<1>2. \A k \in DOMAIN t \cup DOMAIN t2 :
          k[1] = bs[n].id \/ (k \in DOMAIN t /\ k \in DOMAIN t2 /\ t2[k] = t[k])
  BY DEF OneMoves
<1> HIDE DEF b
<1>3. \A x \in Nat : <<b, x>>[1] # bs[n].id
  BY <1>1
<1>4. /\ \A x \in Nat : <<b, x>> \in DOMAIN t <=> <<b, x>> \in DOMAIN t2
      /\ \A x \in Nat : <<b, x>> \in DOMAIN t => t2[<<b, x>>] = t[<<b, x>>]
  BY <1>2, <1>3
<1>5. BoxesIn(t2, b) = BoxesIn(t, b)
  BY <1>1, <1>4, Unmoved
<1> QED BY <1>1, <1>5 DEF b

LEMMA BoxedMoves ==
    ASSUME NEW bs, NEW bs2, NEW t, NEW t2, NEW n, OneMoves(bs, bs2, t, t2, n), NEW m
    PROVE  LET b == bs[n].id
           IN  /\ BoxedIn(bs, t, m) \in Int
               /\ WithId(BoxesIn(t, b), m.id) \in Int /\ WithId(BoxesIn(t2, b), m.id) \in Int
               /\ BoxedIn(bs2, t2, m) = BoxedIn(bs, t, m)
                      + (IF m.bank = bs[n].base_nft_contract
                         THEN WithId(BoxesIn(t2, b), m.id) - WithId(BoxesIn(t, b), m.id) ELSE 0)
<1> DEFINE b == bs[n].id
           bank == bs[n].base_nft_contract
           E == Elsewhere(bs, t, m, b)
           E2 == Elsewhere(bs2, t2, m, b)
<1>1. /\ Keyed(t) /\ Keyed(t2) /\ OwnIds(bs) /\ n \in DOMAIN bs /\ DOMAIN bs2 = DOMAIN bs
      /\ \A q \in DOMAIN bs : bs2[q].id = bs[q].id
                              /\ bs2[q].base_nft_contract = bs[q].base_nft_contract
      /\ \A k \in DOMAIN t \cup DOMAIN t2 :
            k[1] = b \/ (k \in DOMAIN t /\ k \in DOMAIN t2 /\ t2[k] = t[k])
  BY DEF OneMoves
<1>2. OwnIds(bs2) /\ bs2[n].id = b /\ bs2[n].base_nft_contract = bank /\ b \in Nat
  BY <1>1 DEF OwnIds
<1>3. \A c : BankIn(bs2, c) = BankIn(bs, c)
  BY <1>1 DEF BankIn
<1>4. E2 = E /\ \A k \in E : t2[k] = t[k] /\ k \in DOMAIN t /\ k \in DOMAIN t2
  BY <1>1, <1>3 DEF Elsewhere, KeysOf
<1>5. Sum(Amounts(t2), E) = Sum(Amounts(t), E)
  <2>1. \A k \in E : Amounts(t2)[k] = Amounts(t)[k]
    BY <1>4 DEF Amounts
  <2>2. E \in SUBSET DOMAIN t /\ IsFiniteSet(DOMAIN t)
    BY <1>1, <1>4 DEF Keyed
  <2> HIDE DEF E
  <2> QED BY <2>1, <2>2, FS_Subset, SumSame
<1>6. ASSUME NEW u, IsBoxes(u) PROVE WithId(u, m.id) \in Int
  <2>1. \A x \in DOMAIN u : IdAmounts(u, m.id)[x] \in Int
    BY <1>6, BoxesAre
  <2>2. IsFiniteSet(DOMAIN u)
    BY <1>6, BoxesAre
  <2> QED BY <2>1, <2>2, SumInt DEF WithId
<1>7. WithId(BoxesIn(t, b), m.id) \in Int /\ WithId(BoxesIn(t2, b), m.id) \in Int
  BY <1>1, <1>2, <1>6, BoxesInAre
<1>8. LET mine == IF m.bank = bank THEN WithId(BoxesIn(t, b), m.id) ELSE 0
          rest == Sum(Amounts(t), E)
      IN  mine \in Int /\ rest \in Int /\ BoxedIn(bs, t, m) = mine + rest
  BY <1>1, BoxedSplits
<1>9. LET mine == IF m.bank = bank THEN WithId(BoxesIn(t2, b), m.id) ELSE 0
          rest == Sum(Amounts(t2), E2)
      IN  mine \in Int /\ rest \in Int /\ BoxedIn(bs2, t2, m) = mine + rest
  BY <1>1, <1>2, BoxedSplits
<1>10. CASE m.bank = bank
  <2>1. BoxedIn(bs, t, m) = WithId(BoxesIn(t, b), m.id) + Sum(Amounts(t), E)
        /\ Sum(Amounts(t), E) \in Int
    BY <1>8, <1>10
  <2>2. BoxedIn(bs2, t2, m) = WithId(BoxesIn(t2, b), m.id) + Sum(Amounts(t), E)
    BY <1>4, <1>5, <1>9, <1>10
  <2> HIDE DEF E, b
  <2> QED BY <1>7, <1>10, <2>1, <2>2 DEF b
<1>11. CASE m.bank # bank
  <2>1. BoxedIn(bs, t, m) = 0 + Sum(Amounts(t), E) /\ Sum(Amounts(t), E) \in Int
    BY <1>8, <1>11
  <2>2. BoxedIn(bs2, t2, m) = 0 + Sum(Amounts(t), E)
    BY <1>4, <1>5, <1>9, <1>11
  <2> HIDE DEF E, b
  <2> QED BY <1>7, <1>11, <2>1, <2>2 DEF b
<1> QED BY <1>10, <1>11
------------------------------------------------------------------------------
(* The invariant *)

\* The row of a booth agrees with its boxes, which are none of them empty, and each of an
\* NFT of its own and under an id below the number of boxes ever made.
Sound(row, boxes) ==
    /\ AllAmounts(boxes) = row.base_nft_num
    /\ Cardinality(DOMAIN boxes) = row.base_nftbox_num
    /\ \A x \in DOMAIN boxes : boxes[x].amount > 0 /\ x < row.base_nftbox_sum
    /\ \A x, y \in DOMAIN boxes : boxes[x].id = boxes[y].id => x = y
    /\ \A x \in DOMAIN boxes : \E m \in Nfts : m.bank = row.base_nft_contract /\ m.id = boxes[x].id
    /\ row.base_nft_num <= row.base_nft_sum /\ row.base_nftbox_num <= row.base_nftbox_sum
    /\ row.quote_nft_recd = row.price * (row.base_nft_sum - row.base_nft_num)

AllSound(bs, t, tt) == \A n \in DOMAIN bs : bs[n].id \notin tt => Sound(bs[n], BoxesIn(t, bs[n].id))

Recd(bs, m) == IF m \in DOMAIN bs THEN bs[m].quote_nft_recd ELSE 0

Custody(bs, t, h, kp) == \A m \in Nfts : h[m] >= kp[m] + Recd(bs, m) + BoxedIn(bs, t, m)

Typed ==
    /\ admin \in Users \cup {Nobody}
    /\ last_booth_id \in 0 .. MaxBooths
    /\ IsTable(booths, Quotes, BoothRow)
    /\ \A m, n \in DOMAIN booths : booths[m].id = booths[n].id => m = n
    /\ \A n \in DOMAIN booths : booths[n].id <= last_booth_id
    /\ IsFiniteSet(DOMAIN boothboxes)
    /\ IsTable(boothboxes, (1 .. last_booth_id) \X Nat, BoxRow)
    /\ nft \in [Accounts -> [Nfts -> Nat]]
    /\ now \in Nat /\ touched \subseteq BoothIds /\ kept \in [Nfts -> Nat]

SwapInv ==
    /\ Typed
    /\ AllSound(booths, boothboxes, touched)
    /\ touched = {} => Custody(booths, boothboxes, nft[Swap], kept)

LEMMA TypedTables == ASSUME Typed PROVE Keyed(boothboxes) /\ OwnIds(booths)
<1>1. Keyed(boothboxes)
  <2>1. (1 .. last_booth_id) \X Nat \subseteq Nat \X Nat
    BY DEF Typed
  <2>2. IsFiniteSet(DOMAIN boothboxes) /\ IsTable(boothboxes, (1 .. last_booth_id) \X Nat, BoxRow)
    BY DEF Typed
  <2> QED BY <2>1, <2>2, WidenTable DEF Keyed
<1>2. OwnIds(booths)
  BY SwapInputs DEF Typed, OwnIds, IsTable, BoothRow, BoothIds
<1> QED BY <1>1, <1>2

LEMMA SwapInvTypes == SwapInv => TypeOK
<1> SUFFICES ASSUME SwapInv PROVE TypeOK
  OBVIOUS
<1>1. \A n \in Intact : /\ booths[n].base_nft_num <= booths[n].base_nft_sum
                        /\ booths[n].base_nftbox_num <= booths[n].base_nftbox_sum
  BY DEF SwapInv, AllSound, Intact, Sound
<1> QED BY <1>1 DEF SwapInv, Typed, TypeOK

\* The boxes of the invariant are those of the module.
LEMMA BoxesAreIn == \A b : Boxes(b) = BoxesIn(boothboxes, b) /\ BoxIds(b) = DOMAIN BoxesIn(boothboxes, b)
BY DEF Boxes, BoxIds, BoxesIn

LEMMA SwapInvCounters == SwapInv => CountersMatchBoxes /\ RateKept /\ EveryBoxCanBeDrawn
<1> SUFFICES ASSUME SwapInv PROVE CountersMatchBoxes /\ RateKept /\ EveryBoxCanBeDrawn
  OBVIOUS
<1>1. ASSUME NEW n \in Intact
      PROVE  LET b == booths[n].id
                 many == booths[n].base_nftbox_num >= MAX_LOWER_BOUND
                 range == IF many THEN booths[n].base_nftbox_sum ELSE booths[n].base_nft_num
             IN  /\ booths[n].base_nft_num = SumFunction(Amounts(Boxes(b)))
                 /\ booths[n].base_nftbox_num = Cardinality(BoxIds(b))
                 /\ \A x \in BoxIds(b) : /\ boothboxes[<<b, x>>].amount > 0
                                         /\ BoxWith(b, boothboxes[<<b, x>>].id) = {x}
                 /\ \A x \in BoxIds(b) :
                       \E r \in 1 .. range : Pick(Boxes(b), many, r) = {x}
  <2> DEFINE b == booths[n].id
             row == booths[n]
             boxes == BoxesIn(boothboxes, b)
             many == row.base_nftbox_num >= MAX_LOWER_BOUND
  <2>1. Sound(row, boxes)
    BY DEF SwapInv, AllSound, Intact
  <2>2. Keyed(boothboxes) /\ b \in Nat /\ row \in BoothRow
    BY TypedTables DEF SwapInv, Typed, IsTable, OwnIds, Intact
  <2>3. /\ DOMAIN boxes = {x \in Nat : <<b, x>> \in DOMAIN boothboxes}
        /\ \A x \in DOMAIN boxes : boxes[x] = boothboxes[<<b, x>>]
        /\ IsBoxes(boxes)
    BY <2>2, BoxesInAre
  <2>4. Boxes(b) = boxes /\ BoxIds(b) = DOMAIN boxes
    BY BoxesAreIn
  <2>5. SumFunction(Amounts(boxes)) = row.base_nft_num
    BY <2>1, SumFunctionIsSum DEF Sound, AllAmounts, Amounts
  <2>6. ASSUME NEW x \in DOMAIN boxes
        PROVE  /\ boothboxes[<<b, x>>].amount > 0
               /\ BoxWith(b, boothboxes[<<b, x>>].id) = {x}
    BY <2>1, <2>3, <2>4 DEF Sound, BoxWith
  <2>7. ASSUME NEW x \in DOMAIN boxes
        PROVE  \E r \in 1 .. (IF many THEN row.base_nftbox_sum ELSE row.base_nft_num) :
                   Pick(boxes, many, r) = {x}
    <3> DEFINE num == row.base_nft_num
               sum == row.base_nftbox_sum
    <3>1. num \in Nat /\ sum \in Nat
      BY <2>2 DEF BoothRow
    <3>2. \A y \in DOMAIN boxes : boxes[y].amount > 0
      BY <2>1 DEF Sound
    <3>3. \A y \in DOMAIN boxes : y < sum
      BY <2>1 DEF Sound
    <3>4. AllAmounts(boxes) = num
      BY <2>1 DEF Sound
    <3>5. many \in BOOLEAN /\ IsBoxes(boxes)
      BY <2>3
    <3> HIDE DEF boxes, many, num, sum
    <3>6. \E r \in 1 .. (IF many THEN sum ELSE num) : Pick(boxes, many, r) = {x}
      BY <3>1, <3>2, <3>3, <3>4, <3>5, BoxReached
    <3> QED BY <3>6 DEF num, sum
  <2>8. Cardinality(DOMAIN boxes) = row.base_nftbox_num
    BY <2>1 DEF Sound
  <2> QED BY <2>4, <2>5, <2>6, <2>7, <2>8
<1>2. RateKept
  BY DEF SwapInv, AllSound, Intact, Sound, RateKept
<1> QED BY <1>1, <1>2 DEF CountersMatchBoxes, EveryBoxCanBeDrawn

LEMMA SwapInvHolds == SwapInv => SwapHolds
<1>1. ASSUME NEW m
      PROVE  BoxedIn(booths, boothboxes, m)
                 = InBoxes({k \in DOMAIN boothboxes :
                               boothboxes[k].id = m.id /\ m.bank \in BankOf(k[1])})
  BY DEF BoxedIn, InBoxes, Sum, KeysOf, BankIn, BankOf
<1> QED BY <1>1 DEF SwapInv, Custody, Recd, SwapHolds
------------------------------------------------------------------------------
(* The steps *)

\* As long as this holds nothing wraps: the counters of intact booths are in uint64_t.
CountersFit ==
    \A n \in Intact : booths[n].base_nft_num <= UintMax /\ booths[n].base_nftbox_num <= UintMax

LEMMA InitInv == Init => SwapInv
<1> SUFFICES ASSUME Init PROVE SwapInv
  OBVIOUS
<1>1. DOMAIN booths = {} /\ DOMAIN boothboxes = {} /\ touched = {} /\ nft = FirstNfts
      /\ kept = [n \in Nfts |-> 0] /\ last_booth_id = 0 /\ now = 0 /\ admin = Nobody
  BY DEF Init, EmptyTable
<1>2. IsFiniteSet(DOMAIN boothboxes)
  BY <1>1, FS_EmptySet
<1>3. Typed
  BY <1>1, <1>2, SwapInputs DEF Typed, IsTable
<1>4. AllSound(booths, boothboxes, touched)
  BY <1>1 DEF AllSound
<1>5. ASSUME NEW m \in Nfts
      PROVE  nft[Swap][m] >= kept[m] + Recd(booths, m) + BoxedIn(booths, boothboxes, m)
  <2>1. KeysOf(booths, boothboxes, m) = {}
    BY <1>1 DEF KeysOf
  <2>2. BoxedIn(booths, boothboxes, m) = 0
    BY <2>1, SumEmpty DEF BoxedIn
  <2>3. Recd(booths, m) = 0 /\ kept[m] = 0
    BY <1>1 DEF Recd
  <2>4. nft[Swap][m] \in Nat
    BY <1>1, SwapInputs DEF Accounts
  <2> QED BY <2>2, <2>3, <2>4
<1> QED BY <1>3, <1>4, <1>5 DEF SwapInv, Custody

\* Rows that agree in all that the invariant looks at.
SameRow(r, s) ==
    /\ s.id = r.id /\ s.base_nft_contract = r.base_nft_contract /\ s.price = r.price
    /\ s.base_nft_sum = r.base_nft_sum /\ s.base_nft_num = r.base_nft_num
    /\ s.base_nftbox_sum = r.base_nftbox_sum /\ s.base_nftbox_num = r.base_nftbox_num
    /\ s.quote_nft_recd = r.quote_nft_recd

SameRows(bs, bs2) == DOMAIN bs2 = DOMAIN bs /\ \A n \in DOMAIN bs : SameRow(bs[n], bs2[n])

LEMMA SameInv ==
    ASSUME SwapInv, Typed', SameRows(booths, booths'), boothboxes' = boothboxes,
           touched' = touched, nft' = nft, kept' = kept
    PROVE  SwapInv'
<1>1. \A n \in DOMAIN booths' : n \in DOMAIN booths /\ SameRow(booths[n], booths'[n])
  BY DEF SameRows
<1>2. AllSound(booths', boothboxes', touched')
  <2>1. ASSUME NEW n \in DOMAIN booths', booths'[n].id \notin touched'
        PROVE  Sound(booths'[n], BoxesIn(boothboxes', booths'[n].id))
    <3>1. n \in DOMAIN booths /\ SameRow(booths[n], booths'[n])
      BY <1>1
    <3>2. booths[n].id \notin touched /\ booths'[n].id = booths[n].id
      BY <2>1, <3>1 DEF SameRow
    <3>3. Sound(booths[n], BoxesIn(boothboxes, booths[n].id))
      BY <3>1, <3>2 DEF SwapInv, AllSound
    <3> DEFINE boxes == BoxesIn(boothboxes, booths[n].id)
    <3> HIDE DEF boxes
    <3>4. Sound(booths'[n], boxes)
      BY <3>1, <3>3 DEF Sound, SameRow, boxes
    <3> QED BY <3>2, <3>4 DEF boxes
  <2> QED BY <2>1 DEF AllSound
<1>3. ASSUME touched' = {} PROVE Custody(booths', boothboxes', nft'[Swap], kept')
  <2>1. Custody(booths, boothboxes, nft[Swap], kept)
    BY <1>3 DEF SwapInv
  <2>2. \A c : BankIn(booths', c) = BankIn(booths, c)
    BY <1>1 DEF BankIn, SameRow, SameRows
  <2>3. \A m : BoxedIn(booths', boothboxes', m) = BoxedIn(booths, boothboxes, m)
    BY <2>2 DEF BoxedIn, KeysOf
  <2>4. \A m : Recd(booths', m) = Recd(booths, m)
    BY <1>1 DEF Recd, SameRow, SameRows
  <2> QED BY <2>1, <2>3, <2>4 DEF Custody
<1> QED BY <1>2, <1>3 DEF SwapInv

LEMMA RowChanges ==
    ASSUME SwapInv, NEW n \in DOMAIN booths, NEW r \in BoothRow, r.id = booths[n].id,
           booths' = [booths EXCEPT ![n] = r],
           UNCHANGED <<admin, last_booth_id, boothboxes, nft, now, kept>>
    PROVE  touched' \subseteq BoothIds => Typed'
BY DEF SwapInv, Typed, IsTable

LEMMA QuietInv ==
    ASSUME SwapInv,
           \/ \E a \in Admins : init(a)
           \/ \E n \in Quotes, s \in {"enabled", "disabled"} : enablebooth(n, s)
           \/ \E n \in Quotes, t \in Times : setboothtime(n, t[1], t[2])
           \/ Tick \/ UNCHANGED vars
    PROVE  SwapInv'
<1>0. SameRows(booths, booths)
  BY DEF SameRows, SameRow
<1>1. CASE \E a \in Admins : init(a)
  <2>1. admin' \in Users /\ UNCHANGED <<last_booth_id, booths, boothboxes, nft, now, touched, kept>>
    BY <1>1, SwapAccounts DEF init
  <2>2. Typed'
    BY <2>1 DEF SwapInv, Typed
  <2> QED BY <1>0, <2>1, <2>2, SameInv
<1>2. ASSUME NEW n \in Quotes, NEW s \in {"enabled", "disabled"}, enablebooth(n, s) PROVE SwapInv'
  <2> DEFINE r == [booths[n] EXCEPT !.status = s]
  <2>1. /\ n \in DOMAIN booths /\ booths' = [booths EXCEPT ![n] = r]
        /\ UNCHANGED <<admin, last_booth_id, boothboxes, nft, now, touched, kept>>
    BY <1>2 DEF enablebooth
  <2>2. booths[n] \in BoothRow /\ touched \subseteq BoothIds
    BY <2>1 DEF SwapInv, Typed, IsTable
  <2>3. r \in BoothRow /\ SameRow(booths[n], r)
    BY <2>2 DEF BoothRow, SameRow
  <2>4. r.id = booths[n].id
    BY <2>3 DEF SameRow
  <2> HIDE DEF r
  <2>5. Typed'
    BY <2>1, <2>2, <2>3, <2>4, RowChanges
  <2>6. SameRows(booths, booths')
    BY <2>1, <2>3 DEF SameRows, SameRow
  <2> QED BY <2>1, <2>5, <2>6, SameInv
<1>3. ASSUME NEW n \in Quotes, NEW t \in Times, setboothtime(n, t[1], t[2]) PROVE SwapInv'
  <2> DEFINE r == [booths[n] EXCEPT !.opened_at = t[1], !.closed_at = t[2]]
  <2>1. /\ n \in DOMAIN booths /\ booths' = [booths EXCEPT ![n] = r]
        /\ UNCHANGED <<admin, last_booth_id, boothboxes, nft, now, touched, kept>>
    BY <1>3 DEF setboothtime
  <2>2. booths[n] \in BoothRow /\ touched \subseteq BoothIds
    BY <2>1 DEF SwapInv, Typed, IsTable
  <2>3. t[1] \in Nat /\ t[2] \in Nat
    BY SwapInputs
  <2>4. r \in BoothRow /\ SameRow(booths[n], r)
    BY <2>2, <2>3 DEF BoothRow, SameRow
  <2>5. r.id = booths[n].id
    BY <2>4 DEF SameRow
  <2> HIDE DEF r
  <2>6. Typed'
    BY <2>1, <2>2, <2>4, <2>5, RowChanges
  <2>7. SameRows(booths, booths')
    BY <2>1, <2>4 DEF SameRows, SameRow
  <2> QED BY <2>1, <2>6, <2>7, SameInv
<1>4. CASE Tick \/ UNCHANGED vars
  <2>1. now' \in Nat /\ UNCHANGED <<admin, last_booth_id, booths, boothboxes, nft, touched, kept>>
    BY <1>4 DEF Tick, vars, SwapInv, Typed
  <2>2. Typed'
    BY <2>1 DEF SwapInv, Typed
  <2> QED BY <1>0, <2>1, <2>2, SameInv
<1> QED BY <1>1, <1>2, <1>3, <1>4

\* A booth that is new has no boxes: its id is above those in use.
LEMMA CreateInv ==
    ASSUME SwapInv, NEW u \in Owners, NEW bank \in BaseBanks, NEW n \in Quotes, NEW p \in Prices,
           NEW t \in Times, createbooth(u, bank, n, p, t[1], t[2])
    PROVE  SwapInv'
<1>1. PICK left \in Leftovers :
         /\ booths' = Emplace(booths, n,
                [id |-> NewBoothId(n), owner |-> u, base_nft_contract |-> bank,
                 price |-> p, opened_at |-> t[1], closed_at |-> t[2],
                 base_nft_sum |-> left.sum, base_nft_num |-> left.num,
                 base_nftbox_sum |-> left.boxsum, base_nftbox_num |-> left.boxnum,
                 quote_nft_recd |-> 0, status |-> "enabled"])
         /\ touched' = IF \A f \in DOMAIN left : left[f] = 0 THEN touched
                       ELSE touched \cup {NewBoothId(n)}
  BY DEF createbooth
<1> DEFINE b == last_booth_id + 1
           r == booths'[n]
<1>2. /\ n \notin DOMAIN booths /\ last_booth_id < MaxBooths /\ last_booth_id' = b
      /\ UNCHANGED <<admin, boothboxes, nft, now, kept>>
  BY DEF createbooth
<1>3. Typed /\ Keyed(boothboxes) /\ OwnIds(booths) /\ last_booth_id \in Nat /\ MaxBooths \in Nat
  BY TypedTables, SwapInputs DEF SwapInv, Typed
<1>4. /\ DOMAIN booths' = DOMAIN booths \cup {n}
      /\ \A q \in DOMAIN booths : booths'[q] = booths[q]
      /\ r = [id |-> b, owner |-> u, base_nft_contract |-> bank,
              price |-> p, opened_at |-> t[1], closed_at |-> t[2],
              base_nft_sum |-> left.sum, base_nft_num |-> left.num,
              base_nftbox_sum |-> left.boxsum, base_nftbox_num |-> left.boxnum,
              quote_nft_recd |-> 0, status |-> "enabled"]
  <2> DEFINE row == [id |-> b, owner |-> u, base_nft_contract |-> bank,
                     price |-> p, opened_at |-> t[1], closed_at |-> t[2],
                     base_nft_sum |-> left.sum, base_nft_num |-> left.num,
                     base_nftbox_sum |-> left.boxsum, base_nftbox_num |-> left.boxnum,
                     quote_nft_recd |-> 0, status |-> "enabled"]
  <2>1. booths' = Emplace(booths, n, row)
    BY <1>1 DEF NewBoothId
  <2> HIDE DEF row
  <2>2. /\ DOMAIN booths' = DOMAIN booths \cup {n}
        /\ \A q \in DOMAIN booths : q # n => booths'[q] = booths[q]
        /\ booths'[n] = row
    BY <2>1, <1>2 DEF Emplace
  <2> QED BY <1>2, <2>2 DEF row
<1>5. left \in [sum : Nat, num : Nat, boxsum : Nat, boxnum : Nat]
  BY SwapInputs
<1>6. r \in BoothRow /\ r.id = b /\ r.quote_nft_recd = 0
  <2>1. b \in BoothIds /\ t[1] \in Nat /\ t[2] \in Nat
    BY <1>2, <1>3, SwapInputs DEF BoothIds
  <2> HIDE DEF b
  <2> QED BY <1>4, <1>5, <2>1 DEF BoothRow
<1>7. touched' \subseteq BoothIds /\ (touched' = touched \/ touched' = touched \cup {b})
  <2>1. b \in BoothIds /\ touched \subseteq BoothIds
    BY <1>2, <1>3 DEF BoothIds, Typed
  <2> QED BY <1>1, <2>1 DEF NewBoothId
<1>8. \A q \in DOMAIN booths : booths[q].id # b /\ booths[q].id \in Nat
  BY <1>3 DEF Typed, OwnIds
<1>9. DOMAIN boothboxes \subseteq (1 .. last_booth_id) \X Nat
  BY <1>3 DEF Typed, IsTable
<1>10. Typed'
  <2>1. IsTable(booths', Quotes, BoothRow)
    BY <1>3, <1>4, <1>6 DEF Typed, IsTable
  <2>2. \A m, q \in DOMAIN booths' : booths'[m].id = booths'[q].id => m = q
    BY <1>3, <1>4, <1>6, <1>8 DEF Typed
  <2>3. \A q \in DOMAIN booths' : booths'[q].id <= last_booth_id'
    BY <1>2, <1>3, <1>4, <1>6, <1>8 DEF Typed
  <2>4. IsTable(boothboxes', (1 .. last_booth_id') \X Nat, BoxRow)
    <3>1. (1 .. last_booth_id) \X Nat \subseteq (1 .. last_booth_id') \X Nat
      BY <1>2, <1>3
    <3>2. IsTable(boothboxes, (1 .. last_booth_id) \X Nat, BoxRow)
      BY <1>3 DEF Typed
    <3> QED BY <1>2, <3>1, <3>2, WidenTable
  <2>5. last_booth_id' \in 0 .. MaxBooths
    BY <1>2, <1>3
  <2> QED BY <1>2, <1>3, <1>7, <2>1, <2>2, <2>3, <2>4, <2>5 DEF Typed
<1>11. BoxesIn(boothboxes, b) = BoxesIn(boothboxes, b) /\ DOMAIN BoxesIn(boothboxes, b) = {}
  <2>1. \A k \in DOMAIN boothboxes : k[1] # b
    BY <1>3, <1>9
  <2> HIDE DEF b
  <2> QED BY <2>1 DEF BoxesIn
<1>12. AllSound(booths', boothboxes', touched')
  <2>1. ASSUME NEW q \in DOMAIN booths', booths'[q].id \notin touched'
        PROVE  Sound(booths'[q], BoxesIn(boothboxes', booths'[q].id))
    <3>1. CASE q # n
      <4>1. q \in DOMAIN booths /\ booths'[q] = booths[q] /\ booths[q].id \notin touched
        BY <1>4, <1>7, <2>1, <3>1
      <4> QED BY <1>2, <4>1 DEF SwapInv, AllSound
    <3>2. CASE q = n
      <4>1. b \notin touched'
        BY <1>6, <2>1, <3>2
      <4>2. \A f \in DOMAIN left : left[f] = 0
        BY <1>1, <4>1 DEF NewBoothId
      <4>3. left.sum = 0 /\ left.num = 0 /\ left.boxsum = 0 /\ left.boxnum = 0
        BY <1>5, <4>2
      <4> DEFINE boxes == BoxesIn(boothboxes, b)
      <4>4. DOMAIN boxes = {}
        BY <1>11
      <4> HIDE DEF boxes
      <4>5. AllAmounts(boxes) = 0 /\ Cardinality(DOMAIN boxes) = 0
        BY <4>4, SumEmpty, FS_EmptySet DEF AllAmounts
      <4>6. /\ r.base_nft_num = 0 /\ r.base_nftbox_num = 0 /\ r.base_nft_sum = 0
            /\ r.base_nftbox_sum = 0 /\ r.price \in Nat
        BY <1>4, <4>3, SwapInputs
      <4>7. Sound(r, boxes)
        <5> HIDE DEF r
        <5> QED BY <1>6, <4>4, <4>5, <4>6 DEF Sound
      <4> QED BY <1>2, <1>6, <3>2, <4>7 DEF boxes
    <3> QED BY <3>1, <3>2
  <2> QED BY <2>1 DEF AllSound
<1>13. ASSUME touched' = {} PROVE Custody(booths', boothboxes', nft'[Swap], kept')
  <2>1. touched = {}
    BY <1>7, <1>13
  <2>2. Custody(booths, boothboxes, nft[Swap], kept)
    BY <2>1 DEF SwapInv
  <2>3. ASSUME NEW c, c # b PROVE BankIn(booths', c) = BankIn(booths, c)
    BY <1>4, <1>6, <2>3 DEF BankIn
  <2>4. \A k \in DOMAIN boothboxes : BankIn(booths', k[1]) = BankIn(booths, k[1])
    <3>1. \A k \in DOMAIN boothboxes : k[1] # b
      BY <1>3, <1>9
    <3> QED BY <2>3, <3>1
  <2>5. \A m : BoxedIn(booths', boothboxes', m) = BoxedIn(booths, boothboxes, m)
    BY <1>2, <2>4 DEF BoxedIn, KeysOf
  <2>6. \A m : Recd(booths', m) = Recd(booths, m)
    BY <1>2, <1>4, <1>6 DEF Recd
  <2> QED BY <1>2, <2>2, <2>5, <2>6 DEF Custody
<1> QED BY <1>10, <1>12, <1>13 DEF SwapInv

\* A booth that goes leaves its boxes, which then nobody counts, and what it received.
LEMMA CloseInv ==
    ASSUME SwapInv, NEW n \in Quotes, closebooth(n)
    PROVE  SwapInv'
<1>1. /\ n \in DOMAIN booths /\ booths' = Erase(booths, {n})
      /\ kept' = [kept EXCEPT ![n] = @ + booths[n].quote_nft_recd]
      /\ UNCHANGED <<admin, last_booth_id, boothboxes, nft, now, touched>>
  BY DEF closebooth
<1>2. Typed /\ Keyed(boothboxes) /\ OwnIds(booths)
  BY TypedTables DEF SwapInv
<1>3. /\ DOMAIN booths' = DOMAIN booths \ {n}
      /\ \A q \in DOMAIN booths' : booths'[q] = booths[q]
  BY <1>1 DEF Erase
<1>4. booths[n].quote_nft_recd \in Nat
  BY <1>1, <1>2 DEF Typed, IsTable, BoothRow
<1>5. /\ kept' \in [Nfts -> Nat]
      /\ \A m \in Nfts : kept'[m] = kept[m] + (IF m = n THEN booths[n].quote_nft_recd ELSE 0)
      /\ kept \in [Nfts -> Nat] /\ n \in Nfts
  <2>1. kept \in [Nfts -> Nat] /\ n \in Nfts
    BY <1>2, SwapInputs DEF Typed
  <2> QED BY <1>1, <1>4, <2>1
<1>6. Typed'
  BY <1>1, <1>2, <1>3, <1>5 DEF Typed, IsTable
<1>7. AllSound(booths', boothboxes', touched')
  BY <1>1, <1>3 DEF SwapInv, AllSound
<1>8. ASSUME touched' = {}, NEW m \in Nfts
      PROVE  nft'[Swap][m] >= kept'[m] + Recd(booths', m) + BoxedIn(booths', boothboxes', m)
  <2> DEFINE K == KeysOf(booths, boothboxes, m)
             K2 == KeysOf(booths', boothboxes, m)
             w == Amounts(boothboxes)
  <2>1. nft[Swap][m] >= kept[m] + Recd(booths, m) + BoxedIn(booths, boothboxes, m)
    BY <1>1, <1>8 DEF SwapInv, Custody
  <2>2. \A c : BankIn(booths', c) \subseteq BankIn(booths, c)
    BY <1>3 DEF BankIn
  <2>3. K2 \in SUBSET K /\ K \in SUBSET DOMAIN boothboxes
    BY <2>2 DEF KeysOf
  <2>4. ASSUME NEW k \in K PROVE w[k] \in Nat
    <3>1. k \in DOMAIN boothboxes /\ m.bank \in BankIn(booths, k[1])
      BY DEF KeysOf
    <3>2. PICK q \in DOMAIN booths : booths[q].id = k[1]
      BY <3>1 DEF BankIn
    <3>3. Sound(booths[q], BoxesIn(boothboxes, k[1]))
      BY <1>1, <1>8, <3>2 DEF SwapInv, AllSound
    <3>4. /\ k = <<k[1], k[2]>> /\ k[1] \in Nat /\ k[2] \in Nat
          /\ boothboxes[k].amount \in Int /\ w[k] = boothboxes[k].amount
      BY <1>2, <3>1, KeyedRows
    <3>5. /\ k[2] \in DOMAIN BoxesIn(boothboxes, k[1])
          /\ BoxesIn(boothboxes, k[1])[k[2]] = boothboxes[k]
      <4> DEFINE b == k[1]
                 x == k[2]
      <4>1. k = <<b, x>> /\ b \in Nat /\ x \in Nat /\ k \in DOMAIN boothboxes
        BY <3>1, <3>4
      <4> HIDE DEF b, x
      <4>2. /\ DOMAIN BoxesIn(boothboxes, b) = {y \in Nat : <<b, y>> \in DOMAIN boothboxes}
            /\ \A y \in DOMAIN BoxesIn(boothboxes, b) :
                  BoxesIn(boothboxes, b)[y] = boothboxes[<<b, y>>]
        BY <1>2, <4>1, BoxesInAre
      <4>3. x \in DOMAIN BoxesIn(boothboxes, b) /\ BoxesIn(boothboxes, b)[x] = boothboxes[k]
        BY <4>1, <4>2
      <4> QED BY <4>3 DEF b, x
    <3>6. BoxesIn(boothboxes, k[1])[k[2]].amount > 0
      BY <3>3, <3>5 DEF Sound
    <3> QED BY <3>4, <3>5, <3>6
  <2>5. IsFiniteSet(K)
    <3> HIDE DEF K
    <3>1. IsFiniteSet(DOMAIN boothboxes)
      BY <1>2 DEF Keyed
    <3> QED BY <2>3, <3>1, FS_Subset
  <2>6. Sum(w, K2) <= Sum(w, K) /\ Sum(w, K) \in Nat /\ Sum(w, K2) \in Nat
    <3> HIDE DEF K, K2, w
    <3>1. Sum(w, K2) <= Sum(w, K)
      BY <2>3, <2>4, <2>5, SumLe
    <3>2. \A T \in SUBSET K : Sum(w, T) \in Nat
      BY <2>4, <2>5, SumNat
    <3> QED BY <2>3, <3>1, <3>2
  <2>7. /\ BoxedIn(booths, boothboxes, m) = Sum(w, K)
        /\ BoxedIn(booths', boothboxes', m) = Sum(w, K2)
    BY <1>1 DEF BoxedIn
  <2>8. /\ Recd(booths, m) = Recd(booths', m) + (IF m = n THEN booths[n].quote_nft_recd ELSE 0)
        /\ Recd(booths', m) \in Nat
    <3>1. \A q \in DOMAIN booths : booths[q].quote_nft_recd \in Nat
      BY <1>2 DEF Typed, IsTable, BoothRow
    <3>2. CASE m = n
      <4>1. Recd(booths, m) = booths[n].quote_nft_recd /\ Recd(booths', m) = 0
        BY <1>1, <1>3, <3>2 DEF Recd
      <4> QED BY <1>4, <3>2, <4>1
    <3>3. CASE m # n /\ m \in DOMAIN booths
      <4>1. Recd(booths, m) = booths[m].quote_nft_recd /\ Recd(booths', m) = booths[m].quote_nft_recd
        BY <1>3, <3>3 DEF Recd
      <4> QED BY <3>1, <3>3, <4>1
    <3>4. CASE m # n /\ m \notin DOMAIN booths
      BY <1>3, <3>4 DEF Recd
    <3> QED BY <3>2, <3>3, <3>4
  <2>9. nft[Swap][m] \in Nat /\ kept[m] \in Nat /\ nft' = nft
    BY <1>1, <1>2 DEF Typed, Accounts
  <2>10. kept'[m] = kept[m] + (IF m = n THEN booths[n].quote_nft_recd ELSE 0)
    BY <1>5
  <2> DEFINE e == IF m = n THEN booths[n].quote_nft_recd ELSE 0
  <2>11. e \in Nat
    BY <1>4
  <2> HIDE DEF K, K2, w, e
  <2>12. kept'[m] + Recd(booths', m) = kept[m] + Recd(booths, m)
    BY <2>8, <2>9, <2>10, <2>11 DEF e
  <2>13. kept[m] + Recd(booths, m) \in Nat
    BY <2>8, <2>9, <2>11 DEF e
  <2> QED BY <2>1, <2>6, <2>7, <2>9, <2>12, <2>13
<1>9. touched' = {} => Custody(booths', boothboxes', nft'[Swap], kept')
  BY <1>8 DEF Custody
<1> QED BY <1>6, <1>7, <1>9 DEF SwapInv

\* A row set by hand takes its booth out of the account.
LEMMA MaintainInv ==
    ASSUME SwapInv, Maintain
    PROVE  SwapInv'
<1>1. Typed /\ Keyed(boothboxes) /\ OwnIds(booths)
  BY TypedTables DEF SwapInv
<1>2. ASSUME NEW k \in DOMAIN boothboxes, NEW i \in TokenIds, NEW a \in FixAmounts,
             fixbox(k[1], k[2], i, a)
      PROVE  SwapInv'
  <2>1. k = <<k[1], k[2]>> /\ k[1] \in BoothIds /\ k[2] \in Nat
    <3>1. k \in (1 .. last_booth_id) \X Nat /\ last_booth_id \in 0 .. MaxBooths /\ MaxBooths \in Nat
      BY <1>1, SwapInputs DEF Typed, IsTable
    <3> QED BY <3>1 DEF BoothIds
  <2>2. /\ boothboxes' = [boothboxes EXCEPT ![k] = [id |-> i, amount |-> a]]
        /\ touched' = touched \cup {k[1]}
        /\ UNCHANGED <<admin, last_booth_id, booths, nft, now, kept>>
    BY <1>2, <2>1 DEF fixbox
  <2>3. [id |-> i, amount |-> a] \in BoxRow
    BY SwapInputs DEF BoxRow
  <2>4. /\ DOMAIN boothboxes' = DOMAIN boothboxes
        /\ \A j \in DOMAIN boothboxes : j # k => boothboxes'[j] = boothboxes[j]
        /\ \A j \in DOMAIN boothboxes : boothboxes'[j] \in BoxRow
    BY <1>1, <2>2, <2>3 DEF Typed, IsTable
  <2>5. Typed'
    BY <1>1, <2>1, <2>2, <2>4 DEF Typed, IsTable
  <2>6. Keyed(boothboxes')
    BY <1>1, <2>4 DEF Keyed, IsTable
  <2>7. AllSound(booths', boothboxes', touched')
    <3>1. ASSUME NEW n \in DOMAIN booths', booths'[n].id \notin touched'
          PROVE  Sound(booths'[n], BoxesIn(boothboxes', booths'[n].id))
      <4> DEFINE b == booths[n].id
      <4>1. n \in DOMAIN booths /\ b \in Nat /\ b # k[1] /\ b \notin touched /\ booths' = booths
        BY <1>1, <2>2, <3>1 DEF OwnIds
      <4> HIDE DEF b
      <4>2. \A x \in Nat : <<b, x>> # k
        BY <4>1
      <4>3. /\ \A x \in Nat : <<b, x>> \in DOMAIN boothboxes <=> <<b, x>> \in DOMAIN boothboxes'
            /\ \A x \in Nat : <<b, x>> \in DOMAIN boothboxes => boothboxes'[<<b, x>>] = boothboxes[<<b, x>>]
        BY <2>4, <4>2
      <4>4. BoxesIn(boothboxes', b) = BoxesIn(boothboxes, b)
        BY <1>1, <2>6, <4>1, <4>3, Unmoved
      <4> QED BY <4>1, <4>4 DEF SwapInv, AllSound, b
    <3> QED BY <3>1 DEF AllSound
  <2> QED BY <2>2, <2>5, <2>7 DEF SwapInv
<1>3. ASSUME NEW n \in Quotes, NEW a \in FixAmounts, fixbooth(n, a) PROVE SwapInv'
  <2> DEFINE r == [booths[n] EXCEPT !.base_nft_num = a]
  <2>1. /\ n \in DOMAIN booths /\ booths' = [booths EXCEPT ![n] = r]
        /\ touched' = touched \cup {booths[n].id}
        /\ UNCHANGED <<admin, last_booth_id, boothboxes, nft, now, kept>>
    BY <1>3 DEF fixbooth
  <2>2. booths[n] \in BoothRow /\ touched \subseteq BoothIds /\ a \in Nat
    BY <1>1, <2>1, SwapInputs DEF Typed, IsTable
  <2>3. r \in BoothRow /\ r.id = booths[n].id /\ booths[n].id \in BoothIds
    BY <2>2 DEF BoothRow
  <2> HIDE DEF r
  <2>4. Typed'
    BY <2>1, <2>2, <2>3, RowChanges
  <2>5. AllSound(booths', boothboxes', touched')
    <3>1. ASSUME NEW q \in DOMAIN booths', booths'[q].id \notin touched'
          PROVE  Sound(booths'[q], BoxesIn(boothboxes', booths'[q].id))
      <4>1. q \in DOMAIN booths /\ q # n
        BY <2>1, <2>3, <3>1
      <4>2. booths'[q] = booths[q] /\ booths[q].id \notin touched
        BY <2>1, <3>1, <4>1
      <4> QED BY <2>1, <4>1, <4>2 DEF SwapInv, AllSound
    <3> QED BY <3>1 DEF AllSound
  <2> QED BY <2>1, <2>4, <2>5 DEF SwapInv
<1> QED BY <1>2, <1>3 DEF Maintain

\* One booth trades: its row and its boxes change, and the balances as they say.
Trades(n, r) ==
    /\ n \in DOMAIN booths /\ r \in BoothRow /\ booths' = [booths EXCEPT ![n] = r]
    /\ r.id = booths[n].id /\ r.base_nft_contract = booths[n].base_nft_contract
    /\ IsFiniteSet(DOMAIN boothboxes') /\ IsTable(boothboxes', (1 .. last_booth_id) \X Nat, BoxRow)
    /\ \A k \in DOMAIN boothboxes \cup DOMAIN boothboxes' :
          \/ k[1] = booths[n].id
          \/ k \in DOMAIN boothboxes /\ k \in DOMAIN boothboxes' /\ boothboxes'[k] = boothboxes[k]
    /\ nft' \in [Accounts -> [Nfts -> Nat]]
    /\ UNCHANGED <<admin, last_booth_id, now, touched, kept>>

Settled(n, r) ==
    LET u  == BoxesIn(boothboxes, booths[n].id)
        u2 == BoxesIn(boothboxes', booths[n].id)
    IN  \A m \in Nfts :
           nft'[Swap][m] = nft[Swap][m]
               + (IF m = n THEN r.quote_nft_recd - booths[n].quote_nft_recd ELSE 0)
               + (IF m.bank = r.base_nft_contract THEN WithId(u2, m.id) - WithId(u, m.id) ELSE 0)

LEMMA TradesInv ==
    ASSUME SwapInv, NEW n, NEW r, Trades(n, r), Settled(n, r),
           booths[n].id \notin touched => Sound(r, BoxesIn(boothboxes', booths[n].id))
    PROVE  SwapInv'
<1> DEFINE b == booths[n].id
<1>1. Typed /\ Keyed(boothboxes) /\ OwnIds(booths)
  BY TypedTables DEF SwapInv
<1>2. /\ n \in DOMAIN booths /\ n \in Quotes /\ r \in BoothRow /\ booths' = [booths EXCEPT ![n] = r]
      /\ r.id = b /\ r.base_nft_contract = booths[n].base_nft_contract
      /\ IsFiniteSet(DOMAIN boothboxes') /\ IsTable(boothboxes', (1 .. last_booth_id) \X Nat, BoxRow)
      /\ nft' \in [Accounts -> [Nfts -> Nat]]
      /\ UNCHANGED <<admin, last_booth_id, now, touched, kept>>
  BY <1>1 DEF Trades, Typed, IsTable
<1>3. /\ DOMAIN booths' = DOMAIN booths /\ booths'[n] = r
      /\ \A q \in DOMAIN booths : q = n \/ booths'[q] = booths[q]
  BY <1>2
<1>4. Typed'
  <2>1. IsTable(booths', Quotes, BoothRow)
    BY <1>1, <1>2, <1>3 DEF Typed, IsTable
  <2>2. \A m, q \in DOMAIN booths' : booths'[m].id = booths'[q].id => m = q
    BY <1>1, <1>2, <1>3 DEF Typed
  <2>3. \A q \in DOMAIN booths' : booths'[q].id <= last_booth_id'
    BY <1>1, <1>2, <1>3 DEF Typed
  <2>4. /\ admin' \in Users \cup {Nobody} /\ last_booth_id' \in 0 .. MaxBooths
        /\ now' \in Nat /\ touched' \subseteq BoothIds /\ kept' \in [Nfts -> Nat]
    BY <1>1, <1>2 DEF Typed
  <2> QED BY <1>2, <2>1, <2>2, <2>3, <2>4 DEF Typed
<1>5. Keyed(boothboxes')
  <2>1. (1 .. last_booth_id) \X Nat \subseteq Nat \X Nat
    OBVIOUS
  <2> QED BY <1>2, <2>1, WidenTable DEF Keyed
<1>6. OneMoves(booths, booths', boothboxes, boothboxes', n)
  BY <1>1, <1>2, <1>3, <1>5 DEF OneMoves, Trades
<1>7. AllSound(booths', boothboxes', touched')
  <2>1. ASSUME NEW q \in DOMAIN booths', booths'[q].id \notin touched'
        PROVE  Sound(booths'[q], BoxesIn(boothboxes', booths'[q].id))
    <3>1. CASE q = n
      BY <1>2, <1>3, <2>1, <3>1
    <3>2. CASE q # n
      <4>1. q \in DOMAIN booths /\ booths'[q] = booths[q]
            /\ BoxesIn(boothboxes', booths[q].id) = BoxesIn(boothboxes, booths[q].id)
        BY <1>3, <1>6, <3>2, OthersStay
      <4>2. booths[q].id \notin touched
        BY <1>2, <2>1, <4>1
      <4> QED BY <4>1, <4>2 DEF SwapInv, AllSound
    <3> QED BY <3>1, <3>2
  <2> QED BY <2>1 DEF AllSound
<1>8. ASSUME touched' = {}, NEW m \in Nfts
      PROVE  nft'[Swap][m] >= kept'[m] + Recd(booths', m) + BoxedIn(booths', boothboxes', m)
  <2> DEFINE u == BoxesIn(boothboxes, b)
             u2 == BoxesIn(boothboxes', b)
             e == IF m = n THEN r.quote_nft_recd - booths[n].quote_nft_recd ELSE 0
             f == IF m.bank = r.base_nft_contract THEN WithId(u2, m.id) - WithId(u, m.id) ELSE 0
  <2>1. nft[Swap][m] >= kept[m] + Recd(booths, m) + BoxedIn(booths, boothboxes, m)
    BY <1>2, <1>8 DEF SwapInv, Custody
  <2>2. nft'[Swap][m] = nft[Swap][m] + e + f
    BY DEF Settled
  <2>3. /\ BoxedIn(booths, boothboxes, m) \in Int
        /\ WithId(u, m.id) \in Int /\ WithId(u2, m.id) \in Int
        /\ BoxedIn(booths', boothboxes', m) = BoxedIn(booths, boothboxes, m)
               + (IF m.bank = booths[n].base_nft_contract
                  THEN WithId(u2, m.id) - WithId(u, m.id) ELSE 0)
    BY <1>6, BoxedMoves
  <2>4. f \in Int /\ BoxedIn(booths', boothboxes', m) = BoxedIn(booths, boothboxes, m) + f
    <3> HIDE DEF u, u2
    <3> QED BY <1>2, <2>3
  <2>5. r.quote_nft_recd \in Nat /\ \A q \in DOMAIN booths : booths[q].quote_nft_recd \in Nat
    BY <1>1, <1>2 DEF Typed, IsTable, BoothRow
  <2>6. e \in Int
    BY <1>2, <2>5
  <2>7. Recd(booths, m) \in Nat /\ Recd(booths', m) = Recd(booths, m) + e
    <3>1. CASE m = n
      <4>1. Recd(booths, m) = booths[n].quote_nft_recd /\ Recd(booths', m) = r.quote_nft_recd
        BY <1>2, <1>3, <3>1 DEF Recd
      <4> QED BY <1>2, <2>5, <3>1, <4>1
    <3>2. CASE m # n /\ m \in DOMAIN booths
      <4>1. Recd(booths, m) = booths[m].quote_nft_recd /\ Recd(booths', m) = booths[m].quote_nft_recd
        BY <1>3, <3>2 DEF Recd
      <4> QED BY <2>5, <3>2, <4>1
    <3>3. CASE m # n /\ m \notin DOMAIN booths
      BY <1>3, <3>3 DEF Recd
    <3> QED BY <3>1, <3>2, <3>3
  <2>8. nft[Swap][m] \in Nat /\ kept[m] \in Nat /\ kept'[m] = kept[m]
    BY <1>1, <1>2 DEF Typed, Accounts
  <2> HIDE DEF e, f
  <2> QED BY <2>1, <2>2, <2>3, <2>4, <2>6, <2>7, <2>8
<1>9. touched' = {} => Custody(booths', boothboxes', nft'[Swap], kept')
  BY <1>8 DEF Custody
<1> QED BY <1>4, <1>7, <1>9 DEF SwapInv

\* What there is of an NFT, and that a step makes and destroys none.
SupplyOf(h, m) == Sum([u \in Accounts |-> h[u][m]], Accounts)

NftsStay == IsFiniteSet(Accounts) => \A m \in Nfts : SupplyOf(nft', m) = SupplyOf(nft, m)

\* What u gains the contract loses, and no other user gains or loses anything.
Between(u) ==
    /\ \A m \in Nfts : nft'[u][m] - nft[u][m] = nft[Swap][m] - nft'[Swap][m]
    /\ \A v \in Users \ {u} : nft'[v] = nft[v]

\* What a transfer does to the NFTs of the contract.
LEMMA NftsMove ==
    ASSUME nft \in [Accounts -> [Nfts -> Nat]], NEW u \in Users, NEW n \in Nfts, NEW a \in Nat,
           NEW given, \A m \in DOMAIN given : given[m] \in Nat, NftMoves(u, n, a, given)
    PROVE  /\ nft' \in [Accounts -> [Nfts -> Nat]]
           /\ NftsStay /\ Between(u)
           /\ \A m \in Nfts :
                 nft'[Swap][m] = nft[Swap][m] + (IF m = n THEN a ELSE 0)
                                     - (IF m \in DOMAIN given THEN given[m] ELSE 0)
<1> DEFINE In(m)  == IF m = n THEN a ELSE 0
           Out(m) == IF m \in DOMAIN given THEN given[m] ELSE 0
           mine   == [m \in Nfts |-> nft[Swap][m] + In(m) - Out(m)]
           yours  == [m \in Nfts |-> nft[u][m] - In(m) + Out(m)]
<1>1. u \in Accounts /\ Swap \in Accounts /\ u # Swap
  BY SwapAccounts DEF Accounts
<1>2. /\ a <= nft[u][n]
      /\ \A m \in DOMAIN given : m \in Nfts /\ given[m] <= nft[Swap][m] + In(m)
      /\ nft' = [nft EXCEPT ![Swap] = mine, ![u] = yours]
  BY <1>1 DEF NftMoves
<1>3. \A m \in Nfts : nft[Swap][m] \in Nat /\ nft[u][m] \in Nat
  BY <1>1
<1>4. \A m \in Nfts : In(m) \in Nat /\ Out(m) \in Nat /\ In(m) <= nft[u][m]
                      /\ Out(m) <= nft[Swap][m] + In(m)
  BY <1>2, <1>3
<1>5. mine \in [Nfts -> Nat] /\ yours \in [Nfts -> Nat]
  <2>1. \A m \in Nfts : nft[Swap][m] + In(m) - Out(m) \in Nat /\ nft[u][m] - In(m) + Out(m) \in Nat
    <3> HIDE DEF In, Out
    <3> QED BY <1>3, <1>4
  <2> HIDE DEF In, Out
  <2> QED BY <2>1
<1>6. \A m \in Nfts : mine[m] = nft[Swap][m] + In(m) - Out(m)
  OBVIOUS
<1> HIDE DEF mine, yours
<1>7. nft' \in [Accounts -> [Nfts -> Nat]] /\ nft'[Swap] = mine
  BY <1>1, <1>2, <1>5
<1>8. nft'[u] = yours /\ \A w \in Accounts \ {u, Swap} : nft'[w] = nft[w]
  BY <1>1, <1>2
<1>9. ASSUME IsFiniteSet(Accounts), NEW m \in Nfts PROVE SupplyOf(nft', m) = SupplyOf(nft, m)
  <2> DEFINE v == [w \in Accounts |-> nft[w][m]]
             v2 == [w \in Accounts |-> nft'[w][m]]
  <2>1. \A w \in Accounts : v[w] \in Int /\ v2[w] \in Int
    BY <1>7
  <2>2. v2[u] + v2[Swap] = v[u] + v[Swap]
    <3>1. /\ v2[u] = nft[u][m] - In(m) + Out(m) /\ v2[Swap] = nft[Swap][m] + In(m) - Out(m)
          /\ v[u] = nft[u][m] /\ v[Swap] = nft[Swap][m]
      BY <1>1, <1>6, <1>7, <1>8 DEF yours
    <3> HIDE DEF In, Out, v, v2
    <3> QED BY <1>3, <1>4, <3>1
  <2>3. \A w \in Accounts \ {u, Swap} : v2[w] = v[w]
    BY <1>8
  <2> HIDE DEF v, v2
  <2>4. Sum(v2, Accounts) = Sum(v, Accounts)
    BY <1>1, <1>9, <2>1, <2>2, <2>3, SumMove
  <2> QED BY <2>4 DEF SupplyOf, v, v2
<1>10. Between(u)
  <2>1. ASSUME NEW m \in Nfts PROVE nft'[u][m] - nft[u][m] = nft[Swap][m] - nft'[Swap][m]
    <3>1. nft'[u][m] = nft[u][m] - In(m) + Out(m) /\ nft'[Swap][m] = nft[Swap][m] + In(m) - Out(m)
      BY <1>6, <1>7, <1>8 DEF yours
    <3> HIDE DEF In, Out
    <3> QED BY <1>3, <1>4, <3>1
  <2>2. \A v \in Users \ {u} : nft'[v] = nft[v]
    BY <1>8, SwapAccounts DEF Accounts
  <2> QED BY <2>1, <2>2 DEF Between
<1> QED BY <1>6, <1>7, <1>9, <1>10 DEF NftsStay

\* What a refuel and a swap are to the owner and the buyer: NFTs that go in and out of one
\* booth, on the terms it has.
Deals(from, n, r) ==
    /\ Trades(n, r) /\ Settled(n, r) /\ Between(from)
    /\ r.owner = booths[n].owner /\ r.price = booths[n].price

\* from fills the booth with what is its owner's.
Refuels(from, n, r) ==
    LET b == booths[n].id
    IN  /\ Deals(from, n, r) /\ booths[n].owner = from
        /\ r.quote_nft_recd = booths[n].quote_nft_recd
        /\ \A i : WithId(BoxesIn(boothboxes, b), i) <= WithId(BoxesIn(boothboxes', b), i)

\* from gives `amount` of n for what the boxes no longer have.
Swaps(from, n, amount, r) ==
    LET b == booths[n].id
    IN  /\ Deals(from, n, r) /\ amount \in 1 .. nft[from][n]
        /\ r.quote_nft_recd = booths[n].quote_nft_recd + amount
        /\ r.base_nft_sum = booths[n].base_nft_sum
        /\ \A i \in TokenIds :
              WithId(BoxesIn(boothboxes', b), i) <= WithId(BoxesIn(boothboxes, b), i)

\* Box x gets d NFTs of token id t: a new box, or the one that has them.
Fills(u, u2, x, t, d, new) ==
    /\ IsBoxes(u) /\ x \in Nat /\ t \in TokenIds /\ d \in Nat \ {0} /\ new \in {0, 1}
    /\ DOMAIN u2 = DOMAIN u \cup {x} /\ \A y \in DOMAIN u : y = x \/ u2[y] = u[y]
    /\ u2[x] \in BoxRow /\ u2[x].id = t
    /\ new = 1 => /\ x \notin DOMAIN u /\ u2[x].amount = d
                  /\ \A y \in DOMAIN u : u[y].id # t
    /\ new = 0 => x \in DOMAIN u /\ u[x].id = t /\ u2[x].amount = u[x].amount + d

LEMMA FillsSums ==
    ASSUME NEW u, NEW u2, NEW x, NEW t, NEW d, NEW new, Fills(u, u2, x, t, d, new)
    PROVE  /\ IsBoxes(u2)
           /\ AllAmounts(u) \in Int /\ AllAmounts(u2) = AllAmounts(u) + d
           /\ \A i : WithId(u, i) \in Int /\ WithId(u2, i) = WithId(u, i) + (IF i = t THEN d ELSE 0)
           /\ Cardinality(DOMAIN u2) = Cardinality(DOMAIN u) + new
<1>0. /\ IsBoxes(u) /\ x \in Nat /\ t \in TokenIds /\ d \in Nat \ {0} /\ new \in {0, 1}
      /\ DOMAIN u2 = DOMAIN u \cup {x} /\ \A y \in DOMAIN u : y = x \/ u2[y] = u[y]
      /\ u2[x] \in BoxRow /\ u2[x].id = t
      /\ new = 1 => /\ x \notin DOMAIN u /\ u2[x].amount = d
                    /\ \A y \in DOMAIN u : u[y].id # t
      /\ new = 0 => x \in DOMAIN u /\ u[x].id = t /\ u2[x].amount = u[x].amount + d
  BY DEF Fills
<1>1. IsBoxes(u2)
  <2>1. IsFiniteSet(DOMAIN u) /\ DOMAIN u \subseteq Nat /\ \A y \in DOMAIN u : u[y] \in BoxRow
    BY <1>0 DEF IsBoxes, IsTable
  <2>2. IsFiniteSet(DOMAIN u \cup {x})
    BY <2>1, FS_AddElement
  <2>3. \A y \in DOMAIN u2 : u2[y] \in BoxRow
    BY <1>0, <2>1
  <2> QED BY <1>0, <2>1, <2>2, <2>3 DEF IsBoxes, IsTable
<1>2. /\ IsFiniteSet(DOMAIN u)
      /\ \A y \in DOMAIN u : u[y].amount \in Int /\ Amounts(u)[y] = u[y].amount
      /\ \A i : \A y \in DOMAIN u : IdAmounts(u, i)[y] = (IF u[y].id = i THEN u[y].amount ELSE 0)
  BY <1>0, BoxesAre
<1>3. /\ IsFiniteSet(DOMAIN u2)
      /\ \A y \in DOMAIN u2 : u2[y].amount \in Int /\ Amounts(u2)[y] = u2[y].amount
      /\ \A i : \A y \in DOMAIN u2 :
            IdAmounts(u2, i)[y] = (IF u2[y].id = i THEN u2[y].amount ELSE 0)
  BY <1>1, BoxesAre
<1>4. /\ x \in DOMAIN u2 /\ (new = 0 => DOMAIN u = DOMAIN u2) /\ (new = 1 => DOMAIN u = DOMAIN u2 \ {x})
      /\ \A y \in DOMAIN u : y \in DOMAIN u2
  BY <1>0
<1>5. AllAmounts(u) \in Int /\ AllAmounts(u2) = AllAmounts(u) + d
  <2> DEFINE w == Amounts(u2)
             v == Amounts(u)
  <2>1. OneLess(w, DOMAIN u2, v, DOMAIN u, x, d)
    <3>1. \A y \in DOMAIN u2 : w[y] \in Int
      BY <1>3
    <3>2. DOMAIN u = DOMAIN u2 \/ (DOMAIN u = DOMAIN u2 \ {x} /\ d = w[x])
      BY <1>0, <1>3, <1>4
    <3>3. x \notin DOMAIN u \/ v[x] = w[x] - d
      BY <1>0, <1>2, <1>3, <1>4
    <3>4. \A y \in DOMAIN u : y = x \/ v[y] = w[y]
      BY <1>0, <1>2, <1>3, <1>4
    <3> HIDE DEF w, v
    <3> QED BY <1>0, <1>3, <1>4, <3>1, <3>2, <3>3, <3>4 DEF OneLess
  <2>2. Sum(w, DOMAIN u2) \in Int /\ Sum(v, DOMAIN u) = Sum(w, DOMAIN u2) - d
    BY <2>1, OneLessSum
  <2> HIDE DEF w, v
  <2>3. Sum(v, DOMAIN u) \in Int /\ Sum(w, DOMAIN u2) = Sum(v, DOMAIN u) + d
    BY <1>0, <2>2
  <2> QED BY <2>3 DEF AllAmounts, w, v
<1>6. ASSUME NEW i
      PROVE  WithId(u, i) \in Int /\ WithId(u2, i) = WithId(u, i) + (IF i = t THEN d ELSE 0)
  <2> DEFINE w == IdAmounts(u2, i)
             v == IdAmounts(u, i)
             e == IF i = t THEN d ELSE 0
  <2>1. OneLess(w, DOMAIN u2, v, DOMAIN u, x, e)
    <3>1. \A y \in DOMAIN u2 : w[y] \in Int
      BY <1>3
    <3>2. DOMAIN u = DOMAIN u2 \/ (DOMAIN u = DOMAIN u2 \ {x} /\ e = w[x])
      BY <1>0, <1>3, <1>4
    <3>3. x \notin DOMAIN u \/ v[x] = w[x] - e
      <4>1. SUFFICES ASSUME x \in DOMAIN u PROVE v[x] = w[x] - e
        OBVIOUS
      <4>2. new = 0 /\ u[x].id = t /\ u2[x].amount = u[x].amount + d /\ u2[x].id = t
        BY <1>0, <4>1
      <4>3. /\ v[x] = (IF u[x].id = i THEN u[x].amount ELSE 0)
            /\ w[x] = (IF u2[x].id = i THEN u2[x].amount ELSE 0) /\ u[x].amount \in Int
        BY <1>2, <1>3, <1>4, <4>1
      <4> HIDE DEF w, v
      <4> QED BY <1>0, <4>2, <4>3
    <3>4. \A y \in DOMAIN u : y = x \/ v[y] = w[y]
      BY <1>0, <1>2, <1>3, <1>4
    <3>5. e \in Int
      BY <1>0
    <3> HIDE DEF w, v, e
    <3> QED BY <1>3, <1>4, <3>1, <3>2, <3>3, <3>4, <3>5 DEF OneLess
  <2>2. Sum(w, DOMAIN u2) \in Int /\ Sum(v, DOMAIN u) = Sum(w, DOMAIN u2) - e
    BY <2>1, OneLessSum
  <2>3. e \in Int
    BY <1>0
  <2> HIDE DEF w, v, e
  <2>4. Sum(v, DOMAIN u) \in Int /\ Sum(w, DOMAIN u2) = Sum(v, DOMAIN u) + e
    BY <2>2, <2>3
  <2> QED BY <2>4 DEF WithId, w, v, e
<1>7. Cardinality(DOMAIN u2) = Cardinality(DOMAIN u) + new
  <2>1. Cardinality(DOMAIN u) \in Nat
    BY <1>2, FS_CardinalityType
  <2>2. CASE new = 1
    <3>1. x \notin DOMAIN u
      BY <1>0, <2>2
    <3>2. Cardinality(DOMAIN u \cup {x}) = Cardinality(DOMAIN u) + 1
      BY <1>2, <3>1, FS_AddElement
    <3> QED BY <1>0, <2>2, <3>2
  <2>3. CASE new = 0
    BY <1>4, <2>1, <2>3
  <2> QED BY <1>0, <2>2, <2>3
<1> QED BY <1>1, <1>5, <1>6, <1>7

\* A refuel fills the box that has NFTs of that id, or a new one under a fresh id.
LEMMA RefuelInv ==
    ASSUME SwapInv, NEW from \in Owners, NEW m \in Nfts, NEW amount \in RefuelAmounts,
           NEW n \in Quotes, _refuel_nft(from, m, amount, n)
    PROVE  SwapInv' /\ NftsStay /\ \E r : Refuels(from, n, r)
<1> DEFINE b == booths[n].id
           row == booths[n]
           u == BoxesIn(boothboxes, b)
           u2 == BoxesIn(boothboxes', b)
           new == IF BoxWith(b, m.id) = {} THEN 1 ELSE 0
           x == IF new = 1 THEN NewBoxId(b) ELSE Least(BoxWith(b, m.id))
           had == IF new = 1 THEN 0 ELSE boothboxes[<<b, x>>].amount
           box == [id |-> m.id, amount |-> had + amount]
           r == [CountBoxes(row, new) EXCEPT !.base_nft_sum = @ + amount, !.base_nft_num = @ + amount]
<1>1. /\ n \in DOMAIN booths /\ row.base_nft_contract = m.bank /\ row.owner = from
      /\ NftMoves(from, m, amount, EmptyTable)
      /\ boothboxes' = Emplace(boothboxes, <<b, x>>, box)
      /\ booths' = [booths EXCEPT ![n] = r]
      /\ UNCHANGED <<admin, last_booth_id, now, touched, kept>>
  BY DEF _refuel_nft
<1>2. Typed /\ Keyed(boothboxes) /\ OwnIds(booths)
  BY TypedTables DEF SwapInv
<1>3. amount \in Nat \ {0} /\ m.id \in TokenIds /\ new \in {0, 1} /\ from \in Users
  BY SwapInputs, SwapAccounts DEF TokenIds
<1>4. row \in BoothRow /\ b \in Nat /\ b \in 1 .. last_booth_id
  BY <1>1, <1>2 DEF Typed, IsTable, BoothRow, BoothIds
<1>5. /\ DOMAIN u = {y \in Nat : <<b, y>> \in DOMAIN boothboxes}
      /\ \A y \in DOMAIN u : u[y] = boothboxes[<<b, y>>]
      /\ IsBoxes(u)
  BY <1>2, <1>4, BoxesInAre
<1>6. IsFiniteSet(DOMAIN u) /\ DOMAIN u \in SUBSET Nat /\ \A y \in DOMAIN u : u[y].amount \in Int
  BY <1>5, BoxesAre
<1>7. BoxIds(b) = DOMAIN u /\ BoxWith(b, m.id) = {y \in DOMAIN u : u[y].id = m.id}
  <2>1. BoxIds(b) = DOMAIN u
    BY BoxesAreIn
  <2> QED BY <1>5, <2>1 DEF BoxWith
<1>8. /\ x \in Nat
      /\ new = 1 => /\ x \notin DOMAIN u /\ had = 0 /\ (x = 0 \/ x - 1 \in DOMAIN u)
                    /\ \A y \in DOMAIN u : u[y].id # m.id
      /\ new = 0 => x \in DOMAIN u /\ u[x].id = m.id /\ had = u[x].amount
  <2>1. CASE new = 1
    <3>1. BoxWith(b, m.id) = {} /\ x = NewBoxId(b) /\ had = 0
      BY <2>1
    <3>2. NewBoxId(b) = IF DOMAIN u = {} THEN 0 ELSE Max(DOMAIN u) + 1
      BY <1>7 DEF NewBoxId
    <3>3. \A y \in DOMAIN u : u[y].id # m.id
      BY <1>7, <3>1
    <3> HIDE DEF x, new, had, u
    <3>4. CASE DOMAIN u = {}
      BY <2>1, <3>1, <3>2, <3>3, <3>4
    <3>5. CASE DOMAIN u # {}
      <4>1. Max(DOMAIN u) \in DOMAIN u /\ \A y \in DOMAIN u : y <= Max(DOMAIN u)
        BY <1>6, <3>5, MaxIs
      <4>2. x = Max(DOMAIN u) + 1
        BY <3>1, <3>2, <3>5
      <4> QED BY <1>6, <2>1, <3>1, <3>3, <4>1, <4>2
    <3> QED BY <3>4, <3>5
  <2>2. CASE new = 0
    <3> DEFINE S == BoxWith(b, m.id)
    <3>1. S # {} /\ x = Least(S) /\ had = boothboxes[<<b, x>>].amount
      BY <2>2
    <3>2. S = {y \in DOMAIN u : u[y].id = m.id}
      BY <1>7
    <3> HIDE DEF x, new, had, u, S
    <3>3. S \in SUBSET DOMAIN u /\ S \in SUBSET Nat
      BY <1>6, <3>2
    <3>4. IsFiniteSet(S)
      BY <1>6, <3>3, FS_Subset
    <3>5. x \in S
      BY <3>1, <3>3, <3>4, LeastIs
    <3>6. x \in DOMAIN u /\ u[x].id = m.id
      BY <3>2, <3>5
    <3>7. u[x] = boothboxes[<<b, x>>]
      BY <1>5, <3>6
    <3> HIDE DEF b
    <3> QED BY <1>6, <2>2, <3>1, <3>6, <3>7
  <2> QED BY <1>3, <2>1, <2>2
<1> HIDE DEF x, new, had
<1>9. had \in Int /\ box \in BoxRow /\ box.id = m.id /\ box.amount = had + amount
  <2>1. had \in Int
    BY <1>3, <1>6, <1>8
  <2> QED BY <1>3, <2>1 DEF BoxRow
<1> HIDE DEF box
<1>10. /\ DOMAIN boothboxes' = DOMAIN boothboxes \cup {<<b, x>>} /\ boothboxes'[<<b, x>>] = box
       /\ \A k \in DOMAIN boothboxes : k # <<b, x>> => boothboxes'[k] = boothboxes[k]
  <2> DEFINE k2 == <<b, x>>
  <2>1. boothboxes' = Emplace(boothboxes, k2, box)
    BY <1>1
  <2> HIDE DEF k2
  <2>2. /\ DOMAIN boothboxes' = DOMAIN boothboxes \cup {k2} /\ boothboxes'[k2] = box
        /\ \A k \in DOMAIN boothboxes : k # k2 => boothboxes'[k] = boothboxes[k]
    BY <2>1 DEF Emplace
  <2> QED BY <2>2 DEF k2
<1>11. IsTable(boothboxes', (1 .. last_booth_id) \X Nat, BoxRow) /\ IsFiniteSet(DOMAIN boothboxes')
  <2>1. <<b, x>> \in (1 .. last_booth_id) \X Nat
    BY <1>4, <1>8
  <2>2. IsTable(boothboxes, (1 .. last_booth_id) \X Nat, BoxRow) /\ IsFiniteSet(DOMAIN boothboxes)
    BY <1>2 DEF Typed
  <2>3. IsFiniteSet(DOMAIN boothboxes \cup {<<b, x>>})
    BY <2>2, FS_AddElement
  <2> QED BY <1>9, <1>10, <2>1, <2>2, <2>3 DEF IsTable
<1>12. Keyed(boothboxes')
  <2>1. (1 .. last_booth_id) \X Nat \subseteq Nat \X Nat
    OBVIOUS
  <2> QED BY <1>11, <2>1, WidenTable DEF Keyed
<1>13. /\ DOMAIN u2 = {y \in Nat : <<b, y>> \in DOMAIN boothboxes'}
       /\ \A y \in DOMAIN u2 : u2[y] = boothboxes'[<<b, y>>]
  BY <1>4, <1>12, BoxesInAre
<1>14. /\ DOMAIN u2 = DOMAIN u \cup {x} /\ u2[x] = box
       /\ \A y \in DOMAIN u : y = x \/ u2[y] = u[y]
  <2> HIDE DEF u, u2, b
  <2>1. DOMAIN u2 = DOMAIN u \cup {x}
    BY <1>5, <1>8, <1>10, <1>13
  <2> QED BY <1>5, <1>8, <1>10, <1>13, <2>1
<1>15. Fills(u, u2, x, m.id, amount, new)
  <2> HIDE DEF u, u2
  <2> QED BY <1>3, <1>5, <1>6, <1>8, <1>9, <1>14 DEF Fills
<1>16. /\ AllAmounts(u) \in Int /\ AllAmounts(u2) = AllAmounts(u) + amount
       /\ \A i : /\ WithId(u, i) \in Int
                 /\ WithId(u2, i) = WithId(u, i) + (IF i = m.id THEN amount ELSE 0)
       /\ Cardinality(DOMAIN u2) = Cardinality(DOMAIN u) + new
  BY <1>15, FillsSums
<1>17. /\ r.id = b /\ r.base_nft_contract = row.base_nft_contract /\ r.price = row.price
       /\ r.quote_nft_recd = row.quote_nft_recd /\ r.owner = row.owner
       /\ r.base_nft_sum = row.base_nft_sum + amount /\ r.base_nft_num = row.base_nft_num + amount
       /\ r.base_nftbox_sum = row.base_nftbox_sum + new
       /\ r.base_nftbox_num = row.base_nftbox_num + new
       /\ r \in BoothRow
  <2>1. new \in Nat /\ amount \in Nat
    BY <1>3
  <2> DEFINE c == CountBoxes(row, new)
             bn == row.base_nftbox_num + new
             bs == row.base_nftbox_sum + new
             ns == row.base_nft_sum + amount
             nn == row.base_nft_num + amount
  <2>2. row \in BoothRow /\ bn \in Nat /\ bs \in Nat /\ ns \in Nat /\ nn \in Nat
    BY <1>4, <2>1 DEF BoothRow
  <2>3. c = [row EXCEPT !.base_nftbox_num = bn, !.base_nftbox_sum = bs]
    BY DEF CountBoxes
  <2>4. r = [c EXCEPT !.base_nft_sum = c.base_nft_sum + amount,
                      !.base_nft_num = c.base_nft_num + amount]
    OBVIOUS
  <2> HIDE DEF row, c, r, bn, bs, ns, nn
  <2>5. /\ c \in BoothRow /\ c.base_nftbox_num = bn /\ c.base_nftbox_sum = bs
        /\ c.id = row.id /\ c.base_nft_contract = row.base_nft_contract
        /\ c.price = row.price /\ c.quote_nft_recd = row.quote_nft_recd /\ c.owner = row.owner
        /\ c.base_nft_sum = row.base_nft_sum /\ c.base_nft_num = row.base_nft_num
    BY <2>2, <2>3 DEF BoothRow
  <2>6. r = [c EXCEPT !.base_nft_sum = ns, !.base_nft_num = nn]
    BY <2>4, <2>5 DEF ns, nn
  <2>7. /\ r \in BoothRow /\ r.base_nft_sum = ns /\ r.base_nft_num = nn
        /\ r.id = c.id /\ r.base_nft_contract = c.base_nft_contract
        /\ r.price = c.price /\ r.quote_nft_recd = c.quote_nft_recd /\ r.owner = c.owner
        /\ r.base_nftbox_sum = c.base_nftbox_sum /\ r.base_nftbox_num = c.base_nftbox_num
    BY <2>2, <2>2, <2>5, <2>6 DEF BoothRow
  <2> QED BY <2>5, <2>7 DEF bn, bs, ns, nn, row
<1> HIDE DEF r
<1>18. /\ nft' \in [Accounts -> [Nfts -> Nat]] /\ NftsStay /\ Between(from)
       /\ \A q \in Nfts : nft'[Swap][q] = nft[Swap][q] + (IF q = m THEN amount ELSE 0)
  <2>1. DOMAIN EmptyTable = {}
    BY DEF EmptyTable
  <2>2. \A q \in DOMAIN EmptyTable : EmptyTable[q] \in Nat
    BY <2>1
  <2>3. nft \in [Accounts -> [Nfts -> Nat]]
    BY <1>2 DEF Typed
  <2>4. /\ nft' \in [Accounts -> [Nfts -> Nat]] /\ NftsStay /\ Between(from)
        /\ \A q \in Nfts :
              nft'[Swap][q] = nft[Swap][q] + (IF q = m THEN amount ELSE 0)
                                  - (IF q \in DOMAIN EmptyTable THEN EmptyTable[q] ELSE 0)
    BY <1>1, <1>3, <2>2, <2>3, NftsMove
  <2>5. \A q \in Nfts : nft[Swap][q] \in Nat
    BY <2>3 DEF Accounts
  <2> QED BY <1>3, <2>1, <2>4, <2>5
<1>19. Trades(n, r)
  <2>1. \A k \in DOMAIN boothboxes \cup DOMAIN boothboxes' :
          \/ k[1] = b
          \/ k \in DOMAIN boothboxes /\ k \in DOMAIN boothboxes' /\ boothboxes'[k] = boothboxes[k]
    BY <1>10
  <2> QED BY <1>1, <1>11, <1>17, <1>18, <2>1 DEF Trades
<1>20. Settled(n, r)
  <2>1. ASSUME NEW q \in Nfts
        PROVE  nft'[Swap][q] = nft[Swap][q]
                   + (IF q = n THEN r.quote_nft_recd - row.quote_nft_recd ELSE 0)
                   + (IF q.bank = r.base_nft_contract THEN WithId(u2, q.id) - WithId(u, q.id) ELSE 0)
    <3>1. r.quote_nft_recd - row.quote_nft_recd = 0
      BY <1>4, <1>17 DEF BoothRow
    <3>2. q = m <=> q.bank = m.bank /\ q.id = m.id
      BY SwapInputs
    <3>3. /\ WithId(u, q.id) \in Int
          /\ WithId(u2, q.id) = WithId(u, q.id) + (IF q.id = m.id THEN amount ELSE 0)
      BY <1>16
    <3>4. nft'[Swap][q] = nft[Swap][q] + (IF q = m THEN amount ELSE 0) /\ nft[Swap][q] \in Nat
      BY <1>2, <1>18 DEF Typed, Accounts
    <3>5. r.base_nft_contract = m.bank
      BY <1>1, <1>17
    <3> HIDE DEF u, u2
    <3>6. (IF q.bank = r.base_nft_contract THEN WithId(u2, q.id) - WithId(u, q.id) ELSE 0)
              = (IF q = m THEN amount ELSE 0)
      BY <1>3, <3>2, <3>3, <3>5
    <3> QED BY <1>3, <3>1, <3>4, <3>6
  <2> QED BY <2>1 DEF Settled
<1>21. ASSUME b \notin touched PROVE Sound(r, u2)
  <2>1. Sound(row, u)
    BY <1>1, <1>21 DEF SwapInv, AllSound
  <2>2. /\ row.base_nft_num \in Nat /\ row.base_nft_sum \in Nat /\ row.price \in Nat
        /\ row.base_nftbox_num \in Nat /\ row.base_nftbox_sum \in Nat
        /\ row.quote_nft_recd \in Nat
    BY <1>4, SwapInputs DEF BoothRow
  <2> HIDE DEF row, u, u2, b
  <2>3. r.base_nft_sum - r.base_nft_num = row.base_nft_sum - row.base_nft_num
    BY <1>3, <1>17, <2>2
  <2>4. r.quote_nft_recd = r.price * (r.base_nft_sum - r.base_nft_num)
    BY <1>17, <2>1, <2>3 DEF Sound
  <2>5. AllAmounts(u2) = r.base_nft_num /\ Cardinality(DOMAIN u2) = r.base_nftbox_num
    BY <1>16, <1>17, <2>1 DEF Sound
  <2>6. \A y \in DOMAIN u2 : u2[y].amount > 0
    BY <1>3, <1>6, <1>8, <1>9, <1>14, <2>1 DEF Sound
  <2>7. \A y \in DOMAIN u2 : y < r.base_nftbox_sum
    <3>1. \A y \in DOMAIN u : y \in Nat /\ y < row.base_nftbox_sum
      BY <1>6, <2>1 DEF Sound
    <3>2. x < r.base_nftbox_sum
      <4>1. CASE new = 1
        BY <1>8, <1>17, <2>2, <3>1, <4>1
      <4>2. CASE new = 0
        BY <1>8, <1>17, <2>2, <3>1, <4>2
      <4> QED BY <1>3, <4>1, <4>2
    <3>3. row.base_nftbox_sum <= r.base_nftbox_sum /\ r.base_nftbox_sum \in Nat
      BY <1>3, <1>17, <2>2
    <3> QED BY <1>14, <2>2, <3>1, <3>2, <3>3
  <2>8. \A y, z \in DOMAIN u2 : u2[y].id = u2[z].id => y = z
    <3>1. \A y, z \in DOMAIN u : u[y].id = u[z].id => y = z
      BY <2>1 DEF Sound
    <3>2. \A y \in DOMAIN u : y # x => u[y].id # m.id /\ u2[y] = u[y]
      BY <1>3, <1>8, <1>14, <3>1
    <3> QED BY <1>9, <1>14, <3>1, <3>2
  <2>9. r.base_nft_num <= r.base_nft_sum /\ r.base_nftbox_num <= r.base_nftbox_sum
    BY <1>3, <1>17, <2>1, <2>2 DEF Sound
  <2>10. \A y \in DOMAIN u2 : \E q \in Nfts : q.bank = r.base_nft_contract /\ q.id = u2[y].id
    <3>1. \A y \in DOMAIN u : \E q \in Nfts : q.bank = row.base_nft_contract /\ q.id = u[y].id
      BY <2>1 DEF Sound
    <3>2. r.base_nft_contract = row.base_nft_contract /\ row.base_nft_contract = m.bank
      BY <1>1, <1>17
    <3> QED BY <1>9, <1>14, <3>1, <3>2
  <2> QED BY <2>4, <2>5, <2>6, <2>7, <2>8, <2>9, <2>10 DEF Sound
<1>22. NftsStay
  BY <1>18 DEF NftsStay
<1>23. Refuels(from, n, r)
  <2>1. Deals(from, n, r)
    BY <1>17, <1>18, <1>19, <1>20 DEF Deals
  <2>2. \A i : WithId(u, i) <= WithId(u2, i)
    BY <1>3, <1>16
  <2> HIDE DEF u, u2, row
  <2> QED BY <1>1, <1>17, <2>1, <2>2 DEF Refuels, u, u2, row
<1>24. SwapInv'
  BY <1>19, <1>20, <1>21, TradesInv
<1> QED BY <1>22, <1>23, <1>24

\* What a swap gives of each NFT.
LEMMA GivenIs ==
    ASSUME NEW bank, NEW bought \in [TokenIds -> Nat], NEW given, given = Given(bank, bought),
           \A m \in DOMAIN given : m \in Nfts
    PROVE  /\ \A m \in DOMAIN given : given[m] \in Nat
           /\ \A q \in Nfts : (IF q \in DOMAIN given THEN given[q] ELSE 0)
                                  = (IF q.bank = bank THEN bought[q.id] ELSE 0)
<1> DEFINE ids == {i \in TokenIds : bought[i] > 0}
<1>1. /\ DOMAIN given = [bank : {bank}, id : ids]
      /\ \A m \in DOMAIN given : given[m] = bought[m.id]
  BY DEF Given
<1>2. \A m \in DOMAIN given : m.bank = bank /\ m.id \in ids
  BY <1>1
<1>3. \A m \in DOMAIN given : given[m] \in Nat
  BY <1>1, <1>2
<1>4. ASSUME NEW q \in Nfts
      PROVE  (IF q \in DOMAIN given THEN given[q] ELSE 0) = (IF q.bank = bank THEN bought[q.id] ELSE 0)
  <2>1. q.id \in TokenIds
    BY DEF TokenIds
  <2>2. CASE q \in DOMAIN given
    BY <1>1, <1>2, <2>2
  <2>3. CASE q \notin DOMAIN given /\ q.bank = bank
    <3>1. q.id \notin ids
      <4>1. SUFFICES ASSUME q.id \in ids PROVE FALSE
        OBVIOUS
      <4> DEFINE g == [bank |-> bank, id |-> q.id]
      <4>2. g \in DOMAIN given /\ g.bank = q.bank /\ g.id = q.id
        BY <1>1, <2>3, <4>1
      <4> HIDE DEF g
      <4>3. g = q
        BY <4>2, SwapInputs
      <4> QED BY <2>3, <4>2, <4>3
    <3>2. bought[q.id] = 0
      BY <2>1, <3>1
    <3> QED BY <2>3, <3>2
  <2>4. CASE q \notin DOMAIN given /\ q.bank # bank
    BY <2>4
  <2> QED BY <2>2, <2>3, <2>4
<1> QED BY <1>3, <1>4

\* A swap takes what it gives out of the boxes, and its price for each of them.
LEMMA SwapStepInv ==
    ASSUME SwapInv, CountersFit, NEW from \in Users, NEW n \in Quotes, NEW amount \in SwapAmounts,
           _swap_nft(from, n, amount)
    PROVE  SwapInv' /\ NftsStay /\ \E r : Swaps(from, n, amount, r)
<1> DEFINE row == booths[n]
           b == row.id
           u == BoxesIn(boothboxes, b)
           u2 == BoxesIn(boothboxes', b)
           c == amount \div row.price
<1>1. PICK draw \in Draws(row, c) :
         /\ NftMoves(from, n, amount, Given(row.base_nft_contract, draw.bought))
         /\ boothboxes' = BoxesBecome(b, draw.boxes)
         /\ booths' = [booths EXCEPT ![n].quote_nft_recd = @ + amount,
                                     ![n].base_nft_num = draw.num,
                                     ![n].base_nftbox_num = draw.boxnum]
  BY DEF _swap_nft
<1> DEFINE r == [row EXCEPT !.quote_nft_recd = @ + amount, !.base_nft_num = draw.num,
                            !.base_nftbox_num = draw.boxnum]
           given == Given(row.base_nft_contract, draw.bought)
<1>2. /\ n \in DOMAIN booths /\ PaysFor(row, amount)
      /\ UNCHANGED <<admin, last_booth_id, now, touched, kept>>
  BY DEF _swap_nft
<1>3. Typed /\ Keyed(boothboxes) /\ OwnIds(booths)
  BY TypedTables DEF SwapInv
<1>4. row \in BoothRow /\ b \in Nat
  BY <1>2, <1>3 DEF Typed, IsTable, OwnIds
<1>5. /\ row.base_nft_num \in Nat /\ row.base_nft_sum \in Nat /\ row.price \in Nat \ {0}
      /\ row.base_nftbox_num \in Nat /\ row.base_nftbox_sum \in Nat /\ row.quote_nft_recd \in Nat
      /\ amount \in Nat \ {0} /\ n \in Nfts
  BY <1>4, SwapInputs DEF BoothRow
<1>6. c \in Nat /\ amount = row.price * c
  <2>1. c \in 1 .. batch_swap_max_nfts /\ amount % row.price = 0 /\ batch_swap_max_nfts \in Nat
    BY <1>2, SwapInputs DEF PaysFor
  <2> DEFINE p == row.price
  <2>2. p \in Nat \ {0} /\ amount \in Nat /\ amount % p = 0 /\ c = amount \div p
    BY <1>5, <2>1
  <2> HIDE DEF p, row, c
  <2>3. amount = p * (amount \div p)
    BY <2>2
  <2> QED BY <2>1, <2>2, <2>3 DEF p
<1> HIDE DEF c
<1>7. /\ DOMAIN u = {x \in Nat : <<b, x>> \in DOMAIN boothboxes}
      /\ \A x \in DOMAIN u : u[x] = boothboxes[<<b, x>>]
      /\ IsBoxes(u)
  BY <1>3, <1>4, BoxesInAre
<1>8. Drawn(u, row.base_nft_num, row.base_nftbox_num, c, draw)
  <2>1. Boxes(row.id) = u
    BY BoxesAreIn
  <2>2. IsBoxes(Boxes(row.id))
    BY <1>7, <2>1
  <2> HIDE DEF row
  <2>3. Drawn(Boxes(row.id), row.base_nft_num, row.base_nftbox_num, c, draw)
    BY <1>5, <1>6, <2>2, DrawsAreDrawn
  <2> QED BY <2>1, <2>3
<1>9. /\ IsBoxes(draw.boxes) /\ DOMAIN draw.boxes \in SUBSET DOMAIN u
      /\ \A x \in DOMAIN draw.boxes : draw.boxes[x].id = u[x].id
      /\ draw.num \in Nat /\ draw.boxnum \in Nat /\ draw.bought \in [TokenIds -> Nat]
      /\ \A t \in TokenIds : WithId(draw.boxes, t) + draw.bought[t] = WithId(u, t)
      /\ Full(u, row.base_nft_num, row.base_nftbox_num) =>
            Full(draw.boxes, draw.num, draw.boxnum) /\ draw.num = row.base_nft_num - c
  BY <1>8 DEF Drawn
<1>10. /\ DOMAIN boothboxes'
              = {j \in DOMAIN boothboxes : j[1] = b => j[2] \in DOMAIN draw.boxes}
       /\ \A k \in DOMAIN boothboxes' :
             boothboxes'[k] = IF k[1] = b THEN draw.boxes[k[2]] ELSE boothboxes[k]
  BY <1>1 DEF BoxesBecome
<1>11. IsTable(boothboxes', (1 .. last_booth_id) \X Nat, BoxRow) /\ IsFiniteSet(DOMAIN boothboxes')
  <2>1. IsTable(boothboxes, (1 .. last_booth_id) \X Nat, BoxRow) /\ IsFiniteSet(DOMAIN boothboxes)
    BY <1>3 DEF Typed
  <2>2. DOMAIN boothboxes' \in SUBSET DOMAIN boothboxes
    BY <1>10
  <2>3. \A x \in DOMAIN draw.boxes : draw.boxes[x] \in BoxRow
    BY <1>9 DEF IsBoxes, IsTable
  <2>4. \A k \in DOMAIN boothboxes' : boothboxes'[k] \in BoxRow
    BY <1>10, <2>1, <2>3 DEF IsTable
  <2>5. IsFiniteSet(DOMAIN boothboxes')
    BY <2>1, <2>2, FS_Subset
  <2> QED BY <2>1, <2>2, <2>4, <2>5 DEF IsTable
<1>12. Keyed(boothboxes')
  <2>1. (1 .. last_booth_id) \X Nat \subseteq Nat \X Nat
    OBVIOUS
  <2> QED BY <1>11, <2>1, WidenTable DEF Keyed
<1>13. /\ DOMAIN u2 = {x \in Nat : <<b, x>> \in DOMAIN boothboxes'}
       /\ \A x \in DOMAIN u2 : u2[x] = boothboxes'[<<b, x>>]
       /\ IsBoxes(u2)
  BY <1>4, <1>12, BoxesInAre
<1>14. DOMAIN u2 = DOMAIN draw.boxes /\ \A x \in DOMAIN u2 : u2[x] = draw.boxes[x]
  <2> HIDE DEF u, u2, b
  <2>1. \A x : <<b, x>>[1] = b /\ <<b, x>>[2] = x
    OBVIOUS
  <2>2. DOMAIN u2 = DOMAIN draw.boxes
    BY <1>7, <1>9, <1>10, <1>13, <2>1
  <2> QED BY <1>10, <1>13, <2>1, <2>2
<1>15. /\ AllAmounts(u2) = AllAmounts(draw.boxes)
       /\ \A t : WithId(u2, t) = WithId(draw.boxes, t)
  <2> HIDE DEF u2
  <2>1. Amounts(u2) = Amounts(draw.boxes)
    BY <1>14 DEF Amounts
  <2>2. \A t : IdAmounts(u2, t) = IdAmounts(draw.boxes, t)
    BY <1>14 DEF IdAmounts
  <2> QED BY <1>14, <2>1, <2>2 DEF AllAmounts, WithId
<1>16. booths' = [booths EXCEPT ![n] = r]
  BY <1>1, <1>2, <1>3 DEF Typed, IsTable, BoothRow
<1>17. /\ r \in BoothRow /\ r.id = b /\ r.base_nft_contract = row.base_nft_contract
       /\ r.owner = row.owner
       /\ r.price = row.price /\ r.quote_nft_recd = row.quote_nft_recd + amount
       /\ r.base_nft_sum = row.base_nft_sum /\ r.base_nft_num = draw.num
       /\ r.base_nftbox_sum = row.base_nftbox_sum /\ r.base_nftbox_num = draw.boxnum
  <2> DEFINE recd == row.quote_nft_recd + amount
             num == draw.num
             boxnum == draw.boxnum
  <2>1. recd \in Nat /\ num \in Nat /\ boxnum \in Nat
    BY <1>5, <1>9
  <2>2. r = [row EXCEPT !.quote_nft_recd = recd, !.base_nft_num = num, !.base_nftbox_num = boxnum]
    OBVIOUS
  <2> HIDE DEF row, r, recd, num, boxnum
  <2>3. /\ r \in BoothRow /\ r.id = row.id /\ r.base_nft_contract = row.base_nft_contract
        /\ r.owner = row.owner
        /\ r.price = row.price /\ r.quote_nft_recd = recd
        /\ r.base_nft_sum = row.base_nft_sum /\ r.base_nft_num = num
        /\ r.base_nftbox_sum = row.base_nftbox_sum /\ r.base_nftbox_num = boxnum
    BY <1>4, <2>1, <2>2 DEF BoothRow
  <2> QED BY <2>3 DEF recd, num, boxnum
<1> HIDE DEF r, given
<1>18. /\ nft' \in [Accounts -> [Nfts -> Nat]] /\ NftsStay /\ Between(from)
       /\ \A q \in Nfts :
             nft'[Swap][q] = nft[Swap][q] + (IF q = n THEN amount ELSE 0)
                 - (IF q.bank = row.base_nft_contract THEN draw.bought[q.id] ELSE 0)
  <2>1. NftMoves(from, n, amount, given) /\ nft \in [Accounts -> [Nfts -> Nat]]
    BY <1>1, <1>3 DEF Typed, given
  <2>2. \A m \in DOMAIN given : m \in Nfts
    BY <2>1 DEF NftMoves
  <2>3. /\ \A m \in DOMAIN given : given[m] \in Nat
        /\ \A q \in Nfts : (IF q \in DOMAIN given THEN given[q] ELSE 0)
              = (IF q.bank = row.base_nft_contract THEN draw.bought[q.id] ELSE 0)
    <3> DEFINE bank == row.base_nft_contract
               bought == draw.bought
    <3>1. bought \in [TokenIds -> Nat] /\ given = Given(bank, bought)
      BY <1>9 DEF given
    <3> HIDE DEF bank, bought
    <3>2. /\ \A m \in DOMAIN given : given[m] \in Nat
          /\ \A q \in Nfts : (IF q \in DOMAIN given THEN given[q] ELSE 0)
                = (IF q.bank = bank THEN bought[q.id] ELSE 0)
      BY <2>2, <3>1, GivenIs
    <3> QED BY <3>2 DEF bank, bought
  <2>4. /\ nft' \in [Accounts -> [Nfts -> Nat]] /\ NftsStay /\ Between(from)
        /\ \A q \in Nfts :
              nft'[Swap][q] = nft[Swap][q] + (IF q = n THEN amount ELSE 0)
                                  - (IF q \in DOMAIN given THEN given[q] ELSE 0)
    BY <1>5, <2>1, <2>3, NftsMove
  <2> QED BY <2>3, <2>4
<1>19. Trades(n, r)
  <2>1. \A k \in DOMAIN boothboxes \cup DOMAIN boothboxes' :
          \/ k[1] = b
          \/ k \in DOMAIN boothboxes /\ k \in DOMAIN boothboxes' /\ boothboxes'[k] = boothboxes[k]
    BY <1>10
  <2> QED BY <1>2, <1>11, <1>16, <1>17, <1>18, <2>1 DEF Trades
<1>20. Settled(n, r)
  <2>1. ASSUME NEW q \in Nfts
        PROVE  nft'[Swap][q] = nft[Swap][q]
                   + (IF q = n THEN r.quote_nft_recd - row.quote_nft_recd ELSE 0)
                   + (IF q.bank = r.base_nft_contract THEN WithId(u2, q.id) - WithId(u, q.id) ELSE 0)
    <3> DEFINE e == IF q = n THEN amount ELSE 0
               f == IF q.bank = row.base_nft_contract THEN draw.bought[q.id] ELSE 0
    <3>1. q.id \in TokenIds
      BY DEF TokenIds
    <3>2. draw.bought[q.id] \in Nat /\ WithId(u2, q.id) + draw.bought[q.id] = WithId(u, q.id)
      BY <1>9, <1>15, <3>1
    <3>3. WithId(u, q.id) \in Int /\ WithId(u2, q.id) \in Int
      <4>1. IsFiniteSet(DOMAIN u) /\ \A x \in DOMAIN u : IdAmounts(u, q.id)[x] \in Int
        BY <1>7, BoxesAre
      <4>2. IsFiniteSet(DOMAIN u2) /\ \A x \in DOMAIN u2 : IdAmounts(u2, q.id)[x] \in Int
        BY <1>13, BoxesAre
      <4> HIDE DEF u, u2
      <4> QED BY <4>1, <4>2, SumInt DEF WithId
    <3>4. nft'[Swap][q] = nft[Swap][q] + e - f /\ nft[Swap][q] \in Nat
      BY <1>3, <1>18 DEF Typed, Accounts
    <3>5. (IF q = n THEN r.quote_nft_recd - row.quote_nft_recd ELSE 0) = e /\ e \in Nat
      BY <1>5, <1>17
    <3> HIDE DEF u, u2, row
    <3>6. f \in Nat /\ (IF q.bank = r.base_nft_contract THEN WithId(u2, q.id) - WithId(u, q.id) ELSE 0)
              = 0 - f
      BY <1>17, <3>2, <3>3
    <3> HIDE DEF e, f
    <3> QED BY <3>4, <3>5, <3>6
  <2> QED BY <2>1 DEF Settled
<1>21. ASSUME b \notin touched PROVE Sound(r, u2)
  <2>1. Sound(row, u)
    BY <1>2, <1>21 DEF SwapInv, AllSound
  <2>2. row.base_nft_num <= UintMax /\ row.base_nftbox_num <= UintMax
    BY <1>2, <1>21 DEF CountersFit, Intact
  <2> HIDE DEF row, u, u2, b
  <2>3. Full(u, row.base_nft_num, row.base_nftbox_num)
    BY <2>1, <2>2 DEF Sound, Full
  <2>4. Full(draw.boxes, draw.num, draw.boxnum) /\ draw.num = row.base_nft_num - c
    BY <1>9, <2>3
  <2>5. AllAmounts(u2) = r.base_nft_num /\ Cardinality(DOMAIN u2) = r.base_nftbox_num
    BY <1>14, <1>15, <1>17, <2>4 DEF Full
  <2>6. \A x \in DOMAIN u2 : u2[x].amount > 0 /\ x < r.base_nftbox_sum
    BY <1>9, <1>14, <1>17, <2>1, <2>4 DEF Sound, Full
  <2>7. \A x, y \in DOMAIN u2 : u2[x].id = u2[y].id => x = y
    BY <1>9, <1>14, <2>1 DEF Sound
  <2>8. r.base_nft_num <= r.base_nft_sum
    BY <1>5, <1>6, <1>9, <1>17, <2>1, <2>4 DEF Sound
  <2>9. r.base_nftbox_num <= r.base_nftbox_sum
    <3>1. IsFiniteSet(DOMAIN u) /\ DOMAIN u2 \subseteq DOMAIN u
      BY <1>7, <1>9, <1>14 DEF IsBoxes
    <3>2. Cardinality(DOMAIN u2) <= Cardinality(DOMAIN u)
      BY <3>1, FS_Subset
    <3> QED BY <1>5, <1>9, <1>17, <2>1, <2>5, <3>2 DEF Sound
  <2>10. r.quote_nft_recd = r.price * (r.base_nft_sum - r.base_nft_num)
    <3> DEFINE p == row.price
               d == row.base_nft_sum - row.base_nft_num
    <3>1. p \in Nat /\ d \in Int /\ c \in Nat
      BY <1>5, <1>6
    <3>2. row.quote_nft_recd = p * d /\ amount = p * c
      BY <1>6, <2>1 DEF Sound
    <3>3. r.base_nft_sum - r.base_nft_num = d + c
      BY <1>5, <1>6, <1>17, <2>4
    <3>4. r.quote_nft_recd = row.quote_nft_recd + amount /\ r.price = p
      BY <1>17
    <3> HIDE DEF p, d
    <3>5. p * (d + c) = p * d + p * c
      BY <3>1
    <3> QED BY <3>2, <3>3, <3>4, <3>5
  <2>11. \A x \in DOMAIN u2 : \E q \in Nfts : q.bank = r.base_nft_contract /\ q.id = u2[x].id
    <3>1. \A x \in DOMAIN u : \E q \in Nfts : q.bank = row.base_nft_contract /\ q.id = u[x].id
      BY <2>1 DEF Sound
    <3>2. \A x \in DOMAIN u2 : x \in DOMAIN u /\ u2[x].id = u[x].id
      BY <1>9, <1>14
    <3> QED BY <1>17, <3>1, <3>2
  <2> QED BY <2>5, <2>6, <2>7, <2>8, <2>9, <2>10, <2>11 DEF Sound
<1>22. NftsStay
  BY <1>18 DEF NftsStay
<1>23. Swaps(from, n, amount, r)
  <2>1. Deals(from, n, r)
    BY <1>17, <1>18, <1>19, <1>20 DEF Deals
  <2>2. amount \in 1 .. nft[from][n]
    <3>1. amount <= nft[from][n]
      BY <1>1 DEF NftMoves
    <3>2. nft[from][n] \in Nat
      BY <1>3, <1>5 DEF Typed, Accounts
    <3> QED BY <1>5, <3>1, <3>2
  <2>3. ASSUME NEW i \in TokenIds PROVE WithId(u2, i) <= WithId(u, i)
    <3>1. WithId(u2, i) + draw.bought[i] = WithId(u, i) /\ draw.bought[i] \in Nat
      BY <1>9, <1>15
    <3>2. IsFiniteSet(DOMAIN u2) /\ \A x \in DOMAIN u2 : IdAmounts(u2, i)[x] \in Int
      BY <1>13, BoxesAre
    <3>3. WithId(u2, i) \in Int
      BY <3>2, SumInt DEF WithId
    <3> HIDE DEF u, u2
    <3> QED BY <3>1, <3>3
  <2> HIDE DEF u, u2, row
  <2> QED BY <1>17, <2>1, <2>2, <2>3 DEF Swaps, u, u2, row
<1>24. SwapInv'
  BY <1>19, <1>20, <1>21, TradesInv
<1> QED BY <1>22, <1>23, <1>24

LEMMA StepInv == SwapInv /\ CountersFit /\ [Next]_vars => SwapInv'
<1> SUFFICES ASSUME SwapInv, CountersFit, [Next]_vars PROVE SwapInv'
  OBVIOUS
<1>1. CASE Manage
  <2>1. CASE \E a \in Admins : init(a)
    BY <2>1, QuietInv
  <2>2. ASSUME NEW u \in Owners, NEW b \in BaseBanks, NEW n \in Quotes, NEW p \in Prices,
               NEW t \in Times, createbooth(u, b, n, p, t[1], t[2])
        PROVE  SwapInv'
    BY <2>2, CreateInv
  <2>3. CASE \E n \in Quotes, s \in {"enabled", "disabled"} : enablebooth(n, s)
    BY <2>3, QuietInv
  <2>4. CASE \E n \in Quotes, t \in Times : setboothtime(n, t[1], t[2])
    BY <2>4, QuietInv
  <2>5. ASSUME NEW n \in Quotes, closebooth(n) PROVE SwapInv'
    BY <2>5, CloseInv
  <2> QED BY <1>1, <2>1, <2>2, <2>3, <2>4, <2>5 DEF Manage
<1>2. CASE Trade
  <2>1. ASSUME NEW u \in Owners, NEW m \in Nfts, NEW k \in RefuelAmounts, NEW n \in Quotes,
               _refuel_nft(u, m, k, n)
        PROVE  SwapInv'
    BY <2>1, RefuelInv
  <2>2. ASSUME NEW u \in Users, NEW n \in Quotes, NEW k \in SwapAmounts, _swap_nft(u, n, k)
        PROVE  SwapInv'
    BY <2>2, SwapStepInv
  <2> QED BY <1>2, <2>1, <2>2 DEF Trade
<1>3. CASE Maintain
  BY <1>3, MaintainInv
<1>4. CASE Tick \/ UNCHANGED vars
  BY <1>4, QuietInv
<1> QED BY <1>1, <1>2, <1>3, <1>4 DEF Next
------------------------------------------------------------------------------
(* Counters that cannot wrap *)

LEMMA StepStays == SwapInv /\ CountersFit /\ [Next]_vars => NftsStay
<1> SUFFICES ASSUME SwapInv, CountersFit, [Next]_vars PROVE NftsStay
  OBVIOUS
<1>1. CASE Trade
  <2>1. ASSUME NEW u \in Owners, NEW m \in Nfts, NEW k \in RefuelAmounts, NEW n \in Quotes,
               _refuel_nft(u, m, k, n)
        PROVE  NftsStay
    BY <2>1, RefuelInv
  <2>2. ASSUME NEW u \in Users, NEW n \in Quotes, NEW k \in SwapAmounts, _swap_nft(u, n, k)
        PROVE  NftsStay
    BY <2>2, SwapStepInv
  <2> QED BY <1>1, <2>1, <2>2 DEF Trade
<1>2. CASE Manage \/ Maintain \/ Tick \/ UNCHANGED vars
  <2>1. nft' = nft
    BY <1>2 DEF Manage, init, createbooth, enablebooth, setboothtime, closebooth,
                Maintain, fixbox, fixbooth, Tick, vars
  <2> QED BY <2>1 DEF NftsStay
<1> QED BY <1>1, <1>2 DEF Next

\* All the NFTs that there are can be counted in uint64_t.
SupplyFits ==
    /\ IsFiniteSet(Accounts) /\ IsFiniteSet(Nfts)
    /\ Sum([m \in Nfts |-> SupplyOf(FirstNfts, m)], Nfts) <= UintMax

NoneMade == \A m \in Nfts : SupplyOf(nft, m) = SupplyOf(FirstNfts, m)

\* No box of an intact booth is empty, so what the others have can be left out of a sum.
LEMMA OthersHaveSome ==
    ASSUME SwapInv, touched = {}, NEW m \in Nfts, NEW b
    PROVE  Sum(Amounts(boothboxes), Elsewhere(booths, boothboxes, m, b)) \in Nat
<1> DEFINE E == Elsewhere(booths, boothboxes, m, b)
           w == Amounts(boothboxes)
<1>1. Typed /\ Keyed(boothboxes) /\ OwnIds(booths)
  BY TypedTables DEF SwapInv
<1>2. ASSUME NEW k \in E PROVE w[k] \in Nat
  <2>1. k \in DOMAIN boothboxes /\ m.bank \in BankIn(booths, k[1])
    BY DEF Elsewhere, KeysOf
  <2>2. PICK q \in DOMAIN booths : booths[q].id = k[1]
    BY <2>1 DEF BankIn
  <2> DEFINE boxes == BoxesIn(boothboxes, k[1])
  <2>3. Sound(booths[q], boxes)
    BY <2>2 DEF SwapInv, AllSound
  <2>4. /\ k = <<k[1], k[2]>> /\ k[1] \in Nat /\ k[2] \in Nat
        /\ w[k] = boothboxes[k].amount /\ w[k] \in Int
    BY <1>1, <2>1, KeyedRows
  <2>5. /\ DOMAIN boxes = {x \in Nat : <<k[1], x>> \in DOMAIN boothboxes}
        /\ \A x \in DOMAIN boxes : boxes[x] = boothboxes[<<k[1], x>>]
    BY <1>1, <2>4, BoxesInAre
  <2> HIDE DEF boxes, w
  <2>6. k[2] \in DOMAIN boxes /\ boxes[k[2]] = boothboxes[k]
    BY <2>1, <2>4, <2>5
  <2>7. boxes[k[2]].amount > 0
    BY <2>3, <2>6 DEF Sound
  <2> QED BY <2>4, <2>6, <2>7
<1>3. IsFiniteSet(E)
  <2>1. E \in SUBSET DOMAIN boothboxes /\ IsFiniteSet(DOMAIN boothboxes)
    BY <1>1 DEF Elsewhere, KeysOf, Keyed
  <2> HIDE DEF E
  <2> QED BY <2>1, FS_Subset
<1> HIDE DEF E, w
<1>4. Sum(w, E) \in Nat
  BY <1>2, <1>3, SumNat
<1> QED BY <1>4 DEF E, w

\* What an intact booth has of an NFT, the contract holds, so there is as much of it.
LEMMA BoxedExist ==
    ASSUME SwapInv, NoneMade, touched = {}, IsFiniteSet(Accounts), NEW m \in Nfts,
           NEW n \in DOMAIN booths, m.bank = booths[n].base_nft_contract
    PROVE  WithId(BoxesIn(boothboxes, booths[n].id), m.id) <= SupplyOf(FirstNfts, m)
<1> DEFINE b == booths[n].id
           mine == WithId(BoxesIn(boothboxes, b), m.id)
           rest == Sum(Amounts(boothboxes), Elsewhere(booths, boothboxes, m, b))
<1>1. Typed /\ Keyed(boothboxes) /\ OwnIds(booths)
  BY TypedTables DEF SwapInv
<1>2. mine \in Int /\ BoxedIn(booths, boothboxes, m) = mine + rest
  BY <1>1, BoxedSplits
<1>3. rest \in Nat
  BY OthersHaveSome
<1>4. nft[Swap][m] >= kept[m] + Recd(booths, m) + BoxedIn(booths, boothboxes, m)
  BY DEF SwapInv, Custody
<1>5. kept[m] \in Nat /\ Recd(booths, m) \in Nat /\ nft[Swap][m] \in Nat
  BY <1>1 DEF Typed, Recd, IsTable, BoothRow, Accounts
<1>6. nft[Swap][m] <= SupplyOf(nft, m) /\ SupplyOf(nft, m) \in Nat
  <2> DEFINE v == [u \in Accounts |-> nft[u][m]]
  <2>1. Swap \in Accounts /\ \A u \in Accounts : v[u] \in Nat
    BY <1>1 DEF Typed, Accounts
  <2>2. v[Swap] = nft[Swap][m]
    BY <2>1
  <2> HIDE DEF v
  <2>3. v[Swap] <= Sum(v, Accounts) /\ Sum(v, Accounts) \in Nat
    BY <2>1, SumCovers, SumNat
  <2> QED BY <2>2, <2>3 DEF SupplyOf, v
<1> HIDE DEF mine, rest
<1>7. mine <= SupplyOf(nft, m)
  BY <1>2, <1>3, <1>4, <1>5, <1>6
<1> QED BY <1>7 DEF NoneMade, mine, b

LEMMA UntouchedFit ==
    ASSUME SwapInv, NoneMade, touched = {}, SupplyFits
    PROVE  CountersFit
<1>1. Typed /\ Keyed(boothboxes) /\ OwnIds(booths)
  BY TypedTables DEF SwapInv
<1>2. ASSUME NEW n \in DOMAIN booths
      PROVE  booths[n].base_nft_num <= UintMax /\ booths[n].base_nftbox_num <= UintMax
  <2> DEFINE row == booths[n]
             u == BoxesIn(boothboxes, row.id)
             D == DOMAIN u
             w == Amounts(u)
             h == [x \in D |-> CHOOSE m \in Nfts : m.bank = row.base_nft_contract /\ m.id = u[x].id]
             g == [m \in Nfts |-> Sum(w, Group(D, h, m))]
             s == [m \in Nfts |-> SupplyOf(FirstNfts, m)]
  <2>1. Sound(row, u)
    BY DEF SwapInv, AllSound
  <2>2. IsBoxes(u)
    BY <1>1, BoxesInAre DEF OwnIds
  <2>3. /\ IsFiniteSet(D)
        /\ \A x \in D : u[x].amount \in Int /\ w[x] = u[x].amount
    BY <2>2, BoxesAre
  <2>4. \A x \in D : w[x] \in Nat \ {0}
    BY <2>1, <2>3 DEF Sound
  <2>5. \A x \in D : h[x] \in Nfts /\ h[x].bank = row.base_nft_contract /\ h[x].id = u[x].id
    BY <2>1 DEF Sound
  <2>6. ASSUME NEW m \in Nfts PROVE g[m] \in Nat /\ s[m] \in Nat /\ g[m] <= s[m]
    <3>1. s[m] \in Nat
      <4> DEFINE v == [a \in Accounts |-> FirstNfts[a][m]]
      <4>1. \A a \in Accounts : v[a] \in Nat
        BY SwapInputs
      <4> HIDE DEF v
      <4>2. Sum(v, Accounts) \in Nat
        BY <4>1, SumNat DEF SupplyFits
      <4> QED BY <4>2 DEF SupplyOf, v
    <3>2. g[m] \in Nat
      <4>1. Group(D, h, m) \in SUBSET D /\ \A x \in D : w[x] \in Nat
        BY <2>4 DEF Group
      <4> HIDE DEF D, h, w
      <4>2. Sum(w, Group(D, h, m)) \in Nat
        BY <2>3, <4>1, SumNat
      <4> QED BY <4>2
    <3>3. CASE m.bank = row.base_nft_contract
      <4>1. Group(D, h, m) = {x \in D : u[x].id = m.id}
        <5>1. \A x \in D : h[x] = m <=> u[x].id = m.id
          <6> HIDE DEF D, h, u
          <6> QED BY <2>5, <3>3, SwapInputs
        <5> HIDE DEF D, h, u
        <5> QED BY <5>1 DEF Group
      <4>2. g[m] = WithId(u, m.id)
        BY <2>2, <4>1, WithIdIs
      <4>3. WithId(u, m.id) <= SupplyOf(FirstNfts, m)
        BY <3>3, BoxedExist DEF SupplyFits
      <4> HIDE DEF u, g
      <4> QED BY <3>1, <3>2, <4>2, <4>3
    <3>4. CASE m.bank # row.base_nft_contract
      <4>1. Group(D, h, m) = {}
        <5> HIDE DEF D, h
        <5> QED BY <2>5, <3>4 DEF Group
      <4>2. g[m] = 0
        BY <4>1, SumEmpty
      <4> HIDE DEF g, s
      <4> QED BY <3>1, <3>2, <4>2
    <3> QED BY <3>3, <3>4
  <2> HIDE DEF D, w, h, s, u, row
  <2>7. Sum(g, Nfts) = Sum(w, D)
    <3>1. \A x \in D : w[x] \in Int /\ h[x] \in Nfts
      BY <2>4, <2>5
    <3>2. \A m \in Nfts : g[m] = Sum(w, Group(D, h, m))
      OBVIOUS
    <3> HIDE DEF g
    <3> QED BY <2>3, <3>1, <3>2, SumGroups DEF SupplyFits
  <2> HIDE DEF g
  <2>8. Sum(g, Nfts) <= Sum(s, Nfts) /\ Sum(g, Nfts) \in Nat /\ Sum(s, Nfts) \in Nat
    BY <2>6, SumBelow, SumNat DEF SupplyFits
  <2>9. Sum(s, Nfts) <= UintMax /\ UintMax \in Nat
    BY SwapInputs DEF SupplyFits, s
  <2>10. Cardinality(D) <= Sum(w, D) /\ Cardinality(D) \in Nat
    BY <2>3, <2>4, SumCounts, FS_CardinalityType
  <2>11. row.base_nft_num = Sum(w, D) /\ row.base_nftbox_num = Cardinality(D)
    BY <2>1 DEF Sound, AllAmounts, D, w
  <2>12. row.base_nft_num <= UintMax /\ row.base_nftbox_num <= UintMax
    BY <2>7, <2>8, <2>9, <2>10, <2>11
  <2> QED BY <2>12 DEF row
<1> QED BY <1>2 DEF CountersFit, Intact

\* While nothing was set by hand: the invariant, and the NFTs that there were.
Untouched == touched = {} => SwapInv /\ NoneMade

LEMMA InitUntouched == Init => Untouched
BY InitInv DEF Init, NoneMade, Untouched

\* What was set by hand stays so.
LEMMA TouchedStays == [Next]_vars => touched \subseteq touched'
<1> SUFFICES ASSUME [Next]_vars PROVE touched \subseteq touched'
  OBVIOUS
<1>1. CASE Manage
  BY <1>1 DEF Manage, init, createbooth, enablebooth, setboothtime, closebooth
<1>2. CASE Trade
  BY <1>2 DEF Trade, _refuel_nft, _swap_nft
<1>3. CASE Maintain
  BY <1>3 DEF Maintain, fixbox, fixbooth
<1>4. CASE Tick \/ UNCHANGED vars
  BY <1>4 DEF Tick, vars
<1> QED BY <1>1, <1>2, <1>3, <1>4 DEF Next

LEMMA StepUntouched == SupplyFits /\ Untouched /\ [Next]_vars => Untouched'
<1> SUFFICES ASSUME SupplyFits, Untouched, [Next]_vars, touched' = {}
             PROVE  SwapInv' /\ NoneMade'
  BY DEF Untouched
<1>1. touched = {}
  BY TouchedStays
<1>2. SwapInv /\ NoneMade /\ CountersFit
  BY <1>1, UntouchedFit DEF Untouched
<1>3. SwapInv'
  BY <1>2, StepInv
<1>4. NoneMade'
  <2>1. \A m \in Nfts : SupplyOf(nft', m) = SupplyOf(nft, m)
    BY <1>2, StepStays DEF NftsStay, SupplyFits
  <2> QED BY <1>2, <2>1 DEF NoneMade, SupplyOf
<1> QED BY <1>3, <1>4

\* What the runs check, of a state where nothing was set by hand.
LEMMA UntouchedIsRight ==
    SupplyFits /\ Untouched =>
        /\ SwapHolds
        /\ touched = {} => /\ CountersFit /\ TypeOK /\ CountersMatchBoxes
                           /\ EveryBoxCanBeDrawn /\ RateKept
<1> SUFFICES ASSUME SupplyFits, Untouched, touched = {}
             PROVE  /\ CountersFit /\ TypeOK /\ CountersMatchBoxes
                    /\ EveryBoxCanBeDrawn /\ RateKept /\ SwapHolds
  BY DEF SwapHolds
<1>1. SwapInv /\ NoneMade
  BY DEF Untouched
<1> QED BY <1>1, UntouchedFit, SwapInvTypes, SwapInvCounters, SwapInvHolds
------------------------------------------------------------------------------
(* Theorems *)

\* While no counter of an intact booth leaves uint64_t, the invariant holds.
LEMMA SwapIsSound == Spec /\ []CountersFit => []SwapInv
BY InitInv, StepInv, PTL DEF Spec

\* The rows of the random swap keep their types, and no two booths share the scope of
\* their boxes, whatever is created, refuelled, drawn, closed and set by hand.
THEOREM SwapTypes == Spec /\ []CountersFit => []TypeOK
BY SwapIsSound, SwapInvTypes, PTL

\* The counters in the row of a booth agree with its boxes in the other table after any
\* sequence of refuels and draws, and every box holds something.
THEOREM CountersAreRight == Spec /\ []CountersFit => []CountersMatchBoxes
BY SwapIsSound, SwapInvCounters, PTL

\* However boxes were sold out and refilled, the indexes _rand may return lead to every
\* one of them, by box id or by number of NFTs.
THEOREM AllBoxesCanBeDrawn == Spec /\ []CountersFit => []EveryBoxCanBeDrawn
BY SwapIsSound, SwapInvCounters, PTL

\* A booth has received its price for each NFT it gave, for any sequence of swaps.
THEOREM PriceIsPaid == Spec /\ []CountersFit => []RateKept
BY SwapIsSound, SwapInvCounters, PTL

\* The contract holds every NFT in the boxes of its booths and every quote NFT received,
\* those of closed booths included, unless rows were set by hand: if there are not more
\* NFTs than uint64_t counts, no counter can wrap.
THEOREM ContractHoldsAll == ASSUME SupplyFits PROVE Spec => []SwapHolds
<1>1. Init => Untouched
  BY InitUntouched
<1>2. Untouched /\ [Next]_vars => Untouched'
  BY StepUntouched
<1>3. Untouched => SwapHolds
  BY UntouchedIsRight
<1> QED BY <1>1, <1>2, <1>3, PTL DEF Spec

\* As long as nobody sets a row by hand and no booth starts with leftovers, nothing has to
\* be supposed of the counters: none wraps, and all that is said of intact booths holds.
THEOREM UntouchedBooksAreRight ==
    ASSUME SupplyFits
    PROVE  Spec => [](touched = {} =>
               CountersFit /\ TypeOK /\ CountersMatchBoxes /\ EveryBoxCanBeDrawn /\ RateKept)
<1>1. Init => Untouched
  BY InitUntouched
<1>2. Untouched /\ [Next]_vars => Untouched'
  BY StepUntouched
<1>3. Untouched =>
          (touched = {} => CountersFit /\ TypeOK /\ CountersMatchBoxes /\ EveryBoxCanBeDrawn /\ RateKept)
  BY UntouchedIsRight
<1> QED BY <1>1, <1>2, <1>3, PTL DEF Spec
------------------------------------------------------------------------------
(* The swap is a raffle *)

LEMMA SumsAgree == ASSUME NEW w PROVE AsRaffle!SumFunction(w) = SumFunction(w)
BY DEF SumFunction, SumFunctionOnSet, FoldFunctionOnSet, MapThenFoldSet, AsRaffle!SumFunction,
       AsRaffle!SumFunctionOnSet, AsRaffle!FoldFunctionOnSet, AsRaffle!MapThenFoldSet

\* What the raffle knows of booth b, where bs are the booths and t the boxes.
TermsIn(bs, b) ==
    {[owner |-> bs[n].owner, coin |-> n, price |-> bs[n].price] :
        n \in {m \in DOMAIN bs : bs[m].id = b}}
StockIn(bs, t, b) ==
    [m \in Nfts |-> IF m.bank \in BankIn(bs, b) THEN WithId(BoxesIn(t, b), m.id) ELSE 0]

\* The boxes of a booth that have a token id, by their keys.
LEMMA OfOneId ==
    ASSUME NEW t, Keyed(t), NEW b \in Nat, NEW i
    PROVE  Sum(Amounts(t), {k \in DOMAIN t : k[1] = b /\ t[k].id = i}) = WithId(BoxesIn(t, b), i)
<1> DEFINE u == BoxesIn(t, b)
           K == {k \in DOMAIN t : k[1] = b /\ t[k].id = i}
           X == {x \in DOMAIN u : u[x].id = i}
           w == Amounts(t)
           v == Amounts(u)
<1>1. /\ DOMAIN u = {x \in Nat : <<b, x>> \in DOMAIN t}
      /\ \A x \in DOMAIN u : u[x] = t[<<b, x>>]
      /\ IsBoxes(u)
  BY BoxesInAre
<1>2. /\ IsFiniteSet(DOMAIN t)
      /\ \A k \in DOMAIN t : /\ k = <<k[1], k[2]>> /\ k[1] \in Nat /\ k[2] \in Nat
                             /\ w[k] = t[k].amount /\ w[k] \in Int
  BY KeyedRows
<1>3. K = {<<b, x>> : x \in X}
  <2>1. ASSUME NEW k \in K PROVE k[2] \in X /\ k = <<b, k[2]>>
    <3>1. k \in DOMAIN t /\ k[1] = b /\ t[k].id = i /\ k = <<b, k[2]>> /\ k[2] \in Nat
      BY <1>2
    <3> HIDE DEF u
    <3> QED BY <1>1, <3>1
  <2>2. ASSUME NEW x \in X PROVE <<b, x>> \in K
    BY <1>1
  <2> HIDE DEF K, X
  <2> QED BY <2>1, <2>2
<1>4. \A x \in X : w[<<b, x>>] \in Int /\ v[x] = w[<<b, x>>]
  <2>1. ASSUME NEW x \in X PROVE w[<<b, x>>] \in Int /\ v[x] = w[<<b, x>>]
    <3>1. x \in DOMAIN u /\ <<b, x>> \in DOMAIN t /\ u[x] = t[<<b, x>>]
      BY <1>1
    <3>2. v[x] = u[x].amount
      BY <3>1 DEF Amounts
    <3> QED BY <1>2, <3>1, <3>2
  <2> QED BY <2>1
<1>5. IsFiniteSet(X) /\ IsFiniteSet(K)
  <2>1. X \in SUBSET DOMAIN u /\ IsFiniteSet(DOMAIN u) /\ K \in SUBSET DOMAIN t
    BY <1>1 DEF IsBoxes
  <2> HIDE DEF X, u, K
  <2> QED BY <1>2, <2>1, FS_Subset
<1>6. WithId(u, i) = Sum(v, X)
  BY <1>1, WithIdIs
<1>7. Sum(v, X) = Sum(w, K)
  <2> HIDE DEF v, X, w, K
  <2>1. Indexes(X, b, K, w, v)
    BY <1>3, <1>4 DEF Indexes
  <2> QED BY <1>5, <2>1, SumKeys
<1> QED BY <1>6, <1>7

LEMMA BarsAre ==
    ASSUME Keyed(boothboxes)
    PROVE  /\ termsBar = [b \in BoothIds |-> TermsIn(booths, b)]
           /\ stockBar = [b \in BoothIds |-> StockIn(booths, boothboxes, b)]
<1>1. ASSUME NEW b \in BoothIds, NEW m \in Nfts
      PROVE  InBoxes({k \in DOMAIN boothboxes : k[1] = b /\ boothboxes[k].id = m.id})
                 = WithId(BoxesIn(boothboxes, b), m.id)
  BY OfOneId, SwapInputs DEF InBoxes, Sum, BoothIds
<1>2. \A b : BankOf(b) = BankIn(booths, b)
  BY DEF BankOf, BankIn
<1>3. termsBar = [b \in BoothIds |-> TermsIn(booths, b)]
  BY DEF termsBar, TermsIn
<1> QED BY <1>1, <1>2, <1>3 DEF stockBar, StockIn

LEMMA BarsNext ==
    ASSUME Keyed(boothboxes')
    PROVE  /\ termsBar' = [b \in BoothIds |-> TermsIn(booths', b)]
           /\ stockBar' = [b \in BoothIds |-> StockIn(booths', boothboxes', b)]
<1>1. ASSUME NEW b \in BoothIds, NEW m \in Nfts
      PROVE  SumFunctionOnSet(Amounts(boothboxes'),
                 {k \in DOMAIN boothboxes' : k[1] = b /\ boothboxes'[k].id = m.id})
                 = WithId(BoxesIn(boothboxes', b), m.id)
  BY OfOneId, SwapInputs DEF Sum, BoothIds
<1>2. termsBar' = [b \in BoothIds |-> TermsIn(booths', b)]
  BY DEF termsBar, TermsIn
<1>3. stockBar' = [b \in BoothIds |-> [m \in Nfts |->
          IF m.bank \in BankIn(booths', b)
          THEN SumFunctionOnSet(Amounts(boothboxes'),
                   {k \in DOMAIN boothboxes' : k[1] = b /\ boothboxes'[k].id = m.id}) ELSE 0]]
  BY DEF stockBar, BankOf, BankIn, InBoxes
<1> QED BY <1>1, <1>2, <1>3 DEF StockIn

\* Both tables have booth b, on the same terms, or neither has.
Alike(bs, bs2, b) ==
    /\ {n \in DOMAIN bs2 : bs2[n].id = b} = {n \in DOMAIN bs : bs[n].id = b}
    /\ \A n \in DOMAIN bs : bs[n].id = b =>
          /\ bs2[n].owner = bs[n].owner /\ bs2[n].price = bs[n].price
          /\ bs2[n].base_nft_contract = bs[n].base_nft_contract

LEMMA AlikeIs ==
    ASSUME NEW bs, NEW bs2, NEW t, NEW t2, NEW b, Alike(bs, bs2, b)
    PROVE  /\ TermsIn(bs2, b) = TermsIn(bs, b)
           /\ BoxesIn(t2, b) = BoxesIn(t, b) => StockIn(bs2, t2, b) = StockIn(bs, t, b)
<1>1. TermsIn(bs2, b) = TermsIn(bs, b) /\ BankIn(bs2, b) = BankIn(bs, b)
  BY DEF Alike, TermsIn, BankIn
<1> QED BY <1>1 DEF StockIn

\* The terms and the stock of a booth that is there.
LEMMA BoothIs ==
    ASSUME NEW bs, OwnIds(bs), NEW n \in DOMAIN bs, NEW t
    PROVE  /\ TermsIn(bs, bs[n].id) =
                 {[owner |-> bs[n].owner, coin |-> n, price |-> bs[n].price]}
           /\ \A m \in Nfts : StockIn(bs, t, bs[n].id)[m] =
                 IF m.bank = bs[n].base_nft_contract
                 THEN WithId(BoxesIn(t, bs[n].id), m.id) ELSE 0
<1>1. {m \in DOMAIN bs : bs[m].id = bs[n].id} = {n}
  BY DEF OwnIds
<1> QED BY <1>1 DEF TermsIn, StockIn, BankIn

\* A booth has as much as its boxes.
LEMMA StockSum ==
    ASSUME NEW u, IsBoxes(u), IsFiniteSet(Nfts), NEW bank,
           \A x \in DOMAIN u : \E m \in Nfts : m.bank = bank /\ m.id = u[x].id,
           NEW g, \A m \in Nfts : g[m] = IF m.bank = bank THEN WithId(u, m.id) ELSE 0
    PROVE  Sum(g, Nfts) = AllAmounts(u)
<1> DEFINE D == DOMAIN u
           w == Amounts(u)
           h == [x \in D |-> CHOOSE m \in Nfts : m.bank = bank /\ m.id = u[x].id]
<1>1. IsFiniteSet(D) /\ \A x \in D : u[x].amount \in Int /\ w[x] = u[x].amount
  BY BoxesAre
<1>2. \A x \in D : h[x] \in Nfts /\ h[x].bank = bank /\ h[x].id = u[x].id
  OBVIOUS
<1>3. ASSUME NEW m \in Nfts PROVE g[m] = Sum(w, Group(D, h, m))
  <2>1. CASE m.bank = bank
    <3>1. Group(D, h, m) = {x \in D : u[x].id = m.id}
      <4>1. \A x \in D : h[x] = m <=> u[x].id = m.id
        <5> HIDE DEF D, h
        <5> QED BY <1>2, <2>1, SwapInputs
      <4> HIDE DEF D, h
      <4> QED BY <4>1 DEF Group
    <3> QED BY <2>1, <3>1, WithIdIs
  <2>2. CASE m.bank # bank
    <3>1. Group(D, h, m) = {}
      <4> HIDE DEF D, h
      <4> QED BY <1>2, <2>2 DEF Group
    <3> QED BY <2>2, <3>1, SumEmpty
  <2> QED BY <2>1, <2>2
<1>4. Sum(g, Nfts) = Sum(w, D)
  <2>1. \A x \in D : w[x] \in Int /\ h[x] \in Nfts
    BY <1>1, <1>2
  <2>2. \A a \in Nfts : g[a] = Sum(w, Group(D, h, a))
    BY <1>3
  <2>3. IsFiniteSet(D)
    BY <1>1
  <2> HIDE DEF D, h, w
  <2> QED BY <2>1, <2>2, <2>3, SumGroups
<1> QED BY <1>4 DEF AllAmounts

\* Terms and stock of booth b become t and s, and those of the others stay.
BoothBecomes(b, t, s) ==
    /\ termsBar' = [termsBar EXCEPT ![b] = t]
    /\ stockBar' = [stockBar EXCEPT ![b] = s]

LEMMA OneBooth ==
    ASSUME Keyed(boothboxes), Keyed(boothboxes'), NEW b \in BoothIds,
           \A c \in BoothIds \ {b} : /\ Alike(booths, booths', c)
                                     /\ BoxesIn(boothboxes', c) = BoxesIn(boothboxes, c)
    PROVE  BoothBecomes(b, TermsIn(booths', b), StockIn(booths', boothboxes', b))
<1>1. \A c \in BoothIds \ {b} : /\ TermsIn(booths', c) = TermsIn(booths, c)
                                /\ StockIn(booths', boothboxes', c) = StockIn(booths, boothboxes, c)
  BY AlikeIs
<1>2. /\ termsBar = [c \in BoothIds |-> TermsIn(booths, c)]
      /\ stockBar = [c \in BoothIds |-> StockIn(booths, boothboxes, c)]
  BY BarsAre
<1>3. /\ termsBar' = [c \in BoothIds |-> TermsIn(booths', c)]
      /\ stockBar' = [c \in BoothIds |-> StockIn(booths', boothboxes', c)]
  BY BarsNext
<1>4. [termsBar EXCEPT ![b] = TermsIn(booths', b)]
         = [c \in BoothIds |-> IF c = b THEN TermsIn(booths', b) ELSE TermsIn(booths, c)]
  BY <1>2
<1>5. [stockBar EXCEPT ![b] = StockIn(booths', boothboxes', b)]
         = [c \in BoothIds |-> IF c = b THEN StockIn(booths', boothboxes', b)
                               ELSE StockIn(booths, boothboxes, c)]
  BY <1>2
<1>6. termsBar' = [termsBar EXCEPT ![b] = TermsIn(booths', b)]
  BY <1>1, <1>3, <1>4
<1>7. stockBar' = [stockBar EXCEPT ![b] = StockIn(booths', boothboxes', b)]
  BY <1>1, <1>3, <1>5
<1> QED BY <1>6, <1>7 DEF BoothBecomes

\* Nothing of what the raffle promises changes.
LEMMA NothingMoves ==
    ASSUME SwapInv, UNCHANGED <<last_booth_id, boothboxes, nft, kept>>,
           DOMAIN booths' = DOMAIN booths,
           \A n \in DOMAIN booths : SameRow(booths[n], booths'[n]) /\ booths'[n].owner = booths[n].owner
    PROVE  UNCHANGED AsRaffle!promised
<1>1. Keyed(boothboxes) /\ Keyed(boothboxes')
  BY TypedTables DEF SwapInv
<1>2. \A b : Alike(booths, booths', b)
  BY DEF Alike, SameRow
<1>3. termsBar' = termsBar /\ stockBar' = stockBar
  BY <1>1, <1>2, AlikeIs, BarsAre, BarsNext
<1>4. tillBar' = tillBar /\ purseBar' = purseBar /\ usedBar' = usedBar
  BY DEF tillBar, purseBar, usedBar, SameRow
<1> QED BY <1>3, <1>4 DEF AsRaffle!promised

\* Only u's purse changes, and becomes p.
LEMMA PurseBecomes ==
    ASSUME nft \in [Accounts -> [Nfts -> Nat]], nft' \in [Accounts -> [Nfts -> Nat]],
           NEW u \in Users, \A v \in Users \ {u} : nft'[v] = nft[v],
           NEW p, p = [a \in Nfts \cup Nfts |-> p[a]], \A m \in Nfts : nft'[u][m] = p[m]
    PROVE  purseBar' = [purseBar EXCEPT ![u] = p]
<1>1. u \in Accounts
  BY DEF Accounts
<1>2. nft'[u] = p
  <2>1. nft'[u] = [m \in Nfts |-> nft'[u][m]] /\ p = [m \in Nfts |-> p[m]]
    BY <1>1
  <2> QED BY <2>1
<1>3. purseBar' = [v \in Users |-> IF v = u THEN p ELSE nft[v]]
  BY <1>2 DEF purseBar
<1>4. [purseBar EXCEPT ![u] = p] = [v \in Users |-> IF v = u THEN p ELSE nft[v]]
  BY DEF purseBar
<1> QED BY <1>3, <1>4

\* A refuel or a swap, as the raffle sees it.
LEMMA DealIs ==
    ASSUME SwapInv, SwapInv', NEW u \in Users, NEW n, NEW r, Deals(u, n, r),
           NEW b, b = booths[n].id, NEW paid, paid = r.quote_nft_recd - booths[n].quote_nft_recd
    PROVE  /\ b \in BoothIds /\ n \in Nfts /\ paid \in Int
           /\ usedBar' = usedBar /\ termsBar' = termsBar
           /\ termsBar[b] = {[owner |-> booths[n].owner, coin |-> n, price |-> booths[n].price]}
           /\ stockBar' = [stockBar EXCEPT ![b] = stockBar'[b]]
           /\ \A m \in Nfts :
                 /\ stockBar[b][m] = (IF m.bank = booths[n].base_nft_contract
                                      THEN WithId(BoxesIn(boothboxes, b), m.id) ELSE 0)
                 /\ stockBar'[b][m] = (IF m.bank = booths[n].base_nft_contract
                                       THEN WithId(BoxesIn(boothboxes', b), m.id) ELSE 0)
                 /\ stockBar[b][m] \in Int /\ stockBar'[b][m] \in Int
                 /\ tillBar[m] \in Nat /\ tillBar'[m] = tillBar[m] + (IF m = n THEN paid ELSE 0)
                 /\ nft'[u][m] = nft[u][m] - (IF m = n THEN paid ELSE 0)
                                           + (stockBar[b][m] - stockBar'[b][m])
           /\ \A v \in Users \ {u} : nft'[v] = nft[v]
<1> DEFINE row == booths[n]
           w == BoxesIn(boothboxes, b)
           w2 == BoxesIn(boothboxes', b)
<1>1. Typed /\ Typed' /\ Keyed(boothboxes) /\ OwnIds(booths)
  BY TypedTables DEF SwapInv
<1>2. /\ n \in DOMAIN booths /\ n \in Quotes /\ r \in BoothRow /\ booths' = [booths EXCEPT ![n] = r]
      /\ r.id = b /\ r.base_nft_contract = row.base_nft_contract
      /\ r.owner = row.owner /\ r.price = row.price
      /\ UNCHANGED <<last_booth_id, kept>> /\ Settled(n, r) /\ Between(u)
      /\ \A k \in DOMAIN boothboxes \cup DOMAIN boothboxes' :
            k[1] = b \/ (k \in DOMAIN boothboxes /\ k \in DOMAIN boothboxes'
                            /\ boothboxes'[k] = boothboxes[k])
  BY <1>1 DEF Deals, Trades, Typed, IsTable
<1>3. Keyed(boothboxes')
  <2>1. (1 .. last_booth_id') \X Nat \subseteq Nat \X Nat
    BY <1>1 DEF Typed
  <2>2. IsFiniteSet(DOMAIN boothboxes') /\ IsTable(boothboxes', (1 .. last_booth_id') \X Nat, BoxRow)
    BY <1>1 DEF Typed
  <2> QED BY <2>1, <2>2, WidenTable DEF Keyed
<1>4. /\ DOMAIN booths' = DOMAIN booths /\ booths'[n] = r
      /\ \A q \in DOMAIN booths : q = n \/ booths'[q] = booths[q]
  BY <1>2
<1>5. b \in BoothIds /\ n \in Nfts /\ row \in BoothRow /\ row.id = b
  BY <1>1, <1>2, SwapInputs DEF Typed, IsTable, BoothRow
<1>6. OwnIds(booths')
  BY <1>1, <1>2, <1>4 DEF OwnIds
<1>7. \A c : Alike(booths, booths', c)
  <2>1. \A q \in DOMAIN booths : /\ booths'[q].id = booths[q].id
                                 /\ booths'[q].owner = booths[q].owner
                                 /\ booths'[q].price = booths[q].price
                                 /\ booths'[q].base_nft_contract = booths[q].base_nft_contract
    BY <1>2, <1>4
  <2> QED BY <1>4, <2>1 DEF Alike
<1>8. ASSUME NEW c \in BoothIds \ {b} PROVE BoxesIn(boothboxes', c) = BoxesIn(boothboxes, c)
  <2>1. \A x \in Nat : <<c, x>>[1] # b
    OBVIOUS
  <2>2. /\ \A x \in Nat : <<c, x>> \in DOMAIN boothboxes <=> <<c, x>> \in DOMAIN boothboxes'
        /\ \A x \in Nat : <<c, x>> \in DOMAIN boothboxes =>
                             boothboxes'[<<c, x>>] = boothboxes[<<c, x>>]
    BY <1>2, <2>1
  <2>3. c \in Nat
    BY DEF BoothIds
  <2> QED BY <1>1, <1>3, <2>2, <2>3, Unmoved
<1>9. BoothBecomes(b, TermsIn(booths', b), StockIn(booths', boothboxes', b))
  BY <1>1, <1>3, <1>5, <1>7, <1>8, OneBooth
<1>10. /\ termsBar[b] = TermsIn(booths, b) /\ TermsIn(booths', b) = TermsIn(booths, b)
       /\ stockBar[b] = StockIn(booths, boothboxes, b)
       /\ stockBar'[b] = StockIn(booths', boothboxes', b)
  BY <1>1, <1>3, <1>5, <1>7, AlikeIs, BarsAre, BarsNext
<1>11. termsBar' = termsBar /\ stockBar' = [stockBar EXCEPT ![b] = stockBar'[b]]
  <2>1. termsBar = [c \in BoothIds |-> termsBar[c]]
    BY DEF termsBar
  <2> QED BY <1>5, <1>9, <1>10, <2>1 DEF BoothBecomes
<1>12. /\ termsBar[b] = {[owner |-> row.owner, coin |-> n, price |-> row.price]}
       /\ \A m \in Nfts :
             stockBar[b][m] = IF m.bank = row.base_nft_contract THEN WithId(w, m.id) ELSE 0
  <2>1. n \in DOMAIN booths /\ b = booths[n].id
    BY <1>2
  <2>2. /\ TermsIn(booths, b) = {[owner |-> row.owner, coin |-> n, price |-> row.price]}
        /\ \A m \in Nfts : StockIn(booths, boothboxes, b)[m] =
              IF m.bank = row.base_nft_contract THEN WithId(w, m.id) ELSE 0
    BY <1>1, <2>1, BoothIs
  <2> HIDE DEF row, w
  <2> QED BY <1>10, <2>2
<1>13. \A m \in Nfts :
             stockBar'[b][m] = IF m.bank = row.base_nft_contract THEN WithId(w2, m.id) ELSE 0
  <2>1. n \in DOMAIN booths' /\ booths'[n].id = b
        /\ booths'[n].base_nft_contract = row.base_nft_contract
    BY <1>2, <1>4
  <2> HIDE DEF row
  <2> QED BY <1>6, <1>10, <2>1, BoothIs
<1>14. ASSUME NEW m \in Nfts
       PROVE  WithId(w, m.id) \in Int /\ WithId(w2, m.id) \in Int
  <2>1. IsBoxes(w) /\ IsBoxes(w2)
    <3>1. b \in Nat
      BY <1>5 DEF BoothIds
    <3> QED BY <1>1, <1>3, <3>1, BoxesInAre
  <2>2. /\ IsFiniteSet(DOMAIN w) /\ \A x \in DOMAIN w : IdAmounts(w, m.id)[x] \in Int
        /\ IsFiniteSet(DOMAIN w2) /\ \A x \in DOMAIN w2 : IdAmounts(w2, m.id)[x] \in Int
    BY <2>1, BoxesAre
  <2> HIDE DEF w, w2
  <2> QED BY <2>2, SumInt DEF WithId
<1>15. paid \in Int /\ \A q \in DOMAIN booths : booths[q].quote_nft_recd \in Nat
  BY <1>1, <1>2 DEF BoothRow, Typed, IsTable
<1>16. ASSUME NEW m \in Nfts
       PROVE  tillBar[m] \in Nat /\ tillBar'[m] = tillBar[m] + (IF m = n THEN paid ELSE 0)
  <2>1. /\ tillBar[m] = kept[m] + (IF m \in DOMAIN booths THEN booths[m].quote_nft_recd ELSE 0)
        /\ tillBar'[m] = kept[m] + (IF m \in DOMAIN booths THEN booths'[m].quote_nft_recd ELSE 0)
    BY <1>2, <1>4 DEF tillBar
  <2>2. kept[m] \in Nat
    BY <1>1 DEF Typed
  <2>3. r.quote_nft_recd \in Nat
    BY <1>2 DEF BoothRow
  <2> HIDE DEF row
  <2>4. CASE m = n
    BY <1>2, <1>4, <1>15, <2>1, <2>2, <2>3, <2>4
  <2>5. CASE m # n
    BY <1>4, <1>15, <2>1, <2>2, <2>5
  <2> QED BY <2>4, <2>5
<1>17. ASSUME NEW m \in Nfts
       PROVE  nft'[u][m] = nft[u][m] - (IF m = n THEN paid ELSE 0)
                                     + (stockBar[b][m] - stockBar'[b][m])
  <2> DEFINE e == IF m = n THEN paid ELSE 0
             f == IF m.bank = row.base_nft_contract THEN WithId(w2, m.id) - WithId(w, m.id) ELSE 0
  <2>1. nft'[Swap][m] = nft[Swap][m] + e + f
    BY <1>2 DEF Settled
  <2>2. nft'[u][m] - nft[u][m] = nft[Swap][m] - nft'[Swap][m]
    BY <1>2 DEF Between
  <2>3. /\ nft[u][m] \in Nat /\ nft'[u][m] \in Nat /\ nft[Swap][m] \in Nat /\ nft'[Swap][m] \in Nat
    BY <1>1 DEF Typed, Accounts
  <2>4. e \in Int /\ f \in Int /\ stockBar[b][m] - stockBar'[b][m] = 0 - f
    <3> HIDE DEF w, w2, row
    <3> QED BY <1>12, <1>13, <1>14, <1>15
  <2> HIDE DEF e, f
  <2>5. nft'[u][m] = nft[u][m] - e + (0 - f)
    BY <2>1, <2>2, <2>3, <2>4
  <2> QED BY <2>4, <2>5 DEF e
<1>18. usedBar' = usedBar /\ \A v \in Users \ {u} : nft'[v] = nft[v]
  BY <1>2 DEF usedBar, Between
<1>19. \A m \in Nfts : stockBar[b][m] \in Int /\ stockBar'[b][m] \in Int
  <2> HIDE DEF w, w2, row
  <2> QED BY <1>12, <1>13, <1>14
<1> QED BY <1>5, <1>11, <1>12, <1>13, <1>15, <1>16, <1>17, <1>18, <1>19

\* NFTs that come in fill the booth.
LEMMA RefuelFills ==
    ASSUME SwapInv, SwapInv', NEW u \in Owners, NEW n, NEW r, Refuels(u, n, r)
    PROVE  AsRaffle!Step
<1> DEFINE b == booths[n].id
           t == [owner |-> booths[n].owner, coin |-> n, price |-> booths[n].price]
           bag == [m \in Nfts |-> stockBar'[b][m] - stockBar[b][m]]
           p == [a \in Nfts \cup Nfts |-> purseBar[u][a] - AsRaffle!Of(bag, a)]
<1>1. /\ Deals(u, n, r) /\ booths[n].owner = u /\ r.quote_nft_recd = booths[n].quote_nft_recd
      /\ \A i : WithId(BoxesIn(boothboxes, b), i) <= WithId(BoxesIn(boothboxes', b), i)
  BY DEF Refuels
<1>2. /\ nft \in [Accounts -> [Nfts -> Nat]] /\ nft' \in [Accounts -> [Nfts -> Nat]]
      /\ u \in Users /\ u \in Accounts
  BY SwapAccounts DEF SwapInv, Typed, Accounts
<1>3. 0 = r.quote_nft_recd - booths[n].quote_nft_recd
  BY <1>1 DEF Deals, Trades, BoothRow
<1>0. Deals(u, n, r) /\ u \in Users /\ b = booths[n].id
  BY <1>1, <1>2
<1> HIDE DEF b, bag, p
<1>4. /\ b \in BoothIds /\ usedBar' = usedBar /\ termsBar' = termsBar /\ termsBar[b] = {t}
      /\ stockBar' = [stockBar EXCEPT ![b] = stockBar'[b]]
      /\ \A m \in Nfts :
            /\ stockBar[b][m] = (IF m.bank = booths[n].base_nft_contract
                                 THEN WithId(BoxesIn(boothboxes, b), m.id) ELSE 0)
            /\ stockBar'[b][m] = (IF m.bank = booths[n].base_nft_contract
                                  THEN WithId(BoxesIn(boothboxes', b), m.id) ELSE 0)
            /\ stockBar[b][m] \in Int /\ stockBar'[b][m] \in Int
            /\ tillBar[m] \in Nat /\ tillBar'[m] = tillBar[m] + (IF m = n THEN 0 ELSE 0)
            /\ nft'[u][m] = nft[u][m] - (IF m = n THEN 0 ELSE 0)
                                      + (stockBar[b][m] - stockBar'[b][m])
      /\ \A v \in Users \ {u} : nft'[v] = nft[v]
  BY <1>0, <1>3, DealIs
<1>5. tillBar' = tillBar
  <2>1. tillBar = [m \in Nfts |-> tillBar[m]] /\ tillBar' = [m \in Nfts |-> tillBar'[m]]
    BY DEF tillBar
  <2>2. \A m \in Nfts : tillBar'[m] = tillBar[m]
    BY <1>4
  <2> QED BY <2>1, <2>2
<1>6. DOMAIN bag = Nfts /\ \A m \in Nfts : bag[m] = stockBar'[b][m] - stockBar[b][m]
  BY DEF bag
<1>7. \A m \in Nfts : /\ bag[m] \in 0 .. purseBar[u][m] /\ nft'[u][m] = nft[u][m] - bag[m]
                      /\ purseBar[u][m] = nft[u][m]
  <2> TAKE m \in Nfts
  <2>1. purseBar[u][m] = nft[u][m] /\ nft[u][m] \in Nat /\ nft'[u][m] \in Nat
    BY <1>2 DEF purseBar
  <2>2. stockBar[b][m] <= stockBar'[b][m]
    <3>1. WithId(BoxesIn(boothboxes, b), m.id) <= WithId(BoxesIn(boothboxes', b), m.id)
      BY <1>1 DEF b
    <3> QED BY <1>4, <3>1
  <2>3. /\ stockBar[b][m] \in Int /\ stockBar'[b][m] \in Int
        /\ nft'[u][m] = nft[u][m] + (stockBar[b][m] - stockBar'[b][m])
    BY <1>4, <2>1
  <2> QED BY <1>6, <2>1, <2>2, <2>3
<1>8. purseBar' = [purseBar EXCEPT ![u] = p]
  <2>1. p = [a \in Nfts \cup Nfts |-> p[a]] /\ \A m \in Nfts : p[m] = purseBar[u][m] - bag[m]
    BY <1>6 DEF AsRaffle!Of, p
  <2>2. \A m \in Nfts : nft'[u][m] = p[m]
    BY <1>7, <2>1
  <2>3. \A v \in Users \ {u} : nft'[v] = nft[v]
    BY <1>4
  <2> QED BY <1>2, <2>1, <2>2, <2>3, PurseBecomes
<1>9. AsRaffle!Fill(b)
  <2>1. t.owner = u
    BY <1>1
  <2>2. \A g \in Nfts : bag[g] \in 0 .. purseBar[u][g]
    BY <1>7
  <2> HIDE DEF t
  <2> QED BY <1>4, <1>5, <1>8, <2>1, <2>2 DEF AsRaffle!Fill, bag, p
<1> QED BY <1>4, <1>9 DEF AsRaffle!Step

\* No box of a booth where nothing was set by hand is empty.
LEMMA NoneNegative ==
    ASSUME NEW boxes, IsBoxes(boxes), \A x \in DOMAIN boxes : boxes[x].amount > 0, NEW t
    PROVE  WithId(boxes, t) \in Nat
<1>1. IsFiniteSet(DOMAIN boxes) /\ \A x \in DOMAIN boxes : IdAmounts(boxes, t)[x] \in Nat
  BY BoxesAre
<1> QED BY <1>1, SumNat DEF WithId

\* A swap is a draw.
LEMMA SwapDraws ==
    ASSUME SwapInv, SwapInv', touched' = {}, touched = {}, IsFiniteSet(Nfts), NEW u \in Users,
           NEW n, NEW amount \in Nat, NEW r, Swaps(u, n, amount, r)
    PROVE  AsRaffle!Step
<1> DEFINE row == booths[n]
           b == row.id
           t == [owner |-> row.owner, coin |-> n, price |-> row.price]
           w == BoxesIn(boothboxes, b)
           w2 == BoxesIn(boothboxes', b)
           bag == [m \in Nfts |-> stockBar[b][m] - stockBar'[b][m]]
           p == [a \in Nfts \cup Nfts |->
                    purseBar[u][a] - (IF a = n THEN amount ELSE 0) + AsRaffle!Of(bag, a)]
<1>1. /\ Deals(u, n, r) /\ amount \in 1 .. nft[u][n]
      /\ r.quote_nft_recd = row.quote_nft_recd + amount /\ r.base_nft_sum = row.base_nft_sum
      /\ \A i \in TokenIds : WithId(w2, i) <= WithId(w, i)
  BY DEF Swaps
<1>2. /\ nft \in [Accounts -> [Nfts -> Nat]] /\ nft' \in [Accounts -> [Nfts -> Nat]]
      /\ u \in Accounts
  BY SwapAccounts DEF SwapInv, Typed, Accounts
<1>3. /\ row \in BoothRow /\ r \in BoothRow /\ r.id = b /\ n \in DOMAIN booths
      /\ r.base_nft_contract = row.base_nft_contract /\ r.price = row.price
      /\ booths' = [booths EXCEPT ![n] = r]
  BY <1>1 DEF Deals, Trades, SwapInv, Typed, IsTable
<1>4. r.quote_nft_recd - row.quote_nft_recd = amount
  <2>1. row.quote_nft_recd \in Nat
    BY <1>3 DEF BoothRow
  <2> HIDE DEF row
  <2> QED BY <1>1, <2>1
<1>5. /\ b \in BoothIds /\ n \in Nfts
      /\ usedBar' = usedBar /\ termsBar' = termsBar /\ termsBar[b] = {t}
      /\ stockBar' = [stockBar EXCEPT ![b] = stockBar'[b]]
      /\ \A m \in Nfts :
            /\ stockBar[b][m] = (IF m.bank = row.base_nft_contract THEN WithId(w, m.id) ELSE 0)
            /\ stockBar'[b][m] = (IF m.bank = row.base_nft_contract THEN WithId(w2, m.id) ELSE 0)
            /\ stockBar[b][m] \in Int /\ stockBar'[b][m] \in Int
            /\ tillBar[m] \in Nat /\ tillBar'[m] = tillBar[m] + (IF m = n THEN amount ELSE 0)
            /\ nft'[u][m] = nft[u][m] - (IF m = n THEN amount ELSE 0)
                                      + (stockBar[b][m] - stockBar'[b][m])
      /\ \A v \in Users \ {u} : nft'[v] = nft[v]
  BY <1>1, <1>4, DealIs
<1>6. Sound(row, w) /\ Sound(r, w2)
  <2>1. n \in DOMAIN booths' /\ booths'[n] = r
    BY <1>3
  <2> QED BY <1>3, <2>1 DEF SwapInv, AllSound
<1>7. IsBoxes(w) /\ IsBoxes(w2)
  <2>1. Keyed(boothboxes) /\ b \in Nat
    BY <1>5, TypedTables DEF SwapInv, BoothIds
  <2>2. Keyed(boothboxes')
    <3>1. (1 .. last_booth_id') \X Nat \subseteq Nat \X Nat
      BY DEF SwapInv, Typed
    <3>2. IsFiniteSet(DOMAIN boothboxes') /\ IsTable(boothboxes', (1 .. last_booth_id') \X Nat, BoxRow)
      BY DEF SwapInv, Typed
    <3> QED BY <3>1, <3>2, WidenTable DEF Keyed
  <2> QED BY <2>1, <2>2, BoxesInAre
<1> HIDE DEF row, b, w, w2
<1>8. DOMAIN bag = Nfts /\ \A m \in Nfts : bag[m] = stockBar[b][m] - stockBar'[b][m]
  OBVIOUS
<1> HIDE DEF bag
<1>9. \A m \in Nfts : bag[m] \in 0 .. stockBar[b][m]
  <2> TAKE m \in Nfts
  <2>1. m.id \in TokenIds
    BY DEF TokenIds
  <2>2. WithId(w2, m.id) \in Nat
    BY <1>6, <1>7, NoneNegative DEF Sound
  <2>3. WithId(w2, m.id) <= WithId(w, m.id)
    BY <1>1, <2>1
  <2>4. 0 <= stockBar'[b][m] /\ stockBar'[b][m] <= stockBar[b][m]
    BY <1>5, <2>2, <2>3
  <2> QED BY <1>5, <1>8, <2>4
<1>10. r.price * AsRaffle!SumFunction(bag) = amount
  <2> DEFINE s == stockBar[b]
             s2 == stockBar'[b]
  <2>1. AsRaffle!SumFunction(bag) = Sum(bag, Nfts)
    BY <1>8, SumsAgree, SumFunctionIsSum
  <2>2. /\ \A m \in Nfts : s[m] = IF m.bank = row.base_nft_contract THEN WithId(w, m.id) ELSE 0
        /\ \A m \in Nfts : s2[m] = IF m.bank = row.base_nft_contract THEN WithId(w2, m.id) ELSE 0
    BY <1>5
  <2>3. \A m \in Nfts : s2[m] \in Int /\ bag[m] \in Int /\ s[m] = s2[m] + bag[m]
    BY <1>5, <1>8
  <2> HIDE DEF s, s2
  <2>4. Sum(s, Nfts) = AllAmounts(w)
    <3>1. \A x \in DOMAIN w : \E m \in Nfts : m.bank = row.base_nft_contract /\ m.id = w[x].id
      BY <1>6 DEF Sound
    <3> QED BY <1>7, <2>2, <3>1, StockSum
  <2>5. Sum(s2, Nfts) = AllAmounts(w2)
    <3>1. \A x \in DOMAIN w2 : \E m \in Nfts : m.bank = row.base_nft_contract /\ m.id = w2[x].id
      BY <1>3, <1>6 DEF Sound
    <3> QED BY <1>7, <2>2, <3>1, StockSum
  <2>6. Sum(s, Nfts) = Sum(s2, Nfts) + Sum(bag, Nfts)
    BY <2>3, SumPlus
  <2>7. Sum(bag, Nfts) \in Int
    BY <2>3, SumInt
  <2> DEFINE c == Sum(bag, Nfts)
             q == r.price
             d == row.base_nft_sum - row.base_nft_num
  <2>8. row.base_nft_num = AllAmounts(w) /\ r.base_nft_num = AllAmounts(w2)
    BY <1>6 DEF Sound
  <2>9. /\ row.base_nft_num \in Nat /\ r.base_nft_num \in Nat /\ row.base_nft_sum \in Nat
        /\ q \in Nat
    BY <1>3, SwapInputs DEF BoothRow
  <2>10. c \in Int /\ d \in Int /\ r.base_nft_sum - r.base_nft_num = d + c
    <3>1. c \in Int /\ row.base_nft_num = r.base_nft_num + c
      BY <2>4, <2>5, <2>6, <2>7, <2>8
    <3>2. r.base_nft_sum = row.base_nft_sum
      BY <1>1
    <3> HIDE DEF c
    <3> QED BY <2>9, <3>1, <3>2
  <2>11. row.quote_nft_recd = q * d /\ r.quote_nft_recd = q * (d + c)
    <3>1. row.price = q
      BY <1>3
    <3>2. row.quote_nft_recd = row.price * d
      BY <1>6 DEF Sound
    <3>3. r.quote_nft_recd = q * (r.base_nft_sum - r.base_nft_num)
      BY <1>6 DEF Sound
    <3> HIDE DEF q, c, d
    <3> QED BY <2>10, <3>1, <3>2, <3>3
  <2>12. r.quote_nft_recd = row.quote_nft_recd + amount
    BY <1>1
  <2>13. AsRaffle!SumFunction(bag) = c
    BY <2>1
  <2> HIDE DEF c, q, d
  <2>14. q * (d + c) = q * d + q * c /\ q * d \in Int /\ q * c \in Int
    BY <2>9, <2>10
  <2>15. q * c = amount
    <3> DEFINE x == q * d
               y == q * c
    <3>1. r.quote_nft_recd = x + y /\ r.quote_nft_recd = x + amount /\ x \in Int /\ y \in Int
      BY <2>11, <2>12, <2>14
    <3> HIDE DEF x, y
    <3>2. y = amount
      BY <3>1
    <3> QED BY <3>2 DEF y
  <2> QED BY <2>13, <2>15 DEF q
<1>11. purseBar[u][n] = nft[u][n] /\ amount \in 1 .. purseBar[u][n]
  BY <1>1, <1>5 DEF purseBar
<1>12. purseBar' = [purseBar EXCEPT ![u] = p]
  <2>1. /\ p = [a \in Nfts \cup Nfts |-> p[a]]
        /\ \A m \in Nfts : p[m] = purseBar[u][m] - (IF m = n THEN amount ELSE 0) + bag[m]
    BY <1>8 DEF AsRaffle!Of
  <2>2. \A m \in Nfts : purseBar[u][m] = nft[u][m]
    BY DEF purseBar
  <2> HIDE DEF p
  <2>3. \A m \in Nfts : nft'[u][m] = p[m]
    BY <1>5, <1>8, <2>1, <2>2
  <2>4. \A v \in Users \ {u} : nft'[v] = nft[v]
    BY <1>5
  <2> QED BY <1>2, <2>1, <2>3, <2>4, PurseBecomes
<1>13. tillBar' = [tillBar EXCEPT ![n] = @ + amount]
  <2>1. tillBar = [m \in Nfts |-> tillBar[m]] /\ tillBar' = [m \in Nfts |-> tillBar'[m]]
    BY DEF tillBar
  <2>2. \A m \in Nfts : tillBar'[m] = [tillBar EXCEPT ![n] = @ + amount][m]
    BY <1>5, <2>1
  <2> QED BY <2>1, <2>2
<1>14. AsRaffle!Draw(u, b)
  <2>1. t.coin = n /\ t.price * AsRaffle!SumFunction(bag) = amount
    BY <1>3, <1>10
  <2>2. t \in termsBar[b] /\ usedBar' = usedBar /\ termsBar' = termsBar
        /\ stockBar' = [stockBar EXCEPT ![b] = stockBar'[b]]
    BY <1>5
  <2> HIDE DEF t
  <2> QED BY <1>9, <1>11, <1>12, <1>13, <2>1, <2>2 DEF AsRaffle!Draw, bag
<1> QED BY <1>5, <1>14 DEF AsRaffle!Step

\* A new booth is opened, under an id no box was ever filed under.
LEMMA CreateOpens ==
    ASSUME SwapInv, NEW u \in Owners, NEW bank \in BaseBanks, NEW n \in Quotes, NEW p \in Prices,
           NEW t \in Times, createbooth(u, bank, n, p, t[1], t[2])
    PROVE  AsRaffle!Step
<1> DEFINE b == last_booth_id + 1
           r == booths'[n]
           term == [owner |-> u, coin |-> n, price |-> p]
<1>1. PICK left \in Leftovers : booths' = Emplace(booths, n,
                [id |-> NewBoothId(n), owner |-> u, base_nft_contract |-> bank,
                 price |-> p, opened_at |-> t[1], closed_at |-> t[2],
                 base_nft_sum |-> left.sum, base_nft_num |-> left.num,
                 base_nftbox_sum |-> left.boxsum, base_nftbox_num |-> left.boxnum,
                 quote_nft_recd |-> 0, status |-> "enabled"])
  BY DEF createbooth
<1>2. /\ n \notin DOMAIN booths /\ last_booth_id < MaxBooths /\ last_booth_id' = b
      /\ UNCHANGED <<boothboxes, nft, kept>>
  BY DEF createbooth
<1>3. /\ Typed /\ Keyed(boothboxes) /\ Keyed(boothboxes') /\ last_booth_id \in Nat
      /\ MaxBooths \in Nat
  BY <1>2, TypedTables, SwapInputs DEF SwapInv, Typed
<1>4. /\ DOMAIN booths' = DOMAIN booths \cup {n}
      /\ \A q \in DOMAIN booths : booths'[q] = booths[q]
      /\ r.id = b /\ r.owner = u /\ r.price = p /\ r.quote_nft_recd = 0
  <2> DEFINE row == [id |-> b, owner |-> u, base_nft_contract |-> bank,
                     price |-> p, opened_at |-> t[1], closed_at |-> t[2],
                     base_nft_sum |-> left.sum, base_nft_num |-> left.num,
                     base_nftbox_sum |-> left.boxsum, base_nftbox_num |-> left.boxnum,
                     quote_nft_recd |-> 0, status |-> "enabled"]
  <2>1. booths' = Emplace(booths, n, row)
    BY <1>1 DEF NewBoothId
  <2>2. row.id = b /\ row.owner = u /\ row.price = p /\ row.quote_nft_recd = 0
    OBVIOUS
  <2> HIDE DEF row
  <2>3. /\ DOMAIN booths' = DOMAIN booths \cup {n}
        /\ \A q \in DOMAIN booths : q # n => booths'[q] = booths[q]
        /\ booths'[n] = row
    BY <1>2, <2>1 DEF Emplace
  <2> QED BY <1>2, <2>2, <2>3
<1> HIDE DEF r
<1>5. b \in BoothIds /\ b \notin usedBar /\ usedBar' = usedBar \cup {b}
  BY <1>2, <1>3 DEF usedBar, BoothIds
<1>6. \A q \in DOMAIN booths : booths[q].id # b
  BY <1>3 DEF Typed
<1>7. DOMAIN BoxesIn(boothboxes, b) = {}
  <2>1. \A k \in DOMAIN boothboxes : k[1] # b
    BY <1>3 DEF Typed, IsTable
  <2> HIDE DEF b
  <2> QED BY <2>1 DEF BoxesIn
<1> HIDE DEF b
<1>8. \A c \in BoothIds \ {b} : /\ Alike(booths, booths', c)
                                /\ BoxesIn(boothboxes', c) = BoxesIn(boothboxes, c)
  BY <1>2, <1>4 DEF Alike, r
<1>9. BoothBecomes(b, TermsIn(booths', b), StockIn(booths', boothboxes', b))
  BY <1>3, <1>5, <1>8, OneBooth
<1>10. TermsIn(booths', b) = {term}
  <2>1. {q \in DOMAIN booths' : booths'[q].id = b} = {n}
    BY <1>4, <1>6 DEF r
  <2> QED BY <1>4, <2>1 DEF TermsIn, r
<1>11. \A i : WithId(BoxesIn(boothboxes, b), i) = 0
  BY <1>7, SumEmpty DEF WithId
<1>12. StockIn(booths', boothboxes', b) = stockBar[b]
  <2>1. \A bs : StockIn(bs, boothboxes, b) = [m \in Nfts |-> 0]
    BY <1>11 DEF StockIn
  <2>2. stockBar[b] = StockIn(booths, boothboxes, b)
    BY <1>3, <1>5, BarsAre
  <2> QED BY <1>2, <2>1, <2>2
<1>13. termsBar' = [termsBar EXCEPT ![b] = {term}] /\ stockBar' = stockBar
  <2>1. stockBar = [stockBar EXCEPT ![b] = stockBar[b]]
    BY DEF stockBar
  <2> HIDE DEF term
  <2> QED BY <1>9, <1>10, <1>12, <2>1 DEF BoothBecomes
<1>14. tillBar' = tillBar /\ purseBar' = purseBar
  <2>1. \A m \in Nfts : (IF m \in DOMAIN booths' THEN booths'[m].quote_nft_recd ELSE 0)
                            = IF m \in DOMAIN booths THEN booths[m].quote_nft_recd ELSE 0
    BY <1>2, <1>4 DEF r
  <2> QED BY <1>2, <2>1 DEF tillBar, purseBar
<1>15. AsRaffle!Open(u, n, p, b)
  BY <1>5, <1>13, <1>14 DEF AsRaffle!Open
<1>16. u \in Users /\ n \in Nfts
  BY SwapAccounts, SwapInputs
<1> QED BY <1>5, <1>15, <1>16 DEF AsRaffle!Step

\* A booth that closes gives nothing back, and keeps what it received.
LEMMA CloseKeeps ==
    ASSUME SwapInv, NEW n \in Quotes, closebooth(n)
    PROVE  AsRaffle!Step
<1> DEFINE row == booths[n]
           b == row.id
           t == [owner |-> row.owner, coin |-> n, price |-> row.price]
           p == [a \in Nfts \cup Nfts |-> purseBar[t.owner][a] + AsRaffle!Of(AsRaffle!NoGoods, a)]
<1>1. /\ n \in DOMAIN booths /\ booths' = Erase(booths, {n})
      /\ kept' = [kept EXCEPT ![n] = @ + booths[n].quote_nft_recd]
      /\ UNCHANGED <<last_booth_id, boothboxes, nft>>
  BY DEF closebooth
<1>2. Typed /\ Keyed(boothboxes) /\ Keyed(boothboxes') /\ OwnIds(booths)
  BY <1>1, TypedTables DEF SwapInv
<1>3. /\ DOMAIN booths' = DOMAIN booths \ {n}
      /\ \A q \in DOMAIN booths' : booths'[q] = booths[q]
  BY <1>1 DEF Erase
<1>4. row \in BoothRow /\ b \in BoothIds /\ n \in Nfts /\ row.quote_nft_recd \in Nat
  BY <1>1, <1>2, SwapInputs DEF Typed, IsTable, BoothRow
<1>5. row.owner \in Users /\ row.owner \in Accounts
  BY <1>4, SwapAccounts DEF BoothRow, Accounts
<1>6. \A c \in BoothIds \ {b} : /\ Alike(booths, booths', c)
                                /\ BoxesIn(boothboxes', c) = BoxesIn(boothboxes, c)
  BY <1>1, <1>3 DEF Alike
<1>7. BoothBecomes(b, TermsIn(booths', b), StockIn(booths', boothboxes', b))
  BY <1>2, <1>4, <1>6, OneBooth
<1>8. TermsIn(booths', b) = {} /\ StockIn(booths', boothboxes', b) = AsRaffle!NoGoods
  <2>1. {q \in DOMAIN booths' : booths'[q].id = b} = {}
    BY <1>1, <1>2, <1>3 DEF OwnIds
  <2> HIDE DEF b
  <2> QED BY <2>1 DEF TermsIn, StockIn, BankIn, AsRaffle!NoGoods
<1>9. termsBar[b] = {t}
  <2>1. termsBar[b] = TermsIn(booths, b)
    BY <1>2, <1>4, BarsAre
  <2> QED BY <1>1, <1>2, <2>1, BoothIs
<1>10. tillBar' = tillBar
  <2>1. ASSUME NEW m \in Nfts PROVE tillBar'[m] = tillBar[m]
    <3>1. /\ tillBar[m] = kept[m] + (IF m \in DOMAIN booths THEN booths[m].quote_nft_recd ELSE 0)
          /\ tillBar'[m] = kept'[m] + (IF m \in DOMAIN booths' THEN booths'[m].quote_nft_recd ELSE 0)
      BY DEF tillBar
    <3>2. kept \in [Nfts -> Nat]
      BY <1>2 DEF Typed
    <3>3. CASE m = n
      <4>1. tillBar[m] = kept[m] + row.quote_nft_recd /\ tillBar'[m] = kept'[m] + 0
        BY <1>1, <1>3, <3>1, <3>3
      <4>2. kept'[m] = kept[m] + row.quote_nft_recd /\ kept[m] \in Nat
        BY <1>1, <3>2, <3>3
      <4> HIDE DEF row
      <4> QED BY <1>4, <4>1, <4>2
    <3>4. CASE m # n
      <4>1. kept'[m] = kept[m]
        BY <1>1, <3>2, <3>4
      <4>2. m \in DOMAIN booths' <=> m \in DOMAIN booths
        BY <1>3, <3>4
      <4> QED BY <1>3, <3>1, <4>1, <4>2
    <3> QED BY <3>3, <3>4
  <2>2. tillBar = [m \in Nfts |-> tillBar[m]] /\ tillBar' = [m \in Nfts |-> tillBar'[m]]
    BY DEF tillBar
  <2> QED BY <2>1, <2>2
<1>11. purseBar' = [purseBar EXCEPT ![t.owner] = p]
  <2>1. nft \in [Accounts -> [Nfts -> Nat]]
    BY <1>2 DEF Typed
  <2>2. \A a \in Nfts : AsRaffle!Of(AsRaffle!NoGoods, a) = 0
    BY DEF AsRaffle!Of, AsRaffle!NoGoods
  <2>3. purseBar[t.owner] = [a \in Nfts |-> nft[row.owner][a]]
    BY <1>5, <2>1 DEF purseBar
  <2>4. \A a \in Nfts : nft[row.owner][a] \in Nat
    BY <1>5, <2>1
  <2> HIDE DEF row
  <2>5. p = purseBar[t.owner]
    BY <2>2, <2>3, <2>4
  <2>6. purseBar' = purseBar /\ purseBar = [purseBar EXCEPT ![t.owner] = purseBar[t.owner]]
    BY <1>1 DEF purseBar
  <2> HIDE DEF p
  <2> QED BY <2>5, <2>6
<1>12. AsRaffle!Close(b)
  <2>1. usedBar' = usedBar
    BY <1>1 DEF usedBar
  <2>2. t \in termsBar[b]
    BY <1>9
  <2>3. termsBar' = [termsBar EXCEPT ![b] = {}] /\ stockBar' = [stockBar EXCEPT ![b] = AsRaffle!NoGoods]
    BY <1>7, <1>8 DEF BoothBecomes
  <2>4. AsRaffle!NoGoods \in {stockBar[b], AsRaffle!NoGoods}
    OBVIOUS
  <2> HIDE DEF t, b
  <2> QED BY <1>10, <1>11, <2>1, <2>2, <2>3, <2>4 DEF AsRaffle!Close
<1> QED BY <1>4, <1>12 DEF AsRaffle!Step

\* Every step of the swap is one of the raffle, or nothing to it.
LEMMA RaffleSteps ==
    ASSUME SupplyFits, Untouched, [Next]_vars
    PROVE  [AsRaffle!Next]_AsRaffle!vars
<1>1. ASSUME touched = {}, touched' = {}
      PROVE  UNCHANGED AsRaffle!promised \/ AsRaffle!Step
  <2>0. SwapInv /\ SwapInv' /\ CountersFit /\ IsFiniteSet(Nfts)
    BY <1>1, UntouchedFit, StepInv DEF Untouched, SupplyFits
  <2>1. CASE Manage
    <3>1. ASSUME NEW a \in Admins, init(a) PROVE UNCHANGED AsRaffle!promised
      BY <2>0, <3>1, NothingMoves DEF init, SameRow
    <3>2. ASSUME NEW n \in Quotes, NEW s \in {"enabled", "disabled"}, enablebooth(n, s)
          PROVE  UNCHANGED AsRaffle!promised
      <4>1. /\ n \in DOMAIN booths /\ booths' = [booths EXCEPT ![n].status = s]
            /\ UNCHANGED <<last_booth_id, boothboxes, nft, kept>>
        BY <3>2 DEF enablebooth
      <4>2. \A q \in DOMAIN booths :
               SameRow(booths[q], booths'[q]) /\ booths'[q].owner = booths[q].owner
        BY <2>0, <4>1 DEF SameRow, SwapInv, Typed, IsTable, BoothRow
      <4> QED BY <2>0, <4>1, <4>2, NothingMoves
    <3>3. ASSUME NEW n \in Quotes, NEW t \in Times, setboothtime(n, t[1], t[2])
          PROVE  UNCHANGED AsRaffle!promised
      <4>1. /\ n \in DOMAIN booths
            /\ booths' = [booths EXCEPT ![n].opened_at = t[1], ![n].closed_at = t[2]]
            /\ UNCHANGED <<last_booth_id, boothboxes, nft, kept>>
        BY <3>3 DEF setboothtime
      <4>2. \A q \in DOMAIN booths :
               SameRow(booths[q], booths'[q]) /\ booths'[q].owner = booths[q].owner
        BY <2>0, <4>1 DEF SameRow, SwapInv, Typed, IsTable, BoothRow
      <4> QED BY <2>0, <4>1, <4>2, NothingMoves
    <3> QED BY <2>0, <2>1, <3>1, <3>2, <3>3, CreateOpens, CloseKeeps DEF Manage
  <2>2. CASE Trade
    <3>1. ASSUME NEW u \in Owners, NEW m \in Nfts, NEW k \in RefuelAmounts, NEW n \in Quotes,
                 _refuel_nft(u, m, k, n)
          PROVE  AsRaffle!Step
      <4>1. \E r : Refuels(u, n, r)
        BY <2>0, <3>1, RefuelInv
      <4> QED BY <2>0, <4>1, RefuelFills
    <3>2. ASSUME NEW u \in Users, NEW n \in Quotes, NEW k \in SwapAmounts, _swap_nft(u, n, k)
          PROVE  AsRaffle!Step
      <4>1. k \in Nat /\ \E r : Swaps(u, n, k, r)
        BY <2>0, <3>2, SwapStepInv, SwapInputs
      <4> QED BY <1>1, <2>0, <4>1, SwapDraws
    <3> QED BY <2>2, <3>1, <3>2 DEF Trade
  <2>3. CASE Maintain
    BY <1>1, <2>3 DEF Maintain, fixbox, fixbooth
  <2>4. CASE Tick \/ UNCHANGED vars
    BY <2>0, <2>4, NothingMoves DEF Tick, vars, SameRow
  <2> QED BY <2>1, <2>2, <2>3, <2>4 DEF Next
<1>2. touched \subseteq touched'
  BY TouchedStays
<1> QED BY <1>1, <1>2 DEF AsRaffle!Next, AsRaffle!vars, editedBar

\* At first there is no booth.
LEMMA RaffleInit ==
    ASSUME Init
    PROVE  /\ ~ editedBar
           /\ usedBar = {}
           /\ termsBar = [k \in BoothIds |-> {}]
           /\ stockBar = [k \in BoothIds |-> AsRaffle!NoGoods]
           /\ tillBar \in [Nfts -> Nat]
           /\ purseBar \in [Users -> [Nfts \cup Nfts -> Nat]]
<1>1. /\ DOMAIN booths = {} /\ nft = FirstNfts /\ touched = {} /\ last_booth_id = 0
      /\ kept = [n \in Nfts |-> 0]
  BY DEF Init, EmptyTable
<1>2. nft \in [Accounts -> [Nfts -> Nat]]
  BY <1>1, SwapInputs
<1>3. tillBar \in [Nfts -> Nat]
  BY <1>1 DEF tillBar
<1>4. purseBar \in [Users -> [Nfts \cup Nfts -> Nat]]
  BY <1>2 DEF purseBar, Accounts
<1>5. termsBar = [k \in BoothIds |-> {}]
  BY <1>1 DEF termsBar
<1>6. stockBar = [k \in BoothIds |-> AsRaffle!NoGoods]
  BY <1>1 DEF stockBar, BankOf, AsRaffle!NoGoods
<1>7. editedBar = FALSE /\ usedBar = {}
  BY <1>1 DEF editedBar, usedBar
<1> QED BY <1>3, <1>4, <1>5, <1>6, <1>7

\* The swap is a raffle: from any inputs, as long as no row is set by hand and no booth
\* starts with leftovers, what refuels, draws and closings do to rows, to boxes in another
\* table, to counters and to balances comes to stock that is filled by its owner and drawn
\* at its price (rndnft.swap.cpp:33-283).
THEOREM SwapImplementsRaffle ==
    ASSUME SupplyFits
    PROVE  Spec => ImplementsRaffle
<1>1. Init => Untouched
  BY InitUntouched
<1>2. Untouched /\ [Next]_vars => Untouched'
  BY StepUntouched
<1>3. Untouched /\ [Next]_vars => [AsRaffle!Next]_AsRaffle!vars
  BY RaffleSteps
<1>4. Init => /\ ~ editedBar
              /\ usedBar = {}
              /\ termsBar = [k \in BoothIds |-> {}]
              /\ stockBar = [k \in BoothIds |-> AsRaffle!NoGoods]
              /\ tillBar \in [Nfts -> Nat]
              /\ purseBar \in [Users -> [Nfts \cup Nfts -> Nat]]
  BY RaffleInit
<1> QED BY <1>1, <1>2, <1>3, <1>4, PTL DEF Spec, ImplementsRaffle, AsRaffle!Spec
------------------------------------------------------------------------------
(* What is in the boxes can be drawn and given *)

\* Counted boxes with no NFT left are no boxes, and with one they are some.
LEMMA FullIsThere ==
    ASSUME NEW boxes, IsBoxes(boxes), NEW num \in Nat, NEW boxnum, Full(boxes, num, boxnum)
    PROVE  DOMAIN boxes # {} <=> num # 0
<1> DEFINE D == DOMAIN boxes
           w == Amounts(boxes)
<1>1. /\ IsFiniteSet(D) /\ AllAmounts(boxes) = Sum(w, D) /\ num = Sum(w, D)
      /\ \A x \in D : w[x] \in Nat /\ w[x] > 0
  BY BoxesAre DEF Full, AllAmounts
<1> HIDE DEF w, D
<1>2. CASE D = {}
  BY <1>1, <1>2, SumEmpty DEF D
<1>3. CASE D # {}
  <2>1. PICK x : x \in D
    BY <1>3
  <2>2. w[x] <= Sum(w, D)
    BY <1>1, <2>1, SumCovers
  <2> QED BY <1>1, <1>3, <2>1, <2>2 DEF D
<1> QED BY <1>2, <1>3

\* From boxes that are counted and not empty a draw takes something.
LEMMA DrawGoesOn ==
    ASSUME NEW draw, IsBoxes(draw.boxes), draw.num \in Nat \ {0},
           Full(draw.boxes, draw.num, draw.boxnum), NEW boxsum \in Nat \ {0}
    PROVE  _one_nft(draw, boxsum) # {}
<1> DEFINE many == draw.boxnum >= MAX_LOWER_BOUND
           top == IF many THEN boxsum ELSE draw.num
           hits == IF DOMAIN draw.boxes = {} THEN {}
                   ELSE UNION {Pick(draw.boxes, many, r) : r \in 1 .. top}
           out(x) == LET box == draw.boxes[x]
                     IN  [boxes  |-> IF box.amount = 1 THEN Erase(draw.boxes, {x})
                                     ELSE [draw.boxes EXCEPT ![x].amount = @ - 1],
                          num    |-> (draw.num - 1) % (UintMax + 1),
                          boxnum |-> BoxesLeft(draw, box),
                          bought |-> [draw.bought EXCEPT ![box.id] = @ + 1]]
<1>1. DOMAIN draw.boxes # {} /\ IsFiniteSet(DOMAIN draw.boxes)
      /\ draw.boxnum = Cardinality(DOMAIN draw.boxes)
  BY FullIsThere, BoxesAre DEF Full
<1>2. draw.boxnum # 0
  BY <1>1, FS_EmptySet
<1>3. 1 \in 1 .. top
  OBVIOUS
<1>4. PICK x : x \in Pick(draw.boxes, many, 1)
  <2> HIDE DEF many
  <2>1. \E y \in DOMAIN draw.boxes : Pick(draw.boxes, many, 1) = {y}
    BY <1>1, PickIs
  <2> QED BY <2>1
<1>5. x \in hits
  <2> HIDE DEF many, top
  <2> QED BY <1>1, <1>3, <1>4
<1>6. _one_nft(draw, boxsum) = {out(y) : y \in IF draw.boxnum = 0 THEN {} ELSE hits}
  BY DEF _one_nft
<1> HIDE DEF out, hits
<1>7. out(x) \in _one_nft(draw, boxsum)
  BY <1>2, <1>5, <1>6
<1> QED BY <1>7

\* From counted boxes there are outcomes of as many draws as there are NFTs, and no more.
LEMMA DrawsGoOn ==
    ASSUME NEW b, IsBoxes(Boxes(b.id)), b.base_nft_num \in Nat, b.base_nftbox_num \in Nat,
           b.base_nftbox_sum \in Nat, b.base_nftbox_num <= b.base_nftbox_sum,
           Full(Boxes(b.id), b.base_nft_num, b.base_nftbox_num), NEW count \in Nat
    PROVE  Draws(b, count) # {} <=> count <= b.base_nft_num
<1> DEFINE boxes == Boxes(b.id)
           num == b.base_nft_num
           boxnum == b.base_nftbox_num
           boxsum == b.base_nftbox_sum
<1>1. PICK f : AreDraws(f, Start(boxes, num, boxnum), boxsum, count) /\ Draws(b, count) = f[count]
  BY DrawsAre
<1>2. /\ IsBoxes(boxes) /\ num \in Nat /\ boxnum \in Nat /\ boxsum \in Nat /\ boxnum <= boxsum
      /\ Full(boxes, num, boxnum)
  OBVIOUS
<1> HIDE DEF boxes, num, boxnum, boxsum
<1>3. ASSUME NEW i \in 0 .. count, NEW e \in f[i]
      PROVE  IsBoxes(e.boxes) /\ Full(e.boxes, e.num, e.boxnum) /\ e.num \in Nat /\ e.num = num - i
  <2>1. Drawn(boxes, num, boxnum, i, e)
    BY <1>1, <1>2, <1>3, EachDrawn
  <2> QED BY <1>2, <2>1 DEF Drawn
<1>4. ASSUME num # 0 PROVE boxsum \in Nat \ {0}
  <2>1. DOMAIN boxes # {} /\ IsFiniteSet(DOMAIN boxes) /\ boxnum = Cardinality(DOMAIN boxes)
    BY <1>2, <1>4, FullIsThere, BoxesAre DEF Full
  <2>2. boxnum # 0
    BY <2>1, FS_EmptySet
  <2> QED BY <1>2, <2>2
<1> DEFINE Bad == {i \in 0 .. count : ~ (f[i] # {} <=> i <= num)}
           h == [i \in 0 .. count |-> i]
<1>5. SUFFICES ASSUME Bad # {} PROVE FALSE
  BY <1>1 DEF num
<1>6. IsFiniteSet(Bad) /\ \A i \in Bad : h[i] \in Int
  <2>1. Bad \subseteq 0 .. count
    OBVIOUS
  <2>2. \A i \in Bad : h[i] \in Int
    OBVIOUS
  <2>3. IsFiniteSet(0 .. count)
    BY FS_Interval
  <2> HIDE DEF Bad
  <2> QED BY <2>1, <2>2, <2>3, FS_Subset
<1>7. PICK i \in Bad : \A j \in Bad : h[i] <= h[j]
  <2> HIDE DEF Bad, h
  <2> QED BY <1>5, <1>6, LeastOf
<1>8. f[i] = IF i = 0 THEN {Start(boxes, num, boxnum)}
             ELSE UNION {_one_nft(e, boxsum) : e \in f[i - 1]}
  BY <1>1 DEF AreDraws
<1>9. CASE i = 0
  BY <1>2, <1>8, <1>9
<1>10. CASE i # 0
  <2>1. i - 1 \in 0 .. count /\ i \in Nat
    BY <1>10
  <2>2. f[i - 1] # {} <=> i - 1 <= num
    BY <1>7, <2>1
  <2>3. CASE i <= num
    <3>1. PICK e : e \in f[i - 1]
      BY <1>2, <2>1, <2>2, <2>3
    <3>2. IsBoxes(e.boxes) /\ Full(e.boxes, e.num, e.boxnum) /\ e.num \in Nat \ {0}
      BY <1>2, <1>3, <2>1, <2>3, <3>1
    <3>3. boxsum \in Nat \ {0}
      BY <1>2, <1>4, <1>10, <2>1, <2>3
    <3>4. _one_nft(e, boxsum) # {}
      BY <3>2, <3>3, DrawGoesOn
    <3>5. f[i] # {}
      BY <1>8, <1>10, <3>1, <3>4
    <3> QED BY <2>3, <3>5
  <2>4. CASE ~ (i <= num)
    <3>1. PICK d : d \in f[i]
      BY <2>4
    <3>2. PICK e \in f[i - 1] : d \in _one_nft(e, boxsum)
      BY <1>8, <1>10, <3>1
    <3>3. IsBoxes(e.boxes) /\ Full(e.boxes, e.num, e.boxnum) /\ e.num \in Nat
          /\ e.num = num - (i - 1)
      BY <1>3, <2>1, <3>2
    <3>4. i - 1 <= num
      BY <2>2, <3>2
    <3>5. e.num = 0
      BY <1>2, <2>1, <2>4, <3>3, <3>4
    <3>6. DOMAIN e.boxes # {}
      BY <3>2, <3>3, DrawTakes
    <3> QED BY <3>3, <3>5, <3>6, FullIsThere
  <2> QED BY <2>3, <2>4
<1> QED BY <1>9, <1>10

\* The contract has what is in one booth.
LEMMA BoxesAreThere ==
    ASSUME SwapInv, touched = {}, NEW m \in Nfts,
           NEW n \in DOMAIN booths, m.bank = booths[n].base_nft_contract
    PROVE  /\ WithId(BoxesIn(boothboxes, booths[n].id), m.id) \in Int
           /\ nft[Swap][m] \in Nat
           /\ WithId(BoxesIn(boothboxes, booths[n].id), m.id) <= nft[Swap][m]
<1> DEFINE b == booths[n].id
           mine == WithId(BoxesIn(boothboxes, b), m.id)
           rest == Sum(Amounts(boothboxes), Elsewhere(booths, boothboxes, m, b))
<1>1. Typed /\ Keyed(boothboxes) /\ OwnIds(booths)
  BY TypedTables DEF SwapInv
<1>2. mine \in Int /\ BoxedIn(booths, boothboxes, m) = mine + rest
  BY <1>1, BoxedSplits
<1>3. rest \in Nat
  BY OthersHaveSome
<1>4. nft[Swap][m] >= kept[m] + Recd(booths, m) + BoxedIn(booths, boothboxes, m)
  BY DEF SwapInv, Custody
<1>5. kept[m] \in Nat /\ Recd(booths, m) \in Nat /\ nft[Swap][m] \in Nat
  BY <1>1 DEF Typed, Recd, IsTable, BoothRow, Accounts
<1> HIDE DEF mine, rest
<1>6. mine <= nft[Swap][m]
  BY <1>2, <1>3, <1>4, <1>5
<1> QED BY <1>2, <1>5, <1>6 DEF mine, b

\* An NFT is its contract and its id.
NftsArePairs == \A m \in Nfts : m = [bank |-> m.bank, id |-> m.id]

\* The draws that a payment to booth n can ask for are those that its counter covers, and
\* the contract has the NFTs that any of them gives.
BoothDelivers(n) ==
    \A count \in Nat \ {0} :
        /\ Draws(booths[n], count) # {} <=> count <= booths[n].base_nft_num
        /\ \A draw \in Draws(booths[n], count) :
              LET given == Given(booths[n].base_nft_contract, draw.bought)
              IN  \A m \in DOMAIN given : m \in Nfts /\ given[m] <= nft[Swap][m]

LEMMA BoothCanDeliver ==
    ASSUME SwapInv, touched = {}, CountersFit, NftsArePairs, NEW n \in DOMAIN booths
    PROVE  BoothDelivers(n)
<1> DEFINE row == booths[n]
           b == row.id
           u == BoxesIn(boothboxes, b)
           bank == row.base_nft_contract
<1>1. Typed /\ Keyed(boothboxes) /\ OwnIds(booths)
  BY TypedTables DEF SwapInv
<1>2. row \in BoothRow /\ b \in Nat
  BY <1>1 DEF Typed, IsTable, OwnIds
<1>3. /\ row.base_nft_num \in Nat /\ row.base_nftbox_num \in Nat /\ row.base_nftbox_sum \in Nat
  BY <1>2 DEF BoothRow
<1>4. Boxes(b) = u /\ IsBoxes(u)
  BY <1>1, <1>2, BoxesAreIn, BoxesInAre
<1>5. Sound(row, u)
  BY DEF SwapInv, AllSound
<1>6. Full(u, row.base_nft_num, row.base_nftbox_num)
  BY <1>5 DEF Full, Sound, CountersFit, Intact
<1>7. row.base_nftbox_num <= row.base_nftbox_sum
  BY <1>5 DEF Sound
<1> HIDE DEF u, bank
<1>8. ASSUME NEW count \in Nat
      PROVE  Draws(row, count) # {} <=> count <= row.base_nft_num
  <2> HIDE DEF row
  <2>1. IsBoxes(Boxes(row.id)) /\ Full(Boxes(row.id), row.base_nft_num, row.base_nftbox_num)
    BY <1>4, <1>6
  <2> QED BY <1>3, <1>7, <2>1, DrawsGoOn
<1>9. ASSUME NEW count \in Nat, NEW draw \in Draws(row, count),
             NEW m \in DOMAIN Given(bank, draw.bought)
      PROVE  m \in Nfts /\ Given(bank, draw.bought)[m] <= nft[Swap][m]
  <2>1. Drawn(u, row.base_nft_num, row.base_nftbox_num, count, draw)
    <3> HIDE DEF row
    <3>1. Drawn(Boxes(row.id), row.base_nft_num, row.base_nftbox_num, count, draw)
      BY <1>3, <1>4, <1>9, DrawsAreDrawn
    <3> QED BY <1>4, <3>1
  <2>2. /\ IsBoxes(draw.boxes) /\ draw.bought \in [TokenIds -> Nat]
        /\ \A t \in TokenIds : WithId(draw.boxes, t) + draw.bought[t] = WithId(u, t)
        /\ Full(draw.boxes, draw.num, draw.boxnum)
    BY <1>6, <2>1 DEF Drawn
  <2>3. /\ m.bank = bank /\ m = [bank |-> bank, id |-> m.id]
        /\ m.id \in TokenIds /\ draw.bought[m.id] > 0
        /\ Given(bank, draw.bought)[m] = draw.bought[m.id]
    BY DEF Given
  <2>4. WithId(draw.boxes, m.id) \in Nat
    <3> DEFINE w == IdAmounts(draw.boxes, m.id)
    <3>1. \A x \in DOMAIN draw.boxes : w[x] \in Nat
      BY <2>2, BoxesAre DEF Full
    <3>2. IsFiniteSet(DOMAIN draw.boxes)
      BY <2>2, BoxesAre
    <3> HIDE DEF w
    <3>3. Sum(w, DOMAIN draw.boxes) \in Nat
      BY <3>1, <3>2, SumNat
    <3> QED BY <3>3 DEF w, WithId
  <2>5. draw.bought[m.id] \in Nat /\ WithId(draw.boxes, m.id) + draw.bought[m.id] = WithId(u, m.id)
    BY <2>2, <2>3
  <2>6. WithId(u, m.id) > 0 /\ draw.bought[m.id] <= WithId(u, m.id)
    BY <2>3, <2>4, <2>5
  <2>7. \E x \in DOMAIN u : u[x].id = m.id
    <3> SUFFICES ASSUME \A x \in DOMAIN u : u[x].id # m.id PROVE FALSE
      OBVIOUS
    <3> DEFINE w == IdAmounts(u, m.id)
    <3>1. IsFiniteSet(DOMAIN u) /\ \A x \in DOMAIN u : w[x] = 0
      BY <1>4, BoxesAre
    <3> HIDE DEF w
    <3>2. Sum(w, DOMAIN u) = 0
      BY <3>1, SumZero
    <3> QED BY <2>6, <3>2 DEF w, WithId
  <2>8. m \in Nfts
    <3>1. PICK q \in Nfts : q.bank = bank /\ q.id = m.id
      BY <1>5, <2>7 DEF Sound, bank
    <3>2. q = [bank |-> q.bank, id |-> q.id]
      BY DEF NftsArePairs
    <3> QED BY <2>3, <3>1, <3>2
  <2>9. WithId(u, m.id) \in Int /\ nft[Swap][m] \in Nat /\ WithId(u, m.id) <= nft[Swap][m]
    BY <2>3, <2>8, BoxesAreThere DEF bank, u
  <2> QED BY <2>3, <2>5, <2>6, <2>8, <2>9
<1> QED BY <1>8, <1>9 DEF BoothDelivers, bank

\* Until somebody sets a row by hand, what the counter of a booth says is left can be
\* swapped for, and nothing beyond: a payment finds its NFTs drawn and given, whichever
\* they are, unless it is for more of them than there are, which aborts as a whole
\* (_swap_nft and _one_nft, rndnft.swap.cpp:171-283).
THEOREM BoothsAreNeverShort ==
    ASSUME SupplyFits, NftsArePairs
    PROVE  Spec => [](touched = {} => \A n \in DOMAIN booths : BoothDelivers(n))
<1>1. Init => Untouched
  BY InitUntouched
<1>2. Untouched /\ [Next]_vars => Untouched'
  BY StepUntouched
<1>3. Untouched => (touched = {} => \A n \in DOMAIN booths : BoothDelivers(n))
  BY UntouchedFit, BoothCanDeliver DEF Untouched
<1> QED BY <1>1, <1>2, <1>3, PTL DEF Spec
=============================================================================
