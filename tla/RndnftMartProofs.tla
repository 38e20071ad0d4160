-------------------------- MODULE RndnftMartProofs --------------------------
(***************************************************************************)
(* Proofs about the random sale, for any number of booths, symbols and     *)
(* draws: its types, that its money is settled, that buyers get an NFT for *)
(* each price, and, where the order of the symbols is one, that counters,  *)
(* boxes and custody agree, the draw is fair, the sale is a raffle, and no *)
(* booth is short of what it has for sale.                                 *)
(***************************************************************************)
EXTENDS RndnftMart, TableProofs

(* The draws *)

Start(boxes) == [boxes |-> boxes, bought |-> [n \in Symbols |-> 0]]

\* f[i] are the outcomes of i draws.
AreDraws(f, boxes, num, count) ==
    f = [i \in 0 .. count |->
            IF i = 0 THEN {Start(boxes)}
            ELSE UNION {_one_nft(draw, num - i + 1) : draw \in f[i - 1]}]

LEMMA DrawsExist ==
    ASSUME NEW boxes, NEW num, NEW count \in Nat
    PROVE  \E f : AreDraws(f, boxes, num, count)
<1> DEFINE Bad == {c \in 0 .. count : ~ \E f : AreDraws(f, boxes, num, c)}
           h == [c \in 0 .. count |-> c]
<1>1. SUFFICES ASSUME Bad # {} PROVE FALSE
  OBVIOUS
<1>2. IsFiniteSet(Bad) /\ \A c \in Bad : h[c] \in Int
  <2>1. IsFiniteSet(0 .. count) /\ Bad \subseteq 0 .. count
    BY FS_Interval
  <2>2. \A c \in Bad : h[c] \in Int
    OBVIOUS
  <2> HIDE DEF Bad
  <2> QED BY <2>1, <2>2, FS_Subset
<1>3. PICK c \in Bad : \A d \in Bad : h[c] <= h[d]
  <2> HIDE DEF Bad, h
  <2> QED BY <1>1, <1>2, LeastOf
<1>4. c \in Nat /\ c <= count /\ ~ \E f : AreDraws(f, boxes, num, c)
  OBVIOUS
<1>5. CASE c = 0
  <2> DEFINE g == [i \in 0 .. 0 |-> {Start(boxes)}]
  <2>1. AreDraws(g, boxes, num, 0)
    BY DEF AreDraws
  <2> QED BY <1>4, <1>5, <2>1
<1>6. CASE c # 0
  <2>1. c - 1 \in 0 .. count /\ c - 1 \notin Bad
    BY <1>3, <1>4, <1>6
  <2>2. PICK f : AreDraws(f, boxes, num, c - 1)
    BY <2>1
  <2> DEFINE e(i) == IF i = 0 THEN {Start(boxes)}
                     ELSE UNION {_one_nft(draw, num - i + 1) : draw \in f[i - 1]}
             g == [i \in 0 .. c |-> e(i)]
  <2>3. ASSUME NEW i \in 0 .. c - 1 PROVE g[i] = f[i]
    <3>1. f = [j \in 0 .. c - 1 |-> e(j)]
      BY <2>2 DEF AreDraws
    <3>2. i \in 0 .. c
      BY <1>4
    <3> HIDE DEF e
    <3>3. f[i] = e(i) /\ g[i] = e(i)
      BY <3>1, <3>2
    <3> QED BY <3>3
  <2>4. ASSUME NEW i \in 0 .. c
        PROVE  g[i] = IF i = 0 THEN {Start(boxes)}
                      ELSE UNION {_one_nft(draw, num - i + 1) : draw \in g[i - 1]}
    <3>1. CASE i = 0
      BY <3>1
    <3>2. CASE i # 0
      <4>1. i - 1 \in 0 .. c - 1
        BY <1>4, <3>2
      <4>2. g[i - 1] = f[i - 1]
        BY <2>3, <4>1
      <4>3. g[i] = UNION {_one_nft(draw, num - i + 1) : draw \in f[i - 1]}
        BY <3>2
      <4> HIDE DEF g
      <4> QED BY <3>2, <4>2, <4>3
    <3> QED BY <3>1, <3>2
  <2>5. AreDraws(g, boxes, num, c)
    <3>1. DOMAIN g = 0 .. c /\ g = [i \in 0 .. c |-> g[i]]
      OBVIOUS
    <3> HIDE DEF g
    <3> QED BY <2>4, <3>1 DEF AreDraws
  <2> QED BY <1>4, <2>5
<1> QED BY <1>5, <1>6

LEMMA DrawsAre ==
    ASSUME NEW boxes, NEW num, NEW count \in Nat
    PROVE  \E f : AreDraws(f, boxes, num, count) /\ Draws(boxes, num, count) = f[count]
<1> DEFINE f == CHOOSE f : AreDraws(f, boxes, num, count)
<1>1. AreDraws(f, boxes, num, count)
  BY DrawsExist
<1>2. Draws(boxes, num, count) = f[count]
  BY DEF Draws, AreDraws, Start
<1> QED BY <1>1, <1>2
------------------------------------------------------------------------------
(* The box that an index falls in *)

IsBoxes(boxes) == IsTable(boxes, Symbols, Nat)

Amount(boxes, n) == IF n \in DOMAIN boxes THEN boxes[n] ELSE 0

Below(boxes, n) == {m \in DOMAIN boxes : m.id < n.id}
NotAbove(boxes, n) == {m \in DOMAIN boxes : m.id <= n.id}

LEMMA SymbolIds ==
    ASSUME NEW boxes, IsBoxes(boxes)
    PROVE  /\ IsFiniteSet(DOMAIN boxes)
           /\ \A n \in DOMAIN boxes : n \in Symbols /\ n.id \in Int /\ boxes[n] \in Nat
           /\ \A m, n \in DOMAIN boxes : m.id = n.id => m = n
<1>1. DOMAIN boxes \subseteq Symbols /\ \A n \in DOMAIN boxes : boxes[n] \in Nat
  BY DEF IsBoxes, IsTable
<1>2. IsFiniteSet(DOMAIN boxes)
  BY <1>1, MartInputs, FS_Subset
<1>3. \A n \in Symbols : n.id \in Int
  BY MartInputs
<1> QED BY <1>1, <1>2, <1>3, MartInputs

\* The NFTs up to a box are those of the box and those below.
LEMMA UpToSplits ==
    ASSUME NEW boxes, IsBoxes(boxes), NEW n \in DOMAIN boxes
    PROVE  /\ UpTo(boxes, n) = boxes[n] + Sum(boxes, Below(boxes, n))
           /\ Sum(boxes, Below(boxes, n)) \in Nat /\ boxes[n] \in Nat
           /\ UpTo(boxes, n) <= SumFunction(boxes) /\ SumFunction(boxes) \in Nat
<1> DEFINE D == DOMAIN boxes
           B == Below(boxes, n)
           U == NotAbove(boxes, n)
<1>1. /\ IsFiniteSet(D)
      /\ \A m \in D : m.id \in Int /\ boxes[m] \in Nat /\ boxes[m] \in Int
      /\ \A m \in D : m.id = n.id => m = n
  BY SymbolIds
<1>2. UpTo(boxes, n) = Sum(boxes, U)
  BY DEF UpTo, NotAbove, Sum
<1>3. U \in SUBSET D /\ B \in SUBSET D /\ n \in U /\ U \ {n} = B
  BY <1>1 DEF NotAbove, Below
<1>4. SumFunction(boxes) = Sum(boxes, D)
  BY SumFunctionIsSum
<1> HIDE DEF U, B
<1>5. Sum(boxes, U) = boxes[n] + Sum(boxes, U \ {n})
  BY <1>1, <1>3, SumTake
<1>6. Sum(boxes, B) \in Nat /\ Sum(boxes, D) \in Nat
  BY <1>1, <1>3, SumNat
<1>7. Sum(boxes, U) <= Sum(boxes, D)
  BY <1>1, <1>3, SumLe
<1> QED BY <1>1, <1>2, <1>3, <1>4, <1>5, <1>6, <1>7 DEF B

\* A box further up begins where the one below has ended.
LEMMA UpToGrows ==
    ASSUME NEW boxes, IsBoxes(boxes), NEW m \in DOMAIN boxes, NEW n \in DOMAIN boxes, m.id < n.id
    PROVE  UpTo(boxes, m) <= Sum(boxes, Below(boxes, n))
<1> DEFINE U == NotAbove(boxes, m)
           B == Below(boxes, n)
<1>1. UpTo(boxes, m) = Sum(boxes, U)
  BY DEF UpTo, NotAbove, Sum
<1>2. \A k \in DOMAIN boxes : k.id \in Int
  BY SymbolIds
<1>3. IsFiniteSet(B) /\ U \in SUBSET B /\ \A k \in B : boxes[k] \in Nat
  <2>1. B \in SUBSET DOMAIN boxes
    BY DEF Below
  <2>2. U \in SUBSET B
    BY <1>2 DEF Below, NotAbove
  <2> HIDE DEF U, B
  <2> QED BY <2>1, <2>2, SymbolIds, FS_Subset
<1> HIDE DEF U, B
<1> QED BY <1>1, <1>3, SumLe DEF B

\* What Pick finds is a box that is not empty.
LEMMA PickedBox ==
    ASSUME NEW boxes, IsBoxes(boxes), NEW r \in Nat, NEW n \in Pick(boxes, r)
    PROVE  /\ n \in DOMAIN boxes /\ n \in Symbols /\ boxes[n] \in Nat /\ boxes[n] > 0
           /\ r > Sum(boxes, Below(boxes, n)) /\ r <= UpTo(boxes, n)
<1>1. n \in DOMAIN boxes /\ r \in UpTo(boxes, n) - boxes[n] + 1 .. UpTo(boxes, n)
  BY DEF Pick
<1>2. /\ UpTo(boxes, n) = boxes[n] + Sum(boxes, Below(boxes, n))
      /\ Sum(boxes, Below(boxes, n)) \in Nat /\ boxes[n] \in Nat
  BY <1>1, UpToSplits
<1>3. n \in Symbols
  BY <1>1, SymbolIds
<1> QED BY <1>1, <1>2, <1>3

\* An index falls in no more than one box.
LEMMA OnePicked ==
    ASSUME NEW boxes, IsBoxes(boxes), NEW r \in Nat,
           NEW m \in Pick(boxes, r), NEW n \in Pick(boxes, r)
    PROVE  m = n
<1>1. /\ m \in DOMAIN boxes /\ r > Sum(boxes, Below(boxes, m)) /\ r <= UpTo(boxes, m)
      /\ n \in DOMAIN boxes /\ r > Sum(boxes, Below(boxes, n)) /\ r <= UpTo(boxes, n)
  BY PickedBox
<1>2. /\ UpTo(boxes, m) \in Nat /\ Sum(boxes, Below(boxes, m)) \in Nat
      /\ UpTo(boxes, n) \in Nat /\ Sum(boxes, Below(boxes, n)) \in Nat
  BY <1>1, UpToSplits
<1>3. ~ (m.id < n.id) /\ ~ (n.id < m.id)
  BY <1>1, <1>2, UpToGrows
<1>4. m.id \in Int /\ n.id \in Int /\ (m.id = n.id => m = n)
  BY <1>1, SymbolIds
<1> QED BY <1>3, <1>4

\* An index up to the number of NFTs falls in a box.
LEMMA SomePicked ==
    ASSUME NEW boxes, IsBoxes(boxes), NEW r \in 1 .. SumFunction(boxes)
    PROVE  Pick(boxes, r) # {}
<1> DEFINE D == DOMAIN boxes
           A == {n \in D : r <= UpTo(boxes, n)}
           h == [n \in D |-> n.id]
<1>1. /\ IsFiniteSet(D) /\ SumFunction(boxes) = Sum(boxes, D)
      /\ \A n \in D : n.id \in Int /\ h[n] = n.id /\ boxes[n] \in Nat
  BY SymbolIds, SumFunctionIsSum
<1>2. D # {}
  BY <1>1, SumEmpty
<1> HIDE DEF h
<1>3. A # {}
  <2>1. PICK g \in D : \A n \in D : h[n] <= h[g]
    BY <1>1, <1>2, GreatestOf
  <2>2. NotAbove(boxes, g) = D
    BY <1>1, <2>1 DEF NotAbove
  <2>3. UpTo(boxes, g) = Sum(boxes, D)
    BY <2>2 DEF UpTo, NotAbove, Sum
  <2>4. r <= UpTo(boxes, g)
    BY <1>1, <2>3
  <2> QED BY <2>4
<1>4. PICK a \in A : \A n \in A : h[a] <= h[n]
  <2>1. A \in SUBSET D
    OBVIOUS
  <2>2. IsFiniteSet(A) /\ \A n \in A : h[n] \in Int
    <3> HIDE DEF A
    <3> QED BY <1>1, <2>1, FS_Subset
  <2> HIDE DEF A
  <2> QED BY <1>3, <2>2, LeastOf
<1>5. a \in D /\ r <= UpTo(boxes, a)
  OBVIOUS
<1> DEFINE B == Below(boxes, a)
<1>6. /\ UpTo(boxes, a) = boxes[a] + Sum(boxes, B)
      /\ Sum(boxes, B) \in Nat /\ boxes[a] \in Nat
  BY <1>5, UpToSplits
<1>7. Sum(boxes, B) < r
  <2>1. CASE B = {}
    BY <2>1, SumEmpty
  <2>2. CASE B # {}
    <3>1. B \in SUBSET D /\ \A n \in B : n.id < a.id
      BY DEF Below
    <3>2. PICK p \in B : \A n \in B : h[n] <= h[p]
      <4>1. IsFiniteSet(B) /\ \A n \in B : h[n] \in Int
        <5> HIDE DEF B
        <5> QED BY <1>1, <3>1, FS_Subset
      <4> HIDE DEF B
      <4> QED BY <2>2, <4>1, GreatestOf
    <3>3. p \in D /\ p.id < a.id
      BY <3>1
    <3>4. NotAbove(boxes, p) = B
      <4>1. \A n \in D : n.id <= p.id => n.id < a.id
        BY <1>1, <1>5, <3>3
      <4>2. \A n \in B : n \in D /\ n.id <= p.id
        <5> HIDE DEF B
        <5> QED BY <1>1, <3>1, <3>2
      <4> QED BY <4>1, <4>2 DEF NotAbove, Below
    <3>5. UpTo(boxes, p) = Sum(boxes, B)
      BY <3>4 DEF UpTo, NotAbove, Sum
    <3>6. p \notin A
      BY <1>1, <1>4, <1>5, <3>3
    <3>7. ~ (r <= UpTo(boxes, p))
      BY <3>3, <3>6
    <3> QED BY <1>6, <3>5, <3>7
  <2> QED BY <2>1, <2>2
<1>8. r \in UpTo(boxes, a) - boxes[a] + 1 .. UpTo(boxes, a)
  <2> HIDE DEF B
  <2> QED BY <1>5, <1>6, <1>7
<1> QED BY <1>5, <1>8 DEF Pick
------------------------------------------------------------------------------
(* What the draws make of the boxes *)

\* A box of which one NFT is taken.
Lowered(boxes, t, n) ==
    /\ IsBoxes(t) /\ DOMAIN t \subseteq DOMAIN boxes
    /\ SumFunction(t) = SumFunction(boxes) - 1
    /\ \A m : Amount(t, m) = Amount(boxes, m) - (IF m = n THEN 1 ELSE 0)
    /\ (\A m \in DOMAIN boxes : boxes[m] > 0) => \A m \in DOMAIN t : t[m] > 0

LEMMA TakeOutLowers ==
    ASSUME NEW boxes, IsBoxes(boxes), NEW n \in DOMAIN boxes, boxes[n] > 0,
           NEW t, t = TakeOut(boxes, n)
    PROVE  Lowered(boxes, t, n)
<1> DEFINE D == DOMAIN boxes
<1>1. /\ IsFiniteSet(D) /\ SumFunction(boxes) = Sum(boxes, D)
      /\ \A m \in D : boxes[m] \in Nat /\ boxes[m] \in Int /\ m \in Symbols
  BY SymbolIds, SumFunctionIsSum
<1>2. Sum(boxes, D) = boxes[n] + Sum(boxes, D \ {n}) /\ Sum(boxes, D \ {n}) \in Int
  BY <1>1, SumTake, SumInt
<1>3. CASE boxes[n] = 1
  <2>1. DOMAIN t = D \ {n} /\ \A m \in D \ {n} : t[m] = boxes[m]
    BY <1>3 DEF TakeOut, Erase
  <2>2. SumFunction(t) = Sum(t, D \ {n})
    BY <2>1, SumFunctionIsSum
  <2>3. Sum(t, D \ {n}) = Sum(boxes, D \ {n})
    <3>1. IsFiniteSet(D \ {n})
      BY <1>1, FS_RemoveElement
    <3> QED BY <2>1, <3>1, SumSame
  <2>4. SumFunction(t) = SumFunction(boxes) - 1
    BY <1>1, <1>2, <1>3, <2>2, <2>3
  <2>5. IsBoxes(t) /\ DOMAIN t \subseteq D
    BY <1>1, <2>1 DEF IsBoxes, IsTable
  <2>6. \A m : Amount(t, m) = Amount(boxes, m) - (IF m = n THEN 1 ELSE 0)
    BY <1>1, <1>3, <2>1 DEF Amount
  <2>7. (\A m \in D : boxes[m] > 0) => \A m \in DOMAIN t : t[m] > 0
    BY <2>1
  <2> QED BY <2>4, <2>5, <2>6, <2>7 DEF Lowered
<1>4. CASE boxes[n] # 1
  <2> DEFINE left == boxes[n] - 1
  <2>1. left \in Nat /\ left > 0 /\ boxes[n] = left + 1
    BY <1>1, <1>4
  <2>2. DOMAIN t = D /\ t[n] = left /\ \A m \in D \ {n} : t[m] = boxes[m]
    BY <1>4 DEF TakeOut
  <2> HIDE DEF left
  <2>3. SumFunction(t) = Sum(t, D)
    BY <2>2, SumFunctionIsSum
  <2>4. Sum(t, D) = Sum(boxes, D) - boxes[n] + t[n]
    BY <1>1, <2>1, <2>2, SumUpdate
  <2>5. SumFunction(t) = SumFunction(boxes) - 1
    BY <1>1, <1>2, <2>1, <2>2, <2>3, <2>4
  <2>6. IsBoxes(t) /\ DOMAIN t \subseteq D
    BY <1>1, <2>1, <2>2 DEF IsBoxes, IsTable
  <2>7. \A m : Amount(t, m) = Amount(boxes, m) - (IF m = n THEN 1 ELSE 0)
    BY <1>1, <2>1, <2>2 DEF Amount
  <2>8. (\A m \in D : boxes[m] > 0) => \A m \in DOMAIN t : t[m] > 0
    BY <2>1, <2>2
  <2> QED BY <2>5, <2>6, <2>7, <2>8 DEF Lowered
<1> QED BY <1>3, <1>4

\* Boxes with num NFTs, none of them empty.
Full(boxes, num) == SumFunction(boxes) = num /\ \A n \in DOMAIN boxes : boxes[n] > 0

\* The draw is an outcome of i draws from the boxes: as many NFTs were bought, and out
\* of full boxes they came.
Drawn(boxes, num, i, draw) ==
    /\ IsBoxes(draw.boxes) /\ DOMAIN draw.boxes \subseteq DOMAIN boxes
    /\ draw.bought \in [Symbols -> Nat] /\ Sum(draw.bought, Symbols) = i
    /\ Full(boxes, num) =>
          /\ Full(draw.boxes, num - i)
          /\ \A n \in Symbols : Amount(draw.boxes, n) + draw.bought[n] = Amount(boxes, n)

LEMMA StartDrawn ==
    ASSUME NEW boxes, IsBoxes(boxes), NEW num \in Nat
    PROVE  Drawn(boxes, num, 0, Start(boxes))
<1> DEFINE z == [n \in Symbols |-> 0]
<1>1. Start(boxes).boxes = boxes /\ Start(boxes).bought = z
  BY DEF Start
<1>2. z \in [Symbols -> Nat] /\ \A n \in Symbols : z[n] = 0
  OBVIOUS
<1> HIDE DEF z
<1>3. Sum(z, Symbols) = 0
  BY <1>2, MartInputs, SumZero
<1>4. \A n \in Symbols : Amount(boxes, n) + z[n] = Amount(boxes, n)
  BY <1>2 DEF Amount, IsBoxes, IsTable
<1> QED BY <1>1, <1>2, <1>3, <1>4 DEF Drawn

LEMMA OneMoreDrawn ==
    ASSUME NEW boxes, NEW num \in Nat, NEW i \in 1 .. num, NEW draw,
           Drawn(boxes, num, i - 1, draw), NEW next \in _one_nft(draw, num - i + 1)
    PROVE  Drawn(boxes, num, i, next)
<1> DEFINE k == num - i + 1
<1>0. k \in Nat /\ k = num - (i - 1)
  OBVIOUS
<1> DEFINE N(r) == IF Pick(draw.boxes, r) = {} THEN Symbols ELSE Pick(draw.boxes, r)
           B(r, n) == IF Pick(draw.boxes, r) = {} THEN draw.boxes ELSE TakeOut(draw.boxes, n)
           Q(n) == [draw.bought EXCEPT ![n] = @ + 1]
           R(r, n) == [boxes |-> B(r, n), bought |-> Q(n)]
<1>1. PICK r \in 1 .. k : next \in {R(r, n) : n \in N(r)}
  BY DEF _one_nft
<1>2. PICK n \in N(r) : next.boxes = B(r, n) /\ next.bought = Q(n)
  <2> HIDE DEF N, B, Q
  <2> QED BY <1>1
<1>3. /\ IsBoxes(draw.boxes) /\ DOMAIN draw.boxes \subseteq DOMAIN boxes /\ r \in Nat
      /\ draw.bought \in [Symbols -> Nat] /\ Sum(draw.bought, Symbols) = i - 1
  BY <1>0 DEF Drawn
<1>4. /\ n \in Symbols
      /\ Pick(draw.boxes, r) # {} => n \in DOMAIN draw.boxes /\ draw.boxes[n] > 0
  BY <1>2, <1>3, PickedBox
<1>5. next.bought \in [Symbols -> Nat] /\ Sum(next.bought, Symbols) = i
  <2> DEFINE w == draw.bought
             v == next.bought
  <2>1. w \in [Symbols -> Nat] /\ v = [w EXCEPT ![n] = w[n] + 1]
    BY <1>2, <1>3
  <2>2. v \in [Symbols -> Nat] /\ v[n] = w[n] + 1 /\ w[n] \in Int
        /\ \A m \in Symbols \ {n} : v[m] = w[m]
    BY <1>4, <2>1
  <2>3. \A m \in Symbols : w[m] \in Int
    BY <2>1
  <2> HIDE DEF w, v
  <2>4. Sum(v, Symbols) = Sum(w, Symbols) - w[n] + v[n]
    BY <1>4, <2>2, <2>3, MartInputs, SumUpdate
  <2>5. Sum(w, Symbols) \in Int
    BY <2>3, MartInputs, SumInt
  <2>6. Sum(v, Symbols) = Sum(w, Symbols) + 1
    BY <2>2, <2>4, <2>5
  <2> QED BY <1>3, <2>2, <2>6 DEF w, v
<1>6. CASE Pick(draw.boxes, r) = {}
  <2>1. ~ Full(boxes, num)
    <3> SUFFICES ASSUME Full(boxes, num) PROVE FALSE
      OBVIOUS
    <3>1. SumFunction(draw.boxes) = k
      BY <1>0 DEF Drawn, Full
    <3>2. r \in 1 .. SumFunction(draw.boxes)
      BY <3>1
    <3> QED BY <1>3, <1>6, <3>2, SomePicked
  <2> QED BY <1>2, <1>3, <1>5, <1>6, <2>1 DEF Drawn
<1>7. CASE Pick(draw.boxes, r) # {}
  <2> DEFINE t == next.boxes
  <2>1. t = TakeOut(draw.boxes, n)
    BY <1>2, <1>7
  <2> HIDE DEF t
  <2>2. Lowered(draw.boxes, t, n)
    BY <1>3, <1>4, <1>7, <2>1, TakeOutLowers
  <2>3. IsBoxes(t) /\ DOMAIN t \subseteq DOMAIN boxes
    BY <1>3, <2>2 DEF Lowered
  <2>4. ASSUME Full(boxes, num)
        PROVE  /\ Full(t, num - i)
               /\ \A m \in Symbols : Amount(t, m) + next.bought[m] = Amount(boxes, m)
    <3>1. /\ Full(draw.boxes, k)
          /\ \A m \in Symbols : Amount(draw.boxes, m) + draw.bought[m] = Amount(boxes, m)
      BY <1>0, <2>4 DEF Drawn
    <3>2. Full(t, num - i)
      BY <1>0, <2>2, <3>1 DEF Full, Lowered
    <3>3. ASSUME NEW m \in Symbols PROVE Amount(t, m) + next.bought[m] = Amount(boxes, m)
      <4>1. Amount(t, m) = Amount(draw.boxes, m) - (IF m = n THEN 1 ELSE 0)
        BY <2>2 DEF Lowered
      <4>2. next.bought[m] = draw.bought[m] + (IF m = n THEN 1 ELSE 0) /\ draw.bought[m] \in Nat
        BY <1>2, <1>3
      <4>3. Amount(draw.boxes, m) \in Int
        BY <1>3 DEF Amount, IsBoxes, IsTable
      <4>4. Amount(draw.boxes, m) + draw.bought[m] = Amount(boxes, m)
        BY <3>1
      <4>5. CASE m = n
        BY <4>1, <4>2, <4>3, <4>4, <4>5
      <4>6. CASE m # n
        BY <4>1, <4>2, <4>3, <4>4, <4>6
      <4> QED BY <4>5, <4>6
    <3> QED BY <3>2, <3>3
  <2> QED BY <1>5, <2>3, <2>4 DEF Drawn, t
<1> QED BY <1>6, <1>7

\* What every outcome of the draws is.
LEMMA DrawsAreDrawn ==
    ASSUME NEW boxes, IsBoxes(boxes), NEW num \in Nat, NEW count \in 0 .. num,
           NEW draw \in Draws(boxes, num, count)
    PROVE  Drawn(boxes, num, count, draw)
<1>1. PICK f : AreDraws(f, boxes, num, count) /\ Draws(boxes, num, count) = f[count]
  BY DrawsAre
<1> DEFINE Bad == {i \in 0 .. count : ~ \A d \in f[i] : Drawn(boxes, num, i, d)}
           h == [i \in 0 .. count |-> i]
<1>2. SUFFICES ASSUME Bad # {} PROVE FALSE
  BY <1>1
<1>3. IsFiniteSet(Bad) /\ \A i \in Bad : h[i] \in Int
  <2>1. IsFiniteSet(0 .. count) /\ Bad \subseteq 0 .. count
    BY FS_Interval
  <2>2. \A i \in Bad : h[i] \in Int
    OBVIOUS
  <2> HIDE DEF Bad
  <2> QED BY <2>1, <2>2, FS_Subset
<1>4. PICK i \in Bad : \A j \in Bad : h[i] <= h[j]
  <2> HIDE DEF Bad, h
  <2> QED BY <1>2, <1>3, LeastOf
<1>5. PICK d \in f[i] : ~ Drawn(boxes, num, i, d)
  OBVIOUS
<1>6. f[i] = IF i = 0 THEN {Start(boxes)}
             ELSE UNION {_one_nft(e, num - i + 1) : e \in f[i - 1]}
  BY <1>1 DEF AreDraws
<1>7. CASE i = 0
  BY <1>5, <1>6, <1>7, StartDrawn
<1>8. CASE i # 0
  <2>1. i - 1 \in 0 .. count /\ i \in 1 .. num
    BY <1>8
  <2>2. i - 1 \notin Bad
    BY <1>4, <2>1
  <2>3. PICK e \in f[i - 1] : d \in _one_nft(e, num - i + 1)
    BY <1>5, <1>6, <1>8
  <2>4. Drawn(boxes, num, i - 1, e)
    BY <2>1, <2>2, <2>3
  <2> QED BY <1>5, <2>1, <2>3, <2>4, OneMoreDrawn
<1> QED BY <1>7, <1>8
------------------------------------------------------------------------------
(* Transfers *)

Gain(a, from, to, k) == (IF a = to THEN k ELSE 0) - (IF a = from THEN k ELSE 0)

\* The NFTs after a transfer.
Moved(bank, from, to, s) ==
    /\ nft' \in [Accounts -> [NftBanks -> [Symbols -> Nat]]]
    /\ \A a \in Accounts, b \in NftBanks, n \in Symbols :
          nft'[a][b][n] = nft[a][b][n]
              + (IF b = bank /\ n \in DOMAIN s THEN Gain(a, from, to, s[n]) ELSE 0)
    /\ \A n \in DOMAIN s : s[n] \in Nat /\ s[n] > 0

LEMMA NftsMoved ==
    ASSUME nft \in [Accounts -> [NftBanks -> [Symbols -> Nat]]],
           NEW bank \in NftBanks, NEW from \in Accounts, NEW to \in Accounts, NEW s,
           DOMAIN s \subseteq Symbols, NftMoves(bank, from, to, s)
    PROVE  Moved(bank, from, to, s)
<1> DEFINE Change(a, n) == IF n \in DOMAIN s
                           THEN (IF a = to THEN s[n] ELSE 0) - (IF a = from THEN s[n] ELSE 0) ELSE 0
           new(a) == [n \in Symbols |-> nft[a][bank][n] + Change(a, n)]
<1>1. \A n \in DOMAIN s : s[n] \in Nat /\ s[n] > 0 /\ s[n] <= nft[from][bank][n]
  BY DEF NftMoves
<1>2. nft' = [a \in Accounts |-> [nft[a] EXCEPT ![bank] = new(a)]]
  BY DEF NftMoves
<1>3. ASSUME NEW a \in Accounts, NEW n \in Symbols
      PROVE  nft[a][bank][n] + Change(a, n) \in Nat
  BY <1>1
<1>4. \A a \in Accounts : new(a) \in [Symbols -> Nat]
  <2> HIDE DEF Change
  <2> QED BY <1>3
<1>5. nft' \in [Accounts -> [NftBanks -> [Symbols -> Nat]]]
  <2> HIDE DEF new
  <2> QED BY <1>2, <1>4
<1>6. ASSUME NEW a \in Accounts, NEW b \in NftBanks, NEW n \in Symbols
      PROVE  nft'[a][b][n] = nft[a][b][n]
                 + (IF b = bank /\ n \in DOMAIN s THEN Gain(a, from, to, s[n]) ELSE 0)
  <2>0. nft[a][b][n] \in Nat
    OBVIOUS
  <2>1. CASE b = bank
    <3>1. nft'[a][b] = new(a)
      <4> HIDE DEF new
      <4> QED BY <1>2, <2>1
    <3>2. nft'[a][b][n] = nft[a][bank][n] + Change(a, n)
      <4> HIDE DEF Change
      <4> QED BY <3>1
    <3>3. Change(a, n) = IF n \in DOMAIN s THEN Gain(a, from, to, s[n]) ELSE 0
      BY DEF Gain
    <3> HIDE DEF Change
    <3> QED BY <2>1, <3>2, <3>3
  <2>2. CASE b # bank
    <3>1. nft'[a][b] = nft[a][b]
      <4> HIDE DEF new
      <4> QED BY <1>2, <2>2
    <3> QED BY <2>0, <2>2, <3>1
  <2> QED BY <2>1, <2>2
<1> QED BY <1>1, <1>5, <1>6 DEF Moved

\* The money after a sale: what was taken has gone from the buyer to the distributor.
LEMMA MoneyMoved ==
    ASSUME money \in [Accounts -> [Currencies -> Nat]],
           NEW c \in Currencies, NEW from \in Users, NEW quantity \in Nat, NEW paid \in Nat,
           paid <= quantity, MoneyMoves(c, from, quantity, paid)
    PROVE  /\ money' \in [Accounts -> [Currencies -> Nat]]
           /\ \A a \in Accounts, e \in Currencies :
                 money'[a][e] = money[a][e]
                     + (IF e = c THEN Gain(a, from, Distributor, paid) ELSE 0)
<1> DEFINE v1 == money[Mart][c] + quantity - paid - (quantity - paid)
           v2 == money[Distributor][c] + paid
           v3 == money[from][c] - quantity + (quantity - paid)
<1>1. /\ Mart # Distributor /\ from # Mart /\ from # Distributor
      /\ Mart \in Accounts /\ Distributor \in Accounts /\ from \in Accounts
  BY MartAccounts DEF Accounts
<1>2. quantity <= money[from][c]
  BY DEF MoneyMoves
<1>3. /\ money[Mart][c] \in Nat /\ money[Distributor][c] \in Nat /\ money[from][c] \in Nat
  BY <1>1
<1>4. /\ v1 = money[Mart][c] /\ v2 \in Nat /\ v3 \in Nat /\ v3 = money[from][c] + (0 - paid)
  BY <1>2, <1>3
<1>5. money' = [money EXCEPT ![Mart] = [money[Mart] EXCEPT ![c] = v1],
                             ![Distributor] = [money[Distributor] EXCEPT ![c] = v2],
                             ![from] = [money[from] EXCEPT ![c] = v3]]
  BY <1>1 DEF MoneyMoves
<1> HIDE DEF v1, v2, v3
<1>6. /\ DOMAIN money' = Accounts
      /\ money'[Mart] = [money[Mart] EXCEPT ![c] = v1]
      /\ money'[Distributor] = [money[Distributor] EXCEPT ![c] = v2]
      /\ money'[from] = [money[from] EXCEPT ![c] = v3]
      /\ \A a \in Accounts \ {Mart, Distributor, from} : money'[a] = money[a]
  BY <1>1, <1>5
<1>7. ASSUME NEW a \in Accounts
      PROVE  /\ money'[a] \in [Currencies -> Nat]
             /\ \A e \in Currencies : money'[a][e] = money[a][e]
                     + (IF e = c THEN Gain(a, from, Distributor, paid) ELSE 0)
  <2>1. money[a] \in [Currencies -> Nat]
    OBVIOUS
  <2>2. CASE a = Mart
    <3>1. Gain(a, from, Distributor, paid) = 0
      BY <1>1, <2>2 DEF Gain
    <3>2. money'[a] = money[a]
      BY <1>4, <1>6, <2>1, <2>2
    <3> QED BY <2>1, <3>1, <3>2
  <2>3. CASE a = Distributor
    <3>1. Gain(a, from, Distributor, paid) = paid
      BY <1>1, <2>3 DEF Gain
    <3>2. money'[a] = [money[a] EXCEPT ![c] = v2] /\ v2 = money[a][c] + paid
      BY <1>6, <2>3 DEF v2
    <3> QED BY <1>4, <2>1, <3>1, <3>2
  <2>4. CASE a = from
    <3>1. Gain(a, from, Distributor, paid) = 0 - paid
      BY <1>1, <2>4 DEF Gain
    <3>2. money'[a] = [money[a] EXCEPT ![c] = v3] /\ v3 = money[a][c] + (0 - paid)
      BY <1>4, <1>6, <2>4
    <3> QED BY <1>4, <2>1, <3>1, <3>2
  <2>5. CASE a \notin {Mart, Distributor, from}
    <3>1. Gain(a, from, Distributor, paid) = 0
      BY <2>5 DEF Gain
    <3> QED BY <1>6, <2>1, <2>5, <3>1
  <2> QED BY <2>2, <2>3, <2>4, <2>5
<1>8. money' = [a \in Accounts |-> money'[a]]
  BY <1>5
<1> QED BY <1>7, <1>8
------------------------------------------------------------------------------
(* A sale *)

LEMMA RewardIsNat ==
    ASSUME NEW c \in Currencies, c.symbol \in DOMAIN reward_conf,
           reward_conf[c.symbol] \in Nat, NEW amount \in Nat
    PROVE  Reward(c, amount) \in Nat
<1> DEFINE x == 10 * reward_conf[c.symbol] * amount
           y == x \div Precision[c]
<1>1. x \in Nat /\ Precision[c] \in Nat \ {0}
  <2>1. Precision[c] \in Nat \ {0}
    BY MartInputs
  <2> DEFINE a == reward_conf[c.symbol]
  <2>2. a \in Nat
    OBVIOUS
  <2> HIDE DEF a
  <2>3. 10 * a * amount \in Nat
    BY <2>2
  <2> QED BY <2>1, <2>3 DEF a
<1> HIDE DEF x
<1>2. y \in Nat
  BY <1>1, Quotient
<1> HIDE DEF y
<1>3. y + 5 \in Nat
  BY <1>2
<1>4. (y + 5) \div 10 \in Nat
  BY <1>3, Quotient
<1> QED BY <1>4 DEF Reward, x, y

\* The apples after a sale.
LEMMA FarmerRewarded ==
    ASSUME TypeOK, NEW c \in Currencies, NEW amount \in Nat, NEW u \in Users,
           _reward_farmer(c, amount, u)
    PROVE  /\ apples' \in [Accounts -> Nat]
           /\ \A a \in Users : \/ apples'[a] = apples[a]
                               \/ a = u /\ apples'[a] = apples[a] + Reward(c, amount)
<1>1. apples \in [Accounts -> Nat] /\ u \in Accounts /\ Mart \in Accounts /\ Mart \notin Users
  BY MartAccounts DEF TypeOK, Accounts
<1>2. \A a \in Users : a \in Accounts /\ a # Mart
  BY MartAccounts DEF Accounts
<1>3. CASE UNCHANGED apples
  BY <1>1, <1>3
<1>4. CASE apples' # apples
  <2> DEFINE k == Reward(c, amount)
  <2>1. c.symbol \in DOMAIN reward_conf /\ allot(u, k)
    BY <1>4 DEF _reward_farmer
  <2>2. k \in Nat
    BY <2>1, RewardIsNat DEF TypeOK, IsTable
  <2> HIDE DEF k
  <2>3. k <= apples[Mart] /\ apples' = [apples EXCEPT ![Mart] = @ - k, ![u] = @ + k]
    BY <2>1 DEF allot
  <2>4. apples[Mart] - k \in Nat /\ apples[u] + k \in Nat
    BY <1>1, <2>2, <2>3
  <2>5. apples' \in [Accounts -> Nat]
    BY <1>1, <1>2, <2>3, <2>4
  <2>6. apples'[u] = apples[u] + k
    BY <1>1, <1>2, <2>3
  <2>7. \A a \in Users \ {u} : apples'[a] = apples[a]
    BY <1>1, <1>2, <2>3
  <2> QED BY <2>5, <2>6, <2>7 DEF k
<1> QED BY <1>3, <1>4

\* Everything that k NFTs of a booth sold to u change.
Sells(u, id, k, paid, draw) ==
    /\ id \in DOMAIN booths /\ id \in DOMAIN boothboxes
    /\ booths[id] \in BoothRow /\ IsBoxes(boothboxes[id]) /\ k \in 1 .. booths[id].nft_num
    /\ paid \in Nat /\ paid = booths[id].price * k
    /\ Drawn(boothboxes[id], booths[id].nft_num, k, draw)
    /\ boothboxes' = [boothboxes EXCEPT ![id] = draw.boxes]
    /\ booths' = [booths EXCEPT ![id].fund_recd = @ + paid,
                      ![id].nft_num = @ - k,
                      ![id].nft_box_num =
                          (@ - Cardinality(DOMAIN boothboxes[id] \ DOMAIN draw.boxes)) % (UintMax + 1)]
    /\ money' \in [Accounts -> [Currencies -> Nat]]
    /\ \A a \in Accounts, e \in Currencies :
          money'[a][e] = money[a][e]
              + (IF e = booths[id].currency THEN Gain(a, u, Distributor, paid) ELSE 0)
    /\ nft' \in [Accounts -> [NftBanks -> [Symbols -> Nat]]]
    /\ \A a \in Accounts, b \in NftBanks, n \in Symbols :
          nft'[a][b][n] = nft[a][b][n]
              + (IF b = booths[id].nft_contract THEN Gain(a, Mart, u, draw.bought[n]) ELSE 0)
    /\ apples' \in [Accounts -> Nat]
    /\ \A a \in Users : \/ apples'[a] = apples[a]
                        \/ a = u /\ apples'[a] = apples[a] + Reward(booths[id].currency, paid)
    /\ UNCHANGED <<gstate, now, touched, reward_conf>>

LEMMA TransferSells ==
    ASSUME TypeOK, NEW u \in Users, NEW c \in Currencies, NEW q \in Payments, NEW id,
           _transfer_token(u, c, q, id)
    PROVE  \E k \in Nat, paid \in Nat : \E draw : Sells(u, id, k, paid, draw)
<1> DEFINE booth == booths[id]
           k == q \div booth.price
           paid == Paid(booth, q)
<1>1. /\ id \in DOMAIN booths /\ id \in DOMAIN boothboxes /\ booth.currency = c
      /\ k >= 1 /\ k <= booth.nft_num
      /\ MoneyMoves(c, u, q, paid) /\ _reward_farmer(c, paid, u)
      /\ UNCHANGED <<gstate, now, touched, reward_conf>>
  BY DEF _transfer_token
<1>2. PICK draw \in Draws(boothboxes[id], booth.nft_num, k) :
        /\ NftMoves(booth.nft_contract, Mart, u, Positive(draw.bought))
        /\ boothboxes' = [boothboxes EXCEPT ![id] = draw.boxes]
        /\ booths' = [booths EXCEPT ![id].fund_recd = @ + paid,
                          ![id].nft_num = @ - k,
                          ![id].nft_box_num =
                              (@ - Cardinality(DOMAIN boothboxes[id] \ DOMAIN draw.boxes))
                                  % (UintMax + 1)]
  BY DEF _transfer_token
<1>3. booth \in BoothRow /\ IsBoxes(boothboxes[id])
  BY <1>1 DEF TypeOK, IsTable, IsBoxes
<1>4. booth.price \in Nat \ {0} /\ booth.nft_num \in Nat /\ q \in Nat
      /\ booth.nft_contract \in NftBanks
  BY <1>3, MartInputs DEF BoothRow
<1>5. k \in Nat /\ k * booth.price <= q
  <2> DEFINE p == booth.price
  <2> HIDE DEF p
  <2>1. p \in Nat \ {0}
    BY <1>4 DEF p
  <2>2. q \div p \in Nat /\ (q \div p) * p <= q
    BY <1>4, <2>1, Quotient
  <2> QED BY <2>2 DEF p
<1>6. paid = booth.price * k
  BY DEF Paid
<1> HIDE DEF k, paid
<1>7. paid \in Nat /\ paid <= q
  <2>1. booth.price * k = k * booth.price /\ booth.price * k \in Nat
    BY <1>4, <1>5
  <2> HIDE DEF booth
  <2> QED BY <1>5, <1>6, <2>1
<1>8. Drawn(boothboxes[id], booth.nft_num, k, draw)
  <2>1. k \in 0 .. booth.nft_num
    BY <1>1, <1>4, <1>5
  <2> HIDE DEF booth
  <2> QED BY <1>2, <1>3, <1>4, <2>1, DrawsAreDrawn DEF booth
<1>9. /\ money' \in [Accounts -> [Currencies -> Nat]]
      /\ \A a \in Accounts, e \in Currencies :
            money'[a][e] = money[a][e] + (IF e = c THEN Gain(a, u, Distributor, paid) ELSE 0)
  BY <1>1, <1>4, <1>7, MoneyMoved DEF TypeOK
<1>10. u \in Accounts /\ Mart \in Accounts
  BY DEF Accounts
<1> DEFINE s == Positive(draw.bought)
<1>11. /\ draw.bought \in [Symbols -> Nat]
       /\ DOMAIN s \subseteq Symbols
       /\ \A n \in Symbols : /\ n \in DOMAIN s => s[n] = draw.bought[n]
                             /\ n \notin DOMAIN s => draw.bought[n] = 0
  <2>1. draw.bought \in [Symbols -> Nat]
    BY <1>8 DEF Drawn
  <2> QED BY <2>1 DEF Positive
<1> HIDE DEF s
<1>12. /\ nft' \in [Accounts -> [NftBanks -> [Symbols -> Nat]]]
       /\ \A a \in Accounts, b \in NftBanks, n \in Symbols :
             nft'[a][b][n] = nft[a][b][n]
                 + (IF b = booth.nft_contract /\ n \in DOMAIN s THEN Gain(a, Mart, u, s[n]) ELSE 0)
  <2>1. NftMoves(booth.nft_contract, Mart, u, s)
    BY <1>2 DEF s
  <2> DEFINE b == booth.nft_contract
  <2>2. b \in NftBanks /\ NftMoves(b, Mart, u, s)
    BY <1>4, <2>1
  <2> HIDE DEF booth, b
  <2>3. nft \in [Accounts -> [NftBanks -> [Symbols -> Nat]]]
    BY DEF TypeOK
  <2>4. Moved(b, Mart, u, s)
    BY <1>10, <1>11, <2>2, <2>3, NftsMoved
  <2> QED BY <2>4 DEF Moved, b
<1>13. \A a \in Accounts, b \in NftBanks, n \in Symbols :
          nft'[a][b][n] = nft[a][b][n]
              + (IF b = booth.nft_contract THEN Gain(a, Mart, u, draw.bought[n]) ELSE 0)
  <2> TAKE a \in Accounts, b \in NftBanks, n \in Symbols
  <2>1. CASE n \in DOMAIN s
    BY <1>11, <1>12, <2>1
  <2>2. CASE n \notin DOMAIN s
    <3>1. Gain(a, Mart, u, draw.bought[n]) = 0
      BY <1>11, <2>2 DEF Gain
    <3> QED BY <1>12, <2>2, <3>1
  <2> QED BY <2>1, <2>2
<1>14. /\ apples' \in [Accounts -> Nat]
       /\ \A a \in Users : \/ apples'[a] = apples[a]
                           \/ a = u /\ apples'[a] = apples[a] + Reward(c, paid)
  BY <1>1, <1>7, FarmerRewarded
<1>15. k \in 1 .. booth.nft_num
  BY <1>1, <1>4, <1>5
<1>16. Sells(u, id, k, paid, draw)
  BY <1>1, <1>2, <1>3, <1>6, <1>7, <1>8, <1>9, <1>12, <1>13, <1>14, <1>15 DEF Sells
<1> QED BY <1>5, <1>7, <1>16

\* What a sale makes of the row.
Sold(id, k, paid, draw) ==
    /\ DOMAIN booths' = DOMAIN booths /\ booths'[id] \in BoothRow
    /\ \A i \in DOMAIN booths : i # id => booths'[i] = booths[i]
    /\ booths'[id].price = booths[id].price /\ booths'[id].currency = booths[id].currency
    /\ booths'[id].nft_contract = booths[id].nft_contract
    /\ booths'[id].fund_recd = booths[id].fund_recd + paid
    /\ booths'[id].nft_num = booths[id].nft_num - k
    /\ booths'[id].nft_num_sum = booths[id].nft_num_sum
    /\ booths'[id].nft_box_num =
          (booths[id].nft_box_num - Cardinality(DOMAIN boothboxes[id] \ DOMAIN draw.boxes))
              % (UintMax + 1)

\* The booth's row after the sale.
LEMMA SoldRow ==
    ASSUME NEW u, NEW id, NEW k \in Nat, NEW paid \in Nat, NEW draw, Sells(u, id, k, paid, draw)
    PROVE  Sold(id, k, paid, draw)
<1> DEFINE r == booths[id]
           gone == Cardinality(DOMAIN boothboxes[id] \ DOMAIN draw.boxes)
           x == (r.nft_box_num - gone) % (UintMax + 1)
           y == r.nft_num - k
           z == r.fund_recd + paid
<1>1. /\ id \in DOMAIN booths /\ r \in BoothRow /\ k \in 1 .. r.nft_num
      /\ booths' = [booths EXCEPT ![id].fund_recd = @ + paid, ![id].nft_num = @ - k,
                                  ![id].nft_box_num = (@ - gone) % (UintMax + 1)]
  BY DEF Sells
<1>2. y \in Nat /\ z \in Nat
  BY <1>1 DEF BoothRow
<1>3. x \in 0 .. UintMax
  <2>1. IsFiniteSet(DOMAIN boothboxes[id] \ DOMAIN draw.boxes)
    <3>1. DOMAIN boothboxes[id] \ DOMAIN draw.boxes \in SUBSET DOMAIN boothboxes[id]
      OBVIOUS
    <3>2. IsFiniteSet(DOMAIN boothboxes[id])
      BY SymbolIds DEF Sells
    <3> QED BY <3>1, <3>2, FS_Subset
  <2>2. gone \in Nat
    BY <2>1, FS_CardinalityType
  <2> HIDE DEF gone
  <2>3. r.nft_box_num - gone \in Int /\ UintMax + 1 \in Nat \ {0}
    BY <1>1, <2>2, MartInputs DEF BoothRow
  <2> DEFINE a == r.nft_box_num - gone
             m == UintMax + 1
  <2> HIDE DEF a, m
  <2>4. a % m \in 0 .. m - 1
    BY <2>3 DEF a, m
  <2> QED BY <2>4, MartInputs DEF a, m
<1>4. booths' = [booths EXCEPT ![id] = [r EXCEPT !.fund_recd = z, !.nft_num = y, !.nft_box_num = x]]
  BY <1>1 DEF BoothRow
<1> HIDE DEF x, y, z
<1>5. /\ DOMAIN booths' = DOMAIN booths /\ \A i \in DOMAIN booths : i # id => booths'[i] = booths[i]
      /\ booths'[id] = [r EXCEPT !.fund_recd = z, !.nft_num = y, !.nft_box_num = x]
  BY <1>1, <1>4
<1>6. /\ booths'[id] \in BoothRow /\ booths'[id].price = r.price
      /\ booths'[id].currency = r.currency /\ booths'[id].nft_contract = r.nft_contract
      /\ booths'[id].nft_num_sum = r.nft_num_sum
      /\ booths'[id].fund_recd = z /\ booths'[id].nft_num = y /\ booths'[id].nft_box_num = x
  BY <1>1, <1>2, <1>3, <1>5 DEF BoothRow
<1> QED BY <1>5, <1>6 DEF x, y, z, Sold
------------------------------------------------------------------------------
(* The types and the money *)

\* What the booths of a currency have received.
Raised(t, c) ==
    Tagged([i \in DOMAIN t |-> t[i].currency], [i \in DOMAIN t |-> t[i].fund_recd], c)

\* SalesSettle in two parts.
FundsAreSales ==
    \A id \in DOMAIN booths :
        booths[id].fund_recd = booths[id].price * (booths[id].nft_num_sum - booths[id].nft_num)
MoneySettles ==
    \A c \in Currencies :
        /\ money[Mart][c] = FirstMoney[Mart][c]
        /\ money[Distributor][c] - FirstMoney[Distributor][c] >= Raised(booths, c)

LEMMA SalesSettleParts == SalesSettle <=> FundsAreSales /\ MoneySettles
<1>1. ASSUME NEW c \in Currencies
      PROVE  Raised(booths, c)
                 = SumFunction([id \in {i \in DOMAIN booths : booths[i].currency = c} |->
                                   booths[id].fund_recd])
  <2> DEFINE tag == [i \in DOMAIN booths |-> booths[i].currency]
             val == [i \in DOMAIN booths |-> booths[i].fund_recd]
  <2>1. {j \in DOMAIN tag : tag[j] = c} = {i \in DOMAIN booths : booths[i].currency = c}
    OBVIOUS
  <2>2. [i \in {j \in DOMAIN tag : tag[j] = c} |-> val[i]]
            = [i \in {j \in DOMAIN booths : booths[j].currency = c} |-> booths[i].fund_recd]
    BY <2>1
  <2> QED BY <2>2 DEF Raised, Tagged
<1> QED BY <1>1 DEF SalesSettle, FundsAreSales, MoneySettles

\* Booth x is created, or changed in its own currency, and receives d.
Receives(t, u, x, d) ==
    /\ IsFiniteSet(DOMAIN t) /\ DOMAIN u = DOMAIN t \cup {x} /\ d \in Int
    /\ \A i \in DOMAIN t : t[i] \in BoothRow
    /\ \A i \in DOMAIN t : i = x \/ u[i] = t[i]
    /\ x \notin DOMAIN t \/ u[x].currency = t[x].currency
    /\ u[x].fund_recd = (IF x \in DOMAIN t THEN t[x].fund_recd ELSE 0) + d

LEMMA RaisedChanges ==
    ASSUME NEW t, NEW u, NEW x, NEW d, Receives(t, u, x, d)
    PROVE  \A c : /\ Raised(t, c) \in Int
                  /\ Raised(u, c) = Raised(t, c) + (IF c = u[x].currency THEN d ELSE 0)
<1> USE DEF Receives
<1> DEFINE tag == [i \in DOMAIN t |-> t[i].currency]
           val == [i \in DOMAIN t |-> t[i].fund_recd]
           tag2 == [i \in DOMAIN u |-> u[i].currency]
           val2 == [i \in DOMAIN u |-> u[i].fund_recd]
<1>1. /\ DOMAIN tag = DOMAIN t /\ DOMAIN tag2 = DOMAIN u /\ x \in DOMAIN u
      /\ \A i \in DOMAIN t : i \in DOMAIN u /\ tag[i] = t[i].currency /\ val[i] = t[i].fund_recd
      /\ \A i \in DOMAIN u : tag2[i] = u[i].currency /\ val2[i] = u[i].fund_recd
  OBVIOUS
<1>2. \A i \in DOMAIN t : val[i] \in Int
  BY <1>1 DEF BoothRow
<1>3. \A c : Raised(t, c) = Tagged(tag, val, c)
  BY DEF Raised
<1>4. \A c : Raised(u, c) = Tagged(tag2, val2, c)
  BY DEF Raised
<1> HIDE DEF tag, val, tag2, val2
<1>5. TagMoves(tag, tag2, val, val2, x, d)
  BY <1>1, <1>2 DEF TagMoves
<1>6. \A a : /\ Tagged(tag, val, a) \in Int
             /\ Tagged(tag2, val2, a) = Tagged(tag, val, a) + (IF a = tag2[x] THEN d ELSE 0)
  BY <1>5, TaggedChanges
<1> QED BY <1>1, <1>3, <1>4, <1>6

\* A booth that goes takes what it received with it.
LEMMA RaisedFalls ==
    ASSUME NEW t, IsFiniteSet(DOMAIN t), \A i \in DOMAIN t : t[i] \in BoothRow,
           NEW x, NEW u, u = Erase(t, {x}), NEW c
    PROVE  Raised(u, c) \in Int /\ Raised(t, c) \in Int /\ Raised(u, c) <= Raised(t, c)
<1> DEFINE val == [i \in DOMAIN t |-> t[i].fund_recd]
           val2 == [i \in DOMAIN u |-> u[i].fund_recd]
           tag == [i \in DOMAIN t |-> t[i].currency]
           tag2 == [i \in DOMAIN u |-> u[i].currency]
           D == {i \in DOMAIN tag : tag[i] = c}
           E == {i \in DOMAIN tag2 : tag2[i] = c}
<1>1. DOMAIN u = DOMAIN t \ {x} /\ \A i \in DOMAIN u : u[i] = t[i]
  BY DEF Erase
<1>2. D \in SUBSET DOMAIN t /\ E \in SUBSET D
  BY <1>1
<1>3. /\ \A i \in DOMAIN t : val[i] \in Nat
      /\ \A i \in E : val2[i] = val[i]
  BY <1>1 DEF BoothRow
<1>4. IsFiniteSet(D) /\ IsFiniteSet(E)
  <2> HIDE DEF D, E
  <2> QED BY <1>2, FS_Subset
<1>5. Raised(t, c) = SumFunction([i \in D |-> val[i]]) /\ Raised(u, c) = SumFunction([i \in E |-> val2[i]])
  BY DEF Raised, Tagged
<1> HIDE DEF D, E, val, val2, tag, tag2
<1>6. Raised(t, c) = Sum(val, D)
  <2> DEFINE v == [i \in D |-> val[i]]
  <2>1. v = [i \in D |-> val[i]] /\ Raised(t, c) = SumFunction(v)
    BY <1>5
  <2> HIDE DEF v
  <2> QED BY <1>4, <2>1, SumFunctionOver
<1>7. Raised(u, c) = Sum(val2, E)
  <2> DEFINE v == [i \in E |-> val2[i]]
  <2>1. v = [i \in E |-> val2[i]] /\ Raised(u, c) = SumFunction(v)
    BY <1>5
  <2> HIDE DEF v
  <2> QED BY <1>4, <2>1, SumFunctionOver
<1>8. Sum(val2, E) = Sum(val, E)
  BY <1>3, <1>4, SumSame
<1>9. Sum(val, E) <= Sum(val, D) /\ Sum(val, E) \in Nat /\ Sum(val, D) \in Nat
  BY <1>2, <1>3, <1>4, SumLe, SumNat
<1> QED BY <1>6, <1>7, <1>8, <1>9

LEMMA BoothsFinite ==
    ASSUME TypeOK
    PROVE  IsFiniteSet(DOMAIN booths) /\ \A i \in DOMAIN booths : booths[i] \in BoothRow
<1>1. /\ gstate.last_booth_id \in Nat /\ DOMAIN booths \subseteq 1 .. gstate.last_booth_id
      /\ \A i \in DOMAIN booths : booths[i] \in BoothRow
  BY DEF TypeOK, IsTable
<1>2. IsFiniteSet(1 .. gstate.last_booth_id)
  BY <1>1, FS_Interval
<1> QED BY <1>1, <1>2, FS_Subset

\* One row changes; it receives d, and the NFTs sold grow by k.
Changed(id, k, d) ==
    /\ id \in DOMAIN booths /\ DOMAIN booths' = DOMAIN booths
    /\ \A i \in DOMAIN booths : i # id => booths'[i] = booths[i]
    /\ booths'[id] \in BoothRow
    /\ booths'[id].nft_num <= booths'[id].nft_num_sum
    /\ booths'[id].price = booths[id].price /\ booths'[id].currency = booths[id].currency
    /\ k \in Nat /\ d \in Nat /\ d = booths[id].price * k
    /\ booths'[id].fund_recd = booths[id].fund_recd + d
    /\ booths'[id].nft_num_sum - booths'[id].nft_num
           = booths[id].nft_num_sum - booths[id].nft_num + k

LEMMA ChangedTypes ==
    ASSUME TypeOK, NEW id, NEW k, NEW d, Changed(id, k, d), gstate' = gstate
    PROVE  /\ IsTable(booths', 1 .. gstate'.last_booth_id, BoothRow)
           /\ \A i \in DOMAIN booths' : booths'[i].nft_num <= booths'[i].nft_num_sum
BY DEF TypeOK, IsTable, Changed

\* Its sales are still paid for, and the booths of its currency have received d more.
LEMMA ChangedFunds ==
    ASSUME TypeOK, FundsAreSales, NEW id, NEW k, NEW d, Changed(id, k, d)
    PROVE  /\ FundsAreSales'
           /\ \A c : /\ Raised(booths, c) \in Int
                     /\ Raised(booths', c)
                            = Raised(booths, c) + (IF c = booths[id].currency THEN d ELSE 0)
<1> USE DEF Changed
<1>1. IsFiniteSet(DOMAIN booths) /\ \A i \in DOMAIN booths : booths[i] \in BoothRow
  BY BoothsFinite
<1>2. Receives(booths, booths', id, d)
  <2>0. id \in DOMAIN booths /\ DOMAIN booths' = DOMAIN booths /\ d \in Nat
    OBVIOUS
  <2>1. id \in DOMAIN booths /\ DOMAIN booths' = DOMAIN booths \cup {id} /\ d \in Int
    <3> DEFINE A == DOMAIN booths
               B == DOMAIN booths'
    <3>1. id \in A /\ B = A
      BY <2>0
    <3> HIDE DEF A, B
    <3>2. B = A \cup {id}
      BY <3>1
    <3> QED BY <2>0, <3>2 DEF A, B
  <2>2. booths'[id].fund_recd = (IF id \in DOMAIN booths THEN booths[id].fund_recd ELSE 0) + d
    BY <2>1
  <2>3. \A i \in DOMAIN booths : i = id \/ booths'[i] = booths[i]
    OBVIOUS
  <2>4. booths'[id].currency = booths[id].currency
    OBVIOUS
  <2> QED BY <1>1, <2>1, <2>2, <2>3, <2>4 DEF Receives
<1>3. \A c : /\ Raised(booths, c) \in Int
             /\ Raised(booths', c)
                    = Raised(booths, c) + (IF c = booths'[id].currency THEN d ELSE 0)
  BY <1>2, RaisedChanges
<1>4. ASSUME NEW i \in DOMAIN booths'
      PROVE  booths'[i].fund_recd = booths'[i].price * (booths'[i].nft_num_sum - booths'[i].nft_num)
  <2>1. CASE i # id
    BY <2>1 DEF FundsAreSales
  <2>2. CASE i = id
    <3> DEFINE p == booths[id].price
               s == booths[id].nft_num_sum - booths[id].nft_num
    <3>1. p \in Int /\ s \in Int /\ k \in Int
      <4>1. booths[id] \in BoothRow /\ k \in Nat
        BY <1>1
      <4>2. p \in Prices /\ booths[id].nft_num_sum \in Nat /\ booths[id].nft_num \in Nat
        BY <4>1 DEF BoothRow
      <4>3. p \in Nat
        BY <4>2, MartInputs
      <4> QED BY <4>1, <4>2, <4>3
    <3>2. booths[id].fund_recd = p * s
      BY DEF FundsAreSales
    <3>3. /\ booths'[id].fund_recd = p * s + p * k
          /\ booths'[id].price = p /\ booths'[id].nft_num_sum - booths'[id].nft_num = s + k
      BY <3>2
    <3> HIDE DEF p, s
    <3>4. p * (s + k) = p * s + p * k
      BY <3>1
    <3> QED BY <2>2, <3>3, <3>4
  <2> QED BY <2>1, <2>2
<1>5. FundsAreSales'
  BY <1>4 DEF FundsAreSales
<1> QED BY <1>3, <1>5

\* A row that changes outside of a sale changes nothing about the money.
LEMMA ChangedSettles ==
    ASSUME TypeOK, SalesSettle, NEW id, Changed(id, 0, 0), UNCHANGED money
    PROVE  SalesSettle'
<1>1. FundsAreSales /\ MoneySettles
  BY SalesSettleParts
<1>2. /\ FundsAreSales'
      /\ \A c : Raised(booths', c) = Raised(booths, c)
  <2>1. /\ FundsAreSales'
        /\ \A c : /\ Raised(booths, c) \in Int
                  /\ Raised(booths', c)
                         = Raised(booths, c) + (IF c = booths[id].currency THEN 0 ELSE 0)
    BY <1>1, ChangedFunds
  <2> QED BY <2>1
<1>3. MoneySettles'
  BY <1>1, <1>2 DEF MoneySettles
<1> QED BY <1>2, <1>3, SalesSettleParts, PTL
------------------------------------------------------------------------------
(* Every action keeps the types and settles the sales *)

MartInv == TypeOK /\ SalesSettle

LEMMA InitInv == Init => MartInv
<1> SUFFICES ASSUME Init PROVE MartInv
  OBVIOUS
<1> USE DEF Init
<1>1. DOMAIN booths = {} /\ DOMAIN boothboxes = {} /\ touched = {}
  BY DEF EmptyTable
<1>2. TypeOK
  <2>1. IsTable(reward_conf, Coins \cup {"MUSDT"}, Nat)
    BY DEF IsTable
  <2>2. apples \in [Accounts -> Nat]
    BY MartInputs
  <2>3. /\ money \in [Accounts -> [Currencies -> Nat]]
        /\ nft \in [Accounts -> [NftBanks -> [Symbols -> Nat]]]
    BY MartInputs
  <2>4. gstate \in [max_booth_boxes : Nat, last_booth_id : Nat] /\ now \in Nat
    OBVIOUS
  <2>5. IsTable(booths, 1 .. gstate.last_booth_id, BoothRow)
    BY <1>1 DEF IsTable
  <2> QED BY <1>1, <2>1, <2>2, <2>3, <2>4, <2>5 DEF TypeOK
<1>3. FundsAreSales
  BY <1>1 DEF FundsAreSales
<1>4. MoneySettles
  <2>1. ASSUME NEW c PROVE Raised(booths, c) = 0
    <3> DEFINE tag == [i \in DOMAIN booths |-> booths[i].currency]
               val == [i \in DOMAIN booths |-> booths[i].fund_recd]
               v == [i \in {j \in DOMAIN tag : tag[j] = c} |-> val[i]]
    <3>1. DOMAIN v = {}
      BY <1>1
    <3>2. Raised(booths, c) = SumFunction(v)
      BY DEF Raised, Tagged
    <3> HIDE DEF v
    <3> QED BY <3>1, <3>2, SumFunctionIsSum, SumEmpty
  <2>2. ASSUME NEW c \in Currencies
        PROVE  money[Distributor][c] = FirstMoney[Distributor][c] /\ money[Distributor][c] \in Nat
    BY MartInputs DEF Accounts
  <2> QED BY <2>1, <2>2 DEF MoneySettles
<1> QED BY <1>2, <1>3, <1>4, SalesSettleParts DEF MartInv

LEMMA CreateInv ==
    ASSUME MartInv, NEW u \in Owners, NEW b \in NftBanks, NEW c \in Currencies, NEW p \in Prices,
           NEW o \in Openings, NEW d \in Durations, createbooth(u, b, c, p, o, d)
    PROVE  MartInv'
<1> DEFINE id == gstate.last_booth_id + 1
           row == [owner |-> u, nft_contract |-> b, currency |-> c, price |-> p, fund_recd |-> 0,
                   nft_box_num |-> 0, nft_num |-> 0, nft_num_sum |-> 0, status |-> "enabled",
                   opened_at |-> o, closed_at |-> o + d]
<1>1. /\ booths' = Emplace(booths, id, row)
      /\ gstate' = [gstate EXCEPT !.last_booth_id = id]
      /\ UNCHANGED <<boothboxes, money, nft, now, touched, farmvars>>
  BY DEF createbooth
<1>2. TypeOK /\ FundsAreSales /\ MoneySettles
  BY SalesSettleParts DEF MartInv
<1>3. row \in BoothRow
  BY MartInputs DEF BoothRow
<1>4. id \in Nat /\ id \notin DOMAIN booths
  BY <1>2 DEF TypeOK, IsTable
<1>5. row.fund_recd = 0 /\ row.nft_num = 0 /\ row.nft_num_sum = 0 /\ row.price \in Nat
  BY MartInputs
<1> HIDE DEF row
<1>6. /\ DOMAIN booths' = DOMAIN booths \cup {id} /\ booths'[id] = row
      /\ \A i \in DOMAIN booths : i # id => booths'[i] = booths[i]
  <2> HIDE DEF id
  <2> QED BY <1>1 DEF Emplace
<1>7. gstate' \in [max_booth_boxes : Nat, last_booth_id : Nat] /\ gstate'.last_booth_id = id
  BY <1>1, <1>2, <1>4 DEF TypeOK
<1>8. IsTable(booths', 1 .. gstate'.last_booth_id, BoothRow)
  BY <1>2, <1>3, <1>4, <1>6, <1>7 DEF TypeOK, IsTable
<1>9. \A i \in DOMAIN booths' : booths'[i].nft_num <= booths'[i].nft_num_sum
  BY <1>2, <1>5, <1>6 DEF TypeOK
<1>10. DOMAIN boothboxes' \subseteq DOMAIN booths'
  BY <1>1, <1>2, <1>6 DEF TypeOK
<1>11. TypeOK'
  BY <1>1, <1>2, <1>7, <1>8, <1>9, <1>10 DEF TypeOK, farmvars
<1>12. FundsAreSales'
  <2>1. ASSUME NEW i \in DOMAIN booths'
        PROVE booths'[i].fund_recd = booths'[i].price * (booths'[i].nft_num_sum - booths'[i].nft_num)
    <3>1. CASE i = id
      <4>1. row.price * (row.nft_num_sum - row.nft_num) = 0
        BY <1>5
      <4> QED BY <1>5, <1>6, <3>1, <4>1
    <3>2. CASE i # id
      BY <1>2, <1>6, <3>2 DEF FundsAreSales
    <3> QED BY <3>1, <3>2
  <2> QED BY <2>1 DEF FundsAreSales
<1>13. \A e : Raised(booths', e) = Raised(booths, e)
  <2>1. IsFiniteSet(DOMAIN booths) /\ \A i \in DOMAIN booths : booths[i] \in BoothRow
    BY <1>2, BoothsFinite
  <2>2. Receives(booths, booths', id, 0)
    BY <1>4, <1>5, <1>6, <2>1 DEF Receives
  <2>3. \A e : /\ Raised(booths, e) \in Int
               /\ Raised(booths', e) = Raised(booths, e) + (IF e = booths'[id].currency THEN 0 ELSE 0)
    BY <2>2, RaisedChanges
  <2> QED BY <2>3
<1>14. MoneySettles'
  BY <1>1, <1>2, <1>13 DEF MoneySettles
<1> QED BY <1>11, <1>12, <1>14, SalesSettleParts, PTL DEF MartInv

\* An action that changes a row and nothing else.
LEMMA RowInv ==
    ASSUME MartInv, NEW id, Changed(id, 0, 0),
           UNCHANGED <<gstate, boothboxes, money, nft, now, touched, farmvars>>
    PROVE  MartInv'
<1>1. TypeOK /\ SalesSettle
  BY DEF MartInv
<1>2. /\ IsTable(booths', 1 .. gstate'.last_booth_id, BoothRow)
      /\ \A i \in DOMAIN booths' : booths'[i].nft_num <= booths'[i].nft_num_sum
  BY <1>1, ChangedTypes
<1>3. DOMAIN booths' = DOMAIN booths
  BY DEF Changed
<1>4. TypeOK'
  BY <1>1, <1>2, <1>3 DEF TypeOK, farmvars
<1> QED BY <1>1, <1>4, ChangedSettles DEF MartInv

LEMMA EnableInv ==
    ASSUME MartInv, NEW id, NEW s \in {"enabled", "disabled"}, enablebooth(id, s)
    PROVE  MartInv'
<1> DEFINE r == booths[id]
<1>1. /\ id \in DOMAIN booths /\ booths' = [booths EXCEPT ![id].status = s]
      /\ UNCHANGED <<gstate, boothboxes, money, nft, now, touched, farmvars>>
  BY DEF enablebooth
<1>2. r \in BoothRow /\ r.nft_num <= r.nft_num_sum
  BY <1>1 DEF MartInv, TypeOK, IsTable
<1>3. DOMAIN booths' = DOMAIN booths /\ booths'[id] = [r EXCEPT !.status = s]
      /\ \A i \in DOMAIN booths : i # id => booths'[i] = booths[i]
  BY <1>1
<1>4. r.price \in Nat /\ r.fund_recd \in Nat /\ r.nft_num \in Nat /\ r.nft_num_sum \in Nat
  BY <1>2, MartInputs DEF BoothRow
<1> DEFINE q == booths'[id]
<1>5. /\ q \in BoothRow /\ q.price = r.price /\ q.currency = r.currency
      /\ q.fund_recd = r.fund_recd /\ q.nft_num = r.nft_num /\ q.nft_num_sum = r.nft_num_sum
  BY <1>2, <1>3 DEF BoothRow
<1>6. Changed(id, 0, 0)
  BY <1>1, <1>2, <1>3, <1>4, <1>5 DEF Changed
<1> QED BY <1>1, <1>6, RowInv

LEMMA TimeInv ==
    ASSUME MartInv, NEW id, NEW t \in BoothTimes, setboothtime(id, t[1], t[2])
    PROVE  MartInv'
<1> DEFINE r == booths[id]
<1>1. /\ id \in DOMAIN booths
      /\ booths' = [booths EXCEPT ![id].opened_at = t[1], ![id].closed_at = t[2]]
      /\ UNCHANGED <<gstate, boothboxes, money, nft, now, touched, farmvars>>
  BY DEF setboothtime
<1>2. r \in BoothRow /\ r.nft_num <= r.nft_num_sum
  BY <1>1 DEF MartInv, TypeOK, IsTable
<1>3. DOMAIN booths' = DOMAIN booths
      /\ booths'[id] = [r EXCEPT !.opened_at = t[1], !.closed_at = t[2]]
      /\ \A i \in DOMAIN booths : i # id => booths'[i] = booths[i]
  BY <1>1
<1>4. r.price \in Nat /\ r.fund_recd \in Nat /\ r.nft_num \in Nat /\ r.nft_num_sum \in Nat
  BY <1>2, MartInputs DEF BoothRow
<1> DEFINE q == booths'[id]
<1>5. /\ q \in BoothRow /\ q.price = r.price /\ q.currency = r.currency
      /\ q.fund_recd = r.fund_recd /\ q.nft_num = r.nft_num /\ q.nft_num_sum = r.nft_num_sum
  <2>1. t[1] \in Nat /\ t[2] \in Nat
    BY MartInputs
  <2> QED BY <1>2, <1>3, <2>1 DEF BoothRow
<1>6. Changed(id, 0, 0)
  BY <1>1, <1>2, <1>3, <1>4, <1>5 DEF Changed
<1> QED BY <1>1, <1>6, RowInv

\* Boxes leave for an owner, and the booth with them.
LEMMA CloseInv ==
    ASSUME MartInv, NEW id, closebooth(id)
    PROVE  MartInv'
<1> DEFINE r == booths[id]
           s == boothboxes[id]
<1>1. /\ id \in DOMAIN booths /\ id \in DOMAIN boothboxes
      /\ NftMoves(r.nft_contract, Mart, r.owner, s)
      /\ booths' = Erase(booths, {id}) /\ boothboxes' = Erase(boothboxes, {id})
      /\ UNCHANGED <<gstate, money, now, touched, farmvars>>
  BY DEF closebooth, BoxesWithout
<1>2. TypeOK /\ FundsAreSales /\ MoneySettles
  BY SalesSettleParts DEF MartInv
<1>3. r \in BoothRow /\ DOMAIN s \subseteq Symbols
  BY <1>1, <1>2 DEF TypeOK, IsTable
<1>4. r.nft_contract \in NftBanks /\ r.owner \in Accounts /\ Mart \in Accounts
  BY <1>3, MartAccounts DEF BoothRow, Accounts
<1>5. nft' \in [Accounts -> [NftBanks -> [Symbols -> Nat]]]
  <2> DEFINE b == r.nft_contract
             a == r.owner
  <2>1. b \in NftBanks /\ a \in Accounts /\ Mart \in Accounts /\ NftMoves(b, Mart, a, s)
    BY <1>1, <1>4
  <2>2. nft \in [Accounts -> [NftBanks -> [Symbols -> Nat]]]
    BY <1>2 DEF TypeOK
  <2> HIDE DEF a, b, s
  <2> QED BY <1>3, <2>1, <2>2, NftsMoved DEF Moved
<1>6. /\ DOMAIN booths' = DOMAIN booths \ {id} /\ \A i \in DOMAIN booths' : booths'[i] = booths[i]
      /\ DOMAIN boothboxes' = DOMAIN boothboxes \ {id}
      /\ \A i \in DOMAIN boothboxes' : boothboxes'[i] = boothboxes[i]
  BY <1>1 DEF Erase
<1>7. TypeOK'
  BY <1>1, <1>2, <1>5, <1>6 DEF TypeOK, IsTable, farmvars
<1>8. FundsAreSales'
  BY <1>2, <1>6 DEF FundsAreSales
<1>9. MoneySettles'
  <2>1. IsFiniteSet(DOMAIN booths) /\ \A i \in DOMAIN booths : booths[i] \in BoothRow
    BY <1>2, BoothsFinite
  <2>2. \A c : /\ Raised(booths', c) \in Int /\ Raised(booths, c) \in Int
               /\ Raised(booths', c) <= Raised(booths, c)
    BY <1>1, <2>1, RaisedFalls
  <2>3. ASSUME NEW c \in Currencies
        PROVE  money[Distributor][c] - FirstMoney[Distributor][c] \in Int
    BY <1>2, MartInputs DEF TypeOK, Accounts
  <2> QED BY <1>1, <1>2, <2>2, <2>3 DEF MoneySettles
<1> QED BY <1>7, <1>8, <1>9, SalesSettleParts, PTL DEF MartInv
------------------------------------------------------------------------------
(* A refuel *)

\* Everything that a batch brings to a booth.
Refuels(u, b, s, id, missed) ==
    LET r    == booths[id]
        old  == BoxesOf(id)
        num  == (r.nft_box_num + Cardinality(DOMAIN s \ (DOMAIN old \ missed))) % (UintMax + 1)
    IN  /\ id \in DOMAIN booths /\ r \in BoothRow /\ r.nft_contract = b /\ r.owner = u
        /\ IsBoxes(old) /\ IsBoxes(s) /\ SumFunction(s) \in Nat
        /\ missed \subseteq DOMAIN old \cap MayMiss(DOMAIN old \cup DOMAIN s)
        /\ Moved(b, u, Mart, s)
        /\ boothboxes' = Emplace(boothboxes, id, Refill(old, s, missed))
        /\ num \in 0 .. UintMax
        /\ booths' = [booths EXCEPT ![id] =
                         [r EXCEPT !.nft_box_num = num,
                                   !.nft_num = r.nft_num + SumFunction(s),
                                   !.nft_num_sum = r.nft_num_sum + SumFunction(s)]]
        /\ UNCHANGED <<gstate, money, now, touched, farmvars>>

LEMMA BatchRefuels ==
    ASSUME TypeOK, NEW u \in Owners, NEW b \in NftBanks, NEW s \in Batches, NEW id,
           on_transfer_ntoken(u, b, s, id)
    PROVE  \E missed : Refuels(u, b, s, id, missed)
<1> DEFINE r == booths[id]
           old == BoxesOf(id)
           new(missed) == Cardinality(DOMAIN s \ (DOMAIN old \ missed))
           num(missed) == (r.nft_box_num + new(missed)) % (UintMax + 1)
           k == SumFunction(s)
<1>1. /\ id \in DOMAIN booths /\ r.nft_contract = b /\ r.owner = u /\ NftMoves(b, u, Mart, s)
      /\ UNCHANGED <<gstate, money, now, touched, farmvars>>
  BY DEF on_transfer_ntoken
<1>2. PICK missed \in SUBSET (DOMAIN old \cap MayMiss(DOMAIN old \cup DOMAIN s)) :
        /\ boothboxes' = Emplace(boothboxes, id, Refill(old, s, missed))
        /\ booths' = [booths EXCEPT ![id].nft_box_num = num(missed), ![id].nft_num = @ + k,
                                    ![id].nft_num_sum = @ + k]
  BY DEF on_transfer_ntoken
<1>3. r \in BoothRow
  BY <1>1 DEF TypeOK, IsTable
<1>4. IsBoxes(s) /\ IsBoxes(old)
  <2>1. IsBoxes(s)
    BY MartInputs DEF IsBoxes, IsTable
  <2>2. IsBoxes(old)
    BY DEF BoxesOf, IsBoxes, IsTable, EmptyTable, TypeOK
  <2> QED BY <2>1, <2>2
<1>5. IsFiniteSet(DOMAIN s) /\ \A n \in DOMAIN s : s[n] \in Nat
  BY <1>4, SymbolIds
<1>6. k \in Nat
  <2>1. SumFunction(s) = Sum(s, DOMAIN s)
    BY SumFunctionIsSum
  <2>2. Sum(s, DOMAIN s) \in Nat
    BY <1>5, SumNat
  <2> QED BY <2>1, <2>2
<1>7. num(missed) \in 0 .. UintMax
  <2>1. DOMAIN s \ (DOMAIN old \ missed) \in SUBSET DOMAIN s
    OBVIOUS
  <2>2. IsFiniteSet(DOMAIN s \ (DOMAIN old \ missed))
    BY <1>5, <2>1, FS_Subset
  <2>3. new(missed) \in Nat
    BY <2>2, FS_CardinalityType
  <2> DEFINE n == new(missed)
  <2>4. n \in Nat
    BY <2>3
  <2> HIDE DEF n
  <2>5. r.nft_box_num + n \in Int /\ UintMax + 1 \in Nat \ {0}
    BY <1>3, <2>4, MartInputs DEF BoothRow
  <2> DEFINE a == r.nft_box_num + n
             m == UintMax + 1
  <2> HIDE DEF a, m
  <2>6. a % m \in 0 .. m - 1
    BY <2>5 DEF a, m
  <2> QED BY <2>6, MartInputs DEF a, m, n
<1>8. Moved(b, u, Mart, s)
  <2>1. u \in Accounts /\ Mart \in Accounts
    BY MartAccounts DEF Accounts
  <2>2. nft \in [Accounts -> [NftBanks -> [Symbols -> Nat]]]
    BY DEF TypeOK
  <2>3. DOMAIN s \subseteq Symbols
    BY <1>4 DEF IsBoxes, IsTable
  <2> QED BY <1>1, <2>1, <2>2, <2>3, NftsMoved
<1>9. booths' = [booths EXCEPT ![id] =
                    [r EXCEPT !.nft_box_num = num(missed), !.nft_num = r.nft_num + k,
                              !.nft_num_sum = r.nft_num_sum + k]]
  <2> DEFINE n == num(missed)
  <2>1. booths' = [booths EXCEPT ![id].nft_box_num = n, ![id].nft_num = @ + k,
                                 ![id].nft_num_sum = @ + k]
    BY <1>2
  <2> HIDE DEF n, k
  <2>2. booths' = [booths EXCEPT ![id] =
                      [r EXCEPT !.nft_box_num = n, !.nft_num = r.nft_num + k,
                                !.nft_num_sum = r.nft_num_sum + k]]
    BY <1>1, <1>3, <2>1 DEF BoothRow
  <2> QED BY <2>2 DEF n
<1> HIDE DEF k
<1>10. Refuels(u, b, s, id, missed)
  BY <1>1, <1>2, <1>3, <1>4, <1>6, <1>7, <1>8, <1>9 DEF Refuels, k
<1> QED BY <1>10

\* What a refuel makes of the row.
Refueled(s, id, missed) ==
    /\ DOMAIN booths' = DOMAIN booths /\ booths'[id] \in BoothRow
    /\ \A i \in DOMAIN booths : i # id => booths'[i] = booths[i]
    /\ booths'[id].price = booths[id].price /\ booths'[id].currency = booths[id].currency
    /\ booths'[id].nft_contract = booths[id].nft_contract
    /\ booths'[id].fund_recd = booths[id].fund_recd
    /\ booths'[id].nft_num = booths[id].nft_num + SumFunction(s)
    /\ booths'[id].nft_num_sum = booths[id].nft_num_sum + SumFunction(s)
    /\ booths'[id].nft_box_num =
          (booths[id].nft_box_num
              + Cardinality(DOMAIN s \ (DOMAIN BoxesOf(id) \ missed))) % (UintMax + 1)

\* The row after a refuel.
LEMMA RefueledRow ==
    ASSUME NEW u, NEW b, NEW s, NEW id, NEW missed, Refuels(u, b, s, id, missed)
    PROVE  Refueled(s, id, missed)
<1> DEFINE r == booths[id]
           k == SumFunction(s)
           x == (r.nft_box_num + Cardinality(DOMAIN s \ (DOMAIN BoxesOf(id) \ missed))) % (UintMax + 1)
           y == r.nft_num + k
           z == r.nft_num_sum + k
           q == [r EXCEPT !.nft_box_num = x, !.nft_num = y, !.nft_num_sum = z]
<1>1. id \in DOMAIN booths /\ r \in BoothRow /\ k \in Nat /\ x \in 0 .. UintMax
      /\ booths' = [booths EXCEPT ![id] = q]
  BY DEF Refuels
<1>2. y \in Nat /\ z \in Nat
  BY <1>1 DEF BoothRow
<1>3. /\ DOMAIN booths' = DOMAIN booths /\ booths'[id] = q
      /\ \A i \in DOMAIN booths : i # id => booths'[i] = booths[i]
  <2> HIDE DEF q
  <2> QED BY <1>1
<1> HIDE DEF x, y, z
<1>4. /\ q \in BoothRow /\ q.price = r.price /\ q.currency = r.currency
      /\ q.nft_contract = r.nft_contract /\ q.fund_recd = r.fund_recd
      /\ q.nft_num = y /\ q.nft_num_sum = z /\ q.nft_box_num = x
  BY <1>1, <1>2 DEF BoothRow
<1> HIDE DEF q
<1> QED BY <1>3, <1>4 DEF x, y, z, Refueled

LEMMA RefuelInv ==
    ASSUME MartInv, NEW u \in Owners, NEW b \in NftBanks, NEW s \in Batches, NEW id,
           on_transfer_ntoken(u, b, s, id)
    PROVE  MartInv'
<1>1. TypeOK /\ SalesSettle
  BY DEF MartInv
<1>2. PICK missed : Refuels(u, b, s, id, missed)
  BY <1>1, BatchRefuels
<1> DEFINE r == booths[id]
           q == booths'[id]
           k == SumFunction(s)
           new == Refill(BoxesOf(id), s, missed)
<1>3. /\ id \in DOMAIN booths /\ r \in BoothRow /\ k \in Nat /\ IsBoxes(BoxesOf(id)) /\ IsBoxes(s)
      /\ boothboxes' = Emplace(boothboxes, id, new)
      /\ nft' \in [Accounts -> [NftBanks -> [Symbols -> Nat]]]
      /\ UNCHANGED <<gstate, money, now, touched, farmvars>>
  BY <1>2 DEF Refuels, Moved
<1>4. /\ DOMAIN booths' = DOMAIN booths /\ q \in BoothRow
      /\ \A i \in DOMAIN booths : i # id => booths'[i] = booths[i]
      /\ q.price = r.price /\ q.currency = r.currency /\ q.fund_recd = r.fund_recd
      /\ q.nft_num = r.nft_num + k /\ q.nft_num_sum = r.nft_num_sum + k
  <2>1. Refueled(s, id, missed)
    BY <1>2, RefueledRow
  <2> QED BY <2>1 DEF Refueled
<1>5. /\ r.nft_num <= r.nft_num_sum /\ r.nft_num \in Nat /\ r.nft_num_sum \in Nat
      /\ r.price \in Nat /\ r.fund_recd \in Nat
  BY <1>1, <1>3, MartInputs DEF TypeOK, BoothRow
<1>6. Changed(id, 0, 0)
  <2>1. q.nft_num <= q.nft_num_sum /\ q.nft_num_sum - q.nft_num = r.nft_num_sum - r.nft_num + 0
        /\ q.fund_recd = r.fund_recd + 0 /\ 0 = r.price * 0
    <3> HIDE DEF q, k, r
    <3> QED BY <1>3, <1>4, <1>5
  <2> QED BY <1>3, <1>4, <2>1 DEF Changed
<1>7. IsBoxes(new)
  <2>1. DOMAIN new \subseteq Symbols
    BY <1>3 DEF Refill, IsBoxes, IsTable
  <2>2. ASSUME NEW n \in DOMAIN new PROVE new[n] \in Nat
    BY <1>3 DEF Refill, IsBoxes, IsTable
  <2> HIDE DEF new
  <2> QED BY <2>1, <2>2 DEF IsBoxes, IsTable
<1> HIDE DEF new, k
<1>8. /\ DOMAIN boothboxes' \subseteq DOMAIN booths'
      /\ \A i \in DOMAIN boothboxes' : IsTable(boothboxes'[i], Symbols, Nat)
  <2>1. /\ DOMAIN boothboxes' = DOMAIN boothboxes \cup {id} /\ boothboxes'[id] = new
        /\ \A i \in DOMAIN boothboxes : i # id => boothboxes'[i] = boothboxes[i]
    BY <1>3 DEF Emplace
  <2>2. DOMAIN boothboxes' \subseteq DOMAIN booths'
    BY <1>1, <1>3, <1>4, <2>1 DEF TypeOK
  <2>3. \A i \in DOMAIN boothboxes' : IsTable(boothboxes'[i], Symbols, Nat)
    <3>1. \A i \in DOMAIN boothboxes : IsTable(boothboxes[i], Symbols, Nat)
      BY <1>1 DEF TypeOK
    <3>2. IsTable(new, Symbols, Nat)
      BY <1>7 DEF IsBoxes
    <3> QED BY <2>1, <3>1, <3>2
  <2> QED BY <2>2, <2>3
<1>9. /\ IsTable(booths', 1 .. gstate'.last_booth_id, BoothRow)
      /\ \A i \in DOMAIN booths' : booths'[i].nft_num <= booths'[i].nft_num_sum
  BY <1>1, <1>3, <1>6, ChangedTypes
<1>10. TypeOK'
  BY <1>1, <1>3, <1>8, <1>9 DEF TypeOK, farmvars
<1>11. SalesSettle'
  BY <1>1, <1>3, <1>6, ChangedSettles
<1> QED BY <1>10, <1>11 DEF MartInv

LEMMA SaleInv ==
    ASSUME MartInv, NEW u \in Users, NEW c \in Currencies, NEW p \in Payments, NEW id,
           _transfer_token(u, c, p, id)
    PROVE  MartInv'
<1>1. TypeOK /\ SalesSettle /\ FundsAreSales /\ MoneySettles
  BY SalesSettleParts DEF MartInv
<1>2. PICK k \in Nat, paid \in Nat : \E draw : Sells(u, id, k, paid, draw)
  BY <1>1, TransferSells
<1>3. PICK draw : Sells(u, id, k, paid, draw)
  BY <1>2
<1> DEFINE r == booths[id]
           q == booths'[id]
<1>4. /\ id \in DOMAIN booths /\ id \in DOMAIN boothboxes /\ r \in BoothRow
      /\ k \in 1 .. r.nft_num /\ paid = r.price * k
      /\ IsBoxes(draw.boxes) /\ boothboxes' = [boothboxes EXCEPT ![id] = draw.boxes]
      /\ money' \in [Accounts -> [Currencies -> Nat]]
      /\ \A a \in Accounts, e \in Currencies :
            money'[a][e] = money[a][e] + (IF e = r.currency THEN Gain(a, u, Distributor, paid) ELSE 0)
      /\ nft' \in [Accounts -> [NftBanks -> [Symbols -> Nat]]] /\ apples' \in [Accounts -> Nat]
      /\ UNCHANGED <<gstate, now, touched, reward_conf>>
  BY <1>3 DEF Sells, Drawn
<1>5. /\ DOMAIN booths' = DOMAIN booths /\ q \in BoothRow
      /\ \A i \in DOMAIN booths : i # id => booths'[i] = booths[i]
      /\ q.price = r.price /\ q.currency = r.currency /\ q.fund_recd = r.fund_recd + paid
      /\ q.nft_num = r.nft_num - k /\ q.nft_num_sum = r.nft_num_sum
  <2>1. Sold(id, k, paid, draw)
    BY <1>3, SoldRow
  <2> QED BY <2>1 DEF Sold
<1>6. r.nft_num <= r.nft_num_sum /\ r.nft_num \in Nat /\ r.nft_num_sum \in Nat
  BY <1>1, <1>4 DEF TypeOK, BoothRow
<1>7. Changed(id, k, paid)
  <2>1. q.nft_num <= q.nft_num_sum /\ q.nft_num_sum - q.nft_num = r.nft_num_sum - r.nft_num + k
    <3> HIDE DEF q, r
    <3> QED BY <1>4, <1>5, <1>6
  <2> QED BY <1>4, <1>5, <2>1 DEF Changed
<1>8. /\ IsTable(booths', 1 .. gstate'.last_booth_id, BoothRow)
      /\ \A i \in DOMAIN booths' : booths'[i].nft_num <= booths'[i].nft_num_sum
  BY <1>1, <1>4, <1>7, ChangedTypes
<1>9. /\ DOMAIN boothboxes' \subseteq DOMAIN booths'
      /\ \A i \in DOMAIN boothboxes' : IsTable(boothboxes'[i], Symbols, Nat)
  BY <1>1, <1>4, <1>5 DEF TypeOK, IsBoxes
<1>10. TypeOK'
  BY <1>1, <1>4, <1>8, <1>9 DEF TypeOK
<1>11. /\ FundsAreSales'
       /\ \A e : /\ Raised(booths, e) \in Int
                 /\ Raised(booths', e) = Raised(booths, e) + (IF e = r.currency THEN paid ELSE 0)
  BY <1>1, <1>7, ChangedFunds
<1>12. MoneySettles'
  <2> SUFFICES ASSUME NEW e \in Currencies
               PROVE  /\ money'[Mart][e] = FirstMoney[Mart][e]
                      /\ money'[Distributor][e] - FirstMoney[Distributor][e] >= Raised(booths', e)
    BY DEF MoneySettles
  <2>1. /\ Mart \in Accounts /\ Distributor \in Accounts /\ Mart # Distributor
        /\ Mart # u /\ Distributor # u
    BY MartAccounts DEF Accounts
  <2>2. Gain(Mart, u, Distributor, paid) = 0 /\ Gain(Distributor, u, Distributor, paid) = paid
    BY <2>1 DEF Gain
  <2>3. /\ money[Mart][e] \in Nat /\ money[Distributor][e] \in Nat
        /\ FirstMoney[Distributor][e] \in Nat
    BY <1>1, <2>1, MartInputs DEF TypeOK
  <2>4. /\ money[Mart][e] = FirstMoney[Mart][e]
        /\ money[Distributor][e] - FirstMoney[Distributor][e] >= Raised(booths, e)
    BY <1>1 DEF MoneySettles
  <2>5. CASE e = r.currency
    <3>1. money'[Mart][e] = money[Mart][e] + 0 /\ money'[Distributor][e] = money[Distributor][e] + paid
      BY <1>4, <2>1, <2>2, <2>5
    <3> QED BY <1>11, <2>3, <2>4, <2>5, <3>1
  <2>6. CASE e # r.currency
    <3>1. money'[Mart][e] = money[Mart][e] + 0 /\ money'[Distributor][e] = money[Distributor][e] + 0
      BY <1>4, <2>1, <2>6
    <3> QED BY <1>11, <2>3, <2>4, <2>6, <3>1
  <2> QED BY <2>5, <2>6
<1> QED BY <1>10, <1>11, <1>12, SalesSettleParts, PTL DEF MartInv
------------------------------------------------------------------------------
(* Every step *)

\* A box edited by hand.
LEMMA EditInv ==
    ASSUME MartInv, NEW id \in BoothIds, NEW new, id \in DOMAIN boothboxes, IsBoxes(new),
           boothboxes' = [boothboxes EXCEPT ![id] = new], touched' = touched \cup {id},
           UNCHANGED <<gstate, booths, money, nft, now, farmvars>>
    PROVE  MartInv'
<1>1. TypeOK /\ SalesSettle
  BY DEF MartInv
<1>2. /\ DOMAIN boothboxes' = DOMAIN boothboxes
      /\ \A i \in DOMAIN boothboxes' : IsTable(boothboxes'[i], Symbols, Nat)
  BY <1>1 DEF TypeOK, IsBoxes
<1>3. TypeOK'
  BY <1>1, <1>2 DEF TypeOK, farmvars
<1>4. SalesSettle'
  BY <1>1 DEF SalesSettle
<1> QED BY <1>3, <1>4 DEF MartInv

LEMMA DelInv ==
    ASSUME MartInv, NEW id \in BoothIds, NEW n \in Symbols, delboothbox(id, n)
    PROVE  MartInv'
<1>1. /\ id \in DOMAIN boothboxes /\ touched' = touched \cup {id}
      /\ UNCHANGED <<gstate, booths, money, nft, now, farmvars>>
  BY DEF delboothbox
<1>2. PICK gone : boothboxes' = [boothboxes EXCEPT ![id] = Erase(boothboxes[id], gone)]
  BY DEF delboothbox
<1> DEFINE new == Erase(boothboxes[id], gone)
<1>3. IsBoxes(new)
  BY <1>1, EraseTable DEF MartInv, TypeOK, IsBoxes
<1> HIDE DEF new
<1>4. boothboxes' = [boothboxes EXCEPT ![id] = new]
  BY <1>2 DEF new
<1> QED BY <1>1, <1>3, <1>4, EditInv

LEMMA FixInv ==
    ASSUME MartInv, NEW id \in BoothIds, NEW n \in Symbols, NEW k \in FixAmounts,
           fixboothbox(id, n, k)
    PROVE  MartInv'
<1> DEFINE new == Emplace(boothboxes[id], n, k)
<1>1. /\ id \in DOMAIN boothboxes /\ touched' = touched \cup {id}
      /\ boothboxes' = [boothboxes EXCEPT ![id] = new]
      /\ UNCHANGED <<gstate, booths, money, nft, now, farmvars>>
  BY DEF fixboothbox
<1>2. IsBoxes(new)
  <2>1. IsTable(boothboxes[id], Symbols, Nat) /\ k \in Nat
    BY <1>1, MartInputs DEF MartInv, TypeOK
  <2> QED BY <2>1 DEF IsBoxes, IsTable, Emplace
<1> HIDE DEF new
<1> QED BY <1>1, <1>2, EditInv

LEMMA SettingsInv ==
    ASSUME MartInv,
           \/ \E m \in MaxBoxes : setmaxbox(m)
           \/ \E coin \in Coins, k \in Rewards : setapl(coin, k)
           \/ Tick
           \/ UNCHANGED vars
    PROVE  MartInv'
<1>1. TypeOK /\ SalesSettle
  BY DEF MartInv
<1>2. SalesSettle'
  BY <1>1 DEF SalesSettle, setmaxbox, setapl, Tick, vars
<1>3. CASE \E m \in MaxBoxes : setmaxbox(m)
  <2>1. PICK m \in MaxBoxes : setmaxbox(m)
    BY <1>3
  <2>2. m % (Uint16Max + 1) \in Nat
    BY MartInputs
  <2>3. TypeOK'
    BY <1>1, <2>1, <2>2 DEF TypeOK, setmaxbox, farmvars
  <2> QED BY <1>2, <2>3 DEF MartInv
<1>4. CASE \E coin \in Coins, k \in Rewards : setapl(coin, k)
  <2>1. PICK coin \in Coins, k \in Rewards : setapl(coin, k)
    BY <1>4
  <2>2. k \in Nat
    BY MartInputs
  <2>3. IsTable(reward_conf', Coins \cup {"MUSDT"}, Nat)
    BY <1>1, <2>1, <2>2 DEF TypeOK, setapl, IsTable, Emplace
  <2>4. TypeOK'
    BY <1>1, <2>1, <2>3 DEF TypeOK, setapl
  <2> QED BY <1>2, <2>4 DEF MartInv
<1>5. CASE Tick
  <2>1. TypeOK'
    BY <1>1, <1>5 DEF TypeOK, Tick, farmvars
  <2> QED BY <1>2, <2>1 DEF MartInv
<1>6. CASE UNCHANGED vars
  <2>1. TypeOK'
    BY <1>1, <1>6 DEF TypeOK, vars, farmvars
  <2> QED BY <1>2, <2>1 DEF MartInv
<1> QED BY <1>3, <1>4, <1>5, <1>6

LEMMA StepInv == MartInv /\ [Next]_vars => MartInv'
<1> SUFFICES ASSUME MartInv, [Next]_vars PROVE MartInv'
  OBVIOUS
<1>1. CASE Manage
  BY <1>1, CreateInv, EnableInv, TimeInv, CloseInv DEF Manage
<1>2. CASE Trade
  BY <1>2, RefuelInv, SaleInv DEF Trade
<1>3. CASE Maintain
  BY <1>3, SettingsInv, DelInv, FixInv DEF Maintain
<1>4. CASE Tick
  BY <1>4, SettingsInv
<1>5. CASE UNCHANGED vars
  BY <1>5, SettingsInv
<1> QED BY <1>1, <1>2, <1>3, <1>4, <1>5 DEF Next

\* The types hold, and what came in for the NFTs of every booth is with the distributor.
THEOREM MartInvariant == Spec => []MartInv
BY InitInv, StepInv, PTL DEF Spec

\* No counter or balance of the random sale falls below zero, and boxes belong to booths,
\* whatever is sold, refuelled, closed or edited.
THEOREM MartTypeCorrect == Spec => []TypeOK
<1>1. MartInv => TypeOK
  BY DEF MartInv
<1> QED BY <1>1, MartInvariant, PTL

\* fund_recd of every booth is the price of the NFTs it has sold, and the distributor
\* has at least what all booths of a coin received; the mart keeps nothing.
THEOREM SalesAlwaysSettle == Spec => []SalesSettle
<1>1. MartInv => SalesSettle
  BY DEF MartInv
<1> QED BY <1>1, MartInvariant, PTL
------------------------------------------------------------------------------
(* An NFT for each price *)

\* The NFTs of u are those of each contract, added up.
LEMMA OwnedIsSum ==
    ASSUME NEW h, h \in [NftBanks -> [Symbols -> Nat]],
           NEW v, v = SumFunction([b \in NftBanks |-> SumFunction(h[b])]),
           NEW w, w = [b \in NftBanks |-> Sum(h[b], Symbols)]
    PROVE  v = Sum(w, NftBanks) /\ \A b \in NftBanks : w[b] = Sum(h[b], Symbols) /\ w[b] \in Nat
<1> DEFINE g == [b \in NftBanks |-> SumFunction(h[b])]
<1>1. \A b \in NftBanks : g[b] = Sum(h[b], DOMAIN h[b])
  BY SumFunctionIsSum
<1>2. \A b \in NftBanks : DOMAIN h[b] = Symbols /\ \A n \in Symbols : h[b][n] \in Nat
  OBVIOUS
<1>3. \A b \in NftBanks : w[b] = Sum(h[b], Symbols) /\ g[b] = w[b]
  BY <1>1, <1>2
<1>4. \A b \in NftBanks : Sum(h[b], Symbols) \in Nat
  BY <1>2, MartInputs, SumNat
<1>5. v = SumFunction(g) /\ DOMAIN g = NftBanks
  OBVIOUS
<1> HIDE DEF g
<1>6. v = Sum(g, NftBanks)
  BY <1>5, SumFunctionIsSum
<1>7. Sum(g, NftBanks) = Sum(w, NftBanks)
  BY <1>3, MartInputs, SumSame
<1> QED BY <1>3, <1>4, <1>6, <1>7

\* v and v2 are what someone owns who has h, and h2 with what he got of one contract.
Grown(h, h2, bank, got, v, v2) ==
    /\ h \in [NftBanks -> [Symbols -> Nat]] /\ h2 \in [NftBanks -> [Symbols -> Nat]]
    /\ bank \in NftBanks /\ got \in [Symbols -> Nat]
    /\ \A b \in NftBanks, n \in Symbols :
          h2[b][n] = h[b][n] + (IF b = bank THEN got[n] ELSE 0)
    /\ v = SumFunction([b \in NftBanks |-> SumFunction(h[b])])
    /\ v2 = SumFunction([b \in NftBanks |-> SumFunction(h2[b])])

\* Whoever gets k NFTs of one contract owns k more.
LEMMA OwnedGrows ==
    ASSUME NEW h, NEW h2, NEW bank, NEW got, NEW v, NEW v2, Grown(h, h2, bank, got, v, v2)
    PROVE  v \in Nat /\ v2 = v + Sum(got, Symbols)
<1> DEFINE w == [b \in NftBanks |-> Sum(h[b], Symbols)]
           w2 == [b \in NftBanks |-> Sum(h2[b], Symbols)]
<1>0. w = [b \in NftBanks |-> Sum(h[b], Symbols)] /\ w2 = [b \in NftBanks |-> Sum(h2[b], Symbols)]
  OBVIOUS
<1> HIDE DEF w, w2
<1>1. v = Sum(w, NftBanks) /\ \A b \in NftBanks : w[b] = Sum(h[b], Symbols) /\ w[b] \in Nat
  BY <1>0, OwnedIsSum DEF Grown
<1>2. v2 = Sum(w2, NftBanks) /\ \A b \in NftBanks : w2[b] = Sum(h2[b], Symbols) /\ w2[b] \in Nat
  BY <1>0, OwnedIsSum DEF Grown
<1>3. w2[bank] = w[bank] + Sum(got, Symbols)
  <2>1. \A n \in Symbols : h[bank][n] \in Int /\ got[n] \in Int /\ h2[bank][n] = h[bank][n] + got[n]
    BY DEF Grown
  <2>2. Sum(h2[bank], Symbols) = Sum(h[bank], Symbols) + Sum(got, Symbols)
    <3> DEFINE x == h[bank]
               y == h2[bank]
    <3>1. \A n \in Symbols : x[n] \in Int /\ got[n] \in Int /\ y[n] = x[n] + got[n]
      BY <2>1
    <3>2. IsFiniteSet(Symbols)
      BY MartInputs
    <3> HIDE DEF x, y
    <3>3. Sum(y, Symbols) = Sum(x, Symbols) + Sum(got, Symbols)
      BY <3>1, <3>2, SumPlus
    <3> QED BY <3>3 DEF x, y
  <2> QED BY <1>1, <1>2, <2>2 DEF Grown
<1>4. \A b \in NftBanks \ {bank} : w2[b] = w[b]
  <2> TAKE b \in NftBanks \ {bank}
  <2>1. \A n \in Symbols : h2[b][n] = h[b][n]
    BY DEF Grown
  <2>2. Sum(h2[b], Symbols) = Sum(h[b], Symbols)
    BY <2>1, MartInputs, SumSame
  <2> QED BY <1>1, <1>2, <2>2
<1>5. \A b \in NftBanks : w[b] \in Int /\ w2[b] \in Int
  BY <1>1, <1>2
<1>6. Sum(w2, NftBanks) = Sum(w, NftBanks) - w[bank] + w2[bank]
  <2>1. IsFiniteSet(NftBanks) /\ bank \in NftBanks /\ w2[bank] \in Int
    BY <1>5, MartInputs DEF Grown
  <2> QED BY <1>4, <1>5, <2>1, SumUpdate
<1>7. Sum(w, NftBanks) \in Nat /\ Sum(got, Symbols) \in Nat
  <2>1. bank \in NftBanks /\ \A n \in Symbols : got[n] \in Nat
    BY DEF Grown
  <2>2. IsFiniteSet(Symbols) /\ IsFiniteSet(NftBanks)
    BY MartInputs
  <2>3. Sum(got, Symbols) \in Nat
    BY <2>1, <2>2, SumNat
  <2> QED BY <1>1, <2>2, <2>3, SumNat
<1>8. w[bank] \in Nat
  BY <1>1 DEF Grown
<1> QED BY <1>8, <1>1, <1>2, <1>3, <1>5, <1>6, <1>7

\* What PricePerNft says of a step and a user.
Priced(u) ==
    /\ \A c \in Currencies :
          money'[u][c] < money[u][c] =>
              \E id \in DOMAIN booths :
                  money[u][c] - money'[u][c] = booths[id].price * (Owned(u)' - Owned(u))
    /\ apples'[u] # apples[u] =>
          \E c \in Currencies :
              /\ money'[u][c] < money[u][c]
              /\ apples'[u] - apples[u] = Reward(c, money[u][c] - money'[u][c])

LEMMA SalePriced ==
    ASSUME TypeOK, NEW u \in Users, NEW buyer \in Users, NEW c \in Currencies, NEW p \in Payments,
           NEW id, _transfer_token(buyer, c, p, id)
    PROVE  Priced(u)
<1>1. PICK k \in Nat, paid \in Nat : \E draw : Sells(buyer, id, k, paid, draw)
  BY TransferSells
<1>2. PICK draw : Sells(buyer, id, k, paid, draw)
  BY <1>1
<1> DEFINE r == booths[id]
           e == r.currency
           bank == r.nft_contract
<1>3. /\ id \in DOMAIN booths /\ r \in BoothRow /\ k \in 1 .. r.nft_num /\ paid = r.price * k
      /\ draw.bought \in [Symbols -> Nat] /\ Sum(draw.bought, Symbols) = k
      /\ \A a \in Accounts, f \in Currencies :
            money'[a][f] = money[a][f] + (IF f = e THEN Gain(a, buyer, Distributor, paid) ELSE 0)
      /\ nft' \in [Accounts -> [NftBanks -> [Symbols -> Nat]]]
      /\ \A a \in Accounts, b \in NftBanks, n \in Symbols :
            nft'[a][b][n] = nft[a][b][n]
                + (IF b = bank THEN Gain(a, Mart, buyer, draw.bought[n]) ELSE 0)
      /\ \A a \in Users : \/ apples'[a] = apples[a]
                          \/ a = buyer /\ apples'[a] = apples[a] + Reward(e, paid)
  BY <1>2 DEF Sells, Drawn
<1>4. e \in Currencies /\ bank \in NftBanks /\ r.price \in Nat /\ r.price > 0 /\ k > 0
  <2>1. r \in BoothRow /\ k \in 1 .. r.nft_num
    BY <1>3
  <2>2. r.currency \in Currencies /\ r.nft_contract \in NftBanks /\ r.price \in Prices
    BY <2>1 DEF BoothRow
  <2>3. r.price \in Nat \ {0}
    BY <2>2, MartInputs
  <2>4. k > 0
    BY <2>1
  <2> QED BY <2>2, <2>3, <2>4
<1> HIDE DEF e, bank
<1>5. /\ u \in Accounts /\ buyer \in Accounts /\ buyer # Mart /\ buyer # Distributor
      /\ u # Mart /\ u # Distributor
  BY MartAccounts DEF Accounts
<1>6. \A f \in Currencies : money[u][f] \in Nat
  BY <1>5 DEF TypeOK
<1>7. CASE u # buyer
  <2>1. Gain(u, buyer, Distributor, paid) = 0
    BY <1>5, <1>7 DEF Gain
  <2>2. \A f \in Currencies : money'[u][f] = money[u][f]
    <3> TAKE f \in Currencies
    <3>1. money'[u][f] = money[u][f] + (IF f = e THEN Gain(u, buyer, Distributor, paid) ELSE 0)
      BY <1>3, <1>5
    <3> QED BY <1>6, <2>1, <3>1
  <2>3. apples'[u] = apples[u]
    BY <1>3, <1>7
  <2> QED BY <1>6, <2>2, <2>3 DEF Priced
<1>8. CASE u = buyer
  <2>1. Gain(u, buyer, Distributor, paid) = 0 - paid
    BY <1>5, <1>8 DEF Gain
  <2>2. paid \in Nat /\ paid > 0
    <3> DEFINE x == r.price
    <3>1. x \in Nat /\ x > 0 /\ k > 0 /\ k \in Nat /\ paid = x * k
      BY <1>3, <1>4
    <3> HIDE DEF x
    <3>2. x * k > 0
      BY <3>1
    <3> QED BY <3>1, <3>2
  <2>3. /\ money'[u][e] = money[u][e] - paid
        /\ \A f \in Currencies : f # e => money'[u][f] = money[u][f]
    <3>1. \A f \in Currencies :
             money'[u][f] = money[u][f] + (IF f = e THEN Gain(u, buyer, Distributor, paid) ELSE 0)
      BY <1>3, <1>5
    <3> QED BY <1>4, <1>6, <2>1, <2>2, <3>1
  <2>4. Owned(u) \in Nat /\ Owned(u)' = Owned(u) + k
    <3> DEFINE h == nft[u]
               h2 == nft'[u]
               v == Owned(u)
               v2 == Owned(u)'
    <3>1. h \in [NftBanks -> [Symbols -> Nat]] /\ h2 \in [NftBanks -> [Symbols -> Nat]]
      BY <1>3, <1>5 DEF TypeOK
    <3>2. \A b \in NftBanks, n \in Symbols :
             h2[b][n] = h[b][n] + (IF b = bank THEN draw.bought[n] ELSE 0)
      <4> TAKE b \in NftBanks, n \in Symbols
      <4>1. Gain(u, Mart, buyer, draw.bought[n]) = draw.bought[n]
        BY <1>3, <1>5, <1>8 DEF Gain
      <4> QED BY <1>3, <1>5, <4>1
    <3>3. /\ v = SumFunction([b \in NftBanks |-> SumFunction(h[b])])
          /\ v2 = SumFunction([b \in NftBanks |-> SumFunction(h2[b])])
      BY DEF Owned
    <3> HIDE DEF h, h2, v, v2, bank
    <3> DEFINE got == draw.bought
    <3>5. got \in [Symbols -> Nat] /\ got = draw.bought
      BY <1>3
    <3>6. \A b \in NftBanks, n \in Symbols : h2[b][n] = h[b][n] + (IF b = bank THEN got[n] ELSE 0)
      BY <3>2
    <3> HIDE DEF got
    <3>8. Grown(h, h2, bank, got, v, v2)
      BY <1>4, <3>1, <3>3, <3>5, <3>6 DEF Grown
    <3>7. v \in Nat /\ v2 = v + Sum(got, Symbols)
      BY <3>8, OwnedGrows
    <3>4. v \in Nat /\ v2 = v + Sum(draw.bought, Symbols)
      BY <3>5, <3>7
    <3> QED BY <1>3, <3>4 DEF v, v2
  <2>5. \A f \in Currencies :
           money'[u][f] < money[u][f] =>
               money[u][f] - money'[u][f] = r.price * (Owned(u)' - Owned(u))
    <3> TAKE f \in Currencies
    <3> HAVE money'[u][f] < money[u][f]
    <3>1. f = e
      BY <1>6, <2>3
    <3>2. money[u][f] - money'[u][f] = paid
      BY <1>4, <1>6, <2>2, <2>3, <3>1
    <3>3. Owned(u)' - Owned(u) = k
      BY <1>4, <2>4
    <3> QED BY <1>3, <3>2, <3>3
  <2>6. apples'[u] # apples[u] =>
           /\ money'[u][e] < money[u][e]
           /\ apples'[u] - apples[u] = Reward(e, money[u][e] - money'[u][e])
    <3> HAVE apples'[u] # apples[u]
    <3>1. apples'[u] = apples[u] + Reward(e, paid)
      BY <1>3
    <3>2. money'[u][e] < money[u][e] /\ money[u][e] - money'[u][e] = paid
      BY <1>4, <1>6, <2>2, <2>3
    <3>3. apples[u] \in Nat /\ apples'[u] \in Nat
      BY <1>2, <1>5 DEF TypeOK, Sells
    <3>4. Reward(e, paid) \in Int
      <4>1. c = e /\ c \in Currencies /\ _reward_farmer(c, Paid(r, p), buyer)
        BY DEF _transfer_token, e
      <4>2. e.symbol \in DOMAIN reward_conf
        BY <1>4, <3>1, <4>1, <1>8 DEF _reward_farmer
      <4>3. reward_conf[e.symbol] \in Nat
        BY <4>2 DEF TypeOK, IsTable
      <4> QED BY <1>4, <2>2, <4>2, <4>3, RewardIsNat
    <3> QED BY <3>1, <3>2, <3>3, <3>4
  <2> QED BY <1>3, <1>4, <2>5, <2>6 DEF Priced
<1> QED BY <1>7, <1>8
\* Only a sale moves money or apples of users.
LEMMA StepPriced ==
    ASSUME TypeOK, [Next]_vars, NEW u \in Users
    PROVE  Priced(u)
<1>1. ASSUME UNCHANGED <<money, apples>> PROVE Priced(u)
  <2>1. u \in Accounts
    BY DEF Accounts
  <2>2. \A c \in Currencies : money[u][c] \in Nat /\ money'[u][c] = money[u][c]
    BY <1>1, <2>1 DEF TypeOK
  <2> QED BY <1>1, <2>2 DEF Priced
<1>2. CASE Manage
  BY <1>1, <1>2 DEF Manage, createbooth, enablebooth, setboothtime, closebooth, farmvars
<1>3. CASE Trade
  <2>1. CASE \E o \in Owners, b \in NftBanks, s \in Batches, id \in BoothIds :
                on_transfer_ntoken(o, b, s, id)
    BY <1>1, <2>1 DEF on_transfer_ntoken, farmvars
  <2>2. CASE \E buyer \in Users, c \in Currencies, q \in Payments, id \in BoothIds :
                _transfer_token(buyer, c, q, id)
    BY <2>2, SalePriced
  <2> QED BY <1>3, <2>1, <2>2 DEF Trade
<1>4. CASE Maintain
  BY <1>1, <1>4 DEF Maintain, setmaxbox, setapl, delboothbox, fixboothbox, farmvars
<1>5. CASE Tick
  BY <1>1, <1>5 DEF Tick, farmvars
<1>6. CASE UNCHANGED vars
  BY <1>1, <1>6 DEF vars, farmvars
<1> QED BY <1>2, <1>3, <1>4, <1>5, <1>6 DEF Next

\* A buyer parts with the price of as many NFTs as come to him, from boxes edited by hand
\* too, and the farm rewards no more than that: no draw can miss and be paid for.
THEOREM AnNftForEachPrice == Spec => PricePerNft
<1>1. ASSUME MartInv, [Next]_vars, NEW u \in Users
      PROVE  /\ \A c \in Currencies :
                   money'[u][c] < money[u][c] =>
                       \E id \in DOMAIN booths :
                           money[u][c] - money'[u][c] = booths[id].price * (Owned(u)' - Owned(u))
             /\ apples'[u] # apples[u] =>
                   \E c \in Currencies :
                       /\ money'[u][c] < money[u][c]
                       /\ apples'[u] - apples[u] = Reward(c, money[u][c] - money'[u][c])
  <2>1. Priced(u)
    BY <1>1, StepPriced DEF MartInv
  <2> QED BY <2>1 DEF Priced
<1>2. MartInv /\ [Next]_vars =>
        [\A u \in Users :
           /\ \A c \in Currencies :
                 money'[u][c] < money[u][c] =>
                     \E id \in DOMAIN booths :
                         money[u][c] - money'[u][c] = booths[id].price * (Owned(u)' - Owned(u))
           /\ apples'[u] # apples[u] =>
                 \E c \in Currencies :
                     /\ money'[u][c] < money[u][c]
                     /\ apples'[u] - apples[u] = Reward(c, money[u][c] - money'[u][c])]_vars
  BY <1>1
<1> QED BY <1>2, MartInvariant, PTL DEF Spec, PricePerNft
------------------------------------------------------------------------------
(* The draw is fair *)

\* Of the indices of full boxes, as many fall in a box as it has NFTs.
LEMMA FullIsFair ==
    ASSUME NEW boxes, IsBoxes(boxes), NEW num \in Nat, Full(boxes, num), NEW n \in DOMAIN boxes
    PROVE  Cardinality({r \in 1 .. num : Pick(boxes, r) = {n}}) = boxes[n]
<1> DEFINE low == Sum(boxes, Below(boxes, n))
           high == UpTo(boxes, n)
           I == low + 1 .. high
           J == {r \in 1 .. num : Pick(boxes, r) = {n}}
<1>1. /\ high = boxes[n] + low /\ low \in Nat /\ boxes[n] \in Nat /\ boxes[n] > 0
      /\ high <= num /\ high \in Nat
  BY UpToSplits DEF Full
<1>2. ASSUME NEW r \in I PROVE r \in J
  <2>1. r \in 1 .. num /\ r \in Nat
    BY <1>1
  <2>2. r \in high - boxes[n] + 1 .. high
    <3> HIDE DEF low, high
    <3> QED BY <1>1
  <2>3. n \in Pick(boxes, r)
    BY <2>2 DEF Pick
  <2>4. \A m \in Pick(boxes, r) : m = n
    BY <2>1, <2>3, OnePicked
  <2>5. Pick(boxes, r) = {n}
    BY <2>3, <2>4
  <2> QED BY <2>1, <2>5
<1>3. ASSUME NEW r \in J PROVE r \in I
  <2>1. r \in Nat /\ n \in Pick(boxes, r)
    OBVIOUS
  <2>2. r > low /\ r <= high
    BY <2>1, PickedBox
  <2> HIDE DEF low, high
  <2> QED BY <1>1, <2>1, <2>2
<1>4. I = J
  <2> HIDE DEF I, J
  <2> QED BY <1>2, <1>3
<1>5. Cardinality(I) = high - (low + 1) + 1
  <2> HIDE DEF low, high
  <2>1. low + 1 \in Int /\ high \in Int /\ ~ (low + 1 > high)
    BY <1>1
  <2> QED BY <2>1, FS_Interval
<1>6. Cardinality(I) = boxes[n]
  <2> HIDE DEF low, high, I
  <2> QED BY <1>1, <1>5
<1> QED BY <1>4, <1>6
------------------------------------------------------------------------------
(* Counters, boxes and custody, where the symbols are in order *)

\* No two symbols are each less than the other, the counter of boxes is wide enough for
\* all of them, and the mart starts with none.
OrderedSymbols ==
    /\ \A m, n \in Symbols : ~ (Less(m, n) /\ Less(n, m))
    /\ Cardinality(Symbols) <= UintMax
    /\ \A b \in NftBanks, n \in Symbols : FirstNfts[Mart][b][n] = 0

\* The NFTs n of contract b that are in boxes.
Boxed(b, n) ==
    Tagged([i \in DOMAIN booths |-> booths[i].nft_contract],
           [i \in DOMAIN booths |-> BoxOf(i, n)], b)

Custody == touched = {} => \A b \in NftBanks, n \in Symbols : nft[Mart][b][n] = Boxed(b, n)

BoxInv == CountersMatchBoxes /\ Custody

LEMMA CustodyIs == Custody <=> MartHoldsUnsold
<1>1. ASSUME NEW b \in NftBanks, NEW n \in Symbols
      PROVE  Boxed(b, n)
                 = SumFunction([id \in {i \in DOMAIN booths : booths[i].nft_contract = b} |->
                                   BoxOf(id, n)])
  <2> DEFINE tag == [i \in DOMAIN booths |-> booths[i].nft_contract]
             val == [i \in DOMAIN booths |-> BoxOf(i, n)]
  <2>1. {j \in DOMAIN tag : tag[j] = b} = {i \in DOMAIN booths : booths[i].nft_contract = b}
    OBVIOUS
  <2>2. [i \in {j \in DOMAIN tag : tag[j] = b} |-> val[i]]
            = [i \in {j \in DOMAIN booths : booths[j].nft_contract = b} |-> BoxOf(i, n)]
    BY <2>1
  <2> QED BY <2>2 DEF Boxed, Tagged
<1> QED BY <1>1 DEF Custody, MartHoldsUnsold

LEMMA NoneMissed ==
    ASSUME OrderedSymbols, NEW S, S \subseteq Symbols
    PROVE  MayMiss(S) = {}
BY DEF MayMiss, Clash, OrderedSymbols

\* The boxes of a booth are countable with room to spare.
LEMMA BoxCount ==
    ASSUME OrderedSymbols, NEW boxes, IsBoxes(boxes)
    PROVE  /\ Cardinality(DOMAIN boxes) \in Nat /\ Cardinality(DOMAIN boxes) <= UintMax
           /\ IsFiniteSet(DOMAIN boxes)
<1>1. IsFiniteSet(Symbols) /\ DOMAIN boxes \in SUBSET Symbols
  BY MartInputs DEF IsBoxes, IsTable
<1>2. /\ IsFiniteSet(DOMAIN boxes) /\ Cardinality(DOMAIN boxes) <= Cardinality(Symbols)
  BY <1>1, FS_Subset
<1>3. Cardinality(DOMAIN boxes) \in Nat /\ Cardinality(Symbols) \in Nat /\ UintMax \in Nat
  BY <1>1, <1>2, FS_CardinalityType, MartInputs
<1> QED BY <1>2, <1>3 DEF OrderedSymbols
\* The counters of a row are those of its boxes.
Counted(row, boxes) ==
    /\ row.nft_num = SumFunction(boxes) /\ row.nft_box_num = Cardinality(DOMAIN boxes)
    /\ \A n \in DOMAIN boxes : boxes[n] > 0

AllCounted == \A id \in Intact : Counted(booths[id], BoxesOf(id))

LEMMA CountersAre == CountersMatchBoxes <=> AllCounted
BY DEF CountersMatchBoxes, AllCounted, Counted, Held

\* The sum of a column f of booths t under the contract b.
BoxedIn(t, f, b) ==
    Tagged([i \in DOMAIN t |-> t[i].nft_contract], [i \in DOMAIN t |-> f[i]], b)

\* Booth x is created, or changed under its own contract, and gets d.
BoxMoves(t, u, f, g, x, d) ==
    /\ IsFiniteSet(DOMAIN t) /\ DOMAIN u = DOMAIN t \cup {x} /\ d \in Int
    /\ \A i \in DOMAIN t : f[i] \in Int
    /\ \A i \in DOMAIN t : i = x \/ (u[i].nft_contract = t[i].nft_contract /\ g[i] = f[i])
    /\ x \notin DOMAIN t \/ u[x].nft_contract = t[x].nft_contract
    /\ g[x] = (IF x \in DOMAIN t THEN f[x] ELSE 0) + d

LEMMA BoxedChanges ==
    ASSUME NEW t, NEW u, NEW f, NEW g, NEW x, NEW d, BoxMoves(t, u, f, g, x, d)
    PROVE  \A b : /\ BoxedIn(t, f, b) \in Int
                  /\ BoxedIn(u, g, b) = BoxedIn(t, f, b) + (IF b = u[x].nft_contract THEN d ELSE 0)
<1> USE DEF BoxMoves
<1> DEFINE tag == [i \in DOMAIN t |-> t[i].nft_contract]
           val == [i \in DOMAIN t |-> f[i]]
           tag2 == [i \in DOMAIN u |-> u[i].nft_contract]
           val2 == [i \in DOMAIN u |-> g[i]]
<1>1. /\ DOMAIN tag = DOMAIN t /\ DOMAIN tag2 = DOMAIN u /\ x \in DOMAIN u
      /\ \A i \in DOMAIN t : i \in DOMAIN u /\ tag[i] = t[i].nft_contract /\ val[i] = f[i]
      /\ \A i \in DOMAIN u : tag2[i] = u[i].nft_contract /\ val2[i] = g[i]
  OBVIOUS
<1>2. \A b : BoxedIn(t, f, b) = Tagged(tag, val, b) /\ BoxedIn(u, g, b) = Tagged(tag2, val2, b)
  BY DEF BoxedIn
<1> HIDE DEF tag, val, tag2, val2
<1>3. TagMoves(tag, tag2, val, val2, x, d)
  BY <1>1 DEF TagMoves
<1>4. \A a : /\ Tagged(tag, val, a) \in Int
             /\ Tagged(tag2, val2, a) = Tagged(tag, val, a) + (IF a = tag2[x] THEN d ELSE 0)
  BY <1>3, TaggedChanges
<1> QED BY <1>1, <1>2, <1>4

\* The column of the boxes of n.
Column(n) == [i \in DOMAIN booths |-> BoxOf(i, n)]

BoxedColumns == \A b, n : Boxed(b, n) = BoxedIn(booths, Column(n), b)

LEMMA BoxedIsIn == BoxedColumns
<1> SUFFICES ASSUME NEW b, NEW n PROVE Boxed(b, n) = BoxedIn(booths, Column(n), b)
  BY DEF BoxedColumns
<1>1. [i \in DOMAIN booths |-> BoxOf(i, n)] = [i \in DOMAIN booths |-> Column(n)[i]]
  BY DEF Column
<1> QED BY <1>1 DEF Boxed, BoxedIn

AllBoxes == \A id : IsBoxes(BoxesOf(id)) /\ \A n : BoxOf(id, n) \in Nat

LEMMA BoxesTyped == TypeOK => AllBoxes
<1> SUFFICES ASSUME TypeOK, NEW id PROVE IsBoxes(BoxesOf(id)) /\ \A n : BoxOf(id, n) \in Nat
  BY DEF AllBoxes
<1>1. IsBoxes(BoxesOf(id))
  BY DEF TypeOK, BoxesOf, IsBoxes, IsTable, EmptyTable
<1> QED BY <1>1 DEF BoxOf, IsBoxes, IsTable

\* Booth x is created or changed, and the others and their boxes are not.
Alters(x) ==
    /\ DOMAIN booths' = DOMAIN booths \cup {x} /\ UNCHANGED touched
    /\ \A i \in DOMAIN booths : i = x \/ (booths'[i] = booths[i] /\ BoxesOf(i)' = BoxesOf(i))
    /\ x \notin DOMAIN booths \/ booths'[x].nft_contract = booths[x].nft_contract

LEMMA AltersCounters ==
    ASSUME CountersMatchBoxes, NEW x, Alters(x),
           x \in touched \/ Counted(booths'[x], BoxesOf(x)')
    PROVE  CountersMatchBoxes'
<1>1. ASSUME NEW i \in Intact' PROVE Counted(booths'[i], BoxesOf(i)')
  <2>1. CASE i = x
    BY <2>1 DEF Intact, Alters
  <2>2. CASE i # x
    <3>1. i \in Intact /\ booths'[i] = booths[i] /\ BoxesOf(i)' = BoxesOf(i)
      BY <2>2 DEF Intact, Alters
    <3> QED BY <3>1, CountersAre DEF AllCounted
  <2> QED BY <2>1, <2>2
<1>2. AllCounted'
  BY <1>1 DEF AllCounted, Counted
<1> QED BY <1>2, CountersAre, PTL

\* What booth x has of n before it is changed.
Before(x, n) == IF x \in DOMAIN booths THEN BoxOf(x, n) ELSE 0

LEMMA AltersCustody ==
    ASSUME TypeOK, TypeOK', Custody, NEW x, Alters(x),
           touched = {} =>
               \A b \in NftBanks, n \in Symbols :
                   nft'[Mart][b][n] = nft[Mart][b][n]
                       + (IF b = booths'[x].nft_contract THEN BoxOf(x, n)' - Before(x, n) ELSE 0)
    PROVE  Custody'
<1> SUFFICES ASSUME touched = {}, NEW b \in NftBanks, NEW n \in Symbols
             PROVE  nft'[Mart][b][n] = Boxed(b, n)'
  BY DEF Custody, Alters
<1> DEFINE f == Column(n)
           g == Column(n)'
           d == BoxOf(x, n)' - Before(x, n)
<1>1. d \in Int /\ Before(x, n) \in Int /\ BoxOf(x, n)' \in Int
  <2>1. BoxOf(x, n) \in Nat
    BY BoxesTyped DEF AllBoxes
  <2>2. BoxOf(x, n)' \in Nat
    <3>1. AllBoxes'
      BY BoxesTyped, PTL
    <3> QED BY <3>1 DEF AllBoxes
  <2> QED BY <2>1, <2>2 DEF Before
<1>2. \A i \in DOMAIN booths : f[i] = BoxOf(i, n) /\ f[i] \in Int
  <2>1. ASSUME NEW i \in DOMAIN booths PROVE BoxOf(i, n) \in Int
    <3>1. BoxOf(i, n) \in Nat
      BY BoxesTyped DEF AllBoxes
    <3> QED BY <3>1
  <2> QED BY <2>1 DEF Column
<1>3. \A i \in DOMAIN booths' : g[i] = BoxOf(i, n)'
  BY DEF Column
<1>4. BoxMoves(booths, booths', f, g, x, d)
  <2>1. IsFiniteSet(DOMAIN booths) /\ DOMAIN booths' = DOMAIN booths \cup {x}
    BY BoothsFinite DEF Alters
  <2>2. ASSUME NEW i \in DOMAIN booths, i # x
        PROVE  booths'[i].nft_contract = booths[i].nft_contract /\ g[i] = f[i]
    <3>1. booths'[i] = booths[i] /\ BoxesOf(i)' = BoxesOf(i)
      BY <2>2 DEF Alters
    <3>2. BoxOf(i, n)' = BoxOf(i, n)
      BY <3>1 DEF BoxOf
    <3> QED BY <1>2, <1>3, <2>1, <3>1, <3>2
  <2>3. g[x] = (IF x \in DOMAIN booths THEN f[x] ELSE 0) + d
    <3>1. x \in DOMAIN booths' /\ g[x] = BoxOf(x, n)'
      BY <1>3, <2>1
    <3>2. (IF x \in DOMAIN booths THEN f[x] ELSE 0) = Before(x, n)
      BY <1>2 DEF Before
    <3> QED BY <1>1, <3>1, <3>2
  <2>4. x \notin DOMAIN booths \/ booths'[x].nft_contract = booths[x].nft_contract
    BY DEF Alters
  <2> HIDE DEF f, g, d
  <2> QED BY <1>1, <1>2, <2>1, <2>2, <2>3, <2>4 DEF BoxMoves
<1>5. nft'[Mart][b][n] = nft[Mart][b][n] + (IF b = booths'[x].nft_contract THEN d ELSE 0)
  OBVIOUS
<1>6. nft[Mart][b][n] = BoxedIn(booths, f, b)
  BY BoxedIsIn DEF Custody, BoxedColumns
<1>7. Boxed(b, n)' = BoxedIn(booths', g, b)
  <2>1. BoxedColumns'
    BY BoxedIsIn, PTL
  <2> QED BY <2>1 DEF BoxedColumns
<1> HIDE DEF f, g, d
<1>8. \A c : BoxedIn(booths', g, c)
                 = BoxedIn(booths, f, c) + (IF c = booths'[x].nft_contract THEN d ELSE 0)
  BY <1>4, BoxedChanges
<1> QED BY <1>5, <1>6, <1>7, <1>8

\* A function padded with zeros adds up to the same.
LEMMA PadSum ==
    ASSUME NEW D, IsFiniteSet(D), NEW f, DOMAIN f \subseteq D, \A n \in DOMAIN f : f[n] \in Int,
           NEW g, g = [n \in D |-> Amount(f, n)]
    PROVE  Sum(g, D) = SumFunction(f) /\ \A n \in D : g[n] = Amount(f, n) /\ g[n] \in Int
<1> DEFINE E == DOMAIN f
<1>1. E \in SUBSET D /\ SumFunction(f) = Sum(f, E)
  BY SumFunctionIsSum
<1>2. \A n \in D : g[n] = Amount(f, n) /\ g[n] \in Int
  BY DEF Amount
<1>3. (\A n \in E : g[n] = f[n]) /\ (\A n \in D \ E : g[n] = 0)
  BY <1>1, <1>2 DEF Amount
<1> HIDE DEF E
<1>4. IsFiniteSet(E) /\ IsFiniteSet(D \ E)
  <2>1. D \ E \in SUBSET D
    OBVIOUS
  <2> QED BY <1>1, <2>1, FS_Subset
<1>5. Sum(g, D) = Sum(g, E) + Sum(g, D \ E)
  BY <1>1, <1>2, SumSplit
<1>6. Sum(g, D \ E) = 0
  BY <1>3, <1>4, SumZero
<1>7. Sum(g, E) = Sum(f, E)
  BY <1>3, <1>4, SumSame
<1>8. Sum(g, E) \in Int
  BY <1>1, <1>2, SumInt
<1> QED BY <1>1, <1>2, <1>5, <1>6, <1>7, <1>8
\* An action that creates a booth without boxes, or changes a row and no counter of it.
LEMMA RowBoxes ==
    ASSUME TypeOK, TypeOK', BoxInv, NEW x, Alters(x), UNCHANGED <<boothboxes, nft>>,
           \/ x \notin DOMAIN booths /\ booths'[x].nft_num = 0 /\ booths'[x].nft_box_num = 0
           \/ /\ x \in DOMAIN booths /\ booths'[x].nft_num = booths[x].nft_num
              /\ booths'[x].nft_box_num = booths[x].nft_box_num
    PROVE  BoxInv'
<1>1. BoxesOf(x)' = BoxesOf(x) /\ \A n : BoxOf(x, n)' = BoxOf(x, n)
  BY DEF BoxesOf, BoxOf
<1>2. x \notin DOMAIN booths => BoxesOf(x) = EmptyTable /\ \A n : BoxOf(x, n) = 0
  BY DEF TypeOK, BoxesOf, BoxOf, EmptyTable
<1>3. x \in touched \/ Counted(booths'[x], BoxesOf(x)')
  <2>1. CASE x \notin DOMAIN booths
    <3>1. DOMAIN EmptyTable = {}
      BY DEF EmptyTable
    <3>2. SumFunction(EmptyTable) = 0
      BY <3>1, SumFunctionIsSum, SumEmpty
    <3> QED BY <1>1, <1>2, <2>1, <3>1, <3>2, FS_EmptySet DEF Counted
  <2>2. CASE x \in DOMAIN booths
    <3>1. x \in touched \/ Counted(booths[x], BoxesOf(x))
      BY <2>2, CountersAre DEF BoxInv, AllCounted, Intact
    <3> QED BY <1>1, <2>2, <3>1 DEF Counted
  <2> QED BY <2>1, <2>2
<1>4. CountersMatchBoxes'
  BY <1>3, AltersCounters DEF BoxInv
<1>5. ASSUME NEW b \in NftBanks, NEW n \in Symbols
      PROVE  nft'[Mart][b][n] = nft[Mart][b][n]
                 + (IF b = booths'[x].nft_contract THEN BoxOf(x, n)' - Before(x, n) ELSE 0)
  <2>1. Before(x, n) = BoxOf(x, n) /\ BoxOf(x, n) \in Nat
    BY <1>2, BoxesTyped DEF Before, AllBoxes
  <2>2. nft[Mart][b][n] \in Nat
    BY DEF TypeOK, Accounts
  <2>3. BoxOf(x, n)' - Before(x, n) = 0
    BY <1>1, <2>1
  <2> QED BY <2>2, <2>3
<1>6. Custody'
  BY <1>5, AltersCustody DEF BoxInv
<1> QED BY <1>4, <1>6 DEF BoxInv

LEMMA ManageBoxes ==
    ASSUME MartInv, MartInv', BoxInv, Manage
    PROVE  BoxInv' \/ \E id \in BoothIds : closebooth(id)
<1>1. TypeOK /\ TypeOK'
  BY DEF MartInv
<1>2. ASSUME NEW u \in Owners, NEW b \in NftBanks, NEW c \in Currencies, NEW p \in Prices,
             NEW o \in Openings, NEW d \in Durations, createbooth(u, b, c, p, o, d)
      PROVE  BoxInv'
  <2> DEFINE id == gstate.last_booth_id + 1
             row == [owner |-> u, nft_contract |-> b, currency |-> c, price |-> p, fund_recd |-> 0,
                     nft_box_num |-> 0, nft_num |-> 0, nft_num_sum |-> 0, status |-> "enabled",
                     opened_at |-> o, closed_at |-> o + d]
  <2>1. booths' = Emplace(booths, id, row) /\ UNCHANGED <<boothboxes, nft, touched>>
    BY <1>2 DEF createbooth
  <2>2. id \notin DOMAIN booths
    BY <1>1 DEF TypeOK, IsTable
  <2>3. row.nft_num = 0 /\ row.nft_box_num = 0
    OBVIOUS
  <2> HIDE DEF id, row
  <2>4. /\ DOMAIN booths' = DOMAIN booths \cup {id} /\ booths'[id] = row
        /\ \A i \in DOMAIN booths : i = id \/ booths'[i] = booths[i]
    BY <2>1 DEF Emplace
  <2>5. \A i : BoxesOf(i)' = BoxesOf(i)
    BY <2>1 DEF BoxesOf
  <2>6. Alters(id)
    BY <2>1, <2>2, <2>4, <2>5 DEF Alters
  <2> QED BY <1>1, <2>1, <2>2, <2>3, <2>4, <2>6, RowBoxes
<1>3. ASSUME NEW id, id \in DOMAIN booths, NEW row,
             booths' = [booths EXCEPT ![id] = row], row.nft_contract = booths[id].nft_contract,
             row.nft_num = booths[id].nft_num, row.nft_box_num = booths[id].nft_box_num,
             UNCHANGED <<boothboxes, nft, touched>>
      PROVE  BoxInv'
  <2>1. /\ DOMAIN booths' = DOMAIN booths /\ booths'[id] = row
        /\ \A i \in DOMAIN booths : i = id \/ booths'[i] = booths[i]
    BY <1>3
  <2>2. \A i : BoxesOf(i)' = BoxesOf(i)
    BY <1>3 DEF BoxesOf
  <2>3. DOMAIN booths' = DOMAIN booths \cup {id}
    BY <1>3, <2>1
  <2>4. Alters(id)
    BY <1>3, <2>1, <2>2, <2>3 DEF Alters
  <2> QED BY <1>1, <1>3, <2>1, <2>4, RowBoxes
<1>4. ASSUME NEW id \in BoothIds, NEW s \in {"enabled", "disabled"}, enablebooth(id, s)
      PROVE  BoxInv'
  <2> DEFINE r == booths[id]
             row == [r EXCEPT !.status = s]
  <2>1. /\ id \in DOMAIN booths /\ booths' = [booths EXCEPT ![id] = row]
        /\ UNCHANGED <<boothboxes, nft, touched>>
    BY <1>4 DEF enablebooth
  <2>2. r \in BoothRow
    BY <1>1, <2>1 DEF TypeOK, IsTable
  <2>3. /\ row.nft_contract = r.nft_contract /\ row.nft_num = r.nft_num
        /\ row.nft_box_num = r.nft_box_num
    BY <2>2 DEF BoothRow
  <2> HIDE DEF row
  <2> QED BY <1>3, <2>1, <2>3
<1>5. ASSUME NEW id \in BoothIds, NEW t \in BoothTimes, setboothtime(id, t[1], t[2])
      PROVE  BoxInv'
  <2> DEFINE r == booths[id]
             row == [r EXCEPT !.opened_at = t[1], !.closed_at = t[2]]
  <2>1. /\ id \in DOMAIN booths
        /\ booths' = [booths EXCEPT ![id].opened_at = t[1], ![id].closed_at = t[2]]
        /\ UNCHANGED <<boothboxes, nft, touched>>
    BY <1>5 DEF setboothtime
  <2>2. r \in BoothRow
    BY <1>1, <2>1 DEF TypeOK, IsTable
  <2>3. booths' = [booths EXCEPT ![id] = row]
    BY <2>1, <2>2 DEF BoothRow
  <2>4. /\ row.nft_contract = r.nft_contract /\ row.nft_num = r.nft_num
        /\ row.nft_box_num = r.nft_box_num
    BY <2>2 DEF BoothRow
  <2> HIDE DEF row
  <2> QED BY <1>3, <2>1, <2>3, <2>4
<1> QED BY <1>2, <1>4, <1>5 DEF Manage

\* new are the boxes old and s together.
Together(old, s, new) ==
    /\ IsBoxes(new) /\ DOMAIN new = DOMAIN old \cup DOMAIN s
    /\ \A n : /\ Amount(new, n) = Amount(old, n) + Amount(s, n)
              /\ Amount(s, n) \in Nat /\ Amount(old, n) \in Nat
    /\ SumFunction(new) = SumFunction(old) + SumFunction(s)

\* What a refuel brings to the boxes.
LEMMA RefillAdds ==
    ASSUME NEW old, IsBoxes(old), NEW s, IsBoxes(s), NEW new, new = Refill(old, s, {})
    PROVE  Together(old, s, new)
<1> DEFINE D == DOMAIN old \cup DOMAIN s
           u == [n \in D |-> Amount(old, n)]
           v == [n \in D |-> Amount(s, n)]
<1>1. /\ IsFiniteSet(DOMAIN old) /\ IsFiniteSet(DOMAIN s)
      /\ (\A n \in DOMAIN old : n \in Symbols /\ old[n] \in Nat /\ old[n] \in Int)
      /\ \A n \in DOMAIN s : n \in Symbols /\ s[n] \in Nat /\ s[n] \in Int
  BY SymbolIds
<1>2. IsFiniteSet(D)
  BY <1>1, FS_Union
<1>3. \A n : Amount(old, n) \in Nat /\ Amount(s, n) \in Nat
  BY <1>1 DEF Amount
<1>4. DOMAIN new = D /\ \A n \in D : new[n] = Amount(old, n) + Amount(s, n)
  <2>1. DOMAIN new = D
    BY DEF Refill
  <2>2. ASSUME NEW n \in D PROVE new[n] = Amount(old, n) + Amount(s, n)
    <3>1. new[n] = (IF n \in DOMAIN s THEN s[n] ELSE 0) + (IF n \in DOMAIN old THEN old[n] ELSE 0)
      BY DEF Refill
    <3> QED BY <1>1, <3>1 DEF Amount
  <2> QED BY <2>1, <2>2
<1>5. \A n : Amount(new, n) = Amount(old, n) + Amount(s, n)
  <2> TAKE n
  <2>1. CASE n \in D
    BY <1>4, <2>1 DEF Amount
  <2>2. CASE n \notin D
    BY <1>4, <2>2 DEF Amount
  <2> QED BY <2>1, <2>2
<1>6. IsBoxes(new)
  BY <1>1, <1>3, <1>4 DEF IsBoxes, IsTable
<1>7. u = [n \in D |-> Amount(old, n)] /\ v = [n \in D |-> Amount(s, n)]
      /\ DOMAIN old \subseteq D /\ DOMAIN s \subseteq D
  OBVIOUS
<1> HIDE DEF u, v, D
<1>8. Sum(u, D) = SumFunction(old) /\ \A n \in D : u[n] = Amount(old, n) /\ u[n] \in Int
  BY <1>1, <1>2, <1>7, PadSum
<1>9. Sum(v, D) = SumFunction(s) /\ \A n \in D : v[n] = Amount(s, n) /\ v[n] \in Int
  BY <1>1, <1>2, <1>7, PadSum
<1>10. Sum(new, D) = Sum(u, D) + Sum(v, D)
  BY <1>2, <1>4, <1>8, <1>9, SumPlus
<1>11. SumFunction(new) = Sum(new, D)
  BY <1>4, SumFunctionIsSum
<1> QED BY <1>3, <1>4, <1>5, <1>6, <1>8, <1>9, <1>10, <1>11 DEF Together, D

LEMMA RefuelBoxes ==
    ASSUME OrderedSymbols, MartInv, MartInv', BoxInv, NEW u \in Owners, NEW b \in NftBanks,
           NEW s \in Batches, NEW id, on_transfer_ntoken(u, b, s, id)
    PROVE  BoxInv'
<1>1. TypeOK /\ TypeOK'
  BY DEF MartInv
<1>2. PICK missed : Refuels(u, b, s, id, missed)
  BY <1>1, BatchRefuels
<1> DEFINE old == BoxesOf(id)
           new == Refill(old, s, {})
<1>3. /\ id \in DOMAIN booths /\ booths[id] \in BoothRow /\ booths[id].nft_contract = b
      /\ IsBoxes(old) /\ IsBoxes(s) /\ SumFunction(s) \in Nat
      /\ missed \subseteq MayMiss(DOMAIN old \cup DOMAIN s) /\ Moved(b, u, Mart, s)
      /\ boothboxes' = Emplace(boothboxes, id, Refill(old, s, missed))
      /\ UNCHANGED touched
  BY <1>2 DEF Refuels
<1>4. missed = {}
  <2>1. DOMAIN old \cup DOMAIN s \subseteq Symbols
    BY <1>3 DEF IsBoxes, IsTable
  <2> QED BY <1>3, <2>1, NoneMissed
<1>5. BoxesOf(id)' = new /\ \A i : i # id => BoxesOf(i)' = BoxesOf(i)
  BY <1>3, <1>4 DEF BoxesOf, Emplace
<1>6. new = Refill(old, s, {}) /\ old = BoxesOf(id)
  OBVIOUS
<1> HIDE DEF old, new
<1>7. /\ IsBoxes(new) /\ DOMAIN new = DOMAIN old \cup DOMAIN s
      /\ \A n : Amount(new, n) = Amount(old, n) + Amount(s, n) /\ Amount(s, n) \in Nat
                /\ Amount(old, n) \in Nat
      /\ SumFunction(new) = SumFunction(old) + SumFunction(s)
  <2>1. Together(old, s, new)
    BY <1>3, <1>6, RefillAdds
  <2> QED BY <2>1 DEF Together
<1>8. /\ DOMAIN booths' = DOMAIN booths /\ \A i \in DOMAIN booths : i # id => booths'[i] = booths[i]
      /\ booths'[id].nft_contract = b
      /\ booths'[id].nft_num = booths[id].nft_num + SumFunction(s)
      /\ booths'[id].nft_box_num =
            (booths[id].nft_box_num + Cardinality(DOMAIN s \ (DOMAIN old \ missed))) % (UintMax + 1)
  <2>1. Refueled(s, id, missed)
    BY <1>2, RefueledRow
  <2> QED BY <1>3, <1>6, <2>1 DEF Refueled
<1>9. Alters(id)
  <2>1. DOMAIN booths' = DOMAIN booths \cup {id}
    BY <1>3, <1>8
  <2> QED BY <1>3, <1>5, <1>8, <2>1 DEF Alters
<1>10. ASSUME id \notin touched PROVE Counted(booths'[id], new)
  <2>1. Counted(booths[id], old)
    BY <1>3, <1>6, <1>10, CountersAre DEF BoxInv, AllCounted, Intact
  <2>2. booths'[id].nft_num = SumFunction(new)
    BY <1>7, <1>8, <2>1 DEF Counted
  <2>3. booths'[id].nft_box_num = Cardinality(DOMAIN new)
    <3> DEFINE D == DOMAIN old
               S == DOMAIN s \ D
    <3>1. IsFiniteSet(D) /\ IsFiniteSet(DOMAIN s)
      BY <1>3, SymbolIds
    <3>2. IsFiniteSet(S) /\ D \cup S = DOMAIN new /\ D \cap S = {}
      <4>1. S \in SUBSET DOMAIN s
        OBVIOUS
      <4>2. IsFiniteSet(S)
        <5> HIDE DEF S
        <5> QED BY <3>1, <4>1, FS_Subset
      <4> QED BY <1>7, <4>2
    <3>3. DOMAIN s \ (DOMAIN old \ missed) = S
      BY <1>4
    <3> HIDE DEF D, S
    <3>4. Cardinality(DOMAIN new) = Cardinality(D) + Cardinality(S) - 0
      BY <3>1, <3>2, FS_Union, FS_EmptySet
    <3>5. Cardinality(D) \in Nat /\ Cardinality(S) \in Nat
      BY <3>1, <3>2, FS_CardinalityType
    <3>6. booths'[id].nft_box_num = (Cardinality(D) + Cardinality(S)) % (UintMax + 1)
      BY <1>8, <2>1, <3>3 DEF Counted, D
    <3>7. Cardinality(DOMAIN new) \in Nat /\ Cardinality(DOMAIN new) <= UintMax /\ UintMax \in Nat
      BY <1>7, BoxCount, MartInputs
    <3> DEFINE c == Cardinality(DOMAIN new)
    <3>8. booths'[id].nft_box_num = c % (UintMax + 1)
      BY <3>4, <3>5, <3>6
    <3>9. c \in Nat /\ c <= UintMax
      BY <3>7
    <3> HIDE DEF c
    <3>10. c % (UintMax + 1) = c
      BY <3>7, <3>9
    <3> QED BY <3>8, <3>10 DEF c
  <2>4. ASSUME NEW n \in DOMAIN new PROVE new[n] > 0
    <3>1. new[n] = Amount(old, n) + Amount(s, n) /\ Amount(old, n) \in Nat /\ Amount(s, n) \in Nat
      BY <1>7 DEF Amount
    <3>2. Amount(old, n) > 0 \/ Amount(s, n) > 0
      BY <1>3, <1>7, <2>1 DEF Counted, Amount, Moved
    <3> QED BY <3>1, <3>2
  <2> QED BY <2>2, <2>3, <2>4 DEF Counted
<1>11. CountersMatchBoxes'
  BY <1>5, <1>9, <1>10, AltersCounters DEF BoxInv
<1>12. ASSUME NEW c \in NftBanks, NEW n \in Symbols
       PROVE  nft'[Mart][c][n] = nft[Mart][c][n]
                  + (IF c = booths'[id].nft_contract THEN BoxOf(id, n)' - Before(id, n) ELSE 0)
  <2>1. BoxOf(id, n)' = Amount(new, n) /\ Before(id, n) = Amount(old, n)
    BY <1>3, <1>5, <1>6 DEF BoxOf, Before, Amount
  <2>2. BoxOf(id, n)' - Before(id, n) = Amount(s, n)
    BY <1>7, <2>1
  <2>3. nft'[Mart][c][n] = nft[Mart][c][n]
           + (IF c = b /\ n \in DOMAIN s THEN Gain(Mart, u, Mart, s[n]) ELSE 0)
    BY <1>3 DEF Moved, Accounts
  <2>4. (IF n \in DOMAIN s THEN Gain(Mart, u, Mart, s[n]) ELSE 0) = Amount(s, n)
    <3>1. Mart # u
      BY MartAccounts
    <3>2. n \in DOMAIN s => s[n] \in Nat
      BY <1>3 DEF Moved
    <3> QED BY <3>1, <3>2 DEF Gain, Amount
  <2> QED BY <1>8, <2>2, <2>3, <2>4
<1>13. Custody'
  BY <1>1, <1>9, <1>12, AltersCustody DEF BoxInv
<1> QED BY <1>11, <1>13 DEF BoxInv

LEMMA SaleBoxes ==
    ASSUME OrderedSymbols, MartInv, MartInv', BoxInv, NEW u \in Users, NEW c \in Currencies,
           NEW p \in Payments, NEW id, _transfer_token(u, c, p, id)
    PROVE  BoxInv'
<1>1. TypeOK /\ TypeOK'
  BY DEF MartInv
<1>2. PICK k \in Nat, paid \in Nat : \E draw : Sells(u, id, k, paid, draw)
  BY <1>1, TransferSells
<1>3. PICK draw : Sells(u, id, k, paid, draw)
  BY <1>2
<1> DEFINE old == boothboxes[id]
           new == draw.boxes
           num == booths[id].nft_num
           bank == booths[id].nft_contract
<1>4. /\ id \in DOMAIN booths /\ id \in DOMAIN boothboxes /\ IsBoxes(old) /\ IsBoxes(new)
      /\ k \in 1 .. num /\ num \in Nat /\ DOMAIN new \subseteq DOMAIN old
      /\ draw.bought \in [Symbols -> Nat]
      /\ boothboxes' = [boothboxes EXCEPT ![id] = new] /\ UNCHANGED touched
  BY <1>3 DEF Sells, Drawn, BoothRow
<1>5. Full(old, num) =>
         /\ Full(new, num - k)
         /\ \A n \in Symbols : Amount(new, n) + draw.bought[n] = Amount(old, n)
  BY <1>3 DEF Sells, Drawn
<1>6. \A a \in Accounts, b \in NftBanks, n \in Symbols :
         nft'[a][b][n] = nft[a][b][n] + (IF b = bank THEN Gain(a, Mart, u, draw.bought[n]) ELSE 0)
  BY <1>3 DEF Sells
<1>7. /\ DOMAIN booths' = DOMAIN booths /\ \A i \in DOMAIN booths : i # id => booths'[i] = booths[i]
      /\ booths'[id].nft_contract = bank /\ booths'[id].nft_num = num - k
      /\ booths'[id].nft_box_num =
            (booths[id].nft_box_num - Cardinality(DOMAIN old \ DOMAIN new)) % (UintMax + 1)
  <2>1. Sold(id, k, paid, draw)
    BY <1>3, SoldRow
  <2> QED BY <2>1 DEF Sold
<1>8. /\ BoxesOf(id) = old /\ BoxesOf(id)' = new
      /\ \A i : i # id => BoxesOf(i)' = BoxesOf(i)
  BY <1>4 DEF BoxesOf
<1> HIDE DEF old, new, num, bank
<1>9. Alters(id)
  <2>1. DOMAIN booths' = DOMAIN booths \cup {id}
    BY <1>4, <1>7
  <2> QED BY <1>4, <1>7, <1>8, <2>1 DEF Alters, bank
<1>10. ASSUME id \notin touched PROVE Counted(booths[id], old) /\ Full(old, num)
  <2>1. Counted(booths[id], old)
    BY <1>4, <1>8, <1>10, CountersAre DEF BoxInv, AllCounted, Intact
  <2> QED BY <2>1 DEF Counted, Full, num
<1>11. ASSUME id \notin touched PROVE Counted(booths'[id], new)
  <2>1. Counted(booths[id], old) /\ Full(new, num - k)
    BY <1>5, <1>10, <1>11
  <2>2. booths'[id].nft_num = SumFunction(new) /\ \A n \in DOMAIN new : new[n] > 0
    BY <1>7, <2>1 DEF Full
  <2>3. booths'[id].nft_box_num = Cardinality(DOMAIN new)
    <3> DEFINE D == DOMAIN old
               E == DOMAIN new
    <3>1. IsFiniteSet(D) /\ IsFiniteSet(E) /\ D \cap E = E
      BY <1>4, SymbolIds
    <3> HIDE DEF D, E
    <3>2. Cardinality(D \ E) = Cardinality(D) - Cardinality(E)
      BY <3>1, FS_Difference
    <3>3. Cardinality(D) \in Nat /\ Cardinality(E) \in Nat
      BY <3>1, FS_CardinalityType
    <3>4. booths'[id].nft_box_num = (Cardinality(D) - Cardinality(D \ E)) % (UintMax + 1)
      BY <1>7, <2>1 DEF Counted, D, E
    <3>5. Cardinality(D) - Cardinality(D \ E) = Cardinality(E)
      BY <3>2, <3>3
    <3>6. Cardinality(E) <= UintMax /\ UintMax \in Nat
      BY <1>4, BoxCount, MartInputs DEF E
    <3> DEFINE m == Cardinality(E)
    <3>7. m \in Nat /\ m <= UintMax /\ booths'[id].nft_box_num = m % (UintMax + 1)
      BY <3>3, <3>4, <3>5, <3>6
    <3> HIDE DEF m
    <3>8. m % (UintMax + 1) = m
      BY <3>6, <3>7
    <3> QED BY <3>7, <3>8 DEF m, E
  <2> QED BY <2>2, <2>3 DEF Counted
<1>12. CountersMatchBoxes'
  BY <1>8, <1>9, <1>11, AltersCounters DEF BoxInv
<1>13. ASSUME touched = {}, NEW b \in NftBanks, NEW n \in Symbols
       PROVE  nft'[Mart][b][n] = nft[Mart][b][n]
                  + (IF b = booths'[id].nft_contract THEN BoxOf(id, n)' - Before(id, n) ELSE 0)
  <2>1. BoxOf(id, n)' = Amount(new, n) /\ Before(id, n) = Amount(old, n)
    BY <1>4, <1>8 DEF BoxOf, Before, Amount
  <2>2. Amount(new, n) + draw.bought[n] = Amount(old, n)
    BY <1>5, <1>10, <1>13
  <2>3. draw.bought[n] \in Nat /\ Amount(new, n) \in Nat
    BY <1>4 DEF Amount, IsBoxes, IsTable
  <2>4. BoxOf(id, n)' - Before(id, n) = 0 - draw.bought[n]
    BY <2>1, <2>2, <2>3
  <2>5. Mart # u /\ Mart \in Accounts
    BY MartAccounts DEF Accounts
  <2>6. Gain(Mart, Mart, u, draw.bought[n]) = 0 - draw.bought[n]
    BY <2>5 DEF Gain
  <2>7. nft'[Mart][b][n] = nft[Mart][b][n]
            + (IF b = bank THEN Gain(Mart, Mart, u, draw.bought[n]) ELSE 0)
    BY <1>6, <2>5
  <2> QED BY <1>7, <2>4, <2>6, <2>7
<1>14. Custody'
  BY <1>1, <1>9, <1>13, AltersCustody DEF BoxInv
<1> QED BY <1>12, <1>14 DEF BoxInv

LEMMA CloseBoxes ==
    ASSUME MartInv, MartInv', BoxInv, NEW id, closebooth(id)
    PROVE  BoxInv'
<1>1. TypeOK /\ TypeOK'
  BY DEF MartInv
<1> DEFINE r == booths[id]
           s == boothboxes[id]
           bank == r.nft_contract
           owner == r.owner
<1>2. /\ id \in DOMAIN booths /\ id \in DOMAIN boothboxes /\ NftMoves(bank, Mart, owner, s)
      /\ booths' = Erase(booths, {id}) /\ boothboxes' = Erase(boothboxes, {id})
      /\ UNCHANGED touched
  BY DEF closebooth, BoxesWithout
<1>3. r \in BoothRow /\ DOMAIN s \subseteq Symbols
  BY <1>1, <1>2 DEF TypeOK, IsTable
<1>4. bank \in NftBanks /\ owner \in Accounts /\ Mart \in Accounts /\ Mart # owner
  BY <1>3, MartAccounts DEF BoothRow, Accounts
<1>5. /\ DOMAIN booths' = DOMAIN booths \ {id} /\ \A i \in DOMAIN booths' : booths'[i] = booths[i]
      /\ \A i : i # id => BoxesOf(i)' = BoxesOf(i)
      /\ BoxesOf(id) = s
  BY <1>2 DEF Erase, BoxesOf
<1>6. CountersMatchBoxes'
  <2>1. ASSUME NEW i \in Intact' PROVE Counted(booths'[i], BoxesOf(i)')
    <3>1. i \in Intact /\ booths'[i] = booths[i] /\ BoxesOf(i)' = BoxesOf(i)
      BY <1>2, <1>5 DEF Intact
    <3> QED BY <3>1, CountersAre DEF BoxInv, AllCounted
  <2>2. AllCounted'
    BY <2>1 DEF AllCounted, Counted
  <2> QED BY <2>2, CountersAre, PTL
<1>7. Moved(bank, Mart, owner, s)
  <2>1. nft \in [Accounts -> [NftBanks -> [Symbols -> Nat]]]
    BY <1>1 DEF TypeOK
  <2> HIDE DEF bank, owner, s
  <2> QED BY <1>2, <1>3, <1>4, <2>1, NftsMoved
<1>8. Custody'
  <2> SUFFICES ASSUME touched = {}, NEW b \in NftBanks, NEW n \in Symbols
               PROVE  nft'[Mart][b][n] = Boxed(b, n)'
    BY <1>2 DEF Custody
  <2> DEFINE f == Column(n)
             g == Column(n)'
             d == BoxOf(id, n)
  <2>1. d \in Nat /\ d = Amount(s, n)
    BY <1>1, <1>5, BoxesTyped DEF AllBoxes, BoxOf, Amount
  <2>2. \A i \in DOMAIN booths : f[i] = BoxOf(i, n) /\ f[i] \in Int
    <3>1. ASSUME NEW i \in DOMAIN booths PROVE BoxOf(i, n) \in Int
      <4>1. BoxOf(i, n) \in Nat
        BY <1>1, BoxesTyped DEF AllBoxes
      <4> QED BY <4>1
    <3> QED BY <3>1 DEF Column
  <2>3. ASSUME NEW i \in DOMAIN booths' PROVE g[i] = f[i] /\ g[i] \in Int
    <3>1. i \in DOMAIN booths /\ i # id
      BY <1>5
    <3>2. BoxOf(i, n)' = BoxOf(i, n)
      BY <1>5, <3>1 DEF BoxOf
    <3>3. g[i] = BoxOf(i, n)'
      BY DEF Column
    <3> QED BY <2>2, <3>1, <3>2, <3>3
  <2>4. BoxMoves(booths', booths, g, f, id, d)
    <3>1. IsFiniteSet(DOMAIN booths') /\ DOMAIN booths = DOMAIN booths' \cup {id}
          /\ id \notin DOMAIN booths'
      <4>1. IsFiniteSet(DOMAIN booths) /\ DOMAIN booths' \in SUBSET DOMAIN booths
        BY <1>1, <1>5, BoothsFinite
      <4>2. IsFiniteSet(DOMAIN booths')
        BY <4>1, FS_Subset
      <4> QED BY <1>2, <1>5, <4>2
    <3>2. f[id] = 0 + d
      BY <1>2, <2>1, <2>2
    <3> HIDE DEF f, g, d
    <3> QED BY <1>5, <2>1, <2>3, <3>1, <3>2 DEF BoxMoves
  <2>5. nft[Mart][b][n] = BoxedIn(booths, f, b)
    BY BoxedIsIn DEF BoxInv, Custody, BoxedColumns
  <2>6. Boxed(b, n)' = BoxedIn(booths', g, b)
    <3>1. BoxedColumns'
      BY BoxedIsIn, PTL
    <3> QED BY <3>1 DEF BoxedColumns
  <2>7. nft'[Mart][b][n] = nft[Mart][b][n] - (IF b = bank THEN d ELSE 0)
    <3>1. nft'[Mart][b][n] = nft[Mart][b][n]
              + (IF b = bank /\ n \in DOMAIN s THEN Gain(Mart, Mart, owner, s[n]) ELSE 0)
      BY <1>4, <1>7 DEF Moved
    <3>2. nft[Mart][b][n] \in Nat
      BY <1>1, <1>4 DEF TypeOK
    <3>3. CASE b = bank /\ n \in DOMAIN s
      <4>1. Gain(Mart, Mart, owner, s[n]) = 0 - s[n] /\ s[n] = d
        BY <1>4, <2>1, <3>3 DEF Gain, Amount
      <4> HIDE DEF d, bank, s
      <4> QED BY <2>1, <3>1, <3>2, <3>3, <4>1
    <3>4. CASE ~ (b = bank /\ n \in DOMAIN s)
      <4>1. (IF b = bank THEN d ELSE 0) = 0
        BY <2>1, <3>4 DEF Amount
      <4> HIDE DEF d, bank, s
      <4> QED BY <3>1, <3>2, <3>4, <4>1
    <3> QED BY <3>3, <3>4
  <2> HIDE DEF f, g, d
  <2>8. /\ BoxedIn(booths', g, b) \in Int
        /\ BoxedIn(booths, f, b) = BoxedIn(booths', g, b) + (IF b = bank THEN d ELSE 0)
    BY <2>4, BoxedChanges
  <2> QED BY <2>1, <2>5, <2>6, <2>7, <2>8
<1> QED BY <1>6, <1>8 DEF BoxInv

LEMMA MaintainBoxes ==
    ASSUME MartInv, BoxInv, Maintain \/ Tick \/ UNCHANGED vars
    PROVE  BoxInv'
<1>1. ASSUME UNCHANGED <<booths, boothboxes, nft, touched>> PROVE BoxInv'
  BY <1>1 DEF BoxInv, CountersMatchBoxes, Intact, Held, BoxesOf, Custody, Boxed, BoxOf
<1>2. ASSUME NEW id, NEW new, id \in DOMAIN boothboxes, UNCHANGED booths,
             boothboxes' = [boothboxes EXCEPT ![id] = new], touched' = touched \cup {id}
      PROVE  BoxInv'
  <2>1. touched' # {}
    BY <1>2
  <2>2. Custody'
    BY <2>1 DEF Custody
  <2>3. ASSUME NEW i \in Intact' PROVE Counted(booths'[i], BoxesOf(i)')
    <3>1. i \in Intact /\ i # id
      BY <1>2 DEF Intact
    <3>2. BoxesOf(i)' = BoxesOf(i)
      BY <1>2, <3>1 DEF BoxesOf
    <3> QED BY <1>2, <3>1, <3>2, CountersAre DEF BoxInv, AllCounted
  <2>4. AllCounted'
    BY <2>3 DEF AllCounted, Counted
  <2>5. CountersMatchBoxes'
    BY <2>4, CountersAre, PTL
  <2> QED BY <2>2, <2>5 DEF BoxInv
<1>3. ASSUME NEW id \in BoothIds, NEW n \in Symbols, delboothbox(id, n) PROVE BoxInv'
  <2>1. PICK gone : boothboxes' = [boothboxes EXCEPT ![id] = Erase(boothboxes[id], gone)]
    BY <1>3 DEF delboothbox
  <2>2. id \in DOMAIN boothboxes /\ UNCHANGED booths /\ touched' = touched \cup {id}
    BY <1>3 DEF delboothbox
  <2> QED BY <1>2, <2>1, <2>2
<1>4. ASSUME NEW id \in BoothIds, NEW n \in Symbols, NEW k \in FixAmounts, fixboothbox(id, n, k)
      PROVE  BoxInv'
  <2>1. /\ boothboxes' = [boothboxes EXCEPT ![id] = Emplace(boothboxes[id], n, k)]
        /\ id \in DOMAIN boothboxes /\ UNCHANGED booths /\ touched' = touched \cup {id}
    BY <1>4 DEF fixboothbox
  <2> QED BY <1>2, <2>1
<1>5. CASE Maintain
  BY <1>1, <1>3, <1>4, <1>5 DEF Maintain, setmaxbox, setapl
<1>6. CASE Tick
  BY <1>1, <1>6 DEF Tick
<1>7. CASE UNCHANGED vars
  BY <1>1, <1>7 DEF vars
<1> QED BY <1>5, <1>6, <1>7

LEMMA StepBoxes ==
    ASSUME OrderedSymbols, MartInv, BoxInv, [Next]_vars
    PROVE  BoxInv'
<1>1. MartInv'
  BY StepInv
<1>2. CASE Manage
  BY <1>1, <1>2, ManageBoxes, CloseBoxes
<1>3. CASE Trade
  BY <1>1, <1>3, RefuelBoxes, SaleBoxes DEF Trade
<1>4. CASE Maintain \/ Tick \/ UNCHANGED vars
  BY <1>4, MaintainBoxes
<1> QED BY <1>2, <1>3, <1>4 DEF Next

LEMMA InitBoxes == Init /\ OrderedSymbols => BoxInv
<1> SUFFICES ASSUME Init, OrderedSymbols PROVE BoxInv
  OBVIOUS
<1>1. DOMAIN booths = {} /\ nft = FirstNfts
  BY DEF Init, EmptyTable
<1>2. CountersMatchBoxes
  BY <1>1 DEF CountersMatchBoxes, Intact
<1>3. ASSUME NEW b \in NftBanks, NEW n \in Symbols PROVE Boxed(b, n) = 0
  <2> DEFINE tag == [i \in DOMAIN booths |-> booths[i].nft_contract]
             val == [i \in DOMAIN booths |-> BoxOf(i, n)]
             v == [i \in {j \in DOMAIN tag : tag[j] = b} |-> val[i]]
  <2>1. DOMAIN v = {}
    BY <1>1
  <2>2. Boxed(b, n) = SumFunction(v)
    BY DEF Boxed, Tagged
  <2> HIDE DEF v
  <2> QED BY <2>1, <2>2, SumFunctionIsSum, SumEmpty
<1>4. Custody
  BY <1>1, <1>3 DEF Custody, OrderedSymbols
<1> QED BY <1>2, <1>4 DEF BoxInv

LEMMA BoxInvariant == OrderedSymbols => (Spec => []BoxInv)
<1> SUFFICES ASSUME OrderedSymbols PROVE Spec => []BoxInv
  OBVIOUS
<1>1. Init => BoxInv
  BY InitBoxes
<1>2. MartInv /\ BoxInv /\ [Next]_vars => BoxInv'
  BY StepBoxes
<1> QED BY <1>1, <1>2, MartInvariant, PTL DEF Spec

\* Where the order of the symbols is one, counters and boxes of every booth agree however
\* refuels, sales and edits of other booths follow each other.
THEOREM OrderedBoxesAreCounted == OrderedSymbols => (Spec => []CountersMatchBoxes)
<1>1. BoxInv => CountersMatchBoxes
  BY DEF BoxInv
<1> QED BY <1>1, BoxInvariant, PTL

\* Then, until somebody edits a box by hand, the mart holds what is in the boxes of all
\* booths of a contract, so that none is short when it closes.
THEOREM OrderedBoxesAreHeld == OrderedSymbols => (Spec => []MartHoldsUnsold)
<1>1. BoxInv => MartHoldsUnsold
  BY CustodyIs DEF BoxInv
<1> QED BY <1>1, BoxInvariant, PTL

\* And every NFT left is as likely as any other to be drawn next.
THEOREM OrderedDrawsAreFair == OrderedSymbols => (Spec => []DrawIsFair)
<1>1. TypeOK /\ CountersMatchBoxes => DrawIsFair
  <2> SUFFICES ASSUME TypeOK, CountersMatchBoxes, NEW id \in Intact, NEW n \in DOMAIN BoxesOf(id)
               PROVE  Cardinality({r \in 1 .. booths[id].nft_num : Pick(BoxesOf(id), r) = {n}})
                          = BoxesOf(id)[n]
    BY DEF DrawIsFair
  <2>1. IsBoxes(BoxesOf(id))
    BY BoxesTyped DEF AllBoxes
  <2>2. booths[id].nft_num \in Nat
    BY DEF TypeOK, IsTable, Intact, BoothRow
  <2>3. Full(BoxesOf(id), booths[id].nft_num)
    BY CountersAre DEF AllCounted, Counted, Full
  <2> QED BY <2>1, <2>2, <2>3, FullIsFair
<1> QED BY <1>1, MartTypeCorrect, OrderedBoxesAreCounted, PTL

------------------------------------------------------------------------------
(* The sale is a raffle *)

LEMMA SumsAgree == ASSUME NEW w PROVE AsRaffle!SumFunction(w) = SumFunction(w)
BY DEF SumFunction, SumFunctionOnSet, FoldFunctionOnSet, MapThenFoldSet, AsRaffle!SumFunction,
       AsRaffle!SumFunctionOnSet, AsRaffle!FoldFunctionOnSet, AsRaffle!MapThenFoldSet

\* The goods are the NFTs of the contracts, and none of them is money.
LEMMA Assets ==
    /\ \A g \in Goods : /\ g = <<"nft", <<g[2][1], g[2][2]>>>> /\ g \notin Money
                        /\ g[2][1] \in NftBanks /\ g[2][2] \in Symbols
    /\ \A c \in Money : c = <<"money", c[2]>> /\ c[2] \in Currencies /\ c \notin Goods
    /\ \A b \in NftBanks, n \in Symbols : <<"nft", <<b, n>>>> \in Goods
    /\ \A c \in Currencies : <<"money", c>> \in Money
BY DEF Goods, Money

\* A bag of NFTs of one contract is as large as what it has of their symbols.
LEMMA BagSum ==
    ASSUME NEW w, \A n \in Symbols : w[n] \in Int, NEW bank \in NftBanks, NEW bag,
           DOMAIN bag = Goods,
           \A g \in Goods : bag[g] = IF g[2][1] = bank THEN w[g[2][2]] ELSE 0
    PROVE  AsRaffle!SumFunction(bag) = Sum(w, Symbols)
<1> DEFINE h == [g \in Goods |-> g[2][2]]
<1>1. DOMAIN bag = Goods /\ \A g \in Goods : bag[g] = IF g[2][1] = bank THEN w[g[2][2]] ELSE 0
  OBVIOUS
<1>2. \A g \in Goods : bag[g] \in Int /\ h[g] = g[2][2] /\ h[g] \in Symbols
  BY <1>1, Assets
<1>3. IsFiniteSet(Goods) /\ IsFiniteSet(Symbols)
  <2>1. IsFiniteSet({"nft"})
    BY FS_Singleton
  <2>2. IsFiniteSet(NftBanks \X Symbols)
    BY MartInputs, FS_Product
  <2> QED BY <2>1, <2>2, MartInputs, FS_Product DEF Goods
<1> HIDE DEF h
<1>4. ASSUME NEW n \in Symbols PROVE w[n] = Sum(bag, Group(Goods, h, n))
  <2> DEFINE S == Group(Goods, h, n)
             x == <<"nft", <<bank, n>>>>
  <2>1. x \in Goods /\ x[2][1] = bank /\ x[2][2] = n
    BY Assets
  <2>2. S \in SUBSET Goods /\ x \in S
    BY <1>2, <2>1 DEF Group
  <2>3. bag[x] = w[n]
    BY <1>1, <2>1
  <2>4. ASSUME NEW g \in S \ {x} PROVE bag[g] = 0
    <3>1. g \in Goods /\ g[2][2] = n /\ g # x
      BY <1>2 DEF Group
    <3>2. g[2][1] # bank
      BY <3>1, Assets
    <3> QED BY <1>1, <3>1, <3>2
  <2> HIDE DEF S, x
  <2>5. IsFiniteSet(S) /\ bag[x] \in Int
    BY <1>2, <1>3, <2>1, <2>2, FS_Subset
  <2>6. Sum(bag, S) = bag[x]
    BY <2>2, <2>4, <2>5, SumSingle
  <2> QED BY <2>3, <2>6 DEF S
<1>5. Sum(w, Symbols) = Sum(bag, Goods)
  <2>1. \A g \in Goods : bag[g] \in Int /\ h[g] \in Symbols
    BY <1>2
  <2>2. \A n \in Symbols : w[n] = Sum(bag, Group(Goods, h, n))
    BY <1>4
  <2> QED BY <1>3, <2>1, <2>2, SumGroups
<1>6. SumFunction(bag) = Sum(bag, Goods)
  BY <1>1, SumFunctionIsSum
<1> QED BY <1>5, <1>6, SumsAgree

\* What the purses of the raffle have.
LEMMA Purses ==
    ASSUME NEW u \in Users
    PROVE  /\ \A g \in Goods : /\ purseBar[u][g] = nft[u][g[2][1]][g[2][2]]
                               /\ purseBar'[u][g] = nft'[u][g[2][1]][g[2][2]]
           /\ \A c \in Money : /\ purseBar[u][c] = money[u][c[2]]
                               /\ purseBar'[u][c] = money'[u][c[2]]
BY Assets DEF purseBar

\* Only u's purse changes, and becomes p.
LEMMA PurseBecomes ==
    ASSUME NEW u \in Users, NEW p, p = [a \in Goods \cup Money |-> p[a]],
           \A a \in Goods \cup Money : purseBar'[u][a] = p[a],
           \A v \in Users \ {u} : \A a \in Goods \cup Money : purseBar'[v][a] = purseBar[v][a]
    PROVE  purseBar' = [purseBar EXCEPT ![u] = p]
<1> DEFINE f == [purseBar EXCEPT ![u] = p]
<1>1. /\ purseBar = [v \in Users |-> purseBar[v]] /\ purseBar' = [v \in Users |-> purseBar'[v]]
      /\ \A v \in Users : /\ purseBar[v] = [a \in Goods \cup Money |-> purseBar[v][a]]
                          /\ purseBar'[v] = [a \in Goods \cup Money |-> purseBar'[v][a]]
  BY DEF purseBar
<1>2. purseBar'[u] = p
  BY <1>1
<1>3. ASSUME NEW v \in Users \ {u} PROVE purseBar'[v] = purseBar[v]
  BY <1>1
<1> QED BY <1>1, <1>2, <1>3

\* The booths that do not change are the same to the raffle.
LEMMA BoothStays ==
    ASSUME NEW id \in BoothIds, id \in DOMAIN booths <=> id \in DOMAIN booths',
           id \in DOMAIN booths =>
               /\ booths'[id].owner = booths[id].owner
               /\ booths'[id].currency = booths[id].currency
               /\ booths'[id].price = booths[id].price
               /\ booths'[id].nft_contract = booths[id].nft_contract
    PROVE  /\ termsBar'[id] = termsBar[id]
           /\ BoxesOf(id)' = BoxesOf(id) => stockBar'[id] = stockBar[id]
<1>1. termsBar'[id] = termsBar[id]
  BY DEF termsBar
<1>2. ASSUME BoxesOf(id)' = BoxesOf(id) PROVE stockBar'[id] = stockBar[id]
  <2>1. \A n : BoxOf(id, n)' = BoxOf(id, n)
    BY <1>2 DEF BoxOf
  <2> HIDE DEF BoxOf
  <2> QED BY <2>1 DEF stockBar
<1> QED BY <1>1, <1>2

\* What the raffle knows of a booth.
LEMMA BoothIs ==
    ASSUME NEW id \in BoothIds
    PROVE  /\ id \in DOMAIN booths =>
                 termsBar[id] = {[owner |-> booths[id].owner,
                                  coin |-> <<"money", booths[id].currency>>,
                                  price |-> booths[id].price]}
           /\ id \notin DOMAIN booths => termsBar[id] = {}
           /\ stockBar[id] = [g \in Goods |-> stockBar[id][g]]
           /\ \A g \in Goods : stockBar[id][g] =
                 IF id \in DOMAIN booths /\ booths[id].nft_contract = g[2][1]
                 THEN BoxOf(id, g[2][2]) ELSE 0
BY DEF termsBar, stockBar

\* What the box of n has after a step.
BoxNext(id, n) ==
    IF id \in DOMAIN boothboxes' THEN Amount(boothboxes'[id], n) ELSE 0

\* The stock of a booth after a step.
LEMMA StockNext ==
    ASSUME NEW id \in BoothIds
    PROVE  /\ stockBar'[id] = [g \in Goods |-> stockBar'[id][g]]
           /\ \A g \in Goods : stockBar'[id][g] =
                 IF id \in DOMAIN booths' /\ booths'[id].nft_contract = g[2][1]
                 THEN BoxNext(id, g[2][2]) ELSE 0
<1>1. stockBar'[id] = [g \in Goods |-> stockBar'[id][g]]
  BY DEF stockBar
<1>2. ASSUME NEW n PROVE BoxOf(id, n)' = BoxNext(id, n)
  BY DEF BoxOf, BoxesOf, EmptyTable, BoxNext, Amount
<1>3. ASSUME NEW g \in Goods
      PROVE  stockBar'[id][g] =
                 IF id \in DOMAIN booths' /\ booths'[id].nft_contract = g[2][1]
                 THEN BoxNext(id, g[2][2]) ELSE 0
  <2> DEFINE n == g[2][2]
  <2>1. stockBar'[id][g] =
            IF id \in DOMAIN booths' /\ booths'[id].nft_contract = g[2][1] THEN BoxOf(id, n)' ELSE 0
    BY DEF stockBar
  <2>2. BoxOf(id, n)' = BoxNext(id, n)
    BY <1>2
  <2> QED BY <2>1, <2>2
<1> QED BY <1>1, <1>3

\* Terms and stock of one booth change.
LEMMA OneBooth ==
    ASSUME NEW id \in BoothIds,
           \A j \in BoothIds \ {id} : termsBar'[j] = termsBar[j] /\ stockBar'[j] = stockBar[j]
    PROVE  /\ termsBar' = [termsBar EXCEPT ![id] = termsBar'[id]]
           /\ stockBar' = [stockBar EXCEPT ![id] = stockBar'[id]]
<1>1. /\ termsBar = [j \in BoothIds |-> termsBar[j]] /\ termsBar' = [j \in BoothIds |-> termsBar'[j]]
      /\ stockBar = [j \in BoothIds |-> stockBar[j]] /\ stockBar' = [j \in BoothIds |-> stockBar'[j]]
  BY DEF termsBar, stockBar
<1>2. \A j \in BoothIds \ {id} : termsBar'[j] = termsBar[j] /\ stockBar'[j] = stockBar[j]
  OBVIOUS
<1> HIDE DEF termsBar, stockBar
<1> QED BY <1>1, <1>2

\* Nothing of what the raffle promises changes.
LEMMA NothingMoves ==
    ASSUME TypeOK, UNCHANGED <<boothboxes, money, nft, touched>>,
           gstate'.last_booth_id = gstate.last_booth_id, DOMAIN booths' = DOMAIN booths,
           \A id \in DOMAIN booths : /\ booths'[id].owner = booths[id].owner
                                     /\ booths'[id].currency = booths[id].currency
                                     /\ booths'[id].price = booths[id].price
                                     /\ booths'[id].nft_contract = booths[id].nft_contract
    PROVE  UNCHANGED AsRaffle!promised
<1>1. \A id : BoxesOf(id)' = BoxesOf(id)
  BY DEF BoxesOf
<1>2. \A id \in BoothIds : termsBar'[id] = termsBar[id] /\ stockBar'[id] = stockBar[id]
  BY <1>1, BoothStays
<1>3. termsBar' = termsBar /\ stockBar' = stockBar
  <2>1. /\ termsBar = [j \in BoothIds |-> termsBar[j]] /\ termsBar' = [j \in BoothIds |-> termsBar'[j]]
        /\ stockBar = [j \in BoothIds |-> stockBar[j]] /\ stockBar' = [j \in BoothIds |-> stockBar'[j]]
    BY DEF termsBar, stockBar
  <2> HIDE DEF termsBar, stockBar
  <2> QED BY <1>2, <2>1
<1>4. tillBar' = tillBar /\ purseBar' = purseBar /\ usedBar' = usedBar
  BY DEF tillBar, purseBar, usedBar
<1> QED BY <1>3, <1>4 DEF AsRaffle!promised

\* A new booth is opened.
LEMMA CreateOpens ==
    ASSUME MartInv, NEW u \in Owners, NEW b \in NftBanks, NEW c \in Currencies, NEW p \in Prices,
           NEW o \in Openings, NEW d \in Durations, createbooth(u, b, c, p, o, d)
    PROVE  AsRaffle!Step
<1> DEFINE id == gstate.last_booth_id + 1
           row == [owner |-> u, nft_contract |-> b, currency |-> c, price |-> p, fund_recd |-> 0,
                   nft_box_num |-> 0, nft_num |-> 0, nft_num_sum |-> 0, status |-> "enabled",
                   opened_at |-> o, closed_at |-> o + d]
           t == [owner |-> u, coin |-> <<"money", c>>, price |-> p]
<1>1. /\ id \in BoothIds /\ booths' = Emplace(booths, id, row)
      /\ gstate' = [gstate EXCEPT !.last_booth_id = id]
      /\ UNCHANGED <<boothboxes, money, nft>>
  BY DEF createbooth
<1>2. /\ gstate \in [max_booth_boxes : Nat, last_booth_id : Nat]
      /\ DOMAIN booths \subseteq usedBar /\ DOMAIN boothboxes \subseteq DOMAIN booths
  BY DEF MartInv, TypeOK, IsTable, usedBar
<1>3. id \notin usedBar /\ usedBar' = usedBar \cup {id}
  BY <1>1, <1>2 DEF usedBar
<1>4. row.owner = u /\ row.currency = c /\ row.price = p
  OBVIOUS
<1> HIDE DEF row, id
<1>5. /\ id \notin DOMAIN booths /\ DOMAIN booths' = DOMAIN booths \cup {id} /\ booths'[id] = row
      /\ \A j \in DOMAIN booths : booths'[j] = booths[j]
  BY <1>1, <1>2, <1>3 DEF Emplace
<1>6. \A j : BoxesOf(j)' = BoxesOf(j)
  BY <1>1 DEF BoxesOf
<1>7. termsBar'[id] = {t}
  BY <1>1, <1>4, <1>5 DEF termsBar
<1>8. stockBar'[id] = stockBar[id]
  <2>1. id \notin DOMAIN boothboxes'
    BY <1>1, <1>2, <1>5
  <2>2. \A n : BoxNext(id, n) = 0
    BY <2>1 DEF BoxNext
  <2>3. \A g \in Goods : stockBar'[id][g] = 0
    BY <1>1, <2>2, StockNext
  <2>4. \A g \in Goods : stockBar[id][g] = 0
    BY <1>1, <1>5, BoothIs
  <2>5. /\ stockBar[id] = [g \in Goods |-> stockBar[id][g]]
        /\ stockBar'[id] = [g \in Goods |-> stockBar'[id][g]]
    BY <1>1, BoothIs, StockNext
  <2> QED BY <2>3, <2>4, <2>5
<1>9. \A j \in BoothIds \ {id} : termsBar'[j] = termsBar[j] /\ stockBar'[j] = stockBar[j]
  BY <1>5, <1>6, BoothStays
<1>10. termsBar' = [termsBar EXCEPT ![id] = {t}] /\ stockBar' = stockBar
  <2>1. stockBar = [stockBar EXCEPT ![id] = stockBar[id]]
    BY DEF stockBar
  <2> HIDE DEF t
  <2> QED BY <1>1, <1>7, <1>8, <1>9, <2>1, OneBooth
<1>11. tillBar' = tillBar /\ purseBar' = purseBar
  BY <1>1 DEF tillBar, purseBar
<1>12. AsRaffle!Open(u, <<"money", c>>, p, id)
  BY <1>3, <1>10, <1>11 DEF AsRaffle!Open
<1>13. u \in Users /\ <<"money", c>> \in Money
  BY MartAccounts, Assets
<1> QED BY <1>1, <1>12, <1>13 DEF AsRaffle!Step

\* NFTs that come in fill the booth.
LEMMA RefuelFills ==
    ASSUME OrderedSymbols, MartInv, NEW u \in Owners, NEW b \in NftBanks, NEW s \in Batches,
           NEW id \in BoothIds, on_transfer_ntoken(u, b, s, id)
    PROVE  AsRaffle!Step
<1>0. TypeOK
  BY DEF MartInv
<1>1. PICK missed : Refuels(u, b, s, id, missed)
  BY <1>0, BatchRefuels
<1> DEFINE old == BoxesOf(id)
           new == Refill(old, s, {})
           r == booths[id]
           t == [owner |-> u, coin |-> <<"money", r.currency>>, price |-> r.price]
           bag == [g \in Goods |-> stockBar'[id][g] - stockBar[id][g]]
<1>2. /\ id \in DOMAIN booths /\ r \in BoothRow /\ r.nft_contract = b /\ r.owner = u
      /\ IsBoxes(old) /\ IsBoxes(s) /\ SumFunction(s) \in Nat
      /\ missed \subseteq MayMiss(DOMAIN old \cup DOMAIN s) /\ Moved(b, u, Mart, s)
      /\ boothboxes' = Emplace(boothboxes, id, Refill(old, s, missed))
      /\ UNCHANGED <<gstate, money>>
  BY <1>1 DEF Refuels
<1>3. missed = {}
  <2>1. DOMAIN old \cup DOMAIN s \subseteq Symbols
    BY <1>2 DEF IsBoxes, IsTable
  <2> QED BY <1>2, <2>1, NoneMissed
<1>4. BoxesOf(id)' = new /\ \A j : j # id => BoxesOf(j)' = BoxesOf(j)
  BY <1>2, <1>3 DEF BoxesOf, Emplace
<1>5. \A n : Amount(new, n) = Amount(old, n) + Amount(s, n) /\ Amount(s, n) \in Nat
             /\ Amount(old, n) \in Nat
  <2>1. Together(old, s, new)
    BY <1>2, RefillAdds
  <2> QED BY <2>1 DEF Together
<1>6. \A n : BoxOf(id, n) = Amount(old, n) /\ BoxNext(id, n) = Amount(new, n)
  BY <1>2, <1>3 DEF BoxOf, BoxNext, Amount, Emplace
<1> HIDE DEF old, new
<1>7. /\ DOMAIN booths' = DOMAIN booths
      /\ \A j \in DOMAIN booths : j # id => booths'[j] = booths[j]
      /\ booths'[id].owner = u /\ booths'[id].nft_contract = b
      /\ booths'[id].currency = r.currency /\ booths'[id].price = r.price
  <2>1. Refueled(s, id, missed)
    BY <1>1, RefueledRow
  <2>2. booths'[id].owner = u
    <3> DEFINE x == r.nft_num + SumFunction(s)
               y == r.nft_num_sum + SumFunction(s)
    <3>1. PICK num : booths' = [booths EXCEPT ![id] = [r EXCEPT !.nft_box_num = num,
                                          !.nft_num = x, !.nft_num_sum = y]]
      BY <1>1 DEF Refuels
    <3> HIDE DEF x, y
    <3> QED BY <1>2, <3>1 DEF BoothRow
  <2> QED BY <1>2, <2>1, <2>2 DEF Refueled
<1>8. termsBar'[id] = termsBar[id] /\ t \in termsBar[id]
  BY <1>2, <1>7, BoothStays, BoothIs
<1>9. \A j \in BoothIds \ {id} : termsBar'[j] = termsBar[j] /\ stockBar'[j] = stockBar[j]
  BY <1>4, <1>7, BoothStays
<1>10. ASSUME NEW g \in Goods
       PROVE  bag[g] = IF g[2][1] = b THEN Amount(s, g[2][2]) ELSE 0
  <2>1. stockBar'[id][g] = IF g[2][1] = b THEN BoxNext(id, g[2][2]) ELSE 0
    <3>1. id \in DOMAIN booths' /\ booths'[id].nft_contract = b
      BY <1>2, <1>7
    <3> QED BY <3>1, StockNext
  <2>2. stockBar[id][g] = IF g[2][1] = b THEN BoxOf(id, g[2][2]) ELSE 0
    BY <1>2, BoothIs
  <2> QED BY <1>5, <1>6, <2>1, <2>2
<1>11. u \in Users /\ u \in Accounts /\ u # Mart
  BY MartAccounts DEF Accounts
<1>12. \A v \in Users, g \in Goods :
          purseBar'[v][g] = purseBar[v][g] - (IF v = u THEN bag[g] ELSE 0)
  <2> TAKE v \in Users, g \in Goods
  <2>1. nft'[v][g[2][1]][g[2][2]] = nft[v][g[2][1]][g[2][2]]
           + (IF g[2][1] = b /\ g[2][2] \in DOMAIN s THEN Gain(v, u, Mart, s[g[2][2]]) ELSE 0)
    BY <1>2, Assets DEF Moved, Accounts
  <2>2. v # Mart /\ nft[v][g[2][1]][g[2][2]] \in Nat
    BY <1>0, MartAccounts, Assets DEF TypeOK, Accounts
  <2>3. (IF g[2][1] = b /\ g[2][2] \in DOMAIN s THEN Gain(v, u, Mart, s[g[2][2]]) ELSE 0)
            = 0 - (IF v = u THEN bag[g] ELSE 0)
    <3>1. bag[g] = IF g[2][1] = b /\ g[2][2] \in DOMAIN s THEN s[g[2][2]] ELSE 0
      BY <1>10 DEF Amount
    <3>2. g[2][2] \in DOMAIN s => s[g[2][2]] \in Nat
      BY <1>2 DEF Moved
    <3> HIDE DEF bag
    <3> QED BY <2>2, <3>1, <3>2 DEF Gain
  <2>4. (IF v = u THEN bag[g] ELSE 0) \in Int
    BY <1>5, <1>10
  <2> HIDE DEF bag
  <2> QED BY <2>1, <2>2, <2>3, <2>4, Purses
<1>13. \A v \in Users, c \in Money : purseBar'[v][c] = purseBar[v][c]
  BY <1>2, Purses
<1>14. \A g \in Goods : bag[g] \in 0 .. purseBar[u][g]
  <2> TAKE g \in Goods
  <2>1. purseBar[u][g] \in Nat
    BY <1>0, <1>11, Purses, Assets DEF TypeOK
  <2>2. purseBar'[u][g] \in Nat
    BY <1>2, <1>11, Purses, Assets DEF Moved
  <2>3. bag[g] \in Nat
    BY <1>5, <1>10
  <2> HIDE DEF bag
  <2> QED BY <1>11, <1>12, <2>1, <2>2, <2>3
<1>15. purseBar' = [purseBar EXCEPT ![u] =
           [a \in Goods \cup Money |-> purseBar[u][a] - AsRaffle!Of(bag, a)]]
  <2> DEFINE p == [a \in Goods \cup Money |-> purseBar[u][a] - AsRaffle!Of(bag, a)]
  <2>0. DOMAIN bag = Goods
    OBVIOUS
  <2> HIDE DEF bag
  <2>1. \A g \in Goods : AsRaffle!Of(bag, g) = bag[g]
    BY <2>0 DEF AsRaffle!Of
  <2>2. \A c \in Money : AsRaffle!Of(bag, c) = 0 /\ purseBar[u][c] \in Nat
    BY <1>0, <1>11, <2>0, Assets, Purses DEF AsRaffle!Of, TypeOK
  <2>3. \A a \in Goods \cup Money : purseBar'[u][a] = p[a]
    BY <1>11, <1>12, <1>13, <2>1, <2>2
  <2>4. \A v \in Users \ {u} : \A a \in Goods \cup Money : purseBar'[v][a] = purseBar[v][a]
    <3>1. \A v \in Users, g \in Goods : purseBar[v][g] \in Nat
      BY <1>0, Purses, Assets DEF TypeOK, Accounts
    <3> QED BY <1>12, <1>13, <3>1
  <2>5. p = [a \in Goods \cup Money |-> p[a]]
    OBVIOUS
  <2> HIDE DEF p
  <2> QED BY <1>11, <2>3, <2>4, <2>5, PurseBecomes DEF p
<1>16. tillBar' = tillBar /\ usedBar' = usedBar
  BY <1>2 DEF tillBar, usedBar
<1>17. AsRaffle!Fill(id)
  <2>1. termsBar' = termsBar /\ stockBar' = [stockBar EXCEPT ![id] = stockBar'[id]]
    <3>1. termsBar = [termsBar EXCEPT ![id] = termsBar[id]]
      BY DEF termsBar
    <3> QED BY <1>8, <1>9, <3>1, OneBooth
  <2>2. t.owner = u
    OBVIOUS
  <2> HIDE DEF t
  <2> QED BY <1>8, <1>14, <1>15, <1>16, <2>1, <2>2 DEF AsRaffle!Fill
<1> QED BY <1>17 DEF AsRaffle!Step

\* A purchase is a draw.
LEMMA SaleDraws ==
    ASSUME MartInv, BoxInv, touched = {}, NEW u \in Users, NEW c \in Currencies,
           NEW q \in Payments, NEW id \in BoothIds, _transfer_token(u, c, q, id)
    PROVE  AsRaffle!Step
<1>0. TypeOK
  BY DEF MartInv
<1>1. PICK k \in Nat, paid \in Nat : \E draw : Sells(u, id, k, paid, draw)
  BY <1>0, TransferSells
<1>2. PICK draw : Sells(u, id, k, paid, draw)
  BY <1>1
<1> DEFINE old == boothboxes[id]
           new == draw.boxes
           got == draw.bought
           r == booths[id]
           coin == <<"money", r.currency>>
           t == [owner |-> r.owner, coin |-> coin, price |-> r.price]
           bag == [g \in Goods |-> stockBar[id][g] - stockBar'[id][g]]
           bar == [g \in Goods |-> IF g[2][1] = r.nft_contract THEN got[g[2][2]] ELSE 0]
<1>3. /\ id \in DOMAIN booths /\ id \in DOMAIN boothboxes /\ r \in BoothRow
      /\ k \in 1 .. r.nft_num /\ paid = r.price * k
      /\ IsBoxes(old) /\ IsBoxes(new) /\ got \in [Symbols -> Nat] /\ Sum(got, Symbols) = k
      /\ boothboxes' = [boothboxes EXCEPT ![id] = new] /\ UNCHANGED gstate
      /\ money' \in [Accounts -> [Currencies -> Nat]]
      /\ nft' \in [Accounts -> [NftBanks -> [Symbols -> Nat]]]
  BY <1>2 DEF Sells, Drawn
<1>4. /\ \A a \in Accounts, e \in Currencies :
            money'[a][e] = money[a][e]
                + (IF e = r.currency THEN Gain(a, u, Distributor, paid) ELSE 0)
      /\ \A a \in Accounts, b \in NftBanks, n \in Symbols :
            nft'[a][b][n] = nft[a][b][n]
                + (IF b = r.nft_contract THEN Gain(a, Mart, u, got[n]) ELSE 0)
  BY <1>2 DEF Sells
<1>5. /\ BoxesOf(id) = old /\ BoxesOf(id)' = new
      /\ \A j : j # id => BoxesOf(j)' = BoxesOf(j)
  BY <1>3 DEF BoxesOf
<1>6. \A n \in Symbols : /\ BoxOf(id, n) - BoxNext(id, n) = got[n]
                         /\ got[n] \in Nat /\ BoxOf(id, n) \in Nat /\ BoxNext(id, n) \in Nat
  <2> TAKE n \in Symbols
  <2>1. Full(old, r.nft_num)
    <3>1. Counted(r, old)
      BY <1>3, <1>5, CountersAre DEF BoxInv, AllCounted, Intact
    <3> QED BY <3>1 DEF Counted, Full
  <2>2. Amount(new, n) + got[n] = Amount(old, n)
    BY <1>2, <2>1 DEF Sells, Drawn
  <2>3. Amount(new, n) \in Nat /\ Amount(old, n) \in Nat /\ got[n] \in Nat
    BY <1>3 DEF Amount, IsBoxes, IsTable
  <2>4. BoxOf(id, n) = Amount(old, n) /\ BoxNext(id, n) = Amount(new, n)
    BY <1>3, <1>5 DEF BoxOf, BoxNext, Amount
  <2> HIDE DEF old, new, got
  <2> QED BY <2>2, <2>3, <2>4
<1>7. /\ DOMAIN booths' = DOMAIN booths
      /\ \A j \in DOMAIN booths : j # id => booths'[j] = booths[j]
      /\ booths'[id].owner = r.owner /\ booths'[id].nft_contract = r.nft_contract
      /\ booths'[id].currency = r.currency /\ booths'[id].price = r.price
  <2>1. Sold(id, k, paid, draw)
    BY <1>2, SoldRow
  <2>2. booths'[id].owner = r.owner
    <3> DEFINE x == r.fund_recd + paid
               y == r.nft_num - k
    <3>1. PICK num : booths' = [booths EXCEPT ![id].fund_recd = x, ![id].nft_num = y,
                                              ![id].nft_box_num = num]
      BY <1>2 DEF Sells
    <3> HIDE DEF x, y
    <3> QED BY <1>3, <3>1 DEF BoothRow
  <2> QED BY <2>1, <2>2 DEF Sold
<1> HIDE DEF old, new, got
<1>8. termsBar'[id] = termsBar[id] /\ t \in termsBar[id]
  BY <1>3, <1>7, BoothStays, BoothIs
<1>9. \A j \in BoothIds \ {id} : termsBar'[j] = termsBar[j] /\ stockBar'[j] = stockBar[j]
  BY <1>5, <1>7, BoothStays
<1>10. bag = bar /\ \A g \in Goods : /\ bag[g] \in Nat /\ stockBar[id][g] - bag[g] \in Nat
                                     /\ stockBar[id][g] \in Nat
  <2>1. ASSUME NEW g \in Goods
        PROVE  /\ stockBar[id][g] - stockBar'[id][g] = bar[g] /\ bar[g] \in Nat
               /\ stockBar[id][g] \in Nat /\ stockBar'[id][g] \in Nat
    <3>1. stockBar'[id][g] = IF g[2][1] = r.nft_contract THEN BoxNext(id, g[2][2]) ELSE 0
      <4>1. id \in DOMAIN booths' /\ booths'[id].nft_contract = r.nft_contract
        BY <1>3, <1>7
      <4> QED BY <4>1, StockNext
    <3>2. stockBar[id][g] = IF g[2][1] = r.nft_contract THEN BoxOf(id, g[2][2]) ELSE 0
      BY <1>3, BoothIs
    <3>3. bar[g] = IF g[2][1] = r.nft_contract THEN got[g[2][2]] ELSE 0
      OBVIOUS
    <3>4. g[2][2] \in Symbols
      BY Assets
    <3> HIDE DEF bar
    <3> QED BY <1>6, <3>1, <3>2, <3>3, <3>4
  <2>2. bag = bar
    BY <2>1
  <2>3. \A g \in Goods : bag[g] = stockBar[id][g] - stockBar'[id][g]
    OBVIOUS
  <2> HIDE DEF bag, bar
  <2> QED BY <2>1, <2>2, <2>3
<1>11. AsRaffle!SumFunction(bag) = k
  <2>1. (\A n \in Symbols : got[n] \in Int) /\ r.nft_contract \in NftBanks
    BY <1>3 DEF BoothRow
  <2>2. DOMAIN bar = Goods
        /\ \A g \in Goods : bar[g] = IF g[2][1] = r.nft_contract THEN got[g[2][2]] ELSE 0
    OBVIOUS
  <2> HIDE DEF bar
  <2>3. AsRaffle!SumFunction(bar) = Sum(got, Symbols)
    BY <2>1, <2>2, BagSum
  <2> HIDE DEF bag
  <2> QED BY <1>3, <1>10, <2>3
<1>12. \A v \in Users, g \in Goods :
          purseBar'[v][g] = purseBar[v][g] + (IF v = u THEN bag[g] ELSE 0)
  <2> TAKE v \in Users, g \in Goods
  <2>1. nft'[v][g[2][1]][g[2][2]] = nft[v][g[2][1]][g[2][2]]
           + (IF g[2][1] = r.nft_contract THEN Gain(v, Mart, u, got[g[2][2]]) ELSE 0)
    BY <1>4, Assets DEF Accounts
  <2>2. v # Mart /\ nft[v][g[2][1]][g[2][2]] \in Nat /\ got[g[2][2]] \in Nat
    <3>1. v \in Accounts /\ v # Mart /\ g[2][1] \in NftBanks /\ g[2][2] \in Symbols
      BY MartAccounts, Assets DEF Accounts
    <3>2. nft \in [Accounts -> [NftBanks -> [Symbols -> Nat]]]
      BY <1>0 DEF TypeOK
    <3>3. got[g[2][2]] \in Nat
      BY <1>3, <3>1
    <3> HIDE DEF bag, bar, t, coin
    <3> QED BY <3>1, <3>2, <3>3
  <2>3. bag[g] = IF g[2][1] = r.nft_contract THEN got[g[2][2]] ELSE 0
    BY <1>10
  <2>4. (IF g[2][1] = r.nft_contract THEN Gain(v, Mart, u, got[g[2][2]]) ELSE 0)
            = IF v = u THEN bag[g] ELSE 0
    <3> HIDE DEF bag
    <3> QED BY <2>2, <2>3 DEF Gain
  <2> HIDE DEF bag
  <2> QED BY <2>1, <2>4, Purses
<1>13. \A v \in Users, e \in Money :
          purseBar'[v][e] = purseBar[v][e] - (IF v = u /\ e = coin THEN paid ELSE 0)
  <2> TAKE v \in Users, e \in Money
  <2>1. money'[v][e[2]] = money[v][e[2]]
           + (IF e[2] = r.currency THEN Gain(v, u, Distributor, paid) ELSE 0)
    BY <1>4, Assets DEF Accounts
  <2>2. v # Distributor /\ money[v][e[2]] \in Nat
    BY <1>0, MartAccounts, Assets DEF TypeOK, Accounts
  <2>3. e = coin <=> e[2] = r.currency
    BY Assets
  <2>4. (IF e[2] = r.currency THEN Gain(v, u, Distributor, paid) ELSE 0)
            = 0 - (IF v = u /\ e = coin THEN paid ELSE 0)
    BY <2>2, <2>3 DEF Gain
  <2> HIDE DEF coin
  <2> QED BY <2>1, <2>2, <2>4, Purses
<1>14. coin \in Money /\ coin[2] = r.currency /\ r.currency \in Currencies
  BY <1>3, Assets DEF BoothRow
<1>15. paid \in 1 .. purseBar[u][coin]
  <2>1. paid >= 1
    <3>1. r.price \in Prices /\ r.nft_num \in Nat
      BY <1>3 DEF BoothRow
    <3>2. r.price \in Nat \ {0}
      BY <3>1, MartInputs
    <3>3. k \in Nat \ {0}
      BY <1>3, <3>1
    <3>4. 1 * k <= r.price * k /\ r.price * k \in Nat
      <4> HIDE DEF r
      <4> QED BY <3>2, <3>3, TimesMonotone
    <3> QED BY <1>3, <3>3, <3>4
  <2>2. purseBar[u][coin] \in Nat /\ purseBar'[u][coin] \in Nat
    BY <1>0, <1>3, <1>14, Purses DEF TypeOK, Accounts
  <2>3. purseBar'[u][coin] = purseBar[u][coin] - paid
    BY <1>13, <1>14
  <2> HIDE DEF coin
  <2> QED BY <2>1, <2>2, <2>3
<1>16. tillBar' = [tillBar EXCEPT ![coin] = @ + paid]
  <2>1. ASSUME NEW e \in Money
        PROVE  tillBar'[e] = tillBar[e] + (IF e = coin THEN paid ELSE 0)
    <3>1. money'[Distributor][e[2]] = money[Distributor][e[2]]
             + (IF e[2] = r.currency THEN Gain(Distributor, u, Distributor, paid) ELSE 0)
      BY <1>4, Assets DEF Accounts
    <3>2. e = coin <=> e[2] = r.currency
      BY Assets
    <3>3. Gain(Distributor, u, Distributor, paid) = paid
      BY MartAccounts DEF Gain
    <3>4. tillBar[e] = money[Distributor][e[2]] /\ tillBar'[e] = money'[Distributor][e[2]]
      BY DEF tillBar
    <3> QED BY <3>1, <3>2, <3>3, <3>4
  <2>2. \A e \in Money : tillBar[e] \in Nat
    BY <1>0, Assets DEF tillBar, TypeOK, Accounts
  <2>3. tillBar = [e \in Money |-> tillBar[e]] /\ tillBar' = [e \in Money |-> tillBar'[e]]
    BY DEF tillBar
  <2> HIDE DEF coin, tillBar
  <2>4. \A e \in Money : tillBar'[e] = [tillBar EXCEPT ![coin] = @ + paid][e]
    BY <1>14, <2>1, <2>2, <2>3
  <2>5. DOMAIN tillBar = Money /\ DOMAIN tillBar' = Money
    BY <2>3
  <2> QED BY <2>3, <2>4, <2>5
<1>17. purseBar' = [purseBar EXCEPT ![u] =
           [a \in Goods \cup Money |->
               purseBar[u][a] - (IF a = coin THEN paid ELSE 0) + AsRaffle!Of(bag, a)]]
  <2> DEFINE p == [a \in Goods \cup Money |->
                     purseBar[u][a] - (IF a = coin THEN paid ELSE 0) + AsRaffle!Of(bag, a)]
  <2>0. DOMAIN bag = Goods
    OBVIOUS
  <2> HIDE DEF bag, coin
  <2>1. \A g \in Goods : /\ AsRaffle!Of(bag, g) = bag[g] /\ g # coin
                         /\ \A v \in Users : purseBar[v][g] \in Nat
    BY <1>0, <1>14, <2>0, Assets, Purses DEF AsRaffle!Of, TypeOK, Accounts
  <2>2. \A e \in Money : /\ AsRaffle!Of(bag, e) = 0
                         /\ \A v \in Users : purseBar[v][e] \in Nat
    BY <1>0, <2>0, Assets, Purses DEF AsRaffle!Of, TypeOK, Accounts
  <2>3. \A a \in Goods \cup Money : purseBar'[u][a] = p[a]
    <3>1. ASSUME NEW g \in Goods PROVE purseBar'[u][g] = p[g]
      BY <1>10, <1>12, <2>1
    <3>2. ASSUME NEW e \in Money PROVE purseBar'[u][e] = p[e]
      BY <1>13, <2>2
    <3> HIDE DEF p
    <3> QED BY <3>1, <3>2
  <2>4. \A v \in Users \ {u} : \A a \in Goods \cup Money : purseBar'[v][a] = purseBar[v][a]
    BY <1>12, <1>13, <2>1, <2>2
  <2>5. p = [a \in Goods \cup Money |-> p[a]]
    OBVIOUS
  <2> HIDE DEF p
  <2> QED BY <2>3, <2>4, <2>5, PurseBecomes DEF p
<1>18. AsRaffle!Draw(u, id)
  <2>1. termsBar' = termsBar /\ stockBar' = [stockBar EXCEPT ![id] = stockBar'[id]]
    <3>1. termsBar = [termsBar EXCEPT ![id] = termsBar[id]]
      BY DEF termsBar
    <3> QED BY <1>8, <1>9, <3>1, OneBooth
  <2>2. t.coin = coin /\ t.price = r.price
    OBVIOUS
  <2>3. \A g \in Goods : bag[g] \in 0 .. stockBar[id][g]
    <3> HIDE DEF bag
    <3> QED BY <1>10
  <2>4. t.price * AsRaffle!SumFunction(bag) = paid
    <3> HIDE DEF bag, t
    <3> QED BY <1>3, <1>11, <2>2
  <2>5. usedBar' = usedBar
    BY <1>3 DEF usedBar
  <2> HIDE DEF t, coin
  <2> QED BY <1>8, <1>15, <1>16, <1>17, <2>1, <2>2, <2>3, <2>4, <2>5 DEF AsRaffle!Draw
<1> QED BY <1>18 DEF AsRaffle!Step

\* A booth that closes gives back its stock.
LEMMA CloseGivesBack ==
    ASSUME MartInv, NEW id \in BoothIds, closebooth(id)
    PROVE  AsRaffle!Step
<1>0. TypeOK
  BY DEF MartInv
<1> DEFINE r == booths[id]
           s == boothboxes[id]
           bank == r.nft_contract
           owner == r.owner
           t == [owner |-> owner, coin |-> <<"money", r.currency>>, price |-> r.price]
           bag == stockBar[id]
<1>1. /\ id \in DOMAIN booths /\ id \in DOMAIN boothboxes /\ NftMoves(bank, Mart, owner, s)
      /\ booths' = Erase(booths, {id}) /\ boothboxes' = Erase(boothboxes, {id})
      /\ UNCHANGED <<gstate, money>>
  BY DEF closebooth, BoxesWithout
<1>2. r \in BoothRow /\ DOMAIN s \subseteq Symbols
  BY <1>0, <1>1 DEF TypeOK, IsTable
<1>3. /\ bank \in NftBanks /\ owner \in Users /\ owner \in Accounts /\ Mart \in Accounts
      /\ \A v \in Users : v # Mart /\ v \in Accounts
  BY <1>2, MartAccounts DEF BoothRow, Accounts
<1>4. Moved(bank, Mart, owner, s)
  <2>1. nft \in [Accounts -> [NftBanks -> [Symbols -> Nat]]]
    BY <1>0 DEF TypeOK
  <2> HIDE DEF bank, owner, s
  <2> QED BY <1>1, <1>2, <1>3, <2>1, NftsMoved
<1>5. /\ DOMAIN booths' = DOMAIN booths \ {id} /\ \A j \in DOMAIN booths' : booths'[j] = booths[j]
      /\ \A j : j # id => BoxesOf(j)' = BoxesOf(j)
      /\ BoxesOf(id) = s
  BY <1>1 DEF Erase, BoxesOf
<1>6. termsBar'[id] = {} /\ stockBar'[id] = AsRaffle!NoGoods
  BY <1>5 DEF termsBar, stockBar, AsRaffle!NoGoods
<1>7. t \in termsBar[id] /\ t.owner = owner
  <2>1. t \in termsBar[id]
    <3>1. id \in DOMAIN booths
      BY <1>1
    <3>2. termsBar[id] = {t}
      BY <3>1, BoothIs
    <3> HIDE DEF t
    <3> QED BY <3>2
  <2> QED BY <2>1
<1>8. \A j \in BoothIds \ {id} : termsBar'[j] = termsBar[j] /\ stockBar'[j] = stockBar[j]
  BY <1>5, BoothStays
<1>9. DOMAIN bag = Goods /\ \A g \in Goods :
         /\ bag[g] = (IF g[2][1] = bank /\ g[2][2] \in DOMAIN s THEN s[g[2][2]] ELSE 0)
         /\ bag[g] \in Nat
  <2>1. /\ bag = [g \in Goods |-> bag[g]]
        /\ \A g \in Goods : bag[g] = IF bank = g[2][1] THEN BoxOf(id, g[2][2]) ELSE 0
    BY <1>1, BoothIs
  <2>2. \A n : BoxOf(id, n) = (IF n \in DOMAIN s THEN s[n] ELSE 0) /\ BoxOf(id, n) \in Nat
    BY <1>0, <1>5, BoxesTyped DEF AllBoxes, BoxOf
  <2> HIDE DEF bag, bank, s
  <2> QED BY <2>1, <2>2
<1> HIDE DEF t
<1>10. \A v \in Users, g \in Goods :
          purseBar'[v][g] = purseBar[v][g] + (IF v = owner THEN bag[g] ELSE 0)
  <2> TAKE v \in Users, g \in Goods
  <2>1. nft'[v][g[2][1]][g[2][2]] = nft[v][g[2][1]][g[2][2]]
           + (IF g[2][1] = bank /\ g[2][2] \in DOMAIN s THEN Gain(v, Mart, owner, s[g[2][2]]) ELSE 0)
    BY <1>3, <1>4, Assets DEF Moved
  <2>2. g[2][2] \in DOMAIN s => s[g[2][2]] \in Nat
    BY <1>4 DEF Moved
  <2> HIDE DEF bag, bank, s, owner
  <2>3. (IF g[2][1] = bank /\ g[2][2] \in DOMAIN s THEN Gain(v, Mart, owner, s[g[2][2]]) ELSE 0)
            = IF v = owner THEN bag[g] ELSE 0
    BY <1>3, <1>9, <2>2 DEF Gain
  <2> QED BY <2>1, <2>3, Purses
<1>11. \A v \in Users, c \in Money : purseBar'[v][c] = purseBar[v][c]
  BY <1>1, Purses
<1>12. purseBar' = [purseBar EXCEPT ![owner] =
           [a \in Goods \cup Money |-> purseBar[owner][a] + AsRaffle!Of(bag, a)]]
  <2> DEFINE p == [a \in Goods \cup Money |-> purseBar[owner][a] + AsRaffle!Of(bag, a)]
  <2> HIDE DEF bag, owner
  <2>1. \A g \in Goods : /\ AsRaffle!Of(bag, g) = bag[g]
                         /\ \A v \in Users : purseBar[v][g] \in Nat
    BY <1>0, <1>9, Assets, Purses DEF AsRaffle!Of, TypeOK, Accounts
  <2>2. \A e \in Money : /\ AsRaffle!Of(bag, e) = 0
                         /\ \A v \in Users : purseBar[v][e] \in Nat
    BY <1>0, <1>9, Assets, Purses DEF AsRaffle!Of, TypeOK, Accounts
  <2>3. \A a \in Goods \cup Money : purseBar'[owner][a] = p[a]
    BY <1>3, <1>10, <1>11, <2>1, <2>2
  <2>4. \A v \in Users \ {owner} : \A a \in Goods \cup Money : purseBar'[v][a] = purseBar[v][a]
    BY <1>10, <1>11, <2>1, <2>2
  <2>5. p = [a \in Goods \cup Money |-> p[a]]
    OBVIOUS
  <2> HIDE DEF p
  <2> QED BY <1>3, <2>3, <2>4, <2>5, PurseBecomes DEF p
<1>13. tillBar' = tillBar /\ usedBar' = usedBar
  BY <1>1 DEF tillBar, usedBar
<1>14. /\ termsBar' = [termsBar EXCEPT ![id] = {}]
       /\ stockBar' = [stockBar EXCEPT ![id] = AsRaffle!NoGoods]
  BY <1>6, <1>8, OneBooth
<1> HIDE DEF owner
<1>15. AsRaffle!Close(id)
  BY <1>7, <1>12, <1>13, <1>14 DEF AsRaffle!Close
<1> QED BY <1>15 DEF AsRaffle!Step

\* Every step of the sale is one of the raffle, or nothing to it.
LEMMA RaffleSteps ==
    ASSUME OrderedSymbols, MartInv, BoxInv, [Next]_vars
    PROVE  [AsRaffle!Next]_AsRaffle!vars
<1>0. TypeOK
  BY DEF MartInv
<1>1. ASSUME touched = {}, touched' = {}
      PROVE  UNCHANGED AsRaffle!promised \/ AsRaffle!Step
  <2>1. CASE Manage
    <3>1. ASSUME NEW id \in BoothIds, NEW s \in {"enabled", "disabled"}, enablebooth(id, s)
          PROVE  UNCHANGED AsRaffle!promised
      <4>1. /\ id \in DOMAIN booths /\ booths' = [booths EXCEPT ![id].status = s]
            /\ UNCHANGED <<gstate, boothboxes, money, nft, touched>>
        BY <3>1 DEF enablebooth
      <4>2. booths[id] \in BoothRow
        BY <1>0, <4>1 DEF TypeOK, IsTable
      <4>3. \A i \in DOMAIN booths : /\ booths'[i].owner = booths[i].owner
                                     /\ booths'[i].currency = booths[i].currency
                                     /\ booths'[i].price = booths[i].price
                                     /\ booths'[i].nft_contract = booths[i].nft_contract
        BY <4>1, <4>2 DEF BoothRow
      <4> QED BY <1>0, <4>1, <4>3, NothingMoves
    <3>2. ASSUME NEW id \in BoothIds, NEW t \in BoothTimes, setboothtime(id, t[1], t[2])
          PROVE  UNCHANGED AsRaffle!promised
      <4>1. /\ id \in DOMAIN booths
            /\ booths' = [booths EXCEPT ![id].opened_at = t[1], ![id].closed_at = t[2]]
            /\ UNCHANGED <<gstate, boothboxes, money, nft, touched>>
        BY <3>2 DEF setboothtime
      <4>2. booths[id] \in BoothRow
        BY <1>0, <4>1 DEF TypeOK, IsTable
      <4>3. \A i \in DOMAIN booths : /\ booths'[i].owner = booths[i].owner
                                     /\ booths'[i].currency = booths[i].currency
                                     /\ booths'[i].price = booths[i].price
                                     /\ booths'[i].nft_contract = booths[i].nft_contract
        BY <4>1, <4>2 DEF BoothRow
      <4> QED BY <1>0, <4>1, <4>3, NothingMoves
    <3> QED BY <2>1, <3>1, <3>2, CreateOpens, CloseGivesBack DEF Manage
  <2>2. CASE Trade
    BY <1>1, <2>2, RefuelFills, SaleDraws DEF Trade
  <2>3. CASE Maintain
    <3>1. ASSUME NEW m \in MaxBoxes, setmaxbox(m) PROVE UNCHANGED AsRaffle!promised
      <4>1. gstate'.last_booth_id = gstate.last_booth_id
            /\ UNCHANGED <<booths, boothboxes, money, nft, touched>>
        BY <1>0, <3>1 DEF setmaxbox, TypeOK
      <4> QED BY <1>0, <4>1, NothingMoves
    <3>2. ASSUME NEW coin \in Coins, NEW k \in Rewards, setapl(coin, k)
          PROVE  UNCHANGED AsRaffle!promised
      BY <1>0, <3>2, NothingMoves DEF setapl
    <3>3. ASSUME NEW id \in BoothIds, NEW n \in Symbols, delboothbox(id, n) PROVE FALSE
      BY <1>1, <3>3 DEF delboothbox
    <3>4. ASSUME NEW id \in BoothIds, NEW n \in Symbols, NEW k \in FixAmounts, fixboothbox(id, n, k)
          PROVE  FALSE
      BY <1>1, <3>4 DEF fixboothbox
    <3> QED BY <2>3, <3>1, <3>2, <3>3, <3>4 DEF Maintain
  <2>4. CASE Tick
    BY <1>0, <2>4, NothingMoves DEF Tick
  <2>5. CASE UNCHANGED vars
    BY <1>0, <2>5, NothingMoves DEF vars
  <2> QED BY <2>1, <2>2, <2>3, <2>4, <2>5 DEF Next
<1>2. touched \subseteq touched'
  <2>1. CASE Manage
    BY <2>1 DEF Manage, createbooth, enablebooth, setboothtime, closebooth
  <2>2. CASE Trade
    <3>1. ASSUME NEW u, NEW b, NEW s, NEW id, on_transfer_ntoken(u, b, s, id)
          PROVE  touched' = touched
      BY <3>1 DEF on_transfer_ntoken
    <3>2. ASSUME NEW u, NEW c, NEW q, NEW id, _transfer_token(u, c, q, id) PROVE touched' = touched
      BY <3>2 DEF _transfer_token
    <3> QED BY <2>2, <3>1, <3>2 DEF Trade
  <2>3. CASE Maintain
    BY <2>3 DEF Maintain, setmaxbox, setapl, delboothbox, fixboothbox
  <2> QED BY <2>1, <2>2, <2>3 DEF Next, Tick, vars
<1> QED BY <1>1, <1>2 DEF AsRaffle!Next, AsRaffle!vars, editedBar

\* At first there is no booth.
LEMMA RaffleInit ==
    ASSUME Init
    PROVE  /\ ~ editedBar
           /\ usedBar = {}
           /\ termsBar = [k \in BoothIds |-> {}]
           /\ stockBar = [k \in BoothIds |-> AsRaffle!NoGoods]
           /\ tillBar \in [Money -> Nat]
           /\ purseBar \in [Users -> [Goods \cup Money -> Nat]]
<1>1. /\ DOMAIN booths = {} /\ money = FirstMoney /\ nft = FirstNfts /\ touched = {}
      /\ gstate.last_booth_id = 0
  BY DEF Init, EmptyTable
<1>2. /\ money \in [Accounts -> [Currencies -> Nat]]
      /\ nft \in [Accounts -> [NftBanks -> [Symbols -> Nat]]]
  BY <1>1, MartInputs
<1>3. tillBar \in [Money -> Nat]
  BY <1>2, Assets DEF tillBar, Accounts
<1>4. \A u \in Users : \A a \in Goods \cup Money : purseBar[u][a] \in Nat
  BY <1>2, Assets, Purses DEF Accounts
<1>5. purseBar \in [Users -> [Goods \cup Money -> Nat]]
  BY <1>4 DEF purseBar
<1>6. termsBar = [k \in BoothIds |-> {}]
  BY <1>1 DEF termsBar
<1>7. stockBar = [k \in BoothIds |-> AsRaffle!NoGoods]
  BY <1>1 DEF stockBar, AsRaffle!NoGoods
<1>8. editedBar = FALSE /\ usedBar = {}
  BY <1>1 DEF editedBar, usedBar
<1> QED BY <1>3, <1>5, <1>6, <1>7, <1>8

\* The sale is a raffle: from any inputs, as long as nobody edits a booth by hand, what
\* refuels, draws and closings do to rows, maps, counters and balances comes to stock that
\* is filled by its owner, drawn at its price, and given back in full
\* (rndnft.mart.cpp:29-308).
THEOREM MartImplementsRaffle ==
    ASSUME OrderedSymbols
    PROVE  Spec => ImplementsRaffle
<1>1. Spec => []MartInv
  BY MartInvariant
<1>2. Spec => []BoxInv
  BY BoxInvariant
<1>3. MartInv /\ BoxInv /\ [Next]_vars => [AsRaffle!Next]_AsRaffle!vars
  BY RaffleSteps
<1>4. Init => /\ ~ editedBar
              /\ usedBar = {}
              /\ termsBar = [k \in BoothIds |-> {}]
              /\ stockBar = [k \in BoothIds |-> AsRaffle!NoGoods]
              /\ tillBar \in [Money -> Nat]
              /\ purseBar \in [Users -> [Goods \cup Money -> Nat]]
  BY RaffleInit
<1> QED BY <1>1, <1>2, <1>3, <1>4, PTL DEF Spec, ImplementsRaffle, AsRaffle!Spec
------------------------------------------------------------------------------
(* What the booths hold can be sold and given back *)

\* The check of the NFT contract on a delivery by the mart, and what the delivery does.
CanSend(bank, s) == \A n \in DOMAIN s : s[n] \in 1 .. nft[Mart][bank][n]
Sent(bank, to, s) ==
    [a \in Accounts |->
        [nft[a] EXCEPT ![bank] =
            [n \in Symbols |->
                @[n] + (IF n \in DOMAIN s
                        THEN (IF a = to THEN s[n] ELSE 0) - (IF a = Mart THEN s[n] ELSE 0)
                        ELSE 0)]]]

LEMMA SendIs ==
    ASSUME NEW bank, NEW to, NEW s
    PROVE  NftMoves(bank, Mart, to, s) <=> CanSend(bank, s) /\ nft' = Sent(bank, to, s)
BY DEF NftMoves, CanSend, Sent

\* A booth that was filled and is enabled closes whenever its boxes can be sent.
LEMMA CloseIs ==
    ASSUME NEW id \in DOMAIN booths
    PROVE  closebooth(id) <=>
              /\ id \in DOMAIN boothboxes /\ booths[id].status = "enabled"
              /\ CanSend(booths[id].nft_contract, boothboxes[id])
              /\ nft' = Sent(booths[id].nft_contract, booths[id].owner, boothboxes[id])
              /\ booths' = Erase(booths, {id})
              /\ boothboxes' = BoxesWithout(id)
              /\ UNCHANGED <<gstate, money, now, touched, farmvars>>
BY SendIs DEF closebooth

\* The mart has what is in one booth, as it has what is in all of them.
LEMMA BoxesAreThere ==
    ASSUME TypeOK, BoxInv, touched = {}, NEW id \in DOMAIN booths, NEW n \in Symbols
    PROVE  /\ BoxOf(id, n) \in Nat
           /\ nft[Mart][booths[id].nft_contract][n] \in Nat
           /\ BoxOf(id, n) <= nft[Mart][booths[id].nft_contract][n]
<1> DEFINE b == booths[id].nft_contract
           D == {i \in DOMAIN booths : booths[i].nft_contract = b}
           w == [i \in D |-> BoxOf(i, n)]
<1>1. b \in NftBanks /\ IsFiniteSet(DOMAIN booths) /\ D \in SUBSET DOMAIN booths
  BY BoothsFinite DEF BoothRow
<1>2. IsFiniteSet(D) /\ id \in D /\ DOMAIN w = D /\ \A i \in D : w[i] \in Nat
  <2>1. \A i \in D : BoxOf(i, n) \in Nat
    BY BoxesTyped DEF AllBoxes
  <2> QED BY <1>1, <2>1, FS_Subset
<1>3. nft[Mart][b][n] = SumFunction(w)
  BY <1>1, CustodyIs DEF BoxInv, MartHoldsUnsold
<1>4. w[id] = BoxOf(id, n)
  BY <1>2
<1> HIDE DEF b, D, w
<1>5. SumFunction(w) = Sum(w, D)
  BY <1>2, SumFunctionIsSum
<1>6. w[id] <= Sum(w, D)
  BY <1>2, SumCovers
<1>7. D \in SUBSET D /\ Sum(w, D) \in Nat
  BY <1>2, SumNat
<1> QED BY <1>2, <1>3, <1>4, <1>5, <1>6, <1>7 DEF b

\* As many draws as there are NFTs always have an outcome.
LEMMA DrawsGoOn ==
    ASSUME NEW boxes, IsBoxes(boxes), NEW num \in Nat, SumFunction(boxes) = num,
           NEW count \in 0 .. num
    PROVE  Draws(boxes, num, count) # {}
<1>1. PICK f : AreDraws(f, boxes, num, count) /\ Draws(boxes, num, count) = f[count]
  BY DrawsAre
<1> DEFINE Bad == {i \in 0 .. count : f[i] = {}}
           h == [i \in 0 .. count |-> i]
<1>2. SUFFICES ASSUME Bad # {} PROVE FALSE
  BY <1>1
<1>3. IsFiniteSet(Bad) /\ \A i \in Bad : h[i] \in Int
  <2>1. IsFiniteSet(0 .. count) /\ Bad \subseteq 0 .. count
    BY FS_Interval
  <2>2. \A i \in Bad : h[i] \in Int
    OBVIOUS
  <2> HIDE DEF Bad
  <2> QED BY <2>1, <2>2, FS_Subset
<1>4. PICK i \in Bad : \A j \in Bad : h[i] <= h[j]
  <2> HIDE DEF Bad, h
  <2> QED BY <1>2, <1>3, LeastOf
<1>5. f[i] = IF i = 0 THEN {Start(boxes)}
             ELSE UNION {_one_nft(e, num - i + 1) : e \in f[i - 1]}
  BY <1>1 DEF AreDraws
<1>6. CASE i = 0
  BY <1>5, <1>6
<1>7. CASE i # 0
  <2>1. i - 1 \in 0 .. count /\ i \in 1 .. num /\ 1 \in 1 .. num - i + 1
    BY <1>7
  <2>2. PICK e : e \in f[i - 1]
    BY <1>4, <2>1
  <2> DEFINE N(r) == IF Pick(e.boxes, r) = {} THEN Symbols ELSE Pick(e.boxes, r)
             R(r, n) == [boxes  |-> IF Pick(e.boxes, r) = {} THEN e.boxes ELSE TakeOut(e.boxes, n),
                         bought |-> [e.bought EXCEPT ![n] = @ + 1]]
             S(r) == {R(r, n) : n \in N(r)}
  <2>3. N(1) # {}
    <3>1. 1 \in 1 .. SumFunction(boxes)
      BY <2>1
    <3>2. PICK n : n \in Pick(boxes, 1)
      BY <3>1, SomePicked
    <3>3. n \in Symbols
      BY <3>2, PickedBox
    <3> QED BY <3>3
  <2>4. PICK n : n \in N(1)
    BY <2>3
  <2> DEFINE d == R(1, n)
  <2>5. d \in _one_nft(e, num - i + 1)
    <3>1. _one_nft(e, num - i + 1) = UNION {S(r) : r \in 1 .. num - i + 1}
      BY DEF _one_nft
    <3>2. d \in S(1)
      BY <2>4
    <3> HIDE DEF S, d
    <3> QED BY <2>1, <3>1, <3>2
  <2>6. d \in f[i]
    BY <1>5, <1>7, <2>2, <2>5
  <2> QED BY <2>6
<1> QED BY <1>6, <1>7

\* The boxes of booth id can be sent back, and any purchase of what it has
\* left finds the NFTs, whichever of them are drawn.
BoothDelivers(id) ==
    /\ id \in DOMAIN boothboxes => CanSend(booths[id].nft_contract, boothboxes[id])
    /\ \A count \in 1 .. booths[id].nft_num :
          /\ id \in DOMAIN boothboxes
          /\ Draws(boothboxes[id], booths[id].nft_num, count) # {}
          /\ \A draw \in Draws(boothboxes[id], booths[id].nft_num, count) :
                CanSend(booths[id].nft_contract, Positive(draw.bought))

LEMMA BoothCanDeliver ==
    ASSUME TypeOK, BoxInv, touched = {}, NEW id \in DOMAIN booths
    PROVE  BoothDelivers(id)
<1> DEFINE bank == booths[id].nft_contract
           num == booths[id].nft_num
           boxes == BoxesOf(id)
<1>1. /\ IsBoxes(boxes) /\ num \in Nat
      /\ num = SumFunction(boxes) /\ \A n \in DOMAIN boxes : boxes[n] > 0
  <2>1. IsBoxes(boxes)
    BY BoxesTyped DEF AllBoxes
  <2>2. num \in Nat
    BY BoothsFinite DEF BoothRow
  <2>3. id \in Intact
    BY DEF Intact
  <2>4. num = SumFunction(boxes) /\ \A n \in DOMAIN boxes : boxes[n] > 0
    BY <2>3 DEF BoxInv, CountersMatchBoxes, Held
  <2> QED BY <2>1, <2>2, <2>4
<1>2. ASSUME NEW n \in Symbols
      PROVE  /\ BoxOf(id, n) = Amount(boxes, n) /\ Amount(boxes, n) \in Nat
             /\ nft[Mart][bank][n] \in Nat /\ Amount(boxes, n) <= nft[Mart][bank][n]
  <2>1. BoxOf(id, n) = Amount(boxes, n)
    BY DEF BoxOf, Amount
  <2> QED BY <2>1, BoxesAreThere
<1>3. ASSUME id \in DOMAIN boothboxes
      PROVE  boothboxes[id] = boxes
  BY <1>3 DEF BoxesOf
<1>4. ASSUME id \in DOMAIN boothboxes
      PROVE  CanSend(bank, boxes)
  <2> SUFFICES ASSUME NEW n \in DOMAIN boxes PROVE boxes[n] \in 1 .. nft[Mart][bank][n]
    BY DEF CanSend
  <2>1. n \in Symbols /\ boxes[n] > 0 /\ Amount(boxes, n) = boxes[n]
    BY <1>1 DEF IsBoxes, IsTable, Amount
  <2> HIDE DEF bank, boxes
  <2> QED BY <1>2, <2>1
<1>5. ASSUME NEW count \in 1 .. num
      PROVE  /\ id \in DOMAIN boothboxes
             /\ Draws(boxes, num, count) # {}
             /\ \A draw \in Draws(boxes, num, count) : CanSend(bank, Positive(draw.bought))
  <2>1. id \in DOMAIN boothboxes
    <3> SUFFICES ASSUME id \notin DOMAIN boothboxes PROVE FALSE
      OBVIOUS
    <3>1. boxes = EmptyTable
      BY DEF BoxesOf
    <3>2. DOMAIN boxes = {}
      BY <3>1 DEF EmptyTable
    <3> HIDE DEF boxes
    <3>3. SumFunction(boxes) = Sum(boxes, {})
      BY <3>2, SumFunctionIsSum
    <3>4. SumFunction(boxes) = 0
      BY <3>3, SumEmpty
    <3> QED BY <1>1, <3>4
  <2> HIDE DEF boxes, num, bank
  <2>2. count \in 0 .. num /\ Full(boxes, num)
    BY <1>1 DEF Full
  <2>3. Draws(boxes, num, count) # {}
    BY <1>1, <2>2, DrawsGoOn
  <2>4. ASSUME NEW draw \in Draws(boxes, num, count) PROVE CanSend(bank, Positive(draw.bought))
    <3>1. Drawn(boxes, num, count, draw)
      BY <1>1, <2>2, DrawsAreDrawn
    <3>2. /\ draw.bought \in [Symbols -> Nat] /\ IsBoxes(draw.boxes)
          /\ \A n \in Symbols : Amount(draw.boxes, n) + draw.bought[n] = Amount(boxes, n)
      BY <2>2, <3>1 DEF Drawn
    <3> SUFFICES ASSUME NEW n \in DOMAIN Positive(draw.bought)
                 PROVE  Positive(draw.bought)[n] \in 1 .. nft[Mart][bank][n]
      BY DEF CanSend
    <3>3. n \in Symbols /\ draw.bought[n] \in Nat /\ draw.bought[n] > 0
          /\ Positive(draw.bought)[n] = draw.bought[n]
      BY <3>2 DEF Positive
    <3>4. Amount(draw.boxes, n) \in Nat
      BY <3>2 DEF Amount, IsBoxes, IsTable
    <3>5. draw.bought[n] <= Amount(boxes, n)
      BY <1>2, <3>2, <3>3, <3>4
    <3> QED BY <1>2, <3>3, <3>5
  <2> QED BY <2>1, <2>3, <2>4
<1> QED BY <1>3, <1>4, <1>5 DEF BoothDelivers

\* No booth of the random sale is ever short of NFTs: where the order of the symbols is
\* one, and until somebody edits a box by hand, the mart can give back every box when a
\* booth closes (closebooth, rndnft.mart.cpp:236-261), and as many draws as nft_num says
\* are left have an outcome, of which each can be delivered (_transfer_token, :173-233).
THEOREM BoothsAreNeverShort ==
    ASSUME OrderedSymbols
    PROVE  Spec => [](touched = {} => \A id \in DOMAIN booths : BoothDelivers(id))
<1>1. MartInv /\ BoxInv => (touched = {} => \A id \in DOMAIN booths : BoothDelivers(id))
  BY BoothCanDeliver DEF MartInv
<1>2. Spec => []BoxInv
  BY BoxInvariant
<1> QED BY <1>1, <1>2, MartInvariant, PTL
=============================================================================
