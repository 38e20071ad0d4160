--------------------------- MODULE PassMartProofs ---------------------------
(***************************************************************************)
(* What holds of the sale composed with the custody, for any number of     *)
(* users, products, plans and locks.  MartInv is inductive: beside the     *)
(* custody's own invariant and books it has the four invariants of the     *)
(* mart, the last one told of the locks of others than the mart, since     *)
(* theirs are the only ones a refund can come from.  With it, a sale that  *)
(* the mart's own checks let pass finds what it sells.                     *)
(***************************************************************************)
EXTENDS PassMart, PassCustodyProofs

\* The locks that somebody else than the mart may have refunded.
Others(t) == [k \in {j \in DOMAIN t : t[j].locker # Mart} |-> t[k]]

PassesIn(t, a) ==
    Tagged([i \in DOMAIN t |-> t[i].nft], [i \in DOMAIN t |-> t[i].nft_available], a)
GiftsIn(t, m) ==
    Tagged([i \in DOMAIN t |-> t[i].gift], [i \in DOMAIN t |-> t[i].gift_nft_available], m)
SoldIn(t, p) ==
    Tagged([i \in DOMAIN t |-> t[i].custody_plan_id],
           [i \in DOMAIN t |-> t[i].nft_total - t[i].nft_available], p)
RevenueIn(t) ==
    Tagged([i \in DOMAIN t |-> 0],
           [i \in DOMAIN t |-> t[i].price * (t[i].nft_total - t[i].nft_available)], 0)

\* What may still be refunded of a plan, with what was, and what the mart sold under
\* it, is what was locked.
SalesStay ==
    \A p \in DOMAIN plans :
        plans[p].total_refunded + LockedOf(Others(locks), p)
            + SoldIn(passes, p) - elsewhere[p] <= plans[p].total_issued

Wired == mstate.custody_contract # Mart /\ DOMAIN plans \subseteq PlanIds

MartInv ==
    /\ IInv /\ BooksInv /\ TypeOK_mart /\ StockHeld /\ SalesSettle /\ SalesStay /\ Wired

------------------------------------------------------------------------------
(* The sums over the products *)

\* The sums of the properties are those of the table.
TableSums ==
    /\ StockHeld <=> /\ \A a \in Assets : pass[Mart][a] = PassesIn(passes, a)
                     /\ \A m \in Mids : mid[Mart][m] = GiftsIn(passes, m)
    /\ \A p : SoldUnder(p) = SoldIn(passes, p)
    /\ SalesSettle <=> /\ \A i \in DOMAIN passes :
                             passes[i].nft_total - passes[i].nft_available
                                 = passes[i].gift_nft_total - passes[i].gift_nft_available
                       /\ money[Split] - FirstMoney[Split] = RevenueIn(passes)

LEMMA SumsOfTable == TableSums
<1>1. \A a : PassesOf(a) = PassesIn(passes, a)
  <2> TAKE a
  <2> DEFINE tag == [i \in DOMAIN passes |-> passes[i].nft]
             val == [i \in DOMAIN passes |-> passes[i].nft_available]
  <2>1. {i \in DOMAIN passes : passes[i].nft = a} = {j \in DOMAIN tag : tag[j] = a}
    OBVIOUS
  <2>2. [i \in {j \in DOMAIN tag : tag[j] = a} |-> passes[i].nft_available]
            = [i \in {j \in DOMAIN tag : tag[j] = a} |-> val[i]]
    OBVIOUS
  <2> QED BY <2>1, <2>2 DEF PassesOf, PassesIn, Tagged
<1>2. \A a : GiftsOf(a) = GiftsIn(passes, a)
  <2> TAKE a
  <2> DEFINE tag == [i \in DOMAIN passes |-> passes[i].gift]
             val == [i \in DOMAIN passes |-> passes[i].gift_nft_available]
  <2>1. {i \in DOMAIN passes : passes[i].gift = a} = {j \in DOMAIN tag : tag[j] = a}
    OBVIOUS
  <2>2. [i \in {j \in DOMAIN tag : tag[j] = a} |-> passes[i].gift_nft_available]
            = [i \in {j \in DOMAIN tag : tag[j] = a} |-> val[i]]
    OBVIOUS
  <2> QED BY <2>1, <2>2 DEF GiftsOf, GiftsIn, Tagged
<1>3. \A p : SoldUnder(p) = SoldIn(passes, p)
  <2> TAKE p
  <2> DEFINE tag == [i \in DOMAIN passes |-> passes[i].custody_plan_id]
             val == [i \in DOMAIN passes |-> passes[i].nft_total - passes[i].nft_available]
  <2>1. {i \in DOMAIN passes : passes[i].custody_plan_id = p} = {j \in DOMAIN tag : tag[j] = p}
    OBVIOUS
  <2>2. [i \in {j \in DOMAIN tag : tag[j] = p} |-> Sold(i)]
            = [i \in {j \in DOMAIN tag : tag[j] = p} |-> val[i]]
    BY DEF Sold
  <2> QED BY <2>1, <2>2 DEF SoldUnder, SoldIn, Tagged
<1>4. SumFunction([i \in DOMAIN passes |-> passes[i].price * Sold(i)]) = RevenueIn(passes)
  <2> DEFINE tag == [i \in DOMAIN passes |-> 0]
             val == [i \in DOMAIN passes |->
                        passes[i].price * (passes[i].nft_total - passes[i].nft_available)]
  <2>1. {j \in DOMAIN tag : tag[j] = 0} = DOMAIN passes
    OBVIOUS
  <2>2. [i \in DOMAIN passes |-> passes[i].price * Sold(i)] = [i \in DOMAIN passes |-> val[i]]
    BY DEF Sold
  <2> QED BY <2>1, <2>2 DEF RevenueIn, Tagged
<1> QED BY <1>1, <1>2, <1>3, <1>4 DEF TableSums, StockHeld, SalesSettle, Sold

\* In the next state too.
LEMMA SumsOfTableNext == TableSums'
BY SumsOfTable, PTL

\* One product added or changed: d more passes and g more MIDs available, s more sold.
ProductMoves(t, u, id, d, g, s) ==
    /\ IsFiniteSet(DOMAIN t) /\ DOMAIN u = DOMAIN t \cup {id}
    /\ \A i \in DOMAIN t : t[i] \in PassRow
    /\ u[id] \in PassRow
    /\ \A i \in DOMAIN t : i = id \/ u[i] = t[i]
    /\ IF id \in DOMAIN t
       THEN /\ u[id].nft = t[id].nft /\ u[id].gift = t[id].gift
            /\ u[id].custody_plan_id = t[id].custody_plan_id /\ u[id].price = t[id].price
            /\ u[id].nft_available = t[id].nft_available + d
            /\ u[id].gift_nft_available = t[id].gift_nft_available + g
            /\ u[id].nft_total = t[id].nft_total + (d + s)
            /\ u[id].gift_nft_total = t[id].gift_nft_total + (g + s)
       ELSE /\ u[id].nft_available = d /\ u[id].gift_nft_available = g
            /\ u[id].nft_total = d + s /\ u[id].gift_nft_total = g + s

LEMMA ProductSums ==
    ASSUME NEW t, NEW u, NEW id, NEW d \in Int, NEW g \in Int, NEW s \in Int,
           ProductMoves(t, u, id, d, g, s)
    PROVE  /\ \A a : /\ PassesIn(t, a) \in Int
                     /\ PassesIn(u, a) = PassesIn(t, a) + (IF a = u[id].nft THEN d ELSE 0)
           /\ \A m : /\ GiftsIn(t, m) \in Int
                     /\ GiftsIn(u, m) = GiftsIn(t, m) + (IF m = u[id].gift THEN g ELSE 0)
           /\ \A p : /\ SoldIn(t, p) \in Int
                     /\ SoldIn(u, p)
                            = SoldIn(t, p) + (IF p = u[id].custody_plan_id THEN s ELSE 0)
           /\ RevenueIn(t) \in Int
           /\ RevenueIn(u) = RevenueIn(t) + u[id].price * s
<1> DEFINE sold(r) == r.nft_total - r.nft_available
<1>1. /\ \A i \in DOMAIN t : /\ t[i].nft_available \in Int /\ t[i].gift_nft_available \in Int
                             /\ t[i].nft_total \in Int /\ t[i].price \in Int
      /\ u[id].nft_available \in Int /\ u[id].gift_nft_available \in Int
      /\ u[id].nft_total \in Int /\ u[id].price \in Int
  <2>1. \A r \in PassRow : /\ r.nft_available \in Int /\ r.gift_nft_available \in Int
                           /\ r.nft_total \in Int /\ r.price \in Int
    <3> TAKE r \in PassRow
    <3>1. /\ r.nft_available \in Nat /\ r.gift_nft_available \in Nat
          /\ r.nft_total \in Nat /\ r.price \in Prices
      BY DEF PassRow
    <3>2. \A c \in Prices : c \in Int
      BY MartInputs
    <3> QED BY <3>1, <3>2
  <2>2. u[id] \in PassRow /\ \A i \in DOMAIN t : t[i] \in PassRow
    BY DEF ProductMoves
  <2> QED BY <2>1, <2>2
<1>2. DOMAIN u = DOMAIN t \cup {id} /\ IsFiniteSet(DOMAIN t)
      /\ \A i \in DOMAIN t : i = id \/ u[i] = t[i]
  BY DEF ProductMoves
<1>3. \A a : /\ PassesIn(t, a) \in Int
             /\ PassesIn(u, a) = PassesIn(t, a) + (IF a = u[id].nft THEN d ELSE 0)
  <2> DEFINE tag == [i \in DOMAIN t |-> t[i].nft]
             tag2 == [i \in DOMAIN u |-> u[i].nft]
             val == [i \in DOMAIN t |-> t[i].nft_available]
             val2 == [i \in DOMAIN u |-> u[i].nft_available]
  <2>1. TagMoves(tag, tag2, val, val2, id, d)
    BY <1>1, <1>2 DEF ProductMoves, TagMoves
  <2>2. tag2[id] = u[id].nft
    BY <1>2
  <2>3. \A a : PassesIn(t, a) = Tagged(tag, val, a) /\ PassesIn(u, a) = Tagged(tag2, val2, a)
    BY DEF PassesIn
  <2> HIDE DEF tag, tag2, val, val2
  <2> QED BY <2>1, <2>2, <2>3, TaggedChanges
<1>4. \A m : /\ GiftsIn(t, m) \in Int
             /\ GiftsIn(u, m) = GiftsIn(t, m) + (IF m = u[id].gift THEN g ELSE 0)
  <2> DEFINE tag == [i \in DOMAIN t |-> t[i].gift]
             tag2 == [i \in DOMAIN u |-> u[i].gift]
             val == [i \in DOMAIN t |-> t[i].gift_nft_available]
             val2 == [i \in DOMAIN u |-> u[i].gift_nft_available]
  <2>1. TagMoves(tag, tag2, val, val2, id, g)
    BY <1>1, <1>2 DEF ProductMoves, TagMoves
  <2>2. tag2[id] = u[id].gift
    BY <1>2
  <2>3. \A a : GiftsIn(t, a) = Tagged(tag, val, a) /\ GiftsIn(u, a) = Tagged(tag2, val2, a)
    BY DEF GiftsIn
  <2> HIDE DEF tag, tag2, val, val2
  <2> QED BY <2>1, <2>2, <2>3, TaggedChanges
<1>5. sold(u[id]) = (IF id \in DOMAIN t THEN sold(t[id]) ELSE 0) + s
  BY <1>1 DEF ProductMoves
<1>6. \A p : /\ SoldIn(t, p) \in Int
             /\ SoldIn(u, p) = SoldIn(t, p) + (IF p = u[id].custody_plan_id THEN s ELSE 0)
  <2> DEFINE tag == [i \in DOMAIN t |-> t[i].custody_plan_id]
             tag2 == [i \in DOMAIN u |-> u[i].custody_plan_id]
             val == [i \in DOMAIN t |-> t[i].nft_total - t[i].nft_available]
             val2 == [i \in DOMAIN u |-> u[i].nft_total - u[i].nft_available]
  <2>1. TagMoves(tag, tag2, val, val2, id, s)
    BY <1>1, <1>2, <1>5 DEF ProductMoves, TagMoves
  <2>2. tag2[id] = u[id].custody_plan_id
    BY <1>2
  <2>3. \A a : SoldIn(t, a) = Tagged(tag, val, a) /\ SoldIn(u, a) = Tagged(tag2, val2, a)
    BY DEF SoldIn
  <2> HIDE DEF tag, tag2, val, val2
  <2> QED BY <2>1, <2>2, <2>3, TaggedChanges
<1>7. RevenueIn(t) \in Int /\ RevenueIn(u) = RevenueIn(t) + u[id].price * s
  <2> DEFINE tag == [i \in DOMAIN t |-> 0]
             tag2 == [i \in DOMAIN u |-> 0]
             val == [i \in DOMAIN t |-> t[i].price * sold(t[i])]
             val2 == [i \in DOMAIN u |-> u[i].price * sold(u[i])]
             e == u[id].price * s
  <2>1. \A i \in DOMAIN t : sold(t[i]) \in Int /\ t[i].price \in Int
    BY <1>1
  <2>2. e \in Int /\ \A x, y, z \in Int : x * (y + z) = x * y + x * z
    BY <1>1
  <2>3. val2[id] = (IF id \in DOMAIN tag THEN val[id] ELSE 0) + e
    <3>1. CASE id \in DOMAIN t
      <4>1. sold(u[id]) = sold(t[id]) + s /\ u[id].price = t[id].price
        BY <1>5, <3>1 DEF ProductMoves
      <4>2. val2[id] = u[id].price * sold(u[id]) /\ val[id] = t[id].price * sold(t[id])
        BY <1>2, <3>1
      <4>3. sold(t[id]) \in Int /\ u[id].price \in Int
        BY <1>1, <2>1, <3>1
      <4> HIDE DEF sold, val, val2
      <4> QED BY <2>2, <3>1, <4>1, <4>2, <4>3
    <3>2. CASE id \notin DOMAIN t
      <4>1. sold(u[id]) = s
        BY <1>5, <3>2
      <4>2. val2[id] = u[id].price * sold(u[id])
        BY <1>2
      <4> HIDE DEF sold, val, val2
      <4> QED BY <2>2, <3>2, <4>1, <4>2
    <3> QED BY <3>1, <3>2
  <2>4. \A i \in DOMAIN t : val[i] \in Int
    <3> HIDE DEF sold
    <3> QED BY <2>1
  <2>5. TagMoves(tag, tag2, val, val2, id, e) /\ tag2[id] = 0
    <3> HIDE DEF e, sold
    <3> QED BY <1>1, <1>2, <2>2, <2>3, <2>4 DEF TagMoves
  <2>6. RevenueIn(t) = Tagged(tag, val, 0) /\ RevenueIn(u) = Tagged(tag2, val2, 0)
    BY DEF RevenueIn
  <2> HIDE DEF tag, tag2, val, val2, e
  <2>7. \A a : /\ Tagged(tag, val, a) \in Int
               /\ Tagged(tag2, val2, a) = Tagged(tag, val, a) + (IF a = tag2[id] THEN e ELSE 0)
    BY <2>5, TaggedChanges
  <2> QED BY <2>5, <2>6, <2>7 DEF e
<1> QED BY <1>3, <1>4, <1>6, <1>7

------------------------------------------------------------------------------
(* What the custody does to what may be refunded *)

\* The locks of others are locks.
LEMMA OthersAreLocks ==
    ASSUME IInv, BooksInv
    PROVE  /\ DOMAIN Others(locks) = {j \in DOMAIN locks : locks[j].locker # Mart}
           /\ IsFiniteSet(DOMAIN Others(locks))
           /\ \A j \in DOMAIN Others(locks) : Others(locks)[j] = locks[j] /\ locks[j].locked \in Nat
           /\ \A p : LockedOf(Others(locks), p) \in Int
<1> DEFINE o == Others(locks)
           K == DOMAIN o
<1>1. K = {j \in DOMAIN locks : locks[j].locker # Mart} /\ \A j \in K : o[j] = locks[j]
  BY DEF Others
<1>2. \A j \in DOMAIN locks : locks[j].locked \in Nat
  BY DEF IInv, TypeOK, TablesOK, IsTable, LockRow
<1>3. IsFiniteSet(K)
  <2>1. K \in SUBSET DOMAIN locks
    BY <1>1
  <2> QED BY <2>1, FS_Subset DEF BooksInv
<1>4. \A j \in K : j \in DOMAIN locks /\ o[j].locked \in Int
  BY <1>1, <1>2
<1> HIDE DEF o
<1>5. \A p : LockedOf(o, p) \in Int
  <2> TAKE p
  <2>1. /\ LockedOf(o, p) = Sum(Locked(o, K), Keys(K, p)) /\ IsFiniteSet(Keys(K, p))
        /\ \A j \in K : Locked(o, K)[j] \in Int
    BY <1>3, <1>4, LockedOver
  <2>2. \A j \in Keys(K, p) : j \in K
    BY DEF Keys
  <2> QED BY <2>1, <2>2, SumInt
<1> QED BY <1>1, <1>2, <1>3, <1>4, <1>5 DEF o

\* The types of what the claim is about.
LEMMA SalesTypes ==
    ASSUME MartInv
    PROVE  /\ \A p \in DOMAIN plans : /\ plans[p].total_issued \in Int /\ plans[p].total_refunded \in Int
                                      /\ p \in PlanIds /\ elsewhere[p] \in Int
           /\ \A p : LockedOf(Others(locks), p) \in Int /\ SoldIn(passes, p) \in Int
           /\ \A i \in DOMAIN passes : passes[i] \in PassRow
           /\ IsFiniteSet(DOMAIN passes)
<1>1. \A p \in DOMAIN plans : /\ plans[p].total_issued \in Int /\ plans[p].total_refunded \in Int
                              /\ p \in PlanIds /\ elsewhere[p] \in Int
  BY DEF MartInv, IInv, TypeOK, TablesOK, IsTable, PlanRow, Wired, TypeOK_mart
<1>2. \A p : LockedOf(Others(locks), p) \in Int
  BY OthersAreLocks DEF MartInv
<1>3. \A i \in DOMAIN passes : passes[i] \in PassRow
  BY DEF MartInv, TypeOK_mart, IsTable
<1>4. IsFiniteSet(DOMAIN passes)
  <2>1. DOMAIN passes \in SUBSET (1 .. mstate.last_pass_id) /\ mstate.last_pass_id \in Int
    BY DEF MartInv, TypeOK_mart, IsTable
  <2> QED BY <2>1, FS_Interval, FS_Subset
<1>5. \A p : SoldIn(passes, p) \in Int
  <2> TAKE p
  <2> DEFINE tag == [i \in DOMAIN passes |-> passes[i].custody_plan_id]
             val == [i \in DOMAIN passes |-> passes[i].nft_total - passes[i].nft_available]
             D == {j \in DOMAIN tag : tag[j] = p}
             f == [i \in D |-> val[i]]
  <2>1. \A i \in D : val[i] \in Int
    BY <1>3 DEF PassRow
  <2>2. IsFiniteSet(D)
    <3>1. D \in SUBSET DOMAIN passes
      OBVIOUS
    <3> QED BY <1>4, <3>1, FS_Subset
  <2>3. SoldIn(passes, p) = SumFunction(f)
    BY DEF SoldIn, Tagged
  <2> HIDE DEF D, val
  <2>4. SumFunction(f) = Sum(val, D)
    BY <2>2, SumFunctionOver
  <2> QED BY <2>1, <2>2, <2>3, <2>4, SumInt
<1> QED BY <1>1, <1>2, <1>3, <1>4, <1>5

\* A step that issues i under plan p, refunds f of it and leaves d more for others to
\* have refunded, keeps the claim when f + d is at most i.
Refunds(p, i, f, d) ==
    /\ p \in DOMAIN plans /\ DOMAIN plans' = DOMAIN plans
    /\ i \in Int /\ f \in Int /\ d \in Int /\ f + d <= i
    /\ \A q \in DOMAIN plans : q # p => plans'[q] = plans[q]
    /\ plans'[p].total_issued = plans[p].total_issued + i
    /\ plans'[p].total_refunded = plans[p].total_refunded + f
    /\ \A q \in DOMAIN plans :
          /\ LockedOf(Others(locks'), q) \in Int
          /\ LockedOf(Others(locks'), q)
                 <= LockedOf(Others(locks), q) + (IF q = p THEN d ELSE 0)

LEMMA RefundsKeepSales ==
    ASSUME MartInv, NEW p, NEW i, NEW f, NEW d, Refunds(p, i, f, d), UNCHANGED martvars
    PROVE  SalesStay'
<1> SUFFICES ASSUME NEW q \in DOMAIN plans
             PROVE  plans'[q].total_refunded + LockedOf(Others(locks'), q)
                        + SoldIn(passes, q) - elsewhere[q] <= plans'[q].total_issued
  BY DEF Refunds, SalesStay, martvars
<1> DEFINE R == plans[q].total_refunded
           I == plans[q].total_issued
           O == LockedOf(Others(locks), q)
           N == LockedOf(Others(locks'), q)
           S == SoldIn(passes, q)
           E == elsewhere[q]
<1>1. R \in Int /\ I \in Int /\ O \in Int /\ N \in Int /\ S \in Int /\ E \in Int
      /\ R + O + S - E <= I
  BY SalesTypes DEF MartInv, SalesStay, Refunds
<1>2. CASE q = p
  <2>1. /\ plans'[q].total_refunded = R + f /\ plans'[q].total_issued = I + i /\ N <= O + d
        /\ i \in Int /\ f \in Int /\ d \in Int /\ f + d <= i
    BY <1>2 DEF Refunds
  <2> HIDE DEF R, I, O, N, S, E
  <2>2. R + f + N + S - E <= I + i
    BY <1>1, <2>1
  <2> QED BY <2>1, <2>2 DEF N, S, E
<1>3. CASE q # p
  <2>1. plans'[q] = plans[q] /\ N <= O + 0
    BY <1>3 DEF Refunds
  <2>2. plans'[q].total_refunded = R /\ plans'[q].total_issued = I
    BY <2>1
  <2> HIDE DEF R, I, O, N, S, E
  <2>3. R + N + S - E <= I
    BY <1>1, <2>1
  <2> QED BY <2>2, <2>3 DEF N, S, E
<1> QED BY <1>2, <1>3

\* A step that leaves the totals and what others have locked.
LEMMA SalesSame ==
    ASSUME MartInv, UNCHANGED <<plans, locks>>, UNCHANGED martvars
    PROVE  SalesStay'
BY DEF MartInv, SalesStay, martvars

\* A plan is added.
LEMMA AddPlanKeepsSales ==
    ASSUME MartInv, NEW u \in Lockers, NEW a \in Assets, NEW i \in Intervals, NEW t \in Times,
           addplan(u, a, i, t), UNCHANGED martvars
    PROVE  SalesStay'
<1> DEFINE id == gstate.last_plan_id
           s == plans'
<1>1. /\ UNCHANGED locks /\ DOMAIN s = DOMAIN plans \cup {id} /\ id < MaxPlans
      /\ s[id].total_refunded = 0 /\ s[id].total_issued = 0
      /\ \A q \in DOMAIN plans : q # id => s[q] = plans[q]
  BY DEF addplan, Emplace
<1>2. id \notin DOMAIN plans /\ id \in PlanIds
  <2>1. \A q \in DOMAIN plans : q \in 0 .. id - 1
    BY DEF MartInv, IInv, TypeOK, TablesOK, IsTable
  <2>2. id \in Nat
    BY DEF MartInv, IInv, TypeOK, GlobalsOK
  <2> HIDE DEF id
  <2> QED BY <1>1, <2>1, <2>2, CustodyBounds DEF PlanIds
<1>3. LockedOf(Others(locks), id) = 0
  <2>1. \A j \in DOMAIN locks : j[1] \in DOMAIN plans
    BY DEF MartInv, IInv, TypeOK, TablesOK, IsTable
  <2>2. {j \in DOMAIN Others(locks) : j[1] = id} = {}
    BY <1>2, <2>1 DEF Others
  <2> DEFINE w == [k \in {} |-> Others(locks)[k].locked]
  <2>3. LockedOf(Others(locks), id) = SumFunction(w)
    BY <2>2 DEF LockedOf
  <2>4. DOMAIN w = {}
    OBVIOUS
  <2> HIDE DEF w
  <2> QED BY <2>3, <2>4, SumFunctionIsSum, SumEmpty
<1>4. SoldIn(passes, id) = 0
  <2>1. \A j \in DOMAIN passes : passes[j].custody_plan_id # id
    BY <1>2 DEF MartInv, TypeOK_mart
  <2> DEFINE tag == [j \in DOMAIN passes |-> passes[j].custody_plan_id]
             val == [j \in DOMAIN passes |-> passes[j].nft_total - passes[j].nft_available]
             w == [j \in {} |-> val[j]]
  <2>2. {j \in DOMAIN tag : tag[j] = id} = {}
    BY <2>1
  <2>3. SoldIn(passes, id) = SumFunction(w)
    BY <2>2 DEF SoldIn, Tagged
  <2>4. DOMAIN w = {}
    OBVIOUS
  <2> HIDE DEF w
  <2> QED BY <2>3, <2>4, SumFunctionIsSum, SumEmpty
<1>5. elsewhere[id] \in Nat
  BY <1>2 DEF MartInv, TypeOK_mart
<1> HIDE DEF id, s
<1> SUFFICES ASSUME NEW q \in DOMAIN s
             PROVE  s[q].total_refunded + LockedOf(Others(locks), q)
                        + SoldIn(passes, q) - elsewhere[q] <= s[q].total_issued
  BY <1>1 DEF SalesStay, martvars, s
<1>6. CASE q = id
  BY <1>1, <1>3, <1>4, <1>5, <1>6
<1>7. CASE q # id
  <2>1. q \in DOMAIN plans /\ s[q] = plans[q]
    BY <1>1, <1>7
  <2> QED BY <2>1 DEF MartInv, SalesStay
<1> QED BY <1>6, <1>7

\* The other plan operations keep every total.
LEMMA PlanKeepsSales == MartInv /\ Plan /\ UNCHANGED martvars => SalesStay'
<1> SUFFICES ASSUME MartInv, Plan, UNCHANGED martvars PROVE SalesStay'
  OBVIOUS
<1>1. ASSUME NEW p \in DOMAIN plans, NEW row, plans' = [plans EXCEPT ![p] = row],
             row.total_issued = plans[p].total_issued,
             row.total_refunded = plans[p].total_refunded, UNCHANGED locks
      PROVE  SalesStay'
  <2>1. \A q \in DOMAIN plans :
           /\ LockedOf(Others(locks), q) \in Int
           /\ plans[q].total_issued \in Int /\ plans[q].total_refunded \in Int
    BY SalesTypes
  <2>2. DOMAIN plans' = DOMAIN plans /\ plans'[p] = row
        /\ \A q \in DOMAIN plans : q # p => plans'[q] = plans[q]
    BY <1>1
  <2>3. Refunds(p, 0, 0, 0)
    BY <1>1, <2>1, <2>2 DEF Refunds
  <2> QED BY <2>3, RefundsKeepSales
<1>2. ASSUME NEW p \in PlanIds, NEW u \in Lockers, setplanowner(p, u) PROVE SalesStay'
  <2> DEFINE row == [plans[p] EXCEPT !.owner = u]
  <2>1. p \in DOMAIN plans /\ plans' = [plans EXCEPT ![p] = row] /\ UNCHANGED locks
    BY <1>2 DEF setplanowner
  <2>2. row.total_issued = plans[p].total_issued /\ row.total_refunded = plans[p].total_refunded
    BY <2>1 DEF MartInv, IInv, TypeOK, TablesOK, IsTable, PlanRow
  <2> HIDE DEF row
  <2> QED BY <1>1, <2>1, <2>2
<1>3. ASSUME NEW u \in Lockers, NEW f \in FeeAmounts, NEW m \in PlanIds, ontokentrans(u, f, m)
      PROVE  SalesStay'
  <2> DEFINE p == FeePlan(u, m)
             row == [plans[p] EXCEPT !.status = "enabled"]
  <2>1. p \in DOMAIN plans /\ plans' = [plans EXCEPT ![p] = row] /\ UNCHANGED locks
    BY <1>3 DEF ontokentrans
  <2>2. row.total_issued = plans[p].total_issued /\ row.total_refunded = plans[p].total_refunded
    BY <2>1 DEF MartInv, IInv, TypeOK, TablesOK, IsTable, PlanRow
  <2> HIDE DEF row, p
  <2> QED BY <1>1, <2>1, <2>2
<1>4. ASSUME NEW p \in PlanIds, NEW m \in Mids, NEW w \in Windows, setmovwindow(p, m, w[1], w[2])
      PROVE  SalesStay'
  BY <1>4, SalesSame DEF setmovwindow
<1> QED BY <1>2, <1>3, <1>4, AddPlanKeepsSales DEF Plan

\* A new lock, told of all locks.
LEMMA LockForEffect ==
    ASSUME IInv, NEW u, NEW a, NEW n \in Nat, NEW r, NEW p, NEW c, LockFor(u, a, n, r, p, c)
    PROVE  LET k == <<p, plans[p].last_lock_id + 1>>
           IN  /\ p \in DOMAIN plans /\ DOMAIN plans' = DOMAIN plans
               /\ k \notin DOMAIN locks /\ k[1] = p
               /\ DOMAIN locks' = DOMAIN locks \cup {k}
               /\ locks'[k].locked = n /\ locks'[k].locker = u
               /\ \A j \in DOMAIN locks : j # k => locks'[j] = locks[j]
               /\ \A q \in DOMAIN plans : q # p => plans'[q] = plans[q]
               /\ plans'[p].total_issued = plans[p].total_issued + n
               /\ plans'[p].total_refunded = plans[p].total_refunded
<1> DEFINE id == plans[p].last_lock_id + 1
           k == <<p, id>>
           s == locks'
           v == plans'
           issued == plans[p].total_issued + n
           locked == plans[p].total_locked + n
           row == [plans[p] EXCEPT !.total_issued = issued, !.total_locked = locked,
                                   !.last_lock_id = id]
<1>1. /\ p \in DOMAIN plans
      /\ DOMAIN s = DOMAIN locks \cup {k} /\ s[k].locked = n /\ s[k].locker = u
      /\ \A j \in DOMAIN locks : j # k => s[j] = locks[j]
      /\ v = [plans EXCEPT ![p] = row]
  BY DEF LockFor, NewLockId, Emplace
<1>2. k \notin DOMAIN locks /\ k[1] = p
  <2>1. \A j \in DOMAIN locks : /\ plans[j[1]].last_lock_id \in Nat /\ j[2] \in Nat
                                /\ j[2] <= plans[j[1]].last_lock_id
    BY DEF IInv, TypeOK, TablesOK, IsTable, PlanRow
  <2>2. k[1] = p /\ k[2] = id
    OBVIOUS
  <2> SUFFICES ASSUME k \in DOMAIN locks PROVE FALSE
    BY <2>2
  <2> HIDE DEF k
  <2> QED BY <2>1, <2>2
<1>3. row.total_issued = issued /\ row.total_refunded = plans[p].total_refunded
  <2>1. plans[p] \in PlanRow
    BY <1>1 DEF IInv, TypeOK, TablesOK, IsTable
  <2> HIDE DEF issued, locked, id
  <2> QED BY <2>1 DEF PlanRow
<1> HIDE DEF row, k
<1>4. /\ DOMAIN v = DOMAIN plans /\ v[p] = row
      /\ \A q \in DOMAIN plans : q # p => v[q] = plans[q]
  <2> HIDE DEF v
  <2> QED BY <1>1
<1> QED BY <1>1, <1>2, <1>3, <1>4 DEF k

\* A lock by a user adds as much to what was issued as to what others may have back.
LEMMA LockKeepsSales ==
    ASSUME MartInv, NEW u \in Lockers, NEW a \in Assets, NEW n \in LockAmounts,
           NEW r \in Receivers, NEW p \in PlanIds, NEW c \in FirstDays,
           onnfttrans(u, a, n, r, p, c), UNCHANGED martvars
    PROVE  SalesStay'
<1> DEFINE k == <<p, plans[p].last_lock_id + 1>>
           o == Others(locks)
           s == Others(locks')
<1>1. n \in Nat /\ n \in Int /\ u # Mart
  BY CustodyInputs, MartAccounts
<1>2. /\ p \in DOMAIN plans /\ DOMAIN plans' = DOMAIN plans
      /\ k \notin DOMAIN locks /\ k[1] = p
      /\ DOMAIN locks' = DOMAIN locks \cup {k}
      /\ locks'[k].locked = n /\ locks'[k].locker = u
      /\ \A j \in DOMAIN locks : j # k => locks'[j] = locks[j]
      /\ \A q \in DOMAIN plans : q # p => plans'[q] = plans[q]
      /\ plans'[p].total_issued = plans[p].total_issued + n
      /\ plans'[p].total_refunded = plans[p].total_refunded
  <2>1. LockFor(u, a, n, r, p, c)
    BY DEF onnfttrans
  <2> QED BY <1>1, <2>1, LockForEffect DEF MartInv
<1> HIDE DEF k
<1>3. /\ IsFiniteSet(DOMAIN o) /\ DOMAIN s = DOMAIN o \cup {k} /\ k \notin DOMAIN o
      /\ \A j \in DOMAIN o : o[j].locked \in Int
      /\ s[k].locked = n
      /\ \A j \in DOMAIN o : j # k => s[j] = o[j]
  <2>1. /\ DOMAIN o = {j \in DOMAIN locks : locks[j].locker # Mart} /\ IsFiniteSet(DOMAIN o)
        /\ \A j \in DOMAIN o : o[j] = locks[j] /\ o[j].locked \in Int
    BY OthersAreLocks DEF MartInv
  <2>2. /\ DOMAIN s = {j \in DOMAIN locks' : locks'[j].locker # Mart}
        /\ \A j \in DOMAIN s : s[j] = locks'[j]
    BY DEF Others
  <2> HIDE DEF o, s
  <2> QED BY <1>1, <1>2, <2>1, <2>2
<1> HIDE DEF o, s
<1>4. \A q : LockedOf(s, q) = LockedOf(o, q) + (IF q = k[1] THEN n ELSE 0)
  <2>1. s[k].locked \in Int /\ s[k].locked = (IF k \in DOMAIN o THEN o[k].locked ELSE 0) + n
    BY <1>1, <1>3
  <2> QED BY <1>1, <1>3, <2>1, LockedChanges
<1>5. \A q \in DOMAIN plans : LockedOf(o, q) \in Int
  BY SalesTypes DEF o
<1>6. \A q \in DOMAIN plans :
         /\ LockedOf(s, q) \in Int
         /\ LockedOf(s, q) <= LockedOf(o, q) + (IF q = p THEN n ELSE 0)
  BY <1>1, <1>2, <1>4, <1>5
<1>7. plans[p].total_refunded \in Int
  BY <1>2, SalesTypes
<1>8. Refunds(p, n, 0, n)
  BY <1>1, <1>2, <1>6, <1>7 DEF Refunds, o, s
<1> QED BY <1>8, RefundsKeepSales

\* A release takes off what others may have back at least what it refunds, and a lock
\* of the mart refunds nothing: the mart would refuse it.
LEMMA ReleaseKeepsSales ==
    ASSUME MartInv, NEW k, NEW b \in BOOLEAN, _unlock(k, b), MartRefuses, UNCHANGED martvars
    PROVE  SalesStay'
<1> DEFINE l == locks[k]
           p == k[1]
           r == plans[p]
           t == total_unlocked(l, r)
           f == IF b THEN l.issued - t ELSE 0
           row == PlanAfter(r, t - l.unlocked, f)
           lock == LockAfter(l, t, l.issued - t - f, b)
           o == Others(locks)
           s == Others(locks')
           d == 0 - (t - l.unlocked + f)
<1>1. /\ k \in DOMAIN locks /\ p \in DOMAIN plans
      /\ l \in LockRow /\ r \in PlanRow /\ l.issued = l.locked + l.unlocked
      /\ t \in l.unlocked .. l.issued /\ t \in Nat /\ f \in Nat /\ t + f <= l.issued
      /\ plans' = [plans EXCEPT ![p] = row]
      /\ locks' = [locks EXCEPT ![k] = lock]
  BY ReleaseEffect DEF MartInv
<1>2. l.locked \in Nat /\ l.unlocked \in Nat /\ l.issued \in Nat /\ l.locker \in Users
      /\ r.total_issued \in Int /\ r.total_refunded \in Int /\ r.asset_symbol \in Assets
  BY <1>1 DEF LockRow, PlanRow
<1>3. /\ row.total_issued = r.total_issued /\ row.total_refunded = r.total_refunded + f
      /\ lock.locked = l.issued - t - f /\ lock.locker = l.locker
  <2> HIDE DEF r, l, t, f
  <2> QED BY <1>1 DEF PlanAfter, LockAfter, LockRow, PlanRow
<1>4. d \in Int /\ lock.locked = l.locked + d /\ f + d <= 0
  <2> HIDE DEF l, t, f, lock
  <2> QED BY <1>1, <1>2, <1>3
<1>5. l.locker = Mart => f = 0
  <2> SUFFICES ASSUME l.locker = Mart PROVE f = 0
    OBVIOUS
  <2> DEFINE a == r.asset_symbol
             back == PayOne(Accounts, l.locker, f)
             out == PayOne(Accounts, l.receiver, t - l.unlocked)
             pays == PayBoth(out, back)
             new(x) == pass[x][a] + pays[x] - (IF x = Custody THEN SumFunction(pays) ELSE 0)
  <2>1. PassMoves(a, Custody, pays)
    BY DEF _unlock
  <2>2. Mart \in Accounts /\ Mart # Custody
    BY MartAccounts, CustodyAccounts DEF Accounts
  <2>3. pays[Mart] = out[Mart] + f
    <3>1. back[Mart] = f /\ Mart \in DOMAIN out
      BY <2>2 DEF PayOne
    <3> HIDE DEF out, back, f
    <3> QED BY <3>1 DEF PayBoth
  <2>4. out[Mart] \in Nat
    <3>1. t - l.unlocked \in Nat
      <4> HIDE DEF t, l
      <4> QED BY <1>1, <1>2
    <3> HIDE DEF t, l
    <3> QED BY <2>2, <3>1 DEF PayOne
  <2> HIDE DEF out, back, pays, a
  <2>5. /\ pays \in [Accounts -> Nat]
        /\ pass' = [x \in Accounts |-> [pass[x] EXCEPT ![a] = new(x)]]
    BY <2>1 DEF PassMoves
  <2>6. a \in Assets /\ pass[Mart] \in [Assets -> Nat]
    BY <1>2, <2>2 DEF MartInv, IInv, TypeOK, BalancesOK, a
  <2>7. new(Mart) = pass[Mart][a] + pays[Mart]
    BY <2>2, <2>5, <2>6
  <2> HIDE DEF new
  <2>8. pass'[Mart][a] = new(Mart)
    BY <2>2, <2>5, <2>6
  <2>9. pass'[Mart][a] = pass[Mart][a]
    BY DEF MartRefuses
  <2>10. pays[Mart] = 0
    <3>1. pays[Mart] \in Nat /\ pass[Mart][a] \in Nat
      BY <2>2, <2>5, <2>6
    <3>2. pass[Mart][a] = pass[Mart][a] + pays[Mart]
      BY <2>7, <2>8, <2>9
    <3> QED BY <3>1, <3>2
  <2> HIDE DEF f
  <2> QED BY <1>1, <2>3, <2>4, <2>10 DEF f
<1> HIDE DEF row, lock
<1>6. /\ DOMAIN locks' = DOMAIN locks /\ locks'[k] = lock
      /\ \A j \in DOMAIN locks : j # k => locks'[j] = locks[j]
      /\ DOMAIN plans' = DOMAIN plans /\ plans'[p] = row
      /\ \A q \in DOMAIN plans : q # p => plans'[q] = plans[q]
  BY <1>1
<1>7. /\ DOMAIN o = {j \in DOMAIN locks : locks[j].locker # Mart} /\ IsFiniteSet(DOMAIN o)
      /\ \A j \in DOMAIN o : o[j] = locks[j] /\ o[j].locked \in Int
      /\ \A q : LockedOf(o, q) \in Int
  BY OthersAreLocks DEF MartInv
<1>8. /\ DOMAIN s = {j \in DOMAIN locks' : locks'[j].locker # Mart}
      /\ \A j \in DOMAIN s : s[j] = locks'[j]
  BY DEF Others
<1>9. DOMAIN s = DOMAIN o /\ \A j \in DOMAIN o : j # k => s[j] = o[j]
  <2>1. \A j \in DOMAIN locks : locks'[j].locker = locks[j].locker
    BY <1>3, <1>6
  <2>2. DOMAIN locks' = DOMAIN locks
    BY <1>6
  <2>3. DOMAIN s = DOMAIN o
    <3> HIDE DEF o, s
    <3> QED BY <1>7, <1>8, <2>1, <2>2
  <2> HIDE DEF o, s
  <2> QED BY <1>6, <1>7, <1>8, <2>3
<1> HIDE DEF o, s, d
<1>10. CASE l.locker = Mart
  <2>1. k \notin DOMAIN o
    BY <1>7, <1>10
  <2>2. \A j \in DOMAIN o : s[j] = o[j]
    BY <1>9, <2>1
  <2>3. s = o
    BY <1>9, <2>2 DEF s, o, Others
  <2>4. r.total_refunded + f = r.total_refunded /\ f = 0
    BY <1>2, <1>5, <1>10
  <2>5. /\ plans'[p].total_issued = plans[p].total_issued + 0
        /\ plans'[p].total_refunded = plans[p].total_refunded + 0
    BY <1>2, <1>3, <1>6, <2>4
  <2> HIDE DEF f, p, l, r
  <2>6. Refunds(p, 0, 0, 0)
    BY <1>1, <1>6, <1>7, <2>3, <2>5 DEF Refunds, s, o
  <2> QED BY <2>6, RefundsKeepSales
<1>11. CASE l.locker # Mart
  <2>1. k \in DOMAIN o
    BY <1>1, <1>7, <1>11
  <2>2. o[k].locked = l.locked /\ s[k].locked = lock.locked
    BY <1>6, <1>7, <1>8, <1>9, <2>1
  <2>3. /\ IsFiniteSet(DOMAIN o) /\ DOMAIN s = DOMAIN o \cup {k}
        /\ \A j \in DOMAIN o : o[j].locked \in Int
        /\ s[k].locked \in Int
        /\ \A j \in DOMAIN o : j # k => s[j] = o[j]
        /\ s[k].locked = (IF k \in DOMAIN o THEN o[k].locked ELSE 0) + d
    BY <1>2, <1>4, <1>7, <1>9, <2>1, <2>2
  <2> HIDE DEF l, r, f, t, p
  <2>4. \A q : LockedOf(s, q) = LockedOf(o, q) + (IF q = k[1] THEN d ELSE 0)
    BY <1>4, <2>3, LockedChanges
  <2>5. \A q \in DOMAIN plans :
           /\ LockedOf(s, q) \in Int
           /\ LockedOf(s, q) <= LockedOf(o, q) + (IF q = p THEN d ELSE 0)
    BY <1>4, <1>7, <2>4 DEF p
  <2>6. /\ plans'[p].total_issued = plans[p].total_issued + 0
        /\ plans'[p].total_refunded = plans[p].total_refunded + f
    BY <1>2, <1>3, <1>6 DEF r
  <2>7. /\ p \in DOMAIN plans /\ DOMAIN plans' = DOMAIN plans
        /\ f \in Int /\ d \in Int /\ f + d <= 0
        /\ \A q \in DOMAIN plans : q # p => plans'[q] = plans[q]
    BY <1>1, <1>4, <1>6
  <2>8. Refunds(p, 0, f, d)
    BY <2>5, <2>6, <2>7 DEF Refunds, s, o
  <2> QED BY <2>8, RefundsKeepSales
<1> QED BY <1>10, <1>11

\* A move keeps the locker, so what others may have back stays under the plan.
LEMMA MoveKeepsSales ==
    ASSUME MartInv, IInv', NEW u \in Users, NEW to \in Receivers, NEW m \in Mids,
           NEW k \in DOMAIN locks, NEW q \in 1 .. mid[u][m], onmidtrans(u, m, q, k, to),
           UNCHANGED martvars
    PROVE  SalesStay'
<1> DEFINE p == k[1]
           n == <<p, plans[p].last_lock_id + 1>>
           t == locks'
           o == Others(locks)
           s == Others(t)
<1>1. /\ MovesLock(k, n, t) /\ p \in DOMAIN plans /\ PlansMove(p, 0)
      /\ plans'[p].total_issued = plans[p].total_issued
      /\ plans'[p].total_refunded = plans[p].total_refunded
  BY MoveEffect DEF MartInv
<1> HIDE DEF n, t
<1>2. /\ DOMAIN o = {j \in DOMAIN locks : locks[j].locker # Mart} /\ IsFiniteSet(DOMAIN o)
      /\ \A j \in DOMAIN o : o[j] = locks[j] /\ o[j].locked \in Int
      /\ \A x : LockedOf(o, x) \in Int
  BY OthersAreLocks DEF MartInv
<1>3. DOMAIN s = {j \in DOMAIN t : t[j].locker # Mart} /\ \A j \in DOMAIN s : s[j] = t[j]
  BY DEF Others
<1> HIDE DEF o, s
<1>4. \A x : LockedOf(s, x) = LockedOf(o, x)
  <2>1. CASE locks[k].locker = Mart
    <3>1. /\ k \notin DOMAIN o /\ k \notin DOMAIN s /\ n \notin DOMAIN s
          /\ DOMAIN s \subseteq DOMAIN o /\ DOMAIN o \subseteq DOMAIN s
          /\ \A j \in DOMAIN o : s[j] = o[j]
      BY <1>1, <1>2, <1>3, <2>1 DEF MovesLock
    <3>2. DOMAIN s = DOMAIN o
      BY <3>1
    <3>3. s = o
      BY <3>1, <3>2 DEF s, o, Others
    <3> QED BY <3>3
  <2>2. CASE locks[k].locker # Mart
    <3>1. /\ k \in DOMAIN o /\ n \notin DOMAIN o /\ n \in DOMAIN s
          /\ DOMAIN s \subseteq DOMAIN o \cup {n} /\ DOMAIN o \ {k} \subseteq DOMAIN s
      BY <1>1, <1>2, <1>3, <2>2 DEF MovesLock
    <3>2. /\ k \in DOMAIN s <=> k \in DOMAIN t
          /\ k \in DOMAIN s => s[k] = t[k]
      BY <1>1, <1>3, <2>2 DEF MovesLock
    <3>3. s[n] = t[n] /\ o[k] = locks[k]
      BY <1>2, <1>3, <3>1
    <3>4. s[n].locked + (IF k \in DOMAIN s THEN s[k].locked ELSE 0) = o[k].locked
      BY <1>1, <3>2, <3>3 DEF MovesLock
    <3>5. \A j \in DOMAIN o : j # k => s[j] = o[j]
      BY <1>1, <1>2, <1>3, <3>1 DEF MovesLock
    <3>6. \A j \in DOMAIN s : s[j].locked \in Int
      BY <1>1, <1>3 DEF MovesLock
    <3>7. n[1] = k[1]
      BY <1>1 DEF MovesLock
    <3>8. IsFiniteSet(DOMAIN o) /\ \A j \in DOMAIN o : o[j].locked \in Int
      BY <1>2
    <3> HIDE DEF p
    <3> QED BY <3>1, <3>4, <3>5, <3>6, <3>7, <3>8, LockedMoves
  <2> QED BY <2>1, <2>2
<1>5. \A x \in DOMAIN plans :
         /\ LockedOf(s, x) \in Int
         /\ LockedOf(s, x) <= LockedOf(o, x) + (IF x = p THEN 0 ELSE 0)
  BY <1>2, <1>4
<1>6. plans[p].total_issued \in Int /\ plans[p].total_refunded \in Int
  BY <1>1, SalesTypes
<1>7. Refunds(p, 0, 0, 0)
  BY <1>1, <1>5, <1>6 DEF Refunds, PlansMove, s, o, t
<1> QED BY <1>7, RefundsKeepSales

\* Locks moved to the mining contract take nothing back.
LEMMA MoveDataKeepsSales ==
    ASSUME MartInv, NEW p \in PlanIds, NEW c \in MoveCounts, movedata(p, c), UNCHANGED martvars
    PROVE  SalesStay'
<1> DEFINE cursor  == gstate1.last_move_lock_id + 1
           ahead   == {k \in LocksOf(p) : k[2] >= cursor}
           scanned == {k \in ahead : Cardinality({j \in ahead : j[2] < k[2]}) < c}
           moved   == Movable(scanned)
           amount  == SumFunction([k \in moved |-> locks[k].locked])
           r       == plans[p]
           t       == locks'
           o       == Others(locks)
           s       == Others(t)
           gone    == {k \in DOMAIN o : k \in moved}
           w       == [k \in gone |-> o[k].locked]
           out     == r.total_unlocked + amount
           left    == r.total_locked - amount
           row     == [r EXCEPT !.total_unlocked = out, !.total_locked = left]
           away(l) == [l EXCEPT !.unlocked = l.unlocked + l.locked, !.locked = 0,
                                !.status = "unlocked"]
<1>1. /\ p \in DOMAIN plans
      /\ plans' = [plans EXCEPT ![p] = row]
      /\ t = [k \in DOMAIN locks |-> IF k \in moved THEN away(locks[k]) ELSE locks[k]]
  BY DEF movedata
<1>2. moved \in SUBSET DOMAIN locks /\ \A k \in moved : k[1] = p
  BY DEF Movable, LocksOf
<1> HIDE DEF moved, amount
<1>3. r \in PlanRow
  BY <1>1 DEF MartInv, IInv, TypeOK, TablesOK, IsTable
<1>4. row.total_issued = r.total_issued /\ row.total_refunded = r.total_refunded
  <2> HIDE DEF r, out, left
  <2> QED BY <1>3 DEF PlanRow
<1>5. \A k \in DOMAIN locks : away(locks[k]).locked = 0 /\ away(locks[k]).locker = locks[k].locker
  <2> TAKE k \in DOMAIN locks
  <2> DEFINE l == locks[k]
             sum == l.unlocked + l.locked
             gon == [l EXCEPT !.unlocked = sum, !.locked = 0, !.status = "unlocked"]
  <2>1. l \in LockRow
    BY DEF MartInv, IInv, TypeOK, TablesOK, IsTable
  <2>2. gon.locked = 0 /\ gon.locker = l.locker
    <3> HIDE DEF l, sum
    <3> QED BY <2>1 DEF LockRow
  <2> QED BY <2>2
<1> HIDE DEF away, row
<1>6. /\ DOMAIN t = DOMAIN locks
      /\ \A k \in moved : t[k].locked = 0
      /\ \A k \in DOMAIN locks : t[k].locker = locks[k].locker
      /\ \A k \in DOMAIN locks \ moved : t[k] = locks[k]
  <2> HIDE DEF t
  <2> QED BY <1>1, <1>2, <1>5
<1> HIDE DEF t
<1>7. /\ DOMAIN o = {j \in DOMAIN locks : locks[j].locker # Mart} /\ IsFiniteSet(DOMAIN o)
      /\ \A j \in DOMAIN o : o[j] = locks[j] /\ o[j].locked \in Nat
      /\ \A x : LockedOf(o, x) \in Int
  BY OthersAreLocks DEF MartInv
<1>8. DOMAIN s = {j \in DOMAIN t : t[j].locker # Mart} /\ \A j \in DOMAIN s : s[j] = t[j]
  BY DEF Others
<1> HIDE DEF o, s
<1>9. DOMAIN w = gone /\ gone \in SUBSET DOMAIN o /\ gone \in SUBSET moved
      /\ \A k \in gone : w[k] = o[k].locked
  OBVIOUS
<1>10. Closes(o, s, p, w)
  <2>1. DOMAIN s = DOMAIN o
    BY <1>6, <1>7, <1>8
  <2>2. \A k \in gone : k[1] = p /\ s[k].locked = 0
    BY <1>2, <1>6, <1>8, <1>9, <2>1
  <2>3. \A j \in DOMAIN o \ gone : s[j] = o[j]
    BY <1>6, <1>7, <1>8, <2>1
  <2>4. \A j \in DOMAIN o : o[j].locked \in Int
    BY <1>7
  <2> HIDE DEF w, gone
  <2> QED BY <1>7, <1>9, <2>1, <2>2, <2>3, <2>4 DEF Closes
<1>11. /\ SumFunction(w) \in Int
       /\ LockedOf(s, p) = LockedOf(o, p) - SumFunction(w)
       /\ \A q : q = p \/ LockedOf(s, q) = LockedOf(o, q)
  <2> HIDE DEF w
  <2> QED BY <1>10, LockedCloses
<1>12. SumFunction(w) >= 0
  <2> HIDE DEF w, gone
  <2>1. SumFunction(w) = Sum(w, gone)
    BY <1>9, SumFunctionIsSum
  <2>2. IsFiniteSet(gone) /\ \A k \in gone : w[k] \in Nat
    BY <1>7, <1>9, FS_Subset
  <2>3. gone \in SUBSET gone
    OBVIOUS
  <2>4. Sum(w, gone) \in Nat
    BY <2>2, <2>3, SumNat
  <2> QED BY <2>1, <2>4
<1>13. \A q \in DOMAIN plans :
          /\ LockedOf(s, q) \in Int
          /\ LockedOf(s, q) <= LockedOf(o, q) + (IF q = p THEN 0 ELSE 0)
  <2> TAKE q \in DOMAIN plans
  <2>1. LockedOf(o, q) \in Int /\ LockedOf(o, p) \in Int
    BY <1>7
  <2> HIDE DEF w
  <2>2. CASE q = p
    BY <1>11, <1>12, <2>1, <2>2
  <2>3. CASE q # p
    BY <1>11, <2>1, <2>3
  <2> QED BY <2>2, <2>3
<1>14. plans[p].total_issued \in Int /\ plans[p].total_refunded \in Int
  BY <1>1, SalesTypes
<1>15. /\ DOMAIN plans' = DOMAIN plans /\ plans'[p] = row
       /\ \A q \in DOMAIN plans : q # p => plans'[q] = plans[q]
  BY <1>1
<1>16. Refunds(p, 0, 0, 0)
  BY <1>1, <1>4, <1>13, <1>14, <1>15 DEF Refunds, s, o, t
<1> QED BY <1>16, RefundsKeepSales

\* Whatever the custody does.
LEMMA CustodyKeepsSales ==
    ASSUME MartInv, IInv', Next, MartRefuses, UNCHANGED martvars
    PROVE  SalesStay'
<1>1. ASSUME Configure \/ Tick PROVE SalesStay'
  BY <1>1, SalesSame DEF Configure, Tick, init, setconfig, whitelist, blacklist
<1>2. ASSUME Lock PROVE SalesStay'
  <2>1. ASSUME NEW u \in Lockers, NEW a \in Assets, NEW n \in StrayAmounts,
               onnfttrans_ignored(u, a, n)
        PROVE  SalesStay'
    BY <2>1, SalesSame DEF onnfttrans_ignored
  <2> QED BY <1>2, <2>1, LockKeepsSales DEF Lock
<1>3. ASSUME Release PROVE SalesStay'
  BY <1>3, ReleaseKeepsSales DEF Release, unlock, endlock
<1>4. ASSUME Move PROVE SalesStay'
  BY <1>4, MoveKeepsSales, MoveDataKeepsSales DEF Move
<1> QED BY <1>1, <1>2, <1>3, <1>4, PlanKeepsSales DEF Next

------------------------------------------------------------------------------
(* What a step of the mart does to its stock and its revenue *)

\* A product moves with the balances it stands for.
ProductPaid(id, d, g, s) ==
    /\ d \in Int /\ g \in Int /\ s \in Int
    /\ ProductMoves(passes, passes', id, d, g, s)
    /\ \A a \in Assets :
          pass'[Mart][a] = pass[Mart][a] + (IF a = passes'[id].nft THEN d ELSE 0)
    /\ \A m \in Mids :
          mid'[Mart][m] = mid[Mart][m] + (IF m = passes'[id].gift THEN g ELSE 0)
    /\ money'[Split] = money[Split] + passes'[id].price * s

LEMMA PaidKeepsStock ==
    ASSUME MartInv, NEW id, NEW d, NEW g, NEW s, ProductPaid(id, d, g, s)
    PROVE  /\ StockHeld' /\ SalesSettle'
           /\ \A p : SoldIn(passes', p)
                         = SoldIn(passes, p) + (IF p = passes'[id].custody_plan_id THEN s ELSE 0)
<1> DEFINE u == passes'
<1>1. d \in Int /\ g \in Int /\ s \in Int /\ ProductMoves(passes, u, id, d, g, s)
  BY DEF ProductPaid
<1> HIDE DEF u
<1>2. /\ \A a : /\ PassesIn(passes, a) \in Int
                /\ PassesIn(u, a) = PassesIn(passes, a) + (IF a = u[id].nft THEN d ELSE 0)
      /\ \A m : /\ GiftsIn(passes, m) \in Int
                /\ GiftsIn(u, m) = GiftsIn(passes, m) + (IF m = u[id].gift THEN g ELSE 0)
      /\ \A p : /\ SoldIn(passes, p) \in Int
                /\ SoldIn(u, p)
                       = SoldIn(passes, p) + (IF p = u[id].custody_plan_id THEN s ELSE 0)
      /\ RevenueIn(passes) \in Int
      /\ RevenueIn(u) = RevenueIn(passes) + u[id].price * s
  BY <1>1, ProductSums
<1>3. /\ \A a \in Assets : pass[Mart][a] = PassesIn(passes, a)
      /\ \A m \in Mids : mid[Mart][m] = GiftsIn(passes, m)
      /\ \A i \in DOMAIN passes : passes[i].nft_total - passes[i].nft_available
                                      = passes[i].gift_nft_total - passes[i].gift_nft_available
      /\ money[Split] - FirstMoney[Split] = RevenueIn(passes)
  BY SumsOfTable DEF TableSums, MartInv
<1>4. /\ \A a \in Assets : pass'[Mart][a] = PassesIn(u, a)
      /\ \A m \in Mids : mid'[Mart][m] = GiftsIn(u, m)
  BY <1>2, <1>3 DEF ProductPaid, u
<1>5. ASSUME NEW i \in DOMAIN u
      PROVE  u[i].nft_total - u[i].nft_available = u[i].gift_nft_total - u[i].gift_nft_available
  <2>1. \A r \in PassRow : /\ r.nft_total \in Int /\ r.nft_available \in Int
                           /\ r.gift_nft_total \in Int /\ r.gift_nft_available \in Int
    BY DEF PassRow
  <2>2. u[id] \in PassRow /\ \A j \in DOMAIN passes : passes[j] \in PassRow
    BY <1>1 DEF ProductMoves
  <2>3. CASE i # id
    <3>1. i \in DOMAIN passes /\ u[i] = passes[i]
      BY <1>1, <2>3 DEF ProductMoves
    <3> QED BY <1>3, <3>1
  <2>4. CASE i = id /\ id \in DOMAIN passes
    <3> DEFINE A == passes[id].nft_total
               B == passes[id].nft_available
               C == passes[id].gift_nft_total
               E == passes[id].gift_nft_available
    <3>1. /\ u[id].nft_available = B + d /\ u[id].gift_nft_available = E + g
          /\ u[id].nft_total = A + (d + s) /\ u[id].gift_nft_total = C + (g + s)
      BY <1>1, <2>4 DEF ProductMoves
    <3>2. A \in Int /\ B \in Int /\ C \in Int /\ E \in Int /\ A - B = C - E
      BY <1>3, <2>1, <2>2, <2>4
    <3> HIDE DEF A, B, C, E
    <3>3. A + (d + s) - (B + d) = C + (g + s) - (E + g)
      BY <1>1, <3>2
    <3>4. /\ u[id].nft_total - u[id].nft_available = A + (d + s) - (B + d)
          /\ u[id].gift_nft_total - u[id].gift_nft_available = C + (g + s) - (E + g)
      BY <1>1, <3>1, <3>2
    <3>5. u[id].nft_total - u[id].nft_available = u[id].gift_nft_total - u[id].gift_nft_available
      BY <3>3, <3>4
    <3> QED BY <2>4, <3>5
  <2>5. CASE i = id /\ id \notin DOMAIN passes
    <3>1. /\ u[id].nft_available = d /\ u[id].gift_nft_available = g
          /\ u[id].nft_total = d + s /\ u[id].gift_nft_total = g + s
      BY <1>1, <2>5 DEF ProductMoves
    <3> QED BY <1>1, <2>5, <3>1
  <2> QED BY <2>3, <2>4, <2>5
<1>6. money'[Split] - FirstMoney[Split] = RevenueIn(u)
  <2> DEFINE e == u[id].price * s
  <2>1. u[id].price \in Int /\ FirstMoney[Split] \in Int /\ money[Split] \in Int
    <3>1. u[id] \in PassRow
      BY <1>1 DEF ProductMoves
    <3>2. u[id].price \in Prices
      BY <3>1 DEF PassRow
    <3>3. \A c \in Prices : c \in Int
      BY MartInputs
    <3>4. FirstMoney[Split] \in Int
      BY MartInputs
    <3>5. money[Split] \in Int
      BY DEF MartInv, TypeOK_mart
    <3> QED BY <3>2, <3>3, <3>4, <3>5
  <2>2. e \in Int
    BY <1>1, <2>1
  <2>3. money'[Split] = money[Split] + e
    BY DEF ProductPaid, u
  <2> HIDE DEF e
  <2>4. money'[Split] - FirstMoney[Split] = RevenueIn(passes) + e
    BY <1>2, <1>3, <2>1, <2>2, <2>3
  <2> QED BY <1>2, <2>4 DEF e
<1>7. StockHeld' /\ SalesSettle'
  BY <1>4, <1>5, <1>6, SumsOfTableNext DEF TableSums, u
<1> QED BY <1>2, <1>7 DEF u

\* A step that sells nothing and leaves the custody alone keeps the claim on refunds.
LEMMA NothingSoldKeepsSales ==
    ASSUME MartInv, NEW id, NEW d, NEW g, ProductPaid(id, d, g, 0),
           UNCHANGED <<plans, locks, elsewhere>>
    PROVE  SalesStay'
<1>1. \A p : SoldIn(passes', p)
                 = SoldIn(passes, p) + (IF p = passes'[id].custody_plan_id THEN 0 ELSE 0)
  BY PaidKeepsStock
<1>2. \A p : SoldIn(passes, p) \in Int
  BY SalesTypes
<1>3. \A p : SoldIn(passes', p) = SoldIn(passes, p)
  BY <1>1, <1>2
<1> QED BY <1>3 DEF MartInv, SalesStay

\* A step that leaves the custody's own rows and balances keeps its books.
LEMMA BooksBeside ==
    ASSUME BooksInv, UNCHANGED <<plans, locks, stray>>,
           \A a \in Assets : pass'[Custody][a] = pass[Custody][a],
           \A m \in Mids : mid'[Custody][m] = mid[Custody][m]
    PROVE  BooksInv'
<1>1. PlanTotalsMatchLocks' /\ MidsPassThrough'
  BY DEF BooksInv, PlanTotalsMatchLocks, MidsPassThrough, LockedIn, LocksOf
<1>2. CustodyHolds'
  <2>1. \A a \in Assets : pass[Custody][a] = stray[a] + TotalOf(plans, a)
    BY BooksAreSums DEF BooksInv
  <2> QED BY <2>1, BooksAreSumsNext
<1> QED BY <1>1, <1>2 DEF BooksInv

\* Plans are only added, and their ids are under the bound.
LEMMA PlansGrow ==
    ASSUME Next \/ UNCHANGED vars, DOMAIN plans \subseteq PlanIds, gstate.last_plan_id \in Nat
    PROVE  DOMAIN plans \subseteq DOMAIN plans' /\ DOMAIN plans' \subseteq PlanIds
<1>1. ASSUME NEW u \in Lockers, NEW a \in Assets, NEW i \in Intervals, NEW t \in Times,
             addplan(u, a, i, t)
      PROVE  DOMAIN plans \subseteq DOMAIN plans' /\ DOMAIN plans' \subseteq PlanIds
  BY <1>1, CustodyBounds DEF addplan, Emplace, PlanIds
<1>2. ASSUME Plan PROVE DOMAIN plans \subseteq DOMAIN plans' /\ DOMAIN plans' \subseteq PlanIds
  BY <1>1, <1>2 DEF Plan, setplanowner, ontokentrans, setmovwindow
<1>3. ASSUME Lock \/ Release \/ Move PROVE DOMAIN plans' = DOMAIN plans
  <2>1. ASSUME NEW u, NEW a, NEW n, NEW r, NEW p, NEW d, onnfttrans(u, a, n, r, p, d)
        PROVE  DOMAIN plans' = DOMAIN plans
    BY <2>1 DEF onnfttrans, LockFor
  <2>2. ASSUME NEW u, NEW a, NEW n, onnfttrans_ignored(u, a, n) PROVE DOMAIN plans' = DOMAIN plans
    BY <2>2 DEF onnfttrans_ignored
  <2>3. ASSUME NEW k, NEW b, _unlock(k, b) PROVE DOMAIN plans' = DOMAIN plans
    BY <2>3 DEF _unlock
  <2>4. ASSUME NEW u, NEW m, NEW q, NEW k, NEW to, onmidtrans(u, m, q, k, to)
        PROVE  DOMAIN plans' = DOMAIN plans
    BY <2>4 DEF onmidtrans
  <2>5. ASSUME NEW p, NEW n, movedata(p, n) PROVE DOMAIN plans' = DOMAIN plans
    BY <2>5 DEF movedata
  <2>6. CASE Lock
    BY <2>1, <2>2, <2>6 DEF Lock
  <2>7. CASE Release
    BY <2>3, <2>7 DEF Release, unlock, endlock
  <2>8. CASE Move
    BY <2>4, <2>5, <2>8 DEF Move
  <2> QED BY <1>3, <2>6, <2>7, <2>8
<1>4. ASSUME Configure \/ Tick \/ UNCHANGED vars PROVE DOMAIN plans' = DOMAIN plans
  BY <1>4 DEF Configure, Tick, init, setconfig, whitelist, blacklist, vars
<1> QED BY <1>2, <1>3, <1>4 DEF Next

\* The custody's steps, and the step that changes nothing.
LEMMA CustodyKeepsMart ==
    ASSUME MartInv, CustodyStep \/ UNCHANGED allvars
    PROVE  MartInv'
<1>1. IInv' /\ BooksInv'
  BY StepInv, StepBooks DEF MartInv, CustodyStep, allvars, custodyvars
<1>2. DOMAIN plans \subseteq DOMAIN plans' /\ DOMAIN plans' \subseteq PlanIds
  <2>1. gstate.last_plan_id \in Nat /\ DOMAIN plans \subseteq PlanIds
    BY DEF MartInv, IInv, TypeOK, GlobalsOK, Wired
  <2> QED BY <2>1, PlansGrow DEF CustodyStep, allvars, custodyvars
<1>3. UNCHANGED martvars
  BY DEF CustodyStep, allvars
<1>4. TypeOK_mart' /\ Wired'
  BY <1>2, <1>3 DEF MartInv, TypeOK_mart, Wired, martvars
<1>5. pass'[Mart] = pass[Mart] /\ mid'[Mart] = mid[Mart]
  BY DEF CustodyStep, MartRefuses, allvars, custodyvars, vars
<1>6. StockHeld' /\ SalesSettle'
  BY <1>3, <1>5, SumsOfTable, SumsOfTableNext DEF TableSums, MartInv, martvars
<1>7. SalesStay'
  <2>1. CASE CustodyStep
    BY <1>1, <2>1, CustodyKeepsSales DEF CustodyStep
  <2>2. CASE UNCHANGED allvars
    BY <2>2, <1>3, SalesSame DEF allvars, custodyvars, vars
  <2> QED BY <2>1, <2>2
<1> QED BY <1>1, <1>4, <1>6, <1>7 DEF MartInv

------------------------------------------------------------------------------
(* One lemma per action of the mart *)

\* A product's row is replaced.
RowMoves(id, row, d, g, s) ==
    LET t == passes[id]
    IN  /\ id \in DOMAIN passes /\ passes' = [passes EXCEPT ![id] = row] /\ row \in PassRow
        /\ row.nft = t.nft /\ row.gift = t.gift
        /\ row.custody_plan_id = t.custody_plan_id /\ row.price = t.price
        /\ row.nft_available = t.nft_available + d
        /\ row.gift_nft_available = t.gift_nft_available + g
        /\ row.nft_total = t.nft_total + (d + s)
        /\ row.gift_nft_total = t.gift_nft_total + (g + s)

LEMMA RowIsProduct ==
    ASSUME MartInv, NEW id, NEW row, NEW d, NEW g, NEW s, RowMoves(id, row, d, g, s)
    PROVE  ProductMoves(passes, passes', id, d, g, s) /\ passes'[id] = row
<1> DEFINE u == passes'
<1>1. id \in DOMAIN passes /\ u = [passes EXCEPT ![id] = row]
  BY DEF RowMoves
<1> HIDE DEF u
<1>2. /\ DOMAIN u = DOMAIN passes /\ u[id] = row
      /\ \A i \in DOMAIN passes : i = id \/ u[i] = passes[i]
  BY <1>1
<1>3. IsFiniteSet(DOMAIN passes) /\ \A i \in DOMAIN passes : passes[i] \in PassRow
  BY SalesTypes
<1>4. DOMAIN u = DOMAIN passes \cup {id}
  BY <1>1, <1>2
<1> QED BY <1>1, <1>2, <1>3, <1>4 DEF RowMoves, ProductMoves, u

\* The mart's variables after a product moves.
LEMMA ProductTypes ==
    ASSUME MartInv, NEW id, NEW d, NEW g, NEW s, ProductMoves(passes, passes', id, d, g, s),
           mstate' \in [last_pass_id : Nat, last_order_id : Nat,
                        contracts : BOOLEAN, custody_contract : Accounts],
           mstate'.last_pass_id >= mstate.last_pass_id, id \in 1 .. mstate'.last_pass_id,
           passes'[id].custody_plan_id \in DOMAIN plans, DOMAIN plans' = DOMAIN plans,
           money' \in [Users \cup {Split} -> Nat], elsewhere' \in [PlanIds -> Nat]
    PROVE  TypeOK_mart'
<1>1. /\ DOMAIN passes \subseteq 1 .. mstate.last_pass_id
      /\ mstate.last_pass_id \in Nat /\ mstate'.last_pass_id \in Nat
      /\ \A i \in DOMAIN passes : passes[i].custody_plan_id \in DOMAIN plans
  BY DEF MartInv, TypeOK_mart, IsTable
<1>2. DOMAIN passes' \subseteq 1 .. mstate'.last_pass_id
  BY <1>1 DEF ProductMoves
<1>3. /\ \A i \in DOMAIN passes' : passes'[i] \in PassRow
      /\ \A i \in DOMAIN passes' : passes'[i].custody_plan_id \in DOMAIN plans
  BY <1>1 DEF ProductMoves
<1> QED BY <1>2, <1>3 DEF TypeOK_mart, IsTable

\* The types of what the mart's actions read.
LEMMA MartTypes ==
    ASSUME MartInv
    PROVE  /\ mstate \in [last_pass_id : Nat, last_order_id : Nat,
                          contracts : BOOLEAN, custody_contract : Accounts]
           /\ \A id \in DOMAIN passes :
                 /\ passes[id] \in PassRow
                 /\ id \in 1 .. mstate.last_pass_id /\ mstate.last_pass_id \in Nat
                 /\ passes[id].nft \in Assets /\ passes[id].gift \in Mids
                 /\ passes[id].price \in Nat
                 /\ passes[id].nft_available \in Nat /\ passes[id].nft_total \in Nat
                 /\ passes[id].gift_nft_available \in Nat /\ passes[id].gift_nft_total \in Nat
                 /\ passes[id].custody_plan_id \in DOMAIN plans
           /\ money \in [Users \cup {Split} -> Nat] /\ elsewhere \in [PlanIds -> Nat]
           /\ pass \in [Accounts -> [Assets -> Nat]] /\ mid \in [Accounts -> [Mids -> Nat]]
           /\ now \in Nat
<1>1. ASSUME NEW r \in PassRow
      PROVE  /\ r.nft \in Assets /\ r.gift \in Mids /\ r.price \in Nat
             /\ r.nft_available \in Nat /\ r.nft_total \in Nat
             /\ r.gift_nft_available \in Nat /\ r.gift_nft_total \in Nat
  <2>1. \A c \in Prices : c \in Nat
    BY MartInputs
  <2>2. /\ r.nft \in Assets /\ r.gift \in Mids /\ r.price \in Prices
        /\ r.nft_available \in Nat /\ r.nft_total \in Nat
        /\ r.gift_nft_available \in Nat /\ r.gift_nft_total \in Nat
    BY DEF PassRow
  <2> QED BY <2>1, <2>2
<1>2. /\ \A id \in DOMAIN passes :
            /\ passes[id] \in PassRow
            /\ id \in 1 .. mstate.last_pass_id
            /\ passes[id].custody_plan_id \in DOMAIN plans
      /\ mstate \in [last_pass_id : Nat, last_order_id : Nat,
                     contracts : BOOLEAN, custody_contract : Accounts]
      /\ money \in [Users \cup {Split} -> Nat] /\ elsewhere \in [PlanIds -> Nat]
  BY DEF MartInv, TypeOK_mart, IsTable
<1>3. /\ pass \in [Accounts -> [Assets -> Nat]] /\ mid \in [Accounts -> [Mids -> Nat]]
      /\ now \in Nat
  BY DEF MartInv, IInv, TypeOK, GlobalsOK, BalancesOK
<1>4. mstate.last_pass_id \in Nat
  BY <1>2
<1> QED BY <1>1, <1>2, <1>3, <1>4

\* What a step keeps that leaves the custody's variables.
LEMMA CustodyUntouched ==
    ASSUME MartInv, UNCHANGED custodyvars
    PROVE  IInv' /\ BooksInv'
BY StepInv, StepBooks DEF MartInv, custodyvars

\* init names accounts.
LEMMA InitMartKeeps ==
    ASSUME MartInv, NEW c \in Wirings, init_mart(c)
    PROVE  MartInv'
<1>1. UNCHANGED <<passes, money, elsewhere, custodyvars>>
      /\ mstate' = [mstate EXCEPT !.contracts = TRUE, !.custody_contract = c]
  BY DEF init_mart
<1>2. c \in Accounts /\ c # Mart
  BY MartAccounts
<1>3. IInv' /\ BooksInv'
  BY <1>1, CustodyUntouched
<1>4. /\ mstate' \in [last_pass_id : Nat, last_order_id : Nat,
                      contracts : BOOLEAN, custody_contract : Accounts]
      /\ mstate'.last_pass_id = mstate.last_pass_id /\ mstate'.custody_contract = c
  BY <1>1, <1>2, MartTypes
<1>5. TypeOK_mart' /\ Wired'
  BY <1>1, <1>2, <1>4 DEF MartInv, TypeOK_mart, Wired, custodyvars, vars
<1>6. StockHeld' /\ SalesSettle'
  BY <1>1, SumsOfTable, SumsOfTableNext DEF TableSums, MartInv, custodyvars, vars
<1>7. SalesStay'
  BY <1>1 DEF MartInv, SalesStay, custodyvars, vars
<1> QED BY <1>3, <1>5, <1>6, <1>7 DEF MartInv

\* A new product has no stock.
LEMMA AddPassKeeps ==
    ASSUME MartInv, NEW u \in Owners, NEW a \in Assets, NEW m \in Mids, NEW c \in Prices,
           NEW t \in SellTimes, NEW p \in PlanIds, addpass(u, a, m, c, t[1], t[2], p)
    PROVE  MartInv'
<1> DEFINE id == mstate.last_pass_id + 1
           v == passes'
           row == [owner |-> u, nft |-> a, nft_total |-> 0, nft_available |-> 0,
                   gift |-> m, gift_nft_total |-> 0, gift_nft_available |-> 0,
                   price |-> c, custody_plan_id |-> p, status |-> "processing",
                   sell_started_at |-> t[1], sell_ended_at |-> t[2]]
<1>1. /\ p \in DOMAIN plans /\ v = Emplace(passes, id, row)
      /\ mstate' = [mstate EXCEPT !.last_pass_id = id]
      /\ UNCHANGED <<money, elsewhere, custodyvars>>
  BY DEF addpass
<1>2. t[1] \in Nat /\ t[2] \in Nat /\ p \in Nat
  <2>1. t \in Nat \X Nat
    BY MartInputs
  <2> QED BY <2>1, CustodyBounds DEF PlanIds
<1>3. /\ row \in PassRow /\ row.custody_plan_id = p
      /\ row.nft_total = 0 /\ row.nft_available = 0
      /\ row.gift_nft_total = 0 /\ row.gift_nft_available = 0
  BY <1>2 DEF PassRow
<1>4. mstate.last_pass_id \in Nat /\ id \in Nat /\ id \notin DOMAIN passes
  <2>1. mstate.last_pass_id \in Nat /\ \A i \in DOMAIN passes : i \in 1 .. mstate.last_pass_id
    BY MartTypes
  <2> QED BY <2>1
<1>5. /\ mstate' \in [last_pass_id : Nat, last_order_id : Nat,
                      contracts : BOOLEAN, custody_contract : Accounts]
      /\ mstate'.last_pass_id = id /\ mstate'.custody_contract = mstate.custody_contract
  BY <1>1, <1>4, MartTypes
<1>6. id \in 1 .. mstate'.last_pass_id /\ mstate'.last_pass_id >= mstate.last_pass_id
  BY <1>4, <1>5
<1> HIDE DEF row, v, id
<1>7. DOMAIN v = DOMAIN passes \cup {id} /\ v[id] = row
      /\ \A i \in DOMAIN passes : i = id \/ v[i] = passes[i]
  BY <1>1 DEF Emplace
<1>8. ProductMoves(passes, v, id, 0, 0, 0)
  <2>1. IsFiniteSet(DOMAIN passes) /\ \A i \in DOMAIN passes : passes[i] \in PassRow
    BY SalesTypes
  <2> QED BY <1>3, <1>4, <1>7, <2>1 DEF ProductMoves
<1>9. ProductPaid(id, 0, 0, 0)
  <2>1. /\ \A b \in Assets : pass[Mart][b] \in Int /\ pass'[Mart][b] = pass[Mart][b]
        /\ \A b \in Mids : mid[Mart][b] \in Int /\ mid'[Mart][b] = mid[Mart][b]
        /\ money[Split] \in Int /\ money'[Split] = money[Split]
    <3>1. Mart \in Accounts
      BY MartAccounts DEF Accounts
    <3> QED BY <1>1, <3>1, MartTypes DEF custodyvars, vars
  <2>2. v[id].price \in Int
    <3>1. \A x \in Prices : x \in Int
      BY MartInputs
    <3> QED BY <1>3, <1>7, <3>1 DEF PassRow
  <2>3. v[id].price * 0 = 0
    BY <2>2
  <2> QED BY <1>8, <2>1, <2>3 DEF ProductPaid, v
<1>10. IInv' /\ BooksInv'
  BY <1>1, CustodyUntouched
<1>11. TypeOK_mart'
  <2>1. /\ money' \in [Users \cup {Split} -> Nat] /\ elsewhere' \in [PlanIds -> Nat]
        /\ DOMAIN plans' = DOMAIN plans /\ passes'[id].custody_plan_id \in DOMAIN plans
    BY <1>1, <1>3, <1>7, MartTypes DEF custodyvars, vars, v
  <2> QED BY <1>5, <1>6, <1>8, <2>1, ProductTypes DEF v
<1>12. StockHeld' /\ SalesSettle' /\ SalesStay'
  <2>1. UNCHANGED <<plans, locks, elsewhere>>
    BY <1>1 DEF custodyvars, vars
  <2> QED BY <1>9, <2>1, PaidKeepsStock, NothingSoldKeepsSales
<1>13. Wired'
  BY <1>1, <1>5 DEF MartInv, Wired, custodyvars, vars
<1> QED BY <1>10, <1>11, <1>12, <1>13 DEF MartInv

\* A change of a product's owner, status or end.
LEMMA RowKeeps ==
    ASSUME MartInv, NEW id, NEW row, RowMoves(id, row, 0, 0, 0),
           UNCHANGED <<mstate, money, elsewhere, custodyvars>>
    PROVE  MartInv'
<1>1. ProductMoves(passes, passes', id, 0, 0, 0) /\ passes'[id] = row /\ id \in DOMAIN passes
  BY RowIsProduct DEF RowMoves
<1>2. row.price = passes[id].price /\ row.custody_plan_id = passes[id].custody_plan_id
  BY DEF RowMoves
<1>3. ProductPaid(id, 0, 0, 0)
  <2>1. /\ \A b \in Assets : pass[Mart][b] \in Int /\ pass'[Mart][b] = pass[Mart][b]
        /\ \A b \in Mids : mid[Mart][b] \in Int /\ mid'[Mart][b] = mid[Mart][b]
        /\ money[Split] \in Int /\ money'[Split] = money[Split]
    <3>1. Mart \in Accounts
      BY MartAccounts DEF Accounts
    <3> QED BY <3>1, MartTypes DEF custodyvars, vars
  <2>2. passes'[id].price * 0 = 0
    <3>1. passes'[id].price \in Nat
      BY <1>1, <1>2, MartTypes
    <3> QED BY <3>1
  <2> QED BY <1>1, <2>1, <2>2 DEF ProductPaid
<1>4. IInv' /\ BooksInv'
  BY CustodyUntouched
<1>5. TypeOK_mart'
  <2>1. /\ mstate' \in [last_pass_id : Nat, last_order_id : Nat,
                        contracts : BOOLEAN, custody_contract : Accounts]
        /\ mstate'.last_pass_id >= mstate.last_pass_id /\ id \in 1 .. mstate'.last_pass_id
        /\ passes'[id].custody_plan_id \in DOMAIN plans /\ DOMAIN plans' = DOMAIN plans
        /\ money' \in [Users \cup {Split} -> Nat] /\ elsewhere' \in [PlanIds -> Nat]
    BY <1>1, <1>2, MartTypes DEF custodyvars, vars
  <2> QED BY <1>1, <2>1, ProductTypes
<1>6. StockHeld' /\ SalesSettle' /\ SalesStay'
  <2>1. UNCHANGED <<plans, locks, elsewhere>>
    BY DEF custodyvars, vars
  <2> QED BY <1>3, <2>1, PaidKeepsStock, NothingSoldKeepsSales
<1>7. Wired'
  BY DEF MartInv, Wired, custodyvars, vars
<1> QED BY <1>4, <1>5, <1>6, <1>7 DEF MartInv

\* The steps on products.
LEMMA ProductKeeps == MartInv /\ Product => MartInv'
<1> SUFFICES ASSUME MartInv, Product PROVE MartInv'
  OBVIOUS
<1>1. ASSUME NEW id \in PassIds, closepass(id) PROVE MartInv'
  <2> DEFINE t == passes[id]
             e == now
             over == [t EXCEPT !.status = "closed"]
             row == [over EXCEPT !.sell_ended_at = e]
  <2>1. id \in DOMAIN passes /\ passes' = [passes EXCEPT ![id] = row]
        /\ UNCHANGED <<mstate, money, elsewhere, custodyvars>>
    BY <1>1 DEF closepass
  <2>2. t \in PassRow /\ e \in Nat
    BY <2>1, MartTypes
  <2>3. RowMoves(id, row, 0, 0, 0)
    <3>1. /\ row \in PassRow /\ row.nft = t.nft /\ row.gift = t.gift
          /\ row.custody_plan_id = t.custody_plan_id /\ row.price = t.price
          /\ row.nft_available = t.nft_available + 0
          /\ row.gift_nft_available = t.gift_nft_available + 0
          /\ row.nft_total = t.nft_total + (0 + 0)
          /\ row.gift_nft_total = t.gift_nft_total + (0 + 0)
      <4> HIDE DEF t, e
      <4>1. /\ over \in PassRow /\ over.nft = t.nft /\ over.gift = t.gift
            /\ over.custody_plan_id = t.custody_plan_id /\ over.price = t.price
            /\ over.nft_available = t.nft_available
            /\ over.gift_nft_available = t.gift_nft_available
            /\ over.nft_total = t.nft_total
            /\ over.gift_nft_total = t.gift_nft_total
        BY <2>2 DEF PassRow
      <4> HIDE DEF over
      <4> QED BY <2>2, <4>1 DEF PassRow
    <3> QED BY <2>1, <3>1 DEF RowMoves
  <2> HIDE DEF row
  <2> QED BY <2>1, <2>3, RowKeeps
<1>2. ASSUME NEW id \in PassIds, NEW e \in EndTimes, setendtime(id, e) PROVE MartInv'
  <2> DEFINE t == passes[id]
             row == [t EXCEPT !.sell_ended_at = e]
  <2>1. id \in DOMAIN passes /\ passes' = [passes EXCEPT ![id] = row]
        /\ UNCHANGED <<mstate, money, elsewhere, custodyvars>>
    BY <1>2 DEF setendtime
  <2>2. t \in PassRow /\ e \in Nat
    BY <2>1, MartTypes, MartInputs
  <2>3. RowMoves(id, row, 0, 0, 0)
    <3>1. /\ row \in PassRow /\ row.nft = t.nft /\ row.gift = t.gift
          /\ row.custody_plan_id = t.custody_plan_id /\ row.price = t.price
          /\ row.nft_available = t.nft_available + 0
          /\ row.gift_nft_available = t.gift_nft_available + 0
          /\ row.nft_total = t.nft_total + (0 + 0)
          /\ row.gift_nft_total = t.gift_nft_total + (0 + 0)
      <4> HIDE DEF t
      <4> QED BY <2>2 DEF PassRow
    <3> QED BY <2>1, <3>1 DEF RowMoves
  <2> HIDE DEF row
  <2> QED BY <2>1, <2>3, RowKeeps
<1>3. ASSUME NEW id \in PassIds, NEW u \in Owners, setowner(id, u) PROVE MartInv'
  <2> DEFINE t == passes[id]
             row == [t EXCEPT !.owner = u]
  <2>1. id \in DOMAIN passes /\ passes' = [passes EXCEPT ![id] = row]
        /\ UNCHANGED <<mstate, money, elsewhere, custodyvars>>
    BY <1>3 DEF setowner
  <2>2. t \in PassRow
    BY <2>1, MartTypes
  <2>3. RowMoves(id, row, 0, 0, 0)
    <3>1. /\ row \in PassRow /\ row.nft = t.nft /\ row.gift = t.gift
          /\ row.custody_plan_id = t.custody_plan_id /\ row.price = t.price
          /\ row.nft_available = t.nft_available + 0
          /\ row.gift_nft_available = t.gift_nft_available + 0
          /\ row.nft_total = t.nft_total + (0 + 0)
          /\ row.gift_nft_total = t.gift_nft_total + (0 + 0)
      <4> HIDE DEF t
      <4> QED BY <2>2 DEF PassRow
    <3> QED BY <2>1, <3>1 DEF RowMoves
  <2> HIDE DEF row
  <2> QED BY <2>1, <2>3, RowKeeps
<1> QED BY <1>1, <1>2, <1>3, InitMartKeeps, AddPassKeeps DEF Product

------------------------------------------------------------------------------
(* Refuels *)

\* A transfer to one other account, balance by balance.
LEMMA PassPaid ==
    ASSUME pass \in [Accounts -> [Assets -> Nat]], NEW a \in Assets, NEW from \in Accounts,
           NEW to \in Accounts, NEW n \in Nat, PassMoves(a, from, PayOne(Accounts, to, n))
    PROVE  /\ pass' \in [Accounts -> [Assets -> Nat]]
           /\ \A x \in Accounts, b \in Assets :
                 pass'[x][b] = pass[x][b] + (IF b = a /\ x = to THEN n ELSE 0)
                                          - (IF b = a /\ x = from THEN n ELSE 0)
<1> DEFINE p == PayOne(Accounts, to, n)
           new(x) == pass[x][a] + p[x] - (IF x = from THEN n ELSE 0)
<1>1. SumFunction(p) = n
  <2>1. IsFiniteSet(Accounts)
    <3>1. Accounts = (Users \cup {Custody}) \cup {Mine}
      BY DEF Accounts
    <3> QED BY <3>1, CustodyAccounts, FS_AddElement
  <2>2. Sum(p, Accounts) = n
    BY <2>1, PayOneSum
  <2>3. DOMAIN p = Accounts
    BY DEF PayOne
  <2> HIDE DEF p
  <2> QED BY <2>2, <2>3, SumFunctionIsSum
<1>2. pass' = [x \in Accounts |-> [pass[x] EXCEPT ![a] = new(x)]]
  BY <1>1 DEF PassMoves
<1>3. \A x \in Accounts : p[x] = (IF x = to THEN n ELSE 0)
  BY DEF PayOne
<1>4. pass' \in [Accounts -> [Assets -> Nat]]
  BY PassMovesType
<1> HIDE DEF p
<1>5. \A x \in Accounts :
         new(x) = pass[x][a] + (IF x = to THEN n ELSE 0) - (IF x = from THEN n ELSE 0)
  BY <1>3
<1> HIDE DEF new
<1>6. \A x \in Accounts : /\ pass'[x][a] = new(x)
                          /\ \A b \in Assets : b # a => pass'[x][b] = pass[x][b]
  BY <1>2
<1>7. \A x \in Accounts, b \in Assets : pass[x][b] \in Nat
  OBVIOUS
<1> SUFFICES ASSUME NEW x \in Accounts, NEW b \in Assets
             PROVE  pass'[x][b] = pass[x][b] + (IF b = a /\ x = to THEN n ELSE 0)
                                 - (IF b = a /\ x = from THEN n ELSE 0)
  BY <1>4
<1> HIDE DEF new
<1>8. CASE b = a
  BY <1>5, <1>6, <1>8
<1>9. CASE b # a
  BY <1>6, <1>7, <1>9
<1> QED BY <1>8, <1>9

\* The same of MIDs.
LEMMA MidPaid ==
    ASSUME mid \in [Accounts -> [Mids -> Nat]], NEW m \in Mids, NEW from \in Accounts,
           NEW to \in Accounts, from # to, NEW n \in Nat, MidMoves(m, from, to, n)
    PROVE  /\ mid' \in [Accounts -> [Mids -> Nat]]
           /\ \A x \in Accounts, b \in Mids :
                 mid'[x][b] = mid[x][b] + (IF b = m /\ x = to THEN n ELSE 0)
                                        - (IF b = m /\ x = from THEN n ELSE 0)
<1> DEFINE new(x) == mid[x][m] - (IF x = from THEN n ELSE 0) + (IF x = to THEN n ELSE 0)
<1>1. mid[from][m] >= n /\ mid' = [x \in Accounts |-> [mid[x] EXCEPT ![m] = new(x)]]
  BY DEF MidMoves
<1>2. \A x \in Accounts : new(x) \in Nat
  BY <1>1
<1>3. \A x \in Accounts :
         new(x) = mid[x][m] + (IF x = to THEN n ELSE 0) - (IF x = from THEN n ELSE 0)
  OBVIOUS
<1> HIDE DEF new
<1>4. mid' \in [Accounts -> [Mids -> Nat]]
  <2>1. \A x \in Accounts : [mid[x] EXCEPT ![m] = new(x)] \in [Mids -> Nat]
    BY <1>2
  <2> QED BY <1>1, <2>1
<1>5. \A x \in Accounts : /\ mid'[x][m] = new(x)
                          /\ \A b \in Mids : b # m => mid'[x][b] = mid[x][b]
  BY <1>1
<1>6. \A x \in Accounts, b \in Mids : mid[x][b] \in Nat
  OBVIOUS
<1> SUFFICES ASSUME NEW x \in Accounts, NEW b \in Mids
             PROVE  mid'[x][b] = mid[x][b] + (IF b = m /\ x = to THEN n ELSE 0)
                                 - (IF b = m /\ x = from THEN n ELSE 0)
  BY <1>4
<1> HIDE DEF new
<1>8. CASE b = m
  BY <1>3, <1>5, <1>8
<1>9. CASE b # m
  BY <1>5, <1>6, <1>9
<1> QED BY <1>8, <1>9

\* Balances that keep their types keep the custody's invariant.
LEMMA BalancesKeepInv ==
    ASSUME IInv, UNCHANGED <<config, plans, locks, now, stray>>,
           pass' \in [Accounts -> [Assets -> Nat]], mid' \in [Accounts -> [Mids -> Nat]]
    PROVE  IInv'
BY DEF IInv, TypeOK, GlobalsOK, TablesOK, BalancesOK, LockSplit, PlanSplit, IsTable, config

\* The accounts of the mart.
LEMMA MartParties ==
    /\ Mart \in Accounts /\ Mart # Custody /\ Custody \in Accounts /\ Mart \in Users
    /\ \A u \in Owners \cup Buyers : u \in Accounts /\ u \in Users /\ u # Mart /\ u # Custody
                                     /\ u # Split
BY MartAccounts, CustodyAccounts DEF Accounts

\* MIDs for the gifts of a product.
LEMMA MidRefuelKeeps ==
    ASSUME MartInv, NEW u \in Owners, NEW m \in Mids, NEW n \in RefuelAmounts,
           NEW id \in PassIds, verso_transfer(u, m, n, id)
    PROVE  MartInv'
<1> DEFINE t == passes[id]
           avail == t.gift_nft_available + n
           total == t.gift_nft_total + n
           row == [t EXCEPT !.gift_nft_available = avail, !.gift_nft_total = total]
<1>1. /\ id \in DOMAIN passes /\ t.gift = m /\ MidMoves(m, u, Mart, n)
      /\ passes' = [passes EXCEPT ![id] = row]
      /\ UNCHANGED <<mstate, money, elsewhere, config, plans, locks, pass, now, stray>>
  BY DEF verso_transfer
<1>2. n \in Nat
  BY MartInputs
<1>3. /\ t \in PassRow /\ avail \in Nat /\ total \in Nat
      /\ t.nft_available \in Nat /\ t.nft_total \in Nat
      /\ t.gift_nft_available \in Nat /\ t.gift_nft_total \in Nat /\ t.price \in Nat
      /\ t.custody_plan_id \in DOMAIN plans /\ id \in 1 .. mstate.last_pass_id
      /\ mstate.last_pass_id \in Nat
  <2>1. /\ t \in PassRow /\ t.nft_available \in Nat /\ t.nft_total \in Nat
        /\ t.gift_nft_available \in Nat /\ t.gift_nft_total \in Nat /\ t.price \in Nat
        /\ t.custody_plan_id \in DOMAIN plans /\ id \in 1 .. mstate.last_pass_id
        /\ mstate.last_pass_id \in Nat
    BY <1>1, MartTypes
  <2> HIDE DEF t
  <2> QED BY <1>2, <2>1
<1>4. RowMoves(id, row, 0, n, 0)
  <2>1. /\ row \in PassRow /\ row.nft = t.nft /\ row.gift = t.gift
        /\ row.custody_plan_id = t.custody_plan_id /\ row.price = t.price
        /\ row.nft_available = t.nft_available /\ row.gift_nft_available = avail
        /\ row.nft_total = t.nft_total /\ row.gift_nft_total = total
    <3> HIDE DEF t, avail, total
    <3> QED BY <1>3 DEF PassRow
  <2> HIDE DEF row
  <2>2. /\ row.nft_available = t.nft_available + 0 /\ row.nft_total = t.nft_total + (0 + 0)
        /\ row.gift_nft_available = t.gift_nft_available + n
        /\ row.gift_nft_total = t.gift_nft_total + (n + 0)
    <3> HIDE DEF t
    <3> QED BY <1>2, <1>3, <2>1
  <2> QED BY <1>1, <2>1, <2>2 DEF RowMoves
<1> HIDE DEF row, avail, total
<1>5. ProductMoves(passes, passes', id, 0, n, 0) /\ passes'[id] = row
  BY <1>4, RowIsProduct
<1>6. row.gift = m /\ row.price = t.price /\ row.custody_plan_id = t.custody_plan_id
  BY <1>1, <1>4 DEF RowMoves
<1>7. /\ mid' \in [Accounts -> [Mids -> Nat]]
      /\ \A x \in Accounts, b \in Mids :
            mid'[x][b] = mid[x][b] + (IF b = m /\ x = Mart THEN n ELSE 0)
                                   - (IF b = m /\ x = u THEN n ELSE 0)
  BY <1>1, <1>2, MartParties, MartTypes, MidPaid
<1>8. \A b \in Mids : /\ mid'[Mart][b] = mid[Mart][b] + (IF b = m THEN n ELSE 0)
                      /\ mid'[Custody][b] = mid[Custody][b]
  <2>1. \A b \in Mids : mid[Mart][b] \in Nat /\ mid[Custody][b] \in Nat
    BY MartTypes, MartParties
  <2> QED BY <1>2, <1>7, <2>1, MartParties
<1>9. ProductPaid(id, 0, n, 0)
  <2>1. \A b \in Assets : pass[Mart][b] \in Int /\ pass'[Mart][b] = pass[Mart][b]
    BY <1>1, MartTypes, MartParties
  <2>2. money[Split] \in Int /\ money'[Split] = money[Split]
    BY <1>1, MartTypes
  <2>3. passes'[id].price * 0 = 0
    BY <1>3, <1>5, <1>6
  <2> QED BY <1>2, <1>5, <1>6, <1>8, <2>1, <2>2, <2>3 DEF ProductPaid
<1>10. IInv'
  BY <1>1, <1>7, MartTypes, BalancesKeepInv DEF MartInv
<1>11. BooksInv'
  BY <1>1, <1>8, BooksBeside DEF MartInv
<1>12. TypeOK_mart'
  <2>1. /\ mstate' \in [last_pass_id : Nat, last_order_id : Nat,
                        contracts : BOOLEAN, custody_contract : Accounts]
        /\ mstate'.last_pass_id >= mstate.last_pass_id /\ id \in 1 .. mstate'.last_pass_id
        /\ passes'[id].custody_plan_id \in DOMAIN plans /\ DOMAIN plans' = DOMAIN plans
        /\ money' \in [Users \cup {Split} -> Nat] /\ elsewhere' \in [PlanIds -> Nat]
    BY <1>1, <1>3, <1>5, <1>6, MartTypes
  <2>2. 0 \in Int /\ n \in Int
    BY <1>2
  <2> QED BY <1>5, <2>1, <2>2, ProductTypes
<1>13. StockHeld' /\ SalesSettle' /\ SalesStay'
  BY <1>1, <1>9, PaidKeepsStock, NothingSoldKeepsSales
<1>14. Wired'
  BY <1>1 DEF MartInv, Wired
<1> QED BY <1>10, <1>11, <1>12, <1>13, <1>14 DEF MartInv

\* Passes to sell.
LEMMA PassRefuelKeeps ==
    ASSUME MartInv, NEW u \in Owners, NEW a \in Assets, NEW n \in RefuelAmounts,
           NEW id \in PassIds, nft_transfer(u, a, n, id)
    PROVE  MartInv'
<1> DEFINE t == passes[id]
           avail == t.nft_available + n
           total == t.nft_total + n
           row == [t EXCEPT !.nft_available = avail, !.nft_total = total, !.status = "open"]
<1>1. /\ id \in DOMAIN passes /\ t.nft = a /\ PassMoves(a, u, PayOne(Accounts, Mart, n))
      /\ passes' = [passes EXCEPT ![id] = row]
      /\ UNCHANGED <<mstate, money, elsewhere, config, plans, locks, mid, now, stray>>
  BY DEF nft_transfer
<1>2. n \in Nat
  BY MartInputs
<1>3. /\ t \in PassRow /\ avail \in Nat /\ total \in Nat
      /\ t.nft_available \in Nat /\ t.nft_total \in Nat
      /\ t.gift_nft_available \in Nat /\ t.gift_nft_total \in Nat /\ t.price \in Nat
      /\ t.custody_plan_id \in DOMAIN plans /\ id \in 1 .. mstate.last_pass_id
      /\ mstate.last_pass_id \in Nat
  <2>1. /\ t \in PassRow /\ t.nft_available \in Nat /\ t.nft_total \in Nat
        /\ t.gift_nft_available \in Nat /\ t.gift_nft_total \in Nat /\ t.price \in Nat
        /\ t.custody_plan_id \in DOMAIN plans /\ id \in 1 .. mstate.last_pass_id
        /\ mstate.last_pass_id \in Nat
    BY <1>1, MartTypes
  <2> HIDE DEF t
  <2> QED BY <1>2, <2>1
<1>4. RowMoves(id, row, n, 0, 0)
  <2>1. /\ row \in PassRow /\ row.nft = t.nft /\ row.gift = t.gift
        /\ row.custody_plan_id = t.custody_plan_id /\ row.price = t.price
        /\ row.nft_available = avail /\ row.gift_nft_available = t.gift_nft_available
        /\ row.nft_total = total /\ row.gift_nft_total = t.gift_nft_total
    <3> DEFINE more == [t EXCEPT !.nft_available = avail, !.nft_total = total]
    <3> HIDE DEF t, avail, total
    <3>1. /\ more \in PassRow /\ more.nft = t.nft /\ more.gift = t.gift
          /\ more.custody_plan_id = t.custody_plan_id /\ more.price = t.price
          /\ more.nft_available = avail /\ more.gift_nft_available = t.gift_nft_available
          /\ more.nft_total = total /\ more.gift_nft_total = t.gift_nft_total
      BY <1>3 DEF PassRow
    <3>2. row = [more EXCEPT !.status = "open"]
      BY <1>3 DEF PassRow
    <3> HIDE DEF more, row
    <3> QED BY <3>1, <3>2 DEF PassRow
  <2> HIDE DEF row
  <2>2. /\ row.nft_available = t.nft_available + n /\ row.nft_total = t.nft_total + (n + 0)
        /\ row.gift_nft_available = t.gift_nft_available + 0
        /\ row.gift_nft_total = t.gift_nft_total + (0 + 0)
    <3> HIDE DEF t
    <3> QED BY <1>2, <1>3, <2>1
  <2> QED BY <1>1, <2>1, <2>2 DEF RowMoves
<1> HIDE DEF row, avail, total
<1>5. ProductMoves(passes, passes', id, n, 0, 0) /\ passes'[id] = row
  BY <1>4, RowIsProduct
<1>6. row.nft = a /\ row.price = t.price /\ row.custody_plan_id = t.custody_plan_id
  BY <1>1, <1>4 DEF RowMoves
<1>7. /\ pass' \in [Accounts -> [Assets -> Nat]]
      /\ \A x \in Accounts, b \in Assets :
            pass'[x][b] = pass[x][b] + (IF b = a /\ x = Mart THEN n ELSE 0)
                                     - (IF b = a /\ x = u THEN n ELSE 0)
  BY <1>1, <1>2, MartParties, MartTypes, PassPaid
<1>8. \A b \in Assets : /\ pass'[Mart][b] = pass[Mart][b] + (IF b = a THEN n ELSE 0)
                        /\ pass'[Custody][b] = pass[Custody][b]
  <2>1. \A b \in Assets : pass[Mart][b] \in Nat /\ pass[Custody][b] \in Nat
    BY MartTypes, MartParties
  <2> QED BY <1>2, <1>7, <2>1, MartParties
<1>9. ProductPaid(id, n, 0, 0)
  <2>1. \A b \in Mids : mid[Mart][b] \in Int /\ mid'[Mart][b] = mid[Mart][b]
    BY <1>1, MartTypes, MartParties
  <2>2. money[Split] \in Int /\ money'[Split] = money[Split]
    BY <1>1, MartTypes
  <2>3. passes'[id].price * 0 = 0
    BY <1>3, <1>5, <1>6
  <2> QED BY <1>2, <1>5, <1>6, <1>8, <2>1, <2>2, <2>3 DEF ProductPaid
<1>10. IInv'
  BY <1>1, <1>7, MartTypes, BalancesKeepInv DEF MartInv
<1>11. BooksInv'
  <2>1. \A b \in Mids : mid'[Custody][b] = mid[Custody][b]
    BY <1>1
  <2> QED BY <1>1, <1>8, <2>1, BooksBeside DEF MartInv
<1>12. TypeOK_mart'
  <2>1. /\ mstate' \in [last_pass_id : Nat, last_order_id : Nat,
                        contracts : BOOLEAN, custody_contract : Accounts]
        /\ mstate'.last_pass_id >= mstate.last_pass_id /\ id \in 1 .. mstate'.last_pass_id
        /\ passes'[id].custody_plan_id \in DOMAIN plans /\ DOMAIN plans' = DOMAIN plans
        /\ money' \in [Users \cup {Split} -> Nat] /\ elsewhere' \in [PlanIds -> Nat]
    BY <1>1, <1>3, <1>5, <1>6, MartTypes
  <2>2. 0 \in Int /\ n \in Int
    BY <1>2
  <2> QED BY <1>5, <2>1, <2>2, ProductTypes
<1>13. StockHeld' /\ SalesSettle' /\ SalesStay'
  BY <1>1, <1>9, PaidKeepsStock, NothingSoldKeepsSales
<1>14. Wired'
  BY <1>1 DEF MartInv, Wired
<1> QED BY <1>10, <1>11, <1>12, <1>13, <1>14 DEF MartInv

------------------------------------------------------------------------------
(* Sales *)

\* What is sold leaves the row's stock, and the price is the row's.
LEMMA SaleRow ==
    ASSUME MartInv, NEW u \in Buyers, NEW q \in Payments, NEW n \in BuyAmounts, NEW id \in PassIds,
           mtoken_transfer(u, q, id, n)
    PROVE  /\ id \in DOMAIN passes /\ n \in Nat \ {0} /\ q = passes[id].price * n
           /\ ProductMoves(passes, passes', id, 0 - n, 0 - n, n)
           /\ passes'[id].nft = passes[id].nft /\ passes'[id].gift = passes[id].gift
           /\ passes'[id].price = passes[id].price
           /\ passes'[id].custody_plan_id = passes[id].custody_plan_id
<1> DEFINE t == passes[id]
           avail == t.nft_available - n
           gifts == t.gift_nft_available - n
           row == [t EXCEPT !.nft_available = avail, !.gift_nft_available = gifts]
<1>1. /\ id \in DOMAIN passes /\ q \in 1 .. money[u] /\ t.price * n = q
      /\ n <= t.nft_available /\ n <= t.gift_nft_available
      /\ passes' = [passes EXCEPT ![id] = row]
  BY DEF mtoken_transfer, Cost, StockCovers, SoldFrom
<1>2. n \in Nat
  BY MartInputs
<1>3. /\ t \in PassRow /\ t.nft_available \in Nat /\ t.nft_total \in Nat
      /\ t.gift_nft_available \in Nat /\ t.gift_nft_total \in Nat /\ t.price \in Nat
  BY <1>1, MartTypes
<1>4. n # 0
  <2>1. money[u] \in Nat
    BY MartTypes, MartParties
  <2>2. q > 0
    BY <1>1, <2>1
  <2> SUFFICES ASSUME n = 0 PROVE FALSE
    OBVIOUS
  <2>3. t.price * n = 0
    <3> HIDE DEF t
    <3> QED BY <1>3
  <2> QED BY <1>1, <2>2, <2>3
<1>5. avail \in Nat /\ gifts \in Nat
  <2> HIDE DEF t
  <2> QED BY <1>1, <1>2, <1>3
<1>6. /\ row \in PassRow /\ row.nft = t.nft /\ row.gift = t.gift
      /\ row.custody_plan_id = t.custody_plan_id /\ row.price = t.price
      /\ row.nft_available = avail /\ row.gift_nft_available = gifts
      /\ row.nft_total = t.nft_total /\ row.gift_nft_total = t.gift_nft_total
  <2> HIDE DEF t, avail, gifts
  <2> QED BY <1>3, <1>5 DEF PassRow
<1>7. RowMoves(id, row, 0 - n, 0 - n, n)
  <2> HIDE DEF row
  <2>1. /\ row.nft_available = t.nft_available + (0 - n)
        /\ row.gift_nft_available = t.gift_nft_available + (0 - n)
        /\ row.nft_total = t.nft_total + ((0 - n) + n)
        /\ row.gift_nft_total = t.gift_nft_total + ((0 - n) + n)
    <3> HIDE DEF t
    <3> QED BY <1>2, <1>3, <1>6
  <2> QED BY <1>1, <1>6, <2>1 DEF RowMoves
<1> HIDE DEF row, avail, gifts
<1>8. ProductMoves(passes, passes', id, 0 - n, 0 - n, n) /\ passes'[id] = row
  BY <1>7, RowIsProduct
<1> QED BY <1>1, <1>2, <1>4, <1>6, <1>8

\* A lock of the mart's is nothing others may have refunded.
LEMMA SaleLocks ==
    ASSUME MartInv, NEW a, NEW n \in Nat, NEW r, NEW p, NEW c, LockFor(Mart, a, n, r, p, c)
    PROVE  /\ Others(locks') = Others(locks)
           /\ p \in DOMAIN plans /\ DOMAIN plans' = DOMAIN plans
           /\ \A q \in DOMAIN plans : q # p => plans'[q] = plans[q]
           /\ plans'[p].total_issued = plans[p].total_issued + n
           /\ plans'[p].total_refunded = plans[p].total_refunded
<1> DEFINE k == <<p, plans[p].last_lock_id + 1>>
           s == locks'
<1>1. /\ p \in DOMAIN plans /\ DOMAIN plans' = DOMAIN plans
      /\ k \notin DOMAIN locks /\ k[1] = p
      /\ DOMAIN locks' = DOMAIN locks \cup {k}
      /\ locks'[k].locked = n /\ locks'[k].locker = Mart
      /\ \A j \in DOMAIN locks : j # k => locks'[j] = locks[j]
      /\ \A q \in DOMAIN plans : q # p => plans'[q] = plans[q]
      /\ plans'[p].total_issued = plans[p].total_issued + n
      /\ plans'[p].total_refunded = plans[p].total_refunded
  <2>1. IInv /\ LockFor(Mart, a, n, r, p, c)
    BY DEF MartInv
  <2> QED BY <2>1, LockForEffect
<1>2. s = locks'
  OBVIOUS
<1> HIDE DEF k, s
<1>3. {j \in DOMAIN s : s[j].locker # Mart} = {j \in DOMAIN locks : locks[j].locker # Mart}
  BY <1>1, <1>2
<1>4. \A j \in {i \in DOMAIN s : s[i].locker # Mart} : s[j] = locks[j]
  BY <1>1, <1>2
<1>5. Others(s) = Others(locks)
  BY <1>3, <1>4 DEF Others
<1> QED BY <1>1, <1>2, <1>5

\* Where the passes go, the mart's claim on refunds stays, and the custody's books.
LEMMA PassesGoKeep ==
    ASSUME MartInv, NEW u \in Buyers, NEW n \in Nat \ {0}, NEW id \in DOMAIN passes,
           PassesGo(passes[id], n, u), mid' \in [Accounts -> [Mids -> Nat]],
           \A m \in Mids : mid'[Custody][m] = mid[Custody][m],
           \A p : SoldIn(passes', p)
                      = SoldIn(passes, p) + (IF p = passes[id].custody_plan_id THEN n ELSE 0)
    PROVE  /\ IInv' /\ BooksInv' /\ SalesStay'
           /\ DOMAIN plans' = DOMAIN plans /\ elsewhere' \in [PlanIds -> Nat]
           /\ \A b \in Assets : pass'[Mart][b]
                  = pass[Mart][b] + (IF b = passes[id].nft THEN 0 - n ELSE 0)
<1> DEFINE a == passes[id].nft
           p == passes[id].custody_plan_id
<1>1. /\ a \in Assets /\ p \in DOMAIN plans /\ p \in PlanIds
      /\ pass \in [Accounts -> [Assets -> Nat]]
      /\ elsewhere \in [PlanIds -> Nat]
      /\ mstate.custody_contract \in Accounts /\ mstate.custody_contract # Mart
  BY MartTypes, SalesTypes DEF MartInv, Wired
<1>2. /\ Mart \in Users /\ Mart \in Accounts /\ Mart # Custody /\ u \in Users
      /\ Custody \in Accounts
  BY MartParties
<1>3. /\ \A q \in DOMAIN plans : /\ plans[q].total_issued \in Int
                                 /\ plans[q].total_refunded \in Int
                                 /\ elsewhere[q] \in Int
                                 /\ LockedOf(Others(locks), q) \in Int
                                 /\ SoldIn(passes, q) \in Int
                                 /\ plans[q].total_refunded + LockedOf(Others(locks), q)
                                      + SoldIn(passes, q) - elsewhere[q] <= plans[q].total_issued
      /\ \A b \in Assets : pass[Mart][b] \in Int
  BY <1>1, <1>2, SalesTypes DEF MartInv, SalesStay
<1>4. \A q : SoldIn(passes', q) = SoldIn(passes, q) + (IF q = p THEN n ELSE 0)
  OBVIOUS
<1>5. \A to \in Accounts \ {Mart} :
         (PassMoves(a, Mart, PayOne(Accounts, to, n)) =>
            /\ pass' \in [Accounts -> [Assets -> Nat]]
            /\ \A x \in Accounts, b \in Assets :
                 pass'[x][b] = pass[x][b] + (IF b = a /\ x = to THEN n ELSE 0)
                                          - (IF b = a /\ x = Mart THEN n ELSE 0))
  <2> TAKE to \in Accounts \ {Mart}
  <2> SUFFICES ASSUME PassMoves(a, Mart, PayOne(Accounts, to, n))
               PROVE  /\ pass' \in [Accounts -> [Assets -> Nat]]
                      /\ \A x \in Accounts, b \in Assets :
                           pass'[x][b] = pass[x][b] + (IF b = a /\ x = to THEN n ELSE 0)
                                                    - (IF b = a /\ x = Mart THEN n ELSE 0)
    OBVIOUS
  <2> HIDE DEF a
  <2> QED BY <1>1, <1>2, PassPaid
<1>6. CASE mstate.custody_contract = Custody
  <2>1. LockFor(Mart, a, n, u, p, 0) /\ UNCHANGED elsewhere
    BY <1>6 DEF PassesGo
  <2> HIDE DEF a, p
  <2>2. PassMoves(a, Mart, PayOne(Accounts, Custody, n))
    BY <2>1 DEF LockFor
  <2>3. /\ Others(locks') = Others(locks) /\ DOMAIN plans' = DOMAIN plans
        /\ \A q \in DOMAIN plans : q # p => plans'[q] = plans[q]
        /\ plans'[p].total_issued = plans[p].total_issued + n
        /\ plans'[p].total_refunded = plans[p].total_refunded
    BY <2>1, SaleLocks
  <2>4. IInv'
    <3>1. n \in Nat /\ 0 \in Nat
      OBVIOUS
    <3> QED BY <1>1, <1>2, <2>1, <3>1, LockForKeepsInv DEF MartInv
  <2>5. BooksInv'
    <3>1. n \in Nat
      OBVIOUS
    <3> QED BY <1>1, <1>2, <2>1, <2>4, <3>1, LockForKeepsBooks DEF MartInv
  <2>6. SalesStay'
    <3> SUFFICES ASSUME NEW q \in DOMAIN plans
                 PROVE  plans'[q].total_refunded + LockedOf(Others(locks), q)
                            + SoldIn(passes', q) - elsewhere[q] <= plans'[q].total_issued
      BY <2>1, <2>3 DEF SalesStay
    <3>1. CASE q = p
      BY <1>3, <1>4, <2>3, <3>1
    <3>2. CASE q # p
      BY <1>3, <1>4, <2>3, <3>2
    <3> QED BY <3>1, <3>2
  <2>7. \A b \in Assets : pass'[Mart][b] = pass[Mart][b] + (IF b = a THEN 0 - n ELSE 0)
    BY <1>2, <1>3, <1>5, <2>2
  <2> QED BY <1>1, <2>1, <2>3, <2>4, <2>5, <2>6, <2>7 DEF a
<1>7. CASE mstate.custody_contract # Custody
  <2> DEFINE to == mstate.custody_contract
  <2>1. /\ PassMoves(a, Mart, PayOne(Accounts, to, n))
        /\ elsewhere' = [elsewhere EXCEPT ![p] = elsewhere[p] + n]
        /\ UNCHANGED <<config, plans, locks, now, stray>>
    BY <1>7 DEF PassesGo
  <2>2. to \in Accounts \ {Mart} /\ to # Custody
    BY <1>1, <1>7
  <2> HIDE DEF a, p, to
  <2>3. /\ pass' \in [Accounts -> [Assets -> Nat]]
        /\ \A x \in Accounts, b \in Assets :
              pass'[x][b] = pass[x][b] + (IF b = a /\ x = to THEN n ELSE 0)
                                       - (IF b = a /\ x = Mart THEN n ELSE 0)
    BY <1>5, <2>1, <2>2
  <2>4. IInv'
    BY <2>1, <2>3, BalancesKeepInv DEF MartInv
  <2>5. BooksInv'
    <3>1. \A b \in Assets : pass[Custody][b] \in Int
      BY <1>1, <1>2
    <3>2. \A b \in Assets : pass'[Custody][b] = pass[Custody][b]
      BY <1>2, <2>2, <2>3, <3>1
    <3> QED BY <2>1, <3>2, BooksBeside DEF MartInv
  <2>6. SalesStay'
    <3> SUFFICES ASSUME NEW q \in DOMAIN plans
                 PROVE  plans[q].total_refunded + LockedOf(Others(locks), q)
                            + SoldIn(passes', q) - elsewhere'[q] <= plans[q].total_issued
      BY <2>1 DEF SalesStay
    <3>1. q \in PlanIds
      BY SalesTypes
    <3>2. elsewhere'[q] = elsewhere[q] + (IF q = p THEN n ELSE 0)
      BY <1>1, <1>3, <2>1, <3>1
    <3>3. CASE q = p
      BY <1>3, <1>4, <3>2, <3>3
    <3>4. CASE q # p
      BY <1>3, <1>4, <3>2, <3>4
    <3> QED BY <3>3, <3>4
  <2>7. \A b \in Assets : pass'[Mart][b] = pass[Mart][b] + (IF b = a THEN 0 - n ELSE 0)
    BY <1>2, <1>3, <2>2, <2>3
  <2>8. DOMAIN plans' = DOMAIN plans /\ elsewhere' \in [PlanIds -> Nat]
    BY <1>1, <2>1
  <2> QED BY <2>4, <2>5, <2>6, <2>7, <2>8 DEF a
<1> QED BY <1>6, <1>7

\* A sale.
LEMMA SaleKeeps ==
    ASSUME MartInv, NEW u \in Buyers, NEW q \in Payments, NEW n \in BuyAmounts, NEW id \in PassIds,
           mtoken_transfer(u, q, id, n)
    PROVE  MartInv'
<1> DEFINE t == passes[id]
<1>1. /\ id \in DOMAIN passes /\ n \in Nat \ {0} /\ q = t.price * n
      /\ ProductMoves(passes, passes', id, 0 - n, 0 - n, n)
      /\ passes'[id].nft = t.nft /\ passes'[id].gift = t.gift
      /\ passes'[id].price = t.price
      /\ passes'[id].custody_plan_id = t.custody_plan_id
  BY SaleRow
<1>2. /\ q \in 1 .. money[u]
      /\ mstate' = [mstate EXCEPT !.last_order_id = mstate.last_order_id + 1]
      /\ MidMoves(t.gift, Mart, u, n)
      /\ PassesGo(t, n, u)
      /\ money' = [money EXCEPT ![u] = @ - q, ![Split] = @ + q]
  BY DEF mtoken_transfer
<1>3. /\ t.nft \in Assets /\ t.gift \in Mids /\ t.price \in Nat
      /\ t.custody_plan_id \in DOMAIN plans /\ id \in 1 .. mstate.last_pass_id
      /\ mstate.last_pass_id \in Nat
  BY <1>1, MartTypes
<1>4. /\ n \in Nat /\ n \in Int /\ 0 - n \in Int /\ q \in Int
  <2>1. n \in Nat
    BY <1>1
  <2> HIDE DEF t
  <2> QED BY <1>1, <1>3, <2>1
<1> HIDE DEF t
<1>5. /\ mid' \in [Accounts -> [Mids -> Nat]]
      /\ \A x \in Accounts, b \in Mids :
            mid'[x][b] = mid[x][b] + (IF b = t.gift /\ x = u THEN n ELSE 0)
                                   - (IF b = t.gift /\ x = Mart THEN n ELSE 0)
  BY <1>2, <1>3, <1>4, MartParties, MartTypes, MidPaid
<1>6. \A b \in Mids : /\ mid'[Mart][b] = mid[Mart][b] + (IF b = t.gift THEN 0 - n ELSE 0)
                      /\ mid'[Custody][b] = mid[Custody][b]
  <2>1. \A b \in Mids : mid[Mart][b] \in Nat /\ mid[Custody][b] \in Nat
    BY MartTypes, MartParties
  <2> QED BY <1>4, <1>5, <2>1, MartParties
<1>7. money' \in [Users \cup {Split} -> Nat] /\ money'[Split] = money[Split] + q
  <2>1. /\ u \in Users /\ u # Split /\ money[u] \in Nat /\ money[Split] \in Nat
        /\ money \in [Users \cup {Split} -> Nat]
    BY MartParties, MartTypes
  <2>2. money[u] - q \in Nat /\ money[Split] + q \in Nat
    BY <1>2, <1>4, <2>1
  <2> DEFINE left == money[u] - q
             split == money[Split] + q
  <2>3. money' = [money EXCEPT ![u] = left, ![Split] = split]
    BY <1>2, <2>1
  <2>4. left \in Nat /\ split \in Nat
    BY <2>2
  <2> HIDE DEF left, split
  <2>5. money' \in [Users \cup {Split} -> Nat] /\ money'[Split] = split
    BY <2>1, <2>3, <2>4
  <2> QED BY <2>5 DEF split
<1>8. \A p : SoldIn(passes', p)
                 = SoldIn(passes, p) + (IF p = t.custody_plan_id THEN n ELSE 0)
  <2>1. \A p : SoldIn(passes', p)
                 = SoldIn(passes, p) + (IF p = passes'[id].custody_plan_id THEN n ELSE 0)
    BY <1>1, <1>4, ProductSums
  <2> QED BY <1>1, <2>1
<1>9. /\ IInv' /\ BooksInv' /\ SalesStay'
      /\ DOMAIN plans' = DOMAIN plans /\ elsewhere' \in [PlanIds -> Nat]
      /\ \A b \in Assets : pass'[Mart][b] = pass[Mart][b] + (IF b = t.nft THEN 0 - n ELSE 0)
  BY <1>1, <1>2, <1>5, <1>6, <1>8, PassesGoKeep DEF t
<1>10. ProductPaid(id, 0 - n, 0 - n, n)
  <2>1. money'[Split] = money[Split] + passes'[id].price * n
    BY <1>1, <1>7
  <2> QED BY <1>1, <1>4, <1>6, <1>9, <2>1 DEF ProductPaid
<1>11. StockHeld' /\ SalesSettle'
  BY <1>10, PaidKeepsStock
<1>12. /\ mstate' \in [last_pass_id : Nat, last_order_id : Nat,
                       contracts : BOOLEAN, custody_contract : Accounts]
       /\ mstate'.last_pass_id = mstate.last_pass_id
       /\ mstate'.custody_contract = mstate.custody_contract
  <2> DEFINE next == mstate.last_order_id + 1
  <2>1. mstate \in [last_pass_id : Nat, last_order_id : Nat,
                    contracts : BOOLEAN, custody_contract : Accounts]
    BY MartTypes
  <2>2. next \in Nat
    BY <2>1
  <2>3. mstate' = [mstate EXCEPT !.last_order_id = next]
    BY <1>2
  <2> HIDE DEF next
  <2> QED BY <2>1, <2>2, <2>3
<1>13. TypeOK_mart'
  <2>1. /\ mstate'.last_pass_id >= mstate.last_pass_id /\ id \in 1 .. mstate'.last_pass_id
        /\ passes'[id].custody_plan_id \in DOMAIN plans
    BY <1>1, <1>3, <1>12
  <2> QED BY <1>1, <1>4, <1>7, <1>9, <1>12, <2>1, ProductTypes
<1>14. Wired'
  BY <1>9, <1>12 DEF MartInv, Wired
<1> QED BY <1>9, <1>11, <1>13, <1>14 DEF MartInv

------------------------------------------------------------------------------
(* The theorems *)

\* A table without rows has nothing to add up.
LEMMA EmptySums ==
    ASSUME NEW t, DOMAIN t = {}
    PROVE  /\ \A a : PassesIn(t, a) = 0 /\ GiftsIn(t, a) = 0 /\ SoldIn(t, a) = 0
           /\ RevenueIn(t) = 0
<1>1. ASSUME NEW tag, NEW val, NEW a, DOMAIN tag = {} PROVE Tagged(tag, val, a) = 0
  <2> DEFINE w == [i \in {} |-> val[i]]
  <2>1. {j \in DOMAIN tag : tag[j] = a} = {}
    BY <1>1
  <2>2. Tagged(tag, val, a) = SumFunction(w)
    BY <2>1 DEF Tagged
  <2>3. DOMAIN w = {}
    OBVIOUS
  <2> HIDE DEF w
  <2> QED BY <2>2, <2>3, SumFunctionIsSum, SumEmpty
<1>2. /\ DOMAIN [i \in DOMAIN t |-> t[i].nft] = {}
      /\ DOMAIN [i \in DOMAIN t |-> t[i].gift] = {}
      /\ DOMAIN [i \in DOMAIN t |-> t[i].custody_plan_id] = {}
      /\ DOMAIN [i \in DOMAIN t |-> 0] = {}
  OBVIOUS
<1>3. \A a : PassesIn(t, a) = 0
  BY <1>1, <1>2 DEF PassesIn
<1>4. \A a : GiftsIn(t, a) = 0
  BY <1>1, <1>2 DEF GiftsIn
<1>5. \A a : SoldIn(t, a) = 0
  BY <1>1, <1>2 DEF SoldIn
<1>6. RevenueIn(t) = 0
  BY <1>1, <1>2 DEF RevenueIn
<1> QED BY <1>3, <1>4, <1>5, <1>6

\* At first there are no products and no plans.
LEMMA InitMart == Init_mart => MartInv
<1> SUFFICES ASSUME Init_mart PROVE MartInv
  OBVIOUS
<1>1. /\ Init /\ DOMAIN passes = {} /\ DOMAIN plans = {}
      /\ mstate = [last_pass_id |-> 0, last_order_id |-> 0,
                   contracts |-> FALSE, custody_contract |-> Custody]
      /\ money = FirstMoney /\ elsewhere = [p \in PlanIds |-> 0]
      /\ pass = FirstPass /\ mid = FirstMid
  BY DEF Init_mart, Init, EmptyTable
<1>2. IInv /\ BooksInv
  BY <1>1, InitInv, InitBooks
<1>3. TypeOK_mart
  <2>1. FirstMoney \in [Users \cup {Split} -> Nat]
    BY MartInputs
  <2> QED BY <1>1, <2>1, MartParties DEF TypeOK_mart, IsTable
<1>4. StockHeld /\ SalesSettle
  <2>1. /\ \A a : PassesIn(passes, a) = 0 /\ GiftsIn(passes, a) = 0
        /\ RevenueIn(passes) = 0
    BY <1>1, EmptySums
  <2>2. \A a \in Assets : pass[Mart][a] = 0
    BY <1>1, MartStartsEmpty
  <2>3. \A m \in Mids : mid[Mart][m] = 0
    BY <1>1, MartStartsEmpty
  <2>4. money[Split] - FirstMoney[Split] = 0
    <3>1. FirstMoney[Split] \in Nat
      BY MartInputs
    <3> QED BY <1>1, <3>1
  <2> QED BY <1>1, <2>1, <2>2, <2>3, <2>4, SumsOfTable DEF TableSums
<1>5. SalesStay
  BY <1>1 DEF SalesStay
<1>6. Wired
  BY <1>1, MartParties DEF Wired
<1> QED BY <1>2, <1>3, <1>4, <1>5, <1>6 DEF MartInv

\* Every step of the sale.
LEMMA StepMart == MartInv /\ [Next_mart]_allvars => MartInv'
<1> SUFFICES ASSUME MartInv, Next_mart \/ UNCHANGED allvars PROVE MartInv'
  OBVIOUS
<1>1. CASE Trade
  BY <1>1, MidRefuelKeeps, PassRefuelKeeps, SaleKeeps DEF Trade
<1>2. CASE Product
  BY <1>2, ProductKeeps
<1>3. CASE CustodyStep \/ UNCHANGED allvars
  BY <1>3, CustodyKeepsMart
<1> QED BY <1>1, <1>2, <1>3 DEF Next_mart

\* The invariant of the sale composed with the custody (pass.mart.cpp and
\* pass.custody.cpp as one system).
THEOREM MartInvariant == Spec_mart => []MartInv
BY InitMart, StepMart, PTL DEF Spec_mart

\* Every variable of the mart has its type, whatever was bought and refuelled
\* (pass.mart.db.hpp).
THEOREM MartTypeCorrect == Spec_mart => []TypeOK_mart
<1>1. MartInv => TypeOK_mart
  BY DEF MartInv
<1> QED BY <1>1, MartInvariant, PTL

\* The mart holds exactly what its products have available: a refuel, a sale and a
\* refund it refuses leave no pass or MID it cannot account for (pass.mart.cpp:188).
THEOREM StockIsHeld == Spec_mart => []StockHeld
<1>1. MartInv => StockHeld
  BY DEF MartInv
<1> QED BY <1>1, MartInvariant, PTL

\* Passes and MIDs are sold in pairs, and the split plan has the price of every pair
\* (pass.mart.cpp:266).
THEOREM SalesAreSettled == Spec_mart => []SalesSettle
<1>1. MartInv => SalesSettle
  BY DEF MartInv
<1> QED BY <1>1, MartInvariant, PTL

\* A plan refunds nothing of what the mart sold under it: a lock of the mart's can be
\* released to the buyer only, since the mart refuses the refund (pass.custody.cpp:593).
THEOREM SoldIsKept == Spec_mart => []SoldNeverRefunded
<1>1. MartInv => SoldNeverRefunded
  <2> SUFFICES ASSUME MartInv, NEW p \in DOMAIN plans
               PROVE  plans[p].total_refunded + SoldUnder(p) - elsewhere[p]
                          <= plans[p].total_issued
    BY DEF SoldNeverRefunded
  <2> DEFINE o == Others(locks)
             K == DOMAIN o
  <2>1. LockedOf(o, p) \in Nat
    <3>1. /\ IsFiniteSet(K)
          /\ \A j \in K : o[j].locked \in Nat /\ o[j].locked \in Int /\ j \in DOMAIN locks
      BY OthersAreLocks DEF MartInv
    <3> HIDE DEF o
    <3>2. /\ LockedOf(o, p) = Sum(Locked(o, K), Keys(K, p)) /\ IsFiniteSet(Keys(K, p))
          /\ \A j \in K : Locked(o, K)[j] \in Int
      BY <3>1, LockedOver
    <3>3. \A j \in Keys(K, p) : Locked(o, K)[j] \in Nat
      BY <3>1 DEF Keys, Locked
    <3> QED BY <3>2, <3>3, SumNat
  <2>2. SoldUnder(p) = SoldIn(passes, p)
    BY SumsOfTable DEF TableSums
  <2>3. plans[p].total_refunded + LockedOf(o, p) + SoldIn(passes, p) - elsewhere[p]
            <= plans[p].total_issued
    BY DEF MartInv, SalesStay
  <2> HIDE DEF o
  <2> QED BY <2>1, <2>2, <2>3, SalesTypes
<1> QED BY <1>1, MartInvariant, PTL

\* The custody's own accounts survive the composition: its totals are sums over its
\* locks, and it holds what it owes (pass.custody.cpp:591).
THEOREM CustodyHoldsInSale == Spec_mart => [](PlanTotalsMatchLocks /\ CustodyHolds)
<1>1. MartInv => PlanTotalsMatchLocks /\ CustodyHolds
  BY DEF MartInv, BooksInv
<1> QED BY <1>1, MartInvariant, PTL

------------------------------------------------------------------------------
(* A sale within the stock goes through *)

\* A product sells passes of the asset its plan locks.
ProductsFit ==
    \A id \in DOMAIN passes : passes[id].nft = plans[passes[id].custody_plan_id].asset_symbol

PlansKeepAssets ==
    \A p \in DOMAIN plans : p \in DOMAIN plans' /\ plans'[p].asset_symbol = plans[p].asset_symbol

\* No step of the custody takes a plan away or changes what it locks.
LEMMA CustodyKeepsAssets ==
    ASSUME IInv, Next \/ UNCHANGED vars
    PROVE  PlansKeepAssets
<1>1. /\ \A p \in DOMAIN plans : plans[p] \in PlanRow /\ p \in 0 .. gstate.last_plan_id - 1
      /\ gstate.last_plan_id \in Nat
  BY DEF IInv, TypeOK, GlobalsOK, TablesOK, IsTable
<1>2. ASSUME Plan PROVE PlansKeepAssets
  <2>1. ASSUME NEW u, NEW a, NEW i, NEW t, addplan(u, a, i, t) PROVE PlansKeepAssets
    <3>1. gstate.last_plan_id \notin DOMAIN plans
      BY <1>1
    <3> QED BY <2>1, <3>1 DEF addplan, Emplace, PlansKeepAssets
  <2>2. ASSUME NEW p, NEW u, setplanowner(p, u) PROVE PlansKeepAssets
    BY <1>1, <2>2 DEF setplanowner, PlansKeepAssets, PlanRow
  <2>3. ASSUME NEW u, NEW f, NEW p, ontokentrans(u, f, p) PROVE PlansKeepAssets
    BY <1>1, <2>3 DEF ontokentrans, PlansKeepAssets, PlanRow
  <2>4. ASSUME NEW p, NEW m, NEW s, NEW e, setmovwindow(p, m, s, e) PROVE PlansKeepAssets
    BY <2>4 DEF setmovwindow, PlansKeepAssets
  <2> QED BY <1>2, <2>1, <2>2, <2>3, <2>4 DEF Plan
<1>3. ASSUME Lock PROVE PlansKeepAssets
  <2>1. ASSUME NEW u, NEW a, NEW n, NEW r, NEW p, NEW d, onnfttrans(u, a, n, r, p, d)
        PROVE  PlansKeepAssets
    BY <1>1, <2>1 DEF onnfttrans, LockFor, PlansKeepAssets, PlanRow
  <2>2. ASSUME NEW u, NEW a, NEW n, onnfttrans_ignored(u, a, n) PROVE PlansKeepAssets
    BY <2>2 DEF onnfttrans_ignored, PlansKeepAssets
  <2> QED BY <1>3, <2>1, <2>2 DEF Lock
<1>4. ASSUME Release PROVE PlansKeepAssets
  <2>1. ASSUME NEW k, NEW b, _unlock(k, b) PROVE PlansKeepAssets
    BY <1>1, <2>1 DEF _unlock, PlanAfter, PlansKeepAssets, PlanRow
  <2> QED BY <1>4, <2>1 DEF Release, unlock, endlock
<1>5. ASSUME Move PROVE PlansKeepAssets
  <2>1. ASSUME NEW u, NEW m, NEW q, NEW k, NEW to, onmidtrans(u, m, q, k, to)
        PROVE  PlansKeepAssets
    BY <1>1, <2>1 DEF onmidtrans, PlansKeepAssets, PlanRow
  <2>2. ASSUME NEW p, NEW n, movedata(p, n) PROVE PlansKeepAssets
    BY <1>1, <2>2 DEF movedata, PlansKeepAssets, PlanRow
  <2> QED BY <1>5, <2>1, <2>2 DEF Move
<1>6. ASSUME Configure \/ Tick \/ UNCHANGED vars PROVE PlansKeepAssets
  BY <1>6 DEF Configure, Tick, init, setconfig, whitelist, blacklist, vars, PlansKeepAssets
<1> QED BY <1>2, <1>3, <1>4, <1>5, <1>6 DEF Next

\* What a product sells, and under which plan, is fixed when it is added.
RowsKeep ==
    \A id \in DOMAIN passes' :
        \/ /\ id \in DOMAIN passes
           /\ passes'[id].nft = passes[id].nft
           /\ passes'[id].custody_plan_id = passes[id].custody_plan_id
        \/ /\ passes'[id].custody_plan_id \in DOMAIN plans
           /\ passes'[id].nft = plans[passes'[id].custody_plan_id].asset_symbol

LEMMA MartKeepsRows ==
    ASSUME MartInv, Product \/ Trade
    PROVE  RowsKeep
<1>1. \A id \in DOMAIN passes : passes[id] \in PassRow /\ id \in 1 .. mstate.last_pass_id
  BY MartTypes
<1>2. ASSUME NEW u, NEW a, NEW m, NEW c, NEW s, NEW e, NEW p, addpass(u, a, m, c, s, e, p)
      PROVE  RowsKeep
  BY <1>2 DEF addpass, Emplace, RowsKeep
<1>3. ASSUME NEW a, init_mart(a) PROVE RowsKeep
  BY <1>3 DEF init_mart, RowsKeep
<1>4. ASSUME NEW id, closepass(id) PROVE RowsKeep
  BY <1>1, <1>4 DEF closepass, RowsKeep, PassRow
<1>5. ASSUME NEW id, NEW e, setendtime(id, e) PROVE RowsKeep
  BY <1>1, <1>5 DEF setendtime, RowsKeep, PassRow
<1>6. ASSUME NEW id, NEW u, setowner(id, u) PROVE RowsKeep
  BY <1>1, <1>6 DEF setowner, RowsKeep, PassRow
<1>7. ASSUME NEW u, NEW m, NEW n, NEW id, verso_transfer(u, m, n, id) PROVE RowsKeep
  BY <1>1, <1>7 DEF verso_transfer, RowsKeep, PassRow
<1>8. ASSUME NEW u, NEW a, NEW n, NEW id, nft_transfer(u, a, n, id) PROVE RowsKeep
  BY <1>1, <1>8 DEF nft_transfer, RowsKeep, PassRow
<1>9. ASSUME NEW u, NEW q, NEW n, NEW id, mtoken_transfer(u, q, id, n) PROVE RowsKeep
  BY <1>1, <1>9 DEF mtoken_transfer, SoldFrom, RowsKeep, PassRow
<1>10. CASE Product
  BY <1>2, <1>3, <1>4, <1>5, <1>6, <1>10 DEF Product
<1>11. CASE Trade
  BY <1>7, <1>8, <1>9, <1>11 DEF Trade
<1> QED BY <1>10, <1>11

\* Nor does a step of the mart change a plan's asset.
LEMMA MartKeepsAssets ==
    ASSUME MartInv, Product \/ Trade
    PROVE  PlansKeepAssets
<1>1. \A p \in DOMAIN plans : plans[p] \in PlanRow
  BY DEF MartInv, IInv, TypeOK, TablesOK, IsTable
<1>2. ASSUME NEW u, NEW q, NEW n, NEW id, mtoken_transfer(u, q, id, n) PROVE PlansKeepAssets
  <2>1. PassesGo(passes[id], n, u)
    BY <1>2 DEF mtoken_transfer
  <2>2. ASSUME NEW a, NEW p, LockFor(Mart, a, n, u, p, 0) PROVE PlansKeepAssets
    BY <1>1, <2>2 DEF LockFor, PlansKeepAssets, PlanRow
  <2>3. ASSUME UNCHANGED plans PROVE PlansKeepAssets
    BY <2>3 DEF PlansKeepAssets
  <2> QED BY <2>1, <2>2, <2>3 DEF PassesGo
<1>3. ASSUME UNCHANGED plans PROVE PlansKeepAssets
  BY <1>3 DEF PlansKeepAssets
<1>4. CASE Product
  BY <1>3, <1>4 DEF Product, init_mart, addpass, closepass, setendtime, setowner,
                    custodyvars, vars
<1>5. CASE Trade
  BY <1>2, <1>3, <1>5 DEF Trade, verso_transfer, nft_transfer
<1> QED BY <1>4, <1>5

LEMMA StepFits ==
    ASSUME MartInv, ProductsFit, [Next_mart]_allvars
    PROVE  ProductsFit'
<1>1. PlansKeepAssets
  <2>1. CASE CustodyStep \/ UNCHANGED allvars
    BY <2>1, CustodyKeepsAssets DEF MartInv, CustodyStep, allvars, custodyvars
  <2> QED BY <2>1, MartKeepsAssets DEF Next_mart
<1>2. RowsKeep
  <2>1. CASE CustodyStep \/ UNCHANGED allvars
    BY <2>1 DEF CustodyStep, allvars, martvars, RowsKeep
  <2> QED BY <2>1, MartKeepsRows DEF Next_mart
<1>3. \A id \in DOMAIN passes : passes[id].custody_plan_id \in DOMAIN plans
  BY MartTypes
<1> QED BY <1>1, <1>2, <1>3 DEF ProductsFit, RowsKeep, PlansKeepAssets

\* The checks of mtoken_transfer ...
Sells(u, q, n, id) ==
    /\ mstate.contracts
    /\ q \in 1 .. money[u]
    /\ id \in DOMAIN passes
    /\ passes[id].status = "open"
    /\ now \in passes[id].sell_started_at .. passes[id].sell_ended_at
    /\ Cost(passes[id], n) = q
    /\ StockCovers(passes[id], n)

\* ... and those of the two transfers it makes, in the contracts they go to ...
CanDeliver(n, id) ==
    LET t    == passes[id]
        plan == t.custody_plan_id
    IN  /\ mid[Mart][t.gift] >= n
        /\ CanPass(t.nft, Mart, PayOne(Accounts, mstate.custody_contract, n))
        /\ mstate.custody_contract = Custody =>
              /\ plan \in DOMAIN plans /\ PlanTakes(plans[plan], t.nft)
              /\ n > 0 /\ 0 <= MAX_LOCK_DAYS
              /\ NewLockId(plan) <= MaxLocks

\* ... are all that a sale asks; the rest of it is assignments.
LEMMA SaleIs ==
    ASSUME NEW u, NEW q, NEW n, NEW id
    PROVE  LET t    == passes[id]
               p    == t.custody_plan_id
               to   == mstate.custody_contract
               paid == PayOne(Accounts, to, n)
           IN  mtoken_transfer(u, q, id, n) <=>
                  /\ Sells(u, q, n, id) /\ CanDeliver(n, id)
                  /\ passes' = [passes EXCEPT ![id] = SoldFrom(t, n)]
                  /\ mstate' = [mstate EXCEPT !.last_order_id = @ + 1]
                  /\ money' = [money EXCEPT ![u] = @ - q, ![Split] = @ + q]
                  /\ mid' = [x \in Accounts |->
                        [mid[x] EXCEPT ![t.gift] = @ - (IF x = Mart THEN n ELSE 0)
                                                     + (IF x = u THEN n ELSE 0)]]
                  /\ pass' = [x \in Accounts |->
                        [pass[x] EXCEPT ![t.nft] =
                            @ + paid[x] - (IF x = Mart THEN SumFunction(paid) ELSE 0)]]
                  /\ IF to = Custody
                     THEN /\ plans' = [plans EXCEPT ![p].total_issued = @ + n,
                                                    ![p].total_locked = @ + n,
                                                    ![p].last_lock_id = NewLockId(p)]
                          /\ locks' = Emplace(locks, <<p, NewLockId(p)>>,
                                 [locker |-> Mart, receiver |-> u, issued |-> n,
                                  locked |-> n, unlocked |-> 0, first_unlock_days |-> 0,
                                  status |-> "locked", locked_at |-> now])
                          /\ UNCHANGED elsewhere
                     ELSE /\ elsewhere' = [elsewhere EXCEPT ![p] = @ + n]
                          /\ UNCHANGED <<plans, locks>>
                  /\ UNCHANGED <<config, now, stray>>
<1>1. CASE mstate.custody_contract = Custody
  BY <1>1 DEF mtoken_transfer, Sells, CanDeliver, MidMoves, PassesGo, LockFor, PassMoves, CanPass
<1>2. CASE mstate.custody_contract # Custody
  BY <1>2 DEF mtoken_transfer, Sells, CanDeliver, MidMoves, PassesGo, PassMoves, CanPass
<1> QED BY <1>1, <1>2

\* What a sale the mart agrees to still asks of the custody: a plan whose fee is paid
\* (and that the number of its next lock is within the model's bound).
PlanIsReady(p) == plans[p].status = "enabled" /\ NewLockId(p) <= MaxLocks

SalesGo ==
    \A u \in Buyers, q \in Payments, n \in BuyAmounts, id \in DOMAIN passes :
        Sells(u, q, n, id) =>
            (CanDeliver(n, id) <=> \/ mstate.custody_contract # Custody
                                   \/ PlanIsReady(passes[id].custody_plan_id))

\* The shelf of one product is within what the mart holds of its pass and its MID.
LEMMA StockIsThere ==
    ASSUME MartInv, NEW id \in DOMAIN passes
    PROVE  /\ passes[id].nft_available <= pass[Mart][passes[id].nft]
           /\ passes[id].gift_nft_available <= mid[Mart][passes[id].gift]
<1>1. ASSUME NEW tag, NEW val, DOMAIN tag = DOMAIN passes, \A i \in DOMAIN passes : val[i] \in Nat
      PROVE  val[id] <= Tagged(tag, val, tag[id])
  <2> DEFINE S == {j \in DOMAIN tag : tag[j] = tag[id]}
             w == [i \in S |-> val[i]]
  <2>1. IsFiniteSet(S) /\ id \in S
    BY <1>1, SalesTypes, FS_Subset
  <2>2. Tagged(tag, val, tag[id]) = Sum(w, S)
    <3>1. Tagged(tag, val, tag[id]) = SumFunction(w) /\ DOMAIN w = S
      BY DEF Tagged
    <3> HIDE DEF w, S
    <3> QED BY <3>1, SumFunctionIsSum
  <2>3. \A i \in S : w[i] \in Nat
    BY <1>1
  <2>4. w[id] = val[id]
    BY <2>1
  <2> HIDE DEF w, S
  <2> QED BY <2>1, <2>2, <2>3, <2>4, SumCovers
<1> DEFINE nfts == [i \in DOMAIN passes |-> passes[i].nft]
           avail == [i \in DOMAIN passes |-> passes[i].nft_available]
           gifts == [i \in DOMAIN passes |-> passes[i].gift]
           more == [i \in DOMAIN passes |-> passes[i].gift_nft_available]
<1>2. \A i \in DOMAIN passes : avail[i] \in Nat /\ more[i] \in Nat
  BY MartTypes
<1>3. /\ pass[Mart][passes[id].nft] = Tagged(nfts, avail, nfts[id])
      /\ mid[Mart][passes[id].gift] = Tagged(gifts, more, gifts[id])
  BY MartTypes, SumsOfTable DEF TableSums, MartInv, PassesIn, GiftsIn
<1>4. DOMAIN nfts = DOMAIN passes /\ DOMAIN gifts = DOMAIN passes
      /\ avail[id] = passes[id].nft_available /\ more[id] = passes[id].gift_nft_available
  OBVIOUS
<1> HIDE DEF nfts, avail, gifts, more
<1> QED BY <1>1, <1>2, <1>3, <1>4

\* A sale the mart agrees to is not refused by the NFT contracts or the custody: no two
\* products count on the same pass, so the passes and the MIDs are there, and the custody
\* takes them, whatever else went on there, unless the fee of the product's plan is unpaid,
\* which addpass does not look at (pass.mart.cpp:44-50, 211-267, pass.custody.cpp:227-285).
THEOREM SalesGoThrough == Spec_mart => []SalesGo
<1>1. MartInv /\ ProductsFit => SalesGo
  <2> SUFFICES ASSUME MartInv, ProductsFit, NEW u \in Buyers, NEW q \in Payments,
                      NEW n \in BuyAmounts, NEW id \in DOMAIN passes, Sells(u, q, n, id),
                      \/ mstate.custody_contract # Custody
                      \/ PlanIsReady(passes[id].custody_plan_id)
               PROVE  CanDeliver(n, id)
    BY DEF SalesGo, CanDeliver, PlanIsReady, PlanTakes
  <2> DEFINE t == passes[id]
             p == t.custody_plan_id
             to == mstate.custody_contract
             paid == PayOne(Accounts, to, n)
             held == pass[Mart][t.nft]
             mids == mid[Mart][t.gift]
  <2>1. /\ t.nft_available \in Nat /\ t.gift_nft_available \in Nat /\ t.price \in Nat
        /\ t.nft \in Assets /\ t.gift \in Mids /\ p \in DOMAIN plans /\ to \in Accounts
    BY MartTypes
  <2>2. /\ n \in Nat /\ n <= t.nft_available /\ n <= t.gift_nft_available
        /\ t.price * n = q /\ q \in 1 .. money[u] /\ money[u] \in Nat
    BY MartTypes, MartInputs, MartParties DEF Sells, Cost, StockCovers
  <2>3. held \in Nat /\ mids \in Nat /\ t.nft_available <= held /\ t.gift_nft_available <= mids
    BY <2>1, StockIsThere, MartTypes, MartParties
  <2>4. paid \in [Accounts -> Nat] /\ SumFunction(paid) = n
    <3>1. Sum(paid, Accounts) = n
      BY <2>1, <2>2, AccountsFinite, PayOneSum
    <3>2. DOMAIN paid = Accounts /\ paid \in [Accounts -> Nat]
      BY <2>2 DEF PayOne
    <3> HIDE DEF paid
    <3> QED BY <3>1, <3>2, SumFunctionIsSum
  <2>5. to = Custody => PlanTakes(plans[p], t.nft) /\ NewLockId(p) <= MaxLocks
    BY DEF PlanIsReady, PlanTakes, ProductsFit
  <2>6. 0 <= MAX_LOCK_DAYS
    BY CustodyBounds
  <2>7. n > 0
    <3> HIDE DEF t
    <3>1. n # 0
      <4> SUFFICES ASSUME n = 0 PROVE FALSE
        OBVIOUS
      <4>1. t.price * n = 0
        BY <2>1
      <4> QED BY <2>2, <4>1
    <3> QED BY <2>2, <3>1
  <2> HIDE DEF paid, held, mids
  <2>8. mids >= n /\ n \in 0 .. held
    <3> HIDE DEF t
    <3> QED BY <2>1, <2>2, <2>3
  <2>9. CanPass(t.nft, Mart, paid)
    BY <2>4, <2>8 DEF CanPass, held
  <2> QED BY <2>1, <2>5, <2>6, <2>7, <2>8, <2>9 DEF CanDeliver, paid, mids
<1>2. Init_mart => ProductsFit
  BY DEF Init_mart, ProductsFit, EmptyTable
<1>3. MartInv /\ ProductsFit /\ [Next_mart]_allvars => ProductsFit'
  BY StepFits
<1> QED BY <1>1, <1>2, <1>3, InitMart, StepMart, PTL DEF Spec_mart
=============================================================================
