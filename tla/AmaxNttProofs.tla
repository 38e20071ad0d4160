---------------------------- MODULE AmaxNttProofs ----------------------------
(***************************************************************************)
(* Proofs about amax.ntt: its types, that its supply is what the holders   *)
(* have, that only idle balances burn, and that it implements its ledger;  *)
(* and about an account that runs any one of the three token contracts.    *)
(***************************************************************************)
EXTENDS NtokenProofs

(* Balances and totals of a table of accounts *)

In_ntt(t, u, c) == IF <<u, c>> \in DOMAIN t THEN t[<<u, c>>].balance ELSE 0
Total_ntt(t, c) == SumFunction([u \in Holders |-> In_ntt(t, u, c)])

\* Rows have the code of their symbol.
Rows_ntt(t) ==
    /\ IsTable(t, Holders \X Codes, HoldingRow)
    /\ \A k \in DOMAIN t : t[k].symbol.code = k[2]

\* Table s differs from t by d in one balance.
Differ_ntt(t, s, u, c, d) ==
    /\ Rows_ntt(t) /\ u \in Holders /\ d \in Int
    /\ In_ntt(s, u, c) = In_ntt(t, u, c) + d
    /\ \A v, e : (v = u /\ e = c) \/ In_ntt(s, v, e) = In_ntt(t, v, e)

\* The totals differ by d in one code.
Shift(t, s, c, d) == \A e : Total_ntt(s, e) = Total_ntt(t, e) + (IF e = c THEN d ELSE 0)

LEMMA BalanceIsNat_ntt == ASSUME NEW t, Rows_ntt(t) PROVE \A u, c : In_ntt(t, u, c) \in Nat
BY DEF In_ntt, Rows_ntt, IsTable, HoldingRow

LEMMA TotalIsSum_ntt ==
    ASSUME NEW t, Rows_ntt(t), NEW c
    PROVE  /\ Total_ntt(t, c) = Sum([u \in Holders |-> In_ntt(t, u, c)], Holders)
           /\ Total_ntt(t, c) \in Nat
           /\ \A u \in Holders : In_ntt(t, u, c) <= Total_ntt(t, c)
<1> DEFINE w == [u \in Holders |-> In_ntt(t, u, c)]
<1>1. IsFiniteSet(Holders)
  BY NttInputs
<1>2. DOMAIN w = Holders /\ \A u \in Holders : w[u] = In_ntt(t, u, c) /\ w[u] \in Nat
  BY BalanceIsNat_ntt
<1>3. Total_ntt(t, c) = SumFunction(w)
  BY DEF Total_ntt
<1> HIDE DEF w
<1>4. Total_ntt(t, c) = Sum(w, Holders)
  BY <1>2, <1>3, SumFunctionIsSum
<1>5. Sum(w, Holders) \in Nat
  BY <1>1, <1>2, SumNat
<1>6. \A u \in Holders : w[u] <= Sum(w, Holders)
  BY <1>1, <1>2, SumCovers
<1> QED BY <1>2, <1>4, <1>5, <1>6 DEF w

LEMMA DifferShifts_ntt ==
    ASSUME NEW t, NEW s, NEW u, NEW c, NEW d, Differ_ntt(t, s, u, c, d)
    PROVE  Shift(t, s, c, d)
<1> SUFFICES ASSUME NEW e PROVE Total_ntt(s, e) = Total_ntt(t, e) + (IF e = c THEN d ELSE 0)
  BY DEF Shift
<1> DEFINE w == [v \in Holders |-> In_ntt(t, v, e)]
           x == [v \in Holders |-> In_ntt(s, v, e)]
<1>1. IsFiniteSet(Holders) /\ u \in Holders /\ d \in Int /\ Rows_ntt(t)
  BY NttInputs DEF Differ_ntt
<1>2. Total_ntt(t, e) = Sum(w, Holders) /\ Total_ntt(t, e) \in Nat
  BY <1>1, TotalIsSum_ntt
<1>3. DOMAIN x = Holders /\ Total_ntt(s, e) = SumFunction(x)
  BY DEF Total_ntt
<1>4. \A v \in Holders : w[v] \in Int
  BY <1>1, BalanceIsNat_ntt
<1>5. \A v \in Holders \ {u} : x[v] = w[v]
  BY DEF Differ_ntt
<1>6. x[u] = IF e = c THEN w[u] + d ELSE w[u]
  BY <1>1 DEF Differ_ntt
<1> HIDE DEF w, x
<1>7. Total_ntt(s, e) = Sum(x, Holders)
  BY <1>3, SumFunctionIsSum
<1>8. x[u] \in Int
  BY <1>1, <1>4, <1>6
<1>9. Sum(x, Holders) = Sum(w, Holders) - w[u] + x[u]
  BY <1>1, <1>4, <1>5, <1>8, SumUpdate
<1>10. CASE e = c
  BY <1>1, <1>2, <1>4, <1>6, <1>7, <1>9, <1>10
<1>11. CASE e # c
  BY <1>1, <1>2, <1>4, <1>6, <1>7, <1>9, <1>11
<1> QED BY <1>10, <1>11
------------------------------------------------------------------------------
(* What the two helpers do to one balance *)

\* An account that can be paid, and the table after the payment.
CanBePaid(t, u, sym, amount) ==
    /\ Rows_ntt(t) /\ u \in Holders /\ sym \in Tokens /\ amount \in Nat /\ day \in Nat
    /\ CanAdd(t, <<u, sym.code>>, sym)

Paid(t, s, u, sym, amount) ==
    LET k == <<u, sym.code>>
    IN  /\ Rows_ntt(s) /\ Differ_ntt(t, s, u, sym.code, amount)
        /\ DOMAIN s = DOMAIN t \cup {k}
        /\ s[k].symbol = sym /\ s[k].expired_at = day + YEAR
        /\ \A j \in DOMAIN t : j # k => s[j] = t[j]

LEMMA AddBalance ==
    ASSUME NEW t, NEW s, NEW u, NEW sym, NEW amount, CanBePaid(t, u, sym, amount),
           s = add_balance(t, <<u, sym.code>>, sym, amount)
    PROVE  Paid(t, s, u, sym, amount)
<1> DEFINE k == <<u, sym.code>>
           row == IF k \in DOMAIN t
                  THEN [t[k] EXCEPT !.balance = @ + amount, !.expired_at = day + YEAR]
                  ELSE NewRow(sym, amount, FALSE, FALSE, day + YEAR)
<1>0. /\ Rows_ntt(t) /\ u \in Holders /\ sym \in Tokens /\ amount \in Nat /\ day \in Nat
      /\ CanAdd(t, k, sym)
  BY DEF CanBePaid
<1>1. sym.code \in Codes /\ k \in Holders \X Codes /\ YEAR \in Nat
  BY <1>0, NttInputs DEF Codes
<1>2. /\ DOMAIN s = DOMAIN t \cup {k} /\ s[k] = row
      /\ \A j \in DOMAIN t : j # k => s[j] = t[j]
  <2>1. CASE k \in DOMAIN t
    <3>1. t[k] \in HoldingRow
      BY <1>0, <2>1 DEF Rows_ntt, IsTable
    <3> QED BY <2>1, <3>1 DEF add_balance, Renewed, HoldingRow
  <2>2. CASE k \notin DOMAIN t
    BY <2>2 DEF add_balance, Emplace
  <2> QED BY <2>1, <2>2
<1>3. /\ row \in HoldingRow /\ row.symbol = sym /\ row.expired_at = day + YEAR
      /\ row.balance = In_ntt(t, u, sym.code) + amount
  <2>1. CASE k \in DOMAIN t
    <3>1. t[k] \in HoldingRow /\ t[k].symbol = sym
      BY <1>0, <2>1 DEF Rows_ntt, IsTable, CanAdd
    <3> DEFINE sum == t[k].balance + amount
               ends == day + YEAR
    <3>2. t[k].balance \in Nat /\ sum \in Nat /\ ends \in Nat
      BY <1>0, <1>1, <3>1 DEF HoldingRow
    <3>3. In_ntt(t, u, sym.code) = t[k].balance
      BY <2>1 DEF In_ntt
    <3>4. row = [t[k] EXCEPT !.balance = sum, !.expired_at = ends]
      BY <2>1
    <3> HIDE DEF row, sum, ends
    <3>5. row \in HoldingRow /\ row.symbol = sym /\ row.expired_at = ends /\ row.balance = sum
      BY <3>1, <3>2, <3>4 DEF HoldingRow
    <3> QED BY <3>3, <3>5 DEF sum, ends
  <2>2. CASE k \notin DOMAIN t
    BY <1>0, <1>1, <2>2 DEF NewRow, HoldingRow, In_ntt
  <2> QED BY <2>1, <2>2
<1> HIDE DEF row
<1>4. Rows_ntt(s)
  <2>1. \A j \in DOMAIN s : s[j] \in HoldingRow /\ s[j].symbol.code = j[2] /\ j \in Holders \X Codes
    BY <1>0, <1>1, <1>2, <1>3 DEF Rows_ntt, IsTable
  <2> QED BY <2>1 DEF Rows_ntt, IsTable
<1>5. Differ_ntt(t, s, u, sym.code, amount)
  <2>1. In_ntt(s, u, sym.code) = In_ntt(t, u, sym.code) + amount
    BY <1>2, <1>3 DEF In_ntt
  <2>2. ASSUME NEW v, NEW e, <<v, e>> # k PROVE In_ntt(s, v, e) = In_ntt(t, v, e)
    BY <1>2, <2>2 DEF In_ntt
  <2>3. \A v, e : (v = u /\ e = sym.code) \/ In_ntt(s, v, e) = In_ntt(t, v, e)
    BY <2>2
  <2> QED BY <1>0, <2>1, <2>3 DEF Differ_ntt
<1> QED BY <1>2, <1>3, <1>4, <1>5 DEF Paid

\* An account that can pay, and the table after it paid.
CanPay(u, sym, amount) ==
    /\ Rows_ntt(holdings) /\ u \in Holders /\ sym \in Tokens /\ amount \in Nat /\ day \in Nat
    /\ CanSub(<<u, sym.code>>, sym, amount)

PaidOut(s, u, sym, amount) ==
    LET k == <<u, sym.code>>
    IN  /\ Rows_ntt(s) /\ Differ_ntt(holdings, s, u, sym.code, 0 - amount)
        /\ DOMAIN s = DOMAIN holdings /\ k \in DOMAIN holdings
        /\ s[k].symbol = sym /\ s[k].balance = holdings[k].balance - amount
        /\ s[k].balance > 0 => s[k].expired_at = day + YEAR
        /\ \A j \in DOMAIN holdings : j # k => s[j] = holdings[j]

LEMMA SubBalance ==
    ASSUME NEW s, NEW u, NEW sym, NEW amount, CanPay(u, sym, amount),
           s = sub_balance(<<u, sym.code>>, amount)
    PROVE  PaidOut(s, u, sym, amount)
<1> DEFINE k == <<u, sym.code>>
           left == holdings[k].balance - amount
           ends == IF holdings[k].balance = amount THEN holdings[k].expired_at ELSE day + YEAR
<1>0. /\ Rows_ntt(holdings) /\ u \in Holders /\ sym \in Tokens /\ amount \in Nat /\ day \in Nat
      /\ CanSub(k, sym, amount)
  BY DEF CanPay
<1>1. /\ k \in DOMAIN holdings /\ holdings[k] \in HoldingRow /\ holdings[k].symbol = sym
      /\ holdings[k].balance >= amount /\ YEAR \in Nat
  BY <1>0, NttInputs DEF Rows_ntt, IsTable, CanSub
<1>2. left \in Nat /\ ends \in Nat /\ (left > 0 => ends = day + YEAR)
  BY <1>0, <1>1 DEF HoldingRow
<1>3. /\ DOMAIN s = DOMAIN holdings
      /\ s[k] = [holdings[k] EXCEPT !.balance = left, !.expired_at = ends]
      /\ \A j \in DOMAIN holdings : j # k => s[j] = holdings[j]
  BY <1>0, <1>1 DEF sub_balance, HoldingRow
<1> HIDE DEF left, ends
<1>4. /\ s[k] \in HoldingRow /\ s[k].symbol = sym
      /\ s[k].balance = left /\ s[k].expired_at = ends
  BY <1>1, <1>2, <1>3 DEF HoldingRow
<1>5. Rows_ntt(s)
  <2>0. k[2] = sym.code /\ k \in Holders \X Codes
    BY <1>0, <1>1 DEF Rows_ntt, IsTable
  <2> HIDE DEF k
  <2>1. \A j \in DOMAIN s : s[j] \in HoldingRow /\ s[j].symbol.code = j[2] /\ j \in Holders \X Codes
    <3> SUFFICES ASSUME NEW j \in DOMAIN s
                 PROVE s[j] \in HoldingRow /\ s[j].symbol.code = j[2] /\ j \in Holders \X Codes
      OBVIOUS
    <3>1. CASE j = k
      BY <1>4, <2>0, <3>1
    <3>2. CASE j # k
      <4>1. j \in DOMAIN holdings /\ s[j] = holdings[j]
        BY <1>3, <3>2
      <4> QED BY <1>0, <4>1 DEF Rows_ntt, IsTable
    <3> QED BY <3>1, <3>2
  <2> QED BY <2>1 DEF Rows_ntt, IsTable
<1>6. Differ_ntt(holdings, s, u, sym.code, 0 - amount)
  <2>1. In_ntt(s, u, sym.code) = left /\ In_ntt(holdings, u, sym.code) = holdings[k].balance
    BY <1>1, <1>3, <1>4 DEF In_ntt
  <2>2. holdings[k].balance \in Nat
    BY <1>1 DEF HoldingRow
  <2>3. In_ntt(s, u, sym.code) = In_ntt(holdings, u, sym.code) + (0 - amount)
    BY <1>0, <2>1, <2>2 DEF left
  <2>4. ASSUME NEW v, NEW e, <<v, e>> # k PROVE In_ntt(s, v, e) = In_ntt(holdings, v, e)
    BY <1>1, <1>3, <2>4 DEF In_ntt
  <2>5. \A v, e : (v = u /\ e = sym.code) \/ In_ntt(s, v, e) = In_ntt(holdings, v, e)
    BY <2>4
  <2> QED BY <1>0, <2>3, <2>5 DEF Differ_ntt
<1> QED BY <1>1, <1>2, <1>3, <1>4, <1>5, <1>6 DEF PaidOut, left, ends
------------------------------------------------------------------------------
(* The inductive invariant *)

StatRow == [symbol : Tokens, supply : Nat, max_supply : Nat \ {0}, issuer : Holders]

StatRows ==
    /\ IsTable(stat, Codes, StatRow)
    /\ \A c \in DOMAIN stat : stat[c].symbol.code = c /\ stat[c].supply <= stat[c].max_supply

Books_ntt == \A c \in DOMAIN stat : stat[c].supply = Total_ntt(holdings, c)

Touches == \A k \in DOMAIN touched : touched[k] \in Nat /\ touched[k] <= day

\* A balance is of an existing token, and lasts a year from when it was touched.
Lasts(k) ==
    holdings[k].balance > 0 =>
        /\ Exists(holdings[k].symbol)
        /\ k \in DOMAIN touched /\ holdings[k].expired_at >= touched[k] + YEAR

NttInv ==
    /\ day \in Nat /\ Rows_ntt(holdings) /\ StatRows /\ Books_ntt /\ Touches
    /\ \A k \in DOMAIN holdings : Lasts(k)

\* The invariant has the types.
LEMMA InvHasTypes_ntt == ASSUME NttInv PROVE TypeOK_ntt
BY DEF NttInv, TypeOK_ntt, StatRows, StatRow, Rows_ntt

\* It has the supply.
LEMMA InvHasSupply_ntt == ASSUME NttInv PROVE SupplyIsHeld_ntt
<1>1. \A c \in DOMAIN stat : stat[c].supply = SumFunction([u \in Holders |-> HeldBy(u, c)])
  BY DEF NttInv, Books_ntt, Total_ntt, In_ntt, HeldBy
<1>2. \A k \in DOMAIN holdings : holdings[k].balance > 0 => Exists(holdings[k].symbol)
  BY DEF NttInv, Lasts
<1> QED BY <1>1, <1>2 DEF SupplyIsHeld_ntt

LEMMA NttInvInit == ASSUME Init_ntt PROVE NttInv
<1>1. DOMAIN stat = {} /\ DOMAIN holdings = {} /\ DOMAIN touched = {} /\ day = 0
  BY DEF Init_ntt, EmptyTable
<1> QED BY <1>1 DEF NttInv, Rows_ntt, StatRows, Books_ntt, Touches, IsTable

\* When a supply and the total of its code move together, the books stay right.
LEMMA SupplyMoves ==
    ASSUME NttInv, Rows_ntt(holdings)', NEW c \in DOMAIN stat, NEW d \in Int,
           Shift(holdings, holdings', c, d),
           stat[c].supply + d <= stat[c].max_supply,
           stat' = [stat EXCEPT ![c].supply = stat[c].supply + d]
    PROVE  StatRows' /\ Books_ntt' /\ \A sym : Exists(sym) => Exists(sym)'
<1> DEFINE new == stat[c].supply + d
<1>1. /\ stat[c] \in StatRow /\ stat[c].symbol.code = c /\ c \in Codes
      /\ stat[c].supply = Total_ntt(holdings, c)
  BY DEF NttInv, StatRows, IsTable, Books_ntt
<1>2. new = Total_ntt(holdings', c)
  BY <1>1 DEF Shift
<1>3. new \in Nat
  BY <1>2, TotalIsSum_ntt
<1>4. /\ DOMAIN stat' = DOMAIN stat
      /\ stat'[c] = [stat[c] EXCEPT !.supply = new]
      /\ \A e \in DOMAIN stat : e # c => stat'[e] = stat[e]
  OBVIOUS
<1>5. new <= stat[c].max_supply
  OBVIOUS
<1> HIDE DEF new
<1>6. /\ stat'[c] \in StatRow /\ stat'[c].symbol = stat[c].symbol /\ stat'[c].supply = new
      /\ stat'[c].max_supply = stat[c].max_supply
  BY <1>1, <1>3, <1>4 DEF StatRow
<1>7. StatRows'
  BY <1>1, <1>4, <1>5, <1>6 DEF NttInv, StatRows, IsTable
<1>8. Books_ntt'
  <2> SUFFICES ASSUME NEW e \in DOMAIN stat' PROVE stat'[e].supply = Total_ntt(holdings', e)
    BY DEF Books_ntt, Total_ntt, In_ntt
  <2>1. CASE e = c
    BY <1>2, <1>6, <2>1
  <2>2. CASE e # c
    <3>1. stat'[e] = stat[e] /\ stat[e].supply = Total_ntt(holdings, e)
      BY <1>4, <2>2 DEF NttInv, Books_ntt
    <3>2. Total_ntt(holdings, e) \in Nat
      BY TotalIsSum_ntt DEF NttInv
    <3>3. Total_ntt(holdings', e) = Total_ntt(holdings, e)
      BY <2>2, <3>2 DEF Shift
    <3> QED BY <3>1, <3>3
  <2> QED BY <2>1, <2>2
<1>9. ASSUME NEW sym, Exists(sym) PROVE Exists(sym)'
  <2>1. sym.code \in DOMAIN stat' /\ stat'[sym.code].symbol = stat[sym.code].symbol
    BY <1>4, <1>6, <1>9 DEF Exists
  <2> QED BY <1>9, <2>1 DEF Exists
<1> QED BY <1>7, <1>8, <1>9

\* When no supply and no total moves, they stay right too.
LEMMA SupplyStays ==
    ASSUME NttInv, \A e : Total_ntt(holdings', e) = Total_ntt(holdings, e), stat' = stat
    PROVE  StatRows' /\ Books_ntt' /\ \A sym : Exists(sym) => Exists(sym)'
<1>1. \A e \in DOMAIN stat : stat'[e].supply = Total_ntt(holdings', e)
  BY DEF NttInv, Books_ntt
<1> QED BY <1>1 DEF NttInv, StatRows, Books_ntt, Exists, Total_ntt, In_ntt

\* A code without a token has no balances.
LEMMA NothingYet ==
    ASSUME NttInv, NEW c, c \notin DOMAIN stat
    PROVE  Total_ntt(holdings, c) = 0
<1> DEFINE w == [u \in Holders |-> In_ntt(holdings, u, c)]
<1>1. IsFiniteSet(Holders) /\ Rows_ntt(holdings)
  BY NttInputs DEF NttInv
<1>2. Total_ntt(holdings, c) = Sum(w, Holders)
  BY <1>1, TotalIsSum_ntt
<1>3. ASSUME NEW u \in Holders PROVE w[u] = 0
  <2>1. CASE <<u, c>> \in DOMAIN holdings
    <3> DEFINE k == <<u, c>>
    <3>1. holdings[k].symbol.code = c /\ holdings[k].balance \in Nat
      BY <1>1, <2>1 DEF Rows_ntt, IsTable, HoldingRow
    <3>2. ~ (holdings[k].balance > 0)
      BY <2>1, <3>1 DEF NttInv, Lasts, Exists
    <3>3. holdings[k].balance = 0
      BY <3>1, <3>2
    <3> QED BY <2>1, <3>3 DEF In_ntt
  <2>2. CASE <<u, c>> \notin DOMAIN holdings
    BY <2>2 DEF In_ntt
  <2> QED BY <2>1, <2>2
<1> HIDE DEF w
<1> QED BY <1>1, <1>2, <1>3, SumZero
------------------------------------------------------------------------------
(* The actions keep it *)

\* What Touch does to the history.
LEMMA TouchSets ==
    ASSUME NttInv, NEW K, touched' = Touch(K), day' = day
    PROVE  /\ Touches'
           /\ \A k \in K : k \in DOMAIN touched' /\ touched'[k] = day
           /\ \A k \in DOMAIN touched \ K : k \in DOMAIN touched' /\ touched'[k] = touched[k]
BY DEF NttInv, Touches, Touch

\* A row that stays still lasts, when its token exists on.
LEMMA RowStays ==
    ASSUME NttInv, NEW k \in DOMAIN holdings, holdings'[k] = holdings[k],
           \A sym : Exists(sym) => Exists(sym)',
           k \in DOMAIN touched => k \in DOMAIN touched' /\ touched'[k] = touched[k]
    PROVE  Lasts(k)'
BY DEF NttInv, Lasts

\* A row that was paid to, or that a payment left something in, lasts a year.
LEMMA RowRenewed ==
    ASSUME NEW k, holdings'[k].balance > 0 => holdings'[k].expired_at = day + YEAR,
           Exists(holdings[k].symbol)', day \in Nat,
           k \in DOMAIN touched' /\ touched'[k] = day
    PROVE  Lasts(k)'
<1>1. YEAR \in Nat
  BY NttInputs
<1> QED BY <1>1 DEF Lasts

\* The token of an action, and its issuer's account.
LEMMA TokenFacts ==
    ASSUME NttInv, NEW sym \in Tokens, Exists(sym)
    PROVE  /\ sym.code \in DOMAIN stat /\ stat[sym.code].issuer \in Holders
           /\ stat[sym.code].supply \in Nat /\ stat[sym.code].max_supply \in Nat
           /\ stat[sym.code].supply <= stat[sym.code].max_supply
BY DEF NttInv, StatRows, StatRow, IsTable, Exists

LEMMA CreateKeeps_ntt ==
    ASSUME NttInv, NEW u \in Holders, NEW sym \in Tokens, NEW q \in Supplies,
           create_ntt(u, sym, q)
    PROVE  NttInv'
<1> DEFINE c == sym.code
           row == [symbol |-> sym, supply |-> 0, max_supply |-> q, issuer |-> u]
<1>1. /\ c \notin DOMAIN stat /\ stat' = Emplace(stat, c, row)
      /\ holdings' = holdings /\ day' = day /\ touched' = touched
  BY DEF create_ntt
<1>2. row \in StatRow /\ row.symbol.code = c /\ row.supply = 0 /\ row.supply <= row.max_supply
      /\ c \in Codes
  BY NttInputs DEF StatRow, Codes
<1> HIDE DEF row
<1>3. /\ DOMAIN stat' = DOMAIN stat \cup {c} /\ stat'[c] = row
      /\ \A e \in DOMAIN stat : e # c /\ stat'[e] = stat[e]
  BY <1>1 DEF Emplace
<1>4. StatRows'
  BY <1>2, <1>3 DEF NttInv, StatRows, IsTable
<1>5. Books_ntt'
  <2>1. Total_ntt(holdings, c) = 0
    BY <1>1, NothingYet
  <2>2. \A e \in DOMAIN stat' : stat'[e].supply = Total_ntt(holdings, e)
    BY <1>2, <1>3, <2>1 DEF NttInv, Books_ntt
  <2> QED BY <1>1, <2>2 DEF Books_ntt, Total_ntt, In_ntt
<1>6. \A s : Exists(s) => Exists(s)'
  BY <1>3 DEF Exists
<1>7. \A k \in DOMAIN holdings' : Lasts(k)'
  BY <1>1, <1>6, RowStays
<1>8. (day \in Nat)' /\ Rows_ntt(holdings)' /\ Touches'
  BY <1>1 DEF NttInv, Rows_ntt, Touches
<1> QED BY <1>4, <1>5, <1>7, <1>8 DEF NttInv

LEMMA IssueKeeps ==
    ASSUME NttInv, NEW sym \in Tokens, NEW q \in Sums, issue_ntt(sym, q)
    PROVE  NttInv'
<1> DEFINE c == sym.code
<1>0. PICK u : u = stat[c].issuer
  OBVIOUS
<1> DEFINE k == <<u, c>>
<1>1. /\ Exists(sym) /\ q <= stat[c].max_supply - stat[c].supply
      /\ CanAdd(holdings, k, sym) /\ holdings' = add_balance(holdings, k, sym, q)
      /\ touched' = Touch({k}) /\ day' = day
      /\ stat' = [stat EXCEPT ![c].supply = stat[c].supply + q]
  BY <1>0 DEF issue_ntt
<1>2. /\ q \in Nat /\ u \in Holders /\ c \in DOMAIN stat /\ Rows_ntt(holdings) /\ day \in Nat
      /\ stat[c].supply \in Nat /\ stat[c].max_supply \in Nat
  BY <1>0, <1>1, TokenFacts, NttInputs DEF NttInv
<1>3. /\ Rows_ntt(holdings') /\ Differ_ntt(holdings, holdings', u, c, q)
      /\ DOMAIN holdings' = DOMAIN holdings \cup {k}
      /\ holdings'[k].symbol = sym /\ holdings'[k].expired_at = day + YEAR
      /\ \A j \in DOMAIN holdings : j # k => holdings'[j] = holdings[j]
  <2>1. CanBePaid(holdings, u, sym, q)
    BY <1>1, <1>2 DEF CanBePaid
  <2>2. Paid(holdings, holdings', u, sym, q)
    BY <1>1, <2>1, AddBalance
  <2> QED BY <2>2 DEF Paid
<1>4. Rows_ntt(holdings)'
  BY <1>3 DEF Rows_ntt
<1>5. Shift(holdings, holdings', c, q)
  BY <1>3, DifferShifts_ntt
<1>6. stat[c].supply + q <= stat[c].max_supply
  BY <1>1, <1>2
<1>7. StatRows' /\ Books_ntt' /\ \A s : Exists(s) => Exists(s)'
  <2>1. q \in Int /\ stat' = [stat EXCEPT ![c].supply = stat[c].supply + q]
    BY <1>1, <1>2
  <2> QED BY <1>2, <1>4, <1>5, <1>6, <2>1, SupplyMoves
<1>8. /\ Touches' /\ k \in DOMAIN touched' /\ touched'[k] = day
      /\ \A j \in DOMAIN touched \ {k} : j \in DOMAIN touched' /\ touched'[j] = touched[j]
  BY <1>1, TouchSets
<1>9. Lasts(k)'
  BY <1>1, <1>2, <1>3, <1>7, <1>8, RowRenewed
<1>10. ASSUME NEW j \in DOMAIN holdings', j # k PROVE Lasts(j)'
  <2>1. j \in DOMAIN holdings /\ holdings'[j] = holdings[j]
    BY <1>3, <1>10
  <2> QED BY <1>7, <1>8, <1>10, <2>1, RowStays
<1>11. \A j \in DOMAIN holdings' : Lasts(j)'
  BY <1>9, <1>10
<1> QED BY <1>1, <1>2, <1>4, <1>7, <1>8, <1>11 DEF NttInv

LEMMA RetireKeeps ==
    ASSUME NttInv, NEW sym \in Tokens, NEW q \in Sums, retire_ntt(sym, q)
    PROVE  NttInv'
<1> DEFINE c == sym.code
<1>0. PICK u : u = stat[c].issuer
  OBVIOUS
<1> DEFINE k == <<u, c>>
<1>1. /\ Exists(sym) /\ CanSub(k, sym, q) /\ holdings' = sub_balance(k, q)
      /\ touched' = Touch({k}) /\ day' = day
      /\ stat' = [stat EXCEPT ![c].supply = stat[c].supply - q]
  BY <1>0 DEF retire_ntt
<1>2. /\ q \in Nat /\ u \in Holders /\ c \in DOMAIN stat /\ Rows_ntt(holdings) /\ day \in Nat
      /\ stat[c].supply \in Nat /\ stat[c].max_supply \in Nat
      /\ stat[c].supply <= stat[c].max_supply
  BY <1>0, <1>1, TokenFacts, NttInputs DEF NttInv
<1>3. /\ Rows_ntt(holdings') /\ Differ_ntt(holdings, holdings', u, c, 0 - q)
      /\ DOMAIN holdings' = DOMAIN holdings /\ k \in DOMAIN holdings
      /\ holdings'[k].symbol = sym
      /\ holdings'[k].balance > 0 => holdings'[k].expired_at = day + YEAR
      /\ \A j \in DOMAIN holdings : j # k => holdings'[j] = holdings[j]
  <2>1. CanPay(u, sym, q)
    BY <1>1, <1>2 DEF CanPay
  <2>2. PaidOut(holdings', u, sym, q)
    BY <1>1, <2>1, SubBalance
  <2> QED BY <2>2 DEF PaidOut
<1>4. Rows_ntt(holdings)'
  BY <1>3 DEF Rows_ntt
<1>5. Shift(holdings, holdings', c, 0 - q)
  BY <1>3, DifferShifts_ntt
<1>6. /\ stat[c].supply + (0 - q) = stat[c].supply - q
      /\ stat[c].supply + (0 - q) <= stat[c].max_supply /\ 0 - q \in Int
  BY <1>2
<1>7. StatRows' /\ Books_ntt' /\ \A s : Exists(s) => Exists(s)'
  <2>1. stat' = [stat EXCEPT ![c].supply = stat[c].supply + (0 - q)]
    BY <1>1, <1>6
  <2> QED BY <1>2, <1>4, <1>5, <1>6, <2>1, SupplyMoves
<1>8. /\ Touches' /\ k \in DOMAIN touched' /\ touched'[k] = day
      /\ \A j \in DOMAIN touched \ {k} : j \in DOMAIN touched' /\ touched'[j] = touched[j]
  BY <1>1, TouchSets
<1>9. Lasts(k)'
  BY <1>1, <1>2, <1>3, <1>7, <1>8, RowRenewed
<1>10. ASSUME NEW j \in DOMAIN holdings', j # k PROVE Lasts(j)'
  <2>1. j \in DOMAIN holdings /\ holdings'[j] = holdings[j]
    BY <1>3, <1>10
  <2> QED BY <1>7, <1>8, <1>10, <2>1, RowStays
<1>11. \A j \in DOMAIN holdings' : Lasts(j)'
  BY <1>9, <1>10
<1> QED BY <1>1, <1>2, <1>4, <1>7, <1>8, <1>11 DEF NttInv

\* The reward of a burn is a part of the balance.
LEMMA RewardIsPart ==
    ASSUME NEW a \in Nat
    PROVE  RewardOf(a) \in Nat /\ BurnedOf(a) \in Nat /\ RewardOf(a) + BurnedOf(a) = a
<1> DEFINE b == (10 * a * REWARD_PERCENT) \div PERCENT_BOOST
<1>1. b \in Nat /\ b <= a
  BY DEF REWARD_PERCENT, PERCENT_BOOST
<1>2. RewardOf(a) = (b + 5) \div 10
  BY DEF RewardOf
<1> HIDE DEF b
<1>3. (b + 5) \div 10 \in Nat /\ ((b + 5) \div 10 <= b)
  BY <1>1
<1>4. RewardOf(a) \in Nat /\ RewardOf(a) <= a
  BY <1>1, <1>2, <1>3
<1>5. BurnedOf(a) = a - RewardOf(a)
  BY DEF BurnedOf
<1> QED BY <1>4, <1>5

\* Two changes of one code add up.
LEMMA ShiftsAdd ==
    ASSUME NEW t, NEW m, NEW s, NEW c, NEW d \in Int, NEW f \in Int, NEW g \in Int, g = d + f,
           Rows_ntt(t), Shift(t, m, c, d), Shift(m, s, c, f)
    PROVE  Shift(t, s, c, g)
<1> SUFFICES ASSUME NEW e PROVE Total_ntt(s, e) = Total_ntt(t, e) + (IF e = c THEN g ELSE 0)
  BY DEF Shift
<1>1. /\ Total_ntt(m, e) = Total_ntt(t, e) + (IF e = c THEN d ELSE 0)
      /\ Total_ntt(s, e) = Total_ntt(m, e) + (IF e = c THEN f ELSE 0)
  BY DEF Shift
<1>2. Total_ntt(t, e) \in Nat
  BY TotalIsSum_ntt
<1> QED BY <1>1, <1>2

LEMMA BurnKeeps ==
    ASSUME NttInv, NEW predator \in Holders, NEW victim \in Holders, NEW sym \in Tokens,
           burn(predator, victim, sym)
    PROVE  NttInv'
<1> DEFINE c == sym.code
           v == <<victim, c>>
           p == <<predator, c>>
<1>0. PICK amount, rest : amount = holdings[v].balance /\ rest = sub_balance(v, amount)
  OBVIOUS
<1>1. /\ v \in DOMAIN holdings /\ holdings[v].symbol = sym /\ amount > 0
      /\ c \in DOMAIN stat /\ stat[c].supply >= BurnedOf(amount) /\ day' = day
      /\ stat' = [stat EXCEPT ![c].supply = stat[c].supply - BurnedOf(amount)]
      /\ \/ /\ RewardOf(amount) > 0 /\ CanAdd(rest, p, sym) /\ touched' = Touch({p})
            /\ holdings' = add_balance(rest, p, sym, RewardOf(amount))
         \/ ~ (RewardOf(amount) > 0) /\ holdings' = rest /\ touched' = touched
  BY <1>0 DEF burn
<1>2. /\ amount \in Nat /\ Rows_ntt(holdings) /\ day \in Nat /\ CanSub(v, sym, amount)
      /\ Exists(sym)
  <2>1. holdings[v] \in HoldingRow /\ Rows_ntt(holdings) /\ day \in Nat
    BY <1>1 DEF NttInv, Rows_ntt, IsTable
  <2>2. amount \in Nat
    BY <1>0, <2>1 DEF HoldingRow
  <2>3. Lasts(v)
    BY <1>1 DEF NttInv
  <2> QED BY <1>0, <1>1, <2>1, <2>2, <2>3 DEF CanSub, Lasts
<1>3. /\ stat[c].supply \in Nat /\ stat[c].max_supply \in Nat
      /\ stat[c].supply <= stat[c].max_supply
      /\ RewardOf(amount) \in Nat /\ BurnedOf(amount) \in Nat
      /\ RewardOf(amount) + BurnedOf(amount) = amount
  BY <1>2, TokenFacts, RewardIsPart
<1>4. /\ Rows_ntt(rest) /\ Differ_ntt(holdings, rest, victim, c, 0 - amount)
      /\ DOMAIN rest = DOMAIN holdings
      /\ rest[v].symbol = sym /\ rest[v].balance = holdings[v].balance - amount
      /\ \A j \in DOMAIN holdings : j # v => rest[j] = holdings[j]
  <2>1. CanPay(victim, sym, amount)
    BY <1>2 DEF CanPay
  <2>2. PaidOut(rest, victim, sym, amount)
    BY <1>0, <2>1, SubBalance
  <2> QED BY <2>2 DEF PaidOut
<1>5. rest[v].balance = 0 /\ Shift(holdings, rest, c, 0 - amount)
  <2>1. rest[v].balance = 0
    BY <1>0, <1>2, <1>4
  <2> QED BY <1>4, <2>1, DifferShifts_ntt
<1>6. /\ Rows_ntt(holdings') /\ Shift(holdings, holdings', c, 0 - BurnedOf(amount))
      /\ Touches' /\ \A j \in DOMAIN holdings' :
            \/ j \in DOMAIN holdings /\ holdings'[j] = holdings[j]
               /\ (j \in DOMAIN touched => j \in DOMAIN touched' /\ touched'[j] = touched[j])
            \/ holdings'[j].balance = 0
            \/ /\ holdings'[j].symbol = sym /\ holdings'[j].expired_at = day + YEAR
               /\ j \in DOMAIN touched' /\ touched'[j] = day
  <2>1. CASE RewardOf(amount) > 0
    <3>1. /\ CanAdd(rest, p, sym) /\ touched' = Touch({p})
          /\ holdings' = add_balance(rest, p, sym, RewardOf(amount))
      BY <1>1, <2>1
    <3>2. /\ Rows_ntt(holdings') /\ Differ_ntt(rest, holdings', predator, c, RewardOf(amount))
          /\ DOMAIN holdings' = DOMAIN rest \cup {p}
          /\ holdings'[p].symbol = sym /\ holdings'[p].expired_at = day + YEAR
          /\ \A j \in DOMAIN rest : j # p => holdings'[j] = rest[j]
      <4>1. CanBePaid(rest, predator, sym, RewardOf(amount))
        BY <1>2, <1>3, <1>4, <3>1 DEF CanBePaid
      <4>2. Paid(rest, holdings', predator, sym, RewardOf(amount))
        BY <3>1, <4>1, AddBalance
      <4> QED BY <4>2 DEF Paid
    <3>3. Shift(rest, holdings', c, RewardOf(amount))
      BY <3>2, DifferShifts_ntt
    <3>4. Shift(holdings, holdings', c, 0 - BurnedOf(amount))
      <4>1. /\ 0 - BurnedOf(amount) = (0 - amount) + RewardOf(amount)
            /\ 0 - amount \in Int /\ RewardOf(amount) \in Int /\ 0 - BurnedOf(amount) \in Int
        BY <1>2, <1>3
      <4> QED BY <1>2, <1>5, <3>3, <4>1, ShiftsAdd
    <3>5. /\ Touches' /\ p \in DOMAIN touched' /\ touched'[p] = day
          /\ \A j \in DOMAIN touched \ {p} : j \in DOMAIN touched' /\ touched'[j] = touched[j]
      BY <1>1, <3>1, TouchSets
    <3>6. ASSUME NEW j \in DOMAIN holdings', j # p, j # v
          PROVE  /\ j \in DOMAIN holdings /\ holdings'[j] = holdings[j]
                 /\ j \notin DOMAIN touched \/ (j \in DOMAIN touched' /\ touched'[j] = touched[j])
      BY <1>4, <3>2, <3>5, <3>6
    <3>7. v = p \/ holdings'[v].balance = 0
      BY <1>1, <1>4, <1>5, <3>2
    <3> QED BY <3>2, <3>4, <3>5, <3>6, <3>7
  <2>2. CASE ~ (RewardOf(amount) > 0)
    <3>1. holdings' = rest /\ touched' = touched /\ BurnedOf(amount) = amount
      BY <1>1, <1>2, <1>3, <2>2
    <3>2. Touches'
      BY <1>1, <3>1 DEF NttInv, Touches
    <3> QED BY <1>4, <1>5, <3>1, <3>2
  <2> QED BY <2>1, <2>2
<1>7. Rows_ntt(holdings)'
  BY <1>6 DEF Rows_ntt
<1>8. StatRows' /\ Books_ntt' /\ \A s : Exists(s) => Exists(s)'
  <2>1. /\ stat[c].supply + (0 - BurnedOf(amount)) = stat[c].supply - BurnedOf(amount)
        /\ stat[c].supply + (0 - BurnedOf(amount)) <= stat[c].max_supply
        /\ 0 - BurnedOf(amount) \in Int
    BY <1>3
  <2>2. stat' = [stat EXCEPT ![c].supply = stat[c].supply + (0 - BurnedOf(amount))]
    BY <1>1, <2>1
  <2> QED BY <1>1, <1>6, <1>7, <2>1, <2>2, SupplyMoves
<1>9. \A j \in DOMAIN holdings' : Lasts(j)'
  <2> SUFFICES ASSUME NEW j \in DOMAIN holdings' PROVE Lasts(j)'
    OBVIOUS
  <2>1. CASE /\ j \in DOMAIN holdings /\ holdings'[j] = holdings[j]
             /\ j \in DOMAIN touched => j \in DOMAIN touched' /\ touched'[j] = touched[j]
    BY <1>8, <2>1, RowStays
  <2>2. CASE holdings'[j].balance = 0
    BY <2>2 DEF Lasts
  <2>3. CASE /\ holdings'[j].symbol = sym /\ holdings'[j].expired_at = day + YEAR
             /\ j \in DOMAIN touched' /\ touched'[j] = day
    BY <1>2, <1>8, <2>3, RowRenewed
  <2> QED BY <1>6, <2>1, <2>2, <2>3
<1> QED BY <1>1, <1>2, <1>6, <1>7, <1>8, <1>9 DEF NttInv
LEMMA TransferKeeps_ntt ==
    ASSUME NttInv, NEW from \in Holders, NEW to \in Holders, NEW sym \in Tokens, NEW q \in Sums,
           transfer_ntt(from, to, sym, q)
    PROVE  NttInv'
<1> DEFINE c == sym.code
           f == <<from, c>>
           t == <<to, c>>
<1>0. PICK rest : rest = sub_balance(f, q)
  OBVIOUS
<1>1. /\ from # to /\ Exists(sym) /\ CanSub(f, sym, q) /\ CanAdd(holdings, t, sym)
      /\ holdings' = add_balance(rest, t, sym, q)
      /\ touched' = Touch({f, t}) /\ stat' = stat /\ day' = day
  BY <1>0 DEF transfer_ntt
<1>2. q \in Nat /\ Rows_ntt(holdings) /\ day \in Nat
  BY NttInputs DEF NttInv
<1>3. /\ Rows_ntt(rest) /\ Differ_ntt(holdings, rest, from, c, 0 - q)
      /\ DOMAIN rest = DOMAIN holdings /\ f \in DOMAIN holdings
      /\ rest[f].symbol = sym
      /\ rest[f].balance > 0 => rest[f].expired_at = day + YEAR
      /\ \A j \in DOMAIN holdings : j # f => rest[j] = holdings[j]
  <2>1. CanPay(from, sym, q)
    BY <1>1, <1>2 DEF CanPay
  <2>2. PaidOut(rest, from, sym, q)
    BY <1>0, <2>1, SubBalance
  <2> QED BY <2>2 DEF PaidOut
<1>4. CanAdd(rest, <<to, sym.code>>, sym) /\ f # t
  BY <1>1, <1>3 DEF CanAdd
<1>5. /\ Rows_ntt(holdings') /\ Differ_ntt(rest, holdings', to, c, q)
      /\ DOMAIN holdings' = DOMAIN rest \cup {t}
      /\ holdings'[t].symbol = sym /\ holdings'[t].expired_at = day + YEAR
      /\ \A j \in DOMAIN rest : j # t => holdings'[j] = rest[j]
  <2>1. CanBePaid(rest, to, sym, q)
    BY <1>2, <1>3, <1>4 DEF CanBePaid
  <2>2. Paid(rest, holdings', to, sym, q)
    BY <1>1, <2>1, AddBalance
  <2> QED BY <2>2 DEF Paid
<1>6. Shift(holdings, holdings', c, 0)
  <2>1. Shift(holdings, rest, c, 0 - q) /\ Shift(rest, holdings', c, q)
    BY <1>3, <1>5, DifferShifts_ntt
  <2>2. 0 = (0 - q) + q /\ 0 - q \in Int /\ q \in Int /\ 0 \in Int
    BY <1>2
  <2> QED BY <1>2, <2>1, <2>2, ShiftsAdd
<1>7. \A e : Total_ntt(holdings', e) = Total_ntt(holdings, e)
  <2> SUFFICES ASSUME NEW e PROVE Total_ntt(holdings', e) = Total_ntt(holdings, e)
    OBVIOUS
  <2>1. Total_ntt(holdings, e) \in Nat
    BY <1>2, TotalIsSum_ntt
  <2> QED BY <1>6, <2>1 DEF Shift
<1>8. StatRows' /\ Books_ntt' /\ \A s : Exists(s) => Exists(s)'
  BY <1>1, <1>7, SupplyStays
<1>9. /\ Touches' /\ \A k \in {f, t} : k \in DOMAIN touched' /\ touched'[k] = day
      /\ \A j \in DOMAIN touched \ {f, t} : j \in DOMAIN touched' /\ touched'[j] = touched[j]
  BY <1>1, TouchSets
<1>10. ASSUME NEW j \in DOMAIN holdings' PROVE Lasts(j)'
  <2>1. CASE j = f
    <3>1. holdings'[j] = rest[j]
      BY <1>3, <1>4, <1>5, <2>1
    <3> QED BY <1>1, <1>2, <1>3, <1>8, <1>9, <2>1, <3>1, RowRenewed
  <2>2. CASE j = t
    BY <1>1, <1>2, <1>5, <1>8, <1>9, <2>2, RowRenewed
  <2>3. CASE j # f /\ j # t
    <3>1. j \in DOMAIN holdings /\ holdings'[j] = holdings[j]
      BY <1>3, <1>5, <2>3
    <3> QED BY <1>8, <1>9, <2>3, <3>1, RowStays
  <2> QED BY <2>1, <2>2, <2>3
<1>11. Rows_ntt(holdings)'
  BY <1>5 DEF Rows_ntt
<1> QED BY <1>1, <1>2, <1>8, <1>9, <1>10, <1>11 DEF NttInv

\* A row is opened empty, or the permissions of one change.
LEMMA PermitKeeps_ntt ==
    ASSUME NttInv, NEW u \in Holders, NEW sym \in Tokens, NEW a \in BOOLEAN, NEW b \in BOOLEAN,
           open(u, sym) \/ setacctperms_ntt(u, sym, a, b)
    PROVE  NttInv'
<1> DEFINE c == sym.code
           k == <<u, c>>
<1>1. stat' = stat /\ day' = day /\ touched' = touched
  BY DEF open, setacctperms_ntt
<1>2. /\ day \in Nat /\ Rows_ntt(holdings) /\ Touches /\ YEAR \in Nat
      /\ c \in Codes /\ k \in Holders \X Codes
  BY NttInputs DEF NttInv, Codes
<1>3. /\ DOMAIN holdings' = DOMAIN holdings \cup {k}
      /\ \A j \in DOMAIN holdings : j # k => holdings'[j] = holdings[j]
      /\ holdings'[k] \in HoldingRow
      /\ \/ /\ k \in DOMAIN holdings /\ holdings'[k].balance = holdings[k].balance
            /\ holdings'[k].symbol = holdings[k].symbol /\ holdings'[k].expired_at = day + YEAR
         \/ k \notin DOMAIN holdings /\ holdings'[k].balance = 0 /\ holdings'[k].symbol = sym
  <2>1. CASE open(u, sym)
    BY <1>2, <2>1 DEF open, Emplace, NewRow, HoldingRow
  <2>2. CASE setacctperms_ntt(u, sym, a, b) /\ k \notin DOMAIN holdings
    <3> DEFINE ends == day + YEAR
    <3>1. ends \in Nat
      BY <1>2
    <3>2. holdings' = Emplace(holdings, k, NewRow(sym, 0, a, b, ends))
      BY <2>2 DEF setacctperms_ntt
    <3> HIDE DEF ends
    <3> QED BY <2>2, <3>1, <3>2 DEF Emplace, NewRow, HoldingRow
  <2>3. CASE setacctperms_ntt(u, sym, a, b) /\ k \in DOMAIN holdings
    <3> DEFINE ends == day + YEAR
    <3>1. ends \in Nat /\ holdings[k] \in HoldingRow
      BY <1>2, <2>3 DEF Rows_ntt, IsTable
    <3>2. holdings' = [holdings EXCEPT ![k].allow_send = a, ![k].allow_recv = b,
                                       ![k].expired_at = ends]
      BY <2>3 DEF setacctperms_ntt
    <3>3. /\ DOMAIN holdings' = DOMAIN holdings
          /\ holdings'[k] = [holdings[k] EXCEPT !.allow_send = a, !.allow_recv = b,
                                                !.expired_at = ends]
          /\ \A j \in DOMAIN holdings : j # k => holdings'[j] = holdings[j]
      BY <2>3, <3>1, <3>2 DEF HoldingRow
    <3>4. holdings'[k].expired_at = ends
      BY <3>1, <3>3 DEF HoldingRow
    <3>5. holdings'[k].expired_at = day + YEAR
      BY <3>4
    <3> HIDE DEF ends
    <3> QED BY <2>3, <3>1, <3>3, <3>5 DEF HoldingRow
  <2> QED BY <2>1, <2>2, <2>3
<1>4. Rows_ntt(holdings)'
  <2>1. \A j \in DOMAIN holdings' :
           holdings'[j] \in HoldingRow /\ holdings'[j].symbol.code = j[2] /\ j \in Holders \X Codes
    BY <1>2, <1>3 DEF Rows_ntt, IsTable
  <2> QED BY <2>1 DEF Rows_ntt, IsTable
<1>5. \A v, e : In_ntt(holdings', v, e) = In_ntt(holdings, v, e)
  <2> SUFFICES ASSUME NEW v, NEW e PROVE In_ntt(holdings', v, e) = In_ntt(holdings, v, e)
    OBVIOUS
  <2>1. CASE <<v, e>> = k
    BY <1>3, <2>1 DEF In_ntt
  <2>2. CASE <<v, e>> # k
    BY <1>3, <2>2 DEF In_ntt
  <2> QED BY <2>1, <2>2
<1>6. \A e : Total_ntt(holdings', e) = Total_ntt(holdings, e)
  BY <1>5 DEF Total_ntt
<1>7. StatRows' /\ Books_ntt' /\ \A s : Exists(s) => Exists(s)'
  BY <1>1, <1>6, SupplyStays
<1>8. ASSUME NEW j \in DOMAIN holdings' PROVE Lasts(j)'
  <2>1. CASE j # k
    <3>1. j \in DOMAIN holdings /\ holdings'[j] = holdings[j]
      BY <1>3, <2>1
    <3> QED BY <1>1, <1>7, <3>1, RowStays
  <2>2. CASE j = k
    <3>1. CASE k \notin DOMAIN holdings
      BY <1>3, <2>2, <3>1 DEF Lasts
    <3>2. CASE k \in DOMAIN holdings
      <4>1. Lasts(k) /\ (k \in DOMAIN touched => touched[k] \in Nat /\ touched[k] <= day)
        BY <1>2, <3>2 DEF NttInv, Touches
      <4> QED BY <1>1, <1>2, <1>3, <1>7, <2>2, <3>2, <4>1 DEF Lasts
    <3> QED BY <3>1, <3>2
  <2> QED BY <2>1, <2>2
<1>9. Touches'
  BY <1>1, <1>2 DEF Touches
<1> QED BY <1>1, <1>2, <1>4, <1>7, <1>8, <1>9 DEF NttInv

LEMMA TickKeeps == ASSUME NttInv, Tick_ntt PROVE NttInv'
<1>1. /\ day' = day + 1 /\ stat' = stat /\ holdings' = holdings /\ touched' = touched
      /\ day \in Nat /\ day' \in Nat
  BY DEF Tick_ntt, NttInv
<1>2. Rows_ntt(holdings)' /\ StatRows' /\ Books_ntt' /\ \A k \in DOMAIN holdings' : Lasts(k)'
  BY <1>1 DEF NttInv, Rows_ntt, StatRows, Books_ntt, Lasts, Exists, Total_ntt, In_ntt
<1>3. Touches'
  BY <1>1 DEF NttInv, Touches
<1> QED BY <1>1, <1>2, <1>3 DEF NttInv

\* Every step keeps the invariant.
LEMMA NttInvNext == ASSUME NttInv, [Next_ntt]_nttvars PROVE NttInv'
<1>1. CASE Mint
  BY <1>1, CreateKeeps_ntt, IssueKeeps, RetireKeeps DEF Mint
<1>2. CASE Hold
  BY <1>2, PermitKeeps_ntt, TransferKeeps_ntt, BurnKeeps DEF Hold
<1>3. CASE Tick_ntt
  BY <1>3, TickKeeps
<1>4. CASE UNCHANGED nttvars
  BY <1>4
     DEF nttvars, NttInv, Rows_ntt, StatRows, Books_ntt, Touches, Lasts, Exists, Total_ntt, In_ntt
<1> QED BY <1>1, <1>2, <1>3, <1>4 DEF Next_ntt
------------------------------------------------------------------------------
(* Theorems *)

\* The invariant holds from the first day on.
THEOREM NttInvariant == Spec_ntt => []NttInv
<1>1. Init_ntt => NttInv
  BY NttInvInit
<1>2. NttInv /\ [Next_ntt]_nttvars => NttInv'
  BY NttInvNext
<1> QED BY <1>1, <1>2, PTL DEF Spec_ntt

\* The tables keep their types, and no token has more supply than its maximum: issue,
\* retire and the cut of a burn stay within it.
THEOREM NttTypeCorrect == Spec_ntt => []TypeOK_ntt
<1>1. NttInv => TypeOK_ntt
  BY InvHasTypes_ntt
<1> QED BY <1>1, NttInvariant, PTL

\* The supply in stat is what the rows of accounts come to, whatever is issued, sent,
\* burned for a reward or retired, and every balance is in the token's precision
\* (amax.ntt.cpp:10-201).
THEOREM NttSupplyIsHeld == Spec_ntt => []SupplyIsHeld_ntt
<1>1. NttInv => SupplyIsHeld_ntt
  BY InvHasSupply_ntt
<1> QED BY <1>1, NttInvariant, PTL

\* Whoever loses tokens to a burn is the victim named in it.
LEMMA OnlyVictimLoses ==
    ASSUME NttInv, NEW predator \in Holders, NEW victim \in Holders, NEW sym \in Tokens,
           burn(predator, victim, sym), NEW u, NEW c, HeldBy(u, c)' < HeldBy(u, c)
    PROVE  u = victim /\ c = sym.code
<1> DEFINE v == <<victim, sym.code>>
<1>0. PICK amount, rest : amount = holdings[v].balance /\ rest = sub_balance(v, amount)
  OBVIOUS
<1>1. /\ v \in DOMAIN holdings /\ holdings[v].symbol = sym /\ amount > 0
      /\ \/ /\ RewardOf(amount) > 0 /\ CanAdd(rest, <<predator, sym.code>>, sym)
            /\ holdings' = add_balance(rest, <<predator, sym.code>>, sym, RewardOf(amount))
         \/ holdings' = rest
  BY <1>0 DEF burn
<1>2. /\ amount \in Nat /\ Rows_ntt(holdings) /\ day \in Nat /\ CanSub(v, sym, amount)
  <2>1. holdings[v] \in HoldingRow /\ Rows_ntt(holdings) /\ day \in Nat
    BY <1>1 DEF NttInv, Rows_ntt, IsTable
  <2>2. amount \in Nat
    BY <1>0, <2>1 DEF HoldingRow
  <2> QED BY <1>0, <1>1, <2>1, <2>2 DEF CanSub
<1>3. Rows_ntt(rest) /\ Differ_ntt(holdings, rest, victim, sym.code, 0 - amount)
  <2>1. CanPay(victim, sym, amount)
    BY <1>2 DEF CanPay
  <2>2. PaidOut(rest, victim, sym, amount)
    BY <1>0, <2>1, SubBalance
  <2> QED BY <2>2 DEF PaidOut
<1>4. \A w, e : In_ntt(holdings', w, e) >= In_ntt(rest, w, e)
  <2>0. \A w, e : In_ntt(rest, w, e) \in Nat
    BY <1>3, BalanceIsNat_ntt
  <2>1. CASE holdings' = rest
    BY <2>0, <2>1
  <2>2. CASE /\ CanAdd(rest, <<predator, sym.code>>, sym)
             /\ holdings' = add_balance(rest, <<predator, sym.code>>, sym, RewardOf(amount))
    <3>1. RewardOf(amount) \in Nat
      BY <1>2, RewardIsPart
    <3>2. CanBePaid(rest, predator, sym, RewardOf(amount))
      BY <1>2, <1>3, <2>2, <3>1 DEF CanBePaid
    <3>3. Paid(rest, holdings', predator, sym, RewardOf(amount))
      BY <2>2, <3>2, AddBalance
    <3>4. Differ_ntt(rest, holdings', predator, sym.code, RewardOf(amount))
      BY <3>3 DEF Paid
    <3> QED BY <2>0, <3>1, <3>4 DEF Differ_ntt
  <2> QED BY <1>1, <2>1, <2>2
<1>5. HeldBy(u, c) = In_ntt(holdings, u, c) /\ HeldBy(u, c)' = In_ntt(holdings', u, c)
  BY DEF HeldBy, In_ntt
<1>6. In_ntt(rest, u, c) < In_ntt(holdings, u, c)
  <2>1. In_ntt(rest, u, c) \in Nat /\ In_ntt(holdings, u, c) \in Nat
    BY <1>2, <1>3, BalanceIsNat_ntt
  <2>2. In_ntt(holdings', u, c) \in Int
    <3>1. NttInv'
      BY BurnKeeps
    <3>2. Rows_ntt(holdings')
      BY <3>1 DEF NttInv, Rows_ntt
    <3>3. In_ntt(holdings', u, c) \in Nat
      BY <3>2, BalanceIsNat_ntt
    <3> QED BY <3>3
  <2>3. /\ In_ntt(holdings', u, c) < In_ntt(holdings, u, c)
        /\ In_ntt(holdings', u, c) >= In_ntt(rest, u, c)
    BY <1>4, <1>5
  <2> QED BY <2>1, <2>2, <2>3
<1>7. In_ntt(rest, u, c) # In_ntt(holdings, u, c)
  <2>1. In_ntt(rest, u, c) \in Nat /\ In_ntt(holdings, u, c) \in Nat
    BY <1>2, <1>3, BalanceIsNat_ntt
  <2> QED BY <1>6, <2>1
<1> QED BY <1>3, <1>7 DEF Differ_ntt

\* Only the issuer's balance moves when tokens are retired.
LEMMA OnlyIssuerRetires ==
    ASSUME NttInv, NEW sym \in Tokens, NEW q \in Sums, retire_ntt(sym, q),
           NEW u, u # stat[sym.code].issuer
    PROVE  HeldBy(u, sym.code)' = HeldBy(u, sym.code)
<1> DEFINE k == <<stat[sym.code].issuer, sym.code>>
           j == <<u, sym.code>>
<1>1. k \in DOMAIN holdings /\ holdings' = sub_balance(k, q)
  BY DEF retire_ntt, CanSub
<1>2. DOMAIN holdings' = DOMAIN holdings /\ (j \in DOMAIN holdings => holdings'[j] = holdings[j])
  BY <1>1 DEF sub_balance
<1> QED BY <1>2 DEF HeldBy

\* A balance that falls together with the supply, and is not the issuer's, was burned a
\* year and more after the last payment that touched it.
LEMMA BurnIsIdle ==
    ASSUME NttInv, [Next_ntt]_nttvars, NEW u \in Holders, NEW c \in DOMAIN stat,
           HeldBy(u, c)' < HeldBy(u, c), stat'[c].supply < stat[c].supply, u # stat[c].issuer
    PROVE  day > touched[<<u, c>>] + YEAR
<1>0. stat[c].supply \in Nat /\ HeldBy(u, c) \in Nat
  <2>1. HeldBy(u, c) = In_ntt(holdings, u, c) /\ Rows_ntt(holdings)
    BY DEF HeldBy, In_ntt, NttInv
  <2> QED BY <2>1, BalanceIsNat_ntt DEF NttInv, StatRows, StatRow, IsTable
<1>1. ASSUME NEW v \in Holders, NEW sym \in Tokens, NEW q \in Supplies, create_ntt(v, sym, q)
      PROVE  FALSE
  <2>1. stat'[c] = stat[c]
    BY <1>1 DEF create_ntt, Emplace
  <2> QED BY <1>0, <2>1
<1>2. ASSUME NEW sym \in Tokens, NEW q \in Sums, issue_ntt(sym, q) PROVE FALSE
  <2>1. q \in Nat /\ stat' = [stat EXCEPT ![sym.code].supply = @ + q]
    BY <1>2, NttInputs DEF issue_ntt
  <2>2. stat'[c].supply = IF c = sym.code THEN stat[c].supply + q ELSE stat[c].supply
    BY <2>1 DEF NttInv, StatRows, StatRow, IsTable
  <2> QED BY <1>0, <2>1, <2>2
<1>3. ASSUME NEW sym \in Tokens, NEW q \in Sums, retire_ntt(sym, q) PROVE FALSE
  <2>1. stat' = [stat EXCEPT ![sym.code].supply = @ - q]
    BY <1>3 DEF retire_ntt
  <2>2. c = sym.code
    BY <1>0, <2>1
  <2>3. HeldBy(u, sym.code)' = HeldBy(u, sym.code)
    BY <1>3, <2>2, OnlyIssuerRetires
  <2>4. HeldBy(u, c)' = HeldBy(u, c)
    BY <2>2, <2>3
  <2> QED BY <1>0, <2>4
<1>4. ASSUME NEW p \in Holders, NEW v \in Holders, NEW sym \in Tokens, burn(p, v, sym)
      PROVE  day > touched[<<u, c>>] + YEAR
  <2>1. u = v /\ c = sym.code
    BY <1>4, OnlyVictimLoses
  <2> DEFINE k == <<u, c>>
  <2>2. k \in DOMAIN holdings /\ holdings[k].balance > 0 /\ holdings[k].expired_at < day
    BY <1>4, <2>1 DEF burn
  <2>3. /\ k \in DOMAIN touched /\ touched[k] \in Nat /\ YEAR \in Nat /\ day \in Nat
        /\ holdings[k].expired_at \in Nat /\ holdings[k].expired_at >= touched[k] + YEAR
    BY <2>2, NttInputs DEF NttInv, Lasts, Touches, Rows_ntt, IsTable, HoldingRow
  <2> HIDE DEF k
  <2>4. day > touched[k] + YEAR
    BY <2>2, <2>3
  <2> QED BY <2>4 DEF k
<1>5. stat' # stat
  BY <1>0
<1>6. CASE Mint
  BY <1>1, <1>2, <1>3, <1>6 DEF Mint
<1>7. CASE Hold
  <2>1. ASSUME NEW p \in Holders, NEW sym \in Tokens PROVE ~ open(p, sym)
    BY <1>5 DEF open
  <2>2. ASSUME NEW p \in Holders, NEW sym \in Tokens, NEW s \in BOOLEAN, NEW r \in BOOLEAN
        PROVE  ~ setacctperms_ntt(p, sym, s, r)
    BY <1>5 DEF setacctperms_ntt
  <2>3. ASSUME NEW p \in Holders, NEW v \in Holders, NEW sym \in Tokens, NEW k \in Sums
        PROVE  ~ transfer_ntt(p, v, sym, k)
    BY <1>5 DEF transfer_ntt
  <2>4. \E p, v \in Holders, sym \in Tokens : burn(p, v, sym)
    BY <1>7, <2>1, <2>2, <2>3 DEF Hold
  <2> QED BY <1>4, <2>4
<1>8. CASE Tick_ntt
  BY <1>5, <1>8 DEF Tick_ntt
<1>9. CASE UNCHANGED nttvars
  BY <1>5, <1>9 DEF nttvars
<1> QED BY <1>6, <1>7, <1>8, <1>9 DEF Next_ntt

\* No balance burns before its time: every payment to it, and every one from it that left
\* something, has put its end off by a year (amax.ntt.cpp:82-119, :165-201).
THEOREM OnlyIdleBalancesBurn == Spec_ntt => OnlyIdleBurn
<1>1. NttInv /\ [Next_ntt]_nttvars =>
        [\A u \in Holders, c \in DOMAIN stat :
            /\ HeldBy(u, c)' < HeldBy(u, c)
            /\ stat[c].supply' < stat[c].supply
            /\ u # stat[c].issuer
            => day > touched[<<u, c>>] + YEAR]_nttvars
  <2> SUFFICES ASSUME NttInv, [Next_ntt]_nttvars, NEW u \in Holders, NEW c \in DOMAIN stat,
                      HeldBy(u, c)' < HeldBy(u, c), stat[c].supply' < stat[c].supply,
                      u # stat[c].issuer
               PROVE  day > touched[<<u, c>>] + YEAR
    OBVIOUS
  <2> QED BY BurnIsIdle
<1>2. Spec_ntt => []NttInv
  BY NttInvariant
<1> QED BY <1>1, <1>2, PTL DEF Spec_ntt, OnlyIdleBurn
------------------------------------------------------------------------------
(* The books as a ledger *)

\* What a holder has of an asset, by the token that exists.
HeldIsIn ==
    \A u \in Holders, s \in Tokens :
        /\ heldBar_ntt[u][s] = IF Exists(s) THEN In_ntt(holdings, u, s.code) ELSE 0
        /\ heldBar_ntt[u][s] \in Nat

LEMMA InvHasHeld == NttInv => HeldIsIn
<1> SUFFICES ASSUME NttInv, NEW u \in Holders, NEW s \in Tokens
             PROVE  /\ heldBar_ntt[u][s] = IF Exists(s) THEN In_ntt(holdings, u, s.code) ELSE 0
                    /\ heldBar_ntt[u][s] \in Nat
  BY DEF HeldIsIn
<1> DEFINE k == <<u, s.code>>
<1>1. heldBar_ntt[u][s] =
        IF k \in DOMAIN holdings /\ holdings[k].symbol = s THEN HeldBy(u, s.code) ELSE 0
  BY DEF heldBar_ntt
<1>2. HeldBy(u, s.code) = In_ntt(holdings, u, s.code) /\ In_ntt(holdings, u, s.code) \in Nat
  BY BalanceIsNat_ntt DEF HeldBy, In_ntt, NttInv
<1>3. CASE k \notin DOMAIN holdings
  BY <1>1, <1>3 DEF In_ntt
<1>4. CASE k \in DOMAIN holdings
  <2>1. /\ In_ntt(holdings, u, s.code) = holdings[k].balance /\ holdings[k].symbol.code = s.code
        /\ holdings[k].balance \in Nat
    BY <1>4 DEF In_ntt, NttInv, Rows_ntt, IsTable, HoldingRow
  <2>2. holdings[k].balance = 0 \/ Exists(holdings[k].symbol)
    BY <1>4, <2>1 DEF NttInv, Lasts
  <2> HIDE DEF k
  <2>3. CASE Exists(s)
    <3>1. holdings[k].balance = 0 \/ holdings[k].symbol = s
      BY <2>1, <2>2, <2>3 DEF Exists
    <3> QED BY <1>1, <1>2, <1>4, <2>1, <2>3, <3>1
  <2>4. CASE ~ Exists(s)
    <3>1. holdings[k].balance = 0 \/ holdings[k].symbol # s
      BY <2>2, <2>4
    <3> QED BY <1>1, <1>2, <1>4, <2>1, <2>4, <3>1
  <2> QED BY <2>3, <2>4
<1> QED BY <1>3, <1>4

\* The same of the state after a step.
LEMMA InvHasHeldNext == NttInv' => HeldIsIn'
BY InvHasHeld, PTL

\* The supply of one token changes, and nothing else of any.
StatChange(sym, d) ==
    /\ sym \in Tokens /\ Exists(sym) /\ d \in Int
    /\ stat' = [stat EXCEPT ![sym.code].supply = stat[sym.code].supply + d]

LEMMA StatChanges ==
    ASSUME NttInv, NEW sym, NEW d, StatChange(sym, d)
    PROVE  /\ UNCHANGED termsBar_ntt /\ \A s : Exists(s)' <=> Exists(s)
           /\ termsBar_ntt[sym] = {[issuer |-> stat[sym.code].issuer,
                                    cap |-> stat[sym.code].max_supply]}
           /\ supplyBar_ntt[sym] = stat[sym.code].supply
           /\ supplyBar_ntt' = [supplyBar_ntt EXCEPT ![sym] = @ + d]
<1> DEFINE c == sym.code
           new == stat[c].supply + d
<1>1. /\ sym \in Tokens /\ Exists(sym) /\ c \in DOMAIN stat /\ stat[c] \in StatRow
      /\ stat' = [stat EXCEPT ![c].supply = new]
  BY DEF StatChange, Exists, NttInv, StatRows, IsTable
<1> HIDE DEF new
<1>2. /\ DOMAIN stat' = DOMAIN stat /\ stat'[c] = [stat[c] EXCEPT !.supply = new]
      /\ \A e \in DOMAIN stat : e # c => stat'[e] = stat[e]
  BY <1>1
<1>3. /\ stat'[c].symbol = stat[c].symbol /\ stat'[c].supply = new
      /\ stat'[c].issuer = stat[c].issuer /\ stat'[c].max_supply = stat[c].max_supply
  BY <1>1, <1>2 DEF StatRow
<1>4. \A e \in DOMAIN stat :
        /\ stat'[e].symbol = stat[e].symbol /\ stat'[e].issuer = stat[e].issuer
        /\ stat'[e].max_supply = stat[e].max_supply
  BY <1>2, <1>3
<1>5. ASSUME NEW s PROVE Exists(s)' <=> Exists(s)
  BY <1>2, <1>4 DEF Exists
<1>6. \A s : Exists(s) => s.code \in DOMAIN stat
  BY DEF Exists
<1>7. UNCHANGED termsBar_ntt
  BY <1>4, <1>5, <1>6 DEF termsBar_ntt
<1>8. \A s : Exists(s) /\ s # sym => s.code \in DOMAIN stat /\ s.code # c
  BY <1>1 DEF Exists
<1>9. supplyBar_ntt[sym] = stat[c].supply /\ supplyBar_ntt'[sym] = new
  BY <1>1, <1>3, <1>5 DEF supplyBar_ntt
<1>10. \A s \in Tokens : s # sym => supplyBar_ntt'[s] = supplyBar_ntt[s]
  BY <1>2, <1>5, <1>8 DEF supplyBar_ntt
<1>11. supplyBar_ntt' = [supplyBar_ntt EXCEPT ![sym] = @ + d]
  <2>1. supplyBar_ntt'[sym] = supplyBar_ntt[sym] + d
    BY <1>9 DEF new
  <2> QED BY <1>1, <1>10, <2>1 DEF supplyBar_ntt
<1> QED BY <1>1, <1>5, <1>7, <1>9, <1>11 DEF termsBar_ntt

\* What leaves the tokens alone.
LEMMA StatSame ==
    ASSUME stat' = stat
    PROVE  UNCHANGED <<termsBar_ntt, supplyBar_ntt>> /\ \A s : Exists(s)' <=> Exists(s)
BY DEF termsBar_ntt, supplyBar_ntt, Exists

\* When the balances of one token change by D, so does what is held of it in the ledger.
LEMMA HeldChanges ==
    ASSUME NttInv, NttInv', NEW sym \in Tokens, Exists(sym), \A s : Exists(s)' <=> Exists(s),
           NEW D, \A u \in Holders : D[u] \in Int,
           \A u \in Holders, e \in Codes : In_ntt(holdings', u, e) =
               In_ntt(holdings, u, e) + (IF e = sym.code THEN D[u] ELSE 0)
    PROVE  heldBar_ntt' = [u \in Holders |-> [s \in Tokens |->
               IF s = sym THEN heldBar_ntt[u][s] + D[u] ELSE heldBar_ntt[u][s]]]
<1>1. HeldIsIn /\ HeldIsIn'
  BY InvHasHeld, InvHasHeldNext
<1>2. ASSUME NEW u \in Holders, NEW s \in Tokens
      PROVE  heldBar_ntt'[u][s] = IF s = sym THEN heldBar_ntt[u][s] + D[u] ELSE heldBar_ntt[u][s]
  <2>1. /\ heldBar_ntt[u][s] = IF Exists(s) THEN In_ntt(holdings, u, s.code) ELSE 0
        /\ heldBar_ntt'[u][s] = IF Exists(s)' THEN In_ntt(holdings', u, s.code) ELSE 0
    BY <1>1 DEF HeldIsIn, In_ntt
  <2>2. s.code \in Codes /\ In_ntt(holdings, u, s.code) \in Nat
    BY BalanceIsNat_ntt DEF NttInv, Codes
  <2>3. CASE s = sym
    BY <2>1, <2>2, <2>3
  <2>4. CASE s # sym /\ Exists(s)
    <3>1. s.code # sym.code
      BY <2>4 DEF Exists
    <3> QED BY <2>1, <2>2, <2>4, <3>1
  <2>5. CASE s # sym /\ ~ Exists(s)
    BY <2>1, <2>5
  <2> QED BY <2>3, <2>4, <2>5
<1>3. heldBar_ntt' = [u \in Holders |-> [s \in Tokens |-> heldBar_ntt'[u][s]]]
  BY DEF heldBar_ntt
<1> HIDE DEF heldBar_ntt
<1> QED BY <1>2, <1>3

\* When no balance changes, nothing does.
LEMMA HeldSame ==
    ASSUME NttInv, NttInv', stat' = stat,
           \A u \in Holders, e \in Codes : In_ntt(holdings', u, e) = In_ntt(holdings, u, e)
    PROVE  NttLedger!Next
<1>1. HeldIsIn /\ HeldIsIn'
  BY InvHasHeld, InvHasHeldNext
<1>2. UNCHANGED <<termsBar_ntt, supplyBar_ntt>> /\ \A s : Exists(s)' <=> Exists(s)
  BY StatSame
<1>3. \A u \in Holders, s \in Tokens : heldBar_ntt'[u][s] = heldBar_ntt[u][s]
  <2> SUFFICES ASSUME NEW u \in Holders, NEW s \in Tokens
               PROVE  heldBar_ntt'[u][s] = heldBar_ntt[u][s]
    OBVIOUS
  <2>1. /\ heldBar_ntt[u][s] = IF Exists(s) THEN In_ntt(holdings, u, s.code) ELSE 0
        /\ heldBar_ntt'[u][s] = IF Exists(s)' THEN In_ntt(holdings', u, s.code) ELSE 0
    BY <1>1 DEF HeldIsIn, In_ntt
  <2>2. s.code \in Codes
    BY DEF Codes
  <2> QED BY <1>2, <2>1, <2>2
<1>4. UNCHANGED heldBar_ntt
  <2>1. heldBar_ntt = [u \in Holders |-> [s \in Tokens |-> heldBar_ntt[u][s]]]
    BY DEF heldBar_ntt
  <2>2. heldBar_ntt' = [u \in Holders |-> [s \in Tokens |-> heldBar_ntt'[u][s]]]
    BY DEF heldBar_ntt
  <2> HIDE DEF heldBar_ntt
  <2> QED BY <1>3, <2>1, <2>2
<1> QED BY <1>2, <1>4 DEF NttLedger!Next, NttLedger!ledgervars

\* More or less of a token, by its issuer.
LEMMA IssuerChanges ==
    ASSUME NttInv, NttInv', NEW sym, NEW d, StatChange(sym, d),
           Differ_ntt(holdings, holdings', stat[sym.code].issuer, sym.code, d)
    PROVE  NttLedger!Change(stat[sym.code].issuer, sym, d)
<1> DEFINE u == stat[sym.code].issuer
           D == [v \in Holders |-> IF v = u THEN d ELSE 0]
<1>1. /\ UNCHANGED termsBar_ntt /\ \A s : Exists(s)' <=> Exists(s)
      /\ supplyBar_ntt' = [supplyBar_ntt EXCEPT ![sym] = @ + d]
  BY StatChanges
<1>2. sym \in Tokens /\ Exists(sym) /\ d \in Int /\ u \in Holders
  BY DEF StatChange, Differ_ntt
<1>3. /\ \A v \in Holders : D[v] \in Int
      /\ \A v \in Holders, e \in Codes : In_ntt(holdings', v, e) =
           In_ntt(holdings, v, e) + (IF e = sym.code THEN D[v] ELSE 0)
  <2> SUFFICES ASSUME NEW v \in Holders, NEW e \in Codes
               PROVE In_ntt(holdings', v, e) =
                       In_ntt(holdings, v, e) + (IF e = sym.code THEN D[v] ELSE 0)
    BY <1>2
  <2>1. In_ntt(holdings, v, e) \in Nat
    BY BalanceIsNat_ntt DEF NttInv
  <2> HIDE DEF u
  <2>2. D[v] = IF v = u THEN d ELSE 0
    OBVIOUS
  <2>3. /\ In_ntt(holdings', u, sym.code) = In_ntt(holdings, u, sym.code) + d
        /\ (v = u /\ e = sym.code) \/ In_ntt(holdings', v, e) = In_ntt(holdings, v, e)
    BY DEF Differ_ntt, u
  <2> QED BY <2>1, <2>2, <2>3
<1>4. heldBar_ntt' = [v \in Holders |-> [s \in Tokens |->
          IF s = sym THEN heldBar_ntt[v][s] + D[v] ELSE heldBar_ntt[v][s]]]
  <2> HIDE DEF D
  <2> QED BY <1>1, <1>2, <1>3, HeldChanges
<1>5. HeldIsIn /\ heldBar_ntt = [v \in Holders |-> [s \in Tokens |-> heldBar_ntt[v][s]]]
  BY InvHasHeld DEF heldBar_ntt
<1> HIDE DEF u
<1>6. heldBar_ntt' = [heldBar_ntt EXCEPT ![u][sym] = @ + d]
  <2>1. \A v \in Holders, s \in Tokens : heldBar_ntt[v][s] + 0 = heldBar_ntt[v][s]
    BY <1>5 DEF HeldIsIn
  <2>2. heldBar_ntt' = [v \in Holders |-> [s \in Tokens |->
          IF v = u /\ s = sym THEN heldBar_ntt[v][s] + d ELSE heldBar_ntt[v][s]]]
    BY <1>4, <2>1
  <2> HIDE DEF heldBar_ntt
  <2> QED BY <1>2, <1>5, <2>2
<1>7. NttLedger!Change(u, sym, d)
  BY <1>1, <1>6 DEF NttLedger!Change
<1> QED BY <1>7 DEF u

LEMMA IssueMakes ==
    ASSUME NttInv, NttInv', NEW sym \in Tokens, NEW q \in Sums, issue_ntt(sym, q)
    PROVE  NttLedger!Next
<1> DEFINE c == sym.code
           t == [issuer |-> stat[c].issuer, cap |-> stat[c].max_supply]
<1>0. PICK u : u = stat[c].issuer
  OBVIOUS
<1>1. /\ Exists(sym) /\ q <= stat[c].max_supply - stat[c].supply
      /\ CanAdd(holdings, <<u, c>>, sym) /\ holdings' = add_balance(holdings, <<u, c>>, sym, q)
      /\ stat' = [stat EXCEPT ![c].supply = stat[c].supply + q]
  BY <1>0 DEF issue_ntt
<1>2. /\ q \in Nat /\ q > 0 /\ u \in Holders /\ Rows_ntt(holdings) /\ day \in Nat
      /\ stat[c].supply \in Nat /\ stat[c].max_supply \in Nat
  BY <1>0, <1>1, TokenFacts, NttInputs DEF NttInv
<1>3. Differ_ntt(holdings, holdings', u, c, q)
  <2>1. CanBePaid(holdings, u, sym, q)
    BY <1>1, <1>2 DEF CanBePaid
  <2>2. Paid(holdings, holdings', u, sym, q)
    BY <1>1, <2>1, AddBalance
  <2> QED BY <2>2 DEF Paid
<1>4. StatChange(sym, q)
  BY <1>1, <1>2 DEF StatChange
<1>5. /\ NttLedger!Change(stat[c].issuer, sym, q)
      /\ termsBar_ntt[sym] = {t} /\ supplyBar_ntt[sym] = stat[c].supply
  BY <1>0, <1>3, <1>4, IssuerChanges, StatChanges
<1>6. t.issuer = stat[c].issuer /\ t.cap = stat[c].max_supply
  OBVIOUS
<1>7. q \in 1 .. stat[c].max_supply - stat[c].supply
  BY <1>1, <1>2
<1> HIDE DEF t, c
<1>8. NttLedger!Make(sym)
  BY <1>5, <1>6, <1>7 DEF NttLedger!Make
<1> QED BY <1>8 DEF NttLedger!Next, NttLedger!Step

LEMMA RetireDestroys ==
    ASSUME NttInv, NttInv', NEW sym \in Tokens, NEW q \in Sums, retire_ntt(sym, q)
    PROVE  NttLedger!Next
<1> DEFINE c == sym.code
           t == [issuer |-> stat[c].issuer, cap |-> stat[c].max_supply]
<1>0. PICK u : u = stat[c].issuer
  OBVIOUS
<1> DEFINE k == <<u, c>>
<1>1. /\ Exists(sym) /\ CanSub(k, sym, q) /\ holdings' = sub_balance(k, q)
      /\ stat' = [stat EXCEPT ![c].supply = stat[c].supply - q]
  BY <1>0 DEF retire_ntt
<1>2. /\ q \in Nat /\ q > 0 /\ u \in Holders /\ Rows_ntt(holdings) /\ day \in Nat
      /\ stat[c].supply \in Nat
  BY <1>0, <1>1, TokenFacts, NttInputs DEF NttInv
<1> DEFINE d == 0 - q
<1>3. Differ_ntt(holdings, holdings', u, c, d)
  <2>1. CanPay(u, sym, q)
    BY <1>1, <1>2 DEF CanPay
  <2>2. PaidOut(holdings', u, sym, q)
    BY <1>1, <2>1, SubBalance
  <2> QED BY <2>2 DEF PaidOut
<1>4. d \in Int /\ stat[c].supply + d = stat[c].supply - q
  BY <1>2
<1>5. q \in 1 .. heldBar_ntt[u][sym]
  <2>1. HeldIsIn /\ In_ntt(holdings, u, c) \in Nat
    BY InvHasHeld, BalanceIsNat_ntt DEF NttInv
  <2>2. In_ntt(holdings, u, c) = holdings[k].balance /\ holdings[k].balance >= q
    BY <1>1 DEF In_ntt, CanSub
  <2>3. heldBar_ntt[u][sym] = In_ntt(holdings, u, c)
    BY <1>1, <1>2, <2>1 DEF HeldIsIn
  <2> HIDE DEF k, c
  <2> QED BY <1>2, <2>1, <2>2, <2>3
<1>6. t.issuer = u
  BY <1>0
<1> HIDE DEF d, t
<1>7. StatChange(sym, d)
  BY <1>1, <1>4 DEF StatChange
<1>8. NttLedger!Change(u, sym, d) /\ termsBar_ntt[sym] = {t}
  BY <1>0, <1>3, <1>7, IssuerChanges, StatChanges DEF t
<1>9. NttLedger!Destroy(sym)
  BY <1>5, <1>6, <1>8 DEF NttLedger!Destroy, d
<1> QED BY <1>9 DEF NttLedger!Next, NttLedger!Step

\* What a burn does to every balance.
LEMMA BurnChanges ==
    ASSUME NttInv, NEW predator \in Holders, NEW victim \in Holders, NEW sym \in Tokens,
           burn(predator, victim, sym), NEW amount, amount = HeldBy(victim, sym.code)
    PROVE  /\ amount \in Nat /\ amount > 0 /\ Exists(sym)
           /\ \A u \in Holders, e \in Codes : In_ntt(holdings', u, e) = In_ntt(holdings, u, e)
                + (IF u = victim /\ e = sym.code THEN 0 - amount ELSE 0)
                + (IF u = predator /\ e = sym.code THEN RewardOf(amount) ELSE 0)
           /\ stat' = [stat EXCEPT ![sym.code].supply = @ - BurnedOf(amount)]
<1> DEFINE c == sym.code
           v == <<victim, c>>
           p == <<predator, c>>
<1>0. PICK rest : rest = sub_balance(v, amount)
  OBVIOUS
<1>1. /\ v \in DOMAIN holdings /\ holdings[v].symbol = sym /\ amount > 0
      /\ amount = holdings[v].balance
      /\ stat' = [stat EXCEPT ![c].supply = @ - BurnedOf(amount)]
      /\ \/ /\ RewardOf(amount) > 0 /\ CanAdd(rest, p, sym)
            /\ holdings' = add_balance(rest, p, sym, RewardOf(amount))
         \/ ~ (RewardOf(amount) > 0) /\ holdings' = rest
  BY <1>0 DEF burn, HeldBy
<1>2. /\ amount \in Nat /\ Rows_ntt(holdings) /\ day \in Nat /\ CanSub(v, sym, amount)
      /\ Exists(sym)
  <2>1. holdings[v] \in HoldingRow /\ Rows_ntt(holdings) /\ day \in Nat
    BY <1>1 DEF NttInv, Rows_ntt, IsTable
  <2>2. amount \in Nat
    BY <1>1, <2>1 DEF HoldingRow
  <2>3. Lasts(v)
    BY <1>1 DEF NttInv
  <2> QED BY <1>1, <2>1, <2>2, <2>3 DEF CanSub, Lasts
<1>3. Rows_ntt(rest) /\ Differ_ntt(holdings, rest, victim, c, 0 - amount)
  <2>1. CanPay(victim, sym, amount)
    BY <1>2 DEF CanPay
  <2>2. PaidOut(rest, victim, sym, amount)
    BY <1>0, <2>1, SubBalance
  <2> QED BY <2>2 DEF PaidOut
<1>4. RewardOf(amount) \in Nat
  BY <1>2, RewardIsPart
<1>5. \A u, e : In_ntt(holdings', u, e) = In_ntt(rest, u, e)
         + (IF u = predator /\ e = c THEN RewardOf(amount) ELSE 0)
  <2>0. \A u, e : In_ntt(rest, u, e) \in Nat
    BY <1>3, BalanceIsNat_ntt
  <2>1. CASE RewardOf(amount) > 0
    <3>1. CanBePaid(rest, predator, sym, RewardOf(amount))
      BY <1>1, <1>2, <1>3, <1>4, <2>1 DEF CanBePaid
    <3>2. Paid(rest, holdings', predator, sym, RewardOf(amount))
      BY <1>1, <2>1, <3>1, AddBalance
    <3> QED BY <2>0, <3>2 DEF Paid, Differ_ntt
  <2>2. CASE ~ (RewardOf(amount) > 0)
    <3>1. holdings' = rest /\ RewardOf(amount) = 0
      BY <1>1, <1>4, <2>2
    <3> QED BY <2>0, <3>1
  <2> QED BY <2>1, <2>2
<1>6. \A u, e : In_ntt(rest, u, e) = In_ntt(holdings, u, e)
         + (IF u = victim /\ e = c THEN 0 - amount ELSE 0)
  <2>1. \A u, e : In_ntt(holdings, u, e) \in Nat
    BY <1>2, BalanceIsNat_ntt
  <2> QED BY <1>2, <1>3, <2>1 DEF Differ_ntt
<1> QED BY <1>1, <1>2, <1>5, <1>6

\* A burn is the end of a perishable balance.
LEMMA BurnPerishes ==
    ASSUME NttInv, NttInv', NEW predator \in Holders, NEW victim \in Holders, NEW sym \in Tokens,
           burn(predator, victim, sym)
    PROVE  NttLedger!Next
<1> DEFINE c == sym.code
           amount == HeldBy(victim, c)
           r == RewardOf(amount)
           D == [u \in Holders |-> (IF u = victim THEN 0 - amount ELSE 0)
                                   + (IF u = predator THEN r ELSE 0)]
<1>1. /\ amount \in Nat /\ amount > 0 /\ Exists(sym)
      /\ \A u \in Holders, e \in Codes : In_ntt(holdings', u, e) = In_ntt(holdings, u, e)
           + (IF u = victim /\ e = c THEN 0 - amount ELSE 0)
           + (IF u = predator /\ e = c THEN r ELSE 0)
      /\ stat' = [stat EXCEPT ![c].supply = @ - BurnedOf(amount)]
  BY BurnChanges
<1>2. r \in Nat /\ BurnedOf(amount) \in Nat /\ r + BurnedOf(amount) = amount
  BY <1>1, RewardIsPart
<1>3. HeldIsIn /\ heldBar_ntt[victim][sym] = amount
  <2>1. HeldIsIn /\ amount = In_ntt(holdings, victim, c)
    BY InvHasHeld DEF HeldBy, In_ntt
  <2> QED BY <1>1, <2>1 DEF HeldIsIn
<1> HIDE DEF amount, r
<1>4. StatChange(sym, 0 - (amount - r))
  <2>1. stat[c].supply \in Nat
    BY <1>1, TokenFacts
  <2>2. stat[c].supply - BurnedOf(amount) = stat[c].supply + (0 - (amount - r))
    BY <1>1, <1>2, <2>1
  <2>3. 0 - (amount - r) \in Int
    BY <1>1, <1>2
  <2> QED BY <1>1, <2>2, <2>3 DEF StatChange
<1> DEFINE d == 0 - (amount - r)
<1>5. d \in Int /\ \A x \in Nat : x + d = x - (amount - r)
  BY <1>1, <1>2
<1> HIDE DEF d
<1>6. StatChange(sym, d)
  BY <1>4 DEF d
<1>7. /\ UNCHANGED termsBar_ntt /\ \A s : Exists(s)' <=> Exists(s)
      /\ termsBar_ntt[sym] # {} /\ supplyBar_ntt[sym] = stat[c].supply
      /\ supplyBar_ntt' = [supplyBar_ntt EXCEPT ![sym] = @ + d]
  BY <1>6, StatChanges
<1>8. supplyBar_ntt' = [supplyBar_ntt EXCEPT ![sym] = @ - (amount - r)]
  <2>1. supplyBar_ntt[sym] \in Nat
    BY <1>1, <1>7, TokenFacts
  <2>2. supplyBar_ntt[sym] + d = supplyBar_ntt[sym] - (amount - r)
    BY <1>5, <2>1
  <2> QED BY <1>7, <2>2
<1>9. \A u \in Holders : D[u] \in Int
  BY <1>1, <1>2
<1>10. \A u \in Holders, e \in Codes : In_ntt(holdings', u, e) =
          In_ntt(holdings, u, e) + (IF e = c THEN D[u] ELSE 0)
  <2> SUFFICES ASSUME NEW u \in Holders, NEW e \in Codes
               PROVE In_ntt(holdings', u, e) =
                       In_ntt(holdings, u, e) + (IF e = c THEN D[u] ELSE 0)
    OBVIOUS
  <2>1. In_ntt(holdings, u, e) \in Nat
    BY BalanceIsNat_ntt DEF NttInv
  <2>2. D[u] = (IF u = victim THEN 0 - amount ELSE 0) + (IF u = predator THEN r ELSE 0)
    OBVIOUS
  <2> HIDE DEF D
  <2> QED BY <1>1, <1>2, <2>1, <2>2
<1>11. heldBar_ntt' = [u \in Holders |-> [s \in Tokens |->
          IF s = sym THEN heldBar_ntt[u][s] + D[u] ELSE heldBar_ntt[u][s]]]
  <2> HIDE DEF D
  <2> QED BY <1>1, <1>7, <1>9, <1>10, HeldChanges
<1>12. heldBar_ntt' = [w \in Holders |-> [heldBar_ntt[w] EXCEPT
           ![sym] = @ - (IF w = victim THEN amount ELSE 0) + (IF w = predator THEN r ELSE 0)]]
  <2>1. heldBar_ntt = [u \in Holders |-> [s \in Tokens |-> heldBar_ntt[u][s]]]
    BY DEF heldBar_ntt
  <2>2. \A u \in Holders, s \in Tokens : heldBar_ntt[u][s] \in Nat
    BY <1>3 DEF HeldIsIn
  <2>3. \A u \in Holders : heldBar_ntt[u][sym] + D[u] =
          heldBar_ntt[u][sym] - (IF u = victim THEN amount ELSE 0) + (IF u = predator THEN r ELSE 0)
    <3> SUFFICES ASSUME NEW u \in Holders
                 PROVE heldBar_ntt[u][sym] + D[u] = heldBar_ntt[u][sym]
                         - (IF u = victim THEN amount ELSE 0) + (IF u = predator THEN r ELSE 0)
      OBVIOUS
    <3>1. D[u] = (IF u = victim THEN 0 - amount ELSE 0) + (IF u = predator THEN r ELSE 0)
      OBVIOUS
    <3> HIDE DEF D, heldBar_ntt
    <3> QED BY <1>1, <1>2, <2>2, <3>1
  <2> HIDE DEF heldBar_ntt, D
  <2>4. \A u \in Holders : heldBar_ntt'[u] = [heldBar_ntt[u] EXCEPT
           ![sym] = @ - (IF u = victim THEN amount ELSE 0) + (IF u = predator THEN r ELSE 0)]
    BY <1>11, <2>1, <2>3
  <2> QED BY <1>11, <2>4
<1>13. NttLedger!Perish(victim, predator, sym, amount, r)
  BY <1>7, <1>8, <1>12 DEF NttLedger!Perish
<1>14. amount \in 1 .. heldBar_ntt[victim][sym] /\ r \in 0 .. amount
  BY <1>1, <1>2, <1>3
<1>15. NttLedger!Step
  BY <1>13, <1>14 DEF NttLedger!Step
<1> QED BY <1>15 DEF NttLedger!Next

\* A transfer is a payment of one asset.
LEMMA TransferPays ==
    ASSUME NttInv, NttInv', NEW from \in Holders, NEW to \in Holders, NEW sym \in Tokens,
           NEW q \in Sums, transfer_ntt(from, to, sym, q)
    PROVE  NttLedger!Next
<1> DEFINE c == sym.code
           f == <<from, c>>
           t == <<to, c>>
           D == [u \in Holders |-> IF u = from THEN 0 - q ELSE IF u = to THEN q ELSE 0]
<1>0. PICK rest : rest = sub_balance(f, q)
  OBVIOUS
<1>1. /\ from # to /\ Exists(sym) /\ CanSub(f, sym, q) /\ CanAdd(holdings, t, sym)
      /\ holdings' = add_balance(rest, t, sym, q) /\ stat' = stat
  BY <1>0 DEF transfer_ntt
<1>2. q \in Nat /\ Rows_ntt(holdings) /\ day \in Nat
  BY NttInputs DEF NttInv
<1>3. /\ Rows_ntt(rest) /\ Differ_ntt(holdings, rest, from, c, 0 - q)
      /\ DOMAIN rest = DOMAIN holdings
      /\ \A j \in DOMAIN holdings : j # f => rest[j] = holdings[j]
  <2>1. CanPay(from, sym, q)
    BY <1>1, <1>2 DEF CanPay
  <2>2. PaidOut(rest, from, sym, q)
    BY <1>0, <2>1, SubBalance
  <2> QED BY <2>2 DEF PaidOut
<1>4. CanAdd(rest, <<to, sym.code>>, sym)
  BY <1>1, <1>3 DEF CanAdd
<1>5. Differ_ntt(rest, holdings', to, c, q)
  <2>1. CanBePaid(rest, to, sym, q)
    BY <1>2, <1>3, <1>4 DEF CanBePaid
  <2>2. Paid(rest, holdings', to, sym, q)
    BY <1>1, <2>1, AddBalance
  <2> QED BY <2>2 DEF Paid
<1>6. /\ \A u \in Holders : D[u] \in Int
      /\ \A u \in Holders, e \in Codes : In_ntt(holdings', u, e) =
           In_ntt(holdings, u, e) + (IF e = c THEN D[u] ELSE 0)
  <2> SUFFICES ASSUME NEW u \in Holders, NEW e \in Codes
               PROVE In_ntt(holdings', u, e) =
                       In_ntt(holdings, u, e) + (IF e = c THEN D[u] ELSE 0)
    BY <1>2
  <2>1. In_ntt(holdings, u, e) \in Nat /\ In_ntt(rest, u, e) \in Nat
    BY <1>2, <1>3, BalanceIsNat_ntt
  <2>2. D[u] = IF u = from THEN 0 - q ELSE IF u = to THEN q ELSE 0
    OBVIOUS
  <2>3. /\ In_ntt(rest, from, c) = In_ntt(holdings, from, c) + (0 - q)
        /\ (u = from /\ e = c) \/ In_ntt(rest, u, e) = In_ntt(holdings, u, e)
        /\ In_ntt(holdings', to, c) = In_ntt(rest, to, c) + q
        /\ (u = to /\ e = c) \/ In_ntt(holdings', u, e) = In_ntt(rest, u, e)
    BY <1>3, <1>5 DEF Differ_ntt
  <2> HIDE DEF D
  <2> QED BY <1>1, <1>2, <2>1, <2>2, <2>3
<1>7. UNCHANGED <<termsBar_ntt, supplyBar_ntt>> /\ \A s : Exists(s)' <=> Exists(s)
  BY <1>1, StatSame
<1>8. heldBar_ntt' = [u \in Holders |-> [s \in Tokens |->
          IF s = sym THEN heldBar_ntt[u][s] + D[u] ELSE heldBar_ntt[u][s]]]
  <2> HIDE DEF D
  <2> QED BY <1>1, <1>6, <1>7, HeldChanges
<1>9. HeldIsIn /\ heldBar_ntt[from][sym] \in Nat /\ q <= heldBar_ntt[from][sym]
  <2>1. HeldIsIn /\ In_ntt(holdings, from, c) \in Nat
    BY InvHasHeld, BalanceIsNat_ntt DEF NttInv
  <2>2. In_ntt(holdings, from, c) = holdings[f].balance /\ holdings[f].balance >= q
    BY <1>1 DEF In_ntt, CanSub
  <2>3. heldBar_ntt[from][sym] = In_ntt(holdings, from, c)
    BY <1>1, <2>1 DEF HeldIsIn
  <2> HIDE DEF f, c
  <2> QED BY <1>2, <2>1, <2>2, <2>3
<1>10. \A u \in Holders, s \in Tokens : heldBar_ntt[u][s] \in Nat
  BY <1>9 DEF HeldIsIn
<1>11. heldBar_ntt = [u \in Holders |-> [s \in Tokens |-> heldBar_ntt[u][s]]]
  BY DEF heldBar_ntt
<1> DEFINE p == [s \in Tokens |-> heldBar_ntt[from][s] - heldBar_ntt'[from][s]]
<1> HIDE DEF heldBar_ntt
<1>12. \A s \in Tokens : p[s] = IF s = sym THEN q ELSE 0
  <2> SUFFICES ASSUME NEW s \in Tokens PROVE p[s] = IF s = sym THEN q ELSE 0
    OBVIOUS
  <2>1. D[from] = 0 - q
    OBVIOUS
  <2> HIDE DEF D
  <2>2. heldBar_ntt'[from][s] =
          IF s = sym THEN heldBar_ntt[from][s] + D[from] ELSE heldBar_ntt[from][s]
    BY <1>8
  <2> QED BY <1>2, <1>10, <2>1, <2>2
<1> HIDE DEF p
<1>13. \A s \in Tokens : p[s] \in 0 .. heldBar_ntt[from][s] /\ (p[s] > 0 => termsBar_ntt[s] # {})
  <2>1. termsBar_ntt[sym] # {}
    BY <1>1 DEF termsBar_ntt
  <2> QED BY <1>2, <1>9, <1>10, <1>12, <2>1
<1>14. heldBar_ntt' = [heldBar_ntt EXCEPT ![from] = [s \in Tokens |-> heldBar_ntt[from][s] - p[s]],
                                          ![to] = [s \in Tokens |-> heldBar_ntt[to][s] + p[s]]]
  <2> DEFINE g == [s \in Tokens |-> heldBar_ntt[from][s] - p[s]]
             h == [s \in Tokens |-> heldBar_ntt[to][s] + p[s]]
  <2>1. \A u \in Holders : D[u] = IF u = from THEN 0 - q ELSE IF u = to THEN q ELSE 0
    OBVIOUS
  <2> HIDE DEF D
  <2>2. \A s \in Tokens :
          /\ heldBar_ntt'[from][s] = heldBar_ntt[from][s] - p[s]
          /\ heldBar_ntt'[to][s] = heldBar_ntt[to][s] + p[s]
          /\ \A u \in Holders \ {from, to} : heldBar_ntt'[u][s] = heldBar_ntt[u][s]
    BY <1>1, <1>2, <1>8, <1>10, <1>12, <2>1
  <2>3. /\ DOMAIN heldBar_ntt = Holders /\ heldBar_ntt' = [u \in Holders |-> heldBar_ntt'[u]]
        /\ \A u \in Holders : /\ heldBar_ntt'[u] = [s \in Tokens |-> heldBar_ntt'[u][s]]
                              /\ heldBar_ntt[u] = [s \in Tokens |-> heldBar_ntt[u][s]]
    BY <1>8, <1>11
  <2>4. heldBar_ntt'[from] = g /\ heldBar_ntt'[to] = h
    BY <2>2, <2>3
  <2>5. \A u \in Holders \ {from, to} : heldBar_ntt'[u] = heldBar_ntt[u]
    BY <2>2, <2>3
  <2> HIDE DEF g, h
  <2>6. heldBar_ntt' = [heldBar_ntt EXCEPT ![from] = g, ![to] = h]
    BY <1>1, <2>3, <2>4, <2>5
  <2> QED BY <2>6 DEF g, h
<1>15. NttLedger!Pay(from, to)
  <2>1. p = [s \in Tokens |-> heldBar_ntt[from][s] - heldBar_ntt'[from][s]]
    BY DEF p
  <2> QED BY <1>1, <1>7, <1>13, <1>14, <2>1 DEF NttLedger!Pay
<1> QED BY <1>15 DEF NttLedger!Next, NttLedger!Step

\* A new token opens an asset.
LEMMA CreateOpens_ntt ==
    ASSUME NttInv, NttInv', NEW u \in Holders, NEW sym \in Tokens, NEW q \in Supplies,
           create_ntt(u, sym, q)
    PROVE  NttLedger!Next
<1> DEFINE c == sym.code
           row == [symbol |-> sym, supply |-> 0, max_supply |-> q, issuer |-> u]
           x == {[issuer |-> u, cap |-> q]}
<1>1. c \notin DOMAIN stat /\ stat' = Emplace(stat, c, row) /\ holdings' = holdings
  BY DEF create_ntt
<1>2. row.symbol = sym /\ row.issuer = u /\ row.max_supply = q /\ row.supply = 0
  OBVIOUS
<1> HIDE DEF row
<1>3. /\ DOMAIN stat' = DOMAIN stat \cup {c} /\ stat'[c] = row
      /\ \A e \in DOMAIN stat : e # c /\ stat'[e] = stat[e]
  BY <1>1 DEF Emplace
<1>4. ~ Exists(sym) /\ Exists(sym)'
  BY <1>1, <1>2, <1>3 DEF Exists
<1>5. ASSUME NEW s \in Tokens, s # sym
      PROVE  (Exists(s)' <=> Exists(s)) /\ (Exists(s) => stat'[s.code] = stat[s.code])
  BY <1>1, <1>2, <1>3, <1>5 DEF Exists
<1>6. UNCHANGED supplyBar_ntt
  BY <1>2, <1>3, <1>4, <1>5 DEF supplyBar_ntt
<1>7. termsBar_ntt[sym] = {} /\ \A s \in Tokens : s # sym => termsBar_ntt'[s] = termsBar_ntt[s]
  BY <1>4, <1>5 DEF termsBar_ntt
<1>8. termsBar_ntt'[sym] = x
  BY <1>2, <1>3, <1>4 DEF termsBar_ntt
<1> HIDE DEF x
<1>9. termsBar_ntt' = [termsBar_ntt EXCEPT ![sym] = x]
  <2>1. DOMAIN termsBar_ntt = Tokens /\ termsBar_ntt' = [s \in Tokens |-> termsBar_ntt'[s]]
    BY DEF termsBar_ntt
  <2> HIDE DEF termsBar_ntt
  <2> QED BY <1>7, <1>8, <2>1
<1>10. UNCHANGED heldBar_ntt
  BY <1>1 DEF heldBar_ntt, HeldBy
<1>11. NttLedger!Open(u, sym, q)
  BY <1>6, <1>7, <1>9, <1>10 DEF NttLedger!Open, x
<1>12. NttLedger!Step
  BY <1>11 DEF NttLedger!Step
<1> QED BY <1>12 DEF NttLedger!Next

\* A row that is opened is empty, and permissions change no balance.
LEMMA PermitsDoNothing ==
    ASSUME NttInv, NttInv', NEW u \in Holders, NEW sym \in Tokens, NEW a \in BOOLEAN,
           NEW b \in BOOLEAN, open(u, sym) \/ setacctperms_ntt(u, sym, a, b)
    PROVE  NttLedger!Next
<1> DEFINE k == <<u, sym.code>>
<1>1. stat' = stat
  BY DEF open, setacctperms_ntt
<1>2. /\ DOMAIN holdings' = DOMAIN holdings \cup {k}
      /\ \A j \in DOMAIN holdings : j # k => holdings'[j] = holdings[j]
      /\ \/ k \in DOMAIN holdings /\ holdings'[k].balance = holdings[k].balance
         \/ k \notin DOMAIN holdings /\ holdings'[k].balance = 0
  <2>1. CASE k \notin DOMAIN holdings
    <3>1. PICK row : row.balance = 0 /\ holdings' = Emplace(holdings, k, row)
      BY <2>1 DEF open, setacctperms_ntt, NewRow
    <3> QED BY <2>1, <3>1 DEF Emplace
  <2>2. CASE k \in DOMAIN holdings
    <3> DEFINE ends == day + YEAR
    <3>1. holdings[k] \in HoldingRow
      BY <2>2 DEF NttInv, Rows_ntt, IsTable
    <3>2. holdings' = [holdings EXCEPT ![k].allow_send = a, ![k].allow_recv = b,
                                       ![k].expired_at = ends]
      BY <2>2 DEF open, setacctperms_ntt
    <3> HIDE DEF ends
    <3>3. /\ DOMAIN holdings' = DOMAIN holdings
          /\ holdings'[k] = [holdings[k] EXCEPT !.allow_send = a, !.allow_recv = b,
                                                !.expired_at = ends]
          /\ \A j \in DOMAIN holdings : j # k => holdings'[j] = holdings[j]
      BY <2>2, <3>1, <3>2 DEF HoldingRow
    <3> QED BY <2>2, <3>1, <3>3 DEF HoldingRow
  <2> QED BY <2>1, <2>2
<1>3. \A v \in Holders, e \in Codes : In_ntt(holdings', v, e) = In_ntt(holdings, v, e)
  <2> SUFFICES ASSUME NEW v, NEW e PROVE In_ntt(holdings', v, e) = In_ntt(holdings, v, e)
    OBVIOUS
  <2>1. CASE <<v, e>> = k
    BY <1>2, <2>1 DEF In_ntt
  <2>2. CASE <<v, e>> # k
    BY <1>2, <2>2 DEF In_ntt
  <2> QED BY <2>1, <2>2
<1> QED BY <1>1, <1>3, HeldSame

LEMMA NttSteps == ASSUME NttInv, [Next_ntt]_nttvars PROVE NttLedger!Next
<1>0. NttInv'
  BY NttInvNext
<1>1. CASE Mint
  BY <1>0, <1>1, CreateOpens_ntt, IssueMakes, RetireDestroys DEF Mint
<1>2. CASE Hold
  BY <1>0, <1>2, PermitsDoNothing, TransferPays, BurnPerishes DEF Hold
<1>3. CASE Tick_ntt \/ UNCHANGED nttvars
  <2>1. stat' = stat /\ holdings' = holdings
    BY <1>3 DEF Tick_ntt, nttvars
  <2> QED BY <1>0, <2>1, HeldSame
<1> QED BY <1>1, <1>2, <1>3 DEF Next_ntt

LEMMA LedgerInit_ntt ==
    ASSUME Init_ntt
    PROVE  /\ termsBar_ntt = [n \in Tokens |-> {}]
           /\ supplyBar_ntt = [n \in Tokens |-> 0]
           /\ heldBar_ntt = [u \in Holders |-> [n \in Tokens |-> 0]]
<1>1. DOMAIN stat = {} /\ DOMAIN holdings = {}
  BY DEF Init_ntt, EmptyTable
<1>2. \A s : ~ Exists(s)
  BY <1>1 DEF Exists
<1> QED BY <1>1, <1>2 DEF termsBar_ntt, supplyBar_ntt, heldBar_ntt

\* amax.ntt is a ledger whose assets perish: a burn takes a whole balance, gives no more
\* than that to one other account and takes exactly the rest out of the supply
\* (amax.ntt.cpp:7-201).
THEOREM NttImplementsLedger == Spec_ntt => ImplementsLedger_ntt
<1>1. NttInv /\ [Next_ntt]_nttvars => [NttLedger!Next]_NttLedger!ledgervars
  BY NttSteps
<1>2. Init_ntt => /\ termsBar_ntt = [n \in Tokens |-> {}]
                  /\ supplyBar_ntt = [n \in Tokens |-> 0]
                  /\ heldBar_ntt = [u \in Holders |-> [n \in Tokens |-> 0]]
  BY LedgerInit_ntt
<1> QED BY <1>1, <1>2, NttInvariant, PTL DEF Spec_ntt, ImplementsLedger_ntt, NttLedger!Spec
------------------------------------------------------------------------------
(* One account, whichever code it runs *)

OneInv == NftoneInv /\ AmaxInv /\ NttInv

onevars == <<code, vars_nftone, amaxvars, nttvars>>

LEMMA OneInvNext == ASSUME OneInv, [Next_one]_onevars PROVE OneInv'
<1>1. CASE code = "nftone.ntoken" /\ Next_nftone /\ UNCHANGED <<code, amaxvars, nttvars>>
  <2>1. NftoneInv' /\ NtokenInv'
    BY <1>1, NftoneInvNext DEF OneInv, NftoneInv
  <2>2. AmaxInv'
    BY <1>1, <2>1, AmaxRestStays DEF OneInv, amaxvars, AmaxInv, TypeOK_amax
  <2>3. NttInv'
    BY <1>1, NttInvNext DEF OneInv
  <2> QED BY <2>1, <2>2, <2>3 DEF OneInv
<1>2. CASE code = "amax.ntoken" /\ Next_amax /\ UNCHANGED <<code, nftonevars, nttvars>>
  <2>1. AmaxInv' /\ NtokenInv'
    BY <1>2, AmaxInvNext DEF OneInv, AmaxInv
  <2>2. NftoneInv'
    BY <1>2, <2>1 DEF OneInv, nftonevars, NftoneInv, TypeOK_nftone, LocksKept
  <2>3. NttInv'
    BY <1>2, NttInvNext DEF OneInv
  <2> QED BY <2>1, <2>2, <2>3 DEF OneInv
<1>3. CASE code = "amax.ntt" /\ Next_ntt /\ UNCHANGED <<code, vars_nftone, amaxvars>>
  <2>1. NttInv'
    BY <1>3, NttInvNext DEF OneInv
  <2>2. NftoneInv' /\ AmaxInv'
    BY <1>3, NftoneInvNext, AmaxInvNext DEF OneInv, vars_nftone, vars_amax
  <2> QED BY <2>1, <2>2 DEF OneInv
<1>4. CASE UNCHANGED onevars
  <2>1. UNCHANGED vars_nftone /\ UNCHANGED vars_amax /\ UNCHANGED nttvars
    BY <1>4 DEF onevars, vars_nftone, vars_amax
  <2> QED BY <2>1, NftoneInvNext, AmaxInvNext, NttInvNext DEF OneInv
<1> QED BY <1>1, <1>2, <1>3, <1>4 DEF Next_one

\* Each contract keeps its invariant, and leaves the tables of the others as they were.
THEOREM OneInvariant == Spec_one => []OneInv
<1>1. Init_one => OneInv
  BY NftoneInvInit, AmaxInvInit, NttInvInit DEF Init_one, OneInv
<1>2. OneInv /\ [Next_one]_<<code, vars_nftone, amaxvars, nttvars>> => OneInv'
  BY OneInvNext DEF onevars
<1> QED BY <1>1, <1>2, PTL DEF Spec_one

\* Whichever contract the account runs, its tables keep their types.
THEOREM OneTypeCorrect == Spec_one => []TypesOK
<1>1. OneInv => TypesOK
  BY InvHasTypes, InvHasTypes_ntt DEF OneInv, TypesOK, NftoneInv, AmaxInv
<1> QED BY <1>1, OneInvariant, PTL

\* Whichever it runs, every supply is what the holders have.
THEOREM OneSuppliesHeld == Spec_one => []SuppliesHeld
<1>1. OneInv => SuppliesHeld
  BY InvHasSupply, InvHasSupply_ntt DEF OneInv, SuppliesHeld, NftoneInv
<1> QED BY <1>1, OneInvariant, PTL

\* And it implements both ledgers.
THEOREM OneImplementsLedgers == Spec_one => ImplementsLedgers
<1>1. OneInv /\ [Next_one]_<<code, vars_nftone, amaxvars, nttvars>> =>
        [NftLedger!Next]_NftLedger!ledgervars /\ [NttLedger!Next]_NttLedger!ledgervars
  <2> SUFFICES ASSUME OneInv, [Next_one]_<<code, vars_nftone, amaxvars, nttvars>>
               PROVE  NftLedger!Next /\ NttLedger!Next
    OBVIOUS
  <2>1. [Next_nftone]_vars_nftone \/ [Next_amax]_vars_amax
    BY DEF Next_one, vars_amax, vars_nftone
  <2>2. [Next_ntt]_nttvars
    BY DEF Next_one
  <2> QED BY <2>1, <2>2, NftoneSteps, AmaxSteps, NttSteps DEF OneInv, NftoneInv, AmaxInv
<1>2. Init_one =>
        /\ termsBar = [n \in TokenSymbols |-> {}]
        /\ supplyBar = [n \in TokenSymbols |-> 0]
        /\ heldBar = [u \in Users |-> [n \in TokenSymbols |-> 0]]
        /\ termsBar_ntt = [n \in Tokens |-> {}]
        /\ supplyBar_ntt = [n \in Tokens |-> 0]
        /\ heldBar_ntt = [u \in Holders |-> [n \in Tokens |-> 0]]
  BY LedgerInit, LedgerInit_ntt DEF Init_one, Init_nftone
<1> QED BY <1>1, <1>2, OneInvariant, PTL
        DEF Spec_one, ImplementsLedgers, ImplementsLedger, ImplementsLedger_ntt, NftLedger!Spec, NttLedger!Spec
=============================================================================
