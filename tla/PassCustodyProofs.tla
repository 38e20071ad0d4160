------------------------- MODULE PassCustodyProofs -------------------------
(***************************************************************************)
(* What holds of the custody for any number of users, plans, locks, passes *)
(* and days.  IInv is inductive: a release needs LockSplit to know that    *)
(* the schedule's end covers what was released before, and a move needs it *)
(* to know that a lock's issued amount holds what leaves it.  BooksInv     *)
(* adds what the totals are sums of: it is inductive under IInv, gives     *)
(* every lock whose schedule is over its last part, and leaves nothing but *)
(* the schedule to refuse a release.  VestedInv says that the schedule     *)
(* stays ahead of the releases, where nothing is moved.                    *)
(* EscrowInv is what the refinement of the escrow needs.                   *)
(***************************************************************************)
EXTENDS PassCustody, TableProofs

IInv == TypeOK /\ LockSplit /\ PlanSplit

------------------------------------------------------------------------------
(* Balances and the schedule *)

\* A transfer leaves natural balances.
LEMMA PassMovesType ==
    ASSUME pass \in [Accounts -> [Assets -> Nat]],
           NEW a \in Assets, NEW from \in Accounts, NEW p, PassMoves(a, from, p)
    PROVE  /\ pass' \in [Accounts -> [Assets -> Nat]]
           /\ p \in [Accounts -> Nat]
<1> DEFINE out == SumFunction(p)
           new(x) == pass[x][a] + p[x] - (IF x = from THEN out ELSE 0)
<1>1. /\ p \in [Accounts -> Nat] /\ out \in 0 .. pass[from][a]
      /\ pass' = [x \in Accounts |-> [pass[x] EXCEPT ![a] = new(x)]]
  BY DEF PassMoves
<1> HIDE DEF out
<1>2. \A x \in Accounts : new(x) \in Nat
  BY <1>1
<1> HIDE DEF new
<1>3. \A x \in Accounts : [pass[x] EXCEPT ![a] = new(x)] \in [Assets -> Nat]
  BY <1>2
<1> QED BY <1>1, <1>3

\* The schedule releases no more than was issued and no less than was released.
LEMMA TotalInRange ==
    ASSUME IInv, NEW k \in DOMAIN locks, locks[k].status = "locked",
           PartFits(locks[k], plans[k[1]])
    PROVE  total_unlocked(locks[k], plans[k[1]]) \in locks[k].unlocked .. locks[k].issued
<1> DEFINE l == locks[k]
           r == plans[k[1]]
           days == IF now - l.locked_at > l.first_unlock_days
                   THEN now - l.locked_at - l.first_unlock_days ELSE 0
<1>1. l \in LockRow /\ r \in PlanRow /\ l.locked_at <= now /\ now \in Nat
  BY DEF IInv, TypeOK, GlobalsOK, TablesOK, IsTable
<1>2. days \in Nat /\ r.unlock_interval_days \in Nat \ {0} /\ r.unlock_times \in Nat
  BY <1>1 DEF LockRow, PlanRow
<1>3. unlocked_times(l, r) = MinOf(days \div r.unlock_interval_days, r.unlock_times)
  BY DEF unlocked_times
<1>4. unlocked_times(l, r) \in Nat
  <2> HIDE DEF days, r, l
  <2> QED BY <1>2, <1>3, Quotient DEF MinOf
<1>5. CASE unlocked_times(l, r) >= r.unlock_times
  <2>1. total_unlocked(l, r) = l.issued
    BY <1>5 DEF total_unlocked
  <2>2. l.issued = l.locked + l.unlocked /\ l.locked \in Nat /\ l.unlocked \in Nat
    BY <1>1 DEF IInv, LockSplit, LockRow
  <2> QED BY <2>1, <2>2
<1>6. CASE ~(unlocked_times(l, r) >= r.unlock_times)
  <2>1. unlocked_times(l, r) < r.unlock_times
    BY <1>2, <1>4, <1>6
  <2> QED BY <2>1 DEF PartFits
<1> QED BY <1>5, <1>6

------------------------------------------------------------------------------
(* One lemma per action *)

\* Configuration leaves plans and locks alone.
LEMMA ConfigureKeepsInv == IInv /\ Configure => IInv'
<1> SUFFICES ASSUME IInv, Configure PROVE IInv'
  OBVIOUS
<1>1. ASSUME init PROVE IInv'
  BY <1>1 DEF init, IInv, TypeOK, GlobalsOK, TablesOK, BalancesOK, LockSplit, PlanSplit,
              IsTable, EmptyTable
<1>2. ASSUME NEW f \in Fees, setconfig(f) PROVE IInv'
  BY <1>2, CustodyInputs
  DEF setconfig, IInv, TypeOK, GlobalsOK, TablesOK, BalancesOK, LockSplit, PlanSplit
<1>3. ASSUME NEW u \in Named, NEW b \in BOOLEAN, whitelist(u, b) PROVE IInv'
  BY <1>3, CustodyInputs
  DEF whitelist, IInv, TypeOK, GlobalsOK, TablesOK, BalancesOK, LockSplit, PlanSplit
<1>4. ASSUME NEW u \in Named, NEW b \in BOOLEAN, blacklist(u, b) PROVE IInv'
  BY <1>4, CustodyInputs
  DEF blacklist, IInv, TypeOK, GlobalsOK, TablesOK, BalancesOK, LockSplit, PlanSplit
<1> QED BY <1>1, <1>2, <1>3, <1>4 DEF Configure

\* A new plan has nothing locked, under an id no lock names.
LEMMA AddPlanKeepsInv ==
    ASSUME IInv, NEW u \in Lockers, NEW a \in Assets, NEW i \in Intervals, NEW t \in Times,
           addplan(u, a, i, t)
    PROVE  IInv'
<1> DEFINE id == gstate.last_plan_id
           row == [owner |-> u, asset_symbol |-> a,
                   unlock_interval_days |-> i, unlock_times |-> t,
                   total_issued |-> 0, total_locked |-> 0,
                   total_unlocked |-> 0, total_refunded |-> 0,
                   status |-> IF gstate.plan_fee # 0 THEN "feeunpaid" ELSE "enabled",
                   last_lock_id |-> 0]
<1>1. /\ plans' = Emplace(plans, id, row)
      /\ gstate' = [gstate EXCEPT !.last_plan_id = id + 1]
      /\ payaccounts' = Emplace(payaccounts, u, id + 1)
      /\ UNCHANGED <<gstate1, locks, movewindows, whitemovers, pass, mid, now, stray>>
      /\ i \in 1 .. MAX_LOCK_DAYS /\ t > 0
  BY DEF addplan
<1>2. id \in Nat /\ gstate'.last_plan_id = id + 1 /\ GlobalsOK'
  BY <1>1 DEF IInv, TypeOK, GlobalsOK
<1>3. row \in PlanRow
  BY <1>1, CustodyInputs, CustodyBounds DEF PlanRow
<1>4. row.total_issued = row.total_locked + row.total_unlocked + row.total_refunded
  OBVIOUS
<1> HIDE DEF row
<1>5. /\ DOMAIN plans' = DOMAIN plans \cup {id} /\ plans'[id] = row
      /\ id \notin DOMAIN plans
      /\ \A p \in DOMAIN plans : plans'[p] = plans[p]
  BY <1>1, <1>2 DEF Emplace, IInv, TypeOK, TablesOK, IsTable
<1>6. IsTable(plans', 0 .. gstate'.last_plan_id - 1, PlanRow)
  BY <1>2, <1>3, <1>5 DEF IInv, TypeOK, TablesOK, IsTable
<1>7. IsTable(payaccounts', Users, 1 .. gstate'.last_plan_id)
  BY <1>1, <1>2, CustodyInputs DEF IInv, TypeOK, TablesOK, IsTable, Emplace
<1>8. \A k \in DOMAIN locks : k[1] \in DOMAIN plans /\ k \in (DOMAIN plans') \X (Nat \ {0})
  BY <1>5 DEF IInv, TypeOK, TablesOK, IsTable
<1>9. TablesOK'
  BY <1>1, <1>5, <1>6, <1>7, <1>8 DEF IInv, TypeOK, TablesOK, IsTable
<1>10. LockSplit' /\ PlanSplit'
  BY <1>1, <1>4, <1>5 DEF IInv, LockSplit, PlanSplit
<1> QED BY <1>1, <1>2, <1>9, <1>10 DEF IInv, TypeOK, BalancesOK

\* A change of owner or status keeps a plan's totals and counter.
LEMMA PlanRowKeepsInv ==
    ASSUME IInv, NEW p \in DOMAIN plans, NEW row \in PlanRow,
           plans' = [plans EXCEPT ![p] = row],
           row.last_lock_id = plans[p].last_lock_id,
           row.total_issued = plans[p].total_issued,
           row.total_locked = plans[p].total_locked,
           row.total_unlocked = plans[p].total_unlocked,
           row.total_refunded = plans[p].total_refunded,
           plans[p].status = "enabled" => row.status = "enabled",
           UNCHANGED <<config, locks, pass, mid, now, stray>>
    PROVE  IInv'
<1>1. /\ DOMAIN plans' = DOMAIN plans /\ plans'[p] = row
      /\ \A q \in DOMAIN plans : q # p => plans'[q] = plans[q]
  OBVIOUS
<1>2. TypeOK'
  BY <1>1 DEF IInv, TypeOK, GlobalsOK, TablesOK, BalancesOK, IsTable, config
<1>3. LockSplit'
  BY DEF IInv, LockSplit
<1>4. PlanSplit'
  BY <1>1 DEF IInv, PlanSplit
<1> QED BY <1>2, <1>3, <1>4 DEF IInv

\* The other plan operations.
LEMMA PlanKeepsInv == IInv /\ Plan => IInv'
<1> SUFFICES ASSUME IInv, Plan PROVE IInv'
  OBVIOUS
<1>1. ASSUME NEW p \in PlanIds, NEW u \in Lockers, setplanowner(p, u) PROVE IInv'
  <2> DEFINE r == plans[p]
             row == [r EXCEPT !.owner = u]
  <2>1. /\ p \in DOMAIN plans /\ plans' = [plans EXCEPT ![p] = row]
        /\ UNCHANGED <<config, locks, pass, mid, now, stray>>
    BY <1>1 DEF setplanowner
  <2>2. r \in PlanRow
    BY <2>1 DEF IInv, TypeOK, TablesOK, IsTable
  <2>3. /\ row \in PlanRow /\ row.last_lock_id = r.last_lock_id
        /\ row.total_issued = r.total_issued /\ row.total_locked = r.total_locked
        /\ row.total_unlocked = r.total_unlocked /\ row.total_refunded = r.total_refunded
        /\ row.status = r.status
    <3> HIDE DEF r
    <3> QED BY <2>2, CustodyInputs DEF PlanRow
  <2> HIDE DEF row
  <2> QED BY <2>1, <2>3, PlanRowKeepsInv
<1>2. ASSUME NEW u \in Lockers, NEW f \in FeeAmounts, NEW m \in PlanIds, ontokentrans(u, f, m)
      PROVE  IInv'
  <2> DEFINE p == FeePlan(u, m)
             r == plans[p]
             row == [r EXCEPT !.status = "enabled"]
  <2>1. /\ p \in DOMAIN plans /\ plans' = [plans EXCEPT ![p] = row]
        /\ UNCHANGED <<config, locks, pass, mid, now, stray>>
    BY <1>2 DEF ontokentrans
  <2>2. r \in PlanRow
    BY <2>1 DEF IInv, TypeOK, TablesOK, IsTable
  <2>3. /\ row \in PlanRow /\ row.last_lock_id = r.last_lock_id
        /\ row.total_issued = r.total_issued /\ row.total_locked = r.total_locked
        /\ row.total_unlocked = r.total_unlocked /\ row.total_refunded = r.total_refunded
        /\ row.status = "enabled"
    <3> HIDE DEF r
    <3> QED BY <2>2 DEF PlanRow
  <2> HIDE DEF row, p
  <2> QED BY <2>1, <2>3, PlanRowKeepsInv
<1>3. ASSUME NEW p \in PlanIds, NEW m \in Mids, NEW w \in Windows, setmovwindow(p, m, w[1], w[2])
      PROVE  IInv'
  <2>1. [symbol |-> m, started_at |-> w[1], finished_at |-> w[2]] \in WindowRow
    BY CustodyInputs DEF WindowRow
  <2>2. IsTable(movewindows', DOMAIN plans, WindowRow)
    BY <1>3, <2>1 DEF setmovwindow, IInv, TypeOK, TablesOK, IsTable, Emplace
  <2> QED BY <1>3, <2>2
          DEF setmovwindow, IInv, TypeOK, GlobalsOK, TablesOK, BalancesOK, LockSplit, PlanSplit
<1> QED BY <1>1, <1>2, <1>3, AddPlanKeepsInv DEF Plan

\* A step keeps the tables when every plan's row stays a row, does not go back on
\* its counter and stays enabled, and every lock is an old one, at its old time,
\* or a new one under its plan's counter.
LEMMA TablesStay ==
    ASSUME IInv,
           DOMAIN plans' = DOMAIN plans,
           \A q \in DOMAIN plans :
              /\ plans'[q] \in PlanRow
              /\ plans'[q].last_lock_id >= plans[q].last_lock_id
              /\ plans[q].status = "enabled" => plans'[q].status = "enabled",
           \A j \in DOMAIN locks' :
              /\ locks'[j] \in LockRow
              /\ \/ j \in DOMAIN locks /\ locks'[j].locked_at = locks[j].locked_at
                 \/ /\ j \in (DOMAIN plans) \X (Nat \ {0})
                    /\ j[2] <= plans'[j[1]].last_lock_id
                    /\ plans'[j[1]].status = "enabled"
                    /\ locks'[j].locked_at <= now,
           UNCHANGED <<gstate, payaccounts, movewindows, now>>
    PROVE  TablesOK'
<1>1. IsTable(plans', 0 .. gstate'.last_plan_id - 1, PlanRow)
  BY DEF IInv, TypeOK, TablesOK, IsTable
<1>2. \A j \in DOMAIN locks' :
         /\ j \in (DOMAIN plans') \X (Nat \ {0}) /\ locks'[j] \in LockRow
         /\ j[2] <= plans'[j[1]].last_lock_id /\ plans'[j[1]].status = "enabled"
         /\ locks'[j].locked_at <= now'
  <2> SUFFICES ASSUME NEW j \in DOMAIN locks', j \in DOMAIN locks,
                      locks'[j].locked_at = locks[j].locked_at
               PROVE  /\ j \in (DOMAIN plans) \X (Nat \ {0})
                      /\ j[2] <= plans'[j[1]].last_lock_id /\ plans'[j[1]].status = "enabled"
                      /\ locks'[j].locked_at <= now
    OBVIOUS
  <2>1. /\ j \in (DOMAIN plans) \X (Nat \ {0}) /\ locks[j] \in LockRow
        /\ j[2] <= plans[j[1]].last_lock_id /\ plans[j[1]].status = "enabled"
        /\ locks[j].locked_at <= now
    BY DEF IInv, TypeOK, TablesOK, IsTable
  <2>2. /\ j[1] \in DOMAIN plans /\ j[2] \in Nat /\ plans[j[1]] \in PlanRow
        /\ plans'[j[1]] \in PlanRow /\ plans'[j[1]].last_lock_id >= plans[j[1]].last_lock_id
    BY <2>1 DEF IInv, TypeOK, TablesOK, IsTable
  <2>3. plans[j[1]].last_lock_id \in Nat /\ plans'[j[1]].last_lock_id \in Nat
    BY <2>2 DEF PlanRow
  <2>4. j[2] <= plans'[j[1]].last_lock_id
    BY <2>1, <2>2, <2>3
  <2> QED BY <2>1, <2>2, <2>4
<1> QED BY <1>1, <1>2 DEF IInv, TypeOK, TablesOK, IsTable

\* A new lock is whole.
LEMMA LockForKeepsInv ==
    ASSUME IInv, NEW u \in Users, NEW a \in Assets, NEW n \in Nat,
           NEW r \in Users, NEW p, NEW d \in Nat, LockFor(u, a, n, r, p, d),
           mid' \in [Accounts -> [Mids -> Nat]]
    PROVE  IInv'
<1> DEFINE plan == plans[p]
           id   == plan.last_lock_id + 1
           k    == <<p, id>>
           row  == [plan EXCEPT !.total_issued = plan.total_issued + n,
                                !.total_locked = plan.total_locked + n,
                                !.last_lock_id = id]
           lock == [locker |-> u, receiver |-> r, issued |-> n,
                    locked |-> n, unlocked |-> 0, first_unlock_days |-> d,
                    status |-> "locked", locked_at |-> now]
<1>1. /\ p \in DOMAIN plans /\ plan.status = "enabled" /\ n > 0
      /\ PassMoves(a, u, PayOne(Accounts, Custody, n))
      /\ locks' = Emplace(locks, k, lock)
      /\ UNCHANGED <<config, now, stray>>
  BY DEF LockFor, PlanTakes, NewLockId
<1>2. plans' = [plans EXCEPT ![p] = row]
  BY DEF LockFor, PlanTakes, NewLockId
<1>3. plan \in PlanRow /\ now \in Nat
  BY <1>1 DEF IInv, TypeOK, GlobalsOK, TablesOK, IsTable
<1>4. /\ row \in PlanRow /\ row.status = plan.status
      /\ row.last_lock_id = id /\ id >= plan.last_lock_id /\ id \in Nat \ {0}
      /\ row.total_issued = plan.total_issued + n /\ row.total_locked = plan.total_locked + n
      /\ row.total_unlocked = plan.total_unlocked /\ row.total_refunded = plan.total_refunded
  <2>1. n \in Nat
    OBVIOUS
  <2>2. plan.last_lock_id \in Nat /\ plan.total_issued \in Nat /\ plan.total_locked \in Int
    BY <1>3 DEF PlanRow
  <2> DEFINE issued == plan.total_issued + n
             locked == plan.total_locked + n
  <2>3. id \in Nat \ {0} /\ id >= plan.last_lock_id /\ issued \in Nat /\ locked \in Int
    BY <2>1, <2>2
  <2>4. row = [plan EXCEPT !.total_issued = issued, !.total_locked = locked, !.last_lock_id = id]
    OBVIOUS
  <2> HIDE DEF plan, id, issued, locked, row
  <2>5. /\ row \in PlanRow /\ row.status = plan.status
        /\ row.last_lock_id = id /\ row.total_issued = issued /\ row.total_locked = locked
        /\ row.total_unlocked = plan.total_unlocked /\ row.total_refunded = plan.total_refunded
    BY <1>3, <2>3, <2>4 DEF PlanRow
  <2> QED BY <2>3, <2>5 DEF issued, locked
<1>5. lock \in LockRow /\ lock.locked_at <= now /\ lock.locked > 0
      /\ lock.status = "locked" /\ lock.issued = lock.locked + lock.unlocked
  BY <1>1, <1>3 DEF LockRow
<1> HIDE DEF row, lock
<1>6. DOMAIN locks' = DOMAIN locks \cup {k} /\ locks'[k] = lock
      /\ \A j \in DOMAIN locks : j # k => locks'[j] = locks[j]
  BY <1>1 DEF Emplace
<1>7. GlobalsOK' /\ TablesOK'
  <2>1. k \in (DOMAIN plans) \X (Nat \ {0}) /\ k[1] = p /\ k[2] = id
    BY <1>1, <1>4
  <2>2. \A q \in DOMAIN plans : plans[q] \in PlanRow /\ plans[q].last_lock_id \in Nat
    BY DEF IInv, TypeOK, TablesOK, IsTable, PlanRow
  <2>3. \A j \in DOMAIN locks : locks[j] \in LockRow
    BY DEF IInv, TypeOK, TablesOK, IsTable
  <2> HIDE DEF k, id
  <2>4. TablesOK'
    BY <1>1, <1>2, <1>4, <1>5, <1>6, <2>1, <2>2, <2>3, TablesStay DEF config
  <2> QED BY <1>1, <2>4 DEF IInv, TypeOK, GlobalsOK, config
<1>8. LockSplit'
  <2> HIDE DEF k, id
  <2> QED BY <1>5, <1>6 DEF IInv, LockSplit
<1>9. PlanSplit'
  <2>1. row.total_issued = row.total_locked + row.total_unlocked + row.total_refunded
    <3>1. plan.total_issued = plan.total_locked + plan.total_unlocked + plan.total_refunded
      BY <1>1 DEF IInv, PlanSplit
    <3>2. n \in Nat
      OBVIOUS
    <3> HIDE DEF plan
    <3> QED BY <1>3, <1>4, <3>1, <3>2 DEF PlanRow
  <2> QED BY <1>2, <2>1 DEF IInv, PlanSplit
<1>10. BalancesOK'
  <2>1. u \in Accounts
    BY DEF Accounts
  <2> QED BY <1>1, <2>1, PassMovesType DEF IInv, TypeOK, BalancesOK
<1> QED BY <1>7, <1>8, <1>9, <1>10 DEF IInv, TypeOK

\* A lock by a user.
LEMMA LockKeepsInv ==
    ASSUME IInv, NEW u \in Lockers, NEW a \in Assets, NEW n \in LockAmounts,
           NEW r \in Receivers, NEW p \in PlanIds, NEW d \in FirstDays,
           onnfttrans(u, a, n, r, p, d)
    PROVE  IInv'
<1>1. u \in Users /\ n \in Nat /\ r \in Users /\ d \in Nat
  BY CustodyInputs
<1>2. LockFor(u, a, n, r, p, d) /\ mid' \in [Accounts -> [Mids -> Nat]]
  BY DEF onnfttrans, IInv, TypeOK, BalancesOK
<1> QED BY <1>1, <1>2, LockForKeepsInv

\* Passes sent in with another memo touch no plan.
LEMMA StrayKeepsInv ==
    ASSUME IInv, NEW u \in Lockers, NEW a \in Assets, NEW n \in StrayAmounts,
           onnfttrans_ignored(u, a, n)
    PROVE  IInv'
<1>1. u \in Accounts /\ n \in Nat
  BY CustodyInputs DEF Accounts
<1>2. pass' \in [Accounts -> [Assets -> Nat]]
  BY <1>1, PassMovesType DEF onnfttrans_ignored, IInv, TypeOK, BalancesOK
<1>3. stray' \in [Assets -> Nat]
  BY <1>1 DEF onnfttrans_ignored, IInv, TypeOK, GlobalsOK
<1> QED BY <1>2, <1>3
        DEF onnfttrans_ignored, IInv, TypeOK, GlobalsOK, TablesOK, BalancesOK, LockSplit,
            PlanSplit, config

\* What a release does to the lock and to the plan.
LEMMA ReleaseEffect ==
    ASSUME IInv, NEW k, NEW b \in BOOLEAN, _unlock(k, b)
    PROVE  LET l == locks[k]
               r == plans[k[1]]
               t == total_unlocked(l, r)
               f == IF b THEN l.issued - t ELSE 0
           IN  /\ k \in DOMAIN locks /\ k[1] \in DOMAIN plans
               /\ l \in LockRow /\ r \in PlanRow /\ r.status = "enabled"
               /\ l.status = "locked" /\ l.issued = l.locked + l.unlocked
               /\ t \in l.unlocked .. l.issued /\ t \in Nat /\ f \in Nat /\ t + f <= l.issued
               /\ plans' = [plans EXCEPT ![k[1]] = PlanAfter(r, t - l.unlocked, f)]
               /\ locks' = [locks EXCEPT ![k] = LockAfter(l, t, l.issued - t - f, b)]
               /\ b => f = l.issued - t
               /\ ~b => f = 0
<1> DEFINE l == locks[k]
           r == plans[k[1]]
           t == total_unlocked(l, r)
           f == IF b THEN l.issued - t ELSE 0
<1>1. /\ k \in DOMAIN locks /\ k[1] \in DOMAIN plans
      /\ r.status = "enabled" /\ l.status = "locked" /\ PartFits(l, r)
      /\ plans' = [plans EXCEPT ![k[1]] = PlanAfter(r, t - l.unlocked, f)]
      /\ locks' = [locks EXCEPT ![k] = LockAfter(l, t, l.issued - t - f, b)]
  BY DEF _unlock
<1>2. l \in LockRow /\ r \in PlanRow
  BY <1>1 DEF IInv, TypeOK, TablesOK, IsTable
<1>3. l.issued = l.locked + l.unlocked
  BY <1>1 DEF IInv, LockSplit
<1>4. t \in l.unlocked .. l.issued
  BY <1>1, TotalInRange
<1>5. l.unlocked \in Nat /\ l.issued \in Nat
  BY <1>2 DEF LockRow
<1>6. t \in Nat /\ f \in Nat /\ t + f <= l.issued
  <2> HIDE DEF t, l
  <2> QED BY <1>4, <1>5
<1> QED BY <1>1, <1>2, <1>3, <1>4, <1>6

\* A release or an end splits the lock and the plan's total into what is gone and
\* what stays.
LEMMA ReleaseKeepsInv ==
    ASSUME IInv, NEW k, NEW b \in BOOLEAN, _unlock(k, b)
    PROVE  IInv'
<1> DEFINE l == locks[k]
           p == k[1]
           r == plans[p]
           t == total_unlocked(l, r)
           f == IF b THEN l.issued - t ELSE 0
           row == PlanAfter(r, t - l.unlocked, f)
           lock == LockAfter(l, t, l.issued - t - f, b)
<1>1. /\ k \in DOMAIN locks /\ p \in DOMAIN plans
      /\ l \in LockRow /\ r \in PlanRow /\ r.status = "enabled"
      /\ l.status = "locked" /\ l.issued = l.locked + l.unlocked
      /\ t \in l.unlocked .. l.issued /\ t \in Nat /\ f \in Nat /\ t + f <= l.issued
      /\ plans' = [plans EXCEPT ![p] = row]
      /\ locks' = [locks EXCEPT ![k] = lock]
      /\ b => f = l.issued - t
      /\ ~b => f = 0
  BY ReleaseEffect
<1>2. UNCHANGED <<config, mid, now, stray>>
  BY DEF _unlock
<1>3. /\ l.unlocked \in Nat /\ l.issued \in Nat \ {0} /\ l.locked \in Nat
      /\ r.total_locked \in Int /\ r.total_issued \in Nat
      /\ r.total_unlocked \in Nat /\ r.total_refunded \in Nat /\ r.last_lock_id \in Nat
  BY <1>1 DEF LockRow, PlanRow
<1>4. /\ row \in PlanRow /\ row.status = "enabled" /\ row.last_lock_id = r.last_lock_id
      /\ row.total_issued = r.total_issued
      /\ row.total_unlocked = r.total_unlocked + (t - l.unlocked)
      /\ row.total_refunded = r.total_refunded + f
      /\ row.total_locked = r.total_locked - ((t - l.unlocked) + f)
  <2> DEFINE released == t - l.unlocked
             out == r.total_unlocked + released
             back == r.total_refunded + f
             left == r.total_locked - (released + f)
  <2>1. released \in Nat
    <3> HIDE DEF t, l
    <3> QED BY <1>1, <1>3
  <2>2. row = [r EXCEPT !.total_unlocked = out, !.total_refunded = back, !.total_locked = left]
    BY DEF PlanAfter
  <2>3. out \in Nat /\ back \in Nat /\ left \in Int
    <3> HIDE DEF t, l, f, r, released
    <3> QED BY <1>1, <1>3, <2>1
  <2> HIDE DEF t, l, f, r, row, released, out, back, left
  <2>4. /\ row \in PlanRow /\ row.status = "enabled" /\ row.last_lock_id = r.last_lock_id
        /\ row.total_issued = r.total_issued /\ row.total_unlocked = out
        /\ row.total_refunded = back /\ row.total_locked = left
    BY <1>1, <2>2, <2>3 DEF PlanRow
  <2> QED BY <2>4 DEF out, back, left, released
<1>5. /\ lock \in LockRow /\ lock.locked_at = l.locked_at
      /\ lock.issued = l.issued /\ lock.unlocked = t /\ lock.locked = l.issued - t - f
      /\ lock.status = IF b \/ t = l.issued THEN "unlocked" ELSE "locked"
  <2>1. l.issued - t - f \in Nat
    <3> HIDE DEF t, l, f
    <3> QED BY <1>1, <1>3
  <2> HIDE DEF t, l, f
  <2> QED BY <1>1, <1>3, <2>1 DEF LockRow, LockAfter
<1>6. GlobalsOK' /\ TablesOK'
  <2>1. /\ DOMAIN locks' = DOMAIN locks /\ locks'[k] = lock
        /\ \A j \in DOMAIN locks' : j # k => locks'[j] = locks[j]
    BY <1>1
  <2>2. /\ \A q \in DOMAIN plans : plans[q] \in PlanRow /\ plans[q].last_lock_id \in Nat
        /\ \A j \in DOMAIN locks : locks[j] \in LockRow
    BY DEF IInv, TypeOK, TablesOK, IsTable, PlanRow
  <2> HIDE DEF row, lock, t, f
  <2>3. TablesOK'
    BY <1>1, <1>2, <1>4, <1>5, <2>1, <2>2, TablesStay DEF config
  <2> QED BY <1>2, <2>3 DEF IInv, TypeOK, GlobalsOK, config
<1>7. LockSplit'
  <2>1. IF lock.status = "locked" THEN lock.locked > 0 /\ lock.issued = lock.locked + lock.unlocked
        ELSE lock.locked = 0 /\ lock.unlocked <= lock.issued
    <3>1. f \in Nat /\ l.issued \in Nat /\ t \in Nat /\ t <= l.issued
      BY <1>1, <1>3
    <3>2. CASE b
      <4> HIDE DEF t, f, l, lock
      <4> QED BY <1>1, <1>5, <3>1, <3>2
    <3>3. CASE ~b
      <4> HIDE DEF t, f, l, lock
      <4> QED BY <1>1, <1>5, <3>1, <3>3
    <3> QED BY <3>2, <3>3
  <2> HIDE DEF lock
  <2> QED BY <1>1, <2>1 DEF IInv, LockSplit
<1>8. PlanSplit'
  <2>1. r.total_issued = r.total_locked + r.total_unlocked + r.total_refunded
    BY <1>1 DEF IInv, PlanSplit
  <2>2. row.total_issued = row.total_locked + row.total_unlocked + row.total_refunded
    <3> HIDE DEF row, t, f, l, r
    <3> QED BY <1>1, <1>3, <1>4, <2>1
  <2> HIDE DEF row
  <2> QED BY <1>1, <2>2 DEF IInv, PlanSplit
<1>9. BalancesOK'
  <2>1. r.asset_symbol \in Assets
    BY <1>1 DEF PlanRow
  <2> QED BY <2>1, <1>2, PassMovesType DEF _unlock, Accounts, IInv, TypeOK, BalancesOK
<1> QED BY <1>6, <1>7, <1>8, <1>9 DEF IInv, TypeOK

\* What a move leaves of the lock it is taken from, if it leaves anything.
LEMMA LessMoved ==
    ASSUME IInv, NEW k \in DOMAIN locks, locks[k].locked > 0, NEW q \in Nat \ {0}
    PROVE  LET l == locks[k]
               L == LocksLessMoved(k, q)
               moved == MinOf(l.locked, q)
           IN  /\ l.status = "locked" /\ l \in LockRow
               /\ moved \in Nat \ {0}
               /\ DOMAIN L \subseteq DOMAIN locks
               /\ \A j \in DOMAIN L : j # k => L[j] = locks[j]
               /\ k \in DOMAIN L =>
                     /\ L[k] \in LockRow
                     /\ L[k].issued = l.issued - q /\ L[k].locked = l.locked - q
                     /\ L[k].unlocked = l.unlocked /\ L[k].status = l.status
                     /\ L[k].locker = l.locker /\ L[k].receiver = l.receiver
                     /\ L[k].first_unlock_days = l.first_unlock_days
                     /\ L[k].locked_at = l.locked_at
                     /\ l.locked - q > 0
<1> DEFINE l == locks[k]
           L == LocksLessMoved(k, q)
<1>1. l \in LockRow /\ l.status = "locked" /\ l.issued = l.locked + l.unlocked
  BY DEF IInv, LockSplit, TypeOK, TablesOK, IsTable
<1>2. l.locked \in Nat /\ l.issued \in Nat \ {0} /\ l.unlocked \in Nat /\ l.locked > 0
  BY <1>1 DEF LockRow
<1>3. MinOf(l.locked, q) \in Nat \ {0}
  <2> HIDE DEF l
  <2> QED BY <1>2 DEF MinOf
<1>4. CASE l.locked <= q
  <2>1. L = Erase(locks, {k})
    BY <1>4 DEF LocksLessMoved
  <2> QED BY <1>1, <1>3, <2>1 DEF Erase
<1>5. CASE ~(l.locked <= q)
  <2> DEFINE issued == l.issued - q
             locked == l.locked - q
             row == [l EXCEPT !.issued = issued, !.locked = locked]
  <2>1. L = [locks EXCEPT ![k] = row]
    BY <1>5 DEF LocksLessMoved
  <2>2. issued \in Nat \ {0} /\ locked \in Nat \ {0}
    <3> HIDE DEF l
    <3> QED BY <1>1, <1>2, <1>5
  <2> HIDE DEF L, l, issued, locked
  <2>3. /\ row \in LockRow /\ row.issued = issued /\ row.locked = locked
        /\ row.unlocked = l.unlocked /\ row.status = l.status
        /\ row.locker = l.locker /\ row.receiver = l.receiver
        /\ row.first_unlock_days = l.first_unlock_days /\ row.locked_at = l.locked_at
    BY <1>1, <2>2 DEF LockRow
  <2> HIDE DEF row
  <2>4. DOMAIN L = DOMAIN locks /\ L[k] = row /\ \A j \in DOMAIN locks : j # k => L[j] = locks[j]
    BY <2>1
  <2>5. /\ l.status = "locked" /\ l \in LockRow /\ MinOf(l.locked, q) \in Nat \ {0}
        /\ DOMAIN L \subseteq DOMAIN locks
        /\ \A j \in DOMAIN L : j # k => L[j] = locks[j]
        /\ L[k] \in LockRow
        /\ L[k].issued = l.issued - q /\ L[k].locked = l.locked - q
        /\ L[k].unlocked = l.unlocked /\ L[k].status = l.status
        /\ L[k].locker = l.locker /\ L[k].receiver = l.receiver
        /\ L[k].first_unlock_days = l.first_unlock_days
        /\ L[k].locked_at = l.locked_at
        /\ l.locked - q > 0
    BY <1>1, <1>3, <2>2, <2>3, <2>4 DEF issued, locked
  <2> QED BY <2>5 DEF L, l
<1> QED BY <1>4, <1>5

\* A move carves a new lock out of an old one.
LEMMA MoveKeepsInv ==
    ASSUME IInv, NEW u \in Users, NEW to \in Receivers, NEW m \in Mids,
           NEW k \in DOMAIN locks, NEW q \in 1 .. mid[u][m], onmidtrans(u, m, q, k, to)
    PROVE  IInv'
<1> DEFINE p == k[1]
           l == locks[k]
           r == plans[p]
           id == r.last_lock_id + 1
           moved == MinOf(l.locked, q)
           L == LocksLessMoved(k, q)
           n == <<p, id>>
           lock == [l EXCEPT !.receiver = to, !.issued = moved, !.locked = moved,
                             !.unlocked = 0, !.status = "locked"]
           row == [r EXCEPT !.last_lock_id = id]
<1>1. /\ l.locked > 0 /\ mid[u][m] >= q
      /\ locks' = Emplace(L, n, lock)
      /\ plans' = [plans EXCEPT ![p] = row]
      /\ MidsPassOn(m, u, to, q, moved)
      /\ UNCHANGED <<config, pass, now, stray>>
  BY DEF onmidtrans, NewLockId
<1>2. mid \in [Accounts -> [Mids -> Nat]] /\ q \in Nat \ {0} /\ u \in Accounts
  BY DEF IInv, TypeOK, BalancesOK, Accounts
<1>3. /\ l.status = "locked" /\ l \in LockRow /\ moved \in Nat \ {0}
      /\ DOMAIN L \subseteq DOMAIN locks
      /\ \A j \in DOMAIN L : j # k => L[j] = locks[j]
      /\ k \in DOMAIN L =>
            /\ L[k] \in LockRow
            /\ L[k].issued = l.issued - q /\ L[k].locked = l.locked - q
            /\ L[k].unlocked = l.unlocked /\ L[k].status = l.status
            /\ L[k].locked_at = l.locked_at
            /\ l.locked - q > 0
  BY <1>1, <1>2, LessMoved
<1>4. /\ k \in (DOMAIN plans) \X (Nat \ {0}) /\ p \in DOMAIN plans /\ r \in PlanRow
      /\ r.status = "enabled" /\ l.locked_at <= now /\ l.issued = l.locked + l.unlocked
      /\ l.issued \in Nat /\ l.locked \in Nat /\ l.unlocked \in Nat
  BY <1>3 DEF IInv, TypeOK, TablesOK, IsTable, LockSplit, LockRow
<1>5. moved <= q /\ moved <= l.locked
  <2> HIDE DEF l
  <2> QED BY <1>2, <1>4 DEF MinOf
<1>6. /\ lock \in LockRow /\ lock.locked = moved /\ lock.issued = moved /\ lock.unlocked = 0
      /\ lock.status = "locked" /\ lock.locked_at = l.locked_at
  <2> HIDE DEF l, moved
  <2> QED BY <1>3, CustodyInputs DEF LockRow
<1>7. /\ row \in PlanRow /\ row.last_lock_id = id /\ row.status = r.status
      /\ id \in Nat \ {0} /\ id >= r.last_lock_id
      /\ row.total_issued = r.total_issued /\ row.total_locked = r.total_locked
      /\ row.total_unlocked = r.total_unlocked /\ row.total_refunded = r.total_refunded
  <2>1. r.last_lock_id \in Nat
    BY <1>4 DEF PlanRow
  <2>2. id \in Nat \ {0} /\ id >= r.last_lock_id
    BY <2>1
  <2> HIDE DEF r, id
  <2> QED BY <1>4, <2>2 DEF PlanRow
<1>8. /\ DOMAIN locks' = DOMAIN L \cup {n} /\ locks'[n] = lock
      /\ \A j \in DOMAIN L : j # n => locks'[j] = L[j]
  <2> HIDE DEF L, n, lock
  <2> QED BY <1>1 DEF Emplace
<1>9. n[1] = p /\ n[2] = id /\ n \in (DOMAIN plans) \X (Nat \ {0})
  BY <1>4, <1>7
<1>10. /\ DOMAIN plans' = DOMAIN plans /\ plans'[p] = row
       /\ \A j \in DOMAIN plans : j # p => plans'[j] = plans[j]
  BY <1>1, <1>4
<1>11. TablesOK'
  <2>1. /\ \A j \in DOMAIN plans : plans[j] \in PlanRow /\ plans[j].last_lock_id \in Nat
        /\ \A j \in DOMAIN locks : locks[j] \in LockRow
    BY DEF IInv, TypeOK, TablesOK, IsTable, PlanRow
  <2> HIDE DEF l, r, id, moved, L, n, lock, row, p
  <2>2. \A j \in DOMAIN plans :
           /\ plans'[j] \in PlanRow
           /\ plans'[j].last_lock_id >= plans[j].last_lock_id
           /\ plans[j].status = "enabled" => plans'[j].status = "enabled"
    BY <1>4, <1>7, <1>10, <2>1 DEF r
  <2>3. \A j \in DOMAIN locks' : j # n =>
           /\ locks'[j] \in LockRow
           /\ j \in DOMAIN locks /\ locks'[j].locked_at = locks[j].locked_at
    BY <1>3, <1>8, <2>1 DEF l
  <2>4. /\ locks'[n] \in LockRow /\ n[2] <= plans'[n[1]].last_lock_id
        /\ plans'[n[1]].status = "enabled" /\ locks'[n].locked_at <= now
    BY <1>4, <1>6, <1>7, <1>8, <1>9, <1>10
  <2> QED BY <1>1, <1>9, <1>10, <2>2, <2>3, <2>4, TablesStay DEF config
<1>12. LockSplit'
  <2> SUFFICES ASSUME NEW j \in DOMAIN locks'
               PROVE  IF locks'[j].status = "locked"
                      THEN locks'[j].locked > 0
                           /\ locks'[j].issued = locks'[j].locked + locks'[j].unlocked
                      ELSE locks'[j].locked = 0 /\ locks'[j].unlocked <= locks'[j].issued
    BY DEF LockSplit
  <2> HIDE DEF l, r, id, moved, L, n, lock, row, p
  <2>1. CASE j = n
    BY <1>3, <1>6, <1>8, <2>1
  <2>2. CASE j # n /\ j = k
    <3>1. locks'[j] = L[k] /\ k \in DOMAIN L
      BY <1>8, <2>2
    <3> QED BY <1>2, <1>3, <1>4, <3>1
  <2>3. CASE j # n /\ j # k
    <3>1. j \in DOMAIN locks /\ locks'[j] = locks[j]
      BY <1>3, <1>8, <2>3
    <3> QED BY <3>1 DEF IInv, LockSplit
  <2> QED BY <2>1, <2>2, <2>3
<1>13. PlanSplit'
  <2> HIDE DEF row, r
  <2> QED BY <1>4, <1>7, <1>10 DEF IInv, PlanSplit, r
<1>14. BalancesOK'
  <2> DEFINE new(a) == mid[a][m] - (IF a = u THEN moved ELSE 0) + (IF a = to THEN moved ELSE 0)
  <2>1. mid' = [a \in Accounts |-> [mid[a] EXCEPT ![m] = new(a)]]
    BY <1>1 DEF MidsPassOn
  <2>2. \A a \in Accounts : new(a) \in Nat
    <3>1. \A a \in Accounts : mid[a][m] \in Nat
      BY <1>2
    <3> HIDE DEF moved
    <3> QED BY <1>1, <1>2, <1>3, <1>5, <3>1
  <2> HIDE DEF new
  <2>3. \A a \in Accounts : [mid[a] EXCEPT ![m] = new(a)] \in [Mids -> Nat]
    BY <1>2, <2>2
  <2> QED BY <1>1, <2>1, <2>3 DEF IInv, TypeOK, BalancesOK
<1> QED BY <1>1, <1>11, <1>12, <1>13, <1>14 DEF IInv, TypeOK, GlobalsOK, config

\* A batch of locks moved to the mining contract: each closes, and its plan counts
\* as unlocked what it no longer counts as locked.
LEMMA MoveDataKeepsInv ==
    ASSUME IInv, NEW p \in PlanIds, NEW c \in MoveCounts, movedata(p, c)
    PROVE  IInv'
<1> DEFINE cursor  == gstate1.last_move_lock_id + 1
           ahead   == {k \in LocksOf(p) : k[2] >= cursor}
           scanned == {k \in ahead : Cardinality({j \in ahead : j[2] < k[2]}) < c}
           moved   == Movable(scanned)
           amount  == SumFunction([k \in moved |-> locks[k].locked])
           r       == plans[p]
           pays    == PayOne(Accounts, Mine, amount)
           away(l) == [l EXCEPT !.unlocked = l.unlocked + l.locked, !.locked = 0,
                                !.status = "unlocked"]
<1>1. /\ p \in DOMAIN plans /\ r.status = "enabled"
      /\ PassMoves(r.asset_symbol, Custody, pays)
      /\ plans' = [plans EXCEPT ![p] = [r EXCEPT !.total_unlocked = r.total_unlocked + amount,
                                                 !.total_locked = r.total_locked - amount]]
      /\ locks' = [k \in DOMAIN locks |-> IF k \in moved THEN away(locks[k]) ELSE locks[k]]
      /\ \E last \in {cursor} \cup {k[2] : k \in moved} :
            gstate1' = [gstate1 EXCEPT !.last_move_lock_id = last]
      /\ UNCHANGED <<gstate, payaccounts, movewindows, whitemovers, mid, now, stray>>
  BY DEF movedata
<1>2. r \in PlanRow
  BY <1>1 DEF IInv, TypeOK, TablesOK, IsTable
<1>3. r.asset_symbol \in Assets /\ Custody \in Accounts /\ Mine \in Accounts
  BY <1>2 DEF PlanRow, Accounts
<1>4. pass' \in [Accounts -> [Assets -> Nat]] /\ pays \in [Accounts -> Nat]
  <2> HIDE DEF pays
  <2> QED BY <1>1, <1>3, PassMovesType DEF IInv, TypeOK, BalancesOK
<1>5. amount \in Nat
  <2>1. pays[Mine] = amount
    <3> HIDE DEF amount
    <3> QED BY <1>3 DEF PayOne
  <2> HIDE DEF pays
  <2> QED BY <1>3, <1>4, <2>1
<1>6. \A k \in moved : k \in DOMAIN locks /\ locks[k].status = "locked" /\ k[2] >= cursor
  BY DEF Movable, LocksOf
<1>7. GlobalsOK'
  <2>1. cursor \in Nat
    BY DEF IInv, TypeOK, GlobalsOK
  <2>2. \A k \in moved : k[2] \in Nat
    BY <1>6 DEF IInv, TypeOK, TablesOK, IsTable
  <2> HIDE DEF moved
  <2>3. \E last \in Nat : gstate1' = [gstate1 EXCEPT !.last_move_lock_id = last]
    BY <1>1, <2>1, <2>2
  <2> QED BY <1>1, <2>3 DEF IInv, TypeOK, GlobalsOK
<1> HIDE DEF moved, amount
<1>8. /\ DOMAIN plans' = DOMAIN plans /\ plans'[p] \in PlanRow
      /\ plans'[p].status = "enabled" /\ plans'[p].last_lock_id = r.last_lock_id
      /\ plans'[p].total_issued = r.total_issued
      /\ plans'[p].total_unlocked = r.total_unlocked + amount
      /\ plans'[p].total_locked = r.total_locked - amount
      /\ plans'[p].total_refunded = r.total_refunded
      /\ \A q \in DOMAIN plans : q # p => plans'[q] = plans[q]
  <2> DEFINE out == r.total_unlocked + amount
             left == r.total_locked - amount
             row == [r EXCEPT !.total_unlocked = out, !.total_locked = left]
  <2>1. out \in Nat /\ left \in Int
    BY <1>2, <1>5 DEF PlanRow
  <2>2. plans' = [plans EXCEPT ![p] = row]
    BY <1>1
  <2> HIDE DEF r, out, left
  <2>3. /\ row \in PlanRow /\ row.status = "enabled" /\ row.last_lock_id = r.last_lock_id
        /\ row.total_issued = r.total_issued /\ row.total_unlocked = out
        /\ row.total_locked = left /\ row.total_refunded = r.total_refunded
    BY <1>1, <1>2, <2>1 DEF PlanRow
  <2> HIDE DEF row
  <2>4. /\ DOMAIN plans' = DOMAIN plans /\ plans'[p] = row
        /\ \A q \in DOMAIN plans : q # p => plans'[q] = plans[q]
    BY <1>1, <2>2
  <2> QED BY <2>3, <2>4 DEF out, left
<1>9. ASSUME NEW k \in moved
      PROVE  /\ away(locks[k]) \in LockRow /\ away(locks[k]).status = "unlocked"
             /\ away(locks[k]).locked = 0
             /\ away(locks[k]).unlocked = locks[k].issued
             /\ away(locks[k]).issued = locks[k].issued
             /\ away(locks[k]).locked_at = locks[k].locked_at
             /\ away(locks[k]).locker = locks[k].locker
             /\ away(locks[k]).receiver = locks[k].receiver
             /\ away(locks[k]).first_unlock_days = locks[k].first_unlock_days
             /\ locks[k].issued \in Nat
  <2> DEFINE l == locks[k]
             sum == l.unlocked + l.locked
  <2>1. l \in LockRow /\ l.issued = l.locked + l.unlocked
    BY <1>6 DEF IInv, TypeOK, TablesOK, IsTable, LockSplit
  <2>2. sum = l.issued /\ sum \in Nat
    <3>1. l.locked \in Nat /\ l.unlocked \in Nat
      BY <2>1 DEF LockRow
    <3> HIDE DEF l
    <3> QED BY <2>1, <3>1
  <2> DEFINE row == [l EXCEPT !.unlocked = sum, !.locked = 0, !.status = "unlocked"]
  <2>3. away(l) = row
    OBVIOUS
  <2> HIDE DEF l, sum, away
  <2>4. /\ row \in LockRow /\ row.status = "unlocked" /\ row.locked = 0
        /\ row.unlocked = sum /\ row.issued = l.issued
        /\ row.locked_at = l.locked_at /\ row.locker = l.locker
        /\ row.receiver = l.receiver /\ row.first_unlock_days = l.first_unlock_days
    BY <2>1, <2>2 DEF LockRow
  <2> HIDE DEF row
  <2> QED BY <2>2, <2>3, <2>4 DEF l
<1>10. /\ DOMAIN locks' = DOMAIN locks
       /\ \A k \in DOMAIN locks : k \notin moved => locks'[k] = locks[k]
       /\ \A k \in moved : locks'[k] = away(locks[k])
  <2> HIDE DEF away
  <2> QED BY <1>1, <1>6
<1> HIDE DEF away
<1>11. TablesOK'
  <2>1. \A q \in DOMAIN plans :
           /\ plans'[q] \in PlanRow
           /\ plans'[q].last_lock_id >= plans[q].last_lock_id
           /\ plans[q].status = "enabled" => plans'[q].status = "enabled"
    <3>1. \A q \in DOMAIN plans : plans[q] \in PlanRow /\ plans[q].last_lock_id \in Nat
      BY DEF IInv, TypeOK, TablesOK, IsTable, PlanRow
    <3> QED BY <1>8, <3>1
  <2>2. \A j \in DOMAIN locks' :
           /\ locks'[j] \in LockRow
           /\ j \in DOMAIN locks /\ locks'[j].locked_at = locks[j].locked_at
    <3>1. \A j \in DOMAIN locks : locks[j] \in LockRow
      BY DEF IInv, TypeOK, TablesOK, IsTable
    <3> QED BY <1>6, <1>9, <1>10, <3>1
  <2> QED BY <1>1, <1>8, <2>1, <2>2, TablesStay
<1>12. LockSplit'
  <2> SUFFICES ASSUME NEW j \in DOMAIN locks'
               PROVE  IF locks'[j].status = "locked"
                      THEN locks'[j].locked > 0
                           /\ locks'[j].issued = locks'[j].locked + locks'[j].unlocked
                      ELSE locks'[j].locked = 0 /\ locks'[j].unlocked <= locks'[j].issued
    BY DEF LockSplit
  <2>1. CASE j \in moved
    BY <2>1, <1>9, <1>10
  <2>2. CASE j \notin moved
    BY <2>2, <1>10 DEF IInv, LockSplit
  <2> QED BY <2>1, <2>2
<1>13. PlanSplit'
  <2>1. \A q \in DOMAIN plans :
           plans[q].total_issued =
               plans[q].total_locked + plans[q].total_unlocked + plans[q].total_refunded
    BY DEF IInv, PlanSplit
  <2>2. r.total_issued \in Nat /\ r.total_locked \in Int /\ r.total_unlocked \in Nat
        /\ r.total_refunded \in Nat
    BY <1>2 DEF PlanRow
  <2>3. plans'[p].total_issued =
            plans'[p].total_locked + plans'[p].total_unlocked + plans'[p].total_refunded
    <3>1. r.total_issued = r.total_locked + r.total_unlocked + r.total_refunded
      BY <1>1, <2>1
    <3> HIDE DEF r
    <3> QED BY <1>5, <1>8, <2>2, <3>1
  <2> QED BY <1>8, <2>1, <2>3 DEF PlanSplit
<1> QED BY <1>1, <1>4, <1>7, <1>11, <1>12, <1>13 DEF IInv, TypeOK, BalancesOK

------------------------------------------------------------------------------
(* The invariant *)

\* The empty custody satisfies the invariant.
LEMMA InitInv == Init => IInv
BY CustodyInputs
DEF Init, IInv, TypeOK, GlobalsOK, TablesOK, BalancesOK, LockSplit, PlanSplit, IsTable, EmptyTable

\* Every step keeps the invariant.
LEMMA StepInv == IInv /\ [Next]_vars => IInv'
<1> SUFFICES ASSUME IInv, [Next]_vars PROVE IInv'
  OBVIOUS
<1>1. ASSUME Lock PROVE IInv'
  BY <1>1, LockKeepsInv, StrayKeepsInv DEF Lock
<1>2. ASSUME Release PROVE IInv'
  BY <1>2, ReleaseKeepsInv DEF Release, unlock, endlock
<1>3. ASSUME Move PROVE IInv'
  BY <1>3, MoveKeepsInv, MoveDataKeepsInv DEF Move
<1>4. ASSUME Tick PROVE IInv'
  <2>1. now' \in Nat /\ now' = now + 1 /\ now \in Nat
    BY <1>4 DEF Tick, IInv, TypeOK, GlobalsOK
  <2>2. \A k \in DOMAIN locks : locks[k].locked_at <= now'
    <3>1. \A k \in DOMAIN locks : locks[k].locked_at <= now /\ locks[k].locked_at \in Nat
      BY DEF IInv, TypeOK, TablesOK, IsTable, LockRow
    <3> QED BY <2>1, <3>1
  <2> QED BY <1>4, <2>1, <2>2
          DEF Tick, IInv, TypeOK, GlobalsOK, TablesOK, BalancesOK, LockSplit, PlanSplit, config
<1>5. ASSUME UNCHANGED vars PROVE IInv'
  BY <1>5 DEF vars, IInv, TypeOK, GlobalsOK, TablesOK, BalancesOK, LockSplit, PlanSplit
<1> QED BY <1>1, <1>2, <1>3, <1>4, <1>5, ConfigureKeepsInv, PlanKeepsInv DEF Next

\* The inductive invariant holds in every reachable state.
THEOREM Invariant == Spec => []IInv
<1>1. Init => IInv
  BY InitInv
<1>2. IInv /\ [Next]_vars => IInv'
  BY StepInv
<1> QED BY <1>1, <1>2, PTL DEF Spec

\* Every variable keeps its type, and every lock an enabled plan and an id under
\* the plan's counter.
THEOREM TypeCorrect == Spec => []TypeOK
<1>1. IInv => TypeOK
  BY DEF IInv
<1> QED BY <1>1, Invariant, PTL

\* A live lock's issued amount is what is locked plus what was released, through any
\* sequence of releases and moves.
THEOREM LocksSplit == Spec => []LockSplit
<1>1. IInv => LockSplit
  BY DEF IInv
<1> QED BY <1>1, Invariant, PTL

\* Nothing deposited under a plan is lost from its totals.
THEOREM PlansSplit == Spec => []PlanSplit
<1>1. IInv => PlanSplit
  BY DEF IInv
<1> QED BY <1>1, Invariant, PTL

------------------------------------------------------------------------------
(* Locks only run down *)

\* A lock keeps its parties and its schedule, and releases are never taken back.
RunsDown(l, n) ==
    /\ n.locker = l.locker /\ n.receiver = l.receiver
    /\ n.first_unlock_days = l.first_unlock_days /\ n.locked_at = l.locked_at
    /\ l.unlocked <= n.unlocked
    /\ n.issued <= l.issued /\ l.issued - n.issued <= l.locked - n.locked
    /\ l.status = "unlocked" => n = l

\* A row left alone runs down trivially.
LEMMA SameRow == ASSUME IInv, NEW k \in DOMAIN locks PROVE RunsDown(locks[k], locks[k])
<1> DEFINE l == locks[k]
<1>1. l \in LockRow
  BY DEF IInv, TypeOK, TablesOK, IsTable
<1>2. l.issued \in Nat /\ l.locked \in Nat /\ l.unlocked \in Nat
  BY <1>1 DEF LockRow
<1>3. l.unlocked <= l.unlocked /\ l.issued <= l.issued /\ l.issued - l.issued <= l.locked - l.locked
  <2> HIDE DEF l
  <2> QED BY <1>2
<1> QED BY <1>3 DEF RunsDown

\* A release lets its lock run down.
LEMMA ReleaseRunsDown ==
    ASSUME IInv, NEW k, NEW b \in BOOLEAN, _unlock(k, b)
    PROVE  \A j \in DOMAIN locks : RunsDown(locks[j], locks'[j])
<1> DEFINE l == locks[k]
           t == total_unlocked(l, plans[k[1]])
           f == IF b THEN l.issued - t ELSE 0
           left == l.issued - t - f
           lock == LockAfter(l, t, left, b)
<1>1. /\ k \in DOMAIN locks /\ l \in LockRow
      /\ l.status = "locked" /\ l.issued = l.locked + l.unlocked
      /\ t \in l.unlocked .. l.issued /\ t \in Nat /\ f \in Nat /\ t + f <= l.issued
      /\ locks' = [locks EXCEPT ![k] = lock]
  BY ReleaseEffect
<1>2. l.unlocked \in Nat /\ l.issued \in Nat /\ l.locked \in Nat
  BY <1>1 DEF LockRow
<1>3. left \in Nat /\ left <= l.locked /\ l.unlocked <= t
  <2> HIDE DEF t, f, l
  <2> QED BY <1>1, <1>2
<1> HIDE DEF t, f, left, l
<1>4. /\ lock.locker = l.locker /\ lock.receiver = l.receiver
      /\ lock.first_unlock_days = l.first_unlock_days /\ lock.locked_at = l.locked_at
      /\ lock.issued = l.issued /\ lock.unlocked = t /\ lock.locked = left
  BY <1>1, <1>3 DEF LockRow, LockAfter
<1> HIDE DEF lock
<1>5. RunsDown(l, lock)
  BY <1>1, <1>2, <1>3, <1>4 DEF RunsDown
<1> QED BY <1>1, <1>5, SameRow DEF l

\* A move lets the lock it is taken from run down, and erases it when nothing is left.
LEMMA MoveRunsDown ==
    ASSUME IInv, NEW u \in Users, NEW to \in Receivers, NEW m \in Mids,
           NEW k \in DOMAIN locks, NEW q \in 1 .. mid[u][m], onmidtrans(u, m, q, k, to)
    PROVE  \A j \in DOMAIN locks \cap DOMAIN locks' : RunsDown(locks[j], locks'[j])
<1> DEFINE p == k[1]
           l == locks[k]
           id == plans[p].last_lock_id + 1
           L == LocksLessMoved(k, q)
           n == <<p, id>>
           moved == MinOf(l.locked, q)
           lock == [l EXCEPT !.receiver = to, !.issued = moved, !.locked = moved,
                             !.unlocked = 0, !.status = "locked"]
<1>1. l.locked > 0 /\ locks' = Emplace(L, n, lock)
  BY DEF onmidtrans, NewLockId
<1>2. q \in Nat \ {0}
  BY DEF IInv, TypeOK, BalancesOK, Accounts
<1>3. /\ l.status = "locked" /\ l \in LockRow
      /\ \A j \in DOMAIN L : j # k => L[j] = locks[j]
      /\ k \in DOMAIN L =>
            /\ L[k].issued = l.issued - q /\ L[k].locked = l.locked - q
            /\ L[k].unlocked = l.unlocked
            /\ L[k].locker = l.locker /\ L[k].receiver = l.receiver
            /\ L[k].first_unlock_days = l.first_unlock_days
            /\ L[k].locked_at = l.locked_at
  BY <1>1, <1>2, LessMoved
<1>4. l.issued \in Nat /\ l.locked \in Nat /\ l.unlocked \in Nat
  BY <1>3 DEF LockRow
<1>5. n \notin DOMAIN locks
  <2>1. \A j \in DOMAIN locks : /\ plans[j[1]].last_lock_id \in Nat /\ j[2] \in Nat
                                /\ j[2] <= plans[j[1]].last_lock_id
    BY DEF IInv, TypeOK, TablesOK, IsTable, PlanRow
  <2>2. n[1] = p /\ n[2] = id
    OBVIOUS
  <2> SUFFICES ASSUME n \in DOMAIN locks PROVE FALSE
    OBVIOUS
  <2> HIDE DEF n, p
  <2> QED BY <2>1, <2>2
<1>6. \A j \in DOMAIN locks \cap DOMAIN locks' : j \in DOMAIN L /\ locks'[j] = L[j]
  <2> HIDE DEF L, n, lock
  <2> QED BY <1>1, <1>5 DEF Emplace
<1>7. k \in DOMAIN L => RunsDown(l, L[k])
  <2> HIDE DEF l, L
  <2> QED BY <1>2, <1>3, <1>4 DEF RunsDown
<1> HIDE DEF L
<1> QED BY <1>3, <1>6, <1>7, SameRow

\* No release is ever taken back, and only a move makes a lock smaller.
THEOREM LocksNeverGrow == Spec => LocksOnlyRunDown
<1>1. IInv /\ [Next]_vars
        => \A k \in DOMAIN locks \cap DOMAIN locks' :
              LET l == locks[k]
                  n == locks'[k]
              IN  /\ n.locker = l.locker /\ n.receiver = l.receiver
                  /\ n.first_unlock_days = l.first_unlock_days /\ n.locked_at = l.locked_at
                  /\ l.unlocked <= n.unlocked
                  /\ n.issued <= l.issued /\ l.issued - n.issued <= l.locked - n.locked
                  /\ l.status = "unlocked" => n = l
  <2> SUFFICES ASSUME IInv, [Next]_vars
               PROVE  \A k \in DOMAIN locks \cap DOMAIN locks' : RunsDown(locks[k], locks'[k])
    BY DEF RunsDown
  <2>1. CASE UNCHANGED locks
    BY <2>1, SameRow
  <2>2. ASSUME Release PROVE \A k \in DOMAIN locks : RunsDown(locks[k], locks'[k])
    BY <2>2, ReleaseRunsDown DEF Release, unlock, endlock
  <2>3. ASSUME NEW u \in Lockers, NEW a \in Assets, NEW n \in LockAmounts, NEW r \in Receivers,
               NEW p \in PlanIds, NEW d \in FirstDays, onnfttrans(u, a, n, r, p, d)
        PROVE  \A k \in DOMAIN locks : RunsDown(locks[k], locks'[k])
    <3> DEFINE id == plans[p].last_lock_id + 1
    <3>1. \A k \in DOMAIN locks : /\ plans[k[1]].last_lock_id \in Nat /\ k[2] \in Nat
                                  /\ k[2] <= plans[k[1]].last_lock_id
      BY DEF IInv, TypeOK, TablesOK, IsTable, PlanRow
    <3>2. <<p, id>>[1] = p /\ <<p, id>>[2] = id
      OBVIOUS
    <3>3. \A k \in DOMAIN locks : k # <<p, id>>
      BY <3>1, <3>2
    <3>4. \A k \in DOMAIN locks : locks'[k] = locks[k]
      BY <2>3, <3>3 DEF onnfttrans, LockFor, PlanTakes, NewLockId, Emplace
    <3> QED BY <3>4, SameRow
  <2>4. ASSUME NEW p \in PlanIds, NEW c \in MoveCounts, movedata(p, c)
        PROVE  \A k \in DOMAIN locks : RunsDown(locks[k], locks'[k])
    <3> SUFFICES ASSUME NEW k \in DOMAIN locks PROVE RunsDown(locks[k], locks'[k])
      OBVIOUS
    <3> DEFINE l == locks[k]
               sum == l.unlocked + l.locked
               row == [l EXCEPT !.unlocked = sum, !.locked = 0, !.status = "unlocked"]
    <3>1. locks'[k] = l \/ (l.status = "locked" /\ locks'[k] = row)
      BY <2>4 DEF movedata, Movable
    <3>2. l \in LockRow
      BY DEF IInv, TypeOK, TablesOK, IsTable
    <3>3. l.issued \in Nat /\ l.locked \in Nat /\ l.unlocked \in Nat
      BY <3>2 DEF LockRow
    <3>4. sum \in Nat /\ l.unlocked <= sum
      <4> HIDE DEF l
      <4> QED BY <3>3
    <3> HIDE DEF l, sum
    <3>5. /\ row.locker = l.locker /\ row.receiver = l.receiver
          /\ row.first_unlock_days = l.first_unlock_days /\ row.locked_at = l.locked_at
          /\ row.unlocked = sum /\ row.issued = l.issued /\ row.locked = 0
      BY <3>2, <3>4 DEF LockRow
    <3> HIDE DEF row
    <3>6. l.status = "locked" => RunsDown(l, row)
      BY <3>3, <3>4, <3>5 DEF RunsDown
    <3> QED BY <3>1, <3>6, SameRow DEF l
  <2>5. ASSUME Configure \/ Plan \/ Tick PROVE UNCHANGED locks
    BY <2>5 DEF Configure, Plan, Tick, init, setconfig, whitelist, blacklist, addplan,
                setplanowner, ontokentrans, setmovwindow
  <2>6. CASE Lock
    <3>1. ASSUME NEW u \in Lockers, NEW a \in Assets, NEW n \in StrayAmounts,
                 onnfttrans_ignored(u, a, n)
          PROVE  UNCHANGED locks
      BY <3>1 DEF onnfttrans_ignored
    <3> QED BY <2>1, <2>3, <2>6, <3>1 DEF Lock
  <2>7. CASE Move
    BY <2>4, <2>7, MoveRunsDown DEF Move
  <2> QED BY <2>1, <2>2, <2>5, <2>6, <2>7 DEF Next, vars
<1> QED BY <1>1, Invariant, PTL DEF Spec, LocksOnlyRunDown
------------------------------------------------------------------------------
(* Sums over the locks of a plan and the plans of an asset *)

\* The same sums of any table of locks or plans, and as sums over the keys of a
\* larger set, where absent rows weigh nothing.
LockedOf(t, p) == SumFunction([k \in {j \in DOMAIN t : j[1] = p} |-> t[k].locked])
Locked(t, K) == [k \in K |-> IF k \in DOMAIN t THEN t[k].locked ELSE 0]
Keys(K, p) == {k \in K : k[1] = p}

TotalOf(t, a) == SumFunction([p \in {q \in DOMAIN t : t[q].asset_symbol = a} |-> t[p].total_locked])
Total(t, a, K) ==
    [p \in K |-> IF p \in DOMAIN t /\ t[p].asset_symbol = a THEN t[p].total_locked ELSE 0]

\* What is locked under a plan, summed over any finite set of keys with its locks.
LEMMA LockedOver ==
    ASSUME NEW t, NEW p, NEW K, IsFiniteSet(K), DOMAIN t \subseteq K,
           \A k \in DOMAIN t : t[k].locked \in Int
    PROVE  /\ LockedOf(t, p) = Sum(Locked(t, K), Keys(K, p))
           /\ IsFiniteSet(Keys(K, p))
           /\ \A k \in K : Locked(t, K)[k] \in Int
<1> DEFINE w == Locked(t, K)
           S == Keys(K, p)
           T == {j \in DOMAIN t : j[1] = p}
           v == [k \in T |-> t[k].locked]
<1>1. /\ \A k \in K : w[k] = IF k \in DOMAIN t THEN t[k].locked ELSE 0
      /\ S \subseteq K /\ T \in SUBSET S
  BY DEF Locked, Keys
<1>2. IsFiniteSet(S) /\ IsFiniteSet(T)
  BY <1>1, FS_Subset
<1>3. \A k \in K : w[k] \in Int
  BY <1>1
<1>4. \A k \in S \ T : w[k] = 0
  BY <1>1 DEF Keys
<1>5. v = [k \in T |-> w[k]]
  BY <1>1
<1>6. LockedOf(t, p) = SumFunction(v)
  BY DEF LockedOf
<1> HIDE DEF w, S, T, v
<1>7. SumFunction(v) = Sum(w, T)
  BY <1>2, <1>5, SumFunctionOver
<1>8. Sum(w, S \ T) = 0
  <2>1. IsFiniteSet(S \ T)
    BY <1>2, FS_Subset
  <2> QED BY <1>4, <2>1, SumZero
<1>9. \A k \in S : w[k] \in Int
  BY <1>1, <1>3
<1>10. Sum(w, S) = Sum(w, T) + Sum(w, S \ T)
  BY <1>1, <1>2, <1>9, SumSplit
<1>11. Sum(w, T) \in Int
  BY <1>1, <1>2, <1>9, SumInt
<1>12. LockedOf(t, p) = Sum(w, S)
  BY <1>6, <1>7, <1>8, <1>10, <1>11
<1> QED BY <1>2, <1>3, <1>12 DEF w, S

\* What the plans of an asset have locked, likewise.
LEMMA TotalOver ==
    ASSUME NEW t, NEW a, NEW K, IsFiniteSet(K), DOMAIN t \subseteq K,
           \A p \in DOMAIN t : t[p].total_locked \in Int
    PROVE  /\ TotalOf(t, a) = Sum(Total(t, a, K), K)
           /\ \A p \in K : Total(t, a, K)[p] \in Int
<1> DEFINE w == Total(t, a, K)
           T == {q \in DOMAIN t : t[q].asset_symbol = a}
           v == [p \in T |-> t[p].total_locked]
<1>1. /\ \A p \in K : w[p] = IF p \in DOMAIN t /\ t[p].asset_symbol = a
                             THEN t[p].total_locked ELSE 0
      /\ T \in SUBSET K
  BY DEF Total
<1>2. IsFiniteSet(T)
  BY <1>1, FS_Subset
<1>3. \A p \in K : w[p] \in Int
  BY <1>1
<1>4. \A p \in K \ T : w[p] = 0
  BY <1>1
<1>5. v = [p \in T |-> w[p]]
  BY <1>1
<1>6. TotalOf(t, a) = SumFunction(v)
  BY DEF TotalOf
<1> HIDE DEF w, T, v
<1>7. SumFunction(v) = Sum(w, T)
  BY <1>2, <1>5, SumFunctionOver
<1>8. Sum(w, K \ T) = 0
  <2>1. IsFiniteSet(K \ T)
    BY FS_Subset
  <2> QED BY <1>4, <2>1, SumZero
<1>10. Sum(w, K) = Sum(w, T) + Sum(w, K \ T)
  BY <1>1, <1>3, SumSplit
<1>11. Sum(w, T) \in Int
  BY <1>1, <1>3, SumInt
<1>12. TotalOf(t, a) = Sum(w, K)
  BY <1>6, <1>7, <1>8, <1>10, <1>11
<1> QED BY <1>3, <1>12 DEF w

\* A row of one lock added or changed adds to its plan what it adds to the lock.
LEMMA LockedChanges ==
    ASSUME NEW t, NEW s, NEW k, IsFiniteSet(DOMAIN t),
           NEW d \in Int,
           DOMAIN s = DOMAIN t \cup {k},
           \A j \in DOMAIN t : t[j].locked \in Int,
           s[k].locked \in Int,
           \A j \in DOMAIN t : j # k => s[j] = t[j],
           s[k].locked = (IF k \in DOMAIN t THEN t[k].locked ELSE 0) + d
    PROVE  \A p : LockedOf(s, p) = LockedOf(t, p) + (IF p = k[1] THEN d ELSE 0)
<1> TAKE p
<1> DEFINE K == DOMAIN t \cup {k}
           S == Keys(K, p)
           w == Locked(t, K)
           v == Locked(s, K)
<1>1. IsFiniteSet(K) /\ DOMAIN t \subseteq K /\ DOMAIN s \subseteq K
  BY FS_AddElement
<1>2. \A j \in DOMAIN s : s[j].locked \in Int
  OBVIOUS
<1>3. LockedOf(t, p) = Sum(w, S) /\ IsFiniteSet(S) /\ \A j \in K : w[j] \in Int
  <2> HIDE DEF K
  <2> QED BY <1>1, LockedOver
<1>4. LockedOf(s, p) = Sum(v, S) /\ \A j \in K : v[j] \in Int
  <2> HIDE DEF K
  <2> QED BY <1>1, <1>2, LockedOver
<1>5. /\ v[k] = w[k] + d
      /\ \A j \in K : j # k => v[j] = w[j]
  BY DEF Locked
<1>6. \A j \in S : j \in K /\ j[1] = p
  BY DEF Keys
<1>7. p = k[1] => k \in S
  BY DEF Keys
<1>8. k \in K
  OBVIOUS
<1> HIDE DEF K, S, w, v
<1>9. Sum(w, S) \in Int
  BY <1>3, <1>6, SumInt
<1>10. CASE p = k[1]
  <2>1. Sum(v, S) = Sum(w, S) - w[k] + v[k]
    <3>1. k \in S /\ v[k] \in Int
      BY <1>4, <1>7, <1>8, <1>10
    <3>2. \A j \in S : w[j] \in Int
      BY <1>3, <1>6
    <3>3. \A j \in S \ {k} : v[j] = w[j]
      BY <1>5, <1>6
    <3> QED BY <1>3, <3>1, <3>2, <3>3, SumUpdate
  <2>2. w[k] \in Int /\ v[k] = w[k] + d
    BY <1>3, <1>5, <1>8
  <2> QED BY <1>3, <1>4, <1>9, <1>10, <2>1, <2>2
<1>11. CASE p # k[1]
  <2>1. \A j \in S : w[j] = v[j]
    BY <1>5, <1>6, <1>11
  <2>2. Sum(w, S) = Sum(v, S)
    BY <1>3, <2>1, SumSame
  <2> QED BY <1>3, <1>4, <1>9, <1>11, <2>2
<1> QED BY <1>10, <1>11

\* A row of one plan added or changed, its asset kept, adds what it adds to its total.
LEMMA TotalChanges ==
    ASSUME NEW t, NEW s, NEW p, IsFiniteSet(DOMAIN t),
           NEW d \in Int,
           DOMAIN s = DOMAIN t \cup {p},
           \A q \in DOMAIN t : t[q].total_locked \in Int,
           s[p].total_locked \in Int,
           \A q \in DOMAIN t : q # p => s[q] = t[q],
           p \in DOMAIN t => s[p].asset_symbol = t[p].asset_symbol,
           s[p].total_locked = (IF p \in DOMAIN t THEN t[p].total_locked ELSE 0) + d
    PROVE  \A a : TotalOf(s, a) = TotalOf(t, a) + (IF a = s[p].asset_symbol THEN d ELSE 0)
<1> TAKE a
<1> DEFINE K == DOMAIN t \cup {p}
           w == Total(t, a, K)
           v == Total(s, a, K)
           e == IF a = s[p].asset_symbol THEN d ELSE 0
<1>1. IsFiniteSet(K) /\ DOMAIN t \subseteq K /\ DOMAIN s \subseteq K /\ p \in K
  BY FS_AddElement
<1>2. \A q \in DOMAIN s : s[q].total_locked \in Int
  OBVIOUS
<1>3. TotalOf(t, a) = Sum(w, K) /\ \A q \in K : w[q] \in Int
  <2> HIDE DEF K
  <2> QED BY <1>1, TotalOver
<1>4. TotalOf(s, a) = Sum(v, K) /\ \A q \in K : v[q] \in Int
  <2> HIDE DEF K
  <2> QED BY <1>1, <1>2, TotalOver
<1>5. v[p] = w[p] + e
  BY DEF Total
<1>6. \A q \in K \ {p} : v[q] = w[q]
  BY DEF Total
<1> HIDE DEF K, w, v, e
<1>7. Sum(v, K) = Sum(w, K) - w[p] + v[p]
  BY <1>1, <1>3, <1>4, <1>6, SumUpdate
<1>8. Sum(w, K) \in Int /\ w[p] \in Int
  BY <1>1, <1>3, SumInt
<1>9. e \in Int
  BY DEF e
<1>10. TotalOf(s, a) = TotalOf(t, a) + e
  BY <1>3, <1>4, <1>5, <1>7, <1>8, <1>9
<1> QED BY <1>10 DEF e

\* What leaves a lock for a new one of the same plan stays under the plan.
LEMMA LockedMoves ==
    ASSUME NEW t, NEW s, NEW k \in DOMAIN t, NEW n, IsFiniteSet(DOMAIN t),
           n \notin DOMAIN t, n[1] = k[1],
           n \in DOMAIN s, DOMAIN s \subseteq DOMAIN t \cup {n}, DOMAIN t \ {k} \subseteq DOMAIN s,
           \A j \in DOMAIN t : t[j].locked \in Int,
           \A j \in DOMAIN s : s[j].locked \in Int,
           \A j \in DOMAIN t : j # k => s[j] = t[j],
           s[n].locked + (IF k \in DOMAIN s THEN s[k].locked ELSE 0) = t[k].locked
    PROVE  \A p : LockedOf(s, p) = LockedOf(t, p)
<1> TAKE p
<1> DEFINE K == DOMAIN t \cup {n}
           S == Keys(K, p)
           w == Locked(t, K)
           v == Locked(s, K)
<1>1. IsFiniteSet(K) /\ DOMAIN t \subseteq K /\ DOMAIN s \subseteq K
  BY FS_AddElement
<1>2. LockedOf(t, p) = Sum(w, S) /\ IsFiniteSet(S) /\ \A j \in K : w[j] \in Int
  <2> HIDE DEF K
  <2> QED BY <1>1, LockedOver
<1>3. LockedOf(s, p) = Sum(v, S) /\ \A j \in K : v[j] \in Int
  <2> HIDE DEF K
  <2> QED BY <1>1, LockedOver
<1>4. v[k] + v[n] = w[k] + w[n]
  <2>1. v[n] = s[n].locked /\ v[k] = (IF k \in DOMAIN s THEN s[k].locked ELSE 0)
    BY DEF Locked
  <2>2. w[n] = 0 /\ w[k] = t[k].locked
    BY DEF Locked
  <2>3. v[n] \in Int /\ v[k] \in Int /\ w[k] \in Int
    BY <1>2, <1>3
  <2> HIDE DEF v, w, K
  <2> QED BY <2>1, <2>2, <2>3
<1>5. \A j \in K : j # k /\ j # n => v[j] = w[j]
  BY DEF Locked
<1>6. \A j \in S : j \in K
  BY DEF Keys
<1>7. p = k[1] => k \in S /\ n \in S
  BY DEF Keys
<1>8. p # k[1] => k \notin S /\ n \notin S
  BY DEF Keys
<1>9. k # n
  OBVIOUS
<1> HIDE DEF K, S, w, v
<1>10. /\ \A j \in S : w[j] \in Int
       /\ \A j \in S : v[j] \in Int
       /\ \A j \in S \ {k, n} : v[j] = w[j]
  BY <1>2, <1>3, <1>5, <1>6
<1>11. CASE p = k[1]
  <2>1. Sum(v, S) = Sum(w, S)
    BY <1>2, <1>4, <1>7, <1>9, <1>10, <1>11, SumMove
  <2> QED BY <1>2, <1>3, <2>1
<1>12. CASE p # k[1]
  <2>1. \A j \in S : w[j] = v[j]
    BY <1>8, <1>10, <1>12
  <2>2. Sum(w, S) = Sum(v, S)
    BY <1>2, <2>1, SumSame
  <2> QED BY <1>2, <1>3, <2>2
<1> QED BY <1>11, <1>12

\* The locks of u, all of plan p, close with what u says.
Closes(t, s, p, u) ==
    /\ IsFiniteSet(DOMAIN t) /\ DOMAIN s = DOMAIN t /\ DOMAIN u \subseteq DOMAIN t
    /\ \A k \in DOMAIN u : k[1] = p /\ u[k] = t[k].locked /\ s[k].locked = 0
    /\ \A j \in DOMAIN t : t[j].locked \in Int
    /\ \A j \in DOMAIN t \ DOMAIN u : s[j] = t[j]

\* Locks of a plan that close take what they had out of it.
LEMMA LockedCloses ==
    ASSUME NEW t, NEW s, NEW p, NEW u, Closes(t, s, p, u)
    PROVE  /\ SumFunction(u) \in Int
           /\ LockedOf(s, p) = LockedOf(t, p) - SumFunction(u)
           /\ \A q : q = p \/ LockedOf(s, q) = LockedOf(t, q)
<1> USE DEF Closes
<1> DEFINE K == DOMAIN t
           M == DOMAIN u
           w == Locked(t, K)
           v == Locked(s, K)
<1>1. /\ \A j \in K : w[j] = t[j].locked
      /\ \A j \in K : v[j] = s[j].locked
  BY DEF Locked
<1>2. \A j \in DOMAIN s : s[j].locked \in Int
  OBVIOUS
<1>3. \A q : LockedOf(t, q) = Sum(w, Keys(K, q)) /\ IsFiniteSet(Keys(K, q))
  BY LockedOver
<1>4. \A q : LockedOf(s, q) = Sum(v, Keys(K, q))
  BY <1>2, LockedOver
<1>5. \A q : \A j \in Keys(K, q) : j \in K /\ j[1] = q
  BY DEF Keys
<1>6. M \in SUBSET Keys(K, p) /\ IsFiniteSet(M)
  BY FS_Subset DEF Keys
<1>7. \A k \in M : u[k] = w[k]
  BY <1>1
<1>8. \A j \in K : w[j] \in Int /\ v[j] \in Int
  BY <1>1, <1>2
<1>9. \A j \in K \ M : v[j] = w[j]
  BY <1>1
<1>10. \A j \in M : v[j] = 0
  BY <1>1
<1> HIDE DEF K, w, v, M
<1>11. SumFunction(u) = Sum(w, M)
  <2>1. SumFunction(u) = Sum(u, M)
    BY SumFunctionIsSum DEF M
  <2> QED BY <1>6, <1>7, <2>1, SumSame
<1> DEFINE S == Keys(K, p)
<1>12. IsFiniteSet(S) /\ M \in SUBSET S /\ IsFiniteSet(S \ M)
       /\ \A j \in S : j \in K
  BY <1>3, <1>5, <1>6, FS_Subset
<1>13. LockedOf(t, p) = Sum(w, S) /\ LockedOf(s, p) = Sum(v, S)
  BY <1>3, <1>4
<1> HIDE DEF S
<1>14. (\A j \in S : w[j] \in Int) /\ (\A j \in S : v[j] \in Int)
  BY <1>8, <1>12
<1>15. Sum(w, S) = Sum(w, M) + Sum(w, S \ M)
  BY <1>12, <1>14, SumSplit
<1>16. Sum(v, S) = Sum(v, M) + Sum(v, S \ M)
  BY <1>12, <1>14, SumSplit
<1>17. Sum(v, M) = 0
  BY <1>6, <1>10, SumZero
<1>18. Sum(v, S \ M) = Sum(w, S \ M)
  <2>1. \A j \in S \ M : v[j] = w[j]
    BY <1>9, <1>12
  <2> QED BY <1>12, <2>1, SumSame
<1>19. Sum(w, M) \in Int /\ Sum(w, S \ M) \in Int
  <2>1. S \ M \in SUBSET S
    OBVIOUS
  <2> QED BY <1>12, <1>14, <2>1, SumInt
<1>20. LockedOf(s, p) = LockedOf(t, p) - SumFunction(u) /\ SumFunction(u) \in Int
  BY <1>11, <1>13, <1>15, <1>16, <1>17, <1>18, <1>19
<1>21. ASSUME NEW q, q # p PROVE LockedOf(s, q) = LockedOf(t, q)
  <2> DEFINE R == Keys(K, q)
  <2>1. IsFiniteSet(R) /\ \A j \in R : j \in K /\ j[1] = q
    BY <1>3, <1>5
  <2>2. \A j \in R : j \notin M
    BY <2>1, <1>21 DEF M
  <2>3. LockedOf(t, q) = Sum(w, R) /\ LockedOf(s, q) = Sum(v, R)
    BY <1>3, <1>4
  <2> HIDE DEF R
  <2>4. \A j \in R : v[j] = w[j]
    BY <1>9, <2>1, <2>2
  <2>5. Sum(v, R) = Sum(w, R)
    BY <2>1, <2>4, SumSame
  <2> QED BY <2>3, <2>5
<1> QED BY <1>20, <1>21

------------------------------------------------------------------------------
(* The contract's books *)

BooksInv ==
    /\ IsFiniteSet(DOMAIN plans) /\ IsFiniteSet(DOMAIN locks)
    /\ PlanTotalsMatchLocks /\ CustodyHolds /\ MidsPassThrough

\* The two sums of a state are those of its tables.
LEMMA BooksAreSums ==
    /\ PlanTotalsMatchLocks <=> \A p \in DOMAIN plans : plans[p].total_locked = LockedOf(locks, p)
    /\ CustodyHolds <=> \A a \in Assets : pass[Custody][a] = stray[a] + TotalOf(plans, a)
BY DEF PlanTotalsMatchLocks, CustodyHolds, LockedIn, LocksOf, PlansOf, LockedOf, TotalOf

\* What a transfer does to the contract's own passes.
LEMMA PassMovesCustody ==
    ASSUME pass \in [Accounts -> [Assets -> Nat]],
           NEW a \in Assets, NEW from \in Accounts, NEW p, PassMoves(a, from, p)
    PROVE  /\ p[Custody] \in Nat /\ SumFunction(p) \in Nat
           /\ pass'[Custody][a] =
                  pass[Custody][a] + p[Custody] - (IF Custody = from THEN SumFunction(p) ELSE 0)
           /\ \A b \in Assets : b # a => pass'[Custody][b] = pass[Custody][b]
<1>1. Custody \in Accounts
  BY DEF Accounts
<1> DEFINE out == SumFunction(p)
           new(x) == pass[x][a] + p[x] - (IF x = from THEN out ELSE 0)
<1>2. /\ p \in [Accounts -> Nat] /\ out \in 0 .. pass[from][a]
      /\ pass' = [x \in Accounts |-> [pass[x] EXCEPT ![a] = new(x)]]
  BY DEF PassMoves
<1>3. pass[from][a] \in Nat
  OBVIOUS
<1> HIDE DEF out
<1>4. out \in Nat
  BY <1>2, <1>3
<1>5. pass'[Custody] = [pass[Custody] EXCEPT ![a] = new(Custody)]
  <2> HIDE DEF new
  <2> QED BY <1>1, <1>2
<1>6. new(Custody) = pass[Custody][a] + p[Custody] - (IF Custody = from THEN out ELSE 0)
  OBVIOUS
<1> HIDE DEF new
<1>7. /\ pass'[Custody][a] = new(Custody)
      /\ \A b \in Assets : b # a => pass'[Custody][b] = pass[Custody][b]
  BY <1>1, <1>5
<1>8. p[Custody] \in Nat
  BY <1>1, <1>2
<1> QED BY <1>4, <1>6, <1>7, <1>8 DEF out

\* The same of the next state.
LEMMA BooksAreSumsNext ==
    /\ PlanTotalsMatchLocks' <=>
           \A p \in DOMAIN plans' : plans'[p].total_locked = LockedOf(locks', p)
    /\ CustodyHolds' <=> \A a \in Assets : pass'[Custody][a] = stray'[a] + TotalOf(plans', a)
BY DEF PlanTotalsMatchLocks, CustodyHolds, LockedIn, LocksOf, PlansOf, LockedOf, TotalOf

\* The types the sums rest on.
LEMMA BookTypes ==
    ASSUME IInv
    PROVE  /\ \A q \in DOMAIN plans : plans[q].total_locked \in Int /\ plans[q].asset_symbol \in Assets
           /\ \A j \in DOMAIN locks : locks[j].locked \in Int
           /\ \A a \in Assets : pass[Custody][a] \in Int /\ stray[a] \in Int
<1>1. Custody \in Accounts
  BY DEF Accounts
<1> QED BY <1>1 DEF IInv, TypeOK, GlobalsOK, BalancesOK, TablesOK, IsTable, PlanRow, LockRow

\* A step that adds the same to what is locked under one plan, to its total and to
\* what the contract has beyond stray passes keeps the books.
LEMMA BooksMove ==
    ASSUME IInv, IInv', BooksInv, NEW p \in DOMAIN plans, NEW d \in Int,
           DOMAIN plans' = DOMAIN plans,
           \A q \in DOMAIN plans : q # p => plans'[q] = plans[q],
           plans'[p].asset_symbol = plans[p].asset_symbol,
           plans'[p].total_locked = plans[p].total_locked + d,
           IsFiniteSet(DOMAIN locks'),
           \A q \in DOMAIN plans : LockedOf(locks', q) = LockedOf(locks, q) + (IF q = p THEN d ELSE 0),
           \A a \in Assets : pass'[Custody][a] - stray'[a]
               = pass[Custody][a] - stray[a] + (IF a = plans[p].asset_symbol THEN d ELSE 0),
           \A m \in Mids : mid'[Custody][m] = mid[Custody][m]
    PROVE  BooksInv'
<1>1. \A q \in DOMAIN plans : plans[q].total_locked \in Int /\ plans'[q].total_locked \in Int
  BY BookTypes DEF IInv, TypeOK, TablesOK, IsTable, PlanRow
<1>2. \A q \in DOMAIN plans : plans[q].total_locked = LockedOf(locks, q)
  BY BooksAreSums DEF BooksInv
<1>3. \A a \in Assets : pass[Custody][a] = stray[a] + TotalOf(plans, a)
  BY BooksAreSums DEF BooksInv
<1>4. PlanTotalsMatchLocks'
  <2> SUFFICES ASSUME NEW q \in DOMAIN plans
               PROVE  plans'[q].total_locked = LockedOf(locks', q)
    BY BooksAreSumsNext
  <2>1. CASE q = p
    BY <1>1, <1>2, <2>1
  <2>2. CASE q # p
    BY <1>1, <1>2, <2>2
  <2> QED BY <2>1, <2>2
<1>5. \A a : TotalOf(plans', a) = TotalOf(plans, a) + (IF a = plans'[p].asset_symbol THEN d ELSE 0)
  <2> DEFINE s == plans'
  <2>1. /\ IsFiniteSet(DOMAIN plans) /\ DOMAIN s = DOMAIN plans \cup {p}
        /\ \A q \in DOMAIN plans : plans[q].total_locked \in Int
        /\ s[p].total_locked \in Int
        /\ \A q \in DOMAIN plans : q # p => s[q] = plans[q]
        /\ p \in DOMAIN plans => s[p].asset_symbol = plans[p].asset_symbol
        /\ s[p].total_locked = (IF p \in DOMAIN plans THEN plans[p].total_locked ELSE 0) + d
    BY <1>1 DEF BooksInv
  <2> HIDE DEF s
  <2>2. \A a : TotalOf(s, a) = TotalOf(plans, a) + (IF a = s[p].asset_symbol THEN d ELSE 0)
    BY <2>1, TotalChanges
  <2> QED BY <2>2 DEF s
<1>6. CustodyHolds'
  <2> SUFFICES ASSUME NEW a \in Assets
               PROVE  pass'[Custody][a] = stray'[a] + TotalOf(plans', a)
    BY BooksAreSumsNext
  <2> DEFINE e == IF a = plans[p].asset_symbol THEN d ELSE 0
             P == pass[Custody][a]
             Q == pass'[Custody][a]
             S == stray[a]
             T == stray'[a]
             X == TotalOf(plans, a)
             Y == TotalOf(plans', a)
  <2>1. P \in Int /\ S \in Int
    BY BookTypes
  <2>2. Q \in Int /\ T \in Int
    <3>1. Custody \in Accounts
      BY DEF Accounts
    <3> QED BY <3>1 DEF IInv, TypeOK, GlobalsOK, BalancesOK
  <2>3. P = S + X /\ Y = X + e /\ Q - T = P - S + e
    BY <1>3, <1>5
  <2>4. X \in Int
    <3>1. TotalOf(plans, a) = Sum(Total(plans, a, DOMAIN plans), DOMAIN plans)
          /\ \A q \in DOMAIN plans : Total(plans, a, DOMAIN plans)[q] \in Int
      BY <1>1, TotalOver DEF BooksInv
    <3> QED BY <3>1, SumInt DEF BooksInv
  <2>5. e \in Int
    OBVIOUS
  <2> HIDE DEF e, P, Q, S, T, X, Y
  <2>6. Q = T + Y
    BY <2>1, <2>2, <2>3, <2>4, <2>5
  <2> QED BY <2>6 DEF Q, T, Y
<1>7. MidsPassThrough'
  BY DEF BooksInv, MidsPassThrough
<1> QED BY <1>4, <1>6, <1>7 DEF BooksInv

\* Steps that leave plans, locks and balances alone leave the books.
LEMMA BooksSame ==
    ASSUME BooksInv, UNCHANGED <<plans, locks, pass, mid, stray>>
    PROVE  BooksInv'
BY DEF BooksInv, PlanTotalsMatchLocks, CustodyHolds, MidsPassThrough, LockedIn, LocksOf, PlansOf

\* A new plan has no locks.
LEMMA AddPlanKeepsBooks ==
    ASSUME IInv, BooksInv, NEW u \in Lockers, NEW a \in Assets, NEW i \in Intervals,
           NEW t \in Times, addplan(u, a, i, t)
    PROVE  BooksInv'
<1> DEFINE id == gstate.last_plan_id
           s == plans'
<1>1. /\ UNCHANGED <<locks, pass, mid, stray>>
      /\ DOMAIN s = DOMAIN plans \cup {id}
      /\ s[id].total_locked = 0 /\ s[id].asset_symbol = a
      /\ \A q \in DOMAIN plans : q # id => s[q] = plans[q]
  BY DEF addplan, Emplace
<1>2. id \notin DOMAIN plans /\ \A k \in DOMAIN locks : k[1] # id
  <2>1. \A q \in DOMAIN plans : q \in 0 .. id - 1
    BY DEF IInv, TypeOK, TablesOK, IsTable
  <2>2. \A k \in DOMAIN locks : k[1] \in DOMAIN plans
    BY DEF IInv, TypeOK, TablesOK, IsTable
  <2>3. id \in Int
    BY DEF IInv, TypeOK, GlobalsOK
  <2> QED BY <2>1, <2>2, <2>3
<1>3. LockedOf(locks, id) = 0
  <2>1. {j \in DOMAIN locks : j[1] = id} = {}
    BY <1>2
  <2> DEFINE w == [k \in {} |-> locks[k].locked]
  <2>2. LockedOf(locks, id) = SumFunction(w)
    BY <2>1 DEF LockedOf
  <2>3. DOMAIN w = {}
    OBVIOUS
  <2> HIDE DEF w
  <2> QED BY <2>2, <2>3, SumFunctionIsSum, SumEmpty
<1>4. IsFiniteSet(DOMAIN s)
  BY <1>1, FS_AddElement DEF BooksInv
<1>5. \A q \in DOMAIN plans : plans[q].total_locked \in Int
  BY BookTypes
<1> HIDE DEF s, id
<1>6. \A b : TotalOf(s, b) = TotalOf(plans, b) + (IF b = s[id].asset_symbol THEN 0 ELSE 0)
  <2>1. /\ s[id].total_locked = (IF id \in DOMAIN plans THEN plans[id].total_locked ELSE 0) + 0
        /\ s[id].total_locked \in Int /\ IsFiniteSet(DOMAIN plans)
        /\ id \in DOMAIN plans => s[id].asset_symbol = plans[id].asset_symbol
    BY <1>1, <1>2 DEF BooksInv
  <2> QED BY <1>1, <1>5, <2>1, TotalChanges
<1>7. \A b \in Assets : TotalOf(plans, b) \in Int
  <2> TAKE b \in Assets
  <2>1. TotalOf(plans, b) = Sum(Total(plans, b, DOMAIN plans), DOMAIN plans)
        /\ \A q \in DOMAIN plans : Total(plans, b, DOMAIN plans)[q] \in Int
    BY <1>5, TotalOver DEF BooksInv
  <2> QED BY <2>1, SumInt DEF BooksInv
<1>8. PlanTotalsMatchLocks'
  <2>1. \A q \in DOMAIN plans : plans[q].total_locked = LockedOf(locks, q)
    BY BooksAreSums DEF BooksInv
  <2>2. \A q \in DOMAIN s : s[q].total_locked = LockedOf(locks, q)
    BY <1>1, <1>3, <2>1
  <2> QED BY <1>1, <2>2, BooksAreSumsNext DEF s
<1>9. CustodyHolds'
  <2>1. \A b \in Assets : pass[Custody][b] = stray[b] + TotalOf(plans, b)
    BY BooksAreSums DEF BooksInv
  <2>2. \A b \in Assets : pass[Custody][b] = stray[b] + TotalOf(s, b)
    BY <1>6, <1>7, <2>1
  <2> QED BY <1>1, <2>2, BooksAreSumsNext DEF s
<1>10. MidsPassThrough'
  BY <1>1 DEF BooksInv, MidsPassThrough
<1> QED BY <1>1, <1>4, <1>8, <1>9, <1>10 DEF BooksInv, s

\* The other plan operations keep every total.
LEMMA PlanKeepsBooks == IInv /\ IInv' /\ BooksInv /\ Plan => BooksInv'
<1> SUFFICES ASSUME IInv, IInv', BooksInv, Plan PROVE BooksInv'
  OBVIOUS
<1>1. \A q \in DOMAIN plans : LockedOf(locks, q) \in Int
  BY BooksAreSums, BookTypes DEF BooksInv
<1>2. ASSUME NEW p \in DOMAIN plans, NEW row, plans' = [plans EXCEPT ![p] = row],
             row.total_locked = plans[p].total_locked,
             row.asset_symbol = plans[p].asset_symbol,
             UNCHANGED <<config, locks, pass, mid, now, stray>>
      PROVE  BooksInv'
  <2>1. /\ DOMAIN plans' = DOMAIN plans
        /\ \A q \in DOMAIN plans : q # p => plans'[q] = plans[q]
        /\ plans'[p].asset_symbol = plans[p].asset_symbol
        /\ plans'[p].total_locked = plans[p].total_locked + 0
        /\ IsFiniteSet(DOMAIN locks')
    BY <1>2, BookTypes DEF BooksInv
  <2>2. \A q \in DOMAIN plans : LockedOf(locks', q) = LockedOf(locks, q) + (IF q = p THEN 0 ELSE 0)
    BY <1>1, <1>2
  <2>3. \A a \in Assets : pass'[Custody][a] - stray'[a]
            = pass[Custody][a] - stray[a] + (IF a = plans[p].asset_symbol THEN 0 ELSE 0)
    BY <1>2, BookTypes
  <2>4. \A m \in Mids : mid'[Custody][m] = mid[Custody][m]
    BY <1>2
  <2> QED BY <2>1, <2>2, <2>3, <2>4, BooksMove
<1>3. ASSUME NEW p \in PlanIds, NEW u \in Lockers, setplanowner(p, u) PROVE BooksInv'
  <2> DEFINE row == [plans[p] EXCEPT !.owner = u]
  <2>1. /\ p \in DOMAIN plans /\ plans' = [plans EXCEPT ![p] = row]
        /\ UNCHANGED <<config, locks, pass, mid, now, stray>>
    BY <1>3 DEF setplanowner
  <2>2. row.total_locked = plans[p].total_locked /\ row.asset_symbol = plans[p].asset_symbol
    BY <2>1 DEF IInv, TypeOK, TablesOK, IsTable, PlanRow
  <2> HIDE DEF row
  <2> QED BY <1>2, <2>1, <2>2
<1>4. ASSUME NEW u \in Lockers, NEW f \in FeeAmounts, NEW m \in PlanIds, ontokentrans(u, f, m)
      PROVE  BooksInv'
  <2> DEFINE p == FeePlan(u, m)
             row == [plans[p] EXCEPT !.status = "enabled"]
  <2>1. /\ p \in DOMAIN plans /\ plans' = [plans EXCEPT ![p] = row]
        /\ UNCHANGED <<config, locks, pass, mid, now, stray>>
    BY <1>4 DEF ontokentrans
  <2>2. row.total_locked = plans[p].total_locked /\ row.asset_symbol = plans[p].asset_symbol
    BY <2>1 DEF IInv, TypeOK, TablesOK, IsTable, PlanRow
  <2> HIDE DEF row, p
  <2> QED BY <1>2, <2>1, <2>2
<1>5. ASSUME NEW p \in PlanIds, NEW m \in Mids, NEW w \in Windows, setmovwindow(p, m, w[1], w[2])
      PROVE  BooksInv'
  BY <1>5, BooksSame DEF setmovwindow
<1> QED BY <1>3, <1>4, <1>5, AddPlanKeepsBooks DEF Plan

\* Every row of a book in its place: what a step on plan p leaves of the plans.
PlansMove(p, d) ==
    /\ DOMAIN plans' = DOMAIN plans
    /\ \A q \in DOMAIN plans : q # p => plans'[q] = plans[q]
    /\ plans'[p].asset_symbol = plans[p].asset_symbol
    /\ plans'[p].total_locked = plans[p].total_locked + d

\* A new lock adds its passes to its plan and to the contract.
LEMMA LockForKeepsBooks ==
    ASSUME IInv, IInv', BooksInv, NEW u \in Users, NEW a \in Assets, NEW n \in Nat,
           NEW r, NEW p, NEW c, LockFor(u, a, n, r, p, c),
           \A m \in Mids : mid'[Custody][m] = mid[Custody][m]
    PROVE  BooksInv'
<1> DEFINE id == plans[p].last_lock_id + 1
           k  == <<p, id>>
           s  == locks'
           pays == PayOne(Accounts, Custody, n)
<1>1. /\ p \in DOMAIN plans /\ a = plans[p].asset_symbol
      /\ PassMoves(a, u, pays)
      /\ DOMAIN s = DOMAIN locks \cup {k} /\ s[k].locked = n
      /\ \A j \in DOMAIN locks : j # k => s[j] = locks[j]
      /\ UNCHANGED <<config, now, stray>>
  BY DEF LockFor, PlanTakes, NewLockId, Emplace
<1>2. n \in Int /\ n \in Nat /\ u \in Accounts /\ u # Custody /\ Custody \in Accounts
  BY CustodyInputs, CustodyAccounts DEF Accounts
<1>3. PlansMove(p, n)
  <2>1. plans[p] \in PlanRow
    BY <1>1 DEF IInv, TypeOK, TablesOK, IsTable
  <2> QED BY <1>1, <2>1 DEF LockFor, PlansMove, PlanRow
<1>4. k \notin DOMAIN locks /\ k[1] = p
  <2>1. \A j \in DOMAIN locks : /\ plans[j[1]].last_lock_id \in Nat /\ j[2] \in Nat
                                /\ j[2] <= plans[j[1]].last_lock_id
    BY DEF IInv, TypeOK, TablesOK, IsTable, PlanRow
  <2>2. k[1] = p /\ k[2] = id
    OBVIOUS
  <2> SUFFICES ASSUME k \in DOMAIN locks PROVE FALSE
    BY <2>2
  <2> HIDE DEF k
  <2> QED BY <2>1, <2>2
<1> HIDE DEF k, s
<1>5. \A q : LockedOf(s, q) = LockedOf(locks, q) + (IF q = k[1] THEN n ELSE 0)
  <2>1. /\ \A j \in DOMAIN locks : locks[j].locked \in Int
        /\ IsFiniteSet(DOMAIN locks)
        /\ s[k].locked = (IF k \in DOMAIN locks THEN locks[k].locked ELSE 0) + n
        /\ s[k].locked \in Int
        /\ DOMAIN s = DOMAIN locks \cup {k}
        /\ \A j \in DOMAIN locks : j # k => s[j] = locks[j]
    BY <1>1, <1>2, <1>4, BookTypes DEF BooksInv
  <2>2. n \in Int
    BY <1>2
  <2> HIDE DEF pays, id
  <2> QED BY <2>1, <2>2, LockedChanges
<1>6. \A b \in Assets : pass'[Custody][b] - stray'[b]
          = pass[Custody][b] - stray[b] + (IF b = plans[p].asset_symbol THEN n ELSE 0)
  <2>1. pays[Custody] = n
    BY <1>2 DEF PayOne
  <2> HIDE DEF pays
  <2>2. /\ pass'[Custody][a] = pass[Custody][a] + pays[Custody]
               - (IF Custody = u THEN SumFunction(pays) ELSE 0)
        /\ \A b \in Assets : b # a => pass'[Custody][b] = pass[Custody][b]
    <3>1. pass \in [Accounts -> [Assets -> Nat]]
      BY DEF IInv, TypeOK, BalancesOK
    <3> QED BY <1>1, <1>2, <3>1, PassMovesCustody
  <2>3. pass'[Custody][a] = pass[Custody][a] + n
    BY <1>2, <2>1, <2>2, BookTypes
  <2>4. \A b \in Assets : stray[b] \in Int /\ stray'[b] = stray[b] /\ pass[Custody][b] \in Int
    BY <1>1, BookTypes
  <2> QED BY <1>1, <1>2, <2>2, <2>3, <2>4
<1>7. IsFiniteSet(DOMAIN s)
  BY <1>1, FS_AddElement DEF BooksInv
<1>8. \A m \in Mids : mid'[Custody][m] = mid[Custody][m]
  OBVIOUS
<1>9. n \in Int /\ p \in DOMAIN plans /\ IsFiniteSet(DOMAIN locks')
      /\ \A q \in DOMAIN plans : LockedOf(locks', q) = LockedOf(locks, q) + (IF q = p THEN n ELSE 0)
  BY <1>1, <1>2, <1>4, <1>5, <1>7 DEF s
<1> HIDE DEF pays, id
<1> QED BY <1>3, <1>6, <1>8, <1>9, BooksMove DEF PlansMove

\* A lock by a user.
LEMMA LockKeepsBooks ==
    ASSUME IInv, IInv', BooksInv, NEW u \in Lockers, NEW a \in Assets, NEW n \in LockAmounts,
           NEW r \in Receivers, NEW p \in PlanIds, NEW c \in FirstDays,
           onnfttrans(u, a, n, r, p, c)
    PROVE  BooksInv'
<1>1. u \in Users /\ n \in Nat
  BY CustodyInputs
<1>2. LockFor(u, a, n, r, p, c) /\ \A m \in Mids : mid'[Custody][m] = mid[Custody][m]
  BY DEF onnfttrans
<1> QED BY <1>1, <1>2, LockForKeepsBooks

\* Stray passes are the contract's and no plan's.
LEMMA StrayKeepsBooks ==
    ASSUME IInv, IInv', BooksInv, NEW u \in Lockers, NEW a \in Assets, NEW n \in StrayAmounts,
           onnfttrans_ignored(u, a, n)
    PROVE  BooksInv'
<1> DEFINE pays == PayOne(Accounts, Custody, n)
<1>1. /\ PassMoves(a, u, pays) /\ stray' = [stray EXCEPT ![a] = stray[a] + n]
      /\ UNCHANGED <<config, plans, locks, mid, now>>
  BY DEF onnfttrans_ignored
<1>2. n \in Nat /\ u \in Accounts /\ u # Custody /\ Custody \in Accounts
  BY CustodyInputs, CustodyAccounts DEF Accounts
<1>3. pays[Custody] = n
  BY <1>2 DEF PayOne
<1> HIDE DEF pays
<1>4. /\ pass'[Custody][a] = pass[Custody][a] + pays[Custody]
             - (IF Custody = u THEN SumFunction(pays) ELSE 0)
      /\ \A b \in Assets : b # a => pass'[Custody][b] = pass[Custody][b]
  <2>1. pass \in [Accounts -> [Assets -> Nat]]
    BY DEF IInv, TypeOK, BalancesOK
  <2> QED BY <1>1, <1>2, <2>1, PassMovesCustody
<1>5. pass'[Custody][a] = pass[Custody][a] + n
  BY <1>2, <1>3, <1>4, BookTypes
<1>6. \A b \in Assets : pass[Custody][b] = stray[b] + TotalOf(plans, b)
  BY BooksAreSums DEF BooksInv
<1>7. \A b \in Assets : stray[b] \in Int /\ pass[Custody][b] \in Int /\ TotalOf(plans, b) \in Int
  <2> TAKE b \in Assets
  <2>1. TotalOf(plans, b) = Sum(Total(plans, b, DOMAIN plans), DOMAIN plans)
        /\ \A q \in DOMAIN plans : Total(plans, b, DOMAIN plans)[q] \in Int
    BY BookTypes, TotalOver DEF BooksInv
  <2>2. TotalOf(plans, b) \in Int
    BY <2>1, SumInt DEF BooksInv
  <2> QED BY <2>2, BookTypes
<1>8. /\ stray'[a] = stray[a] + n
      /\ \A b \in Assets : b # a => stray'[b] = stray[b]
  BY <1>1 DEF IInv, TypeOK, GlobalsOK
<1>9. \A b \in Assets : pass'[Custody][b] = stray'[b] + TotalOf(plans, b)
  BY <1>2, <1>4, <1>5, <1>6, <1>7, <1>8
<1>10. CustodyHolds'
  BY <1>1, <1>9, BooksAreSumsNext
<1>11. PlanTotalsMatchLocks'
  BY <1>1 DEF BooksInv, PlanTotalsMatchLocks, LockedIn, LocksOf
<1> QED BY <1>1, <1>10, <1>11 DEF BooksInv, MidsPassThrough

\* A batch of releases from the contract takes out of it what it pays.
LEMMA PaysOut ==
    ASSUME NEW x \in Accounts, NEW y \in Accounts, NEW n \in Nat, NEW m \in Nat,
           x # Custody, y # Custody
    PROVE  LET pays == PayBoth(PayOne(Accounts, x, n), PayOne(Accounts, y, m))
           IN  pays[Custody] = 0 /\ SumFunction(pays) = n + m
<1> DEFINE f == PayOne(Accounts, x, n)
           g == PayOne(Accounts, y, m)
           pays == PayBoth(f, g)
<1>1. IsFiniteSet(Accounts) /\ Custody \in Accounts
  <2>1. Accounts = (Users \cup {Custody}) \cup {Mine}
    BY DEF Accounts
  <2>2. IsFiniteSet(Users \cup {Custody})
    BY CustodyAccounts, FS_AddElement
  <2> QED BY <2>1, <2>2, FS_AddElement
<1>2. f \in [Accounts -> Int] /\ g \in [Accounts -> Int] /\ f[Custody] = 0 /\ g[Custody] = 0
  BY <1>1 DEF PayOne
<1>3. DOMAIN pays = Accounts /\ pays[Custody] = f[Custody] + g[Custody]
  BY <1>1 DEF PayBoth, PayOne
<1>4. Sum(f, Accounts) = n /\ Sum(g, Accounts) = m
  BY <1>1, PayOneSum
<1> HIDE DEF f, g
<1>5. Sum(pays, Accounts) = Sum(f, Accounts) + Sum(g, Accounts)
  BY <1>1, <1>2, PayBothSum
<1> HIDE DEF pays
<1>6. SumFunction(pays) = Sum(pays, Accounts)
  BY <1>3, SumFunctionIsSum
<1> QED BY <1>2, <1>3, <1>4, <1>5, <1>6 DEF pays, f, g

\* A release takes the same out of the lock, its plan and the contract.
LEMMA ReleaseKeepsBooks ==
    ASSUME IInv, IInv', BooksInv, NEW k, NEW b \in BOOLEAN, _unlock(k, b)
    PROVE  BooksInv'
<1> DEFINE l == locks[k]
           p == k[1]
           r == plans[p]
           t == total_unlocked(l, r)
           f == IF b THEN l.issued - t ELSE 0
           d == 0 - ((t - l.unlocked) + f)
           row == PlanAfter(r, t - l.unlocked, f)
           lock == LockAfter(l, t, l.issued - t - f, b)
           x == l.receiver
           y == l.locker
           n == t - l.unlocked
           pays == PayBoth(PayOne(Accounts, x, n), PayOne(Accounts, y, f))
           a == r.asset_symbol
<1>1. /\ k \in DOMAIN locks /\ p \in DOMAIN plans
      /\ l \in LockRow /\ r \in PlanRow
      /\ l.issued = l.locked + l.unlocked
      /\ t \in l.unlocked .. l.issued /\ t \in Nat /\ f \in Nat /\ t + f <= l.issued
      /\ plans' = [plans EXCEPT ![p] = row]
      /\ locks' = [locks EXCEPT ![k] = lock]
  BY ReleaseEffect
<1>2. UNCHANGED <<config, mid, now, stray>> /\ PassMoves(a, Custody, pays)
  BY DEF _unlock
<1>3. /\ l.unlocked \in Nat /\ l.issued \in Nat \ {0} /\ l.locked \in Nat
      /\ r.total_locked \in Int /\ x \in Users /\ y \in Users /\ a \in Assets
  BY <1>1 DEF LockRow, PlanRow
<1>4. n \in Nat /\ d \in Int /\ d = 0 - (n + f)
  <2> HIDE DEF t, f, l
  <2> QED BY <1>1, <1>3
<1>5. row.total_locked = r.total_locked + d /\ row.asset_symbol = r.asset_symbol
  <2>1. row.total_locked = r.total_locked - ((t - l.unlocked) + f)
        /\ row.asset_symbol = r.asset_symbol
    <3> HIDE DEF t, f, l, r
    <3> QED BY <1>1 DEF PlanAfter, PlanRow
  <2> HIDE DEF t, f, l, r, row
  <2> QED BY <1>1, <1>3, <2>1
<1>6. lock.locked = l.locked + d
  <2>1. lock.locked = l.issued - t - f
    <3> HIDE DEF t, f, l
    <3> QED BY <1>1 DEF LockAfter, LockRow
  <2> HIDE DEF t, f, l, lock
  <2> QED BY <1>1, <1>3, <2>1
<1> HIDE DEF row, lock, d, n, t, f
<1>7. PlansMove(p, d)
  BY <1>1, <1>5 DEF PlansMove
<1>8. /\ DOMAIN locks' = DOMAIN locks \cup {k} /\ locks'[k].locked = locks[k].locked + d
      /\ \A j \in DOMAIN locks : j # k => locks'[j] = locks[j]
      /\ DOMAIN locks' = DOMAIN locks
  BY <1>1, <1>6
<1>9. \A q : LockedOf(locks', q) = LockedOf(locks, q) + (IF q = p THEN d ELSE 0)
  <2> DEFINE s == locks'
  <2>1. /\ \A j \in DOMAIN locks : locks[j].locked \in Int
        /\ IsFiniteSet(DOMAIN locks)
        /\ s[k].locked = (IF k \in DOMAIN locks THEN locks[k].locked ELSE 0) + d
        /\ s[k].locked \in Int
        /\ DOMAIN s = DOMAIN locks \cup {k}
        /\ \A j \in DOMAIN locks : j # k => s[j] = locks[j]
    BY <1>1, <1>3, <1>4, <1>8, BookTypes DEF BooksInv
  <2> HIDE DEF s
  <2>2. \A q : LockedOf(s, q) = LockedOf(locks, q) + (IF q = k[1] THEN d ELSE 0)
    BY <1>4, <2>1, LockedChanges
  <2> QED BY <2>2 DEF s
<1>10. x \in Accounts /\ y \in Accounts /\ x # Custody /\ y # Custody /\ Custody \in Accounts
  <2> HIDE DEF x, y
  <2> QED BY <1>3, CustodyAccounts DEF Accounts
<1>11. pays[Custody] = 0 /\ SumFunction(pays) = n + f
  <2>1. f \in Nat
    BY <1>1
  <2> HIDE DEF x, y
  <2> QED BY <1>4, <1>10, <2>1, PaysOut
<1> HIDE DEF pays, a
<1>12. /\ pass'[Custody][a] = pass[Custody][a] + pays[Custody]
              - (IF Custody = Custody THEN SumFunction(pays) ELSE 0)
       /\ \A c \in Assets : c # a => pass'[Custody][c] = pass[Custody][c]
  <2>1. pass \in [Accounts -> [Assets -> Nat]]
    BY DEF IInv, TypeOK, BalancesOK
  <2> QED BY <1>2, <1>3, <1>10, <2>1, PassMovesCustody
<1>13. pass'[Custody][a] = pass[Custody][a] + d
  <2>1. pass[Custody][a] \in Int /\ f \in Nat
    BY <1>1, <1>3, BookTypes
  <2> QED BY <1>4, <1>11, <1>12, <2>1
<1>14. \A c \in Assets : pass'[Custody][c] - stray'[c]
          = pass[Custody][c] - stray[c] + (IF c = plans[p].asset_symbol THEN d ELSE 0)
  <2>1. \A c \in Assets : stray[c] \in Int /\ stray'[c] = stray[c] /\ pass[Custody][c] \in Int
    BY <1>2, BookTypes
  <2> QED BY <1>4, <1>12, <1>13, <2>1 DEF a
<1>15. IsFiniteSet(DOMAIN locks')
  BY <1>8 DEF BooksInv
<1>16. \A m \in Mids : mid'[Custody][m] = mid[Custody][m]
  BY <1>2
<1>17. d \in Int /\ p \in DOMAIN plans
      /\ \A q \in DOMAIN plans : LockedOf(locks', q) = LockedOf(locks, q) + (IF q = p THEN d ELSE 0)
  BY <1>1, <1>4, <1>9
<1> HIDE DEF p, l, r, x, y
<1> QED BY <1>7, <1>14, <1>15, <1>16, <1>17, BooksMove DEF PlansMove

\* What a move does: a new lock of the same plan and locker gets what leaves lock k.
MovesLock(k, n, s) ==
    /\ n \notin DOMAIN locks /\ n[1] = k[1]
    /\ n \in DOMAIN s /\ DOMAIN s \subseteq DOMAIN locks \cup {n} /\ DOMAIN locks \ {k} \subseteq DOMAIN s
    /\ \A j \in DOMAIN s : s[j].locked \in Int
    /\ \A j \in DOMAIN locks : j # k => s[j] = locks[j]
    /\ s[n].locked + (IF k \in DOMAIN s THEN s[k].locked ELSE 0) = locks[k].locked
    /\ s[n].locker = locks[k].locker
    /\ k \in DOMAIN s => s[k].locker = locks[k].locker

LEMMA MoveEffect ==
    ASSUME IInv, IInv', NEW u \in Users, NEW to \in Receivers, NEW m \in Mids,
           NEW k \in DOMAIN locks, NEW q \in 1 .. mid[u][m], onmidtrans(u, m, q, k, to)
    PROVE  /\ MovesLock(k, <<k[1], plans[k[1]].last_lock_id + 1>>, locks')
           /\ k[1] \in DOMAIN plans /\ PlansMove(k[1], 0)
           /\ plans'[k[1]].total_issued = plans[k[1]].total_issued
           /\ plans'[k[1]].total_refunded = plans[k[1]].total_refunded
           /\ MidsPassOn(m, u, to, q, MinOf(locks[k].locked, q))
           /\ MinOf(locks[k].locked, q) \in Nat
           /\ UNCHANGED <<config, pass, now, stray>>
<1> DEFINE p == k[1]
           l == locks[k]
           r == plans[p]
           id == r.last_lock_id + 1
           moved == MinOf(l.locked, q)
           L == LocksLessMoved(k, q)
           n == <<p, id>>
           lock == [l EXCEPT !.receiver = to, !.issued = moved, !.locked = moved,
                             !.unlocked = 0, !.status = "locked"]
           row == [r EXCEPT !.last_lock_id = id]
           s == locks'
<1>1. /\ l.locked > 0 /\ s = Emplace(L, n, lock)
      /\ plans' = [plans EXCEPT ![p] = row]
      /\ MidsPassOn(m, u, to, q, moved)
      /\ UNCHANGED <<config, pass, now, stray>>
  BY DEF onmidtrans, NewLockId
<1>2. q \in Nat \ {0} /\ u \in Accounts /\ u # Custody /\ to # Custody /\ Custody \in Accounts
  BY CustodyAccounts, CustodyInputs DEF IInv, TypeOK, BalancesOK, Accounts
<1>3. /\ l \in LockRow /\ p \in DOMAIN plans /\ r \in PlanRow
      /\ l.locked \in Nat /\ r.total_locked \in Int
  BY DEF IInv, TypeOK, TablesOK, IsTable, LockRow, PlanRow
<1>4. /\ DOMAIN L \subseteq DOMAIN locks /\ DOMAIN locks \ {k} \subseteq DOMAIN L
      /\ \A j \in DOMAIN L : j # k => L[j] = locks[j]
      /\ (IF k \in DOMAIN L THEN L[k].locked ELSE 0) = l.locked - moved
  <2>1. CASE l.locked <= q
    <3>0. moved = l.locked
      <4> HIDE DEF l
      <4> QED BY <1>2, <1>3, <2>1 DEF MinOf
    <3>1. L = Erase(locks, {k}) /\ moved = l.locked
      BY <2>1, <3>0 DEF LocksLessMoved
    <3>2. l.locked - moved = 0
      BY <1>3, <3>1
    <3>3. DOMAIN L = DOMAIN locks \ {k} /\ \A j \in DOMAIN L : L[j] = locks[j]
      BY <3>1 DEF Erase
    <3> HIDE DEF L, l, moved
    <3> QED BY <3>2, <3>3
  <2>2. CASE ~(l.locked <= q)
    <3>1. moved = q
      <4> HIDE DEF l
      <4> QED BY <1>2, <1>3, <2>2 DEF MinOf
    <3> DEFINE issued == l.issued - q
               locked == l.locked - q
               less == [l EXCEPT !.issued = issued, !.locked = locked]
    <3>2. L = [locks EXCEPT ![k] = less]
      BY <2>2 DEF LocksLessMoved
    <3>3. less.locked = locked
      <4> HIDE DEF l, issued, locked
      <4> QED BY <1>3 DEF LockRow
    <3> HIDE DEF less, L
    <3>4. DOMAIN L = DOMAIN locks /\ L[k] = less /\ \A j \in DOMAIN L : j # k => L[j] = locks[j]
      BY <3>2
    <3>5. locked = l.locked - moved
      BY <3>1
    <3> HIDE DEF l, locked, moved
    <3> QED BY <3>3, <3>4, <3>5
  <2> QED BY <2>1, <2>2
<1>5. lock.locked = moved /\ lock.locker = l.locker
  <2> HIDE DEF l, moved
  <2> QED BY <1>3 DEF LockRow
<1>6. n \notin DOMAIN locks /\ n[1] = k[1]
  <2>1. \A j \in DOMAIN locks : /\ plans[j[1]].last_lock_id \in Nat /\ j[2] \in Nat
                                /\ j[2] <= plans[j[1]].last_lock_id
    BY DEF IInv, TypeOK, TablesOK, IsTable, PlanRow
  <2>2. n[1] = p /\ n[2] = id
    OBVIOUS
  <2> SUFFICES ASSUME n \in DOMAIN locks PROVE FALSE
    BY <2>2
  <2> HIDE DEF n, p
  <2> QED BY <2>1, <2>2
<1>7. moved \in Nat /\ moved <= l.locked /\ moved <= q
  <2> HIDE DEF l
  <2> QED BY <1>2, <1>3 DEF MinOf
<1>8. /\ PlansMove(p, 0)
      /\ plans'[p].total_issued = r.total_issued /\ plans'[p].total_refunded = r.total_refunded
  <2>1. /\ row.total_locked = r.total_locked + 0 /\ row.asset_symbol = r.asset_symbol
        /\ row.total_issued = r.total_issued /\ row.total_refunded = r.total_refunded
    <3> HIDE DEF r, id
    <3> QED BY <1>3 DEF PlanRow
  <2> HIDE DEF row
  <2> QED BY <1>1, <1>3, <2>1 DEF PlansMove
<1> HIDE DEF L, n, lock
<1>9. /\ DOMAIN s = DOMAIN L \cup {n} /\ s[n] = lock
      /\ \A j \in DOMAIN L : j # n => s[j] = L[j]
  <2> HIDE DEF s
  <2> QED BY <1>1 DEF Emplace
<1> HIDE DEF s, p, r, id, row
<1>10. \A j \in DOMAIN s : s[j].locked \in Int
  BY DEF IInv, TypeOK, TablesOK, IsTable, LockRow, s
<1>11. n \in DOMAIN s /\ DOMAIN s \subseteq DOMAIN locks \cup {n} /\ DOMAIN locks \ {k} \subseteq DOMAIN s
  BY <1>4, <1>9
<1>12. \A j \in DOMAIN locks : j # k => s[j] = locks[j]
  BY <1>4, <1>6, <1>9
<1>13. s[n].locked + (IF k \in DOMAIN s THEN s[k].locked ELSE 0) = locks[k].locked
  <2>1. k \in DOMAIN s <=> k \in DOMAIN L
    BY <1>6, <1>9
  <2>2. k \in DOMAIN L => s[k] = L[k]
    BY <1>6, <1>9
  <2>3. (IF k \in DOMAIN s THEN s[k].locked ELSE 0) = l.locked - moved
    BY <1>4, <2>1, <2>2
  <2> HIDE DEF l, moved
  <2>4. s[n].locked + (IF k \in DOMAIN s THEN s[k].locked ELSE 0) = l.locked
    BY <1>3, <1>5, <1>7, <1>9, <2>3
  <2> QED BY <2>4 DEF l
<1>14. k \in DOMAIN s => s[k].locker = l.locker
  <2>1. k \in DOMAIN s => k \in DOMAIN L /\ s[k] = L[k]
    BY <1>6, <1>9
  <2>2. k \in DOMAIN L => L[k].locker = l.locker
    BY <1>2, <1>1, LessMoved DEF L
  <2> QED BY <2>1, <2>2
<1>15. MovesLock(k, n, s)
  <2> HIDE DEF moved
  <2> QED BY <1>5, <1>6, <1>9, <1>10, <1>11, <1>12, <1>13, <1>14 DEF MovesLock
<1> QED BY <1>1, <1>3, <1>7, <1>8, <1>15 DEF s, p, r, id, n

\* A move keeps what is locked under the plan, and the contract keeps no MID.
LEMMA MoveKeepsBooks ==
    ASSUME IInv, IInv', BooksInv, NEW u \in Users, NEW to \in Receivers, NEW m \in Mids,
           NEW k \in DOMAIN locks, NEW q \in 1 .. mid[u][m], onmidtrans(u, m, q, k, to)
    PROVE  BooksInv'
<1> DEFINE p == k[1]
           moved == MinOf(locks[k].locked, q)
           n == <<p, plans[p].last_lock_id + 1>>
           s == locks'
<1>1. /\ MovesLock(k, n, s) /\ p \in DOMAIN plans /\ PlansMove(p, 0)
      /\ MidsPassOn(m, u, to, q, moved) /\ moved \in Nat
      /\ UNCHANGED <<config, pass, now, stray>>
  BY MoveEffect
<1>2. u \in Accounts /\ u # Custody /\ to # Custody /\ Custody \in Accounts
  BY CustodyAccounts, CustodyInputs DEF Accounts
<1> HIDE DEF n, s, p
<1>14. \A j \in DOMAIN locks : locks[j].locked \in Int
  BY BookTypes
<1>15. IsFiniteSet(DOMAIN locks)
  BY DEF BooksInv
<1>16. \A x : LockedOf(s, x) = LockedOf(locks, x)
  <2> QED BY <1>1, <1>14, <1>15, LockedMoves DEF MovesLock
<1>17. IsFiniteSet(DOMAIN s)
  <2>1. IsFiniteSet(DOMAIN locks \cup {n})
    BY <1>15, FS_AddElement
  <2> QED BY <1>1, <2>1, FS_Subset DEF MovesLock
<1>18. \A x \in Mids : mid'[Custody][x] = mid[Custody][x]
  <2> DEFINE new(a) == mid[a][m] - (IF a = u THEN moved ELSE 0) + (IF a = to THEN moved ELSE 0)
  <2>1. mid' = [a \in Accounts |-> [mid[a] EXCEPT ![m] = new(a)]]
    BY <1>1 DEF MidsPassOn
  <2>2. mid[Custody] \in [Mids -> Nat]
    BY <1>2 DEF IInv, TypeOK, BalancesOK
  <2>3. new(Custody) = mid[Custody][m]
    BY <1>2, <2>2
  <2> HIDE DEF new
  <2>4. mid'[Custody] = [mid[Custody] EXCEPT ![m] = mid[Custody][m]]
    BY <1>2, <2>1, <2>3
  <2> QED BY <2>2, <2>4
<1>19. \A a \in Assets : pass'[Custody][a] - stray'[a]
           = pass[Custody][a] - stray[a] + (IF a = plans[p].asset_symbol THEN 0 ELSE 0)
  BY <1>1, BookTypes
<1>20. \A x \in DOMAIN plans : LockedOf(locks', x) = LockedOf(locks, x) + (IF x = p THEN 0 ELSE 0)
  <2>1. \A x \in DOMAIN plans : LockedOf(locks, x) \in Int
    BY BooksAreSums, BookTypes DEF BooksInv
  <2> QED BY <1>16, <2>1 DEF s
<1> HIDE DEF moved
<1> QED BY <1>1, <1>17, <1>18, <1>19, <1>20, BooksMove DEF PlansMove, s

\* A batch of locks moved to the mining contract takes the same out of them, their
\* plan and the contract.
LEMMA MoveDataKeepsBooks ==
    ASSUME IInv, IInv', BooksInv, NEW p \in PlanIds, NEW c \in MoveCounts, movedata(p, c)
    PROVE  BooksInv'
<1> DEFINE cursor  == gstate1.last_move_lock_id + 1
           ahead   == {k \in LocksOf(p) : k[2] >= cursor}
           scanned == {k \in ahead : Cardinality({j \in ahead : j[2] < k[2]}) < c}
           moved   == Movable(scanned)
           amount  == SumFunction([k \in moved |-> locks[k].locked])
           r       == plans[p]
           a       == r.asset_symbol
           pays    == PayOne(Accounts, Mine, amount)
           s       == locks'
           d       == 0 - amount
<1>1. /\ p \in DOMAIN plans
      /\ PassMoves(a, Custody, pays)
      /\ plans' = [plans EXCEPT ![p] = [r EXCEPT !.total_unlocked = r.total_unlocked + amount,
                                                 !.total_locked = r.total_locked - amount]]
      /\ s = [k \in DOMAIN locks |->
                 IF k \in moved
                 THEN [locks[k] EXCEPT !.unlocked = locks[k].unlocked + locks[k].locked,
                                       !.locked = 0, !.status = "unlocked"]
                 ELSE locks[k]]
      /\ UNCHANGED <<mid, stray>>
  BY DEF movedata
<1>2. r \in PlanRow /\ a \in Assets /\ r.total_locked \in Int
  BY <1>1 DEF IInv, TypeOK, TablesOK, IsTable, PlanRow
<1>3. moved \in SUBSET DOMAIN locks /\ \A k \in moved : k[1] = p
  BY DEF Movable, LocksOf
<1> HIDE DEF moved
<1>4. /\ DOMAIN s = DOMAIN locks /\ \A k \in DOMAIN locks \ moved : s[k] = locks[k]
  <2> HIDE DEF s
  <2> QED BY <1>1
<1>5. \A k \in moved : s[k].locked = 0
  <2> TAKE k \in moved
  <2> DEFINE l == locks[k]
             sum == l.unlocked + l.locked
             out == [l EXCEPT !.unlocked = sum, !.locked = 0, !.status = "unlocked"]
  <2>1. l \in LockRow
    BY <1>3 DEF IInv, TypeOK, TablesOK, IsTable
  <2>2. s[k] = out
    <3> HIDE DEF s
    <3> QED BY <1>1, <1>3
  <2> HIDE DEF l, sum, s
  <2> QED BY <2>1, <2>2 DEF LockRow
<1> HIDE DEF s, amount
<1>6. /\ amount \in Int
      /\ LockedOf(s, p) = LockedOf(locks, p) - amount
      /\ \A q : q # p => LockedOf(s, q) = LockedOf(locks, q)
  <2>1. \A j \in DOMAIN locks : locks[j].locked \in Int
    BY BookTypes
  <2>2. IsFiniteSet(DOMAIN locks)
    BY DEF BooksInv
  <2> DEFINE v == [k \in moved |-> locks[k].locked]
  <2>3. /\ SumFunction(v) \in Int
        /\ LockedOf(s, p) = LockedOf(locks, p) - SumFunction(v)
        /\ \A q : q # p => LockedOf(s, q) = LockedOf(locks, q)
    <3>1. DOMAIN v = moved /\ \A k \in moved : v[k] = locks[k].locked
      OBVIOUS
    <3> HIDE DEF pays, d, cursor, ahead, scanned, r, a, v
    <3>2. Closes(locks, s, p, v)
      BY <1>3, <1>4, <1>5, <2>1, <2>2, <3>1 DEF Closes
    <3>3. /\ SumFunction(v) \in Int
          /\ LockedOf(s, p) = LockedOf(locks, p) - SumFunction(v)
          /\ \A q : q = p \/ LockedOf(s, q) = LockedOf(locks, q)
      BY <3>2, LockedCloses
    <3> QED BY <3>3
  <2> QED BY <2>3 DEF amount
<1>7. d \in Int /\ d = 0 - amount
  BY <1>6
<1>8. PlansMove(p, d)
  <2> DEFINE out == r.total_unlocked + amount
             left == r.total_locked - amount
             row == [r EXCEPT !.total_unlocked = out, !.total_locked = left]
  <2>1. plans' = [plans EXCEPT ![p] = row]
    BY <1>1
  <2>2. left = r.total_locked + d
    BY <1>2, <1>6
  <2>3. row.total_locked = left /\ row.asset_symbol = r.asset_symbol
    <3> HIDE DEF r, out, left
    <3> QED BY <1>2 DEF PlanRow
  <2> HIDE DEF row, d, left
  <2> QED BY <1>1, <2>1, <2>2, <2>3 DEF PlansMove
<1>9. \A q \in DOMAIN plans : LockedOf(locks', q) = LockedOf(locks, q) + (IF q = p THEN d ELSE 0)
  <2>1. \A q \in DOMAIN plans : LockedOf(locks, q) \in Int
    BY BooksAreSums, BookTypes DEF BooksInv
  <2> HIDE DEF d
  <2> QED BY <1>6, <1>7, <2>1 DEF s
<1> HIDE DEF d
<1>10. Custody \in Accounts /\ Mine \in Accounts /\ Mine # Custody
  BY CustodyAccounts DEF Accounts
<1>11. pays[Custody] = 0 /\ SumFunction(pays) = amount
  <2>1. IsFiniteSet(Accounts)
    <3>1. Accounts = (Users \cup {Custody}) \cup {Mine}
      BY DEF Accounts
    <3>2. IsFiniteSet(Users \cup {Custody})
      BY CustodyAccounts, FS_AddElement
    <3> QED BY <3>1, <3>2, FS_AddElement
  <2>2. DOMAIN pays = Accounts /\ pays[Custody] = 0
    BY <1>10 DEF PayOne
  <2>3. Sum(pays, Accounts) = amount
    BY <1>6, <1>10, <2>1, PayOneSum
  <2> HIDE DEF pays
  <2> QED BY <2>2, <2>3, SumFunctionIsSum
<1> HIDE DEF pays
<1>12. /\ pass'[Custody][a] = pass[Custody][a] + pays[Custody]
              - (IF Custody = Custody THEN SumFunction(pays) ELSE 0)
       /\ \A b \in Assets : b # a => pass'[Custody][b] = pass[Custody][b]
  <2>1. pass \in [Accounts -> [Assets -> Nat]]
    BY DEF IInv, TypeOK, BalancesOK
  <2> HIDE DEF a
  <2> QED BY <1>1, <1>2, <1>10, <2>1, PassMovesCustody
<1>13. \A b \in Assets : pass'[Custody][b] - stray'[b]
           = pass[Custody][b] - stray[b] + (IF b = plans[p].asset_symbol THEN d ELSE 0)
  <2>1. \A b \in Assets : stray[b] \in Int /\ stray'[b] = stray[b] /\ pass[Custody][b] \in Int
    BY <1>1, BookTypes
  <2> QED BY <1>2, <1>6, <1>7, <1>11, <1>12, <2>1
<1>14. IsFiniteSet(DOMAIN locks')
  BY <1>4 DEF BooksInv, s
<1>15. \A m \in Mids : mid'[Custody][m] = mid[Custody][m]
  BY <1>1
<1> HIDE DEF r, a
<1> QED BY <1>1, <1>7, <1>8, <1>9, <1>13, <1>14, <1>15, BooksMove DEF PlansMove

\* The empty custody has empty books.
LEMMA InitBooks == Init => BooksInv
<1> SUFFICES ASSUME Init PROVE BooksInv
  OBVIOUS
<1>1. plans = EmptyTable /\ locks = EmptyTable /\ DOMAIN plans = {} /\ DOMAIN locks = {}
      /\ pass = FirstPass /\ mid = FirstMid /\ stray = [a \in Assets |-> 0]
  BY DEF Init, EmptyTable
<1>2. IsFiniteSet(DOMAIN plans) /\ IsFiniteSet(DOMAIN locks)
  BY <1>1, FS_EmptySet
<1>3. \A a : TotalOf(plans, a) = 0
  <2> TAKE a
  <2>1. {q \in DOMAIN plans : plans[q].asset_symbol = a} = {}
    BY <1>1
  <2> DEFINE w == [p \in {} |-> plans[p].total_locked]
  <2>2. TotalOf(plans, a) = SumFunction(w) /\ DOMAIN w = {}
    BY <2>1 DEF TotalOf
  <2> HIDE DEF w
  <2> QED BY <2>2, SumFunctionIsSum, SumEmpty
<1>4. \A a \in Assets : pass[Custody][a] = stray[a] + TotalOf(plans, a)
  BY <1>1, <1>3, CustodyStartsEmpty
<1>5. CustodyHolds
  BY <1>4, BooksAreSums
<1> QED BY <1>1, <1>2, <1>5 DEF BooksInv, PlanTotalsMatchLocks, MidsPassThrough

\* Every step keeps the books.
LEMMA StepBooks == IInv /\ IInv' /\ BooksInv /\ [Next]_vars => BooksInv'
<1> SUFFICES ASSUME IInv, IInv', BooksInv, [Next]_vars PROVE BooksInv'
  OBVIOUS
<1>1. ASSUME Configure \/ Tick \/ UNCHANGED vars PROVE BooksInv'
  BY <1>1, BooksSame
  DEF Configure, Tick, vars, init, setconfig, whitelist, blacklist
<1>2. ASSUME Lock PROVE BooksInv'
  BY <1>2, LockKeepsBooks, StrayKeepsBooks DEF Lock
<1>3. ASSUME Release PROVE BooksInv'
  BY <1>3, ReleaseKeepsBooks DEF Release, unlock, endlock
<1>4. ASSUME Move PROVE BooksInv'
  BY <1>4, MoveKeepsBooks, MoveDataKeepsBooks DEF Move
<1> QED BY <1>1, <1>2, <1>3, <1>4, PlanKeepsBooks DEF Next

\* The books hold in every reachable state.
THEOREM Books == Spec => []BooksInv
<1>1. Init => BooksInv
  BY InitBooks
<1>2. IInv /\ IInv' /\ BooksInv /\ [Next]_vars => BooksInv'
  BY StepBooks
<1> QED BY <1>1, <1>2, Invariant, PTL DEF Spec

\* A plan's locked total is the sum over its locks, through every move that splits,
\* erases and recreates them.
THEOREM TotalsAreSums == Spec => []PlanTotalsMatchLocks
<1>1. BooksInv => PlanTotalsMatchLocks
  BY DEF BooksInv
<1> QED BY <1>1, Books, PTL

\* The contract holds exactly the passes locked under its plans and the stray ones.
THEOREM CustodyIsWhole == Spec => []CustodyHolds
<1>1. BooksInv => CustodyHolds
  BY DEF BooksInv
<1> QED BY <1>1, Books, PTL

\* No MID stays with the contract.
THEOREM MidsGoOn == Spec => []MidsPassThrough
<1>1. BooksInv => MidsPassThrough
  BY DEF BooksInv
<1> QED BY <1>1, Books, PTL

------------------------------------------------------------------------------
(* What a lock is owed is there *)

\* What a live lock has locked is in its plan's total, and that in the contract's hands,
\* whatever moves, endings and other locks did to the totals.
LEMMA LockIsCovered ==
    ASSUME IInv, BooksInv, NEW k \in DOMAIN locks, locks[k].status = "locked"
    PROVE  LET l == locks[k]
               r == plans[k[1]]
           IN  /\ l \in LockRow /\ r \in PlanRow /\ r.status = "enabled"
               /\ l.locked > 0 /\ l.issued = l.locked + l.unlocked
               /\ r.total_locked \in Nat /\ l.locked <= r.total_locked
               /\ pass[Custody][r.asset_symbol] \in Nat
               /\ l.locked <= pass[Custody][r.asset_symbol]
<1> DEFINE l == locks[k]
           p == k[1]
           r == plans[p]
           a == r.asset_symbol
<1>1. l \in LockRow /\ p \in DOMAIN plans /\ r \in PlanRow /\ r.status = "enabled"
  BY DEF IInv, TypeOK, TablesOK, IsTable
<1>2. /\ a \in Assets /\ l.issued \in Nat /\ l.locked \in Nat /\ l.unlocked \in Nat
      /\ l.locked > 0 /\ l.issued = l.locked + l.unlocked
  BY <1>1 DEF IInv, LockSplit, LockRow, PlanRow
<1>3. \A q \in DOMAIN plans : plans[q].total_locked \in Nat
  <2> TAKE q \in DOMAIN plans
  <2>1. plans[q].total_locked = LockedOf(locks, q)
    BY BooksAreSums DEF BooksInv
  <2>2. LockedOf(locks, q) = Sum(Locked(locks, DOMAIN locks), Keys(DOMAIN locks, q))
        /\ IsFiniteSet(Keys(DOMAIN locks, q))
    BY BookTypes, LockedOver DEF BooksInv
  <2>3. \A j \in Keys(DOMAIN locks, q) : Locked(locks, DOMAIN locks)[j] \in Nat
    BY DEF Locked, Keys, IInv, TypeOK, TablesOK, IsTable, LockRow
  <2> QED BY <2>1, <2>2, <2>3, SumNat
<1>4. l.locked <= r.total_locked
  <2> DEFINE w == Locked(locks, DOMAIN locks)
             S == Keys(DOMAIN locks, p)
  <2>1. r.total_locked = LockedOf(locks, p)
    BY <1>1, <1>2, BooksAreSums DEF BooksInv
  <2>2. LockedOf(locks, p) = Sum(w, S) /\ IsFiniteSet(S)
    BY BookTypes, LockedOver DEF BooksInv
  <2>3. \A j \in S : w[j] \in Nat
    BY DEF Locked, Keys, IInv, TypeOK, TablesOK, IsTable, LockRow
  <2>4. k \in S /\ w[k] = l.locked
    BY DEF Locked, Keys
  <2> HIDE DEF w, S
  <2>5. w[k] <= Sum(w, S)
    BY <2>2, <2>3, <2>4, SumCovers
  <2> QED BY <2>1, <2>2, <2>4, <2>5
<1>5. r.total_locked <= pass[Custody][a]
  <2> DEFINE w == Total(plans, a, DOMAIN plans)
             K == DOMAIN plans
  <2>1. pass[Custody][a] = stray[a] + TotalOf(plans, a) /\ stray[a] \in Nat
    BY <1>1, <1>2, BooksAreSums DEF BooksInv, IInv, TypeOK, GlobalsOK
  <2>2. TotalOf(plans, a) = Sum(w, K) /\ IsFiniteSet(K)
    BY BookTypes, TotalOver DEF BooksInv
  <2>3. \A q \in K : w[q] \in Nat
    BY <1>3 DEF Total
  <2>4. p \in K /\ w[p] = r.total_locked
    BY <1>1 DEF Total
  <2> HIDE DEF w, K
  <2>5. w[p] <= Sum(w, K) /\ Sum(w, K) \in Nat /\ w[p] \in Nat
    BY <2>2, <2>3, <2>4, SumCovers, SumNat
  <2> HIDE DEF r, a
  <2>6. Sum(w, K) <= stray[a] + Sum(w, K)
    BY <2>1, <2>5
  <2> QED BY <2>1, <2>2, <2>4, <2>5, <2>6
<1>6. r.total_locked \in Nat /\ pass[Custody][a] \in Nat
  <2>1. Custody \in Accounts
    BY DEF Accounts
  <2> QED BY <1>1, <1>2, <1>3, <2>1 DEF IInv, TypeOK, BalancesOK
<1>7. l.locked <= pass[Custody][a]
  <2> HIDE DEF l, r, a
  <2> QED BY <1>2, <1>4, <1>5, <1>6
<1> HIDE DEF l, r, a, p
<1>8. /\ l \in LockRow /\ r \in PlanRow /\ r.status = "enabled"
      /\ l.locked > 0 /\ l.issued = l.locked + l.unlocked
      /\ r.total_locked \in Nat /\ l.locked <= r.total_locked
      /\ pass[Custody][a] \in Nat /\ l.locked <= pass[Custody][a]
  BY <1>1, <1>2, <1>4, <1>6, <1>7
<1> QED BY <1>8 DEF l, r, a, p

\* When the schedule of a live lock is over, unlock passes every check: there is
\* something to release, the plan's total covers it and the contract has it.
LastPartIsThere ==
    \A k \in DOMAIN locks :
        LET l == locks[k]
            r == plans[k[1]]
        IN  l.status = "locked" /\ unlocked_times(l, r) >= r.unlock_times
                => /\ r.status = "enabled" /\ total_unlocked(l, r) - l.unlocked > 0
                   /\ r.total_locked >= total_unlocked(l, r) - l.unlocked
                   /\ pass[Custody][r.asset_symbol] >= total_unlocked(l, r) - l.unlocked

\* The last part of every lock comes through, whatever moves, endings and other locks
\* did to the totals: what LocksRunOut rests on, and the checks at the end of _unlock.
THEOREM LastPartComes == Spec => []LastPartIsThere
<1>1. IInv /\ BooksInv => LastPartIsThere
  <2> SUFFICES ASSUME IInv, BooksInv, NEW k \in DOMAIN locks, locks[k].status = "locked",
                      unlocked_times(locks[k], plans[k[1]]) >= plans[k[1]].unlock_times
               PROVE  LET l == locks[k]
                          r == plans[k[1]]
                      IN  /\ r.status = "enabled" /\ total_unlocked(l, r) - l.unlocked > 0
                          /\ r.total_locked >= total_unlocked(l, r) - l.unlocked
                          /\ pass[Custody][r.asset_symbol] >= total_unlocked(l, r) - l.unlocked
    BY DEF LastPartIsThere
  <2> DEFINE l == locks[k]
             r == plans[k[1]]
             t == total_unlocked(l, r)
             held == pass[Custody][r.asset_symbol]
  <2>1. t = l.issued
    BY DEF total_unlocked
  <2>2. /\ r.status = "enabled" /\ l.locked > 0 /\ l.issued = l.locked + l.unlocked
        /\ r.total_locked \in Nat /\ l.locked <= r.total_locked
        /\ held \in Nat /\ l.locked <= held
    BY LockIsCovered
  <2>3. l.locked \in Nat /\ l.unlocked \in Nat
    BY LockIsCovered DEF LockRow
  <2> HIDE DEF l, r, t, held
  <2>4. /\ r.status = "enabled" /\ t - l.unlocked > 0
        /\ r.total_locked >= t - l.unlocked /\ held >= t - l.unlocked
    BY <2>1, <2>2, <2>3
  <2> QED BY <2>4 DEF l, r, t, held
<1> QED BY <1>1, Invariant, Books, PTL

\* What a release or an ending of lock k asks of the state, all of it ...
DueOf(k) == total_unlocked(locks[k], plans[k[1]]) - locks[k].unlocked
RestOf(k, ending) ==
    IF ending THEN locks[k].issued - total_unlocked(locks[k], plans[k[1]]) ELSE 0
PaysOf(k, ending) ==
    PayBoth(PayOne(Accounts, locks[k].receiver, DueOf(k)),
            PayOne(Accounts, locks[k].locker, RestOf(k, ending)))
CanPass(a, from, p) == p \in [Accounts -> Nat] /\ SumFunction(p) \in 0 .. pass[from][a]
CanUnlock(k, ending) ==
    LET lock == locks[k]
        plan == plans[k[1]]
    IN  /\ k[1] \in DOMAIN plans
        /\ plan.status = "enabled" /\ lock.status = "locked"
        /\ PartFits(lock, plan)
        /\ DueOf(k) > 0 \/ ending
        /\ plan.total_locked >= DueOf(k) + RestOf(k, ending)
        /\ CanPass(plan.asset_symbol, Custody, PaysOf(k, ending))

\* ... as the rest of the action is assignments.
LEMMA UnlockIs ==
    ASSUME NEW k \in DOMAIN locks, NEW ending \in BOOLEAN
    PROVE  LET lock == locks[k]
               plan == plans[k[1]]
               paid == PaysOf(k, ending)
               rest == lock.issued - total_unlocked(lock, plan)
           IN  _unlock(k, ending) <=>
                  /\ CanUnlock(k, ending)
                  /\ pass' = [x \in Accounts |->
                        [pass[x] EXCEPT ![plan.asset_symbol] =
                            @ + paid[x] - (IF x = Custody THEN SumFunction(paid) ELSE 0)]]
                  /\ plans' = [plans EXCEPT ![k[1]] =
                                   PlanAfter(plan, DueOf(k), RestOf(k, ending))]
                  /\ locks' = [locks EXCEPT ![k] =
                                   LockAfter(lock, total_unlocked(lock, plan),
                                             rest - RestOf(k, ending), ending)]
                  /\ UNCHANGED <<config, mid, now, stray>>
BY DEF _unlock, PassMoves, CanUnlock, CanPass, PaysOf, DueOf, RestOf

\* Of all that a release or an ending asks, only what the schedule says can be missing.
OnlyTheSchedule ==
    \A k \in DOMAIN locks, ending \in BOOLEAN :
        locks[k].status = "locked" =>
            (CanUnlock(k, ending) <=>
                PartFits(locks[k], plans[k[1]]) /\ (DueOf(k) > 0 \/ ending))

\* Only the schedule holds a lock.  What is due of a live lock can be released and the lock
\* can be ended, for want of nothing in the totals or in the contract's hands, unless the
\* product of the schedule does not fit or what moved away has it say less than was
\* released before (pass.custody.cpp:527-614, the assertion at 561).
THEOREM OnlyTheScheduleHolds == Spec => []OnlyTheSchedule
<1>1. IInv /\ BooksInv => OnlyTheSchedule
  <2> SUFFICES ASSUME IInv, BooksInv, NEW k \in DOMAIN locks, NEW ending \in BOOLEAN,
                      locks[k].status = "locked", PartFits(locks[k], plans[k[1]]),
                      DueOf(k) > 0 \/ ending
               PROVE  CanUnlock(k, ending)
    BY DEF OnlyTheSchedule, CanUnlock
  <2> DEFINE l == locks[k]
             r == plans[k[1]]
             t == total_unlocked(l, r)
             n == DueOf(k)
             m == RestOf(k, ending)
             held == pass[Custody][r.asset_symbol]
             paid == PaysOf(k, ending)
  <2>1. /\ k[1] \in DOMAIN plans /\ r.status = "enabled"
        /\ l.locked > 0 /\ l.issued = l.locked + l.unlocked
        /\ r.total_locked \in Nat /\ l.locked <= r.total_locked
        /\ held \in Nat /\ l.locked <= held
    BY LockIsCovered DEF IInv, TypeOK, TablesOK, IsTable
  <2>2. /\ l.locked \in Nat /\ l.unlocked \in Nat /\ l.issued \in Nat
        /\ l.receiver \in Users /\ l.locker \in Users
    BY LockIsCovered DEF LockRow
  <2>3. t \in l.unlocked .. l.issued
    BY <2>1, TotalInRange
  <2>4. n = t - l.unlocked /\ m = IF ending THEN l.issued - t ELSE 0
    BY DEF DueOf, RestOf
  <2>5. l.receiver \in Accounts /\ l.locker \in Accounts
        /\ l.receiver # Custody /\ l.locker # Custody
    BY <2>2, CustodyAccounts DEF Accounts
  <2> HIDE DEF t, n, m
  <2>6. n \in Nat /\ m \in Nat /\ n + m <= l.locked
    <3> HIDE DEF l
    <3> QED BY <2>1, <2>2, <2>3, <2>4
  <2>7. SumFunction(paid) = n + m
    BY <2>5, <2>6, PaysOut DEF PaysOf, n, m
  <2>8. paid \in [Accounts -> Nat]
    BY <2>6 DEF PaysOf, PayBoth, PayOne, n, m
  <2> HIDE DEF paid, held
  <2>9. n + m \in 0 .. held /\ r.total_locked >= n + m
    <3> HIDE DEF l, r
    <3> QED BY <2>1, <2>2, <2>6
  <2>10. CanPass(r.asset_symbol, Custody, paid)
    BY <2>7, <2>8, <2>9 DEF CanPass, held
  <2> QED BY <2>1, <2>9, <2>10 DEF CanUnlock, n, m, paid
<1> QED BY <1>1, Invariant, Books, PTL
------------------------------------------------------------------------------
(* The schedule runs ahead of the releases *)

\* Without a move window no lock is split: onmidtrans finds no window for its plan.
NoMoves == Windows = {}

\* Dividing more gives no less.
LEMMA QuotientMonotone ==
    ASSUME NEW a \in Nat, NEW b \in Nat, NEW p \in Nat \ {0}, a <= b
    PROVE  a \div p <= b \div p
<1> DEFINE f == b \div p
<1>1. f \in Nat /\ b < f * p + p
  BY Quotient
<1> DEFINE n == a \div p
<1>2. n \in Nat /\ n * p <= a
  BY Quotient
<1>3. SUFFICES ASSUME f + 1 <= n PROVE FALSE
  BY <1>1, <1>2
<1>4. (f + 1) * p <= n * p
  <2> HIDE DEF n, f
  <2> QED BY <1>1, <1>2, <1>3, TimesMonotone
<1>5. (f + 1) * p = f * p + p
  <2> HIDE DEF f
  <2> QED BY <1>1
<1>6. f * p \in Nat /\ n * p \in Nat
  BY <1>1, <1>2
<1> HIDE DEF n, f
<1> QED BY <1>1, <1>2, <1>4, <1>5, <1>6

\* A later part of the schedule releases no less, and the last one what was issued.
LEMMA PartsGrow ==
    ASSUME NEW i \in Nat, NEW n \in Nat, NEW m \in Nat, NEW t \in Nat \ {0}, n <= m
    PROVE  multiply_decimal64(i, n, t) <= multiply_decimal64(i, m, t)
<1>1. 10 * i * n \in Nat /\ 10 * i * m \in Nat /\ 10 * i \in Nat
  OBVIOUS
<1>2. 10 * i * n <= 10 * i * m
  <2> DEFINE j == 10 * i
  <2>1. j \in Nat
    OBVIOUS
  <2>2. n * j <= m * j
    <3> HIDE DEF j
    <3> QED BY <2>1, TimesMonotone
  <2>3. n * j = j * n /\ m * j = j * m
    <3> HIDE DEF j
    <3> QED BY <2>1
  <2> QED BY <2>2, <2>3
<1> DEFINE a == 10 * i * n
           b == 10 * i * m
<1>3. a \in Nat /\ b \in Nat /\ a <= b
  BY <1>1, <1>2
<1>4. Tenths(i, n, t) = a \div t /\ Tenths(i, m, t) = b \div t
  BY DEF Tenths
<1> HIDE DEF a, b
<1> DEFINE x == a \div t
           y == b \div t
<1>5. x \in Nat /\ y \in Nat /\ x <= y
  BY <1>3, Quotient, QuotientMonotone
<1> HIDE DEF x, y
<1>6. (x + 5) \div 10 <= (y + 5) \div 10
  BY <1>5
<1> QED BY <1>4, <1>6 DEF multiply_decimal64, x, y

\* A part before the last releases no more than was issued.
LEMMA PartsWithin ==
    ASSUME NEW i \in Nat, NEW n \in Nat, NEW t \in Nat \ {0}, n <= t
    PROVE  multiply_decimal64(i, n, t) <= i
<1>1. multiply_decimal64(i, n, t) <= multiply_decimal64(i, t, t)
  BY PartsGrow
<1>2. Tenths(i, t, t) = 10 * i
  <2> DEFINE j == 10 * i
  <2>1. j \in Nat
    OBVIOUS
  <2> HIDE DEF j
  <2>2. (j * t) \div t = j
    BY <2>1, QuotientOfProduct
  <2> QED BY <2>2 DEF Tenths, j
<1>3. multiply_decimal64(i, t, t) = i
  BY <1>2 DEF multiply_decimal64
<1> QED BY <1>1, <1>3

\* The parts of a lock's schedule that have passed on a day.
Parts(l, r, day) ==
    LET days == IF day - l.locked_at > l.first_unlock_days
                THEN day - l.locked_at - l.first_unlock_days ELSE 0
    IN  MinOf(days \div r.unlock_interval_days, r.unlock_times)

\* As days go by no fewer parts of a lock have passed.
LEMMA PartsPass ==
    ASSUME NEW l, NEW r, NEW d \in Nat, NEW e \in Nat, d <= e,
           l.locked_at \in Nat, l.first_unlock_days \in Nat, l.locked_at <= d,
           r.unlock_interval_days \in Nat \ {0}, r.unlock_times \in Nat \ {0}
    PROVE  /\ Parts(l, r, d) \in Nat /\ Parts(l, r, e) \in Nat
           /\ Parts(l, r, d) <= Parts(l, r, e) /\ Parts(l, r, e) <= r.unlock_times
<1> DEFINE days(x) == IF x - l.locked_at > l.first_unlock_days
                      THEN x - l.locked_at - l.first_unlock_days ELSE 0
           p == r.unlock_interval_days
<1>1. days(d) \in Nat /\ days(e) \in Nat /\ days(d) <= days(e)
  OBVIOUS
<1>2. \A x : Parts(l, r, x) = MinOf(days(x) \div p, r.unlock_times)
  BY DEF Parts
<1> HIDE DEF days
<1>3. /\ days(d) \div p \in Nat /\ days(e) \div p \in Nat
      /\ days(d) \div p <= days(e) \div p
  BY <1>1, Quotient, QuotientMonotone
<1> DEFINE x == days(d) \div p
           y == days(e) \div p
<1> HIDE DEF p, x, y
<1> QED BY <1>2, <1>3 DEF MinOf, x, y, p

\* What the schedule of a row has released after n parts.
Due(l, r, n) == IF n >= r.unlock_times THEN l.issued ELSE multiply_decimal64(l.issued, n, r.unlock_times)

\* More parts release no less.
LEMMA DueGrows ==
    ASSUME NEW l, NEW r, NEW n \in Nat, NEW m \in Nat, n <= m,
           l.issued \in Nat, r.unlock_times \in Nat \ {0}
    PROVE  Due(l, r, n) <= Due(l, r, m)
<1> DEFINE t == r.unlock_times
           i == l.issued
<1>1. CASE n >= t
  BY <1>1 DEF Due
<1>2. CASE ~ (n >= t) /\ m >= t
  <2>1. n <= t
    BY <1>2
  <2>2. multiply_decimal64(i, n, t) <= i
    BY <2>1, PartsWithin
  <2> QED BY <1>2, <2>2 DEF Due
<1>3. CASE ~ (m >= t)
  <2>1. ~ (n >= t)
    BY <1>3
  <2>2. multiply_decimal64(i, n, t) <= multiply_decimal64(i, m, t)
    BY PartsGrow
  <2> QED BY <1>3, <2>1, <2>2 DEF Due
<1> QED BY <1>1, <1>2, <1>3

\* What is due is a natural amount.
LEMMA DueNat ==
    ASSUME NEW l, NEW r, NEW n \in Nat, l.issued \in Nat, r.unlock_times \in Nat \ {0}
    PROVE  Due(l, r, n) \in Nat
<1> DEFINE j == 10 * l.issued * n
           x == j \div r.unlock_times
<1>1. j \in Nat
  OBVIOUS
<1>2. x \in Nat
  <2> HIDE DEF j
  <2> QED BY <1>1, Quotient
<1>3. multiply_decimal64(l.issued, n, r.unlock_times) = (x + 5) \div 10
  BY DEF multiply_decimal64, Tenths
<1> HIDE DEF x
<1>4. (x + 5) \div 10 \in Nat
  BY <1>2
<1> QED BY <1>3, <1>4 DEF Due

\* What a step may do to a lock that is live after it: make it with nothing
\* released, or release what the schedule says of a lock whose schedule stays.
Follows(k) ==
    \/ locks'[k].unlocked = 0
    \/ /\ k \in DOMAIN locks /\ locks[k].status = "locked"
       /\ locks'[k].issued = locks[k].issued
       /\ locks'[k].locked_at = locks[k].locked_at
       /\ locks'[k].first_unlock_days = locks[k].first_unlock_days
       /\ plans'[k[1]].unlock_interval_days = plans[k[1]].unlock_interval_days
       /\ plans'[k[1]].unlock_times = plans[k[1]].unlock_times
       /\ locks'[k].unlocked \in {locks[k].unlocked, total_unlocked(locks[k], plans[k[1]])}
       /\ now <= now'

\* Such a step keeps the schedule ahead of what was released.
LEMMA FollowsTheSchedule ==
    ASSUME IInv, IInv', VestedCoversUnlocked, NEW k \in DOMAIN locks', Follows(k)
    PROVE  locks'[k].unlocked <= total_unlocked(locks[k], plans[k[1]])'
<1> DEFINE l == locks[k]
           r == plans[k[1]]
           n == locks'[k]
           s == plans'[k[1]]
<1>1. /\ n.issued \in Nat /\ n.first_unlock_days \in Nat /\ n.locked_at \in Nat
      /\ n.unlocked \in Nat
      /\ s.unlock_interval_days \in Nat \ {0} /\ s.unlock_times \in Nat \ {0}
      /\ now' \in Nat /\ n.locked_at <= now'
  BY DEF IInv, TypeOK, GlobalsOK, TablesOK, IsTable, LockRow, PlanRow
<1>2. total_unlocked(locks[k], plans[k[1]])' = Due(n, s, Parts(n, s, now'))
  BY DEF total_unlocked, unlocked_times, Due, Parts
<1> DEFINE total == total_unlocked(locks[k], plans[k[1]])'
<1> HIDE DEF total
<1>2a. total = Due(n, s, Parts(n, s, now'))
  BY <1>2 DEF total
<1>3. CASE n.unlocked = 0
  <2> DEFINE m == Parts(n, s, now')
  <2>1. m \in Nat
    BY <1>1, PartsPass
  <2>2. Due(n, s, 0) <= Due(n, s, m)
    <3> HIDE DEF m
    <3> QED BY <1>1, <2>1, DueGrows
  <2>3. Due(n, s, 0) = 0
    <3>1. multiply_decimal64(n.issued, 0, s.unlock_times) = 0
      <4>1. 10 * n.issued * 0 = 0
        BY <1>1
      <4>2. 0 \div s.unlock_times = 0
        <5>1. 0 \div s.unlock_times \in Nat /\ (0 \div s.unlock_times) * s.unlock_times <= 0
          BY <1>1, Quotient
        <5> QED BY <1>1, <5>1, QuotientOfProduct
      <4> QED BY <4>1, <4>2 DEF multiply_decimal64, Tenths
    <3> QED BY <1>1, <3>1 DEF Due
  <2> QED BY <1>2a, <1>3, <2>2, <2>3 DEF total
<1>4. CASE n.unlocked # 0
  <2>1. /\ k \in DOMAIN locks /\ l.status = "locked"
        /\ n.issued = l.issued /\ n.locked_at = l.locked_at
        /\ n.first_unlock_days = l.first_unlock_days
        /\ s.unlock_interval_days = r.unlock_interval_days
        /\ s.unlock_times = r.unlock_times
        /\ n.unlocked \in {l.unlocked, total_unlocked(l, r)}
        /\ now <= now'
    BY <1>4 DEF Follows
  <2>2. l.unlocked <= total_unlocked(l, r)
    BY <2>1 DEF VestedCoversUnlocked
  <2>3. now \in Nat /\ n.locked_at <= now /\ l.unlocked \in Nat
    BY <2>1 DEF IInv, TypeOK, GlobalsOK, TablesOK, IsTable, LockRow
  <2> DEFINE d == Parts(n, s, now)
             e == Parts(n, s, now')
  <2>4. total_unlocked(l, r) = Due(n, s, d)
    BY <2>1 DEF total_unlocked, unlocked_times, Due, Parts
  <2>5. d \in Nat /\ e \in Nat /\ d <= e
    BY <1>1, <2>1, <2>3, PartsPass
  <2> HIDE DEF d, e
  <2>6. Due(n, s, d) <= Due(n, s, e)
    BY <1>1, <2>5, DueGrows
  <2>7. Due(n, s, d) \in Nat /\ Due(n, s, e) \in Nat
    BY <1>1, <2>5, DueNat
  <2>8. total = Due(n, s, e)
    BY <1>2a DEF e
  <2>9. n.unlocked <= Due(n, s, d)
    <3> DEFINE x == Due(n, s, d)
    <3> HIDE DEF x, l, n, r, s
    <3>1. x \in Nat /\ x <= x
      BY <2>7 DEF x
    <3>2. n.unlocked \in {l.unlocked, x} /\ l.unlocked <= x
      BY <2>1, <2>2, <2>4 DEF x
    <3> QED BY <3>1, <3>2 DEF x
  <2>10. n.unlocked <= total
    <3> DEFINE u == n.unlocked
               x == Due(n, s, d)
               y == Due(n, s, e)
    <3> HIDE DEF u, x, y
    <3>1. u \in Nat /\ x \in Nat /\ y \in Nat /\ u <= x /\ x <= y
      BY <1>1, <2>6, <2>7, <2>9 DEF u, x, y
    <3>2. u <= y
      BY <3>1
    <3> QED BY <2>8, <3>2 DEF u, y
  <2> QED BY <2>10 DEF total
<1> QED BY <1>3, <1>4

------------------------------------------------------------------------------

\* The invariant: the schedule covers what was released, and no plan has a window.
VestedInv == VestedCoversUnlocked /\ DOMAIN movewindows = {}

\* Without moves every step either leaves the locks alone, makes one, releases what
\* is due, or closes locks.
LEMMA StepFollows ==
    ASSUME NoMoves, IInv, IInv', VestedInv, [Next]_vars
    PROVE  /\ DOMAIN movewindows' = {}
           /\ \A k \in DOMAIN locks' : locks'[k].status = "locked" => Follows(k)
<1> DEFINE Same(k) == locks'[k].status = "locked" => Follows(k)
<1>1. now \in Nat
  BY DEF IInv, TypeOK, GlobalsOK
<1>2. \A k \in DOMAIN locks : k[1] \in DOMAIN plans
  BY DEF IInv, TypeOK, TablesOK, IsTable
<1>3. ASSUME UNCHANGED locks, now <= now',
             \A p \in DOMAIN plans :
                 /\ plans'[p].unlock_interval_days = plans[p].unlock_interval_days
                 /\ plans'[p].unlock_times = plans[p].unlock_times
      PROVE  \A k \in DOMAIN locks' : Same(k)
  BY <1>2, <1>3 DEF Follows
<1>4. ASSUME Configure \/ UNCHANGED vars PROVE UNCHANGED <<plans, locks, now>>
  BY <1>4 DEF Configure, init, setconfig, whitelist, blacklist, vars
<1>5. ASSUME Configure \/ UNCHANGED vars PROVE DOMAIN movewindows' = {}
  BY <1>5 DEF Configure, init, setconfig, whitelist, blacklist, vars, config, VestedInv, EmptyTable
<1>6. ASSUME Tick
      PROVE  UNCHANGED <<plans, locks, movewindows>> /\ now <= now'
  BY <1>1, <1>6 DEF Tick, config
<1>7. ASSUME Plan
      PROVE  /\ UNCHANGED <<locks, movewindows, now>>
             /\ \A p \in DOMAIN plans :
                   /\ plans'[p].unlock_interval_days = plans[p].unlock_interval_days
                   /\ plans'[p].unlock_times = plans[p].unlock_times
  <2>1. ASSUME NEW u \in Lockers, NEW a \in Assets, NEW i \in Intervals, NEW t \in Times,
               addplan(u, a, i, t)
        PROVE  /\ UNCHANGED <<locks, movewindows, now>>
               /\ \A p \in DOMAIN plans : plans'[p] = plans[p]
    <3>1. \A p \in DOMAIN plans : p # gstate.last_plan_id
      BY DEF IInv, TypeOK, GlobalsOK, TablesOK, IsTable
    <3> QED BY <2>1, <3>1 DEF addplan, Emplace
  <2>2. ASSUME NEW p \in PlanIds, NEW u \in Lockers, setplanowner(p, u)
        PROVE  /\ UNCHANGED <<locks, movewindows, now>>
               /\ \A q \in DOMAIN plans :
                   /\ plans'[q].unlock_interval_days = plans[q].unlock_interval_days
                   /\ plans'[q].unlock_times = plans[q].unlock_times
    BY <2>2 DEF setplanowner, config, IInv, TypeOK, TablesOK, IsTable, PlanRow
  <2>3. ASSUME NEW u \in Lockers, NEW f \in FeeAmounts, NEW p \in PlanIds, ontokentrans(u, f, p)
        PROVE  /\ UNCHANGED <<locks, movewindows, now>>
               /\ \A q \in DOMAIN plans :
                   /\ plans'[q].unlock_interval_days = plans[q].unlock_interval_days
                   /\ plans'[q].unlock_times = plans[q].unlock_times
    BY <2>3 DEF ontokentrans, config, IInv, TypeOK, TablesOK, IsTable, PlanRow
  <2> QED BY <1>7, <2>1, <2>2, <2>3 DEF Plan, NoMoves
<1>8. ASSUME Lock
      PROVE  UNCHANGED <<movewindows, now>> /\ \A k \in DOMAIN locks' : Same(k)
  <2>1. ASSUME NEW u \in Lockers, NEW a \in Assets, NEW n \in LockAmounts, NEW r \in Receivers,
               NEW p \in PlanIds, NEW d \in FirstDays, onnfttrans(u, a, n, r, p, d)
        PROVE  UNCHANGED <<movewindows, now>> /\ \A k \in DOMAIN locks' : Same(k)
    <3> DEFINE id == plans[p].last_lock_id + 1
               new == [locker |-> u, receiver |-> r, issued |-> n, locked |-> n,
                       unlocked |-> 0, first_unlock_days |-> d, status |-> "locked",
                       locked_at |-> now]
    <3>1. /\ p \in DOMAIN plans
          /\ UNCHANGED <<movewindows, now>>
          /\ locks' = Emplace(locks, <<p, id>>, new)
          /\ \A q \in DOMAIN plans :
                /\ plans'[q].unlock_interval_days = plans[q].unlock_interval_days
                /\ plans'[q].unlock_times = plans[q].unlock_times
      BY <2>1 DEF onnfttrans, LockFor, NewLockId, config, IInv, TypeOK, TablesOK, IsTable, PlanRow
    <3> HIDE DEF id
    <3>2. ASSUME NEW k \in DOMAIN locks' PROVE Same(k)
      <4>1. CASE k = <<p, id>>
        <5>1. locks'[k].unlocked = 0
          BY <3>1, <4>1 DEF Emplace
        <5> QED BY <5>1 DEF Follows
      <4>2. CASE k # <<p, id>>
        <5>1. k \in DOMAIN locks /\ locks'[k] = locks[k]
          BY <3>1, <4>2 DEF Emplace
        <5> QED BY <1>1, <1>2, <3>1, <5>1 DEF Follows
      <4> QED BY <4>1, <4>2
    <3> QED BY <3>1, <3>2
  <2>2. ASSUME NEW u \in Lockers, NEW a \in Assets, NEW n \in StrayAmounts,
               onnfttrans_ignored(u, a, n)
        PROVE  UNCHANGED <<movewindows, now>> /\ \A k \in DOMAIN locks' : Same(k)
    <3>1. UNCHANGED <<plans, locks, movewindows, now>>
      BY <2>2 DEF onnfttrans_ignored, config
    <3> QED BY <1>1, <1>3, <3>1
  <2> QED BY <1>8, <2>1, <2>2 DEF Lock
<1>9. ASSUME NEW j, NEW b \in BOOLEAN, _unlock(j, b)
      PROVE  UNCHANGED <<movewindows, now>> /\ \A k \in DOMAIN locks' : Same(k)
  <2> DEFINE l == locks[j]
             r == plans[j[1]]
             t == total_unlocked(l, r)
             f == IF b THEN l.issued - t ELSE 0
  <2>1. /\ j \in DOMAIN locks /\ j[1] \in DOMAIN plans
        /\ l \in LockRow /\ r \in PlanRow /\ l.status = "locked"
        /\ plans' = [plans EXCEPT ![j[1]] = PlanAfter(r, t - l.unlocked, f)]
        /\ locks' = [locks EXCEPT ![j] = LockAfter(l, t, l.issued - t - f, b)]
    BY <1>9, ReleaseEffect
  <2>2. UNCHANGED <<movewindows, now>>
    BY <1>9 DEF _unlock, config
  <2> HIDE DEF t, f
  <2>3. \A q \in DOMAIN plans :
            /\ plans'[q].unlock_interval_days = plans[q].unlock_interval_days
            /\ plans'[q].unlock_times = plans[q].unlock_times
    BY <2>1 DEF PlanAfter, IInv, TypeOK, TablesOK, IsTable, PlanRow
  <2>4. ASSUME NEW k \in DOMAIN locks' PROVE Same(k)
    <3>1. CASE k = j
      <4>1. /\ locks'[k].issued = l.issued /\ locks'[k].locked_at = l.locked_at
            /\ locks'[k].first_unlock_days = l.first_unlock_days
            /\ locks'[k].unlocked = t
        BY <2>1, <3>1 DEF LockAfter, LockRow
      <4> QED BY <1>1, <2>1, <2>2, <2>3, <3>1, <4>1 DEF Follows, t
    <3>2. CASE k # j
      <4>1. k \in DOMAIN locks /\ locks'[k] = locks[k]
        BY <2>1, <3>2
      <4> QED BY <1>1, <1>2, <2>2, <2>3, <4>1 DEF Follows
    <3> QED BY <3>1, <3>2
  <2> QED BY <2>2, <2>4
<1>10. ASSUME NEW p \in PlanIds, NEW c \in MoveCounts, movedata(p, c)
       PROVE  UNCHANGED <<movewindows, now>> /\ \A k \in DOMAIN locks' : Same(k)
  <2> DEFINE cursor  == gstate1.last_move_lock_id + 1
             ahead   == {k \in LocksOf(p) : k[2] >= cursor}
             scanned == {k \in ahead : Cardinality({j \in ahead : j[2] < k[2]}) < c}
             moved   == Movable(scanned)
             amount  == SumFunction([k \in moved |-> locks[k].locked])
             r       == plans[p]
             out     == r.total_unlocked + amount
             left    == r.total_locked - amount
             sum(k)  == locks[k].unlocked + locks[k].locked
             row     == [r EXCEPT !.total_unlocked = out, !.total_locked = left]
             away(k) == [locks[k] EXCEPT !.unlocked = sum(k), !.locked = 0, !.status = "unlocked"]
  <2>1. /\ UNCHANGED <<movewindows, now>>
        /\ p \in DOMAIN plans /\ plans' = [plans EXCEPT ![p] = row]
        /\ locks' = [k \in DOMAIN locks |-> IF k \in moved THEN away(k) ELSE locks[k]]
    BY <1>10 DEF movedata
  <2>2. \A k \in DOMAIN locks : away(k).status = "unlocked"
    <3> HIDE DEF sum
    <3> QED BY DEF IInv, TypeOK, TablesOK, IsTable, LockRow
  <2>3. /\ row.unlock_interval_days = r.unlock_interval_days
        /\ row.unlock_times = r.unlock_times
    <3>1. p \in DOMAIN plans
      BY <2>1
    <3>2. r \in PlanRow
      BY <3>1 DEF IInv, TypeOK, TablesOK, IsTable
    <3> HIDE DEF out, left, r
    <3> QED BY <3>2 DEF PlanRow
  <2> HIDE DEF moved, away, row
  <2>4. \A q \in DOMAIN plans :
            /\ plans'[q].unlock_interval_days = plans[q].unlock_interval_days
            /\ plans'[q].unlock_times = plans[q].unlock_times
    BY <2>1, <2>3
  <2>5. ASSUME NEW k \in DOMAIN locks' PROVE Same(k)
    <3>1. k \in DOMAIN locks /\ (locks'[k] = locks[k] \/ locks'[k].status = "unlocked")
      BY <2>1, <2>2
    <3> QED BY <1>1, <1>2, <2>1, <2>4, <3>1 DEF Follows
  <2> QED BY <2>1, <2>5
<1>11. ASSUME NEW u, NEW to, NEW m, NEW k \in DOMAIN locks, NEW q, onmidtrans(u, m, q, k, to)
       PROVE  FALSE
  BY <1>11 DEF onmidtrans, VestedInv
<1>12. CASE Configure \/ UNCHANGED vars
  BY <1>1, <1>3, <1>4, <1>5, <1>12
<1>13. CASE Tick
  BY <1>3, <1>6, <1>13 DEF VestedInv
<1>14. CASE Plan
  BY <1>1, <1>3, <1>7, <1>14 DEF VestedInv
<1>15. CASE Lock
  BY <1>8, <1>15 DEF VestedInv
<1>16. CASE Release
  BY <1>9, <1>16 DEF Release, unlock, endlock, VestedInv
<1>17. CASE Move
  BY <1>10, <1>11, <1>17 DEF Move, VestedInv
<1> QED BY <1>12, <1>13, <1>14, <1>15, <1>16, <1>17 DEF Next

\* Without moves the assertion of _unlock holds of every live lock: whatever is released,
\* and when, the schedule has released at least as much.
THEOREM ScheduleCoversReleases ==
    ASSUME NoMoves
    PROVE  Spec => []VestedCoversUnlocked
<1>1. Init => VestedInv
  BY DEF Init, VestedInv, VestedCoversUnlocked, EmptyTable
<1>2. IInv /\ IInv' /\ VestedInv /\ [Next]_vars => VestedInv'
  <2> SUFFICES ASSUME IInv, IInv', VestedInv, [Next]_vars PROVE VestedInv'
    OBVIOUS
  <2>1. /\ DOMAIN movewindows' = {}
        /\ \A k \in DOMAIN locks' : locks'[k].status = "locked" => Follows(k)
    BY NoMoves, StepFollows
  <2>2. \A k \in DOMAIN locks' :
            locks'[k].status = "locked"
                => locks'[k].unlocked <= total_unlocked(locks[k], plans[k[1]])'
    BY <2>1, FollowsTheSchedule DEF VestedInv
  <2> QED BY <2>1, <2>2 DEF VestedInv, VestedCoversUnlocked
<1>3. VestedInv => VestedCoversUnlocked
  BY DEF VestedInv
<1> QED BY <1>1, <1>2, <1>3, Invariant, PTL DEF Spec
------------------------------------------------------------------------------
(* The custody as an escrow *)

\* The plans and ids that were asked for are in range.
KeysInv == DOMAIN locks \subseteq EscrowKeys

EscrowInv == IInv /\ KeysInv

\* A key is a plan and an id; the ids of locks are under their plan's counter.
LEMMA KeyTypes ==
    ASSUME IInv
    PROVE  /\ \A j \in EscrowKeys : j = <<j[1], j[2]>> /\ j[1] \in PlanIds /\ j[2] \in LockIds
                                    /\ j[2] \in Nat \ {0}
           /\ \A j \in DOMAIN locks : /\ j[1] \in DOMAIN plans /\ j[2] <= plans[j[1]].last_lock_id
                                      /\ locks[j] \in LockRow /\ locks[j].locked \in Nat
           /\ \A q \in DOMAIN plans : /\ plans[q] \in PlanRow /\ plans[q].last_lock_id \in Nat
                                      /\ plans[q].asset_symbol \in Assets
BY CustodyBounds DEF EscrowKeys, LockIds, IInv, TypeOK, TablesOK, IsTable, PlanRow, LockRow

\* A new id of a plan is the only key that a step uses up.
LEMMA UsedGrows ==
    ASSUME IInv, NEW p \in DOMAIN plans, p \in PlanIds,
           plans[p].last_lock_id + 1 <= MaxLocks,
           DOMAIN plans' = DOMAIN plans,
           plans'[p].last_lock_id = plans[p].last_lock_id + 1,
           \A q \in DOMAIN plans : q # p => plans'[q].last_lock_id = plans[q].last_lock_id
    PROVE  LET k == <<p, plans[p].last_lock_id + 1>>
           IN  k \in EscrowKeys /\ k \notin usedBar /\ k \notin DOMAIN locks
               /\ usedBar' = usedBar \cup {k}
<1> DEFINE id == plans[p].last_lock_id + 1
           k == <<p, id>>
<1>1. id \in Nat \ {0} /\ plans[p].last_lock_id \in Nat /\ id > plans[p].last_lock_id /\ id \in LockIds
  <2>1. plans[p].last_lock_id \in Nat
    BY KeyTypes
  <2> QED BY <2>1, CustodyBounds DEF LockIds
<1>2. k \in EscrowKeys /\ k[1] = p /\ k[2] = id
  BY <1>1 DEF EscrowKeys
<1> HIDE DEF k, id
<1>3. k \notin usedBar
  BY <1>1, <1>2 DEF usedBar
<1>4. k \notin DOMAIN locks
  <2> SUFFICES ASSUME k \in DOMAIN locks PROVE FALSE
    OBVIOUS
  <2>1. k[2] <= plans[p].last_lock_id
    BY <1>2, KeyTypes
  <2> QED BY <1>1, <1>2, <2>1
<1>5. ASSUME NEW j \in EscrowKeys
      PROVE  j \in usedBar' <=> (j \in usedBar \/ j = k)
  <2>0. j = <<j[1], j[2]>> /\ j[2] \in Nat /\ k = <<p, id>>
    BY KeyTypes DEF k
  <2>1. CASE j[1] = p
    <3>1. j \in usedBar' <=> j[2] <= plans[p].last_lock_id + 1
      BY <2>1 DEF usedBar
    <3>2. j \in usedBar <=> j[2] <= plans[p].last_lock_id
      BY <2>1 DEF usedBar
    <3>3. j = k <=> j[2] = id
      BY <2>0, <2>1, <1>2
    <3> QED BY <1>1, <2>0, <3>1, <3>2, <3>3 DEF id
  <2>2. CASE j[1] # p
    BY <2>2, <1>2 DEF usedBar
  <2> QED BY <2>1, <2>2
<1>6. usedBar' \subseteq EscrowKeys /\ usedBar \subseteq EscrowKeys
  BY DEF usedBar
<1>7. usedBar' = usedBar \cup {k}
  BY <1>2, <1>5, <1>6
<1> QED BY <1>2, <1>3, <1>4, <1>7 DEF k, id

\* Keys stay as they are when no plan counts on.
LEMMA UsedStays ==
    ASSUME IInv, DOMAIN plans \subseteq DOMAIN plans',
           \A q \in DOMAIN plans : plans'[q].last_lock_id = plans[q].last_lock_id,
           \A q \in DOMAIN plans' \ DOMAIN plans : plans'[q].last_lock_id = 0
    PROVE  usedBar' = usedBar
<1>1. ASSUME NEW j \in EscrowKeys PROVE j \in usedBar' <=> j \in usedBar
  <2>1. j[2] \in Nat /\ ~ (j[2] <= 0)
    BY KeyTypes
  <2> QED BY <2>1 DEF usedBar
<1> QED BY <1>1 DEF usedBar

\* The plans keep their assets.
AssetsStay == \A q \in DOMAIN plans : plans'[q].asset_symbol = plans[q].asset_symbol

LiveNext(k) == k \in DOMAIN locks' /\ locks'[k].status = "locked"

TermsOf(k, l) == [locker |-> l.locker, receiver |-> l.receiver, asset |-> plans[k[1]].asset_symbol]

\* What is deposited under a key depends on its row alone.
LEMMA DepositIsRow ==
    ASSUME IInv, AssetsStay
    PROVE  /\ DOMAIN termsBar = EscrowKeys /\ DOMAIN heldBar = EscrowKeys
           /\ termsBar' = [k \in EscrowKeys |-> termsBar'[k]]
           /\ heldBar' = [k \in EscrowKeys |-> heldBar'[k]]
           /\ \A k \in EscrowKeys :
                 /\ termsBar[k] = IF Live(k) THEN {TermsOf(k, locks[k])} ELSE {}
                 /\ heldBar[k] = IF Live(k) THEN locks[k].locked ELSE 0
                 /\ heldBar[k] \in Nat
                 /\ LiveNext(k) =>
                       /\ heldBar'[k] = locks'[k].locked
                       /\ termsBar'[k] = {[locker |-> locks'[k].locker, receiver |-> locks'[k].receiver,
                                          asset |-> plans'[k[1]].asset_symbol]}
                 /\ ~ LiveNext(k) => termsBar'[k] = {} /\ heldBar'[k] = 0
                 /\ k \in DOMAIN locks => plans'[k[1]].asset_symbol = plans[k[1]].asset_symbol
<1>1. \A k \in EscrowKeys : heldBar[k] \in Nat
  BY KeyTypes DEF heldBar, Live
<1>2. \A k \in EscrowKeys :
         k \in DOMAIN locks => plans'[k[1]].asset_symbol = plans[k[1]].asset_symbol
  BY KeyTypes DEF AssetsStay
<1> QED BY <1>1, <1>2 DEF termsBar, heldBar, TermsOf, Live, LiveNext

LEMMA RowStays ==
    ASSUME IInv, AssetsStay, NEW k \in EscrowKeys,
           k \in DOMAIN locks <=> k \in DOMAIN locks',
           k \in DOMAIN locks => locks'[k] = locks[k]
    PROVE  termsBar'[k] = termsBar[k] /\ heldBar'[k] = heldBar[k]
<1>1. CASE k \in DOMAIN locks
  <2>1. LiveNext(k) <=> Live(k)
    BY <1>1 DEF Live, LiveNext
  <2> QED BY <1>1, <2>1, DepositIsRow DEF TermsOf
<1>2. CASE k \notin DOMAIN locks
  <2>1. ~ Live(k) /\ ~ LiveNext(k)
    BY <1>2 DEF Live, LiveNext
  <2> QED BY <1>2, <2>1, DepositIsRow
<1> QED BY <1>1, <1>2

\* A transfer, as every account but the contract sees it.
LEMMA PursesMove ==
    ASSUME IInv, NEW a \in Assets, NEW from \in Accounts, NEW p, PassMoves(a, from, p)
    PROVE  /\ p \in [Accounts -> Nat] /\ SumFunction(p) \in 0 .. pass[from][a]
           /\ purseBar' = [x \in Users \cup {Mine} |->
                  [purseBar[x] EXCEPT ![a] = purseBar[x][a] + p[x]
                                             - (IF x = from THEN SumFunction(p) ELSE 0)]]
           /\ \A x \in Users \cup {Mine} : purseBar[x] = pass[x] /\ purseBar[x] \in [Assets -> Nat]
           /\ DOMAIN purseBar = Users \cup {Mine}
<1>1. Users \cup {Mine} \subseteq Accounts
  BY DEF Accounts
<1>2. \A x \in Users \cup {Mine} : purseBar[x] = pass[x] /\ purseBar[x] \in [Assets -> Nat]
  BY <1>1 DEF purseBar, IInv, TypeOK, BalancesOK
<1> DEFINE new(x) == [pass[x] EXCEPT ![a] = pass[x][a] + p[x]
                                             - (IF x = from THEN SumFunction(p) ELSE 0)]
<1>3. /\ p \in [Accounts -> Nat] /\ SumFunction(p) \in 0 .. pass[from][a]
      /\ pass' = [x \in Accounts |-> new(x)]
  BY DEF PassMoves
<1>4. \A x \in Users \cup {Mine} :
         new(x) = [purseBar[x] EXCEPT ![a] = purseBar[x][a] + p[x]
                                             - (IF x = from THEN SumFunction(p) ELSE 0)]
  BY <1>2
<1> HIDE DEF new
<1>5. purseBar' = [x \in Users \cup {Mine} |-> new(x)]
  BY <1>1, <1>3 DEF purseBar
<1> QED BY <1>2, <1>3, <1>4, <1>5 DEF purseBar

\* There are finitely many accounts.
LEMMA AccountsFinite == IsFiniteSet(Accounts)
<1>1. Accounts = (Users \cup {Custody}) \cup {Mine}
  BY DEF Accounts
<1> QED BY <1>1, CustodyAccounts, FS_AddElement

\* What a user sends to the contract leaves its purse.
LEMMA PursePays ==
    ASSUME IInv, NEW a \in Assets, NEW u \in Users, NEW n \in Nat,
           PassMoves(a, u, PayOne(Accounts, Custody, n))
    PROVE  /\ n <= purseBar[u][a]
           /\ purseBar' = [purseBar EXCEPT ![u][a] = purseBar[u][a] - n]
<1> DEFINE p == PayOne(Accounts, Custody, n)
           new(x) == [purseBar[x] EXCEPT ![a] = purseBar[x][a] + p[x]
                                              - (IF x = u THEN SumFunction(p) ELSE 0)]
<1>1. /\ u \in Accounts /\ Custody \in Accounts /\ Custody \notin Users \cup {Mine}
      /\ Users \cup {Mine} \subseteq Accounts /\ u \in Users \cup {Mine}
  BY CustodyAccounts DEF Accounts
<1>2. SumFunction(p) = n
  <2>1. IsFiniteSet(Accounts)
    BY AccountsFinite
  <2>2. DOMAIN p = Accounts /\ n \in Int
    BY DEF PayOne
  <2>3. Sum(p, Accounts) = n
    BY <1>1, <2>1, <2>2, PayOneSum
  <2> HIDE DEF p
  <2> QED BY <2>2, <2>3, SumFunctionIsSum
<1>3. \A x \in Users \cup {Mine} : p[x] = 0
  BY <1>1 DEF PayOne
<1> HIDE DEF p
<1>4. /\ SumFunction(p) \in 0 .. pass[u][a]
      /\ purseBar' = [x \in Users \cup {Mine} |-> new(x)]
      /\ \A x \in Users \cup {Mine} : purseBar[x] = pass[x] /\ purseBar[x] \in [Assets -> Nat]
      /\ DOMAIN purseBar = Users \cup {Mine}
  BY <1>1, PursesMove DEF p
<1>5. \A x \in Users \cup {Mine} : purseBar[x][a] \in Nat
  BY <1>4
<1>6. ASSUME NEW x \in Users \cup {Mine}, x # u PROVE new(x) = purseBar[x]
  <2>1. purseBar[x][a] + p[x] - (IF x = u THEN SumFunction(p) ELSE 0) = purseBar[x][a]
    BY <1>3, <1>5, <1>6
  <2> QED BY <1>4, <2>1
<1>7. new(u) = [purseBar[u] EXCEPT ![a] = purseBar[u][a] - n]
  <2>1. purseBar[u][a] + p[u] - (IF u = u THEN SumFunction(p) ELSE 0) = purseBar[u][a] - n
    BY <1>1, <1>2, <1>3, <1>5
  <2> QED BY <2>1
<1> HIDE DEF new
<1>8. n <= purseBar[u][a]
  BY <1>1, <1>2, <1>4, <1>5
<1>9. purseBar' = [purseBar EXCEPT ![u] = [purseBar[u] EXCEPT ![a] = purseBar[u][a] - n]]
  BY <1>1, <1>4, <1>6, <1>7
<1> QED BY <1>8, <1>9

\* A lock is a deposit.
LEMMA LockForDeposits ==
    ASSUME EscrowInv, NEW u \in Users, NEW a \in Assets, NEW n \in Nat, NEW r \in Users,
           NEW p \in PlanIds, NEW d, LockFor(u, a, n, r, p, d), midsBar' = midsBar
    PROVE  AsEscrow!Next
<1> DEFINE id == plans[p].last_lock_id + 1
           k == <<p, id>>
           lock == [locker |-> u, receiver |-> r, issued |-> n,
                    locked |-> n, unlocked |-> 0, first_unlock_days |-> d,
                    status |-> "locked", locked_at |-> now]
           total_issued == plans[p].total_issued + n
           total_locked == plans[p].total_locked + n
           row == [plans[p] EXCEPT !.total_issued = total_issued, !.total_locked = total_locked,
                                   !.last_lock_id = id]
<1>1. /\ IInv /\ p \in DOMAIN plans /\ a = plans[p].asset_symbol /\ n > 0
      /\ id <= MaxLocks
      /\ PassMoves(a, u, PayOne(Accounts, Custody, n))
      /\ locks' = Emplace(locks, k, lock)
      /\ plans' = [plans EXCEPT ![p] = row]
  BY DEF EscrowInv, LockFor, PlanTakes, NewLockId
<1>2. plans[p] \in PlanRow
  BY <1>1, KeyTypes
<1>3. row.last_lock_id = id /\ row.asset_symbol = plans[p].asset_symbol
  <2> HIDE DEF total_issued, total_locked, id
  <2> QED BY <1>2 DEF PlanRow
<1> HIDE DEF row
<1>4. DOMAIN plans' = DOMAIN plans /\ plans'[p] = row
      /\ \A q \in DOMAIN plans : q # p => plans'[q] = plans[q]
  BY <1>1
<1>5. k \in EscrowKeys /\ k \notin usedBar /\ k \notin DOMAIN locks /\ usedBar' = usedBar \cup {k}
  BY <1>1, <1>3, <1>4, UsedGrows
<1>6. AssetsStay
  BY <1>3, <1>4 DEF AssetsStay
<1>7. k[1] = p /\ lock.locked = n /\ lock.status = "locked" /\ lock.locker = u /\ lock.receiver = r
  OBVIOUS
<1> HIDE DEF k, lock, id
<1>8. /\ DOMAIN locks' = DOMAIN locks \cup {k} /\ locks'[k] = lock
      /\ \A j \in DOMAIN locks : j # k => locks'[j] = locks[j]
  BY <1>1 DEF Emplace
<1>9. termsBar'[k] = {[locker |-> u, receiver |-> r, asset |-> a]} /\ heldBar'[k] = n
  <2>1. LiveNext(k) /\ plans'[k[1]].asset_symbol = a
    BY <1>1, <1>3, <1>4, <1>7, <1>8 DEF LiveNext
  <2> QED BY <1>1, <1>5, <1>6, <1>7, <1>8, <2>1, DepositIsRow
<1>10. \A j \in EscrowKeys : j # k => termsBar'[j] = termsBar[j] /\ heldBar'[j] = heldBar[j]
  BY <1>1, <1>6, <1>8, RowStays
<1>11. /\ termsBar' = [termsBar EXCEPT ![k] = {[locker |-> u, receiver |-> r, asset |-> a]}]
       /\ heldBar' = [heldBar EXCEPT ![k] = n]
  BY <1>1, <1>5, <1>6, <1>9, <1>10, DepositIsRow
<1>12. n <= purseBar[u][a] /\ purseBar' = [purseBar EXCEPT ![u][a] = purseBar[u][a] - n]
  BY <1>1, PursePays
<1>13. purseBar[u][a] \in Nat
  BY <1>1 DEF purseBar, Accounts, IInv, TypeOK, BalancesOK
<1>14. AsEscrow!Deposit(u, r, a, n, k)
  BY <1>5, <1>11, <1>12 DEF AsEscrow!Deposit
<1>15. n \in 1 .. purseBar[u][a]
  BY <1>1, <1>12, <1>13
<1> QED BY <1>5, <1>14, <1>15 DEF AsEscrow!Next, AsEscrow!Step

\* Passes with another memo are nobody's.
LEMMA StrayForfeits ==
    ASSUME EscrowInv, NEW u \in Users, NEW a \in Assets, NEW n \in Nat, n > 0,
           PassMoves(a, u, PayOne(Accounts, Custody, n)), UNCHANGED <<plans, locks, mid>>
    PROVE  AsEscrow!Next
<1>1. IInv
  BY DEF EscrowInv
<1>2. n <= purseBar[u][a] /\ purseBar' = [purseBar EXCEPT ![u][a] = purseBar[u][a] - n]
  BY <1>1, PursePays
<1>3. purseBar[u][a] \in Nat
  BY <1>1 DEF purseBar, Accounts, IInv, TypeOK, BalancesOK
<1>4. UNCHANGED <<usedBar, termsBar, heldBar, midsBar>>
  BY DEF usedBar, termsBar, heldBar, midsBar, Live
<1>5. AsEscrow!Forfeit(u, a, n)
  BY <1>2, <1>4 DEF AsEscrow!Forfeit
<1>6. n \in 1 .. purseBar[u][a]
  BY <1>2, <1>3
<1> QED BY <1>5, <1>6 DEF AsEscrow!Next, AsEscrow!Step

\* What the contract pays to two of the accounts.
LEMMA PursesGet ==
    ASSUME IInv, NEW a \in Assets, NEW v \in Accounts, NEW u \in Accounts,
           NEW n \in Nat, NEW r \in Nat,
           PassMoves(a, Custody, PayBoth(PayOne(Accounts, v, n), PayOne(Accounts, u, r)))
    PROVE  purseBar' = [x \in AsEscrow!Parties |-> [purseBar[x] EXCEPT
               ![a] = @ + AsEscrow!Gives(x, v, n) + AsEscrow!Gives(x, u, r)]]
<1> DEFINE p == PayBoth(PayOne(Accounts, v, n), PayOne(Accounts, u, r))
           new(x) == [purseBar[x] EXCEPT ![a] = purseBar[x][a] + p[x]
                                       - (IF x = Custody THEN SumFunction(p) ELSE 0)]
           gets(x) == purseBar[x][a] + AsEscrow!Gives(x, v, n) + AsEscrow!Gives(x, u, r)
<1>1. /\ Custody \in Accounts /\ Custody \notin Users \cup {Mine}
      /\ Users \cup {Mine} \subseteq Accounts
  BY CustodyAccounts DEF Accounts
<1>2. \A x \in Users \cup {Mine} : p[x] = AsEscrow!Gives(x, v, n) + AsEscrow!Gives(x, u, r)
  BY <1>1 DEF PayBoth, PayOne, AsEscrow!Gives
<1>0. PassMoves(a, Custody, p)
  OBVIOUS
<1> HIDE DEF p
<1>3. /\ purseBar' = [x \in Users \cup {Mine} |-> new(x)]
      /\ \A x \in Users \cup {Mine} : purseBar[x] \in [Assets -> Nat]
  BY <1>0, <1>1, PursesMove
<1>4. ASSUME NEW x \in Users \cup {Mine} PROVE new(x) = [purseBar[x] EXCEPT ![a] = gets(x)]
  <2>1. p[x] = AsEscrow!Gives(x, v, n) + AsEscrow!Gives(x, u, r)
    BY <1>2
  <2>2. AsEscrow!Gives(x, v, n) \in Nat /\ AsEscrow!Gives(x, u, r) \in Nat
    BY DEF AsEscrow!Gives
  <2>3. purseBar[x][a] \in Nat /\ x # Custody
    BY <1>1, <1>3
  <2>4. purseBar[x][a] + p[x] - (IF x = Custody THEN SumFunction(p) ELSE 0) = gets(x)
    BY <2>1, <2>2, <2>3
  <2> QED BY <2>4
<1> HIDE DEF new, gets
<1>5. purseBar' = [x \in Users \cup {Mine} |-> [purseBar[x] EXCEPT ![a] = gets(x)]]
  BY <1>3, <1>4
<1> QED BY <1>5 DEF gets, AsEscrow!Parties

\* A release or an end pays the receiver and the locker out of the deposit.
LEMMA UnlockReleases ==
    ASSUME EscrowInv, NEW k, NEW b \in BOOLEAN, _unlock(k, b)
    PROVE  AsEscrow!Next
<1> DEFINE p == k[1]
           l == locks[k]
           r == plans[p]
           t == total_unlocked(l, r)
           f == IF b THEN l.issued - t ELSE 0
           n == t - l.unlocked
           left == l.issued - t - f
           lock == LockAfter(l, t, left, b)
           row == PlanAfter(r, n, f)
           a == r.asset_symbol
<1>1. /\ IInv /\ k \in DOMAIN locks /\ p \in DOMAIN plans /\ l \in LockRow /\ r \in PlanRow
      /\ l.status = "locked" /\ l.issued = l.locked + l.unlocked
      /\ t \in l.unlocked .. l.issued /\ t \in Nat /\ f \in Nat /\ t + f <= l.issued
      /\ plans' = [plans EXCEPT ![p] = row] /\ locks' = [locks EXCEPT ![k] = lock]
      /\ (b => f = l.issued - t) /\ (~ b => f = 0)
  BY ReleaseEffect DEF EscrowInv
<1>2. /\ PassMoves(a, Custody, PayBoth(PayOne(Accounts, l.receiver, n), PayOne(Accounts, l.locker, f)))
      /\ UNCHANGED <<config, mid>>
  BY DEF _unlock
<1>3. k \in EscrowKeys
  BY <1>1 DEF EscrowInv, KeysInv
<1>4. /\ l.locked \in Nat /\ l.unlocked \in Nat /\ l.issued \in Nat
      /\ l.receiver \in Accounts /\ l.locker \in Accounts /\ a \in Assets
  BY <1>1 DEF LockRow, PlanRow, Accounts
<1>5. /\ n \in 0 .. l.locked /\ f \in 0 .. l.locked - n /\ left = l.locked - (n + f)
      /\ n \in Nat /\ f \in Nat
      /\ (b \/ t = l.issued) => left = 0
      /\ ~ (b \/ t = l.issued) => left > 0
      /\ f > 0 => n + f = l.locked
  <2> HIDE DEF l, t, f
  <2> QED BY <1>1, <1>4
<1>6. row.asset_symbol = a /\ row.last_lock_id = r.last_lock_id
  <2> DEFINE x == r.total_unlocked + n
             y == r.total_refunded + f
             z == r.total_locked - (n + f)
  <2>1. row = [r EXCEPT !.total_unlocked = x, !.total_refunded = y, !.total_locked = z]
    BY DEF PlanAfter
  <2> HIDE DEF x, y, z, row, r
  <2> QED BY <1>1, <2>1 DEF PlanRow, a
<1>7. /\ lock.locked = left /\ lock.receiver = l.receiver /\ lock.locker = l.locker
      /\ lock.status = IF b \/ t = l.issued THEN "unlocked" ELSE "locked"
  <2> HIDE DEF l, t, left
  <2> QED BY <1>1 DEF LockAfter, LockRow
<1> HIDE DEF row, lock
<1>8. /\ DOMAIN plans' = DOMAIN plans
      /\ \A q \in DOMAIN plans : /\ plans'[q].asset_symbol = plans[q].asset_symbol
                                 /\ plans'[q].last_lock_id = plans[q].last_lock_id
  BY <1>1, <1>6
<1>9. AssetsStay /\ usedBar' = usedBar
  BY <1>1, <1>8, UsedStays DEF AssetsStay
<1>10. /\ DOMAIN locks' = DOMAIN locks /\ locks'[k] = lock
       /\ \A j \in DOMAIN locks : j # k => locks'[j] = locks[j]
  BY <1>1
<1> DEFINE q == TermsOf(k, l)
<1>11. /\ termsBar[k] = {q} /\ heldBar[k] = l.locked
       /\ q.receiver = l.receiver /\ q.locker = l.locker /\ q.asset = a
  BY <1>1, <1>3, <1>9, DepositIsRow DEF Live, TermsOf
<1>12. /\ termsBar'[k] = AsEscrow!LessOf(k, n + f)
       /\ heldBar'[k] = heldBar[k] - (n + f)
  <2>1. CASE b \/ t = l.issued
    <3>1. ~ LiveNext(k)
      BY <1>7, <1>10, <2>1 DEF LiveNext
    <3>2. left = 0 /\ n + f = l.locked
      <4> HIDE DEF l, n, f, left
      <4> QED BY <1>4, <1>5, <2>1
    <3>3. heldBar[k] - (n + f) = 0
      BY <1>4, <1>11, <3>2
    <3>4. termsBar'[k] = {} /\ heldBar'[k] = 0
      BY <1>1, <1>3, <1>9, <3>1, DepositIsRow
    <3> HIDE DEF n, f, l
    <3> QED BY <1>11, <3>2, <3>3, <3>4 DEF AsEscrow!LessOf
  <2>2. CASE ~ (b \/ t = l.issued)
    <3>1. LiveNext(k)
      <4> HIDE DEF l, t
      <4> QED BY <1>1, <1>7, <1>10, <2>2 DEF LiveNext
    <3>2. n + f # l.locked /\ left = l.locked - (n + f)
      <4> HIDE DEF l, n, f, left
      <4> QED BY <1>4, <1>5, <2>2
    <3>3. termsBar'[k] = {q} /\ heldBar'[k] = left
      BY <1>1, <1>3, <1>7, <1>9, <1>10, <3>1, DepositIsRow DEF TermsOf
    <3> HIDE DEF n, f, l, q, left
    <3> QED BY <1>11, <3>2, <3>3 DEF AsEscrow!LessOf
  <2> QED BY <2>1, <2>2
<1>13. \A j \in EscrowKeys : j # k => termsBar'[j] = termsBar[j] /\ heldBar'[j] = heldBar[j]
  BY <1>1, <1>9, <1>10, RowStays
<1>14. /\ termsBar' = [termsBar EXCEPT ![k] = AsEscrow!LessOf(k, n + f)]
       /\ heldBar' = [heldBar EXCEPT ![k] = heldBar[k] - (n + f)]
  <2> HIDE DEF n, f
  <2> QED BY <1>1, <1>3, <1>9, <1>12, <1>13, DepositIsRow
<1>15. purseBar' = [x \in AsEscrow!Parties |-> [purseBar[x] EXCEPT
           ![a] = @ + AsEscrow!Gives(x, l.receiver, n) + AsEscrow!Gives(x, l.locker, f)]]
  <2> DEFINE v == l.receiver
             u == l.locker
  <2>1. /\ IInv /\ a \in Assets /\ v \in Accounts /\ u \in Accounts /\ n \in Nat /\ f \in Nat
        /\ PassMoves(a, Custody, PayBoth(PayOne(Accounts, v, n), PayOne(Accounts, u, f)))
    BY <1>1, <1>2, <1>4, <1>5
  <2> HIDE DEF n, f, a, v, u
  <2>2. purseBar' = [x \in AsEscrow!Parties |-> [purseBar[x] EXCEPT
            ![a] = @ + AsEscrow!Gives(x, v, n) + AsEscrow!Gives(x, u, f)]]
    BY <2>1, PursesGet
  <2> QED BY <2>2 DEF v, u
<1>16. midsBar' = midsBar
  BY <1>2 DEF midsBar
<1>17. AsEscrow!Release(k, n, f)
  <2>1. f > 0 => n + f = heldBar[k]
    BY <1>5, <1>11
  <2> HIDE DEF n, f, l, a, q
  <2> QED BY <1>9, <1>11, <1>14, <1>15, <1>16, <2>1 DEF AsEscrow!Release
<1>18. n \in 0 .. heldBar[k] /\ f \in 0 .. heldBar[k] - n
  BY <1>5, <1>11
<1> HIDE DEF n, f
<1> QED BY <1>3, <1>17, <1>18 DEF AsEscrow!Next, AsEscrow!Step

\* A receiver passes on a part of its deposit, for as many MIDs.
LEMMA MovePassesOn ==
    ASSUME EscrowInv, NEW u \in Users, NEW to \in Receivers, NEW m \in Mids,
           NEW k \in DOMAIN locks, NEW q \in 1 .. mid[u][m], onmidtrans(u, m, q, k, to)
    PROVE  AsEscrow!Next
<1> DEFINE p == k[1]
           l == locks[k]
           r == plans[p]
           id == r.last_lock_id + 1
           moved == MinOf(l.locked, q)
           L == LocksLessMoved(k, q)
           n == <<p, id>>
           lock == [l EXCEPT !.receiver = to, !.issued = moved, !.locked = moved,
                             !.unlocked = 0, !.status = "locked"]
           row == [r EXCEPT !.last_lock_id = id]
<1>1. /\ IInv /\ l.locked > 0 /\ mid[u][m] >= q /\ l.receiver = u /\ id <= MaxLocks
      /\ locks' = Emplace(L, n, lock)
      /\ plans' = [plans EXCEPT ![p] = row]
      /\ MidsPassOn(m, u, to, q, moved)
      /\ UNCHANGED <<config, pass, now, stray>>
  BY DEF EscrowInv, onmidtrans, NewLockId
<1>2. /\ mid \in [Accounts -> [Mids -> Nat]] /\ q \in Nat \ {0} /\ u \in Accounts
      /\ mid[u][m] \in Nat /\ to \in Users
  BY <1>1, CustodyInputs DEF IInv, TypeOK, BalancesOK, Accounts
<1>3. /\ l.status = "locked" /\ l \in LockRow /\ moved \in Nat \ {0}
      /\ DOMAIN L \subseteq DOMAIN locks
      /\ \A j \in DOMAIN L : j # k => L[j] = locks[j]
      /\ k \in DOMAIN L =>
            /\ L[k].locked = l.locked - q /\ L[k].status = l.status
            /\ L[k].locker = l.locker /\ L[k].receiver = l.receiver
            /\ l.locked - q > 0
  BY <1>1, <1>2, LessMoved
<1>4. /\ k \in EscrowKeys /\ p \in PlanIds /\ p \in DOMAIN plans /\ r \in PlanRow /\ l.locked \in Nat
  <2>1. k \in EscrowKeys
    BY DEF EscrowInv, KeysInv
  <2> QED BY <1>1, <2>1, KeyTypes
<1>5. /\ moved \in 1 .. l.locked /\ moved <= mid[u][m]
      /\ moved = IF l.locked <= q THEN l.locked ELSE q
  <2> DEFINE x == l.locked
             w == mid[u][m]
  <2>1. x \in Nat /\ x > 0 /\ q \in Nat \ {0} /\ w \in Nat /\ w >= q
    BY <1>1, <1>2, <1>4
  <2>2. moved = MinOf(x, q)
    OBVIOUS
  <2> HIDE DEF x, w, moved
  <2>3. moved = IF x <= q THEN x ELSE q
    BY <2>1, <2>2 DEF MinOf
  <2>4. moved \in 1 .. x /\ moved <= w
    BY <2>1, <2>3
  <2> QED BY <2>3, <2>4 DEF x, w
<1>6. /\ DOMAIN locks \ {k} \subseteq DOMAIN L
      /\ k \in DOMAIN L <=> ~ (l.locked <= q)
  <2>1. CASE l.locked <= q
    BY <2>1 DEF LocksLessMoved, Erase
  <2>2. CASE ~ (l.locked <= q)
    BY <2>2 DEF LocksLessMoved
  <2> QED BY <2>1, <2>2
<1>7. /\ lock.locked = moved /\ lock.status = "locked" /\ lock.locker = l.locker
      /\ lock.receiver = to
  <2> HIDE DEF l, moved
  <2> QED BY <1>3 DEF LockRow
<1>8. row.last_lock_id = id /\ row.asset_symbol = r.asset_symbol
  <2> HIDE DEF r, id
  <2> QED BY <1>4 DEF PlanRow
<1>9. /\ DOMAIN plans' = DOMAIN plans /\ plans'[p] = row
      /\ \A x \in DOMAIN plans : x # p => plans'[x] = plans[x]
  BY <1>1, <1>4
<1> HIDE DEF row
<1>10. n \in EscrowKeys /\ n \notin usedBar /\ n \notin DOMAIN locks /\ usedBar' = usedBar \cup {n}
  BY <1>1, <1>4, <1>8, <1>9, UsedGrows
<1>11. AssetsStay
  BY <1>8, <1>9 DEF AssetsStay
<1>12. n[1] = p /\ n # k
  BY <1>10
<1> HIDE DEF L, n, lock
<1>13. /\ DOMAIN locks' = DOMAIN L \cup {n} /\ locks'[n] = lock
       /\ \A j \in DOMAIN L : j # n => locks'[j] = L[j]
  BY <1>1 DEF Emplace
<1> DEFINE t == TermsOf(k, l)
           v == [locker |-> t.locker, receiver |-> to, asset |-> t.asset]
<1>14. /\ termsBar[k] = {t} /\ heldBar[k] = l.locked /\ t.receiver = u
       /\ t.locker = l.locker /\ t.asset = r.asset_symbol
       /\ [t EXCEPT !.receiver = to] = v
  <2>1. termsBar[k] = {t} /\ heldBar[k] = l.locked
    BY <1>1, <1>3, <1>4, <1>11, DepositIsRow DEF Live
  <2>2. /\ t.receiver = u /\ t.locker = l.locker /\ t.asset = r.asset_symbol
        /\ [t EXCEPT !.receiver = to] = v
    BY <1>1 DEF TermsOf
  <2> QED BY <2>1, <2>2
<1>15. termsBar'[n] = {v} /\ heldBar'[n] = moved
  <2>1. LiveNext(n) /\ plans'[n[1]].asset_symbol = r.asset_symbol
    BY <1>7, <1>8, <1>9, <1>12, <1>13 DEF LiveNext
  <2>2. /\ heldBar'[n] = locks'[n].locked
        /\ termsBar'[n] = {[locker |-> locks'[n].locker, receiver |-> locks'[n].receiver,
                            asset |-> plans'[n[1]].asset_symbol]}
    BY <1>1, <1>10, <1>11, <2>1, DepositIsRow
  <2> HIDE DEF l, t, r, moved
  <2> QED BY <1>7, <1>13, <1>14, <2>1, <2>2
<1>16. termsBar'[k] = AsEscrow!LessOf(k, moved) /\ heldBar'[k] = heldBar[k] - moved
  <2>1. CASE l.locked <= q
    <3>1. ~ LiveNext(k)
      BY <1>6, <1>12, <1>13, <2>1 DEF LiveNext
    <3>2. termsBar'[k] = {} /\ heldBar'[k] = 0
      BY <1>1, <1>4, <1>11, <3>1, DepositIsRow
    <3>3. moved = l.locked
      BY <1>5, <2>1
    <3>4. heldBar[k] - moved = 0
      BY <1>4, <1>14, <3>3
    <3> HIDE DEF l, moved
    <3> QED BY <1>14, <3>2, <3>3, <3>4 DEF AsEscrow!LessOf
  <2>2. CASE ~ (l.locked <= q)
    <3>1. k \in DOMAIN L /\ locks'[k] = L[k] /\ k \in DOMAIN locks'
      BY <1>6, <1>12, <1>13, <2>2
    <3>2. LiveNext(k)
      BY <1>3, <3>1 DEF LiveNext
    <3>3. /\ heldBar'[k] = locks'[k].locked
          /\ termsBar'[k] = {[locker |-> locks'[k].locker, receiver |-> locks'[k].receiver,
                              asset |-> plans'[k[1]].asset_symbol]}
          /\ plans'[k[1]].asset_symbol = plans[k[1]].asset_symbol
      BY <1>1, <1>4, <1>11, <3>2, DepositIsRow
    <3>4. termsBar'[k] = {t} /\ heldBar'[k] = l.locked - q
      BY <1>3, <3>1, <3>3 DEF TermsOf
    <3>5. moved = q /\ moved # l.locked
      <4> HIDE DEF l, moved
      <4> QED BY <1>2, <1>4, <1>5, <2>2
    <3> HIDE DEF l, moved, t
    <3> QED BY <1>14, <3>4, <3>5 DEF AsEscrow!LessOf
  <2> QED BY <2>1, <2>2
<1>17. ASSUME NEW j \in EscrowKeys, j # k, j # n
       PROVE  termsBar'[j] = termsBar[j] /\ heldBar'[j] = heldBar[j]
  <2>1. j \in DOMAIN locks <=> j \in DOMAIN L
    BY <1>3, <1>6, <1>17
  <2>2. j \in DOMAIN locks <=> j \in DOMAIN locks'
    BY <1>13, <1>17, <2>1
  <2>3. j \in DOMAIN locks => locks'[j] = locks[j]
    BY <1>3, <1>13, <1>17, <2>1
  <2> QED BY <1>1, <1>11, <2>2, <2>3, RowStays
<1>18. /\ termsBar' = [termsBar EXCEPT ![k] = AsEscrow!LessOf(k, moved), ![n] = {v}]
       /\ heldBar' = [heldBar EXCEPT ![k] = heldBar[k] - moved, ![n] = moved]
  <2> HIDE DEF moved, v
  <2> QED BY <1>1, <1>4, <1>10, <1>11, <1>12, <1>15, <1>16, <1>17, DepositIsRow
<1>19. midsBar' = [x \in AsEscrow!Parties |-> [midsBar[x] EXCEPT
           ![m] = @ - AsEscrow!Gives(x, u, moved) + AsEscrow!Gives(x, to, moved)]]
  <2> DEFINE g(x) == mid[x][m] - (IF x = u THEN moved ELSE 0) + (IF x = to THEN moved ELSE 0)
  <2>1. mid' = [x \in Accounts |-> [mid[x] EXCEPT ![m] = g(x)]]
    BY <1>1 DEF MidsPassOn
  <2>2. /\ Users \cup {Mine} \subseteq Accounts /\ AsEscrow!Parties = Users \cup {Mine}
        /\ \A x \in Users \cup {Mine} : midsBar[x] = mid[x]
    BY DEF Accounts, AsEscrow!Parties, midsBar
  <2> HIDE DEF moved
  <2>3. \A x : g(x) = mid[x][m] - AsEscrow!Gives(x, u, moved) + AsEscrow!Gives(x, to, moved)
    BY DEF AsEscrow!Gives
  <2> HIDE DEF g
  <2>4. midsBar' = [x \in Users \cup {Mine} |-> [mid[x] EXCEPT ![m] = g(x)]]
    BY <2>1, <2>2 DEF midsBar
  <2> QED BY <2>2, <2>3, <2>4
<1>20. purseBar' = purseBar
  BY <1>1 DEF purseBar
<1>21. moved <= midsBar[u][m]
  BY <1>5 DEF midsBar
<1>22. AsEscrow!PassOn(k, to, m, moved, n)
  <2> HIDE DEF moved, t, l
  <2> QED BY <1>10, <1>14, <1>18, <1>19, <1>20, <1>21 DEF AsEscrow!PassOn
<1>23. moved \in 1 .. heldBar[k]
  BY <1>5, <1>14
<1> HIDE DEF moved
<1> QED BY <1>2, <1>4, <1>10, <1>22, <1>23 DEF AsEscrow!Next, AsEscrow!Step

\* The escrow adds up as the contract does.
LEMMA SumsAgree == ASSUME NEW w PROVE AsEscrow!SumFunction(w) = SumFunction(w)
BY DEF SumFunction, SumFunctionOnSet, FoldFunctionOnSet, MapThenFoldSet, AsEscrow!SumFunction,
       AsEscrow!SumFunctionOnSet, AsEscrow!FoldFunctionOnSet, AsEscrow!MapThenFoldSet

\* The mining contract collects deposits of one asset.
LEMMA MoveDataCollects ==
    ASSUME EscrowInv, NEW p \in PlanIds, NEW c \in MoveCounts, movedata(p, c)
    PROVE  AsEscrow!Next
<1> DEFINE cursor  == gstate1.last_move_lock_id + 1
           ahead   == {k \in LocksOf(p) : k[2] >= cursor}
           scanned == {k \in ahead : Cardinality({j \in ahead : j[2] < k[2]}) < c}
           moved   == Movable(scanned)
           w       == [k \in moved |-> locks[k].locked]
           amount  == SumFunction(w)
           r       == plans[p]
           a       == r.asset_symbol
           pays    == PayOne(Accounts, Mine, amount)
           out     == r.total_unlocked + amount
           left    == r.total_locked - amount
           row     == [r EXCEPT !.total_unlocked = out, !.total_locked = left]
           away(l) == [l EXCEPT !.unlocked = l.unlocked + l.locked, !.locked = 0,
                                !.status = "unlocked"]
<1>1. /\ p \in DOMAIN plans /\ PassMoves(a, Custody, pays)
      /\ plans' = [plans EXCEPT ![p] = row]
      /\ locks' = [k \in DOMAIN locks |-> IF k \in moved THEN away(locks[k]) ELSE locks[k]]
      /\ UNCHANGED mid
  BY DEF movedata
<1>2. IInv /\ r \in PlanRow /\ a \in Assets
  BY <1>1, KeyTypes DEF EscrowInv
<1>3. \A k \in moved : k \in DOMAIN locks /\ k[1] = p /\ locks[k].status = "locked"
  BY DEF Movable, LocksOf
<1> HIDE DEF moved
<1>4. row.last_lock_id = r.last_lock_id /\ row.asset_symbol = a
  <2>1. row.last_lock_id = r.last_lock_id /\ row.asset_symbol = r.asset_symbol
    <3> HIDE DEF r, out, left
    <3> QED BY <1>2 DEF PlanRow
  <2> QED BY <2>1
<1> HIDE DEF row
<1>5. /\ DOMAIN plans' = DOMAIN plans
      /\ \A q \in DOMAIN plans : /\ plans'[q].asset_symbol = plans[q].asset_symbol
                                 /\ plans'[q].last_lock_id = plans[q].last_lock_id
  BY <1>1, <1>4
<1>6. AssetsStay /\ usedBar' = usedBar
  BY <1>2, <1>5, UsedStays DEF AssetsStay
<1>7. /\ DOMAIN locks' = DOMAIN locks
      /\ \A k \in DOMAIN locks : k \notin moved => locks'[k] = locks[k]
      /\ \A k \in moved : locks'[k].status = "unlocked"
  <2>1. \A k \in moved : away(locks[k]).status = "unlocked"
    BY <1>2, <1>3, KeyTypes DEF LockRow
  <2> HIDE DEF away
  <2> QED BY <1>1, <1>3, <2>1
<1>8. moved \subseteq EscrowKeys
  BY <1>3 DEF EscrowInv, KeysInv
<1>9. \A k \in moved : termsBar[k] = {TermsOf(k, locks[k])} /\ heldBar[k] = locks[k].locked
                       /\ TermsOf(k, locks[k]).asset = a
  BY <1>2, <1>3, <1>6, <1>8, DepositIsRow DEF Live, TermsOf
<1>10. /\ termsBar' = [k \in EscrowKeys |-> IF k \in moved THEN {} ELSE termsBar[k]]
       /\ heldBar' = [k \in EscrowKeys |-> IF k \in moved THEN 0 ELSE heldBar[k]]
  <2>1. \A k \in moved : ~ LiveNext(k)
    BY <1>7 DEF LiveNext
  <2>2. \A k \in moved : termsBar'[k] = {} /\ heldBar'[k] = 0
    BY <1>2, <1>6, <1>8, <2>1, DepositIsRow
  <2>3. \A k \in EscrowKeys : k \notin moved => termsBar'[k] = termsBar[k] /\ heldBar'[k] = heldBar[k]
    BY <1>2, <1>6, <1>7, RowStays
  <2>4. /\ termsBar' = [k \in EscrowKeys |-> termsBar'[k]]
        /\ heldBar' = [k \in EscrowKeys |-> heldBar'[k]]
    BY <1>2, <1>6, DepositIsRow
  <2> QED BY <2>2, <2>3, <2>4
<1>11. amount = SumFunction([k \in moved |-> heldBar[k]])
  <2>1. w = [k \in moved |-> heldBar[k]]
    BY <1>9
  <2> HIDE DEF w
  <2> QED BY <2>1
<1> HIDE DEF w, amount
<1>12. purseBar' = [purseBar EXCEPT ![Mine][a] = purseBar[Mine][a] + amount]
  <2>1. /\ Custody \in Accounts /\ Mine \in Accounts /\ Custody \notin Users \cup {Mine}
        /\ Mine \in Users \cup {Mine}
    BY CustodyAccounts DEF Accounts
  <2>2. \A x \in Accounts : pays[x] = IF x = Mine THEN amount ELSE 0
    BY DEF PayOne
  <2> DEFINE new(x) == [purseBar[x] EXCEPT ![a] = purseBar[x][a] + pays[x]
                                          - (IF x = Custody THEN SumFunction(pays) ELSE 0)]
  <2> HIDE DEF pays, a
  <2>3. /\ pays \in [Accounts -> Nat]
        /\ purseBar' = [x \in Users \cup {Mine} |-> new(x)]
        /\ \A x \in Users \cup {Mine} : purseBar[x] \in [Assets -> Nat]
        /\ DOMAIN purseBar = Users \cup {Mine}
    BY <1>1, <1>2, <2>1, PursesMove
  <2>4. amount \in Nat
    BY <2>1, <2>2, <2>3
  <2>5. \A x \in Users \cup {Mine} : purseBar[x][a] \in Nat /\ x # Custody /\ x \in Accounts
    BY <1>2, <2>1, <2>3 DEF Accounts
  <2>6. ASSUME NEW x \in Users \cup {Mine}, x # Mine PROVE new(x) = purseBar[x]
    <3>1. purseBar[x][a] + pays[x] - (IF x = Custody THEN SumFunction(pays) ELSE 0)
              = purseBar[x][a]
      BY <2>2, <2>5, <2>6
    <3> QED BY <2>3, <3>1
  <2>7. new(Mine) = [purseBar[Mine] EXCEPT ![a] = purseBar[Mine][a] + amount]
    <3>1. purseBar[Mine][a] + pays[Mine] - (IF Mine = Custody THEN SumFunction(pays) ELSE 0)
              = purseBar[Mine][a] + amount
      BY <2>1, <2>2, <2>4, <2>5
    <3> QED BY <3>1
  <2> HIDE DEF new
  <2>8. purseBar' = [purseBar EXCEPT ![Mine] = new(Mine)]
    BY <2>1, <2>3, <2>6
  <2> QED BY <2>7, <2>8
<1>13. midsBar' = midsBar
  BY <1>1 DEF midsBar
<1>14. AsEscrow!Collect(moved, a)
  <2>1. \A k \in moved : \E t \in termsBar[k] : t.asset = a
    BY <1>9
  <2> DEFINE s == AsEscrow!SumFunction([k \in moved |-> heldBar[k]])
  <2>2. purseBar' = [purseBar EXCEPT ![Mine][a] = @ + s]
    <3> HIDE DEF a, s
    <3> QED BY <1>11, <1>12, SumsAgree DEF s
  <2>3. UNCHANGED <<usedBar, midsBar>>
    BY <1>6, <1>13
  <2> HIDE DEF a
  <2> QED BY <1>10, <2>1, <2>2, <2>3 DEF AsEscrow!Collect
<1> HIDE DEF a
<1> QED BY <1>2, <1>8, <1>14 DEF AsEscrow!Next, AsEscrow!Step

\* The purses and deposits stay when the locks and the balances do, and no plan counts on.
LEMMA EscrowStays ==
    ASSUME EscrowInv, DOMAIN plans \subseteq DOMAIN plans',
           \A q \in DOMAIN plans : /\ plans'[q].last_lock_id = plans[q].last_lock_id
                                   /\ plans'[q].asset_symbol = plans[q].asset_symbol,
           \A q \in DOMAIN plans' \ DOMAIN plans : plans'[q].last_lock_id = 0,
           UNCHANGED <<locks, pass, mid>>
    PROVE  AsEscrow!Next
<1>1. IInv /\ AssetsStay
  BY DEF EscrowInv, AssetsStay
<1>2. usedBar' = usedBar
  BY <1>1, UsedStays
<1>3. \A k \in EscrowKeys : termsBar'[k] = termsBar[k] /\ heldBar'[k] = heldBar[k]
  BY <1>1, RowStays
<1>4. termsBar' = termsBar /\ heldBar' = heldBar
  <2>1. /\ termsBar = [k \in EscrowKeys |-> termsBar[k]] /\ heldBar = [k \in EscrowKeys |-> heldBar[k]]
    BY DEF termsBar, heldBar
  <2>2. /\ termsBar' = [k \in EscrowKeys |-> termsBar'[k]]
        /\ heldBar' = [k \in EscrowKeys |-> heldBar'[k]]
    BY <1>1, DepositIsRow
  <2> QED BY <1>3, <2>1, <2>2
<1>5. purseBar' = purseBar /\ midsBar' = midsBar
  BY DEF purseBar, midsBar
<1> QED BY <1>2, <1>4, <1>5 DEF AsEscrow!Next, AsEscrow!escrowvars

LEMMA PlanStays == ASSUME EscrowInv, Plan PROVE AsEscrow!Next
<1>0. \A q \in DOMAIN plans : plans[q] \in PlanRow
  BY KeyTypes DEF EscrowInv
<1>1. ASSUME NEW u \in Lockers, NEW a \in Assets, NEW i \in Intervals, NEW t \in Times,
             addplan(u, a, i, t)
      PROVE  AsEscrow!Next
  <2> DEFINE id == gstate.last_plan_id
  <2>1. /\ DOMAIN plans' = DOMAIN plans \cup {id} /\ plans'[id].last_lock_id = 0
        /\ \A q \in DOMAIN plans : q # id => plans'[q] = plans[q]
        /\ UNCHANGED <<locks, pass, mid>>
    BY <1>1 DEF addplan, Emplace
  <2>2. id \notin DOMAIN plans
    BY DEF EscrowInv, IInv, TypeOK, TablesOK, GlobalsOK, IsTable
  <2> HIDE DEF id
  <2> QED BY <2>1, <2>2, EscrowStays
<1>2. ASSUME NEW p \in PlanIds, NEW u \in Lockers, setplanowner(p, u) PROVE AsEscrow!Next
  <2>1. /\ DOMAIN plans' = DOMAIN plans
        /\ \A q \in DOMAIN plans : /\ plans'[q].last_lock_id = plans[q].last_lock_id
                                   /\ plans'[q].asset_symbol = plans[q].asset_symbol
        /\ UNCHANGED <<locks, pass, mid>>
    BY <1>0, <1>2 DEF setplanowner, PlanRow
  <2> QED BY <2>1, EscrowStays
<1>3. ASSUME NEW u \in Lockers, NEW f \in FeeAmounts, NEW m \in PlanIds, ontokentrans(u, f, m)
      PROVE  AsEscrow!Next
  <2> DEFINE p == FeePlan(u, m)
  <2>1. plans' = [plans EXCEPT ![p].status = "enabled"] /\ UNCHANGED <<locks, pass, mid>>
    BY <1>3 DEF ontokentrans
  <2> HIDE DEF p
  <2>2. /\ DOMAIN plans' = DOMAIN plans
        /\ \A q \in DOMAIN plans : /\ plans'[q].last_lock_id = plans[q].last_lock_id
                                   /\ plans'[q].asset_symbol = plans[q].asset_symbol
    BY <1>0, <2>1 DEF PlanRow
  <2> QED BY <2>1, <2>2, EscrowStays
<1>4. ASSUME NEW p \in PlanIds, NEW m \in Mids, NEW x \in Windows, setmovwindow(p, m, x[1], x[2])
      PROVE  AsEscrow!Next
  BY <1>4, EscrowStays DEF setmovwindow
<1> QED BY <1>1, <1>2, <1>3, <1>4 DEF Plan

\* Every step of the custody is one of the escrow, or none.
LEMMA EscrowSteps == EscrowInv /\ [Next]_vars => AsEscrow!Next
<1> SUFFICES ASSUME EscrowInv, [Next]_vars PROVE AsEscrow!Next
  OBVIOUS
<1>1. ASSUME Configure \/ Tick \/ UNCHANGED vars PROVE AsEscrow!Next
  <2>1. UNCHANGED <<plans, locks, pass, mid>>
    BY <1>1 DEF Configure, Tick, vars, init, setconfig, whitelist, blacklist
  <2> QED BY <2>1, EscrowStays
<1>2. ASSUME Lock PROVE AsEscrow!Next
  <2>1. ASSUME NEW u \in Lockers, NEW a \in Assets, NEW n \in LockAmounts, NEW r \in Receivers,
               NEW p \in PlanIds, NEW d \in FirstDays, onnfttrans(u, a, n, r, p, d)
        PROVE  AsEscrow!Next
    <3>1. u \in Users /\ n \in Nat /\ r \in Users
      BY CustodyInputs
    <3>2. LockFor(u, a, n, r, p, d) /\ midsBar' = midsBar
      BY <2>1 DEF onnfttrans, midsBar
    <3> QED BY <3>1, <3>2, LockForDeposits
  <2>2. ASSUME NEW u \in Lockers, NEW a \in Assets, NEW n \in StrayAmounts,
               onnfttrans_ignored(u, a, n)
        PROVE  AsEscrow!Next
    <3>1. u \in Users /\ n \in Nat
      BY CustodyInputs
    <3>2. n > 0 /\ PassMoves(a, u, PayOne(Accounts, Custody, n)) /\ UNCHANGED <<plans, locks, mid>>
      BY <2>2 DEF onnfttrans_ignored
    <3> QED BY <3>1, <3>2, StrayForfeits
  <2> QED BY <1>2, <2>1, <2>2 DEF Lock
<1>3. ASSUME Release PROVE AsEscrow!Next
  BY <1>3, UnlockReleases DEF Release, unlock, endlock
<1>4. ASSUME Move PROVE AsEscrow!Next
  BY <1>4, MovePassesOn, MoveDataCollects DEF Move
<1> QED BY <1>1, <1>2, <1>3, <1>4, PlanStays DEF Next

\* Locks are made under plans and ids in range.
LEMMA KeysStay == EscrowInv /\ [Next]_vars => KeysInv'
<1> SUFFICES ASSUME EscrowInv, [Next]_vars PROVE KeysInv'
  OBVIOUS
<1>1. ASSUME Configure \/ Plan \/ Tick \/ UNCHANGED vars PROVE KeysInv'
  <2>1. locks' = locks
    BY <1>1 DEF Configure, Plan, Tick, vars, init, setconfig, whitelist, blacklist, addplan,
                setplanowner, ontokentrans, setmovwindow
  <2> QED BY <2>1 DEF EscrowInv, KeysInv
<1>2. ASSUME NEW p \in DOMAIN plans, p \in PlanIds, plans[p].last_lock_id + 1 <= MaxLocks,
             DOMAIN locks' \subseteq DOMAIN locks \cup {<<p, plans[p].last_lock_id + 1>>}
      PROVE  KeysInv'
  <2>1. plans[p].last_lock_id + 1 \in LockIds
    <3>1. plans[p].last_lock_id \in Nat
      BY KeyTypes DEF EscrowInv
    <3> QED BY <1>2, <3>1, CustodyBounds DEF LockIds
  <2>2. <<p, plans[p].last_lock_id + 1>> \in EscrowKeys
    BY <1>2, <2>1 DEF EscrowKeys
  <2> QED BY <1>2, <2>2 DEF EscrowInv, KeysInv
<1>3. ASSUME Lock PROVE KeysInv'
  <2>1. ASSUME NEW u \in Lockers, NEW a \in Assets, NEW n \in LockAmounts, NEW r \in Receivers,
               NEW p \in PlanIds, NEW d \in FirstDays, onnfttrans(u, a, n, r, p, d)
        PROVE  KeysInv'
    <3>1. /\ p \in DOMAIN plans /\ plans[p].last_lock_id + 1 <= MaxLocks
          /\ DOMAIN locks' = DOMAIN locks \cup {<<p, plans[p].last_lock_id + 1>>}
      BY <2>1 DEF onnfttrans, LockFor, NewLockId, Emplace
    <3> QED BY <1>2, <3>1
  <2>2. ASSUME NEW u \in Lockers, NEW a \in Assets, NEW n \in StrayAmounts,
               onnfttrans_ignored(u, a, n)
        PROVE  KeysInv'
    BY <2>2 DEF onnfttrans_ignored, EscrowInv, KeysInv
  <2> QED BY <1>3, <2>1, <2>2 DEF Lock
<1>4. ASSUME Release PROVE KeysInv'
  <2>1. DOMAIN locks' = DOMAIN locks
    BY <1>4 DEF Release, unlock, endlock, _unlock
  <2> QED BY <2>1 DEF EscrowInv, KeysInv
<1>5. ASSUME Move PROVE KeysInv'
  <2>1. ASSUME NEW u \in Users, NEW to \in Receivers, NEW m \in Mids, NEW k \in DOMAIN locks,
               NEW q \in 1 .. mid[u][m], onmidtrans(u, m, q, k, to)
        PROVE  KeysInv'
    <3>1. /\ plans[k[1]].last_lock_id + 1 <= MaxLocks
          /\ locks' = Emplace(LocksLessMoved(k, q), <<k[1], plans[k[1]].last_lock_id + 1>>,
                              locks'[<<k[1], plans[k[1]].last_lock_id + 1>>])
      BY <2>1 DEF onmidtrans, NewLockId, Emplace
    <3>2. DOMAIN LocksLessMoved(k, q) \subseteq DOMAIN locks
      BY DEF LocksLessMoved, Erase
    <3>3. k[1] \in DOMAIN plans /\ k[1] \in PlanIds
      BY KeyTypes DEF EscrowInv, KeysInv
    <3>4. DOMAIN locks' \subseteq DOMAIN locks \cup {<<k[1], plans[k[1]].last_lock_id + 1>>}
      BY <3>1, <3>2 DEF Emplace
    <3> QED BY <1>2, <3>1, <3>3, <3>4
  <2>2. ASSUME NEW p \in PlanIds, NEW c \in MoveCounts, movedata(p, c) PROVE KeysInv'
    <3>1. DOMAIN locks' = DOMAIN locks
      BY <2>2 DEF movedata
    <3> QED BY <3>1 DEF EscrowInv, KeysInv
  <2> QED BY <1>5, <2>1, <2>2 DEF Move
<1> QED BY <1>1, <1>3, <1>4, <1>5 DEF Next

\* At first nothing is deposited.
LEMMA EscrowInit ==
    ASSUME Init
    PROVE  /\ KeysInv
           /\ usedBar = {}
           /\ termsBar = [k \in EscrowKeys |-> {}]
           /\ heldBar = [k \in EscrowKeys |-> 0]
           /\ purseBar \in [Users \cup {Mine} -> [Assets -> Nat]]
           /\ midsBar \in [Users \cup {Mine} -> [Mids -> Nat]]
<1>1. DOMAIN plans = {} /\ DOMAIN locks = {} /\ pass = FirstPass /\ mid = FirstMid
  BY DEF Init, EmptyTable
<1>2. \A k : ~ Live(k)
  BY <1>1 DEF Live
<1>3. usedBar = {} /\ KeysInv
  BY <1>1 DEF usedBar, KeysInv
<1>4. termsBar = [k \in EscrowKeys |-> {}] /\ heldBar = [k \in EscrowKeys |-> 0]
  BY <1>2 DEF termsBar, heldBar
<1> QED BY <1>1, <1>3, <1>4, CustodyInputs DEF purseBar, midsBar, Accounts

\* The custody is an escrow: a pass in it leaves only for its receiver, its locker or the
\* mining contract, once, and a part passed on costs as many MIDs as it has passes
\* (pass.custody.cpp:224-417, :476-612).
THEOREM CustodyImplementsEscrow == Spec => ImplementsEscrow
<1>1. Init => KeysInv
  BY EscrowInit
<1>2. EscrowInv /\ [Next]_vars => KeysInv'
  BY KeysStay
<1>3. Spec => []EscrowInv
  BY <1>1, <1>2, Invariant, PTL DEF Spec, EscrowInv
<1>4. EscrowInv /\ [Next]_vars => [AsEscrow!Next]_AsEscrow!escrowvars
  BY EscrowSteps
<1>5. Init => /\ usedBar = {}
              /\ termsBar = [k \in EscrowKeys |-> {}]
              /\ heldBar = [k \in EscrowKeys |-> 0]
              /\ purseBar \in [AsEscrow!Parties -> [Assets -> Nat]]
              /\ midsBar \in [AsEscrow!Parties -> [Mids -> Nat]]
  BY EscrowInit DEF AsEscrow!Parties
<1> QED BY <1>3, <1>4, <1>5, PTL DEF Spec, ImplementsEscrow, AsEscrow!Spec
=============================================================================
