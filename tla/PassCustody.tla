---------------------------- MODULE PassCustody ----------------------------
(***************************************************************************)
(* pass.custody: NFT passes locked under a vesting plan.  A locker sends   *)
(* passes in for a receiver; they are released to the receiver in equal    *)
(* parts as days go by, or refunded to the locker when the lock is ended.  *)
(* A receiver may move what is still locked to another account by sending  *)
(* the same number of MID tokens, and the contract itself may move locks   *)
(* to a mining contract.                                                   *)
(*                                                                         *)
(* One action is one transaction: the handler, its inline transfers and    *)
(* their effects, all or nothing.  Time passes in days, the unit the       *)
(* schedule is computed in.  The lock table is scoped by plan, so a key    *)
(* here is <<plan id, lock id>>.                                           *)
(***************************************************************************)
EXTENDS Tables

CONSTANTS
    Users, Custody, Mine,   \* accounts: users, the contract, a mining contract
    Assets,                 \* token ids of pass.ntoken
    Mids,                   \* token ids of verso.itoken
    MAX_LOCK_DAYS, IntMax,
    Fees, FeeAmounts,       \* plan fees configured, and amounts users pay
    Intervals, Times,       \* schedules plans are added with
    FirstDays,              \* first_unlock_days in lock memos
    Lockers,                \* users that add plans and lock passes
    Receivers,              \* users that lock and move memos name
    LockAmounts,            \* amounts they send in with a lock memo,
    StrayAmounts,           \* and with another one
    Named,                  \* users the white and black lists may name
    MoveCounts,             \* max_count of movedata
    Windows,                \* <<started_at, finished_at>> of move windows
    FirstBlacklist,
    MaxPlans, MaxLocks, MaxDay, \* bounds: plans, lock ids of a plan, days
    FirstPass, FirstMid     \* what the accounts own at first

Accounts == Users \cup {Custody, Mine}

ASSUME CustodyAccounts ==
    IsFiniteSet(Users) /\ Custody \notin Users /\ Mine \notin Users /\ Custody # Mine
ASSUME CustodyBounds ==
    /\ MAX_LOCK_DAYS \in Nat /\ IntMax \in Nat
    /\ MaxPlans \in Nat /\ MaxLocks \in Nat /\ MaxDay \in Nat
ASSUME CustodyInputs ==
    /\ Fees \subseteq Nat /\ FeeAmounts \subseteq Nat /\ FirstDays \subseteq Nat
    /\ Intervals \subseteq Nat /\ Times \subseteq Nat /\ MoveCounts \subseteq Nat
    /\ LockAmounts \subseteq Nat /\ StrayAmounts \subseteq Nat
    /\ Lockers \cup Receivers \subseteq Users /\ Named \subseteq Users /\ FirstBlacklist \subseteq Users
    /\ Windows \subseteq Nat \X Nat
    /\ FirstPass \in [Accounts -> [Assets -> Nat]]
    /\ FirstMid \in [Accounts -> [Mids -> Nat]]
ASSUME CustodyStartsEmpty == \A a \in Assets : FirstPass[Custody][a] = 0

VARIABLES
    gstate,      \* global: plan_fee, last_plan_id
    gstate1,     \* global1: last_move_lock_id, blacklist
    plans,       \* plan id -> row
    locks,       \* <<plan id, lock id>> -> row
    payaccounts, \* owner -> last_plan_id
    movewindows, \* plan id -> row
    whitemovers, \* accounts that may move outside the window
    pass, mid,   \* balances in pass.ntoken and verso.itoken
    now,         \* the day
    stray        \* history: passes sent in without a lock memo

config == <<gstate, gstate1, payaccounts, movewindows, whitemovers>>
vars == <<gstate, gstate1, plans, locks, payaccounts, movewindows, whitemovers,
          pass, mid, now, stray>>

PlanIds == 0 .. MaxPlans - 1
LockIds == 1 .. MaxLocks
LocksOf(p) == {k \in DOMAIN locks : k[1] = p}
MinOf(a, b) == IF a < b THEN a ELSE b

------------------------------------------------------------------------------
(* Vesting *)

\* multiply_decimal64 works out a * b / precision to a tenth and rounds half up;
\* the tenths must fit an int64_t.
Tenths(a, b, precision) == (10 * a * b) \div precision
multiply_decimal64(a, b, precision) == (Tenths(a, b, precision) + 5) \div 10

\* The parts of the schedule that have passed.
unlocked_times(lock, plan) ==
    LET locked_days   == now - lock.locked_at
        unlocked_days == IF locked_days > lock.first_unlock_days
                         THEN locked_days - lock.first_unlock_days ELSE 0
    IN  MinOf(unlocked_days \div plan.unlock_interval_days, plan.unlock_times)

\* What the schedule has released of a lock so far.
total_unlocked(lock, plan) ==
    IF unlocked_times(lock, plan) >= plan.unlock_times
    THEN lock.issued
    ELSE multiply_decimal64(lock.issued, unlocked_times(lock, plan), plan.unlock_times)

\* The checks and assertions on a partial release: the product fits, and what
\* was released before is within what the schedule releases now.
PartFits(lock, plan) ==
    unlocked_times(lock, plan) < plan.unlock_times =>
        /\ Tenths(lock.issued, unlocked_times(lock, plan), plan.unlock_times) <= IntMax
        /\ total_unlocked(lock, plan) \in lock.unlocked .. lock.issued

------------------------------------------------------------------------------
(* Transfers *)

PassMoves(a, from, p) ==
    LET out == SumFunction(p)
    IN  /\ p \in [Accounts -> Nat]
        /\ out \in 0 .. pass[from][a]
        /\ pass' = [x \in Accounts |->
                       [pass[x] EXCEPT ![a] = @ + p[x] - (IF x = from THEN out ELSE 0)]]

------------------------------------------------------------------------------
(* Configuration and plans *)

\* init removes every move window.
init ==
    /\ movewindows' = EmptyTable
    /\ UNCHANGED <<gstate, gstate1, plans, locks, payaccounts, whitemovers, pass, mid, now, stray>>

setconfig(plan_fee) ==
    /\ gstate' = [gstate EXCEPT !.plan_fee = plan_fee]
    /\ UNCHANGED <<gstate1, plans, locks, payaccounts, movewindows, whitemovers,
                   pass, mid, now, stray>>

\* Plan ids start from 0; the pay account is written after the counter has advanced.
addplan(owner, a, interval, times) ==
    LET id == gstate.last_plan_id
    IN  /\ interval \in 1 .. MAX_LOCK_DAYS /\ times > 0
        /\ id < MaxPlans
        /\ plans' = Emplace(plans, id,
               [owner |-> owner, asset_symbol |-> a,
                unlock_interval_days |-> interval, unlock_times |-> times,
                total_issued |-> 0, total_locked |-> 0,
                total_unlocked |-> 0, total_refunded |-> 0,
                status |-> IF gstate.plan_fee # 0 THEN "feeunpaid" ELSE "enabled",
                last_lock_id |-> 0])
        /\ gstate' = [gstate EXCEPT !.last_plan_id = id + 1]
        /\ payaccounts' = Emplace(payaccounts, owner, id + 1)
        /\ UNCHANGED <<gstate1, locks, movewindows, whitemovers, pass, mid, now, stray>>

setplanowner(p, new_owner) ==
    /\ p \in DOMAIN plans
    /\ plans' = [plans EXCEPT ![p].owner = new_owner]
    /\ UNCHANGED <<config, locks, pass, mid, now, stray>>

\* The plan a fee payment names; 0 stands for "plan:" without an id, since
\* "plan:0" is refused.
FeePlan(from, memo) ==
    IF memo = 0 /\ from \in DOMAIN payaccounts THEN payaccounts[from] ELSE memo

\* ontokentrans: the fee is passed on, and the plan enabled.
ontokentrans(from, amount, memo) ==
    LET p == FeePlan(from, memo)
    IN  /\ amount > 0 /\ amount = gstate.plan_fee
        /\ p # 0 /\ p \in DOMAIN plans
        /\ plans[p].status = "feeunpaid"
        /\ plans' = [plans EXCEPT ![p].status = "enabled"]
        /\ UNCHANGED <<config, locks, pass, mid, now, stray>>

setmovwindow(p, m, started_at, finished_at) ==
    /\ p \in DOMAIN plans
    /\ started_at < finished_at
    /\ movewindows' = Emplace(movewindows, p,
           [symbol |-> m, started_at |-> started_at, finished_at |-> finished_at])
    /\ UNCHANGED <<gstate, gstate1, plans, locks, payaccounts, whitemovers, pass, mid, now, stray>>

whitelist(owner, to_add) ==
    /\ IF to_add THEN owner \notin whitemovers ELSE owner \in whitemovers
    /\ whitemovers' = IF to_add THEN whitemovers \cup {owner} ELSE whitemovers \ {owner}
    /\ UNCHANGED <<gstate, gstate1, plans, locks, payaccounts, movewindows, pass, mid, now, stray>>

\* Both directions require the name to be absent, so a removal removes nothing.
blacklist(owner, to_add) ==
    /\ owner \notin gstate1.blacklist
    /\ gstate1' = [gstate1 EXCEPT !.blacklist =
                       IF to_add THEN @ \cup {owner} ELSE @ \ {owner}]
    /\ UNCHANGED <<gstate, plans, locks, payaccounts, movewindows, whitemovers,
                   pass, mid, now, stray>>

------------------------------------------------------------------------------
(* Locks *)

\* Mutant: passes are locked under a plan whose fee is unpaid.
BugAnyStatus(plan, a) == plan.asset_symbol = a

PlanTakes(plan, a) == plan.status = "enabled" /\ plan.asset_symbol = a

\* Mutant: ids are counted from the rows present.
BugIdFromRows(p) == Cardinality(LocksOf(p)) + 1

NewLockId(p) == plans[p].last_lock_id + 1

\* What onnfttrans does with a "lock" memo.
LockFor(from, a, quantity, receiver, p, first_unlock_days) ==
    LET id == NewLockId(p)
    IN  /\ p \in DOMAIN plans
        /\ PlanTakes(plans[p], a)
        /\ quantity > 0 /\ first_unlock_days <= MAX_LOCK_DAYS
        /\ id <= MaxLocks
        /\ PassMoves(a, from, PayOne(Accounts, Custody, quantity))
        /\ plans' = [plans EXCEPT ![p].total_issued = @ + quantity,
                                  ![p].total_locked = @ + quantity,
                                  ![p].last_lock_id = id]
        /\ locks' = Emplace(locks, <<p, id>>,
               [locker |-> from, receiver |-> receiver, issued |-> quantity,
                locked |-> quantity, unlocked |-> 0,
                first_unlock_days |-> first_unlock_days,
                status |-> "locked", locked_at |-> now])
        /\ UNCHANGED <<config, now, stray>>

onnfttrans(from, a, quantity, receiver, p, first_unlock_days) ==
    /\ LockFor(from, a, quantity, receiver, p, first_unlock_days)
    /\ UNCHANGED mid

\* onnfttrans with any other memo: the contract keeps the passes.
onnfttrans_ignored(from, a, quantity) ==
    /\ quantity > 0
    /\ PassMoves(a, from, PayOne(Accounts, Custody, quantity))
    /\ stray' = [stray EXCEPT ![a] = @ + quantity]
    /\ UNCHANGED <<config, plans, locks, mid, now>>

\* Mutant: a part moved away stays in the lock it came from.
BugMoveCopies(k, quant) ==
    IF locks[k].locked <= quant
    THEN Erase(locks, {k})
    ELSE [locks EXCEPT ![k].issued = @ - quant]

\* Mutant: the lock goes on vesting what was moved away.
BugMoveKeepsIssued(k, quant) ==
    IF locks[k].locked <= quant
    THEN Erase(locks, {k})
    ELSE [locks EXCEPT ![k].locked = @ - quant]

\* What a move of quant leaves of the lock it is taken from.
LocksLessMoved(k, quant) ==
    IF locks[k].locked <= quant
    THEN Erase(locks, {k})
    ELSE [locks EXCEPT ![k].issued = @ - quant, ![k].locked = @ - quant]

\* Mutant: the MIDs beyond the amount moved are kept.
BugKeepLeft(m, from, to, quant, moved) ==
    mid' = [a \in Accounts |->
               [mid[a] EXCEPT ![m] = @ - (IF a = from THEN quant ELSE 0)
                                       + (IF a = to THEN moved ELSE 0)
                                       + (IF a = Custody THEN quant - moved ELSE 0)]]

\* The MIDs go on to the new receiver; those beyond the amount moved come back.
MidsPassOn(m, from, to, quant, moved) ==
    mid' = [a \in Accounts |->
               [mid[a] EXCEPT ![m] = @ - (IF a = from THEN moved ELSE 0)
                                       + (IF a = to THEN moved ELSE 0)]]

\* onmidtrans: the receiver of lock k moves up to quant of it to another account.
\* A lock moved whole is erased, and its locker and time are read from the erased
\* row, which the contract's allocator leaves in memory.
onmidtrans(from, m, quant, k, to) ==
    LET p     == k[1]
        lock  == locks[k]
        id    == NewLockId(p)
        moved == MinOf(lock.locked, quant)
    IN  /\ mid[from][m] >= quant /\ quant > 0
        /\ p \in DOMAIN movewindows
        /\ movewindows[p].symbol = m
        /\ \/ from \in whitemovers
           \/ now \in movewindows[p].started_at .. movewindows[p].finished_at
        /\ k \in DOMAIN locks
        /\ lock.locked > 0 /\ lock.receiver = from
        /\ id <= MaxLocks
        /\ locks' = Emplace(LocksLessMoved(k, quant), <<p, id>>,
               [lock EXCEPT !.receiver = to, !.issued = moved, !.locked = moved,
                            !.unlocked = 0, !.status = "locked"])
        /\ plans' = [plans EXCEPT ![p].last_lock_id = id]
        /\ MidsPassOn(m, from, to, quant, moved)
        /\ UNCHANGED <<config, pass, now, stray>>

\* Mutant: a refund is not taken off the plan's locked total.
BugRefundTotals(plan, released, refunded) ==
    [plan EXCEPT !.total_unlocked = @ + released,
                 !.total_refunded = @ + refunded,
                 !.total_locked   = @ - released]

PlanAfter(plan, released, refunded) ==
    [plan EXCEPT !.total_unlocked = @ + released,
                 !.total_refunded = @ + refunded,
                 !.total_locked   = @ - (released + refunded)]

\* Mutant: a lock whose schedule is over is not closed.
BugNeverClosed(lock, total, remaining, to_terminate) ==
    [lock EXCEPT !.unlocked = total, !.locked = remaining,
                 !.status = IF to_terminate THEN "unlocked" ELSE @]

\* Mutant: the total released is added to what was released before.
BugReleasedTwice(lock, total, remaining, to_terminate) ==
    [lock EXCEPT !.unlocked = @ + total, !.locked = remaining,
                 !.status = IF to_terminate \/ total = lock.issued THEN "unlocked" ELSE @]

\* Mutant: a lock ended before its schedule is over stays open.
BugEndedStaysOpen(lock, total, remaining, to_terminate) ==
    [lock EXCEPT !.unlocked = total, !.locked = remaining,
                 !.status = IF total = lock.issued THEN "unlocked" ELSE @]

LockAfter(lock, total, remaining, to_terminate) ==
    [lock EXCEPT !.unlocked = total, !.locked = remaining,
                 !.status = IF to_terminate \/ total = lock.issued THEN "unlocked" ELSE @]

\* _unlock releases what the schedule allows to the receiver and, to end the
\* lock, refunds the rest to the locker.
_unlock(k, to_terminate) ==
    LET p        == k[1]
        lock     == locks[k]
        plan     == plans[p]
        total    == total_unlocked(lock, plan)
        released == total - lock.unlocked
        rest     == lock.issued - total
        refunded == IF to_terminate THEN rest ELSE 0
    IN  /\ k \in DOMAIN locks /\ p \in DOMAIN plans
        /\ plan.status = "enabled" /\ lock.status = "locked"
        /\ PartFits(lock, plan)
        /\ released > 0 \/ to_terminate
        /\ plan.total_locked >= released + refunded
        /\ PassMoves(plan.asset_symbol, Custody,
               PayBoth(PayOne(Accounts, lock.receiver, released),
                       PayOne(Accounts, lock.locker, refunded)))
        /\ plans' = [plans EXCEPT ![p] = PlanAfter(plan, released, refunded)]
        /\ locks' = [locks EXCEPT ![k] = LockAfter(lock, total, rest - refunded, to_terminate)]
        /\ UNCHANGED <<config, mid, now, stray>>

\* By any account: the release goes to the receiver all the same.
unlock(k) == _unlock(k, FALSE)

\* By the locker or the contract.
endlock(locker, k) ==
    /\ k \in DOMAIN locks
    /\ locker \in {locks[k].locker, Custody}
    /\ _unlock(k, TRUE)

Movable(scanned) ==
    {k \in scanned : locks[k].status = "locked" /\ locks[k].receiver \notin gstate1.blacklist}

\* movedata / _transfer_to_mine: of the max_count locks of the plan from the cursor
\* on, those locked and not blacklisted go to the mining contract.  The loop does
\* not stop at the last lock: with fewer than max_count locks ahead it aborts.  The
\* cursor is left on the last lock moved.
movedata(p, max_count) ==
    LET cursor  == gstate1.last_move_lock_id + 1
        ahead   == {k \in LocksOf(p) : k[2] >= cursor}
        scanned == {k \in ahead : Cardinality({j \in ahead : j[2] < k[2]}) < max_count}
        moved   == Movable(scanned)
        amount  == SumFunction([k \in moved |-> locks[k].locked])
    IN  /\ p \in DOMAIN plans /\ plans[p].status = "enabled"
        /\ ahead # {} /\ max_count <= Cardinality(ahead)
        /\ PassMoves(plans[p].asset_symbol, Custody, PayOne(Accounts, Mine, amount))
        /\ plans' = [plans EXCEPT ![p].total_unlocked = @ + amount,
                                  ![p].total_locked = @ - amount]
        /\ locks' = [k \in DOMAIN locks |->
                        IF k \in moved
                        THEN [locks[k] EXCEPT !.unlocked = @ + locks[k].locked,
                                              !.locked = 0, !.status = "unlocked"]
                        ELSE locks[k]]
        /\ \E last \in {cursor} \cup {k[2] : k \in moved} :
              /\ \A k \in moved : k[2] <= last
              /\ gstate1' = [gstate1 EXCEPT !.last_move_lock_id = last]
        /\ UNCHANGED <<gstate, payaccounts, movewindows, whitemovers, mid, now, stray>>

------------------------------------------------------------------------------
(* The specification *)

Tick ==
    /\ now < MaxDay
    /\ now' = now + 1
    /\ UNCHANGED <<config, plans, locks, pass, mid, stray>>

Init ==
    /\ gstate = [plan_fee |-> 0, last_plan_id |-> 0]
    /\ gstate1 = [last_move_lock_id |-> 0, blacklist |-> FirstBlacklist]
    /\ plans = EmptyTable
    /\ locks = EmptyTable
    /\ payaccounts = EmptyTable
    /\ movewindows = EmptyTable
    /\ whitemovers = {}
    /\ pass = FirstPass
    /\ mid = FirstMid
    /\ now = 0
    /\ stray = [a \in Assets |-> 0]

Configure ==
    \/ init
    \/ \E f \in Fees : setconfig(f)
    \/ \E u \in Named, b \in BOOLEAN : whitelist(u, b)
    \/ \E u \in Named, b \in BOOLEAN : blacklist(u, b)

Plan ==
    \/ \E u \in Lockers, a \in Assets, i \in Intervals, t \in Times : addplan(u, a, i, t)
    \/ \E p \in PlanIds, u \in Lockers : setplanowner(p, u)
    \/ \E u \in Lockers, f \in FeeAmounts, p \in PlanIds : ontokentrans(u, f, p)
    \/ \E p \in PlanIds, m \in Mids, w \in Windows : setmovwindow(p, m, w[1], w[2])

Lock ==
    \E u \in Lockers, a \in Assets :
        \/ \E n \in LockAmounts, r \in Receivers, p \in PlanIds, d \in FirstDays :
               onnfttrans(u, a, n, r, p, d)
        \/ \E n \in StrayAmounts : onnfttrans_ignored(u, a, n)

Release ==
    \E k \in DOMAIN locks :
        \/ unlock(k)
        \/ \E u \in Users \cup {Custody} : endlock(u, k)

Move ==
    \/ \E u \in Users, to \in Receivers, m \in Mids, k \in DOMAIN locks :
           \E q \in 1 .. mid[u][m] : onmidtrans(u, m, q, k, to)
    \/ \E p \in PlanIds, n \in MoveCounts : movedata(p, n)

Next == Configure \/ Plan \/ Lock \/ Release \/ Move \/ Tick

Spec == Init /\ [][Next]_vars

\* Time passes, and somebody asks for what a lock releases: unlock takes any account.
FairSpec ==
    /\ Spec
    /\ WF_vars(Tick)
    /\ \A k \in PlanIds \X LockIds : WF_vars(unlock(k))
------------------------------------------------------------------------------
(* Rows *)

PlanRow == [owner : Users, asset_symbol : Assets,
            unlock_interval_days : Nat \ {0}, unlock_times : Nat \ {0},
            total_issued : Nat, total_locked : Int, total_unlocked : Nat,
            total_refunded : Nat, status : {"feeunpaid", "enabled"}, last_lock_id : Nat]
LockRow == [locker : Users, receiver : Users, issued : Nat \ {0}, locked : Nat,
            unlocked : Nat, first_unlock_days : Nat,
            status : {"locked", "unlocked"}, locked_at : Nat]
WindowRow == [symbol : Mids, started_at : Nat, finished_at : Nat]

LockedIn(p) == SumFunction([k \in LocksOf(p) |-> locks[k].locked])
Live(k) == k \in DOMAIN locks /\ locks[k].status = "locked"
EndOfSchedule(k) ==
    locks[k].locked_at + locks[k].first_unlock_days
        + plans[k[1]].unlock_interval_days * plans[k[1]].unlock_times
PlansOf(a) == {p \in DOMAIN plans : plans[p].asset_symbol = a}

------------------------------------------------------------------------------
(* Properties *)

GlobalsOK ==
    /\ gstate \in [plan_fee : Nat, last_plan_id : Nat]
    /\ gstate1 \in [last_move_lock_id : Nat, blacklist : SUBSET Users]
    /\ whitemovers \subseteq Users
    /\ now \in Nat
    /\ stray \in [Assets -> Nat]

TablesOK ==
    /\ IsTable(plans, 0 .. gstate.last_plan_id - 1, PlanRow)
    /\ IsTable(locks, (DOMAIN plans) \X (Nat \ {0}), LockRow)
    /\ \A k \in DOMAIN locks :
          /\ k[2] <= plans[k[1]].last_lock_id
          /\ plans[k[1]].status = "enabled"
          /\ locks[k].locked_at <= now
    /\ IsTable(payaccounts, Users, 1 .. gstate.last_plan_id)
    /\ IsTable(movewindows, DOMAIN plans, WindowRow)

BalancesOK ==
    /\ pass \in [Accounts -> [Assets -> Nat]]
    /\ mid \in [Accounts -> [Mids -> Nat]]

\* Every variable has its type; a lock belongs to an enabled plan and has an id
\* under the plan's counter, so no new lock takes an id in use.
TypeOK == GlobalsOK /\ TablesOK /\ BalancesOK

\* What was issued to a live lock is either still locked or already released, and
\* something is still locked; a closed lock has nothing locked.
LockSplit ==
    \A k \in DOMAIN locks :
        LET l == locks[k]
        IN  IF l.status = "locked"
            THEN l.locked > 0 /\ l.issued = l.locked + l.unlocked
            ELSE l.locked = 0 /\ l.unlocked <= l.issued

\* Everything deposited under a plan is locked, released or refunded.
PlanSplit ==
    \A p \in DOMAIN plans :
        plans[p].total_issued =
            plans[p].total_locked + plans[p].total_unlocked + plans[p].total_refunded

\* The plan's locked total is the sum over its locks, through moves that split,
\* erase and recreate them.
PlanTotalsMatchLocks == \A p \in DOMAIN plans : plans[p].total_locked = LockedIn(p)

\* The contract holds exactly the passes locked under its plans and those sent in
\* without a lock memo.
CustodyHolds ==
    \A a \in Assets :
        pass[Custody][a] =
            stray[a] + SumFunction([p \in PlansOf(a) |-> plans[p].total_locked])

\* A move keeps no MID: those beyond the amount moved come back to the mover.
MidsPassThrough == \A m \in Mids : mid[Custody][m] = FirstMid[Custody][m]

\* The schedule never falls behind what a live lock has released, which _unlock
\* asserts before it computes the difference.
VestedCoversUnlocked ==
    \A k \in DOMAIN locks :
        locks[k].status = "locked"
            => locks[k].unlocked <= total_unlocked(locks[k], plans[k[1]])

\* Nobody's passes are stuck: a live lock whose schedule ends in time is closed, or
\* moved away whole, whatever moves, endings and other locks do to the plan's totals.
LocksRunOut ==
    \A k \in PlanIds \X LockIds : Live(k) /\ EndOfSchedule(k) <= MaxDay ~> ~Live(k)

\* A lock that stays keeps its parties and its schedule, releases are never taken
\* back, what is issued shrinks by what is moved away only, and a closed lock is final.
LocksOnlyRunDown ==
    [][\A k \in DOMAIN locks \cap DOMAIN locks' :
          LET l == locks[k]
              n == locks'[k]
          IN  /\ n.locker = l.locker /\ n.receiver = l.receiver
              /\ n.first_unlock_days = l.first_unlock_days /\ n.locked_at = l.locked_at
              /\ l.unlocked <= n.unlocked
              /\ n.issued <= l.issued /\ l.issued - n.issued <= l.locked - n.locked
              /\ l.status = "unlocked" => n = l]_vars

\* "plan:" without an id pays for the last plan its payer added (pass.custody.hpp:46).
LastPlanIsPaid ==
    [][\A u \in DOMAIN payaccounts' :
          (u \notin DOMAIN payaccounts \/ payaccounts'[u] # payaccounts[u])
              => DOMAIN plans' \ DOMAIN plans = {FeePlan(u, 0)'}]_vars

\* When no lock of the plan is ahead of the cursor, movedata says "move completed":
\* then every lock of the plan that may be moved has been.
MoveCompletedMeansMoved ==
    \A p \in DOMAIN plans :
        (\A k \in LocksOf(p) : k[2] <= gstate1.last_move_lock_id)
            => Movable(LocksOf(p)) = {}
------------------------------------------------------------------------------
(* Refinement *)

\* A live lock is a deposit of its plan's asset; the ids up to a plan's counter have
\* been given out.
EscrowKeys == PlanIds \X LockIds
usedBar == {k \in EscrowKeys : k[1] \in DOMAIN plans /\ k[2] <= plans[k[1]].last_lock_id}
termsBar == [k \in EscrowKeys |->
    IF Live(k) THEN {[locker |-> locks[k].locker, receiver |-> locks[k].receiver,
                      asset |-> plans[k[1]].asset_symbol]}
    ELSE {}]
heldBar == [k \in EscrowKeys |-> IF Live(k) THEN locks[k].locked ELSE 0]
purseBar == [x \in Users \cup {Mine} |-> pass[x]]
midsBar  == [x \in Users \cup {Mine} |-> mid[x]]

AsEscrow == INSTANCE Escrow WITH
    Collector <- Mine, Keys <- EscrowKeys, used <- usedBar, terms <- termsBar,
    held <- heldBar, purse <- purseBar, mids <- midsBar

\* The custody is an escrow: whatever releases, endings, moves of parts and batches to
\* the mining contract do to its locks, a pass leaves only for its receiver, its locker
\* or the mining contract, once, and a part passed on costs as many MIDs as it has passes.
ImplementsEscrow == AsEscrow!Spec
=============================================================================
