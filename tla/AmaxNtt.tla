------------------------------- MODULE AmaxNtt -------------------------------
(***************************************************************************)
(* amax.ntt: a token that is not traded freely.  A transfer needs a sender *)
(* who may send or a receiver who may receive; the issuer gives both       *)
(* permissions.  A balance that nothing touched for a year is burned by    *)
(* whoever comes first, for a part of it.                                  *)
(*                                                                         *)
(* sum_balance is written and never read, and left out.  The names that    *)
(* the NFT contracts have too end in _ntt.                                 *)
(***************************************************************************)
EXTENDS Tables

CONSTANTS
    Holders,        \* accounts
    Blacklisted,    \* by amax.token: they send nothing
    Tokens,         \* symbols [code, precision]
    Supplies, Sums, \* maximum supplies, and amounts of the other actions
    YEAR,           \* YEAR_SECONDS, in days
    LastDay         \* bound: days

ASSUME NttInputs ==
    /\ IsFiniteSet(Holders) /\ Blacklisted \subseteq Holders
    /\ Supplies \subseteq Nat \ {0} /\ Sums \subseteq Nat \ {0}
    /\ YEAR \in Nat /\ LastDay \in Nat

VARIABLES
    stat,       \* symbol code -> supply, its symbol, its maximum and the issuer
    holdings,   \* accounts: <<owner, symbol code>> -> row
    day,
    touched     \* history: <<owner, symbol code>> -> day of the last payment to the
                \* account, or from it that left something

nttvars == <<stat, holdings, day, touched>>

PERCENT_BOOST  == 10000
REWARD_PERCENT == 500

Codes == {sym.code : sym \in Tokens}

HeldBy(u, c) == IF <<u, c>> \in DOMAIN holdings THEN holdings[<<u, c>>].balance ELSE 0

------------------------------------------------------------------------------
(* Balances *)

NewRow(sym, amount, allowsend, allowrecv, expired_at) ==
    [symbol |-> sym, balance |-> amount, allow_send |-> allowsend, allow_recv |-> allowrecv,
     expired_at |-> expired_at]

\* Assets of different precision are not added.
CanAdd(t, k, sym) == k \in DOMAIN t => t[k].symbol = sym

\* Mutant: a payment to an account with a row does not put its end off.
BugOldExpiry(row) == row.expired_at

Renewed(row) == day + YEAR

add_balance(t, k, sym, amount) ==
    IF k \in DOMAIN t
    THEN [t EXCEPT ![k].balance = @ + amount, ![k].expired_at = Renewed(t[k])]
    ELSE Emplace(t, k, NewRow(sym, amount, FALSE, FALSE, day + YEAR))

CanSub(k, sym, amount) ==
    k \in DOMAIN holdings /\ holdings[k].symbol = sym /\ holdings[k].balance >= amount

sub_balance(k, amount) ==
    [holdings EXCEPT ![k].balance = @ - amount,
                     ![k].expired_at = IF holdings[k].balance = amount THEN @ ELSE day + YEAR]

Touch(K) == [k \in DOMAIN touched \cup K |-> IF k \in K THEN day ELSE touched[k]]

------------------------------------------------------------------------------
(* Actions *)

Exists(sym) == sym.code \in DOMAIN stat /\ stat[sym.code].symbol = sym

\* By the contract itself.
create_ntt(issuer, sym, maximum_supply) ==
    /\ sym.code \notin DOMAIN stat
    /\ stat' = Emplace(stat, sym.code,
           [symbol |-> sym, supply |-> 0, max_supply |-> maximum_supply, issuer |-> issuer])
    /\ UNCHANGED <<holdings, day, touched>>

\* By the issuer, to itself.
issue_ntt(sym, amount) ==
    /\ Exists(sym)
    /\ amount <= stat[sym.code].max_supply - stat[sym.code].supply
    /\ LET k == <<stat[sym.code].issuer, sym.code>>
       IN  /\ CanAdd(holdings, k, sym)
           /\ holdings' = add_balance(holdings, k, sym, amount)
           /\ touched' = Touch({k})
    /\ stat' = [stat EXCEPT ![sym.code].supply = @ + amount]
    /\ UNCHANGED day

\* By the issuer, out of its own balance.
retire_ntt(sym, amount) ==
    /\ Exists(sym)
    /\ LET k == <<stat[sym.code].issuer, sym.code>>
       IN  /\ CanSub(k, sym, amount)
           /\ holdings' = sub_balance(k, amount)
           /\ touched' = Touch({k})
    /\ stat' = [stat EXCEPT ![sym.code].supply = @ - amount]
    /\ UNCHANGED day

\* multiply_decimal, which rounds half up.
RewardOf(amount) == ((10 * amount * REWARD_PERCENT) \div PERCENT_BOOST + 5) \div 10

BugBurnAll(amount) == amount

BurnedOf(amount) == amount - RewardOf(amount)

\* By anybody, itself included, on the whole of a balance.
burn(predator, victim, sym) ==
    LET v == <<victim, sym.code>>
        p == <<predator, sym.code>>
        amount == holdings[v].balance
        rest == sub_balance(v, amount)
    IN  /\ v \in DOMAIN holdings /\ holdings[v].symbol = sym
        /\ amount > 0
        /\ holdings[v].expired_at < day
        /\ sym.code \in DOMAIN stat /\ stat[sym.code].supply >= BurnedOf(amount)
        /\ stat' = [stat EXCEPT ![sym.code].supply = @ - BurnedOf(amount)]
        /\ IF RewardOf(amount) > 0
           THEN /\ CanAdd(rest, p, sym)
                /\ holdings' = add_balance(rest, p, sym, RewardOf(amount))
                /\ touched' = Touch({p})
           ELSE holdings' = rest /\ UNCHANGED touched
        /\ UNCHANGED day

transfer_ntt(from, to, sym, amount) ==
    LET f == <<from, sym.code>>
        t == <<to, sym.code>>
    IN  /\ from # to
        /\ Exists(sym)
        /\ \/ f \in DOMAIN holdings /\ holdings[f].allow_send
           \/ t \in DOMAIN holdings /\ holdings[t].allow_recv
        /\ from \notin Blacklisted
        /\ CanSub(f, sym, amount) /\ CanAdd(holdings, t, sym)
        /\ holdings' = add_balance(sub_balance(f, amount), t, sym, amount)
        /\ touched' = Touch({f, t})
        /\ UNCHANGED <<stat, day>>

\* An account with a row stays as it is.
open(owner, sym) ==
    /\ Exists(sym)
    /\ <<owner, sym.code>> \notin DOMAIN holdings
    /\ holdings' = Emplace(holdings, <<owner, sym.code>>, NewRow(sym, 0, FALSE, FALSE, 0))
    /\ UNCHANGED <<stat, day, touched>>

\* By the issuer of the code; the precision of sym is not looked at, and a new row has it.
setacctperms_ntt(to, sym, allowsend, allowrecv) ==
    LET k == <<to, sym.code>>
    IN  /\ sym.code \in DOMAIN stat
        /\ holdings' =
             IF k \in DOMAIN holdings
             THEN [holdings EXCEPT ![k].allow_send = allowsend, ![k].allow_recv = allowrecv,
                                   ![k].expired_at = day + YEAR]
             ELSE Emplace(holdings, k, NewRow(sym, 0, allowsend, allowrecv, day + YEAR))
        /\ UNCHANGED <<stat, day, touched>>

Tick_ntt == day < LastDay /\ day' = day + 1 /\ UNCHANGED <<stat, holdings, touched>>

------------------------------------------------------------------------------
(* The specification *)

Init_ntt == stat = EmptyTable /\ holdings = EmptyTable /\ day = 0 /\ touched = EmptyTable

Mint ==
    \/ \E u \in Holders, sym \in Tokens, k \in Supplies : create_ntt(u, sym, k)
    \/ \E sym \in Tokens, k \in Sums : issue_ntt(sym, k)
    \/ \E sym \in Tokens, k \in Sums : retire_ntt(sym, k)

Hold ==
    \/ \E u \in Holders, sym \in Tokens : open(u, sym)
    \/ \E u \in Holders, sym \in Tokens, s, r \in BOOLEAN : setacctperms_ntt(u, sym, s, r)
    \/ \E u, v \in Holders, sym \in Tokens, k \in Sums : transfer_ntt(u, v, sym, k)
    \/ \E u, v \in Holders, sym \in Tokens : burn(u, v, sym)

Next_ntt == Mint \/ Hold \/ Tick_ntt

Spec_ntt == Init_ntt /\ [][Next_ntt]_nttvars
------------------------------------------------------------------------------
(* Properties *)

HoldingRow == [symbol : Tokens, balance : Nat, allow_send : BOOLEAN, allow_recv : BOOLEAN,
               expired_at : Nat]

\* Every variable of the contract has its type, and no token has more than its maximum.
TypeOK_ntt ==
    /\ IsTable(stat, Codes, [symbol : Tokens, supply : Nat, max_supply : Nat \ {0}, issuer : Holders])
    /\ \A c \in DOMAIN stat : stat[c].supply <= stat[c].max_supply
    /\ IsTable(holdings, Holders \X Codes, HoldingRow)
    /\ day \in Nat

\* The supply is what the holders have, through rewards and burns, and whoever has
\* something has it in the precision of the token.
SupplyIsHeld_ntt ==
    /\ \A c \in DOMAIN stat :
          stat[c].supply = SumFunction([u \in Holders |-> HeldBy(u, c)])
    /\ \A k \in DOMAIN holdings : holdings[k].balance > 0 => Exists(holdings[k].symbol)

\* Only a balance that nothing was paid to, or from, for more than a year is burned: who
\* is not the issuer never loses tokens together with the supply before.
OnlyIdleBurn ==
    [][\A u \in Holders, c \in DOMAIN stat :
          /\ HeldBy(u, c)' < HeldBy(u, c)
          /\ stat[c].supply' < stat[c].supply
          /\ u # stat[c].issuer
          => day > touched[<<u, c>>] + YEAR]_nttvars
=============================================================================
