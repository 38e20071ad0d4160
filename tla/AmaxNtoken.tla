----------------------------- MODULE AmaxNtoken -----------------------------
(***************************************************************************)
(* amax.ntoken: NFTs with allowances.  An owner lets a spender have an     *)
(* amount of the NFTs of one parent; transferfrom, called by the owner,    *)
(* takes NFTs from the account that the allowance is for.  Accounts that   *)
(* create tokens need an identity of did.ntoken or a place on the list,    *)
(* when that is checked at all.                                            *)
(***************************************************************************)
EXTENDS Ntoken

CONSTANTS
    DidHolders,     \* users with a balance in did.ntoken
    Owners,         \* users that approve
    Pids, Allowances \* parents and amounts of approve

ASSUME AmaxInputs == DidHolders \cup Owners \subseteq Users /\ Pids \cup Allowances \subseteq Nat

VARIABLES
    check_creator,  \* of global1
    allowances,     \* <<owner, spender>> -> [parent ids -> amounts]
    granted, taken  \* history: <<owner, spender, parent id>> -> NFTs approved last, and
                    \* taken since

amaxvars == <<check_creator, allowances, granted, taken>>
vars_amax == <<ntokenvars, amaxvars>>

------------------------------------------------------------------------------
(* Allowances *)

\* The row is looked for under the owner's own name: found, it is the one that
\* changes, whoever the spender is; not found, a row for the spender is made, which
\* aborts when there is one.
approve(owner, spender, pid, amount) ==
    LET own == <<owner, owner>> \in DOMAIN allowances
        k   == <<owner, IF own THEN owner ELSE spender>>
    IN  /\ own \/ k \notin DOMAIN allowances
        /\ allowances' = Emplace(allowances, k,
               IF own THEN Emplace(allowances[k], pid, amount) ELSE [q \in {pid} |-> amount])
        /\ granted' = Emplace(granted, <<k[1], k[2], pid>>, amount)
        /\ taken' = Emplace(taken, <<k[1], k[2], pid>>, 0)
        /\ UNCHANGED <<ntokenvars, check_creator>>

\* The NFTs of one parent among the assets.
TakenOf(s, pid) == SumFunction([n \in {m \in DOMAIN s : m.parent_id = pid} |-> s[n]])

\* Mutant: the allowance falls by one asset of the vector.
BugTakeOnce(row, s) ==
    [q \in DOMAIN row |->
        IF \E n \in DOMAIN s : n.parent_id = q
        THEN row[q] - s[CHOOSE n \in DOMAIN s : n.parent_id = q] ELSE row[q]]

\* What the assets leave of an allowance.
LeftOf(row, s) == [q \in DOMAIN row |-> row[q] - TakenOf(s, q)]

transferfrom(owner, from, to, s) ==
    LET k == <<owner, from>>
    IN  /\ k \in DOMAIN allowances
        /\ \A n \in DOMAIN s : n.parent_id \in DOMAIN allowances[k]
        /\ \A q \in DOMAIN allowances[k] : TakenOf(s, q) <= allowances[k][q]
        /\ Moves(from, to, s)
        /\ allowances' = [allowances EXCEPT ![k] = LeftOf(allowances[k], s)]
        /\ taken' = [t \in DOMAIN taken |->
               taken[t] + (IF <<t[1], t[2]>> = k THEN TakenOf(s, t[3]) ELSE 0)]
        /\ UNCHANGED <<check_creator, granted>>

transfer_amax(from, to, s) == Moves(from, to, s) /\ UNCHANGED amaxvars

setcheck(check) ==
    /\ check_creator' = check
    /\ UNCHANGED <<ntokenvars, allowances, granted, taken>>

\* _creator_auth_check: when the check is off, everybody may create.
Creators == IF check_creator THEN DidHolders \cup creators ELSE Users

------------------------------------------------------------------------------
(* The specification *)

Init_amax ==
    /\ Init
    /\ check_creator = FALSE
    /\ allowances = EmptyTable
    /\ granted = EmptyTable
    /\ taken = EmptyTable

Common_amax == (Create(Creators) \/ Register \/ Supply) /\ UNCHANGED amaxvars

Allow ==
    \/ \E b \in BOOLEAN : setcheck(b)
    \/ \E u \in Owners, v \in Users, q \in Pids, k \in Allowances : approve(u, v, q, k)

Send_amax ==
    \/ \E u, v \in Users, s \in Batches : transfer_amax(u, v, s)
    \/ \E o \in Owners, u, v \in Users, s \in Batches : transferfrom(o, u, v, s)

Next_amax == Common_amax \/ Allow \/ Send_amax

Spec_amax == Init_amax /\ [][Next_amax]_vars_amax
------------------------------------------------------------------------------
(* Properties *)

\* Every variable of the contract has its type.
TypeOK_amax ==
    /\ check_creator \in BOOLEAN
    /\ DOMAIN allowances \subseteq Users \X Users
    /\ \A k \in DOMAIN allowances : IsTable(allowances[k], Pids, Nat)

\* An allowance is what was approved last less what transferfrom took since, in
\* however many assets of however many NFTs of the parent.
AllowancesAddUp ==
    \A k \in DOMAIN allowances : \A q \in DOMAIN allowances[k] :
        allowances[k][q] + taken[<<k[1], k[2], q>>] = granted[<<k[1], k[2], q>>]
=============================================================================
