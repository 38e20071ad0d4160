---------------------------- MODULE NftoneNtoken ----------------------------
(***************************************************************************)
(* nftone.ntoken: NFTs that an issuer may lock for a time.  Within the     *)
(* window of the lock only the issuer sends them, and accounts the issuer  *)
(* gave a permission to send, or to receive.  The row of a lock whose      *)
(* window is over is erased by the next transfer that looks at it.         *)
(***************************************************************************)
EXTENDS Ntoken

CONSTANTS
    Locks,          \* <<symbol, started_at, ended_at>> of setlocktime
    Permits,        \* <<account, symbol>> of setacctperms
    MaxDay          \* bound: days

ASSUME NftoneInputs ==
    Locks \subseteq TokenSymbols \X Nat \X Nat /\ Permits \subseteq Users \X TokenSymbols /\ MaxDay \in Nat

VARIABLES
    tswhitelist,    \* <<account, symbol>> -> allow_send, allow_recv
    locknsymbols,   \* symbol -> window
    now,            \* the day
    windows         \* history: symbol -> the window its issuer set last

nftonevars == <<tswhitelist, locknsymbols, now, windows>>
vars_nftone == <<ntokenvars, nftonevars>>

------------------------------------------------------------------------------
(* Locks *)

\* By the issuer of the token with the id of sym, whatever its parent.
setlocktime(sym, started_at, ended_at) ==
    /\ is_valid(sym)
    /\ ended_at > started_at /\ ended_at > now
    /\ sym.id \in DOMAIN nstats
    /\ locknsymbols' = Emplace(locknsymbols, sym, <<started_at, ended_at>>)
    /\ windows' = Emplace(windows, sym, <<started_at, ended_at>>)
    /\ UNCHANGED <<ntokenvars, tswhitelist, now>>

\* By the issuer.  The token is looked for under the raw symbol, which is an id only
\* when the parent is 0.
setacctperms(to, symbol, allowsend, allowrecv) ==
    /\ symbol.parent_id = 0 /\ symbol.id \in DOMAIN nstats
    /\ tswhitelist' = Emplace(tswhitelist, <<to, symbol>>,
           [allow_send |-> allowsend, allow_recv |-> allowrecv])
    /\ UNCHANGED <<ntokenvars, locknsymbols, now, windows>>

Permitted(from, to, n) ==
    \/ <<from, n>> \in DOMAIN tswhitelist /\ tswhitelist[<<from, n>>].allow_send
    \/ <<to, n>> \in DOMAIN tswhitelist /\ tswhitelist[<<to, n>>].allow_recv

\* The locks that a transfer has to look at.
LocksOn(from, to, s) ==
    {n \in DOMAIN s \cap DOMAIN locknsymbols :
        from # nstats[n.id].issuer /\ ~ Permitted(from, to, n)}

\* Mutant: a window that has not begun is erased as well.
BugEraseOutside(n) == now \notin locknsymbols[n][1] .. locknsymbols[n][2]

IsOver(n) == now > locknsymbols[n][2]

\* Mutant: the window counts from its start on.
BugNeverOpens(n) == now >= locknsymbols[n][1]

IsLocked(n) == now \in locknsymbols[n][1] .. locknsymbols[n][2]

transfer(from, to, s) ==
    /\ Moves(from, to, s)
    /\ \A n \in LocksOn(from, to, s) : ~ IsLocked(n)
    /\ locknsymbols' = Erase(locknsymbols, {n \in LocksOn(from, to, s) : IsOver(n)})
    /\ UNCHANGED <<tswhitelist, now, windows>>

Tick ==
    /\ now < MaxDay
    /\ now' = now + 1
    /\ UNCHANGED <<ntokenvars, tswhitelist, locknsymbols, windows>>

------------------------------------------------------------------------------
(* The specification *)

Init_nftone ==
    /\ Init
    /\ tswhitelist = EmptyTable
    /\ locknsymbols = EmptyTable
    /\ now = 0
    /\ windows = EmptyTable

\* _creator_auth_check: only listed accounts create.
Common_nftone == (Create(creators) \/ Register \/ Supply) /\ UNCHANGED nftonevars

Permit ==
    \/ \E l \in Locks : setlocktime(l[1], l[2], l[3])
    \/ \E k \in Permits, s, r \in BOOLEAN : setacctperms(k[1], k[2], s, r)

Send == \E u, v \in Users, s \in Batches : transfer(u, v, s)

Next_nftone == Common_nftone \/ Permit \/ Send \/ Tick

Spec_nftone == Init_nftone /\ [][Next_nftone]_vars_nftone
------------------------------------------------------------------------------
(* Properties *)

\* Every variable of the contract has its type; what is left of the locks is as it
\* was set last.
TypeOK_nftone ==
    /\ IsTable(tswhitelist, Users \X TokenSymbols, [allow_send : BOOLEAN, allow_recv : BOOLEAN])
    /\ IsTable(windows, TokenSymbols, Nat \X Nat)
    /\ IsTable(locknsymbols, DOMAIN windows, Nat \X Nat)
    /\ \A n \in DOMAIN locknsymbols : locknsymbols[n] = windows[n]
    /\ now \in Nat

Gains(u, n) == BalanceOf(u, n)' > BalanceOf(u, n)

\* Nobody but the issuer parts with an NFT within the window the issuer set last, unless
\* the sender or the receiver is permitted: what transfers before the window, or other
\* symbols, did to the rows of the locks does not matter.
LockedStay ==
    [][\A u \in Users, n \in DOMAIN windows :
          BalanceOf(u, n)' < BalanceOf(u, n) =>
              \/ u = nstats[n.id].issuer
              \/ now \notin windows[n][1] .. windows[n][2]
              \/ \E v \in Users : Gains(v, n) /\ Permitted(u, v, n)]_vars_nftone

\* Nobody's NFTs are stuck: outside the window of its lock a holder can send an NFT,
\* by itself, to every other account.
HoldersCanSend ==
    \A u, v \in Users, n \in TokenSymbols :
        BalanceOf(u, n) > 0 /\ u # v
        /\ (n \in DOMAIN windows => now \notin windows[n][1] .. windows[n][2])
            => ENABLED transfer(u, v, [m \in {n} |-> 1])
=============================================================================
