--------------------------- MODULE LiquidityVault ---------------------------
(***************************************************************************)
(* contracts/liquidity-vault: shares of a pool of the collateral token     *)
(* that the operator lends to the protocol's market maker.                 *)
(*                                                                         *)
(* Deposits made while principal is out go to a new series, so that each   *)
(* series bears its own profits and losses.  Series 0 is kept the way the  *)
(* contract's first version kept it: its liquid assets are what the token  *)
(* balance holds beyond the other series' total, so tokens that anyone     *)
(* sends to the contract belong to it.  The contract keeps the totals over *)
(* the other series, and of pending withdrawals, as numbers of their own.  *)
(*                                                                         *)
(* Left out: the lifetime of storage entries, the cumulated deposits and   *)
(* withdrawals of an owner (no call reads them), the minimum a caller asks *)
(* for (its failure changes nothing), i128 overflow, and the authority     *)
(* over upgrades.                                                          *)
(***************************************************************************)
EXTENDS Integers, FiniteSets, Functions

CONSTANTS
    Owners,            \* liquidity providers
    MaxSeries,         \* bound on series ids (the code: u32)
    MaxBalance,        \* bound on the vault's assets
    MaxShares,         \* bound on the shares of a series
    AllocationLimits   \* limits the operator may set, in basis points

MAX_ALLOCATION_BPS == 8000

ASSUME VaultAssumption ==
    /\ IsFiniteSet(Owners)
    /\ MaxSeries \in Nat
    /\ MaxBalance \in Nat /\ MaxShares \in Nat
    /\ AllocationLimits \subseteq 1..MAX_ALLOCATION_BPS

Series == 0..MaxSeries
LaterSeries == 1..MaxSeries

VARIABLES
    vaultPaused,       \* Paused
    allocationLimit,   \* AllocationLimitBps
    vaultBalance,      \* the token balance of the contract
    currentSeries,     \* CurrentSeries
    liquid,            \* SeriesLiquid, of the later series
    principal,         \* DeployedPrincipal, SeriesPrincipal
    supply,            \* TotalShares, SeriesSupply
    otherLiquid,       \* OtherSeriesLiquid: kept total of liquid
    otherPrincipal,    \* OtherSeriesPrincipal: of principal, without series 0
    otherShares,       \* OtherSeriesShares: of supply, without series 0
    shares,            \* series -> owner -> shares
    pending,           \* series -> owner -> shares requested for withdrawal
    pendingTotal,      \* SeriesPendingTotal: kept total of pending
    ownerSeries        \* OwnerSeries: owner -> later series it has shares in

config == <<vaultPaused, allocationLimit>>
books  == <<currentSeries, liquid, principal, supply, otherLiquid, otherPrincipal,
            otherShares>>
claims == <<shares, pending, pendingTotal, ownerSeries>>
vaultVars == <<config, vaultBalance, books, claims>>

VaultTypeOK ==
    /\ vaultPaused \in BOOLEAN
    /\ allocationLimit \in 1..MAX_ALLOCATION_BPS
    /\ vaultBalance \in Nat
    /\ currentSeries \in Series
    /\ liquid \in [LaterSeries -> Nat]
    /\ principal \in [Series -> Nat] /\ supply \in [Series -> Nat]
    /\ otherLiquid \in Nat /\ otherPrincipal \in Nat /\ otherShares \in Nat
    /\ shares \in [Series -> [Owners -> Nat]]
    /\ pending \in [Series -> [Owners -> Nat]]
    /\ pendingTotal \in [Series -> Nat]
    /\ ownerSeries \in [Owners -> SUBSET LaterSeries]

-----------------------------------------------------------------------------
(* Views.                                                                  *)

mul_div_floor(left, right, denominator) == (left * right) \div denominator

OpenSeries == 0..currentSeries

SeriesLiquid(s) == IF s = 0 THEN vaultBalance - otherLiquid ELSE liquid[s]
SeriesAssets(s) == SeriesLiquid(s) + principal[s]

DeployedPrincipal == principal[0] + otherPrincipal
TotalShares == supply[0] + otherShares
TotalAssets == vaultBalance + DeployedPrincipal

\* The series that takes deposits: a new one while principal is out.
DepositSeries == IF principal[currentSeries] = 0 THEN currentSeries
                                                 ELSE currentSeries + 1

AvailableShares(s, o) == shares[s][o] - pending[s][o]

-----------------------------------------------------------------------------
(* The setters keep the totals over the later series.                      *)

\* Variant of SetLiquid: the total is left as it was.
SetLiquid_KeepsTotal(s, value) ==
    /\ value >= 0
    /\ IF s = 0 THEN UNCHANGED liquid ELSE liquid' = [liquid EXCEPT ![s] = value]
    /\ UNCHANGED otherLiquid

\* The liquid assets of series 0 are not stored.
SetLiquid(s, value) ==
    IF s = 0 THEN UNCHANGED <<liquid, otherLiquid>>
    ELSE /\ value >= 0
         /\ otherLiquid' = otherLiquid + value - liquid[s]
         /\ otherLiquid' >= 0
         /\ liquid' = [liquid EXCEPT ![s] = value]

SetPrincipal(s, value) ==
    /\ value >= 0
    /\ otherPrincipal' = IF s = 0 THEN otherPrincipal
                                  ELSE otherPrincipal + value - principal[s]
    /\ otherPrincipal' >= 0
    /\ principal' = [principal EXCEPT ![s] = value]

SetSupply(s, value) ==
    /\ value >= 0
    /\ otherShares' = IF s = 0 THEN otherShares
                               ELSE otherShares + value - supply[s]
    /\ otherShares' >= 0
    /\ supply' = [supply EXCEPT ![s] = value]

-----------------------------------------------------------------------------
(* The operator.                                                           *)

SetVaultPaused(b) ==
    /\ vaultPaused' = b
    /\ UNCHANGED <<allocationLimit, vaultBalance, books, claims>>

SetAllocationLimit(bps) ==
    /\ vaultPaused
    /\ DeployedPrincipal = 0
    /\ bps \in 1..MAX_ALLOCATION_BPS
    /\ allocationLimit' = bps
    /\ UNCHANGED <<vaultPaused, vaultBalance, books, claims>>

\* allocate: tokens go to the maker, within the limit over the vault and over
\* the series, and not while a withdrawal of the series is pending.
Allocate(s, amount) ==
    /\ s \in OpenSeries
    /\ amount > 0
    /\ supply[s] # 0
    /\ pendingTotal[s] = 0
    /\ DeployedPrincipal + amount <= mul_div_floor(TotalAssets, allocationLimit, 10000)
    /\ principal[s] + amount <= mul_div_floor(SeriesAssets(s), allocationLimit, 10000)
    /\ amount <= SeriesLiquid(s)
    /\ vaultBalance' = vaultBalance - amount
    /\ vaultBalance' >= 0
    /\ SetPrincipal(s, principal[s] + amount)
    /\ SetLiquid(s, SeriesLiquid(s) - amount)
    /\ UNCHANGED <<config, currentSeries, supply, otherShares, claims>>

\* settle: the maker pays for principal, with a profit or a loss.
Settle(s, repaid, returned) ==
    /\ s \in OpenSeries
    /\ repaid \in 1..principal[s]
    /\ returned > 0
    /\ TotalAssets + returned - repaid <= MaxBalance
    /\ vaultBalance' = vaultBalance + returned
    /\ SetPrincipal(s, principal[s] - repaid)
    /\ SetLiquid(s, SeriesLiquid(s) + returned)
    /\ UNCHANGED <<config, currentSeries, supply, otherShares, claims>>

\* record_loss: principal that will not come back.
RecordLoss(s, lost) ==
    /\ s \in OpenSeries
    /\ lost \in 1..principal[s]
    /\ SetPrincipal(s, principal[s] - lost)
    /\ UNCHANGED <<config, vaultBalance, currentSeries, supply, liquid, otherLiquid,
                   otherShares, claims>>

\* recover_unowned: what is left when nobody has a share.
RecoverUnowned ==
    /\ TotalShares = 0
    /\ DeployedPrincipal = 0
    /\ vaultBalance' = 0
    /\ UNCHANGED <<config, books, claims>>

-----------------------------------------------------------------------------
(* Liquidity providers.                                                    *)

\* Variant of Minted: rounded up.
Minted_RoundsUp(s, amount) ==
    IF s > currentSeries \/ supply[s] = 0 THEN amount
    ELSE (amount * supply[s] + SeriesAssets(s) - 1) \div SeriesAssets(s)

\* Shares for a deposit, at the price of the series before it.
Minted(s, amount) ==
    IF s > currentSeries \/ supply[s] = 0 THEN amount
    ELSE mul_div_floor(amount, supply[s], SeriesAssets(s))

\* deposit: a series without shares takes a deposit only if it holds nothing,
\* one with shares only if it still holds something.
Deposit(o, amount) ==
    LET s == DepositSeries
        fresh == s > currentSeries
        minted == Minted(s, amount)
    IN  /\ ~vaultPaused
        /\ s \in Series
        /\ amount > 0
        /\ TotalAssets + amount <= MaxBalance
        /\ ~fresh => IF supply[s] = 0 THEN SeriesAssets(s) = 0 ELSE SeriesAssets(s) > 0
        /\ minted > 0
        /\ supply[s] + minted <= MaxShares
        /\ vaultBalance' = vaultBalance + amount
        /\ currentSeries' = s
        /\ shares' = [shares EXCEPT ![s][o] = @ + minted]
        /\ SetSupply(s, supply[s] + minted)
        /\ SetLiquid(s, IF s = 0 THEN 0 ELSE liquid[s] + amount)
        /\ ownerSeries' = IF s = 0 THEN ownerSeries
                                   ELSE [ownerSeries EXCEPT ![o] = @ \cup {s}]
        /\ UNCHANGED <<config, principal, otherPrincipal, pending, pendingTotal>>

\* The last shares of a series take all it holds.
Payout(s, n) ==
    IF n = supply[s] THEN SeriesLiquid(s)
                     ELSE mul_div_floor(n, SeriesLiquid(s), supply[s])

\* Variant of Redeem: a series with principal out is paid out too.
Redeem_DuringAllocation(o, s, n) ==
    /\ s \in OpenSeries
    /\ n \in 1..shares[s][o]
    /\ Payout(s, n) = 0 => SeriesLiquid(s) = 0
    /\ shares' = [shares EXCEPT ![s][o] = @ - n]
    /\ SetSupply(s, supply[s] - n)
    /\ SetLiquid(s, SeriesLiquid(s) - Payout(s, n))
    /\ vaultBalance' = vaultBalance - Payout(s, n)
    /\ vaultBalance' >= 0
    /\ UNCHANGED <<config, currentSeries, principal, otherPrincipal>>

\* redeem: only a series whose principal is all back or lost is paid out, and
\* shares that are worth nothing only if the series is worth nothing.
Redeem(o, s, n) ==
    /\ s \in OpenSeries
    /\ principal[s] = 0
    /\ n \in 1..shares[s][o]
    /\ Payout(s, n) = 0 => SeriesLiquid(s) = 0
    /\ shares' = [shares EXCEPT ![s][o] = @ - n]
    /\ SetSupply(s, supply[s] - n)
    /\ SetLiquid(s, SeriesLiquid(s) - Payout(s, n))
    /\ vaultBalance' = vaultBalance - Payout(s, n)
    /\ vaultBalance' >= 0
    /\ UNCHANGED <<config, currentSeries, principal, otherPrincipal>>

\* prune_owner_series: the index forgets a series with nothing left in it.
PruneOwnerSeries(o, s) ==
    ownerSeries' = IF shares'[s][o] = 0 /\ pending'[s][o] = 0
                      THEN [ownerSeries EXCEPT ![o] = @ \ {s}]
                      ELSE ownerSeries

\* Variant of Withdraw: shares requested for withdrawal may be taken too.
Withdraw_IgnoresPending(o, s, n) ==
    /\ Redeem(o, s, n)
    /\ UNCHANGED <<pending, pendingTotal>>
    /\ PruneOwnerSeries(o, s)

\* withdraw: not of shares requested for withdrawal.
Withdraw(o, s, n) ==
    /\ n <= AvailableShares(s, o)
    /\ Redeem(o, s, n)
    /\ UNCHANGED <<pending, pendingTotal>>
    /\ PruneOwnerSeries(o, s)

RequestWithdraw(o, s, n) ==
    /\ s \in OpenSeries
    /\ n \in 1..AvailableShares(s, o)
    /\ pending' = [pending EXCEPT ![s][o] = @ + n]
    /\ pendingTotal' = [pendingTotal EXCEPT ![s] = @ + n]
    /\ UNCHANGED <<config, vaultBalance, books, shares, ownerSeries>>

\* Variant of CancelWithdrawRequest: more may be cancelled than was requested.
CancelWithdrawRequest_Unchecked(o, s, n) ==
    /\ s \in OpenSeries
    /\ pending' = [pending EXCEPT ![s][o] = @ - n]
    /\ pendingTotal[s] >= n
    /\ pendingTotal' = [pendingTotal EXCEPT ![s] = @ - n]
    /\ UNCHANGED <<config, vaultBalance, books, shares, ownerSeries>>

CancelWithdrawRequest(o, s, n) ==
    /\ s \in OpenSeries
    /\ n \in 1..pending[s][o]
    /\ pending' = [pending EXCEPT ![s][o] = @ - n]
    /\ pendingTotal[s] >= n
    /\ pendingTotal' = [pendingTotal EXCEPT ![s] = @ - n]
    /\ UNCHANGED <<config, vaultBalance, books, shares, ownerSeries>>

\* claim_withdrawal: all that the owner requested.
ClaimWithdrawal(o, s) ==
    LET n == pending[s][o] IN
    /\ Redeem(o, s, n)
    /\ pending' = [pending EXCEPT ![s][o] = 0]
    /\ pendingTotal[s] >= n
    /\ pendingTotal' = [pendingTotal EXCEPT ![s] = @ - n]
    /\ PruneOwnerSeries(o, s)

\* Anyone may send tokens to the contract's address.
TokenTransferIn(amount) ==
    /\ amount > 0
    /\ TotalAssets + amount <= MaxBalance
    /\ vaultBalance' = vaultBalance + amount
    /\ UNCHANGED <<config, books, claims>>

-----------------------------------------------------------------------------

VaultInit ==
    /\ vaultPaused = TRUE
    /\ allocationLimit \in AllocationLimits
    /\ vaultBalance = 0
    /\ currentSeries = 0
    /\ liquid = [s \in LaterSeries |-> 0]
    /\ principal = [s \in Series |-> 0]
    /\ supply = [s \in Series |-> 0]
    /\ otherLiquid = 0 /\ otherPrincipal = 0 /\ otherShares = 0
    /\ shares = [s \in Series |-> [o \in Owners |-> 0]]
    /\ pending = [s \in Series |-> [o \in Owners |-> 0]]
    /\ pendingTotal = [s \in Series |-> 0]
    /\ ownerSeries = [o \in Owners |-> {}]

VaultNext ==
    \/ \E b \in BOOLEAN : SetVaultPaused(b)
    \/ \E bps \in AllocationLimits : SetAllocationLimit(bps)
    \/ \E s \in Series, amount \in 1..MaxBalance : Allocate(s, amount)
    \/ \E s \in Series, repaid, returned \in 1..MaxBalance : Settle(s, repaid, returned)
    \/ \E s \in Series, lost \in 1..MaxBalance : RecordLoss(s, lost)
    \/ RecoverUnowned
    \/ \E o \in Owners, amount \in 1..MaxBalance : Deposit(o, amount)
    \/ \E o \in Owners, s \in Series :
          \/ \E n \in 1..MaxShares : Withdraw(o, s, n)
          \/ \E n \in 1..MaxShares : RequestWithdraw(o, s, n)
          \/ \E n \in 1..MaxShares : CancelWithdrawRequest(o, s, n)
          \/ ClaimWithdrawal(o, s)
    \/ \E amount \in 1..MaxBalance : TokenTransferIn(amount)

VaultSpec == VaultInit /\ [][VaultNext]_vaultVars

-----------------------------------------------------------------------------

\* BooksBalance: every total that the contract keeps is the sum of what it
\* totals, over series and over owners; nobody has more shares pending than
\* shares; the balance covers what the later series own, so that series 0 never
\* owes; and the index of an owner's series names exactly those it has shares in.
BooksBalance ==
    /\ otherLiquid = SumFunctionOnSet(liquid, LaterSeries)
    /\ otherPrincipal = SumFunctionOnSet(principal, LaterSeries)
    /\ otherShares = SumFunctionOnSet(supply, LaterSeries)
    /\ vaultBalance >= otherLiquid
    /\ \A s \in Series :
          /\ supply[s] = SumFunctionOnSet(shares[s], Owners)
          /\ pendingTotal[s] = SumFunctionOnSet(pending[s], Owners)
          /\ \A o \in Owners :
                /\ pending[s][o] <= shares[s][o]
                /\ s > 0 => (s \in ownerSeries[o] <=> shares[s][o] > 0)

\* NothingOwnerless: a later series without shares holds nothing and has no
\* principal out, and neither has series 0: what recover_unowned takes is never
\* what is to come back to, or is still owned by, a liquidity provider; and no
\* series beyond the current one has anything.
NothingOwnerless ==
    \A s \in Series :
        /\ supply[s] = 0 => principal[s] = 0 /\ (s > 0 => liquid[s] = 0)
        /\ s > currentSeries => supply[s] = 0

\* VaultIsSound: the totals are the sums of what they total, and nothing is in
\* a series that nobody owns.
VaultIsSound == BooksBalance /\ NothingOwnerless

\* SharePriceKept: a share of a series loses value only by a step that takes
\* principal of that very series off the books.  Deposits, withdrawals, claims
\* and allocations, by whomever and in whatever order, and all that happens to
\* other series, never dilute it: the roundings go the right way.
SharePriceKept ==
    [][\A s \in OpenSeries :
          supply[s] > 0 /\ supply'[s] > 0 /\ principal'[s] >= principal[s] =>
              SeriesAssets(s)' * supply[s] >= SeriesAssets(s) * supply'[s]]_vaultVars
=============================================================================
