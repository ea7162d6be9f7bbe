------------------------- MODULE VaultOracleProofs -------------------------
(***************************************************************************)
(* Proofs, for every value of the constants, about the two contracts that  *)
(* hold no trader's balance.  The liquidity vault, for any number of       *)
(* owners and series and any amounts: its books, its claims, what a share  *)
(* is worth.  The oracle: the median and the oldest quote exist and are    *)
(* what they should be, every reachable state is well typed, a majority of *)
(* a round decides its price, rounds are published once, and the mark      *)
(* price rests on quotes that are fresh.  And of the prices' last stop,    *)
(* the chart in the browser: no tick is lost on the way to it.             *)
(***************************************************************************)
EXTENDS LiquidityVault, PriceOracle, PriceChart, FiniteSums, FiniteSetTheorems,
        WellFoundedInduction, TLAPS

-----------------------------------------------------------------------------
(* The vault: types.                                                       *)

\* mul_div_floor rounds down.
LEMMA FloorBelow ==
    ASSUME NEW a \in Int, NEW b \in Int, NEW d \in Nat \ {0}
    PROVE  /\ mul_div_floor(a, b, d) \in Int
           /\ mul_div_floor(a, b, d) * d <= a * b
<1>1. a * b \in Int
  OBVIOUS
<1>2. \A n \in Int : n \div d \in Int /\ (n \div d) * d <= n
  OBVIOUS
<1> QED BY <1>1, <1>2 DEF mul_div_floor

LEMMA FloorNatural ==
    ASSUME NEW a \in Nat, NEW b \in Nat, NEW d \in Nat \ {0}
    PROVE  mul_div_floor(a, b, d) \in Nat
<1>1. a * b \in Nat
  OBVIOUS
<1>2. \A n \in Nat : n \div d \in Nat
  OBVIOUS
<1> QED BY <1>1, <1>2 DEF mul_div_floor

\* More assets, more value of S shares.
LEMMA MorePerShare ==
    ASSUME NEW A \in Int, NEW B \in Int, NEW S \in Nat, B >= A
    PROVE  B * S >= A * S
<1>1. (B - A) * S >= 0
  OBVIOUS
<1>2. (B - A) * S = B * S - A * S
  OBVIOUS
<1>3. A * S \in Int /\ B * S \in Int
  OBVIOUS
<1> QED BY <1>1, <1>2, <1>3

LEMMA SeriesNumbered ==
    ASSUME NEW s \in Series
    PROVE  s \in Nat /\ (s # 0 => s \in LaterSeries)
<1> QED BY VaultAssumption DEF Series, LaterSeries

LEMMA SetLiquidTyped ==
    ASSUME VaultTypeOK, NEW s \in Series, NEW value \in Int, SetLiquid(s, value)
    PROVE  liquid' \in [LaterSeries -> Nat] /\ otherLiquid' \in Nat
<1>1. CASE s = 0
  BY <1>1 DEF VaultTypeOK, SetLiquid
<1>2. CASE s # 0
  <2>1. s \in LaterSeries
    BY <1>2, SeriesNumbered
  <2> QED BY <1>2, <2>1 DEF VaultTypeOK, SetLiquid
<1> QED BY <1>1, <1>2

LEMMA SetPrincipalTyped ==
    ASSUME VaultTypeOK, NEW s \in Series, NEW value \in Int, SetPrincipal(s, value)
    PROVE  principal' \in [Series -> Nat] /\ otherPrincipal' \in Nat
<1> QED BY DEF VaultTypeOK, SetPrincipal

LEMMA SetSupplyTyped ==
    ASSUME VaultTypeOK, NEW s \in Series, NEW value \in Int, SetSupply(s, value)
    PROVE  supply' \in [Series -> Nat] /\ otherShares' \in Nat
<1> QED BY DEF VaultTypeOK, SetSupply

LEMMA SeriesLiquidTyped ==
    ASSUME VaultTypeOK, NEW s \in Series
    PROVE  SeriesLiquid(s) \in Int /\ SeriesAssets(s) \in Int
<1> QED BY SeriesNumbered DEF VaultTypeOK, SeriesLiquid, SeriesAssets

\* The operator's transfers.
LEMMA OperatorTyped ==
    ASSUME VaultTypeOK, NEW s \in Series,
           \/ \E amount \in 1..MaxBalance : Allocate(s, amount)
           \/ \E repaid, returned \in 1..MaxBalance : Settle(s, repaid, returned)
           \/ \E lost \in 1..MaxBalance : RecordLoss(s, lost)
    PROVE  VaultTypeOK'
<1> USE VaultAssumption
<1>1. principal[s] \in Nat /\ SeriesLiquid(s) \in Int /\ vaultBalance \in Nat
  BY SeriesLiquidTyped DEF VaultTypeOK
<1>2. ASSUME NEW amount \in 1..MaxBalance, Allocate(s, amount)
      PROVE  VaultTypeOK'
  <2>1. SetPrincipal(s, principal[s] + amount) /\ SetLiquid(s, SeriesLiquid(s) - amount)
    BY <1>2 DEF Allocate
  <2>2. amount \in Int /\ principal[s] + amount \in Int /\ SeriesLiquid(s) - amount \in Int
    BY <1>1
  <2>3. /\ principal' \in [Series -> Nat] /\ otherPrincipal' \in Nat
        /\ liquid' \in [LaterSeries -> Nat] /\ otherLiquid' \in Nat
    BY <2>1, <2>2, SetPrincipalTyped, SetLiquidTyped
  <2> QED BY <1>1, <1>2, <2>2, <2>3 DEF Allocate, VaultTypeOK, config, claims
<1>3. ASSUME NEW repaid \in 1..MaxBalance, NEW returned \in 1..MaxBalance,
             Settle(s, repaid, returned)
      PROVE  VaultTypeOK'
  <2>1. SetPrincipal(s, principal[s] - repaid) /\ SetLiquid(s, SeriesLiquid(s) + returned)
    BY <1>3 DEF Settle
  <2>2. principal[s] - repaid \in Int /\ SeriesLiquid(s) + returned \in Int
    BY <1>1
  <2>3. /\ principal' \in [Series -> Nat] /\ otherPrincipal' \in Nat
        /\ liquid' \in [LaterSeries -> Nat] /\ otherLiquid' \in Nat
    BY <2>1, <2>2, SetPrincipalTyped, SetLiquidTyped
  <2> QED BY <1>1, <1>3, <2>3 DEF Settle, VaultTypeOK, config, claims
<1>4. ASSUME NEW lost \in 1..MaxBalance, RecordLoss(s, lost)
      PROVE  VaultTypeOK'
  <2>1. principal' \in [Series -> Nat] /\ otherPrincipal' \in Nat
    BY <1>1, <1>4, SetPrincipalTyped DEF RecordLoss
  <2> QED BY <1>4, <2>1 DEF RecordLoss, VaultTypeOK, config, claims
<1> QED BY <1>2, <1>3, <1>4

LEMMA MintedTyped ==
    ASSUME VaultTypeOK, NEW s \in Series, NEW amount \in Nat,
           s <= currentSeries /\ supply[s] > 0 => SeriesAssets(s) > 0
    PROVE  Minted(s, amount) \in Nat
<1>1. supply[s] \in Nat /\ SeriesAssets(s) \in Int /\ s \in Int /\ currentSeries \in Int
  BY SeriesLiquidTyped, SeriesNumbered DEF VaultTypeOK
<1>2. CASE s <= currentSeries /\ supply[s] > 0
  <2>1. SeriesAssets(s) \in Nat \ {0}
    BY <1>1, <1>2
  <2>2. mul_div_floor(amount, supply[s], SeriesAssets(s)) \in Nat
    BY <1>1, <2>1, FloorNatural
  <2>3. ~(s > currentSeries \/ supply[s] = 0)
    BY <1>1, <1>2
  <2> QED BY <2>2, <2>3 DEF Minted
<1>3. CASE s > currentSeries \/ supply[s] = 0
  BY <1>3 DEF Minted
<1> QED BY <1>1, <1>2, <1>3

LEMMA DepositTyped ==
    ASSUME VaultTypeOK, NEW o \in Owners, NEW amount \in Nat, Deposit(o, amount)
    PROVE  VaultTypeOK'
<1> DEFINE s == DepositSeries
           minted == Minted(s, amount)
<1>1. /\ s \in Series
      /\ vaultBalance' = vaultBalance + amount /\ currentSeries' = s
      /\ shares' = [shares EXCEPT ![s][o] = @ + minted]
      /\ SetSupply(s, supply[s] + minted)
      /\ SetLiquid(s, IF s = 0 THEN 0 ELSE liquid[s] + amount)
      /\ ownerSeries' = IF s = 0 THEN ownerSeries
                                 ELSE [ownerSeries EXCEPT ![o] = @ \cup {s}]
      /\ UNCHANGED <<config, principal, otherPrincipal, pending, pendingTotal>>
  BY DEF Deposit
<1>2. s <= currentSeries /\ supply[s] > 0 => SeriesAssets(s) > 0
  BY SeriesLiquidTyped, SeriesNumbered DEF Deposit, VaultTypeOK
<1>3. minted \in Nat
  BY <1>1, <1>2, MintedTyped
<1> HIDE DEF s, minted
<1>4. supply' \in [Series -> Nat] /\ otherShares' \in Nat
  BY <1>1, <1>3, SetSupplyTyped DEF VaultTypeOK
<1>5. liquid' \in [LaterSeries -> Nat] /\ otherLiquid' \in Nat
  <2>1. (IF s = 0 THEN 0 ELSE liquid[s] + amount) \in Int
    BY <1>1, SeriesNumbered DEF VaultTypeOK
  <2> QED BY <1>1, <2>1, SetLiquidTyped
<1>6. ownerSeries' \in [Owners -> SUBSET LaterSeries]
  BY <1>1 DEF VaultTypeOK, Series, LaterSeries
<1>7. shares' \in [Series -> [Owners -> Nat]]
  BY <1>1, <1>3 DEF VaultTypeOK
<1> QED BY <1>1, <1>4, <1>5, <1>6, <1>7 DEF VaultTypeOK, config

\* What withdraw and claim_withdrawal have in common.
LEMMA RedeemTyped ==
    ASSUME VaultTypeOK, NEW o \in Owners, NEW s \in Series, NEW n \in Nat, Redeem(o, s, n)
    PROVE  /\ vaultBalance' \in Nat
           /\ liquid' \in [LaterSeries -> Nat] /\ otherLiquid' \in Nat
           /\ supply' \in [Series -> Nat] /\ otherShares' \in Nat
           /\ shares' \in [Series -> [Owners -> Nat]]
           /\ UNCHANGED <<config, currentSeries, principal, otherPrincipal>>
<1> DEFINE paid == Payout(s, n)
<1>1. /\ shares' = [shares EXCEPT ![s][o] = @ - n] /\ n \in 1..shares[s][o]
      /\ SetSupply(s, supply[s] - n)
      /\ SetLiquid(s, SeriesLiquid(s) - paid)
      /\ vaultBalance' = vaultBalance - paid /\ vaultBalance' >= 0
      /\ UNCHANGED <<config, currentSeries, principal, otherPrincipal>>
  BY DEF Redeem
<1>2. supply[s] \in Nat /\ shares[s][o] \in Nat /\ SeriesLiquid(s) \in Int
      /\ vaultBalance \in Nat
  BY SeriesLiquidTyped DEF VaultTypeOK
<1>3. supply[s] > 0
  BY <1>1, <1>2 DEF SetSupply
<1>4. paid \in Int
  BY <1>2, <1>3 DEF Payout, mul_div_floor
<1> HIDE DEF paid
<1>5. shares' \in [Series -> [Owners -> Nat]]
  BY <1>1, <1>2 DEF VaultTypeOK
<1>6. supply' \in [Series -> Nat] /\ otherShares' \in Nat
  BY <1>1, <1>2, SetSupplyTyped
<1>7. liquid' \in [LaterSeries -> Nat] /\ otherLiquid' \in Nat
  BY <1>1, <1>2, <1>4, SetLiquidTyped
<1> QED BY <1>1, <1>2, <1>4, <1>5, <1>6, <1>7

LEMMA ProviderTyped ==
    ASSUME VaultTypeOK, NEW o \in Owners, NEW s \in Series,
           \/ \E n \in 1..MaxShares : Withdraw(o, s, n)
           \/ \E n \in 1..MaxShares : RequestWithdraw(o, s, n)
           \/ \E n \in 1..MaxShares : CancelWithdrawRequest(o, s, n)
           \/ ClaimWithdrawal(o, s)
    PROVE  VaultTypeOK'
<1> USE VaultAssumption
<1>1. pending[s][o] \in Nat /\ pendingTotal[s] \in Nat /\ shares[s][o] \in Nat
  BY DEF VaultTypeOK
<1>2. ASSUME PruneOwnerSeries(o, s) PROVE ownerSeries' \in [Owners -> SUBSET LaterSeries]
  BY <1>2 DEF PruneOwnerSeries, VaultTypeOK
<1>3. ASSUME NEW n \in 1..MaxShares, Withdraw(o, s, n) PROVE VaultTypeOK'
  <2>1. n \in Nat /\ Redeem(o, s, n)
    BY <1>3 DEF Withdraw
  <2> QED BY <1>2, <1>3, <2>1, RedeemTyped DEF Withdraw, VaultTypeOK, config
<1>4. ASSUME ClaimWithdrawal(o, s) PROVE VaultTypeOK'
  <2>1. Redeem(o, s, pending[s][o])
    BY <1>4 DEF ClaimWithdrawal
  <2>2. pending' \in [Series -> [Owners -> Nat]] /\ pendingTotal' \in [Series -> Nat]
    BY <1>1, <1>4 DEF ClaimWithdrawal, VaultTypeOK
  <2>3. PruneOwnerSeries(o, s)
    BY <1>4 DEF ClaimWithdrawal
  <2>4. /\ vaultBalance' \in Nat
        /\ liquid' \in [LaterSeries -> Nat] /\ otherLiquid' \in Nat
        /\ supply' \in [Series -> Nat] /\ otherShares' \in Nat
        /\ shares' \in [Series -> [Owners -> Nat]]
        /\ UNCHANGED <<config, currentSeries, principal, otherPrincipal>>
    BY <1>1, <2>1, RedeemTyped
  <2> QED BY <1>2, <2>2, <2>3, <2>4 DEF VaultTypeOK, config
<1>5. ASSUME NEW n \in 1..MaxShares, RequestWithdraw(o, s, n) PROVE VaultTypeOK'
  <2>1. pending' \in [Series -> [Owners -> Nat]] /\ pendingTotal' \in [Series -> Nat]
    BY <1>1, <1>5 DEF RequestWithdraw, VaultTypeOK
  <2> QED BY <1>5, <2>1 DEF RequestWithdraw, VaultTypeOK, config, books
<1>6. ASSUME NEW n \in 1..MaxShares, CancelWithdrawRequest(o, s, n) PROVE VaultTypeOK'
  <2>1. pending' \in [Series -> [Owners -> Nat]] /\ pendingTotal' \in [Series -> Nat]
    BY <1>1, <1>6 DEF CancelWithdrawRequest, VaultTypeOK
  <2> QED BY <1>6, <2>1 DEF CancelWithdrawRequest, VaultTypeOK, config, books
<1> QED BY <1>3, <1>4, <1>5, <1>6

\* Every step keeps the types: what a call takes was there.
LEMMA VaultNextTyped ==
    ASSUME VaultTypeOK, [VaultNext]_vaultVars
    PROVE  VaultTypeOK'
<1>1. CASE \E b \in BOOLEAN : SetVaultPaused(b)
  BY <1>1 DEF SetVaultPaused, VaultTypeOK, books, claims
<1>2. CASE \E bps \in AllocationLimits : SetAllocationLimit(bps)
  BY <1>2 DEF SetAllocationLimit, VaultTypeOK, books, claims
<1>3. CASE RecoverUnowned
  BY <1>3 DEF RecoverUnowned, VaultTypeOK, config, books, claims
<1>4. CASE \E o \in Owners, amount \in 1..MaxBalance : Deposit(o, amount)
  BY <1>4, DepositTyped, VaultAssumption
<1>5. CASE \E amount \in 1..MaxBalance : TokenTransferIn(amount)
  BY <1>5, VaultAssumption DEF TokenTransferIn, VaultTypeOK, config, books, claims
<1>6. CASE UNCHANGED vaultVars
  BY <1>6 DEF vaultVars, VaultTypeOK, config, books, claims
<1> QED
  BY <1>1, <1>2, <1>3, <1>4, <1>5, <1>6, OperatorTyped, ProviderTyped DEF VaultNext

\* Balances, books and claims are never negative, whatever the order of calls:
\* liquidity-vault takes from an entry only what checked_sub found in it.
THEOREM VaultTypeCorrect == VaultSpec => []VaultTypeOK
<1>1. VaultInit => VaultTypeOK
  <2> SUFFICES ASSUME VaultInit PROVE VaultTypeOK
    OBVIOUS
  <2>1. 0 \in Series /\ 0 \in Nat
    BY VaultAssumption DEF Series
  <2>2. vaultPaused \in BOOLEAN /\ allocationLimit \in 1..MAX_ALLOCATION_BPS
    BY VaultAssumption DEF VaultInit
  <2>3. liquid \in [LaterSeries -> Nat] /\ principal \in [Series -> Nat] /\ supply \in [Series -> Nat]
    BY DEF VaultInit
  <2>4. /\ shares \in [Series -> [Owners -> Nat]] /\ pending \in [Series -> [Owners -> Nat]]
        /\ pendingTotal \in [Series -> Nat] /\ ownerSeries \in [Owners -> SUBSET LaterSeries]
    BY DEF VaultInit
  <2> QED BY <2>1, <2>2, <2>3, <2>4 DEF VaultInit, VaultTypeOK
<1> QED BY <1>1, VaultNextTyped, PTL DEF VaultSpec

-----------------------------------------------------------------------------
(* No value without an owner.                                              *)

LEMMA NothingOwnerlessKept ==
    ASSUME VaultTypeOK, NothingOwnerless, [VaultNext]_vaultVars
    PROVE  NothingOwnerless'
<1> DEFINE Owned(s) == /\ supply[s] = 0 => principal[s] = 0 /\ (s > 0 => liquid[s] = 0)
                       /\ s > currentSeries => supply[s] = 0
<1> SUFFICES ASSUME NEW s \in Series PROVE Owned(s)'
  BY DEF NothingOwnerless
<1>1. /\ Owned(s) /\ s \in Nat /\ (s # 0 => s \in LaterSeries)
      /\ supply[s] \in Nat /\ principal[s] \in Nat /\ currentSeries \in Nat
  BY SeriesNumbered DEF NothingOwnerless, VaultTypeOK
<1>2. ASSUME UNCHANGED <<supply, principal, liquid, currentSeries>> PROVE Owned(s)'
  BY <1>1, <1>2
<1>3. ASSUME NEW t \in Series, NEW amount \in 1..MaxBalance, Allocate(t, amount)
      PROVE  Owned(s)'
  BY <1>1, <1>3 DEF Allocate, SetPrincipal, SetLiquid, VaultTypeOK
<1>4. ASSUME NEW t \in Series, NEW repaid \in 1..MaxBalance, NEW returned \in 1..MaxBalance,
             Settle(t, repaid, returned)
      PROVE  Owned(s)'
  BY <1>1, <1>4 DEF Settle, SetPrincipal, SetLiquid, VaultTypeOK
<1>5. ASSUME NEW t \in Series, NEW lost \in 1..MaxBalance, RecordLoss(t, lost)
      PROVE  Owned(s)'
  BY <1>1, <1>5 DEF RecordLoss, SetPrincipal, VaultTypeOK
<1>6. ASSUME NEW o \in Owners, NEW amount \in 1..MaxBalance, Deposit(o, amount)
      PROVE  Owned(s)'
  <2> DEFINE t == DepositSeries
             minted == Minted(t, amount)
  <2>1. /\ t \in Series /\ minted > 0 /\ currentSeries' = t
        /\ SetSupply(t, supply[t] + minted)
        /\ SetLiquid(t, IF t = 0 THEN 0 ELSE liquid[t] + amount)
        /\ UNCHANGED principal
    BY <1>6 DEF Deposit
  <2>2. t = currentSeries \/ t = currentSeries + 1
    BY DEF DepositSeries
  <2>3. minted \in Nat
    BY <1>6, <2>1, SeriesLiquidTyped, SeriesNumbered, MintedTyped, VaultAssumption
    DEF Deposit, VaultTypeOK
  <2>4. supply[t] \in Nat
    BY <2>1 DEF VaultTypeOK
  <2> HIDE DEF t, minted
  <2>5. supply' = [supply EXCEPT ![t] = supply[t] + minted]
    BY <2>1 DEF SetSupply
  <2>6. CASE s = t
    <3>1. supply'[s] = supply[t] + minted
      BY <2>1, <2>5, <2>6 DEF VaultTypeOK
    <3>2. supply'[s] # 0 /\ ~(s > currentSeries')
      BY <1>1, <2>1, <2>3, <2>4, <2>6, <3>1
    <3> QED BY <3>2
  <2>7. CASE s # t
    <3>1. supply'[s] = supply[s]
      BY <2>5, <2>7 DEF VaultTypeOK
    <3>2. s > 0 => liquid'[s] = liquid[s]
      BY <1>1, <2>1, <2>7 DEF SetLiquid, VaultTypeOK
    <3> QED BY <1>1, <2>1, <2>2, <3>1, <3>2
  <2> QED BY <2>6, <2>7
<1>7. ASSUME NEW o \in Owners, NEW t \in Series, NEW n \in Nat, Redeem(o, t, n)
      PROVE  Owned(s)'
  <2> DEFINE paid == Payout(t, n)
  <2>1. /\ principal[t] = 0 /\ SetSupply(t, supply[t] - n)
        /\ SetLiquid(t, SeriesLiquid(t) - paid)
        /\ UNCHANGED <<currentSeries, principal>>
    BY <1>7 DEF Redeem
  <2>2. supply[t] \in Nat /\ SeriesLiquid(t) \in Int
    BY SeriesLiquidTyped DEF VaultTypeOK
  <2>3. n = supply[t] => paid = SeriesLiquid(t)
    BY DEF Payout
  <2> HIDE DEF paid
  <2>4. CASE s = t
    <3>1. supply'[s] = supply[t] - n /\ principal'[s] = 0
      BY <2>1, <2>4 DEF SetSupply, VaultTypeOK
    <3>2. supply'[s] = 0 => paid = SeriesLiquid(t)
      BY <2>2, <2>3, <3>1
    <3>3. s > 0 => liquid'[s] = SeriesLiquid(t) - paid
      BY <1>1, <2>1, <2>4 DEF SetLiquid, VaultTypeOK
    <3>4. ~(s > currentSeries)
      BY <1>1, <1>7, <2>4 DEF Redeem, OpenSeries
    <3> QED BY <2>1, <2>2, <3>1, <3>2, <3>3, <3>4
  <2>5. CASE s # t
    BY <1>1, <2>1, <2>5 DEF SetSupply, SetLiquid, VaultTypeOK
  <2> QED BY <2>4, <2>5
<1>8. ASSUME NEW o \in Owners, NEW t \in Series,
             \/ \E n \in 1..MaxShares : Withdraw(o, t, n)
             \/ ClaimWithdrawal(o, t)
      PROVE  Owned(s)'
  <2>1. PICK n \in Nat : Redeem(o, t, n)
    BY <1>8, VaultAssumption DEF Withdraw, ClaimWithdrawal, VaultTypeOK
  <2> QED BY <1>7, <2>1
<1>9. ASSUME \/ \E b \in BOOLEAN : SetVaultPaused(b)
             \/ \E bps \in AllocationLimits : SetAllocationLimit(bps)
             \/ RecoverUnowned
             \/ \E o \in Owners, t \in Series, n \in 1..MaxShares :
                   RequestWithdraw(o, t, n) \/ CancelWithdrawRequest(o, t, n)
             \/ \E amount \in 1..MaxBalance : TokenTransferIn(amount)
             \/ UNCHANGED vaultVars
      PROVE  UNCHANGED <<supply, principal, liquid, currentSeries>>
  BY <1>9 DEF SetVaultPaused, SetAllocationLimit, RecoverUnowned, RequestWithdraw,
              CancelWithdrawRequest, TokenTransferIn, vaultVars, books
<1> HIDE DEF Owned
<1> QED BY <1>2, <1>3, <1>4, <1>5, <1>6, <1>8, <1>9 DEF VaultNext

\* In the vault no series ever holds assets, or has principal out, that no share
\* has a claim on, but for what was sent to series 0: deposits, allocations,
\* settlements and redemptions, in any order.
THEOREM VaultOwned == VaultSpec => []NothingOwnerless
<1>1. VaultInit => NothingOwnerless
  BY DEF VaultInit, NothingOwnerless, Series, LaterSeries
<1> QED BY <1>1, VaultTypeCorrect, NothingOwnerlessKept, PTL DEF VaultSpec

-----------------------------------------------------------------------------
(* The kept totals.                                                        *)

\* Of the books, over the later series.
SeriesTotalled ==
    /\ otherLiquid = SumFunctionOnSet(liquid, LaterSeries)
    /\ otherPrincipal = SumFunctionOnSet(principal, LaterSeries)
    /\ otherShares = SumFunctionOnSet(supply, LaterSeries)

\* Of a series, over its owners.
ClaimsTotalled(s) ==
    /\ supply[s] = SumFunctionOnSet(shares[s], Owners)
    /\ pendingTotal[s] = SumFunctionOnSet(pending[s], Owners)
    /\ \A o \in Owners :
          /\ pending[s][o] <= shares[s][o]
          /\ s > 0 => (s \in ownerSeries[o] <=> shares[s][o] > 0)

LEMMA BooksInParts ==
    BooksBalance <=> /\ SeriesTotalled
                     /\ vaultBalance >= otherLiquid
                     /\ \A s \in Series : ClaimsTotalled(s)
<1> QED BY DEF BooksBalance, SeriesTotalled, ClaimsTotalled

LEMMA LaterSeriesFinite == IsFiniteSet(LaterSeries)
<1> QED BY FS_Interval, VaultAssumption DEF LaterSeries

\* The setters keep the totals over the later series.
LEMMA SetLiquidTotalled ==
    ASSUME VaultTypeOK, NEW s \in Series, NEW value \in Int, SetLiquid(s, value),
           otherLiquid = SumFunctionOnSet(liquid, LaterSeries)
    PROVE  otherLiquid' = SumFunctionOnSet(liquid', LaterSeries)
<1>1. CASE s = 0
  BY <1>1 DEF SetLiquid
<1>2. CASE s # 0
  <2>1. s \in LaterSeries
    BY <1>2, SeriesNumbered
  <2>2. /\ liquid' = [liquid EXCEPT ![s] = value]
        /\ otherLiquid' = otherLiquid + value - liquid[s]
    BY <1>2 DEF SetLiquid
  <2>3. SumFunctionOnSet(liquid', LaterSeries)
          = SumFunctionOnSet(liquid, LaterSeries) + liquid'[s] - liquid[s]
    <3>1. /\ \A x \in LaterSeries : liquid[x] \in Int
          /\ liquid'[s] \in Int
          /\ \A x \in LaterSeries : x # s => liquid'[x] = liquid[x]
      BY <2>1, <2>2 DEF VaultTypeOK
    <3> QED BY <2>1, <3>1, SumChange, LaterSeriesFinite
  <2>4. liquid'[s] = value
    BY <2>1, <2>2 DEF VaultTypeOK
  <2> QED BY <2>2, <2>3, <2>4
<1> QED BY <1>1, <1>2

\* Of principal and supply, which series 0 has too.
LEMMA OneTotalChanged ==
    ASSUME NEW f \in [Series -> Nat], NEW s \in Series, NEW value \in Int
    PROVE  LET g == [f EXCEPT ![s] = value]
           IN  SumFunctionOnSet(g, LaterSeries) =
                 IF s = 0 THEN SumFunctionOnSet(f, LaterSeries)
                          ELSE SumFunctionOnSet(f, LaterSeries) + value - f[s]
<1> DEFINE g == [f EXCEPT ![s] = value]
<1>1. LaterSeries \subseteq Series /\ 0 \notin LaterSeries
  BY VaultAssumption DEF LaterSeries, Series
<1>2. \A x \in Series : f[x] \in Int /\ (x # s => g[x] = f[x])
  OBVIOUS
<1>3. g[s] = value
  OBVIOUS
<1> HIDE DEF g
<1>4. CASE s = 0
  <2>1. \A x \in LaterSeries : f[x] = g[x]
    BY <1>1, <1>2, <1>4
  <2>2. SumFunctionOnSet(f, LaterSeries) = SumFunctionOnSet(g, LaterSeries)
    BY <2>1, SumSame, LaterSeriesFinite
  <2> QED BY <1>4, <2>2 DEF g
<1>5. CASE s # 0
  <2>1. s \in LaterSeries
    BY <1>5, SeriesNumbered
  <2>2. SumFunctionOnSet(g, LaterSeries) = SumFunctionOnSet(f, LaterSeries) + g[s] - f[s]
    <3>1. /\ \A x \in LaterSeries : f[x] \in Int
          /\ \A x \in LaterSeries : x # s => g[x] = f[x]
      BY <1>1, <1>2
    <3>2. g[s] \in Int
      BY <1>3
    <3> QED BY <2>1, <3>1, <3>2, SumChange, LaterSeriesFinite
  <2> QED BY <1>3, <1>5, <2>2 DEF g
<1> QED BY <1>4, <1>5 DEF g

LEMMA SetPrincipalTotalled ==
    ASSUME VaultTypeOK, NEW s \in Series, NEW value \in Int, SetPrincipal(s, value),
           otherPrincipal = SumFunctionOnSet(principal, LaterSeries)
    PROVE  otherPrincipal' = SumFunctionOnSet(principal', LaterSeries)
<1>1. principal \in [Series -> Nat]
  BY DEF VaultTypeOK
<1> QED BY <1>1, OneTotalChanged DEF SetPrincipal

LEMMA SetSupplyTotalled ==
    ASSUME VaultTypeOK, NEW s \in Series, NEW value \in Int, SetSupply(s, value),
           otherShares = SumFunctionOnSet(supply, LaterSeries)
    PROVE  otherShares' = SumFunctionOnSet(supply', LaterSeries)
<1>1. supply \in [Series -> Nat]
  BY DEF VaultTypeOK
<1> QED BY <1>1, OneTotalChanged DEF SetSupply

\* One owner's claim on a series changed, of shares or of pending ones.
LEMMA OneClaimTotalled ==
    ASSUME NEW p \in [Owners -> Nat], NEW q \in [Owners -> Nat], NEW o \in Owners,
           \A x \in Owners : x # o => q[x] = p[x]
    PROVE  SumFunctionOnSet(q, Owners) = SumFunctionOnSet(p, Owners) + q[o] - p[o]
<1>1. \A x \in Owners : p[x] \in Int /\ q[x] \in Int
  OBVIOUS
<1> QED BY <1>1, SumChange, VaultAssumption

LEMMA UnchangedTotals ==
    ASSUME SeriesTotalled, UNCHANGED <<liquid, principal, supply, otherLiquid,
                                       otherPrincipal, otherShares>>
    PROVE  SeriesTotalled'
<1> QED BY DEF SeriesTotalled

LEMMA UnchangedClaims ==
    ASSUME NEW s \in Series, ClaimsTotalled(s), UNCHANGED <<supply, claims>>
    PROVE  ClaimsTotalled(s)'
<1> QED BY DEF ClaimsTotalled, claims

\* The operator's transfers.
LEMMA OperatorBalanced ==
    ASSUME VaultTypeOK, VaultTypeOK', BooksBalance, NEW s \in Series,
           \/ \E amount \in 1..MaxBalance : Allocate(s, amount)
           \/ \E repaid, returned \in 1..MaxBalance : Settle(s, repaid, returned)
           \/ \E lost \in 1..MaxBalance : RecordLoss(s, lost)
    PROVE  BooksBalance'
<1>1. /\ SeriesTotalled /\ vaultBalance >= otherLiquid
      /\ \A t \in Series : ClaimsTotalled(t)
  BY BooksInParts
<1>2. /\ principal[s] \in Nat /\ SeriesLiquid(s) \in Int
      /\ vaultBalance \in Nat /\ otherLiquid \in Nat
      /\ s # 0 => s \in LaterSeries /\ liquid[s] \in Nat
  BY SeriesLiquidTyped, SeriesNumbered DEF VaultTypeOK
\* The balance moves with the series' liquid assets.
<1>3. ASSUME NEW d \in Int, SetLiquid(s, SeriesLiquid(s) + d),
             vaultBalance' = vaultBalance + d,
             s = 0 => SeriesLiquid(0) + d >= 0
      PROVE  vaultBalance' >= otherLiquid'
  <2>1. CASE s = 0
    BY <1>2, <1>3, <2>1 DEF SetLiquid, SeriesLiquid
  <2>2. CASE s # 0
    BY <1>1, <1>2, <1>3, <2>2 DEF SetLiquid, SeriesLiquid
  <2> QED BY <2>1, <2>2
<1>4. ASSUME UNCHANGED <<supply, claims>> PROVE \A t \in Series : ClaimsTotalled(t)'
  BY <1>1, <1>4, UnchangedClaims
<1>5. ASSUME NEW amount \in 1..MaxBalance, Allocate(s, amount) PROVE BooksBalance'
  <2>1. /\ SetPrincipal(s, principal[s] + amount) /\ SetLiquid(s, SeriesLiquid(s) - amount)
        /\ vaultBalance' = vaultBalance - amount /\ amount <= SeriesLiquid(s)
        /\ UNCHANGED <<supply, otherShares, claims>>
    BY <1>5 DEF Allocate
  <2>2. amount \in Nat /\ SeriesLiquid(s) - amount = SeriesLiquid(s) + (0 - amount)
        /\ vaultBalance - amount = vaultBalance + (0 - amount)
    BY <1>2, VaultAssumption
  <2>3. vaultBalance' >= otherLiquid'
    BY <1>2, <1>3, <2>1, <2>2
  <2>4. SeriesTotalled'
    BY <1>1, <1>2, <2>1, <2>2, SetPrincipalTotalled, SetLiquidTotalled DEF SeriesTotalled
  <2> QED BY <1>4, <2>1, <2>3, <2>4 DEF BooksBalance, SeriesTotalled, ClaimsTotalled
<1>6. ASSUME NEW repaid \in 1..MaxBalance, NEW returned \in 1..MaxBalance,
             Settle(s, repaid, returned)
      PROVE  BooksBalance'
  <2>1. /\ SetPrincipal(s, principal[s] - repaid) /\ SetLiquid(s, SeriesLiquid(s) + returned)
        /\ vaultBalance' = vaultBalance + returned
        /\ UNCHANGED <<supply, otherShares, claims>>
    BY <1>6 DEF Settle
  <2>2. returned \in Nat /\ repaid \in Nat
    BY VaultAssumption
  <2>3. s = 0 => SeriesLiquid(0) + returned >= 0
    BY <1>1, <1>2, <2>2 DEF SeriesLiquid
  <2>4. vaultBalance' >= otherLiquid'
    BY <1>3, <2>1, <2>2, <2>3
  <2>5. SeriesTotalled'
    BY <1>1, <1>2, <2>1, <2>2, SetPrincipalTotalled, SetLiquidTotalled DEF SeriesTotalled
  <2> QED BY <1>4, <2>1, <2>4, <2>5 DEF BooksBalance, SeriesTotalled, ClaimsTotalled
<1>7. ASSUME NEW lost \in 1..MaxBalance, RecordLoss(s, lost) PROVE BooksBalance'
  <2>1. /\ SetPrincipal(s, principal[s] - lost)
        /\ UNCHANGED <<vaultBalance, supply, liquid, otherLiquid, otherShares, claims>>
    BY <1>7 DEF RecordLoss
  <2>2. SeriesTotalled'
    BY <1>1, <1>2, <2>1, SetPrincipalTotalled, VaultAssumption DEF SeriesTotalled
  <2> QED BY <1>1, <1>4, <2>1, <2>2 DEF BooksBalance, SeriesTotalled, ClaimsTotalled
<1> QED BY <1>5, <1>6, <1>7

LEMMA DepositBalanced ==
    ASSUME VaultTypeOK, BooksBalance, NEW o \in Owners, NEW amount \in 1..MaxBalance,
           Deposit(o, amount)
    PROVE  BooksBalance'
<1> DEFINE t == DepositSeries
           minted == Minted(t, amount)
<1>1. /\ SeriesTotalled /\ vaultBalance >= otherLiquid
      /\ \A s \in Series : ClaimsTotalled(s)
  BY BooksInParts
<1>2. /\ t \in Series /\ minted > 0 /\ vaultBalance' = vaultBalance + amount
      /\ shares' = [shares EXCEPT ![t][o] = @ + minted]
      /\ SetSupply(t, supply[t] + minted)
      /\ SetLiquid(t, IF t = 0 THEN 0 ELSE liquid[t] + amount)
      /\ ownerSeries' = IF t = 0 THEN ownerSeries
                                 ELSE [ownerSeries EXCEPT ![o] = @ \cup {t}]
      /\ UNCHANGED <<principal, otherPrincipal, pending, pendingTotal>>
  BY DEF Deposit
<1>3. amount \in Nat /\ vaultBalance \in Nat /\ otherLiquid \in Nat
  BY VaultAssumption DEF VaultTypeOK
<1>4. minted \in Nat
  <2>1. t <= currentSeries /\ supply[t] > 0 => SeriesAssets(t) > 0
    BY <1>2, SeriesLiquidTyped, SeriesNumbered DEF Deposit, VaultTypeOK
  <2> QED BY <1>2, <1>3, <2>1, MintedTyped
<1> HIDE DEF t, minted
<1>5. /\ supply[t] \in Nat /\ shares[t][o] \in Nat
      /\ (t # 0 => t \in LaterSeries /\ liquid[t] \in Nat)
  BY <1>2, SeriesNumbered DEF VaultTypeOK
<1>6. SeriesTotalled'
  <2>1. (IF t = 0 THEN 0 ELSE liquid[t] + amount) \in Int /\ supply[t] + minted \in Int
    BY <1>3, <1>4, <1>5
  <2>2. otherLiquid' = SumFunctionOnSet(liquid', LaterSeries)
    BY <1>1, <1>2, <2>1, SetLiquidTotalled DEF SeriesTotalled
  <2>3. otherShares' = SumFunctionOnSet(supply', LaterSeries)
    BY <1>1, <1>2, <2>1, SetSupplyTotalled DEF SeriesTotalled
  <2> QED BY <1>1, <1>2, <2>2, <2>3 DEF SeriesTotalled
<1>7. vaultBalance' >= otherLiquid'
  BY <1>1, <1>2, <1>3, <1>5 DEF SetLiquid
<1>8. ASSUME NEW s \in Series PROVE ClaimsTotalled(s)'
  <2>1. ClaimsTotalled(s) /\ s \in Nat
    BY <1>1, SeriesNumbered
  <2>2. supply'[s] = IF s = t THEN supply[t] + minted ELSE supply[s]
    BY <1>2 DEF SetSupply, VaultTypeOK
  <2>3. SumFunctionOnSet(shares'[s], Owners)
          = IF s = t THEN SumFunctionOnSet(shares[s], Owners) + minted
                     ELSE SumFunctionOnSet(shares[s], Owners)
    <3>1. CASE s # t
      BY <1>2, <3>1 DEF VaultTypeOK
    <3>2. CASE s = t
      <4>1. /\ shares[s] \in [Owners -> Nat] /\ shares'[s] \in [Owners -> Nat]
            /\ shares'[s][o] = shares[s][o] + minted
            /\ \A x \in Owners : x # o => shares'[s][x] = shares[s][x]
        BY <1>2, <1>4, <3>2 DEF VaultTypeOK
      <4>2. SumFunctionOnSet(shares'[s], Owners)
              = SumFunctionOnSet(shares[s], Owners) + shares'[s][o] - shares[s][o]
        BY <4>1, OneClaimTotalled
      <4>3. SumFunctionOnSet(shares[s], Owners) \in Int
        BY <2>1 DEF ClaimsTotalled, VaultTypeOK
      <4> QED BY <1>4, <1>5, <3>2, <4>1, <4>2, <4>3
    <3> QED BY <3>1, <3>2
  <2>4. ASSUME NEW p \in Owners
        PROVE  pending'[s][p] <= shares'[s][p]
               /\ (s > 0 => (s \in ownerSeries'[p] <=> shares'[s][p] > 0))
    <3>1. /\ pending[s][p] <= shares[s][p] /\ pending[s][p] \in Nat /\ shares[s][p] \in Nat
          /\ s > 0 => (s \in ownerSeries[p] <=> shares[s][p] > 0)
      BY <2>1 DEF ClaimsTotalled, VaultTypeOK
    <3>2. pending'[s][p] = pending[s][p]
      BY <1>2
    <3>3. CASE s = t /\ p = o
      <4>1. shares'[s][p] = shares[s][p] + minted
        BY <1>2, <3>3 DEF VaultTypeOK
      <4>2. s > 0 => s \in ownerSeries'[p]
        BY <1>2, <2>1, <3>3 DEF VaultTypeOK
      <4> QED BY <1>2, <1>4, <3>1, <3>2, <4>1, <4>2
    <3>4. CASE ~(s = t /\ p = o)
      <4>1. shares'[s][p] = shares[s][p]
        BY <1>2, <3>4 DEF VaultTypeOK
      <4>2. s \in ownerSeries'[p] <=> s \in ownerSeries[p]
        BY <1>2, <3>4 DEF VaultTypeOK
      <4> QED BY <3>1, <3>2, <4>1, <4>2
    <3> QED BY <3>3, <3>4
  <2>5. pendingTotal'[s] = SumFunctionOnSet(pending'[s], Owners)
    BY <1>2, <2>1 DEF ClaimsTotalled
  <2> QED BY <2>1, <2>2, <2>3, <2>4, <2>5 DEF ClaimsTotalled
<1> QED BY <1>6, <1>7, <1>8 DEF BooksBalance, SeriesTotalled, ClaimsTotalled

\* What a redemption pays is not more than the series has.
LEMMA PayoutCovered ==
    ASSUME NEW L \in Nat, NEW S \in Nat \ {0}, NEW n \in Nat, n <= S
    PROVE  mul_div_floor(n, L, S) \in Nat /\ mul_div_floor(n, L, S) <= L
<1>1. mul_div_floor(n, L, S) \in Nat /\ mul_div_floor(n, L, S) * S <= n * L
  <2>1. n \in Int /\ L \in Int
    OBVIOUS
  <2>2. mul_div_floor(n, L, S) * S <= n * L
    BY <2>1, FloorBelow, Zenon
  <2>3. mul_div_floor(n, L, S) \in Nat
    BY FloorNatural, Zenon
  <2> QED BY <2>2, <2>3
<1>2. n * L <= S * L
  BY MorePerShare
<1>3. ASSUME NEW q \in Nat, q * S <= S * L PROVE q <= L
  <2> SUFFICES ASSUME q >= L + 1 PROVE FALSE
    OBVIOUS
  <2>1. q * S >= (L + 1) * S
    BY MorePerShare
  <2>2. (L + 1) * S = S * L + S
    OBVIOUS
  <2>3. q * S \in Int /\ S * L \in Int
    OBVIOUS
  <2> QED BY <1>3, <2>1, <2>2, <2>3
<1>4. n * L \in Int /\ S * L \in Int
  OBVIOUS
<1>5. mul_div_floor(n, L, S) * S <= S * L
  <2>1. mul_div_floor(n, L, S) * S \in Int
    BY <1>1
  <2> QED BY <1>1, <1>2, <1>4, <2>1
<1> QED BY <1>1, <1>3, <1>5

\* What withdraw and claim_withdrawal have in common.
LEMMA RedeemBalanced ==
    ASSUME VaultTypeOK, BooksBalance, NEW o \in Owners, NEW t \in Series, NEW n \in Nat,
           Redeem(o, t, n)
    PROVE  /\ SeriesTotalled' /\ vaultBalance' >= otherLiquid'
           /\ \A s \in Series : supply'[s] = SumFunctionOnSet(shares'[s], Owners)
<1> DEFINE paid == Payout(t, n)
<1>1. /\ SeriesTotalled /\ vaultBalance >= otherLiquid
      /\ \A s \in Series : ClaimsTotalled(s)
  BY BooksInParts
<1>2. /\ shares' = [shares EXCEPT ![t][o] = @ - n] /\ n \in 1..shares[t][o]
      /\ SetSupply(t, supply[t] - n) /\ SetLiquid(t, SeriesLiquid(t) - paid)
      /\ vaultBalance' = vaultBalance - paid
      /\ UNCHANGED <<principal, otherPrincipal>>
  BY DEF Redeem
<1>3. /\ supply[t] \in Nat /\ SeriesLiquid(t) \in Int
      /\ shares[t] \in [Owners -> Nat] /\ shares[t][o] \in Nat
      /\ vaultBalance \in Nat /\ otherLiquid \in Nat
      /\ t # 0 => t \in LaterSeries /\ liquid[t] \in Nat
  BY SeriesLiquidTyped, SeriesNumbered DEF VaultTypeOK
\* Nobody has more shares than there are.
<1>4. n <= supply[t] /\ supply[t] \in Nat \ {0}
  <2>1. shares[t][o] <= SumFunctionOnSet(shares[t], Owners)
    BY <1>3, SumNatural, VaultAssumption
  <2>2. supply[t] = SumFunctionOnSet(shares[t], Owners)
    BY <1>1 DEF ClaimsTotalled
  <2> QED BY <1>2, <1>3, <2>1, <2>2
<1>5. SeriesLiquid(t) \in Nat
  BY <1>1, <1>3 DEF SeriesLiquid
<1>6. paid \in Nat /\ paid <= SeriesLiquid(t)
  <2>1. CASE n = supply[t]
    BY <1>5, <2>1 DEF Payout
  <2>2. CASE n # supply[t]
    BY <1>4, <1>5, <2>2, PayoutCovered DEF Payout
  <2> QED BY <2>1, <2>2
<1> HIDE DEF paid
<1>7. SeriesTotalled'
  BY <1>1, <1>2, <1>3, <1>6, SetSupplyTotalled, SetLiquidTotalled DEF SeriesTotalled
<1>8. vaultBalance' >= otherLiquid'
  <2>1. CASE t = 0
    BY <1>2, <1>3, <1>6, <2>1 DEF SetLiquid, SeriesLiquid
  <2>2. CASE t # 0
    BY <1>1, <1>2, <1>3, <1>6, <2>2 DEF SetLiquid, SeriesLiquid
  <2> QED BY <2>1, <2>2
<1>9. ASSUME NEW s \in Series PROVE supply'[s] = SumFunctionOnSet(shares'[s], Owners)
  <2>1. supply[s] = SumFunctionOnSet(shares[s], Owners)
    BY <1>1 DEF ClaimsTotalled
  <2>2. CASE s # t
    BY <1>2, <2>1, <2>2 DEF SetSupply, VaultTypeOK
  <2>3. CASE s = t
    <3>1. /\ shares'[s] \in [Owners -> Nat] /\ shares'[s][o] = shares[s][o] - n
          /\ \A x \in Owners : x # o => shares'[s][x] = shares[s][x]
      BY <1>2, <1>3, <2>3 DEF VaultTypeOK
    <3>2. SumFunctionOnSet(shares'[s], Owners)
            = SumFunctionOnSet(shares[s], Owners) + shares'[s][o] - shares[s][o]
      BY <1>3, <2>3, <3>1, OneClaimTotalled
    <3>3. supply'[s] = supply[s] - n
      BY <1>2, <2>3 DEF SetSupply, VaultTypeOK
    <3> QED BY <1>3, <2>1, <2>3, <3>1, <3>2, <3>3
  <2> QED BY <2>2, <2>3
<1> QED BY <1>7, <1>8, <1>9

\* What is requested for withdrawal, after a request, a cancellation or a claim.
LEMMA PendingTotalled ==
    ASSUME VaultTypeOK, NEW o \in Owners, NEW t \in Series, NEW d \in Int,
           ClaimsTotalled(t),
           pending'[t] \in [Owners -> Nat], pending'[t][o] = pending[t][o] + d,
           \A x \in Owners : x # o => pending'[t][x] = pending[t][x],
           pendingTotal'[t] = pendingTotal[t] + d
    PROVE  pendingTotal'[t] = SumFunctionOnSet(pending'[t], Owners)
<1>1. pending[t] \in [Owners -> Nat] /\ pending[t][o] \in Nat /\ pendingTotal[t] \in Nat
  BY DEF VaultTypeOK
<1>2. SumFunctionOnSet(pending'[t], Owners)
        = SumFunctionOnSet(pending[t], Owners) + pending'[t][o] - pending[t][o]
  BY <1>1, OneClaimTotalled
<1>3. pendingTotal[t] = SumFunctionOnSet(pending[t], Owners)
  BY DEF ClaimsTotalled
<1> QED BY <1>1, <1>2, <1>3

LEMMA ProviderBalanced ==
    ASSUME VaultTypeOK, VaultTypeOK', BooksBalance, NEW o \in Owners, NEW t \in Series,
           \/ \E n \in 1..MaxShares : Withdraw(o, t, n)
           \/ \E n \in 1..MaxShares : RequestWithdraw(o, t, n)
           \/ \E n \in 1..MaxShares : CancelWithdrawRequest(o, t, n)
           \/ ClaimWithdrawal(o, t)
    PROVE  BooksBalance'
<1> DEFINE Held(s, p) == /\ pending[s][p] <= shares[s][p]
                         /\ s > 0 => (s \in ownerSeries[p] <=> shares[s][p] > 0)
<1> USE VaultAssumption
<1>1. /\ SeriesTotalled /\ vaultBalance >= otherLiquid
      /\ \A s \in Series : ClaimsTotalled(s)
      /\ \A s \in Series, p \in Owners : Held(s, p)
  BY BooksInParts DEF ClaimsTotalled
<1>2. \A s \in Series, p \in Owners :
        /\ s \in Nat /\ shares[s][p] \in Nat /\ pending[s][p] \in Nat
        /\ shares'[s][p] \in Nat /\ pending'[s][p] \in Nat
        /\ pendingTotal[s] \in Nat
  BY SeriesNumbered DEF VaultTypeOK
\* The index, after shares were redeemed.
<1>3. ASSUME NEW n \in Nat, Redeem(o, t, n), PruneOwnerSeries(o, t),
             pending'[t][o] <= shares'[t][o],
             \A s \in Series, p \in Owners :
               (s # t \/ p # o) => pending'[s][p] = pending[s][p]
      PROVE  \A s \in Series, p \in Owners : Held(s, p)'
  <2> SUFFICES ASSUME NEW s \in Series, NEW p \in Owners PROVE Held(s, p)'
    OBVIOUS
  <2>1. shares' = [shares EXCEPT ![t][o] = @ - n] /\ n \in 1..shares[t][o]
    BY <1>3 DEF Redeem
  <2>2. ownerSeries \in [Owners -> SUBSET LaterSeries]
    BY DEF VaultTypeOK
  <2>3. CASE s = t /\ p = o
    <3>1. shares[s][p] > 0
      BY <1>2, <2>1, <2>3
    <3>2. s > 0 => (s \in ownerSeries'[p] <=> shares'[s][p] > 0)
      <4>1. CASE shares'[t][o] = 0 /\ pending'[t][o] = 0
        BY <1>3, <2>2, <2>3, <4>1 DEF PruneOwnerSeries
      <4>2. CASE ~(shares'[t][o] = 0 /\ pending'[t][o] = 0)
        <5>1. ownerSeries' = ownerSeries
          BY <1>3, <4>2 DEF PruneOwnerSeries
        <5>2. shares'[t][o] > 0
          BY <1>2, <1>3, <4>2
        <5> QED BY <1>1, <2>3, <3>1, <5>1, <5>2
      <4> QED BY <4>1, <4>2
    <3> QED BY <1>3, <2>3, <3>2
  <2>4. CASE ~(s = t /\ p = o)
    <3>1. shares'[s][p] = shares[s][p]
      BY <2>1, <2>4 DEF VaultTypeOK
    <3>2. s \in ownerSeries'[p] <=> s \in ownerSeries[p]
      BY <1>3, <2>2, <2>4 DEF PruneOwnerSeries
    <3>3. pending'[s][p] = pending[s][p]
      BY <1>3, <2>4
    <3> QED BY <1>1, <3>1, <3>2, <3>3
  <2> QED BY <2>3, <2>4
<1>4. ASSUME NEW n \in Nat, Redeem(o, t, n), \A s \in Series, p \in Owners : Held(s, p)',
             \A s \in Series : pendingTotal'[s] = SumFunctionOnSet(pending'[s], Owners)
      PROVE  BooksBalance'
  <2>1. /\ SeriesTotalled' /\ vaultBalance' >= otherLiquid'
        /\ \A s \in Series : supply'[s] = SumFunctionOnSet(shares'[s], Owners)
    BY <1>4, RedeemBalanced
  <2> QED BY <1>4, <2>1 DEF BooksBalance, SeriesTotalled
<1>5. ASSUME NEW n \in 1..MaxShares, Withdraw(o, t, n) PROVE BooksBalance'
  <2>1. /\ n \in Nat /\ n <= shares[t][o] - pending[t][o] /\ Redeem(o, t, n)
        /\ UNCHANGED <<pending, pendingTotal>> /\ PruneOwnerSeries(o, t)
    BY <1>5 DEF Withdraw, AvailableShares
  <2>2. shares'[t][o] = shares[t][o] - n
    BY <2>1 DEF Redeem, VaultTypeOK
  <2>3. pending'[t][o] <= shares'[t][o]
    BY <1>2, <2>1, <2>2
  <2>4. \A s \in Series, p \in Owners : Held(s, p)'
    <3> HIDE DEF Held
    <3> QED BY <1>3, <2>1, <2>3
  <2>5. \A s \in Series : pendingTotal'[s] = SumFunctionOnSet(pending'[s], Owners)
    BY <1>1, <2>1 DEF ClaimsTotalled
  <2> QED BY <1>4, <2>1, <2>4, <2>5
<1>6. ASSUME ClaimWithdrawal(o, t) PROVE BooksBalance'
  <2> DEFINE n == pending[t][o]
  <2>1. /\ n \in Nat /\ Redeem(o, t, n) /\ PruneOwnerSeries(o, t)
        /\ pending' = [pending EXCEPT ![t][o] = 0]
        /\ pendingTotal' = [pendingTotal EXCEPT ![t] = @ - n]
    BY <1>2, <1>6 DEF ClaimWithdrawal
  <2>2. /\ pending'[t][o] = 0
        /\ \A s \in Series, p \in Owners : (s # t \/ p # o) => pending'[s][p] = pending[s][p]
    BY <2>1 DEF VaultTypeOK
  <2>3. \A s \in Series, p \in Owners : Held(s, p)'
    <3>1. pending'[t][o] <= shares'[t][o]
      BY <1>2, <2>2
    <3> HIDE DEF Held, n
    <3> QED BY <1>3, <2>1, <2>2, <3>1
  <2>4. ASSUME NEW s \in Series
        PROVE  pendingTotal'[s] = SumFunctionOnSet(pending'[s], Owners)
    <3>1. CASE s # t
      BY <1>1, <2>1, <3>1 DEF ClaimsTotalled, VaultTypeOK
    <3>2. CASE s = t
      <4>1. /\ pending'[t] \in [Owners -> Nat] /\ 0 - n \in Int
            /\ \A x \in Owners : x # o => pending'[t][x] = pending[t][x]
        BY <1>2, <2>1 DEF VaultTypeOK
      <4>2. pending'[t][o] = pending[t][o] + (0 - n)
        BY <1>2, <2>2
      <4>3. pendingTotal'[t] = pendingTotal[t] + (0 - n)
        BY <1>2, <2>1 DEF VaultTypeOK
      <4> HIDE DEF n
      <4> QED BY <1>1, <3>2, <4>1, <4>2, <4>3, PendingTotalled
    <3> QED BY <3>1, <3>2
  <2> HIDE DEF n
  <2> QED BY <1>4, <2>1, <2>3, <2>4
\* Requests and their cancellations leave the books and the shares alone.
<1>7. ASSUME NEW d \in Int, pending[t][o] + d <= shares[t][o],
             pending' = [pending EXCEPT ![t][o] = @ + d],
             pendingTotal' = [pendingTotal EXCEPT ![t] = @ + d],
             UNCHANGED <<vaultBalance, books, shares, ownerSeries>>
      PROVE  BooksBalance'
  <2>1. SeriesTotalled' /\ vaultBalance' >= otherLiquid'
    BY <1>1, <1>7, UnchangedTotals DEF books
  <2>2. ASSUME NEW s \in Series PROVE ClaimsTotalled(s)'
    <3>1. supply'[s] = SumFunctionOnSet(shares'[s], Owners)
      BY <1>1, <1>7 DEF ClaimsTotalled, books
    <3>2. pendingTotal'[s] = SumFunctionOnSet(pending'[s], Owners)
      <4>1. CASE s # t
        BY <1>1, <1>7, <4>1 DEF ClaimsTotalled, VaultTypeOK
      <4>2. CASE s = t
        <5>1. /\ pending'[t] \in [Owners -> Nat] /\ pending'[t][o] = pending[t][o] + d
              /\ \A x \in Owners : x # o => pending'[t][x] = pending[t][x]
              /\ pendingTotal'[t] = pendingTotal[t] + d
          BY <1>7 DEF VaultTypeOK
        <5> QED BY <1>1, <4>2, <5>1, PendingTotalled
      <4> QED BY <4>1, <4>2
    <3>3. ASSUME NEW p \in Owners PROVE Held(s, p)'
      <4>1. pending'[s][p] <= shares'[s][p]
        BY <1>1, <1>2, <1>7 DEF VaultTypeOK
      <4> QED BY <1>1, <1>7, <4>1
    <3> QED BY <3>1, <3>2, <3>3 DEF ClaimsTotalled
  <2> QED BY <2>1, <2>2 DEF BooksBalance, SeriesTotalled, ClaimsTotalled
<1>8. ASSUME NEW n \in 1..MaxShares, RequestWithdraw(o, t, n) PROVE BooksBalance'
  <2>1. n \in Int /\ pending[t][o] + n <= shares[t][o]
    BY <1>2, <1>8 DEF RequestWithdraw, AvailableShares
  <2> QED BY <1>7, <1>8, <2>1 DEF RequestWithdraw
<1>9. ASSUME NEW n \in 1..MaxShares, CancelWithdrawRequest(o, t, n) PROVE BooksBalance'
  <2>1. n \in Nat /\ 0 - n \in Int /\ pending[t][o] + (0 - n) <= shares[t][o]
    BY <1>1, <1>2
  <2>2. /\ pending' = [pending EXCEPT ![t][o] = @ + (0 - n)]
        /\ pendingTotal' = [pendingTotal EXCEPT ![t] = @ + (0 - n)]
    <3>1. pending[t][o] - n = pending[t][o] + (0 - n) /\ pendingTotal[t] - n = pendingTotal[t] + (0 - n)
      BY <1>2, <2>1
    <3> QED BY <1>9, <3>1 DEF CancelWithdrawRequest
  <2> QED BY <1>7, <1>9, <2>1, <2>2 DEF CancelWithdrawRequest
<1> QED BY <1>5, <1>6, <1>8, <1>9

LEMMA BooksBalanceKept ==
    ASSUME VaultTypeOK, VaultTypeOK', VaultIsSound, [VaultNext]_vaultVars
    PROVE  BooksBalance'
<1>1. BooksBalance /\ NothingOwnerless
  BY DEF VaultIsSound
<1>2. CASE UNCHANGED <<vaultBalance, books, claims>>
  BY <1>1, <1>2 DEF BooksBalance, books, claims
\* What is recovered is none of the later series': they have no shares, so nothing.
<1>3. CASE RecoverUnowned
  <2>1. /\ supply[0] + otherShares = 0 /\ vaultBalance' = 0
        /\ UNCHANGED <<books, claims>>
    BY <1>3 DEF RecoverUnowned, TotalShares
  <2>2. supply[0] \in Nat /\ otherShares \in Nat
    BY VaultAssumption DEF VaultTypeOK, Series
  <2>3. SumFunctionOnSet(supply, LaterSeries) = 0
    BY <1>1, <2>1, <2>2 DEF BooksBalance
  <2>4. \A s \in LaterSeries : s \in Series /\ s > 0 /\ supply[s] \in Nat
    <3>1. \A s \in LaterSeries : s \in Series /\ s > 0
      BY VaultAssumption DEF LaterSeries, Series
    <3> QED BY <3>1 DEF VaultTypeOK
  <2>5. \A s \in LaterSeries : supply[s] <= SumFunctionOnSet(supply, LaterSeries)
    BY <2>4, SumNatural, LaterSeriesFinite
  <2>6. \A s \in LaterSeries : supply[s] = 0
    BY <2>3, <2>4, <2>5
  <2>7. \A s \in LaterSeries : liquid[s] = 0
    BY <1>1, <2>4, <2>6 DEF NothingOwnerless
  <2>8. otherLiquid = 0
    BY <1>1, <2>7, SumZero, LaterSeriesFinite DEF BooksBalance
  <2> QED BY <1>1, <2>1, <2>8 DEF BooksBalance, books, claims
<1>4. CASE \E amount \in 1..MaxBalance : TokenTransferIn(amount)
  <2>1. vaultBalance' >= vaultBalance /\ UNCHANGED <<books, claims>>
    BY <1>4, VaultAssumption DEF TokenTransferIn, VaultTypeOK
  <2>2. vaultBalance' >= otherLiquid'
    BY <1>1, <2>1 DEF BooksBalance, books, VaultTypeOK
  <2> QED BY <1>1, <2>1, <2>2 DEF BooksBalance, books, claims
<1>5. CASE \/ \E b \in BOOLEAN : SetVaultPaused(b)
           \/ \E bps \in AllocationLimits : SetAllocationLimit(bps)
           \/ UNCHANGED vaultVars
  BY <1>2, <1>5 DEF SetVaultPaused, SetAllocationLimit, vaultVars
<1> QED
  BY <1>1, <1>3, <1>4, <1>5, OperatorBalanced, DepositBalanced, ProviderBalanced DEF VaultNext

\* Every total that liquidity-vault keeps is what it totals, whatever calls the
\* operator and the liquidity providers interleave: over the series, and over
\* the owners of each; the balance covers the later series; the index of an
\* owner's series is exact.  The argument needs that no series holds anything
\* without shares, since recover_unowned takes the whole balance.
THEOREM VaultBalances == VaultSpec => []VaultIsSound
<1>1. VaultInit => BooksBalance
  <2> SUFFICES ASSUME VaultInit PROVE BooksBalance
    OBVIOUS
  <2>1. SeriesTotalled /\ vaultBalance >= otherLiquid
    <3>1. \A s \in LaterSeries : s \in Series
      BY VaultAssumption DEF LaterSeries, Series
    <3> QED BY <3>1, SumZero, LaterSeriesFinite DEF VaultInit, SeriesTotalled
  <2>2. ASSUME NEW s \in Series PROVE ClaimsTotalled(s)
    <3>1. \A o \in Owners : shares[s][o] = 0 /\ pending[s][o] = 0
      BY DEF VaultInit
    <3>2. SumFunctionOnSet(shares[s], Owners) = 0 /\ SumFunctionOnSet(pending[s], Owners) = 0
      BY <3>1, SumZero, VaultAssumption
    <3> QED BY <3>1, <3>2 DEF VaultInit, ClaimsTotalled
  <2> QED BY <2>1, <2>2, BooksInParts
<1>2. VaultTypeOK /\ VaultTypeOK' /\ NothingOwnerless /\ NothingOwnerless' /\ BooksBalance
      /\ [VaultNext]_vaultVars => BooksBalance'
  BY BooksBalanceKept DEF VaultIsSound
<1>3. VaultSpec => []BooksBalance
  BY <1>1, <1>2, VaultTypeCorrect, VaultOwned, PTL DEF VaultSpec
<1>4. BooksBalance /\ NothingOwnerless => VaultIsSound
  BY DEF VaultIsSound
<1> QED BY <1>3, <1>4, VaultOwned, PTL

-----------------------------------------------------------------------------
(* The value of a share.                                                   *)

\* Moving d in or out of the liquid assets of series t, in the balance and in
\* the books, moves no other series' liquid assets.
LEMMA OneSeriesMoved ==
    ASSUME VaultTypeOK, NEW t \in Series, NEW d \in Int,
           vaultBalance' = vaultBalance + d, SetLiquid(t, SeriesLiquid(t) + d),
           NEW s \in Series
    PROVE  SeriesLiquid(s)' = SeriesLiquid(s) + (IF s = t THEN d ELSE 0)
<1>1. (s # 0 => s \in LaterSeries) /\ (t # 0 => t \in LaterSeries)
  BY SeriesNumbered
<1>2. CASE t = 0
  BY <1>1, <1>2 DEF SetLiquid, SeriesLiquid, VaultTypeOK
<1>3. CASE t # 0
  <2>1. /\ otherLiquid' = otherLiquid + d
        /\ liquid' = [liquid EXCEPT ![t] = liquid[t] + d]
    BY <1>1, <1>3 DEF SetLiquid, SeriesLiquid, VaultTypeOK
  <2>2. CASE s = 0
    BY <1>3, <2>1, <2>2 DEF SeriesLiquid, VaultTypeOK
  <2>3. CASE s # 0
    BY <1>1, <2>1, <2>3 DEF SeriesLiquid, VaultTypeOK
  <2> QED BY <2>2, <2>3
<1> QED BY <1>2, <1>3

\* A deposit of a for m shares, of a series with assets A and supply S.
LEMMA DepositFair ==
    ASSUME NEW A \in Int, NEW S \in Int, NEW a \in Int, NEW m \in Int, m * A <= a * S
    PROVE  (A + a) * S >= A * (S + m)
<1>1. (A + a) * S = A * S + a * S
  OBVIOUS
<1>2. A * (S + m) = A * S + m * A
  OBVIOUS
<1>3. A * S \in Int /\ a * S \in Int /\ m * A \in Int
  OBVIOUS
<1> QED BY <1>1, <1>2, <1>3

LEMMA RedeemFair ==
    ASSUME NEW L \in Int, NEW S \in Int, NEW n \in Int, NEW p \in Int, p * S <= n * L
    PROVE  (L - p) * S >= L * (S - n)
<1>1. (L - p) * S = L * S - p * S
  OBVIOUS
<1>2. L * (S - n) = L * S - n * L
  OBVIOUS
<1>3. L * S \in Int /\ p * S \in Int /\ n * L \in Int
  OBVIOUS
<1> QED BY <1>1, <1>2, <1>3

LEMMA SharePriceStep ==
    ASSUME VaultTypeOK, VaultTypeOK', [VaultNext]_vaultVars, NEW s \in OpenSeries,
           supply[s] > 0, supply'[s] > 0, principal'[s] >= principal[s]
    PROVE  SeriesAssets(s)' * supply[s] >= SeriesAssets(s) * supply'[s]
<1> DEFINE Goal == SeriesAssets(s)' * supply[s] >= SeriesAssets(s) * supply'[s]
<1>1. /\ s \in Series /\ s \in Nat /\ (s # 0 => s \in LaterSeries) /\ s <= currentSeries
      /\ supply[s] \in Nat /\ supply'[s] \in Nat
      /\ principal[s] \in Nat /\ principal'[s] \in Nat
      /\ SeriesLiquid(s) \in Int /\ SeriesAssets(s) \in Int
  <2>1. s \in Series /\ s <= currentSeries
    BY VaultAssumption DEF OpenSeries, Series, VaultTypeOK
  <2> QED BY <2>1, SeriesNumbered, SeriesLiquidTyped DEF VaultTypeOK
\* Enough: neither less in assets nor more in shares than before.
<1>2. ASSUME SeriesLiquid(s)' \in Int, SeriesLiquid(s)' + principal'[s] >= SeriesAssets(s),
             supply'[s] = supply[s]
      PROVE  Goal
  BY <1>1, <1>2, MorePerShare DEF SeriesAssets
<1>3. ASSUME NEW t \in Series, NEW amount \in 1..MaxBalance, Allocate(t, amount)
      PROVE  Goal
  <2>1. /\ vaultBalance' = vaultBalance - amount /\ SetLiquid(t, SeriesLiquid(t) - amount)
        /\ SetPrincipal(t, principal[t] + amount) /\ UNCHANGED supply
    BY <1>3 DEF Allocate
  <2>2. amount \in Nat /\ vaultBalance \in Nat /\ SeriesLiquid(t) \in Int
    BY SeriesLiquidTyped, VaultAssumption DEF VaultTypeOK
  <2>3. /\ vaultBalance' = vaultBalance + (0 - amount)
        /\ SetLiquid(t, SeriesLiquid(t) + (0 - amount))
    <3>1. SeriesLiquid(t) - amount = SeriesLiquid(t) + (0 - amount)
      BY <2>2
    <3> QED BY <2>1, <2>2, <3>1
  <2>4. SeriesLiquid(s)' = SeriesLiquid(s) + (IF s = t THEN 0 - amount ELSE 0)
    BY <1>1, <2>2, <2>3, OneSeriesMoved
  <2>5. principal'[s] = principal[s] + (IF s = t THEN amount ELSE 0)
    BY <1>1, <2>1 DEF SetPrincipal, VaultTypeOK
  <2> QED BY <1>1, <1>2, <2>1, <2>2, <2>4, <2>5 DEF SeriesAssets
<1>4. ASSUME NEW t \in Series, NEW repaid \in 1..MaxBalance, NEW returned \in 1..MaxBalance,
             Settle(t, repaid, returned)
      PROVE  Goal
  <2>1. /\ vaultBalance' = vaultBalance + returned /\ SetLiquid(t, SeriesLiquid(t) + returned)
        /\ SetPrincipal(t, principal[t] - repaid) /\ UNCHANGED supply
    BY <1>4 DEF Settle
  <2>2. repaid > 0 /\ repaid \in Nat /\ returned \in Nat
    BY VaultAssumption
  <2>3. SeriesLiquid(s)' = SeriesLiquid(s) + (IF s = t THEN returned ELSE 0)
    BY <1>1, <2>1, <2>2, OneSeriesMoved
  <2>4. s # t /\ principal'[s] = principal[s]
    BY <1>1, <2>1, <2>2 DEF SetPrincipal, VaultTypeOK
  <2> QED BY <1>1, <1>2, <2>1, <2>3, <2>4 DEF SeriesAssets
<1>5. ASSUME NEW t \in Series, NEW lost \in 1..MaxBalance, RecordLoss(t, lost)
      PROVE  Goal
  <2>1. s # t
    BY <1>1, <1>5, VaultAssumption DEF RecordLoss, SetPrincipal, VaultTypeOK
  <2>2. principal'[s] = principal[s]
    BY <1>1, <1>5, <2>1 DEF RecordLoss, SetPrincipal, VaultTypeOK
  <2>3. SeriesLiquid(s)' = SeriesLiquid(s) /\ supply'[s] = supply[s]
    BY <1>5 DEF RecordLoss, SeriesLiquid
  <2> QED BY <1>1, <1>2, <2>2, <2>3 DEF SeriesAssets
<1>6. ASSUME NEW o \in Owners, NEW amount \in 1..MaxBalance, Deposit(o, amount)
      PROVE  Goal
  <2> DEFINE t == DepositSeries
             minted == Minted(t, amount)
  <2>1. /\ t \in Series /\ SetSupply(t, supply[t] + minted)
        /\ vaultBalance' = vaultBalance + amount
        /\ SetLiquid(t, IF t = 0 THEN 0 ELSE liquid[t] + amount)
        /\ UNCHANGED principal
    BY <1>6 DEF Deposit
  <2>2. amount \in Nat
    BY VaultAssumption
  <2>3. t <= currentSeries /\ supply[t] > 0 => SeriesAssets(t) > 0
    BY <1>6, <2>1, SeriesLiquidTyped, SeriesNumbered DEF Deposit, VaultTypeOK
  <2>4. minted \in Nat
    BY <2>1, <2>2, <2>3, MintedTyped
  <2>5. s = t => minted = mul_div_floor(amount, supply[s], SeriesAssets(s))
    <3>1. ~(s > currentSeries \/ supply[s] = 0)
      BY <1>1 DEF VaultTypeOK
    <3> QED BY <3>1 DEF Minted
  <2> HIDE DEF t, minted
  <2>6. SetLiquid(t, SeriesLiquid(t) + amount)
    BY <2>1 DEF SetLiquid, SeriesLiquid
  <2>7. SeriesLiquid(s)' = SeriesLiquid(s) + (IF s = t THEN amount ELSE 0)
    BY <1>1, <2>1, <2>2, <2>6, OneSeriesMoved
  <2>8. CASE s = t
    <3>1. SeriesAssets(s) \in Nat \ {0}
      BY <1>1, <2>3, <2>8
    <3>2. minted * SeriesAssets(s) <= amount * supply[s]
      <4>1. supply[s] \in Int /\ amount \in Int
        BY <1>1, <2>2
      <4>2. mul_div_floor(amount, supply[s], SeriesAssets(s)) * SeriesAssets(s) <= amount * supply[s]
        BY <3>1, <4>1, FloorBelow
      <4> QED BY <2>5, <2>8, <4>2
    <3>3. supply'[s] = supply[s] + minted
      BY <2>1, <2>8 DEF SetSupply, VaultTypeOK
    <3>4. SeriesAssets(s)' = SeriesAssets(s) + amount
      BY <1>1, <2>1, <2>2, <2>7, <2>8 DEF SeriesAssets
    <3> HIDE DEF Goal
    <3>5. (SeriesAssets(s) + amount) * supply[s] >= SeriesAssets(s) * (supply[s] + minted)
      BY <1>1, <2>2, <2>4, <3>2, DepositFair
    <3> QED BY <3>3, <3>4, <3>5 DEF Goal
  <2>9. CASE s # t
    <3>1. supply'[s] = supply[s] /\ principal'[s] = principal[s]
      BY <2>1, <2>9 DEF SetSupply, VaultTypeOK
    <3> QED BY <1>1, <1>2, <2>7, <2>9, <3>1 DEF SeriesAssets
  <2> QED BY <2>8, <2>9
<1>7. ASSUME NEW o \in Owners, NEW t \in Series, NEW n \in Nat, Redeem(o, t, n)
      PROVE  Goal
  <2> DEFINE paid == Payout(t, n)
  <2>1. /\ principal[t] = 0 /\ SetSupply(t, supply[t] - n)
        /\ SetLiquid(t, SeriesLiquid(t) - paid)
        /\ vaultBalance' = vaultBalance - paid
        /\ UNCHANGED principal
    BY <1>7 DEF Redeem
  <2>2. supply[t] \in Nat /\ SeriesLiquid(t) \in Int /\ vaultBalance \in Nat
    BY SeriesLiquidTyped DEF VaultTypeOK
  <2>3. supply[t] # 0
    BY <1>7, <2>1, <2>2 DEF SetSupply, Redeem, VaultTypeOK
  <2>4. paid \in Int
    <3>1. mul_div_floor(n, SeriesLiquid(t), supply[t]) \in Int
      BY <2>2, <2>3, FloorBelow
    <3> QED BY <2>2, <3>1 DEF Payout
  <2>5. n # supply[t] => paid = mul_div_floor(n, SeriesLiquid(t), supply[t])
    BY DEF Payout
  <2> HIDE DEF paid
  <2>6. /\ vaultBalance' = vaultBalance + (0 - paid)
        /\ SetLiquid(t, SeriesLiquid(t) + (0 - paid))
    <3>1. SeriesLiquid(t) - paid = SeriesLiquid(t) + (0 - paid)
      BY <2>2, <2>4
    <3> QED BY <2>1, <2>2, <2>4, <3>1
  <2>7. SeriesLiquid(s)' = SeriesLiquid(s) + (IF s = t THEN 0 - paid ELSE 0)
    BY <1>1, <2>4, <2>6, OneSeriesMoved
  <2>8. CASE s = t
    <3>1. supply'[s] = supply[s] - n
      BY <2>1, <2>8 DEF SetSupply, VaultTypeOK
    <3>2. paid * supply[s] <= n * SeriesLiquid(s)
      <4>1. supply[s] \in Nat \ {0} /\ n \in Int /\ SeriesLiquid(s) \in Int
        BY <1>1, <2>2, <2>3, <2>8
      <4>2. mul_div_floor(n, SeriesLiquid(s), supply[s]) * supply[s] <= n * SeriesLiquid(s)
        BY <4>1, FloorBelow
      <4>3. n # supply[t]
        BY <1>1, <2>2, <2>8, <3>1
      <4> QED BY <2>5, <2>8, <4>2, <4>3
    <3>3. SeriesAssets(s) = SeriesLiquid(s) /\ SeriesAssets(s)' = SeriesLiquid(s) - paid
      BY <1>1, <2>1, <2>4, <2>7, <2>8 DEF SeriesAssets
    <3> HIDE DEF Goal
    <3>4. (SeriesLiquid(s) - paid) * supply[s] >= SeriesLiquid(s) * (supply[s] - n)
      BY <1>1, <2>4, <3>2, RedeemFair
    <3> QED BY <3>1, <3>3, <3>4 DEF Goal
  <2>9. CASE s # t
    <3>1. supply'[s] = supply[s] /\ principal'[s] = principal[s]
      BY <2>1, <2>9 DEF SetSupply, VaultTypeOK
    <3> QED BY <1>1, <1>2, <2>7, <2>9, <3>1 DEF SeriesAssets
  <2> QED BY <2>8, <2>9
<1>8. ASSUME NEW o \in Owners, NEW t \in Series,
             \/ \E n \in 1..MaxShares : Withdraw(o, t, n)
             \/ ClaimWithdrawal(o, t)
      PROVE  Goal
  <2>1. PICK n \in Nat : Redeem(o, t, n)
    BY <1>8, VaultAssumption DEF Withdraw, ClaimWithdrawal, VaultTypeOK
  <2> QED BY <1>7, <2>1
\* What recover_unowned takes belongs to series 0, which has no shares then.
<1>9. CASE RecoverUnowned
  <2>1. s # 0
    BY <1>9, <1>1 DEF RecoverUnowned, TotalShares, VaultTypeOK
  <2>2. SeriesLiquid(s)' = SeriesLiquid(s) /\ principal'[s] = principal[s] /\ supply'[s] = supply[s]
    BY <1>9, <2>1 DEF RecoverUnowned, SeriesLiquid, books
  <2> QED BY <1>1, <1>2, <2>2 DEF SeriesAssets
<1>10. ASSUME NEW amount \in 1..MaxBalance, TokenTransferIn(amount)
       PROVE  Goal
  <2>1. SeriesLiquid(s)' = SeriesLiquid(s) + (IF s = 0 THEN amount ELSE 0)
    BY <1>10, <1>1, VaultAssumption DEF TokenTransferIn, SeriesLiquid, books, VaultTypeOK
  <2>2. principal'[s] = principal[s] /\ supply'[s] = supply[s] /\ amount \in Nat
    BY <1>10, VaultAssumption DEF TokenTransferIn, books
  <2> QED BY <1>1, <1>2, <2>1, <2>2 DEF SeriesAssets
<1>11. ASSUME \/ \E b \in BOOLEAN : SetVaultPaused(b)
              \/ \E bps \in AllocationLimits : SetAllocationLimit(bps)
              \/ \E o \in Owners, t \in Series, n \in 1..MaxShares :
                    RequestWithdraw(o, t, n) \/ CancelWithdrawRequest(o, t, n)
              \/ UNCHANGED vaultVars
       PROVE  Goal
  <2>1. UNCHANGED <<vaultBalance, books>>
    BY <1>11 DEF SetVaultPaused, SetAllocationLimit, RequestWithdraw, CancelWithdrawRequest,
                 vaultVars
  <2>2. SeriesLiquid(s)' = SeriesLiquid(s) /\ principal'[s] = principal[s] /\ supply'[s] = supply[s]
    BY <2>1 DEF SeriesLiquid, books
  <2> QED BY <1>1, <1>2, <2>2 DEF SeriesAssets
<1>12. CASE \E o \in Owners, t \in Series :
               \/ \E n \in 1..MaxShares : Withdraw(o, t, n)
               \/ \E n \in 1..MaxShares : RequestWithdraw(o, t, n)
               \/ \E n \in 1..MaxShares : CancelWithdrawRequest(o, t, n)
               \/ ClaimWithdrawal(o, t)
  <2>1. PICK o \in Owners, t \in Series :
               \/ \E n \in 1..MaxShares : Withdraw(o, t, n)
               \/ \E n \in 1..MaxShares : RequestWithdraw(o, t, n)
               \/ \E n \in 1..MaxShares : CancelWithdrawRequest(o, t, n)
               \/ ClaimWithdrawal(o, t)
    BY <1>12
  <2>2. CASE (\E n \in 1..MaxShares : Withdraw(o, t, n)) \/ ClaimWithdrawal(o, t)
    BY <1>8, <2>2
  <2>3. CASE \E n \in 1..MaxShares : RequestWithdraw(o, t, n) \/ CancelWithdrawRequest(o, t, n)
    BY <1>11, <2>3
  <2> QED BY <2>1, <2>2, <2>3
<1>13. Goal
  BY <1>3, <1>4, <1>5, <1>6, <1>9, <1>10, <1>11, <1>12 DEF VaultNext
<1> QED BY <1>13

\* The vault never dilutes: the value of a share falls only where principal of
\* its own series is written off, whoever deposits, withdraws or claims in
\* whatever order, since deposit and redeem round against the caller.
THEOREM SharesKeepTheirPrice == VaultSpec => SharePriceKept
<1>1. ASSUME VaultTypeOK, VaultTypeOK', [VaultNext]_vaultVars
      PROVE  [\A s \in OpenSeries :
                supply[s] > 0 /\ supply'[s] > 0 /\ principal'[s] >= principal[s] =>
                  SeriesAssets(s)' * supply[s] >= SeriesAssets(s) * supply'[s]]_vaultVars
  BY <1>1, SharePriceStep
<1> QED BY <1>1, VaultTypeCorrect, PTL DEF VaultSpec, SharePriceKept

-----------------------------------------------------------------------------
(* The oracle: least and greatest elements.                                *)

\* An element with the least value.
LEMMA ArgMin ==
    ASSUME NEW S, NEW x0 \in S, NEW f, \A x \in S : f[x] \in Nat
    PROVE  \E x \in S : \A y \in S : f[x] <= f[y]
<1> DEFINE T == {f[x] : x \in S}
           R == OpToRel(<, Nat)
<1>1. IsWellFoundedOn(R, Nat)
  BY NatLessThanWellFounded
<1>2. T \subseteq Nat /\ T # {}
  OBVIOUS
<1> HIDE DEF R
<1>3. PICK v \in T : \A w \in T : ~(<<w, v>> \in R)
  BY <1>1, <1>2, WFMin
<1>4. \A w \in T : ~(w < v)
  BY <1>2, <1>3 DEF R, OpToRel
<1>5. PICK x \in S : v = f[x]
  BY <1>3
<1> QED BY <1>2, <1>4, <1>5

\* One with the greatest, of values that are bounded.
LEMMA ArgMax ==
    ASSUME NEW S, NEW x0 \in S, NEW f, NEW n \in Nat, \A x \in S : f[x] \in 0..n
    PROVE  \E x \in S : \A y \in S : f[y] <= f[x]
<1> DEFINE g == [x \in S |-> n - f[x]]
<1>1. \A x \in S : g[x] \in Nat
  OBVIOUS
<1> HIDE DEF g
<1>2. PICK x \in S : \A y \in S : g[x] <= g[y]
  BY <1>1, ArgMin
<1> QED BY <1>2 DEF g

-----------------------------------------------------------------------------
(* The median.                                                             *)

Lower(qs, x) == {k \in DOMAIN qs : qs[k].price < x}
AtMost(qs, x) == {k \in DOMAIN qs : qs[k].price <= x}

\* The fields of a quote.
LEMMA QuotesTyped ==
    ASSUME NEW qs \in Seq(Quote), NEW k \in DOMAIN qs
    PROVE  qs[k].publisher \in Publishers /\ qs[k].price \in Int /\ qs[k].timestamp \in Nat
<1>1. qs[k] \in Quote
  OBVIOUS
<1> QED BY <1>1 DEF Quote

\* Counting quotes below, and up to, a price.
LEMMA CountQuotes ==
    ASSUME NEW qs \in Seq(Quote), NEW x \in Int
    PROVE  LET equal == {k \in DOMAIN qs : qs[k].price = x}
               n == Len(qs)
           IN  /\ IsFiniteSet(DOMAIN qs) /\ Cardinality(DOMAIN qs) = n
               /\ IsFiniteSet(Lower(qs, x)) /\ IsFiniteSet(AtMost(qs, x))
               /\ Cardinality(Lower(qs, x)) \in 0..n
               /\ Cardinality(AtMost(qs, x)) \in 0..n
               /\ Cardinality(Lower(qs, x)) + Cardinality(equal) = Cardinality(AtMost(qs, x))
<1> DEFINE D == DOMAIN qs
           equal == {k \in D : qs[k].price = x}
           n == Len(qs)
<1>1. IsFiniteSet(D) /\ Cardinality(D) = n /\ n \in Nat
  <2>1. D = 1..n /\ n \in Nat
    OBVIOUS
  <2>2. IsFiniteSet(1..n) /\ Cardinality(1..n) = n
    BY <2>1, FS_Interval
  <2> QED BY <2>1, <2>2
<1>2. \A k \in D : qs[k].price \in Int
  BY QuotesTyped
<1> HIDE DEF D
<1>3. Lower(qs, x) \subseteq D /\ AtMost(qs, x) \subseteq D /\ equal \subseteq D
  BY DEF Lower, AtMost, D
<1>4. /\ Lower(qs, x) \cup equal = AtMost(qs, x)
      /\ Lower(qs, x) \cap equal = {}
  BY <1>2 DEF Lower, AtMost, D
<1>5. /\ IsFiniteSet(Lower(qs, x)) /\ Cardinality(Lower(qs, x)) <= n
      /\ IsFiniteSet(AtMost(qs, x)) /\ Cardinality(AtMost(qs, x)) <= n
      /\ IsFiniteSet(equal)
  BY <1>1, <1>3, FS_Subset
<1> HIDE DEF equal
<1>6. /\ Cardinality(Lower(qs, x)) \in Nat /\ Cardinality(AtMost(qs, x)) \in Nat
      /\ Cardinality(equal) \in Nat
  BY <1>5, FS_CardinalityType
<1>7. Cardinality(Lower(qs, x)) + Cardinality(equal) = Cardinality(AtMost(qs, x))
  <2>1. Cardinality(Lower(qs, x) \cup equal)
          = Cardinality(Lower(qs, x)) + Cardinality(equal) - Cardinality(Lower(qs, x) \cap equal)
    BY <1>5, FS_Union
  <2>2. Cardinality({}) = 0
    BY FS_EmptySet
  <2>3. /\ Cardinality(Lower(qs, x) \cup equal) = Cardinality(AtMost(qs, x))
        /\ Cardinality(Lower(qs, x) \cap equal) = 0
    BY <1>4, <2>2
  <2> QED BY <1>6, <2>1, <2>3
<1> QED BY <1>1, <1>5, <1>6, <1>7 DEF D, equal

\* A set that has more elements is counted higher.
LEMMA CountGrows ==
    ASSUME NEW A, NEW B, IsFiniteSet(B), A \subseteq B, NEW b \in B, b \notin A
    PROVE  Cardinality(A) < Cardinality(B)
<1>1. IsFiniteSet(A) /\ Cardinality(A) <= Cardinality(B)
      /\ (Cardinality(B) = Cardinality(A) => B = A)
  BY FS_Subset
<1>2. Cardinality(A) \in Nat /\ Cardinality(B) \in Nat
  BY <1>1, FS_CardinalityType
<1> QED BY <1>1, <1>2

\* There is a price with at most half of the quotes below it and more than half
\* up to it; so the loop of median_price never ends without one.
LEMMA MedianIs ==
    ASSUME NEW qs \in Seq(Quote), qs # <<>>
    PROVE  LET x == MedianPrice(qs) IN
           /\ \E k \in DOMAIN qs : x = qs[k].price
           /\ x \in Int
           /\ Cardinality(Lower(qs, x)) <= Len(qs) \div 2
           /\ Len(qs) \div 2 < Cardinality(AtMost(qs, x))
<1> DEFINE n == Len(qs)
           t == n \div 2
           D == DOMAIN qs
           up == [k \in D |-> Cardinality(AtMost(qs, qs[k].price))]
<1>1. n \in Nat \ {0} /\ t \in Nat /\ t < n /\ D = 1..n /\ 1 \in D
  OBVIOUS
<1>2. \A k \in D : qs[k].price \in Int
  BY QuotesTyped
<1>3. \A k \in D : /\ up[k] \in 0..n
                   /\ up[k] = Cardinality(AtMost(qs, qs[k].price))
                   /\ IsFiniteSet(AtMost(qs, qs[k].price))
                   /\ IsFiniteSet(Lower(qs, qs[k].price))
                   /\ Cardinality(Lower(qs, qs[k].price)) \in 0..n
  BY <1>2, CountQuotes
<1>4. Cardinality(D) = n
  BY CountQuotes, 0 \in Int
<1> HIDE DEF n, t, D, up
<1>5. \E k \in D : up[k] = n
  <2>1. PICK k \in D : \A j \in D : up[j] <= up[k]
    BY <1>1, <1>3, ArgMax
  <2>2. AtMost(qs, qs[k].price) = D
    <3>1. ASSUME NEW j \in D, ~(qs[j].price <= qs[k].price) PROVE FALSE
      <4>1. AtMost(qs, qs[k].price) \subseteq AtMost(qs, qs[j].price)
            /\ j \in AtMost(qs, qs[j].price) /\ j \notin AtMost(qs, qs[k].price)
        BY <1>2, <3>1 DEF AtMost, D
      <4>2. up[k] < up[j]
        BY <1>3, <4>1, CountGrows
      <4> QED BY <1>3, <2>1, <4>2
    <3> QED BY <3>1 DEF AtMost, D
  <2> QED BY <1>3, <1>4, <2>2
<1> DEFINE T == {k \in D : t < up[k]}
<1>6. PICK k \in T : \A j \in T : up[k] <= up[j]
  <2>1. \E k \in T : TRUE
    BY <1>1, <1>5
  <2>2. \A k \in T : up[k] \in Nat
    BY <1>3
  <2> HIDE DEF T
  <2> QED BY <2>1, <2>2, ArgMin
<1>7. k \in D /\ t < up[k]
  BY <1>6
<1>8. Cardinality(Lower(qs, qs[k].price)) <= t
  <2> DEFINE L == Lower(qs, qs[k].price)
  <2> SUFFICES ASSUME t < Cardinality(L) PROVE FALSE
    BY <1>1, <1>3, <1>7
  <2>1. L \subseteq D /\ L # {}
    <3>1. Cardinality(L) # 0
      BY <1>1, <1>3, <1>7
    <3> QED BY <3>1, FS_EmptySet DEF Lower, D
  <2>2. PICK j \in L : \A l \in L : up[l] <= up[j]
    <3>1. \A l \in L : up[l] \in 0..n
      BY <1>3, <2>1
    <3>2. \E l \in L : TRUE
      BY <2>1
    <3> HIDE DEF L
    <3> QED BY <1>1, <3>1, <3>2, ArgMax
  <2>3. j \in D /\ qs[j].price < qs[k].price
    BY <2>1, <2>2 DEF Lower, D
  <2>4. AtMost(qs, qs[j].price) = L
    <3>1. AtMost(qs, qs[j].price) \subseteq L
      BY <1>2, <1>7, <2>3 DEF AtMost, Lower, D
    <3>2. ASSUME NEW l \in L, ~(qs[l].price <= qs[j].price) PROVE FALSE
      <4>1. AtMost(qs, qs[j].price) \subseteq AtMost(qs, qs[l].price)
            /\ l \in AtMost(qs, qs[l].price) /\ l \notin AtMost(qs, qs[j].price) /\ l \in D
        BY <1>2, <2>1, <2>3, <3>2 DEF AtMost, D
      <4>2. up[j] < up[l]
        BY <1>3, <2>3, <4>1, CountGrows
      <4> QED BY <1>3, <2>2, <2>3, <4>1, <4>2
    <3>3. L \subseteq AtMost(qs, qs[j].price)
      BY <2>1, <3>2 DEF AtMost, D
    <3> QED BY <3>1, <3>3
  <2>5. up[j] = Cardinality(L) /\ j \in T
    BY <1>3, <2>3, <2>4
  <2>6. up[j] < up[k]
    <3>1. L \subseteq AtMost(qs, qs[k].price) /\ k \in AtMost(qs, qs[k].price) /\ k \notin L
      BY <1>2, <1>7 DEF AtMost, Lower, D
    <3> QED BY <1>3, <1>7, <2>5, <3>1, CountGrows
  <2> QED BY <1>3, <1>6, <1>7, <2>3, <2>5, <2>6
<1>9. Len(qs) \div 2 < Cardinality(AtMost(qs, qs[k].price))
  BY <1>3, <1>7 DEF t, n
<1> DEFINE IsMedian(x) ==
             Cardinality({j \in DOMAIN qs : qs[j].price < x}) <= Len(qs) \div 2
             /\ Len(qs) \div 2 < Cardinality({j \in DOMAIN qs : qs[j].price < x})
                                + Cardinality({j \in DOMAIN qs : qs[j].price = x})
           Ps == {qs[j].price : j \in DOMAIN qs}
<1>10. \A x \in Ps : /\ x \in Int
                     /\ Cardinality({j \in DOMAIN qs : qs[j].price < x})
                         + Cardinality({j \in DOMAIN qs : qs[j].price = x})
                          = Cardinality(AtMost(qs, x))
  BY <1>2, CountQuotes DEF Lower, D
<1>11. qs[k].price \in Ps /\ IsMedian(qs[k].price)
  BY <1>7, <1>8, <1>9, <1>10 DEF D, Lower, t, n
<1>12. MedianPrice(qs) = CHOOSE x \in Ps : IsMedian(x)
  BY DEF MedianPrice
<1>13. MedianPrice(qs) \in Ps /\ IsMedian(MedianPrice(qs))
  <2> HIDE DEF Ps, IsMedian
  <2> QED BY <1>11, <1>12
<1> QED BY <1>10, <1>13 DEF Lower

-----------------------------------------------------------------------------
(* Majorities.                                                             *)

\* min_timestamp is the time of the oldest quote.
LEMMA OldestIs ==
    ASSUME NEW qs \in Seq(Quote), qs # <<>>
    PROVE  /\ QuotedSince(qs) \in Nat
           /\ \A k \in DOMAIN qs : QuotedSince(qs) <= qs[k].timestamp
<1> DEFINE D == DOMAIN qs
           time == [k \in D |-> qs[k].timestamp]
           Ts == {qs[k].timestamp : k \in DOMAIN qs}
           IsOldest(t) == \A k \in DOMAIN qs : t <= qs[k].timestamp
<1>1. 1 \in D /\ \A k \in D : time[k] = qs[k].timestamp /\ time[k] \in Nat
  BY QuotesTyped
<1> HIDE DEF D, time
<1>2. PICK k \in D : \A j \in D : time[k] <= time[j]
  BY <1>1, ArgMin
<1>3. qs[k].timestamp \in Ts /\ IsOldest(qs[k].timestamp)
  BY <1>1, <1>2 DEF D
<1>4. QuotedSince(qs) = CHOOSE t \in Ts : IsOldest(t)
  BY DEF QuotedSince
<1>5. QuotedSince(qs) \in Ts /\ IsOldest(QuotedSince(qs))
  <2> HIDE DEF Ts, IsOldest
  <2> QED BY <1>3, <1>4
<1>6. Ts \subseteq Nat
  BY QuotesTyped
<1> QED BY <1>5, <1>6

\* What MajorityDecides says of one price and its quotes.
Decides(price, qs) ==
    \A majority \in {S \in SUBSET DOMAIN qs : 2 * Cardinality(S) > Len(qs)} :
        /\ \E i \in majority : qs[i].price <= price
        /\ \E i \in majority : price <= qs[i].price

\* It holds of the median: fewer than a majority lie on either side of it.
LEMMA MedianIsDecided ==
    ASSUME NEW qs \in Seq(Quote), qs # <<>>
    PROVE  Decides(MedianPrice(qs), qs)
<1> DEFINE x == MedianPrice(qs)
           n == Len(qs)
           D == DOMAIN qs
<1>1. x \in Int /\ Cardinality(Lower(qs, x)) <= n \div 2 /\ n \div 2 < Cardinality(AtMost(qs, x))
  BY MedianIs
<1> HIDE DEF x
<1>2. /\ IsFiniteSet(D) /\ Cardinality(D) = n /\ n \in Nat
      /\ IsFiniteSet(Lower(qs, x)) /\ IsFiniteSet(AtMost(qs, x))
      /\ Cardinality(Lower(qs, x)) \in Nat /\ Cardinality(AtMost(qs, x)) \in Nat
  <2>1. n \in Nat
    OBVIOUS
  <2>2. /\ IsFiniteSet(D) /\ Cardinality(D) = n
        /\ IsFiniteSet(Lower(qs, x)) /\ IsFiniteSet(AtMost(qs, x))
        /\ Cardinality(Lower(qs, x)) \in 0..n /\ Cardinality(AtMost(qs, x)) \in 0..n
    BY <1>1, CountQuotes
  <2> HIDE DEF n, D
  <2> QED BY <2>1, <2>2
<1>3. \A k \in D : qs[k].price \in Int
  BY QuotesTyped
<1> HIDE DEF D
<1>4. ASSUME NEW S \in SUBSET D, 2 * Cardinality(S) > n
      PROVE  (\E i \in S : qs[i].price <= x) /\ (\E i \in S : x <= qs[i].price)
  <2>1. IsFiniteSet(S) /\ Cardinality(S) \in Nat
    BY <1>2, FS_Subset, FS_CardinalityType
  <2>2. ASSUME \A i \in S : ~(qs[i].price <= x) PROVE FALSE
    <3>1. S \subseteq D \ AtMost(qs, x) /\ D \cap AtMost(qs, x) = AtMost(qs, x)
      BY <2>2 DEF AtMost, D
    <3>2. /\ IsFiniteSet(D \ AtMost(qs, x))
          /\ Cardinality(D \ AtMost(qs, x)) = n - Cardinality(AtMost(qs, x))
      BY <1>2, <3>1, FS_Difference
    <3>3. Cardinality(S) <= n - Cardinality(AtMost(qs, x))
      BY <3>1, <3>2, FS_Subset
    <3> HIDE DEF n
    <3> QED BY <1>1, <1>2, <1>4, <2>1, <3>3
  <2>3. ASSUME \A i \in S : ~(x <= qs[i].price) PROVE FALSE
    <3>1. S \subseteq Lower(qs, x)
      BY <1>1, <1>3, <2>3 DEF Lower, D
    <3>2. Cardinality(S) <= Cardinality(Lower(qs, x))
      BY <1>2, <3>1, FS_Subset
    <3> HIDE DEF n
    <3> QED BY <1>1, <1>2, <1>4, <2>1, <3>2
  <2> QED BY <2>2, <2>3
<1> QED BY <1>4 DEF Decides, D, x

\* It holds of what the administrator writes, of which he is the only source.
LEMMA SingleDecides ==
    ASSUME NEW q \in Quote
    PROVE  Decides(q.price, <<q>>)
<1>1. q.price \in Int
  BY DEF Quote
<1>2. ASSUME NEW S \in SUBSET {1}, 2 * Cardinality(S) > 1 PROVE 1 \in S
  <2>1. S # {}
    BY <1>2, FS_EmptySet
  <2> QED BY <2>1
<1> QED BY <1>1, <1>2 DEF Decides

-----------------------------------------------------------------------------
(* The records.                                                            *)

\* Publishing and writing a price: the records move down by none or one, and the
\* new one comes last.
LEMMA RecordsMove ==
    ASSUME prices \in Seq(PriceRecord), NEW record \in PriceRecord, AppendPrice(record)
    PROVE  /\ prices' \in Seq(PriceRecord)
           /\ \E d \in {0, 1} :
                 /\ Len(prices') = Len(prices) + 1 - d
                 /\ \A k \in DOMAIN prices' :
                       prices'[k] = IF k + d <= Len(prices) THEN prices[k + d] ELSE record
<1> DEFINE longer == Append(prices, record)
<1>1. /\ longer \in Seq(PriceRecord) /\ Len(longer) = Len(prices) + 1
      /\ Len(prices) \in Nat
      /\ \A k \in 1..Len(longer) :
            longer[k] = IF k <= Len(prices) THEN prices[k] ELSE record
  OBVIOUS
<1>2. prices' = IF Len(longer) > MaxRecords THEN Tail(longer) ELSE longer
  BY DEF AppendPrice
<1> HIDE DEF longer
<1>3. CASE prices' = longer
  BY <1>1, <1>3
<1>4. CASE prices' = Tail(longer)
  <2>1. /\ Tail(longer) \in Seq(PriceRecord) /\ Len(Tail(longer)) = Len(longer) - 1
        /\ \A k \in 1..(Len(longer) - 1) : Tail(longer)[k] = longer[k + 1]
    BY <1>1
  <2> QED BY <1>1, <1>4, <2>1
<1> QED BY <1>2, <1>3, <1>4

\* What every record satisfies, and what it is published from.
RecordOK(record) ==
    /\ record \in PriceRecord
    /\ Decides(record.price, record.basis)
    /\ \A i, j \in DOMAIN record.basis :
          record.basis[i].publisher = record.basis[j].publisher => i = j
    /\ record.basis # <<>>
    /\ \A k \in DOMAIN record.basis :
          /\ record.timestamp <= record.basis[k].timestamp
          /\ record.round = 0 => record.basis[k].timestamp = record.timestamp

\* What was published are the round's quotes, which no later quote changes, and
\* later rounds come later.
RoundsInv ==
    \A k \in DOMAIN prices :
        prices[k].round # 0 =>
          /\ prices[k].round \in Rounds
          /\ prices[k].round <= latestRound
          /\ quotes[prices[k].round] = prices[k].basis
          /\ \A l \in 1..(k - 1) : prices[l].round < prices[k].round

\* The inductive invariant: besides, a round has one quote of each publisher.
OracleInv ==
    /\ OracleTypeOK
    /\ \A r \in Rounds : \A i, j \in DOMAIN quotes[r] :
          quotes[r][i].publisher = quotes[r][j].publisher => i = j
    /\ \A k \in DOMAIN prices : RecordOK(prices[k])
    /\ RoundsInv

\* A new record keeps what is said of records, if it is of a new round and the
\* rounds of before are left alone.
LEMMA NewRecordKeeps ==
    ASSUME OracleInv, NEW record, RecordOK(record), AppendPrice(record),
           latestRound' \in Nat, latestRound <= latestRound',
           \A r \in Rounds : r <= latestRound => quotes'[r] = quotes[r],
           record.round # 0 => /\ record.round \in Rounds
                               /\ latestRound < record.round /\ record.round = latestRound'
                               /\ quotes'[record.round] = record.basis
    PROVE  /\ prices' \in Seq(PriceRecord)
           /\ \A k \in DOMAIN prices' : RecordOK(prices'[k])
           /\ RoundsInv'
<1>1. prices \in Seq(PriceRecord) /\ record \in PriceRecord /\ latestRound \in Nat
      /\ Rounds \subseteq Nat /\ record.round \in Nat
  BY PriceOracleAssumption DEF OracleInv, OracleTypeOK, RecordOK, PriceRecord
<1>2. PICK d \in {0, 1} :
        /\ Len(prices') = Len(prices) + 1 - d
        /\ \A k \in DOMAIN prices' :
              prices'[k] = IF k + d <= Len(prices) THEN prices[k + d] ELSE record
  BY <1>1, RecordsMove
<1>3. prices' \in Seq(PriceRecord)
  BY <1>1, RecordsMove
<1>4. DOMAIN prices' = 1..(Len(prices) + 1 - d) /\ DOMAIN prices = 1..Len(prices) /\ Len(prices) \in Nat
  BY <1>1, <1>2, <1>3
<1>5. \A k \in DOMAIN prices : /\ RecordOK(prices[k]) /\ prices[k].round \in Nat
                               /\ prices[k].round <= latestRound
  <2> SUFFICES ASSUME NEW k \in DOMAIN prices
               PROVE  /\ RecordOK(prices[k]) /\ prices[k].round \in Nat
                      /\ prices[k].round <= latestRound
    OBVIOUS
  <2>1. RecordOK(prices[k]) /\ (prices[k].round # 0 => prices[k].round <= latestRound)
    BY DEF OracleInv, RoundsInv
  <2>2. prices[k].round \in Nat
    BY <2>1 DEF RecordOK, PriceRecord
  <2> QED BY <1>1, <2>1, <2>2
<1>6. ASSUME NEW k \in DOMAIN prices' PROVE RecordOK(prices'[k])
  <2>1. CASE k + d <= Len(prices)
    <3>1. k + d \in DOMAIN prices
      BY <1>4, <2>1
    <3> QED BY <1>2, <1>5, <2>1, <3>1
  <2>2. CASE ~(k + d <= Len(prices))
    BY <1>2, <2>2
  <2> QED BY <2>1, <2>2
<1>7. ASSUME NEW k \in DOMAIN prices', prices'[k].round # 0
      PROVE  /\ prices'[k].round \in Rounds
             /\ prices'[k].round <= latestRound'
             /\ quotes'[prices'[k].round] = prices'[k].basis
             /\ \A l \in 1..(k - 1) : prices'[l].round < prices'[k].round
  <2>1. \A l \in 1..(k - 1) : /\ l \in DOMAIN prices' /\ l + d \in 1..(k + d - 1)
                              /\ l + d \in DOMAIN prices
                              /\ prices'[l] = prices[l + d]
    BY <1>2, <1>4
  <2>2. CASE k + d <= Len(prices)
    <3> DEFINE j == k + d
    <3>1. prices'[k] = prices[j] /\ j \in DOMAIN prices
      BY <1>2, <1>4, <2>2
    <3>2. \A l \in 1..(k - 1) : l + d \in 1..(j - 1) /\ prices'[l] = prices[l + d]
      BY <1>2, <1>4, <2>1
    <3> HIDE DEF j
    <3>3. /\ prices[j].round \in Rounds /\ prices[j].round <= latestRound
          /\ quotes[prices[j].round] = prices[j].basis
          /\ \A l \in 1..(j - 1) : prices[l].round < prices[j].round
      BY <1>7, <3>1 DEF OracleInv, RoundsInv
    <3>4. prices[j].round <= latestRound' /\ quotes'[prices[j].round] = prices[j].basis
      BY <1>1, <1>5, <3>1, <3>3
    <3> QED BY <3>1, <3>2, <3>3, <3>4
  <2>3. CASE ~(k + d <= Len(prices))
    <3>1. prices'[k] = record
      BY <1>2, <2>3
    <3>2. record.round # 0
      BY <1>7, <3>1
    <3>3. \A l \in 1..(k - 1) : prices'[l].round < record.round
      BY <1>1, <1>5, <2>1, <3>2
    <3> QED BY <1>1, <3>1, <3>2, <3>3
  <2> QED BY <2>2, <2>3
<1> QED BY <1>3, <1>6, <1>7 DEF RoundsInv

\* The administrator's price.
LEMMA WritesKeep ==
    ASSUME OracleInv, NEW f \in Feed, WritePrice(f)
    PROVE  OracleInv'
<1> DEFINE q == [publisher |-> Admin, price |-> f.price, timestamp |-> f.timestamp]
           record == [price |-> f.price, timestamp |-> f.timestamp, round |-> 0, basis |-> <<q>>]
<1>1. q \in Quote /\ q.price = f.price /\ f.price \in Int /\ f.timestamp \in Nat
  BY PriceOracleAssumption DEF Quote
<1>2. record \in PriceRecord
  <2>1. <<q>> \in Seq(Quote)
    BY <1>1
  <2> HIDE DEF q
  <2> QED BY <1>1, <2>1 DEF PriceRecord
<1>3. /\ record.price = q.price /\ record.basis = <<q>> /\ record.round = 0
      /\ record.timestamp = q.timestamp /\ q.timestamp \in Nat
  BY <1>1
<1>4. AppendPrice(record) /\ UNCHANGED <<now, committee, publishers, latestRound, quotes>>
  BY DEF WritePrice
<1> HIDE DEF record, q
<1>5. RecordOK(record)
  BY <1>1, <1>2, <1>3, SingleDecides DEF RecordOK
<1>6. latestRound \in Nat
  BY DEF OracleInv, OracleTypeOK
<1>7. /\ prices' \in Seq(PriceRecord)
      /\ \A k \in DOMAIN prices' : RecordOK(prices'[k])
      /\ RoundsInv'
  BY <1>3, <1>4, <1>5, <1>6, NewRecordKeeps
<1>8. OracleTypeOK'
  BY <1>4, <1>7 DEF OracleInv, OracleTypeOK
<1> QED BY <1>4, <1>7, <1>8 DEF OracleInv, RoundsInv

\* A quote, whether it completes its round or not.
LEMMA QuotesKeep ==
    ASSUME OracleInv, NEW p \in Publishers, NEW r \in Rounds, NEW f \in Feed, SubmitPrice(p, r, f)
    PROVE  OracleInv'
<1> DEFINE q == [publisher |-> p, price |-> f.price, timestamp |-> f.timestamp]
           qs == Append(quotes[r], q)
           record == [price |-> MedianPrice(qs), timestamp |-> QuotedSince(qs), round |-> r,
                      basis |-> qs]
<1>1. q \in Quote /\ q.publisher = p
  BY PriceOracleAssumption DEF Quote
<1>2. quotes[r] \in Seq(Quote) /\ latestRound \in Nat /\ r \in Nat /\ latestRound < r
  BY PriceOracleAssumption DEF OracleInv, OracleTypeOK, SubmitPrice, RoundIsOpen
<1>3. /\ UNCHANGED <<now, committee, publishers>>
      /\ quotes' = [quotes EXCEPT ![r] = qs]
      /\ \/ UNCHANGED <<latestRound, prices>>
         \/ latestRound' = r /\ AppendPrice(record)
  BY DEF SubmitPrice, Publish
<1>4. \A k \in DOMAIN quotes[r] : quotes[r][k].publisher # p
  BY DEF SubmitPrice, HasQuoted
<1> HIDE DEF q
<1>5. /\ qs \in Seq(Quote) /\ qs # <<>>
      /\ DOMAIN qs = 1..(Len(quotes[r]) + 1)
      /\ \A k \in DOMAIN qs : qs[k] = IF k \in DOMAIN quotes[r] THEN quotes[r][k] ELSE q
  <2>1. qs \in Seq(Quote) /\ Len(qs) = Len(quotes[r]) + 1
    BY <1>1, <1>2
  <2>2. Len(quotes[r]) \in Nat /\ DOMAIN quotes[r] = 1..Len(quotes[r])
    BY <1>2
  <2>3. ASSUME NEW k \in 1..Len(quotes[r]) PROVE qs[k] = quotes[r][k]
    BY <1>1, <1>2, <2>3
  <2>4. qs[Len(quotes[r]) + 1] = q
    BY <1>1, <1>2
  <2> HIDE DEF qs
  <2>5. DOMAIN qs = 1..(Len(quotes[r]) + 1) /\ qs # <<>>
    BY <2>1, <2>2
  <2>6. ASSUME NEW k \in DOMAIN qs
        PROVE  qs[k] = IF k \in DOMAIN quotes[r] THEN quotes[r][k] ELSE q
    <3>1. CASE k \in 1..Len(quotes[r])
      BY <2>2, <2>3, <3>1
    <3>2. CASE k = Len(quotes[r]) + 1
      BY <2>2, <2>4, <3>2
    <3> QED BY <2>2, <2>5, <3>1, <3>2
  <2> QED BY <2>1, <2>5, <2>6
<1> HIDE DEF qs
<1>6. \A i, j \in DOMAIN qs : qs[i].publisher = qs[j].publisher => i = j
  <2>1. \A i, j \in DOMAIN quotes[r] : quotes[r][i].publisher = quotes[r][j].publisher => i = j
    BY DEF OracleInv
  <2>2. \A i \in DOMAIN qs : i \in DOMAIN quotes[r] \/ i = Len(quotes[r]) + 1
    BY <1>2, <1>5
  <2>3. Len(quotes[r]) + 1 \notin DOMAIN quotes[r]
    BY <1>2
  <2> QED BY <1>1, <1>4, <1>5, <2>1, <2>2, <2>3
<1>7. /\ quotes'[r] = qs /\ \A o \in Rounds : o # r => quotes'[o] = quotes[o]
      /\ quotes' \in [Rounds -> Seq(Quote)]
  BY <1>3, <1>5 DEF OracleInv, OracleTypeOK
<1>8. \A o \in Rounds : o <= latestRound => quotes'[o] = quotes[o]
  BY <1>2, <1>7
<1>9. \A o \in Rounds : \A i, j \in DOMAIN quotes'[o] :
        quotes'[o][i].publisher = quotes'[o][j].publisher => i = j
  BY <1>6, <1>7 DEF OracleInv
<1>10. CASE UNCHANGED <<latestRound, prices>>
  <2>1. OracleTypeOK'
    BY <1>3, <1>7, <1>10 DEF OracleInv, OracleTypeOK
  <2>2. RoundsInv'
    BY <1>8, <1>10 DEF OracleInv, RoundsInv
  <2> QED BY <1>9, <1>10, <2>1, <2>2 DEF OracleInv, RoundsInv
<1>11. CASE latestRound' = r /\ AppendPrice(record)
  <2>1. MedianPrice(qs) \in Int /\ QuotedSince(qs) \in Nat
    BY <1>5, MedianIs, OldestIs
  <2>2. record \in PriceRecord
    BY <1>2, <1>5, <2>1 DEF PriceRecord
  <2>3. /\ record.price = MedianPrice(qs) /\ record.basis = qs /\ record.round = r
        /\ record.timestamp = QuotedSince(qs) /\ r # 0
    BY <1>2
  <2> HIDE DEF record
  <2>4. RecordOK(record)
    <3>1. \A k \in DOMAIN qs : record.timestamp <= qs[k].timestamp
      BY <1>5, <2>3, OldestIs
    <3> QED BY <1>5, <1>6, <2>2, <2>3, <3>1, MedianIsDecided DEF RecordOK
  <2>5. /\ prices' \in Seq(PriceRecord)
        /\ \A k \in DOMAIN prices' : RecordOK(prices'[k])
        /\ RoundsInv'
    <3>1. /\ record.round \in Rounds
          /\ latestRound < record.round /\ record.round = latestRound'
          /\ quotes'[record.round] = record.basis
          /\ latestRound' \in Nat /\ latestRound <= latestRound'
      BY <1>2, <1>7, <1>11, <2>3
    <3> QED BY <1>8, <1>11, <2>4, <3>1, NewRecordKeeps
  <2>6. OracleTypeOK'
    BY <1>2, <1>3, <1>7, <1>11, <2>5 DEF OracleInv, OracleTypeOK
  <2> QED BY <1>9, <2>5, <2>6 DEF OracleInv, RoundsInv
<1> QED BY <1>3, <1>10, <1>11

\* Every step keeps OracleInv.
LEMMA OracleInvKept ==
    ASSUME OracleInv, [OracleNext]_oracleVars
    PROVE  OracleInv'
<1>1. ASSUME UNCHANGED <<latestRound, quotes, prices>>, OracleTypeOK' PROVE OracleInv'
  BY <1>1 DEF OracleInv, RoundsInv
<1>2. ASSUME NEW c \in Committees, ConfigureCommittee(c) PROVE OracleInv'
  <2>1. committee' = c /\ UNCHANGED <<now, publishers, latestRound, quotes, prices>>
    BY <1>2, Zenon DEF ConfigureCommittee
  <2>2. OracleTypeOK'
    BY <2>1, PriceOracleAssumption DEF OracleInv, OracleTypeOK
  <2> QED BY <1>1, <2>1, <2>2
<1>3. ASSUME NEW p \in Publishers, NEW enabled \in BOOLEAN, SetPublisher(p, enabled)
      PROVE  OracleInv'
  <2>1. OracleTypeOK'
    BY <1>3 DEF SetPublisher, OracleInv, OracleTypeOK
  <2> QED BY <1>1, <1>3, <2>1 DEF SetPublisher
<1>4. CASE TimePasses
  <2>1. OracleTypeOK'
    BY <1>4 DEF TimePasses, OracleInv, OracleTypeOK
  <2> QED BY <1>1, <1>4, <2>1 DEF TimePasses
<1>5. CASE UNCHANGED oracleVars
  <2>1. OracleTypeOK'
    BY <1>5 DEF oracleVars, OracleInv, OracleTypeOK
  <2> QED BY <1>1, <1>5, <2>1 DEF oracleVars
<1> QED BY <1>2, <1>3, <1>4, <1>5, WritesKeep, QuotesKeep DEF OracleNext

\* The oracle starts so.
LEMMA OracleInvInit ==
    ASSUME OracleInit
    PROVE  OracleInv
<1>1. <<>> \in Seq(Quote) /\ <<>> \in Seq(PriceRecord) /\ DOMAIN <<>> = {}
  OBVIOUS
<1>2. OracleTypeOK
  BY <1>1, PriceOracleAssumption DEF OracleInit, OracleTypeOK, Committee
<1> QED BY <1>1, <1>2 DEF OracleInit, OracleInv, RoundsInv

\* OracleInv is an invariant of the oracle.
LEMMA OracleInvariant == OracleSpec => []OracleInv
<1>1. OracleInv /\ [OracleNext]_oracleVars => OracleInv'
  BY OracleInvKept
<1> QED BY <1>1, OracleInvInit, PTL DEF OracleSpec

\* Every reachable state of the oracle is well typed; a median was always found.
THEOREM OracleTypeCorrect == OracleSpec => []OracleTypeOK
<1>1. OracleInv => OracleTypeOK
  BY DEF OracleInv
<1> QED BY <1>1, OracleInvariant, PTL

\* A majority of a round has its price, for committees of any size.
THEOREM MajoritiesDecide == OracleSpec => []MajorityDecides
<1>1. OracleInv => MajorityDecides
  BY DEF OracleInv, RecordOK, Decides, MajorityDecides
<1> QED BY <1>1, OracleInvariant, PTL

\* Rounds publish once and in order, whatever happens to the committee's rules
\* and members in between.
THEOREM RoundsArePublishedOnce == OracleSpec => []RoundsPublishOnce
<1>1. OracleInv => RoundsPublishOnce
  BY DEF OracleInv, RoundsInv, RecordOK, RoundsPublishOnce
<1> QED BY <1>1, OracleInvariant, PTL

\* A published price is the majority's, of its own round, once.
THEOREM RoundsAreDecided == OracleSpec => []RoundsDecide
<1>1. MajorityDecides /\ RoundsPublishOnce => RoundsDecide
  BY DEF RoundsDecide
<1> QED BY <1>1, MajoritiesDecide, RoundsArePublishedOnce, PTL
-----------------------------------------------------------------------------
(* The mark price.                                                         *)

\* No quote is later than now: the contract refuses one that is.
QuotesArrived == \A r \in Rounds : \A k \in DOMAIN quotes[r] : quotes[r][k].timestamp <= now

LEMMA QuotesArrivedKept ==
    ASSUME OracleInv, QuotesArrived, [OracleNext]_oracleVars
    PROVE  QuotesArrived'
<1>1. /\ now \in Nat /\ quotes \in [Rounds -> Seq(Quote)] /\ Times \subseteq Nat
      /\ Feed \subseteq [price : Int, timestamp : Nat]
  BY PriceOracleAssumption DEF OracleInv, OracleTypeOK
<1>2. CASE UNCHANGED <<now, quotes>>
  BY <1>2 DEF QuotesArrived
<1>3. ASSUME NEW p \in Publishers, NEW r \in Rounds, NEW f \in Feed, SubmitPrice(p, r, f)
      PROVE  QuotesArrived'
  <2> DEFINE q == [publisher |-> p, price |-> f.price, timestamp |-> f.timestamp]
             qs == Append(quotes[r], q)
  <2>1. /\ quotes' = [quotes EXCEPT ![r] = qs] /\ now' = now
        /\ q.timestamp <= now
    BY <1>3 DEF SubmitPrice
  <2> HIDE DEF q
  <2>2. \A k \in DOMAIN qs : (k \in DOMAIN quotes[r] /\ qs[k] = quotes[r][k]) \/ qs[k] = q
    <3>1. quotes[r] \in Seq(Quote)
      BY <1>1
    <3> QED BY <3>1
  <2> HIDE DEF qs
  <2>3. quotes'[r] = qs /\ \A o \in Rounds : o # r => quotes'[o] = quotes[o]
    BY <1>1, <2>1
  <2> QED BY <2>1, <2>2, <2>3 DEF QuotesArrived
<1>4. CASE TimePasses
  <2>1. now' \in Nat /\ now < now' /\ quotes' = quotes
    BY <1>1, <1>4 DEF TimePasses
  <2>2. ASSUME NEW r \in Rounds, NEW k \in DOMAIN quotes[r] PROVE quotes[r][k].timestamp <= now'
    <3>1. quotes[r][k].timestamp \in Nat
      BY <1>1, QuotesTyped
    <3>2. quotes[r][k].timestamp <= now
      BY DEF QuotesArrived
    <3> QED BY <1>1, <2>1, <3>1, <3>2
  <2> QED BY <2>1, <2>2 DEF QuotesArrived
<1>5. ASSUME NEW f \in Feed, WritePrice(f) PROVE UNCHANGED <<now, quotes>>
  BY <1>5 DEF WritePrice
<1>6. ASSUME NEW c \in Committees, ConfigureCommittee(c) PROVE UNCHANGED <<now, quotes>>
  <2>1. UNCHANGED <<now, publishers, latestRound, quotes, prices>>
    BY <1>6, Zenon DEF ConfigureCommittee
  <2> QED BY <2>1
<1>7. ASSUME NEW p \in Publishers, NEW enabled \in BOOLEAN, SetPublisher(p, enabled)
      PROVE  UNCHANGED <<now, quotes>>
  BY <1>7 DEF SetPublisher
<1>8. UNCHANGED oracleVars => UNCHANGED <<now, quotes>>
  BY DEF oracleVars
<1> QED BY <1>2, <1>3, <1>4, <1>5, <1>6, <1>7, <1>8 DEF OracleNext

\* s adds up the prices of the records, one after the other.
Accumulates(s, records) ==
    s = [k \in 0..Len(records) |-> IF k = 0 THEN 0 ELSE s[k - 1] + records[k].price]

\* The recursion of SumOf has a solution.
LEMMA AccumulationExists ==
    ASSUME NEW records, Len(records) \in Nat
    PROVE  \E s : Accumulates(s, records)
<1> DEFINE Adds1(h, n) == \A k \in 0..n : h[k] = IF k = 0 THEN 0 ELSE h[k - 1] + records[k].price
           P == {n \in Nat : \E h : Adds1(h, n)}
<1>1. 0 \in P
  <2>1. Adds1([k \in {0} |-> 0], 0)
    OBVIOUS
  <2> QED BY <2>1
<1>2. ASSUME NEW n \in Nat, n \in P PROVE n + 1 \in P
  <2>1. PICK h : Adds1(h, n)
    BY <1>2
  <2> DEFINE g == [k \in 0..(n + 1) |-> IF k <= n THEN h[k] ELSE h[n] + records[n + 1].price]
  <2>2. ASSUME NEW k \in 0..(n + 1)
        PROVE  g[k] = IF k = 0 THEN 0 ELSE g[k - 1] + records[k].price
    <3>0. n + 1 \in 0..(n + 1) /\ n \in 0..(n + 1) /\ n \in 0..n
      OBVIOUS
    <3>1. CASE k = 0
      BY <2>1, <3>1
    <3>2. CASE k \in 1..n
      <4>1. k \in 0..n /\ k - 1 \in 0..n /\ k # 0
        BY <3>2
      <4>2. g[k] = h[k] /\ g[k - 1] = h[k - 1]
        BY <4>1
      <4> HIDE DEF g
      <4> QED BY <2>1, <4>1, <4>2
    <3>3. CASE k = n + 1
      <4>1. ~(n + 1 <= n) /\ n + 1 # 0 /\ (n + 1) - 1 = n /\ n <= n
        OBVIOUS
      <4>2. g[n + 1] = h[n] + records[n + 1].price /\ g[n] = h[n]
        BY <3>0, <4>1
      <4> HIDE DEF g
      <4> QED BY <3>3, <4>1, <4>2
    <3> QED BY <3>1, <3>2, <3>3
  <2> HIDE DEF g
  <2>3. Adds1(g, n + 1)
    BY <2>2
  <2> HIDE DEF Adds1
  <2>4. n + 1 \in Nat /\ \E x : Adds1(x, n + 1)
    BY <2>3
  <2> QED BY <2>4
<1>3. Len(records) \in P
  <2> HIDE DEF P
  <2> QED BY <1>1, <1>2, AllNaturals
<1>4. PICK h : Adds1(h, Len(records))
  BY <1>3
<1> DEFINE g == [k \in 0..Len(records) |-> h[k]]
<1>5. \A k \in 0..Len(records) : g[k] = IF k = 0 THEN 0 ELSE g[k - 1] + records[k].price
  BY <1>4
<1>6. Accumulates(g, records)
  BY <1>5 DEF Accumulates
<1> QED BY <1>6

\* So a sum of prices is where such an addition ends.
LEMMA SumOfIs ==
    ASSUME NEW records, Len(records) \in Nat
    PROVE  \E s : /\ SumOf(records) = s[Len(records)] /\ s[0] = 0
                  /\ \A k \in 1..Len(records) : s[k] = s[k - 1] + records[k].price
<1> DEFINE total == CHOOSE s : Accumulates(s, records)
<1>1. Accumulates(total, records)
  BY AccumulationExists
<1>2. SumOf(records) = total[Len(records)]
  BY DEF SumOf, Accumulates
<1> HIDE DEF total
<1>3. /\ total[0] = 0
      /\ \A k \in 1..Len(records) : total[k] = total[k - 1] + records[k].price
  BY <1>1 DEF Accumulates
<1> QED BY <1>2, <1>3

\* Multiplying keeps the order, and so does adding one more.
LEMMA OneMore ==
    ASSUME NEW a \in Int, NEW b \in Int, NEW m \in Nat, a <= b
    PROVE  a * m <= b * m /\ a * (m + 1) = a * m + a
<1>1. a * m <= b * m
  OBVIOUS
<1> QED BY <1>1

\* One more term: the lower of the least and the new term stays below the mean,
\* and the higher of the greatest and the new term above it.
LEMMA OneMoreTerm ==
    ASSUME NEW p \in Int, NEW x \in Int, NEW t \in Int, NEW u, NEW m \in Nat, u = t + x
    PROVE  /\ p * m <= t /\ p <= x => p * (m + 1) <= u
           /\ p * m <= t /\ x < p => x * (m + 1) <= u
           /\ t <= p * m /\ x <= p => u <= p * (m + 1)
           /\ t <= p * m /\ p < x => u <= x * (m + 1)
<1> DEFINE pm == p * m
           xm == x * m
           pn == p * (m + 1)
           xn == x * (m + 1)
<1>1. pm \in Int /\ xm \in Int
  OBVIOUS
<1>2. pn = pm + p
  BY OneMore
<1>3. xn = xm + x
  BY OneMore
<1>4. p <= x => pm <= xm
  BY OneMore
<1>5. x <= p => xm <= pm
  BY OneMore
<1> HIDE DEF pm, xm, pn, xn
<1>6. /\ pm <= t /\ p <= x => pn <= u
      /\ pm <= t /\ x < p => xn <= u
      /\ t <= pm /\ x <= p => u <= pn
      /\ t <= pm /\ p < x => u <= xn
  BY <1>1, <1>2, <1>3, <1>4, <1>5
<1> QED BY <1>6, Zenon DEF pm, xm, pn, xn

\* A sum of prices is no less than the lowest, and no more than the highest, as
\* often as there are prices.
LEMMA SumBetween ==
    ASSUME NEW records, Len(records) \in Nat \ {0}, \A k \in 1..Len(records) : records[k].price \in Int
    PROVE  /\ SumOf(records) \in Int
           /\ \E k \in 1..Len(records) : records[k].price * Len(records) <= SumOf(records)
           /\ \E k \in 1..Len(records) : SumOf(records) <= records[k].price * Len(records)
<1> DEFINE n == Len(records)
<1>1. PICK s : /\ SumOf(records) = s[n] /\ s[0] = 0
               /\ \A k \in 1..n : s[k] = s[k - 1] + records[k].price
  BY SumOfIs
<1> DEFINE price == [k \in 1..n |-> records[k].price]
           Between(m) == /\ s[m] \in Int
                         /\ \E k \in 1..m : price[k] * m <= s[m]
                         /\ \E k \in 1..m : s[m] <= price[k] * m
           P == {m \in Nat : m \in 1..n => Between(m)}
<1>2. \A k \in 1..n : price[k] \in Int /\ s[k] = s[k - 1] + price[k]
  BY <1>1
<1> HIDE DEF price
<1>3. 0 \in P
  OBVIOUS
<1>4. ASSUME NEW m \in Nat, m \in P, m + 1 \in 1..n PROVE Between(m + 1)
  <2> DEFINE x == price[m + 1]
  <2>1. x \in Int /\ s[m + 1] = s[m] + x /\ m + 1 \in 1..(m + 1)
    BY <1>2, <1>4
  <2>2. CASE m = 0
    <3>1. s[m + 1] = x /\ x * (m + 1) = x /\ s[m + 1] \in Int
      BY <1>1, <2>1, <2>2
    <3> DEFINE k1 == m + 1
    <3>2. price[k1] * k1 = s[k1] /\ k1 \in 1..k1 /\ s[k1] \in Int
      BY <2>1, <3>1
    <3> HIDE DEF k1
    <3>3. price[k1] * k1 <= s[k1] /\ s[k1] <= price[k1] * k1
      BY <3>2
    <3>4. Between(k1)
      BY <3>2, <3>3
    <3> QED BY <3>4 DEF k1
  <2>3. CASE m # 0
    <3>1. m \in 1..n
      BY <1>4, <2>3
    <3>2. Between(m)
      BY <1>4, <3>1
    <3>3. PICK i \in 1..m : price[i] * m <= s[m]
      BY <3>2
    <3>4. PICK j \in 1..m : s[m] <= price[j] * m
      BY <3>2
    <3>5. price[i] \in Int /\ price[j] \in Int /\ s[m] \in Int
          /\ i \in 1..(m + 1) /\ j \in 1..(m + 1)
      BY <1>2, <3>1, <3>2
    <3>6. s[m + 1] \in Int
      BY <2>1, <3>5
    <3>7. /\ price[i] <= x => price[i] * (m + 1) <= s[m + 1]
          /\ x < price[i] => x * (m + 1) <= s[m + 1]
          /\ x <= price[j] => s[m + 1] <= price[j] * (m + 1)
          /\ price[j] < x => s[m + 1] <= x * (m + 1)
      <4> DEFINE low == price[i]
                 high == price[j]
                 sum == s[m]
                 next == s[m + 1]
      <4>1. low \in Int /\ high \in Int /\ sum \in Int /\ x \in Int /\ next = sum + x
        BY <2>1, <3>5
      <4>2. low * m <= sum /\ sum <= high * m
        BY <3>3, <3>4
      <4> HIDE DEF low, high, sum, next, x
      <4>3. (low <= x => low * (m + 1) <= next) /\ (x < low => x * (m + 1) <= next)
        BY <4>1, <4>2, OneMoreTerm, Zenon
      <4>4. (x <= high => next <= high * (m + 1)) /\ (high < x => next <= x * (m + 1))
        BY <4>1, <4>2, OneMoreTerm, Zenon
      <4> QED BY <4>3, <4>4, Zenon DEF low, high, next
    <3>8. x = price[m + 1] /\ x \in Int /\ m + 1 \in 1..(m + 1)
      BY <2>1
    <3> HIDE DEF x
    <3>9. (price[i] <= x \/ x < price[i]) /\ (x <= price[j] \/ price[j] < x)
      BY <3>5, <3>8
    <3>10. \E k \in 1..(m + 1) : price[k] * (m + 1) <= s[m + 1]
      BY <3>5, <3>7, <3>8, <3>9, Zenon
    <3>11. \E k \in 1..(m + 1) : s[m + 1] <= price[k] * (m + 1)
      BY <3>5, <3>7, <3>8, <3>9, Zenon
    <3> QED BY <3>6, <3>10, <3>11
  <2> QED BY <2>2, <2>3
<1>5. ASSUME NEW m \in Nat, m \in P PROVE m + 1 \in P
  <2>1. m + 1 \in 1..n => Between(m + 1)
    BY <1>4, <1>5
  <2> HIDE DEF Between
  <2> QED BY <2>1
<1>6. n \in P
  <2> HIDE DEF P, n
  <2> QED BY <1>3, <1>5, AllNaturals DEF n
<1>7. Between(n)
  BY <1>6
<1> QED BY <1>1, <1>7 DEF price

\* Division by a number of records, and the change of unit, keep the order.
LEMMA QuotientBetween ==
    ASSUME NEW a \in Int, NEW n \in Nat \ {0}, NEW c \in Int
    PROVE  /\ a \div n \in Int
           /\ c * n <= a => c <= a \div n
           /\ a <= c * n => a \div n <= c
OBVIOUS

LEMMA ScaledGrows ==
    ASSUME NEW a \in Int, NEW b \in Int, a <= b
    PROVE  Scaled(a) <= Scaled(b)
<1>1. MarketUnit \in Nat \ {0} /\ OracleUnit \in Nat \ {0}
  BY PriceOracleAssumption
<1>2. a * MarketUnit \in Int /\ b * MarketUnit \in Int /\ a * MarketUnit <= b * MarketUnit
  BY <1>1
<1> DEFINE x == a * MarketUnit
           y == b * MarketUnit
           u == OracleUnit
<1> HIDE DEF x, y, u
<1>3. ASSUME x \in Int, y \in Int, u \in Nat \ {0}, x <= y PROVE x \div u <= y \div u
  <2>1. /\ x \div u \in Int /\ y \div u \in Int
        /\ (x \div u) * u <= x
    BY <1>3
  <2>2. (x \div u) * u <= y
    BY <1>3, <2>1
  <2> QED BY <1>3, <2>1, <2>2, QuotientBetween
<1> QED BY <1>1, <1>2, <1>3 DEF Scaled, x, y, u

\* The market reads records of the oracle.
LEMMA ReadsRecords ==
    ASSUME prices \in Seq(PriceRecord)
    PROVE  /\ Len(Read) \in Nat /\ DOMAIN Read = 1..Len(Read)
           /\ Read # <<>> => Len(Read) # 0
           /\ \A k \in DOMAIN Read : \E j \in DOMAIN prices : Read[k] = prices[j]
<1> DEFINE n == RecordsRead
           m == Len(prices)
<1>1. m \in Nat /\ n \in Nat \ {0} /\ DOMAIN prices = 1..m
  BY PriceOracleAssumption DEF RecordsRead
<1>2. CASE m < n
  BY <1>2 DEF Read
<1>3. CASE ~(m < n)
  <2>1. Read = SubSeq(prices, m - n + 1, m)
    BY <1>3 DEF Read
  <2>2. m - n + 1 \in 1..(m + 1)
    BY <1>1, <1>3
  <2>3. /\ Len(Read) = n /\ DOMAIN Read = 1..n
        /\ \A k \in 1..n : Read[k] = prices[m - n + k]
    <3> HIDE DEF n
    <3> QED BY <1>1, <1>3, <2>1, <2>2
  <2> HIDE DEF n, m
  <2>4. \A k \in 1..n : m - n + k \in DOMAIN prices
    BY <1>1, <1>3
  <2> QED BY <1>1, <2>3, <2>4
<1> QED BY <1>2, <1>3

\* A record's price lies between two of its quotes, and if the market takes it for
\* fresh, so are the quotes.
LEMMA RecordRestsOnQuotes ==
    ASSUME OracleInv, QuotesArrived, NEW j \in DOMAIN prices, IsFresh(prices[j])
    PROVE  LET basis == prices[j].basis IN
           /\ prices[j].price \in Int
           /\ \A i \in DOMAIN basis : /\ basis[i].price \in Int
                                      /\ basis[i].timestamp <= now
                                      /\ now - basis[i].timestamp <= MaxAge
           /\ \E i \in DOMAIN basis : basis[i].price <= prices[j].price
           /\ \E i \in DOMAIN basis : prices[j].price <= basis[i].price
<1> DEFINE record == prices[j]
           basis == record.basis
<1>1. RecordOK(record) /\ now \in Nat /\ MaxAge \in Nat
  BY PriceOracleAssumption DEF OracleInv, OracleTypeOK
<1>2. /\ record.price \in Int /\ record.timestamp \in Nat /\ record.round \in Nat
      /\ basis \in Seq(Quote) /\ basis # <<>>
  BY <1>1 DEF RecordOK, PriceRecord
<1>3. record.round # 0 => record.round \in Rounds /\ quotes[record.round] = basis
  BY DEF OracleInv, RoundsInv
<1>4. record.timestamp <= now /\ now - record.timestamp <= MaxAge
  BY DEF IsFresh
<1>5. ASSUME NEW i \in DOMAIN basis
      PROVE  /\ basis[i].price \in Int
             /\ basis[i].timestamp <= now /\ now - basis[i].timestamp <= MaxAge
  <2>1. basis[i].price \in Int /\ basis[i].timestamp \in Nat
    BY <1>2, QuotesTyped
  <2>2. /\ record.timestamp <= basis[i].timestamp
        /\ record.round = 0 => basis[i].timestamp = record.timestamp
    BY <1>1 DEF RecordOK
  <2>3. record.round # 0 => basis[i].timestamp <= now
    BY <1>3 DEF QuotesArrived
  <2> HIDE DEF basis, record
  <2> QED BY <1>1, <1>2, <1>4, <2>1, <2>2, <2>3
<1>6. DOMAIN basis \in SUBSET DOMAIN basis /\ 2 * Cardinality(DOMAIN basis) > Len(basis)
  <2>1. Cardinality(DOMAIN basis) = Len(basis)
    BY <1>2, CountQuotes, 0 \in Int
  <2>2. Len(basis) \in Nat \ {0}
    BY <1>2
  <2> HIDE DEF basis
  <2> QED BY <2>1, <2>2
<1>7. Decides(record.price, basis)
  BY <1>1 DEF RecordOK
<1> HIDE DEF basis, record
<1>8. /\ \E i \in DOMAIN basis : basis[i].price <= record.price
      /\ \E i \in DOMAIN basis : record.price <= basis[i].price
  BY <1>6, <1>7 DEF Decides
<1> QED BY <1>2, <1>5, <1>8 DEF basis, record

LEMMA MarkRests ==
    ASSUME OracleInv, QuotesArrived
    PROVE  MarkRestsOnFreshQuotes
<1> SUFFICES ASSUME HasMark PROVE MarkRestsOnFreshQuotes
  BY DEF MarkRestsOnFreshQuotes
<1> DEFINE n == Len(Read)
           mean == SumOf(Read) \div n
<1>1. /\ n \in Nat \ {0} /\ DOMAIN Read = 1..n
      /\ \A k \in DOMAIN Read : \E j \in DOMAIN prices : Read[k] = prices[j]
  BY ReadsRecords DEF OracleInv, OracleTypeOK, HasMark
<1>2. ASSUME NEW k \in 1..n
      PROVE  /\ Read[k].price \in Int
             /\ \A i \in DOMAIN Read[k].basis :
                   /\ Read[k].basis[i] \in QuotesRead
                   /\ Read[k].basis[i].price \in Int
                   /\ Read[k].basis[i].timestamp <= now
                   /\ now - Read[k].basis[i].timestamp <= MaxAge
             /\ \E i \in DOMAIN Read[k].basis : Read[k].basis[i].price <= Read[k].price
             /\ \E i \in DOMAIN Read[k].basis : Read[k].price <= Read[k].basis[i].price
  <2>1. PICK j \in DOMAIN prices : Read[k] = prices[j]
    BY <1>1
  <2>2. IsFresh(prices[j])
    BY <1>1, <2>1 DEF HasMark
  <2>3. \A i \in DOMAIN Read[k].basis : Read[k].basis[i] \in QuotesRead
    BY <1>1 DEF QuotesRead
  <2> QED BY <2>1, <2>2, <2>3, RecordRestsOnQuotes
<1>3. ASSUME NEW q \in QuotesRead PROVE q.timestamp <= now /\ now - q.timestamp <= MaxAge
  <2>1. PICK k \in DOMAIN Read : q \in {Read[k].basis[j] : j \in DOMAIN Read[k].basis}
    BY DEF QuotesRead
  <2>2. PICK i \in DOMAIN Read[k].basis : q = Read[k].basis[i]
    BY <2>1
  <2> QED BY <1>1, <1>2, <2>2
<1>4. /\ SumOf(Read) \in Int
      /\ \E k \in 1..n : Read[k].price * n <= SumOf(Read)
      /\ \E k \in 1..n : SumOf(Read) <= Read[k].price * n
  BY <1>1, <1>2, SumBetween
<1>5. Mark = Scaled(mean)
  BY DEF Mark
<1> HIDE DEF n
<1>6. \E q \in QuotesRead : Scaled(q.price) <= Mark
  <2>1. PICK k \in 1..n : Read[k].price * n <= SumOf(Read)
    BY <1>4
  <2>2. PICK i \in DOMAIN Read[k].basis : Read[k].basis[i].price <= Read[k].price
    BY <1>2
  <2> DEFINE low == Read[k].basis[i].price
  <2>3. Read[k].price <= mean /\ mean \in Int /\ low <= Read[k].price /\ low \in Int
        /\ Read[k].price \in Int
    BY <1>1, <1>2, <1>4, <2>1, <2>2, QuotientBetween
  <2> HIDE DEF mean, low
  <2>4. Scaled(low) <= Scaled(mean)
    BY <2>3, ScaledGrows
  <2> QED BY <1>2, <1>5, <2>4 DEF low
<1>7. \E q \in QuotesRead : Mark <= Scaled(q.price)
  <2>1. PICK k \in 1..n : SumOf(Read) <= Read[k].price * n
    BY <1>4
  <2>2. PICK i \in DOMAIN Read[k].basis : Read[k].price <= Read[k].basis[i].price
    BY <1>2
  <2> DEFINE high == Read[k].basis[i].price
  <2>3. mean <= Read[k].price /\ mean \in Int /\ Read[k].price <= high /\ high \in Int
        /\ Read[k].price \in Int
    BY <1>1, <1>2, <1>4, <2>1, <2>2, QuotientBetween
  <2> HIDE DEF mean, high
  <2>4. Scaled(mean) <= Scaled(high)
    BY <2>3, ScaledGrows
  <2> QED BY <1>2, <1>5, <2>4 DEF high
<1> QED BY <1>3, <1>6, <1>7 DEF MarkRestsOnFreshQuotes

\* No mark price is made of a quote older than the market allows, or lies outside
\* the quotes it is made of, whatever the committee's rules were when they came.
THEOREM MarksRestOnFreshQuotes == OracleSpec => []MarkRestsOnFreshQuotes
<1>1. OracleInit => QuotesArrived
  BY DEF OracleInit, QuotesArrived
<1>2. OracleInv /\ QuotesArrived /\ [OracleNext]_oracleVars => QuotesArrived'
  BY QuotesArrivedKept
<1>3. OracleInv /\ QuotesArrived => MarkRestsOnFreshQuotes
  BY MarkRests
<1> QED BY <1>1, <1>2, <1>3, OracleInvariant, PTL DEF OracleSpec

-----------------------------------------------------------------------------
(* The price chart.                                                        *)

\* A finite set of candles, or of places in a buffer, has a first and a last.
LEMMA FirstAndLatest ==
    ASSUME NEW n \in Nat, NEW S \in SUBSET (1 .. n), S # {}
    PROVE  /\ Latest(S) \in S /\ \A x \in S : x <= Latest(S)
           /\ \E x \in S : \A y \in S : x <= y
<1> DEFINE R == OpToRel(<, Nat)
           Back == {n - x : x \in S}
<1>1. IsWellFoundedOn(R, Nat)
  BY NatLessThanWellFounded
<1>2. \A x, y \in Nat : x < y => <<x, y>> \in R
  BY DEF OpToRel
<1> HIDE DEF R
<1>3. S \in SUBSET Nat /\ Back \in SUBSET Nat /\ Back # {}
  <2>1. \A x \in S : x \in Nat /\ n - x \in Nat
    OBVIOUS
  <2> QED BY <2>1
<1>4. PICK x \in S : \A y \in S : ~(<<y, x>> \in R)
  BY <1>1, <1>3, WFMin
<1>5. \A y \in S : x <= y
  <2> TAKE y \in S
  <2>1. x \in Nat /\ y \in Nat /\ ~(y < x)
    BY <1>2, <1>3, <1>4
  <2> QED BY <2>1
<1>6. PICK d \in Back : \A e \in Back : ~(<<e, d>> \in R)
  <2> HIDE DEF Back
  <2> QED BY <1>1, <1>3, WFMin
<1>7. \A e \in Back : d <= e
  <2> HIDE DEF Back
  <2> TAKE e \in Back
  <2>1. d \in Nat /\ e \in Nat /\ ~(e < d)
    BY <1>2, <1>3, <1>6
  <2> QED BY <2>1
<1>8. PICK z \in S : d = n - z
  BY <1>6
<1>9. \A y \in S : y <= z
  BY <1>7, <1>8
<1>10. Latest(S) \in S /\ \A y \in S : Latest(S) >= y
  BY <1>9 DEF Latest
<1> QED BY <1>5, <1>10

Charts == {c \in [Buckets -> Nat] : \A b \in Buckets : c[b] # 0 => CandleBucket(c[b]) = b}

\* A later tick is in the same candle or in a later one, and a candle begins
\* with its first tick.
LEMMA BucketsInOrder ==
    /\ \A x \in Nat : /\ CandleBucket(x) \in Nat
                      /\ CandleBucket(x) * Width <= x /\ x < (CandleBucket(x) + 1) * Width
    /\ \A x, y \in Nat : x <= y => CandleBucket(x) <= CandleBucket(y)
    /\ \A b \in Nat : \A k \in 0 .. Width - 1 : CandleBucket(b * Width + k) = b
    /\ \A t \in Ticks : t \in Nat /\ t # 0 /\ CandleBucket(t) \in Buckets
    /\ Buckets \in SUBSET Nat /\ \E n \in Nat : Buckets = 1 .. n
<1>1. Width \in Nat \ {0} /\ MaxTick \in Nat
  BY PriceChartAssumption
<1>2. \A x \in Nat : /\ CandleBucket(x) \in Nat
                     /\ CandleBucket(x) * Width <= x /\ x < (CandleBucket(x) + 1) * Width
  <2> SUFFICES ASSUME NEW x \in Nat
               PROVE  /\ x \div Width \in Nat
                      /\ (x \div Width) * Width <= x /\ x < ((x \div Width) + 1) * Width
    BY DEF CandleBucket
  <2> QED BY <1>1
<1>3. ASSUME NEW a \in Nat, NEW b \in Nat, a < b PROVE (a + 1) * Width <= b * Width
  BY <1>1, <1>3
<1>4. ASSUME NEW x \in Nat, NEW y \in Nat, x <= y PROVE CandleBucket(x) <= CandleBucket(y)
  <2> DEFINE a == CandleBucket(x)
             b == CandleBucket(y)
  <2>1. a \in Nat /\ b \in Nat /\ a * Width <= x /\ y < (b + 1) * Width
    BY <1>2
  <2>2. (b + 1) * Width \in Int /\ a * Width \in Int
    BY <1>1, <2>1
  <2>3. CASE b < a
    <3>1. (b + 1) * Width <= a * Width
      BY <1>3, <2>1, <2>3
    <3> HIDE DEF a, b
    <3> QED BY <1>4, <2>1, <2>2, <3>1
  <2> QED BY <2>1, <2>3
<1>5. ASSUME NEW b \in Nat, NEW k \in 0 .. Width - 1 PROVE CandleBucket(b * Width + k) = b
  <2> DEFINE x == b * Width + k
             a == CandleBucket(x)
  <2>1. x \in Nat /\ b * Width <= x /\ x < (b + 1) * Width
    BY <1>1
  <2>2. a \in Nat /\ a * Width <= x /\ x < (a + 1) * Width
    BY <1>2, <2>1
  <2>3. a * Width \in Int /\ (a + 1) * Width \in Int /\ b * Width \in Int /\ (b + 1) * Width \in Int
    BY <1>1, <2>2
  <2>4. a < b => (a + 1) * Width <= b * Width
    BY <1>3, <2>2
  <2>5. b < a => (b + 1) * Width <= a * Width
    BY <1>3, <2>2
  <2> HIDE DEF a, x
  <2>6. ~(a < b) /\ ~(b < a)
    BY <2>1, <2>2, <2>3, <2>4, <2>5
  <2>7. a = b
    BY <2>2, <2>6
  <2> QED BY <2>7 DEF a, x
<1>6. CandleBucket(Width) = 1
  <2>1. 1 * Width + 0 = Width /\ 0 \in 0 .. Width - 1
    BY <1>1
  <2> QED BY <1>5, <2>1
<1>7. ASSUME NEW t \in Ticks PROVE t \in Nat /\ t # 0 /\ CandleBucket(t) \in Buckets
  <2>1. t \in Nat /\ t # 0 /\ Width <= t /\ t <= MaxTick
    BY <1>1 DEF Ticks
  <2>2. CandleBucket(Width) <= CandleBucket(t) /\ CandleBucket(t) <= CandleBucket(MaxTick)
    BY <1>1, <1>4, <2>1
  <2>3. CandleBucket(t) \in Nat /\ CandleBucket(MaxTick) \in Nat
    BY <1>1, <1>2, <2>1
  <2> QED BY <1>6, <2>1, <2>2, <2>3 DEF Buckets
<1>8. Buckets \in SUBSET Nat /\ \E n \in Nat : Buckets = 1 .. n
  <2>1. CandleBucket(MaxTick) \in Nat
    BY <1>1, <1>2
  <2>2. \A n \in Nat : 1 .. n \in SUBSET Nat
    OBVIOUS
  <2> QED BY <2>1, <2>2 DEF Buckets
<1> QED BY <1>2, <1>4, <1>5, <1>7, <1>8

\* The newest tick of a chart is the close of its last candle, and any other
\* candle is older.
LEMMA NewestIsLast ==
    ASSUME NEW c \in Charts
    PROVE  /\ Newest(c) \in Nat
           /\ \A b \in Buckets : c[b] <= Newest(c)
           /\ Drawn(c) # {} =>
                /\ LastDrawn(c) \in Drawn(c) /\ \A b \in Drawn(c) : b <= LastDrawn(c)
                /\ FirstDrawn(c) \in Drawn(c) /\ FirstDrawn(c) <= LastDrawn(c)
<1>1. PICK n \in Nat : Buckets = 1 .. n
  BY BucketsInOrder
<1>2. Drawn(c) \in SUBSET (1 .. n)
  BY <1>1 DEF Drawn
<1>3. ASSUME Drawn(c) # {}
      PROVE  /\ LastDrawn(c) \in Drawn(c) /\ \A b \in Drawn(c) : b <= LastDrawn(c)
             /\ FirstDrawn(c) \in Drawn(c) /\ FirstDrawn(c) <= LastDrawn(c)
  <2>1. LastDrawn(c) \in Drawn(c) /\ \A b \in Drawn(c) : b <= LastDrawn(c)
    BY <1>2, <1>3, FirstAndLatest DEF LastDrawn
  <2>2. \E x \in Drawn(c) : \A y \in Drawn(c) : x <= y
    BY <1>2, <1>3, FirstAndLatest
  <2>3. FirstDrawn(c) \in Drawn(c)
    BY <2>2 DEF FirstDrawn
  <2> QED BY <2>1, <2>3
<1>4. \A b \in Buckets : c[b] \in Nat /\ (c[b] # 0 => CandleBucket(c[b]) = b)
  BY DEF Charts
<1>5. Newest(c) \in Nat
  BY <1>3, <1>4 DEF Newest, Drawn
<1>6. ASSUME NEW b \in Buckets PROVE c[b] <= Newest(c)
  <2>1. CASE c[b] = 0
    BY <1>5, <2>1
  <2>2. CASE c[b] # 0
    <3>1. b \in Drawn(c)
      BY <2>2 DEF Drawn
    <3> DEFINE l == LastDrawn(c)
    <3>2. l \in Buckets /\ b <= l /\ c[l] # 0 /\ Newest(c) = c[l]
      BY <1>3, <3>1 DEF Newest, Drawn
    <3> HIDE DEF l
    <3>3. CandleBucket(c[l]) = l /\ CandleBucket(c[b]) = b /\ c[l] \in Nat /\ c[b] \in Nat
      BY <1>4, <2>2, <3>2
    <3>4. c[l] <= c[b] => l <= b
      BY <3>3, BucketsInOrder
    <3> QED BY <1>1, <3>2, <3>3, <3>4
  <2> QED BY <2>1, <2>2
<1> QED BY <1>3, <1>5, <1>6

\* What the variables may be; a price of 0 is none.
ChartShaped ==
    /\ newestTick \in {0} \cup Ticks /\ candleCache \in {0} \cup Ticks
    /\ chart \in Charts
    /\ pendingTick \in {0} \cup Ticks
    /\ lastApplied \in Nat /\ tickFloor \in Nat /\ due \in Nat /\ dueSince \in Nat
    /\ snapshotTicks \in Seq(Ticks)
    /\ snapshot.phase = "answered" => snapshot.to \in Ticks
    /\ settled \in BOOLEAN /\ coalescing \in BOOLEAN
    /\ fallbackPolls \in Nat

\* The last tick of the buffer is at least the newest one that came since the
\* request, and what was due has been pending, or was overtaken.
LastTick(ticks) == IF ticks = <<>> THEN 0 ELSE ticks[Len(ticks)]
Buffered == LastTick(snapshotTicks)

TicksKept ==
    /\ snapshot.phase # "none" => dueSince <= Buffered
    /\ due <= Larger(pendingTick, Floor)
    /\ Newest(chart) >= due \/ (pendingTick >= due /\ pendingTick >= Floor)
    /\ settled /\ pendingTick # 0 => coalescing

StreamKept ==
    /\ streamFailed => ~streamOpen
    /\ streamFailed => fallbackTimer \/ fallbackPolls > 0

ChartInv == ChartShaped /\ TicksKept /\ StreamKept

LEMMA LargerOfTwo ==
    ASSUME NEW a \in Nat, NEW b \in Nat
    PROVE  Larger(a, b) \in Nat /\ Larger(a, b) >= a /\ Larger(a, b) >= b /\ Larger(a, b) \in {a, b}
BY DEF Larger

LEMMA LastIsTick ==
    ASSUME NEW B \in Seq(Ticks)
    PROVE  LastTick(B) \in Nat /\ (B # <<>> => LastTick(B) = B[Len(B)] /\ LastTick(B) \in Ticks)
<1>1. B # <<>> => B[Len(B)] \in Ticks
  OBVIOUS
<1> QED BY <1>1, BucketsInOrder DEF LastTick

LEMMA FloorIsNatural ==
    ASSUME ChartShaped
    PROVE  /\ Floor \in Nat /\ Floor >= lastApplied /\ Floor >= tickFloor
           /\ pendingTick \in Nat /\ Newest(chart) \in Nat /\ Buffered \in Nat
<1>1. lastApplied \in Nat /\ tickFloor \in Nat /\ pendingTick \in Nat /\ chart \in Charts
  BY BucketsInOrder DEF ChartShaped
<1>2. Buffered \in Nat
  BY LastIsTick DEF ChartShaped, Buffered
<1> QED BY <1>1, <1>2, LargerOfTwo, NewestIsLast DEF Floor

\* The buffer takes what is not older than what it has.
LEMMA BufferTakes ==
    ASSUME NEW B \in Seq(Ticks), NEW t \in Ticks, NEW floor \in Nat
    PROVE  LET C == BufferTick(B, t, floor)
           IN  /\ C \in Seq(Ticks)
               /\ B # <<>> => C # <<>> /\ C[Len(C)] >= B[Len(B)]
               /\ t >= floor => C # <<>> /\ C[Len(C)] >= t
<1> DEFINE C == BufferTick(B, t, floor)
           newest == IF B = <<>> THEN floor ELSE Larger(floor, B[Len(B)])
<1>1. t \in Nat /\ \A x \in Ticks : x \in Nat
  BY BucketsInOrder
<1>2. B # <<>> => B[Len(B)] \in Nat
  <2>1. B # <<>> => B[Len(B)] \in Ticks
    OBVIOUS
  <2> QED BY <1>1, <2>1
<1>3. /\ newest \in Nat /\ newest >= floor
      /\ B # <<>> => newest >= B[Len(B)] /\ newest \in {floor, B[Len(B)]}
      /\ B = <<>> => newest = floor
  BY <1>2, LargerOfTwo
<1>4. C = IF t >= newest THEN Append(B, t) ELSE B
  BY DEF BufferTick
<1>5. Append(B, t) \in Seq(Ticks) /\ Append(B, t) # <<>> /\ Append(B, t)[Len(Append(B, t))] = t
  OBVIOUS
<1> HIDE DEF C, newest
<1>6. /\ C \in Seq(Ticks)
      /\ B # <<>> => C # <<>> /\ C[Len(C)] >= B[Len(B)]
      /\ t >= floor => C # <<>> /\ C[Len(C)] >= t
  <2>1. CASE t >= newest
    <3>1. C = Append(B, t)
      BY <1>4, <2>1
    <3>2. C \in Seq(Ticks) /\ C # <<>> /\ C[Len(C)] = t
      BY <1>5, <3>1
    <3> QED BY <1>1, <1>2, <1>3, <2>1, <3>2
  <2>2. CASE ~(t >= newest)
    <3>1. C = B
      BY <1>4, <2>2
    <3> QED BY <1>1, <1>2, <1>3, <2>2, <3>1
  <2> QED BY <2>1, <2>2
<1> QED BY <1>6 DEF C

LEMMA QueueKeeps ==
    ASSUME ChartShaped, TicksKept, NEW t \in Ticks, QueueTick(t),
           UNCHANGED <<candleVars, chart, snapshot, tickFloor>>, fallbackPolls' \in Nat
    PROVE  ChartShaped' /\ TicksKept'
<1>1. UNCHANGED <<newestTick, candleCache, cacheFresh, chart, snapshot, tickFloor, settled, lastApplied>>
  BY DEF QueueTick, candleVars
<1>2. Floor' = Floor /\ Newest(chart)' = Newest(chart)
  BY <1>1 DEF Floor
<1>3. CASE t = lastAccepted
  <2>1. UNCHANGED <<snapshotTicks, pendingTick, coalescing, due, dueSince>>
    BY <1>3 DEF QueueTick
  <2>2. ChartShaped'
    BY <1>1, <2>1 DEF ChartShaped
  <2>3. TicksKept'
    BY <1>1, <1>2, <2>1 DEF TicksKept, Buffered
  <2> QED BY <2>2, <2>3
<1>4. CASE t # lastAccepted
  <2>1. /\ snapshotTicks' = IF snapshot.phase = "none" THEN snapshotTicks
                                                   ELSE BufferTick(snapshotTicks, t, Floor)
        /\ pendingTick' = LatestTick(pendingTick, t, Floor)
        /\ coalescing' = (coalescing \/ pendingTick' # 0)
        /\ IF t >= Floor THEN due' = Larger(due, t) /\ dueSince' = Larger(dueSince, t)
                         ELSE UNCHANGED <<due, dueSince>>
    BY <1>4 DEF QueueTick
  <2>2. /\ t \in Nat /\ Floor \in Nat /\ pendingTick \in Nat /\ Newest(chart) \in Nat
        /\ due \in Nat /\ dueSince \in Nat /\ snapshotTicks \in Seq(Ticks)
    BY FloorIsNatural, BucketsInOrder DEF ChartShaped
  <2>3. /\ pendingTick' \in {pendingTick, t} /\ pendingTick' \in Nat /\ pendingTick' >= pendingTick
        /\ t >= Floor => pendingTick' >= t
    BY <2>1, <2>2 DEF LatestTick
  <2>4. /\ due' \in {due, t} /\ due' \in Nat /\ dueSince' \in {dueSince, t} /\ dueSince' \in Nat
        /\ ~(t >= Floor) => due' = due /\ dueSince' = dueSince
    BY <2>1, <2>2, LargerOfTwo
  <2>5. snapshotTicks' \in Seq(Ticks)
    BY <2>1, <2>2, BufferTakes
  <2>6. ChartShaped'
    BY <1>1, <2>1, <2>3, <2>4, <2>5 DEF ChartShaped
  <2>7. ASSUME snapshot'.phase # "none" PROVE dueSince' <= Buffered'
    <3>1. snapshotTicks' = BufferTick(snapshotTicks, t, Floor) /\ dueSince <= Buffered
      BY <1>1, <2>1, <2>7 DEF TicksKept
    <3>2. /\ snapshotTicks # <<>> => snapshotTicks' # <<>>
               /\ snapshotTicks'[Len(snapshotTicks')] >= snapshotTicks[Len(snapshotTicks)]
          /\ t >= Floor => snapshotTicks' # <<>> /\ snapshotTicks'[Len(snapshotTicks')] >= t
      BY <2>2, <3>1, BufferTakes
    <3>3. Buffered \in Nat /\ Buffered' \in Nat
      BY <2>2, <2>5, LastIsTick DEF Buffered
    <3>4. Buffered' >= Buffered /\ (t >= Floor => Buffered' >= t)
      BY <3>2, <3>3 DEF Buffered, LastTick
    <3> QED BY <2>2, <2>4, <3>1, <3>3, <3>4
  <2>8. due <= Larger(pendingTick, Floor) /\ Larger(pendingTick, Floor) \in {pendingTick, Floor}
    BY <2>2, LargerOfTwo DEF TicksKept
  <2>10. due' <= Larger(pendingTick', Floor)
    <3> DEFINE l == Larger(pendingTick', Floor)
    <3>1. l \in Nat /\ l >= pendingTick' /\ l >= Floor
      BY <2>2, <2>3, LargerOfTwo
    <3>2. pendingTick <= l /\ due <= l
      BY <2>2, <2>3, <2>8, <3>1
    <3>3. t >= Floor => t <= l
      BY <2>2, <2>3, <3>1
    <3> HIDE DEF l
    <3>4. due' <= l
      BY <2>2, <2>4, <3>1, <3>2, <3>3
    <3> QED BY <3>4 DEF l
  <2>11. Newest(chart) >= due' \/ (pendingTick' >= due' /\ pendingTick' >= Floor)
    BY <2>2, <2>3, <2>4 DEF TicksKept
  <2>12. settled' /\ pendingTick' # 0 => coalescing'
    BY <2>1
  <2> QED BY <1>2, <2>6, <2>7, <2>10, <2>11, <2>12 DEF TicksKept
<1> QED BY <1>3, <1>4

\* A tick that the timer lets through is the newest one due, and becomes the
\* newest of the chart unless a later candle is there.
LEMMA CoalescingKeeps ==
    ASSUME ChartShaped, TicksKept, CoalesceFires
    PROVE  ChartShaped' /\ TicksKept'
<1>1. /\ coalescing' = FALSE
      /\ UNCHANGED <<newestTick, candleCache, settled, snapshot, snapshotTicks, tickFloor,
                     fallbackPolls, due, dueSince>>
      /\ pendingTick' = IF settled THEN 0 ELSE pendingTick
  BY DEF CoalesceFires, candleVars, streamVars
<1>2. /\ Floor \in Nat /\ Floor >= lastApplied /\ Floor >= tickFloor /\ pendingTick \in Nat
      /\ Newest(chart) \in Nat /\ due \in Nat /\ lastApplied \in Nat /\ tickFloor \in Nat
      /\ Floor = Larger(lastApplied, tickFloor)
  BY FloorIsNatural DEF ChartShaped, Floor
<1>3. due <= Larger(pendingTick, Floor) /\ Larger(pendingTick, Floor) \in {pendingTick, Floor}
  BY <1>2, LargerOfTwo DEF TicksKept
<1>4. Buffered' = Buffered
  BY <1>1 DEF Buffered
<1>5. CASE settled /\ pendingTick # 0 /\ pendingTick >= Floor
  <2>1. chart' = UpsertCandle(chart, pendingTick) /\ lastApplied' = pendingTick /\ pendingTick' = 0
    BY <1>1, <1>5 DEF CoalesceFires
  <2>2. pendingTick \in Ticks /\ CandleBucket(pendingTick) \in Buckets
    BY <1>5, BucketsInOrder DEF ChartShaped
  <2>3. chart' = [chart EXCEPT ![CandleBucket(pendingTick)] = pendingTick] /\ chart \in Charts
    BY <2>1 DEF UpsertCandle, ChartShaped
  <2>4. chart' \in Charts /\ chart'[CandleBucket(pendingTick)] = pendingTick
    BY <1>2, <2>2, <2>3 DEF Charts
  <2>5. Newest(chart') >= pendingTick /\ Newest(chart') \in Nat
    BY <1>2, <2>2, <2>4, NewestIsLast
  <2>6. Floor' = Larger(pendingTick, tickFloor)
    BY <1>1, <2>1 DEF Floor
  <2>7. Floor' \in Nat /\ Floor' >= pendingTick
    BY <1>2, <2>6, LargerOfTwo
  <2>8. due <= pendingTick
    BY <1>2, <1>3, <1>5
  <2>9. Larger(0, Floor') \in Nat /\ Larger(0, Floor') >= Floor'
    BY <2>7, LargerOfTwo
  <2>10. ChartShaped'
    BY <1>1, <1>2, <2>1, <2>4 DEF ChartShaped
  <2>11. due <= Larger(0, Floor') /\ Newest(chart') >= due
    BY <1>2, <2>5, <2>7, <2>8, <2>9
  <2>12. (snapshot.phase # "none" => dueSince <= Buffered)'
    BY <1>1, <1>4 DEF TicksKept
  <2> QED BY <1>1, <2>1, <2>10, <2>11, <2>12 DEF TicksKept
<1>6. CASE ~(settled /\ pendingTick # 0 /\ pendingTick >= Floor)
  <2>1. UNCHANGED <<chart, lastApplied>>
    BY <1>6 DEF CoalesceFires
  <2>2. Floor' = Floor /\ Newest(chart)' = Newest(chart)
    BY <1>1, <2>1 DEF Floor
  <2>3. ChartShaped'
    BY <1>1, <2>1 DEF ChartShaped
  <2>4. CASE ~settled
    BY <1>1, <1>4, <2>2, <2>3, <2>4 DEF TicksKept
  <2>5. CASE settled
    <3>1. pendingTick' = 0
      BY <1>1, <2>5
    <3>2. pendingTick = 0 \/ pendingTick < Floor
      BY <1>2, <1>6, <2>5
    <3>3. due <= Floor
      BY <1>2, <1>3, <3>2
    <3>4. Larger(0, Floor) \in Nat /\ Larger(0, Floor) >= Floor
      BY <1>2, LargerOfTwo
    <3>5. due <= Larger(0, Floor)
      BY <1>2, <3>3, <3>4
    <3>6. Newest(chart) >= due \/ (0 >= due /\ 0 >= Floor)
      BY <1>2, <3>2 DEF TicksKept
    <3> QED BY <1>1, <1>4, <2>2, <2>3, <3>1, <3>5, <3>6 DEF TicksKept
  <2> QED BY <2>4, <2>5
<1> QED BY <1>5, <1>6

LEMMA AskingKeeps ==
    ASSUME ChartShaped, TicksKept, AskSnapshot
    PROVE  ChartShaped' /\ TicksKept'
<1>1. /\ UNCHANGED <<newestTick, candleCache, chart, pendingTick, coalescing, settled, lastApplied,
                     tickFloor, fallbackPolls, due>>
      /\ snapshot'.phase = "asked"
      /\ snapshotTicks' = IF pendingTick = 0 THEN <<>> ELSE BufferTick(<<>>, pendingTick, Floor)
      /\ dueSince' = IF pendingTick >= Floor THEN pendingTick ELSE 0
  BY DEF AskSnapshot, candleVars, tickVars, streamVars, Request
<1>2. Floor \in Nat /\ pendingTick \in Nat
  BY FloorIsNatural
<1>3. pendingTick # 0 => pendingTick \in Ticks
  BY DEF ChartShaped
<1>4. <<>> \in Seq(Ticks)
  OBVIOUS
<1>5. snapshotTicks' \in Seq(Ticks) /\ (pendingTick >= Floor /\ pendingTick # 0 => LastTick(snapshotTicks') >= pendingTick)
  <2>1. CASE pendingTick = 0
    BY <1>1, <1>4, <2>1
  <2>2. CASE pendingTick # 0
    BY <1>1, <1>2, <1>3, <1>4, <2>2, BufferTakes DEF LastTick
  <2> QED BY <2>1, <2>2
<1>6. LastTick(snapshotTicks') \in Nat
  BY <1>5, LastIsTick
<1>7. dueSince' \in Nat /\ dueSince' <= Buffered'
  BY <1>1, <1>2, <1>5, <1>6 DEF Buffered
<1>8. Floor' = Floor /\ Newest(chart)' = Newest(chart)
  BY <1>1 DEF Floor
<1> QED BY <1>1, <1>5, <1>7, <1>8 DEF ChartShaped, TicksKept

\* The candles a snapshot has are those up to a tick, each closed by a tick of
\* its own.
LEMMA CandlesAreCharts ==
    ASSUME NEW t \in Ticks
    PROVE  CandlesAt(t) \in Charts
<1>1. t \in Nat /\ \A b \in Buckets : b \in Nat
  BY BucketsInOrder
<1>2. Width \in Nat \ {0}
  BY PriceChartAssumption
<1>3. ASSUME NEW b \in Buckets
      PROVE  b * Width + Width - 1 \in Nat /\ CandleBucket(b * Width + Width - 1) = b
  <2>1. Width - 1 \in 0 .. Width - 1 /\ b \in Nat /\ b * Width \in Nat
    BY <1>1, <1>2
  <2>2. b * Width + Width - 1 = b * Width + (Width - 1)
    BY <1>2, <2>1
  <2>3. CandleBucket(b * Width + (Width - 1)) = b
    BY <2>1, BucketsInOrder
  <2> QED BY <1>2, <2>1, <2>2, <2>3
<1>4. ASSUME NEW b \in Buckets
      PROVE  CandlesAt(t)[b] \in Nat /\ (CandlesAt(t)[b] # 0 => CandleBucket(CandlesAt(t)[b]) = b)
  <2>1. \/ CandlesAt(t)[b] = t /\ b = CandleBucket(t)
        \/ CandlesAt(t)[b] = b * Width + Width - 1
        \/ CandlesAt(t)[b] = 0
    BY DEF CandlesAt
  <2> QED BY <1>1, <1>3, <2>1
<1>5. CandlesAt(t) = [b \in Buckets |-> CandlesAt(t)[b]]
  BY DEF CandlesAt
<1> QED BY <1>4, <1>5 DEF Charts

\* Whatever is merged, the last candle of the snapshot is drawn.
LEMMA MergeDrawsLast ==
    ASSUME NEW new \in Charts, NEW old \in Charts, NEW live, NEW stale
    PROVE  LET merged == MergeSnapshot(new, old, live, stale)
           IN  /\ merged \in Charts
               /\ Drawn(new) # {} => LastDrawn(new) \in Buckets /\ merged[LastDrawn(new)] # 0
<1> DEFINE merged == MergeSnapshot(new, old, live, stale)
           last == LastDrawn(new)
<1>1. CASE Drawn(new) = {}
  BY <1>1 DEF MergeSnapshot
<1>2. CASE Drawn(new) # {}
  <2>1. merged = [b \in Buckets |-> merged[b]] /\ \A b \in Buckets : merged[b] \in {old[b], new[b]}
    BY <1>2 DEF MergeSnapshot
  <2>2. merged \in Charts
    <3> HIDE DEF merged
    <3> QED BY <2>1 DEF Charts
  <2>3. last \in Buckets /\ new[last] # 0 /\ FirstDrawn(new) <= last /\ FirstDrawn(new) \in Nat /\ last \in Nat
    BY <1>2, NewestIsLast, BucketsInOrder DEF Drawn
  <2>4. ~(last < FirstDrawn(new)) /\ ~(last > last)
    BY <2>3
  <2> HIDE DEF last
  <2>5. merged[last] # 0
    <3>1. merged[last] = IF stale THEN IF old[last] # 0 THEN old[last] ELSE new[last]
                         ELSE IF last < FirstDrawn(new) \/ (last > LastDrawn(new) /\ live > 0 /\ last = CandleBucket(live))
                              THEN old[last] ELSE new[last]
      BY <1>2, <2>3 DEF MergeSnapshot
    <3>2. last = LastDrawn(new)
      BY DEF last
    <3> QED BY <2>3, <2>4, <3>1, <3>2
  <2> QED BY <2>2, <2>3, <2>5 DEF last
<1> QED BY <1>1, <1>2

\* A replay keeps what is drawn drawn, and ends with the last tick of those it
\* replays.
LEMMA ReplayKeeps ==
    ASSUME NEW c \in Charts, NEW B \in Seq(Ticks), NEW R \in SUBSET DOMAIN B
    PROVE  LET drawn == Replay(c, B, R)
           IN  /\ drawn \in Charts
               /\ \A b \in Buckets : c[b] # 0 => drawn[b] # 0
               /\ Len(B) \in R => Newest(drawn) >= B[Len(B)]
               /\ R # {} => Latest(R) \in R
               /\ Len(B) \in R => Latest(R) = Len(B)
<1> DEFINE drawn == Replay(c, B, R)
           own(b) == {i \in R : CandleBucket(B[i]) = b}
<1>1. Len(B) \in Nat /\ R \in SUBSET (1 .. Len(B))
  OBVIOUS
<1>2. \A S \in SUBSET R : /\ S # {} => Latest(S) \in S
                          /\ Len(B) \in S => Latest(S) = Len(B)
  <2> TAKE S \in SUBSET R
  <2>1. S \in SUBSET (1 .. Len(B))
    BY <1>1
  <2>2. S # {} => Latest(S) \in S /\ \A x \in S : x <= Latest(S)
    BY <1>1, <2>1, FirstAndLatest
  <2>3. Len(B) \in S => Latest(S) \in 1 .. Len(B) /\ Len(B) <= Latest(S)
    BY <2>1, <2>2
  <2> QED BY <1>1, <2>2, <2>3
<1>3. \A i \in R : B[i] \in Ticks
  BY <1>1
<1>4. \A t \in Ticks : t \in Nat /\ t # 0 /\ CandleBucket(t) \in Buckets
  BY BucketsInOrder
<1>5. /\ drawn = [b \in Buckets |-> drawn[b]]
      /\ \A b \in Buckets : drawn[b] = IF own(b) = {} THEN c[b] ELSE B[Latest(own(b))]
  BY DEF Replay
<1>6. \A b \in Buckets : own(b) \in SUBSET R /\ \A i \in own(b) : CandleBucket(B[i]) = b
  OBVIOUS
<1>7. \A b \in Buckets : own(b) # {} => Latest(own(b)) \in own(b) /\ Latest(own(b)) \in R
  BY <1>2, <1>6
<1> HIDE DEF drawn, own
<1>8. \A b \in Buckets : /\ drawn[b] \in Nat /\ (drawn[b] # 0 => CandleBucket(drawn[b]) = b)
                         /\ c[b] # 0 => drawn[b] # 0
  <2> TAKE b \in Buckets
  <2>1. CASE own(b) = {}
    BY <1>5, <2>1 DEF Charts
  <2>2. CASE own(b) # {}
    <3>1. PICK i \in R : i = Latest(own(b)) /\ drawn[b] = B[i] /\ CandleBucket(B[i]) = b
      BY <1>5, <1>6, <1>7, <2>2
    <3> QED BY <1>3, <1>4, <3>1
  <2> QED BY <2>1, <2>2
<1>9. drawn \in Charts
  BY <1>5, <1>8 DEF Charts
<1>10. ASSUME Len(B) \in R PROVE Newest(drawn) >= B[Len(B)]
  <2> DEFINE b == CandleBucket(B[Len(B)])
  <2>1. b \in Buckets /\ Len(B) \in own(b)
    BY <1>3, <1>4, <1>10 DEF own
  <2>2. Latest(own(b)) = Len(B)
    BY <1>2, <1>6, <2>1
  <2>3. drawn[b] = B[Len(B)]
    BY <1>5, <2>1, <2>2
  <2>4. drawn[b] <= Newest(drawn) /\ Newest(drawn) \in Nat
    BY <1>9, <2>1, NewestIsLast
  <2> QED BY <1>3, <1>4, <1>10, <2>3, <2>4
<1> QED BY <1>2, <1>8, <1>9, <1>10 DEF drawn

\* What came while the snapshot was asked for is replayed on it or is older
\* than its last candle.
LEMMA ArrivalKeeps ==
    ASSUME ChartShaped, TicksKept, SnapshotArrives
    PROVE  ChartShaped' /\ TicksKept'
<1> DEFINE candles == CandlesAt(snapshot.to)
           floor == CandleFloor(candles)
           replayed == {i \in DOMAIN snapshotTicks : snapshotTicks[i] >= floor}
           merged == MergeSnapshot(candles, chart, lastApplied, snapshot.stale)
           held == IF settled THEN pendingTick ELSE 0
<1>1. /\ snapshot.phase = "answered"
      /\ chart' = Replay(merged, snapshotTicks, replayed)
      /\ lastApplied' = IF replayed = {} THEN lastApplied
                        ELSE Larger(lastApplied, snapshotTicks[Latest(replayed)])
      /\ tickFloor' = Larger(tickFloor, floor)
      /\ due' = dueSince /\ dueSince' = dueSince
      /\ snapshot' = Request("none") /\ snapshotTicks' = <<>> /\ settled' = TRUE
      /\ pendingTick' = held
      /\ coalescing' = (coalescing \/ (~settled /\ held # 0))
      /\ UNCHANGED <<newestTick, candleCache, fallbackPolls>>
  BY DEF SnapshotArrives, SettleTicks, candleVars, streamVars
<1>2. /\ lastApplied \in Nat /\ tickFloor \in Nat /\ due \in Nat /\ dueSince \in Nat
      /\ snapshotTicks \in Seq(Ticks) /\ chart \in Charts /\ pendingTick \in Nat
      /\ pendingTick \in {0} \cup Ticks
  BY FloorIsNatural DEF ChartShaped
<1>3. candles \in Charts
  BY <1>1, CandlesAreCharts DEF ChartShaped
<1>4. merged \in Charts /\ (Drawn(candles) # {} => LastDrawn(candles) \in Buckets /\ merged[LastDrawn(candles)] # 0)
  BY <1>2, <1>3, MergeDrawsLast
<1>5. /\ replayed \in SUBSET DOMAIN snapshotTicks
      /\ Len(snapshotTicks) \in DOMAIN snapshotTicks /\ snapshotTicks[Len(snapshotTicks)] >= floor
           => Len(snapshotTicks) \in replayed
  OBVIOUS
<1> HIDE DEF candles, merged, replayed
<1>6. /\ chart' \in Charts
      /\ \A b \in Buckets : merged[b] # 0 => chart'[b] # 0
      /\ Len(snapshotTicks) \in replayed => Newest(chart') >= snapshotTicks[Len(snapshotTicks)]
      /\ replayed # {} => Latest(replayed) \in replayed
      /\ Len(snapshotTicks) \in replayed => Latest(replayed) = Len(snapshotTicks)
  BY <1>1, <1>2, <1>4, <1>5, ReplayKeeps
<1>7. Newest(chart') \in Nat /\ \A b \in Buckets : chart'[b] <= Newest(chart')
  BY <1>6, NewestIsLast
<1>8. floor \in Nat /\ Newest(chart') >= floor
  <2>1. CASE Drawn(candles) = {}
    BY <1>7, <2>1 DEF CandleFloor
  <2>2. CASE Drawn(candles) # {}
    <3> DEFINE l == LastDrawn(candles)
    <3>1. l \in Buckets /\ chart'[l] # 0 /\ floor = l * Width
      BY <1>4, <1>6, <2>2 DEF CandleFloor
    <3>2. chart'[l] \in Nat /\ CandleBucket(chart'[l]) = l /\ l \in Nat
      BY <1>6, <3>1, BucketsInOrder DEF Charts
    <3>3. l * Width <= chart'[l] /\ l * Width \in Nat
      <4>1. \A x \in Nat : CandleBucket(x) * Width <= x
        BY BucketsInOrder
      <4>2. l * Width \in Nat
        BY <3>2, PriceChartAssumption
      <4> HIDE DEF l
      <4> QED BY <3>2, <4>1, <4>2
    <3>4. chart'[l] <= Newest(chart')
      BY <1>7, <3>1
    <3> QED BY <1>7, <3>1, <3>2, <3>3, <3>4
  <2> QED BY <2>1, <2>2
<1> HIDE DEF floor
<1>9. tickFloor' \in Nat /\ tickFloor' >= floor
  BY <1>1, <1>2, <1>8, LargerOfTwo
<1>10. lastApplied' \in Nat
  <2>1. replayed # {} => snapshotTicks[Latest(replayed)] \in Nat
    <3>1. replayed # {} => Latest(replayed) \in DOMAIN snapshotTicks
      BY <1>5, <1>6
    <3>2. \A i \in DOMAIN snapshotTicks : snapshotTicks[i] \in Ticks
      BY <1>2
    <3> QED BY <3>1, <3>2, BucketsInOrder
  <2> QED BY <1>1, <1>2, <2>1, LargerOfTwo
<1>11. Floor' \in Nat /\ Floor' >= lastApplied' /\ Floor' >= tickFloor'
  BY <1>9, <1>10, LargerOfTwo DEF Floor
<1>12. dueSince <= Newest(chart') /\ dueSince <= Floor'
  <2>1. dueSince <= Buffered
    BY <1>1 DEF TicksKept
  <2>2. CASE snapshotTicks = <<>>
    BY <1>2, <1>7, <1>11, <2>1, <2>2 DEF Buffered, LastTick
  <2>3. CASE snapshotTicks # <<>>
    <3> DEFINE last == snapshotTicks[Len(snapshotTicks)]
    <3>1. Len(snapshotTicks) \in DOMAIN snapshotTicks /\ Buffered = last /\ last \in Nat
      BY <1>2, <2>3, LastIsTick DEF Buffered
    <3>2. CASE last >= floor
      <4>1. Len(snapshotTicks) \in replayed
        BY <1>5, <3>1, <3>2
      <4>2. Newest(chart') >= last /\ lastApplied' = Larger(lastApplied, last)
        BY <1>1, <1>6, <4>1
      <4>3. lastApplied' >= last
        BY <1>2, <3>1, <4>2, LargerOfTwo
      <4> HIDE DEF last
      <4> QED BY <1>2, <1>7, <1>10, <1>11, <2>1, <3>1, <4>2, <4>3
    <3>3. CASE ~(last >= floor)
      <4> HIDE DEF last
      <4> QED BY <1>2, <1>7, <1>8, <1>9, <1>11, <2>1, <3>1, <3>3
    <3> QED BY <3>2, <3>3
  <2> QED BY <2>2, <2>3
<1>13. pendingTick' \in {0} \cup Ticks /\ pendingTick' \in Nat /\ coalescing' \in BOOLEAN
  BY <1>1, <1>2
<1>14. snapshot'.phase = "none" /\ <<>> \in Seq(Ticks)
  BY <1>1 DEF Request
<1>15. ChartShaped'
  BY <1>1, <1>2, <1>6, <1>9, <1>10, <1>13, <1>14 DEF ChartShaped
<1>16. due' <= Larger(pendingTick', Floor')
  <2>1. Larger(pendingTick', Floor') >= Floor' /\ Larger(pendingTick', Floor') \in Nat
    BY <1>11, <1>13, LargerOfTwo
  <2> QED BY <1>1, <1>2, <1>11, <1>12, <2>1
<1>17. settled' /\ pendingTick' # 0 => coalescing'
  <2>1. settled /\ pendingTick # 0 => coalescing
    BY DEF TicksKept
  <2> QED BY <1>1, <2>1
<1>18. Newest(chart') >= due'
  BY <1>1, <1>2, <1>7, <1>12
<1> QED BY <1>14, <1>15, <1>16, <1>17, <1>18 DEF TicksKept

LEMMA FailureKeeps ==
    ASSUME ChartShaped, TicksKept, SnapshotFails
    PROVE  ChartShaped' /\ TicksKept'
<1>1. /\ snapshot' = Request("none") /\ snapshotTicks' = <<>> /\ settled' = TRUE
      /\ pendingTick' = pendingTick
      /\ coalescing' = (coalescing \/ (~settled /\ pendingTick # 0))
      /\ UNCHANGED <<newestTick, candleCache, chart, lastApplied, tickFloor, fallbackPolls, due, dueSince>>
  BY DEF SnapshotFails, SettleTicks, candleVars, streamVars
<1>2. snapshot'.phase = "none" /\ <<>> \in Seq(Ticks)
  BY <1>1 DEF Request
<1>3. Floor' = Floor /\ Newest(chart)' = Newest(chart)
  BY <1>1 DEF Floor
<1>4. ChartShaped'
  BY <1>1, <1>2 DEF ChartShaped
<1>5. settled' /\ pendingTick' # 0 => coalescing'
  BY <1>1 DEF TicksKept
<1> QED BY <1>1, <1>2, <1>3, <1>4, <1>5 DEF TicksKept

\* The server, and time.
LEMMA ServingKeeps ==
    ASSUME ChartShaped, TicksKept, TickPublished \/ ServeCandles \/ CacheExpires
    PROVE  ChartShaped' /\ TicksKept' /\ UNCHANGED streamVars
<1>1. UNCHANGED <<chart, pendingTick, coalescing, settled, lastApplied, lastAccepted, snapshotTicks,
                  tickFloor, streamOpen, streamFailed, fallbackTimer, fallbackPolls, due, dueSince>>
  BY DEF TickPublished, ServeCandles, CacheExpires, tickVars, streamVars
<1>2. newestTick' \in {0} \cup Ticks
  <2>1. CASE TickPublished
    BY <2>1, PriceChartAssumption DEF TickPublished, ChartShaped, Ticks
  <2>2. CASE ServeCandles \/ CacheExpires
    BY <2>2 DEF ServeCandles, CacheExpires, ChartShaped
  <2> QED BY <2>1, <2>2
<1>3. /\ candleCache' \in {0} \cup Ticks
      /\ snapshot'.phase = "answered" => snapshot'.to \in Ticks
      /\ snapshot'.phase # "none" => snapshot.phase # "none"
  <2>1. CASE ServeCandles
    BY <2>1 DEF ServeCandles, ChartShaped, Answer, Request
  <2>2. CASE TickPublished \/ CacheExpires
    BY <2>2 DEF TickPublished, CacheExpires, ChartShaped
  <2> QED BY <2>1, <2>2
<1>4. ChartShaped'
  BY <1>1, <1>2, <1>3 DEF ChartShaped
<1>5. Floor' = Floor /\ Buffered' = Buffered /\ Newest(chart)' = Newest(chart)
  BY <1>1 DEF Floor, Buffered
<1>6. TicksKept'
  BY <1>1, <1>3, <1>5 DEF TicksKept
<1> QED BY <1>1, <1>4, <1>6 DEF streamVars

\* The stream opens and fails, and the price is asked for without it.
LEMMA StreamingKeeps ==
    ASSUME ChartInv, StreamOpens \/ StreamFails \/ FallbackFires
    PROVE  ChartInv'
<1>1. ChartShaped /\ TicksKept /\ StreamKept
  BY DEF ChartInv
<1>2. UNCHANGED <<newestTick, candleCache, chart, pendingTick, coalescing, settled, lastApplied,
                  snapshot, snapshotTicks, tickFloor, due, dueSince>>
  BY DEF StreamOpens, StreamFails, FallbackFires, TicksUnchanged, candleVars, tickVars
<1>3. fallbackPolls' \in Nat /\ (fallbackPolls' = fallbackPolls \/ fallbackPolls' > 0)
  BY <1>1 DEF ChartShaped, StreamOpens, StreamFails, FallbackFires
<1>4. Floor' = Floor /\ Buffered' = Buffered /\ Newest(chart)' = Newest(chart)
  BY <1>2 DEF Floor, Buffered
<1>5. ChartShaped' /\ TicksKept'
  BY <1>1, <1>2, <1>3, <1>4 DEF ChartShaped, TicksKept
<1>6. StreamKept'
  <2>1. CASE StreamOpens
    BY <2>1 DEF StreamOpens, StreamKept
  <2>2. CASE StreamFails
    BY <2>2 DEF StreamFails, StreamKept
  <2>3. CASE FallbackFires
    BY <1>1, <2>3 DEF FallbackFires, StreamKept, ChartShaped
  <2> QED BY <2>1, <2>2, <2>3
<1> QED BY <1>5, <1>6 DEF ChartInv

LEMMA FallbackKeeps ==
    ASSUME ChartInv, FallbackAnswers
    PROVE  ChartInv'
<1>1. ChartShaped /\ TicksKept /\ StreamKept
  BY DEF ChartInv
<1>2. /\ fallbackPolls > 0 /\ fallbackPolls' = fallbackPolls - 1 /\ fallbackPolls' \in Nat
      /\ fallbackTimer' = (fallbackTimer \/ ~streamOpen)
      /\ UNCHANGED <<candleVars, chart, snapshot, tickFloor, streamOpen, streamFailed>>
  BY <1>1 DEF FallbackAnswers, ChartShaped
<1>3. StreamKept'
  BY <1>1, <1>2 DEF StreamKept
<1>4. ChartShaped' /\ TicksKept'
  <2>1. CASE \E t \in Width .. newestTick : QueueTick(t)
    <3>1. PICK t \in Width .. newestTick : QueueTick(t)
      BY <2>1
    <3>2. t \in Ticks
      BY <1>1, <3>1, PriceChartAssumption DEF ChartShaped, Ticks
    <3> QED BY <1>1, <1>2, <3>1, <3>2, QueueKeeps
  <2>2. CASE UNCHANGED <<tickVars, snapshotTicks, due, dueSince>>
    <3>1. UNCHANGED <<newestTick, candleCache, chart, pendingTick, coalescing, settled, lastApplied,
                      snapshot, snapshotTicks, tickFloor, due, dueSince>>
      BY <1>2, <2>2 DEF candleVars, tickVars
    <3>2. Floor' = Floor /\ Buffered' = Buffered /\ Newest(chart)' = Newest(chart)
      BY <3>1 DEF Floor, Buffered
    <3> QED BY <1>1, <1>2, <3>1, <3>2 DEF ChartShaped, TicksKept
  <2> QED BY <2>1, <2>2 DEF FallbackAnswers
<1> QED BY <1>3, <1>4 DEF ChartInv

\* A chart that starts, at first or with another market, has nothing due.
LEMMA StartKeeps ==
    ASSUME NEW c, c = [b \in Buckets |-> 0]
    PROVE  c \in Charts /\ Newest(c) = 0
<1>1. c \in Charts
  BY DEF Charts
<1> QED BY <1>1 DEF Newest, Drawn

LEMMA ChoosingKeeps ==
    ASSUME ChartInv, Choose
    PROVE  ChartInv'
<1>1. /\ chart' = [b \in Buckets |-> 0]
      /\ pendingTick' = 0 /\ coalescing' = FALSE /\ settled' = FALSE
      /\ snapshot' = Request("asked") /\ snapshotTicks' = <<>>
      /\ lastApplied' = 0 /\ tickFloor' = 0 /\ fallbackPolls' = 0
      /\ streamFailed' = FALSE /\ due' = 0 /\ dueSince' = 0
      /\ UNCHANGED <<newestTick, candleCache>>
  BY DEF Choose, candleVars
<1>2. chart' \in Charts /\ Newest(chart') = 0
  BY <1>1, StartKeeps
<1>3. snapshot'.phase = "asked" /\ <<>> \in Seq(Ticks)
  BY <1>1 DEF Request
<1>4. ChartShaped'
  BY <1>1, <1>2, <1>3 DEF ChartInv, ChartShaped
<1>5. Floor' = 0 /\ Buffered' = 0 /\ Larger(0, 0) = 0
  BY <1>1 DEF Floor, Buffered, Larger, LastTick
<1>6. TicksKept'
  BY <1>1, <1>2, <1>5 DEF TicksKept
<1> QED BY <1>1, <1>4, <1>6 DEF ChartInv, StreamKept

\* No tick that was not overtaken is lost between the stream, the timer that
\* coalesces ticks, the price asked for without a stream and the snapshots that
\* replace the chart, in whatever order they come.
THEOREM ChartsKeepUp == ChartSpec => []ChartKeepsUp
<1>1. ChartInit => ChartInv
  <2> SUFFICES ASSUME ChartInit PROVE ChartInv
    OBVIOUS
  <2>1. chart \in Charts /\ Newest(chart) = 0
    BY StartKeeps DEF ChartInit
  <2>2. Floor = 0 /\ Buffered = 0 /\ Larger(0, 0) = 0
    BY DEF ChartInit, Floor, Buffered, Larger, LastTick
  <2>3. snapshot.phase = "asked" /\ <<>> \in Seq(Ticks)
    BY DEF ChartInit, Request
  <2>4. ChartShaped
    BY <2>1, <2>3 DEF ChartInit, ChartShaped
  <2>5. TicksKept
    BY <2>1, <2>2 DEF ChartInit, TicksKept
  <2> QED BY <2>4, <2>5 DEF ChartInit, ChartInv, StreamKept
<1>2. ChartInv /\ [ChartNext]_chartVars => ChartInv'
  <2> SUFFICES ASSUME ChartInv, [ChartNext]_chartVars PROVE ChartInv'
    OBVIOUS
  <2>1. ChartShaped /\ TicksKept /\ StreamKept
    BY DEF ChartInv
  <2>2. ASSUME ChartShaped', TicksKept', UNCHANGED streamVars PROVE ChartInv'
    BY <2>1, <2>2 DEF ChartInv, StreamKept, streamVars
  <2>3. CASE TickPublished \/ ServeCandles \/ CacheExpires
    BY <2>1, <2>2, <2>3, ServingKeeps
  <2>4. CASE CoalesceFires
    BY <2>1, <2>2, <2>4, CoalescingKeeps DEF CoalesceFires
  <2>5. CASE \E t \in Ticks : StreamTick(t)
    <3>1. PICK t \in Ticks : StreamTick(t)
      BY <2>5
    <3>2. /\ QueueTick(t) /\ UNCHANGED <<candleVars, chart, snapshot, tickFloor>>
          /\ UNCHANGED streamVars /\ fallbackPolls' = fallbackPolls
      BY <3>1 DEF StreamTick, streamVars
    <3>3. fallbackPolls' \in Nat
      BY <2>1, <3>2 DEF ChartShaped
    <3> QED BY <2>1, <2>2, <3>2, <3>3, QueueKeeps
  <2>6. CASE AskSnapshot
    BY <2>1, <2>2, <2>6, AskingKeeps DEF AskSnapshot
  <2>7. CASE SnapshotArrives
    BY <2>1, <2>2, <2>7, ArrivalKeeps DEF SnapshotArrives
  <2>8. CASE SnapshotFails
    BY <2>1, <2>2, <2>8, FailureKeeps DEF SnapshotFails
  <2>9. CASE StreamOpens \/ StreamFails \/ FallbackFires
    BY <2>9, StreamingKeeps
  <2>10. CASE FallbackAnswers
    BY <2>10, FallbackKeeps
  <2>11. CASE Choose
    BY <2>11, ChoosingKeeps
  <2>12. CASE UNCHANGED chartVars
    <3>1. UNCHANGED <<newestTick, candleCache, chart, pendingTick, coalescing, settled, lastApplied,
                      snapshot, snapshotTicks, tickFloor, fallbackPolls, due, dueSince>>
          /\ UNCHANGED streamVars
      BY <2>12 DEF chartVars, candleVars, tickVars, streamVars
    <3>2. Floor' = Floor /\ Buffered' = Buffered /\ Newest(chart)' = Newest(chart)
      BY <3>1 DEF Floor, Buffered
    <3>3. ChartShaped' /\ TicksKept'
      BY <2>1, <3>1, <3>2 DEF ChartShaped, TicksKept
    <3> QED BY <2>2, <3>1, <3>3
  <2> QED BY <2>3, <2>4, <2>5, <2>6, <2>7, <2>8, <2>9, <2>10, <2>11, <2>12 DEF ChartNext
<1>3. ChartInv => ChartKeepsUp
  BY DEF ChartInv, TicksKept, StreamKept, ChartKeepsUp
<1> QED BY <1>1, <1>2, <1>3, PTL DEF ChartSpec
=============================================================================
