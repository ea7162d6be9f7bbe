----------------------------- MODULE VaultHistory -----------------------------
(***************************************************************************)
(* features/liquidity-vault/liquidity-vault.history: the transfers into    *)
(* and out of the vault, read from the events of the node ledger by ledger *)
(* and kept in Mongo with a cursor.                                        *)
(*                                                                         *)
(* While a deployment replaces the server two processes scan beside each   *)
(* other over the same collections; every answer may fail; the node keeps  *)
(* a window of ledgers and answers a page at a time.                       *)
(*                                                                         *)
(* A transfer is its place in the order of the node's events.              *)
(***************************************************************************)
EXTENDS Integers, FiniteSets, Sequences

CONSTANTS
    Scanners,      \* server processes
    PageLimit,     \* events of a page (the code: 200)
    Margin,        \* ledgers kept away from the end of the window (120)
    MaxLedger,     \* bound: ledgers that close
    MaxTransfers   \* bound: transfers of the vault

ASSUME HistoryAssumption ==
    /\ PageLimit \in Nat \ {0} /\ Margin \in Nat
    /\ MaxLedger \in Nat /\ MaxTransfers \in Nat

VARIABLES
    tip,       \* the ledger the node closed last
    oldest,    \* the first ledger its events are kept of
    ledgerOf,  \* the ledger of each transfer, in order
    activity,  \* vault_activity: an upsert keyed by the event
    cursor,    \* vault_activity_cursors: 0 for none
    scan,      \* the sync in flight of each process
    missed     \* history: transfers a scan has knowingly passed over

historyVars == <<tip, oldest, ledgerOf, activity, cursor, scan, missed>>

NoScan == [step |-> "none", tip |-> 0, cursor |-> 0, start |-> 0, after |-> 0]
Transfers == DOMAIN ledgerOf

-----------------------------------------------------------------------------
(* The node                                                                *)

\* A ledger closes with n transfers of the vault.
Close(n) ==
    /\ tip < MaxLedger /\ Len(ledgerOf) + n <= MaxTransfers
    /\ tip' = tip + 1
    /\ ledgerOf' = ledgerOf \o [k \in 1..n |-> tip + 1]
    /\ UNCHANGED <<oldest, activity, cursor, scan, missed>>

\* The window moves.
Prune ==
    /\ oldest < tip
    /\ oldest' = oldest + 1
    /\ UNCHANGED <<tip, ledgerOf, activity, cursor, scan, missed>>

-----------------------------------------------------------------------------
(* LiquidityVaultHistory                                                   *)

\* sync: one scan in flight in a process; getLatestLedger.
ReadTip(p) ==
    /\ scan[p] = NoScan
    /\ scan' = [scan EXCEPT ![p] = [NoScan EXCEPT !.step = "cursor", !.tip = tip]]
    /\ UNCHANGED <<tip, oldest, ledgerOf, activity, cursor, missed>>

\* The cursor; nothing is left to scan when it is at the tip that was read.
ReadCursor(p) ==
    /\ scan[p].step = "cursor"
    /\ scan' = [scan EXCEPT ![p] =
                    IF cursor >= scan[p].tip THEN NoScan
                    ELSE [@ EXCEPT !.step = "window", !.cursor = cursor]]
    /\ UNCHANGED <<tip, oldest, ledgerOf, activity, cursor, missed>>

\* Variant of FirstLedger: a first scan begins at the tip.
FirstLedger_AtTip(s) == IF s.cursor = 0 THEN s.tip
                        ELSE IF s.cursor + 1 > oldest + Margin THEN s.cursor + 1 ELSE oldest + Margin

\* Where a scan begins: after the cursor, or inside the window when that is later.
FirstLedger(s) == IF s.cursor + 1 > oldest + Margin THEN s.cursor + 1 ELSE oldest + Margin

\* What left the window, or is about to, is passed over.
ReadWindow(p) ==
    /\ scan[p].step = "window"
    /\ scan' = [scan EXCEPT ![p].step = "page", ![p].start = FirstLedger(scan[p])]
    /\ missed' = missed \cup {k \in Transfers : ledgerOf[k] > scan[p].cursor
                                                  /\ ledgerOf[k] < oldest + Margin}
    /\ UNCHANGED <<tip, oldest, ledgerOf, activity, cursor>>

\* What is left of the range after the pages read so far, and the next page.
Remaining(s) == {k \in Transfers : ledgerOf[k] \in s.start..s.tip /\ k > s.after}
PageOf(s) == {k \in Remaining(s) : Cardinality({j \in Remaining(s) : j < k}) < PageLimit}

\* Variant of IsLastPage: one page is taken to be all.
IsLastPage_Any(s) == TRUE

\* The cursor a page comes with: the end of the range, or its last event when the
\* page is full.  A full page that ends inside the last ledger counts as the last.
IsLastPage(s) ==
    Cardinality(PageOf(s)) < PageLimit \/ \E k \in PageOf(s) : ledgerOf[k] = s.tip

\* parseVaultTransfer and confirmVaultAction, then the upsert: a transaction the
\* node does not find is not of the vault, as far as the history is concerned.
Page(p, unconfirmed) ==
    LET s == scan[p]
        page == PageOf(s)
    IN  /\ s.step = "page" /\ s.start <= s.tip
        /\ \A k \in Remaining(s) : ledgerOf[k] >= oldest
        /\ unconfirmed \subseteq page
        /\ activity' = activity \cup (page \ unconfirmed)
        /\ missed' = missed \cup unconfirmed
                       \cup (IF Cardinality(page) = PageLimit /\ \E k \in page : ledgerOf[k] = s.tip
                             THEN Remaining(s) \ page ELSE {})
        /\ scan' = IF IsLastPage(s) THEN [scan EXCEPT ![p].step = "finish"]
                   ELSE [scan EXCEPT ![p].after = CHOOSE k \in page : \A j \in page : j <= k]
        /\ UNCHANGED <<tip, oldest, ledgerOf, cursor>>

\* The cursor is written last, whatever it is by now.
Finish(p) ==
    /\ scan[p].step = "finish"
    /\ cursor' = scan[p].tip
    /\ scan' = [scan EXCEPT ![p] = NoScan]
    /\ UNCHANGED <<tip, oldest, ledgerOf, activity, missed>>

\* An answer of the node or of Mongo that does not come, a range the node refuses,
\* the end of the process: syncFailed, and the next poll begins again.
QueryFails(p) ==
    /\ scan[p] # NoScan
    /\ scan' = [scan EXCEPT ![p] = NoScan]
    /\ UNCHANGED <<tip, oldest, ledgerOf, activity, cursor, missed>>

HistoryInit ==
    /\ tip = 1 /\ oldest = 1
    /\ ledgerOf = <<>>
    /\ activity = {} /\ cursor = 0
    /\ scan = [p \in Scanners |-> NoScan]
    /\ missed = {}

HistoryNext ==
    \/ \E n \in 0..MaxTransfers : Close(n)
    \/ Prune
    \/ \E p \in Scanners : ReadTip(p) \/ ReadCursor(p) \/ ReadWindow(p) \/ Finish(p) \/ QueryFails(p)
    \/ \E p \in Scanners : \E unconfirmed \in SUBSET PageOf(scan[p]) : Page(p, unconfirmed)

HistorySpec == HistoryInit /\ [][HistoryNext]_historyVars

-----------------------------------------------------------------------------
(* Properties                                                              *)

\* Whatever answers fail and however two processes overlap, the cursor never
\* passes a transfer that is not in the history, but for the three the code lets
\* go: those out of the window, those the node does not confirm, and those a full
\* page cuts off in the last ledger.
HistoryIsKept == \A k \in Transfers : ledgerOf[k] <= cursor => k \in activity \cup missed
=============================================================================
