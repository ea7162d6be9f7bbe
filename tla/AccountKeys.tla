---------------------------- MODULE AccountKeys ----------------------------
(***************************************************************************)
(* How a trader's browsers come to read the openings of the trader's        *)
(* positions.  The server knows only the commitment of a position; its      *)
(* opening is in an account event, encrypted for the key that was           *)
(* registered when the batch was matched.  Each browser keeps a private key *)
(* of its own (client/src/lib/account-encryption.ts), the account has one   *)
(* registered key (server/src/features/account-keys), and every page load   *)
(* (client/src/lib/use-trading-data.ts) registers the browser's key if      *)
(* another is registered, which makes the server encrypt the openings it    *)
(* can reconstruct once more; what still cannot be read is asked for with   *)
(* a new key, once for each set of open positions, and then looked up in    *)
(* the encrypted backups.                                                   *)
(*                                                                          *)
(* Every await is a step of its own: tabs share the browser's key, browsers *)
(* share the registered one, and batches are matched and settled meanwhile. *)
(***************************************************************************)
EXTENDS Naturals, FiniteSets

CONSTANTS
  Tabs, BrowserOf,   \* the pages, and the browser each of them is in
  Opened,            \* the positions that batches open
  MaxKeys            \* bound: keys the browsers create

Keys == 1 .. MaxKeys
NoKey == 0
BrowserSet == {BrowserOf[t] : t \in Tabs}

VARIABLES
  registered,  \* server: the account's key
  events,      \* server: position openings, each with the key it is encrypted for
  openings,    \* server: position -> "none", "matched", "open" or "closed"
  matchedFor,  \* the key of the event of a position that is matched
  kept,        \* positions whose opening the server can reconstruct
  copies,      \* server: positions whose opening is backed up
  stored,      \* browser: the key in its database
  created,     \* the keys created so far
  attempted,   \* tab: the sets of open positions it marked as tried
  cutShort,    \* tabs that were reloaded between the mark of an attempt and its key
  page         \* tab: the load in progress and what it shows

accountVars == <<registered, events, openings, matchedFor, kept, copies>>
browserVars == <<stored, created, attempted, cutShort>>
keyVars == <<accountVars, browserVars, page>>

-----------------------------------------------------------------------------
OpenNow == {p \in Opened : openings[p] = "open"}
EventsFor(k) == {p \in Opened : <<p, k>> \in events}

Idle == [at |-> "idle", open |-> {}, read |-> {}, mine |-> NoKey, got |-> {}, events |-> {}]
At(t, step) == page[t].at = step

Goes(t, step) == page' = [page EXCEPT ![t].at = step, ![t].mine = NoKey]
Ends(t) == page' = [page EXCEPT ![t] = Idle]

\* use-trading-data.ts:402-407  fetchPortfolio, as far as it is used: the open
\* positions and the account events.
Fetched(t, step) ==
  page' = [page EXCEPT ![t].at = step, ![t].open = OpenNow, ![t].events = events]

\* wallet-auth.ts:37-55, 81-106  A wallet is connected, or its stored session
\* is confirmed: the account key is looked after.
ConnectAccount(t) ==
  /\ At(t, "idle") /\ page' = [page EXCEPT ![t].at = "ensure"]
  /\ UNCHANGED <<accountVars, browserVars>>

\* use-trading-data.ts:267-276  loadTradingData starts.
Load(t) ==
  /\ At(t, "idle")
  /\ Fetched(t, "ensure")
  /\ UNCHANGED <<accountVars, browserVars>>

-----------------------------------------------------------------------------
(* ensureAccountEncryptionKey                                               *)

\* account-encryption.ts:68, 98-104  The registered key is read: `read'.
EnsureKey(t) ==
  /\ At(t, "ensure")
  /\ page' = [page EXCEPT ![t].at = "compare", ![t].read = {registered} \ {NoKey}]
  /\ UNCHANGED <<accountVars, browserVars>>

\* account-encryption.ts:187-204  createAccountKey: the new key replaces the
\* browser's.
NewKey(t) ==
  /\ created < MaxKeys /\ created' = created + 1
  /\ stored' = [stored EXCEPT ![BrowserOf[t]] = created']

\* A key is registered: by recovery when one was read.
Registration(t) == IF page[t].read = {} THEN "register" ELSE "recover"

\* account-encryption.ts:69-79  Then the browser's key, `mine'.  Where the keys
\* are the same the load goes on; otherwise the browser's key is registered.
Compare(t) ==
  /\ At(t, "compare")
  /\ LET existing == stored[BrowserOf[t]]
     IN  \/ existing = NoKey /\ page' = [page EXCEPT ![t].at = "create"]
         \/ /\ existing \in page[t].read \ {NoKey}
            /\ page' = [page EXCEPT ![t].read = {}, ![t].at = "decrypt"]
         \/ /\ existing \notin page[t].read \cup {NoKey}
            /\ page' = [page EXCEPT ![t].read = {}, ![t].mine = existing, ![t].at = Registration(t)]
  /\ UNCHANGED <<accountVars, browserVars>>

\* account-encryption.ts:71, 79  There was none when it looked: it makes one now.
CreateKey(t) ==
  /\ At(t, "create") /\ NewKey(t)
  /\ page' = [page EXCEPT ![t].at = Registration(t), ![t].mine = created', ![t].read = {}]
  /\ UNCHANGED <<accountVars, attempted, cutShort>>

\* account-encryption.ts:80-89, account-keys.service.ts:15-31  upsert refuses
\* to replace a key.
RegisterKey(t) ==
  /\ At(t, "register")
  /\ IF registered \in {NoKey, page[t].mine}
     THEN registered' = page[t].mine /\ Goes(t, "decrypt")
     ELSE UNCHANGED registered /\ Ends(t)
  /\ UNCHANGED <<events, openings, matchedFor, kept, copies, browserVars>>

\* Variant for the mutation check: recovery replaces the key only.
Recovered_Nothing(k) == events

\* account-key-recovery.ts:54-98  recoverPositionOpeningEventsForOwner: the
\* positions whose opening can be reconstructed are encrypted once more.
Recovered(k) == events \cup {<<p, k>> : p \in OpenNow \cap kept}

\* account-keys.service.ts:38-63  recover replaces the key and adds the events.
ReplaceKey(k) == registered' = k /\ events' = Recovered(k)

\* account-encryption.ts:72-75, use-trading-data.ts:278-280  The key is
\* recovered and the portfolio is fetched again.
Recover(t) ==
  /\ At(t, "recover") /\ ReplaceKey(page[t].mine)
  /\ Goes(t, "refetch")
  /\ UNCHANGED <<openings, matchedFor, kept, copies, browserVars>>

Refetch(t) ==
  /\ At(t, "refetch") /\ Fetched(t, "decrypt")
  /\ UNCHANGED <<accountVars, browserVars>>

-----------------------------------------------------------------------------
(* decryptRecoverablePrivateOpenings                                        *)

\* account-encryption.ts:140-185, 206-210  What the browser's key opens.
Opens(t) == {p \in Opened : <<p, stored[BrowserOf[t]]>> \in page[t].events}

\* use-trading-data.ts:467-486  hasPrivateOpeningRecoveryAttempt
TriedFor(t, positions) == positions \in attempted[t]

\* use-trading-data.ts:416-418, 449-465, 488-493  The openings are decrypted;
\* if one is missing, and nothing was tried yet for these positions, a new key
\* is made for them.
Decrypt(t) ==
  /\ At(t, "decrypt")
  /\ LET missing == page[t].open \ Opens(t)
         tries == missing # {} /\ page[t].events # {} /\ ~TriedFor(t, page[t].open)
     IN  /\ attempted' = IF tries THEN [attempted EXCEPT ![t] = @ \cup {page[t].open}] ELSE attempted
         /\ page' = [page EXCEPT ![t].at = IF tries THEN "recreate" ELSE "restore",
                                 ![t].got = Opens(t), ![t].events = {}]
  /\ UNCHANGED <<accountVars, stored, created, cutShort>>

\* account-encryption.ts:92-93  recoverAccountEncryptionKey makes a key.
Recreate(t) ==
  /\ At(t, "recreate") /\ NewKey(t)
  /\ page' = [page EXCEPT ![t].at = "rerecover", ![t].mine = created']
  /\ UNCHANGED <<accountVars, attempted, cutShort>>

\* account-encryption.ts:94, use-trading-data.ts:420  ... and has the openings
\* encrypted for it.
Rerecover(t) ==
  /\ At(t, "rerecover") /\ ReplaceKey(page[t].mine)
  /\ Goes(t, "reread")
  /\ UNCHANGED <<openings, matchedFor, kept, copies, browserVars>>

Reread(t) ==
  /\ At(t, "reread") /\ Fetched(t, "redecrypt")
  /\ UNCHANGED <<accountVars, browserVars>>

Redecrypt(t) ==
  /\ At(t, "redecrypt")
  /\ page' = [page EXCEPT ![t].at = "restore", ![t].got = Opens(t), ![t].events = {}]
  /\ UNCHANGED <<accountVars, browserVars>>

\* use-trading-data.ts:428-446, private-note-backup.ts:126-165  What is missing
\* is looked up in the backups, and what was opened is backed up, each
\* position by itself.
Restore(t) ==
  /\ At(t, "restore")
  /\ LET got == page[t].got \cup (page[t].open \cap copies)
     IN  \E done \in SUBSET (got \cap page[t].open) : copies' = copies \cup done
  /\ Ends(t)
  /\ UNCHANGED <<registered, events, openings, matchedFor, kept, browserVars>>

-----------------------------------------------------------------------------
(* What goes wrong.                                                         *)

\* use-trading-data.ts:424-426  The second recovery failed before or after it
\* reached the server: the backups are tried.
RecoveryFails(t) ==
  /\ page[t].at \in {"rerecover", "reread"}
  /\ Goes(t, "restore")
  /\ UNCHANGED <<accountVars, browserVars>>

\* use-trading-data.ts:106-118  A request of the load fails, or is answered
\* after the session ended: the load ends.
LoadFails(t) ==
  /\ page[t].at \in {"ensure", "compare", "create", "register", "recover", "refetch"}
  /\ Ends(t)
  /\ UNCHANGED <<accountVars, browserVars>>

\* The page is reloaded: what it marked in its session storage stays.
Reload(t) ==
  /\ ~At(t, "idle") /\ Ends(t)
  /\ cutShort' = IF At(t, "recreate") THEN cutShort \cup {t} ELSE cutShort
  /\ UNCHANGED <<accountVars, stored, created, attempted>>

\* The data of the site are cleared, in every tab of the browser.
Clear(b) ==
  /\ stored' = [stored EXCEPT ![b] = NoKey]
  /\ attempted' = [t \in Tabs |-> IF BrowserOf[t] = b THEN {} ELSE attempted[t]]
  /\ cutShort' = {t \in cutShort : BrowserOf[t] # b}
  /\ page' = [t \in Tabs |-> IF BrowserOf[t] = b THEN Idle ELSE page[t]]
  /\ UNCHANGED <<accountVars, created>>

-----------------------------------------------------------------------------
(* Batches.                                                                 *)

\* matcher.service.ts:86-105, 141-175  A batch with an order of the trader is
\* matched: the event of the position is encrypted for the key registered
\* now; without one the batch is given up.
MatchPosition(p) ==
  /\ openings[p] = "none" /\ registered # NoKey
  /\ openings' = [openings EXCEPT ![p] = "matched"]
  /\ matchedFor' = [matchedFor EXCEPT ![p] = registered]
  /\ UNCHANGED <<registered, events, kept, copies, browserVars, page>>

\* store.ts:323-361  The batch is settled and committed: the position is open
\* and its event is there.  Whether the server could make the event again
\* depends on the fills that it keeps (account-key-recovery.ts:84-151).
Commit(p) ==
  /\ openings[p] = "matched"
  /\ openings' = [openings EXCEPT ![p] = "open"]
  /\ events' = events \cup {<<p, matchedFor[p]>>}
  /\ matchedFor' = [matchedFor EXCEPT ![p] = NoKey]
  /\ kept' \in {kept, kept \cup {p}}
  /\ UNCHANGED <<registered, copies, browserVars, page>>

\* The position is closed or liquidated.  What the server keeps of it is of no
\* use any more and left out.
ClosePosition(p) ==
  /\ openings[p] = "open"
  /\ openings' = [openings EXCEPT ![p] = "closed"]
  /\ events' = {event \in events : event[1] # p}
  /\ kept' = kept \ {p} /\ copies' = copies \ {p}
  /\ UNCHANGED <<registered, matchedFor, browserVars, page>>

-----------------------------------------------------------------------------
KeysInit ==
  /\ registered = NoKey /\ events = {} /\ kept = {} /\ copies = {}
  /\ openings = [p \in Opened |-> "none"] /\ matchedFor = [p \in Opened |-> NoKey]
  /\ stored = [b \in BrowserSet |-> NoKey] /\ created = 0
  /\ attempted = [t \in Tabs |-> {}] /\ cutShort = {}
  /\ page = [t \in Tabs |-> Idle]

KeysNext ==
  \/ \E t \in Tabs :
       \/ ConnectAccount(t) \/ Load(t) \/ EnsureKey(t) \/ Compare(t) \/ CreateKey(t)
       \/ RegisterKey(t) \/ Recover(t) \/ Refetch(t)
       \/ Decrypt(t) \/ Recreate(t) \/ Rerecover(t) \/ Reread(t) \/ Redecrypt(t) \/ Restore(t)
       \/ RecoveryFails(t) \/ LoadFails(t) \/ Reload(t)
  \/ \E b \in BrowserSet : Clear(b)
  \/ \E p \in Opened : MatchPosition(p) \/ Commit(p) \/ ClosePosition(p)

KeysSpec == KeysInit /\ [][KeysNext]_keyVars

-----------------------------------------------------------------------------
\* No opening is out of reach: whatever keys the tabs and browsers made and
\* registered in whatever order, and whatever key a batch was matched under,
\* the next load of a page that is at rest reads every open position - with
\* the browser's key, with the key it registers because another is, with the
\* recovery it has not tried for these positions, or from a backup.  Except
\* for a page that was reloaded between the mark of its attempt and the new
\* key (use-trading-data.ts:409-446, account-encryption.ts:67-96).
OpeningsInReach ==
  \A t \in Tabs \ cutShort : At(t, "idle") =>
    \A p \in OpenNow \cap kept :
      \/ stored[BrowserOf[t]] # registered
      \/ p \in EventsFor(stored[BrowserOf[t]])
      \/ ~TriedFor(t, OpenNow)
      \/ p \in copies
=============================================================================
