------------------------------ MODULE WebReads ------------------------------
(***************************************************************************)
(* What the pages show: lib/use-my-activity.ts (a page's lists of the      *)
(* wallet's own bounties and attempts), lib/use-contract-read.ts and       *)
(* components/layout/NotificationBell.tsx, with the API's                  *)
(* routes/notifications.ts behind the bell.                                *)
(*                                                                         *)
(* The wallet's account may change while calls are under way, and answers  *)
(* come in any order.  A hook reads once for each key, the account of the  *)
(* lists or the number of the refetch of a contract view; the bell reads   *)
(* on a timer, and keeps no track of the readings it has superseded.       *)
(***************************************************************************)
EXTENDS Integers, Sequences, FiniteSets, SequencesExt

CONSTANTS
    Account,
    NoAccount,      \* no wallet is connected
    Limit,          \* notifications one answer lists
    MaxNotifications, MaxChanges, MaxRefreshes, MaxMarks
                    \* bounds: notifications; changes of account and refetches; refreshes
                    \* and marks under way

ASSUME ReadsAssumption == NoAccount \notin Account

VARIABLES
    account,        \* of the wallet
    changes,        \* changes of account and refetches so far
    nonce,          \* of the contract view
    hooks,          \* state of each hook: what it shows is of which key
    readings,       \* runs of the hooks' effects that are under way
    notifications,  \* server: [to, read] of each, the oldest first
    refreshes,      \* the bell's: asked for, or answered
    marks,          \* the bell's: what was marked as read and is to be shown so
    items,          \* state of the bell: notifications it lists, each read or not
    unreadCount

readsVars == <<account, changes, nonce, hooks, readings, notifications, refreshes, marks,
               items, unreadCount>>
hookVars == <<changes, nonce, hooks, readings>>
bellVars == <<notifications, refreshes, marks, items, unreadCount>>

Hook == {"activity", "contract"}

\* The page of a contract view is open from the beginning, the lists have no account.
ReadsInit ==
    /\ account = NoAccount
    /\ changes = 0
    /\ nonce = 0
    /\ hooks = [h \in Hook |-> [of |-> NoAccount, isLoading |-> FALSE, error |-> FALSE]]
    /\ readings = <<>>
    /\ notifications = <<>>
    /\ refreshes = <<>>
    /\ marks = <<>>
    /\ items = {}
    /\ unreadCount = 0

-----------------------------------------------------------------------------
(* The hooks.                                                              *)

CancelAll(h) ==
    [k \in DOMAIN readings |->
        IF readings[k].hook = h THEN [readings[k] EXCEPT !.cancelled = TRUE] ELSE readings[k]]

\* The effect: the old run is cancelled and a new one starts, the lists with the API
\* and the view with the contract.
StartReading(h, of) ==
    /\ readings' = Append(CancelAll(h), [hook |-> h, of |-> of, cancelled |-> FALSE,
                                         from |-> IF h = "activity" THEN "api" ELSE "contract"])
    /\ hooks' = [hooks EXCEPT ![h].isLoading = TRUE, ![h].error = FALSE]

CountChange == changes < MaxChanges /\ changes' = changes + 1

\* Without an account there is no run, and what was shown is left as it is.
ChangeAccount(a) ==
    /\ CountChange
    /\ a # account /\ account' = a
    /\ IF a = NoAccount
       THEN readings' = CancelAll("activity") /\ UNCHANGED hooks
       ELSE StartReading("activity", a)
    /\ UNCHANGED <<nonce, bellVars>>

Refetch ==
    /\ CountChange
    /\ nonce' = nonce + 1
    /\ StartReading("contract", nonce')
    /\ UNCHANGED <<account, bellVars>>

\* Mutant: a run that was cancelled still writes the state.
NeverCancelled(reading) == FALSE

Cancelled(reading) == reading.cancelled

\* The API fails, and the contract is read instead.
FallBack(k) ==
    /\ readings[k].from = "api"
    /\ readings' = [readings EXCEPT ![k].from = "contract"]
    /\ UNCHANGED <<account, changes, nonce, hooks, bellVars>>

EndReading(k, state) ==
    /\ readings' = RemoveAt(readings, k)
    /\ hooks' = IF Cancelled(readings[k]) THEN hooks ELSE [hooks EXCEPT ![readings[k].hook] = state]
    /\ UNCHANGED <<account, changes, nonce, bellVars>>

Read(k) ==
    EndReading(k, [hooks[readings[k].hook] EXCEPT !.of = readings[k].of, !.isLoading = FALSE])

ReadFails(k) ==
    /\ readings[k].from = "contract"
    /\ EndReading(k, [hooks[readings[k].hook] EXCEPT !.isLoading = FALSE, !.error = TRUE])

-----------------------------------------------------------------------------
(* The bell and the notifications it reads.                                *)

Notify(a) ==
    /\ Len(notifications) < MaxNotifications
    /\ notifications' = Append(notifications, [to |-> a, read |-> FALSE])
    /\ UNCHANGED <<account, hookVars, refreshes, marks, items, unreadCount>>

Unread(a) == {n \in DOMAIN notifications : notifications[n].to = a /\ ~notifications[n].read}

Newest(set) == {n \in set : Cardinality({m \in set : m > n}) < Limit}

\* GET /notifications: the query says unreadOnly=false, which is coerced to TRUE like
\* any text that is not empty.  Unread ones are counted whether they are listed or not.
Listing(a) ==
    [items |-> {[id |-> n, read |-> FALSE] : n \in Newest(Unread(a))},
     unreadCount |-> Cardinality(Unread(a))]

\* The timer, of the account it was started for; another call may be under way.
Refresh ==
    /\ account # NoAccount
    /\ Len(refreshes) < MaxRefreshes
    /\ refreshes' = Append(refreshes, [of |-> account, answered |-> FALSE])
    /\ UNCHANGED <<account, hookVars, notifications, marks, items, unreadCount>>

AnswerRefresh(k) ==
    /\ ~refreshes[k].answered
    /\ refreshes' = [refreshes EXCEPT ![k] = [answered |-> TRUE, listing |-> Listing(@.of)]]
    /\ UNCHANGED <<account, hookVars, notifications, marks, items, unreadCount>>

ShowRefresh(k) ==
    /\ refreshes[k].answered
    /\ refreshes' = RemoveAt(refreshes, k)
    /\ items' = refreshes[k].listing.items
    /\ unreadCount' = refreshes[k].listing.unreadCount
    /\ UNCHANGED <<account, hookVars, notifications, marks>>

RefreshFails(k) ==
    /\ refreshes' = RemoveAt(refreshes, k)
    /\ UNCHANGED <<account, hookVars, notifications, marks, items, unreadCount>>

\* POST .../read and /notifications/read-all.  The bell does not look at the answer,
\* so it goes on whether the server did it or refused; it stops when there is none.
Mark(ids, mark) ==
    /\ account # NoAccount
    /\ Len(marks) < MaxMarks
    /\ notifications' \in {notifications,
                           [n \in DOMAIN notifications |->
                              IF n \in ids THEN [notifications[n] EXCEPT !.read = TRUE]
                              ELSE notifications[n]]}
    /\ marks' \in {marks, Append(marks, mark)}
    /\ UNCHANGED <<account, hookVars, refreshes, items, unreadCount>>

ClickItem(item) == ~item.read /\ Mark({item.id}, item.id)

\* All of the account's, those the bell has not listed included.
MarkAllRead == unreadCount > 0 /\ Mark(Unread(account), 0)

ShowMark(k) ==
    LET mark == marks[k] IN
    /\ marks' = RemoveAt(marks, k)
    /\ items' = {IF mark \in {0, item.id} THEN [item EXCEPT !.read = TRUE] ELSE item : item \in items}
    /\ unreadCount' = IF mark = 0 \/ unreadCount = 0 THEN 0 ELSE unreadCount - 1
    /\ UNCHANGED <<account, hookVars, notifications, refreshes>>

-----------------------------------------------------------------------------
\* What the user and the rest of the world do, and calls that fail.
Disturb ==
    \/ \E a \in Account \cup {NoAccount} : ChangeAccount(a)
    \/ Refetch
    \/ \E a \in Account : Notify(a)
    \/ \E item \in items : ClickItem(item)
    \/ MarkAllRead
    \/ \E k \in DOMAIN readings : FallBack(k) \/ ReadFails(k)
    \/ \E k \in DOMAIN refreshes : RefreshFails(k)

Answer ==
    \/ \E k \in DOMAIN readings : Read(k)
    \/ \E k \in DOMAIN refreshes : AnswerRefresh(k) \/ ShowRefresh(k)
    \/ \E k \in DOMAIN marks : ShowMark(k)

ReadsNext == Disturb \/ Refresh \/ Answer

\* The timer runs, and calls end at some time, in any order.
ReadsFairness ==
    /\ WF_readsVars(Refresh)
    /\ WF_readsVars(\E k \in DOMAIN readings : Read(k))
    /\ WF_readsVars(\E k \in DOMAIN refreshes : AnswerRefresh(k))
    /\ WF_readsVars(\E k \in DOMAIN refreshes : ShowRefresh(k))
    /\ WF_readsVars(\E k \in DOMAIN marks : ShowMark(k))

-----------------------------------------------------------------------------
Shows(h, of) == hooks[h].error \/ hooks[h].of = of

Shown ==
    /\ \A h \in Hook : ~hooks[h].isLoading
    /\ Shows("activity", account)
    /\ nonce > 0 => Shows("contract", nonce)
    /\ items = Listing(account).items /\ unreadCount = Listing(account).unreadCount

\* When the user and the world rest and calls are answered, what the pages show
\* becomes what the current account and the last refetch ask for, or an error, and
\* stays so: answers that come late, for another account or an older listing, do not
\* last.  (Until then the bell may show another account's.  A refresh that fails is
\* no different from one that brings what is shown already.)
ShownBecomesCurrent ==
    <>[][Disturb => Answer]_readsVars => <>[](account = NoAccount \/ Shown)

=============================================================================
