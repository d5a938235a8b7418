------------------------------ MODULE Notices -------------------------------
(***************************************************************************)
(* The notices of the window: the one toast every page shows (useToast,    *)
(* Toaster), and the hook of the node page that turns a new payment into   *)
(* one (useNotifyIncoming).  The hook sees the wallet through SWR's cache  *)
(* of GET /api/transactions, which outlives the page and the node.         *)
(*                                                                         *)
(* An answer is the list of handleTransactions: unconfirmed transactions   *)
(* first, then the others, the newest first.  Bound: a block confirms one  *)
(* transaction of the wallet and is not taken back, so that lists differ   *)
(* only at their head.                                                     *)
(***************************************************************************)
EXTENDS Integers, Sequences, SequencesExt

CONSTANTS
  Wallets,      \* the wallets of the nodes that may be opened
  Txs,          \* bound: transactions
  Owner,        \* the wallet each is of
  Incoming,     \* those that pay the wallet
  None,         \* no wallet runs; no hash; a toast about something else
  NoData,       \* nothing fetched yet; no answer on its way
  TOAST_LIMIT,
  MaxToasts     \* bound: toasts

ASSUME NoticesAssumption ==
  /\ Incoming \subseteq Txs /\ Owner \in [Txs -> Wallets] /\ None \notin Wallets \cup Txs
  /\ TOAST_LIMIT \in Nat \ {0} /\ MaxToasts \in Nat

VARIABLES
  open,       \* the wallet of the node that runs
  ready,      \* it is unlocked
  pool,       \* a wallet's unconfirmed transactions
  mined,      \* a wallet's confirmed transactions, the newest first
  here,       \* the node page is shown
  prevHash,   \* the hook's reference
  cache,      \* SWR's entry
  answer,     \* the answer on its way
  toasts,     \* memoryState: the newest first
  dismissing, \* toasts whose own timer runs
  removing,   \* toastTimeouts
  count,      \* ids given
  old,        \* history: what was confirmed by the list prevHash was taken from
  switched    \* history: another wallet than the one in the cache was opened

wallet == <<open, ready, pool, mined>>
hook == <<here, prevHash, cache, answer>>
store == <<toasts, dismissing, removing, count>>
vars == <<wallet, hook, store, old, switched>>

Ids == 1..MaxToasts
Lists == [waiting : BOOLEAN, mined : Seq(Txs)]
Shown == {toasts[i].id : i \in DOMAIN toasts}

TypeOK ==
  /\ open \in Wallets \cup {None} /\ ready \in BOOLEAN
  /\ pool \in [Wallets -> SUBSET Txs] /\ mined \in [Wallets -> Seq(Txs)]
  /\ here \in BOOLEAN /\ prevHash \in Incoming \cup {None}
  /\ cache \in Lists \cup {NoData} /\ answer \in Lists \cup {NoData}
  /\ toasts \in Seq([id : 1..count, about : Incoming \cup {None}, open : BOOLEAN])
  /\ Len(toasts) <= TOAST_LIMIT
  /\ dismissing \subseteq 1..count /\ removing \subseteq 1..count /\ count \in 0..MaxToasts
  /\ old \subseteq Txs /\ switched \in BOOLEAN

Init ==
  /\ open = None /\ ready = FALSE
  /\ pool = [w \in Wallets |-> {}] /\ mined = [w \in Wallets |-> <<>>]
  /\ here = FALSE /\ prevHash = None /\ cache = NoData /\ answer = NoData
  /\ toasts = <<>> /\ dismissing = {} /\ removing = {} /\ count = 0
  /\ old = {} /\ switched = FALSE

-----------------------------------------------------------------------------
(* The store of the toasts *)

\* Mutant: the list is cut before the new toast is put in front.
Add_CutsFirst(what) ==
  /\ count < MaxToasts /\ count' = count + 1
  /\ LET kept == SubSeq(toasts, 1, IF Len(toasts) < TOAST_LIMIT THEN Len(toasts) ELSE TOAST_LIMIT)
     IN toasts' = <<[id |-> count', about |-> what, open |-> TRUE]>> \o kept
  /\ dismissing' = dismissing \cup {count'}
  /\ UNCHANGED removing

\* toast(): a new id, the toast in front of those the limit keeps, and its own timer.
Add(what) ==
  /\ count < MaxToasts /\ count' = count + 1
  /\ LET all == <<[id |-> count', about |-> what, open |-> TRUE]>> \o toasts
     IN toasts' = SubSeq(all, 1, IF Len(all) < TOAST_LIMIT THEN Len(all) ELSE TOAST_LIMIT)
  /\ dismissing' = dismissing \cup {count'}
  /\ UNCHANGED removing

\* Mutant: one removal at a time.
Dismiss_OneTimer(i) ==
  /\ removing' = IF removing = {} THEN {i} ELSE removing
  /\ toasts' = [k \in DOMAIN toasts |->
                  IF toasts[k].id = i THEN [toasts[k] EXCEPT !.open = FALSE] ELSE toasts[k]]
  /\ UNCHANGED count

\* DISMISS_TOAST and addToRemoveQueue, also for a toast the limit has dropped.
Dismiss(i) ==
  /\ removing' = removing \cup {i}
  /\ toasts' = [k \in DOMAIN toasts |->
                  IF toasts[k].id = i THEN [toasts[k] EXCEPT !.open = FALSE] ELSE toasts[k]]
  /\ UNCHANGED count

DismissTimeout(i) ==
  /\ i \in dismissing /\ dismissing' = dismissing \ {i} /\ Dismiss(i)
  /\ UNCHANGED <<wallet, hook, old, switched>>

\* onOpenChange: the cross, a swipe, or the toast component's own timer.
Close(i) ==
  /\ \E k \in DOMAIN toasts : toasts[k].id = i /\ toasts[k].open
  /\ Dismiss(i)
  /\ UNCHANGED <<wallet, hook, dismissing, old, switched>>

\* REMOVE_TOAST; no two toasts have the same id.
RemoveToast(i) ==
  /\ i \in removing /\ removing' = removing \ {i}
  /\ \/ i \notin Shown /\ UNCHANGED toasts
     \/ \E k \in DOMAIN toasts : toasts[k].id = i /\ toasts' = RemoveAt(toasts, k)
  /\ UNCHANGED <<wallet, hook, dismissing, count, old, switched>>

\* A handler of any page tells of an error or a success.
ToastOther == Add(None) /\ UNCHANGED <<wallet, hook, old, switched>>

-----------------------------------------------------------------------------
(* useNotifyIncoming *)

\* The effect acts on a list that begins with a confirmed payment.
Notable(l) == l # NoData /\ ~l.waiting /\ l.mined # <<>> /\ Head(l.mined) \in Incoming

\* What was confirmed by the time of a list: its own wallet's, and every other's.
Confirmed(l) ==
  UNION {s \in {ToSet(l.mined)} \cup {ToSet(mined[w]) : w \in Wallets} :
           Head(l.mined) \notin s \/ s = ToSet(l.mined)}

\* Mutant: the hash is kept only when there was none.
Notify_KeepsFirst(prev, l) ==
  IF ~Notable(l) THEN prevHash' = prev /\ UNCHANGED <<store, old>>
  ELSE /\ prevHash' = IF prev = None THEN Head(l.mined) ELSE prev
       /\ old' = Confirmed(l)
       /\ IF prev \notin {None, Head(l.mined)} THEN Add(Head(l.mined)) ELSE UNCHANGED store

\* The effect, on the list l with the reference prev.
Notify(prev, l) ==
  IF ~Notable(l) THEN prevHash' = prev /\ UNCHANGED <<store, old>>
  ELSE /\ prevHash' = Head(l.mined)
       /\ old' = Confirmed(l)
       /\ IF prev \notin {None, Head(l.mined)} THEN Add(Head(l.mined)) ELSE UNCHANGED store

\* The page mounts: its hook begins with what the cache holds.
Mount ==
  /\ ~here /\ open # None /\ here' = TRUE
  /\ Notify(None, cache)
  /\ UNCHANGED <<wallet, cache, answer, switched>>

Leave ==
  /\ here /\ here' = FALSE /\ prevHash' = None
  /\ UNCHANGED <<wallet, cache, answer, store, old, switched>>

\* handleTransactions; of a locked wallet the list is empty.
List ==
  IF ~ready THEN [waiting |-> FALSE, mined |-> <<>>]
  ELSE [waiting |-> pool[open] # {}, mined |-> mined[open]]

\* Asked for by the page that mounts, a tx event and a focus of the window; an answer
\* equal to the entry changes nothing.
Fetch ==
  /\ here /\ answer = NoData /\ List # cache /\ answer' = List
  /\ UNCHANGED <<wallet, here, prevHash, cache, store, old, switched>>

\* SWR keeps the answer for whoever reads the entry next.
Fetched ==
  /\ answer # NoData /\ answer' = NoData /\ cache' = answer
  /\ IF here THEN Notify(prevHash, answer)
       ELSE UNCHANGED <<prevHash, store, old>>
  /\ UNCHANGED <<wallet, here, switched>>

-----------------------------------------------------------------------------
(* The wallets: flnd *)

\* Another node is started, from its own page.
Opens(w) ==
  /\ ~here /\ open # w /\ open' = w /\ ready' = FALSE
  /\ switched' = (switched \/ cache # NoData \/ answer # NoData)
  /\ UNCHANGED <<pool, mined, hook, store, old>>

\* The wallet is unlocked, or locked with a restart of its node.
Turns ==
  /\ open # None /\ ready' = ~ready
  /\ UNCHANGED <<open, pool, mined, hook, store, old, switched>>

Appears(t) ==
  LET w == Owner[t]
  IN /\ t \notin pool[w] \cup ToSet(mined[w])
     /\ pool' = [pool EXCEPT ![w] = @ \cup {t}]
     /\ UNCHANGED <<open, ready, mined, hook, store, old, switched>>

Confirms(t) ==
  LET w == Owner[t]
  IN /\ t \in pool[w] /\ pool' = [pool EXCEPT ![w] = @ \ {t}]
     /\ mined' = [mined EXCEPT ![w] = <<t>> \o @]
     /\ UNCHANGED <<open, ready, hook, store, old, switched>>

Next ==
  \/ ToastOther \/ Mount \/ Leave \/ Fetch \/ Fetched \/ Turns
  \/ \E i \in Ids : DismissTimeout(i) \/ Close(i) \/ RemoveToast(i)
  \/ \E w \in Wallets : Opens(w)
  \/ \E t \in Txs : Appears(t) \/ Confirms(t)

Spec == Init /\ [][Next]_vars

\* Timers run out.
LiveSpec ==
  Spec /\ \A i \in Ids : WF_vars(DismissTimeout(i)) /\ WF_vars(RemoveToast(i))

-----------------------------------------------------------------------------
(* Safety and liveness *)

Announces(p) == count' # count /\ toasts'[1].about = p

\* A notice is news: the payment was not in the list the hook knew, not even behind its
\* head, for a user who stays with one node.
FreshNotice == [][\A p \in Incoming : ~switched /\ Announces(p) => p \notin old]_vars

\* No toast stays: each leaves the screen, and the queue, whatever dismissed it and
\* whichever toast came after it.
ToastEnds == \A i \in Ids : i \in Shown \cup removing ~> i \notin Shown \cup removing

-----------------------------------------------------------------------------
(* A statement of the repository that the code does not keep *)

\* useNotifyIncoming.ts: "toasts when a new incoming payment is detected".
NoOldNotice == [][\A p \in Incoming : Announces(p) => p \notin old]_vars
=============================================================================
