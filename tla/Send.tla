-------------------------------- MODULE Send --------------------------------
(***************************************************************************)
(* A payment: the send tab of the node page (views/node/Send) and behind   *)
(* it the handlers of api/send and the wallet that funds, leases, signs    *)
(* and publishes.                                                          *)
(*                                                                         *)
(* Review has a transaction funded and its coins leased for 90 seconds;    *)
(* Send has it signed and published.  The tab can be left and opened again *)
(* while its requests are under way: they go on, their answers find nobody. *)
(***************************************************************************)
EXTENDS Integers, Sequences, FiniteSets

CONSTANTS
  Addresses, Amounts,  \* what the user may enter
  Coins,               \* the outputs of the wallet
  Empty,               \* an empty field
  Chains,              \* bound: sends under way at once
  MaxPsbts             \* bound: transactions funded

ASSUME SendAssumption ==
  Empty \notin Addresses \cup Amounts /\ MaxPsbts \in Nat \ {0}

VARIABLES
  here,       \* the tab is shown
  form,       \* recipient and amount
  maxing,     \* isCalculatingMax: max-sendable is asked for
  funding,    \* the payment fund-psbt is asked for, and whether its visit goes on
  psbt,       \* the transaction under review, by number; 0: none
  sending,
  done,       \* the transaction reported as sent
  chain,      \* each handleSend under way
  releasing,  \* transactions whose release-psbt is under way
  made,       \* the funded transactions
  lease,      \* the transaction a coin is leased to
  spent,      \* the published transaction that spends a coin
  expired,    \* history: a lease ran out
  touched     \* history: the form changed while a funding or a maximum was awaited

tab == <<here, form, maxing, psbt, sending, done>>
requests == <<funding, chain, releasing>>
wallet == <<made, lease, spent>>
vars == <<tab, requests, wallet, expired, touched>>

Ids == 1..MaxPsbts
Forms == [to : Addresses \cup {Empty}, amount : Amounts \cup {Empty}]
Blank == [to |-> Empty, amount |-> Empty]
NoFunding == [pay |-> Blank, mine |-> FALSE]
Idle == [at |-> "idle", psbt |-> 0, mine |-> FALSE]

TypeOK ==
  /\ here \in BOOLEAN /\ form \in Forms /\ maxing \in BOOLEAN
  /\ funding \in [pay : Forms, mine : BOOLEAN]
  /\ psbt \in 0..Len(made) /\ sending \in BOOLEAN /\ done \in 0..Len(made)
  /\ chain \in [Chains -> [at : {"idle", "finalize", "publish"}, psbt : 0..Len(made),
                           mine : BOOLEAN]]
  /\ releasing \subseteq Ids
  /\ made \in Seq([pay : Forms, coins : SUBSET Coins]) /\ Len(made) <= MaxPsbts
  /\ lease \in [Coins -> 0..Len(made)] /\ spent \in [Coins -> 0..Len(made)]
  /\ expired \in BOOLEAN /\ touched \in BOOLEAN

Init ==
  /\ here = TRUE /\ form = Blank /\ maxing = FALSE /\ funding = NoFunding
  /\ psbt = 0 /\ sending = FALSE /\ done = 0
  /\ chain = [c \in Chains |-> Idle] /\ releasing = {}
  /\ made = <<>> /\ lease = [c \in Coins |-> 0] /\ spent = lease
  /\ expired = FALSE /\ touched = FALSE

-----------------------------------------------------------------------------
(* The form *)

Reviewing == funding.mine
\* The tab's three views are the form, the review and the result.
OnForm == here /\ psbt = 0 /\ done = 0
UnderReview == psbt # 0 /\ done = 0

\* The fields stay open while a review is asked for.
Enter(f) ==
  /\ OnForm /\ form' = f /\ f # form
  /\ touched' = (touched \/ Reviewing)
  /\ UNCHANGED <<here, maxing, psbt, sending, done, requests, wallet, expired>>

SetAddress(a) == Enter([form EXCEPT !.to = a])
SetAmount(a) == ~maxing /\ Enter([form EXCEPT !.amount = a])

\* The available balance is clicked; neither it nor Review disables the other.
AskMax ==
  /\ OnForm /\ ~maxing /\ form.to # Empty /\ maxing' = TRUE
  /\ touched' = (touched \/ Reviewing)
  /\ UNCHANGED <<here, form, psbt, sending, done, requests, wallet, expired>>

\* The maximum is written over the amount, on whatever page the tab shows by now.
MaxAnswered ==
  /\ maxing /\ maxing' = FALSE
  /\ \E a \in Amounts \cup {form.amount} : form' = [form EXCEPT !.amount = a]
  /\ UNCHANGED <<here, psbt, sending, done, requests, wallet, expired, touched>>

\* handleReview.  Bound: one funding at a time, the one of an earlier visit included.
HandleReview ==
  /\ OnForm /\ form.to # Empty /\ form.amount # Empty /\ funding = NoFunding
  /\ Len(made) < MaxPsbts
  /\ funding' = [pay |-> form, mine |-> TRUE]
  /\ touched' = (touched \/ maxing)
  /\ UNCHANGED <<tab, chain, releasing, wallet, expired>>

-----------------------------------------------------------------------------
(* fund-psbt and the review *)

Free == {c \in Coins : lease[c] = 0 /\ spent[c] = 0}

\* The wallet leases the coins it picks; the answer, unless it is lost, opens the review if
\* its visit goes on.
Funded(coins) ==
  /\ funding # NoFunding /\ coins # {} /\ coins \subseteq Free
  /\ made' = Append(made, [pay |-> funding.pay, coins |-> coins])
  /\ lease' = [c \in Coins |-> IF c \in coins THEN Len(made') ELSE lease[c]]
  /\ psbt' \in {psbt, IF Reviewing THEN Len(made') ELSE psbt}
  /\ funding' = NoFunding
  /\ UNCHANGED <<here, form, maxing, sending, done, chain, releasing, spent, expired, touched>>

\* Too few coins, a bad address, no node.
FundFails ==
  /\ funding # NoFunding /\ funding' = NoFunding
  /\ UNCHANGED <<tab, chain, releasing, wallet, expired, touched>>

\* Mutant: going back ends the wait for the send as well.
HandleRelease_Unblocks ==
  /\ here /\ UnderReview
  /\ releasing' = releasing \cup {psbt} /\ psbt' = 0 /\ sending' = FALSE
  /\ UNCHANGED <<here, form, maxing, done, funding, chain, wallet, expired, touched>>

\* handleRelease: the arrow back, which a send under way does not disable.
HandleRelease ==
  /\ here /\ UnderReview
  /\ releasing' = releasing \cup {psbt} /\ psbt' = 0
  /\ UNCHANGED <<here, form, maxing, sending, done, funding, chain, wallet, expired, touched>>

Unlease(i) == [c \in Coins |-> IF c \in made[i].coins THEN 0 ELSE lease[c]]

\* release-psbt names outputs, whoever leases them now; its failure is ignored.
Released(i) ==
  /\ i \in releasing /\ releasing' = releasing \ {i}
  /\ lease' \in {lease, Unlease(i)}
  /\ UNCHANGED <<tab, funding, chain, made, spent, expired, touched>>

\* The 90 seconds of a lease are over.
Expire(c) ==
  /\ lease[c] # 0 /\ lease' = [lease EXCEPT ![c] = 0] /\ expired' = TRUE
  /\ UNCHANGED <<tab, requests, made, spent, touched>>

-----------------------------------------------------------------------------
(* handleSend *)

HandleSend(n) ==
  /\ here /\ UnderReview /\ ~sending /\ chain[n] = Idle
  /\ sending' = TRUE
  /\ chain' = [chain EXCEPT ![n] = [at |-> "finalize", psbt |-> psbt, mine |-> TRUE]]
  /\ UNCHANGED <<here, form, maxing, psbt, done, funding, releasing, wallet, expired, touched>>

Finalized(n) ==
  /\ chain[n].at = "finalize" /\ chain' = [chain EXCEPT ![n].at = "publish"]
  /\ UNCHANGED <<tab, funding, releasing, wallet, expired, touched>>

\* The finally of handleSend.
EndChain(n) ==
  /\ chain' = [chain EXCEPT ![n] = Idle]
  /\ sending' = (sending /\ ~chain[n].mine)

\* A coin another published transaction spends refuses a publication; the same
\* transaction may be published again.
Publishable(i) == \A c \in made[i].coins : spent[c] \in {0, i}
Spend(i) ==
  /\ spent' = [c \in Coins |-> IF c \in made[i].coins THEN i ELSE spent[c]]
  /\ lease' = Unlease(i) /\ UNCHANGED made

\* The result is shown whatever the tab shows by now.
Published(n) ==
  /\ chain[n].at = "publish" /\ Publishable(chain[n].psbt) /\ Spend(chain[n].psbt)
  /\ done' = IF chain[n].mine THEN chain[n].psbt ELSE done
  /\ EndChain(n)
  /\ UNCHANGED <<here, form, maxing, psbt, funding, releasing, expired, touched>>

\* Mutant: a failed send gives its coins back although the review stays.
SendFails_Releases(n) ==
  /\ chain[n].at # "idle" /\ EndChain(n)
  /\ releasing' = releasing \cup {chain[n].psbt}
  /\ UNCHANGED <<here, form, maxing, psbt, done, funding, wallet, expired, touched>>

\* Either call fails, or its answer is lost after the publication; the review stays.
SendFails(n) ==
  /\ chain[n].at # "idle" /\ EndChain(n)
  /\ \/ UNCHANGED wallet
     \/ chain[n].at = "publish" /\ Publishable(chain[n].psbt) /\ Spend(chain[n].psbt)
  /\ UNCHANGED <<here, form, maxing, psbt, done, funding, releasing, expired, touched>>

\* Mutant: the form is emptied and the transaction stays under review.
Reset_KeepsReview ==
  /\ here /\ done # 0 /\ done' = 0 /\ form' = Blank
  /\ touched' = (touched \/ Reviewing)
  /\ UNCHANGED <<here, maxing, psbt, sending, funding, chain, releasing, wallet, expired>>

\* Continue, under the result.
Reset ==
  /\ here /\ done # 0 /\ done' = 0 /\ form' = Blank
  /\ releasing' = IF psbt = 0 THEN releasing ELSE releasing \cup {psbt}
  /\ psbt' = 0 /\ touched' = (touched \/ Reviewing)
  /\ UNCHANGED <<here, maxing, sending, funding, chain, wallet, expired>>

-----------------------------------------------------------------------------
(* The tab is left and opened again *)

\* The release of the unmount has no token: the API refuses it and the coins stay leased.
Leave ==
  /\ here /\ here' = FALSE /\ form' = Blank /\ maxing' = FALSE
  /\ psbt' = 0 /\ sending' = FALSE /\ done' = 0
  /\ funding' = [funding EXCEPT !.mine = FALSE]
  /\ chain' = [n \in Chains |-> [chain[n] EXCEPT !.mine = FALSE]]
  /\ UNCHANGED <<releasing, wallet, expired, touched>>

Open ==
  /\ ~here /\ here' = TRUE
  /\ UNCHANGED <<form, maxing, psbt, sending, done, requests, wallet, expired, touched>>

ChainStep(n) == Finalized(n) \/ Published(n) \/ SendFails(n)

Next ==
  \/ \E a \in Addresses \cup {Empty} : SetAddress(a)
  \/ \E a \in Amounts \cup {Empty} : SetAmount(a)
  \/ AskMax \/ MaxAnswered \/ HandleReview \/ FundFails
  \/ \E coins \in SUBSET Coins : Funded(coins)
  \/ HandleRelease \/ Reset \/ Leave \/ Open
  \/ \E i \in Ids : Released(i)
  \/ \E c \in Coins : Expire(c)
  \/ \E n \in Chains : HandleSend(n) \/ ChainStep(n)

Spec == Init /\ [][Next]_vars

-----------------------------------------------------------------------------
(* Safety *)

\* For a user who touches nothing while a request is under way, the review names the
\* recipient and the amount of the transaction that Send would publish.
ShownAsFunded == UnderReview /\ ~touched => form = made[psbt].pay

\* Send is disabled exactly while a payment of this visit is under way, also when the
\* user went back and reviews another: no second payment starts before the first is told.
OnePaymentAtATime ==
  /\ sending = (\E n \in Chains : chain[n].mine)
  /\ \A m, n \in Chains : chain[m].mine /\ chain[n].mine => m = n

\* As long as no lease ran out the coins under review are leased to it, so that no other
\* funding takes them, whatever is released meanwhile; only a payment that was already
\* confirmed may have spent them.
ReviewHoldsCoins ==
  UnderReview /\ ~expired =>
    \A c \in made[psbt].coins : lease[c] = psbt \/ spent[c] # 0

-----------------------------------------------------------------------------
(* A statement of the repository that the code does not keep *)

\* Send.tsx: "Auto-release locks on unmount if we haven't sent".
LeaveReleases ==
  [][psbt # 0 /\ ~here' => psbt \in releasing' \/ \A c \in made[psbt].coins : spent[c] = psbt]_vars
=============================================================================
