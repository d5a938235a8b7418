----------------------------- MODULE SendProofs ------------------------------
(* Proofs about Send: for any coins, amounts, sends and funded transactions. *)
EXTENDS Send, TLAPS

\* A transaction is funded only while there is room for it; a send has a transaction.
FundingHasRoom == funding # NoFunding => Len(made) < MaxPsbts
ChainHasPsbt == \A n \in Chains : chain[n].at # "idle" => chain[n].psbt # 0

\* What a funding does to the list of transactions.
LEMMA AppendFunded ==
  ASSUME NEW S, NEW s \in Seq(S), NEW x \in S
  PROVE  /\ Append(s, x) \in Seq(S) /\ Len(Append(s, x)) = Len(s) + 1
         /\ \A i \in 1..Len(s) : Append(s, x)[i] = s[i]
         /\ Append(s, x)[Len(s) + 1] = x
  OBVIOUS

\* What a list of transactions holds.
LEMMA ElementOf ==
  ASSUME NEW S, NEW s \in Seq(S), NEW i \in 1..Len(s)
  PROVE  s[i] \in S
  OBVIOUS

\* A coin is not a leased one after Unlease, or is leased as before.
LEMMA UnleaseType ==
  ASSUME TypeOK, NEW i
  PROVE  Unlease(i) \in [Coins -> 0..Len(made)]
  BY DEF TypeOK, Unlease

\* What is written into a field of a send or of a funding.
LEMMA SetAt ==
  ASSUME NEW A, NEW P, NEW r \in [at : A, psbt : P, mine : BOOLEAN], NEW a \in A
  PROVE  [r EXCEPT !.at = a] = [at |-> a, psbt |-> r.psbt, mine |-> r.mine]
  OBVIOUS

LEMMA SetMine ==
  ASSUME NEW A, NEW P, NEW r \in [at : A, psbt : P, mine : BOOLEAN]
  PROVE  [r EXCEPT !.mine = FALSE] = [at |-> r.at, psbt |-> r.psbt, mine |-> FALSE]
<1> DEFINE no == FALSE
<1>1. no \in BOOLEAN
  OBVIOUS
<1>2. [r EXCEPT !.mine = no] = [at |-> r.at, psbt |-> r.psbt, mine |-> no]
  <2> HIDE DEF no
  <2> QED BY <1>1
<1> QED BY <1>2

LEMMA SetFunding ==
  ASSUME NEW F, NEW s \in [pay : F, mine : BOOLEAN]
  PROVE  [s EXCEPT !.mine = FALSE] = [pay |-> s.pay, mine |-> FALSE]
<1> DEFINE no == FALSE
<1>1. no \in BOOLEAN
  OBVIOUS
<1>2. [s EXCEPT !.mine = no] = [pay |-> s.pay, mine |-> no]
  <2> HIDE DEF no
  <2> QED BY <1>1
<1> QED BY <1>2

-----------------------------------------------------------------------------
(* Types *)

TypeInv == TypeOK /\ FundingHasRoom /\ ChainHasPsbt

\* Every step keeps the types: a transaction that is named has been made.
LEMMA TypeStep == TypeInv /\ [Next]_vars => TypeInv'
<1> SUFFICES ASSUME TypeInv, [Next]_vars PROVE TypeInv'
  OBVIOUS
<1> USE SendAssumption DEF TypeInv, TypeOK, FundingHasRoom, ChainHasPsbt
<1> USE DEF Forms, Blank, NoFunding, Idle, Ids
<1> DEFINE Payments == [pay : Forms, coins : SUBSET Coins]
<1>1. ASSUME NEW f \in Forms, Enter(f) PROVE TypeInv'
  BY <1>1 DEF Enter, OnForm, Reviewing, requests, wallet
<1>2. ASSUME NEW a \in Addresses \cup {Empty}, SetAddress(a) PROVE TypeInv'
  <2>1. [form EXCEPT !.to = a] \in Forms
    OBVIOUS
  <2> QED BY <1>1, <1>2, <2>1 DEF SetAddress
<1>3. ASSUME NEW a \in Amounts \cup {Empty}, SetAmount(a) PROVE TypeInv'
  <2>1. [form EXCEPT !.amount = a] \in Forms
    OBVIOUS
  <2> QED BY <1>1, <1>3, <2>1 DEF SetAmount
<1>4. CASE AskMax
  BY <1>4 DEF AskMax, OnForm, Reviewing, requests, wallet
<1>5. CASE MaxAnswered
  BY <1>5 DEF MaxAnswered, requests, wallet
<1>6. CASE HandleReview
  BY <1>6 DEF HandleReview, OnForm, tab, wallet
<1>7. CASE FundFails
  BY <1>7 DEF FundFails, tab, wallet
<1>8. ASSUME NEW coins \in SUBSET Coins, Funded(coins) PROVE TypeInv'
  <2>1. [pay |-> funding.pay, coins |-> coins] \in Payments
    OBVIOUS
  <2>2. made' \in Seq(Payments) /\ Len(made') = Len(made) + 1
    BY <1>8, <2>1, AppendFunded DEF Funded
  <2>3. Len(made') <= MaxPsbts /\ Len(made) \in Nat
    BY <1>8, <2>2 DEF Funded
  <2>4. lease' \in [Coins -> 0..Len(made')] /\ psbt' \in 0..Len(made')
    BY <1>8, <2>2, <2>3 DEF Funded
  <2> QED BY <1>8, <2>2, <2>3, <2>4 DEF Funded
<1>9. CASE HandleRelease
  BY <1>9 DEF HandleRelease, UnderReview, wallet
<1>10. CASE Reset
  BY <1>10 DEF Reset, Reviewing, wallet
<1>11. CASE Leave
  <2>1. funding' = [pay |-> funding.pay, mine |-> FALSE] /\ funding.pay \in Forms
    BY <1>11, SetFunding DEF Leave
  <2>2. funding = NoFunding => funding' = NoFunding
    BY <2>1
  <2>3. chain' = [n \in Chains |->
                    [at |-> chain[n].at, psbt |-> chain[n].psbt, mine |-> FALSE]]
    <3>1. \A n \in Chains : [chain[n] EXCEPT !.mine = FALSE]
                             = [at |-> chain[n].at, psbt |-> chain[n].psbt, mine |-> FALSE]
      <4> SUFFICES ASSUME NEW n \in Chains
                   PROVE  [chain[n] EXCEPT !.mine = FALSE]
                            = [at |-> chain[n].at, psbt |-> chain[n].psbt, mine |-> FALSE]
        OBVIOUS
      <4>1. chain[n] \in [at : {"idle", "finalize", "publish"}, psbt : 0..Len(made),
                          mine : BOOLEAN]
        OBVIOUS
      <4> QED BY ONLY <4>1, SetMine
    <3> QED BY <1>11, <3>1 DEF Leave
  <2>4. Blank \in Forms
    OBVIOUS
  <2> HIDE DEF Forms, Blank, NoFunding
  <2>5. chain' \in [Chains -> [at : {"idle", "finalize", "publish"}, psbt : 0..Len(made),
                              mine : BOOLEAN]]
    BY <2>3
  <2>6. ChainHasPsbt'
    BY <2>3
  <2>7. funding' \in [pay : Forms, mine : BOOLEAN]
    BY <2>1
  <2>8. UNCHANGED <<releasing, wallet, expired, touched>> /\ here' = FALSE /\ form' = Blank
        /\ maxing' = FALSE /\ psbt' = 0 /\ sending' = FALSE /\ done' = 0
    BY <1>11 DEF Leave
  <2>9. FundingHasRoom'
    BY <2>2, <2>8 DEF wallet
  <2>10. form' \in Forms /\ UNCHANGED <<made, lease, spent, releasing, expired, touched>>
    BY <2>4, <2>8 DEF wallet
  <2>11. Len(made) \in Nat /\ Len(made') = Len(made)
    BY <2>10
  <2>12. psbt' \in 0..Len(made') /\ done' \in 0..Len(made')
    BY <2>8, <2>11
  <2>13. chain' \in [Chains -> [at : {"idle", "finalize", "publish"}, psbt : 0..Len(made'),
                               mine : BOOLEAN]]
    BY <2>5, <2>11
  <2>14. TypeOK'
    BY <2>7, <2>8, <2>10, <2>11, <2>12, <2>13
  <2> QED BY <2>6, <2>9, <2>14
<1>12. CASE Open
  BY <1>12 DEF Open, requests, wallet
<1>13. ASSUME NEW i \in Ids, Released(i) PROVE TypeInv'
  BY <1>13, UnleaseType DEF Released, tab
<1>14. ASSUME NEW c \in Coins, Expire(c) PROVE TypeInv'
  BY <1>14 DEF Expire, tab, requests
<1>15. ASSUME NEW n \in Chains, HandleSend(n) PROVE TypeInv'
  BY <1>15 DEF HandleSend, UnderReview, wallet
<1>16. ASSUME NEW n \in Chains, Finalized(n) PROVE TypeInv'
  <2>1. chain' = [chain EXCEPT ![n] =
                    [at |-> "publish", psbt |-> chain[n].psbt, mine |-> chain[n].mine]]
    <3>1. [chain[n] EXCEPT !.at = "publish"]
            = [at |-> "publish", psbt |-> chain[n].psbt, mine |-> chain[n].mine]
      BY SetAt
    <3> QED BY <1>16, <3>1 DEF Finalized
  <2>2. chain[n].psbt # 0
    BY <1>16 DEF Finalized
  <2>3. UNCHANGED <<tab, funding, releasing, wallet, expired, touched>>
    BY <1>16 DEF Finalized
  <2> QED BY <2>1, <2>2, <2>3 DEF tab, wallet
<1>17. ASSUME NEW n \in Chains, Published(n) PROVE TypeInv'
  <2>1. spent' \in [Coins -> 0..Len(made)]
    BY <1>17 DEF Published, Spend
  <2> QED BY <1>17, <2>1, UnleaseType DEF Published, Spend, EndChain
<1>18. ASSUME NEW n \in Chains, SendFails(n) PROVE TypeInv'
  <2>1. \/ UNCHANGED wallet
        \/ chain[n].at = "publish" /\ Spend(chain[n].psbt)
    BY <1>18 DEF SendFails
  <2>2. spent' \in [Coins -> 0..Len(made)] /\ lease' \in [Coins -> 0..Len(made)]
        /\ UNCHANGED made
    <3>1. CASE UNCHANGED wallet BY <3>1 DEF wallet
    <3>2. CASE Spend(chain[n].psbt)
      <4>1. lease' = Unlease(chain[n].psbt) /\ UNCHANGED made
        BY <3>2 DEF Spend
      <4>2. chain[n].psbt \in 0..Len(made)
        OBVIOUS
      <4>3. spent' \in [Coins -> 0..Len(made)]
        BY <3>2, <4>2 DEF Spend
      <4> QED BY <4>1, <4>3, UnleaseType
    <3> QED BY <2>1, <3>1, <3>2
  <2> QED BY <1>18, <2>2 DEF SendFails, EndChain
<1>19. CASE UNCHANGED vars
  BY <1>19 DEF vars, tab, requests, wallet
<1> QED
  BY <1>2, <1>3, <1>4, <1>5, <1>6, <1>7, <1>8, <1>9, <1>10, <1>11, <1>12, <1>13, <1>14,
     <1>15, <1>16, <1>17, <1>18, <1>19 DEF Next, ChainStep

\* The tab opens blank.
LEMMA InitTyped == Init => TypeInv
<1> SUFFICES ASSUME Init PROVE TypeInv
  OBVIOUS
<1>1. made \in Seq([pay : Forms, coins : SUBSET Coins]) /\ Len(made) = 0
  BY DEF Init
<1>2. Blank \in Forms
  BY DEF Blank, Forms
<1>3. lease \in [Coins -> 0..Len(made)] /\ spent \in [Coins -> 0..Len(made)]
  BY <1>1 DEF Init
<1>4. funding \in [pay : Forms, mine : BOOLEAN]
  BY <1>2 DEF Init, NoFunding
<1>5. Len(made) <= MaxPsbts /\ FundingHasRoom
  BY <1>1, SendAssumption DEF Init, FundingHasRoom
<1>6. ChainHasPsbt
  BY DEF Init, ChainHasPsbt, Idle
<1>7. chain \in [Chains -> [at : {"idle", "finalize", "publish"}, psbt : 0..Len(made),
                           mine : BOOLEAN]]
  BY <1>1 DEF Init, Idle
<1>8. releasing \subseteq Ids /\ form \in Forms /\ psbt \in 0..Len(made)
      /\ done \in 0..Len(made)
  BY <1>1, <1>2 DEF Init
<1> QED BY <1>1, <1>3, <1>4, <1>5, <1>6, <1>7, <1>8 DEF Init, TypeInv, TypeOK

\* Every variable keeps its type: the review, the result and each send name a
\* transaction that was funded.
THEOREM TypeCorrect == Spec => []TypeOK
<1>1. TypeInv => TypeOK
  BY DEF TypeInv
<1> QED BY <1>1, InitTyped, TypeStep, PTL DEF Spec

-----------------------------------------------------------------------------
(* What the review shows *)

\* For a user who touched nothing: no maximum is awaited that would change the amount, and
\* the fields are those of the payment that is being funded, or was.
FormKept ==
  ~touched =>
    /\ Reviewing \/ psbt # 0 => ~maxing
    /\ Reviewing => form = funding.pay
    /\ psbt # 0 => form = made[psbt].pay

\* A handler that changes the form while a funding is awaited sets touched; the form is
\* closed while a transaction is under review.
LEMMA FormStep == TypeOK /\ FormKept /\ [Next]_vars => FormKept'
<1> SUFFICES ASSUME TypeOK, FormKept, [Next]_vars PROVE FormKept'
  OBVIOUS
<1> USE DEF TypeOK, FormKept, Reviewing
<1>1. ASSUME NEW f, Enter(f) PROVE FormKept'
  BY <1>1 DEF Enter, OnForm, requests, wallet
<1>2. ASSUME NEW a, SetAddress(a) \/ SetAmount(a) PROVE FormKept'
  BY <1>1, <1>2 DEF SetAddress, SetAmount
<1>3. CASE AskMax
  BY <1>3 DEF AskMax, OnForm, requests, wallet
<1>4. CASE MaxAnswered
  BY <1>4 DEF MaxAnswered, requests, wallet
<1>5. CASE HandleReview
  BY <1>5 DEF HandleReview, OnForm, tab, wallet
<1>6. CASE FundFails
  BY <1>6 DEF FundFails, NoFunding, tab, wallet
<1>7. ASSUME NEW coins \in SUBSET Coins, Funded(coins) PROVE FormKept'
  <2> DEFINE payment == [pay |-> funding.pay, coins |-> coins]
  <2>1. payment \in [pay : Forms, coins : SUBSET Coins]
    OBVIOUS
  <2>2. /\ made' = Append(made, payment) /\ Len(made') = Len(made) + 1
        /\ \A i \in 1..Len(made) : made'[i] = made[i]
        /\ made'[Len(made) + 1] = payment
    BY <1>7, <2>1, AppendFunded DEF Funded
  <2>3. ~Reviewing' /\ (psbt' = psbt \/ (Reviewing /\ psbt' = Len(made) + 1))
    BY <1>7, <2>2 DEF Funded, NoFunding
  <2>4. UNCHANGED <<form, maxing, touched>>
    BY <1>7 DEF Funded
  <2> QED BY <2>2, <2>3, <2>4
<1>8. CASE HandleRelease \/ Reset \/ Leave \/ Open
  <2>1. funding'.mine => Reviewing /\ UNCHANGED funding
    BY <1>8 DEF HandleRelease, Reset, Leave, Open, requests
  <2> QED BY <1>8, <2>1 DEF HandleRelease, Reset, Leave, Open, UnderReview, wallet
<1>9. ASSUME NEW i, Released(i) PROVE FormKept'
  BY <1>9 DEF Released, tab
<1>10. ASSUME NEW c, Expire(c) PROVE FormKept'
  BY <1>10 DEF Expire, tab, requests
<1>11. ASSUME NEW n, HandleSend(n) \/ Finalized(n) \/ Published(n) \/ SendFails(n)
       PROVE  FormKept'
  <2>1. UNCHANGED <<form, maxing, psbt, funding, made, touched>>
    BY <1>11 DEF HandleSend, Finalized, Published, SendFails, Spend, tab, wallet
  <2> QED BY <2>1
<1>12. CASE UNCHANGED vars
  BY <1>12 DEF vars, tab, requests, wallet
<1> QED
  BY <1>2, <1>3, <1>4, <1>5, <1>6, <1>7, <1>8, <1>9, <1>10, <1>11, <1>12
     DEF Next, ChainStep

\* The review names the payment that Send would publish, for a user who touches nothing
\* while a request is under way.
THEOREM ReviewNamesPayment == Spec => []ShownAsFunded
<1>1. Init => FormKept
  BY DEF Init, FormKept, Reviewing, NoFunding
<1>2. FormKept => ShownAsFunded
  BY DEF FormKept, ShownAsFunded, UnderReview
<1> QED BY <1>1, <1>2, FormStep, TypeCorrect, PTL DEF Spec

-----------------------------------------------------------------------------
(* One payment at a time *)

\* sending is the one send of this visit; leaving ends its part in all of them.
LEMMA PaymentStep == TypeOK /\ OnePaymentAtATime /\ [Next]_vars => OnePaymentAtATime'
<1> SUFFICES ASSUME TypeOK, OnePaymentAtATime, [Next]_vars PROVE OnePaymentAtATime'
  OBVIOUS
<1> USE DEF TypeOK, OnePaymentAtATime
<1>1. CASE UNCHANGED <<sending, chain>>
  BY <1>1
<1>2. CASE Leave
  BY <1>2 DEF Leave
<1>3. ASSUME NEW n \in Chains, HandleSend(n) PROVE OnePaymentAtATime'
  BY <1>3 DEF HandleSend
<1>4. ASSUME NEW n \in Chains, Finalized(n) PROVE OnePaymentAtATime'
  BY <1>4 DEF Finalized, tab
<1>5. ASSUME NEW n \in Chains, EndChain(n) PROVE OnePaymentAtATime'
  BY <1>5 DEF EndChain, Idle
<1>6. ASSUME NEW n \in Chains, ChainStep(n) PROVE OnePaymentAtATime'
  BY <1>4, <1>5, <1>6 DEF ChainStep, Published, SendFails
<1>7. \/ UNCHANGED <<sending, chain>> \/ Leave
      \/ \E n \in Chains : HandleSend(n) \/ ChainStep(n)
  BY DEF Next, SetAddress, SetAmount, Enter, AskMax, MaxAnswered, HandleReview, FundFails,
         Funded, HandleRelease, Reset, Open, Released, Expire, tab, requests, vars
<1> QED BY <1>1, <1>2, <1>3, <1>6, <1>7

\* No second payment starts before the first is told, whatever the user reviews meanwhile.
THEOREM OnePaymentHolds == Spec => []OnePaymentAtATime
<1>1. Init => OnePaymentAtATime
  <2> SUFFICES ASSUME Init PROVE OnePaymentAtATime
    OBVIOUS
  <2>1. ~Idle.mine
    BY DEF Idle
  <2>2. sending = FALSE /\ \A n \in Chains : ~chain[n].mine
    BY <2>1 DEF Init
  <2> QED BY <2>2 DEF OnePaymentAtATime
<1> QED BY <1>1, PaymentStep, TypeCorrect, PTL DEF Spec
-----------------------------------------------------------------------------
(* The coins of a transaction *)

\* The transactions whose coins may be given back: the one under review and those whose
\* release is under way, which it is not.  As long as no lease ran out each of them has
\* its coins, so that the release of one, which names outputs, frees none of another.
Kept == releasing \cup ({psbt} \ {0})
Holds(i) == \A c \in made[i].coins : lease[c] = i \/ spent[c] # 0
LeaseInv ==
  /\ releasing \subseteq 1..Len(made) /\ psbt \notin releasing
  /\ ~expired => \A i \in Kept : Holds(i)

\* What may be given back has been made.
LEMMA KeptMade ==
  ASSUME TypeOK, LeaseInv, NEW k \in Kept
  PROVE  k \in 1..Len(made) /\ made[k].coins \subseteq Coins
<1>1. Len(made) \in Nat /\ psbt \in 0..Len(made)
  BY DEF TypeOK
<1>2. k \in 1..Len(made)
  BY <1>1 DEF Kept, LeaseInv
<1>3. made \in Seq([pay : Forms, coins : SUBSET Coins])
  BY DEF TypeOK
<1>4. made[k] \in [pay : Forms, coins : SUBSET Coins]
  BY <1>2, <1>3, ElementOf
<1> QED BY <1>2, <1>4

\* A step that leaves every lease as it is keeps what is held.
LEMMA SameLeases ==
  ASSUME TypeOK, LeaseInv, UNCHANGED <<wallet, expired>>,
         Kept' \subseteq Kept, psbt' \notin releasing', releasing' \subseteq 1..Len(made')
  PROVE  LeaseInv'
  BY DEF LeaseInv, Holds, wallet

\* A publication: what loses its lease is spent.
LEMMA SpendStep ==
  ASSUME TypeOK, LeaseInv, NEW i \in 1..Len(made), Spend(i), UNCHANGED <<releasing, psbt, expired>>
  PROVE  LeaseInv'
<1>1. made' = made /\ lease' = Unlease(i)
  BY DEF Spend
<1>2. \A c \in Coins : spent'[c] = IF c \in made[i].coins THEN i ELSE spent[c]
  BY DEF Spend
<1>3. \A c \in Coins : lease'[c] = IF c \in made[i].coins THEN 0 ELSE lease[c]
  BY <1>1 DEF Unlease
<1>4. \A k \in Kept : made[k].coins \subseteq Coins
  BY KeptMade
<1> QED BY <1>1, <1>2, <1>3, <1>4 DEF LeaseInv, Kept, Holds

\* Every step keeps the coins of what may still be given back.
LEMMA LeaseStep == TypeOK /\ ChainHasPsbt /\ LeaseInv /\ [Next]_vars => LeaseInv'
<1> SUFFICES ASSUME TypeOK, ChainHasPsbt, LeaseInv, [Next]_vars PROVE LeaseInv'
  OBVIOUS
<1>1. ASSUME UNCHANGED <<wallet, expired, releasing>>, psbt' = psbt \/ psbt' = 0
      PROVE  LeaseInv'
  BY <1>1, SameLeases DEF LeaseInv, Kept, wallet
<1>2. CASE HandleRelease \/ Reset
  <2>1. /\ UNCHANGED <<wallet, expired>> /\ psbt' = 0
        /\ releasing' \subseteq releasing \cup ({psbt} \ {0})
    BY <1>2 DEF HandleRelease, Reset, UnderReview
  <2>2. releasing' \subseteq 1..Len(made) /\ UNCHANGED made
    BY <2>1 DEF LeaseInv, TypeOK, wallet
  <2> QED BY <2>1, <2>2, SameLeases DEF Kept
<1>3. ASSUME NEW coins \in SUBSET Coins, Funded(coins) PROVE LeaseInv'
  <2> DEFINE payment == [pay |-> funding.pay, coins |-> coins]
             n == Len(made) + 1
  <2>1. payment \in [pay : Forms, coins : SUBSET Coins]
    BY DEF TypeOK
  <2>2. /\ made' = Append(made, payment) /\ Len(made') = n
        /\ \A i \in 1..Len(made) : made'[i] = made[i]
        /\ made'[n] = payment
    BY <1>3, <2>1, AppendFunded DEF Funded, TypeOK
  <2>3. psbt' \in {psbt, n} /\ UNCHANGED <<releasing, spent, expired>>
    BY <1>3, <2>2 DEF Funded
  <2>4. \A c \in Coins : lease'[c] = IF c \in coins THEN n ELSE lease[c]
    BY <1>3, <2>2 DEF Funded
  <2>5. \A c \in coins : lease[c] = 0 /\ spent[c] = 0
    BY <1>3 DEF Funded, Free
  <2>6. Len(made) \in Nat /\ \A i \in Kept : i \in 1..Len(made) /\ made[i].coins \subseteq Coins
    BY KeptMade DEF TypeOK
  <2>7. ASSUME NEW i \in Kept, Holds(i) PROVE Holds(i)'
    BY <2>2, <2>3, <2>4, <2>5, <2>6, <2>7 DEF Holds
  <2>8. \A c \in made'[n].coins : lease'[c] = n
    BY <2>2, <2>4
  <2>9. Kept' \subseteq Kept \cup {n}
    BY <2>3 DEF Kept
  <2>10. releasing' \subseteq 1..Len(made') /\ psbt' \notin releasing'
    BY <2>2, <2>3, <2>6 DEF LeaseInv
  <2>11. ASSUME ~expired, NEW i \in Kept' PROVE Holds(i)'
    <3>1. CASE i \in Kept
      BY <2>7, <2>11, <3>1 DEF LeaseInv
    <3>2. CASE i = n
      BY <2>8, <3>2 DEF Holds
    <3> QED BY <2>9, <2>11, <3>1, <3>2
  <2> HIDE DEF n, payment
  <2> QED BY <2>3, <2>10, <2>11 DEF LeaseInv
<1>4. ASSUME NEW i \in Ids, Released(i) PROVE LeaseInv'
  <2>1. /\ i \in releasing /\ releasing' = releasing \ {i}
        /\ UNCHANGED <<psbt, made, spent, expired>>
    BY <1>4 DEF Released, tab
  <2>2. \A c \in Coins : lease'[c] = lease[c] \/ (c \in made[i].coins /\ lease'[c] = 0)
    BY <1>4 DEF Released, Unlease
  <2>3. \A k \in Kept : k \in 1..Len(made) /\ made[k].coins \subseteq Coins
    BY KeptMade
  <2>4. ASSUME ~expired, NEW k \in Kept', NEW c \in made[k].coins
        PROVE  lease'[c] = k \/ spent[c] # 0
    <3>1. k \in Kept /\ i \in Kept /\ k # i
      BY <2>1 DEF Kept, LeaseInv
    <3>2. lease[c] = k \/ spent[c] # 0
      BY <2>4, <3>1 DEF LeaseInv, Holds
    <3>3. c \in made[i].coins => lease[c] = i \/ spent[c] # 0
      BY <2>4, <3>1 DEF LeaseInv, Holds
    <3> QED BY <2>2, <2>3, <3>1, <3>2, <3>3
  <2> QED BY <2>1, <2>4 DEF LeaseInv, Holds
<1>5. ASSUME NEW c \in Coins, Expire(c) PROVE LeaseInv'
  BY <1>5 DEF Expire, LeaseInv, tab, requests
<1>6. ASSUME NEW n \in Chains, HandleSend(n) \/ Finalized(n) PROVE LeaseInv'
  BY <1>1, <1>6 DEF HandleSend, Finalized, tab
<1>7. ASSUME NEW n \in Chains, Published(n) \/ SendFails(n) PROVE LeaseInv'
  <2>1. UNCHANGED <<releasing, psbt, expired>>
    BY <1>7 DEF Published, SendFails
  <2>2. \/ UNCHANGED wallet
        \/ chain[n].at = "publish" /\ Spend(chain[n].psbt)
    BY <1>7 DEF Published, SendFails
  <2>3. chain[n].at = "publish" => chain[n].psbt \in 1..Len(made)
    BY DEF ChainHasPsbt, TypeOK
  <2> QED BY <1>1, <2>1, <2>2, <2>3, SpendStep
<1>8. \/ UNCHANGED <<wallet, expired, releasing>> /\ (psbt' = psbt \/ psbt' = 0)
      \/ HandleRelease \/ Reset
      \/ \E coins \in SUBSET Coins : Funded(coins)
      \/ \E i \in Ids : Released(i)
      \/ \E c \in Coins : Expire(c)
      \/ \E n \in Chains : HandleSend(n) \/ Finalized(n) \/ Published(n) \/ SendFails(n)
  BY DEF Next, ChainStep, SetAddress, SetAmount, Enter, AskMax, MaxAnswered, HandleReview,
         FundFails, Leave, Open, tab, requests, vars
<1> QED BY <1>1, <1>2, <1>3, <1>4, <1>5, <1>6, <1>7, <1>8

\* As long as no lease ran out the coins under review are leased to it, whatever is
\* released meanwhile, or a confirmed payment spent them.
THEOREM ReviewHolds == Spec => []ReviewHoldsCoins
<1>1. Init => TypeInv /\ LeaseInv
  BY InitTyped DEF Init, LeaseInv, Kept
<1>2. TypeInv => TypeOK /\ ChainHasPsbt
  BY DEF TypeInv
<1>3. TypeOK /\ LeaseInv => ReviewHoldsCoins
  BY DEF TypeOK, LeaseInv, Kept, Holds, ReviewHoldsCoins, UnderReview
<1> QED BY <1>1, <1>2, <1>3, TypeStep, LeaseStep, PTL DEF Spec
=============================================================================
