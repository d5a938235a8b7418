---------------------------- MODULE OnboardProofs ----------------------------
(* Proofs about Onboard, for any directories, passwords and bounds. *)
EXTENDS Onboard, TLAPS

\* A daemon that reports no wallet runs in a directory without one: the wizard takes the
\* report for the directory's state, and nothing else makes a wallet meanwhile.
NoWalletIsFresh == daemon = "noWallet" => home \notin holds

LEMMA NoWalletStep == NoWalletIsFresh /\ [Next]_vars => NoWalletIsFresh'
<1> SUFFICES ASSUME NoWalletIsFresh, [Next]_vars PROVE NoWalletIsFresh'
  OBVIOUS
<1> USE DEF NoWalletIsFresh
<1>1. CASE UNCHANGED node
  BY <1>1 DEF node
<1>2. CASE Started
  BY <1>2 DEF Started
<1>3. CASE MakesWallet
  BY <1>3 DEF MakesWallet
<1>4. CASE NodeUp
  BY <1>4 DEF NodeUp
<1>5. CASE NodeDown \/ NodeRetries
  BY <1>5 DEF NodeDown, NodeRetries
<1>6. User \/ Answer => UNCHANGED node
  BY DEF User, Fill, EditRestore, ToggleAck, GoBack, Leave, NextOnNode, HandleNext, Launch,
         ResetLaunch, ChooseNodeDir, ChooseMode, EditPassword, EditConfirm, Edit, Acts,
         Answer, DirChecked, SeedGenerated, Defaulted, DirEmptyAnswered, Answers
<1>7. LaunchStep \/ PollTimeout => UNCHANGED node \/ Started \/ MakesWallet
  BY DEF LaunchStep, Verified, Polled, Initialized, Settled, Saved, Fails, PollTimeout
<1>8. UNCHANGED vars => UNCHANGED node
  BY DEF vars
<1> QED BY <1>1, <1>2, <1>3, <1>4, <1>5, <1>6, <1>7, <1>8 DEF Next

\* Only the answer to the poll leads to the initialisation.
LEMMA OnlyPolled ==
  ASSUME Next, phase' = "initializing-wallet", phase # phase'
  PROVE  daemon = "noWallet"
<1>1. ~(User \/ Answer)
  BY DEF User, Fill, EditRestore, ToggleAck, GoBack, Leave, NextOnNode, HandleNext, Launch,
         ResetLaunch, ChooseNodeDir, ChooseMode, EditPassword, EditConfirm, Edit, Acts, flow,
         Answer, DirChecked, SeedGenerated, Defaulted, DirEmptyAnswered, Answers
<1>2. ~(NodeUp \/ NodeDown \/ NodeRetries \/ PollTimeout)
  BY DEF NodeUp, NodeDown, NodeRetries, PollTimeout, Moves, flow
<1>3. ~(Verified \/ Started \/ Initialized \/ Settled \/ Saved \/ Fails)
  BY DEF Verified, Started, Initialized, Settled, Saved, Fails, Moves
<1> QED BY <1>1, <1>2, <1>3 DEF Next, LaunchStep, Polled, Moves

\* A wallet is never initialised where there is one, however the directory came to be
\* launched, and however often.
THEOREM InitFresh == Spec => InitOnlyFresh
<1>1. Init => NoWalletIsFresh
  BY DEF Init, NoWalletIsFresh
<1>2. NoWalletIsFresh /\ [Next]_vars
        => [phase' = "initializing-wallet" /\ phase # phase' => home \notin holds]_vars
  BY OnlyPolled DEF NoWalletIsFresh, vars
<1> QED BY <1>1, <1>2, NoWalletStep, PTL DEF Spec, InitOnlyFresh

-----------------------------------------------------------------------------
(* The order of the steps *)

\* The step between the password and the review, which a mode still to be chosen lacks.
Middle(m) ==
  IF m = "create" THEN "seed-reveal" ELSE IF m = "restore" THEN "restore" ELSE "review"

LEMMA OrderIs ==
  ASSUME NEW m \in Modes
  PROVE  Order(m) = IF m = "none"
                      THEN <<"node", "wallet-mode", "password", "review">>
                      ELSE <<"node", "wallet-mode", "password", Middle(m), "review">>
<1>1. CASE m = "none"
  BY <1>1 DEF Order
<1>2. CASE m = "create"
  BY <1>2 DEF Order, Middle
<1>3. CASE m = "restore"
  BY <1>3 DEF Order, Middle
<1> QED BY <1>1, <1>2, <1>3 DEF Modes

PlacesOf(P, m, s) ==
  /\ P \subseteq 1..5
  /\ 1 \in P <=> s = "node"
  /\ 2 \in P <=> s = "wallet-mode"
  /\ 3 \in P <=> s = "password"
  /\ 4 \in P <=> s = Middle(m)
  /\ 5 \in P <=> s = "review" /\ m # "none"

LEMMA PlacesAre ==
  ASSUME NEW m \in Modes, NEW s
  PROVE  PlacesOf(Places(m, s), m, s)
<1> DEFINE O == Order(m)
<1>1. /\ O[1] = "node" /\ O[2] = "wallet-mode" /\ O[3] = "password" /\ O[4] = Middle(m)
      /\ m # "none" => O[5] = "review" /\ DOMAIN O = 1..5
      /\ m = "none" => DOMAIN O = 1..4
  BY OrderIs DEF Middle
<1> HIDE DEF O
<1>2. Places(m, s) = {i \in DOMAIN O : O[i] = s}
  BY DEF Places, O
<1>3. CASE m = "none"
  BY <1>1, <1>2, <1>3 DEF PlacesOf
<1>4. CASE m # "none"
  BY <1>1, <1>2, <1>4 DEF PlacesOf
<1> QED BY <1>3, <1>4

\* The step after the one that is shown.
LEMMA AfterIs ==
  ASSUME NEW f \in Forms
  PROVE  /\ f.step = "node" => After(f) = "wallet-mode"
         /\ f.step = "wallet-mode" => After(f) = "password"
         /\ f.step = "password" => After(f) = Middle(f.mode)
         /\ f.step = Middle(f.mode) => After(f) = "review"
         /\ f.step \notin {"node", "wallet-mode", "password", Middle(f.mode)}
              => After(f) = f.step
<1> DEFINE m == f.mode
           O == Order(m)
           next == {i \in Places(m, f.step) : i < Len(O)}
<1>1. m \in Modes /\ f.step \in Steps
  BY DEF Forms
<1>2. /\ O[1] = "node" /\ O[2] = "wallet-mode" /\ O[3] = "password" /\ O[4] = Middle(m)
      /\ m # "none" => O[5] = "review" /\ Len(O) = 5
      /\ m = "none" => Len(O) = 4 /\ Middle(m) = "review"
  BY <1>1, OrderIs DEF Middle
<1>3. Middle(m) \in {"seed-reveal", "restore", "review"} /\ (m # "none" => Middle(m) # "review")
  BY <1>1 DEF Middle, Modes
<1>4. After(f) = IF next = {} THEN f.step ELSE O[(CHOOSE i \in next : TRUE) + 1]
  BY DEF After
<1>5. /\ next \subseteq 1..4
      /\ 1 \in next <=> f.step = "node"
      /\ 2 \in next <=> f.step = "wallet-mode"
      /\ 3 \in next <=> f.step = "password"
      /\ 4 \in next <=> f.step = Middle(m) /\ m # "none"
  <2> DEFINE P == Places(m, f.step)
             n == Len(O)
  <2>1. next = {i \in P : i < n} /\ n = IF m = "none" THEN 4 ELSE 5
    BY <1>1, <1>2 DEF Modes
  <2>2. PlacesOf(P, m, f.step)
    BY <1>1, PlacesAre
  <2> HIDE DEF next, O, P, n, m
  <2>3. P \subseteq 1..5
    BY <2>2 DEF PlacesOf
  <2>4. next = P \cap (1..IF m = "none" THEN 3 ELSE 4)
    <3>1. \A i \in 1..5 : i < n <=> i \in 1..IF m = "none" THEN 3 ELSE 4
      BY <2>1
    <3>2. 1..(IF m = "none" THEN 3 ELSE 4) \subseteq 1..5
      OBVIOUS
    <3> QED BY <2>1, <2>3, <3>1, <3>2
  <2> QED BY <1>2, <1>3, <2>2, <2>4 DEF PlacesOf
<1> HIDE DEF O, m, next
<1>6. ASSUME NEW i \in 1..4, i \in next, \A j \in 1..4 : j \in next => j = i
      PROVE  After(f) = O[i + 1]
  <2>1. next = {i}
    BY <1>5, <1>6
  <2> QED BY <1>4, <2>1
<1>7. CASE f.step = "node"
  BY <1>2, <1>3, <1>5, <1>6, <1>7 DEF m
<1>8. CASE f.step = "wallet-mode"
  BY <1>2, <1>3, <1>5, <1>6, <1>8 DEF m
<1>9. CASE f.step = "password"
  BY <1>2, <1>3, <1>5, <1>6, <1>9 DEF m
<1>10. CASE f.step = Middle(m) /\ m # "none"
  BY <1>2, <1>3, <1>5, <1>6, <1>10 DEF m
<1>11. CASE f.step \notin {"node", "wallet-mode", "password"} /\ (f.step # Middle(m) \/ m = "none")
  <2>1. next = {}
    BY <1>5, <1>11
  <2> QED BY <1>2, <1>3, <1>4, <1>11, <2>1 DEF m
<1> QED BY <1>7, <1>8, <1>9, <1>10, <1>11

\* The step before it is one of the mode's, and only the review has one after the password.
LEMMA BeforeIs ==
  ASSUME NEW m \in Modes, NEW s, NEW i \in Places(m, s), i > 1
  PROVE  LET before == Order(m)[i - 1]
         IN /\ before \in {"node", "wallet-mode", "password", Middle(m)}
            /\ before \notin {"node", "wallet-mode", "password"} => s = "review" /\ m # "none"
            /\ s # "node"
<1> DEFINE P == Places(m, s)
<1>0. PlacesOf(P, m, s) /\ i \in P
  BY PlacesAre
<1> HIDE DEF P
<1>1. \/ i = 2 /\ s = "wallet-mode"
      \/ i = 3 /\ s = "password"
      \/ i = 4 /\ s = Middle(m)
      \/ i = 5 /\ s = "review" /\ m # "none"
  <2>1. i = 2 \/ i = 3 \/ i = 4 \/ i = 5
    BY <1>0 DEF PlacesOf
  <2> QED BY <1>0, <2>1 DEF PlacesOf
<1> QED BY <1>1, OrderIs DEF Middle

LEMMA InOrderIs ==
  ASSUME NEW f \in Forms
  PROVE  Places(f.mode, f.step) # {}
           <=> f.step \in {"node", "wallet-mode", "password", "review", Middle(f.mode)}
<1>1. f.mode \in Modes
  BY DEF Forms
<1>2. f.mode = "none" => Middle(f.mode) = "review"
  BY DEF Middle
<1>3. PlacesOf(Places(f.mode, f.step), f.mode, f.step)
  BY <1>1, PlacesAre
<1> QED BY <1>2, <1>3 DEF PlacesOf

-----------------------------------------------------------------------------
(* Types *)

\* The parts of the type invariant, with what it rests on: a directory that is launched is
\* known, and what runs has data.
PageOK == here \in BOOLEAN /\ form \in Forms /\ awaits \in Awaits
FlowOK ==
  /\ phase \in Phases /\ launch \in Forms
  /\ phase \in {"verifying", "starting"} => launch.dir # None
NodeOK ==
  /\ daemon \in {"off", "starting", "noWallet", "locked", "open", "down"}
  /\ home \in Dirs \cup {None} /\ holds \subseteq data /\ data \subseteq Dirs
  /\ daemon # "off" => home # None
  /\ daemon \in {"noWallet", "locked", "open"} => home \in data
HistoryOK == acked \subseteq 1..MaxSeeds /\ hurried \in BOOLEAN

\* The directory is known wherever the page is past its first step or may get there.
Directed ==
  (form.step # "node" \/ awaits.seed > 0 \/ \E d \in Dirs : awaits.check[d] > 0)
    => form.dir # None

Typed == PageOK /\ Directed /\ FlowOK /\ NodeOK /\ HistoryOK

LEMMA TypedTypes == Typed => TypeOK
  BY DEF Typed, TypeOK, PageOK, Directed, FlowOK, NodeOK, HistoryOK

\* A form in which one field is replaced is a form.
LEMMA FormWith ==
  ASSUME NEW f \in Forms
  PROVE  /\ \A x \in Steps : [f EXCEPT !.step = x] \in Forms
         /\ \A x \in Modes : [f EXCEPT !.mode = x] \in Forms
         /\ \A x \in BOOLEAN : [f EXCEPT !.filled = x] \in Forms
         /\ \A x \in Dirs \cup {None} : [f EXCEPT !.dir = x] \in Forms
         /\ \A x \in {"", "required", "not_empty", "exists"} :
              [f EXCEPT !.dirError = x] \in Forms
         /\ \A x \in Texts : [f EXCEPT !.pwd = x] \in Forms
         /\ \A x \in Texts : [f EXCEPT !.confirm = x] \in Forms
         /\ \A x \in BOOLEAN : [f EXCEPT !.typed = x] \in Forms
         /\ \A x \in 0..MaxSeeds : [f EXCEPT !.words = x] \in Forms
         /\ \A x \in BOOLEAN : [f EXCEPT !.ack = x] \in Forms
<1>1. \A x \in Steps : [f EXCEPT !.step = x] \in Forms
  BY DEF Forms
<1>2. \A x \in Modes : [f EXCEPT !.mode = x] \in Forms
  BY DEF Forms
<1>3. \A x \in BOOLEAN : [f EXCEPT !.filled = x] \in Forms
  BY DEF Forms
<1>4. \A x \in Dirs \cup {None} : [f EXCEPT !.dir = x] \in Forms
  BY DEF Forms
<1>5. \A x \in {"", "required", "not_empty", "exists"} : [f EXCEPT !.dirError = x] \in Forms
  BY DEF Forms
<1>6. \A x \in Texts : [f EXCEPT !.pwd = x] \in Forms
  BY DEF Forms
<1>7. \A x \in Texts : [f EXCEPT !.confirm = x] \in Forms
  BY DEF Forms
<1>8. \A x \in BOOLEAN : [f EXCEPT !.typed = x] \in Forms
  BY DEF Forms
<1>9. \A x \in 0..MaxSeeds : [f EXCEPT !.words = x] \in Forms
  BY DEF Forms
<1>10. \A x \in BOOLEAN : [f EXCEPT !.ack = x] \in Forms
  BY DEF Forms
<1> QED BY <1>1, <1>2, <1>3, <1>4, <1>5, <1>6, <1>7, <1>8, <1>9, <1>10

LEMMA BlankTypes == Blank \in Forms /\ NoAwaits \in Awaits
  BY OnboardAssumption DEF Blank, NoAwaits, Forms, Awaits, Steps, Modes, Texts

LEMMA BlankIs ==
  /\ Blank.step = "node" /\ Blank.dir = None
  /\ NoAwaits.seed = 0 /\ \A d \in Dirs : NoAwaits.check[d] = 0
  BY DEF Blank, NoAwaits

LEMMA GoneTyped ==
  ASSUME Gone
  PROVE  PageOK' /\ Directed'
<1>1. PageOK'
  BY BlankTypes DEF Gone, PageOK
<1>2. form'.step = "node" /\ awaits'.seed = 0 /\ \A d \in Dirs : awaits'.check[d] = 0
  BY BlankIs DEF Gone
<1>3. Directed'
  BY <1>2 DEF Directed
<1> QED BY <1>1, <1>3

LEMMA AfterType ==
  ASSUME NEW f \in Forms
  PROVE  After(f) \in Steps
<1>1. f.step \in Steps /\ Middle(f.mode) \in Steps
  BY DEF Forms, Middle, Steps
<1> QED BY <1>1, AfterIs DEF Steps

LEMMA InitTyped == Init => Typed
<1> SUFFICES ASSUME Init PROVE Typed
  OBVIOUS
<1>1. [NoAwaits EXCEPT !.default = TRUE] \in Awaits
  <2> DEFINE yes == TRUE
  <2>1. yes \in BOOLEAN
    OBVIOUS
  <2>2. [NoAwaits EXCEPT !.default = yes] \in Awaits
    <3> HIDE DEF yes
    <3> QED BY <2>1, BlankTypes DEF Awaits
  <2> QED BY <2>2
<1>2. PageOK /\ FlowOK
  BY <1>1, BlankTypes DEF Init, PageOK, FlowOK, Phases
<1>3. Directed
  <2>1. form.step = "node" /\ awaits.seed = 0 /\ \A d \in Dirs : awaits.check[d] = 0
    <3>1. form = Blank /\ awaits.seed = NoAwaits.seed /\ awaits.check = NoAwaits.check
      BY BlankTypes DEF Init, Awaits
    <3> QED BY <3>1, BlankIs
  <2> QED BY <2>1 DEF Directed
<1>4. NodeOK /\ HistoryOK
  BY OnboardAssumption DEF Init, NodeOK, HistoryOK
<1> QED BY <1>2, <1>3, <1>4 DEF Typed

\* What a handler of the page leaves alone.
LEMMA ActsKeep ==
  ASSUME Typed, Acts, UNCHANGED acked
  PROVE  here' \in BOOLEAN /\ FlowOK' /\ NodeOK' /\ HistoryOK'
  BY DEF Typed, Acts, PageOK, FlowOK, NodeOK, HistoryOK, flow, node

LEMMA AnswersKeep ==
  ASSUME Typed, Answers
  PROVE  here' \in BOOLEAN /\ FlowOK' /\ NodeOK' /\ HistoryOK'
  BY DEF Typed, Answers, PageOK, FlowOK, NodeOK, HistoryOK, flow, node, history

\* A field of the step that is shown is changed, or the step to one after the first.
LEMMA EditTyped ==
  ASSUME Typed, NEW s, NEW f \in Forms, Edit(s, f), f.dir = form.dir,
         form.step = "node" => f.step = "node"
  PROVE  Typed'
<1>1. form' = f /\ UNCHANGED awaits /\ Acts /\ UNCHANGED acked
  BY DEF Edit
<1>2. PageOK' /\ Directed'
  BY <1>1, ActsKeep DEF Typed, PageOK, Directed
<1> QED BY <1>1, <1>2, ActsKeep DEF Typed

LEMMA UserTyped == Typed /\ User => Typed'
<1> SUFFICES ASSUME Typed, User PROVE Typed'
  OBVIOUS
<1>0. form \in Forms /\ awaits \in Awaits /\ Directed /\ form.step \in Steps
  BY DEF Typed, PageOK, Forms
<1>1. CASE Fill
  <2>1. /\ [form EXCEPT !.filled = ~@] \in Forms /\ [form EXCEPT !.filled = ~@].dir = form.dir
        /\ [form EXCEPT !.filled = ~@].step = form.step
    <3> DEFINE b == ~form.filled
    <3>1. b \in BOOLEAN
      OBVIOUS
    <3> HIDE DEF b
    <3>2. [form EXCEPT !.filled = b] \in Forms
      BY <1>0, <3>1, FormWith
    <3>3. [form EXCEPT !.filled = b].dir = form.dir /\ [form EXCEPT !.filled = b].step = form.step
      BY <1>0 DEF Forms
    <3> QED BY <3>2, <3>3 DEF b
  <2> QED BY <1>1, <2>1, EditTyped DEF Fill
<1>2. CASE EditRestore
  <2>1. /\ [form EXCEPT !.typed = ~@] \in Forms /\ [form EXCEPT !.typed = ~@].dir = form.dir
        /\ [form EXCEPT !.typed = ~@].step = form.step
    <3> DEFINE b == ~form.typed
    <3>1. b \in BOOLEAN
      OBVIOUS
    <3> HIDE DEF b
    <3>2. [form EXCEPT !.typed = b] \in Forms
      BY <1>0, <3>1, FormWith
    <3>3. [form EXCEPT !.typed = b].dir = form.dir /\ [form EXCEPT !.typed = b].step = form.step
      BY <1>0 DEF Forms
    <3> QED BY <3>2, <3>3 DEF b
  <2> QED BY <1>2, <2>1, EditTyped DEF EditRestore
<1>3. CASE ToggleAck
  <2>1. [form EXCEPT !.ack = ~@] \in Forms
    <3> DEFINE b == ~form.ack
    <3>1. b \in BOOLEAN
      OBVIOUS
    <3> HIDE DEF b
    <3>2. [form EXCEPT !.ack = b] \in Forms
      BY <1>0, <3>1, FormWith
    <3> QED BY <3>2 DEF b
  <2>2. PageOK' /\ FlowOK' /\ NodeOK'
    BY <1>3, <2>1 DEF ToggleAck, Acts, Typed, PageOK, FlowOK, NodeOK, flow, node
  <2>3. Directed'
    BY <1>0, <1>3 DEF ToggleAck, Directed, Forms
  <2>4. HistoryOK'
    <3>1. form.words \in 0..MaxSeeds
      BY <1>0 DEF Forms
    <3>2. form.words # 0 => form.words \in 1..MaxSeeds
      BY <3>1, OnboardAssumption
    <3>3. acked' \subseteq 1..MaxSeeds
      BY <1>3, <3>2 DEF ToggleAck, Typed, HistoryOK
    <3> QED BY <1>3, <3>3 DEF ToggleAck, Acts, Typed, HistoryOK
  <2> QED BY <2>2, <2>3, <2>4 DEF Typed
<1>4. CASE GoBack
  <2>1. PICK i \in Places(form.mode, form.step) :
          i > 1 /\ Edit(form.step, [form EXCEPT !.step = Order(form.mode)[i - 1]])
    BY <1>4 DEF GoBack
  <2> DEFINE x == Order(form.mode)[i - 1]
  <2>2. form.mode \in Modes
    BY <1>0 DEF Forms
  <2>3. x \in {"node", "wallet-mode", "password", Middle(form.mode)} /\ form.step # "node"
    BY <2>1, <2>2, BeforeIs
  <2>4. x \in Steps
    BY <2>2, <2>3 DEF Middle, Steps
  <2> HIDE DEF x
  <2>5. [form EXCEPT !.step = x] \in Forms
    BY <1>0, <2>4, FormWith
  <2>6. [form EXCEPT !.step = x].dir = form.dir
    BY <1>0 DEF Forms
  <2> QED BY <2>1, <2>3, <2>5, <2>6, EditTyped DEF x
<1>5. CASE Leave
  <2>1. PageOK' /\ Directed'
    BY <1>5, GoneTyped DEF Leave
  <2> QED BY <1>5, <2>1 DEF Leave, Typed, FlowOK, NodeOK, HistoryOK, flow, node, history
<1>6. CASE NextOnNode
  <2>1. CASE ValidNode /\ awaits' = [awaits EXCEPT !.check[form.dir] = @ + 1] /\ UNCHANGED form
    <3>1. form.dir # None /\ form.dir \in Dirs
      BY <1>0, <2>1 DEF ValidNode, Forms
    <3>2. PageOK' /\ Directed'
      BY <1>0, <1>6, <2>1, <3>1, ActsKeep DEF NextOnNode, PageOK, Awaits, Directed
    <3> QED BY <1>6, <3>2, ActsKeep DEF NextOnNode, Typed
  <2>2. CASE /\ form' = [form EXCEPT !.dirError = IF form.dir = None THEN "required" ELSE @]
             /\ UNCHANGED awaits
    <3> DEFINE e == IF form.dir = None THEN "required" ELSE form.dirError
    <3>1. e \in {"", "required", "not_empty", "exists"}
      BY <1>0 DEF Forms
    <3>2. form' = [form EXCEPT !.dirError = e]
      BY <2>2
    <3> HIDE DEF e
    <3>3. form' \in Forms
      BY <1>0, <3>1, <3>2, FormWith
    <3>4. form'.dir = form.dir /\ form'.step = form.step
      BY <1>0, <3>2 DEF Forms
    <3>5. PageOK' /\ Directed'
      BY <1>0, <1>6, <2>2, <3>3, <3>4, ActsKeep DEF NextOnNode, PageOK, Directed
    <3> QED BY <1>6, <3>5, ActsKeep DEF NextOnNode, Typed
  <2> QED BY <1>6, <2>1, <2>2 DEF NextOnNode
<1>7. CASE HandleNext
  <2>0. form.dir # None /\ Acts /\ UNCHANGED acked
    BY <1>0, <1>7 DEF HandleNext, Valid, Directed
  <2>1. CASE awaits' = [awaits EXCEPT !.seed = @ + 1] /\ UNCHANGED form
    <3>1. PageOK' /\ Directed'
      BY <1>0, <2>0, <2>1, ActsKeep DEF PageOK, Awaits, Directed
    <3> QED BY <2>0, <3>1, ActsKeep DEF Typed
  <2>2. CASE form' = [form EXCEPT !.step = After(form)] /\ UNCHANGED awaits
    <3>1. form' \in Forms
      BY <1>0, <2>2, AfterType, FormWith
    <3>2. form'.dir = form.dir
      BY <1>0, <2>2 DEF Forms
    <3>3. PageOK' /\ Directed'
      BY <1>0, <2>0, <2>2, <3>1, <3>2, ActsKeep DEF PageOK, Directed
    <3> QED BY <2>0, <3>3, ActsKeep DEF Typed
  <2> QED BY <1>7, <2>1, <2>2 DEF HandleNext
<1>8. CASE Launch
  <2>1. PageOK' /\ Directed' /\ NodeOK' /\ HistoryOK'
    BY <1>8 DEF Launch, Typed, PageOK, Directed, NodeOK, HistoryOK, page, node
  <2>2. FlowOK'
    BY <1>0, <1>8 DEF Launch, FlowOK, Phases, InFlight, Directed
  <2> QED BY <2>1, <2>2 DEF Typed
<1>9. CASE ResetLaunch
  <2> DEFINE b == FALSE
  <2>1. b \in BOOLEAN
    OBVIOUS
  <2>2. form' = [form EXCEPT !.ack = b]
    BY <1>9 DEF ResetLaunch
  <2> HIDE DEF b
  <2>3. form' \in Forms /\ form'.dir = form.dir /\ form'.step = form.step
    <3>1. form' \in Forms
      BY <1>0, <2>1, <2>2, FormWith
    <3> QED BY <1>0, <2>2, <3>1 DEF Forms
  <2>4. PageOK' /\ Directed' /\ FlowOK'
    BY <1>0, <1>9, <2>3, BlankTypes
       DEF ResetLaunch, Typed, PageOK, Directed, FlowOK, Phases
  <2> QED BY <1>9, <2>4 DEF ResetLaunch, Typed, NodeOK, HistoryOK, node, history
<1>10. ASSUME NEW d \in Dirs, ChooseNodeDir(d) PROVE Typed'
  <2>1. form' \in Forms /\ form'.dir = d
    <3>1. form' \in Forms
      BY <1>0, <1>10, FormWith DEF ChooseNodeDir
    <3> QED BY <1>0, <1>10, <3>1 DEF ChooseNodeDir, Forms
  <2>2. PageOK' /\ Directed'
    BY <1>0, <1>10, <2>1, ActsKeep, OnboardAssumption
       DEF ChooseNodeDir, PageOK, Directed, Awaits
  <2> QED BY <1>10, <2>2, ActsKeep DEF ChooseNodeDir, Typed
<1>11. ASSUME NEW m \in Modes \ {"none"}, ChooseMode(m) PROVE Typed'
  <2> DEFINE x == After(form)
             g == [form EXCEPT !.mode = m]
  <2>1. g \in Forms /\ x \in Steps
    BY <1>0, FormWith, AfterType
  <2>2. [form EXCEPT !.mode = m, !.step = x] = [g EXCEPT !.step = x]
    BY <1>0 DEF Forms
  <2>3. [g EXCEPT !.step = x] \in Forms /\ [g EXCEPT !.step = x].dir = form.dir
    <3> HIDE DEF x
    <3>1. [g EXCEPT !.step = x] \in Forms
      BY <2>1, FormWith
    <3> QED BY <1>0, <3>1 DEF Forms
  <2>4. Edit("wallet-mode", [g EXCEPT !.step = x]) /\ form.step = "wallet-mode"
    BY <1>11, <2>2 DEF ChooseMode, Edit
  <2> QED BY <2>3, <2>4, EditTyped
<1>12. ASSUME NEW p \in Texts, EditPassword(p) PROVE Typed'
  <2>1. /\ [form EXCEPT !.pwd = p] \in Forms /\ [form EXCEPT !.pwd = p].dir = form.dir
        /\ [form EXCEPT !.pwd = p].step = form.step
    <3>1. [form EXCEPT !.pwd = p] \in Forms
      BY <1>0, FormWith
    <3> QED BY <1>0, <3>1 DEF Forms
  <2> QED BY <1>12, <2>1, EditTyped DEF EditPassword
<1>13. ASSUME NEW p \in Texts, EditConfirm(p) PROVE Typed'
  <2>1. /\ [form EXCEPT !.confirm = p] \in Forms /\ [form EXCEPT !.confirm = p].dir = form.dir
        /\ [form EXCEPT !.confirm = p].step = form.step
    <3>1. [form EXCEPT !.confirm = p] \in Forms
      BY <1>0, FormWith
    <3> QED BY <1>0, <3>1 DEF Forms
  <2> QED BY <1>13, <2>1, EditTyped DEF EditConfirm
<1> QED BY <1>1, <1>2, <1>3, <1>4, <1>5, <1>6, <1>7, <1>8, <1>9, <1>10, <1>11, <1>12, <1>13
        DEF User

LEMMA AnswerTyped == Typed /\ Answer => Typed'
<1> SUFFICES ASSUME Typed, Answer PROVE Typed'
  OBVIOUS
<1>0. form \in Forms /\ awaits \in Awaits /\ Directed
  BY DEF Typed, PageOK
<1> SUFFICES PageOK' /\ Directed'
  BY AnswersKeep DEF Answer, DirChecked, SeedGenerated, Defaulted, DirEmptyAnswered, Typed
<1>1. here' \in BOOLEAN
  BY AnswersKeep DEF Answer, DirChecked, SeedGenerated, Defaulted, DirEmptyAnswered
<1>2. ASSUME NEW d \in Dirs, DirChecked(d) PROVE PageOK' /\ Directed'
  <2>1. awaits.check[d] > 0 /\ awaits' = [awaits EXCEPT !.check[d] = @ - 1]
    BY <1>2 DEF DirChecked
  <2>2. awaits' \in Awaits /\ form.dir # None
    BY <1>0, <2>1 DEF Awaits, Directed
  <2>3. form' \in Forms /\ form'.dir = form.dir
    <3>1. CASE form' = [form EXCEPT !.dirError = "exists"] \/ UNCHANGED form
      <4>1. form' \in Forms
        BY <1>0, <3>1, FormWith
      <4> QED BY <1>0, <3>1, <4>1 DEF Forms
    <3>2. CASE form' = [form EXCEPT !.dirError = "", !.step = "wallet-mode"]
      BY <1>0, <3>2 DEF Forms, Steps
    <3> QED BY <1>2, <3>1, <3>2 DEF DirChecked
  <2> QED BY <1>1, <2>2, <2>3 DEF PageOK, Directed
<1>3. CASE SeedGenerated
  <2>1. awaits' \in Awaits /\ form.dir # None
    <3>1. awaits.seed > 0 /\ awaits' = [awaits EXCEPT !.seed = @ - 1]
      BY <1>3 DEF SeedGenerated
    <3>2. awaits.seed \in Nat
      BY <1>0 DEF Awaits
    <3>3. awaits.seed - 1 \in Nat
      BY <3>1, <3>2
    <3> QED BY <1>0, <3>1, <3>3 DEF Awaits, Directed
  <2>2. form' \in Forms /\ form'.dir = form.dir
    <3>1. ASSUME NEW w \in 1..MaxSeeds, form' = [form EXCEPT !.words = w, !.step = "seed-reveal"]
          PROVE  form' \in Forms /\ form'.dir = form.dir
      <4>1. w \in 0..MaxSeeds
        BY OnboardAssumption
      <4> QED BY <1>0, <3>1, <4>1 DEF Forms, Steps
    <3> QED BY <1>0, <1>3, <3>1 DEF SeedGenerated
  <2> QED BY <1>1, <2>1, <2>2 DEF PageOK, Directed
<1>4. CASE Defaulted
  <2> DEFINE b == FALSE
  <2>1. awaits' \in Awaits /\ awaits'.seed = awaits.seed /\ awaits'.check = awaits.check
    <3>1. b \in BOOLEAN
      OBVIOUS
    <3>2. awaits' = [awaits EXCEPT !.default = b]
      BY <1>4 DEF Defaulted
    <3> HIDE DEF b
    <3> QED BY <1>0, <3>1, <3>2 DEF Awaits
  <2>2. form' \in Forms /\ form'.step = form.step /\ (form.dir # None => form'.dir # None)
    <3>1. CASE form' = [form EXCEPT !.dir = DefaultDir]
      <4>1. form' \in Forms
        BY <1>0, <3>1, FormWith, OnboardAssumption
      <4> QED BY <1>0, <3>1, <4>1, OnboardAssumption DEF Forms
    <3> QED BY <1>0, <1>4, <3>1 DEF Defaulted
  <2> QED BY <1>0, <1>1, <2>1, <2>2 DEF PageOK, Directed
<1>5. CASE DirEmptyAnswered
  <2>1. awaits' \in Awaits /\ awaits'.seed = awaits.seed /\ awaits'.check = awaits.check
    BY <1>0, <1>5 DEF DirEmptyAnswered, Awaits
  <2>2. form' \in Forms /\ form'.step = form.step /\ form'.dir = form.dir
    <3> DEFINE e == IF awaits.empty \in Full \cup data THEN "not_empty" ELSE ""
    <3>1. CASE form' = [form EXCEPT !.dirError = e]
      <4>1. e \in {"", "required", "not_empty", "exists"}
        OBVIOUS
      <4> HIDE DEF e
      <4>2. form' \in Forms
        BY <1>0, <3>1, <4>1, FormWith
      <4> QED BY <1>0, <3>1, <4>2 DEF Forms
    <3> QED BY <1>0, <1>5, <3>1 DEF DirEmptyAnswered
  <2> QED BY <1>0, <1>1, <2>1, <2>2 DEF PageOK, Directed
<1> QED BY <1>2, <1>3, <1>4, <1>5 DEF Answer

\* The launch goes on while the page is left alone.
LEMMA MovesTyped ==
  ASSUME Typed, NEW p, NEW q \in Phases \ {"verifying"}, Moves(p, q),
         q = "starting" => p = "verifying"
  PROVE  PageOK' /\ Directed' /\ FlowOK' /\ HistoryOK'
  BY DEF Typed, Moves, PageOK, Directed, FlowOK, HistoryOK, page, history

\* The node that made a wallet has data.
LEMMA MakesTyped == NodeOK /\ (MakesWallet \/ UNCHANGED node) => NodeOK'
  BY DEF NodeOK, MakesWallet, node

LEMMA LaunchTyped == Typed /\ (LaunchStep \/ PollTimeout) => Typed'
<1> SUFFICES ASSUME Typed, LaunchStep \/ PollTimeout PROVE Typed'
  OBVIOUS
<1>0. NodeOK
  BY DEF Typed
<1>1. CASE Verified \/ Polled \/ PollTimeout \/ Fails
  BY <1>0, <1>1, MovesTyped
     DEF Verified, Polled, PollTimeout, Fails, Typed, Phases, InFlight, NodeOK, node
<1>2. CASE Started
  <2>1. NodeOK'
    BY <1>2 DEF Started, Moves, Typed, NodeOK, FlowOK, Forms
  <2> QED BY <1>2, <2>1, MovesTyped DEF Started, Typed, Phases, InFlight
<1>3. CASE Initialized
  BY <1>0, <1>3, MovesTyped, MakesTyped DEF Initialized, Typed, Phases, InFlight
<1>4. CASE Settled
  <2>1. form' \in Forms /\ form'.dir = form.dir /\ form'.step = form.step
    <3>1. form \in Forms /\ 0 \in 0..MaxSeeds
      BY OnboardAssumption DEF Typed, PageOK
    <3>2. form' \in Forms
      BY <1>4, <3>1, FormWith DEF Settled
    <3> QED BY <1>4, <3>1, <3>2 DEF Settled, Forms
  <2>2. PageOK' /\ Directed' /\ FlowOK'
    BY <1>4, <2>1 DEF Settled, Typed, PageOK, Directed, FlowOK, Phases
  <2> QED BY <1>4, <2>2 DEF Settled, Typed, NodeOK, HistoryOK, node, history
<1>5. CASE Saved
  <2>1. PageOK' /\ Directed'
    BY <1>5, GoneTyped DEF Saved
  <2>2. FlowOK'
    BY <1>5 DEF Saved, Typed, FlowOK, Phases
  <2> QED BY <1>5, <2>1, <2>2 DEF Saved, Typed, NodeOK, HistoryOK, node, history
<1> QED BY <1>1, <1>2, <1>3, <1>4, <1>5 DEF LaunchStep

LEMMA TypeStep == Typed /\ [Next]_vars => Typed'
<1> SUFFICES ASSUME Typed, NodeUp \/ NodeDown \/ NodeRetries \/ UNCHANGED vars PROVE Typed'
  BY UserTyped, AnswerTyped, LaunchTyped DEF Next
<1>1. PageOK' /\ Directed' /\ FlowOK' /\ HistoryOK'
  BY DEF NodeUp, NodeDown, NodeRetries, vars, Typed, PageOK, Directed, FlowOK, HistoryOK,
         page, flow, history
<1>2. NodeOK'
  BY DEF NodeUp, NodeDown, NodeRetries, vars, node, Typed, NodeOK
<1> QED BY <1>1, <1>2 DEF Typed

\* Every variable keeps its type: whatever overtakes what on the page, a node is started in
\* a directory that was chosen, and a wallet is where there is data.
THEOREM TypeCorrect == Spec => []TypeOK
  BY InitTyped, TypeStep, TypedTypes, PTL DEF Spec


-----------------------------------------------------------------------------
(* A user who lets a step answer *)

Agreed(f) == f.pwd # Short /\ f.pwd = f.confirm
InStep(f) == f.step \in {"node", "wallet-mode", "password", "review", Middle(f.mode)}

\* What a page is while its words are not yet forgotten: past the password it is the one
\* typed twice, and a box is ticked for the words that are shown.
Sound(f) ==
  /\ f.step \in {"seed-reveal", "restore", "review"} => Agreed(f)
  /\ f.ack => f.words \in acked
  /\ f.step = "seed-reveal" => f.words # 0
  /\ f.step = "review" /\ f.mode = "create" => f.words \in acked

\* At most one phrase is awaited, on the page that wants its first one; a launch awaits
\* nothing of the page.
SeedFits ==
  awaits.seed > 0 => awaits.seed = 1 /\ form.mode = "create" /\ form.words = 0 /\ Agreed(form)
LaunchFits ==
  phase # "idle" =>
    /\ awaits = NoAwaits /\ Agreed(launch)
    /\ launch.mode = "create" => launch.words \in acked
PageFits == InStep(form) /\ (phase # "done" => Sound(form))
Fits == SeedFits /\ LaunchFits /\ PageFits
Patient == ~hurried => Fits

LEMMA BlankFits == InStep(Blank) /\ Sound(Blank)
  BY DEF Blank, InStep, Sound

\* The user acts on a page that awaits nothing, or has hurried.
LEMMA ActsPatient ==
  ASSUME Typed, Patient, Acts, ~hurried'
  PROVE  /\ ~hurried /\ Fits /\ phase = "idle" /\ phase' = "idle" /\ awaits = NoAwaits
         /\ awaits.seed = 0
  BY BlankIs DEF Acts, Patient, flow, Typed, HistoryOK

\* A handler that asks for nothing keeps the page sound.
LEMMA EditFits ==
  ASSUME Typed, Patient, Acts, ~hurried', UNCHANGED awaits, InStep(form'), Sound(form)'
  PROVE  Fits'
  BY ActsPatient DEF Fits, SeedFits, LaunchFits, PageFits

LEMMA UserPatient == Typed /\ Patient /\ User /\ ~hurried' => Fits'
<1> SUFFICES ASSUME Typed, Patient, User, ~hurried' PROVE Fits'
  OBVIOUS
<1>0. form \in Forms /\ form.step \in Steps /\ form.mode \in Modes
  BY DEF Typed, PageOK, Forms
<1>1. CASE Fill \/ EditRestore
  <2>1. Acts /\ UNCHANGED <<awaits, acked>> /\ InStep(form) /\ Sound(form)
    BY <1>1, ActsPatient DEF Fill, EditRestore, Edit, Fits, PageFits
  <2>2. UNCHANGED <<form.step, form.mode, form.words, form.ack, form.pwd, form.confirm>>
    BY <1>0, <1>1 DEF Fill, EditRestore, Edit, Forms
  <2>3. InStep(form') /\ Sound(form)'
    BY <2>1, <2>2 DEF InStep, Sound, Agreed
  <2> QED BY <2>1, <2>3, EditFits
<1>2. CASE ToggleAck
  <2>1. /\ Acts /\ UNCHANGED awaits /\ InStep(form) /\ Sound(form) /\ form.step = "seed-reveal"
    BY <1>2, ActsPatient DEF ToggleAck, Fits, PageFits
  <2>2. /\ UNCHANGED <<form.step, form.mode, form.words, form.pwd, form.confirm>>
        /\ acked \subseteq acked' /\ form.words \in acked'
    <3>1. form.words # 0
      BY <2>1 DEF Sound
    <3>2. UNCHANGED <<form.step, form.mode, form.words, form.pwd, form.confirm>>
      BY <1>0, <1>2 DEF ToggleAck, Forms
    <3>3. acked \subseteq acked' /\ form.words \in acked'
      BY <1>2, <2>1, <3>1 DEF ToggleAck, Sound
    <3> QED BY <3>2, <3>3
  <2>3. InStep(form') /\ Sound(form)'
    BY <2>1, <2>2 DEF InStep, Sound, Agreed
  <2> QED BY <2>1, <2>3, EditFits
<1>3. CASE GoBack
  <2>1. PICK i \in Places(form.mode, form.step) :
          i > 1 /\ Edit(form.step, [form EXCEPT !.step = Order(form.mode)[i - 1]])
    BY <1>3 DEF GoBack
  <2> DEFINE x == Order(form.mode)[i - 1]
  <2>2. /\ x \in {"node", "wallet-mode", "password", Middle(form.mode)}
        /\ x \notin {"node", "wallet-mode", "password"}
             => form.step = "review" /\ form.mode # "none"
    BY <1>0, <2>1, BeforeIs
  <2>3. Acts /\ UNCHANGED <<awaits, acked>> /\ form' = [form EXCEPT !.step = x]
    BY <2>1 DEF Edit
  <2>4. InStep(form) /\ Sound(form)
    BY <2>3, ActsPatient DEF Fits, PageFits
  <2> HIDE DEF x
  <2>5. /\ form'.step = x
        /\ UNCHANGED <<form.mode, form.words, form.ack, form.pwd, form.confirm>>
    BY <1>0, <2>3 DEF Forms
  <2>6. InStep(form')
    BY <2>2, <2>5 DEF InStep
  <2>7. Sound(form)'
    <3>1. acked \subseteq 1..MaxSeeds
      BY DEF Typed, HistoryOK
    <3>2. form.step = "review" /\ form.mode = "create" => form.words # 0
      BY <2>4, <3>1 DEF Sound
    <3>3. x \in {"seed-reveal", "restore", "review"} =>
            form.step = "review" /\ form.mode # "none" /\ x = Middle(form.mode)
      BY <2>2
    <3>4. form.mode # "none" => Middle(form.mode) # "review"
      BY <1>0 DEF Middle, Modes
    <3>5. Middle(form.mode) = "seed-reveal" => form.mode = "create"
      BY DEF Middle
    <3>6. (x \in {"seed-reveal", "restore", "review"} => Agreed(form)) /\ x # "review"
      BY <2>4, <3>3, <3>4 DEF Sound
    <3>7. x = "seed-reveal" => form.words # 0
      BY <3>2, <3>3, <3>5
    <3> QED BY <2>3, <2>4, <2>5, <3>6, <3>7 DEF Sound, Agreed
  <2> QED BY <2>3, <2>6, <2>7, EditFits
<1>4. CASE Leave
  <2>1. ~hurried /\ Fits /\ form' = Blank /\ awaits' = NoAwaits /\ UNCHANGED <<flow, acked>>
    BY <1>4 DEF Leave, Gone, Patient, history
  <2>2. SeedFits' /\ PageFits'
    BY <2>1, BlankFits, BlankIs DEF SeedFits, PageFits, Sound
  <2>3. LaunchFits'
    BY <2>1 DEF Fits, LaunchFits, flow
  <2> QED BY <2>2, <2>3 DEF Fits
<1>5. CASE NextOnNode
  <2>1. Acts /\ UNCHANGED acked /\ InStep(form) /\ Sound(form) /\ awaits.seed = 0
    BY <1>5, ActsPatient DEF NextOnNode, Fits, PageFits
  <2>2. CASE ValidNode /\ awaits' = [awaits EXCEPT !.check[form.dir] = @ + 1] /\ UNCHANGED form
    <3>1. awaits'.seed = 0
      BY <2>1, <2>2 DEF Typed, PageOK, Awaits
    <3> QED BY <2>1, <2>2, <3>1, ActsPatient DEF Fits, SeedFits, LaunchFits, PageFits, Sound
  <2>3. CASE /\ form' = [form EXCEPT !.dirError = IF form.dir = None THEN "required" ELSE @]
             /\ UNCHANGED awaits
    <3>1. UNCHANGED <<form.step, form.mode, form.words, form.ack, form.pwd, form.confirm>>
      BY <1>0, <2>3 DEF Forms
    <3>2. InStep(form') /\ Sound(form)'
      BY <2>1, <3>1 DEF InStep, Sound, Agreed
    <3> QED BY <2>1, <2>3, <3>2, EditFits
  <2> QED BY <1>5, <2>2, <2>3 DEF NextOnNode
<1>6. CASE HandleNext
  <2>1. /\ Acts /\ UNCHANGED acked /\ Valid /\ InStep(form) /\ Sound(form) /\ awaits.seed = 0
        /\ Agreed(form)
    BY <1>6, ActsPatient DEF HandleNext, Fits, PageFits, Valid, Sound, Agreed
  <2>2. form.step = "password" \/ form.step = Middle(form.mode)
    BY <2>1 DEF Valid, InStep
  <2>3. IF form.step = "password" THEN After(form) = Middle(form.mode) ELSE After(form) = "review"
    BY <1>0, <2>2, AfterIs
  <2>4. CASE NeedsSeed /\ awaits' = [awaits EXCEPT !.seed = @ + 1] /\ UNCHANGED form
    <3>1. form.mode = "create" /\ form.words = 0
      BY <2>3, <2>4 DEF NeedsSeed, Middle
    <3>2. awaits'.seed = 1
      BY <2>1, <2>4 DEF Typed, PageOK, Awaits
    <3> QED BY <2>1, <2>4, <3>1, <3>2, ActsPatient
            DEF Fits, SeedFits, LaunchFits, PageFits, Sound
  <2>5. CASE ~NeedsSeed /\ form' = [form EXCEPT !.step = After(form)] /\ UNCHANGED awaits
    <3>1. /\ form'.step = After(form)
          /\ UNCHANGED <<form.mode, form.words, form.ack, form.pwd, form.confirm>>
      BY <1>0, <2>5 DEF Forms
    <3>2. InStep(form')
      BY <2>3, <3>1 DEF InStep
    <3>3. After(form) = "seed-reveal" => form.words # 0
      BY <2>5 DEF NeedsSeed
    <3>4. After(form) = "review" /\ form.mode = "create" => form.words \in acked
      BY <2>1, <2>2, <2>3 DEF Valid, Sound, Middle
    <3>5. Sound(form)'
      BY <2>1, <3>1, <3>3, <3>4 DEF Sound, Agreed
    <3> QED BY <2>1, <2>5, <3>2, <3>5, EditFits
  <2> QED BY <1>6, <2>4, <2>5 DEF HandleNext
<1>7. CASE Launch
  <2>1. ~hurried /\ Fits /\ awaits = NoAwaits /\ phase = "idle" /\ UNCHANGED <<page, acked>>
        /\ phase' = "verifying" /\ launch' = form /\ form.step = "review"
    BY <1>7 DEF Launch, Patient, Typed, HistoryOK
  <2>2. LaunchFits' /\ PageFits' /\ SeedFits'
    BY <2>1 DEF Fits, LaunchFits, PageFits, SeedFits, Sound, Agreed, page
  <2> QED BY <2>2 DEF Fits
<1>8. CASE ResetLaunch
  <2>1. ~hurried /\ Fits /\ UNCHANGED <<awaits, acked>> /\ phase = "error" /\ phase' = "idle"
        /\ awaits = NoAwaits
    BY <1>8 DEF ResetLaunch, Patient, history, Fits, LaunchFits
  <2>2. /\ form'.ack = FALSE
        /\ UNCHANGED <<form.step, form.mode, form.words, form.pwd, form.confirm>>
    BY <1>0, <1>8 DEF ResetLaunch, Forms
  <2>3. PageFits' /\ SeedFits' /\ LaunchFits'
    BY <2>1, <2>2, BlankIs
       DEF Fits, PageFits, InStep, Sound, Agreed, SeedFits, LaunchFits
  <2> QED BY <2>3 DEF Fits
<1>9. ASSUME NEW d \in Dirs, ChooseNodeDir(d) PROVE Fits'
  <2>1. Acts /\ UNCHANGED acked /\ InStep(form) /\ Sound(form) /\ awaits.seed = 0
    BY <1>9, ActsPatient DEF ChooseNodeDir, Fits, PageFits
  <2>2. UNCHANGED <<form.step, form.mode, form.words, form.ack, form.pwd, form.confirm>>
    BY <1>0, <1>9 DEF ChooseNodeDir, Forms
  <2>3. awaits'.seed = 0
    BY <1>9, <2>1 DEF ChooseNodeDir, Typed, PageOK, Awaits
  <2>4. InStep(form') /\ Sound(form)'
    BY <2>1, <2>2 DEF InStep, Sound, Agreed
  <2> QED BY <2>1, <2>3, <2>4, ActsPatient DEF Fits, SeedFits, LaunchFits, PageFits
<1>10. ASSUME NEW m \in Modes \ {"none"}, ChooseMode(m) PROVE Fits'
  <2>1. Acts /\ UNCHANGED <<awaits, acked>> /\ Sound(form) /\ form.step = "wallet-mode"
    BY <1>10, ActsPatient DEF ChooseMode, Edit, Fits, PageFits
  <2>2. After(form) = "password"
    BY <1>0, <2>1, AfterIs
  <2>3. form'.step = "password" /\ UNCHANGED <<form.words, form.ack, form.pwd, form.confirm>>
    BY <1>0, <1>10, <2>2 DEF ChooseMode, Edit, Forms
  <2>4. InStep(form') /\ Sound(form)'
    BY <2>1, <2>3 DEF InStep, Sound
  <2> QED BY <2>1, <2>4, EditFits
<1>11. ASSUME NEW p \in Texts, EditPassword(p) \/ EditConfirm(p) PROVE Fits'
  <2>1. Acts /\ UNCHANGED <<awaits, acked>> /\ Sound(form) /\ form.step = "password"
    BY <1>11, ActsPatient DEF EditPassword, EditConfirm, Edit, Fits, PageFits
  <2>2. UNCHANGED <<form.step, form.mode, form.words, form.ack>>
    BY <1>0, <1>11 DEF EditPassword, EditConfirm, Edit, Forms
  <2>3. InStep(form') /\ Sound(form)'
    BY <2>1, <2>2 DEF InStep, Sound
  <2> QED BY <2>1, <2>3, EditFits
<1> QED BY <1>1, <1>2, <1>3, <1>4, <1>5, <1>6, <1>7, <1>8, <1>9, <1>10, <1>11 DEF User

\* An answer finds the page that asked for it.
LEMMA AnswerPatient == Typed /\ Fits /\ Answer => Fits'
<1> SUFFICES ASSUME Typed, Fits, Answer PROVE Fits'
  OBVIOUS
<1>0. /\ form \in Forms /\ awaits \in Awaits /\ UNCHANGED <<phase, launch, acked>>
      /\ InStep(form) /\ SeedFits /\ LaunchFits
  BY DEF Answer, DirChecked, SeedGenerated, Defaulted, DirEmptyAnswered, Answers, flow,
         history, Typed, PageOK, Fits, PageFits
<1>1. awaits # NoAwaits
  <2>1. CASE awaits = NoAwaits
    <3>1. /\ awaits.seed = 0 /\ awaits.default = FALSE /\ awaits.empty = None
          /\ \A d \in Dirs : awaits.check[d] = 0
      BY <2>1, BlankIs DEF NoAwaits
    <3> QED BY <3>1 DEF Answer, DirChecked, SeedGenerated, Defaulted, DirEmptyAnswered
  <2> QED BY <2>1
<1>2. phase = "idle" /\ phase' = "idle" /\ Sound(form) /\ LaunchFits'
  BY <1>0, <1>1 DEF LaunchFits, Fits, PageFits
<1>3. ASSUME NEW d \in Dirs, DirChecked(d) PROVE Fits'
  <2>1. awaits'.seed = awaits.seed
    BY <1>0, <1>3 DEF DirChecked, Awaits
  <2>2. /\ form'.step \in {form.step, "wallet-mode"}
        /\ UNCHANGED <<form.mode, form.words, form.ack, form.pwd, form.confirm>>
    BY <1>0, <1>3 DEF DirChecked, Forms
  <2>3. InStep(form') /\ Sound(form)' /\ SeedFits'
    BY <1>0, <1>2, <2>1, <2>2 DEF InStep, Sound, Agreed, SeedFits
  <2> QED BY <1>2, <2>3 DEF Fits, PageFits
<1>4. CASE SeedGenerated
  <2>1. awaits.seed = 1 /\ form.mode = "create" /\ form.words = 0 /\ Agreed(form)
    BY <1>0, <1>4 DEF SeedGenerated, SeedFits
  <2>2. awaits'.seed = 0
    <3>1. awaits' = [awaits EXCEPT !.seed = awaits.seed - 1]
      BY <1>4 DEF SeedGenerated
    <3>2. awaits.seed - 1 = 0
      BY <2>1
    <3> QED BY <1>0, <3>1, <3>2 DEF Awaits
  <2>3. ~form.ack
    BY <1>2, <2>1 DEF Sound, Typed, HistoryOK
  <2>4. ASSUME NEW w \in 1..MaxSeeds, form' = [form EXCEPT !.words = w, !.step = "seed-reveal"]
        PROVE  InStep(form') /\ Sound(form)'
    <3>1. /\ form'.step = "seed-reveal" /\ form'.words # 0
          /\ UNCHANGED <<form.mode, form.ack, form.pwd, form.confirm>>
      <4>1. w # 0
        OBVIOUS
      <4> QED BY <1>0, <2>4, <4>1 DEF Forms
    <3> QED BY <2>1, <2>3, <3>1 DEF InStep, Sound, Middle, Agreed
  <2>5. CASE UNCHANGED form
    BY <1>0, <1>2, <1>4, <2>2, <2>5 DEF Fits, PageFits, SeedFits, Sound
  <2>6. CASE ~UNCHANGED form
    <3>1. PICK w \in 1..MaxSeeds : form' = [form EXCEPT !.words = w, !.step = "seed-reveal"]
      BY <1>4, <2>6 DEF SeedGenerated
    <3>2. InStep(form') /\ Sound(form)'
      BY <2>4, <3>1
    <3> QED BY <1>2, <2>2, <3>2 DEF Fits, PageFits, SeedFits
  <2> QED BY <2>5, <2>6
<1>5. CASE Defaulted \/ DirEmptyAnswered
  <2>1. awaits'.seed = awaits.seed
    BY <1>0, <1>5 DEF Defaulted, DirEmptyAnswered, Awaits
  <2>2. UNCHANGED <<form.step, form.mode, form.words, form.ack, form.pwd, form.confirm>>
    BY <1>0, <1>5 DEF Defaulted, DirEmptyAnswered, Forms
  <2>3. InStep(form') /\ Sound(form)' /\ SeedFits'
    BY <1>0, <1>2, <2>1, <2>2 DEF InStep, Sound, Agreed, SeedFits
  <2> QED BY <1>2, <2>3 DEF Fits, PageFits
<1> QED BY <1>3, <1>4, <1>5 DEF Answer

\* The launch goes on from its own copy of the page.
LEMMA LaunchPatient == Typed /\ Fits /\ (LaunchStep \/ PollTimeout) => Fits'
<1> SUFFICES ASSUME Typed, Fits, LaunchStep \/ PollTimeout PROVE Fits'
  OBVIOUS
<1>1. phase # "idle" /\ UNCHANGED <<launch, acked>> /\ LaunchFits /\ SeedFits /\ PageFits
  BY DEF LaunchStep, Verified, Started, Polled, Initialized, Settled, Saved, Fails,
         PollTimeout, Moves, history, Fits
<1>2. LaunchFits'
  <2>1. awaits' = NoAwaits
    BY <1>1 DEF LaunchStep, Verified, Started, Polled, Initialized, Settled, Saved, Fails,
       PollTimeout, Moves, page, Gone, LaunchFits
  <2> QED BY <1>1, <2>1 DEF LaunchFits
<1>3. SeedFits'
  <2>1. awaits' = NoAwaits
    BY <1>1 DEF LaunchStep, Verified, Started, Polled, Initialized, Settled, Saved, Fails,
       PollTimeout, Moves, page, Gone, LaunchFits
  <2> QED BY <2>1, BlankIs DEF SeedFits
<1>4. PageFits'
  <2>1. CASE UNCHANGED form /\ phase # "done"
    BY <1>1, <2>1 DEF PageFits, Sound
  <2>2. CASE Settled
    <3>1. UNCHANGED <<form.step, form.mode>> /\ phase' = "done"
      BY <2>2 DEF Settled, Typed, PageOK, Forms
    <3> QED BY <1>1, <3>1 DEF PageFits, InStep
  <2>3. CASE Saved
    BY <2>3, BlankFits DEF Saved, Gone, PageFits, Sound, history
  <2>4. LaunchStep \/ PollTimeout
          => Settled \/ Saved \/ (UNCHANGED form /\ phase # "done")
    BY DEF LaunchStep, Verified, Started, Polled, Initialized, Fails, PollTimeout, Moves, page
  <2> QED BY <2>1, <2>2, <2>3, <2>4
<1> QED BY <1>2, <1>3, <1>4 DEF Fits

LEMMA PatientStep == Typed /\ Patient /\ [Next]_vars => Patient'
<1> SUFFICES ASSUME Typed, Patient, [Next]_vars, ~hurried' PROVE Fits'
  BY DEF Patient
<1>1. CASE User
  BY <1>1, UserPatient
<1>2. CASE Answer
  <2>1. UNCHANGED hurried
    BY <1>2 DEF Answer, DirChecked, SeedGenerated, Defaulted, DirEmptyAnswered, Answers,
       history
  <2> QED BY <1>2, <2>1, AnswerPatient DEF Patient
<1>3. CASE LaunchStep \/ PollTimeout
  <2>1. UNCHANGED hurried
    BY <1>3 DEF LaunchStep, Verified, Started, Polled, Initialized, Settled, Saved, Fails,
       PollTimeout, Moves, history
  <2> QED BY <1>3, <2>1, LaunchPatient DEF Patient
<1>4. CASE NodeUp \/ NodeDown \/ NodeRetries \/ UNCHANGED vars
  <2>1. UNCHANGED <<page, flow, history>>
    BY <1>4 DEF NodeUp, NodeDown, NodeRetries, vars
  <2> QED BY <2>1 DEF Patient, Fits, SeedFits, LaunchFits, PageFits, Sound, page, flow, history
<1> QED BY <1>1, <1>2, <1>3, <1>4 DEF Next

LEMMA InitPatient == Init => Patient
<1> SUFFICES ASSUME Init PROVE Fits
  BY DEF Patient
<1>1. awaits.seed = 0
  BY DEF Init, NoAwaits
<1> QED BY <1>1, BlankFits DEF Init, Fits, SeedFits, LaunchFits, PageFits

\* The step that is shown is one of the mode's, for a user who lets a step answer before the
\* next click: only such an answer moves the page.
THEOREM InOrderHolds == Spec => []StepInOrder
<1>1. Typed /\ Patient => StepInOrder
  BY InOrderIs DEF Typed, PageOK, Patient, Fits, PageFits, InStep, StepInOrder
<1> QED BY <1>1, InitTyped, TypeStep, InitPatient, PatientStep, PTL DEF Spec

\* What is launched was confirmed: for such a user the password is the one typed twice, and
\* the phrase one whose box was ticked while it was shown.
THEOREM ConfirmedHolds == Spec => []LaunchConfirmed
<1>1. Patient => LaunchConfirmed
  BY DEF Patient, Fits, LaunchFits, Agreed, LaunchConfirmed
<1> QED BY <1>1, InitTyped, TypeStep, InitPatient, PatientStep, PTL DEF Spec

=============================================================================
