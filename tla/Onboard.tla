------------------------------ MODULE Onboard -------------------------------
(***************************************************************************)
(* The wizard of a new node (pages/Onboard): its steps, whose order depends *)
(* on the mode of the wallet, the requests a step awaits before the next is *)
(* shown, and the launch, a chain of awaited calls to the daemon.           *)
(*                                                                         *)
(* A handler keeps the values of the render it was called in (mode, step,   *)
(* directory, words) and the page stays editable while it waits.  One visit *)
(* of the page; the launch goes on when the page is left.                   *)
(***************************************************************************)
EXTENDS Integers, Sequences, FiniteSets, Functions

CONSTANTS
  Dirs,          \* directories that can be chosen
  DefaultDir,    \* the platform's default
  Nodes,         \* those that already hold a node with its wallet
  Full,          \* those that are not empty
  Passwords,     \* passwords of eight characters or more
  None, Short,   \* no directory, a shorter password
  MaxSeeds,      \* bound: phrases generated
  MaxAwaits      \* bound: requests of the page awaited at once

ASSUME OnboardAssumption ==
  /\ DefaultDir \in Dirs /\ Nodes \subseteq Full /\ Full \subseteq Dirs
  /\ None \notin Dirs /\ Short \notin Passwords
  /\ MaxSeeds \in Nat \ {0} /\ MaxAwaits \in Nat \ {0}

VARIABLES
  here,          \* the page is shown
  form,          \* the state of the page: step, mode, the fields and their errors
  awaits,        \* the requests its handlers await
  phase,         \* how far the launch is
  launch,        \* what it was started with
  daemon, home,  \* the node that runs, and its directory
  holds,         \* directories with a wallet
  data,          \* directories with node data
  acked,         \* history: phrases ticked while they were shown
  hurried        \* history: the user acted while a request was awaited

page == <<here, form, awaits>>
flow == <<phase, launch>>
node == <<daemon, home, holds, data>>
history == <<acked, hurried>>
vars == <<page, flow, node, history>>

Steps == {"node", "wallet-mode", "password", "seed-reveal", "restore", "review"}
Modes == {"none", "create", "restore"}
InFlight == {"verifying", "starting", "waiting-nowallet", "initializing-wallet", "settling"}
Phases == InFlight \cup {"idle", "done", "saved", "error"}
Texts == Passwords \cup {Short}

\* filled: the alias is given and the addresses are well formed; typed: the phrase or the
\* hex to restore is complete; words: the generated phrase, by number; ack: its box.
Forms ==
  [step : Steps, mode : Modes, filled : BOOLEAN, dir : Dirs \cup {None},
   dirError : {"", "required", "not_empty", "exists"}, pwd : Texts, confirm : Texts,
   typed : BOOLEAN, words : 0..MaxSeeds, ack : BOOLEAN]

\* default: the mount effect; empty: the directory whose emptiness is asked; check: the
\* Nexts on a directory; seed: the Nexts that want a phrase.
Awaits == [default : BOOLEAN, empty : Dirs \cup {None}, check : [Dirs -> Nat], seed : Nat]

Blank ==
  [step |-> "node", mode |-> "none", filled |-> FALSE, dir |-> None, dirError |-> "",
   pwd |-> Short, confirm |-> Short, typed |-> FALSE, words |-> 0, ack |-> FALSE]
NoAwaits == [default |-> FALSE, empty |-> None, check |-> [d \in Dirs |-> 0], seed |-> 0]

TypeOK ==
  /\ here \in BOOLEAN /\ form \in Forms /\ awaits \in Awaits
  /\ phase \in Phases /\ launch \in Forms
  /\ daemon \in {"off", "starting", "noWallet", "locked", "open", "down"}
  /\ home \in Dirs \cup {None} /\ holds \subseteq data /\ data \subseteq Dirs
  /\ acked \subseteq 1..MaxSeeds /\ hurried \in BOOLEAN

Init ==
  /\ here = TRUE /\ form = Blank /\ awaits = [NoAwaits EXCEPT !.default = TRUE]
  /\ phase = "idle" /\ launch = Blank
  /\ daemon = "off" /\ home = None /\ holds = Nodes /\ data = Nodes
  /\ acked = {} /\ hurried = FALSE

-----------------------------------------------------------------------------
(* The order of the steps *)

Order(m) ==
  CASE m = "create" -> <<"node", "wallet-mode", "password", "seed-reveal", "review">>
    [] m = "restore" -> <<"node", "wallet-mode", "password", "restore", "review">>
    [] OTHER -> <<"node", "wallet-mode", "password", "review">>

Places(m, s) == {i \in DOMAIN Order(m) : Order(m)[i] = s}

\* Mutant: one order for both modes.
After_OneOrder(f) ==
  LET next == {i \in Places("create", f.step) : i < Len(Order("create"))}
  IN IF next = {} THEN f.step ELSE Order("create")[(CHOOSE i \in next : TRUE) + 1]

\* goNext in a render of f; a step outside the order leads nowhere.
After(f) ==
  LET next == {i \in Places(f.mode, f.step) : i < Len(Order(f.mode))}
  IN IF next = {} THEN f.step ELSE Order(f.mode)[(CHOOSE i \in next : TRUE) + 1]

-----------------------------------------------------------------------------
(* The user on the pages of the wizard *)

Awaited ==
  awaits.seed + SumFunction(awaits.check)
    + (IF awaits.default THEN 1 ELSE 0) + (IF awaits.empty # None THEN 1 ELSE 0)
MayAwait == Awaited < MaxAwaits

\* A click or a key on the wizard; the overlay of a launch hides it.
Acts ==
  /\ here /\ phase = "idle" /\ hurried' = (hurried \/ awaits # NoAwaits)
  /\ UNCHANGED <<here, flow, node>>

Edit(s, f) == Acts /\ form.step = s /\ form' = f /\ UNCHANGED <<awaits, acked>>

Fill == Edit("node", [form EXCEPT !.filled = ~@])

\* chooseNodeDir: the directory is taken over before the answer to dir-empty is known.
ChooseNodeDir(d) ==
  /\ Acts /\ form.step = "node" /\ d # form.dir /\ awaits.empty = None /\ MayAwait
  /\ form' = [form EXCEPT !.dir = d] /\ awaits' = [awaits EXCEPT !.empty = d]
  /\ UNCHANGED acked

\* A card of the wallet-mode step; goNext has the order of the former mode.
ChooseMode(m) == Edit("wallet-mode", [form EXCEPT !.mode = m, !.step = After(form)])

EditPassword(p) == p # form.pwd /\ Edit("password", [form EXCEPT !.pwd = p])

EditConfirm(p) == p # form.confirm /\ Edit("password", [form EXCEPT !.confirm = p])

\* A key in the restore step, or its other tab.
EditRestore == Edit("restore", [form EXCEPT !.typed = ~@])

ToggleAck ==
  /\ Acts /\ form.step = "seed-reveal" /\ form' = [form EXCEPT !.ack = ~@]
  /\ acked' = IF form.ack THEN acked ELSE acked \cup ({form.words} \ {0})
  /\ UNCHANGED awaits

\* goBack, on a step that has one before it; elsewhere it leaves.
GoBack ==
  \E i \in Places(form.mode, form.step) :
    i > 1 /\ Edit(form.step, [form EXCEPT !.step = Order(form.mode)[i - 1]])

\* The state of a page that is left is lost, and answers find nobody.
Gone == here' = FALSE /\ form' = Blank /\ awaits' = NoAwaits

\* goBack on the first step, the cross, and the logo above the overlay.
Leave == here /\ Gone /\ UNCHANGED <<flow, node, history>>

-----------------------------------------------------------------------------
(* handleNext, and the answers it awaits *)

ValidNode ==
  form.filled /\ form.dir # None /\ form.dirError \notin {"not_empty", "exists"}

\* check-dir is asked for a valid form only; a directory that is missing is marked.
NextOnNode ==
  /\ Acts /\ form.step = "node" /\ UNCHANGED acked
  /\ \/ /\ ValidNode /\ MayAwait
        /\ awaits' = [awaits EXCEPT !.check[form.dir] = @ + 1] /\ UNCHANGED form
     \/ /\ ~ValidNode
        /\ form' = [form EXCEPT !.dirError = IF form.dir = None THEN "required" ELSE @]
        /\ UNCHANGED awaits

\* validatePassword, the box of seed-reveal, validateRestore.
Valid ==
  \/ form.step = "password" /\ form.pwd # Short /\ form.pwd = form.confirm
  \/ form.step = "seed-reveal" /\ form.ack
  \/ form.step = "restore" /\ form.typed

\* Mutant: a phrase is asked for although there is one.
NeedsSeed_Always == After(form) = "seed-reveal"

NeedsSeed == After(form) = "seed-reveal" /\ form.words = 0

\* Nothing marks a Next that awaits its phrase: another may follow.
HandleNext ==
  /\ Acts /\ Valid /\ UNCHANGED acked
  /\ \/ /\ NeedsSeed /\ MayAwait
        /\ awaits' = [awaits EXCEPT !.seed = @ + 1] /\ UNCHANGED form
     \/ /\ ~NeedsSeed
        /\ form' = [form EXCEPT !.step = After(form)] /\ UNCHANGED awaits

Answers == here /\ UNCHANGED <<here, flow, node, history>>

\* The answer to check-dir, or its failure; the step becomes the one after "node",
\* whatever it is by now.
DirChecked(d) ==
  /\ Answers /\ awaits.check[d] > 0
  /\ awaits' = [awaits EXCEPT !.check[d] = @ - 1]
  /\ \/ form' = IF d \in data THEN [form EXCEPT !.dirError = "exists"]
                ELSE [form EXCEPT !.dirError = "", !.step = "wallet-mode"]
     \/ UNCHANGED form

\* The phrase arrives, or not; it was asked for on the password step of a create order.
SeedGenerated ==
  /\ Answers /\ awaits.seed > 0
  /\ awaits' = [awaits EXCEPT !.seed = @ - 1]
  /\ \/ \E w \in 1..MaxSeeds :
          /\ w = form.words + 1
          /\ form' = [form EXCEPT !.words = w, !.step = "seed-reveal"]
     \/ UNCHANGED form

\* The mount effect proposes the default directory unless it holds a node.
Defaulted ==
  /\ Answers /\ awaits.default /\ awaits' = [awaits EXCEPT !.default = FALSE]
  /\ form' = IF DefaultDir \in data THEN form ELSE [form EXCEPT !.dir = DefaultDir]

DirEmptyAnswered ==
  /\ Answers /\ awaits.empty # None /\ awaits' = [awaits EXCEPT !.empty = None]
  /\ \/ form' = [form EXCEPT !.dirError =
                   IF awaits.empty \in Full \cup data THEN "not_empty" ELSE ""]
     \/ UNCHANGED form

-----------------------------------------------------------------------------
(* handleLaunch *)

\* The handler has the form as it is now.
Launch ==
  /\ here /\ form.step = "review" /\ phase = "idle"
  /\ phase' = "verifying" /\ launch' = form
  /\ hurried' = (hurried \/ awaits # NoAwaits)
  /\ UNCHANGED <<page, node, acked>>

Moves(p, q) == phase = p /\ phase' = q /\ UNCHANGED <<page, launch, history>>

Verified == Moves("verifying", "starting") /\ UNCHANGED node

\* POST /api/node/start: a service that is attached restarts, with this directory.
Started ==
  /\ Moves("starting", "waiting-nowallet")
  /\ daemon' = "starting" /\ home' = launch.dir /\ UNCHANGED <<holds, data>>

\* Mutant: a locked wallet counts as an answer too.
Polled_TakesLocked ==
  daemon \in {"noWallet", "locked"} /\ Moves("waiting-nowallet", "initializing-wallet")
  /\ UNCHANGED node

\* The first pollUntil: a wallet that is already there ends the launch.
Polled ==
  /\ \/ daemon = "noWallet" /\ Moves("waiting-nowallet", "initializing-wallet")
     \/ daemon = "locked" /\ Moves("waiting-nowallet", "error")
  /\ UNCHANGED node

\* Mutant: only a daemon that is down ends the wait.
PollTimeout_WhenDown ==
  daemon = "down" /\ Moves("waiting-nowallet", "error") /\ UNCHANGED node

PollTimeout == Moves("waiting-nowallet", "error") /\ UNCHANGED node

MakesWallet ==
  /\ daemon = "noWallet" /\ daemon' = "open" /\ holds' = holds \cup {home}
  /\ UNCHANGED <<home, data>>

\* POST /api/wallet/init makes the wallet unless the daemon cannot; the answer may be
\* lost on the way.
Initialized ==
  \/ MakesWallet /\ Moves("initializing-wallet", "settling")
  \/ (MakesWallet \/ UNCHANGED node) /\ Moves("initializing-wallet", "error")

\* The second pollUntil, whose timeout is no failure; the words are forgotten.
Settled ==
  /\ phase = "settling" /\ phase' = "done" /\ form' = [form EXCEPT !.words = 0]
  /\ UNCHANGED <<here, awaits, launch, node, history>>

\* The record is written, or not, and the page of the node opens.
Saved == phase = "done" /\ phase' = "saved" /\ Gone /\ UNCHANGED <<launch, node, history>>

Fails == (Moves("verifying", "error") \/ Moves("starting", "error")) /\ UNCHANGED node

\* resetLaunch: the overlay closes and the box is no longer ticked.
ResetLaunch ==
  /\ here /\ phase = "error" /\ phase' = "idle" /\ launch' = Blank
  /\ form' = [form EXCEPT !.ack = FALSE]
  /\ UNCHANGED <<here, awaits, node, history>>

-----------------------------------------------------------------------------
(* The node as the wizard uses it: it comes up, crashes and is tried again *)

\* Mutant: the directory holds nothing until the node has a wallet.
NodeUp_NoData ==
  /\ daemon = "starting" /\ daemon' = IF home \in holds THEN "locked" ELSE "noWallet"
  /\ UNCHANGED <<page, flow, home, holds, data, history>>

NodeUp ==
  /\ daemon = "starting" /\ data' = data \cup {home}
  /\ daemon' = IF home \in holds THEN "locked" ELSE "noWallet"
  /\ UNCHANGED <<page, flow, home, holds, history>>

NodeDown ==
  /\ daemon \in {"starting", "noWallet", "locked", "open"} /\ daemon' = "down"
  /\ UNCHANGED <<page, flow, home, holds, data, history>>

NodeRetries ==
  /\ daemon = "down" /\ daemon' = "starting"
  /\ UNCHANGED <<page, flow, home, holds, data, history>>

User ==
  \/ Fill \/ EditRestore \/ ToggleAck \/ GoBack \/ Leave \/ NextOnNode \/ HandleNext
  \/ Launch \/ ResetLaunch
  \/ \E d \in Dirs : ChooseNodeDir(d)
  \/ \E m \in Modes \ {"none"} : ChooseMode(m)
  \/ \E p \in Texts : EditPassword(p) \/ EditConfirm(p)

Answer == (\E d \in Dirs : DirChecked(d)) \/ SeedGenerated \/ Defaulted \/ DirEmptyAnswered

LaunchStep == Verified \/ Started \/ Polled \/ Initialized \/ Settled \/ Saved \/ Fails

Next == User \/ Answer \/ LaunchStep \/ PollTimeout \/ NodeUp \/ NodeDown \/ NodeRetries

Spec == Init /\ [][Next]_vars

\* The handlers of the API answer and the timer of a poll runs out; nothing else is
\* promised, least of all that the node comes up.
LiveSpec == Spec /\ WF_vars(LaunchStep) /\ WF_vars(PollTimeout)

-----------------------------------------------------------------------------
(* What the wizard guarantees *)

\* The step that is shown is one of the mode's: "Linear, mode-dependent ordering"
\* (Onboard.tsx), for a user who lets a step answer before the next click.
StepInOrder == ~hurried => Places(form.mode, form.step) # {}

\* What is launched was confirmed: for such a user the password is the one typed twice,
\* and the phrase one whose box was ticked while it was shown.
LaunchConfirmed ==
  phase # "idle" /\ ~hurried =>
    /\ launch.pwd # Short /\ launch.pwd = launch.confirm
    /\ launch.mode = "create" => launch.words \in acked

\* However the directory came to be launched, and however often: a wallet is never
\* initialised where there is one.
InitOnlyFresh ==
  [][phase' = "initializing-wallet" /\ phase # phase' => home \notin holds]_vars

\* A launch does not hang: it ends in the node's page or in an error to dismiss.
LaunchEnds == phase \in InFlight ~> phase \in {"saved", "error"}

-----------------------------------------------------------------------------
(* A statement of the repository that the code does not keep *)

\* "users must confirm saving their seed before the node 'powers on'" (api/wallet.go).
SeedConfirmed == phase # "idle" /\ launch.mode = "create" => launch.words \in acked
=============================================================================
