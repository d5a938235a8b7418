------------------------------- MODULE Launch -------------------------------
(***************************************************************************)
(* Which node is opened, remembered and started: the page / (Main), the    *)
(* launch of a new node (Onboard), the identity store, the pubkey sync of  *)
(* App, and behind them the nodes table and the last_node keys (api/node), *)
(* the validated config and the service (wails/node).                      *)
(*                                                                         *)
(* A start is a chain of awaited calls.  A step of a flow is the answer to *)
(* one of them with all the handler does up to the next.  A call may fail, *)
(* or have its effect and lose its answer: the handler takes both for a    *)
(* failure and the flow ends.  A node is its directory, which is also its  *)
(* pubkey.                                                                 *)
(***************************************************************************)
EXTENDS Integers, FiniteSets

CONSTANTS
  Dirs,         \* directories a node may live in
  DefaultDir,   \* the platform's default
  None, NoRow,  \* no directory, service or pubkey; no row
  Flows         \* bound: the starts the user makes; any of them may overlap

ASSUME LaunchAssumption ==
  DefaultDir \in Dirs /\ None \notin Dirs /\ NoRow \notin Dirs \cup {None}

VARIABLES
  row,        \* the nodes table: the pubkey of a directory's row
  lastKey, lastDir,
  cfg,        \* directory of the last validated config
  service,    \* directory of the attached service
  ready,      \* the service's wallet is open: its pubkey is known
  made,       \* directories that hold node data
  wallets,    \* directories that hold a wallet
  page,
  store,      \* identity store: directory and pubkey
  info,       \* the cached /api/info: running, pubkey
  sent,       \* PATCH /api/node/identity in flight
  asking,     \* /api/node/last is in flight
  sheet,      \* the directories in the modal of recent nodes, with their pubkeys
  starting,   \* autoStarting
  flow,       \* each start in flight
  hurried,    \* history: the user left or started before Main had loaded or a start ended
  left        \* history: the service has run since before the user left the wizard

table == <<row, lastKey, lastDir>>
backend == <<cfg, service, ready, made, wallets, left>>
shown == <<page, store, info, sent>>
main == <<asking, sheet, starting>>
vars == <<table, backend, shown, main, flow, hurried>>

NoPatch == [dir |-> None, key |-> None]
Keys == Dirs \cup {None}
Points == {"idle", "done", "check", "save", "list", "verify", "start",
           "newVerify", "newStart", "newInit", "newSave"}
Idle == [at |-> "idle", dir |-> None, key |-> None]
Done == [at |-> "done", dir |-> None, key |-> None]
NoInfo == [run |-> FALSE, key |-> None]
Closed == [d \in Dirs |-> NoRow]

TypeOK ==
  /\ row \in [Dirs -> Keys \cup {NoRow}] /\ sheet \in [Dirs -> Keys \cup {NoRow}]
  /\ lastKey \in Keys /\ lastDir \in Keys
  /\ cfg \in Keys /\ service \in Keys /\ ready \in BOOLEAN
  /\ made \subseteq Dirs /\ wallets \subseteq made
  /\ page \in {"main", "node", "onboard"}
  /\ store \in [dir : Keys, key : Keys]
  /\ info \in [run : BOOLEAN, key : Keys]
  /\ sent \in [dir : Keys, key : Keys]
  /\ asking \in BOOLEAN /\ starting \in BOOLEAN
  /\ hurried \in BOOLEAN /\ left \in BOOLEAN
  /\ flow \in [Flows -> [at : Points, dir : Keys, key : Keys]]

Init ==
  /\ row = Closed /\ lastKey = None /\ lastDir = None
  /\ cfg = None /\ service = None /\ ready = FALSE /\ made = {} /\ wallets = {}
  /\ page = "main" /\ info = NoInfo /\ sent = NoPatch
  /\ store = [dir |-> None, key |-> None]
  /\ asking = TRUE /\ sheet = Closed /\ starting = FALSE
  /\ flow = [f \in Flows |-> Idle] /\ hurried = FALSE /\ left = FALSE

-----------------------------------------------------------------------------
(* The nodes table and its handlers *)

Known == {d \in Dirs : row[d] # NoRow}
KeyOf(d) == IF row[d] = NoRow THEN None ELSE row[d]

\* Mutant: the row is replaced as the request has it.
SaveConfig_NoInherit(d, k) ==
  /\ row' = [x \in Dirs |-> IF x = d THEN k
                            ELSE IF k # None /\ row[x] = k THEN NoRow ELSE row[x]]
  /\ lastDir' = d
  /\ lastKey' = IF k = None THEN lastKey ELSE k

\* POST /api/node/config: the row of a node that moved here is deleted, a pubkey the
\* request does not give is kept, and the keys of the last node are written.
SaveConfig(d, k) ==
  /\ row' = [x \in Dirs |-> IF x = d THEN (IF k = None THEN KeyOf(d) ELSE k)
                            ELSE IF k # None /\ row[x] = k THEN NoRow ELSE row[x]]
  /\ lastDir' = d
  /\ lastKey' = IF k = None THEN lastKey ELSE k

\* Mutant: nothing refuses a pubkey that another row has.
SaveIdentity_NoIndex(d, k) ==
  /\ row' = [row EXCEPT ![d] = IF k = None THEN KeyOf(d) ELSE k]
  /\ lastKey' = IF k = None THEN lastKey ELSE k
  /\ UNCHANGED lastDir

\* PATCH /api/node/identity: the unique index refuses a pubkey that another row has.
SaveIdentity(d, k) ==
  IF k # None /\ \E x \in Dirs \ {d} : row[x] = k THEN UNCHANGED table
  ELSE /\ row' = [row EXCEPT ![d] = IF k = None THEN KeyOf(d) ELSE k]
       /\ lastKey' = IF k = None THEN lastKey ELSE k
       /\ UNCHANGED lastDir

\* GET /api/node/last: by pubkey, else by directory, else the last opened row, which may
\* be any; the directories it may return.
LastNode ==
  LET byKey == {d \in Known : lastKey # None /\ row[d] = lastKey}
  IN IF byKey # {} THEN byKey
     ELSE IF lastDir \in Known THEN {lastDir} ELSE Known

\* GET /api/node/config: the pubkey of the row, or of the running node's row.
ConfigKey(d) ==
  IF d \in Known THEN row[d]
  ELSE IF ready /\ \E x \in Dirs : row[x] = service THEN service ELSE None

-----------------------------------------------------------------------------
(* The store and the cached info *)

\* The store becomes s and the info i; App's effect then takes over the pubkey of the
\* running node and has it written to the row of the store's directory.  Bound: one such
\* request in flight.
Show(s, i) ==
  LET new == i.run /\ i.key \notin {None, s.key}
  IN /\ info' = i
     /\ store' = IF new THEN [s EXCEPT !.key = i.key] ELSE s
     /\ IF new /\ s.dir # None
          THEN sent = NoPatch /\ sent' = [dir |-> s.dir, key |-> i.key]
          ELSE UNCHANGED sent

\* The answer is not looked at.
Identify ==
  /\ sent # NoPatch /\ sent' = NoPatch
  /\ SaveIdentity(sent.dir, sent.key) \/ UNCHANGED table
  /\ UNCHANGED <<backend, page, store, info, main, flow>>

Info ==
  [run |-> service # None, key |-> IF ready THEN service ELSE None]

\* Main is mounted, and asks for the last node.  When the cached info says that a node
\* runs it leaves for /node at once, whose loader sends it back if none does.
Mount ==
  /\ page' = IF info'.run /\ service' # None THEN "node" ELSE "main"
  /\ asking' = TRUE /\ sheet' = Closed /\ starting' = FALSE

\* It also leaves when the cached info turns to running.
MainLeaves == page' = IF page = "main" /\ info'.run /\ ~info.run THEN "node" ELSE page

Revalidate ==
  /\ info # Info /\ Show(store, Info) /\ MainLeaves
  /\ UNCHANGED <<table, backend, main, flow>>

\* Without a directory in the store, the default.
DefaultStore == IF store.dir = None THEN [store EXCEPT !.dir = DefaultDir] ELSE store

\* fetchLastNode: without a row, or an answer, the directory stays.
FetchLastNode ==
  /\ asking /\ asking' = FALSE
  /\ \/ Show(DefaultStore, info)
     \/ \E d \in LastNode : Show([dir |-> d, key |-> row[d]], info)
  /\ UNCHANGED <<table, backend, page, sheet, starting, flow>>

-----------------------------------------------------------------------------
(* The user on Main *)

InFlight(f) == flow[f].at \notin {"idle", "done"}
Loaded == ~asking /\ info = Info /\ \A f \in Flows : ~InFlight(f)
OnMain == page = "main" /\ ~starting /\ hurried' = (hurried \/ ~Loaded)

\* The alias that shows the button of a directory without data is known with a row.
PowerShown == store.dir \in made \/ (store.dir # None /\ Known # {})

Begin(f, at, d, k) ==
  /\ flow[f].at = "idle"
  /\ flow' = [flow EXCEPT ![f] = [at |-> at, dir |-> d, key |-> k]]

\* startNode; performStart sets autoStarting at once.
StartNode(f) ==
  /\ OnMain /\ PowerShown /\ sheet = Closed
  /\ Begin(f, "verify", store.dir, None)
  /\ starting' = TRUE
  /\ UNCHANGED <<table, backend, shown, asking, sheet>>

\* handleOpenExisting: the modal shows the rows as they are now.
OpenExisting ==
  /\ OnMain /\ sheet = Closed /\ sheet' = row
  /\ UNCHANGED <<table, backend, shown, asking, starting, flow>>

CloseSheet ==
  /\ sheet # Closed /\ sheet' = Closed
  /\ UNCHANGED <<table, backend, shown, asking, starting, flow>>

\* handleSwitchNode: the store is set before anything is saved.
SwitchNode(f, d) ==
  /\ OnMain /\ sheet[d] # NoRow /\ Begin(f, "save", d, sheet[d])
  /\ Show([dir |-> d, key |-> sheet[d]], info)
  /\ sheet' = Closed
  /\ UNCHANGED <<table, backend, page, asking, starting>>

\* chooseNodeDir, from the modal, or in its place: the list handleOpenExisting tests is
\* the one of the last render, which may still be empty.
ChooseNodeDir(f, d) ==
  /\ OnMain
  /\ Begin(f, "check", d, None) /\ sheet' = Closed
  /\ UNCHANGED <<table, backend, shown, asking, starting>>

\* handleRemoveNode, confirmed.  The handler's guard compares the directory with
\* cfg.DataDir, which is never a node's directory.  Without an answer the modal keeps it.
RemoveNode(d) ==
  /\ OnMain /\ sheet[d] # NoRow /\ d # store.dir
  /\ row' = [row EXCEPT ![d] = NoRow]
  /\ sheet' = [sheet EXCEPT ![d] = NoRow] \/ UNCHANGED sheet
  /\ UNCHANGED <<lastKey, lastDir, backend, shown, asking, starting, flow>>

\* handleSaveAlias: the row is touched, or made, without a pubkey.
SaveAlias ==
  /\ OnMain /\ sheet = Closed /\ PowerShown
  /\ SaveIdentity(store.dir, None)
  /\ UNCHANGED <<backend, shown, main, flow>>

\* The watchdog of a manual start: the start itself goes on.
StartTimeout ==
  /\ starting /\ starting' = FALSE
  /\ UNCHANGED <<table, backend, shown, asking, sheet, flow>>

-----------------------------------------------------------------------------
(* The steps of a start *)

Goto(f, at) == flow' = [flow EXCEPT ![f].at = at]
End(f) == flow' = [flow EXCEPT ![f] = Done]
At(f, at) == flow[f].at = at

\* POST /api/node/start runs the validated config, whoever validated it; an attached
\* service is restarted with it.
Run ==
  /\ service' = cfg /\ ready' = FALSE /\ made' = made \cup {cfg} /\ left' = FALSE
  /\ UNCHANGED <<cfg, wallets>>

\* POST /api/wallet/init makes the wallet in the node that runs.
MakeWallet ==
  /\ service # None /\ service \notin wallets
  /\ wallets' = wallets \cup {service}
  /\ UNCHANGED <<cfg, service, ready, made, left>>

\* What the backend does for the request that the flow waits for.
Served(f) ==
  \/ At(f, "save") /\ SaveConfig(flow[f].dir, flow[f].key) /\ UNCHANGED backend
  \/ /\ flow[f].at \in {"verify", "newVerify"} /\ cfg' = flow[f].dir
     /\ UNCHANGED <<table, service, ready, made, wallets, left>>
  \/ flow[f].at \in {"start", "newStart"} /\ Run /\ UNCHANGED table
  \/ At(f, "newInit") /\ MakeWallet /\ UNCHANGED table
  \/ At(f, "newSave") /\ SaveConfig(flow[f].dir, None) /\ UNCHANGED backend

\* A request fails, or it is served and its answer is lost: the handler's catch.
Fail(f) ==
  /\ InFlight(f) /\ ~At(f, "newSave")
  /\ Served(f) \/ UNCHANGED <<table, backend>>
  /\ End(f)
  /\ starting' = (starting /\ flow[f].at \notin {"verify", "start"})
  /\ UNCHANGED <<shown, asking, sheet>>

CheckDir(f) ==
  /\ At(f, "check") /\ flow[f].dir \in made
  /\ LET d == flow[f].dir
         k == ConfigKey(d)
     IN /\ flow' = [flow EXCEPT ![f] = [at |-> "save", dir |-> d, key |-> k]]
        /\ Show([dir |-> d, key |-> k], info)
  /\ UNCHANGED <<table, backend, page, main>>

Save(f) ==
  /\ At(f, "save") /\ Served(f) /\ Goto(f, "list")
  /\ UNCHANGED <<shown, main>>

\* After the list performStart begins: it reads the row's config and has it verified.
List(f) ==
  /\ At(f, "list") /\ starting' = TRUE /\ Goto(f, "verify")
  /\ UNCHANGED <<table, backend, shown, asking, sheet>>

\* Mutant: the config in memory is taken for valid.
Verify_Cached(f, at, next) ==
  /\ At(f, at) /\ cfg' = (IF cfg = None THEN flow[f].dir ELSE cfg) /\ Goto(f, next)
  /\ UNCHANGED <<table, service, ready, made, wallets, left, shown, main>>

Verify(f, at, next) ==
  /\ At(f, at) /\ Served(f) /\ Goto(f, next)
  /\ UNCHANGED <<shown, main>>

\* The cached info is marked running, and otherwise kept; the page goes to /node.
Start(f) ==
  /\ At(f, "start") /\ Served(f) /\ End(f)
  /\ Show(store, [info EXCEPT !.run = TRUE])
  /\ page' = "node" /\ starting' = FALSE
  /\ UNCHANGED <<asking, sheet>>

Step(f) ==
  \/ Fail(f) \/ CheckDir(f) \/ Save(f) \/ List(f)
  \/ Verify(f, "verify", "start") \/ Start(f)

-----------------------------------------------------------------------------
(* A new node: Onboard *)

OpenOnboard ==
  /\ OnMain /\ sheet = Closed /\ page' = "onboard"
  /\ Show([store EXCEPT !.dir = IF DefaultDir \in made THEN None ELSE DefaultDir], info)
  /\ UNCHANGED <<table, backend, main, flow>>

\* Bound: one launch of a new node at a time.
Launching ==
  \E f \in Flows : flow[f].at \in {"newVerify", "newStart", "newInit", "newSave"}

ChooseNewDir(d) ==
  /\ page = "onboard" /\ d # store.dir /\ ~Launching
  /\ Show([store EXCEPT !.dir = d], info)
  /\ UNCHANGED <<table, backend, page, main, flow>>

\* Cancel and Back lead to /.  The header stays above the overlay of a launch: its logo
\* leads to the page of a node that runs, and otherwise to /.
LeaveOnboard ==
  /\ page = "onboard"
  /\ UNCHANGED <<table, cfg, service, ready, made, wallets, store, info, sent, flow>>
  /\ \/ Mount
     \/ info.run /\ service # None /\ page' = "node" /\ UNCHANGED main
  /\ hurried' = (hurried \/ Launching) /\ left' = (service # None)

\* handleLaunch sets the alias of the store, not its pubkey.  The wizard let pass only a
\* directory without node data; a launch that failed may be tried again.
LaunchNew(f) ==
  /\ page = "onboard" /\ store.dir # None /\ ~Launching
  /\ store.dir \in made => store.dir = service
  /\ Begin(f, "newVerify", store.dir, None)
  /\ UNCHANGED <<table, backend, shown, main>>

NewStart(f) ==
  /\ At(f, "newStart") /\ Served(f) /\ Goto(f, "newInit")
  /\ Show(store, [info EXCEPT !.run = TRUE]) /\ MainLeaves
  /\ UNCHANGED main

\* Mutant: the wallet is made whether or not a node still runs.
NewInit_Detached(f) ==
  /\ At(f, "newInit") /\ Goto(f, "newSave")
  /\ wallets' = wallets \cup {service}
  /\ UNCHANGED <<table, cfg, service, ready, made, left, shown, main>>

\* The node waits for a wallet.  One that has it already is refused: Fail.
NewInit(f) ==
  /\ At(f, "newInit") /\ Served(f) /\ Goto(f, "newSave")
  /\ UNCHANGED <<shown, main>>

\* The row is written without a pubkey; whether or not it was, the page goes to /node.
NewSave(f) ==
  /\ At(f, "newSave") /\ End(f)
  /\ Served(f) \/ UNCHANGED <<table, backend>>
  /\ UNCHANGED <<store, info, sent>>
  /\ IF service # None THEN page' = "node" /\ UNCHANGED main ELSE Mount

NewStep(f) ==
  \/ Verify(f, "newVerify", "newStart") \/ NewStart(f) \/ NewInit(f) \/ NewSave(f)

-----------------------------------------------------------------------------
(* The running node, and the whole program *)

WalletOpens ==
  /\ service \in wallets /\ ~ready /\ ready' = TRUE
  /\ UNCHANGED <<table, cfg, service, made, wallets, left, shown, main, flow>>

\* handleStop; without an answer the page stays.  handleGoHome, offered while the node
\* waits for a wallet, leaves whether or not the node has stopped.
Stop ==
  /\ page = "node" /\ UNCHANGED <<table, cfg, made, wallets, store, info, sent, flow>>
  /\ \/ /\ service' = None /\ ready' = FALSE /\ left' = FALSE
        /\ Mount \/ UNCHANGED <<page, main>>
     \/ service \notin wallets /\ UNCHANGED <<service, ready, left>> /\ Mount

\* The header's logo, when no node runs.
LeaveNode ==
  /\ page = "node" /\ ~info.run
  /\ UNCHANGED <<table, backend, store, info, sent, flow>>
  /\ Mount

\* Network.handleApplyAndRestart: the row is saved with the store's pubkey; without an
\* answer, or when the restart fails, the node goes on.
ApplyAndRestart ==
  /\ page = "node" /\ service # None /\ info.run /\ store.dir # None
  /\ SaveConfig(store.dir, store.key) /\ ready' \in {ready, FALSE}
  /\ UNCHANGED <<cfg, service, made, wallets, left, shown, main, flow>>

\* The program is closed and opened again: only the directory of the store persists.
Reopen ==
  /\ cfg' = None /\ service' = None /\ ready' = FALSE /\ UNCHANGED <<made, wallets>>
  /\ hurried' = FALSE /\ left' = FALSE
  /\ info' = NoInfo /\ sent' = NoPatch
  /\ store' = [dir |-> store.dir, key |-> None]
  /\ Mount
  /\ flow' = [f \in Flows |-> IF InFlight(f) THEN Done ELSE flow[f]]
  /\ UNCHANGED table

\* What the user does on Main, and everything else.
Choice ==
  \/ OpenExisting \/ SaveAlias \/ OpenOnboard
  \/ \E d \in Dirs : RemoveNode(d)
  \/ \E f \in Flows :
       \/ StartNode(f)
       \/ \E d \in Dirs : SwitchNode(f, d) \/ ChooseNodeDir(f, d)

Other ==
  \/ Identify \/ Revalidate \/ FetchLastNode \/ CloseSheet \/ StartTimeout
  \/ \E f \in Flows : Step(f) \/ LaunchNew(f) \/ NewStep(f)
  \/ \E d \in Dirs : ChooseNewDir(d)
  \/ WalletOpens \/ Stop \/ LeaveNode \/ ApplyAndRestart

Next ==
  \/ Choice \/ LeaveOnboard \/ Reopen
  \/ Other /\ UNCHANGED hurried

Spec == Init /\ [][Next]_vars

-----------------------------------------------------------------------------
(* Safety *)

\* A pubkey belongs to one row, through moves, removals and rows written before their
\* pubkey is known.
OneRowEach == \A d, e \in Known : d # e /\ row[d] # None => row[d] # row[e]

\* No save of a config or an alias forgets a pubkey: "GORM Save replaces the whole row,
\* which would zero out a known pubKey" (api/node.go).
KeepsKeys ==
  [][\A d \in Known : row[d] # None /\ d \in Known' => row'[d] # None]_vars

\* For a user who waits, the node that opens is the one the store, and with it every
\* page, names: the chosen directory survives the chain of calls between, whichever of them
\* fails or loses its answer.  The exception is the node of a launch that failed, which runs
\* on when the user leaves the wizard: Main then loads the node saved last and leaves for
\* /node.
RunsWhatIsShown ==
  ~hurried /\ ~left /\ page = "node" /\ ready /\ (\A f \in Flows : ~InFlight(f))
    => service = store.dir

-----------------------------------------------------------------------------
(* Statements of the repository that the code does not keep *)

\* Onboard.tsx: "Persist the new node record so Main and Settings can find it."
NewNodeFound == page = "node" /\ ready /\ (\A f \in Flows : ~InFlight(f)) => service \in Known

\* db/models.go: "PubKey: the node's cryptographic identity".
RowKeys == \A d \in Known : row[d] \in {None, d}

\* Main.tsx: saving the record of the chosen node "marks this as the current node"; the
\* next launch finds it.
LastIsCurrent == lastDir \in Known => LastNode = {lastDir}
=============================================================================
