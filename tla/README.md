# Specifications of lokinode

lokinode is a desktop program (Wails window, Go backend, React front end) that runs a
Lightning node, `flnd`, inside its own process.  This directory holds TLA+ models of the
parts whose correctness depends on the order in which goroutines, RPC streams, timers,
awaited requests and users act, the TLC configurations that check them on small instances,
and TLAPS proofs of the main invariants for every size.  Go paths are relative to the
repository, `service.go` is `daemon/service.go`; `Node.tsx` and the like are under
`frontend/src`.

## 1. The system

| component | state it keeps | operations | talks to |
|---|---|---|---|
| `daemon.Service` (`service.go`) | `daemon`/`client` (under `cmux`), `flndConfig` (`configMu`), `retryNow` (one-slot channel), `lastEvent` and `subs` (`subMu`), `ctx`, `wg` | `run` loop, `runHealthRelay`, `Restart`, `RestartWithConfig`, `TriggerRescan`, `RecoverNeutrino`, `Stop`, `Subscribe`, `Unsubscribe`, `WaitForStatus`, delegated wallet calls | `flndDaemon`, `Client`, the HTTP handlers |
| `flndDaemon` (`daemon.go`) | `closed`, `stopping`, `client`, `conn`, its context and wait group | `start`, `exec`, `waitForShutdown`, `stop` | `flnd.Main`, the process-wide `signal.Intercept` |
| `Client` (`client.go`) | `health` channel, sync poller, block and transaction streams, transaction cache | `subscribeState`, `subscribeBlocks`, `subscribeTransactions`, `pollSyncStatus`, `kill`, PSBT and wallet RPCs | flnd over gRPC; the relay |
| `App` (`wails/node.go`, `app.go`) | `nodeService`, `flndCfg`, the database handle | `VerifyConfig`, `RunNode`, `StopNode`, `RestartNode`, `RecoverNeutrino` | `Service`, the database |
| HTTP API (`api/`) | a token bucket per class of calls, a mempool-height cache | lifecycle, wallet, send, info, logs, events (SSE), node registry | `App`, `Service`, the database |
| Database (`db/`) | `nodes`, `app_configs` (the `last_node` keys) | schema migration, save and patch of nodes | `api/node.go` |
| Node page (`pages/Node`, `pages/Main`, `providers/EventStreamProvider`, `store/nodeSession`, `views/settings`) | the last event, the cached `/api/info`, a dozen flags (stopping, locking, retrying, restarting, stalled, ...) | power on, stop, lock, unlock, retry, recover, apply and restart, change of the password, timers | the event stream, the lifecycle handlers |
| Launch (`pages/Main`, `store/nodeConfig`, `App.tsx`, `api/node.go`) | the identity store (directory, pubkey), the modal of recent nodes, starts in flight | open, switch, browse, remove, rename, start, pubkey sync | the registry, `VerifyConfig`, `RunNode` |
| Wizard (`pages/Onboard`) | step, mode, fields, errors, the awaited requests, the launch | next, back, choose a directory, generate a phrase, launch | `check-dir`, `generate-seed`, `start`, `wallet/init` |
| Send tab (`views/node/Send`, `api/send.go`) | form, transaction under review, payment under way | review, release, send, maximum | `fund-psbt`, `finalize-psbt`, `publish`, the wallet's leases |
| Notices (`hooks/useToast`, `hooks/useNotifyIncoming`, SWR's cache) | the toasts and their timers, the reference of the hook | toast, dismiss, remove, announce a payment | `GET /api/transactions` |

What is hard in it:

* **Concurrency of the life cycle.**  `run`, the health relay, the goroutine of
  `flnd.Main`, and any number of API calls act on one `Service`.  `cmux` protects only the
  pointers; `stop` and `waitForShutdown` run outside it on a pointer that may be old.
* **A process-wide resource.**  `signal.Intercept` may be held by one owner.  A daemon
  that does not give it back blocks every later one; `RestartNode` sometimes owns it.
* **Failure.**  `flnd.Main` may return, fail or panic at any time, the start may time out,
  and the node that failed to start may be slow to die.
* **Distinguishing** a `StatusDown` that `stop` itself provoked, one that asks for an
  automatic restart (no `Err`), and a crash after which the user decides.
* **Subscribers** with bounded channels, some slow, that come and go while services are
  replaced under them.
* **Chains of awaited requests** in the front end: a handler goes on with the values of the
  render it was called in, while the page stays editable, is left, or is opened again.
* **Two sources for one state**: events overtake answers, a cached answer is older than the
  last event, and the stream may be down.
* **Leases with a deadline** (PSBT locks), and **caches that outlive what they describe**
  (SWR's list of transactions, the cached info, the identity store).

The hazards, with the line at which each bites and the properties that would show it going
wrong, are listed in `PROJECT.json`.

What makes each component correct:

* Service and daemon: one node at a time; a daemon reachable through the API is the one
  under supervision; `Stop` is final; the interceptor always comes back; subscribers see
  the state of the current attempt; a crash holds until the user retries; every restart,
  retry and stop takes effect.
* Events: no closed channel is used; a client that keeps up misses nothing; a slow client
  neither blocks the publishers nor the stop; a client follows from service to service.
* Node page: whatever hides the controls ends; a boot that hangs and a node that crashed
  are shown as such; a start that succeeded leads to the page of the node.
* Launch and registry: one row per directory and per public key, through moves, removals
  and rows written before their key is known; the node that runs is the one shown.
* Wizard: the steps come in the mode's order; what is launched was confirmed; a wallet is
  never made over another; a launch ends.
* Send: what is reviewed is what is paid; one payment at a time; outputs under review stay
  locked.
* Notices: a payment is announced once, when it is new; no toast stays.

## 2. Modules

| module | what it is |
|---|---|
| `Supervisor` | abstract specification of a service: `phase`, `credit` (a request to retry), `live` |
| `Service` | `daemon.Service` with its `flndDaemon`s, the relay, `flnd.Main` and the API calls |
| `MCService` | `Service` for TLC, with the symmetry of callers |
| `ServiceProofs` | types and pointers; one node, attached is supervised, stop is final, the signal interceptor comes back |
| `ServiceRefinementProofs` | what subscribers are told; `Service` implements `Supervisor` |
| `Events`, `MCEvents` | `App.nodeService`, a service's subscribers, the SSE handler |
| `EventsProofs` | types, no orphan service, open and attended channels, no gap |
| `NodePage`, `MCNodePage` | the pages `/` and `/node`, the session store and the settings that restart the node |
| `NodePageProofs` | types, a start lands on the page, what hides the controls has an end |
| `Launch`, `MCLaunch` | which node is opened, remembered and started |
| `LaunchProofs` | types, one row per key, keys are kept, what runs is what is shown |
| `Onboard`, `MCOnboard` | the wizard of a new node and its launch |
| `OnboardProofs` | types, the order of the steps, what is launched was confirmed, a wallet is made only where there is none |
| `Send`, `MCSend` | the send tab, the PSBT handlers and the wallet's leases |
| `SendProofs` | types, the review names the payment, one payment at a time, leases hold |
| `Notices`, `MCNotices` | the toasts and the announcement of payments |
| `NoticesProofs` | types, a notice is news, what a removal removes, each toast has a timer |

The modules meet at their borders.  What `Service` does of itself is the `Daemon` action of
`NodePage` and the `NodeUp`, `NodeDown`, `NodeRetries` of `Onboard`; the delivery and the
loss of updates is `Events` in detail and `pipe` in `NodePage`.  `Launch` has the starts in
full (which directory) where `NodePage` has one call `"start"` (what is shown meanwhile), and
of a launch the four requests that decide which node runs and which is recorded, where
`Onboard` has what the wizard shows and sends.  A front end module and
`Service` in one state space would be out of TLC's reach, and their interface is narrow: a
state, and calls that succeed or fail.

### Service

A goroutine is a program counter; what runs under one mutex, or is invisible to others, is
one action.  The correspondence:

| model | code |
|---|---|
| `pc` | `Service.run`, with `runOnce`, `start`, `superviseDaemon`, `failStartup`, `waitForRetry` inlined: `top`, `intercept`, `exec`, `dial`, `register`, `wait`, `drain`, `cleanup`, `fail`, `gate`, `done` |
| `cur`, `clone` | the daemon the loop has created last, and the rescan flag of its copy of the configuration |
| `attached` | `s.daemon` and `s.client`, always written together |
| `retryNow`, `lastEvent`, `rescan`, `ctxDone` | the fields of the same name; `rescan` is `flndConfig.ResetWalletTransactions` |
| `main`, `ready`, `errCh` | the exec goroutine and its two channels |
| `stopping`, `closed` | `d.stopping`, `d.closed`; `d.stop` cancels `d.ctx` when it sets the first |
| `relay`, `inHand`, `health`, `crashErr` | `runHealthRelay`, the update it holds, `Client.health` |
| `holder`, `release` | the owner of the interceptor, and `RequestShutdown` called on it |
| `cpc`, `op`, `hand` | an API goroutine, its operation, and the `*flndDaemon` it took from `s.daemon` |

Choices a reader should know of:

* A daemon's updates are `Live` (any state of a node that is up), `Crash` (a `StatusDown`
  with `Err`), `Down` (without) and `Echo` (one provoked by `stop`).  `kill` and the
  subscriptions decide which can occur; see `KillReports` and `ClientReports`.
* `DWaitForShutdown` can pass only once `flnd.Main` has returned; the 8 s log line of
  `waitForShutdown` does not end the wait.
* A failed start waits 10 s for its goroutine (`Cleanup`); `abandoned` is a history
  variable that records the daemons for which these have passed.
* `RestartNode` is `Reconfig`.  `handleNodeStart` on an attached service takes the same
  path without the interceptor, which is `Reconfig` when somebody holds it.
* `Stop` is called once (`stopOnce`).  The subscribers are module `Events`.
* `flnd.Main` and `signal` are external: `flnd.Main` may return or fail spontaneously
  (`MaxFaults`), and does so after its interceptor has been released.

### Events

A service is a number, its updates are numbered as published, and `stage` follows its
`Stop`: `running`, `claimed` (`StopNode` has cleared the pointer and runs `stopDaemon` and
`cancel`), `closing` (`unsubscribeAll`, which holds `subMu`: everybody else waits),
`joining` (`wg.Wait`; the loop and relay may still publish), `stopped`.  A handler is
`away`, `look` (waits for a service), `have` (fetched it, not yet subscribed), `stream`,
`leaving` (its client is gone, `Unsubscribe` is due).  A channel belongs to one handler at a
time, so it is `queue[c]`; `shut[s]` are the clients whose channel the current or last
`unsubscribeAll` of `s` has closed.  `lossy[c]` is a history variable: a send on `c`'s full
channel has been skipped.  What a service publishes is left open; `Service` says it.  It may
also publish after it has stopped: a `RestartNode` that fetched it earlier still does.

### The front end modules

React runs the effects of a render before the next user event.  So an action is one handler
up to its first `await`, or one continuation after an `await`, with every effect it
triggers; a request is in flight between the two, and may fail.  In `Launch`, `Onboard`,
`Send` and `Notices` a history variable (`hurried`, `touched`, `switched`) says that the user acted while something was
awaited.  The models have all of these behaviours; a property that holds for a patient user
only names the variable, and so says nothing of the others.  `expired` (a lease ran out) and
`lossy` (a channel was full) are used in the same way.  Where the impatient user meets a
sentence of the source that is not kept, it is among the statements at the end of the module.

**NodePage.**  `on` is the set of the boolean states of `Node` and `Main` and of the session
store that are true; what the render derives (`Phase`, `IsDown`, `Loading`, `Button`, ...)
are operators of the flags, the event and the info.  `NodeEffects` is the composition of
`Node`'s effects in the order of their declaration, and `Show` ends every action: it applies
the effects, follows the redirections (`Main` to `/node`, `Node` back home, `nodeLoader`)
and drops the component state of a page that is left.  `pipe` holds the updates on their
way; a connection that breaks drops the event and what is in the pipe, and a new one begins
with the last update, as `handleEvents` does.  `call` has each API call, and `Serve` what
its handler makes of the service.  The tail of 2.5 s for which the overlay of a changed
password stays up is left out: it only keeps the user from acting.

**Launch.**  A node is its directory, which is also its pubkey (a directory that is reset and
given another wallet under the same name is not modelled): `row[d]` is the pubkey of
`d`'s row, `None` before it is known, `NoRow` without a row.  `SaveConfig` and
`SaveIdentity` are the two handlers that write rows, with the deletion of a moved node's
row, the inherited pubkey and the unique index.  A `flow` is a start in flight, at the
request it awaits; `Served` is what the backend makes of that request.  `Fail` ends a flow
whose request was refused, or was served and whose answer was lost.  The launch of a new node
is such a flow (`newVerify`, `newStart`, `newInit`, `newSave`): a wallet may be made and the
launch fail nevertheless, and `NewSave` goes to `/node` whether or not the row was written, as
`handleLaunch` does.  `Show` is any change of the store or the info followed by `App`'s effect
that takes the running node's pubkey over and has it written (`Identify`).  `Mount` is Main,
which asks for the last node and leaves for `/node` when the cached info says that one runs.
`Reopen` closes the program and opens it again: only the directory of the store, and the
database, persist.  `left` is a history variable besides `hurried`: the service that runs has
run since before the user left the wizard.  `RunsWhatIsShown` excepts it, because the code
does not keep it there: after a launch whose answer was lost, Cancel leads to Main, which
loads the node saved last and then leaves for the page of the other one, which runs.

**Onboard.**  `form` is the state of the page; `awaits` counts the requests its handlers
wait for, since a Next on the first step is not disabled while an earlier one waits, and nor
is a Next that wants a phrase.  `After` is `goNext` with the order of the mode of the
render.  `phase` and `launch` are the chain of `handleLaunch`, with the two `pollUntil`; the
daemon that it starts is external.

**Send.**  A funded transaction is a number, and a funding may lock coins and its answer be lost; `made` says what it pays and which coins it
spends, `lease` and `spent` are the wallet's.  `funding`, `chain` and `releasing` are
`handleReview`, each `handleSend` and each release under way, with `mine` telling whether the
visit of the tab that asked still goes on.  `Expire` ends a lease at any moment: it stands for
the 90 s of `fund-psbt`.

**Notices.**  `toasts` is `memoryState`, `dismissing` the toasts whose own timer runs,
`removing` is `toastTimeouts`.  The hook's reference is `prevHash`; `cache` is SWR's entry,
which outlives the page and the node, and `Turns` is the render that follows a change of it.

## 3. Runs

| run | checks | shows |
|---|---|---|
| `service_safety` | `TypeOK`, `OneNode`, `AttachedIsSupervised`, `StopIsFinal`, `InterceptorReturned`, `SelfInducedDownHidden`, `StartShown`, `CrashHeld`, `SupervisorSpec` | all interleavings of two calls (any of the five operations), the run loop, the relay, three daemons and a failure |
| `service_live` | `StopReturns`, `InterceptorObtained`, `RetryHonoured`, `RestartBounces` | an overlapping `RestartNode` and `Stop` take effect |
| `events` | `TypeOK`, `NoOrphan`, `SubsOpen`, `SubsAttended`, `Complete`, `StopEnds`, `LeavesStopped` | two clients, one of which may get stuck, two services |
| `node_page` | `TypeOK`, `StartLands`, `NoTrap`, `StallEscalates`, `DownShown` | every order of updates, answers, timers and clicks, with a stream that breaks |
| `launch` | `TypeOK`, `OneRowEach`, `RunsWhatIsShown`, `KeepsKeys` | two nodes opened, switched, removed, made and moved by two starts that may overlap, fail or lose answers at any request; the program reopened |
| `onboard` | `TypeOK`, `StepInOrder`, `LaunchConfirmed`, `InitOnlyFresh`, `LaunchEnds` | the wizard with requests that overlap, and launches that fail and are tried again |
| `send` | `ShownAsFunded`, `OnePaymentAtATime`, `ReviewHoldsCoins` | two transactions, two payments at once, leases that expire, a tab that is left |
| `notices` | `TypeOK`, `FreshNotice`, `ToastEnds` | payments that arrive and confirm while pages and wallets change |
| `service_lost_retry` | `HeldMeansDown` (violated) | a lost retry, below |
| `service_stale_retry` | `NoStaleSignal` (violated) | a signal that opens the gate by itself |
| `service_recover_purge` | `PurgeAlone` (violated) | a purge under a running node |
| `events_dead_stream` | `StreamsUntilStop` (violated) | a client left on a stopped service |

The violated properties are sentences of the source that the code does not keep.  Four
have a run:

1. *"On crash, hold StatusDown until a user-initiated Retry"* (`service.go:124`).  The relay
   publishes the crash; before `superviseDaemon` clears `s.daemon`, the user's `Restart`
   takes the dead daemon's pointer, publishes `StatusStarting` and, having found a daemon,
   sends no retry signal.  The loop then holds at the gate while everybody sees "starting".
2. *A signal left from a start "would short-circuit the next genuine waitForRetry"*
   (`service.go:432`), so `registerConnection` drains it; a start that fails does not.
3. *`RecoverNeutrino` "stops the running daemon, purges ..., then restarts"*
   (`service.go:715`); while one is starting it finds none to stop, and a stopped one is
   restarted by the loop during the purge.
4. *"Subscribe and stream until this service stops"* (`events.go:65`); a handler that
   fetched the service before `StopNode` and subscribes after `unsubscribeAll` holds a
   channel that nobody closes.

Eight more are stated at the end of their modules, in no configuration of this directory;
a configuration with the constants of the module's run and the property alone shows each
violated (`NoOldNotice` with an `Owner` that gives each wallet an incoming payment).

5. `DownScreenActs` (`NodePage`): a down "must surface with a Retry button" (`Node.tsx:146`).
   `neutrinoCorrupted` is absent from an event that does not set it, so the page falls back on an
   old info; the button of a stalled boot is then Recover, whose handler returns at once.
6. `UnlockOffered` (`NodePage`): with `autoUnlockPending` the sheet is to open "as soon as
   the daemon reports `locked`" (`nodeSession.ts:6`).  After Apply & Restart of an unlocked
   node `walletUnlocked` is still set, and the effect does nothing.
7. `LastIsCurrent` (`Launch`): the save "marks this as the current node" (`Main.tsx:258`).
   For a row without a pubkey only the directory is written, and `/api/node/last` looks for
   the pubkey first.
8. `RowKeys` (`Launch`): a row's pubkey is "the node's cryptographic identity"
   (`db/models.go:11`).  Onboarding keeps the store's pubkey of the node that was open;
   Apply & Restart before the new wallet is open writes it to the new node's row, and
   deletes the old one's.
9. `SeedConfirmed` (`Onboard`): "users must confirm saving their seed" (`api/wallet.go:104`).
   A second Next while a phrase is awaited asks for another, which replaces the first after
   its box was ticked.
10. `LeaveReleases` (`Send`): "Auto-release locks on unmount if we haven't sent"
    (`Send.tsx:45`).  The request of the unmount carries no token and is refused; a funding that
    is answered later is released by nobody.
11. `NoOldNotice` (`Notices`): the hook "toasts when a new incoming payment is detected"
    (`useNotifyIncoming.ts:6`).  Its reference may come from the cached list of another node.
12. `NewNodeFound` (`Launch`): the launch saves the row "so Main and Settings can find it"
    (`Onboard.tsx:318`).  The save's failure is swallowed, and an answer of `wallet/init` that
    is lost skips it: the node runs and has no row.

**Bounds.**  Service: two callers make two calls in all, so that any two operations overlap
in any way, with one spontaneous failure and three daemons (the first, the one a restart
leads to, and the one after a failure or a second restart); `HealthCap` is 1, so that the
drop of an update on a full channel occurs, where the code has 16.  Each of the hazards
listed for this component needs at most two calls, one failure and two daemons.
`service_live` keeps to `RestartNode` and `Stop`, which between them use the interceptor,
the gate and the wait group, and to crash reports.  Events: two clients, because a client
whose channel `unsubscribeAll` has closed may move to the second service while the first one
still waits for the other client; capacity 2 and three numbered updates per service after the
initial one, so that updates queue up behind one another, and a full channel, a dropped
update and the 5 s timeout all occur (333 thousand states).  One of the services,
`Publishers`, has updates: the other is there to move to.

NodePage (144 thousand states): one update on its way, so that the page may be one update
behind the node, or the stream breaks and it misses any number; one call in flight and a
stop besides; the user waits for the answers
before leaving a page.  Launch (1.2 million, the starts being symmetric): two directories, so
that nodes can be switched, moved onto each other and mistaken for each other, and two starts
of any kind, overlapping or one after the other, so that the second meets what a failed or
half served first has left.  Two starts in each session of the program, over any number of
reopenings, are 16 million states and show nothing else.  The proofs hold for any number of
flows and directories.  Onboard (1 million): a
fresh directory and one with a node, one good password and a short one, two phrases, two
requests at once, so that an answer can come late for the choice it was asked for.  Send
(1.2 million): two amounts, so that a form can differ from its transaction; two coins, two
transactions and two sends, so that a payment of an earlier visit overlaps one of this visit
and a release overlaps both.  Notices (0.5 million): three transactions, of which two are
incoming, of one wallet, and a second wallet to go to; a block confirms one transaction and
is not taken back, so that lists differ at their head only; `TOAST_LIMIT` is the code's 1.

What larger instances could change is covered by the proofs where a property has one.

`CHECK_DEADLOCK FALSE` is set for the service runs (when the calls and failures are used
up, a running or held node rests) and for those of the front end other than `launch`, where
the counters of the bounds run out.

**Fairness.**  `LiveSpec` of `Service` assumes that goroutines that can run do run, that
the start of `flnd` ends (it has a timeout), that the handler of a released interceptor
exits, and that `flnd.Main` returns once its interceptor has been released.  The relay's
exit is strongly fair: its `select` picks among ready cases at random, and a cancelled
context stays ready.  There is no fairness on calls, failures and reports.  `LiveSpec` of
`Events` assumes that `Stop`'s goroutine runs (its last step is `StopReturns` of `Service`),
that its timers fire, and that a handler whose client takes data runs; clients in `Stuck`
owe nothing, nor do users and publishers.

`LiveSpec` of `NodePage` assumes that the local API answers, that the page goes on after an
answer, that the browser reconnects a broken stream and delivers what arrives on one that is
up again and again (strongly fair: it may break in between), that SWR's first request is
answered, and that timers fire.  The daemon, the user and the later revalidations owe
nothing: `NoTrap` and `DownShown` hold with an info that is stale for ever.  That of
`Onboard` assumes that the requests of the launch are answered and that the poll's timer
runs out, not that the node comes up.  That of `Notices` assumes timers.  `Launch` and
`Send` have no liveness property and no fairness.

## 4. Proofs

All theorems are checked by tlapm for all values of the constants; they use the named
assumptions `ServiceAssumption`, `EventsAssumption`, `NodePageAssumption`,
`LaunchAssumption`, `OnboardAssumption`, `SendAssumption` and `NoticesAssumption` only
(bounds are naturals, capacities positive, the values that stand for "nothing" are none of
the others).

* `TypeCorrect`: `TypeOK` is inductive together with `PointerOK`: in every state that calls
  a method on a daemon the pointer is not nil, and the relay runs only while its daemon has
  a client.  Without it `Take` could hand `NoDaemon` to `stop`.
* `OneNodeHolds`, `AttachedHolds`: with types these are inductive.  The point is that `wait`
  is left only through `DWaitForShutdown`, so no `flnd.Main` outlives its supervision, and
  that `Drain` clears the pointer before the loop moves on.
* `StopFinal`: from `StopInv` (a caller past `cancel` has cancelled the context; one past
  `join` has seen the loop in `boot` or `done`) and the two above.
* `StartShownHolds`, `CrashHeldHolds`: from `EventInv`, that is `StartShown` and
  `CrashKnown`: while a daemon is supervised, a published crash is in `crashErr`.  Both need
  that the relay has ended before the loop leaves `drain`.
* `EchoHidden`: `EchoInv`: if an `Echo` is in the channel or in the relay's hand then its
  daemon is stopping, and what a stopping daemon reports is dropped on receipt.
* `InterceptorComesBack`: from `Created` (sets and pointers name daemons that exist, so a
  new one cannot be stopped already) and `GivenBack` (a stopping or, while the service
  lives, a closed daemon that holds the interceptor has released it).
* `Refinement`: `Spec => SupervisorSpec`.  `phase` is read off `pc`, `credit` is `retryNow`,
  `live` says that a daemon other than an abandoned one is running.  `RefinementStep` goes
  through the actions; `OneNode` is what makes a launch a launch of nothing else.
* `Events`: `NoOrphanHolds` is inductive with types; `SubsOpenHolds` needs `Attached` (a
  service number that is not used yet is in no stage, the attached one is running);
  `SubsAttendedHolds` is inductive; `CompleteHolds` rests on both, and on two lemmas about
  sequences: a publication extends one in order or with the next number, and a reception moves
  one element from the channel to the client.  The order holds for every client; that nothing
  is missing, for those whose channel was never full.
* `NodePage`: `TypeCorrect` shows that every action ends in a render (`Show`) of flags, an
  event and an info that exist, and that the effects of `Node` stay inside the flags
  (`EffectsAreFlags`).  `LandsHolds`: only `StartReturns` takes the answer of a start
  (`OnlyStartReturns`), and the info it leaves keeps `GoesHome` false.  `HiddenEnds` is the
  safety part of `NoTrap`: `Attended` says that a flag that hides the controls has a request
  under way, or is on the page whose timer takes it back.  It rests on `Waits`, five parts
  that need each other.  An overlay outlives its stop only on Main, and would be carried to
  the node page if a node ran there (`OverlayEnds`).  None does because a stop that succeeded
  leaves none and no restart is under way (`StopWaits`), because a start is asked for on Main
  alone, with nothing else in flight (`StartWaits`), and because Main is left for any node
  that runs (`StartKnown`).  `Shown` is the lemma on what a render does to flags and route.
* `Launch`: `Typed` is `TypeOK` with `FlowInv` (a flow in flight is of a directory; one about to
  start a node has a validated config; the attached service was started), which is
  inductive.  `TableStep` says that rows change by `SaveConfig`, `SaveIdentity` or a removal
  only; each of the three keeps `OneRowEach` - the first because it deletes the other row
  with the key, the second because the index refuses, and neither takes a key away
  (`KeepsKeys`).  `RunsShown` needs `Patient`: a service that is ready has a wallet
  (`Opened`), and for a user who waits, at most one flow is in flight, it is of the
  directory that is shown and starts the config it validated (`FlowFits`), and the pages fit
  the service (`PageFits`).  The last has four parts that hold each other up: the wizard waits
  for no last node; Main does not stay when the cached info says that a node runs; the node
  page of a running node has that info; and outside the wizard, a node with a wallet that was
  not `left` there is the one the store names, with nothing under way to change the store.
  A lost answer is a step of each chain, and what breaks the last part after one is that the
  user leaves the wizard, which is when `left` is set.
* `Onboard`: the types need `Directed` (the directory is known past the first step, and
  wherever an awaited answer may lead there).  `InOrderHolds` and `ConfirmedHolds` rest on
  `Patient`: for a user who lets a step answer, at most one phrase is awaited, for the page
  that wants its first (`SeedFits`); a launch has what was agreed and awaits nothing of the
  page (`LaunchFits`); and past the password the page holds the one typed twice, with a box
  ticked only for the words that are shown (`PageFits`).  `InitFresh` rests on `NoWalletIsFresh`: a daemon that reports no wallet is of
  a directory that holds none.  The poll that leads to `initializing-wallet` sees that report,
  whichever daemon it comes from.
* `Send`: `TypeInv` adds to the types that a funding under way has room for its transaction
  and that a payment has one.  `FormKept` is inductive with them: for a user who touches
  nothing no maximum is awaited, and the form is the payment that is being funded, or that
  of the transaction under review.  `OnePaymentAtATime` is inductive with the types: every
  step that sets or clears `sending` starts or ends the payment of this visit.
  `ReviewHoldsCoins` needs `LeaseInv`: as long as no lease ran out, every transaction that
  is not released holds the coins it does not spend, and the one under review is not being
  released.
* `Notices`: `NewsHolds` compares lists from their oldest end, where they do not differ.
  `Ledger` says that a transaction is confirmed once, in its owner's wallet; `Latest` that,
  for a user who stays with one node, the cached list and the awaited answer are both
  suffixes of the wallet's, the hook's reference is in it, and nothing newer than what the
  reference was taken from is `old`.  The head of a longer list is therefore none of `old`.
  `RemovesOne` needs `Newest`: ids are given in order and put in front, so no two toasts
  have the same; it justifies `RemoveToast`, which takes out one element where the code
  filters.  `ToastsTimed` is the safety part of `ToastEnds`: each toast on the screen is in
  `dismissing` or `removing`.

Model-checked only: the liveness properties (`StopReturns`, `InterceptorObtained`,
`RetryHonoured`, `RestartBounces`, `StopEnds`, `LeavesStopped`, `NoTrap`, `StallEscalates`,
`DownShown`, `LaunchEnds`, `ToastEnds`), since fairness and `ENABLED` are outside what the
prover handles.  Every invariant and every action property of the passing runs is a theorem.
`HiddenEnds`, `RemovesOne` and `ToastsTimed` are theorems that no run states.

## 5. Not modelled

* gRPC and flnd themselves, the contents of requests, memory and sockets, tray, logging and
  packaging.  `App.Shutdown` ends the process.
* The transaction cache of `client.go` (`FetchTransactions`, `FetchTransactionsPage`):
  nothing calls it, the API lists transactions with one RPC.  `TriggerRescan` has no caller
  either; it is an operation of `Service` because it shares the configuration with the run
  loop.
* The reconnection of the client's streams and the sync poller with its stuck-sync
  timeout: what they report is an update of `Service`, when they do is open.
* Receive, the transaction list and the log view: a request each and what it returns.
  Translations (2300 lines of the front end), formatting and the generated bindings.
* The migration of an old database.
* The fee arithmetic of `max-sendable` and of the rough fee: the amounts of `Send` are
  values that nothing adds.
* The auto-save of the settings: it writes only while no node runs, and the settings are
  reachable only while one does.
