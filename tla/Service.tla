------------------------------ MODULE Service ------------------------------
(***************************************************************************)
(* daemon.Service and its flndDaemon: the goroutine that runs one embedded *)
(* flnd node after another, the goroutine that relays the node's health,   *)
(* the goroutine that executes flnd.Main, and the API calls that restart,  *)
(* recover and stop the service while all of these are running.            *)
(*                                                                         *)
(* A daemon incarnation (an *flndDaemon) is a number of Attempts; 0 is the *)
(* nil pointer.  s.daemon and s.client are always written together under   *)
(* cmux, so they are the one variable attached.  A goroutine is a program  *)
(* counter; what a mutex makes atomic is one action.                       *)
(***************************************************************************)
EXTENDS Integers, Sequences

CONSTANTS
  Callers,       \* API goroutines
  Ops,           \* the operations they may call
  Reports,       \* the updates a client's subscriptions may submit
  MaxAttempts,   \* bound: daemon incarnations
  MaxCalls,      \* bound: API calls made in a behaviour
  MaxFaults,     \* bound: spontaneous failures of flnd, its client or its start
  HealthCap      \* capacity of Client.health (16 in the code)

\* "Reconfig" is App.RestartNode, the others are the Service methods of that name
\* ("Rescan": TriggerRescan, "Recover": RecoverNeutrino).
AllOps == {"Restart", "Reconfig", "Rescan", "Recover", "Stop"}

\* Health updates: "Live" stands for every state of a connected node (locked,
\* syncing, ready, block, ...); StatusDown is a "Crash" with an Err, an "Echo" when
\* it is emitted because d.stop closed the client, and "Down" otherwise.
AllReports == {"Live", "Down", "Crash", "Echo"}

ASSUME ServiceAssumption ==
  /\ Ops \subseteq AllOps
  /\ Reports \subseteq AllReports
  /\ MaxAttempts \in Nat \ {0}
  /\ MaxCalls \in Nat
  /\ MaxFaults \in Nat
  /\ HealthCap \in Nat \ {0}
  /\ Callers \cap Int = {}

VARIABLES
  pc,          \* where Service.run is
  cur,         \* number of the last daemon created by the run loop
  attached,    \* s.daemon (and s.client)
  retryNow,    \* the one-slot channel s.retryNow holds a signal
  lastEvent,   \* s.lastEvent
  rescan,      \* s.flndConfig.ResetWalletTransactions
  clone,       \* the same flag in the copy of the config daemon cur was created with
  ctxDone,     \* s.ctx is cancelled
  main,        \* per daemon, where its flnd.Main goroutine is
  ready,       \* flndStarted is closed and exec has not seen it yet
  errCh,       \* errCh holds an error and exec has not returned
  stopping,    \* daemons with d.stopping set (d.stop has cancelled their ctx)
  closed,      \* daemons with d.closed set
  abandoned,   \* history: daemons whose failed start timed out in cleanup
  relay,       \* where the health relay of daemon cur is
  inHand,      \* the update the relay took and has not published yet
  health,      \* Client.health of daemon cur
  crashErr,    \* the relay's crashErr is non-nil
  holder,      \* who owns the process-wide signal interceptor (0: nobody)
  release,     \* RequestShutdown was called on the owner's interceptor
  cpc,         \* where each caller is
  op,          \* the operation each caller is executing
  hand,        \* the *flndDaemon each caller took from s.daemon
  calls,       \* number of API calls made
  faults       \* number of spontaneous failures

svcVars == <<attached, retryNow, lastEvent, rescan, ctxDone>>
dmnVars == <<stopping, closed, abandoned>>
mainVars == <<main, ready, errCh>>
relayVars == <<relay, inHand, health, crashErr>>
sigVars == <<holder, release>>
callVars == <<cpc, op, hand, calls>>
loopVars == <<pc, cur, clone>>
vars == <<loopVars, svcVars, dmnVars, mainVars, relayVars, sigVars, callVars, faults>>

Attempts == 1 .. MaxAttempts
NoDaemon == 0


Events == {"Init", "Starting", "Live", "Down", "Crash"}

ControlTypeOK ==
  /\ pc \in {"boot", "top", "intercept", "exec", "dial", "register", "wait",
             "drain", "cleanup", "fail", "gate", "done"}
  /\ cur \in 0 .. MaxAttempts
  /\ attached \in 0 .. MaxAttempts
  /\ lastEvent \in Events
  /\ main \in [Attempts -> {"none", "boot", "up", "exited"}]
  /\ stopping \subseteq Attempts
  /\ closed \subseteq Attempts
  /\ abandoned \subseteq Attempts
  /\ relay \in {"off", "recv", "publish", "halt", "done"}
  /\ inHand \in AllReports \cup {"none"}
  /\ health \in Seq(AllReports)
  /\ holder \in (0 .. MaxAttempts) \cup Callers
  /\ cpc \in [Callers -> {"idle", "borrow", "config", "notify", "take", "stop",
                          "signal", "giveback", "claim", "halt", "await", "purge",
                          "cancel", "join", "stopped"}]
  /\ op \in [Callers -> AllOps]
  /\ hand \in [Callers -> 0 .. MaxAttempts]
  /\ calls \in 0 .. MaxCalls
  /\ faults \in 0 .. MaxFaults

FlagTypeOK ==
  /\ retryNow \in BOOLEAN /\ rescan \in BOOLEAN /\ clone \in BOOLEAN /\ ctxDone \in BOOLEAN
  /\ ready \in BOOLEAN /\ errCh \in BOOLEAN /\ crashErr \in BOOLEAN /\ release \in BOOLEAN

\* Every variable keeps its type.
TypeOK == ControlTypeOK /\ FlagTypeOK

Init ==
  /\ pc = "boot" /\ cur = 0
  /\ attached = NoDaemon
  /\ retryNow = FALSE
  /\ lastEvent = "Init"
  /\ rescan = FALSE /\ clone = FALSE
  /\ ctxDone = FALSE
  /\ main = [d \in Attempts |-> "none"]
  /\ ready = FALSE /\ errCh = FALSE
  /\ stopping = {} /\ closed = {} /\ abandoned = {}
  /\ relay = "off" /\ inHand = "none" /\ health = <<>> /\ crashErr = FALSE
  /\ holder = 0 /\ release = FALSE
  /\ cpc = [c \in Callers |-> "idle"]
  /\ op = [c \in Callers |-> "Restart"]
  /\ hand = [c \in Callers |-> NoDaemon]
  /\ calls = 0 /\ faults = 0

-----------------------------------------------------------------------------
(* flndDaemon and Client operations that several goroutines call *)

Alive(d) == main[d] \in {"boot", "up"}

\* d.ctx is cancelled: by d.stop, or through its parent s.ctx.
CtxDone(d) == d \in stopping \/ ctxDone

\* d.client has been assigned and its relay has been started.
HasClient == pc \in {"register", "wait", "drain"}

\* interceptor.RequestShutdown on the interceptor that d was given.
RequestShutdown(d) == release' = (release \/ holder = d)

\* Mutant: stop cancels the context without releasing the interceptor.
DStop_KeepsInterceptor(d) ==
  /\ stopping' = IF d \in closed THEN stopping ELSE stopping \cup {d}
  /\ UNCHANGED release

\* flndDaemon.stop, atomic under d.mu.
DStop(d) ==
  IF d \in closed
    THEN UNCHANGED <<stopping, release>>
    ELSE /\ stopping' = stopping \cup {d}
         /\ RequestShutdown(d)

\* Mutants: giving up on a slow shutdown; a natural exit that keeps the interceptor.
DWaitForShutdown_GivesUp(d) == closed' = closed \cup {d} /\ RequestShutdown(d)
DWaitForShutdown_KeepsInterceptor(d) ==
  ~Alive(d) /\ closed' = closed \cup {d} /\ UNCHANGED release

\* flndDaemon.waitForShutdown: flnd.Main has returned.  Phase 1 (natural exit)
\* releases the interceptor; phase 2 (d.ctx done) leaves that to d.stop.
DWaitForShutdown(d) ==
  /\ ~Alive(d)
  /\ RequestShutdown(d) \/ (CtxDone(d) /\ UNCHANGED release)
  /\ closed' = closed \cup {d}

\* Client.submitHealth: the update is dropped when the channel is full.
SubmitHealth(u) ==
  health' = IF Len(health) < HealthCap THEN Append(health, u) ELSE health

\* The updates Client.kill can submit: no Err once the client is closing or when
\* the error is a cancellation.
KillReports(d) ==
  IF d \in stopping THEN {"Echo"} ELSE IF ctxDone THEN {"Down", "Crash"} ELSE {"Crash"}

Fault == faults < MaxFaults /\ faults' = faults + 1

-----------------------------------------------------------------------------
(* The signal interceptor and flnd.Main (external), and the exec goroutine *)

\* The handler goroutine of a released interceptor closes its ShutdownChannel and
\* clears the process-wide "started" flag.
InterceptorExits ==
  /\ release
  /\ holder' = 0 /\ release' = FALSE
  /\ UNCHANGED <<loopVars, svcVars, dmnVars, mainVars, relayVars, callVars, faults>>

\* flnd.Main closes flndStarted.
MainReady(d) ==
  /\ main[d] = "boot"
  /\ main' = [main EXCEPT ![d] = "up"]
  /\ ready' = (ready \/ (d = cur /\ pc = "exec"))
  /\ UNCHANGED <<loopVars, svcVars, dmnVars, relayVars, sigVars, callVars, errCh, faults>>

\* d was asked to shut down: its interceptor has been released.
AskedToExit(d) == holder # d \/ release

\* flnd.Main returns nil.
MainReturns(d) ==
  /\ Alive(d)
  /\ (AskedToExit(d) /\ UNCHANGED faults) \/ Fault
  /\ main' = [main EXCEPT ![d] = "exited"]
  /\ UNCHANGED <<loopVars, svcVars, dmnVars, relayVars, sigVars, callVars, ready, errCh>>

\* flnd.Main returns an error or panics: the exec goroutine reports it through the
\* client when there is one, else through errCh, which only exec reads.
MainFails(d) ==
  /\ Alive(d)
  /\ (AskedToExit(d) /\ UNCHANGED faults) \/ Fault
  /\ main' = [main EXCEPT ![d] = "exited"]
  /\ IF d = cur /\ HasClient
       THEN (\E u \in KillReports(d) : SubmitHealth(u)) /\ UNCHANGED errCh
       ELSE errCh' = (errCh \/ (d = cur /\ pc = "exec")) /\ UNCHANGED health
  /\ UNCHANGED <<loopVars, svcVars, dmnVars, relay, inHand, crashErr, sigVars, callVars, ready>>

\* The client's subscriptions: a state of a node that is up; the Down of a stream
\* that d.stop or s.cancel closed; a stalled sync (Down without Err); or a node
\* that cannot be reached or queried any more (Down with Err).
ClientReports(u) ==
  /\ HasClient
  /\ \/ u = "Live" /\ main[cur] = "up" /\ UNCHANGED faults
     \/ u = "Echo" /\ cur \in stopping /\ UNCHANGED faults
     \/ u = "Down" /\ cur \notin stopping /\ ((ctxDone /\ UNCHANGED faults) \/ Fault)
     \/ u = "Crash" /\ cur \notin stopping /\ Fault
  /\ SubmitHealth(u)
  /\ UNCHANGED <<loopVars, svcVars, dmnVars, mainVars, relay, inHand, crashErr, sigVars, callVars>>

-----------------------------------------------------------------------------
(* Service.run *)

Boot ==
  /\ pc = "boot" /\ pc' = "top"
  /\ UNCHANGED <<cur, clone, svcVars, dmnVars, mainVars, relayVars, sigVars, callVars, faults>>

\* s.ctx is done at the top of the loop: stopDaemon and return.  s.daemon is nil here
\* (AttachedIsSupervised), so stopDaemon never comes to its wait.
ExitLoop ==
  /\ pc = "top" /\ ctxDone
  /\ pc' = "done"
  /\ IF attached = NoDaemon THEN UNCHANGED <<stopping, release>> ELSE DStop(attached)
  /\ attached' = NoDaemon
  /\ UNCHANGED <<cur, clone, retryNow, lastEvent, rescan, ctxDone, closed, abandoned,
                 mainVars, relayVars, holder, callVars, faults>>

BeginAttempt ==
  /\ pc = "top" /\ ~ctxDone
  /\ lastEvent' = "Starting"
  /\ pc' = "intercept"
  /\ UNCHANGED <<cur, clone, attached, retryNow, rescan, ctxDone, dmnVars, mainVars,
                 relayVars, sigVars, callVars, faults>>

\* acquireSignalInterceptor gives up: unexpected error, or s.ctx done while waiting.
AcquireFails ==
  /\ pc = "intercept"
  /\ (ctxDone /\ holder # 0 /\ UNCHANGED faults) \/ Fault
  /\ pc' = "fail"
  /\ UNCHANGED <<cur, clone, svcVars, dmnVars, mainVars, relayVars, sigVars, callVars>>

\* The interceptor is free: acquire it, clone the configuration into a new daemon
\* and start flnd.Main in the exec goroutine.
Launch ==
  /\ pc = "intercept" /\ holder = 0 /\ cur < MaxAttempts
  /\ cur' = cur + 1
  /\ holder' = cur + 1
  /\ clone' = rescan
  /\ main' = [main EXCEPT ![cur + 1] = "boot"]
  /\ ready' = FALSE /\ errCh' = FALSE
  /\ pc' = "exec"
  /\ UNCHANGED <<svcVars, dmnVars, relayVars, release, callVars, faults>>

ExecReady ==
  /\ pc = "exec" /\ ready
  /\ pc' = "dial"
  /\ ready' = FALSE /\ errCh' = FALSE
  /\ UNCHANGED <<cur, clone, svcVars, dmnVars, main, relayVars, sigVars, callVars, faults>>

\* exec returns an error (flnd.Main failed first, d.ctx cancelled, or no ready
\* signal within execStartupTimeout) and start's deferred call stops the daemon.
ExecFails ==
  /\ pc = "exec"
  /\ \/ (errCh \/ ctxDone \/ (~ready /\ ~Alive(cur))) /\ UNCHANGED faults
     \/ ~ready /\ Fault
  /\ DStop(cur)
  /\ pc' = "cleanup"
  /\ ready' = FALSE /\ errCh' = FALSE
  /\ UNCHANGED <<cur, clone, svcVars, closed, abandoned, main, relayVars, holder, callVars>>

\* The certificate, the listener list or grpc.NewClient fails after flndStarted.
DialFails ==
  /\ pc = "dial" /\ Fault
  /\ DStop(cur)
  /\ pc' = "cleanup"
  /\ UNCHANGED <<cur, clone, svcVars, closed, abandoned, mainVars, relayVars, holder, callVars>>

\* start succeeds: NewClient, and superviseDaemon starts the relay.
Dial ==
  /\ pc = "dial"
  /\ relay' = "recv" /\ inHand' = "none" /\ health' = <<>> /\ crashErr' = FALSE
  /\ pc' = "register"
  /\ UNCHANGED <<cur, clone, svcVars, dmnVars, mainVars, sigVars, callVars, faults>>

\* registerConnection.
Register ==
  /\ pc = "register"
  /\ attached' = cur
  /\ rescan' = FALSE
  /\ retryNow' = FALSE
  /\ pc' = "wait"
  /\ UNCHANGED <<cur, clone, lastEvent, ctxDone, dmnVars, mainVars, relayVars, sigVars, callVars, faults>>

\* superviseDaemon: waitForShutdown returns, and the relay is cancelled.
WaitForShutdown ==
  /\ pc = "wait"
  /\ DWaitForShutdown(cur)
  /\ pc' = "drain"
  /\ UNCHANGED <<cur, clone, svcVars, stopping, abandoned, mainVars, relayVars, holder, callVars, faults>>

\* Mutants: not waiting for the relay to drain; leaving s.daemon set.
Drain_TooEarly ==
  /\ pc = "drain"
  /\ attached' = NoDaemon
  /\ pc' = IF crashErr THEN "gate" ELSE "top"
  /\ UNCHANGED <<cur, clone, retryNow, lastEvent, rescan, ctxDone, dmnVars, mainVars,
                 relayVars, sigVars, callVars, faults>>
Drain_KeepsPointer ==
  /\ pc = "drain" /\ relay = "done"
  /\ pc' = IF crashErr THEN "gate" ELSE "top"
  /\ relay' = "off" /\ health' = <<>> /\ crashErr' = FALSE
  /\ UNCHANGED <<cur, clone, svcVars, dmnVars, mainVars, inHand, sigVars, callVars, faults>>

\* The relay has ended: clear s.daemon and s.client; a crash error leads to
\* waitForRetry, none leads back to the top of the loop.
Drain ==
  /\ pc = "drain" /\ relay = "done"
  /\ attached' = NoDaemon
  /\ pc' = IF crashErr THEN "gate" ELSE "top"
  /\ relay' = "off" /\ health' = <<>> /\ crashErr' = FALSE
  /\ UNCHANGED <<cur, clone, retryNow, lastEvent, rescan, ctxDone, dmnVars, mainVars,
                 inHand, sigVars, callVars, faults>>

\* After a failed start: the exec goroutine has ended, or 10 s have passed.
Cleanup ==
  /\ pc = "cleanup"
  /\ abandoned' = IF Alive(cur) THEN abandoned \cup {cur} ELSE abandoned
  /\ pc' = "fail"
  /\ UNCHANGED <<cur, clone, svcVars, stopping, closed, mainVars, relayVars, sigVars, callVars, faults>>

FailStartup ==
  /\ pc = "fail"
  /\ lastEvent' = "Crash"
  /\ pc' = "gate"
  /\ UNCHANGED <<cur, clone, attached, retryNow, rescan, ctxDone, dmnVars, mainVars,
                 relayVars, sigVars, callVars, faults>>

\* Mutant: the signal is seen but not consumed.
GateRetry_KeepsSignal ==
  /\ pc = "gate" /\ retryNow
  /\ pc' = "top"
  /\ UNCHANGED <<cur, clone, svcVars, dmnVars, mainVars, relayVars, sigVars, callVars, faults>>

\* waitForRetry.
GateRetry ==
  /\ pc = "gate" /\ retryNow
  /\ retryNow' = FALSE
  /\ pc' = "top"
  /\ UNCHANGED <<cur, clone, attached, lastEvent, rescan, ctxDone, dmnVars, mainVars,
                 relayVars, sigVars, callVars, faults>>

GateStop ==
  /\ pc = "gate" /\ ctxDone
  /\ pc' = "done"
  /\ UNCHANGED <<cur, clone, svcVars, dmnVars, mainVars, relayVars, sigVars, callVars, faults>>

RunLoop ==
  \/ Boot \/ ExitLoop \/ BeginAttempt \/ AcquireFails \/ Launch
  \/ ExecReady \/ ExecFails \/ DialFails \/ Dial \/ Register
  \/ WaitForShutdown \/ Drain \/ Cleanup \/ FailStartup
  \/ GateRetry \/ GateStop

-----------------------------------------------------------------------------
(* Service.runHealthRelay *)

\* Mutant: the update is forwarded without consulting d.isStopping.
RelayReceive_NoFilter ==
  /\ relay = "recv" /\ health # <<>>
  /\ health' = Tail(health)
  /\ relay' = "publish" /\ inHand' = Head(health)
  /\ UNCHANGED <<loopVars, svcVars, dmnVars, mainVars, crashErr, sigVars, callVars, faults>>

\* An update is received; it is dropped when d.isStopping.
RelayReceive ==
  /\ relay = "recv" /\ health # <<>>
  /\ health' = Tail(health)
  /\ IF cur \in stopping
       THEN UNCHANGED <<relay, inHand>>
       ELSE relay' = "publish" /\ inHand' = Head(health)
  /\ UNCHANGED <<loopVars, svcVars, dmnVars, mainVars, crashErr, sigVars, callVars, faults>>

\* Mutant: the crash is published but its error is not captured.
RelayPublish_NotCaptured ==
  /\ relay = "publish"
  /\ lastEvent' = IF inHand = "Echo" THEN "Down" ELSE inHand
  /\ relay' = IF inHand = "Live" THEN "recv" ELSE "halt"
  /\ inHand' = "none"
  /\ UNCHANGED <<loopVars, attached, retryNow, rescan, ctxDone, dmnVars, mainVars,
                 health, crashErr, sigVars, callVars, faults>>

RelayPublish ==
  /\ relay = "publish"
  /\ lastEvent' = IF inHand = "Echo" THEN "Down" ELSE inHand
  /\ crashErr' = (crashErr \/ inHand = "Crash")
  /\ relay' = IF inHand = "Live" THEN "recv" ELSE "halt"
  /\ inHand' = "none"
  /\ UNCHANGED <<loopVars, attached, retryNow, rescan, ctxDone, dmnVars, mainVars,
                 health, sigVars, callVars, faults>>

\* The published update was a StatusDown: d.stop.
RelayHalt ==
  /\ relay = "halt"
  /\ DStop(cur)
  /\ relay' = "recv"
  /\ UNCHANGED <<loopVars, svcVars, closed, abandoned, mainVars, inHand, health, crashErr,
                 holder, callVars, faults>>

\* Mutant: the relay leaves without stopping the daemon.
RelayExit_NoStop ==
  /\ relay = "recv" /\ (pc = "drain" \/ ctxDone)
  /\ relay' = "done"
  /\ UNCHANGED <<loopVars, svcVars, dmnVars, mainVars, inHand, health, crashErr,
                 sigVars, callVars, faults>>

\* relayCtx is done: cancelled by superviseDaemon or through s.ctx.
RelayExit ==
  /\ relay = "recv" /\ (pc = "drain" \/ ctxDone)
  /\ DStop(cur)
  /\ relay' = "done"
  /\ UNCHANGED <<loopVars, svcVars, closed, abandoned, mainVars, inHand, health, crashErr,
                 holder, callVars, faults>>

Relay == RelayReceive \/ RelayPublish \/ RelayHalt \/ RelayExit

-----------------------------------------------------------------------------
(* The API calls.  RestartNode is "Reconfig"; Restart has no new config. *)

Goto(c, label) == cpc' = [cpc EXCEPT ![c] = label]

Call(c, o) ==
  /\ cpc[c] = "idle" /\ calls < MaxCalls
  /\ o = "Stop" => \A x \in Callers : op[x] # "Stop"   \* stopOnce: a second Stop only waits
  /\ op' = [op EXCEPT ![c] = o]
  /\ calls' = calls + 1
  /\ Goto(c, CASE o = "Restart" -> "notify" [] o = "Reconfig" -> "borrow"
               [] o = "Rescan" -> "config"  [] OTHER -> "claim")
  /\ UNCHANGED <<loopVars, svcVars, dmnVars, mainVars, relayVars, sigVars, hand, faults>>

\* App.RestartNode: take the interceptor when it is free; the config may not validate.
Borrow(c) ==
  /\ cpc[c] = "borrow"
  /\ holder' = IF holder = 0 THEN c ELSE holder
  /\ Goto(c, "config") \/ Goto(c, "giveback")
  /\ UNCHANGED <<loopVars, svcVars, dmnVars, mainVars, relayVars, release, op, hand, calls, faults>>

\* RestartWithConfig stores a new config, TriggerRescan sets a flag in the old one.
SetConfig(c) ==
  /\ cpc[c] = "config"
  /\ rescan' = (op[c] = "Rescan")
  /\ Goto(c, "notify")
  /\ UNCHANGED <<loopVars, attached, retryNow, lastEvent, ctxDone, dmnVars, mainVars, relayVars,
                 sigVars, op, hand, calls, faults>>

NotifyStarting(c) ==
  /\ cpc[c] = "notify"
  /\ lastEvent' = "Starting"
  /\ Goto(c, "take")
  /\ UNCHANGED <<loopVars, attached, retryNow, rescan, ctxDone, dmnVars, mainVars, relayVars,
                 sigVars, op, hand, calls, faults>>

\* Mutant: the taken pointer is not tested for nil.
Take_NoNilCheck(c) ==
  /\ cpc[c] = "take"
  /\ hand' = [hand EXCEPT ![c] = attached]
  /\ attached' = NoDaemon
  /\ Goto(c, "stop")
  /\ UNCHANGED <<loopVars, retryNow, lastEvent, rescan, ctxDone, dmnVars, mainVars, relayVars,
                 sigVars, op, calls, faults>>

\* RestartWithConfig takes the pointers under cmux.
Take(c) ==
  /\ cpc[c] = "take"
  /\ hand' = [hand EXCEPT ![c] = attached]
  /\ attached' = NoDaemon
  /\ Goto(c, IF attached = NoDaemon THEN "signal" ELSE "stop")
  /\ UNCHANGED <<loopVars, retryNow, lastEvent, rescan, ctxDone, dmnVars, mainVars, relayVars,
                 sigVars, op, calls, faults>>

StopTaken(c) ==
  /\ cpc[c] = "stop"
  /\ DStop(hand[c])
  /\ hand' = [hand EXCEPT ![c] = NoDaemon]
  /\ Goto(c, "giveback")
  /\ UNCHANGED <<loopVars, svcVars, closed, abandoned, mainVars, relayVars, holder,
                 op, calls, faults>>

SignalRetry(c) ==
  /\ cpc[c] = "signal"
  /\ retryNow' = TRUE
  /\ Goto(c, "giveback")
  /\ UNCHANGED <<loopVars, attached, lastEvent, rescan, ctxDone, dmnVars, mainVars, relayVars,
                 sigVars, op, hand, calls, faults>>

\* The call returns; RestartNode's deferred function releases the interceptor that
\* it took and waits for its ShutdownChannel.
GiveBack(c) ==
  /\ cpc[c] = "giveback"
  /\ \/ holder = c /\ ~release /\ release' = TRUE /\ UNCHANGED cpc
     \/ holder # c /\ Goto(c, "idle") /\ UNCHANGED release
  /\ UNCHANGED <<loopVars, svcVars, dmnVars, mainVars, relayVars, holder, op, hand, calls, faults>>

AfterStopDaemon(c) == IF op[c] = "Stop" THEN "cancel" ELSE "purge"

\* Service.stopDaemon, called by Stop and RecoverNeutrino: claim, stop, wait.
Claim(c) ==
  /\ cpc[c] = "claim"
  /\ hand' = [hand EXCEPT ![c] = attached]
  /\ attached' = NoDaemon
  /\ Goto(c, IF attached = NoDaemon THEN AfterStopDaemon(c) ELSE "halt")
  /\ UNCHANGED <<loopVars, retryNow, lastEvent, rescan, ctxDone, dmnVars, mainVars, relayVars,
                 sigVars, op, calls, faults>>

HaltClaimed(c) ==
  /\ cpc[c] = "halt"
  /\ DStop(hand[c])
  /\ Goto(c, "await")
  /\ UNCHANGED <<loopVars, svcVars, closed, abandoned, mainVars, relayVars, holder,
                 op, hand, calls, faults>>

AwaitClaimed(c) ==
  /\ cpc[c] = "await"
  /\ DWaitForShutdown(hand[c])
  /\ hand' = [hand EXCEPT ![c] = NoDaemon]
  /\ Goto(c, AfterStopDaemon(c))
  /\ UNCHANGED <<loopVars, svcVars, stopping, abandoned, mainVars, relayVars, holder,
                 op, calls, faults>>

\* RecoverNeutrino's purge ends: Restart, or an error after three attempts.
PurgeEnds(c) ==
  /\ cpc[c] = "purge"
  /\ Goto(c, "notify") \/ Goto(c, "idle")
  /\ UNCHANGED <<loopVars, svcVars, dmnVars, mainVars, relayVars, sigVars, op, hand, calls, faults>>

\* Stop: s.cancel and unsubscribeAll, then s.wg.Wait.  run adds itself to s.wg only
\* once it executes.
Cancel(c) ==
  /\ cpc[c] = "cancel"
  /\ ctxDone' = TRUE
  /\ Goto(c, "join")
  /\ UNCHANGED <<loopVars, attached, retryNow, lastEvent, rescan, dmnVars, mainVars, relayVars,
                 sigVars, op, hand, calls, faults>>

\* Mutant: Stop does not wait for the run loop.
Join_NoWait(c) ==
  /\ cpc[c] = "join"
  /\ Goto(c, "stopped")
  /\ UNCHANGED <<loopVars, svcVars, dmnVars, mainVars, relayVars, sigVars, op, hand, calls, faults>>

Join(c) ==
  /\ cpc[c] = "join" /\ pc \in {"boot", "done"}
  /\ Goto(c, "stopped")
  /\ UNCHANGED <<loopVars, svcVars, dmnVars, mainVars, relayVars, sigVars, op, hand, calls, faults>>

Caller(c) ==
  \/ \E o \in Ops : Call(c, o)
  \/ Borrow(c) \/ SetConfig(c) \/ NotifyStarting(c) \/ Take(c) \/ StopTaken(c)
  \/ SignalRetry(c) \/ GiveBack(c)
  \/ Claim(c) \/ HaltClaimed(c) \/ AwaitClaimed(c) \/ PurgeEnds(c)
  \/ Cancel(c) \/ Join(c)

-----------------------------------------------------------------------------
Main(d) == MainReady(d) \/ MainReturns(d) \/ MainFails(d)

Next ==
  \/ RunLoop
  \/ Relay
  \/ InterceptorExits
  \/ \E d \in Attempts : Main(d)
  \/ \E u \in Reports : ClientReports(u)
  \/ \E c \in Callers : Caller(c)

Spec == Init /\ [][Next]_vars

-----------------------------------------------------------------------------
(* Fairness.  Goroutines that can run do run; timers bound every wait for the   *)
(* start of flnd; a released interceptor's handler exits; flnd.Main returns     *)
(* once its interceptor is released.  Nothing obliges a user to call or flnd to *)
(* fail, and the channel receives of a select get no preference.               *)
LiveSpec ==
  /\ Spec
  /\ WF_vars(RunLoop /\ UNCHANGED faults)
  /\ WF_vars(Relay)
  /\ SF_vars(RelayExit)
  /\ WF_vars(InterceptorExits)
  /\ \A d \in Attempts :
       WF_vars(MainReady(d) \/ (AskedToExit(d) /\ (MainReturns(d) \/ MainFails(d))))
  /\ \A c \in Callers : WF_vars(cpc[c] # "idle" /\ Caller(c))

-----------------------------------------------------------------------------
(* Safety *)

\* At most one flnd.Main is running, and only while the run loop attends to it; the
\* exception is a failed start whose goroutine outlived the 10 s cleanup
\* (daemon.go waitForShutdown: returning early would cause a port conflict).
OneNode ==
  \A d \in Attempts : Alive(d) =>
    \/ d \in abandoned
    \/ d = cur /\ pc \in {"exec", "dial", "register", "wait", "cleanup"}

\* The daemon that API calls reach is the one under supervision: at the retry gate,
\* and between attempts, s.daemon is nil, so a Restart there sends its signal.
AttachedIsSupervised ==
  attached # NoDaemon => attached = cur /\ pc \in {"wait", "drain"}

\* Once Stop has returned no node of this service is running or reachable, and the
\* run loop cannot launch another one, even if it had not begun to execute.
StopIsFinal ==
  (\E c \in Callers : cpc[c] = "stopped") =>
    /\ attached = NoDaemon
    /\ pc \in {"boot", "top", "done"} /\ ctxDone
    /\ \A d \in Attempts : Alive(d) => d \in abandoned

\* A daemon that is no longer supervised does not keep the process-wide interceptor,
\* for which the next attempt would spin forever (waitForShutdown, phase 1).
InterceptorReturned ==
  holder \in Attempts /\ ~ctxDone =>
    release \/ (holder = cur /\ pc \in {"exec", "dial", "register", "wait"})

\* The relay never publishes the StatusDown that d.stop itself provoked
\* (runHealthRelay: it would flash a fake "node down" during Lock and Restart).
SelfInducedDownHidden == inHand # "Echo"

\* While an attempt is being started subscribers see Starting and nothing of the
\* previous daemon (superviseDaemon drains the relay before it returns).
StartShown == pc \in {"intercept", "exec", "dial"} => lastEvent = "Starting"

\* If subscribers were last told of a crash, the run loop does not slip past the
\* retry gate when the daemon's supervision ends.
CrashHeld ==
  [][pc = "drain" /\ pc' = "top" => lastEvent # "Crash"]_vars

\* The service implements its abstract specification: a supervised node is one whose
\* failed start was not abandoned, and a request to retry is the signal in the channel.
Phase == IF pc = "gate" THEN "held" ELSE IF pc = "done" THEN "closed" ELSE "trying"
Live == \E d \in Attempts \ abandoned : Alive(d)
Promise == INSTANCE Supervisor WITH phase <- Phase, credit <- retryNow, live <- Live
SupervisorSpec == Promise!Spec

(* Liveness, under LiveSpec *)

\* Stop always returns, whatever the run loop and other callers were doing (unless
\* the bound on attempts keeps the run loop from starting the next one).
StopReturns ==
  \A c \in Callers :
    (op[c] = "Stop" /\ cpc[c] = "claim") ~> (cpc[c] = "stopped" \/ cur = MaxAttempts)

\* The run loop never waits forever for the signal interceptor.
InterceptorObtained ==
  (pc = "intercept" /\ cur < MaxAttempts) ~> pc # "intercept"

\* A Restart issued while the run loop is held at the retry gate opens the gate.
RetryHonoured ==
  \A c \in Callers : (pc = "gate" /\ cpc[c] = "take") ~> pc # "gate"

\* A Restart that found a daemon ends that daemon's supervision.
RestartBounces ==
  \A c \in Callers :
    (cpc[c] = "stop" /\ hand[c] = cur) ~> pc \notin {"wait", "drain"}

-----------------------------------------------------------------------------
(* Statements of the repository that the code does not keep *)

\* service.go, run: "on crash, hold StatusDown until a user-initiated Retry".  At the
\* gate with no signal and no call under way, subscribers were last told StatusDown.
HeldMeansDown ==
  pc = "gate" /\ ~retryNow /\ (\A c \in Callers : cpc[c] \in {"idle", "stopped"})
    => lastEvent \in {"Crash", "Down"}

\* service.go, registerConnection: a signal sent while a daemon is starting "would
\* short-circuit the next genuine waitForRetry ... breaking the down until user clicks
\* Retry invariant".  A failed start leads to the gate with no such signal waiting.
NoStaleSignal ==
  [][pc = "fail" /\ pc' = "gate" => ~retryNow]_vars

\* service.go, RecoverNeutrino: "stops the running daemon, purges the corrupted
\* neutrino header and database files, then restarts the daemon".
PurgeAlone ==
  \A c \in Callers : cpc[c] = "purge" => \A d \in Attempts : ~Alive(d)
=============================================================================
