--------------------- MODULE ServiceRefinementProofs -----------------------
(***************************************************************************)
(* What the outside sees of Service: what subscribers are told, and the    *)
(* promise of the Supervisor, which Service implements.                    *)
(***************************************************************************)
EXTENDS ServiceProofs

\* Queues of health updates.
LEMMA SubmitHealthElements ==
  ASSUME NEW u \in AllReports, health \in Seq(AllReports), SubmitHealth(u),
         NEW i \in 1 .. Len(health')
  PROVE  health'[i] = u \/ (i \in 1 .. Len(health) /\ health'[i] = health[i])
  BY ServiceAssumption DEF SubmitHealth

\* A caller shows Starting or nothing, and stops daemons for good.
LEMMA CallerShows ==
  ASSUME NEW c \in Callers, Caller(c)
  PROVE  lastEvent' \in {lastEvent, "Starting"} /\ stopping \subseteq stopping'
<1>1. ASSUME NEW o \in Ops, Call(c, o)
  PROVE lastEvent' \in {lastEvent, "Starting"} /\ stopping \subseteq stopping'
  BY <1>1 DEF Call, svcVars, dmnVars
<1>2. CASE Borrow(c) BY <1>2 DEF Borrow, svcVars, dmnVars
<1>3. CASE SetConfig(c) BY <1>3 DEF SetConfig, svcVars, dmnVars
<1>4. CASE NotifyStarting(c) BY <1>4 DEF NotifyStarting, svcVars, dmnVars
<1>5. CASE Take(c) BY <1>5 DEF Take, svcVars, dmnVars
<1>6. CASE StopTaken(c) BY <1>6 DEF StopTaken, svcVars, dmnVars, DStop
<1>7. CASE SignalRetry(c) BY <1>7 DEF SignalRetry, svcVars, dmnVars
<1>8. CASE GiveBack(c) BY <1>8 DEF GiveBack, svcVars, dmnVars
<1>9. CASE Claim(c) BY <1>9 DEF Claim, svcVars, dmnVars
<1>10. CASE HaltClaimed(c) BY <1>10 DEF HaltClaimed, svcVars, dmnVars, DStop
<1>11. CASE AwaitClaimed(c) BY <1>11 DEF AwaitClaimed, svcVars, dmnVars
<1>12. CASE PurgeEnds(c) BY <1>12 DEF PurgeEnds, svcVars, dmnVars
<1>13. CASE Cancel(c) BY <1>13 DEF Cancel, svcVars, dmnVars
<1>14. CASE Join(c) BY <1>14 DEF Join, svcVars, dmnVars
<1>15. QED
  BY <1>1, <1>2, <1>3, <1>4, <1>5, <1>6, <1>7, <1>8, <1>9, <1>10, <1>11, <1>12, <1>13, <1>14
    DEF Caller

(***************************************************************************)
(* A new attempt shows Starting; a crash that was shown is remembered.     *)
(***************************************************************************)
CrashKnown == HasClient /\ lastEvent = "Crash" => crashErr
EventInv == StartShown /\ CrashKnown

LEMMA EventStep ==
  ControlTypeOK /\ PointerOK /\ FlagTypeOK /\ EventInv /\ [Next]_vars => EventInv'
<1> SUFFICES ASSUME ControlTypeOK, PointerOK, FlagTypeOK, EventInv, [Next]_vars PROVE EventInv'
  OBVIOUS
<1> USE DEF EventInv, StartShown, CrashKnown, HasClient
<1>1. CASE RunLoop
  <2>1. CASE Boot BY <2>1, Zenon DEF Boot, svcVars, relayVars
  <2>2. CASE ExitLoop BY <2>2, Zenon DEF ExitLoop, svcVars, relayVars
  <2>3. CASE BeginAttempt BY <2>3, Zenon DEF BeginAttempt, svcVars, relayVars
  <2>4. CASE AcquireFails BY <2>4, Zenon DEF AcquireFails, svcVars, relayVars
  <2>5. CASE Launch BY <2>5, Zenon DEF Launch, svcVars, relayVars
  <2>6. CASE ExecReady BY <2>6, Zenon DEF ExecReady, svcVars, relayVars
  <2>7. CASE ExecFails BY <2>7, Zenon DEF ExecFails, svcVars, relayVars
  <2>8. CASE DialFails BY <2>8, Zenon DEF DialFails, svcVars, relayVars
  <2>9. CASE Dial BY <2>9, Zenon DEF Dial, svcVars, relayVars
  <2>10. CASE Register BY <2>10, Zenon DEF Register, svcVars, relayVars
  <2>11. CASE WaitForShutdown BY <2>11, Zenon DEF WaitForShutdown, svcVars, relayVars
  <2>12. CASE Drain BY <2>12, Zenon DEF Drain, svcVars, relayVars
  <2>13. CASE Cleanup BY <2>13, Zenon DEF Cleanup, svcVars, relayVars
  <2>14. CASE FailStartup BY <2>14, Zenon DEF FailStartup, svcVars, relayVars
  <2>15. CASE GateRetry BY <2>15, Zenon DEF GateRetry, svcVars, relayVars
  <2>16. CASE GateStop BY <2>16, Zenon DEF GateStop, svcVars, relayVars
  <2>17. QED
    BY <1>1, <2>1, <2>2, <2>3, <2>4, <2>5, <2>6, <2>7, <2>8, <2>9, <2>10, <2>11, <2>12, <2>13,
      <2>14, <2>15, <2>16 DEF RunLoop
<1>2. CASE Relay
  <2>0. UNCHANGED pc BY <1>2, RelayFrame DEF loopVars
  <2>1. CASE RelayReceive BY <2>0, <2>1 DEF RelayReceive, svcVars
  <2>2. CASE RelayPublish
    <3>1. pc \notin {"intercept", "exec", "dial"} BY <2>2 DEF RelayPublish, PointerOK
    <3>2. lastEvent' = "Crash" => crashErr' BY <2>2, Zenon DEF RelayPublish
    <3>3. QED BY <2>0, <3>1, <3>2
  <2>3. CASE RelayHalt BY <2>0, <2>3 DEF RelayHalt, svcVars
  <2>4. CASE RelayExit BY <2>0, <2>4 DEF RelayExit, svcVars
  <2>5. QED BY <1>2, <2>1, <2>2, <2>3, <2>4 DEF Relay
<1>3. CASE InterceptorExits BY <1>3, InterceptorFrame DEF loopVars, svcVars, relayVars
<1>4. ASSUME NEW d \in Attempts, Main(d) PROVE EventInv'
  BY <1>4, MainFrame DEF loopVars, svcVars
<1>5. ASSUME NEW u \in Reports, ClientReports(u) PROVE EventInv'
  BY <1>5, ReportFrame DEF loopVars, svcVars
<1>6. ASSUME NEW c \in Callers, Caller(c) PROVE EventInv'
  <2>1. UNCHANGED <<pc, crashErr>> BY <1>6, CallerFrame DEF loopVars, relayVars
  <2>2. lastEvent' \in {lastEvent, "Starting"} BY <1>6, CallerShows
  <2>3. QED BY <2>1, <2>2
<1>7. CASE UNCHANGED vars BY <1>7 DEF vars, loopVars, svcVars, relayVars
<1>8. QED BY <1>1, <1>2, <1>3, <1>4, <1>5, <1>6, <1>7 DEF Next

(***************************************************************************)
(* The Down that d.stop provokes stays in the queue or is dropped.         *)
(***************************************************************************)
Echoed == \E i \in 1 .. Len(health) : health[i] = "Echo"
EchoInv == (HasClient /\ Echoed => cur \in stopping) /\ SelfInducedDownHidden

LEMMA EchoStep == ControlTypeOK /\ PointerOK /\ EchoInv /\ [Next]_vars => EchoInv'
<1> SUFFICES ASSUME ControlTypeOK, PointerOK, EchoInv, [Next]_vars PROVE EchoInv'
  OBVIOUS
<1> USE DEF EchoInv, SelfInducedDownHidden, HasClient, Echoed
<1>1. CASE RunLoop
  <2>1. CASE Boot BY <2>1 DEF Boot, relayVars, dmnVars
  <2>2. CASE ExitLoop BY <2>2 DEF ExitLoop, relayVars
  <2>3. CASE BeginAttempt BY <2>3 DEF BeginAttempt, relayVars, dmnVars
  <2>4. CASE AcquireFails BY <2>4 DEF AcquireFails, relayVars, dmnVars
  <2>5. CASE Launch BY <2>5 DEF Launch, relayVars, dmnVars
  <2>6. CASE ExecReady BY <2>6 DEF ExecReady, relayVars, dmnVars
  <2>7. CASE ExecFails BY <2>7 DEF ExecFails, relayVars
  <2>8. CASE DialFails BY <2>8 DEF DialFails, relayVars
  <2>9. CASE Dial BY <2>9 DEF Dial, relayVars, dmnVars
  <2>10. CASE Register BY <2>10 DEF Register, relayVars, dmnVars
  <2>11. CASE WaitForShutdown BY <2>11 DEF WaitForShutdown, relayVars, dmnVars
  <2>12. CASE Drain BY <2>12 DEF Drain, relayVars, dmnVars
  <2>13. CASE Cleanup BY <2>13 DEF Cleanup, relayVars, dmnVars
  <2>14. CASE FailStartup BY <2>14 DEF FailStartup, relayVars, dmnVars
  <2>15. CASE GateRetry BY <2>15 DEF GateRetry, relayVars, dmnVars
  <2>16. CASE GateStop BY <2>16 DEF GateStop, relayVars, dmnVars
  <2>17. QED
    BY <1>1, <2>1, <2>2, <2>3, <2>4, <2>5, <2>6, <2>7, <2>8, <2>9, <2>10, <2>11, <2>12, <2>13,
      <2>14, <2>15, <2>16 DEF RunLoop
<1>2. CASE Relay
  <2>0. UNCHANGED <<pc, cur>> BY <1>2, RelayFrame DEF loopVars
  <2>1. CASE RelayReceive
    <3>1. health \in Seq(AllReports) /\ health # <<>> BY <2>1 DEF RelayReceive, ControlTypeOK
    <3>2. \A i \in 1 .. Len(health') : i + 1 \in 1 .. Len(health) /\ health'[i] = health[i + 1]
      BY <2>1, <3>1 DEF RelayReceive
    <3>3. Head(health) = "Echo" => cur \in stopping
      BY <2>1, <3>1 DEF RelayReceive, PointerOK
    <3>4. Echoed' => Echoed BY <3>2
    <3>5. inHand' # "Echo" BY <2>1, <3>3 DEF RelayReceive
    <3>6. QED BY <2>0, <2>1, <3>4, <3>5 DEF RelayReceive, dmnVars
  <2>2. CASE RelayPublish BY <2>0, <2>2 DEF RelayPublish, dmnVars
  <2>3. CASE RelayHalt BY <2>0, <2>3 DEF RelayHalt, DStop
  <2>4. CASE RelayExit BY <2>0, <2>4 DEF RelayExit, DStop
  <2>5. QED BY <1>2, <2>1, <2>2, <2>3, <2>4 DEF Relay
<1>3. CASE InterceptorExits BY <1>3, InterceptorFrame DEF loopVars, dmnVars, relayVars
<1>4. ASSUME NEW d \in Attempts, Main(d) PROVE EchoInv'
  <2>1. UNCHANGED <<pc, cur, stopping, inHand>> BY <1>4, MainFrame DEF loopVars, dmnVars
  <2>2. ASSUME HasClient, Echoed', ~Echoed PROVE cur \in stopping
    <3>1. PICK u \in KillReports(d) : d = cur /\ SubmitHealth(u)
      BY <1>4, <2>2 DEF Main, MainReady, MainReturns, MainFails, relayVars
    <3>2. u \in AllReports BY DEF KillReports, AllReports
    <3>3. u = "Echo" BY <2>2, <3>1, <3>2, SubmitHealthElements DEF ControlTypeOK
    <3>4. QED BY <3>1, <3>3 DEF KillReports
  <2>3. QED BY <2>1, <2>2
<1>5. ASSUME NEW u \in Reports, ClientReports(u) PROVE EchoInv'
  <2>1. UNCHANGED <<pc, cur, stopping, inHand>> BY <1>5, ReportFrame DEF loopVars, dmnVars
  <2>2. ASSUME Echoed', ~Echoed PROVE u = "Echo"
    BY <1>5, <2>2, SubmitHealthElements, ServiceAssumption DEF ClientReports, ControlTypeOK
  <2>3. u = "Echo" => cur \in stopping BY <1>5 DEF ClientReports
  <2>4. QED BY <2>1, <2>2, <2>3
<1>6. ASSUME NEW c \in Callers, Caller(c) PROVE EchoInv'
  <2>1. UNCHANGED <<pc, cur, inHand, health>> BY <1>6, CallerFrame DEF loopVars, relayVars
  <2>2. stopping \subseteq stopping' BY <1>6, CallerShows
  <2>3. QED BY <2>1, <2>2
<1>7. CASE UNCHANGED vars BY <1>7 DEF vars, loopVars, dmnVars, relayVars
<1>8. QED BY <1>1, <1>2, <1>3, <1>4, <1>5, <1>6, <1>7 DEF Next

(***************************************************************************)
(* The theorems.                                                           *)
(***************************************************************************)

\* From "starting the service" to a connected client, subscribers see Starting.
THEOREM StartShownHolds == Spec => []StartShown
<1>1. Init => ControlTypeOK /\ PointerOK /\ FlagTypeOK /\ EventInv
  <2>1. Init => FlagTypeOK BY Zenon DEF Init, FlagTypeOK
  <2>2. QED
    BY <2>1, ServiceAssumption
    DEF Init, ControlTypeOK, PointerOK, EventInv, StartShown, CrashKnown, HasClient, Attempts,
      NoDaemon, Events, AllReports, AllOps
<1>2. EventInv => StartShown BY DEF EventInv
<1>3. QED BY <1>1, <1>2, ControlTypeStep, PointerStep, FlagTypeStep, EventStep, PTL DEF Spec

\* A run loop whose subscribers were told of a crash goes to the retry gate.
THEOREM CrashHeldHolds == Spec => CrashHeld
<1>1. Init => ControlTypeOK /\ PointerOK /\ FlagTypeOK /\ EventInv
  <2>1. Init => FlagTypeOK BY Zenon DEF Init, FlagTypeOK
  <2>2. QED
    BY <2>1, ServiceAssumption
    DEF Init, ControlTypeOK, PointerOK, EventInv, StartShown, CrashKnown, HasClient, Attempts,
      NoDaemon, Events, AllReports, AllOps
<1>2. ControlTypeOK /\ EventInv /\ [Next]_vars => [pc = "drain" /\ pc' = "top"
  => lastEvent # "Crash"]_vars
  <2> SUFFICES ASSUME ControlTypeOK, EventInv, Next, pc = "drain", pc' = "top"
               PROVE lastEvent # "Crash"
    OBVIOUS
  <2>1. Drain
    <3>1. ~Relay BY RelayFrame DEF loopVars
    <3>2. ~InterceptorExits BY InterceptorFrame DEF loopVars
    <3>3. ~\E d \in Attempts : Main(d) BY MainFrame DEF loopVars
    <3>4. ~\E u \in Reports : ClientReports(u) BY ReportFrame DEF loopVars
    <3>5. ~\E c \in Callers : Caller(c) BY CallerFrame DEF loopVars
    <3>6. RunLoop BY <3>1, <3>2, <3>3, <3>4, <3>5 DEF Next
    <3>7. QED
      BY <3>6
        DEF RunLoop, Boot, ExitLoop, BeginAttempt, AcquireFails, Launch, ExecReady, ExecFails,
        DialFails, Dial, Register, WaitForShutdown, Cleanup, FailStartup, GateRetry, GateStop
  <2>2. ~crashErr BY <2>1 DEF Drain
  <2>3. QED BY <2>2 DEF EventInv, CrashKnown, HasClient
<1>3. QED
  BY <1>1, <1>2, ControlTypeStep, PointerStep, FlagTypeStep, EventStep, PTL DEF Spec, CrashHeld

\* The relay never holds, and so never publishes, a Down that d.stop provoked.
THEOREM EchoHidden == Spec => []SelfInducedDownHidden
<1>1. Init => ControlTypeOK /\ PointerOK /\ EchoInv
  BY ServiceAssumption
  DEF Init, ControlTypeOK, PointerOK, EchoInv, Echoed, SelfInducedDownHidden, HasClient,
    Attempts,
    NoDaemon, Events, AllReports, AllOps
<1>2. EchoInv => SelfInducedDownHidden BY DEF EchoInv
<1>3. QED BY <1>1, <1>2, ControlTypeStep, PointerStep, EchoStep, PTL DEF Spec

-----------------------------------------------------------------------------
(***************************************************************************)
(* Service implements Supervisor: every step is one of its steps, or       *)
(* changes nothing it can see.                                             *)
(***************************************************************************)

Seen == <<Phase, retryNow, Live>>

\* What runs is not changed by who is told about it.
LEMMA LiveFrame == UNCHANGED <<main, abandoned>> => UNCHANGED Live
  BY Zenon DEF Live, Alive

LEMMA PhaseFrame ==
  pc' = pc \/ {pc, pc'} \cap {"gate", "done"} = {} => UNCHANGED Phase
  BY DEF Phase

\* Away from the states in which the loop attends to a node, none is running.
LEMMA Quiet ==
  OneNode /\ pc \notin {"exec", "dial", "register", "wait", "cleanup"} => ~Live
  BY DEF OneNode, Live

\* Live is a truth value.
LEMMA LiveBoolean == Live \in BOOLEAN
  BY Zenon DEF Live

\* A caller sends the retry signal or leaves the channel alone.
LEMMA CallerAsks ==
  ASSUME NEW c \in Callers, Caller(c) PROVE UNCHANGED retryNow \/ retryNow' = TRUE
  BY Zenon
    DEF Caller, Call, Borrow, SetConfig, NotifyStarting, Take, StopTaken, SignalRetry,
    GiveBack, Claim, HaltClaimed, AwaitClaimed, PurgeEnds, Cancel, Join, svcVars

\* A step that changes nothing changes nothing the supervisor sees.
LEMMA StutterFrame == UNCHANGED vars => UNCHANGED Seen
  BY LiveFrame, PhaseFrame DEF Seen, vars, loopVars, svcVars, dmnVars, mainVars

\* Every step of the service is a step of the supervisor, or invisible to it.
LEMMA RefinementStep ==
  ControlTypeOK /\ PointerOK /\ Created /\ OneNode /\ [Next]_vars => [Promise!Next]_Seen
<1> SUFFICES ASSUME ControlTypeOK, PointerOK, Created, OneNode, Next
             PROVE Promise!Next \/ UNCHANGED Seen
  BY StutterFrame DEF Seen, Promise!vars
<1>1. CASE RunLoop
  <2>1. CASE Boot
    BY <2>1, LiveFrame, PhaseFrame DEF Boot, Seen, svcVars, dmnVars, mainVars
  <2>2. CASE ExitLoop
    <3>1. ~Live /\ UNCHANGED <<Live, retryNow>>
      BY <2>2, Quiet, LiveFrame DEF ExitLoop, svcVars, dmnVars, mainVars
    <3>2. Phase \in {"trying", "held"} /\ Phase' = "closed" BY <2>2 DEF ExitLoop, Phase
    <3>3. QED BY <3>1, <3>2 DEF Promise!Next, Promise!Close
  <2>3. CASE BeginAttempt
    BY <2>3, LiveFrame, PhaseFrame DEF BeginAttempt, Seen, svcVars, dmnVars, mainVars
  <2>4. CASE AcquireFails
    BY <2>4, LiveFrame, PhaseFrame DEF AcquireFails, Seen, svcVars, dmnVars, mainVars
  <2>5. CASE Launch
    <3>1. ~Live BY <2>5, Quiet DEF Launch
    <3>2. cur + 1 \in Attempts /\ cur + 1 \notin abandoned
      BY <2>5, ServiceAssumption DEF Launch, ControlTypeOK, Created, Attempts
    <3>3. Live' = TRUE
      <4>1. main'[cur + 1] = "boot" BY <2>5, <3>2 DEF Launch, ControlTypeOK
      <4>2. UNCHANGED abandoned BY <2>5 DEF Launch, dmnVars
      <4>3. QED BY <3>2, <4>1, <4>2 DEF Live, Alive
    <3>4. UNCHANGED <<Phase, retryNow>> BY <2>5, PhaseFrame DEF Launch, svcVars
    <3>5. Phase = "trying" BY <2>5 DEF Launch, Phase
    <3>6. QED BY <3>1, <3>3, <3>4, <3>5 DEF Promise!Next, Promise!Launch
  <2>6. CASE ExecReady
    BY <2>6, LiveFrame, PhaseFrame DEF ExecReady, Seen, svcVars, dmnVars, mainVars
  <2>7. CASE ExecFails
    BY <2>7, LiveFrame, PhaseFrame DEF ExecFails, Seen, svcVars, dmnVars, mainVars
  <2>8. CASE DialFails
    BY <2>8, LiveFrame, PhaseFrame DEF DialFails, Seen, svcVars, dmnVars, mainVars
  <2>9. CASE Dial
    BY <2>9, LiveFrame, PhaseFrame DEF Dial, Seen, svcVars, dmnVars, mainVars
  <2>10. CASE Register
    <3>1. Phase = "trying" /\ retryNow' = FALSE BY <2>10 DEF Register, Phase
    <3>2. UNCHANGED <<Phase, Live>>
      BY <2>10, LiveFrame, PhaseFrame DEF Register, dmnVars, mainVars
    <3>3. QED BY <3>1, <3>2 DEF Promise!Next, Promise!Forget
  <2>11. CASE WaitForShutdown
    BY <2>11, LiveFrame, PhaseFrame DEF WaitForShutdown, Seen, svcVars, dmnVars, mainVars
  <2>12. CASE Drain
    <3>1. ~Live /\ UNCHANGED <<Live, retryNow>>
      BY <2>12, Quiet, LiveFrame DEF Drain, svcVars, dmnVars, mainVars
    <3>2. CASE pc' = "top" BY <2>12, <3>1, <3>2, PhaseFrame DEF Drain, Seen
    <3>3. CASE pc' = "gate"
      <4>1. Phase = "trying" /\ Phase' = "held" BY <2>12, <3>3 DEF Drain, Phase
      <4>2. QED BY <3>1, <4>1 DEF Promise!Next, Promise!Hold
    <3>4. QED BY <2>12, <3>2, <3>3 DEF Drain
  <2>13. CASE Cleanup
    <3>1. UNCHANGED <<Phase, retryNow, main>>
      BY <2>13, PhaseFrame DEF Cleanup, svcVars, mainVars
    <3>2. CASE Alive(cur) /\ cur \notin abandoned
      <4>1. cur \in Attempts BY <2>13 DEF Cleanup, PointerOK, ControlTypeOK, Attempts, NoDaemon
      <4>2. Live BY <3>2, <4>1 DEF Live
      <4>3. abandoned' = abandoned \cup {cur} BY <2>13, <3>2 DEF Cleanup
      <4>4. Live' = FALSE BY <2>13, <3>1, <4>3 DEF Live, OneNode, Alive
      <4>5. QED BY <3>1, <4>2, <4>4 DEF Promise!Next, Promise!End
    <3>3. CASE ~Alive(cur) \/ cur \in abandoned
      <4>1. abandoned' = abandoned BY <2>13, <3>3 DEF Cleanup
      <4>2. QED BY <3>1, <4>1, LiveFrame DEF Seen
    <3>4. QED BY <3>2, <3>3
  <2>14. CASE FailStartup
    <3>1. ~Live /\ UNCHANGED <<Live, retryNow>>
      BY <2>14, Quiet, LiveFrame DEF FailStartup, svcVars, dmnVars, mainVars
    <3>2. Phase = "trying" /\ Phase' = "held" BY <2>14 DEF FailStartup, Phase
    <3>3. QED BY <3>1, <3>2 DEF Promise!Next, Promise!Hold
  <2>15. CASE GateRetry
    <3>1. UNCHANGED Live BY <2>15, LiveFrame DEF GateRetry, dmnVars, mainVars
    <3>2. Phase = "held" /\ Phase' = "trying" BY <2>15 DEF GateRetry, Phase
    <3>3. retryNow /\ retryNow' = FALSE BY <2>15 DEF GateRetry
    <3>4. QED BY <3>1, <3>2, <3>3 DEF Promise!Next, Promise!Retry
  <2>16. CASE GateStop
    <3>1. ~Live /\ UNCHANGED <<Live, retryNow>>
      BY <2>16, Quiet, LiveFrame DEF GateStop, svcVars, dmnVars, mainVars
    <3>2. Phase \in {"trying", "held"} /\ Phase' = "closed" BY <2>16 DEF GateStop, Phase
    <3>3. QED BY <3>1, <3>2 DEF Promise!Next, Promise!Close
  <2>17. QED
    BY <1>1, <2>1, <2>2, <2>3, <2>4, <2>5, <2>6, <2>7, <2>8, <2>9, <2>10, <2>11, <2>12, <2>13,
      <2>14, <2>15, <2>16 DEF RunLoop
<1>2. CASE Relay
  BY <1>2, RelayFrame, LiveFrame, PhaseFrame DEF Seen, loopVars, mainVars
<1>3. CASE InterceptorExits
  BY <1>3, InterceptorFrame, LiveFrame, PhaseFrame
    DEF Seen, loopVars, svcVars, dmnVars, mainVars
<1>4. ASSUME NEW d \in Attempts, Main(d) PROVE Promise!Next \/ UNCHANGED Seen
  <2>0. UNCHANGED <<Phase, retryNow, abandoned>>
    BY <1>4, MainFrame, PhaseFrame DEF loopVars, svcVars, dmnVars
  <2>1. CASE MainReady(d)
    <3>1. \A e \in Attempts : Alive(e)' <=> Alive(e)
      BY <2>1 DEF MainReady, Alive, ControlTypeOK
    <3>2. UNCHANGED Live BY <2>0, <3>1, Zenon DEF Live
    <3>3. QED BY <2>0, <3>2 DEF Seen
  <2>2. CASE MainReturns(d) \/ MainFails(d)
    <3>1. Alive(d) /\ ~Alive(d)' BY <2>2 DEF MainReturns, MainFails, Alive, ControlTypeOK
    <3>2. \A e \in Attempts \ {d} : Alive(e)' <=> Alive(e)
      BY <2>2 DEF MainReturns, MainFails, Alive, ControlTypeOK
    <3>3. CASE d \in abandoned
      <4>1. UNCHANGED Live BY <2>0, <3>2, <3>3, Zenon DEF Live
      <4>2. QED BY <2>0, <4>1 DEF Seen
    <3>4. CASE d \notin abandoned
      <4>1. Live BY <3>1, <3>4 DEF Live
      <4>2. \A e \in Attempts \ {d} : Alive(e) => e \in abandoned
        BY <3>1, <3>4 DEF OneNode
      <4>3. Live' = FALSE BY <2>0, <3>1, <3>2, <4>2 DEF Live
      <4>4. QED BY <2>0, <4>1, <4>3 DEF Promise!Next, Promise!End
    <3>5. QED BY <3>3, <3>4
  <2>3. QED BY <1>4, <2>1, <2>2 DEF Main
<1>5. ASSUME NEW u \in Reports, ClientReports(u) PROVE UNCHANGED Seen
  BY <1>5, ReportFrame, LiveFrame, PhaseFrame DEF Seen, loopVars, svcVars, dmnVars, mainVars
<1>6. ASSUME NEW c \in Callers, Caller(c) PROVE Promise!Next \/ UNCHANGED Seen
  <2>1. UNCHANGED <<Phase, Live>>
    BY <1>6, CallerFrame, LiveFrame, PhaseFrame DEF loopVars, mainVars
  <2>2. UNCHANGED retryNow \/ retryNow' = TRUE BY <1>6, CallerAsks
  <2>3. QED BY <2>1, <2>2 DEF Seen, Promise!Next, Promise!Ask
<1>7. QED BY <1>1, <1>2, <1>3, <1>4, <1>5, <1>6 DEF Next

\* The service is a supervisor: one node at a time, none after a crash until a request
\* to retry is spent, none once closed.
THEOREM Refinement == Spec => SupervisorSpec
<1>1. Init => ControlTypeOK /\ PointerOK /\ Created
  BY ServiceAssumption
  DEF Init, ControlTypeOK, PointerOK, Created, Attempts, NoDaemon, Events, AllReports, AllOps
<1>2. Init => Promise!Init
  <2> SUFFICES ASSUME Init PROVE Promise!Init
    OBVIOUS
  <2>1. Phase = "trying" BY DEF Init, Phase
  <2>2. ~Live BY DEF Init, Live, Alive
  <2>3. QED BY <2>1, <2>2, LiveBoolean, Zenon DEF Init, Promise!Init
<1>3. QED
  BY <1>1, <1>2, ControlTypeStep, PointerStep, CreatedStep, OneNodeHolds, RefinementStep, PTL
  DEF Spec, SupervisorSpec, Promise!Spec, Seen, Promise!vars
=============================================================================
