--------------------------- MODULE ServiceProofs ---------------------------
(***************************************************************************)
(* Proofs about Service for every set of callers and every bound: first    *)
(* the types and the pointers, then the safety invariants.                 *)
(***************************************************************************)
EXTENDS Service, TLAPS

\* A non-nil pointer is where a method is called on it, and the relay runs only
\* while the daemon it serves has a client.
PointerOK ==
  /\ pc \in {"exec", "dial", "register", "wait", "drain", "cleanup"} => cur # NoDaemon
  /\ relay # "off" => HasClient
  /\ relay = "publish" => inHand # "none"
  /\ \A c \in Callers : cpc[c] \in {"stop", "halt", "await"} => hand[c] # NoDaemon

\* The methods of a daemon record it in the sets they write, and nothing else.
LEMMA DaemonSets ==
  ASSUME NEW d \in Attempts
  PROVE  /\ stopping \subseteq Attempts /\ DStop(d) => stopping' \subseteq Attempts
         /\ closed \subseteq Attempts /\ DWaitForShutdown(d) => closed' \subseteq Attempts
  BY DEF DStop, DWaitForShutdown

\* A report leaves the queue of reports a queue of reports.
LEMMA HealthQueue ==
  ASSUME NEW u \in AllReports, health \in Seq(AllReports), SubmitHealth(u)
  PROVE  health' \in Seq(AllReports)
  BY DEF SubmitHealth

\* No step calls a method on a nil pointer.
LEMMA PointerStep == ControlTypeOK /\ PointerOK /\ [Next]_vars => PointerOK'
<1> SUFFICES ASSUME ControlTypeOK, PointerOK, [Next]_vars PROVE PointerOK'
  OBVIOUS
<1> USE ServiceAssumption
  DEF loopVars, svcVars, dmnVars, mainVars, relayVars, sigVars, callVars,
      Attempts, NoDaemon, PointerOK, HasClient
<1> USE DEF ControlTypeOK
<1>1. CASE RunLoop
  <2>1. CASE Boot BY <2>1 DEF Boot
  <2>2. CASE ExitLoop BY <2>2 DEF ExitLoop
  <2>3. CASE BeginAttempt BY <2>3 DEF BeginAttempt
  <2>4. CASE AcquireFails BY <2>4 DEF AcquireFails
  <2>5. CASE Launch BY <2>5 DEF Launch
  <2>6. CASE ExecReady BY <2>6 DEF ExecReady
  <2>7. CASE ExecFails BY <2>7 DEF ExecFails
  <2>8. CASE DialFails BY <2>8 DEF DialFails
  <2>9. CASE Dial BY <2>9 DEF Dial
  <2>10. CASE Register BY <2>10 DEF Register
  <2>11. CASE WaitForShutdown BY <2>11 DEF WaitForShutdown
  <2>12. CASE Drain BY <2>12 DEF Drain
  <2>13. CASE Cleanup BY <2>13 DEF Cleanup
  <2>14. CASE FailStartup BY <2>14 DEF FailStartup
  <2>15. CASE GateRetry BY <2>15 DEF GateRetry
  <2>16. CASE GateStop BY <2>16 DEF GateStop
  <2>17. QED
    BY <1>1, <2>1, <2>2, <2>3, <2>4, <2>5, <2>6, <2>7, <2>8, <2>9, <2>10, <2>11, <2>12, <2>13,
      <2>14, <2>15, <2>16 DEF RunLoop
<1>2. CASE Relay
  <2>1. CASE RelayReceive
    <3>1. Head(health) \in AllReports BY <2>1 DEF RelayReceive
    <3>2. Head(health) # "none" BY <3>1 DEF AllReports
    <3>3. QED BY <2>1, <3>2 DEF RelayReceive
  <2>2. CASE RelayPublish BY <2>2 DEF RelayPublish
  <2>3. CASE RelayHalt BY <2>3 DEF RelayHalt
  <2>4. CASE RelayExit BY <2>4 DEF RelayExit
  <2>5. QED BY <1>2, <2>1, <2>2, <2>3, <2>4 DEF Relay
<1>3. CASE InterceptorExits BY <1>3 DEF InterceptorExits
<1>4. ASSUME NEW d \in Attempts, Main(d) PROVE PointerOK'
  <2>1. CASE MainReady(d) BY <2>1 DEF MainReady
  <2>2. CASE MainReturns(d) BY <2>2 DEF MainReturns
  <2>3. CASE MainFails(d) BY <2>3 DEF MainFails
  <2>4. QED BY <1>4, <2>1, <2>2, <2>3 DEF Main
<1>5. ASSUME NEW u \in Reports, ClientReports(u) PROVE PointerOK'
  BY <1>5 DEF ClientReports
<1>6. ASSUME NEW c \in Callers, Caller(c) PROVE PointerOK'
  <2>1. ASSUME NEW o \in Ops, Call(c, o) PROVE PointerOK' BY <2>1 DEF Call, Goto
  <2>2. CASE Borrow(c) BY <2>2 DEF Borrow, Goto
  <2>3. CASE SetConfig(c) BY <2>3 DEF SetConfig, Goto
  <2>4. CASE NotifyStarting(c) BY <2>4 DEF NotifyStarting, Goto
  <2>5. CASE Take(c) BY <2>5 DEF Take, Goto
  <2>6. CASE StopTaken(c) BY <2>6 DEF StopTaken, Goto
  <2>7. CASE SignalRetry(c) BY <2>7 DEF SignalRetry, Goto
  <2>8. CASE GiveBack(c) BY <2>8 DEF GiveBack, Goto
  <2>9. CASE Claim(c) BY <2>9 DEF Claim, Goto, AfterStopDaemon
  <2>10. CASE HaltClaimed(c) BY <2>10 DEF HaltClaimed, Goto
  <2>11. CASE AwaitClaimed(c) BY <2>11 DEF AwaitClaimed, Goto, AfterStopDaemon
  <2>12. CASE PurgeEnds(c) BY <2>12 DEF PurgeEnds, Goto
  <2>13. CASE Cancel(c) BY <2>13 DEF Cancel, Goto
  <2>14. CASE Join(c) BY <2>14 DEF Join, Goto
  <2>15. QED
    BY <1>6, <2>1, <2>2, <2>3, <2>4, <2>5, <2>6, <2>7, <2>8, <2>9, <2>10, <2>11, <2>12, <2>13,
      <2>14 DEF Caller
<1>7. CASE UNCHANGED vars BY <1>7 DEF vars
<1>8. QED BY <1>1, <1>2, <1>3, <1>4, <1>5, <1>6, <1>7 DEF Next

\* No step takes a program counter, pointer or queue out of its type.
LEMMA ControlTypeStep == ControlTypeOK /\ PointerOK /\ [Next]_vars => ControlTypeOK'
<1> SUFFICES ASSUME ControlTypeOK, PointerOK, [Next]_vars PROVE ControlTypeOK'
  OBVIOUS
<1> USE ServiceAssumption
  DEF loopVars, svcVars, dmnVars, mainVars, relayVars, sigVars, callVars,
      Attempts, NoDaemon,
      Events, AllReports, AllOps, ControlTypeOK
<1>1. CASE RunLoop
  <2>1. CASE Boot BY <2>1, SMTT(30) DEF Boot
  <2>2. CASE ExitLoop
    <3>1. stopping' \subseteq Attempts
      <4>1. CASE attached = NoDaemon BY <2>2, <4>1 DEF ExitLoop
      <4>2. CASE attached # NoDaemon
        <5>1. attached \in Attempts BY <4>2
        <5>2. DStop(attached) BY <2>2, <4>2 DEF ExitLoop
        <5>3. QED BY <5>1, <5>2, DaemonSets
      <4>3. QED BY <4>1, <4>2
    <3>2. QED
      BY <2>2, <3>1, SMTT(30) DEF ExitLoop
  <2>3. CASE BeginAttempt BY <2>3, SMTT(30) DEF BeginAttempt
  <2>4. CASE AcquireFails BY <2>4, SMTT(30) DEF AcquireFails, Fault
  <2>5. CASE Launch BY <2>5, SMTT(30) DEF Launch
  <2>6. CASE ExecReady BY <2>6, SMTT(30) DEF ExecReady
  <2>7. CASE ExecFails
    <3>1. stopping' \subseteq Attempts
      BY <2>7, DaemonSets DEF ExecFails, PointerOK, HasClient
    <3>2. QED
      BY <2>7, <3>1, SMTT(30) DEF ExecFails, Fault
  <2>8. CASE DialFails
    <3>1. stopping' \subseteq Attempts
      BY <2>8, DaemonSets DEF DialFails, PointerOK, HasClient
    <3>2. QED
      BY <2>8, <3>1, SMTT(30) DEF DialFails, Fault
  <2>9. CASE Dial BY <2>9, SMTT(30) DEF Dial
  <2>10. CASE Register BY <2>10, SMTT(30) DEF Register
  <2>11. CASE WaitForShutdown
    <3>1. closed' \subseteq Attempts
      BY <2>11, DaemonSets DEF WaitForShutdown, PointerOK, HasClient
    <3>2. QED
      BY <2>11, <3>1, SMTT(30) DEF WaitForShutdown
  <2>12. CASE Drain BY <2>12, SMTT(30) DEF Drain
  <2>13. CASE Cleanup
    <3>1. abandoned' \subseteq Attempts BY <2>13 DEF Cleanup, PointerOK
    <3>2. QED BY <2>13, <3>1, SMTT(30) DEF Cleanup
  <2>14. CASE FailStartup BY <2>14, SMTT(30) DEF FailStartup
  <2>15. CASE GateRetry BY <2>15, SMTT(30) DEF GateRetry
  <2>16. CASE GateStop BY <2>16, SMTT(30) DEF GateStop
  <2>17. QED
    BY <1>1, <2>1, <2>2, <2>3, <2>4, <2>5, <2>6, <2>7, <2>8, <2>9, <2>10, <2>11, <2>12, <2>13,
      <2>14, <2>15, <2>16 DEF RunLoop
<1>2. CASE Relay
  <2>1. CASE RelayReceive BY <2>1, SMTT(30) DEF RelayReceive
  <2>2. CASE RelayPublish
    <3>1. lastEvent' \in Events BY <2>2 DEF RelayPublish, PointerOK
    <3>2. QED BY <2>2, <3>1, SMTT(30) DEF RelayPublish
  <2>3. CASE RelayHalt
    <3>1. stopping' \subseteq Attempts
      <4>1. cur \in Attempts BY <2>3 DEF RelayHalt, PointerOK, HasClient
      <4>2. DStop(cur) BY <2>3 DEF RelayHalt
      <4>3. QED BY <4>1, <4>2, DaemonSets
    <3>2. QED
      BY <2>3, <3>1, SMTT(30) DEF RelayHalt
  <2>4. CASE RelayExit
    <3>1. stopping' \subseteq Attempts
      <4>1. cur \in Attempts BY <2>4 DEF RelayExit, PointerOK, HasClient
      <4>2. DStop(cur) BY <2>4 DEF RelayExit
      <4>3. QED BY <4>1, <4>2, DaemonSets
    <3>2. QED
      BY <2>4, <3>1, SMTT(30) DEF RelayExit
  <2>5. QED BY <1>2, <2>1, <2>2, <2>3, <2>4 DEF Relay
<1>3. CASE InterceptorExits BY <1>3, SMTT(30) DEF InterceptorExits
<1>4. ASSUME NEW d \in Attempts, Main(d) PROVE ControlTypeOK'
  <2>1. CASE MainReady(d) BY <2>1, SMTT(30) DEF MainReady
  <2>2. CASE MainReturns(d) BY <2>2, SMTT(30) DEF MainReturns, Fault
  <2>3. CASE MainFails(d)
    <3>1. health' \in Seq(AllReports)
      <4>1. ASSUME NEW u \in KillReports(d), SubmitHealth(u) PROVE health' \in Seq(AllReports)
        BY <4>1, HealthQueue DEF KillReports
      <4>2. QED BY <2>3, <4>1 DEF MainFails
    <3>2. faults' \in 0 .. MaxFaults BY <2>3 DEF MainFails, Fault
    <3>3. main' \in [Attempts -> {"none", "boot", "up", "exited"}] BY <2>3 DEF MainFails
    <3>4. QED BY <2>3, <3>1, <3>2, <3>3, SMTT(30) DEF MainFails
  <2>4. QED BY <1>4, <2>1, <2>2, <2>3 DEF Main
<1>5. ASSUME NEW u \in Reports, ClientReports(u) PROVE ControlTypeOK'
  BY <1>5, SMTT(30) DEF ClientReports, Fault, SubmitHealth
<1>6. ASSUME NEW c \in Callers, Caller(c) PROVE ControlTypeOK'
  <2>1. ASSUME NEW o \in Ops, Call(c, o) PROVE ControlTypeOK' BY <2>1, SMTT(30) DEF Call, Goto
  <2>2. CASE Borrow(c) BY <2>2, SMTT(30) DEF Borrow, Goto
  <2>3. CASE SetConfig(c) BY <2>3, SMTT(30) DEF SetConfig, Goto
  <2>4. CASE NotifyStarting(c) BY <2>4, SMTT(30) DEF NotifyStarting, Goto
  <2>5. CASE Take(c) BY <2>5, SMTT(30) DEF Take, Goto
  <2>6. CASE StopTaken(c)
    <3>1. stopping' \subseteq Attempts
      <4>1. hand[c] \in Attempts BY <2>6 DEF StopTaken, PointerOK, HasClient
      <4>2. DStop(hand[c]) BY <2>6 DEF StopTaken
      <4>3. QED BY <4>1, <4>2, DaemonSets
    <3>2. QED
      BY <2>6, <3>1, SMTT(30) DEF StopTaken, Goto
  <2>7. CASE SignalRetry(c) BY <2>7, SMTT(30) DEF SignalRetry, Goto
  <2>8. CASE GiveBack(c) BY <2>8, SMTT(30) DEF GiveBack, Goto
  <2>9. CASE Claim(c) BY <2>9, SMTT(30) DEF Claim, Goto, AfterStopDaemon
  <2>10. CASE HaltClaimed(c)
    <3>1. stopping' \subseteq Attempts
      <4>1. hand[c] \in Attempts BY <2>10 DEF HaltClaimed, PointerOK, HasClient
      <4>2. DStop(hand[c]) BY <2>10 DEF HaltClaimed
      <4>3. QED BY <4>1, <4>2, DaemonSets
    <3>2. QED
      BY <2>10, <3>1, SMTT(30) DEF HaltClaimed, Goto
  <2>11. CASE AwaitClaimed(c)
    <3>1. closed' \subseteq Attempts
      <4>1. hand[c] \in Attempts BY <2>11 DEF AwaitClaimed, PointerOK, HasClient
      <4>2. DWaitForShutdown(hand[c]) BY <2>11 DEF AwaitClaimed
      <4>3. QED BY <4>1, <4>2, DaemonSets
    <3>2. QED
      BY <2>11, <3>1, SMTT(30) DEF AwaitClaimed, Goto, AfterStopDaemon
  <2>12. CASE PurgeEnds(c) BY <2>12, SMTT(30) DEF PurgeEnds, Goto
  <2>13. CASE Cancel(c) BY <2>13, SMTT(30) DEF Cancel, Goto
  <2>14. CASE Join(c) BY <2>14, SMTT(30) DEF Join, Goto
  <2>15. QED
    BY <1>6, <2>1, <2>2, <2>3, <2>4, <2>5, <2>6, <2>7, <2>8, <2>9, <2>10, <2>11, <2>12, <2>13,
      <2>14 DEF Caller
<1>7. CASE UNCHANGED vars BY <1>7, SMTT(30) DEF vars
<1>8. QED BY <1>1, <1>2, <1>3, <1>4, <1>5, <1>6, <1>7 DEF Next

\* No step takes a flag out of BOOLEAN.
LEMMA FlagTypeStep == FlagTypeOK /\ [Next]_vars => FlagTypeOK'
<1> SUFFICES ASSUME FlagTypeOK, [Next]_vars PROVE FlagTypeOK'
  OBVIOUS
<1> USE DEF FlagTypeOK, loopVars, svcVars, dmnVars, mainVars, relayVars, sigVars, callVars
<1>1. CASE RunLoop
  <2>1. CASE Boot BY <2>1, Zenon DEF Boot
  <2>2. CASE ExitLoop BY <2>2, Zenon DEF ExitLoop, DStop, RequestShutdown
  <2>3. CASE BeginAttempt BY <2>3, Zenon DEF BeginAttempt
  <2>4. CASE AcquireFails BY <2>4, Zenon DEF AcquireFails, Fault
  <2>5. CASE Launch BY <2>5, Zenon DEF Launch
  <2>6. CASE ExecReady BY <2>6, Zenon DEF ExecReady
  <2>7. CASE ExecFails BY <2>7, Zenon DEF ExecFails, DStop, RequestShutdown, Fault
  <2>8. CASE DialFails BY <2>8, Zenon DEF DialFails, DStop, RequestShutdown, Fault
  <2>9. CASE Dial BY <2>9, Zenon DEF Dial
  <2>10. CASE Register BY <2>10, Zenon DEF Register
  <2>11. CASE WaitForShutdown
    BY <2>11, Zenon DEF WaitForShutdown, DWaitForShutdown, RequestShutdown
  <2>12. CASE Drain BY <2>12, Zenon DEF Drain
  <2>13. CASE Cleanup BY <2>13, Zenon DEF Cleanup
  <2>14. CASE FailStartup BY <2>14, Zenon DEF FailStartup
  <2>15. CASE GateRetry BY <2>15, Zenon DEF GateRetry
  <2>16. CASE GateStop BY <2>16, Zenon DEF GateStop
  <2>17. QED
    BY <1>1, <2>1, <2>2, <2>3, <2>4, <2>5, <2>6, <2>7, <2>8, <2>9, <2>10, <2>11, <2>12, <2>13,
      <2>14, <2>15, <2>16 DEF RunLoop
<1>2. CASE Relay
  <2>1. CASE RelayReceive BY <2>1, Zenon DEF RelayReceive
  <2>2. CASE RelayPublish BY <2>2, Zenon DEF RelayPublish
  <2>3. CASE RelayHalt BY <2>3, Zenon DEF RelayHalt, DStop, RequestShutdown
  <2>4. CASE RelayExit BY <2>4, Zenon DEF RelayExit, DStop, RequestShutdown
  <2>5. QED BY <1>2, <2>1, <2>2, <2>3, <2>4 DEF Relay
<1>3. CASE InterceptorExits BY <1>3, Zenon DEF InterceptorExits
<1>4. ASSUME NEW d \in Attempts, Main(d) PROVE FlagTypeOK'
  <2>1. CASE MainReady(d) BY <2>1, Zenon DEF MainReady
  <2>2. CASE MainReturns(d) BY <2>2, Zenon DEF MainReturns, Fault
  <2>3. CASE MainFails(d) BY <2>3, Zenon DEF MainFails, Fault, KillReports, SubmitHealth
  <2>4. QED BY <1>4, <2>1, <2>2, <2>3 DEF Main
<1>5. ASSUME NEW u \in Reports, ClientReports(u) PROVE FlagTypeOK'
  BY <1>5, Zenon DEF ClientReports, Fault, SubmitHealth
<1>6. ASSUME NEW c \in Callers, Caller(c) PROVE FlagTypeOK'
  <2>1. ASSUME NEW o \in Ops, Call(c, o) PROVE FlagTypeOK' BY <2>1, Zenon DEF Call, Goto
  <2>2. CASE Borrow(c) BY <2>2, Zenon DEF Borrow, Goto
  <2>3. CASE SetConfig(c) BY <2>3, Zenon DEF SetConfig, Goto
  <2>4. CASE NotifyStarting(c) BY <2>4, Zenon DEF NotifyStarting, Goto
  <2>5. CASE Take(c) BY <2>5, Zenon DEF Take, Goto
  <2>6. CASE StopTaken(c) BY <2>6, Zenon DEF StopTaken, Goto, DStop, RequestShutdown
  <2>7. CASE SignalRetry(c) BY <2>7, Zenon DEF SignalRetry, Goto
  <2>8. CASE GiveBack(c) BY <2>8, Zenon DEF GiveBack, Goto
  <2>9. CASE Claim(c) BY <2>9, Zenon DEF Claim, Goto, AfterStopDaemon
  <2>10. CASE HaltClaimed(c) BY <2>10, Zenon DEF HaltClaimed, Goto, DStop, RequestShutdown
  <2>11. CASE AwaitClaimed(c)
    BY <2>11, Zenon DEF AwaitClaimed, Goto, DWaitForShutdown, RequestShutdown, AfterStopDaemon
  <2>12. CASE PurgeEnds(c) BY <2>12, Zenon DEF PurgeEnds, Goto
  <2>13. CASE Cancel(c) BY <2>13, Zenon DEF Cancel, Goto
  <2>14. CASE Join(c) BY <2>14, Zenon DEF Join, Goto
  <2>15. QED
    BY <1>6, <2>1, <2>2, <2>3, <2>4, <2>5, <2>6, <2>7, <2>8, <2>9, <2>10, <2>11, <2>12, <2>13,
      <2>14 DEF Caller
<1>7. CASE UNCHANGED vars BY <1>7, Zenon DEF vars
<1>8. QED BY <1>1, <1>2, <1>3, <1>4, <1>5, <1>6, <1>7 DEF Next

\* Every variable keeps its type.
THEOREM TypeCorrect == Spec => []TypeOK
<1>1. Init => ControlTypeOK
  BY ServiceAssumption DEF Init, ControlTypeOK, Attempts, NoDaemon, Events, AllReports, AllOps
<1>2. Init => FlagTypeOK
  BY Zenon DEF Init, FlagTypeOK
<1>3. Init => PointerOK
  BY DEF Init, PointerOK
<1>4. QED
  BY <1>1, <1>2, <1>3, PointerStep, ControlTypeStep, FlagTypeStep, PTL DEF Spec, TypeOK

-----------------------------------------------------------------------------
(***************************************************************************)
(* The safety invariants of Service.  Each proof looks at the actors that  *)
(* can disturb the invariant; the Frame lemmas say what the others leave   *)
(* alone.                                                                  *)
(***************************************************************************)

\* What each actor never writes.
LEMMA RelayFrame == Relay => UNCHANGED <<loopVars, attached, retryNow, rescan, ctxDone,
                                        mainVars, closed, abandoned, holder, callVars>>
  BY Zenon DEF Relay, RelayReceive, RelayPublish, RelayHalt, RelayExit,
    loopVars, svcVars, dmnVars, mainVars, relayVars, sigVars, callVars

LEMMA InterceptorFrame ==
  InterceptorExits => UNCHANGED <<loopVars, svcVars, dmnVars, mainVars, relayVars, callVars>>
  BY Zenon DEF InterceptorExits

LEMMA MainFrame ==
  ASSUME NEW d \in Attempts, Main(d)
  PROVE  UNCHANGED <<loopVars, svcVars, dmnVars, relay, inHand, crashErr, sigVars, callVars>>
  BY Zenon DEF Main, MainReady, MainReturns, MainFails, relayVars

LEMMA ReportFrame ==
  ASSUME NEW u \in Reports, ClientReports(u)
  PROVE  UNCHANGED <<loopVars, svcVars, dmnVars, mainVars, relay, inHand, crashErr, sigVars,
    callVars>>
  BY Zenon DEF ClientReports

LEMMA CallerFrame ==
  ASSUME NEW c \in Callers, Caller(c)
  PROVE  UNCHANGED <<loopVars, abandoned, mainVars, relayVars>>
<1>1. ASSUME NEW o \in Ops, Call(c, o)
  PROVE UNCHANGED <<loopVars, abandoned, mainVars, relayVars>>
    BY <1>1, Zenon DEF Call, svcVars, dmnVars, sigVars
<1>2. CASE Borrow(c) BY <1>2, Zenon DEF Borrow, svcVars, dmnVars, sigVars
<1>3. CASE SetConfig(c) BY <1>3, Zenon DEF SetConfig, svcVars, dmnVars, sigVars
<1>4. CASE NotifyStarting(c) BY <1>4, Zenon DEF NotifyStarting, svcVars, dmnVars, sigVars
<1>5. CASE Take(c) BY <1>5, Zenon DEF Take, svcVars, dmnVars, sigVars
<1>6. CASE StopTaken(c) BY <1>6, Zenon DEF StopTaken, svcVars, dmnVars, sigVars
<1>7. CASE SignalRetry(c) BY <1>7, Zenon DEF SignalRetry, svcVars, dmnVars, sigVars
<1>8. CASE GiveBack(c) BY <1>8, Zenon DEF GiveBack, svcVars, dmnVars, sigVars
<1>9. CASE Claim(c) BY <1>9, Zenon DEF Claim, svcVars, dmnVars, sigVars
<1>10. CASE HaltClaimed(c) BY <1>10, Zenon DEF HaltClaimed, svcVars, dmnVars, sigVars
<1>11. CASE AwaitClaimed(c) BY <1>11, Zenon DEF AwaitClaimed, svcVars, dmnVars, sigVars
<1>12. CASE PurgeEnds(c) BY <1>12, Zenon DEF PurgeEnds, svcVars, dmnVars, sigVars
<1>13. CASE Cancel(c) BY <1>13, Zenon DEF Cancel, svcVars, dmnVars, sigVars
<1>14. CASE Join(c) BY <1>14, Zenon DEF Join, svcVars, dmnVars, sigVars
<1>15. QED
  BY <1>1, <1>2, <1>3, <1>4, <1>5, <1>6, <1>7, <1>8, <1>9, <1>10, <1>11, <1>12, <1>13, <1>14
    DEF Caller

\* A caller takes the pointer or leaves it, and never revives a cancelled context.
LEMMA CallerTakes ==
  ASSUME NEW c \in Callers, Caller(c)
  PROVE  attached' \in {attached, NoDaemon} /\ (ctxDone => ctxDone')
<1>1. ASSUME NEW o \in Ops, Call(c, o)
  PROVE attached' \in {attached, NoDaemon} /\ (ctxDone => ctxDone')
    BY <1>1, Zenon DEF Call, svcVars
<1>2. CASE Borrow(c) BY <1>2, Zenon DEF Borrow, svcVars
<1>3. CASE SetConfig(c) BY <1>3, Zenon DEF SetConfig, svcVars
<1>4. CASE NotifyStarting(c) BY <1>4, Zenon DEF NotifyStarting, svcVars
<1>5. CASE Take(c) BY <1>5, Zenon DEF Take, svcVars
<1>6. CASE StopTaken(c) BY <1>6, Zenon DEF StopTaken, svcVars
<1>7. CASE SignalRetry(c) BY <1>7, Zenon DEF SignalRetry, svcVars
<1>8. CASE GiveBack(c) BY <1>8, Zenon DEF GiveBack, svcVars
<1>9. CASE Claim(c) BY <1>9, Zenon DEF Claim, svcVars
<1>10. CASE HaltClaimed(c) BY <1>10, Zenon DEF HaltClaimed, svcVars
<1>11. CASE AwaitClaimed(c) BY <1>11, Zenon DEF AwaitClaimed, svcVars
<1>12. CASE PurgeEnds(c) BY <1>12, Zenon DEF PurgeEnds, svcVars
<1>13. CASE Cancel(c) BY <1>13, Zenon DEF Cancel, svcVars
<1>14. CASE Join(c) BY <1>14, Zenon DEF Join, svcVars
<1>15. QED
  BY <1>1, <1>2, <1>3, <1>4, <1>5, <1>6, <1>7, <1>8, <1>9, <1>10, <1>11, <1>12, <1>13, <1>14
    DEF Caller

(***************************************************************************)
(* At most one node runs, and the run loop attends to it.                  *)
(***************************************************************************)
LEMMA OneNodeStep == ControlTypeOK /\ PointerOK /\ OneNode /\ [Next]_vars => OneNode'
<1> SUFFICES ASSUME ControlTypeOK, PointerOK, OneNode, [Next]_vars PROVE OneNode'
  OBVIOUS
<1> USE DEF OneNode, Alive
<1>1. CASE RunLoop
  <2>1. CASE Boot BY <2>1 DEF Boot, mainVars, dmnVars
  <2>2. CASE ExitLoop BY <2>2 DEF ExitLoop, mainVars, dmnVars
  <2>3. CASE BeginAttempt BY <2>3 DEF BeginAttempt, mainVars, dmnVars
  <2>4. CASE AcquireFails BY <2>4 DEF AcquireFails, mainVars, dmnVars
  <2>5. CASE Launch BY <2>5, ServiceAssumption DEF Launch, ControlTypeOK, dmnVars, Attempts
  <2>6. CASE ExecReady BY <2>6 DEF ExecReady, mainVars, dmnVars
  <2>7. CASE ExecFails BY <2>7 DEF ExecFails, mainVars, dmnVars
  <2>8. CASE DialFails BY <2>8 DEF DialFails, mainVars, dmnVars
  <2>9. CASE Dial BY <2>9 DEF Dial, mainVars, dmnVars
  <2>10. CASE Register BY <2>10 DEF Register, mainVars, dmnVars
  <2>11. CASE WaitForShutdown BY <2>11 DEF WaitForShutdown, DWaitForShutdown, mainVars, dmnVars
  <2>12. CASE Drain BY <2>12 DEF Drain, mainVars, dmnVars
  <2>13. CASE Cleanup BY <2>13 DEF Cleanup, mainVars, dmnVars
  <2>14. CASE FailStartup BY <2>14 DEF FailStartup, mainVars, dmnVars
  <2>15. CASE GateRetry BY <2>15 DEF GateRetry, mainVars, dmnVars
  <2>16. CASE GateStop BY <2>16 DEF GateStop, mainVars, dmnVars
  <2>17. QED
    BY <1>1, <2>1, <2>2, <2>3, <2>4, <2>5, <2>6, <2>7, <2>8, <2>9, <2>10, <2>11, <2>12, <2>13,
      <2>14, <2>15, <2>16 DEF RunLoop
<1>2. CASE Relay BY <1>2, RelayFrame DEF loopVars, mainVars
<1>3. CASE InterceptorExits BY <1>3, InterceptorFrame DEF loopVars, dmnVars, mainVars
<1>4. ASSUME NEW d \in Attempts, Main(d) PROVE OneNode'
  <2>1. UNCHANGED <<pc, cur, abandoned>> BY <1>4, MainFrame DEF loopVars, dmnVars
  <2>2. \A e \in Attempts : Alive(e)' => Alive(e)
    BY <1>4 DEF Main, MainReady, MainReturns, MainFails, ControlTypeOK
  <2>3. QED BY <2>1, <2>2
<1>5. ASSUME NEW u \in Reports, ClientReports(u) PROVE OneNode'
  BY <1>5, ReportFrame DEF loopVars, dmnVars, mainVars
<1>6. ASSUME NEW c \in Callers, Caller(c) PROVE OneNode'
  BY <1>6, CallerFrame DEF loopVars, mainVars
<1>7. CASE UNCHANGED vars BY <1>7 DEF vars, loopVars, dmnVars, mainVars
<1>8. QED BY <1>1, <1>2, <1>3, <1>4, <1>5, <1>6, <1>7 DEF Next

(***************************************************************************)
(* API calls reach only the daemon under supervision.                      *)
(***************************************************************************)
LEMMA AttachedStep ==
  ControlTypeOK /\ AttachedIsSupervised /\ [Next]_vars => AttachedIsSupervised'
<1> SUFFICES ASSUME ControlTypeOK, AttachedIsSupervised, [Next]_vars PROVE AttachedIsSupervised'
  OBVIOUS
<1> USE DEF AttachedIsSupervised
<1>1. CASE RunLoop
  <2>1. CASE Boot BY <2>1 DEF Boot, svcVars
  <2>2. CASE ExitLoop BY <2>2 DEF ExitLoop, svcVars
  <2>3. CASE BeginAttempt BY <2>3 DEF BeginAttempt, svcVars
  <2>4. CASE AcquireFails BY <2>4 DEF AcquireFails, svcVars
  <2>5. CASE Launch BY <2>5 DEF Launch, svcVars
  <2>6. CASE ExecReady BY <2>6 DEF ExecReady, svcVars
  <2>7. CASE ExecFails BY <2>7 DEF ExecFails, svcVars
  <2>8. CASE DialFails BY <2>8 DEF DialFails, svcVars
  <2>9. CASE Dial BY <2>9 DEF Dial, svcVars
  <2>10. CASE Register BY <2>10 DEF Register, svcVars
  <2>11. CASE WaitForShutdown BY <2>11 DEF WaitForShutdown, svcVars
  <2>12. CASE Drain BY <2>12 DEF Drain, svcVars
  <2>13. CASE Cleanup BY <2>13 DEF Cleanup, svcVars
  <2>14. CASE FailStartup BY <2>14 DEF FailStartup, svcVars
  <2>15. CASE GateRetry BY <2>15 DEF GateRetry, svcVars
  <2>16. CASE GateStop BY <2>16 DEF GateStop, svcVars
  <2>17. QED
    BY <1>1, <2>1, <2>2, <2>3, <2>4, <2>5, <2>6, <2>7, <2>8, <2>9, <2>10, <2>11, <2>12, <2>13,
      <2>14, <2>15, <2>16 DEF RunLoop
<1>2. CASE Relay BY <1>2, RelayFrame DEF loopVars
<1>3. CASE InterceptorExits BY <1>3, InterceptorFrame DEF loopVars, svcVars
<1>4. ASSUME NEW d \in Attempts, Main(d) PROVE AttachedIsSupervised'
  BY <1>4, MainFrame DEF loopVars, svcVars
<1>5. ASSUME NEW u \in Reports, ClientReports(u) PROVE AttachedIsSupervised'
  BY <1>5, ReportFrame DEF loopVars, svcVars
<1>6. ASSUME NEW c \in Callers, Caller(c) PROVE AttachedIsSupervised'
  <2>1. UNCHANGED <<pc, cur>> BY <1>6, CallerFrame DEF loopVars
  <2>2. attached' \in {attached, NoDaemon} BY <1>6, CallerTakes
  <2>3. QED BY <2>1, <2>2
<1>7. CASE UNCHANGED vars BY <1>7 DEF vars, loopVars, svcVars
<1>8. QED BY <1>1, <1>2, <1>3, <1>4, <1>5, <1>6, <1>7 DEF Next

(***************************************************************************)
(* Once Stop has returned the run loop can only leave.                     *)
(***************************************************************************)
StopInv ==
  \A c \in Callers :
    /\ cpc[c] \in {"join", "stopped"} => ctxDone
    /\ cpc[c] = "stopped" => pc \in {"boot", "top", "done"}

LEMMA StopStep == ControlTypeOK /\ StopInv /\ [Next]_vars => StopInv'
<1> SUFFICES ASSUME ControlTypeOK, StopInv, [Next]_vars PROVE StopInv'
  OBVIOUS
<1> USE DEF StopInv
<1>1. CASE RunLoop
  <2>1. CASE Boot BY <2>1 DEF Boot, svcVars, callVars
  <2>2. CASE ExitLoop BY <2>2 DEF ExitLoop, svcVars, callVars
  <2>3. CASE BeginAttempt BY <2>3 DEF BeginAttempt, svcVars, callVars
  <2>4. CASE AcquireFails BY <2>4 DEF AcquireFails, svcVars, callVars
  <2>5. CASE Launch BY <2>5 DEF Launch, svcVars, callVars
  <2>6. CASE ExecReady BY <2>6 DEF ExecReady, svcVars, callVars
  <2>7. CASE ExecFails BY <2>7 DEF ExecFails, svcVars, callVars
  <2>8. CASE DialFails BY <2>8 DEF DialFails, svcVars, callVars
  <2>9. CASE Dial BY <2>9 DEF Dial, svcVars, callVars
  <2>10. CASE Register BY <2>10 DEF Register, svcVars, callVars
  <2>11. CASE WaitForShutdown BY <2>11 DEF WaitForShutdown, svcVars, callVars
  <2>12. CASE Drain BY <2>12 DEF Drain, svcVars, callVars
  <2>13. CASE Cleanup BY <2>13 DEF Cleanup, svcVars, callVars
  <2>14. CASE FailStartup BY <2>14 DEF FailStartup, svcVars, callVars
  <2>15. CASE GateRetry BY <2>15 DEF GateRetry, svcVars, callVars
  <2>16. CASE GateStop BY <2>16 DEF GateStop, svcVars, callVars
  <2>17. QED
    BY <1>1, <2>1, <2>2, <2>3, <2>4, <2>5, <2>6, <2>7, <2>8, <2>9, <2>10, <2>11, <2>12, <2>13,
      <2>14, <2>15, <2>16 DEF RunLoop
<1>2. CASE Relay BY <1>2, RelayFrame DEF loopVars, callVars
<1>3. CASE InterceptorExits BY <1>3, InterceptorFrame DEF loopVars, svcVars, callVars
<1>4. ASSUME NEW d \in Attempts, Main(d) PROVE StopInv'
  BY <1>4, MainFrame DEF loopVars, svcVars, callVars
<1>5. ASSUME NEW u \in Reports, ClientReports(u) PROVE StopInv'
  BY <1>5, ReportFrame DEF loopVars, svcVars, callVars
<1>6. ASSUME NEW c \in Callers, Caller(c) PROVE StopInv'
  <2> USE DEF ControlTypeOK, Goto, svcVars, callVars
  <2>0. UNCHANGED pc BY <1>6, CallerFrame DEF loopVars
  <2>1. ASSUME NEW o \in Ops, Call(c, o) PROVE StopInv' BY <2>1, <2>0 DEF Call
  <2>2. CASE Borrow(c) BY <2>2, <2>0 DEF Borrow
  <2>3. CASE SetConfig(c) BY <2>3, <2>0 DEF SetConfig
  <2>4. CASE NotifyStarting(c) BY <2>4, <2>0 DEF NotifyStarting
  <2>5. CASE Take(c) BY <2>5, <2>0 DEF Take
  <2>6. CASE StopTaken(c) BY <2>6, <2>0 DEF StopTaken
  <2>7. CASE SignalRetry(c) BY <2>7, <2>0 DEF SignalRetry
  <2>8. CASE GiveBack(c) BY <2>8, <2>0 DEF GiveBack
  <2>9. CASE Claim(c) BY <2>9, <2>0 DEF Claim, AfterStopDaemon
  <2>10. CASE HaltClaimed(c) BY <2>10, <2>0 DEF HaltClaimed
  <2>11. CASE AwaitClaimed(c) BY <2>11, <2>0 DEF AwaitClaimed, AfterStopDaemon
  <2>12. CASE PurgeEnds(c) BY <2>12, <2>0 DEF PurgeEnds
  <2>13. CASE Cancel(c) BY <2>13, <2>0 DEF Cancel
  <2>14. CASE Join(c) BY <2>14, <2>0 DEF Join
  <2>15. QED
    BY <1>6, <2>1, <2>2, <2>3, <2>4, <2>5, <2>6, <2>7, <2>8, <2>9, <2>10, <2>11, <2>12, <2>13,
      <2>14 DEF Caller
<1>7. CASE UNCHANGED vars BY <1>7 DEF vars, loopVars, svcVars, callVars
<1>8. QED BY <1>1, <1>2, <1>3, <1>4, <1>5, <1>6, <1>7 DEF Next

(***************************************************************************)
(* The theorems.                                                           *)
(***************************************************************************)

\* At most one flnd.Main is running, and only while the run loop attends to it
\* (superviseDaemon, waitForShutdown), failed starts that outlived cleanup excepted.
THEOREM OneNodeHolds == Spec => []OneNode
<1>1. Init => ControlTypeOK /\ PointerOK /\ OneNode
  BY ServiceAssumption
  DEF Init, ControlTypeOK, PointerOK, OneNode, Alive, Attempts, NoDaemon, Events, AllReports,
    AllOps
<1>2. QED BY <1>1, ControlTypeStep, PointerStep, OneNodeStep, PTL DEF Spec

\* s.daemon, as the API calls see it, is the daemon under supervision or nil.
THEOREM AttachedHolds == Spec => []AttachedIsSupervised
<1>1. Init => ControlTypeOK /\ PointerOK /\ AttachedIsSupervised
  BY ServiceAssumption
  DEF Init, ControlTypeOK, PointerOK, AttachedIsSupervised, Attempts, NoDaemon, Events,
    AllReports, AllOps
<1>2. QED BY <1>1, ControlTypeStep, PointerStep, AttachedStep, PTL DEF Spec

\* Once Stop has returned nothing runs, nothing is reachable, and nothing starts.
THEOREM StopFinal == Spec => []StopIsFinal
<1>1. Init => ControlTypeOK /\ PointerOK /\ StopInv
  BY ServiceAssumption
  DEF Init, ControlTypeOK, PointerOK, StopInv, Attempts, NoDaemon, Events, AllReports, AllOps
<1>2. OneNode /\ AttachedIsSupervised /\ StopInv => StopIsFinal
  BY DEF OneNode, AttachedIsSupervised, StopInv, StopIsFinal
<1>3. QED
  BY <1>1, <1>2, ControlTypeStep, PointerStep, StopStep, OneNodeHolds, AttachedHolds, PTL
    DEF Spec

-----------------------------------------------------------------------------
(***************************************************************************)
(* Who holds the process-wide signal interceptor.                          *)
(***************************************************************************)

(***************************************************************************)
(* No goroutine knows a daemon that has not been created.                  *)
(***************************************************************************)
Created ==
  /\ stopping \cup closed \cup abandoned \subseteq 1 .. cur
  /\ attached \in 0 .. cur
  /\ \A c \in Callers : hand[c] \in 0 .. cur

LEMMA CreatedStep == ControlTypeOK /\ PointerOK /\ Created /\ [Next]_vars => Created'
<1> SUFFICES ASSUME ControlTypeOK, PointerOK, Created, [Next]_vars PROVE Created'
  OBVIOUS
<1> USE DEF Created, NoDaemon
<1>0. cur \in Nat BY DEF ControlTypeOK
<1>1. CASE RunLoop
  <2>1. CASE Boot BY <2>1, <1>0 DEF Boot, svcVars, dmnVars, callVars
  <2>2. CASE ExitLoop BY <2>2, <1>0 DEF ExitLoop, svcVars, dmnVars, callVars, DStop, PointerOK
  <2>3. CASE BeginAttempt BY <2>3, <1>0 DEF BeginAttempt, svcVars, dmnVars, callVars
  <2>4. CASE AcquireFails BY <2>4, <1>0 DEF AcquireFails, svcVars, dmnVars, callVars
  <2>5. CASE Launch BY <2>5, <1>0 DEF Launch, svcVars, dmnVars, callVars
  <2>6. CASE ExecReady BY <2>6, <1>0 DEF ExecReady, svcVars, dmnVars, callVars
  <2>7. CASE ExecFails BY <2>7, <1>0 DEF ExecFails, svcVars, dmnVars, callVars, DStop, PointerOK
  <2>8. CASE DialFails BY <2>8, <1>0 DEF DialFails, svcVars, dmnVars, callVars, DStop, PointerOK
  <2>9. CASE Dial BY <2>9, <1>0 DEF Dial, svcVars, dmnVars, callVars
  <2>10. CASE Register BY <2>10, <1>0 DEF Register, svcVars, dmnVars, callVars
  <2>11. CASE WaitForShutdown
    BY <2>11, <1>0 DEF WaitForShutdown, svcVars, dmnVars, callVars, DWaitForShutdown, PointerOK
  <2>12. CASE Drain BY <2>12, <1>0 DEF Drain, svcVars, dmnVars, callVars
  <2>13. CASE Cleanup BY <2>13, <1>0 DEF Cleanup, svcVars, dmnVars, callVars, PointerOK
  <2>14. CASE FailStartup BY <2>14, <1>0 DEF FailStartup, svcVars, dmnVars, callVars
  <2>15. CASE GateRetry BY <2>15, <1>0 DEF GateRetry, svcVars, dmnVars, callVars
  <2>16. CASE GateStop BY <2>16, <1>0 DEF GateStop, svcVars, dmnVars, callVars
  <2>17. QED
    BY <1>1, <2>1, <2>2, <2>3, <2>4, <2>5, <2>6, <2>7, <2>8, <2>9, <2>10, <2>11, <2>12, <2>13,
      <2>14, <2>15, <2>16 DEF RunLoop
<1>2. CASE Relay
  <2>0. UNCHANGED <<cur, attached, closed, abandoned, hand>>
    BY <1>2, RelayFrame DEF loopVars, callVars
  <2>1. CASE RelayReceive BY <2>0, <2>1 DEF RelayReceive, dmnVars
  <2>2. CASE RelayPublish BY <2>0, <2>2 DEF RelayPublish, dmnVars
  <2>3. CASE RelayHalt
    BY <1>0, <2>0, <2>3 DEF RelayHalt, DStop, PointerOK, HasClient
  <2>4. CASE RelayExit
    BY <1>0, <2>0, <2>4 DEF RelayExit, DStop, PointerOK, HasClient
  <2>5. QED BY <1>2, <2>1, <2>2, <2>3, <2>4 DEF Relay
<1>3. CASE InterceptorExits
  BY <1>3, InterceptorFrame DEF loopVars, svcVars, dmnVars, callVars
<1>4. ASSUME NEW d \in Attempts, Main(d) PROVE Created'
  BY <1>4, MainFrame DEF loopVars, svcVars, dmnVars, callVars
<1>5. ASSUME NEW u \in Reports, ClientReports(u) PROVE Created'
  BY <1>5, ReportFrame DEF loopVars, svcVars, dmnVars, callVars
<1>6. ASSUME NEW c \in Callers, Caller(c) PROVE Created'
  <2> USE DEF ControlTypeOK, svcVars, dmnVars, callVars
  <2>0. UNCHANGED <<cur, abandoned>> BY <1>6, CallerFrame DEF loopVars
  <2>1. ASSUME NEW o \in Ops, Call(c, o) PROVE Created' BY <2>1, <1>0, <2>0 DEF Call
  <2>2. CASE Borrow(c) BY <2>2, <1>0, <2>0 DEF Borrow
  <2>3. CASE SetConfig(c) BY <2>3, <1>0, <2>0 DEF SetConfig
  <2>4. CASE NotifyStarting(c) BY <2>4, <1>0, <2>0 DEF NotifyStarting
  <2>5. CASE Take(c) BY <2>5, <1>0, <2>0 DEF Take
  <2>6. CASE StopTaken(c) BY <2>6, <1>0, <2>0 DEF StopTaken, DStop, PointerOK
  <2>7. CASE SignalRetry(c) BY <2>7, <1>0, <2>0 DEF SignalRetry
  <2>8. CASE GiveBack(c) BY <2>8, <1>0, <2>0 DEF GiveBack
  <2>9. CASE Claim(c) BY <2>9, <1>0, <2>0 DEF Claim
  <2>10. CASE HaltClaimed(c) BY <2>10, <1>0, <2>0 DEF HaltClaimed, DStop, PointerOK
  <2>11. CASE AwaitClaimed(c) BY <2>11, <1>0, <2>0 DEF AwaitClaimed, DWaitForShutdown, PointerOK
  <2>12. CASE PurgeEnds(c) BY <2>12, <1>0, <2>0 DEF PurgeEnds
  <2>13. CASE Cancel(c) BY <2>13, <1>0, <2>0 DEF Cancel
  <2>14. CASE Join(c) BY <2>14, <1>0, <2>0 DEF Join
  <2>15. QED
    BY <1>6, <2>1, <2>2, <2>3, <2>4, <2>5, <2>6, <2>7, <2>8, <2>9, <2>10, <2>11, <2>12, <2>13,
      <2>14 DEF Caller
<1>7. CASE UNCHANGED vars BY <1>7 DEF vars, loopVars, svcVars, dmnVars, callVars
<1>8. QED BY <1>1, <1>2, <1>3, <1>4, <1>5, <1>6, <1>7 DEF Next

(***************************************************************************)
(* A daemon that was stopped, or found closed, has given its interceptor   *)
(* back.                                                                   *)
(***************************************************************************)
GivenBack ==
  /\ \A d \in stopping : holder = d => release
  /\ ~ctxDone => \A d \in closed : holder = d => release

HolderInv == GivenBack /\ InterceptorReturned

LEMMA HolderStep ==
  ControlTypeOK /\ PointerOK /\ Created /\ HolderInv /\ [Next]_vars => HolderInv'
<1> SUFFICES ASSUME ControlTypeOK, PointerOK, Created, HolderInv, [Next]_vars PROVE HolderInv'
  OBVIOUS
<1> USE DEF HolderInv, GivenBack, InterceptorReturned
<1>0. cur \in Nat /\ (holder \in Attempts => holder # NoDaemon)
  BY DEF ControlTypeOK, Attempts, NoDaemon
<1>1. CASE RunLoop
  <2>1. CASE Boot BY <2>1 DEF Boot, svcVars, dmnVars, sigVars
  <2>2. CASE ExitLoop BY <2>2 DEF ExitLoop, svcVars, dmnVars, sigVars, DStop, RequestShutdown
  <2>3. CASE BeginAttempt BY <2>3 DEF BeginAttempt, svcVars, dmnVars, sigVars
  <2>4. CASE AcquireFails BY <2>4 DEF AcquireFails, svcVars, dmnVars, sigVars
  <2>5. CASE Launch BY <2>5, <1>0 DEF Launch, svcVars, dmnVars, Created
  <2>6. CASE ExecReady BY <2>6 DEF ExecReady, svcVars, dmnVars, sigVars
  <2>7. CASE ExecFails BY <2>7 DEF ExecFails, svcVars, dmnVars, sigVars, DStop, RequestShutdown
  <2>8. CASE DialFails BY <2>8 DEF DialFails, svcVars, dmnVars, sigVars, DStop, RequestShutdown
  <2>9. CASE Dial BY <2>9 DEF Dial, svcVars, dmnVars, sigVars
  <2>10. CASE Register BY <2>10 DEF Register, svcVars, dmnVars, sigVars
  <2>11. CASE WaitForShutdown
    <3>1. closed' = closed \cup {cur} /\ UNCHANGED <<cur, stopping, holder, ctxDone>>
      BY <2>11 DEF WaitForShutdown, DWaitForShutdown, svcVars
    <3>2. pc' = "drain" BY <2>11 DEF WaitForShutdown
    <3>3. CASE RequestShutdown(cur) BY <3>1, <3>2, <3>3 DEF RequestShutdown
    <3>4. CASE CtxDone(cur) /\ UNCHANGED release BY <3>1, <3>2, <3>4 DEF CtxDone
    <3>5. QED BY <2>11, <3>3, <3>4 DEF WaitForShutdown, DWaitForShutdown
  <2>12. CASE Drain BY <2>12 DEF Drain, svcVars, dmnVars, sigVars
  <2>13. CASE Cleanup BY <2>13 DEF Cleanup, svcVars, dmnVars, sigVars
  <2>14. CASE FailStartup BY <2>14 DEF FailStartup, svcVars, dmnVars, sigVars
  <2>15. CASE GateRetry BY <2>15 DEF GateRetry, svcVars, dmnVars, sigVars
  <2>16. CASE GateStop BY <2>16 DEF GateStop, svcVars, dmnVars, sigVars
  <2>17. QED
    BY <1>1, <2>1, <2>2, <2>3, <2>4, <2>5, <2>6, <2>7, <2>8, <2>9, <2>10, <2>11, <2>12, <2>13,
      <2>14, <2>15, <2>16 DEF RunLoop
<1>2. CASE Relay
  <2>0. UNCHANGED <<pc, cur, ctxDone, closed, holder>> BY <1>2, RelayFrame DEF loopVars
  <2>1. CASE RelayReceive BY <2>0, <2>1 DEF RelayReceive, dmnVars, sigVars
  <2>2. CASE RelayPublish BY <2>0, <2>2 DEF RelayPublish, dmnVars, sigVars
  <2>3. CASE RelayHalt BY <2>0, <2>3 DEF RelayHalt, DStop, RequestShutdown
  <2>4. CASE RelayExit BY <2>0, <2>4 DEF RelayExit, DStop, RequestShutdown
  <2>5. QED BY <1>2, <2>1, <2>2, <2>3, <2>4 DEF Relay
<1>3. CASE InterceptorExits
  <2>1. holder' = NoDaemon /\ UNCHANGED <<stopping, closed, ctxDone>>
    BY <1>3 DEF InterceptorExits, NoDaemon, svcVars, dmnVars
  <2>2. QED BY <2>1 DEF NoDaemon, ControlTypeOK, Attempts
<1>4. ASSUME NEW d \in Attempts, Main(d) PROVE HolderInv'
  BY <1>4, MainFrame DEF loopVars, svcVars, dmnVars, sigVars
<1>5. ASSUME NEW u \in Reports, ClientReports(u) PROVE HolderInv'
  BY <1>5, ReportFrame DEF loopVars, svcVars, dmnVars, sigVars
<1>6. ASSUME NEW c \in Callers, Caller(c) PROVE HolderInv'
  <2> USE DEF svcVars, dmnVars, sigVars
  <2>0. UNCHANGED <<pc, cur>> BY <1>6, CallerFrame DEF loopVars
  <2>1. ASSUME NEW o \in Ops, Call(c, o) PROVE HolderInv' BY <2>1, <2>0 DEF Call
  <2>2. CASE Borrow(c)
    <3>1. holder' \in {holder, c} BY <2>2 DEF Borrow
    <3>2. c \notin Attempts BY ServiceAssumption DEF Attempts
    <3>3. stopping \cup closed \subseteq Attempts BY DEF ControlTypeOK
    <3>4. QED BY <2>2, <2>0, <3>1, <3>2, <3>3 DEF Borrow
  <2>3. CASE SetConfig(c) BY <2>3, <2>0 DEF SetConfig
  <2>4. CASE NotifyStarting(c) BY <2>4, <2>0 DEF NotifyStarting
  <2>5. CASE Take(c) BY <2>5, <2>0 DEF Take
  <2>6. CASE StopTaken(c) BY <2>6, <2>0 DEF StopTaken, DStop, RequestShutdown
  <2>7. CASE SignalRetry(c) BY <2>7, <2>0 DEF SignalRetry
  <2>8. CASE GiveBack(c) BY <2>8, <2>0 DEF GiveBack
  <2>9. CASE Claim(c) BY <2>9, <2>0 DEF Claim
  <2>10. CASE HaltClaimed(c) BY <2>10, <2>0 DEF HaltClaimed, DStop, RequestShutdown
  <2>11. CASE AwaitClaimed(c)
    <3>1. closed' = closed \cup {hand[c]} /\ UNCHANGED <<stopping, holder, ctxDone>>
      BY <2>11 DEF AwaitClaimed, DWaitForShutdown
    <3>2. CASE RequestShutdown(hand[c]) BY <2>0, <3>1, <3>2 DEF RequestShutdown
    <3>3. CASE CtxDone(hand[c]) /\ UNCHANGED release BY <2>0, <3>1, <3>3 DEF CtxDone
    <3>4. QED BY <2>11, <3>2, <3>3 DEF AwaitClaimed, DWaitForShutdown
  <2>12. CASE PurgeEnds(c) BY <2>12, <2>0 DEF PurgeEnds
  <2>13. CASE Cancel(c) BY <2>13, <2>0 DEF Cancel
  <2>14. CASE Join(c) BY <2>14, <2>0 DEF Join
  <2>15. QED
    BY <1>6, <2>1, <2>2, <2>3, <2>4, <2>5, <2>6, <2>7, <2>8, <2>9, <2>10, <2>11, <2>12, <2>13,
      <2>14 DEF Caller
<1>7. CASE UNCHANGED vars BY <1>7 DEF vars, loopVars, svcVars, dmnVars, sigVars
<1>8. QED BY <1>1, <1>2, <1>3, <1>4, <1>5, <1>6, <1>7 DEF Next

\* The run loop cannot find the interceptor held by a daemon nobody attends to.
THEOREM InterceptorComesBack == Spec => []InterceptorReturned
<1>1. Init => ControlTypeOK /\ PointerOK /\ Created /\ HolderInv
  BY ServiceAssumption
  DEF Init, ControlTypeOK, PointerOK, Created, HolderInv, GivenBack, InterceptorReturned,
    Attempts,
    NoDaemon, Events, AllReports, AllOps
<1>2. HolderInv => InterceptorReturned BY DEF HolderInv
<1>3. QED
  BY <1>1, <1>2, ControlTypeStep, PointerStep, CreatedStep, HolderStep, PTL DEF Spec
=============================================================================
