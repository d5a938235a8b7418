------------------------------- MODULE Events -------------------------------
(***************************************************************************)
(* How state updates reach the windows: App.nodeService, which points at   *)
(* one daemon.Service after another, the subscriptions of a Service (subs, *)
(* lastEvent, under subMu) and the Server-Sent-Events handler, one         *)
(* goroutine per connected client, that follows from service to service.   *)
(*                                                                         *)
(* A service is a number; 0 is the nil pointer.  Its updates are numbered  *)
(* as they are published, so an update is its number.  What the service    *)
(* publishes and when is the matter of module Service.                     *)
(***************************************************************************)
EXTENDS Integers, Sequences

CONSTANTS
  Clients,      \* SSE connections
  Stuck,        \* the clients whose connection may stop taking data
  MaxServices,  \* bound: services created by RunNode
  Publishers,   \* bound: the services that publish updates after their first state
  MaxUpdates,   \* bound: updates one of them publishes
  Cap           \* capacity of a subscriber channel (5 in the code)

ASSUME EventsAssumption ==
  /\ Stuck \subseteq Clients
  /\ MaxServices \in Nat
  /\ Publishers \subseteq 1 .. MaxServices
  /\ MaxUpdates \in Nat
  /\ Cap \in Nat \ {0}

VARIABLES
  nodeService,  \* App.nodeService
  made,         \* number of services created
  stage,        \* how far the Stop of each service is
  lastEvent,    \* Service.lastEvent (0: the StatusInit of New)
  subs,         \* Service.subs: the clients that own the channels in it
  shut,         \* the clients whose channel unsubscribeAll has closed
  sse,          \* where each client's handler is
  svc,          \* the service the handler fetched
  queue,        \* the channel the handler subscribed with
  shown,        \* the last update emitted from that channel
  lossy         \* history: an update of that channel was dropped

appVars == <<nodeService, made>>
chanVars == <<queue, lossy>>
handlerVars == <<sse, svc, shown>>
vars == <<appVars, stage, lastEvent, subs, shut, chanVars, handlerVars>>

Services == 1 .. MaxServices
NoService == 0
Nothing == -1               \* nothing has been emitted from this channel yet
Final == MaxUpdates + 1     \* the StatusDown that unsubscribeAll sends

\* A service is running, claimed by StopNode, in unsubscribeAll (holding subMu),
\* waiting for its run loop, and stopped.
Stages == {"none", "running", "claimed", "closing", "joining", "stopped"}

TypeOK ==
  /\ nodeService \in 0 .. MaxServices
  /\ made \in 0 .. MaxServices
  /\ stage \in [Services -> Stages]
  /\ lastEvent \in [Services -> 0 .. MaxUpdates]
  /\ subs \in [Services -> SUBSET Clients]
  /\ shut \in [Services -> SUBSET Clients]
  /\ sse \in [Clients -> {"away", "look", "have", "stream", "leaving"}]
  /\ svc \in [Clients -> 0 .. MaxServices]
  /\ queue \in [Clients -> Seq(0 .. Final)]
  /\ shown \in [Clients -> Nothing .. Final]
  /\ lossy \in [Clients -> BOOLEAN]
  /\ \A c \in Clients : sse[c] \in {"have", "stream", "leaving"} => svc[c] # NoService

Init ==
  /\ nodeService = NoService /\ made = 0
  /\ stage = [s \in Services |-> "none"]
  /\ lastEvent = [s \in Services |-> 0]
  /\ subs = [s \in Services |-> {}]
  /\ shut = [s \in Services |-> {}]
  /\ sse = [c \in Clients |-> "away"]
  /\ svc = [c \in Clients |-> NoService]
  /\ queue = [c \in Clients |-> <<>>]
  /\ shown = [c \in Clients |-> Nothing]
  /\ lossy = [c \in Clients |-> FALSE]

SubMuFree(s) == stage[s] # "closing"

-----------------------------------------------------------------------------
(* App.RunNode and App.StopNode *)

\* Mutant: a second RunNode replaces the attached service.
RunNode_NotIdempotent ==
  /\ made < MaxServices
  /\ made' = made + 1
  /\ nodeService' = made + 1
  /\ stage' = [stage EXCEPT ![made + 1] = "running"]
  /\ UNCHANGED <<lastEvent, subs, shut, chanVars, handlerVars>>

\* Does nothing when a service is attached.
RunNode ==
  /\ nodeService = NoService /\ made < MaxServices
  /\ made' = made + 1
  /\ nodeService' = made + 1
  /\ stage' = [stage EXCEPT ![made + 1] = "running"]
  /\ UNCHANGED <<lastEvent, subs, shut, chanVars, handlerVars>>

\* The pointer is cleared under nodeServiceMu; Service.Stop follows outside it.
StopNode ==
  /\ nodeService # NoService
  /\ stage' = [stage EXCEPT ![nodeService] = "claimed"]
  /\ nodeService' = NoService
  /\ UNCHANGED <<made, lastEvent, subs, shut, chanVars, handlerVars>>

-----------------------------------------------------------------------------
(* Service.Stop: after stopDaemon and s.cancel, unsubscribeAll and wg.Wait *)

BeginUnsubscribeAll(s) ==
  /\ stage[s] = "claimed"
  /\ stage' = [stage EXCEPT ![s] = "closing"]
  /\ UNCHANGED <<appVars, lastEvent, subs, shut, chanVars, handlerVars>>

\* Mutants: waiting for a full channel; sending the final update without closing.
CloseOne_NoTimeout(s, c) ==
  /\ stage[s] = "closing" /\ c \in subs[s] \ shut[s]
  /\ Len(queue[c]) < Cap
  /\ queue' = [queue EXCEPT ![c] = Append(@, Final)]
  /\ shut' = [shut EXCEPT ![s] = @ \cup {c}]
  /\ UNCHANGED <<appVars, stage, lastEvent, subs, lossy, handlerVars>>
CloseOne_NoClose(s, c) ==
  /\ stage[s] = "closing" /\ c \in subs[s]
  /\ queue' = [queue EXCEPT ![c] = IF Len(@) < Cap THEN Append(@, Final) ELSE @]
  /\ subs' = [subs EXCEPT ![s] = @ \ {c}]
  /\ UNCHANGED <<appVars, stage, lastEvent, shut, lossy, handlerVars>>

\* One channel of unsubscribeAll's loop: the final StatusDown is sent, or given up
\* after 5 s on a full channel, and the channel is closed.
CloseOne(s, c) ==
  /\ stage[s] = "closing" /\ c \in subs[s] \ shut[s]
  /\ IF Len(queue[c]) < Cap
       THEN queue' = [queue EXCEPT ![c] = Append(@, Final)] /\ UNCHANGED lossy
       ELSE lossy' = [lossy EXCEPT ![c] = TRUE] /\ UNCHANGED queue
  /\ shut' = [shut EXCEPT ![s] = @ \cup {c}]
  /\ UNCHANGED <<appVars, stage, lastEvent, subs, handlerVars>>

\* Mutant: s.subs keeps the closed channels.
EndUnsubscribeAll_KeepsSubs(s) ==
  /\ stage[s] = "closing" /\ subs[s] \subseteq shut[s]
  /\ stage' = [stage EXCEPT ![s] = "joining"]
  /\ UNCHANGED <<appVars, lastEvent, subs, shut, chanVars, handlerVars>>

EndUnsubscribeAll(s) ==
  /\ stage[s] = "closing" /\ subs[s] \subseteq shut[s]
  /\ subs' = [subs EXCEPT ![s] = {}]
  /\ stage' = [stage EXCEPT ![s] = "joining"]
  /\ UNCHANGED <<appVars, lastEvent, shut, chanVars, handlerVars>>

\* The run loop has ended (StopReturns of module Service).
Join(s) ==
  /\ stage[s] = "joining"
  /\ stage' = [stage EXCEPT ![s] = "stopped"]
  /\ UNCHANGED <<appVars, lastEvent, subs, shut, chanVars, handlerVars>>

Stopping(s) ==
  \/ BeginUnsubscribeAll(s) \/ EndUnsubscribeAll(s) \/ Join(s)
  \/ \E c \in Clients : CloseOne(s, c)

-----------------------------------------------------------------------------
(* notifySubscribers: by the run loop, the relay or RestartWithConfig, whose caller may
   have fetched the service before StopNode and publish on one that has stopped *)

Publishes(s) ==
  /\ SubMuFree(s) /\ stage[s] # "none"
  /\ s \in Publishers /\ lastEvent[s] < MaxUpdates
  /\ lastEvent' = [lastEvent EXCEPT ![s] = @ + 1]
  /\ UNCHANGED <<appVars, stage, subs, shut, handlerVars>>

\* Mutant: on a full channel the newest update waiting in it is replaced.
Notify_Replaces(s) ==
  /\ Publishes(s)
  /\ queue' = [c \in Clients |->
                 IF c \notin subs[s] THEN queue[c]
                 ELSE IF Len(queue[c]) < Cap THEN Append(queue[c], lastEvent'[s])
                 ELSE [queue[c] EXCEPT ![Cap] = lastEvent'[s]]]
  /\ UNCHANGED lossy

\* Every channel with room gets the update; a full one loses it.
Notify(s) ==
  /\ Publishes(s)
  /\ queue' = [c \in Clients |->
                 IF c \in subs[s] /\ Len(queue[c]) < Cap
                   THEN Append(queue[c], lastEvent'[s]) ELSE queue[c]]
  /\ lossy' = [c \in Clients |->
                 lossy[c] \/ (c \in subs[s] /\ Len(queue[c]) >= Cap)]

-----------------------------------------------------------------------------
(* handleEvents *)

Goto(c, label) == sse' = [sse EXCEPT ![c] = label]

Connect(c) ==
  /\ sse[c] = "away" /\ Goto(c, "look")
  /\ UNCHANGED <<appVars, stage, lastEvent, subs, shut, chanVars, svc, shown>>

\* The client is gone: seen at once while the handler waits for a service, and by
\* the select of the stream, which then unsubscribes.
Disconnect(c) ==
  /\ \/ sse[c] = "look" /\ Goto(c, "away")
     \/ sse[c] = "stream" /\ Goto(c, "leaving")
  /\ UNCHANGED <<appVars, stage, lastEvent, subs, shut, chanVars, svc, shown>>

\* Mutant: the service is not tested for nil.
Look_NoNilCheck(c) ==
  /\ sse[c] = "look"
  /\ svc' = [svc EXCEPT ![c] = nodeService]
  /\ Goto(c, "have")
  /\ UNCHANGED <<appVars, stage, lastEvent, subs, shut, chanVars, shown>>

Look(c) ==
  /\ sse[c] = "look" /\ nodeService # NoService
  /\ svc' = [svc EXCEPT ![c] = nodeService]
  /\ Goto(c, "have")
  /\ UNCHANGED <<appVars, stage, lastEvent, subs, shut, chanVars, shown>>

\* Service.Subscribe: a new channel, holding the last event, whatever the stage.
Subscribe(c) ==
  /\ sse[c] = "have" /\ SubMuFree(svc[c])
  /\ subs' = [subs EXCEPT ![svc[c]] = @ \cup {c}]
  /\ shut' = [shut EXCEPT ![svc[c]] = @ \ {c}]
  /\ queue' = [queue EXCEPT ![c] = <<lastEvent[svc[c]]>>]
  /\ lossy' = [lossy EXCEPT ![c] = FALSE]
  /\ shown' = [shown EXCEPT ![c] = Nothing]
  /\ Goto(c, "stream")
  /\ UNCHANGED <<appVars, stage, lastEvent, svc>>

\* An update is received and emitted; a failed write ends the stream.
Receive(c) ==
  /\ sse[c] = "stream" /\ queue[c] # <<>>
  /\ queue' = [queue EXCEPT ![c] = Tail(@)]
  /\ shown' = [shown EXCEPT ![c] = Head(queue[c])]
  /\ UNCHANGED <<appVars, stage, lastEvent, subs, shut, svc, lossy>>
  /\ UNCHANGED sse \/ Goto(c, "leaving")

\* The handler's service and channel go out of its scope.
Forget(c) ==
  /\ svc' = [svc EXCEPT ![c] = NoService]
  /\ queue' = [queue EXCEPT ![c] = <<>>]
  /\ shown' = [shown EXCEPT ![c] = Nothing]
  /\ lossy' = [lossy EXCEPT ![c] = FALSE]

\* The channel is closed and empty: wait for the next service.
StreamEnds(c) ==
  /\ sse[c] = "stream" /\ queue[c] = <<>> /\ c \in shut[svc[c]]
  /\ Goto(c, "look") /\ Forget(c)
  /\ UNCHANGED <<appVars, stage, lastEvent, subs, shut>>

\* Mutant: the handler returns without unsubscribing.
Unsubscribe_Forgotten(c) ==
  /\ sse[c] = "leaving"
  /\ Goto(c, "away") /\ Forget(c)
  /\ UNCHANGED <<appVars, stage, lastEvent, subs, shut>>

\* Service.Unsubscribe; the channel may have been removed already.
Unsubscribe(c) ==
  /\ sse[c] = "leaving" /\ SubMuFree(svc[c])
  /\ subs' = [subs EXCEPT ![svc[c]] = @ \ {c}]
  /\ Goto(c, "away") /\ Forget(c)
  /\ UNCHANGED <<appVars, stage, lastEvent, shut>>

Handler(c) ==
  \/ Look(c) \/ Subscribe(c) \/ Receive(c) \/ StreamEnds(c) \/ Unsubscribe(c)

-----------------------------------------------------------------------------
Next ==
  \/ RunNode \/ StopNode
  \/ \E s \in Services : Stopping(s) \/ Notify(s)
  \/ \E c \in Clients : Connect(c) \/ Disconnect(c) \/ Handler(c)

Spec == Init /\ [][Next]_vars

(* Fairness.  Stop's goroutine runs, its 5 s timers fire and its run loop ends     *)
(* (module Service, StopReturns).  A handler whose client takes data runs; a stuck *)
(* client, the users and the publishers owe nothing.                               *)
LiveSpec ==
  /\ Spec
  /\ \A s \in Services : WF_vars(Stopping(s))
  /\ \A c \in Clients \ Stuck : WF_vars(Handler(c))

-----------------------------------------------------------------------------
(* Safety *)

\* No service is forgotten while its daemon may be running: it is attached, where
\* StopNode finds it, or the StopNode that took it is stopping it (RunNode: no
\* overlapping services that race on signal.Intercept).
NoOrphan ==
  \A s \in Services : stage[s] = "running" => s = nodeService

\* Whenever subMu is free the channels in s.subs are open: neither the next
\* notification nor a second unsubscribeAll can hit a closed channel, which would
\* panic and end the program.
SubsOpen ==
  \A s \in Services : SubMuFree(s) => subs[s] \cap shut[s] = {}

\* Every channel in s.subs is read by a handler or about to be removed: none is left
\* behind to fill up and to cost the stop of the service 5 s.
SubsAttended ==
  \A s \in Services : \A c \in subs[s] \ shut[s] :
    svc[c] = s /\ sse[c] \in {"stream", "leaving"}

\* What a handler has emitted and still has to emit from its channel.
Told(c) == IF shown[c] = Nothing THEN queue[c] ELSE <<shown[c]>> \o queue[c]

\* The updates in t are in order, none twice, and none is later than n.
InOrder(t, n) ==
  /\ t # <<>> /\ t[Len(t)] <= n
  /\ \A i \in 1 .. Len(t) - 1 : t[i] < t[i + 1]

\* They follow each other with no gap and end with n.
UpTo(t, n) ==
  /\ t # <<>> /\ t[Len(t)] = n
  /\ \A i \in 1 .. Len(t) - 1 : t[i + 1] = t[i] + 1

\* A client is told what its service published since it subscribed, from the state the
\* service was in on, in order: with no gap and up to the last update, unless the channel
\* was full when one came (lossy), and even then never out of order, twice or ahead.
Complete ==
  \A c \in Clients : \A s \in Services :
    sse[c] = "stream" /\ c \in subs[s] \ shut[s] =>
      /\ InOrder(Told(c), lastEvent[s])
      /\ ~lossy[c] => UpTo(Told(c), lastEvent[s])

(* Liveness, under LiveSpec *)

\* StopNode returns although a subscriber takes no data any more.
StopEnds == \A s \in Services : stage[s] = "claimed" ~> stage[s] = "stopped"

\* A client that was subscribed when its service was stopped does not stay on it.
LeavesStopped ==
  \A c \in Clients \ Stuck : \A s \in Services :
    (stage[s] = "claimed" /\ sse[c] = "stream" /\ svc[c] = s)
      ~> ~(sse[c] = "stream" /\ svc[c] = s)

-----------------------------------------------------------------------------
(* Statement of the repository that the code does not keep *)

\* handleEvents: "Subscribe and stream until this service stops".  A client does not
\* stay on the stream of a service that has stopped.
StreamsUntilStop ==
  \A c \in Clients \ Stuck : \A s \in Services :
    (stage[s] = "stopped" /\ sse[c] = "stream" /\ svc[c] = s)
      ~> ~(sse[c] = "stream" /\ svc[c] = s)
=============================================================================
