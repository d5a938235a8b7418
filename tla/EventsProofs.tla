---------------------------- MODULE EventsProofs ----------------------------
(* Proofs about Events: for any clients, services, updates and channel capacity. *)
EXTENDS Events, TLAPS

\* What the channel operations return.
LEMMA ChannelOps ==
  ASSUME NEW S, NEW q \in Seq(S), NEW u \in S
  PROVE  /\ <<>> \in Seq(S) /\ <<u>> \in Seq(S) /\ Append(q, u) \in Seq(S)
         /\ q # <<>> => Tail(q) \in Seq(S) /\ Head(q) \in S
  OBVIOUS

-----------------------------------------------------------------------------
(* Types, and the invariants that need nothing else *)

\* Every variable keeps its type, and a handler that subscribes has a service.
THEOREM TypeCorrect == Spec => []TypeOK
<1> USE EventsAssumption DEF Services, Stages, NoService, Nothing, Final
<1>1. Init => TypeOK
  BY DEF Init, TypeOK
<1>2. TypeOK /\ [Next]_vars => TypeOK'
  <2> SUFFICES ASSUME TypeOK, [Next]_vars PROVE TypeOK'
    OBVIOUS
  <2> USE DEF TypeOK
  <2>1. CASE RunNode BY <2>1 DEF RunNode, chanVars, handlerVars
  <2>2. CASE StopNode BY <2>2 DEF StopNode, chanVars, handlerVars
  <2>3. ASSUME NEW s \in Services, BeginUnsubscribeAll(s) PROVE TypeOK'
    BY <2>3 DEF BeginUnsubscribeAll, appVars, chanVars, handlerVars
  <2>4. ASSUME NEW s \in Services, EndUnsubscribeAll(s) PROVE TypeOK'
    BY <2>4 DEF EndUnsubscribeAll, appVars, chanVars, handlerVars
  <2>5. ASSUME NEW s \in Services, Join(s) PROVE TypeOK'
    BY <2>5 DEF Join, appVars, chanVars, handlerVars
  <2>6. ASSUME NEW s \in Services, NEW c \in Clients, CloseOne(s, c) PROVE TypeOK'
    <3>0. Final \in 0 .. Final
      OBVIOUS
    <3>1. Append(queue[c], Final) \in Seq(0 .. Final)
      BY <3>0, ChannelOps
    <3>2. queue' \in [Clients -> Seq(0 .. Final)] /\ lossy' \in [Clients -> BOOLEAN]
      BY <2>6, <3>1 DEF CloseOne
    <3> QED BY <2>6, <3>2 DEF CloseOne, appVars, handlerVars
  <2>7. ASSUME NEW s \in Services, Notify(s) PROVE TypeOK'
    <3>1. lastEvent' \in [Services -> 0 .. MaxUpdates] /\ lastEvent'[s] \in 0 .. Final
      BY <2>7 DEF Notify, Publishes
    <3>2. \A c \in Clients : Append(queue[c], lastEvent'[s]) \in Seq(0 .. Final)
      BY <3>1, ChannelOps
    <3>3. queue' \in [Clients -> Seq(0 .. Final)] /\ lossy' \in [Clients -> BOOLEAN]
      BY <2>7, <3>2 DEF Notify
    <3> QED BY <2>7, <3>1, <3>3 DEF Notify, Publishes, appVars, handlerVars
  <2>8. ASSUME NEW c \in Clients, Connect(c) \/ Disconnect(c) PROVE TypeOK'
    <3>1. /\ \E label \in {"look", "away", "leaving"} :
               /\ sse' = [sse EXCEPT ![c] = label]
               /\ label = "leaving" => sse[c] = "stream"
          /\ UNCHANGED <<appVars, stage, lastEvent, subs, shut, chanVars, svc, shown>>
      BY <2>8 DEF Connect, Disconnect, Goto
    <3> QED BY <3>1 DEF appVars, chanVars
  <2>9. ASSUME NEW c \in Clients, Look(c) PROVE TypeOK'
    BY <2>9 DEF Look, Goto, appVars, chanVars
  <2>10. ASSUME NEW c \in Clients, Subscribe(c) PROVE TypeOK'
    <3>1. svc[c] \in Services /\ <<lastEvent[svc[c]]>> \in Seq(0 .. Final)
      BY <2>10 DEF Subscribe
    <3>2. /\ subs' \in [Services -> SUBSET Clients] /\ shut' \in [Services -> SUBSET Clients]
          /\ lossy' \in [Clients -> BOOLEAN] /\ shown' \in [Clients -> Nothing .. Final]
      BY <2>10, <3>1 DEF Subscribe
    <3>3. queue' \in [Clients -> Seq(0 .. Final)]
      BY <2>10, <3>1 DEF Subscribe
    <3>4. /\ sse' \in [Clients -> {"away", "look", "have", "stream", "leaving"}]
          /\ \A x \in Clients : sse'[x] \in {"have", "stream", "leaving"} => svc'[x] # NoService
      BY <2>10 DEF Subscribe, Goto
    <3> QED BY <2>10, <3>2, <3>3, <3>4 DEF Subscribe, appVars
  <2>11. ASSUME NEW c \in Clients, Receive(c) PROVE TypeOK'
    <3>1. Tail(queue[c]) \in Seq(0 .. Final) /\ Head(queue[c]) \in 0 .. Final
      BY <2>11, ChannelOps DEF Receive
    <3>2. /\ queue' \in [Clients -> Seq(0 .. Final)] /\ shown' \in [Clients -> Nothing .. Final]
          /\ UNCHANGED <<appVars, stage, lastEvent, subs, shut, svc, lossy>>
      BY <2>11, <3>1 DEF Receive
    <3>3. /\ sse' \in [Clients -> {"away", "look", "have", "stream", "leaving"}]
          /\ \A x \in Clients : sse'[x] \in {"have", "stream", "leaving"} => svc'[x] # NoService
      BY <2>11 DEF Receive, Goto
    <3> QED BY <3>2, <3>3 DEF appVars
  <2>12. ASSUME NEW c \in Clients, StreamEnds(c) \/ Unsubscribe(c) PROVE TypeOK'
    <3>1. <<>> \in Seq(0 .. Final)
      OBVIOUS
    <3>2. /\ svc' \in [Clients -> 0 .. MaxServices] /\ queue' \in [Clients -> Seq(0 .. Final)]
          /\ shown' \in [Clients -> Nothing .. Final] /\ lossy' \in [Clients -> BOOLEAN]
      <4>1. Forget(c)
        BY <2>12 DEF StreamEnds, Unsubscribe
      <4> QED BY <4>1, <3>1 DEF Forget
    <3>3. \A x \in Clients : sse'[x] \in {"have", "stream", "leaving"} => svc'[x] # NoService
      <4>1. CASE StreamEnds(c) BY <4>1 DEF StreamEnds, Goto, Forget
      <4>2. CASE Unsubscribe(c) BY <4>2 DEF Unsubscribe, Goto, Forget
      <4> QED BY <2>12, <4>1, <4>2
    <3>4. /\ sse' \in [Clients -> {"away", "look", "have", "stream", "leaving"}]
          /\ subs' \in [Services -> SUBSET Clients]
      <4>1. CASE StreamEnds(c) BY <4>1 DEF StreamEnds, Goto
      <4>2. CASE Unsubscribe(c) BY <4>2 DEF Unsubscribe, Goto
      <4> QED BY <2>12, <4>1, <4>2
    <3> QED BY <2>12, <3>2, <3>3, <3>4 DEF StreamEnds, Unsubscribe, appVars
  <2>13. CASE UNCHANGED vars
    BY <2>13 DEF vars, appVars, chanVars, handlerVars
  <2> QED
    BY <2>1, <2>2, <2>3, <2>4, <2>5, <2>6, <2>7, <2>8, <2>9, <2>10, <2>11, <2>12,
       <2>13 DEF Next, Stopping, Handler
<1> QED BY <1>1, <1>2, PTL DEF Spec

\* No service whose daemon may be running is forgotten.
THEOREM NoOrphanHolds == Spec => []NoOrphan
<1>1. Init => NoOrphan
  BY DEF Init, NoOrphan
<1>2. TypeOK /\ NoOrphan /\ [Next]_vars => NoOrphan'
  <2> SUFFICES ASSUME TypeOK, NoOrphan, [Next]_vars PROVE NoOrphan'
    OBVIOUS
  <2> USE DEF NoOrphan, TypeOK
  <2>1. CASE RunNode BY <2>1 DEF RunNode, Services, NoService
  <2>2. CASE StopNode BY <2>2 DEF StopNode
  <2>3. ASSUME NEW s \in Services, Stopping(s) PROVE NoOrphan'
    BY <2>3 DEF Stopping, BeginUnsubscribeAll, EndUnsubscribeAll, Join, CloseOne, appVars
  <2>4. CASE UNCHANGED <<stage, nodeService>> BY <2>4
  <2> QED
    BY <2>1, <2>2, <2>3, <2>4 DEF Next, Notify, Publishes, Connect, Disconnect, Handler, Look,
       Subscribe, Receive, StreamEnds, Unsubscribe, vars, appVars
<1> QED BY <1>1, <1>2, TypeCorrect, PTL DEF Spec

\* The services that do not exist yet, and the one that is attached.
Attached ==
  /\ \A s \in Services : s > made => stage[s] = "none"
  /\ nodeService # NoService => stage[nodeService] = "running"

LEMMA AttachedHolds == Spec => []Attached
<1>1. Init => Attached
  BY DEF Init, Attached
<1>2. TypeOK /\ Attached /\ [Next]_vars => Attached'
  <2> SUFFICES ASSUME TypeOK, Attached, [Next]_vars PROVE Attached'
    OBVIOUS
  <2> USE EventsAssumption DEF Attached, TypeOK, Services, NoService
  <2>1. CASE RunNode BY <2>1 DEF RunNode
  <2>2. CASE StopNode BY <2>2 DEF StopNode
  <2>3. ASSUME NEW s \in Services, Stopping(s) PROVE Attached'
    <3>1. /\ nodeService' = nodeService /\ made' = made
          /\ \/ stage' = stage
             \/ /\ stage[s] \in {"claimed", "closing", "joining"}
                /\ \E g \in Stages : stage' = [stage EXCEPT ![s] = g]
      BY <2>3 DEF Stopping, BeginUnsubscribeAll, EndUnsubscribeAll, Join, CloseOne, appVars,
                  Stages
    <3> QED BY <3>1
  <2>4. CASE UNCHANGED <<stage, nodeService, made>> BY <2>4
  <2> QED
    BY <2>1, <2>2, <2>3, <2>4 DEF Next, Notify, Publishes, Connect, Disconnect, Handler, Look,
       Subscribe, Receive, StreamEnds, Unsubscribe, vars, appVars
<1> QED BY <1>1, <1>2, TypeCorrect, PTL DEF Spec

-----------------------------------------------------------------------------
(* The channels in s.subs *)

\* While subMu is free every subscribed channel is open, so that no publisher and no
\* second unsubscribeAll hits a closed one.
THEOREM SubsOpenHolds == Spec => []SubsOpen
<1>1. Init => SubsOpen
  BY DEF Init, SubsOpen
<1>2. TypeOK /\ Attached /\ SubsOpen /\ [Next]_vars => SubsOpen'
  <2> SUFFICES ASSUME TypeOK, Attached, SubsOpen, [Next]_vars PROVE SubsOpen'
    OBVIOUS
  <2> USE DEF SubsOpen, SubMuFree, TypeOK
  <2>1. CASE RunNode
    <3>1. made + 1 \in Services /\ stage[made + 1] = "none"
      BY <2>1, EventsAssumption DEF RunNode, Attached, Services
    <3> QED BY <2>1, <3>1 DEF RunNode
  <2>2. CASE StopNode BY <2>2 DEF StopNode, Attached
  <2>3. ASSUME NEW s \in Services, BeginUnsubscribeAll(s) \/ Join(s) PROVE SubsOpen'
    BY <2>3 DEF BeginUnsubscribeAll, Join
  <2>4. ASSUME NEW s \in Services, EndUnsubscribeAll(s) PROVE SubsOpen'
    BY <2>4 DEF EndUnsubscribeAll
  <2>5. ASSUME NEW s \in Services, NEW c \in Clients, CloseOne(s, c) PROVE SubsOpen'
    BY <2>5 DEF CloseOne
  <2>6. ASSUME NEW c \in Clients, Subscribe(c) PROVE SubsOpen'
    BY <2>6 DEF Subscribe
  <2>7. ASSUME NEW c \in Clients, Unsubscribe(c) PROVE SubsOpen'
    BY <2>7 DEF Unsubscribe
  <2>8. CASE UNCHANGED <<stage, subs, shut>> BY <2>8
  <2> QED
    BY <2>1, <2>2, <2>3, <2>4, <2>5, <2>6, <2>7, <2>8 DEF Next, Stopping, Notify, Publishes, Connect,
       Disconnect, Handler, Look, Receive, StreamEnds, vars
<1> QED BY <1>1, <1>2, TypeCorrect, AttachedHolds, PTL DEF Spec

\* Every open channel in s.subs belongs to a handler that is streaming from s or about
\* to unsubscribe from it.
THEOREM SubsAttendedHolds == Spec => []SubsAttended
<1>1. Init => SubsAttended
  BY DEF Init, SubsAttended
<1>2. TypeOK /\ SubsAttended /\ [Next]_vars => SubsAttended'
  <2> SUFFICES ASSUME TypeOK, SubsAttended, [Next]_vars PROVE SubsAttended'
    OBVIOUS
  <2> USE DEF SubsAttended, TypeOK, Goto
  <2>1. ASSUME NEW s \in Services, EndUnsubscribeAll(s) PROVE SubsAttended'
    BY <2>1 DEF EndUnsubscribeAll, handlerVars
  <2>2. ASSUME NEW s \in Services, NEW c \in Clients, CloseOne(s, c) PROVE SubsAttended'
    BY <2>2 DEF CloseOne, handlerVars
  <2>3. ASSUME NEW c \in Clients, Connect(c) \/ Look(c) PROVE SubsAttended'
    <3>1. CASE Connect(c) BY <3>1 DEF Connect
    <3>2. CASE Look(c) BY <3>2 DEF Look
    <3> QED BY <2>3, <3>1, <3>2
  <2>4. ASSUME NEW c \in Clients, Disconnect(c) PROVE SubsAttended'
    <3>1. \/ sse[c] = "look" /\ sse' = [sse EXCEPT ![c] = "away"]
          \/ sse[c] = "stream" /\ sse' = [sse EXCEPT ![c] = "leaving"]
      BY <2>4 DEF Disconnect
    <3>2. subs' = subs /\ shut' = shut /\ svc' = svc
      BY <2>4 DEF Disconnect
    <3>3. \A s \in Services : \A x \in subs[s] \ shut[s] :
            svc[x] = s /\ sse'[x] \in {"stream", "leaving"}
      <4> SUFFICES ASSUME NEW s \in Services, NEW x \in subs[s] \ shut[s]
                   PROVE  svc[x] = s /\ sse'[x] \in {"stream", "leaving"}
        OBVIOUS
      <4>1. svc[x] = s /\ sse[x] \in {"stream", "leaving"} /\ x \in Clients
        OBVIOUS
      <4>2. CASE x = c BY <3>1, <4>1, <4>2
      <4>3. CASE x # c BY <3>1, <4>1, <4>3
      <4> QED BY <4>2, <4>3
    <3> QED BY <3>2, <3>3
  <2>5. ASSUME NEW c \in Clients, Subscribe(c) PROVE SubsAttended'
    BY <2>5 DEF Subscribe
  <2>6. ASSUME NEW c \in Clients, Receive(c) PROVE SubsAttended'
    <3>1. sse' = sse \/ sse' = [sse EXCEPT ![c] = "leaving"]
      BY <2>6 DEF Receive
    <3> QED BY <2>6, <3>1 DEF Receive
  <2>7. ASSUME NEW c \in Clients, StreamEnds(c) PROVE SubsAttended'
    BY <2>7 DEF StreamEnds, Forget
  <2>8. ASSUME NEW c \in Clients, Unsubscribe(c) PROVE SubsAttended'
    BY <2>8 DEF Unsubscribe, Forget
  <2>9. CASE UNCHANGED <<subs, shut, sse, svc>> BY <2>9
  <2> QED
    BY <2>1, <2>2, <2>3, <2>4, <2>5, <2>6, <2>7, <2>8, <2>9 DEF Next, Stopping, RunNode,
       StopNode, BeginUnsubscribeAll, Join, Notify, Publishes, Handler, vars, handlerVars
<1> QED BY <1>1, <1>2, TypeCorrect, PTL DEF Spec

-----------------------------------------------------------------------------
(* No gap and no reordering *)

\* A publication extends a gapless sequence.
LEMMA UpToAppend ==
  ASSUME NEW t \in Seq(Int), NEW n \in Int, UpTo(t, n)
  PROVE  UpTo(Append(t, n + 1), n + 1)
BY DEF UpTo

\* An update goes from the channel to the client: the end of the sequence stays.
LEMMA UpToReceive ==
  ASSUME NEW u \in Int, NEW q \in Seq(Int), NEW n \in Int, q # <<>>, UpTo(<<u>> \o q, n)
  PROVE  UpTo(q, n)
<1> DEFINE t == <<u>> \o q
<1>1. /\ Len(t) = Len(q) + 1 /\ Len(q) \in Nat \ {0}
      /\ \A i \in 1 .. Len(q) : t[i + 1] = q[i]
  OBVIOUS
<1>2. q[Len(q)] = n
  BY <1>1 DEF UpTo
<1>3. ASSUME NEW i \in 1 .. Len(q) - 1 PROVE q[i + 1] = q[i] + 1
  <2>1. i \in 1 .. Len(q) /\ i + 1 \in 1 .. Len(q) /\ i + 1 \in 1 .. Len(t) - 1
    BY <1>1
  <2>2. t[(i + 1) + 1] = t[i + 1] + 1
    BY <2>1 DEF UpTo
  <2> QED BY <1>1, <2>1, <2>2
<1> QED BY <1>2, <1>3 DEF UpTo

LEMMA ToldAppend ==
  ASSUME NEW u \in Int, NEW q \in Seq(Int), NEW n \in Int
  PROVE  Append(<<u>> \o q, n) = <<u>> \o Append(q, n)
OBVIOUS

LEMMA ToldReceive ==
  ASSUME NEW q \in Seq(Int), q # <<>>
  PROVE  <<Head(q)>> \o Tail(q) = q
OBVIOUS

\* What a client was told, with what it lost taken into account.
ToldWell(t, n, lost) == InOrder(t, n) /\ (~lost => UpTo(t, n))

LEMMA UpToInOrder ==
  ASSUME NEW t \in Seq(Int), NEW n \in Int, UpTo(t, n)
  PROVE  InOrder(t, n)
<1>1. \A i \in 1 .. Len(t) - 1 : t[i] \in Int
  OBVIOUS
<1> QED BY <1>1 DEF UpTo, InOrder

\* A publication extends the sequence, in a channel with room.
LEMMA ToldPublish ==
  ASSUME NEW t \in Seq(Int), NEW n \in Int, NEW lost \in BOOLEAN, ToldWell(t, n, lost)
  PROVE  ToldWell(Append(t, n + 1), n + 1, lost)
<1> DEFINE a == Append(t, n + 1)
<1>1. InOrder(a, n + 1)
  <2>1. /\ Len(a) = Len(t) + 1 /\ Len(t) \in Nat \ {0} /\ a[Len(t) + 1] = n + 1
        /\ \A i \in 1 .. Len(t) : a[i] = t[i] /\ t[i] \in Int
    BY DEF ToldWell, InOrder
  <2>2. t[Len(t)] <= n /\ \A i \in 1 .. Len(t) - 1 : t[i] < t[i + 1]
    BY DEF ToldWell, InOrder
  <2>3. ASSUME NEW i \in 1 .. Len(t) PROVE a[i] < a[i + 1]
    <3>1. CASE i = Len(t) BY <2>1, <2>2, <3>1
    <3>2. CASE i # Len(t)
      <4>1. i \in 1 .. Len(t) - 1 /\ i + 1 \in 1 .. Len(t)
        BY <2>1, <3>2
      <4> QED BY <2>1, <2>2, <4>1
    <3> QED BY <3>1, <3>2
  <2>4. a # <<>> /\ a[Len(a)] <= n + 1 /\ Len(a) - 1 = Len(t)
    BY <2>1
  <2> HIDE DEF a
  <2> QED BY <2>3, <2>4 DEF InOrder
<1>2. ~lost => UpTo(Append(t, n + 1), n + 1)
  BY UpToAppend DEF ToldWell
<1> QED BY <1>1, <1>2 DEF ToldWell

\* One that finds the channel full leaves what was told in order.
LEMMA ToldLoses ==
  ASSUME NEW t \in Seq(Int), NEW n \in Int, NEW lost, ToldWell(t, n, lost)
  PROVE  InOrder(t, n + 1)
<1>1. t # <<>> /\ t[Len(t)] \in Int
  BY DEF ToldWell, InOrder
<1> QED BY <1>1 DEF ToldWell, InOrder

\* An update goes from the channel to the client.
LEMMA ToldTakes ==
  ASSUME NEW u \in Int, NEW q \in Seq(Int), NEW n \in Int, NEW lost, q # <<>>,
         ToldWell(<<u>> \o q, n, lost)
  PROVE  ToldWell(q, n, lost)
<1> DEFINE t == <<u>> \o q
<1>1. /\ Len(t) = Len(q) + 1 /\ Len(q) \in Nat \ {0}
      /\ \A i \in 1 .. Len(q) : t[i + 1] = q[i]
  OBVIOUS
<1>2. InOrder(t, n)
  BY DEF ToldWell
<1>3. q[Len(q)] <= n
  BY <1>1, <1>2 DEF InOrder
<1>4. ASSUME NEW i \in 1 .. Len(q) - 1 PROVE q[i] < q[i + 1]
  <2>1. i \in 1 .. Len(q) /\ i + 1 \in 1 .. Len(q) /\ i + 1 \in 1 .. Len(t) - 1
    BY <1>1
  <2>2. t[i + 1] < t[(i + 1) + 1]
    BY <1>2, <2>1 DEF InOrder
  <2> QED BY <1>1, <2>1, <2>2
<1>5. InOrder(q, n)
  BY <1>3, <1>4 DEF InOrder
<1>6. ~lost => UpTo(q, n)
  BY UpToReceive DEF ToldWell
<1> QED BY <1>5, <1>6 DEF ToldWell

\* A client is told what was published since it subscribed, in order, and all of it
\* unless its channel was full.
THEOREM CompleteHolds == Spec => []Complete
<1>1. Init => Complete
  BY DEF Init, Complete
<1>2. /\ TypeOK /\ SubsOpen /\ SubsAttended /\ Complete /\ [Next]_vars
      => Complete'
  <2> DEFINE Good(x, r) == ToldWell(Told(x), lastEvent[r], lossy[x])
  <2> SUFFICES ASSUME TypeOK, SubsOpen, SubsAttended, Complete, [Next]_vars,
                      NEW x \in Clients, NEW r \in Services,
                      sse'[x] = "stream", x \in subs'[r] \ shut'[r]
               PROVE  Good(x, r)'
    BY DEF Complete, ToldWell
  <2> USE EventsAssumption DEF TypeOK, Nothing, Final
  <2>1. /\ queue[x] \in Seq(Int) /\ shown[x] \in Int /\ lastEvent[r] \in Int
        /\ lossy[x] \in BOOLEAN /\ Told(x) \in Seq(Int)
    <3>1. queue[x] \in Seq(0 .. Final) /\ 0 .. Final \subseteq Int
      OBVIOUS
    <3>2. queue[x] \in Seq(Int) /\ shown[x] \in Int /\ lastEvent[r] \in Int
      BY <3>1
    <3> QED BY <3>2 DEF Told
  <2>2. sse[x] = "stream" /\ x \in subs[r] \ shut[r] => Good(x, r)
    BY DEF Complete, ToldWell
  <2>3. ASSUME NEW s \in Services, Notify(s) PROVE Good(x, r)'
    <3>1. /\ sse[x] = "stream" /\ x \in subs[r] \ shut[r] /\ svc[x] = r /\ shown' = shown
      BY <2>3 DEF Notify, Publishes, handlerVars, SubsAttended
    <3>2. Good(x, r)
      BY <2>2, <3>1
    <3>3. CASE s = r /\ Len(queue[x]) < Cap
      <4>1. /\ queue'[x] = Append(queue[x], lastEvent[r] + 1)
            /\ lastEvent'[r] = lastEvent[r] + 1 /\ lossy'[x] = lossy[x]
        <5>1. lastEvent'[r] = lastEvent[r] + 1
          BY <2>3, <3>3 DEF Notify, Publishes
        <5>2. x \in subs[s]
          BY <3>1, <3>3
        <5>3. queue'[x] = Append(queue[x], lastEvent'[s])
          BY <2>3, <3>3, <5>2 DEF Notify
        <5>4. ~(Len(queue[x]) >= Cap)
          BY <2>1, <3>3
        <5>5. lossy'[x] = lossy[x]
          BY <2>3, <5>4 DEF Notify
        <5> QED BY <3>3, <5>1, <5>3, <5>5
      <4>2. Told(x)' = Append(Told(x), lastEvent[r] + 1)
        <5>1. lastEvent[r] + 1 \in Int
          BY <2>1
        <5>2. Append(<<shown[x]>> \o queue[x], lastEvent[r] + 1)
                = <<shown[x]>> \o Append(queue[x], lastEvent[r] + 1)
          <6>1. shown[x] \in Int /\ queue[x] \in Seq(Int)
            BY <2>1
          <6> QED BY ONLY <5>1, <6>1, ToldAppend
        <5> QED BY <3>1, <4>1, <5>2 DEF Told
      <4> QED BY <2>1, <3>2, <4>1, <4>2, ToldPublish
    <3>4. CASE s = r /\ Len(queue[x]) >= Cap
      <4>1. x \in subs[s]
        BY <3>1, <3>4
      <4>2. lastEvent'[r] = lastEvent[r] + 1
        BY <2>3, <3>4 DEF Notify, Publishes
      <4>3. ~(Len(queue[x]) < Cap)
        BY <2>1, <3>4
      <4>4. queue'[x] = queue[x] /\ lossy'[x] = TRUE
        BY <2>3, <3>4, <4>1, <4>3 DEF Notify
      <4>5. Told(x)' = Told(x)
        BY <3>1, <4>4 DEF Told
      <4>6. InOrder(Told(x), lastEvent[r] + 1)
        BY <2>1, <3>2, ToldLoses
      <4>7. InOrder(Told(x)', lastEvent'[r])
        BY <4>2, <4>5, <4>6
      <4> QED BY <4>4, <4>7 DEF ToldWell
    <3>5. CASE s # r
      <4>1. x \notin subs[s] \/ x \in shut[s]
        BY <3>1, <3>5 DEF SubsAttended
      <4>2. x \notin subs[s]
        BY <2>3, <4>1 DEF SubsOpen, Notify, Publishes
      <4>3. queue'[x] = queue[x] /\ lossy'[x] = lossy[x]
        BY <2>3, <4>2 DEF Notify
      <4>4. lastEvent'[r] = lastEvent[r]
        BY <2>3, <3>5 DEF Notify, Publishes
      <4> QED BY <3>1, <3>2, <4>3, <4>4 DEF Told
    <3>6. Len(queue[x]) < Cap \/ Len(queue[x]) >= Cap
      BY <2>1
    <3> QED BY <3>3, <3>4, <3>5, <3>6
  <2>4. ASSUME NEW c \in Clients, Receive(c) PROVE Good(x, r)'
    <3>1. /\ sse[x] = "stream" /\ x \in subs[r] \ shut[r]
          /\ lastEvent'[r] = lastEvent[r] /\ lossy'[x] = lossy[x]
      BY <2>4 DEF Receive, Goto
    <3>2. Good(x, r)
      BY <2>2, <3>1
    <3>3. CASE c = x
      <4>1. /\ queue[x] # <<>> /\ queue'[x] = Tail(queue[x]) /\ shown'[x] = Head(queue[x])
            /\ Head(queue[x]) \in 0 .. Final
        BY <2>4, <3>3, ChannelOps DEF Receive
      <4>2. Told(x)' = queue[x]
        <5>1. <<Head(queue[x])>> \o Tail(queue[x]) = queue[x]
          BY <2>1, <4>1, ToldReceive
        <5>2. shown'[x] # -1
          BY <4>1
        <5> QED BY <4>1, <5>1, <5>2 DEF Told
      <4>3. ToldWell(queue[x], lastEvent[r], lossy[x])
        <5>1. CASE shown[x] = -1 BY <3>2, <5>1 DEF Told
        <5>2. CASE shown[x] # -1 BY <2>1, <3>2, <4>1, <5>2, ToldTakes DEF Told
        <5> QED BY <5>1, <5>2
      <4> QED BY <3>1, <4>2, <4>3
    <3>4. CASE c # x
      <4>1. queue'[x] = queue[x] /\ shown'[x] = shown[x]
        BY <2>4, <3>4 DEF Receive
      <4> QED BY <3>1, <3>2, <4>1 DEF Told
    <3> QED BY <3>3, <3>4
  <2>5. ASSUME NEW c \in Clients, Subscribe(c) PROVE Good(x, r)'
    <3>1. CASE c = x
      <4>1. r = svc[x]
        BY <2>5, <3>1 DEF Subscribe, SubsAttended
      <4>2. queue'[x] = <<lastEvent[r]>> /\ shown'[x] = -1 /\ lastEvent'[r] = lastEvent[r]
        BY <2>5, <3>1, <4>1 DEF Subscribe
      <4>3. <<lastEvent[r]>> \in Seq(Int) /\ UpTo(<<lastEvent[r]>>, lastEvent[r])
        BY <2>1 DEF UpTo
      <4>4. Told(x)' = <<lastEvent[r]>>
        BY <4>2 DEF Told
      <4> QED BY <2>1, <4>2, <4>3, <4>4, UpToInOrder DEF ToldWell
    <3>2. CASE c # x
      <4>1. /\ sse[x] = "stream" /\ x \in subs[r] \ shut[r] /\ lossy'[x] = lossy[x]
            /\ queue'[x] = queue[x] /\ shown'[x] = shown[x] /\ lastEvent'[r] = lastEvent[r]
        BY <2>5, <3>2 DEF Subscribe, Goto
      <4> QED BY <2>2, <4>1 DEF Told
    <3> QED BY <3>1, <3>2
  <2>6. ASSUME NEW c \in Clients, StreamEnds(c) \/ Unsubscribe(c)
        PROVE Good(x, r)'
    <3>1. c # x /\ sse[x] = "stream" /\ x \in subs[r] \ shut[r]
      <4>1. /\ sse' = [sse EXCEPT ![c] = "look"] \/ sse' = [sse EXCEPT ![c] = "away"]
            /\ shut' = shut /\ \A s \in Services : subs'[s] \subseteq subs[s]
        <5>1. CASE StreamEnds(c) BY <5>1 DEF StreamEnds, Goto
        <5>2. CASE Unsubscribe(c) BY <5>2 DEF Unsubscribe, Goto
        <5> QED BY <2>6, <5>1, <5>2
      <4> QED BY <4>1
    <3>2. Forget(c) /\ lastEvent' = lastEvent
      BY <2>6 DEF StreamEnds, Unsubscribe
    <3>3. lossy'[x] = lossy[x] /\ queue'[x] = queue[x] /\ shown'[x] = shown[x]
      BY <3>1, <3>2 DEF Forget
    <3> QED BY <2>2, <3>1, <3>2, <3>3 DEF Told
  <2>7. ASSUME NEW s \in Services, NEW c \in Clients, CloseOne(s, c)
        PROVE Good(x, r)'
    <3>1. /\ sse[x] = "stream" /\ x \in subs[r] \ shut[r] /\ lastEvent' = lastEvent
          /\ shown' = shown
      BY <2>7 DEF CloseOne, handlerVars
    <3>2. c # x
      BY <2>7, <3>1 DEF CloseOne, SubsAttended
    <3>3. queue'[x] = queue[x] /\ lossy'[x] = lossy[x]
      BY <2>7, <3>2 DEF CloseOne
    <3> QED BY <2>2, <3>1, <3>3 DEF Told
  <2>8. ASSUME UNCHANGED <<lastEvent, shut, queue, shown, lossy>>,
               sse[x] = "stream", x \in subs[r]
        PROVE  Good(x, r)'
    BY <2>2, <2>8 DEF Told
  <2>9. ASSUME NEW c \in Clients, Connect(c) \/ Disconnect(c) \/ Look(c)
        PROVE Good(x, r)'
    BY <2>8, <2>9 DEF Connect, Disconnect, Look, Goto, chanVars
  <2>10. ASSUME NEW s \in Services, BeginUnsubscribeAll(s) \/ EndUnsubscribeAll(s) \/ Join(s)
         PROVE Good(x, r)'
    BY <2>8, <2>10 DEF BeginUnsubscribeAll, EndUnsubscribeAll, Join, chanVars, handlerVars
  <2>11. CASE RunNode \/ StopNode \/ UNCHANGED vars
    BY <2>8, <2>11 DEF RunNode, StopNode, vars, chanVars, handlerVars
  <2> QED
    BY <2>3, <2>4, <2>5, <2>6, <2>7, <2>9, <2>10, <2>11 DEF Next, Stopping, Handler
<1> QED BY <1>1, <1>2, TypeCorrect, SubsOpenHolds, SubsAttendedHolds, PTL DEF Spec
=============================================================================
