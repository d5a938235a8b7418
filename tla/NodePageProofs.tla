--------------------------- MODULE NodePageProofs ---------------------------
(* Proofs about NodePage, for any number of updates on their way. *)
EXTENDS NodePage, SequenceTheorems, TLAPS

Routes == {"main", "node", "settings"}
EventsSeen == Updates \cup {NoEvent}
InfosSeen == Updates \cup {NoService, Unknown}
CallStates == {"idle", "sent", "waiting", "ok", "failed"}

BackendOK == node \in Updates \cup {NoService} /\ pipe \in Seq(Updates)
CallOK == call \in [Calls -> CallStates]
PageOK ==
  /\ route \in Routes /\ event \in EventsSeen /\ info \in InfosSeen /\ on \subseteq Flags

\* The parts of TypeOK: what the backend, the calls and the page keep.
Typed == BackendOK /\ CallOK /\ PageOK

-----------------------------------------------------------------------------
(* What a render keeps *)

\* The effects of Node take flags away, but for the sheet they open and the progress they see.
LEMMA EffectsAreFlags ==
  ASSUME NEW F \in SUBSET Flags, NEW e, NEW i
  PROVE  NodeEffects(F, e, i) \subseteq Flags
<1>1. {"seenProgress", "sheet"} \subseteq Flags
  BY DEF Flags, NodeFlags
<1>2. \A G \in SUBSET Flags :
        /\ EndLocking(G, e, i) \in SUBSET Flags /\ AutoUnlock(G, e, i) \in SUBSET Flags
        /\ LeaveLimbo(G, e, i) \in SUBSET Flags /\ CloseSheet(G, e, i) \in SUBSET Flags
  BY <1>1 DEF EndLocking, AutoUnlock, LeaveLimbo, CloseSheet
<1>3. \A G \in SUBSET Flags : TrackRestart(G, e, i) \in SUBSET Flags
  BY <1>1 DEF TrackRestart
<1> QED BY <1>2, <1>3 DEF NodeEffects

LEMMA LoadedIs == \A F : Loaded(F) \in Routes
  BY DEF Loaded, Routes

LEMMA ShowTyped ==
  ASSUME NEW r \in Routes, NEW F \in SUBSET Flags, NEW e \in EventsSeen, NEW i \in InfosSeen,
         Show(r, F, e, i)
  PROVE  PageOK'
<1> DEFINE r1 == IF r = "main" /\ Running(i) /\ (route # "main" \/ ~Running(info))
                   THEN Loaded(F) ELSE r
           K  == Kept(Kept(F, r), r1)
           F1 == IF r1 = "node" THEN NodeEffects(K, e, i) ELSE K
           r2 == IF r1 = "node" /\ GoesHome(F1, e, i) THEN "main" ELSE r1
           F2 == Kept(F1, r2)
<1>1. /\ route' = r2 /\ event' = e /\ info' = i
      /\ on' = IF r2 = "main" THEN MainEffects(F2, e) ELSE F2
  BY DEF Show
<1>2. r1 \in Routes
  BY LoadedIs
<1>3. \A G, x : Kept(G, x) \subseteq G
  BY DEF Kept
<1>4. K \in SUBSET Flags
  <2>1. Kept(F, r) \subseteq Flags
    BY <1>3
  <2> QED BY <1>3, <2>1
<1> HIDE DEF r1, K
<1>5. F1 \in SUBSET Flags
  BY <1>4, EffectsAreFlags
<1> HIDE DEF F1
<1>6. r2 \in Routes
  BY <1>2 DEF Routes
<1>7. F2 \subseteq Flags
  BY <1>3, <1>5
<1> HIDE DEF r2, F2
<1>8. on' \subseteq Flags
  BY <1>1, <1>7 DEF MainEffects
<1> QED BY <1>1, <1>6, <1>8 DEF PageOK

LEMMA SetFlagsTyped ==
  ASSUME PageOK, NEW F \in SUBSET Flags, SetFlags(F)
  PROVE  PageOK'
  BY ShowTyped DEF SetFlags, PageOK

LEMMA SendTyped ==
  ASSUME pipe \in Seq(Updates), NEW u \in Updates, Send(u)
  PROVE  pipe' \in Seq(Updates)
<1>1. Append(pipe, u) \in Seq(Updates)
  BY AppendProperties
<1> QED BY <1>1, EmptySeq DEF Send

-----------------------------------------------------------------------------
(* Types *)

LEMMA BackendTyped ==
  ASSUME Typed, Daemon \/ Connect \/ Disconnect \/ Receive \/ Revalidate
  PROVE  Typed'
<1>0. BackendOK /\ CallOK /\ PageOK
  BY DEF Typed
<1>1. CASE Daemon
  <2>1. PICK u \in Follows(node) : node' = u /\ Send(u)
    BY <1>1 DEF Daemon
  <2>2. u \in Updates
    BY <1>0, <1>1, <2>1 DEF BackendOK, Follows, Updates, Down
  <2>3. BackendOK'
    BY <1>0, <2>1, <2>2, SendTyped DEF BackendOK
  <2> QED BY <1>0, <1>1, <2>3 DEF Typed, Daemon, page, CallOK, PageOK
<1>2. CASE Connect
  <2>1. node \in Updates /\ <<node>> \in Seq(Updates)
    BY <1>0, <1>2 DEF Connect, BackendOK
  <2>2. BackendOK'
    BY <1>0, <1>2, <2>1 DEF Connect, BackendOK
  <2> QED BY <1>0, <1>2, <2>2 DEF Typed, Connect, page, CallOK, PageOK
<1>3. CASE Disconnect
  <2>1. BackendOK' /\ CallOK'
    BY <1>0, <1>3, EmptySeq DEF Disconnect, BackendOK, CallOK
  <2>2. PageOK'
    BY <1>0, <1>3, ShowTyped DEF Disconnect, PageOK, EventsSeen
  <2> QED BY <2>1, <2>2 DEF Typed
<1>4. CASE Receive
  <2>1. Head(pipe) \in Updates /\ Tail(pipe) \in Seq(Updates)
    BY <1>0, <1>4, HeadTailProperties DEF Receive, BackendOK
  <2>2. BackendOK' /\ CallOK'
    BY <1>0, <1>4, <2>1 DEF Receive, BackendOK, CallOK
  <2>3. PageOK'
    BY <1>0, <1>4, <2>1, ShowTyped DEF Receive, PageOK, EventsSeen
  <2> QED BY <2>2, <2>3 DEF Typed
<1>5. CASE Revalidate
  <2>1. node \in InfosSeen
    BY <1>0 DEF BackendOK, InfosSeen
  <2>2. PageOK'
    BY <1>0, <1>5, <2>1, ShowTyped DEF Revalidate, PageOK
  <2> QED BY <1>0, <1>5, <2>2 DEF Typed, Revalidate, backend, BackendOK, CallOK
<1> QED BY <1>1, <1>2, <1>3, <1>4, <1>5

LEMMA ServeTyped ==
  ASSUME Typed, (\E c \in Calls : Serve(c)) \/ RekeyRestarts
  PROVE  Typed'
<1>0. BackendOK /\ CallOK /\ PageOK
  BY DEF Typed
<1>1. {"starting", "syncing", "down"} \subseteq Updates
  BY DEF Updates
<1>2. ASSUME NEW c \in Calls, Succeeds(c) PROVE BackendOK'
  <2>1. CASE UNCHANGED backend
    BY <1>0, <2>1 DEF backend, BackendOK
  <2>2. CASE node' = NoService /\ (Send("down") \/ UNCHANGED pipe)
    BY <1>0, <1>1, <2>2, SendTyped DEF BackendOK
  <2>3. CASE \E u \in {"starting", "syncing"} : node' = u /\ Send(u)
    BY <1>0, <1>1, <2>3, SendTyped DEF BackendOK
  <2> QED BY <1>2, <2>1, <2>2, <2>3 DEF Succeeds, UnlockedAgain, Calls
<1>3. ASSUME NEW c \in Calls, Serve(c) PROVE BackendOK' /\ CallOK'
  <2>1. BackendOK'
    BY <1>0, <1>2, <1>3 DEF Serve, backend, BackendOK
  <2>2. CallOK'
    BY <1>0, <1>3 DEF Serve, CallOK, CallStates
  <2> QED BY <2>1, <2>2
<1>4. CASE RekeyRestarts
  <2>1. BackendOK'
    BY <1>0, <1>1, <1>4, SendTyped DEF RekeyRestarts, BackendOK
  <2>2. CallOK'
    BY <1>0, <1>4 DEF RekeyRestarts, CallOK, CallStates
  <2> QED BY <1>0, <1>4, <2>1, <2>2 DEF Typed, RekeyRestarts, page, PageOK
<1>5. ASSUME NEW c \in Calls, Serve(c) PROVE Typed'
  BY <1>0, <1>3, <1>5 DEF Typed, Serve, page, PageOK
<1> QED BY <1>4, <1>5

LEMMA ReturnedTyped ==
  ASSUME BackendOK, CallOK, NEW c \in Calls, Returned(c)
  PROVE  BackendOK' /\ CallOK'
  BY DEF Returned, backend, BackendOK, CallOK, CallStates

LEMMA ContinueTyped ==
  ASSUME Typed, Continue
  PROVE  Typed'
<1>0. BackendOK /\ CallOK /\ PageOK
  BY DEF Typed
<1>1. BackendOK' /\ CallOK'
  BY <1>0, ReturnedTyped DEF Continue, StopReturns, GoHomeReturns, LockReturns, UnlockReturns,
     RestartReturns, RecoverReturns, StartReturns, ApplyReturns, RekeyReturns, Calls
<1>2. "walletUnlocked" \in Flags /\ "main" \in Routes /\ "starting" \in InfosSeen
  BY DEF Flags, Session, Routes, InfosSeen, Updates
<1>3. PageOK'
  <2>1. (\E F \in SUBSET Flags : SetFlags(F)) => PageOK'
    BY <1>0, SetFlagsTyped
  <2>2. (\E r \in Routes, F \in SUBSET Flags, i \in InfosSeen : Show(r, F, event, i))
          => PageOK'
    BY <1>0, ShowTyped DEF PageOK
  <2>3. CASE StopReturns \/ GoHomeReturns \/ RekeyReturns
    BY <1>0, <1>2, <2>1, <2>2, <2>3, LoadedIs
       DEF StopReturns, GoHomeReturns, RekeyReturns, PageOK
  <2>4. CASE LockReturns \/ RestartReturns \/ RecoverReturns \/ ApplyReturns
    BY <1>0, <2>1, <2>4 DEF LockReturns, RestartReturns, RecoverReturns, ApplyReturns, PageOK
  <2>5. CASE UnlockReturns
    BY <1>0, <1>2, <2>1, <2>5 DEF UnlockReturns, PageOK
  <2>6. CASE StartReturns
    BY <1>0, <1>2, <2>1, <2>2, <2>6, LoadedIs DEF StartReturns, PageOK
  <2> QED BY <2>3, <2>4, <2>5, <2>6 DEF Continue
<1> QED BY <1>1, <1>3 DEF Typed

LEMMA IssueTyped ==
  ASSUME BackendOK, CallOK, NEW c \in Calls, Issue(c)
  PROVE  BackendOK' /\ CallOK'
  BY DEF Issue, backend, BackendOK, CallOK, CallStates

LEMMA UserTyped ==
  ASSUME Typed, User
  PROVE  Typed'
<1>0. BackendOK /\ CallOK /\ PageOK
  BY DEF Typed
<1>1. on \in SUBSET Flags /\ event \in EventsSeen /\ info \in InfosSeen
      /\ NoEvent \in EventsSeen /\ {"main", "node", "settings"} \subseteq Routes
  BY <1>0 DEF PageOK, EventsSeen, Routes
<1>2. {"stopping", "userStopped", "overlay", "locking", "retrying", "recovering", "sheet",
       "unlocking", "autoStarting", "autoUnlockPending", "isRestarting"} \subseteq Flags
  BY DEF Flags, NodeFlags, Session
<1>3. ASSUME NEW c \in Calls, NEW F \in SUBSET Flags, Click(c, F) PROVE Typed'
  BY <1>0, <1>3, IssueTyped, SetFlagsTyped DEF Typed, Click
<1>4. CASE Stop \/ Lock \/ GoHome
  BY <1>1, <1>2, <1>3, <1>4 DEF Stop, Lock, GoHome, Calls
<1>5. CASE Restart \/ Recover \/ Unlock \/ ChangePassword
  BY <1>1, <1>2, <1>3, <1>5 DEF Restart, Recover, Unlock, ChangePassword, Calls
<1>6. CASE OpenSheet \/ CloseTheSheet
  <2>1. PageOK'
    BY <1>0, <1>1, <1>2, <1>6, SetFlagsTyped DEF OpenSheet, CloseTheSheet
  <2> QED BY <1>0, <1>6, <2>1
          DEF Typed, OpenSheet, CloseTheSheet, backend, BackendOK, CallOK
<1>7. CASE PowerOn
  <2>1. BackendOK' /\ CallOK'
    BY <1>0, <1>7, IssueTyped DEF PowerOn, Calls
  <2>2. PageOK'
    BY <1>1, <1>2, <1>7, ShowTyped DEF PowerOn
  <2> QED BY <2>1, <2>2 DEF Typed
<1>8. CASE OpenSettings \/ LeaveSettings
  <2>1. PICK r \in Routes : Navigate(r)
    BY <1>1, <1>8, LoadedIs DEF OpenSettings, LeaveSettings
  <2>2. PageOK'
    BY <1>1, <2>1, ShowTyped DEF Navigate
  <2> QED BY <1>0, <2>1, <2>2 DEF Typed, Navigate, backend, BackendOK, CallOK
<1>9. CASE ApplyAndRestart
  <2>1. PageOK'
    BY <1>1, <1>2, <1>9, ShowTyped DEF ApplyAndRestart
  <2>2. CallOK'
    BY <1>0, <1>9 DEF ApplyAndRestart, CallOK, CallStates
  <2> QED BY <1>0, <1>9, <2>1, <2>2 DEF Typed, ApplyAndRestart, backend, BackendOK
<1> QED BY <1>4, <1>5, <1>6, <1>7, <1>8, <1>9 DEF User

LEMMA TimersTyped ==
  ASSUME Typed, Timers
  PROVE  Typed'
<1>0. BackendOK /\ CallOK /\ PageOK /\ "stalled" \in Flags
  BY DEF Typed, Flags, NodeFlags
<1>1. PICK F \in SUBSET Flags : UNCHANGED <<backend, call>> /\ SetFlags(F)
  BY <1>0 DEF Timers, LockTimeout, RestartTimeout, StallTimeout, OverlayTimeout,
     StartTimeout, Timer, PageOK
<1>2. PageOK'
  BY <1>0, <1>1, SetFlagsTyped
<1> QED BY <1>0, <1>1, <1>2 DEF Typed, backend, BackendOK, CallOK

LEMMA InitTyped == Init => Typed
  BY EmptySeq DEF Init, Typed, BackendOK, CallOK, PageOK, Updates, Routes, EventsSeen, InfosSeen,
     CallStates, page, Flags, NodeFlags, Session

LEMMA TypeStep == Typed /\ [Next]_vars => Typed'
<1> SUFFICES ASSUME Typed, [Next]_vars PROVE Typed'
  OBVIOUS
<1>1. CASE UNCHANGED vars
  BY <1>1 DEF vars, backend, page, Typed, BackendOK, CallOK, PageOK
<1>2. CASE Next
  BY <1>2, BackendTyped, ServeTyped, ContinueTyped, UserTyped, TimersTyped DEF Next
<1> QED BY <1>1, <1>2

\* Every variable keeps its type: the page shows a route, an event and an info that exist,
\* and no effect leaves a flag that no page has.
THEOREM TypeCorrect == Spec => []TypeOK
<1>1. Typed => TypeOK
  BY DEF Typed, BackendOK, CallOK, PageOK, TypeOK, Routes, EventsSeen, InfosSeen, CallStates
<1> QED BY <1>1, InitTyped, TypeStep, PTL DEF Spec

-----------------------------------------------------------------------------
(* A start that succeeded *)

\* Only the handler that sent the start takes its answer.
LEMMA OnlyStartReturns ==
  ASSUME CallOK, Next, call["start"] = "ok", call'["start"] = "idle"
  PROVE  StartReturns
<1>1. call["start"] # call'["start"] /\ "start" \in Calls
  BY DEF Calls
<1>2. ASSUME NEW c \in Calls, NEW x, call' = [call EXCEPT ![c] = x]
      PROVE  c = "start" /\ x = "idle"
  BY <1>1, <1>2 DEF CallOK
<1>3. ~(Daemon \/ Connect \/ Disconnect \/ Receive \/ Revalidate \/ Timers)
  BY <1>1 DEF Daemon, Connect, Disconnect, Receive, Revalidate, Timers, Timer, LockTimeout,
     RestartTimeout, StallTimeout, OverlayTimeout, StartTimeout
<1>4. ~RekeyRestarts /\ \A c \in Calls : ~Serve(c)
  BY <1>2 DEF RekeyRestarts, Serve, Calls
<1>5. \A c \in Calls : ~Issue(c)
  BY <1>2 DEF Issue
<1>6. ~User
  <2>1. ~(OpenSheet \/ CloseTheSheet \/ OpenSettings \/ LeaveSettings)
    BY <1>1 DEF OpenSheet, CloseTheSheet, OpenSettings, LeaveSettings, Navigate
  <2>2. ~ApplyAndRestart
    BY <1>2 DEF ApplyAndRestart, Calls
  <2> QED BY <1>5, <2>1, <2>2 DEF User, Stop, Lock, GoHome, Restart, Recover, Unlock, PowerOn,
          ChangePassword, Click, Calls
<1>7. ASSUME NEW c \in Calls, Returned(c) PROVE c = "start"
  BY <1>2, <1>7 DEF Returned
<1> QED BY <1>3, <1>4, <1>6, <1>7 DEF Next, Continue, StopReturns, GoHomeReturns, LockReturns,
        UnlockReturns, RestartReturns, RecoverReturns, ApplyReturns, RekeyReturns, Calls

\* A start that succeeded leads to the Node page: the info it leaves tells of a running node,
\* and so sends nobody home.
THEOREM LandsHolds == Spec => StartLands
<1>1. ASSUME Typed, Next, call["start"] = "ok", call'["start"] = "idle", node # NoService
      PROVE  route' = "node"
  <2>1. StartReturns
    BY <1>1, OnlyStartReturns DEF Typed
  <2>2. Show("node", on, event, "starting")
    BY <1>1, <2>1 DEF StartReturns, Ok, Loaded
  <2>3. \A F : ~GoesHome(F, event, "starting")
    BY DEF GoesHome, NodeRunning, Running, NoService, Unknown
  <2> QED BY <2>2, <2>3 DEF Show
<1>2. Typed /\ [Next]_vars
        => [call["start"] = "ok" /\ call'["start"] = "idle" /\ node # NoService
              => route' = "node"]_vars
  BY <1>1
<1> QED BY <1>2, InitTyped, TypeStep, PTL DEF Spec, StartLands
-----------------------------------------------------------------------------
(* What hides the controls *)

\* Each flag that hides the controls stands for a request whose answer takes it back, or is
\* shown on a page whose timer does.  (A restart under way has a timer of its own, and the
\* two retry spinners end with the next event.)
Attended ==
  /\ "stopping" \in on => call["stop"] # "idle"
  /\ "locking" \in on => call["lock"] # "idle"
  /\ "unlocking" \in on => call["unlock"] # "idle"
  /\ "autoStarting" \in on => call["start"] # "idle"
  /\ "overlay" \in on =>
       \/ call["stop"] # "idle" \/ call["rekey"] # "idle"
       \/ route = "main" /\ "userStopped" \in on

\* The flags of one request each.
FlagsEnd ==
  /\ "stopping" \in on => call["stop"] # "idle"
  /\ "locking" \in on => call["lock"] # "idle"
  /\ "unlocking" \in on => call["unlock"] # "idle"
  /\ "autoStarting" \in on =>
       route = "main" /\ InFlight = {"start"} /\ (call["start"] = "ok" => node # NoService)
\* A node is started from Main, and while there is none.
StartWaits ==
  call["start"] \notin {"idle", "ok"} =>
    InFlight = {"start"} /\ route = "main" /\ node = NoService /\ "overlay" \notin on
\* A node that runs is known to, and Main is left for it, but for a start not yet told.
StartKnown ==
  node # NoService /\ call["start"] # "ok" => Running(info) /\ route # "main"
\* A stop is asked for on the node's page, outside a restart, and leaves no node.
StopWaits ==
  call["stop"] # "idle" =>
    /\ route # "settings" /\ "userStopped" \in on /\ "isRestarting" \notin on
    /\ call["stop"] = "ok" => node = NoService
\* The overlay that outlives its stop is Main's, where no node runs.
OverlayEnds ==
  "overlay" \in on =>
    \/ call["stop"] # "idle" \/ call["rekey"] # "idle"
    \/ /\ route = "main" /\ node = NoService
       /\ "userStopped" \in on /\ "isRestarting" \notin on
Waits == FlagsEnd /\ StartWaits /\ StartKnown /\ StopWaits /\ OverlayEnds

LEMMA WaitsAttend == Waits => Attended
  BY DEF Waits, FlagsEnd, OverlayEnds, Attended, InFlight, Calls

LEMMA InitWaits == Init => Waits
  BY DEF Init, Waits, FlagsEnd, StartWaits, StartKnown, StopWaits, OverlayEnds, InFlight, Calls,
     NoService

\* What the effects of Node add and keep.
LEMMA EffectsKeep ==
  ASSUME NEW F, NEW e, NEW i
  PROVE  /\ NodeEffects(F, e, i) \subseteq F \cup {"seenProgress", "sheet"}
         /\ "userStopped" \in F => "userStopped" \in NodeEffects(F, e, i)
<1> DEFINE ok(G, H) == /\ H \subseteq G \cup {"seenProgress", "sheet"}
                       /\ "userStopped" \in G => "userStopped" \in H
<1>1. \A G : /\ ok(G, EndLocking(G, e, i)) /\ ok(G, AutoUnlock(G, e, i))
             /\ ok(G, LeaveLimbo(G, e, i)) /\ ok(G, CloseSheet(G, e, i))
  BY DEF EndLocking, AutoUnlock, LeaveLimbo, CloseSheet
<1>2. \A G : ok(G, TrackRestart(G, e, i))
  BY DEF TrackRestart
<1> QED BY <1>1, <1>2 DEF NodeEffects

\* What a render does to the flags and to the route.
LEMMA Shown ==
  ASSUME NEW r \in Routes, NEW F \in SUBSET Flags, NEW e, NEW i, Show(r, F, e, i)
  PROVE  /\ info' = i
         /\ on' \subseteq F \cup {"seenProgress", "sheet"}
         /\ "userStopped" \in F => "userStopped" \in on'
         /\ "autoStarting" \in on' => r = "main" /\ route' = "main"
         /\ r # "node" => on' \cap {"stopping", "locking", "unlocking"} = {}
         /\ r # "main" /\ Running(i) => route' = r
         /\ r = "main" /\ Running(i) /\ node # NoService /\ route # "main" => route' = "node"
         /\ r = "main" /\ (~Running(i) \/ (route = "main" /\ Running(info))) => route' = "main"
         /\ r = "main" /\ node = NoService /\ "isRestarting" \notin F => route' = "main"
         /\ r # "settings" => route' # "settings"
<1> DEFINE r1 == IF r = "main" /\ Running(i) /\ (route # "main" \/ ~Running(info))
                   THEN Loaded(F) ELSE r
           K  == Kept(Kept(F, r), r1)
           F1 == IF r1 = "node" THEN NodeEffects(K, e, i) ELSE K
           r2 == IF r1 = "node" /\ GoesHome(F1, e, i) THEN "main" ELSE r1
           F2 == Kept(F1, r2)
<1>1. /\ route' = r2 /\ info' = i
      /\ on' = IF r2 = "main" THEN MainEffects(F2, e) ELSE F2
  BY DEF Show
<1>2. ASSUME NEW G, NEW x
      PROVE  /\ Kept(G, x) \subseteq G
             /\ "userStopped" \in G => "userStopped" \in Kept(G, x)
             /\ x # "main" => "autoStarting" \notin Kept(G, x)
             /\ x # "node" => Kept(G, x) \cap {"stopping", "locking", "unlocking"} = {}
  BY DEF Kept, NodeFlags
<1>3. /\ K \subseteq F /\ ("userStopped" \in F => "userStopped" \in K)
      /\ r # "main" \/ r1 # "main" => "autoStarting" \notin K
      /\ r # "node" => K \cap {"stopping", "locking", "unlocking"} = {}
  <2> DEFINE L == Kept(F, r)
  <2>1. K = Kept(L, r1)
    OBVIOUS
  <2>2. /\ L \subseteq F /\ ("userStopped" \in F => "userStopped" \in L)
        /\ r # "main" => "autoStarting" \notin L
        /\ r # "node" => L \cap {"stopping", "locking", "unlocking"} = {}
    BY <1>2
  <2> HIDE DEF L, r1, K
  <2>3. /\ K \subseteq L /\ ("userStopped" \in L => "userStopped" \in K)
        /\ r1 # "main" => "autoStarting" \notin K
    BY <1>2, <2>1
  <2> QED BY <2>2, <2>3
<1>4. r1 \in Routes /\ (r # "settings" => r1 # "settings") /\ (r # "main" => r1 = r)
  BY DEF Loaded, Routes
<1>5. /\ r = "main" /\ Running(i) /\ node # NoService /\ route # "main" => r1 = "node"
      /\ r = "main" /\ (~Running(i) \/ (route = "main" /\ Running(info))) => r1 = "main"
      /\ r = "main" /\ node = NoService /\ "isRestarting" \notin F => r1 = "main"
  BY DEF Loaded
<1> HIDE DEF r1, K
<1>6. /\ F1 \subseteq K \cup {"seenProgress", "sheet"}
      /\ "userStopped" \in K => "userStopped" \in F1
  BY EffectsKeep
<1> HIDE DEF F1
<1>7. /\ r2 = r1 \/ (r1 = "node" /\ r2 = "main")
      /\ Running(i) => r2 = r1
  BY DEF GoesHome, NodeRunning
<1>8. F2 \subseteq F1 /\ ("userStopped" \in F1 => "userStopped" \in F2)
  BY <1>2
<1> HIDE DEF r2, F2
<1>9. on' \subseteq F2 /\ ("userStopped" \in F2 => "userStopped" \in on')
  BY <1>1 DEF MainEffects
<1>10. on' \subseteq F \cup {"seenProgress", "sheet"}
  BY <1>3, <1>6, <1>8, <1>9
<1>11. "userStopped" \in F => "userStopped" \in on'
  BY <1>3, <1>6, <1>8, <1>9
<1>12. "autoStarting" \in on' => r = "main" /\ route' = "main"
  BY <1>1, <1>3, <1>6, <1>7, <1>8, <1>9
<1>13. r # "node" => on' \cap {"stopping", "locking", "unlocking"} = {}
  BY <1>3, <1>6, <1>8, <1>9
<1> QED BY <1>1, <1>4, <1>5, <1>7, <1>10, <1>11, <1>12, <1>13

\* An action that renders the page where it is, with no news of the calls or of the node.
LEMMA RenderWaits ==
  ASSUME Typed, Waits, UNCHANGED <<node, call>>,
         NEW F \in SUBSET Flags, F \subseteq on \cup {"sheet", "stalled"},
         "userStopped" \in on => "userStopped" \in F,
         NEW e, NEW i \in {info, node}, Show(route, F, e, i)
  PROVE  Waits'
<1>0. InFlight' = InFlight /\ route \in Routes /\ node \in Updates \cup {NoService}
  BY DEF InFlight, Typed, BackendOK, PageOK
<1>1. /\ info' = i /\ ("userStopped" \in on => "userStopped" \in on')
      /\ on' \subseteq on \cup {"seenProgress", "sheet", "stalled"}
      /\ "autoStarting" \in on' => route' = "main"
  BY <1>0, Shown
<1>2. FlagsEnd'
  BY <1>0, <1>1 DEF Waits, FlagsEnd
<1>3. node # NoService => Running(node)
  BY <1>0 DEF Running, Updates, NoService, Unknown
<1>4. StartWaits'
  <2>1. route = "main" /\ node = NoService => route' = "main"
    BY <1>0, Shown DEF Running
  <2> QED BY <1>0, <1>1, <2>1 DEF Waits, StartWaits
<1>5. StartKnown'
  <2>1. ASSUME node # NoService, call["start"] # "ok" PROVE Running(i) /\ route' # "main"
    BY <1>0, <1>3, <2>1, Shown DEF Waits, StartKnown
  <2> QED BY <1>1, <2>1 DEF StartKnown, Running
<1>6. StopWaits'
  <2>1. route # "settings" => route' # "settings"
    BY <1>0, Shown
  <2> QED BY <1>1, <2>1 DEF Waits, StopWaits
<1>7. OverlayEnds'
  <2>1. route = "main" /\ node = NoService => route' = "main"
    BY <1>0, Shown DEF Running
  <2> QED BY <1>1, <2>1 DEF Waits, OverlayEnds
<1> QED BY <1>2, <1>4, <1>5, <1>6, <1>7 DEF Waits

LEMMA TimersWait ==
  ASSUME Typed, Waits, Timers
  PROVE  Waits'
<1>1. PICK F \in SUBSET Flags :
        /\ F \subseteq on \cup {"stalled"} /\ ("userStopped" \in on => "userStopped" \in F)
        /\ UNCHANGED <<backend, call>> /\ SetFlags(F)
  <2>1. on \in SUBSET Flags /\ "stalled" \in Flags
    BY DEF Typed, PageOK, Flags, NodeFlags
  <2> QED BY <2>1 DEF Timers, LockTimeout, RestartTimeout, StallTimeout, OverlayTimeout,
          StartTimeout, Timer
<1> QED BY <1>1, RenderWaits DEF SetFlags, backend

LEMMA BackendWaits ==
  ASSUME Typed, Waits, Daemon \/ Connect \/ Disconnect \/ Receive \/ Revalidate
  PROVE  Waits'
<1>0. on \in SUBSET Flags
  BY DEF Typed, PageOK
<1>1. CASE Daemon \/ Connect
  <2>1. UNCHANGED <<call, route, event, info, on>> /\ InFlight' = InFlight
    BY <1>1 DEF Daemon, Connect, page, InFlight
  <2>2. (node = NoService) <=> (node' = NoService)
    BY <1>1 DEF Daemon, Connect, Follows, Down, NoService
  <2> QED BY <2>1, <2>2
          DEF Waits, FlagsEnd, StartWaits, StartKnown, StopWaits, OverlayEnds, Running
<1>2. CASE Disconnect
  BY <1>0, <1>2, RenderWaits DEF Disconnect
<1>3. CASE Receive
  BY <1>0, <1>3, RenderWaits DEF Receive
<1>4. CASE Revalidate
  BY <1>0, <1>4, RenderWaits DEF Revalidate, backend
<1> QED BY <1>1, <1>2, <1>3, <1>4

\* The backend serves one request.
LEMMA ServeWaits ==
  ASSUME Typed, Waits, (\E c \in Calls : Serve(c)) \/ RekeyRestarts
  PROVE  Waits'
<1>0. UNCHANGED <<route, event, info, on>> /\ call \in [Calls -> CallStates]
  BY DEF Serve, RekeyRestarts, page, Typed, CallOK
<1>1. PICK c \in Calls, x \in {"ok", "failed", "waiting"} :
        /\ call[c] \in {"sent", "waiting"} /\ call' = [call EXCEPT ![c] = x]
        /\ x = "ok" => Succeeds(c)
        /\ x # "ok" => node' = node \/ (node # NoService /\ node' # NoService)
        /\ c = "start" => x = "ok" \/ (x = "failed" /\ node' = node)
  BY DEF Serve, RekeyRestarts, backend, Calls, NoService
<1>2. \A d \in Calls : (call[d] # "idle") <=> (call'[d] # "idle")
  BY <1>0, <1>1
<1>3. InFlight' = InFlight
  BY <1>2 DEF InFlight
<1>4. \A d \in Calls : d # c => call'[d] = call[d]
  BY <1>0, <1>1
<1>5. call'[c] = x
  BY <1>0, <1>1
<1>6. node' = NoService \/ node # NoService \/ (c = "start" /\ x = "ok")
  BY <1>1 DEF Succeeds, UnlockedAgain, backend, NoService, Calls
<1>7. c = "stop" /\ x = "ok" => node' = NoService
  BY <1>1 DEF Succeeds
<1>8. c = "start" => (x = "failed" /\ node' = node) \/ (x = "ok" /\ node' # NoService)
  BY <1>1 DEF Succeeds, NoService
<1>9. c \in InFlight
  BY <1>1 DEF InFlight
<1>10. c = "start" => call["start"] = "sent" \/ call["start"] = "waiting"
  BY <1>1
<1>11. FlagsEnd'
  <2>1. ASSUME "autoStarting" \in on, call'["start"] = "ok" PROVE node' # NoService
    <3>1. c = "start"
      BY <1>9, <2>1 DEF Waits, FlagsEnd
    <3> QED BY <1>5, <1>8, <2>1, <3>1
  <2> QED BY <1>0, <1>2, <1>3, <2>1 DEF Waits, FlagsEnd, Calls
<1>12. c = "start" => InFlight = {"start"} /\ node = NoService /\ "overlay" \notin on
  BY <1>10 DEF Waits, StartWaits
<1>13. StartWaits'
  <2> SUFFICES ASSUME call'["start"] \notin {"idle", "ok"}
               PROVE  InFlight = {"start"} /\ route = "main" /\ node' = NoService
                        /\ "overlay" \notin on
    BY <1>0, <1>3 DEF StartWaits
  <2>1. c = "start"
    <3>1. c # "start" => call'["start"] = call["start"]
      BY <1>4 DEF Calls
    <3> QED BY <1>9, <3>1 DEF Waits, StartWaits
  <2>2. node' = node /\ call["start"] \notin {"idle", "ok"}
    BY <1>5, <1>8, <1>10, <2>1
  <2> QED BY <2>2 DEF Waits, StartWaits
<1>14. StartKnown'
  BY <1>0, <1>4, <1>5, <1>6, <1>8, <1>12 DEF Waits, StartKnown, Running, Calls
<1>15. StopWaits'
  <2>1. c = "start" => call["stop"] = "idle"
    BY <1>12 DEF InFlight, Calls
  <2> QED BY <1>0, <1>2, <1>4, <1>5, <1>6, <1>7, <2>1 DEF Waits, StopWaits, Calls
<1>16. OverlayEnds'
  BY <1>0, <1>2, <1>6, <1>12 DEF Waits, OverlayEnds, Calls
<1> QED BY <1>11, <1>13, <1>14, <1>15, <1>16 DEF Waits

\* The answer of a request other than a start: the page goes on where it is, on Main or at
\* what the loader opens.
LEMMA ReturnWaits ==
  ASSUME Typed, Waits, NEW c \in Calls \ {"start"}, Returned(c),
         NEW r \in {route, "main", Loaded(on)}, NEW F \in SUBSET Flags,
         F \subseteq on \cup {"walletUnlocked"},
         c # "stop" /\ "userStopped" \in on => "userStopped" \in F,
         IF c = "stop" /\ Ok(c) THEN r = "main" /\ F = on
           ELSE c = "stop" => F \cap {"stopping", "overlay"} = {},
         c = "lock" => "locking" \notin F, c = "unlock" => "unlocking" \notin F,
         c = "rekey" => "overlay" \notin F,
         Show(r, F, event, info)
  PROVE  Waits'
<1>0. r \in Routes /\ (route # "settings" => r # "settings")
  BY LoadedIs DEF Typed, PageOK, Routes, Loaded
<1>1. /\ c \in InFlight /\ node' = node /\ call'[c] = "idle"
      /\ \A d \in Calls : d # c => call'[d] = call[d]
  BY DEF Returned, InFlight, backend, Typed, CallOK
<1>2. /\ info' = info /\ on' \subseteq F \cup {"seenProgress", "sheet"}
      /\ "userStopped" \in F => "userStopped" \in on'
      /\ r # "node" => on' \cap {"stopping", "locking", "unlocking"} = {}
  BY <1>0, Shown
<1>3. call["start"] \in {"idle", "ok"} /\ "autoStarting" \notin on
  BY <1>1 DEF Waits, StartWaits, FlagsEnd
<1>4. FlagsEnd'
  <2>1. "autoStarting" \notin on'
    BY <1>2, <1>3
  <2>2. c = "stop" => "stopping" \notin on'
    BY <1>2
  <2>3. /\ c = "lock" => "locking" \notin on'
        /\ c = "unlock" => "unlocking" \notin on'
    BY <1>2
  <2> QED BY <1>1, <1>2, <2>1, <2>2, <2>3 DEF Waits, FlagsEnd, Calls
<1>5. StartWaits'
  BY <1>1, <1>3 DEF StartWaits, Calls
<1>6. StartKnown'
  <2>1. ASSUME node # NoService, call["start"] # "ok" PROVE Running(info) /\ route' # "main"
    <3>1. Running(info) /\ route # "main" /\ Loaded(on) = "node"
      BY <2>1 DEF Waits, StartKnown, Loaded
    <3>2. CASE r = "main"
      BY <1>0, <2>1, <3>1, <3>2, Shown
    <3>3. CASE r # "main"
      BY <1>0, <3>1, <3>3, Shown
    <3> QED BY <3>1, <3>2, <3>3
  <2> QED BY <1>1, <1>2, <2>1 DEF StartKnown, Running, Calls
<1>7. StopWaits'
  <2>1. r # "settings" => route' # "settings"
    BY <1>0, Shown
  <2>2. c = "stop" => call'["stop"] = "idle"
    BY <1>1
  <2> QED BY <1>0, <1>1, <1>2, <2>1, <2>2 DEF Waits, StopWaits, Calls
<1>8. OverlayEnds'
  <2> SUFFICES ASSUME "overlay" \in on', call'["stop"] = "idle", call'["rekey"] = "idle"
               PROVE  /\ route' = "main" /\ node' = NoService
                      /\ "userStopped" \in on' /\ "isRestarting" \notin on'
    BY DEF OverlayEnds
  <2>1. "overlay" \in F /\ "overlay" \in on /\ c # "rekey"
    BY <1>2
  <2>2. CASE c = "stop"
    <3>1. Ok("stop") /\ r = "main" /\ F = on
      BY <2>1, <2>2
    <3>2. node = NoService /\ "userStopped" \in on /\ "isRestarting" \notin on
      BY <3>1 DEF Waits, StopWaits, Ok
    <3> QED BY <1>0, <1>1, <1>2, <3>1, <3>2, Shown
  <2>3. CASE c # "stop"
    <3>1. call["stop"] = "idle" /\ call["rekey"] = "idle"
      BY <1>1, <2>1, <2>3 DEF Calls
    <3>2. /\ route = "main" /\ node = NoService
          /\ "userStopped" \in on /\ "isRestarting" \notin on
      BY <2>1, <3>1 DEF Waits, OverlayEnds
    <3>3. r = "main" /\ "isRestarting" \notin F /\ "userStopped" \in F
      BY <2>3, <3>2 DEF Loaded
    <3> QED BY <1>0, <1>1, <1>2, <3>2, <3>3, Shown
  <2> QED BY <2>2, <2>3
<1> QED BY <1>4, <1>5, <1>6, <1>7, <1>8 DEF Waits

LEMMA StartReturnsWaits ==
  ASSUME Typed, Waits, StartReturns
  PROVE  Waits'
<1>0. on \in SUBSET Flags /\ route \in Routes /\ Loaded(on) \in Routes
  BY LoadedIs DEF Typed, PageOK
<1>1. /\ call["start"] \in {"ok", "failed"} /\ node' = node /\ call'["start"] = "idle"
      /\ \A d \in Calls : d # "start" => call'[d] = call[d]
  BY DEF StartReturns, Returned, backend, Typed, CallOK, Calls
<1>2. StartWaits'
  BY <1>1 DEF StartWaits
<1>3. CASE call["start"] = "failed"
  <2>1. /\ route = "main" /\ node = NoService /\ "overlay" \notin on
        /\ \A d \in Calls : d # "start" => call[d] = "idle"
    BY <1>3 DEF Waits, StartWaits, InFlight
  <2>2. Show(route, on \ {"autoStarting", "autoUnlockPending"}, event, info)
    BY <1>3 DEF StartReturns, Ok, SetFlags
  <2>3. on' \subseteq (on \ {"autoStarting"}) \cup {"seenProgress", "sheet"}
    BY <1>0, <2>2, Shown
  <2>4. {"stopping", "locking", "unlocking"} \cap on = {}
    BY <2>1 DEF Waits, FlagsEnd, Calls
  <2>5. FlagsEnd' /\ OverlayEnds'
    BY <2>1, <2>3, <2>4 DEF FlagsEnd, OverlayEnds
  <2>6. StartKnown' /\ StopWaits'
    BY <1>1, <2>1 DEF StartKnown, StopWaits, Calls
  <2> QED BY <1>2, <2>5, <2>6 DEF Waits
<1>4. CASE call["start"] = "ok"
  <2>1. Show(Loaded(on), on, event, "starting")
    BY <1>4 DEF StartReturns, Ok
  <2>2. Running("starting")
    BY DEF Running, NoService, Unknown
  <2>3. /\ info' = "starting" /\ on' \subseteq on \cup {"seenProgress", "sheet"}
        /\ "userStopped" \in on => "userStopped" \in on'
        /\ "autoStarting" \in on' => Loaded(on) = "main"
    BY <1>0, <2>1, Shown
  <2>4. FlagsEnd'
    <3>1. "autoStarting" \notin on'
      BY <1>4, <2>3 DEF Waits, FlagsEnd, Loaded
    <3> QED BY <1>1, <2>3, <3>1 DEF Waits, FlagsEnd, Calls
  <2>5. StartKnown'
    <3>1. node # NoService => Loaded(on) = "node"
      BY DEF Loaded
    <3>2. node # NoService => route' = "node"
      BY <1>0, <2>1, <2>2, <3>1, Shown
    <3> QED BY <1>1, <2>2, <2>3, <3>2 DEF StartKnown, Running
  <2>6. StopWaits'
    <3>1. route' # "settings"
      BY <1>0, <2>1, Shown DEF Loaded
    <3> QED BY <1>1, <2>3, <3>1 DEF Waits, StopWaits, Calls
  <2>7. OverlayEnds'
    <3>1. ASSUME node = NoService, "isRestarting" \notin on PROVE route' = "main"
      BY <1>0, <2>1, <3>1, Shown DEF Loaded
    <3> QED BY <1>1, <2>3, <3>1 DEF Waits, OverlayEnds, Calls
  <2> QED BY <1>2, <2>4, <2>5, <2>6, <2>7 DEF Waits
<1> QED BY <1>1, <1>3, <1>4

LEMMA ContinueWaits ==
  ASSUME Typed, Waits, Continue
  PROVE  Waits'
<1>0. on \in SUBSET Flags /\ "walletUnlocked" \in Flags
  BY DEF Typed, PageOK, Flags, Session
<1>1. CASE StopReturns
  <2>1. "stop" \in Calls \ {"start"}
    BY DEF Calls
  <2>2. CASE Ok("stop")
    BY <1>0, <1>1, <2>1, <2>2, ReturnWaits DEF StopReturns
  <2>3. CASE ~Ok("stop")
    <3> DEFINE F == on \ {"stopping", "userStopped", "overlay"}
    <3>1. Returned("stop") /\ Show(route, F, event, info)
      BY <1>1, <2>3 DEF StopReturns, SetFlags
    <3>2. F \in SUBSET Flags /\ F \subseteq on /\ F \cap {"stopping", "overlay"} = {}
      BY <1>0
    <3> QED BY <2>1, <2>3, <3>1, <3>2, ReturnWaits
  <2> QED BY <2>2, <2>3
<1>2. CASE GoHomeReturns
  BY <1>0, <1>2, ReturnWaits DEF GoHomeReturns, Calls
<1>3. CASE LockReturns
  BY <1>0, <1>3, ReturnWaits DEF LockReturns, SetFlags, Calls
<1>4. CASE UnlockReturns
  BY <1>0, <1>4, ReturnWaits DEF UnlockReturns, SetFlags, Calls
<1>5. CASE RestartReturns
  BY <1>0, <1>5, ReturnWaits DEF RestartReturns, SetFlags, Calls
<1>6. CASE RecoverReturns
  BY <1>0, <1>6, ReturnWaits DEF RecoverReturns, SetFlags, Calls
<1>7. CASE ApplyReturns
  BY <1>0, <1>7, ReturnWaits DEF ApplyReturns, SetFlags, Calls
<1>8. CASE RekeyReturns
  BY <1>0, <1>8, ReturnWaits DEF RekeyReturns, SetFlags, Calls
<1> QED BY <1>1, <1>2, <1>3, <1>4, <1>5, <1>6, <1>7, <1>8, StartReturnsWaits DEF Continue

\* A click sends a request, and sets the flags that go with it.
LEMMA ClickWaits ==
  ASSUME Typed, Waits, NEW c \in Calls \ {"start"}, NEW F \in SUBSET Flags, Click(c, F),
         F \subseteq on \cup {"retrying", "recovering", "userStopped"} \cup
           (CASE c = "stop" -> {"stopping", "overlay"} [] c = "lock" -> {"locking"}
              [] c = "unlock" -> {"unlocking"} [] c = "rekey" -> {"overlay"} [] OTHER -> {}),
         "userStopped" \in on => "userStopped" \in F,
         c = "stop" => route = "node" /\ "userStopped" \in F /\ "isRestarting" \notin F
  PROVE  Waits'
<1>0. route \in Routes /\ Show(route, F, event, info)
  BY DEF Typed, PageOK, Click, SetFlags
<1>1. /\ node' = node /\ call'[c] = "sent" /\ \A d \in Calls : d # c => call'[d] = call[d]
      /\ InFlight = {} \/ c = "stop"
  BY DEF Click, Issue, backend, Typed, CallOK
<1>2. /\ info' = info /\ on' \subseteq F \cup {"seenProgress", "sheet"}
      /\ "userStopped" \in F => "userStopped" \in on'
  BY <1>0, Shown
<1>3. call["start"] \in {"idle", "ok"} /\ "autoStarting" \notin on
  BY <1>1 DEF Waits, StartWaits, FlagsEnd
<1>4. /\ "stopping" \in on' => "stopping" \in on \/ c = "stop"
      /\ "locking" \in on' => "locking" \in on \/ c = "lock"
      /\ "unlocking" \in on' => "unlocking" \in on \/ c = "unlock"
      /\ "overlay" \in on' => "overlay" \in on \/ c \in {"stop", "rekey"}
      /\ "isRestarting" \in on' => "isRestarting" \in on
      /\ "autoStarting" \notin on'
  BY <1>2, <1>3
<1>5. FlagsEnd'
  BY <1>1, <1>4 DEF Waits, FlagsEnd, Calls
<1>6. StartWaits'
  BY <1>1, <1>3 DEF StartWaits, Calls
<1>7. StartKnown'
  <2>1. Running(info) /\ route # "main" => route' = route
    BY <1>0, Shown
  <2> QED BY <1>1, <1>2, <2>1 DEF Waits, StartKnown, Running, Calls
<1>8. StopWaits'
  <2>1. CASE c = "stop"
    BY <1>0, <1>1, <1>2, <2>1, Shown DEF StopWaits
  <2>2. CASE c # "stop"
    <3>1. call'["stop"] = "idle"
      BY <1>1, <2>2 DEF InFlight, Calls
    <3> QED BY <3>1 DEF StopWaits
  <2> QED BY <2>1, <2>2
<1>9. OverlayEnds'
  <2>1. route = "main" /\ node = NoService /\ "isRestarting" \notin F => route' = "main"
    BY <1>0, Shown
  <2>2. "isRestarting" \in F => "isRestarting" \in on
    OBVIOUS
  <2> QED BY <1>1, <1>2, <1>4, <2>1, <2>2 DEF Waits, OverlayEnds, Calls
<1> QED BY <1>5, <1>6, <1>7, <1>8, <1>9 DEF Waits

\* A page is left only when nothing is awaited.
LEMMA NavigateWaits ==
  ASSUME Typed, Waits, NEW r \in Routes, Navigate(r)
  PROVE  Waits'
<1>0. /\ on \in SUBSET Flags /\ "overlay" \notin on /\ UNCHANGED <<node, call>>
      /\ Show(r, on, event, info)
  BY DEF Navigate, Typed, PageOK, backend
<1>1. \A c \in Calls : call[c] = "idle"
  BY DEF Navigate, InFlight
<1>2. on \cap {"stopping", "locking", "unlocking", "autoStarting"} = {}
  BY <1>1 DEF Waits, FlagsEnd, InFlight, Calls
<1>3. info' = info /\ on' \subseteq on \cup {"seenProgress", "sheet"}
  BY <1>0, Shown
<1>4. FlagsEnd' /\ OverlayEnds'
  BY <1>0, <1>2, <1>3 DEF FlagsEnd, OverlayEnds
<1>5. StartWaits' /\ StopWaits'
  BY <1>0, <1>1 DEF StartWaits, StopWaits, Calls
<1>6. StartKnown'
  <2>1. Running(info) /\ node # NoService /\ route # "main" => route' # "main"
    BY <1>0, Shown
  <2> QED BY <1>0, <1>3, <2>1 DEF Waits, StartKnown, Running
<1> QED BY <1>4, <1>5, <1>6 DEF Waits

LEMMA PowerOnWaits ==
  ASSUME Typed, Waits, PowerOn
  PROVE  Waits'
<1> DEFINE F == (on \ {"userStopped"}) \cup {"autoStarting", "autoUnlockPending"}
<1>0. /\ F \in SUBSET Flags /\ "overlay" \notin F /\ route = "main" /\ "main" \in Routes
      /\ Show("main", F, NoEvent, info)
  BY DEF PowerOn, Typed, PageOK, Flags, Session, Routes
<1>1. /\ node' = node /\ call' = [call EXCEPT !["start"] = "sent"]
      /\ \A c \in Calls : call[c] = "idle"
  BY DEF PowerOn, Issue, InFlight, backend
<1>2. /\ call'["start"] = "sent" /\ InFlight' = {"start"}
      /\ \A c \in Calls : c # "start" => call'[c] = "idle"
  BY <1>1 DEF InFlight, Calls, Typed, CallOK
<1>3. node = NoService
  BY <1>0, <1>1 DEF Waits, StartKnown, Calls
<1>4. route' = "main" /\ on' \subseteq F \cup {"seenProgress", "sheet"}
  BY <1>0, Shown
<1>5. "overlay" \notin on' /\ on' \cap {"stopping", "locking", "unlocking"} = {}
  <2>1. on \cap {"stopping", "locking", "unlocking"} = {}
    BY <1>1 DEF Waits, FlagsEnd, Calls
  <2> QED BY <1>0, <1>4, <2>1
<1>6. FlagsEnd' /\ StartWaits' /\ StartKnown'
  BY <1>1, <1>2, <1>3, <1>4, <1>5 DEF FlagsEnd, StartWaits, StartKnown
<1>7. StopWaits' /\ OverlayEnds'
  BY <1>2, <1>5 DEF StopWaits, OverlayEnds, Calls
<1> QED BY <1>6, <1>7 DEF Waits

LEMMA ApplyWaits ==
  ASSUME Typed, Waits, ApplyAndRestart
  PROVE  Waits'
<1> DEFINE F == on \cup {"autoUnlockPending", "isRestarting"}
<1>0. /\ F \in SUBSET Flags /\ route = "settings" /\ "node" \in Routes /\ node' = node
      /\ Show("node", F, event, info) /\ Running(info)
  BY DEF ApplyAndRestart, Typed, PageOK, Flags, Session, Routes, backend, Running, NoService,
     Unknown
<1>1. call'["apply"] = "sent" /\ \A c \in Calls : c # "apply" => call'[c] = call[c]
  BY DEF ApplyAndRestart, Typed, CallOK, Calls
<1>2. /\ call["start"] \in {"idle", "ok"} /\ call["stop"] = "idle" /\ "autoStarting" \notin on
      /\ "overlay" \in on => call["rekey"] # "idle"
  BY <1>0 DEF Waits, StartWaits, StopWaits, FlagsEnd, OverlayEnds
<1>3. route' = "node" /\ info' = info /\ on' \subseteq F \cup {"seenProgress", "sheet"}
  BY <1>0, Shown
<1>4. FlagsEnd' /\ OverlayEnds'
  BY <1>1, <1>2, <1>3 DEF Waits, FlagsEnd, OverlayEnds, Calls
<1>5. StartWaits' /\ StopWaits' /\ StartKnown'
  BY <1>0, <1>1, <1>2, <1>3 DEF StartWaits, StopWaits, StartKnown, Running, Calls
<1> QED BY <1>4, <1>5 DEF Waits

LEMMA UserWaits ==
  ASSUME Typed, Waits, User
  PROVE  Waits'
<1>0. on \in SUBSET Flags /\ route \in Routes /\ {"main", "settings"} \subseteq Routes
  BY DEF Typed, PageOK, Routes
<1>1. {"stopping", "userStopped", "overlay", "locking", "retrying", "recovering", "sheet",
       "unlocking"} \subseteq Flags
  BY DEF Flags, NodeFlags, Session
<1>2. CASE Stop
  <2> DEFINE F == (on \cup {"stopping", "userStopped", "overlay"}) \ {"walletUnlocked"}
  <2>1. Click("stop", F) /\ route = "node" /\ "isRestarting" \notin on
    BY <1>2 DEF Stop, CanStop, NodeShown, IsActive, EscapeHatch
  <2>2. F \in SUBSET Flags /\ "userStopped" \in F /\ "isRestarting" \notin F
    BY <1>0, <1>1, <2>1
  <2> QED BY <2>1, <2>2, ClickWaits DEF Calls
<1>3. CASE Lock
  BY <1>0, <1>1, <1>3, ClickWaits DEF Lock, Calls
<1>4. CASE GoHome
  BY <1>0, <1>1, <1>4, ClickWaits DEF GoHome, Calls
<1>5. CASE Restart
  BY <1>0, <1>1, <1>5, ClickWaits DEF Restart, Calls
<1>6. CASE Recover
  BY <1>0, <1>1, <1>6, ClickWaits DEF Recover, Calls
<1>7. CASE Unlock
  BY <1>0, <1>1, <1>7, ClickWaits DEF Unlock, Calls
<1>8. CASE ChangePassword
  BY <1>0, <1>1, <1>8, ClickWaits DEF ChangePassword, Calls
<1>9. CASE OpenSheet \/ CloseTheSheet
  BY <1>0, <1>1, <1>9, RenderWaits DEF OpenSheet, CloseTheSheet, SetFlags, backend
<1>10. CASE OpenSettings \/ LeaveSettings
  BY <1>0, <1>10, NavigateWaits, LoadedIs DEF OpenSettings, LeaveSettings
<1> QED BY <1>2, <1>3, <1>4, <1>5, <1>6, <1>7, <1>8, <1>9, <1>10, PowerOnWaits, ApplyWaits
        DEF User

LEMMA WaitsStep == Typed /\ Waits /\ [Next]_vars => Waits'
<1> SUFFICES ASSUME Typed, Waits, [Next]_vars PROVE Waits'
  OBVIOUS
<1>1. CASE UNCHANGED vars
  BY <1>1 DEF vars, backend, page, Waits, FlagsEnd, StartWaits, StartKnown, StopWaits,
     OverlayEnds, InFlight, Running
<1>2. CASE Next
  BY <1>2, BackendWaits, ServeWaits, ContinueWaits, UserWaits, TimersWait DEF Next
<1> QED BY <1>1, <1>2

\* Nothing hides the controls without a request under way, or a timer, that ends it: the
\* overlay of a stop is not carried to a page, or into a start, where nothing takes it away.
THEOREM HiddenEnds == Spec => []Attended
  BY InitTyped, InitWaits, TypeStep, WaitsStep, WaitsAttend, PTL DEF Spec
=============================================================================
