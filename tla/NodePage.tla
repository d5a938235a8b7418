------------------------------ MODULE NodePage ------------------------------
(***************************************************************************)
(* What the window shows of the node: the pages / (Main) and /node (Node)  *)
(* and the parts of /settings that restart it or change its password, the  *)
(* session store they share, the event stream, the /api/info cache and the *)
(* API calls in flight.  React runs the effects of a render before the next user event, *)
(* so an action is a handler, or a continuation after an await, with every *)
(* effect it triggers (Show).                                              *)
(*                                                                         *)
(* The backend is external: a state per service (module Service), updates  *)
(* on their way to the page (module Events), answers that may be late.     *)
(* An update is a state; "corrupt" is a down with neutrinoCorrupted.  init *)
(* and none are "starting", unlocked and scanning "syncing", block and tx  *)
(* "ready".                                                                *)
(***************************************************************************)
EXTENDS Integers, Sequences

CONSTANT MaxPipe   \* bound: updates on their way to the page

ASSUME NodePageAssumption == MaxPipe \in Nat \ {0}

Updates == {"starting", "noWallet", "locked", "syncing", "ready", "down", "corrupt"}
Down == {"down", "corrupt"}
Settled == {"locked", "ready"}
NoService == "none"        \* no service attached; also what /api/info then answers
NoEvent == "null"
Unknown == "undefined"     \* /api/info has not been answered yet

Calls == {"stop", "home", "lock", "unlock", "restart", "recover", "start", "apply",
          "rekey"}

\* Component state of Node and of Main, lost when the page is left; the stores.
NodeFlags == {"stopping", "locking", "unlocking", "retrying", "recovering",
              "stalled", "sheet", "seenProgress"}
Session == {"walletUnlocked", "userStopped", "autoUnlockPending", "isRestarting"}
Flags == NodeFlags \cup {"autoStarting", "overlay"} \cup Session

VARIABLES
  node,       \* backend: NoService or the last update of the attached service
  pipe,       \* updates sent and not yet received
  call,       \* each API call: "idle", "sent", "ok" or "failed" (answer on its way); a
              \* password change also "waiting" for the node to lock
  route, event, info,
  on          \* the flags that are true

backend == <<node, pipe>>
page == <<route, event, info, on>>
vars == <<backend, call, page>>

TypeOK ==
  /\ node \in Updates \cup {NoService}
  /\ pipe \in Seq(Updates)
  /\ call \in [Calls -> {"idle", "sent", "waiting", "ok", "failed"}]
  /\ route \in {"main", "node", "settings"}
  /\ event \in Updates \cup {NoEvent}
  /\ info \in Updates \cup {NoService, Unknown}
  /\ on \subseteq Flags

Init ==
  /\ node = NoService /\ pipe = <<>>
  /\ call = [c \in Calls |-> "idle"]
  /\ route = "main" /\ event = NoEvent /\ info = Unknown
  /\ on = {}

-----------------------------------------------------------------------------
(* What a render derives from the last event e and the cached info i *)

Running(i) == i \notin {NoService, Unknown}
NodeRunning(e, i) == e # NoEvent \/ Running(i)
State(e, i) ==
  LET s == IF e # NoEvent THEN e ELSE i IN IF s \in Down THEN "down" ELSE s
\* The field is absent from an event that does not set it: the ?? falls back on info.
Corrupted(e, i) == "corrupt" \in {e, i}

IsActive(F, e, i) == "isRestarting" \notin F /\ State(e, i) = "ready"

\* Mutant: the error screen waits for the event also when a retry is over.
IsDown_Sticky(F, e, i) ==
  /\ State(e, i) = "down"
  /\ F \cap {"userStopped", "retrying", "recovering"} = {}

IsDown(F, e, i) ==
  /\ State(e, i) = "down" \/ "stalled" \in F
  /\ F \cap {"userStopped", "retrying", "recovering"} = {}

Phase(F, e, i) ==
  CASE "stopping" \in F               -> "stopping"
    [] "locking" \in F                -> "locking"
    [] "isRestarting" \in F           -> "restarting"
    [] IsDown(F, e, i)                -> "down"
    [] State(e, i) = "noWallet"       -> "noWallet"
    [] State(e, i) = "locked"         -> "locked"
    [] IsActive(F, e, i)              -> "active"
    [] OTHER                          -> "syncing"

Loading(F, e, i) ==
  \/ Phase(F, e, i) \in {"stopping", "locking", "restarting", "syncing"}
  \/ "unlocking" \in F

-----------------------------------------------------------------------------
(* The effects of Node, in the order they are declared *)

EndLocking(F, e, i) ==
  IF State(e, i) = "locked" /\ NodeRunning(e, i) THEN F \ {"locking"} ELSE F

TrackRestart(F, e, i) ==
  LET G == IF ~NodeRunning(e, i) \/ State(e, i) = "starting"
             THEN F \cup {"seenProgress"} ELSE F
  IN IF "isRestarting" \notin F THEN F \ {"seenProgress"}
     ELSE IF "seenProgress" \in G /\ NodeRunning(e, i) /\ State(e, i) \in Settled
       THEN G \ {"isRestarting", "seenProgress"} ELSE G

AutoUnlock(F, e, i) ==
  IF /\ "autoUnlockPending" \in F
     /\ F \cap {"isRestarting", "walletUnlocked"} = {}
     /\ State(e, i) = "locked" /\ NodeRunning(e, i)
    THEN (F \ {"autoUnlockPending"}) \cup {"sheet"} ELSE F

InBootLimbo(F, e, i) ==
  /\ NodeRunning(e, i) /\ State(e, i) = "starting"
  /\ F \cap {"isRestarting", "userStopped", "stopping", "locking"} = {}

LeaveLimbo(F, e, i) == IF InBootLimbo(F, e, i) THEN F ELSE F \ {"stalled"}

CloseSheet(F, e, i) ==
  IF State(e, i) # "locked" /\ "locking" \notin F THEN F \ {"sheet"} ELSE F

NodeEffects(F, e, i) ==
  LET F1 == EndLocking(F, e, i)
      F2 == TrackRestart(F1, e, i)
      F3 == AutoUnlock(F2, e, i)
      F4 == LeaveLimbo(F3, e, i)
  IN CloseSheet(F4, e, i)

\* The daemon is known not to run, and nothing in flight explains it.
GoesHome(F, e, i) ==
  /\ ~NodeRunning(e, i) /\ i # Unknown
  /\ F \cap {"locking", "isRestarting", "stopping"} = {}

\* Main ends the stopping overlay when it sees the daemon down.
MainEffects(F, e) ==
  IF {"overlay", "userStopped"} \subseteq F /\ e \in Down THEN F \ {"overlay"} ELSE F

\* A page that is left loses its component state.
Kept(F, r) ==
  (F \ (IF r # "node" THEN NodeFlags ELSE {}))
     \ (IF r # "main" THEN {"autoStarting"} ELSE {})

\* nodeLoader: /node opens during a restart, or when the backend has a service.
Loaded(F) == IF "isRestarting" \in F \/ node # NoService THEN "node" ELSE "main"

\* Page r is shown with flags F, event e and info i: Main goes on to /node when it
\* mounts with, or learns of, a running node; then the effects of the page run.
Show(r, F, e, i) ==
  LET r1 == IF r = "main" /\ Running(i) /\ (route # "main" \/ ~Running(info))
              THEN Loaded(F) ELSE r
      K  == Kept(Kept(F, r), r1)
      F1 == IF r1 = "node" THEN NodeEffects(K, e, i) ELSE K
      r2 == IF r1 = "node" /\ GoesHome(F1, e, i) THEN "main" ELSE r1
      F2 == Kept(F1, r2)
  IN /\ route' = r2 /\ event' = e /\ info' = i
     /\ on' = IF r2 = "main" THEN MainEffects(F2, e) ELSE F2

\* The flags change and nothing else the page shows.
SetFlags(F) == Show(route, F, event, info)

-----------------------------------------------------------------------------
(* Backend: the daemon, the event stream and the answers of the API *)

\* What the daemon may do by itself; a crash with an error is held until a retry.
Follows(u) ==
  CASE u = "starting" -> {"noWallet", "locked", "down", "corrupt"}
    [] u = "syncing"  -> {"ready", "down", "corrupt"}
    [] u = "down"     -> {"starting"}
    [] u \in {"noWallet", "locked", "ready"} -> Down
    [] OTHER          -> {}

\* An update reaches the page later, or with all before it not at all: the stream is down.
Send(u) ==
  \/ Len(pipe) < MaxPipe /\ pipe' = Append(pipe, u)
  \/ event = NoEvent /\ pipe' = <<>>

Daemon ==
  /\ node # NoService
  /\ \E u \in Follows(node) : node' = u /\ Send(u)
  /\ UNCHANGED <<call, page>>

\* Mutant: the stream opens without a service.
Connect_Unattached ==
  /\ event = NoEvent /\ pipe = <<>> /\ pipe' = <<node>>
  /\ UNCHANGED <<node, call, page>>

\* A new stream begins with the last update of the service.
Connect ==
  /\ event = NoEvent /\ pipe = <<>> /\ node # NoService
  /\ pipe' = <<node>>
  /\ UNCHANGED <<node, call, page>>

\* onerror: the event is dropped.
Disconnect ==
  /\ event # NoEvent /\ pipe' = <<>>
  /\ UNCHANGED <<node, call>>
  /\ Show(route, on, NoEvent, info)

\* Mutant: a new event does not end the retry spinner.
Receive_KeepsRetrying ==
  /\ pipe # <<>> /\ pipe' = Tail(pipe)
  /\ UNCHANGED <<node, call>>
  /\ Show(route, on, Head(pipe), info)

\* onmessage, and Node's effect on a new event: any event ends the retry spinner.
Receive ==
  /\ pipe # <<>> /\ pipe' = Tail(pipe)
  /\ UNCHANGED <<node, call>>
  /\ Show(route, on \ {"retrying", "recovering"}, Head(pipe), info)

\* useInfo: revalidated after some events and calls, on a new page, on a focus of the
\* window; an answer always comes for the first request only.
Revalidate ==
  /\ info # node
  /\ UNCHANGED <<backend, call>>
  /\ Show(route, on, event, node)

\* After a change of the password the handler unlocks the wallet; that this may fail is
\* not told to the page.
UnlockedAgain == (node' = "syncing" /\ Send("syncing")) \/ UNCHANGED backend

\* What a handler that succeeds makes of the service; the others fail as they find it.
Succeeds(c) ==
  CASE c \in {"stop", "home"} ->
         /\ node' = NoService
         /\ IF node = NoService THEN UNCHANGED pipe ELSE Send("down")
    [] c \in {"lock", "restart", "recover", "apply"} ->
         node # NoService /\ node' = "starting" /\ Send("starting")
    [] c = "unlock" -> node = "locked" /\ node' = "syncing" /\ Send("syncing")
    [] c = "start"  -> node' = "starting" /\ Send("starting")
    [] c = "rekey"  -> node = "locked" /\ UnlockedAgain

Serve(c) ==
  /\ call[c] \in {"sent", "waiting"}
  /\ \/ Succeeds(c) /\ call' = [call EXCEPT ![c] = "ok"]
     \/ UNCHANGED backend /\ call' = [call EXCEPT ![c] = "failed"]
  /\ UNCHANGED page

\* handleChangePassword restarts an unlocked node, and waits 20 s for it to be locked.
RekeyRestarts ==
  /\ call["rekey"] = "sent" /\ node \in {"syncing", "ready"}
  /\ node' = "starting" /\ Send("starting")
  /\ call' = [call EXCEPT !["rekey"] = "waiting"]
  /\ UNCHANGED page

-----------------------------------------------------------------------------
(* The continuations of the page after its calls *)

Returned(c) ==
  /\ call[c] \in {"ok", "failed"}
  /\ call' = [call EXCEPT ![c] = "idle"]
  /\ UNCHANGED backend
Ok(c) == call[c] = "ok"

StopReturns ==
  /\ Returned("stop")
  /\ IF Ok("stop") THEN Show("main", on, event, info)
       ELSE SetFlags(on \ {"stopping", "userStopped", "overlay"})

\* Whether the stop succeeded or not.
GoHomeReturns == Returned("home") /\ Show("main", on, event, info)

LockReturns ==
  /\ Returned("lock")
  /\ SetFlags(on \ {"locking"})

UnlockReturns ==
  /\ Returned("unlock")
  /\ IF Ok("unlock")
       THEN SetFlags((on \ {"unlocking", "sheet"}) \cup {"walletUnlocked"})
       ELSE SetFlags(on \ {"unlocking"})

RestartReturns ==
  /\ Returned("restart")
  /\ SetFlags(on \ (IF Ok("restart") THEN {} ELSE {"retrying"}))

RecoverReturns ==
  /\ Returned("recover")
  /\ SetFlags(on \ (IF Ok("recover") THEN {} ELSE {"recovering"}))

\* Mutant: the cached info is left for the revalidation to correct.
StartReturns_NotOptimistic ==
  /\ Returned("start")
  /\ IF Ok("start")
       THEN Show(Loaded(on), on, event, info)
       ELSE SetFlags(on \ {"autoStarting", "autoUnlockPending"})

\* performStart after the start: info is set optimistically and revalidated.
StartReturns ==
  /\ Returned("start")
  /\ IF Ok("start")
       THEN Show(Loaded(on), on, event, "starting")
       ELSE SetFlags(on \ {"autoStarting", "autoUnlockPending"})

ApplyReturns ==
  /\ Returned("apply")
  /\ SetFlags(on \ (IF Ok("apply") THEN {} ELSE {"isRestarting"}))

\* Security: /node opens, and in either case the overlay ends.  The 2.5 s for which it
\* stays up only keep the user from acting.
RekeyReturns ==
  /\ Returned("rekey")
  /\ IF Ok("rekey") THEN Show(Loaded(on), on \ {"overlay"}, event, info)
       ELSE SetFlags(on \ {"overlay"})

Continue ==
  \/ StopReturns \/ GoHomeReturns \/ LockReturns \/ UnlockReturns
  \/ RestartReturns \/ RecoverReturns \/ StartReturns \/ ApplyReturns
  \/ RekeyReturns

-----------------------------------------------------------------------------
(* The user.  An overlay hides every control; without info Node is a skeleton. *)

NodeShown == route = "node" /\ info # Unknown /\ "overlay" \notin on
Now == Phase(on, event, info)

\* Bound: one call in flight, and one stop.
InFlight == {c \in Calls : call[c] # "idle"}
Issue(c) ==
  /\ InFlight = {} \/ (c = "stop" /\ call["stop"] = "idle")
  /\ call' = [call EXCEPT ![c] = "sent"]
  /\ UNCHANGED backend

Click(c, F) == Issue(c) /\ SetFlags(F)

\* The escape hatch below the screen of a node that starts or is locked.
EscapeHatch ==
  "isRestarting" \notin on /\ (Now = "syncing" \/ State(event, info) = "locked")

CanStop ==
  /\ NodeShown /\ on \cap {"stopping", "locking"} = {}
  /\ IsActive(on, event, info) \/ EscapeHatch

CanLock ==
  NodeShown /\ IsActive(on, event, info) /\ on \cap {"stopping", "locking"} = {}

\* The round button: one action per phase in which it is enabled.
Button ==
  IF ~NodeShown \/ IsActive(on, event, info) \/ Loading(on, event, info) THEN "none"
  ELSE IF State(event, info) = "locked" THEN "sheet"
  ELSE IF IsDown(on, event, info) THEN
    IF Corrupted(event, info) THEN "recover" ELSE "restart"
  ELSE IF State(event, info) = "noWallet" THEN "home" ELSE "none"

Stop ==
  /\ CanStop
  /\ Click("stop", (on \cup {"stopping", "userStopped", "overlay"}) \ {"walletUnlocked"})

Lock ==
  CanLock /\ Click("lock", (on \cup {"locking"}) \ {"walletUnlocked", "sheet"})

GoHome ==
  Button = "home" /\ Click("home", (on \cup {"userStopped"}) \ {"walletUnlocked"})

\* handleRestart and handleRecover return at once when their guard fails.
RestartActs == State(event, info) = "down" \/ "stalled" \in on
RecoverActs == State(event, info) = "down"

Restart ==
  /\ Button = "restart" /\ RestartActs
  /\ Click("restart", (on \cup {"retrying"}) \ {"stalled"})

Recover ==
  /\ Button = "recover" /\ RecoverActs
  /\ Click("recover", on \cup {"recovering"})

OpenSheet ==
  /\ Button = "sheet" /\ "sheet" \notin on
  /\ UNCHANGED <<backend, call>>
  /\ SetFlags(on \cup {"sheet"})

\* Escape closes the sheet even while the unlock is in flight.
CloseTheSheet ==
  /\ NodeShown /\ "sheet" \in on
  /\ UNCHANGED <<backend, call>>
  /\ SetFlags(on \ {"sheet"})

Unlock ==
  /\ NodeShown /\ ~IsActive(on, event, info)
  /\ "sheet" \in on /\ "unlocking" \notin on
  /\ Click("unlock", on \cup {"unlocking"})

\* performStart: a stale event must not be taken for the new daemon's.
PowerOn ==
  /\ route = "main" /\ on \cap {"overlay", "autoStarting"} = {}
  /\ Issue("start")
  /\ Show("main", (on \ {"userStopped"}) \cup {"autoStarting", "autoUnlockPending"},
          NoEvent, info)

\* Bound: the user waits for the answers before leaving a page.
Navigate(r) ==
  /\ "overlay" \notin on /\ route # r /\ InFlight = {}
  /\ UNCHANGED <<backend, call>>
  /\ Show(r, on, event, info)

\* The header's logo and settings button, and the back arrow of the settings.
OpenSettings == Running(info) /\ Navigate("settings")
LeaveSettings ==
  \/ Navigate(IF Running(info) THEN Loaded(on) ELSE "main")
  \/ route = "settings" /\ \E r \in {"main", Loaded(on)} : Navigate(r)

\* Network.handleApplyAndRestart, once the configuration has been saved.
ApplyAndRestart ==
  /\ route = "settings" /\ info \in {"ready", "syncing", "locked"}
  /\ call["apply"] = "idle" /\ call' = [call EXCEPT !["apply"] = "sent"]
  /\ Show("node", on \cup {"autoUnlockPending", "isRestarting"}, event, info)
  /\ UNCHANGED backend

\* Security.handleChangePassword; its button asks nothing about the node.
ChangePassword ==
  /\ route = "settings" /\ "overlay" \notin on
  /\ Click("rekey", on \cup {"overlay"})

User ==
  \/ Stop \/ Lock \/ GoHome \/ Restart \/ Recover
  \/ OpenSheet \/ CloseTheSheet \/ Unlock
  \/ PowerOn \/ OpenSettings \/ LeaveSettings \/ ApplyAndRestart
  \/ ChangePassword

-----------------------------------------------------------------------------
(* Timers: they may fire at any moment while they run *)

Timer(guard, F) == guard /\ UNCHANGED <<backend, call>> /\ SetFlags(F)

\* Mutant: the safety net of a restart waits for its first sign of progress.
RestartTimeout_AfterProgress ==
  Timer(route = "node" /\ {"isRestarting", "seenProgress"} \subseteq on,
        on \ {"isRestarting"})

LockTimeout == Timer(route = "node" /\ "locking" \in on, on \ {"locking"})
RestartTimeout ==
  Timer(route = "node" /\ "isRestarting" \in on, on \ {"isRestarting"})
StallTimeout ==
  Timer(route = "node" /\ InBootLimbo(on, event, info) /\ "stalled" \notin on,
        on \cup {"stalled"})
OverlayTimeout ==
  Timer(route = "main" /\ {"overlay", "userStopped"} \subseteq on, on \ {"overlay"})
StartTimeout == Timer(route = "main" /\ "autoStarting" \in on, on \ {"autoStarting"})

Timers ==
  \/ LockTimeout \/ RestartTimeout \/ StallTimeout \/ OverlayTimeout \/ StartTimeout

-----------------------------------------------------------------------------
Next ==
  \/ Daemon \/ Connect \/ Disconnect \/ Receive \/ Revalidate
  \/ \E c \in Calls : Serve(c)
  \/ RekeyRestarts \/ Continue \/ User \/ Timers

Spec == Init /\ [][Next]_vars

(* Fairness.  The API is a local server: it answers, and the page goes on.  *)
(* The browser reconnects the stream and delivers, SWR retries its first    *)
(* request, timers fire.  The daemon and the user owe nothing, nor do later *)
(* revalidations.                                                           *)
LiveSpec ==
  /\ Spec
  /\ \A c \in Calls : WF_vars(Serve(c))
  /\ WF_vars(Continue) /\ WF_vars(Connect) /\ SF_vars(Receive)
  /\ WF_vars(info = Unknown /\ Revalidate)
  /\ WF_vars(LockTimeout) /\ WF_vars(RestartTimeout) /\ WF_vars(StallTimeout)
  /\ WF_vars(OverlayTimeout) /\ WF_vars(StartTimeout)

-----------------------------------------------------------------------------
(* Safety *)

\* A start that succeeded leads to the Node page: the "not running" cached before it does
\* not bounce the user back home.
StartLands ==
  [][call["start"] = "ok" /\ call'["start"] = "idle" /\ node # NoService
       => route' = "node"]_vars

(* Liveness, under LiveSpec *)

\* What a click on the Node page may achieve.
Controls ==
  \/ CanStop \/ CanLock \/ Button \in {"sheet", "home"}
  \/ NodeShown /\ "sheet" \in on /\ "unlocking" \notin on
  \/ Button = "restart" /\ RestartActs
  \/ Button = "recover" /\ RecoverActs
\* The error screen whose button is dead has a finding of its own, DownScreenActs.
DeadButton == Button = "recover" /\ ~RecoverActs
Trapped == "overlay" \in on \/ (route = "node" /\ ~Controls /\ ~DeadButton)

\* The user is never left for good before an overlay or a Node page that offers nothing:
\* what hides the controls (stopping, locking, restarting, unlocking) always ends.
NoTrap == Trapped ~> ~Trapped

\* A boot that hangs, whoever started it, ends on the error screen with its Retry
\* (Node.test.tsx, "eventually escalates to the Retry screen").
InLimbo == route = "node" /\ InBootLimbo(on, event, info)
StallEscalates == InLimbo ~> (~InLimbo \/ Now = "down")

\* A daemon that is down, and of which nothing is asked any more, is shown as down,
\* unless the user stopped it: no spinner, restart or stale answer hides it for good.
Crashed ==
  route = "node" /\ node \in Down /\ "userStopped" \notin on /\ InFlight = {}
DownShown == Crashed ~> (~Crashed \/ Now = "down")

-----------------------------------------------------------------------------
(* Statements of the repository that the code does not keep *)

\* Node.tsx: a down that reaches the page unbidden "must surface with a Retry button
\* rather than falling through to a locked, actionless" screen.  The button of the error
\* screen does something.
DownScreenActs ==
  NodeShown /\ Now = "down" /\ Button \in {"restart", "recover"} =>
    \/ Button = "restart" /\ RestartActs
    \/ Button = "recover" /\ RecoverActs

\* nodeSession.ts: when the flag is set "/node should pop the unlock sheet automatically
\* as soon as the daemon reports `locked`".
UnlockOffered ==
  NodeShown /\ Now = "locked" => "autoUnlockPending" \notin on
=============================================================================
