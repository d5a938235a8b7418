---------------------------- MODULE LaunchProofs -----------------------------
(* Proofs about Launch: for any directories and any number of starts in flight. *)
EXTENDS Launch, TLAPS

Stores == [dir : Keys, key : Keys]
Infos == [run : BOOLEAN, key : Keys]
Rows == [Dirs -> Keys \cup {NoRow}]
FlowStates == [at : Points, dir : Keys, key : Keys]

-----------------------------------------------------------------------------
(* What the handlers of the table and the store return *)

\* The rows and the keys of the last node stay what they are.
LEMMA SaveConfigType ==
  ASSUME row \in Rows, lastKey \in Keys, NEW d \in Keys, NEW k \in Keys, SaveConfig(d, k)
  PROVE  row' \in Rows /\ lastKey' \in Keys /\ lastDir' \in Keys
<1>1. ASSUME NEW x \in Dirs PROVE KeyOf(x) \in Keys
  BY DEF KeyOf, Keys, Rows
<1> QED BY <1>1 DEF SaveConfig, Rows, Keys

LEMMA SaveIdentityType ==
  ASSUME row \in Rows, lastKey \in Keys, lastDir \in Keys, NEW d, NEW k \in Keys,
         SaveIdentity(d, k)
  PROVE  row' \in Rows /\ lastKey' \in Keys /\ lastDir' \in Keys
<1>1. d \in Dirs => KeyOf(d) \in Keys
  BY DEF KeyOf, Keys, Rows
<1>2. CASE UNCHANGED table
  BY <1>2 DEF table
<1>3. CASE row' = [row EXCEPT ![d] = IF k = None THEN KeyOf(d) ELSE k]
  BY <1>1, <1>3 DEF SaveIdentity, Rows, table
<1> QED BY <1>2, <1>3 DEF SaveIdentity

LEMMA ConfigKeyType ==
  ASSUME row \in Rows, service \in Keys, NEW d \in Dirs
  PROVE  ConfigKey(d) \in Keys
  BY DEF ConfigKey, Known, Rows, Keys

LEMMA LastNodeType ==
  ASSUME row \in Rows, NEW d \in LastNode
  PROVE  d \in Dirs /\ row[d] \in Keys
  BY DEF LastNode, Known, Rows, Keys

LEMMA ShowType ==
  ASSUME sent \in Stores, NEW s \in Stores, NEW i \in Infos, Show(s, i)
  PROVE  info' \in Infos /\ store' \in Stores /\ sent' \in Stores
<1>1. i.key \in Keys /\ s.dir \in Keys /\ s.key \in Keys
  BY DEF Infos, Stores
<1>2. [s EXCEPT !.key = i.key] \in Stores /\ [dir |-> s.dir, key |-> i.key] \in Stores
  BY <1>1 DEF Stores
<1> QED BY <1>2 DEF Show

\* A cached info that is marked running.
LEMMA MarkedRunning ==
  ASSUME NEW i \in Infos
  PROVE  [i EXCEPT !.run = TRUE] \in Infos
<1> DEFINE yes == TRUE
<1>1. yes \in BOOLEAN
  OBVIOUS
<1>2. [i EXCEPT !.run = yes] \in Infos
  <2> HIDE DEF yes
  <2> QED BY <1>1 DEF Infos
<1> QED BY <1>2

-----------------------------------------------------------------------------
(* Types *)

\* A start in flight is of a directory, one that is about to run has validated it, and
\* what runs has data.
FlowInv ==
  \A f \in Flows :
    /\ InFlight(f) => flow[f].dir \in Dirs
    /\ flow[f].at \in {"start", "newStart"} => cfg \in Dirs
Typed == TypeOK /\ FlowInv /\ service \in made \cup {None}

\* What every step but those that name it keeps.
TableOK == row \in Rows /\ lastKey \in Keys /\ lastDir \in Keys
BackendOK ==
  /\ cfg \in Keys /\ ready \in BOOLEAN /\ made \subseteq Dirs /\ wallets \subseteq made
  /\ service \in made \cup {None} /\ left \in BOOLEAN
ShownOK ==
  /\ page \in {"main", "node", "onboard"} /\ store \in Stores /\ info \in Infos
  /\ sent \in Stores
MainOK == sheet \in Rows /\ asking \in BOOLEAN /\ starting \in BOOLEAN
FlowOK == flow \in [Flows -> FlowStates] /\ FlowInv

LEMMA Parts ==
  Typed <=> TableOK /\ BackendOK /\ ShownOK /\ MainOK /\ FlowOK /\ hurried \in BOOLEAN
  BY DEF Typed, TypeOK, TableOK, BackendOK, ShownOK, MainOK, FlowOK, Stores, Infos, Rows,
         FlowStates, Keys

LEMMA Assembled ==
  ASSUME TableOK', BackendOK', ShownOK', MainOK', FlowOK', hurried' \in BOOLEAN
  PROVE  Typed'
  BY DEF Typed, TypeOK, TableOK, BackendOK, ShownOK, MainOK, FlowOK, Stores, Infos, Rows,
         FlowStates, Keys

LEMMA InitTyped == Init => Typed
<1> SUFFICES ASSUME Init PROVE Typed
  OBVIOUS
<1> USE LaunchAssumption
<1>1. TableOK
  BY DEF Init, TableOK, Closed, Rows, Keys
<1>2. BackendOK
  BY DEF Init, BackendOK, Keys
<1>3. ShownOK
  BY DEF Init, ShownOK, NoInfo, NoPatch, Stores, Infos, Keys
<1>4. MainOK
  BY DEF Init, MainOK, Closed, Rows, Keys
<1>5. FlowOK
  BY DEF Init, FlowOK, FlowInv, InFlight, Idle, FlowStates, Points, Keys
<1> QED BY <1>1, <1>2, <1>3, <1>4, <1>5, Parts DEF Init

\* The flows: one begins, moves on or ends.
LEMMA BeginType ==
  ASSUME FlowOK, NEW f \in Flows, NEW at \in Points \ {"start", "newStart"}, NEW d \in Dirs,
         NEW k \in Keys, flow' = [flow EXCEPT ![f] = [at |-> at, dir |-> d, key |-> k]],
         UNCHANGED cfg
  PROVE  FlowOK'
  BY DEF FlowOK, FlowInv, FlowStates, InFlight, Keys

LEMMA GotoType ==
  ASSUME FlowOK, NEW f \in Flows, NEW at \in Points, InFlight(f), Goto(f, at),
         UNCHANGED cfg \/ cfg' \in Dirs, at \in {"start", "newStart"} => cfg' \in Dirs
  PROVE  FlowOK'
<1>1. flow[f] \in FlowStates
  BY DEF FlowOK
<1>2. flow' = [flow EXCEPT ![f] = [at |-> at, dir |-> flow[f].dir, key |-> flow[f].key]]
  <2>1. [flow[f] EXCEPT !.at = at] = [at |-> at, dir |-> flow[f].dir, key |-> flow[f].key]
    BY <1>1 DEF FlowStates
  <2> QED BY <2>1 DEF Goto
<1>3. flow[f].dir \in Dirs /\ flow[f].key \in Keys
  BY <1>1 DEF FlowOK, FlowInv, FlowStates
<1> QED BY <1>2, <1>3 DEF FlowOK, FlowInv, FlowStates, InFlight, Keys

LEMMA EndType ==
  ASSUME FlowOK, NEW f \in Flows, End(f), UNCHANGED cfg \/ cfg' \in Dirs
  PROVE  FlowOK'
<1>1. Done \in FlowStates /\ Done.at = "done"
  BY DEF Done, FlowStates, Points, Keys
<1> QED BY <1>1 DEF End, FlowOK, FlowInv, InFlight

\* What the backend does for a request of a start: what runs was validated, and is a
\* directory.
LEMMA ServedType ==
  ASSUME Typed, NEW f \in Flows, InFlight(f), Served(f)
  PROVE  TableOK' /\ BackendOK' /\ (UNCHANGED cfg \/ cfg' \in Dirs)
<1> USE LaunchAssumption
<1>0. TableOK /\ BackendOK /\ FlowOK
  BY Parts
<1>1. flow[f].dir \in Dirs /\ flow[f].dir \in Keys /\ flow[f].key \in Keys /\ None \in Keys
  BY <1>0 DEF FlowOK, FlowInv, FlowStates, Keys
<1>2. CASE UNCHANGED table
  <2>1. TableOK'
    BY <1>0, <1>2 DEF TableOK, table
  <2>2. CASE cfg' = flow[f].dir /\ UNCHANGED <<service, ready, made, wallets, left>>
    BY <1>0, <1>1, <2>1, <2>2 DEF BackendOK
  <2>3. CASE flow[f].at \in {"start", "newStart"} /\ Run
    <3>1. cfg \in Dirs
      BY <1>0, <2>3 DEF FlowOK, FlowInv
    <3> QED BY <1>0, <2>1, <2>3, <3>1 DEF BackendOK, Run
  <2>4. CASE MakeWallet
    BY <1>0, <2>1, <2>4 DEF BackendOK, MakeWallet
  <2>5. CASE UNCHANGED backend
    BY <1>0, <2>1, <2>5 DEF BackendOK, backend
  <2> QED BY <1>2, <2>2, <2>3, <2>4, <2>5 DEF Served
<1>3. CASE \E k \in Keys : SaveConfig(flow[f].dir, k) /\ UNCHANGED backend
  <2>1. TableOK'
    BY <1>0, <1>1, <1>3, SaveConfigType DEF TableOK
  <2>2. BackendOK' /\ UNCHANGED cfg
    BY <1>0, <1>3 DEF BackendOK, backend
  <2> QED BY <2>1, <2>2
<1> QED BY <1>1, <1>2, <1>3 DEF Served

\* A page that Main's mount leads to.
LEMMA MountType ==
  ASSUME Mount
  PROVE  page' \in {"main", "node"} /\ MainOK'
  BY DEF Mount, MainOK, Closed, Rows

\* What a step leaves alone.
LEMMA Frames ==
  ASSUME Typed
  PROVE  /\ UNCHANGED table => TableOK'
         /\ UNCHANGED backend => BackendOK'
         /\ UNCHANGED shown => ShownOK'
         /\ UNCHANGED main => MainOK'
         /\ UNCHANGED <<flow, cfg>> => FlowOK'
  BY Parts DEF TableOK, BackendOK, ShownOK, MainOK, FlowOK, FlowInv, InFlight, table, backend,
               shown, main

\* What the user does on Main.
LEMMA ChoiceTyped == Typed /\ Choice => Typed'
<1> SUFFICES ASSUME Typed, Choice PROVE Typed'
  OBVIOUS
<1> USE LaunchAssumption
<1>0. TableOK /\ BackendOK /\ ShownOK /\ MainOK /\ FlowOK /\ hurried \in BOOLEAN
  BY Parts
<1>1. hurried' \in BOOLEAN
  BY <1>0 DEF Choice, OnMain, OpenExisting, SaveAlias, OpenOnboard, RemoveNode, StartNode,
              SwitchNode, ChooseNodeDir
<1>2. CASE OpenExisting
  <2>1. MainOK'
    BY <1>0, <1>2 DEF OpenExisting, MainOK, TableOK
  <2> QED BY <1>1, <1>2, <2>1, Frames, Assembled DEF OpenExisting, backend
<1>3. CASE SaveAlias
  <2>1. TableOK'
    BY <1>0, <1>3, SaveIdentityType DEF SaveAlias, TableOK, Keys
  <2> QED BY <1>1, <1>3, <2>1, Frames, Assembled DEF SaveAlias, backend
<1>4. CASE OpenOnboard
  <2> DEFINE dir == IF DefaultDir \in made THEN None ELSE DefaultDir
  <2>1. [store EXCEPT !.dir = dir] \in Stores
    BY <1>0 DEF ShownOK, Stores, Keys
  <2>2. Show([store EXCEPT !.dir = dir], info) /\ page' = "onboard"
    BY <1>4 DEF OpenOnboard
  <2> HIDE DEF dir
  <2>3. ShownOK'
    BY <1>0, <2>1, <2>2, ShowType DEF ShownOK
  <2> QED BY <1>1, <1>4, <2>3, Frames, Assembled DEF OpenOnboard, backend
<1>5. ASSUME NEW d \in Dirs, RemoveNode(d) PROVE Typed'
  <2>1. TableOK' /\ MainOK'
    BY <1>0, <1>5 DEF RemoveNode, TableOK, MainOK, Rows
  <2> QED BY <1>1, <1>5, <2>1, Frames, Assembled DEF RemoveNode, backend
<1>6. ASSUME NEW f \in Flows, StartNode(f) PROVE Typed'
  <2>1. store.dir \in Dirs /\ store.dir \in Keys
    BY <1>0, <1>6 DEF StartNode, PowerShown, BackendOK, ShownOK, Stores, Keys
  <2>2. FlowOK'
    BY <1>0, <1>6, <2>1, BeginType DEF StartNode, Begin, Points, Keys, backend
  <2>3. MainOK'
    BY <1>0, <1>6 DEF StartNode, MainOK
  <2> QED BY <1>1, <1>6, <2>2, <2>3, Frames, Assembled DEF StartNode
<1>7. ASSUME NEW f \in Flows, NEW d \in Dirs, SwitchNode(f, d) PROVE Typed'
  <2>1. sheet[d] \in Keys
    BY <1>0, <1>7 DEF SwitchNode, MainOK, Rows
  <2>2. FlowOK'
    BY <1>0, <1>7, <2>1, BeginType DEF SwitchNode, Begin, Points, backend
  <2>3. MainOK'
    BY <1>0, <1>7 DEF SwitchNode, MainOK, Closed, Rows
  <2>4. [dir |-> d, key |-> sheet[d]] \in Stores
    BY <2>1 DEF Stores, Keys
  <2>5. ShownOK'
    BY <1>0, <1>7, <2>4, ShowType DEF SwitchNode, ShownOK
  <2> QED BY <1>1, <1>7, <2>2, <2>3, <2>5, Frames, Assembled DEF SwitchNode
<1>8. ASSUME NEW f \in Flows, NEW d \in Dirs, ChooseNodeDir(f, d) PROVE Typed'
  <2>1. FlowOK'
    BY <1>0, <1>8, BeginType DEF ChooseNodeDir, Begin, Points, Keys, backend
  <2>2. MainOK'
    BY <1>0, <1>8 DEF ChooseNodeDir, MainOK, Closed, Rows
  <2> QED BY <1>1, <1>8, <2>1, <2>2, Frames, Assembled DEF ChooseNodeDir
<1> QED BY <1>2, <1>3, <1>4, <1>5, <1>6, <1>7, <1>8 DEF Choice

\* The steps of a start of a known node.
LEMMA StepTyped ==
  ASSUME Typed, NEW f \in Flows, Step(f), UNCHANGED hurried
  PROVE  Typed'
<1> USE LaunchAssumption
<1>0. TableOK /\ BackendOK /\ ShownOK /\ MainOK /\ FlowOK /\ hurried' \in BOOLEAN
  BY Parts
<1>a. InFlight(f)
  BY DEF Step, Fail, CheckDir, Save, List, Verify, Start, At, InFlight
<1>b. flow[f].dir \in Dirs
  BY <1>0, <1>a DEF FlowOK, FlowInv
<1>1. CASE Fail(f)
  <2>1. TableOK' /\ BackendOK' /\ (UNCHANGED cfg \/ cfg' \in Dirs)
    <3>1. CASE Served(f)
      BY <1>a, <3>1, ServedType
    <3>2. CASE UNCHANGED <<table, backend>>
      BY <3>2, Frames DEF backend
    <3> QED BY <1>1, <3>1, <3>2 DEF Fail
  <2>2. FlowOK' /\ MainOK'
    BY <1>0, <1>1, <2>1, EndType DEF Fail, MainOK
  <2> QED BY <1>0, <1>1, <2>1, <2>2, Frames, Assembled DEF Fail
<1>2. CASE CheckDir(f)
  <2> DEFINE d == flow[f].dir
             k == ConfigKey(d)
  <2>1. d \in Dirs /\ k \in Keys
    BY <1>0, <1>b, ConfigKeyType DEF TableOK, BackendOK, Keys
  <2>2. /\ flow' = [flow EXCEPT ![f] = [at |-> "save", dir |-> d, key |-> k]]
        /\ Show([dir |-> d, key |-> k], info) /\ UNCHANGED <<table, backend, page, main>>
    BY <1>2 DEF CheckDir
  <2> HIDE DEF d, k
  <2>3. FlowOK'
    BY <1>0, <2>1, <2>2, BeginType DEF Points, backend
  <2>4. [dir |-> d, key |-> k] \in Stores
    BY <2>1 DEF Stores, Keys
  <2>5. ShownOK'
    BY <1>0, <2>2, <2>4, ShowType DEF ShownOK
  <2> QED BY <1>0, <2>2, <2>3, <2>5, Frames, Assembled
<1>3. CASE Save(f)
  <2>1. TableOK' /\ BackendOK' /\ (UNCHANGED cfg \/ cfg' \in Dirs)
    BY <1>3, <1>a, ServedType DEF Save
  <2>2. FlowOK'
    BY <1>0, <1>3, <1>a, <2>1, GotoType DEF Save, Points
  <2> QED BY <1>0, <1>3, <2>1, <2>2, Frames, Assembled DEF Save
<1>4. CASE List(f)
  <2>1. FlowOK' /\ MainOK'
    BY <1>0, <1>4, <1>a, GotoType DEF List, Points, MainOK, backend
  <2> QED BY <1>0, <1>4, <2>1, Frames, Assembled DEF List
<1>5. CASE Verify(f, "verify", "start")
  <2>1. TableOK' /\ BackendOK' /\ cfg' \in Dirs
    BY <1>5, <1>a, <1>b, ServedType DEF Verify, Served, At
  <2>2. FlowOK'
    BY <1>0, <1>5, <1>a, <2>1, GotoType DEF Verify, Points
  <2> QED BY <1>0, <1>5, <2>1, <2>2, Frames, Assembled DEF Verify
<1>6. CASE Start(f)
  <2>1. TableOK' /\ BackendOK' /\ (UNCHANGED cfg \/ cfg' \in Dirs)
    BY <1>6, <1>a, ServedType DEF Start
  <2>2. FlowOK'
    BY <1>0, <1>6, <2>1, EndType DEF Start
  <2>3. ShownOK'
    BY <1>0, <1>6, MarkedRunning, ShowType DEF Start, ShownOK
  <2>4. MainOK'
    BY <1>0, <1>6 DEF Start, MainOK
  <2> QED BY <1>0, <2>1, <2>2, <2>3, <2>4, Assembled
<1> QED BY <1>1, <1>2, <1>3, <1>4, <1>5, <1>6 DEF Step

\* The launch of a new node.
LEMMA NewTyped ==
  ASSUME Typed, NEW f \in Flows, LaunchNew(f) \/ NewStep(f), UNCHANGED hurried
  PROVE  Typed'
<1> USE LaunchAssumption
<1>0. TableOK /\ BackendOK /\ ShownOK /\ MainOK /\ FlowOK /\ hurried' \in BOOLEAN
  BY Parts
<1>1. CASE LaunchNew(f)
  <2>1. store.dir \in Dirs
    BY <1>0, <1>1 DEF LaunchNew, ShownOK, Stores, Keys
  <2>2. FlowOK'
    BY <1>0, <1>1, <2>1, BeginType DEF LaunchNew, Begin, Points, Keys, backend
  <2> QED BY <1>0, <1>1, <2>2, Frames, Assembled DEF LaunchNew
<1>2. CASE NewStep(f)
  <2>a. InFlight(f)
    BY <1>2 DEF NewStep, Verify, NewStart, NewInit, NewSave, At, InFlight
  <2>b. flow[f].dir \in Dirs
    BY <1>0, <2>a DEF FlowOK, FlowInv
  <2>1. CASE Verify(f, "newVerify", "newStart")
    <3>1. TableOK' /\ BackendOK' /\ cfg' \in Dirs
      BY <2>1, <2>a, <2>b, ServedType DEF Verify, Served, At
    <3>2. FlowOK'
      BY <1>0, <2>1, <2>a, <3>1, GotoType DEF Verify, Points
    <3> QED BY <1>0, <2>1, <3>1, <3>2, Frames, Assembled DEF Verify
  <2>2. CASE NewStart(f)
    <3>1. TableOK' /\ BackendOK' /\ (UNCHANGED cfg \/ cfg' \in Dirs)
      BY <2>2, <2>a, ServedType DEF NewStart
    <3>2. FlowOK'
      BY <1>0, <2>2, <2>a, <3>1, GotoType DEF NewStart, Points
    <3>3. ShownOK'
      BY <1>0, <2>2, MarkedRunning, ShowType DEF NewStart, MainLeaves, ShownOK
    <3> QED BY <1>0, <2>2, <3>1, <3>2, <3>3, Frames, Assembled DEF NewStart
  <2>3. CASE NewInit(f)
    <3>1. TableOK' /\ BackendOK' /\ (UNCHANGED cfg \/ cfg' \in Dirs)
      BY <2>3, <2>a, ServedType DEF NewInit
    <3>2. FlowOK'
      BY <1>0, <2>3, <2>a, <3>1, GotoType DEF NewInit, Points
    <3> QED BY <1>0, <2>3, <3>1, <3>2, Frames, Assembled DEF NewInit
  <2>4. CASE NewSave(f)
    <3>1. TableOK' /\ BackendOK' /\ (UNCHANGED cfg \/ cfg' \in Dirs)
      <4>1. CASE Served(f)
        BY <2>a, <4>1, ServedType
      <4>2. CASE UNCHANGED <<table, backend>>
        BY <4>2, Frames DEF backend
      <4> QED BY <2>4, <4>1, <4>2 DEF NewSave
    <3>2. FlowOK'
      BY <1>0, <2>4, <3>1, EndType DEF NewSave
    <3>3. page' \in {"main", "node"} /\ MainOK'
      BY <2>4, MountType, Frames DEF NewSave
    <3>4. ShownOK'
      BY <1>0, <2>4, <3>3 DEF NewSave, ShownOK
    <3> QED BY <1>0, <3>1, <3>2, <3>3, <3>4, Assembled
  <2> QED BY <1>2, <2>1, <2>2, <2>3, <2>4 DEF NewStep
<1> QED BY <1>1, <1>2

\* The requests of the pages, the timer, the node and the settings.
LEMMA OtherTyped == Typed /\ Other /\ UNCHANGED hurried => Typed'
<1> SUFFICES ASSUME Typed, Other, UNCHANGED hurried PROVE Typed'
  OBVIOUS
<1> USE LaunchAssumption
<1>0. TableOK /\ BackendOK /\ ShownOK /\ MainOK /\ FlowOK /\ hurried' \in BOOLEAN
  BY Parts
<1>1. CASE Identify
  <2>1. sent.key \in Keys /\ NoPatch \in Stores
    BY <1>0 DEF ShownOK, Stores, NoPatch, Keys
  <2>2. TableOK'
    <3>1. CASE UNCHANGED table
      BY <3>1, Frames
    <3>2. CASE SaveIdentity(sent.dir, sent.key)
      BY <1>0, <2>1, <3>2, SaveIdentityType DEF TableOK
    <3> QED BY <1>1, <3>1, <3>2 DEF Identify
  <2>3. ShownOK'
    BY <1>0, <1>1, <2>1 DEF Identify, ShownOK
  <2> QED BY <1>0, <1>1, <2>2, <2>3, Frames, Assembled DEF Identify, backend
<1>2. CASE Revalidate
  <2>1. Info \in Infos
    BY <1>0 DEF Info, Infos, BackendOK, Keys
  <2>2. ShownOK'
    BY <1>0, <1>2, <2>1, ShowType DEF Revalidate, MainLeaves, ShownOK
  <2> QED BY <1>0, <1>2, <2>2, Frames, Assembled DEF Revalidate, backend
<1>3. CASE FetchLastNode
  <2>1. PICK s \in Stores : Show(s, info)
    <3>1. CASE Show(DefaultStore, info)
      <4>1. DefaultStore \in Stores
        BY <1>0 DEF DefaultStore, ShownOK, Stores, Keys
      <4> QED BY <3>1, <4>1
    <3>2. ASSUME NEW d \in LastNode, Show([dir |-> d, key |-> row[d]], info)
          PROVE  \E s \in Stores : Show(s, info)
      <4>1. [dir |-> d, key |-> row[d]] \in Stores
        BY <1>0, LastNodeType DEF TableOK, Stores, Keys
      <4> QED BY <3>2, <4>1
    <3> QED BY <1>3, <3>1, <3>2 DEF FetchLastNode
  <2>2. ShownOK' /\ MainOK'
    BY <1>0, <1>3, <2>1, ShowType DEF FetchLastNode, ShownOK, MainOK
  <2> QED BY <1>0, <1>3, <2>2, Frames, Assembled DEF FetchLastNode, backend
<1>4. CASE CloseSheet \/ StartTimeout
  <2>1. MainOK'
    BY <1>0, <1>4 DEF CloseSheet, StartTimeout, MainOK, Closed, Rows
  <2> QED BY <1>0, <1>4, <2>1, Frames, Assembled DEF CloseSheet, StartTimeout, backend
<1>5. ASSUME NEW d \in Dirs, ChooseNewDir(d) PROVE Typed'
  <2>1. [store EXCEPT !.dir = d] \in Stores
    BY <1>0 DEF ShownOK, Stores, Keys
  <2>2. ShownOK'
    BY <1>0, <1>5, <2>1, ShowType DEF ChooseNewDir, ShownOK
  <2> QED BY <1>0, <1>5, <2>2, Frames, Assembled DEF ChooseNewDir, backend
<1>6. CASE WalletOpens
  <2>1. BackendOK'
    BY <1>0, <1>6 DEF WalletOpens, BackendOK
  <2> QED BY <1>0, <1>6, <2>1, Frames, Assembled DEF WalletOpens
<1>7. CASE Stop \/ LeaveNode
  <2>1. /\ UNCHANGED <<table, cfg, made, wallets, store, info, sent, flow>>
        /\ Mount \/ UNCHANGED <<page, main>>
    BY <1>7 DEF Stop, LeaveNode, backend
  <2>2. BackendOK'
    BY <1>0, <1>7 DEF Stop, LeaveNode, BackendOK, backend
  <2>3. MainOK' /\ page' \in {"main", "node", "onboard"}
    <3>1. CASE Mount
      BY <3>1, MountType
    <3>2. CASE UNCHANGED <<page, main>>
      BY <1>0, <3>2, Frames DEF ShownOK
    <3> QED BY <2>1, <3>1, <3>2
  <2>4. ShownOK'
    BY <1>0, <2>1, <2>3 DEF ShownOK
  <2> QED BY <1>0, <2>1, <2>2, <2>3, <2>4, Frames, Assembled
<1>8. CASE ApplyAndRestart
  <2>1. store.dir \in Keys /\ store.key \in Keys
    BY <1>0 DEF ShownOK, Stores
  <2>2. TableOK' /\ BackendOK'
    BY <1>0, <1>8, <2>1, SaveConfigType DEF ApplyAndRestart, TableOK, BackendOK
  <2> QED BY <1>0, <1>8, <2>2, Frames, Assembled DEF ApplyAndRestart
<1> QED BY <1>1, <1>2, <1>3, <1>4, <1>5, <1>6, <1>7, <1>8, StepTyped, NewTyped DEF Other

LEMMA TypeStep == Typed /\ [Next]_vars => Typed'
<1> SUFFICES ASSUME Typed, [Next]_vars PROVE Typed'
  OBVIOUS
<1>0. TableOK /\ BackendOK /\ ShownOK /\ MainOK /\ FlowOK /\ hurried \in BOOLEAN
  BY Parts
<1>1. CASE LeaveOnboard
  <2>1. MainOK' /\ page' \in {"main", "node"}
    BY <1>1, MountType, Frames DEF LeaveOnboard
  <2>2. ShownOK' /\ BackendOK' /\ hurried' \in BOOLEAN
    BY <1>0, <1>1, <2>1 DEF LeaveOnboard, ShownOK, BackendOK
  <2> QED BY <1>1, <2>1, <2>2, Frames, Assembled DEF LeaveOnboard
<1>2. CASE Reopen
  <2>1. BackendOK'
    BY <1>0, <1>2 DEF Reopen, BackendOK, Keys
  <2>2. MainOK' /\ page' \in {"main", "node"}
    BY <1>2, MountType DEF Reopen
  <2>3. ShownOK'
    BY <1>0, <1>2, <2>2 DEF Reopen, ShownOK, Stores, Infos, NoInfo, NoPatch, Keys
  <2>4. FlowOK'
    <3>1. Done \in FlowStates /\ Done.at = "done"
      BY DEF Done, FlowStates, Points, Keys
    <3>2. flow' = [f \in Flows |-> IF InFlight(f) THEN Done ELSE flow[f]]
      BY <1>2 DEF Reopen
    <3>3. \A f \in Flows : flow'[f] \in FlowStates /\ flow'[f].at \in {"idle", "done"}
      BY <1>0, <3>1, <3>2 DEF FlowOK, InFlight
    <3> QED BY <3>2, <3>3 DEF FlowOK, FlowInv, InFlight
  <2> QED BY <1>2, <2>1, <2>2, <2>3, <2>4, Frames, Assembled DEF Reopen
<1>3. CASE UNCHANGED vars
  BY <1>0, <1>3, Frames, Assembled DEF vars, backend
<1> QED BY <1>1, <1>2, <1>3, ChoiceTyped, OtherTyped DEF Next

\* Every variable keeps its type: no start runs a config nobody validated, and a wallet is
\* where there is data.
THEOREM TypeCorrect == Spec => []TypeOK
<1>1. Typed => TypeOK
  BY DEF Typed
<1> QED BY <1>1, InitTyped, TypeStep, PTL DEF Spec

-----------------------------------------------------------------------------
(* The rows *)

\* The nodes table changes by a save, an identity request or a removal.
TableStep ==
  \/ UNCHANGED row
  \/ \E d \in Keys, k \in Keys : SaveConfig(d, k) \/ SaveIdentity(d, k)
  \/ \E d \in Dirs : row' = [row EXCEPT ![d] = NoRow]

LEMMA StepOfTable == Typed /\ [Next]_vars => TableStep
<1> SUFFICES ASSUME Typed, [Next]_vars PROVE TableStep
  OBVIOUS
<1>0. /\ store.dir \in Keys /\ store.key \in Keys /\ None \in Keys
      /\ sent.dir \in Keys /\ sent.key \in Keys
      /\ \A f \in Flows : flow[f].dir \in Keys /\ flow[f].key \in Keys
  BY Parts DEF ShownOK, Stores, FlowOK, FlowStates, Keys
<1>1. CASE Choice
  BY <1>0, <1>1 DEF Choice, OpenExisting, SaveAlias, OpenOnboard, RemoveNode, StartNode,
                    SwitchNode, ChooseNodeDir, TableStep, table
<1>2. ASSUME NEW f \in Flows, Step(f) PROVE TableStep
  <2>1. CASE Served(f)
    BY <1>0, <2>1 DEF Served, TableStep, table
  <2> QED BY <1>2, <2>1 DEF Step, Fail, CheckDir, Save, List, Verify, Start, TableStep, table
<1>3. ASSUME NEW f \in Flows, LaunchNew(f) \/ NewStep(f) PROVE TableStep
  <2>1. CASE Served(f)
    BY <1>0, <2>1 DEF Served, TableStep, table
  <2> QED BY <1>3, <2>1 DEF LaunchNew, NewStep, Verify, NewStart, NewInit, NewSave, TableStep, table
<1>4. CASE \/ Identify \/ Revalidate \/ FetchLastNode \/ CloseSheet \/ StartTimeout
           \/ WalletOpens \/ Stop \/ LeaveNode \/ ApplyAndRestart
           \/ (\E d \in Dirs : ChooseNewDir(d))
  BY <1>0, <1>4 DEF Identify, Revalidate, FetchLastNode, CloseSheet, StartTimeout,
       WalletOpens, Stop, LeaveNode, ApplyAndRestart, ChooseNewDir, TableStep, table
<1>5. CASE LeaveOnboard \/ Reopen \/ UNCHANGED vars
  BY <1>5 DEF LeaveOnboard, Reopen, vars, TableStep, table
<1> QED BY <1>1, <1>2, <1>3, <1>4, <1>5 DEF Next, Other

LEMMA RowStep == Typed /\ OneRowEach /\ [Next]_vars => OneRowEach'
<1> SUFFICES ASSUME Typed, OneRowEach, TableStep PROVE OneRowEach'
  BY StepOfTable
<1>0. row \in Rows
  BY Parts DEF TableOK
<1> USE LaunchAssumption DEF OneRowEach, Known, Rows, Keys
<1>1. CASE UNCHANGED row
  BY <1>1
<1>2. ASSUME NEW d \in Keys, NEW k \in Keys, SaveConfig(d, k) PROVE OneRowEach'
  BY <1>0, <1>2 DEF SaveConfig, KeyOf
<1>3. ASSUME NEW d \in Keys, NEW k \in Keys, SaveIdentity(d, k) PROVE OneRowEach'
  BY <1>0, <1>3 DEF SaveIdentity, KeyOf, table
<1>4. ASSUME NEW d \in Dirs, row' = [row EXCEPT ![d] = NoRow] PROVE OneRowEach'
  BY <1>0, <1>4
<1> QED BY <1>1, <1>2, <1>3, <1>4 DEF TableStep

\* A pubkey belongs to one row.
THEOREM OneRowHolds == Spec => []OneRowEach
<1>1. Init => OneRowEach
  BY DEF Init, OneRowEach, Known, Closed
<1> QED BY <1>1, InitTyped, TypeStep, RowStep, PTL DEF Spec

\* No save of a config or of an identity forgets a pubkey.
THEOREM KeysKept == Spec => KeepsKeys
<1> DEFINE Forgets == \E d \in Known : row[d] # None /\ d \in Known' /\ row'[d] = None
<1>1. Typed /\ [Next]_vars => ~Forgets
  <2> SUFFICES ASSUME Typed, TableStep PROVE ~Forgets
    BY StepOfTable
  <2>0. row \in Rows
    BY Parts DEF TableOK
  <2> USE LaunchAssumption DEF Known, Rows, Keys
  <2>1. CASE UNCHANGED row
    BY <2>1
  <2>2. ASSUME NEW d \in Keys, NEW k \in Keys, SaveConfig(d, k) PROVE ~Forgets
    BY <2>0, <2>2 DEF SaveConfig, KeyOf
  <2>3. ASSUME NEW d \in Keys, NEW k \in Keys, SaveIdentity(d, k) PROVE ~Forgets
    BY <2>0, <2>3 DEF SaveIdentity, KeyOf, table
  <2>4. ASSUME NEW d \in Dirs, row' = [row EXCEPT ![d] = NoRow] PROVE ~Forgets
    BY <2>0, <2>4
  <2> QED BY <2>1, <2>2, <2>3, <2>4 DEF TableStep
<1>2. Typed /\ [Next]_vars
        => [\A d \in Known : row[d] # None /\ d \in Known' => row'[d] # None]_vars
  BY <1>1
<1> QED BY <1>2, InitTyped, TypeStep, PTL DEF Spec, KeepsKeys
-----------------------------------------------------------------------------
(* A user who waits gets the node the store names *)

Home == {"check", "save", "list", "verify", "start"}
New == {"newVerify", "newStart", "newInit", "newSave"}
Idles(f) == ~InFlight(f)
OthersIdle(f) == \A g \in Flows \ {f} : Idles(g)

\* A start from Main is under way while Main shows what it was started on; one of a new
\* node while Onboard shows its directory.
FlowFits(f) ==
  /\ flow[f].at \in Home => page = "main" /\ ~asking /\ info = Info
  /\ flow[f].at \in Home \ {"check"} => flow[f].dir = store.dir
  /\ flow[f].at \in New => page = "onboard" /\ flow[f].dir = store.dir
  /\ flow[f].at \in {"start", "newStart"} => cfg = flow[f].dir
  /\ flow[f].at \in {"newInit", "newSave"} => service = flow[f].dir /\ info.run

\* Main does not stay when it knows of a running node, and the node page is not left while
\* one runs.  Outside the wizard a node with a wallet that was not left there is the one the
\* store names, and nothing is to change the store.
PageFits ==
  /\ page = "onboard" => ~asking
  /\ page = "main" /\ info.run => service = None
  /\ page = "node" /\ service # None => info.run
  /\ page # "onboard" /\ service \in wallets /\ ~left => service = store.dir /\ ~asking

Fits ==
  /\ \A f, g \in Flows : f = g \/ Idles(f) \/ Idles(g)
  /\ \A f \in Flows : FlowFits(f)
  /\ PageFits

Opened == ready => service \in wallets
Patient == Opened /\ (~hurried => Fits)

LEMMA ShowKeeps ==
  ASSUME NEW s \in Stores, NEW i, Show(s, i)
  PROVE  store'.dir = s.dir /\ info' = i
  BY DEF Show, Stores

\* A flow in flight is on its way from Main or from Onboard.
LEMMA Ways ==
  ASSUME flow \in [Flows -> FlowStates], NEW f \in Flows
  PROVE  InFlight(f) <=> flow[f].at \in Home \cup New
  BY DEF FlowStates, Points, InFlight, Home, New

\* What the invariant is about.
LEMMA FitsFrame ==
  ASSUME Fits, UNCHANGED <<backend, page, info, asking, flow>>, store'.dir = store.dir
  PROVE  Fits'
  BY DEF Fits, FlowFits, PageFits, Idles, InFlight, Info, backend

\* Flows that are idle, but for one, fit.
LEMMA AllIdle ==
  ASSUME \A f \in Flows : Idles(f)', PageFits'
  PROVE  Fits'
  BY DEF Fits, FlowFits, Idles, InFlight, Home, New

LEMMA OneBusy ==
  ASSUME NEW f \in Flows, OthersIdle(f)', FlowFits(f)', PageFits'
  PROVE  Fits'
  BY DEF OthersIdle, Fits, FlowFits, Idles, InFlight, Home, New

\* One flow begins, goes on or ends, and the idle ones stay idle.
LEMMA BeginSteps ==
  ASSUME flow \in [Flows -> FlowStates], NEW f \in Flows, NEW at, NEW d, NEW k,
         Begin(f, at, d, k)
  PROVE  /\ Idles(f) /\ flow'[f].at = at /\ flow'[f].dir = d
         /\ OthersIdle(f) => OthersIdle(f)'
  BY DEF Begin, FlowStates, Idles, InFlight, OthersIdle

LEMMA GotoSteps ==
  ASSUME flow \in [Flows -> FlowStates], NEW f \in Flows, NEW at, Goto(f, at)
  PROVE  /\ flow'[f].at = at /\ flow'[f].dir = flow[f].dir
         /\ OthersIdle(f) => OthersIdle(f)'
  BY DEF Goto, FlowStates, Idles, InFlight, OthersIdle

LEMMA EndSteps ==
  ASSUME flow \in [Flows -> FlowStates], NEW f \in Flows, End(f)
  PROVE  OthersIdle(f) => \A g \in Flows : Idles(g)'
<1>1. Done.at = "done"
  BY DEF Done
<1> QED BY <1>1 DEF End, FlowStates, Idles, InFlight, OthersIdle

\* No wallet opens but by WalletOpens, and none is closed but with its node.
Closes == ready' = FALSE \/ (UNCHANGED <<ready, service>> /\ wallets \subseteq wallets')

LEMMA StaysOpened ==
  ASSUME Opened, Closes
  PROVE  Opened'
<1>1. CASE ready' = FALSE
  BY <1>1 DEF Opened
<1>2. CASE UNCHANGED <<ready, service>> /\ wallets \subseteq wallets'
  BY <1>2 DEF Opened
<1> QED BY <1>1, <1>2 DEF Closes

LEMMA ServedCloses ==
  ASSUME NEW f \in Flows, Served(f)
  PROVE  Closes
  BY DEF Served, Run, MakeWallet, Closes, backend

LEMMA FlowCloses ==
  ASSUME NEW f \in Flows, Step(f) \/ LaunchNew(f) \/ NewStep(f)
  PROVE  Closes
<1>1. Served(f) \/ UNCHANGED backend
  BY DEF Step, Fail, CheckDir, Save, List, Verify, Start, LaunchNew, NewStep, NewStart, NewInit,
         NewSave
<1>2. UNCHANGED backend => Closes
  BY DEF Closes, backend
<1> QED BY <1>1, <1>2, ServedCloses

LEMMA InfoRuns == Info.run = (service # None)
  BY DEF Info

\* On Main: the user acts when nothing is under way, and then no node runs.
LEMMA ChoicePatient ==
  ASSUME Typed, Opened, Fits, Choice, ~hurried'
  PROVE  Fits' /\ Opened'
<1> USE LaunchAssumption
<1>0. BackendOK /\ store \in Stores /\ flow \in [Flows -> FlowStates] /\ None \notin wallets
  BY Parts DEF ShownOK, FlowOK, BackendOK
<1>1. OnMain /\ UNCHANGED backend
  BY DEF Choice, OpenExisting, SaveAlias, OpenOnboard, RemoveNode, StartNode, SwitchNode,
         ChooseNodeDir
<1>2. page = "main" /\ ~asking /\ info = Info /\ \A f \in Flows : Idles(f) /\ OthersIdle(f)
  BY <1>1 DEF OnMain, Loaded, Idles, OthersIdle
<1>3. service = None /\ UNCHANGED <<Info, service, wallets, cfg, left>>
  BY <1>1, <1>2 DEF Fits, PageFits, Info, backend
<1>4. Opened'
  BY <1>1 DEF Opened, backend
<1>5. CASE OpenExisting \/ SaveAlias \/ \E d \in Dirs : RemoveNode(d)
  BY <1>4, <1>5, FitsFrame DEF OpenExisting, SaveAlias, RemoveNode, shown, main
<1>6. CASE OpenOnboard
  <2>1. page' = "onboard" /\ UNCHANGED <<asking, flow>>
    BY <1>6 DEF OpenOnboard, main
  <2>2. PageFits' /\ \A f \in Flows : Idles(f)'
    BY <1>2, <1>3, <2>1 DEF PageFits, Idles, InFlight
  <2> QED BY <1>4, <2>2, AllIdle
<1>7. ASSUME NEW f \in Flows, StartNode(f) PROVE Fits'
  <2>1. /\ flow'[f].at = "verify" /\ flow'[f].dir = store.dir
        /\ OthersIdle(f)'
    BY <1>0, <1>2, <1>7, BeginSteps DEF StartNode
  <2>2. UNCHANGED <<page, store, info, asking>>
    BY <1>7 DEF StartNode, shown
  <2>3. FlowFits(f)' /\ PageFits'
    BY <1>0, <1>2, <1>3, <2>1, <2>2 DEF FlowFits, PageFits, Fits, Home, New
  <2> QED BY <2>1, <2>3, OneBusy
<1>8. ASSUME NEW f \in Flows, NEW d \in Dirs, SwitchNode(f, d) PROVE Fits'
  <2>1. /\ flow'[f].at = "save" /\ flow'[f].dir = d
        /\ OthersIdle(f)'
    BY <1>0, <1>2, <1>8, BeginSteps DEF SwitchNode
  <2>2. [dir |-> d, key |-> sheet[d]] \in Stores
    BY <1>8, Parts DEF SwitchNode, MainOK, Rows, Stores, Keys
  <2>3. store'.dir = d /\ UNCHANGED <<page, info, asking>>
    BY <1>8, <2>2, ShowKeeps DEF SwitchNode
  <2>4. FlowFits(f)' /\ PageFits'
    BY <1>0, <1>2, <1>3, <2>1, <2>3 DEF FlowFits, PageFits, Fits, Home, New
  <2> QED BY <2>1, <2>4, OneBusy
<1>9. ASSUME NEW f \in Flows, NEW d \in Dirs, ChooseNodeDir(f, d) PROVE Fits'
  <2>1. flow'[f].at = "check" /\ OthersIdle(f)'
    BY <1>0, <1>2, <1>9, BeginSteps DEF ChooseNodeDir
  <2>2. UNCHANGED <<page, store, info, asking>>
    BY <1>9 DEF ChooseNodeDir, shown
  <2>3. FlowFits(f)' /\ PageFits'
    BY <1>0, <1>2, <1>3, <2>1, <2>2 DEF FlowFits, PageFits, Fits, Home, New
  <2> QED BY <2>1, <2>3, OneBusy
<1> QED BY <1>4, <1>5, <1>6, <1>7, <1>8, <1>9 DEF Choice

\* A start of a known node goes on.  Until it runs no node does.
LEMMA StepPatient ==
  ASSUME Typed, Opened, Fits, NEW f \in Flows, Step(f)
  PROVE  Fits' /\ Opened'
<1> USE LaunchAssumption
<1>0. /\ BackendOK /\ store \in Stores /\ flow \in [Flows -> FlowStates] /\ None \notin wallets
      /\ InFlight(f) => flow[f].dir \in Dirs
  BY Parts DEF ShownOK, FlowOK, FlowInv, BackendOK
<1>1. flow[f].at \in Home \/ Fail(f)
  BY DEF Step, CheckDir, Save, List, Verify, Start, At, Home
<1>2. InFlight(f) /\ flow[f].dir \in Dirs
  BY <1>0, <1>1 DEF Home, InFlight, Fail
<1>3. OthersIdle(f) /\ FlowFits(f) /\ PageFits
  BY <1>2 DEF Fits, Idles, OthersIdle
<1>4. flow[f].at \in Home => page = "main" /\ ~asking /\ ~info.run /\ info = Info /\ service = None
  <2> SUFFICES ASSUME flow[f].at \in Home
               PROVE  page = "main" /\ ~asking /\ ~info.run /\ info = Info /\ service = None
    OBVIOUS
  <2>1. page = "main" /\ ~asking /\ info = Info /\ (info.run => service = None)
    BY <1>3 DEF FlowFits, PageFits
  <2>2. info.run = (service # None)
    BY <2>1, InfoRuns
  <2> QED BY <2>1, <2>2
<1>5. Opened'
  BY FlowCloses, StaysOpened
<1>6. CASE Fail(f)
  <2>1. \A g \in Flows : Idles(g)'
    BY <1>0, <1>3, <1>6, EndSteps DEF Fail
  <2>2. UNCHANGED <<page, store, info, asking>>
    BY <1>6 DEF Fail, shown
  <2>3. PageFits'
    <3>1. CASE UNCHANGED <<service, wallets, left>>
      BY <1>3, <2>2, <3>1 DEF PageFits
    <3>2. CASE At(f, "start") /\ Run
      BY <1>0, <1>3, <1>4, <2>2, <3>2 DEF At, Run, FlowFits, PageFits, Home
    <3>3. CASE At(f, "newStart") /\ Run
      BY <1>3, <2>2, <3>3 DEF At, FlowFits, PageFits, New
    <3>4. CASE At(f, "newInit") /\ MakeWallet
      BY <1>3, <2>2, <3>4 DEF At, FlowFits, PageFits, New
    <3> QED BY <1>6, <3>1, <3>2, <3>3, <3>4 DEF Fail, Served, At, backend
  <2> QED BY <1>5, <2>1, <2>3, AllIdle
<1>7. CASE CheckDir(f)
  <2> DEFINE d == flow[f].dir
             k == ConfigKey(d)
  <2>1. /\ flow[f].at = "check" /\ UNCHANGED <<backend, page, asking>>
        /\ flow' = [flow EXCEPT ![f] = [at |-> "save", dir |-> d, key |-> k]]
        /\ Show([dir |-> d, key |-> k], info)
    BY <1>7 DEF CheckDir, At, main
  <2>2. d \in Dirs /\ k \in Keys
    <3>1. d \in Dirs /\ row \in Rows /\ service \in Keys
      BY <1>0, <1>2, Parts DEF TableOK, BackendOK, Keys
    <3> QED BY <3>1, ConfigKeyType
  <2> HIDE DEF d, k
  <2>3. [dir |-> d, key |-> k] \in Stores
    BY <2>2 DEF Stores, Keys
  <2>4. store'.dir = d /\ UNCHANGED info
    BY <2>1, <2>3, ShowKeeps
  <2>5. flow'[f].at = "save" /\ flow'[f].dir = d /\ OthersIdle(f)'
    BY <1>0, <1>3, <2>1 DEF Idles, InFlight, OthersIdle, FlowStates
  <2>6. page = "main" /\ ~asking /\ ~info.run /\ info = Info /\ service = None
    BY <1>4, <2>1 DEF Home
  <2>7. UNCHANGED <<Info, service, wallets, left>>
    BY <2>1 DEF Info, backend
  <2>8. FlowFits(f)' /\ PageFits'
    BY <1>0, <2>1, <2>4, <2>5, <2>6, <2>7 DEF FlowFits, PageFits, Home, New
  <2> QED BY <1>5, <2>5, <2>8, OneBusy
<1>8. CASE Save(f) \/ List(f)
  <2>1. /\ flow[f].at \in {"save", "list"} /\ UNCHANGED <<backend, shown, asking>>
        /\ flow'[f].at \in {"list", "verify"} /\ flow'[f].dir = flow[f].dir
        /\ OthersIdle(f)'
    BY <1>0, <1>3, <1>8, GotoSteps DEF Save, List, Served, At, main
  <2>2. FlowFits(f)' /\ PageFits'
    BY <1>3, <2>1 DEF FlowFits, PageFits, Home, New, Info, backend, shown
  <2> QED BY <1>5, <2>1, <2>2, OneBusy
<1>9. CASE Verify(f, "verify", "start")
  <2>1. /\ flow[f].at = "verify" /\ UNCHANGED <<service, ready, wallets, left, shown, asking>>
        /\ cfg' = flow[f].dir /\ flow'[f].at = "start" /\ flow'[f].dir = flow[f].dir
        /\ OthersIdle(f)'
    BY <1>0, <1>3, <1>9, GotoSteps DEF Verify, Served, At, main
  <2>2. FlowFits(f)' /\ PageFits'
    BY <1>3, <2>1 DEF FlowFits, PageFits, Home, New, Info, shown
  <2> QED BY <1>5, <2>1, <2>2, OneBusy
<1>10. CASE Start(f)
  <2>1. cfg = store.dir /\ ~asking
    BY <1>3, <1>10 DEF Start, At, FlowFits, Home
  <2>2. /\ page' = "node" /\ service' = cfg /\ info' = [info EXCEPT !.run = TRUE]
        /\ store'.dir = store.dir /\ UNCHANGED asking
    BY <1>0, <1>10, ShowKeeps DEF Start, Served, At, Run
  <2>3. \A g \in Flows : Idles(g)'
    BY <1>0, <1>3, <1>10, EndSteps DEF Start
  <2>4. info'.run
    BY <2>2, Parts DEF ShownOK, Infos
  <2>5. PageFits'
    BY <2>1, <2>2, <2>4 DEF PageFits
  <2> QED BY <1>5, <2>3, <2>5, AllIdle
<1> QED BY <1>6, <1>7, <1>8, <1>9, <1>10 DEF Step

\* A launch of a new node begins and goes on, behind the wizard that shows its directory.
LEMMA NewPatient ==
  ASSUME Typed, Opened, Fits, NEW f \in Flows, LaunchNew(f) \/ NewStep(f)
  PROVE  Fits' /\ Opened'
<1> USE LaunchAssumption
<1>0. /\ BackendOK /\ store \in Stores /\ info \in Infos /\ flow \in [Flows -> FlowStates]
      /\ InFlight(f) => flow[f].dir \in Dirs
  BY Parts DEF ShownOK, FlowOK, FlowInv
<1>1. FlowFits(f) /\ PageFits
  BY DEF Fits
<1>2. Opened'
  BY FlowCloses, StaysOpened
<1>3. CASE LaunchNew(f)
  <2>1. OthersIdle(f)
    <3>1. \A g \in Flows : flow[g].at \notin Home \cup New
      BY <1>3 DEF LaunchNew, Launching, Fits, FlowFits, New
    <3> QED BY <1>0, <3>1, Ways DEF OthersIdle, Idles
  <2>2. /\ flow'[f].at = "newVerify" /\ flow'[f].dir = store.dir /\ OthersIdle(f)'
        /\ page = "onboard" /\ UNCHANGED <<backend, shown, main>>
    BY <1>0, <1>3, <2>1, BeginSteps DEF LaunchNew
  <2>3. FlowFits(f)' /\ PageFits'
    BY <1>1, <2>2 DEF FlowFits, PageFits, Home, New, backend, shown, main
  <2> QED BY <1>2, <2>2, <2>3, OneBusy
<1>4. CASE NewStep(f)
  <2>1. flow[f].at \in New /\ InFlight(f) /\ OthersIdle(f) /\ flow[f].dir \in Dirs
    <3>1. flow[f].at \in New
      BY <1>4 DEF NewStep, Verify, NewStart, NewInit, NewSave, At, New
    <3> QED BY <1>0, <3>1, Ways DEF Fits, Idles, OthersIdle
  <2>2. page = "onboard" /\ flow[f].dir = store.dir /\ ~asking
    BY <1>1, <2>1 DEF FlowFits, PageFits
  <2>3. CASE Verify(f, "newVerify", "newStart")
    <3>1. /\ cfg' = flow[f].dir /\ flow'[f].at = "newStart" /\ flow'[f].dir = flow[f].dir
          /\ OthersIdle(f)' /\ UNCHANGED <<service, wallets, shown, asking>>
      BY <1>0, <2>1, <2>3, GotoSteps DEF Verify, Served, At, main
    <3>2. FlowFits(f)' /\ PageFits'
      BY <2>2, <3>1 DEF FlowFits, PageFits, Home, New, shown
    <3> QED BY <1>2, <3>1, <3>2, OneBusy
  <2>4. CASE NewStart(f)
    <3>1. /\ cfg = flow[f].dir /\ service' = cfg /\ UNCHANGED <<page, asking>>
          /\ flow'[f].at = "newInit" /\ flow'[f].dir = flow[f].dir /\ OthersIdle(f)'
          /\ store'.dir = store.dir /\ info' = [info EXCEPT !.run = TRUE]
      BY <1>0, <1>1, <2>1, <2>2, <2>4, GotoSteps, ShowKeeps
         DEF NewStart, MainLeaves, Served, Run, At, FlowFits, main
    <3>2. info'.run
      BY <1>0, <3>1 DEF Infos
    <3>3. FlowFits(f)' /\ PageFits'
      BY <2>2, <3>1, <3>2 DEF FlowFits, PageFits, Home, New
    <3> QED BY <1>2, <3>1, <3>3, OneBusy
  <2>5. CASE NewInit(f)
    <3>1. /\ flow[f].at = "newInit" /\ flow'[f].at = "newSave" /\ flow'[f].dir = flow[f].dir
          /\ OthersIdle(f)' /\ UNCHANGED <<cfg, service, shown, asking>>
      BY <1>0, <2>1, <2>5, GotoSteps DEF NewInit, Served, MakeWallet, At, main
    <3>2. FlowFits(f)' /\ PageFits'
      BY <1>1, <2>2, <3>1 DEF FlowFits, PageFits, Home, New, shown
    <3> QED BY <1>2, <3>1, <3>2, OneBusy
  <2>6. CASE NewSave(f)
    <3>1. flow[f].at = "newSave" /\ service = flow[f].dir /\ info.run
      BY <1>1, <2>6 DEF NewSave, At, FlowFits
    <3>2. UNCHANGED <<backend, store, info>>
      BY <2>6, <3>1 DEF NewSave, Served, At
    <3>3. page' = "node" /\ UNCHANGED asking
      BY <2>1, <2>6, <3>1 DEF NewSave, main
    <3>4. \A g \in Flows : Idles(g)'
      BY <1>0, <2>1, <2>6, EndSteps DEF NewSave
    <3>5. PageFits'
      BY <2>2, <3>1, <3>2, <3>3 DEF PageFits, backend
    <3> QED BY <1>2, <3>4, <3>5, AllIdle
  <2> QED BY <1>4, <2>3, <2>4, <2>5, <2>6 DEF NewStep
<1> QED BY <1>3, <1>4

\* Answers, a change of directory on Onboard, and the node itself.
LEMMA OtherPatient ==
  ASSUME Typed, Opened, Fits, Other
  PROVE  Fits' /\ Opened'
<1> USE LaunchAssumption
<1>0. /\ TableOK /\ BackendOK /\ store \in Stores /\ store.dir \in Keys /\ store.key \in Keys
      /\ flow \in [Flows -> FlowStates] /\ None \notin wallets
  BY Parts DEF ShownOK, FlowOK, Stores, BackendOK
<1>1. PageFits /\ \A f \in Flows : FlowFits(f)
  BY DEF Fits
<1>2. CASE Identify \/ CloseSheet \/ StartTimeout
  BY <1>2, FitsFrame DEF Identify, CloseSheet, StartTimeout, Opened, backend, shown, main
<1>3. CASE Revalidate
  <2>1. /\ info' = Info /\ info # Info /\ store'.dir = store.dir
        /\ UNCHANGED <<backend, asking, flow>>
        /\ page' = IF page = "main" /\ info'.run /\ ~info.run THEN "node" ELSE page
    BY <1>0, <1>3, ShowKeeps DEF Revalidate, MainLeaves, main
  <2>2. UNCHANGED <<Info, service, wallets, left, cfg>> /\ Opened' /\ info'.run = (service # None)
    BY <2>1 DEF Info, Opened, backend
  <2>3. PageFits'
    <3>1. CASE page = "main"
      BY <1>1, <2>1, <2>2, <3>1 DEF PageFits
    <3>2. CASE page # "main"
      BY <1>1, <2>1, <2>2, <3>2 DEF PageFits
    <3> QED BY <3>1, <3>2
  <2>4. ASSUME NEW f \in Flows PROVE FlowFits(f)'
    <3>1. flow[f].at \notin Home
      BY <1>1, <2>1 DEF FlowFits
    <3>2. flow[f].at \in {"newInit", "newSave"} => service # None
      BY <1>0, Parts DEF FlowFits, Fits, FlowOK, FlowInv, InFlight
    <3> QED BY <1>1, <2>1, <2>2, <3>1, <3>2 DEF FlowFits, Home, New
  <2> QED BY <2>1, <2>2, <2>3, <2>4 DEF Fits, Idles, InFlight
<1>4. CASE FetchLastNode
  <2>1. asking /\ ~asking' /\ UNCHANGED <<backend, page, info, flow>>
    BY <1>4 DEF FetchLastNode, Show
  <2>2. ASSUME NEW f \in Flows PROVE Idles(f)'
    <3>1. flow[f].at \notin Home \cup New
      BY <1>1, <2>1 DEF FlowFits, PageFits, Home, New
    <3> QED BY <1>0, <2>1, <3>1, Ways DEF Idles, InFlight
  <2>3. PageFits' /\ Opened'
    BY <1>1, <2>1 DEF PageFits, Opened, backend
  <2> QED BY <2>2, <2>3, AllIdle
<1>5. ASSUME NEW d \in Dirs, ChooseNewDir(d) PROVE Fits' /\ Opened'
  <2>1. page = "onboard" /\ ~Launching /\ UNCHANGED <<backend, page, info, asking, flow>>
    BY <1>5 DEF ChooseNewDir, Show, main
  <2>2. ASSUME NEW f \in Flows PROVE Idles(f)'
    <3>1. flow[f].at \notin Home \cup New
      BY <1>1, <2>1 DEF FlowFits, Launching, New
    <3> QED BY <1>0, <2>1, <3>1, Ways DEF Idles, InFlight
  <2>3. PageFits' /\ Opened'
    BY <1>1, <2>1 DEF PageFits, Opened, backend
  <2> QED BY <2>2, <2>3, AllIdle
<1>6. CASE WalletOpens
  <2>1. UNCHANGED <<cfg, service, wallets, left, shown, main, flow>> /\ service \in wallets /\ ready'
    BY <1>6 DEF WalletOpens
  <2>2. service # None /\ UNCHANGED Info.run
    BY <1>0, <2>1 DEF Info
  <2>3. ASSUME NEW f \in Flows PROVE flow[f].at \notin Home
    BY <1>1, <2>2 DEF FlowFits, PageFits, Info
  <2>4. \A f \in Flows : FlowFits(f)'
    BY <1>1, <2>1, <2>3 DEF FlowFits, Home, New, shown, main
  <2>5. PageFits' /\ Opened'
    BY <1>1, <2>1 DEF PageFits, Opened, shown, main
  <2> QED BY <2>1, <2>4, <2>5 DEF Fits, Idles, InFlight
<1>7. CASE Stop \/ LeaveNode \/ ApplyAndRestart
  <2>1. page = "node" /\ UNCHANGED <<cfg, wallets, store, info, flow>>
    BY <1>7 DEF Stop, LeaveNode, ApplyAndRestart, backend, shown
  <2>2. ASSUME NEW f \in Flows PROVE Idles(f)'
    <3>1. flow[f].at \notin Home \cup New
      BY <1>1, <2>1 DEF FlowFits
    <3> QED BY <1>0, <2>1, <3>1, Ways DEF Idles, InFlight
  <2>3. Opened'
    <3>1. Closes
      BY <1>7 DEF Stop, LeaveNode, ApplyAndRestart, Closes, backend
    <3> QED BY <3>1, StaysOpened
  <2>4. CASE UNCHANGED <<service, left, page, main>>
    BY <1>1, <2>1, <2>4, <2>2, <2>3, AllIdle DEF PageFits, main
  <2>5. CASE UNCHANGED <<page, main>> /\ service' = None
    BY <1>0, <1>1, <2>1, <2>5, <2>2, <2>3, AllIdle DEF PageFits, main
  <2>6. CASE Mount /\ (service' = None \/ (service' = service /\ service \notin wallets))
    <3>1. PageFits'
      BY <1>0, <2>1, <2>6 DEF PageFits, Mount
    <3> QED BY <3>1, <2>2, <2>3, AllIdle
  <2>7. LeaveNode => service = None /\ UNCHANGED service
    BY <1>1 DEF LeaveNode, PageFits, backend
  <2> QED BY <1>7, <2>4, <2>5, <2>6, <2>7 DEF Stop, LeaveNode, ApplyAndRestart, shown
<1> QED BY <1>2, <1>3, <1>4, <1>5, <1>6, <1>7, StepPatient, NewPatient DEF Other

LEMMA OpenedStep == Typed /\ Opened /\ [Next]_vars => Opened'
<1> SUFFICES ASSUME Typed, Opened, [Next]_vars PROVE Opened'
  OBVIOUS
<1>1. ASSUME NEW f \in Flows, Step(f) \/ LaunchNew(f) \/ NewStep(f) PROVE Opened'
  BY <1>1, FlowCloses, StaysOpened
<1>2. CASE Choice \/ LeaveOnboard \/ Reopen \/ UNCHANGED vars
  <2>1. Closes
    BY <1>2 DEF Choice, OpenExisting, SaveAlias, OpenOnboard, RemoveNode, StartNode, SwitchNode,
                ChooseNodeDir, LeaveOnboard, Reopen, Closes, vars, backend
  <2> QED BY <2>1, StaysOpened
<1>3. CASE WalletOpens
  BY <1>3 DEF WalletOpens, Opened
<1>4. CASE \/ Identify \/ Revalidate \/ FetchLastNode \/ CloseSheet \/ StartTimeout
           \/ Stop \/ LeaveNode \/ ApplyAndRestart \/ (\E d \in Dirs : ChooseNewDir(d))
  <2>1. Closes
    BY <1>4 DEF Identify, Revalidate, FetchLastNode, CloseSheet, StartTimeout, Stop,
                LeaveNode, ApplyAndRestart, ChooseNewDir, Closes, backend
  <2> QED BY <2>1, StaysOpened
<1> QED BY <1>1, <1>2, <1>3, <1>4 DEF Next, Other

LEMMA PatientStep == Typed /\ Patient /\ [Next]_vars => Patient'
<1> SUFFICES ASSUME Typed, Patient, [Next]_vars, ~hurried' PROVE Fits'
  BY OpenedStep DEF Patient
<1>0. BackendOK /\ flow \in [Flows -> FlowStates] /\ None \notin wallets
  BY Parts, LaunchAssumption DEF FlowOK, BackendOK
<1>1. CASE Choice
  <2>1. ~hurried
    BY <1>1 DEF Choice, OpenExisting, SaveAlias, OpenOnboard, RemoveNode, StartNode,
       SwitchNode, ChooseNodeDir, OnMain
  <2> QED BY <1>1, <2>1, ChoicePatient DEF Patient
<1>2. CASE LeaveOnboard
  <2>1. /\ Fits /\ ~Launching /\ page = "onboard" /\ UNCHANGED <<service, wallets, info, flow>>
        /\ left' = (service # None)
        /\ Mount \/ (info.run /\ service # None /\ page' = "node")
    BY <1>2 DEF LeaveOnboard, Patient
  <2>2. \A f \in Flows : flow[f].at \notin Home \cup New
    BY <2>1 DEF Fits, FlowFits, Launching, New
  <2>3. \A f \in Flows : Idles(f)'
    BY <1>0, <2>1, <2>2, Ways DEF Idles, InFlight
  <2>4. PageFits'
    BY <1>0, <2>1 DEF PageFits, Mount
  <2> QED BY <2>3, <2>4, AllIdle
<1>3. CASE Other /\ UNCHANGED hurried
  BY <1>3, OtherPatient DEF Patient
<1>4. CASE Reopen
  <2>1. \A f \in Flows : Idles(f)'
    <3>1. Done.at = "done"
      BY DEF Done
    <3>2. flow' = [f \in Flows |-> IF InFlight(f) THEN Done ELSE flow[f]]
      BY <1>4 DEF Reopen
    <3> QED BY <3>1, <3>2 DEF Idles, InFlight
  <2>2. PageFits'
    BY <1>0, <1>4 DEF Reopen, Mount, PageFits, NoInfo
  <2> QED BY <2>1, <2>2, AllIdle
<1>5. CASE UNCHANGED vars
  BY <1>5, FitsFrame DEF vars, shown, main, Patient
<1> QED BY <1>1, <1>2, <1>3, <1>4, <1>5 DEF Next

LEMMA InitPatient == Init => Patient
  BY LaunchAssumption
     DEF Init, Patient, Opened, Fits, FlowFits, PageFits, Idles, InFlight, Idle, NoInfo, Home, New

\* The node that opens is the one the store names, for a user who waits for a start to end
\* and for Main to load, whichever calls fail or lose their answers, but for the node of a
\* launch that failed and that the user left in the wizard.
THEOREM RunsShown == Spec => []RunsWhatIsShown
<1>1. Typed /\ Patient => RunsWhatIsShown
  BY DEF Patient, Opened, Fits, PageFits, RunsWhatIsShown
<1> QED BY <1>1, InitTyped, TypeStep, InitPatient, PatientStep, PTL DEF Spec
=============================================================================
