---------------------------- MODULE OverlayProofs ----------------------------
(***************************************************************************)
(* Proofs about the overlay, for any functions that the Unity adapter      *)
(* looks up and any number of exit timers: windows, panels, frames and the *)
(* calls into il2cpp, whenever the service stops or the process ends.      *)
(***************************************************************************)
EXTENDS Overlay, SequenceTheorems, TLAPS

(* The windows come and go with the service: the ESP view first, and the   *)
(* menu may have been killed.                                              *)
WindowsOfService ==
    /\ windows \in {<< >>, <<"esp">>, Created}
    /\ service <=> windows # << >>
    /\ attached <=> service

(* Only an attached view has frames, pixels and a draw under way. *)
ViewIsAlive == ~attached => ~posted /\ screen = Blank /\ pc = "idle"

(* How far a draw is says what has been resolved, and what was resolved    *)
(* stays: lookups are repeated only until all are found.                   *)
ResolvedSoFar ==
    /\ il2cpp.runtimeReady => Range(Symbols) \subseteq il2cpp.ptr
    /\ il2cpp.cameraReady => il2cpp.runtimeReady /\ il2cpp.attached /\ engine = HasClasses
    /\ pc = "runtime" => ~il2cpp.runtimeReady
    /\ pc = "camera" => il2cpp.runtimeReady
    /\ pc \in {"get_main", "matrices"} => il2cpp.cameraReady

EspPart == TypeOK /\ ViewIsAlive /\ ResolvedSoFar /\ LabelsOfFrame
WindowPart == WindowsTypeOK /\ OnePanel
Inv == EspPart /\ WindowPart /\ WindowsOfService

-----------------------------------------------------------------------------
(* A screen with nothing on it. *)
LEMMA BlankScreen == Blank \in [shapes : BOOLEAN, labels : BOOLEAN] /\ ~Blank.labels
  BY DEF Blank

(* A frame that ends shows labels only beside shapes. *)
LEMMA FrameEnds ==
    ASSUME NEW drawn \in {Blank, Filled}, EndFrame(drawn)
    PROVE  /\ cache' \in BOOLEAN /\ screen' \in [shapes : BOOLEAN, labels : BOOLEAN]
           /\ (screen'.labels => screen'.shapes)
           /\ pc' = "idle"
<1>1. drawn.shapes \in BOOLEAN /\ drawn.labels \in BOOLEAN /\ (drawn.labels => drawn.shapes)
  <2>1. CASE drawn = Blank
    BY <2>1 DEF Blank
  <2>2. CASE drawn = Filled
    BY <2>2 DEF Filled
  <2> QED
    BY <2>1, <2>2
<1> QED
  BY <1>1 DEF EndFrame, LabelsAfter

(* The steps of a frame in a process whose windows stay as they are. *)
LEMMA FramesInv ==
    ASSUME EspPart, Frames
    PROVE  EspPart' /\ attached' = attached
<1> USE SymbolsAssumption DEF EspPart, ViewIsAlive, ResolvedSoFar, LabelsOfFrame, TypeOK
<1>1. CASE doFrame
  BY <1>1 DEF doFrame, Reposts
<1>2. CASE SetEnabled
  BY <1>2 DEF SetEnabled, view
<1>3. CASE DrawDisabled
  BY <1>3 DEF DrawDisabled, Blank
<1>4. CASE DrawWithoutSource
  BY <1>4, FrameEnds DEF DrawWithoutSource
<1>5. CASE DrawFromSource
  <2>1. TypeOK'
    <3>1. pc' \in {"get_main", "camera", "runtime"} /\ 1 \in 1 .. Len(Symbols) + 1
      BY <1>5 DEF DrawFromSource
    <3> QED
      BY <1>5, <3>1 DEF DrawFromSource
  <2>2. ViewIsAlive'
    BY <1>5 DEF DrawFromSource
  <2>3. ResolvedSoFar'
    BY <1>5 DEF DrawFromSource
  <2>4. LabelsOfFrame'
    BY <1>5 DEF DrawFromSource
  <2>5. attached' = attached
    BY <1>5 DEF DrawFromSource
  <2> QED
    BY <2>1, <2>2, <2>3, <2>4, <2>5
<1>6. CASE ResolveSymbol
  <2>1. Slot(next) \in Range(Symbols) /\ next + 1 \in 1 .. Len(Symbols) + 1
    BY <1>6 DEF ResolveSymbol, Slot, Range
  <2> QED
    BY <1>6, <2>1 DEF ResolveSymbol, Unready
<1>7. CASE RuntimeResolved
  BY <1>7 DEF RuntimeResolved, AllFound, Unready
<1>8. CASE RuntimeMissing
  BY <1>8, FrameEnds DEF RuntimeMissing, Unready
<1>9. CASE CameraResolved
  <2>1. TypeOK'
    BY <1>9 DEF CameraResolved, Unready, HasClasses, Absent
  <2>2. ViewIsAlive'
    BY <1>9 DEF CameraResolved, Unready, HasClasses, Absent
  <2>3. ResolvedSoFar'
    BY <1>9 DEF CameraResolved, Unready, HasClasses, Absent
  <2>4. LabelsOfFrame'
    BY <1>9 DEF CameraResolved, Unready, HasClasses, Absent
  <2>5. attached' = attached
    BY <1>9 DEF CameraResolved, Unready, HasClasses, Absent
  <2> QED
    BY <2>1, <2>2, <2>3, <2>4, <2>5
<1>10. CASE CameraMissing
  BY <1>10, FrameEnds DEF CameraMissing, Unready, HasDomain, HasClasses, Absent
<1>11. CASE GetMain
  BY <1>11, FrameEnds DEF GetMain, Unready
<1>12. CASE ReadMatrices
  BY <1>12, FrameEnds DEF ReadMatrices, Unready
<1> QED
  BY <1>1, <1>2, <1>3, <1>4, <1>5, <1>6, <1>7, <1>8, <1>9, <1>10, <1>11, <1>12
     DEF Frames, onDraw, viewProjection

(* The game goes on, also in the middle of a frame. *)
LEMMA GameInv ==
    ASSUME EspPart, Game
    PROVE  EspPart' /\ attached' = attached
<1> USE DEF EspPart, ViewIsAlive, ResolvedSoFar, LabelsOfFrame, TypeOK, view
<1>1. CASE installUnitySource
  BY <1>1 DEF installUnitySource
<1>2. CASE GameStarts
  BY <1>2 DEF GameStarts, Absent, HasClasses
<1>3. CASE CameraChanges
  BY <1>3 DEF CameraChanges
<1> QED
  BY <1>1, <1>2, <1>3 DEF Game

-----------------------------------------------------------------------------
(* What Swapped leaves in the scroll view is one panel. *)
LEMMA OneIsSwapped ==
    ASSUME panel \in {{"mods"}, {"settings"}}, NEW out \in {"mods", "settings"},
           NEW in \in {"mods", "settings"}
    PROVE  Swapped(out, in) \in {{"mods"}, {"settings"}}
  BY DEF Swapped

(* The windows there can be are a stack of windows. *)
LEMMA WindowsTyped == {<< >>, <<"esp">>, Created} \subseteq Seq({"esp", "menu"})
  BY DEF Created

(* A killed menu leaves the ESP view. *)
LEMMA MenuRemoved ==
    ASSUME windows \in {<< >>, <<"esp">>, Created}, NEW i \in DOMAIN windows, windows[i] = "menu"
    PROVE  RemoveAt(windows, i) = <<"esp">>
<1>1. windows = <<"esp", "menu">> /\ i = 2
  BY DEF Created
<1>2. SubSeq(windows, 3, 2) = << >> /\ Len(windows) = 2
  BY <1>1, SubSeqEmpty
<1>3. /\ SubSeq(windows, 1, 1) \in Seq({"esp"}) /\ Len(SubSeq(windows, 1, 1)) = 1
      /\ SubSeq(windows, 1, 1)[1] = "esp"
  <2>1. \A k \in 1 .. 1 : windows[k] \in {"esp"}
    BY <1>1
  <2> QED
    BY <2>1, <1>1, SubSeqProperties
<1>4. SubSeq(windows, 1, 1) = <<"esp">>
  <2>1. <<"esp">> \in Seq({"esp"}) /\ Len(<<"esp">>) = 1 /\ <<"esp">>[1] = "esp"
    OBVIOUS
  <2>2. \A k \in 1 .. Len(SubSeq(windows, 1, 1)) : SubSeq(windows, 1, 1)[k] = <<"esp">>[k]
    BY <1>3
  <2> QED
    BY <1>3, <2>1, <2>2, SeqEqual
<1> QED
  <2>1. RemoveAt(windows, i) = SubSeq(windows, 1, 1) \o SubSeq(windows, 3, 2)
    BY <1>1, <1>2 DEF RemoveAt
  <2> QED
    BY <2>1, <1>2, <1>3, <1>4, ConcatEmptySeq

(* Steps of the windows that neither begin nor end the service. *)
LEMMA WindowsInv ==
    ASSUME WindowPart, WindowsOfService, UNCHANGED attached,
           \/ Thread \/ ClickSettingsIcon \/ CloseSettings \/ KillMenu
           \/ StartAllowed \/ StartDenied \/ Allow \/ SwitchApps \/ Relaunch \/ LoadLibrary
           \/ UNCHANGED windowsVars
    PROVE  WindowPart' /\ WindowsOfService'
<1> USE DEF WindowPart, WindowsTypeOK, OnePanel, WindowsOfService
<1>1. CASE Thread
  BY <1>1 DEF Thread, Hides, Hidden, start, game
<1>2. CASE ClickSettingsIcon
  BY <1>2, OneIsSwapped DEF ClickSettingsIcon, IconShows, start, game
<1>3. CASE CloseSettings
  BY <1>3, OneIsSwapped DEF CloseSettings, start, game
<1>4. CASE KillMenu
  <2>1. windows' = <<"esp">> /\ windows # << >>
    BY <1>4, MenuRemoved DEF KillMenu
  <2> QED
    BY <1>4, <2>1 DEF KillMenu, start, menu, game
<1>5. CASE StartAllowed
  BY <1>5 DEF StartAllowed, menu, game
<1>6. CASE StartDenied
  BY <1>6, MaxTimersAssumption DEF StartDenied, menu, game
<1>7. CASE Allow
  BY <1>7 DEF Allow, menu, game
<1>8. CASE SwitchApps
  BY <1>8 DEF SwitchApps, start, menu
<1>9. CASE Relaunch
  BY <1>9 DEF Relaunch, start, menu, game
<1>10. CASE LoadLibrary
  BY <1>10 DEF LoadLibrary, start, menu
<1>11. CASE UNCHANGED windowsVars
  BY <1>11 DEF windowsVars, start, menu, game
<1> QED
  BY <1>1, <1>2, <1>3, <1>4, <1>5, <1>6, <1>7, <1>8, <1>9, <1>10, <1>11

(* The service starts and stops with its view. *)
LEMMA ServiceInv ==
    ASSUME Inv, StartService \/ StopService
    PROVE  Inv'
<1> USE DEF Inv, EspPart, WindowPart, WindowsOfService
<1>1. CASE StartService
  <2>1. attach /\ onCreate
    BY <1>1 DEF StartService
  <2>2. TypeOK' /\ ViewIsAlive'
    BY <2>1 DEF attach, ViewIsAlive, TypeOK
  <2>3. ResolvedSoFar' /\ LabelsOfFrame'
    BY <2>1 DEF attach, ResolvedSoFar, LabelsOfFrame
  <2>4. WindowsOfService'
    BY <2>1 DEF onCreate, attach, Created
  <2>5. WindowsTypeOK' /\ OnePanel'
    <3>1. windows' \in Seq({"esp", "menu"}) /\ OnePanel' /\ panel' \subseteq {"mods", "settings"}
      BY <2>1, WindowsTyped DEF onCreate, OnePanel
    <3>2. service' \in BOOLEAN /\ requested' \in BOOLEAN /\ settingsOpen' \in BOOLEAN
      BY <2>1 DEF onCreate
    <3> QED
      BY <2>1, <3>1, <3>2 DEF onCreate, WindowsTypeOK, game
  <2> QED
    BY <2>2, <2>3, <2>4, <2>5
<1>2. CASE StopService
  <2>1. detach /\ onDestroy
    BY <1>2 DEF StopService
  <2>2. TypeOK' /\ ViewIsAlive' /\ LabelsOfFrame'
    BY <2>1, BlankScreen DEF detach, ViewIsAlive, TypeOK, LabelsOfFrame
  <2>3. ResolvedSoFar'
    BY <2>1 DEF detach, ResolvedSoFar
  <2>4. WindowsOfService'
    BY <2>1 DEF onDestroy, detach
  <2>5. WindowsTypeOK' /\ OnePanel'
    <3>1. windows' \in Seq({"esp", "menu"}) /\ service' \in BOOLEAN
      BY <2>1, WindowsTyped DEF onDestroy
    <3> QED
      BY <2>1, <3>1 DEF onDestroy, WindowsTypeOK, OnePanel, start, menu, game
  <2> QED
    BY <2>2, <2>3, <2>4, <2>5
<1> QED
  BY <1>1, <1>2

(* The process ends, and the view with it. *)
LEMMA EndInv ==
    ASSUME Inv, EndProcess
    PROVE  Inv'
<1>1. ProcessEnds /\ crashed' \in BOOLEAN /\ EspEnds
  BY DEF EndProcess, ExitThread, KillProcess, onDestroyThrows, Inv, WindowPart, WindowsTypeOK
<1>2. TypeOK' /\ LabelsOfFrame'
  <2>1. /\ attached' \in BOOLEAN /\ posted' \in BOOLEAN /\ dirty' \in BOOLEAN /\ cache' \in BOOLEAN
        /\ enabled' \in BOOLEAN /\ source' \in BOOLEAN /\ camera' \in BOOLEAN
    BY <1>1 DEF EspEnds
  <2>2. /\ pc' = "idle" /\ next' \in 1 .. Len(Symbols) + 1 /\ engine' \in Absent .. HasClasses
    BY <1>1, SymbolsAssumption DEF EspEnds, Absent, HasClasses
  <2>3. il2cpp' \in [ptr : SUBSET Range(Symbols), runtimeReady : BOOLEAN,
                       cameraReady : BOOLEAN, attached : BOOLEAN]
    BY <1>1 DEF EspEnds
  <2>4. screen' \in [shapes : BOOLEAN, labels : BOOLEAN] /\ LabelsOfFrame'
    BY <1>1, BlankScreen DEF EspEnds, LabelsOfFrame
  <2> QED
    BY <2>1, <2>2, <2>3, <2>4 DEF TypeOK
<1>3. ViewIsAlive' /\ ResolvedSoFar'
  BY <1>1 DEF EspEnds, ViewIsAlive, ResolvedSoFar
<1>4. WindowsOfService'
  BY <1>1 DEF ProcessEnds, EspEnds, WindowsOfService
<1>5. WindowsTypeOK' /\ OnePanel'
  <2>1. windows' \in Seq({"esp", "menu"}) /\ OnePanel' /\ panel' \subseteq {"mods", "settings"}
    BY <1>1, WindowsTyped DEF ProcessEnds, OnePanel
  <2>2. /\ alive' \in BOOLEAN /\ requested' \in BOOLEAN /\ service' \in BOOLEAN
        /\ settingsOpen' \in BOOLEAN /\ library' \in BOOLEAN /\ foreground' \in BOOLEAN
    BY <1>1 DEF ProcessEnds
  <2>3. exitTimers' \in 0 .. MaxTimers /\ visible' \in {"VISIBLE", "INVISIBLE"} /\ permission' \in BOOLEAN
    BY <1>1, MaxTimersAssumption DEF ProcessEnds, Inv, WindowPart, WindowsTypeOK
  <2> QED
    BY <1>1, <2>1, <2>2, <2>3 DEF WindowsTypeOK
<1> QED
  BY <1>2, <1>3, <1>4, <1>5 DEF Inv, EspPart, WindowPart

-----------------------------------------------------------------------------
(* Nothing is up before the user starts the app. *)
LEMMA InitInv == OverlayInit => Inv
<1> SUFFICES ASSUME Init, WindowsInit PROVE Inv
  BY DEF OverlayInit
<1>1. TypeOK /\ LabelsOfFrame
  <2>1. /\ attached \in BOOLEAN /\ posted \in BOOLEAN /\ dirty \in BOOLEAN /\ cache \in BOOLEAN
        /\ enabled \in BOOLEAN /\ source \in BOOLEAN /\ camera \in BOOLEAN
    BY DEF Init
  <2>2. /\ pc = "idle" /\ next \in 1 .. Len(Symbols) + 1 /\ engine \in Absent .. HasClasses
    BY SymbolsAssumption DEF Init, Absent, HasClasses
  <2>3. il2cpp \in [ptr : SUBSET Range(Symbols), runtimeReady : BOOLEAN,
                       cameraReady : BOOLEAN, attached : BOOLEAN]
    BY DEF Init
  <2>4. screen \in [shapes : BOOLEAN, labels : BOOLEAN] /\ LabelsOfFrame
    BY BlankScreen DEF Init, LabelsOfFrame
  <2> QED
    BY <2>1, <2>2, <2>3, <2>4 DEF TypeOK
<1>2. ViewIsAlive /\ ResolvedSoFar
  BY DEF Init, ViewIsAlive, ResolvedSoFar
<1>3. WindowsOfService
  BY DEF Init, WindowsInit, WindowsOfService
<1>4. WindowsTypeOK /\ OnePanel
  <2>1. windows \in Seq({"esp", "menu"}) /\ OnePanel /\ panel \subseteq {"mods", "settings"}
    BY WindowsTyped DEF WindowsInit, OnePanel
  <2>2. /\ alive \in BOOLEAN /\ crashed \in BOOLEAN /\ requested \in BOOLEAN /\ service \in BOOLEAN
        /\ settingsOpen \in BOOLEAN /\ library \in BOOLEAN /\ foreground \in BOOLEAN
    BY DEF WindowsInit
  <2>3. exitTimers \in 0 .. MaxTimers /\ visible \in {"VISIBLE", "INVISIBLE"} /\ permission \in BOOLEAN
    BY MaxTimersAssumption DEF WindowsInit
  <2> QED
    BY <2>1, <2>2, <2>3 DEF WindowsTypeOK
<1> QED
  BY <1>1, <1>2, <1>3, <1>4 DEF Inv, EspPart, WindowPart

(* A step that leaves the ESP view alone leaves its part alone. *)
LEMMA EspKept == EspPart /\ UNCHANGED vars => EspPart' /\ attached' = attached
  BY DEF EspPart, ViewIsAlive, ResolvedSoFar, LabelsOfFrame, TypeOK, vars, view

(* Every step of the overlay keeps the invariant. *)
LEMMA NextInv == Inv /\ [OverlayNext]_overlayVars => Inv'
<1> SUFFICES ASSUME Inv, [OverlayNext]_overlayVars PROVE Inv'
  OBVIOUS
<1>1. CASE StartService \/ StopService
  BY <1>1, ServiceInv
<1>2. CASE EndProcess
  BY <1>2, EndInv
<1>3. CASE Poll \/ Click \/ StartActivity \/ Surroundings \/ UNCHANGED overlayVars
  <2>1. EspPart' /\ attached' = attached
    BY <1>3, EspKept DEF Inv, Poll, Click, StartActivity, Surroundings, overlayVars
  <2>2. WindowPart' /\ WindowsOfService'
    BY <1>3, <2>1, WindowsInv DEF Inv, Poll, Click, StartActivity, Surroundings, overlayVars
  <2> QED
    BY <2>1, <2>2 DEF Inv
<1>4. CASE InProcess(Frames) \/ InProcess(Game)
  <2>1. EspPart' /\ attached' = attached /\ UNCHANGED windowsVars
    BY <1>4, FramesInv, GameInv DEF Inv, InProcess
  <2>2. WindowPart' /\ WindowsOfService'
    BY <2>1, WindowsInv DEF Inv
  <2> QED
    BY <2>1, <2>2 DEF Inv
<1> QED
  BY <1>1, <1>2, <1>3, <1>4 DEF OverlayNext

(* What the invariant says of windows, labels and calls. *)
LEMMA InvImplies == Inv => OverlayInv /\ CallsLegal
<1> SUFFICES ASSUME Inv PROVE OverlayInv /\ CallsLegal
  OBVIOUS
<1>1. Contains(windows, "menu") <=> windows = Created
  BY DEF Inv, WindowsOfService, Created, Contains
<1>2. Contains(windows, "esp") <=> windows # << >>
  BY DEF Inv, WindowsOfService, Created, Contains
<1>3. WindowsInOrder /\ ViewHasWindow
  BY <1>1, <1>2 DEF Inv, EspPart, ViewIsAlive, WindowsOfService, WindowsInOrder, ViewHasWindow, Created
<1>4. CallsLegal
  BY DEF Inv, EspPart, ResolvedSoFar, CallsLegal
<1> QED
  BY <1>3, <1>4 DEF Inv, EspPart, WindowPart, OverlayInv

(***************************************************************************)
(* However the user stops the service, kills the menu or loses the         *)
(* process, also in the middle of a frame: the layers are stacked as       *)
(* Launcher.java:21-22 says, the menu shows one panel, and the ESP view    *)
(* lives exactly as long as its window (ESPView.java:85-115) and keeps no  *)
(* label of a frame that is no longer drawn (ESPView.java:128-160).        *)
(***************************************************************************)
THEOREM OverlayCorrect == OverlaySpec => []OverlayInv
<1>1. OverlaySpec => []Inv
  BY InitInv, NextInv, PTL DEF OverlaySpec
<1> QED
  BY <1>1, InvImplies, PTL

(* For any list of functions: the adapter calls only what it has found, on *)
(* an attached thread, however the game's start overtakes the lookups      *)
(* (UnitySource.cpp:70-170).                                               *)
THEOREM AdapterCallsLegal == OverlaySpec => []CallsLegal
<1>1. OverlaySpec => []Inv
  BY InitInv, NextInv, PTL DEF OverlaySpec
<1> QED
  BY <1>1, InvImplies, PTL

=============================================================================
