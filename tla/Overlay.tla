------------------------------- MODULE Overlay -------------------------------
(***************************************************************************)
(* The overlay as a whole: the Launcher service puts up the ESP view and   *)
(* the menu above it and takes them down, the views work on one UI thread, *)
(* which draws no frame while it handles a click, and the process may end  *)
(* at any time and take everything native with it.                         *)
(***************************************************************************)
EXTENDS EspOverlay, OverlayWindows

overlayVars == <<vars, windowsVars>>
OverlayInit == Init /\ WindowsInit

(* Launcher.onCreate: espView.attach, then the menu. *)
StartService == onCreate /\ attach

(* Mutant of StopService: the ESP view is forgotten. *)
StopServiceHalf == onDestroy /\ pc = "idle" /\ UNCHANGED vars
(* Launcher.onDestroy and onTaskRemoved: espView.detach, then the menu. *)
StopService == onDestroy /\ detach

(* The state of the native library and of the view ends with the process.  *)
EspEnds ==
    /\ attached' = FALSE /\ posted' = FALSE /\ dirty' = FALSE
    /\ screen' = Blank /\ cache' = FALSE
    /\ enabled' = FALSE /\ source' = FALSE
    /\ pc' = "idle" /\ next' = 1
    /\ il2cpp' = [ptr |-> {}, runtimeReady |-> FALSE, cameraReady |-> FALSE, attached |-> FALSE]
    /\ engine' = Absent /\ camera' = FALSE
EndProcess == (ExitThread \/ KillProcess \/ (pc = "idle" /\ onDestroyThrows)) /\ EspEnds

(* Messages of the UI thread that are about the windows alone. *)
Poll == pc = "idle" /\ Thread /\ UNCHANGED vars
Click == pc = "idle" /\ (ClickSettingsIcon \/ CloseSettings \/ KillMenu) /\ UNCHANGED vars
StartActivity == pc = "idle" /\ (StartAllowed \/ StartDenied) /\ UNCHANGED vars

(* The game's library is seen by the native code once it is mapped.        *)
Surroundings ==
    /\ UNCHANGED vars
    /\ Allow \/ SwitchApps \/ Relaunch \/ (engine >= Mapped /\ LoadLibrary)

(* Steps of the ESP overlay in a running process. *)
InProcess(step) == alive /\ step /\ UNCHANGED windowsVars
Frames == doFrame \/ SetEnabled \/ onDraw \/ viewProjection
Game   == installUnitySource \/ GameStarts \/ CameraChanges

OverlayNext ==
    \/ StartService \/ StopService \/ EndProcess
    \/ Poll \/ Click \/ StartActivity \/ Surroundings
    \/ InProcess(Frames) \/ InProcess(Game)

(* A sleep of five seconds ends, hack_thread gets to its end and the game  *)
(* finishes starting.  The main looper takes messages in the order they    *)
(* are due, so the poll is not put off by frames for ever, nor frames by   *)
(* clicks.                                                                 *)
OverlaySpec ==
    /\ OverlayInit /\ [][OverlayNext]_overlayVars
    /\ WF_overlayVars(ExitThread /\ EspEnds)
    /\ SF_overlayVars(Poll)
    /\ SF_overlayVars(InProcess(doFrame)) /\ SF_overlayVars(InProcess(onDraw))
    /\ WF_overlayVars(InProcess(viewProjection))
    /\ WF_overlayVars(InProcess(installUnitySource)) /\ WF_overlayVars(InProcess(GameStarts))

-----------------------------------------------------------------------------
(* What the view believes and the window manager shows is one thing: the   *)
(* ESP view is attached while its window is there, and neither frames nor  *)
(* pixels outlive it, whether the user stops the service, a stop throws or *)
(* the process dies in the middle of a frame.                              *)
ViewHasWindow ==
    /\ attached <=> Contains(windows, "esp")
    /\ ~attached => ~posted /\ screen = Blank

(* The windows of the process: well-typed states, the stacking of layers,  *)
(* one panel in the menu, a view that lives exactly as long as its window, *)
(* and no labels of a frame that is no longer drawn.                       *)
OverlayInv == TypeOK /\ WindowsTypeOK /\ WindowsInOrder /\ OnePanel /\ ViewHasWindow /\ LabelsOfFrame
=============================================================================
