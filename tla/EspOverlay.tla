----------------------------- MODULE EspOverlay -----------------------------
(***************************************************************************)
(* The ESP overlay: the frame loop of ESPView.java, the frame builder of   *)
(* Esp.cpp and the Unity adapter of UnitySource.cpp, which finds the       *)
(* engine's camera while the game is still starting.  The UI thread runs   *)
(* doFrame, onDraw and the menu; hack_thread installs the source; the      *)
(* game's own threads load the library, start the runtime and switch       *)
(* cameras, also in the middle of a frame.                                 *)
(*                                                                         *)
(* What a frame draws is reduced to whether it has shapes and labels.      *)
(***************************************************************************)
EXTENDS Integers, Sequences, Functions

CONSTANT Symbols \* the il2cpp functions resolveRuntime looks up, in order

ASSUME SymbolsAssumption == Symbols \in Seq(STRING) /\ Symbols # << >>

(* How far the game has come.  A file mapping of the library may show in   *)
(* /proc/self/maps before the linker has it, and lookups then fail.        *)
Absent     == 0
Mapped     == 1
Linked     == 2
HasDomain  == 3
HasClasses == 4

Blank   == [shapes |-> FALSE, labels |-> FALSE]
Filled  == [shapes |-> TRUE,  labels |-> TRUE]

VARIABLES
    attached,     \* ESPView.attached: the window is up
    posted,       \* the frame callback is posted to the Choreographer
    dirty,        \* the view is invalidated
    screen,       \* what the overlay's window shows
    cache,        \* FrameCache holds labels
    enabled,      \* Config::enabled
    source,       \* g_source holds the Unity adapter
    pc,           \* where the UI thread is in onDraw
    next,         \* the symbol resolveRuntime looks up next
    il2cpp,       \* g_il2cpp: pointers found, readiness flags, thread attached
    engine,       \* how far the game has come
    camera        \* the game has an active main camera

view == <<attached, posted, dirty, screen>>
vars == <<view, cache, enabled, source, pc, next, il2cpp, engine, camera>>

Init ==
    /\ attached = FALSE /\ posted = FALSE /\ dirty = FALSE
    /\ screen = Blank /\ cache = FALSE
    /\ enabled = FALSE /\ source = FALSE
    /\ pc = "idle" /\ next = 1
    /\ il2cpp = [ptr |-> {}, runtimeReady |-> FALSE, cameraReady |-> FALSE, attached |-> FALSE]
    /\ engine = Absent /\ camera = FALSE

-----------------------------------------------------------------------------
(* The view, on the UI thread between frames. *)
attach ==
    /\ pc = "idle" /\ ~attached
    /\ attached' = TRUE /\ posted' = TRUE
    /\ dirty' = TRUE                      \* a new window is drawn once
    /\ UNCHANGED <<screen, cache, enabled, source, pc, next, il2cpp, engine, camera>>

detach ==
    /\ pc = "idle" /\ attached
    /\ attached' = FALSE /\ posted' = FALSE /\ dirty' = FALSE
    /\ screen' = Blank                    \* the window is gone
    /\ UNCHANGED <<cache, enabled, source, pc, next, il2cpp, engine, camera>>

(* Mutant of Reposts: an idle overlay stops asking for frames. *)
RepostsIfEnabled == attached /\ enabled
Reposts == attached

doFrame ==
    /\ pc = "idle" /\ posted
    /\ dirty' = (dirty \/ (attached /\ enabled))
    /\ posted' = Reposts
    /\ UNCHANGED <<attached, screen, cache, enabled, source, pc, next, il2cpp, engine, camera>>

(* Feature 500 of Changes. *)
SetEnabled ==
    /\ pc = "idle"
    /\ enabled' = ~enabled
    /\ UNCHANGED <<view, cache, source, pc, next, il2cpp, engine, camera>>

-----------------------------------------------------------------------------
(* The labels in FrameCache after buildFrame has built this frame. *)
LabelsAfter(drawn) == drawn.labels

(* buildFrame returns, onDraw draws its shapes and the cached labels. *)
EndFrame(drawn) ==
    /\ cache' = LabelsAfter(drawn)
    /\ screen' = [shapes |-> drawn.shapes, labels |-> cache']
    /\ pc' = "idle"

(* The traversal calls onDraw on an invalidated view; the canvas is clear. *)
DrawDisabled ==
    /\ pc = "idle" /\ dirty /\ attached /\ ~enabled
    /\ dirty' = FALSE
    /\ screen' = Blank
    /\ UNCHANGED <<attached, posted, cache, enabled, source, pc, next, il2cpp, engine, camera>>

DrawWithoutSource ==
    /\ pc = "idle" /\ dirty /\ attached /\ enabled /\ ~source
    /\ dirty' = FALSE
    /\ EndFrame(Blank)
    /\ UNCHANGED <<attached, posted, enabled, source, next, il2cpp, engine, camera>>

DrawFromSource ==
    /\ pc = "idle" /\ dirty /\ attached /\ enabled /\ source
    /\ dirty' = FALSE
    /\ pc' = IF il2cpp.cameraReady THEN "get_main"
             ELSE IF il2cpp.runtimeReady THEN "camera" ELSE "runtime"
    /\ next' = 1
    /\ UNCHANGED <<attached, posted, screen, cache, enabled, source, il2cpp, engine, camera>>

-----------------------------------------------------------------------------
(* viewProjection of the Unity adapter. *)
Unready == UNCHANGED <<attached, posted, dirty, enabled, source, engine, camera>>

(* Mutant of AllFound: the last symbol stands for all. *)
LastFound(ptr) == Symbols[Len(Symbols)] \in ptr
AllFound(ptr) == Range(Symbols) \subseteq ptr

Slot(n) == Symbols[n]

(* resolveRuntime: one lookup, which the game may overtake. *)
ResolveSymbol ==
    /\ pc = "runtime" /\ next <= Len(Symbols)
    /\ il2cpp' = [il2cpp EXCEPT !.ptr = IF engine >= Linked THEN @ \cup {Slot(next)}
                                                       ELSE @ \ {Slot(next)}]
    /\ next' = next + 1
    /\ UNCHANGED <<screen, cache, pc>> /\ Unready

RuntimeResolved ==
    /\ pc = "runtime" /\ next > Len(Symbols)
    /\ AllFound(il2cpp.ptr)
    /\ il2cpp' = [il2cpp EXCEPT !.runtimeReady = TRUE]
    /\ pc' = "camera"
    /\ UNCHANGED <<screen, cache, next>> /\ Unready

RuntimeMissing ==
    /\ pc = "runtime" /\ next > Len(Symbols)
    /\ ~AllFound(il2cpp.ptr)
    /\ EndFrame(Blank)
    /\ UNCHANGED <<next, il2cpp>> /\ Unready

(* resolveCamera once the runtime is there; without a domain or without    *)
(* the class and its getters the frame is skipped, the attachment stays.   *)
CameraResolved ==
    /\ pc = "camera" /\ engine >= HasClasses
    /\ il2cpp' = [il2cpp EXCEPT !.attached = TRUE, !.cameraReady = TRUE]
    /\ pc' = "get_main"
    /\ UNCHANGED <<screen, cache, next>> /\ Unready

CameraMissing ==
    /\ pc = "camera" /\ engine < HasClasses
    /\ il2cpp' = [il2cpp EXCEPT !.attached = @ \/ engine >= HasDomain]
    /\ EndFrame(Blank)
    /\ UNCHANGED next /\ Unready

GetMain ==
    /\ pc = "get_main"
    /\ IF camera THEN pc' = "matrices" /\ UNCHANGED <<screen, cache>> ELSE EndFrame(Blank)
    /\ UNCHANGED <<next, il2cpp>> /\ Unready

(* A camera that went away since get_main raises an exception. *)
ReadMatrices ==
    /\ pc = "matrices"
    /\ EndFrame(IF camera THEN Filled ELSE Blank)
    /\ UNCHANGED <<next, il2cpp>> /\ Unready

onDraw == DrawDisabled \/ DrawWithoutSource \/ DrawFromSource
viewProjection ==
    \/ ResolveSymbol \/ RuntimeResolved \/ RuntimeMissing
    \/ CameraResolved \/ CameraMissing \/ GetMain \/ ReadMatrices

-----------------------------------------------------------------------------
(* hack_thread installs the source once it has seen the library mapped. *)
installUnitySource ==
    /\ engine >= Mapped /\ ~source
    /\ source' = TRUE
    /\ UNCHANGED <<view, cache, enabled, pc, next, il2cpp, engine, camera>>

GameStarts ==
    /\ engine < HasClasses
    /\ engine' = engine + 1
    /\ UNCHANGED <<view, cache, enabled, source, pc, next, il2cpp, camera>>

CameraChanges ==
    /\ engine = HasClasses
    /\ camera' = ~camera
    /\ UNCHANGED <<view, cache, enabled, source, pc, next, il2cpp, engine>>

Next ==
    \/ attach \/ detach \/ doFrame \/ SetEnabled
    \/ onDraw \/ viewProjection
    \/ installUnitySource \/ GameStarts \/ CameraChanges

(* The UI thread runs its messages and finishes what it draws, hack_thread *)
(* gets to its end and the game finishes starting.                         *)
Fairness ==
    /\ WF_vars(doFrame) /\ WF_vars(onDraw) /\ WF_vars(viewProjection)
    /\ WF_vars(installUnitySource) /\ WF_vars(GameStarts)

Spec == Init /\ [][Next]_vars /\ Fairness

-----------------------------------------------------------------------------
TypeOK ==
    /\ attached \in BOOLEAN /\ posted \in BOOLEAN /\ dirty \in BOOLEAN
    /\ screen \in [shapes : BOOLEAN, labels : BOOLEAN]
    /\ cache \in BOOLEAN /\ enabled \in BOOLEAN /\ source \in BOOLEAN
    /\ pc \in {"idle", "runtime", "camera", "get_main", "matrices"}
    /\ next \in 1 .. Len(Symbols) + 1
    /\ il2cpp \in [ptr : SUBSET Range(Symbols), runtimeReady : BOOLEAN,
                   cameraReady : BOOLEAN, attached : BOOLEAN]
    /\ engine \in Absent .. HasClasses /\ camera \in BOOLEAN

(***************************************************************************)
(* The adapter calls into il2cpp only through pointers it has found, and   *)
(* runs managed code only on an attached thread, although the library may  *)
(* link between two of its lookups and most frames start half resolved.    *)
(***************************************************************************)
CallsLegal ==
    /\ pc \in {"camera", "get_main", "matrices"} => Range(Symbols) \subseteq il2cpp.ptr
    /\ pc \in {"get_main", "matrices"} => il2cpp.attached /\ engine = HasClasses

(* A frame that was skipped shows no label of an earlier one: the label    *)
(* cache and the shapes drawn beside it are of the same frame.             *)
LabelsOfFrame == screen.labels => screen.shapes

(***************************************************************************)
(* Once the overlay stays up, switched on, with a main camera, entities    *)
(* come on screen and stay there, whatever the user switched before and    *)
(* however far the game was at the time.                                   *)
(***************************************************************************)
EntitiesAppear == <>[](attached /\ enabled /\ camera) => <>[](screen.shapes)

(* Switching the overlay off takes its last frame off the screen: "canvas  *)
(* already cleared; leave the screen untouched" (ESPView.java:134).        *)
OffClears == ~enabled ~> (enabled \/ screen = Blank)
=============================================================================
