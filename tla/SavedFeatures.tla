---------------------------- MODULE SavedFeatures ----------------------------
(***************************************************************************)
(* The life of a feature's value across three stores: the widget of        *)
(* Menu.java that shows it, the native variable that Changes of Main.cpp   *)
(* sets, and the preference of Preferences.java that survives the process. *)
(*                                                                         *)
(* The menu is constructed (settings panel first), waits for the game      *)
(* library when saved features are to be restored, then builds its         *)
(* widgets and pushes their values to native code.  A preference write is  *)
(* visible at once to readers in the process, and reaches the disk later,  *)
(* or never if the process dies first (SharedPreferences.Editor.apply).    *)
(*                                                                         *)
(* Toggle stands for Toggle, CheckBox and ButtonOnOff, which differ only   *)
(* in looks.  PatchToggles are the toggles whose Changes handler patches   *)
(* the game's code, which is a no-op until the library can be resolved.    *)
(***************************************************************************)
EXTENDS Integers, Sequences

CONSTANTS
    Toggles, PatchToggles, DefaultOn,        \* boolean features; "True_" in their entry
    Sliders, SliderMin, SliderMax,           \* SeekBar features and their bounds
    Spinners, Positions,                     \* Spinner features, indices of their items
    NativeInit,                              \* the initial values of the native variables
    Unset,                                   \* the preference is not there
    MaxWrites                                \* bound: writes waiting for the disk

Features == Toggles \cup Sliders \cup Spinners
Settings == {"-1"}           \* the toggle "Save feature preferences"

ASSUME PatchAssumption  == PatchToggles \subseteq Toggles /\ DefaultOn \in [Toggles -> BOOLEAN]
ASSUME SliderAssumption == \A f \in Sliders : SliderMin[f] \in Nat /\ SliderMax[f] \in Nat
                                                /\ NativeInit[f] \in SliderMin[f] .. SliderMax[f]
ASSUME NamesAssumption  == Settings \cap Features = {} /\ 0 \in Positions
ASSUME KindsAssumption  ==
    /\ Toggles \cap Sliders = {} /\ Toggles \cap Spinners = {} /\ Sliders \cap Spinners = {}
    /\ DOMAIN NativeInit = Features
    /\ \A f \in Toggles : NativeInit[f] \in BOOLEAN
    /\ \A f \in Spinners : NativeInit[f] \in Positions
ASSUME UnsetAssumption  ==
    Unset \notin BOOLEAN /\ Unset \notin Positions /\ \A f \in Sliders : Unset \notin 0 .. SliderMax[f]

VARIABLES
    phase,          \* "dead", "waiting" (menu constructed), "shown" (widgets built)
    linked,         \* the linker has the game library
    mainLibLoaded,  \* the flag hack_thread sets when it sees the library
    stopChecking,   \* "Force load menu" was pressed
    loadPref,       \* Preferences.loadPref: saved values are to be restored
    prefs,          \* the preferences as the process sees them
    queue,          \* snapshots of prefs on their way to the disk, oldest first
    disk,           \* the preferences file
    widget,         \* the value each widget shows
    native,         \* the value native code uses
    unsettled,      \* spinners whose first selection callback is still to come
    skipped,        \* patch toggles whose last Changes found no library
    kept            \* saving has been on since the widgets were restored

processVars == <<linked, mainLibLoaded, stopChecking, loadPref>>
storeVars   == <<prefs, queue>>
panelVars   == <<widget, native, unsettled, skipped, kept>>
vars == <<phase, processVars, storeVars, disk, panelVars>>

ValuesOf(k) ==
    CASE k \in Toggles \cup Settings -> BOOLEAN
      [] k \in Sliders               -> 0 .. SliderMax[k]
      [] k \in Spinners              -> Positions

NoPrefs == [k \in Features \cup Settings |-> Unset]

IsPrefs(p) ==
    /\ DOMAIN p = Features \cup Settings
    /\ \A k \in DOMAIN p : p[k] = Unset \/ p[k] \in ValuesOf(k)

TypeOK ==
    /\ phase \in {"dead", "waiting", "shown"}
    /\ \A b \in {linked, mainLibLoaded, stopChecking, loadPref, kept} : b \in BOOLEAN
    /\ IsPrefs(prefs) /\ IsPrefs(disk)
    /\ \A i \in 1 .. Len(queue) : IsPrefs(queue[i])
    /\ DOMAIN widget = Features /\ DOMAIN native = Features
    /\ \A f \in Features : widget[f] \in ValuesOf(f) /\ native[f] \in ValuesOf(f)
    /\ unsettled \subseteq Spinners /\ skipped \subseteq PatchToggles

Init ==
    /\ phase = "dead"
    /\ linked = FALSE /\ mainLibLoaded = FALSE /\ stopChecking = FALSE
    /\ loadPref = FALSE
    /\ prefs = NoPrefs /\ disk = NoPrefs /\ queue = << >>
    /\ native = NativeInit /\ widget = NativeInit
    /\ unsettled = {} /\ skipped = {} /\ kept = FALSE

-----------------------------------------------------------------------------

readBoolean(p, k, default) == IF p[k] = Unset THEN default ELSE p[k]
readInt(p, k)              == IF p[k] = Unset THEN 0 ELSE p[k]

(* What the widget of feature f shows when it is built from preferences p. *)
Shows(f, p, restoring) ==
    IF f \in Toggles
    THEN IF restoring THEN readBoolean(p, f, DefaultOn[f]) ELSE DefaultOn[f]
    ELSE LET loaded == IF restoring THEN readInt(p, f) ELSE 0
         IN  IF f \in Sliders /\ loaded = 0 THEN SliderMin[f] ELSE loaded

(* Mutant of AfterChanges: the handler trusts hack_thread's flag instead of *)
(* looking the library up.                                                 *)
AfterFlaggedChanges(f, v) == IF f \in PatchToggles /\ ~mainLibLoaded THEN native[f] ELSE v

(* The value native code uses after Changes(f, v): patches need the library. *)
AfterChanges(f, v) == IF f \in PatchToggles /\ ~linked THEN native[f] ELSE v

(* SharedPreferences.edit()...apply() *)
ApplyWrites(snapshots) ==
    /\ Len(queue) + Len(snapshots) <= MaxWrites
    /\ queue' = queue \o snapshots
    /\ prefs' = snapshots[Len(snapshots)]

-----------------------------------------------------------------------------
(* The constructor of Menu builds the settings panel, whose first toggle   *)
(* decides loadPref.                                                       *)
ConstructMenu(p) ==
    /\ phase' = "waiting"
    /\ stopChecking' = FALSE
    /\ loadPref' = readBoolean(p, "-1", FALSE)

(* The process starts and the Launcher constructs the menu. *)
StartProcess ==
    /\ phase = "dead"
    /\ prefs' = disk
    /\ ConstructMenu(disk)
    /\ UNCHANGED <<linked, mainLibLoaded, queue, disk, panelVars>>

(* The service or activity is created again in a process that lives on. *)
RebuildMenu ==
    /\ phase = "shown"
    /\ ConstructMenu(prefs)
    /\ unsettled' = {} /\ kept' = FALSE
    /\ UNCHANGED <<linked, mainLibLoaded, storeVars, disk, widget, native, skipped>>

(* Mutant of Ready: the library is never noticed. *)
ReadyIfForced == ~loadPref \/ stopChecking

(* The runnable of ShowMenu stops posting itself. *)
Ready == ~loadPref \/ mainLibLoaded \/ stopChecking

(* The delayed run of ShowMenu: wait for the library or build the widgets. *)
ShowMenu ==
    /\ phase = "waiting"
    /\ Ready
    /\ phase' = "shown"
    /\ widget' = [f \in Features |-> Shows(f, prefs, loadPref)]
    /\ native' = [f \in Features |->
                    IF f \in Toggles THEN AfterChanges(f, widget'[f])
                    ELSE IF loadPref THEN readInt(prefs, f)
                    ELSE native[f]]
    /\ skipped' = IF linked THEN {} ELSE PatchToggles
    /\ unsettled' = Spinners
    /\ kept' = (loadPref /\ prefs["-1"] = TRUE)
    /\ UNCHANGED <<processVars, storeVars, disk>>

ForceLoad ==
    /\ phase = "waiting" /\ loadPref /\ ~mainLibLoaded /\ ~stopChecking
    /\ stopChecking' = TRUE
    /\ UNCHANGED <<phase, linked, mainLibLoaded, loadPref, storeVars, disk, panelVars>>

(* changeFeatureBool and changeFeatureInt: save, then tell native code. *)
ChangeFeature(f, v) ==
    /\ phase = "shown"
    /\ ApplyWrites(<<[prefs EXCEPT ![f] = v]>>)
    /\ widget' = [widget EXCEPT ![f] = v]
    /\ native' = [native EXCEPT ![f] = AfterChanges(f, v)]
    /\ skipped' = IF f \in PatchToggles /\ ~linked THEN skipped \cup {f} ELSE skipped \ {f}
    /\ UNCHANGED <<phase, processVars, disk, kept>>

FlipToggle(f) == ChangeFeature(f, ~widget[f]) /\ UNCHANGED unsettled

(* onProgressChanged(i): below Android 8 the bar itself starts at 0. *)
Seek(f, i) == ChangeFeature(f, IF i < SliderMin[f] THEN SliderMin[f] ELSE i) /\ UNCHANGED unsettled

(* onItemSelected fires for the user's choice, and once after layout. *)
SelectItem(f, i) ==
    /\ f \in unsettled => i = widget[f]
    /\ ChangeFeature(f, i)
    /\ unsettled' = unsettled \ {f}

(* The save toggle writes itself twice and, when switched off, clears. *)
SwitchSave ==
    /\ phase # "dead"
    /\ LET b == ~readBoolean(prefs, "-1", FALSE)
           p == [prefs EXCEPT !["-1"] = b]
       IN  ApplyWrites(IF b THEN <<p>> ELSE <<p, NoPrefs>>)
    /\ kept' = FALSE
    /\ UNCHANGED <<phase, processVars, disk, widget, native, unsettled, skipped>>

-----------------------------------------------------------------------------
(* Mutant of WriteToFile: the queue is not kept in order. *)
WriteAnyOrder ==
    /\ \E i \in 1 .. Len(queue) :
          /\ disk' = queue[i]
          /\ queue' = SubSeq(queue, 1, i - 1) \o SubSeq(queue, i + 1, Len(queue))
    /\ UNCHANGED <<phase, processVars, prefs, panelVars>>

(* A queued snapshot is written; older ones it overtakes are dropped. *)
WriteToFile ==
    /\ \E i \in 1 .. Len(queue) :
          /\ disk' = queue[i]
          /\ queue' = SubSeq(queue, i + 1, Len(queue))
    /\ UNCHANGED <<phase, processVars, prefs, panelVars>>

LinkLibrary ==
    /\ phase # "dead" /\ ~linked
    /\ linked' = TRUE
    /\ UNCHANGED <<phase, mainLibLoaded, stopChecking, loadPref, storeVars, disk, panelVars>>

(* hack_thread's loop finds the library in /proc/self/maps. *)
isLibraryLoaded ==
    /\ linked /\ ~mainLibLoaded
    /\ mainLibLoaded' = TRUE
    /\ UNCHANGED <<phase, linked, stopChecking, loadPref, storeVars, disk, panelVars>>

(* The process is killed or crashes; what was not written is lost. *)
Kill ==
    /\ phase # "dead"
    /\ phase' = "dead"
    /\ linked' = FALSE /\ mainLibLoaded' = FALSE /\ stopChecking' = FALSE
    /\ loadPref' = FALSE
    /\ prefs' = NoPrefs /\ queue' = << >>
    /\ native' = NativeInit /\ widget' = NativeInit
    /\ unsettled' = {} /\ skipped' = {} /\ kept' = FALSE
    /\ UNCHANGED disk

Next ==
    \/ StartProcess \/ RebuildMenu \/ ShowMenu \/ ForceLoad
    \/ \E f \in Toggles : FlipToggle(f)
    \/ \E f \in Sliders : \E i \in 0 .. SliderMax[f] : Seek(f, i)
    \/ \E f \in Spinners, i \in Positions : SelectItem(f, i)
    \/ SwitchSave
    \/ WriteToFile \/ LinkLibrary \/ isLibraryLoaded \/ Kill

(* The main looper runs the delayed ShowMenu and hack_thread never stops.  *)
Fairness == WF_vars(ShowMenu) /\ WF_vars(isLibraryLoaded)

Spec == Init /\ [][Next]_vars /\ Fairness

-----------------------------------------------------------------------------
(***************************************************************************)
(* The menu does not lie about toggles: what a toggle shows is what native *)
(* code does, except for a patch whose last call found no library.         *)
(***************************************************************************)
ShownIsNative ==
    phase = "shown" => \A f \in Toggles \ skipped : widget[f] = native[f]

(***************************************************************************)
(* Why ShowMenu waits (Menu.java:338-350): when saved features are         *)
(* restored and the user did not force the menu, no patch is skipped.      *)
(***************************************************************************)
RestoreFindsLibrary ==
    phase = "shown" /\ kept /\ ~stopChecking => skipped = {}

(***************************************************************************)
(* A kill loses nothing once the disk has caught up: while saving has been *)
(* on since the widgets were restored, the file rebuilds every widget with *)
(* the value it shows now.                                                 *)
(***************************************************************************)
SavedIsShown ==
    phase = "shown" /\ kept /\ queue = << >> =>
        /\ disk["-1"] = TRUE
        /\ \A f \in Features : Shows(f, disk, TRUE) = widget[f]

(* Once the library is there, the menu does not wait for ever. *)
MenuAppears == phase = "waiting" /\ linked ~> phase # "waiting"

(* A slider's native value stays within its bounds: a value below the      *)
(* minimum is never used (Menu.java:722-724).                              *)
SliderStaysInRange ==
    \A f \in Sliders : native[f] \in SliderMin[f] .. SliderMax[f]

(* Switching the save toggle off clears the preferences (Menu.java:682):   *)
(* no process starts with saving switched off and saved features.          *)
OffMeansCleared ==
    [][phase = "dead" /\ phase' = "waiting" /\ disk["-1"] = FALSE =>
          \A f \in Features : disk[f] = Unset]_vars

(* The file and what is restored from it: every state is well typed, a     *)
(* restored patch finds its library, and once the disk has caught up the   *)
(* file rebuilds what is shown.                                            *)
SavedInv == TypeOK /\ RestoreFindsLibrary /\ SavedIsShown
=============================================================================
