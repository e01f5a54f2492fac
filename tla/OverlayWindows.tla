--------------------------- MODULE OverlayWindows ---------------------------
(***************************************************************************)
(* The overlay's windows from the first permission check to the end of the *)
(* service: CheckOverlayPermission of Jni.cpp, the Launcher service, and   *)
(* what Menu.java does to its windows and panels.  All of it runs on the   *)
(* main thread except the exit timers; the user, the game and the system   *)
(* act in between.                                                         *)
(***************************************************************************)
EXTENDS Integers, Sequences, SequencesExt

CONSTANT MaxTimers \* bound: exit threads at a time

ASSUME MaxTimersAssumption == MaxTimers \in Nat

VARIABLES
    alive,        \* the process runs
    crashed,      \* it died of an exception of the menu
    permission,   \* the user allows drawing over other apps
    exitTimers,   \* exit_thread threads sleeping
    requested,    \* startService was called, onCreate is still to come
    service,      \* the Launcher service is created
    windows,      \* the service's windows, bottom first
    visible,      \* the visibility of rootFrame
    panel,        \* children of scrollView
    settingsOpen, \* what the settings icon believes
    library,      \* mainLibLoaded
    foreground    \* the process is in the foreground

start     == <<permission, exitTimers, requested>>
menu      == <<visible, panel, settingsOpen>>
game      == <<library, foreground>>
windowsVars == <<alive, crashed, start, service, windows, menu, game>>

WindowsInit ==
    /\ alive = TRUE /\ crashed = FALSE /\ permission \in BOOLEAN
    /\ exitTimers = 0 /\ requested = FALSE
    /\ service = FALSE /\ windows = << >>
    /\ visible = "VISIBLE" /\ panel = {"mods"} /\ settingsOpen = FALSE
    /\ library = FALSE /\ foreground = TRUE

(* The process ends, and with it everything but the permission. *)
ProcessEnds ==
    /\ alive' = FALSE
    /\ exitTimers' = 0 /\ requested' = FALSE
    /\ service' = FALSE /\ windows' = << >>
    /\ visible' = "VISIBLE" /\ panel' = {"mods"} /\ settingsOpen' = FALSE
    /\ library' = FALSE /\ foreground' = TRUE
    /\ UNCHANGED permission

-----------------------------------------------------------------------------
(* MainActivity.onCreate: Main.Start, CheckOverlayPermission. *)
StartAllowed ==
    /\ alive /\ permission
    /\ requested' = ~service    \* a second start only gets onStartCommand
    /\ UNCHANGED <<alive, crashed, permission, exitTimers, service, windows, menu, game>>

StartDenied ==
    /\ alive /\ ~permission /\ exitTimers < MaxTimers
    /\ exitTimers' = exitTimers + 1
    /\ UNCHANGED <<alive, crashed, permission, requested, service, windows, menu, game>>

Allow ==
    /\ ~permission /\ permission' = TRUE
    /\ UNCHANGED <<alive, crashed, exitTimers, requested, service, windows, menu, game>>

(* Mutant of Exits: the thread looks whether permission has been given. *)
ExitsIfDenied == exitTimers > 0 /\ ~permission
Exits == exitTimers > 0

(* exit(0) of exit_thread, five seconds after a denied start. *)
ExitThread ==
    /\ alive /\ Exits
    /\ ProcessEnds /\ UNCHANGED crashed

(* The system kills the process. *)
KillProcess ==
    /\ alive
    /\ ProcessEnds /\ UNCHANGED crashed

Relaunch ==
    /\ ~alive /\ alive' = TRUE /\ crashed' = FALSE
    /\ UNCHANGED <<start, service, windows, menu, game>>

-----------------------------------------------------------------------------
(* ESPView.attach, then SetWindowManagerWindowService of a new Menu. *)
Created == <<"esp", "menu">>

onCreate ==
    /\ alive /\ requested /\ ~service
    /\ requested' = FALSE /\ service' = TRUE
    /\ windows' = Created
    /\ visible' = "VISIBLE" /\ panel' = {"mods"} /\ settingsOpen' = FALSE
    /\ UNCHANGED <<alive, crashed, permission, exitTimers, game>>

(* Mutant of Hides: the library is not asked for. *)
HidesInBackground == ~foreground
Hides == library /\ ~foreground

Hidden == "INVISIBLE"

(* Thread, run by the handler every second. *)
Thread ==
    /\ service
    /\ visible' = IF Hides THEN Hidden ELSE "VISIBLE"
    /\ UNCHANGED <<alive, crashed, start, service, windows, panel, settingsOpen, game>>

(* onDestroy: ESPView.detach, then Menu.onDestroy, whose removeView throws *)
(* when the menu's window is not there.                                    *)
onDestroy ==
    /\ service /\ Contains(windows, "menu")
    /\ service' = FALSE
    /\ windows' = << >>
    /\ UNCHANGED <<alive, crashed, start, menu, game>>

onDestroyThrows ==
    /\ service /\ ~Contains(windows, "menu")
    /\ ProcessEnds /\ crashed' = TRUE

-----------------------------------------------------------------------------
(* The user's clicks, on a menu that is there and visible. *)
Clickable == Contains(windows, "menu") /\ visible = "VISIBLE"

(* addView on scrollView throws if it has a child. *)
Swapped(out, in) == IF panel \ {out} = {} THEN {in} ELSE panel \ {out}

IconShows == IF settingsOpen' THEN Swapped("mods", "settings") ELSE Swapped("settings", "mods")

ClickSettingsIcon ==
    /\ Clickable
    /\ settingsOpen' = ~settingsOpen
    /\ panel' = IconShows    \* an exception of addView is ignored
    /\ UNCHANGED <<alive, crashed, start, service, windows, visible, game>>

(* "Close settings", item -6 of the settings panel. *)
CloseSettings ==
    /\ Clickable /\ "settings" \in panel
    /\ panel' = Swapped("settings", "mods")
    /\ UNCHANGED <<alive, crashed, start, service, windows, visible, settingsOpen, game>>

(* HIDE/KILL, held: removeView. *)
KillMenu ==
    /\ Clickable
    /\ \E i \in DOMAIN windows : windows[i] = "menu" /\ windows' = RemoveAt(windows, i)
    /\ UNCHANGED <<alive, crashed, start, service, menu, game>>

-----------------------------------------------------------------------------
LoadLibrary ==
    /\ alive /\ ~library /\ library' = TRUE
    /\ UNCHANGED <<alive, crashed, start, service, windows, menu, foreground>>

SwitchApps ==
    /\ alive /\ foreground' = ~foreground
    /\ UNCHANGED <<alive, crashed, start, service, windows, menu, library>>

WindowsNext ==
    \/ StartAllowed \/ StartDenied \/ Allow \/ ExitThread \/ KillProcess \/ Relaunch
    \/ onCreate \/ Thread \/ onDestroy \/ onDestroyThrows
    \/ ClickSettingsIcon \/ CloseSettings \/ KillMenu
    \/ LoadLibrary \/ SwitchApps

-----------------------------------------------------------------------------
WindowsTypeOK ==
    /\ alive \in BOOLEAN /\ crashed \in BOOLEAN /\ permission \in BOOLEAN
    /\ exitTimers \in 0 .. MaxTimers /\ requested \in BOOLEAN /\ service \in BOOLEAN
    /\ windows \in Seq({"esp", "menu"})
    /\ visible \in {"VISIBLE", "INVISIBLE"}
    /\ panel \subseteq {"mods", "settings"} /\ settingsOpen \in BOOLEAN
    /\ library \in BOOLEAN /\ foreground \in BOOLEAN

(* "The click-through layer sits underneath the touchable mod menu"        *)
(* (Launcher.java:21-22), and no window outlives the service.              *)
WindowsInOrder ==
    /\ Contains(windows, "menu") => windows = <<"esp", "menu">>
    /\ ~service => windows = << >>

(* The scroll view shows the features or the settings, never both or       *)
(* neither, whatever mix of the icon and "Close settings" is clicked.      *)
OnePanel == panel \in {{"mods"}, {"settings"}}

(***************************************************************************)
(* While the service runs, the menu comes to be hidden when a game that is *)
(* loaded stays in the background, and comes back when it returns; without *)
(* a game library it stays, background or not.                             *)
(***************************************************************************)
MenuFollowsGame ==
    /\ <>[](service /\ library /\ ~foreground) => <>[](visible = "INVISIBLE")
    /\ <>[](service /\ ~(library /\ ~foreground)) => <>[](visible = "VISIBLE")

(* A start without permission ends the process, also when the user allows  *)
(* the overlay meanwhile and starts it again ("open Settings, exit process *)
(* in 5 s", ARCHITECTURE.md:58).                                           *)
DeniedExits == exitTimers > 0 ~> ~alive

(* Stopping the service does not crash the process it shares with the      *)
(* game: stopWithTask is there "to prevent game crashing after closing     *)
(* from task manager" (AndroidManifest.xml:27).                            *)
StopIsClean == ~crashed
=============================================================================
