------------------------------ MODULE GameHooks ------------------------------
(***************************************************************************)
(* hack_thread of Main.cpp and the functions it hooks: the thread waits    *)
(* for the game library, looks up the function Update will call, installs  *)
(* its hooks once, instruments a function (Instruments) and ends.          *)
(* Meanwhile the menu sets btnPressed and switches the instrumentation of  *)
(* feature 5, and the game calls what is hooked by then.                   *)
(*                                                                         *)
(* The library shows in /proc/self/maps while the linker is still loading  *)
(* it under its lock; a lookup by xDL iterates the linker's list and waits *)
(* for that lock.                                                          *)
(***************************************************************************)
EXTENDS Integers, Sequences, Instruments

CONSTANT Exported \* the game's library exports the symbol _characterPlayer_Update

ASSUME GameAssumption ==
    /\ Exported \in BOOLEAN
    /\ Callers = {"hack_thread", "Changes"}

NULL == "null"

(* Mutant of Steps: Update is hooked first. *)
StepsUpdateFirst == <<"Update", "byOffset", "bySymbol", "AddCoins", "AddScore">>
(* What hack_thread does in turn once the library is there. *)
Steps == <<"byOffset", "bySymbol", "AddCoins", "AddScore", "Update">>
Hooks == {"AddCoins", "AddScore", "Update"}

VARIABLES
    library,          \* "absent", "linking" (mapped), "linked"
    hackPc,           \* "waiting", then how many Steps are done
    StartInvcibility, \* the pointer Update calls
    hooked,           \* functions of the game that run ours instead
    btnPressed,       \* the button's flag
    updatePc,         \* where the game's thread is in Update
    running,          \* the process has not called a null pointer
    owed              \* the button was pressed and no call has begun since

gameVars == <<updatePc, running, owed>>
vars == <<library, hackPc, StartInvcibility, hooked, btnPressed, gameVars, instVars>>

Init ==
    /\ library = "absent" /\ hackPc = -1
    /\ StartInvcibility = NULL /\ hooked = {}
    /\ btnPressed = FALSE /\ updatePc = "out" /\ running = TRUE /\ owed = FALSE
    /\ instInit

-----------------------------------------------------------------------------
(* The game's linker. *)
MapLibrary ==
    /\ library = "absent" /\ library' = "linking"
    /\ UNCHANGED <<hackPc, StartInvcibility, hooked, btnPressed, gameVars, instVars>>

FinishLinking ==
    /\ library = "linking" /\ library' = "linked"
    /\ UNCHANGED <<hackPc, StartInvcibility, hooked, btnPressed, gameVars, instVars>>

-----------------------------------------------------------------------------
isLibraryLoaded == library # "absent"

(* getAbsoluteAddress waits for the linker; what is looked up is found in  *)
(* a linked library, a symbol only if it is exported.                      *)
CanLookUp   == library # "linking"
Found(what) == library = "linked" /\ (what = "bySymbol" => Exported)

LeaveLoop ==
    /\ running /\ hackPc = -1 /\ isLibraryLoaded
    /\ hackPc' = 0
    /\ UNCHANGED <<library, StartInvcibility, hooked, btnPressed, gameVars, instVars>>

(* Main.cpp:309-310: both lookups assign, the second wins. *)
AssignStart ==
    /\ running /\ hackPc \in 0 .. Len(Steps) - 1 /\ CanLookUp
    /\ Steps[hackPc + 1] \notin Hooks
    /\ StartInvcibility' = IF Found(Steps[hackPc + 1]) THEN Steps[hackPc + 1] ELSE NULL
    /\ hackPc' = hackPc + 1
    /\ UNCHANGED <<library, hooked, btnPressed, gameVars, instVars>>

(* HOOK and install_hook_AddScore skip an address that is not found. *)
InstallHook ==
    /\ running /\ hackPc \in 0 .. Len(Steps) - 1 /\ CanLookUp
    /\ Steps[hackPc + 1] \in Hooks
    /\ hooked' = IF Found(Steps[hackPc + 1]) THEN hooked \cup {Steps[hackPc + 1]} ELSE hooked
    /\ hackPc' = hackPc + 1
    /\ UNCHANGED <<library, StartInvcibility, btnPressed, gameVars, instVars>>

-----------------------------------------------------------------------------
(* Mutant of Pressed: a press before the hook is in is dropped. *)
PressedIfHooked == btnPressed \/ "Update" \in hooked
Pressed == TRUE

(* Changes: the button.  Update clears the flag after the call, so a press *)
(* between the two is merged with the one answered.                        *)
PressButton ==
    /\ running
    /\ btnPressed' = Pressed /\ owed' = (owed \/ updatePc # "clear")
    /\ UNCHANGED <<library, hackPc, StartInvcibility, hooked, updatePc, running, instVars>>

-----------------------------------------------------------------------------
(* INST, the last thing hack_thread does before it installs the ESP source. *)
InstrumentLast ==
    /\ running /\ hackPc = Len(Steps) /\ CanLookUp
    /\ IF Found("byOffset") THEN \E a \in Addresses : INST("hack_thread", a, TRUE)
                            ELSE UNCHANGED instVars
    /\ hackPc' = hackPc + 1
    /\ UNCHANGED <<library, StartInvcibility, hooked, btnPressed, gameVars>>

(* Feature 5 of Changes, on the UI thread. *)
SwitchInstrument(a, boolean) ==
    /\ running /\ CanLookUp /\ Found("byOffset")
    /\ INST("Changes", a, boolean)
    /\ UNCHANGED <<library, hackPc, StartInvcibility, hooked, btnPressed, gameVars>>

DobbyInstrumentWrapper(c) ==
    /\ running /\ Proceed(c)
    /\ UNCHANGED <<library, hackPc, StartInvcibility, hooked, btnPressed, gameVars>>

-----------------------------------------------------------------------------
(* Update, once per frame of the game. *)
CheckButton ==
    /\ running /\ "Update" \in hooked /\ updatePc = "out" /\ btnPressed
    /\ updatePc' = "call"
    /\ UNCHANGED <<library, hackPc, StartInvcibility, hooked, btnPressed, running, owed, instVars>>

CallStart ==
    /\ running /\ updatePc = "call"
    /\ running' = (StartInvcibility # NULL)
    /\ updatePc' = "clear" /\ owed' = FALSE
    /\ UNCHANGED <<library, hackPc, StartInvcibility, hooked, btnPressed, instVars>>

ClearButton ==
    /\ running /\ updatePc = "clear"
    /\ btnPressed' = FALSE /\ updatePc' = "out"
    /\ UNCHANGED <<library, hackPc, StartInvcibility, hooked, running, owed, instVars>>

hack_thread == LeaveLoop \/ AssignStart \/ InstallHook \/ InstrumentLast
Update      == CheckButton \/ CallStart \/ ClearButton

Next ==
    \/ MapLibrary \/ FinishLinking \/ hack_thread
    \/ PressButton \/ (\E a \in Addresses, b \in BOOLEAN : SwitchInstrument(a, b))
    \/ (\E c \in Callers : DobbyInstrumentWrapper(c))
    \/ Update

(* The game loads its library and keeps calling Update, hack_thread runs;  *)
(* nobody has to press a button.                                           *)
Fairness ==
    WF_vars(MapLibrary) /\ WF_vars(FinishLinking) /\ WF_vars(hack_thread) /\ WF_vars(Update)

Spec == Init /\ [][Next]_vars /\ Fairness

-----------------------------------------------------------------------------
TypeOK ==
    /\ library \in {"absent", "linking", "linked"}
    /\ hackPc \in -1 .. Len(Steps) + 1
    /\ StartInvcibility \in {NULL, "byOffset", "bySymbol"}
    /\ hooked \subseteq Hooks
    /\ btnPressed \in BOOLEAN /\ running \in BOOLEAN /\ owed \in BOOLEAN
    /\ updatePc \in {"out", "call", "clear"}
    /\ instTypeOK

(* hack_thread tries its hooks once: by the time it ends, all of them are  *)
(* in, because it did not start before the library was being loaded.       *)
HooksInstalled == hackPc >= Len(Steps) => hooked = Hooks

(* A press is answered by a call that begins after it, also a press made   *)
(* before the hook was in or while the game is in Update, except one that  *)
(* comes after the call and before the flag is cleared.                    *)
PressAnswered == owed ~> ~owed

(* Update never runs ahead of the pointer it calls: once it is hooked the  *)
(* pointer no longer changes.                                              *)
PointerSettled == []["Update" \in hooked => UNCHANGED StartInvcibility]_vars

(* A button press never makes the game call a null pointer (the code does  *)
(* not keep this where the symbol is not exported).                        *)
NullNeverCalled == running

(* Hooks and instruments: well-typed states, hack_thread does not end      *)
(* without its hooks, and what runs is recorded.                           *)
HooksInv == TypeOK /\ HooksInstalled /\ RunningIsRecorded
=============================================================================
