----------------------------- MODULE MenuInputs -----------------------------
(***************************************************************************)
(* Numbers, long numbers and texts that are typed into a dialog of         *)
(* Menu.java, and groups of radio buttons: what is typed or chosen, what   *)
(* native code is told, what is saved and what a later process restores.   *)
(*                                                                         *)
(* A preference has a type, and is found by the feature's number alone: an *)
(* update of the game's mod may bring a list in which the number belongs   *)
(* to another kind of feature, another limit or a shorter group.           *)
(* Texts are numbered, 0 being the empty one.  The waiting for the library *)
(* and the writing of the file are those of SavedFeatures.                 *)
(***************************************************************************)
EXTENDS Integers, FiniteSets

CONSTANTS
    Numbers,          \* feature numbers
    Versions,            \* the lists of the mod's versions: number -> [kind, max, choices]
    IntMax, LongMax,  \* the largest int and the largest long
    TextCount         \* bound: texts besides the empty one

InputKinds == {"InputValue", "InputLValue", "InputText", "RadioButton"}

ASSUME InputsAssumption ==
    /\ Numbers \subseteq Nat /\ IsFiniteSet(Numbers)
    /\ IntMax \in Nat /\ LongMax \in Nat /\ TextCount \in Nat
    /\ Versions \subseteq [Numbers -> [kind : InputKinds, max : Nat, choices : Nat]]

VARIABLES
    features,  \* the list of the mod that is installed
    up,        \* the menu is there
    restoring, \* loadPref
    saving,    \* the preference "-1"
    stored,    \* number -> its preference and the list it was written under
    shown,     \* number -> what its widget shows
    told,      \* number -> what native code was told last
    unread,    \* numbers whose widget was built without telling native code
    carried,   \* numbers native code was told of from a preference of another list
    behind,    \* numbers whose widget was replaced while their dialog was open
    dialog,    \* NoDialog, or whose dialog is open, and whether the menu it came from is gone
    kept,      \* saving has been on since the widgets were built
    threw      \* numbers at which building the menu threw

inputVars == <<features, up, restoring, saving, stored, shown, told, unread, carried, behind, dialog, kept, threw>>

NoDialog == [of |-> -1, old |-> FALSE]
Unwritten == [type |-> "none", value |-> 0, under |-> features]
NoValues == [n \in Numbers |-> 0]

InputsInit ==
    /\ features \in Versions
    /\ up = FALSE /\ restoring = FALSE /\ saving = FALSE /\ kept = FALSE
    /\ stored = [n \in Numbers |-> Unwritten]
    /\ shown = NoValues /\ told = NoValues
    /\ unread = {} /\ carried = {} /\ behind = {} /\ threw = {} /\ dialog = NoDialog

-----------------------------------------------------------------------------
TypeOf(kind) == CASE kind = "InputLValue" -> "long" [] kind = "InputText" -> "string" [] OTHER -> "int"

(* readInt(int), readLong, readString(int): the first and the last catch   *)
(* the exception of a preference of another type.                          *)
Read(p, kind) == IF p.type = TypeOf(kind) THEN p.value ELSE 0

(* loadPrefInt, loadPrefLong, loadPrefString *)
Loads(n, list, load) == load \/ (list[n].kind = "InputText" /\ n <= 0)
Loaded(n, list, load) == IF Loads(n, list, load) THEN Read(stored[n], list[n].kind) ELSE 0

(* readLong of another type; a radio button behind the end of the group.   *)
Throws(n, list, load) ==
    /\ Loads(n, list, load)
    /\ \/ list[n].kind = "InputLValue" /\ stored[n].type \notin {"none", "long"}
       \/ list[n].kind = "RadioButton" /\ Loaded(n, list, load) > list[n].choices

(* The preference was written under another list. *)
Outdated(n, list) == stored[n].type # "none" /\ stored[n].under # list

(* What the widget shows: no radio button is chosen by an index below 1.   *)
Shows(n, list, load) ==
    LET v == Loaded(n, list, load)
    IN  IF list[n].kind = "RadioButton" /\ v < 1 THEN 0 ELSE v

(* The constructor reads loadPref, and ShowMenu builds one widget after    *)
(* the other; one that throws ends the process.                            *)
BuildMenu(list, load) ==
    LET failing == {n \in Numbers : Throws(n, list, load)} IN
    /\ restoring' = load /\ features' = list /\ threw' = failing
    /\ up' = (failing = {})
    /\ IF failing # {}
       THEN shown' = NoValues /\ told' = NoValues /\ unread' = {} /\ carried' = {} /\ kept' = FALSE
       ELSE /\ shown' = [n \in Numbers |-> Shows(n, list, load)]
            /\ told' = [n \in Numbers |-> IF Loads(n, list, load) THEN Loaded(n, list, load) ELSE told[n]]
            /\ unread' = {n \in Numbers : ~Loads(n, list, load)}
            /\ carried' = {n \in Numbers : IF Loads(n, list, load) THEN Outdated(n, list) ELSE n \in carried}
            /\ kept' = (load /\ saving)
    /\ behind' = {}
    /\ UNCHANGED <<saving, stored>>

(* The process starts, perhaps after an update. *)
StartWith(list) == ~up /\ dialog = NoDialog /\ BuildMenu(list, saving) /\ UNCHANGED dialog

(* The service makes a new menu; a dialog of the old one stays open. *)
ShowMenuAgain ==
    /\ up /\ BuildMenu(features, saving)
    /\ dialog' = IF up' /\ dialog # NoDialog THEN [dialog EXCEPT !.old = TRUE] ELSE NoDialog

KillInputs ==
    /\ up /\ up' = FALSE
    /\ shown' = NoValues /\ told' = NoValues /\ unread' = {} /\ carried' = {} /\ behind' = {} /\ threw' = {}
    /\ dialog' = NoDialog /\ kept' = FALSE
    /\ UNCHANGED <<features, restoring, saving, stored>>

-----------------------------------------------------------------------------
(* What can be typed: numbers around the ends of what a word holds, what   *)
(* is no number ("-"), or a text.  An int field takes ten characters,      *)
(* which no number below the least int fits in.                            *)
Typed(kind) ==
    CASE kind = "InputValue"  -> [number : BOOLEAN, value : -1 .. IntMax + 1]
      [] kind = "InputLValue" -> [number : BOOLEAN, value : {-LongMax - 2, -1} \cup 0 .. LongMax + 1]
      [] OTHER                -> [number : {TRUE}, value : 0 .. TextCount]

WordMax(kind) == IF kind = "InputValue" THEN IntMax ELSE LongMax
Parses(kind, t) == t.number /\ -WordMax(kind) - 1 <= t.value /\ t.value <= WordMax(kind)
Limit(f) == IF f.max # 0 THEN f.max ELSE WordMax(f.kind)

(* Mutant of Entered: only what does not parse is limited. *)
EnteredUnlimited(f, t) ==
    IF f.kind = "InputText" \/ Parses(f.kind, t) THEN t.value ELSE Limit(f)

(* The button OK. *)
Entered(f, t) ==
    IF f.kind = "InputText" \/ (Parses(f.kind, t) /\ (f.max = 0 \/ t.value < f.max))
    THEN t.value ELSE Limit(f)

(* changeFeatureInt, changeFeatureLong, changeFeatureString.               *)
Change(n, v) ==
    /\ stored' = [stored EXCEPT ![n] = [type |-> TypeOf(features[n].kind), value |-> v, under |-> features]]
    /\ told' = [told EXCEPT ![n] = v]
    /\ unread' = unread \ {n} /\ carried' = carried \ {n}

OpenDialog(n) ==
    /\ up /\ dialog = NoDialog /\ features[n].kind # "RadioButton"
    /\ dialog' = [of |-> n, old |-> FALSE]
    /\ UNCHANGED <<features, up, restoring, saving, stored, shown, told, unread, carried, behind, kept, threw>>

CancelDialog ==
    /\ dialog # NoDialog /\ dialog' = NoDialog
    /\ UNCHANGED <<features, up, restoring, saving, stored, shown, told, unread, carried, behind, kept, threw>>

(* OK changes the button the dialog was opened from, which may be one of   *)
(* a menu that is gone.                                                    *)
Enter(t) ==
    LET n == dialog.of IN
    /\ dialog # NoDialog /\ t \in Typed(features[n].kind)
    /\ Change(n, Entered(features[n], t))
    /\ IF dialog.old THEN shown' = shown /\ behind' = behind \cup {n}
       ELSE shown' = [shown EXCEPT ![n] = Entered(features[n], t)] /\ behind' = behind \ {n}
    /\ dialog' = NoDialog
    /\ UNCHANGED <<features, up, restoring, saving, kept, threw>>

(* The group's first child is its title: the buttons count from 1. *)
Choose(n, i) ==
    /\ up /\ dialog = NoDialog /\ features[n].kind = "RadioButton" /\ i \in 1 .. features[n].choices
    /\ Change(n, i)
    /\ shown' = [shown EXCEPT ![n] = i]
    /\ UNCHANGED <<features, up, restoring, saving, behind, dialog, kept, threw>>

(* The save toggle; switching it off clears all preferences. *)
SwitchSaving ==
    /\ up /\ dialog = NoDialog
    /\ saving' = ~saving
    /\ stored' = IF saving THEN [n \in Numbers |-> Unwritten] ELSE stored
    /\ kept' = FALSE
    /\ UNCHANGED <<features, up, restoring, shown, told, unread, carried, behind, dialog, threw>>

InputsNext ==
    \/ \E list \in Versions : StartWith(list)
    \/ ShowMenuAgain \/ KillInputs \/ CancelDialog \/ SwitchSaving
    \/ \E n \in Numbers : OpenDialog(n) \/ \E i \in 1 .. features[n].choices : Choose(n, i)
    \/ \E kind \in InputKinds : \E t \in Typed(kind) : Enter(t)

-----------------------------------------------------------------------------
InputsTypeOK ==
    /\ features \in Versions
    /\ \A n \in Numbers : stored[n].type \in {"none", "int", "long", "string"}
    /\ unread \cup carried \subseteq Numbers /\ behind \subseteq Numbers /\ threw \subseteq Numbers
    /\ up => threw = {}

(* "Max value" (Menu.java:879): native code is never told more than the    *)
(* limit, typed or restored, unless another list's preference was.         *)
WithinMax ==
    \A n \in Numbers \ carried :
        features[n].kind \in {"InputValue", "InputLValue"} => told[n] <= Limit(features[n])

(* An input shows what native code was told, unless it was built without   *)
(* telling it, or its dialog outlived the menu.                            *)
InputsShowNative ==
    up => \A n \in Numbers \ (unread \cup behind) :
        shown[n] = told[n] \/ (features[n].kind = "RadioButton" /\ shown[n] = 0 /\ told[n] < 1)

(* While saving is on, the preferences rebuild what is shown. *)
InputsRestored ==
    up /\ kept => \A n \in Numbers \ behind : ~Throws(n, features, TRUE) /\ Shows(n, features, TRUE) = shown[n]

(* Building the menu throws only at what another list has saved: within    *)
(* one list every preference is read as it was written.                    *)
ThrowsOutdated == \A n \in threw : Outdated(n, features)

(* Inputs, from the dialog to the next process. *)
InputsInv == InputsTypeOK /\ WithinMax /\ InputsShowNative /\ InputsRestored /\ ThrowsOutdated
=============================================================================
