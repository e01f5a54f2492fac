------------------------ MODULE SavedFeaturesProofs ------------------------
(***************************************************************************)
(* Proofs about saved features, for any features of the three kinds, any   *)
(* bounds and items, and any number of writes on their way to the disk.    *)
(***************************************************************************)
EXTENDS SavedFeatures, SequenceTheorems, TLAPS

Keys   == Features \cup Settings
Values == BOOLEAN \cup Nat \cup Positions \cup {Unset}
Prefs  == {p \in [Keys -> Values] : IsPrefs(p)}

(* What the disk holds once every write has reached it. *)
Latest == IF queue = << >> THEN disk ELSE queue[Len(queue)]

StoresTyped == prefs \in Prefs /\ disk \in Prefs /\ queue \in Seq(Prefs)

(* The writes on their way end in what the process sees. *)
WritesFollow == IF phase = "dead" THEN queue = << >> ELSE Latest = prefs

(* The flag of hack_thread tells the truth, and a menu that restored       *)
(* without being forced has seen the library.                              *)
LibrarySeen ==
    /\ mainLibLoaded => linked
    /\ phase = "shown" /\ kept /\ ~stopChecking => linked

(* While saving has been on, the preferences rebuild what is shown. *)
PrefsAreShown ==
    phase = "shown" /\ kept =>
        /\ prefs["-1"] = TRUE
        /\ \A f \in Features : Shows(f, prefs, TRUE) = widget[f]

Inv ==
    /\ TypeOK /\ StoresTyped /\ WritesFollow /\ LibrarySeen
    /\ PrefsAreShown /\ RestoreFindsLibrary /\ ShownIsNative

-----------------------------------------------------------------------------
(* The features of a kind take the values of that kind. *)
LEMMA ValuesOfKinds ==
    /\ ValuesOf("-1") = BOOLEAN
    /\ \A f \in Toggles : ValuesOf(f) = BOOLEAN
    /\ \A f \in Sliders : ValuesOf(f) = 0 .. SliderMax[f]
    /\ \A f \in Spinners : ValuesOf(f) = Positions
  BY NamesAssumption, KindsAssumption DEF ValuesOf, Settings, Features

(* No value of a feature stands for a preference that is not there. *)
LEMMA ValuesAreSet == \A k \in Keys : ValuesOf(k) \subseteq Values /\ Unset \notin ValuesOf(k)
<1>1. \A k \in Settings \cup Toggles : ValuesOf(k) = BOOLEAN
  BY ValuesOfKinds DEF Settings
<1>2. \A f \in Sliders : Unset \notin 0 .. SliderMax[f]
  BY UnsetAssumption
<1> QED
  BY <1>1, <1>2, ValuesOfKinds, UnsetAssumption, SliderAssumption DEF Keys, Features, Values

(* A preference that is written leaves the others as they were. *)
LEMMA PrefWritten ==
    ASSUME NEW p \in Prefs, NEW k \in Keys, NEW v \in ValuesOf(k)
    PROVE  /\ [p EXCEPT ![k] = v] \in Prefs
           /\ [p EXCEPT ![k] = v][k] = v
           /\ \A j \in Keys \ {k} : [p EXCEPT ![k] = v][j] = p[j]
  BY ValuesAreSet DEF Prefs, IsPrefs, Keys

LEMMA NoPrefsTyped == NoPrefs \in Prefs
  BY DEF NoPrefs, Prefs, IsPrefs, Keys, Values

(* A widget shows a value of its kind. *)
LEMMA ShowsTyped ==
    ASSUME NEW p \in Prefs, NEW f \in Features, NEW b \in BOOLEAN
    PROVE  Shows(f, p, b) \in ValuesOf(f)
<1>1. p[f] = Unset \/ p[f] \in ValuesOf(f)
  BY DEF Prefs, IsPrefs, Keys
<1>2. CASE f \in Toggles
  BY <1>1, <1>2, ValuesOfKinds, PatchAssumption DEF Shows, readBoolean
<1>3. CASE f \in Sliders
  <2>1. f \notin Toggles /\ SliderMin[f] \in 0 .. SliderMax[f] /\ 0 \in 0 .. SliderMax[f]
    BY <1>3, KindsAssumption, SliderAssumption
  <2> QED
    BY <1>1, <1>3, <2>1, ValuesOfKinds DEF Shows, readInt
<1>4. CASE f \in Spinners
  BY <1>1, <1>4, ValuesOfKinds, KindsAssumption, NamesAssumption DEF Shows, readInt
<1> QED
  BY <1>2, <1>3, <1>4 DEF Features

(* A snapshot that is queued is what will be on the disk in the end. *)
LEMMA QueueGrows ==
    ASSUME queue \in Seq(Prefs), NEW s \in Seq(Prefs), Len(s) > 0, queue' = queue \o s
    PROVE  /\ queue' \in Seq(Prefs) /\ queue' # << >>
           /\ queue'[Len(queue')] = s[Len(s)]
  OBVIOUS

(* Native variables and widgets start with values of their kind. *)
LEMMA InitialValues == \A f \in Features : NativeInit[f] \in ValuesOf(f)
<1>1. \A f \in Toggles : NativeInit[f] \in ValuesOf(f)
  BY ValuesOfKinds, KindsAssumption
<1>2. \A f \in Spinners : NativeInit[f] \in ValuesOf(f)
  BY ValuesOfKinds, KindsAssumption
<1>3. ASSUME NEW f \in Sliders PROVE NativeInit[f] \in ValuesOf(f)
  <2>1. NativeInit[f] \in SliderMin[f] .. SliderMax[f] /\ SliderMin[f] \in Nat /\ SliderMax[f] \in Nat
    BY SliderAssumption
  <2>2. NativeInit[f] \in 0 .. SliderMax[f]
    BY <2>1
  <2> QED
    BY <2>2, ValuesOfKinds
<1> QED
  BY <1>1, <1>2, <1>3 DEF Features

-----------------------------------------------------------------------------
(* A process that has not started, with nothing saved, is in order. *)
LEMMA InitInv == Init => Inv
<1> SUFFICES ASSUME Init PROVE Inv
  OBVIOUS
<1>1. StoresTyped
  BY NoPrefsTyped DEF Init, StoresTyped
<1>2. TypeOK
  <2>1. IsPrefs(prefs) /\ IsPrefs(disk)
    BY <1>1 DEF StoresTyped, Prefs
  <2>2. DOMAIN widget = Features /\ DOMAIN native = Features
    BY KindsAssumption DEF Init
  <2>3. \A f \in Features : widget[f] \in ValuesOf(f) /\ native[f] \in ValuesOf(f)
    BY InitialValues DEF Init
  <2>4. \A i \in 1 .. Len(queue) : IsPrefs(queue[i])
    BY DEF Init
  <2>5. phase = "dead" /\ \A b \in {linked, mainLibLoaded, stopChecking, loadPref, kept} : b \in BOOLEAN
    BY DEF Init
  <2> QED
    BY <2>1, <2>2, <2>3, <2>4, <2>5 DEF Init, TypeOK
<1> QED
  BY <1>1, <1>2 DEF Init, Inv, WritesFollow, LibrarySeen, PrefsAreShown, RestoreFindsLibrary, ShownIsNative

(* Steps that touch neither the stores nor what is shown. *)
LEMMA QuietInv ==
    ASSUME Inv, UNCHANGED <<storeVars, disk, panelVars>>,
           phase' = phase, loadPref' = loadPref,
           linked' \in BOOLEAN, mainLibLoaded' \in BOOLEAN, stopChecking' \in BOOLEAN,
           linked => linked', mainLibLoaded' => linked', stopChecking => stopChecking',
           phase = "shown" => stopChecking' = stopChecking
    PROVE  Inv'
<1> USE DEF Inv, storeVars, panelVars
<1>1. TypeOK' /\ StoresTyped'
  BY DEF TypeOK, StoresTyped, IsPrefs
<1>2. WritesFollow'
  BY DEF WritesFollow, Latest
<1>3. LibrarySeen' /\ RestoreFindsLibrary' /\ ShownIsNative'
  BY DEF LibrarySeen, RestoreFindsLibrary, ShownIsNative
<1>4. PrefsAreShown'
  BY DEF PrefsAreShown, Shows, readBoolean, readInt
<1> QED
  BY <1>1, <1>2, <1>3, <1>4

(* A menu that is constructed again shows nothing yet. *)
LEMMA ConstructInv ==
    ASSUME Inv, StartProcess \/ RebuildMenu
    PROVE  Inv'
<1> USE DEF Inv
<1>1. ASSUME NEW p \in Prefs, ConstructMenu(p) PROVE loadPref' \in BOOLEAN /\ phase' = "waiting" /\ stopChecking' = FALSE
  <2>1. p["-1"] = Unset \/ p["-1"] \in BOOLEAN
    BY ValuesOfKinds DEF Prefs, IsPrefs, Keys, Settings
  <2> QED
    BY <1>1, <2>1 DEF ConstructMenu, readBoolean
<1>2. CASE StartProcess
  <2>1. loadPref' \in BOOLEAN /\ phase' = "waiting" /\ stopChecking' = FALSE
    BY <1>1, <1>2 DEF StartProcess, StoresTyped
  <2>2. StoresTyped' /\ TypeOK'
    BY <1>2, <2>1 DEF StartProcess, StoresTyped, TypeOK, panelVars, IsPrefs
  <2>3. WritesFollow'
    BY <1>2, <2>1 DEF StartProcess, WritesFollow, Latest
  <2> QED
    BY <1>2, <2>1, <2>2, <2>3 DEF StartProcess, LibrarySeen, PrefsAreShown, RestoreFindsLibrary, ShownIsNative
<1>3. CASE RebuildMenu
  <2>1. loadPref' \in BOOLEAN /\ phase' = "waiting" /\ stopChecking' = FALSE
    BY <1>1, <1>3 DEF RebuildMenu, StoresTyped
  <2>2. StoresTyped' /\ TypeOK'
    BY <1>3, <2>1 DEF RebuildMenu, StoresTyped, TypeOK, storeVars, IsPrefs
  <2>3. WritesFollow'
    BY <1>3, <2>1 DEF RebuildMenu, WritesFollow, Latest, storeVars
  <2> QED
    BY <1>3, <2>1, <2>2, <2>3 DEF RebuildMenu, LibrarySeen, PrefsAreShown, RestoreFindsLibrary, ShownIsNative
<1> QED
  BY <1>2, <1>3

(* The widgets are built from the preferences, and native code is told. *)
LEMMA ShowMenuInv ==
    ASSUME Inv, ShowMenu
    PROVE  Inv'
<1> USE DEF Inv
<1>1. /\ phase' = "shown" /\ UNCHANGED <<processVars, storeVars, disk>> /\ phase # "dead"
      /\ widget' = [f \in Features |-> Shows(f, prefs, loadPref)]
      /\ kept' = (loadPref /\ prefs["-1"] = TRUE)
      /\ skipped' = IF linked THEN {} ELSE PatchToggles
      /\ unsettled' = Spinners
  BY DEF ShowMenu
<1>2. native' = [f \in Features |-> IF f \in Toggles THEN AfterChanges(f, widget'[f])
                                    ELSE IF loadPref THEN readInt(prefs, f) ELSE native[f]]
  BY DEF ShowMenu
<1>3. loadPref \in BOOLEAN /\ prefs \in Prefs
  BY DEF TypeOK, StoresTyped
<1>4. \A f \in Features : widget'[f] = Shows(f, prefs, loadPref) /\ widget'[f] \in ValuesOf(f)
  BY <1>1, <1>3, ShowsTyped
<1>5. ASSUME NEW f \in Features PROVE native'[f] \in ValuesOf(f)
  <2>1. CASE f \in Toggles
    BY <1>2, <1>4, <2>1 DEF AfterChanges, TypeOK
  <2>2. CASE f \notin Toggles
    <3>1. f \in Sliders \/ f \in Spinners
      BY <2>2 DEF Features
    <3>2. prefs[f] = Unset \/ prefs[f] \in ValuesOf(f)
      BY <1>3 DEF Prefs, IsPrefs, Keys
    <3>3. 0 \in ValuesOf(f)
      BY <3>1, ValuesOfKinds, SliderAssumption, NamesAssumption
    <3> QED
      BY <1>2, <2>2, <3>2, <3>3 DEF readInt, TypeOK
  <2> QED
    BY <2>1, <2>2
<1>6. TypeOK' /\ StoresTyped'
  BY <1>1, <1>2, <1>4, <1>5 DEF TypeOK, StoresTyped, processVars, storeVars, IsPrefs
<1>7. WritesFollow'
  BY <1>1 DEF WritesFollow, Latest, storeVars
<1>8. LibrarySeen' /\ RestoreFindsLibrary'
  <2>1. UNCHANGED <<linked, mainLibLoaded, stopChecking>>
    BY <1>1 DEF processVars
  <2>2. kept' /\ ~stopChecking => mainLibLoaded
    BY <1>1 DEF ShowMenu, Ready
  <2>3. mainLibLoaded => linked
    BY DEF LibrarySeen
  <2> QED
    BY <1>1, <2>1, <2>2, <2>3 DEF LibrarySeen, RestoreFindsLibrary
<1>9. PrefsAreShown'
  BY <1>1, <1>4 DEF PrefsAreShown, Shows, readBoolean, readInt, storeVars
<1>10. ShownIsNative'
  BY <1>1, <1>2 DEF ShownIsNative, AfterChanges, Features
<1> QED
  BY <1>6, <1>7, <1>8, <1>9, <1>10

(* A write reaches the file, and older ones that it overtakes are dropped. *)
LEMMA WriteInv ==
    ASSUME Inv, WriteToFile
    PROVE  Inv'
<1> USE DEF Inv
<1>1. PICK i \in 1 .. Len(queue) : disk' = queue[i] /\ queue' = SubSeq(queue, i + 1, Len(queue))
  BY DEF WriteToFile
<1>2. queue \in Seq(Prefs) /\ queue[i] \in Prefs
  BY DEF StoresTyped
<1>3. queue' \in Seq(Prefs)
  BY <1>1, <1>2
<1>4. Latest' = Latest
  <2>1. CASE i = Len(queue)
    BY <1>1, <1>2, <2>1 DEF Latest
  <2>2. CASE i < Len(queue)
    <3> DEFINE n == Len(queue) - i
    <3>a. n \in Nat /\ n > 0 /\ i + 1 \in Int /\ Len(queue) \in Int
      BY <1>2, <2>2
    <3>b. \A j \in i + 1 .. Len(queue) : queue[j] \in Prefs
      BY <1>2
    <3>c. Len(queue') = n /\ \A j \in 1 .. n : queue'[j] = queue[i + 1 + j - 1]
      <4>1. Len(queue) - (i + 1) + 1 = n /\ i + 1 <= Len(queue)
        BY <3>a, <1>2, <2>2
      <4> QED
        BY <1>1, <3>a, <3>b, <4>1, SubSeqProperties
    <3>1. Len(queue') = Len(queue) - i /\ queue'[Len(queue')] = queue[Len(queue)]
      BY <3>a, <3>c, <1>2
    <3> QED
      BY <1>2, <1>3, <2>2, <3>1 DEF Latest
  <2> QED
    BY <1>2, <2>1, <2>2
<1>5. TypeOK' /\ StoresTyped'
  BY <1>1, <1>2, <1>3 DEF WriteToFile, TypeOK, StoresTyped, Prefs, processVars, panelVars
<1>6. WritesFollow'
  <2>1. phase # "dead"
    BY <1>1, <1>2 DEF WritesFollow
  <2> QED
    BY <1>4, <2>1 DEF WriteToFile, WritesFollow
<1>7. LibrarySeen' /\ RestoreFindsLibrary' /\ ShownIsNative'
  BY DEF WriteToFile, LibrarySeen, RestoreFindsLibrary, ShownIsNative, processVars, panelVars
<1>8. PrefsAreShown'
  BY DEF WriteToFile, PrefsAreShown, Shows, readBoolean, readInt, panelVars
<1> QED
  BY <1>5, <1>6, <1>7, <1>8

(* Preferences that are written are on their way, behind the others. *)
LEMMA ApplyInv ==
    ASSUME Inv, NEW s \in Seq(Prefs), Len(s) > 0, ApplyWrites(s), phase # "dead", phase' = phase, UNCHANGED disk
    PROVE  /\ StoresTyped' /\ WritesFollow' /\ prefs' = s[Len(s)]
           /\ IsPrefs(prefs') /\ IsPrefs(disk') /\ \A i \in 1 .. Len(queue') : IsPrefs(queue'[i])
<1>1. queue' = queue \o s /\ prefs' = s[Len(s)] /\ queue \in Seq(Prefs)
  BY DEF ApplyWrites, Inv, StoresTyped
<1>2. queue' \in Seq(Prefs) /\ queue' # << >> /\ queue'[Len(queue')] = s[Len(s)]
  BY <1>1, QueueGrows
<1>3. StoresTyped'
  BY <1>1, <1>2 DEF Inv, StoresTyped
<1>4. WritesFollow'
  BY <1>1, <1>2 DEF WritesFollow, Latest
<1> QED
  BY <1>1, <1>3, <1>4 DEF StoresTyped, Prefs

(* A value the user chooses goes into widget, preferences and native code. *)
LEMMA ChangeInv ==
    ASSUME Inv, NEW f \in Features, NEW v \in ValuesOf(f), ChangeFeature(f, v),
           f \in Sliders => v >= SliderMin[f],
           unsettled' \subseteq Spinners
    PROVE  Inv'
<1> USE DEF Inv
<1>1. /\ phase = "shown" /\ phase' = "shown" /\ UNCHANGED <<processVars, disk, kept>>
      /\ widget' = [widget EXCEPT ![f] = v]
      /\ native' = [native EXCEPT ![f] = AfterChanges(f, v)]
      /\ skipped' = IF f \in PatchToggles /\ ~linked THEN skipped \cup {f} ELSE skipped \ {f}
      /\ ApplyWrites(<<[prefs EXCEPT ![f] = v]>>)
  BY DEF ChangeFeature
<1>2. f \in Keys /\ f # "-1" /\ prefs \in Prefs
  BY NamesAssumption DEF Keys, Settings, StoresTyped
<1> DEFINE p == [prefs EXCEPT ![f] = v]
<1>3. p \in Prefs /\ p[f] = v /\ \A j \in Keys \ {f} : p[j] = prefs[j]
  BY <1>2, PrefWritten
<1>4. <<p>> \in Seq(Prefs) /\ Len(<<p>>) = 1 /\ <<p>>[1] = p
  BY <1>3
<1>5. /\ StoresTyped' /\ WritesFollow' /\ prefs' = p
      /\ IsPrefs(prefs') /\ IsPrefs(disk') /\ \A i \in 1 .. Len(queue') : IsPrefs(queue'[i])
  <2>1. phase # "dead" /\ phase' = phase /\ UNCHANGED disk /\ Len(<<p>>) > 0
    BY <1>1, <1>4
  <2>2. ApplyWrites(<<p>>)
    BY <1>1
  <2> HIDE DEF p
  <2>3. /\ StoresTyped' /\ WritesFollow' /\ prefs' = <<p>>[Len(<<p>>)]
        /\ IsPrefs(prefs') /\ IsPrefs(disk') /\ \A i \in 1 .. Len(queue') : IsPrefs(queue'[i])
    BY <1>4, <2>1, <2>2, ApplyInv
  <2> QED
    BY <1>4, <2>3
<1>6. /\ DOMAIN widget' = Features /\ DOMAIN native' = Features
      /\ widget'[f] = v /\ native'[f] = AfterChanges(f, v)
      /\ \A g \in Features \ {f} : widget'[g] = widget[g] /\ native'[g] = native[g]
  BY <1>1 DEF TypeOK
<1>7. AfterChanges(f, v) \in ValuesOf(f)
  BY DEF AfterChanges, TypeOK
<1>8. skipped' \subseteq PatchToggles
  BY <1>1 DEF TypeOK
<1>9. TypeOK'
  BY <1>1, <1>5, <1>6, <1>7, <1>8 DEF TypeOK, processVars
<1>10. LibrarySeen' /\ RestoreFindsLibrary'
  BY <1>1 DEF LibrarySeen, RestoreFindsLibrary, processVars
<1>11. PrefsAreShown'
  <2> SUFFICES ASSUME kept PROVE prefs'["-1"] = TRUE /\ \A g \in Features : Shows(g, prefs', TRUE) = widget'[g]
    BY <1>1 DEF PrefsAreShown, Shows, readBoolean, readInt
  <2>1. prefs'["-1"] = TRUE
    BY <1>1, <1>2, <1>3, <1>5 DEF PrefsAreShown, Keys, Settings
  <2>2. ASSUME NEW g \in Features, g # f PROVE Shows(g, prefs', TRUE) = widget'[g]
    <3>1. p[g] = prefs[g] /\ Shows(g, prefs, TRUE) = widget[g]
      BY <1>1, <1>3, <2>2 DEF PrefsAreShown, Keys
    <3> QED
      BY <1>5, <1>6, <2>2, <3>1 DEF Shows, readBoolean, readInt
  <2>3. Shows(f, prefs', TRUE) = v
    <3>1. v # Unset
      BY <1>2, ValuesAreSet
    <3>2. CASE f \in Toggles
      BY <1>3, <1>5, <3>1, <3>2 DEF Shows, readBoolean
    <3>3. CASE f \in Sliders
      <4>1. f \notin Toggles /\ (v = 0 => SliderMin[f] = 0)
        BY <3>3, KindsAssumption, SliderAssumption
      <4> QED
        BY <1>3, <1>5, <3>1, <3>3, <4>1 DEF Shows, readInt
    <3>4. CASE f \in Spinners
      BY <1>3, <1>5, <3>1, <3>4, KindsAssumption DEF Shows, readInt
    <3> QED
      BY <3>2, <3>3, <3>4 DEF Features
  <2> QED
    BY <1>6, <2>1, <2>2, <2>3
<1>12. ShownIsNative'
  <2> SUFFICES ASSUME NEW g \in Toggles \ skipped' PROVE widget'[g] = native'[g]
    BY DEF ShownIsNative
  <2>1. CASE g = f
    BY <1>1, <1>6, <2>1 DEF AfterChanges
  <2>2. CASE g # f
    BY <1>1, <1>6, <2>2 DEF ShownIsNative, Features
  <2> QED
    BY <2>1, <2>2
<1> QED
  BY <1>5, <1>9, <1>10, <1>11, <1>12

(* The three kinds of user input hand their handler a value of the kind. *)
LEMMA InputInv ==
    ASSUME Inv,
           \/ \E f \in Toggles : FlipToggle(f)
           \/ \E f \in Sliders : \E i \in 0 .. SliderMax[f] : Seek(f, i)
           \/ \E f \in Spinners, i \in Positions : SelectItem(f, i)
    PROVE  Inv'
<1>a. unsettled \subseteq Spinners
  BY DEF Inv, TypeOK
<1>1. ASSUME NEW f \in Toggles, FlipToggle(f) PROVE Inv'
  <2>1. f \in Features /\ f \notin Sliders /\ (~widget[f]) \in ValuesOf(f) /\ unsettled' \subseteq Spinners
    BY <1>1, <1>a, ValuesOfKinds, KindsAssumption DEF Features, FlipToggle
  <2> QED
    BY <1>1, <2>1, ChangeInv DEF FlipToggle
<1>2. ASSUME NEW f \in Sliders, NEW i \in 0 .. SliderMax[f], Seek(f, i) PROVE Inv'
  <2> DEFINE v == IF i < SliderMin[f] THEN SliderMin[f] ELSE i
  <2>1. SliderMin[f] \in 0 .. SliderMax[f]
    <3>1. NativeInit[f] \in SliderMin[f] .. SliderMax[f] /\ SliderMin[f] \in Nat /\ SliderMax[f] \in Nat
      BY SliderAssumption
    <3> QED
      BY <3>1
  <2>2. v \in 0 .. SliderMax[f] /\ v >= SliderMin[f]
    BY <2>1
  <2>3. f \in Features /\ v \in ValuesOf(f) /\ unsettled' \subseteq Spinners
    BY <1>2, <1>a, <2>2, ValuesOfKinds DEF Features, Seek
  <2> QED
    BY <1>2, <2>2, <2>3, ChangeInv DEF Seek
<1>3. ASSUME NEW f \in Spinners, NEW i \in Positions, SelectItem(f, i) PROVE Inv'
  <2>1. f \in Features /\ f \notin Sliders /\ i \in ValuesOf(f) /\ unsettled' \subseteq Spinners
    BY <1>3, <1>a, ValuesOfKinds, KindsAssumption DEF Features, SelectItem
  <2> QED
    BY <1>3, <2>1, ChangeInv DEF SelectItem
<1> QED
  BY <1>1, <1>2, <1>3

(* The save toggle writes itself, and a cleared file behind it. *)
LEMMA SaveInv ==
    ASSUME Inv, SwitchSave
    PROVE  Inv'
<1> USE DEF Inv
<1> DEFINE b == ~readBoolean(prefs, "-1", FALSE)
           p == [prefs EXCEPT !["-1"] = b]
           s == IF b THEN <<p>> ELSE <<p, NoPrefs>>
<1>1. /\ phase # "dead" /\ ApplyWrites(s) /\ kept' = FALSE
      /\ UNCHANGED <<phase, processVars, disk, widget, native, unsettled, skipped>>
  BY DEF SwitchSave
<1>2. b \in ValuesOf("-1") /\ "-1" \in Keys /\ prefs \in Prefs
  BY ValuesOfKinds DEF Keys, Settings, StoresTyped
<1>3. p \in Prefs
  BY <1>2, PrefWritten
<1>4. s \in Seq(Prefs) /\ Len(s) > 0
  <2>1. <<p>> \in Seq(Prefs) /\ Len(<<p>>) = 1
    BY <1>3
  <2>2. <<p, NoPrefs>> \in Seq(Prefs) /\ Len(<<p, NoPrefs>>) = 2
    BY <1>3, NoPrefsTyped
  <2>3. CASE b
    <3>1. s = <<p>>
      BY <2>3
    <3> HIDE DEF p, s
    <3> QED
      BY <3>1, <2>1
  <2>4. CASE ~b
    <3>1. s = <<p, NoPrefs>>
      BY <2>4
    <3> HIDE DEF p, s
    <3> QED
      BY <3>1, <2>2
  <2> QED
    BY <2>3, <2>4
<1>5. /\ StoresTyped' /\ WritesFollow'
      /\ IsPrefs(prefs') /\ IsPrefs(disk') /\ \A i \in 1 .. Len(queue') : IsPrefs(queue'[i])
  BY <1>1, <1>4, ApplyInv
<1>6. TypeOK'
  BY <1>1, <1>5 DEF TypeOK, processVars
<1> QED
  BY <1>1, <1>5, <1>6 DEF LibrarySeen, PrefsAreShown, RestoreFindsLibrary, ShownIsNative, processVars

(* The end of the process leaves the file alone, and nothing else. *)
LEMMA KillInv ==
    ASSUME Inv, Kill
    PROVE  Inv'
<1>1. /\ phase' = "dead" /\ prefs' = NoPrefs /\ queue' = << >> /\ disk' = disk
      /\ linked' = FALSE /\ mainLibLoaded' = FALSE /\ stopChecking' = FALSE /\ loadPref' = FALSE
      /\ native' = NativeInit /\ widget' = NativeInit /\ unsettled' = {} /\ skipped' = {} /\ kept' = FALSE
  BY DEF Kill
<1>2. StoresTyped'
  BY <1>1, NoPrefsTyped DEF Inv, StoresTyped
<1>3. IsPrefs(prefs') /\ IsPrefs(disk')
  BY <1>2 DEF StoresTyped, Prefs
<1>4. TypeOK'
  <2>1. \A f \in Features : widget'[f] \in ValuesOf(f) /\ native'[f] \in ValuesOf(f)
    BY <1>1, InitialValues
  <2>2. DOMAIN widget' = Features /\ DOMAIN native' = Features
    BY <1>1, KindsAssumption
  <2>3. \A i \in 1 .. Len(queue') : IsPrefs(queue'[i])
    BY <1>1
  <2>4. phase' = "dead" /\ \A b \in {linked', mainLibLoaded', stopChecking', loadPref', kept'} : b \in BOOLEAN
    BY <1>1
  <2>5. unsettled' \subseteq Spinners /\ skipped' \subseteq PatchToggles
    BY <1>1
  <2> QED
    BY <1>1, <1>3, <2>1, <2>2, <2>3, <2>4, <2>5 DEF TypeOK
<1> QED
  BY <1>1, <1>2, <1>4 DEF Inv, WritesFollow, LibrarySeen, PrefsAreShown, RestoreFindsLibrary, ShownIsNative

(* Every step of the menu, the saver and the disk keeps the invariant. *)
LEMMA NextInv == Inv /\ [Next]_vars => Inv'
<1> SUFFICES ASSUME Inv, [Next]_vars PROVE Inv'
  OBVIOUS
<1>a. \A b \in {linked, mainLibLoaded, stopChecking, loadPref, kept} : b \in BOOLEAN
  BY DEF Inv, TypeOK
<1>1. CASE StartProcess \/ RebuildMenu
  BY <1>1, ConstructInv
<1>2. CASE ShowMenu
  BY <1>2, ShowMenuInv
<1>3. CASE ForceLoad
  BY <1>3, <1>a, QuietInv DEF ForceLoad, Inv, LibrarySeen
<1>4. CASE \/ \E f \in Toggles : FlipToggle(f)
           \/ \E f \in Sliders : \E i \in 0 .. SliderMax[f] : Seek(f, i)
           \/ \E f \in Spinners, i \in Positions : SelectItem(f, i)
  BY <1>4, InputInv
<1>5. CASE SwitchSave
  BY <1>5, SaveInv
<1>6. CASE WriteToFile
  BY <1>6, WriteInv
<1>7. CASE LinkLibrary
  BY <1>7, <1>a, QuietInv DEF LinkLibrary, Inv, LibrarySeen
<1>8. CASE isLibraryLoaded
  BY <1>8, <1>a, QuietInv DEF isLibraryLoaded, Inv, LibrarySeen
<1>9. CASE Kill
  BY <1>9, KillInv
<1>10. CASE UNCHANGED vars
  BY <1>10, <1>a, QuietInv DEF vars, processVars, Inv, LibrarySeen
<1> QED
  BY <1>1, <1>2, <1>3, <1>4, <1>5, <1>6, <1>7, <1>8, <1>9, <1>10 DEF Next

(* Once nothing is on its way, the disk holds what the process sees, and   *)
(* that is what is shown.                                                  *)
LEMMA InvImplies == Inv => SavedInv /\ ShownIsNative
<1> SUFFICES ASSUME Inv PROVE SavedIsShown
  BY DEF Inv, SavedInv
<1> SUFFICES ASSUME phase = "shown", kept, queue = << >>
             PROVE  disk["-1"] = TRUE /\ \A f \in Features : Shows(f, disk, TRUE) = widget[f]
  BY DEF SavedIsShown
<1>1. disk = prefs
  BY DEF Inv, WritesFollow, Latest
<1> QED
  BY <1>1 DEF Inv, PrefsAreShown

-----------------------------------------------------------------------------
(***************************************************************************)
(* For any features: while saving is on, once the writes have reached the  *)
(* disk the file rebuilds every widget as it is shown                      *)
(* (Preferences.java:27-50, Menu.java:651-857), and a patch that is        *)
(* restored finds the library (Menu.java:336-345), through restarts, late  *)
(* writes and a library that is linked at any time.                        *)
(***************************************************************************)
THEOREM SavedCorrect == Spec => []SavedInv
<1>1. Spec => []Inv
  BY InitInv, NextInv, PTL DEF Spec
<1> QED
  BY <1>1, InvImplies, PTL

(* For any toggles: what a toggle shows is what native code does, except   *)
(* for a patch whose last call found no library (Menu.java:651-693,        *)
(* Main.cpp:130-259).                                                      *)
THEOREM ShownIsTrue == Spec => []ShownIsNative
<1>1. Spec => []Inv
  BY InitInv, NextInv, PTL DEF Spec
<1> QED
  BY <1>1, InvImplies, PTL
=============================================================================
