----------------------------- MODULE MenuProofs -----------------------------
(***************************************************************************)
(* Proofs about the menu: the numbering of every feature list, touching    *)
(* the menu with any finger and any touch slop, the numbers and texts that *)
(* are typed, saved and restored, for any lists of the mod's versions and  *)
(* any width of a word, and the frames of the ESP, for any matrices,       *)
(* settings, views and entities.                                           *)
(***************************************************************************)
EXTENDS FeatureList, MenuTouch, MenuInputs, EspFrame, FiniteSetTheorems, SequenceTheorems, WellFoundedInduction, TLAPS

(***************************************************************************)
(* The numbering loop of featureList numbers every list by the documented  *)
(* rule.  What is inductive is that i - subFeat, the number the next       *)
(* unnumbered entry would get, counts the counted entries done so far.     *)
(***************************************************************************)

(* An entry adds 1 to subFeat exactly when it is not counted. *)
LEMMA StepOfEntry ==
    ASSUME NEW e \in Entries, e.kind \in {"Collapse", "Heading"} => ~Assigned(e)
    PROVE  IdStep(e) + KindStep(e) = IF Counts(e) THEN 0 ELSE 1
<1>1. CASE Assigned(e)
  BY <1>1 DEF IdStep, KindStep, Counts
<1>2. CASE ~Assigned(e)
  BY <1>2 DEF IdStep, KindStep, Counts
<1> QED
  BY <1>1, <1>2

(* Only finitely many entries are counted. *)
LEMMA CountedFinite ==
    ASSUME NEW n \in Nat
    PROVE  IsFiniteSet(CountedTo(n)) /\ Cardinality(CountedTo(n)) \in Nat
<1>1. IsFiniteSet(1 .. n)
  BY FS_Interval
<1>2. CountedTo(n) \subseteq 1 .. n
  BY DEF CountedTo
<1>3. IsFiniteSet(CountedTo(n))
  BY <1>1, <1>2, FS_Subset
<1> QED
  BY <1>3, FS_CardinalityType

(* One entry more is counted, or the counted entries stay the same. *)
LEMMA CountedNext ==
    ASSUME NEW n \in Nat
    PROVE  Cardinality(CountedTo(n + 1)) =
               Cardinality(CountedTo(n)) + IF Counts(list[n + 1]) THEN 1 ELSE 0
<1>1. IsFiniteSet(CountedTo(n)) /\ Cardinality(CountedTo(n)) \in Nat
  BY CountedFinite
<1>2. CASE Counts(list[n + 1])
  <2>1. CountedTo(n + 1) = CountedTo(n) \cup {n + 1}
    BY <1>2 DEF CountedTo
  <2>2. n + 1 \notin CountedTo(n)
    BY DEF CountedTo
  <2>3. Cardinality(CountedTo(n) \cup {n + 1}) = Cardinality(CountedTo(n)) + 1
    BY <1>1, <2>2, FS_AddElement
  <2> QED
    BY <1>2, <2>1, <2>3
<1>3. CASE ~Counts(list[n + 1])
  <2>1. CountedTo(n + 1) = CountedTo(n)
    BY <1>3 DEF CountedTo
  <2> QED
    BY <1>1, <1>3, <2>1
<1> QED
  BY <1>2, <1>3

-----------------------------------------------------------------------------
(* Before the first turn nothing has been numbered. *)
LEMMA InitTypeOK == Init => TypeOK
<1> SUFFICES ASSUME Init
             PROVE  TypeOK
  OBVIOUS
<1>1. list \in Seq(Entries)
  BY ListsAssumption DEF Init
<1>2. Len(list) \in Nat
  BY <1>1
<1>3. i \in 0 .. Len(list)
  BY <1>2 DEF Init
<1>4. featNum \in Seq(Int) /\ Len(featNum) = i
  BY DEF Init
<1>5. list \in Lists /\ subFeat \in Int
  BY DEF Init
<1>6. mCollapse \in BOOLEAN /\ crashed \in BOOLEAN
  BY DEF Init
<1> QED
  BY <1>3, <1>4, <1>5, <1>6 DEF TypeOK

(* Every reachable state of the loop is well typed. *)
THEOREM ListTypeCorrect == Spec => []TypeOK
<1>1. Init => TypeOK
  BY InitTypeOK
<1>2. TypeOK /\ [Next]_vars => TypeOK'
  <2> SUFFICES ASSUME TypeOK, [Next]_vars
               PROVE  TypeOK'
    OBVIOUS
  <2> USE ListsAssumption
  <2>1. CASE BuildEntry
    <3> DEFINE e == list[i + 1]
    <3>1. e \in Entries
      BY <2>1 DEF BuildEntry, TypeOK
    <3>2. NumberOf(e) \in Int
      BY <3>1 DEF NumberOf, Assigned, Entries, TypeOK
    <3>3. IdStep(e) + KindStep(e) \in Int
      BY DEF IdStep, KindStep
    <3>4. featNum' = Append(featNum, NumberOf(e)) /\ i' = i + 1 /\ list' = list
      BY <2>1 DEF BuildEntry
    <3>5. featNum' \in Seq(Int) /\ Len(featNum') = i'
      BY <3>2, <3>4 DEF TypeOK
    <3>6. i' \in 0 .. Len(list')
      BY <2>1, <3>4 DEF BuildEntry, TypeOK
    <3>7. subFeat' \in Int
      BY <2>1, <3>3 DEF BuildEntry, TypeOK, IdStep, KindStep
    <3>8. mCollapse' \in BOOLEAN
      BY <2>1 DEF BuildEntry
    <3> QED
      BY <2>1, <3>4, <3>5, <3>6, <3>7, <3>8 DEF BuildEntry, TypeOK
  <2>2. CASE AddToNoGroup
    BY <2>2 DEF AddToNoGroup, TypeOK
  <2>3. CASE UNCHANGED vars
    BY <2>3 DEF vars, TypeOK
  <2> QED
    BY <2>1, <2>2, <2>3 DEF Next
<1> QED
  BY <1>1, <1>2, PTL DEF Spec

-----------------------------------------------------------------------------
(* subFeat and the counted entries make up the entries done. *)
SubFeatCounts == ObeysIds => subFeat + Cardinality(CountedTo(i)) = i

NumberingInv == TypeOK /\ SubFeatCounts /\ NumberedAsDocumented

(* A turn of the loop keeps NumberingInv. *)
LEMMA BuildEntryKeepsInv ==
    ASSUME NumberingInv, TypeOK', BuildEntry
    PROVE  NumberingInv'
<1> DEFINE e == list[i + 1]
<1> USE ListsAssumption
<1>1. list' = list /\ i' = i + 1 /\ i \in Nat /\ i + 1 \in 1 .. Len(list)
  BY DEF NumberingInv, TypeOK, BuildEntry
<1>2. e \in Entries
  BY <1>1 DEF NumberingInv, TypeOK
<1>3. ObeysIds' = ObeysIds
  BY <1>1 DEF ObeysIds
<1>4. \A n : CountedTo(n)' = CountedTo(n)
  BY <1>1 DEF CountedTo
<1>5. SubFeatCounts'
  <2> SUFFICES ASSUME ObeysIds
               PROVE  subFeat' + Cardinality(CountedTo(i + 1)) = i + 1
    BY <1>1, <1>3 DEF SubFeatCounts, CountedTo
  <2>1. IdStep(e) + KindStep(e) = IF Counts(e) THEN 0 ELSE 1
    BY <1>1, <1>2, StepOfEntry DEF ObeysIds
  <2>2. Cardinality(CountedTo(i + 1)) = Cardinality(CountedTo(i)) + IF Counts(e) THEN 1 ELSE 0
    BY <1>1, CountedNext
  <2>3. Cardinality(CountedTo(i)) \in Nat
    BY <1>1, CountedFinite
  <2>4. subFeat + Cardinality(CountedTo(i)) = i
    BY DEF NumberingInv, SubFeatCounts
  <2>5. subFeat' = subFeat + (IdStep(e) + KindStep(e))
    BY DEF BuildEntry, IdStep, KindStep, NumberingInv, TypeOK
  <2>6. subFeat \in Int
    BY DEF NumberingInv, TypeOK
  <2> QED
    BY <1>1, <2>1, <2>2, <2>3, <2>4, <2>5, <2>6
<1>6. NumberedAsDocumented'
  <2> SUFFICES ASSUME ObeysIds, NEW j \in 1 .. i + 1, list[j].kind \in Widgets
               PROVE  featNum'[j] = IF Assigned(list[j]) THEN list[j].id
                                    ELSE Cardinality(CountedTo(j - 1))
    BY <1>1, <1>3 DEF NumberedAsDocumented, CountedTo
  <2>a. featNum' = Append(featNum, NumberOf(e))
    BY DEF BuildEntry
  <2>b. featNum \in Seq(Int) /\ Len(featNum) = i
    BY DEF NumberingInv, TypeOK
  <2>c. featNum' \in Seq(Int)
    BY DEF TypeOK
  <2>1. /\ \A k \in 1 .. i : featNum'[k] = featNum[k]
        /\ featNum'[i + 1] = NumberOf(e)
    BY <1>1, <2>a, <2>b
  <2>2. CASE j = i + 1
    <3>1. featNum'[j] = NumberOf(e)
      BY <2>1, <2>2
    <3>2. subFeat + Cardinality(CountedTo(i)) = i
      BY DEF NumberingInv, SubFeatCounts
    <3>3. Cardinality(CountedTo(i)) \in Nat /\ j - 1 = i
      BY <1>1, <2>2, CountedFinite, SMTT(60)
    <3>4. subFeat \in Int
      BY DEF NumberingInv, TypeOK
    <3>5. CountedTo(j - 1) = CountedTo(i)
      BY <3>3
    <3>6. i - subFeat = Cardinality(CountedTo(i))
      BY <1>1, <3>2, <3>3, <3>4
    <3> QED
      BY <2>2, <3>1, <3>5, <3>6 DEF NumberOf
  <2>3. CASE j # i + 1
    <3>1. j \in 1 .. i
      BY <1>1, <2>3
    <3>2. featNum'[j] = featNum[j]
      BY <2>1, <3>1
    <3> QED
      BY <3>1, <3>2 DEF NumberingInv, NumberedAsDocumented
  <2> QED
    BY <2>2, <2>3
<1> QED
  BY <1>5, <1>6 DEF NumberingInv

(***************************************************************************)
(* For every list whose uncounted entries carry no number, the feature     *)
(* numbers are those of the documented rule, and the loop is well typed.   *)
(***************************************************************************)
THEOREM NumberingCorrect == Spec => []ListInv
<1>1. Init => NumberingInv
  <2> SUFFICES ASSUME Init
               PROVE  NumberingInv
    OBVIOUS
  <2>1. TypeOK
    BY InitTypeOK
  <2>2. CountedTo(0) = {}
    BY DEF CountedTo
  <2>3. Cardinality(CountedTo(0)) = 0
    BY <2>2, FS_EmptySet
  <2>4. SubFeatCounts
    BY <2>3 DEF SubFeatCounts, Init
  <2>5. NumberedAsDocumented
    BY DEF NumberedAsDocumented, Init
  <2> QED
    BY <2>1, <2>4, <2>5 DEF NumberingInv
<1>2. NumberingInv /\ TypeOK' /\ [Next]_vars => NumberingInv'
  <2> SUFFICES ASSUME NumberingInv, TypeOK', [Next]_vars
               PROVE  NumberingInv'
    OBVIOUS
  <2>1. CASE BuildEntry
    BY <2>1, BuildEntryKeepsInv
  <2>2. CASE AddToNoGroup
    BY <2>2 DEF AddToNoGroup, NumberingInv, SubFeatCounts, NumberedAsDocumented, ObeysIds, CountedTo
  <2>3. CASE UNCHANGED vars
    BY <2>3 DEF vars, NumberingInv, SubFeatCounts, NumberedAsDocumented, ObeysIds, CountedTo
  <2> QED
    BY <2>1, <2>2, <2>3 DEF Next
<1>3. NumberingInv /\ TypeOK => ListInv
  BY DEF NumberingInv, ListInv
<1> QED
  BY <1>1, <1>2, <1>3, ListTypeCorrect, PTL DEF Spec

-----------------------------------------------------------------------------
(***************************************************************************)
(* Touching the menu is correct for any points a finger can be at and any  *)
(* touch slop.  TouchInv is not inductive: the file catches up only if the *)
(* last write on its way is of the place the process believes in, and the  *)
(* menu is where the process believes only until it is dragged.            *)
(***************************************************************************)
TouchSpec == TouchInit /\ [][TouchNext]_touchVars

Places   == Int \X Int
Gestures == [on : {"icon", "frame"}, initial : Places, down : Fingers, finger : Fingers,
             dragging : BOOLEAN, left : BOOLEAN]
TouchTyped ==
    /\ place \in Places /\ placePref \in Places /\ placeDisk \in Places
    /\ placeQueue \in Seq(Places) /\ Len(placeQueue) <= 2
    /\ gesture = Still \/ gesture \in Gestures
    /\ opacity \in [icon : {"icon", "none", "half", "full"}, menu : {"half", "full"}]
    /\ faces \in {{"icon"}, {"menu"}}
    /\ astray \subseteq {"cancelled", "cleared"}
LastIsPref ==
    /\ placeQueue = << >> => placeDisk = placePref
    /\ placeQueue # << >> => placeQueue[Len(placeQueue)] = placePref
Undragged == gesture = Still \/ ~gesture.dragging
Settled   ==
    /\ Undragged /\ astray = {} => placePref = place
    /\ Undragged /\ "cancelled" \notin astray => opacity.menu = "full"
TouchIInv == TouchTyped /\ LastIsPref /\ TapStays /\ FollowsFinger /\ Settled

-----------------------------------------------------------------------------
(* A gesture is not the absence of one. *)
LEMMA GestureIsNotStill == \A g \in Gestures : g # Still
  BY DEF Gestures, Still

(* The invariant says what the property says. *)
LEMMA TouchIInvImplies == TouchIInv => TouchInv
<1> SUFFICES ASSUME TouchIInv PROVE TouchInv
  OBVIOUS
<1>1. TouchTypeOK
  <2>1. \A k \in DOMAIN placeQueue : Point(placeQueue[k])
    BY ElementOfSeq DEF TouchIInv, TouchTyped, Point, Places
  <2> QED
    BY <2>1 DEF TouchIInv, TouchTyped, TouchTypeOK, Point, Places
<1>2. DroppedIsRestored
  BY DEF TouchIInv, DroppedIsRestored, Settled, Undragged, Touched, LastIsPref
<1>3. OneFace
  BY DEF TouchIInv, OneFace, TouchTyped, Settled, Undragged, Touched
<1> QED
  BY <1>1, <1>2, <1>3 DEF TouchIInv, TouchInv

(* What ShowAt sets up is in order, whatever is on its way to the file. *)
LEMMA ShowKeepsInv ==
    ASSUME NEW p \in Places, ShowAt(p), placePref' = p, placeDisk' \in Places,
           placeQueue' \in Seq(Places), Len(placeQueue') <= 2, LastIsPref'
    PROVE  TouchIInv'
<1>1. TouchTyped'
  BY DEF ShowAt, TouchTyped
<1>2. TapStays' /\ FollowsFinger'
  BY DEF ShowAt, TapStays, FollowsFinger, Touched
<1>3. Settled'
  BY DEF ShowAt, Settled
<1> QED
  BY <1>1, <1>2, <1>3 DEF TouchIInv

(* A finger comes down. *)
LEMMA DownKeepsInv ==
    ASSUME TouchIInv, NEW on \in {"icon", "frame"}, NEW f \in Fingers, Down(on, f)
    PROVE  TouchIInv'
<1> USE DEF TouchIInv
<1>1. gesture = Still
  BY DEF Down, Touched
<1>2. gesture' \in Gestures /\ ~gesture'.dragging /\ ~gesture'.left /\ gesture'.initial = place
  BY DEF Down, Gestures, TouchTyped, Places
<1>3. /\ place' = place /\ faces' = faces /\ opacity' = opacity /\ astray' = astray
      /\ placePref' = placePref /\ placeDisk' = placeDisk /\ placeQueue' = placeQueue
  BY DEF Down, storedVars
<1>4. TouchTyped' /\ LastIsPref'
  BY <1>2, <1>3 DEF TouchTyped, LastIsPref
<1>5. TapStays' /\ FollowsFinger'
  BY <1>2, <1>3 DEF TapStays, FollowsFinger
<1>6. Settled'
  BY <1>1, <1>3 DEF Settled, Undragged
<1> QED
  BY <1>4, <1>5, <1>6

-----------------------------------------------------------------------------
(* Fingers and places are added and subtracted as points. *)
LEMMA PointArithmetic ==
    ASSUME NEW p \in Places, NEW q \in Places
    PROVE  /\ Distance(p, q) \in Places /\ Added(p, q) \in Places
           /\ Distance(Added(p, q), p) = q
<1>1. p[1] \in Int /\ p[2] \in Int /\ q[1] \in Int /\ q[2] \in Int
  BY DEF Places
<1>2. q = <<q[1], q[2]>>
  BY DEF Places
<1>3. Distance(p, q) \in Places /\ Added(p, q) \in Places
  BY <1>1 DEF Distance, Added, Places
<1>4. Added(p, q)[1] = p[1] + q[1] /\ Added(p, q)[2] = p[2] + q[2]
  BY DEF Added
<1>5. Distance(Added(p, q), p) = <<(p[1] + q[1]) - p[1], (p[2] + q[2]) - p[2]>>
  BY <1>4 DEF Distance
<1>6. (p[1] + q[1]) - p[1] = q[1] /\ (p[2] + q[2]) - p[2] = q[2]
  BY <1>1
<1> QED
  BY <1>2, <1>3, <1>5, <1>6

(* The finger moves: a drag begins exactly when it leaves the tap zone. *)
LEMMA MoveKeepsInv ==
    ASSUME TouchIInv, NEW f \in Fingers, MoveTo(f)
    PROVE  TouchIInv'
<1> USE DEF TouchIInv
<1> DEFINE d    == Distance(f, gesture.down)
           drag == gesture.dragging \/ ~TapZone(d)
           out  == \E k \in 1 .. 2 : ~Within(d[k], TouchSlop)
<1>1. gesture \in Gestures
  BY DEF MoveTo, Touched, TouchTyped
<1>2. f \in Places /\ gesture.down \in Places /\ gesture.initial \in Places
  BY <1>1, TouchAssumption DEF Gestures, Places
<1>3. d \in Places /\ Added(gesture.initial, d) \in Places /\ Distance(Added(gesture.initial, d), gesture.initial) = d
  <2>1. d \in Places
    BY <1>2, PointArithmetic
  <2> HIDE DEF d
  <2> QED
    BY <1>2, <2>1, PointArithmetic
<1>4. out <=> ~TapZone(d)
  BY DEF TapZone
<1>5. gesture' = [gesture EXCEPT !.finger = f, !.dragging = drag, !.left = gesture.left \/ out]
  BY DEF MoveTo
<1>6. drag \in BOOLEAN /\ (gesture.left \/ out) \in BOOLEAN
  BY <1>1 DEF Gestures
<1>7. /\ gesture' \in Gestures /\ gesture'.initial = gesture.initial /\ gesture'.down = gesture.down
      /\ gesture'.finger = f /\ gesture'.dragging = drag /\ gesture'.left = (gesture.left \/ out)
  <2> HIDE DEF drag, out
  <2> QED
    BY <1>1, <1>5, <1>6 DEF Gestures
<1>8. gesture.dragging <=> gesture.left
  BY <1>1, GestureIsNotStill DEF TapStays, Touched
<1>9. /\ drag => place' = Added(gesture.initial, d) /\ opacity' = [icon |-> "half", menu |-> "half"]
      /\ ~drag => place' = place /\ opacity' = opacity
      /\ faces' = faces /\ astray' = astray
      /\ placePref' = placePref /\ placeDisk' = placeDisk /\ placeQueue' = placeQueue
  BY DEF MoveTo, storedVars
<1>10. place' \in Places /\ opacity' \in [icon : {"icon", "none", "half", "full"}, menu : {"half", "full"}]
  <2>1. CASE drag
    BY <1>3, <1>9, <2>1
  <2>2. CASE ~drag
    BY <1>9, <2>2 DEF TouchTyped
  <2> QED
    BY <2>1, <2>2
<1>11. TouchTyped'
  BY <1>7, <1>9, <1>10 DEF TouchTyped
<1>12. LastIsPref'
  BY <1>9 DEF LastIsPref
<1>13. TapStays'
  <2>1. gesture'.dragging <=> gesture'.left
    BY <1>4, <1>7, <1>8
  <2>2. ~gesture'.left => place' = gesture'.initial
    <3>1. ~gesture'.left => ~drag /\ ~gesture.left
      BY <1>4, <1>7, <1>8
    <3>2. ~gesture.left => place = gesture.initial
      BY <1>1, GestureIsNotStill DEF TapStays, Touched
    <3> QED
      BY <1>7, <1>9, <3>1, <3>2
  <2> QED
    BY <2>1, <2>2 DEF TapStays
<1>14. FollowsFinger'
  <2>1. gesture'.dragging => Distance(place', gesture'.initial) = Distance(gesture'.finger, gesture'.down)
    BY <1>3, <1>7, <1>9
  <2> QED
    BY <2>1 DEF FollowsFinger
<1>15. Settled'
  <2>1. Undragged' => ~drag /\ Undragged
    BY <1>7, GestureIsNotStill DEF Undragged
  <2> QED
    BY <1>9, <2>1 DEF Settled
<1> QED
  BY <1>11, <1>12, <1>13, <1>14, <1>15

(* The finger is lifted: a drag is saved, a tap opens. *)
LEMMA LiftKeepsInv ==
    ASSUME TouchIInv, Lift
    PROVE  TouchIInv'
<1> USE DEF TouchIInv
<1>1. gesture \in Gestures
  BY DEF Lift, Touched, TouchTyped
<1>2. gesture' = Still /\ opacity' = [icon |-> "full", menu |-> "full"] /\ place' = place /\ placeDisk' = placeDisk
  BY DEF Lift
<1>3. TapStays' /\ FollowsFinger'
  BY <1>2 DEF TapStays, FollowsFinger, Touched
<1>4. CASE gesture.dragging
  <2> DEFINE first == <<place[1], placePref[2]>>
  <2>1. placeQueue' = << >> \o <<first, place>> /\ placePref' = place /\ astray' = {} /\ faces' = faces
    BY <1>4 DEF Lift, SavePlace
  <2>2. first \in Places
    BY DEF TouchTyped, Places
  <2>3. placeQueue' = <<first, place>>
    BY <2>1, <2>2 DEF TouchTyped
  <2> HIDE DEF first
  <2>4. placeQueue' \in Seq(Places) /\ Len(placeQueue') = 2 /\ placeQueue'[2] = place /\ placeQueue' # << >>
    BY <2>2, <2>3 DEF TouchTyped
  <2>5. TouchTyped'
    <3>1. place' \in Places /\ placePref' \in Places /\ placeDisk' \in Places /\ faces' \in {{"icon"}, {"menu"}}
      BY <1>2, <2>1 DEF TouchTyped
    <3>2. opacity' \in [icon : {"icon", "none", "half", "full"}, menu : {"half", "full"}]
      BY <1>2
    <3>3. Len(placeQueue') <= 2
      BY <2>4
    <3> QED
      BY <1>2, <2>1, <2>4, <3>1, <3>2, <3>3, Zenon DEF TouchTyped
  <2>6. LastIsPref'
    BY <2>1, <2>4 DEF LastIsPref
  <2>7. Settled'
    BY <1>2, <2>1 DEF Settled
  <2> QED
    BY <1>3, <2>5, <2>6, <2>7
<1>5. CASE ~gesture.dragging
  <2>1. placePref' = placePref /\ placeQueue' = placeQueue /\ astray' = astray
    BY <1>5 DEF Lift
  <2>2. faces' \in {{"icon"}, {"menu"}}
    BY <1>5 DEF Lift, Opens, TouchTyped
  <2>3. TouchTyped'
    BY <1>2, <2>1, <2>2 DEF TouchTyped
  <2>4. LastIsPref'
    BY <1>2, <2>1 DEF LastIsPref
  <2>5. Settled'
    BY <1>2, <1>5, <2>1 DEF Settled, Undragged
  <2> QED
    BY <1>3, <2>3, <2>4, <2>5
<1> QED
  BY <1>4, <1>5

-----------------------------------------------------------------------------
(* The gesture is taken away, the preferences are cleared, or a button     *)
(* collapses the menu.                                                     *)
LEMMA OtherTouchesKeepInv ==
    ASSUME TouchIInv, CancelTouch \/ ClearPreferences \/ Collapse("none") \/ Collapse("icon")
    PROVE  TouchIInv'
<1> USE DEF TouchIInv
<1>1. CASE CancelTouch
  <2>1. gesture \in Gestures
    BY <1>1 DEF CancelTouch, Touched, TouchTyped
  <2>2. /\ gesture' = Still /\ astray' = IF gesture.dragging THEN astray \cup {"cancelled"} ELSE astray
        /\ place' = place /\ faces' = faces /\ opacity' = opacity
        /\ placePref' = placePref /\ placeDisk' = placeDisk /\ placeQueue' = placeQueue
    BY <1>1 DEF CancelTouch, storedVars
  <2>3. astray' \subseteq {"cancelled", "cleared"}
    BY <2>2 DEF TouchTyped
  <2>4. TouchTyped' /\ LastIsPref'
    BY <2>2, <2>3 DEF TouchTyped, LastIsPref
  <2>5. TapStays' /\ FollowsFinger'
    BY <2>2 DEF TapStays, FollowsFinger, Touched
  <2>6. Settled'
    BY <2>2 DEF Settled, Undragged
  <2> QED
    BY <2>4, <2>5, <2>6
<1>2. ASSUME NEW icon \in {"none", "icon"}, Collapse(icon)
      PROVE  TouchIInv'
  <2>1. /\ faces' = {"icon"} /\ opacity' = [opacity EXCEPT !.icon = icon]
        /\ gesture' = gesture /\ astray' = astray /\ place' = place
        /\ placePref' = placePref /\ placeDisk' = placeDisk /\ placeQueue' = placeQueue
    BY <1>2 DEF Collapse, storedVars
  <2>2. opacity' \in [icon : {"icon", "none", "half", "full"}, menu : {"half", "full"}] /\ opacity'.menu = opacity.menu
    BY <2>1 DEF TouchTyped
  <2>3. TouchTyped' /\ LastIsPref'
    BY <2>1, <2>2 DEF TouchTyped, LastIsPref
  <2>4. TapStays' /\ FollowsFinger'
    BY <2>1 DEF TapStays, FollowsFinger, Touched
  <2>5. Settled'
    BY <2>1, <2>2 DEF Settled, Undragged
  <2> QED
    BY <2>3, <2>4, <2>5
<1>3. CASE ClearPreferences
  <2>1. /\ placePref' = FirstPlace /\ placeQueue' = <<FirstPlace>> /\ astray' = astray \cup {"cleared"}
        /\ gesture' = gesture /\ place' = place /\ faces' = faces /\ opacity' = opacity /\ placeDisk' = placeDisk
    BY <1>3 DEF ClearPreferences
  <2>2. FirstPlace \in Places
    BY TouchAssumption DEF Places
  <2>3. placeQueue' \in Seq(Places) /\ Len(placeQueue') = 1 /\ placeQueue'[1] = FirstPlace /\ placeQueue' # << >>
    BY <2>1, <2>2
  <2>4. TouchTyped'
    BY <2>1, <2>2, <2>3 DEF TouchTyped
  <2>5. LastIsPref'
    BY <2>1, <2>3 DEF LastIsPref
  <2>6. TapStays' /\ FollowsFinger'
    BY <2>1 DEF TapStays, FollowsFinger, Touched
  <2>7. Settled'
    BY <2>1 DEF Settled, Undragged
  <2> QED
    BY <2>4, <2>5, <2>6, <2>7
<1> QED
  BY <1>1, <1>2, <1>3

(* Writes reach the file, the last of them last. *)
LEMMA WriteKeepsInv ==
    ASSUME TouchIInv, WritePlace
    PROVE  TouchIInv'
<1> USE DEF TouchIInv
<1>1. PICK k \in DOMAIN placeQueue :
          placeDisk' = placeQueue[k] /\ placeQueue' = SubSeq(placeQueue, k + 1, Len(placeQueue))
  BY DEF WritePlace
<1>2. /\ gesture' = gesture /\ astray' = astray /\ place' = place /\ faces' = faces /\ opacity' = opacity
      /\ placePref' = placePref
  BY DEF WritePlace, windowVars
<1>3. placeQueue \in Seq(Places) /\ Len(placeQueue) \in Nat /\ k \in 1 .. Len(placeQueue)
  BY <1>1 DEF TouchTyped
<1>4. placeDisk' \in Places
  BY <1>1, <1>3
<1>5. /\ placeQueue' \in Seq(Places) /\ Len(placeQueue') = Len(placeQueue) - k
      /\ \A j \in 1 .. Len(placeQueue) - k : placeQueue'[j] = placeQueue[k + j]
  BY <1>1, <1>3
<1>6. TouchTyped'
  BY <1>2, <1>3, <1>4, <1>5 DEF TouchTyped
<1>7. placeQueue[Len(placeQueue)] = placePref
  BY <1>3 DEF LastIsPref
<1>8. LastIsPref'
  <2>1. CASE k = Len(placeQueue)
    <3>1. placeQueue' = << >>
      BY <1>3, <1>5, <2>1
    <3> QED
      BY <1>1, <1>2, <1>7, <2>1, <3>1 DEF LastIsPref
  <2>2. CASE k # Len(placeQueue)
    <3>1. Len(placeQueue) - k \in 1 .. Len(placeQueue) - k
      BY <1>3, <2>2
    <3>2. placeQueue'[Len(placeQueue) - k] = placeQueue[k + (Len(placeQueue) - k)]
      BY <1>5, <3>1
    <3>3. k + (Len(placeQueue) - k) = Len(placeQueue) /\ Len(placeQueue') = Len(placeQueue) - k
      BY <1>3, <1>5
    <3>4. placeQueue' # << >>
      BY <1>5, <3>1
    <3> QED
      BY <1>2, <1>7, <3>2, <3>3, <3>4 DEF LastIsPref
  <2> QED
    BY <2>1, <2>2
<1>9. TapStays' /\ FollowsFinger'
  BY <1>2 DEF TapStays, FollowsFinger, Touched
<1>10. Settled'
  BY <1>2 DEF Settled, Undragged
<1> QED
  BY <1>6, <1>8, <1>9, <1>10

(* Every step keeps the invariant. *)
LEMMA TouchNextKeepsInv == TouchIInv /\ [TouchNext]_touchVars => TouchIInv'
<1> SUFFICES ASSUME TouchIInv, [TouchNext]_touchVars
             PROVE  TouchIInv'
  OBVIOUS
<1>1. CASE \E on \in {"icon", "frame"}, f \in Fingers : Down(on, f)
  BY <1>1, DownKeepsInv
<1>2. CASE \E f \in Fingers : MoveTo(f)
  BY <1>2, MoveKeepsInv
<1>3. CASE Lift
  BY <1>3, LiftKeepsInv
<1>4. CASE CancelTouch \/ ClearPreferences \/ Collapse("none") \/ Collapse("icon")
  BY <1>4, OtherTouchesKeepInv
<1>5. CASE WritePlace
  BY <1>5, WriteKeepsInv
<1>6. CASE ShowAgain
  <2>1. ShowAt(placePref) /\ placePref' = placePref /\ placeDisk' = placeDisk /\ placeQueue' = placeQueue
    BY <1>6 DEF ShowAgain, storedVars
  <2> QED
    BY <2>1, ShowKeepsInv DEF TouchIInv, TouchTyped, LastIsPref
<1>7. CASE RestartProcess
  <2>1. ShowAt(placeDisk) /\ placePref' = placeDisk /\ placeDisk' = placeDisk /\ placeQueue' = << >>
    BY <1>7 DEF RestartProcess
  <2>2. << >> \in Seq(Places) /\ Len(<< >>) <= 2
    OBVIOUS
  <2> QED
    BY <2>1, <2>2, ShowKeepsInv DEF TouchIInv, TouchTyped, LastIsPref
<1>8. CASE UNCHANGED touchVars
  BY <1>8 DEF touchVars, TouchIInv, TouchTyped, LastIsPref, TapStays, FollowsFinger, Settled, Undragged, Touched
<1> QED
  BY <1>1, <1>2, <1>3, <1>4, <1>5, <1>6, <1>7, <1>8 DEF TouchNext

(***************************************************************************)
(* Tap and drag exclude one another, the menu follows the finger, comes    *)
(* back where it was dropped, in this process and the next, and shows one  *)
(* face (Menu.java:398-457).                                               *)
(***************************************************************************)
THEOREM TouchCorrect == TouchSpec => []TouchInv
<1>1. TouchInit => TouchIInv
  <2> SUFFICES ASSUME TouchInit PROVE TouchIInv
    OBVIOUS
  <2>1. TouchTyped
    <3>1. placeQueue \in Seq(Places) /\ Len(placeQueue) <= 2
      BY DEF TouchInit
    <3>2. place \in Places /\ placePref \in Places /\ placeDisk \in Places
      BY TouchAssumption DEF TouchInit, Places
    <3>3. opacity \in [icon : {"icon", "none", "half", "full"}, menu : {"half", "full"}]
      BY DEF TouchInit
    <3> QED
      BY <3>1, <3>2, <3>3 DEF TouchInit, TouchTyped
  <2> QED
    BY <2>1 DEF TouchInit, TouchIInv, LastIsPref, TapStays, FollowsFinger, Settled, Touched
<1> QED
  BY <1>1, TouchNextKeepsInv, TouchIInvImplies, PTL DEF TouchSpec

-----------------------------------------------------------------------------
(***************************************************************************)
(* Inputs.  InputsInv is not inductive: what is told to native code and    *)
(* what a build of the menu throws at depends on what was saved, so the    *)
(* invariant says that every preference was entered as its list allowed,   *)
(* that a process without menu has told native code nothing yet, and that  *)
(* a dialog belongs to an input and not to a group of radio buttons.       *)
(***************************************************************************)
InputsSpec == InputsInit /\ [][InputsNext]_inputVars

Preferences == [type : {"none", "int", "long", "string"}, value : Int, under : Versions]

InputsTyped ==
    /\ features \in Versions
    /\ up \in BOOLEAN /\ saving \in BOOLEAN
    /\ stored \in [Numbers -> Preferences]
    /\ shown \in [Numbers -> Int] /\ told \in [Numbers -> Int]
    /\ unread \subseteq Numbers /\ carried \subseteq Numbers /\ behind \subseteq Numbers
    /\ threw \subseteq Numbers
    /\ dialog # NoDialog => dialog \in [of : Numbers, old : BOOLEAN]

(* What list f of the mod writes for one of its features. *)
Allowed(f, p) ==
    /\ p.type = TypeOf(f.kind)
    /\ f.kind \in {"InputValue", "InputLValue"} => p.value <= Limit(f)
    /\ f.kind = "RadioButton" => p.value \in 1 .. f.choices

SavedAsAllowed ==
    \A n \in Numbers : stored[n].type # "none" => Allowed(stored[n].under[n], stored[n])

DownIsBlank ==
    /\ ~up => told = NoValues /\ dialog = NoDialog
    /\ up => threw = {}

DialogOfInput == dialog # NoDialog => features[dialog.of].kind # "RadioButton"

InputsIInv ==
    /\ InputsTyped /\ SavedAsAllowed /\ DownIsBlank /\ DialogOfInput
    /\ WithinMax /\ InputsShowNative /\ InputsRestored /\ ThrowsOutdated

(* A feature of a list. *)
LEMMA FeatureType ==
    ASSUME NEW v \in Versions, NEW n \in Numbers
    PROVE  /\ v[n].kind \in InputKinds
           /\ v[n].max \in Nat /\ v[n].choices \in Nat
           /\ Limit(v[n]) \in Nat /\ WordMax(v[n].kind) \in Nat
  BY InputsAssumption DEF Limit, WordMax

(* What is typed stands for a number: a text is numbered. *)
LEMMA TypedValue ==
    ASSUME NEW kind \in InputKinds, NEW t \in Typed(kind)
    PROVE  t.value \in Int
<1>1. CASE kind = "InputValue"
  <2>1. t \in [number : BOOLEAN, value : -1 .. IntMax + 1]
    BY <1>1 DEF Typed
  <2> QED
    BY <2>1
<1>2. CASE kind = "InputLValue"
  <2>1. t \in [number : BOOLEAN, value : {-LongMax - 2, -1} \cup 0 .. LongMax + 1]
    BY <1>2 DEF Typed
  <2> QED
    BY <2>1, InputsAssumption
<1>3. CASE kind \notin {"InputValue", "InputLValue"}
  <2>1. t \in [number : {TRUE}, value : 0 .. TextCount]
    BY <1>3 DEF Typed
  <2> QED
    BY <2>1
<1> QED
  BY <1>1, <1>2, <1>3

(* What OK makes of a typed number or text is a value its list allows. *)
LEMMA EnteredAllowed ==
    ASSUME NEW v \in Versions, NEW n \in Numbers, NEW t \in Typed(v[n].kind)
    PROVE  /\ Entered(v[n], t) \in Int
           /\ v[n].kind \in {"InputValue", "InputLValue"} => Entered(v[n], t) <= Limit(v[n])
<1> DEFINE f == v[n]
<1>1. /\ f.kind \in InputKinds /\ f.max \in Nat /\ Limit(f) \in Nat
      /\ WordMax(f.kind) \in Nat /\ t.value \in Int
  BY FeatureType, TypedValue
<1> HIDE DEF f
<1>2. CASE Entered(f, t) = t.value
  <2>1. f.kind # "InputText" => Entered(f, t) = Limit(f) \/ t.value <= WordMax(f.kind)
    BY DEF Entered, Parses
  <2>2. f.kind # "InputText" => Entered(f, t) = Limit(f) \/ f.max = 0 \/ t.value < f.max
    BY DEF Entered
  <2> QED
    BY <1>1, <1>2, <2>1, <2>2 DEF f, Limit
<1>3. CASE Entered(f, t) = Limit(f)
  BY <1>1, <1>3 DEF f
<1> QED
  BY <1>2, <1>3 DEF Entered

(* A preference this list wrote is read back as it was allowed; one that   *)
(* was never written is read as 0.                                         *)
LEMMA LoadedWithin ==
    ASSUME InputsTyped, SavedAsAllowed, NEW v \in Versions, NEW n \in Numbers,
           ~Outdated(n, v), NEW load \in BOOLEAN
    PROVE  /\ Loaded(n, v, load) \in Int
           /\ v[n].kind \in {"InputValue", "InputLValue"} => Loaded(n, v, load) <= Limit(v[n])
           /\ ~Throws(n, v, load)
<1>1. /\ v[n].kind \in InputKinds /\ v[n].choices \in Nat /\ Limit(v[n]) \in Nat
      /\ stored[n] \in Preferences
  BY FeatureType DEF InputsTyped
<1>2. CASE stored[n].type = "none"
  <2>1. Loaded(n, v, load) = 0
    BY <1>2 DEF Loaded, Read, TypeOf
  <2> QED
    BY <1>1, <1>2, <2>1 DEF Throws
<1>3. CASE stored[n].type # "none"
  <2>1. Allowed(v[n], stored[n])
    BY <1>3 DEF Outdated, SavedAsAllowed
  <2>2. Loaded(n, v, load) \in {0, stored[n].value}
    BY DEF Loaded, Read
  <2> QED
    BY <1>1, <1>3, <2>1, <2>2 DEF Allowed, Throws, Preferences, TypeOf
<1> QED
  BY <1>2, <1>3

(* What is read is a number. *)
LEMMA LoadedType ==
    ASSUME InputsTyped, NEW v \in Versions, NEW n \in Numbers, NEW load
    PROVE  Loaded(n, v, load) \in Int /\ Shows(n, v, load) \in Int
  BY DEF InputsTyped, Preferences, Loaded, Read, Shows

(* A build of the menu that throws leaves nothing of the menu; each number *)
(* it throws at has a preference of another list.                          *)
LEMMA FailedBuildKeeps ==
    ASSUME InputsIInv, NEW v \in Versions, BuildMenu(v, saving),
           {n \in Numbers : Throws(n, v, saving)} # {}, dialog' = NoDialog
    PROVE  InputsIInv'
<1>0. InputsTyped /\ saving \in BOOLEAN /\ SavedAsAllowed
  BY DEF InputsIInv, InputsTyped
<1>1. /\ features' = v /\ threw' = {n \in Numbers : Throws(n, v, saving)} /\ up' = FALSE
      /\ shown' = NoValues /\ told' = NoValues /\ unread' = {} /\ carried' = {} /\ behind' = {}
      /\ saving' = saving /\ stored' = stored
  BY DEF BuildMenu
<1>2. NoDialog' = NoDialog /\ NoValues' = NoValues
  BY DEF NoDialog, NoValues
<1>3. InputsTyped'
  <2>1. NoValues \in [Numbers -> Int]
    BY DEF NoValues
  <2>2. threw' \subseteq Numbers
    BY <1>1
  <2> QED
    BY <1>0, <1>1, <1>2, <2>1, <2>2 DEF InputsTyped
<1>4. SavedAsAllowed'
  BY <1>0, <1>1 DEF SavedAsAllowed, Allowed, Limit, WordMax, TypeOf
<1>5. DownIsBlank' /\ DialogOfInput'
  BY <1>1, <1>2 DEF DownIsBlank, DialogOfInput
<1>6. WithinMax'
  <2>1. \A n \in Numbers : told'[n] = 0 /\ Limit(v[n]) >= 0
    BY <1>1, FeatureType DEF NoValues
  <2> QED
    BY <1>1, <2>1 DEF WithinMax
<1>7. InputsShowNative' /\ InputsRestored'
  BY <1>1 DEF InputsShowNative, InputsRestored
<1>8. ThrowsOutdated'
  <2>1. \A n \in threw' : Outdated(n, v)
    BY <1>0, <1>1, LoadedWithin
  <2> QED
    BY <1>1, <2>1 DEF ThrowsOutdated, Outdated
<1> QED
  BY <1>3, <1>4, <1>5, <1>6, <1>7, <1>8 DEF InputsIInv

(* A menu that could be built shows what native code is told, within the   *)
(* limits of the list unless another list has saved it.                    *)
LEMMA BuildKeeps ==
    ASSUME InputsIInv, NEW v \in Versions, BuildMenu(v, saving),
           {n \in Numbers : Throws(n, v, saving)} = {},
           up => v = features,
           dialog' # NoDialog => dialog' \in [of : Numbers, old : BOOLEAN]
                                   /\ v[dialog'.of].kind # "RadioButton"
    PROVE  InputsIInv'
<1>0. InputsTyped /\ saving \in BOOLEAN /\ SavedAsAllowed
  BY DEF InputsIInv, InputsTyped
<1>1. /\ features' = v /\ threw' = {} /\ up' = TRUE
      /\ shown' = [n \in Numbers |-> Shows(n, v, saving)]
      /\ told' = [n \in Numbers |-> IF Loads(n, v, saving) THEN Loaded(n, v, saving) ELSE told[n]]
      /\ unread' = {n \in Numbers : ~Loads(n, v, saving)}
      /\ carried' = {n \in Numbers : IF Loads(n, v, saving) THEN Outdated(n, v) ELSE n \in carried}
      /\ kept' = (saving /\ saving) /\ behind' = {}
      /\ saving' = saving /\ stored' = stored
  BY DEF BuildMenu
<1>2. NoDialog' = NoDialog
  BY DEF NoDialog
<1>3. InputsTyped'
  <2>1. \A n \in Numbers : Loaded(n, v, saving) \in Int /\ Shows(n, v, saving) \in Int
    BY <1>0, LoadedType
  <2>2. told' \in [Numbers -> Int] /\ shown' \in [Numbers -> Int]
    BY <1>0, <1>1, <2>1 DEF InputsTyped
  <2> QED
    BY <1>0, <1>1, <1>2, <2>2 DEF InputsTyped
<1>4. SavedAsAllowed'
  BY <1>0, <1>1 DEF SavedAsAllowed, Allowed, Limit, WordMax, TypeOf
<1>5. DownIsBlank' /\ DialogOfInput'
  BY <1>1, <1>2 DEF DownIsBlank, DialogOfInput
<1>6. WithinMax'
  <2> SUFFICES ASSUME NEW n \in Numbers \ carried', v[n].kind \in {"InputValue", "InputLValue"}
               PROVE  told'[n] <= Limit(v[n])
    BY <1>1 DEF WithinMax
  <2>1. CASE Loads(n, v, saving)
    BY <1>0, <1>1, <2>1, LoadedWithin
  <2>2. CASE ~Loads(n, v, saving)
    <3>1. told'[n] = told[n] /\ n \notin carried
      BY <1>1, <2>2
    <3>2. CASE up
      BY <3>1, <3>2 DEF InputsIInv, WithinMax
    <3>3. CASE ~up
      <4>1. told[n] = 0 /\ Limit(v[n]) \in Nat
        BY <3>3, FeatureType DEF InputsIInv, DownIsBlank, NoValues
      <4> QED
        BY <3>1, <4>1
    <3> QED
      BY <3>2, <3>3
  <2> QED
    BY <2>1, <2>2
<1>7. InputsShowNative'
  <2> SUFFICES ASSUME NEW n \in Numbers \ (unread' \cup behind')
               PROVE  \/ shown'[n] = told'[n]
                      \/ v[n].kind = "RadioButton" /\ shown'[n] = 0 /\ told'[n] < 1
    BY <1>1 DEF InputsShowNative
  <2>1. told'[n] = Loaded(n, v, saving) /\ shown'[n] = Shows(n, v, saving)
    BY <1>1
  <2> QED
    BY <2>1 DEF Shows
<1>8. InputsRestored'
  <2> SUFFICES ASSUME saving, NEW n \in Numbers
               PROVE  ~Throws(n, features, TRUE)' /\ Shows(n, features, TRUE)' = shown'[n]
    BY <1>1 DEF InputsRestored
  <2>1. saving = TRUE
    BY <1>0
  <2>2. ~Throws(n, v, TRUE) /\ shown'[n] = Shows(n, v, TRUE)
    BY <1>1, <2>1
  <2>3. Throws(n, features, TRUE)' = Throws(n, v, TRUE) /\ Shows(n, features, TRUE)' = Shows(n, v, TRUE)
    BY <1>1 DEF Throws, Shows, Loads, Loaded, Read
  <2> QED
    BY <2>2, <2>3
<1>9. ThrowsOutdated'
  BY <1>1 DEF ThrowsOutdated
<1> QED
  BY <1>3, <1>4, <1>5, <1>6, <1>7, <1>8, <1>9 DEF InputsIInv

(* Steps that touch neither the list nor what is saved, shown and told. *)
LEMMA SameValuesKeep ==
    ASSUME InputsIInv,
           UNCHANGED <<features, up, saving, stored, shown, told, unread, carried, behind, kept, threw>>,
           dialog' # NoDialog => up /\ dialog' \in [of : Numbers, old : BOOLEAN]
                                    /\ features[dialog'.of].kind # "RadioButton"
    PROVE  InputsIInv'
<1>1. NoDialog' = NoDialog /\ NoValues' = NoValues
  BY DEF NoDialog, NoValues
<1>2. InputsTyped'
  BY <1>1 DEF InputsIInv, InputsTyped
<1>3. SavedAsAllowed' /\ DownIsBlank' /\ DialogOfInput'
  BY <1>1 DEF InputsIInv, SavedAsAllowed, Allowed, Limit, WordMax, TypeOf, DownIsBlank, DialogOfInput
<1>4. WithinMax' /\ InputsShowNative'
  BY DEF InputsIInv, WithinMax, Limit, WordMax, InputsShowNative
<1>5. InputsRestored' /\ ThrowsOutdated'
  BY DEF InputsIInv, InputsRestored, Throws, Shows, Loads, Loaded, Read, ThrowsOutdated, Outdated
<1> QED
  BY <1>2, <1>3, <1>4, <1>5 DEF InputsIInv

(* What was changed is what is shown, told and saved, and the next menu    *)
(* reads it back as it is; a button of a menu that is gone is not.         *)
LEMMA ChangeKeeps ==
    ASSUME InputsIInv, NEW n \in Numbers, NEW v \in Int, Change(n, v), up,
           features[n].kind \in {"InputValue", "InputLValue"} => v <= Limit(features[n]),
           features[n].kind = "RadioButton" => v \in 1 .. features[n].choices,
           \/ shown' = [shown EXCEPT ![n] = v] /\ behind' = behind \ {n}
           \/ shown' = shown /\ behind' = behind \cup {n}
           \/ shown' = [shown EXCEPT ![n] = v] /\ behind' = behind,
           dialog' = NoDialog, UNCHANGED <<features, up, saving, kept, threw>>
    PROVE  InputsIInv'
<1> DEFINE p == [type |-> TypeOf(features[n].kind), value |-> v, under |-> features]
<1>0. InputsTyped /\ SavedAsAllowed /\ threw = {} /\ features[n].kind \in InputKinds
      /\ features \in Versions
  BY FeatureType DEF InputsIInv, DownIsBlank, InputsTyped
<1>1. /\ stored' = [stored EXCEPT ![n] = p]
      /\ told' = [told EXCEPT ![n] = v]
      /\ unread' = unread \ {n} /\ carried' = carried \ {n}
  BY DEF Change
<1>2. NoDialog' = NoDialog
  BY DEF NoDialog
<1>3. p \in Preferences /\ p.type # "none" /\ Allowed(features[n], p)
  BY <1>0 DEF Preferences, TypeOf, Allowed
<1>4. InputsTyped'
  <2>1. shown' \in [Numbers -> Int] /\ behind' \subseteq Numbers
    BY <1>0 DEF InputsTyped
  <2>2. stored' \in [Numbers -> Preferences] /\ told' \in [Numbers -> Int]
    BY <1>0, <1>1, <1>3 DEF InputsTyped
  <2> QED
    BY <1>0, <1>1, <1>2, <2>1, <2>2 DEF InputsTyped
<1>5. SavedAsAllowed'
  <2> SUFFICES ASSUME NEW m \in Numbers, stored'[m].type # "none"
               PROVE  Allowed(stored'[m].under[m], stored'[m])
    BY DEF SavedAsAllowed, Allowed, Limit, WordMax, TypeOf
  <2>1. CASE m = n
    BY <1>0, <1>1, <1>3, <2>1 DEF InputsTyped
  <2>2. CASE m # n
    <3>1. stored'[m] = stored[m]
      BY <1>0, <1>1, <2>2 DEF InputsTyped
    <3> QED
      BY <1>0, <3>1 DEF SavedAsAllowed
  <2> QED
    BY <2>1, <2>2
<1>6. DownIsBlank' /\ DialogOfInput' /\ ThrowsOutdated'
  BY <1>0, <1>2 DEF DownIsBlank, DialogOfInput, ThrowsOutdated
<1>7. WithinMax'
  <2> SUFFICES ASSUME NEW m \in Numbers \ carried', features[m].kind \in {"InputValue", "InputLValue"}
               PROVE  told'[m] <= Limit(features[m])
    BY DEF WithinMax, Limit, WordMax
  <2>1. CASE m = n
    BY <1>0, <1>1, <2>1 DEF InputsTyped
  <2>2. CASE m # n
    BY <1>0, <1>1, <2>2 DEF InputsTyped, InputsIInv, WithinMax
  <2> QED
    BY <2>1, <2>2
<1>8. InputsShowNative'
  <2> SUFFICES ASSUME NEW m \in Numbers \ (unread' \cup behind')
               PROVE  \/ shown'[m] = told'[m]
                      \/ features[m].kind = "RadioButton" /\ shown'[m] = 0 /\ told'[m] < 1
    BY DEF InputsShowNative
  <2>1. CASE m = n
    BY <1>0, <1>1, <2>1 DEF InputsTyped
  <2>2. CASE m # n
    <3>1. shown'[m] = shown[m] /\ told'[m] = told[m] /\ m \notin unread \cup behind
      BY <1>0, <1>1, <2>2 DEF InputsTyped
    <3> QED
      BY <3>1 DEF InputsIInv, InputsShowNative
  <2> QED
    BY <2>1, <2>2
<1>9. InputsRestored'
  <2> SUFFICES ASSUME kept, NEW m \in Numbers \ behind'
               PROVE  ~Throws(m, features, TRUE)' /\ Shows(m, features, TRUE)' = shown'[m]
    BY DEF InputsRestored
  <2>1. CASE m = n
    <3>1. stored'[n] = p /\ shown'[n] = v
      BY <1>0, <1>1, <2>1 DEF InputsTyped
    <3>2. /\ features' = features
          /\ features[n].kind = "RadioButton" => 1 <= v /\ v <= features[n].choices
          /\ features[n].kind = "InputLValue" => stored'[n].type = "long"
          /\ features[n].choices \in Nat
      BY <1>0, <3>1, FeatureType DEF TypeOf
    <3>3. Read(stored'[n], features[n].kind) = v
      BY <3>1 DEF Read
    <3>4. ~Throws(n, features, TRUE)'
      BY <3>2, <3>3 DEF Throws, Loads, Loaded
    <3>5. Shows(n, features, TRUE)' = v
      BY <3>2, <3>3 DEF Shows, Loads, Loaded
    <3> QED
      BY <2>1, <3>1, <3>4, <3>5
  <2>2. CASE m # n
    <3>1. shown'[m] = shown[m] /\ stored'[m] = stored[m] /\ m \notin behind
      BY <1>0, <1>1, <2>2 DEF InputsTyped
    <3>2. ~Throws(m, features, TRUE) /\ Shows(m, features, TRUE) = shown[m]
      BY <3>1 DEF InputsIInv, InputsRestored
    <3> QED
      BY <3>1, <3>2 DEF Throws, Shows, Loads, Loaded, Read
  <2> QED
    BY <2>1, <2>2
<1> QED
  BY <1>4, <1>5, <1>6, <1>7, <1>8, <1>9 DEF InputsIInv

(* Every step of the inputs keeps the invariant. *)
LEMMA InputsNextKeeps == InputsIInv /\ [InputsNext]_inputVars => InputsIInv'
<1> SUFFICES ASSUME InputsIInv, [InputsNext]_inputVars
             PROVE  InputsIInv'
  OBVIOUS
<1>0. InputsTyped /\ features \in Versions /\ NoDialog' = NoDialog /\ NoValues' = NoValues
  BY DEF InputsIInv, InputsTyped, NoDialog, NoValues
<1>1. CASE UNCHANGED inputVars
  BY <1>0, <1>1, SameValuesKeep DEF inputVars, InputsIInv, InputsTyped, DownIsBlank, DialogOfInput
<1>2. ASSUME NEW v \in Versions, StartWith(v)
      PROVE  InputsIInv'
  <2>1. ~up /\ BuildMenu(v, saving) /\ dialog' = NoDialog
    BY <1>2 DEF StartWith
  <2>2. CASE {n \in Numbers : Throws(n, v, saving)} = {}
    BY <2>1, <2>2, BuildKeeps
  <2>3. CASE {n \in Numbers : Throws(n, v, saving)} # {}
    BY <2>1, <2>3, FailedBuildKeeps
  <2> QED
    BY <2>2, <2>3
<1>3. CASE ShowMenuAgain
  <2>1. /\ up /\ BuildMenu(features, saving)
        /\ dialog' = IF up' /\ dialog # NoDialog THEN [dialog EXCEPT !.old = TRUE] ELSE NoDialog
        /\ up' = ({n \in Numbers : Throws(n, features, saving)} = {})
    BY <1>3 DEF ShowMenuAgain, BuildMenu
  <2>2. CASE {n \in Numbers : Throws(n, features, saving)} = {}
    <3>1. dialog' # NoDialog => dialog' \in [of : Numbers, old : BOOLEAN] /\ dialog'.of = dialog.of
                                  /\ dialog # NoDialog
      BY <1>0, <2>1 DEF InputsTyped
    <3>2. dialog' # NoDialog => features[dialog'.of].kind # "RadioButton"
      BY <3>1 DEF InputsIInv, DialogOfInput
    <3> QED
      BY <1>0, <2>1, <2>2, <3>1, <3>2, BuildKeeps
  <2>3. CASE {n \in Numbers : Throws(n, features, saving)} # {}
    <3>1. dialog' = NoDialog
      BY <2>1, <2>3
    <3> QED
      BY <1>0, <2>1, <2>3, <3>1, FailedBuildKeeps
  <2> QED
    BY <2>2, <2>3
<1>4. CASE KillInputs
  <2>1. /\ up' = FALSE /\ shown' = NoValues /\ told' = NoValues /\ unread' = {} /\ carried' = {}
        /\ behind' = {} /\ threw' = {} /\ dialog' = NoDialog /\ kept' = FALSE
        /\ UNCHANGED <<features, saving, stored>>
    BY <1>4 DEF KillInputs
  <2>2. InputsTyped'
    <3>1. NoValues \in [Numbers -> Int]
      BY DEF NoValues
    <3> QED
      BY <1>0, <2>1, <3>1 DEF InputsTyped
  <2>3. SavedAsAllowed'
    BY <2>1 DEF InputsIInv, SavedAsAllowed, Allowed, Limit, WordMax, TypeOf
  <2>4. DownIsBlank' /\ DialogOfInput' /\ InputsShowNative' /\ InputsRestored' /\ ThrowsOutdated'
    BY <1>0, <2>1 DEF DownIsBlank, DialogOfInput, InputsShowNative, InputsRestored, ThrowsOutdated
  <2>5. WithinMax'
    <3>1. \A n \in Numbers : told'[n] = 0 /\ Limit(features[n]) >= 0
      BY <1>0, <2>1, FeatureType DEF NoValues
    <3> QED
      BY <2>1, <3>1 DEF WithinMax, Limit, WordMax
  <2> QED
    BY <2>2, <2>3, <2>4, <2>5 DEF InputsIInv
<1>5. CASE CancelDialog
  BY <1>5, SameValuesKeep DEF CancelDialog
<1>6. ASSUME NEW n \in Numbers, OpenDialog(n)
      PROVE  InputsIInv'
  <2>1. dialog' = [of |-> n, old |-> FALSE] /\ up /\ features[n].kind # "RadioButton"
    BY <1>6 DEF OpenDialog
  <2> QED
    BY <1>6, <2>1, SameValuesKeep DEF OpenDialog
<1>7. ASSUME NEW n \in Numbers, NEW choice \in 1 .. features[n].choices, Choose(n, choice)
      PROVE  InputsIInv'
  <2>1. /\ up /\ features[n].kind = "RadioButton" /\ Change(n, choice)
        /\ shown' = [shown EXCEPT ![n] = choice] /\ behind' = behind /\ dialog' = NoDialog
        /\ UNCHANGED <<features, up, saving, kept, threw>>
    BY <1>7 DEF Choose
  <2>2. choice \in Int
    OBVIOUS
  <2> QED
    BY <2>1, <2>2, ChangeKeeps
<1>8. ASSUME NEW kind \in InputKinds, NEW t \in Typed(kind), Enter(t)
      PROVE  InputsIInv'
  <2> DEFINE n == dialog.of
             e == Entered(features[n], t)
  <2>1. /\ dialog # NoDialog /\ t \in Typed(features[n].kind) /\ Change(n, e)
        /\ dialog' = NoDialog /\ UNCHANGED <<features, up, saving, kept, threw>>
        /\ \/ shown' = shown /\ behind' = behind \cup {n}
           \/ shown' = [shown EXCEPT ![n] = e] /\ behind' = behind \ {n}
    BY <1>8 DEF Enter
  <2>2. n \in Numbers /\ up /\ features[n].kind # "RadioButton"
    BY <1>0, <2>1 DEF InputsIInv, InputsTyped, DownIsBlank, DialogOfInput
  <2>3. e \in Int /\ (features[n].kind \in {"InputValue", "InputLValue"} => e <= Limit(features[n]))
    BY <1>0, <2>1, <2>2, EnteredAllowed
  <2> HIDE DEF e, n
  <2> QED
    BY <2>1, <2>2, <2>3, ChangeKeeps
<1>9. CASE SwitchSaving
  <2>1. /\ up /\ dialog = NoDialog /\ saving' = ~saving /\ kept' = FALSE
        /\ stored' \in {[n \in Numbers |-> Unwritten], stored}
        /\ UNCHANGED <<features, up, shown, told, unread, carried, behind, dialog, threw>>
    BY <1>9 DEF SwitchSaving
  <2>2. [n \in Numbers |-> Unwritten] \in [Numbers -> Preferences]
    BY <1>0 DEF Unwritten, Preferences
  <2>3. InputsTyped'
    BY <1>0, <2>1, <2>2 DEF InputsTyped
  <2>4. SavedAsAllowed'
    BY <2>1 DEF InputsIInv, SavedAsAllowed, Allowed, Limit, WordMax, TypeOf, Unwritten
  <2>5. DownIsBlank' /\ DialogOfInput' /\ InputsRestored' /\ ThrowsOutdated'
    BY <1>0, <2>1 DEF InputsIInv, DownIsBlank, DialogOfInput, InputsRestored, ThrowsOutdated
  <2>6. WithinMax' /\ InputsShowNative'
    BY <2>1 DEF InputsIInv, WithinMax, Limit, WordMax, InputsShowNative
  <2> QED
    BY <2>3, <2>4, <2>5, <2>6 DEF InputsIInv
<1> QED
  BY <1>1, <1>2, <1>3, <1>4, <1>5, <1>6, <1>7, <1>8, <1>9 DEF InputsNext

(***************************************************************************)
(* Whatever the lists of the mod's versions are and however long a word    *)
(* is: native code is told no more than a limit, inputs show what it was   *)
(* told and are restored as they were, and building the menu throws only   *)
(* at what another list has saved.                                         *)
(***************************************************************************)
THEOREM InputsCorrect == InputsSpec => []InputsInv
<1>1. InputsInit => InputsIInv
  <2> SUFFICES ASSUME InputsInit PROVE InputsIInv
    OBVIOUS
  <2>1. NoValues \in [Numbers -> Int] /\ [n \in Numbers |-> Unwritten] \in [Numbers -> Preferences]
    BY DEF InputsInit, NoValues, Unwritten, Preferences
  <2>2. InputsTyped
    BY <2>1 DEF InputsInit, InputsTyped
  <2>3. SavedAsAllowed /\ DownIsBlank /\ DialogOfInput
    BY DEF InputsInit, SavedAsAllowed, DownIsBlank, DialogOfInput, Unwritten
  <2>4. WithinMax
    <3>1. \A n \in Numbers : told[n] = 0 /\ Limit(features[n]) >= 0
      BY FeatureType DEF InputsInit, NoValues
    <3> QED
      BY <3>1 DEF WithinMax
  <2>5. InputsShowNative /\ InputsRestored /\ ThrowsOutdated
    BY DEF InputsInit, InputsShowNative, InputsRestored, ThrowsOutdated
  <2> QED
    BY <2>2, <2>3, <2>4, <2>5 DEF InputsIInv
<1>2. InputsIInv => InputsInv
  BY DEF InputsIInv, InputsInv, InputsTypeOK, InputsTyped, DownIsBlank, Preferences
<1> QED
  BY <1>1, <1>2, InputsNextKeeps, PTL DEF InputsSpec

(***************************************************************************)
(* One frame of the ESP.  The lists that travel to Java are flattened, so  *)
(* the proof first says what a flattening is made of: what is drawn are    *)
(* blocks, each a part of an entity that was kept.  Then it shows where    *)
(* the pixels of a part lie: truncated, the code's projection meets the    *)
(* place the engine gives a point.                                         *)
(***************************************************************************)

(* A set of numbers that is not empty has a least one. *)
LEMMA LeastNat ==
    ASSUME NEW S, S \subseteq Nat, S # {}
    PROVE  \E m \in S : \A x \in S : m <= x
<1>1. \A x, y \in Nat : x < y => <<x, y>> \in OpToRel(<, Nat)
  <2> SUFFICES ASSUME NEW x \in Nat, NEW y \in Nat, x < y PROVE <<x, y>> \in OpToRel(<, Nat)
    OBVIOUS
  <2>1. <<x, y>> \in Nat \X Nat /\ <<x, y>>[1] < <<x, y>>[2]
    OBVIOUS
  <2> QED
    BY <2>1, Zenon DEF OpToRel
<1> DEFINE R == OpToRel(<, Nat)
<1>2. IsWellFoundedOn(R, Nat)
  BY NatLessThanWellFounded
<1> HIDE DEF R
<1>3. PICK m \in S : \A x \in S : ~(<<x, m>> \in R)
  BY <1>2, WFMin, Zenon
<1>4. \A x \in S : ~(x < m)
  BY <1>1, <1>3 DEF R
<1> QED
  BY <1>4

(* What holds of the first number, and of the next one of each of which it *)
(* holds, holds up to the last.                                            *)
LEMMA UpTo ==
    ASSUME NEW n \in Nat, NEW S, 0 \in S, \A m \in 0 .. n - 1 : m \in S => m + 1 \in S
    PROVE  n \in S
<1>1. SUFFICES ASSUME n \notin S PROVE FALSE
  OBVIOUS
<1> DEFINE bad == {m \in 0 .. n : m \notin S}
<1>2. bad \subseteq Nat /\ bad # {}
  BY <1>1
<1>3. PICK m \in bad : \A x \in bad : m <= x
  BY <1>2, LeastNat
<1>4. m # 0 /\ m \in 0 .. n /\ m \notin S
  BY <1>3
<1>5. m - 1 \in 0 .. n - 1 /\ m - 1 \notin bad
  BY <1>3, <1>4
<1>6. m - 1 \in S
  BY <1>4, <1>5
<1> QED
  BY <1>4, <1>5, <1>6

(* A flattening is made up of what it was made from, one behind the other. *)
Block(f, s, o) == \A j \in 1 .. Len(s) : o + j \in 1 .. Len(f) /\ f[o + j] = s[j]
MadeOf(f, q, n) ==
    /\ \A m \in 1 .. n : \E o \in Nat : Block(f, q[m], o)
    /\ \A k \in 1 .. Len(f) : \E m \in 1 .. n, o \in Nat : k - o \in 1 .. Len(q[m]) /\ Block(f, q[m], o)

(* The equation that FlattenSeq solves. *)
Flattens(f, q) == f = [n \in 1 .. Len(q) |-> IF n = 1 THEN q[n] ELSE f[n - 1] \o q[n]]

(* Two sequences, one behind the other. *)
LEMMA Behind ==
    ASSUME NEW X, NEW s \in Seq(X), NEW t \in Seq(X)
    PROVE  /\ s \o t \in Seq(X) /\ Len(s \o t) = Len(s) + Len(t) /\ Len(s) \in Nat /\ Len(t) \in Nat
           /\ \A k \in 1 .. Len(s) : (s \o t)[k] = s[k]
           /\ \A k \in 1 .. Len(t) : (s \o t)[Len(s) + k] = t[k]
<1>1. s \o t \in Seq(X) /\ Len(s \o t) = Len(s) + Len(t)
  OBVIOUS
<1>2. \A k \in 1 .. Len(s) : (s \o t)[k] = s[k]
  OBVIOUS
<1>3. \A k \in 1 .. Len(t) : (s \o t)[Len(s) + k] = t[k]
  OBVIOUS
<1> QED
  BY <1>1, <1>2, <1>3

(* One sequence more is one part more. *)
LEMMA OneMore ==
    ASSUME NEW X, NEW q \in Seq(Seq(X)), NEW n \in 1 .. Len(q) - 1, NEW f \in Seq(X), MadeOf(f, q, n)
    PROVE  f \o q[n + 1] \in Seq(X) /\ MadeOf(f \o q[n + 1], q, n + 1)
<1> DEFINE t == q[n + 1]
           g == f \o t
<1>1. n \in Nat /\ n + 1 \in 1 .. Len(q) /\ t \in Seq(X)
  OBVIOUS
<1>2. /\ g \in Seq(X) /\ Len(g) = Len(f) + Len(t) /\ Len(f) \in Nat /\ Len(t) \in Nat
      /\ \A k \in 1 .. Len(f) : g[k] = f[k]
      /\ \A k \in 1 .. Len(t) : g[Len(f) + k] = t[k]
  BY <1>1, Behind
<1> HIDE DEF g, t
<1>3. ASSUME NEW s \in Seq(X), NEW o \in Nat, Block(f, s, o) PROVE Block(g, s, o)
  BY <1>2, <1>3 DEF Block
<1>4. Block(g, t, Len(f))
  BY <1>2 DEF Block
<1>5. ASSUME NEW m \in 1 .. n + 1 PROVE \E o \in Nat : Block(g, q[m], o)
  <2>1. CASE m = n + 1
    BY <1>2, <1>4, <2>1 DEF t
  <2>2. CASE m # n + 1
    <3>1. m \in 1 .. n /\ q[m] \in Seq(X)
      BY <1>1, <2>2
    <3>2. PICK o \in Nat : Block(f, q[m], o)
      BY <3>1, Zenon DEF MadeOf
    <3> QED
      BY <1>3, <3>1, <3>2, Zenon
  <2> QED
    BY <2>1, <2>2
<1>6. ASSUME NEW k \in 1 .. Len(g)
      PROVE  \E m \in 1 .. n + 1, o \in Nat : k - o \in 1 .. Len(q[m]) /\ Block(g, q[m], o)
  <2>1. CASE k <= Len(f)
    <3>1. k \in 1 .. Len(f)
      BY <1>2, <2>1
    <3>2. PICK m \in 1 .. n, o \in Nat : k - o \in 1 .. Len(q[m]) /\ Block(f, q[m], o)
      BY <3>1, Zenon DEF MadeOf
    <3>3. m \in 1 .. n + 1 /\ q[m] \in Seq(X)
      BY <1>1
    <3> QED
      BY <1>3, <3>2, <3>3, Zenon
  <2>2. CASE k > Len(f)
    <3>1. k - Len(f) \in 1 .. Len(t)
      BY <1>2, <2>2
    <3>2. n + 1 \in 1 .. n + 1 /\ Len(f) \in Nat
      BY <1>1, <1>2
    <3> QED
      BY <1>4, <3>1, <3>2, Zenon DEF t
  <2>3. k <= Len(f) \/ k > Len(f)
    BY <1>2
  <2> QED
    BY <2>1, <2>2, <2>3, Zenon
<1> QED
  BY <1>2, <1>5, <1>6, Zenon DEF MadeOf, g, t

(* The equation has a solution. *)
LEMMA FlattenExists == ASSUME NEW X, NEW q \in Seq(Seq(X)) PROVE \E f : Flattens(f, q)
<1> DEFINE To(f, n) == f = [m \in 1 .. n |-> IF m = 1 THEN q[m] ELSE f[m - 1] \o q[m]]
           S == {n \in Nat : \E f : To(f, n)}
<1>1. 0 \in S
  <2>1. To([m \in 1 .. 0 |-> 0], 0)
    OBVIOUS
  <2> QED
    BY <2>1
<1>2. ASSUME NEW n \in 0 .. Len(q) - 1, n \in S PROVE n + 1 \in S
  <2>1. n \in Nat /\ n + 1 \in Nat
    OBVIOUS
  <2>2. PICK f : To(f, n)
    BY <1>2
  <2> DEFINE g == [m \in 1 .. n + 1 |-> IF m \in 1 .. n THEN f[m] ELSE IF m = 1 THEN q[m] ELSE f[m - 1] \o q[m]]
  <2>3. \A m \in 1 .. n : g[m] = f[m]
    BY <2>1
  <2>4. \A m \in 1 .. n + 1 : g[m] = IF m = 1 THEN q[m] ELSE g[m - 1] \o q[m]
    <3> SUFFICES ASSUME NEW m \in 1 .. n + 1 PROVE g[m] = IF m = 1 THEN q[m] ELSE g[m - 1] \o q[m]
      OBVIOUS
    <3>1. m # 1 => g[m - 1] = f[m - 1]
      BY <2>1, <2>3
    <3>2. m \in 1 .. n => f[m] = IF m = 1 THEN q[m] ELSE f[m - 1] \o q[m]
      BY <2>2
    <3>3. g[m] = IF m \in 1 .. n THEN f[m] ELSE IF m = 1 THEN q[m] ELSE f[m - 1] \o q[m]
      OBVIOUS
    <3> HIDE DEF g
    <3> QED
      BY <3>1, <3>2, <3>3
  <2>5. To(g, n + 1)
    <3>1. g = [m \in 1 .. n + 1 |-> g[m]]
      OBVIOUS
    <3> HIDE DEF g
    <3> QED
      BY <2>4, <3>1
  <2> QED
    BY <2>1, <2>5
<1>3. Len(q) \in S
  <2>1. Len(q) \in Nat
    OBVIOUS
  <2> HIDE DEF S
  <2> QED
    BY <1>1, <1>2, <2>1, UpTo
<1> QED
  BY <1>3 DEF Flattens

(* FlattenSeq chooses a solution, if there is anything to flatten. *)
LEMMA FlattenIs ==
    ASSUME NEW X, NEW q \in Seq(Seq(X)), Len(q) # 0
    PROVE  \E f : Flattens(f, q) /\ FlattenSeq(q) = f[Len(q)]
<1> DEFINE c == CHOOSE f : Flattens(f, q)
<1>1. Flattens(c, q)
  BY FlattenExists, Zenon
<1>2. FlattenSeq(q) = c[Len(q)]
  BY DEF FlattenSeq, Flattens
<1> QED
  BY <1>1, <1>2, Zenon

(* A solution, step by step. *)
LEMMA Solution ==
    ASSUME NEW X, NEW q \in Seq(Seq(X)), NEW f, Flattens(f, q)
    PROVE  /\ 1 \in 1 .. Len(q) => f[1] = q[1]
           /\ \A n \in 1 .. Len(q) - 1 : f[n + 1] = f[n] \o q[n + 1]
<1>1. \A n \in 1 .. Len(q) : f[n] = IF n = 1 THEN q[n] ELSE f[n - 1] \o q[n]
  BY DEF Flattens
<1>2. Len(q) \in Nat
  OBVIOUS
<1> DEFINE n0 == Len(q)
<1> HIDE DEF n0
<1>3. \A n \in 1 .. n0 : f[n] = IF n = 1 THEN q[n] ELSE f[n - 1] \o q[n]
  BY <1>1 DEF n0
<1>4. ASSUME NEW n \in 1 .. n0 - 1 PROVE f[n + 1] = f[n] \o q[n + 1]
  <2>1. n0 \in Nat
    BY <1>2 DEF n0
  <2> DEFINE m == n + 1
  <2>2. m \in 1 .. n0 /\ m # 1 /\ m - 1 = n
    BY <2>1
  <2> HIDE DEF m
  <2>3. f[m] = f[m - 1] \o q[m]
    BY <1>3, <2>2
  <2> QED
    BY <2>2, <2>3 DEF m
<1>5. 1 \in 1 .. n0 => f[1] = q[1]
  BY <1>3
<1> QED
  BY <1>4, <1>5 DEF n0

(* The flattening is made up of all its parts. *)
LEMMA FlattenMade ==
    ASSUME NEW X, NEW q \in Seq(Seq(X))
    PROVE  FlattenSeq(q) \in Seq(X) /\ MadeOf(FlattenSeq(q), q, Len(q))
<1>1. CASE Len(q) = 0
  <2>1. q = <<>>
    BY <1>1
  <2>2. FlattenSeq(q) = <<>>
    BY <2>1 DEF FlattenSeq
  <2> QED
    BY <1>1, <2>2 DEF MadeOf
<1>2. CASE Len(q) # 0
  <2>1. PICK f : Flattens(f, q) /\ FlattenSeq(q) = f[Len(q)]
    BY <1>2, FlattenIs
  <2>2. Len(q) \in Nat /\ 1 \in 1 .. Len(q) /\ q[1] \in Seq(X)
    BY <1>2
  <2>3. f[1] = q[1] /\ \A n \in 1 .. Len(q) - 1 : f[n + 1] = f[n] \o q[n + 1]
    BY <2>1, <2>2, Solution
  <2> DEFINE S == {0} \cup {n \in 1 .. Len(q) : f[n] \in Seq(X) /\ MadeOf(f[n], q, n)}
  <2>4. ASSUME NEW n \in 0 .. Len(q) - 1, n \in S PROVE n + 1 \in S
    <3>1. CASE n = 0
      <4>1. Block(q[1], q[1], 0)
        BY <2>2 DEF Block
      <4>2. MadeOf(q[1], q, 1)
        BY <4>1 DEF MadeOf
      <4> QED
        BY <2>2, <2>3, <3>1, <4>2
    <3>2. CASE n # 0
      <4>1. n \in 1 .. Len(q) - 1 /\ n + 1 \in 1 .. Len(q)
        BY <2>2, <3>2
      <4>2. f[n] \in Seq(X) /\ MadeOf(f[n], q, n)
        BY <2>4, <3>2
      <4>3. f[n + 1] \in Seq(X) /\ MadeOf(f[n + 1], q, n + 1)
        BY <2>3, <4>1, <4>2, OneMore
      <4> QED
        BY <4>1, <4>3
    <3> QED
      BY <3>1, <3>2
  <2>5. Len(q) \in S
    <3>1. 0 \in S
      OBVIOUS
    <3> HIDE DEF S
    <3> QED
      BY <2>2, <2>4, <3>1, UpTo
  <2> QED
    BY <1>2, <2>1, <2>5
<1> QED
  BY <1>1, <1>2

(* Sequences of one length lie in rows. *)
InRows(f, q, w, n) == Len(f) = w * n /\ \A m \in 1 .. n, k \in 1 .. w : f[(m - 1) * w + k] = q[m][k]

(* One sequence more is one row more. *)
LEMMA OneRow ==
    ASSUME NEW X, NEW w \in Nat \ {0}, NEW q \in Seq(Seq(X)), NEW n \in 1 .. Len(q) - 1, NEW f \in Seq(X),
           Len(q[n + 1]) = w, InRows(f, q, w, n)
    PROVE  f \o q[n + 1] \in Seq(X) /\ InRows(f \o q[n + 1], q, w, n + 1)
<1> DEFINE t == q[n + 1]
           g == f \o t
<1>1. n \in Nat /\ n + 1 \in 1 .. Len(q) /\ t \in Seq(X)
  OBVIOUS
<1> HIDE DEF t
<1>2. /\ g \in Seq(X) /\ Len(g) = Len(f) + Len(t) /\ Len(f) \in Nat
      /\ \A k \in 1 .. Len(f) : g[k] = f[k]
      /\ \A k \in 1 .. Len(t) : g[Len(f) + k] = t[k]
  BY <1>1, Behind
<1>3. n \in Nat /\ n + 1 \in 1 .. Len(q) /\ t \in Seq(X) /\ Len(t) = w
  BY <1>1 DEF t
<1>4. Len(f) = w * n /\ \A m \in 1 .. n, k \in 1 .. w : f[(m - 1) * w + k] = q[m][k]
  BY DEF InRows
<1> HIDE DEF g
<1>5. Len(g) = w * (n + 1)
  BY <1>3, <1>2, <1>4
<1>6. ASSUME NEW m \in 1 .. n + 1, NEW k \in 1 .. w PROVE g[(m - 1) * w + k] = q[m][k]
  <2>1. CASE m = n + 1
    <3>1. (m - 1) * w + k = Len(f) + k
      BY <1>3, <1>4, <2>1
    <3> QED
      BY <1>3, <1>2, <2>1, <3>1 DEF t
  <2>2. CASE m # n + 1
    <3>1. m \in 1 .. n /\ m \in Nat /\ k \in Nat
      BY <1>3, <2>2
    <3> DEFINE a == (m - 1) * w
               b == w * n
    <3>2. a \in Int /\ b \in Int /\ a >= 0 /\ a + w <= b
      <4>1. a + w = m * w
        BY <3>1
      <4>2. m * w <= n * w
        BY <1>3, <3>1
      <4>3. n * w = b
        BY <1>3
      <4>4. a >= 0 /\ a \in Int /\ b \in Int
        BY <1>3, <3>1
      <4> QED
        BY <4>1, <4>2, <4>3, <4>4
    <3> HIDE DEF a, b
    <3>3. a + k \in 1 .. b
      BY <3>1, <3>2
    <3>4. g[a + k] = f[a + k]
      BY <1>2, <1>4, <3>3 DEF b
    <3> QED
      BY <1>4, <3>1, <3>4 DEF a
  <2> QED
    BY <2>1, <2>2
<1> QED
  BY <1>2, <1>5, <1>6 DEF InRows, g, t

(* So lies their flattening. *)
LEMMA FlattenRows ==
    ASSUME NEW X, NEW w \in Nat \ {0}, NEW q \in Seq(Seq(X)), \A n \in 1 .. Len(q) : Len(q[n]) = w
    PROVE  FlattenSeq(q) \in Seq(X) /\ InRows(FlattenSeq(q), q, w, Len(q))
<1>1. FlattenSeq(q) \in Seq(X)
  BY FlattenMade
<1>2. CASE Len(q) = 0
  <2>1. q = <<>>
    BY <1>2
  <2>2. FlattenSeq(q) = <<>>
    BY <2>1 DEF FlattenSeq
  <2> QED
    BY <1>1, <1>2, <2>2 DEF InRows
<1>3. CASE Len(q) # 0
  <2>1. PICK f : Flattens(f, q) /\ FlattenSeq(q) = f[Len(q)]
    BY <1>3, FlattenIs
  <2>2. Len(q) \in Nat /\ 1 \in 1 .. Len(q) /\ q[1] \in Seq(X) /\ Len(q[1]) = w
    BY <1>3
  <2>3. f[1] = q[1] /\ \A n \in 1 .. Len(q) - 1 : f[n + 1] = f[n] \o q[n + 1]
    BY <2>1, <2>2, Solution
  <2> DEFINE S == {0} \cup {n \in 1 .. Len(q) : f[n] \in Seq(X) /\ InRows(f[n], q, w, n)}
  <2>4. ASSUME NEW n \in 0 .. Len(q) - 1, n \in S PROVE n + 1 \in S
    <3>1. CASE n = 0
      <4>1. InRows(q[1], q, w, 1)
        BY <2>2 DEF InRows
      <4> QED
        BY <2>2, <2>3, <3>1, <4>1
    <3>2. CASE n # 0
      <4>1. n \in 1 .. Len(q) - 1 /\ n + 1 \in 1 .. Len(q)
        BY <2>2, <3>2
      <4>2. f[n] \in Seq(X) /\ InRows(f[n], q, w, n)
        BY <2>4, <3>2
      <4>3. Len(q[n + 1]) = w
        BY <4>1
      <4>4. f[n] \o q[n + 1] \in Seq(X) /\ InRows(f[n] \o q[n + 1], q, w, n + 1)
        BY <4>1, <4>2, <4>3, OneRow
      <4> QED
        BY <2>3, <4>1, <4>4
    <3> QED
      BY <3>1, <3>2
  <2>5. Len(q) \in S
    <3>1. 0 \in S
      OBVIOUS
    <3> HIDE DEF S
    <3> QED
      BY <2>2, <2>4, <3>1, UpTo
  <2> QED
    BY <1>3, <2>1, <2>5
<1> QED
  BY <1>2, <1>3

Matrices == [0 .. 15 -> Int]

(* The place of a point as the engine sees it. *)
ClipOf(s, p) == Applied(s.projection, Applied(s.view, <<p[1], p[2], p[3], 1>>))

(* The matrix that is transposed has rows for columns. *)
LEMMA Transposed ==
    ASSUME NEW m \in Matrices
    PROVE  transpose(m) \in Matrices /\ \A r, c \in 0 .. 3 : transpose(m)[r * 4 + c] = m[c * 4 + r]
<1>1. \A n \in 0 .. 15 : (n % 4) * 4 + n \div 4 \in 0 .. 15
  OBVIOUS
<1>2. transpose(m) = [n \in 0 .. 15 |-> m[(n % 4) * 4 + n \div 4]]
  BY DEF transpose, Mat4Of
<1>3. transpose(m) \in Matrices
  BY <1>1, <1>2 DEF Matrices
<1>4. \A r, c \in 0 .. 3 : transpose(m)[r * 4 + c] = m[c * 4 + r]
  BY <1>2
<1> QED
  BY <1>3, <1>4

(* The product of two matrices. *)
LEMMA Multiplied ==
    ASSUME NEW a \in Matrices, NEW b \in Matrices
    PROVE  /\ multiply(a, b) \in Matrices
           /\ \A r, c \in 0 .. 3 : multiply(a, b)[r * 4 + c] =
                  a[r * 4] * b[c] + a[r * 4 + 1] * b[4 + c] + a[r * 4 + 2] * b[8 + c] + a[r * 4 + 3] * b[12 + c]
<1> DEFINE El(r, c) == a[r * 4] * b[c] + a[r * 4 + 1] * b[4 + c] + a[r * 4 + 2] * b[8 + c] + a[r * 4 + 3] * b[12 + c]
<1>1. multiply(a, b) = [n \in 0 .. 15 |-> El(n \div 4, n % 4)]
  BY DEF multiply, Mat4Of
<1>2. \A r, c \in 0 .. 3 : El(r, c) \in Int
  BY DEF Matrices
<1>3. \A n \in 0 .. 15 : n \div 4 \in 0 .. 3 /\ n % 4 \in 0 .. 3
  OBVIOUS
<1>4. \A r, c \in 0 .. 3 : r * 4 + c \in 0 .. 15 /\ (r * 4 + c) \div 4 = r /\ (r * 4 + c) % 4 = c
  OBVIOUS
<1>5. \A r, c \in 0 .. 3 : multiply(a, b)[r * 4 + c] = El(r, c)
  <2> HIDE DEF El
  <2> QED
    BY <1>1, <1>4
<1>6. multiply(a, b) \in Matrices
  <2> HIDE DEF El
  <2> QED
    BY <1>1, <1>2, <1>3 DEF Matrices
<1> QED
  BY <1>5, <1>6

(* A sum of products, multiplied out in two ways. *)
LEMMA Distributed ==
    ASSUME NEW p0 \in Int, NEW p1 \in Int, NEW p2 \in Int, NEW p3 \in Int,
           NEW a0 \in Int, NEW a1 \in Int, NEW a2 \in Int, NEW a3 \in Int,
           NEW b0 \in Int, NEW b1 \in Int, NEW b2 \in Int, NEW b3 \in Int,
           NEW c0 \in Int, NEW c1 \in Int, NEW c2 \in Int, NEW c3 \in Int,
           NEW d0 \in Int, NEW d1 \in Int, NEW d2 \in Int, NEW d3 \in Int,
           NEW x \in Int, NEW y \in Int, NEW z \in Int
    PROVE  (p0 * a0 + p1 * a1 + p2 * a2 + p3 * a3) * x + (p0 * b0 + p1 * b1 + p2 * b2 + p3 * b3) * y
               + (p0 * c0 + p1 * c1 + p2 * c2 + p3 * c3) * z + (p0 * d0 + p1 * d1 + p2 * d2 + p3 * d3)
           = p0 * (a0 * x + b0 * y + c0 * z + d0) + p1 * (a1 * x + b1 * y + c1 * z + d1)
               + p2 * (a2 * x + b2 * y + c2 * z + d2) + p3 * (a3 * x + b3 * y + c3 * z + d3)
  OBVIOUS

(* The matrix that a frame is made with has, in its rows and columns, the  *)
(* products of the engine's two.                                           *)
LEMMA MatrixHas ==
    ASSUME NEW s \in Sources
    PROVE  /\ s.view \in Matrices /\ s.projection \in Matrices
           /\ \A r, c \in 0 .. 3 : MatrixOf(s)[r * 4 + c] =
                  s.projection[r] * s.view[c * 4] + s.projection[4 + r] * s.view[c * 4 + 1]
                  + s.projection[8 + r] * s.view[c * 4 + 2] + s.projection[12 + r] * s.view[c * 4 + 3]
<1> DEFINE V == s.view
           P == s.projection
           El(r, c) == P[r] * V[c * 4] + P[4 + r] * V[c * 4 + 1] + P[8 + r] * V[c * 4 + 2] + P[12 + r] * V[c * 4 + 3]
<1>1. V \in Matrices /\ P \in Matrices /\ s.unity \in BOOLEAN
  BY FrameAssumption DEF Matrices
<1>2. CASE s.unity
  <2> DEFINE a == transpose(P)
             b == transpose(V)
  <2>1. MatrixOf(s) = multiply(a, b)
    BY <1>2 DEF MatrixOf, ColumnMajor, viewProjection, readMatrix
  <2>2. a \in Matrices /\ b \in Matrices /\ \A r, c \in 0 .. 3 : a[r * 4 + c] = P[c * 4 + r] /\ b[r * 4 + c] = V[c * 4 + r]
    BY <1>1, Transposed
  <2>3. \A r, c \in 0 .. 3 : multiply(a, b)[r * 4 + c] =
            a[r * 4] * b[c] + a[r * 4 + 1] * b[4 + c] + a[r * 4 + 2] * b[8 + c] + a[r * 4 + 3] * b[12 + c]
    BY <2>2, Multiplied
  <2> HIDE DEF a, b, V, P
  <2>4. ASSUME NEW r \in 0 .. 3, NEW c \in 0 .. 3
        PROVE  /\ a[r * 4] = P[r] /\ a[r * 4 + 1] = P[4 + r] /\ a[r * 4 + 2] = P[8 + r] /\ a[r * 4 + 3] = P[12 + r]
               /\ b[c] = V[c * 4] /\ b[4 + c] = V[c * 4 + 1] /\ b[8 + c] = V[c * 4 + 2] /\ b[12 + c] = V[c * 4 + 3]
    <3>1. a[r * 4 + 0] = P[0 * 4 + r] /\ a[r * 4 + 1] = P[1 * 4 + r] /\ a[r * 4 + 2] = P[2 * 4 + r] /\ a[r * 4 + 3] = P[3 * 4 + r]
      BY <2>2
    <3>2. b[0 * 4 + c] = V[c * 4 + 0] /\ b[1 * 4 + c] = V[c * 4 + 1] /\ b[2 * 4 + c] = V[c * 4 + 2] /\ b[3 * 4 + c] = V[c * 4 + 3]
      BY <2>2
    <3> QED
      BY <3>1, <3>2
  <2>5. ASSUME NEW r \in 0 .. 3, NEW c \in 0 .. 3 PROVE MatrixOf(s)[r * 4 + c] = El(r, c)
    BY <2>1, <2>3, <2>4
  <2> QED
    BY <1>1, <2>5 DEF V, P
<1>3. CASE ~s.unity
  <2> DEFINE a == multiply(V, P)
  <2>1. MatrixOf(s) = transpose(a)
    BY <1>3 DEF MatrixOf, ColumnMajor, viewProjection
  <2>2. a \in Matrices /\ \A r, c \in 0 .. 3 : a[r * 4 + c] =
            V[r * 4] * P[c] + V[r * 4 + 1] * P[4 + c] + V[r * 4 + 2] * P[8 + c] + V[r * 4 + 3] * P[12 + c]
    BY <1>1, Multiplied
  <2>3. \A r, c \in 0 .. 3 : transpose(a)[r * 4 + c] = a[c * 4 + r]
    BY <2>2, Transposed
  <2> HIDE DEF a, V, P
  <2>4. ASSUME NEW r \in 0 .. 3, NEW c \in 0 .. 3 PROVE MatrixOf(s)[r * 4 + c] = El(r, c)
    <3>1. /\ {V[c * 4], V[c * 4 + 1], V[c * 4 + 2], V[c * 4 + 3]} \subseteq Int
          /\ {P[r], P[4 + r], P[8 + r], P[12 + r]} \subseteq Int
      BY <1>1 DEF Matrices
    <3>2. MatrixOf(s)[r * 4 + c] = a[c * 4 + r]
      BY <2>1, <2>3
    <3>3. a[c * 4 + r] = V[c * 4] * P[r] + V[c * 4 + 1] * P[4 + r] + V[c * 4 + 2] * P[8 + r] + V[c * 4 + 3] * P[12 + r]
      BY <2>2
    <3> QED
      BY <3>1, <3>2, <3>3
  <2> QED
    BY <1>1, <2>4 DEF V, P
<1> QED
  BY <1>1, <1>2, <1>3

(* Both ways a point is projected to the same place. *)
LEMMA SamePlace ==
    ASSUME NEW s \in Sources, NEW p \in Vec3, NEW r \in 0 .. 3
    PROVE  RowTimes(MatrixOf(s), r, p) = ClipOf(s, p)[r + 1] /\ ClipOf(s, p)[r + 1] \in Int
<1> DEFINE V == s.view
           P == s.projection
           m == MatrixOf(s)
           El(c) == P[r] * V[c * 4] + P[4 + r] * V[c * 4 + 1] + P[8 + r] * V[c * 4 + 2] + P[12 + r] * V[c * 4 + 3]
           v == Applied(V, <<p[1], p[2], p[3], 1>>)
<1>1. V \in Matrices /\ P \in Matrices /\ \A c \in 0 .. 3 : m[r * 4 + c] = El(c)
  BY MatrixHas
<1>2. p[1] \in Int /\ p[2] \in Int /\ p[3] \in Int
  BY DEF Vec3
<1>3. \A k \in 1 .. 4 : v[k] = V[k - 1] * p[1] + V[k + 3] * p[2] + V[k + 7] * p[3] + V[k + 11]
  BY <1>1, <1>2 DEF Applied, Matrices
<1>4. ClipOf(s, p)[r + 1] = P[r] * v[1] + P[r + 4] * v[2] + P[r + 8] * v[3] + P[r + 12] * v[4]
  BY DEF ClipOf, Applied
<1>5. RowTimes(m, r, p) = El(0) * p[1] + El(1) * p[2] + El(2) * p[3] + El(3)
  <2>1. m[r * 4 + 0] = El(0) /\ m[r * 4 + 1] = El(1) /\ m[r * 4 + 2] = El(2) /\ m[r * 4 + 3] = El(3)
    BY <1>1
  <2>2. m[r * 4 + 0] = m[r * 4]
    OBVIOUS
  <2> HIDE DEF m, El
  <2> QED
    BY <2>1, <2>2 DEF RowTimes
<1> HIDE DEF V, P, m, v
<1>6. /\ v[1] = V[0] * p[1] + V[4] * p[2] + V[8] * p[3] + V[12]
      /\ v[2] = V[1] * p[1] + V[5] * p[2] + V[9] * p[3] + V[13]
      /\ v[3] = V[2] * p[1] + V[6] * p[2] + V[10] * p[3] + V[14]
      /\ v[4] = V[3] * p[1] + V[7] * p[2] + V[11] * p[3] + V[15]
  BY <1>3
<1>7. /\ El(0) = P[r] * V[0] + P[4 + r] * V[1] + P[8 + r] * V[2] + P[12 + r] * V[3]
      /\ El(1) = P[r] * V[4] + P[4 + r] * V[5] + P[8 + r] * V[6] + P[12 + r] * V[7]
      /\ El(2) = P[r] * V[8] + P[4 + r] * V[9] + P[8 + r] * V[10] + P[12 + r] * V[11]
      /\ El(3) = P[r] * V[12] + P[4 + r] * V[13] + P[8 + r] * V[14] + P[12 + r] * V[15]
  OBVIOUS
<1>8. /\ \A k \in 0 .. 15 : V[k] \in Int
      /\ P[r] \in Int /\ P[4 + r] \in Int /\ P[8 + r] \in Int /\ P[12 + r] \in Int
      /\ P[r + 4] = P[4 + r] /\ P[r + 8] = P[8 + r] /\ P[r + 12] = P[12 + r]
  BY <1>1 DEF Matrices
<1>9. El(0) * p[1] + El(1) * p[2] + El(2) * p[3] + El(3) = P[r] * v[1] + P[4 + r] * v[2] + P[8 + r] * v[3] + P[12 + r] * v[4]
  BY <1>2, <1>6, <1>7, <1>8, Distributed
<1>10. \A k \in 1 .. 4 : v[k] \in Int
  BY <1>2, <1>3, <1>8
<1> QED
  BY <1>4, <1>5, <1>8, <1>9, <1>10 DEF m

(* Rounding 960 e / 2 w down, and up. *)
Floor(w, e, a)   == 2 * w * a <= Unit * e /\ Unit * e < 2 * w * a + 2 * w
Ceiling(w, e, a) == 2 * w * a >= Unit * e /\ Unit * e > 2 * w * a - 2 * w
(* The pixel x is that of e / 2 w, or lies next to it. *)
Meets(w, e, x) == -2 * w < e - 2 * w * x /\ e - 2 * w * x < 2 * w

(* What division does. *)
LEMMA Divided == ASSUME NEW n \in Int, NEW d \in Nat \ {0} PROVE n \div d \in Int /\ d * (n \div d) <= n /\ n < d * (n \div d) + d
  OBVIOUS

(* Multiplying keeps the order. *)
LEMMA Times == ASSUME NEW a \in Int, NEW b \in Int, NEW c \in Int, a <= b, 0 <= c PROVE c * a <= c * b
  OBVIOUS

(* Truncating to a pixel. *)
LEMMA PixelIs ==
    ASSUME NEW a \in Int
    PROVE  /\ Pixel(a) \in Int
           /\ a >= 0 => Unit * Pixel(a) <= a /\ a < Unit * Pixel(a) + Unit /\ Pixel(a) >= 0
           /\ a < 0 => Unit * Pixel(a) >= a /\ a > Unit * Pixel(a) - Unit /\ Pixel(a) <= 0
  BY DEF Pixel, Trunc, Unit

(* Truncation keeps the order, and two pixels apart are one pixel apart. *)
LEMMA PixelGrows ==
    ASSUME NEW a \in Int, NEW b \in Int
    PROVE  /\ a <= b => Pixel(a) <= Pixel(b)
           /\ a + 2 * Unit <= b => Pixel(a) + 1 <= Pixel(b)
  BY DEF Pixel, Trunc, Unit

(* A place that was rounded and truncated is met. *)
LEMMA PixelMeets ==
    ASSUME NEW w \in Nat \ {0}, NEW e \in Int, NEW a \in Int, Floor(w, e, a) \/ Ceiling(w, e, a)
    PROVE  Meets(w, e, Pixel(a))
<1> DEFINE x == Pixel(a)
           W == 2 * w
<1>1. x \in Int /\ a <= 960 * x + 959 /\ a >= 960 * x - 959
  BY DEF Pixel, Trunc, Unit
<1>2. W \in Int /\ W > 0 /\ W * a - W < 960 * e /\ 960 * e < W * a + W
  BY DEF Floor, Ceiling, Unit
<1> HIDE DEF x, W
<1>3. W * a <= W * (960 * x + 959) /\ W * (960 * x - 959) <= W * a
  BY <1>1, <1>2, Times
<1> DEFINE y == W * x
<1>4. W * (960 * x + 959) = 960 * y + 959 * W /\ W * (960 * x - 959) = 960 * y - 959 * W /\ y \in Int /\ W * a \in Int
  BY <1>1, <1>2
<1> HIDE DEF y
<1>5. 960 * e < 960 * y + 960 * W /\ 960 * y - 960 * W < 960 * e
  BY <1>2, <1>3, <1>4
<1>6. -W < e - y /\ e - y < W
  BY <1>2, <1>4, <1>5
<1> QED
  BY <1>6 DEF Meets, x, W, y

(* Twice clip.w times the place of a point on the screen. *)
ColumnOf(s, p, size) == (ClipOf(s, p)[4] + ClipOf(s, p)[1]) * size[1]
RowOf(s, p, size) == (IF s.flipY THEN ClipOf(s, p)[4] - ClipOf(s, p)[2] ELSE ClipOf(s, p)[4] + ClipOf(s, p)[2]) * size[2]
DepthOf(s, p) == ClipOf(s, p)[4]

(* Depths are those of the engine. *)
LEMMA DepthIs == ASSUME NEW s \in Sources, NEW p \in Vec3 PROVE ClipW(MatrixOf(s), p) = DepthOf(s, p) /\ DepthOf(s, p) \in Int
<1>1. RowTimes(MatrixOf(s), 3, p) = ClipOf(s, p)[3 + 1] /\ ClipOf(s, p)[3 + 1] \in Int
  BY SamePlace
<1> QED
  BY <1>1 DEF ClipW, DepthOf

(* The place on the screen is the engine's, rounded. *)
LEMMA Across ==
    ASSUME NEW s \in Sources, NEW p \in Vec3, NEW size \in Nat \X Nat, DepthOf(s, p) > 0
    PROVE  /\ ScreenX(MatrixOf(s), p, size) \in Int /\ ColumnOf(s, p, size) \in Int
           /\ Floor(DepthOf(s, p), ColumnOf(s, p, size), ScreenX(MatrixOf(s), p, size))
<1> DEFINE w == DepthOf(s, p)
           x == ClipOf(s, p)[1]
<1>1. w \in Nat \ {0} /\ ClipW(MatrixOf(s), p) = w /\ ClipOf(s, p)[4] = w
  BY DepthIs DEF DepthOf
<1>2. RowTimes(MatrixOf(s), 0, p) = x /\ x \in Int
  <2>1. RowTimes(MatrixOf(s), 0, p) = ClipOf(s, p)[0 + 1] /\ ClipOf(s, p)[0 + 1] \in Int
    BY SamePlace
  <2> QED
    BY <2>1
<1>3. size[1] \in Nat
  OBVIOUS
<1>4. ScreenX(MatrixOf(s), p, size) = (Unit * (x + w) * size[1]) \div (2 * w)
  BY <1>1, <1>2 DEF ScreenX
<1>5. ColumnOf(s, p, size) = (w + x) * size[1]
  BY <1>1 DEF ColumnOf
<1> HIDE DEF w, x
<1> DEFINE n == Unit * (x + w) * size[1]
           d == 2 * w
<1>6. n = Unit * ((w + x) * size[1]) /\ n \in Int /\ d \in Nat \ {0} /\ (w + x) * size[1] \in Int
  BY <1>1, <1>2, <1>3 DEF Unit
<1> HIDE DEF n, d
<1>7. n \div d \in Int /\ d * (n \div d) <= n /\ n < d * (n \div d) + d
  BY <1>6, Divided
<1> QED
  BY <1>4, <1>5, <1>6, <1>7 DEF Floor, n, d, w

(* So it is from the top; the other way up it is rounded up. *)
LEMMA Along ==
    ASSUME NEW s \in Sources, NEW p \in Vec3, NEW size \in Nat \X Nat, DepthOf(s, p) > 0
    PROVE  LET y == ScreenY(MatrixOf(s), p, size, s.flipY) IN
           /\ y \in Int /\ RowOf(s, p, size) \in Int
           /\ IF s.flipY THEN Ceiling(DepthOf(s, p), RowOf(s, p, size), y) ELSE Floor(DepthOf(s, p), RowOf(s, p, size), y)
<1> DEFINE w == DepthOf(s, p)
           v == ClipOf(s, p)[2]
           h == size[2]
           y == ScreenY(MatrixOf(s), p, size, s.flipY)
<1>1. w \in Nat \ {0} /\ ClipW(MatrixOf(s), p) = w /\ ClipOf(s, p)[4] = w
  BY DepthIs DEF DepthOf
<1>2. RowTimes(MatrixOf(s), 1, p) = v /\ v \in Int
  <2>1. RowTimes(MatrixOf(s), 1, p) = ClipOf(s, p)[1 + 1] /\ ClipOf(s, p)[1 + 1] \in Int
    BY SamePlace
  <2> QED
    BY <2>1
<1>3. h \in Nat
  OBVIOUS
<1> DEFINE n == Unit * (v + w) * h
           d == 2 * w
           part == n \div d
<1>4. y = IF s.flipY THEN Unit * h - part ELSE part
  BY <1>1, <1>2 DEF ScreenY
<1>5. RowOf(s, p, size) = (IF s.flipY THEN w - v ELSE w + v) * h
  BY <1>1 DEF RowOf
<1> HIDE DEF w, v, h, y, part, n
<1>6. n = Unit * ((w + v) * h) /\ n \in Int /\ d \in Nat \ {0} /\ (w + v) * h \in Int
  BY <1>1, <1>2, <1>3 DEF Unit, n
<1> HIDE DEF d
<1>7. part \in Int /\ d * part <= n /\ n < d * part + d
  BY <1>6, Divided DEF part
<1>8. CASE ~s.flipY
  <2>1. y = part /\ RowOf(s, p, size) = (w + v) * h
    BY <1>4, <1>5, <1>8
  <2> QED
    BY <1>6, <1>7, <1>8, <2>1 DEF Floor, d, y, w
<1>9. CASE s.flipY
  <2> DEFINE e == (w - v) * h
  <2>1. y = Unit * h - part /\ RowOf(s, p, size) = e
    BY <1>4, <1>5, <1>9
  <2>2. Unit * e = d * (Unit * h) - n /\ e \in Int
    BY <1>1, <1>2, <1>3, <1>6 DEF d, Unit
  <2>3. d * y = d * (Unit * h) - d * part /\ y \in Int
    BY <1>3, <1>6, <1>7, <2>1 DEF Unit
  <2> HIDE DEF e
  <2> DEFINE t == d * (Unit * h)
             u == d * part
  <2>4. t \in Int /\ u \in Int
    BY <1>3, <1>6, <1>7 DEF Unit
  <2> HIDE DEF t, u
  <2>5. d * y >= Unit * e /\ Unit * e > d * y - d
    BY <1>6, <1>7, <2>2, <2>3, <2>4 DEF t, u
  <2> QED
    BY <1>9, <2>1, <2>2, <2>3, <2>5 DEF Ceiling, d, y, w
<1> QED
  BY <1>8, <1>9

FrameSpec == FrameInit /\ [][FrameNext]_frame

(* A frame was built of what there is to build it of. *)
Built ==
    \E s \in Sources, cfg \in Configs, canvas \in Canvases, crowd \in Crowds : frame = buildFrame(s, cfg, canvas, crowd)

(* What an entity adds to the shapes, and to the labels. *)
ShapesFor(n) == If(Kept(frame.crowd[n], frame.source, frame.cfg, frame.canvas),
                   ShapesOf(frame.crowd[n], frame.source, frame.cfg, frame.canvas))
LabelsFor(n) == If(Kept(frame.crowd[n], frame.source, frame.cfg, frame.canvas),
                   LabelsOf(frame.crowd[n], frame.source, frame.cfg, frame.canvas))
ShapeList == FlattenSeq([n \in DOMAIN frame.crowd |-> ShapesFor(n)])
LabelList == FlattenSeq([n \in DOMAIN frame.crowd |-> LabelsFor(n)])

Entity == [feet : Vec3, head : Vec3, health : Int, distance : Int, color : Colour, team : Int, name : Nat]

(* The parts of a frame that was built. *)
LEMMA FrameParts ==
    ASSUME Built
    PROVE  /\ frame.built = TRUE
           /\ frame.source \in Sources /\ frame.cfg \in Configs /\ frame.canvas \in Nat \X Nat /\ frame.crowd \in Seq(Entity)
           /\ frame.shapes = FlattenSeq(ShapeList)
           /\ frame.text = [n \in DOMAIN LabelList |-> LabelList[n].text]
           /\ frame.meta = FlattenSeq([n \in DOMAIN LabelList |-> LabelList[n].meta])
<1>1. PICK s \in Sources, cfg \in Configs, canvas \in Canvases, crowd \in Crowds : frame = buildFrame(s, cfg, canvas, crowd)
  BY DEF Built
<1>2. frame.built = TRUE /\ frame.source = s /\ frame.cfg = cfg /\ frame.canvas = canvas /\ frame.crowd = crowd
  BY <1>1 DEF buildFrame
<1>3. canvas \in Nat \X Nat /\ crowd \in Seq(Entity)
  BY FrameAssumption DEF Entity
<1> DEFINE Sh(n) == If(Kept(crowd[n], s, cfg, canvas), ShapesOf(crowd[n], s, cfg, canvas))
           La(n) == If(Kept(crowd[n], s, cfg, canvas), LabelsOf(crowd[n], s, cfg, canvas))
           shapes == FlattenSeq([n \in DOMAIN crowd |-> Sh(n)])
           labels == FlattenSeq([n \in DOMAIN crowd |-> La(n)])
<1>4. frame.shapes = FlattenSeq(shapes) /\ frame.text = [n \in DOMAIN labels |-> labels[n].text]
      /\ frame.meta = FlattenSeq([n \in DOMAIN labels |-> labels[n].meta])
  BY <1>1 DEF buildFrame
<1>5. ShapeList = shapes /\ LabelList = labels
  BY <1>2 DEF ShapeList, LabelList, ShapesFor, LabelsFor
<1> QED
  BY <1>2, <1>3, <1>4, <1>5

(* What the settings and the sizes are. *)
LEMMA SettingsTyped ==
    ASSUME Built
    PROVE  /\ {frame.cfg.boxes, frame.cfg.cornerBox, frame.cfg.tracers, frame.cfg.healthBars, frame.cfg.names,
               frame.cfg.distances} \subseteq BOOLEAN
           /\ {frame.cfg.colorBox, frame.cfg.colorTracer, frame.cfg.colorEnemy, frame.cfg.colorAlly} \subseteq Colour
           /\ {frame.cfg.colorHealthHigh, frame.cfg.colorHealthLow} \subseteq Colour
           /\ frame.canvas[1] \in Nat /\ frame.canvas[2] \in Nat
           /\ Size \in Nat \X Nat /\ frame.source.minClipW \in Nat \ {0}
<1>1. frame.source \in Sources /\ frame.cfg \in Configs /\ frame.canvas \in Nat \X Nat
  BY FrameParts
<1>2. Size \in Nat \X Nat
  BY <1>1, FrameAssumption DEF Size, SizeOf
<1> QED
  BY <1>1, <1>2, FrameAssumption

(* What an entity is. *)
LEMMA EntityTyped ==
    ASSUME Built, NEW n \in DOMAIN frame.crowd
    PROVE  /\ frame.crowd[n] \in Members /\ frame.crowd[n] \in Entity
           /\ frame.crowd[n].feet \in Vec3 /\ frame.crowd[n].head \in Vec3
           /\ frame.crowd[n].health \in Int /\ frame.crowd[n].distance \in Int /\ frame.crowd[n].color \in Colour
           /\ frame.crowd[n].name \in Nat
<1>1. frame.crowd \in Seq(Entity)
  BY FrameParts
<1>2. frame.crowd[n] \in Entity
  BY <1>1
<1>3. frame.crowd[n] \in Members
  BY DEF Members
<1> QED
  BY <1>2, <1>3 DEF Entity

(* How the properties speak of a point. *)
LEMMA EngineIs ==
    ASSUME NEW p
    PROVE  /\ Clip(p) = ClipOf(frame.source, p) /\ Clip(p)[4] = DepthOf(frame.source, p)
           /\ InFront(p) <=> DepthOf(frame.source, p) > 0
           /\ \A x : InColumn(p, x, Size[1]) <=> Meets(DepthOf(frame.source, p), ColumnOf(frame.source, p, Size), x)
           /\ \A y : InRow(p, y, Size[2]) <=> Meets(DepthOf(frame.source, p), RowOf(frame.source, p, Size), y)
<1>1. Clip(p) = ClipOf(frame.source, p) /\ Clip(p)[4] = DepthOf(frame.source, p)
  BY DEF Clip, ClipOf, DepthOf
<1>2. EngineX(p, Size[1]) = ColumnOf(frame.source, p, Size) /\ EngineY(p, Size[2]) = RowOf(frame.source, p, Size)
  BY <1>1, Zenon DEF EngineX, EngineY, ColumnOf, RowOf
<1>3. \A x : InColumn(p, x, Size[1]) <=> Meets(DepthOf(frame.source, p), ColumnOf(frame.source, p, Size), x)
  BY <1>1, <1>2 DEF InColumn, Meets
<1>4. \A y : InRow(p, y, Size[2]) <=> Meets(DepthOf(frame.source, p), RowOf(frame.source, p, Size), y)
  BY <1>1, <1>2 DEF InRow, Meets
<1> QED
  BY <1>1, <1>3, <1>4 DEF InFront

BoxFor(e) == BoxOf(e, frame.source, SizeOf(frame.source, frame.canvas))
IsKept(e) == Kept(e, frame.source, frame.cfg, frame.canvas)

(* A box is where its entity is. *)
Standing(e, b) ==
    /\ InFront(e.feet) /\ InFront(e.head)
    /\ b.cx \in Int /\ b.x1 \in Int /\ b.x2 \in Int /\ b.y1 \in Int /\ b.y2 \in Int
    /\ b.x1 <= b.cx /\ b.cx <= b.x2 /\ b.y1 <= b.y2
    /\ InColumn(e.feet, b.cx, Size[1])
    /\ \/ InRow(e.head, b.y1, Size[2]) /\ InRow(e.feet, b.y2, Size[2])
       \/ InRow(e.feet, b.y1, Size[2]) /\ InRow(e.head, b.y2, Size[2])

(* What makes a box, before it is truncated. *)
FeetX(e) == ScreenX(MatrixOf(frame.source), e.feet, Size)
FeetY(e) == ScreenY(MatrixOf(frame.source), e.feet, Size, frame.source.flipY)
HeadY(e) == ScreenY(MatrixOf(frame.source), e.head, Size, frame.source.flipY)

(* The box of an entity. *)
LEMMA BoxParts ==
    ASSUME NEW e
    PROVE  LET b == BoxFor(e)
               h == Most(HeadY(e), FeetY(e)) - Least(HeadY(e), FeetY(e)) IN
           /\ b.boxH = h
           /\ b.cx = Pixel(FeetX(e)) /\ b.x1 = Pixel(FeetX(e) - (9 * h) \div 40) /\ b.x2 = Pixel(FeetX(e) + (9 * h) \div 40)
           /\ b.y1 = Pixel(Least(HeadY(e), FeetY(e))) /\ b.y2 = Pixel(Most(HeadY(e), FeetY(e)))
  BY DEF BoxFor, BoxOf, FeetX, FeetY, HeadY, Size

(* Any entity in front of the camera has its box where it is. *)
LEMMA BoxStands ==
    ASSUME Built, NEW n \in DOMAIN frame.crowd,
           InFront(frame.crowd[n].feet), InFront(frame.crowd[n].head)
    PROVE  /\ Standing(frame.crowd[n], BoxFor(frame.crowd[n]))
           /\ FeetX(frame.crowd[n]) \in Int /\ FeetY(frame.crowd[n]) \in Int /\ HeadY(frame.crowd[n]) \in Int
<1> DEFINE e == frame.crowd[n]
           s == frame.source
           b == BoxFor(e)
           x == FeetX(e)
           f == FeetY(e)
           g == HeadY(e)
           h == Most(g, f) - Least(g, f)
<1>1. s \in Sources /\ e.feet \in Vec3 /\ e.head \in Vec3 /\ Size \in Nat \X Nat
  BY FrameParts, EntityTyped, SettingsTyped
<1>2. DepthOf(s, e.feet) > 0 /\ DepthOf(s, e.head) > 0
  BY EngineIs
<1>3. DepthOf(s, e.feet) \in Nat \ {0} /\ DepthOf(s, e.head) \in Nat \ {0}
  BY <1>1, <1>2, DepthIs
<1>4. x \in Int /\ ColumnOf(s, e.feet, Size) \in Int /\ Floor(DepthOf(s, e.feet), ColumnOf(s, e.feet, Size), x)
  BY <1>1, <1>2, Across DEF FeetX
<1>5. /\ f \in Int /\ RowOf(s, e.feet, Size) \in Int
      /\ Floor(DepthOf(s, e.feet), RowOf(s, e.feet, Size), f) \/ Ceiling(DepthOf(s, e.feet), RowOf(s, e.feet, Size), f)
  BY <1>1, <1>2, Along DEF FeetY
<1>6. /\ g \in Int /\ RowOf(s, e.head, Size) \in Int
      /\ Floor(DepthOf(s, e.head), RowOf(s, e.head, Size), g) \/ Ceiling(DepthOf(s, e.head), RowOf(s, e.head, Size), g)
  BY <1>1, <1>2, Along DEF HeadY
<1>7. InColumn(e.feet, Pixel(x), Size[1])
  <2>1. Meets(DepthOf(s, e.feet), ColumnOf(s, e.feet, Size), Pixel(x))
    BY <1>3, <1>4, PixelMeets
  <2> QED
    BY <2>1, EngineIs
<1>8. InRow(e.feet, Pixel(f), Size[2])
  <2>1. Meets(DepthOf(s, e.feet), RowOf(s, e.feet, Size), Pixel(f))
    BY <1>3, <1>5, PixelMeets
  <2> QED
    BY <2>1, EngineIs
<1>9. InRow(e.head, Pixel(g), Size[2])
  <2>1. Meets(DepthOf(s, e.head), RowOf(s, e.head, Size), Pixel(g))
    BY <1>3, <1>6, PixelMeets
  <2> QED
    BY <2>1, EngineIs
<1>10. /\ b.cx = Pixel(x) /\ b.x1 = Pixel(x - (9 * h) \div 40) /\ b.x2 = Pixel(x + (9 * h) \div 40)
       /\ b.y1 = Pixel(Least(g, f)) /\ b.y2 = Pixel(Most(g, f))
  BY BoxParts
<1> HIDE DEF e, b, x, f, g, s
<1>11. Least(g, f) \in Int /\ Most(g, f) \in Int /\ Least(g, f) <= Most(g, f) /\ h \in Nat
  BY <1>5, <1>6 DEF Least, Most
<1>12. (Least(g, f) = f /\ Most(g, f) = g) \/ (Least(g, f) = g /\ Most(g, f) = f)
  BY <1>5, <1>6 DEF Least, Most
<1>13. (9 * h) \div 40 \in Int /\ (9 * h) \div 40 >= 0
  <2> HIDE DEF h
  <2> QED
    BY <1>11
<1> DEFINE half == (9 * h) \div 40
<1> HIDE DEF half, h
<1>14. x - half \in Int /\ x + half \in Int /\ x - half <= x /\ x <= x + half
  BY <1>4, <1>13 DEF half
<1>15. /\ Pixel(x - half) <= Pixel(x) /\ Pixel(x) <= Pixel(x + half)
       /\ Pixel(x) \in Int /\ Pixel(x - half) \in Int /\ Pixel(x + half) \in Int
  BY <1>4, <1>14, PixelGrows, PixelIs
<1>16. Pixel(Least(g, f)) <= Pixel(Most(g, f)) /\ Pixel(Least(g, f)) \in Int /\ Pixel(Most(g, f)) \in Int
  BY <1>11, PixelGrows, PixelIs
<1>17. /\ b.cx \in Int /\ b.x1 \in Int /\ b.x2 \in Int /\ b.y1 \in Int /\ b.y2 \in Int
       /\ b.x1 <= b.cx /\ b.cx <= b.x2 /\ b.y1 <= b.y2
  BY <1>10, <1>15, <1>16 DEF half
<1>18. \/ InRow(e.head, b.y1, Size[2]) /\ InRow(e.feet, b.y2, Size[2])
       \/ InRow(e.feet, b.y1, Size[2]) /\ InRow(e.head, b.y2, Size[2])
  BY <1>8, <1>9, <1>10, <1>12
<1>19. InFront(e.feet) /\ InFront(e.head)
  BY DEF e
<1> QED
  BY <1>4, <1>5, <1>6, <1>7, <1>10, <1>17, <1>18, <1>19, Zenon DEF Standing, e, b, x, f, g

(* An entity is kept when it is in front of the camera and high enough. *)
LEMMA KeptMeans ==
    ASSUME Built, NEW n \in DOMAIN frame.crowd
    PROVE  LET e == frame.crowd[n] IN
           IsKept(e) <=> /\ ~TooFar(e, frame.cfg)
                         /\ ~BehindCamera(Clip(e.feet)[4], frame.source) /\ ~BehindCamera(Clip(e.head)[4], frame.source)
                         /\ BoxFor(e).boxH >= 2 * Unit
                         /\ ~Outside(BoxFor(e), frame.canvas)
<1> DEFINE e == frame.crowd[n]
<1>1. frame.source \in Sources /\ e.feet \in Vec3 /\ e.head \in Vec3
  BY FrameParts, EntityTyped
<1>2. /\ ClipW(MatrixOf(frame.source), e.feet) = Clip(e.feet)[4]
      /\ ClipW(MatrixOf(frame.source), e.head) = Clip(e.head)[4]
  BY <1>1, DepthIs, EngineIs
<1> HIDE DEF e
<1> QED
  BY <1>2, Zenon DEF IsKept, Kept, BoxFor, e

(* What is not behind the camera is in front of it. *)
LEMMA NotBehind ==
    ASSUME Built, NEW p \in Vec3, ~BehindCamera(Clip(p)[4], frame.source)
    PROVE  InFront(p)
<1>1. Clip(p)[4] = DepthOf(frame.source, p) /\ DepthOf(frame.source, p) \in Int
  BY FrameParts, DepthIs, EngineIs
<1>2. frame.source.minClipW \in Nat \ {0}
  BY SettingsTyped
<1> QED
  BY <1>1, <1>2 DEF BehindCamera, InFront

(* An entity that is kept has its box where it is. *)
LEMMA KeptStands ==
    ASSUME Built, NEW n \in DOMAIN frame.crowd, IsKept(frame.crowd[n])
    PROVE  /\ Standing(frame.crowd[n], BoxFor(frame.crowd[n]))
           /\ BoxFor(frame.crowd[n]).y1 + 1 <= BoxFor(frame.crowd[n]).y2
<1> DEFINE e == frame.crowd[n]
           f == FeetY(e)
           g == HeadY(e)
<1>1. /\ ~BehindCamera(Clip(e.feet)[4], frame.source) /\ ~BehindCamera(Clip(e.head)[4], frame.source)
      /\ BoxFor(e).boxH >= 2 * Unit
  BY KeptMeans
<1>2. e.feet \in Vec3 /\ e.head \in Vec3
  BY EntityTyped
<1>3. Standing(e, BoxFor(e)) /\ f \in Int /\ g \in Int
  BY <1>1, <1>2, NotBehind, BoxStands
<1>4. /\ BoxFor(e).boxH = Most(g, f) - Least(g, f)
      /\ BoxFor(e).y1 = Pixel(Least(g, f)) /\ BoxFor(e).y2 = Pixel(Most(g, f))
  BY BoxParts
<1> HIDE DEF e, f, g
<1>5. Least(g, f) \in Int /\ Most(g, f) \in Int
  BY <1>3 DEF Least, Most
<1>6. Least(g, f) + 2 * Unit <= Most(g, f)
  BY <1>1, <1>4, <1>5 DEF Unit
<1>7. Pixel(Least(g, f)) + 1 <= Pixel(Most(g, f))
  BY <1>5, <1>6, PixelGrows
<1> QED
  BY <1>3, <1>4, <1>7 DEF e

Shapes == {t \in Seq(Int \cup Colour) : Len(t) = SHAPE_STRIDE}

(* What an entity that is kept adds, part by part. *)
OutlineFor(n) ==
    LET e == frame.crowd[n] c == frame.cfg IN
    If(c.boxes, pushBoxOutline(BoxFor(e), IF c.colorBox # NoColour THEN c.colorBox ELSE entityColor(c, e), c.cornerBox))
TracerFor(n) ==
    LET b == BoxFor(frame.crowd[n]) o == TracerStart(frame.cfg, frame.canvas) IN
    If(frame.cfg.tracers, <<pushShape(SHAPE_LINE, o[1], o[2], b.cx, b.y2, frame.cfg.colorTracer)>>)
BarsFor(n) ==
    LET e == frame.crowd[n] IN If(frame.cfg.healthBars /\ e.health >= 0, HealthBar(BoxFor(e), e, frame.cfg))

(* A shape is six numbers. *)
LEMMA ShapeIs ==
    ASSUME NEW type \in Int, NEW x1 \in Int, NEW y1 \in Int, NEW x2 \in Int, NEW y2 \in Int, NEW c \in Colour
    PROVE  LET t == pushShape(type, x1, y1, x2, y2, c) IN
           t \in Shapes /\ t[1] = type /\ t[2] = x1 /\ t[3] = y1 /\ t[4] = x2 /\ t[5] = y2 /\ t[6] = c
<1> DEFINE V == Int \cup Colour
           t == <<type, x1, y1, x2, y2, c>>
<1>1. type \in V /\ x1 \in V /\ y1 \in V /\ x2 \in V /\ y2 \in V /\ c \in V
  OBVIOUS
<1> HIDE DEF V
<1>2. t \in Seq(V) /\ Len(t) = 6 /\ t[1] = type /\ t[2] = x1 /\ t[3] = y1 /\ t[4] = x2 /\ t[5] = y2 /\ t[6] = c
  BY <1>1
<1>3. pushShape(type, x1, y1, x2, y2, c) = t
  BY DEF pushShape
<1> HIDE DEF t
<1> QED
  BY <1>2, <1>3 DEF Shapes, SHAPE_STRIDE, V

(* Colours of the bars. *)
LEMMA Blended ==
    ASSUME NEW a \in Colour, NEW b \in Colour, NEW t \in Int
    PROVE  lerpColor(a, b, t) \in Colour /\ \A k \in 1 .. 4 : lerpColor(a, b, t)[k] \in Least(a[k], b[k]) .. Most(a[k], b[k])
<1> DEFINE q == Most(0, Least(4, t))
           Mix(x, y) == x + Trunc((y - x) * q, 4)
<1>1. q \in 0 .. 4
  BY DEF Most, Least
<1> HIDE DEF q
<1>2. ASSUME NEW x \in 0 .. 255, NEW y \in 0 .. 255
      PROVE  Mix(x, y) \in 0 .. 255 /\ Mix(x, y) \in Least(x, y) .. Most(x, y)
  <2>1. CASE q = 0
    BY <2>1 DEF Trunc, Least, Most
  <2>2. CASE q = 1
    BY <2>2 DEF Trunc, Least, Most
  <2>3. CASE q = 2
    BY <2>3 DEF Trunc, Least, Most
  <2>4. CASE q = 3
    BY <2>4 DEF Trunc, Least, Most
  <2>5. CASE q = 4
    BY <2>5 DEF Trunc, Least, Most
  <2> QED
    BY <1>1, <2>1, <2>2, <2>3, <2>4, <2>5
<1>3. lerpColor(a, b, t) = [k \in 1 .. 4 |-> Mix(a[k], b[k]) % 256]
  BY DEF lerpColor, q
<1> HIDE DEF Mix
<1>4. ASSUME NEW k \in 1 .. 4
      PROVE  Mix(a[k], b[k]) % 256 \in 0 .. 255 /\ Mix(a[k], b[k]) % 256 \in Least(a[k], b[k]) .. Most(a[k], b[k])
  <2>1. a[k] \in 0 .. 255 /\ b[k] \in 0 .. 255
    BY DEF Colour
  <2>2. Mix(a[k], b[k]) \in 0 .. 255 /\ Mix(a[k], b[k]) \in Least(a[k], b[k]) .. Most(a[k], b[k])
    BY <1>2, <2>1
  <2>3. Mix(a[k], b[k]) % 256 = Mix(a[k], b[k])
    BY <2>2
  <2> QED
    BY <2>2, <2>3
<1> DEFINE mixed == [k \in 1 .. 4 |-> Mix(a[k], b[k]) % 256]
<1>5. mixed \in [1 .. 4 -> 0 .. 255]
  BY <1>4
<1>6. \A k \in 1 .. 4 : mixed[k] = Mix(a[k], b[k]) % 256
  OBVIOUS
<1> HIDE DEF mixed
<1>7. \A k \in 1 .. 4 : mixed[k] \in Least(a[k], b[k]) .. Most(a[k], b[k])
  BY <1>4, <1>6
<1>8. lerpColor(a, b, t) = mixed
  BY <1>3 DEF mixed
<1> QED
  BY <1>5, <1>7, <1>8 DEF Colour

(* The colours in use. *)
LEMMA ColoursTyped ==
    ASSUME Built, NEW n \in DOMAIN frame.crowd
    PROVE  entityColor(frame.cfg, frame.crowd[n]) \in Colour /\ Track \in Colour
<1>1. Track \in Colour
  BY DEF Track, Colour
<1>2. frame.crowd[n].color \in Colour
  BY EntityTyped
<1>3. frame.cfg.colorEnemy \in Colour /\ frame.cfg.colorAlly \in Colour
  BY SettingsTyped
<1> QED
  BY <1>1, <1>2, <1>3 DEF entityColor

(* The legs of a corner box. *)
Legs(b, len, c) ==
    << pushShape(SHAPE_LINE, b.x1, b.y1, b.x1 + len, b.y1, c), pushShape(SHAPE_LINE, b.x1, b.y1, b.x1, b.y1 + len, c),
       pushShape(SHAPE_LINE, b.x2 - len, b.y1, b.x2, b.y1, c), pushShape(SHAPE_LINE, b.x2, b.y1, b.x2, b.y1 + len, c),
       pushShape(SHAPE_LINE, b.x1, b.y2 - len, b.x1, b.y2, c), pushShape(SHAPE_LINE, b.x1, b.y2, b.x1 + len, b.y2, c),
       pushShape(SHAPE_LINE, b.x2 - len, b.y2, b.x2, b.y2, c), pushShape(SHAPE_LINE, b.x2, b.y2 - len, b.x2, b.y2, c) >>

(* A box is a rectangle, or eight legs. *)
LEMMA OutlineIs ==
    ASSUME NEW b, NEW c
    PROVE  /\ pushBoxOutline(b, c, FALSE) = <<pushShape(SHAPE_RECT, b.x1, b.y1, b.x2, b.y2, c)>>
           /\ pushBoxOutline(b, c, TRUE) = Legs(b, CornerLength(b), c)
  BY DEF pushBoxOutline, Legs

(* Eight things are a sequence of them. *)
LEMMA EightOf ==
    ASSUME NEW X, NEW p1 \in X, NEW p2 \in X, NEW p3 \in X, NEW p4 \in X, NEW p5 \in X, NEW p6 \in X, NEW p7 \in X, NEW p8 \in X
    PROVE  LET t == <<p1, p2, p3, p4, p5, p6, p7, p8>> IN
           /\ t \in Seq(X) /\ Len(t) = 8
           /\ t[1] = p1 /\ t[2] = p2 /\ t[3] = p3 /\ t[4] = p4 /\ t[5] = p5 /\ t[6] = p6 /\ t[7] = p7 /\ t[8] = p8
  OBVIOUS

(* How long legs are. *)
LEMMA LegLength ==
    ASSUME NEW b, b.x1 \in Int, b.x2 \in Int, b.y1 \in Int, b.y2 \in Int
    PROVE  /\ CornerLength(b) \in Int /\ CornerLength(b) >= 1
           /\ b.x2 - b.x1 >= 1 /\ b.y2 - b.y1 >= 1 => CornerLength(b) <= b.x2 - b.x1 /\ CornerLength(b) <= b.y2 - b.y1
           /\ b.x2 - b.x1 >= 4 => 2 * CornerLength(b) < b.x2 - b.x1
  BY DEF CornerLength, Most, Least

(* Eight legs are eight shapes. *)
LEMMA LegsTyped ==
    ASSUME NEW b, b.x1 \in Int, b.x2 \in Int, b.y1 \in Int, b.y2 \in Int, NEW len \in Int, NEW c \in Colour
    PROVE  Legs(b, len, c) \in Seq(Shapes) /\ Len(Legs(b, len, c)) = 8 /\ \A j \in 1 .. 8 : Legs(b, len, c)[j][1] = SHAPE_LINE
<1> DEFINE p1 == pushShape(SHAPE_LINE, b.x1, b.y1, b.x1 + len, b.y1, c)
           p2 == pushShape(SHAPE_LINE, b.x1, b.y1, b.x1, b.y1 + len, c)
           p3 == pushShape(SHAPE_LINE, b.x2 - len, b.y1, b.x2, b.y1, c)
           p4 == pushShape(SHAPE_LINE, b.x2, b.y1, b.x2, b.y1 + len, c)
           p5 == pushShape(SHAPE_LINE, b.x1, b.y2 - len, b.x1, b.y2, c)
           p6 == pushShape(SHAPE_LINE, b.x1, b.y2, b.x1 + len, b.y2, c)
           p7 == pushShape(SHAPE_LINE, b.x2 - len, b.y2, b.x2, b.y2, c)
           p8 == pushShape(SHAPE_LINE, b.x2, b.y2 - len, b.x2, b.y2, c)
<1>1. SHAPE_LINE \in Int /\ b.x1 + len \in Int /\ b.x2 - len \in Int /\ b.y1 + len \in Int /\ b.y2 - len \in Int
  BY DEF SHAPE_LINE
<1>2. ASSUME NEW x1 \in Int, NEW y1 \in Int, NEW x2 \in Int, NEW y2 \in Int
      PROVE  pushShape(SHAPE_LINE, x1, y1, x2, y2, c) \in Shapes /\ pushShape(SHAPE_LINE, x1, y1, x2, y2, c)[1] = SHAPE_LINE
  BY <1>1, ShapeIs
<1>3. /\ p1 \in Shapes /\ p2 \in Shapes /\ p3 \in Shapes /\ p4 \in Shapes
      /\ p5 \in Shapes /\ p6 \in Shapes /\ p7 \in Shapes /\ p8 \in Shapes
      /\ p1[1] = SHAPE_LINE /\ p2[1] = SHAPE_LINE /\ p3[1] = SHAPE_LINE /\ p4[1] = SHAPE_LINE
      /\ p5[1] = SHAPE_LINE /\ p6[1] = SHAPE_LINE /\ p7[1] = SHAPE_LINE /\ p8[1] = SHAPE_LINE
  BY <1>1, <1>2
<1>4. Legs(b, len, c) = <<p1, p2, p3, p4, p5, p6, p7, p8>>
  BY Zenon DEF Legs
<1> HIDE DEF p1, p2, p3, p4, p5, p6, p7, p8
<1> DEFINE t == <<p1, p2, p3, p4, p5, p6, p7, p8>>
<1>5. /\ t \in Seq(Shapes) /\ Len(t) = 8
      /\ t[1] = p1 /\ t[2] = p2 /\ t[3] = p3 /\ t[4] = p4 /\ t[5] = p5 /\ t[6] = p6 /\ t[7] = p7 /\ t[8] = p8
  BY <1>3, EightOf
<1> HIDE DEF t
<1>6. \A j \in 1 .. 8 : t[j][1] = SHAPE_LINE
  BY <1>3, <1>5
<1> QED
  BY <1>4, <1>5, <1>6 DEF t

(* A block of two sequences is one behind the other. *)
LEMMA SplitBlock ==
    ASSUME NEW X, NEW s \in Seq(X), NEW t \in Seq(X), NEW f, NEW o \in Nat, Block(f, s \o t, o)
    PROVE  /\ Block(f, s, o) /\ Block(f, t, o + Len(s)) /\ o + Len(s) \in Nat
           /\ \A k \in Int : k - o \in 1 .. Len(s \o t) => k - o \in 1 .. Len(s) \/ k - (o + Len(s)) \in 1 .. Len(t)
<1> DEFINE g == s \o t
<1>1. /\ Len(g) = Len(s) + Len(t) /\ Len(s) \in Nat /\ Len(t) \in Nat
      /\ \A k \in 1 .. Len(s) : g[k] = s[k]
      /\ \A k \in 1 .. Len(t) : g[Len(s) + k] = t[k]
  BY Behind
<1> HIDE DEF g
<1>2. \A j \in 1 .. Len(g) : o + j \in 1 .. Len(f) /\ f[o + j] = g[j]
  BY DEF Block, g
<1>3. ASSUME NEW j \in 1 .. Len(s) PROVE o + j \in 1 .. Len(f) /\ f[o + j] = s[j]
  BY <1>1, <1>2
<1>4. ASSUME NEW j \in 1 .. Len(t) PROVE (o + Len(s)) + j \in 1 .. Len(f) /\ f[(o + Len(s)) + j] = t[j]
  <2> DEFINE m == Len(s) + j
  <2>1. m \in 1 .. Len(g) /\ g[m] = t[j] /\ (o + Len(s)) + j = o + m
    BY <1>1
  <2> HIDE DEF m
  <2> QED
    BY <1>2, <2>1
<1> QED
  BY <1>1, <1>3, <1>4 DEF Block, g

(* The outline of an entity that is kept: nothing, a rectangle, or legs. *)
LEMMA OutlineTyped ==
    ASSUME Built, NEW n \in DOMAIN frame.crowd, IsKept(frame.crowd[n])
    PROVE  LET b == BoxFor(frame.crowd[n]) p == OutlineFor(n) IN
           /\ p \in Seq(Shapes)
           /\ ~frame.cfg.boxes => Len(p) = 0
           /\ frame.cfg.boxes /\ ~frame.cfg.cornerBox =>
                 /\ Len(p) = 1 /\ p[1][1] = SHAPE_RECT
                 /\ p[1][2] = b.x1 /\ p[1][3] = b.y1 /\ p[1][4] = b.x2 /\ p[1][5] = b.y2
           /\ frame.cfg.boxes /\ frame.cfg.cornerBox =>
                 /\ \E c \in Colour : p = Legs(b, CornerLength(b), c)
                 /\ Len(p) = 8 /\ \A j \in 1 .. 8 : p[j][1] = SHAPE_LINE
<1> DEFINE e == frame.crowd[n]
           b == BoxFor(e)
           c == IF frame.cfg.colorBox # NoColour THEN frame.cfg.colorBox ELSE entityColor(frame.cfg, e)
           r == pushShape(SHAPE_RECT, b.x1, b.y1, b.x2, b.y2, c)
           l == Legs(b, CornerLength(b), c)
<1>1. frame.cfg.boxes \in BOOLEAN /\ frame.cfg.cornerBox \in BOOLEAN /\ c \in Colour
  BY SettingsTyped, ColoursTyped
<1>2. b.x1 \in Int /\ b.x2 \in Int /\ b.y1 \in Int /\ b.y2 \in Int
  BY KeptStands DEF Standing
<1>3. OutlineFor(n) = If(frame.cfg.boxes, pushBoxOutline(b, c, frame.cfg.cornerBox))
  BY DEF OutlineFor
<1>4. pushBoxOutline(b, c, FALSE) = <<r>> /\ pushBoxOutline(b, c, TRUE) = l
  BY OutlineIs
<1> HIDE DEF b, c
<1>5. r \in Shapes /\ r[1] = SHAPE_RECT /\ r[2] = b.x1 /\ r[3] = b.y1 /\ r[4] = b.x2 /\ r[5] = b.y2
  <2> DEFINE x1 == b.x1
             x2 == b.x2
             y1 == b.y1
             y2 == b.y2
  <2>1. SHAPE_RECT \in Int /\ x1 \in Int /\ x2 \in Int /\ y1 \in Int /\ y2 \in Int
    BY <1>2 DEF SHAPE_RECT
  <2>2. r = pushShape(SHAPE_RECT, x1, y1, x2, y2, c)
    OBVIOUS
  <2> HIDE DEF x1, x2, y1, y2, r
  <2>3. r \in Shapes /\ r[1] = SHAPE_RECT /\ r[2] = x1 /\ r[3] = y1 /\ r[4] = x2 /\ r[5] = y2 /\ r[6] = c
    BY <1>1, <2>1, <2>2, ShapeIs
  <2> QED
    BY <2>3 DEF x1, x2, y1, y2
<1>6. l \in Seq(Shapes) /\ Len(l) = 8 /\ \A j \in 1 .. 8 : l[j][1] = SHAPE_LINE
  BY <1>1, <1>2, LegLength, LegsTyped
<1>7. CASE frame.cfg.boxes = FALSE
  <2>1. OutlineFor(n) = << >>
    BY <1>3, <1>7 DEF If
  <2> QED
    BY <1>7, <2>1
<1>8. CASE frame.cfg.boxes = TRUE /\ frame.cfg.cornerBox = FALSE
  <2>1. OutlineFor(n) = <<r>>
    BY <1>3, <1>4, <1>8 DEF If
  <2> HIDE DEF r
  <2>2. OutlineFor(n) \in Seq(Shapes) /\ Len(OutlineFor(n)) = 1 /\ OutlineFor(n)[1] = r
    BY <1>5, <2>1
  <2> QED
    BY <1>5, <1>8, <2>2 DEF b
<1>9. CASE frame.cfg.boxes = TRUE /\ frame.cfg.cornerBox = TRUE
  <2>1. OutlineFor(n) = l
    BY <1>3, <1>4, <1>9 DEF If
  <2> QED
    BY <1>1, <1>6, <1>9, <2>1, Zenon DEF b
<1> QED
  BY <1>1, <1>7, <1>8, <1>9

(* Its tracer. *)
LEMMA TracerTyped ==
    ASSUME Built, NEW n \in DOMAIN frame.crowd, IsKept(frame.crowd[n])
    PROVE  LET b == BoxFor(frame.crowd[n]) p == TracerFor(n) o == TracerStart(frame.cfg, frame.canvas) IN
           /\ p \in Seq(Shapes)
           /\ ~frame.cfg.tracers => Len(p) = 0
           /\ frame.cfg.tracers =>
                 /\ Len(p) = 1 /\ p[1][1] = SHAPE_LINE
                 /\ p[1][2] = o[1] /\ p[1][3] = o[2] /\ p[1][4] = b.cx /\ p[1][5] = b.y2
           /\ o[1] \in 0 .. frame.canvas[1] /\ o[2] \in 0 .. frame.canvas[2]
<1> DEFINE b == BoxFor(frame.crowd[n])
           o == TracerStart(frame.cfg, frame.canvas)
           c == frame.cfg.colorTracer
           r == pushShape(SHAPE_LINE, o[1], o[2], b.cx, b.y2, c)
<1>1. frame.cfg.tracers \in BOOLEAN /\ c \in Colour /\ frame.canvas[1] \in Nat /\ frame.canvas[2] \in Nat
  BY SettingsTyped
<1>2. b.cx \in Int /\ b.y2 \in Int
  BY KeptStands DEF Standing
<1>3. TracerFor(n) = If(frame.cfg.tracers, <<r>>)
  BY DEF TracerFor
<1>4. o[1] \in 0 .. frame.canvas[1] /\ o[2] \in 0 .. frame.canvas[2]
  BY <1>1 DEF TracerStart
<1> HIDE DEF b, c, o
<1>5. r \in Shapes /\ r[1] = SHAPE_LINE /\ r[2] = o[1] /\ r[3] = o[2] /\ r[4] = b.cx /\ r[5] = b.y2
  <2> DEFINE x1 == o[1]
             x2 == b.cx
             y1 == o[2]
             y2 == b.y2
  <2>1. SHAPE_LINE \in Int /\ x1 \in Int /\ x2 \in Int /\ y1 \in Int /\ y2 \in Int
    BY <1>1, <1>2, <1>4 DEF SHAPE_LINE
  <2>2. r = pushShape(SHAPE_LINE, x1, y1, x2, y2, c)
    OBVIOUS
  <2> HIDE DEF x1, x2, y1, y2, r
  <2>3. r \in Shapes /\ r[1] = SHAPE_LINE /\ r[2] = x1 /\ r[3] = y1 /\ r[4] = x2 /\ r[5] = y2 /\ r[6] = c
    BY <1>1, <2>1, <2>2, ShapeIs
  <2> QED
    BY <2>3 DEF x1, x2, y1, y2
<1>6. CASE frame.cfg.tracers = FALSE
  <2>1. TracerFor(n) = << >>
    BY <1>3, <1>6 DEF If
  <2> QED
    BY <1>4, <1>6, <2>1 DEF o
<1>7. CASE frame.cfg.tracers = TRUE
  <2>1. TracerFor(n) = <<r>>
    BY <1>3, <1>7 DEF If
  <2> HIDE DEF r
  <2>2. TracerFor(n) \in Seq(Shapes) /\ Len(TracerFor(n)) = 1 /\ TracerFor(n)[1] = r
    BY <1>5, <2>1
  <2> QED
    BY <1>4, <1>5, <1>7, <2>2 DEF b, o
<1> QED
  BY <1>1, <1>6, <1>7

(* The top of the bar of a health between 0 and 1. *)
LEMMA Grows ==
    ASSUME NEW d \in Nat, NEW t \in 0 .. 4
    PROVE  Trunc(d * t, 4) \in 0 .. d
<1>1. CASE t = 0
  BY <1>1 DEF Trunc
<1>2. CASE t = 1
  BY <1>2 DEF Trunc
<1>3. CASE t = 2
  BY <1>3 DEF Trunc
<1>4. CASE t = 3
  BY <1>4 DEF Trunc
<1>5. CASE t = 4
  BY <1>5 DEF Trunc
<1> QED
  BY <1>1, <1>2, <1>3, <1>4, <1>5

(* Its bars: a track and what fills it. *)
LEMMA BarsTyped ==
    ASSUME Built, NEW n \in DOMAIN frame.crowd, IsKept(frame.crowd[n])
    PROVE  LET e == frame.crowd[n] p == BarsFor(n) low == frame.cfg.colorHealthLow high == frame.cfg.colorHealthHigh IN
           /\ p \in Seq(Shapes)
           /\ Len(p) = 0 \/ /\ Len(p) = 2 /\ p[1][1] = SHAPE_FILL /\ p[2][1] = SHAPE_FILL /\ p[1][6] = Track
                            /\ p[2][2] = p[1][2] /\ p[2][4] = p[1][4] /\ p[2][5] = p[1][5]
                            /\ p[2][3] \in p[1][3] .. p[1][5] \/ e.health > 4
                            /\ \A k \in 1 .. 4 : p[2][6][k] \in Least(low[k], high[k]) .. Most(low[k], high[k])
<1> DEFINE e == frame.crowd[n]
           b == BoxFor(e)
           t == e.health
           c == lerpColor(frame.cfg.colorHealthLow, frame.cfg.colorHealthHigh, t)
           d == b.y2 - b.y1
           x2 == b.x1 - 2
           x1 == x2 - 3
           y == b.y2 - Trunc(d * t, 4)
           r == pushShape(SHAPE_FILL, x1, b.y1, x2, b.y2, Track)
           v == pushShape(SHAPE_FILL, x1, y, x2, b.y2, c)
           shown1 == frame.cfg.healthBars /\ t >= 0
<1>1. Track \in Colour /\ frame.cfg.colorHealthLow \in Colour /\ frame.cfg.colorHealthHigh \in Colour /\ t \in Int
  BY SettingsTyped, ColoursTyped, EntityTyped
<1>2. b.x1 \in Int /\ b.y1 \in Int /\ b.y2 \in Int /\ b.y1 <= b.y2
  BY KeptStands DEF Standing
<1>3. BarsFor(n) = If(shown1, <<r, v>>)
  BY DEF BarsFor, HealthBar
<1>4. /\ c \in Colour
      /\ \A k \in 1 .. 4 : c[k] \in Least(frame.cfg.colorHealthLow[k], frame.cfg.colorHealthHigh[k])
                                 .. Most(frame.cfg.colorHealthLow[k], frame.cfg.colorHealthHigh[k])
  BY <1>1, Blended
<1> HIDE DEF b, t, c
<1>5. x1 \in Int /\ x2 \in Int /\ d \in Nat /\ SHAPE_FILL \in Int
  BY <1>2 DEF SHAPE_FILL
<1> HIDE DEF x1, x2
<1>6. y \in Int
  <2>1. d * t \in Int
    BY <1>1, <1>5
  <2> HIDE DEF d
  <2>2. Trunc(d * t, 4) \in Int
    BY <2>1 DEF Trunc
  <2> QED
    BY <1>2, <2>2
<1>7. t >= 0 => y \in b.y1 .. b.y2 \/ t > 4
  <2> SUFFICES ASSUME t >= 0, ~(t > 4) PROVE y \in b.y1 .. b.y2
    OBVIOUS
  <2>1. t \in 0 .. 4
    BY <1>1
  <2> HIDE DEF d
  <2>2. Trunc(d * t, 4) \in 0 .. d
    BY <1>5, <2>1, Grows
  <2> QED
    BY <1>2, <2>2 DEF d
<1> HIDE DEF y
<1>8. r \in Shapes /\ r[1] = SHAPE_FILL /\ r[2] = x1 /\ r[3] = b.y1 /\ r[4] = x2 /\ r[5] = b.y2 /\ r[6] = Track
  BY <1>1, <1>2, <1>5, ShapeIs
<1>9. v \in Shapes /\ v[1] = SHAPE_FILL /\ v[2] = x1 /\ v[3] = y /\ v[4] = x2 /\ v[5] = b.y2 /\ v[6] = c
  BY <1>2, <1>4, <1>5, <1>6, ShapeIs
<1> HIDE DEF r, v
<1>10. CASE ~shown1
  <2>1. BarsFor(n) = << >>
    BY <1>3, <1>10 DEF If
  <2> QED
    BY <2>1
<1>11. CASE shown1
  <2>1. BarsFor(n) = <<r, v>> /\ t >= 0
    BY <1>3, <1>11 DEF If
  <2>2. BarsFor(n) \in Seq(Shapes) /\ Len(BarsFor(n)) = 2 /\ BarsFor(n)[1] = r /\ BarsFor(n)[2] = v
    BY <1>8, <1>9, <2>1
  <2> QED
    BY <1>4, <1>7, <1>8, <1>9, <2>1, <2>2 DEF t
<1> QED
  BY <1>10, <1>11

(* What an entity that is kept adds, is its three parts. *)
LEMMA AddsParts ==
    ASSUME Built, NEW n \in DOMAIN frame.crowd
    PROVE  /\ ShapesFor(n) \in Seq(Shapes)
           /\ ~IsKept(frame.crowd[n]) => Len(ShapesFor(n)) = 0
           /\ IsKept(frame.crowd[n]) =>
                 /\ OutlineFor(n) \in Seq(Shapes) /\ TracerFor(n) \in Seq(Shapes) /\ BarsFor(n) \in Seq(Shapes)
                 /\ ShapesFor(n) = (OutlineFor(n) \o TracerFor(n)) \o BarsFor(n)
<1> DEFINE added == ShapesOf(frame.crowd[n], frame.source, frame.cfg, frame.canvas)
<1>1. ShapesFor(n) = If(IsKept(frame.crowd[n]), added)
  BY Zenon DEF ShapesFor, IsKept
<1>2. added = (OutlineFor(n) \o TracerFor(n)) \o BarsFor(n)
  BY DEF ShapesOf, OutlineFor, TracerFor, BarsFor, BoxFor
<1> HIDE DEF added
<1>3. CASE IsKept(frame.crowd[n])
  <2>1. OutlineFor(n) \in Seq(Shapes) /\ TracerFor(n) \in Seq(Shapes) /\ BarsFor(n) \in Seq(Shapes)
    BY <1>3, OutlineTyped, TracerTyped, BarsTyped
  <2>2. ShapesFor(n) = added
    BY <1>1, <1>3 DEF If
  <2>3. added \in Seq(Shapes)
    BY <1>2, <2>1, Behind
  <2> QED
    BY <1>2, <1>3, <2>1, <2>2, <2>3, Zenon
<1>4. CASE ~IsKept(frame.crowd[n])
  <2>1. ShapesFor(n) = << >>
    BY <1>1, <1>4 DEF If
  <2> QED
    BY <1>4, <2>1
<1> QED
  BY <1>3, <1>4

(* The added of the shapes is made up of what the entities add. *)
LEMMA ListMade ==
    ASSUME Built
    PROVE  /\ ShapeList \in Seq(Shapes)
           /\ \A n \in DOMAIN frame.crowd : \E o \in Nat : Block(ShapeList, ShapesFor(n), o)
           /\ \A k \in 1 .. Len(ShapeList) : \E n \in DOMAIN frame.crowd, o \in Nat :
                 k - o \in 1 .. Len(ShapesFor(n)) /\ Block(ShapeList, ShapesFor(n), o)
<1> DEFINE q == [n \in DOMAIN frame.crowd |-> ShapesFor(n)]
<1>1. frame.crowd \in Seq(Entity)
  BY FrameParts
<1>2. DOMAIN frame.crowd = 1 .. Len(frame.crowd) /\ Len(frame.crowd) \in Nat
  BY <1>1
<1>3. \A n \in DOMAIN frame.crowd : ShapesFor(n) \in Seq(Shapes)
  BY AddsParts
<1>4. q \in Seq(Seq(Shapes)) /\ Len(q) = Len(frame.crowd)
  BY <1>2, <1>3
<1>5. \A n \in DOMAIN frame.crowd : q[n] = ShapesFor(n)
  OBVIOUS
<1>6. ShapeList = FlattenSeq(q)
  BY DEF ShapeList
<1> HIDE DEF q
<1>7. ShapeList \in Seq(Shapes) /\ MadeOf(ShapeList, q, Len(q))
  BY <1>4, <1>6, FlattenMade
<1>8. ASSUME NEW n \in DOMAIN frame.crowd PROVE \E o \in Nat : Block(ShapeList, ShapesFor(n), o)
  <2>1. n \in 1 .. Len(q) /\ q[n] = ShapesFor(n)
    BY <1>2, <1>4, <1>5
  <2>2. PICK o \in Nat : Block(ShapeList, q[n], o)
    BY <1>7, <2>1, Zenon DEF MadeOf
  <2> QED
    BY <2>1, <2>2, Zenon
<1>9. ASSUME NEW k \in 1 .. Len(ShapeList)
      PROVE  \E n \in DOMAIN frame.crowd, o \in Nat : k - o \in 1 .. Len(ShapesFor(n)) /\ Block(ShapeList, ShapesFor(n), o)
  <2>1. PICK n \in 1 .. Len(q), o \in Nat : k - o \in 1 .. Len(q[n]) /\ Block(ShapeList, q[n], o)
    BY <1>7, Zenon DEF MadeOf
  <2>2. n \in DOMAIN frame.crowd /\ q[n] = ShapesFor(n)
    BY <1>2, <1>4, <1>5
  <2> QED
    BY <2>1, <2>2, Zenon
<1> QED
  BY <1>7, <1>8, <1>9, Zenon

(* The blocks of an entity that is kept. *)
LEMMA KeptBlocks ==
    ASSUME Built, NEW n \in DOMAIN frame.crowd, IsKept(frame.crowd[n]), NEW o \in Nat, Block(ShapeList, ShapesFor(n), o)
    PROVE  \E o2 \in Nat, o3 \in Nat :
              /\ Block(ShapeList, OutlineFor(n), o) /\ Block(ShapeList, TracerFor(n), o2) /\ Block(ShapeList, BarsFor(n), o3)
              /\ \A k \in Int : k - o \in 1 .. Len(ShapesFor(n)) =>
                     \/ k - o \in 1 .. Len(OutlineFor(n))
                     \/ k - o2 \in 1 .. Len(TracerFor(n))
                     \/ k - o3 \in 1 .. Len(BarsFor(n))
<1> DEFINE a == OutlineFor(n)
           t == TracerFor(n)
           b == BarsFor(n)
           at == a \o t
<1>1. a \in Seq(Shapes) /\ t \in Seq(Shapes) /\ b \in Seq(Shapes) /\ ShapesFor(n) = at \o b
  BY AddsParts
<1>2. at \in Seq(Shapes)
  BY <1>1, Behind
<1> HIDE DEF a, t, b, at
<1>3. /\ Block(ShapeList, at, o) /\ Block(ShapeList, b, o + Len(at)) /\ o + Len(at) \in Nat
      /\ \A k \in Int : k - o \in 1 .. Len(at \o b) => k - o \in 1 .. Len(at) \/ k - (o + Len(at)) \in 1 .. Len(b)
  <2>1. Block(ShapeList, at \o b, o)
    BY <1>1, Zenon
  <2> QED
    BY <1>1, <1>2, <2>1, SplitBlock
<1>4. /\ Block(ShapeList, a, o) /\ Block(ShapeList, t, o + Len(a)) /\ o + Len(a) \in Nat
      /\ \A k \in Int : k - o \in 1 .. Len(a \o t) => k - o \in 1 .. Len(a) \/ k - (o + Len(a)) \in 1 .. Len(t)
  <2>1. Block(ShapeList, a \o t, o)
    BY <1>3 DEF at
  <2> QED
    BY <1>1, <2>1, SplitBlock
<1> DEFINE o2 == o + Len(a)
           o3 == o + Len(at)
<1>5. o2 \in Nat /\ o3 \in Nat
  BY <1>3, <1>4
<1>6. Block(ShapeList, a, o) /\ Block(ShapeList, t, o2) /\ Block(ShapeList, b, o3)
  BY <1>3, <1>4
<1>7. \A k \in Int : k - o \in 1 .. Len(ShapesFor(n)) =>
         k - o \in 1 .. Len(a) \/ k - o2 \in 1 .. Len(t) \/ k - o3 \in 1 .. Len(b)
  <2>1. \A k \in Int : k - o \in 1 .. Len(at) => k - o \in 1 .. Len(a) \/ k - o2 \in 1 .. Len(t)
    BY <1>4, Zenon DEF at
  <2> QED
    BY <1>1, <1>3, <2>1, Zenon
<1> HIDE DEF o2, o3
<1> QED
  BY <1>5, <1>6, <1>7, Zenon DEF a, t, b

(* What is drawn is the list of the shapes. *)
LEMMA DrawnIs ==
    ASSUME Built
    PROVE  /\ DOMAIN Drawn = 1 .. Len(ShapeList) /\ Len(ShapeList) \in Nat /\ Len(frame.shapes) = 6 * Len(ShapeList)
           /\ \A k \in 1 .. Len(ShapeList) :
                 /\ Drawn[k].type = ShapeList[k][1] /\ Drawn[k].x1 = ShapeList[k][2] /\ Drawn[k].y1 = ShapeList[k][3]
                 /\ Drawn[k].x2 = ShapeList[k][4] /\ Drawn[k].y2 = ShapeList[k][5] /\ Drawn[k].color = ShapeList[k][6]
<1> DEFINE X == Int \cup Colour
           q == ShapeList
           s == frame.shapes
           n0 == Len(q)
<1>1. q \in Seq(Shapes)
  BY ListMade
<1>2. q \in Seq(Seq(X)) /\ \A n \in 1 .. Len(q) : Len(q[n]) = 6
  BY <1>1 DEF Shapes, SHAPE_STRIDE
<1>3. s = FlattenSeq(q)
  BY FrameParts
<1>4. n0 \in Nat
  BY <1>1
<1> HIDE DEF X, q, s, n0
<1> DEFINE w == 6
<1>5. w \in Nat \ {0} /\ \A n \in 1 .. Len(q) : Len(q[n]) = w
  BY <1>2
<1> HIDE DEF w
<1>6. InRows(s, q, w, n0)
  BY <1>2, <1>3, <1>5, FlattenRows DEF n0
<1>7. Len(s) = 6 * n0 /\ \A m \in 1 .. n0, k \in 1 .. 6 : s[(m - 1) * 6 + k] = q[m][k]
  BY <1>6 DEF InRows, w
<1>8. Len(s) \div 6 = n0
  BY <1>4, <1>7
<1>9. Drawn = [k \in 1 .. n0 |->
                  [type |-> s[(k - 1) * 6 + 1], x1 |-> s[(k - 1) * 6 + 2], y1 |-> s[(k - 1) * 6 + 3],
                   x2 |-> s[(k - 1) * 6 + 4], y2 |-> s[(k - 1) * 6 + 5], color |-> s[(k - 1) * 6 + 6]]]
  BY <1>8 DEF Drawn, drawShapes, SHAPE_STRIDE, s
<1>10. ASSUME NEW k \in 1 .. n0
       PROVE  /\ Drawn[k].type = q[k][1] /\ Drawn[k].x1 = q[k][2] /\ Drawn[k].y1 = q[k][3]
              /\ Drawn[k].x2 = q[k][4] /\ Drawn[k].y2 = q[k][5] /\ Drawn[k].color = q[k][6]
  <2>1. /\ Drawn[k].type = s[(k - 1) * 6 + 1] /\ Drawn[k].x1 = s[(k - 1) * 6 + 2] /\ Drawn[k].y1 = s[(k - 1) * 6 + 3]
        /\ Drawn[k].x2 = s[(k - 1) * 6 + 4] /\ Drawn[k].y2 = s[(k - 1) * 6 + 5] /\ Drawn[k].color = s[(k - 1) * 6 + 6]
    BY <1>9
  <2>2. \A j \in 1 .. 6 : s[(k - 1) * 6 + j] = q[k][j]
    BY <1>7
  <2> QED
    BY <2>1, <2>2
<1>11. DOMAIN Drawn = 1 .. n0
  BY <1>9
<1> QED
  BY <1>4, <1>7, <1>10, <1>11 DEF q, s, n0

(* What a block of the list draws. *)
LEMMA BlockDraws ==
    ASSUME Built, NEW p \in Seq(Shapes), NEW o \in Nat, Block(ShapeList, p, o), NEW j \in 1 .. Len(p)
    PROVE  /\ o + j \in DOMAIN Drawn /\ o + j \in Int
           /\ Drawn[o + j].type = p[j][1] /\ Drawn[o + j].x1 = p[j][2] /\ Drawn[o + j].y1 = p[j][3]
           /\ Drawn[o + j].x2 = p[j][4] /\ Drawn[o + j].y2 = p[j][5] /\ Drawn[o + j].color = p[j][6]
<1> DEFINE m == o + j
<1>1. m \in 1 .. Len(ShapeList) /\ ShapeList[m] = p[j] /\ m \in Int
  BY DEF Block
<1> HIDE DEF m
<1>2. /\ m \in DOMAIN Drawn
      /\ Drawn[m].type = p[j][1] /\ Drawn[m].x1 = p[j][2] /\ Drawn[m].y1 = p[j][3]
      /\ Drawn[m].x2 = p[j][4] /\ Drawn[m].y2 = p[j][5] /\ Drawn[m].color = p[j][6]
  BY <1>1, DrawnIs
<1> QED
  BY <1>1, <1>2, Zenon DEF m

(* Every shape drawn is one of a part of an entity that is kept. *)
DrawnOf(k, p, o) == o \in Nat /\ k - o \in 1 .. Len(p) /\ Block(ShapeList, p, o)
LEMMA DrawnFrom ==
    ASSUME Built, NEW k \in DOMAIN Drawn
    PROVE  k \in Int /\ \E n \in DOMAIN frame.crowd, o \in Nat :
              /\ IsKept(frame.crowd[n])
              /\ DrawnOf(k, OutlineFor(n), o) \/ DrawnOf(k, TracerFor(n), o) \/ DrawnOf(k, BarsFor(n), o)
<1>1. k \in 1 .. Len(ShapeList) /\ k \in Int
  BY DrawnIs
<1>2. PICK n \in DOMAIN frame.crowd, o \in Nat :
           k - o \in 1 .. Len(ShapesFor(n)) /\ Block(ShapeList, ShapesFor(n), o)
  BY <1>1, ListMade, Zenon
<1>3. IsKept(frame.crowd[n])
  <2>1. Len(ShapesFor(n)) # 0
    BY <1>1, <1>2
  <2> QED
    BY <2>1, AddsParts
<1>4. PICK o2 \in Nat, o3 \in Nat :
              /\ Block(ShapeList, OutlineFor(n), o) /\ Block(ShapeList, TracerFor(n), o2) /\ Block(ShapeList, BarsFor(n), o3)
              /\ \A x \in Int : x - o \in 1 .. Len(ShapesFor(n)) =>
                     \/ x - o \in 1 .. Len(OutlineFor(n))
                     \/ x - o2 \in 1 .. Len(TracerFor(n))
                     \/ x - o3 \in 1 .. Len(BarsFor(n))
  BY <1>2, <1>3, KeptBlocks, Zenon
<1>5. DrawnOf(k, OutlineFor(n), o) \/ DrawnOf(k, TracerFor(n), o2) \/ DrawnOf(k, BarsFor(n), o3)
  BY <1>1, <1>2, <1>4, Zenon DEF DrawnOf
<1> QED
  BY <1>1, <1>3, <1>5, Zenon

(* Which part is drawn how. *)
LEMMA KindOf ==
    ASSUME Built, NEW n \in DOMAIN frame.crowd, IsKept(frame.crowd[n]), NEW k \in DOMAIN Drawn, NEW o
    PROVE  /\ DrawnOf(k, OutlineFor(n), o) =>
                 frame.cfg.boxes /\ Drawn[k].type = IF frame.cfg.cornerBox THEN SHAPE_LINE ELSE SHAPE_RECT
           /\ DrawnOf(k, TracerFor(n), o) => frame.cfg.tracers /\ Drawn[k].type = SHAPE_LINE
           /\ DrawnOf(k, BarsFor(n), o) => Drawn[k].type = SHAPE_FILL
<1>1. k \in Int
  BY DrawnFrom
<1>2. ASSUME NEW p \in Seq(Shapes), DrawnOf(k, p, o)
      PROVE  \E j \in 1 .. Len(p) : j = k - o /\ Drawn[k].type = p[j][1]
  <2> DEFINE j == k - o
  <2>1. o \in Nat /\ j \in 1 .. Len(p) /\ Block(ShapeList, p, o) /\ o + j = k
    BY <1>1, <1>2 DEF DrawnOf
  <2> HIDE DEF j
  <2>2. Drawn[o + j].type = p[j][1]
    BY <2>1, BlockDraws
  <2>3. Drawn[k].type = p[j][1]
    BY <2>1, <2>2, Zenon
  <2> QED
    BY <2>1, <2>3 DEF j
<1>3. frame.cfg.boxes \in BOOLEAN /\ frame.cfg.cornerBox \in BOOLEAN /\ frame.cfg.tracers \in BOOLEAN
  BY SettingsTyped
<1>4. ASSUME DrawnOf(k, OutlineFor(n), o)
      PROVE  frame.cfg.boxes /\ Drawn[k].type = IF frame.cfg.cornerBox THEN SHAPE_LINE ELSE SHAPE_RECT
  <2> DEFINE p == OutlineFor(n)
  <2>1. /\ p \in Seq(Shapes)
        /\ ~frame.cfg.boxes => Len(p) = 0
        /\ frame.cfg.boxes /\ ~frame.cfg.cornerBox => Len(p) = 1 /\ p[1][1] = SHAPE_RECT
        /\ frame.cfg.boxes /\ frame.cfg.cornerBox => Len(p) = 8 /\ \A j \in 1 .. 8 : p[j][1] = SHAPE_LINE
    BY OutlineTyped
  <2> HIDE DEF p
  <2>2. PICK j \in 1 .. Len(p) : Drawn[k].type = p[j][1]
    BY <1>2, <1>4, <2>1 DEF p
  <2>3. frame.cfg.boxes
    BY <2>1, <2>2
  <2>4. CASE frame.cfg.cornerBox
    <3>1. Len(p) = 8 /\ \A m \in 1 .. 8 : p[m][1] = SHAPE_LINE
      BY <2>1, <2>3, <2>4
    <3>2. Drawn[k].type = SHAPE_LINE
      BY <2>2, <3>1
    <3> QED
      BY <2>3, <2>4, <3>2
  <2>5. CASE ~frame.cfg.cornerBox
    <3>1. Len(p) = 1 /\ p[1][1] = SHAPE_RECT
      BY <2>1, <2>3, <2>5
    <3>2. j = 1
      BY <3>1
    <3>3. Drawn[k].type = SHAPE_RECT
      BY <2>2, <3>1, <3>2
    <3> QED
      BY <2>3, <2>5, <3>3
  <2> QED
    BY <2>4, <2>5
<1>5. ASSUME DrawnOf(k, TracerFor(n), o) PROVE frame.cfg.tracers /\ Drawn[k].type = SHAPE_LINE
  <2> DEFINE p == TracerFor(n)
  <2>1. /\ p \in Seq(Shapes)
        /\ ~frame.cfg.tracers => Len(p) = 0
        /\ frame.cfg.tracers => Len(p) = 1 /\ p[1][1] = SHAPE_LINE
    BY TracerTyped
  <2> HIDE DEF p
  <2>2. PICK j \in 1 .. Len(p) : Drawn[k].type = p[j][1]
    BY <1>2, <1>5, <2>1 DEF p
  <2> QED
    BY <1>3, <2>1, <2>2
<1>6. ASSUME DrawnOf(k, BarsFor(n), o) PROVE Drawn[k].type = SHAPE_FILL
  <2> DEFINE p == BarsFor(n)
  <2>1. p \in Seq(Shapes) /\ (Len(p) = 0 \/ (Len(p) = 2 /\ p[1][1] = SHAPE_FILL /\ p[2][1] = SHAPE_FILL))
    BY BarsTyped
  <2> HIDE DEF p
  <2>2. PICK j \in 1 .. Len(p) : Drawn[k].type = p[j][1]
    BY <1>2, <1>6, <2>1 DEF p
  <2> QED
    BY <2>1, <2>2
<1> QED
  BY <1>4, <1>5, <1>6

(* A box that is where its entity is, stands on it. *)
LEMMA StandingIs ==
    ASSUME NEW e \in Members, NEW b, Standing(e, b)
    PROVE  StandsOnEntity(b.x1, b.y1, b.x2, b.y2)
<1>1. b.cx \in b.x1 .. b.x2 /\ InColumn(e.feet, b.cx, Size[1])
  BY DEF Standing
<1>2. /\ InFront(e.feet) /\ InFront(e.head)
      /\ \/ InRow(e.head, b.y1, Size[2]) /\ InRow(e.feet, b.y2, Size[2])
         \/ InRow(e.feet, b.y1, Size[2]) /\ InRow(e.head, b.y2, Size[2])
  BY DEF Standing
<1> QED
  BY <1>1, <1>2, Zenon DEF StandsOnEntity

(* Boxes stand on entities in front of the camera. *)
LEMMA BoxesStand == ASSUME Built PROVE BoxesStandOnEntities
<1> SUFFICES ASSUME NEW k \in DOMAIN Drawn, Drawn[k].type = SHAPE_RECT
             PROVE  StandsOnEntity(Drawn[k].x1, Drawn[k].y1, Drawn[k].x2, Drawn[k].y2)
  BY DEF BoxesStandOnEntities, Of
<1>1. PICK n \in DOMAIN frame.crowd, o \in Nat :
          /\ IsKept(frame.crowd[n])
          /\ DrawnOf(k, OutlineFor(n), o) \/ DrawnOf(k, TracerFor(n), o) \/ DrawnOf(k, BarsFor(n), o)
  BY DrawnFrom
<1>2. k \in Int /\ frame.cfg.boxes \in BOOLEAN /\ frame.cfg.cornerBox \in BOOLEAN
  BY DrawnFrom, SettingsTyped
<1>3. DrawnOf(k, OutlineFor(n), o) /\ frame.cfg.boxes /\ ~frame.cfg.cornerBox
  BY <1>1, <1>2, KindOf DEF SHAPE_RECT, SHAPE_LINE, SHAPE_FILL
<1> DEFINE p == OutlineFor(n)
           b == BoxFor(frame.crowd[n])
<1>4. /\ p \in Seq(Shapes) /\ Len(p) = 1
      /\ p[1][2] = b.x1 /\ p[1][3] = b.y1 /\ p[1][4] = b.x2 /\ p[1][5] = b.y2
  BY <1>1, <1>3, OutlineTyped
<1>5. frame.crowd[n] \in Members /\ Standing(frame.crowd[n], b)
  BY <1>1, EntityTyped, KeptStands
<1> HIDE DEF p, b
<1>6. 1 \in 1 .. Len(p) /\ o + 1 = k /\ Block(ShapeList, p, o)
  BY <1>2, <1>3, <1>4 DEF DrawnOf, p
<1>7. Drawn[o + 1].x1 = b.x1 /\ Drawn[o + 1].y1 = b.y1 /\ Drawn[o + 1].x2 = b.x2 /\ Drawn[o + 1].y2 = b.y2
  BY <1>4, <1>6, BlockDraws
<1> QED
  BY <1>5, <1>6, <1>7, StandingIs

(* Tracers end at the lower end of an entity. *)
LEMMA TracersEnd == ASSUME Built PROVE TracersEndAtEntities
<1> SUFFICES ASSUME ~frame.cfg.cornerBox, NEW k \in DOMAIN Drawn, Drawn[k].type = SHAPE_LINE
             PROVE  /\ Drawn[k].x1 \in 0 .. frame.canvas[1] /\ Drawn[k].y1 \in 0 .. frame.canvas[2]
                    /\ \E e \in Members :
                          /\ InFront(e.feet) /\ InColumn(e.feet, Drawn[k].x2, Size[1])
                          /\ InRow(e.feet, Drawn[k].y2, Size[2]) \/ InRow(e.head, Drawn[k].y2, Size[2])
  BY DEF TracersEndAtEntities, Of
<1>1. PICK n \in DOMAIN frame.crowd, o \in Nat :
          /\ IsKept(frame.crowd[n])
          /\ DrawnOf(k, OutlineFor(n), o) \/ DrawnOf(k, TracerFor(n), o) \/ DrawnOf(k, BarsFor(n), o)
  BY DrawnFrom
<1>2. k \in Int /\ frame.cfg.tracers \in BOOLEAN
  BY DrawnFrom, SettingsTyped
<1>3. DrawnOf(k, TracerFor(n), o) /\ frame.cfg.tracers
  BY <1>1, <1>2, KindOf DEF SHAPE_RECT, SHAPE_LINE, SHAPE_FILL
<1> DEFINE p == TracerFor(n)
           e == frame.crowd[n]
           b == BoxFor(e)
           t == TracerStart(frame.cfg, frame.canvas)
<1>4. /\ p \in Seq(Shapes) /\ Len(p) = 1
      /\ p[1][2] = t[1] /\ p[1][3] = t[2] /\ p[1][4] = b.cx /\ p[1][5] = b.y2
      /\ t[1] \in 0 .. frame.canvas[1] /\ t[2] \in 0 .. frame.canvas[2]
  BY <1>1, <1>3, TracerTyped
<1>5. e \in Members /\ Standing(e, b)
  BY <1>1, EntityTyped, KeptStands
<1> HIDE DEF p, b, e, t
<1>6. 1 \in 1 .. Len(p) /\ o + 1 = k /\ Block(ShapeList, p, o)
  BY <1>2, <1>3, <1>4 DEF DrawnOf, p
<1>7. Drawn[o + 1].x1 = t[1] /\ Drawn[o + 1].y1 = t[2] /\ Drawn[o + 1].x2 = b.cx /\ Drawn[o + 1].y2 = b.y2
  BY <1>4, <1>6, BlockDraws
<1>8. /\ InFront(e.feet) /\ InColumn(e.feet, b.cx, Size[1])
      /\ InRow(e.feet, b.y2, Size[2]) \/ InRow(e.head, b.y2, Size[2])
  BY <1>5 DEF Standing
<1> QED
  BY <1>4, <1>5, <1>6, <1>7, <1>8

(* Where the legs of a corner box end. *)
LEMMA LegEnds ==
    ASSUME NEW b, b.x1 \in Int, b.x2 \in Int, b.y1 \in Int, b.y2 \in Int, NEW len \in Int, NEW c \in Colour
    PROVE  LET l == Legs(b, len, c) xs == {b.x1, b.x2, b.x1 + len, b.x2 - len} ys == {b.y1, b.y2, b.y1 + len, b.y2 - len} IN
           /\ l[1][2] = b.x1 /\ l[1][3] = b.y1 /\ l[1][4] = b.x1 + len /\ l[8][2] = b.x2 /\ l[8][5] = b.y2
           /\ \A j \in 1 .. 8 : l[j][2] \in xs /\ l[j][4] \in xs /\ l[j][3] \in ys /\ l[j][5] \in ys
<1> DEFINE l == Legs(b, len, c)
<1>1. /\ l[1][2] = b.x1 /\ l[1][3] = b.y1 /\ l[1][4] = b.x1 + len /\ l[1][5] = b.y1
      /\ l[2][2] = b.x1 /\ l[2][3] = b.y1 /\ l[2][4] = b.x1 /\ l[2][5] = b.y1 + len
  BY DEF Legs, pushShape
<1>2. /\ l[3][2] = b.x2 - len /\ l[3][3] = b.y1 /\ l[3][4] = b.x2 /\ l[3][5] = b.y1
      /\ l[4][2] = b.x2 /\ l[4][3] = b.y1 /\ l[4][4] = b.x2 /\ l[4][5] = b.y1 + len
  BY DEF Legs, pushShape
<1>3. /\ l[5][2] = b.x1 /\ l[5][3] = b.y2 - len /\ l[5][4] = b.x1 /\ l[5][5] = b.y2
      /\ l[6][2] = b.x1 /\ l[6][3] = b.y2 /\ l[6][4] = b.x1 + len /\ l[6][5] = b.y2
  BY DEF Legs, pushShape
<1>4. /\ l[7][2] = b.x2 - len /\ l[7][3] = b.y2 /\ l[7][4] = b.x2 /\ l[7][5] = b.y2
      /\ l[8][2] = b.x2 /\ l[8][3] = b.y2 - len /\ l[8][4] = b.x2 /\ l[8][5] = b.y2
  BY DEF Legs, pushShape
<1> HIDE DEF l
<1>5. ASSUME NEW j \in 1 .. 8
      PROVE  /\ l[j][2] \in {b.x1, b.x2, b.x1 + len, b.x2 - len} /\ l[j][4] \in {b.x1, b.x2, b.x1 + len, b.x2 - len}
             /\ l[j][3] \in {b.y1, b.y2, b.y1 + len, b.y2 - len} /\ l[j][5] \in {b.y1, b.y2, b.y1 + len, b.y2 - len}
  <2>1. j = 1 \/ j = 2 \/ j = 3 \/ j = 4 \/ j = 5 \/ j = 6 \/ j = 7 \/ j = 8
    OBVIOUS
  <2> QED
    BY <1>1, <1>2, <1>3, <1>4, <2>1
<1> QED
  BY <1>1, <1>4, <1>5 DEF l

(* Legs stay in their box. *)
LEMMA LegsStay == ASSUME Built PROVE LegsInBox
<1> SUFFICES ASSUME frame.cfg.boxes, frame.cfg.cornerBox, ~frame.cfg.tracers, NEW k \in DOMAIN Drawn, Drawn[k].type = SHAPE_LINE
             PROVE  \E f \in k - 7 .. k :
                      LET first == Drawn[f] last == Drawn[f + 7] wide == last.x1 - first.x1 IN
                      /\ f .. f + 7 \subseteq Of(SHAPE_LINE)
                      /\ StandsOnEntity(first.x1, first.y1, last.x1, last.y2)
                      /\ wide >= 1 =>
                            /\ {Drawn[k].x1, Drawn[k].x2} \subseteq first.x1 .. last.x1
                            /\ {Drawn[k].y1, Drawn[k].y2} \subseteq first.y1 .. last.y2
                            /\ wide >= 4 => 2 * (first.x2 - first.x1) < wide
  BY DEF LegsInBox, Of
<1>1. PICK n \in DOMAIN frame.crowd, o \in Nat :
          /\ IsKept(frame.crowd[n])
          /\ DrawnOf(k, OutlineFor(n), o) \/ DrawnOf(k, TracerFor(n), o) \/ DrawnOf(k, BarsFor(n), o)
  BY DrawnFrom
<1>2. k \in Int
  BY DrawnFrom
<1>3. DrawnOf(k, OutlineFor(n), o)
  BY <1>1, <1>2, KindOf DEF SHAPE_LINE, SHAPE_FILL
<1> DEFINE p == OutlineFor(n)
           b == BoxFor(frame.crowd[n])
           len == CornerLength(b)
<1>4. PICK c \in Colour : p = Legs(b, len, c)
  BY <1>1, OutlineTyped
<1>5. p \in Seq(Shapes) /\ Len(p) = 8 /\ \A j \in 1 .. 8 : p[j][1] = SHAPE_LINE
  BY <1>1, OutlineTyped
<1>6. frame.crowd[n] \in Members /\ Standing(frame.crowd[n], b) /\ b.y1 + 1 <= b.y2
  BY <1>1, EntityTyped, KeptStands
<1> HIDE DEF b
<1>7. b.x1 \in Int /\ b.x2 \in Int /\ b.y1 \in Int /\ b.y2 \in Int
  BY <1>6 DEF Standing
<1>8. /\ len \in Int /\ len >= 1
      /\ b.x2 - b.x1 >= 1 /\ b.y2 - b.y1 >= 1 => len <= b.x2 - b.x1 /\ len <= b.y2 - b.y1
      /\ b.x2 - b.x1 >= 4 => 2 * len < b.x2 - b.x1
  BY <1>7, LegLength
<1> HIDE DEF len
<1> DEFINE xs == {b.x1, b.x2, b.x1 + len, b.x2 - len}
           ys == {b.y1, b.y2, b.y1 + len, b.y2 - len}
<1>9. /\ p[1][2] = b.x1 /\ p[1][3] = b.y1 /\ p[1][4] = b.x1 + len /\ p[8][2] = b.x2 /\ p[8][5] = b.y2
      /\ \A j \in 1 .. 8 : p[j][2] \in xs /\ p[j][4] \in xs /\ p[j][3] \in ys /\ p[j][5] \in ys
  <2> DEFINE l == Legs(b, len, c)
  <2>1. /\ l[1][2] = b.x1 /\ l[1][3] = b.y1 /\ l[1][4] = b.x1 + len /\ l[8][2] = b.x2 /\ l[8][5] = b.y2
        /\ \A j \in 1 .. 8 : l[j][2] \in xs /\ l[j][4] \in xs /\ l[j][3] \in ys /\ l[j][5] \in ys
    BY <1>7, <1>8, LegEnds
  <2>2. p = l
    BY <1>4
  <2> HIDE DEF l, p, xs, ys
  <2> QED
    BY <2>1, <2>2
<1>10. k - o \in 1 .. 8 /\ Block(ShapeList, p, o)
  BY <1>3, <1>5 DEF DrawnOf
<1> HIDE DEF p, xs, ys
<1>11. ASSUME NEW j \in 1 .. 8
       PROVE  /\ o + j \in DOMAIN Drawn /\ Drawn[o + j].type = SHAPE_LINE
              /\ Drawn[o + j].x1 = p[j][2] /\ Drawn[o + j].y1 = p[j][3] /\ Drawn[o + j].x2 = p[j][4] /\ Drawn[o + j].y2 = p[j][5]
  <2>1. j \in 1 .. Len(p)
    BY <1>5
  <2> QED
    BY <1>5, <1>10, <2>1, BlockDraws
<1> DEFINE f == o + 1
           g == f + 7
<1>12. f \in k - 7 .. k /\ g = o + 8 /\ f \in Int
  BY <1>2, <1>10
<1>13. Drawn[f].x1 = b.x1 /\ Drawn[f].y1 = b.y1 /\ Drawn[f].x2 = b.x1 + len /\ Drawn[g].x1 = b.x2 /\ Drawn[g].y2 = b.y2
  <2>1. 1 \in 1 .. 8 /\ 8 \in 1 .. 8
    OBVIOUS
  <2> QED
    BY <1>9, <1>11, <1>12, <2>1
<1>14. f .. g \subseteq Of(SHAPE_LINE)
  <2> SUFFICES ASSUME NEW x \in f .. g PROVE x \in DOMAIN Drawn /\ Drawn[x].type = SHAPE_LINE
    BY DEF Of
  <2> DEFINE j == x - o
  <2>1. j \in 1 .. 8 /\ o + j = x
    BY <1>12
  <2> HIDE DEF j
  <2>2. o + j \in DOMAIN Drawn /\ Drawn[o + j].type = SHAPE_LINE
    BY <1>11, <2>1
  <2> QED
    BY <2>1, <2>2
<1>15. Drawn[k].x1 \in xs /\ Drawn[k].x2 \in xs /\ Drawn[k].y1 \in ys /\ Drawn[k].y2 \in ys
  <2> DEFINE j == k - o
  <2>1. j \in 1 .. 8 /\ o + j = k
    BY <1>2, <1>10
  <2> HIDE DEF j
  <2>2. /\ Drawn[o + j].x1 = p[j][2] /\ Drawn[o + j].y1 = p[j][3] /\ Drawn[o + j].x2 = p[j][4] /\ Drawn[o + j].y2 = p[j][5]
    BY <1>11, <2>1
  <2> QED
    BY <1>9, <2>1, <2>2
<1> HIDE DEF f, g
<1>16. StandsOnEntity(Drawn[f].x1, Drawn[f].y1, Drawn[g].x1, Drawn[g].y2)
  BY <1>6, <1>13, StandingIs
<1>17. ASSUME b.x2 - b.x1 >= 1
       PROVE  /\ {Drawn[k].x1, Drawn[k].x2} \subseteq b.x1 .. b.x2
              /\ {Drawn[k].y1, Drawn[k].y2} \subseteq b.y1 .. b.y2
  <2>1. xs \subseteq b.x1 .. b.x2 /\ ys \subseteq b.y1 .. b.y2
    BY <1>6, <1>7, <1>8, <1>17 DEF xs, ys
  <2> QED
    BY <1>15, <2>1
<1>18. b.x2 - b.x1 >= 4 => 2 * ((b.x1 + len) - b.x1) < b.x2 - b.x1
  BY <1>7, <1>8
<1>19. g = f + 7
  BY DEF g
<1> QED
  BY <1>12, <1>13, <1>14, <1>16, <1>17, <1>18, <1>19

(* Bars come in pairs. *)
LEMMA BarsPair == ASSUME Built PROVE BarsInTracks
<1> DEFINE low == frame.cfg.colorHealthLow
           high == frame.cfg.colorHealthHigh
<1> SUFFICES ASSUME NEW k \in DOMAIN Drawn, Drawn[k].type = SHAPE_FILL
             PROVE  \E t \in k - 1 .. k :
                      LET track == Drawn[t] bar == Drawn[t + 1] IN
                      /\ t .. t + 1 \subseteq Of(SHAPE_FILL) /\ track.color = Track
                      /\ bar.x1 = track.x1 /\ bar.x2 = track.x2 /\ bar.y2 = track.y2
                      /\ bar.y1 \in track.y1 .. track.y2 \/ \E e \in Members : e.health > 4
                      /\ \A c \in 1 .. 4 : bar.color[c] \in Least(low[c], high[c]) .. Most(low[c], high[c])
  BY DEF BarsInTracks, Of
<1>1. PICK n \in DOMAIN frame.crowd, o \in Nat :
          /\ IsKept(frame.crowd[n])
          /\ DrawnOf(k, OutlineFor(n), o) \/ DrawnOf(k, TracerFor(n), o) \/ DrawnOf(k, BarsFor(n), o)
  BY DrawnFrom
<1>2. k \in Int
  BY DrawnFrom
<1>3. DrawnOf(k, BarsFor(n), o)
  BY <1>1, <1>2, KindOf DEF SHAPE_LINE, SHAPE_FILL, SHAPE_RECT
<1> DEFINE p == BarsFor(n)
           e == frame.crowd[n]
<1>4. /\ p \in Seq(Shapes)
      /\ Len(p) = 0 \/ /\ Len(p) = 2 /\ p[1][1] = SHAPE_FILL /\ p[2][1] = SHAPE_FILL /\ p[1][6] = Track
                       /\ p[2][2] = p[1][2] /\ p[2][4] = p[1][4] /\ p[2][5] = p[1][5]
                       /\ p[2][3] \in p[1][3] .. p[1][5] \/ e.health > 4
                       /\ \A c \in 1 .. 4 : p[2][6][c] \in Least(low[c], high[c]) .. Most(low[c], high[c])
  BY <1>1, BarsTyped
<1>5. e \in Members
  BY EntityTyped
<1> HIDE DEF p, e, low, high
<1>6. k - o \in 1 .. Len(p) /\ Block(ShapeList, p, o)
  BY <1>3 DEF DrawnOf, p
<1>7. Len(p) = 2
  BY <1>2, <1>4, <1>6
<1>8. ASSUME NEW j \in 1 .. 2
      PROVE  /\ o + j \in DOMAIN Drawn /\ Drawn[o + j].type = p[j][1] /\ Drawn[o + j].x1 = p[j][2] /\ Drawn[o + j].y1 = p[j][3]
             /\ Drawn[o + j].x2 = p[j][4] /\ Drawn[o + j].y2 = p[j][5] /\ Drawn[o + j].color = p[j][6]
  <2>1. j \in 1 .. Len(p)
    BY <1>7
  <2> QED
    BY <1>4, <1>6, <2>1, BlockDraws
<1> DEFINE t == o + 1
           u == t + 1
<1>9. t \in k - 1 .. k /\ u = o + 2 /\ t \in Int
  BY <1>2, <1>6, <1>7
<1>10. /\ t \in DOMAIN Drawn /\ Drawn[t].type = SHAPE_FILL /\ Drawn[t].x1 = p[1][2] /\ Drawn[t].y1 = p[1][3]
       /\ Drawn[t].x2 = p[1][4] /\ Drawn[t].y2 = p[1][5] /\ Drawn[t].color = p[1][6]
  <2>1. 1 \in 1 .. 2
    OBVIOUS
  <2> QED
    BY <1>4, <1>7, <1>8, <2>1
<1>11. /\ u \in DOMAIN Drawn /\ Drawn[u].type = SHAPE_FILL /\ Drawn[u].x1 = p[2][2] /\ Drawn[u].y1 = p[2][3]
       /\ Drawn[u].x2 = p[2][4] /\ Drawn[u].y2 = p[2][5] /\ Drawn[u].color = p[2][6]
  <2>1. 2 \in 1 .. 2
    OBVIOUS
  <2> QED
    BY <1>4, <1>7, <1>8, <1>9, <2>1
<1> HIDE DEF t, u
<1>12. u = t + 1
  BY DEF u
<1>13. t .. u \subseteq Of(SHAPE_FILL)
  <2> SUFFICES ASSUME NEW x \in t .. u PROVE x \in Of(SHAPE_FILL)
    OBVIOUS
  <2>1. x = t \/ x = u
    BY <1>9, <1>12
  <2> QED
    BY <1>10, <1>11, <2>1 DEF Of
<1>14. Drawn[u].y1 \in Drawn[t].y1 .. Drawn[t].y2 \/ \E m \in Members : m.health > 4
  BY <1>4, <1>5, <1>7, <1>10, <1>11
<1>15. \A c \in 1 .. 4 : Drawn[u].color[c] \in Least(low[c], high[c]) .. Most(low[c], high[c])
  BY <1>4, <1>7, <1>11
<1>16. Drawn[t].color = Track /\ Drawn[u].x1 = Drawn[t].x1 /\ Drawn[u].x2 = Drawn[t].x2 /\ Drawn[u].y2 = Drawn[t].y2
  BY <1>4, <1>7, <1>10, <1>11
<1> QED
  BY <1>9, <1>12, <1>13, <1>14, <1>15, <1>16

(* Two points whose places are two pixels apart are two pixels apart when rounded. *)
LEMMA Apart ==
    ASSUME NEW w \in Nat \ {0}, NEW v \in Nat \ {0}, NEW h \in Int, NEW f \in Int, NEW a \in Int, NEW b \in Int,
           (Floor(v, h, a) /\ Floor(w, f, b)) \/ (Ceiling(v, h, a) /\ Ceiling(w, f, b)), h * w - f * v >= 4 * (w * v)
    PROVE  a - b >= 2 * Unit
<1> DEFINE m == w * v
           hw == h * w
           fv == f * v
           am == a * m
           bm == b * m
<1>1. m \in Nat \ {0} /\ hw \in Int /\ fv \in Int /\ am \in Int /\ bm \in Int
  BY DEF m
<1>2. ASSUME Floor(v, h, a), Floor(w, f, b) PROVE 960 * hw < 2 * am + 2 * m /\ 2 * bm <= 960 * fv
  <2>1. 960 * h < 2 * v * a + 2 * v /\ 2 * w * b <= 960 * f
    BY <1>2 DEF Floor, Unit
  <2>2. w * (960 * h) < w * (2 * v * a + 2 * v) /\ v * (2 * w * b) <= v * (960 * f)
    BY <2>1
  <2>3. w * (960 * h) = 960 * hw /\ v * (960 * f) = 960 * fv
    OBVIOUS
  <2>4. w * (2 * v * a + 2 * v) = 2 * am + 2 * m /\ v * (2 * w * b) = 2 * bm
    OBVIOUS
  <2> QED
    BY <2>2, <2>3, <2>4
<1>3. ASSUME Ceiling(v, h, a), Ceiling(w, f, b) PROVE 960 * hw <= 2 * am /\ 2 * bm - 2 * m < 960 * fv
  <2>1. 960 * h <= 2 * v * a /\ 2 * w * b - 2 * w < 960 * f
    BY <1>3 DEF Ceiling, Unit
  <2>2. w * (960 * h) <= w * (2 * v * a) /\ v * (2 * w * b - 2 * w) < v * (960 * f)
    BY <2>1
  <2>3. w * (960 * h) = 960 * hw /\ v * (960 * f) = 960 * fv
    OBVIOUS
  <2>4. w * (2 * v * a) = 2 * am /\ v * (2 * w * b - 2 * w) = 2 * bm - 2 * m
    OBVIOUS
  <2> QED
    BY <2>2, <2>3, <2>4
<1>4. hw - fv >= 4 * m
  OBVIOUS
<1> DEFINE d == a - b
<1>5. am - bm = d * m
  OBVIOUS
<1> HIDE DEF m, hw, fv, am, bm
<1>6. 2 * am - 2 * bm + 2 * m > 3840 * m
  BY <1>1, <1>2, <1>3, <1>4
<1>7. d * m + m > 1920 * m /\ d \in Int
  BY <1>1, <1>5, <1>6
<1> HIDE DEF d
<1>8. (d - 1919) * m > 0
  BY <1>1, <1>7
<1>9. d - 1919 > 0
  BY <1>1, <1>7, <1>8
<1> QED
  BY <1>7, <1>9 DEF d, Unit

(* A place within the screen is rounded to one within it. *)
LEMMA Inside ==
    ASSUME NEW w \in Nat \ {0}, NEW e \in Int, NEW a \in Int, NEW m \in Nat, e \in 0 .. 2 * w * m,
           Floor(w, e, a) \/ Ceiling(w, e, a)
    PROVE  Pixel(a) \in 0 .. m
<1> DEFINE W == 2 * w
           wa == W * a
           wm == W * m
<1>1. W \in Nat \ {0} /\ wa \in Int /\ wm \in Int /\ 0 <= e /\ e <= wm
  OBVIOUS
<1>2. \/ wa <= 960 * e /\ 960 * e < wa + W
      \/ wa >= 960 * e /\ 960 * e > wa - W
  BY DEF Floor, Ceiling, Unit
<1>3. wa + W = W * (a + 1) /\ 960 * wm - wa = W * (960 * m - a) /\ 960 * wm - wa + W = W * (960 * m - a + 1)
  OBVIOUS
<1> DEFINE p == a + 1
           r == 960 * m - a + 1
<1>4. W * p = wa + W /\ W * r = 960 * wm - wa + W /\ p \in Int /\ r \in Int
  BY <1>3
<1> HIDE DEF W, wa, wm, p, r
<1>5. W * p > 0 /\ W * r > 0
  BY <1>1, <1>2, <1>4
<1>6. p > 0 /\ r > 0
  BY <1>1, <1>4, <1>5
<1>7. 0 <= a /\ a <= 960 * m
  BY <1>6 DEF p, r
<1> QED
  BY <1>7 DEF Pixel, Trunc, Unit

(* Where the engine has a point, in terms of its clip coordinates. *)
LEMMA EngineAt ==
    ASSUME NEW p
    PROVE  EngineX(p, Size[1]) = ColumnOf(frame.source, p, Size) /\ EngineY(p, Size[2]) = RowOf(frame.source, p, Size)
<1>1. Clip(p) = ClipOf(frame.source, p)
  BY EngineIs
<1> QED
  BY <1>1, Zenon DEF EngineX, EngineY, ColumnOf, RowOf

(* An entity that is in view is kept. *)
LEMMA VisibleKept ==
    ASSUME Built, NEW n \in DOMAIN frame.crowd, InView(frame.crowd[n]), Size = frame.canvas
    PROVE  IsKept(frame.crowd[n])
<1> DEFINE e == frame.crowd[n]
           s == frame.source
           b == BoxFor(e)
           x == FeetX(e)
           f == FeetY(e)
           g == HeadY(e)
           w == DepthOf(s, e.feet)
           v == DepthOf(s, e.head)
           c == ColumnOf(s, e.feet, Size)
           rf == RowOf(s, e.feet, Size)
           rh == RowOf(s, e.head, Size)
<1>1. s \in Sources /\ e.feet \in Vec3 /\ e.head \in Vec3 /\ Size \in Nat \X Nat
  BY FrameParts, EntityTyped, SettingsTyped
<1>2. ~BehindCamera(Clip(e.feet)[4], s) /\ ~BehindCamera(Clip(e.head)[4], s) /\ ~TooFar(e, frame.cfg)
  BY DEF InView
<1>3. InFront(e.feet) /\ InFront(e.head)
  BY <1>1, <1>2, NotBehind
<1>4. Standing(e, b) /\ x \in Int /\ f \in Int /\ g \in Int
  BY <1>3, BoxStands
<1>5. w > 0 /\ v > 0
  BY <1>3, EngineIs
<1>6. w \in Nat \ {0} /\ v \in Nat \ {0}
  BY <1>1, <1>5, DepthIs
<1>7. c \in Int /\ Floor(w, c, x)
  BY <1>1, <1>5, Across DEF FeetX
<1>8. rf \in Int /\ IF s.flipY THEN Ceiling(w, rf, f) ELSE Floor(w, rf, f)
  BY <1>1, <1>5, Along DEF FeetY
<1>9. rh \in Int /\ IF s.flipY THEN Ceiling(v, rh, g) ELSE Floor(v, rh, g)
  BY <1>1, <1>5, Along DEF HeadY
<1>10. Clip(e.feet)[4] = w /\ Clip(e.head)[4] = v
  BY EngineIs
<1>11. EngineX(e.feet, Size[1]) = c /\ EngineY(e.feet, Size[2]) = rf /\ EngineY(e.head, Size[2]) = rh
  BY EngineAt
<1>12. Height(e) = Most(rh * w - rf * v, -(rh * w - rf * v))
  BY <1>10, <1>11 DEF Height
<1>13. Height(e) >= 4 * w * v /\ c \in 0 .. 2 * w * Size[1] /\ rf \in 0 .. 2 * w * Size[2]
  BY <1>10, <1>11, Zenon DEF InView
<1>14. /\ b.boxH = Most(g, f) - Least(g, f) /\ b.cx = Pixel(x)
       /\ b.y1 = Pixel(Least(g, f)) /\ b.y2 = Pixel(Most(g, f))
  BY BoxParts
<1> HIDE DEF e, s, b, x, f, g, w, v, c, rf, rh
<1>15. b.boxH >= 2 * Unit
  <2>1. (Floor(v, rh, g) /\ Floor(w, rf, f)) \/ (Ceiling(v, rh, g) /\ Ceiling(w, rf, f))
    BY <1>8, <1>9
  <2> DEFINE rhw == rh * w
             rfv == rf * v
             wv == w * v
  <2>2. rhw \in Int /\ rfv \in Int /\ wv \in Int /\ 4 * w * v = 4 * wv /\ v * w = wv
    BY <1>6, <1>8, <1>9
  <2>3. Most(rhw - rfv, -(rhw - rfv)) >= 4 * wv
    BY <1>12, <1>13, <2>2
  <2>4. rhw - rfv >= 4 * wv \/ rfv - rhw >= 4 * wv
    <3> HIDE DEF rhw, rfv, wv
    <3> QED
      BY <2>2, <2>3 DEF Most
  <2>5. CASE rhw - rfv >= 4 * wv
    <3>1. g - f >= 2 * Unit
      BY <1>4, <1>6, <1>8, <1>9, <2>1, <2>5, Apart
    <3> QED
      BY <1>4, <1>14, <3>1 DEF Most, Least, Unit
  <2>6. CASE rfv - rhw >= 4 * wv
    <3>1. rf * v - rh * w >= 4 * (v * w)
      BY <2>2, <2>6
    <3>2. f - g >= 2 * Unit
      BY <1>4, <1>6, <1>8, <1>9, <2>1, <3>1, Apart
    <3> QED
      BY <1>4, <1>14, <3>2 DEF Most, Least, Unit
  <2> QED
    BY <2>4, <2>5, <2>6
<1>16. Size[1] \in Nat /\ Size[2] \in Nat
  BY <1>1
<1>17. b.cx \in 0 .. Size[1]
  BY <1>4, <1>6, <1>7, <1>13, <1>14, <1>16, Inside
<1>18. Pixel(f) \in 0 .. Size[2]
  <2>1. Floor(w, rf, f) \/ Ceiling(w, rf, f)
    BY <1>8
  <2> QED
    BY <1>4, <1>6, <1>8, <1>13, <1>16, <2>1, Inside
<1>19. b.y1 = Pixel(f) \/ b.y2 = Pixel(f)
  BY <1>4, <1>14 DEF Most, Least
<1>20. ~Outside(b, frame.canvas)
  <2>1. /\ b.x1 \in Int /\ b.x2 \in Int /\ b.y1 \in Int /\ b.y2 \in Int /\ b.cx \in Int
        /\ b.x1 <= b.cx /\ b.cx <= b.x2 /\ b.y1 <= b.y2
    BY <1>4 DEF Standing
  <2>2. b.x2 >= 0 /\ b.x1 <= Size[1] /\ b.y2 >= 0 /\ b.y1 <= Size[2]
    BY <1>16, <1>17, <1>18, <1>19, <2>1
  <2> QED
    BY <1>16, <2>1, <2>2 DEF Outside
<1> QED
  BY <1>2, <1>15, <1>20, KeptMeans DEF e, b, s

(* Entities in view have their boxes. *)
LEMMA VisibleDrawn == ASSUME Built PROVE VisibleIsDrawn
<1> SUFFICES ASSUME frame.cfg.boxes, ~frame.cfg.cornerBox, Size = frame.canvas, NEW m \in Members, InView(m)
             PROVE  \E k \in Of(SHAPE_RECT) :
                       /\ InRow(m.feet, Drawn[k].y1, Size[2]) \/ InRow(m.feet, Drawn[k].y2, Size[2])
                       /\ InRow(m.head, Drawn[k].y1, Size[2]) \/ InRow(m.head, Drawn[k].y2, Size[2])
  BY DEF VisibleIsDrawn
<1>1. PICK n \in DOMAIN frame.crowd : m = frame.crowd[n]
  BY DEF Members
<1>2. IsKept(frame.crowd[n])
  BY <1>1, VisibleKept
<1>3. PICK o \in Nat : Block(ShapeList, ShapesFor(n), o)
  BY ListMade
<1>4. Block(ShapeList, OutlineFor(n), o)
  BY <1>2, <1>3, KeptBlocks
<1> DEFINE p == OutlineFor(n)
           b == BoxFor(frame.crowd[n])
<1>5. /\ p \in Seq(Shapes) /\ Len(p) = 1 /\ p[1][1] = SHAPE_RECT
      /\ p[1][2] = b.x1 /\ p[1][3] = b.y1 /\ p[1][4] = b.x2 /\ p[1][5] = b.y2
  BY <1>2, OutlineTyped
<1>6. Standing(m, b)
  BY <1>1, <1>2, KeptStands
<1> HIDE DEF p, b
<1>7. 1 \in 1 .. Len(p) /\ Block(ShapeList, p, o)
  BY <1>4, <1>5 DEF p
<1> DEFINE k == o + 1
<1>8. k \in DOMAIN Drawn /\ Drawn[k].type = SHAPE_RECT /\ Drawn[k].y1 = b.y1 /\ Drawn[k].y2 = b.y2
  BY <1>5, <1>7, BlockDraws
<1> HIDE DEF k
<1>9. \/ InRow(m.head, b.y1, Size[2]) /\ InRow(m.feet, b.y2, Size[2])
      \/ InRow(m.feet, b.y1, Size[2]) /\ InRow(m.head, b.y2, Size[2])
  BY <1>6 DEF Standing
<1>10. k \in Of(SHAPE_RECT)
  BY <1>8 DEF Of
<1> QED
  BY <1>8, <1>9, <1>10, Zenon

Label == [text : {"name", "m"} \X Int, meta : {t \in Seq(Int \cup Colour) : Len(t) = LABEL_STRIDE}]

(* The labels an entity that is kept adds. *)
LabelAt(n, text, y) == [text |-> text, meta |-> <<BoxFor(frame.crowd[n]).cx, y, entityColor(frame.cfg, frame.crowd[n])>>]
NameFor(n) ==
    LET e == frame.crowd[n] IN
    If(frame.cfg.names /\ e.name # 0, <<LabelAt(n, <<"name", e.name>>, BoxFor(e).y1 - 4)>>)
DistanceFor(n) ==
    LET e == frame.crowd[n] IN
    If(frame.cfg.distances /\ e.distance >= 0, <<LabelAt(n, <<"m", (e.distance + 5) \div 10>>, BoxFor(e).y2 + 18)>>)

(* What a label says of its entity. *)
LabelTells(r, n) ==
    /\ r \in Label
    /\ r.text \in {<<"name", frame.crowd[n].name>>, <<"m", (frame.crowd[n].distance + 5) \div 10>>}
    /\ r.meta[1] = BoxFor(frame.crowd[n]).cx /\ r.meta[3] = entityColor(frame.cfg, frame.crowd[n])

(* A label of an entity tells of it. *)
LEMMA LabelIs ==
    ASSUME Built, NEW n \in DOMAIN frame.crowd, IsKept(frame.crowd[n]), NEW y \in Int,
           NEW text \in {<<"name", frame.crowd[n].name>>, <<"m", (frame.crowd[n].distance + 5) \div 10>>}
    PROVE  LabelTells(LabelAt(n, text, y), n) /\ LabelAt(n, text, y).text = text
<1> DEFINE c == entityColor(frame.cfg, frame.crowd[n])
           x == BoxFor(frame.crowd[n]).cx
           V == Int \cup Colour
           t == <<x, y, c>>
<1>1. c \in V /\ x \in V /\ y \in V
  BY ColoursTyped, KeptStands DEF Standing
<1>2. LabelAt(n, text, y) = [text |-> text, meta |-> t]
  BY DEF LabelAt
<1>3. text \in {"name", "m"} \X Int
  <2>1. frame.crowd[n].name \in Int /\ (frame.crowd[n].distance + 5) \div 10 \in Int
    BY EntityTyped
  <2> QED
    BY <2>1
<1> HIDE DEF c, x, V
<1>4. t \in Seq(V) /\ Len(t) = 3 /\ t[1] = x /\ t[3] = c
  BY <1>1
<1> HIDE DEF t
<1>5. [text |-> text, meta |-> t] \in Label
  BY <1>3, <1>4 DEF Label, LABEL_STRIDE, V
<1> QED
  BY <1>2, <1>4, <1>5 DEF LabelTells, c, x

(* One thing, or none. *)
LEMMA Alone ==
    ASSUME NEW X, NEW p \in X, NEW s
    PROVE  /\ s = << >> => s \in Seq(X) /\ \A j \in 1 .. Len(s) : s[j] = p
           /\ s = <<p>> => s \in Seq(X) /\ Len(s) = 1 /\ s[1] = p /\ \A j \in 1 .. Len(s) : s[j] = p
<1>1. ASSUME s = << >> PROVE s \in Seq(X) /\ \A j \in 1 .. Len(s) : s[j] = p
  BY <1>1
<1>2. ASSUME s = <<p>> PROVE s \in Seq(X) /\ Len(s) = 1 /\ s[1] = p
  BY <1>2
<1> QED
  BY <1>1, <1>2

(* The two kinds of labels. *)
LEMMA LabelsTyped ==
    ASSUME Built, NEW n \in DOMAIN frame.crowd, IsKept(frame.crowd[n])
    PROVE  /\ NameFor(n) \in Seq(Label) /\ DistanceFor(n) \in Seq(Label)
           /\ \A j \in 1 .. Len(NameFor(n)) : LabelTells(NameFor(n)[j], n)
           /\ \A j \in 1 .. Len(DistanceFor(n)) : LabelTells(DistanceFor(n)[j], n)
           /\ frame.cfg.names /\ frame.crowd[n].name # 0 =>
                 Len(NameFor(n)) = 1 /\ NameFor(n)[1].text = <<"name", frame.crowd[n].name>>
<1> DEFINE e == frame.crowd[n]
           y1 == BoxFor(e).y1 - 4
           y2 == BoxFor(e).y2 + 18
           ts == <<"name", e.name>>
           ds == <<"m", (e.distance + 5) \div 10>>
           l == LabelAt(n, ts, y1)
           d == LabelAt(n, ds, y2)
           hasName == frame.cfg.names /\ e.name # 0
           hasDistance == frame.cfg.distances /\ e.distance >= 0
<1>1. y1 \in Int /\ y2 \in Int
  BY KeptStands DEF Standing
<1>2. ts \in {<<"name", frame.crowd[n].name>>, <<"m", (frame.crowd[n].distance + 5) \div 10>>}
      /\ ds \in {<<"name", frame.crowd[n].name>>, <<"m", (frame.crowd[n].distance + 5) \div 10>>}
  OBVIOUS
<1>3. NameFor(n) = If(hasName, <<l>>) /\ DistanceFor(n) = If(hasDistance, <<d>>)
  BY DEF NameFor, DistanceFor
<1> HIDE DEF y1, y2
<1>4. LabelTells(l, n) /\ l.text = ts
  <2> HIDE DEF ts
  <2> QED
    BY <1>1, <1>2, LabelIs
<1>5. LabelTells(d, n)
  <2> HIDE DEF ds
  <2> QED
    BY <1>1, <1>2, LabelIs
<1>6. l \in Label /\ d \in Label
  BY <1>4, <1>5 DEF LabelTells
<1> HIDE DEF l, d, ds
<1>7. \/ NameFor(n) = << >> /\ ~hasName
      \/ NameFor(n) = <<l>>
  BY <1>3 DEF If
<1>8. DistanceFor(n) = << >> \/ DistanceFor(n) = <<d>>
  BY <1>3 DEF If
<1>9. /\ NameFor(n) \in Seq(Label) /\ (\A j \in 1 .. Len(NameFor(n)) : NameFor(n)[j] = l)
      /\ hasName => Len(NameFor(n)) = 1 /\ NameFor(n)[1] = l
  <2> HIDE DEF hasName, e
  <2> QED
    BY <1>6, <1>7, Alone
<1>10. DistanceFor(n) \in Seq(Label) /\ \A j \in 1 .. Len(DistanceFor(n)) : DistanceFor(n)[j] = d
  BY <1>6, <1>8, Alone
<1>11. hasName => Len(NameFor(n)) = 1 /\ NameFor(n)[1].text = ts
  <2> HIDE DEF ts, hasName
  <2> SUFFICES ASSUME hasName PROVE Len(NameFor(n)) = 1 /\ NameFor(n)[1].text = ts
    OBVIOUS
  <2>1. Len(NameFor(n)) = 1 /\ NameFor(n)[1] = l
    BY <1>9, Zenon
  <2> QED
    BY <1>4, <2>1, Zenon
<1> QED
  BY <1>4, <1>5, <1>9, <1>10, <1>11

(* What an entity adds to the labels. *)
LEMMA AddsLabels ==
    ASSUME Built, NEW n \in DOMAIN frame.crowd
    PROVE  /\ LabelsFor(n) \in Seq(Label)
           /\ \A j \in 1 .. Len(LabelsFor(n)) : IsKept(frame.crowd[n]) /\ LabelTells(LabelsFor(n)[j], n)
           /\ IsKept(frame.crowd[n]) /\ frame.cfg.names /\ frame.crowd[n].name # 0 =>
                 1 \in 1 .. Len(LabelsFor(n)) /\ LabelsFor(n)[1].text = <<"name", frame.crowd[n].name>>
<1> DEFINE added == LabelsOf(frame.crowd[n], frame.source, frame.cfg, frame.canvas)
           a == NameFor(n)
           d == DistanceFor(n)
           ts == <<"name", frame.crowd[n].name>>
<1>1. LabelsFor(n) = If(IsKept(frame.crowd[n]), added)
  BY Zenon DEF LabelsFor, IsKept
<1>2. added = a \o d
  BY DEF LabelsOf, NameFor, DistanceFor, LabelAt, BoxFor
<1> HIDE DEF added, ts
<1>3. CASE IsKept(frame.crowd[n])
  <2>1. /\ a \in Seq(Label) /\ d \in Seq(Label)
        /\ \A j \in 1 .. Len(a) : LabelTells(a[j], n)
        /\ \A j \in 1 .. Len(d) : LabelTells(d[j], n)
        /\ frame.cfg.names /\ frame.crowd[n].name # 0 => Len(a) = 1 /\ a[1].text = ts
    BY <1>3, LabelsTyped DEF ts
  <2> HIDE DEF a, d
  <2>2. LabelsFor(n) = added
    BY <1>1, <1>3 DEF If
  <2>3. /\ added \in Seq(Label) /\ Len(added) = Len(a) + Len(d) /\ Len(a) \in Nat /\ Len(d) \in Nat
        /\ \A k \in 1 .. Len(a) : added[k] = a[k]
        /\ \A k \in 1 .. Len(d) : added[Len(a) + k] = d[k]
    BY <1>2, <2>1, Behind
  <2>4. ASSUME NEW j \in 1 .. Len(added) PROVE LabelTells(added[j], n)
    <3>1. CASE j <= Len(a)
      BY <2>1, <2>3, <3>1
    <3>2. CASE j > Len(a)
      <4> DEFINE m == j - Len(a)
      <4>1. m \in 1 .. Len(d) /\ Len(a) + m = j
        BY <2>3, <3>2
      <4> HIDE DEF m
      <4>2. added[Len(a) + m] = d[m]
        BY <2>3, <4>1
      <4>3. added[j] = d[m]
        BY <4>1, <4>2, Zenon
      <4> QED
        BY <2>1, <4>1, <4>3, Zenon
    <3> QED
      BY <2>3, <3>1, <3>2
  <2>5. ASSUME frame.cfg.names, frame.crowd[n].name # 0 PROVE 1 \in 1 .. Len(added) /\ added[1].text = ts
    BY <2>1, <2>3, <2>5
  <2> QED
    BY <1>3, <2>2, <2>3, <2>4, <2>5 DEF ts
<1>4. CASE ~IsKept(frame.crowd[n])
  <2>1. LabelsFor(n) = << >>
    BY <1>1, <1>4 DEF If
  <2> QED
    BY <1>4, <2>1
<1> QED
  BY <1>3, <1>4

(* The list of the labels is made up of what the entities add. *)
LEMMA LabelsMade ==
    ASSUME Built
    PROVE  /\ LabelList \in Seq(Label)
           /\ \A n \in DOMAIN frame.crowd : \E o \in Nat : Block(LabelList, LabelsFor(n), o)
           /\ \A k \in 1 .. Len(LabelList) : \E n \in DOMAIN frame.crowd, o \in Nat :
                 k - o \in 1 .. Len(LabelsFor(n)) /\ Block(LabelList, LabelsFor(n), o)
<1> DEFINE q == [n \in DOMAIN frame.crowd |-> LabelsFor(n)]
<1>1. frame.crowd \in Seq(Entity)
  BY FrameParts
<1>2. DOMAIN frame.crowd = 1 .. Len(frame.crowd) /\ Len(frame.crowd) \in Nat
  BY <1>1
<1>3. \A n \in DOMAIN frame.crowd : LabelsFor(n) \in Seq(Label)
  BY AddsLabels
<1>4. q \in Seq(Seq(Label)) /\ Len(q) = Len(frame.crowd)
  BY <1>2, <1>3
<1>5. \A n \in DOMAIN frame.crowd : q[n] = LabelsFor(n)
  OBVIOUS
<1>6. LabelList = FlattenSeq(q)
  BY DEF LabelList
<1> HIDE DEF q
<1>7. LabelList \in Seq(Label) /\ MadeOf(LabelList, q, Len(q))
  BY <1>4, <1>6, FlattenMade
<1>8. ASSUME NEW n \in DOMAIN frame.crowd PROVE \E o \in Nat : Block(LabelList, LabelsFor(n), o)
  <2>1. n \in 1 .. Len(q) /\ q[n] = LabelsFor(n)
    BY <1>2, <1>4, <1>5
  <2>2. PICK o \in Nat : Block(LabelList, q[n], o)
    BY <1>7, <2>1, Zenon DEF MadeOf
  <2> QED
    BY <2>1, <2>2, Zenon
<1>9. ASSUME NEW k \in 1 .. Len(LabelList)
      PROVE  \E n \in DOMAIN frame.crowd, o \in Nat : k - o \in 1 .. Len(LabelsFor(n)) /\ Block(LabelList, LabelsFor(n), o)
  <2>1. PICK n \in 1 .. Len(q), o \in Nat : k - o \in 1 .. Len(q[n]) /\ Block(LabelList, q[n], o)
    BY <1>7, Zenon DEF MadeOf
  <2>2. n \in DOMAIN frame.crowd /\ q[n] = LabelsFor(n)
    BY <1>2, <1>4, <1>5
  <2> QED
    BY <2>1, <2>2, Zenon
<1> QED
  BY <1>7, <1>8, <1>9, Zenon

(* What is shown is the list of the labels. *)
LEMMA LabelsShown ==
    ASSUME Built
    PROVE  /\ DOMAIN Labels = 1 .. Len(LabelList) /\ Len(LabelList) \in Nat
           /\ Len(frame.text) = Len(LabelList) /\ Len(frame.meta) = 3 * Len(LabelList)
           /\ \A k \in 1 .. Len(LabelList) :
                 /\ Labels[k].text = LabelList[k].text
                 /\ Labels[k].x = LabelList[k].meta[1] /\ Labels[k].color = LabelList[k].meta[3]
<1> DEFINE V == Int \cup Colour
           q == LabelList
           t == frame.text
           s == frame.meta
           r == [n \in DOMAIN q |-> q[n].meta]
           n0 == Len(q)
<1>1. q \in Seq(Label)
  BY LabelsMade
<1>2. t = [n \in DOMAIN q |-> q[n].text] /\ s = FlattenSeq(r)
  BY FrameParts
<1>3. n0 \in Nat /\ DOMAIN q = 1 .. n0
  BY <1>1
<1>4. \A n \in 1 .. n0 : q[n].meta \in Seq(V) /\ Len(q[n].meta) = 3
  <2> SUFFICES ASSUME NEW n \in 1 .. n0 PROVE q[n].meta \in Seq(V) /\ Len(q[n].meta) = 3
    OBVIOUS
  <2> HIDE DEF q, n0, r, V
  <2>1. q[n] \in Label
    BY <1>1, <1>3
  <2> QED
    BY <2>1 DEF Label, LABEL_STRIDE, V
<1> HIDE DEF V, q, t, s, n0
<1>5. r \in Seq(Seq(V)) /\ Len(r) = n0 /\ \A n \in 1 .. n0 : r[n] = q[n].meta
  BY <1>3, <1>4
<1>6. Len(t) = n0 /\ \A n \in 1 .. n0 : t[n] = q[n].text
  BY <1>2, <1>3
<1> HIDE DEF r
<1> DEFINE w == 3
<1>7. w \in Nat \ {0} /\ \A n \in 1 .. Len(r) : Len(r[n]) = w
  <2> SUFFICES ASSUME NEW n \in 1 .. Len(r) PROVE Len(r[n]) = 3
    OBVIOUS
  <2>1. n \in 1 .. n0 /\ r[n] = q[n].meta
    BY <1>5
  <2> QED
    BY <1>4, <2>1
<1> HIDE DEF w
<1>8. InRows(s, r, w, n0)
  BY <1>2, <1>5, <1>7, FlattenRows
<1>9. Len(s) = 3 * n0 /\ \A m \in 1 .. n0, k \in 1 .. 3 : s[(m - 1) * 3 + k] = r[m][k]
  BY <1>8 DEF InRows, w
<1>10. Least(Len(t), Len(s) \div 3) = n0
  BY <1>3, <1>6, <1>9 DEF Least
<1>11. Labels = [k \in 1 .. n0 |-> [text |-> t[k], x |-> s[(k - 1) * 3 + 1], y |-> s[(k - 1) * 3 + 2], color |-> s[(k - 1) * 3 + 3]]]
  BY <1>10 DEF Labels, drawLabels, LABEL_STRIDE, s, t
<1>12. ASSUME NEW k \in 1 .. n0
       PROVE  Labels[k].text = q[k].text /\ Labels[k].x = q[k].meta[1] /\ Labels[k].color = q[k].meta[3]
  <2>1. Labels[k].text = t[k] /\ Labels[k].x = s[(k - 1) * 3 + 1] /\ Labels[k].color = s[(k - 1) * 3 + 3]
    BY <1>11
  <2>2. \A j \in 1 .. 3 : s[(k - 1) * 3 + j] = r[k][j]
    BY <1>9
  <2>3. r[k] = q[k].meta /\ t[k] = q[k].text
    BY <1>5, <1>6
  <2> QED
    BY <2>1, <2>2, <2>3
<1>13. DOMAIN Labels = 1 .. n0
  BY <1>11
<1> QED
  BY <1>3, <1>6, <1>9, <1>12, <1>13 DEF q, s, t, n0

(* Texts and places of the labels meet. *)
LEMMA LabelsTogether == ASSUME Built PROVE LabelsMeet
<1>1. /\ DOMAIN Labels = 1 .. Len(LabelList) /\ Len(LabelList) \in Nat
      /\ Len(frame.text) = Len(LabelList) /\ Len(frame.meta) = 3 * Len(LabelList)
      /\ \A k \in 1 .. Len(LabelList) :
            /\ Labels[k].text = LabelList[k].text
            /\ Labels[k].x = LabelList[k].meta[1] /\ Labels[k].color = LabelList[k].meta[3]
  BY LabelsShown
<1>2. Len(frame.shapes) % SHAPE_STRIDE = 0
  <2> DEFINE n0 == Len(ShapeList)
  <2>1. n0 \in Nat /\ Len(frame.shapes) = 6 * n0
    BY DrawnIs
  <2> HIDE DEF n0
  <2> QED
    BY <2>1 DEF SHAPE_STRIDE
<1>3. ASSUME NEW k \in DOMAIN Labels
      PROVE  \E e \in Members :
                /\ InFront(e.feet) /\ InColumn(e.feet, Labels[k].x, Size[1])
                /\ Labels[k].text \in {<<"name", e.name>>, <<"m", (e.distance + 5) \div 10>>}
                /\ Labels[k].color = entityColor(frame.cfg, e)
  <2>1. k \in 1 .. Len(LabelList) /\ k \in Int
    BY <1>1
  <2>2. PICK n \in DOMAIN frame.crowd, o \in Nat :
             k - o \in 1 .. Len(LabelsFor(n)) /\ Block(LabelList, LabelsFor(n), o)
    BY <2>1, LabelsMade
  <2> DEFINE j == k - o
             p == LabelsFor(n)
             e == frame.crowd[n]
  <2>3. j \in 1 .. Len(p) /\ o + j = k
    BY <2>1, <2>2
  <2>4. IsKept(e) /\ LabelTells(p[j], n)
    BY <2>3, AddsLabels
  <2>5. e \in Members /\ Standing(e, BoxFor(e))
    BY <2>4, EntityTyped, KeptStands
  <2> HIDE DEF j, p
  <2>6. LabelList[o + j] = p[j]
    BY <2>2, <2>3 DEF Block, p
  <2>7. LabelTells(LabelList[k], n)
    BY <2>3, <2>4, <2>6, Zenon
  <2> HIDE DEF e
  <2>8. /\ LabelList[k].text \in {<<"name", e.name>>, <<"m", (e.distance + 5) \div 10>>}
        /\ LabelList[k].meta[1] = BoxFor(e).cx /\ LabelList[k].meta[3] = entityColor(frame.cfg, e)
    BY <2>7, Zenon DEF LabelTells, e
  <2>9. InFront(e.feet) /\ InColumn(e.feet, BoxFor(e).cx, Size[1])
    BY <2>5 DEF Standing
  <2>10. /\ Labels[k].text = LabelList[k].text
         /\ Labels[k].x = LabelList[k].meta[1] /\ Labels[k].color = LabelList[k].meta[3]
    BY <1>1, <2>1
  <2>11. /\ Labels[k].text \in {<<"name", e.name>>, <<"m", (e.distance + 5) \div 10>>}
         /\ Labels[k].x = BoxFor(e).cx /\ Labels[k].color = entityColor(frame.cfg, e)
    BY <2>8, <2>10, Zenon
  <2> QED
    BY <2>5, <2>9, <2>11, Zenon
<1>4. ASSUME frame.cfg.names, NEW m \in Members, InView(m), Size = frame.canvas, m.name # 0
      PROVE  \E k \in DOMAIN Labels : Labels[k].text = <<"name", m.name>>
  <2>1. PICK n \in DOMAIN frame.crowd : m = frame.crowd[n]
    BY DEF Members
  <2>2. IsKept(frame.crowd[n])
    BY <1>4, <2>1, VisibleKept
  <2>3. PICK o \in Nat : Block(LabelList, LabelsFor(n), o)
    BY LabelsMade
  <2> DEFINE p == LabelsFor(n)
             t == <<"name", m.name>>
             k == o + 1
  <2>4. 1 \in 1 .. Len(p) /\ p[1].text = t
    BY <1>4, <2>1, <2>2, AddsLabels
  <2> HIDE DEF p, t
  <2>5. k \in 1 .. Len(LabelList) /\ LabelList[k] = p[1]
    BY <2>3, <2>4 DEF Block, p
  <2> HIDE DEF k
  <2>6. k \in DOMAIN Labels /\ Labels[k].text = t
    BY <1>1, <2>4, <2>5
  <2> QED
    BY <2>6 DEF t
<1>5. Len(frame.meta) = 3 * Len(frame.text)
  BY <1>1
<1> QED
  BY <1>2, <1>3, <1>4, <1>5 DEF LabelsMeet

(* The frame was not built yet, or of what there is. *)
FrameIInv == frame = None \/ Built

(* Whatever frame is built, what is painted of it is what the engine sees: *)
(* boxes and tracers stand on entities in front of the camera, none in     *)
(* view is left out, legs and bars keep to their box and track, and labels *)
(* belong to the entities they tell of.                                    *)
THEOREM FrameCorrect == FrameSpec => []FrameInv
<1>1. FrameInit => FrameIInv
  BY DEF FrameInit, FrameIInv
<1>2. FrameIInv /\ [FrameNext]_frame => FrameIInv'
  <2> SUFFICES ASSUME FrameIInv, [FrameNext]_frame PROVE FrameIInv'
    OBVIOUS
  <2>1. CASE FrameNext
    <3>1. PICK s \in Sources, cfg \in Configs, canvas \in Canvases, crowd \in Crowds : frame' = buildFrame(s, cfg, canvas, crowd)
      BY <2>1 DEF FrameNext
    <3>2. Built'
      BY <3>1, Zenon DEF Built
    <3> QED
      BY <3>2 DEF FrameIInv
  <2>2. CASE UNCHANGED frame
    <3>1. Built => Built'
      BY <2>2, Zenon DEF Built
    <3> QED
      BY <2>2, <3>1 DEF FrameIInv, None
  <2> QED
    BY <2>1, <2>2
<1>3. FrameIInv => FrameInv
  <2>1. CASE frame = None
    <3>1. frame.built = FALSE
      BY <2>1 DEF None
    <3> QED
      BY <3>1 DEF FrameInv
  <2>2. CASE Built
    <3>1. /\ BoxesStandOnEntities /\ TracersEndAtEntities /\ VisibleIsDrawn
          /\ LegsInBox /\ BarsInTracks /\ LabelsMeet
      BY <2>2, BoxesStand, TracersEnd, VisibleDrawn, LegsStay, BarsPair, LabelsTogether
    <3> QED
      BY <3>1 DEF FrameInv
  <2> QED
    BY <2>1, <2>2 DEF FrameIInv
<1> QED
  BY <1>1, <1>2, <1>3, PTL DEF FrameSpec
=============================================================================
