------------------------------ MODULE MenuTouch ------------------------------
(***************************************************************************)
(* The listener of Menu.java that moves the menu with a finger or opens it *)
(* with a tap, the buttons that collapse it, and the place it was dropped  *)
(* at, which is saved in two preferences and read when a menu is shown.    *)
(* Places and fingers are points; one gesture is under way at a time.      *)
(***************************************************************************)
EXTENDS Integers, Sequences

CONSTANTS
    Fingers,   \* points a finger can be at
    TouchSlop, \* how far a finger may go and still tap
    Home,      \* bound: the places at which a new gesture finds the menu
    FirstPlace \* POS_X and POS_Y

ASSUME TouchAssumption == TouchSlop \in Nat /\ Fingers \subseteq Int \X Int /\ FirstPlace \in Int \X Int

VARIABLES
    place,     \* vmParams: where the window is
    gesture,   \* Still, or the gesture under way and the fields of its listener
    faces,     \* which of icon and menu are visible
    opacity,   \* of icon and menu
    placePref, \* menu_pos_x and menu_pos_y as the process reads them
    placeDisk, \* ... and in the file
    placeQueue,\* writes of them on their way to the file
    astray     \* since the menu was last dropped or shown: "cancelled" a drag was, "cleared" the preferences were

touchVars == <<place, gesture, faces, opacity, placePref, placeDisk, placeQueue, astray>>
windowVars == <<place, gesture, faces, opacity, astray>>
storedVars == <<placePref, placeDisk, placeQueue>>

Still == [on |-> "nothing"]
Touched == gesture # Still

Added(p, q)    == <<p[1] + q[1], p[2] + q[2]>>
Distance(p, q) == <<p[1] - q[1], p[2] - q[2]>>

(* The constructor of Menu, and SetWindowManagerWindowService after it.    *)
ShowAt(p) ==
    /\ place' = p /\ gesture' = Still /\ astray' = {}
    /\ faces' = {"icon"} /\ opacity' = [icon |-> "icon", menu |-> "full"]

TouchInit ==
    /\ place = FirstPlace /\ gesture = Still /\ astray = {}
    /\ faces = {"icon"} /\ opacity = [icon |-> "icon", menu |-> "full"]
    /\ placePref = FirstPlace /\ placeDisk = FirstPlace /\ placeQueue = << >>

-----------------------------------------------------------------------------
(* Mutant of TapZone: the bug the comment in the listener speaks of.       *)
TapZoneSigned(d) == d[1] <= TouchSlop /\ d[2] <= TouchSlop
Within(n, bound) == -bound <= n /\ n <= bound
TapZone(d) == Within(d[1], TouchSlop) /\ Within(d[2], TouchSlop)

(* ACTION_DOWN on the icon, which is there when the menu is collapsed, or  *)
(* on what of the window takes no touches itself.                          *)
Down(on, f) ==
    /\ ~Touched /\ place \in Home
    /\ on = "icon" => "icon" \in faces
    /\ gesture' = [on |-> on, initial |-> place, down |-> f, finger |-> f, dragging |-> FALSE, left |-> FALSE]
    /\ UNCHANGED <<place, faces, opacity, astray, storedVars>>

(* ACTION_MOVE.  left remembers whether the finger was ever out of the     *)
(* zone in either direction.                                               *)
MoveTo(f) ==
    /\ Touched
    /\ LET d    == Distance(f, gesture.down)
           drag == gesture.dragging \/ ~TapZone(d)
           out  == \E i \in 1 .. 2 : ~Within(d[i], TouchSlop) IN
         /\ gesture' = [gesture EXCEPT !.finger = f, !.dragging = drag, !.left = gesture.left \/ out]
         /\ IF drag THEN /\ place' = Added(gesture.initial, d)
                         /\ opacity' = [icon |-> "half", menu |-> "half"]
            ELSE UNCHANGED <<place, opacity>>
    /\ UNCHANGED <<faces, astray, storedVars>>

(* writeInt, writeInt: two snapshots on their way to the file. *)
SavePlace ==
    LET first == <<place[1], placePref[2]>> IN
    /\ placeQueue' = placeQueue \o <<first, place>>
    /\ placePref' = place

(* What a tap opens: the listener of the frame was made before icon and    *)
(* menu were and knows neither; what it throws is ignored.                 *)
Opens(on) == IF on = "icon" THEN {"menu"} ELSE faces

(* ACTION_UP.  Bound: the earlier writes have reached the file. *)
Lift ==
    /\ Touched
    /\ opacity' = [icon |-> "full", menu |-> "full"]
    /\ gesture' = Still
    /\ IF gesture.dragging
       THEN placeQueue = << >> /\ SavePlace /\ astray' = {} /\ UNCHANGED faces
       ELSE /\ faces' = IF "icon" \in faces THEN Opens(gesture.on) ELSE faces
            /\ UNCHANGED <<placePref, placeQueue, astray>>
    /\ UNCHANGED <<place, placeDisk>>

(* ACTION_CANCEL falls to the default case: the window was hidden, or the  *)
(* system took the gesture.                                                *)
CancelTouch ==
    /\ Touched
    /\ gesture' = Still
    /\ astray' = IF gesture.dragging THEN astray \cup {"cancelled"} ELSE astray
    /\ UNCHANGED <<place, faces, opacity, storedVars>>

(* The toggle that saves features clears all preferences when it is        *)
(* switched off, the place too.  Bound: as for Lift.                       *)
ClearPreferences ==
    /\ "menu" \in faces /\ placeQueue = << >>
    /\ placePref' = FirstPlace /\ placeQueue' = <<FirstPlace>>
    /\ astray' = astray \cup {"cleared"}
    /\ UNCHANGED <<place, gesture, faces, opacity, placeDisk>>

(* The buttons HIDE and MINIMIZE, also under a second finger. *)
Collapse(icon) ==
    /\ "menu" \in faces
    /\ faces' = {"icon"} /\ opacity' = [opacity EXCEPT !.icon = icon]
    /\ UNCHANGED <<place, gesture, astray, storedVars>>

-----------------------------------------------------------------------------
WritePlace ==
    /\ \E i \in DOMAIN placeQueue :
          placeDisk' = placeQueue[i] /\ placeQueue' = SubSeq(placeQueue, i + 1, Len(placeQueue))
    /\ UNCHANGED <<windowVars, placePref>>

(* The service shows a new menu in the same process. *)
ShowAgain == ShowAt(placePref) /\ UNCHANGED storedVars

(* The process dies and is started again; what was not written is lost.    *)
RestartProcess ==
    /\ ShowAt(placeDisk)
    /\ placePref' = placeDisk /\ placeQueue' = << >>
    /\ UNCHANGED placeDisk

TouchNext ==
    \/ \E on \in {"icon", "frame"}, f \in Fingers : Down(on, f)
    \/ \E f \in Fingers : MoveTo(f)
    \/ Lift \/ CancelTouch \/ ClearPreferences \/ Collapse("none") \/ Collapse("icon")
    \/ WritePlace \/ ShowAgain \/ RestartProcess

-----------------------------------------------------------------------------
Point(p) == p \in Int \X Int
TouchTypeOK ==
    /\ Point(place) /\ Point(placePref) /\ Point(placeDisk)
    /\ Len(placeQueue) <= 2 /\ \A i \in DOMAIN placeQueue : Point(placeQueue[i])
    /\ astray \subseteq {"cancelled", "cleared"}
    /\ opacity.icon \in {"icon", "none", "half", "full"} /\ opacity.menu \in {"half", "full"}

(* Tap and drag exclude one another (Menu.java:415-421): a finger that     *)
(* stays in the zone, in all directions, does not move the menu, and one   *)
(* that has left it, even if it is back, does not tap.                     *)
TapStays ==
    Touched =>
        /\ gesture.dragging <=> gesture.left
        /\ ~gesture.left => place = gesture.initial

(* A dragged menu stays where the finger took hold of it, also when it is  *)
(* collapsed or hidden under a second finger.                              *)
FollowsFinger ==
    Touched /\ gesture.dragging => Distance(place, gesture.initial) = Distance(gesture.finger, gesture.down)

(* "Remember where the menu was dropped so it comes back there next time"  *)
(* (Menu.java:438): once the file has caught up, a new process shows the   *)
(* menu where it is now, unless a drag was cancelled or the preferences    *)
(* were cleared.                                                           *)
DroppedIsRestored ==
    ~Touched /\ astray = {} => placePref = place /\ (placeQueue = << >> => placeDisk = place)

(* There is always something to touch: the icon or the menu, not both, and *)
(* only a drag makes the menu translucent.                                 *)
OneFace ==
    /\ faces = {"icon"} \/ faces = {"menu"}
    /\ ~Touched /\ "cancelled" \notin astray => opacity.menu = "full"

(* Touching the menu. *)
TouchInv == TouchTypeOK /\ TapStays /\ FollowsFinger /\ DroppedIsRestored /\ OneFace
=============================================================================
