----------------------------- MODULE FeatureList -----------------------------
(***************************************************************************)
(* featureList and jsonFeature of Menu.java: the loop that turns the list  *)
(* of GetFeatureList into widgets and gives every feature the number that  *)
(* its preference is stored under and that Changes of Main.cpp switches    *)
(* on.  The two entry formats number alike, so an entry is its kind, the   *)
(* number its author assigned, if any, and whether it goes into the        *)
(* current collapse group.                                                 *)
(***************************************************************************)
EXTENDS Integers, Sequences, FiniteSets

CONSTANTS
    Lists,     \* the feature lists an author may write
    Unnumbered \* the entry carries no number

(* Widgets are counted; Collapse and Heading (Category, ButtonLink,        *)
(* RichTextView, RichWebView) are not; Unknown is a type no case builds,   *)
(* or an object that does not parse.                                       *)
Boolean == {"Toggle", "ButtonOnOff", "CheckBox"}
Valued  == {"SeekBar", "Spinner", "RadioButton", "InputValue"}
Widgets == Boolean \cup Valued \cup {"Button", "InputLValue", "InputText"}
Kinds   == Widgets \cup {"Collapse", "Heading", "Unknown"}
Entries == [kind : Kinds, id : Int \cup {Unnumbered}, collapseAdd : BOOLEAN]

ASSUME ListsAssumption == Lists \subseteq Seq(Entries) /\ Unnumbered \notin Int

VARIABLES
    list,       \* the list being built
    i,          \* entries done
    subFeat,    \* what the loop subtracts from i to number an entry
    featNum,    \* the number each entry done was given
    mCollapse,  \* a collapse group exists
    crashed     \* a widget was added to a group that does not exist

vars == <<list, i, subFeat, featNum, mCollapse, crashed>>

Init ==
    /\ list \in Lists
    /\ i = 0 /\ subFeat = 0
    /\ featNum = << >>
    /\ mCollapse = FALSE /\ crashed = FALSE

-----------------------------------------------------------------------------
Assigned(e) == e.id # Unnumbered

(* What numbering entry e adds to subFeat: 1 for a number of its own, 1    *)
(* for a kind that is not counted.                                         *)
IdStep(e)   == IF Assigned(e) THEN 1 ELSE 0
(* Mutant of KindStep: a Collapse is counted. *)
KindStepOfHeadings(e) == IF e.kind = "Heading" THEN 1 ELSE 0
KindStep(e) == IF e.kind \in {"Collapse", "Heading"} THEN 1 ELSE 0

(* The number of e at position i. *)
NumberOf(e) == IF Assigned(e) THEN e.id ELSE i - subFeat

(* One turn of the loop for an entry that can be built. *)
BuildEntry ==
    /\ ~crashed /\ i < Len(list)
    /\ LET e == list[i + 1] IN
         /\ e.collapseAdd /\ e.kind # "Unknown" => mCollapse
         /\ featNum' = Append(featNum, NumberOf(e))
         /\ subFeat' = subFeat + IdStep(e) + KindStep(e)
         /\ mCollapse' = (mCollapse \/ e.kind = "Collapse")
    /\ i' = i + 1
    /\ UNCHANGED <<list, crashed>>

(* linLayout.addView on the null mCollapse. *)
AddToNoGroup ==
    /\ ~crashed /\ i < Len(list)
    /\ list[i + 1].collapseAdd /\ list[i + 1].kind # "Unknown" /\ ~mCollapse
    /\ crashed' = TRUE
    /\ UNCHANGED <<list, i, subFeat, featNum, mCollapse>>

Next == BuildEntry \/ AddToNoGroup

Spec == Init /\ [][Next]_vars

-----------------------------------------------------------------------------
TypeOK ==
    /\ list \in Lists
    /\ i \in 0 .. Len(list)
    /\ subFeat \in Int
    /\ featNum \in Seq(Int) /\ Len(featNum) = i
    /\ mCollapse \in BOOLEAN /\ crashed \in BOOLEAN

(* The documented rule (ARCHITECTURE.md:134, 138-155): items without a     *)
(* number are numbered from 0, kinds that are not counted and items with a *)
(* number skipped.                                                         *)
Counts(e)     == ~Assigned(e) /\ e.kind \notin {"Collapse", "Heading"}
CountedTo(n)  == {j \in 1 .. n : Counts(list[j])}

(* Headings cannot have a number (ARCHITECTURE.md:134).  Of a Collapse the *)
(* docs do not say so, but the loop would skip a numbered one twice.       *)
ObeysIds == \A j \in 1 .. Len(list) : list[j].kind \in {"Collapse", "Heading"} => ~Assigned(list[j])

(***************************************************************************)
(* The running subtraction of the loop gives every feature the number the  *)
(* author counts by the documented rule, whatever mix of numbered,         *)
(* unnumbered, uncounted and unknown entries comes before it.              *)
(***************************************************************************)
NumberedAsDocumented ==
    ObeysIds => \A j \in 1 .. i :
        list[j].kind \in Widgets =>
            featNum[j] = IF Assigned(list[j]) THEN list[j].id ELSE Cardinality(CountedTo(j - 1))

(* The loop of featureList: well typed, and it counts as documented. *)
ListInv == TypeOK /\ NumberedAsDocumented

(* No two features share a number, so none shares its preference or its    *)
(* handler: numbers assigned by the author, which are distinct, "can be    *)
(* like any numbers" (Main.cpp:33).                                        *)
DistinctIds ==
    \A j, k \in 1 .. Len(list) :
        j # k /\ Assigned(list[j]) /\ Assigned(list[k]) => list[j].id # list[k].id

NumbersDistinct ==
    DistinctIds => \A j, k \in 1 .. i :
        j # k /\ list[j].kind \in Widgets /\ list[k].kind \in Widgets => featNum[j] # featNum[k]

-----------------------------------------------------------------------------
(* The list Main.cpp ships, in its order, and what each case of its        *)
(* Changes reads: the boolean, the value, or nothing but the press.        *)
Entry(kind)          == [kind |-> kind, id |-> Unnumbered, collapseAdd |-> FALSE]
Numbered(id, kind)   == [Entry(kind) EXCEPT !.id = id]
InGroup(e)           == [e EXCEPT !.collapseAdd = TRUE]
Widget(kind)         == Entry(kind)

GetFeatureList == <<
    Widget("Toggle"), Widget("Button"), Widget("SeekBar"), Widget("SeekBar"), Entry("Heading"),
    Widget("Toggle"), Numbered(100, "Toggle"), Numbered(110, "Toggle"),
    Widget("SeekBar"), Widget("SeekBar"), Widget("Spinner"), Widget("Button"), Entry("Heading"),
    Widget("ButtonOnOff"), Widget("CheckBox"), Widget("InputValue"), Widget("InputValue"),
    Numbered(1111, "InputLValue"), Widget("InputLValue"), Widget("InputText"), Widget("RadioButton"),
    Entry("Collapse"), InGroup(Widget("Toggle")), InGroup(Widget("Toggle")),
    InGroup(Numbered(123, "Toggle")), InGroup(Numbered(122, "CheckBox")), InGroup(Widget("Button")),
    Entry("Collapse"), InGroup(Widget("SeekBar")), InGroup(Widget("InputValue")),
    Entry("Heading"), Entry("Heading"), Entry("Heading"), Numbered(300, "Toggle"), Entry("Heading"),
    Numbered(500, "Toggle"), Numbered(501, "Toggle"), Numbered(502, "Toggle"), Numbered(503, "Toggle"),
    Numbered(504, "Toggle"), Numbered(505, "Toggle"), Numbered(506, "Toggle"),
    Numbered(507, "SeekBar"), Numbered(509, "SeekBar"), Numbered(508, "Spinner") >>

ReadsBoolean == {0, 4, 5} \cup 500 .. 506
ReadsValue   == {2, 3} \cup 507 .. 509

(* The argument a case of Changes reads carries the new state of the       *)
(* feature with that number (ARCHITECTURE.md:115).                         *)
HandlersFit ==
    \A j \in 1 .. i : list[j].kind \in Widgets =>
        /\ featNum[j] \in ReadsBoolean => list[j].kind \in Boolean
        /\ featNum[j] \in ReadsValue   => list[j].kind \in Valued
=============================================================================
