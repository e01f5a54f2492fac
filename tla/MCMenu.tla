------------------------------- MODULE MCMenu -------------------------------
(***************************************************************************)
(* What the menu and the ESP make of their inputs, in one run.  A          *)
(* behaviour is about one topic: the numbering of a feature list, the      *)
(* finger that moves or opens the menu, numbers and texts that are typed,  *)
(* saved and restored, or one frame of the ESP.                            *)
(***************************************************************************)
EXTENDS FeatureList, MenuTouch, MenuInputs, EspFrame, TLC

Feature(kind, max, choices) == [kind |-> kind, max |-> max, choices |-> choices]
Version(first, second) == [n \in {0, 1} |-> IF n = 0 THEN first ELSE second]
FirstVersion == Version(Feature("InputValue", 2, 0), Feature("RadioButton", 0, 2))

VARIABLE topic
allVars == <<topic, vars, touchVars, inputVars, frame>>
MCInit ==
    /\ topic \in {"list", "touch", "inputs", "frame"}
    /\ Init /\ TouchInit /\ InputsInit /\ FrameInit
    /\ topic # "list" => list = << >>
    /\ topic # "inputs" => features = FirstVersion
MCNext ==
    /\ UNCHANGED topic
    /\ \/ topic = "list" /\ Next /\ UNCHANGED <<touchVars, inputVars, frame>>
       \/ topic = "touch" /\ TouchNext /\ UNCHANGED <<vars, inputVars, frame>>
       \/ topic = "inputs" /\ InputsNext /\ UNCHANGED <<vars, touchVars, frame>>
       \/ topic = "frame" /\ FrameNext /\ UNCHANGED <<vars, touchVars, inputVars>>
MCSpec == MCInit /\ [][MCNext]_allVars

(* All lists of up to four entries of these kinds, and the shipped list. *)
MCEntries == {Widget("Toggle"), Widget("SeekBar"), Numbered(1, "Toggle"), Numbered(200, "Button"),
              Entry("Heading"), Entry("Collapse"), Entry("Unknown"),
              InGroup(Widget("Button")), InGroup(Numbered(7, "CheckBox"))}
MCLists == UNION {[1 .. n -> MCEntries] : n \in 0 .. 4} \cup {GetFeatureList}

MCFingers == {<<0, 0>>, <<1, 0>>, <<2, 0>>, <<0, 2>>}
MCHome == (0 .. 2) \X (0 .. 2)
MCFirstPlace == <<0, 1>>

MCVersions ==
    {FirstVersion, Version(Feature("InputValue", 1, 0), Feature("RadioButton", 0, 1)),
     Version(Feature("InputText", 0, 0), Feature("InputLValue", 3, 0)),
     Version(Feature("InputLValue", 0, 0), Feature("InputValue", 0, 0))}

(* A camera turned to the side, and its lens; memory keeps them by columns. *)
ByColumns(rows) == LET el(r, c) == rows[c + 1][r + 1] IN Mat4Of(el)
View == ByColumns(<< <<0, 0, -1, 0>>, <<0, 1, 0, -1>>, <<1, 0, 0, -2>>, <<0, 0, 0, 1>> >>)
Lens == ByColumns(<< <<1, 0, 0, 0>>, <<0, 2, 0, 0>>, <<0, 0, 1, 1>>, <<0, 0, -1, 0>> >>)
Source(unity, own, flipY) ==
    [unity |-> unity, view |-> View, projection |-> Lens, own |-> own, flipY |-> flipY,
     minClipW |-> IF unity THEN 1 ELSE 100]
MCSources == {Source(TRUE, <<0, 0>>, TRUE), Source(FALSE, <<0, 0>>, FALSE), Source(FALSE, <<24, 16>>, TRUE)}
Settings(box, corner, tracer, distance, origin, color) ==
    [boxes |-> box, cornerBox |-> corner, tracers |-> tracer, healthBars |-> TRUE, names |-> TRUE,
     distances |-> TRUE, maxDistance |-> distance, tracerOrigin |-> origin, colorBox |-> color,
     colorTracer |-> <<255, 64, 255, 64>>, colorEnemy |-> <<255, 255, 64, 64>>, colorAlly |-> <<255, 64, 192, 255>>,
     colorHealthHigh |-> <<255, 64, 255, 64>>, colorHealthLow |-> <<255, 255, 64, 64>>]
White == <<255, 255, 255, 255>>
MCConfigs == {Settings(TRUE, FALSE, TRUE, 0, 0, White), Settings(TRUE, TRUE, FALSE, 2, 0, NoColour),
              Settings(FALSE, FALSE, TRUE, 2, 1, White), Settings(TRUE, FALSE, TRUE, 1, 2, NoColour)}
MCCanvases == {<<16, 12>>}
Person(p, height, health, distance, color, team, name) ==
    [feet |-> p, head |-> <<p[1], p[2] + height, p[3]>>, health |-> health, distance |-> distance,
     color |-> color, team |-> team, name |-> name]
One == UNION {{Person(p, h, 3, 14, NoColour, 0, 1), Person(p, h, -1, -1, <<9, 9, 9, 9>>, 1, 0), Person(p, h, 5, 21, NoColour, 1, 2)}
              : p \in (-2 .. 3) \X (-1 .. 1) \X {-3, -1, 0, 1, 3}, h \in {-1, 1, 2}}
Two == {<<Person(<<-1, y, 0>>, 1, 1, 3, NoColour, 0, 1), Person(<<-2, 1, z>>, 1, 2, 5, NoColour, 1, 2)>>
        : y \in -1 .. 1, z \in -2 .. 2}
MCCrowds == {<<e>> : e \in One} \cup Two
=============================================================================
