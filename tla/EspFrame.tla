------------------------------ MODULE EspFrame ------------------------------
(***************************************************************************)
(* One frame of the ESP: the camera's matrices, as UnitySource.cpp reads   *)
(* them or as a source hands them over, the projection of EspMath.hpp, the *)
(* boxes, tracers, bars and labels buildFrame of Esp.cpp makes of the      *)
(* entities, the flat lists they travel in, and what ESPView.java reads    *)
(* out of these.                                                           *)
(*                                                                         *)
(* Arithmetic is exact where the code rounds floats: coordinates are       *)
(* integers, lengths on the screen are counted in Unit-ths of a pixel,     *)
(* health in quarters, distances in tenths of a metre.  A colour is the    *)
(* tuple of its four bytes.                                                *)
(***************************************************************************)
EXTENDS Integers, SequencesExt

CONSTANTS
    Sources,  \* [unity, view, projection, own, flipY, minClipW]: matrices as the engine keeps them
    Configs,  \* settings of the ESP
    Canvases, \* sizes of the view
    Crowds    \* sequences of entities

Vec3 == Int \X Int \X Int
Colour == [1 .. 4 -> 0 .. 255]
ASSUME FrameAssumption ==
    /\ \A s \in Sources :
          /\ {s.view, s.projection} \subseteq [0 .. 15 -> Int]
          /\ s.own \in Int \X Int /\ s.minClipW \in Nat \ {0} /\ s.unity \in BOOLEAN /\ s.flipY \in BOOLEAN
    /\ \A cfg \in Configs :
          /\ {cfg.boxes, cfg.cornerBox, cfg.tracers, cfg.healthBars, cfg.names, cfg.distances} \subseteq BOOLEAN
          /\ {cfg.colorBox, cfg.colorTracer, cfg.colorEnemy, cfg.colorAlly} \subseteq Colour
          /\ {cfg.colorHealthHigh, cfg.colorHealthLow} \subseteq Colour
          /\ cfg.maxDistance \in Int /\ cfg.tracerOrigin \in Int
    /\ Canvases \subseteq Nat \X Nat
    /\ Crowds \subseteq Seq([feet : Vec3, head : Vec3, health : Int, distance : Int, color : Colour, team : Int, name : Nat])

VARIABLE frame \* None, or what was asked for and the lists that were returned
None == [built |-> FALSE]

(* Pixels divide by 40 (boxW * 0.5) and by 2 * clip.w for clip.w up to 4.  *)
Unit == 960
Trunc(n, d) == IF n >= 0 THEN n \div d ELSE -((-n) \div d)
Pixel(n) == Trunc(n, Unit)
Least(a, b) == IF a <= b THEN a ELSE b
Most(a, b) == IF a >= b THEN a ELSE b

-----------------------------------------------------------------------------
(* Mat4: the element at row, col is m[row * 4 + col]. *)
Mat4Of(element(_, _)) == [i \in 0 .. 15 |-> element(i \div 4, i % 4)]
transpose(a) == LET el(r, c) == a[c * 4 + r] IN Mat4Of(el)
multiply(a, b) ==
    LET el(r, c) == a[r * 4] * b[c] + a[r * 4 + 1] * b[4 + c] + a[r * 4 + 2] * b[8 + c] + a[r * 4 + 3] * b[12 + c]
    IN  Mat4Of(el)
RowTimes(m, row, p) == m[row * 4] * p[1] + m[row * 4 + 1] * p[2] + m[row * 4 + 2] * p[3] + m[row * 4 + 3]

readMatrix(raw) == transpose(raw)
(* Mutant of viewProjection: the factors are swapped. *)
viewProjectionSwapped(s) ==
    IF s.unity THEN multiply(readMatrix(s.view), readMatrix(s.projection)) ELSE multiply(s.projection, s.view)
(* A source of another engine hands its matrix over as it is; for columns  *)
(* a * b is the product of b and a.                                        *)
viewProjection(s) ==
    IF s.unity THEN multiply(readMatrix(s.projection), readMatrix(s.view)) ELSE multiply(s.view, s.projection)
ColumnMajor(s) == ~s.unity
MatrixOf(s) == IF ColumnMajor(s) THEN transpose(viewProjection(s)) ELSE viewProjection(s)

(* clipW < minClipW, which is in ten-thousandths. *)
BehindCamera(w, s) == 10000 * w < s.minClipW

(* worldToScreen; the caller asks BehindCamera first. *)
ClipW(m, p) == RowTimes(m, 3, p)
ScreenX(m, p, size) == (Unit * (RowTimes(m, 0, p) + ClipW(m, p)) * size[1]) \div (2 * ClipW(m, p))
ScreenY(m, p, size, flipY) ==
    LET yUp == (Unit * (RowTimes(m, 1, p) + ClipW(m, p)) * size[2]) \div (2 * ClipW(m, p))
    IN  IF flipY THEN Unit * size[2] - yUp ELSE yUp

-----------------------------------------------------------------------------
SHAPE_RECT == 0
SHAPE_LINE == 1
SHAPE_FILL == 2
pushShape(type, x1, y1, x2, y2, color) == <<type, x1, y1, x2, y2, color>>

CornerLength(b) == Most(1, Least(b.x2 - b.x1, b.y2 - b.y1) \div 4)
pushBoxOutline(b, color, corner) ==
    LET len == CornerLength(b)
        line(x1, y1, x2, y2) == pushShape(SHAPE_LINE, x1, y1, x2, y2, color) IN
    IF ~corner THEN <<pushShape(SHAPE_RECT, b.x1, b.y1, b.x2, b.y2, color)>>
    ELSE << line(b.x1, b.y1, b.x1 + len, b.y1), line(b.x1, b.y1, b.x1, b.y1 + len),
            line(b.x2 - len, b.y1, b.x2, b.y1), line(b.x2, b.y1, b.x2, b.y1 + len),
            line(b.x1, b.y2 - len, b.x1, b.y2), line(b.x1, b.y2, b.x1 + len, b.y2),
            line(b.x2 - len, b.y2, b.x2, b.y2), line(b.x2, b.y2 - len, b.x2, b.y2) >>

lerpColor(a, b, t) ==
    LET q == Most(0, Least(4, t)) IN [k \in 1 .. 4 |-> (a[k] + Trunc((b[k] - a[k]) * q, 4)) % 256]

NoColour == <<0, 0, 0, 0>>
Track == <<192, 32, 32, 32>>
entityColor(cfg, e) ==
    IF e.color # NoColour THEN e.color ELSE IF e.team = 0 THEN cfg.colorEnemy ELSE cfg.colorAlly

-----------------------------------------------------------------------------
(* The rectangle of an entity that both ends of are in front of the camera. *)
BoxOf(e, s, size) ==
    LET m     == MatrixOf(s)
        cx    == ScreenX(m, e.feet, size)
        feetY == ScreenY(m, e.feet, size, s.flipY)
        headY == ScreenY(m, e.head, size, s.flipY)
        boxH  == Most(headY, feetY) - Least(headY, feetY)
        half  == (9 * boxH) \div 40 IN
    [cx |-> Pixel(cx), x1 |-> Pixel(cx - half), x2 |-> Pixel(cx + half), boxH |-> boxH,
     y1 |-> Pixel(Least(headY, feetY)), y2 |-> Pixel(Most(headY, feetY))]

SizeOf(s, canvas) == IF s.own[1] > 0 /\ s.own[2] > 0 THEN s.own ELSE canvas
TooFar(e, cfg) == cfg.maxDistance > 0 /\ e.distance >= 0 /\ e.distance > 10 * cfg.maxDistance
Outside(b, canvas) == b.x2 < 0 \/ b.x1 > canvas[1] \/ b.y2 < 0 \/ b.y1 > canvas[2]

(* An entity that none of the five continues skips. *)
Kept(e, s, cfg, canvas) ==
    LET m == MatrixOf(s) b == BoxOf(e, s, SizeOf(s, canvas)) IN
    /\ ~TooFar(e, cfg)
    /\ ~BehindCamera(ClipW(m, e.feet), s) /\ ~BehindCamera(ClipW(m, e.head), s)
    /\ b.boxH >= 2 * Unit
    /\ ~Outside(b, canvas)

TracerStart(cfg, canvas) ==
    <<canvas[1] \div 2, CASE cfg.tracerOrigin = 1 -> 0 [] cfg.tracerOrigin = 2 -> canvas[2] \div 2 [] OTHER -> canvas[2]>>

HealthBar(b, e, cfg) ==
    LET barX2 == b.x1 - 2
        fill(top, color) == pushShape(SHAPE_FILL, barX2 - 3, top, barX2, b.y2, color) IN
    << fill(b.y1, Track),
       fill(b.y2 - Trunc((b.y2 - b.y1) * e.health, 4), lerpColor(cfg.colorHealthLow, cfg.colorHealthHigh, e.health)) >>

If(condition, list) == IF condition THEN list ELSE << >>

ShapesOf(e, s, cfg, canvas) ==
    LET b == BoxOf(e, s, SizeOf(s, canvas))
        o == TracerStart(cfg, canvas) IN
    If(cfg.boxes, pushBoxOutline(b, IF cfg.colorBox # NoColour THEN cfg.colorBox ELSE entityColor(cfg, e), cfg.cornerBox))
    \o If(cfg.tracers, <<pushShape(SHAPE_LINE, o[1], o[2], b.cx, b.y2, cfg.colorTracer)>>)
    \o If(cfg.healthBars /\ e.health >= 0, HealthBar(b, e, cfg))

(* A name is a number, 0 the empty one; a distance is rounded to metres. *)
LabelsOf(e, s, cfg, canvas) ==
    LET b == BoxOf(e, s, SizeOf(s, canvas))
        label(text, y) == [text |-> text, meta |-> <<b.cx, y, entityColor(cfg, e)>>] IN
    If(cfg.names /\ e.name # 0, <<label(<<"name", e.name>>, b.y1 - 4)>>)
    \o If(cfg.distances /\ e.distance >= 0, <<label(<<"m", (e.distance + 5) \div 10>>, b.y2 + 18)>>)

(* buildFrame of an enabled overlay with a source that has a matrix. *)
buildFrame(s, cfg, canvas, crowd) ==
    LET Unless(i, list) == If(Kept(crowd[i], s, cfg, canvas), list)
        shapes == FlattenSeq([i \in DOMAIN crowd |-> Unless(i, ShapesOf(crowd[i], s, cfg, canvas))])
        labels == FlattenSeq([i \in DOMAIN crowd |-> Unless(i, LabelsOf(crowd[i], s, cfg, canvas))]) IN
    [built |-> TRUE, source |-> s, cfg |-> cfg, canvas |-> canvas, crowd |-> crowd,
     shapes |-> FlattenSeq(shapes),
     text |-> [i \in DOMAIN labels |-> labels[i].text],
     meta |-> FlattenSeq([i \in DOMAIN labels |-> labels[i].meta])]

FrameInit == frame = None
FrameNext ==
    /\ frame = None
    /\ \E s \in Sources, cfg \in Configs, canvas \in Canvases, crowd \in Crowds :
          frame' = buildFrame(s, cfg, canvas, crowd)

-----------------------------------------------------------------------------
(* drawShapes and drawLabels of ESPView.java. *)
SHAPE_STRIDE == 6
LABEL_STRIDE == 3
drawShapes(shapes) ==
    [k \in 1 .. Len(shapes) \div SHAPE_STRIDE |->
        LET at == (k - 1) * SHAPE_STRIDE IN
        [type |-> shapes[at + 1], x1 |-> shapes[at + 2], y1 |-> shapes[at + 3], x2 |-> shapes[at + 4],
         y2 |-> shapes[at + 5], color |-> shapes[at + 6]]]
drawLabels(text, meta) ==
    [k \in 1 .. Least(Len(text), Len(meta) \div LABEL_STRIDE) |->
        LET at == (k - 1) * LABEL_STRIDE IN
        [text |-> text[k], x |-> meta[at + 1], y |-> meta[at + 2], color |-> meta[at + 3]]]

-----------------------------------------------------------------------------
(* What the engine itself makes of a point: its matrices, which it keeps   *)
(* column by column, applied one after the other.                          *)
Applied(raw, v) == [r \in 1 .. 4 |-> raw[r - 1] * v[1] + raw[r + 3] * v[2] + raw[r + 7] * v[3] + raw[r + 11] * v[4]]
Clip(p) == Applied(frame.source.projection, Applied(frame.source.view, <<p[1], p[2], p[3], 1>>))
InFront(p) == Clip(p)[4] > 0
(* Twice clip.w times the place of p, from the left and from the top. *)
EngineX(p, w) == (Clip(p)[4] + Clip(p)[1]) * w
EngineY(p, h) == (IF frame.source.flipY THEN Clip(p)[4] - Clip(p)[2] ELSE Clip(p)[4] + Clip(p)[2]) * h
(* The pixel a point falls in, or the one before the edge it falls short of. *)
InColumn(p, x, w) == LET d == EngineX(p, w) - 2 * Clip(p)[4] * x IN -2 * Clip(p)[4] < d /\ d < 2 * Clip(p)[4]
InRow(p, y, h)    == LET d == EngineY(p, h) - 2 * Clip(p)[4] * y IN -2 * Clip(p)[4] < d /\ d < 2 * Clip(p)[4]

Drawn    == drawShapes(frame.shapes)
Labels   == drawLabels(frame.text, frame.meta)
Of(type) == {k \in DOMAIN Drawn : Drawn[k].type = type}
Size     == SizeOf(frame.source, frame.canvas)
Members  == {frame.crowd[i] : i \in DOMAIN frame.crowd}

(* Points behind the player "must not be drawn, otherwise they mirror onto *)
(* the screen" (EspMath.hpp:75): every box stands between the pixels the   *)
(* engine gives the feet and the head of an entity in front of it.         *)
StandsOnEntity(x1, y1, x2, y2) ==
    \E e \in Members :
        /\ InFront(e.feet) /\ InFront(e.head)
        /\ \/ InRow(e.head, y1, Size[2]) /\ InRow(e.feet, y2, Size[2])
           \/ InRow(e.feet, y1, Size[2]) /\ InRow(e.head, y2, Size[2])
        /\ \E x \in x1 .. x2 : InColumn(e.feet, x, Size[1])
BoxesStandOnEntities ==
    \A k \in Of(SHAPE_RECT) : StandsOnEntity(Drawn[k].x1, Drawn[k].y1, Drawn[k].x2, Drawn[k].y2)

(* Tracers lead from the middle of the view to the lower end of an entity. *)
TracersEndAtEntities ==
    ~frame.cfg.cornerBox => \A k \in Of(SHAPE_LINE) :
        /\ Drawn[k].x1 \in 0 .. frame.canvas[1] /\ Drawn[k].y1 \in 0 .. frame.canvas[2]
        /\ \E e \in Members :
              /\ InFront(e.feet) /\ InColumn(e.feet, Drawn[k].x2, Size[1])
              /\ InRow(e.feet, Drawn[k].y2, Size[2]) \/ InRow(e.head, Drawn[k].y2, Size[2])

(* "Cull anything fully outside the screen" (Esp.cpp:194) and nothing      *)
(* else: when a box is missing, every entity left out is behind, too far,  *)
(* less than two pixels high, or beside the view of a source that has no   *)
(* size of its own.                                                        *)
Height(e) == 
    LET w == Clip(e.feet)[4] v == Clip(e.head)[4] d == EngineY(e.head, Size[2]) * w - EngineY(e.feet, Size[2]) * v
    IN  Most(d, -d)
InView(e) ==
    /\ ~BehindCamera(Clip(e.feet)[4], frame.source) /\ ~BehindCamera(Clip(e.head)[4], frame.source)
    /\ ~TooFar(e, frame.cfg)
    /\ Height(e) >= 4 * Clip(e.feet)[4] * Clip(e.head)[4]
    /\ EngineX(e.feet, Size[1]) \in 0 .. 2 * Clip(e.feet)[4] * Size[1]
    /\ EngineY(e.feet, Size[2]) \in 0 .. 2 * Clip(e.feet)[4] * Size[2]
VisibleIsDrawn ==
    frame.cfg.boxes /\ ~frame.cfg.cornerBox /\ Size = frame.canvas =>
        \A e \in Members : InView(e) =>
            \E k \in Of(SHAPE_RECT) :
                /\ InRow(e.feet, Drawn[k].y1, Size[2]) \/ InRow(e.feet, Drawn[k].y2, Size[2])
                /\ InRow(e.head, Drawn[k].y1, Size[2]) \/ InRow(e.head, Drawn[k].y2, Size[2])

(* The eight legs of a corner box follow one another.  Its corners stand   *)
(* where a box would; if it is a pixel wide, the legs stay in it, and those *)
(* of a wider one do not meet.                                             *)
LegsInBox ==
    frame.cfg.boxes /\ frame.cfg.cornerBox /\ ~frame.cfg.tracers =>
        \A k \in Of(SHAPE_LINE) : \E f \in k - 7 .. k :
            LET first == Drawn[f] last == Drawn[f + 7] wide == last.x1 - first.x1 IN
            /\ f .. f + 7 \subseteq Of(SHAPE_LINE)
            /\ StandsOnEntity(first.x1, first.y1, last.x1, last.y2)
            /\ wide >= 1 =>
                  /\ {Drawn[k].x1, Drawn[k].x2} \subseteq first.x1 .. last.x1
                  /\ {Drawn[k].y1, Drawn[k].y2} \subseteq first.y1 .. last.y2
                  /\ wide >= 4 => 2 * (first.x2 - first.x1) < wide

(* Bars come in pairs, the track first.  The bar of a health between 0 and *)
(* 1 grows in its track, from the bottom up, and its colour lies between   *)
(* the two of the settings.                                                *)
BarsInTracks ==
    \A k \in Of(SHAPE_FILL) : \E t \in k - 1 .. k :
        LET track == Drawn[t] bar == Drawn[t + 1] IN
        /\ t .. t + 1 \subseteq Of(SHAPE_FILL) /\ track.color = Track
        /\ bar.x1 = track.x1 /\ bar.x2 = track.x2 /\ bar.y2 = track.y2
        /\ bar.y1 \in track.y1 .. track.y2 \/ \E e \in Members : e.health > 4
        /\ \A c \in 1 .. 4 :
              bar.color[c] \in Least(frame.cfg.colorHealthLow[c], frame.cfg.colorHealthHigh[c])
                           .. Most(frame.cfg.colorHealthLow[c], frame.cfg.colorHealthHigh[c])

(* Text and places of the labels, which travel apart, meet again: every    *)
(* label is at its entity, in its colour, and whoever has a box has all    *)
(* the labels of its kind.                                                 *)
LabelsMeet ==
    /\ Len(frame.meta) = 3 * Len(frame.text)
    /\ Len(frame.shapes) % SHAPE_STRIDE = 0
    /\ \A k \in DOMAIN Labels : \E e \in Members :
          /\ InFront(e.feet) /\ InColumn(e.feet, Labels[k].x, Size[1])
          /\ Labels[k].text \in {<<"name", e.name>>, <<"m", (e.distance + 5) \div 10>>}
          /\ Labels[k].color = entityColor(frame.cfg, e)
    /\ frame.cfg.names /\ frame.cfg.boxes /\ ~frame.cfg.cornerBox =>
          \A e \in Members : InView(e) /\ Size = frame.canvas /\ e.name # 0 =>
              \E k \in DOMAIN Labels : Labels[k].text = <<"name", e.name>>

(* A frame of the ESP, from the camera's matrices to what is painted. *)
FrameInv ==
    frame.built => /\ BoxesStandOnEntities /\ TracersEndAtEntities /\ VisibleIsDrawn
                   /\ LegsInBox /\ BarsInTracks /\ LabelsMeet
=============================================================================
