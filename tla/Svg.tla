-------------------------------- MODULE Svg ---------------------------------
(***************************************************************************)
(* Drawing an SVG file (compiler/sdk/lib/app/parsing/svg.h) out of the     *)
(* tokens that module Xml finds in it: a walk over the elements with the   *)
(* transform that holds for each, the pen of a path command by command,    *)
(* the filling and stroking of its contours, and colours.                  *)
(*                                                                         *)
(* Attributes come with their element; an end is an element of its own.    *)
(* Numbers are integers, points of curves fractions of CurveSteps ^ 3.     *)
(***************************************************************************)
EXTENDS Integers, SequencesExt

CONSTANTS Drawings,    \* sequences of elements
          View,        \* [x, y, w, h], where it is drawn
          Box,         \* [x, y, w, h], the viewBox
          MaxGroups,   \* groups that are remembered (64 in the code)
          CurveSteps   \* points of a curve (8 in the code)

ASSUME SvgAssumption ==
  View.w > 0 /\ View.h > 0 /\ Box.w > 0 /\ Box.h > 0 /\ MaxGroups \in Nat /\ CurveSteps \in Nat \ {0}

VARIABLES drawing,
          current,    \* the element that is drawn
          matrix,     \* a, b, cc, d, e, f
          saved,      \* saved_a and so on, saved_blend
          overlay,    \* blend_overlay
          path,       \* the path under way
          figure       \* the last one: its contours, and the pixels it filled and stroked

svgvars == <<drawing, current, matrix, saved, overlay, path, figure>>

Identity == <<1, 0, 0, 1, 0, 0>>
NoPath == [item |-> 0]
NoShape == [kind |-> "none", contours |-> <<>>, even_odd |-> FALSE, filled |-> {}, middle |-> {}, width |-> 1]

SvgInit ==
  /\ drawing \in Drawings /\ current = 1 /\ matrix = Identity /\ saved = <<>> /\ overlay = FALSE
  /\ path = NoPath /\ figure = NoShape

-----------------------------------------------------------------------------
(* Transforms *)

\* What one of a list means; with the wrong number of values, nothing.
Primitive(t) ==
  LET v == t.values IN
  IF t.kind = "matrix" /\ Len(v) = 6 THEN v
  ELSE IF t.kind = "translate" /\ v # <<>> THEN <<1, 0, 0, 1, v[1], IF Len(v) > 1 THEN v[2] ELSE 0>>
  ELSE IF t.kind = "scale" /\ v # <<>> THEN <<v[1], 0, 0, IF Len(v) > 1 THEN v[2] ELSE v[1], 0, 0>>
  ELSE Identity

Times(m, l) ==
  << m[1] * l[1] + m[3] * l[2], m[2] * l[1] + m[4] * l[2],
     m[1] * l[3] + m[3] * l[4], m[2] * l[3] + m[4] * l[4],
     m[1] * l[5] + m[3] * l[6] + m[5], m[2] * l[5] + m[4] * l[6] + m[6] >>

ParseTransform(m, list) == FoldLeft(LAMBDA r, t : Times(r, Primitive(t)), m, list)

Magnitude(n) == IF n < 0 THEN -n ELSE n

\* Division as in C, towards zero.
Quotient(a, b) ==
  LET n == IF b < 0 THEN -a ELSE a
      d == IF b < 0 THEN -b ELSE b
  IN  IF n >= 0 THEN n \div d ELSE -((-n) \div d)

\* svg_transform_point, of a point in fractions of n.
TransformPoint(m, p, n) ==
  << View.x + Quotient((m[1] * p[1] + m[3] * p[2] + n * (m[5] - Box.x)) * View.w, n * Box.w),
     View.y + Quotient((m[2] * p[1] + m[4] * p[2] + n * (m[6] - Box.y)) * View.h, n * Box.h) >>

\* svg_x, svg_y, svg_lenx and svg_leny, which do not turn or slant.
OnX(m, v) == View.x + Quotient((v * m[1] + m[5] - Box.x) * View.w, Box.w)
OnY(m, v) == View.y + Quotient((v * m[4] + m[6] - Box.y) * View.h, Box.h)
LenX(m, v) == Quotient(v * m[1] * View.w, Box.w)
LenY(m, v) == Quotient(v * m[4] * View.h, Box.h)

\* svg_stroke_width: by the mean of both scales, to the nearest pixel.
StrokeWidth(m, width) ==
  LET twice == width * ((Magnitude(m[1]) + Magnitude(m[2])) * View.w * Box.h + (Magnitude(m[3]) + Magnitude(m[4])) * View.h * Box.w)
      one == 2 * Box.w * Box.h
  IN  IF twice < one THEN 1 ELSE IF twice > 32 * one THEN 32 ELSE (2 * twice + one) \div (2 * one)

-----------------------------------------------------------------------------
(* Filling and stroking.  A contour is a sequence of points on the screen; *)
(* an edge goes from the point before to a point.                          *)

Rows == View.y..(View.y + View.h - 1)
Columns == View.x..(View.x + View.w - 1)

Edges(contours) ==
  UNION {LET c == contours[n] IN
         {[id |-> <<n, k>>, p |-> c[IF k = 1 THEN Len(c) ELSE k - 1], q |-> c[k]] : k \in DOMAIN c}
         : n \in {n \in DOMAIN contours : Len(contours[n]) > 2}}

Crossing(edges, y) == {e \in edges : (e.p[2] > y) # (e.q[2] > y)}
Crosses(from, to, y) == from[1] + Quotient((y - from[2]) * (to[1] - from[1]), to[2] - from[2])
Downwards(edges) == Cardinality({e \in edges : e.q[2] > e.p[2]})
Winding(edges) == Downwards(edges) - Cardinality(edges \ {e \in edges : e.q[2] > e.p[2]})

\* svg_fill_path_contours: up to, not with, the crossing at which it ends.
FillContours(contours, even_odd) ==
  LET edges == Edges(contours)
      left(x, y) == {e \in Crossing(edges, y) : Crosses(e.p, e.q, y) <= x}
  IN  {pixel \in Columns \X Rows :
         LET crossed == left(pixel[1], pixel[2]) IN
         IF even_odd THEN Cardinality(crossed) % 2 = 1 ELSE Winding(crossed) # 0}

\* svg_fill_polygon: from every other crossing to the next, both with it, and
\* up to the first column on the right of the view.
FillPolygon(c) ==
  LET edges == Edges(<<c>>)
      left(x, y) == Cardinality({e \in Crossing(edges, y) : Crosses(e.q, e.p, y) <= x})
  IN  {pixel \in (View.x..(View.x + View.w)) \X Rows :
         \E n \in left(pixel[1] - 1, pixel[2])..left(pixel[1], pixel[2]) : n % 2 = 1}

\* svg_line_width: the points its middle goes through, from p on with error e.
RECURSIVE LineFrom(_, _, _, _, _)
LineFrom(p, q, dx, dy, e) ==
  LET across == 2 * e >= dy
      down == 2 * e <= dx
  IN  {p} \cup (IF p = q THEN {} ELSE
        LineFrom(<<IF across THEN p[1] + (IF p[1] < q[1] THEN 1 ELSE -1) ELSE p[1],
                   IF down THEN p[2] + (IF p[2] < q[2] THEN 1 ELSE -1) ELSE p[2]>>, q, dx, dy,
                 e + (IF across THEN dy ELSE 0) + (IF down THEN dx ELSE 0)))

Line(p, q) ==
  LET dx == Magnitude(q[1] - p[1])
      dy == -Magnitude(q[2] - p[2])
  IN  LineFrom(p, q, dx, dy, dx + dy)

\* svg_draw_path_contour: the segments of a contour.
Segments(c, closed) ==
  {<<c[k - 1], c[k]>> : k \in 2..Len(c)} \cup
  (IF closed /\ Len(c) > 1 THEN {<<c[Len(c)], c[1]>>} ELSE {})

-----------------------------------------------------------------------------
(* A path: svg_render_path.  A command has a letter, or none when its      *)
(* numbers follow those of the one before.                                 *)

Needed == [M |-> 2, L |-> 2, H |-> 1, V |-> 1, C |-> 6, S |-> 4, Q |-> 4, T |-> 2, A |-> 7, Z |-> 0]

\* A point for every character and one.  The shortest text has the letter or a
\* space, and a digit, for each number.
TextLength(commands) == FoldLeft(LAMBDA n, c : n + Max({1, 2 * Len(c.v)}), 0, commands)
PointCapacity(commands) == TextLength(commands) + 1

NewPath == [outer |-> matrix, item |-> 1, command |-> "", rel |-> FALSE, previous |-> "",
            at |-> <<0, 0>>, from |-> <<0, 0>>, cubic |-> <<0, 0>>, quad |-> <<0, 0>>,
            moved |-> FALSE, points |-> <<>>, contour_start |-> 0, contours |-> <<>>]

Commands == drawing[current].path

AddPoints(p, more) ==
  LET all == p.points \o more IN
  [p EXCEPT !.points = SubSeq(all, 1, Min({Len(all), PointCapacity(Commands)}))]

EndContour(p, closed) ==
  IF Len(p.points) > p.contour_start
    THEN [p EXCEPT !.contours = Append(@, [points |-> SubSeq(p.points, p.contour_start + 1, Len(p.points)),
                                           closed |-> closed]),
                   !.contour_start = Len(p.points)]
    ELSE p

Offset(p, x, y) == IF p.rel THEN <<p.at[1] + x, p.at[2] + y>> ELSE <<x, y>>
Mirrored(a, p) == <<2 * a[1] - p[1], 2 * a[2] - p[2]>>
One == CurveSteps * CurveSteps * CurveSteps
OnScreen(p) == TransformPoint(matrix, p, 1)

\* The points of a curve, at t = k / CurveSteps.
Bezier3(a, b, c, d) ==
  [k \in 1..CurveSteps |->
     LET u == CurveSteps - k
         mix(n) == u * u * u * a[n] + 3 * u * u * k * b[n] + 3 * u * k * k * c[n] + k * k * k * d[n]
     IN  TransformPoint(matrix, <<mix(1), mix(2)>>, One)]
Bezier2(a, b, c) ==
  [k \in 1..CurveSteps |->
     LET u == CurveSteps - k
         mix(n) == CurveSteps * (u * u * a[n] + 2 * u * k * b[n] + k * k * c[n])
     IN  TransformPoint(matrix, <<mix(1), mix(2)>>, One)]

MoveTo(p, v) ==
  LET at == Offset(p, v[1], v[2]) IN
  [AddPoints(EndContour(p, FALSE), <<OnScreen(at)>>)
     EXCEPT !.at = at, !.from = at, !.moved = TRUE, !.command = "L", !.previous = "M"]

CurveTo(p, v) ==
  LET smooth == p.command = "S"
      c1 == IF ~smooth THEN Offset(p, v[1], v[2])
            ELSE IF p.previous \in {"C", "S"} THEN Mirrored(p.at, p.cubic) ELSE p.at
      k == IF smooth THEN 0 ELSE 2
      c2 == Offset(p, v[k + 1], v[k + 2])
      end == Offset(p, v[k + 3], v[k + 4])
  IN  [AddPoints(p, Bezier3(p.at, c1, c2, end)) EXCEPT !.at = end, !.cubic = c2]

QuadTo(p, v) ==
  LET smooth == p.command = "T"
      c1 == IF ~smooth THEN Offset(p, v[1], v[2])
            ELSE IF p.previous \in {"Q", "T"} THEN Mirrored(p.at, p.quad) ELSE p.at
      k == IF smooth THEN 0 ELSE 2
      end == Offset(p, v[k + 1], v[k + 2])
  IN  [AddPoints(p, Bezier2(p.at, c1, end)) EXCEPT !.at = end, !.quad = c1]

\* Also an arc is a line.
LineTo(p, v) ==
  LET x == IF p.rel THEN p.at[1] ELSE 0
      y == IF p.rel THEN p.at[2] ELSE 0
      end == CASE p.command = "L" -> <<x + v[1], y + v[2]>>
               [] p.command = "H" -> <<x + v[1], p.at[2]>>
               [] p.command = "V" -> <<p.at[1], y + v[1]>>
               [] p.command = "A" -> <<x + v[6], y + v[7]>>
  IN  [AddPoints(p, <<OnScreen(end)>>) EXCEPT !.at = end]

CloseKeepingPen(p) == [EndContour(p, TRUE) EXCEPT !.previous = "Z", !.command = ""]
Close(p) == [EndContour(p, TRUE) EXCEPT !.at = p.from, !.previous = "Z", !.command = ""]

\* One command.  A number that is missing ends the path, unless a letter follows.
PathCommand(p, c) ==
  LET q == [IF c.letter = "" THEN p ELSE [p EXCEPT !.command = c.letter, !.rel = c.rel]
              EXCEPT !.item = @ + 1]
      over == [q EXCEPT !.item = Len(Commands) + 1]
      begun == IF q.moved THEN q ELSE [q EXCEPT !.from = q.at, !.moved = TRUE]
      drawn == IF q.command \in {"C", "S"} THEN CurveTo(begun, c.v)
               ELSE IF q.command \in {"Q", "T"} THEN QuadTo(begun, c.v) ELSE LineTo(begun, c.v)
  IN  IF q.command = "" THEN over
      ELSE IF q.command = "Z" THEN Close(q)
      ELSE IF Len(c.v) < Needed[q.command] THEN (IF c.v = <<>> THEN [q EXCEPT !.command = ""] ELSE over)
      ELSE IF q.command = "M" THEN MoveTo(q, c.v)
      ELSE [drawn EXCEPT !.previous = q.command]

-----------------------------------------------------------------------------
(* Colours: red, green and blue, and how much of them.  A paint is unset,   *)
(* "none", a name with its channels, or the digits behind a "#".            *)

\* Bytes of a number; "f00" stands for "ff0000".
HexColor(digits) ==
  LET v == FoldLeft(LAMBDA n, d : 16 * n + d, 0, digits)
      half(n) == ((v \div 16 ^ n) % 16) * 17
      byte(n) == (v \div 256 ^ n) % 256
  IN  IF Len(digits) = 3 THEN <<half(2), half(1), half(0)>> ELSE <<byte(2), byte(1), byte(0)>>

Clear == [rgb |-> <<0, 0, 0>>, alpha |-> 0]

\* Opacities in percent; their product is cut to what a byte holds.
Alpha(opacity, own) ==
  (Min({10000, Max({0, (IF opacity = {} THEN 100 ELSE Max(opacity)) * (IF own = {} THEN 100 ELSE Max(own))})}) * 255)
    \div 10000

\* svg_fill_color ("fill") and svg_stroke_color: a paint that is set is
\* overridden by that of an icon, a "none" is not.
Paint(which, paint, override, opacity, own) ==
  LET rgb == CASE override # {} -> Max(override)
               [] override = {} /\ paint.kind = "hex" -> HexColor(paint.digits)
               [] override = {} /\ paint.kind = "name" -> paint.rgb
               [] OTHER -> <<0, 0, 0>>
  IN  IF paint.kind = "none" \/ (paint.kind = "unset" /\ which # "fill") THEN Clear
      ELSE [rgb |-> rgb, alpha |-> Alpha(opacity, own)]

\* svg_put_pixel, a channel.
Overlaid(s, b) ==
  IF b <= 127 THEN (2 * b * s + 127) \div 255 ELSE 255 - ((2 * (255 - b) * (255 - s) + 127) \div 255)
Mixed(s, b, alpha) == (s * alpha + b * (255 - alpha)) \div 255
PutChannel(s, b, alpha, blend) ==
  LET c == IF blend THEN Overlaid(s, b) ELSE s IN
  IF alpha = 0 THEN b ELSE IF alpha < 255 THEN Mixed(c, b, alpha) ELSE c

-----------------------------------------------------------------------------
(* svg_draw_tree: one element after the other *)

Supported == {"svg", "g", "rect", "circle", "line", "polygon", "polyline", "path"}
Starts(k) == drawing[k].type = "start"

\* The end of the element that starts at k.
Closing(k) ==
  LET open(n) == Cardinality({j \in k..n : Starts(j)}) - Cardinality({j \in k..n : ~Starts(j)}) IN
  Min({n \in k..Len(drawing) : open(n) = 0})

Here == drawing[current]
Drawing == current <= Len(drawing) /\ path = NoPath

SkipElement ==
  /\ Drawing /\ Starts(current) /\ Here.name \notin Supported /\ current' = Closing(current) + 1
  /\ UNCHANGED <<drawing, matrix, saved, overlay, path, figure>>

EnterGroup ==
  /\ Drawing /\ Starts(current) /\ Here.name = "g" /\ Len(saved) < MaxGroups
  /\ saved' = Append(saved, [matrix |-> matrix, overlay |-> overlay])
  /\ matrix' = ParseTransform(matrix, Here.transform)
  /\ overlay' = (overlay \/ Here.overlay)
  /\ current' = current + 1 /\ UNCHANGED <<drawing, path, figure>>

LeaveGroup ==
  /\ Drawing /\ ~Starts(current) /\ Here.name = "g" /\ saved # <<>>
  /\ matrix' = Last(saved).matrix /\ overlay' = Last(saved).overlay /\ saved' = Front(saved)
  /\ current' = current + 1 /\ UNCHANGED <<drawing, path, figure>>

\* Other ends, and elements with nothing to draw; groups too many are these.
PassElement ==
  /\ Drawing
  /\ \/ ~Starts(current) /\ (Here.name # "g" \/ saved = <<>>)
     \/ Starts(current) /\ Here.name = "svg"
     \/ Starts(current) /\ Here.name = "g" /\ Len(saved) >= MaxGroups
  /\ current' = current + 1 /\ UNCHANGED <<drawing, matrix, saved, overlay, path, figure>>

Stroked(contours) ==
  UNION {Line(s[1], s[2]) : s \in UNION {Segments(contours[n].points, contours[n].closed) : n \in DOMAIN contours}}

\* svg_render_tag, but paths and images.
RenderTag(m, e) ==
  LET c == [k \in DOMAIN e.path |-> TransformPoint(m, e.path[k].v, 1)]
      x == OnX(m, e.path[1].v[1])
      y == OnY(m, e.path[1].v[2])
      w == LenX(m, e.path[2].v[1])
      h == LenY(m, e.path[2].v[2])
      corners == <<<<x, y>>, <<x + w, y>>, <<x + w, y + h>>, <<x, y + h>>>>
      ends == <<<<x, y>>, <<OnX(m, e.path[2].v[1]), OnY(m, e.path[2].v[2])>>>>
      drawn(outline, filled, width) ==
        [NoShape EXCEPT !.kind = e.name, !.contours = <<outline>>, !.filled = filled,
                        !.middle = Stroked(<<outline>>), !.width = width, !.even_odd = TRUE]
      outline(points, closed) == [points |-> points, closed |-> closed]
  IN  CASE e.name = "rect" ->
             drawn(outline(corners, TRUE), (x..(x + w - 1)) \X (y..(y + h - 1)), 1)
        [] e.name = "circle" ->
             [drawn(outline(<<<<x, y>>>>, TRUE), {}, 1) EXCEPT !.contours = Append(@, <<w, h>>)]
        [] e.name = "line" -> drawn(outline(ends, FALSE), {}, 1)
        [] e.name = "polygon" /\ Len(c) > 2 ->
             drawn(outline(c, TRUE), FillPolygon(c), StrokeWidth(m, e.stroke))
        [] e.name \in {"polygon", "polyline"} /\ ~(e.name = "polygon" /\ Len(c) > 2) ->
             IF Len(c) > 1 THEN drawn(outline(c, FALSE), {}, StrokeWidth(m, e.stroke)) ELSE NoShape

\* The transform of the element holds for it only.
DrawElement ==
  /\ Drawing /\ Starts(current) /\ Here.name \in Supported \ {"svg", "g", "path"}
  /\ figure' = RenderTag(ParseTransform(matrix, Here.transform), Here)
  /\ current' = current + 1 /\ UNCHANGED <<drawing, matrix, saved, overlay, path>>

\* That of a path is taken back at its end.
BeginPath ==
  /\ Drawing /\ Starts(current) /\ Here.name = "path"
  /\ path' = NewPath
  /\ matrix' = ParseTransform(matrix, Here.transform)
  /\ UNCHANGED <<drawing, current, saved, overlay, figure>>

DrawCommand ==
  /\ path # NoPath /\ path.item <= Len(Commands) /\ path' = PathCommand(path, Commands[path.item])
  /\ UNCHANGED <<drawing, current, matrix, saved, overlay, figure>>

EndPath ==
  /\ path # NoPath /\ path.item > Len(Commands)
  /\ LET contours == EndContour(path, FALSE).contours
         drawn == [n \in DOMAIN contours |-> contours[n].points]
     IN  figure' = [kind |-> "path", contours |-> contours, even_odd |-> Here.even_odd,
                   filled |-> FillContours(drawn, Here.even_odd), middle |-> Stroked(contours),
                   width |-> StrokeWidth(matrix, Here.stroke)]
  /\ matrix' = path.outer /\ path' = NoPath /\ current' = current + 1
  /\ UNCHANGED <<drawing, saved, overlay>>

SvgNext ==
  SkipElement \/ EnterGroup \/ LeaveGroup \/ PassElement \/ DrawElement
    \/ BeginPath \/ DrawCommand \/ EndPath

-----------------------------------------------------------------------------
(* Properties *)

\* Where a point comes to when transforms are applied to it one by one, from
\* the last to the first.
Applied(list, p) ==
  FoldRight(LAMBDA t, r : LET v == Primitive(t) IN
              <<v[1] * r[1] + v[3] * r[2] + v[5], v[2] * r[1] + v[4] * r[2] + v[6]>>, list, p)

OpenGroups(n) == {k \in 1..(n - 1) : Starts(k) /\ drawing[k].name = "g" /\ Closing(k) >= n}
Skipped(n) == \E k \in 1..n : Starts(k) /\ drawing[k].name \notin Supported /\ Closing(k) >= n
Nested == FoldLeft(LAMBDA list, k : IF k \in OpenGroups(current) THEN list \o drawing[k].transform ELSE list,
                   <<>>, [k \in 1..(current - 1) |-> k])

\* The transform in force is that of the groups that are open, and of the path
\* under way, however groups were nested and closed before; elements of
\* unknown kinds are left out with all they hold.  (A "g" deeper than
\* MaxGroups is not remembered, and its end takes back the transform of
\* another one, svg.h:979.)
TransformHolds ==
  current <= Len(drawing) /\ (\A n \in 1..current : Cardinality(OpenGroups(n)) <= MaxGroups) =>
    /\ \A p \in {<<0, 0>>, <<1, 0>>, <<0, 1>>} :
         <<matrix[1] * p[1] + matrix[3] * p[2] + matrix[5], matrix[2] * p[1] + matrix[4] * p[2] + matrix[6]>>
           = Applied(Nested \o (IF path = NoPath THEN <<>> ELSE Here.transform), p)
    /\ overlay = \E k \in OpenGroups(current) : drawing[k].overlay
    /\ Skipped(current) => path = NoPath /\ Starts(current) /\ Here.name \notin Supported

\* The command in force at the k-th, and how many points it draws.
Effective(k) ==
  LET j == Max({0} \cup {n \in 1..k : Commands[n].letter # ""}) IN
  IF j = 0 \/ (j < k /\ Commands[j].letter = "Z") THEN ""
  ELSE IF j < k /\ Commands[j].letter = "M" THEN "L" ELSE Commands[j].letter
Drawn(k) ==
  CASE Effective(k) \in {"C", "S", "Q", "T"} /\ Len(Commands[k].v) = Needed[Effective(k)] -> CurveSteps
    [] Effective(k) \in {"M", "L", "H", "V", "A"} /\ Len(Commands[k].v) = Needed[Effective(k)] -> 1
    [] OTHER -> 0
Before(k) == [n \in 1..(k - 1) |-> Drawn(n)]

\* The arrays of a path are large enough, so that no point is lost but after a
\* smooth quadratic curve, which may be shorter than its points (svg.h:683);
\* its contours hold all points once and in order; the pen is where the last
\* point is, and back at the start of a contour that was closed.
ContoursAreSound ==
  path # NoPath /\ path.item <= Len(Commands) =>
    LET pieces == [n \in DOMAIN path.contours |-> path.contours[n].points]
        k == path.item
    IN  /\ Len(path.points) <= PointCapacity(Commands)
        /\ FlattenSeq(pieces) \o SubSeq(path.points, path.contour_start + 1, Len(path.points)) = path.points
        /\ (\A n \in 1..k : Effective(n) # "T") =>
             /\ Len(path.points) = FoldLeft(+, 0, Before(k))
             /\ k > 1 /\ Drawn(k - 1) > 0 => Last(path.points) = OnScreen(path.at)
             /\ k > 1 /\ Effective(k - 1) = "Z" /\ (\E n \in 1..(k - 2) :
                   Effective(n) = "M" /\ \A j \in n..(k - 2) : Effective(j) # "Z") =>
                     OnScreen(path.at) = Last(pieces)[1]

\* Whether the crossing of e is at most x, and whether it is within a pixel.
LeftOf(e, x, y) ==
  LET run == (y - e.p[2]) * (e.q[1] - e.p[1]) + e.p[1] * (e.q[2] - e.p[2])
      rise == e.q[2] - e.p[2]
  IN  IF rise > 0 THEN run <= x * rise ELSE run >= x * rise
Near(e, x, y) == LeftOf(e, x + 1, y) /\ ~LeftOf(e, x - 1, y)

\* Pixels more than one away from all edges are filled if they are inside:
\* where the contours wind around them, or do so an odd number of times.
FillIsNear ==
  figure.kind \in {"path", "polygon"} =>
    LET edges == Edges([n \in DOMAIN figure.contours |-> figure.contours[n].points]) IN
    \A x \in Columns : \A y \in Rows :
      LET crossing == {e \in edges : (e.p[2] > y) # (e.q[2] > y)}
          crossed == {e \in crossing : LeftOf(e, x, y)}
          down == Cardinality({e \in crossed : e.q[2] > e.p[2]})
      IN  (\E e \in crossing : Near(e, x, y)) \/
            (<<x, y>> \in figure.filled <=>
               IF figure.even_odd THEN Cardinality(crossed) % 2 = 1 ELSE 2 * down # Cardinality(crossed))

\* A line goes from one end to the other and stays within half a pixel of the
\* straight one; its width is one the code bounds.
StrokeIsNear ==
  /\ figure.width \in 1..32
  /\ figure.kind \notin {"none", "circle"} =>
       \A n \in DOMAIN figure.contours :
         \A s \in Segments(figure.contours[n].points, figure.contours[n].closed) :
           LET dx == s[2][1] - s[1][1]
               dy == s[2][2] - s[1][2]
               line == Line(s[1], s[2])
           IN  /\ {s[1], s[2]} \subseteq line /\ Cardinality(line) = 1 + Max({Magnitude(dx), Magnitude(dy)})
               /\ \A p \in line : 2 * Magnitude((p[1] - s[1][1]) * dy - (p[2] - s[1][2]) * dx) <= Max({Magnitude(dx), Magnitude(dy)})

\* A rectangle ends within a pixel of where its corner is: neighbours overlap,
\* or are apart, by no more.
RectIsNear ==
  current > 1 /\ Starts(current - 1) /\ drawing[current - 1].name = "rect" =>
    LET m == ParseTransform(matrix, drawing[current - 1].transform)
        v == drawing[current - 1].path[1].v
        corner == <<v[1] + drawing[current - 1].path[2].v[1], v[2] + drawing[current - 1].path[2].v[2]>>
        drawn == figure.contours[1].points[3]
    IN  m[2] = 0 /\ m[3] = 0 =>
          \A axis \in 1..2 : Magnitude(drawn[axis] - TransformPoint(m, corner, 1)[axis]) <= 1

ChannelValues == {0, 1, 100, 127, 128, 200, 254, 255}
Digits == {0, 1, 8, 15}

\* Blending stays within a byte, so that no channel spills into its
\* neighbour, leaves a pixel between what was and what is drawn, and turns
\* black and white at both ends; short colours are the long ones.
ColorsAreRight ==
  current = 2 /\ path = NoPath =>
    /\ \A s \in ChannelValues : \A b \in ChannelValues : \A alpha \in ChannelValues :
         LET plain == PutChannel(s, b, alpha, FALSE)
             mixed == PutChannel(s, b, alpha, TRUE)
         IN  /\ plain \in Min({s, b})..Max({s, b}) /\ mixed \in 0..255
             /\ alpha = 255 /\ b \in {0, 255} => mixed = b
             /\ alpha = 255 => PutChannel(255 - s, 255 - b, 255, TRUE) - (255 - mixed) \in -1..1
    /\ \A r \in Digits : \A g \in Digits : \A b \in Digits : \A opacity \in {{}, {0}, {50}, {100}, {250}} :
         LET rgb == HexColor(<<r, r, g, g, b, b>>)
             paint == Paint("fill", [kind |-> "hex", digits |-> <<r, g, b>>], {}, opacity, {40})
         IN  rgb[1] = 17 * r /\ rgb[3] = 17 * b /\ paint.rgb = rgb /\ paint.alpha \in 0..255

SvgIsRight == TransformHolds /\ ContoursAreSound /\ FillIsNear /\ StrokeIsNear /\ RectIsNear /\ ColorsAreRight
=============================================================================
