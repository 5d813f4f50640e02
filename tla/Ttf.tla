-------------------------------- MODULE Ttf ---------------------------------
(***************************************************************************)
(* Drawing the character of a TrueType font                                *)
(* (compiler/sdk/lib/app/parsing/ttf.h): its tables are found, its glyph   *)
(* is looked up, glyphs that are made of others are taken apart, and       *)
(* outlines are unpacked, turned into edges and sampled 16 times a pixel.  *)
(*                                                                         *)
(* A font has a directory, a character map as 16-bit words, where in the   *)
(* table of glyphs each begins (and the last one ends), and for each glyph *)
(* its components, or its contours and instructions and the bytes behind   *)
(* them.  Numbers of 32 bits wrap around at Wrap.                          *)
(***************************************************************************)
EXTENDS Integers, SequencesExt

CONSTANTS Fonts, Characters,
          Wrap,            \* 2 ^ 32
          GlyphScale,      \* pixels of an em, both ways
          MaxGlyphDepth,   \* 16
          MaxComponents,   \* 32
          MaxPoints,       \* 256
          MaxEdges         \* 1024

ASSUME TtfAssumption == GlyphScale > 0 /\ {MaxGlyphDepth, MaxComponents, MaxPoints, MaxEdges} \subseteq Nat

VARIABLES font, character,
          phase,    \* "parse", "lookup", "render", "done", "refused" or "faulted"
          glyph,    \* that of the character
          stack,    \* glyphs being drawn, the innermost last
          drawn,    \* outlines drawn: glyph, place and scale
          stray     \* points that no glyph has were read as an outline's

ttfvars == <<font, character, phase, glyph, stack, drawn, stray>>

TtfInit ==
  /\ font \in Fonts /\ character \in Characters
  /\ phase = "parse" /\ glyph = 0 /\ stack = <<>> /\ drawn = <<>> /\ stray = FALSE

Toward0(a, b) ==
  LET n == IF a < 0 THEN -a ELSE a
      d == IF b < 0 THEN -b ELSE b
  IN  IF (a < 0) = (b < 0) THEN n \div d ELSE -(n \div d)

Signed16(w) == IF w >= 32768 THEN w - 65536 ELSE w

-----------------------------------------------------------------------------
(* ttf_parse *)

RangeBySum(at, n, size) == (at + n) % Wrap <= size
Range32(at, n, size) == at <= size /\ n <= size - at

\* The place of a table; 0 if it is missing, or the first of its name is not
\* all there.
Table(f, tag) ==
  LET found == {k \in DOMAIN f.directory : f.directory[k].tag = tag}
      t == f.directory[Min(found)]
  IN  IF f.version # 65536 \/ ~Range32(12, 16 * Len(f.directory), f.size) \/ found = {} THEN 0
      ELSE IF Range32(t.at, t.length, f.size) THEN t.at ELSE 0

\* The first map in the format that is supported.
Cmap(f) ==
  LET at(k) == (Table(f, "cmap") + f.maps[k].offset) % Wrap
      usable == {k \in DOMAIN f.maps :
                   /\ f.maps[k].platform = 0 \/ (f.maps[k].platform = 3 /\ f.maps[k].encoding \in {1, 10})
                   /\ Range32(at(k), 2, f.size) /\ f.maps[k].format = 4}
  IN  IF usable = {} THEN 0 ELSE at(Min(usable))

Parsed(f) ==
  /\ f.size >= 12
  /\ \A tag \in {"head", "hhea", "hmtx", "maxp", "loca", "glyf", "cmap"} : Table(f, tag) # 0
  /\ Range32(Table(f, "head"), 54, f.size) /\ Range32(Table(f, "hhea"), 36, f.size)
  /\ Range32(Table(f, "maxp"), 6, f.size)
  /\ f.units_per_em # 0 /\ f.num_glyphs # 0 /\ f.num_hmetrics \in 1..f.num_glyphs
  /\ f.index_to_loc_format \in {0, 1}
  /\ Range32(Table(f, "cmap"), 4 + 8 * Len(f.maps), f.size)
  /\ Cmap(f) # 0

-----------------------------------------------------------------------------
(* ttf_glyph_for_codepoint: words of the map from word 7 on are the ends of *)
(* its segments, a word that is not used, their starts, their deltas, and   *)
(* where from here their glyphs are, if not 0.                              *)

GlyphForCodepoint(f, cp) ==
  LET word(n) == f.words[n + 1]
      segs == word(3) \div 2
      there == {k \in 0..(segs - 1) : cp <= word(7 + k)}
      k == Min(there)
      start == word(8 + segs + k)
      delta == word(8 + 2 * segs + k)
      ro == word(8 + 3 * segs + k)
      at == 8 + 3 * segs + k + ro \div 2 + cp - start
  IN  IF cp > 65535 \/ Len(f.words) < 8 + 4 * segs \/ there = {} THEN 0
      ELSE IF cp < start THEN 0
      ELSE IF ro = 0 THEN (cp + Signed16(delta)) % 65536
      ELSE IF at >= Len(f.words) THEN 0
      ELSE IF word(at) = 0 THEN 0 ELSE (word(at) + Signed16(delta)) % 65536

\* ttf_glyph_advance: glyphs behind the last width have that one.
GlyphAdvance(f, g) ==
  LET index == IF g < f.num_hmetrics THEN g ELSE f.num_hmetrics - 1 IN
  IF g >= f.num_glyphs \/ ~Range32(Table(f, "hmtx") + 4 * index, 2, f.size) THEN 0 ELSE f.widths[index + 1]

-----------------------------------------------------------------------------
(* Where the bytes of a glyph are, and how many; 0 if they are not all in   *)
(* the file, or there is none.                                              *)

LocaEntry(f) == IF f.index_to_loc_format = 0 THEN 2 ELSE 4
GlyphPlace(f, g) == (Table(f, "glyf") + f.locas[g + 1]) % Wrap
GlyphSize(f, g) ==
  LET size == f.locas[g + 2] - f.locas[g + 1] IN
  IF /\ Range32((Table(f, "loca") + g * LocaEntry(f)) % Wrap, 2 * LocaEntry(f), f.size)
     /\ size > 0 /\ Range32(GlyphPlace(f, g), size, f.size)
  THEN size ELSE 0

-----------------------------------------------------------------------------
(* An outline: the last point of each contour as the file has it, the       *)
(* length of its instructions, and bytes.  A flag has the bits on-curve 1,  *)
(* short x 2, short y 4, repeat 8, same x 16, same y 32.                    *)

Has(flag, bit) == (flag \div bit) % 2 = 1
NoOutline == [at |-> 0, flags |-> <<>>]

RECURSIVE Flags(_, _, _)
Flags(data, s, total) ==
  LET f == data[s.at]
      n == Min({data[s.at + 1], total - Len(s.flags) - 1})
  IN  IF Len(s.flags) = total THEN s
      ELSE IF s.at > Len(data) THEN NoOutline
      ELSE IF ~Has(f, 8) THEN Flags(data, [at |-> s.at + 1, flags |-> Append(s.flags, f)], total)
      ELSE IF s.at + 1 > Len(data) THEN NoOutline
      ELSE Flags(data, [at |-> s.at + 2, flags |-> s.flags \o [k \in 1..(n + 1) |-> f]], total)

\* One coordinate of each point, from s.at on; s.at = 0 where data ends early.
Coordinates(data, at, flags, short, same) ==
  FoldLeft(LAMBDA s, f :
             LET size == IF Has(f, short) THEN 1 ELSE IF Has(f, same) THEN 0 ELSE 2
                 delta == CASE size = 0 -> 0
                            [] size = 1 -> IF Has(f, same) THEN data[s.at] ELSE -data[s.at]
                            [] size = 2 -> Signed16(256 * data[s.at] + data[s.at + 1])
             IN  IF s.at = 0 \/ s.at + size > Len(data) + 1 THEN [s EXCEPT !.at = 0]
                 ELSE [at |-> s.at + size, last |-> s.last + delta, out |-> Append(s.out, s.last + delta)],
           [at |-> at, last |-> 0, out |-> <<>>], flags)

\* The points of a glyph of size bytes, or none if something is missing or
\* they are too many.
Points(outline, size) ==
  LET total == (Last(outline.ends) + 1) % 65536
      at == 12 + 2 * Len(outline.ends) + outline.ins
      data == SubSeq(outline.data, 1, Min({Len(outline.data), size - at}))
      f == Flags(data, [at |-> 1, flags |-> <<>>], total)
      x == Coordinates(data, f.at, f.flags, 2, 16)
      y == Coordinates(data, x.at, f.flags, 4, 32)
  IN  IF \/ Len(outline.ends) \notin 1..64 \/ total \notin 1..MaxPoints \/ ~Range32(at, 0, size)
         \/ f.at = 0 \/ x.at = 0 \/ y.at = 0
      THEN <<>>
      ELSE [k \in 1..total |-> [at |-> <<x.out[k], y.out[k]>>, on |-> Has(f.flags[k], 1)]]

Between(p, q) == <<Toward0(p[1] + q[1], 2), Toward0(p[2] + q[2], 2)>>

\* The points of a curve from a to c, with b off it.
Curve(a, b, c) ==
  [t \in 1..8 |-> [n \in 1..2 |->
     Toward0((8 - t) * (8 - t) * a[n] + 2 * (8 - t) * t * b[n] + t * t * c[n], 64)]]

EdgesAlong(from, points) ==
  [k \in DOMAIN points |-> [p |-> IF k = 1 THEN from ELSE points[k - 1], q |-> points[k]]]

\* The edges of a contour from its point k on, coming from cur.
RECURSIVE Along(_, _, _, _)
Along(c, start, k, cur) ==
  LET p == c[k].at
      next == c[IF k = Len(c) THEN 1 ELSE k + 1]
      to == IF next.on THEN next.at ELSE Between(p, next.at)
  IN  IF k > Len(c) THEN IF cur = start THEN <<>> ELSE <<[p |-> cur, q |-> start]>>
      ELSE IF c[k].on
        THEN (IF cur = p THEN <<>> ELSE <<[p |-> cur, q |-> p]>>) \o Along(c, start, k + 1, p)
      ELSE EdgesAlong(cur, Curve(cur, p, to)) \o Along(c, start, IF next.on THEN k + 2 ELSE k + 1, to)

ContourEdges(c) ==
  LET start == IF c[1].on THEN c[1].at ELSE IF Last(c).on THEN Last(c).at ELSE Between(c[1].at, Last(c).at)
  IN  IF c = <<>> THEN <<>> ELSE Along(c, start, 1, start)

\* A contour begins behind the last point of the one before it.  No end is
\* compared with it, nor with the number of points: a count may wrap around.
ContourStarts(ends) == [n \in DOMAIN ends |-> IF n = 1 THEN 0 ELSE (ends[n - 1] + 1) % 65536]
ContourCount(ends, n) == (ends[n] + 1 - ContourStarts(ends)[n]) % 65536
ContoursOf(ends, points) ==
  [n \in DOMAIN ends |->
     SubSeq(points, ContourStarts(ends)[n] + 1, ContourStarts(ends)[n] + ContourCount(ends, n))]

\* The contours have points that were not read.
ReadsAstray(ends, points) ==
  \E n \in DOMAIN ends :
    ContourCount(ends, n) > 0 /\ ContourStarts(ends)[n] + ContourCount(ends, n) > Len(points)

\* Edges that do not fit are left out.
GlyphEdges(outline, points) ==
  LET edges(contours) == FlattenSeq([n \in DOMAIN contours |-> ContourEdges(contours[n])])
      within(all) == SubSeq(all, 1, Min({Len(all), MaxEdges}))
  IN  IF points = <<>> THEN <<>> ELSE within(edges(ContoursOf(outline.ends, points)))

-----------------------------------------------------------------------------
(* Sampling: d is a glyph at d.ox, d.base with the scales d.sx and d.sy.    *)

Sample(n, s, scale) == Toward0((8 * n + 2 * s + 1) * font.units_per_em, 8 * scale)

CrossesAt(e, y) == (e.p[2] <= y /\ e.q[2] > y) \/ (e.q[2] <= y /\ e.p[2] > y)
CrossingX(e, y) == e.p[1] + Toward0((e.q[1] - e.p[1]) * (y - e.p[2]), e.q[2] - e.p[2])
SampleInside(edges, x, y) ==
  LET right == {k \in DOMAIN edges : CrossesAt(edges[k], y) /\ CrossingX(edges[k], y) > x} IN
  2 * Cardinality({k \in right : edges[k].q[2] > edges[k].p[2]}) # Cardinality(right)

SamplesOf(d, px, py) ==
  {<<Sample(px - d.ox, s, d.sx), Sample(d.base - py, r, d.sy), s, r>> : s \in 0..3, r \in 0..3}
Coverage(edges, d, px, py) ==
  LET covered == {q \in SamplesOf(d, px, py) : SampleInside(edges, q[1], q[2])} IN
  (Cardinality(covered) * 255) \div 16

GlyphBox(edges, d) ==
  LET corners == {edges[k].p : k \in DOMAIN edges} \cup {edges[k].q : k \in DOMAIN edges}
      x(v) == d.ox + Toward0(v * d.sx, font.units_per_em)
      y(v) == d.base - Toward0(v * d.sy, font.units_per_em)
  IN  [left |-> x(Min({p[1] : p \in corners})) - 1, right |-> x(Max({p[1] : p \in corners})) + 1,
       top |-> y(Max({p[2] : p \in corners})) - 1, bottom |-> y(Min({p[2] : p \in corners})) + 1]

-----------------------------------------------------------------------------
(* The steps *)

ParseFont ==
  /\ phase = "parse" /\ phase' = IF Parsed(font) THEN "lookup" ELSE "refused"
  /\ UNCHANGED <<font, character, glyph, stack, drawn, stray>>

\* The next component of a glyph, and where in its bytes it is.
Frame(g, ox, base, sx, sy) == [glyph |-> g, next |-> 1, at |-> 10, ox |-> ox, base |-> base, sx |-> sx, sy |-> sy]

LookUp ==
  /\ phase = "lookup" /\ phase' = "render"
  /\ glyph' = GlyphForCodepoint(font, character)
  /\ stack' = <<Frame(glyph', 0, 0, GlyphScale, GlyphScale)>>
  /\ UNCHANGED <<font, character, drawn, stray>>

Top == Last(stack)
GlyphParts == font.components[Top.glyph + 1]

\* ttf_render_glyph_depth returns at once for what it cannot draw.
Undrawable ==
  \/ Top.glyph >= font.num_glyphs \/ Len(stack) > MaxGlyphDepth + 1
  \/ GlyphSize(font, Top.glyph) < 10

RenderNothing ==
  /\ phase = "render" /\ stack # <<>> /\ Undrawable
  /\ stack' = Front(stack) /\ UNCHANGED <<font, character, phase, glyph, drawn, stray>>

AtOutline == phase = "render" /\ stack # <<>> /\ ~Undrawable /\ GlyphParts = <<>>
GlyphOutline == font.outlines[Top.glyph + 1]
GlyphPoints == Points(GlyphOutline, GlyphSize(font, Top.glyph))
OutlineStrays == GlyphPoints # <<>> /\ ReadsAstray(GlyphOutline.ends, GlyphPoints)

RenderOutline ==
  /\ AtOutline /\ ~OutlineStrays
  /\ drawn' = IF GlyphEdges(GlyphOutline, GlyphPoints) = <<>> THEN drawn
              ELSE Append(drawn, [Top EXCEPT !.next = Len(stack)])
  /\ stack' = Front(stack) /\ UNCHANGED <<font, character, phase, glyph, stray>>

\* Points of glyphs drawn earlier, and memory behind the table of points, are
\* taken for the outline's: anything is drawn, or the reading faults.
RenderAstray ==
  /\ AtOutline /\ OutlineStrays
  /\ stray' = TRUE /\ phase' \in {phase, "faulted"}
  /\ drawn' \in {drawn, Append(drawn, [Top EXCEPT !.next = Len(stack)])}
  /\ stack' = Front(stack) /\ UNCHANGED <<font, character, glyph>>

\* A component is placed by the scale of the glyph around it, and scaled by
\* its own.  One that is not all there, or would be mirrored, and one too many
\* end their glyph.
RenderComponent ==
  /\ phase = "render" /\ stack # <<>> /\ ~Undrawable /\ GlyphParts # <<>> /\ Top.next <= Len(GlyphParts)
  /\ LET c == GlyphParts[Top.next]
         sx == Toward0(Top.sx * c.scale[1], 16384)
         sy == Toward0(Top.sy * c.scale[2], 16384)
         rest == [stack EXCEPT ![Len(stack)].next = @ + 1, ![Len(stack)].at = @ + c.size]
     IN  stack' = IF \/ Top.next > MaxComponents \/ sx <= 0 \/ sy <= 0
                     \/ ~Range32(Top.at, c.size, GlyphSize(font, Top.glyph))
                  THEN Front(stack)
                  ELSE Append(rest, Frame(c.glyph, Top.ox + Toward0(c.x * Top.sx, font.units_per_em),
                                          Top.base - Toward0(c.y * Top.sy, font.units_per_em), sx, sy))
  /\ UNCHANGED <<font, character, phase, glyph, drawn, stray>>

EndComponents ==
  /\ phase = "render" /\ stack # <<>> /\ ~Undrawable /\ GlyphParts # <<>> /\ Top.next > Len(GlyphParts)
  /\ stack' = Front(stack) /\ UNCHANGED <<font, character, phase, glyph, drawn, stray>>

EndGlyph ==
  /\ phase = "render" /\ stack = <<>> /\ phase' = "done"
  /\ UNCHANGED <<font, character, glyph, stack, drawn, stray>>

TtfNext ==
  ParseFont \/ LookUp \/ RenderNothing \/ RenderOutline \/ RenderAstray
    \/ RenderComponent \/ EndComponents \/ EndGlyph

-----------------------------------------------------------------------------
(* Properties.  A font also says what its map and outlines stand for: its   *)
(* segments, and the points of each outline.                                *)

\* The tables of a font that is accepted lie in its file, though places and
\* lengths are numbers of 32 bits: what is read from them is there.
TablesAreThere ==
  phase \notin {"parse", "refused"} =>
    \A tag \in {"head", "hhea", "hmtx", "maxp", "loca", "glyf", "cmap"} :
      LET k == Min({k \in DOMAIN font.directory : font.directory[k].tag = tag}) IN
      font.directory[k].at + font.directory[k].length <= font.size

\* The glyph that is looked up is the one the segments give the character.
GlyphIsRight ==
  phase \in {"render", "done"} =>
    LET here == {k \in DOMAIN font.segments : character \in font.segments[k].from..font.segments[k].to}
        s == font.segments[Min(here)]
        g == IF s.glyphs = <<>> THEN character ELSE s.glyphs[character - s.from + 1]
    IN  glyph = IF here = {} \/ (s.glyphs # <<>> /\ g = 0) THEN 0 ELSE (g + s.delta) % 65536

\* The bytes of a glyph that is drawn lie in the file, and the components that
\* were taken from them lie in the glyph, whatever the font says of both.
GlyphsAreThere ==
  phase = "render" =>
    \A k \in DOMAIN stack : k < Len(stack) \/ ~Undrawable =>
      LET g == stack[k].glyph IN
      /\ Table(font, "loca") + (g + 2) * LocaEntry(font) <= font.size
      /\ font.locas[g + 1] + 10 <= font.locas[g + 2]
      /\ GlyphPlace(font, g) + (font.locas[g + 2] - font.locas[g + 1]) <= font.size
      /\ stack[k].at <= font.locas[g + 2] - font.locas[g + 1]

\* Points that were not read are taken for an outline's only where the ends of
\* its contours go back: the code does not compare them.
EndsInOrder(ends) == \A n \in 2..Len(ends) : ends[n - 1] <= ends[n]
StraysOutOfOrder ==
  /\ stray => \E g \in DOMAIN font.outlines : ~EndsInOrder(font.outlines[g].ends)
  /\ phase = "faulted" => stray

\* An outline is unpacked to its points however it was packed, and to none if
\* the glyph ends before any of its bytes.  Its edges go around: as many lead
\* to a point as start there, and points on the curve are among them.
OutlineIsRight ==
  AtOutline /\ ~OutlineStrays => \A edges \in {GlyphEdges(GlyphOutline, GlyphPoints)} :
    LET into(p) == Cardinality({k \in DOMAIN edges : edges[k].q = p})
        from(p) == Cardinality({k \in DOMAIN edges : edges[k].p = p})
        whole == 12 + 2 * Len(GlyphOutline.ends) + GlyphOutline.ins + Len(GlyphOutline.data)
    IN  /\ GlyphPoints = IF GlyphSize(font, Top.glyph) >= whole THEN GlyphOutline.points ELSE <<>>
        /\ \A n \in 0..(whole - 1) : Points(GlyphOutline, n) = <<>>
        /\ Len(edges) < MaxEdges =>
             /\ \A k \in DOMAIN edges : into(edges[k].p) = from(edges[k].p) /\ from(edges[k].q) > 0
             /\ \A k \in DOMAIN GlyphOutline.points : GlyphOutline.points[k].on /\ edges # <<>> => from(GlyphOutline.points[k].at) > 0

\* Every sample that is more than a unit away from all edges counts if the
\* outline winds around it, as told from its left while the code looks to its
\* right.  The box that is sampled has all samples between the outermost points.
InkIsRight ==
  AtOutline /\ ~OutlineStrays => \A edges \in {GlyphEdges(GlyphOutline, GlyphPoints)} :
                                   edges # <<>> /\ Len(edges) < MaxEdges =>
    LET box == GlyphBox(edges, Top)
        At(n, s) == (8 * n + 2 * s + 1) * font.units_per_em
    IN  \A px \in (box.left - 2)..(box.right + 2) : \A py \in (box.top - 2)..(box.bottom + 2) :
          /\ (px \in box.left..box.right /\ py \in box.top..box.bottom)
               \/ \A s \in 0..3 : \A r \in 0..3 :
                    \/ \A k \in DOMAIN edges : At(px - Top.ox, s) > 8 * Top.sx * edges[k].p[1]
                    \/ \A k \in DOMAIN edges : At(px - Top.ox, s) < 8 * Top.sx * edges[k].p[1]
                    \/ \A k \in DOMAIN edges : At(Top.base - py, r) > 8 * Top.sy * edges[k].p[2]
                    \/ \A k \in DOMAIN edges : At(Top.base - py, r) < 8 * Top.sy * edges[k].p[2]
          /\ \A q \in SamplesOf(Top, px, py) :
               LET crossing == {k \in DOMAIN edges : CrossesAt(edges[k], q[2])}
                   left == {k \in crossing : CrossingX(edges[k], q[2]) < q[1]}
                   up == Cardinality({k \in left : edges[k].q[2] > edges[k].p[2]})
               IN  (\E k \in crossing : CrossingX(edges[k], q[2]) \in (q[1] - 1)..(q[1] + 1)) \/
                     (SampleInside(edges, q[1], q[2]) <=> 2 * up # Cardinality(left))

\* A component is drawn within two pixels a level of where the components
\* around it, with quarters as scales, put it; and nesting has an end.
ComponentIsPlaced ==
  phase = "render" /\ stack # <<>> =>
    LET part(k) == font.components[stack[k].glyph + 1][stack[k].next - 1]
        exact == FoldLeft(LAMBDA s, k :
                   [x |-> 4 * (s.x + part(k).x * s.sx), y |-> 4 * (s.y + part(k).y * s.sy),
                    sx |-> s.sx * (part(k).scale[1] \div 4096), sy |-> s.sy * (part(k).scale[2] \div 4096),
                    den |-> 4 * s.den],
                   [x |-> 0, y |-> 0, sx |-> GlyphScale, sy |-> GlyphScale, den |-> 1],
                   [k \in 1..(Len(stack) - 1) |-> k])
        one == exact.den * font.units_per_em
        near == 2 * (Len(stack) - 1) * one
    IN  /\ Len(stack) <= MaxGlyphDepth + 2
        /\ Top.ox * one - exact.x \in (-near)..near /\ Top.base * one + exact.y \in (-near)..near

GlyphsAreRight ==
  /\ TablesAreThere /\ GlyphsAreThere /\ StraysOutOfOrder
  /\ GlyphIsRight /\ OutlineIsRight /\ InkIsRight /\ ComponentIsPlaced
=============================================================================
