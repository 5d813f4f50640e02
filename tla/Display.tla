------------------------------ MODULE Display ------------------------------
(***************************************************************************)
(* What is drawn.  First the pixels of a rounded rectangle and of an       *)
(* ellipse (src/display/display.c), each on a surface of its own.  Then    *)
(* the same drawings made by the library in the program                    *)
(* (compiler/sdk/app/display.cpp), which stores into its memory by         *)
(* address, and by the kernel, which puts pixel by pixel into its drawing  *)
(* target.  Bitmaps and outlines of boxes only the kernel draws.           *)
(*                                                                         *)
(* One channel stands for the three of a colour.  How a glyph is rendered  *)
(* is in Ttf, how a picture is decoded in Png.                             *)
(***************************************************************************)
EXTENDS Integers, FiniteSets, Sequences

CONSTANTS Side,      \* of the surface
          Corners,   \* where rectangles begin
          Spans,     \* their widths and heights, and the radii asked for
          Radii      \* of ellipses, whose centre is the middle of the surface

ASSUME ShapesAssumption ==
  Side \in Nat /\ Corners \subseteq Int /\ Spans \subseteq Int /\ Radii \subseteq Int

VARIABLES shape,   \* the last shape that was drawn
          pixels   \* what it put

shvars == <<shape, pixels>>

Surface == (0..(Side - 1)) \X (0..(Side - 1))
Least(a, b) == IF a <= b THEN a ELSE b
Most(a, b) == IF a >= b THEN a ELSE b

\* put_pixel
Put(points) == points \cap Surface

\* draw_hline: a negative width goes to the left.
Hline(x, y, w) == IF w < 0 THEN {<<x + w + i, y>> : i \in 0..(-w - 1)}
                  ELSE {<<x + i, y>> : i \in 0..(w - 1)}

-----------------------------------------------------------------------------
(* draw_rounded_rect *)

Radius(w, h, radius) == Least(Least(Most(radius, 0), w \div 2), h \div 2)

\* The centre of the corner that x is in, of a side from low to high.  The
\* left one ends before its centre, the right one begins with its.
Centre(x, low, high, r) ==
  IF x < low + r THEN low + r ELSE IF x >= high - r THEN high - r ELSE x

InCorner(x, low, high, r) == x < low + r \/ x >= high - r

RoundedRect(x, y, w, h, radius) ==
  LET r == Radius(w, h, radius)
      x2 == x + w - 1
      y2 == y + h - 1
      Inside(p) ==
        InCorner(p[1], x, x2, r) /\ InCorner(p[2], y, y2, r) =>
          LET dx == p[1] - Centre(p[1], x, x2, r)
              dy == p[2] - Centre(p[2], y, y2, r)
          IN  dx * dx + dy * dy <= r * r IN
  IF w <= 0 \/ h <= 0 THEN {} ELSE {p \in (x..x2) \X (y..y2) : Inside(p)}

-----------------------------------------------------------------------------
(* draw_ellipse: the midpoint algorithm in two regions *)

FirstPoint(rx, ry) ==
  [x |-> 0, y |-> ry, dx |-> 0, dy |-> 2 * rx * rx * ry,
   d |-> ry * ry - rx * rx * ry + (rx * rx) \div 4, steep |-> FALSE]

\* Along the flat part, and then down; d is set anew where it turns.
Flat(s, rx, ry) ==
  LET dx == s.dx + 2 * ry * ry
      dy == s.dy - 2 * rx * rx IN
  IF s.d < 0
    THEN [s EXCEPT !.x = @ + 1, !.dx = dx, !.d = @ + dx + ry * ry]
    ELSE [s EXCEPT !.x = @ + 1, !.y = @ - 1, !.dx = dx, !.dy = dy, !.d = @ + dx - dy + ry * ry]

Turn(s, rx, ry) ==
  [s EXCEPT !.steep = TRUE,
            !.d = ry * ry * (s.x * s.x + s.x) + rx * rx * (s.y - 1) * (s.y - 1) - rx * rx * ry * ry]

Steep(s, rx, ry) ==
  LET dx == s.dx + 2 * ry * ry
      dy == s.dy - 2 * rx * rx IN
  IF s.d > 0
    THEN [s EXCEPT !.y = @ - 1, !.dy = dy, !.d = @ + rx * rx - dy]
    ELSE [s EXCEPT !.x = @ + 1, !.y = @ - 1, !.dx = dx, !.dy = dy, !.d = @ + dx - dy + rx * rx]

NextPoint(s, rx, ry) ==
  IF s.steep THEN Steep(s, rx, ry)
  ELSE IF s.dx < s.dy THEN Flat(s, rx, ry) ELSE Turn(s, rx, ry)

\* The points that are drawn, one after the other, in a quarter.
Quarter(rx, ry) ==
  LET walk[n \in 0..(2 * (rx + ry) + 4)] ==
        IF n = 0 THEN FirstPoint(rx, ry) ELSE NextPoint(walk[n - 1], rx, ry)
      drawn == {s \in {walk[n] : n \in DOMAIN walk} : s.y >= 0 /\ (s.steep \/ s.dx < s.dy)}
  IN  {<<s.x, s.y>> : s \in drawn}

Outline(cx, cy, rx, ry) ==
  UNION {{<<cx + a * q[1], cy + b * q[2]>> : a \in {-1, 1}, b \in {-1, 1}} : q \in Quarter(rx, ry)}

\* Each point gives four lines: the two that x and y exchanged give are
\* those of a circle.
Filling(cx, cy, rx, ry) ==
  UNION {Hline(cx - q[1], cy + b * q[2], 2 * q[1] + 1)
           \cup (IF q[1] = q[2] THEN {} ELSE Hline(cx - q[2], cy + b * q[1], 2 * q[2] + 1))
         : q \in Quarter(rx, ry), b \in {-1, 1}}

Ellipse(cx, cy, rx, ry, filled) ==
  IF rx <= 0 \/ ry <= 0 THEN {}
  ELSE IF filled THEN Filling(cx, cy, rx, ry) ELSE Outline(cx, cy, rx, ry)

-----------------------------------------------------------------------------

Middle == Side \div 2

DrawRoundedRect(x, y, w, h, radius) ==
  /\ shape' = [kind |-> "rect", x |-> x, y |-> y, w |-> w, h |-> h, r |-> radius]
  /\ pixels' = Put(RoundedRect(x, y, w, h, radius))

DrawEllipse(rx, ry, filled) ==
  /\ shape' = [kind |-> IF filled THEN "disc" ELSE "ellipse",
               x |-> Middle, y |-> Middle, w |-> rx, h |-> ry, r |-> 0]
  /\ pixels' = Put(Ellipse(Middle, Middle, rx, ry, filled))

ShapesInit ==
  /\ shape = [kind |-> "none", x |-> 0, y |-> 0, w |-> 0, h |-> 0, r |-> 0] /\ pixels = {}

ShapesNext ==
  /\ shape.kind = "none"
  /\ \/ \E x, y \in Corners, w, h, r \in Spans : DrawRoundedRect(x, y, w, h, r)
     \/ \E rx, ry \in Radii, filled \in BOOLEAN : DrawEllipse(rx, ry, filled)

ShapesSpec == ShapesInit /\ [][ShapesNext]_shvars

----------------------------------------------------------------------------
(* Drawings in a program and in the kernel *)

CONSTANTS
    SurfaceWidth, SurfaceHeight,
    Inks,        \* colours, <<alpha, channel>>
    Frames,      \* boxes that are drawn, <<x, y, w, h>>
    Discs,       \* ellipses, <<cx, cy, rx, ry>>
    Artwork,     \* decoded pictures, [w, h, at]
    Textures,    \* bitmaps, with whether they have an alpha channel
    Typefaces,   \* fonts
    Labels,      \* [x, y, h, text]: texts, where and how high
    NewLine,     \* the character
    MaxDrawn     \* bound: drawings one after the other

Places == (0..SurfaceWidth - 1) \X (0..SurfaceHeight - 1)
Channel == 0..255
Color == Channel \X Channel
Bare == <<0, 0>>

ASSUME DisplayAssumption ==
    /\ SurfaceWidth \in Nat \ {0} /\ SurfaceHeight \in Nat \ {0} /\ MaxDrawn \in Nat
    /\ Inks \subseteq Color
    /\ Frames \subseteq Int \X Int \X Int \X Int
    /\ Discs \subseteq Int \X Int \X Int \X Int

VARIABLES
    fb,      \* the surface the library draws into
    target,  \* the one the kernel draws into
    lastDrawn, \* the last drawing
    before,  \* what that was before it, if only the kernel draws it
    glyph_cache,
    fonts,   \* those that texts were drawn with
    apart,   \* the two were asked for what they do not do alike
    drawings

dpvars == <<fb, target, before, lastDrawn, glyph_cache, fonts, apart, drawings>>

----------------------------------------------------------------------------
(* Surfaces *)

Transparent(color) == color[1] = 0

\* put_pixel for every point that f is defined for
Painted(surface, f) ==
    [p \in Places |-> IF p \in DOMAIN f /\ ~Transparent(f[p]) THEN f[p] ELSE surface[p]]

GetPixel(surface, p) == IF p \in Places THEN surface[p] ELSE Bare

Inked(surface, points, color) == Painted(surface, [p \in points |-> color])

\* The library's stores to addresses, in pixels from the first one, which has
\* an even address.  Beyond the surface is other memory of the program.
Size == SurfaceWidth * SurfaceHeight
PointAt(a) == <<a % SurfaceWidth, a \div SurfaceWidth>>
StoredAt(surface, addresses, color) ==
    Inked(surface, {PointAt(a) : a \in addresses \cap 0..(Size - 1)}, color)

Within(x, y, w, h) ==
    /\ x >= 0 /\ w >= 0 /\ x + w <= SurfaceWidth
    /\ y >= 0 /\ h >= 0 /\ y + h <= SurfaceHeight

Boxed(x, y, w, h) == {p \in Places : p[1] \in x..(x + w - 1) /\ p[2] \in y..(y + h - 1)}

----------------------------------------------------------------------------
(* Lines and boxes *)

\* One pixel up to an even address, two at a time while they fit, the rest.
Even(p, end) == IF p < end /\ p % 2 = 1 THEN p + 1 ELSE p

PairsBeyondEnd(p, end) == {a \in Even(p, end)..(end - 1) : a % 2 = 0}

Pairs(p, end) == {a \in Even(p, end)..(end - 1) : a % 2 = 0 /\ a + 1 < end}

Covered(p, end) ==
    (p..(Even(p, end) - 1)) \cup UNION {{a, a + 1} : a \in Pairs(p, end)}
      \cup {a \in Even(p, end)..(end - 1) : a % 2 = 0 /\ a + 1 >= end}

SdkHline(x, y, w) ==
    LET from == IF w < 0 THEN x + w ELSE x
        p == y * SurfaceWidth + from
    IN  Covered(p, p + (IF w < 0 THEN -w ELSE w))

SdkRect(x, y, w, h) ==
    UNION {Covered((y + j) * SurfaceWidth + x, (y + j) * SurfaceWidth + x + w) : j \in 0..(h - 1)}

\* draw_rect of the kernel
Rect(x, y, w, h) == UNION {Hline(x, y + j, w) : j \in 0..(h - 1)}

\* draw_rect_outline
Vline(x, y, h) == {<<x, y + i>> : i \in 0..(h - 1)}
RectOutline(x, y, w, h) == Hline(x, y, w) \cup Hline(x, y + h, w) \cup Vline(x, y, h) \cup Vline(x + w, y, h)

\* draw_ellipse of the library, filled
SdkDisc(cx, cy, rx, ry) ==
    IF rx <= 0 \/ ry <= 0 THEN {}
    ELSE UNION {SdkHline(cx - q[1], cy + b * q[2], 2 * q[1] + 1)
                  \cup (IF q[1] = q[2] THEN {} ELSE SdkHline(cx - q[2], cy + b * q[1], 2 * q[2] + 1))
                : q \in Quarter(rx, ry), b \in {-1, 1}}

----------------------------------------------------------------------------
(* Pictures *)

Blended(f, b, a) == (f * a + b * (255 - a)) \div 255
BLEND_CHANNEL(f, b, a) == ((f * a + b * (255 - a)) * 257 + 257) \div 65536

\* Which of size pixels is shown at each of count places.
SourceOf(i, size, count) == (i * size) \div count
SdkSamples(size, count) ==
    LET walk[i \in 0..(count - 1)] ==
          IF i = 0 THEN [src |-> 0, acc |-> 0]
          ELSE LET s == walk[i - 1]
                   acc == s.acc + (size % count)
                   src == s.src + (size \div count)
               IN  IF acc >= count THEN [src |-> src + 1, acc |-> acc - count] ELSE [src |-> src, acc |-> acc]
    IN  walk

Over(color, under) ==
    IF color[1] = 255 THEN color ELSE <<255, Blended(color[2], under[2], color[1])>>
SdkOver(color, under) ==
    IF color[1] = 255 THEN color ELSE <<255, BLEND_CHANNEL(color[2], under[2], color[1])>>

Png(surface, x, y, w, h, image) ==
    Painted(surface, [p \in Boxed(x, y, w, h) |->
        LET color == image.at[<<SourceOf(p[1] - x, image.w, w), SourceOf(p[2] - y, image.h, h)>>] IN
        IF Transparent(color) THEN color ELSE Over(color, surface[p])])

\* The place in the box that is stored at p; the box is no wider than the
\* surface, but may reach over its edges into the next row.
SdkPng(surface, x, y, w, h, image) ==
    LET offset(p) == (p[2] * SurfaceWidth + p[1]) - (y * SurfaceWidth + x)
        column(p) == offset(p) % SurfaceWidth
        row(p) == offset(p) \div SurfaceWidth
        columns == SdkSamples(image.w, w)
        rows == SdkSamples(image.h, h)
    IN  Painted(surface, [p \in {p \in Places : column(p) < w /\ row(p) \in 0..(h - 1)} |->
            LET color == image.at[<<columns[column(p)].src, rows[row(p)].src>>] IN
            IF Transparent(color) THEN color ELSE SdkOver(color, surface[p])])

----------------------------------------------------------------------------
(* Bitmaps: places are scaled in single precision *)

RoundedQuotient(a, b) ==
    LET q == a \div b
        twice == 2 * (a % b)
    IN  IF twice > b \/ (twice = b /\ q % 2 = 1) THEN q + 1 ELSE q

\* size / count is mantissa * 2^-shift, with a mantissa of 24 bits
Exponent(size, count) == CHOOSE e \in 0..30 : size * 2 ^ e >= count * 2 ^ 23 /\ size * 2 ^ e < count * 2 ^ 24
Scaled(i, size, count) ==
    LET e == Exponent(size, count)
        product == i * RoundedQuotient(size * 2 ^ e, count)
        cut == CHOOSE k \in 0..7 : product \div 2 ^ k <= 2 ^ 24 /\ \A j \in 0..(k - 1) : product \div 2 ^ j > 2 ^ 24
    IN  (RoundedQuotient(product, 2 ^ cut) * 2 ^ cut) \div 2 ^ e

TextureAt(i, size, count) == Least(Scaled(i, size, count), size - 1)

AlphaBlend(src, dst) ==
    IF src[1] = 255 THEN src ELSE IF src[1] = 0 THEN dst ELSE <<255, Blended(src[2], dst[2], src[1])>>

Recolored(color, override) == IF override[1] = 255 THEN <<color[1], override[2]>> ELSE color

BmpPixel(texture, at, override, under) ==
    LET color == texture.at[at] IN
    IF texture.alpha
    THEN IF Transparent(color) THEN Bare ELSE AlphaBlend(Recolored(color, override), under)
    ELSE Recolored(color, override)

Bmp(surface, x, y, w, h, texture, override) ==
    IF w <= 0 \/ h <= 0 THEN surface
    ELSE Painted(surface, [p \in Boxed(x, y, w, h) |->
           BmpPixel(texture, <<TextureAt(p[1] - x, texture.w, w), TextureAt(p[2] - y, texture.h, h)>>, override, surface[p])])

----------------------------------------------------------------------------
(* Text.  A font has, for every character, a glyph, for every glyph how far  *)
(* it takes the pen, and its pixels with their coverage.                     *)

\* font_pixel, for every pixel of a glyph
Rendered(surface, marks, x, baseline, color) ==
    Painted(surface, [p \in {<<x + m[1], baseline - m[2]>> : m \in marks} \cap Places |->
        LET m == CHOOSE m \in marks : p = <<x + m[1], baseline - m[2]>>
        IN  <<255, Blended(color[2], GetPixel(surface, p)[2], m[3])>>])

Baseline(y, h, font) == y + (font.ascender * h) \div (font.ascender - font.descender)
Advance(font, glyph, h) == (font.advances[glyph] * h) \div font.units

\* The library looks a glyph up once for each character; 0 is none yet.
Glyph(cached, cache, font, c) ==
    IF cached /\ cache[c] # 0 THEN cache[c] ELSE font.glyphs[c]

\* draw_text, after each character
Typeset(surface, cached, cache, label, color, font) ==
    LET walk[i \in 0..Len(label.text)] ==
          IF i = 0 THEN [surface |-> surface, cache |-> cache, x |-> label.x, y |-> label.y]
          ELSE LET s == walk[i - 1]
                   c == label.text[i]
                   glyph == Glyph(cached, s.cache, font, c)
               IN  IF c = NewLine THEN [s EXCEPT !.x = label.x, !.y = @ + label.h]
                   ELSE [surface |-> Rendered(s.surface, font.marks[glyph], s.x, Baseline(s.y, label.h, font), color),
                         cache |-> [s.cache EXCEPT ![c] = glyph],
                         x |-> s.x + Advance(font, glyph, label.h), y |-> s.y]
    IN  walk

Unreadable(label, font) == font.units = 0 \/ label.h <= 0

\* text_width_for_size
WidthOf(label, font) ==
    LET walk[i \in 0..Len(label.text)] ==
          IF i = 0 THEN [line |-> 0, widest |-> 0]
          ELSE LET s == walk[i - 1] IN
               IF label.text[i] = NewLine THEN [line |-> 0, widest |-> Most(s.line, s.widest)]
               ELSE [s EXCEPT !.line = @ + Advance(font, font.glyphs[label.text[i]], label.h)]
        end == walk[Len(label.text)]
    IN  IF Unreadable(label, font) THEN 0 ELSE Most(end.line, end.widest)

----------------------------------------------------------------------------
(* Drawings *)

Printed == UNION {{l.text[i] : i \in DOMAIN l.text} : l \in Labels} \ {NewLine}
Clean == [p \in Places |-> Bare]

DisplayInit ==
    /\ fb = Clean /\ target = Clean /\ before = Clean
    /\ lastDrawn = <<"none">> /\ glyph_cache = [c \in Printed |-> 0]
    /\ fonts = {} /\ apart = FALSE /\ drawings = 0

\* A drawing of both, which they do alike unless the last condition fails.
Both(ours, theirs, alike, what) ==
    /\ drawings < MaxDrawn /\ drawings' = drawings + 1
    /\ fb' = ours /\ target' = theirs /\ apart' = (apart \/ ~alike)
    /\ before' = Clean /\ lastDrawn' = what

\* One that the kernel does, in the surface of a program too.
Kernels(ours, theirs, what) ==
    /\ drawings < MaxDrawn /\ drawings' = drawings + 1
    /\ fb' = ours /\ target' = theirs
    /\ before' = target /\ lastDrawn' = what
    /\ UNCHANGED <<glyph_cache, fonts, apart>>

DrawHline(x, y, w, color) ==
    /\ Both(IF Transparent(color) THEN fb ELSE StoredAt(fb, SdkHline(x, y, w), color),
            Inked(target, Hline(x, y, w), color),
            IF w < 0 THEN Within(x + w, y, -w, 1) ELSE Within(x, y, w, 1), <<"line">>)
    /\ UNCHANGED <<glyph_cache, fonts>>

DrawRect(x, y, w, h, color) ==
    /\ Both(IF Transparent(color) THEN fb ELSE StoredAt(fb, SdkRect(x, y, w, h), color),
            Inked(target, Rect(x, y, w, h), color), Within(x, y, w, h), <<"box">>)
    /\ UNCHANGED <<glyph_cache, fonts>>

\* Both are the same code, of put_pixel.
DrawRounded(x, y, w, h, radius, color) ==
    /\ Both(Inked(fb, RoundedRect(x, y, w, h, radius), color),
            Inked(target, RoundedRect(x, y, w, h, radius), color), TRUE, <<"rounded">>)
    /\ UNCHANGED <<glyph_cache, fonts>>

\* A disc is made of lines, an outline of put_pixel.
DrawRound(cx, cy, rx, ry, filled, color) ==
    /\ LET r == Most(rx, ry) IN
       Both(IF Transparent(color) THEN fb
            ELSE IF filled THEN StoredAt(fb, SdkDisc(cx, cy, rx, ry), color)
            ELSE Inked(fb, Ellipse(cx, cy, rx, ry, FALSE), color),
            Inked(target, Ellipse(cx, cy, rx, ry, filled), color),
            filled => Within(cx - r, cy - r, 2 * r + 1, 2 * r + 1), <<"round">>)
    /\ UNCHANGED <<glyph_cache, fonts>>

DrawPng(x, y, w, h, image) ==
    /\ w \in 1..SurfaceWidth /\ h > 0
    /\ Both(SdkPng(fb, x, y, w, h, image), Png(target, x, y, w, h, image), Within(x, y, w, h), <<"picture">>)
    /\ UNCHANGED <<glyph_cache, fonts>>

DrawTextAt(label, color, font) ==
    /\ WidthOf(label, font) > 0
    /\ LET ours == Typeset(fb, TRUE, glyph_cache, label, color, font)[Len(label.text)]
           theirs == Typeset(target, FALSE, glyph_cache, label, color, font)[Len(label.text)] IN
       /\ Both(IF Transparent(color) THEN fb ELSE ours.surface, theirs.surface,
               ~Transparent(color) /\ fonts \subseteq {font}, <<"text", label, font>>)
       /\ glyph_cache' = IF Transparent(color) THEN glyph_cache ELSE ours.cache
    /\ fonts' = fonts \cup {font}

DrawBmp(x, y, w, h, texture, override) ==
    Kernels(Bmp(fb, x, y, w, h, texture, override), Bmp(target, x, y, w, h, texture, override),
            <<"bitmap", x, y, w, h, texture, override>>)

DrawRectOutline(x, y, w, h, color) ==
    Kernels(Inked(fb, RectOutline(x, y, w, h), color), Inked(target, RectOutline(x, y, w, h), color),
            <<"outline", x, y, w, h, color>>)

DisplayNext ==
    \/ \E f \in Frames :
         \/ \E color \in Inks :
              \/ DrawHline(f[1], f[2], f[3], color)
              \/ DrawRect(f[1], f[2], f[3], f[4], color)
              \/ \E radius \in {1, SurfaceHeight} : DrawRounded(f[1], f[2], f[3], f[4], radius, color)
              \/ \E texture \in Textures : DrawBmp(f[1], f[2], f[3], f[4], texture, color)
              \/ DrawRectOutline(f[1], f[2], f[3], f[4], color)
         \/ \E image \in Artwork : DrawPng(f[1], f[2], f[3], f[4], image)
    \/ \E d \in Discs, filled \in BOOLEAN, color \in Inks : DrawRound(d[1], d[2], d[3], d[4], filled, color)
    \/ \E label \in Labels, color \in Inks, font \in Typefaces : DrawTextAt(label, color, font)

DisplaySpec == DisplayInit /\ [][DisplayNext]_dpvars

----------------------------------------------------------------------------
(* Properties *)

\* display.c:165: a rounded rectangle is what a disc of the radius covers
\* while its centre moves through the rectangle that is left inside, if one
\* is.  With a side of twice the radius the corners cross: two pixels by two
\* with a radius of one are not drawn at all.
Swept(x, y, x2, y2, r) ==
  {p \in (x..x2) \X (y..y2) :
     \E a \in (x + r)..(x2 - r), b \in (y + r)..(y2 - r) :
       (p[1] - a) * (p[1] - a) + (p[2] - b) * (p[2] - b) <= r * r}

RoundedIsSwept ==
  shape.kind = "rect" =>
    LET r == Radius(shape.w, shape.h, shape.r) IN
    2 * r < shape.w /\ 2 * r < shape.h =>
      pixels = Put(Swept(shape.x, shape.y, shape.x + shape.w - 1, shape.y + shape.h - 1, r))

\* display.c:263: every point of an outline is less than a pixel from where
\* the ellipse crosses its column, or its row.
Sign(x, y, rx, ry) == ry * ry * x * x + rx * rx * y * y - rx * rx * ry * ry
OutlineIsNear ==
  shape.kind = "ellipse" =>
    \A p \in pixels :
      LET x == Most(p[1] - Middle, Middle - p[1])
          y == Most(p[2] - Middle, Middle - p[2])
          In(a, b) == Sign(Most(a, 0), Most(b, 0), shape.w, shape.h) < 0
          Out(a, b) == Sign(a, b, shape.w, shape.h) > 0 IN
      (In(x, y - 1) /\ Out(x, y + 1)) \/ (In(x - 1, y) /\ Out(x + 1, y))

\* display.c:294: a disc covers the rows of its outline, and nothing half a
\* pixel beyond the radius.  With two radii its lines leave the ellipse.
DiscIsRound ==
  shape.kind = "disc" =>
    /\ Put(UNION {{<<c, q[2]>> : c \in (2 * Middle - q[1])..q[1]}
                  : q \in Ellipse(Middle, Middle, shape.w, shape.h, FALSE)}) \subseteq pixels
    /\ shape.w = shape.h =>
         \A p \in pixels : (p[1] - Middle) * (p[1] - Middle) + (p[2] - Middle) * (p[2] - Middle)
                           <= shape.w * (shape.w + 1)

\* The pixels of a shape are those of its outline (display.c).
ShapesAreRight == RoundedIsSwept /\ OutlineIsNear /\ DiscIsRound

DisplayTypeOK ==
    /\ fb \in [Places -> Color] /\ target \in [Places -> Color] /\ before \in [Places -> Color]
    /\ DOMAIN glyph_cache = Printed /\ fonts \subseteq Typefaces /\ apart \in BOOLEAN
    /\ drawings \in 0..MaxDrawn

\* display.cpp: whatever is drawn one after the other, the library's stores
\* of pairs, its sums instead of products and quotients and its cache of
\* glyphs show what the kernel shows, as long as lines, boxes, discs and
\* pictures lie within the surface and texts have one font.
DrawnAlike == ~apart => fb = target

\* display.c:389: a bitmap shows, of the pixels of its texture, the one whose
\* place it is or the one before that, and in its own size itself.
NearBy(i, size, count) ==
    LET exact == SourceOf(i, size, count) IN
    IF size = count THEN {exact} ELSE {exact, Most(exact - 1, 0)}
BitmapIsNear ==
    lastDrawn[1] = "bitmap" =>
        LET x == lastDrawn[2]  y == lastDrawn[3]  w == lastDrawn[4]  h == lastDrawn[5]  texture == lastDrawn[6] IN
        \A p \in Places :
            IF p \in Boxed(x, y, w, h)
            THEN \E at \in NearBy(p[1] - x, texture.w, w) \X NearBy(p[2] - y, texture.h, h) :
                    LET color == BmpPixel(texture, at, lastDrawn[7], before[p]) IN
                    target[p] = IF Transparent(color) THEN before[p] ELSE color
            ELSE target[p] = before[p]

\* display.c:221: the outline of a box is a frame around it, a pixel to the
\* right and below, without the corner there.
OutlineIsFrame ==
    lastDrawn[1] = "outline" /\ lastDrawn[4] > 0 /\ lastDrawn[5] > 0 /\ ~Transparent(lastDrawn[6]) =>
        LET x == lastDrawn[2]  y == lastDrawn[3]  w == lastDrawn[4]  h == lastDrawn[5]
            frame == ((x..(x + w)) \X {y, y + h}) \cup ({x, x + w} \X (y..(y + h))) IN
        target = Inked(before, frame \ {<<x + w, y + h>>}, lastDrawn[6])

\* display.cpp:402: text_width is where the widest line that is drawn ends.
WidthIsDrawn ==
    lastDrawn[1] = "text" =>
        LET label == lastDrawn[2]
            walk == Typeset(Clean, FALSE, glyph_cache, label, Bare, lastDrawn[3])
            ends == {walk[i].x - label.x : i \in DOMAIN walk}
        IN  WidthOf(label, lastDrawn[3]) \in ends /\ \A end \in ends : end <= WidthOf(label, lastDrawn[3])

\* Shapes are right (display.c), and so is what is drawn with them.
DrawingIsRight ==
    ShapesAreRight /\ DisplayTypeOK /\ DrawnAlike /\ BitmapIsNear /\ OutlineIsFrame /\ WidthIsDrawn
=============================================================================
