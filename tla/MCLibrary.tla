----------------------------- MODULE MCLibrary ------------------------------
(* Model checking instances of the libraries of the kernel and of programs: *)
(* a behaviour is one of a module below, or of one of the two parts of      *)
(* Settings, Time and Rsa, which share no state.                            *)
EXTENDS UserHeap, Stdio, Settings, Time, Rsa, Xml, Svg, Ttf, Png, Display, Controls, Containers

\* The break is lowered by more than the reserve, lowered and raised by half.
MCIncrements == {-136, -64, 64}

\* Days of the first years, around 29 February 1972 and of 2000, and the last
\* ones of a time_t.
MCDays == 0..3 \cup 785..795 \cup 10950..10960 \cup 11014..11018 \cup 24851..24855
MCShifts ==
    { <<"sec", -1>>, <<"sec", 90000>>, <<"mday", -40>>, <<"mday", 1>>, <<"mday", 400>>,
      <<"mon", -1>>, <<"mon", 25>>, <<"mon", 12>>, <<"year", -3>>, <<"year", 1>> }

MCCorners == {-1, 2}
MCSpans == {-1} \cup 1..7
MCRadii == -1..7

\* Boxes inside a surface of 7 by 5 pixels, across its edges, and a bitmap so
\* wide that its scale is rounded; colours that cover, mix and are not there.
MCFrames ==
    {<<1, 1, 4, 3>>, <<0, 0, 7, 5>>, <<-1, 1, 3, 2>>, <<4, 2, -3, 2>>, <<5, 3, 4, 2>>, <<-38, 0, 82, 4>>}
MCInks == {<<255, 200>>, <<128, 40>>, <<0, 90>>}
MCDiscs == {<<3, 2, 2, 2>>, <<3, 2, 1, 2>>, <<5, 3, 3, 1>>}
Checkered(w, h, clear) ==
    [w |-> w, h |-> h, alpha |-> clear,
     at |-> [c \in (0..(w - 1)) \X (0..(h - 1)) |->
               <<IF ~clear THEN 255 ELSE <<255, 100, 0>>[((c[1] + c[2]) % 3) + 1], 10 + 30 * c[1] + 7 * c[2]>>]]
MCArtwork == {Checkered(3, 2, TRUE), Checkered(5, 7, TRUE), Checkered(4, 3, TRUE)}
MCTextures == {Checkered(2, 3, FALSE), Checkered(4, 3, TRUE)}
Typeface(first) ==
    [ascender |-> 3, descender |-> -1, units |-> 4, glyphs |-> [a |-> first, b |-> 2], advances |-> [n \in 0..2 |-> 2 + 2 * n],
     marks |-> [n \in 0..2 |-> IF n = 0 THEN {} ELSE {<<0, 0, 255>>, <<n - 2, 1, 90>>, <<n, 0, 30>>}]]
MCTypefaces == {Typeface(first) : first \in 0..2}
MCLabels ==
    {[x |-> 1, y |-> 1, h |-> 3, text |-> <<"a", "b", " ", "a">>],
     [x |-> -1, y |-> 0, h |-> 4, text |-> <<"b", "a">>], [x |-> 2, y |-> 2, h |-> 0, text |-> <<"b">>]}

\* Numbers of up to 600 bytes: on both sides of 128 and of 256, where the
\* length takes another byte, and of 128 in their first byte.
Run(n) == [i \in 1..n |-> 250 - (i % 120)]
MCKeys ==
    { <<Run(1), <<127>>, <<128, 0>>>>, <<Run(10), Run(20)>>, <<Run(127)>>,
      <<Run(128), <<1>>>>, <<Run(120), <<3>>>>, <<Run(260)>>, <<Run(121)>>,
      <<<<5>>, Run(255)>>, <<Run(256), <<7>>, Run(2)>>, <<Run(600), Run(600)>> }
MCTexts == {<<>>, <<1>>, <<0>>, <<1, 0, 2>>, <<5, 5, 5, 5, 5>>}

\* Documents, as their characters: whole ones, and ones with an error, an
\* unknown entity or nothing more after a few characters.
ShortDocument == <<"<", "a", "/", ">">>
Plain == <<"<", "a", ">", "a", "<", "/", "a", ">">>
MCDocs ==
    { ShortDocument, Plain,
      <<" ", "<", "?", "a", " ", "a", "=", "'", "1", "'", "?", ">", " ",
        "<", "!", "D", " ", "[", "'", "]", ">", "'", "]", " ", "a", ">", " ",
        "<", "a", " ", "a", "=", "'", "&", "a", ";", "'", " ", "a", "=", "'", "a", "'", ">",
        "<", "a", "/", ">", "a", "&", "a", ";", "1", "<", "/", "a", ">">>,
      <<"<", "!", "-", "-", " ", "a", " ", "-", " ", "-", "-", ">", "<", "a", ">",
        "<", "!", "[", "C", "]", "a", "]", "]", "]", ">", "<", "!", "-", "-", "-", "-", ">",
        "a", "a", "<", "/", "a", ">">>,
      <<"<", "a", ">", "&", "a", "1", ";", "a", "<", "/", "a", ">">>,
      <<"<", "a", ">", "a", "a", "&", "a", "<", "/", "a", ">">>,
      <<"<", "a", " ", "a", ">", "<", "a", " ", "a", "=", "'", "a", "'", ">",
        "<", "/", "a", ">", "<", "/", "a", ">">>,
      <<"a", "<", "a", ">">>,
      <<"<", "a", ">", "<", "/", "a", " ", "a", ">">>,
      <<"<", "a", " ", "a", "=", "1", ">">>,
      <<"<", "a", ">", "a", "<", "a", " ", "a", " ", "=", " ", "'", "a", "'", " ", ">",
        "<", "/", "a", ">", "a", "<", "/", "a", ">", " ">> }

\* Drawings: a star by both rules of filling, groups within groups and
\* elements that are not drawn, curves of every kind, and transforms and
\* commands with values missing.
El(name, transform, overlays, commands, evenOdd) ==
    [type |-> "start", name |-> name, transform |-> transform, overlay |-> overlays,
     path |-> commands, even_odd |-> evenOdd, stroke |-> 2]
Gr(transform, overlays) == El("g", transform, overlays, <<>>, FALSE)
EndOfEl(name) == [type |-> "end", name |-> name]
Tr(kind, values) == [kind |-> kind, values |-> values]
Cm(letter, rel, values) == [letter |-> letter, rel |-> rel, v |-> values]
Pt(x, y) == Cm("", FALSE, <<x, y>>)
Star ==
    <<Cm("M", FALSE, <<4, 0>>), Cm("L", FALSE, <<7, 8>>), Pt(0, 3), Pt(8, 3), Pt(1, 8),
      Cm("Z", FALSE, <<>>)>>
Ring ==
    <<Cm("M", TRUE, <<1, 1>>), Pt(5, 0), Pt(0, 5), Cm("H", TRUE, <<-5>>), Cm("Z", FALSE, <<>>),
      Cm("M", TRUE, <<1, 1>>), Cm("V", TRUE, <<3>>), Cm("H", FALSE, <<5>>), Cm("V", FALSE, <<2>>),
      Cm("Z", FALSE, <<>>), Cm("L", TRUE, <<3, 3>>)>>
Curves ==
    <<Cm("L", FALSE, <<1, 1>>), Cm("C", FALSE, <<1, 6, 7, 6, 7, 1>>), Cm("S", TRUE, <<0, 5, 1, 4>>),
      Cm("Q", FALSE, <<3, 8, 0, 5>>), Cm("A", TRUE, <<1, 1, 0, 0, 0, 1, -2>>), Cm("Z", FALSE, <<>>)>>
Smooth ==
    <<Cm("M", FALSE, <<0, 4>>), Cm("Q", TRUE, <<1, -4, 2, 0>>), Cm("T", TRUE, <<2, 0>>), Pt(2, 0),
      Pt(2, 0), Pt(2, 0), Cm("L", TRUE, <<0, 4>>)>>
Broken ==
    <<Cm("M", FALSE, <<0, 0>>), Cm("L", FALSE, <<8, 1>>), Cm("Q", FALSE, <<>>),
      Cm("C", FALSE, <<8, 8, 1, 2, 0, 8>>), Cm("L", FALSE, <<3>>), Cm("L", FALSE, <<3, 3>>)>>
Slant == Tr("matrix", <<1, 1, -1, 2, 1, 0>>)
Triangle == <<Pt(0, 0), Pt(7, 2), Pt(3, 8)>>
Stars ==
    <<El("svg", <<>>, FALSE, <<>>, FALSE), El("path", <<>>, FALSE, Star, FALSE),
      El("path", <<>>, FALSE, Star, TRUE), EndOfEl("path"), EndOfEl("svg")>>
NoDrawing == <<El("svg", <<>>, FALSE, <<>>, FALSE), EndOfEl("svg")>>
MCDrawings ==
    { NoDrawing, Stars,
      <<Gr(<<Tr("translate", <<1, 1>>)>>, FALSE),
          El("path", <<Tr("scale", <<-1>>), Tr("translate", <<-6, -6>>)>>, FALSE, Ring, FALSE),
          EndOfEl("path"),
          Gr(<<Tr("scale", <<2, 1>>), Slant>>, TRUE),
            El("polygon", <<>>, FALSE, Triangle, FALSE), EndOfEl("polygon"),
          EndOfEl("g"),
          El("filter", <<>>, FALSE, <<>>, FALSE),
            El("path", <<>>, FALSE, Star, FALSE), EndOfEl("path"), Gr(<<Slant>>, TRUE), EndOfEl("g"),
          EndOfEl("filter"),
          El("polyline", <<Slant>>, FALSE, Triangle, FALSE), EndOfEl("polyline"),
          El("rect", <<Tr("scale", <<2>>)>>, FALSE, <<Pt(1, 1), Pt(2, 3)>>, FALSE), EndOfEl("rect"),
        EndOfEl("g"),
        El("line", <<>>, FALSE, <<Pt(0, 7), Pt(8, 2)>>, FALSE), EndOfEl("line"),
        El("circle", <<Slant>>, FALSE, <<Pt(4, 4), Pt(2, 2)>>, FALSE), EndOfEl("circle")>>,
      <<Gr(<<Tr("translate", <<1>>)>>, TRUE), Gr(<<Tr("translate", <<1>>)>>, FALSE),
        Gr(<<Tr("translate", <<1>>)>>, FALSE), EndOfEl("g"), EndOfEl("g"),
        El("path", <<>>, FALSE, Curves, FALSE), EndOfEl("path"), EndOfEl("g"),
        El("path", <<>>, FALSE, Smooth, FALSE), EndOfEl("path")>>,
      <<El("path", <<Tr("rotate", <<3>>), Tr("scale", <<>>)>>, FALSE, Broken, FALSE), EndOfEl("path"),
        Gr(<<Tr("scale", <<3>>)>>, FALSE), El("path", <<>>, FALSE, Ring, TRUE), EndOfEl("path"),
        El("polygon", <<>>, FALSE, <<Pt(1, 1), Pt(2, 2)>>, FALSE), EndOfEl("polygon"),
        El("polyline", <<>>, FALSE, <<Pt(1, 1)>>, FALSE), EndOfEl("polyline"), EndOfEl("g")>> }
MCView == [x |-> 2, y |-> 3, w |-> 13, h |-> 11]
MCBox == [x |-> 0, y |-> -1, w |-> 8, h |-> 9]

\* A font.  The words of its map are a header of 7, then ends, starts, deltas
\* and offsets of the segments, then the glyphs of segments that list them.
MapWords(segments) ==
    LET n == Len(segments)
        listed(k) == FoldLeft(LAMBDA m, j : m + Len(segments[j].glyphs), 0, [j \in 1..(k - 1) |-> j])
    IN  <<4, 0, 0, 2 * n, 0, 0, 0>> \o [k \in 1..n |-> segments[k].to] \o <<0>>
          \o [k \in 1..n |-> segments[k].from] \o [k \in 1..n |-> segments[k].delta % 65536]
          \o [k \in 1..n |-> IF segments[k].glyphs = <<>> THEN 0 ELSE 2 * (n - k + 1 + listed(k))]
          \o FlattenSeq([k \in 1..n |-> segments[k].glyphs])
Seg(from, to, delta0, glyphs) == [from |-> from, to |-> to, delta |-> delta0, glyphs |-> glyphs]

\* An outline packed with two bytes for each coordinate, or as short as can be.
DeltaOf(points, k, axis) == points[k].at[axis] - (IF k = 1 THEN 0 ELSE points[k - 1].at[axis])
PackedFlag(points, k, short) ==
    LET bit(d, s, m) == IF ~short THEN 0 ELSE IF d = 0 THEN m ELSE IF d > 0 THEN s + m ELSE s IN
    (IF points[k].on THEN 1 ELSE 0) + bit(DeltaOf(points, k, 1), 2, 16) + bit(DeltaOf(points, k, 2), 4, 32)
PackedCoordinate(d, short) ==
    IF ~short THEN <<(d % 65536) \div 256, d % 256>>
    ELSE IF d = 0 THEN <<>> ELSE IF d > 0 THEN <<d>> ELSE <<-d>>
Packed(points, short) ==
    LET n == Len(points)
        flag(k) == PackedFlag(points, k, short)
        first(k) == ~short \/ k = 1 \/ flag(k) # flag(k - 1)
        more(k) == Max({j \in k..n : \A m \in (k + 1)..j : ~first(m)}) - k
    IN  FlattenSeq([k \in 1..n |-> IF ~first(k) THEN <<>>
                                   ELSE IF more(k) = 0 THEN <<flag(k)>> ELSE <<flag(k) + 8, more(k)>>])
          \o FlattenSeq([k \in 1..n |-> PackedCoordinate(DeltaOf(points, k, 1), short)])
          \o FlattenSeq([k \in 1..n |-> PackedCoordinate(DeltaOf(points, k, 2), short)])
OnCurve(x, y) == [at |-> <<x, y>>, on |-> TRUE]
OffCurve(x, y) == [at |-> <<x, y>>, on |-> FALSE]
\* Instructions that make its length even.
DrawnGlyph(points, ends, short) ==
    [points |-> points, ends |-> ends, ins |-> 2 + (Len(Packed(points, short)) % 2), data |-> Packed(points, short)]

\* Two squares, a contour without a point on it, and curves from any point.
SquareGlyph ==
    <<OnCurve(0, 0), OnCurve(0, 12), OnCurve(12, 12), OnCurve(12, 0),
      OnCurve(3, 3), OnCurve(9, 3), OnCurve(9, 9), OnCurve(3, 9)>>
RoundGlyph == <<OffCurve(-4, -4), OffCurve(-4, 8), OffCurve(9, 8), OffCurve(9, -4)>>
LeafGlyph ==
    <<OffCurve(2, 14), OnCurve(8, 0), OnCurve(8, 2), OffCurve(13, 9), OffCurve(7, 13), OnCurve(0, 4)>>
DropGlyph == <<OnCurve(1, -3), OnCurve(1, -3), OffCurve(-6, 9), OnCurve(5, 5), OffCurve(8, 1)>>
EmptyGlyph == [points |-> <<>>, ends |-> <<>>, ins |-> 0, data |-> <<>>]
Component(g, x, y, sx, sy) ==
    [glyph |-> g, x |-> x, y |-> y, scale |-> <<sx, sy>>,
     size |-> 6 + (IF <<sx, sy>> = <<16384, 16384>> THEN 0 ELSE IF sx = sy THEN 2 ELSE 4)]
\* The same with wide places, and with a matrix for its scale.
WideComponent(g, x, y, sx, sy) == [Component(g, x, y, sx, sy) EXCEPT !.size = 16]
TableTags == <<"head", "hhea", "hmtx", "maxp", "loca", "glyf", "cmap">>
Segs == <<Seg(3, 5, -2, <<>>), Seg(8, 10, 0, <<5, 0, 4>>), Seg(12, 13, 2, <<2, 3>>), Seg(65535, 65535, 1, <<>>)>>
GlyphComponents ==
    << <<>>, <<>>, <<>>, <<>>,
           <<WideComponent(2, 4, 8, 16384, 8192), Component(5, -6, 1, 8192, 12288), Component(1, 1, 1, 4096, 4096)>>,
           <<Component(3, 16, -5, 16384, 16384), Component(1, 5, 0, -16384, 16384), Component(2, 0, 0, 16384, 16384)>>,
           <<Component(4, 3, 3, 12288, 16384), Component(6, 2, 1, 8192, 16384), Component(9, 0, 0, 16384, 16384)>> >>
Outlines ==
    <<EmptyGlyph, DrawnGlyph(SquareGlyph, <<3, 7>>, TRUE), DrawnGlyph(RoundGlyph, <<3>>, FALSE),
          DrawnGlyph(LeafGlyph \o DropGlyph, <<5, 10>>, TRUE), EmptyGlyph, EmptyGlyph, EmptyGlyph>>
\* Where glyphs begin, one behind the other, the empty ones without a byte.
LocasOf(parts, outlines) ==
    LET size(k) == IF parts[k] # <<>> THEN FoldLeft(LAMBDA n, c : n + c.size, 10, parts[k])
                   ELSE IF outlines[k].ends = <<>> THEN 0
                   ELSE 12 + 2 * Len(outlines[k].ends) + outlines[k].ins + Len(outlines[k].data)
    IN  [k \in 1..(Len(parts) + 1) |->
           FoldLeft(LAMBDA n, j : n + size(j), 0, [j \in 1..(k - 1) |-> j])]
Face ==
    [ size |-> 910, version |-> 65536,
      directory |-> [k \in 1..7 |-> [tag |-> TableTags[k], length |-> IF k = 6 THEN 300 ELSE 60,
                                     at |-> IF k = 7 THEN 548 ELSE IF k = 6 THEN 608 ELSE 128 + 60 * k]],
      units_per_em |-> 16, num_glyphs |-> 7, num_hmetrics |-> 2, index_to_loc_format |-> 1,
      widths |-> <<12, 9>>,
      maps |-> <<[platform |-> 1, encoding |-> 0, offset |-> 12, format |-> 0],
                 [platform |-> 3, encoding |-> 1, offset |-> 20, format |-> 4]>>,
      words |-> MapWords(Segs), segments |-> Segs,
      components |-> GlyphComponents, outlines |-> Outlines, locas |-> LocasOf(GlyphComponents, Outlines) ]
\* A font with another outline for its glyph 1.
OtherOutline(points, ends) ==
    LET outlines == [Outlines EXCEPT ![2] = DrawnGlyph(points, ends, TRUE)] IN
    [Face EXCEPT !.outlines = outlines, !.locas = LocasOf(GlyphComponents, outlines)]

ShortFont == [size |-> 4]

\* The same with a table whose place wraps around, widths or a map missing, a
\* glyph listed beyond the end of the map, places of two bytes, a glyph in
\* front of its table, glyphs that end too early or behind the file, and
\* contours that end behind the points or before they begin.
MCFonts ==
    { Face, ShortFont, [Face EXCEPT !.directory[6].at = 4000, !.directory[6].length = 200],
      [Face EXCEPT !.num_hmetrics = 8], [Face EXCEPT !.maps[2].platform = 2],
      [Face EXCEPT !.words = SubSeq(@, 1, Len(@) - 1),
                   !.segments = SubSeq(@, 1, 2) \o <<Seg(12, 13, 2, <<2, 0>>), @[4]>>],
      [Face EXCEPT !.index_to_loc_format = 0, !.locas[8] = @ - 2],
      [Face EXCEPT !.locas[2] = 3618, !.locas[3] = 3618 + @ - Face.locas[2], !.locas[6] = @ - 20],
      [Face EXCEPT !.locas[8] = 4000, !.locas[4] = @ + 4],
      OtherOutline(SquareGlyph, <<9, 7>>), OtherOutline(SquareGlyph, <<4, 2, 7>>),
      OtherOutline(SquareGlyph, <<3, 3, 7>>) }
MCCharacters == {0, 2, 3, 4, 5, 6, 8, 9, 10, 11, 12, 13, 14, 65535, 65536}

\* Pictures, in chunks cut at various places.
PngChunk(type, bytes) == [type |-> type, bytes |-> bytes, cut |-> FALSE, fields |-> <<>>]
PngHead(w, h, colour) ==
    [type |-> "IHDR", bytes |-> <<>>, cut |-> FALSE,
     fields |-> [width |-> w, height |-> h, depth |-> 8, colour |-> colour, interlace |-> 0]]
CutChunks(bytes, n) ==
    <<PngChunk("IDAT", SubSeq(bytes, 1, n)), PngChunk("tEXt", <<LowBits(3, 8)>>),
      PngChunk("IDAT", SubSeq(bytes, n + 1, Len(bytes)))>>
PngFile(w, h, colour, bytes, n) ==
    <<PngHead(w, h, colour)>> \o CutChunks(bytes, n) \o <<PngChunk("IEND", <<>>)>>
Picture(chunks, itsRows, sound) == [chunks |-> chunks, rows |-> itsRows, sound |-> sound]
Literals(bytes) == [k \in DOMAIN bytes |-> <<bytes[k]>>]
FixedBlock(items, final) == [type |-> 1, items |-> items, last |-> final]
StoredBlock(bytes, final) == [type |-> 0, bytes |-> bytes, last |-> final]

\* Five rows of two pixels with every filter, the first ones stored and the
\* rest in the fixed trees.
Rows5 == << <<1, 2, 3, 250, 2, 3>>, <<1, 2, 3, 4, 5, 6>>, <<255, 0, 9, 9, 9, 9>>, <<255, 0, 9, 9, 9, 9>>,
            <<7, 8, 1, 2, 8, 1>> >>
Raw5 == Filtered(Rows5, <<4, 3, 1, 2, 4>>, 3)
Blocks5(raw5) == <<StoredBlock(SubSeq(raw5, 1, 5), FALSE), FixedBlock(Literals(SubSeq(raw5, 6, Len(raw5))), TRUE)>>

\* Copies of the longest and of other lengths.
Rows10 == [y \in 1..10 |-> [k \in 1..30 |-> IF k # 1 THEN 0 ELSE IF y = 1 THEN 5 ELSE IF y = 2 THEN 9 ELSE 0]]
Blocks10 == <<FixedBlock(<<<<0>>, <<5>>, <<0>>, <<29, 1>>, <<9>>, <<0>>, <<258, 1>>, <<18, 33>>>>, TRUE)>>

\* Trees of their own, whose lengths are listed with every kind of repetition.
Rows2 == << <<0, 0, 0, 0, 1, 1, 2, 0>>, <<2, 0, 1, 0, 0, 0, 1, 0>> >>
Items2 == <<<<0>>, <<4, 1>>, <<1>>, <<1>>, <<2>>, <<0>>, <<0>>, <<2>>, <<0>>, <<1>>, <<0>>, <<0>>, <<0>>, <<1>>, <<0>>>>
Trees2 ==
    [literal |-> [s \in 0..258 |-> IF s \in {0, 1} THEN 2 ELSE IF s \in {2, 256, 257, 258} THEN 3 ELSE 0],
     distance |-> [s \in 0..2 |-> 2]]
DynamicBlock(items, listed, final) ==
    [type |-> 2, literals |-> 259, distances |-> 3, trees |-> Trees2, listed |-> listed, items |-> items, last |-> final]
ListedInRuns == <<<<2>>, <<2>>, <<3>>, <<18, 138>>, <<18, 112>>, <<17, 3>>, <<3>>, <<3>>, <<3>>, <<2>>, <<2>>, <<2>>>>
ListedShort == <<<<2>>, <<2>>, <<3>>, <<18, 138>>, <<18, 115>>, <<3>>, <<3>>, <<3>>, <<2>>, <<2>>, <<2>>>>
ListedAcross == <<<<2>>, <<2>>, <<3>>, <<18, 138>>, <<18, 115>>, <<3>>, <<16, 3>>, <<2>>, <<2>>>>
Across == DynamicBlock(Items2, ListedAcross, TRUE)
Mixed2 ==
    <<StoredBlock(<<>>, FALSE), DynamicBlock(SubSeq(Items2, 1, 6), ListedShort, FALSE),
      FixedBlock(SubSeq(Items2, 7, 15), FALSE), StoredBlock(<<>>, TRUE)>>
DeflatedStreams ==
    LET blocks == << Blocks5(Raw5), Blocks10, <<DynamicBlock(Items2, ListedShort, TRUE)>>, Mixed2,
                     <<DynamicBlock(Items2, ListedInRuns, TRUE)>>, <<[Across EXCEPT !.trees.distance[0] = 3]>>,
                     <<FixedBlock(<<<<0>>, <<3, 2>>>>, TRUE)>> >>
    IN  [k \in 1..7 |-> Deflated(blocks[k])]

NoPicture == Picture(<<>>, <<>>, FALSE)
PicturesOf(data) ==
    { NoPicture, Picture(PngFile(2, 5, 2, data[1], 7), Rows5, TRUE),
      Picture(PngFile(2, 5, 2, data[1], 0), Rows5, TRUE), Picture(PngFile(2, 5, 2, data[1], 20), Rows5, TRUE),
      Picture(PngFile(10, 10, 2, data[2], 9), Rows10, TRUE), Picture(PngFile(2, 2, 6, data[3], 3), Rows2, TRUE),
      Picture(PngFile(2, 2, 6, data[4], 3), Rows2, TRUE), Picture(PngFile(2, 2, 6, data[5], 2), Rows2, TRUE),
      Picture(PngFile(2, 2, 6, data[6], 2), Rows2, TRUE) }
    \* A height, a width or a colour that the data is not of, a copy from before the start.
    \cup { Picture(PngFile(2, 4, 2, data[1], 9), Rows5, FALSE), Picture(PngFile(3, 5, 2, data[1], 9), Rows5, FALSE),
           Picture(PngFile(2, 5, 3, data[1], 9), Rows5, FALSE), Picture(PngFile(2, 5, 6, data[1], 9), Rows5, FALSE),
           Picture(PngFile(2, 2, 6, data[7], 2), Rows2, FALSE),
           Picture([PngFile(2, 5, 2, data[1], 9) EXCEPT ![4].cut = TRUE], Rows5, FALSE) }
    \* Data that ends anywhere.
    \cup {Picture(<<PngHead(2, 2, 6), PngChunk("IDAT", SubSeq(data[3], 1, n))>>, Rows2, FALSE) : n \in 1..(Len(data[3]) - 1)}
    \cup {Picture(<<PngHead(10, 10, 2), PngChunk("IDAT", SubSeq(data[2], 1, n))>>, Rows10, FALSE) : n \in 1..(Len(data[2]) - 1)}
MCPictures == UNION {PicturesOf(data) : data \in {DeflatedStreams}}

\* Windows.
Px(n) == [n |-> n, of |-> "pixels"]
Pct(n) == [n |-> n, of |-> "percentage"]
OfBase(n, base) == [n |-> n, of |-> "relative", base |-> base]
NoMargin == [left |-> Px(0), top |-> Px(0), right |-> Px(0), bottom |-> Px(0)]
SomeMargin == [left |-> Px(3), top |-> Px(2), right |-> OfBase(2, 2), bottom |-> Px(1)]
NoLook == [radius |-> 0]
Ticked(lines, on) == [checked |-> on, lines |-> lines]
Control(kind, box, look) ==
    [kind |-> kind, visible |-> TRUE, enabled |-> TRUE, x |-> box[1], y |-> box[2], width |-> Px(box[3]), height |-> Px(box[4]),
     margin |-> NoMargin, on_click |-> Nobody, on_keypress |-> Nobody, on_keyrelease |-> Nobody, ground |-> TRUE, look |-> look]
Words(lines, size, align) == [lines |-> lines, font_size |-> size, align |-> align]
Rounded(lines, size, radius) == [lines |-> lines, font_size |-> size, align |-> {}, radius |-> radius]
Framed(adds, control, press) ==
    [width |-> Px(100), height |-> OfBase(2, 40), on_keypress |-> press, on_keyrelease |-> Nobody, adds |-> adds, control |-> control]

\* Two icons as those of the launcher, a panel over the second one.
Desk == Framed(<< <<Root, "a">>, <<"a", "b">>, <<Root, "c">>, <<"c", "d">>, <<Root, "e">> >>,
    [a |-> [Control("Rect", <<2, 2, 30, 40>>, NoLook) EXCEPT !.on_click = "hide e", !.on_keypress = "nothing"],
     b |-> [Control("Text", <<0, 30, 0, 0>>, Words(<<3, 5>>, 2, {})) EXCEPT !.margin = SomeMargin],
     c |-> [Control("Rect", <<40, 2, 30, 40>>, [radius |-> 4]) EXCEPT !.on_click = "move a"],
     d |-> [Control("Button", <<5, 5, 40, 20>>, Words(<<4>>, 0, {"right", "bottom"})) EXCEPT !.on_click = "disable c", !.on_keyrelease = "drop c"],
     e |-> [Control("ListView", <<50, 10, 40, 60>>, NoLook) EXCEPT !.on_click = "show b", !.width = Pct(50)]], Nobody)
\* One control in another in another, in parts of their parents.
Nest == Framed(<< <<Root, "a">>, <<"a", "b">>, <<"b", "c">>, <<"b", "d">>, <<"c", "e">> >>,
    [a |-> [Control("Hscroll", <<10, 10, 80, 60>>, [bar |-> TRUE, content |-> 200, scroll |-> 120]) EXCEPT !.on_click = "hide b"],
     b |-> [Control("Vscroll", <<5, 5, 0, 0>>, [bar |-> TRUE, content |-> 90, scroll |-> 30]) EXCEPT !.width = Pct(90), !.height = Pct(80)],
     c |-> [Control("Button", <<2, 2, 20, 12>>, Words(<<9>>, 5, {"right", "bottom"})) EXCEPT !.on_click = "focus moves", !.on_keypress = "hide b"],
     d |-> [Control("Switch", <<30, 3, 30, 14>>, Ticked(<<3>>, TRUE)) EXCEPT !.on_click = "hide c", !.on_keypress = "show b"],
     e |-> [Control("RadioButton", <<0, 0, 12, 12>>, Ticked(<<0>>, TRUE)) EXCEPT !.on_click = "nothing", !.on_keyrelease = "nothing"]], Nobody)
\* All the others, and a window that takes the keys pressed.
Form == Framed(<< <<Root, "a">>, <<Root, "b">>, <<Root, "c">>, <<Root, "d">>, <<Root, "e">> >>,
    [a |-> [Control("TextBox", <<0, 0, 60, 14>>, Words(<<6>>, 0, {"top"})) EXCEPT !.margin = SomeMargin, !.on_click = "disable a", !.on_keyrelease = "move a"],
     b |-> [Control("CheckBox", <<0, 20, 9, 14>>, Ticked(<<5>>, FALSE)) EXCEPT !.on_keyrelease = "disable b"],
     c |-> Control("ProgressBar", <<0, 40, 50, 14>>, [min |-> 10, max |-> 20, value |-> 25]),
     d |-> [Control("RoundButton", <<60, 40, 21, 13>>, Rounded(<<2>>, 0, 9)) EXCEPT !.on_click = "nothing"],
     e |-> [Control("Text", <<60, 0, 0, 20>>, Words(<<7>>, 0, {})) EXCEPT !.ground = FALSE]], "move a")
EmptyWindow == Framed(<<>>, <<>>, Nobody)
MCWindows == {EmptyWindow, Desk, Nest, Form}
MCClicks == {<<5, 5>>, <<32, 5>>, <<5, 35>>, <<48, 12>>, <<55, 20>>, <<60, 30>>, <<75, 12>>, <<88, 50>>, <<20, 22>>}
MCDoes == ("hide e" :> <<"e", "visible", FALSE>>) @@ ("move a" :> <<"a", "x", 20>>) @@ ("disable c" :> <<"c", "enabled", FALSE>>)
 @@ ("drop c" :> <<"c", "on_click", Nobody>>) @@ ("show b" :> <<"b", "visible", TRUE>>) @@ ("hide b" :> <<"b", "visible", FALSE>>)
 @@ ("hide c" :> <<"c", "visible", FALSE>>) @@ ("focus moves" :> <<"d", "on_keypress", "hide b">>) @@ ("nothing" :> <<>>)
 @@ ("disable a" :> <<"a", "enabled", FALSE>>) @@ ("disable b" :> <<"b", "enabled", FALSE>>)

MCStrings == {<<>>, <<"x">>}

VARIABLE part

parts == <<hvars, iovars, rvars, fvars, tvars, dvars, shvars, kvars, kfvars,
           xvars, svgvars, ttfvars, pngvars, dpvars, ctvars, bvars>>

\* The parts a behaviour is not about start, and stay, in one way only.
MCInit ==
    /\ part \in {"heap", "streams", "lines", "settings", "clock", "calendar", "shapes",
              "display", "rsa", "keyfile", "xml", "svg", "ttf", "png", "controls", "containers"}
    /\ ControlsInit /\ (part = "controls" \/ window = Built(EmptyWindow))
    /\ PngInit /\ (part = "png" \/ picture = NoPicture)
    /\ TtfInit /\ (part = "ttf" \/ (font = ShortFont /\ character = 3))
    /\ SvgInit /\ (part = "svg" \/ drawing = NoDrawing)
    /\ XmlInit /\ (part = "xml" \/ (document = ShortDocument /\ client = "svg" /\ capacity = 1))
    /\ SettingsInit /\ (part = "settings" \/ config = <<>>)
    /\ ClockInit /\ (part = "clock" \/ delta = 0)
    /\ CalendarInit /\ (part = "calendar" \/ moment = [day |-> 0, sec |-> 0])
    /\ UserHeapInit /\ StdioInit /\ ReaderInit /\ ShapesInit /\ DisplayInit /\ ContainersInit /\ RsaInit /\ KeyFileInit

HeapPart == part = "heap" /\ UserHeapNext
    /\ UNCHANGED <<iovars, rvars, fvars, tvars, dvars, shvars, kvars, kfvars,
                   xvars, svgvars, ttfvars, pngvars, dpvars, ctvars, bvars, part>>
\* Nothing is claimed of streams after both a freopen and a tmpfile went wrong.
StreamsPart == part = "streams" /\ StdioNext /\ ~({"file", "buffer"} \subseteq astray)
    /\ UNCHANGED <<hvars, rvars, fvars, tvars, dvars, shvars, kvars, kfvars,
                   xvars, svgvars, ttfvars, pngvars, dpvars, ctvars, bvars, part>>
LinesPart == part = "lines" /\ ReaderNext
    /\ UNCHANGED <<hvars, iovars, fvars, tvars, dvars, shvars, kvars, kfvars,
                   xvars, svgvars, ttfvars, pngvars, dpvars, ctvars, bvars, part>>
\* Nothing is claimed of settings that have all failed or stood on joined lines,
\* and any file they leave is one to start with.
SettingsPart == part = "settings" /\ SettingsNext /\ ~(SchemaKeys \subseteq failed \cup joined)
    /\ UNCHANGED <<hvars, iovars, rvars, tvars, dvars, shvars, kvars, kfvars,
                   xvars, svgvars, ttfvars, pngvars, dpvars, ctvars, bvars, part>>
ClockPart == part = "clock" /\ ClockNext
    /\ UNCHANGED <<hvars, iovars, rvars, fvars, dvars, shvars, kvars, kfvars,
                   xvars, svgvars, ttfvars, pngvars, dpvars, ctvars, bvars, part>>
CalendarPart == part = "calendar" /\ CalendarNext
    /\ UNCHANGED <<hvars, iovars, rvars, fvars, tvars, shvars, kvars, kfvars,
                   xvars, svgvars, ttfvars, pngvars, dpvars, ctvars, bvars, part>>
ShapesPart == part = "shapes" /\ ShapesNext
    /\ UNCHANGED <<hvars, iovars, rvars, fvars, tvars, dvars, kvars, kfvars,
                   xvars, svgvars, ttfvars, pngvars, dpvars, ctvars, bvars, part>>
DisplayPart == part = "display" /\ DisplayNext
    /\ UNCHANGED <<hvars, iovars, rvars, fvars, tvars, dvars, shvars, kvars, kfvars,
                   xvars, svgvars, ttfvars, pngvars, ctvars, bvars, part>>
RsaPart == part = "rsa" /\ RsaNext
    /\ UNCHANGED <<hvars, iovars, rvars, fvars, tvars, dvars, shvars, kfvars,
                   xvars, svgvars, ttfvars, pngvars, dpvars, ctvars, bvars, part>>
KeyFilePart == part = "keyfile" /\ KeyFileNext
    /\ UNCHANGED <<hvars, iovars, rvars, fvars, tvars, dvars, shvars, kvars,
                   xvars, svgvars, ttfvars, pngvars, dpvars, ctvars, bvars, part>>
XmlPart == part = "xml" /\ XmlNext
    /\ UNCHANGED <<hvars, iovars, rvars, fvars, tvars, dvars, shvars, kvars,
                   kfvars, svgvars, ttfvars, pngvars, dpvars, ctvars, bvars, part>>
SvgPart == part = "svg" /\ SvgNext
    /\ UNCHANGED <<hvars, iovars, rvars, fvars, tvars, dvars, shvars, kvars,
                   kfvars, xvars, ttfvars, pngvars, dpvars, ctvars, bvars, part>>
TtfPart == part = "ttf" /\ TtfNext
    /\ UNCHANGED <<hvars, iovars, rvars, fvars, tvars, dvars, shvars, kvars,
                   kfvars, xvars, svgvars, pngvars, dpvars, ctvars, bvars, part>>
PngPart == part = "png" /\ PngNext
    /\ UNCHANGED <<hvars, iovars, rvars, fvars, tvars, dvars, shvars, kvars,
                   kfvars, xvars, svgvars, ttfvars, dpvars, ctvars, bvars, part>>
ControlsPart == part = "controls" /\ ControlsNext
    /\ UNCHANGED <<hvars, iovars, rvars, fvars, tvars, dvars, shvars, kvars,
                   kfvars, xvars, svgvars, ttfvars, pngvars, dpvars, bvars, part>>
ContainersPart == part = "containers" /\ ContainersNext
    /\ UNCHANGED <<hvars, iovars, rvars, fvars, tvars, dvars, shvars, kvars,
                   kfvars, xvars, svgvars, ttfvars, pngvars, dpvars, ctvars, part>>

MCNext ==
    \/ HeapPart \/ StreamsPart \/ LinesPart \/ SettingsPart \/ ClockPart
    \/ CalendarPart \/ ShapesPart \/ RsaPart \/ KeyFilePart \/ XmlPart
    \/ SvgPart \/ TtfPart \/ PngPart \/ DisplayPart \/ ControlsPart \/ ContainersPart

MCSpec == MCInit /\ [][MCNext]_<<parts, part>>
=============================================================================
