-------------------------------- MODULE Png ---------------------------------
(***************************************************************************)
(* Reading a PNG file (compiler/sdk/lib/app/parsing/png.h): its chunks,    *)
(* the blocks of deflated data in them, and the filters of its rows.       *)
(*                                                                         *)
(* A file is a sequence of chunks; the data of an "IDAT" is a sequence of  *)
(* bytes, and a byte one of 8 bits, the lowest first, where it is deflated *)
(* and a number where it is not.                                           *)
(***************************************************************************)
EXTENDS Integers, SequencesExt, FiniteSetsExt

CONSTANTS Pictures,    \* [chunks, and what they stand for]
          MaxPixels    \* 1048576

VARIABLES picture,
          step,        \* "chunks", "block", "lengths", "codes", "rows", "done" or "failed"
          header,      \* of the last IHDR
          bits,        \* [data, at]: deflated bits, and the next of them
          last,        \* final_block
          trees,       \* [literal, distance]: code lengths
          lengths,     \* those read so far, of a dynamic block
          raw,         \* output of png_inflate
          rows         \* scanlines

pngvars == <<picture, step, header, bits, last, trees, lengths, raw, rows>>

PngInit ==
  /\ picture \in Pictures /\ step = "chunks"
  /\ header = [width |-> 0, height |-> 0, depth |-> 0, colour |-> 0, interlace |-> 0]
  /\ bits = [data |-> <<>>, at |-> 1] /\ last = FALSE /\ trees = [literal |-> <<>>, distance |-> <<>>]
  /\ lengths = [read |-> <<>>, code |-> <<>>, literals |-> 0, distances |-> 0] /\ raw = <<>> /\ rows = <<>>

Fail == step' = "failed" /\ UNCHANGED <<picture, header, bits, last, trees, lengths, raw, rows>>

-----------------------------------------------------------------------------
(* png_decode: the chunks up to IEND.  A chunk may be cut short.            *)

Upto == Min({n \in DOMAIN picture.chunks : picture.chunks[n].type = "IEND" \/ picture.chunks[n].cut}
              \cup {Len(picture.chunks) + 1}) - 1
Cut == Upto < Len(picture.chunks) /\ picture.chunks[Upto + 1].cut
OfType(type) == SelectSeq(SubSeq(picture.chunks, 1, Upto), LAMBDA c : c.type = type)
Compressed == FlattenSeq([n \in DOMAIN OfType("IDAT") |-> OfType("IDAT")[n].bytes])

ChannelsOf(h) == IF h.colour = 6 THEN 4 ELSE 3
RowSize == header.width * ChannelsOf(header)
RawSize == (RowSize + 1) * header.height

Header == IF OfType("IHDR") = <<>> THEN header ELSE Last(OfType("IHDR")).fields
Supported8Bit(h) ==
  /\ h.width > 0 /\ h.height > 0 /\ h.width <= MaxPixels \div h.height
  /\ h.depth = 8 /\ h.colour \in {2, 6} /\ h.interlace = 0

\* Two bytes in front of the deflated ones and four behind them are not read.
Decodable == ~Cut /\ Supported8Bit(Header) /\ Compressed # <<>>
ReadChunks ==
  /\ step = "chunks"
  /\ IF ~Decodable \/ Len(Compressed) < 6 THEN Fail
     ELSE /\ header' = Header /\ step' = "block"
          /\ bits' = [data |-> FlattenSeq(SubSeq(Compressed, 3, Len(Compressed) - 4)), at |-> 1]
          /\ UNCHANGED <<picture, last, trees, lengths, raw, rows>>

\* One of the four buffers cannot be had.
NoMemory ==
  /\ step = "chunks" /\ Decodable /\ step' = "no memory"
  /\ UNCHANGED <<picture, header, bits, last, trees, lengths, raw, rows>>

-----------------------------------------------------------------------------
(* png_read_bits, and codes: b is [data, at, value].  Bits that are not     *)
(* there leave those before them to be read again, and count as -1.         *)

Unread == -1

ReadBits(b, n) ==
  IF b.at + n > Len(b.data) + 1 THEN [data |-> b.data, at |-> b.at, value |-> Unread]
  ELSE [data |-> b.data, at |-> b.at + n,
        value |-> FoldRight(LAMBDA bit, v : 2 * v + bit, SubSeq(b.data, b.at, b.at + n - 1), 0)]

OfLength(tree, n) == {s \in DOMAIN tree : tree[s] = n}

\* png_build_huffman and png_decode_symbol: codes of a length follow those of
\* the one before, in the order of their symbols.  -1 if there is none.
RECURSIVE DecodeFrom(_, _, _, _, _)
DecodeFrom(b, tree, n, code, first) ==
  LET r == ReadBits(b, 1)
      c == code + r.value
      count == Cardinality(OfLength(tree, n))
      symbol == CHOOSE s \in OfLength(tree, n) : Cardinality({u \in OfLength(tree, n) : u < s}) = c - first
  IN  IF n > 15 \/ r.value = Unread THEN [data |-> b.data, at |-> r.at, value |-> -1]
      ELSE IF c >= first /\ c - first < count THEN [data |-> r.data, at |-> r.at, value |-> symbol]
      ELSE DecodeFrom([data |-> r.data, at |-> r.at], tree, n + 1, 2 * c, 2 * (first + count))

DecodeSymbol(b, tree) == DecodeFrom(b, tree, 1, 0, 0)

LengthBase == <<3, 4, 5, 6, 7, 8, 9, 10, 11, 13, 15, 17, 19, 23, 27, 31, 35, 43, 51, 59, 67, 83, 99, 115,
                131, 163, 195, 227, 258>>
LengthExtra(k) == IF k \in 9..28 THEN (k - 5) \div 4 ELSE 0
DistanceExtra(k) == IF k < 3 THEN 0 ELSE (k - 1) \div 2 - 1
DistanceBase(k) == 1 + FoldLeft(LAMBDA n, j : n + 2 ^ DistanceExtra(j), 0, [j \in 1..(k - 1) |-> j])

-----------------------------------------------------------------------------
(* png_inflate, block by block *)

Unaligned(at) == at
NextByte(at) == 8 * ((at + 6) \div 8) + 1

\* Bits up to the next byte are left out, then there is a length twice.
Stored(b) ==
  LET length == ReadBits([b EXCEPT !.at = NextByte(@)], 16)
      inverse == ReadBits(length, 16)
      end == inverse.at + 8 * length.value
      byte(k) == ReadBits([data |-> b.data, at |-> inverse.at + 8 * (k - 1)], 8).value
  IN  [good |-> length.value # Unread /\ length.value + inverse.value = 65535 /\ end <= Len(b.data) + 1
                  /\ length.value <= RawSize - Len(raw),
       end |-> end, out |-> [k \in 1..length.value |-> byte(k)]]

FixedTrees ==
  [literal |-> [s \in 0..287 |-> IF s <= 143 THEN 8 ELSE IF s <= 255 THEN 9 ELSE IF s <= 279 THEN 7 ELSE 8],
   distance |-> [s \in 0..31 |-> 5]]

CodeOrder == <<16, 17, 18, 0, 8, 7, 9, 6, 10, 5, 11, 4, 12, 3, 13, 2, 14, 1, 15>>

\* The header of a dynamic block: how many lengths there are, and the lengths
\* of their own codes.
DynamicHeader(b) ==
  LET hlit == ReadBits(b, 5)
      hdist == ReadBits(hlit, 5)
      hclen == ReadBits(hdist, 4)
      length(k) == ReadBits([hclen EXCEPT !.at = @ + 3 * (k - 1)], 3).value
      place(s) == CHOOSE k \in 1..19 : CodeOrder[k] = s
  IN  [good |-> hclen.value # Unread /\ hclen.at + 3 * (hclen.value + 4) <= Len(b.data) + 1 /\ hlit.value <= 29,
       end |-> hclen.at + 3 * (hclen.value + 4),
       lengths |-> [read |-> <<>>, literals |-> hlit.value + 257, distances |-> hdist.value + 1,
                    code |-> [s \in 0..18 |-> IF place(s) <= hclen.value + 4 THEN length(place(s)) ELSE 0]]]

ReadBlock ==
  /\ step = "block"
  /\ LET final == ReadBits(bits, 1)
         type == ReadBits(final, 2)
         b == [data |-> bits.data, at |-> type.at]
         stored == Stored(b)
         dynamic == DynamicHeader(b)
     IN  CASE final.value = Unread \/ type.value \notin 0..2 -> Fail
           [] final.value # Unread /\ type.value = 0 ->
                IF ~stored.good THEN Fail
                ELSE /\ raw' = raw \o stored.out /\ bits' = [b EXCEPT !.at = stored.end]
                     /\ step' = IF final.value = 1 THEN "rows" ELSE "block"
                     /\ UNCHANGED <<picture, header, last, trees, lengths, rows>>
           [] final.value # Unread /\ type.value = 1 ->
                /\ bits' = b /\ last' = (final.value = 1) /\ trees' = FixedTrees /\ step' = "codes"
                /\ UNCHANGED <<picture, header, lengths, raw, rows>>
           [] final.value # Unread /\ type.value = 2 ->
                IF ~dynamic.good THEN Fail
                ELSE /\ bits' = [b EXCEPT !.at = dynamic.end] /\ last' = (final.value = 1)
                     /\ lengths' = dynamic.lengths /\ step' = "lengths"
                     /\ UNCHANGED <<picture, header, trees, raw, rows>>

\* The lengths of a dynamic block: one, or a repetition of the last or of 0.
Total == lengths.literals + lengths.distances

ReadCodeLength ==
  /\ step = "lengths" /\ Len(lengths.read) < Total
  /\ LET v == DecodeSymbol(bits, lengths.code)
         extra == ReadBits(v, IF v.value = 16 THEN 2 ELSE IF v.value = 17 THEN 3 ELSE 7)
         n == extra.value + (IF v.value = 18 THEN 11 ELSE 3)
         repeated == IF v.value = 16 THEN Last(lengths.read) ELSE 0
     IN  IF v.value < 0 \/ (v.value = 16 /\ lengths.read = <<>>) THEN Fail
         ELSE IF v.value < 16
           THEN /\ lengths' = [lengths EXCEPT !.read = Append(@, v.value)]
                /\ bits' = [data |-> v.data, at |-> v.at]
                /\ UNCHANGED <<picture, step, header, last, trees, raw, rows>>
         ELSE IF n > Total - Len(lengths.read) THEN Fail
           ELSE /\ lengths' = [lengths EXCEPT !.read = @ \o [k \in 1..n |-> repeated]]
                /\ bits' = [data |-> extra.data, at |-> extra.at]
                /\ UNCHANGED <<picture, step, header, last, trees, raw, rows>>

BuildTrees ==
  /\ step = "lengths" /\ Len(lengths.read) = Total /\ step' = "codes"
  /\ trees' = [literal |-> [s \in 0..(lengths.literals - 1) |-> lengths.read[s + 1]],
               distance |-> [s \in 0..(lengths.distances - 1) |-> lengths.read[lengths.literals + s + 1]]]
  /\ UNCHANGED <<picture, header, bits, last, lengths, raw, rows>>

-----------------------------------------------------------------------------
(* png_inflate_codes: a byte, the end, or a copy of what was written.       *)

RECURSIVE CopyFrom(_, _, _)
CopyFrom(out, distance, n) ==
  IF n = 0 THEN out ELSE CopyFrom(Append(out, out[Len(out) + 1 - distance]), distance, n - 1)

ReadCode ==
  /\ step = "codes"
  /\ LET s == DecodeSymbol(bits, trees.literal)
         k == s.value - 256
         length == ReadBits(s, LengthExtra(k))
         d == DecodeSymbol(length, trees.distance)
         away == ReadBits(d, DistanceExtra(d.value + 1))
         n == LengthBase[k] + length.value
         distance == DistanceBase(d.value + 1) + away.value
         frame == UNCHANGED <<picture, header, last, trees, lengths, rows>>
     IN  IF s.value < 0 \/ s.value > 285 THEN Fail
         ELSE IF s.value < 256 THEN
           IF Len(raw) >= RawSize THEN Fail
           ELSE raw' = Append(raw, s.value) /\ bits' = [data |-> s.data, at |-> s.at] /\ UNCHANGED step /\ frame
         ELSE IF s.value = 256 THEN
           /\ bits' = [data |-> s.data, at |-> s.at] /\ step' = IF last THEN "rows" ELSE "block"
           /\ UNCHANGED raw /\ frame
         ELSE IF d.value \notin 0..29 \/ distance > Len(raw) \/ n > RawSize - Len(raw) THEN Fail
         ELSE /\ raw' = CopyFrom(raw, distance, n) /\ bits' = [data |-> away.data, at |-> away.at]
              /\ UNCHANGED step /\ frame

-----------------------------------------------------------------------------
(* The rows *)

Nearest(left, above, corner) ==
  LET p == left + above - corner
      off(v) == IF p < v THEN v - p ELSE p - v
  IN  IF off(left) <= off(above) /\ off(left) <= off(corner) THEN left
      ELSE IF off(above) <= off(corner) THEN above ELSE corner

Predictor(filter, left, above, corner) ==
  CASE filter = 0 -> 0 [] filter = 1 -> left [] filter = 2 -> above
    [] filter = 3 -> (left + above) \div 2 [] filter = 4 -> Nearest(left, above, corner)

\* Bytes of the row above and to the left are 0 where there are none.
ByteAt(row, x) == IF x \in DOMAIN row THEN row[x] ELSE 0
Above == IF rows = <<>> THEN <<>> ELSE Last(rows)

Unfilter(filter, source) ==
  LET n == ChannelsOf(header) IN
  FoldLeft(LAMBDA row, byte :
             LET x == Len(row) + 1 IN
             Append(row, (byte + Predictor(filter, ByteAt(row, x - n), ByteAt(Above, x), ByteAt(Above, x - n))) % 256),
           <<>>, source)

UnfilterRow ==
  /\ step = "rows"
  /\ LET at == (RowSize + 1) * Len(rows) + 1
         row == SubSeq(raw, at + 1, at + RowSize)
     IN  IF Len(raw) # RawSize THEN Fail
         ELSE IF Len(rows) = header.height
           THEN step' = "done" /\ UNCHANGED <<picture, header, bits, last, trees, lengths, raw, rows>>
         ELSE IF raw[at] > 4 THEN Fail
         ELSE rows' = Append(rows, Unfilter(raw[at], row)) /\ UNCHANGED <<picture, step, header, bits, last, trees, lengths, raw>>

PngNext == ReadChunks \/ NoMemory \/ ReadBlock \/ ReadCodeLength \/ BuildTrees \/ ReadCode \/ UnfilterRow

\* A pixel as four bytes.
Pixels ==
  [k \in 1..(header.width * header.height) |->
     LET n == ChannelsOf(header)
         byte(c) == FlattenSeq(rows)[n * (k - 1) + c]
     IN  <<byte(1), byte(2), byte(3), IF n = 4 THEN byte(4) ELSE 255>>]

-----------------------------------------------------------------------------
(* What an encoder writes: the code of a symbol counts the room that those  *)
(* before it, shorter ones and then smaller ones, take of all codes.        *)

LowBits(v, n) == [k \in 1..n |-> (v \div 2 ^ (k - 1)) % 2]
CodeBits(tree, s) ==
  LET n == tree[s]
      shorter == MapThenSumSet(LAMBDA m : Cardinality(OfLength(tree, m)) * 2 ^ (n - m), 1..(n - 1))
  IN  Reverse(LowBits(shorter + Cardinality({u \in OfLength(tree, n) : u < s}), n))

\* A byte <<b>>, or a copy <<length, distance>>.
ItemBits(t, item) ==
  LET k == Max({k \in 1..29 : LengthBase[k] <= item[1]})
      d == Max({d \in 1..30 : DistanceBase(d) <= item[2]})
  IN  IF Len(item) = 1 THEN CodeBits(t.literal, item[1])
      ELSE CodeBits(t.literal, 256 + k) \o LowBits(item[1] - LengthBase[k], LengthExtra(k))
             \o CodeBits(t.distance, d - 1) \o LowBits(item[2] - DistanceBase(d), DistanceExtra(d))

CoderBits(t, items) ==
  FlattenSeq([k \in DOMAIN items |-> ItemBits(t, items[k])]) \o CodeBits(t.literal, 256)

\* Five bits for the length of each code of a length; these are then listed
\* as <<length>>, or with what repeats them as <<16, n>>, <<17, n>>, <<18, n>>.
LengthItemBits(item) ==
  Reverse(LowBits(item[1], 5)) \o
    (IF item[1] < 16 THEN <<>>
     ELSE IF item[1] = 18 THEN LowBits(item[2] - 11, 7) ELSE LowBits(item[2] - 3, item[1] - 14))

BlockBits(before, b) ==
  LET opened == Append(before, IF b.last THEN 1 ELSE 0) \o LowBits(b.type, 2)
      pad == [k \in 1..((8 - (Len(opened) % 8)) % 8) |-> 1]
  IN  CASE b.type = 0 -> opened \o pad \o LowBits(Len(b.bytes), 16) \o LowBits(65535 - Len(b.bytes), 16)
                           \o FlattenSeq([k \in DOMAIN b.bytes |-> LowBits(b.bytes[k], 8)])
        [] b.type = 1 -> opened \o CoderBits(FixedTrees, b.items)
        [] b.type = 2 -> opened \o LowBits(b.literals - 257, 5) \o LowBits(b.distances - 1, 5) \o LowBits(15, 4)
                           \o FlattenSeq([k \in 1..19 |-> LowBits(5, 3)])
                           \o FlattenSeq([k \in DOMAIN b.listed |-> LengthItemBits(b.listed[k])])
                           \o CoderBits(b.trees, b.items)

\* Bytes of bits, with two in front and four behind.
Deflated(blocks) ==
  LET bits8 == FoldLeft(BlockBits, <<>>, blocks)
      byte(k) == [j \in 1..8 |-> IF 8 * (k - 1) + j <= Len(bits8) THEN bits8[8 * (k - 1) + j] ELSE 0]
      any == LowBits(90, 8)
  IN  <<any, any>> \o [k \in 1..((Len(bits8) + 7) \div 8) |-> byte(k)] \o <<any, any, any, any>>

\* What a filter takes from a byte: for the fourth, of the three bytes around
\* it the one that is nearest to left + above - corner.
Expected(filter, left, above, corner) ==
  LET off(v) == Max({left + above - corner - v, v - left - above + corner})
      nearest == {v \in {left, above, corner} : \A u \in {left, above, corner} : off(v) <= off(u)}
  IN  CASE filter = 0 -> 0 [] filter = 1 -> left [] filter = 2 -> above [] filter = 3 -> (left + above) \div 2
        [] filter = 4 -> IF left \in nearest THEN left ELSE IF above \in nearest THEN above ELSE corner

\* The rows of a picture, bytes of n channels, with a filter for each.
Filtered(picturerows, filters, n) ==
  FlattenSeq([y \in DOMAIN filters |->
    LET row == picturerows[y]
        above == IF y = 1 THEN <<>> ELSE picturerows[y - 1]
    IN  <<filters[y]>> \o [x \in DOMAIN row |->
          (row[x] - Expected(filters[y], ByteAt(row, x - n), ByteAt(above, x), ByteAt(above, x - n))) % 256]])

-----------------------------------------------------------------------------
(* Properties *)

\* The rows of a picture come out as they went in, whatever filters, blocks
\* and codes it was written with and wherever its data was cut into chunks;
\* a file that is not all there, or says what is not so, is refused; and no
\* block writes behind the end of the output (png.h:114, 120, 152).
PictureIsRight ==
  /\ step = "done" => picture.sound /\ rows = picture.rows /\ Len(Pixels) = header.width * header.height
  /\ step = "failed" => ~picture.sound
  /\ step # "chunks" /\ step # "failed" => Len(raw) <= RawSize
=============================================================================
