------------------------------- MODULE Images -------------------------------
(***************************************************************************)
(* Pictures of the kernel: a BMP file (src/image/bmp.c), the best picture  *)
(* of an ICO file (src/image/ico.c, src/image/ICO/DIB.c), an SVG file that *)
(* is kept as it is (src/image/svg.c), and the icon pack that the loader   *)
(* thread builds from a list of files (src/image/icons.c).                 *)
(*                                                                         *)
(* A file is a record of the fields that are read and of the bytes of its  *)
(* pixels; "size" is its length.  A picture is a sequence of rows of       *)
(* pixels, each <<red, green, blue, alpha>>.  Memory and descriptors are   *)
(* named by what they are for; each kmalloc and each open may fail.        *)
(***************************************************************************)
EXTENDS Integers, SequencesExt, FiniteSetsExt

CONSTANTS Subjects,    \* what is loaded: a BMP, an ICO or an icon pack
          NameSize,    \* of t_icon.name, with its end
          Wanted,      \* names of icons that are looked for
          Aliases      \* conf: settings by name, and the icons they name

ASSUME ImagesAssumption == NameSize \in Nat \ {0}

VARIABLES subject,
          todo,      \* what comes next
          nth,        \* the line of icons.lst, or the picture of an ICO, that is next
          room,      \* max_icons
          library,   \* library_count entries
          memory,    \* memory that is in use
          opened,    \* descriptors that are open
          trouble,   \* "memory" once a list was cut short by a lack of it,
                     \* "heap" once kfree may have written where it should not
          answer     \* what is returned: status, rows, and what was found

ivars == <<subject, todo, nth, room, library, memory, opened, trouble, answer>>

Failed == [status |-> 1, rows |-> <<>>]
Succeeded(rows) == [status |-> 0, rows |-> rows]

ImagesInit ==
  /\ subject \in Subjects
  /\ todo = [bmp |-> "open bmp", ico |-> "directory", pack |-> "list path"][subject.kind]
  /\ nth = 1 /\ room = 0 /\ library = <<>> /\ memory = {} /\ opened = {} /\ trouble = {}
  /\ answer = Failed

-----------------------------------------------------------------------------
(* bmp.c: bmp_load_image, for itself or for an entry of the library, the   *)
(* default icon at line 0.                                                 *)

File ==
  IF subject.kind = "bmp" THEN subject.file
  ELSE IF nth = 0 THEN subject.default ELSE subject.lines[nth].file

\* Where the caller goes on, and the memory of the picture it asked for.
Return == IF subject.kind = "bmp" THEN "done" ELSE IF nth = 0 THEN "list again" ELSE "loaded"
Pixels == <<"pixels", nth>>

\* A mask is <<shift, width>>, up to eight bits of a pixel, which is four
\* bytes, or <<0, 0>> for none.
Masked(bytes, mask) ==
  LET k == mask[1] \div 8 + 1
      next_byte == IF k < 4 THEN bytes[k + 1] ELSE 0
  IN  ((bytes[k] + 256 * next_byte) \div 2 ^ (mask[1] % 8)) % 2 ^ mask[2]

\* bmp_extract_channel.
ExtractChannel(bytes, mask) ==
  IF mask[2] = 0 THEN 255 ELSE (Masked(bytes, mask) * 255) \div (2 ^ mask[2] - 1)

BytesPerPixel == File.bits \div 8
HasMasks == File.compression \in {3, 6}
\* The four bytes behind the other masks, be they a mask or the first pixel.
AlphaMask == IF BytesPerPixel = 4 /\ File.size >= 70 THEN File.masks[4] ELSE <<0, 0>>
Height == IF File.height > 0 THEN File.height ELSE -File.height

StrideUnpadded == File.width * BytesPerPixel
Stride == ((File.width * BytesPerPixel + 3) \div 4) * 4

\* Channels in the order of the file, or by their masks; three bytes have none.
PixelOf(bytes) ==
  IF BytesPerPixel = 3 THEN <<bytes[3], bytes[2], bytes[1], 255>>
  ELSE IF File.compression = 0 THEN <<bytes[3], bytes[2], bytes[1], bytes[4]>>
  ELSE <<ExtractChannel(bytes, File.masks[1]), ExtractChannel(bytes, File.masks[2]),
         ExtractChannel(bytes, File.masks[3]), ExtractChannel(bytes, AlphaMask)>>

\* The row of the file that is row y of the picture; a positive height means
\* that the last one comes first.
RowOf(y) == IF File.height > 0 THEN Height - y ELSE y - 1

Converted ==
  [y \in 1..Height |-> [x \in 1..File.width |->
     PixelOf(LET from == File.offset + RowOf(y) * Stride + (x - 1) * BytesPerPixel
             IN  [n \in 1..BytesPerPixel |-> File.byte[from + n]])]]

OpenBmp ==
  /\ todo = "open bmp" /\ answer' = Failed
  /\ \/ File.there /\ opened' = opened \cup {"bmp"} /\ todo' = "header"
     \/ UNCHANGED opened /\ todo' = Return
  /\ UNCHANGED <<subject, nth, room, library, memory, trouble>>

\* The label error: what was allocated goes back, and the file is closed.
BmpError ==
  /\ opened' = opened \ {"bmp"} /\ memory' = memory \ {<<"file", nth>>, Pixels}
  /\ answer' = Failed /\ todo' = Return

HeaderIsGood ==
  /\ File.size >= 54 /\ File.magic /\ BytesPerPixel \in {3, 4} /\ File.compression \in {0, 3, 6}
  /\ HasMasks => File.size >= 66

\* Up to the memory for the rows as they are in the file.
ReadHeader ==
  /\ todo = "header"
  /\ \/ HeaderIsGood /\ memory' = memory \cup {<<"file", nth>>} /\ todo' = "rows" /\ UNCHANGED <<opened, answer>>
     \/ BmpError
  /\ UNCHANGED <<subject, nth, room, library, trouble>>

ReadRows ==
  /\ todo = "rows"
  /\ \/ /\ File.offset + Stride * Height <= File.size
        /\ memory' = (memory \cup {Pixels}) \ {<<"file", nth>>} /\ opened' = opened \ {"bmp"}
        /\ answer' = Succeeded(Converted) /\ todo' = Return
     \/ BmpError
  /\ UNCHANGED <<subject, nth, room, library, trouble>>

-----------------------------------------------------------------------------
(* svg.c: svg_read_file, which reads the file twice, once for its length.  *)

MeasureSvg ==
  /\ todo = "measure"
  /\ \/ File.there /\ memory' = memory \cup {<<"text", nth>>} /\ todo' = "text" /\ UNCHANGED answer
     \/ UNCHANGED memory /\ answer' = Failed /\ todo' = Return
  /\ UNCHANGED <<subject, nth, room, library, opened, trouble>>

ReadSvg ==
  /\ todo = "text" /\ todo' = Return
  /\ \/ answer' = Succeeded(File.text) /\ UNCHANGED memory
     \/ answer' = Failed /\ memory' = memory \ {<<"text", nth>>}
  /\ UNCHANGED <<subject, nth, room, library, opened, trouble>>

-----------------------------------------------------------------------------
(* ico.c and DIB.c: the first of the largest pictures that lie in the file *)

Ico == subject.file
Side(n) == IF n = 0 THEN 256 ELSE n

Usable(e) ==
  e.reserved = 0 /\ e.bytes # 0 /\ e.offset <= Ico.size /\ e.bytes <= Ico.size - e.offset

\* load_dib_from_buff, but its memory: a height of two pictures, of which the
\* second, the mask, is left.
DibIsGood(e) ==
  LET d == e.dib IN
  /\ e.bytes >= 40 /\ d.size = 40 /\ d.planes = 1 /\ d.bits = 32 /\ d.compression = 0
  /\ d.width # 0 /\ d.height \div 2 # 0 /\ 40 + 4 * d.width * (d.height \div 2) <= e.bytes

DibRows(d) ==
  LET height == d.height \div 2 IN
  [y \in 1..height |-> [x \in 1..d.width |->
     LET from == ((height - y) * d.width + x - 1) * 4 IN
     <<d.byte[from + 3], d.byte[from + 2], d.byte[from + 1], d.byte[from + 4]>>]]

ReadDirectory ==
  /\ todo = "directory"
  /\ todo' = IF /\ Ico.size >= 6 /\ Ico.reserved = 0 /\ Ico.type = 1 /\ Len(Ico.entries) # 0
                /\ 16 * Len(Ico.entries) <= Ico.size - 6
               THEN "entries" ELSE "done"
  /\ answer' = [status |-> 1, rows |-> <<>>, area |-> 0]
  /\ UNCHANGED <<subject, nth, room, library, memory, opened, trouble>>

PassEntry ==
  /\ todo = "entries" /\ nth <= Len(Ico.entries)
  /\ LET e == Ico.entries[nth] IN ~Usable(e) \/ (answer.rows # <<>> /\ Side(e.width) * Side(e.height) <= answer.area)
  /\ nth' = nth + 1
  /\ UNCHANGED <<subject, todo, room, library, memory, opened, trouble, answer>>

\* The picture that was the best one before is forgotten, with its memory.
TakeEntry ==
  /\ todo = "entries" /\ nth <= Len(Ico.entries)
  /\ LET e == Ico.entries[nth]
         area == Side(e.width) * Side(e.height)
     IN  /\ Usable(e) /\ (answer.rows = <<>> \/ area > answer.area)
         /\ \/ /\ DibIsGood(e) /\ answer' = [status |-> 1, rows |-> DibRows(e.dib), area |-> area]
               /\ memory' = memory \cup {Pixels} /\ nth' = nth + 1 /\ UNCHANGED todo
            \/ answer' = Failed /\ todo' = "done" /\ UNCHANGED <<nth, memory>>
  /\ UNCHANGED <<subject, room, library, opened, trouble>>

EndDirectory ==
  /\ todo = "entries" /\ nth > Len(Ico.entries) /\ todo' = "done"
  /\ answer' = [answer EXCEPT !.status = IF answer.rows = <<>> THEN 1 ELSE 0]
  /\ UNCHANGED <<subject, nth, room, library, memory, opened, trouble>>

-----------------------------------------------------------------------------
(* icons.c: load_icon_pack.  A line has a path of two parts, or not, the    *)
(* names that it is made of, the format of its ending, and how it ends.     *)

Line == subject.lines[nth]

\* category.icon, as long as it fits.
NameOf(category, icon) ==
  LET name == Append(category, ".") \o icon IN SubSeq(name, 1, Min({Len(name), NameSize - 1}))

\* The first time all returns and newlines are taken off, then one of each.
Trimmed(ending) == ending \in {"", "n", "rn"}

\* free_library.  What kfree is given for a drawing is not its data but where
\* the library holds it: either it refuses, or it takes what lies before for
\* a block.  The default icon has no format, and stays.
FreeLibrary(held) ==
  /\ library' = <<>>
  /\ memory' = held \ ({<<"library">>} \cup {<<"pixels", e.from>> : e \in {e \in ToSet(library) : e.format = "bmp"}})
  /\ \/ UNCHANGED trouble
     \/ (\E e \in ToSet(library) : e.format = "svg") /\ trouble' = trouble \cup {"heap"}

NewListPath ==
  /\ todo = "list path"
  /\ \/ memory' = memory \cup {<<"list path">>} /\ todo' = "open list"
     \/ UNCHANGED memory /\ todo' = "done"
  /\ UNCHANGED <<subject, nth, room, library, opened, trouble, answer>>

OpenList ==
  /\ todo = "open list"
  /\ \/ opened' = opened \cup {"list"} /\ todo' = "count" /\ UNCHANGED memory
     \/ memory' = memory \ {<<"list path">>} /\ todo' = "done" /\ UNCHANGED opened
  /\ UNCHANGED <<subject, nth, room, library, trouble, answer>>

\* One line that is not one of an icon and nothing is loaded; nor is it when
\* there is no memory to tell.
CountLine ==
  /\ todo = "count" /\ nth <= Len(subject.lines)
  /\ \/ Line.valid /\ room' = room + 1 /\ nth' = nth + 1 /\ UNCHANGED <<memory, opened, todo>>
     \/ opened' = opened \ {"list"} /\ memory' = memory \ {<<"list path">>} /\ todo' = "done" /\ UNCHANGED <<room, nth>>
  /\ UNCHANGED <<subject, library, trouble, answer>>

\* At the end of the list, or where a line could not be stored: the library,
\* with the default icon.
NewLibrary ==
  /\ todo = "count" /\ opened' = opened \ {"list"}
  /\ trouble' = IF nth > Len(subject.lines) THEN trouble ELSE trouble \cup {"memory"}
  /\ \/ /\ memory' = memory \cup {<<"library">>} /\ todo' = "open bmp" /\ nth' = 0
        /\ library' = <<[name |-> <<"default">>, format |-> "unknown", from |-> 0, rows |-> <<>>]>>
     \/ memory' = memory \ {<<"list path">>} /\ todo' = "done" /\ UNCHANGED <<nth, library>>
  /\ UNCHANGED <<subject, room, answer>>

\* Whether there is a default icon or not.
OpenListAgain ==
  /\ todo = "list again" /\ answer' = Failed
  /\ \/ /\ opened' = opened \cup {"list"} /\ memory' = memory \ {<<"list path">>}
        /\ library' = [library EXCEPT ![1].rows = answer.rows] /\ todo' = "line" /\ nth' = 1 /\ UNCHANGED trouble
     \/ FreeLibrary(memory \ {<<"list path">>}) /\ todo' = "done" /\ UNCHANGED <<nth, opened>>
  /\ UNCHANGED <<subject, room>>

OfLine == {<<"line">>, <<"parts">>, <<"full path">>}

\* Its parts and its full path are there, or the library goes.
LoadLine ==
  /\ todo = "line" /\ nth <= Len(subject.lines) /\ Line.valid /\ Trimmed(Line.ending)
  /\ \/ /\ memory' = memory \cup OfLine
        /\ todo' = IF Line.format = "svg" THEN "measure" ELSE "open bmp"
        /\ UNCHANGED <<library, opened, trouble, answer>>
     \/ FreeLibrary(memory) /\ opened' = opened \ {"list"} /\ todo' = "done" /\ answer' = Failed
  /\ UNCHANGED <<subject, nth, room>>

\* Also a line that could not be looked at for want of memory.
SkipLine ==
  /\ todo = "line" /\ nth <= Len(subject.lines) /\ nth' = nth + 1
  /\ \/ ~(Line.valid /\ Trimmed(Line.ending)) /\ UNCHANGED trouble
     \/ trouble' = trouble \cup {"memory"}
  /\ UNCHANGED <<subject, todo, room, library, memory, opened, answer>>

AddIcon ==
  /\ todo = "loaded" /\ answer.status = 0 /\ todo' = "line" /\ nth' = nth + 1
  /\ library' = Append(library, [name |-> NameOf(Line.category, Line.icon), format |-> Line.format,
                                 from |-> nth, rows |-> answer.rows])
  /\ memory' = memory \ OfLine
  /\ UNCHANGED <<subject, room, opened, trouble, answer>>

LoseLibrary ==
  /\ todo = "loaded" /\ answer.status # 0 /\ todo' = "done" /\ answer' = Failed
  /\ FreeLibrary(memory \ OfLine) /\ opened' = opened \ {"list"}
  /\ UNCHANGED <<subject, nth, room>>

EndList ==
  /\ todo = "line" /\ opened' = opened \ {"list"}
  /\ trouble' = IF nth > Len(subject.lines) THEN trouble ELSE trouble \cup {"memory"}
  /\ todo' = "done" /\ answer' = Succeeded(<<>>)
  /\ UNCHANGED <<subject, nth, room, library, memory>>

\* get_icon: a setting of that name is an alias, and the first icon of a name
\* is the one; the default icon, of no format, is none.
GetIcon(name, conf) ==
  LET wanted == IF conf /\ name \in DOMAIN Aliases THEN Aliases[name] ELSE name
      first == SelectInSeq(library, LAMBDA e : e.name = wanted)
  IN  IF first = 0 \/ library[first].format = "unknown" THEN [type |-> "unknown", rows |-> <<>>]
      ELSE [type |-> library[first].format, rows |-> library[first].rows]

\* draw_icon, which reads the settings.
DrawIcon ==
  /\ todo = "done" /\ subject.kind = "pack" /\ "found" \notin DOMAIN answer
  /\ \E name \in Wanted :
       answer' = [status |-> answer.status, rows |-> <<>>, found |-> GetIcon(name, TRUE), name |-> name]
  /\ UNCHANGED <<subject, todo, nth, room, library, memory, opened, trouble>>

ImagesNext ==
  \/ OpenBmp \/ ReadHeader \/ ReadRows \/ MeasureSvg \/ ReadSvg
  \/ ReadDirectory \/ PassEntry \/ TakeEntry \/ EndDirectory
  \/ NewListPath \/ OpenList \/ CountLine \/ NewLibrary \/ OpenListAgain
  \/ LoadLine \/ SkipLine \/ AddIcon \/ LoseLibrary \/ EndList \/ DrawIcon

-----------------------------------------------------------------------------
(* Properties *)

\* A picture comes out as it was drawn, whatever the order of its rows, the
\* bytes between them and the place of its channels; nothing comes out of a
\* file that is not whole, and then nothing is left of it (bmp.c, ico.c).
\* Of an ICO it is the first of the largest, and what remains of the memory
\* of smaller ones is lost (ico.c:71).
PicturesAreRead ==
  todo = "done" /\ subject.kind \in {"bmp", "ico"} =>
    /\ opened = {}
    /\ answer.status = 0 => subject.whole /\ answer.rows = subject.rows
    /\ subject.kind = "bmp" => memory = IF answer.status = 0 THEN {Pixels} ELSE {}

OfIcon(e) == IF e.format = "svg" THEN <<"text", e.from>> ELSE <<"pixels", e.from>>
OfDefault == {<<"pixels", 0>>}

\* The entries fit the room that was counted, whatever may fail; a pack is
\* there with all its icons, in their order, or not at all, and then no
\* memory and no descriptor stays behind but that of the default icon and of
\* drawings (icons.c:63-66); all that is in use is held by an entry.
PackIsWhole ==
  subject.kind = "pack" =>
    /\ "memory" \notin trouble => Len(library) <= room + 1
    /\ todo = "done" =>
         LET kept == SelectSeq(subject.lines, LAMBDA l : Trimmed(l.ending)) IN
         /\ opened = {}
         /\ answer.status = 0 => memory \ OfDefault = {<<"library">>} \cup {OfIcon(library[n]) : n \in 2..Len(library)}
         /\ answer.status = 0 /\ trouble = {} =>
              /\ Len(library) = Len(kept) + 1
              /\ \A n \in DOMAIN kept : library[n + 1].format = kept[n].format /\ library[n + 1].rows = kept[n].rows
         /\ answer.status # 0 => library = <<>> /\ memory \subseteq OfDefault \cup {<<"text", n>> : n \in DOMAIN subject.lines}

\* What is found under a name is what the first line of that name says, also
\* by way of a setting, and nothing else is; names that are too long for an
\* entry are found by none (icons.c:160), nor is the default icon.
IconsAreFound ==
  subject.kind = "pack" /\ "found" \in DOMAIN answer /\ trouble = {} =>
    LET name == IF answer.name \in DOMAIN Aliases THEN Aliases[answer.name] ELSE answer.name
        of == SelectSeq(subject.lines, LAMBDA l : Trimmed(l.ending) /\ l.category \o <<".">> \o l.icon = name)
    IN  answer.status = 0 /\ Len(name) < NameSize =>
          answer.found = IF of = <<>> THEN [type |-> "unknown", rows |-> <<>>]
                         ELSE [type |-> of[1].format, rows |-> of[1].rows]

ImagesAreRight == PicturesAreRead /\ PackIsWhole /\ IconsAreFound
=============================================================================
