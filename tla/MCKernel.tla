------------------------------ MODULE MCKernel ------------------------------
(* Model checking instances of what the kernel gives to programs: a         *)
(* behaviour is one of LogMutex, of Heap, of RunList, of AddressSpace, of    *)
(* Loader or of Images.                                                     *)
EXTENDS LogMutex, Heap, RunList, AddressSpace, Loader, Images

CONSTANTS init, loader, app1, app2

MCKernelThreads == {init, loader}
MCUserThreads == {app1, app2}

\* The memory of the heap: seven units behind the headers of three blocks.
MCRequest == {0, 4, 12}
MCPageCounts == {1}

\* Images of two pages and three sections; the last one is the heap.  A stack
\* or surface may take the first page.
Ranges(write, exec, last) ==
    << [pages |-> {4}, write |-> write, exec |-> exec],
       [pages |-> {4, 12}, write |-> exec, exec |-> last],
       [pages |-> {12}, write |-> TRUE, exec |-> FALSE] >>

MCLayouts == {Ranges(FALSE, TRUE, TRUE), Ranges(TRUE, FALSE, TRUE)}

\* Files with segments and sections of every kind, and files with tables of
\* headers, names and metadata that lie within, at the end or outside.
MCSegments == [vaddr : {2, 13}, offset : {0, 3}, filesz : {1, 3}, memsz : {2}]
MCSections == [start : {2}, size : {2, 9}]
Good == [offset |-> 2, entry |-> 1, count |-> 2]
Loadable ==
    [segments : {s \in SUBSET MCSegments : Cardinality(s) <= 2},
     sections : {s \in SUBSET MCSections : Cardinality(s) <= 1}, entry : {1, 3}, size : {0, 4, 6},
     program : {Good}, table : {Good}, names : {1}, named : {TRUE}, metadata : {{}}]
MCTables == [offset : {2, 3, 9}, entry : {0, 1}, count : {0, 2}]
Described ==
    [segments : {{[vaddr |-> 2, offset |-> 0, filesz |-> 1, memsz |-> 2]}}, sections : {{}},
     entry : {3}, size : {4}, program : {Good}, table : MCTables, names : {1, 2, 7}, named : BOOLEAN,
     metadata : {{}} \cup {{m} : m \in [offset : {1, 3}, size : {2, 3}]}]
MCFiles ==
    Loadable \cup Described
    \cup {[f EXCEPT !.program = t] :
           f \in {d \in Described : d.table = Good /\ d.metadata = {} /\ d.named}, t \in MCTables}
MCArguments ==
    { <<1>>, <<5, 3>>, <<2, 7, 1>>, <<3, 3, 3, 9>>, <<13, 1, 6, 6>>, <<30, 12>> }

\* Pictures, and how they are put into files: the size of a pixel, whether
\* masks say where red, green, blue and alpha are, and where they are.
Teal == <<17, 0, 255, 255>>
Dim == <<0, 34, 255, 51>>
Format(bytes, coded, masks) == [bytes |-> bytes, masked |-> coded, masks |-> masks]
Bgra == Format(4, FALSE, << <<16, 8>>, <<8, 8>>, <<0, 8>>, <<24, 8>> >>)
MCFormats ==
    { Bgra, Format(3, FALSE, << <<16, 8>>, <<8, 8>>, <<0, 8>>, <<0, 0>> >>),
      Format(4, TRUE, << <<0, 8>>, <<8, 8>>, <<16, 8>>, <<24, 8>> >>),
      Format(4, TRUE, << <<20, 4>>, <<4, 8>>, <<12, 4>>, <<0, 0>> >>) }

Seen(pixel, f) == [c \in 1..4 |-> IF f.masks[c][2] = 0 THEN 255 ELSE pixel[c]]
\* A channel of four bits is a multiple of 17.  Byte k of a pixel has the part
\* of each channel that lies in it.
Part(value, mask, k) ==
    IF mask[2] = 0 \/ 8 * k <= mask[1] \/ 8 * (k - 1) >= mask[1] + mask[2] THEN 0
    ELSE LET v == IF mask[2] = 8 THEN value ELSE value \div 17
             low == mask[1] - 8 * (k - 1)
         IN  IF low >= 0 THEN (v * 2 ^ low) % 256 ELSE v \div 2 ^ (-low)
PixelByte(pixel, f, k) ==
    Part(pixel[1], f.masks[1], k) + Part(pixel[2], f.masks[2], k)
    + Part(pixel[3], f.masks[3], k) + Part(pixel[4], f.masks[4], k)

BmpBytes(rows, f, up, offset, stride) ==
    [n \in 1..(offset + stride * Len(rows)) |->
        IF n <= offset THEN 0
        ELSE LET y == (n - offset - 1) \div stride + 1
                 x == (n - offset - 1) % stride
                 row == rows[IF up THEN Len(rows) + 1 - y ELSE y]
             IN  IF x >= f.bytes * Len(row) THEN 99
                 ELSE PixelByte(row[x \div f.bytes + 1], f, (x % f.bytes) + 1)]

\* Files with something wrong, and one that is right.
MCDamage == {"none", "missing", "cut", "other magic", "other size", "compressed", "headless"}
Hurt(f, damage) ==
    IF damage = "missing" THEN [f EXCEPT !.there = FALSE]
    ELSE IF damage = "cut" THEN [f EXCEPT !.size = @ - 1]
    ELSE IF damage = "other magic" THEN [f EXCEPT !.magic = FALSE]
    ELSE IF damage = "other size" THEN [f EXCEPT !.bits = 16]
    ELSE IF damage = "compressed" THEN [f EXCEPT !.compression = 1]
    ELSE IF damage = "headless" THEN [f EXCEPT !.size = 53]
    ELSE f
BmpFile(rows, f, up) ==
    LET offset == IF f.masked THEN 70 ELSE 54
        stride == 4 * ((f.bytes * Len(rows[1]) + 3) \div 4)
        byte == BmpBytes(rows, f, up, offset, stride)
    IN  [there |-> TRUE, size |-> Len(byte), magic |-> TRUE, width |-> Len(rows[1]),
         height |-> IF up THEN Len(rows) ELSE -Len(rows), bits |-> 8 * f.bytes,
         compression |-> IF f.masked THEN 3 ELSE 0, offset |-> offset, masks |-> f.masks, byte |-> byte]

MCDrawings == {<<<<Teal, Dim, Teal>>, <<Dim, Dim, Teal>>>>, <<<<Dim>>, <<Teal>>, <<Teal>>>>}
BmpSubjects ==
    { [kind |-> "bmp", file |-> Hurt(BmpFile(rows, f, up), damage), whole |-> damage = "none",
       rows |-> [y \in DOMAIN rows |-> [x \in DOMAIN rows[y] |-> Seen(rows[y][x], f)]]] :
       rows \in MCDrawings, f \in MCFormats, up \in BOOLEAN, damage \in MCDamage }

\* ICO files of two pictures, of which one may lie outside, be empty or not be
\* of the kind that is read.
IcoEntry(rows, how) ==
    LET length == 40 + 4 * Len(rows) * Len(rows[1])
    IN  [width |-> Len(rows[1]), height |-> Len(rows), reserved |-> IF how = "reserved" THEN 1 ELSE 0,
         bytes |-> IF how = "empty" THEN 0 ELSE IF how = "short" THEN length - 1 ELSE length,
         offset |-> IF how = "outside" THEN 400 ELSE 200,
         dib |-> [size |-> 40, planes |-> 1, bits |-> IF how = "coloured" THEN 24 ELSE 32,
                  compression |-> 0, width |-> Len(rows[1]), height |-> 2 * Len(rows),
                  byte |-> BmpBytes(rows, Bgra, TRUE, 0, 4 * Len(rows[1]))]]
MCIcons == { <<<<Teal>>>>, <<<<Dim, Teal>>>>, <<<<Dim>>, <<Teal>>>>, <<<<Dim, Teal>>, <<Teal, Teal>>>> }
MCHow == {"right", "reserved", "empty", "outside", "short", "coloured"}
Skipped(how) == how \in {"reserved", "empty", "outside"}
BestOf(first, second, one, two) ==
    IF Skipped(one) THEN IF Skipped(two) THEN <<>> ELSE second
    ELSE IF Skipped(two) \/ Len(second) * Len(second[1]) <= Len(first) * Len(first[1]) THEN first ELSE second
IcoSubjects ==
    { [kind |-> "ico", rows |-> BestOf(first, second, one, two),
       whole |-> ~Skipped(one) \/ ~Skipped(two),
       file |-> [size |-> 390, reserved |-> 0, type |-> 1,
                 entries |-> <<IcoEntry(first, one), IcoEntry(second, two)>>]] :
       first \in MCIcons, second \in MCIcons, one \in MCHow, two \in MCHow }

\* Icon packs of up to two lines.  A dot stands between the parts of a name.
Bmp1 == BmpFile(<<<<Teal>>>>, Bgra, TRUE)
Bmp2 == BmpFile(<<<<Dim>>>>, Bgra, TRUE)
SvgFile(there) == [there |-> there, text |-> <<<<83, 86, 71>>>>]
IconLine(category, icon, format, drawing, ending, valid) ==
    [category |-> category, icon |-> icon, format |-> format, file |-> drawing, ending |-> ending, valid |-> valid,
     rows |-> IF format = "svg" THEN <<<<83, 86, 71>>>> ELSE IF drawing = Bmp1 THEN <<<<Teal>>>> ELSE <<<<Dim>>>>]
MCLines ==
    { IconLine(<<"d">>, <<"w">>, "bmp", Bmp1, "n", TRUE), IconLine(<<"d">>, <<"w">>, "svg", SvgFile(TRUE), "rn", TRUE),
      IconLine(<<"d">>, <<"b", "w">>, "bmp", Bmp2, "rrn", TRUE), IconLine(<<"d">>, <<"b">>, "bmp", Bmp2, "", TRUE),
      IconLine(<<"d">>, <<"b", "b", "b">>, "svg", SvgFile(FALSE), "n", TRUE),
      IconLine(<<"d">>, <<"b", "b", "b">>, "svg", SvgFile(TRUE), "n", TRUE),
      IconLine(<<>>, <<>>, "bmp", Bmp2, "n", FALSE) }
PackSubjects ==
    { [kind |-> "pack", default |-> Hurt(Bmp1, damage), lines |-> lines] :
      damage \in {"none", "missing"}, lines \in {<<>>} \cup {<<l>> : l \in MCLines} \cup MCLines \X MCLines }

MCSubjects == BmpSubjects \cup IcoSubjects \cup PackSubjects
MCWanted == { <<"default">>, <<"d", ".", "w">>, <<"d", ".", "b">>, <<"low">> }
MCAliases == [name \in {<<"low">>} |-> <<"d", ".", "b">>]

VARIABLE part

parts == <<lockVars, vars, rvars, avars, lvars, ivars>>

MCInit ==
    /\ part \in {"lock", "heap", "runlist", "spaces", "loader", "images"}
    /\ part # "loader" => /\ file = CHOOSE f \in MCFiles : TRUE
                          /\ args = <<1>>
    /\ part # "images" => subject = [kind |-> "pack", default |-> Bmp1, lines |-> <<>>]
    /\ LockInit /\ Init /\ RunListInit /\ AddressSpaceInit /\ LoaderInit /\ ImagesInit
    /\ part # "lock" => current = init

MCNext ==
    \/ part = "lock" /\ LockNext /\ UNCHANGED <<vars, rvars, avars, lvars, ivars, part>>
    \/ part = "heap" /\ Next /\ UNCHANGED <<lockVars, rvars, avars, lvars, ivars, part>>
    \/ part = "runlist" /\ RunListNext /\ UNCHANGED <<lockVars, vars, avars, lvars, ivars, part>>
    \/ part = "spaces" /\ AddressSpaceNext /\ UNCHANGED <<lockVars, vars, rvars, lvars, ivars, part>>
    \/ part = "loader" /\ LoaderNext /\ UNCHANGED <<lockVars, vars, rvars, avars, ivars, part>>
    \/ part = "images" /\ ImagesNext /\ UNCHANGED <<lockVars, vars, rvars, avars, lvars, part>>

MCSpec == MCInit /\ [][MCNext]_<<parts, part>>
=============================================================================
