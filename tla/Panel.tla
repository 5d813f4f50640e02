------------------------------- MODULE Panel -------------------------------
(***************************************************************************)
(* The panel that shows the screen (src/display/lcd.c) and the serial bus  *)
(* it hangs on (src/spi.c).                                                *)
(*                                                                         *)
(* The panel takes commands and data one byte at a time: two commands set  *)
(* a window, a third one begins to fill it, row by row, with pixels of     *)
(* three bytes each.  System calls draw with interrupts masked.  init      *)
(* draws the mouse cursor with interrupts enabled, so a system call of a   *)
(* program may come between any two bytes of a pixel.                      *)
(***************************************************************************)
EXTENDS Integers, SequencesExt

CONSTANTS
    PanelWidth, PanelHeight, \* SCREEN_WIDTH, SCREEN_HEIGHT
    ByteValues,     \* of a byte of a coordinate: 256
    PanelColors,    \* <<red, green, blue>>
    Boxes,          \* <<x, y, w, h>> that system calls draw (some)
    Spots,          \* cells of the cursor (some)
    MaxDrawings     \* bound: boxes and pixels drawn

Cells == (0..PanelWidth - 1) \X (0..PanelHeight - 1)

ASSUME PanelAssumption ==
    /\ PanelWidth \in Nat \ {0} /\ PanelHeight \in Nat \ {0}
    /\ ByteValues \in Nat /\ ByteValues > 1 /\ MaxDrawings \in Nat
    /\ Spots \subseteq Cells
    /\ PanelColors \subseteq (0..255) \X (0..255) \X (0..255)

VARIABLES
    panel,   \* what the panel was told
    active,  \* SPI_CS_TA: a transfer is active
    todo,    \* what init still has to do for a pixel of the cursor
    cell,    \* the cell and the colour of that pixel
    asked,   \* the colour last asked for in each cell, or none
    drawings \* how many there were

pvars == <<panel, active, todo, cell, asked, drawings>>

Unset == <<>>

----------------------------------------------------------------------------
(* The panel *)

SetX == 42
SetY == 43
WriteRam == 44
Order == 54
Format == 58
SleepOut == 17
DisplayOn == 41

Fresh == [command |-> 0, data |-> <<>>, window |-> <<0, 0, 0, 0>>, at |-> <<0, 0>>,
          pixel |-> 2, blueFirst |-> FALSE, awake |-> FALSE, on |-> FALSE,
          ram |-> [c \in Cells |-> Unset]]

\* A window is <<first column, first row, last column, last row>>.
AfterCell(w, at) ==
    IF at[1] < w[3] THEN <<at[1] + 1, at[2]>>
    ELSE <<w[1], IF at[2] < w[4] THEN at[2] + 1 ELSE w[2]>>

Stored(p, bytes) ==
    LET color == IF p.blueFirst THEN Reverse(bytes) ELSE bytes IN
    [p EXCEPT !.ram = IF p.at \in Cells THEN [@ EXCEPT ![p.at] = color] ELSE @,
              !.at = AfterCell(p.window, @), !.data = <<>>]

\* A command ends the one before, however many bytes of it have come.
TakeCommand(p, c) ==
    [p EXCEPT !.command = c, !.data = <<>>,
              !.at = IF c = WriteRam THEN <<p.window[1], p.window[2]>> ELSE @,
              !.awake = @ \/ c = SleepOut, !.on = @ \/ c = DisplayOn]

TakeData(p, d) ==
    LET all == Append(p.data, d)
        number(i) == all[i] * ByteValues + all[i + 1]
        kept == [p EXCEPT !.data = all] IN
    CASE p.command = SetX /\ Len(all) = 4 -> [kept EXCEPT !.window[1] = number(1), !.window[3] = number(3)]
      [] p.command = SetY /\ Len(all) = 4 -> [kept EXCEPT !.window[2] = number(1), !.window[4] = number(3)]
      [] p.command = Format /\ Len(all) = 1 -> [kept EXCEPT !.pixel = IF d = 102 THEN 3 ELSE 2]
      [] p.command = Order /\ Len(all) = 1 -> [kept EXCEPT !.blueFirst = (d \div 8) % 2 = 1]
      [] p.command = WriteRam /\ Len(all) = p.pixel -> Stored(p, all)
      [] OTHER -> kept

Take(p, transfer) == IF transfer.command THEN TakeCommand(p, transfer.byte) ELSE TakeData(p, transfer.byte)
Received(p, transfers) ==
    LET after[i \in 0..Len(transfers)] == IF i = 0 THEN p ELSE Take(after[i - 1], transfers[i])
    IN  after[Len(transfers)]

----------------------------------------------------------------------------
(* What is sent to it *)

Cmd(c) == [command |-> TRUE, byte |-> c]
Data(d) == [command |-> FALSE, byte |-> d]

LowNumber(n) == <<Data(0), Data(n % ByteValues)>>

\* lcd_set_window
Number(n) == <<Data(n \div ByteValues), Data(n % ByteValues)>>

Window(x0, y0, x1, y1) ==
    <<Cmd(SetX)>> \o Number(x0) \o Number(x1) \o <<Cmd(SetY)>> \o Number(y0) \o Number(y1) \o <<Cmd(WriteRam)>>

\* rgb888_to_rgb565, where the names of red and blue are exchanged, and the
\* three bytes that it is spread to.
Rgb565(color) == (color[3] \div 8) * 2048 + (color[2] \div 4) * 32 + color[1] \div 8
Bytes(rgb) ==
    <<Data(((rgb \div 256) \div 8) * 8), Data((((rgb \div 8) % 256) \div 4) * 4), Data((rgb * 8) % 256)>>

Repeated(bytes, times) == FlattenSeq([i \in 1..times |-> bytes])

\* lcd_drawrect: the window is a column wider and a row higher than the box.
LcdDrawrect(x, y, w, h, color) == Window(x, y, x + w, y + h) \o Repeated(Bytes(Rgb565(color)), w * h)

\* lcd_clear
LcdClear(color) == Window(0, 0, PanelWidth - 1, PanelHeight - 1) \o Repeated(Bytes(Rgb565(color)), PanelWidth * PanelHeight)

\* lcd_init: the commands for the panel's voltages and curves are left out.
LcdInit ==
    <<Cmd(Format), Data(102), Cmd(SleepOut), Cmd(DisplayOn), Cmd(Order), Data(8)>>

----------------------------------------------------------------------------

\* Nothing is claimed of these cells.
Unknown(cells) == [c \in Cells |-> IF c \in cells THEN Unset ELSE asked[c]]
Asked(cells, color) == [c \in Cells |-> IF c \in cells THEN color ELSE asked[c]]

Box(x, y, w, h) == {c \in Cells : c[1] \in x..(x + w - 1) /\ c[2] \in y..(y + h - 1)}

PanelInit ==
    /\ panel = Fresh /\ active = FALSE /\ todo = <<>> /\ cell = Unset
    /\ asked = [c \in Cells |-> Unset] /\ drawings = 0

\* display_init, before the first process runs.
DisplayInit(color) ==
    /\ ~panel.on
    /\ panel' = Received(Fresh, LcdInit \o LcdClear(color))
    /\ asked' = Asked(Cells, color) /\ active' = FALSE
    /\ UNCHANGED <<todo, cell, drawings>>

\* In a system call: put_pixel, draw_hline, draw_vline and draw_rect.  It
\* begins and ends the transfer that init is in.
LcdDraw(x, y, w, h, color) ==
    /\ panel.on /\ drawings < MaxDrawings
    /\ panel' = Received(panel, LcdDrawrect(x, y, w, h, color))
    /\ asked' = IF h = 1 THEN Asked(Box(x, y, w, h), color) ELSE Unknown(Box(x, y, w + 1, h))
    /\ active' = FALSE /\ drawings' = drawings + 1
    /\ UNCHANGED <<todo, cell>>

\* usb_mouse_poll puts a pixel: spi_begin, its bytes and spi_end.
CursorPixel(x, y, color) ==
    /\ panel.on /\ cell = Unset /\ drawings < MaxDrawings
    /\ active' = TRUE /\ todo' = LcdDrawrect(x, y, 1, 1, color)
    /\ cell' = [at |-> <<x, y>>, color |-> color]
    /\ asked' = Unknown({<<x, y>>}) /\ drawings' = drawings + 1
    /\ UNCHANGED panel

\* spi_transfer waits for its byte, and spi_end for the end of the transfer,
\* which do not come when none is active any more.
Send ==
    /\ active /\ todo # <<>>
    /\ panel' = Take(panel, Head(todo)) /\ todo' = Tail(todo)
    /\ UNCHANGED <<active, cell, asked, drawings>>

EndPixel ==
    /\ active /\ todo = <<>>
    /\ active' = FALSE /\ asked' = Asked({cell.at}, cell.color) /\ cell' = Unset
    /\ UNCHANGED <<panel, todo, drawings>>

PanelNext ==
    \/ \E color \in PanelColors :
          \/ DisplayInit(color)
          \/ \E b \in Boxes : LcdDraw(b[1], b[2], b[3], b[4], color)
          \/ \E c \in Spots : CursorPixel(c[1], c[2], color)
    \/ Send \/ EndPixel

PanelSpec == PanelInit /\ [][PanelNext]_pvars

----------------------------------------------------------------------------
(***************************************************************************)
(* lcd.c:94: what was asked for last is on the panel, in the bits it has   *)
(* of each colour, wherever a system call comes between two bytes of       *)
(* init's.  A box of more than one row is not drawn as one, and spoils no  *)
(* more than itself and the column beside it; the pixel that was cut short *)
(* is unknown, and init's last.                                            *)
(***************************************************************************)
OnPanel(color) == <<(color[1] \div 8) * 8, (color[2] \div 4) * 4, (color[3] \div 8) * 8>>
PanelShows ==
    panel.on => panel.awake /\ \A c \in Cells : asked[c] # Unset => panel.ram[c] = OnPanel(asked[c])
=============================================================================
