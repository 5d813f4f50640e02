------------------------------- MODULE Screen -------------------------------
(***************************************************************************)
(* The screen: programs' surfaces, the top bar and the mouse cursor share  *)
(* one framebuffer, here a line of pixels.                                 *)
(*                                                                         *)
(* sys_surface_update (src/src/proc/syscalls/syscalls.c) runs with         *)
(* interrupts masked: it redraws what changed of the top bar, copies the   *)
(* pixels of the caller's surface that differ from a snapshot of the last  *)
(* update, and paints the cursor again.  usb_mouse_poll (src/src/usb/      *)
(* usb.c) runs in init with interrupts enabled: it writes back the pixels  *)
(* saved under the cursor, moves it, saves the pixels there and paints it, *)
(* and any update can come between two of these steps.                     *)
(***************************************************************************)
EXTENDS Integers, Sequences, FiniteSets

CONSTANTS Procs,        \* addresses of the t_process of programs
          Width, Top,   \* SCREEN_WIDTH; the first Top pixels are the top bar
          CursorSize,   \* CURSOR_SIZE
          Colors,       \* what programs draw, Clear among them
          MaxDraws      \* bound: pixels drawn by programs

ASSUME ScreenAssumption ==
  /\ Width \in Nat /\ Top \in 1..Width - 1 /\ CursorSize \in 1..Width
  /\ MaxDraws \in Nat

Clear == "clear"   \* a colour of alpha 0, the one a new surface is filled with
Red   == "red"     \* the cursor
Bar   == {"bar0", "bar1"}
Pixels     == 0..Width - 1
AppPixels  == Top..Width - 1
NoProc     == "no process"

ASSUME ProcsAssumption == NoProc \notin Procs

VARIABLES fb,        \* the framebuffer
          bar, topbar_previous, \* what the top bar shows now, showed last
          surface, snapshot, \* of each program: pixels, and those last copied
          open,      \* the programs that have a surface
          last_updated_proc,
          x,         \* g_mouse.x
          saved, last_pixel_saved, \* g_mouse.last_pixel_color
          poll,      \* where init is in usb_mouse_poll
          cut,       \* an update came in the middle of a poll
          spoilt,    \* one changed what is under the cursor, or that was clear
          reused,    \* a program has the t_process of the one updated last
          draws

svars == <<fb, bar, topbar_previous, surface, snapshot, open, last_updated_proc,
           x, saved, last_pixel_saved, poll, cut, spoilt, reused, draws>>
cursor == <<x, saved, last_pixel_saved, poll>>
apps   == <<surface, snapshot, open, last_updated_proc, reused, draws>>

NoPoll  == <<"none", 0>>
Cursor  == {p \in Pixels : p \in x..(x + CursorSize - 1)}

ScreenInit ==
  /\ fb = [p \in Pixels |-> IF p < Top THEN "bar0" ELSE Clear]
  /\ bar = "bar0" /\ topbar_previous = "bar0"
  /\ surface = [p \in Procs |-> [q \in AppPixels |-> Clear]] /\ snapshot = surface
  /\ open = {} /\ last_updated_proc = NoProc
  /\ x = 0 /\ saved = [i \in 1..CursorSize |-> Clear]
  /\ last_pixel_saved = FALSE /\ poll = NoPoll
  /\ cut = FALSE /\ spoilt = FALSE /\ reused = FALSE /\ draws = 0

\* Once an update cut a poll short, or a program took the place of the one
\* updated last, nothing is claimed of the screen any more.
Followed == ~cut /\ ~reused

\* put_pixel: nothing outside the screen, nothing of a clear colour.
PutPixel(screen, p, color) ==
  IF p \in Pixels /\ color # Clear THEN [screen EXCEPT ![p] = color] ELSE screen

-----------------------------------------------------------------------------
(* Programs and the clock *)

\* sys_surface_create: a cleared surface, a snapshot that holds anything.
Create(p) ==
  /\ Followed /\ p \notin open /\ open' = open \cup {p}
  /\ surface' = [surface EXCEPT ![p] = [q \in AppPixels |-> Clear]]
  /\ \E c \in Colors : snapshot' = [snapshot EXCEPT ![p] = [q \in AppPixels |-> c]]
  /\ reused' = (reused \/ last_updated_proc = p)
  /\ UNCHANGED <<fb, bar, topbar_previous, last_updated_proc, cursor, cut, spoilt, draws>>

\* The program ends and its t_process is freed: the next one may get it.
End(p) ==
  /\ Followed /\ p \in open /\ open' = open \ {p}
  /\ UNCHANGED <<fb, bar, topbar_previous, surface, snapshot, last_updated_proc,
                 cursor, cut, spoilt, reused, draws>>

Draw(p) ==
  /\ Followed /\ p \in open /\ draws < MaxDraws
  /\ \E q \in AppPixels, c \in Colors : surface' = [surface EXCEPT ![p][q] = c]
  /\ draws' = draws + 1
  /\ UNCHANGED <<fb, bar, topbar_previous, snapshot, open, last_updated_proc,
                 cursor, cut, spoilt, reused>>

\* A minute passes.
Tick ==
  /\ Followed /\ bar = "bar0" /\ bar' = "bar1"
  /\ UNCHANGED <<fb, topbar_previous, apps, cursor, cut, spoilt>>

-----------------------------------------------------------------------------
(* sys_surface_update *)

\* draw_topbar: the pixels that differ from the last ones drawn.
Topped(screen) ==
  [p \in Pixels |-> IF p < Top /\ bar # topbar_previous THEN bar ELSE screen[p]]

\* What is copied of the surface of p: all of it when another program was
\* the last to update.
Copied(p) ==
  {q \in AppPixels : last_updated_proc # p \/ surface[p][q] # snapshot[p][q]}

\* The pixels that an update of p writes.
Written(p) == Copied(p) \cup {q \in Pixels : q < Top /\ bar # topbar_previous}

NotRedrawn(screen) == screen

\* usb_mouse_redraw
Redrawn(screen) ==
  [p \in Pixels |-> IF last_pixel_saved /\ p \in Cursor THEN Red ELSE screen[p]]

Update(p) ==
  /\ Followed /\ p \in open
  /\ LET drawn == [q \in Pixels |-> IF q \in Copied(p) THEN surface[p][q]
                                    ELSE Topped(fb)[q]]
     IN /\ fb' = Redrawn(drawn)
        /\ cut' = (cut \/ poll # NoPoll)
        /\ spoilt' = (spoilt \/ (last_pixel_saved /\ \E q \in Cursor \cap Written(p) :
                                   drawn[q] # saved[q - x + 1]))
  /\ topbar_previous' = bar
  /\ snapshot' = [snapshot EXCEPT ![p] = surface[p]]
  /\ last_updated_proc' = p
  /\ UNCHANGED <<bar, surface, open, cursor, reused, draws>>

-----------------------------------------------------------------------------
(* usb_mouse_poll *)

Goto(step) == poll' = step

\* A report that moves the mouse or changes its buttons.
Report ==
  /\ Followed /\ poll = NoPoll
  /\ Goto(IF last_pixel_saved THEN <<"restore", 1>> ELSE <<"move", 1>>)
  /\ UNCHANGED <<fb, bar, topbar_previous, apps, x, saved, last_pixel_saved, cut, spoilt>>

Restore ==
  /\ Followed /\ poll[1] = "restore"
  /\ fb' = PutPixel(fb, x + poll[2] - 1, saved[poll[2]])
  /\ Goto(IF poll[2] < CursorSize THEN <<"restore", poll[2] + 1>> ELSE <<"move", 1>>)
  /\ UNCHANGED <<bar, topbar_previous, apps, x, saved, last_pixel_saved, cut, spoilt>>

Move ==
  /\ Followed /\ poll[1] = "move" /\ Goto(<<"clamp", 1>>)
  /\ \E dx \in -2..2 : x' = x + dx
  /\ UNCHANGED <<fb, bar, topbar_previous, apps, saved, last_pixel_saved, cut, spoilt>>

Clamp ==
  /\ Followed /\ poll[1] = "clamp" /\ Goto(<<"paint", 1>>)
  /\ x' = IF x < 0 THEN 0 ELSE IF x > Width - CursorSize THEN Width - CursorSize ELSE x
  /\ UNCHANGED <<fb, bar, topbar_previous, apps, saved, last_pixel_saved, cut, spoilt>>

\* One pixel is saved and painted, from the left.
Paint ==
  /\ Followed /\ poll[1] = "paint"
  /\ LET i == poll[2]  p == x + i - 1 IN
       /\ saved' = [saved EXCEPT ![i] = fb[p]]
       /\ fb' = PutPixel(fb, p, Red)
       /\ spoilt' = (spoilt \/ fb[p] = Clear)
       /\ Goto(IF i < CursorSize THEN <<"paint", i + 1>> ELSE NoPoll)
       /\ last_pixel_saved' = (last_pixel_saved \/ i = CursorSize)
  /\ UNCHANGED <<bar, topbar_previous, apps, x, cut>>

ScreenNext ==
  \/ \E p \in Procs : Create(p) \/ End(p) \/ Draw(p) \/ Update(p)
  \/ Tick \/ Report \/ Restore \/ Move \/ Clamp \/ Paint

ScreenSpec == ScreenInit /\ [][ScreenNext]_svars

-----------------------------------------------------------------------------
\* Between two polls the cursor is on the screen: what a program copies over
\* it is painted over again, "so it is always visible" (syscalls.c:499), unless
\* an update fell in the middle of a poll, above all the one that paints the
\* cursor for the first time.
CursorIsVisible ==
  poll = NoPoll /\ ~cut /\ last_pixel_saved => \A p \in Cursor : fb[p] = Red

\* Outside the cursor the screen shows what the last program to update drew
\* and the top bar drawn with it, whatever programs updated in turn and
\* wherever the cursor was, as long as nothing changed under the cursor, no
\* update fell in the middle of a poll, nothing under the cursor was clear
\* (usb.c:586, display.c:63) and no program got the t_process of the one that
\* updated last (syscalls.c:472).
ScreenIsRight ==
  poll = NoPoll /\ ~cut /\ ~spoilt /\ ~reused /\ last_updated_proc # NoProc =>
    \A p \in Pixels \ (IF last_pixel_saved THEN Cursor ELSE {}) :
      fb[p] = IF p < Top THEN topbar_previous ELSE snapshot[last_updated_proc][p]

\* What shows is what the program on screen drew, under a cursor that is seen.
ShowsWhatWasDrawn == ScreenIsRight /\ CursorIsVisible
=============================================================================
