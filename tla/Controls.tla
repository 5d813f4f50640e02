------------------------------ MODULE Controls ------------------------------
(***************************************************************************)
(* A window of a program and the controls in it: where they are laid out,  *)
(* what they draw, and which of them is told of a click or a key           *)
(* (compiler/sdk/app/app.cpp and compiler/sdk/lib/app).  An application    *)
(* builds its window, draws it, and then handles one event after the       *)
(* other; a handler changes what it likes, and the window is drawn again   *)
(* when a handler was found (app.hpp:148-174).                             *)
(*                                                                         *)
(* A text is the lengths of its lines, in characters of one width.  What   *)
(* an image or a web view shows is left out; rectangles, ellipses and      *)
(* glyphs are drawn by Display.  Every control is added once.              *)
(***************************************************************************)
EXTENDS Integers, SequencesExt

CONSTANTS Root,        \* the window itself, as the parent of its controls
          Nobody,      \* nullptr, for a control and for an empty handler
          Windows,     \* windows as applications build them
          Clicks,      \* where is clicked
          Does,        \* of each handler, what it sets: <<control, field, value>>
          CharAdvance, EmSize  \* of the font

ASSUME FontAssumption == CharAdvance \in Nat /\ EmSize \in Nat \ {0}

VARIABLES window,    \* Window, with its controls
          focused,   \* focused_control
          screen,    \* what was drawn last, in its order
          happened   \* the last event, and what was there before it

ctvars == <<window, focused, screen, happened>>

-----------------------------------------------------------------------------
(* Building: add_control appends to the list of a window or of a control. *)

AddControl(children, add) == [children EXCEPT ![add[1]] = Append(@, add[2])]

Built(w) ==
    [width |-> w.width, height |-> w.height, on_keypress |-> w.on_keypress, on_keyrelease |-> w.on_keyrelease,
     control |-> w.control,
     children |-> FoldLeft(AddControl, [p \in {Root} \cup DOMAIN w.control |-> <<>>], w.adds)]

-----------------------------------------------------------------------------
(* Size: pixels, or a part of the parent, or of another number. *)

Get(size) == IF size.of = "relative" THEN size.n * size.base ELSE size.n
GetOf(size, parent) == IF size.of = "pixels" THEN size.n ELSE (size.n * parent) \div 100

Pixels0(n) == IF n < 0 THEN 0 ELSE n

\* control_inner: the box without the margins
Inner(c, box) ==
    LET left == Get(c.margin.left)  top == Get(c.margin.top) IN
    [x |-> box.x + left, y |-> box.y + top,
     w |-> Pixels0(box.w - left - Get(c.margin.right)), h |-> Pixels0(box.h - top - Get(c.margin.bottom))]

LongestLine(lines) == Max({lines[i] : i \in DOMAIN lines})

TextWidth(lines, height) == LongestLine(lines) * ((CharAdvance * height) \div EmSize)

\* control_font_size
FontSize(requested, w, h, lines) ==
    LET fitting == {IF lines[1] = 0 THEN 0 ELSE w \div lines[1], h \div 2} \ {0} IN
    IF requested > 0 THEN requested ELSE IF fitting = {} THEN 8 ELSE Min(fitting)

-----------------------------------------------------------------------------
(* Layout *)

\* Control::layout: a width or height of nothing is replaced.
Placed(c, parent) ==
    LET w == GetOf(c.width, parent.w)  h == GetOf(c.height, parent.h) IN
    [x |-> parent.x + c.x, y |-> parent.y + c.y, w |-> IF w = 0 THEN 50 ELSE Pixels0(w),
     h |-> IF h = 0 THEN 30 ELSE Pixels0(h)]

\* Text::layout: a text without a size takes that of its lines.
Grown(c, parent, box) ==
    LET w == GetOf(c.width, parent.w)  h == GetOf(c.height, parent.h)
        size == IF c.look.font_size > 0 THEN c.look.font_size ELSE 8 IN
    IF c.kind # "Text" \/ (w # 0 /\ h # 0) THEN box
    ELSE [box EXCEPT
            !.w = IF w # 0 THEN @ ELSE TextWidth(c.look.lines, size * 2) + Get(c.margin.left) + Get(c.margin.right),
            !.h = IF h # 0 THEN @ ELSE size * 2 * Len(c.look.lines) + Get(c.margin.top) + Get(c.margin.bottom)]

ParentIn(win, d) == CHOOSE p \in DOMAIN win.children : d \in ToSet(win.children[p])
WholeWindow(win) == [x |-> 0, y |-> 0, w |-> Get(win.width), h |-> Get(win.height)]

\* computed_location, computed_width and computed_height of every control.
\* Children lie in the box their parent has before it grows.
LaidOut(win) ==
    LET box[p \in DOMAIN win.children] ==
          IF p = Root THEN WholeWindow(win) ELSE Placed(win.control[p], box[ParentIn(win, p)])
    IN  [d \in DOMAIN win.control |-> Grown(win.control[d], box[ParentIn(win, d)], box[d])]

-----------------------------------------------------------------------------
(* Drawing: the boxes that a control fills. *)

Block(x, y, w, h) == [shape |-> "rect", x |-> x, y |-> y, w |-> w, h |-> h]
Disc(x, y, r) == [shape |-> "disc", x |-> x - r, y |-> y - r, w |-> 2 * r + 1, h |-> 2 * r + 1]
Lettering(x, y, w, h) == [shape |-> "text", x |-> x, y |-> y, w |-> w, h |-> h]

\* The text beside a box or a switch.
Label(look, x, y, h) ==
    IF look.lines = <<0>> THEN {}
    ELSE {[Lettering(x, y, TextWidth(look.lines, h), h * Len(look.lines)) EXCEPT !.shape = "label"]}

\* control_text with control_text_position
Anchored(low, space, taken, first, last) ==
    IF first THEN low
    ELSE Max({low, IF last THEN low + space - taken ELSE low + (space - taken) \div 2})

ControlText(c, box) ==
    LET inner == Inner(c, box)
        size == FontSize(c.look.font_size, inner.w, inner.h, c.look.lines)
        w == TextWidth(c.look.lines, size * 2)
        h == size * 2 * Len(c.look.lines)
        anchor == c.look.align IN
    Lettering(Anchored(inner.x, inner.w, w, "left" \in anchor, "right" \in anchor),
              Anchored(inner.y, inner.h, h, "top" \in anchor, "bottom" \in anchor), w, h)

ControlRoundRect(box, radius) ==
    LET r == Min({radius, box.w \div 2, box.h \div 2})
        right == box.x + box.w - r - 1
        bottom == box.y + box.h - r - 1 IN
    IF radius <= 0 THEN {Block(box.x, box.y, box.w, box.h)}
    ELSE {Block(box.x + r, box.y, box.w - r * 2, box.h), Block(box.x, box.y + r, box.w, box.h - r * 2),
          Disc(box.x + r, box.y + r, r), Disc(right, box.y + r, r), Disc(box.x + r, bottom, r), Disc(right, bottom, r)}

\* Where the thumb of a scroll bar begins, and how long it is.
Thumb(length, content, scroll) ==
    LET long == content > length
        thumb == Max({12, IF long THEN (length * length) \div content ELSE length}) IN
    <<IF long THEN (scroll * (length - thumb)) \div (content - length) ELSE 0, thumb>>

Progress(look, w) ==
    LET range == look.max - look.min
        done == (look.value - look.min) * w IN
    IF range = 0 THEN 0 ELSE Min({w, Pixels0(IF range > 0 THEN done \div range ELSE (-done) \div (-range))})

\* draw of each kind of control (controls/*.hpp).
Grounded(c, box) == IF c.ground THEN {Block(box.x, box.y, box.w, box.h)} ELSE {}
InnerBlock(c, box) == LET inner == Inner(c, box) IN Block(inner.x, inner.y, inner.w, inner.h)

DrawButton(c, box) == (IF c.ground THEN {InnerBlock(c, box)} ELSE {}) \cup {ControlText(c, box)}
DrawText(c, box) == (IF c.ground THEN {InnerBlock(c, box)} ELSE {}) \cup {ControlText(c, box)}
DrawTextBox(c, box) == {InnerBlock(c, box), ControlText(c, box)}
DrawRoundButton(c, box) == ControlRoundRect(box, c.look.radius) \cup {ControlText(c, box)}
DrawRectControl(c, box) == ControlRoundRect(box, c.look.radius)
DrawListView(c, box) == Grounded(c, box)

DrawCheckBox(c, box) ==
    LET s == Max({4, Min({box.w, box.h})}) IN
    {Block(box.x, box.y, s, s)} \cup Label(c.look, box.x + s + 8, box.y, s)

DrawRadioButton(c, box) ==
    LET r == Max({2, Min({box.w, box.h}) \div 2}) IN
    {Disc(box.x + r, box.y + r, s) : s \in {r} \cup (IF c.look.checked /\ r > 3 THEN {r \div 2} ELSE {})}
      \cup Label(c.look, box.x + r * 2 + 8, box.y, r * 2)

DrawHscroll(c, box) ==
    LET thumb == Thumb(box.w, c.look.content, c.look.scroll)  y == box.y + box.h - 8 IN
    {Block(box.x, box.y, box.w, box.h)}
      \cup (IF c.look.bar THEN {Block(box.x, y, box.w, 8), Block(box.x + thumb[1], y, thumb[2], 8)} ELSE {})

DrawVscroll(c, box) ==
    LET thumb == Thumb(box.h, c.look.content, c.look.scroll)  x == box.x + box.w - 8 IN
    {Block(box.x, box.y, box.w, box.h)}
      \cup (IF c.look.bar THEN {Block(x, box.y, 8, box.h), Block(x, box.y + thumb[1], 8, thumb[2])} ELSE {})

DrawProgressBar(c, box) ==
    LET x == box.x + 4  y == box.y + 4  w == Max({1, box.w - 8}) IN
    {Block(x + 4, y, w - 8, 8), Disc(x + 4, y + 4, 4), Disc(x + w - 5, y + 4, 4),
     Block(x, y, Progress(c.look, w), 8)}

DrawSwitch(c, box) ==
    LET x == box.x  w == Max({box.w, box.h * 2})  r == box.h \div 2  right == x + w - r - 1 IN
    {Disc(x + r, box.y + r, r), Disc(right, box.y + r, r), Block(x + r, box.y, w - r * 2, box.h),
     Disc(IF c.look.checked THEN right ELSE x + r, box.y + r, IF r > 2 THEN r - 2 ELSE 1)}
      \cup Label(c.look, x + w + 8, box.y, box.h)

PartsOf(c, box) ==
    CASE c.kind = "Button" -> DrawButton(c, box)
      [] c.kind = "Text" -> DrawText(c, box)
      [] c.kind = "TextBox" -> DrawTextBox(c, box)
      [] c.kind = "RoundButton" -> DrawRoundButton(c, box)
      [] c.kind = "Rect" -> DrawRectControl(c, box)
      [] c.kind = "ListView" -> DrawListView(c, box)
      [] c.kind = "CheckBox" -> DrawCheckBox(c, box)
      [] c.kind = "RadioButton" -> DrawRadioButton(c, box)
      [] c.kind = "Hscroll" -> DrawHscroll(c, box)
      [] c.kind = "Vscroll" -> DrawVscroll(c, box)
      [] c.kind = "ProgressBar" -> DrawProgressBar(c, box)
      [] c.kind = "Switch" -> DrawSwitch(c, box)

\* control_children is called by these only.
DrawsChildren(kind) == kind \in {"Rect", "ListView", "Hscroll", "Vscroll"}

\* draw_controls: a control and what it draws of its children, by their lists.
DrawControls(win) ==
    LET visible(list) == SelectSeq(list, LAMBDA d : win.control[d].visible)
        boxes == LaidOut(win)
        drawn[p \in DOMAIN win.children] ==
          LET list == visible(win.children[p])
              below == FlattenSeq([i \in DOMAIN list |-> drawn[list[i]]]) IN
          IF p = Root THEN below
          ELSE <<[who |-> p, box |-> boxes[p], parts |-> PartsOf(win.control[p], boxes[p])]>>
               \o (IF DrawsChildren(win.control[p].kind) THEN below ELSE <<>>)
    IN  drawn[Root]

-----------------------------------------------------------------------------
(* Events *)

Around(box, at) == at[1] >= box.x /\ at[1] < box.x + box.w /\ at[2] >= box.y /\ at[2] < box.y + box.h

\* find_clicked_control and find_key_control: the first control of a list in
\* which something is found, and in it a child before itself.
FoundIn(win, Passes(_), field) ==
    LET first(list, found) ==
          LET hit == SelectSeq(list, LAMBDA d : found[d] # Nobody) IN IF hit = <<>> THEN Nobody ELSE found[hit[1]]
        found[p \in DOMAIN win.children] ==
          IF p # Root /\ ~Passes(p) THEN Nobody
          ELSE LET child == first(win.children[p], found) IN
               IF child # Nobody \/ p = Root THEN child
               ELSE IF win.control[p][field] # Nobody THEN p ELSE Nobody
    IN  found[Root]

Live(win, d) == win.control[d].visible /\ win.control[d].enabled

FindClicked(win, at) ==
    LET boxes == LaidOut(win) IN FoundIn(win, LAMBDA d : Live(win, d) /\ Around(boxes[d], at), "on_click")
FindKey(win, field) == FoundIn(win, LAMBDA d : Live(win, d), field)

FocusableEvenHidden(win, d, field) == d # Nobody /\ win.control[d][field] # Nobody

Focusable(win, d, field) == d # Nobody /\ Live(win, d) /\ win.control[d][field] # Nobody

KeyTarget(win, field) ==
    IF win[field] # Nobody THEN Root
    ELSE IF Focusable(win, focused, field) THEN focused
    ELSE FindKey(win, field)

\* What a handler does to the window.
Changed(win, handler) ==
    LET does == Does[handler] IN
    IF does = <<>> THEN win
    ELSE [win EXCEPT !.control[does[1]] = [@ EXCEPT ![does[2]] = does[3]]]

\* Application::run draws the window again if the event was handled.
Handled(win, handler) == window' = Changed(win, handler) /\ screen' = DrawControls(window')

Told(kind, at, target) ==
    happened' = [kind |-> kind, at |-> at, target |-> target, window |-> window, focused |-> focused, screen |-> screen]

\* dispatch_event
Click(at) ==
    LET target == FindClicked(window, at) IN
    /\ Told("click", at, target)
    /\ IF target = Nobody THEN UNCHANGED <<window, focused, screen>>
       ELSE focused' = target /\ Handled(window, window.control[target].on_click)

Key(field) ==
    LET target == KeyTarget(window, field) IN
    /\ Told(field, <<>>, target)
    /\ UNCHANGED focused
    /\ IF target = Nobody THEN UNCHANGED <<window, screen>>
       ELSE Handled(window, IF target = Root THEN window[field] ELSE window.control[target][field])

ControlsInit ==
    /\ window \in {Built(w) : w \in Windows}
    /\ focused = Nobody
    /\ screen = DrawControls(window)
    /\ happened = [kind |-> "start"]

ControlsNext == (\E at \in Clicks : Click(at)) \/ Key("on_keypress") \/ Key("on_keyrelease")

ControlsSpec == ControlsInit /\ [][ControlsNext]_ctvars
-----------------------------------------------------------------------------
(* Properties *)

\* A control as the way to it: its place in each list from the window's on.
PathsIn(win) ==
    LET path[p \in DOMAIN win.children] ==
          IF p = Root THEN <<>>
          ELSE LET q == ParentIn(win, p) IN Append(path[q], CHOOSE i \in DOMAIN win.children[q] : win.children[q][i] = p)
    IN  path

\* What is asked first: children before their parent, lists from the front.
Sooner(s, t) ==
    \/ IsStrictPrefix(t, s)
    \/ \E i \in DOMAIN s \cap DOMAIN t : s[i] < t[i] /\ \A j \in 1..(i - 1) : s[j] = t[j]

Lineage(path, d) == {p \in DOMAIN path \ {Root} : IsPrefix(path[p], path[d])}

\* Of the controls that have a handler and are live, as is all above them, the
\* first one.
FirstOf(win, Passes(_), field, target) ==
    LET path == PathsIn(win)
        able == {d \in DOMAIN win.control :
                   win.control[d][field] # Nobody /\ \A p \in Lineage(path, d) : win.control[p].visible /\ win.control[p].enabled /\ Passes(p)} IN
    IF able = {} THEN target = Nobody
    ELSE target \in able /\ \A d \in able \ {target} : Sooner(path[target], path[d])

Covers(box, at) == at \in (box.x..(box.x + box.w - 1)) \X (box.y..(box.y + box.h - 1))

\* app.cpp:64: a click is for the first such control around the place; and
\* that is where the user saw it, if what it lies in draws its children.
ClicksAreRight ==
    happened.kind = "click" =>
        LET win == happened.window  target == happened.target  boxes == LaidOut(win) IN
        /\ FirstOf(win, LAMBDA p : Covers(boxes[p], happened.at), "on_click", target)
        /\ target # Nobody =>
             /\ focused = target
             /\ (\A p \in Lineage(PathsIn(win), target) \ {target} : DrawsChildren(win.control[p].kind)) =>
                  \E i \in DOMAIN happened.screen :
                      happened.screen[i].who = target /\ Covers(happened.screen[i].box, happened.at)

\* app.cpp:106: a key is for the window, or else for the control that was
\* clicked last, unless it was hidden or disabled since or handles no such
\* key, or else for the first one that does.
KeysAreRight ==
    happened.kind \in {"on_keypress", "on_keyrelease"} =>
        LET win == happened.window  field == happened.kind  target == happened.target
            held == happened.focused # Nobody /\ win.control[happened.focused][field] # Nobody
                    /\ win.control[happened.focused].visible /\ win.control[happened.focused].enabled IN
        IF win[field] # Nobody THEN target = Root
        ELSE IF held THEN target = happened.focused
        ELSE FirstOf(win, LAMBDA p : TRUE, field, target)

\* What is too small for the least that a control draws.
Cramped(c, box) ==
    CASE c.kind \in {"CheckBox", "RadioButton"} -> box.w < 4 \/ box.h < 4
      [] c.kind = "Hscroll" -> box.w < 12 \/ box.h < 8 \/ c.look.scroll > Pixels0(c.look.content - box.w)
      [] c.kind = "Vscroll" -> box.h < 12 \/ box.w < 8 \/ c.look.scroll > Pixels0(c.look.content - box.h)
      [] c.kind = "ProgressBar" -> box.w < 17 \/ box.h < 12
      [] c.kind = "Switch" -> box.w < 2 * box.h \/ box.h < 3
      [] OTHER -> FALSE

\* A disc of an even diameter takes a pixel more.
Encloses(box, part) ==
    LET more == IF part.shape = "disc" THEN 1 ELSE 0 IN
    /\ part.x >= box.x /\ part.x + part.w <= box.x + box.w + more
    /\ part.y >= box.y /\ part.y + part.h <= box.y + box.h + more

\* controls/*.hpp: what a control draws, but for letters, lies in the box that
\* is clicked, unless that is too small.
DrawnInside ==
    \A i \in DOMAIN screen :
        LET shown == screen[i]  c == window.control[shown.who] IN
        Cramped(c, shown.box) \/ \A part \in shown.parts : part.shape \in {"text", "label"} \/ part.w <= 0 \/ part.h <= 0 \/ Encloses(shown.box, part)

\* helpers.hpp:37: letters begin within the margins.  One line whose size is
\* chosen to fit stays there, and a text that takes its size from its lines
\* fills it.
LettersFit ==
    \A i \in DOMAIN screen :
        LET shown == screen[i]  c == window.control[shown.who]  inner == Inner(c, shown.box) IN
        \A part \in shown.parts :
            part.shape = "text" =>
                /\ part.x >= inner.x /\ part.y >= inner.y
                /\ c.look.font_size = 0 /\ Len(c.look.lines) = 1 /\ 2 * CharAdvance <= EmSize
                   /\ inner.w >= c.look.lines[1] /\ inner.h >= 2 =>
                     part.x + part.w <= inner.x + inner.w /\ part.y + part.h <= inner.y + inner.h
                /\ c.kind = "Text" /\ c.look.font_size > 0 /\ c.width.n = 0 /\ c.height.n = 0 =>
                     [part EXCEPT !.shape = ""] = [shape |-> "", x |-> inner.x, y |-> inner.y, w |-> inner.w, h |-> inner.h]

\* What is clicked is what was shown, what was clicked is told of keys, and
\* everything is drawn where it lies (app.cpp, controls/*.hpp).
ControlsAreRight == ClicksAreRight /\ KeysAreRight /\ DrawnInside /\ LettersFit
=============================================================================
