------------------------------- MODULE Screen -------------------------------
(***************************************************************************)
(* What the console shows (console/console.c): the cursor, drawing,        *)
(* scrolling, and redraw, which paints the log again when                  *)
(* kswitch_graphics_driver turns the VGA text screen into a framebuffer.   *)
(* A screen is a function from pixel rows to rows of cells; a character    *)
(* fills Font pixel rows of its cell, one of the text screen.  The log is  *)
(* the sequence module ConsoleLog implements, cut into entries.            *)
(***************************************************************************)
EXTENDS Integers, Sequences

CONSTANTS
  TextCols, TextRows,  \* the VGA text screen
  FbCols, FbHeight,    \* getfbmode: columns of characters, pixel rows
  FONT_SIZE_Y,
  MIN_CAPACITY,        \* characters of a log entry
  Glyphs, Colours,     \* characters that are drawn, that switch draw_mode
  SSE,                 \* the processor has SSE: memcpy is memcpy_sse
  MaxChars,            \* the longest log the main line prints, a bound
  MaxKeys              \* key presses, a bound

(* Nothing in the code sees to the framebuffer's last condition: that it   *)
(* is at least one row of characters high.                                 *)
ASSUME ScreenAssumption ==
  /\ {TextRows, FbCols, FbHeight, FONT_SIZE_Y, MaxChars} \subseteq Nat \ {0}
  /\ TextCols \in Nat \ {0, 1} /\ MIN_CAPACITY \in Nat \ {0, 1} /\ SSE \in BOOLEAN /\ MaxKeys \in Nat
  /\ Glyphs # {} /\ Glyphs \cap Colours = {} /\ {"nl", "runaway"} \cap (Glyphs \cup Colours) = {}
  /\ FbHeight \div FONT_SIZE_Y >= 1

VARIABLES
  log,                 \* the console's text, but for fresh
  fresh,               \* <<c>>: its last character, which the main line is rendering
  cursor_x, cursor_y, capacity_x, capacity_y, draw_mode,
  graphics,            \* not graphics_text_mode
  screen,              \* what is seen
  pc,                  \* "print"; "switch": in kswitch_graphics_driver, before redraw;
                       \* "read": in redraw's walk; "flush", "last": in a flushline;
                       \* "wild": there with a cursor below 0
  put, chr, branch,    \* the main line in gr_renderchar: "test", "act" or "none";
                       \* its character, and what the test found
  keys,                \* what keyboard_handler has yet to print
  presses,             \* key presses so far
  todo,                \* what kswitch_graphics_driver has yet to print
  chrid,               \* redraw: the character to read back next, 0 if none
  crtline, maxhere,    \* redraw: the row it has read, backwards; flushline
  printed,             \* what putchar was called with, but for fresh (history)
  redrawn,             \* the length of the log at the redraw (history)
  stray,               \* a store missed the screen or the line (history)
  disturbed            \* a key came not between two characters (history)

walk == <<chrid, crtline, maxhere>>
rendering == <<put, chr, branch, fresh>>
pressed == <<keys, presses, disturbed>>
vars == <<log, cursor_x, cursor_y, capacity_x, capacity_y, draw_mode, graphics, screen,
          pc, rendering, pressed, todo, walk, printed, redrawn, stray>>

NL == "nl"
Gray == "gray"
Blank == <<>>

Font(g) == IF g THEN FONT_SIZE_Y ELSE 1
BlankScreen(g) ==
  [j \in 0..(IF g THEN FbHeight ELSE TextRows) - 1 |->
     [x \in 0..(IF g THEN FbCols ELSE TextCols) - 1 |-> Blank]]

(* gr_drawchar: every pixel row of the cell.                               *)
Draw(px, g, x, y, c, mode) ==
  [j \in DOMAIN px |-> IF j \div Font(g) = y THEN [px[j] EXCEPT ![x] = <<c, mode, j % Font(g)>>] ELSE px[j]]
OnScreen(px, g, x, y) == x \in DOMAIN px[0] /\ y * Font(g) \in DOMAIN px

(* gr_shiftup(1), kvshift: move up by one row of characters, clear the     *)
(* last one; pixel rows below the last character row move too.             *)
ShiftBy(px, rows) ==
  [j \in DOMAIN px |-> IF j + rows \in DOMAIN px THEN px[j + rows] ELSE [x \in DOMAIN px[0] |-> Blank]]

ShiftOnePixelRow(px, g) == ShiftBy(px, 1)

gr_shiftup(px, g) == ShiftBy(px, Font(g))

-----------------------------------------------------------------------------
Init ==
  /\ log = <<>> /\ cursor_x = 0 /\ cursor_y = 0 /\ capacity_x = TextCols /\ capacity_y = TextRows
  /\ draw_mode = Gray /\ graphics = FALSE /\ screen = BlankScreen(FALSE)
  /\ put = "none" /\ chr = NL /\ branch = "here" /\ fresh = <<>> /\ keys = <<>> /\ presses = 0
  /\ pc = "print" /\ todo = <<>> /\ chrid = 0 /\ crtline = <<>> /\ maxhere = 0
  /\ printed = <<>> /\ redrawn = 0 /\ stray = FALSE /\ disturbed = FALSE

NewRowLate(c) == c = NL \/ cursor_x > capacity_x

ScrollsLate(c) == (c = NL \/ cursor_x >= capacity_x) /\ cursor_y >= capacity_y

(* The tests.  A character that does not fit is not drawn: the wrap eats   *)
(* it.                                                                     *)
NewRow(c) == c = NL \/ cursor_x >= capacity_x
Scrolls(c) == NewRow(c) /\ cursor_y >= capacity_y - 1
Branch(c) == IF Scrolls(c) THEN "scroll" ELSE IF NewRow(c) THEN "down" ELSE "here"

(* memcpy_sse prints a 'w': scrolling the text screen prints into it, and  *)
(* when the row is full this print scrolls again, without end.             *)
Echoes(b) == SSE /\ ~graphics /\ b = "scroll"
Full == cursor_x >= capacity_x
Echo(b) == IF ~Echoes(b) THEN <<>> ELSE IF Full THEN <<"w", "runaway">> ELSE <<"w">>

(* What is done after them, with the cursor there is by then.              *)
Render(c, b) ==
  \/ /\ b = "scroll" /\ cursor_x' = 0
     /\ screen' = gr_shiftup(IF Echoes(b) /\ ~Full THEN Draw(screen, FALSE, cursor_x, cursor_y, "w", draw_mode)
                                                  ELSE screen, graphics)
     /\ stray' = (stray \/ (Echoes(b) /\ ~Full /\ ~OnScreen(screen, FALSE, cursor_x, cursor_y)))
     /\ UNCHANGED <<cursor_y, draw_mode>>
  \/ /\ b = "down" /\ cursor_y' = cursor_y + 1
     /\ cursor_x' = 0 /\ UNCHANGED <<screen, draw_mode, stray>>
  \/ /\ b = "here" /\ c \in Colours /\ draw_mode' = c /\ UNCHANGED <<cursor_x, cursor_y, screen, stray>>
  \/ /\ b = "here" /\ c \notin Colours /\ cursor_x' = cursor_x + 1
     /\ screen' = Draw(screen, graphics, cursor_x, cursor_y, c, draw_mode)
     /\ stray' = (stray \/ ~OnScreen(screen, graphics, cursor_x, cursor_y))
     /\ UNCHANGED <<cursor_y, draw_mode>>

Line == <<CHOOSE c \in Glyphs : TRUE, NL>>  \* what these two print
Ran == log # <<>> /\ log[Len(log)] = "runaway"
Main == keys = <<>> /\ ~Ran

(* The main line's putchar, in three steps, between which a key may be     *)
(* pressed: the character is in the log; gr_renderchar has tested; it has  *)
(* acted.                                                                  *)
putchar(c) ==
  /\ Main /\ put = "none" /\ put' = "test" /\ chr' = c /\ fresh' = <<c>>
  /\ UNCHANGED <<log, cursor_x, cursor_y, capacity_x, capacity_y, draw_mode, graphics, screen, pc, branch,
                 pressed, todo, walk, printed, redrawn, stray>>
PrintChar(c) == pc = "print" /\ Len(log) < MaxChars /\ putchar(c)
PrintMode == pc = "switch" /\ todo # <<>> /\ putchar(Head(todo))

Test ==
  /\ Main /\ put = "test" /\ put' = "act" /\ branch' = Branch(chr)
  /\ UNCHANGED <<log, cursor_x, cursor_y, capacity_x, capacity_y, draw_mode, graphics, screen, pc, chr, fresh,
                 pressed, todo, walk, printed, redrawn, stray>>
Act ==
  /\ Main /\ put = "act" /\ put' = "none" /\ Render(chr, branch)
  /\ log' = log \o fresh \o Echo(branch) /\ printed' = printed \o fresh /\ fresh' = <<>>
  /\ todo' = IF pc = "switch" THEN Tail(todo) ELSE todo
  /\ UNCHANGED <<capacity_x, capacity_y, graphics, pc, chr, branch, pressed, walk, redrawn>>

(* keyboard_handler prints a line, with interrupts off, at any moment (of  *)
(* two assignments next to each other, before both).  It comes after what  *)
(* the main line has put in the log.                                       *)
KeyPress ==
  /\ Main /\ pc # "wild" /\ presses < MaxKeys /\ presses' = presses + 1
  /\ keys' = Line
  /\ log' = log \o fresh /\ printed' = printed \o fresh /\ fresh' = <<>>
  /\ disturbed' = (disturbed \/ pc # "print" \/ put # "none")
  /\ UNCHANGED <<cursor_x, cursor_y, capacity_x, capacity_y, draw_mode, graphics, screen, pc, put, chr, branch,
                 todo, walk, redrawn, stray>>
KeyChar ==
  LET c == Head(keys) IN
  /\ keys # <<>> /\ ~Ran /\ keys' = Tail(keys) /\ Render(c, Branch(c))
  /\ log' = log \o <<c>> \o Echo(Branch(c)) /\ printed' = printed \o <<c>>
  /\ UNCHANGED <<capacity_x, capacity_y, graphics, pc, rendering, presses, disturbed, todo, walk, redrawn>>

-----------------------------------------------------------------------------
(* kswitch_graphics_driver prints while the text screen is still on, but   *)
(* with the capacities of the framebuffer.  main.c has printed a line      *)
(* before.  A driver without the four symbols is refused.                  *)
Switch ==
  /\ Main /\ pc = "print" /\ put = "none" /\ ~graphics
  /\ log # <<>> /\ log[Len(log)] = NL /\ cursor_x = 0
  /\ capacity_x' = FbCols /\ capacity_y' = FbHeight \div FONT_SIZE_Y
  /\ pc' = "switch" /\ todo' = Line
  /\ UNCHANGED <<log, cursor_x, cursor_y, draw_mode, graphics, screen, rendering, pressed,
                 walk, printed, redrawn, stray>>

Redraw ==
  /\ Main /\ pc = "switch" /\ todo = <<>>
  /\ pc' = "read" /\ graphics' = TRUE /\ screen' = BlankScreen(TRUE) /\ redrawn' = Len(log)
  /\ cursor_x' = 0 /\ cursor_y' = capacity_y - 1
  /\ chrid' = Len(log) /\ crtline' = [x \in 0..capacity_x |-> NL] /\ maxhere' = 0
  /\ UNCHANGED <<log, capacity_x, capacity_y, draw_mode, rendering, pressed, todo, printed, stray>>

(* redraw reads the log backwards.  crtline[0] is never drawn.             *)
Flushline(x) == maxhere' = x /\ cursor_x' = 0
ReadBack ==
  /\ Main /\ pc = "read" /\ chrid > 0
  /\ crtline' = [crtline EXCEPT ![cursor_x] = log[chrid]] /\ stray' = (stray \/ cursor_x >= capacity_x)
  /\ IF log[chrid] = NL \/ cursor_x >= capacity_x
       THEN pc' = "flush" /\ Flushline(cursor_x) /\ UNCHANGED chrid
       ELSE cursor_x' = cursor_x + 1 /\ chrid' = chrid - 1 /\ UNCHANGED <<pc, maxhere>>
  /\ UNCHANGED <<log, cursor_y, capacity_x, capacity_y, draw_mode, graphics, screen, rendering, pressed,
                 todo, printed, redrawn>>

(* The last cursor_x--: below 0 on an empty top row of a full screen.      *)
(* flushline then takes 65535 characters from beyond the line: not         *)
(* modelled.                                                               *)
ReadLast ==
  /\ Main /\ pc = "read" /\ chrid = 0
  /\ \/ cursor_x > 0 /\ pc' = "last" /\ Flushline(cursor_x - 1) /\ UNCHANGED stray
     \/ cursor_x = 0 /\ pc' = "wild" /\ stray' = TRUE /\ UNCHANGED <<cursor_x, maxhere>>
  /\ UNCHANGED <<log, cursor_y, capacity_x, capacity_y, draw_mode, graphics, screen, rendering, pressed,
                 todo, chrid, crtline, printed, redrawn>>

(* flushline's loop.  Controls take no column.                             *)
FlushChar ==
  /\ Main /\ pc \in {"flush", "last"} /\ cursor_x < maxhere
  /\ LET c == crtline[maxhere - cursor_x] IN
     \/ /\ c \in Colours \cup {NL} /\ maxhere' = maxhere - 1
        /\ draw_mode' = IF c = NL THEN draw_mode ELSE c
        /\ UNCHANGED <<cursor_x, screen, stray>>
     \/ /\ c \notin Colours \cup {NL} /\ cursor_x' = cursor_x + 1
        /\ screen' = Draw(screen, TRUE, cursor_x, cursor_y, c, draw_mode)
        /\ stray' = (stray \/ ~OnScreen(screen, TRUE, cursor_x, cursor_y))
        /\ UNCHANGED <<draw_mode, maxhere>>
  /\ UNCHANGED <<log, cursor_y, capacity_x, capacity_y, graphics, pc, rendering, pressed,
                 todo, chrid, crtline, printed, redrawn>>

(* At the top flushline returns 1, and break leaves the entry, but only    *)
(* the entry: the rest of the log is read on.                              *)
Flushed == cursor_x >= maxhere
EntryBefore(i) == ((i - 1) \div (MIN_CAPACITY - 1)) * (MIN_CAPACITY - 1)
FlushDone ==
  /\ Main /\ pc = "flush" /\ Flushed /\ pc' = "read"
  /\ IF cursor_y = 0
       THEN chrid' = EntryBefore(chrid) /\ UNCHANGED <<cursor_x, cursor_y>>
       ELSE chrid' = chrid - 1 /\ cursor_x' = 1 /\ cursor_y' = cursor_y - 1
  /\ UNCHANGED <<log, capacity_x, capacity_y, draw_mode, graphics, screen, rendering, pressed, todo,
                 crtline, maxhere, printed, redrawn, stray>>

Redrawn ==
  /\ Main /\ pc = "last" /\ Flushed /\ pc' = "print" /\ cursor_x' = 0 /\ cursor_y' = capacity_y - 1
  /\ UNCHANGED <<log, capacity_x, capacity_y, draw_mode, graphics, screen, rendering, pressed,
                 todo, walk, printed, redrawn, stray>>

-----------------------------------------------------------------------------
redraw == Redraw \/ ReadBack \/ ReadLast \/ FlushChar \/ FlushDone \/ Redrawn
Next ==
  \/ (\E c \in Glyphs \cup Colours \cup {NL} : PrintChar(c)) \/ PrintMode \/ Test \/ Act
  \/ KeyPress \/ KeyChar \/ Switch \/ redraw
Spec == Init /\ [][Next]_vars

-----------------------------------------------------------------------------
(* Where the text is after k characters: its row, and what that row has of *)
(* glyphs and of colour codes, and the colour that was last chosen.        *)
TextStart == [row |-> 1, col |-> 0, codes |-> 0, mode |-> Gray]
Moved(a, c) ==
  IF c = NL THEN [a EXCEPT !.row = @ + 1, !.col = 0, !.codes = 0]
  ELSE IF c \in Colours THEN [a EXCEPT !.codes = @ + 1, !.mode = c]
  ELSE [a EXCEPT !.col = @ + 1]
Lay[k \in 0..Len(log)] == IF k = 0 THEN TextStart ELSE Moved(Lay[k - 1], log[k])

(* The text was no wider than the screen it was printed on, and when it    *)
(* was redrawn no longer than the framebuffer, with a column free for the  *)
(* line end.                                                               *)
Width(k) == IF graphics /\ k > redrawn THEN capacity_x ELSE TextCols
Fits ==
  /\ \A k \in 1..Len(log) : log[k] # NL => Lay[k - 1].col < Width(k)
  /\ redrawn > 0 => /\ Lay[redrawn].row <= capacity_y
                    /\ \A k \in 0..redrawn : Lay[k].col + Lay[k].codes < capacity_x - 1

(* Between two characters, when every key came between two characters,     *)
(* what is seen is the end of the log: the cursor's row shows its last     *)
(* row, each row above the one before, every glyph whole; on the text      *)
(* screen also in the right colours.                                       *)
GlyphsAt(row, col) ==
  {k \in 1..Len(log) : log[k] \notin Colours \cup {NL} /\ Lay[k - 1].row = row /\ Lay[k - 1].col = col}
Seen(k, slice) == {<<log[k], m, slice>> : m \in IF graphics THEN Colours \cup {Gray} ELSE {Lay[k - 1].mode}}
ShownIsLog ==
  pc = "print" /\ ~disturbed /\ log = printed /\ Fits =>
    \A j \in DOMAIN screen, x \in DOMAIN screen[0] :
      LET y == j \div Font(graphics)
          here == IF y < capacity_y THEN GlyphsAt(Lay[Len(log)].row + y - cursor_y, x) ELSE {}
      IN  IF here = {} THEN screen[j][x] = Blank
          ELSE \E k \in here : screen[j][x] \in Seen(k, j % Font(graphics))

(* When every key came between two characters, no store misses the screen, *)
(* or the line redraw keeps on its stack.                                  *)
StoresInside == ~disturbed /\ Fits => ~stray

(* The cursor stays inside the capacities, however long the lines are; a   *)
(* key press inside a character may leave it one row too low, never two.   *)
(* While the driver is switched the rows are still the text screen's.      *)
CursorInside ==
  pc # "wild" =>
    /\ cursor_x <= capacity_x
    /\ pc # "switch" => cursor_y <= capacity_y /\ (~disturbed => cursor_y < capacity_y)

=============================================================================
