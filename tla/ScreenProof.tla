----------------------------- MODULE ScreenProof -----------------------------
(***************************************************************************)
(* Proofs about Screen: for screens, framebuffers, glyphs and texts of any *)
(* size, the cursor stays inside, or a row too low when a key was pressed  *)
(* inside a character; and if the text fits and keys were only pressed     *)
(* between two characters, no store misses the screen or the line of       *)
(* redraw, and what is seen is the end of the log.                         *)
(***************************************************************************)
EXTENDS Screen, SequenceTheorems, Recursion

-----------------------------------------------------------------------------
(* Arithmetic.                                                             *)
LEMMA DivMod ==
  ASSUME NEW a \in Nat, NEW b \in Nat \ {0}
  PROVE  /\ a \div b \in Nat /\ a % b \in Nat /\ a % b < b /\ a = b * (a \div b) + (a % b)
  OBVIOUS

-----------------------------------------------------------------------------
(* As long as no key disturbs a character, the steps of one are like one   *)
(* step, in which all of it happens, and the others change nothing of:     *)
seen == <<log, cursor_x, cursor_y, capacity_x, capacity_y, draw_mode, graphics, screen,
          pc, todo, walk, printed, redrawn, stray>>
gr_renderchar(c) == Render(c, Branch(c))
PutOnce(c) ==
  /\ log' = log \o <<c>> \o Echo(Branch(c)) /\ printed' = printed \o <<c>> /\ gr_renderchar(c)
  /\ UNCHANGED <<capacity_x, capacity_y, graphics, pc, walk, redrawn>>
OnceChar(c) == pc = "print" /\ PutOnce(c) /\ UNCHANGED todo
OnceMode == pc = "switch" /\ todo # <<>> /\ PutOnce(Head(todo)) /\ todo' = Tail(todo)
Printed == Glyphs \cup Colours \cup {NL}
OnceNext == (\E c \in Printed : OnceChar(c)) \/ OnceMode \/ Switch \/ redraw

(* What rendering a character does.                                        *)
Echoed(c) == Echoes(Branch(c))
Scrolled(c) ==
  /\ cursor_x' = 0 /\ UNCHANGED <<cursor_y, draw_mode>>
  /\ screen' = gr_shiftup(IF Echoed(c) /\ ~Full THEN Draw(screen, FALSE, cursor_x, cursor_y, "w", draw_mode)
                                              ELSE screen, graphics)
  /\ stray' = (stray \/ (Echoed(c) /\ ~Full /\ ~OnScreen(screen, FALSE, cursor_x, cursor_y)))
Lowered == cursor_x' = 0 /\ cursor_y' = cursor_y + 1 /\ UNCHANGED <<screen, draw_mode, stray>>
Coloured(c) == c \in Colours /\ draw_mode' = c /\ UNCHANGED <<cursor_x, cursor_y, screen, stray>>
Drawn(c) ==
  /\ c \notin Colours /\ cursor_x' = cursor_x + 1 /\ UNCHANGED <<cursor_y, draw_mode>>
  /\ screen' = Draw(screen, graphics, cursor_x, cursor_y, c, draw_mode)
  /\ stray' = (stray \/ ~OnScreen(screen, graphics, cursor_x, cursor_y))

LEMMA RenderIs ==
  ASSUME NEW c, gr_renderchar(c)
  PROVE  \/ Scrolls(c) /\ Scrolled(c)
         \/ NewRow(c) /\ ~Scrolls(c) /\ Lowered
         \/ ~NewRow(c) /\ Coloured(c)
         \/ ~NewRow(c) /\ Drawn(c)
<1>1. CASE Scrolls(c)
  <2>1. Branch(c) = "scroll"  BY <1>1 DEF Branch
  <2>2. Scrolled(c)  BY <2>1 DEF gr_renderchar, Render, Scrolled, Echoed
  <2> QED BY <1>1, <2>2
<1>2. CASE NewRow(c) /\ ~Scrolls(c)
  <2>1. Branch(c) = "down"  BY <1>2 DEF Branch
  <2>2. Lowered  BY <2>1 DEF gr_renderchar, Render, Lowered
  <2> QED BY <1>2, <2>2
<1>3. CASE ~NewRow(c)
  <2>1. Branch(c) = "here"  BY <1>3 DEF Branch, Scrolls
  <2>2. Coloured(c) \/ Drawn(c)  BY <2>1 DEF gr_renderchar, Render, Coloured, Drawn
  <2> QED BY <1>3, <2>2
<1> QED BY <1>1, <1>2, <1>3

LEMMA EchoesScroll == ASSUME NEW c, Echoed(c) PROVE SSE /\ ~graphics /\ Scrolls(c)
<1>1. Branch(c) = "scroll" /\ SSE /\ ~graphics  BY DEF Echoed, Echoes
<1> QED BY <1>1 DEF Branch

-----------------------------------------------------------------------------
(* The cursor.                                                             *)
FbRows == FbHeight \div FONT_SIZE_Y
Redrawing == pc \in {"read", "flush", "last"}
Flushing == pc \in {"flush", "last"}

(* The capacities are those of the screen that is or will soon be on.      *)
Capacities ==
  /\ pc \in {"print", "switch", "read", "flush", "last", "wild"} /\ graphics \in BOOLEAN
  /\ pc = "switch" => ~graphics
  /\ Redrawing => graphics
  /\ IF pc = "print" /\ ~graphics THEN capacity_x = TextCols /\ capacity_y = TextRows
                                  ELSE capacity_x = FbCols /\ capacity_y = FbRows
Cursor ==
  /\ cursor_x \in Nat /\ cursor_y \in Nat /\ maxhere \in Nat
  /\ Flushing => cursor_x <= maxhere /\ maxhere <= capacity_x
Within == cursor_x <= capacity_x /\ (pc # "switch" => cursor_y < capacity_y)
CursorInv == Capacities /\ Cursor /\ Within

LEMMA Sizes ==
  /\ TextCols \in Nat \ {0, 1} /\ TextCols > 1 /\ TextRows \in Nat \ {0} /\ FbCols \in Nat \ {0}
  /\ FbHeight \in Nat \ {0} /\ FONT_SIZE_Y \in Nat \ {0} /\ FbRows \in Nat \ {0}
<1>1. /\ TextCols \in Nat \ {0, 1} /\ TextRows \in Nat \ {0} /\ FbCols \in Nat \ {0} /\ FbHeight \in Nat \ {0}
      /\ FONT_SIZE_Y \in Nat \ {0} /\ FbRows >= 1
  BY ScreenAssumption DEF FbRows
<1>2. FbRows \in Nat  BY <1>1, DivMod DEF FbRows
<1> QED BY <1>1, <1>2

LEMMA CapacitiesAre ==
  ASSUME Capacities PROVE capacity_x \in Nat \ {0} /\ capacity_y \in Nat \ {0}
  BY Sizes DEF Capacities

(* What becomes of the cursor.                                             *)
LEMMA RenderMoves ==
  ASSUME NEW c, gr_renderchar(c)
  PROVE  \/ Scrolls(c) /\ cursor_x' = 0 /\ cursor_y' = cursor_y
         \/ NewRow(c) /\ ~Scrolls(c) /\ cursor_x' = 0 /\ cursor_y' = cursor_y + 1
         \/ ~NewRow(c) /\ cursor_x' \in {cursor_x, cursor_x + 1} /\ cursor_y' = cursor_y
  BY RenderIs DEF Scrolled, Lowered, Coloured, Drawn

LEMMA RenderCursor ==
  ASSUME CursorInv, NEW c, PutOnce(c), ~Redrawing PROVE CursorInv'
<1>1. UNCHANGED <<capacity_x, capacity_y, graphics, pc, maxhere>>  BY DEF PutOnce, walk
<1>2. Capacities'  BY <1>1 DEF CursorInv, Capacities, Redrawing
<1>3. capacity_x \in Nat \ {0} /\ capacity_y \in Nat \ {0}  BY CapacitiesAre DEF CursorInv
<1>4. cursor_x' \in {0, cursor_x, cursor_x + 1} /\ (cursor_x' = cursor_x + 1 => ~(cursor_x >= capacity_x))
  BY RenderMoves DEF PutOnce, NewRow, Scrolls, CursorInv, Cursor
<1>5. cursor_y' \in {cursor_y, cursor_y + 1} /\ (cursor_y' = cursor_y + 1 => ~(cursor_y >= capacity_y - 1))
  BY <1>3, RenderMoves DEF PutOnce, Scrolls, NewRow, CursorInv, Cursor
<1>6. cursor_x \in Nat /\ cursor_y \in Nat /\ cursor_x <= capacity_x /\ (pc # "switch" => cursor_y < capacity_y)
  BY DEF CursorInv, Cursor, Within
<1>7. cursor_x' \in Nat /\ cursor_x' <= capacity_x  BY <1>3, <1>4, <1>6
<1>8. cursor_y' \in Nat /\ (pc # "switch" => cursor_y' < capacity_y)  BY <1>3, <1>5, <1>6
<1> QED BY <1>1, <1>2, <1>7, <1>8 DEF CursorInv, Cursor, Within, Redrawing, Flushing

LEMMA CursorStep == ASSUME CursorInv, [OnceNext]_seen PROVE CursorInv'
<1>0. capacity_x \in Nat \ {0} /\ capacity_y \in Nat \ {0}  BY CapacitiesAre DEF CursorInv
<1> USE DEF CursorInv, Cursor, Within, Redrawing, Flushing
<1>1. CASE \E c \in Printed : OnceChar(c)  BY <1>1, RenderCursor DEF OnceChar
<1>2. CASE OnceMode  BY <1>2, RenderCursor DEF OnceMode
<1>3. CASE Switch
  BY <1>3, Sizes DEF Switch, walk, Capacities, FbRows
<1>4. CASE Redraw
  BY <1>0, <1>4 DEF Redraw, Capacities
<1>5. CASE ReadBack
  BY <1>0, <1>5 DEF ReadBack, Flushline, Capacities
<1>6. CASE ReadLast
  BY <1>0, <1>6 DEF ReadLast, Flushline, Capacities
<1>7. CASE FlushChar
  <2>1. UNCHANGED <<pc, graphics, capacity_x, capacity_y, cursor_y>> /\ Flushing /\ cursor_x < maxhere
    BY <1>7 DEF FlushChar
  <2>2. \/ maxhere' = maxhere - 1 /\ cursor_x' = cursor_x
        \/ maxhere' = maxhere /\ cursor_x' = cursor_x + 1
    BY <1>7 DEF FlushChar
  <2>3. Capacities'  BY <2>1 DEF Capacities
  <2> QED BY <1>0, <2>1, <2>2, <2>3
<1>8. CASE FlushDone
  BY <1>0, <1>8 DEF FlushDone, Flushed, Capacities
<1>9. CASE Redrawn
  BY <1>0, <1>9 DEF Redrawn, walk, Capacities
<1>10. CASE UNCHANGED seen
  BY <1>10 DEF seen, walk, Capacities
<1> QED BY <1>1, <1>2, <1>3, <1>4, <1>5, <1>6, <1>7, <1>8, <1>9, <1>10 DEF OnceNext, redraw

LEMMA CursorInitial == Init => CursorInv
<1> SUFFICES ASSUME Init PROVE CursorInv  OBVIOUS
<1>1. /\ pc = "print" /\ graphics = FALSE /\ capacity_x = TextCols /\ capacity_y = TextRows
      /\ cursor_x = 0 /\ cursor_y = 0 /\ maxhere = 0
  BY DEF Init
<1>2. Capacities  BY <1>1 DEF Capacities, Redrawing
<1>3. Cursor /\ Within  BY <1>1, Sizes DEF Cursor, Within, Flushing
<1> QED BY <1>2, <1>3 DEF CursorInv

-----------------------------------------------------------------------------
(* Where the text is.                                                      *)
Letters == Glyphs \cup Colours \cup {NL, "w", "runaway"}
Modes == Colours \cup {Gray}
Places == [row : Nat, col : Nat, codes : Nat, mode : Modes]
IsLay(L, l) ==
  /\ L[0] = TextStart /\ \A k \in 1..Len(l) : L[k] = Moved(L[k - 1], l[k])
  /\ \A k \in 0..Len(l) : L[k] \in Places

(* What Moved does, field by field.                                        *)
NewLine(a, b) == b.row = a.row + 1 /\ b.col = 0 /\ b.codes = 0 /\ b.mode = a.mode
Recoloured(a, b, c) == b.row = a.row /\ b.col = a.col /\ b.codes = a.codes + 1 /\ b.mode = c
Advanced(a, b) == b.row = a.row /\ b.col = a.col + 1 /\ b.codes = a.codes /\ b.mode = a.mode
MovesTo(a, b, c) ==
  \/ c = NL /\ NewLine(a, b)
  \/ c # NL /\ c \in Colours /\ Recoloured(a, b, c)
  \/ c # NL /\ c \notin Colours /\ Advanced(a, b)

LEMMA MovedIs == ASSUME NEW a \in Places, NEW c PROVE Moved(a, c) \in Places /\ MovesTo(a, Moved(a, c), c)
<1>0. a.row \in Nat /\ a.col \in Nat /\ a.codes \in Nat /\ a.mode \in Modes  BY DEF Places
<1>p. PICK r \in Nat, x \in Nat, n \in Nat, m \in Modes : a = [row |-> r, col |-> x, codes |-> n, mode |-> m]
  <2>1. a = [row |-> a.row, col |-> a.col, codes |-> a.codes, mode |-> a.mode]  BY DEF Places
  <2> QED BY <1>0, <2>1
<1>1. CASE c = NL
  <2>1. PICK b : b = [a EXCEPT !.row = @ + 1, !.col = 0, !.codes = 0]  OBVIOUS
  <2>2. Moved(a, c) = b  BY <1>1, <2>1 DEF Moved
  <2>4. b = [row |-> r + 1, col |-> 0, codes |-> 0, mode |-> m]  BY <1>p, <2>1
  <2>3. b \in Places /\ NewLine(a, b)  BY <1>p, <2>4 DEF Places, NewLine
  <2> QED BY <1>1, <2>2, <2>3 DEF MovesTo
<1>2. CASE c # NL /\ c \in Colours
  <2>1. PICK b : b = [a EXCEPT !.codes = @ + 1, !.mode = c]  OBVIOUS
  <2>2. Moved(a, c) = b  BY <1>2, <2>1 DEF Moved
  <2>4. b = [row |-> r, col |-> x, codes |-> n + 1, mode |-> c]  BY <1>p, <2>1
  <2>3. b \in Places /\ Recoloured(a, b, c)  BY <1>2, <1>p, <2>4 DEF Places, Modes, Recoloured
  <2> QED BY <1>2, <2>2, <2>3 DEF MovesTo
<1>3. CASE c # NL /\ c \notin Colours
  <2>1. PICK b : b = [a EXCEPT !.col = @ + 1]  OBVIOUS
  <2>2. Moved(a, c) = b  BY <1>3, <2>1 DEF Moved
  <2>3. b \in Places /\ Advanced(a, b)  BY <2>1 DEF Places, Advanced
  <2> QED BY <1>3, <2>2, <2>3 DEF MovesTo
<1> QED BY <1>1, <1>2, <1>3

LayStep == [n \in Nat |-> [a \in Places |-> Moved(a, log[n + 1])]]

LEMMA LayIs == log \in Seq(Letters) => IsLay(Lay, log)
<1> SUFFICES ASSUME log \in Seq(Letters) PROVE IsLay(Lay, log)  OBVIOUS
<1>0. Len(log) \in Nat  OBVIOUS
<1> DEFINE g == CHOOSE a : a = [k \in 0..Len(log) |-> IF k = 0 THEN TextStart ELSE Moved(a[k - 1], log[k])]
<1>1. TextStart \in Places  BY DEF TextStart, Places, Modes
<1>a. IsStep(Places, LayStep)  BY MovedIs DEF IsStep, LayStep
<1>2. PICK f : Iterates(Places, TextStart, LayStep, f)  BY <1>1, <1>a, IterationExists
<1>3. f \in [Nat -> Places] /\ f[0] = TextStart /\ \A n \in Nat : f[n + 1] = Moved(f[n], log[n + 1])
  BY <1>2 DEF Iterates, LayStep
<1>4. PICK h : h = [k \in 0..Len(log) |-> f[k]]  OBVIOUS
<1>5. ASSUME NEW k \in 0..Len(log), k # 0 PROVE h[k - 1] = f[k - 1] /\ f[k] = Moved(f[k - 1], log[k])
  <2>1. PICK j \in Nat : j = k - 1 /\ j \in 0..Len(log) /\ j + 1 = k  BY <1>0, <1>5
  <2>2. f[j + 1] = Moved(f[j], log[j + 1])  BY <1>3
  <2> QED BY <1>4, <2>1, <2>2
<1>6. h = [k \in 0..Len(log) |-> IF k = 0 THEN TextStart ELSE Moved(h[k - 1], log[k])]
  BY <1>3, <1>4, <1>5
<1>7. g = [k \in 0..Len(log) |-> IF k = 0 THEN TextStart ELSE Moved(g[k - 1], log[k])]
  BY <1>6, Zenon
<1>8. Lay = g  BY DEF Lay
<1> HIDE DEF g
<1>9. g[0] = TextStart  BY <1>0, <1>7
<1>10. \A k \in 1..Len(log) : g[k] = Moved(g[k - 1], log[k])
  <2> SUFFICES ASSUME NEW k \in 1..Len(log) PROVE g[k] = Moved(g[k - 1], log[k])  OBVIOUS
  <2>1. k \in 0..Len(log) /\ k # 0  OBVIOUS
  <2> QED BY <1>7, <2>1
<1>11. \A k \in 0..Len(log) : g[k] \in Places
  <2> DEFINE S == {n \in Nat : n \in 0..Len(log) => g[n] \in Places}
  <2>1. 0 \in S  BY <1>1, <1>9
  <2>2. ASSUME NEW n \in Nat, n \in S PROVE n + 1 \in S
    <3> SUFFICES ASSUME n + 1 \in 0..Len(log) PROVE g[n + 1] \in Places  OBVIOUS
    <3>1. PICK k : k = n + 1  OBVIOUS
    <3>2. k \in 1..Len(log) /\ k - 1 = n /\ n \in 0..Len(log)  BY <3>1, <1>0
    <3>3. g[k] = Moved(g[n], log[k])  BY <1>10, <3>2
    <3> QED BY <2>2, <3>1, <3>2, <3>3, MovedIs
  <2>3. Nat \subseteq S
    <3> HIDE DEF S
    <3> QED BY <2>1, <2>2, NatInd
  <2> QED BY <2>3
<1> QED BY <1>8, <1>9, <1>10, <1>11 DEF IsLay

LEMMA LayIsNext == (log \in Seq(Letters))' => IsLay(Lay, log)'
  BY LayIs, PTL

(* The places of the text do not change when more is printed.              *)
LEMMA LayKept ==
  ASSUME NEW L, NEW M, NEW l \in Seq(Letters), NEW m \in Seq(Letters), IsLay(L, l), IsLay(M, m),
         Len(l) <= Len(m), \A i \in 1..Len(l) : m[i] = l[i]
  PROVE  \A k \in 0..Len(l) : M[k] = L[k]
<1> DEFINE S == {n \in Nat : n <= Len(l) => M[n] = L[n]}
<1>1. 0 \in S  BY DEF IsLay
<1>2. ASSUME NEW n \in Nat, n \in S PROVE n + 1 \in S
  <2> SUFFICES ASSUME n + 1 <= Len(l) PROVE M[n + 1] = L[n + 1]  OBVIOUS
  <2>1. PICK k : k = n + 1  OBVIOUS
  <2>2. k \in 1..Len(l) /\ k \in 1..Len(m) /\ k - 1 = n  BY <2>1
  <2>3. M[k] = Moved(M[n], m[k]) /\ L[k] = Moved(L[n], l[k])  BY <2>2 DEF IsLay
  <2> QED BY <1>2, <2>1, <2>2, <2>3
<1>3. Nat \subseteq S
  <2> HIDE DEF S
  <2> QED BY <1>1, <1>2, NatInd
<1> QED BY <1>3

(* What Lay says, number by number.                                        *)
LEMMA LayStart ==
  ASSUME NEW L, NEW l, IsLay(L, l) PROVE L[0].row = 1 /\ L[0].col = 0 /\ L[0].codes = 0 /\ L[0].mode = Gray
  BY DEF IsLay, TextStart

LEMMA LayTypes ==
  ASSUME NEW L, NEW l, IsLay(L, l), NEW k \in 0..Len(l)
  PROVE  L[k].row \in Nat /\ L[k].col \in Nat /\ L[k].codes \in Nat /\ L[k].mode \in Modes
<1>1. L[k] \in Places  BY DEF IsLay
<1> QED BY <1>1 DEF Places

LEMMA LayMoves ==
  ASSUME NEW L, NEW l, IsLay(L, l), Len(l) \in Nat, NEW k \in 1..Len(l) PROVE MovesTo(L[k - 1], L[k], l[k])
<1>1. PICK j : j = k - 1 /\ j \in 0..Len(l)  OBVIOUS
<1>2. L[j] \in Places /\ L[k] = Moved(L[j], l[k])  BY <1>1 DEF IsLay
<1> QED BY <1>1, <1>2, MovedIs

(* Rows go up, and a row without a line end is as long as its characters.  *)
LEMMA RowsRise ==
  ASSUME NEW L, NEW l \in Seq(Letters), IsLay(L, l), NEW j \in 0..Len(l), NEW k \in 0..Len(l), j <= k
  PROVE  1 <= L[j].row /\ L[j].row <= L[k].row
<1>1. ASSUME NEW n \in 0..Len(l)
      PROVE \A i \in Nat : n + i <= Len(l) => L[n].row <= L[n + i].row
  <2> DEFINE S == {i \in Nat : n + i <= Len(l) => L[n].row <= L[n + i].row}
  <2>0. L[n].row \in Nat  BY LayTypes
  <2>1. 0 \in S  BY <2>0
  <2>2. ASSUME NEW i \in Nat, i \in S PROVE i + 1 \in S
    <3> SUFFICES ASSUME n + (i + 1) <= Len(l) PROVE L[n].row <= L[n + (i + 1)].row  OBVIOUS
    <3>1. PICK m : m = n + (i + 1) /\ m \in 1..Len(l) /\ m - 1 = n + i /\ m - 1 \in 0..Len(l)  OBVIOUS
    <3>2. PICK p : p = m - 1 OBVIOUS
    <3>3. MovesTo(L[p], L[m], l[m])  BY <3>1, <3>2, LayMoves
    <3>4. L[p].row \in Nat /\ L[m].row \in Nat  BY <3>1, <3>2, LayTypes
    <3>5. L[p].row <= L[m].row  BY <3>3, <3>4 DEF MovesTo, NewLine, Recoloured, Advanced
    <3> QED BY <2>0, <2>2, <3>1, <3>2, <3>4, <3>5
  <2>3. Nat \subseteq S
    <3> HIDE DEF S
    <3> QED BY <2>1, <2>2, NatInd
  <2> QED BY <2>3
<1>2. PICK i \in Nat : k = j + i  OBVIOUS
<1>3. 0 \in 0..Len(l) /\ 0 + j = j /\ j \in Nat  OBVIOUS
<1>4. L[j].row <= L[k].row  BY <1>1, <1>2
<1>5. L[0].row <= L[j].row  BY <1>1, <1>3
<1> QED BY <1>4, <1>5, LayStart

LEMMA OneMore ==
  ASSUME NEW a \in Nat, NEW b \in Nat, NEW c \in Nat, NEW d \in Nat, NEW e \in Nat, NEW f \in Nat, NEW i \in Nat,
         (e = c /\ f = d + 1) \/ (e = c + 1 /\ f = d), a <= c, c + d = a + b + i
  PROVE  a <= e /\ e + f = a + b + (i + 1)
  OBVIOUS

LEMMA RowWidth ==
  ASSUME NEW L, NEW l \in Seq(Letters), IsLay(L, l), NEW j \in 0..Len(l), NEW k \in 0..Len(l), j <= k,
         \A i \in j + 1..k : l[i] # NL
  PROVE  /\ L[k].row = L[j].row /\ L[j].col <= L[k].col
         /\ L[k].col + L[k].codes = L[j].col + L[j].codes + (k - j)
<1>0. PICK r \in Nat, a \in Nat, b \in Nat : r = L[j].row /\ a = L[j].col /\ b = L[j].codes  BY LayTypes
<1> DEFINE Along(i) == L[j + i].row = r /\ a <= L[j + i].col /\ L[j + i].col + L[j + i].codes = a + b + i
           S == {i \in Nat : j + i <= k => Along(i)}
<1>1. 0 \in S  BY <1>0
<1>2. ASSUME NEW i \in Nat, i \in S PROVE i + 1 \in S
  <2> SUFFICES ASSUME j + (i + 1) <= k PROVE Along(i + 1)  OBVIOUS
  <2>0. Along(i)  BY <1>2
  <2>1. PICK m : m = j + (i + 1) /\ m \in 1..Len(l) /\ m \in j + 1..k /\ m - 1 = j + i /\ m - 1 \in 0..Len(l)
    OBVIOUS
  <2>2. PICK p : p = m - 1  OBVIOUS
  <2>3. MovesTo(L[p], L[m], l[m]) /\ l[m] # NL  BY <2>1, <2>2, LayMoves
  <2>4. PICK c \in Nat, d \in Nat : L[p].col = c /\ L[p].codes = d  BY <2>1, <2>2, LayTypes
  <2>5. PICK e \in Nat, f \in Nat : L[m].col = e /\ L[m].codes = f
    <3>1. m \in 0..Len(l)  BY <2>1
    <3>2. L[m].col \in Nat /\ L[m].codes \in Nat  BY <3>1, LayTypes
    <3> QED BY <3>2
  <2>6. L[m].row = L[p].row /\ ((e = c /\ f = d + 1) \/ (e = c + 1 /\ f = d))
    <3>1. CASE Recoloured(L[p], L[m], l[m])  BY <2>4, <2>5, <3>1 DEF Recoloured
    <3>2. CASE Advanced(L[p], L[m])  BY <2>4, <2>5, <3>2 DEF Advanced
    <3> QED BY <2>3, <3>1, <3>2 DEF MovesTo
  <2>7. L[p].row = r /\ a <= c /\ c + d = a + b + i  BY <2>0, <2>1, <2>2, <2>4
  <2>8. a <= e /\ e + f = a + b + (i + 1)  BY <2>6, <2>7, OneMore
  <2> QED BY <2>1, <2>5, <2>6, <2>7, <2>8
<1>3. Nat \subseteq S
  <2> HIDE DEF S
  <2> QED BY <1>1, <1>2, NatInd
<1>4. PICK i \in Nat : k = j + i /\ i = k - j  OBVIOUS
<1>5. Along(i)
  <2>1. i \in S
    <3> HIDE DEF S
    <3> QED BY <1>3
  <2> QED BY <2>1, <1>4
<1> QED BY <1>0, <1>4, <1>5

LEMMA LaySame == ASSUME UNCHANGED log PROVE Lay' = Lay
  BY DEF Lay

-----------------------------------------------------------------------------
(* Stores.                                                                 *)
Down(g) == IF g THEN FbHeight ELSE TextRows
Across(g) == IF g THEN FbCols ELSE TextCols
Charrows(g) == IF g THEN FbRows ELSE TextRows
Sized(px, g) == DOMAIN px = 0..Down(g) - 1 /\ \A j \in DOMAIN px : DOMAIN px[j] = 0..Across(g) - 1
N == Len(log)

(* Row k is being read backwards, down to behind chrid.                    *)
RowEnd(k) ==
  /\ k \in chrid..N /\ (k = N \/ (k > chrid /\ log[k] = NL))
  /\ \A i \in chrid + 1..k - 1 : log[i] # NL
Walking ==
  /\ chrid \in 0..N /\ cursor_y = capacity_y - 1 - (Lay[N].row - Lay[chrid].row)
  /\ pc = "flush" => chrid > 0 /\ log[chrid] = NL
  /\ pc = "last" => chrid = 0
  /\ \E k \in 0..N : RowEnd(k) /\ (pc = "read" => cursor_x = k - chrid)

GlyphOne == CHOOSE c \in Glyphs : TRUE
Shape ==
  /\ log \in Seq(Letters) /\ todo \in {<<>>, <<NL>>, <<GlyphOne, NL>>} /\ (pc # "switch" => todo = <<>>)
  /\ Sized(screen, graphics)

(* The text screen is stored to at its cursor only, which is at the left   *)
(* when the driver is switched.                                            *)
TextSafe ==
  /\ ~stray /\ redrawn = 0
  /\ log # <<>> /\ log[N] = NL => cursor_x = 0
  /\ pc = "switch" => log # <<>>
  /\ todo = <<GlyphOne, NL>> => cursor_x = 0 /\ cursor_y < TextRows
  /\ todo = <<NL>> => cursor_x = 1 /\ cursor_y < TextRows
FbSafe ==
  /\ redrawn \in 1..N /\ (Redrawing => redrawn = N)
  /\ Fits => ~stray /\ (Redrawing => Walking)
StoresInv ==
  /\ CursorInv /\ Shape
  /\ ~graphics => TextSafe
  /\ graphics => FbSafe

LEMMA StoresInitial == Init => StoresInv
<1> SUFFICES ASSUME Init PROVE StoresInv  OBVIOUS
<1>1. Shape
  <2>1. /\ DOMAIN BlankScreen(FALSE) = 0..TextRows - 1
        /\ \A j \in 0..TextRows - 1 : DOMAIN BlankScreen(FALSE)[j] = 0..TextCols - 1
    BY DEF BlankScreen
  <2>2. Sized(screen, graphics)  BY <2>1 DEF Init, Sized, Down, Across
  <2>3. log = <<>> /\ log \in Seq(Letters) /\ todo = <<>>  BY DEF Init
  <2> QED BY <2>2, <2>3 DEF Shape
<1>2. TextSafe
  <2>1. todo = <<>> /\ <<>> # <<GlyphOne, NL>> /\ <<>> # <<NL>>  BY DEF Init
  <2>2. pc = "print" /\ ~stray /\ redrawn = 0 /\ cursor_x = 0 /\ log = <<>>  BY DEF Init
  <2> QED BY <2>1, <2>2 DEF TextSafe
<1>3. ~graphics  BY DEF Init
<1> QED BY <1>1, <1>2, <1>3, CursorInitial DEF StoresInv

LEMMA GlyphOneIs == GlyphOne \in Glyphs /\ GlyphOne # NL /\ GlyphOne \notin Colours
<1>1. GlyphOne \in Glyphs  BY ScreenAssumption DEF GlyphOne
<1> QED BY <1>1, ScreenAssumption DEF NL

(* A cell of the screen is on the screen.                                  *)
LEMMA Below == ASSUME NEW a \in Nat, NEW b \in Nat, NEW c \in Nat \ {0}, a < b PROVE a * c <= b * c - c /\ a * c \in Nat
<1>1. PICK d \in Nat : b = a + d + 1  OBVIOUS
<1>2. b * c = a * c + d * c + c  BY <1>1
<1>3. a * c \in Nat /\ d * c \in Nat  OBVIOUS
<1> QED BY <1>2, <1>3

LEMMA RowsFit == ASSUME NEW g \in BOOLEAN PROVE Charrows(g) * Font(g) <= Down(g)
<1>1. CASE g
  <2>1. FbHeight = FONT_SIZE_Y * FbRows + (FbHeight % FONT_SIZE_Y) /\ FbHeight % FONT_SIZE_Y \in Nat
    BY Sizes, DivMod DEF FbRows
  <2>2. PICK p \in Nat : p = FONT_SIZE_Y * FbRows  BY Sizes
  <2>3. FbRows * FONT_SIZE_Y = p  BY <2>2, Sizes
  <2> QED BY <1>1, <2>1, <2>2, <2>3, Sizes DEF Charrows, Down, Font
<1>2. CASE ~g
  <2>1. TextRows * 1 = TextRows  BY Sizes
  <2> QED BY <1>2, <2>1, Sizes DEF Charrows, Down, Font
<1> QED BY <1>1, <1>2

LEMMA CellOnScreen ==
  ASSUME NEW px, NEW g \in BOOLEAN, Sized(px, g), NEW x \in Nat, NEW y \in Nat, x < Across(g), y < Charrows(g)
  PROVE  OnScreen(px, g, x, y)
<1>1. CASE g
  <2>1. y * FONT_SIZE_Y <= FbRows * FONT_SIZE_Y - FONT_SIZE_Y /\ y * FONT_SIZE_Y \in Nat  BY <1>1, Below, Sizes DEF Charrows
  <2>2. FbRows * FONT_SIZE_Y <= FbHeight  BY <1>1, RowsFit DEF Charrows, Down, Font
  <2>3. y * FONT_SIZE_Y \in 0..FbHeight - 1  BY <2>1, <2>2, Sizes
  <2>4. DOMAIN px = 0..FbHeight - 1 /\ 0 \in DOMAIN px /\ DOMAIN px[0] = 0..FbCols - 1
    BY <1>1, Sizes DEF Sized, Down, Across
  <2> QED BY <1>1, <2>3, <2>4, Sizes DEF OnScreen, Font, Across
<1>2. CASE ~g
  <2>1. DOMAIN px = 0..TextRows - 1 /\ 0 \in DOMAIN px /\ DOMAIN px[0] = 0..TextCols - 1
    BY <1>2, Sizes DEF Sized, Down, Across
  <2>2. y * 1 = y  OBVIOUS
  <2> QED BY <1>2, <2>1, <2>2, Sizes DEF OnScreen, Font, Across, Charrows
<1> QED BY <1>1, <1>2

-----------------------------------------------------------------------------
(* Printing.                                                               *)
Extends(m, l) == Len(l) < Len(m) /\ \A i \in 1..Len(l) : m[i] = l[i]

LEMMA PutcharLog ==
  ASSUME log \in Seq(Letters), NEW c \in Printed, PutOnce(c)
  PROVE  /\ log' \in Seq(Letters) /\ Extends(log', log) /\ log'[Len(log) + 1] = c
         /\ Echoed(c) => Len(log') > Len(log) + 1 /\ log'[Len(log')] # NL
         /\ ~Echoed(c) => Len(log') = Len(log) + 1
<1>1. PICK e : e = IF ~Echoed(c) THEN <<>> ELSE IF Full THEN <<"w", "runaway">> ELSE <<"w">>  OBVIOUS
<1>2. log' = log \o <<c>> \o e  BY <1>1 DEF PutOnce, Echo, Echoed
<1>3. /\ e \in Seq(Letters) /\ Len(e) \in 0..2 /\ (Echoed(c) => Len(e) > 0 /\ e[Len(e)] # NL)
      /\ ~Echoed(c) => Len(e) = 0
  <2>1. CASE ~Echoed(c)  BY <1>1, <2>1
  <2>2. CASE Echoed(c) /\ Full
    <3>1. e = <<"w", "runaway">>  BY <1>1, <2>2
    <3> QED BY <2>2, <3>1 DEF Letters, NL
  <2>3. CASE Echoed(c) /\ ~Full
    <3>1. e = <<"w">>  BY <1>1, <2>3
    <3> QED BY <2>3, <3>1 DEF Letters, NL
  <2> QED BY <2>1, <2>2, <2>3
<1>4. PICK s : s = log \o <<c>>  OBVIOUS
<1>5. s \in Seq(Letters) /\ Len(s) = Len(log) + 1 /\ s[Len(log) + 1] = c /\ \A i \in 1..Len(log) : s[i] = log[i]
  <2>1. c \in Letters  BY DEF Printed, Letters
  <2> QED BY <2>1, <1>4
<1>6. PICK m : m = s \o e /\ log' = m  BY <1>2, <1>4
<1>9. /\ m \in Seq(Letters) /\ Len(m) = Len(s) + Len(e)
      /\ \A i \in 1..Len(s) + Len(e) : m[i] = IF i <= Len(s) THEN s[i] ELSE e[i - Len(s)]
  BY <1>3, <1>5, <1>6, ConcatProperties
<1>10. \A i \in 1..Len(s) : m[i] = s[i]  BY <1>3, <1>5, <1>9
<1>11. \A i \in 1..Len(e) : m[Len(s) + i] = e[i]
  <2> SUFFICES ASSUME NEW i \in 1..Len(e) PROVE m[Len(s) + i] = e[i]  OBVIOUS
  <2>1. PICK j : j = Len(s) + i /\ j \in 1..Len(s) + Len(e) /\ ~(j <= Len(s)) /\ j - Len(s) = i  BY <1>3, <1>5
  <2> QED BY <1>9, <2>1
<1>7. /\ log' \in Seq(Letters) /\ Len(log') = Len(s) + Len(e)
      /\ \A i \in 1..Len(s) : log'[i] = s[i]
      /\ \A i \in 1..Len(e) : log'[Len(s) + i] = e[i]
  BY <1>6, <1>9, <1>10, <1>11
<1>8. Echoed(c) => log'[Len(log')] = e[Len(e)]  BY <1>3, <1>7
<1> QED BY <1>3, <1>5, <1>7, <1>8 DEF Extends

LEMMA DrawSized ==
  ASSUME NEW px, NEW g \in BOOLEAN, NEW x, NEW y, NEW c, NEW mode, Sized(px, g)
  PROVE  Sized(Draw(px, g, x, y, c, mode), g)
<1>1. PICK q : q = Draw(px, g, x, y, c, mode)  OBVIOUS
<1>2. DOMAIN q = DOMAIN px /\ \A j \in DOMAIN px : DOMAIN q[j] = DOMAIN px[j]  BY <1>1 DEF Draw
<1> QED BY <1>1, <1>2 DEF Sized

LEMMA ShiftSized ==
  ASSUME NEW px, NEW g \in BOOLEAN, Sized(px, g) PROVE Sized(gr_shiftup(px, g), g)
<1>1. PICK q : q = gr_shiftup(px, g)  OBVIOUS
<1>2. 0 \in DOMAIN px  BY Sizes DEF Sized, Down
<1>3. DOMAIN q = DOMAIN px /\ \A j \in DOMAIN px : DOMAIN q[j] = 0..Across(g) - 1
  <2>1. DOMAIN q = DOMAIN px  BY <1>1 DEF gr_shiftup, ShiftBy
  <2>2. ASSUME NEW j \in DOMAIN px PROVE DOMAIN q[j] = 0..Across(g) - 1
    <3>1. CASE j + Font(g) \in DOMAIN px
      <4>1. q[j] = px[j + Font(g)]  BY <1>1, <3>1 DEF gr_shiftup, ShiftBy
      <4> QED BY <3>1, <4>1 DEF Sized
    <3>2. CASE j + Font(g) \notin DOMAIN px
      <4>1. q[j] = [x \in DOMAIN px[0] |-> Blank]  BY <1>1, <3>2 DEF gr_shiftup, ShiftBy
      <4> QED BY <1>2, <4>1 DEF Sized
    <3> QED BY <3>1, <3>2
  <2> QED BY <2>1, <2>2
<1> QED BY <1>1, <1>3 DEF Sized

LEMMA RenderSized ==
  ASSUME NEW c, gr_renderchar(c), graphics \in BOOLEAN, Sized(screen, graphics) PROVE Sized(screen', graphics)
<1>1. CASE Scrolls(c)
  <2>1. PICK q : q = IF Echoed(c) /\ ~Full THEN Draw(screen, FALSE, cursor_x, cursor_y, "w", draw_mode) ELSE screen
    OBVIOUS
  <2>2. Sized(q, graphics)
    <3>1. CASE Echoed(c) /\ ~Full
      <4>1. graphics = FALSE  BY <3>1, EchoesScroll
      <4> QED BY <2>1, <3>1, <4>1, DrawSized
    <3> QED BY <2>1, <3>1
  <2>3. screen' = gr_shiftup(q, graphics)
    <3>1. Scrolled(c)  BY <1>1, RenderIs DEF Scrolls
    <3> QED BY <2>1, <3>1 DEF Scrolled
  <2> QED BY <2>2, <2>3, ShiftSized
<1>2. CASE ~Scrolls(c)
  <2>1. screen' = screen \/ screen' = Draw(screen, graphics, cursor_x, cursor_y, c, draw_mode)
    BY <1>2, RenderIs DEF Lowered, Coloured, Drawn
  <2> QED BY <2>1, DrawSized
<1> QED BY <1>1, <1>2

(* The character drawn is on the screen.                                   *)
LEMMA RenderStores ==
  ASSUME NEW c, gr_renderchar(c), CursorInv, Sized(screen, graphics),
         ~NewRow(c) \/ (Echoed(c) /\ ~Full) => cursor_x < Across(graphics) /\ cursor_y < Charrows(graphics)
  PROVE  stray' => stray
<1>0. ASSUME ~NewRow(c) \/ (Echoed(c) /\ ~Full) PROVE OnScreen(screen, graphics, cursor_x, cursor_y)
  BY <1>0, CellOnScreen DEF CursorInv, Capacities, Cursor
<1>1. CASE Scrolls(c) /\ Scrolled(c)
  <2>1. CASE Echoed(c) /\ ~Full
    <3>1. OnScreen(screen, FALSE, cursor_x, cursor_y)
      <4>1. graphics = FALSE  BY <2>1, EchoesScroll DEF CursorInv, Capacities
      <4> QED BY <1>0, <2>1, <4>1
    <3> QED BY <1>1, <3>1 DEF Scrolled
  <2>2. CASE ~(Echoed(c) /\ ~Full)  BY <1>1, <2>2 DEF Scrolled
  <2> QED BY <2>1, <2>2
<1>2. CASE Lowered \/ Coloured(c)  BY <1>2 DEF Lowered, Coloured
<1>3. CASE ~NewRow(c) /\ Drawn(c)  BY <1>0, <1>3 DEF Drawn
<1> QED BY <1>1, <1>2, <1>3, RenderIs

LEMMA FitsBefore ==
  ASSUME log \in Seq(Letters), log' \in Seq(Letters), Extends(log', log),
         UNCHANGED <<redrawn, graphics, capacity_x, capacity_y>>, redrawn \in 0..Len(log), Fits'
  PROVE  Fits
<1>1. PICK A : A = Lay  OBVIOUS
<1>2. PICK B : B = Lay'  OBVIOUS
<1>3. IsLay(A, log)  BY <1>1, LayIs
<1>4. IsLay(B, log')  BY <1>2, LayIsNext DEF IsLay
<1>5. \A k \in 0..Len(log) : B[k] = A[k]  BY <1>3, <1>4, LayKept DEF Extends
<1>w. \A k : Width(k)' = Width(k)  BY DEF Width
<1>6. /\ \A k \in 1..Len(log') : log'[k] # NL => B[k - 1].col < Width(k)
      /\ redrawn > 0 => /\ B[redrawn].row <= capacity_y
                        /\ \A k \in 0..redrawn : B[k].col + B[k].codes < capacity_x - 1
  BY <1>2, <1>w DEF Fits
<1>7. \A k \in 1..Len(log) : k \in 1..Len(log') /\ k - 1 \in 0..Len(log) /\ log'[k] = log[k]  BY DEF Extends
<1>8. \A k \in 1..Len(log) : log[k] # NL => A[k - 1].col < Width(k)  BY <1>5, <1>6, <1>7
<1>9. redrawn > 0 => A[redrawn].row <= capacity_y /\ \A k \in 0..redrawn : A[k].col + A[k].codes < capacity_x - 1
  BY <1>5, <1>6
<1> QED BY <1>1, <1>8, <1>9 DEF Fits

(* What putchar does to the log, the screen and the cursor, as far as      *)
(* stores are concerned.                                                   *)
LEMMA PutcharStores ==
  ASSUME StoresInv, NEW c \in Printed, PutOnce(c), pc \in {"print", "switch"}, todo' \in {<<>>, <<NL>>},
         pc = "print" => todo' = <<>>,
         pc = "switch" => (c = NL /\ todo = <<NL>> /\ todo' = <<>>) \/ (c = GlyphOne /\ todo = <<GlyphOne, NL>>)
  PROVE  StoresInv'
<1>1. CursorInv'  BY RenderCursor DEF StoresInv, Redrawing
<1>2. UNCHANGED <<capacity_x, capacity_y, graphics, pc, redrawn>> /\ gr_renderchar(c)  BY DEF PutOnce
<1>3. /\ log \in Seq(Letters) /\ log' \in Seq(Letters) /\ Extends(log', log) /\ log'[Len(log) + 1] = c
      /\ Echoed(c) => Len(log') > Len(log) + 1 /\ log'[Len(log')] # NL
      /\ ~Echoed(c) => Len(log') = Len(log) + 1
  BY PutcharLog DEF StoresInv, Shape
<1>4. Len(log') \in Nat /\ Len(log) \in Nat /\ Len(log') > Len(log) /\ log' # <<>>  BY <1>3 DEF Extends
<1>5. graphics \in BOOLEAN /\ Sized(screen, graphics) /\ Capacities /\ Cursor /\ Within
  BY DEF StoresInv, CursorInv, Capacities, Shape
<1>6. Sized(screen', graphics')  BY <1>2, <1>5, RenderSized
<1>7. Shape'  BY <1>2, <1>3, <1>6, <1>5 DEF Shape, Capacities, Redrawing
<1>8. ~NewRow(c) \/ (Echoed(c) /\ ~Full) => cursor_x < Across(graphics) /\ cursor_y < Charrows(graphics)
  <2>1. CASE pc = "print"
    <3>1. capacity_x = Across(graphics) /\ capacity_y = Charrows(graphics)
      BY <2>1, <1>5 DEF Capacities, Across, Charrows
    <3>2. capacity_x \in Nat  BY <1>5, CapacitiesAre
    <3> QED BY <1>5, <2>1, <3>1, <3>2 DEF NewRow, Full, Cursor, Within
  <2>2. CASE pc = "switch"
    <3>1. ~graphics /\ cursor_x \in {0, 1} /\ cursor_y < TextRows
      <4>1. ~graphics /\ TextSafe  BY <1>5, <2>2 DEF Capacities, StoresInv
      <4>2. todo = <<GlyphOne, NL>> \/ todo = <<NL>>  BY <2>2
      <4> QED BY <4>1, <4>2 DEF TextSafe
    <3> QED BY <3>1, Sizes DEF Across, Charrows
  <2> QED BY <1>5, <2>1, <2>2
<1>9. stray' => stray  BY <1>2, <1>5, <1>8, RenderStores DEF StoresInv
<1>10. ASSUME ~graphics PROVE TextSafe'
  <2>1. TextSafe  BY <1>10 DEF StoresInv
  <2>2. log'[Len(log')] = NL => cursor_x' = 0
    <3> SUFFICES ASSUME log'[Len(log')] = NL PROVE cursor_x' = 0  OBVIOUS
    <3>1. c = NL  BY <1>3
    <3>2. NewRow(c)  BY <3>1 DEF NewRow
    <3> QED BY <1>2, <3>2, RenderMoves DEF Scrolls
  <2>4. todo' = <<NL>> => cursor_x' = 1 /\ cursor_y' < TextRows
    <3> SUFFICES ASSUME todo' = <<NL>> PROVE cursor_x' = 1 /\ cursor_y' < TextRows  OBVIOUS
    <3>0. todo' # <<>>  OBVIOUS
    <3>1. c = GlyphOne /\ todo = <<GlyphOne, NL>>  BY <3>0
    <3>2. cursor_x = 0 /\ cursor_y < TextRows  BY <2>1, <3>1 DEF TextSafe
    <3>3. ~NewRow(c) /\ c \notin Colours  BY <1>5, <3>1, <3>2, GlyphOneIs, CapacitiesAre DEF NewRow
    <3>4. Drawn(c)  BY <1>2, <3>3, RenderIs DEF Scrolls, Coloured
    <3> QED BY <3>2, <3>4 DEF Drawn
  <2>3. todo' # <<GlyphOne, NL>>
    <3>1. Len(<<GlyphOne, NL>>) = 2 /\ Len(<<NL>>) = 1 /\ Len(<<>>) = 0  OBVIOUS
    <3> QED BY <3>1
  <2> QED BY <1>2, <1>4, <1>9, <2>1, <2>2, <2>3, <2>4 DEF TextSafe, N
<1>11. ASSUME graphics PROVE FbSafe'
  <2>1. FbSafe  BY <1>11 DEF StoresInv
  <2>2. redrawn' \in 1..N'  BY <1>2, <1>4, <2>1 DEF FbSafe, N
  <2>3. Fits' => Fits  BY <1>2, <1>3, <2>1, FitsBefore DEF FbSafe, N
  <2> QED BY <1>2, <1>9, <2>1, <2>2, <2>3 DEF FbSafe, Redrawing
<1> QED BY <1>1, <1>2, <1>7, <1>10, <1>11 DEF StoresInv

-----------------------------------------------------------------------------
(* The redraw.                                                             *)
LEMMA FitsSame == ASSUME UNCHANGED <<log, redrawn, graphics, capacity_x, capacity_y>> PROVE Fits' <=> Fits
<1>1. Lay' = Lay /\ \A k : Width(k)' = Width(k)  BY LaySame DEF Width
<1> QED BY <1>1 DEF Fits

LEMMA BlankSized == ASSUME NEW g \in BOOLEAN PROVE Sized(BlankScreen(g), g)
<1>1. PICK q : q = BlankScreen(g)  OBVIOUS
<1>2. q = [j \in 0..Down(g) - 1 |-> [x \in 0..Across(g) - 1 |-> Blank]]  BY <1>1 DEF BlankScreen, Down, Across
<1>3. DOMAIN q = 0..Down(g) - 1 /\ \A j \in DOMAIN q : DOMAIN q[j] = 0..Across(g) - 1  BY <1>2
<1> QED BY <1>1, <1>3 DEF Sized

LEMMA RedrawStores == ASSUME StoresInv, CursorInv', Redraw PROVE StoresInv'
<1>1. ~graphics /\ TextSafe  BY DEF StoresInv, CursorInv, Capacities, Redraw
<1>2. Shape'
  <2>1. Sized(screen', graphics')  BY BlankSized DEF Redraw
  <2> QED BY <2>1 DEF Redraw, Shape, StoresInv
<1>3. log \in Seq(Letters) /\ log # <<>> /\ N \in Nat \ {0}  BY <1>1 DEF StoresInv, Shape, TextSafe, Redraw, N
<1>4. UNCHANGED <<log, stray>> /\ pc' = "read" /\ graphics' = TRUE /\ redrawn' = N /\ chrid' = N /\ cursor_x' = 0
      /\ cursor_y' = capacity_y' - 1
  BY DEF Redraw, N
<1>5. Lay' = Lay /\ N' = N  BY <1>4, LaySame DEF N
<1>6. Walking'
  <2>1. Lay[N].row \in Nat  BY <1>3, LayIs, LayTypes DEF N
  <2>2. capacity_y' \in Nat  BY CapacitiesAre DEF StoresInv, CursorInv, Redraw
  <2>3. cursor_y' = capacity_y' - 1 - (Lay[N].row - Lay[N].row)  BY <1>4, <2>1, <2>2
  <2>4. RowEnd(N)'  BY <1>3, <1>4, <1>5 DEF RowEnd
  <2>5. \E k \in 0..N' : RowEnd(k)' /\ cursor_x' = k - chrid'  BY <1>3, <1>4, <1>5, <2>4
  <2> QED BY <1>3, <1>4, <1>5, <2>3, <2>5 DEF Walking
<1> QED BY <1>1, <1>2, <1>3, <1>4, <1>5, <1>6 DEF StoresInv, TextSafe, FbSafe, Redrawing

(* redraw's variables change, and nothing else.                            *)
Painting == Redrawing /\ UNCHANGED <<log, capacity_x, capacity_y, graphics, todo, redrawn>>

LEMMA PaintingStores ==
  ASSUME StoresInv, CursorInv', Painting, Sized(screen', graphics), pc' # "switch",
         Fits /\ ~stray /\ Walking => ~stray' /\ (Redrawing' => Walking')
  PROVE  StoresInv'
<1>1. graphics /\ FbSafe  BY DEF StoresInv, CursorInv, Capacities, Painting
<1>2. Shape'  BY DEF Painting, Shape, StoresInv, Redrawing
<1>3. Fits' <=> Fits  BY FitsSame DEF Painting
<1>4. FbSafe'  BY <1>1, <1>3 DEF FbSafe, Painting, N
<1> QED BY <1>1, <1>2, <1>4 DEF StoresInv, Painting

(* The row being read is short enough for the line.                        *)
LEMMA NoWider ==
  ASSUME NEW a \in Nat, NEW b \in Nat, NEW c \in Nat, NEW d \in Nat, NEW j \in Nat, NEW r \in Nat, NEW w \in Nat,
         r <= j, c + d = a + b + (j - r), c + d < w - 1
  PROVE  (j + 1) - r < w
  OBVIOUS

LEMMA LineHolds ==
  ASSUME StoresInv, Redrawing, Fits, Walking, NEW k \in 0..N, RowEnd(k) PROVE k - chrid < capacity_x
<1>1. FbSafe /\ log \in Seq(Letters) /\ N \in Nat /\ capacity_x \in Nat \ {0}
  BY CapacitiesAre DEF StoresInv, CursorInv, Capacities, Shape, N
<1>2. chrid \in 0..N /\ k \in chrid..N /\ \A i \in chrid + 1..k - 1 : log[i] # NL  BY DEF Walking, RowEnd
<1>3. CASE k = chrid  BY <1>1, <1>2, <1>3
<1>4. CASE k > chrid
  <2>1. PICK j : j = k - 1 /\ j \in 0..N /\ chrid <= j  BY <1>1, <1>2, <1>4
  <2>2. PICK L : L = Lay  OBVIOUS
  <2>3. L[j].col + L[j].codes = L[chrid].col + L[chrid].codes + (j - chrid)
    BY <1>1, <1>2, <2>1, <2>2, LayIs, RowWidth DEF N
  <2>4. PICK a \in Nat, b \in Nat : a = L[chrid].col /\ b = L[chrid].codes  BY <1>1, <1>2, <2>2, LayIs, LayTypes DEF N
  <2>5. L[j].col + L[j].codes < capacity_x - 1
    <3>1. redrawn > 0 /\ j \in 0..redrawn  BY <1>1, <2>1 DEF FbSafe, N
    <3> QED BY <3>1, <2>2 DEF Fits
  <2>6. PICK c \in Nat, d \in Nat : c = L[j].col /\ d = L[j].codes  BY <1>1, <2>1, <2>2, LayIs, LayTypes DEF N
  <2>7. PICK r \in Nat : r = chrid  BY <1>1, <1>2
  <2>8. PICK w \in Nat : w = capacity_x  BY <1>1
  <2>9. r <= j /\ c + d = a + b + (j - r) /\ c + d < w - 1 /\ j \in Nat
    <3>1. c + d = L[j].col + L[j].codes /\ a + b = L[chrid].col + L[chrid].codes  BY <2>4, <2>6
    <3> QED BY <3>1, <1>1, <2>1, <2>3, <2>5, <2>7, <2>8
  <2>10. (j + 1) - r < w  BY <2>9, NoWider
  <2>11. j + 1 = k  BY <2>1, <1>1
  <2> QED BY <2>7, <2>8, <2>10, <2>11
<1> QED BY <1>1, <1>2, <1>3, <1>4

LEMMA ReadBackStores == ASSUME StoresInv, CursorInv', ReadBack PROVE StoresInv'
<1>1. Painting /\ Sized(screen', graphics) /\ pc' # "switch" /\ pc = "read"
  BY DEF ReadBack, Painting, Redrawing, StoresInv, Shape
<1>2. ASSUME Fits, ~stray, Walking PROVE ~stray' /\ Walking'
  <2>1. PICK k \in 0..N : RowEnd(k) /\ cursor_x = k - chrid  BY <1>1, <1>2 DEF Walking
  <2>2. cursor_x < capacity_x  BY <1>1, <1>2, <2>1, LineHolds DEF Painting
  <2>3. N \in Nat /\ capacity_x \in Nat /\ cursor_x \in Nat /\ chrid \in 1..N
    BY <1>2, CapacitiesAre DEF StoresInv, CursorInv, Cursor, Shape, N, Walking, ReadBack
  <2>a. ~(cursor_x >= capacity_x)  BY <2>2, <2>3
  <2>4. ~stray'
    <3>1. stray' = (stray \/ cursor_x >= capacity_x)  BY DEF ReadBack
    <3> QED BY <1>2, <2>a, <3>1, Zenon
  <2>5. Lay' = Lay /\ N' = N /\ UNCHANGED <<log, cursor_y, capacity_y>>  BY LaySame DEF ReadBack, N
  <2>6. CASE log[chrid] = NL
    <3>1. pc' = "flush" /\ UNCHANGED chrid  BY <2>6 DEF ReadBack
    <3>2. RowEnd(k)'  BY <2>1, <2>5, <3>1 DEF RowEnd
    <3> QED BY <1>2, <2>3, <2>4, <2>5, <2>6, <3>1, <3>2 DEF Walking
  <2>7. CASE log[chrid] # NL
    <3>1. pc' = "read" /\ chrid' = chrid - 1 /\ cursor_x' = cursor_x + 1  BY <1>1, <2>2, <2>3, <2>7 DEF ReadBack
    <3>2. RowEnd(k)'
      <4>1. k \in chrid'..N' /\ (k = N' \/ (k > chrid' /\ log'[k] = NL))  BY <2>1, <2>3, <2>5, <3>1 DEF RowEnd
      <4>2. \A i \in chrid' + 1..k - 1 : i = chrid \/ i \in chrid + 1..k - 1  BY <2>3, <3>1
      <4>3. \A i \in chrid' + 1..k - 1 : log'[i] # NL  BY <2>1, <2>5, <2>7, <4>2 DEF RowEnd
      <4> QED BY <4>1, <4>3 DEF RowEnd
    <3>3. cursor_x' = k - chrid'  BY <2>1, <2>3, <3>1
    <3>4. Lay[chrid'].row = Lay[chrid].row
      <4>1. PICK L : L = Lay  OBVIOUS
      <4>2. PICK j : j = chrid - 1 /\ j \in 0..N /\ chrid \in 1..N  BY <2>3
      <4>3. MovesTo(L[j], L[chrid], log[chrid])  BY <4>1, <4>2, LayIs, LayMoves DEF StoresInv, Shape, N
      <4>4. L[chrid].row = L[j].row  BY <2>7, <4>3 DEF MovesTo, Recoloured, Advanced
      <4> QED BY <3>1, <4>1, <4>2, <4>4
    <3>5. chrid' \in 0..N'  BY <2>3, <2>5, <3>1
    <3> QED BY <1>2, <2>4, <2>5, <3>1, <3>2, <3>3, <3>4, <3>5 DEF Walking
  <2> QED BY <2>6, <2>7
<1> QED BY <1>1, <1>2, PaintingStores

LEMMA ReadLastStores == ASSUME StoresInv, CursorInv', ReadLast PROVE StoresInv'
<1>1. Painting /\ Sized(screen', graphics) /\ pc' # "switch" /\ pc = "read"
  BY DEF ReadLast, Painting, Redrawing, StoresInv, Shape
<1>2. ASSUME Fits, ~stray, Walking PROVE ~stray' /\ Walking'
  <2>1. PICK k \in 0..N : RowEnd(k) /\ cursor_x = k - chrid  BY <1>1, <1>2 DEF Walking
  <2>2. chrid = 0 /\ N \in Nat \ {0}
    BY <1>1 DEF ReadLast, StoresInv, CursorInv, Capacities, FbSafe, Redrawing, N, Shape
  <2>3. cursor_x > 0 /\ cursor_x # 0  BY <2>1, <2>2 DEF RowEnd
  <2>4. ~stray' /\ pc' = "last"  BY <1>2, <2>3 DEF ReadLast
  <2>5. Lay' = Lay /\ N' = N /\ UNCHANGED <<log, cursor_y, capacity_y, chrid>>  BY LaySame DEF ReadLast, N
  <2>6. RowEnd(k)'  BY <2>1, <2>5 DEF RowEnd
  <2> QED BY <1>2, <2>2, <2>4, <2>5, <2>6 DEF Walking
<1> QED BY <1>1, <1>2, PaintingStores

LEMMA FlushCharStores == ASSUME StoresInv, CursorInv', FlushChar PROVE StoresInv'
<1>0. graphics = TRUE  BY DEF FlushChar, StoresInv, CursorInv, Capacities, Redrawing
<1>1. Painting /\ pc' # "switch" /\ pc \in {"flush", "last"} /\ UNCHANGED <<pc, chrid, cursor_y>>
  BY DEF FlushChar, Painting, Redrawing
<1>2. cursor_x < Across(TRUE) /\ cursor_y < Charrows(TRUE) /\ cursor_x \in Nat /\ cursor_y \in Nat
  BY <1>0, Sizes DEF FlushChar, StoresInv, CursorInv, Capacities, Cursor, Within, Flushing, Across, Charrows
<1>3. OnScreen(screen, TRUE, cursor_x, cursor_y)  BY <1>0, <1>2, CellOnScreen DEF StoresInv, Shape
<1>4. stray' => stray  BY <1>3 DEF FlushChar
<1>5. Sized(screen', graphics)
  <2>1. screen' = screen \/ \E c : screen' = Draw(screen, TRUE, cursor_x, cursor_y, c, draw_mode)  BY DEF FlushChar
  <2> QED BY <1>0, <2>1, DrawSized DEF StoresInv, Shape
<1>6. Walking => Walking'
  <2>1. Lay' = Lay /\ N' = N /\ UNCHANGED <<log, capacity_y>>  BY LaySame DEF FlushChar, N
  <2>2. \A k : RowEnd(k) => RowEnd(k)'  BY <1>1, <2>1 DEF RowEnd
  <2> QED BY <1>1, <2>1, <2>2 DEF Walking
<1> QED BY <1>1, <1>4, <1>5, <1>6, PaintingStores

LEMMA FlushDoneStores == ASSUME StoresInv, CursorInv', FlushDone PROVE StoresInv'
<1>1. Painting /\ Sized(screen', graphics) /\ pc' = "read" /\ pc = "flush" /\ UNCHANGED stray
  BY DEF FlushDone, Painting, Redrawing, StoresInv, Shape
<1>2. ASSUME Fits, ~stray, Walking PROVE Walking'
  <2>1. N \in Nat /\ capacity_y \in Nat /\ cursor_y \in Nat /\ chrid \in 1..N /\ log[chrid] = NL /\ redrawn = N
        /\ log \in Seq(Letters)
    BY <1>1, <1>2, CapacitiesAre
       DEF StoresInv, CursorInv, Cursor, Shape, N, Walking, FbSafe, Capacities, Redrawing
  <2>2. PICK L : L = Lay  OBVIOUS
  <2>3. PICK p : p = chrid - 1 /\ p \in 0..N  BY <2>1
  <2>4. IsLay(L, log)  BY <2>1, <2>2, LayIs
  <2>5. PICK a \in Nat, b \in Nat, d \in Nat : a = L[p].row /\ b = L[chrid].row /\ d = L[N].row
    <3>1. chrid \in 0..Len(log) /\ N \in 0..Len(log) /\ p \in 0..Len(log)  BY <2>1, <2>3 DEF N
    <3>2. L[p].row \in Nat  BY <2>4, <3>1, LayTypes
    <3>3. L[chrid].row \in Nat  BY <2>4, <3>1, LayTypes
    <3>4. L[N].row \in Nat  BY <2>4, <3>1, LayTypes
    <3> QED BY <3>2, <3>3, <3>4
  <2>6. MovesTo(L[p], L[chrid], log[chrid])  BY <2>1, <2>3, <2>4, LayMoves DEF N
  <2>7. b = a + 1  BY <2>1, <2>5, <2>6 DEF MovesTo, NewLine
  <2>8. a >= 1  BY <2>1, <2>3, <2>4, <2>5, RowsRise DEF N
  <2>9. d <= capacity_y  BY <1>2, <2>1, <2>2, <2>5 DEF Fits
  <2>10. cursor_y = capacity_y - 1 - (d - b)  BY <1>2, <2>2, <2>5 DEF Walking
  <2>11. cursor_y # 0 /\ cursor_y - 1 = capacity_y - 1 - (d - a)  BY <2>1, <2>7, <2>8, <2>9, <2>10
  <2>12. chrid' = p /\ cursor_x' = 1 /\ cursor_y' = cursor_y - 1  BY <2>3, <2>11 DEF FlushDone
  <2>13. Lay' = L /\ N' = N /\ UNCHANGED <<log, capacity_y>>  BY <2>2, LaySame DEF FlushDone, N
  <2>14. \E k \in 0..N' : RowEnd(k)' /\ cursor_x' = k - chrid'
    <3>1. PICK k \in 0..N : k = chrid  BY <2>1
    <3>2. RowEnd(k)'
      <4>1. p + 1 = k /\ \A i \in p + 1..k - 1 : FALSE  BY <2>1, <2>3, <3>1
      <4> QED BY <2>1, <2>3, <2>12, <2>13, <3>1, <4>1 DEF RowEnd
    <3> QED BY <2>1, <2>3, <2>12, <2>13, <3>1, <3>2
  <2>15. cursor_y' = capacity_y' - 1 - (Lay[N].row - Lay[chrid].row)'
    BY <2>5, <2>11, <2>12, <2>13
  <2> QED BY <1>1, <2>3, <2>12, <2>13, <2>14, <2>15 DEF Walking
<1> QED BY <1>1, <1>2, PaintingStores

LEMMA RedrawnStores == ASSUME StoresInv, CursorInv', Redrawn PROVE StoresInv'
<1>1. Painting /\ Sized(screen', graphics) /\ pc' = "print" /\ UNCHANGED stray
  BY DEF Redrawn, Painting, Redrawing, StoresInv, Shape
<1> QED BY <1>1, PaintingStores DEF Redrawing

LEMMA SwitchStores == ASSUME StoresInv, CursorInv', Switch PROVE StoresInv'
<1>1. ~graphics /\ pc = "print" /\ TextSafe /\ capacity_y = TextRows /\ cursor_y < capacity_y /\ cursor_x = 0
  BY DEF StoresInv, CursorInv, Within, Capacities, Switch, TextSafe, N
<1>2. UNCHANGED <<log, graphics, screen, cursor_x, cursor_y, stray, redrawn>> /\ todo' = <<GlyphOne, NL>> /\ pc' = "switch"
      /\ log # <<>>
  BY DEF Switch, GlyphOne, Line
<1>3. Shape'  BY <1>2 DEF Shape, StoresInv
<1>4. TextSafe'  BY <1>1, <1>2 DEF TextSafe, N
<1> QED BY <1>1, <1>2, <1>3, <1>4 DEF StoresInv

LEMMA StoresStep == ASSUME StoresInv, [OnceNext]_seen PROVE StoresInv'
<1>0. CursorInv'  BY CursorStep DEF StoresInv
<1>1. ASSUME NEW c \in Printed, OnceChar(c) PROVE StoresInv'
  <2>1. PutOnce(c) /\ pc = "print" /\ UNCHANGED todo  BY <1>1 DEF OnceChar
  <2>2. todo' = <<>>  BY <2>1 DEF StoresInv, Shape
  <2> QED BY <2>1, <2>2, PutcharStores
<1>2. CASE OnceMode
  <2>1. pc = "switch" /\ PutOnce(Head(todo)) /\ todo' = Tail(todo)  BY <1>2 DEF OnceMode
  <2>2. CASE todo = <<NL>>
    <3>1. Head(todo) = NL /\ todo' = <<>> /\ NL \in Printed  BY <2>1, <2>2 DEF Printed
    <3> QED BY <2>1, <2>2, <3>1, PutcharStores
  <2>3. CASE todo = <<GlyphOne, NL>>
    <3>1. Head(todo) = GlyphOne /\ todo' = <<NL>>  BY <2>1, <2>3
    <3> QED BY <2>1, <2>3, <3>1, PutcharStores, GlyphOneIs DEF Printed
  <2> QED BY <1>2, <2>2, <2>3 DEF OnceMode, StoresInv, Shape
<1>3. CASE UNCHANGED seen
  <2>1. /\ UNCHANGED <<log, cursor_x, cursor_y, capacity_x, capacity_y, graphics, screen, pc, todo, chrid, redrawn, stray>>
        /\ Fits' <=> Fits
    BY <1>3, FitsSame DEF seen, walk
  <2>2. Walking' <=> Walking
    <3>1. Lay' = Lay /\ N' = N /\ \A k : RowEnd(k)' <=> RowEnd(k)  BY <2>1, LaySame DEF N, RowEnd
    <3> QED BY <2>1, <3>1 DEF Walking
  <2>3. Shape' /\ (TextSafe' <=> TextSafe) /\ (FbSafe' <=> FbSafe)
    BY <2>1, <2>2 DEF StoresInv, Shape, TextSafe, FbSafe, Redrawing, N
  <2> QED BY <1>0, <2>1, <2>3 DEF StoresInv
<1> QED BY <1>0, <1>1, <1>2, <1>3, SwitchStores, RedrawStores, ReadBackStores, ReadLastStores, FlushCharStores,
           FlushDoneStores, RedrawnStores DEF OnceNext, redraw

-----------------------------------------------------------------------------
(* What is seen.  A screen px shows the characters P of a text l with      *)
(* places L: its row 0 shows row top of the text, and below its first rows *)
(* rows of characters there is nothing.                                    *)
Glyph(c) == c \notin Colours \cup {NL}
IsAt(L, l, i, row, col) == Glyph(l[i]) /\ L[i - 1].row = row /\ L[i - 1].col = col
Shades(L, i, g) == IF g THEN Modes ELSE {L[i - 1].mode}
ShowsOne(v, L, l, i, g, slice) == \E m \in Shades(L, i, g) : v = <<l[i], m, slice>>
Cell(v, L, l, P, row, col, g, slice) ==
  \/ v = Blank /\ \A i \in P : ~IsAt(L, l, i, row, col)
  \/ \E i \in P : IsAt(L, l, i, row, col) /\ ShowsOne(v, L, l, i, g, slice)
CellRight(px, j, x, L, l, P, top, g, rows) ==
  /\ j \div Font(g) < rows => Cell(px[j][x], L, l, P, top + (j \div Font(g)), x, g, j % Font(g))
  /\ ~(j \div Font(g) < rows) => px[j][x] = Blank
Shows(px, L, l, P, top, g, rows) ==
  \A j \in 0..Down(g) - 1, x \in 0..Across(g) - 1 : CellRight(px, j, x, L, l, P, top, g, rows)

(* Outside redraw, the cursor is where the text ends.                      *)
Showing ==
  /\ cursor_x = Lay[N].col /\ (~graphics => draw_mode = Lay[N].mode)
  /\ Shows(screen, Lay, log, 1..N, Lay[N].row - cursor_y, graphics, capacity_y)

(* In redraw the characters from k on are painted, and while the row       *)
(* between the line ends chrid and k is flushed, its characters to q.      *)
LineIs(k) == \A i \in chrid + 1..k - 1 : crtline[k - i] = log[i]
Painted(P) == Shows(screen, Lay, log, P, Lay[N].row - (capacity_y - 1), graphics, capacity_y)
Reading(k) == cursor_x = k - chrid /\ Painted(k..N)
FlushedTo(k, q) ==
  /\ maxhere - cursor_x = k - 1 - q
  /\ q >= chrid => cursor_x = Lay[q].col
  /\ q < chrid => pc = "flush" /\ cursor_x = 0 /\ crtline[k - chrid] = NL
  /\ Painted(chrid + 1..q \cup k..N)
Repainting ==
  /\ log[N] = NL
  /\ \E k \in 0..N :
       /\ RowEnd(k) /\ LineIs(k)
       /\ pc = "read" => Reading(k)
       /\ Flushing => \E q \in chrid - 1..k - 1 : FlushedTo(k, q)

Right ==
  /\ draw_mode \in Modes
  /\ pc = "print" => Showing
  /\ pc = "switch" /\ todo = <<>> => log[N] = NL
  /\ Redrawing => Repainting
Bounds == printed \in Seq(Letters) /\ Len(printed) <= N /\ (Redrawing => DOMAIN crtline = 0..capacity_x)
Exact == log = printed /\ Fits
ShowInv == StoresInv /\ Bounds /\ (Exact => Right)

-----------------------------------------------------------------------------
(* Cells.                                                                  *)
LEMMA FontIs == ASSUME NEW g \in BOOLEAN PROVE Font(g) \in Nat \ {0}
  BY Sizes DEF Font

LEMMA DivUnique ==
  ASSUME NEW b \in Nat \ {0}, NEW p \in Nat, NEW r \in Nat, NEW q \in Nat, NEW s \in Nat, r < b, s < b,
         b * p + r = b * q + s
  PROVE  p = q /\ r = s
<1>1. ASSUME NEW u \in Nat, NEW v \in Nat, NEW m \in Nat, NEW n \in Nat, m < b, n < b, b * u + m = b * v + n, u < v
      PROVE FALSE
  <2>1. PICK d \in Nat : v = u + d + 1  BY <1>1
  <2>2. b * v = b * u + b * d + b  BY <2>1
  <2>3. b * u \in Nat /\ b * d \in Nat  OBVIOUS
  <2> QED BY <1>1, <2>2, <2>3
<1>2. ~(p < q) /\ ~(q < p)  BY <1>1
<1>3. p = q  BY <1>2
<1>4. PICK t \in Nat : t = b * p  OBVIOUS
<1> QED BY <1>3, <1>4

(* One character row further down.                                         *)
LEMMA DivShift ==
  ASSUME NEW a \in Nat, NEW b \in Nat \ {0} PROVE (a + b) \div b = (a \div b) + 1 /\ (a + b) % b = a % b
<1>1. PICK q \in Nat, r \in Nat : q = a \div b /\ r = a % b /\ r < b /\ a = b * q + r  BY DivMod
<1>2. PICK p \in Nat, s \in Nat : p = (a + b) \div b /\ s = (a + b) % b /\ s < b /\ a + b = b * p + s
  <2>1. a + b \in Nat  OBVIOUS
  <2> QED BY <2>1, DivMod
<1>3. PICK t \in Nat : t = q + 1  OBVIOUS
<1>4. b * t = b * q + b /\ b * q \in Nat  BY <1>3
<1>5. b * p + s = b * t + r  BY <1>1, <1>2, <1>4
<1>6. p = t /\ s = r  BY <1>1, <1>2, <1>5, DivUnique
<1> QED BY <1>1, <1>2, <1>3, <1>6

LEMMA DivAtLeast ==
  ASSUME NEW a \in Nat, NEW b \in Nat \ {0}, NEW n \in Nat, a >= n * b PROVE a \div b >= n
<1>1. PICK q \in Nat, r \in Nat : q = a \div b /\ r < b /\ a = b * q + r  BY DivMod
<1>2. ASSUME q < n PROVE FALSE
  <2>1. PICK d \in Nat : n = q + d + 1  BY <1>2
  <2>2. n * b = b * q + d * b + b  BY <2>1
  <2>3. b * q \in Nat /\ d * b \in Nat  OBVIOUS
  <2> QED BY <1>1, <2>2, <2>3
<1> QED BY <1>1, <1>2

(* A screen without anything shows nothing.                                *)
LEMMA BlankShows ==
  ASSUME NEW g \in BOOLEAN, NEW L, NEW l, NEW P, NEW top, NEW rows, \A i \in P : ~Glyph(l[i])
  PROVE  Shows(BlankScreen(g), L, l, P, top, g, rows)
<1>1. PICK q : q = BlankScreen(g)  OBVIOUS
<1>2. q = [j \in 0..Down(g) - 1 |-> [x \in 0..Across(g) - 1 |-> Blank]]  BY <1>1 DEF BlankScreen, Down, Across
<1>3. ASSUME NEW j \in 0..Down(g) - 1, NEW x \in 0..Across(g) - 1 PROVE CellRight(q, j, x, L, l, P, top, g, rows)
  <2>1. q[j][x] = Blank  BY <1>2
  <2> QED BY <2>1 DEF CellRight, Cell, IsAt
<1> QED BY <1>1, <1>3 DEF Shows

(* Characters that are not glyphs are not seen.                            *)
LEMMA SameGlyphs ==
  ASSUME NEW px, NEW L, NEW l, NEW P, NEW Q, NEW top, NEW g, NEW rows, Shows(px, L, l, P, top, g, rows),
         \A i \in P : Glyph(l[i]) => i \in Q, \A i \in Q : Glyph(l[i]) => i \in P
  PROVE  Shows(px, L, l, Q, top, g, rows)
<1>1. ASSUME NEW v, NEW row, NEW col, NEW slice, Cell(v, L, l, P, row, col, g, slice)
      PROVE Cell(v, L, l, Q, row, col, g, slice)
  BY <1>1 DEF Cell, IsAt
<1> QED BY <1>1 DEF Shows, CellRight

(* The same text, longer, with the same places.                            *)
LEMMA LongerText ==
  ASSUME NEW px, NEW L, NEW l, NEW M, NEW m, NEW P, NEW top, NEW g, NEW rows, Shows(px, L, l, P, top, g, rows),
         \A i \in P : m[i] = l[i] /\ M[i - 1] = L[i - 1]
  PROVE  Shows(px, M, m, P, top, g, rows)
<1>1. ASSUME NEW v, NEW row, NEW col, NEW slice, Cell(v, L, l, P, row, col, g, slice)
      PROVE Cell(v, M, m, P, row, col, g, slice)
  <2>1. \A i \in P : IsAt(M, m, i, row, col) <=> IsAt(L, l, i, row, col)  BY DEF IsAt
  <2>2. \A i \in P : ShowsOne(v, M, m, i, g, slice) <=> ShowsOne(v, L, l, i, g, slice)  BY DEF ShowsOne, Shades
  <2> QED BY <1>1, <2>1, <2>2 DEF Cell
<1> QED BY <1>1 DEF Shows, CellRight

(* A glyph is drawn where it belongs.                                      *)
LEMMA DrawShows ==
  ASSUME NEW g \in BOOLEAN, NEW px, Sized(px, g), NEW L, NEW l, NEW P, NEW top \in Int, NEW rows,
         Shows(px, L, l, P, top, g, rows),
         NEW n, NEW x \in Nat, NEW y \in Nat, y < rows, NEW c, NEW m, c = l[n], Glyph(c), m \in Shades(L, n, g),
         L[n - 1].row = top + y, L[n - 1].col = x
  PROVE  Shows(Draw(px, g, x, y, c, m), L, l, P \cup {n}, top, g, rows)
<1>1. PICK q : q = Draw(px, g, x, y, c, m)  OBVIOUS
<1>2. q = [j \in DOMAIN px |-> IF j \div Font(g) = y THEN [px[j] EXCEPT ![x] = <<c, m, j % Font(g)>>] ELSE px[j]]
  BY <1>1 DEF Draw
<1>3. ASSUME NEW j \in 0..Down(g) - 1, NEW z \in 0..Across(g) - 1
      PROVE  CellRight(q, j, z, L, l, P \cup {n}, top, g, rows)
  <2>1. j \in DOMAIN px /\ z \in DOMAIN px[j]  BY DEF Sized
  <2>2. PICK d \in Nat, s \in Nat : d = j \div Font(g) /\ s = j % Font(g)  BY FontIs, DivMod
  <2>3. CellRight(px, j, z, L, l, P, top, g, rows)  BY DEF Shows
  <2>4. CASE d = y /\ z = x
    <3>1. q[j][z] = <<c, m, s>>  BY <1>2, <2>1, <2>2, <2>4
    <3>2. IsAt(L, l, n, top + d, z)  BY <2>4 DEF IsAt
    <3>3. ShowsOne(q[j][z], L, l, n, g, s)  BY <3>1 DEF ShowsOne
    <3>4. Cell(q[j][z], L, l, P \cup {n}, top + d, z, g, s)  BY <3>2, <3>3 DEF Cell
    <3> QED BY <2>2, <2>4, <3>4 DEF CellRight
  <2>5. CASE ~(d = y /\ z = x)
    <3>1. q[j][z] = px[j][z]
      <4>1. CASE d # y  BY <1>2, <2>1, <2>2, <4>1
      <4>2. CASE d = y /\ z # x
        <5>1. q[j] = [px[j] EXCEPT ![x] = <<c, m, s>>]  BY <1>2, <2>1, <2>2, <4>2
        <5> QED BY <2>1, <4>2, <5>1
      <4> QED BY <2>5, <4>1, <4>2
    <3>2. ~IsAt(L, l, n, top + d, z)
      <4>1. top + d = top + y => d = y  OBVIOUS
      <4> QED BY <2>5, <4>1 DEF IsAt
    <3>3. ASSUME NEW v, Cell(v, L, l, P, top + d, z, g, s) PROVE Cell(v, L, l, P \cup {n}, top + d, z, g, s)
      BY <3>2, <3>3 DEF Cell
    <3> QED BY <2>2, <2>3, <3>1, <3>3 DEF CellRight
  <2> QED BY <2>4, <2>5
<1> QED BY <1>1, <1>3 DEF Shows

(* The screen is moved up a row.                                           *)
LEMMA ShiftShows ==
  ASSUME NEW g \in BOOLEAN, NEW px, Sized(px, g), NEW L, NEW l, NEW P, NEW top \in Int, NEW rows \in Nat,
         rows * Font(g) <= Down(g), Shows(px, L, l, P, top, g, rows), \A i \in P : L[i - 1].row # top + rows
  PROVE  Shows(gr_shiftup(px, g), L, l, P, top + 1, g, rows)
<1>1. PICK q : q = gr_shiftup(px, g)  OBVIOUS
<1>2. PICK f \in Nat \ {0} : f = Font(g)  BY FontIs
<1>3. q = [j \in DOMAIN px |-> IF j + f \in DOMAIN px THEN px[j + f] ELSE [x \in DOMAIN px[0] |-> Blank]]
  BY <1>1, <1>2 DEF gr_shiftup, ShiftBy
<1>4. Down(g) \in Nat \ {0} /\ DOMAIN px = 0..Down(g) - 1 /\ DOMAIN px[0] = 0..Across(g) - 1
  BY Sizes DEF Sized, Down
<1>5. ASSUME NEW j \in 0..Down(g) - 1, NEW x \in 0..Across(g) - 1
      PROVE  CellRight(q, j, x, L, l, P, top + 1, g, rows)
  <2>0. j \in Nat  OBVIOUS
  <2>1. PICK d \in Nat, s \in Nat : d = j \div f /\ s = j % f  BY <2>0, DivMod
  <2>2. (j + f) \div f = d + 1 /\ (j + f) % f = s  BY <2>0, <2>1, DivShift
  <2>3. CASE j + f \in DOMAIN px
    <3>1. q[j][x] = px[j + f][x]  BY <1>3, <1>4, <2>3
    <3>2. CellRight(px, j + f, x, L, l, P, top, g, rows)  BY <1>4, <2>3 DEF Shows
    <3>3. /\ d + 1 < rows => Cell(q[j][x], L, l, P, top + (d + 1), x, g, s)
          /\ ~(d + 1 < rows) => q[j][x] = Blank
      BY <1>2, <2>2, <3>1, <3>2 DEF CellRight
    <3>4. top + (d + 1) = (top + 1) + d  OBVIOUS
    <3>5. CASE d + 1 < rows
      <4>1. d < rows  BY <3>5
      <4> QED BY <1>2, <2>1, <3>3, <3>4, <3>5, <4>1 DEF CellRight
    <3>6. CASE ~(d + 1 < rows)
      <4>1. d < rows => (top + 1) + d = top + rows  BY <3>6
      <4>2. d < rows => Cell(q[j][x], L, l, P, (top + 1) + d, x, g, s)  BY <3>3, <3>6, <4>1 DEF Cell, IsAt
      <4> QED BY <1>2, <2>1, <3>3, <3>6, <4>2 DEF CellRight
    <3> QED BY <3>5, <3>6
  <2>4. CASE j + f \notin DOMAIN px
    <3>1. q[j] = [z \in DOMAIN px[0] |-> Blank]  BY <1>3, <1>4, <2>4
    <3>2. q[j][x] = Blank  BY <1>4, <3>1
    <3>3. j + f \in Nat /\ j + f >= rows * f
      <4>1. rows * f \in Nat  OBVIOUS
      <4> QED BY <1>2, <1>4, <2>4, <4>1
    <3>4. d + 1 >= rows  BY <2>2, <3>3, DivAtLeast
    <3>5. d < rows => (top + 1) + d = top + rows  BY <3>4
    <3>6. d < rows => Cell(q[j][x], L, l, P, (top + 1) + d, x, g, s)  BY <3>2, <3>5 DEF Cell, IsAt
    <3> QED BY <1>2, <2>1, <3>2, <3>6 DEF CellRight
  <2> QED BY <2>3, <2>4
<1> QED BY <1>1, <1>5 DEF Shows

-----------------------------------------------------------------------------
(* Printing keeps what is seen right.                                      *)
LEMMA ExactBefore ==
  ASSUME ShowInv, NEW c \in Printed, PutOnce(c), redrawn \in 0..N, Exact'
  PROVE  /\ Exact /\ ~Echoed(c) /\ N' = N + 1 /\ N \in Nat /\ log'[N + 1] = c
         /\ log \in Seq(Letters) /\ log' \in Seq(Letters) /\ \A i \in 1..N : log'[i] = log[i]
         /\ \A k \in 0..N : Lay'[k] = Lay[k]
<1>1. /\ log \in Seq(Letters) /\ log' \in Seq(Letters) /\ Extends(log', log) /\ log'[Len(log) + 1] = c
      /\ Echoed(c) => Len(log') > Len(log) + 1
      /\ ~Echoed(c) => Len(log') = Len(log) + 1
  BY PutcharLog DEF ShowInv, StoresInv, Shape
<1>2. N \in Nat /\ N' \in Nat /\ N' > N /\ \A i \in 1..N : log'[i] = log[i]  BY <1>1 DEF N, Extends
<1>3. PICK p : p = printed' /\ p = log'  BY DEF Exact
<1>4. /\ p = printed \o <<c>> /\ printed \in Seq(Letters) /\ Len(printed) <= N /\ Len(printed) \in Nat /\ c \in Letters
  BY <1>3 DEF PutOnce, ShowInv, Bounds, Printed, Letters
<1>5. Len(p) = Len(printed) + 1 /\ \A i \in 1..Len(printed) : p[i] = printed[i]  BY <1>4
<1>6. N' = Len(printed) + 1  BY <1>3, <1>5 DEF N
<1>7. Len(printed) = N /\ N' = N + 1  BY <1>2, <1>4, <1>6
<1>8. ~Echoed(c)  BY <1>1, <1>2, <1>7 DEF N
<1>9. \A i \in 1..N : log[i] = printed[i]  BY <1>2, <1>3, <1>5, <1>7
<1>10. log = printed  BY <1>1, <1>4, <1>7, <1>9, SeqEqual DEF N
<1>11. Fits  BY <1>1, FitsBefore DEF Exact, PutOnce, N
<1>12. \A k \in 0..N : Lay'[k] = Lay[k]
  <2>1. PICK A : A = Lay  OBVIOUS
  <2>2. PICK B : B = Lay'  OBVIOUS
  <2>3. IsLay(A, log)  BY <1>1, <2>1, LayIs
  <2>4. IsLay(B, log')  BY <1>1, <2>2, LayIsNext DEF IsLay
  <2> QED BY <1>1, <2>1, <2>2, <2>3, <2>4, LayKept DEF Extends, N
<1> QED BY <1>1, <1>2, <1>7, <1>8, <1>10, <1>11, <1>12 DEF Exact, N

(* The character printed: where it is, and where the text ends then.       *)
LEMMA NextPlace ==
  ASSUME ShowInv, NEW c \in Printed, PutOnce(c), redrawn \in 0..N, Exact'
  PROVE  /\ MovesTo(Lay[N], Lay'[N + 1], c) /\ Lay[N] \in Places /\ Lay'[N + 1] \in Places
         /\ c # NL => Lay[N].col < Width(N + 1)
<1>1. /\ N' = N + 1 /\ N \in Nat /\ log'[N + 1] = c /\ log' \in Seq(Letters) /\ log \in Seq(Letters)
      /\ \A k \in 0..N : Lay'[k] = Lay[k]
  BY ExactBefore
<1>2. PICK B : B = Lay'  OBVIOUS
<1>3. IsLay(B, log')  BY <1>1, <1>2, LayIsNext DEF IsLay
<1>4. PICK n : n = N + 1 /\ n \in 1..Len(log') /\ n - 1 = N /\ N \in 0..Len(log')  BY <1>1 DEF N
<1>5. MovesTo(B[N], B[n], c)  BY <1>1, <1>3, <1>4, LayMoves DEF N
<1>6. B[N] \in Places /\ B[n] \in Places /\ B[N] = Lay[N]  BY <1>1, <1>2, <1>3, <1>4 DEF IsLay
<1>7. c # NL => B[n - 1].col < Width(n)
  <2>0. \A k : Width(k)' = Width(k)  BY DEF Width, PutOnce
  <2>1. \A k \in 1..Len(log') : log'[k] # NL => B[k - 1].col < Width(k)  BY <1>2, <2>0 DEF Exact, Fits
  <2> QED BY <1>1, <1>4, <2>1
<1> QED BY <1>2, <1>4, <1>5, <1>6, <1>7

LEMMA PrintShows ==
  ASSUME ShowInv, NEW c \in Printed, PutOnce(c), pc = "print", Exact' PROVE Right'
<1>1. UNCHANGED <<capacity_x, capacity_y, graphics, pc>> /\ gr_renderchar(c)  BY DEF PutOnce
<1>2. /\ graphics \in BOOLEAN /\ capacity_x = Across(graphics) /\ capacity_y = Charrows(graphics)
      /\ cursor_x \in Nat /\ cursor_y \in Nat /\ cursor_y < capacity_y /\ Sized(screen, graphics) /\ redrawn \in 0..N
      /\ log \in Seq(Letters)
  BY DEF ShowInv, StoresInv, CursorInv, Cursor, Within, Capacities, Redrawing, Shape, TextSafe, FbSafe, N,
         Across, Charrows
<1>3. /\ Exact /\ ~Echoed(c) /\ N' = N + 1 /\ N \in Nat /\ log'[N + 1] = c
      /\ \A i \in 1..N : log'[i] = log[i]
      /\ \A k \in 0..N : Lay'[k] = Lay[k]
  BY <1>2, ExactBefore
<1>4. Right /\ Showing  BY <1>3 DEF ShowInv, Right
<1>5. PICK L, M : L = Lay /\ M = Lay'  OBVIOUS
<1>6. PICK n : n = N + 1  OBVIOUS
<1>7. MovesTo(L[N], M[n], c) /\ L[N] \in Places /\ M[n] \in Places /\ (c # NL => L[N].col < Width(n))
  BY <1>2, <1>5, <1>6, NextPlace
<1>8. PICK r \in Nat, t \in Int : r = L[N].row /\ t = r - cursor_y  BY <1>2, <1>7 DEF Places
<1>9. Shows(screen, L, log, 1..N, t, graphics, capacity_y) /\ cursor_x = L[N].col /\ (~graphics => draw_mode = L[N].mode)
  BY <1>4, <1>5, <1>8 DEF Showing
<1>10. NewRow(c) <=> c = NL
  <2>1. c # NL => cursor_x < capacity_x
    <3>1. Width(n) = capacity_x  BY <1>2, <1>3, <1>6 DEF Width, Across
    <3> QED BY <1>7, <1>9, <3>1
  <2>2. capacity_x \in Nat  BY <1>2, Sizes DEF Across
  <2> QED BY <1>2, <2>1, <2>2 DEF NewRow
<1>11. capacity_y \in Nat \ {0} /\ capacity_y * Font(graphics) <= Down(graphics)
  BY <1>2, RowsFit, CapacitiesAre DEF ShowInv, StoresInv, CursorInv
(* It is enough to show the new screen the text it has.                    *)
<1>12. ASSUME NEW q, NEW u \in Int, Shows(q, L, log, 1..N, u, graphics, capacity_y), NEW v, v = u
       PROVE  Shows(q, M, log', 1..N, v, graphics, capacity_y)
  <2>1. \A i \in 1..N : i - 1 \in 0..N  BY <1>3
  <2>2. \A i \in 1..N : log'[i] = log[i] /\ M[i - 1] = L[i - 1]  BY <1>3, <1>5, <2>1
  <2> QED BY <1>12, <2>2, LongerText
<1>13. ASSUME NEW q, NEW u \in Int, Shows(q, M, log', 1..N, u, graphics, capacity_y), ~Glyph(c)
       PROVE  Shows(q, M, log', 1..N', u, graphics, capacity_y)
  <2>1. \A i \in 1..N : i \in 1..N'  BY <1>3
  <2>2. \A i \in 1..N' : Glyph(log'[i]) => i \in 1..N
    <3>1. \A i \in 1..N' : i = N + 1 \/ i \in 1..N  BY <1>3
    <3> QED BY <1>3, <1>13, <3>1
  <2> QED BY <1>13, <2>1, <2>2, SameGlyphs
<1>14. \/ Scrolls(c) /\ c = NL /\ screen' = gr_shiftup(screen, graphics) /\ cursor_x' = 0
          /\ UNCHANGED <<cursor_y, draw_mode>>
       \/ ~Scrolls(c) /\ c = NL /\ cursor_x' = 0 /\ cursor_y' = cursor_y + 1 /\ UNCHANGED <<screen, draw_mode>>
       \/ c # NL /\ c \in Colours /\ draw_mode' = c /\ UNCHANGED <<cursor_x, cursor_y, screen>>
       \/ /\ c # NL /\ c \notin Colours /\ cursor_x' = cursor_x + 1
          /\ screen' = Draw(screen, graphics, cursor_x, cursor_y, c, draw_mode)
          /\ UNCHANGED <<cursor_y, draw_mode>>
  <2>1. Scrolls(c) => NewRow(c)  BY DEF Scrolls
  <2> QED BY <1>1, <1>3, <1>10, <2>1, RenderIs DEF Scrolled, Lowered, Coloured, Drawn
<1>15. SUFFICES draw_mode' \in Modes /\ Showing'
  BY <1>1 DEF Right, Redrawing
<1>16. SUFFICES /\ draw_mode' \in Modes /\ cursor_x' = M[n].col /\ (~graphics => draw_mode' = M[n].mode)
                /\ Shows(screen', M, log', 1..N', M[n].row - cursor_y', graphics, capacity_y)
  BY <1>1, <1>3, <1>5, <1>6 DEF Showing
<1>17. draw_mode \in Modes  BY <1>4 DEF Right
<1>18. CASE c = NL
  <2>1. M[n].row = r + 1 /\ M[n].col = 0 /\ M[n].mode = L[N].mode  BY <1>7, <1>8, <1>18 DEF MovesTo, NewLine
  <2>2. ~Glyph(c)  BY <1>18 DEF Glyph
  <2>3. cursor_x' = 0 /\ UNCHANGED draw_mode  BY <1>14, <1>18
  <2>4. CASE Scrolls(c)
    <3>1. screen' = gr_shiftup(screen, graphics) /\ cursor_y' = cursor_y  BY <1>14, <1>18, <2>4
    <3>2. cursor_y = capacity_y - 1  BY <1>2, <1>11, <2>4 DEF Scrolls
    <3>3. t + capacity_y = r + 1  BY <1>2, <1>8, <1>11, <3>2
    <3>4. \A i \in 1..N : L[i - 1].row # t + capacity_y
      <4> SUFFICES ASSUME NEW i \in 1..N PROVE L[i - 1].row # t + capacity_y  OBVIOUS
      <4>1. PICK j : j = i - 1 /\ j \in 0..N /\ j <= N /\ N \in 0..N  BY <1>3
      <4>2. L[j].row <= r /\ L[j].row \in Nat  BY <1>2, <1>5, <1>8, <4>1, LayIs, RowsRise, LayTypes DEF N
      <4> QED BY <1>8, <3>3, <4>1, <4>2
    <3>5. Shows(screen', L, log, 1..N, t + 1, graphics, capacity_y)
      BY <1>2, <1>8, <1>9, <1>11, <3>1, <3>4, ShiftShows
    <3>6. PICK u \in Int : u = t + 1  OBVIOUS
    <3>7. M[n].row - cursor_y' = u  BY <1>2, <1>8, <2>1, <3>1, <3>6
    <3>8. Shows(screen', M, log', 1..N, u, graphics, capacity_y)  BY <1>12, <3>5, <3>6
    <3> QED BY <1>9, <1>13, <1>17, <2>1, <2>2, <2>3, <3>7, <3>8
  <2>5. CASE ~Scrolls(c)
    <3>1. screen' = screen /\ cursor_y' = cursor_y + 1  BY <1>14, <1>18, <2>5
    <3>2. M[n].row - cursor_y' = t  BY <1>2, <1>8, <2>1, <3>1
    <3>3. Shows(screen', M, log', 1..N, t, graphics, capacity_y)  BY <1>8, <1>9, <1>12, <3>1
    <3> QED BY <1>8, <1>9, <1>13, <1>17, <2>1, <2>2, <2>3, <3>2, <3>3
  <2> QED BY <2>4, <2>5
<1>19. CASE c # NL /\ c \in Colours
  <2>1. M[n].row = r /\ M[n].col = cursor_x /\ M[n].mode = c  BY <1>7, <1>8, <1>9, <1>19 DEF MovesTo, Recoloured
  <2>2. ~Glyph(c)  BY <1>19 DEF Glyph
  <2>3. draw_mode' = c /\ UNCHANGED <<cursor_x, cursor_y, screen>>  BY <1>14, <1>19
  <2>4. M[n].row - cursor_y' = t  BY <1>8, <2>1, <2>3
  <2>5. Shows(screen', M, log', 1..N, t, graphics, capacity_y)  BY <1>8, <1>9, <1>12, <2>3
  <2>6. c \in Modes  BY <1>19 DEF Modes
  <2> QED BY <1>8, <1>13, <2>1, <2>2, <2>3, <2>4, <2>5, <2>6
<1>20. CASE c # NL /\ c \notin Colours
  <2>1. M[n].row = r /\ M[n].col = cursor_x + 1 /\ M[n].mode = L[N].mode
    BY <1>7, <1>8, <1>9, <1>20 DEF MovesTo, Advanced
  <2>2. Glyph(c)  BY <1>20 DEF Glyph
  <2>3. /\ cursor_x' = cursor_x + 1 /\ UNCHANGED <<cursor_y, draw_mode>>
        /\ screen' = Draw(screen, graphics, cursor_x, cursor_y, c, draw_mode)
    BY <1>14, <1>20
  <2>4. M[n].row - cursor_y' = t  BY <1>8, <2>1, <2>3
  <2>5. Shows(screen, M, log', 1..N, t, graphics, capacity_y)  BY <1>8, <1>9, <1>12
  <2>6. n - 1 = N /\ M[N] = L[N] /\ log'[n] = c  BY <1>3, <1>5, <1>6
  <2>7. draw_mode \in Shades(M, n, graphics)  BY <1>9, <1>17, <2>6 DEF Shades
  <2>8. M[n - 1].row = t + cursor_y /\ M[n - 1].col = cursor_x  BY <1>2, <1>8, <1>9, <2>6
  <2>9. Shows(screen', M, log', 1..N \cup {n}, t, graphics, capacity_y)
    BY <1>2, <1>8, <2>2, <2>3, <2>5, <2>6, <2>7, <2>8, DrawShows
  <2>10. 1..N \cup {n} = 1..N'  BY <1>3, <1>6
  <2> QED BY <1>9, <1>17, <2>1, <2>3, <2>4, <2>9, <2>10
<1> QED BY <1>18, <1>19, <1>20

LEMMA PutcharShows ==
  ASSUME ShowInv, StoresInv', NEW c \in Printed, PutOnce(c), pc \in {"print", "switch"},
         pc = "switch" /\ todo' = <<>> => c = NL
  PROVE  ShowInv'
<1>1. pc' = pc /\ pc \in {"print", "switch"}  BY DEF PutOnce, ShowInv, StoresInv, CursorInv, Capacities, Redrawing
<1>2. redrawn \in 0..N
  BY DEF ShowInv, StoresInv, TextSafe, FbSafe, Shape, N
<1>3. Bounds'
  <2>1. Len(log') > Len(log) /\ Len(log') \in Nat /\ Len(log) \in Nat
    BY PutcharLog DEF Extends, ShowInv, StoresInv, Shape
  <2>2. printed \in Seq(Letters) /\ c \in Letters /\ Len(printed) <= N /\ Len(printed) \in Nat
    BY DEF ShowInv, Bounds, Printed, Letters
  <2>3. printed' = printed \o <<c>>  BY DEF PutOnce
  <2>4. printed' \in Seq(Letters) /\ Len(printed') = Len(printed) + 1  BY <2>2, <2>3
  <2> QED BY <1>1, <2>1, <2>2, <2>4 DEF Bounds, N, Redrawing
<1>4. ASSUME Exact', pc = "switch" PROVE Right'
  <2>1. Exact /\ N' = N + 1 /\ log'[N + 1] = c  BY <1>2, <1>4, ExactBefore
  <2>2. draw_mode' \in Modes
    <3>1. draw_mode \in Modes  BY <2>1 DEF ShowInv, Right
    <3>2. draw_mode' = draw_mode \/ draw_mode' \in Colours  BY RenderIs DEF PutOnce, Scrolled, Lowered, Coloured, Drawn
    <3> QED BY <3>1, <3>2 DEF Modes
  <2>3. todo' = <<>> => log'[N'] = NL  BY <1>4, <2>1
  <2> QED BY <1>1, <1>4, <2>2, <2>3 DEF Right, Redrawing
<1> QED BY <1>1, <1>3, <1>4, PrintShows DEF ShowInv

-----------------------------------------------------------------------------
(* So does redraw.                                                         *)
LEMMA ShowInitial == Init => ShowInv
<1> SUFFICES ASSUME Init PROVE ShowInv  OBVIOUS
<1>1. /\ log = <<>> /\ printed = <<>> /\ cursor_x = 0 /\ cursor_y = 0 /\ draw_mode = Gray /\ pc = "print"
      /\ graphics = FALSE /\ screen = BlankScreen(FALSE)
  BY DEF Init
<1>2. N = 0 /\ Len(printed) = 0 /\ printed \in Seq(Letters) /\ log \in Seq(Letters)  BY <1>1 DEF N
<1>3. Lay[0].row = 1 /\ Lay[0].col = 0 /\ Lay[0].mode = Gray  BY <1>2, LayIs, LayStart
<1>4. Bounds  BY <1>1, <1>2 DEF Bounds, Redrawing
<1>5. Shows(screen, Lay, log, 1..N, Lay[N].row - cursor_y, graphics, capacity_y)
  <2>1. \A i \in 1..N : ~Glyph(log[i])  BY <1>2
  <2> QED BY <1>1, <2>1, BlankShows
<1>6. Right  BY <1>1, <1>2, <1>3, <1>5 DEF Right, Showing, Modes, Redrawing
<1> QED BY <1>4, <1>6, StoresInitial DEF ShowInv

LEMMA SwitchShows == ASSUME ShowInv, StoresInv', Switch PROVE ShowInv'
<1>1. /\ UNCHANGED <<log, printed, redrawn, draw_mode>> /\ pc' = "switch" /\ todo' = <<GlyphOne, NL>> /\ redrawn = 0
      /\ redrawn \in Nat
  BY DEF Switch, ShowInv, StoresInv, CursorInv, Capacities, TextSafe, GlyphOne, Line
<1>2. Lay' = Lay /\ N' = N  BY <1>1, LaySame DEF N
<1>3. Bounds'  BY <1>1, <1>2 DEF Bounds, ShowInv, Redrawing
<1>4. Exact' => Exact
  <2>1. ~graphics /\ UNCHANGED graphics  BY DEF Switch
  <2>2. \A k : Width(k)' = Width(k)  BY <2>1 DEF Width
  <2> QED BY <1>1, <1>2, <2>2 DEF Exact, Fits
<1>5. todo' # <<>>  BY <1>1
<1>6. Right => Right'  BY <1>1, <1>5 DEF Right, Redrawing
<1> QED BY <1>3, <1>4, <1>6 DEF ShowInv

LEMMA RedrawShows == ASSUME ShowInv, StoresInv', Redraw PROVE ShowInv'
<1>1. /\ UNCHANGED <<log, printed, draw_mode, capacity_x, capacity_y>> /\ pc = "switch" /\ todo = <<>> /\ pc' = "read"
      /\ graphics' = TRUE /\ screen' = BlankScreen(TRUE) /\ cursor_x' = 0 /\ chrid' = N
      /\ crtline' = [x \in 0..capacity_x |-> NL]
  BY DEF Redraw, N
<1>2. N \in Nat \ {0} /\ redrawn = 0 /\ log \in Seq(Letters) /\ ~graphics
  BY <1>1 DEF ShowInv, StoresInv, CursorInv, Capacities, TextSafe, Shape, N
<1>3. Lay' = Lay /\ N' = N  BY <1>1, LaySame DEF N
<1>4. Bounds'
  <2>1. DOMAIN crtline' = 0..capacity_x'  BY <1>1
  <2> QED BY <1>1, <1>3, <2>1 DEF Bounds, ShowInv
<1>5. Exact' => Exact
  <2>1. redrawn' = N  BY DEF Redraw, N
  <2>2. \A k \in 1..N : Width(k)' = Width(k)  BY <1>2, <2>1 DEF Width
  <2> QED BY <1>1, <1>2, <1>3, <2>2 DEF Exact, Fits, N
<1>6. ASSUME Right PROVE Right'
  <2>1. log[N] = NL  BY <1>1, <1>6 DEF Right
  <2>2. N - chrid' = 0 /\ N..N = {N} /\ \A i \in chrid' + 1..N - 1 : FALSE  BY <1>1, <1>2
  <2>3. RowEnd(N)'  BY <1>1, <1>2, <1>3, <2>2 DEF RowEnd
  <2>4. LineIs(N)'  BY <1>3, <2>2 DEF LineIs
  <2>5. \A i \in N..N : ~Glyph(log[i])  BY <2>1, <2>2 DEF Glyph
  <2>6. Shows(screen', Lay, log, N..N, Lay[N].row - (capacity_y - 1), TRUE, capacity_y)  BY <1>1, <2>5, BlankShows
  <2>7. Reading(N)'  BY <1>1, <1>3, <2>2, <2>6 DEF Reading, Painted
  <2>8. \E k \in 0..N' : (RowEnd(k) /\ LineIs(k) /\ Reading(k))'
    <3>1. PICK k \in 0..N : k = N  BY <1>2
    <3> QED BY <1>3, <2>3, <2>4, <2>7, <3>1 DEF RowEnd, LineIs, Reading, Painted
  <2>9. Repainting'  BY <1>1, <1>3, <2>1, <2>8 DEF Repainting, Flushing
  <2> QED BY <1>1, <1>6, <2>9 DEF Right
<1> QED BY <1>4, <1>5, <1>6 DEF ShowInv

(* The walk keeps the text and its places.                                 *)
LEMMA PaintingShows ==
  ASSUME ShowInv, StoresInv', Painting, UNCHANGED printed,
         Redrawing' => DOMAIN crtline' = DOMAIN crtline, pc' # "switch",
         Exact /\ Right => draw_mode' \in Modes /\ (pc' = "print" => Showing') /\ (Redrawing' => Repainting')
  PROVE  ShowInv'
<1>1. Bounds'  BY DEF ShowInv, Bounds, Painting, N
<1>2. Exact' => Exact  BY FitsSame DEF Exact, Painting
<1> QED BY <1>1, <1>2 DEF ShowInv, Right

LEMMA ReadBackShows == ASSUME ShowInv, StoresInv', ReadBack PROVE ShowInv'
<1>1. /\ Painting /\ pc = "read" /\ pc' \in {"read", "flush"}
      /\ UNCHANGED <<printed, draw_mode, screen, log, graphics, capacity_x, capacity_y>>
      /\ crtline' = [crtline EXCEPT ![cursor_x] = log[chrid]]
  BY DEF ReadBack, Painting, Redrawing
<1>2. ASSUME Exact, Right PROVE Repainting'
  <2>1. PICK k \in 0..N : RowEnd(k) /\ LineIs(k) /\ Reading(k)  BY <1>1, <1>2 DEF Right, Repainting, Redrawing
  <2>2. Walking /\ Fits  BY <1>1, <1>2 DEF Exact, ShowInv, StoresInv, CursorInv, Capacities, FbSafe, Redrawing
  <2>3. k - chrid < capacity_x  BY <1>1, <2>1, <2>2, LineHolds DEF Painting, ShowInv
  <2>4. N \in Nat /\ capacity_x \in Nat /\ chrid \in 1..N /\ cursor_x = k - chrid /\ k \in chrid..N /\ cursor_x \in Nat
    BY <2>1, <2>2, CapacitiesAre
       DEF ShowInv, StoresInv, CursorInv, Cursor, Shape, N, Walking, ReadBack, Reading, RowEnd
  <2>5. cursor_x \in DOMAIN crtline  BY <1>1, <2>3, <2>4 DEF ShowInv, Bounds, Redrawing
  <2>6. crtline'[cursor_x] = log[chrid]  BY <1>1, <2>5
  <2>7. \A i \in chrid + 1..k - 1 : crtline'[k - i] = log[i]
    <3> SUFFICES ASSUME NEW i \in chrid + 1..k - 1 PROVE crtline'[k - i] = log[i]  OBVIOUS
    <3>1. PICK x : x = k - i /\ x # cursor_x  BY <2>4
    <3>2. crtline[x] = log[i]  BY <2>1, <3>1 DEF LineIs
    <3>3. x \in DOMAIN crtline
      <4>1. x \in 0..capacity_x  BY <2>3, <2>4, <3>1
      <4> QED BY <1>1, <4>1 DEF ShowInv, Bounds, Redrawing
    <3> QED BY <1>1, <3>1, <3>2, <3>3
  <2>8. Lay' = Lay /\ N' = N  BY <1>1, LaySame DEF N
  <2>9. log'[N'] = NL  BY <1>1, <1>2, <2>8 DEF Right, Repainting, Redrawing
  <2>10. Painted(k..N)  BY <2>1 DEF Reading
  <2>11. CASE log[chrid] = NL
    <3>1. pc' = "flush" /\ chrid' = chrid /\ maxhere' = cursor_x /\ cursor_x' = 0  BY <2>11 DEF ReadBack, Flushline
    <3>2. RowEnd(k)' /\ LineIs(k)'  BY <1>1, <2>1, <2>7, <2>8, <3>1 DEF RowEnd, LineIs
    <3>3. PICK q : q = chrid - 1 /\ q \in chrid - 1..k - 1 /\ q + 1 = chrid /\ ~(q >= chrid)  BY <2>4
    <3>4. maxhere' - cursor_x' = k - 1 - q  BY <2>4, <3>1, <3>3
    <3>5. crtline'[k - chrid'] = NL  BY <2>4, <2>6, <2>11, <3>1
    <3>6. chrid + 1..q \cup k..N = k..N  BY <2>4, <3>3
    <3>7. Painted(chrid + 1..q \cup k..N)'  BY <1>1, <2>8, <2>10, <3>1, <3>6 DEF Painted
    <3>8. FlushedTo(k, q)'  BY <2>8, <3>1, <3>3, <3>4, <3>5, <3>7 DEF FlushedTo
    <3> QED BY <2>8, <2>9, <3>1, <3>2, <3>3, <3>8 DEF Repainting
  <2>12. CASE log[chrid] # NL
    <3>1. pc' = "read" /\ chrid' = chrid - 1 /\ cursor_x' = cursor_x + 1
      <4>1. ~(cursor_x >= capacity_x)  BY <2>3, <2>4
      <4> QED BY <1>1, <2>12, <4>1 DEF ReadBack
    <3>2. \A i \in chrid' + 1..k - 1 : i = chrid \/ i \in chrid + 1..k - 1  BY <2>4, <3>1
    <3>3. RowEnd(k)'
      <4>1. k \in chrid'..N' /\ (k = N' \/ (k > chrid' /\ log'[k] = NL))  BY <1>1, <2>1, <2>4, <2>8, <3>1 DEF RowEnd
      <4>2. \A i \in chrid' + 1..k - 1 : log'[i] # NL  BY <1>1, <2>1, <2>12, <3>2 DEF RowEnd
      <4> QED BY <4>1, <4>2 DEF RowEnd
    <3>4. LineIs(k)'  BY <1>1, <2>4, <2>6, <2>7, <3>2 DEF LineIs
    <3>5. cursor_x' = k - chrid'  BY <2>4, <3>1
    <3>6. Painted(k..N)'  BY <1>1, <2>8, <2>10 DEF Painted
    <3> QED BY <2>8, <2>9, <3>1, <3>3, <3>4, <3>5, <3>6 DEF Repainting, Flushing, Reading
  <2> QED BY <2>11, <2>12
<1> QED BY <1>1, <1>2, PaintingShows DEF Right

LEMMA ReadLastShows == ASSUME ShowInv, StoresInv', ReadLast PROVE ShowInv'
<1>1. /\ Painting /\ pc = "read" /\ pc' \in {"last", "wild"} /\ chrid = 0
      /\ UNCHANGED <<printed, draw_mode, screen, log, graphics, capacity_y, crtline, chrid>>
  BY DEF ReadLast, Painting, Redrawing
<1>2. ASSUME Exact, Right PROVE Repainting'
  <2>1. PICK k \in 0..N : RowEnd(k) /\ LineIs(k) /\ Reading(k)  BY <1>1, <1>2 DEF Right, Repainting, Redrawing
  <2>2. N \in Nat \ {0} /\ log \in Seq(Letters)
    BY <1>1 DEF ShowInv, StoresInv, CursorInv, Capacities, FbSafe, Redrawing, N, Shape
  <2>3. k > 0 /\ cursor_x = k  BY <1>1, <2>1, <2>2 DEF RowEnd, Reading
  <2>4. pc' = "last" /\ maxhere' = k - 1 /\ cursor_x' = 0  BY <2>2, <2>3 DEF ReadLast, Flushline
  <2>5. Lay' = Lay /\ N' = N  BY <1>1, LaySame DEF N
  <2>6. RowEnd(k)' /\ LineIs(k)'  BY <1>1, <2>1, <2>5 DEF RowEnd, LineIs
  <2>7. PICK q : q = 0  OBVIOUS
  <2>8. chrid' + 1..q \cup k..N = k..N  BY <1>1, <2>7
  <2>9. Painted(chrid + 1..q \cup k..N)'  BY <1>1, <2>1, <2>5, <2>8 DEF Painted, Reading
  <2>10. Lay[0].col = 0  BY <2>2, LayIs, LayStart
  <2>11. maxhere' - cursor_x' = k - 1 - q /\ q >= chrid' /\ ~(q < chrid') /\ q \in chrid' - 1..k - 1
    BY <1>1, <2>2, <2>3, <2>4, <2>7
  <2>12. FlushedTo(k, q)'  BY <2>4, <2>5, <2>7, <2>9, <2>10, <2>11 DEF FlushedTo
  <2>13. log'[N'] = NL  BY <1>1, <1>2, <2>5 DEF Right, Repainting, Redrawing
  <2> QED BY <1>1, <2>4, <2>5, <2>6, <2>11, <2>12, <2>13 DEF Repainting
<1> QED BY <1>1, <1>2, PaintingShows DEF Right

LEMMA FlushCharShows == ASSUME ShowInv, StoresInv', FlushChar PROVE ShowInv'
<1>1. /\ Painting /\ pc \in {"flush", "last"} /\ graphics = TRUE
      /\ UNCHANGED <<pc, printed, log, graphics, capacity_y, cursor_y, crtline, chrid>>
  BY DEF FlushChar, Painting, Redrawing, ShowInv, StoresInv, CursorInv, Capacities
<1>2. ASSUME Exact, Right PROVE draw_mode' \in Modes /\ Repainting'
  <2>1. PICK k \in 0..N : RowEnd(k) /\ LineIs(k) /\ \E q \in chrid - 1..k - 1 : FlushedTo(k, q)
    BY <1>1, <1>2 DEF Right, Repainting, Redrawing, Flushing
  <2>2. PICK q \in chrid - 1..k - 1 : FlushedTo(k, q)  BY <2>1
  <2>3. Walking  BY <1>1, <1>2 DEF Exact, ShowInv, StoresInv, FbSafe, Redrawing
  <2>4. /\ N \in Nat \ {0} /\ log \in Seq(Letters) /\ chrid \in 0..N /\ k \in chrid..N /\ cursor_x \in Nat /\ maxhere \in Nat
        /\ cursor_y \in Nat /\ cursor_y < capacity_y /\ capacity_y \in Nat \ {0} /\ Sized(screen, TRUE)
    <3>1. N \in Nat \ {0} /\ log \in Seq(Letters) /\ Sized(screen, TRUE)
      <4>1. graphics = TRUE /\ FbSafe /\ Shape  BY <1>1 DEF ShowInv, StoresInv
      <4>2. redrawn \in 1..N /\ log \in Seq(Letters)  BY <4>1 DEF FbSafe, Shape
      <4>3. N \in Nat  BY <4>2 DEF N
      <4>4. N \in Nat \ {0}  BY <4>2, <4>3
      <4>5. Sized(screen, TRUE)  BY <4>1, Zenon DEF Shape
      <4> QED BY <4>2, <4>4, <4>5
    <3>2. cursor_x \in Nat /\ maxhere \in Nat /\ cursor_y \in Nat /\ cursor_y < capacity_y /\ capacity_y \in Nat \ {0}
      BY <1>1, CapacitiesAre DEF ShowInv, StoresInv, CursorInv, Cursor, Within
    <3>3. chrid \in 0..N /\ k \in chrid..N  BY <2>1, <2>3 DEF Walking, RowEnd
    <3> QED BY <3>1, <3>2, <3>3
  <2>5. cursor_x < maxhere /\ maxhere - cursor_x = k - 1 - q  BY <2>2 DEF FlushChar, FlushedTo
  <2>6. PICK i \in Nat : i = q + 1 /\ i \in chrid..k - 1 /\ i \in 1..N \cup {0} /\ maxhere - cursor_x = k - i
    BY <2>2, <2>4, <2>5
  <2>7. PICK L : L = Lay  OBVIOUS
  <2>8. IsLay(L, log) /\ Lay' = L /\ N' = N  BY <1>1, <2>4, <2>7, LayIs, LaySame DEF N
  <2>9. RowEnd(k)' /\ LineIs(k)' /\ log'[N'] = NL /\ draw_mode \in Modes
    BY <1>1, <1>2, <2>1, <2>8 DEF RowEnd, LineIs, Right, Repainting, Redrawing
  <2>10. PICK c : c = crtline[maxhere - cursor_x]  OBVIOUS
  <2>11. \/ /\ c \in Colours \cup {NL} /\ maxhere' = maxhere - 1 /\ UNCHANGED <<cursor_x, screen>>
            /\ draw_mode' = IF c = NL THEN draw_mode ELSE c
         \/ /\ Glyph(c) /\ cursor_x' = cursor_x + 1 /\ UNCHANGED <<draw_mode, maxhere>>
            /\ screen' = Draw(screen, TRUE, cursor_x, cursor_y, c, draw_mode)
    BY <2>10 DEF FlushChar, Glyph
  <2>12. maxhere' - cursor_x' = k - 1 - i
    <3>1. \/ maxhere' = maxhere - 1 /\ cursor_x' = cursor_x
          \/ maxhere' = maxhere /\ cursor_x' = cursor_x + 1
      BY <2>11
    <3>2. PICK m \in Nat, x \in Nat, h \in Nat : m = maxhere /\ x = cursor_x /\ h = k  BY <2>4
    <3>3. m - x = h - i  BY <2>6, <3>2
    <3>4. (m - 1) - x = h - 1 - i /\ m - (x + 1) = h - 1 - i  BY <3>3
    <3> QED BY <3>1, <3>2, <3>4
  <2>13. draw_mode' \in Modes  BY <2>9, <2>11 DEF Modes
  <2>14. SUFFICES /\ i >= chrid => cursor_x' = L[i].col
                  /\ Shows(screen', L, log, chrid + 1..i \cup k..N, L[N].row - (capacity_y - 1), TRUE, capacity_y)
    <3>1. Painted(chrid + 1..i \cup k..N)'  BY <1>1, <2>8, <2>14 DEF Painted
    <3>2. i >= chrid' /\ ~(i < chrid') /\ i \in chrid' - 1..k - 1  BY <1>1, <2>4, <2>6
    <3>3. FlushedTo(k, i)'  BY <1>1, <2>8, <2>12, <2>14, <3>1, <3>2 DEF FlushedTo
    <3> QED BY <1>1, <2>8, <2>9, <2>13, <3>2, <3>3 DEF Repainting
  <2>15. Shows(screen, L, log, chrid + 1..q \cup k..N, L[N].row - (capacity_y - 1), TRUE, capacity_y)
    BY <1>1, <2>2, <2>7 DEF FlushedTo, Painted
(* The line end the row begins with.                                       *)
  <2>16. CASE q < chrid
    <3>1. pc = "flush" /\ cursor_x = 0 /\ crtline[k - chrid] = NL /\ i = chrid
      BY <2>2, <2>4, <2>6, <2>16 DEF FlushedTo
    <3>2. c = NL  BY <2>6, <2>10, <3>1
    <3>3. cursor_x' = 0 /\ screen' = screen  BY <2>11, <3>1, <3>2 DEF Glyph
    <3>4. chrid > 0 /\ log[chrid] = NL  BY <2>3, <3>1 DEF Walking
    <3>5. L[i].col = 0
      <4>1. MovesTo(L[i - 1], L[i], log[i])  BY <2>4, <2>8, <3>1, <3>4, LayMoves DEF N
      <4> QED BY <3>1, <3>4, <4>1 DEF MovesTo, NewLine
    <3>6. chrid + 1..i = chrid + 1..q  BY <2>4, <2>6, <3>1
    <3> QED BY <2>15, <3>3, <3>5, <3>6
  <2>17. CASE q >= chrid
    <3>1. i \in chrid + 1..k - 1 /\ i \in 1..N /\ i - 1 = q /\ q \in 0..N  BY <2>4, <2>6, <2>17
    <3>2. c = log[i] /\ c # NL  BY <2>1, <2>6, <2>10, <3>1 DEF LineIs, RowEnd
    <3>3. MovesTo(L[q], L[i], c)  BY <2>8, <2>4, <3>1, <3>2, LayMoves DEF N
    <3>4. cursor_x = L[q].col  BY <2>2, <2>7, <2>17 DEF FlushedTo
    <3>5. CASE c \in Colours
      <4>1. cursor_x' = cursor_x /\ screen' = screen  BY <2>11, <3>5 DEF Glyph
      <4>2. L[i].col = cursor_x  BY <3>2, <3>3, <3>4, <3>5 DEF MovesTo, Recoloured
      <4>3. ~Glyph(log[i])  BY <3>2, <3>5 DEF Glyph
      <4>4. \A n \in chrid + 1..i \cup k..N : n = i \/ n \in chrid + 1..q \cup k..N  BY <2>4, <2>6, <3>1
      <4>5. \A n \in chrid + 1..q \cup k..N : n \in chrid + 1..i \cup k..N  BY <2>4, <2>6, <3>1
      <4>6. Shows(screen, L, log, chrid + 1..i \cup k..N, L[N].row - (capacity_y - 1), TRUE, capacity_y)
        BY <2>15, <4>3, <4>4, <4>5, SameGlyphs
      <4> QED BY <4>1, <4>2, <4>6
    <3>6. CASE c \notin Colours
      <4>1. /\ Glyph(c) /\ cursor_x' = cursor_x + 1
            /\ screen' = Draw(screen, TRUE, cursor_x, cursor_y, c, draw_mode)
        BY <2>11, <3>2, <3>6 DEF Glyph
      <4>2. L[i].col = cursor_x + 1  BY <3>2, <3>3, <3>4, <3>6 DEF MovesTo, Advanced
      <4>3. PICK r \in Nat, s \in Nat, h \in Nat : r = L[chrid].row /\ s = L[N].row /\ h = capacity_y
        BY <2>4, <2>8, LayTypes DEF N
      <4>4. L[q].row = r
        <5>1. \A n \in chrid + 1..q : n \in chrid + 1..k - 1  BY <2>4, <2>6
        <5>2. \A n \in chrid + 1..q : log[n] # NL  BY <2>1, <5>1 DEF RowEnd
        <5>3. chrid <= q  BY <2>17, <2>4, <3>1
        <5> QED BY <2>4, <2>8, <3>1, <4>3, <5>2, <5>3, RowWidth DEF N
      <4>5. cursor_y = h - 1 - (s - r)  BY <2>3, <2>7, <4>3 DEF Walking
      <4>6. PICK t \in Int : t = s - (h - 1) /\ r = t + cursor_y  BY <4>5
      <4>7. PICK P : P = chrid + 1..q \cup k..N  OBVIOUS
      <4>8. Shows(screen, L, log, P, t, TRUE, capacity_y)  BY <2>15, <4>3, <4>6, <4>7
      <4>9. draw_mode \in Shades(L, i, TRUE)  BY <2>9 DEF Shades
      <4>10. L[i - 1].row = t + cursor_y /\ L[i - 1].col = cursor_x  BY <3>1, <3>4, <4>4, <4>6
      <4>11. Shows(screen', L, log, P \cup {i}, t, TRUE, capacity_y)
        BY <2>4, <3>2, <4>1, <4>8, <4>9, <4>10, DrawShows
      <4>12. P \cup {i} = chrid + 1..i \cup k..N  BY <2>4, <2>6, <3>1, <4>7
      <4> QED BY <4>1, <4>2, <4>3, <4>6, <4>11, <4>12
    <3> QED BY <3>5, <3>6
  <2>18. q < chrid \/ q >= chrid  BY <2>2, <2>4
  <2> QED BY <2>16, <2>17, <2>18, Zenon
<1>3. pc' # "print" /\ pc' # "switch"  BY <1>1
<1> QED BY <1>1, <1>2, <1>3, PaintingShows

(* At the end of a row all of it is painted.                               *)
LEMMA RowPainted ==
  ASSUME ShowInv, Exact, Right, Flushing, Flushed, graphics = TRUE
  PROVE  Shows(screen, Lay, log, chrid..N \cap 1..N, Lay[N].row - (capacity_y - 1), TRUE, capacity_y)
<1>1. PICK k \in 0..N : RowEnd(k) /\ LineIs(k) /\ \E q \in chrid - 1..k - 1 : FlushedTo(k, q)
  BY DEF Right, Repainting, Redrawing, Flushing
<1>2. PICK q \in chrid - 1..k - 1 : FlushedTo(k, q)  BY <1>1
<1>3. Walking /\ log[N] = NL  BY DEF Exact, ShowInv, StoresInv, FbSafe, Redrawing, Flushing, Right, Repainting
<1>4. /\ N \in Nat \ {0} /\ chrid \in 0..N /\ k \in chrid..N /\ cursor_x \in Nat /\ maxhere \in Nat
  BY <1>1, <1>3 DEF ShowInv, StoresInv, CursorInv, Cursor, FbSafe, N, Shape, Walking, RowEnd
<1>5. q = k - 1  BY <1>2, <1>4 DEF FlushedTo, Flushed
<1>6. \A n \in chrid + 1..q \cup k..N : n \in chrid..N  BY <1>4, <1>5
<1>7. \A n \in chrid..N \cap 1..N : n \in {chrid} \cup (chrid + 1..q \cup k..N)  BY <1>4, <1>5
<1>8. chrid \in 1..N => ~Glyph(log[chrid])
  <2>1. chrid \in 1..N => pc # "last"  BY <1>3, <1>4 DEF Walking
  <2> QED BY <1>3, <2>1 DEF Glyph, Walking, Flushing
<1>9. \A n \in chrid + 1..q \cup k..N : n \in chrid..N \cap 1..N
  <2>1. k # 0  
    <3>1. k = 0 => chrid = 0 /\ N = 0  BY <1>1, <1>4 DEF RowEnd
    <3> QED BY <1>4, <3>1
  <2> QED BY <1>4, <1>5, <2>1
<1>10. \A n \in chrid..N \cap 1..N : Glyph(log[n]) => n \in chrid + 1..q \cup k..N  BY <1>4, <1>7, <1>8
<1>11. Shows(screen, Lay, log, chrid + 1..q \cup k..N, Lay[N].row - (capacity_y - 1), TRUE, capacity_y)
  BY <1>2 DEF FlushedTo, Painted
<1> QED BY <1>9, <1>10, <1>11, SameGlyphs

(* The top row has no line end before it, so that redraw never stops early. *)
LEMMA FlushRises == ASSUME StoresInv, Fits, Walking, pc = "flush" PROVE cursor_y # 0
<1>1. N \in Nat /\ capacity_y \in Nat /\ chrid \in 1..N /\ log[chrid] = NL /\ redrawn = N /\ log \in Seq(Letters)
  BY CapacitiesAre DEF StoresInv, CursorInv, Cursor, Shape, N, Walking, FbSafe, Capacities, Redrawing
<1>2. PICK L : L = Lay  OBVIOUS
<1>3. PICK p : p = chrid - 1 /\ p \in 0..N  BY <1>1
<1>4. IsLay(L, log)  BY <1>1, <1>2, LayIs
<1>5. PICK a \in Nat, b \in Nat, d \in Nat : a = L[p].row /\ b = L[chrid].row /\ d = L[N].row
  <2>1. chrid \in 0..Len(log) /\ N \in 0..Len(log) /\ p \in 0..Len(log)  BY <1>1, <1>3 DEF N
  <2>2. L[p].row \in Nat  BY <1>4, <2>1, LayTypes
  <2>3. L[chrid].row \in Nat  BY <1>4, <2>1, LayTypes
  <2>4. L[N].row \in Nat  BY <1>4, <2>1, LayTypes
  <2> QED BY <2>2, <2>3, <2>4
<1>6. MovesTo(L[p], L[chrid], log[chrid])  BY <1>1, <1>3, <1>4, LayMoves DEF N
<1>7. b = a + 1 /\ a >= 1  BY <1>1, <1>3, <1>4, <1>5, <1>6, RowsRise DEF MovesTo, NewLine, N
<1>8. d <= capacity_y  BY <1>1, <1>2, <1>5 DEF Fits
<1>9. cursor_y = capacity_y - 1 - (d - b)  BY <1>2, <1>5 DEF Walking
<1> QED BY <1>1, <1>7, <1>8, <1>9

LEMMA FlushDoneShows == ASSUME ShowInv, StoresInv', FlushDone PROVE ShowInv'
<1>1. /\ Painting /\ pc = "flush" /\ pc' = "read" /\ graphics = TRUE /\ Flushed
      /\ UNCHANGED <<printed, draw_mode, screen, log, graphics, capacity_y, crtline>>
  BY DEF FlushDone, Painting, Redrawing, ShowInv, StoresInv, CursorInv, Capacities
<1>2. ASSUME Exact, Right PROVE Repainting'
  <2>1. Walking /\ log[N] = NL  BY <1>1, <1>2 DEF Exact, ShowInv, StoresInv, FbSafe, Redrawing, Right, Repainting
  <2>2. cursor_y # 0  BY <1>1, <1>2, <2>1, FlushRises DEF Exact, ShowInv
  <2>3. chrid' = chrid - 1 /\ cursor_x' = 1  BY <2>2 DEF FlushDone
  <2>4. Lay' = Lay /\ N' = N  BY <1>1, LaySame DEF N
  <2>5. PICK k \in 0..N : k = chrid /\ k \in 1..N /\ log[k] = NL /\ N \in Nat
    BY <1>1, <2>1 DEF Walking, ShowInv, StoresInv, Shape, N
  <2>6. \A i \in chrid' + 1..k - 1 : FALSE  BY <2>3, <2>5
  <2>7. RowEnd(k)' /\ LineIs(k)'  BY <1>1, <2>3, <2>4, <2>5, <2>6 DEF RowEnd, LineIs
  <2>8. chrid..N \cap 1..N = k..N  BY <2>5
  <2>9. Shows(screen, Lay, log, k..N, Lay[N].row - (capacity_y - 1), TRUE, capacity_y)
    BY <1>1, <1>2, <2>8, RowPainted DEF Flushing
  <2>10. cursor_x' = k - chrid'  BY <2>3, <2>5
  <2>11. Reading(k)'  BY <1>1, <2>4, <2>9, <2>10 DEF Reading, Painted
  <2> QED BY <1>1, <2>1, <2>4, <2>7, <2>11 DEF Repainting, Flushing
<1> QED BY <1>1, <1>2, PaintingShows DEF Right

LEMMA RedrawnShows == ASSUME ShowInv, StoresInv', Redrawn PROVE ShowInv'
<1>1. /\ Painting /\ pc = "last" /\ pc' = "print" /\ graphics = TRUE /\ Flushed
      /\ UNCHANGED <<printed, draw_mode, screen, log, graphics, capacity_y>>
      /\ cursor_x' = 0 /\ cursor_y' = capacity_y - 1
  BY DEF Redrawn, Painting, Redrawing, ShowInv, StoresInv, CursorInv, Capacities
<1>2. ASSUME Exact, Right PROVE Showing'
  <2>1. Walking /\ log[N] = NL  BY <1>1, <1>2 DEF Exact, ShowInv, StoresInv, FbSafe, Redrawing, Right, Repainting
  <2>2. chrid = 0 /\ N \in Nat \ {0} /\ log \in Seq(Letters)
    BY <1>1, <2>1 DEF Walking, ShowInv, StoresInv, FbSafe, Shape, N
  <2>3. Lay' = Lay /\ N' = N  BY <1>1, LaySame DEF N
  <2>4. chrid..N \cap 1..N = 1..N  BY <2>2
  <2>5. Shows(screen, Lay, log, 1..N, Lay[N].row - (capacity_y - 1), TRUE, capacity_y)
    BY <1>1, <1>2, <2>4, RowPainted DEF Flushing
  <2>6. Lay[N].col = 0
    <3>1. MovesTo(Lay[N - 1], Lay[N], log[N])  BY <2>2, LayIs, LayMoves DEF N
    <3> QED BY <2>1, <3>1 DEF MovesTo, NewLine
  <2> QED BY <1>1, <2>3, <2>5, <2>6 DEF Showing
<1>3. ~Redrawing'  BY <1>1 DEF Redrawing
<1> QED BY <1>1, <1>2, <1>3, PaintingShows DEF Right

LEMMA ShowStep == ASSUME ShowInv, [OnceNext]_seen PROVE ShowInv'
<1>0. StoresInv'  BY StoresStep DEF ShowInv
<1>1. ASSUME NEW c \in Printed, OnceChar(c) PROVE ShowInv'
  <2>1. PutOnce(c) /\ pc = "print"  BY <1>1 DEF OnceChar
  <2> QED BY <1>0, <2>1, PutcharShows
<1>2. CASE OnceMode
  <2>1. pc = "switch" /\ PutOnce(Head(todo)) /\ todo' = Tail(todo)  BY <1>2 DEF OnceMode
  <2>2. CASE todo = <<NL>>
    <3>1. Head(todo) = NL /\ todo' = <<>>  BY <2>1, <2>2
    <3> QED BY <1>0, <2>1, <3>1, PutcharShows DEF Printed
  <2>3. CASE todo = <<GlyphOne, NL>>
    <3>1. Head(todo) = GlyphOne /\ todo' # <<>>  BY <2>1, <2>3
    <3> QED BY <1>0, <2>1, <3>1, PutcharShows, GlyphOneIs DEF Printed
  <2> QED BY <1>2, <2>2, <2>3 DEF OnceMode, ShowInv, StoresInv, Shape
<1>3. CASE UNCHANGED seen
  <2>1. UNCHANGED <<log, cursor_x, cursor_y, capacity_x, capacity_y, draw_mode, graphics, screen, pc, todo,
                    chrid, crtline, maxhere, printed, redrawn>>
    BY <1>3 DEF seen, walk
  <2>2. Lay' = Lay /\ N' = N /\ (Fits' <=> Fits) /\ \A k : RowEnd(k)' <=> RowEnd(k)
    BY <2>1, LaySame, FitsSame DEF N, RowEnd
  <2>3. Bounds' /\ (Exact' <=> Exact)  BY <2>1, <2>2 DEF ShowInv, Bounds, Exact, Redrawing
  <2>4. Showing' <=> Showing  BY <2>1, <2>2 DEF Showing
  <2>5. \A k : LineIs(k)' <=> LineIs(k)  BY <2>1 DEF LineIs
  <2>6. \A k : Reading(k)' <=> Reading(k)  BY <2>1, <2>2 DEF Reading, Painted
  <2>7. \A k, q : FlushedTo(k, q)' <=> FlushedTo(k, q)  BY <2>1, <2>2 DEF FlushedTo, Painted
  <2>8. Repainting => Repainting'
    BY <2>1, <2>2, <2>5, <2>6, <2>7 DEF Repainting, Flushing
  <2>9. Right => Right'  BY <2>1, <2>2, <2>4, <2>8 DEF Right, Redrawing
  <2> QED BY <1>0, <2>3, <2>9 DEF ShowInv
<1> QED BY <1>0, <1>1, <1>2, <1>3, SwitchShows, RedrawShows, ReadBackShows, ReadLastShows, FlushCharShows,
           FlushDoneShows, RedrawnShows DEF OnceNext, redraw

(* What the invariant says of the screen is what ShownIsLog says.          *)
LEMMA ShowingIs == ASSUME ShowInv, pc = "print", log = printed, Fits PROVE ShownIsLog
<1>1. Showing /\ N \in Nat /\ log \in Seq(Letters) /\ Sized(screen, graphics) /\ graphics \in BOOLEAN /\ cursor_y \in Nat
  BY DEF ShowInv, Exact, Right, StoresInv, Shape, CursorInv, Capacities, Cursor, N
<1>2. PICK r \in Nat, t \in Int : r = Lay[N].row /\ t = r - cursor_y  BY <1>1, LayIs, LayTypes DEF N
<1>3. ASSUME NEW j \in DOMAIN screen, NEW x \in DOMAIN screen[0], NEW y, y = j \div Font(graphics),
             NEW here, here = IF y < capacity_y THEN GlyphsAt(Lay[Len(log)].row + y - cursor_y, x) ELSE {}
      PROVE  IF here = {} THEN screen[j][x] = Blank ELSE \E k \in here : screen[j][x] \in Seen(k, j % Font(graphics))
  <2>1. j \in 0..Down(graphics) - 1 /\ x \in 0..Across(graphics) - 1 /\ j \in Nat
    <3>1. Down(graphics) \in Nat \ {0}  BY Sizes DEF Down
    <3>2. DOMAIN screen = 0..Down(graphics) - 1 /\ \A i \in DOMAIN screen : DOMAIN screen[i] = 0..Across(graphics) - 1
      BY <1>1 DEF Sized
    <3>3. 0 \in DOMAIN screen  BY <3>1, <3>2
    <3>4. DOMAIN screen[0] = 0..Across(graphics) - 1  BY <3>2, <3>3
    <3> QED BY <1>3, <3>1, <3>2, <3>4
  <2>2. CellRight(screen, j, x, Lay, log, 1..N, t, graphics, capacity_y)  BY <1>1, <1>2, <2>1 DEF Showing, Shows
  <2>3. y \in Nat  BY <1>1, <1>3, <2>1, FontIs, DivMod
  <2>4. CASE ~(y < capacity_y)  BY <1>3, <2>2, <2>4 DEF CellRight
  <2>5. CASE y < capacity_y
    <3>1. Lay[Len(log)].row + y - cursor_y = t + y  BY <1>1, <1>2, <2>3 DEF N
    <3>2. here = {k \in 1..N : IsAt(Lay, log, k, t + y, x)}
      <4>1. here = GlyphsAt(t + y, x)  BY <1>3, <2>5, <3>1
      <4> QED BY <4>1 DEF GlyphsAt, IsAt, Glyph, N
    <3>3. Cell(screen[j][x], Lay, log, 1..N, t + y, x, graphics, j % Font(graphics))
      BY <1>3, <2>2, <2>5 DEF CellRight
    <3>4. ASSUME NEW k, ShowsOne(screen[j][x], Lay, log, k, graphics, j % Font(graphics))
          PROVE screen[j][x] \in Seen(k, j % Font(graphics))
      BY <1>1, <3>4 DEF ShowsOne, Shades, Seen, Modes
    <3> QED BY <3>2, <3>3, <3>4 DEF Cell
  <2> QED BY <2>4, <2>5
<1> QED BY <1>3 DEF ShownIsLog

-----------------------------------------------------------------------------
(* The main line and the keys.  As long as no key disturbs a character,    *)
(* what the test found still holds when gr_renderchar acts.                *)
KeyTexts == {<<>>, <<NL>>, <<GlyphOne, NL>>}
Rendering ==
  /\ put = "none" => fresh = <<>>
  /\ put # "none" => fresh = <<chr>> /\ chr \in Printed /\ keys = <<>>
  /\ pc = "switch" /\ put # "none" => chr = Head(todo)
  /\ put = "act" => branch = Branch(chr)
  /\ keys # <<>> => pc = "print" /\ put = "none"

(* And with keys pressed anywhere: the main line may only put the cursor a *)
(* row too low; a key's line leaves it at the left.                        *)
Drifting ==
  /\ disturbed \in BOOLEAN /\ keys \in KeyTexts
  /\ put \in {"none", "test", "act"} /\ branch \in {"scroll", "down", "here"}
  /\ put # "none" => pc \in {"print", "switch"} /\ (pc = "switch" => todo # <<>>)
  /\ cursor_x \in Nat /\ cursor_y \in Nat /\ maxhere \in Nat
  /\ cursor_x <= capacity_x /\ (pc # "switch" => cursor_y <= capacity_y)
  /\ Flushing => maxhere <= capacity_x
  /\ put = "act" /\ branch = "down" /\ pc = "print" => cursor_y < capacity_y
  /\ put = "act" /\ branch = "here" /\ keys = <<>> => cursor_x < capacity_x
DriftInv == Capacities /\ Drifting
ScreenInv == DriftInv /\ (~disturbed => Rendering /\ ShowInv)

LEMMA DriftInitial == Init => DriftInv
<1> SUFFICES ASSUME Init PROVE DriftInv  OBVIOUS
<1>1. Capacities  BY CursorInitial DEF CursorInv
<1>2. Drifting
  <2>1. /\ disturbed = FALSE /\ keys = <<>> /\ put = "none" /\ branch = "here" /\ pc = "print"
        /\ cursor_x = 0 /\ cursor_y = 0 /\ maxhere = 0 /\ capacity_x = TextCols /\ capacity_y = TextRows
    BY DEF Init
  <2>2. keys \in KeyTexts  BY <2>1 DEF KeyTexts
  <2>3. cursor_x <= capacity_x /\ cursor_y <= capacity_y /\ cursor_x \in Nat /\ cursor_y \in Nat /\ maxhere \in Nat
    BY <2>1, Sizes
  <2>4. put # "act" /\ ~Flushing  BY <2>1 DEF Flushing
  <2> QED BY <2>1, <2>2, <2>3, <2>4 DEF Drifting
<1> QED BY <1>1, <1>2 DEF DriftInv

LEMMA RenderDrifts ==
  ASSUME NEW c, NEW b, b \in {"scroll", "down", "here"}, Render(c, b)
  PROVE  \/ b = "scroll" /\ cursor_x' = 0 /\ cursor_y' = cursor_y
         \/ b = "down" /\ cursor_x' = 0 /\ cursor_y' = cursor_y + 1
         \/ b = "here" /\ cursor_x' \in {cursor_x, cursor_x + 1} /\ cursor_y' = cursor_y
  BY DEF Render

LEMMA BranchIs ==
  ASSUME NEW c, Capacities, cursor_x \in Nat, cursor_y \in Nat
  PROVE  /\ Branch(c) \in {"scroll", "down", "here"}
         /\ Branch(c) = "down" => cursor_y + 1 < capacity_y
         /\ Branch(c) = "here" => cursor_x < capacity_x /\ c # NL
<1>1. capacity_x \in Nat \ {0} /\ capacity_y \in Nat \ {0}  BY CapacitiesAre
<1>2. CASE Scrolls(c)  BY <1>2 DEF Branch
<1>3. CASE NewRow(c) /\ ~Scrolls(c)  BY <1>1, <1>3 DEF Branch, Scrolls
<1>4. CASE ~NewRow(c)  BY <1>1, <1>4 DEF Branch, Scrolls, NewRow
<1> QED BY <1>2, <1>3, <1>4

LEMMA DriftStep == ASSUME DriftInv, [Next]_vars PROVE DriftInv'
<1>0. capacity_x \in Nat \ {0} /\ capacity_y \in Nat \ {0}  BY CapacitiesAre DEF DriftInv
<1>1. ASSUME NEW c, putchar(c), pc \in {"print", "switch"}, pc = "switch" => todo # <<>> PROVE DriftInv'
  <2>1. Capacities'  BY <1>1 DEF putchar, DriftInv, Capacities, Redrawing
  <2>2. Drifting'  BY <1>1 DEF putchar, DriftInv, Drifting, Flushing, pressed, walk
  <2> QED BY <2>1, <2>2 DEF DriftInv
<1>2. CASE Test
  <2>1. Capacities'  BY <1>2 DEF Test, DriftInv, Capacities, Redrawing
  <2>2. cursor_x \in Nat /\ cursor_y \in Nat /\ Capacities  BY DEF DriftInv, Drifting
  <2>3. /\ branch' \in {"scroll", "down", "here"}
        /\ branch' = "down" => cursor_y + 1 < capacity_y
        /\ branch' = "here" => cursor_x < capacity_x
    BY <1>2, <2>2, BranchIs DEF Test
  <2>4. Drifting'
    BY <1>0, <1>2, <2>2, <2>3 DEF Test, DriftInv, Drifting, Flushing, pressed, walk
  <2> QED BY <2>1, <2>4 DEF DriftInv
<1>3. CASE Act
  <2>0. UNCHANGED <<capacity_x, capacity_y, graphics, pc, branch, keys, disturbed, maxhere>> /\ put' = "none"
        /\ put = "act" /\ keys = <<>> /\ Render(chr, branch)
    BY <1>3 DEF Act, pressed, walk, Main
  <2>1. Capacities'  BY <2>0 DEF DriftInv, Capacities, Redrawing
  <2>2. /\ cursor_x \in Nat /\ cursor_y \in Nat /\ cursor_x <= capacity_x /\ (pc # "switch" => cursor_y <= capacity_y)
        /\ branch = "down" /\ pc = "print" => cursor_y < capacity_y
        /\ branch = "here" => cursor_x < capacity_x
        /\ branch \in {"scroll", "down", "here"} /\ pc \in {"print", "switch"}
    BY <2>0 DEF DriftInv, Drifting
  <2>3. cursor_x' \in Nat /\ cursor_y' \in Nat /\ cursor_x' <= capacity_x /\ (pc # "switch" => cursor_y' <= capacity_y)
    BY <1>0, <2>0, <2>2, RenderDrifts
  <2>4. Drifting'  BY <2>0, <2>2, <2>3 DEF DriftInv, Drifting, Flushing
  <2> QED BY <2>1, <2>4 DEF DriftInv
<1>4. CASE KeyPress
  <2>1. Capacities'  BY <1>4 DEF KeyPress, DriftInv, Capacities, Redrawing
  <2>2. keys' \in KeyTexts /\ keys' # <<>> /\ disturbed' \in BOOLEAN
    BY <1>4 DEF KeyPress, KeyTexts, Line, GlyphOne, DriftInv, Drifting
  <2>3. Drifting'  BY <1>4, <2>2 DEF KeyPress, DriftInv, Drifting, Flushing, walk
  <2> QED BY <2>1, <2>3 DEF DriftInv
<1>5. CASE KeyChar
  <2>0. UNCHANGED <<capacity_x, capacity_y, graphics, pc, put, branch, disturbed, todo, maxhere>>
        /\ Render(Head(keys), Branch(Head(keys))) /\ keys # <<>> /\ keys' = Tail(keys)
    BY <1>5 DEF KeyChar, rendering, walk
  <2>1. Capacities'  BY <2>0 DEF DriftInv, Capacities, Redrawing
  <2>2. keys' \in KeyTexts /\ (keys' = <<>> => Head(keys) = NL)
    <3>1. CASE keys = <<NL>>  BY <2>0, <3>1 DEF KeyTexts
    <3>2. CASE keys = <<GlyphOne, NL>>
      <4>1. keys' = <<NL>> /\ <<NL>> # <<>>  BY <2>0, <3>2
      <4> QED BY <4>1 DEF KeyTexts
    <3> QED BY <2>0, <3>1, <3>2 DEF DriftInv, Drifting, KeyTexts
  <2>3. PICK c : c = Head(keys)  OBVIOUS
  <2>4. /\ cursor_x \in Nat /\ cursor_y \in Nat /\ cursor_x <= capacity_x /\ (pc # "switch" => cursor_y <= capacity_y)
        /\ Capacities
    BY DEF DriftInv, Drifting
  <2>5. /\ Branch(c) \in {"scroll", "down", "here"} /\ Render(c, Branch(c))
        /\ Branch(c) = "down" => cursor_y + 1 < capacity_y
        /\ Branch(c) = "here" => cursor_x < capacity_x /\ c # NL
    BY <2>0, <2>3, <2>4, BranchIs
  <2>6. /\ cursor_x' \in Nat /\ cursor_y' \in Nat /\ cursor_x' <= capacity_x
        /\ pc # "switch" => cursor_y' <= capacity_y
        /\ cursor_y < capacity_y => cursor_y' < capacity_y
        /\ c = NL => cursor_x' < capacity_x
    BY <1>0, <2>4, <2>5, RenderDrifts
  <2>7. Drifting'  BY <2>0, <2>2, <2>3, <2>6 DEF DriftInv, Drifting, Flushing
  <2> QED BY <2>1, <2>7 DEF DriftInv
<1>6. CASE Switch
  <2>1. Capacities'  BY <1>6 DEF Switch, DriftInv, Capacities, Redrawing, FbRows
  <2>2. capacity_x' \in Nat  BY <1>6, Sizes DEF Switch
  <2>3. Drifting'  BY <1>6, <2>2 DEF Switch, DriftInv, Drifting, Flushing, rendering, pressed, walk, Main
  <2> QED BY <2>1, <2>3 DEF DriftInv
<1>7. CASE redraw
  <2>0. pc' # "switch" /\ put = "none" /\ UNCHANGED <<put, branch, keys, disturbed, capacity_x, capacity_y>> /\ keys = <<>>
    BY <1>7 DEF redraw, Redraw, ReadBack, ReadLast, FlushChar, FlushDone, Redrawn, rendering, pressed, Main,
                DriftInv, Drifting
  <2>1. Capacities'
    BY <1>7 DEF redraw, Redraw, ReadBack, ReadLast, FlushChar, FlushDone, Redrawn, DriftInv, Capacities, Redrawing
  <2>2. /\ cursor_x \in Nat /\ cursor_y \in Nat /\ cursor_x <= capacity_x /\ (pc # "switch" => cursor_y <= capacity_y)
        /\ maxhere \in Nat /\ (Flushing => maxhere <= capacity_x)
    BY DEF DriftInv, Drifting
  <2>3. /\ cursor_x' \in Nat /\ cursor_y' \in Nat /\ cursor_x' <= capacity_x /\ cursor_y' <= capacity_y
        /\ maxhere' \in Nat /\ (Flushing' => maxhere' <= capacity_x)
    <3>1. CASE Redraw  BY <1>0, <3>1 DEF Redraw, Flushing
    <3>2. CASE ReadBack  BY <1>0, <2>2, <3>2 DEF ReadBack, Flushline, Flushing
    <3>3. CASE ReadLast  BY <1>0, <2>2, <3>3 DEF ReadLast, Flushline, Flushing
    <3>4. CASE FlushChar
      <4>1. /\ UNCHANGED <<pc, cursor_y>> /\ pc # "switch" /\ cursor_x < maxhere /\ Flushing
            /\ \/ maxhere' = maxhere - 1 /\ cursor_x' = cursor_x
               \/ maxhere' = maxhere /\ cursor_x' = cursor_x + 1
        BY <3>4 DEF FlushChar, Flushing
      <4> QED BY <1>0, <2>2, <4>1 DEF Flushing
    <3>5. CASE FlushDone  BY <1>0, <2>2, <3>5 DEF FlushDone, Flushing
    <3>6. CASE Redrawn  BY <1>0, <2>2, <3>6 DEF Redrawn, walk, Flushing
    <3> QED BY <1>7, <3>1, <3>2, <3>3, <3>4, <3>5, <3>6 DEF redraw
  <2>4. Drifting'  BY <2>0, <2>3 DEF DriftInv, Drifting
  <2> QED BY <2>1, <2>4 DEF DriftInv
<1>8. CASE UNCHANGED vars
  <2>1. Capacities'  BY <1>8 DEF vars, DriftInv, Capacities, Redrawing
  <2>2. Drifting'  BY <1>8 DEF vars, walk, rendering, pressed, DriftInv, Drifting, Flushing
  <2> QED BY <2>1, <2>2 DEF DriftInv
<1>9. ASSUME NEW c, PrintChar(c) PROVE DriftInv'  BY <1>1, <1>9 DEF PrintChar
<1>10. CASE PrintMode  BY <1>1, <1>10 DEF PrintMode
<1> QED BY <1>2, <1>3, <1>4, <1>5, <1>6, <1>7, <1>8, <1>9, <1>10 DEF Next

(* Undisturbed, the steps are those of whole characters.                   *)
LEMMA EmptyTail == ASSUME NEW s \in Seq(Letters) PROVE s \o <<>> = s
  OBVIOUS

LEMMA OnceStep ==
  ASSUME DriftInv, Rendering, ShowInv, [Next]_vars, ~disturbed' PROVE [OnceNext]_seen /\ Rendering'
<1>0. log \in Seq(Letters) /\ printed \in Seq(Letters) /\ todo \in {<<>>, <<NL>>, <<GlyphOne, NL>>}
  BY DEF ShowInv, StoresInv, Shape, Bounds
<1>b. ASSUME UNCHANGED <<cursor_x, cursor_y, capacity_x, capacity_y>> PROVE \A c : Branch(c)' = Branch(c)
  BY <1>b DEF Branch, Scrolls, NewRow
<1>1. ASSUME NEW c \in Printed, putchar(c), pc \in {"print", "switch"}, pc = "switch" => c = Head(todo)
      PROVE [OnceNext]_seen /\ Rendering'
  <2>1. UNCHANGED seen  BY <1>1 DEF putchar, seen
  <2>2. Rendering'  BY <1>1 DEF putchar, Rendering, pressed, Main
  <2> QED BY <2>1, <2>2
<1>2. ASSUME NEW c \in Printed, PrintChar(c) PROVE [OnceNext]_seen /\ Rendering'  BY <1>1, <1>2 DEF PrintChar
<1>3. CASE PrintMode
  <2>1. Head(todo) \in Printed
    <3>1. CASE todo = <<NL>>  BY <3>1 DEF Printed
    <3>2. CASE todo = <<GlyphOne, NL>>  BY <3>2, GlyphOneIs DEF Printed
    <3> QED BY <1>0, <1>3, <3>1, <3>2 DEF PrintMode
  <2> QED BY <1>1, <1>3, <2>1 DEF PrintMode
<1>4. CASE Test
  <2>1. UNCHANGED seen  BY <1>4 DEF Test, seen
  <2>2. branch' = Branch(chr) /\ UNCHANGED <<cursor_x, cursor_y, capacity_x, capacity_y, chr>>  BY <1>4 DEF Test
  <2>3. branch' = Branch(chr)'  BY <1>b, <2>2
  <2>4. Rendering'  BY <1>4, <2>3 DEF Test, Rendering, pressed, Main
  <2> QED BY <2>1, <2>4
<1>5. CASE Act
  <2>1. PICK c \in Printed : c = chr  BY <1>5 DEF Act, Rendering
  <2>2. fresh = <<c>> /\ branch = Branch(c) /\ pc \in {"print", "switch"} /\ (pc = "switch" => todo # <<>> /\ c = Head(todo))
    BY <1>5, <2>1 DEF Act, Rendering, DriftInv, Drifting
  <2>3. PutOnce(c)  BY <1>5, <2>1, <2>2 DEF Act, PutOnce, gr_renderchar
  <2>4. OnceChar(c) \/ OnceMode  BY <1>5, <2>2, <2>3 DEF Act, OnceChar, OnceMode
  <2>5. Rendering'  BY <1>5 DEF Act, Rendering, pressed, Main
  <2> QED BY <2>1, <2>4, <2>5 DEF OnceNext
<1>6. CASE KeyPress
  <2>1. pc = "print" /\ put = "none" /\ fresh = <<>>  BY <1>6 DEF KeyPress, Rendering
  <2>2. log' = log /\ printed' = printed  BY <1>0, <1>6, <2>1, EmptyTail DEF KeyPress
  <2>3. UNCHANGED seen  BY <1>6, <2>2 DEF KeyPress, seen
  <2>4. Rendering'  BY <1>6, <2>1 DEF KeyPress, Rendering
  <2> QED BY <2>3, <2>4
<1>7. CASE KeyChar
  <2>1. PICK c : c = Head(keys)  OBVIOUS
  <2>2. c \in Printed
    <3>1. CASE keys = <<NL>>  BY <2>1, <3>1 DEF Printed
    <3>2. CASE keys = <<GlyphOne, NL>>  BY <2>1, <3>2, GlyphOneIs DEF Printed
    <3> QED BY <1>7, <3>1, <3>2 DEF KeyChar, DriftInv, Drifting, KeyTexts
  <2>3. pc = "print" /\ put = "none"  BY <1>7 DEF KeyChar, Rendering
  <2>4. PutOnce(c) /\ UNCHANGED todo  BY <1>7, <2>1 DEF KeyChar, PutOnce, gr_renderchar
  <2>5. Rendering'  BY <1>7, <2>3 DEF KeyChar, Rendering, rendering
  <2> QED BY <2>2, <2>3, <2>4, <2>5 DEF OnceNext, OnceChar
<1>8. CASE Switch
  <2>1. Rendering'  BY <1>8 DEF Switch, Rendering, rendering, pressed, Main
  <2> QED BY <1>8, <2>1 DEF OnceNext
<1>9. CASE redraw
  <2>1. put = "none" /\ keys = <<>> /\ UNCHANGED <<put, keys, fresh>>
    BY <1>9 DEF redraw, Redraw, ReadBack, ReadLast, FlushChar, FlushDone, Redrawn, rendering, pressed, Main,
                DriftInv, Drifting
  <2>2. Rendering'  BY <2>1 DEF Rendering
  <2> QED BY <1>9, <2>2 DEF OnceNext
<1>10. CASE UNCHANGED vars
  <2>1. UNCHANGED seen  BY <1>10 DEF vars, seen
  <2>2. Rendering'  BY <1>10, <1>b DEF vars, rendering, pressed, Rendering
  <2> QED BY <2>1, <2>2
<1> QED BY <1>2, <1>3, <1>4, <1>5, <1>6, <1>7, <1>8, <1>9, <1>10 DEF Next, Printed

LEMMA StayDisturbed == ASSUME DriftInv, [Next]_vars, ~disturbed' PROVE ~disturbed
  BY DEF Next, PrintChar, PrintMode, putchar, Test, Act, KeyPress, KeyChar, Switch, redraw, Redraw, ReadBack, ReadLast,
         FlushChar, FlushDone, Redrawn, pressed, vars, DriftInv, Drifting

LEMMA ScreenInitial == Init => ScreenInv
<1> SUFFICES ASSUME Init PROVE ScreenInv  OBVIOUS
<1>1. Rendering  BY DEF Init, Rendering
<1> QED BY <1>1, DriftInitial, ShowInitial DEF ScreenInv

LEMMA ScreenStep == ASSUME ScreenInv, [Next]_vars PROVE ScreenInv'
<1>1. DriftInv'  BY DriftStep DEF ScreenInv
<1>2. ASSUME ~disturbed' PROVE Rendering' /\ ShowInv'
  <2>1. ~disturbed  BY <1>2, StayDisturbed DEF ScreenInv
  <2>2. [OnceNext]_seen /\ Rendering'  BY <1>2, <2>1, OnceStep DEF ScreenInv
  <2> QED BY <2>1, <2>2, ShowStep DEF ScreenInv
<1> QED BY <1>1, <1>2 DEF ScreenInv

LEMMA ScreenAlways == Spec => []ScreenInv
  BY ScreenInitial, ScreenStep, PTL DEF Spec

(* Spec => []CursorInside.  With lines of any length, any order of line ends and colour codes, and through the switch
   to a framebuffer of any size and its redraw, whose flushline counts the cursor up and down on its own, the cursor
   (console/console.c) stays inside the capacities as long as every key is pressed between two characters; keys pressed
   anywhere, between gr_renderchar's test and its act too, leave it at most one row too low.  In the switch the rows are
   the text screen's, and after a cursor_x-- below 0 in redraw nothing is said.                                         *)
THEOREM CursorStays == Spec => []CursorInside
<1>1. ScreenInv => CursorInside
  BY DEF ScreenInv, DriftInv, Drifting, ShowInv, StoresInv, CursorInv, Within, CursorInside
<1> QED BY <1>1, ScreenAlways, PTL

(* Spec => []StoresInside.  As long as every key is pressed between two characters, the text is no wider than the screen
   it is printed on, and at the redraw no longer than the framebuffer and a column narrower, no character is stored
   outside the video memory and none outside the line that redraw keeps on its stack (console/console.c), whatever the
   sizes and the text.                                                                                                  *)
THEOREM StoresStay == Spec => []StoresInside
<1>1. StoresInv => StoresInside  BY DEF StoresInv, TextSafe, FbSafe, StoresInside
<1>2. ScreenInv => StoresInside  BY <1>1 DEF ScreenInv, ShowInv, StoresInside
<1> QED BY <1>2, ScreenAlways, PTL

(* Spec => []ShownIsLog.  As long as every key is pressed between two characters, what the console shows is the end of
   its log (console/console.c), on a text screen and a framebuffer of any size, for every text that was no wider than
   the screen it was printed on and at the redraw no longer than the framebuffer and a column narrower: while it is
   printed, through every scroll, and after redraw has read the log backwards and painted it again from the bottom.    *)
THEOREM ShownIsLogAlways == Spec => []ShownIsLog
<1>1. ScreenInv => ShownIsLog
  <2> SUFFICES ASSUME ScreenInv PROVE ShownIsLog  OBVIOUS
  <2>1. ~(pc = "print" /\ ~disturbed /\ log = printed /\ Fits) => ShownIsLog  BY DEF ShownIsLog
  <2> QED BY <2>1, ShowingIs DEF ScreenInv
<1> QED BY <1>1, ScreenAlways, PTL
=============================================================================
