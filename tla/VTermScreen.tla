----------------------------- MODULE VTermScreen -----------------------------
(***************************************************************************)
(* The emulator that a supervisor draws a terminal with: libvterm's state  *)
(* and screen layers (state.c, screen.c, vterm.c, kept in src.vterm) and   *)
(* the bridge over them (bridge.c): printing and wrapping, cursor and      *)
(* scroll region, erasing and moving lines, the alternate screen, the      *)
(* history, which rows are reported as damaged, and the resizing, which    *)
(* lays wrapped lines out anew.                                            *)
(*                                                                         *)
(* The supervisor writes to the emulator piece by piece; after each write  *)
(* the rows that were reported have the new revision, and these are the    *)
(* ones a page is sent (ScreenSync).  A cell is a letter or blank; its     *)
(* width is one.  Colours, tabs, character sets, margins at the left and   *)
(* right, and the modes for origin, insertion and wrapping off are left    *)
(* out, and so are the resets.                                             *)
(***************************************************************************)
EXTENDS Integers, FiniteSets, SequencesExt

CONSTANTS
  Letters, AltLetter,  \* what is printed on the main and the other screen
  Blank,
  Sizes,               \* pairs of rows and columns
  Newline, Texts,      \* what was printed before: letters and CR LF
  MaxSteps,            \* bound: operations after that
  HistoryLimit,        \* lines the history holds (HISTORY)
  EraseTop             \* is ED 1 considered in the first row?

ASSUME VTermAssumption ==
  /\ Sizes \subseteq (Nat \ {0}) \X (Nat \ {0}) /\ Sizes # {}
  /\ Texts \subseteq Seq(Letters \cup {Newline}) /\ Newline \notin Letters
  /\ MaxSteps \in Nat
  /\ HistoryLimit \in Nat \ {0}
  /\ Blank \notin Letters \cup {AltLetter} /\ AltLetter \notin Letters
  /\ EraseTop \in BOOLEAN

VARIABLES
  vt,       \* the emulator
  writing,  \* inside vz_write
  seen,     \* history: the picture when this write began
  stopped,  \* resize_buffer has called abort
  steps     \* operations so far

vars == <<vt, writing, seen, stopped, steps>>

Cells == Letters \cup {AltLetter, Blank}
Screens == {"main", "alt"}
Rows(v) == 0 .. v.rows - 1
Columns(v) == 0 .. v.columns - 1
Lines(columns) == [0 .. columns - 1 -> Cells]
Picture(v) == v.cell[v.on]

BlankLine(columns) == [c \in 0 .. columns - 1 |-> Blank]
NoDamage == <<>>

\* vz_new.
New(rows, columns) ==
  [rows |-> rows, columns |-> columns, on |-> "main",
   cell |-> [s \in Screens |-> [r \in 0 .. rows - 1 |-> BlankLine(columns)]],
   wraps |-> [s \in Screens |-> [r \in 0 .. rows - 1 |-> FALSE]],
   row |-> 0, column |-> 0, phantom |-> FALSE, saved |-> <<0, 0>>,
   top |-> 0, bottom |-> -1,          \* the scroll region; -1: unbounded
   damaged |-> NoDamage,              \* the row kept back, or none
   stamped |-> {},                    \* rows with the present revision
   history |-> <<>>]
-----------------------------------------------------------------------------
(* Damage.                                                                 *)

\* damage of the bridge: the rows get the present revision.
Stamp(v, first, end) ==
  [v EXCEPT !.stamped = @ \cup {r \in Rows(v) : first <= r /\ r < end}]

Flush(v) ==
  IF v.damaged = NoDamage THEN v
  ELSE [Stamp(v, v.damaged[1], v.damaged[2]) EXCEPT !.damaged = NoDamage]

\* A mutant: what was kept back is forgotten.
DamageForgetting(v, first, end) ==
  CASE end > first + 1 -> Stamp(v, first, end)
    [] end <= first + 1 -> [v EXCEPT !.damaged = <<first, end>>]

\* damagerect by rows: more than a row is reported at once, one row is kept
\* back as long as the damage is in the same one.
Damage(v, first, end) ==
  CASE end > first + 1 -> Stamp(Flush(v), first, end)
    [] end <= first + 1 /\ v.damaged # NoDamage /\ v.damaged[1] = first -> v
    [] OTHER -> [Flush(v) EXCEPT !.damaged = <<first, end>>]
-----------------------------------------------------------------------------
(* Erasing and scrolling.                                                  *)

Rect(top, bottom, left, right) ==
  [top |-> top, bottom |-> bottom, left |-> left, right |-> right]
In(rect, r, c) ==
  rect.top <= r /\ r < rect.bottom /\ rect.left <= c /\ c < rect.right

Bottom(v) == IF v.bottom = -1 THEN v.rows ELSE v.bottom
Region(v) == Rect(v.top, Bottom(v), 0, v.columns)

\* What the cells of the rectangle were before it was shifted; what comes in
\* is blank.
Shifted(v, rect, down, right) ==
  [r \in Rows(v) |-> [c \in Columns(v) |->
    CASE ~In(rect, r, c) -> Picture(v)[r][c]
      [] In(rect, r, c) /\ In(rect, r + down, c + right)
           -> Picture(v)[r + down][c + right]
      [] OTHER -> Blank]]

\* A line that ends blank does not go on in the next one.
Erase(v, rect) ==
  LET ends == rect.right = v.columns
  IN Damage([v EXCEPT
       !.cell[v.on] = [r \in Rows(v) |-> [c \in Columns(v) |->
          IF In(rect, r, c) THEN Blank ELSE @[r][c]]],
       !.wraps[v.on] = [r \in Rows(v) |->
          @[r] /\ ~(ends /\ rect.top < r /\ r <= rect.bottom)]],
     rect.top, rect.bottom)

\* push: the ring forgets its oldest line.
Pushed(history, lines) ==
  LET all == history \o lines
      over == Len(all) - HistoryLimit
  IN IF over > 0 THEN SubSeq(all, over + 1, Len(all)) ELSE all

\* A mutant: of whichever screen is shown.
LeavesAny(v, rect, down, right) ==
  IF rect.top = 0 /\ down > 0 /\ down < rect.bottom
  THEN [i \in 1 .. down |-> Picture(v)[i - 1]] ELSE <<>>

\* moverect_internal: the lines that leave the main screen at its top, unless
\* the whole rectangle goes.
Leaves(v, rect, down, right) ==
  IF /\ v.on = "main" /\ right = 0 /\ rect.top = 0
     /\ rect.left = 0 /\ rect.right = v.columns
     /\ down > 0 /\ down < rect.bottom
  THEN [i \in 1 .. down |-> Picture(v)[i - 1]]
  ELSE <<>>

\* The damage of the rows that moved and of those that came in.
Report(v, rect, down) ==
  CASE 0 < down /\ down < rect.bottom - rect.top ->
         Damage(Damage(v, rect.top, rect.bottom - down),
                rect.bottom - down, rect.bottom)
    [] 0 < -down /\ -down < rect.bottom - rect.top ->
         Damage(Damage(v, rect.top - down, rect.bottom),
                rect.top, rect.top - down)
    [] OTHER -> Damage(v, rect.top, rect.bottom)

\* scroll: the wrapping marks, the cells, what was kept back, and the report.
Scroll(v, rect, down, right) ==
  Report(Flush([v EXCEPT
      !.cell[v.on] = Shifted(v, rect, down, right),
      !.wraps[v.on] = IF right # 0 THEN @ ELSE [r \in Rows(v) |->
         IF rect.top <= r /\ r < rect.bottom
         THEN In(rect, r + down, rect.left) /\ @[r + down]
         ELSE @[r]],
      !.history = Pushed(@, Leaves(v, rect, down, right))]), rect, down)
-----------------------------------------------------------------------------
(* The cursor.                                                             *)

Least(a, b) == IF a < b THEN a ELSE b
Most(a, b) == IF a > b THEN a ELSE b

At(v, r, c) == [v EXCEPT !.row = r, !.column = c]

\* updatecursor: the wrap that is due is off when the cursor moved.
Moved(v, w) ==
  [w EXCEPT !.phantom = @ /\ <<v.row, v.column>> = <<w.row, w.column>>]

\* The end of on_csi keeps the cursor on the screen.
Bounded(w) ==
  At(w, Least(Most(w.row, 0), w.rows - 1),
        Least(Most(w.column, 0), w.columns - 1))

\* A mutant: the last line of the screen scrolls, not that of the region.
LinefeedLast(v) ==
  IF v.row = Bottom(v) - 1 THEN Scroll(v, Region(v), 1, 0)
  ELSE [v EXCEPT !.row = @ + 1]

Linefeed(v) ==
  CASE v.row = Bottom(v) - 1 -> Scroll(v, Region(v), 1, 0)
    [] v.row # Bottom(v) - 1 /\ v.row < v.rows - 1 -> [v EXCEPT !.row = @ + 1]
    [] OTHER -> v

\* The wrap that is due before the next letter.
Goes(v) == [v EXCEPT !.wraps[v.on][v.row] = TRUE]
Wrapped(v) ==
  IF v.phantom THEN Goes([Linefeed(v) EXCEPT !.column = 0, !.phantom = FALSE])
               ELSE v

\* on_text and putglyph, a letter.
Written(v, letter) ==
  Damage([v EXCEPT !.cell[v.on][v.row][v.column] = letter], v.row, v.row + 1)
Advanced(v) ==
  IF v.column = v.columns - 1 THEN [v EXCEPT !.phantom = TRUE]
                              ELSE [v EXCEPT !.column = @ + 1]
Put(v, letter) == Advanced(Written(Wrapped(v), letter))

Backspace(v) == Moved(v, [v EXCEPT !.column = Most(@ - 1, 0)])
LF(v) == Moved(v, Linefeed(v))
CR(v) == Moved(v, [v EXCEPT !.column = 0])
RI(v) == Moved(v, IF v.row = v.top THEN Scroll(v, Region(v), -1, 0)
                                   ELSE [v EXCEPT !.row = Most(@ - 1, 0)])
-----------------------------------------------------------------------------
(* Control sequences.                                                      *)

Csi(v, w) == Moved(v, Bounded(w))

CUP(v, r, c) == Csi(v, [At(v, r, c) EXCEPT !.phantom = FALSE])

\* From the cursor to the end.
ED0(v) ==
  LET u == Erase(v, Rect(v.row, v.row + 1, v.column, v.columns))
  IN IF v.row + 1 < v.rows THEN Erase(u, Rect(v.row + 1, v.rows, 0, v.columns))
                           ELSE u

\* From the beginning to the cursor: the rows above it, also if there are
\* none, and then its own.
ED1(v) ==
  Erase(Erase(v, Rect(0, v.row, 0, v.columns)),
        Rect(v.row, v.row + 1, 0, v.column + 1))

ED2(v) == Erase(v, Rect(0, v.rows, 0, v.columns))

ED3(v) == [v EXCEPT !.history = <<>>]

EL(v, from, to) == Erase(v, Rect(v.row, v.row + 1, from, to))

InRegion(v) == v.top <= v.row /\ v.row < Bottom(v)

\* IL and DL move the lines from the cursor's to the region's last.
MoveLines(v, down) ==
  IF InRegion(v) THEN Scroll(v, Rect(v.row, Bottom(v), 0, v.columns), down, 0)
                 ELSE v

\* ICH and DCH move the rest of the cursor's line.
MoveCells(v, right) ==
  IF InRegion(v)
  THEN Scroll(v, Rect(v.row, v.row + 1, v.column, v.columns), 0, right)
  ELSE v

\* DECSTBM; an empty region is none.
DECSTBM(v, top, bottom) ==
  LET u == [v EXCEPT !.top = top,
                     !.bottom = IF top = 0 /\ bottom = v.rows THEN -1
                                                              ELSE bottom]
      w == IF Bottom(u) <= top THEN [u EXCEPT !.top = 0, !.bottom = -1] ELSE u
  IN Csi(v, At(w, 0, 0))

SaveCursor(v) == [v EXCEPT !.saved = <<v.row, v.column>>]
RestoreCursor(v) == Moved(v, At(v, v.saved[1], v.saved[2]))

\* 1049: the other screen is erased when it comes, the main one reported when
\* it comes back.
AltOn(v) ==
  Csi(v, SaveCursor(Erase([v EXCEPT !.on = "alt"],
                          Rect(0, v.rows, 0, v.columns))))
AltOff(v) ==
  Csi(v, RestoreCursor(Damage([v EXCEPT !.on = "main"], 0, v.rows)))
-----------------------------------------------------------------------------
(* Resizing.                                                               *)

None == <<>>

\* line_popcount.
Used(row, columns) ==
  CHOOSE n \in 0 .. columns :
    /\ \A c \in n .. columns - 1 : row[c] = Blank
    /\ n > 0 => row[n - 1] # Blank

\* A line with the rows it goes on in.
Line(v, s, first) ==
  LET last == CHOOSE r \in first .. v.rows - 1 :
                /\ \A q \in first + 1 .. r : v.wraps[s][q]
                /\ r + 1 \in Rows(v) => ~v.wraps[s][r + 1]
      width == (last - first) * v.columns + Used(v.cell[s][last], v.columns)
  IN [first |-> first, last |-> last, width |-> width,
      text |-> [k \in 0 .. width - 1 |->
                 v.cell[s][first + k \div v.columns][k % v.columns]]]

Heads(v, s) == {r \in Rows(v) : r = 0 \/ ~v.wraps[s][r]}

Height(line, columns) ==
  Most(1, (line.width + columns - 1) \div columns)

LaidRows(line, columns) ==
  [i \in 1 .. Height(line, columns) |-> [c \in 0 .. columns - 1 |->
    LET k == (i - 1) * columns + c
    IN IF k < line.width THEN line.text[k] ELSE Blank]]

\* Where the cursor comes to in a line laid from the row start on, or what
\* it was if it is in another.
LaidCursor(v, line, start, columns, cursor) ==
  LET k == (v.row - line.first) * v.columns + v.column
      height == Height(line, columns)
      after == v.column - (line.width % v.columns)
               + line.width - (height - 1) * columns
  IN CASE v.row \notin line.first .. line.last -> cursor
       [] v.row \in line.first .. line.last /\ k < line.width ->
            <<start + k \div columns, k % columns>>
       [] OTHER -> <<start + height - 1, Least(after, columns - 1)>>

\* One turn of the loop of resize_buffer.  l has the rows laid so far, which
\* are the last of the new screen, the marks of all its rows, of which those
\* above keep what was there when lines are moved down, how many rows are
\* spare, the cursor, and the last row that was left out.
Lay(v, s, rows, columns, l, line) ==
  LET height == Height(line, columns)
      spare == IF l.spare = Len(l.laid) /\ line.width = 0 THEN l.spare + 1
                                                          ELSE l.spare
      short == height + Len(l.laid) - rows
      cursorStays == v.on = s => l.cursor = None \/ l.cursor[1] + short < rows
      drop == IF short > 0 /\ cursorStays THEN Least(short, spare) ELSE 0
      kept == Len(l.laid) - drop
      start == rows - kept - height
      cursor == IF l.cursor = None THEN None
                ELSE <<l.cursor[1] + drop, l.cursor[2]>>
      m == [l EXCEPT !.laid = SubSeq(@, 1, kept),
                     !.wraps = [r \in 0 .. rows - 1 |->
                                  IF r < drop THEN @[r] ELSE @[r - drop]],
                     !.spare = spare - drop]
  IN IF start < 0
     THEN [m EXCEPT !.full = TRUE, !.left = line.first,
            !.cursor = IF v.row \in line.first .. line.last - 1
                       THEN <<0, Least(v.column, columns - 1)>> ELSE cursor]
     ELSE [m EXCEPT !.laid = LaidRows(line, columns) \o @,
            !.wraps = [r \in 0 .. rows - 1 |->
                         IF r \in start .. start + height - 1 THEN r > start ELSE @[r]],
            !.cursor = LaidCursor(v, line, start, columns, cursor)]

\* The loop of resize_buffer: what is laid after n rows from the last one up.
\* A line is laid when its first row is reached.
NothingLaid(rows) ==
  [laid |-> <<>>, wraps |-> [r \in 0 .. rows - 1 |-> FALSE], spare |-> 0,
   cursor |-> None, left |-> -1, full |-> FALSE]
Turn(v, s, rows, columns, l, r) ==
  IF l.full \/ r \notin Heads(v, s) THEN l
  ELSE Lay(v, s, rows, columns, l, Line(v, s, r))
Lays(v, s, rows, columns) ==
  LET after[n \in 0 .. v.rows] ==
        IF n = 0 THEN NothingLaid(rows)
        ELSE Turn(v, s, rows, columns, after[n - 1], v.rows - n)
  IN after

\* What becomes of a cursor above the end of the loop.
CursorLeft(v, columns, l) ==
  IF v.row <= l.left
  THEN [l EXCEPT !.cursor = <<0, Least(v.column, columns - 1)>>] ELSE l
Laid(v, s, rows, columns) ==
  CursorLeft(v, columns, Lays(v, s, rows, columns)[v.rows])

\* A mutant: of the lines that do not fit the last one is forgotten.
LeftFew(v, l) == [i \in 1 .. Most(0, l.left) |-> Picture(v)[i - 1]]

\* The lines the main screen has no room for.  They are taken from the screen
\* that is shown.
Left(v, l) == [i \in 1 .. l.left + 1 |-> Picture(v)[i - 1]]

Popped(v, line, columns) ==
  [c \in 0 .. columns - 1 |->
    IF c \in DOMAIN line /\ c < v.columns THEN line[c] ELSE Blank]

\* The rest of resize_buffer, for a screen with room above the lines that were
\* laid: lines come back from the history, into rows whose marks stay as they
\* are, and blank rows at the bottom.
FilledWith(v, s, columns, l, history, room) ==
  LET pops == IF s = "main" THEN Least(room, Len(history)) ELSE 0
      rest == room - pops
      back == [i \in 1 .. pops |->
                Popped(v, history[Len(history) - pops + i], columns)]
      cells == back \o l.laid \o [i \in 1 .. rest |-> BlankLine(columns)]
  IN [cell |-> [r \in 0 .. Len(cells) - 1 |-> cells[r + 1]],
      wraps |-> [r \in 0 .. Len(cells) - 1 |->
                   r + rest < Len(cells) /\ l.wraps[r + rest]],
      cursor |-> IF l.cursor = None THEN None
                 ELSE <<l.cursor[1] - rest, l.cursor[2]>>,
      history |-> SubSeq(history, 1, Len(history) - pops)]
FilledAfter(v, s, rows, columns, l) ==
  FilledWith(v, s, columns, l,
             Pushed(v.history, IF s = "main" THEN Left(v, l) ELSE <<>>),
             rows - Len(l.laid))
Filled(v, s, rows, columns) ==
  FilledAfter(v, s, rows, columns, Laid(v, s, rows, columns))

\* "We really expect the cursor position to be set by now": or abort.
CursorFound(v, rows, columns) == Laid(v, v.on, rows, columns).cursor # None

\* vz_resize and on_resize, when the cursor was found, to these two screens.
ResizedTo(v, rows, columns, screen) ==
  LET cursor == screen[v.on].cursor
      due == v.phantom /\ cursor[2] >= columns - 1
      u == [v EXCEPT
             !.rows = rows, !.columns = columns,
             !.cell = [s \in Screens |-> screen[s].cell],
             !.wraps = [s \in Screens |-> screen[s].wraps],
             !.history = screen["main"].history,
             !.bottom = Least(@, rows),
             !.phantom = due,
             !.damaged = NoDamage, !.stamped = 0 .. rows - 1]
  IN Moved(v, Bounded(At(u, cursor[1],
       IF v.phantom /\ ~due THEN cursor[2] + 1 ELSE cursor[2])))
Resized(v, rows, columns) ==
  ResizedTo(v, rows, columns, [s \in Screens |-> Filled(v, s, rows, columns)])
-----------------------------------------------------------------------------
(* The steps.                                                              *)

\* A program that printed a text: the emulators after each of its letters.
Typed(v, letter) == IF letter = Newline THEN CR(LF(v)) ELSE Put(v, letter)
Printed(v, text) ==
  LET after[n \in 0 .. Len(text)] ==
        IF n = 0 THEN v ELSE Typed(after[n - 1], text[n])
  IN after

Init ==
  /\ \E size \in Sizes, text \in Texts :
       vt = [Flush(Printed(New(size[1], size[2]), text)[Len(text)])
               EXCEPT !.stamped = {}]
  /\ writing = FALSE /\ seen = Picture(vt) /\ stopped = FALSE /\ steps = 0

\* vz_write: a new revision, the bytes, and what was kept back.
WriteBegins ==
  /\ ~stopped /\ ~writing /\ steps < MaxSteps
  /\ writing' = TRUE /\ seen' = Picture(vt)
  /\ vt' = [vt EXCEPT !.stamped = {}]
  /\ UNCHANGED <<stopped, steps>>

WriteEnds ==
  /\ writing
  /\ writing' = FALSE /\ vt' = Flush(vt)
  /\ UNCHANGED <<seen, stopped, steps>>

Writes(v) ==
  /\ writing /\ steps < MaxSteps
  /\ vt' = v /\ steps' = steps + 1
  /\ UNCHANGED <<writing, seen, stopped>>

Prints ==
  \E letter \in IF vt.on = "main" THEN Letters ELSE {AltLetter} :
    Writes(Put(vt, letter))

Controls == Writes(LF(vt)) \/ Writes(CR(vt)) \/ Writes(Backspace(vt))
            \/ Writes(RI(vt))

MovesCursor == \E r \in Rows(vt), c \in Columns(vt) : Writes(CUP(vt, r, c))

Erases ==
  \/ Writes(ED0(vt)) \/ Writes(ED2(vt)) \/ Writes(ED3(vt))
  \/ (EraseTop \/ vt.row > 0) /\ Writes(ED1(vt))
  \/ Writes(EL(vt, vt.column, vt.columns))
  \/ Writes(EL(vt, 0, vt.column + 1))
  \/ Writes(EL(vt, 0, vt.columns))

Shifts ==
  \/ \E n \in {-2, -1, 1, 2} : Writes(MoveLines(vt, n))
  \/ \E n \in {-2, -1, 1, 2} : Writes(Scroll(vt, Region(vt), n, 0))
  \/ \E n \in {-1, 1} : Writes(MoveCells(vt, n))

SetsRegion ==
  \E top \in Rows(vt), bottom \in 1 .. vt.rows :
    Writes(DECSTBM(vt, top, bottom))

\* The cursor saved on a larger screen is not brought back on a smaller one:
\* restored, it is outside.
Saves == Writes(SaveCursor(vt))
SavedInside == vt.saved[1] < vt.rows /\ vt.saved[2] < vt.columns
Restores == SavedInside /\ Writes(RestoreCursor(vt))

Switches ==
  \/ vt.on = "main" /\ Writes(AltOn(vt))
  \/ vt.on = "alt" /\ Writes(AltOff(vt))

\* The resizes that are considered: every line of both screens has its
\* beginning on the screen (of one that has not, a row before the first is
\* read), and the scroll region keeps a row (the cells of one that has none
\* are not those of the screen).
Defined(v, rows) ==
  /\ \A s \in Screens : ~v.wraps[s][0]
  /\ v.top < Least(Bottom(v), rows)

\* The resize cuts no line: what is left out are whole lines of one row, the
\* main screen is shown if it leaves out any, and what comes back fits.
Whole(v, rows, columns) ==
  LET l == Laid(v, "main", rows, columns)
      history == Pushed(v.history, Left(v, l))
  IN /\ \A r \in Heads(v, "main") : r <= l.left =>
          LET line == Line(v, "main", r)
          IN line.first = line.last /\ line.width <= columns
     /\ l.left >= 0 => v.on = "main"
     /\ \A i \in 1 .. Len(history) : i > Len(history) - rows + Len(l.laid) =>
          \A c \in DOMAIN history[i] :
            c >= Least(columns, v.columns) => history[i][c] = Blank

Resizes ==
  /\ ~stopped /\ ~writing /\ steps < MaxSteps
  /\ \E size \in Sizes \ {<<vt.rows, vt.columns>>} :
       /\ Defined(vt, size[1])
       /\ IF CursorFound(vt, size[1], size[2])
          THEN vt' = Resized(vt, size[1], size[2]) /\ UNCHANGED stopped
          ELSE stopped' = TRUE /\ UNCHANGED vt
  /\ seen' = Picture(vt') /\ steps' = steps + 1
  /\ UNCHANGED writing

Done == (stopped \/ steps = MaxSteps) /\ ~writing /\ UNCHANGED vars

Next ==
  \/ WriteBegins \/ WriteEnds \/ Prints \/ Controls \/ MovesCursor \/ Erases
  \/ Shifts \/ SetsRegion \/ Saves \/ Restores \/ Switches \/ Resizes
  \/ Done

Spec == Init /\ [][Next]_vars
-----------------------------------------------------------------------------
(* Properties.                                                             *)

\* The types of the state, and the cursor is on the screen: its row is an
\* index into the screen's rows everywhere in state.c (which asserts it in
\* debug builds).
TypeOK ==
  /\ vt.rows \in Nat \ {0} /\ vt.columns \in Nat \ {0}
  /\ vt.on \in Screens
  /\ \A s \in Screens : /\ vt.cell[s] \in [Rows(vt) -> Lines(vt.columns)]
                        /\ vt.wraps[s] \in [Rows(vt) -> BOOLEAN]
  /\ vt.row \in Rows(vt) /\ vt.column \in Columns(vt)
  /\ vt.phantom \in BOOLEAN
  /\ vt.bottom \in -1 .. vt.rows
  /\ vt.stamped \subseteq Rows(vt)
  /\ Len(vt.history) <= HistoryLimit
  /\ writing \in BOOLEAN /\ stopped \in BOOLEAN

\* After a write, every row whose cells differ from those before it has the
\* new revision: it is the rows with a new revision that a page is sent.
DamageCovers ==
  ~writing /\ ~stopped =>
    \A r \in Rows(vt) : Picture(vt)[r] # seen[r] => r \in vt.stamped

\* What was printed on the alternate screen comes to the history, or to the
\* main screen, by no step but a resize while it is shown.
NoneOfAlt(lines) ==
  \A i \in DOMAIN lines : \A c \in DOMAIN lines[i] : lines[i][c] # AltLetter
MainClean(v) == NoneOfAlt(v.history) /\ NoneOfAlt(v.cell["main"])
HistoryIsMain ==
  [][MainClean(vt) /\ ~(Resizes /\ vt.on = "alt") => MainClean(vt')]_vars

\* The letters of a line, of the history and the main screen together.
Text(line, columns) ==
  SelectSeq([c \in 1 .. columns |-> line[c - 1]], LAMBDA x : x # Blank)
Width(line) == Cardinality(DOMAIN line)
AllText(v) ==
  FlattenSeq([i \in 1 .. Len(v.history) |->
               Text(v.history[i], Width(v.history[i]))])
  \o FlattenSeq([r \in 1 .. v.rows |->
               Text(v.cell["main"][r - 1], v.columns)])

\* A line feed, and a resize that cuts no line, keep every letter that was
\* printed, in its order, on the screen or in the history, unless that is
\* full.  A screen of one row alone loses its row with the line feed.
TextKept ==
  [][/\ \/ vt' = LF(vt) /\ vt.on = "main" /\ vt.rows > 1
           /\ vt.top = 0 /\ vt.bottom = -1
        \/ Resizes /\ Whole(vt, vt'.rows, vt'.columns)
     /\ Len(vt'.history) < HistoryLimit
     => AllText(vt') = AllText(vt)]_vars
-----------------------------------------------------------------------------
(* The inductive invariant of TypeOK and DamageCovers.  C is what the main *)
(* screen and the history show: Cells, or all of them but AltLetter.       *)

Contents == {Cells, Cells \ {AltLetter}}
HistoryLines(C) == UNION {[0 .. size[2] - 1 -> C] : size \in Sizes}

Fields ==
  {"rows", "columns", "on", "cell", "wraps", "row", "column", "phantom",
   "saved", "top", "bottom", "damaged", "stamped", "history"}
Screen(v, C) ==
  /\ DOMAIN v = Fields
  /\ <<v.rows, v.columns>> \in Sizes /\ v.on \in Screens
  /\ v.cell \in [Screens -> [Rows(v) -> Lines(v.columns)]]
  /\ v.cell["main"] \in [Rows(v) -> [Columns(v) -> C]]
  /\ v.wraps \in [Screens -> [Rows(v) -> BOOLEAN]]
  /\ v.history \in Seq(HistoryLines(C)) /\ Len(v.history) <= HistoryLimit
  /\ v.top \in Nat /\ v.bottom \in -1 .. v.rows /\ v.top < Bottom(v)
  /\ v.stamped \subseteq Rows(v)
  /\ v.damaged = NoDamage \/ v.damaged \in Nat \X Nat
Cursor(v) ==
  /\ v.row \in Rows(v) /\ v.column \in Columns(v) /\ v.phantom \in BOOLEAN
  /\ v.saved \in Nat \X Nat

\* The rows that have been reported, or will be.
Dirty(v, r) == r \in v.stamped \/ (v.damaged # NoDamage /\ v.damaged[1] = r)
OneRow(v) == v.damaged # NoDamage => v.damaged[2] = v.damaged[1] + 1

IInv ==
  /\ Screen(vt, Cells) /\ Cursor(vt)
  /\ writing \in BOOLEAN /\ stopped \in BOOLEAN
Coverage ==
  /\ OneRow(vt) /\ (~writing => vt.damaged = NoDamage)
  /\ \A r \in Rows(vt) : Picture(vt)[r] # seen[r] => Dirty(vt, r)
=============================================================================
