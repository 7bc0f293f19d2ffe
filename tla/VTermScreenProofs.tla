-------------------------- MODULE VTermScreenProofs --------------------------
(***************************************************************************)
(* Proofs about VTermScreen.                                               *)
(***************************************************************************)
EXTENDS VTermScreen, Recursions

-----------------------------------------------------------------------------
(* What an operation may do to an emulator.                                *)

\* Nothing but the cursor differs.
CursorOnly(v, w) ==
  /\ DOMAIN w = Fields
  /\ w.rows = v.rows /\ w.columns = v.columns /\ w.on = v.on
  /\ w.cell = v.cell /\ w.wraps = v.wraps /\ w.history = v.history
  /\ w.top = v.top /\ w.bottom = v.bottom
  /\ w.damaged = v.damaged /\ w.stamped = v.stamped

\* Nothing but the region differs.
RegionOnly(v, w) ==
  /\ DOMAIN w = Fields
  /\ w.rows = v.rows /\ w.columns = v.columns /\ w.on = v.on
  /\ w.cell = v.cell /\ w.wraps = v.wraps /\ w.history = v.history
  /\ w.phantom = v.phantom /\ w.saved = v.saved
  /\ w.damaged = v.damaged /\ w.stamped = v.stamped

\* The cursor and the region are the same.
SameCursor(v, w) ==
  /\ DOMAIN w = Fields
  /\ w.rows = v.rows /\ w.columns = v.columns /\ w.on = v.on
  /\ w.row = v.row /\ w.column = v.column /\ w.phantom = v.phantom
  /\ w.saved = v.saved /\ w.top = v.top /\ w.bottom = v.bottom

\* Only the report differs: that of the rows from first to before end came in.
ReportOnly(v, w) ==
  /\ SameCursor(v, w)
  /\ w.cell = v.cell /\ w.wraps = v.wraps /\ w.history = v.history
Reports(v, w, first, end) ==
  /\ ReportOnly(v, w)
  /\ w.stamped \subseteq Rows(v)
  /\ w.damaged = NoDamage \/ w.damaged \in Nat \X Nat
  /\ OneRow(v) /\ first < end =>
       /\ OneRow(w)
       /\ \A r \in Rows(v) : Dirty(v, r) \/ (first <= r /\ r < end) => Dirty(w, r)

\* The rows that differ are reported.
Marks(v, w) ==
  /\ w.rows = v.rows
  /\ OneRow(v) =>
       /\ OneRow(w)
       /\ \A r \in Rows(v) :
            Dirty(v, r) \/ Picture(w)[r] # Picture(v)[r] => Dirty(w, r)

LEMMA Bounds ==
  ASSUME NEW C \in Contents, NEW v, Screen(v, C)
  PROVE  /\ v.rows \in Nat \ {0} /\ v.columns \in Nat \ {0}
         /\ C \subseteq Cells /\ Blank \in C /\ Letters \subseteq C
         /\ Bottom(v) \in 1 .. v.rows /\ v.top \in Rows(v)
         /\ HistoryLimit \in Nat \ {0}
<1>1. v.rows \in Nat \ {0} /\ v.columns \in Nat \ {0}
  <2>1. <<v.rows, v.columns>> \in (Nat \ {0}) \X (Nat \ {0})
    BY VTermAssumption DEF VTermAssumption, Screen
  <2>2. QED
    BY <2>1
<1>2. C \subseteq Cells /\ Blank \in C /\ Letters \subseteq C
  BY VTermAssumption DEF VTermAssumption, Contents, Cells
<1>3. Bottom(v) \in 1 .. v.rows /\ v.top \in Rows(v)
  BY <1>1 DEF Screen, Bottom, Rows
<1>4. QED
  BY <1>1, <1>2, <1>3, VTermAssumption DEF VTermAssumption

LEMMA StampReports ==
  ASSUME NEW v, DOMAIN v = Fields, NEW first, NEW end
  PROVE  /\ ReportOnly(v, Stamp(v, first, end))
         /\ Stamp(v, first, end).damaged = v.damaged
         /\ Stamp(v, first, end).stamped =
              v.stamped \cup {r \in Rows(v) : first <= r /\ r < end}
BY DEF Stamp, Fields, ReportOnly, SameCursor

LEMMA FlushReports ==
  ASSUME NEW v, DOMAIN v = Fields, v.stamped \subseteq Rows(v)
  PROVE  /\ ReportOnly(v, Flush(v)) /\ Flush(v).damaged = NoDamage
         /\ v.stamped \subseteq Flush(v).stamped /\ Flush(v).stamped \subseteq Rows(v)
         /\ v.rows \in Nat /\ OneRow(v) => \A r \in Rows(v) : Dirty(v, r) => r \in Flush(v).stamped
<1>1. CASE v.damaged = NoDamage
  BY <1>1 DEF Flush, ReportOnly, SameCursor, Dirty
<1>2. CASE v.damaged # NoDamage
  <2>1. PICK u : u = Stamp(v, v.damaged[1], v.damaged[2])
    OBVIOUS
  <2>2. /\ ReportOnly(v, u)
        /\ u.stamped = v.stamped \cup {r \in Rows(v) : v.damaged[1] <= r /\ r < v.damaged[2]}
    BY <2>1, StampReports
  <2>3. PICK w : w = Flush(v)
    OBVIOUS
  <2>4. w = [u EXCEPT !.damaged = NoDamage]
    BY <1>2, <2>1, <2>3 DEF Flush
  <2>5. ReportOnly(v, w) /\ w.damaged = NoDamage /\ w.stamped = u.stamped
    BY <2>2, <2>4 DEF ReportOnly, SameCursor, Fields
  <2>6. ASSUME v.rows \in Nat, OneRow(v), NEW r \in Rows(v), Dirty(v, r)
        PROVE  r \in w.stamped
    BY <1>2, <2>2, <2>5, <2>6 DEF Dirty, OneRow, Rows
  <2>7. QED
    BY <2>2, <2>3, <2>5, <2>6
<1>3. QED
  BY <1>1, <1>2
\* What a report needs of an emulator.
Reportable(v) ==
  /\ DOMAIN v = Fields /\ v.rows \in Nat /\ v.stamped \subseteq Rows(v)
  /\ v.damaged = NoDamage \/ v.damaged \in Nat \X Nat

LEMMA ReportsOnly ==
  ASSUME NEW u, NEW v, NEW w, ReportOnly(u, v), ReportOnly(v, w)
  PROVE  ReportOnly(u, w) /\ Rows(v) = Rows(u)
BY DEF ReportOnly, SameCursor, Rows

LEMMA DamageReports ==
  ASSUME NEW v, Reportable(v), NEW first \in Nat, NEW end \in Nat
  PROVE  Reports(v, Damage(v, first, end), first, end)
<1>1. PICK u : u = Flush(v)
  OBVIOUS
<1>2. /\ ReportOnly(v, u) /\ u.damaged = NoDamage
      /\ v.stamped \subseteq u.stamped /\ u.stamped \subseteq Rows(v)
      /\ OneRow(v) => \A r \in Rows(v) : Dirty(v, r) => r \in u.stamped
  BY <1>1, FlushReports DEF Reportable
<1>3. PICK w : w = Damage(v, first, end)
  OBVIOUS
<1>4. CASE end > first + 1
  <2>1. w = Stamp(u, first, end)
    BY <1>1, <1>3, <1>4 DEF Damage
  <2>2. /\ ReportOnly(u, w) /\ w.damaged = NoDamage
        /\ w.stamped = u.stamped \cup {r \in Rows(u) : first <= r /\ r < end}
    BY <1>2, <2>1, StampReports DEF ReportOnly, SameCursor
  <2>3. ReportOnly(v, w) /\ Rows(u) = Rows(v)
    BY <1>2, <2>2, ReportsOnly
  <2>4. QED
    BY <1>2, <1>3, <2>2, <2>3 DEF Reports, OneRow, Dirty
<1>5. CASE end <= first + 1 /\ v.damaged # NoDamage /\ v.damaged[1] = first
  <2>1. w = v
    BY <1>3, <1>5 DEF Damage
  <2>2. \A r \in Rows(v) : first <= r /\ r < end => r = first
    BY <1>5 DEF Reportable, Rows
  <2>3. QED
    BY <1>3, <1>5, <2>1, <2>2 DEF Reports, ReportOnly, SameCursor, Reportable, Dirty
<1>6. CASE end <= first + 1 /\ ~(v.damaged # NoDamage /\ v.damaged[1] = first)
  <2>1. w = [u EXCEPT !.damaged = <<first, end>>]
    BY <1>1, <1>3, <1>6 DEF Damage
  <2>2. DOMAIN u = Fields
    BY <1>2 DEF ReportOnly, SameCursor
  <2>3. /\ ReportOnly(u, w) /\ w.damaged = <<first, end>> /\ w.stamped = u.stamped
    BY <2>1, <2>2 DEF ReportOnly, SameCursor, Fields
  <2>4. ReportOnly(v, w)
    BY <1>2, <2>3, ReportsOnly
  <2>5. w.damaged \in Nat \X Nat /\ w.damaged # NoDamage /\ w.damaged[1] = first
    BY <2>3 DEF NoDamage
  <2>6. first < end => OneRow(w)
    BY <1>6, <2>3 DEF OneRow
  <2>7. \A r \in Rows(v) : first <= r /\ r < end => r = first
    BY <1>6 DEF Reportable, Rows
  <2>8. QED
    BY <1>2, <1>3, <2>3, <2>4, <2>5, <2>6, <2>7 DEF Reports, Dirty
<1>7. QED
  BY <1>4, <1>5, <1>6

LEMMA ReportAgain ==
  ASSUME NEW v, NEW w, NEW first, NEW end, Reportable(v), Reports(v, w, first, end)
  PROVE  Reportable(w) /\ Rows(w) = Rows(v)
BY DEF Reportable, Reports, ReportOnly, SameCursor, Rows

LEMMA ReportReports ==
  ASSUME NEW v, Reportable(v), NEW rect, NEW down \in Int,
         rect.top \in Nat, rect.bottom \in Nat, rect.top < rect.bottom
  PROVE  Reports(v, Report(v, rect, down), rect.top, rect.bottom)
<1> DEFINE top == rect.top
           bottom == rect.bottom
<1>1. ASSUME NEW a \in Nat, NEW b \in Nat, NEW c \in Nat, NEW d \in Nat,
             top <= a, a < b, b <= bottom, top <= c, c < d, d <= bottom,
             \A r \in Nat : top <= r /\ r < bottom => (a <= r /\ r < b) \/ (c <= r /\ r < d)
      PROVE  Reports(v, Damage(Damage(v, a, b), c, d), top, bottom)
  <2>1. PICK u : u = Damage(v, a, b)
    OBVIOUS
  <2>2. PICK w : w = Damage(u, c, d)
    OBVIOUS
  <2>3. Reports(v, u, a, b)
    BY <2>1, DamageReports
  <2>4. Reportable(u) /\ Rows(u) = Rows(v)
    BY <2>3, ReportAgain
  <2>5. Reports(u, w, c, d)
    BY <2>2, <2>4, DamageReports
  <2>6. ReportOnly(v, w)
    BY <2>3, <2>5, ReportsOnly DEF Reports
  <2>7. \A r \in Rows(v) : r \in Nat
    BY DEF Rows, Reportable
  <2> HIDE DEF top, bottom
  <2>8. Reports(v, w, top, bottom)
    BY <1>1, <2>3, <2>4, <2>5, <2>6, <2>7 DEF Reports
  <2>9. QED
    BY <2>1, <2>2, <2>8
<1>2. top \in Nat /\ bottom \in Nat /\ top < bottom
  OBVIOUS
<1>3. CASE 0 < down /\ down < bottom - top
  <2>1. Report(v, rect, down) = Damage(Damage(v, top, bottom - down), bottom - down, bottom)
    BY <1>3 DEF Report
  <2>2. bottom - down \in Nat /\ top < bottom - down /\ bottom - down < bottom
    BY <1>2, <1>3
  <2> HIDE DEF top, bottom
  <2>3. Reports(v, Damage(Damage(v, top, bottom - down), bottom - down, bottom), top, bottom)
    BY <1>1, <1>2, <2>2
  <2>4. QED
    BY <2>1, <2>3 DEF top, bottom
<1>4. CASE 0 < -down /\ -down < bottom - top
  <2>1. Report(v, rect, down) = Damage(Damage(v, top - down, bottom), top, top - down)
    BY <1>2, <1>4 DEF Report
  <2>2. top - down \in Nat /\ top < top - down /\ top - down < bottom
    BY <1>2, <1>4
  <2> HIDE DEF top, bottom
  <2>3. Reports(v, Damage(Damage(v, top - down, bottom), top, top - down), top, bottom)
    BY <1>1, <1>2, <2>2
  <2>4. QED
    BY <2>1, <2>3 DEF top, bottom
<1>5. CASE ~(0 < down /\ down < bottom - top) /\ ~(0 < -down /\ -down < bottom - top)
  <2>1. Report(v, rect, down) = Damage(v, top, bottom)
    BY <1>5 DEF Report
  <2>2. QED
    BY <1>2, <2>1, DamageReports
<1>6. QED
  BY <1>3, <1>4, <1>5
-----------------------------------------------------------------------------
(* Erasing and scrolling.                                                  *)

\* An emulator with the size of v and another picture.
Drawn(v, u, C) ==
  /\ SameCursor(v, u)
  /\ u.cell \in [Screens -> [Rows(v) -> Lines(v.columns)]]
  /\ u.cell["main"] \in [Rows(v) -> [Columns(v) -> C]]
  /\ u.wraps \in [Screens -> [Rows(v) -> BOOLEAN]]
  /\ u.history \in Seq(HistoryLines(C)) /\ Len(u.history) <= HistoryLimit
  /\ Reportable(u)
  /\ OneRow(v) => OneRow(u) /\ \A r \in Rows(v) : Dirty(v, r) => Dirty(u, r)

\* The picture p is that of v in the rows outside of first to end.
Outside(v, p, first, end) ==
  \A r \in Rows(v) : ~(first <= r /\ r < end) => p[r] = Picture(v)[r]

\* The rows from first to end are reported.
Covers(v, w, first, end) ==
  OneRow(v) =>
    /\ OneRow(w)
    /\ \A r \in Rows(v) : Dirty(v, r) \/ (first <= r /\ r < end) => Dirty(w, r)

LEMMA DrawnReports ==
  ASSUME NEW C \in Contents, NEW v, Screen(v, C), NEW u, Drawn(v, u, C),
         NEW w, NEW first \in Nat, NEW end \in Nat, Reports(u, w, first, end)
  PROVE  /\ Screen(w, C) /\ SameCursor(v, w)
         /\ first < end => Covers(v, w, first, end)
         /\ first < end /\ Outside(v, Picture(u), first, end) => Marks(v, w)
<1>1. SameCursor(v, w) /\ Rows(u) = Rows(v) /\ Columns(u) = Columns(v)
  BY DEF Drawn, Reports, ReportOnly, SameCursor, Rows, Columns
<1>2. Rows(w) = Rows(v) /\ Columns(w) = Columns(v) /\ Bottom(w) = Bottom(v)
  BY <1>1 DEF SameCursor, Rows, Columns, Bottom
<1>3. Screen(w, C)
  BY <1>1, <1>2 DEF Screen, Drawn, Reports, ReportOnly, SameCursor
<1>4. Picture(w) = Picture(u)
  BY DEF Reports, ReportOnly, SameCursor, Picture
<1>5. ASSUME first < end, Outside(v, Picture(u), first, end)
      PROVE  Marks(v, w)
  <2>1. w.rows = v.rows
    BY <1>1 DEF SameCursor
  <2>2. ASSUME OneRow(v)
        PROVE  /\ OneRow(w)
               /\ \A r \in Rows(v) :
                    Dirty(v, r) \/ Picture(w)[r] # Picture(v)[r] => Dirty(w, r)
    <3>1. OneRow(u) /\ \A r \in Rows(v) : Dirty(v, r) => Dirty(u, r)
      BY <2>2 DEF Drawn
    <3>2. /\ OneRow(w)
          /\ \A r \in Rows(v) : Dirty(u, r) \/ (first <= r /\ r < end) => Dirty(w, r)
      BY <1>1, <1>5, <3>1 DEF Reports
    <3>3. QED
      BY <1>4, <1>5, <3>1, <3>2 DEF Outside
  <2>3. QED
    BY <2>1, <2>2 DEF Marks
<1>6. first < end => Covers(v, w, first, end)
  BY <1>1 DEF Drawn, Reports, Covers
<1>7. QED
  BY <1>1, <1>3, <1>5, <1>6

\* What the screen that is shown may have in its cells.
Shows(v, C) == IF v.on = "main" THEN C ELSE Cells

LEMMA Pictured ==
  ASSUME NEW C \in Contents, NEW v, Screen(v, C)
  PROVE  /\ Picture(v) \in [Rows(v) -> [Columns(v) -> Shows(v, C)]]
         /\ Shows(v, C) \subseteq Cells /\ Blank \in Shows(v, C)
         /\ Lines(v.columns) = [Columns(v) -> Cells]
         /\ v.wraps[v.on] \in [Rows(v) -> BOOLEAN]
<1>1. Lines(v.columns) = [Columns(v) -> Cells]
  BY DEF Lines, Columns
<1>2. C \subseteq Cells /\ Blank \in C
  BY Bounds
<1>3. v.on \in Screens /\ v.wraps[v.on] \in [Rows(v) -> BOOLEAN]
  BY DEF Screen
<1>4. CASE v.on = "main"
  BY <1>1, <1>2, <1>3, <1>4 DEF Screen, Shows, Picture
<1>5. CASE v.on # "main"
  BY <1>1, <1>2, <1>3, <1>5 DEF Screen, Shows, Picture
<1>6. QED
  BY <1>4, <1>5

\* The screen that is shown, its marks and the history replaced.
Redraw(v, new, marks, history) ==
  [v EXCEPT !.cell[v.on] = new, !.wraps[v.on] = marks, !.history = history]

LEMMA Redrawn ==
  ASSUME NEW C \in Contents, NEW v, Screen(v, C),
         NEW new \in [Rows(v) -> [Columns(v) -> Shows(v, C)]],
         NEW marks \in [Rows(v) -> BOOLEAN], NEW history \in Seq(HistoryLines(C)),
         Len(history) <= HistoryLimit
  PROVE  /\ Drawn(v, Redraw(v, new, marks, history), C)
         /\ Picture(Redraw(v, new, marks, history)) = new
<1> DEFINE u == Redraw(v, new, marks, history)
<1>1. /\ SameCursor(v, u) /\ u.damaged = v.damaged /\ u.stamped = v.stamped
      /\ u.cell = [v.cell EXCEPT ![v.on] = new]
      /\ u.wraps = [v.wraps EXCEPT ![v.on] = marks]
      /\ u.history = history
  BY DEF Screen, Fields, SameCursor, Redraw
<1> HIDE DEF u
<1>2. new \in [Rows(v) -> Lines(v.columns)]
  BY Pictured
<1>3. v.on \in Screens
  BY DEF Screen
<1>4. u.cell \in [Screens -> [Rows(v) -> Lines(v.columns)]] /\ u.cell[v.on] = new
  BY <1>1, <1>2, <1>3 DEF Screen
<1>5. u.cell["main"] \in [Rows(v) -> [Columns(v) -> C]]
  BY <1>1, <1>3, <1>4 DEF Screen, Screens, Shows
<1>6. u.wraps \in [Screens -> [Rows(v) -> BOOLEAN]]
  BY <1>1, <1>3 DEF Screen
<1>7. Reportable(u) /\ Rows(u) = Rows(v)
  BY <1>1, Bounds DEF Reportable, Screen, SameCursor, Rows
<1>8. OneRow(v) => OneRow(u) /\ \A r \in Rows(v) : Dirty(v, r) => Dirty(u, r)
  BY <1>1 DEF OneRow, Dirty
<1>9. QED
  <2>1. Drawn(v, u, C) /\ Picture(u) = new
    BY <1>1, <1>4, <1>5, <1>6, <1>7, <1>8 DEF Drawn, Picture, SameCursor
  <2>2. QED
    BY <2>1 DEF u

LEMMA EraseDraws ==
  ASSUME NEW C \in Contents, NEW v, Screen(v, C), NEW rect,
         rect.top \in Nat, rect.bottom \in Nat
  PROVE  /\ Screen(Erase(v, rect), C) /\ SameCursor(v, Erase(v, rect))
         /\ rect.top < rect.bottom =>
              /\ Marks(v, Erase(v, rect))
              /\ Covers(v, Erase(v, rect), rect.top, rect.bottom)
<1> DEFINE new == [r \in Rows(v) |-> [c \in Columns(v) |->
                    IF In(rect, r, c) THEN Blank ELSE v.cell[v.on][r][c]]]
           marks == [r \in Rows(v) |-> v.wraps[v.on][r]
                      /\ ~(rect.right = v.columns /\ rect.top < r /\ r <= rect.bottom)]
           u == Redraw(v, new, marks, v.history)
           w == Erase(v, rect)
<1>1. w = Damage(u, rect.top, rect.bottom)
  <2>1. [v EXCEPT !.cell[v.on] = new, !.wraps[v.on] = marks] = u
    BY DEF Screen, Fields, Redraw
  <2>2. QED
    BY <2>1 DEF Erase
<1>2. new \in [Rows(v) -> [Columns(v) -> Shows(v, C)]]
  BY Pictured DEF Picture
<1>3. marks \in [Rows(v) -> BOOLEAN]
  BY Pictured
<1>4. ASSUME NEW r \in Rows(v), ~(rect.top <= r /\ r < rect.bottom)
      PROVE  new[r] = Picture(v)[r]
  <2>1. \A c \in Columns(v) : ~In(rect, r, c)
    BY <1>4 DEF In
  <2>2. new[r] = [c \in Columns(v) |-> Picture(v)[r][c]]
    BY <2>1 DEF Picture
  <2>3. Picture(v)[r] \in [Columns(v) -> Shows(v, C)]
    BY Pictured
  <2>4. QED
    BY <2>2, <2>3
<1>5. v.history \in Seq(HistoryLines(C)) /\ Len(v.history) <= HistoryLimit
  BY DEF Screen
<1> HIDE DEF new, marks, w
<1>7. Drawn(v, u, C) /\ Picture(u) = new
  BY <1>2, <1>3, <1>5, Redrawn
<1> HIDE DEF u
<1>8. Reports(u, w, rect.top, rect.bottom)
  BY <1>1, <1>7, DamageReports DEF Drawn
<1>9. Outside(v, Picture(u), rect.top, rect.bottom)
  BY <1>4, <1>7 DEF Outside
<1>10. /\ Screen(w, C) /\ SameCursor(v, w)
       /\ rect.top < rect.bottom =>
            Marks(v, w) /\ Covers(v, w, rect.top, rect.bottom)
  BY <1>7, <1>8, <1>9, DrawnReports
<1>11. QED
  BY <1>10 DEF w
LEMMA PushedLines ==
  ASSUME NEW C \in Contents, NEW history \in Seq(HistoryLines(C)),
         NEW lines \in Seq(HistoryLines(C))
  PROVE  /\ Pushed(history, lines) \in Seq(HistoryLines(C))
         /\ Len(Pushed(history, lines)) <= HistoryLimit
<1> DEFINE all == history \o lines
           over == Len(all) - HistoryLimit
<1>1. PICK H : H = HistoryLines(C)
  OBVIOUS
<1>2. all \in Seq(H) /\ Len(all) \in Nat
  BY <1>1
<1>3. HistoryLimit \in Nat \ {0}
  BY VTermAssumption DEF VTermAssumption
<1> HIDE DEF all
<1>4. CASE over > 0
  <2>1. Pushed(history, lines) = SubSeq(all, over + 1, Len(all))
    BY <1>4 DEF Pushed, all
  <2>2. over + 1 \in 1 .. Len(all) + 1 /\ Len(all) \in over .. Len(all)
    BY <1>2, <1>3, <1>4
  <2>3. /\ SubSeq(all, over + 1, Len(all)) \in Seq(H)
        /\ Len(SubSeq(all, over + 1, Len(all))) = Len(all) - over
    BY <1>2, <2>2, <1>3, <1>4
  <2>4. QED
    BY <1>1, <1>2, <1>3, <2>1, <2>3
<1>5. CASE ~(over > 0)
  <2>1. Pushed(history, lines) = all
    BY <1>5 DEF Pushed, all
  <2>2. QED
    BY <1>1, <1>2, <1>3, <1>5, <2>1
<1>6. QED
  BY <1>4, <1>5

LEMMA LinesOfScreen ==
  ASSUME NEW C \in Contents, NEW v, Screen(v, C), Shows(v, C) = C,
         NEW n \in Nat, n <= v.rows
  PROVE  [i \in 1 .. n |-> Picture(v)[i - 1]] \in Seq(HistoryLines(C))
<1>1. [Columns(v) -> C] \subseteq HistoryLines(C)
  <2>1. <<v.rows, v.columns>> \in Sizes
    BY DEF Screen
  <2>2. [0 .. v.columns - 1 -> C] \in {[0 .. size[2] - 1 -> C] : size \in Sizes}
    BY <2>1
  <2>3. QED
    BY <2>2 DEF HistoryLines, Columns
<1>2. \A i \in 1 .. n : i - 1 \in Rows(v)
  BY Bounds DEF Rows
<1>3. \A i \in 1 .. n : Picture(v)[i - 1] \in HistoryLines(C)
  BY <1>1, <1>2, Pictured
<1>4. QED
  BY <1>3

\* A rectangle on the screen.
Inside(v, rect) ==
  /\ rect.top \in Nat /\ rect.bottom \in Nat /\ rect.top < rect.bottom
  /\ rect.left \in Nat /\ rect.right \in Nat
  /\ rect.bottom <= v.rows /\ rect.right <= v.columns

LEMMA ShiftedKeeps ==
  ASSUME NEW C \in Contents, NEW v, Screen(v, C), NEW rect, Inside(v, rect),
         NEW down \in Int, NEW right \in Int
  PROVE  /\ Shifted(v, rect, down, right)
              \in [Rows(v) -> [Columns(v) -> Shows(v, C)]]
         /\ Outside(v, Shifted(v, rect, down, right), rect.top, rect.bottom)
<1> DEFINE S == Shows(v, C)
<1>1. Picture(v) \in [Rows(v) -> [Columns(v) -> S]] /\ Blank \in S
  BY Pictured
<1>2. \A r \in Int, c \in Int : In(rect, r, c) => r \in Rows(v) /\ c \in Columns(v)
  BY Bounds DEF In, Rows, Columns, Inside
<1>3. \A r \in Rows(v), c \in Columns(v) :
        r \in Int /\ c \in Int /\ r + down \in Int /\ c + right \in Int
  BY DEF Rows, Columns
<1> HIDE DEF S
<1>4. ASSUME NEW r \in Rows(v), NEW c \in Columns(v)
      PROVE  (CASE ~In(rect, r, c) -> Picture(v)[r][c]
                [] In(rect, r, c) /\ In(rect, r + down, c + right)
                     -> Picture(v)[r + down][c + right]
                [] OTHER -> Blank) \in S
  <2>1. Picture(v)[r][c] \in S
    BY <1>1
  <2>2. In(rect, r + down, c + right) => Picture(v)[r + down][c + right] \in S
    BY <1>1, <1>2, <1>3
  <2>3. QED
    BY <1>1, <2>1, <2>2
<1>5. Shifted(v, rect, down, right) \in [Rows(v) -> [Columns(v) -> S]]
  BY <1>4 DEF Shifted
<1>6. ASSUME NEW r \in Rows(v), ~(rect.top <= r /\ r < rect.bottom)
      PROVE  Shifted(v, rect, down, right)[r] = Picture(v)[r]
  <2>1. \A c \in Columns(v) : ~In(rect, r, c)
    BY <1>6 DEF In
  <2>2. Shifted(v, rect, down, right)[r] = [c \in Columns(v) |-> Picture(v)[r][c]]
    BY <2>1 DEF Shifted
  <2>3. QED
    BY <1>1, <2>2
<1>7. QED
  BY <1>5, <1>6 DEF S, Outside

LEMMA ScrollDraws ==
  ASSUME NEW C \in Contents, NEW v, Screen(v, C), NEW rect, Inside(v, rect),
         NEW down \in Int, NEW right \in Int
  PROVE  /\ Screen(Scroll(v, rect, down, right), C)
         /\ SameCursor(v, Scroll(v, rect, down, right))
         /\ Marks(v, Scroll(v, rect, down, right))
<1> DEFINE new == Shifted(v, rect, down, right)
           wraps == v.wraps[v.on]
           marks == IF right # 0 THEN wraps ELSE [r \in Rows(v) |->
                      IF rect.top <= r /\ r < rect.bottom
                      THEN In(rect, r + down, rect.left) /\ wraps[r + down]
                      ELSE wraps[r]]
           history == Pushed(v.history, Leaves(v, rect, down, right))
           u == Redraw(v, new, marks, history)
           w == Flush(u)
           x == Scroll(v, rect, down, right)
<1>1. x = Report(w, rect, down)
  BY DEF Scroll, Redraw, Screen, Fields
<1>2. /\ new \in [Rows(v) -> [Columns(v) -> Shows(v, C)]]
      /\ Outside(v, new, rect.top, rect.bottom)
  BY ShiftedKeeps
<1>3. marks \in [Rows(v) -> BOOLEAN]
  BY Pictured
<1>4. history \in Seq(HistoryLines(C)) /\ Len(history) <= HistoryLimit
  <2>1. Leaves(v, rect, down, right) \in Seq(HistoryLines(C))
    <3>1. CASE /\ v.on = "main" /\ right = 0 /\ rect.top = 0
               /\ rect.left = 0 /\ rect.right = v.columns
               /\ down > 0 /\ down < rect.bottom
      <4>1. down \in Nat /\ down <= v.rows
        BY <3>1, Bounds DEF Inside
      <4>2. Shows(v, C) = C
        BY <3>1 DEF Shows
      <4>3. Leaves(v, rect, down, right) = [i \in 1 .. down |-> Picture(v)[i - 1]]
        BY <3>1 DEF Leaves
      <4>4. QED
        BY <4>1, <4>2, <4>3, LinesOfScreen
    <3>2. CASE ~(/\ v.on = "main" /\ right = 0 /\ rect.top = 0
                 /\ rect.left = 0 /\ rect.right = v.columns
                 /\ down > 0 /\ down < rect.bottom)
      BY <3>2 DEF Leaves
    <3>3. QED
      BY <3>1, <3>2
  <2>2. v.history \in Seq(HistoryLines(C))
    BY DEF Screen
  <2>3. QED
    BY <2>1, <2>2, PushedLines
<1> HIDE DEF new, marks, history, x
<1>5. Drawn(v, u, C) /\ Picture(u) = new
  BY <1>2, <1>3, <1>4, Redrawn
<1> HIDE DEF u
<1>6. /\ ReportOnly(u, w) /\ w.damaged = NoDamage /\ w.stamped \subseteq Rows(u)
      /\ OneRow(u) => \A r \in Rows(u) : Dirty(u, r) => r \in w.stamped
  BY <1>5, FlushReports DEF Drawn, Reportable
<1> HIDE DEF w
<1>7. Drawn(v, w, C) /\ Picture(w) = new
  <2>1. SameCursor(v, w) /\ Rows(u) = Rows(v) /\ Rows(w) = Rows(v)
    BY <1>5, <1>6 DEF Drawn, ReportOnly, SameCursor, Rows
  <2>2. w.cell = u.cell /\ w.wraps = u.wraps /\ w.history = u.history /\ Picture(w) = new
    BY <1>5, <1>6 DEF ReportOnly, SameCursor, Picture
  <2>3. Reportable(w)
    BY <1>5, <1>6, <2>1 DEF Drawn, Reportable, SameCursor
  <2>4. OneRow(v) => OneRow(w) /\ \A r \in Rows(v) : Dirty(v, r) => Dirty(w, r)
    BY <1>5, <1>6, <2>1 DEF Drawn, OneRow, Dirty
  <2>5. QED
    BY <1>5, <2>1, <2>2, <2>3, <2>4 DEF Drawn
<1>8. Outside(v, Picture(w), rect.top, rect.bottom)
  BY <1>2, <1>7 DEF Outside
<1>9. Reports(w, x, rect.top, rect.bottom)
  BY <1>1, <1>7, ReportReports DEF Drawn, Inside
<1>10. Screen(x, C) /\ SameCursor(v, x) /\ Marks(v, x)
  BY <1>7, <1>8, <1>9, DrawnReports DEF Inside
<1>11. QED
  BY <1>10 DEF x
-----------------------------------------------------------------------------
(* The cursor.                                                             *)

\* An emulator on whose screen the cursor may not be.
Loose(v, C) ==
  /\ Screen(v, C) /\ v.row \in Int /\ v.column \in Int
  /\ v.phantom \in BOOLEAN /\ v.saved \in Nat \X Nat

LEMMA Inner ==
  ASSUME NEW C \in Contents, NEW v, Screen(v, C), Cursor(v)
  PROVE  /\ Loose(v, C) /\ v.row \in Nat /\ v.column \in Nat
         /\ v.row < v.rows /\ v.column < v.columns
BY Bounds DEF Loose, Cursor, Rows, Columns

LEMMA MarksTwice ==
  ASSUME NEW u, NEW v, NEW w, Marks(u, v), Marks(v, w)
  PROVE  Marks(u, w)
BY DEF Marks, Rows

LEMMA MarksSelf ==
  ASSUME NEW v
  PROVE  Marks(v, v)
BY DEF Marks

LEMMA CursorMoves ==
  ASSUME NEW C \in Contents, NEW v, Screen(v, C), NEW w, CursorOnly(v, w)
  PROVE  /\ Screen(w, C) /\ Marks(v, w)
         /\ Rows(w) = Rows(v) /\ Columns(w) = Columns(v)
<1>1. Rows(w) = Rows(v) /\ Columns(w) = Columns(v) /\ Bottom(w) = Bottom(v)
  BY DEF CursorOnly, Rows, Columns, Bottom
<1>2. Screen(w, C)
  BY <1>1 DEF CursorOnly, Screen
<1>3. Marks(v, w)
  BY DEF CursorOnly, Marks, OneRow, Dirty, Picture
<1>4. QED
  BY <1>1, <1>2, <1>3

LEMMA CursorStays ==
  ASSUME NEW v, NEW w, Cursor(v), SameCursor(v, w)
  PROVE  Cursor(w)
BY DEF SameCursor, Cursor, Rows, Columns

LEMMA MovedMoves ==
  ASSUME NEW C \in Contents, NEW v, NEW w, Screen(w, C)
  PROVE  /\ CursorOnly(w, Moved(v, w))
         /\ Moved(v, w).row = w.row /\ Moved(v, w).column = w.column
         /\ Moved(v, w).phantom \in BOOLEAN /\ Moved(v, w).saved = w.saved
BY DEF Moved, Screen, Fields, CursorOnly

LEMMA MovedKeeps ==
  ASSUME NEW C \in Contents, NEW v, NEW w, Screen(w, C), Cursor(w), Marks(v, w)
  PROVE  /\ Screen(Moved(v, w), C) /\ Cursor(Moved(v, w)) /\ Marks(v, Moved(v, w))
         /\ Moved(v, w).on = w.on
<1> DEFINE x == Moved(v, w)
<1>1. /\ CursorOnly(w, x) /\ x.row = w.row /\ x.column = w.column
      /\ x.phantom \in BOOLEAN /\ x.saved = w.saved
  BY MovedMoves
<1> HIDE DEF x
<1>2. /\ Screen(x, C) /\ Marks(w, x) /\ Rows(x) = Rows(w) /\ Columns(x) = Columns(w)
      /\ x.on = w.on
  BY <1>1, CursorMoves DEF CursorOnly
<1>3. Cursor(x)
  BY <1>1, <1>2 DEF Cursor
<1>4. Marks(v, x)
  BY <1>2, MarksTwice
<1>5. QED
  BY <1>2, <1>3, <1>4 DEF x

LEMMA AtMoves ==
  ASSUME NEW C \in Contents, NEW v, Screen(v, C), NEW r, NEW c
  PROVE  /\ CursorOnly(v, At(v, r, c))
         /\ At(v, r, c).row = r /\ At(v, r, c).column = c
         /\ At(v, r, c).phantom = v.phantom /\ At(v, r, c).saved = v.saved
BY DEF At, Screen, Fields, CursorOnly

LEMMA BoundedKeeps ==
  ASSUME NEW C \in Contents, NEW w, Loose(w, C)
  PROVE  CursorOnly(w, Bounded(w)) /\ Screen(Bounded(w), C) /\ Cursor(Bounded(w))
<1> DEFINE r == Least(Most(w.row, 0), w.rows - 1)
           c == Least(Most(w.column, 0), w.columns - 1)
           x == Bounded(w)
<1>1. r \in Rows(w) /\ c \in Columns(w)
  BY Bounds DEF Loose, Least, Most, Rows, Columns
<1>2. /\ CursorOnly(w, x) /\ x.row = r /\ x.column = c
      /\ x.phantom = w.phantom /\ x.saved = w.saved
  BY AtMoves DEF Bounded, Loose
<1> HIDE DEF r, c, x
<1>3. Screen(x, C) /\ Rows(x) = Rows(w) /\ Columns(x) = Columns(w)
  BY <1>2, CursorMoves DEF Loose
<1>4. Cursor(x)
  BY <1>1, <1>2, <1>3 DEF Cursor, Loose
<1>5. QED
  BY <1>2, <1>3, <1>4 DEF x

LEMMA CsiKeeps ==
  ASSUME NEW C \in Contents, NEW v, NEW w, Loose(w, C), Marks(v, w)
  PROVE  /\ Screen(Csi(v, w), C) /\ Cursor(Csi(v, w)) /\ Marks(v, Csi(v, w))
         /\ Csi(v, w).on = w.on
<1> DEFINE x == Bounded(w)
<1>1. CursorOnly(w, x) /\ Screen(x, C) /\ Cursor(x)
  BY BoundedKeeps
<1>2. Marks(w, x) /\ x.on = w.on
  BY <1>1, CursorMoves DEF CursorOnly, Loose
<1>3. Csi(v, w) = Moved(v, x)
  BY DEF Csi
<1> HIDE DEF x
<1>4. Marks(v, x)
  BY <1>2, MarksTwice
<1>5. QED
  BY <1>1, <1>2, <1>3, <1>4, MovedKeeps
-----------------------------------------------------------------------------
(* The operations.                                                         *)

\* An operation leaves an emulator as it must be, and reports what it changed.
Keeps(v, w, C) == Screen(w, C) /\ Cursor(w) /\ Marks(v, w)

LEMMA ScrollKeeps ==
  ASSUME NEW C \in Contents, NEW v, Screen(v, C), Cursor(v),
         NEW top \in Nat, NEW bottom \in Nat, top < bottom, bottom <= v.rows,
         NEW left \in Nat, left <= v.columns, NEW down \in Int, NEW right \in Int
  PROVE  LET w == Scroll(v, Rect(top, bottom, left, v.columns), down, right)
         IN Keeps(v, w, C) /\ w.on = v.on
<1> DEFINE rect == Rect(top, bottom, left, v.columns)
           w == Scroll(v, rect, down, right)
<1>1. Inside(v, rect)
  BY Bounds DEF Inside, Rect
<1>2. Screen(w, C) /\ SameCursor(v, w) /\ Marks(v, w)
  BY <1>1, ScrollDraws
<1> HIDE DEF w
<1>3. Cursor(w) /\ w.on = v.on
  BY <1>2, CursorStays DEF SameCursor
<1>4. QED
  BY <1>2, <1>3 DEF Keeps, w

LEMMA RegionScrolls ==
  ASSUME NEW C \in Contents, NEW v, Screen(v, C), Cursor(v), NEW down \in Int
  PROVE  LET w == Scroll(v, Region(v), down, 0)
         IN Keeps(v, w, C) /\ w.on = v.on
<1>1. /\ v.top \in Nat /\ Bottom(v) \in Nat /\ v.top < Bottom(v) /\ Bottom(v) <= v.rows
      /\ 0 \in Nat /\ 0 <= v.columns /\ 0 \in Int
  <2>1. v.top \in Nat /\ v.top < Bottom(v)
    BY DEF Screen
  <2>2. Bottom(v) \in 1 .. v.rows /\ v.rows \in Nat /\ v.columns \in Nat
    BY Bounds
  <2>3. QED
    BY <2>1, <2>2
<1>2. QED
  BY <1>1, ScrollKeeps DEF Region

LEMMA EraseKeeps ==
  ASSUME NEW C \in Contents, NEW v, Screen(v, C), Cursor(v),
         NEW top \in Nat, NEW bottom \in Nat, NEW left, NEW right
  PROVE  LET w == Erase(v, Rect(top, bottom, left, right))
         IN /\ Screen(w, C) /\ Cursor(w) /\ SameCursor(v, w)
            /\ top < bottom => Keeps(v, w, C) /\ Covers(v, w, top, bottom)
<1> DEFINE rect == Rect(top, bottom, left, right)
           w == Erase(v, rect)
<1>1. rect.top = top /\ rect.bottom = bottom
  BY DEF Rect
<1>2. /\ Screen(w, C) /\ SameCursor(v, w)
      /\ top < bottom => Marks(v, w) /\ Covers(v, w, top, bottom)
  BY <1>1, EraseDraws
<1> HIDE DEF w
<1>3. Cursor(w)
  BY <1>2, CursorStays
<1>4. QED
  BY <1>2, <1>3 DEF Keeps, w

LEMMA FlushKeeps ==
  ASSUME NEW C \in Contents, NEW v, Screen(v, C), Cursor(v)
  PROVE  /\ Screen(Flush(v), C) /\ Cursor(Flush(v)) /\ Flush(v).damaged = NoDamage
         /\ Marks(v, Flush(v)) /\ Flush(v).on = v.on
<1> DEFINE w == Flush(v)
<1>1. v.rows \in Nat /\ DOMAIN v = Fields /\ v.stamped \subseteq Rows(v)
  BY Bounds DEF Screen
<1>2. /\ ReportOnly(v, w) /\ w.damaged = NoDamage
      /\ w.stamped \subseteq Rows(v)
      /\ OneRow(v) => \A r \in Rows(v) : Dirty(v, r) => r \in w.stamped
  BY <1>1, FlushReports
<1> HIDE DEF w
<1>3. Rows(w) = Rows(v) /\ Columns(w) = Columns(v) /\ Bottom(w) = Bottom(v)
  BY <1>2 DEF ReportOnly, SameCursor, Rows, Columns, Bottom
<1>4. Screen(w, C)
  BY <1>2, <1>3 DEF ReportOnly, SameCursor, Screen
<1>5. Cursor(w)
  BY <1>2, CursorStays DEF ReportOnly
<1>6. Picture(w) = Picture(v) /\ w.rows = v.rows /\ w.on = v.on
  BY <1>2 DEF ReportOnly, SameCursor, Picture
<1>7. Marks(v, w)
  BY <1>2, <1>6 DEF Marks, OneRow, Dirty
<1>8. QED
  BY <1>2, <1>4, <1>5, <1>6, <1>7 DEF w

\* An operation that only moves the cursor.
LEMMA CursorKeeps ==
  ASSUME NEW C \in Contents, NEW v, Screen(v, C), NEW w, CursorOnly(v, w),
         w.row \in Rows(v), w.column \in Columns(v),
         w.phantom \in BOOLEAN, w.saved \in Nat \X Nat
  PROVE  Keeps(v, w, C) /\ w.on = v.on
<1>1. /\ Screen(w, C) /\ Marks(v, w) /\ w.on = v.on
      /\ Rows(w) = Rows(v) /\ Columns(w) = Columns(v)
  BY CursorMoves DEF CursorOnly
<1>2. QED
  BY <1>1 DEF Keeps, Cursor

LEMMA LinefeedKeeps ==
  ASSUME NEW C \in Contents, NEW v, Screen(v, C), Cursor(v)
  PROVE  Keeps(v, Linefeed(v), C) /\ Linefeed(v).on = v.on
<1>1. CASE v.row = Bottom(v) - 1
  BY <1>1, RegionScrolls DEF Linefeed
<1>2. CASE v.row # Bottom(v) - 1 /\ v.row < v.rows - 1
  <2> DEFINE w == [v EXCEPT !.row = @ + 1]
  <2>1. /\ CursorOnly(v, w) /\ w.row = v.row + 1 /\ w.column = v.column
        /\ w.phantom = v.phantom /\ w.saved = v.saved
    BY DEF Screen, Fields, CursorOnly
  <2>2. Linefeed(v) = w
    BY <1>2 DEF Linefeed
  <2> HIDE DEF w
  <2>3. v.row + 1 \in Rows(v)
    BY <1>2, Bounds DEF Cursor, Rows
  <2>4. QED
    BY <2>1, <2>2, <2>3, CursorKeeps DEF Cursor
<1>3. CASE v.row # Bottom(v) - 1 /\ ~(v.row < v.rows - 1)
  BY <1>3, MarksSelf DEF Linefeed, Keeps
<1>4. QED
  BY <1>1, <1>2, <1>3

LEMMA WrappedKeeps ==
  ASSUME NEW C \in Contents, NEW v, Screen(v, C), Cursor(v)
  PROVE  Keeps(v, Wrapped(v), C) /\ Wrapped(v).on = v.on
<1>1. CASE ~v.phantom
  BY <1>1, MarksSelf DEF Wrapped, Keeps
<1>2. CASE v.phantom
  <2> DEFINE l == Linefeed(v)
             u == [l EXCEPT !.column = 0, !.phantom = FALSE]
             w == Goes(u)
  <2>1. Wrapped(v) = w
    BY <1>2 DEF Wrapped
  <2>2. Screen(l, C) /\ Cursor(l) /\ Marks(v, l) /\ l.on = v.on
    BY LinefeedKeeps DEF Keeps
  <2> HIDE DEF l
  <2>3. /\ CursorOnly(l, u) /\ u.row = l.row /\ u.column = 0
        /\ u.phantom = FALSE /\ u.saved = l.saved
    BY <2>2 DEF Screen, Fields, CursorOnly
  <2>4. 0 \in Columns(l)
    BY <2>2, Bounds DEF Columns
  <2> HIDE DEF u
  <2>5. Screen(u, C) /\ Cursor(u) /\ Marks(l, u) /\ u.on = l.on
    BY <2>2, <2>3, <2>4, CursorKeeps DEF Cursor, Keeps
  <2>6. u.on \in Screens /\ u.row \in Rows(u) /\ u.wraps \in [Screens -> [Rows(u) -> BOOLEAN]]
    BY <2>5 DEF Screen, Cursor
  <2>7. /\ SameCursor(u, w) /\ w.cell = u.cell /\ w.history = u.history
        /\ w.damaged = u.damaged /\ w.stamped = u.stamped
        /\ w.wraps = [u.wraps EXCEPT ![u.on][u.row] = TRUE]
    BY <2>5 DEF Screen, Fields, SameCursor, Goes
  <2> HIDE DEF w
  <2>8. w.wraps \in [Screens -> [Rows(u) -> BOOLEAN]]
    BY <2>6, <2>7
  <2>9. Rows(w) = Rows(u) /\ Columns(w) = Columns(u) /\ Bottom(w) = Bottom(u)
    BY <2>7 DEF SameCursor, Rows, Columns, Bottom
  <2>10. Screen(w, C)
    BY <2>5, <2>7, <2>8, <2>9 DEF Screen, SameCursor
  <2>11. Cursor(w)
    BY <2>5, <2>7, CursorStays
  <2>12. Marks(u, w)
    BY <2>7 DEF SameCursor, Marks, OneRow, Dirty, Picture
  <2>13. Marks(v, w)
    BY <2>2, <2>5, <2>12, MarksTwice
  <2>14. w.on = v.on
    BY <2>2, <2>5, <2>7 DEF SameCursor
  <2>15. QED
    BY <2>1, <2>10, <2>11, <2>13, <2>14 DEF Keeps
<1>3. QED
  BY <1>1, <1>2

LEMMA WrittenKeeps ==
  ASSUME NEW C \in Contents, NEW v, Screen(v, C), Cursor(v), NEW letter \in Shows(v, C)
  PROVE  Keeps(v, Written(v, letter), C) /\ SameCursor(v, Written(v, letter))
<1> DEFINE new == [Picture(v) EXCEPT ![v.row][v.column] = letter]
           u == Redraw(v, new, v.wraps[v.on], v.history)
           w == Written(v, letter)
<1>1. v.row \in Rows(v) /\ v.column \in Columns(v) /\ v.row \in Nat /\ v.row + 1 \in Nat
  BY Inner DEF Cursor
<1>2. Picture(v) \in [Rows(v) -> [Columns(v) -> Shows(v, C)]]
  BY Pictured
<1>3. new \in [Rows(v) -> [Columns(v) -> Shows(v, C)]]
  BY <1>1, <1>2
<1>4. \A r \in Rows(v) : r # v.row => new[r] = Picture(v)[r]
  BY <1>1, <1>2
<1>5. w = Damage(u, v.row, v.row + 1)
  <2>1. v.on \in Screens /\ DOMAIN v.wraps = Screens
    BY DEF Screen
  <2>2. [v EXCEPT !.cell[v.on][v.row][v.column] = letter] = u
    <3>1. [v.wraps EXCEPT ![v.on] = v.wraps[v.on]] = v.wraps
      BY <2>1 DEF Screen
    <3>2. [v.cell EXCEPT ![v.on][v.row][v.column] = letter] = [v.cell EXCEPT ![v.on] = new]
      BY <2>1 DEF Screen, Picture
    <3>3. [v EXCEPT !.cell = [v.cell EXCEPT ![v.on] = new]] = u
      BY <3>1 DEF Screen, Fields, Redraw
    <3>4. QED
      BY <3>2, <3>3
  <2>3. QED
    BY <2>2 DEF Written
<1> HIDE DEF new, w
<1>6. Drawn(v, u, C) /\ Picture(u) = new
  <2>1. v.wraps[v.on] \in [Rows(v) -> BOOLEAN]
    BY Pictured
  <2>2. v.history \in Seq(HistoryLines(C)) /\ Len(v.history) <= HistoryLimit
    BY DEF Screen
  <2>3. PICK marks, history : marks = v.wraps[v.on] /\ history = v.history
    OBVIOUS
  <2>4. /\ Drawn(v, Redraw(v, new, marks, history), C)
        /\ Picture(Redraw(v, new, marks, history)) = new
    BY <1>3, <2>1, <2>2, <2>3, Redrawn
  <2>5. QED
    BY <2>3, <2>4
<1> HIDE DEF u
<1>7. Reports(u, w, v.row, v.row + 1)
  BY <1>1, <1>5, <1>6, DamageReports DEF Drawn
<1>8. Outside(v, Picture(u), v.row, v.row + 1)
  BY <1>1, <1>4, <1>6 DEF Outside, Rows
<1>9. Screen(w, C) /\ SameCursor(v, w) /\ Marks(v, w)
  BY <1>1, <1>6, <1>7, <1>8, DrawnReports
<1>10. Cursor(w)
  BY <1>9, CursorStays
<1>11. QED
  BY <1>9, <1>10 DEF w, Keeps
LEMMA KeepsTwice ==
  ASSUME NEW C, NEW u, NEW v, NEW w, Keeps(u, v, C), Keeps(v, w, C)
  PROVE  Keeps(u, w, C)
BY MarksTwice DEF Keeps

LEMMA PutKeeps ==
  ASSUME NEW C \in Contents, NEW v, Screen(v, C), Cursor(v), NEW letter \in Shows(v, C)
  PROVE  Keeps(v, Put(v, letter), C) /\ Put(v, letter).on = v.on
<1> DEFINE u == Wrapped(v)
           w == Written(u, letter)
           x == Advanced(w)
<1>1. Keeps(v, u, C) /\ u.on = v.on
  BY WrappedKeeps
<1> HIDE DEF u
<1>2. Screen(u, C) /\ Cursor(u) /\ letter \in Shows(u, C)
  BY <1>1 DEF Keeps, Shows
<1>3. Keeps(u, w, C) /\ SameCursor(u, w)
  BY <1>2, WrittenKeeps
<1> HIDE DEF w
<1>4. Screen(w, C) /\ Cursor(w) /\ w.on = v.on
  BY <1>1, <1>3 DEF Keeps, SameCursor
<1>5. /\ CursorOnly(w, x) /\ x.row = w.row /\ x.saved = w.saved
      /\ x.column \in Columns(w) /\ x.phantom \in BOOLEAN
  <2>1. CASE w.column = w.columns - 1
    <3>1. x = [w EXCEPT !.phantom = TRUE]
      BY <2>1 DEF Advanced
    <3>2. /\ CursorOnly(w, x) /\ x.row = w.row /\ x.saved = w.saved
          /\ x.column = w.column /\ x.phantom = TRUE
      BY <1>4, <3>1 DEF Screen, Fields, CursorOnly
    <3>3. QED
      BY <1>4, <3>2 DEF Cursor
  <2>2. CASE w.column # w.columns - 1
    <3>1. x = [w EXCEPT !.column = @ + 1]
      BY <2>2 DEF Advanced
    <3>2. /\ CursorOnly(w, x) /\ x.row = w.row /\ x.saved = w.saved
          /\ x.column = w.column + 1 /\ x.phantom = w.phantom
      BY <1>4, <3>1 DEF Screen, Fields, CursorOnly
    <3>3. w.column + 1 \in Columns(w)
      BY <1>4, <2>2, Bounds DEF Cursor, Columns
    <3>4. QED
      BY <1>4, <3>2, <3>3 DEF Cursor
  <2>3. QED
    BY <2>1, <2>2
<1>6. Put(v, letter) = x
  BY DEF Put, u, w
<1> HIDE DEF x
<1>7. Keeps(w, x, C) /\ x.on = w.on
  BY <1>4, <1>5, CursorKeeps DEF Cursor
<1>8. Keeps(v, x, C)
  BY <1>1, <1>3, <1>7, KeepsTwice
<1>9. QED
  BY <1>4, <1>6, <1>7, <1>8

LEMMA MovedTo ==
  ASSUME NEW C \in Contents, NEW v, NEW w, Keeps(v, w, C), w.on = v.on
  PROVE  Keeps(v, Moved(v, w), C) /\ Moved(v, w).on = v.on
BY MovedKeeps DEF Keeps

LEMMA LFKeeps ==
  ASSUME NEW C \in Contents, NEW v, Screen(v, C), Cursor(v)
  PROVE  Keeps(v, LF(v), C) /\ LF(v).on = v.on
BY LinefeedKeeps, MovedTo DEF LF

LEMMA ColumnKeeps ==
  ASSUME NEW C \in Contents, NEW v, Screen(v, C), Cursor(v), NEW c \in Columns(v)
  PROVE  Keeps(v, [v EXCEPT !.column = c], C) /\ [v EXCEPT !.column = c].on = v.on
<1> DEFINE w == [v EXCEPT !.column = c]
<1>1. /\ CursorOnly(v, w) /\ w.row = v.row /\ w.saved = v.saved
      /\ w.column = c /\ w.phantom = v.phantom
  BY DEF Screen, Fields, CursorOnly
<1> HIDE DEF w
<1>2. Keeps(v, w, C) /\ w.on = v.on
  BY <1>1, CursorKeeps DEF Cursor
<1>3. QED
  BY <1>2 DEF w

LEMMA CRKeeps ==
  ASSUME NEW C \in Contents, NEW v, Screen(v, C), Cursor(v)
  PROVE  Keeps(v, CR(v), C) /\ CR(v).on = v.on
<1>1. 0 \in Columns(v)
  BY Bounds DEF Columns
<1>2. QED
  BY <1>1, ColumnKeeps, MovedTo DEF CR

LEMMA BackspaceKeeps ==
  ASSUME NEW C \in Contents, NEW v, Screen(v, C), Cursor(v)
  PROVE  Keeps(v, Backspace(v), C) /\ Backspace(v).on = v.on
<1>1. PICK c : c = Most(v.column - 1, 0)
  OBVIOUS
<1>2. c \in Columns(v)
  BY <1>1, Bounds DEF Cursor, Columns, Most
<1>3. PICK w : w = [v EXCEPT !.column = c]
  OBVIOUS
<1>4. Backspace(v) = Moved(v, w)
  BY <1>1, <1>3 DEF Backspace
<1>5. Keeps(v, w, C) /\ w.on = v.on
  BY <1>2, <1>3, ColumnKeeps
<1>6. QED
  BY <1>4, <1>5, MovedTo

LEMMA RIKeeps ==
  ASSUME NEW C \in Contents, NEW v, Screen(v, C), Cursor(v)
  PROVE  Keeps(v, RI(v), C) /\ RI(v).on = v.on
<1>1. CASE v.row = v.top
  <2>1. -1 \in Int
    OBVIOUS
  <2>2. PICK w : w = Scroll(v, Region(v), -1, 0)
    OBVIOUS
  <2>3. Keeps(v, w, C) /\ w.on = v.on
    BY <2>1, <2>2, RegionScrolls
  <2>4. RI(v) = Moved(v, w)
    BY <1>1, <2>2 DEF RI
  <2>5. QED
    BY <2>3, <2>4, MovedTo
<1>2. CASE v.row # v.top
  <2>1. PICK r : r = Most(v.row - 1, 0)
    OBVIOUS
  <2>2. r \in Rows(v)
    BY <2>1, Bounds DEF Cursor, Rows, Most
  <2>3. PICK w : w = [v EXCEPT !.row = r]
    OBVIOUS
  <2>4. RI(v) = Moved(v, w)
    BY <1>2, <2>1, <2>3 DEF RI
  <2>5. /\ CursorOnly(v, w) /\ w.row = r /\ w.saved = v.saved
        /\ w.column = v.column /\ w.phantom = v.phantom
    BY <2>3 DEF Screen, Fields, CursorOnly
  <2>6. Keeps(v, w, C) /\ w.on = v.on
    BY <2>2, <2>5, CursorKeeps DEF Cursor
  <2>7. QED
    BY <2>4, <2>6, MovedTo
<1>3. QED
  BY <1>1, <1>2

LEMMA CsiTo ==
  ASSUME NEW C \in Contents, NEW v, NEW w, Loose(w, C), Marks(v, w), w.on = v.on
  PROVE  Keeps(v, Csi(v, w), C) /\ Csi(v, w).on = v.on
BY CsiKeeps DEF Keeps

LEMMA CUPKeeps ==
  ASSUME NEW C \in Contents, NEW v, Screen(v, C), Cursor(v),
         NEW r \in Rows(v), NEW c \in Columns(v)
  PROVE  Keeps(v, CUP(v, r, c), C) /\ CUP(v, r, c).on = v.on
<1> DEFINE w == [At(v, r, c) EXCEPT !.phantom = FALSE]
<1>1. /\ CursorOnly(v, w) /\ w.row = r /\ w.column = c
      /\ w.phantom = FALSE /\ w.saved = v.saved
  BY DEF Screen, Fields, CursorOnly, At
<1>2. CUP(v, r, c) = Csi(v, w)
  BY DEF CUP
<1> HIDE DEF w
<1>3. Keeps(v, w, C) /\ w.on = v.on
  BY <1>1, CursorKeeps DEF Cursor
<1>4. Loose(w, C)
  BY <1>3, Inner DEF Keeps
<1>5. QED
  BY <1>2, <1>3, <1>4, CsiTo DEF Keeps

LEMMA ED0Keeps ==
  ASSUME NEW C \in Contents, NEW v, Screen(v, C), Cursor(v)
  PROVE  Keeps(v, ED0(v), C) /\ ED0(v).on = v.on
<1> DEFINE u == Erase(v, Rect(v.row, v.row + 1, v.column, v.columns))
<1>1. v.row \in Nat /\ v.row + 1 \in Nat /\ v.row < v.row + 1 /\ v.rows \in Nat
  BY Inner, Bounds
<1>2. Keeps(v, u, C) /\ SameCursor(v, u)
  BY <1>1, EraseKeeps
<1>3. CASE v.row + 1 < v.rows
  <2>1. PICK w : w = Erase(u, Rect(v.row + 1, v.rows, 0, v.columns))
    OBVIOUS
  <2>2. ED0(v) = w
    BY <1>3, <2>1 DEF ED0
  <2> HIDE DEF u
  <2>3. PICK top, bottom : top = v.row + 1 /\ bottom = v.rows
    OBVIOUS
  <2>4. Keeps(u, w, C) /\ SameCursor(u, w)
    BY <1>1, <1>2, <1>3, <2>1, <2>3, EraseKeeps DEF Keeps
  <2>5. QED
    BY <1>2, <2>2, <2>4, KeepsTwice DEF SameCursor
<1>4. CASE ~(v.row + 1 < v.rows)
  BY <1>2, <1>4 DEF ED0, SameCursor
<1>5. QED
  BY <1>3, <1>4

\* With an empty rectangle in its first step the report is not complete.
LEMMA ED1Keeps ==
  ASSUME NEW C \in Contents, NEW v, Screen(v, C), Cursor(v)
  PROVE  /\ Screen(ED1(v), C) /\ Cursor(ED1(v)) /\ ED1(v).on = v.on
         /\ v.row > 0 => Keeps(v, ED1(v), C)
<1>1. v.row \in Nat /\ v.row + 1 \in Nat /\ v.row < v.row + 1 /\ 0 \in Nat
  BY Inner
<1>2. PICK top, bottom : top = v.row /\ bottom = v.row + 1
  OBVIOUS
<1>3. PICK u : u = Erase(v, Rect(0, top, 0, v.columns))
  OBVIOUS
<1>4. /\ Screen(u, C) /\ Cursor(u) /\ SameCursor(v, u)
      /\ 0 < top => Keeps(v, u, C)
  BY <1>1, <1>2, <1>3, EraseKeeps
<1>5. PICK w : w = Erase(u, Rect(top, bottom, 0, v.column + 1))
  OBVIOUS
<1>6. Keeps(u, w, C) /\ SameCursor(u, w)
  BY <1>1, <1>2, <1>4, <1>5, EraseKeeps
<1>7. ED1(v) = w
  BY <1>2, <1>3, <1>5 DEF ED1
<1>8. 0 < top => Keeps(v, w, C)
  BY <1>4, <1>6, KeepsTwice
<1>9. QED
  BY <1>1, <1>2, <1>4, <1>6, <1>7, <1>8 DEF Keeps, SameCursor

LEMMA ED2Keeps ==
  ASSUME NEW C \in Contents, NEW v, Screen(v, C), Cursor(v)
  PROVE  Keeps(v, ED2(v), C) /\ ED2(v).on = v.on
<1>1. 0 \in Nat /\ v.rows \in Nat /\ 0 < v.rows
  BY Bounds
<1>2. QED
  BY <1>1, EraseKeeps DEF ED2, SameCursor

LEMMA ELKeeps ==
  ASSUME NEW C \in Contents, NEW v, Screen(v, C), Cursor(v), NEW from, NEW to
  PROVE  Keeps(v, EL(v, from, to), C) /\ EL(v, from, to).on = v.on
<1>1. v.row \in Nat /\ v.row + 1 \in Nat /\ v.row < v.row + 1
  BY Inner
<1>2. QED
  BY <1>1, EraseKeeps DEF EL, SameCursor

LEMMA ED3Keeps ==
  ASSUME NEW C \in Contents, NEW v, Screen(v, C), Cursor(v)
  PROVE  Keeps(v, ED3(v), C) /\ ED3(v).on = v.on
<1> DEFINE w == ED3(v)
<1>1. /\ SameCursor(v, w) /\ w.cell = v.cell /\ w.wraps = v.wraps /\ w.history = <<>>
      /\ w.damaged = v.damaged /\ w.stamped = v.stamped
  BY DEF Screen, Fields, SameCursor, ED3
<1> HIDE DEF w
<1>2. Rows(w) = Rows(v) /\ Columns(w) = Columns(v) /\ Bottom(w) = Bottom(v)
  BY <1>1 DEF SameCursor, Rows, Columns, Bottom
<1>3. <<>> \in Seq(HistoryLines(C)) /\ Len(<<>>) <= HistoryLimit
  BY Bounds
<1>4. Screen(w, C)
  BY <1>1, <1>2, <1>3 DEF Screen, SameCursor
<1>5. Cursor(w)
  BY <1>1, CursorStays
<1>6. Marks(v, w) /\ w.on = v.on
  BY <1>1 DEF SameCursor, Marks, OneRow, Dirty, Picture
<1>7. QED
  BY <1>4, <1>5, <1>6 DEF w, Keeps
LEMMA MoveLinesKeeps ==
  ASSUME NEW C \in Contents, NEW v, Screen(v, C), Cursor(v), NEW down \in Int
  PROVE  Keeps(v, MoveLines(v, down), C) /\ MoveLines(v, down).on = v.on
<1>1. CASE InRegion(v)
  <2>1. /\ v.row \in Nat /\ Bottom(v) \in Nat /\ v.row < Bottom(v) /\ Bottom(v) <= v.rows
        /\ 0 \in Nat /\ 0 <= v.columns /\ 0 \in Int
    BY <1>1, Inner, Bounds DEF InRegion
  <2>2. QED
    BY <1>1, <2>1, ScrollKeeps DEF MoveLines
<1>2. CASE ~InRegion(v)
  BY <1>2, MarksSelf DEF MoveLines, Keeps
<1>3. QED
  BY <1>1, <1>2

LEMMA MoveCellsKeeps ==
  ASSUME NEW C \in Contents, NEW v, Screen(v, C), Cursor(v), NEW right \in Int
  PROVE  Keeps(v, MoveCells(v, right), C) /\ MoveCells(v, right).on = v.on
<1>1. CASE InRegion(v)
  <2>1. /\ v.row \in Nat /\ v.row + 1 \in Nat /\ v.row < v.row + 1 /\ v.row + 1 <= v.rows
        /\ v.column \in Nat /\ v.column <= v.columns /\ 0 \in Int
    BY Inner, Bounds
  <2>2. QED
    BY <1>1, <2>1, ScrollKeeps DEF MoveCells
<1>2. CASE ~InRegion(v)
  BY <1>2, MarksSelf DEF MoveCells, Keeps
<1>3. QED
  BY <1>1, <1>2

LEMMA DECSTBMKeeps ==
  ASSUME NEW C \in Contents, NEW v, Screen(v, C), Cursor(v),
         NEW top \in Rows(v), NEW bottom \in 1 .. v.rows
  PROVE  Keeps(v, DECSTBM(v, top, bottom), C) /\ DECSTBM(v, top, bottom).on = v.on
<1> DEFINE b == IF top = 0 /\ bottom = v.rows THEN -1 ELSE bottom
           u == [v EXCEPT !.top = top, !.bottom = b]
           w == IF Bottom(u) <= top THEN [u EXCEPT !.top = 0, !.bottom = -1] ELSE u
           x == At(w, 0, 0)
<1>1. v.rows \in Nat \ {0} /\ top \in Nat /\ top < v.rows /\ b \in -1 .. v.rows
  BY Bounds DEF Rows
<1> HIDE DEF b
<1>2. /\ RegionOnly(v, u) /\ u.top = top /\ u.bottom = b
  BY DEF Screen, Fields, RegionOnly
<1>3. /\ RegionOnly(v, w) /\ w.top \in Nat /\ w.bottom \in -1 .. v.rows /\ w.top < Bottom(w)
  <2>1. CASE Bottom(u) <= top
    <3>1. w = [u EXCEPT !.top = 0, !.bottom = -1]
      BY <2>1
    <3> HIDE DEF u, w
    <3>2. /\ RegionOnly(v, w) /\ w.top = 0 /\ w.bottom = -1
      BY <1>2, <3>1 DEF RegionOnly, Fields
    <3>3. Bottom(w) = v.rows
      BY <3>2 DEF Bottom, RegionOnly
    <3>4. QED
      BY <1>1, <3>2, <3>3
  <2>2. CASE ~(Bottom(u) <= top)
    <3>1. w = u
      BY <2>2
    <3> HIDE DEF u, w
    <3>2. Bottom(u) \in Int
      BY <1>1, <1>2 DEF Bottom, RegionOnly
    <3>3. QED
      BY <1>1, <1>2, <2>2, <3>1, <3>2
  <2>3. QED
    BY <2>1, <2>2
<1> HIDE DEF u, w
<1>4. Rows(w) = Rows(v) /\ Columns(w) = Columns(v)
  BY <1>3 DEF RegionOnly, Rows, Columns
<1>5. Screen(w, C)
  BY <1>3, <1>4 DEF RegionOnly, Screen
<1>6. Marks(v, w)
  BY <1>3 DEF RegionOnly, Marks, OneRow, Dirty, Picture
<1>7. /\ CursorOnly(w, x) /\ x.row = 0 /\ x.column = 0
      /\ x.phantom = w.phantom /\ x.saved = w.saved
  BY <1>5, AtMoves
<1>8. DECSTBM(v, top, bottom) = Csi(v, x)
  BY DEF DECSTBM, u, w, b
<1> HIDE DEF x
<1>9. 0 \in Rows(w) /\ 0 \in Columns(w) /\ w.phantom \in BOOLEAN /\ w.saved \in Nat \X Nat
  BY <1>3, <1>5, Bounds DEF Rows, Columns, RegionOnly, Cursor
<1>10. Keeps(w, x, C) /\ x.on = w.on
  BY <1>5, <1>7, <1>9, CursorKeeps
<1>11. Loose(x, C) /\ Marks(v, x) /\ x.on = v.on
  BY <1>3, <1>6, <1>10, Inner, MarksTwice DEF Keeps, RegionOnly
<1>12. QED
  BY <1>8, <1>11, CsiTo

LEMMA SaveKeeps ==
  ASSUME NEW C \in Contents, NEW v, Screen(v, C), Cursor(v)
  PROVE  Keeps(v, SaveCursor(v), C) /\ SaveCursor(v).on = v.on
<1> DEFINE w == SaveCursor(v)
<1>1. /\ CursorOnly(v, w) /\ w.row = v.row /\ w.saved = <<v.row, v.column>>
      /\ w.column = v.column /\ w.phantom = v.phantom
  BY DEF Screen, Fields, CursorOnly, SaveCursor
<1> HIDE DEF w
<1>2. w.saved \in Nat \X Nat
  BY <1>1, Inner
<1>3. Keeps(v, w, C) /\ w.on = v.on
  BY <1>1, <1>2, CursorKeeps DEF Cursor
<1>4. QED
  BY <1>3 DEF w

LEMMA RestoreMoves ==
  ASSUME NEW C \in Contents, NEW v, Screen(v, C), v.saved \in Nat \X Nat
  PROVE  /\ CursorOnly(v, RestoreCursor(v)) /\ RestoreCursor(v).phantom \in BOOLEAN
         /\ RestoreCursor(v).row = v.saved[1] /\ RestoreCursor(v).column = v.saved[2]
         /\ RestoreCursor(v).saved = v.saved
<1> DEFINE u == At(v, v.saved[1], v.saved[2])
           w == RestoreCursor(v)
<1>1. /\ CursorOnly(v, u) /\ u.row = v.saved[1] /\ u.column = v.saved[2]
      /\ u.phantom = v.phantom /\ u.saved = v.saved
  BY AtMoves
<1>2. w = Moved(v, u)
  BY DEF RestoreCursor
<1> HIDE DEF u, w
<1>3. Screen(u, C)
  BY <1>1, CursorMoves
<1>4. /\ CursorOnly(u, w) /\ w.row = u.row /\ w.column = u.column
      /\ w.phantom \in BOOLEAN /\ w.saved = u.saved
  BY <1>2, <1>3, MovedMoves
<1>5. CursorOnly(v, w)
  BY <1>1, <1>4 DEF CursorOnly
<1>6. QED
  BY <1>1, <1>4, <1>5 DEF w

LEMMA RestoreKeeps ==
  ASSUME NEW C \in Contents, NEW v, Screen(v, C), Cursor(v),
         v.saved[1] < v.rows, v.saved[2] < v.columns
  PROVE  Keeps(v, RestoreCursor(v), C) /\ RestoreCursor(v).on = v.on
<1>1. v.saved \in Nat \X Nat /\ v.saved[1] \in Rows(v) /\ v.saved[2] \in Columns(v)
  BY Bounds DEF Cursor, Rows, Columns
<1>2. QED
  BY <1>1, RestoreMoves, CursorKeeps

\* The other screen is shown.
LEMMA Shown ==
  ASSUME NEW C \in Contents, NEW v, Screen(v, C), Cursor(v), NEW on \in Screens
  PROVE  LET w == [v EXCEPT !.on = on]
         IN /\ Screen(w, C) /\ Cursor(w) /\ w.on = on /\ w.rows = v.rows
            /\ w.columns = v.columns
            /\ w.damaged = v.damaged /\ w.stamped = v.stamped
<1> DEFINE w == [v EXCEPT !.on = on]
<1>1. /\ DOMAIN w = Fields /\ w.on = on
      /\ w.rows = v.rows /\ w.columns = v.columns
      /\ w.cell = v.cell /\ w.wraps = v.wraps /\ w.history = v.history
      /\ w.row = v.row /\ w.column = v.column /\ w.phantom = v.phantom
      /\ w.saved = v.saved /\ w.top = v.top /\ w.bottom = v.bottom
      /\ w.damaged = v.damaged /\ w.stamped = v.stamped
  BY DEF Screen, Fields
<1> HIDE DEF w
<1>2. Rows(w) = Rows(v) /\ Columns(w) = Columns(v) /\ Bottom(w) = Bottom(v)
  BY <1>1 DEF Rows, Columns, Bottom
<1>3. Screen(w, C)
  BY <1>1, <1>2 DEF Screen
<1>4. Cursor(w)
  BY <1>1, <1>2 DEF Cursor
<1>5. QED
  BY <1>1, <1>3, <1>4 DEF w
\* All rows are reported.
LEMMA AllMarked ==
  ASSUME NEW C \in Contents, NEW v, Screen(v, C), NEW on \in Screens, NEW w,
         Covers([v EXCEPT !.on = on], w, 0, v.rows), w.rows = v.rows
  PROVE  Marks(v, w)
<1> DEFINE u == [v EXCEPT !.on = on]
<1>1. u.rows = v.rows /\ u.damaged = v.damaged /\ u.stamped = v.stamped
  BY DEF Screen, Fields
<1>2. Covers(u, w, 0, v.rows)
  OBVIOUS
<1> HIDE DEF u
<1>3. OneRow(v) => OneRow(u)
  BY <1>1 DEF OneRow
<1>4. \A r \in Rows(v) : r \in Rows(u) /\ 0 <= r /\ r < v.rows
  BY <1>1, Bounds DEF Rows
<1>5. OneRow(v) => OneRow(w) /\ \A r \in Rows(v) : Dirty(w, r)
  BY <1>2, <1>3, <1>4 DEF Covers
<1>6. QED
  BY <1>5 DEF Marks

LEMMA AltOnKeeps ==
  ASSUME NEW C \in Contents, NEW v, Screen(v, C), Cursor(v)
  PROVE  Keeps(v, AltOn(v), C)
<1> DEFINE u == [v EXCEPT !.on = "alt"]
           e == Erase(u, Rect(0, v.rows, 0, v.columns))
           s == SaveCursor(e)
<1>1. "alt" \in Screens /\ 0 \in Nat /\ v.rows \in Nat /\ 0 < v.rows
  BY Bounds DEF Screens
<1>2. Screen(u, C) /\ Cursor(u) /\ u.rows = v.rows
  BY <1>1, Shown
<1>3. AltOn(v) = Csi(v, s)
  BY DEF AltOn
<1>4. Keeps(u, e, C) /\ SameCursor(u, e) /\ Covers(u, e, 0, v.rows)
  <2> HIDE DEF u
  <2>1. QED
    BY <1>1, <1>2, EraseKeeps
<1>5. Marks(v, e)
  <2>1. e.rows = v.rows
    BY <1>2, <1>4 DEF SameCursor
  <2> HIDE DEF e
  <2>2. QED
    BY <1>1, <1>4, <2>1, AllMarked
<1> HIDE DEF u, e
<1>6. Keeps(e, s, C)
  BY <1>4, SaveKeeps DEF Keeps
<1> HIDE DEF s
<1>7. Loose(s, C) /\ Marks(v, s)
  BY <1>5, <1>6, Inner, MarksTwice DEF Keeps
<1>8. QED
  BY <1>3, <1>7, CsiKeeps DEF Keeps

LEMMA AltOffKeeps ==
  ASSUME NEW C \in Contents, NEW v, Screen(v, C), Cursor(v)
  PROVE  Keeps(v, AltOff(v), C)
<1> DEFINE u == [v EXCEPT !.on = "main"]
           d == Damage(u, 0, v.rows)
           s == RestoreCursor(d)
<1>1. "main" \in Screens /\ 0 \in Nat /\ v.rows \in Nat /\ 0 < v.rows
  BY Bounds DEF Screens
<1>2. Screen(u, C) /\ Cursor(u) /\ u.rows = v.rows /\ u.columns = v.columns
  BY <1>1, Shown
<1>3. AltOff(v) = Csi(v, s)
  BY DEF AltOff
<1>4. Screen(d, C) /\ SameCursor(u, d) /\ Covers(u, d, 0, v.rows)
  <2> HIDE DEF u
  <2>1. Reportable(u)
    BY <1>1, <1>2 DEF Screen, Reportable
  <2>2. Reports(u, d, 0, v.rows)
    BY <1>1, <2>1, DamageReports
  <2>3. Drawn(u, u, C)
    BY <1>2, <2>1 DEF Drawn, SameCursor, Screen
  <2> HIDE DEF d
  <2>4. QED
    BY <1>1, <1>2, <2>2, <2>3, DrawnReports
<1>5. Marks(v, d)
  <2>1. d.rows = v.rows
    BY <1>2, <1>4 DEF SameCursor
  <2> HIDE DEF d
  <2>2. QED
    BY <1>1, <1>4, <2>1, AllMarked
<1> HIDE DEF u, d
<1>6. d.saved \in Nat \X Nat
  BY <1>2, <1>4 DEF SameCursor, Cursor
<1>7. /\ CursorOnly(d, s) /\ s.phantom \in BOOLEAN /\ s.saved \in Nat \X Nat
      /\ s.row \in Int /\ s.column \in Int
  BY <1>4, <1>6, RestoreMoves
<1> HIDE DEF s
<1>8. Loose(s, C) /\ Marks(v, s)
  <2>1. Screen(s, C) /\ Marks(d, s)
    BY <1>4, <1>7, CursorMoves
  <2>2. Marks(v, s)
    BY <1>5, <2>1, MarksTwice
  <2>3. QED
    BY <1>7, <2>1, <2>2 DEF Loose
<1>9. QED
  BY <1>3, <1>8, CsiKeeps DEF Keeps

-----------------------------------------------------------------------------
(* The beginning.                                                          *)

LEMMA NewScreen ==
  ASSUME NEW C \in Contents, NEW size \in Sizes
  PROVE  LET v == New(size[1], size[2])
         IN Screen(v, C) /\ Cursor(v) /\ v.on = "main"
<1> DEFINE v == New(size[1], size[2])
<1>1. /\ size[1] \in Nat \ {0} /\ size[2] \in Nat \ {0} /\ size = <<size[1], size[2]>>
      /\ HistoryLimit \in Nat \ {0}
  BY VTermAssumption DEF VTermAssumption
<1>2. Blank \in C /\ C \subseteq Cells
  BY VTermAssumption DEF Contents, Cells, VTermAssumption
<1>3. PICK rows, columns : rows = size[1] /\ columns = size[2]
  OBVIOUS
<1>4. /\ DOMAIN v = Fields /\ v.rows = rows /\ v.columns = columns /\ v.on = "main"
      /\ v.cell = [s \in Screens |-> [r \in 0 .. rows - 1 |-> BlankLine(columns)]]
      /\ v.wraps = [s \in Screens |-> [r \in 0 .. rows - 1 |-> FALSE]]
      /\ v.row = 0 /\ v.column = 0 /\ v.phantom = FALSE /\ v.saved = <<0, 0>>
      /\ v.top = 0 /\ v.bottom = -1 /\ v.damaged = NoDamage /\ v.stamped = {}
      /\ v.history = <<>>
  BY <1>3 DEF New, Fields
<1> HIDE DEF v
<1>5. /\ BlankLine(columns) \in [0 .. columns - 1 -> C]
      /\ BlankLine(columns) \in [0 .. columns - 1 -> Cells]
  BY <1>2 DEF BlankLine
<1>6. /\ Rows(v) = 0 .. rows - 1 /\ Columns(v) = 0 .. columns - 1 /\ Bottom(v) = rows
      /\ Lines(v.columns) = [0 .. columns - 1 -> Cells]
  BY <1>4 DEF Rows, Columns, Bottom, Lines
<1>7. /\ v.cell \in [Screens -> [Rows(v) -> Lines(v.columns)]]
      /\ v.cell["main"] \in [Rows(v) -> [Columns(v) -> C]]
  BY <1>4, <1>5, <1>6 DEF Screens
<1>8. v.wraps \in [Screens -> [Rows(v) -> BOOLEAN]]
  BY <1>4, <1>6
<1>9. <<>> \in Seq(HistoryLines(C)) /\ Len(<<>>) <= HistoryLimit
  BY <1>1
<1>10. <<v.rows, v.columns>> \in Sizes /\ v.on \in Screens
  <2>1. <<rows, columns>> = size
    BY <1>1, <1>3
  <2>2. QED
    BY <1>4, <2>1 DEF Screens
<1>11. v.top \in Nat /\ v.bottom \in -1 .. v.rows /\ v.top < Bottom(v)
  BY <1>1, <1>3, <1>4, <1>6
<1>12. Screen(v, C)
  BY <1>4, <1>7, <1>8, <1>9, <1>10, <1>11 DEF Screen
<1>13. Cursor(v)
  <2>1. 0 \in Rows(v) /\ 0 \in Columns(v)
    BY <1>1, <1>3, <1>6
  <2>2. <<0, 0>> \in Nat \X Nat
    OBVIOUS
  <2>3. QED
    BY <1>4, <2>1, <2>2 DEF Cursor
<1>14. QED
  BY <1>4, <1>12, <1>13 DEF v

\* On the main screen, as it must be.
Ready(v, C) == Screen(v, C) /\ Cursor(v) /\ v.on = "main"

LEMMA TypedKeeps ==
  ASSUME NEW C \in Contents, NEW v, Ready(v, C), NEW letter \in Letters \cup {Newline}
  PROVE  Ready(Typed(v, letter), C)
<1>1. CASE letter = Newline
  <2>1. PICK w : w = LF(v)
    OBVIOUS
  <2>2. Screen(w, C) /\ Cursor(w) /\ w.on = "main"
    BY <2>1, LFKeeps DEF Ready, Keeps
  <2>3. Ready(CR(w), C)
    BY <2>2, CRKeeps DEF Ready, Keeps
  <2>4. QED
    BY <1>1, <2>1, <2>3 DEF Typed
<1>2. CASE letter # Newline
  <2>1. letter \in Shows(v, C)
    BY <1>2, Bounds DEF Ready, Shows
  <2>2. QED
    BY <1>2, <2>1, PutKeeps DEF Ready, Keeps, Typed
<1>3. QED
  BY <1>1, <1>2

\* The emulators of a text exist, and each is as it must be.
PrintedOf(f, v, text, n) ==
  f = [k \in 0 .. n |-> IF k = 0 THEN v ELSE Typed(f[k - 1], text[k])]

LEMMA SomePrinted ==
  ASSUME NEW v, NEW text
  PROVE  \A n \in Nat : \E f : PrintedOf(f, v, text, n)
<1> DEFINE T == {n \in Nat : \E f : PrintedOf(f, v, text, n)}
<1>1. 0 \in T
  <2> DEFINE f == [k \in 0 .. 0 |-> v]
  <2>1. f = [k \in 0 .. 0 |-> IF k = 0 THEN v ELSE Typed(f[k - 1], text[k])]
    OBVIOUS
  <2>2. PrintedOf(f, v, text, 0)
    BY <2>1 DEF PrintedOf
  <2>3. QED
    BY <2>2
<1>2. ASSUME NEW n \in Nat, n \in T PROVE n + 1 \in T
  <2>1. PICK f : PrintedOf(f, v, text, n)
    BY <1>2
  <2> DEFINE g == [k \in 0 .. n + 1 |->
                     IF k <= n THEN f[k] ELSE Typed(f[n], text[n + 1])]
  <2>2. /\ DOMAIN f = 0 .. n
        /\ \A k \in 0 .. n : f[k] = IF k = 0 THEN v ELSE Typed(f[k - 1], text[k])
    BY <2>1 DEF PrintedOf
  <2>3. \A k \in 0 .. n : g[k] = f[k]
    OBVIOUS
  <2>4. g[n + 1] = Typed(f[n], text[n + 1])
    OBVIOUS
  <2>5. ASSUME NEW k \in 0 .. n + 1
        PROVE  g[k] = IF k = 0 THEN v ELSE Typed(g[k - 1], text[k])
    <3>1. CASE k = n + 1
      BY <2>3, <2>4, <3>1
    <3>2. CASE k # n + 1
      <4>1. k \in 0 .. n /\ (k # 0 => k - 1 \in 0 .. n)
        BY <3>2
      <4> HIDE DEF g
      <4>2. g[k] = f[k] /\ (k # 0 => g[k - 1] = f[k - 1])
        BY <4>1, <2>3
      <4>3. QED
        BY <4>1, <4>2, <2>2
    <3>3. QED
      BY <3>1, <3>2
  <2>6. g = [k \in 0 .. n + 1 |-> IF k = 0 THEN v ELSE Typed(g[k - 1], text[k])]
    BY <2>5
  <2>7. PrintedOf(g, v, text, n + 1)
    <3> HIDE DEF g
    <3>1. QED
      BY <2>6 DEF PrintedOf
  <2>8. QED
    BY <2>7
<1>3. T \subseteq Nat
  OBVIOUS
<1> HIDE DEF T
<1>4. T = Nat
  <2>1. \A m \in T : m + 1 \in T
    BY <1>2, <1>3
  <2>2. QED
    BY <1>1, <1>3, <2>1, Induction
<1>5. QED
  BY <1>4 DEF T

LEMMA PrintedReady ==
  ASSUME NEW C \in Contents, NEW v, Ready(v, C), NEW text \in Seq(Letters \cup {Newline})
  PROVE  Ready(Printed(v, text)[Len(text)], C)
<1>1. Len(text) \in Nat
  OBVIOUS
<1>2. PICK f : PrintedOf(f, v, text, Len(text))
  BY <1>1, SomePrinted
<1> DEFINE g == Printed(v, text)
<1>3. PrintedOf(g, v, text, Len(text))
  <2>1. g = CHOOSE h : PrintedOf(h, v, text, Len(text))
    BY DEF Printed, PrintedOf
  <2>2. QED
    BY <1>2, <2>1
<1> HIDE DEF g
<1>4. \A k \in 0 .. Len(text) : g[k] = IF k = 0 THEN v ELSE Typed(g[k - 1], text[k])
  BY <1>3 DEF PrintedOf
<1> DEFINE T == {n \in Nat : n <= Len(text) => Ready(g[n], C)}
<1>5. 0 \in T
  <2>1. g[0] = v
    BY <1>1, <1>4
  <2>2. QED
    BY <2>1
<1>6. ASSUME NEW n \in Nat, n \in T PROVE n + 1 \in T
  <2>1. CASE n + 1 <= Len(text)
    <3>1. Ready(g[n], C)
      BY <1>1, <1>6, <2>1
    <3>2. n + 1 \in 0 .. Len(text) /\ text[n + 1] \in Letters \cup {Newline}
      BY <1>1, <2>1
    <3>3. g[n + 1] = Typed(g[n], text[n + 1])
      BY <1>4, <3>2
    <3>4. Ready(g[n + 1], C)
      BY <3>1, <3>2, <3>3, TypedKeeps
    <3>5. QED
      BY <3>4
  <2>2. CASE ~(n + 1 <= Len(text))
    BY <2>2
  <2>3. QED
    BY <2>1, <2>2
<1>7. T \subseteq Nat
  OBVIOUS
<1> HIDE DEF T
<1>8. T = Nat
  <2>1. \A m \in T : m + 1 \in T
    BY <1>6, <1>7
  <2>2. QED
    BY <1>5, <1>7, <2>1, Induction
<1>9. Len(text) \in T
  BY <1>1, <1>8
<1>10. QED
  BY <1>1, <1>9 DEF T, g
-----------------------------------------------------------------------------
(* Resizing: a line.                                                       *)

LEMMA Products ==
  /\ \A a, b \in Nat : a * b \in Nat
  /\ \A a, b \in Int : a * b \in Int
  /\ \A a \in Int, b \in Nat \ {0} : a \div b \in Int /\ a % b \in 0 .. b - 1
<1>1. \A a, b \in Nat : a * b \in Nat
  OBVIOUS
<1>2. \A a, b \in Int : a * b \in Int
  OBVIOUS
<1>3. \A a \in Int, b \in Nat \ {0} : a \div b \in Int /\ a % b \in 0 .. b - 1
  OBVIOUS
<1>4. QED
  BY <1>1, <1>2, <1>3

LEMMA Division ==
  ASSUME NEW k \in Nat, NEW n \in Nat, NEW c \in Nat \ {0}, k < n * c + c
  PROVE  k \div c \in 0 .. n
<1>1. PICK q, m : q = k \div c /\ m = k % c
  OBVIOUS
<1>2. q \in Int /\ m \in 0 .. c - 1
  BY <1>1, Products
<1>3. k = c * q + m
  BY <1>1
<1>4. q <= n
  <2>1. SUFFICES ASSUME q > n PROVE FALSE
    BY <1>2
  <2>2. PICK d \in Nat : q = n + 1 + d
    BY <1>2, <2>1
  <2>3. c * q = c * n + c + c * d
    BY <2>2
  <2>4. c * d \in Nat /\ c * n = n * c /\ c * n \in Nat
    OBVIOUS
  <2>5. PICK x, y : x = c * n /\ y = c * d
    OBVIOUS
  <2>6. k = x + c + y + m /\ x \in Nat /\ y \in Nat /\ k < x + c
    BY <1>3, <2>3, <2>4, <2>5
  <2>7. QED
    BY <1>2, <2>6
<1>5. q >= 0
  <2>1. SUFFICES ASSUME q < 0 PROVE FALSE
    BY <1>2
  <2>2. PICK d \in Nat : q = -1 - d
    BY <1>2, <2>1
  <2>3. c * q = -c - c * d
    BY <2>2
  <2>4. PICK y \in Nat : y = c * d
    OBVIOUS
  <2>5. k = -c - y + m
    BY <1>3, <2>3, <2>4
  <2>6. QED
    BY <1>2, <2>5
<1>6. QED
  BY <1>1, <1>2, <1>4, <1>5

LEMMA UsedCells ==
  ASSUME NEW columns \in Nat, NEW row
  PROVE  Used(row, columns) \in 0 .. columns
<1> DEFINE Blanks(n) == \A c \in n .. columns - 1 : row[c] = Blank
           T == {n \in 0 .. columns : Blanks(n)}
<1>1. columns \in T
  OBVIOUS
<1>2. PICK m \in T : \A n \in T : m <= n
  <2>1. T \subseteq Nat /\ T # {}
    <3> HIDE DEF Blanks
    <3>1. T \subseteq Nat
      OBVIOUS
    <3>2. T # {}
      <4> HIDE DEF T
      <4>1. QED
        BY <1>1
    <3>3. QED
      BY <3>1, <3>2
  <2> HIDE DEF T
  <2>2. QED
    BY <2>1, Minimum
<1>3. m \in 0 .. columns /\ Blanks(m)
  OBVIOUS
<1>4. m > 0 => row[m - 1] # Blank
  <2>1. SUFFICES ASSUME m > 0, row[m - 1] = Blank PROVE FALSE
    OBVIOUS
  <2>2. m - 1 \in 0 .. columns
    BY <1>3, <2>1
  <2>3. \A c \in m - 1 .. columns - 1 : row[c] = Blank
    <3> TAKE c \in m - 1 .. columns - 1
    <3>1. c = m - 1 \/ c \in m .. columns - 1
      BY <1>3
    <3>2. QED
      BY <1>3, <2>1, <3>1
  <2>4. m - 1 \in T
    BY <2>2, <2>3
  <2>5. QED
    BY <1>2, <1>3, <2>4
<1>5. \E n \in 0 .. columns :
        /\ \A c \in n .. columns - 1 : row[c] = Blank
        /\ n > 0 => row[n - 1] # Blank
  BY <1>3, <1>4
<1>6. QED
  BY <1>5 DEF Used

LEMMA LastRow ==
  ASSUME NEW rows \in Nat, NEW first \in 0 .. rows - 1, NEW wraps
  PROVE  \E r \in first .. rows - 1 :
           /\ \A q \in first + 1 .. r : wraps[q]
           /\ r + 1 \in 0 .. rows - 1 => ~wraps[r + 1]
<1> DEFINE T == {r \in first .. rows - 1 : r + 1 \in 0 .. rows - 1 => ~wraps[r + 1]}
<1>1. rows - 1 \in T
  OBVIOUS
<1>2. PICK m \in T : \A n \in T : m <= n
  <2>1. T \subseteq Nat
    OBVIOUS
  <2> HIDE DEF T
  <2>3. T # {}
    BY <1>1
  <2>2. QED
    BY <2>1, <2>3, Minimum
<1>3. m \in first .. rows - 1 /\ (m + 1 \in 0 .. rows - 1 => ~wraps[m + 1])
  OBVIOUS
<1>4. ASSUME NEW q \in first + 1 .. m, ~wraps[q] PROVE FALSE
  <2>1. q - 1 \in first .. rows - 1 /\ (q - 1) + 1 = q /\ q - 1 < m
    BY <1>3
  <2>2. q - 1 \in T
    BY <1>4, <2>1
  <2>3. QED
    BY <1>2, <1>3, <2>1, <2>2
<1>5. QED
  BY <1>3, <1>4

\* A line with cells from D.
LineOK(v, line, D) ==
  /\ line.first \in Rows(v) /\ line.last \in line.first .. v.rows - 1
  /\ line.width \in Nat /\ line.text \in [0 .. line.width - 1 -> D]

LEMMA LineIs ==
  ASSUME NEW C \in Contents, NEW v, Screen(v, C), NEW s \in Screens, NEW D,
         v.cell[s] \in [Rows(v) -> [Columns(v) -> D]], NEW first \in Rows(v)
  PROVE  LineOK(v, Line(v, s, first), D)
<1> DEFINE Ends(r) == /\ \A q \in first + 1 .. r : v.wraps[s][q]
                      /\ r + 1 \in Rows(v) => ~v.wraps[s][r + 1]
           last == CHOOSE r \in first .. v.rows - 1 : Ends(r)
           used == Used(v.cell[s][last], v.columns)
           width == (last - first) * v.columns + used
           Cell(k) == v.cell[s][first + k \div v.columns][k % v.columns]
           line == Line(v, s, first)
<1>1. v.rows \in Nat \ {0} /\ v.columns \in Nat \ {0}
  BY Bounds
<1>2. first \in 0 .. v.rows - 1 /\ first \in Nat
  BY DEF Rows
<1>3. last \in first .. v.rows - 1
  <2>1. PICK wraps : wraps = v.wraps[s]
    OBVIOUS
  <2>2. \E r \in first .. v.rows - 1 : Ends(r)
    BY <1>1, <1>2, <2>1, LastRow DEF Rows
  <2> HIDE DEF Ends
  <2>3. QED
    BY <2>2
<1>4. used \in 0 .. v.columns
  BY <1>1, UsedCells
<1>5. line = [first |-> first, last |-> last, width |-> width,
              text |-> [k \in 0 .. width - 1 |-> Cell(k)]]
  BY DEF Line
<1> HIDE DEF last, used, line
<1>6. last - first \in Nat /\ last - first <= v.rows - 1 - first
  BY <1>1, <1>2, <1>3
<1>7. width \in Nat /\ width <= (last - first) * v.columns + v.columns
  <2>1. PICK p : p = (last - first) * v.columns
    OBVIOUS
  <2>2. p \in Nat
    BY <1>1, <1>6, <2>1, Products
  <2>3. QED
    BY <1>1, <1>4, <2>1, <2>2
<1>8. ASSUME NEW k \in 0 .. width - 1
      PROVE  Cell(k) \in D
  <2> HIDE DEF width
  <2>1. PICK p : p = (last - first) * v.columns
    OBVIOUS
  <2>2. p \in Nat
    BY <1>1, <1>6, <2>1, Products
  <2>3. k \in Nat /\ k < p + v.columns
    BY <1>1, <1>7, <2>1, <2>2
  <2>4. k \div v.columns \in 0 .. last - first
    BY <1>1, <1>6, <2>1, <2>3, Division
  <2>5. PICK q, m : q = k \div v.columns /\ m = k % v.columns
    OBVIOUS
  <2>6. first + q \in Rows(v)
    BY <1>1, <1>2, <1>3, <2>4, <2>5 DEF Rows
  <2>7. m \in Columns(v)
    <3>1. k \in Int
      BY <2>3
    <3>2. k % v.columns \in 0 .. v.columns - 1
      BY <1>1, <3>1, Products
    <3>3. QED
      BY <2>5, <3>2 DEF Columns
  <2>8. v.cell[s][first + q][m] \in D
    BY <2>6, <2>7
  <2>9. QED
    BY <2>5, <2>8
<1> HIDE DEF width, Cell
<1>9. [k \in 0 .. width - 1 |-> Cell(k)] \in [0 .. width - 1 -> D]
  BY <1>8
<1>10. QED
  BY <1>3, <1>5, <1>7, <1>9 DEF LineOK, line
LEMMA Heights ==
  ASSUME NEW v, NEW line, NEW D, LineOK(v, line, D), NEW columns \in Nat \ {0}
  PROVE  /\ Height(line, columns) \in Nat \ {0}
         /\ line.width = 0 => Height(line, columns) = 1
<1>1. PICK w : w = line.width
  OBVIOUS
<1>2. w \in Nat
  BY <1>1 DEF LineOK
<1>3. PICK q : q = (w + columns - 1) \div columns
  OBVIOUS
<1>4. q \in Int
  <2>1. w + columns - 1 \in Int
    BY <1>2
  <2>2. QED
    BY <1>3, <2>1, Products
<1>5. w = 0 => q = 0
  <2>1. SUFFICES ASSUME w = 0 PROVE q = 0
    OBVIOUS
  <2>2. columns - 1 \in Nat /\ columns - 1 < 0 * columns + columns
    OBVIOUS
  <2>3. (columns - 1) \div columns \in 0 .. 0
    BY <2>2, Division
  <2>4. w + columns - 1 = columns - 1
    BY <2>1
  <2>5. QED
    BY <1>3, <2>3, <2>4
<1>6. Height(line, columns) = Most(1, q)
  BY <1>1, <1>3 DEF Height
<1>7. QED
  BY <1>1, <1>4, <1>5, <1>6 DEF Most

RowsOf(columns, D) == Seq([0 .. columns - 1 -> D])

LEMMA LaidRowsAre ==
  ASSUME NEW v, NEW line, NEW D, LineOK(v, line, D), Blank \in D,
         NEW columns \in Nat \ {0}
  PROVE  /\ LaidRows(line, columns) \in RowsOf(columns, D)
         /\ Len(LaidRows(line, columns)) = Height(line, columns)
<1> DEFINE Cell(i, c) == LET k == (i - 1) * columns + c
                         IN IF k < line.width THEN line.text[k] ELSE Blank
           Row(i) == [c \in 0 .. columns - 1 |-> Cell(i, c)]
<1>1. PICK h \in Nat : h = Height(line, columns)
  BY Heights
<1>2. ASSUME NEW i \in 1 .. h, NEW c \in 0 .. columns - 1 PROVE Cell(i, c) \in D
  <2>1. i - 1 \in Nat /\ c \in Nat
    OBVIOUS
  <2>2. (i - 1) * columns \in Nat
    BY <2>1, Products
  <2>3. PICK k \in Nat : k = (i - 1) * columns + c
    BY <2>1, <2>2
  <2>4. k < line.width => k \in 0 .. line.width - 1
    BY <2>3 DEF LineOK
  <2>5. k < line.width => line.text[k] \in D
    BY <2>4 DEF LineOK
  <2>6. QED
    BY <2>3, <2>5
<1> HIDE DEF Cell
<1>3. \A i \in 1 .. h : Row(i) \in [0 .. columns - 1 -> D]
  BY <1>2
<1>4. LaidRows(line, columns) = [i \in 1 .. h |-> Row(i)]
  BY <1>1 DEF LaidRows, Cell
<1> HIDE DEF Row
<1>5. [i \in 1 .. h |-> Row(i)] \in RowsOf(columns, D)
  BY <1>3 DEF RowsOf
<1>6. Len([i \in 1 .. h |-> Row(i)]) = h
  OBVIOUS
<1>7. QED
  BY <1>1, <1>4, <1>5, <1>6

\* A place, or none.
Place(cursor) == cursor = None \/ cursor \in Int \X Int

LEMMA Places ==
  ASSUME NEW a \in Int, NEW b \in Int
  PROVE  Place(<<a, b>>)
BY DEF Place

LEMMA PlaceMoved ==
  ASSUME NEW cursor, Place(cursor), NEW d \in Int
  PROVE  Place(IF cursor = None THEN None ELSE <<cursor[1] + d, cursor[2]>>)
<1>1. CASE cursor = None
  BY <1>1 DEF Place
<1>2. CASE cursor # None
  <2>1. cursor[1] \in Int /\ cursor[2] \in Int
    BY <1>2 DEF Place
  <2>2. cursor[1] + d \in Int
    BY <2>1
  <2>3. QED
    BY <1>2, <2>1, <2>2, Places
<1>3. QED
  BY <1>1, <1>2

LEMMA Leasts ==
  ASSUME NEW a \in Int, NEW b \in Int
  PROVE  Least(a, b) \in Int
BY DEF Least

LEMMA LaidCursorIs ==
  ASSUME NEW v, v.rows \in Nat, v.columns \in Nat \ {0}, Cursor(v),
         NEW line, NEW D, LineOK(v, line, D), NEW columns \in Nat \ {0},
         NEW start \in Int, NEW cursor, Place(cursor)
  PROVE  Place(LaidCursor(v, line, start, columns, cursor))
<1> DEFINE k == (v.row - line.first) * v.columns + v.column
           height == Height(line, columns)
           after == v.column - (line.width % v.columns)
                    + line.width - (height - 1) * columns
<1>1. v.row \in Int /\ v.column \in Int /\ line.first \in Int /\ line.width \in Int
  BY DEF Cursor, Rows, Columns, LineOK
<1>2. k \in Int
  <2>1. v.row - line.first \in Int /\ v.columns \in Int
    BY <1>1
  <2>2. (v.row - line.first) * v.columns \in Int
    BY <2>1, Products
  <2>3. QED
    BY <1>1, <2>2
<1>3. height \in Int
  BY Heights
<1> HIDE DEF height
<1>4. after \in Int
  <2>1. (height - 1) * columns \in Int
    <3>1. height - 1 \in Int /\ columns \in Int
      BY <1>3
    <3>2. QED
      BY <3>1, Products
  <2>2. line.width % v.columns \in Int
    <3>1. line.width % v.columns \in 0 .. v.columns - 1
      BY <1>1, Products
    <3>2. QED
      BY <3>1
  <2>3. QED
    BY <1>1, <2>1, <2>2
<1>5. LaidCursor(v, line, start, columns, cursor) =
        CASE v.row \notin line.first .. line.last -> cursor
          [] v.row \in line.first .. line.last /\ k < line.width ->
               <<start + k \div columns, k % columns>>
          [] OTHER -> <<start + height - 1, Least(after, columns - 1)>>
  BY DEF LaidCursor, height
<1> HIDE DEF k, after
<1>6. Place(<<start + k \div columns, k % columns>>)
  <2>1. k \div columns \in Int /\ k % columns \in 0 .. columns - 1
    BY <1>2, Products
  <2>2. start + k \div columns \in Int /\ k % columns \in Int
    BY <2>1
  <2>3. QED
    BY <2>2, Places
<1>7. Place(<<start + height - 1, Least(after, columns - 1)>>)
  <2>1. start + height - 1 \in Int
    BY <1>3
  <2>2. Least(after, columns - 1) \in Int
    BY <1>4, Leasts
  <2>3. QED
    BY <2>1, <2>2, Places
<1>8. CASE v.row \notin line.first .. line.last
  BY <1>5, <1>8
<1>9. CASE v.row \in line.first .. line.last /\ k < line.width
  BY <1>5, <1>6, <1>9
<1>10. CASE v.row \in line.first .. line.last /\ ~(k < line.width)
  BY <1>5, <1>7, <1>10
<1>11. QED
  BY <1>8, <1>9, <1>10
-----------------------------------------------------------------------------
(* Resizing: the loop.                                                     *)

LoopFields == {"laid", "wraps", "spare", "cursor", "left", "full"}

\* What is laid is a part of the new screen, and as long as there is room for
\* more the spare rows are among it.
LoopOK(v, rows, columns, D, l) ==
  /\ DOMAIN l = LoopFields
  /\ l.laid \in RowsOf(columns, D) /\ l.wraps \in [0 .. rows - 1 -> BOOLEAN]
  /\ Len(l.laid) <= rows
  /\ l.spare \in Nat /\ (~l.full => l.spare <= Len(l.laid))
  /\ Place(l.cursor)
  /\ l.left \in -1 .. v.rows - 1 /\ l.full \in BOOLEAN

LEMMA Firsts ==
  ASSUME NEW S, NEW q \in Seq(S), NEW n \in Nat, n <= Len(q)
  PROVE  SubSeq(q, 1, n) \in Seq(S) /\ Len(SubSeq(q, 1, n)) = n
<1>1. \A i \in 1 .. n : q[i] \in S
  OBVIOUS
<1>2. SubSeq(q, 1, n) = [i \in 1 .. n |-> q[i]]
  OBVIOUS
<1>3. [i \in 1 .. n |-> q[i]] \in Seq(S) /\ Len([i \in 1 .. n |-> q[i]]) = n
  BY <1>1
<1>4. QED
  BY <1>2, <1>3

LEMMA Joined ==
  ASSUME NEW S, NEW p \in Seq(S), NEW q \in Seq(S)
  PROVE  p \o q \in Seq(S) /\ Len(p \o q) = Len(p) + Len(q)
OBVIOUS

LEMMA LayKeeps ==
  ASSUME NEW v, v.rows \in Nat \ {0}, v.columns \in Nat \ {0}, Cursor(v),
         NEW rows \in Nat \ {0}, NEW columns \in Nat \ {0}, NEW s,
         NEW D, Blank \in D, NEW line, LineOK(v, line, D),
         NEW l, LoopOK(v, rows, columns, D, l), ~l.full
  PROVE  LoopOK(v, rows, columns, D, Lay(v, s, rows, columns, l, line))
<1> DEFINE height == Height(line, columns)
           spare == IF l.spare = Len(l.laid) /\ line.width = 0 THEN l.spare + 1
                                                               ELSE l.spare
           short == height + Len(l.laid) - rows
           stays == v.on = s => l.cursor = None \/ l.cursor[1] + short < rows
           drop == IF short > 0 /\ stays THEN Least(short, spare) ELSE 0
           kept == Len(l.laid) - drop
           start == rows - kept - height
           cursor == IF l.cursor = None THEN None
                     ELSE <<l.cursor[1] + drop, l.cursor[2]>>
           m == [l EXCEPT !.laid = SubSeq(@, 1, kept),
                          !.wraps = [r \in 0 .. rows - 1 |->
                                       IF r < drop THEN @[r] ELSE @[r - drop]],
                          !.spare = spare - drop]
           full == [m EXCEPT !.full = TRUE, !.left = line.first,
                      !.cursor = IF v.row \in line.first .. line.last - 1
                                 THEN <<0, Least(v.column, columns - 1)>> ELSE cursor]
           more == [m EXCEPT !.laid = LaidRows(line, columns) \o @,
                      !.wraps = [r \in 0 .. rows - 1 |->
                                   IF r \in start .. start + height - 1
                                   THEN r > start ELSE @[r]],
                      !.cursor = LaidCursor(v, line, start, columns, cursor)]
           w == Lay(v, s, rows, columns, l, line)
<1>1. w = IF start < 0 THEN full ELSE more
  BY DEF Lay
<1>2. PICK h \in Nat \ {0} : h = height
  BY Heights
<1>3. line.width = 0 => h = 1
  BY <1>2, Heights
<1> HIDE DEF height
<1>4. PICK len \in Nat : len = Len(l.laid) /\ len <= rows
  BY DEF LoopOK, RowsOf
<1>5. l.spare \in Nat /\ l.spare <= len
  BY <1>4 DEF LoopOK
<1>6. PICK sp, sh, dr, st : sp = spare /\ sh = short /\ dr = drop /\ st = (stays = TRUE)
  OBVIOUS
<1>7. /\ sp \in Nat /\ dr \in Nat /\ dr <= len /\ dr <= sp
      /\ rows - (len - dr) - h \in Int
      /\ rows - (len - dr) - h >= 0 => sp - dr <= (len - dr) + h
  <2> DEFINE empty == line.width = 0
  <2>1. sp = IF l.spare = len /\ empty THEN l.spare + 1 ELSE l.spare
    BY <1>4, <1>6
  <2>2. sh = h + len - rows
    BY <1>2, <1>4, <1>6
  <2>3. dr = IF sh > 0 /\ st THEN Least(sh, sp) ELSE 0
    <3> HIDE DEF spare, short, stays
    <3>1. QED
      BY <1>6
  <2>4. empty \in BOOLEAN /\ st \in BOOLEAN /\ (empty => h = 1)
    BY <1>3, <1>6
  <2> HIDE DEF empty
  <2>5. PICK b \in Nat : b = l.spare /\ b <= len
    BY <1>5
  <2>6. sp = b \/ (sp = b + 1 /\ b = len /\ h = 1)
    BY <2>1, <2>4, <2>5
  <2>7. dr = 0 \/ (sh > 0 /\ dr = Least(sh, sp))
    BY <2>3, <2>4
  <2>8. sh \in Int
    BY <1>4, <2>2
  <2>9. dr = 0 \/ (sh > 0 /\ dr = sh /\ dr < sp) \/ (sh > 0 /\ dr = sp /\ dr <= sh)
    BY <2>5, <2>6, <2>7, <2>8 DEF Least
  <2>10. sp \in Nat
    BY <2>5, <2>6
  <2>11. dr \in Nat /\ dr <= sp
    BY <2>8, <2>9, <2>10
  <2>12. dr <= len
    BY <1>4, <2>2, <2>5, <2>6, <2>9
  <2>13. QED
    BY <1>4, <2>2, <2>5, <2>6, <2>10, <2>11, <2>12
<1>8. PICK k \in Nat : k = kept /\ k = len - dr
  <2> HIDE DEF drop
  <2>1. QED
    BY <1>4, <1>6, <1>7
<1>9. PICK o \in Int : o = start /\ o = rows - (len - dr) - h
  <2> HIDE DEF kept
  <2>1. QED
    BY <1>2, <1>7, <1>8
<1>10. Place(cursor)
  <2>1. Place(l.cursor) /\ dr \in Int
    BY <1>7 DEF LoopOK
  <2> HIDE DEF drop
  <2>2. QED
    BY <1>6, <2>1, PlaceMoved
<1>11. SubSeq(l.laid, 1, k) \in RowsOf(columns, D) /\ Len(SubSeq(l.laid, 1, k)) = k
  <2>1. l.laid \in Seq([0 .. columns - 1 -> D]) /\ k <= Len(l.laid)
    BY <1>4, <1>7, <1>8 DEF LoopOK, RowsOf
  <2>2. QED
    BY <2>1, Firsts DEF RowsOf
<1> DEFINE moved == [r \in 0 .. rows - 1 |->
                      IF r < dr THEN l.wraps[r] ELSE l.wraps[r - dr]]
<1>12. moved \in [0 .. rows - 1 -> BOOLEAN]
  <2>1. l.wraps \in [0 .. rows - 1 -> BOOLEAN]
    BY DEF LoopOK
  <2>2. ASSUME NEW r \in 0 .. rows - 1 PROVE moved[r] \in BOOLEAN
    <3>1. CASE r < dr
      BY <2>1, <3>1
    <3>2. CASE ~(r < dr)
      <4>1. r - dr \in 0 .. rows - 1
        BY <1>7, <3>2
      <4>2. moved[r] = l.wraps[r - dr]
        BY <3>2
      <4>3. QED
        BY <2>1, <4>1, <4>2
    <3>3. QED
      BY <3>1, <3>2
  <2>3. QED
    BY <2>2
<1>13. /\ DOMAIN m = LoopFields /\ m.laid = SubSeq(l.laid, 1, k)
       /\ m.wraps = moved /\ m.spare = sp - dr
       /\ m.left = l.left /\ m.full = l.full
  <2>1. DOMAIN l = LoopFields
    BY DEF LoopOK
  <2>2. moved = [r \in 0 .. rows - 1 |->
                  IF r < drop THEN l.wraps[r] ELSE l.wraps[r - drop]]
    BY <1>6
  <2> HIDE DEF kept, spare, drop, moved
  <2>3. QED
    BY <1>6, <1>8, <2>1, <2>2 DEF LoopFields
<1> HIDE DEF moved
<1> HIDE DEF m, start
<1>14. sp - dr \in Nat
  BY <1>7
<1>15. CASE start < 0
  <2> DEFINE c == IF v.row \in line.first .. line.last - 1
                  THEN <<0, Least(v.column, columns - 1)>> ELSE cursor
  <2>1. w = full
    BY <1>1, <1>15
  <2>2. Place(c)
    <3>1. v.column \in Int /\ columns - 1 \in Int /\ 0 \in Int
      BY DEF Cursor, Columns
    <3>2. Place(<<0, Least(v.column, columns - 1)>>)
      BY <3>1, Leasts, Places
    <3> HIDE DEF cursor
    <3>3. QED
      BY <1>10, <3>2
  <2> HIDE DEF c
  <2>3. /\ DOMAIN full = LoopFields /\ full.laid = m.laid /\ full.wraps = m.wraps
        /\ full.spare = m.spare /\ full.left = line.first /\ full.full = TRUE
        /\ full.cursor = c
    BY <1>13 DEF LoopFields, c
  <2> HIDE DEF full, w
  <2>4. Len(full.laid) <= rows
    BY <1>4, <1>7, <1>8, <1>11, <1>13, <2>3
  <2>5. line.first \in -1 .. v.rows - 1
    BY DEF LineOK, Rows
  <2>6. full.laid \in RowsOf(columns, D) /\ full.wraps \in [0 .. rows - 1 -> BOOLEAN]
    BY <1>11, <1>12, <1>13, <2>3
  <2>7. full.spare \in Nat /\ full.full /\ full.full \in BOOLEAN
    BY <1>13, <1>14, <2>3
  <2>8. Place(full.cursor) /\ full.left \in -1 .. v.rows - 1
    BY <2>2, <2>3, <2>5
  <2>9. LoopOK(v, rows, columns, D, full)
    BY <2>3, <2>4, <2>6, <2>7, <2>8 DEF LoopOK
  <2>10. QED
    BY <2>1, <2>9 DEF w
<1>16. CASE ~(start < 0)
  <2> DEFINE marks == [r \in 0 .. rows - 1 |->
                         IF r \in start .. start + height - 1
                         THEN r > start ELSE m.wraps[r]]
             lines == LaidRows(line, columns)
             c == LaidCursor(v, line, start, columns, cursor)
  <2>1. w = more
    BY <1>1, <1>16
  <2>2. Place(c)
    <3> HIDE DEF cursor
    <3>1. QED
      BY <1>9, <1>10, LaidCursorIs
  <2>3. lines \in RowsOf(columns, D) /\ Len(lines) = h
    BY <1>2, LaidRowsAre DEF height
  <2>4. marks \in [0 .. rows - 1 -> BOOLEAN]
    <3>1. \A r \in 0 .. rows - 1 : m.wraps[r] \in BOOLEAN
      BY <1>12, <1>13
    <3>2. \A r \in 0 .. rows - 1 : (r > start) \in BOOLEAN
      OBVIOUS
    <3>3. QED
      BY <3>1, <3>2
  <2> HIDE DEF c, lines, marks
  <2>5. /\ DOMAIN more = LoopFields /\ more.laid = lines \o m.laid
        /\ more.wraps = marks
        /\ more.spare = m.spare /\ more.left = m.left /\ more.full = m.full
        /\ more.cursor = c
    BY <1>13 DEF LoopFields, c, lines, marks
  <2> HIDE DEF more, w
  <2>6. more.laid \in RowsOf(columns, D) /\ Len(more.laid) = h + k
    <3>1. lines \in Seq([0 .. columns - 1 -> D]) /\ m.laid \in Seq([0 .. columns - 1 -> D])
      BY <1>11, <1>13, <2>3 DEF RowsOf
    <3>2. lines \o m.laid \in Seq([0 .. columns - 1 -> D])
      BY <3>1, Joined
    <3>3. Len(lines \o m.laid) = Len(lines) + Len(m.laid)
      BY <3>1, Joined
    <3>4. Len(m.laid) = k
      BY <1>11, <1>13
    <3>5. QED
      BY <2>3, <2>5, <3>2, <3>3, <3>4 DEF RowsOf
  <2>7. more.wraps \in [0 .. rows - 1 -> BOOLEAN]
    BY <2>4, <2>5
  <2>8. h + k <= rows /\ sp - dr <= h + k
    BY <1>7, <1>8, <1>9, <1>16
  <2>9. more.left \in -1 .. v.rows - 1 /\ more.full \in BOOLEAN
    BY <1>13, <2>5 DEF LoopOK
  <2>10. more.spare \in Nat /\ more.spare <= h + k /\ Place(more.cursor)
    BY <1>13, <1>14, <2>2, <2>5, <2>8
  <2>11. Len(more.laid) <= rows /\ more.spare <= Len(more.laid)
    BY <2>6, <2>8, <2>10
  <2>12. LoopOK(v, rows, columns, D, more)
    BY <2>5, <2>6, <2>7, <2>9, <2>10, <2>11 DEF LoopOK
  <2>13. QED
    BY <2>1, <2>12 DEF w
<1>17. QED
  BY <1>15, <1>16

LEMMA TurnKeeps ==
  ASSUME NEW C \in Contents, NEW v, Screen(v, C), Cursor(v),
         NEW rows \in Nat \ {0}, NEW columns \in Nat \ {0}, NEW s \in Screens,
         NEW D, Blank \in D, v.cell[s] \in [Rows(v) -> [Columns(v) -> D]],
         NEW l, LoopOK(v, rows, columns, D, l), NEW r
  PROVE  LoopOK(v, rows, columns, D, Turn(v, s, rows, columns, l, r))
<1>1. CASE l.full \/ r \notin Heads(v, s)
  BY <1>1 DEF Turn
<1>2. CASE ~(l.full \/ r \notin Heads(v, s))
  <2>1. PICK line : line = Line(v, s, r)
    OBVIOUS
  <2>2. r \in Rows(v)
    BY <1>2 DEF Heads
  <2>3. LineOK(v, line, D)
    BY <2>1, <2>2, LineIs
  <2>4. v.rows \in Nat \ {0} /\ v.columns \in Nat \ {0}
    BY Bounds
  <2>5. LoopOK(v, rows, columns, D, Lay(v, s, rows, columns, l, line))
    BY <1>2, <2>3, <2>4, LayKeeps
  <2>6. QED
    BY <1>2, <2>1, <2>5 DEF Turn
<1>3. QED
  BY <1>1, <1>2
\* The turns of a loop exist, and each leaves what is laid as it must be.
LaysOf(f, v, s, rows, columns, n) ==
  f = [k \in 0 .. n |-> IF k = 0 THEN NothingLaid(rows)
                        ELSE Turn(v, s, rows, columns, f[k - 1], v.rows - k)]

LEMMA SomeLays ==
  ASSUME NEW v, NEW s, NEW rows, NEW columns
  PROVE  \A n \in Nat : \E f : LaysOf(f, v, s, rows, columns, n)
<1> DEFINE T == {n \in Nat : \E f : LaysOf(f, v, s, rows, columns, n)}
           Next1(l, k) == Turn(v, s, rows, columns, l, v.rows - k)
<1>1. 0 \in T
  <2> DEFINE f == [k \in 0 .. 0 |-> NothingLaid(rows)]
  <2>1. f = [k \in 0 .. 0 |-> IF k = 0 THEN NothingLaid(rows) ELSE Next1(f[k - 1], k)]
    OBVIOUS
  <2>2. LaysOf(f, v, s, rows, columns, 0)
    BY <2>1 DEF LaysOf
  <2>3. QED
    BY <2>2
<1>2. ASSUME NEW n \in Nat, n \in T PROVE n + 1 \in T
  <2>1. PICK f : LaysOf(f, v, s, rows, columns, n)
    BY <1>2
  <2> DEFINE g == [k \in 0 .. n + 1 |-> IF k <= n THEN f[k] ELSE Next1(f[n], n + 1)]
  <2>2. /\ DOMAIN f = 0 .. n
        /\ \A k \in 0 .. n : f[k] = IF k = 0 THEN NothingLaid(rows) ELSE Next1(f[k - 1], k)
    BY <2>1 DEF LaysOf
  <2> HIDE DEF Next1
  <2>3. \A k \in 0 .. n : g[k] = f[k]
    OBVIOUS
  <2>4. g[n + 1] = Next1(f[n], n + 1)
    OBVIOUS
  <2>5. ASSUME NEW k \in 0 .. n + 1
        PROVE  g[k] = IF k = 0 THEN NothingLaid(rows) ELSE Next1(g[k - 1], k)
    <3>1. CASE k = n + 1
      BY <2>3, <2>4, <3>1
    <3>2. CASE k # n + 1
      <4>1. k \in 0 .. n /\ (k # 0 => k - 1 \in 0 .. n)
        BY <3>2
      <4> HIDE DEF g
      <4>2. g[k] = f[k] /\ (k # 0 => g[k - 1] = f[k - 1])
        BY <4>1, <2>3
      <4>3. QED
        BY <4>1, <4>2, <2>2
    <3>3. QED
      BY <3>1, <3>2
  <2>6. g = [k \in 0 .. n + 1 |-> IF k = 0 THEN NothingLaid(rows) ELSE Next1(g[k - 1], k)]
    BY <2>5
  <2>7. LaysOf(g, v, s, rows, columns, n + 1)
    <3> HIDE DEF g
    <3>1. QED
      BY <2>6 DEF LaysOf, Next1
  <2>8. QED
    BY <2>7
<1>3. T \subseteq Nat
  OBVIOUS
<1> HIDE DEF T
<1>4. T = Nat
  <2>1. \A m \in T : m + 1 \in T
    BY <1>2, <1>3
  <2>2. QED
    BY <1>1, <1>3, <2>1, Induction
<1>5. QED
  BY <1>4 DEF T

LEMMA NothingOK ==
  ASSUME NEW v, v.rows \in Nat, NEW rows \in Nat, NEW columns, NEW D
  PROVE  LoopOK(v, rows, columns, D, NothingLaid(rows))
<1>1. <<>> \in RowsOf(columns, D) /\ Len(<<>>) = 0
  BY DEF RowsOf
<1>2. Place(None)
  BY DEF Place
<1>3. DOMAIN NothingLaid(rows) = LoopFields
  BY DEF NothingLaid, LoopFields
<1> DEFINE l == NothingLaid(rows)
           marks == [r \in 0 .. rows - 1 |-> FALSE]
<1>4. /\ l.laid = <<>> /\ l.wraps = marks /\ l.spare = 0
      /\ l.cursor = None /\ l.left = -1 /\ l.full = FALSE
  BY DEF NothingLaid
<1> HIDE DEF l
<1>5. /\ DOMAIN l = LoopFields /\ l.laid = <<>> /\ l.wraps = marks /\ l.spare = 0
      /\ l.cursor = None /\ l.left = -1 /\ l.full = FALSE
  BY <1>3, <1>4 DEF l
<1>6. l.laid \in RowsOf(columns, D) /\ l.wraps \in [0 .. rows - 1 -> BOOLEAN]
  BY <1>1, <1>5
<1>7. Len(l.laid) = 0
  BY <1>1, <1>5
<1>8. Len(l.laid) <= rows /\ l.spare <= Len(l.laid)
  BY <1>5, <1>7
<1>9. l.left \in -1 .. v.rows - 1 /\ l.spare \in Nat /\ l.full \in BOOLEAN
  <2>1. l.left = -1
    BY <1>5
  <2>2. l.spare = 0
    BY <1>5
  <2>3. l.full = FALSE
    BY <1>5
  <2>4. -1 \in -1 .. v.rows - 1
    OBVIOUS
  <2>5. l.spare \in Nat
    BY <2>2
  <2>6. l.full \in BOOLEAN
    BY <2>3
  <2>7. QED
    BY <2>1, <2>4, <2>5, <2>6
<1>10. Place(l.cursor)
  BY <1>2, <1>5
<1>11. LoopOK(v, rows, columns, D, l)
  BY <1>5, <1>6, <1>8, <1>9, <1>10 DEF LoopOK
<1>12. QED
  BY <1>11 DEF l

LEMMA LaysOK ==
  ASSUME NEW C \in Contents, NEW v, Screen(v, C), Cursor(v),
         NEW rows \in Nat \ {0}, NEW columns \in Nat \ {0}, NEW s \in Screens,
         NEW D, Blank \in D, v.cell[s] \in [Rows(v) -> [Columns(v) -> D]]
  PROVE  LoopOK(v, rows, columns, D, Lays(v, s, rows, columns)[v.rows])
<1>1. v.rows \in Nat
  BY Bounds
<1>2. PICK f : LaysOf(f, v, s, rows, columns, v.rows)
  BY <1>1, SomeLays
<1> DEFINE g == Lays(v, s, rows, columns)
<1>3. LaysOf(g, v, s, rows, columns, v.rows)
  <2>1. g = CHOOSE h : LaysOf(h, v, s, rows, columns, v.rows)
    BY DEF Lays, LaysOf
  <2>2. QED
    BY <1>2, <2>1
<1> HIDE DEF g
<1>4. \A k \in 0 .. v.rows : g[k] = IF k = 0 THEN NothingLaid(rows)
                                    ELSE Turn(v, s, rows, columns, g[k - 1], v.rows - k)
  BY <1>3 DEF LaysOf
<1> DEFINE T == {n \in Nat : n <= v.rows => LoopOK(v, rows, columns, D, g[n])}
<1>5. 0 \in T
  <2>1. g[0] = NothingLaid(rows)
    BY <1>1, <1>4
  <2>2. LoopOK(v, rows, columns, D, NothingLaid(rows))
    BY <1>1, NothingOK
  <2>3. QED
    BY <2>1, <2>2
<1>6. ASSUME NEW n \in Nat, n \in T PROVE n + 1 \in T
  <2>1. CASE n + 1 <= v.rows
    <3>1. LoopOK(v, rows, columns, D, g[n])
      BY <1>1, <1>6, <2>1
    <3>2. n + 1 \in 0 .. v.rows /\ (n + 1) - 1 = n
      BY <1>1, <2>1
    <3>3. g[n + 1] = Turn(v, s, rows, columns, g[n], v.rows - (n + 1))
      BY <1>4, <3>2
    <3>4. PICK l, r : l = g[n] /\ r = v.rows - (n + 1)
      OBVIOUS
    <3>5. LoopOK(v, rows, columns, D, Turn(v, s, rows, columns, l, r))
      BY <3>1, <3>4, TurnKeeps
    <3>6. LoopOK(v, rows, columns, D, g[n + 1])
      BY <3>3, <3>4, <3>5
    <3>7. QED
      BY <3>6
  <2>2. CASE ~(n + 1 <= v.rows)
    BY <2>2
  <2>3. QED
    BY <2>1, <2>2
<1>7. T \subseteq Nat
  OBVIOUS
<1> HIDE DEF T
<1>8. T = Nat
  <2>1. \A m \in T : m + 1 \in T
    BY <1>6, <1>7
  <2>2. QED
    BY <1>5, <1>7, <2>1, Induction
<1>9. v.rows \in T
  BY <1>1, <1>8
<1>10. QED
  BY <1>1, <1>9 DEF T, g

\* What is laid in the end: the cursor has a place, or none.
LaidOK(v, rows, columns, D, l) ==
  /\ l.laid \in RowsOf(columns, D) /\ l.wraps \in [0 .. rows - 1 -> BOOLEAN]
  /\ Len(l.laid) <= rows
  /\ Place(l.cursor) /\ l.left \in -1 .. v.rows - 1

LEMMA LaidIs ==
  ASSUME NEW C \in Contents, NEW v, Screen(v, C), Cursor(v),
         NEW rows \in Nat \ {0}, NEW columns \in Nat \ {0}, NEW s \in Screens,
         NEW D, Blank \in D, v.cell[s] \in [Rows(v) -> [Columns(v) -> D]]
  PROVE  LaidOK(v, rows, columns, D, Laid(v, s, rows, columns))
<1>1. PICK l : l = Lays(v, s, rows, columns)[v.rows]
  OBVIOUS
<1>2. LoopOK(v, rows, columns, D, l)
  BY <1>1, LaysOK
<1>3. Laid(v, s, rows, columns) = CursorLeft(v, columns, l)
  BY <1>1 DEF Laid
<1>4. CASE v.row <= l.left
  <2>1. PICK c : c = <<0, Least(v.column, columns - 1)>>
    OBVIOUS
  <2>2. Place(c)
    <3>1. v.column \in Int /\ columns - 1 \in Int /\ 0 \in Int
      BY DEF Cursor, Columns
    <3>2. QED
      BY <2>1, <3>1, Leasts, Places
  <2>3. PICK w : w = [l EXCEPT !.cursor = c]
    OBVIOUS
  <2>4. /\ w.laid = l.laid /\ w.wraps = l.wraps /\ w.left = l.left /\ w.cursor = c
    BY <1>2, <2>3 DEF LoopOK, LoopFields
  <2>5. CursorLeft(v, columns, l) = w
    BY <1>4, <2>1, <2>3 DEF CursorLeft
  <2>6. LaidOK(v, rows, columns, D, w)
    BY <1>2, <2>2, <2>4 DEF LoopOK, LaidOK
  <2>7. QED
    BY <1>3, <2>5, <2>6
<1>5. CASE ~(v.row <= l.left)
  <2>1. CursorLeft(v, columns, l) = l
    BY <1>5 DEF CursorLeft
  <2>2. QED
    BY <1>2, <1>3, <2>1 DEF LoopOK, LaidOK
<1>6. QED
  BY <1>4, <1>5
-----------------------------------------------------------------------------
(* Resizing: the new screens.                                              *)

LEMMA PoppedIs ==
  ASSUME NEW C \in Contents, NEW line \in HistoryLines(C), NEW v, NEW columns, Blank \in C
  PROVE  Popped(v, line, columns) \in [0 .. columns - 1 -> C]
<1>1. PICK size \in Sizes : line \in [0 .. size[2] - 1 -> C]
  BY DEF HistoryLines
<1>2. \A c \in DOMAIN line : line[c] \in C
  BY <1>1
<1>3. QED
  BY <1>2 DEF Popped

\* The rows of a sequence, as a screen has them.
LEMMA Upwards ==
  ASSUME NEW S, NEW q \in Seq(S), NEW n \in Nat, Len(q) = n
  PROVE  [r \in 0 .. Len(q) - 1 |-> q[r + 1]] \in [0 .. n - 1 -> S]
<1>1. \A r \in 0 .. n - 1 : r + 1 \in 1 .. Len(q)
  OBVIOUS
<1>2. \A r \in 0 .. n - 1 : q[r + 1] \in S
  BY <1>1
<1>3. QED
  BY <1>2

LEMMA ThreeParts ==
  ASSUME NEW S, NEW p \in Seq(S), NEW q \in Seq(S), NEW r \in Seq(S)
  PROVE  p \o q \o r \in Seq(S) /\ Len(p \o q \o r) = Len(p) + Len(q) + Len(r)
<1>1. PICK pq : pq = p \o q
  OBVIOUS
<1>2. pq \in Seq(S) /\ Len(pq) = Len(p) + Len(q)
  BY <1>1, Joined
<1>3. pq \o r \in Seq(S) /\ Len(pq \o r) = Len(pq) + Len(r)
  BY <1>2, Joined
<1>4. QED
  BY <1>1, <1>2, <1>3

LEMMA Listed ==
  ASSUME NEW S, NEW n \in Nat, NEW f \in [1 .. n -> S]
  PROVE  f \in Seq(S) /\ Len(f) = n
OBVIOUS

\* A new screen: f.history is the new history if it is the main one.
FilledOK(f, rows, columns, D, C, s) ==
  /\ f.cell \in [0 .. rows - 1 -> [0 .. columns - 1 -> D]]
  /\ f.wraps \in [0 .. rows - 1 -> BOOLEAN]
  /\ Place(f.cursor)
  /\ f.history \in Seq(HistoryLines(C)) /\ Len(f.history) <= HistoryLimit

LEMMA FilledWithIs ==
  ASSUME NEW C \in Contents, NEW D, Blank \in D, Blank \in C, NEW s, s = "main" => D = C,
         NEW v, NEW rows \in Nat \ {0}, NEW columns \in Nat \ {0},
         NEW l, LaidOK(v, rows, columns, D, l),
         NEW history \in Seq(HistoryLines(C)), Len(history) <= HistoryLimit,
         HistoryLimit \in Nat, NEW room, room = rows - Len(l.laid)
  PROVE  LET f == FilledWith(v, s, columns, l, history, room)
         IN /\ FilledOK(f, rows, columns, D, C, s)
            /\ l.cursor # None => f.cursor # None
<1> DEFINE pops == IF s = "main" THEN Least(room, Len(history)) ELSE 0
           rest == room - pops
           back == [i \in 1 .. pops |->
                     Popped(v, history[Len(history) - pops + i], columns)]
           blanks == [i \in 1 .. rest |-> BlankLine(columns)]
           cells == back \o l.laid \o blanks
           R == [0 .. columns - 1 -> D]
           f == FilledWith(v, s, columns, l, history, room)
           cell == [r \in 0 .. Len(cells) - 1 |-> cells[r + 1]]
           marks == [r \in 0 .. Len(cells) - 1 |->
                       r + rest < Len(cells) /\ l.wraps[r + rest]]
           cursor == IF l.cursor = None THEN None ELSE <<l.cursor[1] - rest, l.cursor[2]>>
           left == SubSeq(history, 1, Len(history) - pops)
<1>1. f = [cell |-> cell, wraps |-> marks, cursor |-> cursor, history |-> left]
  BY DEF FilledWith
<1>2. PICK n \in Nat : n = Len(l.laid) /\ n <= rows
  BY DEF LaidOK, RowsOf
<1>3. PICK h \in Nat : h = Len(history) /\ h <= HistoryLimit
  OBVIOUS
<1>4. room \in Nat /\ room + n = rows
  BY <1>2
<1>5. PICK p \in Nat : p = pops /\ p <= room /\ p <= h /\ (p > 0 => s = "main")
  BY <1>3, <1>4 DEF Least
<1> HIDE DEF pops
<1>6. PICK t \in Nat : t = rest /\ p + n + t = rows
  <2>1. rest = room - p
    BY <1>5
  <2>2. room - p \in Nat /\ p + n + (room - p) = rows
    <3>1. PICK m \in Nat : m = room
      BY <1>4
    <3>2. m + n = rows /\ p <= m
      BY <1>4, <1>5, <3>1
    <3>3. m - p \in Nat /\ p + n + (m - p) = rows
      BY <3>2
    <3>4. QED
      BY <3>1, <3>3
  <2> HIDE DEF rest
  <2>3. QED
    BY <2>1, <2>2
<1> HIDE DEF rest
<1>7. back \in Seq(R) /\ Len(back) = p
  <2>1. ASSUME NEW i \in 1 .. p
        PROVE  Popped(v, history[Len(history) - p + i], columns) \in R
    <3>1. s = "main" /\ D = C
      BY <1>5
    <3>2. Len(history) - p + i \in 1 .. Len(history)
      BY <1>3, <1>5
    <3>3. history[Len(history) - p + i] \in HistoryLines(C)
      BY <3>2
    <3>4. PICK line \in HistoryLines(C) : line = history[Len(history) - p + i]
      BY <3>3
    <3>5. Popped(v, line, columns) \in [0 .. columns - 1 -> C]
      BY PoppedIs
    <3>6. QED
      BY <3>1, <3>4, <3>5
  <2>2. back = [i \in 1 .. p |-> Popped(v, history[Len(history) - p + i], columns)]
    BY <1>5
  <2> HIDE DEF R, back
  <2>3. DOMAIN back = 1 .. p /\ \A i \in 1 .. p : back[i] \in R
    BY <2>1, <2>2
  <2>4. back = [i \in 1 .. p |-> back[i]]
    BY <2>2
  <2>5. back \in Seq(R)
    <3>1. PICK b : b = back
      OBVIOUS
    <3>2. b = [i \in 1 .. p |-> b[i]] /\ \A i \in 1 .. p : b[i] \in R
      BY <2>3, <2>4, <3>1
    <3>3. b \in [1 .. p -> R]
      BY <3>2
    <3>4. b \in Seq(R)
      BY <3>3, Listed
    <3>5. QED
      BY <3>1, <3>4
  <2>6. Len(back) = p
    BY <2>3, <2>5
  <2>7. QED
    BY <2>5, <2>6
<1>8. blanks \in Seq(R) /\ Len(blanks) = t
  <2>1. BlankLine(columns) \in R
    BY DEF BlankLine
  <2>2. blanks = [i \in 1 .. t |-> BlankLine(columns)]
    BY <1>6
  <2> HIDE DEF R, blanks
  <2>3. DOMAIN blanks = 1 .. t /\ \A i \in 1 .. t : blanks[i] \in R
    BY <2>1, <2>2
  <2>4. blanks = [i \in 1 .. t |-> blanks[i]]
    BY <2>2
  <2>5. blanks \in Seq(R)
    BY <2>3, <2>4
  <2>6. Len(blanks) = t
    BY <2>3, <2>5
  <2>7. QED
    BY <2>5, <2>6
<1>11. l.laid \in Seq(R) /\ l.wraps \in [0 .. rows - 1 -> BOOLEAN]
  BY DEF LaidOK, RowsOf
<1> HIDE DEF back, blanks, R
<1>12. cells \in Seq(R) /\ Len(cells) = rows
  <2>1. cells \in Seq(R) /\ Len(cells) = Len(back) + Len(l.laid) + Len(blanks)
    <3>1. PICK x, y, z : x = back /\ y = l.laid /\ z = blanks
      OBVIOUS
    <3>2. x \in Seq(R) /\ y \in Seq(R) /\ z \in Seq(R)
      BY <1>7, <1>8, <1>11, <3>1
    <3>3. x \o y \o z \in Seq(R) /\ Len(x \o y \o z) = Len(x) + Len(y) + Len(z)
      BY <3>2, ThreeParts
    <3>4. QED
      BY <3>1, <3>3
  <2> HIDE DEF cells
  <2>2. QED
    BY <1>2, <1>6, <1>7, <1>8, <2>1
<1> HIDE DEF cells
<1>14. cell \in [0 .. rows - 1 -> R]
  BY <1>12, Upwards
<1>15. marks \in [0 .. rows - 1 -> BOOLEAN]
  <2>1. ASSUME NEW r \in 0 .. rows - 1
        PROVE  (r + t < rows /\ l.wraps[r + t]) \in BOOLEAN
    OBVIOUS
  <2>2. marks = [r \in 0 .. rows - 1 |-> r + t < rows /\ l.wraps[r + t]]
    BY <1>6, <1>12
  <2> HIDE DEF marks
  <2>3. QED
    BY <2>1, <2>2
<1>16. Place(cursor) /\ (l.cursor # None => cursor # None)
  <2>1. CASE l.cursor = None
    BY <2>1 DEF Place
  <2>2. CASE l.cursor # None
    <3>1. l.cursor[1] \in Int /\ l.cursor[2] \in Int
      BY <2>2 DEF LaidOK, Place
    <3>2. l.cursor[1] - rest \in Int
      BY <1>6, <3>1
    <3>3. cursor = <<l.cursor[1] - rest, l.cursor[2]>>
      BY <2>2
    <3>4. cursor # None
      BY <3>3 DEF None
    <3>5. QED
      BY <3>1, <3>2, <3>3, <3>4, Places
  <2>3. QED
    BY <2>1, <2>2
<1>17. left \in Seq(HistoryLines(C)) /\ Len(left) <= HistoryLimit
  <2>1. PICK k \in Nat : k = Len(history) - pops /\ k <= Len(history) /\ k <= HistoryLimit
    <3>1. h - p \in Nat /\ h - p <= h /\ h - p <= HistoryLimit
      BY <1>3, <1>5
    <3>2. h - p = Len(history) - pops
      BY <1>3, <1>5
    <3>3. QED
      BY <1>3, <3>1, <3>2
  <2>2. SubSeq(history, 1, k) \in Seq(HistoryLines(C)) /\ Len(SubSeq(history, 1, k)) = k
    BY <2>1, Firsts
  <2>3. QED
    BY <2>1, <2>2
<1> HIDE DEF f, cell, marks, cursor, left
<1>18. f.cell = cell /\ f.wraps = marks /\ f.cursor = cursor /\ f.history = left
  BY <1>1
<1>19. FilledOK(f, rows, columns, D, C, s)
  BY <1>14, <1>15, <1>16, <1>17, <1>18 DEF FilledOK, R
<1>20. QED
  BY <1>16, <1>18, <1>19 DEF f

\* What the cells of a screen are.
Kind(s, C) == IF s = "main" THEN C ELSE Cells

LEMMA FilledIs ==
  ASSUME NEW C \in Contents, NEW v, Screen(v, C), Cursor(v), Shows(v, C) = C,
         NEW rows \in Nat \ {0}, NEW columns \in Nat \ {0}, NEW s \in Screens
  PROVE  /\ FilledOK(Filled(v, s, rows, columns), rows, columns, Kind(s, C), C, s)
         /\ Laid(v, s, rows, columns).cursor # None =>
              Filled(v, s, rows, columns).cursor # None
<1> DEFINE D == Kind(s, C)
<1>1. v.cell[s] \in [Rows(v) -> [Columns(v) -> D]]
  <2>1. CASE s = "main"
    BY <2>1 DEF Screen, Kind
  <2>2. CASE s # "main"
    BY <2>2, Pictured DEF Screen, Kind
  <2>3. QED
    BY <2>1, <2>2
<1>2. Blank \in D /\ Blank \in C /\ (s = "main" => D = C)
  BY Bounds, Pictured DEF Kind, Cells
<1> HIDE DEF D
<1>3. PICK l : l = Laid(v, s, rows, columns)
  OBVIOUS
<1>4. LaidOK(v, rows, columns, D, l)
  BY <1>1, <1>2, <1>3, LaidIs
<1>5. PICK lines : lines = IF s = "main" THEN Left(v, l) ELSE <<>>
  OBVIOUS
<1>6. lines \in Seq(HistoryLines(C))
  <2>1. Left(v, l) \in Seq(HistoryLines(C))
    <3>1. v.rows \in Nat
      BY Bounds
    <3>2. PICK n \in Nat : n = l.left + 1 /\ n <= v.rows
      BY <1>4, <3>1 DEF LaidOK
    <3>3. [i \in 1 .. n |-> Picture(v)[i - 1]] \in Seq(HistoryLines(C))
      BY <3>2, LinesOfScreen
    <3>4. QED
      BY <3>2, <3>3 DEF Left
  <2>2. QED
    BY <1>5, <2>1
<1>7. PICK history : history = Pushed(v.history, lines)
  OBVIOUS
<1>8. history \in Seq(HistoryLines(C)) /\ Len(history) <= HistoryLimit
  <2>1. v.history \in Seq(HistoryLines(C))
    BY DEF Screen
  <2>2. QED
    BY <1>6, <1>7, <2>1, PushedLines
<1>9. PICK room : room = rows - Len(l.laid)
  OBVIOUS
<1>10. HistoryLimit \in Nat
  BY Bounds
<1>11. PICK f : f = FilledWith(v, s, columns, l, history, room)
  OBVIOUS
<1>12. /\ FilledOK(f, rows, columns, D, C, s)
       /\ l.cursor # None => f.cursor # None
  BY <1>2, <1>4, <1>8, <1>9, <1>10, <1>11, FilledWithIs
<1>13. Filled(v, s, rows, columns) = f
  BY <1>3, <1>5, <1>7, <1>9, <1>11 DEF Filled, FilledAfter
<1>14. QED
  BY <1>3, <1>12, <1>13 DEF D
LEMMA ResizedKeeps ==
  ASSUME NEW C \in Contents, NEW v, Screen(v, C), Cursor(v), Shows(v, C) = C,
         NEW size \in Sizes, Defined(v, size[1]), CursorFound(v, size[1], size[2])
  PROVE  LET w == Resized(v, size[1], size[2])
         IN Screen(w, C) /\ Cursor(w) /\ w.damaged = NoDamage
<1>1. PICK rows \in Nat \ {0}, columns \in Nat \ {0} :
        /\ rows = size[1] /\ columns = size[2]
        /\ <<rows, columns>> \in Sizes
  <2>1. /\ size[1] \in Nat \ {0} /\ size[2] \in Nat \ {0} /\ size = <<size[1], size[2]>>
    BY VTermAssumption DEF VTermAssumption
  <2>2. QED
    BY <2>1
<1> DEFINE screen == [s \in Screens |-> Filled(v, s, rows, columns)]
           cursor == screen[v.on].cursor
           due == v.phantom /\ cursor[2] >= columns - 1
           u == [v EXCEPT
                  !.rows = rows, !.columns = columns,
                  !.cell = [s \in Screens |-> screen[s].cell],
                  !.wraps = [s \in Screens |-> screen[s].wraps],
                  !.history = screen["main"].history,
                  !.bottom = Least(@, rows),
                  !.phantom = due,
                  !.damaged = NoDamage, !.stamped = 0 .. rows - 1]
           c == IF v.phantom /\ ~due THEN cursor[2] + 1 ELSE cursor[2]
           a == At(u, cursor[1], c)
           b == Bounded(a)
           w == Resized(v, rows, columns)
<1>2. w = Moved(v, b)
  BY DEF Resized, ResizedTo
<1>3. /\ "main" \in Screens /\ v.on \in Screens
      /\ \A s \in Screens : screen[s] = Filled(v, s, rows, columns)
  BY DEF Screens, Screen
<1>4. ASSUME NEW s \in Screens
      PROVE  FilledOK(screen[s], rows, columns, Kind(s, C), C, s)
  BY <1>3, FilledIs
<1>5. cursor \in Int \X Int
  <2>1. Laid(v, v.on, rows, columns).cursor # None
    BY <1>1 DEF CursorFound
  <2>2. cursor # None
    BY <1>3, <2>1, FilledIs
  <2>3. Place(cursor)
    BY <1>3, <1>4 DEF FilledOK
  <2>4. QED
    BY <2>2, <2>3 DEF Place
<1> HIDE DEF screen
<1>6. cursor[1] \in Int /\ c \in Int /\ due \in BOOLEAN
  <2>1. cursor[1] \in Int /\ cursor[2] \in Int
    BY <1>5
  <2>2. v.phantom \in BOOLEAN
    BY DEF Cursor
  <2> HIDE DEF cursor
  <2>3. QED
    BY <2>1, <2>2
<1> HIDE DEF cursor, due, c
<1>7. /\ DOMAIN u = Fields /\ u.rows = rows /\ u.columns = columns /\ u.on = v.on
      /\ u.cell = [s \in Screens |-> screen[s].cell]
      /\ u.wraps = [s \in Screens |-> screen[s].wraps]
      /\ u.history = screen["main"].history
      /\ u.top = v.top /\ u.bottom = Least(v.bottom, rows)
      /\ u.phantom = due /\ u.saved = v.saved
      /\ u.damaged = NoDamage /\ u.stamped = 0 .. rows - 1
  BY DEF Screen, Fields
<1> HIDE DEF u
<1>8. Rows(u) = 0 .. rows - 1 /\ Columns(u) = 0 .. columns - 1
      /\ Lines(u.columns) = [0 .. columns - 1 -> Cells]
  BY <1>7 DEF Rows, Columns, Lines
<1>9. Screen(u, C)
  <2>1. u.cell \in [Screens -> [Rows(u) -> Lines(u.columns)]]
    <3>1. ASSUME NEW s \in Screens
          PROVE  screen[s].cell \in [0 .. rows - 1 -> [0 .. columns - 1 -> Cells]]
      <4>1. Kind(s, C) \subseteq Cells
        BY Bounds DEF Kind
      <4>2. screen[s].cell \in [0 .. rows - 1 -> [0 .. columns - 1 -> Kind(s, C)]]
        BY <1>4 DEF FilledOK
      <4>3. PICK D, p : D = Kind(s, C) /\ p = screen[s].cell
        OBVIOUS
      <4>4. p \in [0 .. rows - 1 -> [0 .. columns - 1 -> D]] /\ D \subseteq Cells
        BY <4>1, <4>2, <4>3
      <4>5. [0 .. columns - 1 -> D] \subseteq [0 .. columns - 1 -> Cells]
        BY <4>4
      <4>6. p \in [0 .. rows - 1 -> [0 .. columns - 1 -> Cells]]
        BY <4>4, <4>5
      <4>7. QED
        BY <4>3, <4>6
    <3>2. QED
      BY <1>7, <1>8, <3>1
  <2>2. u.cell["main"] \in [Rows(u) -> [Columns(u) -> C]]
    <3>1. Kind("main", C) = C
      BY DEF Kind
    <3>2. screen["main"].cell \in [0 .. rows - 1 -> [0 .. columns - 1 -> C]]
      BY <1>3, <1>4, <3>1 DEF FilledOK
    <3>3. u.cell["main"] = screen["main"].cell
      BY <1>3, <1>7
    <3>4. QED
      BY <1>8, <3>2, <3>3
  <2>3. u.wraps \in [Screens -> [Rows(u) -> BOOLEAN]]
    BY <1>4, <1>7, <1>8 DEF FilledOK
  <2>4. u.history \in Seq(HistoryLines(C)) /\ Len(u.history) <= HistoryLimit
    BY <1>3, <1>4, <1>7 DEF FilledOK
  <2>5. u.top \in Nat /\ u.bottom \in -1 .. u.rows /\ u.top < Bottom(u)
    <3>1. v.rows \in Nat /\ v.bottom \in -1 .. v.rows /\ v.top \in Nat
          /\ Bottom(v) \in 1 .. v.rows
      BY Bounds DEF Screen
    <3>2. v.top < Least(Bottom(v), rows)
      BY <1>1 DEF Defined
    <3>3. PICK t, d : t = v.top /\ d = v.bottom
      OBVIOUS
    <3>4. t \in Nat /\ d \in Int /\ d >= -1
      BY <3>1, <3>3
    <3>5. t < Least(IF d = -1 THEN v.rows ELSE d, rows)
      BY <3>2, <3>3 DEF Bottom
    <3>6. Least(d, rows) \in -1 .. rows
      BY <3>4 DEF Least
    <3>7. t < (IF Least(d, rows) = -1 THEN rows ELSE Least(d, rows))
      BY <3>1, <3>4, <3>5 DEF Least
    <3>8. Bottom(u) = IF Least(d, rows) = -1 THEN rows ELSE Least(d, rows)
      BY <1>7, <3>3 DEF Bottom
    <3>9. QED
      BY <1>7, <3>3, <3>4, <3>6, <3>7, <3>8
  <2>6. <<u.rows, u.columns>> \in Sizes /\ u.on \in Screens
    BY <1>1, <1>3, <1>7
  <2>7. u.stamped \subseteq Rows(u)
    BY <1>7, <1>8
  <2>8. QED
    BY <1>7, <2>1, <2>2, <2>3, <2>4, <2>5, <2>6, <2>7 DEF Screen
<1>10. /\ CursorOnly(u, a) /\ a.row = cursor[1] /\ a.column = c
       /\ a.phantom = u.phantom /\ a.saved = u.saved
  BY <1>9, AtMoves
<1> HIDE DEF a
<1>11. Loose(a, C)
  <2>1. Screen(a, C)
    BY <1>9, <1>10, CursorMoves
  <2>2. a.phantom \in BOOLEAN /\ a.saved \in Nat \X Nat
    BY <1>6, <1>7, <1>10 DEF Cursor
  <2>3. QED
    BY <1>6, <1>10, <2>1, <2>2 DEF Loose
<1>12. CursorOnly(a, b) /\ Screen(b, C) /\ Cursor(b)
  BY <1>11, BoundedKeeps
<1> HIDE DEF b, w
<1>13. /\ CursorOnly(b, w) /\ w.row = b.row /\ w.column = b.column
       /\ w.phantom \in BOOLEAN /\ w.saved = b.saved
  BY <1>2, <1>12, MovedMoves
<1>14. Keeps(b, w, C)
  BY <1>12, <1>13, CursorKeeps DEF Cursor
<1>15. w.damaged = NoDamage
  BY <1>7, <1>10, <1>12, <1>13 DEF CursorOnly
<1>16. QED
  BY <1>1, <1>14, <1>15 DEF Keeps, w
-----------------------------------------------------------------------------
(* The steps.                                                              *)

\* An operation of a write.
Operation ==
  \/ Prints \/ Controls \/ MovesCursor \/ Erases \/ Shifts \/ SetsRegion \/ Saves
  \/ Restores \/ Switches

\* What an operation leaves.
Wrote(v, C) ==
  /\ writing /\ Writes(v) /\ Screen(v, C) /\ Cursor(v)
  /\ EraseTop = FALSE => Marks(vt, v)

LEMMA Wrotes ==
  ASSUME NEW C \in Contents, NEW v, Writes(v), Keeps(vt, v, C)
  PROVE  Wrote(v, C)
BY DEF Writes, Keeps, Wrote

LEMMA Operates ==
  ASSUME NEW C \in Contents, Screen(vt, C), Cursor(vt), Operation
  PROVE  \E v : Wrote(v, C)
<1>1. CASE Prints
  <2>1. PICK letter \in IF vt.on = "main" THEN Letters ELSE {AltLetter} :
          Writes(Put(vt, letter))
    BY <1>1 DEF Prints
  <2>2. letter \in Shows(vt, C)
    <3>1. Letters \subseteq C
      BY Bounds
    <3>2. AltLetter \in Cells
      BY DEF Cells
    <3>3. QED
      BY <3>1, <3>2 DEF Shows
  <2>3. Keeps(vt, Put(vt, letter), C)
    BY <2>2, PutKeeps
  <2>4. QED
    BY <2>1, <2>3, Wrotes
<1>2. CASE Controls
  <2>1. CASE Writes(LF(vt))
    BY <2>1, LFKeeps, Wrotes
  <2>2. CASE Writes(CR(vt))
    BY <2>2, CRKeeps, Wrotes
  <2>3. CASE Writes(Backspace(vt))
    BY <2>3, BackspaceKeeps, Wrotes
  <2>4. CASE Writes(RI(vt))
    BY <2>4, RIKeeps, Wrotes
  <2>5. QED
    BY <1>2, <2>1, <2>2, <2>3, <2>4 DEF Controls
<1>3. CASE MovesCursor
  <2>1. PICK r \in Rows(vt), c \in Columns(vt) : Writes(CUP(vt, r, c))
    BY <1>3 DEF MovesCursor
  <2>2. r \in Int /\ c \in Int
    BY DEF Rows, Columns
  <2>3. Keeps(vt, CUP(vt, r, c), C)
    BY <2>2, CUPKeeps
  <2>4. QED
    BY <2>1, <2>3, Wrotes
<1>4. CASE Erases
  <2>1. CASE Writes(ED0(vt))
    BY <2>1, ED0Keeps, Wrotes
  <2>2. CASE Writes(ED2(vt))
    BY <2>2, ED2Keeps, Wrotes
  <2>3. CASE Writes(ED3(vt))
    BY <2>3, ED3Keeps, Wrotes
  <2>4. CASE (EraseTop \/ vt.row > 0) /\ Writes(ED1(vt))
    <3>1. Screen(ED1(vt), C) /\ Cursor(ED1(vt)) /\ (vt.row > 0 => Marks(vt, ED1(vt)))
      BY ED1Keeps DEF Keeps
    <3>2. Wrote(ED1(vt), C)
      BY <2>4, <3>1 DEF Wrote, Writes
    <3>3. QED
      BY <3>2
  <2>5. CASE Writes(EL(vt, vt.column, vt.columns))
    BY <2>5, ELKeeps, Wrotes
  <2>6. CASE Writes(EL(vt, 0, vt.column + 1))
    BY <2>6, ELKeeps, Wrotes
  <2>7. CASE Writes(EL(vt, 0, vt.columns))
    BY <2>7, ELKeeps, Wrotes
  <2>8. QED
    BY <1>4, <2>1, <2>2, <2>3, <2>4, <2>5, <2>6, <2>7 DEF Erases
<1>5. CASE Shifts
  <2>1. ASSUME NEW n \in {-2, -1, 1, 2}, Writes(MoveLines(vt, n))
        PROVE  \E v : Wrote(v, C)
    BY <2>1, MoveLinesKeeps, Wrotes
  <2>2. ASSUME NEW n \in {-2, -1, 1, 2}, Writes(Scroll(vt, Region(vt), n, 0))
        PROVE  \E v : Wrote(v, C)
    <3>1. n \in Int
      OBVIOUS
    <3>2. Keeps(vt, Scroll(vt, Region(vt), n, 0), C)
      BY <3>1, RegionScrolls
    <3>3. QED
      BY <2>2, <3>2, Wrotes
  <2>3. ASSUME NEW n \in {-1, 1}, Writes(MoveCells(vt, n))
        PROVE  \E v : Wrote(v, C)
    BY <2>3, MoveCellsKeeps, Wrotes
  <2>4. QED
    BY <1>5, <2>1, <2>2, <2>3 DEF Shifts
<1>6. CASE SetsRegion
  <2>1. PICK top \in Rows(vt), bottom \in 1 .. vt.rows : Writes(DECSTBM(vt, top, bottom))
    BY <1>6 DEF SetsRegion
  <2>2. Keeps(vt, DECSTBM(vt, top, bottom), C)
    BY DECSTBMKeeps
  <2>3. QED
    BY <2>1, <2>2, Wrotes
<1>7. CASE Saves
  BY <1>7, SaveKeeps, Wrotes DEF Saves
<1>8. CASE Restores
  <2>1. vt.saved[1] < vt.rows /\ vt.saved[2] < vt.columns /\ Writes(RestoreCursor(vt))
    BY <1>8 DEF Restores, SavedInside
  <2>2. Keeps(vt, RestoreCursor(vt), C)
    BY <2>1, RestoreKeeps
  <2>3. QED
    BY <2>1, <2>2, Wrotes
<1>9. CASE Switches
  <2>1. CASE Writes(AltOn(vt))
    BY <2>1, AltOnKeeps, Wrotes
  <2>2. CASE Writes(AltOff(vt))
    BY <2>2, AltOffKeeps, Wrotes
  <2>3. QED
    BY <1>9, <2>1, <2>2 DEF Switches
<1>10. QED
  BY <1>1, <1>2, <1>3, <1>4, <1>5, <1>6, <1>7, <1>8, <1>9 DEF Operation

LEMMA Begins ==
  ASSUME NEW C \in Contents, NEW v, Screen(v, C), Cursor(v)
  PROVE  LET w == [v EXCEPT !.stamped = {}]
         IN /\ Screen(w, C) /\ Cursor(w) /\ Picture(w) = Picture(v)
            /\ w.damaged = v.damaged /\ w.on = v.on
<1> DEFINE w == [v EXCEPT !.stamped = {}]
<1>1. /\ DOMAIN w = Fields /\ w.on = v.on /\ w.stamped = {}
      /\ w.rows = v.rows /\ w.columns = v.columns
      /\ w.cell = v.cell /\ w.wraps = v.wraps /\ w.history = v.history
      /\ w.row = v.row /\ w.column = v.column /\ w.phantom = v.phantom
      /\ w.saved = v.saved /\ w.top = v.top /\ w.bottom = v.bottom
      /\ w.damaged = v.damaged
  BY DEF Screen, Fields
<1> HIDE DEF w
<1>2. Rows(w) = Rows(v) /\ Columns(w) = Columns(v) /\ Bottom(w) = Bottom(v)
  BY <1>1 DEF Rows, Columns, Bottom
<1>3. Screen(w, C)
  BY <1>1, <1>2 DEF Screen
<1>4. Cursor(w) /\ Picture(w) = Picture(v)
  BY <1>1, <1>2 DEF Cursor, Picture
<1>5. QED
  BY <1>1, <1>3, <1>4 DEF w

\* A resize while the shown screen is of C.
LEMMA ResizesKeep ==
  ASSUME NEW C \in Contents, Screen(vt, C), Cursor(vt), Shows(vt, C) = C, Resizes
  PROVE  /\ Screen(vt, C)' /\ Cursor(vt)'
         /\ vt'.damaged = NoDamage \/ vt'.damaged = vt.damaged
         /\ ~writing /\ ~writing' /\ seen' = Picture(vt')
         /\ stopped' \in {stopped, TRUE}
<1>1. PICK size \in Sizes :
        /\ Defined(vt, size[1])
        /\ IF CursorFound(vt, size[1], size[2])
           THEN vt' = Resized(vt, size[1], size[2]) /\ UNCHANGED stopped
           ELSE stopped' = TRUE /\ UNCHANGED vt
  BY DEF Resizes
<1>2. ~writing /\ ~writing' /\ seen' = Picture(vt')
  BY DEF Resizes
<1>3. CASE CursorFound(vt, size[1], size[2])
  <2>1. PICK w : w = Resized(vt, size[1], size[2])
    OBVIOUS
  <2>2. Screen(w, C) /\ Cursor(w) /\ w.damaged = NoDamage
    BY <1>1, <1>3, <2>1, ResizedKeeps
  <2>3. vt' = w /\ stopped' = stopped
    BY <1>1, <1>3, <2>1
  <2>4. QED
    BY <1>2, <2>2, <2>3
<1>4. CASE ~CursorFound(vt, size[1], size[2])
  BY <1>1, <1>2, <1>4
<1>5. QED
  BY <1>3, <1>4

LEMMA Whats ==
  ASSUME [Next]_vars
  PROVE  WriteBegins \/ WriteEnds \/ Operation \/ Resizes \/ UNCHANGED vars
BY DEF Next, Operation, Done

\* Every step keeps the screens; a resize must be one of a screen of C.
LEMMA StepKeeps ==
  ASSUME NEW C \in Contents, Screen(vt, C), Cursor(vt), [Next]_vars,
         Resizes => Shows(vt, C) = C
  PROVE  Screen(vt, C)' /\ Cursor(vt)'
<1>1. CASE WriteBegins
  <2>1. vt' = [vt EXCEPT !.stamped = {}]
    BY <1>1 DEF WriteBegins
  <2>2. PICK w : w = [vt EXCEPT !.stamped = {}]
    OBVIOUS
  <2>3. Screen(w, C) /\ Cursor(w)
    BY <2>2, Begins
  <2>4. vt' = w
    BY <2>1, <2>2
  <2>5. QED
    BY <2>3, <2>4
<1>2. CASE WriteEnds
  <2>1. vt' = Flush(vt)
    BY <1>2 DEF WriteEnds
  <2>2. PICK w : w = Flush(vt)
    OBVIOUS
  <2>3. Screen(w, C) /\ Cursor(w)
    BY <2>2, FlushKeeps
  <2>4. QED
    BY <2>1, <2>2, <2>3
<1>3. CASE Operation
  <2>1. PICK v : Wrote(v, C)
    BY <1>3, Operates
  <2>2. vt' = v /\ Screen(v, C) /\ Cursor(v)
    BY <2>1 DEF Wrote, Writes
  <2>3. QED
    BY <2>2
<1>4. CASE Resizes
  BY <1>4, ResizesKeep
<1>5. CASE UNCHANGED vars
  BY <1>5 DEF vars
<1>6. QED
  BY <1>1, <1>2, <1>3, <1>4, <1>5, Whats
LEMMA Starts ==
  ASSUME NEW C \in Contents, Init
  PROVE  Screen(vt, C) /\ Cursor(vt) /\ vt.damaged = NoDamage
<1>1. PICK size \in Sizes, text \in Texts :
        vt = [Flush(Printed(New(size[1], size[2]), text)[Len(text)])
                EXCEPT !.stamped = {}]
  BY DEF Init
<1>2. PICK v : v = New(size[1], size[2])
  OBVIOUS
<1>3. Ready(v, C)
  BY <1>2, NewScreen DEF Ready
<1>4. text \in Seq(Letters \cup {Newline})
  BY VTermAssumption DEF VTermAssumption
<1>5. PICK p : p = Printed(v, text)[Len(text)]
  OBVIOUS
<1>6. Ready(p, C)
  BY <1>3, <1>4, <1>5, PrintedReady
<1>7. PICK f : f = Flush(p)
  OBVIOUS
<1>8. Screen(f, C) /\ Cursor(f) /\ f.damaged = NoDamage
  BY <1>6, <1>7, FlushKeeps DEF Ready
<1>9. vt = [f EXCEPT !.stamped = {}]
  BY <1>1, <1>2, <1>5, <1>7
<1>10. QED
  BY <1>8, <1>9, Begins

LEMMA CellsAre == Cells \in Contents /\ \A v : Shows(v, Cells) = Cells
BY DEF Contents, Shows

LEMMA StartsIn ==
  ASSUME Init
  PROVE  IInv
<1>1. Screen(vt, Cells) /\ Cursor(vt)
  BY CellsAre, Starts
<1>2. writing \in BOOLEAN /\ stopped \in BOOLEAN
  BY DEF Init
<1>3. QED
  BY <1>1, <1>2 DEF IInv

LEMMA StaysIn ==
  ASSUME IInv, [Next]_vars
  PROVE  IInv'
<1>1. Screen(vt, Cells)' /\ Cursor(vt)'
  BY CellsAre, StepKeeps DEF IInv
<1>2. writing' \in BOOLEAN /\ stopped' \in BOOLEAN
  <2>1. CASE WriteBegins
    BY <2>1 DEF WriteBegins, IInv
  <2>2. CASE WriteEnds
    BY <2>2 DEF WriteEnds, IInv
  <2>3. CASE Operation
    <3>1. PICK v : Wrote(v, Cells)
      BY <2>3, CellsAre, Operates DEF IInv
    <3>2. writing' = writing /\ stopped' = stopped
      BY <3>1 DEF Wrote, Writes
    <3>3. QED
      BY <3>2 DEF IInv
  <2>4. CASE Resizes
    <3>1. writing' = writing /\ stopped' \in {stopped, TRUE}
      BY <2>4 DEF Resizes
    <3>2. QED
      BY <3>1 DEF IInv
  <2>5. CASE UNCHANGED vars
    BY <2>5 DEF vars, IInv
  <2>6. QED
    BY <2>1, <2>2, <2>3, <2>4, <2>5, Whats
<1>3. QED
  BY <1>1, <1>2 DEF IInv

\* The screens, the history and the cursor are as they must be after every
\* operation and resize: the inductive invariant.
THEOREM Inductive == Spec => []IInv
<1>1. Init => IInv
  BY StartsIn
<1>2. IInv /\ [Next]_vars => IInv'
  BY StaysIn
<1>3. QED
  BY <1>1, <1>2, PTL DEF Spec

\* No cursor, scroll region or row mark leaves the screen, whatever is written
\* and however the screen is resized, and the history keeps to its limit.
THEOREM Types == Spec => []TypeOK
<1>1. ASSUME IInv PROVE TypeOK
  <2>1. Cells \in Contents /\ Screen(vt, Cells) /\ Cursor(vt)
    BY <1>1, CellsAre DEF IInv
  <2>2. vt.rows \in Nat \ {0} /\ vt.columns \in Nat \ {0}
    BY <2>1, Bounds
  <2>3. \A s \in Screens : /\ vt.cell[s] \in [Rows(vt) -> Lines(vt.columns)]
                           /\ vt.wraps[s] \in [Rows(vt) -> BOOLEAN]
    BY <2>1 DEF Screen
  <2>4. QED
    BY <1>1, <2>1, <2>2, <2>3 DEF TypeOK, Screen, Cursor, IInv
<1>2. IInv => TypeOK
  BY <1>1
<1>3. QED
  BY <1>2, Inductive, PTL

LEMMA StartsCovered ==
  ASSUME Init
  PROVE  Coverage
<1>1. vt.damaged = NoDamage /\ seen = Picture(vt)
  BY CellsAre, Starts DEF Init
<1>2. QED
  BY <1>1 DEF Coverage, OneRow

\* The reports of a step come to those before it.
LEMMA CoveredBy ==
  ASSUME Coverage, Marks(vt, vt'), seen' = seen
  PROVE  /\ OneRow(vt)'
         /\ \A r \in Rows(vt)' : Picture(vt)'[r] # seen'[r] => Dirty(vt, r)'
<1>1. PICK w : w = vt'
  OBVIOUS
<1>2. OneRow(vt) /\ w.rows = vt.rows
  BY <1>1 DEF Coverage, Marks
<1>3. OneRow(w)
  BY <1>1, <1>2 DEF Marks
<1>4. ASSUME NEW r \in Rows(w), Picture(w)[r] # seen[r] PROVE Dirty(w, r)
  <2>1. r \in Rows(vt)
    BY <1>2 DEF Rows
  <2>2. Dirty(vt, r) \/ Picture(w)[r] # Picture(vt)[r]
    BY <1>4, <2>1 DEF Coverage
  <2>3. QED
    BY <1>1, <1>2, <2>1, <2>2 DEF Marks
<1>5. QED
  BY <1>1, <1>3, <1>4

LEMMA StaysCovered ==
  ASSUME EraseTop = FALSE, IInv, Coverage, [Next]_vars
  PROVE  Coverage'
<1>1. Cells \in Contents /\ Screen(vt, Cells) /\ Cursor(vt)
  BY CellsAre DEF IInv
<1>2. CASE WriteBegins
  <2>1. PICK w : w = [vt EXCEPT !.stamped = {}]
    OBVIOUS
  <2>2. Picture(w) = Picture(vt) /\ w.damaged = vt.damaged
    BY <1>1, <2>1, Begins
  <2>3. vt' = w /\ seen' = Picture(vt) /\ writing' = TRUE /\ ~writing
    BY <1>2, <2>1 DEF WriteBegins
  <2>4. w.damaged = NoDamage
    BY <2>2, <2>3 DEF Coverage
  <2>5. OneRow(w) /\ seen' = Picture(w)
    BY <2>2, <2>3, <2>4 DEF OneRow
  <2>6. QED
    BY <2>3, <2>5 DEF Coverage
<1>3. CASE WriteEnds
  <2>1. PICK w : w = Flush(vt)
    OBVIOUS
  <2>2. Marks(vt, w) /\ w.damaged = NoDamage
    BY <1>1, <2>1, FlushKeeps
  <2>3. vt' = w /\ seen' = seen
    BY <1>3, <2>1 DEF WriteEnds
  <2>4. /\ OneRow(vt)'
        /\ \A r \in Rows(vt)' : Picture(vt)'[r] # seen'[r] => Dirty(vt, r)'
    BY <2>2, <2>3, CoveredBy
  <2>5. QED
    BY <2>2, <2>3, <2>4 DEF Coverage
<1>4. CASE Operation
  <2>1. PICK v : Wrote(v, Cells)
    BY <1>1, <1>4, Operates
  <2>2. vt' = v /\ seen' = seen /\ writing' = writing /\ writing /\ Marks(vt, v)
    BY <2>1 DEF Wrote, Writes
  <2>3. /\ OneRow(vt)'
        /\ \A r \in Rows(vt)' : Picture(vt)'[r] # seen'[r] => Dirty(vt, r)'
    BY <2>2, CoveredBy
  <2>4. QED
    BY <2>2, <2>3 DEF Coverage
<1>5. CASE Resizes
  <2>1. /\ vt'.damaged = NoDamage \/ vt'.damaged = vt.damaged
        /\ ~writing /\ seen' = Picture(vt')
    BY <1>1, <1>5, CellsAre, ResizesKeep
  <2>2. vt'.damaged = NoDamage
    BY <2>1 DEF Coverage
  <2>3. OneRow(vt)'
    BY <2>2 DEF OneRow
  <2>4. QED
    BY <2>1, <2>2, <2>3 DEF Coverage
<1>6. CASE UNCHANGED vars
  BY <1>6 DEF vars, Coverage
<1>7. QED
  BY <1>2, <1>3, <1>4, <1>5, <1>6, Whats

\* After a write the rows that differ from those before it have the new
\* revision, so that a page is sent them: whatever was scrolled, erased,
\* wrapped or moved in it, and whatever was kept back on the way.  ED 1 in the
\* first row is not among the steps: it reports no rows from the first one on,
\* and with that kept back the first row itself is not reported any more.
THEOREM Covered == ASSUME EraseTop = FALSE PROVE Spec => []DamageCovers
<1>1. Init => Coverage
  BY StartsCovered
<1>2. IInv /\ Coverage /\ [Next]_vars => Coverage'
  BY StaysCovered
<1>3. Coverage => DamageCovers
  <2>1. SUFFICES ASSUME Coverage, ~writing, NEW r \in Rows(vt), Picture(vt)[r] # seen[r]
                 PROVE  r \in vt.stamped
    BY DEF DamageCovers
  <2>2. Dirty(vt, r) /\ vt.damaged = NoDamage
    BY <2>1 DEF Coverage
  <2>3. QED
    BY <2>2 DEF Dirty
<1>4. QED
  BY <1>1, <1>2, <1>3, Inductive, PTL DEF Spec
-----------------------------------------------------------------------------
(* What was printed on the alternate screen.                               *)

Clean == Cells \ {AltLetter}

LEMMA CleanIs == Clean \in Contents /\ \A v : v.on = "main" => Shows(v, Clean) = Clean
BY DEF Clean, Contents, Shows

LEMMA CleanRows ==
  ASSUME NEW n, NEW m, NEW p \in [n -> [m -> Cells]]
  PROVE  NoneOfAlt(p) => p \in [n -> [m -> Clean]]
BY DEF NoneOfAlt, Clean

LEMMA CleanLines ==
  ASSUME NEW q \in Seq(HistoryLines(Cells))
  PROVE  NoneOfAlt(q) => q \in Seq(HistoryLines(Clean))
<1>1. PICK n \in Nat : n = Len(q) /\ DOMAIN q = 1 .. n
  OBVIOUS
<1>2. ASSUME NEW i \in 1 .. n, \A c \in DOMAIN q[i] : q[i][c] # AltLetter
      PROVE  q[i] \in HistoryLines(Clean)
  <2>1. q[i] \in HistoryLines(Cells)
    BY <1>1
  <2>2. PICK size \in Sizes : q[i] \in [0 .. size[2] - 1 -> Cells]
    BY <2>1 DEF HistoryLines
  <2>3. q[i] \in [0 .. size[2] - 1 -> Clean]
    BY <1>2, <2>2 DEF Clean
  <2>4. QED
    BY <2>3 DEF HistoryLines
<1>3. SUFFICES ASSUME NoneOfAlt(q) PROVE q \in Seq(HistoryLines(Clean))
  OBVIOUS
<1>4. \A i \in 1 .. n : q[i] \in HistoryLines(Clean)
  BY <1>1, <1>2, <1>3 DEF NoneOfAlt
<1>5. q \in [1 .. n -> HistoryLines(Clean)]
  <2>1. q = [i \in 1 .. n |-> q[i]]
    BY <1>1
  <2>2. QED
    BY <1>4, <2>1
<1>6. QED
  BY <1>5, Listed

LEMMA CleanScreen ==
  ASSUME NEW v, Screen(v, Cells)
  PROVE  MainClean(v) => Screen(v, Clean)
<1>1. SUFFICES ASSUME MainClean(v) PROVE Screen(v, Clean)
  OBVIOUS
<1>2. v.cell["main"] \in [Rows(v) -> [Columns(v) -> Clean]]
  <2>1. PICK p \in [Rows(v) -> [Columns(v) -> Cells]] : p = v.cell["main"]
    BY DEF Screen
  <2>2. NoneOfAlt(p)
    BY <1>1, <2>1 DEF MainClean
  <2>3. QED
    BY <2>1, <2>2, CleanRows
<1>3. v.history \in Seq(HistoryLines(Clean))
  <2>1. v.history \in Seq(HistoryLines(Cells))
    BY DEF Screen
  <2>2. QED
    BY <1>1, <2>1, CleanLines DEF MainClean
<1>4. QED
  BY <1>2, <1>3 DEF Screen

LEMMA ScreenClean ==
  ASSUME NEW v, Screen(v, Clean)
  PROVE  MainClean(v)
<1>1. NoneOfAlt(v.cell["main"])
  <2>1. PICK p \in [Rows(v) -> [Columns(v) -> Clean]] : p = v.cell["main"]
    BY DEF Screen
  <2>2. NoneOfAlt(p)
    BY <2>1 DEF NoneOfAlt, Clean
  <2>3. QED
    BY <2>1, <2>2
<1>2. NoneOfAlt(v.history)
  <2>1. PICK q \in Seq(HistoryLines(Clean)) : q = v.history
    BY DEF Screen
  <2>2. \A i \in DOMAIN q : q[i] \in HistoryLines(Clean)
    OBVIOUS
  <2>3. ASSUME NEW i \in DOMAIN q, NEW c \in DOMAIN q[i] PROVE q[i][c] # AltLetter
    <3>1. q[i] \in HistoryLines(Clean)
      BY <2>2
    <3>2. PICK size \in Sizes : q[i] \in [0 .. size[2] - 1 -> Clean]
      BY <3>1 DEF HistoryLines
    <3>3. QED
      BY <3>2 DEF Clean
  <2>4. QED
    BY <2>1, <2>3 DEF NoneOfAlt
<1>3. QED
  BY <1>1, <1>2 DEF MainClean

\* What was printed on the alternate screen comes neither to the main screen
\* nor to the history by any step but a resize while it is shown: no line
\* feed, scrolling, erasing or switching takes it there.
THEOREM Apart == Spec => HistoryIsMain
<1>1. ASSUME IInv, [Next]_vars, MainClean(vt), ~(Resizes /\ vt.on = "alt")
      PROVE  MainClean(vt)'
  <2>1. Screen(vt, Clean) /\ Cursor(vt) /\ vt.on \in Screens
    BY <1>1, CleanScreen DEF IInv, Screen
  <2>2. Clean \in Contents /\ (Resizes => Shows(vt, Clean) = Clean)
    BY <1>1, <2>1, CleanIs DEF Screens
  <2>3. Screen(vt, Clean)'
    BY <1>1, <2>1, <2>2, StepKeeps
  <2>4. PICK w : w = vt'
    OBVIOUS
  <2>5. Screen(w, Clean)
    BY <2>3, <2>4
  <2>6. MainClean(w)
    BY <2>5, ScreenClean
  <2>7. QED
    BY <2>4, <2>6
<1>2. IInv /\ [Next]_vars =>
        [MainClean(vt) /\ ~(Resizes /\ vt.on = "alt") => MainClean(vt')]_vars
  BY <1>1
<1>3. QED
  BY <1>2, Inductive, PTL DEF Spec, HistoryIsMain
=============================================================================
