-------------------------- MODULE ScreenSyncProofs --------------------------
(***************************************************************************)
(* The safety of ScreenSync, for screens of any size, histories of any     *)
(* length and any number of sessions and broken connections, as long as no *)
(* page outlives its supervisor: IInv is inductive.                        *)
(***************************************************************************)
EXTENDS ScreenSync, FiniteSetTheorems, SequenceTheorems, TLAPS

USE DEF hostVars, linkVars, pageVars
-----------------------------------------------------------------------------
(* Queues.                                                                 *)

\* What is left of a queue is what was in it, one place further on.
LEMMA Rest ==
  ASSUME NEW S, NEW q \in Seq(S), q # <<>>
  PROVE  /\ Head(q) \in S /\ Head(q) = q[1] /\ 1 \in DOMAIN q
         /\ Tail(q) \in Seq(S) /\ Len(Tail(q)) = Len(q) - 1
         /\ \A i \in DOMAIN Tail(q) :
              i + 1 \in DOMAIN q /\ i + 1 # 1 /\ i \in Nat /\ Tail(q)[i] = q[i + 1]
         /\ \A i \in DOMAIN q : i = 1 \/ (i - 1 \in DOMAIN Tail(q) /\ Tail(q)[i - 1] = q[i])
BY HeadTailProperties, SMT

\* What is put into a queue comes last.
LEMMA Added ==
  ASSUME NEW S, NEW q \in Seq(S), NEW x \in S
  PROVE  /\ Append(q, x) \in Seq(S) /\ Len(Append(q, x)) = Len(q) + 1
         /\ Append(q, x)[Len(q) + 1] = x /\ Len(q) + 1 \in DOMAIN Append(q, x)
         /\ Len(q) + 1 \notin DOMAIN q
         /\ \A i \in DOMAIN q : i \in DOMAIN Append(q, x) /\ Append(q, x)[i] = q[i]
         /\ \A i \in DOMAIN Append(q, x) : i \in DOMAIN q \/ i = Len(q) + 1
BY AppendProperties, SMT

\* A queue of anything.
Own(q) == {q[i] : i \in DOMAIN q}

LEMMA Wider ==
  ASSUME NEW S, NEW T, S \subseteq T, NEW q \in Seq(S)
  PROVE  q \in Seq(T)
BY SMT

LEMMA OwnSeq ==
  ASSUME NEW S, NEW q \in Seq(S)
  PROVE  q \in Seq(Own(q))
<1>1. \A i \in DOMAIN q : q[i] \in Own(q)
  BY DEF Own
<1>2. QED
  BY <1>1, SeqDef, SMT

LEMMA OwnRest ==
  ASSUME NEW q, q \in Seq(Own(q)), q # <<>>
  PROVE  /\ Head(q) = q[1] /\ 1 \in DOMAIN q
         /\ Tail(q) \in Seq(Own(Tail(q))) /\ Tail(q) \in Seq(Own(q))
         /\ \A i \in DOMAIN Tail(q) :
              i + 1 \in DOMAIN q /\ i + 1 # 1 /\ i \in Nat /\ Tail(q)[i] = q[i + 1]
         /\ \A i \in DOMAIN q : i = 1 \/ (i - 1 \in DOMAIN Tail(q) /\ Tail(q)[i - 1] = q[i])
BY Rest, OwnSeq

LEMMA OwnAdded ==
  ASSUME NEW q, q \in Seq(Own(q)), NEW x
  PROVE  /\ Append(q, x) \in Seq(Own(Append(q, x)))
         /\ Append(q, x)[Len(q) + 1] = x /\ Len(q) + 1 \in DOMAIN Append(q, x)
         /\ Len(q) + 1 \notin DOMAIN q
         /\ \A i \in DOMAIN q : i \in DOMAIN Append(q, x) /\ Append(q, x)[i] = q[i]
         /\ \A i \in DOMAIN Append(q, x) : i \in DOMAIN q \/ i = Len(q) + 1
<1> DEFINE T == Own(q) \cup {x}
<1>1. q \in Seq(T) /\ x \in T
  BY Wider
<1> HIDE DEF T
<1>2. Append(q, x) \in Seq(T)
  BY <1>1, Added
<1>3. QED
  BY <1>1, <1>2, Added, OwnSeq
-----------------------------------------------------------------------------
(* The emulator's rows and its history.                                    *)

LinesOK(ls, lr, rev) ==
  /\ ls = [r \in DOMAIN ls |-> ls[r]]
  /\ \E h \in Heights : DOMAIN ls = 1 .. h
  /\ DOMAIN lr = DOMAIN ls
  /\ \A r \in DOMAIN ls : ls[r] \in Line /\ lr[r] \in 1 .. rev
HistoryOK(hs, first, rev) ==
  /\ first \in Nat
  /\ \E n \in 0 .. HistoryLimit : DOMAIN hs = first .. first + n - 1
  /\ \A k \in DOMAIN hs : hs[k] \in [text : Line, rev : 1 .. rev]

LEMMA IntervalSize ==
  ASSUME NEW m \in Nat, NEW n \in Nat
  PROVE  Cardinality(m .. m + n - 1) = n
<1>1. m \in Int /\ m + n - 1 \in Int
  OBVIOUS
<1>2. Cardinality(m .. m + n - 1) = IF m > m + n - 1 THEN 0 ELSE (m + n - 1) - m + 1
  BY <1>1, FS_Interval
<1>3. QED
  BY <1>2

LEMMA RowCount ==
  ASSUME NEW ls, NEW lr, NEW rev, LinesOK(ls, lr, rev)
  PROVE  /\ Cardinality(DOMAIN ls) \in Heights
         /\ Cardinality(DOMAIN ls) \in Nat \ {0}
         /\ DOMAIN ls = 1 .. Cardinality(DOMAIN ls) /\ 1 \in DOMAIN ls
<1>1. PICK h \in Heights : DOMAIN ls = 1 .. h
  BY DEF LinesOK
<1>2. h \in Nat \ {0}
  BY ScreenAssumption DEF ScreenAssumption
<1>3. Cardinality(1 .. h) = h
  <2>1. 1 + h - 1 = h
    BY <1>2
  <2>2. QED
    BY <1>2, <2>1, IntervalSize
<1>4. QED
  BY <1>1, <1>2, <1>3

LEMMA HistorySize ==
  ASSUME NEW hs, NEW first, NEW rev, HistoryOK(hs, first, rev)
  PROVE  /\ Cardinality(DOMAIN hs) \in 0 .. HistoryLimit
         /\ Cardinality(DOMAIN hs) \in Nat
         /\ DOMAIN hs = first .. first + Cardinality(DOMAIN hs) - 1
<1>1. PICK n \in 0 .. HistoryLimit : DOMAIN hs = first .. first + n - 1
  BY DEF HistoryOK
<1>2. n \in Nat /\ first \in Nat
  BY ScreenAssumption DEF HistoryOK, ScreenAssumption
<1>3. QED
  BY <1>1, <1>2, IntervalSize

HostTypes ==
  /\ LinesOK(lines, lineRevision, revision) /\ HistoryOK(history, discarded, revision)
  /\ revision \in 1 .. MaxRevision
  /\ generation \in 1 .. MaxSessions /\ hosts \in 1 .. MaxSessions
  /\ up \in BOOLEAN /\ alive \in BOOLEAN /\ unread \in 0 .. MaxUnread
LinkTypes ==
  /\ stream \in [sub : Nat, credit : Pos, asked : Pos]
  /\ toServer \in Seq(Messages) /\ \A i \in DOMAIN toPage : UpdateOK(toPage[i])
  /\ open \in BOOLEAN /\ cuts \in 0 .. MaxCuts
PageTypes ==
  /\ at \in 0 .. MaxRevision /\ pageGen \in 0 .. MaxSessions
  /\ polling \in {"off", "on", "exited"} /\ sub \in Nat /\ UpdateOK(boot)

LEMMA HostTyped ==
  ASSUME TypeOK, EmulatorInv
  PROVE  HostTypes
<1>1. LinesOK(lines, lineRevision, revision)
  BY DEF TypeOK, EmulatorInv, LinesOK
<1>2. HistoryOK(history, discarded, revision)
  BY DEF TypeOK, EmulatorInv, HistoryOK
<1>3. QED
  BY <1>1, <1>2 DEF TypeOK, HostTypes

LEMMA AllTyped ==
  ASSUME TypeOK, EmulatorInv
  PROVE  HostTypes /\ LinkTypes /\ PageTypes
BY HostTyped DEF TypeOK, LinkTypes, PageTypes
-----------------------------------------------------------------------------
(* What changes in the emulator gets a revision that no copy has.          *)

LinesMove(ls, lr, rev, ls2, lr2) ==
  /\ LinesOK(ls2, lr2, rev + 1)
  /\ \A r \in DOMAIN ls2 :
       \/ lr2[r] = rev + 1
       \/ r \in DOMAIN ls /\ ls2[r] = ls[r] /\ lr2[r] = lr[r]
  /\ DOMAIN ls2 # DOMAIN ls => \A r \in DOMAIN ls2 : lr2[r] = rev + 1
HistoryMoves(hs, rev, hs2, first2) ==
  /\ HistoryOK(hs2, first2, rev + 1)
  /\ \A k \in DOMAIN hs2 :
       hs2[k].rev = rev + 1 \/ (k \in DOMAIN hs /\ hs2[k] = hs[k])

LEMMA Pushes ==
  ASSUME HostTypes, NEW text \in Line, Push(text)
  PROVE  HistoryMoves(history, revision, history', discarded')
<1> DEFINE n == Cardinality(DOMAIN history)
           next == discarded + n
           first == IF Full THEN discarded + 1 ELSE discarded
<1>1. /\ n \in 0 .. HistoryLimit /\ DOMAIN history = discarded .. discarded + n - 1
      /\ discarded \in Nat /\ HistoryLimit \in Nat \ {0} /\ revision \in Nat \ {0}
      /\ \A k \in DOMAIN history : history[k] \in [text : Line, rev : 1 .. revision]
  <2>1. HistoryOK(history, discarded, revision) /\ revision \in Nat \ {0}
    BY ScreenAssumption DEF HostTypes, ScreenAssumption
  <2>2. QED
    BY <2>1, HistorySize, ScreenAssumption DEF HistoryOK, ScreenAssumption
<1>2. /\ discarded' = first
      /\ history' = [k \in first .. next |->
                       IF k = next THEN Pushed(text, revision + 1) ELSE history[k]]
  BY DEF Push
<1>3. Full <=> n = HistoryLimit
  BY DEF Full
<1> HIDE DEF n
<1>4. /\ first \in Nat /\ next \in Nat
      /\ \E m \in 0 .. HistoryLimit : first .. next = first .. first + m - 1
      /\ \A k \in first .. next : k = next \/ k \in DOMAIN history
  <2>1. CASE Full
    <3>1. first + n - 1 = next
      BY <1>1, <2>1
    <3>2. QED
      BY <1>1, <1>3, <2>1, <3>1
  <2>2. CASE ~Full
    <3>1. first + (n + 1) - 1 = next /\ n + 1 \in 0 .. HistoryLimit
      BY <1>1, <1>3, <2>2
    <3>2. QED
      BY <1>1, <2>2, <3>1
  <2>3. QED
    BY <2>1, <2>2
<1> HIDE DEF first, next
<1>5. Pushed(text, revision + 1) \in [text : Line, rev : 1 .. revision + 1]
  BY <1>1 DEF Pushed
<1>6. \A k \in DOMAIN history : history[k] \in [text : Line, rev : 1 .. revision + 1]
  BY <1>1
<1>7. DOMAIN history' = first .. next
  BY <1>2
<1>8. \A k \in DOMAIN history' :
        \/ k = next /\ history'[k] = Pushed(text, revision + 1)
        \/ k \in DOMAIN history /\ history'[k] = history[k]
  BY <1>2, <1>4
<1>9. HistoryOK(history', discarded', revision + 1)
  BY <1>2, <1>4, <1>5, <1>6, <1>7, <1>8 DEF HistoryOK
<1>10. Pushed(text, revision + 1).rev = revision + 1
  BY DEF Pushed
<1>11. QED
  BY <1>8, <1>9, <1>10 DEF HistoryMoves

LEMMA Pops ==
  ASSUME HostTypes, DOMAIN history # {}, Pop
  PROVE  HistoryMoves(history, revision, history', discarded')
<1> DEFINE n == Cardinality(DOMAIN history)
<1>1. /\ n \in 0 .. HistoryLimit /\ DOMAIN history = discarded .. discarded + n - 1
      /\ discarded \in Nat /\ HistoryLimit \in Nat \ {0} /\ revision \in Nat \ {0}
      /\ \A k \in DOMAIN history : history[k] \in [text : Line, rev : 1 .. revision]
  <2>1. HistoryOK(history, discarded, revision) /\ revision \in Nat \ {0}
    BY ScreenAssumption DEF HostTypes, ScreenAssumption
  <2>2. QED
    BY <2>1, HistorySize, ScreenAssumption DEF HistoryOK, ScreenAssumption
<1>2. Last = discarded + n - 1
  BY DEF Last
<1> HIDE DEF n
<1>3. n # 0
  BY <1>1
<1>4. DOMAIN history \ {Last} = discarded .. discarded + (n - 1) - 1 /\ n - 1 \in 0 .. HistoryLimit
  BY <1>1, <1>2, <1>3
<1>5. /\ DOMAIN history' = DOMAIN history \ {Last} /\ discarded' = discarded
      /\ \A k \in DOMAIN history' : k \in DOMAIN history /\ history'[k] = history[k]
  BY DEF Pop
<1>6. \A k \in DOMAIN history : history[k] \in [text : Line, rev : 1 .. revision + 1]
  BY <1>1
<1>7. HistoryOK(history', discarded', revision + 1)
  BY <1>1, <1>4, <1>5, <1>6 DEF HistoryOK
<1>8. QED
  BY <1>5, <1>7 DEF HistoryMoves

LEMMA Stays ==
  ASSUME HostTypes
  PROVE  HistoryMoves(history, revision, history, discarded)
<1>1. /\ \A k \in DOMAIN history : history[k] \in [text : Line, rev : 1 .. revision]
      /\ revision \in Nat
  BY ScreenAssumption DEF HostTypes, HistoryOK, ScreenAssumption
<1>2. \A k \in DOMAIN history : history[k] \in [text : Line, rev : 1 .. revision + 1]
  BY <1>1
<1>3. QED
  BY <1>2 DEF HistoryMoves, HistoryOK, HostTypes

LEMMA Rewraps ==
  ASSUME HostTypes, DOMAIN history # {}, NEW text \in Line, Rewrap(text)
  PROVE  HistoryMoves(history, revision, history', discarded')
<1>1. /\ DOMAIN history' = DOMAIN history /\ discarded' = discarded
      /\ \A k \in DOMAIN history :
           history'[k] = IF k = Last THEN Pushed(text, revision + 1) ELSE history[k]
  BY DEF Rewrap
<1>2. Pushed(text, revision + 1) \in [text : Line, rev : 1 .. revision + 1]
  BY ScreenAssumption DEF Pushed, HostTypes, ScreenAssumption
<1>3. Pushed(text, revision + 1).rev = revision + 1
  BY DEF Pushed
<1>4. QED
  BY <1>1, <1>2, <1>3, Stays DEF HistoryMoves, HistoryOK

LEMMA Clears ==
  ASSUME HostTypes, ClearHistory
  PROVE  HistoryMoves(history, revision, history', discarded')
<1>1. Cardinality(DOMAIN history) \in Nat /\ discarded \in Nat
  <2>1. HistoryOK(history, discarded, revision)
    BY DEF HostTypes
  <2>2. QED
    BY <2>1, HistorySize, ScreenAssumption DEF HistoryOK, ScreenAssumption
<1>2. discarded' \in Nat /\ history' = <<>> /\ DOMAIN history' = {}
  BY <1>1 DEF ClearHistory
<1>3. discarded' .. discarded' + 0 - 1 = {}
  <2>1. \A k \in Nat : k .. k + 0 - 1 = {}
    OBVIOUS
  <2>2. QED
    BY <1>2, <2>1
<1>4. 0 \in 0 .. HistoryLimit
  BY ScreenAssumption DEF ScreenAssumption
<1>5. QED
  BY <1>2, <1>3, <1>4 DEF HistoryMoves, HistoryOK

\* A line of the right kind in each row, all with the new revision.
LEMMA AllMarked ==
  ASSUME HostTypes, NEW h \in Heights, lines' = [r \in 1 .. h |-> lines'[r]],
         \A r \in 1 .. h : lines'[r] \in Line, lineRevision' = Marked(h)
  PROVE  LinesMove(lines, lineRevision, revision, lines', lineRevision')
<1>1. revision \in Nat
  BY ScreenAssumption DEF HostTypes, ScreenAssumption
<1>2. /\ DOMAIN lines' = 1 .. h /\ DOMAIN lineRevision' = 1 .. h
      /\ \A r \in 1 .. h : lineRevision'[r] = revision + 1
      /\ lines' = [r \in DOMAIN lines' |-> lines'[r]]
  BY DEF Marked
<1>3. QED
  BY <1>1, <1>2 DEF LinesMove, LinesOK

FeedsMoves ==
  /\ revision' = revision + 1
  /\ LinesMove(lines, lineRevision, revision, lines', lineRevision')
  /\ HistoryMoves(history, revision, history', discarded')

LEMMA FeedsMove ==
  ASSUME HostTypes, Feeds
  PROVE  FeedsMoves
<1>1. /\ revision \in Nat /\ revision' = revision + 1
      /\ lines = [r \in DOMAIN lines |-> lines[r]]
      /\ \E h \in Heights : DOMAIN lines = 1 .. h
      /\ DOMAIN lineRevision = DOMAIN lines
      /\ \A r \in DOMAIN lines : lines[r] \in Line /\ lineRevision[r] \in 1 .. revision
      /\ \A r \in DOMAIN lines : lineRevision[r] \in 1 .. revision + 1
  <2>1. revision \in Nat /\ revision' = revision + 1
    BY ScreenAssumption DEF HostTypes, Feeds, ScreenAssumption
  <2>2. LinesOK(lines, lineRevision, revision)
    BY DEF HostTypes
  <2>3. QED
    BY <2>1, <2>2 DEF LinesOK
<1>2. ASSUME NEW r \in DOMAIN lines, NEW t \in Texts, PutLine(r, t)
      PROVE  FeedsMoves
  <2>1. /\ DOMAIN lines' = DOMAIN lines /\ lines' = [q \in DOMAIN lines' |-> lines'[q]]
        /\ DOMAIN lineRevision' = DOMAIN lines
        /\ \A q \in DOMAIN lines :
             /\ lines'[q] = IF q = r THEN t ELSE lines[q]
             /\ lineRevision'[q] = IF q = r THEN revision + 1 ELSE lineRevision[q]
    BY <1>1, <1>2 DEF PutLine, Damaged
  <2>2. history' = history /\ discarded' = discarded
    BY <1>2 DEF PutLine
  <2>3. LinesMove(lines, lineRevision, revision, lines', lineRevision')
    BY <1>1, <2>1 DEF LinesMove, LinesOK, Line
  <2>4. QED
    BY <1>1, <2>2, <2>3, Stays DEF FeedsMoves
<1>3. ASSUME NEW t \in Texts, Scroll(t)
      PROVE  FeedsMoves
  <2> DEFINE bottom == Cardinality(DOMAIN lines)
  <2>1. bottom \in Nat \ {0} /\ DOMAIN lines = 1 .. bottom /\ 1 \in DOMAIN lines
    BY RowCount DEF HostTypes
  <2>2. /\ lines' = [r \in DOMAIN lines |-> IF r = bottom THEN t ELSE lines[r + 1]]
        /\ lineRevision' = Damaged(DOMAIN lines) /\ Push(lines[1])
    BY <1>3 DEF Scroll
  <2> HIDE DEF bottom
  <2>3. /\ DOMAIN lines' = DOMAIN lines /\ lines' = [q \in DOMAIN lines' |-> lines'[q]]
        /\ DOMAIN lineRevision' = DOMAIN lines
        /\ \A q \in DOMAIN lines :
             lines'[q] \in Line /\ lineRevision'[q] = revision + 1
    <3>1. \A q \in DOMAIN lines : q = bottom \/ q + 1 \in DOMAIN lines
      BY <2>1
    <3>2. \A q \in DOMAIN lines : lines'[q] \in Line
      BY <1>1, <2>2, <3>1 DEF Line
    <3>3. QED
      BY <2>2, <3>2 DEF Damaged
  <2>4. LinesMove(lines, lineRevision, revision, lines', lineRevision')
    BY <1>1, <2>3 DEF LinesMove, LinesOK
  <2>5. HistoryMoves(history, revision, history', discarded')
    BY <1>1, <2>1, <2>2, Pushes
  <2>6. QED
    BY <1>1, <2>4, <2>5 DEF FeedsMoves
<1>4. ASSUME ClearHistory
      PROVE  FeedsMoves
  <2>1. lines' = lines /\ lineRevision' = lineRevision
    BY <1>4 DEF ClearHistory
  <2>2. QED
    BY <1>1, <1>4, <2>1, Clears DEF FeedsMoves, LinesMove, LinesOK
<1>5. QED
  BY <1>2, <1>3, <1>4 DEF Feeds

LEMMA ResizesMove ==
  ASSUME HostTypes, NEW h \in Heights, Resizes(h)
  PROVE  FeedsMoves
<1> DEFINE old == Cardinality(DOMAIN lines)
<1>1. /\ old \in Nat \ {0} /\ DOMAIN lines = 1 .. old /\ 1 \in DOMAIN lines
      /\ \A r \in 1 .. old : lines[r] \in Line
      /\ h \in Nat \ {0} /\ Blank \in Line
  BY RowCount, ScreenAssumption DEF HostTypes, LinesOK, ScreenAssumption, Line
<1>2. revision' = revision + 1 /\ lineRevision' = Marked(h)
  BY DEF Resizes
<1>3. ASSUME lines' = [r \in 1 .. h |-> IF r <= old THEN lines[r] ELSE Blank]
      PROVE  LinesMove(lines, lineRevision, revision, lines', lineRevision')
  <2> HIDE DEF old
  <2>1. \A r \in 1 .. h : r <= old => r \in 1 .. old
    BY <1>1
  <2>2. \A r \in 1 .. h : lines'[r] \in Line
    BY <1>1, <1>3, <2>1
  <2>3. lines' = [r \in 1 .. h |-> lines'[r]]
    BY <1>3
  <2>4. QED
    BY <1>2, <2>2, <2>3, AllMarked
<1>4. CASE /\ lines' = [r \in 1 .. h |-> IF r <= old THEN lines[r] ELSE Blank]
           /\ UNCHANGED <<history, discarded>>
  BY <1>2, <1>3, <1>4, Stays DEF FeedsMoves
<1>5. CASE /\ h = old + 1 /\ DOMAIN history # {}
           /\ lines' = [r \in 1 .. h |-> IF r = 1 THEN history[Last].text
                                                  ELSE lines[r - 1]]
           /\ Pop
  <2>1. history[Last].text \in Line
    <3>1. /\ DOMAIN history = discarded .. discarded + Cardinality(DOMAIN history) - 1
          /\ Cardinality(DOMAIN history) \in Nat /\ discarded \in Nat
          /\ \A k \in DOMAIN history : history[k] \in [text : Line, rev : 1 .. revision]
      <4>1. HistoryOK(history, discarded, revision)
        BY DEF HostTypes
      <4>2. QED
        BY <4>1, HistorySize, ScreenAssumption DEF HistoryOK, ScreenAssumption
    <3>2. Last \in DOMAIN history
      BY <1>5, <3>1 DEF Last
    <3>3. QED
      BY <3>1, <3>2
  <2>2. \A r \in 1 .. h : lines'[r] \in Line
    <3> HIDE DEF old
    <3>1. \A r \in 1 .. h : r = 1 \/ r - 1 \in 1 .. old
      BY <1>1, <1>5
    <3>2. QED
      BY <1>1, <1>5, <2>1, <3>1
  <2>3. lines' = [r \in 1 .. h |-> lines'[r]]
    BY <1>5
  <2>4. QED
    BY <1>2, <1>5, <2>2, <2>3, AllMarked, Pops DEF FeedsMoves
<1>6. CASE /\ h + 1 = old
           /\ lines' = [r \in 1 .. h |-> lines[r + 1]]
           /\ Push(lines[1])
  <2>1. \A r \in 1 .. h : lines'[r] \in Line
    <3> HIDE DEF old
    <3>1. \A r \in 1 .. h : r + 1 \in 1 .. old
      BY <1>1, <1>6
    <3>2. QED
      BY <1>1, <1>6, <3>1
  <2>2. lines' = [r \in 1 .. h |-> lines'[r]]
    BY <1>6
  <2>3. QED
    BY <1>1, <1>2, <1>6, <2>1, <2>2, AllMarked, Pushes DEF FeedsMoves
<1>7. CASE /\ DOMAIN history # {}
           /\ lines' = [r \in 1 .. h |-> IF r <= old THEN lines[r] ELSE Blank]
           /\ \E t \in Texts : Rewrap(t)
  BY <1>2, <1>3, <1>7, Rewraps DEF FeedsMoves, Line
<1>8. QED
  BY <1>4, <1>5, <1>6, <1>7 DEF Resizes
-----------------------------------------------------------------------------
(* Copies and updates.                                                     *)

\* What the emulator does takes nothing from a copy that it had.
LEMMA HasStays ==
  ASSUME NEW ls, NEW lr, NEW hs, NEW rev \in Nat, NEW ls2, NEW lr2, NEW hs2, NEW first2,
         LinesMove(ls, lr, rev, ls2, lr2), HistoryMoves(hs, rev, hs2, first2),
         NEW copy, NEW upTo \in 0 .. rev, Has(copy, upTo, ls, lr, hs, rev)
  PROVE  Has(copy, upTo, ls2, lr2, hs2, rev + 1)
<1>1. /\ \A r \in DOMAIN ls2 :
           \/ lr2[r] = rev + 1
           \/ r \in DOMAIN ls /\ ls2[r] = ls[r] /\ lr2[r] = lr[r]
      /\ DOMAIN ls2 # DOMAIN ls => \A r \in DOMAIN ls2 : lr2[r] = rev + 1
      /\ \A k \in DOMAIN hs2 :
           hs2[k].rev = rev + 1 \/ (k \in DOMAIN hs /\ hs2[k] = hs[k])
  BY DEF LinesMove, HistoryMoves
<1>2. rev + 1 > upTo /\ ~(rev + 1 <= upTo) /\ upTo # rev + 1
  OBVIOUS
<1>3. /\ copy.lines = [r \in DOMAIN copy.lines |-> copy.lines[r]]
      /\ \A r \in DOMAIN ls :
           lr[r] <= upTo => r \in DOMAIN copy.lines /\ copy.lines[r] = ls[r]
      /\ DOMAIN copy.lines # DOMAIN ls => \A r \in DOMAIN ls : lr[r] > upTo
      /\ \A k \in DOMAIN hs :
           hs[k].rev <= upTo => k \in DOMAIN copy.history /\ copy.history[k] = hs[k].text
  BY DEF Has
<1>4. \A r \in DOMAIN ls2 :
        lr2[r] <= upTo => r \in DOMAIN copy.lines /\ copy.lines[r] = ls2[r]
  BY <1>1, <1>2, <1>3
<1>5. DOMAIN copy.lines # DOMAIN ls2 => \A r \in DOMAIN ls2 : lr2[r] > upTo
  BY <1>1, <1>2, <1>3
<1>6. \A k \in DOMAIN hs2 :
        hs2[k].rev <= upTo => k \in DOMAIN copy.history /\ copy.history[k] = hs2[k].text
  BY <1>1, <1>2, <1>3
<1>7. QED
  BY <1>2, <1>3, <1>4, <1>5, <1>6 DEF Has

\* A copy that has all shows the terminal's picture.
LEMMA HasAll ==
  ASSUME HostTypes, NEW copy, Has(copy, revision, lines, lineRevision, history, revision)
  PROVE  Seen(generation, copy) = Picture
<1>1. /\ lines = [r \in DOMAIN lines |-> lines[r]] /\ 1 \in DOMAIN lines
      /\ \A r \in DOMAIN lines : lineRevision[r] <= revision /\ ~(lineRevision[r] > revision)
      /\ \A k \in DOMAIN history : history[k].rev <= revision
      /\ generation # 0
  <2>1. revision \in Nat /\ generation # 0 /\ LinesOK(lines, lineRevision, revision)
        /\ HistoryOK(history, discarded, revision)
    BY ScreenAssumption DEF HostTypes, ScreenAssumption
  <2>2. \A k \in DOMAIN history : history[k].rev \in 1 .. revision
    BY <2>1 DEF HistoryOK
  <2>3. \A k \in DOMAIN history : history[k].rev <= revision
    BY <2>1, <2>2
  <2>4. 1 \in DOMAIN lines
    BY <2>1, RowCount
  <2>5. QED
    BY <2>1, <2>3, <2>4 DEF LinesOK
<1>2. /\ copy.lines = [r \in DOMAIN copy.lines |-> copy.lines[r]]
      /\ \A r \in DOMAIN lines : r \in DOMAIN copy.lines /\ copy.lines[r] = lines[r]
      /\ DOMAIN copy.lines = DOMAIN lines
      /\ \A k \in DOMAIN history :
           k \in DOMAIN copy.history /\ copy.history[k] = history[k].text
      /\ DOMAIN history = copy.start .. copy.start + copy.count - 1
  BY <1>1 DEF Has
<1>3. copy.lines = lines
  BY <1>1, <1>2
<1>4. [k \in copy.start .. copy.start + copy.count - 1 |->
         IF k \in DOMAIN copy.history THEN copy.history[k] ELSE Blank]
        = [k \in DOMAIN history |-> history[k].text]
  BY <1>2
<1>5. QED
  BY <1>1, <1>3, <1>4 DEF Seen, Picture

\* The changes since a revision make of what has all up to it what has all.
LEMMA AppliedHas ==
  ASSUME HostTypes, NEW copy, NEW base \in 0 .. revision, NEW u,
         base = 0 \/ Has(copy, base, lines, lineRevision, history, revision),
         u.height = Cardinality(DOMAIN lines),
         u.rows = [r \in {q \in DOMAIN lines : Changed(lineRevision[q], base)} |->
                     lines[r]],
         u.start = discarded, u.count = Cardinality(DOMAIN history),
         u.old = [k \in {j \in DOMAIN history : Changed(history[j].rev, base)} |->
                    history[k].text]
  PROVE  Has(Applied(copy, u), revision, lines, lineRevision, history, revision)
<1> DEFINE h == Cardinality(DOMAIN lines)
           kept == IF Cardinality(DOMAIN copy.lines) = u.height THEN copy.lines
                   ELSE [r \in 1 .. u.height |-> Blank]
           keys == u.start .. u.start + u.count - 1
           new == Applied(copy, u)
<1>1. /\ revision \in Nat /\ LinesOK(lines, lineRevision, revision)
      /\ HistoryOK(history, discarded, revision)
  BY ScreenAssumption DEF HostTypes, ScreenAssumption
<1>2. DOMAIN lines = 1 .. u.height /\ DOMAIN history = keys
  BY <1>1, RowCount, HistorySize
<1>3. /\ \A r \in DOMAIN lines : lineRevision[r] \in 1 .. revision
      /\ \A k \in DOMAIN history : history[k].rev \in 1 .. revision
  BY <1>1 DEF LinesOK, HistoryOK
<1>4. /\ new.lines = [r \in 1 .. u.height |->
                        IF r \in DOMAIN u.rows THEN u.rows[r] ELSE kept[r]]
      /\ new.history = [k \in (DOMAIN copy.history \cap keys) \cup DOMAIN u.old |->
                          IF k \in DOMAIN u.old THEN u.old[k] ELSE copy.history[k]]
      /\ new.start = u.start /\ new.count = u.count
  BY DEF Applied
<1>5. \A r \in DOMAIN lines : r \notin DOMAIN u.rows => kept[r] = lines[r]
  <2> SUFFICES ASSUME NEW r \in DOMAIN lines, r \notin DOMAIN u.rows
               PROVE  kept[r] = lines[r]
    OBVIOUS
  <2>1. base # 0 /\ ~(lineRevision[r] > base)
    BY DEF Changed
  <2>2. lineRevision[r] <= base
    BY <1>1, <1>3, <2>1
  <2>3. copy.lines[r] = lines[r] /\ DOMAIN copy.lines = DOMAIN lines
    BY <2>1, <2>2 DEF Has
  <2>4. QED
    BY <2>3
<1>6. \A r \in DOMAIN lines : r \in DOMAIN u.rows => u.rows[r] = lines[r]
  OBVIOUS
<1> HIDE DEF kept
<1>7. DOMAIN new.lines = DOMAIN lines /\ \A r \in DOMAIN lines : new.lines[r] = lines[r]
  BY <1>2, <1>4, <1>5, <1>6
<1>8. new.lines = [r \in DOMAIN new.lines |-> new.lines[r]]
  BY <1>4
<1>9. \A k \in DOMAIN history :
        k \in DOMAIN new.history /\ new.history[k] = history[k].text
  <2> SUFFICES ASSUME NEW k \in DOMAIN history
               PROVE  k \in DOMAIN new.history /\ new.history[k] = history[k].text
    OBVIOUS
  <2>1. CASE k \in DOMAIN u.old
    BY <1>4, <2>1
  <2>2. CASE k \notin DOMAIN u.old
    <3>1. base # 0 /\ ~(history[k].rev > base)
      BY <2>2 DEF Changed
    <3>2. history[k].rev <= base
      BY <1>1, <1>3, <3>1
    <3>3. k \in DOMAIN copy.history /\ copy.history[k] = history[k].text
      BY <3>1, <3>2 DEF Has
    <3>4. QED
      BY <1>2, <1>4, <2>2, <3>3
  <2>3. QED
    BY <2>1, <2>2
<1>10. DOMAIN history = new.start .. new.start + new.count - 1
  BY <1>2, <1>4
<1> HIDE DEF new
<1>11. QED
  BY <1>7, <1>8, <1>9, <1>10 DEF Has, new

\* Every answer has the right types, whatever was asked.
LEMMA UpdateType ==
  ASSUME HostTypes, NEW pos, NEW id \in Nat, NEW u, u = Update(pos, id)
  PROVE  /\ UpdateOK(u) /\ u # NoUpdate /\ u.gen = generation /\ u.at = revision
         /\ u.sub = id /\ u.picture = Picture /\ u.running = alive
<1> DEFINE base == IF pos.gen = generation THEN pos.at ELSE 0
           h == Cardinality(DOMAIN lines)
           n == Cardinality(DOMAIN history)
<1>1. /\ revision \in 1 .. MaxRevision /\ revision \in Nat
      /\ generation \in 1 .. MaxSessions /\ generation \in Nat /\ alive \in BOOLEAN
      /\ LinesOK(lines, lineRevision, revision)
      /\ HistoryOK(history, discarded, revision)
  BY ScreenAssumption DEF HostTypes, ScreenAssumption
<1>2. /\ u.sub = id /\ u.gen = generation /\ u.at = revision /\ u.height = h
      /\ u.rows = [r \in {q \in DOMAIN lines : Changed(lineRevision[q], base)} |-> lines[r]]
      /\ u.start = discarded /\ u.count = n
      /\ u.old = [k \in {j \in DOMAIN history : Changed(history[j].rev, base)} |->
                    history[k].text]
      /\ u.running = alive /\ u.picture = Picture
  BY DEF Update
<1>3. UpdateOK(u)
  <2>1. /\ h \in Heights /\ DOMAIN lines = 1 .. h
        /\ n \in 0 .. HistoryLimit /\ DOMAIN history = discarded .. discarded + n - 1
        /\ discarded \in Nat /\ \A r \in DOMAIN lines : lines[r] \in Line
    BY <1>1, RowCount, HistorySize DEF LinesOK, HistoryOK
  <2>2. /\ DOMAIN u.rows \subseteq DOMAIN lines
        /\ \A r \in DOMAIN u.rows : u.rows[r] = lines[r]
        /\ DOMAIN u.old \subseteq DOMAIN history
    BY <1>2
  <2> HIDE DEF h, n, base
  <2>3. QED
    BY <1>1, <1>2, <2>1, <2>2 DEF UpdateOK
<1>4. u # NoUpdate
  BY <1>1, <1>2 DEF NoUpdate
<1>5. QED
  BY <1>2, <1>3, <1>4

\* An answer to a position fits what has that position.
LEMMA UpdateFits ==
  ASSUME HostTypes, NEW copy, NEW upTo \in Nat, NEW gen \in Nat, gen <= generation,
         gen = generation => /\ upTo <= revision
                             /\ Has(copy, upTo, lines, lineRevision, history, revision),
         NEW id \in Nat, NEW u, u = Update([at |-> upTo, gen |-> gen], id)
  PROVE  /\ Fits(u, copy, upTo, gen) /\ UpdateOK(u) /\ u # NoUpdate
         /\ u.gen = generation /\ u.at = revision /\ u.sub = id /\ u.picture = Picture
<1> DEFINE base == IF gen = generation THEN upTo ELSE 0
           h == Cardinality(DOMAIN lines)
           n == Cardinality(DOMAIN history)
<1>1. /\ revision \in 1 .. MaxRevision /\ revision \in Nat
      /\ generation \in 1 .. MaxSessions /\ generation \in Nat /\ alive \in BOOLEAN
      /\ LinesOK(lines, lineRevision, revision)
      /\ HistoryOK(history, discarded, revision)
  BY ScreenAssumption DEF HostTypes, ScreenAssumption
<1>2. base \in 0 .. revision
  BY <1>1
<1>3. /\ u.sub = id /\ u.gen = generation /\ u.at = revision /\ u.height = h
      /\ u.rows = [r \in {q \in DOMAIN lines : Changed(lineRevision[q], base)} |-> lines[r]]
      /\ u.start = discarded /\ u.count = n
      /\ u.old = [k \in {j \in DOMAIN history : Changed(history[j].rev, base)} |->
                    history[k].text]
      /\ u.running = alive /\ u.picture = Picture
  BY DEF Update
<1>4. UpdateOK(u) /\ u # NoUpdate
  BY UpdateType
<1>6. Has(Applied(copy, u), revision, lines, lineRevision, history, revision)
  <2>1. base = 0 \/ Has(copy, base, lines, lineRevision, history, revision)
    OBVIOUS
  <2> HIDE DEF base
  <2>2. QED
    BY <1>2, <1>3, <2>1, AppliedHas
<1>7. u.gen # gen => Has(Applied(NoPage, u), revision, lines, lineRevision, history, revision)
  <2> SUFFICES ASSUME u.gen # gen
               PROVE  Has(Applied(NoPage, u), revision, lines, lineRevision, history, revision)
    OBVIOUS
  <2>1. base = 0
    BY <1>3
  <2> HIDE DEF base
  <2>2. QED
    BY <1>2, <1>3, <2>1, AppliedHas
<1>8. Has(After(u, copy, upTo, gen), revision, lines, lineRevision, history, revision)
  <2>1. CASE u.gen = gen /\ ~(u.at > upTo)
    <3>1. upTo = revision
      BY <1>1, <1>3, <2>1
    <3>2. QED
      BY <1>3, <2>1, <3>1 DEF After
  <2>2. QED
    BY <1>6, <1>7, <2>1 DEF After
<1> HIDE DEF base, h, n
<1>9. Seen(u.gen, After(u, copy, upTo, gen)) = u.picture
  BY <1>3, <1>8, HasAll
<1>10. Fits(u, copy, upTo, gen)
  BY <1>1, <1>3, <1>8, <1>9 DEF Fits
<1>11. QED
  BY <1>3, <1>4, <1>10

\* What fits goes on fitting while the emulator draws.
LEMMA FitsStays ==
  ASSUME HostTypes, FeedsMoves, generation' = generation,
         NEW u, NEW copy, NEW upTo, NEW gen, u.at \in Nat, Fits(u, copy, upTo, gen)
  PROVE  Fits(u, copy, upTo, gen)'
<1> DEFINE c == After(u, copy, upTo, gen)
<1>1. /\ u.gen \in 1 .. generation /\ (u.gen = gen => upTo <= u.at)
      /\ u.gen = generation => /\ u.at <= revision
                               /\ Has(c, u.at, lines, lineRevision, history, revision)
      /\ Seen(u.gen, c) = u.picture
  BY DEF Fits
<1> HIDE DEF c
<1>2. revision \in Nat /\ revision' = revision + 1
  BY ScreenAssumption DEF HostTypes, FeedsMoves, ScreenAssumption
<1>3. u.gen = generation => /\ u.at <= revision + 1
                            /\ Has(c, u.at, lines', lineRevision', history', revision + 1)
  <2> SUFFICES ASSUME u.gen = generation
               PROVE  /\ u.at <= revision + 1
                      /\ Has(c, u.at, lines', lineRevision', history', revision + 1)
    OBVIOUS
  <2>1. u.at \in 0 .. revision
    BY <1>1, <1>2
  <2>2. /\ LinesMove(lines, lineRevision, revision, lines', lineRevision')
        /\ HistoryMoves(history, revision, history', discarded')
    BY DEF FeedsMoves
  <2>3. QED
    BY <1>1, <1>2, <2>1, <2>2, HasStays
<1>4. QED
  BY <1>1, <1>2, <1>3 DEF Fits, c
-----------------------------------------------------------------------------
(* Each id is in one place.                                                *)

LEMMA PageTakes ==
  ASSUME NEW ts \in Seq(Messages), NEW tp, tp \in Seq(Own(tp)), NEW st, NEW last \in Nat,
         OnePlace(ts, tp, st, last), tp # <<>>
  PROVE  /\ OnePlace(ts, Tail(tp), st, last) /\ Tail(tp) \in Seq(Own(Tail(tp)))
         /\ Free(Head(tp).sub, ts, Tail(tp), st)
<1>1. /\ Head(tp) = tp[1] /\ 1 \in DOMAIN tp /\ Tail(tp) \in Seq(Own(Tail(tp)))
      /\ \A i \in DOMAIN Tail(tp) :
           i + 1 \in DOMAIN tp /\ i + 1 # 1 /\ i \in Nat /\ Tail(tp)[i] = tp[i + 1]
  BY OwnRest
<1>2. \A i, j \in DOMAIN Tail(tp) : i + 1 = j + 1 => i = j
  BY <1>1
<1> DEFINE rest == Tail(tp)
<1> HIDE DEF rest
<1>3. OnePlace(ts, rest, st, last)
  BY <1>1, <1>2 DEF OnePlace, rest
<1>4. Free(Head(tp).sub, ts, rest, st)
  BY <1>1, <1>2 DEF OnePlace, Free, rest
<1>5. QED
  BY <1>1, <1>3, <1>4 DEF rest

LEMMA ServerTakes ==
  ASSUME NEW ts \in Seq(Messages), NEW tp, NEW st, NEW last \in Nat,
         OnePlace(ts, tp, st, last), ts # <<>>
  PROVE  /\ OnePlace(Tail(ts), tp, st, last) /\ Tail(ts) \in Seq(Messages)
         /\ Head(ts) \in Messages /\ Head(ts).sub <= last
         /\ Asked(Head(ts)) => Free(Head(ts).sub, Tail(ts), tp, st)
<1>1. /\ Head(ts) = ts[1] /\ 1 \in DOMAIN ts /\ Head(ts) \in Messages
      /\ Tail(ts) \in Seq(Messages)
      /\ \A i \in DOMAIN Tail(ts) :
           i + 1 \in DOMAIN ts /\ i + 1 # 1 /\ i \in Nat /\ Tail(ts)[i] = ts[i + 1]
  BY Rest
<1>2. \A i, j \in DOMAIN Tail(ts) : i + 1 = j + 1 => i = j
  BY <1>1
<1> DEFINE rest == Tail(ts)
<1> HIDE DEF rest
<1>3. OnePlace(rest, tp, st, last) /\ Head(ts).sub <= last
  BY <1>1, <1>2 DEF OnePlace, rest
<1>4. Asked(Head(ts)) => Free(Head(ts).sub, rest, tp, st)
  BY <1>1, <1>2 DEF OnePlace, Free, rest
<1>5. QED
  BY <1>1, <1>3, <1>4 DEF rest

LEMMA Sends ==
  ASSUME NEW ts \in Seq(Messages), NEW tp, NEW st, NEW last \in Nat,
         OnePlace(ts, tp, st, last), NEW m \in Messages, m.sub <= last,
         Asked(m) => Free(m.sub, ts, tp, st)
  PROVE  OnePlace(Append(ts, m), tp, st, last) /\ Append(ts, m) \in Seq(Messages)
<1> DEFINE new == Append(ts, m)
           n == Len(ts) + 1
<1>1. /\ new \in Seq(Messages) /\ new[n] = m /\ n \notin DOMAIN ts
      /\ \A i \in DOMAIN new : (i \in DOMAIN ts /\ new[i] = ts[i]) \/ i = n
  BY Added
<1> HIDE DEF new, n
<1>2. OnePlace(new, tp, st, last)
  BY <1>1 DEF OnePlace, Free
<1>3. QED
  BY <1>1, <1>2 DEF new

LEMMA Posts ==
  ASSUME NEW ts, NEW tp, tp \in Seq(Own(tp)), NEW st, NEW last \in Nat,
         OnePlace(ts, tp, st, last), NEW u, u.sub <= last, Free(u.sub, ts, tp, st)
  PROVE  OnePlace(ts, Append(tp, u), st, last) /\ Append(tp, u) \in Seq(Own(Append(tp, u)))
<1> DEFINE new == Append(tp, u)
           n == Len(tp) + 1
<1>1. /\ new \in Seq(Own(new)) /\ new[n] = u /\ n \notin DOMAIN tp
      /\ \A i \in DOMAIN new : (i \in DOMAIN tp /\ new[i] = tp[i]) \/ i = n
  BY OwnAdded
<1> HIDE DEF new, n
<1>2. OnePlace(ts, new, st, last)
  BY <1>1 DEF OnePlace, Free
<1>3. QED
  BY <1>1, <1>2 DEF new

LEMMA NewId ==
  ASSUME NEW ts \in Seq(Messages), NEW tp, \A i \in DOMAIN tp : tp[i].sub \in Nat,
         NEW st, st.sub \in Nat, NEW last \in Nat, OnePlace(ts, tp, st, last)
  PROVE  OnePlace(ts, tp, st, last + 1) /\ Free(last + 1, ts, tp, st)
<1>1. \A i \in DOMAIN ts : ts[i].sub \in Nat
  <2>1. \A i \in DOMAIN ts : ts[i] \in Messages
    OBVIOUS
  <2>2. QED
    BY <2>1 DEF Messages
<1>2. QED
  BY <1>1 DEF OnePlace, Free

\* The server's subscription becomes another, or another state of it.
LEMMA Becomes ==
  ASSUME NEW ts, NEW tp, NEW st, NEW last,
         OnePlace(ts, tp, st, last), NEW st2, st2.sub <= last,
         st2.credit = NoPos \/ st2.asked = NoPos,
         AtServer(st2) => /\ \A i \in DOMAIN ts : Asked(ts[i]) => ts[i].sub # st2.sub
                          /\ \A i \in DOMAIN tp : tp[i].sub # st2.sub
  PROVE  OnePlace(ts, tp, st2, last)
BY DEF OnePlace

LEMMA Nowhere ==
  ASSUME NEW last \in Nat
  PROVE  /\ OnePlace(<<>>, <<>>, NoStream, last)
         /\ \A tp, st, ts : OnePlace(ts, tp, st, last) => OnePlace(<<>>, tp, st, last)
         /\ <<>> \in Seq(Own(<<>>)) /\ <<>> \in Seq(Messages)
<1>1. DOMAIN <<>> = {}
  OBVIOUS
<1>2. OnePlace(<<>>, <<>>, NoStream, last)
  BY <1>1 DEF OnePlace, NoStream, NoPos, AtServer
<1>3. \A tp, st, ts : OnePlace(ts, tp, st, last) => OnePlace(<<>>, tp, st, last)
  BY <1>1 DEF OnePlace
<1>4. QED
  BY <1>2, <1>3

LEMMA MessageType ==
  ASSUME NEW k \in {"subscribe", "unsubscribe", "credit"}, NEW id \in Nat,
         NEW pos, pos.at \in Nat, pos.gen \in 0 .. MaxSessions
  PROVE  /\ Message(k, id, pos) \in Messages /\ Message(k, id, pos).sub = id
         /\ Message(k, id, pos).kind = k
         /\ Accepts(Message(k, id, pos)) = [at |-> pos.at, gen |-> pos.gen]
BY DEF Message, Messages, Accepts
-----------------------------------------------------------------------------
(* The steps of the terminal.                                              *)

LEMMA Parts ==
  ASSUME IInv
  PROVE  /\ HostTypes /\ LinkTypes /\ PageTypes
         /\ toPage \in Seq(Own(toPage)) /\ toServer \in Seq(Messages) /\ sub \in Nat
         /\ OnePlace(toServer, toPage, stream, sub)
         /\ stream.sub \in Nat /\ stream.credit \in Pos /\ stream.asked \in Pos
         /\ \A i \in DOMAIN toPage : UpdateOK(toPage[i]) /\ toPage[i].sub \in Nat
         /\ revision \in Nat \ {0} /\ generation \in Nat \ {0}
         /\ at \in Nat /\ pageGen \in Nat
<1>1. HostTypes /\ LinkTypes /\ PageTypes /\ OneInv
  BY AllTyped DEF IInv
<1>2. /\ revision \in Nat \ {0} /\ generation \in Nat \ {0}
      /\ at \in Nat /\ pageGen \in Nat
  BY <1>1, ScreenAssumption DEF HostTypes, PageTypes, ScreenAssumption
<1>3. \A i \in DOMAIN toPage : UpdateOK(toPage[i]) /\ toPage[i].sub \in Nat
  BY <1>1 DEF LinkTypes, UpdateOK
<1>4. QED
  BY <1>1, <1>2, <1>3 DEF LinkTypes, PageTypes, OneInv, Own

LEMMA Whole ==
  ASSUME HostTypes', LinkTypes', PageTypes', OneInv', PosInv', PageInv', ComingInv'
  PROVE  IInv'
<1>1. EmulatorInv'
  BY DEF HostTypes, EmulatorInv, LinesOK, HistoryOK
<1>2. /\ LinesOK(lines', lineRevision', revision')
      /\ HistoryOK(history', discarded', revision')
  BY DEF HostTypes
<1>3. /\ Cardinality(DOMAIN lines') \in Heights
      /\ DOMAIN history' = Keys' /\ Cardinality(DOMAIN history') \in 0 .. HistoryLimit
  BY <1>2, RowCount, HistorySize DEF Keys
<1>4. (Cardinality(Keys) <= HistoryLimit)'
  BY <1>3, ScreenAssumption DEF ScreenAssumption
<1>5. TypeOK'
  BY <1>1, <1>2, <1>3, <1>4 DEF TypeOK, HostTypes, LinkTypes, PageTypes, LinesOK, HistoryOK
<1>6. QED
  BY <1>1, <1>5 DEF IInv

LEMMA LinkSame ==
  ASSUME IInv, UNCHANGED <<linkVars, pageVars>>
  PROVE  LinkTypes' /\ PageTypes' /\ OneInv' /\ PosInv'
<1>1. LinkTypes /\ PageTypes /\ OneInv /\ PosInv
  BY AllTyped DEF IInv
<1>2. LinkTypes' /\ PageTypes'
  BY <1>1 DEF LinkTypes, PageTypes
<1>3. OneInv' /\ PosInv'
  BY <1>1 DEF OneInv, PosInv
<1>4. QED
  BY <1>2, <1>3

LEMMA DrawKeeps ==
  ASSUME IInv, FeedsMoves, revision < MaxRevision, unread' \in 0 .. MaxUnread,
         UNCHANGED <<generation, up, hosts, alive, linkVars, pageVars>>
  PROVE  IInv'
<1>1. HostTypes /\ LinkTypes /\ PageTypes /\ PageInv /\ ComingInv
  BY AllTyped DEF IInv
<1>2. /\ revision \in Nat /\ revision' = revision + 1 /\ revision' \in 1 .. MaxRevision
      /\ at \in Nat
      /\ LinesMove(lines, lineRevision, revision, lines', lineRevision')
      /\ HistoryMoves(history, revision, history', discarded')
  BY <1>1, ScreenAssumption DEF FeedsMoves, HostTypes, PageTypes, ScreenAssumption
<1>3. HostTypes'
  <2>1. /\ LinesOK(lines', lineRevision', revision')
        /\ HistoryOK(history', discarded', revision')
    BY <1>2 DEF LinesMove, HistoryMoves
  <2>2. QED
    BY <1>1, <1>2, <2>1 DEF HostTypes
<1>4. PageInv'
  <2>1. pageGen' <= generation' /\ pageGen' = pageGen /\ generation' = generation
        /\ at' = at /\ page' = page
    BY <1>1 DEF PageInv
  <2>2. pageGen = generation =>
          /\ at <= revision + 1
          /\ Has(page, at, lines', lineRevision', history', revision + 1)
    <3> SUFFICES ASSUME pageGen = generation
                 PROVE  /\ at <= revision + 1
                        /\ Has(page, at, lines', lineRevision', history', revision + 1)
      OBVIOUS
    <3>1. at <= revision /\ Has(page, at, lines, lineRevision, history, revision)
      BY <1>1 DEF PageInv
    <3>2. at \in 0 .. revision
      BY <1>2, <3>1
    <3>3. QED
      BY <1>2, <3>1, <3>2, HasStays
  <2>3. QED
    BY <1>2, <2>1, <2>2 DEF PageInv
<1>5. \A u, copy, upTo, gen :
        u.at \in Nat /\ Fits(u, copy, upTo, gen) => Fits(u, copy, upTo, gen)'
  BY <1>1, FitsStays
<1>6. ComingInv'
  <2>1. boot.at \in Nat /\ \A i \in DOMAIN toPage : toPage[i].at \in Nat
    BY <1>1, ScreenAssumption DEF LinkTypes, PageTypes, UpdateOK, ScreenAssumption
  <2>2. boot' # NoUpdate => pageGen' = 0 /\ Fits(boot, NoPage, 0, 0)'
    <3> SUFFICES ASSUME NEW b, b = boot, b # NoUpdate
                 PROVE  pageGen' = 0 /\ Fits(b, NoPage, 0, 0)'
      BY DEF Fits
    <3>1. QED
      BY <1>1, <1>5, <2>1 DEF ComingInv
  <2>3. ASSUME NEW i \in DOMAIN toPage, Current(toPage[i]), toPage[i].gen # 0
        PROVE  Fits(toPage[i], page, at, pageGen)'
    <3>1. Fits(toPage[i], page, at, pageGen)
      BY <1>1, <2>3 DEF ComingInv
    <3>2. ASSUME NEW u, NEW copy, NEW upTo, NEW gen,
                 u = toPage[i], copy = page, upTo = at, gen = pageGen
          PROVE  Fits(u, copy, upTo, gen)'
      BY <1>5, <2>1, <3>1, <3>2
    <3>3. QED
      BY <3>2 DEF Fits
  <2>4. QED
    BY <2>2, <2>3 DEF ComingInv, Current
<1>7. QED
  BY <1>3, <1>4, <1>6, LinkSame, Whole

\* What leaves the picture as it is, and the session.
LEMMA HostSame ==
  ASSUME IInv, HostTypes',
         UNCHANGED <<revision, lines, lineRevision, history, generation, linkVars, pageVars>>
  PROVE  IInv'
<1>1. PageInv /\ ComingInv
  BY DEF IInv
<1>2. PageInv' /\ ComingInv'
  BY <1>1 DEF PageInv, ComingInv, Fits, Current
<1>3. QED
  BY <1>2, LinkSame, Whole

LEMMA NewEmulatorTypes ==
  ASSUME NEW h \in Heights, NewEmulator(h)
  PROVE  /\ LinesOK(lines', lineRevision', revision')
         /\ HistoryOK(history', discarded', revision')
         /\ revision' = 1
<1>1. /\ revision' = 1 /\ lines' = [r \in 1 .. h |-> Blank]
      /\ lineRevision' = [r \in 1 .. h |-> 1] /\ history' = <<>> /\ discarded' = 0
  BY DEF NewEmulator
<1>2. LinesOK(lines', lineRevision', revision')
  BY <1>1, ScreenAssumption DEF LinesOK, Line, ScreenAssumption
<1>3. DOMAIN history' = {} /\ 0 .. 0 + 0 - 1 = {}
  BY <1>1
<1>4. 0 \in 0 .. HistoryLimit
  BY ScreenAssumption DEF ScreenAssumption
<1>5. HistoryOK(history', discarded', revision')
  BY <1>1, <1>3, <1>4 DEF HistoryOK
<1>6. QED
  BY <1>1, <1>2, <1>5

\* Another session: nothing that a page has or will have is of it.
LEMMA SessionKeeps ==
  ASSUME IInv, NEW h \in Heights, NewEmulator(h),
         generation' \in 1 .. MaxSessions, hosts' \in 1 .. MaxSessions,
         up' \in BOOLEAN, alive' \in BOOLEAN, unread' \in 0 .. MaxUnread,
         UNCHANGED <<linkVars, pageVars>>,
         generation' = generation + 1 \/ (pageGen = 0 /\ boot = NoUpdate /\ polling # "on")
  PROVE  IInv'
<1>1. /\ HostTypes /\ LinkTypes /\ PageTypes /\ PageInv /\ ComingInv
      /\ generation \in Nat /\ pageGen \in Nat
  BY Parts DEF IInv
<1>2. HostTypes'
  <2>1. 1 \in 1 .. MaxRevision
    BY ScreenAssumption DEF ScreenAssumption
  <2>2. QED
    BY <2>1, NewEmulatorTypes DEF HostTypes
<1>3. CASE generation' = generation + 1
  <2>1. PageInv'
    BY <1>1, <1>3 DEF PageInv
  <2>2. \A u : u.gen \in 1 .. generation => u.gen # generation' /\ u.gen \in 1 .. generation'
    BY <1>1, <1>3
  <2>3. ComingInv'
    BY <1>1, <2>2 DEF ComingInv, Fits, Current
  <2>4. QED
    BY <1>2, <2>1, <2>3, LinkSame, Whole
<1>4. CASE pageGen = 0 /\ boot = NoUpdate /\ polling # "on"
  <2>1. generation' \in Nat \ {0}
    OBVIOUS
  <2>2. PageInv'
    BY <1>4, <2>1 DEF PageInv
  <2>3. ComingInv'
    BY <1>4 DEF ComingInv, Current
  <2>4. QED
    BY <1>2, <2>2, <2>3, LinkSame, Whole
<1>5. QED
  BY <1>3, <1>4

HostSteps ==
  \/ Feeds \/ ShellWrites \/ ShellExits \/ Dies
  \/ \E h \in Heights : Resizes(h) \/ SessionStarts(h) \/ Respawns(h)

LEMMA HostKeeps ==
  ASSUME StalePages = FALSE, IInv, HostSteps
  PROVE  IInv'
<1>1. HostTypes /\ PosInv /\ generation \in Nat /\ hosts \in Nat /\ unread \in Nat
  BY Parts, ScreenAssumption DEF IInv, HostTypes, ScreenAssumption
<1>2. MaxRevision \in Nat \ {0} /\ MaxUnread \in Nat /\ MaxSessions \in Nat
  BY <1>1, ScreenAssumption DEF HostTypes, ScreenAssumption
<1>3. CASE Feeds
  <2>1. FeedsMoves
    BY <1>1, <1>3, FeedsMove
  <2>2. unread' \in 0 .. MaxUnread
    BY <1>1, <1>2, <1>3 DEF Feeds, HostTypes
  <2>3. QED
    BY <1>3, <2>1, <2>2, DrawKeeps DEF Feeds
<1>4. ASSUME NEW h \in Heights, Resizes(h)
      PROVE  IInv'
  <2>1. FeedsMoves
    BY <1>1, <1>4, ResizesMove
  <2>2. unread' \in 0 .. MaxUnread
    BY <1>1, <1>4 DEF Resizes, HostTypes
  <2>3. QED
    BY <1>4, <2>1, <2>2, DrawKeeps DEF Resizes
<1>5. CASE ShellWrites \/ ShellExits \/ Dies
  <2>1. /\ UNCHANGED <<revision, lines, lineRevision, history, discarded, generation,
                        hosts>>
        /\ up' \in BOOLEAN /\ alive' \in BOOLEAN /\ unread' \in 0 .. MaxUnread
    <3>1. up \in BOOLEAN /\ alive \in BOOLEAN /\ unread \in 0 .. MaxUnread
      BY <1>1 DEF HostTypes
    <3>2. unread < MaxUnread => unread + 1 \in 0 .. MaxUnread
      BY <1>1, <1>2
    <3>3. QED
      BY <1>5, <3>1, <3>2 DEF ShellWrites, ShellExits, Dies
  <2>0. HostTypes'
    BY <1>1, <2>1 DEF HostTypes
  <2>2. QED
    BY <1>5, <2>0, <2>1, HostSame DEF ShellWrites, ShellExits, Dies
<1>6. ASSUME NEW h \in Heights, SessionStarts(h)
      PROVE  IInv'
  <2>1. generation + 1 \in 1 .. MaxSessions
    BY <1>1, <1>2, <1>6 DEF SessionStarts
  <2>2. QED
    BY <1>1, <1>2, <1>6, <2>1, SessionKeeps DEF SessionStarts, HostTypes
<1>7. ASSUME NEW h \in Heights, Respawns(h)
      PROVE  IInv'
  <2>1. hosts + 1 \in 1 .. MaxSessions /\ 1 \in 1 .. MaxSessions /\ 0 \in 0 .. MaxUnread
    BY <1>1, <1>2, <1>7 DEF Respawns, HostTypes
  <2>2. pageGen = 0 /\ boot = NoUpdate /\ polling # "on"
    BY <1>1, <1>7 DEF Respawns, PosInv
  <2>3. QED
    BY <1>2, <1>7, <2>1, <2>2, SessionKeeps DEF Respawns
<1>8. QED
  BY <1>3, <1>4, <1>5, <1>6, <1>7 DEF HostSteps
-----------------------------------------------------------------------------
(* The steps of the server.                                                *)

\* While the terminal and the page's copy stay as they are.
LEMMA CopySame ==
  ASSUME IInv, UNCHANGED <<hostVars, at, pageGen, page, boot>>
  PROVE  /\ HostTypes' /\ PageInv'
         /\ boot' # NoUpdate => pageGen' = 0 /\ Fits(boot, NoPage, 0, 0)'
<1>1. HostTypes /\ PageInv /\ ComingInv
  BY Parts DEF IInv
<1>2. HostTypes'
  BY <1>1 DEF HostTypes
<1>3. PageInv'
  BY <1>1 DEF PageInv
<1>4. QED
  BY <1>1, <1>2, <1>3 DEF ComingInv, Fits

LEMMA ServerKeeps ==
  ASSUME IInv, UNCHANGED <<hostVars, pageVars, open, cuts>>, LinkTypes', OneInv',
         polling = "on" =>
           AskedFrom([at |-> at, gen |-> pageGen], toServer', stream', sub),
         \A i \in DOMAIN toPage' :
           Current(toPage'[i]) /\ toPage'[i].gen # 0 =>
             \/ \E j \in DOMAIN toPage : toPage'[i] = toPage[j]
             \/ Fits(toPage'[i], page, at, pageGen)
  PROVE  IInv'
<1>1. PageTypes /\ PosInv /\ ComingInv
  BY Parts DEF IInv
<1>2. PageTypes'
  BY <1>1 DEF PageTypes
<1>3. PosInv'
  BY <1>1 DEF PosInv
<1>4. ComingInv'
  <2>1. \A i \in DOMAIN toPage' :
          Current(toPage'[i]) /\ toPage'[i].gen # 0 => Fits(toPage'[i], page, at, pageGen)
    BY <1>1 DEF ComingInv
  <2>2. QED
    BY <2>1, CopySame DEF ComingInv, Fits, Current
<1>5. QED
  BY <1>2, <1>3, <1>4, CopySame, Whole

LEMMA ServerReceivesKeeps ==
  ASSUME IInv, ServerReceives
  PROVE  IInv'
<1> DEFINE m == Head(toServer)
           rest == Tail(toServer)
<1>1. /\ toServer \in Seq(Messages) /\ sub \in Nat /\ LinkTypes
      /\ OnePlace(toServer, toPage, stream, sub) /\ OneInv
      /\ stream.sub \in Nat /\ stream.credit \in Pos /\ stream.asked \in Pos
      /\ stream \in [sub : Nat, credit : Pos, asked : Pos]
  BY Parts DEF IInv, LinkTypes
<1>2. toServer # <<>> /\ toServer' = rest /\ toPage' = toPage
  BY DEF ServerReceives
<1>3. /\ OnePlace(rest, toPage, stream, sub) /\ rest \in Seq(Messages)
      /\ m \in Messages /\ m.sub <= sub
      /\ Asked(m) => Free(m.sub, rest, toPage, stream)
  BY <1>1, <1>2, ServerTakes
<1>4. /\ m = toServer[1] /\ 1 \in DOMAIN toServer
      /\ \A i \in DOMAIN rest : i + 1 \in DOMAIN toServer /\ rest[i] = toServer[i + 1]
  BY <1>1, <1>2, Rest
<1>5. /\ m.sub \in Nat /\ m.kind \in {"subscribe", "unsubscribe", "credit"}
      /\ Accepts(m) \in Pos /\ NoPos \in Pos
  BY <1>3, ScreenAssumption DEF Messages, Accepts, Pos, NoPos, ScreenAssumption
<1>6. \/ /\ m.kind = "subscribe"
         /\ stream' = [sub |-> m.sub, credit |-> Accepts(m), asked |-> NoPos]
      \/ m.kind = "unsubscribe" /\ stream' = NoStream
      \/ /\ m.kind = "credit" /\ m.sub = stream.sub
         /\ stream' = [stream EXCEPT !.credit = Accepts(m)]
      \/ stream' = stream
  BY <1>5 DEF ServerReceives
<1> HIDE DEF m, rest
<1>7. /\ stream' \in [sub : Nat, credit : Pos, asked : Pos]
      /\ OnePlace(rest, toPage, stream', sub)
  <2>1. CASE /\ m.kind = "subscribe"
             /\ stream' = [sub |-> m.sub, credit |-> Accepts(m), asked |-> NoPos]
    <3>1. stream' \in [sub : Nat, credit : Pos, asked : Pos] /\ stream'.sub = m.sub
      BY <1>5, <2>1
    <3>2. Free(m.sub, rest, toPage, stream)
      BY <1>3, <2>1 DEF Asked
    <3>3. stream'.sub <= sub /\ stream'.asked = NoPos
      BY <1>3, <2>1
    <3>4. OnePlace(rest, toPage, stream', sub)
      BY <1>3, <3>1, <3>2, <3>3, Becomes DEF Free
    <3>5. QED
      BY <3>1, <3>4
  <2>2. CASE m.kind = "unsubscribe" /\ stream' = NoStream
    <3>1. /\ stream' \in [sub : Nat, credit : Pos, asked : Pos] /\ ~AtServer(stream')
          /\ stream'.sub <= sub /\ stream'.asked = NoPos
      BY <1>1, <1>5, <2>2 DEF NoStream, AtServer
    <3>2. OnePlace(rest, toPage, stream', sub)
      BY <1>3, <3>1, Becomes
    <3>3. QED
      BY <3>1, <3>2
  <2>3. CASE /\ m.kind = "credit" /\ m.sub = stream.sub
             /\ stream' = [stream EXCEPT !.credit = Accepts(m)]
    <3>1. /\ stream' \in [sub : Nat, credit : Pos, asked : Pos]
          /\ stream'.sub = stream.sub /\ stream'.asked = stream.asked
      BY <1>1, <1>5, <2>3
    <3>2. Free(m.sub, rest, toPage, stream)
      BY <1>3, <2>3 DEF Asked
    <3>3. stream.asked = NoPos
      BY <2>3, <3>2 DEF Free, AtServer
    <3>4. stream'.sub <= sub
      BY <1>1, <3>1 DEF OnePlace
    <3>5. OnePlace(rest, toPage, stream', sub)
      BY <1>3, <2>3, <3>1, <3>2, <3>3, <3>4, Becomes DEF Free
    <3>6. QED
      BY <3>1, <3>5
  <2>4. CASE stream' = stream
    BY <1>1, <1>3, <2>4
  <2>5. QED
    BY <1>6, <2>1, <2>2, <2>3, <2>4
<1>8. LinkTypes' /\ OneInv'
  BY <1>1, <1>2, <1>3, <1>7 DEF LinkTypes, OneInv, ServerReceives
<1>9. polling = "on" => AskedFrom([at |-> at, gen |-> pageGen], toServer', stream', sub)
  <2> SUFFICES ASSUME NEW pos, pos = [at |-> at, gen |-> pageGen], polling = "on"
               PROVE  AskedFrom(pos, rest, stream', sub)
    BY <1>2
  <2>1. AskedFrom(pos, toServer, stream, sub)
    BY DEF IInv, PosInv
  <2>2. /\ \A i \in DOMAIN rest : Asked(rest[i]) /\ rest[i].sub = sub => Accepts(rest[i]) = pos
        /\ Asked(m) /\ m.sub = sub => Accepts(m) = pos
    BY <1>4, <2>1 DEF AskedFrom
  <2>3. stream'.sub = sub => stream'.credit \in {NoPos, pos} /\ stream'.asked \in {NoPos, pos}
    BY <1>1, <1>6, <2>1, <2>2 DEF AskedFrom, Asked, NoStream
  <2>4. QED
    BY <2>2, <2>3 DEF AskedFrom
<1>10. QED
  BY <1>2, <1>8, <1>9, ServerKeeps DEF ServerReceives

LEMMA AsksKeeps ==
  ASSUME IInv, Asks
  PROVE  IInv'
<1>1. /\ OnePlace(toServer, toPage, stream, sub) /\ OneInv /\ LinkTypes
      /\ stream \in [sub : Nat, credit : Pos, asked : Pos]
  BY Parts DEF IInv, LinkTypes
<1>2. /\ stream' = [stream EXCEPT !.asked = stream.credit, !.credit = NoPos]
      /\ stream.credit # NoPos
  BY DEF Asks, LeftCredit
<1>3. NoPos \in Pos
  BY ScreenAssumption DEF Pos, NoPos, ScreenAssumption
<1>4. /\ stream' \in [sub : Nat, credit : Pos, asked : Pos]
      /\ stream'.sub = stream.sub /\ stream'.credit = NoPos /\ stream'.asked = stream.credit
  BY <1>1, <1>2, <1>3
<1>5. AtServer(stream)
  BY <1>2 DEF AtServer
<1>6. OnePlace(toServer, toPage, stream', sub)
  BY <1>1, <1>4, <1>5 DEF OnePlace
<1>7. LinkTypes' /\ OneInv'
  BY <1>1, <1>4, <1>6 DEF LinkTypes, OneInv, Asks
<1>8. polling = "on" => AskedFrom([at |-> at, gen |-> pageGen], toServer', stream', sub)
  <2> SUFFICES ASSUME NEW pos, pos = [at |-> at, gen |-> pageGen], polling = "on"
               PROVE  AskedFrom(pos, toServer, stream', sub)
    BY DEF Asks
  <2>1. AskedFrom(pos, toServer, stream, sub)
    BY DEF IInv, PosInv
  <2>2. QED
    BY <1>4, <2>1 DEF AskedFrom
<1>9. QED
  BY <1>7, <1>8, ServerKeeps DEF Asks

LEMMA UnreachableType ==
  ASSUME NEW absent \in BOOLEAN, NEW id \in Nat
  PROVE  /\ UpdateOK(Unreachable(absent, id)) /\ Unreachable(absent, id).sub = id
         /\ Unreachable(absent, id).gen = 0
<1> DEFINE u == Unreachable(absent, id)
<1>1. /\ u.sub = id /\ u.gen = 0 /\ u.at = 0 /\ u.height = 0 /\ u.start = 0 /\ u.count = 0
      /\ u.running \in BOOLEAN /\ DOMAIN u.rows = {} /\ DOMAIN u.old = {}
  BY DEF Unreachable, NoUpdate
<1>2. 0 \in 0 .. MaxSessions /\ 0 \in 0 .. MaxRevision /\ 0 \in 0 .. HistoryLimit
  BY ScreenAssumption DEF ScreenAssumption
<1> HIDE DEF u
<1>3. UpdateOK(u)
  BY <1>1, <1>2 DEF UpdateOK
<1>4. QED
  BY <1>1, <1>3 DEF u

LEMMA AnswersKeeps ==
  ASSUME IInv, Answers
  PROVE  IInv'
<1>1. /\ OnePlace(toServer, toPage, stream, sub) /\ OneInv /\ LinkTypes /\ HostTypes
      /\ stream \in [sub : Nat, credit : Pos, asked : Pos]
      /\ toPage \in Seq(Own(toPage)) /\ sub \in Nat
      /\ \A i \in DOMAIN toPage : UpdateOK(toPage[i])
  BY Parts DEF IInv, LinkTypes
<1>2. /\ stream' = [stream EXCEPT !.asked = NoPos] /\ stream.asked # NoPos
      /\ toServer' = toServer
  BY DEF Answers
<1>3. PICK u : /\ toPage' = Append(toPage, u)
               /\ \/ u = Update(stream.asked, stream.sub)
                  \/ \E absent \in BOOLEAN : u = Unreachable(absent, stream.sub)
  BY DEF Answers
<1>4. UpdateOK(u) /\ u.sub = stream.sub
  BY <1>1, <1>3, UpdateType, UnreachableType
<1>5. NoPos \in Pos
  BY ScreenAssumption DEF Pos, NoPos, ScreenAssumption
<1>6. /\ stream' \in [sub : Nat, credit : Pos, asked : Pos]
      /\ stream'.sub = stream.sub /\ stream'.asked = NoPos /\ stream'.credit = NoPos
      /\ ~AtServer(stream') /\ AtServer(stream)
  BY <1>1, <1>2, <1>5 DEF OnePlace, AtServer
<1>7. OnePlace(toServer, toPage, stream', sub) /\ Free(u.sub, toServer, toPage, stream')
  BY <1>1, <1>4, <1>6 DEF OnePlace, Free
<1>8. u.sub <= sub
  BY <1>1, <1>4 DEF OnePlace
<1>9. OnePlace(toServer, toPage', stream', sub) /\ toPage' \in Seq(Own(toPage'))
  BY <1>1, <1>3, <1>7, <1>8, Posts
<1>10. \A i \in DOMAIN toPage' : toPage'[i] = u \/ \E j \in DOMAIN toPage : toPage'[i] = toPage[j]
  BY <1>1, <1>3, OwnAdded
<1>11. LinkTypes' /\ OneInv'
  <2>1. \A i \in DOMAIN toPage' : UpdateOK(toPage'[i])
    BY <1>1, <1>4, <1>10
  <2>2. QED
    BY <1>1, <1>2, <1>6, <1>9, <2>1 DEF LinkTypes, OneInv, Own, Answers
<1>12. polling = "on" => AskedFrom([at |-> at, gen |-> pageGen], toServer', stream', sub)
  <2> SUFFICES ASSUME NEW pos, pos = [at |-> at, gen |-> pageGen], polling = "on"
               PROVE  AskedFrom(pos, toServer, stream', sub)
    BY <1>2
  <2>1. AskedFrom(pos, toServer, stream, sub)
    BY DEF IInv, PosInv
  <2>2. QED
    BY <1>6, <2>1 DEF AskedFrom
<1>13. Current(u) /\ u.gen # 0 => Fits(u, page, at, pageGen)
  <2> SUFFICES ASSUME Current(u), u.gen # 0
               PROVE  Fits(u, page, at, pageGen)
    OBVIOUS
  <2>1. u = Update(stream.asked, stream.sub)
    BY <1>1, <1>3, UnreachableType
  <2>2. stream.sub = sub /\ polling = "on"
    BY <1>4 DEF Current
  <2>3. stream.asked = [at |-> at, gen |-> pageGen]
    BY <1>2, <2>2 DEF IInv, PosInv, AskedFrom
  <2>4. /\ at \in Nat /\ pageGen \in Nat /\ pageGen <= generation
        /\ pageGen = generation =>
             at <= revision /\ Has(page, at, lines, lineRevision, history, revision)
    BY Parts DEF IInv, PageInv
  <2>5. QED
    BY <1>1, <2>1, <2>3, <2>4, UpdateFits
<1>14. QED
  BY <1>10, <1>11, <1>12, <1>13, ServerKeeps DEF Answers

LEMMA PageDropsKeeps ==
  ASSUME IInv, PageDrops
  PROVE  IInv'
<1>1. /\ OnePlace(toServer, toPage, stream, sub) /\ LinkTypes
      /\ toPage \in Seq(Own(toPage)) /\ sub \in Nat /\ toServer \in Seq(Messages)
      /\ \A i \in DOMAIN toPage : UpdateOK(toPage[i])
  BY Parts
<1>2. toPage # <<>> /\ toPage' = Tail(toPage) /\ UNCHANGED <<stream, toServer>>
  BY DEF PageDrops
<1>3. OnePlace(toServer, toPage', stream, sub) /\ toPage' \in Seq(Own(toPage'))
  BY <1>1, <1>2, PageTakes
<1>4. \A i \in DOMAIN toPage' : \E j \in DOMAIN toPage : toPage'[i] = toPage[j]
  BY <1>1, <1>2, OwnRest
<1>5. LinkTypes' /\ OneInv'
  <2>1. \A i \in DOMAIN toPage' : UpdateOK(toPage'[i])
    BY <1>1, <1>4
  <2>2. QED
    BY <1>1, <1>2, <1>3, <2>1 DEF LinkTypes, OneInv, Own, PageDrops
<1>6. polling = "on" => AskedFrom([at |-> at, gen |-> pageGen], toServer', stream', sub)
  BY <1>2 DEF IInv, PosInv
<1>7. QED
  BY <1>4, <1>5, <1>6, ServerKeeps DEF PageDrops
-----------------------------------------------------------------------------
(* The steps of the page.                                                  *)

LEMMA NoUpdateType == UpdateOK(NoUpdate)
<1>1. /\ 0 \in 0 .. MaxSessions /\ 0 \in 0 .. MaxRevision /\ 0 \in 0 .. HistoryLimit
      /\ DOMAIN <<>> = {}
  BY ScreenAssumption DEF ScreenAssumption
<1>2. QED
  BY <1>1 DEF UpdateOK, NoUpdate

\* A new subscription: its request, if any, is all there is of it.
LEMMA NewSubscription ==
  ASSUME NEW ts \in Seq(Messages), NEW tp, \A i \in DOMAIN tp : tp[i].sub \in Nat,
         NEW st, st.sub \in Nat, NEW last \in Nat, OnePlace(ts, tp, st, last),
         NEW pos, pos.at \in Nat, pos.gen \in 0 .. MaxSessions,
         pos = [at |-> pos.at, gen |-> pos.gen],
         NEW ts2, ts2 = ts \/ ts2 = Append(ts, Message("subscribe", last + 1, pos))
  PROVE  /\ ts2 \in Seq(Messages) /\ OnePlace(ts2, tp, st, last + 1)
         /\ AskedFrom(pos, ts2, st, last + 1)
         /\ \A i \in DOMAIN tp : tp[i].sub # last + 1
<1> DEFINE m == Message("subscribe", last + 1, pos)
<1>1. OnePlace(ts, tp, st, last + 1) /\ Free(last + 1, ts, tp, st) /\ last + 1 \in Nat
  <2>1. OnePlace(ts, tp, st, last + 1) /\ Free(last + 1, ts, tp, st)
    BY NewId
  <2>2. QED
    BY <2>1
<1>2. m \in Messages /\ m.sub = last + 1 /\ Accepts(m) = pos
  BY <1>1, MessageType
<1>3. m.sub <= last + 1
  BY <1>1, <1>2
<1> HIDE DEF m
<1>4. ts2 \in Seq(Messages) /\ OnePlace(ts2, tp, st, last + 1)
  BY <1>1, <1>2, <1>3, Sends DEF m
<1>5. \A i \in DOMAIN ts2 : (i \in DOMAIN ts /\ ts2[i] = ts[i]) \/ ts2[i] = m
  BY <1>2, Added DEF m
<1>6. st.sub # last + 1
  BY DEF OnePlace
<1>7. QED
  BY <1>1, <1>2, <1>4, <1>5, <1>6 DEF AskedFrom, Free

\* The page subscribes, with or without a connection.
LEMMA SubscribesKeeps ==
  ASSUME IInv, UNCHANGED <<hostVars, stream, toPage>>,
         NEW ts \in Seq(Messages), OnePlace(ts, toPage, stream, sub),
         open' \in BOOLEAN, cuts' \in 0 .. MaxCuts,
         PageInv', at' \in 0 .. MaxRevision, pageGen' \in 1 .. MaxSessions,
         boot' = NoUpdate, polling' = "on", sub' = sub + 1,
         \/ toServer' = ts
         \/ toServer' = Append(ts, Message("subscribe", sub + 1, [at |-> at', gen |-> pageGen']))
  PROVE  IInv'
<1> DEFINE pos == [at |-> at', gen |-> pageGen']
<1>1. /\ sub \in Nat /\ stream.sub \in Nat /\ HostTypes /\ LinkTypes /\ OneInv
      /\ \A i \in DOMAIN toPage : toPage[i].sub \in Nat
  BY Parts DEF IInv
<1>2. /\ pos.at \in Nat /\ pos.gen \in 0 .. MaxSessions /\ pos = [at |-> pos.at, gen |-> pos.gen]
      /\ pageGen' # 0 /\ pageGen' \in 0 .. MaxSessions
  BY ScreenAssumption DEF ScreenAssumption
<1>3. toServer' = ts \/ toServer' = Append(ts, Message("subscribe", sub + 1, pos))
  OBVIOUS
<1> HIDE DEF pos
<1>4. /\ toServer' \in Seq(Messages) /\ OnePlace(toServer', toPage, stream, sub + 1)
      /\ AskedFrom(pos, toServer', stream, sub + 1)
      /\ \A i \in DOMAIN toPage : toPage[i].sub # sub + 1
  BY <1>1, <1>2, <1>3, NewSubscription
<1>5. HostTypes'
  BY <1>1 DEF HostTypes
<1>6. LinkTypes' /\ OneInv'
  BY <1>1, <1>4 DEF LinkTypes, OneInv
<1>7. UpdateOK(NoUpdate)
  BY NoUpdateType
<1>8. PageTypes'
  BY <1>1, <1>2, <1>7 DEF PageTypes
<1>9. PosInv'
  BY <1>2, <1>4 DEF PosInv, pos
<1>10. ComingInv'
  BY <1>4 DEF ComingInv, Current
<1>11. QED
  BY <1>5, <1>6, <1>8, <1>9, <1>10, Whole

\* The page does not poll, and there is nothing new for it to show.
LEMMA QuietKeeps ==
  ASSUME IInv, UNCHANGED hostVars, LinkTypes', OneInv', PageTypes', PageInv',
         polling' # "on", boot' = NoUpdate
  PROVE  IInv'
<1>1. HostTypes'
  BY Parts DEF HostTypes
<1>2. PosInv' /\ ComingInv'
  BY DEF PosInv, ComingInv, Current
<1>3. QED
  BY <1>1, <1>2, Whole

LEMMA BootAsksKeeps ==
  ASSUME IInv, BootAsks
  PROVE  IInv'
<1>1. /\ HostTypes /\ LinkTypes /\ PageTypes /\ OneInv /\ PosInv /\ PageInv /\ ComingInv
      /\ generation \in Nat \ {0}
  BY Parts DEF IInv
<1>2. /\ pageGen = 0 /\ boot' = Update(NoPos, 0)
      /\ UNCHANGED <<hostVars, linkVars, at, pageGen, page, polling, sub>>
  BY DEF BootAsks
<1>3. polling # "on"
  BY <1>1, <1>2 DEF PosInv
<1>4. PICK b : b = boot'
  OBVIOUS
<1>5. Fits(b, NoPage, 0, 0) /\ UpdateOK(b)
  <2>1. 0 \in Nat /\ 0 <= generation /\ 0 # generation
    BY <1>1
  <2>2. b = Update([at |-> 0, gen |-> 0], 0)
    BY <1>2, <1>4 DEF NoPos
  <2>3. QED
    BY <1>1, <2>1, <2>2, UpdateFits
<1>6. HostTypes' /\ LinkTypes' /\ OneInv' /\ PageInv'
  BY <1>1, <1>2 DEF HostTypes, LinkTypes, OneInv, PageInv
<1>7. PageTypes'
  BY <1>1, <1>2, <1>4, <1>5 DEF PageTypes
<1>8. PosInv' /\ ComingInv'
  BY <1>2, <1>3, <1>4, <1>5 DEF PosInv, ComingInv, Current, Fits
<1>9. QED
  BY <1>6, <1>7, <1>8, Whole

\* What the page has when the answer to its first request is shown.
LEMMA BootShows ==
  ASSUME IInv, BootApplies
  PROVE  /\ pageGen' \in 1 .. MaxSessions /\ at' \in 0 .. MaxRevision
         /\ pageGen' = boot.gen /\ page' = After(boot, NoPage, 0, 0)
         /\ PageInv' /\ pageGen = 0
         /\ Seen(pageGen', page') = boot.picture
<1>1. /\ HostTypes /\ PageTypes /\ PageInv /\ ComingInv /\ generation \in Nat
      /\ generation \in 1 .. MaxSessions /\ MaxSessions \in Nat
  BY Parts, ScreenAssumption DEF IInv, HostTypes, ScreenAssumption
<1>2. /\ boot # NoUpdate /\ pageGen' = boot.gen /\ at' = boot.at
      /\ page' = Applied(NoPage, boot) /\ UNCHANGED hostVars
  BY DEF BootApplies
<1>3. /\ pageGen = 0 /\ boot.gen \in 1 .. generation
      /\ boot.gen = generation =>
           /\ boot.at <= revision
           /\ Has(After(boot, NoPage, 0, 0), boot.at, lines, lineRevision, history, revision)
      /\ Seen(boot.gen, After(boot, NoPage, 0, 0)) = boot.picture
  BY <1>1, <1>2 DEF ComingInv, Fits
<1>4. page' = After(boot, NoPage, 0, 0)
  BY <1>1, <1>2, <1>3 DEF After
<1>5. pageGen' \in 1 .. MaxSessions /\ at' \in 0 .. MaxRevision
  BY <1>1, <1>2, <1>3 DEF PageTypes, UpdateOK
<1>6. PageInv'
  BY <1>1, <1>2, <1>3, <1>4 DEF PageInv
<1>7. QED
  BY <1>2, <1>3, <1>4, <1>5, <1>6

LEMMA BootAppliesKeeps ==
  ASSUME IInv, BootApplies
  PROVE  IInv'
<1>1. /\ toServer \in Seq(Messages) /\ OnePlace(toServer, toPage, stream, sub) /\ LinkTypes
  BY Parts
<1>2. open \in BOOLEAN /\ cuts \in 0 .. MaxCuts
  BY <1>1 DEF LinkTypes
<1>3. /\ UNCHANGED <<hostVars, stream, toPage, open, cuts>>
      /\ boot' = NoUpdate /\ polling' = "on" /\ sub' = sub + 1
      /\ pageGen' = boot.gen /\ at' = boot.at
      /\ \/ toServer' = toServer
         \/ toServer' = Append(toServer, Message("subscribe", sub + 1,
                                                 [at |-> at', gen |-> pageGen']))
  BY DEF BootApplies, Subscribe
<1>4. /\ pageGen' \in 1 .. MaxSessions /\ at' \in 0 .. MaxRevision /\ PageInv'
  BY BootShows
<1>5. QED
  BY <1>1, <1>2, <1>3, <1>4, SubscribesKeeps

LEMMA ShowsKeeps ==
  ASSUME IInv, Shows
  PROVE  IInv'
<1>1. /\ toServer \in Seq(Messages) /\ OnePlace(toServer, toPage, stream, sub)
      /\ LinkTypes /\ PageTypes /\ PageInv /\ ComingInv /\ pageGen \in Nat
  BY Parts DEF IInv
<1>2. /\ UNCHANGED <<hostVars, stream, toPage, open, at, pageGen, page, boot>>
      /\ pageGen # 0 /\ polling' = "on" /\ sub' = sub + 1
      /\ cuts < MaxCuts /\ cuts' = cuts + 1
      /\ \/ toServer' = toServer
         \/ toServer' = Append(toServer, Message("subscribe", sub + 1,
                                                 [at |-> at', gen |-> pageGen']))
  BY DEF Shows, Subscribe
<1>3. open \in BOOLEAN /\ cuts' \in 0 .. MaxCuts
  BY <1>1, <1>2, ScreenAssumption DEF LinkTypes, ScreenAssumption
<1>4. /\ pageGen' \in 1 .. MaxSessions /\ at' \in 0 .. MaxRevision /\ PageInv'
      /\ boot = NoUpdate
  BY <1>1, <1>2, ScreenAssumption DEF PageTypes, PageInv, ComingInv, ScreenAssumption
<1>5. QED
  BY <1>1, <1>2, <1>3, <1>4, SubscribesKeeps

LEMMA ReconnectsKeeps ==
  ASSUME IInv, Reconnects
  PROVE  IInv'
<1>1. /\ toServer \in Seq(Messages) /\ OnePlace(toServer, toPage, stream, sub) /\ OneInv
      /\ LinkTypes /\ PageTypes /\ PageInv /\ ComingInv /\ PosInv /\ pageGen \in Nat
      /\ sub \in Nat
  BY Parts DEF IInv
<1>2. /\ UNCHANGED <<hostVars, stream, toPage, cuts, at, pageGen, page, polling, boot>>
      /\ open' = TRUE
  BY DEF Reconnects
<1>3. CASE polling = "on"
  <2> DEFINE m == Message("subscribe", sub + 1, [at |-> at', gen |-> pageGen'])
  <2>1. sub' = sub + 1 /\ toServer' = <<m>>
    BY <1>2, <1>3 DEF Reconnects, Reattached
  <2>2. <<m>> = Append(<<>>, m)
    OBVIOUS
  <2>3. <<>> \in Seq(Messages) /\ OnePlace(<<>>, toPage, stream, sub)
    BY <1>1, Nowhere
  <2>4. /\ pageGen' \in 1 .. MaxSessions /\ at' \in 0 .. MaxRevision /\ PageInv'
        /\ boot' = NoUpdate /\ open' \in BOOLEAN /\ cuts' \in 0 .. MaxCuts
    BY <1>1, <1>2, <1>3, ScreenAssumption
       DEF PageTypes, LinkTypes, PageInv, ComingInv, PosInv, ScreenAssumption
  <2>5. polling' = "on"
    BY <1>2, <1>3
  <2>6. QED
    BY <1>2, <2>1, <2>2, <2>3, <2>4, <2>5, SubscribesKeeps
<1>4. CASE polling # "on"
  <2>1. UNCHANGED <<sub, toServer>>
    BY <1>4 DEF Reconnects, Reattached
  <2>2. LinkTypes' /\ OneInv'
    BY <1>1, <1>2, <2>1 DEF LinkTypes, OneInv
  <2>3. PageTypes' /\ PosInv' /\ ComingInv'
    <3>1. PageTypes'
      BY <1>1, <1>2, <2>1 DEF PageTypes
    <3>2. boot' # NoUpdate => pageGen' = 0 /\ Fits(boot, NoPage, 0, 0)'
      BY <1>2, CopySame
    <3>3. QED
      BY <1>2, <1>4, <3>1, <3>2 DEF PosInv, ComingInv, Current
  <2>4. QED
    BY <1>2, <2>2, <2>3, CopySame, Whole
<1>5. QED
  BY <1>3, <1>4
LEMMA UnsubscribedKeeps ==
  ASSUME NEW ts \in Seq(Messages), NEW tp, NEW st, NEW last \in Nat,
         OnePlace(ts, tp, st, last),
         NEW ts2, ts2 = ts \/ ts2 = Append(ts, Message("unsubscribe", last, NoPos))
  PROVE  ts2 \in Seq(Messages) /\ OnePlace(ts2, tp, st, last)
<1> DEFINE m == Message("unsubscribe", last, NoPos)
<1>1. NoPos.at \in Nat /\ NoPos.gen \in 0 .. MaxSessions
  BY ScreenAssumption DEF NoPos, ScreenAssumption
<1>2. m \in Messages /\ m.sub = last /\ m.kind = "unsubscribe"
  BY <1>1, MessageType
<1>3. m.sub <= last /\ ~Asked(m)
  BY <1>2 DEF Asked
<1> HIDE DEF m
<1>4. QED
  BY <1>2, <1>3, Sends DEF m

LEMMA ShutsKeeps ==
  ASSUME IInv, Shuts
  PROVE  IInv'
<1>1. /\ toServer \in Seq(Messages) /\ OnePlace(toServer, toPage, stream, sub) /\ OneInv
      /\ LinkTypes /\ PageTypes /\ PageInv /\ ComingInv /\ PosInv /\ sub \in Nat
  BY Parts DEF IInv
<1>2. /\ UNCHANGED <<hostVars, stream, toPage, open, at, pageGen, page, sub, boot>>
      /\ polling = "on" /\ polling' = "off" /\ cuts < MaxCuts /\ cuts' = cuts + 1
      /\ \/ toServer' = toServer
         \/ toServer' = Append(toServer, Message("unsubscribe", sub, NoPos))
  BY DEF Shuts, Unsubscribed
<1>3. boot' = NoUpdate
  BY <1>1, <1>2 DEF PosInv, ComingInv
<1>4. toServer' \in Seq(Messages) /\ OnePlace(toServer', toPage, stream, sub)
  BY <1>1, <1>2, UnsubscribedKeeps
<1>5. cuts' \in 0 .. MaxCuts
  BY <1>1, <1>2, ScreenAssumption DEF LinkTypes, ScreenAssumption
<1>6. LinkTypes' /\ OneInv' /\ PageTypes' /\ PageInv'
  BY <1>1, <1>2, <1>4, <1>5 DEF LinkTypes, OneInv, PageTypes, PageInv
<1>7. QED
  BY <1>2, <1>3, <1>6, QuietKeeps

LEMMA CutTypes ==
  ASSUME IInv, Cut, cuts < MaxCuts, sub' = sub
  PROVE  LinkTypes' /\ OneInv' /\ toPage' = <<>> /\ stream'.sub = 0 /\ DOMAIN toServer' = {}
<1>1. LinkTypes /\ sub \in Nat
  BY Parts
<1>2. /\ open' = FALSE /\ stream' = NoStream /\ toServer' = <<>> /\ toPage' = <<>>
      /\ cuts' = cuts + 1 /\ DOMAIN <<>> = {}
  BY DEF Cut
<1>3. cuts' \in 0 .. MaxCuts
  BY <1>1, <1>2, ScreenAssumption DEF LinkTypes, ScreenAssumption
<1>4. NoStream \in [sub : Nat, credit : Pos, asked : Pos] /\ NoStream.sub = 0
  BY ScreenAssumption DEF NoStream, Pos, NoPos, ScreenAssumption
<1>5. OneInv'
  BY <1>1, <1>2, Nowhere DEF OneInv, Own
<1>6. LinkTypes'
  BY <1>2, <1>3, <1>4, Nowhere DEF LinkTypes
<1>7. QED
  BY <1>2, <1>4, <1>5, <1>6

LEMMA DisconnectsKeeps ==
  ASSUME IInv, Disconnects
  PROVE  IInv'
<1>1. HostTypes /\ PageTypes /\ PageInv /\ ComingInv /\ PosInv /\ sub \in Nat
  BY Parts DEF IInv
<1>2. /\ Cut /\ boot' = NoUpdate /\ cuts < MaxCuts
      /\ UNCHANGED <<hostVars, at, pageGen, page, polling, sub>>
  BY DEF Disconnects
<1>3. /\ LinkTypes' /\ OneInv' /\ toPage' = <<>> /\ stream' = NoStream
      /\ DOMAIN toServer' = {} /\ DOMAIN toPage' = {}
  BY <1>2, CutTypes DEF Cut
<1>4. HostTypes' /\ PageTypes' /\ PageInv'
  BY <1>1, <1>2, NoUpdateType DEF HostTypes, PageTypes, PageInv
<1>5. PosInv' /\ ComingInv'
  BY <1>1, <1>2, <1>3 DEF PosInv, ComingInv, AskedFrom, NoStream
<1>6. QED
  BY <1>3, <1>4, <1>5, Whole

LEMMA ReloadsKeeps ==
  ASSUME IInv, Reloads
  PROVE  IInv'
<1>1. PageTypes /\ sub \in Nat /\ generation \in Nat \ {0}
  BY Parts
<1>2. /\ Cut /\ boot' = NoUpdate /\ cuts < MaxCuts /\ at' = 0 /\ pageGen' = 0
      /\ polling' = "off" /\ UNCHANGED <<hostVars, sub>>
  BY DEF Reloads
<1>3. LinkTypes' /\ OneInv'
  BY <1>2, CutTypes
<1>4. 0 \in 0 .. MaxRevision /\ 0 \in 0 .. MaxSessions
  BY ScreenAssumption DEF ScreenAssumption
<1>5. PageTypes'
  BY <1>1, <1>2, <1>4, NoUpdateType DEF PageTypes
<1>6. PageInv'
  BY <1>1, <1>2 DEF PageInv
<1>7. QED
  BY <1>2, <1>3, <1>5, <1>6, QuietKeeps

\* What the page has when it has consumed an update of its subscription.
LEMMA Consumes ==
  ASSUME IInv, PageReceives, NEW u, u = Head(toPage), u.gen # 0
  PROVE  /\ pageGen' = u.gen /\ at' = u.at /\ page' = After(u, page, at, pageGen)
         /\ Fits(u, page, at, pageGen) /\ UpdateOK(u)
<1>1. /\ toPage \in Seq(Own(toPage)) /\ ComingInv /\ at \in Nat
      /\ \A i \in DOMAIN toPage : UpdateOK(toPage[i])
  BY Parts DEF IInv
<1>2. toPage # <<>> /\ Current(u) /\ Received(u)
  BY DEF PageReceives
<1>3. 1 \in DOMAIN toPage /\ u = toPage[1]
  BY <1>1, <1>2, OwnRest
<1>4. Fits(u, page, at, pageGen) /\ UpdateOK(u)
  BY <1>1, <1>2, <1>3 DEF ComingInv
<1>5. u.at \in Nat
  BY <1>4, ScreenAssumption DEF UpdateOK, ScreenAssumption
<1>6. u.gen = pageGen => at <= u.at
  BY <1>4 DEF Fits
<1>7. QED
  BY <1>1, <1>2, <1>4, <1>5, <1>6 DEF Received, Reset, After

LEMMA PageReceivesKeeps ==
  ASSUME IInv, PageReceives
  PROVE  IInv'
<1>1. /\ toServer \in Seq(Messages) /\ OnePlace(toServer, toPage, stream, sub) /\ OneInv
      /\ HostTypes /\ LinkTypes /\ PageTypes /\ PageInv /\ ComingInv /\ PosInv
      /\ sub \in Nat /\ toPage \in Seq(Own(toPage))
      /\ \A i \in DOMAIN toPage : UpdateOK(toPage[i])
      /\ generation \in 1 .. MaxSessions /\ MaxSessions \in Nat /\ pageGen \in Nat
  BY Parts, ScreenAssumption DEF IInv, HostTypes, ScreenAssumption
<1>2. PICK u : u = Head(toPage)
  OBVIOUS
<1>3. /\ toPage # <<>> /\ toPage' = Tail(toPage) /\ Current(u)
      /\ polling = "on" /\ u.sub = sub /\ pageGen # 0
      /\ UNCHANGED <<hostVars, stream, open, cuts, sub, boot>>
  BY <1>1, <1>2 DEF PageReceives, Current, PosInv
<1>4. boot = NoUpdate
  BY <1>1, <1>3 DEF ComingInv
<1>5. /\ OnePlace(toServer, toPage', stream, sub) /\ toPage' \in Seq(Own(toPage'))
      /\ Free(sub, toServer, toPage', stream)
  BY <1>1, <1>2, <1>3, PageTakes
<1>6. \A i \in DOMAIN toPage' : UpdateOK(toPage'[i])
  <2>1. \A i \in DOMAIN toPage' : \E j \in DOMAIN toPage : toPage'[i] = toPage[j]
    BY <1>1, <1>3, OwnRest
  <2>2. QED
    BY <1>1, <2>1
<1>7. /\ pageGen' \in 1 .. MaxSessions /\ at' \in 0 .. MaxRevision /\ PageInv'
  <2>1. CASE u.gen = 0
    <3>1. UNCHANGED <<at, pageGen, page>>
      BY <1>2, <2>1 DEF PageReceives
    <3>2. QED
      BY <1>1, <1>3, <3>1 DEF PageInv, PageTypes
  <2>2. CASE u.gen # 0
    <3>1. /\ pageGen' = u.gen /\ at' = u.at /\ page' = After(u, page, at, pageGen)
          /\ Fits(u, page, at, pageGen) /\ UpdateOK(u)
      BY <1>2, <2>2, Consumes
    <3>2. pageGen' \in 1 .. MaxSessions /\ at' \in 0 .. MaxRevision
      BY <1>1, <3>1 DEF Fits, UpdateOK
    <3>3. PageInv'
      BY <1>1, <1>3, <3>1 DEF Fits, PageInv
    <3>4. QED
      BY <3>2, <3>3
  <2>3. QED
    BY <2>1, <2>2
<1>8. pageGen' \in 0 .. MaxSessions /\ pageGen' # 0 /\ at' \in Nat /\ HostTypes'
  BY <1>1, <1>3, <1>7, ScreenAssumption DEF HostTypes, ScreenAssumption
<1>9. CASE u.running
  <2> DEFINE pos == [at |-> at', gen |-> pageGen']
             m == Message("credit", sub, pos)
  <2>1. toServer' = Append(toServer, m) /\ polling' = polling
    BY <1>2, <1>9 DEF PageReceives
  <2>2. m \in Messages /\ m.sub = sub /\ Accepts(m) = pos
    BY <1>1, <1>8, MessageType
  <2>3. m.sub <= sub
    BY <1>1, <2>2
  <2> HIDE DEF m, pos
  <2>4. toServer' \in Seq(Messages) /\ OnePlace(toServer', toPage', stream, sub)
    BY <1>1, <1>5, <2>1, <2>2, <2>3, Sends
  <2>5. \A i \in DOMAIN toServer' :
          (i \in DOMAIN toServer /\ toServer'[i] = toServer[i]) \/ toServer'[i] = m
    BY <1>1, <2>1, <2>2, Added
  <2>6. LinkTypes' /\ OneInv'
    BY <1>1, <1>3, <1>5, <1>6, <2>4 DEF LinkTypes, OneInv, Own
  <2>7. PageTypes'
    BY <1>1, <1>3, <1>7, <1>8, <2>1 DEF PageTypes
  <2>8. AskedFrom(pos, toServer', stream, sub)
    BY <1>5, <2>2, <2>5 DEF AskedFrom, Free, AtServer
  <2>9. PosInv'
    BY <1>3, <1>8, <2>8 DEF PosInv, pos
  <2>10. ComingInv'
    BY <1>3, <1>4, <1>5 DEF ComingInv, Current, Free
  <2>11. QED
    BY <1>7, <1>8, <2>6, <2>7, <2>9, <2>10, Whole
<1>10. CASE ~u.running
  <2>1. /\ polling' = "exited"
        /\ \/ toServer' = toServer
           \/ toServer' = Append(toServer, Message("unsubscribe", sub, NoPos))
    BY <1>2, <1>10 DEF PageReceives, Unsubscribed
  <2>2. toServer' \in Seq(Messages) /\ OnePlace(toServer', toPage', stream, sub)
    BY <1>1, <1>5, <2>1, UnsubscribedKeeps
  <2>3. LinkTypes' /\ OneInv'
    BY <1>1, <1>3, <1>5, <1>6, <2>2 DEF LinkTypes, OneInv, Own
  <2>4. PageTypes'
    BY <1>1, <1>3, <1>7, <1>8, <2>1 DEF PageTypes
  <2>5. QED
    BY <1>3, <1>4, <1>7, <2>1, <2>3, <2>4, QuietKeeps
<1>11. QED
  BY <1>9, <1>10
-----------------------------------------------------------------------------
(* The invariant and what follows from it.                                 *)

LEMMA Starts ==
  ASSUME Init
  PROVE  IInv
<1>1. PICK h \in Heights : /\ revision = 1 /\ lines = [r \in 1 .. h |-> Blank]
                           /\ lineRevision = [r \in 1 .. h |-> 1]
  BY DEF Init
<1>2. /\ history = <<>> /\ discarded = 0
      /\ generation = 1 /\ up = TRUE /\ hosts = 1 /\ alive = TRUE /\ unread = 0
      /\ stream = NoStream /\ toServer = <<>> /\ toPage = <<>> /\ open = TRUE /\ cuts = 0
      /\ at = 0 /\ pageGen = 0 /\ page = NoPage /\ polling = "off" /\ sub = 0
      /\ boot = NoUpdate /\ DOMAIN <<>> = {}
  BY DEF Init
<1>3. /\ MaxRevision \in Nat \ {0} /\ MaxSessions \in Nat \ {0}
      /\ MaxUnread \in Nat /\ MaxCuts \in Nat /\ HistoryLimit \in Nat /\ h \in Nat \ {0}
  BY ScreenAssumption DEF ScreenAssumption
<1>4. EmulatorInv
  <2>1. DOMAIN history = 0 .. 0 + 0 - 1 /\ 0 \in 0 .. HistoryLimit
    BY <1>2, <1>3
  <2>2. lines = [r \in DOMAIN lines |-> lines[r]] /\ DOMAIN lines = 1 .. h
    BY <1>1
  <2>3. QED
    BY <1>2, <2>1, <2>2 DEF EmulatorInv
<1>5. LinesOK(lines, lineRevision, revision) /\ HistoryOK(history, discarded, revision)
  <2>1. LinesOK(lines, lineRevision, revision)
    BY <1>1, <1>3, <1>4 DEF LinesOK, EmulatorInv, Line
  <2>2. HistoryOK(history, discarded, revision)
    BY <1>2, <1>4 DEF HistoryOK, EmulatorInv
  <2>3. QED
    BY <2>1, <2>2
<1>6. /\ Cardinality(DOMAIN lines) \in Heights
      /\ DOMAIN history = Keys /\ Cardinality(Keys) <= HistoryLimit
  <2>1. Cardinality(DOMAIN lines) \in Heights
    BY <1>5, RowCount
  <2>2. DOMAIN history = Keys /\ Cardinality(DOMAIN history) \in 0 .. HistoryLimit
    BY <1>5, HistorySize DEF Keys
  <2>3. QED
    BY <1>3, <2>1, <2>2
<1>7. stream \in [sub : Nat, credit : Pos, asked : Pos]
  BY <1>2, <1>3 DEF NoStream, Pos, NoPos
<1>8. toServer \in Seq(Messages) /\ UpdateOK(boot)
  BY <1>2, NoUpdateType
<1>9. TypeOK
  <2>1. revision \in 1 .. MaxRevision /\ cuts \in 0 .. MaxCuts /\ unread \in 0 .. MaxUnread
        /\ at \in 0 .. MaxRevision /\ pageGen \in 0 .. MaxSessions
        /\ generation \in 1 .. MaxSessions /\ hosts \in 1 .. MaxSessions
    BY <1>1, <1>2, <1>3
  <2>2. QED
    BY <1>2, <1>5, <1>6, <1>7, <1>8, <2>1 DEF TypeOK, LinesOK, HistoryOK
<1>10. OneInv
  BY <1>2, Nowhere DEF OneInv, Own
<1>11. PosInv /\ PageInv /\ ComingInv
  BY <1>2 DEF PosInv, PageInv, ComingInv
<1>12. QED
  BY <1>4, <1>9, <1>10, <1>11 DEF IInv

LEMMA Keeps ==
  ASSUME StalePages = FALSE, IInv, [Next]_vars
  PROVE  IInv'
<1>1. CASE HostSteps
  BY <1>1, HostKeeps
<1>2. CASE BootAsks
  BY <1>2, BootAsksKeeps
<1>3. CASE BootApplies
  BY <1>3, BootAppliesKeeps
<1>4. CASE PageDrops
  BY <1>4, PageDropsKeeps
<1>5. CASE PageReceives
  BY <1>5, PageReceivesKeeps
<1>6. CASE Shuts
  BY <1>6, ShutsKeeps
<1>7. CASE Shows
  BY <1>7, ShowsKeeps
<1>8. CASE ServerReceives
  BY <1>8, ServerReceivesKeeps
<1>9. CASE Asks
  BY <1>9, AsksKeeps
<1>10. CASE Answers
  BY <1>10, AnswersKeeps
<1>11. CASE Disconnects
  BY <1>11, DisconnectsKeeps
<1>12. CASE Reconnects
  BY <1>12, ReconnectsKeeps
<1>13. CASE Reloads
  BY <1>13, ReloadsKeeps
<1>14. CASE UNCHANGED vars
  <2>1. HostTypes'
    BY <1>14, Parts DEF vars, HostTypes
  <2>2. QED
    BY <1>14, <2>1, HostSame DEF vars
<1>15. QED
  BY <1>1, <1>2, <1>3, <1>4, <1>5, <1>6, <1>7, <1>8, <1>9, <1>10, <1>11, <1>12,
     <1>13, <1>14 DEF Next, HostSteps

\* The invariant holds in every state, as long as no page outlives its
\* supervisor.
THEOREM Invariance ==
  ASSUME StalePages = FALSE
  PROVE  Spec => []IInv
BY Starts, Keeps, PTL DEF Spec

\* Every variable has its type: rows, history, messages and updates too.
THEOREM Typing ==
  ASSUME StalePages = FALSE
  PROVE  Spec => []TypeOK
<1>1. IInv => TypeOK
  BY DEF IInv
<1>2. QED
  BY <1>1, Invariance, PTL

\* A page that has the present revision of the present session shows the
\* terminal's picture, whatever lines it was sent for it and whenever
\* (docs/terminal-streaming.md:5).
THEOREM Latest ==
  ASSUME StalePages = FALSE
  PROVE  Spec => []LatestShown
<1>1. IInv => LatestShown
  <2> SUFFICES ASSUME IInv, pageGen = generation, at = revision
               PROVE  Shown = Picture
    BY DEF LatestShown
  <2>1. HostTypes /\ Has(page, revision, lines, lineRevision, history, revision)
    BY Parts DEF IInv, PageInv
  <2>2. QED
    BY <2>1, HasAll DEF Shown
<1>2. QED
  BY <1>1, Invariance, PTL

LEMMA AtMostOne ==
  ASSUME NEW S, \A x, y \in S : x = y
  PROVE  Cardinality(S) = 0 \/ (S # {} /\ Cardinality(S) = 1)
<1>1. CASE S = {}
  BY <1>1, FS_EmptySet
<1>2. CASE S # {}
  <2>1. PICK x \in S : TRUE
    BY <1>2
  <2>2. S = {x}
    BY <2>1
  <2>3. Cardinality({x}) = 1
    BY FS_Singleton
  <2>4. QED
    BY <1>2, <2>2, <2>3
<1>3. QED
  BY <1>1, <1>2

\* Of what a subscription asks for and gets, one thing is on its way
\* (docs/terminal-streaming.md:5).
THEOREM OneUnderway ==
  ASSUME StalePages = FALSE
  PROVE  Spec => []OneUnacknowledged
<1>1. IInv => OneUnacknowledged
  <2> SUFFICES ASSUME IInv, NEW id \in 1 .. sub
               PROVE  Underway(id) <= 1
    BY DEF OneUnacknowledged
  <2> DEFINE A == {i \in DOMAIN toServer :
                     toServer[i].sub = id /\ toServer[i].kind # "unsubscribe"}
             B == {i \in DOMAIN toPage : toPage[i].sub = id}
             c == IF stream.sub = id /\ stream.credit # NoPos THEN 1 ELSE 0
             d == IF stream.sub = id /\ stream.asked # NoPos THEN 1 ELSE 0
  <2>1. OnePlace(toServer, toPage, stream, sub)
    BY Parts
  <2>2. /\ \A x, y \in A : x = y
        /\ \A x, y \in B : x = y
        /\ A = {} \/ B = {}
        /\ c + d = 0 \/ (A = {} /\ B = {} /\ c + d = 1)
    BY <2>1 DEF OnePlace, Asked, AtServer
  <2>3. /\ Cardinality(A) = 0 \/ (A # {} /\ Cardinality(A) = 1)
        /\ Cardinality(B) = 0 \/ (B # {} /\ Cardinality(B) = 1)
    BY <2>2, AtMostOne
  <2>4. Underway(id) = Cardinality(A) + Cardinality(B) + c + d
    BY DEF Underway
  <2>5. c \in Nat /\ d \in Nat
    OBVIOUS
  <2> HIDE DEF A, B, c, d
  <2>6. QED
    BY <2>2, <2>3, <2>4, <2>5
<1>2. QED
  BY <1>1, Invariance, PTL
-----------------------------------------------------------------------------
(* The lines that are sent and kept amount to whole pictures.              *)

LEMMA OneOfOne ==
  /\ OneOf({}) = Nothing
  /\ \A p : OneOf({p}) = p
BY DEF OneOf

\* Nothing comes: the page does not poll, or nothing is of its subscription.
LEMMA NothingComes ==
  ASSUME boot = NoUpdate, \A i \in DOMAIN toPage : Current(toPage[i]) => toPage[i].gen = 0
  PROVE  Sent = Nothing
<1>1. Coming = {}
  BY DEF Coming
<1>2. QED
  BY <1>1, OneOfOne DEF Sent

LEMMA NothingComesNext ==
  ASSUME boot' = NoUpdate,
         \A i \in DOMAIN toPage' : (toPage'[i].sub = sub' /\ polling' = "on") => toPage'[i].gen = 0
  PROVE  Sent' = Nothing
<1>1. Coming' = {}
  BY DEF Coming, Current
<1>2. QED
  BY <1>1, OneOfOne DEF Sent

LEMMA SentSame ==
  ASSUME UNCHANGED <<boot, toPage, polling, sub>>
  PROVE  Sent' = Sent
<1>1. Coming' = Coming
  BY DEF Coming, Current
<1>2. QED
  BY <1>1 DEF Sent

LEMMA ShownSame ==
  ASSUME UNCHANGED <<pageGen, page>>
  PROVE  Shown' = Shown
BY DEF Shown

LEMMA PictureSame ==
  ASSUME UNCHANGED hostVars
  PROVE  Picture' = Picture
BY DEF Picture

LEMMA Pictured ==
  ASSUME IInv
  PROVE  /\ Picture # Nothing
         /\ boot # NoUpdate => boot.picture # Nothing
         /\ \A i \in DOMAIN toPage :
              Current(toPage[i]) /\ toPage[i].gen # 0 => toPage[i].picture # Nothing
<1>1. generation \in Nat \ {0} /\ ComingInv
  BY Parts DEF IInv
<1>2. \A u, copy, upTo, gen : Fits(u, copy, upTo, gen) => u.picture # Nothing
  BY <1>1 DEF Fits, Seen, Nothing
<1>3. Picture # Nothing
  BY <1>1 DEF Picture, Nothing
<1>4. QED
  BY <1>1, <1>2, <1>3 DEF ComingInv

Stutters == UNCHANGED <<Picture, Sent, Shown>>

LEMMA DrawStep ==
  ASSUME StalePages = FALSE, IInv, HostSteps
  PROVE  Mirror!Next \/ Stutters
<1>1. UNCHANGED <<linkVars, pageVars>>
  BY DEF HostSteps, Feeds, ShellWrites, ShellExits, Dies, Resizes, SessionStarts, Respawns
<1>2. Sent' = Sent /\ Shown' = Shown
  BY <1>1, SentSame, ShownSame
<1>3. Picture' # Nothing
  <2>1. generation' \in Nat \ {0}
    <3>1. generation' \in 1 .. MaxSessions
      BY HostKeeps DEF IInv, TypeOK
    <3>2. QED
      BY <3>1, ScreenAssumption DEF ScreenAssumption
  <2>2. QED
    BY <2>1 DEF Picture, Nothing
<1>4. QED
  BY <1>2, <1>3 DEF Mirror!Next, Mirror!Draw, Stutters

LEMMA BootAsksStep ==
  ASSUME IInv, BootAsks
  PROVE  Mirror!Next
<1>1. /\ HostTypes /\ PosInv /\ pageGen = 0 /\ boot = NoUpdate
      /\ boot' = Update(NoPos, 0) /\ UNCHANGED <<hostVars, pageGen, page>>
  BY Parts DEF IInv, BootAsks
<1>2. Sent = Nothing
  <2>1. \A i \in DOMAIN toPage : ~Current(toPage[i])
    BY <1>1 DEF PosInv, Current
  <2>2. QED
    BY <1>1, <2>1, NothingComes
<1>3. Sent' = Picture
  <2>1. boot' # NoUpdate /\ boot'.picture = Picture
    BY <1>1, UpdateType
  <2>2. Coming' = {Picture}
    BY <2>1 DEF Coming
  <2>3. QED
    BY <2>2, OneOfOne DEF Sent
<1>4. QED
  BY <1>1, <1>2, <1>3, PictureSame, ShownSame DEF Mirror!Next, Mirror!Send

LEMMA BootAppliesStep ==
  ASSUME IInv, BootApplies
  PROVE  Mirror!Next
<1>1. /\ boot # NoUpdate /\ boot' = NoUpdate /\ sub' = sub + 1
      /\ UNCHANGED <<hostVars, toPage>>
  BY DEF BootApplies, Subscribe
<1>2. /\ OnePlace(toServer, toPage, stream, sub) /\ sub \in Nat
      /\ \A i \in DOMAIN toPage : toPage[i].sub \in Nat
  BY Parts
<1>3. Sent = boot.picture
  <2>1. Coming = {boot.picture}
    BY <1>1 DEF Coming
  <2>2. QED
    BY <2>1, OneOfOne DEF Sent
<1>4. Sent' = Nothing
  <2>1. \A i \in DOMAIN toPage' : toPage'[i].sub # sub'
    BY <1>1, <1>2 DEF OnePlace
  <2>2. QED
    BY <1>1, <2>1, NothingComesNext
<1>5. Shown' = boot.picture
  BY BootShows DEF Shown
<1>6. boot.picture # Nothing
  BY <1>1, Pictured
<1>7. QED
  BY <1>1, <1>3, <1>4, <1>5, <1>6, PictureSame DEF Mirror!Next, Mirror!Show

LEMMA PageDropsStep ==
  ASSUME IInv, PageDrops
  PROVE  Stutters
<1>1. /\ toPage # <<>> /\ toPage' = Tail(toPage) /\ ~Current(Head(toPage))
      /\ UNCHANGED <<hostVars, pageVars>>
  BY DEF PageDrops
<1>2. /\ Head(toPage) = toPage[1]
      /\ \A i \in DOMAIN toPage' : \E j \in DOMAIN toPage : toPage'[i] = toPage[j]
      /\ \A i \in DOMAIN toPage : i = 1 \/ \E j \in DOMAIN toPage' : toPage'[j] = toPage[i]
  BY <1>1, Parts, OwnRest
<1>3. Coming' = Coming
  <2>1. \A i \in DOMAIN toPage : Current(toPage[i]) =>
          \E j \in DOMAIN toPage' : toPage'[j] = toPage[i]
    BY <1>1, <1>2
  <2>2. {toPage'[i].picture : i \in {j \in DOMAIN toPage' :
           Current(toPage'[j]) /\ toPage'[j].gen # 0}}
        = {toPage[i].picture : i \in {j \in DOMAIN toPage :
             Current(toPage[j]) /\ toPage[j].gen # 0}}
    BY <1>2, <2>1
  <2>3. QED
    BY <1>1, <2>2 DEF Coming, Current
<1>4. QED
  BY <1>1, <1>3, PictureSame, ShownSame DEF Stutters, Sent

LEMMA PageReceivesStep ==
  ASSUME IInv, PageReceives
  PROVE  Mirror!Next \/ Stutters
<1>1. /\ OnePlace(toServer, toPage, stream, sub) /\ ComingInv /\ PosInv
      /\ sub \in Nat /\ toPage \in Seq(Own(toPage)) /\ toServer \in Seq(Messages)
  BY Parts DEF IInv
<1>2. PICK u : u = Head(toPage)
  OBVIOUS
<1>3. /\ toPage # <<>> /\ toPage' = Tail(toPage) /\ Current(u)
      /\ UNCHANGED <<hostVars, sub, boot>>
  BY <1>2 DEF PageReceives
<1>4. polling = "on" /\ u.sub = sub /\ boot = NoUpdate
  BY <1>1, <1>3 DEF Current, PosInv, ComingInv
<1>5. Sent' = Nothing
  <2>1. Free(sub, toServer, toPage', stream)
    BY <1>1, <1>2, <1>3, <1>4, PageTakes
  <2>2. QED
    BY <1>3, <1>4, <2>1, NothingComesNext DEF Free
<1>6. 1 \in DOMAIN toPage /\ u = toPage[1]
  BY <1>1, <1>2, <1>3, OwnRest
<1>7. \A i \in DOMAIN toPage : toPage[i].sub = sub => i = 1
  BY <1>1, <1>4, <1>6 DEF OnePlace
<1>8. CASE u.gen = 0
  <2>1. Shown' = Shown
    BY <1>2, <1>8, ShownSame DEF PageReceives
  <2>2. Sent = Nothing
    BY <1>4, <1>6, <1>7, <1>8, NothingComes DEF Current
  <2>3. QED
    BY <1>3, <1>5, <2>1, <2>2, PictureSame DEF Stutters
<1>9. CASE u.gen # 0
  <2>1. /\ pageGen' = u.gen /\ page' = After(u, page, at, pageGen)
        /\ Seen(u.gen, After(u, page, at, pageGen)) = u.picture
    BY <1>2, <1>9, Consumes DEF Fits
  <2>2. Shown' = u.picture
    BY <2>1 DEF Shown
  <2>3. Sent = u.picture
    <3>1. Coming = {u.picture}
      <4>1. {j \in DOMAIN toPage : Current(toPage[j]) /\ toPage[j].gen # 0} = {1}
        BY <1>3, <1>6, <1>7, <1>9 DEF Current
      <4>2. QED
        BY <1>4, <1>6, <4>1 DEF Coming
    <3>2. QED
      BY <3>1, OneOfOne DEF Sent
  <2>4. u.picture # Nothing
    BY <1>3, <1>6, <1>9, Pictured
  <2>5. QED
    BY <1>3, <1>5, <2>2, <2>3, <2>4, PictureSame DEF Mirror!Next, Mirror!Show
<1>10. QED
  BY <1>8, <1>9

\* The page's subscription ends, or the connection: what was sent is lost.
LEMMA LoseStep ==
  ASSUME IInv, Shuts \/ Shows \/ Disconnects \/ Reconnects \/ Reloads
  PROVE  Mirror!Next \/ Stutters
<1>1. /\ OnePlace(toServer, toPage, stream, sub) /\ ComingInv /\ PosInv /\ sub \in Nat
      /\ \A i \in DOMAIN toPage : toPage[i].sub \in Nat
  BY Parts DEF IInv
<1>2. Picture' = Picture
  BY PictureSame DEF Shuts, Shows, Disconnects, Reconnects, Reloads
<1>3. CASE Shuts
  <2>1. Sent' = Nothing
    BY <1>1, <1>3, NothingComesNext DEF Shuts, PosInv, ComingInv
  <2>2. Shown' = Shown
    BY <1>3, ShownSame DEF Shuts
  <2>3. QED
    BY <1>2, <2>1, <2>2 DEF Mirror!Next, Mirror!Lose
<1>4. CASE Disconnects \/ Reloads
  <2>1. toPage' = <<>> /\ boot' = NoUpdate
    BY <1>4 DEF Disconnects, Reloads, Cut
  <2>2. Sent' = Nothing
    BY <2>1, NothingComesNext
  <2>3. Shown' \in {Shown, Nothing}
    BY <1>4, ShownSame DEF Disconnects, Reloads, Shown, Seen
  <2>4. QED
    BY <1>2, <2>2, <2>3 DEF Mirror!Next, Mirror!Lose
<1>5. CASE Shows \/ (Reconnects /\ polling = "on")
  <2>1. /\ boot = NoUpdate /\ boot' = boot /\ sub' = sub + 1 /\ toPage' = toPage
        /\ UNCHANGED <<pageGen, page>>
    BY <1>1, <1>5 DEF Shows, Subscribe, Reconnects, Reattached, ComingInv, PosInv
  <2>2. \A i \in DOMAIN toPage' : toPage'[i].sub # sub'
    BY <1>1, <2>1 DEF OnePlace
  <2>3. Sent' = Nothing /\ Shown' = Shown
    BY <2>1, <2>2, NothingComesNext, ShownSame
  <2>4. QED
    BY <1>2, <2>3 DEF Mirror!Next, Mirror!Lose
<1>6. CASE Reconnects /\ polling # "on"
  <2>1. UNCHANGED <<boot, toPage, polling, sub, pageGen, page>>
    BY <1>6 DEF Reconnects, Reattached
  <2>2. QED
    BY <1>2, <2>1, SentSame, ShownSame DEF Stutters
<1>7. QED
  BY <1>3, <1>4, <1>5, <1>6

LEMMA AnswersStep ==
  ASSUME IInv, Answers
  PROVE  Mirror!Next \/ Stutters
<1>1. /\ OnePlace(toServer, toPage, stream, sub) /\ HostTypes
      /\ toPage \in Seq(Own(toPage)) /\ stream.sub \in Nat
  BY Parts
<1>2. PICK u : /\ toPage' = Append(toPage, u)
               /\ \/ u = Update(stream.asked, stream.sub)
                  \/ \E absent \in BOOLEAN : u = Unreachable(absent, stream.sub)
  BY DEF Answers
<1>3. UNCHANGED <<hostVars, pageVars>> /\ AtServer(stream)
  BY DEF Answers, AtServer
<1>4. /\ u.sub = stream.sub
      /\ u.gen # 0 => u.picture = Picture
  BY <1>1, <1>2, UpdateType, UnreachableType
<1>5. \A j \in DOMAIN toPage : toPage[j].sub # stream.sub
  BY <1>1, <1>3 DEF OnePlace
<1>6. /\ \A i \in DOMAIN toPage : i \in DOMAIN toPage' /\ toPage'[i] = toPage[i]
      /\ \A i \in DOMAIN toPage' : i \in DOMAIN toPage \/ toPage'[i] = u
      /\ \E i \in DOMAIN toPage' : toPage'[i] = u
  BY <1>1, <1>2, OwnAdded
<1>7. CASE boot = NoUpdate /\ Current(u) /\ u.gen # 0
  <2>1. Sent = Nothing
    BY <1>4, <1>5, <1>7, NothingComes DEF Current
  <2>2. Coming' = {Picture}
    <3>1. {toPage'[i].picture : i \in {j \in DOMAIN toPage' :
             Current(toPage'[j]) /\ toPage'[j].gen # 0}} = {Picture}
      <4>1. \A i \in DOMAIN toPage' : Current(toPage'[i]) => toPage'[i] = u
        BY <1>4, <1>5, <1>6, <1>7 DEF Current
      <4>2. QED
        BY <1>4, <1>6, <1>7, <4>1
    <3>2. QED
      BY <1>3, <1>7, <3>1 DEF Coming, Current
  <2>3. Sent' = Picture
    BY <2>2, OneOfOne DEF Sent
  <2>4. QED
    BY <1>3, <2>1, <2>3, PictureSame, ShownSame DEF Mirror!Next, Mirror!Send
<1>8. CASE ~(boot = NoUpdate /\ Current(u) /\ u.gen # 0)
  <2>1. Coming' = Coming
    <3>1. CASE boot # NoUpdate
      BY <1>3, <3>1 DEF Coming
    <3>2. CASE ~(Current(u) /\ u.gen # 0)
      <4>1. {toPage'[i].picture : i \in {j \in DOMAIN toPage' :
               Current(toPage'[j]) /\ toPage'[j].gen # 0}}
            = {toPage[i].picture : i \in {j \in DOMAIN toPage :
                 Current(toPage[j]) /\ toPage[j].gen # 0}}
        BY <1>6, <3>2
      <4>2. QED
        BY <1>3, <4>1 DEF Coming, Current
    <3>3. QED
      BY <1>8, <3>1, <3>2
  <2>2. QED
    BY <1>3, <2>1, PictureSame, ShownSame DEF Stutters, Sent
<1>9. QED
  BY <1>7, <1>8

LEMMA MirrorStarts ==
  ASSUME Init
  PROVE  Mirror!Init
<1>1. boot = NoUpdate /\ toPage = <<>> /\ pageGen = 0 /\ generation = 1
  BY DEF Init
<1>2. Sent = Nothing
  BY <1>1, NothingComes
<1>3. QED
  BY <1>1, <1>2 DEF Mirror!Init, Shown, Seen, Picture, Nothing

LEMMA MirrorSteps ==
  ASSUME StalePages = FALSE, IInv, [Next]_vars
  PROVE  [Mirror!Next]_(Mirror!vars)
<1>1. CASE HostSteps
  BY <1>1, DrawStep DEF Mirror!vars, Stutters
<1>2. CASE BootAsks
  BY <1>2, BootAsksStep
<1>3. CASE BootApplies
  BY <1>3, BootAppliesStep
<1>4. CASE PageDrops
  BY <1>4, PageDropsStep DEF Mirror!vars, Stutters
<1>5. CASE PageReceives
  BY <1>5, PageReceivesStep DEF Mirror!vars, Stutters
<1>6. CASE Shuts \/ Shows \/ Disconnects \/ Reconnects \/ Reloads
  BY <1>6, LoseStep DEF Mirror!vars, Stutters
<1>7. CASE Answers
  BY <1>7, AnswersStep DEF Mirror!vars, Stutters
<1>8. CASE ServerReceives \/ Asks \/ UNCHANGED vars
  <2>1. UNCHANGED <<hostVars, toPage, pageVars>>
    BY <1>8 DEF ServerReceives, Asks, vars
  <2>2. QED
    BY <2>1, PictureSame, ShownSame, SentSame DEF Mirror!vars
<1>9. QED
  BY <1>1, <1>2, <1>3, <1>4, <1>5, <1>6, <1>7, <1>8 DEF Next, HostSteps

\* The lines that were sent and kept are always one whole picture that the
\* terminal had: ScreenSync implements ScreenMirror (docs/terminal-streaming.md:5).
THEOREM Mirroring ==
  ASSUME StalePages = FALSE
  PROVE  Spec => Mirrors
<1>1. Init => Mirror!Init
  BY MirrorStarts
<1>2. IInv /\ [Next]_vars => [Mirror!Next]_(Mirror!vars)
  BY MirrorSteps
<1>3. QED
  BY <1>1, <1>2, Invariance, PTL DEF Spec, Mirrors, Mirror!Spec
=============================================================================
