----------------------------- MODULE ScreenSync -----------------------------
(***************************************************************************)
(* How a terminal's screen gets from its emulator to a page: the emulator  *)
(* stamps each line with the revision that changed it (src.vterm/bridge.c, *)
(* term/vterm.janet), the supervisor answers with the lines changed since  *)
(* the revision the page has (term/host.janet), the server relays one      *)
(* answer for each credit (core.janet), and the page puts the lines into   *)
(* its copy (terminal/content.js, screen-core.js, shared/transport.js).    *)
(*                                                                         *)
(* One page and one pane.  Lines are values, and all that is sent whole in *)
(* every update (cursor, modes, title) is left out, and so is the width,   *)
(* which is treated as the height.  The session is always started.         *)
(***************************************************************************)
EXTENDS Naturals, Sequences, FiniteSets

CONSTANTS
  Heights,      \* numbers of rows a terminal may have
  Texts, Blank, \* what a line may hold; a blank line
  HistoryLimit, \* HISTORY
  MaxRevision,  \* bound: revisions of one emulator
  MaxUnread,    \* bound: output on its way from the shell to the emulator
  MaxSessions,  \* bound: supervisors, and sessions of the last one, together
  MaxCuts,      \* bound: connections lost, panels shut and pages loaded
  StalePages    \* may a page outlive the supervisor it was connected to?

ASSUME ScreenAssumption ==
  /\ Heights \subseteq Nat \ {0} /\ Heights # {} /\ Blank \notin Texts
  /\ HistoryLimit \in Nat \ {0} /\ MaxRevision \in Nat \ {0} /\ MaxUnread \in Nat
  /\ MaxSessions \in Nat /\ MaxSessions > 1 /\ MaxCuts \in Nat
  /\ StalePages \in BOOLEAN

VARIABLES
  revision,     \* of the emulator
  lines,        \* [rows]: the text of each row
  lineRevision, \* [rows]: row_revision
  history,      \* [keys]: lines scrolled off, with their revisions
  discarded,    \* the key of the oldest, or of the next if there is none
  generation,   \* of the session
  up,           \* does a supervisor listen?
  hosts,        \* supervisors so far
  alive,        \* does the shell live?
  unread        \* pieces of output written and not yet fed to the emulator

VARIABLES
  stream,       \* the server's subscription: [sub, credit, asked]
  toServer,     \* messages of the page, in order
  toPage,       \* updates, in order
  open,         \* is the websocket open?
  cuts          \* bound counter

VARIABLES
  at,           \* the page's position: the revision it has ...
  pageGen,      \* ... of this session, 0 before the boot
  page,         \* its copy: [lines, history, start, count]
  polling,      \* "off", "on", or "exited" when it saw the session's end
  sub,          \* the id of its last subscription
  boot          \* the answer to its first request, or NoUpdate

hostVars == <<revision, lines, lineRevision, history, discarded, generation, up,
              hosts, alive, unread>>
linkVars == <<stream, toServer, toPage, open, cuts>>
pageVars == <<at, pageGen, page, polling, sub, boot>>
vars == <<hostVars, linkVars, pageVars>>

Line == Texts \cup {Blank}
Rows(f) == DOMAIN f
Keys == discarded .. discarded + Cardinality(DOMAIN history) - 1
NoPos == [at |-> 0, gen |-> 0]      \* nothing asked: a generation is never 0
Nothing == [gen |-> 0, lines |-> <<>>, history |-> <<>>]
NoPage == [lines |-> <<>>, history |-> <<>>, start |-> 0, count |-> 0]
NoUpdate == [sub |-> 0, gen |-> 0, at |-> 0, height |-> 0, rows |-> <<>>,
             start |-> 0, count |-> 0, old |-> <<>>, running |-> FALSE,
             picture |-> Nothing]

\* What a user of the terminal, and of the page, sees.
Picture ==
  [gen |-> generation, lines |-> lines,
   history |-> [k \in DOMAIN history |-> history[k].text]]
Seen(gen, copy) ==
  IF gen = 0 THEN Nothing
  ELSE [gen |-> gen, lines |-> copy.lines,
        history |-> [k \in copy.start .. copy.start + copy.count - 1 |->
                       IF k \in DOMAIN copy.history THEN copy.history[k] ELSE Blank]]
Shown == Seen(pageGen, page)
-----------------------------------------------------------------------------
(* The emulator.  What output does to the screen is libvterm's, which tells *)
(* the bridge of every row it changed and of every line it scrolls off.     *)

NewEmulator(height) ==
  /\ revision' = 1
  /\ lines' = [r \in 1 .. height |-> Blank]
  /\ lineRevision' = [r \in 1 .. height |-> 1]
  /\ history' = <<>> /\ discarded' = 0

\* push: the oldest line goes when the ring is full.
Pushed(text, rev) == [text |-> text, rev |-> rev]
FullTooLate == Cardinality(DOMAIN history) > HistoryLimit
Full == Cardinality(DOMAIN history) = HistoryLimit
Push(text) ==
  LET next == discarded + Cardinality(DOMAIN history)
      first == IF Full THEN discarded + 1 ELSE discarded IN
  /\ discarded' = first
  /\ history' = [k \in first .. next |->
       IF k = next THEN Pushed(text, revision + 1) ELSE history[k]]
\* pop, and pop before a push when lines are wrapped anew.
Last == discarded + Cardinality(DOMAIN history) - 1
Pop ==
  /\ history' = [k \in DOMAIN history \ {Last} |-> history[k]]
  /\ UNCHANGED discarded
Rewrap(text) ==
  /\ history' = [history EXCEPT ![Last] = Pushed(text, revision + 1)]
  /\ UNCHANGED discarded

\* vz_write, and the damage it reports.
Damaged(rows) == [r \in DOMAIN lines |->
  IF r \in rows THEN revision + 1 ELSE lineRevision[r]]
PutLine(r, text) ==
  /\ lines' = [lines EXCEPT ![r] = text]
  /\ lineRevision' = Damaged({r})
  /\ UNCHANGED <<history, discarded>>
Scroll(text) ==
  LET bottom == Cardinality(DOMAIN lines) IN
  /\ lines' = [r \in DOMAIN lines |-> IF r = bottom THEN text ELSE lines[r + 1]]
  /\ lineRevision' = Damaged(DOMAIN lines)
  /\ Push(lines[1])
ClearHistory ==
  /\ discarded' = discarded + Cardinality(DOMAIN history) /\ history' = <<>>
  /\ UNCHANGED <<lines, lineRevision>>

\* drain feeds a piece of the shell's output.
Feeds ==
  /\ up /\ unread > 0 /\ revision < MaxRevision
  /\ unread' = unread - 1
  /\ revision' = revision + 1
  /\ \/ \E r \in DOMAIN lines, t \in Texts : PutLine(r, t)
     \/ \E t \in Texts : Scroll(t)
     \/ ClearHistory
  /\ UNCHANGED <<generation, up, hosts, alive, linkVars, pageVars>>

\* vz_resize: every row gets the new revision; libvterm takes lines from the
\* history for rows that are added, and scrolls off rows that are removed.
Unmarked(height) == [r \in 1 .. height |->
  IF r \in DOMAIN lineRevision THEN lineRevision[r] ELSE revision + 1]
Marked(height) == [r \in 1 .. height |-> revision + 1]
Resizes(height) ==
  LET old == Cardinality(DOMAIN lines) IN
  /\ up /\ revision < MaxRevision
  /\ revision' = revision + 1
  /\ lineRevision' = Marked(height)
  /\ \/ /\ lines' = [r \in 1 .. height |-> IF r <= old THEN lines[r] ELSE Blank]
        /\ UNCHANGED <<history, discarded>>
     \/ /\ height = old + 1 /\ DOMAIN history # {}
        /\ lines' = [r \in 1 .. height |-> IF r = 1 THEN history[Last].text
                                                    ELSE lines[r - 1]]
        /\ Pop
     \/ /\ height + 1 = old
        /\ lines' = [r \in 1 .. height |-> lines[r + 1]]
        /\ Push(lines[1])
     \/ /\ DOMAIN history # {}
        /\ lines' = [r \in 1 .. height |-> IF r <= old THEN lines[r] ELSE Blank]
        /\ \E t \in Texts : Rewrap(t)
  /\ UNCHANGED <<generation, up, hosts, alive, unread, linkVars, pageVars>>
-----------------------------------------------------------------------------
(* The shell and its supervisor.                                           *)

ShellWrites ==
  /\ up /\ alive /\ unread < MaxUnread
  /\ unread' = unread + 1
  /\ UNCHANGED <<revision, lines, lineRevision, history, discarded, generation,
                 up, hosts, alive, linkVars, pageVars>>
ShellExits ==
  /\ up /\ alive
  /\ alive' = FALSE
  /\ UNCHANGED <<revision, lines, lineRevision, history, discarded, generation,
                 up, hosts, unread, linkVars, pageVars>>

\* Somebody starts a new session in the pane.
SessionStarts(height) ==
  /\ up /\ generation + hosts < MaxSessions
  /\ generation' = generation + 1
  /\ NewEmulator(height) /\ alive' = TRUE /\ unread' = 0
  /\ UNCHANGED <<up, hosts, linkVars, pageVars>>

\* The supervisor ends; a new one counts its sessions from one again.
Dies ==
  /\ up
  /\ up' = FALSE
  /\ UNCHANGED <<revision, lines, lineRevision, history, discarded, generation,
                 hosts, alive, unread, linkVars, pageVars>>
Respawns(height) ==
  /\ ~up /\ generation + hosts < MaxSessions
  /\ StalePages \/ (pageGen = 0 /\ boot = NoUpdate)
  /\ up' = TRUE /\ hosts' = hosts + 1 /\ generation' = 1
  /\ NewEmulator(height) /\ alive' = TRUE /\ unread' = 0
  /\ UNCHANGED <<linkVars, pageVars>>

\* "screen" (host.janet 335-353) and :snapshot: the lines that changed since
\* the position, or all if it is of another session.
ChangedLater(rev, base) == base = 0 \/ rev > base + 1
Changed(rev, base) == base = 0 \/ rev > base
Update(pos, id) ==
  LET base == IF pos.gen = generation THEN pos.at ELSE 0 IN
  [sub |-> id, gen |-> generation, at |-> revision,
   height |-> Cardinality(DOMAIN lines),
   rows |-> [r \in {q \in DOMAIN lines : Changed(lineRevision[q], base)} |->
               lines[r]],
   start |-> discarded, count |-> Cardinality(DOMAIN history),
   old |-> [k \in {j \in DOMAIN history : Changed(history[j].rev, base)} |->
              history[k].text],
   running |-> alive,
   picture |-> Picture]
\* raw-screen when nobody answers: is the socket's file gone too?
Unreachable(absent, id) == [NoUpdate EXCEPT !.sub = id, !.running = ~absent]
-----------------------------------------------------------------------------
(* The page's copy.                                                        *)

\* ScreenCore.apply: rows that are not sent stay, unless the size changed;
\* history that is no longer there goes.
Applied(old, u) ==
  LET kept == IF Cardinality(DOMAIN old.lines) = u.height THEN old.lines
              ELSE [r \in 1 .. u.height |-> Blank]
      keys == u.start .. u.start + u.count - 1 IN
  [lines |-> [r \in 1 .. u.height |->
                IF r \in DOMAIN u.rows THEN u.rows[r] ELSE kept[r]],
   history |-> [k \in (DOMAIN old.history \cap keys) \cup DOMAIN u.old |->
                  IF k \in DOMAIN u.old THEN u.old[k] ELSE old.history[k]],
   start |-> u.start, count |-> u.count]

\* receive: an update of another session starts from nothing, and one that is
\* not newer changes nothing.
Reset(u) == IF u.gen # pageGen THEN NoPage ELSE page
Received(u) ==
  /\ pageGen' = u.gen
  /\ IF u.gen # pageGen \/ u.at > at
     THEN page' = Applied(Reset(u), u) /\ at' = u.at
     ELSE UNCHANGED <<page, at>>

\* transport.subscribe, and attach after a connection: a new id each time.
Message(kind, id, pos) == [kind |-> kind, sub |-> id, at |-> pos.at, gen |-> pos.gen]
Subscribe(pos) ==
  /\ polling' = "on" /\ sub' = sub + 1
  /\ toServer' = IF open THEN Append(toServer, Message("subscribe", sub + 1, pos))
                         ELSE toServer
Unsubscribed ==
  IF open THEN Append(toServer, Message("unsubscribe", sub, NoPos)) ELSE toServer

\* boot: the answer to "screen" is asked for ...
BootAsks ==
  /\ pageGen = 0 /\ boot = NoUpdate /\ open /\ up
  /\ boot' = Update(NoPos, 0)
  /\ UNCHANGED <<hostVars, linkVars, at, pageGen, page, polling, sub>>

\* ... and shown, and from there on the page is kept up to date.
BootApplies ==
  /\ boot # NoUpdate
  /\ pageGen' = boot.gen /\ at' = boot.at /\ page' = Applied(NoPage, boot)
  /\ boot' = NoUpdate
  /\ Subscribe([at |-> boot.at, gen |-> boot.gen])
  /\ UNCHANGED <<hostVars, stream, toPage, open, cuts>>

\* onmessage: an update of an older subscription is dropped, any other is
\* consumed, and acknowledged with a credit for the next.
Current(u) == polling = "on" /\ u.sub = sub
PageDrops ==
  /\ toPage # <<>> /\ ~Current(Head(toPage))
  /\ toPage' = Tail(toPage)
  /\ UNCHANGED <<hostVars, stream, toServer, open, cuts, pageVars>>
PageReceives ==
  LET u == Head(toPage) IN
  /\ toPage # <<>> /\ Current(u)
  /\ toPage' = Tail(toPage)
  /\ IF u.gen = 0 THEN UNCHANGED <<at, pageGen, page>> ELSE Received(u)
  /\ IF u.running
     THEN /\ toServer' = Append(toServer,
               Message("credit", sub, [at |-> at', gen |-> pageGen']))
          /\ UNCHANGED polling
     ELSE polling' = "exited" /\ toServer' = Unsubscribed
  /\ UNCHANGED <<hostVars, stream, open, cuts, sub, boot>>

\* The panel is shut, or shown again.
Shuts ==
  /\ polling = "on" /\ cuts < MaxCuts
  /\ polling' = "off" /\ toServer' = Unsubscribed /\ cuts' = cuts + 1
  /\ UNCHANGED <<hostVars, stream, toPage, open, at, pageGen, page, sub, boot>>
Shows ==
  /\ pageGen # 0 /\ polling # "on" /\ cuts < MaxCuts
  /\ Subscribe([at |-> at, gen |-> pageGen]) /\ cuts' = cuts + 1
  /\ UNCHANGED <<hostVars, stream, toPage, open, at, pageGen, page, boot>>
-----------------------------------------------------------------------------
(* The server's end of the websocket (terminal-stream).                    *)

NoStream == [sub |-> 0, credit |-> NoPos, asked |-> NoPos]
Accepts(m) == [at |-> m.at, gen |-> m.gen]
ServerReceives ==
  LET m == Head(toServer) IN
  /\ toServer # <<>>
  /\ toServer' = Tail(toServer)
  /\ stream' =
       CASE m.kind = "subscribe" -> [sub |-> m.sub, credit |-> Accepts(m),
                                     asked |-> NoPos]
         [] m.kind = "unsubscribe" -> NoStream
         [] m.kind = "credit" ->
              IF m.sub = stream.sub /\ stream.credit = NoPos
              THEN [stream EXCEPT !.credit = Accepts(m)] ELSE stream
  /\ UNCHANGED <<hostVars, toPage, open, cuts, pageVars>>

\* The subscription's fiber takes the credit and asks the supervisor, which
\* answers when there is something new, or after a second.
KeptCredit == stream.credit
LeftCredit == NoPos
Asks ==
  /\ stream.credit # NoPos /\ stream.asked = NoPos
  /\ stream' = [stream EXCEPT !.asked = stream.credit, !.credit = LeftCredit]
  /\ UNCHANGED <<hostVars, toServer, toPage, open, cuts, pageVars>>
Answers ==
  /\ stream.asked # NoPos
  /\ \/ up /\ toPage' = Append(toPage, Update(stream.asked, stream.sub))
     \/ ~up /\ \E absent \in BOOLEAN :
          toPage' = Append(toPage, Unreachable(absent, stream.sub))
  /\ stream' = [stream EXCEPT !.asked = NoPos]
  /\ UNCHANGED <<hostVars, toServer, open, cuts, pageVars>>

\* The connection is lost with all that is on it, and comes back.
Cut ==
  /\ open' = FALSE /\ stream' = NoStream /\ toServer' = <<>> /\ toPage' = <<>>
  /\ cuts' = cuts + 1
Disconnects ==
  /\ open /\ cuts < MaxCuts
  /\ Cut /\ boot' = NoUpdate
  /\ UNCHANGED <<hostVars, at, pageGen, page, polling, sub>>
ReattachedNever == FALSE
Reattached == polling = "on"
Reconnects ==
  /\ ~open
  /\ open' = TRUE
  /\ IF Reattached
     THEN /\ sub' = sub + 1
          /\ toServer' = <<Message("subscribe", sub + 1, [at |-> at, gen |-> pageGen])>>
     ELSE UNCHANGED <<sub, toServer>>
  /\ UNCHANGED <<hostVars, stream, toPage, cuts, at, pageGen, page, polling, boot>>

\* The page is loaded again.
Reloads ==
  /\ pageGen # 0 /\ cuts < MaxCuts
  /\ Cut
  /\ at' = 0 /\ pageGen' = 0 /\ page' = NoPage /\ polling' = "off"
  /\ boot' = NoUpdate
  /\ UNCHANGED <<hostVars, sub>>
-----------------------------------------------------------------------------
Init ==
  /\ \E h \in Heights :
       /\ revision = 1 /\ lines = [r \in 1 .. h |-> Blank]
       /\ lineRevision = [r \in 1 .. h |-> 1]
  /\ history = <<>> /\ discarded = 0
  /\ generation = 1 /\ up = TRUE /\ hosts = 1 /\ alive = TRUE /\ unread = 0
  /\ stream = NoStream /\ toServer = <<>> /\ toPage = <<>> /\ open = TRUE /\ cuts = 0
  /\ at = 0 /\ pageGen = 0 /\ page = NoPage /\ polling = "off" /\ sub = 0
  /\ boot = NoUpdate

Next ==
  \/ Feeds \/ ShellWrites \/ ShellExits \/ Dies
  \/ \E h \in Heights : Resizes(h) \/ SessionStarts(h) \/ Respawns(h)
  \/ BootAsks \/ BootApplies \/ PageDrops \/ PageReceives
  \/ Shuts \/ Shows
  \/ ServerReceives \/ Asks \/ Answers
  \/ Disconnects \/ Reconnects \/ Reloads

\* The page's and the server's event loops run, and a page that lost its
\* connection tries again every 500 ms.
Fairness ==
  /\ WF_vars(BootAsks) /\ WF_vars(BootApplies) /\ WF_vars(Reconnects)
  /\ WF_vars(PageDrops \/ PageReceives)
  /\ WF_vars(ServerReceives) /\ WF_vars(Asks) /\ WF_vars(Answers)

Spec == Init /\ [][Next]_vars
FairSpec == Spec /\ Fairness
-----------------------------------------------------------------------------
(* What makes the screen's way to the page correct.                        *)

Pos == [at : Nat, gen : 0 .. MaxSessions]
Messages == [kind : {"subscribe", "unsubscribe", "credit"}, sub : Nat,
             at : Nat, gen : 0 .. MaxSessions]
UpdateOK(u) ==
  /\ u.sub \in Nat /\ u.gen \in 0 .. MaxSessions /\ u.at \in 0 .. MaxRevision
  /\ u.height \in Heights \cup {0} /\ u.start \in Nat /\ u.count \in 0 .. HistoryLimit
  /\ u.running \in BOOLEAN
  /\ DOMAIN u.rows \subseteq 1 .. u.height
  /\ \A r \in DOMAIN u.rows : u.rows[r] \in Line
  /\ DOMAIN u.old \subseteq u.start .. u.start + u.count - 1

TypeOK ==
  /\ revision \in 1 .. MaxRevision /\ Cardinality(DOMAIN lines) \in Heights
  /\ DOMAIN lineRevision = DOMAIN lines
  /\ \A r \in DOMAIN lines : lines[r] \in Line /\ lineRevision[r] \in 1 .. revision
  /\ DOMAIN history = Keys /\ Cardinality(Keys) <= HistoryLimit
  /\ \A k \in Keys : history[k] \in [text : Line, rev : 1 .. revision]
  /\ generation \in 1 .. MaxSessions /\ hosts \in 1 .. MaxSessions
  /\ up \in BOOLEAN /\ alive \in BOOLEAN /\ unread \in 0 .. MaxUnread
  /\ stream \in [sub : Nat, credit : Pos, asked : Pos]
  /\ toServer \in Seq(Messages) /\ \A i \in DOMAIN toPage : UpdateOK(toPage[i])
  /\ open \in BOOLEAN /\ cuts \in 0 .. MaxCuts
  /\ at \in 0 .. MaxRevision /\ pageGen \in 0 .. MaxSessions
  /\ polling \in {"off", "on", "exited"} /\ sub \in Nat /\ UpdateOK(boot)

\* docs/terminal-streaming.md:5: the lines sent and kept amount to the whole
\* pictures that ScreenMirror sends, one at a time.
Coming ==
  IF boot # NoUpdate THEN {boot.picture}
  ELSE {toPage[i].picture : i \in {j \in DOMAIN toPage :
          Current(toPage[j]) /\ toPage[j].gen # 0}}
OneOf(S) == IF S = {} THEN Nothing ELSE CHOOSE p \in S : TRUE
Sent == OneOf(Coming)
Mirror == INSTANCE ScreenMirror WITH
  screen <- Picture, shown <- Shown, sent <- Sent
Mirrors == Mirror!Spec

\* docs/terminal-streaming.md:5, "Session generations and subscription IDs
\* prevent stale output from being applied to a replacement session": a page
\* that has the present revision shows the present picture.
LatestShown ==
  up /\ pageGen = generation /\ at = revision => Shown = Picture

\* docs/terminal-streaming.md:5, "each subscription has at most one
\* unacknowledged screen update": of what the page has asked for and got,
\* only one thing is on its way.
Underway(id) ==
  Cardinality({i \in DOMAIN toServer :
                 toServer[i].sub = id /\ toServer[i].kind # "unsubscribe"})
  + Cardinality({i \in DOMAIN toPage : toPage[i].sub = id})
  + (IF stream.sub = id /\ stream.credit # NoPos THEN 1 ELSE 0)
  + (IF stream.sub = id /\ stream.asked # NoPos THEN 1 ELSE 0)
OneUnacknowledged == \A id \in 1 .. sub : Underway(id) <= 1

\* A page that goes on polling comes to show what the terminal shows, however
\* often the connection broke, the panel was shut or the session replaced.
CatchesUp == []<>(polling # "on" \/ ~up \/ Shown = Picture)

\* docs/file-commands.md:1, "Output remains visible in the pane when the
\* command exits": a page that has stopped to poll because the shell exited
\* has all of its output.  It does not hold: `running` asks whether the shell
\* lives, not whether its output has been read.
FinalOutputShown ==
  polling = "exited" /\ up /\ pageGen = generation => unread = 0
-----------------------------------------------------------------------------
(* The inductive invariant, for pages that do not outlive their supervisor. *)

EmulatorInv ==
  /\ lines = [r \in DOMAIN lines |-> lines[r]]
  /\ \E h \in Heights : DOMAIN lines = 1 .. h
  /\ discarded \in Nat
  /\ \E n \in 0 .. HistoryLimit : DOMAIN history = discarded .. discarded + n - 1

\* Ids are given out once, and each is in at most one place: among the messages
\* ts, among the updates tp or in the server's subscription st.
Asked(m) == m.kind # "unsubscribe"
AtServer(st) == st.credit # NoPos \/ st.asked # NoPos
Free(id, ts, tp, st) ==
  /\ \A i \in DOMAIN ts : Asked(ts[i]) => ts[i].sub # id
  /\ \A i \in DOMAIN tp : tp[i].sub # id
  /\ AtServer(st) => st.sub # id
OnePlace(ts, tp, st, last) ==
  /\ \A i \in DOMAIN ts : ts[i].sub <= last
  /\ \A i \in DOMAIN tp : tp[i].sub <= last
  /\ st.sub <= last /\ (st.credit = NoPos \/ st.asked = NoPos)
  /\ \A i, j \in DOMAIN ts :
       Asked(ts[i]) /\ Asked(ts[j]) /\ ts[i].sub = ts[j].sub => i = j
  /\ \A i, j \in DOMAIN tp : tp[i].sub = tp[j].sub => i = j
  /\ \A i \in DOMAIN ts, j \in DOMAIN tp : Asked(ts[i]) => ts[i].sub # tp[j].sub
  /\ AtServer(st) => /\ \A i \in DOMAIN ts : Asked(ts[i]) => ts[i].sub # st.sub
                     /\ \A i \in DOMAIN tp : tp[i].sub # st.sub
OneInv ==
  /\ toPage \in Seq({toPage[i] : i \in DOMAIN toPage})
  /\ OnePlace(toServer, toPage, stream, sub)

\* What a polling page has asked for is what comes after what it has.
AskedFrom(pos, ts, st, id) ==
  /\ \A i \in DOMAIN ts : Asked(ts[i]) /\ ts[i].sub = id => Accepts(ts[i]) = pos
  /\ st.sub = id => st.credit \in {NoPos, pos} /\ st.asked \in {NoPos, pos}
PosInv ==
  polling = "on" =>
    pageGen # 0 /\ AskedFrom([at |-> at, gen |-> pageGen], toServer, stream, sub)

\* A copy has all that was changed up to a revision, if the emulator has these
\* lines ls, changed in lr, this history hs and the revision rev.
Has(copy, upTo, ls, lr, hs, rev) ==
  /\ copy.lines = [r \in DOMAIN copy.lines |-> copy.lines[r]]
  /\ \A r \in DOMAIN ls :
       lr[r] <= upTo => r \in DOMAIN copy.lines /\ copy.lines[r] = ls[r]
  /\ DOMAIN copy.lines # DOMAIN ls => \A r \in DOMAIN ls : lr[r] > upTo
  /\ \A k \in DOMAIN hs :
       hs[k].rev <= upTo => k \in DOMAIN copy.history /\ copy.history[k] = hs[k].text
  /\ upTo = rev => DOMAIN hs = copy.start .. copy.start + copy.count - 1
PageInv ==
  /\ pageGen <= generation
  /\ pageGen = generation =>
       at <= revision /\ Has(page, at, lines, lineRevision, history, revision)

\* What the page will have when it has received u: the picture u was made of.
After(u, copy, upTo, gen) ==
  IF u.gen # gen THEN Applied(NoPage, u)
  ELSE IF u.at > upTo THEN Applied(copy, u) ELSE copy
Fits(u, copy, upTo, gen) ==
  /\ u.gen \in 1 .. generation
  /\ u.gen = gen => upTo <= u.at
  /\ u.gen = generation =>
       /\ u.at <= revision
       /\ Has(After(u, copy, upTo, gen), u.at, lines, lineRevision, history, revision)
  /\ Seen(u.gen, After(u, copy, upTo, gen)) = u.picture
ComingInv ==
  /\ boot # NoUpdate => pageGen = 0 /\ Fits(boot, NoPage, 0, 0)
  /\ \A i \in DOMAIN toPage :
       Current(toPage[i]) /\ toPage[i].gen # 0 => Fits(toPage[i], page, at, pageGen)

IInv == TypeOK /\ EmulatorInv /\ OneInv /\ PosInv /\ PageInv /\ ComingInv
=============================================================================
