# A TLA+ development for visualize

visualize draws the dependency graph of a project in a browser and keeps
terminals beside it.  A Janet server reads the sources, draws the graph and
serves the page; every terminal runs in a supervisor process of its own, which
outlives the server; the page in the browser is a small window manager.

This directory holds TLA+ modules translated from that code, TLC
configurations that check them on small instances, and TLAPS proofs.
`PROJECT.json` says for every definition which lines it stands for, for every
run what it checks, and which small change of the code each property notices.

## The system

| Component | Keeps | Operations | Talks to |
|---|---|---|---|
| Terminal supervisor, `term/host.janet`, `term/pty.janet` | session, generation, output channel, emulator, unsent input, dimensions | start, stop, input, resize, screen, state, capture, shutdown; a reader thread per session; the keep-draining fiber | server (Unix socket), shell (PTY) |
| Terminal client, `term/client.janet` | the turn, the pinned and the parked connection | every terminal request; spawns a supervisor if nobody answers | core, supervisor |
| Server core, `core.janet` | panes, documents, pane generation, token | startup and recovery, start and shutdown of panes, documents, titles, Ctrl-C, Ctrl-D | client, config, browser, `vz` |
| Terminal streams, `core.janet` 340-426, `websocket.janet` | subscriptions and positions, the outgoing queue | subscribe, unsubscribe, request, close | client, browser |
| Configuration file, `config.janet`, `config-graph.janet` | a text file: graph commands and terminal records | read, change, tidy, atomic write | core, graph worker, the user's editor |
| Graph worker, `graph.janet`, `graphviz.janet` | a thread with its fingerprint, commands, tree, drawing and generation; the tickets of calls | refresh (every 0.7 s and with each request), draw, regenerate, file lookup, stop | core, scan |
| Graph page, `graph/updates.js`, `shared/watch.js` | the drawing shown and its generation | poll `/watch`, redraw | core |
| Scan, select, layout | parsed files, fingerprints | scan, keep, drop, fold, lay out | graph worker |
| Emulator bridge, `src.vterm/bridge.c`, `term/vterm.janet` | rows, revisions, history ring | write, resize, lines since a revision | supervisor, emulator (callbacks) |
| Emulator, `src.vterm/src/state.c`, `screen.c` (libvterm, changed here) | two screens, wrapping marks, cursor, scroll region, damage kept back | print, control, erase, scroll, switch screens, resize | bridge |
| Workspace page, `panes/workspace.js`, `terminal/content.js` | panels, `closing`, boots | open, close, follow the pane watch | core, over HTTP and a websocket |
| Screen, `terminal/content.js`, `screen-core.js`, `term.js` | rows and history shown, position | apply updates, send input and sizes | streams |
| Transport, `shared/transport.js`, `shared/watch.js`, `shared/refresh.js` | socket, pending requests, token, generations | connect, request, subscribe, poll | core |

What is hard about it:

* **Fibers.** Server and supervisor are cooperative: a fiber runs until it
  yields.  Janet's `ev/take` yields even when an item is there, so that
  `drain` gives way to a start between taking a chunk and applying it.
* **Threads.** Each session's reader thread runs in parallel and owns nothing
  but a descriptor number, which the next session may get again.
* **Processes.** Supervisors outlive servers.  The server finds them through
  socket paths recorded in the file it also edits, and may be killed between
  any two writes of it.
* **Retries.** The client repeats a message after a broken connection or a
  missed deadline, and a reply may come late.
* **Two copies of a truth.** The page follows the registry through a long poll
  while it changes the registry through another connection.

What makes each part correct (in italics: not stated in a module yet):

| Component | Must hold |
|---|---|
| Supervisor | one session, the newest; no shell or descriptor is leaked; input and output belong to the session that is there; every request is answered and output is drained |
| Client | one fiber talks at a time; a reply answers the request that is outstanding; input is typed at most once; no live supervisor is hidden; every call returns |
| Registry and records | a live terminal is always registered, recorded or being recovered; the file says what the registry says |
| Workspace | a closed pane stays closed; a close or Ctrl-C leaves no terminal running that nobody knows; an up-to-date page shows the registry |
| Bridge, screen | what the page shows is a whole picture the terminal had; the newest revision shows the present one; a page that polls catches up |
| Emulator | a changed row is reported with its write; line feeds and resizes lose no text; the alternate screen stays out of the history; the cursor is on the screen |
| Streams | queues stay within their limits and their counters are right; a pane's operations keep their order and nothing runs behind a shutdown; every request is answered once, also while another pane's terminal does not answer; the fibers of a closed websocket end |
| Graph worker and page | the newest generation means the present drawing; notices come before drawings; no call waits for ever; open pages catch up |
| Configuration file | *a change touches the region it names only; tidying is idempotent and keeps what the commands mean; concurrent changes are not lost* |
| Scan, select, layout | *keep, drop and fold give the subgraph their commands describe, in every order of files* |

## Modules

| Module | Models | State |
|---|---|---|
| `TermHost` | host.janet, pty.janet | as in the code, one variable each; connections are fibers |
| `TermHostProofs` | proofs about `TermHost` | |
| `TermClient` | client.janet, and the life of supervisor processes (host.janet 396-464) | the turn, connections, supervisors, whose socket the path names |
| `TermClientProofs` | proofs about `TermClient` | |
| `PaneRegistry` | core.janet's registry; config.janet's records | panes, documents, generation, record, live sessions |
| `Workspace` | workspace.js, content.js boot, watch.js; extends `PaneRegistry` | panels, remote, closing, boots, the watch's answer |
| `WorkspaceProofs` | proofs about these two | |
| `ScreenMirror` | what the stream promises, abstractly | the terminal's picture, the one sent, the one shown |
| `ScreenSync` | bridge.c, vterm.janet, "screen" of host.janet, the subscriptions of core.janet, transport.js, screen-core.js | the emulator's lines and their revisions, the subscription, both directions of the websocket, the page's copy |
| `ScreenSyncProofs` | proofs about it, with its refinement of `ScreenMirror` | |
| `PaneStream` | terminal-stream of core.janet, serve of websocket.janet | one websocket: the outgoing queue, the writer, who waits for room, actors with their queues, subscriptions with their credits, the reader |
| `PaneStreamProofs` | proofs about it | |
| `VTermScreen` | state.c, screen.c, vterm.c, bridge.c | one emulator: both screens, wrapping, cursor, region, damage, history |
| `VTermScreenProofs` | proofs about it | |
| `Recursions` | induction, recursive functions and sums, for the proofs | |
| `ProjectGraph` | graph.janet, the drawing routes of core.janet, updates.js, watch.js | the project, the worker's caches, both channels, calls, what pages show |
| `ProjectGraphProofs` | proofs about it | |

Each has an `MC...` module which only adds what TLC needs.

### TermHost

A step is what a fiber does between two yields.  `SessionStart`, `StartResumes`,
`SessionStop`, `SessionSend`, `SessionResize` and `RequestDrains` are the
requests; `Drain...` are the pieces of `drain` between two `ev/take`s, entered
by a request or by `KeepDraining`; `Pty...` and `Read...` are the steps of a
reader thread, whose `read(2)` resolves the descriptor's number when it is
called.  Chunks are named by the generation that wrote them; a screen is the
sequence of generations the emulator was fed; themes, text and the launch
environment are left out.

### TermClient

`Call` starts a method, which then waits for the turn (`queued`), finds or
makes a connection (`turn`, `ensure`), talks (`talk`) and passes the turn.
A supervisor clears the path, binds, accepts, closes its server and ends; it
watches whether its path still exists.  A connection is three queues: what was
written, what is being handled, what was answered.  `late` records the two
delays after which a supervisor may be hidden: `ensure` gave up before one it
had spawned listened, or one bound the path while another that had closed its
server was still to remove it.  Nothing forbids them; `NoneHidden` speaks of
behaviours without.

### PaneRegistry and Workspace

`PaneFor` and `Forget` are the code's two changes of the registry, each with
its writes of the file.  A server process boots, probes the recorded terminals
one after the other (`Recover`), serves, and goes by a kill, Ctrl-D
(`EndOfInput`) or Ctrl-C (`Interrupt`).  `Killed` says in which of its states
a kill is considered.  Panes are numbers, the first is the harness.

A request is a record in `calls`: who made it, and how far it is.  A start is
registered, asks, and ends (`StartBegins`, `Starts`, `StartEnds`).  A shutdown
arrives, waits for its turn behind the start that came over the same websocket
(`InTurn`: the pane's actor), finds the pane gone or asks, and ends with the pane
forgotten, whether it was answered or not (`ShutdownArrives`, `ShutdownAbsent`,
`ShutdownBegins`, `ShutsDown`, `ShutdownEnds`).  A websocket that is lost drops
what waits and leaves alone what is under way (`SocketLost`).

`Workspace` adds pages.  `OpenTerminal`, `BootStarts` and `BootAnswered` are the
life of a panel, `ClosePanel`, `StopAsks`, `StopAnswered` and `StopEnds` its end,
`WatchReplies` and `SyncPanes` the long poll, `RefreshSession` the new token.  A
request ends for the page when it is answered, fails, times out or loses its
websocket, whatever goes on at the server.  Callers that are not in `Browsers`
start and close panes as they like.  `buried` is a history variable: the panes a page
closed that nobody started again; `seen` is another, the last update it got.

The code loses terminals in three ways, and all three are in the model.  A server
killed during its recovery is `recovery_killed` below.  Nobody looks whether a
shutdown was acknowledged (`ShutdownEnds`) or what a supervisor does that a start
has given up (`StartEnds`).  And requests about a pane overlap when they come over
different websockets: of two browsers, or of a page alone, whose boot is settled
by a lost websocket while the start goes on at the server.  `astray` is a history
variable: the panes to which one of the last two has happened since they were last
registered with nothing under way (`GoesAstray`).  `LivePanesKnown` speaks of the
others; a terminal lost in these ways is a hazard (core.janet:307 and 325), to
which the code has no answer.  Every other property is about all panes.

One delay is bounded, `NothingUnderWay`: a request that is not answered takes
longer to fail than an answer of the watch is on its way, or that answer is lost
with the server.  The other bounds are `MaxCalls` (requests about panes under way
at once), `Strays` (panes that may go astray), `Shared` (panes that other callers
start and close), `Viewed` (panes with documents) and `MaxChanges`; the theorems
hold for any.  `View` in `MCWorkspace` leaves out what a page saw of the past,
which no step and no property depends on.
Titles, which only count in the registry's generation, are left out.

### ScreenSync and ScreenMirror

The emulator stamps each row and each history line with the revision that
changed it; history lines have keys that only the ring's head moves
(`discarded`).  `PutLine`, `Scroll`, `ClearHistory` and the alternatives of
`Resizes` are what libvterm asks of the bridge: it is external, so any of them
may happen.  `Update` is the answer to a position: the lines changed since then,
or all if the position is of another generation.  The server's subscription
holds at most one credit and one question (`Asks`, `Answers`), and the page
applies, then credits (`PageReceives`).  A connection loses what is on it
(`Disconnects`), and the page subscribes again from what it has applied
(`Reconnects`).  Lines are values; width counts as height; cursor, modes and
title travel whole and are left out.  The session is always started (starting
one from a page is in `Workspace`).

`ScreenMirror` knows pictures only: one is drawn, sent, shown or lost.
`Mirror == INSTANCE ScreenMirror WITH ...` maps the emulator to `screen`, the
copy to `shown`, and an update that the page will accept to the picture it was
taken of, which `Update` carries along as a history variable (`picture`).  The
refinement says that deltas put together are never a mixture.
`StalePages = FALSE` names an assumption of the passing runs: no page outlives
the supervisor it has applied updates of.  Every supervisor counts its sessions
from 1, so that otherwise TLC finds a page that mixes the lines of two
terminals (`LatestShown` with `StalePages = TRUE`); it is listed as a hazard.

### PaneStream

One websocket of a page, from its opening to the end of its last fiber.  The
reader takes messages (`Subscribe`, `Unsubscribe`, `Credit`, `Ask`) as they
come; the page may send any, in any order, up to `MaxMessages`.  Each pane that
is asked something has an actor with a queue (`ActorFor`, `Ask`, `ActorStarts`,
`Begin`, `End`, `GoOn`), which a shutdown takes out of the table and which then
empties its queue (`Drain`).  A subscription is a fiber that waits for a credit,
asks its terminal and sends (`SubGoesOn`, `SubSends`).  What a fiber sends goes
through `Send`: it waits while the frame does not fit (`wait`), looks again
(`Retry`), and then gives; who fills the channel by it is `parked` until the
writer takes a frame.  The end comes by a close
frame, the end of input, an error of the reader or of the writer, and
`CloseStream` closes every queue.  `Stuck` are the terminals that need not
answer.  Frames are lengths, operations are names; what updates hold is in
`ScreenSync`, and pings, fragments and the parsing of frames are left out.

### VTermScreen

`Put`, `LF`, `CR`, `RI` and the control sequences are functions from an emulator
(a record) to an emulator, as the C functions change one; the actions apply them
inside a write (`WriteBegins`, `WriteEnds`) or resize between writes.  `Damage`
and `Flush` are the merging of damage by rows, `Stamp` the bridge's callback.
`Lays` is `resize_buffer`'s loop, as a function of the rows done; `Lay` is one
turn of it, which takes a line with all the rows it wraps over, the last line
first, and lays it out at the new width.  `Filled` is what follows the loop: the rows left out
go to the history, lines come back from it, or blank rows.  The loop carries the
marks of all new rows, since lines that are moved down leave marks behind in the
rows above, and a line that comes back from the history takes a row with the
mark it has.  Rows and columns count from 0.

`ScreenSync` takes any such steps of the emulator for granted, down to which
rows are reported; `DamageCovers` is what justifies that for the rows.

The model was compared with the compiled library: for ten thousand random
sequences of these operations on screens of one to four rows and columns, with
13,000 resizes, rows, cursor, history, stamped rows and the calls of `abort`
were the same.  Outside the model, because the C code reads outside its arrays
there: restoring a cursor that was saved on a larger screen (`SavedInside`),
resizing while the first row continues a line whose beginning has scrolled off,
or to fewer rows than the scroll region's top (`Defined`).  These are hazards,
as are two that the model has: a resize that does not find the cursor aborts
(`stopped`), and one while the alternate screen is shown takes the rows for the
history from that screen.  `EraseTop = FALSE` leaves out one sequence whose
damage is reported wrongly: ED 1 in the first row.

### ProjectGraph

The worker thread reads the project in several steps, and others write it
between any two: `Refreshing` reads the configuration, `Prints` takes the
fingerprint, forgets what is out of date and gives notice of a new generation,
`Rereads` reads the configuration again and `Draws` scans and draws.  A request
does all of them (`TakesRequest`), the watch fiber the first two (`Ticks`), a
file lookup `Finds` instead of the last two.  `Gives`, `TakesReply` and
`WorkerEnded` are the server's side: a ticket for each call, the fiber that
takes notices and answers, and the one that fails what is left when the thread
ends, by an error at its start or by the `:stop` of Ctrl-C.  `Opens`, `Notices`,
`Asks` and `Refused` are a page's life: `GET /`, the long poll, the redraw, and
the refusal after a server was replaced, upon which the watch renews the token
and forgets its generation.  `RenewsToken` is the other way to a new token: a
websocket that connects again, or a refused save of the panes' places, renews it
alone, and the generation stays the old server's.  `from` is a history variable,
the server that told a page its generation.

A text of the configuration is a number, a source file the number of its
version; what the configuration hides is 0 for fingerprint and scan (`Seen`),
and a picture is the pair of both, if Graphviz draws it (`Undrawable`).  Two
assumptions are named: texts do not come back (`ConfigChanges`), and reading
fails only at the start of the thread.  Without the first, a text written
between the two reads of a draw and taken back before the next refresh leaves
its drawing on the page with the newest generation (a hazard at
graph.janet:104).  Which nodes flash and the diagrams of configurations are left
out.

## Runs

| Run | Shows | Bounds |
|---|---|---|
| `host_safety` | no shell leaks, the session is the newest on its own PTY, input reaches the session it named | 2 connections, 3 starts, 1 idle stop, 2 descriptors, channel of 1 |
| `host_live` | replaced children end, requests are answered, output is drained | 2 connections, 2 starts, 1 chunk each, emulator replies and faults |
| `host_stale_output` | **violated**: a drain feeds an old chunk to the new emulator | 2 starts, 1 chunk |
| `client` | one turn, matching replies, input once, no hidden supervisor, every call returns | 2 calls of all kinds, 2 supervisors, 3 connections, 1 crash, 1 missed deadline |
| `workspace_safety` | closed panes stay closed, no live terminal is lost unless its pane is astray, the file agrees with the registry, an up-to-date page is right | 1 page, 1 other browser that starts and closes the second pane, 2 panes, 2 servers, 2 changes a server, 2 requests at once, kills while serving, lost websockets, the second pane may go astray and have a document |
| `recovery_killed` | **violated**: a kill during recovery loses terminals | 2 panes, 2 servers |
| `stream` | queues keep their limits and counts, a pane's operations keep their order and none follows a shutdown, every request is answered once, fibers end | 2 panes, one with a subscription, one with a terminal that need not answer, 2 messages, queues of 1 and 2, frames of 1 and 4 with room for 2 (a longer one goes alone) |
| `stream_actors` | **violated**: an actor behind a shutdown loops for ever when its websocket closes | as above |
| `emulator` | changed rows are reported, text is kept, history is of the main screen, the cursor is on the screen | 2x2, 3x2 and 2x3 cells, 2 letters, up to 3 lines of 0 or 3 letters, then 3 operations, history of 3 lines |
| `screen` | the copy amounts to whole pictures (refinement of `ScreenMirror`), the newest revision shows the present one, one update underway, a polling page comes to show the present picture | 1 or 2 rows, history of 1 line, 3 revisions, 3 supervisors and sessions together, 1 cut, 1 text |
| `screen_final` | **violated**: the page stops to poll with the shell's last output unread | 1 session, 1 piece of output |
| `graph` | the newest generation means the present drawing, notices come before drawings, no call waits forever, open pages catch up unless the generation they kept from another server is the same number | 1 page, 1 other caller, 3 texts (the second hides the file), 2 versions of the file, 1 picture that cannot be drawn, 2 servers |

The bounds are enough for the hazards: a third start is needed for a start
that is superseded while the one before it still waits; two descriptors for a
number to be reused while its reader is late; capacity 1 for a full channel;
two supervisors for one hiding the other; two calls for a turn with a holder and
one who waits or parks; two messages for a shutdown and one behind it, which its
actor has to refuse; a frame longer than the room for one that needs the queue to itself;
screens of three columns for lines of three letters, which leave a wrap due, and
of two, where they wrap; two heights for rows that are pushed and come back; two servers for a generation that starts again at
zero; a history of one line for a full ring, and two heights for lines that are
taken back from it; three texts for two that differ in nothing the fingerprint
sees, and one that hides the file.  Deadlock is not checked where bounded starts, calls and servers make the
system stop.

### Fairness

`TermHost.FairSpec` schedules every fiber and every reader thread that can
move weakly fairly: Janet's event loop runs its queue in order, and threads are
the operating system's.  It assumes nothing about requests, which need not
come, and nothing about the shell, which need not write.
`TermClient.FairSpec` lets fibers, supervisors and connections go on; nobody has
to call, crash or miss a deadline.  `ScreenSync.FairSpec` lets the page's and
the server's event loops run, and a page reconnect, which it tries every 500 ms;
nothing is assumed of the shell, of sessions or of the connection's breaking.
`PaneStream.FairSpec` does the same for the fibers of one websocket, the writer
included (a socket that takes no more bytes fails in the end), but lets the
terminals in `Stuck` never answer and the page never send, credit or close.
`ProjectGraph.FairSpec` gives strong fairness to the loop's `ev/take` and to the
watch fiber's tick: both are fibers of one event loop, which serves them in
turn, so that neither starves the other for good.  The server's fibers and open
pages go on; nobody has to edit, open a page, call, interrupt or restart.

### Violated properties

Each of these states a sentence of the repository's documentation and is
violated by what the code does; `PROJECT.json` "findings" has the quotations.
More places where the code does not do what one expects are listed as hazards
without a property of their own, among them: a shutdown that is not acknowledged, or
that overtakes a start over another websocket, loses a terminal, a page with a
renewed token may keep the old server's drawing, Ctrl-C leaves the supervisor of a start that
waited behind the shutdown, some resizes abort the supervisor, a resize while a start waits leaves the new PTY
with the start's size, a start whose reply missed the deadline is carried out
twice, and the document of a pane whose terminal was ended by Ctrl-C covers the
terminal of the next fresh start.

## Proofs

`TermHostProofs` proves, for any number of connections, starts, chunks and
descriptors and any capacities, that `TermHost` keeps its types and the four
safety properties of `host_safety`.  None of these is inductive: that the
session is the newest says nothing while a start waits, and a PTY is closed by
a number that could have become another's.  `IInv` (end of `TermHost`) adds
what the waiting starts hold (`StartersOK`, `StartersDiffer`: each has a
generation nobody else has, and the PTY its thread opened), that only a started
generation has a thread and an opening one has its start waiting (`ThreadsOK`),
that a descriptor in use and its PTY name each other (`FdsOK`), that the
`draining` flag is the fiber inside `drain` (`OneDrainer`), and that queued
input is for the present generation (`UnsentOK`).

First, every action keeps `TypeOK`.  The rest is split by what an action
touches: "quiet" steps (drains, answers, reads) keep
everything about ownership by one lemma (`QuietKeepsOwn`), and `SessionStart`,
`SessionStop`, `StartResumes` and `PtyOpen` have a lemma each.  The only
assumption is `HostAssumption` on the constants, which TLC evaluates too.

`TermClientProofs` proves, for any number of calls, supervisors, connections,
crashes and missed deadlines, the five safety properties of `client`.  `IInv`
(end of `TermClient`) is built in layers.  `TurnInv` says who has the turn and
that every ticket that is out belongs to one waiting call.  `UseInv` says which
connection a call may talk on: the pinned one with the turn, the parked one as
its owner, or one of its own.  `LinkInv` is the heart: an open connection
carries nothing, or one message of a call that talks on it.  With them a
connection has one talker (`OneTalker`) and what it reads is its own reply
(`OwnReply`), whatever an earlier talk left behind, since what an earlier talk
left behind is on a closed connection.  Most actions only take talks and loads
away; `Fewer` says so and `FewerKeeps` keeps both parts for all of them at once,
so that only the three actions that send (`Starting`) and the two by which a
message moves on (`MovingOn`) are treated one by one.  `Steps` and `Waits` say
what a step does to the call that takes it and to all others; `ReplyInv`,
`InputInv` (an input is in no inbox, or in one and not yet carried out) and
`SupInv` (while nobody was late, one supervisor is on its way to the path or has
it, and a call waits for the one on its way) follow from these.  The only
assumption is `ClientAssumption`, which TLC evaluates too.

`WorkspaceProofs` proves, for any number of browsers, other callers, panes,
requests, changes and server processes, the properties of `workspace_safety`.  The
registry's part (`RegistryInv`) is inductive on its own:
`RecordsMatch` is not, since a recovering server has read the documents and has
not yet taken up the panes (`RecoveryOK`), and calls and probes belong to one
process (`ProcessOK`).  `LivePanesKnown` needs that a pane being started stays
registered and that a shutdown waits for it, unless the pane is astray
(`StartsOK`).  The theorem `Known` has one hypothesis, that a recovering server is
not killed; `recovery_killed` shows that it cannot be left out.

The pages' part is `PageInv`.  That a closed pane stays closed rests on two
facts about panes a page has buried: once an update without the pane has come
after the end of its shutdown, neither the registry nor the file nor an answer
on its way has it (`BuriedGone`), and an answer without it that is on its way
then says so (`BuriedAnswered`).  `NumbersOK` keeps a new terminal from getting
the number of a closed one, and `WatchOK` keeps generations of one process from
being taken for another's.  The proofs show what a step of the server means to
the pages by two lemmas, one for steps within the life of a process
(`ServerMoves`) and one for its start and end (`ServerChanges`), and have one
lemma per action of a page.  Assumptions: `RegistryAssumption` and
`WorkspaceAssumption` on the constants, which TLC evaluates too.

`ProjectGraphProofs` proves, for any number of pages, callers, texts, versions
and servers, the three safety properties of `graph`.  `NewestIsCurrent` speaks of
pages only; `IInv` (end of `ProjectGraph`) says the same of the worker's cache
and of every reply on its way (`DrawingsRight`), and of the tree (`TreeRight`).
The reason that it survives two reads of the configuration is in `LooksBack`:
what was read is of the past and in order, so that a draw whose refresh found
the configuration as it is now has read the same text twice (`DrawnRight`).
`Carried` shows once for all steps that a right drawing stays right or loses the
newest generation, and `MovedOn` that a project that moves is no longer as the
worker saw it.  `NoticesInOrder` adds what the channel's order gives: notices
rise, and each drawing comes after the notice of its generation; the lemmas
`OrderOfAnswers`, `OrderOfNotices` and `OrderOfTaking` treat the channel's three
operations.  What a page has counts as the serving process's only if that process
told it (`from`), so that a token renewed alone changes nothing in the argument;
that the page can then miss a drawing is a hazard (watch.js:14), to which the code
has no answer, and `CatchesUpUnlessAlike` leaves this coincidence out.  The only assumption is `GraphAssumption`, on the constants.

`ScreenSyncProofs` proves, for screens of any size, histories of any length and
any number of sessions and broken connections, the safety properties of `screen`
and that `ScreenSync` implements `ScreenMirror`.  What has to hold of a copy of
the screen between two updates is `Has(copy, upTo)`: of every line that the
emulator has not changed since the revision `upTo`, the copy has the present
text, and if the copy has another number of rows, every line was changed since.
Three lemmas are the whole argument.  Whatever the emulator does, it takes
nothing from a copy (`HasStays`), since all that it changes gets a newer
revision; here every row must get one in a resize, and a history line that is
pushed under a used key.  The changes since `upTo` make of such a copy one that
has all (`AppliedHas`), and one that has all shows the terminal's picture
(`HasAll`).  The rest of `IInv` (end of `ScreenSync`) says that this is applied
to the right copy: each id is in at most one place (`OnePlace`), what a polling
page has asked for starts from what it has (`AskedFrom`), and the update on its
way will give the picture it was made of (`Fits`).  Every theorem has the
hypothesis `StalePages = FALSE`: a page that outlives its supervisor takes the
revisions of one process for those of another, and the properties fail.
Assumption: `ScreenAssumption`, which TLC evaluates too.

`PaneStreamProofs` proves, for any number of panes, fibers, requests and
subscriptions, queues of any size and frames of any length, that operations of a
pane are carried out in order (`InOrder`), that none behind a shutdown is
(`ShutdownIsLast`) and that no request is answered twice (`AnsweredOnce`).
`IInv` (end of `PaneStream`) says that an actor is in the table until its
shutdown was carried out (`TableInv`), that what is in its queue are requests of
its pane in ascending order, all above the one it has (`JobsInv`), that they are
above everything carried out in the pane and that behind a shutdown there is
only an actor that is out of the table or about to leave it (`BegunInv`), and
that a request has no answer while an actor has it or its reply waits for room
(`AnswerInv`).  An actor's step is `Moves` from one record to the next: it keeps
what it has or takes the head of its queue; `OneActor` and `Asked` lift that to
the whole state.  A request names its actor, so that what one actor answers no
other has (`AnsweredElsewhere`).  Assumption: `PaneStreamAssumption`, which TLC
evaluates too.

`QueuesBounded` and `TypeOK` need a second invariant on top of it, `CountInv`: the
bytes a connection counts are the sum of the frame that is written and of those in its
queue, an actor's are the sum of its queue, and the rest of it says that an
actor without its place in the table, or a writer without a frame, counts
nothing that is not there.  A sum is a recursive function (`Sums`).  That it
exists, and what it becomes when a frame is put at the end or taken from the
front, is shown by induction, over sets of numbers (`Induction` of
`Recursions`): the induction theorems of the library cannot be used here, but a
set of numbers that has 0 and the next of each is all of them, and the set of
those for which a fact is true is named by a definition.  With it the types are
proved as well, which say that no count falls below zero.

`VTermScreenProofs` proves, for screens of any sizes, any alphabet and any text
printed before, histories of any length and any number of operations and
resizes, the invariants of `emulator` and `HistoryIsMain`.  `IInv` (end of
`VTermScreen`) has what `TypeOK` leaves out and the operations rely on: a scroll
region that keeps a row, history lines of widths the screen has had, a saved
cursor (on a larger screen, perhaps), and damage of rows.  `Screen(v, C)` takes
the contents of the main screen and the history as a parameter: with all cells
it gives `TypeOK`, and with those that never show `AltLetter` it says what
`HistoryIsMain` is about, so that one proof per operation serves both.

`DamageCovers` speaks of the end of a write only.  `Coverage` says what is true
inside: each row that differs has been reported or is the one kept back
(`Dirty`), and what is kept back is one row.  What an operation must do is
`Marks(v, w)`: rows that were dirty, and rows that it changed, are dirty
afterwards.  This can be composed (`MarksTwice`), and it is shown for
`Damage` (`DamageReports`), for erasing and scrolling any rectangle
(`EraseDraws`, `ScrollDraws`), and from these for every control function.  The
theorem `Covered` has the hypothesis `EraseTop = FALSE`: with ED 1 in the first
row it is not true (above), since `Marks` needs a rectangle that is not empty.

A resize is proved by an invariant of the loop (`LoopOK`: what is laid is as
wide as the new screen and no higher, and the spare rows are among it), again by
induction over the rows done (`LaysOK`).  Each line has a last row and a width,
by the least number of a set (`LastRow`, `UsedCells`), and no cell of it is read
outside the screen (`LineIs`).  `FilledIs` shows that the rows that are laid,
come back and are added are exactly those of the new screen, and `ResizedKeeps`
that the cursor, the region and the history fit it.  Assumption:
`VTermAssumption`, which TLC evaluates too.

Only model-checked: liveness, which is beyond the prover, and `TextKept`.  It
compares sequences of letters that are put together by folds over all lines; the
induction would have to follow the text through each turn of the resizing loop.
Hypotheses: `Covered` has `EraseTop = FALSE`, the theorems of `ScreenSyncProofs`
have `StalePages = FALSE`, and `Known` has `Killed \subseteq {"serving"}` and is
about panes that have not gone astray; what each leaves out is a hazard or a
finding.

## Hazards and properties

`PROJECT.json` lists every place where the code is hard to test, with the
properties that guard it.  In short:

* supervisor: late PTYs, descriptor reuse, drains across a replacement, full
  channels, faults inside a drain, resizes at the wrong moment;
* client: the turn after failures, late replies, repeated messages, supervisors
  that hide each other, shutdown while requests run;
* registry: kills between writes and during recovery, documents that outlive
  their terminals, shutdowns nobody answers, requests over two websockets;
* page: answers overtaken by closes, shutdown overtaking a start, generations of
  different servers, two browsers that number alike;
* graph: a project that changes between two reads, caches that outlive their
  reason, notices and drawings out of order, the end of the thread;
* streams: counts that drift from what is queued, fibers that wait for room,
  actors that outlive a shutdown, the close handshake;
* emulator: damage that is kept back, rows pushed and taken back by a resize, a
  cursor nobody finds, state that a resize leaves outside the screen;
* screen: rows moved by a resize, history keys used again, positions of another
  process, late updates, lost credits, the last output.

## Not modelled

* The configuration file's text (`config.janet`, `config-graph.janet`: tidying,
  changes by regions) and the selection of the graph (keep, drop, fold): pure
  functions of texts and trees, without steps of several actors.  What they
  write and when is in `PaneRegistry` and `ProjectGraph`.
* The source parsers: a model would be the grammars again.
* HTTP parsing, JSON, logging, the command line: encodings without shared state.
* The page's rails, frames, drawing and geometry.
* Of the emulator: wide and combining characters, pens, tabs, margins, modes,
  resets, the parser of sequences, keyboard and mouse.
* The other vendored libraries (Janet, Graphviz, expat, markdown-it, WTerm), which
  are most of the repository's C code.

What would come next: the composition of `PaneRegistry` with `TermClient`, for
when exactly a shutdown goes unanswered; the pure functions above
against reference definitions.
