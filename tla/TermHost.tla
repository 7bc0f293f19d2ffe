------------------------------ MODULE TermHost ------------------------------
(***************************************************************************)
(* The terminal supervisor (src.server/term/host.janet over pty.janet):    *)
(* one process that owns one shell session at a time and replaces it when  *)
(* it is asked to start again.                                             *)
(*                                                                         *)
(* The supervisor's fibers are cooperative.  A fiber runs from one yield   *)
(* to the next in one step; it yields in (ev/take ready), where a start    *)
(* waits for its PTY, and in every (ev/take output) of drain, because      *)
(* Janet's ev/take puts the fiber at the end of the run queue even when an *)
(* item is there.  The reader threads run truly in parallel: one is        *)
(* spawned by each start, opens the PTY and pumps its output into that     *)
(* session's own channel.                                                  *)
(*                                                                         *)
(* A session is named by the generation the start gave it; 0 is no session *)
(***************************************************************************)
EXTENDS Naturals, Sequences

CONSTANTS
  Conns,        \* the fibers that answer requests, one per connection
  Keeper,       \* the keep-draining fiber
  NoFiber,      \* no fiber is inside drain
  MaxStarts,    \* bound: sessions started in one supervisor's life
  MaxStops,     \* bound: stops that found nothing to drain
  MaxChunks,    \* bound: reads' worth of output each child writes
  MaxUnsent,    \* the input queue's limit (1 MiB in the code), in messages
  Limit,        \* capacity of an output channel (64 in the code)
  Burst,        \* items, for bytes (262144), after which one drain stops
  FdCount,      \* bound: file descriptors 1..FdCount are there for PTYs
  Answers,      \* {FALSE}, or BOOLEAN: may output make the emulator reply?
  Sizes         \* terminal dimensions

ASSUME HostAssumption ==
  /\ Keeper \notin Conns
  /\ NoFiber \notin Conns \cup {Keeper}
  /\ MaxStarts \in Nat /\ MaxStops \in Nat /\ MaxChunks \in Nat /\ MaxUnsent \in Nat
  /\ Limit \in Nat \ {0} /\ Burst \in Nat \ {0} /\ FdCount \in Nat
  /\ Answers \subseteq BOOLEAN /\ Answers # {}
  /\ Sizes # {}

Fibers == Conns \cup {Keeper}
Gens == 1 .. MaxStarts
Fds == 1 .. FdCount

VARIABLES
  generation,   \* sessions started so far
  lifecycle,    \* starts and stops so far
  starting,     \* a start waits for its PTY
  exited,       \* the output of the session has ended
  session,      \* generation whose PTY is `session`
  output,       \* generation whose channel is `output`
  fault,        \* emulator-fault: output is no longer fed to the emulator
  emulated,     \* whose output the current emulator was fed, in order
  unsent,       \* input waiting for the PTY
  delivered,    \* history: which PTY each input or reply was written to
  rows,         \* pty-rows and pty-cols as reported
  emuRows,      \* the emulator's own dimensions
  drainer,      \* the fiber inside drain (the `draining` flag)
  taken,        \* what that fiber has taken and not yet applied
  drained,      \* how many items it has taken
  pc,           \* [Fibers]: "idle", "ready" or "drain"
  op,           \* [Fibers]: the request being answered
  asked,        \* [Fibers]: the size a resize asked for
  version,      \* [Fibers]: lifecycle when the fiber's start began
  mine          \* [Fibers]: the generation the fiber's start created

VARIABLES
  thread,       \* [Gens]: the reader thread of a session
  ready,        \* [Gens]: what the thread gave on the ready channel
  fd,           \* [Gens]: the descriptor number kept in the session
  source,       \* [Gens]: the PTY a blocked read(2) is attached to
  chan,         \* [Gens]: the output channel
  closed,       \* [Gens]: has that channel been closed?
  fdTable,      \* [Fds]: the PTY a descriptor number names now, 0 if free
  tty,          \* [Gens]: chunks waiting in the PTY
  wrote,        \* [Gens]: chunks the child has written
  alive,        \* [Gens]: is the child running?
  ptyRows       \* [Gens]: the PTY's own dimensions

fiberVars == <<pc, op, asked, version, mine>>
drainVars == <<drainer, taken, drained>>
sessionVars == <<generation, lifecycle, starting, exited, session, output>>
screenVars == <<fault, emulated, unsent, delivered>>
sizeVars == <<rows, emuRows, ptyRows>>
threadVars == <<thread, ready, source, chan, closed>>
ptyVars == <<fd, fdTable, tty, wrote, alive>>
vars == <<fiberVars, drainVars, sessionVars, screenVars, sizeVars,
          threadVars, ptyVars>>

Item == [from : Gens, eof : BOOLEAN]
NoItem == [from |-> 0, eof |-> FALSE]
Typed == [for : Gens, answer : BOOLEAN]

Phases == {"none", "opening", "call", "read", "blocked", "eof", "done"}

SessionTypes ==
  /\ generation \in 0 .. MaxStarts /\ lifecycle \in Nat
  /\ session \in 0 .. MaxStarts /\ output \in 0 .. MaxStarts

FlagTypes == starting \in BOOLEAN /\ exited \in BOOLEAN /\ fault \in BOOLEAN

ScreenTypes ==
  /\ emulated \in Seq(Gens) /\ unsent \in Seq(Typed)
  /\ delivered \subseteq (Typed \X Gens)
  /\ rows \in Sizes /\ emuRows \in Sizes /\ ptyRows \in [Gens -> Sizes]

FiberTypes ==
  /\ pc \in [Fibers -> {"idle", "ready", "drain"}]
  /\ op \in [Fibers -> {"none", "start", "stop", "resize", "look", "keep"}]
  /\ asked \in [Fibers -> Sizes]
  /\ version \in [Fibers -> Nat] /\ mine \in [Fibers -> 0 .. MaxStarts]
  /\ drainer \in Fibers \cup {NoFiber} /\ drained \in 0 .. Burst
  /\ drainer # NoFiber => taken \in Item

ThreadTypes ==
  /\ thread \in [Gens -> Phases]
  /\ ready \in [Gens -> {"none", "opened", "failed"}]
  /\ source \in [Gens -> 0 .. MaxStarts]
  /\ chan \in [Gens -> Seq(Item)] /\ closed \in [Gens -> BOOLEAN]

PtyTypes ==
  /\ fd \in [Gens -> 0 .. FdCount] /\ fdTable \in [Fds -> 0 .. MaxStarts]
  /\ tty \in [Gens -> Nat] /\ wrote \in [Gens -> Nat]
  /\ alive \in [Gens -> BOOLEAN]

TypeOK ==
  /\ SessionTypes /\ FlagTypes /\ ScreenTypes
  /\ FiberTypes /\ ThreadTypes /\ PtyTypes

Init ==
  /\ generation = 0 /\ lifecycle = 0 /\ starting = FALSE /\ exited = FALSE
  /\ session = 0 /\ output = 0 /\ fault = FALSE
  /\ emulated = <<>> /\ unsent = <<>> /\ delivered = {}
  /\ \E s \in Sizes : /\ rows = s /\ emuRows = s
                      /\ asked = [f \in Fibers |-> s]
                      /\ ptyRows = [g \in Gens |-> s]
  /\ drainer = NoFiber /\ drained = 0
  /\ taken = NoItem
  /\ pc = [f \in Fibers |-> "idle"] /\ op = [f \in Fibers |-> "none"]
  /\ version = [f \in Fibers |-> 0] /\ mine = [f \in Fibers |-> 0]
  /\ thread = [g \in Gens |-> "none"] /\ ready = [g \in Gens |-> "none"]
  /\ fd = [g \in Gens |-> 0] /\ source = [g \in Gens |-> 0]
  /\ chan = [g \in Gens |-> <<>>] /\ closed = [g \in Gens |-> FALSE]
  /\ fdTable = [n \in Fds |-> 0]
  /\ tty = [g \in Gens |-> 0] /\ wrote = [g \in Gens |-> 0]
  /\ alive = [g \in Gens |-> FALSE]
-----------------------------------------------------------------------------
(* Helpers.                                                                *)

\* pty/close: hang up and kill the child, then close the descriptor number.
PtyClose(g) ==
  /\ alive' = [alive EXCEPT ![g] = FALSE]
  /\ fdTable' = [n \in Fds |-> IF n = fd[g] THEN 0 ELSE fdTable[n]]

\* A writer blocked on a full channel goes on when an item is taken, and
\* also, with nil for an answer, when the channel is closed.
Woken(th, g) == IF g # 0 /\ th[g] = "blocked" THEN "call" ELSE th[g]
WakeWriter(th, g) == [h \in Gens |-> IF h = g THEN Woken(th, h) ELSE th[h]]
CloseChan(c, g) == [h \in Gens |-> IF h = g THEN TRUE ELSE c[h]]

\* (drain) finds output and nobody else is draining: take one item, yield.
CanDrain(out) == out # 0 /\ drainer = NoFiber /\ chan[out] # <<>>
TakeFrom(out, f, count, th) ==
  /\ drainer' = f
  /\ taken' = Head(chan[out])
  /\ drained' = count
  /\ chan' = [chan EXCEPT ![out] = Tail(chan[out])]
  /\ thread' = WakeWriter(th, out)
  /\ pc' = [pc EXCEPT ![f] = "drain"]

\* The fiber has answered; its locals are gone.
Answer(f) ==
  /\ pc' = [pc EXCEPT ![f] = "idle"]
  /\ op' = [op EXCEPT ![f] = "none"]
  /\ version' = [version EXCEPT ![f] = 0]
  /\ mine' = [mine EXCEPT ![f] = 0]
LeaveDrainMarked == UNCHANGED drainer /\ taken' = NoItem /\ drained' = 0
LeaveDrain ==
  drainer' = NoFiber /\ taken' = NoItem /\ drained' = 0

\* drain at the start or the end of an operation: either it yields with an
\* item in hand, or it returns at once and the fiber is idle again.
EnterDrain(out, f, th) ==
  \/ /\ CanDrain(out)
     /\ TakeFrom(out, f, 1, th)
     /\ UNCHANGED <<op, version, mine>>
  \/ /\ ~CanDrain(out)
     /\ thread' = th
     /\ Answer(f)
     /\ UNCHANGED <<drainVars, chan>>

\* flush-unsent: write some prefix, or nothing when the PTY is not writable.
Flush(queue, ended) ==
  IF session # 0 /\ ~ended
  THEN \E k \in 0 .. Len(queue) :
         /\ unsent' = SubSeq(queue, k + 1, Len(queue))
         /\ delivered' = delivered \cup {<<queue[i], session>> : i \in 1 .. k}
  ELSE unsent' = queue /\ UNCHANGED delivered
-----------------------------------------------------------------------------
(* Requests.                                                               *)

\* A new session begins with a new emulator and no input.
ResetKeepingInput == fault' = FALSE /\ emulated' = <<>> /\ UNCHANGED unsent
ResetScreen == fault' = FALSE /\ emulated' = <<>> /\ unsent' = <<>>

\* session-start up to (ev/take ready).
SessionStart(f, size) ==
  /\ pc[f] = "idle" /\ f \in Conns
  /\ generation < MaxStarts
  /\ lifecycle' = lifecycle + 1
  /\ generation' = generation + 1
  /\ version' = [version EXCEPT ![f] = lifecycle + 1]
  /\ mine' = [mine EXCEPT ![f] = generation + 1]
  /\ starting' = TRUE /\ exited' = FALSE
  /\ ResetScreen
  /\ rows' = size /\ emuRows' = size
  /\ asked' = [asked EXCEPT ![f] = size]
  /\ IF session # 0 THEN PtyClose(session) ELSE UNCHANGED <<alive, fdTable>>
  /\ closed' = CloseChan(closed, output)
  /\ thread' = [WakeWriter(thread, output)
                  EXCEPT ![generation + 1] = "opening"]
  /\ session' = 0 /\ output' = 0
  /\ pc' = [pc EXCEPT ![f] = "ready"]
  /\ op' = [op EXCEPT ![f] = "start"]
  /\ UNCHANGED <<drainVars, delivered, ptyRows, ready, source, chan,
                 fd, tty, wrote>>

\* Another start or a stop came while this start waited; the PTY it has got
\* is of no use then.
SupersededNever(f) == FALSE
Superseded(f) == version[f] # lifecycle
DiscardKeeping(g) == UNCHANGED <<alive, fdTable>> /\ closed' = CloseChan(closed, g)
Discard(g) ==
  /\ IF ready[g] = "opened" THEN PtyClose(g) ELSE UNCHANGED <<alive, fdTable>>
  /\ closed' = CloseChan(closed, g)

\* session-start after (ev/take ready): superseded, failed or installed;
\* the trailing session-state drains.
StartResumes(f) ==
  LET g == mine[f] IN
  /\ pc[f] = "ready" /\ ready[g] # "none"
  /\ IF Superseded(f)
     THEN /\ Discard(g)
          /\ EnterDrain(output, f, WakeWriter(thread, g))
          /\ UNCHANGED <<starting, session, output, exited>>
     ELSE /\ starting' = FALSE
          /\ session' = IF ready[g] = "opened" THEN g ELSE 0
          /\ output' = session'
          /\ exited' = IF ready[g] = "opened" THEN exited ELSE TRUE
          /\ EnterDrain(output', f, thread)
          /\ UNCHANGED <<alive, fdTable, closed>>
  /\ UNCHANGED <<asked, generation, lifecycle, screenVars, sizeVars, ready,
                 source, fd, tty, wrote>>

\* The body of session-stop, once its drain has returned; `ended` is what
\* the drain left in `exited`.
Stop(ended) ==
  /\ lifecycle' = lifecycle + 1
  /\ starting' = FALSE
  /\ closed' = CloseChan(closed, output)
  /\ IF session # 0
     THEN /\ PtyClose(session)
          /\ session' = 0 /\ output' = 0 /\ exited' = TRUE
     ELSE /\ exited' = ended
          /\ UNCHANGED <<alive, fdTable, session, output>>

\* Dimensions: the PTY first, the emulator after it, and the PTY back if the
\* emulator refuses; if that fails too the emulator is marked faulty.
Resize(size, broken) ==
  \/ /\ ptyRows' = [g \in Gens |-> IF g = session THEN size ELSE ptyRows[g]]
     /\ emuRows' = IF generation = 0 THEN emuRows ELSE size
     /\ rows' = size
     /\ fault' = broken
  \/ UNCHANGED sizeVars /\ fault' = broken
  \/ /\ session # 0
     /\ ptyRows' = [ptyRows EXCEPT ![session] = size]
     /\ fault' = TRUE
     /\ UNCHANGED <<rows, emuRows>>

\* "stop", "shutdown", "resize" and the requests that only look ("state",
\* "capture", "screen") begin with drain.  Here drain yields ...
RequestDrains(f, o, size) ==
  /\ pc[f] = "idle" /\ f \in Conns
  /\ CanDrain(output)
  /\ TakeFrom(output, f, 1, thread)
  /\ op' = [op EXCEPT ![f] = o]
  /\ asked' = [asked EXCEPT ![f] = size]
  /\ UNCHANGED <<version, mine, sessionVars, screenVars, sizeVars, ready,
                 source, closed, ptyVars>>

\* ... and here it finds nothing to do, so that the operation runs at once.
SessionStop(f) ==
  /\ pc[f] = "idle" /\ f \in Conns /\ ~CanDrain(output)
  /\ lifecycle < generation + MaxStops
  /\ Stop(exited)
  /\ thread' = WakeWriter(thread, output)
  /\ UNCHANGED <<fiberVars, drainVars, generation, screenVars, sizeVars,
                 ready, source, chan, fd, tty, wrote>>

SessionResize(f, size) ==
  /\ pc[f] = "idle" /\ f \in Conns /\ ~CanDrain(output)
  /\ Resize(size, fault)
  /\ UNCHANGED <<fiberVars, drainVars, sessionVars, emulated, unsent,
                 delivered, threadVars, ptyVars>>

\* session-send: input names the generation it is for and is refused when
\* that is not the current one; it is dropped while there is no session.
SessionSend(f) ==
  /\ pc[f] = "idle" /\ f \in Conns
  /\ session # 0 /\ ~exited /\ Len(unsent) < MaxUnsent
  /\ Flush(Append(unsent, [for |-> generation, answer |-> FALSE]), exited)
  /\ UNCHANGED <<fiberVars, drainVars, sessionVars, fault, emulated, sizeVars,
                 threadVars, ptyVars>>

\* One turn of keep-draining: drain, then flush.
KeepDraining ==
  /\ pc[Keeper] = "idle"
  /\ \/ /\ CanDrain(output)
        /\ TakeFrom(output, Keeper, 1, thread)
        /\ op' = [op EXCEPT ![Keeper] = "keep"]
        /\ UNCHANGED <<unsent, delivered>>
     \/ /\ ~CanDrain(output) /\ unsent # <<>>
        /\ Flush(unsent, exited)
        /\ UNCHANGED <<pc, op, drainVars, chan, thread>>
  /\ UNCHANGED <<asked, version, mine, sessionVars, fault, emulated, sizeVars,
                 ready, source, closed, ptyVars>>
-----------------------------------------------------------------------------
(* drain after a yield: the item goes to whatever session is current now.  *)

Ended == exited \/ taken.eof
Feeds == ~taken.eof /\ ~fault
Fed == IF Feeds THEN Append(emulated, taken.from) ELSE emulated

\* What the emulator wants to answer joins the input; too much is a fault.
Answered(answer) ==
  IF Feeds /\ answer
  THEN Append(unsent, [for |-> taken.from, answer |-> TRUE])
  ELSE unsent

MoreUnbounded == chan[output] # <<>>
More == chan[output] # <<>> /\ drained < Burst

\* There is more output: take the next item.
DrainMore(f) ==
  /\ pc[f] = "drain" /\ output # 0
  /\ More
  /\ exited' = Ended
  /\ emulated' = Fed
  /\ \E answer \in Answers :
       IF Len(Answered(answer)) > MaxUnsent
       THEN fault' = TRUE /\ UNCHANGED unsent
       ELSE unsent' = Answered(answer) /\ UNCHANGED fault
  /\ TakeFrom(output, f, drained + 1, thread)
  /\ UNCHANGED <<op, asked, version, mine, generation, lifecycle, starting,
                 session, output, delivered, sizeVars, ready, source, closed,
                 ptyVars>>

\* The session was replaced or stopped during the yield, `output` is nil and
\* (ev/count output) raises: keep-draining takes it for an emulator fault,
\* a request is answered with an error and does nothing more.
DrainRaises(f) ==
  /\ pc[f] = "drain" /\ output = 0
  /\ exited' = Ended
  /\ emulated' = Fed
  /\ \E answer \in Answers :
       LET full == Len(Answered(answer)) > MaxUnsent IN
       /\ fault' = (fault \/ full \/ f = Keeper)
       /\ unsent' = IF full THEN unsent ELSE Answered(answer)
  /\ LeaveDrain /\ Answer(f)
  /\ UNCHANGED <<asked, generation, lifecycle, starting, session, output,
                 delivered, sizeVars, threadVars, ptyVars>>

\* drain returns and the operation it was called from finishes.
DrainDone(f) ==
  /\ pc[f] = "drain" /\ output # 0 /\ ~More
  /\ LeaveDrain /\ Answer(f)
  /\ emulated' = Fed
  /\ \E answer \in Answers :
       LET full == Len(Answered(answer)) > MaxUnsent
           queue == IF full THEN unsent ELSE Answered(answer) IN
       \/ /\ op[f] \in {"start", "look", "keep"}
          /\ exited' = Ended
          /\ fault' = (fault \/ full)
          /\ IF op[f] = "start"
             THEN unsent' = queue /\ UNCHANGED delivered
             ELSE Flush(queue, Ended)
          /\ UNCHANGED <<lifecycle, starting, session, output, closed, alive,
                         fdTable, thread, sizeVars>>
       \/ /\ op[f] = "stop"
          /\ Stop(Ended)
          /\ thread' = WakeWriter(thread, output)
          /\ fault' = (fault \/ full)
          /\ unsent' = queue
          /\ UNCHANGED <<delivered, sizeVars>>
       \/ /\ op[f] = "resize"
          /\ exited' = Ended
          /\ Resize(asked[f], fault \/ full)
          /\ unsent' = queue
          /\ UNCHANGED <<lifecycle, starting, session, output, closed, alive,
                         fdTable, thread, delivered>>
  /\ UNCHANGED <<asked, generation, ready, source, chan, fd, tty, wrote>>
-----------------------------------------------------------------------------
(* The reader thread of session g, and the child at the other end.         *)

\* pty/open raises: the thread gives the error and ends.
OpenRaises(g) ==
  /\ UNCHANGED ready
  /\ thread' = [thread EXCEPT ![g] = "done"]
OpenFails(g) ==
  /\ ready' = [ready EXCEPT ![g] = "failed"]
  /\ thread' = [thread EXCEPT ![g] = "done"]

\* forkpty takes the lowest free descriptor, or fails.
PtyOpen(g) ==
  /\ thread[g] = "opening"
  /\ \/ \E n \in Fds :
          /\ fdTable[n] = 0 /\ \A m \in 1 .. n - 1 : fdTable[m] # 0
          /\ fdTable' = [fdTable EXCEPT ![n] = g]
          /\ fd' = [fd EXCEPT ![g] = n]
          /\ alive' = [alive EXCEPT ![g] = TRUE]
          /\ ready' = [ready EXCEPT ![g] = "opened"]
          /\ thread' = [thread EXCEPT ![g] = "call"]
          /\ \E f \in Conns :
               /\ mine[f] = g /\ pc[f] = "ready"
               /\ ptyRows' = [ptyRows EXCEPT ![g] = asked[f]]
     \/ /\ OpenFails(g)
        /\ UNCHANGED <<fdTable, fd, alive, ptyRows>>
  /\ UNCHANGED <<fiberVars, drainVars, sessionVars, screenVars, rows, emuRows,
                 source, chan, closed, tty, wrote>>

\* read(2) resolves the number it is given when it is called.
ReadCall(g) ==
  /\ thread[g] = "call"
  /\ source' = [source EXCEPT ![g] = fdTable[fd[g]]]
  /\ thread' = [thread EXCEPT ![g] = IF fdTable[fd[g]] = 0 THEN "eof" ELSE "read"]
  /\ UNCHANGED <<fiberVars, drainVars, sessionVars, screenVars, sizeVars,
                 ready, chan, closed, ptyVars>>

\* The read returns a chunk and it is given to the thread's own channel:
\* giving to a closed channel raises and ends the thread.
ReadChunk(g) ==
  LET h == source[g] IN
  /\ thread[g] = "read" /\ tty[h] > 0
  /\ tty' = [tty EXCEPT ![h] = @ - 1]
  /\ source' = [source EXCEPT ![g] = 0]
  /\ IF closed[g]
     THEN /\ thread' = [thread EXCEPT ![g] = "done"]
          /\ UNCHANGED chan
     ELSE /\ chan' = [chan EXCEPT ![g] = Append(@, [from |-> h, eof |-> FALSE])]
          /\ thread' = [thread EXCEPT
                ![g] = IF Len(chan[g]) >= Limit THEN "blocked" ELSE "call"]
  /\ UNCHANGED <<fiberVars, drainVars, sessionVars, screenVars, sizeVars,
                 ready, closed, fd, fdTable, wrote, alive>>

\* The child is gone: the read fails and the pump ends.
ReadEnds(g) ==
  /\ thread[g] = "read" /\ ~alive[source[g]]
  /\ tty[source[g]] = 0 \/ fdTable[fd[source[g]]] # source[g]
  /\ thread' = [thread EXCEPT ![g] = "eof"]
  /\ source' = [source EXCEPT ![g] = 0]
  /\ UNCHANGED <<fiberVars, drainVars, sessionVars, screenVars, sizeVars,
                 ready, chan, closed, ptyVars>>

GiveEof(g) ==
  /\ thread[g] = "eof"
  /\ chan' = IF closed[g] THEN chan
             ELSE [chan EXCEPT ![g] = Append(@, [from |-> g, eof |-> TRUE])]
  /\ thread' = [thread EXCEPT ![g] = "done"]
  /\ UNCHANGED <<fiberVars, drainVars, sessionVars, screenVars, sizeVars,
                 ready, source, closed, ptyVars>>

ChildWrites(g) ==
  /\ alive[g] /\ wrote[g] < MaxChunks
  /\ wrote' = [wrote EXCEPT ![g] = @ + 1]
  /\ tty' = [tty EXCEPT ![g] = @ + 1]
  /\ UNCHANGED <<fiberVars, drainVars, sessionVars, screenVars, sizeVars,
                 threadVars, fd, fdTable, alive>>

ChildExits(g) ==
  /\ alive[g]
  /\ alive' = [alive EXCEPT ![g] = FALSE]
  /\ UNCHANGED <<fiberVars, drainVars, sessionVars, screenVars, sizeVars,
                 threadVars, fd, fdTable, tty, wrote>>
-----------------------------------------------------------------------------
Drains(f) == DrainMore(f) \/ DrainRaises(f) \/ DrainDone(f)

Next ==
  \/ \E f \in Conns :
       \/ \E size \in Sizes : SessionStart(f, size)
       \/ \E size \in Sizes : SessionResize(f, size)
       \/ SessionStop(f)
       \/ SessionSend(f)
       \/ \E o \in {"stop", "resize", "look"}, size \in Sizes :
            RequestDrains(f, o, size)
       \/ StartResumes(f)
  \/ KeepDraining
  \/ \E f \in Fibers : Drains(f)
  \/ \E g \in Gens :
       \/ PtyOpen(g)
       \/ ReadCall(g) \/ ReadChunk(g) \/ ReadEnds(g) \/ GiveEof(g)
       \/ ChildWrites(g) \/ ChildExits(g)

\* The event loop runs every fiber that can go on, the keep-draining timer
\* fires for ever, and the operating system runs every thread; nothing is
\* assumed of requests or of the children.
Fairness ==
  /\ \A f \in Conns : WF_vars(StartResumes(f))
  /\ \A f \in Fibers : WF_vars(Drains(f))
  /\ WF_vars(KeepDraining)
  /\ \A g \in Gens : /\ WF_vars(PtyOpen(g))
                     /\ WF_vars(ReadCall(g)) /\ WF_vars(ReadChunk(g))
                     /\ WF_vars(ReadEnds(g)) /\ WF_vars(GiveEof(g))

Spec == Init /\ [][Next]_vars
FairSpec == Spec /\ Fairness
-----------------------------------------------------------------------------
(* What makes the supervisor correct.                                      *)

\* Every descriptor that still names a PTY is the current session's or is
\* held by a start that has not resumed yet and will install or close it
\* (host.janet 186-190, 231-242, 246-259): replacing and stopping sessions,
\* in any interleaving, leaks no shell.
NoLeakedPty ==
  \A n \in Fds : fdTable[n] # 0 =>
    \/ fdTable[n] = session
    \/ \E f \in Conns : pc[f] = "ready" /\ mine[f] = fdTable[n]

\* The session the supervisor reads and writes is the one started last, its
\* channel is open, and its descriptor number still names its own PTY: no
\* late close of an older session has hit a number taken again meanwhile
\* (231-242; pty.janet 97-103).
SessionOwnsPty ==
  session # 0 =>
    /\ session = generation /\ ~starting
    /\ output = session /\ ~closed[session]
    /\ fd[session] \in Fds /\ fdTable[fd[session]] = session

\* `starting` is set exactly while the newest start waits for its PTY: a
\* superseded start never clears it for its successor, and none leaves it
\* set behind (183-188, 231-236, 251).
StartingHasStarter ==
  starting <=> \E f \in Conns : pc[f] = "ready" /\ version[f] = lifecycle

\* Input is written only to the session whose generation it named, also when
\* it waits in the queue while the session is replaced (192, 261-267,
\* 317-320).
InputReachesAddressee ==
  \A d \in delivered : ~d[1].answer => d[1].for = d[2]

\* A child whose session was replaced or stopped is killed in the end, even
\* if its PTY was still being opened then (186, 231-234, 253-254).
SupersededChildEnds ==
  \A g \in Gens :
    (alive[g] /\ session # g /\ ~(starting /\ g = generation)) ~> ~alive[g]

\* Every request is answered: no drain goes on for ever and no start waits
\* for ever for its PTY (66-86, 231).
RequestsAnswered ==
  \A f \in Conns : (pc[f] # "idle") ~> (pc[f] = "idle")

\* Output that reached the current session's channel is taken out of it,
\* however drains were interrupted (the `draining` flag, 65-72, 100-109).
OutputIsDrained ==
  \A g \in Gens :
    (output = g /\ chan[g] # <<>>) ~> (output # g \/ chan[g] = <<>>)

\* docs/terminal-streaming.md:5, "Session generations and subscription IDs
\* prevent stale output from being applied to a replacement session": the
\* emulator of a session is fed that session's output only.  It does not
\* hold: drain reads `emulator` after a yield.
NoStaleOutput ==
  \A i \in DOMAIN emulated : emulated[i] = generation

-----------------------------------------------------------------------------
(* Why they hold: what every waiting start and every descriptor satisfy.   *)

\* A waiting start has the generation it made, which nobody else has, and
\* the PTY its thread has opened for it.
StartersOK ==
  \A f \in Conns : pc[f] = "ready" =>
    /\ mine[f] \in 1 .. generation /\ version[f] \in 1 .. lifecycle
    /\ mine[f] # session /\ ~closed[mine[f]]
    /\ version[f] = lifecycle => mine[f] = generation /\ starting
    /\ ready[mine[f]] = "opened" =>
         fd[mine[f]] \in Fds /\ fdTable[fd[mine[f]]] = mine[f]

StartersDiffer ==
  \A f, h \in Conns :
    pc[f] = "ready" /\ pc[h] = "ready" /\ mine[f] = mine[h] => f = h

\* Only a started generation has a thread, and one still opening its PTY has
\* given nothing yet and has a start waiting for it.
ThreadsOK ==
  \A g \in Gens :
    /\ g > generation => thread[g] = "none" /\ ready[g] = "none" /\ ~closed[g]
    /\ thread[g] = "opening" =>
         ready[g] = "none" /\ \E f \in Conns : pc[f] = "ready" /\ mine[f] = g
    /\ thread[g] \in {"call", "blocked", "read"} => fd[g] \in Fds
    /\ thread[g] = "read" => source[g] \in Gens

\* A descriptor names a PTY that was opened and that knows its number.
FdsOK ==
  \A n \in Fds : fdTable[n] # 0 =>
    ready[fdTable[n]] = "opened" /\ fd[fdTable[n]] = n

\* The fiber the `draining` flag stands for is the one inside drain.
OneDrainer == \A f \in Fibers : pc[f] = "drain" <=> drainer = f

UnsentOK ==
  \A i \in DOMAIN unsent : ~unsent[i].answer => unsent[i].for = generation

IInv ==
  /\ TypeOK
  /\ SessionOwnsPty /\ output = session
  /\ StartersOK /\ StartersDiffer /\ StartingHasStarter
  /\ ThreadsOK /\ FdsOK /\ NoLeakedPty /\ OneDrainer
  /\ UnsentOK /\ InputReachesAddressee
=============================================================================
