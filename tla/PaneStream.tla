----------------------------- MODULE PaneStream -----------------------------
(***************************************************************************)
(* One page's websocket in the server: the subscriptions and the actors    *)
(* that carry out the page's requests (terminal-stream, core.janet), and   *)
(* the outgoing queue and the close handshake under them (serve,           *)
(* websocket.janet).  All of it runs as fibers of one event loop: the      *)
(* reader, the writer, one actor per pane with requests, and one fiber per *)
(* subscription.  A fiber runs until it waits, so that an action is what   *)
(* one fiber does between two waits.                                       *)
(*                                                                         *)
(* A request passes through an actor's queue, operate-terminal, and a      *)
(* reply.  What the terminal does with it is in TermClient and below, what *)
(* an output shows in ScreenSync: here an operation only begins and ends,  *)
(* and a frame is its kind and its size.                                   *)
(***************************************************************************)
EXTENDS Integers, FiniteSets, Sequences, SequencesExt

CONSTANTS
  Panes, Reader, Actors, Subs,   \* the panes; the fibers
  None,                          \* no actor, no subscription
  MaxMessages,                   \* bound: requests and credits it sends
  Asks, Watches,                 \* what it asks of panes; those it watches
  QueueCap, ByteCap,             \* limits of an actor's queue
  ActorCap, StreamCap,           \* limits of actors and subscriptions
  ChanCap, SendCap,              \* limits of the outgoing queue
  Sizes,                         \* sizes of requests
  OutputSizes,                   \* sizes of screen updates; replies have 1
  Stuck                          \* panes whose terminals may not answer

Fibers == {Reader} \union Actors \union Subs
Ids == 1 .. MaxMessages

ASSUME PaneStreamAssumption ==
  /\ MaxMessages \in Nat
  /\ {QueueCap, ByteCap, ActorCap, StreamCap, ChanCap, SendCap}
       \subseteq Nat \ {0}
  /\ Sizes \subseteq 1 .. ByteCap /\ OutputSizes \subseteq Nat \ {0}
  /\ Asks \subseteq Panes \X {"start", "input", "shutdown"}
  /\ Watches \subseteq Panes /\ Stuck \subseteq Panes
  /\ Actors \intersect Subs = {}
  /\ Reader \notin Actors \union Subs
  /\ None \notin Actors \union Subs

Ops == {"start", "input", "shutdown"}  \* all others go the way of "input"
Job == [id : Ids, op : Ops, size : Sizes]
Frame == [kind : {"reply", "output", "close"},
          of : Ids \union Subs \union {None}, len : Nat \ {0}]
NoFrame == [kind |-> "none", of |-> None, len |-> 0]
NoJob == [id |-> 0, op |-> "none", size |-> 0]

VARIABLES
  alive,     \* serve: the websocket is up
  outgoing,  \* the frames in the channel of the writer
  queued,    \* the bytes between send and the end of their write
  writer,    \* where the writer is
  writing,   \* the frame it writes
  parked,    \* the fibers whose ev/give filled the channel, in order
  wait,      \* [Fibers]: the frame a fiber waits to find room for
  open,      \* terminal-stream: not closed yet
  reader,    \* where the reader is
  actors,    \* [Panes]: the actor of the pane
  act,       \* [Actors]
  streams,   \* [Panes]: the subscription of the pane
  sub,       \* [Subs]
  credits,   \* history: the updates the page acknowledged
  requests,  \* history: pane, operation, actor of each request
  begun,     \* history: the requests carried out, in order
  answers    \* history, [Ids]: the replies given

socketVars == <<alive, outgoing, queued, writer, writing, parked, wait,
                answers>>
streamVars == <<open, actors, act, streams, sub>>
logVars == <<credits, requests, begun>>
vars == <<socketVars, streamVars, reader, logVars>>

ActorPcs == {"unused", "new", "taking", "took", "running", "replying",
             "drained", "passing", "spinning", "ended"}
ActorRec(Counts) ==
  [pane : Panes \union {None}, queue : Seq(Job), bytes : Counts,
   on : BOOLEAN, closed : BOOLEAN, job : Job \union {NoJob}, pc : ActorPcs]
SubRec == [pane : Panes \union {None}, on : BOOLEAN, closed : BOOLEAN,
           credit : 0 .. 1, owed : BOOLEAN,
           pc : {"unused", "new", "polling", "sending", "credit", "failing",
                 "dead", "ended"}]
Request == [pane : Panes, op : Ops, line : Actors \union {None}]

TypeOK ==
  /\ alive \in BOOLEAN /\ open \in BOOLEAN
  /\ outgoing \in Seq(Frame) /\ queued \in Nat
  /\ writer \in {"idle", "busy", "ended"} /\ writing \in Frame \union {NoFrame}
  /\ parked \in Seq(Fibers) /\ wait \in [Fibers -> Frame \union {NoFrame}]
  /\ reader \in {"reading", "refusing", "closing", "ended"}
  /\ actors \in [Panes -> Actors \union {None}] /\ act \in [Actors -> ActorRec(Nat)]
  /\ streams \in [Panes -> Subs \union {None}] /\ sub \in [Subs -> SubRec]
  /\ credits \in 0 .. MaxMessages
  /\ requests \in Seq(Request) /\ Len(requests) <= MaxMessages
  /\ begun \in Seq(Ids) /\ answers \in [Ids -> Nat]

Init ==
  /\ alive = TRUE /\ open = TRUE /\ outgoing = <<>> /\ queued = 0
  /\ writer = "idle" /\ writing = NoFrame /\ parked = <<>>
  /\ wait = [f \in Fibers |-> NoFrame]
  /\ reader = "reading"
  /\ actors = [p \in Panes |-> None] /\ streams = [p \in Panes |-> None]
  /\ act = [i \in Actors |->
       [pane |-> None, queue |-> <<>>, bytes |-> 0, on |-> FALSE,
        closed |-> FALSE, job |-> NoJob, pc |-> "unused"]]
  /\ sub = [j \in Subs |->
       [pane |-> None, on |-> FALSE, closed |-> FALSE, credit |-> 0,
        owed |-> FALSE, pc |-> "unused"]]
  /\ credits = 0 /\ requests = <<>> /\ begun = <<>>
  /\ answers = [n \in Ids |-> 0]
-----------------------------------------------------------------------------
(* The websocket.                                                          *)

Room(len) == queued = 0 \/ queued + len <= SendCap

\* A mutant: the bytes are not counted.
PutUncounted(f, frame) ==
  /\ UNCHANGED queued
  /\ IF writer = "idle"
     THEN /\ writer' = "busy" /\ writing' = frame
          /\ UNCHANGED <<outgoing, parked>>
     ELSE /\ outgoing' = Append(outgoing, frame)
          /\ parked' = IF Len(outgoing) < ChanCap THEN parked
                                                  ELSE Append(parked, f)
          /\ UNCHANGED <<writer, writing>>
  /\ answers' = IF frame.kind = "reply"
                THEN [answers EXCEPT ![frame.of] = @ + 1] ELSE answers

\* Into the channel.  A writer that waits in ev/take is handed the frame; a
\* fiber that fills the channel beyond its limit is parked until a take.
Put(f, frame) ==
  /\ queued' = queued + frame.len
  /\ IF writer = "idle"
     THEN /\ writer' = "busy" /\ writing' = frame
          /\ UNCHANGED <<outgoing, parked>>
     ELSE /\ outgoing' = Append(outgoing, frame)
          /\ parked' = IF Len(outgoing) < ChanCap THEN parked
                                                  ELSE Append(parked, f)
          /\ UNCHANGED <<writer, writing>>
  /\ answers' = IF frame.kind = "reply"
                THEN [answers EXCEPT ![frame.of] = @ + 1] ELSE answers

\* send: a fiber that finds no room looks again every millisecond.  On a
\* closed websocket it raises, which every caller but the reader catches.
Send(f, frame) ==
  IF ~alive THEN UNCHANGED socketVars
  ELSE IF Room(frame.len)
       THEN Put(f, frame) /\ UNCHANGED <<alive, wait>>
       ELSE /\ wait' = [wait EXCEPT ![f] = frame]
            /\ UNCHANGED <<alive, outgoing, queued, writer, writing, parked,
                           answers>>

\* A mutant: the frame stays to be sent.
RetryAgain(f) ==
  /\ wait[f] # NoFrame /\ (alive => Room(wait[f].len))
  /\ UNCHANGED wait
  /\ IF alive
     THEN Put(f, wait[f]) /\ UNCHANGED alive
     ELSE UNCHANGED <<alive, outgoing, queued, writer, writing, parked,
                      answers>>
  /\ UNCHANGED <<streamVars, reader, logVars>>

\* It finds room, or the websocket closed.
Retry(f) ==
  /\ wait[f] # NoFrame /\ (alive => Room(wait[f].len))
  /\ wait' = [wait EXCEPT ![f] = NoFrame]
  /\ IF alive
     THEN Put(f, wait[f]) /\ UNCHANGED alive
     ELSE UNCHANGED <<alive, outgoing, queued, writer, writing, parked,
                      answers>>
  /\ UNCHANGED <<streamVars, reader, logVars>>

Sent(f) == wait[f] = NoFrame /\ ~Contains(parked, f)

\* reply of terminal-stream.
Reply(f, id) ==
  IF open THEN Send(f, [kind |-> "reply", of |-> id, len |-> 1])
          ELSE UNCHANGED socketVars

\* close: the channel goes with its frames, whoever was parked goes on, and
\* a writer that waits in ev/take ends.
CloseSocket ==
  /\ alive' = FALSE /\ outgoing' = <<>> /\ parked' = <<>>
  /\ writer' = IF writer = "idle" THEN "ended" ELSE writer
  /\ UNCHANGED <<queued, writing, wait, answers>>

\* The page shows an update that reached it.
Shown(frame) ==
  IF frame.kind = "output" THEN [sub EXCEPT ![frame.of].owed = TRUE] ELSE sub

\* A write ends and the writer takes the next frame.
WriterGoesOn ==
  /\ alive /\ writer = "busy"
  /\ queued' = queued - writing.len
  /\ IF outgoing = <<>>
     THEN /\ writer' = "idle" /\ writing' = NoFrame
          /\ UNCHANGED <<outgoing, parked>>
     ELSE /\ writing' = Head(outgoing) /\ outgoing' = Tail(outgoing)
          /\ UNCHANGED writer
          /\ parked' = IF parked = <<>> THEN parked ELSE Tail(parked)
  /\ sub' = Shown(writing)
  /\ UNCHANGED <<alive, wait, answers, open, actors, act, streams, reader,
                 logVars>>

\* A write fails or takes ten seconds.
WriterFails ==
  /\ alive /\ writer = "busy"
  /\ alive' = FALSE /\ outgoing' = <<>> /\ parked' = <<>> /\ writer' = "ended"
  /\ writing' = NoFrame
  /\ UNCHANGED <<queued, wait, answers, streamVars, reader, logVars>>

\* The write it was in ends with the websocket, and nobody counts on.
WriterEnds ==
  /\ ~alive /\ writer = "busy"
  /\ writer' = "ended" /\ writing' = NoFrame
  /\ UNCHANGED <<alive, outgoing, queued, parked, wait, answers, streamVars,
                 reader, logVars>>
-----------------------------------------------------------------------------
(* Subscriptions.                                                          *)

Unsubscribed(p) ==
  IF streams[p] = None THEN sub
  ELSE [sub EXCEPT ![streams[p]].on = FALSE, ![streams[p]].closed = TRUE,
                   ![streams[p]].credit = 0]

FreshSubs == {j \in Subs : sub[j].pc = "unused"}
FreshActors == {i \in Actors : act[i].pc = "unused"}
Full(table, cap) == Cardinality({p \in Panes : table[p] # None}) >= cap

\* The message handler raises: the reader sends a close frame.
Raise ==
  /\ reader' = "closing"
  /\ Send(Reader, [kind |-> "close", of |-> None, len |-> 1])
  /\ UNCHANGED <<streamVars, logVars>>

Subscribe(p) ==
  /\ alive /\ reader = "reading"
  /\ IF Full(streams, StreamCap) THEN Raise
     ELSE LET j == CHOOSE j \in FreshSubs : TRUE
          IN /\ FreshSubs # {}
             /\ sub' = [Unsubscribed(p) EXCEPT
                          ![j] = [@ EXCEPT !.pane = p, !.on = TRUE,
                                           !.credit = 1, !.pc = "new"]]
             /\ streams' = [streams EXCEPT ![p] = j]
             /\ UNCHANGED <<socketVars, reader, open, actors, act,
                            logVars>>

Unsubscribe(p) ==
  /\ alive /\ reader = "reading" /\ streams[p] # None
  /\ sub' = Unsubscribed(p) /\ streams' = [streams EXCEPT ![p] = None]
  /\ UNCHANGED <<socketVars, reader, open, actors, act, logVars>>

\* The page acknowledges an update.
Credit(j) ==
  /\ alive /\ reader = "reading" /\ sub[j].owed
  /\ credits + Len(requests) < MaxMessages
  /\ credits' = credits + 1
  /\ sub' = [sub EXCEPT ![j].owed = FALSE,
       ![j].credit = IF streams[sub[j].pane] = j THEN 1 ELSE @]
  /\ UNCHANGED <<socketVars, reader, open, actors, act, streams,
                 requests, begun>>

\* The loop of the subscription's fiber: a poll for a credit, or the end.
SubGoesOn(j) ==
  /\ \/ sub[j].pc = "new"
     \/ sub[j].pc = "sending" /\ Sent(j)
     \/ sub[j].pc = "credit" /\ (sub[j].credit = 1 \/ sub[j].closed)
  /\ sub' = [sub EXCEPT ![j] =
       IF ~open \/ ~@.on THEN [@ EXCEPT !.pc = "ended"]
       ELSE IF @.credit = 1 THEN [@ EXCEPT !.pc = "polling", !.credit = 0]
       ELSE [@ EXCEPT !.pc = "credit"]]
  /\ UNCHANGED <<socketVars, reader, open, actors, act, streams, logVars>>

\* The screen request returns.
SubSends(j) ==
  /\ sub[j].pc = "polling"
  /\ sub' = [sub EXCEPT ![j].pc = "sending"]
  /\ IF open /\ sub[j].on
     THEN \E len \in OutputSizes :
            Send(j, [kind |-> "output", of |-> j, len |-> len])
     ELSE UNCHANGED socketVars
  /\ UNCHANGED <<reader, open, actors, act, streams, logVars>>

\* There is no such pane, or the screen request raises: an update with the
\* error, the fiber ends, and the subscription stays in the table.
SubFails(j) ==
  /\ sub[j].pc \in {"new", "polling"}
  /\ sub' = [sub EXCEPT ![j].pc = "failing"]
  /\ IF open /\ sub[j].on
     THEN Send(j, [kind |-> "output", of |-> j, len |-> 1])
     ELSE UNCHANGED socketVars
  /\ UNCHANGED <<reader, open, actors, act, streams, logVars>>

SubDies(j) ==
  /\ sub[j].pc = "failing" /\ Sent(j)
  /\ sub' = [sub EXCEPT ![j].pc = "dead"]
  /\ UNCHANGED <<socketVars, reader, open, actors, act, streams, logVars>>
-----------------------------------------------------------------------------
(* Requests.                                                               *)

\* A mutant: an actor for every request that finds the last one busy.
ActorForEach(p) ==
  IF actors[p] # None /\ act[actors[p]].pc = "taking"
  THEN <<actors[p], act[actors[p]]>>
  ELSE LET i == CHOOSE i \in FreshActors : TRUE
       IN <<i, [act[i] EXCEPT !.pane = p, !.on = TRUE, !.pc = "new"]>>

\* The actor of a pane, made when there is none: a pair of the actor and
\* the record it has.
ActorFor(p) ==
  IF actors[p] # None THEN <<actors[p], act[actors[p]]>>
  ELSE LET i == CHOOSE i \in FreshActors : TRUE
       IN <<i, [act[i] EXCEPT !.pane = p, !.on = TRUE, !.pc = "new"]>>

TooMuch(a, size) == Len(a.queue) >= QueueCap \/ size + a.bytes > ByteCap

\* A mutant: a job that is handed over is not counted.
GivenUncounted(a, job) ==
  IF a.pc = "taking" THEN [a EXCEPT !.pc = "took", !.job = job]
  ELSE [a EXCEPT !.bytes = @ + job.size, !.queue = Append(@, job)]

\* ev/give hands the job to an actor that waits in ev/take.
Given(a, job) ==
  IF a.pc = "taking"
  THEN [a EXCEPT !.bytes = @ + job.size, !.pc = "took", !.job = job]
  ELSE [a EXCEPT !.bytes = @ + job.size, !.queue = Append(@, job)]

Ask(p, op, size) ==
  /\ alive /\ reader = "reading"
  /\ credits + Len(requests) < MaxMessages
  /\ UNCHANGED <<open, streams, sub, credits, begun>>
  /\ LET id == Len(requests) + 1
         i == ActorFor(p)[1]
         a == ActorFor(p)[2]
     IN IF actors[p] = None /\ Full(actors, ActorCap)
        THEN /\ reader' = "closing"
             /\ Send(Reader, [kind |-> "close", of |-> None, len |-> 1])
             /\ UNCHANGED <<actors, act, requests>>
        ELSE /\ actors[p] = None => FreshActors # {}
             /\ actors' = [actors EXCEPT ![p] = i]
             /\ IF TooMuch(a, size)
                THEN /\ act' = [act EXCEPT ![i] = a]
                     /\ requests' = Append(requests,
                          [pane |-> p, op |-> op, line |-> None])
                     /\ reader' = "refusing" /\ Reply(Reader, id)
                ELSE /\ act' = [act EXCEPT ![i] =
                          Given(a, [id |-> id, op |-> op, size |-> size])]
                     /\ requests' = Append(requests,
                          [pane |-> p, op |-> op, line |-> i])
                     /\ UNCHANGED <<reader, socketVars>>

\* The loop of an actor: ev/take takes what there is, or waits.
Looped(a) ==
  IF ~open \/ ~a.on THEN [a EXCEPT !.pc = "ended"]
  ELSE IF a.queue = <<>> THEN [a EXCEPT !.pc = "taking"]
  ELSE [a EXCEPT !.pc = "took", !.job = Head(a.queue), !.queue = Tail(@)]

\* A mutant: what is left in the queue is dropped.
DrainedNone(a) == [a EXCEPT !.pc = "ended", !.closed = TRUE]

\* The loop after a shutdown, which answers what has queued up behind it:
\* while ev/count is positive ev/take takes a request, or nil when the
\* channel was closed, which leaves the requests in it.
Drained(a) ==
  IF a.queue = <<>> THEN [a EXCEPT !.pc = "ended", !.closed = TRUE]
  ELSE IF a.closed THEN [a EXCEPT !.pc = "spinning"]
  ELSE [a EXCEPT !.pc = "drained", !.job = Head(a.queue), !.queue = Tail(@)]

\* A new actor starts, or one that waited finds its queue closed.
ActorStarts(i) ==
  /\ act[i].pc = "new" \/ (act[i].pc = "taking" /\ act[i].closed)
  /\ act' = [act EXCEPT ![i] = Looped(@)]
  /\ UNCHANGED <<socketVars, reader, open, actors, streams, sub, logVars>>

\* It has taken a request.  For a pane that is not in the registry, which
\* other pages change as well, the answer is ready; otherwise the client of
\* the pane is asked, and a start makes one.
Begin(i) ==
  LET a == act[i]
  IN /\ a.pc = "took"
     /\ begun' = Append(begun, a.job.id)
     /\ \E next \in {"replying", "running"} :
          /\ act' = [act EXCEPT ![i].bytes = @ - a.job.size, ![i].pc = next]
          /\ IF next = "replying" THEN a.job.op # "start" /\ Reply(i, a.job.id)
                                  ELSE UNCHANGED socketVars
     /\ UNCHANGED <<reader, open, actors, streams, sub, credits, requests>>

\* The client has answered, or raised: either is replied.
End(i) ==
  LET a == act[i]
  IN /\ a.pc = "running"
     /\ act' = [act EXCEPT ![i].pc = "replying"]
     /\ Reply(i, a.job.id)
     /\ UNCHANGED <<reader, open, actors, streams, sub, logVars>>

\* A mutant: an actor goes on after a shutdown.
GoOnAlways(i) ==
  /\ act[i].pc = "replying" /\ Sent(i)
  /\ act' = [act EXCEPT ![i] = Looped(@)]
  /\ UNCHANGED <<socketVars, reader, open, actors, streams, sub, logVars>>

\* After the reply: the next request; after a shutdown the actor leaves the
\* table, the pane's subscription ends, and the queue is drained.
GoOn(i) ==
  LET a == act[i]
  IN /\ a.pc = "replying" /\ Sent(i)
     /\ IF a.job.op = "shutdown"
        THEN /\ act' = [act EXCEPT ![i] = Drained([a EXCEPT !.on = FALSE])]
             /\ actors' = [actors EXCEPT ![a.pane] = None]
             /\ sub' = Unsubscribed(a.pane)
             /\ streams' = [streams EXCEPT ![a.pane] = None]
        ELSE /\ act' = [act EXCEPT ![i] = Looped(a)]
             /\ UNCHANGED <<actors, sub, streams>>
     /\ UNCHANGED <<socketVars, reader, open, logVars>>

\* A request behind a shutdown is answered "terminal closed"; what was no
\* request raises, which is caught.
Drain(i) ==
  /\ act[i].pc \in {"drained", "spinning"}
  /\ act' = [act EXCEPT ![i].pc = "passing"]
  /\ IF act[i].pc = "drained" THEN Reply(i, act[i].job.id)
                              ELSE UNCHANGED socketVars
  /\ UNCHANGED <<reader, open, actors, streams, sub, logVars>>

DrainOn(i) ==
  /\ act[i].pc = "passing" /\ Sent(i)
  /\ act' = [act EXCEPT ![i] = Drained(@)]
  /\ UNCHANGED <<socketVars, reader, open, actors, streams, sub, logVars>>
-----------------------------------------------------------------------------
(* The reader's end.                                                       *)

\* A refusal is sent: the reader reads on.
ReadOn ==
  /\ reader = "refusing" /\ Sent(Reader)
  /\ reader' = "reading"
  /\ UNCHANGED <<socketVars, streamVars, logVars>>

\* A close frame of the page, or a message that raises.
PageCloses == alive /\ reader = "reading" /\ Raise

\* A mutant: the queues are not closed.
CloseStreamOnly ==
  /\ reader' = "ended" /\ open' = FALSE
  /\ sub' = [j \in Subs |-> IF \E p \in Panes : streams[p] = j
       THEN [sub[j] EXCEPT !.on = FALSE, !.closed = TRUE, !.credit = 0]
       ELSE sub[j]]
  /\ streams' = [p \in Panes |-> None]
  /\ UNCHANGED <<act, actors, logVars>>

\* :close, when the connection has ended for the reader.
CloseStream ==
  /\ reader' = "ended" /\ open' = FALSE
  /\ sub' = [j \in Subs |-> IF \E p \in Panes : streams[p] = j
       THEN [sub[j] EXCEPT !.on = FALSE, !.closed = TRUE, !.credit = 0]
       ELSE sub[j]]
  /\ streams' = [p \in Panes |-> None]
  /\ act' = [i \in Actors |-> IF \E p \in Panes : actors[p] = i
       THEN [act[i] EXCEPT !.closed = TRUE] ELSE act[i]]
  /\ UNCHANGED <<actors, logVars>>

\* The page is gone: the read returns nothing.
HangUp ==
  /\ alive /\ reader = "reading"
  /\ CloseSocket /\ CloseStream

\* The close frame and all before it are written, or the websocket closed.
ReaderEnds ==
  /\ \/ reader = "reading" /\ ~alive
     \/ reader = "closing" /\ Sent(Reader) /\ (alive => queued = 0)
  /\ IF alive THEN CloseSocket ELSE UNCHANGED socketVars
  /\ CloseStream
-----------------------------------------------------------------------------
ActorStep(i) == ActorStarts(i) \/ Begin(i) \/ GoOn(i) \/ Drain(i) \/ DrainOn(i)
SubStep(j) == SubGoesOn(j) \/ SubDies(j)
Polled(j) == SubSends(j) \/ SubFails(j)
WriterStep == WriterGoesOn \/ WriterFails \/ WriterEnds
ReaderStep == ReadOn \/ ReaderEnds

FiberSteps ==
  \/ \E f \in Fibers : Retry(f)
  \/ \E j \in Subs : SubStep(j) \/ Polled(j)
  \/ \E i \in Actors : ActorStep(i) \/ End(i)
  \/ WriterStep \/ ReaderStep

PageSteps ==
  \/ \E p \in Watches : Subscribe(p) \/ Unsubscribe(p)
  \/ \E ask \in Asks, size \in Sizes : Ask(ask[1], ask[2], size)
  \/ \E j \in Subs : Credit(j)
  \/ PageCloses \/ HangUp

Next == FiberSteps \/ PageSteps

Spec == Init /\ [][Next]_vars

\* The event loop runs every fiber that can run, and a write ends or fails in
\* ten seconds.  A client's call returns (TermClient's CallsReturn), but not
\* soon: a pane of Stuck stands for one that has not returned yet.  Nobody
\* need send, acknowledge or close anything.
Fairness ==
  /\ WF_vars(WriterStep) /\ WF_vars(ReaderStep \/ Retry(Reader))
  /\ \A i \in Actors :
       WF_vars(\/ ActorStep(i) \/ Retry(i)
               \/ act[i].pane \notin Stuck /\ End(i))
  /\ \A j \in Subs :
       WF_vars(\/ SubStep(j) \/ Retry(j)
               \/ sub[j].pane \notin Stuck /\ Polled(j))

FairSpec == Spec /\ Fairness
-----------------------------------------------------------------------------
(* What the streams promise.                                               *)

\* The sums of the beginnings of a sequence of numbers, and its sum.
Sums(s) ==
  LET sum[n \in 0 .. Len(s)] == IF n = 0 THEN 0 ELSE sum[n - 1] + s[n] IN sum
Sum(s) == Sums(s)[Len(s)]
JobBytes(queue) == Sum([k \in DOMAIN queue |-> queue[k].size])
FrameBytes(queue) == Sum([k \in DOMAIN queue |-> queue[k].len])
InHand(a) == IF a.pc = "took" THEN a.job.size ELSE 0

\* The limits of an actor's queue hold, and its bytes are those of the
\* requests it has not begun, although requests are counted when they come
\* and uncounted one wait after they were taken.
ActorBounded == \A i \in Actors :
  /\ Len(act[i].queue) <= QueueCap /\ act[i].bytes <= ByteCap
  /\ act[i].on => act[i].bytes = InHand(act[i]) + JobBytes(act[i].queue)

\* The bytes of the outgoing queue are those of its frames, although fibers
\* wait for room between counting and giving; they exceed the limit for a
\* single frame only, which has the queue to itself
\* (docs/terminal-errors.md:24).
OutgoingBounded == alive =>
  /\ queued = writing.len + FrameBytes(outgoing)
  /\ queued > SendCap => outgoing = <<>>

\* Both queues keep their limits, and what is counted is what is queued.
QueuesBounded == ActorBounded /\ OutgoingBounded

\* The operations of a pane that one page asks for are carried out one at a
\* time and in the order they were asked for ("Input is sent in order",
\* docs/terminal-streaming.md:3), also when a shutdown has replaced the actor.
InOrder ==
  /\ \A i1, i2 \in Actors :
       /\ {act[i1].pc, act[i2].pc} \subseteq {"took", "running"}
       /\ act[i1].pane = act[i2].pane
       => i1 = i2
  /\ \A m, n \in DOMAIN begun :
       m < n /\ requests[begun[m]].pane = requests[begun[n]].pane
       => begun[m] < begun[n]

\* What was asked behind a shutdown, before the page could know it was done,
\* is not carried out on the terminal that comes after.
ShutdownIsLast == \A m, n \in DOMAIN begun :
  m < n /\ requests[begun[m]].op = "shutdown"
  => requests[begun[m]].line # requests[begun[n]].line

\* No request is answered twice, by whichever of the reader, the actor and
\* the draining of its queue comes to it.
AnsweredOnce == \A n \in Ids :
  answers[n] <= 1 /\ (n > Len(requests) => answers[n] = 0)

\* Every request is answered while the websocket is up, and a pane that does
\* not answer holds up no other.
Answered == \A n \in Ids :
  n <= Len(requests) /\ requests[n].pane \notin Stuck
  ~> ~alive \/ answers[n] = 1

Over(i) == act[i].pc \in {"unused", "ended"}
OverSub(j) == sub[j].pc \in {"unused", "dead", "ended"}
Draining(i) == act[i].closed /\ act[i].pc \in {"passing", "spinning"}

\* A close is completed, and then every fiber of the websocket ends, unless
\* it waits for a terminal or was draining the queue of a pane shut down.
StreamEnds ==
  reader = "closing" \/ ~alive ~>
    /\ reader = "ended" /\ writer = "ended"
    /\ \A i \in Actors : Over(i) \/ Draining(i) \/ act[i].pane \in Stuck
    /\ \A j \in Subs : OverSub(j) \/ sub[j].pane \in Stuck

\* "core.janet ... owns ... per-pane command queues, and connection cleanup"
\* (docs/backend.md:3): when the websocket has closed, every actor ends.
ActorsEnd == \A i \in Actors :
  ~alive ~> Over(i) \/ act[i].pane \in Stuck
-----------------------------------------------------------------------------
(* The inductive invariant of InOrder, ShutdownIsLast and AnsweredOnce.    *)

\* Types, but for the counts of bytes.
ShapeInv ==
  /\ act \in [Actors -> ActorRec(Int)]
  /\ actors \in [Panes -> Actors \union {None}]
  /\ wait \in [Fibers -> Frame \union {NoFrame}]
  /\ requests \in Seq(Request) /\ Len(requests) <= MaxMessages
  /\ credits \in Nat /\ begun \in Seq(Ids) /\ answers \in [Ids -> Nat]

\* An actor i, with the record a, is in the table until its shutdown was
\* carried out.
TableOK(i, a, table, reqs) ==
  /\ a.on => a.pane \in Panes /\ table[a.pane] = i
  /\ a.pc \in {"new", "taking", "took", "running", "replying"} => a.on
  /\ a.pc = "taking" => a.queue = <<>>
  /\ a.pc = "unused" =>
       /\ ~a.on /\ a.queue = <<>> /\ a.job = NoJob
       /\ \A n \in DOMAIN reqs : reqs[n].line # i
TableInv ==
  /\ \A i \in Actors : TableOK(i, act[i], actors, requests)
  /\ \A p \in Panes :
       actors[p] # None => act[actors[p]].on /\ act[actors[p]].pane = p

\* What it has are requests of its pane, in order.
JobOf(i, pane, job, reqs) ==
  /\ job.id \in DOMAIN reqs
  /\ reqs[job.id] = [pane |-> pane, op |-> job.op, line |-> i]
JobsOK(i, a, reqs) ==
  /\ \A k \in DOMAIN a.queue :
       JobOf(i, a.pane, a.queue[k], reqs) /\ a.job.id < a.queue[k].id
  /\ \A k, l \in DOMAIN a.queue : k < l => a.queue[k].id < a.queue[l].id
  /\ a.job # NoJob => JobOf(i, a.pane, a.job, reqs)
  /\ a.pc \in {"took", "running", "replying", "drained"} => a.job # NoJob
JobsInv == \A i \in Actors : JobsOK(i, act[i], requests)

\* What the actor in the table has to carry out comes after what was carried
\* out in its pane, and after a shutdown nothing does.
Ahead(n, a) ==
  /\ \A k \in DOMAIN a.queue : n < a.queue[k].id
  /\ a.pc = "took" => n < a.job.id
DoneWith(n, a) == ~a.on \/ (a.pc \in {"running", "replying"} /\ a.job.id = n)
BegunOK(n, acts, table, reqs) ==
  /\ n \in DOMAIN reqs /\ reqs[n].line \in Actors
  /\ reqs[n].op = "shutdown" => DoneWith(n, acts[reqs[n].line])
  /\ LET i == table[reqs[n].pane] IN i # None => Ahead(n, acts[i])
BegunInv ==
  /\ InOrder /\ ShutdownIsLast
  /\ \A m \in DOMAIN begun : BegunOK(begun[m], act, actors, requests)

\* A request has no answer while an actor has it or its reply waits for room.
AnswerOK(a, frame, given) ==
  /\ \A k \in DOMAIN a.queue : given[a.queue[k].id] = 0
  /\ a.pc \in {"took", "running", "drained"} => given[a.job.id] = 0
  /\ frame # NoFrame =>
       /\ a.pc \in {"replying", "passing"} /\ a.job # NoJob
       /\ frame.kind = "reply" /\ frame.of = a.job.id /\ given[a.job.id] = 0
RefusalOK(frame, at, reqs, given) ==
  /\ frame # NoFrame => at \in {"refusing", "closing"}
  /\ frame.kind = "reply" =>
       /\ frame.of \in DOMAIN reqs /\ reqs[frame.of].line = None
       /\ given[frame.of] = 0
AnswerInv ==
  /\ AnsweredOnce
  /\ \A i \in Actors : AnswerOK(act[i], wait[i], answers)
  /\ RefusalOK(wait[Reader], reader, requests, answers)
  /\ \A j \in Subs : wait[j].kind # "reply"

IInv == ShapeInv /\ TableInv /\ JobsInv /\ BegunInv /\ AnswerInv

\* With it, that of QueuesBounded and TypeOK: an actor that was not used has
\* no bytes, one that drains its queue was shut down, and a writer that is
\* idle has taken everything.
SpareInv == \A i \in Actors :
  /\ act[i].pc = "unused" => act[i].bytes = 0
  /\ act[i].pc \in {"drained", "spinning", "passing"} => ~act[i].on
WriterInv == alive =>
  \/ writer = "idle" /\ writing = NoFrame /\ outgoing = <<>>
  \/ writer = "busy" /\ writing \in Frame
CountInv == TypeOK /\ QueuesBounded /\ SpareInv /\ WriterInv
=============================================================================
