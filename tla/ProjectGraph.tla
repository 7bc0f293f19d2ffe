---------------------------- MODULE ProjectGraph ----------------------------
(***************************************************************************)
(* The drawing of the project: the worker thread that scans and draws      *)
(* (src.server/graph.janet), the server that asks it (core.janet) and the  *)
(* pages that show the result (graph/updates.js, shared/watch.js).         *)
(*                                                                         *)
(* The project is a configuration and one source file, both changed by     *)
(* others at any time.  The worker reads them in several steps: a step     *)
(* below is what it does between two looks at the project.  Texts of the   *)
(* configuration are numbers and do not come back; an imported one counts  *)
(* as part of it.  The source's number stands for its stamps, which never  *)
(* come back either.  A call is named by its caller, which has one at a    *)
(* time.  The channels' capacity of 64 is out of reach of so few callers.  *)
(* Which nodes flash, the diagrams of configurations, and a refresh that    *)
(* fails after the first one are left out.                                 *)
(***************************************************************************)
EXTENDS Integers, Sequences

CONSTANTS
  Pages,        \* browser pages
  Others,       \* other callers of the worker: file lookups, regenerations
  MaxConfig,    \* bound: texts of the configuration
  MaxSource,    \* bound: versions of the source file
  MaxServers,   \* bound: server processes, one after the other
  Hides,        \* the texts that hide the source file
  Undrawable    \* the pictures Graphviz refuses to draw

Configs == 1 .. MaxConfig
Sources == 1 .. MaxSource
Callers == Pages \cup Others

ASSUME GraphAssumption ==
  /\ MaxConfig \in Nat \ {0} /\ MaxSource \in Nat \ {0} /\ MaxServers \in Nat \ {0}
  /\ Pages \cap Others = {} /\ {"none", "changed"} \cap (Pages \cup Others) = {}
  /\ Hides \subseteq Configs /\ Undrawable \subseteq Configs \X (0 .. MaxSource)

VARIABLES
  config, source,                    \* the project
  server, alive, sourceGeneration,   \* the server process and its copy of the generation
  exiting,                           \* interrupted: the server waits for the worker
  requests, replies,                 \* the two channels
  calls,                             \* pending, by caller: what it asked for, or "none"
  thread,                            \* what the worker is doing
  commands, fingerprint, tree,       \* what it read last, and the scan
  drawing, drawingKey, generation,   \* the drawing in its cache
  page                               \* what each page does and shows

projectVars == <<config, source>>
processVars == <<server, exiting>>
channelVars == <<requests, replies>>
cacheVars == <<commands, fingerprint, tree, drawing, drawingKey, generation>>
workerVars == <<thread, cacheVars>>
vars == <<projectVars, processVars, alive, sourceGeneration, channelVars, calls,
          workerVars, page>>

-----------------------------------------------------------------------------
(* The data *)

Nothing == 0    \* no configuration, the hidden file's place in a scan

\* scan/fingerprint and scan/scan leave out what the configuration hides.
Seen(c, s) == IF c \in Hides THEN Nothing ELSE s

Unread == MaxSource + 1     \* no fingerprint, no tree

\* render-svg drops from the tree what the configuration hides, and resolves
\* the rest by it.
Picture(c, t) == <<c, Seen(c, t)>>
Blank == <<Nothing, Nothing>>

Drawing(c, t, g) ==
  LET ok == Picture(c, t) \notin Undrawable
  IN [ok |-> ok, generation |-> g, picture |-> IF ok THEN Picture(c, t) ELSE Blank]
NoDrawing == [ok |-> FALSE, generation |-> 0, picture |-> Blank]   \* nil

\* What should be shown of the project as it is.
Current == Drawing(config, Seen(config, source), 0).picture

Ops == {"draw", "regenerate", "file"}
Stop == "stop"          \* the request that ends the worker
Changed == "changed"    \* the id 0 of a reply nobody asked for

Idle == [at |-> "idle", op |-> "none", by |-> "none", lines |-> Nothing]

\* What a page does, the server whose token it has, the generation it has, the
\* server that told it (history), and the picture.
Away == [at |-> "away", token |-> 0, gen |-> -1, from |-> 0, shown |-> Blank]
NoCalls == [c \in Callers |-> "none"]

-----------------------------------------------------------------------------
(* The project changes *)

ConfigChanges ==
  /\ \E c \in Configs : c > config /\ config' = c
  /\ UNCHANGED <<source, processVars, alive, sourceGeneration, channelVars, calls,
                 workerVars, page>>

SourceChanges ==
  /\ source < MaxSource /\ source' = source + 1
  /\ UNCHANGED <<config, processVars, alive, sourceGeneration, channelVars, calls,
                 workerVars, page>>

-----------------------------------------------------------------------------
(* The worker *)

\* Sets the drawing to nil; its key, which counts only beside a drawing, goes too.
ForgetsDrawing == drawing' = NoDrawing /\ drawingKey' = Blank

\* Slip: only the drawing is of the past.
KeepsTree == UNCHANGED tree

ForgetsTree == tree' = Unread

\* graph/start: the thread begins with a refresh.
FreshWorker ==
  /\ thread' = [Idle EXCEPT !.at = "boot"]
  /\ commands' = Nothing /\ fingerprint' = Unread /\ tree' = Unread
  /\ ForgetsDrawing /\ generation' = 0

Replies(to, d) == replies' = Append(replies, [to |-> to, drawing |-> d])

\* refresh begins with the configuration.
Refreshing(op, by) == [at |-> "prints", op |-> op, by |-> by, lines |-> config]

\* At the start: nobody catches its failure.
Boots ==
  /\ thread.at = "boot"
  /\ \/ thread' = Refreshing("boot", "none")
     \/ thread' = [Idle EXCEPT !.at = "ended"]
  /\ UNCHANGED <<projectVars, processVars, alive, sourceGeneration, channelVars, calls,
                 cacheVars, page>>

\* The loop takes a message; "working" holds until it has answered.
TakesRequest ==
  /\ thread.at = "idle" /\ requests # <<>>
  /\ requests' = Tail(requests)
  /\ thread' = IF Head(requests).op = Stop
               THEN [Idle EXCEPT !.at = "ended"]
               ELSE Refreshing(Head(requests).op, Head(requests).by)
  /\ UNCHANGED <<projectVars, processVars, alive, sourceGeneration, replies, calls,
                 cacheVars, page>>

\* The watch fiber's turn, when nothing else is being worked on.
Ticks ==
  /\ thread.at = "idle"
  /\ thread' = Refreshing("watch", "none")
  /\ UNCHANGED <<projectVars, processVars, alive, sourceGeneration, channelVars, calls,
                 cacheVars, page>>

\* Slip: the watch fiber goes on to draw.
AlwaysDraws(op) ==
  IF op = "boot" THEN Idle ELSE [thread EXCEPT !.at = "rereads"]

AfterRefresh(op) ==
  CASE op \in {"boot", "watch"} -> Idle
    [] op = "file" -> [thread EXCEPT !.at = "finds"]
    [] OTHER -> [thread EXCEPT !.at = "rereads"]

\* Slip: commands need no comparison.
OtherSources(lines, next) == next # fingerprint

\* Is anything different from the last refresh?
Differs(lines, next) == next # fingerprint \/ lines # commands

\* Slip: only the watch fiber gives notice.
WatchNotice(g) ==
  IF thread.op = "watch" THEN Replies(Changed, [NoDrawing EXCEPT !.generation = g])
  ELSE UNCHANGED replies

Notice(g) == Replies(Changed, [NoDrawing EXCEPT !.generation = g])

\* Then it takes the fingerprint, forgets what is out of date, and gives notice.
Prints ==
  LET next == Seen(thread.lines, source)
  IN /\ thread.at = "prints"
     /\ thread' = AfterRefresh(thread.op)
     /\ IF Differs(thread.lines, next)
        THEN /\ fingerprint' = next /\ commands' = thread.lines
             /\ ForgetsTree /\ ForgetsDrawing
             /\ generation' = generation + 1 /\ Notice(generation + 1)
        ELSE UNCHANGED <<cacheVars, replies>>
     /\ UNCHANGED <<projectVars, processVars, alive, sourceGeneration, requests, calls, page>>

Scanned(lines) == IF tree = Unread THEN Seen(lines, source) ELSE tree

\* :file looks the node up in the tree.
Finds ==
  /\ thread.at = "finds"
  /\ tree' = Scanned(commands)
  /\ Replies(thread.by, NoDrawing)
  /\ thread' = Idle
  /\ UNCHANGED <<projectVars, processVars, alive, sourceGeneration, requests, calls,
                 commands, fingerprint, drawing, drawingKey, generation, page>>

\* :draw reads the configuration again; a regeneration first forgets.
Rereads ==
  /\ thread.at = "rereads"
  /\ IF thread.op = "regenerate" THEN ForgetsTree /\ ForgetsDrawing
     ELSE UNCHANGED <<tree, drawing, drawingKey>>
  /\ thread' = [thread EXCEPT !.at = "draws", !.lines = config]
  /\ UNCHANGED <<projectVars, processVars, alive, sourceGeneration, channelVars, calls,
                 commands, fingerprint, generation, page>>

\* Then it scans and draws, unless the drawing in the cache is of the same.
Draws ==
  LET key == <<fingerprint, thread.lines>>
      t == Scanned(thread.lines)
      new == Drawing(thread.lines, t, generation)
  IN /\ thread.at = "draws"
     /\ IF drawing # NoDrawing /\ drawingKey = key
        THEN Replies(thread.by, drawing) /\ UNCHANGED <<tree, drawing, drawingKey>>
        ELSE Replies(thread.by, new) /\ tree' = t /\ drawing' = new /\ drawingKey' = key
     /\ thread' = Idle
     /\ UNCHANGED <<projectVars, processVars, alive, sourceGeneration, requests, calls,
                    commands, fingerprint, generation, page>>

Works == Boots \/ Prints \/ Finds \/ Rereads \/ Draws

-----------------------------------------------------------------------------
(* Calls *)

\* :call, of a worker that is not known to have ended.
Gives(c, op) ==
  /\ alive
  /\ calls' = [calls EXCEPT ![c] = op]
  /\ requests' = Append(requests, [by |-> c, op |-> op])

\* What an answer does to a page, and what a failure does.
Answered(p, d) ==
  CASE p.at = "loading" ->
         [at |-> "polling", token |-> server, gen |-> d.generation, from |-> server,
          shown |-> d.picture]
    [] p.at = "drawing" /\ d.ok ->
         [p EXCEPT !.at = "polling", !.gen = d.generation, !.from = server,
                   !.shown = d.picture]
    [] p.at = "drawing" /\ ~d.ok -> [p EXCEPT !.at = "polling"]
    [] OTHER -> p

Failed(p) ==
  CASE p.at = "loading" -> Away
    [] p.at = "drawing" -> [p EXCEPT !.at = "polling"]
    [] OTHER -> p

\* The server's fiber takes a reply: a notice, or the answer to a call.
TakesReply ==
  /\ alive /\ replies # <<>>
  /\ replies' = Tail(replies)
  /\ LET to == Head(replies).to
         d == Head(replies).drawing
     IN IF to = Changed
        THEN /\ sourceGeneration' = d.generation
             /\ UNCHANGED <<calls, page>>
        ELSE /\ calls' = [calls EXCEPT ![to] = "none"]
             /\ page' = IF to \in Pages THEN [page EXCEPT ![to] = Answered(@, d)] ELSE page
             /\ UNCHANGED sourceGeneration
  /\ UNCHANGED <<projectVars, processVars, alive, requests, workerVars>>

\* Slip: it fails only what the worker has not taken.
Untaken ==
  [c \in Callers |-> IF \E i \in DOMAIN requests : requests[i].by = c THEN "none" ELSE calls[c]]

AllFailed == NoCalls

\* The fiber that waits for the thread's end fails what is still pending.
WorkerEnded ==
  /\ alive /\ thread.at = "ended"
  /\ alive' = FALSE
  /\ calls' = AllFailed /\ requests' = <<>> /\ replies' = <<>>
  /\ page' = [p \in Pages |-> Failed(page[p])]
  /\ UNCHANGED <<projectVars, processVars, sourceGeneration, workerVars>>

\* Ctrl-C: :stop waits behind the requests, then the process exits.
Interrupt ==
  /\ server < MaxServers /\ ~exiting /\ exiting' = TRUE
  /\ requests' = IF alive THEN Append(requests, [by |-> "none", op |-> Stop]) ELSE requests
  /\ UNCHANGED <<projectVars, server, alive, sourceGeneration, replies, calls,
                 workerVars, page>>

\* The process exits, or is killed at any time, and another takes its place.
Restarts ==
  /\ server < MaxServers
  /\ server' = server + 1 /\ alive' = TRUE /\ exiting' = FALSE
  /\ sourceGeneration' = 0
  /\ requests' = <<>> /\ replies' = <<>> /\ calls' = NoCalls
  /\ FreshWorker
  /\ page' = [p \in Pages |-> Failed(page[p])]
  /\ UNCHANGED projectVars

-----------------------------------------------------------------------------
(* Pages and other callers *)

\* GET / draws.
Opens(p) ==
  /\ page[p].at = "away"
  /\ Gives(p, "draw")
  /\ page' = [page EXCEPT ![p].at = "loading"]
  /\ UNCHANGED <<projectVars, processVars, alive, sourceGeneration, replies, workerVars>>

\* /watch answers when the generation is another than the page's.
Notices(p) ==
  /\ page[p].at = "polling" /\ page[p].token = server
  /\ page[p].gen # sourceGeneration
  /\ page' = [page EXCEPT ![p].at = "asking"]
  /\ UNCHANGED <<projectVars, processVars, alive, sourceGeneration, channelVars, calls,
                 workerVars>>

\* The page asks for the drawing; no answer, and it polls again.
Asks(p) ==
  /\ page[p].at = "asking" /\ page[p].token = server
  /\ IF alive
     THEN Gives(p, "draw") /\ page' = [page EXCEPT ![p].at = "drawing"]
     ELSE page' = [page EXCEPT ![p].at = "polling"] /\ UNCHANGED <<calls, requests>>
  /\ UNCHANGED <<projectVars, processVars, alive, sourceGeneration, replies, workerVars>>

\* Something else than the watch renews the page's token: a websocket that
\* connects again, or a refused save of the panes' places.  The generation of the
\* watch stays, whichever server it is of.
RenewsToken(p) ==
  /\ page[p].at \in {"polling", "asking"} /\ page[p].token # server
  /\ page' = [page EXCEPT ![p].token = server]
  /\ UNCHANGED <<projectVars, processVars, alive, sourceGeneration, channelVars, calls,
                 workerVars>>

\* A server that does not know the token refuses; the poll then renews it and
\* forgets the generation.
Refused(p) ==
  /\ page[p].at \in {"polling", "asking"} /\ page[p].token # server
  /\ page' = [page EXCEPT ![p] =
                IF @.at = "asking" THEN [@ EXCEPT !.at = "polling"]
                ELSE [@ EXCEPT !.token = server, !.gen = -1]]
  /\ UNCHANGED <<projectVars, processVars, alive, sourceGeneration, channelVars, calls,
                 workerVars>>

\* A file to run a command on, or a regeneration.
OtherAsks(o) ==
  /\ calls[o] = "none"
  /\ \E op \in {"regenerate", "file"} : Gives(o, op)
  /\ UNCHANGED <<projectVars, processVars, alive, sourceGeneration, replies, workerVars,
                 page>>

PageActs(p) == Opens(p) \/ Notices(p) \/ Asks(p) \/ RenewsToken(p) \/ Refused(p)

-----------------------------------------------------------------------------
Init ==
  /\ config = 1 /\ source = 1
  /\ server = 1 /\ alive = TRUE /\ exiting = FALSE /\ sourceGeneration = 0
  /\ requests = <<>> /\ replies = <<>> /\ calls = NoCalls
  /\ thread = [Idle EXCEPT !.at = "boot"]
  /\ commands = Nothing /\ fingerprint = Unread /\ tree = Unread
  /\ drawing = NoDrawing /\ drawingKey = Blank /\ generation = 0
  /\ page = [p \in Pages |-> Away]

Next ==
  \/ ConfigChanges \/ SourceChanges
  \/ TakesRequest \/ Ticks \/ Works
  \/ TakesReply \/ WorkerEnded \/ Interrupt \/ Restarts
  \/ \E p \in Pages : PageActs(p)
  \/ \E o \in Others : OtherAsks(o)

Spec == Init /\ [][Next]_vars

\* Both fibers of the worker get their turn, however many requests there are;
\* the server takes replies, and open pages poll.  Nobody has to change the
\* project, open a page, call, interrupt or restart.
Fairness ==
  /\ WF_vars(Works) /\ SF_vars(TakesRequest) /\ SF_vars(Ticks)
  /\ WF_vars(TakesReply \/ WorkerEnded)
  /\ \A p \in Pages : WF_vars(Notices(p) \/ Asks(p) \/ Refused(p))

FairSpec == Spec /\ Fairness

-----------------------------------------------------------------------------
(* Properties *)

Drawings ==
  [ok : BOOLEAN, generation : Nat, picture : (0 .. MaxConfig) \X (0 .. MaxSource)]

Request == [by : Callers \cup {"none"}, op : Ops \cup {Stop}]
Reply == [to : Callers \cup {Changed}, drawing : Drawings]
Thread ==
  [at : {"boot", "idle", "prints", "finds", "rereads", "draws", "ended"},
   op : Ops \cup {"none", "boot", "watch"}, by : Callers \cup {"none"}, lines : 0 .. MaxConfig]
Page ==
  [at : {"away", "loading", "polling", "asking", "drawing"}, token : 0 .. MaxServers,
   gen : Nat \cup {-1}, from : 0 .. MaxServers, shown : (0 .. MaxConfig) \X (0 .. MaxSource)]

\* The variables hold what the code's variables may hold.
TypeOK ==
  /\ config \in Configs /\ source \in Sources
  /\ server \in 1 .. MaxServers /\ alive \in BOOLEAN /\ exiting \in BOOLEAN
  /\ sourceGeneration \in Nat
  /\ requests \in Seq(Request) /\ replies \in Seq(Reply)
  /\ calls \in [Callers -> Ops \cup {"none"}]
  /\ thread \in Thread
  /\ commands \in 0 .. MaxConfig
  /\ fingerprint \in 0 .. Unread /\ tree \in 0 .. Unread
  /\ drawing \in Drawings /\ generation \in Nat
  /\ drawingKey \in (0 .. Unread) \X (0 .. MaxConfig)
  /\ page \in [Pages -> Page]

\* A page whose generation is the serving process's.
Knows(p) == page[p].at \in {"polling", "asking", "drawing"} /\ page[p].from = server

\* The generation is worth something: when the worker's last look found the
\* project as it is now, a page with the newest generation of this worker shows
\* the project as it is, although configuration and source are read again, later,
\* to draw it, and although trees and drawings are kept (graph.janet 63-108).
NewestIsCurrent ==
  \A p \in Pages :
    Knows(p) /\ page[p].gen = generation
      /\ commands = config /\ fingerprint = Seen(config, source)
    => page[p].shown = Current

\* No drawing overtakes the notice of its generation: otherwise a page would be
\* told to draw again when the late notice comes (graph.janet 76, 151-158).
NoticeComesFirst ==
  \A p \in Pages : Knows(p) => page[p].gen <= sourceGeneration

\* Nobody waits forever, even if the worker ends with the call in its queue
\* (graph.janet 151-171).
CallsAnswered == \A c \in Callers : calls[c] # "none" ~> calls[c] = "none"

\* docs/backend.md:15: changes of sources, configurations and commands "still
\* trigger updates".  When the project is left alone, every open page comes to show
\* it, as long as there is a worker and the graph can be drawn, but for one
\* coincidence, to which the code has no answer: the generation that the page kept
\* from an earlier server, when something else renewed its token, is the same
\* number as the present one's (core.janet 500-511, updates.js, watch.js 14,
\* transport.js 38-45).
Follows(p) ==
  alive /\ Current # Blank /\ page[p].at \notin {"away", "loading"}
Alike(p) == page[p].from # server /\ page[p].gen = sourceGeneration
CatchesUpUnlessAlike ==
  \A p \in Pages : <>[](Follows(p) /\ ~Alike(p) => page[p].shown = Current)

-----------------------------------------------------------------------------
(* The inductive invariant behind NewestIsCurrent and NoticeComesFirst *)

\* What the worker read is of the past, and in order.
LooksBack ==
  /\ commands <= config
  /\ fingerprint <= source \/ fingerprint = Unread
  /\ thread.at \in {"prints", "draws"} => commands <= thread.lines /\ thread.lines <= config

\* Pages only ask for drawings, and everything is answered to somebody.
Asked(by, op) == by \in Callers /\ (by \in Pages => op = "draw")

CallersOK ==
  /\ \A i \in DOMAIN requests : requests[i].op # Stop => Asked(requests[i].by, requests[i].op)
  /\ thread.at = "prints" /\ thread.op \in Ops => Asked(thread.by, thread.op)
  /\ thread.at = "prints" => thread.op \in Ops \cup {"boot", "watch"}
  /\ thread.at \in {"rereads", "draws"} => thread.by \in Callers
  /\ thread.at = "finds" => thread.by \in Others

\* The worker's last look found the project as it is.
LookedLast == commands = config /\ fingerprint = Seen(config, source)

TreeRight == tree # Unread /\ LookedLast => Seen(config, tree) = Seen(config, source)

\* A drawing with the newest generation is right, if the last look was; no page has
\* a generation of a server to come.
Right(g, picture) == g <= generation /\ (g = generation /\ LookedLast => picture = Current)

DrawingsRight ==
  /\ drawing # NoDrawing => Right(drawing.generation, drawing.picture)
  /\ \A i \in DOMAIN replies : replies[i].to \in Pages =>
       Right(replies[i].drawing.generation, replies[i].drawing.picture)
  /\ \A p \in Pages :
       /\ page[p].from <= server
       /\ page[p].from = server => Right(page[p].gen, page[p].shown)

\* Notices come in order, and each before the drawings it announces.
Announced(g, n) ==
  \/ g <= sourceGeneration
  \/ \E j \in 1 .. n : replies[j].to = Changed /\ g <= replies[j].drawing.generation

NoticesInOrder ==
  /\ \A i \in DOMAIN replies : replies[i].to = Changed =>
       /\ sourceGeneration <= replies[i].drawing.generation
       /\ replies[i].drawing.generation <= generation
  /\ \A i, j \in DOMAIN replies : i < j /\ replies[i].to = Changed /\ replies[j].to = Changed
       => replies[i].drawing.generation <= replies[j].drawing.generation
  /\ \A i \in DOMAIN replies : replies[i].to \in Pages =>
       Announced(replies[i].drawing.generation, i)
  /\ IF alive THEN Announced(generation, Len(replies)) ELSE thread.at = "ended"
  /\ NoticeComesFirst /\ sourceGeneration <= generation

IInv == TypeOK /\ LooksBack /\ CallersOK /\ TreeRight /\ DrawingsRight /\ NoticesInOrder

=============================================================================
