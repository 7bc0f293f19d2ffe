----------------------------- MODULE Workspace -----------------------------
(***************************************************************************)
(* The panes a browser shows (src/web/panes/workspace.js), how it starts   *)
(* and closes them (terminal/content.js) and how it follows the server's   *)
(* registry (shared/watch.js, /panes/watch), composed with PaneRegistry.   *)
(*                                                                         *)
(* Several browsers show the same project.  Each numbers the terminals it  *)
(* opens by itself, polls the registry over HTTP, and starts and closes    *)
(* panes over its websocket, so that the two race each other.  A request   *)
(* of the page ends when it is answered, refused or timed out or when the  *)
(* websocket is lost, whatever becomes of it at the server.                *)
(***************************************************************************)
EXTENDS PaneRegistry, FiniteSetsExt

CONSTANTS
  Browsers,     \* the browsers whose pages are modelled; the other callers
                \* start and close panes as they like
  Shared        \* bound: panes that the other callers start and close

ASSUME WorkspaceAssumption == Browsers \subseteq Callers /\ Shared \subseteq Ids

VARIABLES
  token,        \* [Browsers]: the server process window.TOKEN is of, 0: no page
  panels,       \* [Browsers]: the panes shown
  remote,       \* [Browsers]: ids of the last update
  closing,      \* [Browsers]: what has become of the panes it closed
  booting,      \* [Browsers]: what the boot of a pane it opened waits for
  nextId,       \* [Browsers]: the number of its last terminal
  reply,        \* [Browsers]: an answer of the watch on its way, or NoReply
  seen,         \* history, [Browsers]: generation of the last update, and
                \* the process that said so
  buried        \* history, [Browsers]: panes it closed that nobody has
                \* started since

pageVars == <<panels, remote, closing, booting, nextId>>
browserVars == <<token, pageVars, reply, seen, buried>>
vars == <<serverVars, browserVars>>

Closing == {"no", "pending", "sent", "answered", "finished"}
Seen == [generation : Nat, from : 0 .. MaxServers]
Reply == [ids : SUBSET Ids, generation : Nat, from : 0 .. MaxServers]
NoReply == [ids |-> {}, generation |-> 0, from |-> 0]
NotSeen == [generation |-> 0, from |-> 0]

PageTypes ==
  /\ token \in [Browsers -> 0 .. MaxServers]
  /\ panels \in [Browsers -> SUBSET Ids] /\ remote \in [Browsers -> SUBSET Ids]
  /\ closing \in [Browsers -> [Ids -> Closing]]
  /\ booting \in [Browsers -> [Ids -> {"no", "look", "start"}]]
  /\ nextId \in [Browsers -> Ids]
  /\ reply \in [Browsers -> Reply] /\ seen \in [Browsers -> Seen]
  /\ buried \in [Browsers -> SUBSET Ids]

TypeOK == ServerTypes /\ PageTypes

Init ==
  /\ ServerInit
  /\ token = [b \in Browsers |-> 0]
  /\ panels = [b \in Browsers |-> {}] /\ remote = [b \in Browsers |-> {}]
  /\ closing = [b \in Browsers |-> [i \in Ids |-> "no"]]
  /\ booting = [b \in Browsers |-> [i \in Ids |-> "no"]]
  /\ nextId = [b \in Browsers |-> 1]
  /\ reply = [b \in Browsers |-> NoReply] /\ seen = [b \in Browsers |-> NotSeen]
  /\ buried = [b \in Browsers |-> {}]

\* A page has a token of the process before it connects to it.
Serving(b) == server = "serving" /\ token[b] # 0
Connected(b) == server = "serving" /\ token[b] = epoch
-----------------------------------------------------------------------------
(* The page.                                                               *)

\* It is loaded, and loaded again after a restart, with the panes there are.
Load(b) ==
  /\ server = "serving" /\ token[b] # epoch
  /\ token' = [token EXCEPT ![b] = epoch]
  /\ panels' = [panels EXCEPT ![b] = panes]
  /\ remote' = [remote EXCEPT ![b] = {}]
  /\ closing' = [closing EXCEPT ![b] = [i \in Ids |-> "no"]]
  /\ booting' = [booting EXCEPT ![b] = [i \in Ids |-> "no"]]
  /\ nextId' = [nextId EXCEPT ![b] = Max(panes \cup {1})]
  /\ reply' = [reply EXCEPT ![b] = NoReply]
  /\ seen' = [seen EXCEPT ![b] = NotSeen]
  /\ buried' = [buried EXCEPT ![b] = {}]
  /\ UNCHANGED serverVars

\* openTerminal: a panel under the next number; its content boots.
NumberSkipped(b) == nextId[b] + 2
Number(b) == nextId[b] + 1
OpenTerminal(b) ==
  /\ token[b] # 0 /\ nextId[b] < MaxId
  /\ LET id == Number(b) IN
       /\ nextId' = [nextId EXCEPT ![b] = id]
       /\ IF id \in panels[b]
          THEN UNCHANGED <<panels, booting>>
          ELSE /\ panels' = [panels EXCEPT ![b] = @ \cup {id}]
               /\ booting' = [booting EXCEPT ![b][id] = "look"]
  /\ UNCHANGED <<serverVars, token, remote, closing, reply, seen, buried>>

Settled(b, id) == booting' = [booting EXCEPT ![b][id] = "no"]

\* boot asks for the screen first: a pane that was closed meanwhile is left
\* alone, one that runs is only shown ...
BootEnds(b, id) ==
  /\ booting[b][id] = "look"
  /\ id \notin panels[b] \/ (Connected(b) /\ id \in panes)
  /\ Settled(b, id)
  /\ UNCHANGED <<serverVars, token, panels, remote, closing, nextId, reply,
                 seen, buried>>

\* ... and one that does not is started.
BootStarts(b, id) ==
  /\ booting[b][id] = "look" /\ id \in panels[b]
  /\ Connected(b) /\ id \notin panes \cap live
  /\ StartBegins(b, id, FALSE)
  /\ booting' = [booting EXCEPT ![b][id] = "start"]
  /\ buried' = [c \in Browsers |-> buried[c] \ {id}]
  /\ UNCHANGED <<token, panels, remote, closing, nextId, reply, seen>>

\* The page has an answer, the request has timed out or the websocket is lost;
\* the start may still be under way.
BootAnswered(b, id) ==
  /\ booting[b][id] = "start"
  /\ Settled(b, id)
  /\ UNCHANGED <<serverVars, token, panels, remote, closing, nextId, reply,
                 seen, buried>>

\* closePanel by the user.
ClosePanel(b, id) ==
  /\ id \in panels[b]
  /\ panels' = [panels EXCEPT ![b] = @ \ {id}]
  /\ closing' = [closing EXCEPT ![b][id] = "pending"]
  /\ buried' = [buried EXCEPT ![b] = @ \cup {id}]
  /\ UNCHANGED <<serverVars, token, remote, booting, nextId, reply, seen>>

\* panel.stop waits until the boot has settled, and then asks for the shutdown;
\* an answer, an error, a timeout (15 s) and a lost websocket all end it.
StopAsks(b, id) ==
  /\ closing[b][id] = "pending" /\ booting[b][id] = "no"
  /\ Connected(b) /\ ShutdownArrives(b, id, FALSE)
  /\ closing' = [closing EXCEPT ![b][id] = "sent"]
  /\ UNCHANGED <<token, panels, remote, booting, nextId, reply, seen, buried>>

StopAnswered(c) ==
  /\ ShutdownAbsent(c) \/ ShutdownEnds(c)
  /\ closing' = [b \in Browsers |-> [i \in Ids |->
       IF b = c.by /\ i = c.id /\ ~c.alone /\ closing[b][i] = "sent"
       THEN "answered" ELSE closing[b][i]]]
  /\ UNCHANGED <<token, panels, remote, booting, nextId, reply, seen, buried>>

\* Bound on delays: no answer of the watch is on its way for as long as it takes
\* a request that is not answered to fail.
NothingUnderWay(b) == reply[b] = NoReply
StopEnds(b, id) ==
  /\ \/ closing[b][id] = "answered"
     \/ closing[b][id] = "sent" /\ NothingUnderWay(b)
     \/ closing[b][id] = "pending" /\ booting[b][id] = "no" /\ NothingUnderWay(b)
  /\ closing' = [closing EXCEPT ![b][id] = "finished"]
  /\ UNCHANGED <<serverVars, token, panels, remote, booting, nextId, reply,
                 seen, buried>>
-----------------------------------------------------------------------------
(* The watch.                                                              *)

\* The server answers when its generation is another one, and after 25 s.
WatchReplies(b) ==
  /\ Connected(b) /\ reply[b] = NoReply
  /\ reply' = [reply EXCEPT ![b] =
       [ids |-> panes, generation |-> generation, from |-> epoch]]
  /\ UNCHANGED <<serverVars, token, pageVars, seen, buried>>

\* A new process has a new token, which the page asks for when its websocket
\* connects again or its watch is refused.
RefreshSession(b) ==
  /\ Serving(b) /\ token[b] # epoch
  /\ token' = [token EXCEPT ![b] = epoch]
  /\ UNCHANGED <<serverVars, pageVars, reply, seen, buried>>

\* syncPanes.  Panes being closed here are not wanted, until an update
\* without them arrives after the shutdown has ended.
Unfinished(b, ids) == {i \in Ids : closing[b][i] \notin {"no", "finished"}}
Excluded(b, ids) == {i \in Ids : closing[b][i] # "no"}
SyncPanes(b) ==
  LET ids == reply[b].ids
      wanted == ids \ Excluded(b, ids)
      shut == {i \in remote[b] : i \notin wanted} IN
  /\ reply[b] # NoReply
  /\ reply' = [reply EXCEPT ![b] = NoReply]
  /\ seen' = [seen EXCEPT ![b] =
                [generation |-> reply[b].generation, from |-> reply[b].from]]
  /\ closing' = [closing EXCEPT ![b] = [i \in Ids |->
       IF @[i] = "finished" /\ i \notin ids THEN "no" ELSE @[i]]]
  /\ panels' = [panels EXCEPT ![b] = (@ \ shut) \cup wanted]
  /\ remote' = [remote EXCEPT ![b] = wanted]
  /\ nextId' = [nextId EXCEPT ![b] = Max(wanted \cup {@})]
  /\ UNCHANGED <<serverVars, token, booting, buried>>
-----------------------------------------------------------------------------
\* Other browsers, with a websocket each, start panes that do not run, and close
\* some.
OtherStarts(o, id) ==
  /\ id \notin panes \cap live /\ StartBegins(o, id, TRUE)
  /\ buried' = [b \in Browsers |-> buried[b] \ {id}]
  /\ UNCHANGED <<token, pageVars, reply, seen>>
OtherCloses(o, id) == ShutdownArrives(o, id, TRUE) /\ UNCHANGED browserVars

\* With the server goes an answer of the watch that is on its way: the fetch
\* fails.  (That it still arrives is that it has arrived before.)
ServerGoes ==
  /\ GoesDown
  /\ reply' = [b \in Browsers |-> NoReply]
  /\ UNCHANGED <<token, pageVars, seen, buried>>

\* A fresh server starts the harness.
ServesFresh ==
  /\ Serve
  /\ buried' = [b \in Browsers |-> buried[b] \ (panes' \ panes)]
  /\ UNCHANGED <<token, pageVars, reply, seen>>

Next ==
  \/ ServerNext /\ UNCHANGED browserVars
  \/ ServerGoes \/ ServesFresh
  \/ \E o \in Callers \ Browsers, id \in Shared : OtherStarts(o, id) \/ OtherCloses(o, id)
  \/ \E c \in calls : StopAnswered(c)
  \/ \E b \in Browsers :
       \/ Load(b) \/ OpenTerminal(b)
       \/ WatchReplies(b) \/ RefreshSession(b) \/ SyncPanes(b)
       \/ \E id \in Ids :
            \/ BootEnds(b, id) \/ BootStarts(b, id) \/ BootAnswered(b, id)
            \/ ClosePanel(b, id) \/ StopAsks(b, id) \/ StopEnds(b, id)

Spec == Init /\ [][Next]_vars
-----------------------------------------------------------------------------
(* What makes the workspace correct.                                       *)

\* docs/panes.md:3: a pane the user closed does not come back, however its
\* start, its shutdown and the watch's answers overtake each other, unless
\* somebody starts it again (workspace.js 32-44, 97-114).
ClosedStaysClosed == \A b \in Browsers : panels[b] \cap buried[b] = {}

\* A browser that has seen the present generation wants the present panes:
\* no change of the registry goes by without a new generation
\* (core.janet 116, 137, 149, 479-488).
WatchTruth ==
  \A b \in Browsers :
    seen[b] = [generation |-> generation, from |-> epoch]
      /\ server = "serving" =>
      LET closed == Excluded(b, {}) IN remote[b] \ closed = panes \ closed
-----------------------------------------------------------------------------
(* Why they hold.                                                          *)

\* A terminal opened next has a number that the page has not used yet.
NumbersOK ==
  \A b \in Browsers, i \in Ids :
    \/ i \in panels[b] \cup buried[b] \/ closing[b][i] # "no"
      \/ booting[b][i] # "no"
    => i <= nextId[b]

\* An answer of the watch is of the process that serves, and up to date if its
\* generation is; what a page has seen is not newer than the registry.
WatchOK ==
  \A b \in Browsers :
    /\ reply[b] # NoReply =>
         server = "serving" /\ token[b] # 0 /\ reply[b].from = epoch
           /\ reply[b].generation <= generation
    /\ reply[b] # NoReply /\ reply[b].generation = generation => reply[b].ids = panes
    /\ seen[b].from <= epoch
    /\ seen[b].from = epoch /\ server = "serving" => seen[b].generation <= generation
    /\ server = "recovering" => seen[b].from # epoch

\* Once an update has come without a pane that was closed, that pane is gone
\* from the registry and the file, and no answer on its way names it ...
BuriedGone ==
  \A b \in Browsers : \A i \in buried[b] :
    closing[b][i] = "no" =>
      i \notin panes \cup left \cup Recorded("socket") \cup reply[b].ids

\* ... which an answer without the pane says when its shutdown has ended.
BuriedAnswered ==
  \A b \in Browsers : \A i \in buried[b] :
    /\ reply[b] # NoReply /\ i \notin reply[b].ids
    /\ closing[b][i] \in {"answered", "finished"}
    => i \notin panes

PageInv ==
  /\ PageTypes /\ NumbersOK /\ WatchOK /\ WatchTruth
  /\ BuriedGone /\ BuriedAnswered /\ ClosedStaysClosed

IInv == RegistryInv /\ PageInv
=============================================================================
