---------------------------- MODULE PaneRegistry ----------------------------
(***************************************************************************)
(* The server's registry of panes (src.server/core.janet) and its records  *)
(* in the project's configuration file (config.janet 582-711), which the   *)
(* next server process recovers the terminals from.                        *)
(*                                                                         *)
(* A step runs from one yield of a fiber of the server to the next.  All   *)
(* changes of the registry and of the file are synchronous; a start and a  *)
(* shutdown yield while the client talks to the supervisor (TermClient).   *)
(* A supervisor is reduced to whether it lives.  The server may be killed  *)
(* between any two steps, and a websocket lost.  Titles are left out: they *)
(* are in the file only, and count in the generation only.                 *)
(*                                                                         *)
(* Over one websocket the requests about a pane come one after the other   *)
(* (its actor, see PaneStream).  Nothing orders those of two websockets,   *)
(* be they of two browsers or an old and a new one of the same page, and   *)
(* nobody looks whether a shutdown was acknowledged.  Terminals can be     *)
(* lost in both ways: such a pane is astray.  They are lost only in these  *)
(* and when the server is killed while it recovers (LivePanesKnown).       *)
(***************************************************************************)
EXTENDS Naturals, FiniteSets

CONSTANTS
  Callers,      \* browsers, which make the requests
  MaxId,        \* bound: panes 1..MaxId
  MaxServers,   \* bound: server processes, one after the other
  MaxChanges,   \* bound: changes of the registry in a server's life
  Viewed,       \* bound: panes in which documents are opened
  MaxCalls,     \* bound: starts and shutdowns under way at once
  Strays,       \* bound: panes that may go astray
  Killed        \* server states in which it may be killed

Ids == 1 .. MaxId
Harness == 1    \* the pane of a fresh start

ASSUME RegistryAssumption ==
  /\ MaxId \in Nat \ {0} /\ MaxServers \in Nat \ {0} /\ MaxChanges \in Nat
  /\ MaxCalls \in Nat
  /\ Viewed \subseteq Ids /\ Strays \subseteq Ids
  /\ Killed \subseteq {"recovering", "serving"}

VARIABLES
  server,       \* "down", "recovering" or "serving"
  epoch,        \* server processes so far; each has a token of its own
  left,         \* recorded terminals not yet probed
  panes,        \* panes and pane-sockets, which have the same keys
  documents,    \* the panes that show a document
  generation,   \* pane-generation
  record,       \* [Ids]: the fields recorded in the file
  live,         \* the panes at whose socket a supervisor listens
  calls,        \* starts and shutdowns that have arrived
  astray        \* history: panes that were last registered while other requests
                \* about them were under way, or about which requests over
                \* different websockets have overlapped since, or whose
                \* supervisor was given up while it lived

registryVars == <<panes, documents, generation, record>>
processVars == <<server, epoch, left>>
serverVars == <<registryVars, processVars, live, calls, astray>>

Fields == {"socket", "document"}
\* A request waits for its turn, its client asks the supervisor, which answers;
\* it is alone when the connection that it came over does not wait for it.
Call == [by : Callers, op : {"start", "shutdown"}, id : Ids,
         stage : {"queued", "asked", "answered"}, alone : BOOLEAN]
NewCall(b, what, pane, at, apart) ==
  [by |-> b, op |-> what, id |-> pane, stage |-> at, alone |-> apart]

ServerTypes ==
  /\ server \in {"down", "recovering", "serving"} /\ epoch \in 0 .. MaxServers
  /\ left \subseteq Ids /\ panes \subseteq Ids /\ documents \subseteq Ids
  /\ generation \in Nat /\ record \in [Ids -> SUBSET Fields]
  /\ live \subseteq Ids /\ calls \subseteq Call /\ astray \subseteq Ids

ServerInit ==
  /\ server = "down" /\ epoch = 0 /\ left = {}
  /\ panes = {} /\ documents = {} /\ generation = 0
  /\ record = [i \in Ids |-> {}]
  /\ live = {} /\ calls = {} /\ astray = {}
-----------------------------------------------------------------------------
(* The file: a field is recorded for exactly the panes that have a value.  *)

Recorded(field) == {i \in Ids : field \in record[i]}
RememberField(rec, field, ids) ==
  [i \in Ids |-> (rec[i] \ {field}) \cup (IF i \in ids THEN {field} ELSE {})]

RememberNone(rec, ids) == rec
RememberPanes(rec, ids) == RememberField(rec, "socket", ids)

\* pane-for and forget-pane.
PaneFor(id) ==
  IF id \in panes THEN UNCHANGED registryVars
  ELSE /\ panes' = panes \cup {id}
       /\ generation' = generation + 1
       /\ record' = RememberPanes(record, panes \cup {id})
       /\ UNCHANGED documents

ForgetSilently(id) ==
  /\ panes' = panes \ {id} /\ documents' = documents \ {id}
  /\ record' = RememberPanes(RememberField(record, "document", documents \ {id}),
                             panes \ {id})
  /\ UNCHANGED generation
ForgetSocket(id) ==
  /\ panes' = panes \ {id} /\ documents' = documents \ {id}
  /\ generation' = generation + 1
  /\ record' = RememberPanes(record, panes \ {id})
Forget(id) ==
  /\ panes' = panes \ {id} /\ documents' = documents \ {id}
  /\ generation' = generation + 1
  /\ record' = RememberPanes(
       IF id \in documents THEN RememberField(record, "document", documents \ {id})
                           ELSE record, panes \ {id})
-----------------------------------------------------------------------------
(* A server process.                                                       *)

\* It reads the recorded documents and the recorded terminals ...
Boot ==
  /\ server = "down" /\ epoch < MaxServers
  /\ server' = "recovering" /\ epoch' = epoch + 1
  /\ documents' = Recorded("document")
  /\ left' = Recorded("socket")
  /\ panes' = {} /\ generation' = 0
  /\ UNCHANGED <<record, live, calls, astray>>

\* ... takes up those that answer, in some order, recording what it has so
\* far, and removes the socket files of the others ...
Recover ==
  /\ server = "recovering"
  /\ \E id \in left :
       /\ left' = left \ {id}
       /\ IF id \in live THEN PaneFor(id) /\ astray' = astray \ {id}
                        ELSE UNCHANGED <<registryVars, astray>>
  /\ UNCHANGED <<server, epoch, live, calls>>

\* ... and serves; a server without panes starts the harness first.
Serve ==
  /\ server = "recovering" /\ left = {}
  /\ server' = "serving"
  /\ IF panes = {}
     THEN /\ panes' = {Harness} /\ generation' = generation + 1
          /\ record' = RememberPanes(record, {Harness})
          /\ live' = live \cup {Harness} /\ astray' = astray \ {Harness}
     ELSE /\ record' = RememberPanes(record, panes)
          /\ UNCHANGED <<panes, generation, live, astray>>
  /\ UNCHANGED <<epoch, left, documents, calls>>

\* The process goes: it is killed, Ctrl-D replaces it, or Ctrl-C shuts down
\* the terminals first, of which some may not answer.  Calls in progress are
\* lost.
Gone ==
  /\ server' = "down" /\ calls' = {} /\ left' = {}
  /\ panes' = {} /\ documents' = {} /\ generation' = 0
  /\ UNCHANGED <<epoch, record, astray>>
Kill == server \in Killed /\ Gone /\ UNCHANGED live
EndOfInput == server = "serving" /\ Gone /\ UNCHANGED live
Interrupt ==
  /\ server = "serving" /\ Gone
  /\ \E ended \in SUBSET (panes \cap live) : live' = live \ ended
-----------------------------------------------------------------------------
(* Requests.                                                               *)

About(id) == {c \in calls : c.id = id}
GoesAstray(id) == id \in Strays /\ astray' = astray \cup {id}

Room == Cardinality(calls) < MaxCalls
Changing == server = "serving" /\ generation < MaxChanges

\* "start": the pane is registered and recorded before its client is asked.
StartBegins(b, id, apart) ==
  LET call == NewCall(b, "start", id, "asked", apart) IN
  /\ Changing /\ Room /\ call \notin calls
  /\ \/ About(id) = {} /\ astray' = astray \ {id}
     \/ About(id) # {} /\ GoesAstray(id)
  /\ PaneFor(id)
  /\ calls' = calls \cup {call}
  /\ UNCHANGED <<processVars, live>>

\* The client finds or spawns the supervisor, which starts a new session ...
Starts(c) ==
  /\ c \in calls /\ c.op = "start"
  /\ live' = live \cup {c.id}
  /\ UNCHANGED <<registryVars, processVars, calls, astray>>

\* ... and replies, or it fails; a client that gives up has no power over what
\* the supervisor it has spawned does later.
StartEnds(c) ==
  /\ c \in calls /\ c.op = "start"
  /\ \/ calls' = calls \ {c} /\ UNCHANGED astray
     \/ calls' = (calls \ {c}) \cup {[c EXCEPT !.alone = TRUE]} /\ GoesAstray(c.id)
  /\ UNCHANGED <<registryVars, processVars, live>>

\* "shutdown" waits for its turn at the pane's actor ...
ShutdownArrives(b, id, apart) ==
  LET call == NewCall(b, "shutdown", id, "queued", apart) IN
  /\ server = "serving" /\ Room /\ call \notin calls
  /\ LET inOrder == \A c \in About(id) :
                       c.op = "start" /\ c.by = b /\ ~c.alone /\ ~apart
     IN \/ inOrder /\ UNCHANGED astray
        \/ ~inOrder /\ GoesAstray(id)
  /\ calls' = calls \cup {call}
  /\ UNCHANGED <<registryVars, processVars, live>>

\* ... behind the start that came over the same connection ...
AtOnce(c) == TRUE
InTurn(c) ==
  \A d \in calls : d.op = "start" /\ d.by = c.by /\ d.id = c.id => d.alone
Takes(c) == c \in calls /\ c.op = "shutdown" /\ c.stage = "queued" /\ InTurn(c)

\* ... and finds the pane gone, which is answered at once, or asks its client.
ShutdownAbsent(c) ==
  /\ Takes(c) /\ c.id \notin panes
  /\ calls' = calls \ {c}
  /\ UNCHANGED <<registryVars, processVars, live, astray>>
ShutdownBegins(c) ==
  /\ Takes(c) /\ c.id \in panes
  /\ calls' = (calls \ {c}) \cup {[c EXCEPT !.stage = "asked"]}
  /\ UNCHANGED <<registryVars, processVars, live, astray>>

\* The supervisor acknowledges and ends.
ShutsDown(c) ==
  /\ c \in calls /\ c.op = "shutdown" /\ c.stage = "asked" /\ c.id \in live
  /\ live' = live \ {c.id}
  /\ calls' = (calls \ {c}) \cup {[c EXCEPT !.stage = "answered"]}
  /\ UNCHANGED <<registryVars, processVars, astray>>

\* The pane is forgotten whatever the client got: the acknowledgement, nobody
\* at the socket, or nothing from a supervisor that lives.
ShutdownEnds(c) ==
  /\ c \in calls /\ c.op = "shutdown" /\ c.stage # "queued"
  /\ \/ (c.stage = "answered" \/ c.id \notin live) /\ UNCHANGED astray
     \/ c.stage = "asked" /\ c.id \in live /\ GoesAstray(c.id)
  /\ Forget(c.id)
  /\ calls' = calls \ {c}
  /\ UNCHANGED <<processVars, live>>

\* A websocket is lost: what is queued is dropped, what is under way goes on.
SocketLost(b) ==
  LET own == {c \in calls : c.by = b /\ ~c.alone} IN
  /\ own # {}
  /\ calls' = (calls \ own) \cup
       {[c EXCEPT !.alone = TRUE] : c \in {d \in own : d.stage # "queued"}}
  /\ UNCHANGED <<registryVars, processVars, live, astray>>

\* `vz file` in a pane's shell: document_open on the control socket.
OpenDocument(id) ==
  /\ Changing /\ id \in panes \cap Viewed \cap live
  /\ documents' = documents \cup {id}
  /\ record' = RememberField(record, "document", documents \cup {id})
  /\ generation' = generation + 1
  /\ UNCHANGED <<panes, processVars, live, calls, astray>>

\* A supervisor is killed from outside.
Dies(id) ==
  /\ id \in live
  /\ live' = live \ {id}
  /\ UNCHANGED <<registryVars, processVars, calls, astray>>

GoesDown == Kill \/ EndOfInput \/ Interrupt

\* What else happens without a browser.
ServerNext ==
  \/ Boot \/ Recover
  \/ \E c \in calls : Starts(c) \/ StartEnds(c) \/ ShutdownBegins(c) \/ ShutsDown(c)
  \/ \E b \in Callers : SocketLost(b)
  \/ \E id \in Ids : OpenDocument(id) \/ Dies(id)
-----------------------------------------------------------------------------
(* What makes the registry correct.                                        *)

\* A terminal that lives can be found, unless its pane has gone astray: it is
\* registered or will be probed, or the next server finds it in the file, whenever
\* this one is killed, and however a close, the start it waits for and the loss of
\* their websocket follow each other; nothing else runs that no Ctrl-C and no close
\* can reach (127-150, 158-164, 306-326, 376-391).
LivePanesKnown ==
  \A i \in live \ astray :
    CASE server = "serving" -> i \in panes \cap Recorded("socket")
      [] server = "recovering" -> i \in panes \cup left
      [] server = "down" -> i \in Recorded("socket")

\* The file says what the registry says, after every request of any order
\* (121-125, 142-150, 191-202).
RecordsMatch ==
  server = "serving" =>
    Recorded("socket") = panes /\ Recorded("document") = documents
-----------------------------------------------------------------------------
(* Why they hold.                                                          *)

\* Requests are lost with the server, which is numbered when it starts, and
\* serves when it has probed all terminals.
ProcessOK ==
  /\ server # "serving" => calls = {}
  /\ server # "down" => epoch # 0
  /\ server # "recovering" => left = {}

\* A server that recovers has read the documents, and records what it takes up.
RecoveryOK == server = "recovering" => Recorded("document") = documents

\* A pane that is being started is registered, and its shutdown, the only one there
\* is, waits for it; nobody listens at a pane whose shutdown was acknowledged;
\* unless the pane has gone astray.
StartsOK ==
  /\ \A c \in calls : c.op = "start" => c.id \in panes \cup astray
  /\ \A c, d \in calls :
       c.op = "shutdown" /\ d.op = "start" /\ c.id = d.id /\ c.id \notin astray =>
         c.stage = "queued" /\ d.by = c.by /\ ~c.alone /\ ~d.alone
  /\ \A c, d \in calls :
       c.op = "shutdown" /\ d.op = "shutdown" /\ c.id = d.id /\ c.id \notin astray => c = d
  /\ \A c \in calls :
       c.stage = "answered" => c.op = "shutdown" /\ (c.id \notin live \/ c.id \in astray)

RegistryInv ==
  ServerTypes /\ ProcessOK /\ RecoveryOK /\ StartsOK /\ RecordsMatch
=============================================================================
