----------------------------- MODULE TermClient -----------------------------
(***************************************************************************)
(* The server's client of one terminal (src.server/term/client.janet) and  *)
(* the supervisor processes that may listen on the terminal's socket path  *)
(* (host.janet 396-464 and the spawning in client.janet 87-115).           *)
(*                                                                         *)
(* The server's fibers share one pinned connection and take turns on it; a *)
(* request that waits for output uses a parked connection of its own.  A   *)
(* talk that fails drops the pinned connection and, unless it was input,   *)
(* is tried once more, on a new supervisor if it is part of a start.       *)
(*                                                                         *)
(* A step runs from one yield of a fiber to the next: fibers yield for a   *)
(* turn, for a connection, while a supervisor starts, and for a reply.     *)
(***************************************************************************)
EXTENDS Naturals, Sequences, FiniteSets

CONSTANTS
  Calls,        \* calls of the client's methods, each by a fiber of its own
  Kinds,        \* the methods that are called
  MaxSups,      \* bound: supervisor processes at a time
  MaxLinks,     \* bound: connections open at a time
  MaxCrashes,   \* bound: supervisors killed from outside
  MaxTimeouts   \* bound: replies that miss the 10 s deadline

Methods == {"state", "input", "start", "wait", "close", "interrupt"}

ASSUME ClientAssumption ==
  /\ Kinds \subseteq Methods
  /\ MaxSups \in Nat \ {0} /\ MaxLinks \in Nat
  /\ MaxCrashes \in Nat /\ MaxTimeouts \in Nat

Sups == 1 .. MaxSups
Links == 1 .. MaxLinks

VARIABLES
  busy,         \* turn :busy
  waiting,      \* turn :waiting, the calls whose tickets are out
  pinned,       \* the shared connection, 0 for nil
  parked,       \* parked-conn, 0 for nil
  parkedBusy,   \* parked-busy
  pc,           \* [Calls]: where the call's fiber is
  kind,         \* [Calls]: the method called
  op,           \* [Calls]: the message it is sending now
  attempt,      \* [Calls]: 1, or 2 after the first talk failed
  on,           \* [Calls]: the connection it talks on
  got,          \* [Calls]: the last reply it read, or NoReply
  kept,         \* is the pane in the server's registry?
  stopping,     \* the server was told to stop
  gone          \* the server process has exited

VARIABLES
  sup,          \* [Sups]: state of a supervisor process
  session,      \* [Sups]: does it run a shell?
  path,         \* whose socket the path names, 0 if there is none
  link,         \* [Links]: connections
  handled,      \* history, [Calls]: times its input or start was carried out
  late,         \* history: has ensure stopped waiting before a supervisor it
                \* spawned listened, or has one bound the path before the one
                \* that had closed its server exited?
  crashes,      \* bound counter
  timeouts      \* bound counter

turnVars == <<busy, waiting, pinned>>
parkVars == <<parked, parkedBusy>>
callVars == <<pc, kind, op, attempt, on, got>>
serverVars == <<kept, stopping, gone>>
supVars == <<sup, session, path>>
countVars == <<crashes, timeouts>>
vars == <<turnVars, parkVars, callVars, serverVars, supVars, link, handled,
          late, countVars>>

Request == [call : Calls, op : {"probe", "start", "state", "input", "wait", "shutdown"}]
NoReply == [call |-> "none", op |-> "none"]
Link == [to : 0 .. MaxSups, open : BOOLEAN, inbox : Seq(Request),
         work : Seq(Request), outbox : Seq(Request)]
NoLink == [to |-> 0, open |-> FALSE, inbox |-> <<>>, work |-> <<>>, outbox |-> <<>>]

\* Connections no longer in use by either end.
FreeLinks ==
  {l \in Links : /\ ~link[l].open /\ link[l].inbox = <<>> /\ link[l].work = <<>>
                 /\ \A k \in Calls : pc[k] = "talk" => on[k] # l}

TypeOK ==
  /\ busy \in BOOLEAN /\ waiting \in Seq(Calls)
  /\ pinned \in 0 .. MaxLinks /\ parked \in 0 .. MaxLinks
  /\ parkedBusy \in BOOLEAN
  /\ pc \in [Calls -> {"idle", "queued", "turn", "ensure", "talk", "park",
                       "exiting", "done"}]
  /\ kind \in [Calls -> Methods \cup {"none"}]
  /\ op \in [Calls -> {"none", "probe", "start", "state", "input", "wait", "shutdown"}]
  /\ attempt \in [Calls -> 1 .. 2] /\ on \in [Calls -> 0 .. MaxLinks]
  /\ got \in [Calls -> Request \cup {NoReply}]
  /\ kept \in BOOLEAN /\ stopping \in BOOLEAN /\ gone \in BOOLEAN
  /\ sup \in [Sups -> {"none", "booting", "binding", "up", "closing", "closed", "dead"}]
  /\ session \in [Sups -> BOOLEAN] /\ path \in 0 .. MaxSups
  /\ link \in [Links -> Link]
  /\ handled \in [Calls -> Nat] /\ late \in BOOLEAN
  /\ crashes \in 0 .. MaxCrashes /\ timeouts \in 0 .. MaxTimeouts

Init ==
  /\ busy = FALSE /\ waiting = <<>> /\ pinned = 0
  /\ parked = 0 /\ parkedBusy = FALSE
  /\ pc = [k \in Calls |-> "idle"] /\ kind = [k \in Calls |-> "none"]
  /\ op = [k \in Calls |-> "none"] /\ attempt = [k \in Calls |-> 1]
  /\ on = [k \in Calls |-> 0] /\ got = [k \in Calls |-> NoReply]
  /\ kept = TRUE /\ stopping = FALSE /\ gone = FALSE
  \* the pane is new, or its supervisor was found alive at startup
  /\ \E found \in BOOLEAN :
       /\ sup = [s \in Sups |-> IF found /\ s = 1 THEN "up" ELSE "none"]
       /\ session = [s \in Sups |-> found /\ s = 1]
       /\ path = IF found THEN 1 ELSE 0
  /\ link = [l \in Links |-> NoLink]
  /\ handled = [k \in Calls |-> 0] /\ late = FALSE
  /\ crashes = 0 /\ timeouts = 0
-----------------------------------------------------------------------------
(* The turn.                                                               *)

FirstOp(m) ==
  CASE m = "start" -> "probe"
    [] m \in {"close", "interrupt"} -> "shutdown"
    [] OTHER -> m

Listening(s) == s # 0 /\ sup[s] \in {"up", "closing"}
Closed(ln, l) == IF l = 0 THEN ln ELSE [ln EXCEPT ![l].open = FALSE]

\* give-turn: the first ticket, or nobody.
GiveTurnFreed ==
  /\ busy' = FALSE
  /\ waiting' = IF waiting = <<>> THEN <<>> ELSE Tail(waiting)
GiveTurn ==
  /\ busy' = (waiting # <<>>)
  /\ waiting' = IF waiting = <<>> THEN <<>> ELSE Tail(waiting)
PassToNobody(p) == p
PassTo(p) == IF waiting = <<>> THEN p ELSE [p EXCEPT ![Head(waiting)] = "turn"]

\* take-turn for a message.
AskAtOnce(k, message) ==
  /\ op' = [op EXCEPT ![k] = message]
  /\ attempt' = [attempt EXCEPT ![k] = 1]
  /\ busy' = TRUE
  /\ pc' = [pc EXCEPT ![k] = "turn"]
  /\ UNCHANGED waiting
Ask(k, message) ==
  /\ op' = [op EXCEPT ![k] = message]
  /\ attempt' = [attempt EXCEPT ![k] = 1]
  /\ IF busy
     THEN /\ waiting' = Append(waiting, k)
          /\ pc' = [pc EXCEPT ![k] = "queued"]
          /\ UNCHANGED busy
     ELSE /\ busy' = TRUE
          /\ pc' = [pc EXCEPT ![k] = "turn"]
          /\ UNCHANGED waiting

\* A method is called.  Nothing starts once the pane was forgotten or the
\* server is stopping.
Call(k, m) ==
  /\ ~gone /\ pc[k] = "idle" /\ kept /\ ~stopping
  /\ kind' = [kind EXCEPT ![k] = m]
  /\ stopping' = (m = "interrupt")
  /\ IF m = "wait"
     THEN /\ pc' = [pc EXCEPT ![k] = "park"]
          /\ op' = [op EXCEPT ![k] = "wait"]
          /\ UNCHANGED <<busy, waiting, attempt>>
     ELSE Ask(k, FirstOp(m))
  /\ UNCHANGED <<pinned, parkVars, on, got, kept, gone, supVars, link,
                 handled, late, countVars>>

\* Connect to s and send the message of k there.
TalkOnNew(k, s, l) ==
  /\ \A m \in FreeLinks : l <= m
  /\ link' = [link EXCEPT ![l] =
                [NoLink EXCEPT !.to = s, !.open = TRUE,
                               !.inbox = <<[call |-> k, op |-> op[k]]>>]]
  /\ on' = [on EXCEPT ![k] = l]
  /\ pc' = [pc EXCEPT ![k] = "talk"]
TalkOn(k, l) ==
  /\ link' = [link EXCEPT ![l].inbox = Append(@, [call |-> k, op |-> op[k]])]
  /\ on' = [on EXCEPT ![k] = l]
  /\ pc' = [pc EXCEPT ![k] = "talk"]

\* The call is over with nil for a reply; a failed shutdown still forgets.
\* :shutdown and forget-pane drop the connections whoever is using them.
Finish(k, ln, left) ==
  /\ GiveTurn
  /\ IF op[k] = "shutdown"
     THEN /\ link' = Closed(Closed(ln, left), parked)
          /\ pinned' = 0 /\ parked' = 0
          /\ kept' = (kept /\ kind[k] # "close")
          /\ pc' = PassTo([pc EXCEPT
               ![k] = IF kind[k] = "interrupt" THEN "exiting" ELSE "done"])
     ELSE /\ link' = ln /\ pinned' = left
          /\ pc' = PassTo([pc EXCEPT ![k] = "done"])
          /\ UNCHANGED <<parked, kept>>

\* With the turn and a pinned connection: talk.
UsePinned(k) ==
  /\ pc[k] = "turn" /\ pinned # 0
  /\ TalkOn(k, pinned)
  /\ UNCHANGED <<turnVars, parkVars, kind, op, attempt, got, serverVars,
                 supVars, handled, late, countVars>>

\* Without one: connect.
Connect(k) ==
  /\ pc[k] \in {"turn", "ensure"} /\ pinned = 0 /\ Listening(path)
  /\ \E l \in FreeLinks : TalkOnNew(k, path, l) /\ pinned' = l
  /\ UNCHANGED <<busy, waiting, parkVars, kind, op, attempt, got,
                 serverVars, supVars, handled, late, countVars>>

\* Processes that are not there, or no longer and forgotten by the client.
SpareSups ==
  {s \in Sups : sup[s] \in {"none", "dead"}
                /\ \A l \in Links : link[l].to = s => ~link[l].open}
Starts(k) == op[k] \in {"probe", "start"}

\* Nobody listens: a start removes the path and spawns a supervisor ...
Spawn(k) ==
  /\ pc[k] = "turn" /\ pinned = 0 /\ ~Listening(path) /\ Starts(k)
  /\ \E s \in SpareSups : /\ \A r \in SpareSups : s <= r
                          /\ sup' = [sup EXCEPT ![s] = "booting"]
  /\ path' = 0
  /\ pc' = [pc EXCEPT ![k] = "ensure"]
  /\ UNCHANGED <<turnVars, parkVars, kind, op, attempt, on, got, serverVars,
                 session, link, handled, late, countVars>>

\* ... anything else gives up, as does a start after thirty attempts.
GiveUp(k) ==
  /\ \/ pc[k] = "turn" /\ pinned = 0 /\ ~Listening(path) /\ ~Starts(k)
     \/ pc[k] = "ensure" /\ ~Listening(path)
  /\ late' = (late \/ (pc[k] = "ensure"
                      /\ \E s \in Sups : sup[s] \in {"booting", "binding"}))
  /\ got' = [got EXCEPT ![k] = NoReply]
  /\ Finish(k, link, 0)
  /\ UNCHANGED <<parkedBusy, kind, op, attempt, on, stopping, gone, supVars,
                 handled, countVars>>

Turned(k) == op[k] # "wait"

\* A reply is there.  :start asks twice, :state is probed first.
TalkReplies(k) ==
  LET l == on[k]
      read == [link EXCEPT ![l].outbox = Tail(@)] IN
  /\ pc[k] = "talk" /\ Turned(k)
  /\ link[l].open /\ link[l].outbox # <<>>
  /\ got' = [got EXCEPT ![k] = Head(link[l].outbox)]
  /\ IF op[k] = "probe"
     THEN /\ op' = [op EXCEPT ![k] = "start"]
          /\ attempt' = [attempt EXCEPT ![k] = 1]
          /\ link' = read
          /\ IF waiting = <<>>
             THEN pc' = [pc EXCEPT ![k] = "turn"] /\ UNCHANGED <<busy, waiting>>
             ELSE /\ pc' = [PassTo(pc) EXCEPT ![k] = "queued"]
                  /\ waiting' = Append(Tail(waiting), k)
                  /\ UNCHANGED busy
          /\ UNCHANGED <<pinned, parked, kept>>
     ELSE Finish(k, read, pinned) /\ UNCHANGED <<op, attempt>>
  /\ UNCHANGED <<parkedBusy, kind, on, stopping, gone, supVars, handled,
                 late, countVars>>

\* The other end is dead, this end was closed, or the deadline has passed.
Broken(k) ==
  LET l == on[k] IN
  \/ ~link[l].open /\ UNCHANGED timeouts
  \/ sup[link[l].to] = "dead" /\ link[l].outbox = <<>> /\ UNCHANGED timeouts
  \/ timeouts < MaxTimeouts /\ timeouts' = timeouts + 1

\* All but input is tried a second time, on another connection.
TriesOn(k) == op[k] # "input"
TriesInput(k) == attempt[k] = 1
TriesAgain(k) == attempt[k] = 1 /\ op[k] # "input"
KeepPinned == UNCHANGED <<link, pinned>>
DropPinned == link' = Closed(link, pinned) /\ pinned' = 0

\* A failed talk drops the pinned connection; all but input is tried again.
TalkFails(k) ==
  /\ pc[k] = "talk" /\ Turned(k) /\ Broken(k)
  /\ IF TriesAgain(k)
     THEN /\ DropPinned
          /\ attempt' = [attempt EXCEPT ![k] = @ + 1]
          /\ pc' = [pc EXCEPT ![k] = "turn"]
          /\ UNCHANGED <<busy, waiting, parked, kept, got>>
     ELSE /\ got' = [got EXCEPT ![k] = NoReply]
          /\ Finish(k, Closed(link, pinned), 0)
          /\ UNCHANGED attempt
  /\ UNCHANGED <<parkedBusy, kind, op, on, stopping, gone, supVars, handled,
                 late, crashes>>
-----------------------------------------------------------------------------
(* park-talk: the connection of the screen requests that wait.             *)

\* Its owner talks on the parked connection, anybody else on one of its own.
Park(k) ==
  /\ pc[k] = "park" /\ ~gone
  /\ IF parkedBusy \/ parked = 0
     THEN IF Listening(path)
          THEN /\ \E l \in FreeLinks :
                    /\ TalkOnNew(k, path, l)
                    /\ parked' = IF parkedBusy THEN parked ELSE l
               /\ parkedBusy' = TRUE
          ELSE /\ pc' = [pc EXCEPT ![k] = "done"]
               /\ UNCHANGED <<parkVars, on, link>>
     ELSE TalkOn(k, parked) /\ parkedBusy' = TRUE /\ UNCHANGED parked
  /\ attempt' = [attempt EXCEPT ![k] = IF parkedBusy THEN 2 ELSE 1]
  /\ UNCHANGED <<turnVars, kind, op, got, serverVars, supVars, handled,
                 late, countVars>>

\* attempt = 1 marks the owner.  A failure closes what is parked then.
ParkedReplies(k) ==
  LET l == on[k] IN
  /\ pc[k] = "talk" /\ ~Turned(k)
  /\ link[l].open /\ link[l].outbox # <<>>
  /\ got' = [got EXCEPT ![k] = Head(link[l].outbox)]
  /\ link' = [link EXCEPT ![l].outbox = Tail(@), ![l].open = (attempt[k] = 1)]
  /\ parkedBusy' = (parkedBusy /\ attempt[k] # 1)
  /\ pc' = [pc EXCEPT ![k] = "done"]
  /\ UNCHANGED <<turnVars, parked, kind, op, attempt, on, serverVars,
                 supVars, handled, late, countVars>>

ParkedFails(k) ==
  /\ pc[k] = "talk" /\ ~Turned(k) /\ Broken(k)
  /\ IF attempt[k] = 1
     THEN /\ link' = Closed(link, parked)
          /\ parked' = 0 /\ parkedBusy' = FALSE
     ELSE link' = Closed(link, on[k]) /\ UNCHANGED parkVars
  /\ pc' = [pc EXCEPT ![k] = "done"]
  /\ UNCHANGED <<turnVars, kind, op, attempt, on, got, serverVars, supVars,
                 handled, late, crashes>>

\* SIGINT: once the shutdown of this and of the other panes' clients has been
\* asked for, the process exits and its connections close.
Exit(k) ==
  /\ pc[k] = "exiting" /\ ~gone
  /\ gone' = TRUE
  /\ link' = [l \in Links |-> [link[l] EXCEPT !.open = FALSE]]
  /\ UNCHANGED <<turnVars, parkVars, callVars, kept, stopping, supVars,
                 handled, late, countVars>>
-----------------------------------------------------------------------------
(* Supervisors.                                                            *)

\* What it has not replied to is lost.
Dies(s) ==
  /\ sup' = [sup EXCEPT ![s] = "dead"]
  /\ session' = [session EXCEPT ![s] = FALSE]
  /\ link' = [l \in Links |-> IF link[l].to # s THEN link[l] ELSE
                [link[l] EXCEPT !.inbox = <<>>, !.work = <<>>]]

\* host removes what is at the path and then binds it.
Clears(s) ==
  /\ sup[s] = "booting"
  /\ sup' = [sup EXCEPT ![s] = "binding"] /\ path' = 0
  /\ UNCHANGED <<turnVars, parkVars, callVars, serverVars, session, link,
                 handled, late, countVars>>
Binds(s) ==
  /\ sup[s] = "binding"
  /\ late' = (late \/ \E r \in Sups : sup[r] = "closed")
  /\ IF path = 0 THEN sup' = [sup EXCEPT ![s] = "up"] /\ path' = s
                 ELSE sup' = [sup EXCEPT ![s] = "dead"] /\ UNCHANGED path
  /\ UNCHANGED <<turnVars, parkVars, callVars, serverVars, session, link,
                 handled, countVars>>

\* The fiber of a connection takes the next request and carries it out ...
Handles(l) ==
  LET s == link[l].to
      r == Head(link[l].inbox) IN
  /\ s # 0 /\ sup[s] \in {"up", "closing"}
  /\ link[l].inbox # <<>> /\ link[l].work = <<>>
  /\ link' = [link EXCEPT ![l].inbox = Tail(@), ![l].work = <<r>>]
  /\ handled' = [handled EXCEPT
       ![r.call] = IF r.op \in {"input", "start"} THEN @ + 1 ELSE @]
  /\ session' = [session EXCEPT
       ![s] = r.op = "start" \/ (@ /\ r.op # "shutdown")]
  /\ UNCHANGED <<turnVars, parkVars, callVars, serverVars, sup, path, late,
                 countVars>>

\* ... and replies; after a shutdown the process goes.
Replies(l) ==
  LET s == link[l].to
      r == Head(link[l].work) IN
  /\ s # 0 /\ sup[s] \in {"up", "closing"} /\ link[l].work # <<>>
  /\ link' = [link EXCEPT ![l].work = <<>>,
       ![l].outbox = IF link[l].open THEN Append(@, r) ELSE @]
  /\ sup' = [sup EXCEPT ![s] = IF r.op = "shutdown" THEN "closing" ELSE @]
  /\ UNCHANGED <<turnVars, parkVars, callVars, serverVars, session, path,
                 handled, late, countVars>>

\* It stops the session and its server, and then removes the path, whoever
\* has bound it in the meantime.
Closes(s) ==
  /\ sup[s] = "closing"
  /\ sup' = [sup EXCEPT ![s] = "closed"]
  /\ session' = [session EXCEPT ![s] = FALSE]
  /\ UNCHANGED <<turnVars, parkVars, callVars, serverVars, path, link,
                 handled, late, countVars>>
Ends(s) ==
  /\ sup[s] = "closed"
  /\ Dies(s) /\ path' = 0
  /\ UNCHANGED <<turnVars, parkVars, callVars, serverVars, handled, late,
                 countVars>>

\* Every two seconds: no socket file, no supervisor.
Watches(s) ==
  /\ sup[s] = "up" /\ path = 0
  /\ Dies(s)
  /\ UNCHANGED <<turnVars, parkVars, callVars, serverVars, path, handled,
                 late, countVars>>

Crashes(s) ==
  /\ sup[s] = "up" /\ crashes < MaxCrashes
  /\ crashes' = crashes + 1
  /\ Dies(s)
  /\ UNCHANGED <<turnVars, parkVars, callVars, serverVars, path, handled,
                 late, timeouts>>
-----------------------------------------------------------------------------
FiberStep(k) ==
  /\ ~gone
  /\ \/ UsePinned(k) \/ Connect(k) \/ Spawn(k) \/ GiveUp(k)
     \/ TalkReplies(k) \/ TalkFails(k)
     \/ Park(k) \/ ParkedReplies(k) \/ ParkedFails(k)

SupStep(s) == Clears(s) \/ Binds(s) \/ Closes(s) \/ Ends(s) \/ Watches(s)

Next ==
  \/ \E k \in Calls :
       \/ \E m \in Kinds : Call(k, m)
       \/ FiberStep(k) \/ Exit(k)
  \/ \E s \in Sups : SupStep(s) \/ Crashes(s)
  \/ \E l \in Links : Handles(l) \/ Replies(l)

\* Fibers and processes go on when they can; no call has to be made, nobody
\* has to crash.
Fairness ==
  /\ \A k \in Calls : WF_vars(FiberStep(k)) /\ WF_vars(Exit(k))
  /\ \A s \in Sups : WF_vars(SupStep(s))
  /\ \A l \in Links : WF_vars(Handles(l)) /\ WF_vars(Replies(l))

Spec == Init /\ [][Next]_vars
FairSpec == Spec /\ Fairness
-----------------------------------------------------------------------------
(* What makes the client correct.                                          *)

\* The turn is held by exactly one fiber while it is busy, and somebody who
\* waits for it is not forgotten: passing the turn in give-turn loses no
\* ticket, whichever way a talk ends (client.janet 45-57, 134).
HasTurn(k) == pc[k] \in {"turn", "ensure"} \/ (pc[k] = "talk" /\ Turned(k))
OneTurn ==
  /\ ~gone => (busy <=> \E k \in Calls : HasTurn(k))
  /\ \A k, m \in Calls : HasTurn(k) /\ HasTurn(m) => k = m
  /\ \A k \in Calls : pc[k] = "queued" <=> \E i \in DOMAIN waiting : waiting[i] = k

\* What a fiber reads is the reply to its own message, also after another
\* fiber's late reply, a dropped connection or a second try (130-150).
RepliesMatch ==
  \A k \in Calls : got[k] # NoReply =>
    /\ got[k].call = k
    /\ pc[k] = "done" => got[k].op = op[k]

\* docs/panes.md:5: input is carried out at most once (145).
InputOnce == \A k \in Calls : op[k] = "input" => handled[k] <= 1

\* Every supervisor that listens can be reached, or will notice that it
\* cannot and end: spawning a second one for the same path never hides one
\* that lives, unless the client stopped waiting too early or a supervisor that
\* ended was slow to (104-115, host.janet 405-418, 462-464).
NoneHidden == ~late => \A s \in Sups : sup[s] = "up" => path \in {0, s}

\* Every call returns, though connections break and supervisors die (130-150).
CallsReturn ==
  \A k \in Calls : (pc[k] # "idle") ~> (pc[k] = "done" \/ gone)
-----------------------------------------------------------------------------
(* The inductive invariant.                                                *)

TurnInv ==
  /\ ~gone => (busy <=> \E k \in Calls : HasTurn(k))
  /\ \A k, m \in Calls : HasTurn(k) /\ HasTurn(m) => k = m
  /\ \A k \in Calls : pc[k] = "queued" <=> \E i \in DOMAIN waiting : waiting[i] = k
  /\ \A i, j \in DOMAIN waiting : waiting[i] = waiting[j] => i = j
  /\ \A k \in Calls : /\ pc[k] \in {"queued", "turn", "ensure"} => op[k] # "wait"
                      /\ pc[k] = "park" => op[k] = "wait"
                      /\ pc[k] = "idle" <=> op[k] = "none"

\* Which connection a talking call has, and who has the parked one.
Owns(k) == pc[k] = "talk" /\ ~Turned(k) /\ attempt[k] = 1
Visits(k) == pc[k] = "talk" /\ ~Turned(k) /\ attempt[k] # 1
TalksOn(k, l) == pc[k] = "talk" /\ on[k] = l
UseInv ==
  /\ \A k \in Calls : pc[k] = "talk" => on[k] \in Links
  /\ \A k \in Calls : pc[k] = "talk" /\ Turned(k) => on[k] = pinned
  /\ \A k \in Calls : Owns(k) => parkedBusy /\ (link[on[k]].open => on[k] = parked)
  /\ \A k, m \in Calls : Owns(k) /\ Owns(m) => k = m
  /\ \A k \in Calls : Visits(k) /\ link[on[k]].open => on[k] \notin {pinned, parked}
  /\ \A k, m \in Calls :
       Visits(k) /\ Visits(m) /\ on[k] = on[m] /\ link[on[k]].open => k = m
  /\ pinned # 0 => pinned # parked /\ (gone \/ link[pinned].open)
  /\ parked # 0 => gone \/ link[parked].open

\* An open connection carries nothing, or one message of a call that talks on it.
Message(k) == [call |-> k, op |-> op[k]]
Empty(l) == link[l].inbox = <<>> /\ link[l].work = <<>> /\ link[l].outbox = <<>>
Carries(l, k) ==
  /\ TalksOn(k, l)
  /\ \/ /\ link[l].inbox = <<Message(k)>> /\ link[l].work = <<>>
        /\ link[l].outbox = <<>>
     \/ /\ link[l].inbox = <<>> /\ link[l].work = <<Message(k)>>
        /\ link[l].outbox = <<>>
     \/ /\ link[l].inbox = <<>> /\ link[l].work = <<>>
        /\ link[l].outbox = <<Message(k)>>
LinkInv ==
  \A l \in Links : link[l].open => Empty(l) \/ \E k \in Calls : Carries(l, k)

\* What was read, and before anything was.
ReplyInv ==
  /\ RepliesMatch
  /\ \A k \in Calls :
       pc[k] = "idle" \/ (op[k] = "wait" /\ pc[k] # "done") => got[k] = NoReply

\* A message of the input k is sent once: nowhere before, in one inbox after,
\* and nowhere when it was carried out.
Sent(l, k) == link[l].inbox # <<>> /\ link[l].inbox[1].call = k
InputInv ==
  /\ \A l \in Links : Len(link[l].inbox) <= 1
  /\ \A k \in Calls : op[k] \in {"none", "input"} =>
       /\ pc[k] \notin {"talk", "done"} => handled[k] = 0 /\ \A l \in Links : ~Sent(l, k)
       /\ handled[k] <= 1
       /\ handled[k] = 1 => \A l \in Links : ~Sent(l, k)
       /\ \A l, m \in Links : Sent(l, k) /\ Sent(m, k) => l = m

\* While nobody was late, one supervisor is on its way to the path or has it.
Coming(s) == sup[s] \in {"booting", "binding"}
Has(s) == sup[s] \in {"up", "closing"}
SupInv ==
  ~late =>
    /\ \A s, t \in Sups : Coming(s) /\ (Coming(t) \/ Has(t)) => s = t
    /\ \A s, t \in Sups : Has(s) /\ (Has(t) \/ sup[t] = "closed") => s = t
    /\ \A s \in Sups : Has(s) => path = s
    /\ (\E s \in Sups : Coming(s)) => \E k \in Calls : pc[k] = "ensure"

IInv == TypeOK /\ TurnInv /\ UseInv /\ LinkInv /\ ReplyInv /\ InputInv /\ SupInv
-----------------------------------------------------------------------------
=============================================================================
