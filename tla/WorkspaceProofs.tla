--------------------------- MODULE WorkspaceProofs --------------------------
(***************************************************************************)
(* What TLC checks of Workspace on a small instance holds for any number   *)
(* of browsers, other callers, panes and server processes.                 *)
(*                                                                         *)
(* The first part is about PaneRegistry: every step of the server keeps    *)
(* the registry and its records in agreement, and loses no terminal that   *)
(* lives and whose pane has not gone astray, if the server is not killed   *)
(* while it recovers.  The second part is about the pages.                 *)
(***************************************************************************)
EXTENDS Workspace, WellFoundedInduction, TLAPS

USE RegistryAssumption, WorkspaceAssumption
USE DEF registryVars, processVars, serverVars, pageVars, browserVars
-----------------------------------------------------------------------------
(* The records.                                                            *)

\* To remember a field changes what is recorded of this field only (588-606).
LEMMA RememberFieldRecords ==
  ASSUME NEW rec \in [Ids -> SUBSET Fields], NEW field \in Fields,
         NEW ids \in SUBSET Ids
  PROVE  /\ RememberField(rec, field, ids) \in [Ids -> SUBSET Fields]
         /\ {i \in Ids : field \in RememberField(rec, field, ids)[i]} = ids
         /\ \A other \in Fields \ {field} :
              {i \in Ids : other \in RememberField(rec, field, ids)[i]}
                = {i \in Ids : other \in rec[i]}
  BY DEF RememberField

\* What the records say after a pane was registered.
LEMMA PaneForRecords ==
  ASSUME ServerTypes, NEW id \in Ids, PaneFor(id), id \notin panes
  PROVE  /\ record' \in [Ids -> SUBSET Fields]
         /\ Recorded("socket")' = panes \cup {id}
         /\ Recorded("document")' = Recorded("document")
<1>1. record' = RememberField(record, "socket", panes \cup {id})
  BY DEF PaneFor, RememberPanes
<1>2. record \in [Ids -> SUBSET Fields] /\ panes \cup {id} \in SUBSET Ids
  BY DEF ServerTypes
<1>3. "socket" \in Fields /\ "document" \in Fields \ {"socket"}
  BY DEF Fields
<1>4. QED
  BY <1>1, <1>2, <1>3, RememberFieldRecords DEF Recorded

\* ... and after one was forgotten.
LEMMA ForgetRecords ==
  ASSUME ServerTypes, Recorded("document") = documents,
         NEW id \in Ids, Forget(id)
  PROVE  /\ record' \in [Ids -> SUBSET Fields]
         /\ Recorded("socket")' = panes \ {id}
         /\ Recorded("document")' = documents \ {id}
<1> DEFINE rec == IF id \in documents
                  THEN RememberField(record, "document", documents \ {id})
                  ELSE record
<1>1. record' = RememberField(rec, "socket", panes \ {id})
  BY DEF Forget, RememberPanes
<1>2. record \in [Ids -> SUBSET Fields] /\ documents \ {id} \in SUBSET Ids
      /\ panes \ {id} \in SUBSET Ids
  BY DEF ServerTypes
<1>3. "socket" \in Fields /\ "document" \in Fields /\ "document" \in Fields \ {"socket"}
  BY DEF Fields
<1>4. /\ rec \in [Ids -> SUBSET Fields]
      /\ {i \in Ids : "document" \in rec[i]} = documents \ {id}
  <2>1. CASE id \in documents
    BY <2>1, <1>2, <1>3, RememberFieldRecords
  <2>2. CASE id \notin documents
    BY <2>2, <1>2 DEF Recorded
  <2>3. QED
    BY <2>1, <2>2
<1> HIDE DEF rec
<1>5. QED
  BY <1>1, <1>2, <1>3, <1>4, RememberFieldRecords DEF Recorded
-----------------------------------------------------------------------------
(* The steps.                                                              *)

\* All that changes the registry, its records and its terminals.
ServerStep ==
  \/ Boot \/ Recover \/ Serve \/ GoesDown
  \/ \E b \in Callers, id \in Ids, apart \in BOOLEAN :
       StartBegins(b, id, apart) \/ ShutdownArrives(b, id, apart)
  \/ \E c \in calls :
       \/ Starts(c) \/ StartEnds(c)
       \/ ShutdownAbsent(c) \/ ShutdownBegins(c) \/ ShutsDown(c) \/ ShutdownEnds(c)
  \/ \E b \in Callers : SocketLost(b)
  \/ \E id \in Ids : OpenDocument(id) \/ Dies(id)

\* A server process starts, probes and serves (99-173).
LEMMA BootKeeps == ASSUME RegistryInv, Boot PROVE RegistryInv'
<1>1. Recorded("document")' = Recorded("document") /\ Recorded("document") \subseteq Ids
      /\ Recorded("socket") \subseteq Ids
  BY DEF Boot, Recorded
<1>2. ServerTypes'
  BY <1>1 DEF Boot, RegistryInv, ServerTypes
<1>3. ProcessOK' /\ RecoveryOK' /\ StartsOK' /\ RecordsMatch'
  BY <1>1 DEF Boot, RegistryInv, ServerTypes, ProcessOK, RecoveryOK, StartsOK, RecordsMatch
<1>4. QED
  BY <1>2, <1>3 DEF RegistryInv

LEMMA RecoverKeeps == ASSUME RegistryInv, Recover PROVE RegistryInv'
<1>1. PICK id \in left :
        /\ left' = left \ {id}
        /\ IF id \in live THEN PaneFor(id) ELSE UNCHANGED registryVars
        /\ astray' \subseteq astray
  BY DEF Recover
<1>2. ServerTypes /\ id \in Ids
  BY DEF RegistryInv, ServerTypes
<1>3. record' \in [Ids -> SUBSET Fields] /\ Recorded("document")' = Recorded("document")
      /\ panes' \subseteq Ids /\ generation' \in Nat /\ documents' = documents
      /\ panes \subseteq panes'
  <2>1. CASE PaneFor(id) /\ id \notin panes
    <3>1. record' \in [Ids -> SUBSET Fields] /\ Recorded("document")' = Recorded("document")
      BY <1>2, <2>1, PaneForRecords
    <3>2. panes' = panes \cup {id} /\ generation' = generation + 1 /\ documents' = documents
      BY <2>1 DEF PaneFor
    <3>3. QED
      BY <1>2, <3>1, <3>2 DEF ServerTypes
  <2>2. CASE UNCHANGED registryVars
    BY <1>2, <2>2 DEF ServerTypes, Recorded
  <2>3. QED
    BY <1>1, <2>1, <2>2 DEF PaneFor
<1>4. ServerTypes'
  BY <1>1, <1>2, <1>3 DEF Recover, ServerTypes
<1>5. ProcessOK' /\ RecoveryOK' /\ StartsOK' /\ RecordsMatch'
  BY <1>1, <1>3 DEF Recover, RegistryInv, ProcessOK, RecoveryOK, StartsOK, RecordsMatch
<1>6. QED
  BY <1>4, <1>5 DEF RegistryInv

LEMMA ServeKeeps == ASSUME RegistryInv, Serve PROVE RegistryInv'
<1>1. ServerTypes /\ Harness \in Ids /\ "socket" \in Fields
      /\ "document" \in Fields \ {"socket"}
  BY DEF RegistryInv, Ids, Harness, Fields
<1>2. PICK ids \in SUBSET Ids : panes' = ids /\ record' = RememberField(record, "socket", ids)
  <2>1. CASE panes = {}
    BY <1>1, <2>1 DEF Serve, RememberPanes
  <2>2. CASE panes # {}
    BY <1>1, <2>2 DEF Serve, RememberPanes, ServerTypes
  <2>3. QED
    BY <2>1, <2>2
<1>3. record' \in [Ids -> SUBSET Fields] /\ Recorded("socket")' = panes'
      /\ Recorded("document")' = Recorded("document")
  BY <1>1, <1>2, RememberFieldRecords DEF ServerTypes, Recorded
<1>4. live' \subseteq Ids /\ generation' \in Nat /\ astray' \subseteq Ids
  BY <1>1 DEF Serve, ServerTypes
<1>5. ServerTypes'
  BY <1>1, <1>2, <1>3, <1>4 DEF Serve, ServerTypes
<1>6. calls' = {} /\ documents' = Recorded("document")' /\ left' = {} /\ epoch' # 0
  BY <1>3 DEF Serve, RegistryInv, ProcessOK, RecoveryOK
<1>7. ProcessOK' /\ RecoveryOK' /\ StartsOK' /\ RecordsMatch'
  BY <1>3, <1>6 DEF Serve, ProcessOK, RecoveryOK, StartsOK, RecordsMatch
<1>8. QED
  BY <1>5, <1>7 DEF RegistryInv

\* It goes (603-650).
LEMMA GoesDownKeeps == ASSUME RegistryInv, GoesDown PROVE RegistryInv'
<1>1. Gone /\ live' \subseteq live
  BY DEF GoesDown, Kill, EndOfInput, Interrupt
<1>2. QED
  BY <1>1 DEF Gone, RegistryInv, ServerTypes, ProcessOK, RecoveryOK, StartsOK, RecordsMatch

\* A pane is registered; if there are other calls for it, it goes astray (306-323).
LEMMA StartBeginsKeeps ==
  ASSUME RegistryInv, NEW b \in Callers, NEW id \in Ids, NEW apart \in BOOLEAN,
         StartBegins(b, id, apart)
  PROVE  RegistryInv'
<1> DEFINE call == NewCall(b, "start", id, "asked", apart)
<1>1. ServerTypes /\ server = "serving" /\ call \in Call /\ call.id = id
      /\ call.op = "start" /\ call.stage = "asked"
  BY DEF RegistryInv, StartBegins, Changing, Call, NewCall
<1>2. /\ record' \in [Ids -> SUBSET Fields] /\ Recorded("document")' = Recorded("document")
      /\ Recorded("socket")' = panes' /\ documents' = documents
      /\ panes' = panes \cup {id} /\ generation' \in Nat
  <2>1. PaneFor(id)
    BY DEF StartBegins
  <2>2. CASE id \notin panes
    <3>1. /\ record' \in [Ids -> SUBSET Fields] /\ Recorded("document")' = Recorded("document")
          /\ Recorded("socket")' = panes \cup {id}
      BY <1>1, <2>1, <2>2, PaneForRecords
    <3>2. panes' = panes \cup {id} /\ generation' = generation + 1 /\ documents' = documents
      BY <2>1, <2>2 DEF PaneFor
    <3>3. QED
      BY <1>1, <3>1, <3>2 DEF ServerTypes
  <2>3. CASE id \in panes
    BY <1>1, <2>1, <2>3 DEF PaneFor, ServerTypes, Recorded, RegistryInv, RecordsMatch
  <2>4. QED
    BY <2>2, <2>3
<1>3. calls' = calls \cup {call} /\ UNCHANGED <<processVars, live>>
  BY DEF StartBegins
<1>4. /\ astray' \subseteq astray \cup {id} /\ astray \ {id} \subseteq astray'
      /\ (\A c \in calls : c.id # id) \/ id \in astray'
  BY DEF StartBegins, About, GoesAstray
<1> HIDE DEF call
<1>5. ServerTypes'
  BY <1>1, <1>2, <1>3, <1>4 DEF ServerTypes
<1>6. StartsOK'
  BY <1>1, <1>2, <1>3, <1>4 DEF StartsOK, RegistryInv
<1>7. ProcessOK' /\ RecoveryOK' /\ RecordsMatch'
  BY <1>1, <1>2, <1>3 DEF RegistryInv, ProcessOK, RecoveryOK, RecordsMatch
<1>8. QED
  BY <1>5, <1>6, <1>7 DEF RegistryInv

\* When a shutdown arrives, at most the start that it waits for is under way, or
\* the pane goes astray.
LEMMA ShutdownArrivesKeeps ==
  ASSUME RegistryInv, NEW b \in Callers, NEW id \in Ids, NEW apart \in BOOLEAN,
         ShutdownArrives(b, id, apart)
  PROVE  RegistryInv'
<1> DEFINE call == NewCall(b, "shutdown", id, "queued", apart)
<1>1. server = "serving" /\ call \in Call /\ call.id = id /\ call.op = "shutdown"
      /\ call.stage = "queued" /\ call.by = b
  BY DEF ShutdownArrives, Call, NewCall
<1>2. calls' = calls \cup {call} /\ UNCHANGED <<registryVars, processVars, live>>
  BY DEF ShutdownArrives
<1>3. /\ astray \subseteq astray' /\ astray' \subseteq astray \cup {id}
      /\ \/ \A c \in calls : c.id = id =>
              c.op = "start" /\ c.by = b /\ ~c.alone /\ ~call.alone
         \/ id \in astray'
  BY DEF ShutdownArrives, NewCall, About, GoesAstray
<1> HIDE DEF call
<1>4. StartsOK'
  BY <1>1, <1>2, <1>3 DEF StartsOK, RegistryInv
<1>5. QED
  BY <1>1, <1>2, <1>3, <1>4 DEF RegistryInv, ServerTypes, ProcessOK, RecoveryOK,
     RecordsMatch, Recorded

\* Nothing is recorded while a client talks to its supervisor.
LEMMA ClientKeeps ==
  ASSUME RegistryInv, live' \subseteq Ids, calls' \subseteq Call, astray' \subseteq Ids,
         server # "serving" => calls' = {}, StartsOK',
         UNCHANGED <<registryVars, processVars>>
  PROVE  RegistryInv'
  BY DEF RegistryInv, ServerTypes, ProcessOK, RecoveryOK, RecordsMatch, Recorded

\* A start spawns a terminal and ends (316-323, client.janet 162-171).
LEMMA StartsKeep ==
  ASSUME RegistryInv, NEW c \in calls, Starts(c) \/ StartEnds(c)
  PROVE  RegistryInv'
<1>1. c \in Call /\ calls \subseteq Call /\ live \subseteq Ids /\ server = "serving"
      /\ c.id \in Ids /\ astray \subseteq Ids
  BY DEF RegistryInv, ServerTypes, ProcessOK, Call
<1>2. CASE Starts(c)
  <2>1. /\ live' = live \cup {c.id} /\ UNCHANGED <<registryVars, processVars, calls, astray>>
        /\ c.op = "start"
    BY <1>2 DEF Starts
  <2>2. StartsOK'
    BY <2>1 DEF StartsOK, RegistryInv
  <2>3. QED
    BY <1>1, <2>1, <2>2, ClientKeeps
<1>3. CASE StartEnds(c)
  <2> DEFINE late == [c EXCEPT !.alone = TRUE]
  <2>1. late \in Call /\ late.id = c.id /\ late.op = "start" /\ late.stage = c.stage
        /\ c.op = "start"
    BY <1>1, <1>3 DEF Call, StartEnds
  <2>2. /\ UNCHANGED <<registryVars, processVars, live>>
        /\ \/ calls' = calls \ {c} /\ astray' = astray
           \/ calls' = (calls \ {c}) \cup {late} /\ astray' = astray \cup {c.id}
    BY <1>3 DEF StartEnds, GoesAstray
  <2> HIDE DEF late
  <2>3. calls' \subseteq Call /\ astray' \subseteq Ids
    BY <1>1, <2>1, <2>2
  <2>4. StartsOK'
    <3>1. CASE calls' = calls \ {c} /\ astray' = astray
      BY <2>2, <3>1 DEF StartsOK, RegistryInv
    <3>2. CASE calls' = (calls \ {c}) \cup {late} /\ astray' = astray \cup {c.id}
      BY <2>1, <2>2, <3>2 DEF StartsOK, RegistryInv
    <3>3. QED
      BY <2>2, <3>1, <3>2
  <2>5. QED
    BY <1>1, <2>2, <2>3, <2>4, ClientKeeps
<1>4. QED
  BY <1>2, <1>3

\* A shutdown that has its turn finds no start under way (325, 376-391), and
\* nobody lives at the socket when it was acknowledged.
LEMMA ShutdownsKeep ==
  ASSUME RegistryInv, NEW c \in calls,
         ShutdownAbsent(c) \/ ShutdownBegins(c) \/ ShutsDown(c)
  PROVE  RegistryInv'
<1>1. c \in Call /\ calls \subseteq Call /\ live \subseteq Ids /\ server = "serving"
      /\ c.id \in Ids /\ astray \subseteq Ids
  BY DEF RegistryInv, ServerTypes, ProcessOK, Call
<1>2. CASE ShutdownAbsent(c)
  <2>1. calls' \subseteq calls /\ UNCHANGED <<registryVars, processVars, live, astray>>
    BY <1>2 DEF ShutdownAbsent
  <2>2. StartsOK'
    BY <2>1 DEF StartsOK, RegistryInv
  <2>3. QED
    BY <1>1, <2>1, <2>2, ClientKeeps
<1>3. ASSUME NEW at \in {"asked", "answered"},
             calls' = (calls \ {c}) \cup {[c EXCEPT !.stage = at]},
             UNCHANGED <<registryVars, processVars, astray>>, live' \subseteq live,
             at = "answered" => c.id \notin live', c.op = "shutdown",
             c.id \notin astray => \A d \in calls : d.op = "start" => d.id # c.id
      PROVE  RegistryInv'
  <2> DEFINE moved == [c EXCEPT !.stage = at]
  <2>1. moved \in Call /\ moved.id = c.id /\ moved.op = c.op /\ moved.stage = at
    BY <1>1, <1>3 DEF Call
  <2>2. calls' = (calls \ {c}) \cup {moved}
    BY <1>3
  <2> HIDE DEF moved
  <2>3. calls' \subseteq Call /\ live' \subseteq Ids
    BY <1>1, <1>3, <2>1, <2>2
  <2>4. StartsOK'
    BY <1>3, <2>1, <2>2 DEF StartsOK, RegistryInv
  <2>5. QED
    BY <1>1, <1>3, <2>3, <2>4, ClientKeeps
<1>4. CASE ShutdownBegins(c)
  <2>1. /\ calls' = (calls \ {c}) \cup {[c EXCEPT !.stage = "asked"]}
        /\ UNCHANGED <<registryVars, processVars, live, astray>> /\ InTurn(c)
        /\ c.stage = "queued" /\ c.op = "shutdown"
    BY <1>4 DEF ShutdownBegins, Takes
  <2>2. c.id \notin astray => \A d \in calls : d.op = "start" => d.id # c.id
    BY <2>1 DEF StartsOK, RegistryInv, InTurn
  <2>3. QED
    BY <1>3, <2>1, <2>2
<1>5. CASE ShutsDown(c)
  <2>1. /\ calls' = (calls \ {c}) \cup {[c EXCEPT !.stage = "answered"]}
        /\ UNCHANGED <<registryVars, processVars, astray>> /\ live' = live \ {c.id}
        /\ c.op = "shutdown" /\ c.stage = "asked"
    BY <1>5 DEF ShutsDown
  <2>2. c.id \notin astray => \A d \in calls : d.op = "start" => d.id # c.id
    BY <2>1 DEF StartsOK, RegistryInv
  <2>3. QED
    BY <1>3, <2>1, <2>2
<1>6. QED
  BY <1>2, <1>4, <1>5

\* With a websocket its queue is dropped, so that no shutdown outlives the start
\* it waits for (427-430).
LEMMA SocketLostKeeps ==
  ASSUME RegistryInv, NEW b \in Callers, SocketLost(b)
  PROVE  RegistryInv'
<1> DEFINE own == {c \in calls : c.by = b /\ ~c.alone}
           left_ == {[c EXCEPT !.alone = TRUE] : c \in {d \in own : d.stage # "queued"}}
<1>1. /\ calls \subseteq Call /\ live \subseteq Ids /\ astray \subseteq Ids /\ own # {}
      /\ calls' = (calls \ own) \cup left_
      /\ UNCHANGED <<registryVars, processVars, live, astray>>
  BY DEF RegistryInv, ServerTypes, SocketLost
<1>2. ASSUME NEW e \in left_
      PROVE  /\ e \in Call
             /\ \E c \in own : /\ e.id = c.id /\ e.op = c.op /\ e.by = c.by
                               /\ e.stage = c.stage /\ e.stage # "queued"
                               /\ e = [c EXCEPT !.alone = TRUE]
  <2>1. PICK c \in own : c.stage # "queued" /\ e = [c EXCEPT !.alone = TRUE]
    OBVIOUS
  <2>2. c \in Call
    BY <1>1
  <2>3. e \in Call /\ e.id = c.id /\ e.op = c.op /\ e.by = c.by /\ e.stage = c.stage
    BY <2>1, <2>2 DEF Call
  <2>4. QED
    BY <2>1, <2>3
<1> HIDE DEF left_
<1>3. calls' \subseteq Call
  BY <1>1, <1>2
<1>4. ASSUME NEW e \in calls'
      PROVE  \E c \in calls :
               /\ e.id = c.id /\ e.op = c.op /\ e.stage = c.stage
               /\ \/ e = c /\ ~(c.by = b /\ ~c.alone)
                  \/ /\ c.by = b /\ ~c.alone /\ e.stage # "queued"
                     /\ e = [c EXCEPT !.alone = TRUE]
  BY <1>1, <1>2
<1>5. server = "serving"
  BY <1>1 DEF RegistryInv, ProcessOK
<1>6. StartsOK'
  <2>1. \A c \in calls' : c.op = "start" => c.id \in panes \cup astray
    BY <1>4 DEF StartsOK, RegistryInv
  <2>2. ASSUME NEW c \in calls', NEW d \in calls',
               c.op = "shutdown", d.op = "start", c.id = d.id, c.id \notin astray
        PROVE  c.stage = "queued" /\ d.by = c.by /\ ~c.alone /\ ~d.alone
    <3>1. PICK p \in calls :
            /\ c.id = p.id /\ c.op = p.op /\ c.stage = p.stage
            /\ \/ c = p /\ ~(p.by = b /\ ~p.alone)
               \/ p.by = b /\ ~p.alone /\ c.stage # "queued"
      BY <1>4
    <3>2. PICK q \in calls :
            /\ d.id = q.id /\ d.op = q.op
            /\ d = q \/ (q.by = b /\ ~q.alone)
      BY <1>4
    <3>3. p.stage = "queued" /\ q.by = p.by /\ ~p.alone /\ ~q.alone
      BY <2>2, <3>1, <3>2 DEF StartsOK, RegistryInv
    <3>4. QED
      BY <3>1, <3>2, <3>3
  <2>3. ASSUME NEW c \in calls', NEW d \in calls',
               c.op = "shutdown", d.op = "shutdown", c.id = d.id, c.id \notin astray
        PROVE  c = d
    <3>1. PICK p \in calls :
            /\ c.id = p.id /\ c.op = p.op
            /\ \/ c = p /\ ~(p.by = b /\ ~p.alone)
               \/ p.by = b /\ ~p.alone /\ c = [p EXCEPT !.alone = TRUE]
      BY <1>4
    <3>2. PICK q \in calls :
            /\ d.id = q.id /\ d.op = q.op
            /\ \/ d = q /\ ~(q.by = b /\ ~q.alone)
               \/ q.by = b /\ ~q.alone /\ d = [q EXCEPT !.alone = TRUE]
      BY <1>4
    <3>3. p.op = "shutdown" /\ q.op = "shutdown" /\ p.id = q.id /\ p.id \notin astray
      BY <2>3, <3>1, <3>2
    <3>4. p = q
      BY <3>3 DEF StartsOK, RegistryInv
    <3>5. QED
      BY <3>1, <3>2, <3>4
  <2>4. ASSUME NEW c \in calls', c.stage = "answered"
        PROVE  c.op = "shutdown" /\ (c.id \notin live \/ c.id \in astray)
    BY <1>4, <2>4 DEF StartsOK, RegistryInv
  <2>5. QED
    BY <1>1, <2>1, <2>2, <2>3, <2>4 DEF StartsOK
<1>7. QED
  BY <1>1, <1>3, <1>5, <1>6, ClientKeeps

\* A pane is forgotten when its shutdown has ended, whatever the client got (325-326).
LEMMA ShutdownEndsKeeps ==
  ASSUME RegistryInv, NEW c \in calls, ShutdownEnds(c)
  PROVE  RegistryInv'
<1>1. ServerTypes /\ server = "serving" /\ c \in Call /\ c.id \in Ids /\ c.op = "shutdown"
  BY DEF RegistryInv, ProcessOK, ServerTypes, ShutdownEnds, Call
<1>2. /\ Forget(c.id) /\ calls' = calls \ {c} /\ UNCHANGED <<processVars, live>>
      /\ astray \subseteq astray' /\ astray' \subseteq astray \cup {c.id}
  BY DEF ShutdownEnds, GoesAstray
<1>3. /\ record' \in [Ids -> SUBSET Fields]
      /\ Recorded("socket")' = panes \ {c.id}
      /\ Recorded("document")' = documents \ {c.id}
  BY <1>1, <1>2, ForgetRecords DEF RegistryInv, RecordsMatch
<1>4. panes' = panes \ {c.id} /\ documents' = documents \ {c.id} /\ generation' \in Nat
  BY <1>1, <1>2 DEF Forget, ServerTypes
<1>5. ServerTypes'
  BY <1>1, <1>2, <1>3, <1>4 DEF ServerTypes
<1>6. StartsOK'
  <2>1. c.stage # "queued"
    BY DEF ShutdownEnds
  <2>2. QED
    BY <1>1, <1>2, <1>4, <2>1 DEF StartsOK, RegistryInv
<1>7. ProcessOK' /\ RecoveryOK' /\ RecordsMatch'
  BY <1>1, <1>2, <1>3, <1>4 DEF RegistryInv, ProcessOK, RecoveryOK, RecordsMatch
<1>8. QED
  BY <1>5, <1>6, <1>7 DEF RegistryInv

\* A document is recorded with the pane it was opened in (191-205).
LEMMA OpenDocumentKeeps ==
  ASSUME RegistryInv, NEW id \in Ids, OpenDocument(id)
  PROVE  RegistryInv'
<1>1. ServerTypes /\ server = "serving" /\ "document" \in Fields
      /\ "socket" \in Fields \ {"document"}
  BY DEF RegistryInv, OpenDocument, Changing, Fields
<1>2. documents' \in SUBSET Ids /\ record' = RememberField(record, "document", documents')
  BY <1>1 DEF OpenDocument, ServerTypes
<1>3. /\ record' \in [Ids -> SUBSET Fields] /\ Recorded("document")' = documents'
      /\ Recorded("socket")' = Recorded("socket")
  BY <1>1, <1>2, RememberFieldRecords DEF ServerTypes, Recorded
<1>4. ServerTypes'
  <2>1. generation' = generation + 1 /\ UNCHANGED <<panes, processVars, live, calls, astray>>
    BY DEF OpenDocument
  <2>2. QED
    BY <1>1, <1>2, <1>3, <2>1 DEF ServerTypes
<1>5. ProcessOK' /\ RecoveryOK' /\ StartsOK' /\ RecordsMatch'
  BY <1>1, <1>3 DEF OpenDocument, RegistryInv, ProcessOK, RecoveryOK, StartsOK, RecordsMatch
<1>6. QED
  BY <1>4, <1>5 DEF RegistryInv

\* Every step of the server keeps the registry's invariant.
THEOREM StepKeeps == ASSUME RegistryInv, ServerStep PROVE RegistryInv'
<1>1. ASSUME NEW id \in Ids, Dies(id) PROVE RegistryInv'
  <2>1. live' = live \ {id} /\ UNCHANGED <<registryVars, processVars, calls, astray>>
        /\ live' \subseteq Ids /\ calls' \subseteq Call /\ astray' \subseteq Ids
        /\ (server # "serving" => calls' = {})
    BY <1>1 DEF Dies, RegistryInv, ServerTypes, ProcessOK
  <2>2. StartsOK'
    BY <2>1 DEF StartsOK, RegistryInv
  <2>3. QED
    BY <2>1, <2>2, ClientKeeps
<1>2. QED
  BY <1>1, BootKeeps, RecoverKeeps, ServeKeeps, GoesDownKeeps, StartBeginsKeeps,
     ShutdownArrivesKeeps, StartsKeep, ShutdownsKeep, ShutdownEndsKeeps, SocketLostKeeps,
     OpenDocumentKeeps DEF ServerStep
-----------------------------------------------------------------------------
(* No terminal is lost.                                                    *)

\* Every step keeps a terminal that lives, and whose pane has not gone astray,
\* within reach of this server or the next one, if a server that recovers is not
\* killed (127-164, 306-326, client.janet 216-224).
THEOREM StepKeepsKnown ==
  ASSUME RegistryInv, LivePanesKnown, Killed \subseteq {"serving"}, ServerStep
  PROVE  LivePanesKnown'
<1> USE DEF LivePanesKnown
<1>1. RegistryInv' /\ ServerTypes /\ RecordsMatch /\ ProcessOK
  BY StepKeeps DEF RegistryInv
<1>2. CASE Boot
  <2>1. Recorded("socket")' = Recorded("socket")
    BY <1>2 DEF Boot, Recorded
  <2>2. QED
    BY <1>2, <2>1 DEF Boot
<1>3. CASE Recover
  <2>1. PICK id \in left :
          /\ left' = left \ {id}
          /\ IF id \in live THEN PaneFor(id) /\ astray' = astray \ {id}
                           ELSE UNCHANGED <<registryVars, astray>>
    BY <1>3 DEF Recover
  <2>2. panes \subseteq panes' /\ (id \in live => id \in panes')
    BY <2>1 DEF PaneFor
  <2>3. server = "recovering" /\ server' = "recovering" /\ live' = live
    BY <1>3 DEF Recover
  <2>4. QED
    BY <2>1, <2>2, <2>3
<1>4. CASE Serve
  <2>1. (live \ astray)' \subseteq panes' /\ server' = "serving"
    BY <1>4 DEF Serve
  <2>2. Recorded("socket")' = panes'
    BY <1>1, <2>1 DEF RegistryInv, RecordsMatch
  <2>3. QED
    BY <2>1, <2>2
<1>5. CASE GoesDown
  <2>1. server = "serving" /\ Gone /\ live' \subseteq live /\ astray' = astray
    BY <1>5 DEF GoesDown, Kill, EndOfInput, Interrupt, Gone
  <2>2. Recorded("socket")' = Recorded("socket") /\ server' = "down"
    BY <2>1 DEF Gone, Recorded
  <2>3. QED
    BY <2>1, <2>2
<1>6. ASSUME server = "serving", server' = "serving", (live \ astray)' \subseteq panes'
      PROVE  LivePanesKnown'
  BY <1>1, <1>6 DEF RegistryInv, RecordsMatch
<1>7. ASSUME NEW b \in Callers, NEW id \in Ids, NEW apart \in BOOLEAN,
             StartBegins(b, id, apart) \/ ShutdownArrives(b, id, apart)
      PROVE  LivePanesKnown'
  <2>1. server = "serving" /\ server' = "serving" /\ live' = live /\ panes \subseteq panes'
    BY <1>7 DEF StartBegins, ShutdownArrives, Changing, PaneFor
  <2>2. astray \ {id} \subseteq astray' /\ (id \in astray => id \in astray' \cup panes')
    BY <1>7 DEF StartBegins, ShutdownArrives, GoesAstray, PaneFor
  <2>3. QED
    BY <1>6, <2>1, <2>2
<1>8. ASSUME NEW c \in calls,
             \/ Starts(c) \/ StartEnds(c)
             \/ ShutdownAbsent(c) \/ ShutdownBegins(c) \/ ShutsDown(c)
      PROVE  LivePanesKnown'
  <2>1. server = "serving" /\ server' = "serving" /\ panes' = panes
    BY <1>1, <1>8 DEF ProcessOK, Starts, StartEnds, ShutdownAbsent, ShutdownBegins, ShutsDown
  <2>2. /\ live' \subseteq live \cup {c.id} /\ (c.op # "start" => live' \subseteq live)
        /\ astray \subseteq astray'
    BY <1>8 DEF Starts, StartEnds, ShutdownAbsent, ShutdownBegins, ShutsDown, GoesAstray
  <2>3. c.op = "start" => c.id \in panes \cup astray
    BY DEF RegistryInv, StartsOK
  <2>4. QED
    BY <1>6, <2>1, <2>2, <2>3
<1>9. ASSUME NEW c \in calls, ShutdownEnds(c) PROVE LivePanesKnown'
  <2>1. server = "serving" /\ server' = "serving" /\ live' = live
        /\ panes' = panes \ {c.id} /\ astray \subseteq astray'
    BY <1>1, <1>9 DEF ProcessOK, ShutdownEnds, Forget, GoesAstray
  <2>2. c.id \notin live \/ c.id \in astray'
    BY <1>9 DEF ShutdownEnds, RegistryInv, StartsOK, GoesAstray
  <2>3. QED
    BY <1>6, <2>1, <2>2
<1>10. ASSUME NEW id \in Ids, OpenDocument(id) PROVE LivePanesKnown'
  <2>1. server = "serving" /\ server' = "serving" /\ live' = live /\ panes' = panes
        /\ astray' = astray
    BY <1>10 DEF OpenDocument, Changing
  <2>2. QED
    BY <1>6, <2>1
<1>11. ASSUME NEW id \in Ids, Dies(id) PROVE LivePanesKnown'
  <2>1. live' \subseteq live /\ UNCHANGED <<server, panes, left, record, astray>>
    BY <1>11 DEF Dies
  <2>2. Recorded("socket")' = Recorded("socket")
    BY <2>1 DEF Recorded
  <2>3. QED
    BY <2>1, <2>2
<1>12. ASSUME NEW b \in Callers, SocketLost(b) PROVE LivePanesKnown'
  <2>1. server = "serving" /\ server' = "serving" /\ live' = live /\ panes' = panes
        /\ astray' = astray
    BY <1>1, <1>12 DEF ProcessOK, SocketLost
  <2>2. QED
    BY <1>6, <2>1
<1>13. QED
  BY <1>2, <1>3, <1>4, <1>5, <1>7, <1>8, <1>9, <1>10, <1>11, <1>12 DEF ServerStep
-----------------------------------------------------------------------------
(* Numbers.                                                                *)

\* A set of panes has a last one.
LEMMA LastPane ==
  ASSUME NEW S \in SUBSET Ids, S # {}
  PROVE  Max(S) \in S /\ \A i \in S : i <= Max(S)
<1> DEFINE T == {MaxId - i : i \in S}
           less == OpToRel(<, Nat)
<1>1. T \subseteq Nat /\ T # {}
  <2>1. \A i \in S : MaxId - i \in Nat
    BY DEF Ids
  <2>2. T \subseteq Nat
    BY <2>1
  <2>3. PICK i \in S : TRUE
    OBVIOUS
  <2>4. MaxId - i \in T
    OBVIOUS
  <2>5. QED
    BY <2>2, <2>4
<1>2. \E t \in T : \A u \in T : <<u, t>> \notin less
  BY <1>1, NatLessThanWellFounded, WFMin
<1>3. \A m, n \in Nat : m < n => <<m, n>> \in less
  BY DEF OpToRel
<1> HIDE DEF less
<1>4. PICK t \in T : \A u \in T : ~ (u < t)
  BY <1>1, <1>2, <1>3
<1>5. PICK m \in S : t = MaxId - m
  OBVIOUS
<1>6. \A i \in S : i <= m
  <2> SUFFICES ASSUME NEW i \in S PROVE i <= m
    OBVIOUS
  <2>1. MaxId - i \in T /\ ~(MaxId - i < MaxId - m)
    BY <1>4, <1>5
  <2>2. QED
    BY <2>1 DEF Ids
<1>7. \E x \in S : \A y \in S : x >= y
  BY <1>6 DEF Ids
<1>8. Max(S) \in S /\ \A y \in S : Max(S) >= y
  BY <1>7 DEF Max
<1>9. QED
  BY <1>8 DEF Ids
-----------------------------------------------------------------------------
(* Steps of the server, as the pages see them.                             *)

\* What a step of the server does to the panes that a page closes: the page is
\* told of one that is gone.
Told ==
  \A b \in Browsers, i \in Ids :
    \/ closing'[b][i] = closing[b][i]
    \/ closing[b][i] = "sent" /\ closing'[b][i] = "answered" /\ i \notin panes'

\* While a process recovers or serves, a new registry has a new generation,
\* and what was buried and stays so does not come back; then nothing that the
\* pages rely on is lost.
LEMMA ServerMoves ==
  ASSUME RegistryInv, PageInv, PageTypes',
         UNCHANGED <<token, panels, remote, nextId, reply, seen>>, Told,
         \A b \in Browsers, i \in Ids : booting'[b][i] = "no" <=> booting[b][i] = "no",
         \A b \in Browsers : buried'[b] \subseteq buried[b],
         server' = server, epoch' = epoch, left' \subseteq left,
         generation' \in Nat, generation <= generation',
         generation' = generation => panes' = panes,
         \A b \in Browsers : \A i \in buried'[b] :
           /\ i \in panes' \cup Recorded("socket")' =>
                i \in panes \cup Recorded("socket") \cup left
           /\ server = "serving" /\ i \in panes' => i \in panes
  PROVE  PageInv'
<1>1. PageTypes /\ ServerTypes /\ generation \in Nat
  BY DEF PageInv, RegistryInv, ServerTypes
<1>2. NumbersOK'
  BY <1>1 DEF PageInv, NumbersOK, Told
<1>4. WatchOK'
  <2> SUFFICES ASSUME NEW b \in Browsers
               PROVE  /\ reply[b] # NoReply =>
                           server = "serving" /\ token[b] # 0 /\ reply[b].from = epoch
                             /\ reply[b].generation <= generation'
                      /\ reply[b] # NoReply /\ reply[b].generation = generation'
                           => reply[b].ids = panes'
                      /\ seen[b].from <= epoch
                      /\ seen[b].from = epoch /\ server = "serving" =>
                           seen[b].generation <= generation'
                      /\ server = "recovering" => seen[b].from # epoch
    BY DEF WatchOK
  <2>1. reply[b].generation \in Nat /\ seen[b].generation \in Nat
    BY <1>1 DEF PageTypes, Reply, Seen
  <2>2. QED
    BY <1>1, <2>1 DEF PageInv, WatchOK
<1>5. WatchTruth'
  <2> SUFFICES ASSUME NEW b \in Browsers,
                      seen[b] = [generation |-> generation', from |-> epoch],
                      server = "serving"
               PROVE  remote[b] \ Excluded(b, {}) = panes' \ Excluded(b, {})
    <3>1. \A c \in Browsers : Excluded(c, {})' = Excluded(c, {})
      BY DEF Excluded, Told
    <3>2. QED
      BY <3>1 DEF WatchTruth
  <2>1. seen[b].generation <= generation
    BY DEF PageInv, WatchOK
  <2>2. generation' = generation /\ panes' = panes
    BY <1>1, <2>1
  <2>3. QED
    BY <2>2 DEF PageInv, WatchTruth
<1>6. BuriedGone'
  <2> SUFFICES ASSUME NEW b \in Browsers, NEW i \in buried'[b], closing'[b][i] = "no"
               PROVE  i \notin panes' \cup left' \cup Recorded("socket")' \cup reply[b].ids
    BY DEF BuriedGone
  <2>1. i \in Ids
    BY <1>1 DEF PageTypes
  <2>2. closing[b][i] = "no"
    BY <2>1 DEF Told
  <2>3. i \notin panes \cup left \cup Recorded("socket") \cup reply[b].ids
    BY <2>2 DEF PageInv, BuriedGone
  <2>4. QED
    BY <2>3
<1>7. BuriedAnswered'
  <2> SUFFICES ASSUME NEW b \in Browsers, NEW i \in buried'[b],
                      reply[b] # NoReply, i \notin reply[b].ids,
                      closing'[b][i] \in {"answered", "finished"},
                      i \in panes'
               PROVE  FALSE
    BY DEF BuriedAnswered
  <2>1. server = "serving" /\ i \in panes
    BY DEF PageInv, WatchOK
  <2>2. i \in Ids
    BY <1>1 DEF PageTypes
  <2>3. closing'[b][i] = closing[b][i]
    BY <2>2 DEF Told
  <2>4. QED
    BY <2>1, <2>3 DEF PageInv, BuriedAnswered
<1>8. ClosedStaysClosed'
  BY DEF PageInv, ClosedStaysClosed
<1>9. QED
  BY <1>2, <1>4, <1>5, <1>6, <1>7, <1>8 DEF PageInv

\* When a process starts, begins to serve or goes, no answer is on its way,
\* and what the pages have seen is another process's or none that serves.
LEMMA ServerChanges ==
  ASSUME RegistryInv, PageInv, PageTypes',
         UNCHANGED <<token, panels, remote, closing, booting, nextId, seen>>,
         \A b \in Browsers : buried'[b] \subseteq buried[b],
         \A b \in Browsers : reply'[b] = NoReply,
         epoch' \in Nat, epoch <= epoch',
         server' # "down" => \A b \in Browsers : seen[b].from # epoch',
         \A b \in Browsers : \A i \in buried'[b] :
           i \in panes' \cup left' \cup Recorded("socket")' =>
             i \in panes \cup left \cup Recorded("socket"),
         server' \in {"down", "recovering", "serving"}
  PROVE  PageInv'
<1>1. PageTypes /\ ServerTypes /\ epoch \in Nat
  BY DEF PageInv, RegistryInv, ServerTypes
<1>2. NumbersOK' /\ ClosedStaysClosed'
  BY <1>1 DEF PageInv, NumbersOK, ClosedStaysClosed
<1>3. WatchOK'
  <2>1. \A b \in Browsers : seen[b].from \in Nat /\ seen[b].from <= epoch
    BY <1>1 DEF PageTypes, Seen, PageInv, WatchOK
  <2>2. QED
    BY <1>1, <2>1 DEF WatchOK
<1>4. WatchTruth'
  BY DEF WatchTruth
<1>5. BuriedGone'
  BY DEF PageInv, BuriedGone, NoReply
<1>6. BuriedAnswered'
  BY DEF BuriedAnswered
<1>7. QED
  BY <1>2, <1>3, <1>4, <1>5, <1>6 DEF PageInv

\* A registry that serves: its records say the same, so that only the panes
\* and the calls matter.
LEMMA ServingMoves ==
  ASSUME RegistryInv, PageInv, PageTypes', ServerStep,
         server = "serving", server' = "serving", epoch' = epoch, left' = left,
         UNCHANGED <<token, panels, remote, nextId, reply, seen>>, Told,
         \A b \in Browsers, i \in Ids : booting'[b][i] = "no" <=> booting[b][i] = "no",
         \A b \in Browsers : buried'[b] \subseteq buried[b],
         generation \in Nat => generation' \in Nat /\ generation <= generation',
         generation' = generation => panes' = panes,
         \A b \in Browsers : \A i \in buried'[b] : i \in panes' => i \in panes
  PROVE  PageInv'
<1>1. RegistryInv' /\ generation \in Nat
  BY StepKeeps DEF RegistryInv, ServerTypes
<1>2. Recorded("socket") = panes /\ Recorded("socket")' = panes'
  BY <1>1 DEF RegistryInv, RecordsMatch
<1>3. generation' \in Nat /\ generation <= generation'
  BY <1>1
<1>4. \A b \in Browsers : \A i \in buried'[b] :
        /\ i \in panes' \cup Recorded("socket")' =>
             i \in panes \cup Recorded("socket") \cup left
        /\ server = "serving" /\ i \in panes' => i \in panes
  BY <1>2
<1>5. QED
  BY <1>3, <1>4, ServerMoves

LEMMA BootPages ==
  ASSUME RegistryInv, PageInv, Boot, UNCHANGED browserVars
  PROVE  PageInv'
<1>1. PageTypes' /\ epoch \in Nat
  BY DEF PageInv, PageTypes, RegistryInv, ServerTypes
<1>2. epoch' = epoch + 1 /\ panes' = {} /\ left' = Recorded("socket")
      /\ server' = "recovering" /\ server = "down"
  BY DEF Boot
<1>3. Recorded("socket")' = Recorded("socket")
  BY DEF Boot, Recorded
<1>4. \A b \in Browsers : reply[b] = NoReply /\ seen[b].from <= epoch
                           /\ seen[b].from \in Nat
  BY <1>2 DEF PageInv, WatchOK, PageTypes, Seen
<1>5. \A b \in Browsers : seen[b].from # epoch'
  BY <1>1, <1>2, <1>4
<1>6. epoch' \in Nat /\ epoch <= epoch'
  BY <1>1, <1>2
<1>7. QED
  BY <1>1, <1>2, <1>3, <1>4, <1>5, <1>6, ServerChanges

LEMMA ServesFreshPages ==
  ASSUME RegistryInv, PageInv, ServesFresh
  PROVE  PageInv'
<1>1. PageTypes' /\ epoch \in Nat /\ Harness \in Ids
  BY DEF ServesFresh, PageInv, PageTypes, RegistryInv, ServerTypes, Harness, Ids
<1>2. /\ server = "recovering" /\ server' = "serving" /\ epoch' = epoch /\ left' = {}
      /\ left = {}
  BY DEF ServesFresh, Serve
<1>3. Recorded("socket")' = panes'
  <2>1. RegistryInv'
    BY StepKeeps DEF ServerStep, ServesFresh
  <2>2. QED
    BY <1>2, <2>1 DEF RegistryInv, RecordsMatch
<1>4. \A b \in Browsers : reply[b] = NoReply /\ seen[b].from # epoch
  BY <1>2 DEF PageInv, WatchOK
<1>5. \A b \in Browsers : buried'[b] = buried[b] \ (panes' \ panes)
  BY DEF ServesFresh
<1>6. UNCHANGED <<token, panels, remote, closing, booting, nextId, reply, seen>>
  BY DEF ServesFresh
<1>7. \A b \in Browsers : reply'[b] = NoReply
  BY <1>4, <1>6
<1>8. QED
  BY <1>1, <1>2, <1>3, <1>4, <1>5, <1>6, <1>7, ServerChanges

LEMMA ServerGoesPages ==
  ASSUME RegistryInv, PageInv, ServerGoes
  PROVE  PageInv'
<1>1. Gone /\ epoch \in Nat
  BY DEF ServerGoes, GoesDown, Kill, EndOfInput, Interrupt, RegistryInv, ServerTypes
<1>2. PageTypes'
  BY DEF ServerGoes, PageInv, PageTypes, Reply, NoReply
<1>3. Recorded("socket")' = Recorded("socket") /\ panes' = {} /\ left' = {}
      /\ server' = "down" /\ epoch' = epoch
  BY <1>1 DEF Gone, Recorded
<1>4. /\ UNCHANGED <<token, panels, remote, closing, booting, nextId, seen, buried>>
      /\ \A b \in Browsers : reply'[b] = NoReply
  BY DEF ServerGoes
<1>5. QED
  BY <1>1, <1>2, <1>3, <1>4, ServerChanges

LEMMA RecoverPages ==
  ASSUME RegistryInv, PageInv, Recover, UNCHANGED browserVars
  PROVE  PageInv'
<1>1. PageTypes' /\ ServerTypes /\ server = "recovering"
  BY DEF PageInv, PageTypes, RegistryInv, Recover
<1>2. PICK id \in left :
        /\ left' = left \ {id}
        /\ IF id \in live THEN PaneFor(id) ELSE UNCHANGED registryVars
  BY DEF Recover
<1>3. id \in Ids /\ generation \in Nat
  BY <1>1 DEF ServerTypes
<1>4. /\ generation' \in Nat /\ generation <= generation'
      /\ generation' = generation => panes' = panes
      /\ panes' \cup Recorded("socket")' \subseteq panes \cup Recorded("socket") \cup left
  <2>1. CASE PaneFor(id) /\ id \notin panes
    <3>1. panes' = panes \cup {id} /\ generation' = generation + 1
      BY <2>1 DEF PaneFor
    <3>2. Recorded("socket")' = panes \cup {id}
      BY <1>1, <1>3, <2>1, PaneForRecords
    <3>3. QED
      BY <1>3, <3>1, <3>2
  <2>2. CASE UNCHANGED registryVars
    BY <1>3, <2>2 DEF Recorded
  <2>3. QED
    BY <1>2, <2>1, <2>2 DEF PaneFor
<1>5. server' = server /\ epoch' = epoch /\ Told
  BY DEF Recover, Told
<1>6. QED
  BY <1>1, <1>2, <1>4, <1>5, ServerMoves

\* Calls that do not change the registry ...
LEMMA CallsPages ==
  ASSUME RegistryInv, PageInv, UNCHANGED browserVars, ServerStep, server = "serving",
         UNCHANGED <<registryVars, processVars>>
  PROVE  PageInv'
<1>1. PageTypes' /\ ServerTypes /\ Told
  BY DEF PageInv, PageTypes, RegistryInv, Told
<1>2. UNCHANGED <<server, epoch, left, generation, panes>>
  OBVIOUS
<1>3. QED
  BY <1>1, <1>2, ServingMoves DEF ServerTypes

\* ... and the end of a shutdown, which the page is told of (325-326).
LEMMA StopAnsweredPages ==
  ASSUME RegistryInv, PageInv, NEW c \in calls, StopAnswered(c)
  PROVE  PageInv'
<1>1. /\ PageTypes /\ ServerTypes /\ server = "serving" /\ ServerStep
      /\ UNCHANGED <<token, panels, remote, booting, nextId, reply, seen, buried>>
  BY DEF PageInv, RegistryInv, ProcessOK, StopAnswered, ServerStep
<1>2. closing' = [b \in Browsers |-> [i \in Ids |->
        IF b = c.by /\ i = c.id /\ ~c.alone /\ closing[b][i] = "sent"
        THEN "answered" ELSE closing[b][i]]]
  BY DEF StopAnswered
<1>3. PageTypes'
  <2>1. closing' \in [Browsers -> [Ids -> Closing]]
    BY <1>1, <1>2 DEF PageTypes, Closing
  <2>2. QED
    BY <1>1, <2>1 DEF PageTypes
<1>4. /\ UNCHANGED <<server, epoch, left>> /\ c.id \notin panes'
      /\ generation' \in Nat /\ generation <= generation'
      /\ generation' = generation => panes' = panes
      /\ panes' \subseteq panes
  <2>1. CASE ShutdownAbsent(c)
    BY <1>1, <2>1 DEF ShutdownAbsent, ServerTypes
  <2>2. CASE ShutdownEnds(c)
    <3>1. /\ UNCHANGED <<server, epoch, left>> /\ generation' = generation + 1
          /\ panes' = panes \ {c.id}
      BY <2>2 DEF ShutdownEnds, Forget
    <3>2. QED
      BY <1>1, <3>1 DEF ServerTypes
  <2>3. QED
    BY <2>1, <2>2 DEF StopAnswered
<1>5. Told
  BY <1>1, <1>2, <1>4 DEF Told, PageTypes
<1>6. QED
  BY <1>1, <1>3, <1>4, <1>5, ServingMoves

LEMMA TerminalPages ==
  ASSUME RegistryInv, PageInv, UNCHANGED browserVars, NEW id \in Ids,
         OpenDocument(id) \/ Dies(id)
  PROVE  PageInv'
<1>1. PageTypes' /\ ServerTypes /\ Told
  BY DEF PageInv, PageTypes, RegistryInv, Told
<1>2. CASE OpenDocument(id)
  <2>1. /\ server = "serving" /\ UNCHANGED <<server, epoch, left, panes, calls>>
        /\ generation' = generation + 1 /\ ServerStep
    BY <1>2 DEF OpenDocument, Changing, ServerStep
  <2>2. QED
    BY <1>1, <2>1, ServingMoves DEF ServerTypes
<1>3. CASE Dies(id)
  <2>1. UNCHANGED <<server, epoch, left, panes, generation, record, calls>>
    BY <1>3 DEF Dies
  <2>2. Recorded("socket")' = Recorded("socket")
    BY <2>1 DEF Recorded
  <2>3. QED
    BY <1>1, <2>1, <2>2, ServerMoves DEF ServerTypes
<1>4. QED
  BY <1>2, <1>3

\* Another browser, or a page, begins a start: whoever buried the pane no
\* longer counts on its being gone.
LEMMA StartPages ==
  ASSUME RegistryInv, PageInv, PageTypes', NEW o \in Callers, NEW id \in Ids,
         NEW apart \in BOOLEAN, StartBegins(o, id, apart),
         UNCHANGED <<token, panels, remote, closing, nextId, reply, seen>>,
         \A b \in Browsers, i \in Ids : booting'[b][i] = "no" <=> booting[b][i] = "no",
         \A b \in Browsers : buried'[b] = buried[b] \ {id}
  PROVE  PageInv'
<1>1. ServerTypes /\ ServerStep /\ server = "serving"
      /\ UNCHANGED <<server, epoch, left>> /\ Told
  BY DEF RegistryInv, ServerStep, StartBegins, Changing, Told
<1>2. /\ generation' \in Nat /\ generation <= generation'
      /\ generation' = generation => panes' = panes
      /\ panes' \subseteq panes \cup {id}
  BY <1>1 DEF StartBegins, PaneFor, ServerTypes
<1>3. QED
  BY <1>1, <1>2, ServingMoves

LEMMA OtherStartsPages ==
  ASSUME RegistryInv, PageInv, NEW o \in Callers, NEW id \in Ids, OtherStarts(o, id)
  PROVE  PageInv'
<1>1. PageTypes'
  BY DEF OtherStarts, PageInv, PageTypes
<1>2. /\ UNCHANGED <<token, panels, remote, closing, booting, nextId, reply, seen>>
      /\ StartBegins(o, id, TRUE) /\ \A b \in Browsers : buried'[b] = buried[b] \ {id}
  BY DEF OtherStarts
<1>3. QED
  BY <1>1, <1>2, StartPages

LEMMA OtherClosesPages ==
  ASSUME RegistryInv, PageInv, NEW o \in Callers, NEW id \in Ids, OtherCloses(o, id)
  PROVE  PageInv'
<1>1. PageTypes' /\ ServerTypes /\ UNCHANGED browserVars /\ Told
  BY DEF OtherCloses, PageInv, PageTypes, RegistryInv, Told
<1>2. /\ UNCHANGED <<server, epoch, left, panes, generation>> /\ ServerStep
      /\ server = "serving"
  BY DEF OtherCloses, ShutdownArrives, ServerStep
<1>3. QED
  BY <1>1, <1>2, ServingMoves DEF ServerTypes
-----------------------------------------------------------------------------
(* Steps of a page.                                                        *)

\* A page is loaded with nothing closed and nothing buried (133-138).
LEMMA LoadPages ==
  ASSUME RegistryInv, PageInv, NEW b \in Browsers, Load(b)
  PROVE  PageInv'
<1>1. PageTypes /\ ServerTypes /\ UNCHANGED serverVars /\ epoch # 0 /\ server = "serving"
  BY DEF PageInv, RegistryInv, ProcessOK, Load
<1>2. /\ Max(panes \cup {1}) \in Ids
      /\ \A i \in panes : i <= Max(panes \cup {1})
  <2>1. panes \cup {1} \in SUBSET Ids /\ panes \cup {1} # {}
    BY <1>1 DEF ServerTypes, Ids
  <2>2. QED
    BY <2>1, LastPane
<1>3. PageTypes'
  BY <1>1, <1>2 DEF Load, PageTypes, ServerTypes, Closing, Seen, NotSeen, Reply, NoReply
<1>4. /\ \A c \in Browsers \ {b} :
           /\ token'[c] = token[c] /\ panels'[c] = panels[c] /\ remote'[c] = remote[c]
           /\ closing'[c] = closing[c] /\ booting'[c] = booting[c]
           /\ nextId'[c] = nextId[c] /\ reply'[c] = reply[c] /\ seen'[c] = seen[c]
           /\ buried'[c] = buried[c]
      /\ panels'[b] = panes /\ remote'[b] = {} /\ nextId'[b] = Max(panes \cup {1})
      /\ \A i \in Ids : closing'[b][i] = "no" /\ booting'[b][i] = "no"
      /\ reply'[b] = NoReply /\ seen'[b] = NotSeen /\ buried'[b] = {}
  BY <1>1 DEF Load, PageTypes
<1>5. NumbersOK'
  <2> SUFFICES ASSUME NEW c \in Browsers, NEW i \in Ids,
                      \/ i \in panels'[c] \cup buried'[c] \/ closing'[c][i] # "no"
                      \/ booting'[c][i] # "no"
               PROVE  i <= nextId'[c]
    BY DEF NumbersOK
  <2>1. CASE c = b
    <3>1. i \in panes
      BY <1>4, <2>1
    <3>2. i <= Max(panes \cup {1})
      BY <1>2, <3>1
    <3>3. nextId'[c] = Max(panes \cup {1})
      BY <1>4, <2>1
    <3>4. QED
      BY <3>2, <3>3
  <2>2. CASE c # b
    BY <1>4, <2>2 DEF PageInv, NumbersOK
  <2>3. QED
    BY <2>1, <2>2
<1>7. WatchOK'
  BY <1>1, <1>4 DEF PageInv, WatchOK, ServerTypes, NotSeen
<1>8. WatchTruth'
  BY <1>1, <1>4 DEF PageInv, WatchTruth, Excluded, NotSeen
<1>9. BuriedGone' /\ BuriedAnswered' /\ ClosedStaysClosed'
  <2>1. UNCHANGED <<panes, left, record, calls>> /\ Recorded("socket")' = Recorded("socket")
    BY <1>1 DEF Recorded
  <2>2. QED
    BY <1>4, <2>1 DEF PageInv, BuriedGone, BuriedAnswered, ClosedStaysClosed
<1>10. QED
  BY <1>3, <1>5, <1>7, <1>8, <1>9 DEF PageInv

\* A new terminal has a number that was neither shown nor closed (115-118).
LEMMA OpenTerminalPages ==
  ASSUME RegistryInv, PageInv, NEW b \in Browsers, OpenTerminal(b)
  PROVE  PageInv'
<1> DEFINE id == nextId[b] + 1
<1>1. PageTypes /\ UNCHANGED <<serverVars, token, remote, closing, reply, seen, buried>>
      /\ UNCHANGED Recorded("socket")
  BY DEF PageInv, OpenTerminal, Recorded
<1>2. nextId[b] \in Ids /\ nextId[b] < MaxId /\ id \in Ids /\ id > nextId[b]
  BY <1>1 DEF OpenTerminal, PageTypes, Ids
<1>3. /\ nextId' = [nextId EXCEPT ![b] = id]
      /\ IF id \in panels[b] THEN UNCHANGED <<panels, booting>>
         ELSE /\ panels' = [panels EXCEPT ![b] = @ \cup {id}]
              /\ booting' = [booting EXCEPT ![b][id] = "look"]
  BY DEF OpenTerminal, Number
<1>4. id \notin panels[b] /\ id \notin buried[b] /\ closing[b][id] = "no"
  <2>1. ~(id <= nextId[b])
    BY <1>2 DEF Ids
  <2>2. QED
    BY <1>2, <2>1 DEF PageInv, NumbersOK
<1> HIDE DEF id
<1>5. PageTypes'
  <2>1. panels' = [panels EXCEPT ![b] = @ \cup {id}]
        /\ booting' = [booting EXCEPT ![b][id] = "look"]
    BY <1>3, <1>4
  <2>2. panels' \in [Browsers -> SUBSET Ids] /\ nextId' \in [Browsers -> Ids]
    BY <1>1, <1>2, <1>3, <2>1 DEF PageTypes
  <2>3. booting' \in [Browsers -> [Ids -> {"no", "look", "start"}]]
    BY <1>1, <1>2, <2>1 DEF PageTypes
  <2>4. QED
    BY <1>1, <2>2, <2>3 DEF PageTypes
<1>6. /\ panels'[b] = panels[b] \cup {id} /\ nextId'[b] = id
      /\ \A i \in Ids \ {id} : booting'[b][i] = booting[b][i]
      /\ \A c \in Browsers \ {b} : panels'[c] = panels[c] /\ booting'[c] = booting[c]
                                   /\ nextId'[c] = nextId[c]
  BY <1>1, <1>2, <1>3, <1>4 DEF PageTypes
<1>7. NumbersOK'
  BY <1>1, <1>2, <1>6 DEF PageInv, NumbersOK, Ids
<1>9. WatchOK' /\ WatchTruth' /\ BuriedGone' /\ BuriedAnswered'
  BY <1>1 DEF PageInv, WatchOK, WatchTruth, Excluded, BuriedGone, BuriedAnswered
<1>10. ClosedStaysClosed'
  BY <1>1, <1>4, <1>6 DEF PageInv, ClosedStaysClosed
<1>11. QED
  BY <1>5, <1>7, <1>9, <1>10 DEF PageInv

\* A boot goes on, or settles (content.js 274-318).
LEMMA SettledPages ==
  ASSUME RegistryInv, PageInv, NEW b \in Browsers, NEW id \in Ids,
         BootEnds(b, id) \/ BootAnswered(b, id)
  PROVE  PageInv'
<1>1. PageTypes /\ UNCHANGED <<serverVars, token, panels, remote, closing, nextId,
                               reply, seen, buried>>
      /\ UNCHANGED Recorded("socket")
      /\ booting' = [booting EXCEPT ![b][id] = "no"]
  BY DEF PageInv, BootEnds, BootAnswered, Settled, Recorded
<1>2. PageTypes'
  BY <1>1 DEF PageTypes
<1>3. \A c \in Browsers, i \in Ids : booting[c][i] = "no" => booting'[c][i] = "no"
  BY <1>1 DEF PageTypes
<1>4. NumbersOK'
  BY <1>1, <1>3 DEF PageInv, NumbersOK
<1>5. WatchOK' /\ WatchTruth' /\ BuriedGone' /\ BuriedAnswered' /\ ClosedStaysClosed'
  BY <1>1 DEF PageInv, WatchOK, WatchTruth, Excluded, BuriedGone, BuriedAnswered,
     ClosedStaysClosed
<1>6. QED
  BY <1>2, <1>4, <1>5 DEF PageInv

LEMMA BootStartsPages ==
  ASSUME RegistryInv, PageInv, NEW b \in Browsers, NEW id \in Ids, BootStarts(b, id)
  PROVE  PageInv'
<1>1. PageTypes /\ StartBegins(b, id, FALSE) /\ booting[b][id] = "look" /\ b \in Callers
      /\ UNCHANGED <<token, panels, remote, closing, nextId, reply, seen>>
      /\ booting' = [booting EXCEPT ![b][id] = "start"]
      /\ buried' = [c \in Browsers |-> buried[c] \ {id}]
  BY DEF PageInv, BootStarts
<1>2. PageTypes'
  BY <1>1 DEF PageTypes
<1>3. \A c \in Browsers, i \in Ids : booting'[c][i] = "no" <=> booting[c][i] = "no"
  BY <1>1 DEF PageTypes
<1>4. QED
  BY <1>1, <1>2, <1>3, StartPages

\* The user closes a pane (32-44).
LEMMA ClosePanelPages ==
  ASSUME RegistryInv, PageInv, NEW b \in Browsers, NEW id \in Ids, ClosePanel(b, id)
  PROVE  PageInv'
<1>1. PageTypes /\ id \in panels[b] /\ UNCHANGED Recorded("socket")
      /\ UNCHANGED <<serverVars, token, remote, booting, nextId, reply, seen>>
      /\ panels' = [panels EXCEPT ![b] = @ \ {id}]
      /\ closing' = [closing EXCEPT ![b][id] = "pending"]
      /\ buried' = [buried EXCEPT ![b] = @ \cup {id}]
  BY DEF PageInv, ClosePanel, Recorded
<1>2. PageTypes'
  BY <1>1 DEF PageTypes, Closing
<1>3. /\ panels'[b] = panels[b] \ {id} /\ buried'[b] = buried[b] \cup {id}
      /\ closing'[b][id] = "pending"
      /\ \A i \in Ids \ {id} : closing'[b][i] = closing[b][i]
      /\ \A c \in Browsers \ {b} : panels'[c] = panels[c] /\ buried'[c] = buried[c]
                                   /\ closing'[c] = closing[c]
  BY <1>1 DEF PageTypes
<1>4. NumbersOK'
  BY <1>1, <1>3 DEF PageInv, NumbersOK
<1>6. WatchOK'
  BY <1>1 DEF PageInv, WatchOK
<1>7. WatchTruth'
  <2>1. \A c \in Browsers : Excluded(c, {}) \subseteq Excluded(c, {})'
    BY <1>3 DEF Excluded
  <2>2. QED
    BY <1>1, <2>1 DEF PageInv, WatchTruth
<1>8. BuriedGone'
  BY <1>1, <1>3 DEF PageInv, BuriedGone, PageTypes
<1>9. BuriedAnswered'
  BY <1>1, <1>3 DEF PageInv, BuriedAnswered, PageTypes
<1>10. ClosedStaysClosed'
  BY <1>1, <1>3 DEF PageInv, ClosedStaysClosed
<1>11. QED
  BY <1>2, <1>4, <1>6, <1>7, <1>8, <1>9, <1>10 DEF PageInv

\* A shutdown is asked for when the boot has settled, and ends (37-43, 82-87).
LEMMA StopAsksPages ==
  ASSUME RegistryInv, PageInv, NEW b \in Browsers, NEW id \in Ids, StopAsks(b, id)
  PROVE  PageInv'
<1>1. /\ PageTypes /\ RecordsMatch /\ UNCHANGED <<registryVars, processVars, live>>
      /\ UNCHANGED <<token, panels, remote, booting, nextId, reply, seen, buried>>
      /\ UNCHANGED Recorded("socket")
      /\ closing[b][id] = "pending" /\ booting[b][id] = "no"
      /\ closing' = [closing EXCEPT ![b][id] = "sent"]
  BY DEF PageInv, RegistryInv, StopAsks, ShutdownArrives, Recorded
<1>2. PageTypes'
  BY <1>1 DEF PageTypes, Closing
<1>3. /\ closing'[b][id] = "sent"
      /\ \A i \in Ids \ {id} : closing'[b][i] = closing[b][i]
      /\ \A c \in Browsers \ {b} : closing'[c] = closing[c]
  BY <1>1 DEF PageTypes
<1>4. NumbersOK'
  BY <1>1, <1>3 DEF PageInv, NumbersOK
<1>6. WatchOK'
  BY <1>1 DEF PageInv, WatchOK
<1>7. WatchTruth'
  <2>1. \A c \in Browsers : Excluded(c, {})' = Excluded(c, {})
    BY <1>1, <1>3 DEF Excluded
  <2>2. QED
    BY <1>1, <2>1 DEF PageInv, WatchTruth
<1>8. BuriedGone'
  BY <1>1, <1>3 DEF PageInv, BuriedGone, PageTypes
<1>9. BuriedAnswered'
  BY <1>1, <1>3 DEF PageInv, BuriedAnswered, PageTypes
<1>10. ClosedStaysClosed'
  BY <1>1 DEF PageInv, ClosedStaysClosed
<1>11. QED
  BY <1>2, <1>4, <1>6, <1>7, <1>8, <1>9, <1>10 DEF PageInv

LEMMA StopEndsPages ==
  ASSUME RegistryInv, PageInv, NEW b \in Browsers, NEW id \in Ids, StopEnds(b, id)
  PROVE  PageInv'
<1>1. /\ PageTypes /\ UNCHANGED serverVars
      /\ UNCHANGED <<token, panels, remote, booting, nextId, reply, seen, buried>>
      /\ UNCHANGED Recorded("socket")
      /\ closing[b][id] = "answered" \/ reply[b] = NoReply
      /\ closing[b][id] \in {"answered", "sent", "pending"}
      /\ closing' = [closing EXCEPT ![b][id] = "finished"]
  BY DEF PageInv, StopEnds, NothingUnderWay, Recorded
<1>2. PageTypes'
  BY <1>1 DEF PageTypes, Closing
<1>3. /\ closing'[b][id] = "finished"
      /\ \A i \in Ids \ {id} : closing'[b][i] = closing[b][i]
      /\ \A c \in Browsers \ {b} : closing'[c] = closing[c]
  BY <1>1 DEF PageTypes
<1>4. NumbersOK'
  BY <1>1, <1>3 DEF PageInv, NumbersOK
<1>6. WatchOK'
  BY <1>1 DEF PageInv, WatchOK
<1>7. WatchTruth'
  <2>1. \A c \in Browsers : Excluded(c, {})' = Excluded(c, {})
    BY <1>1, <1>3 DEF Excluded
  <2>2. QED
    BY <1>1, <2>1 DEF PageInv, WatchTruth
<1>8. BuriedGone'
  BY <1>1, <1>3 DEF PageInv, BuriedGone, PageTypes
<1>9. BuriedAnswered'
  <2> SUFFICES ASSUME NEW c \in Browsers, NEW i \in buried[c], reply[c] # NoReply,
                      i \notin reply[c].ids, closing'[c][i] \in {"answered", "finished"}
               PROVE  i \notin panes
    BY <1>1 DEF BuriedAnswered
  <2>1. closing[c][i] \in {"answered", "finished"}
    <3>1. CASE c = b /\ i = id
      BY <1>1, <3>1
    <3>2. CASE ~(c = b /\ i = id)
      <4>1. i \in Ids
        BY <1>1 DEF PageTypes
      <4>2. QED
        BY <1>3, <3>2, <4>1
    <3>3. QED
      BY <3>1, <3>2
  <2>2. QED
    BY <2>1 DEF PageInv, BuriedAnswered
<1>10. ClosedStaysClosed'
  BY <1>1 DEF PageInv, ClosedStaysClosed
<1>11. QED
  BY <1>2, <1>4, <1>6, <1>7, <1>8, <1>9, <1>10 DEF PageInv

\* The watch answers with the present registry (core.janet 479-488).
LEMMA WatchRepliesPages ==
  ASSUME RegistryInv, PageInv, NEW b \in Browsers, WatchReplies(b)
  PROVE  PageInv'
<1>1. /\ PageTypes /\ ServerTypes /\ UNCHANGED <<serverVars, token, pageVars, seen, buried>>
      /\ UNCHANGED Recorded("socket")
      /\ server = "serving" /\ token[b] # 0
      /\ reply' = [reply EXCEPT ![b] =
           [ids |-> panes, generation |-> generation, from |-> epoch]]
  BY DEF PageInv, RegistryInv, ProcessOK, WatchReplies, Connected, Recorded
<1>2. PageTypes'
  BY <1>1 DEF PageTypes, ServerTypes, Reply
<1>3. /\ reply'[b] = [ids |-> panes, generation |-> generation, from |-> epoch]
      /\ \A c \in Browsers \ {b} : reply'[c] = reply[c]
  BY <1>1 DEF PageTypes
<1>4. NumbersOK' /\ WatchTruth' /\ ClosedStaysClosed'
  BY <1>1 DEF PageInv, NumbersOK, WatchTruth, Excluded, ClosedStaysClosed
<1>5. WatchOK'
  BY <1>1, <1>3 DEF PageInv, WatchOK, ServerTypes
<1>6. BuriedGone'
  BY <1>1, <1>3 DEF PageInv, BuriedGone
<1>7. BuriedAnswered'
  BY <1>1, <1>3 DEF PageInv, BuriedAnswered
<1>8. QED
  BY <1>2, <1>4, <1>5, <1>6, <1>7 DEF PageInv

\* A page asks for the new process's token (transport.js 38-45).
LEMMA RefreshSessionPages ==
  ASSUME RegistryInv, PageInv, NEW b \in Browsers, RefreshSession(b)
  PROVE  PageInv'
<1>1. /\ PageTypes /\ ServerTypes /\ UNCHANGED <<serverVars, pageVars, reply, seen, buried>>
      /\ UNCHANGED Recorded("socket")
      /\ server = "serving" /\ epoch # 0
      /\ token' = [token EXCEPT ![b] = epoch]
  BY DEF PageInv, RegistryInv, ProcessOK, RefreshSession, Serving, Recorded
<1>2. PageTypes'
  BY <1>1 DEF PageTypes, ServerTypes
<1>3. \A c \in Browsers : token'[c] # 0 \/ token'[c] = token[c]
  BY <1>1 DEF PageTypes
<1>4. NumbersOK' /\ ClosedStaysClosed' /\ BuriedGone' /\ BuriedAnswered' /\ WatchTruth'
  BY <1>1 DEF PageInv, NumbersOK, ClosedStaysClosed, BuriedGone,
     BuriedAnswered, WatchTruth, Excluded
<1>5. WatchOK'
  BY <1>1, <1>3 DEF PageInv, WatchOK
<1>6. QED
  BY <1>2, <1>4, <1>5 DEF PageInv

\* An update arrives: a pane that is not being closed here is shown only if it
\* was not closed here, and a pane whose closing is over is gone (97-114).
LEMMA SyncPanesPages ==
  ASSUME RegistryInv, PageInv, NEW b \in Browsers, SyncPanes(b)
  PROVE  PageInv'
<1> DEFINE ids == reply[b].ids
           wanted == ids \ Excluded(b, ids)
           shut == {i \in remote[b] : i \notin wanted}
<1>1. /\ PageTypes /\ ServerTypes /\ RecordsMatch /\ left = {}
      /\ UNCHANGED <<serverVars, token, booting, buried>> /\ UNCHANGED Recorded("socket")
      /\ reply[b] # NoReply /\ server = "serving"
  BY DEF PageInv, RegistryInv, ProcessOK, WatchOK, SyncPanes, Recorded
<1>2. /\ reply' = [reply EXCEPT ![b] = NoReply]
      /\ seen' = [seen EXCEPT ![b] =
                    [generation |-> reply[b].generation, from |-> reply[b].from]]
      /\ closing' = [closing EXCEPT ![b] = [i \in Ids |->
           IF @[i] = "finished" /\ i \notin ids THEN "no" ELSE @[i]]]
      /\ panels' = [panels EXCEPT ![b] = (@ \ shut) \cup wanted]
      /\ remote' = [remote EXCEPT ![b] = wanted]
      /\ nextId' = [nextId EXCEPT ![b] = Max(wanted \cup {@})]
  BY DEF SyncPanes
<1>3. ids \subseteq Ids /\ wanted \subseteq Ids /\ nextId[b] \in Ids
      /\ reply[b].generation \in Nat /\ reply[b].from \in 0 .. MaxServers
  BY <1>1 DEF PageTypes, Reply
<1>4. \A i \in wanted : i \in ids /\ closing[b][i] = "no"
  BY <1>3 DEF Excluded
<1> HIDE DEF wanted, shut
<1>5. /\ Max(wanted \cup {nextId[b]}) \in Ids
      /\ \A i \in wanted : i <= Max(wanted \cup {nextId[b]})
      /\ nextId[b] <= Max(wanted \cup {nextId[b]})
  <2>1. wanted \cup {nextId[b]} \in SUBSET Ids /\ wanted \cup {nextId[b]} # {}
    BY <1>3
  <2>2. QED
    BY <2>1, LastPane
<1>6. /\ reply'[b] = NoReply
      /\ seen'[b] = [generation |-> reply[b].generation, from |-> reply[b].from]
      /\ \A i \in Ids : closing'[b][i] =
           IF closing[b][i] = "finished" /\ i \notin ids THEN "no" ELSE closing[b][i]
      /\ panels'[b] = (panels[b] \ shut) \cup wanted /\ remote'[b] = wanted
      /\ nextId'[b] = Max(wanted \cup {nextId[b]})
      /\ \A c \in Browsers \ {b} :
           /\ reply'[c] = reply[c] /\ seen'[c] = seen[c] /\ closing'[c] = closing[c]
           /\ panels'[c] = panels[c] /\ remote'[c] = remote[c] /\ nextId'[c] = nextId[c]
  BY <1>1, <1>2 DEF PageTypes
<1>7. PageTypes'
  <2>1. closing' \in [Browsers -> [Ids -> Closing]]
    <3>1. closing[b] \in [Ids -> Closing]
      BY <1>1 DEF PageTypes
    <3>2. [i \in Ids |-> IF closing[b][i] = "finished" /\ i \notin ids
                         THEN "no" ELSE closing[b][i]] \in [Ids -> Closing]
      BY <3>1 DEF Closing
    <3>3. QED
      BY <1>1, <1>2, <3>2 DEF PageTypes
  <2>2. panels' \in [Browsers -> SUBSET Ids] /\ remote' \in [Browsers -> SUBSET Ids]
    BY <1>1, <1>2, <1>3 DEF PageTypes
  <2>3. nextId' \in [Browsers -> Ids]
    BY <1>1, <1>2, <1>5 DEF PageTypes
  <2>4. reply' \in [Browsers -> Reply]
    BY <1>1, <1>2 DEF PageTypes, Reply, NoReply
  <2>5. seen' \in [Browsers -> Seen]
    BY <1>1, <1>2, <1>3 DEF PageTypes, Seen
  <2>6. QED
    BY <1>1, <2>1, <2>2, <2>3, <2>4, <2>5 DEF PageTypes
<1>8. NumbersOK'
  <2> SUFFICES ASSUME NEW c \in Browsers, NEW i \in Ids,
                      \/ i \in panels'[c] \cup buried[c] \/ closing'[c][i] # "no"
                      \/ booting[c][i] # "no"
               PROVE  i <= nextId'[c]
    BY <1>1 DEF NumbersOK
  <2>1. CASE c # b
    BY <1>6, <2>1 DEF PageInv, NumbersOK
  <2>2. CASE c = b /\ i \in wanted
    BY <1>5, <1>6, <2>2
  <2>3. CASE c = b /\ i \notin wanted
    <3>1. \/ i \in panels[b] \cup buried[b] \/ closing[b][i] # "no"
          \/ booting[b][i] # "no"
      BY <1>6, <2>3
    <3>2. i <= nextId[b]
      BY <3>1 DEF PageInv, NumbersOK
    <3>3. PICK m \in Ids : nextId'[b] = m /\ nextId[b] <= m
      BY <1>5, <1>6
    <3>4. i <= m
      BY <1>3, <3>2, <3>3 DEF Ids
    <3>5. QED
      BY <2>3, <3>3, <3>4
  <2>4. QED
    BY <2>1, <2>2, <2>3
<1>10. WatchOK'
  <2>1. reply[b].from = epoch /\ reply[b].generation <= generation /\ epoch \in Nat
    BY <1>1 DEF PageInv, WatchOK, ServerTypes
  <2>2. /\ reply'[b] = NoReply /\ seen'[b].from = epoch
        /\ seen'[b].generation = reply[b].generation
    BY <1>6, <2>1
  <2>3. \A c \in Browsers \ {b} : reply'[c] = reply[c] /\ seen'[c] = seen[c]
    BY <1>6
  <2>4. UNCHANGED <<server, epoch, generation, panes, token>>
    BY <1>1
  <2>5. QED
    BY <1>1, <2>1, <2>2, <2>3, <2>4 DEF PageInv, WatchOK
<1>11. WatchTruth'
  <2> SUFFICES ASSUME NEW c \in Browsers,
                      seen'[c] = [generation |-> generation, from |-> epoch]
               PROVE  remote'[c] \ Excluded(c, {})' = panes \ Excluded(c, {})'
    BY <1>1 DEF WatchTruth
  <2>1. CASE c # b
    BY <1>1, <1>6, <2>1 DEF PageInv, WatchTruth, Excluded
  <2>2. CASE c = b
    <3>1. ids = panes
      BY <1>1, <1>6, <2>2 DEF PageInv, WatchOK
    <3>2. wanted = {i \in ids : closing[b][i] = "no"}
      BY <1>3 DEF wanted, Excluded
    <3>3. Excluded(b, {})' = {i \in Ids : closing'[b][i] # "no"}
      BY DEF Excluded
    <3>4. wanted \ Excluded(b, {})' = ids \ Excluded(b, {})'
      BY <1>3, <1>6, <3>2, <3>3
    <3>5. QED
      BY <1>6, <2>2, <3>1, <3>4
  <2>3. QED
    BY <2>1, <2>2
<1>12. BuriedGone'
  <2> SUFFICES ASSUME NEW c \in Browsers, NEW i \in buried[c], closing'[c][i] = "no"
               PROVE  i \notin panes \cup left \cup Recorded("socket") \cup reply'[c].ids
    BY <1>1 DEF BuriedGone
  <2>1. CASE c # b
    BY <1>6, <2>1 DEF PageInv, BuriedGone
  <2>2. CASE c = b /\ closing[b][i] = "no"
    BY <1>6, <2>2 DEF PageInv, BuriedGone, NoReply
  <2>3. CASE c = b /\ closing[b][i] # "no"
    <3>1. i \in Ids
      BY <1>1 DEF PageTypes
    <3>2. closing[b][i] = "finished" /\ i \notin ids
      BY <1>6, <2>3, <3>1
    <3>3. i \notin panes
      BY <1>1, <2>3, <3>2 DEF PageInv, BuriedAnswered
    <3>4. QED
      BY <1>1, <1>6, <2>3, <3>3 DEF RecordsMatch, NoReply
  <2>4. QED
    BY <2>1, <2>2, <2>3
<1>13. BuriedAnswered'
  <2>1. /\ reply'[b] = NoReply
        /\ \A c \in Browsers \ {b} : reply'[c] = reply[c] /\ closing'[c] = closing[c]
    BY <1>6
  <2>2. UNCHANGED <<panes, calls, buried>>
    BY <1>1
  <2>3. QED
    BY <2>1, <2>2 DEF PageInv, BuriedAnswered
<1>14. ClosedStaysClosed'
  <2>1. \A i \in wanted : i \notin buried[b]
    BY <1>4 DEF PageInv, BuriedGone
  <2>2. QED
    BY <1>1, <1>6, <2>1 DEF PageInv, ClosedStaysClosed
<1>15. QED
  BY <1>7, <1>8, <1>10, <1>11, <1>12, <1>13, <1>14 DEF PageInv
-----------------------------------------------------------------------------
(* The invariant, and what follows from it.                                *)

\* Nothing is there at first.
LEMMA Initially == Init => IInv
<1> SUFFICES ASSUME Init PROVE IInv
  OBVIOUS
<1>1. RegistryInv
  BY DEF Init, ServerInit, RegistryInv, ServerTypes, ProcessOK, RecoveryOK, StartsOK,
     RecordsMatch
<1>2. PageTypes
  BY DEF Init, PageTypes, Closing, Reply, NoReply, Seen, NotSeen, Ids
<1>3. NumbersOK /\ BuriedGone /\ BuriedAnswered /\ ClosedStaysClosed
  BY DEF Init, NumbersOK, BuriedGone, BuriedAnswered, ClosedStaysClosed
<1>4. WatchOK /\ WatchTruth
  BY DEF Init, ServerInit, WatchOK, WatchTruth, NoReply, NotSeen
<1>5. QED
  BY <1>1, <1>2, <1>3, <1>4 DEF IInv, PageInv

\* Every step is one of the server, with or without a page, or a page's own.
LEMMA ServerOrPage ==
  ASSUME RegistryInv, Next
  PROVE  ServerStep \/ UNCHANGED serverVars
<1>1. calls \subseteq Call /\ \A c \in Call : c.by \in Callers /\ c.id \in Ids
  BY DEF RegistryInv, ServerTypes, Call
<1>2. CASE ServerNext
  BY <1>2 DEF ServerNext, ServerStep
<1>3. CASE ServerGoes \/ ServesFresh
  BY <1>3 DEF ServerGoes, ServesFresh, ServerStep
<1>4. ASSUME NEW o \in Callers, NEW id \in Ids, OtherStarts(o, id) \/ OtherCloses(o, id)
      PROVE  ServerStep
  BY <1>4 DEF OtherStarts, OtherCloses, ServerStep
<1>5. ASSUME NEW c \in calls, StopAnswered(c) PROVE ServerStep
  BY <1>5 DEF ServerStep, StopAnswered
<1>6. ASSUME NEW b \in Browsers,
             Load(b) \/ OpenTerminal(b) \/ WatchReplies(b) \/ RefreshSession(b) \/ SyncPanes(b)
      PROVE  UNCHANGED serverVars
  BY <1>6 DEF Load, OpenTerminal, WatchReplies, RefreshSession, SyncPanes
<1>7. ASSUME NEW b \in Browsers, NEW id \in Ids,
             BootEnds(b, id) \/ BootAnswered(b, id) \/ ClosePanel(b, id) \/ StopEnds(b, id)
      PROVE  UNCHANGED serverVars
  BY <1>7 DEF BootEnds, BootAnswered, ClosePanel, StopEnds
<1>8. ASSUME NEW b \in Browsers, NEW id \in Ids, BootStarts(b, id) \/ StopAsks(b, id)
      PROVE  ServerStep
  BY <1>8 DEF BootStarts, StopAsks, ServerStep
<1>9. QED
  BY <1>2, <1>3, <1>4, <1>5, <1>6, <1>7, <1>8 DEF Next

LEMMA StepKeepsPages ==
  ASSUME RegistryInv, PageInv, Next
  PROVE  PageInv'
<1>1. CASE ServerNext /\ UNCHANGED browserVars
  <2>1. ASSUME \/ \E c \in calls :
                    Starts(c) \/ StartEnds(c) \/ ShutdownBegins(c) \/ ShutsDown(c)
               \/ \E b \in Callers : SocketLost(b)
        PROVE  PageInv'
    <3>1. ServerStep
      BY <2>1 DEF ServerStep
    <3>2. UNCHANGED <<registryVars, processVars>> /\ calls # {}
      BY <2>1 DEF Starts, StartEnds, ShutdownBegins, ShutsDown, SocketLost
    <3>3. server = "serving"
      BY <3>2 DEF RegistryInv, ProcessOK
    <3>4. QED
      BY <1>1, <3>1, <3>2, <3>3, CallsPages
  <2>2. QED
    BY <1>1, <2>1, BootPages, RecoverPages, TerminalPages DEF ServerNext
<1>2. CASE ServerGoes \/ ServesFresh
  BY <1>2, ServerGoesPages, ServesFreshPages
<1>3. ASSUME NEW o \in Callers, NEW id \in Ids, OtherStarts(o, id) \/ OtherCloses(o, id)
      PROVE  PageInv'
  BY <1>3, OtherStartsPages, OtherClosesPages
<1>4. ASSUME NEW c \in calls, StopAnswered(c) PROVE PageInv'
  BY <1>4, StopAnsweredPages
<1>5. ASSUME NEW b \in Browsers,
             Load(b) \/ OpenTerminal(b) \/ WatchReplies(b) \/ RefreshSession(b) \/ SyncPanes(b)
      PROVE  PageInv'
  BY <1>5, LoadPages, OpenTerminalPages, WatchRepliesPages, RefreshSessionPages,
     SyncPanesPages
<1>6. ASSUME NEW b \in Browsers, NEW id \in Ids,
             \/ BootEnds(b, id) \/ BootStarts(b, id) \/ BootAnswered(b, id)
             \/ ClosePanel(b, id) \/ StopAsks(b, id) \/ StopEnds(b, id)
      PROVE  PageInv'
  BY <1>6, SettledPages, BootStartsPages, ClosePanelPages, StopAsksPages, StopEndsPages
<1>7. QED
  BY <1>1, <1>2, <1>3, <1>4, <1>5, <1>6 DEF Next

\* The invariants of the registry and the pages are inductive.
THEOREM Invariant == Spec => []IInv
<1>1. IInv /\ [Next]_vars => IInv'
  <2> SUFFICES ASSUME IInv, [Next]_vars PROVE IInv'
    OBVIOUS
  <2>1. CASE Next
    <3>1. RegistryInv'
      <4>1. CASE ServerStep
        BY <4>1, StepKeeps DEF IInv
      <4>2. CASE UNCHANGED serverVars
        BY <4>2 DEF IInv, RegistryInv, ServerTypes, ProcessOK, RecoveryOK, StartsOK,
           RecordsMatch, Recorded
      <4>3. QED
        BY <2>1, <4>1, <4>2, ServerOrPage DEF IInv
    <3>2. QED
      BY <2>1, <3>1, StepKeepsPages DEF IInv
  <2>2. CASE UNCHANGED vars
    BY <2>2 DEF vars, IInv, RegistryInv, ServerTypes, ProcessOK, RecoveryOK, StartsOK,
       RecordsMatch, Recorded, PageInv, PageTypes, NumbersOK, WatchOK,
       WatchTruth, Excluded, BuriedGone, BuriedAnswered, ClosedStaysClosed
  <2>3. QED
    BY <2>1, <2>2
<1>2. QED
  BY <1>1, Initially, PTL DEF Spec

\* Every variable keeps its type (core.janet's registry, workspace.js's panels).
THEOREM Types == Spec => []TypeOK
<1>1. IInv => TypeOK
  BY DEF IInv, RegistryInv, PageInv, TypeOK
<1>2. QED
  BY <1>1, Invariant, PTL

\* The file and the registry agree whenever the server serves (121-150, 191-202).
THEOREM Records == Spec => []RecordsMatch
<1>1. IInv => RecordsMatch
  BY DEF IInv, RegistryInv
<1>2. QED
  BY <1>1, Invariant, PTL

\* A pane the user closed does not come back (workspace.js 32-44, 97-114).
THEOREM StaysClosed == Spec => []ClosedStaysClosed
<1>1. IInv => ClosedStaysClosed
  BY DEF IInv, PageInv
<1>2. QED
  BY <1>1, Invariant, PTL

\* A page that has seen the present generation of the process that serves wants
\* the panes there are (core.janet 116, 137, 149, 479-488).
THEOREM Truth == Spec => []WatchTruth
<1>1. IInv => WatchTruth
  BY DEF IInv, PageInv
<1>2. QED
  BY <1>1, Invariant, PTL

\* No terminal that lives drops out of the registry and the file, if a recovering
\* server is not killed, unless its pane has gone astray.
THEOREM Known == Killed \subseteq {"serving"} => (Spec => []LivePanesKnown)
<1> SUFFICES ASSUME Killed \subseteq {"serving"}
             PROVE  Spec => []LivePanesKnown
  OBVIOUS
<1>1. Init => LivePanesKnown
  BY DEF Init, ServerInit, LivePanesKnown
<1>2. IInv /\ LivePanesKnown /\ [Next]_vars => LivePanesKnown'
  <2> SUFFICES ASSUME IInv, LivePanesKnown, [Next]_vars PROVE LivePanesKnown'
    OBVIOUS
  <2>1. CASE ServerStep
    BY <2>1, StepKeepsKnown DEF IInv
  <2>2. CASE UNCHANGED serverVars
    BY <2>2 DEF LivePanesKnown, Recorded
  <2>3. QED
    BY <2>1, <2>2, ServerOrPage DEF IInv, vars
<1>3. QED
  BY <1>1, <1>2, Invariant, PTL DEF Spec
=============================================================================
