-------------------------- MODULE TermClientProofs --------------------------
(***************************************************************************)
(* The safety of TermClient, for any number of calls, supervisors,         *)
(* connections, crashes and missed deadlines: IInv is inductive.           *)
(***************************************************************************)
EXTENDS TermClient, SequenceTheorems, TLAPS

USE DEF turnVars, parkVars, callVars, serverVars, supVars, countVars
-----------------------------------------------------------------------------
(* Queues and connections.                                                 *)

\* What is left of a queue is what was in it, one place further on.
LEMMA Rest ==
  ASSUME NEW S, NEW q \in Seq(S), q # <<>>
  PROVE  /\ Head(q) \in S /\ Head(q) = q[1] /\ 1 \in DOMAIN q
         /\ Tail(q) \in Seq(S) /\ Len(Tail(q)) = Len(q) - 1
         /\ \A i \in DOMAIN Tail(q) : i + 1 \in DOMAIN q /\ Tail(q)[i] = q[i + 1]
         /\ \A i \in DOMAIN q : i = 1 \/ (i - 1 \in DOMAIN Tail(q) /\ Tail(q)[i - 1] = q[i])
BY HeadTailProperties, SMT

\* Nothing is left of a queue of one.
LEMMA LastOne ==
  ASSUME NEW S, NEW q \in Seq(S), q # <<>>, Len(q) <= 1
  PROVE  Tail(q) = <<>>
<1>1. Tail(q) \in Seq(S) /\ Len(Tail(q)) = Len(q) - 1
  BY Rest
<1>2. Len(q) \in Nat /\ Len(Tail(q)) \in Nat
  BY <1>1, LenProperties
<1>3. Len(Tail(q)) = 0
  BY <1>1, <1>2, SMT
<1>4. QED
  BY <1>1, <1>3, EmptySeq

\* What is put into a queue comes last.
LEMMA Added ==
  ASSUME NEW S, NEW q \in Seq(S), NEW x \in S
  PROVE  /\ Append(q, x) \in Seq(S) /\ Len(Append(q, x)) = Len(q) + 1
         /\ Append(q, x)[Len(q) + 1] = x /\ Len(q) + 1 \in DOMAIN Append(q, x)
         /\ \A i \in DOMAIN q : i \in DOMAIN Append(q, x) /\ Append(q, x)[i] = q[i]
         /\ \A i \in DOMAIN Append(q, x) : i \in DOMAIN q \/ i = Len(q) + 1
BY AppendProperties, SMT

\* A queue of one.
LEMMA Single ==
  ASSUME NEW x
  PROVE  /\ <<x>> # <<>> /\ Append(<<>>, x) = <<x>> /\ Len(<<x>>) = 1
         /\ Head(<<x>>) = x /\ Tail(<<x>>) = <<>> /\ <<x>>[1] = x
         /\ Len(<<>>) = 0
OBVIOUS

LEMMA SingleType ==
  ASSUME NEW S, NEW x \in S
  PROVE  <<x>> \in Seq(S) /\ <<>> \in Seq(S)
OBVIOUS

\* A connection whose ends or queues change remains one.
LEMMA LinkTypes ==
  ASSUME NEW c \in Link, NEW b \in BOOLEAN,
         NEW q \in Seq(Request), NEW w \in Seq(Request)
  PROVE  /\ c.to \in 0 .. MaxSups /\ c.open \in BOOLEAN
         /\ c.inbox \in Seq(Request) /\ c.work \in Seq(Request)
         /\ c.outbox \in Seq(Request)
         /\ [c EXCEPT !.open = b] \in Link
         /\ [c EXCEPT !.inbox = q] \in Link
         /\ [c EXCEPT !.inbox = q, !.work = w] \in Link
         /\ [c EXCEPT !.work = q, !.outbox = w] \in Link
         /\ [c EXCEPT !.outbox = q] \in Link
         /\ [c EXCEPT !.outbox = q, !.open = b] \in Link
BY DEF Link

LEMMA NewLinkType ==
  ASSUME NEW s \in Sups, NEW r \in Request
  PROVE  [NoLink EXCEPT !.to = s, !.open = TRUE, !.inbox = <<r>>] \in Link /\ NoLink \in Link
<1>1. <<r>> \in Seq(Request) /\ <<>> \in Seq(Request)
  BY SingleType
<1>2. s \in 0 .. MaxSups /\ 0 \in 0 .. MaxSups
  BY ClientAssumption, SMT DEF Sups
<1>3. QED
  BY <1>1, <1>2 DEF Link, NoLink

LEMMA MessageType ==
  ASSUME TypeOK, NEW k \in Calls, op[k] # "none"
  PROVE  Message(k) \in Request /\ Message(k).call = k /\ Message(k).op = op[k]
BY DEF TypeOK, Request, Message

LEMMA OpenTypes ==
  ASSUME NEW c \in Link, NEW b \in BOOLEAN
  PROVE  [c EXCEPT !.open = b] \in Link
BY DEF Link

LEMMA ClosedTypes ==
  ASSUME NEW ln \in [Links -> Link], NEW l \in 0 .. MaxLinks
  PROVE  /\ Closed(ln, l) \in [Links -> Link]
         /\ \A m \in Links :
              /\ Closed(ln, l)[m].open <=> ln[m].open /\ m # l
              /\ Closed(ln, l)[m].inbox = ln[m].inbox
              /\ Closed(ln, l)[m].work = ln[m].work
              /\ Closed(ln, l)[m].outbox = ln[m].outbox
              /\ Closed(ln, l)[m].to = ln[m].to
<1>0. 0 \notin Links
  BY ClientAssumption, SMT DEF Links
<1>1. CASE l = 0
  BY <1>0, <1>1 DEF Closed, Link
<1>2. CASE l # 0
  <2>1. l \in Links
    BY <1>2, ClientAssumption, SMT DEF Links
  <2>2. [ln[l] EXCEPT !.open = FALSE] \in Link
    BY <2>1, OpenTypes
  <2>3. QED
    BY <1>2, <2>1, <2>2 DEF Closed, Link
<1>3. QED
  BY <1>1, <1>2
-----------------------------------------------------------------------------
(* Types.                                                                  *)

States == {"idle", "queued", "turn", "ensure", "talk", "park", "exiting", "done"}

Ops == {"none", "probe", "start", "state", "input", "wait", "shutdown"}

\* TypeOK, for one variable at a time.
LEMMA Types ==
  ASSUME TypeOK
  PROVE  /\ pc \in [Calls -> States] /\ op \in [Calls -> Ops]
         /\ kind \in [Calls -> Methods \cup {"none"}]
         /\ attempt \in [Calls -> 1 .. 2] /\ on \in [Calls -> 0 .. MaxLinks]
         /\ got \in [Calls -> Request \cup {NoReply}]
         /\ waiting \in Seq(Calls) /\ link \in [Links -> Link]
         /\ \A l \in Links : link[l] \in Link
         /\ handled \in [Calls -> Nat]
BY DEF TypeOK, States, Ops

LEMMA TurnTypes ==
  ASSUME TypeOK
  PROVE  /\ GiveTurn => busy' \in BOOLEAN /\ waiting' \in Seq(Calls)
         /\ \A p \in [Calls -> States] : PassTo(p) \in [Calls -> States]
<1>1. waiting \in Seq(Calls)
  BY DEF TypeOK
<1>2. waiting # <<>> => Head(waiting) \in Calls /\ Tail(waiting) \in Seq(Calls)
  BY <1>1, Rest
<1>3. <<>> \in Seq(Calls)
  BY EmptySeq
<1>4. QED
  BY <1>1, <1>2, <1>3 DEF GiveTurn, PassTo, States

LEMMA AskTypes ==
  ASSUME TypeOK, NEW k \in Calls, NEW m \in {"probe", "start", "state", "input", "shutdown"},
         Ask(k, m)
  PROVE  /\ busy' \in BOOLEAN /\ waiting' \in Seq(Calls)
         /\ pc' \in [Calls -> States] /\ attempt' \in [Calls -> 1 .. 2]
         /\ op' \in [Calls -> Ops]
<1>1. waiting \in Seq(Calls) /\ Append(waiting, k) \in Seq(Calls)
  BY Types, Added
<1>2. 1 \in 1 .. 2
  BY SMT
<1>3. pc' \in [Calls -> States] /\ busy' \in BOOLEAN /\ waiting' \in Seq(Calls)
  BY <1>1, Types DEF TypeOK, Ask, States
<1>4. QED
  BY <1>2, <1>3, Types DEF Ask, Ops

\* What TalkOn and TalkOnNew do to the types they touch.
LEMMA TalkTypes ==
  ASSUME TypeOK, NEW k \in Calls, NEW l \in Links, op[k] # "none",
         TalkOn(k, l) \/ \E s \in Sups : TalkOnNew(k, s, l)
  PROVE  /\ link' \in [Links -> Link] /\ on' \in [Calls -> 0 .. MaxLinks]
         /\ pc' \in [Calls -> States]
<1>1. Message(k) \in Request
  BY MessageType
<1>2. l \in 0 .. MaxLinks
  BY ClientAssumption, SMT DEF Links
<1>3. on' = [on EXCEPT ![k] = l] /\ pc' = [pc EXCEPT ![k] = "talk"]
  BY DEF TalkOn, TalkOnNew
<1>4. CASE TalkOn(k, l)
  <2>1. link[l] \in Link /\ link[l].inbox \in Seq(Request)
    BY Types DEF Link
  <2>2. Append(link[l].inbox, Message(k)) \in Seq(Request)
    BY <1>1, <2>1, Added
  <2>3. [link[l] EXCEPT !.inbox = Append(link[l].inbox, Message(k))] \in Link
    BY <2>1, <2>2 DEF Link
  <2>4. QED
    BY <1>2, <1>3, <1>4, <2>3, Types DEF TalkOn, Message, States
<1>5. CASE \E s \in Sups : TalkOnNew(k, s, l)
  <2>1. PICK s \in Sups : TalkOnNew(k, s, l)
    BY <1>5
  <2>2. [NoLink EXCEPT !.to = s, !.open = TRUE, !.inbox = <<Message(k)>>] \in Link
    BY <1>1, NewLinkType
  <2>3. link' = [link EXCEPT ![l] =
          [NoLink EXCEPT !.to = s, !.open = TRUE, !.inbox = <<Message(k)>>]]
    BY <2>1 DEF TalkOnNew, Message
  <2>4. QED
    BY <1>2, <1>3, <2>2, <2>3, Types DEF States
<1>6. QED
  BY <1>4, <1>5

LEMMA FinishTypes ==
  ASSUME TypeOK, NEW k \in Calls, NEW ln \in [Links -> Link], NEW left \in 0 .. MaxLinks,
         Finish(k, ln, left)
  PROVE  /\ busy' \in BOOLEAN /\ waiting' \in Seq(Calls)
         /\ pinned' \in 0 .. MaxLinks /\ parked' \in 0 .. MaxLinks
         /\ pc' \in [Calls -> States] /\ link' \in [Links -> Link] /\ kept' \in BOOLEAN
<1>1. busy' \in BOOLEAN /\ waiting' \in Seq(Calls)
  BY TurnTypes DEF Finish
<1>2. 0 \in 0 .. MaxLinks /\ parked \in 0 .. MaxLinks
  BY ClientAssumption, SMT DEF TypeOK
<1>3. [pc EXCEPT ![k] = "exiting"] \in [Calls -> States]
      /\ [pc EXCEPT ![k] = "done"] \in [Calls -> States]
  BY Types DEF States
<1>4. Closed(Closed(ln, left), parked) \in [Links -> Link]
  BY <1>2, ClosedTypes
<1>5. kept' \in BOOLEAN
  BY DEF TypeOK, Finish
<1>6. pc' \in [Calls -> States]
  BY <1>3, TurnTypes DEF Finish
<1>7. QED
  BY <1>1, <1>2, <1>4, <1>5, <1>6 DEF Finish

\* TypeOK in four parts.
CallTypes ==
  /\ pc \in [Calls -> States] /\ kind \in [Calls -> Methods \cup {"none"}]
  /\ op \in [Calls -> Ops] /\ attempt \in [Calls -> 1 .. 2]
  /\ on \in [Calls -> 0 .. MaxLinks] /\ got \in [Calls -> Request \cup {NoReply}]
ServerTypes ==
  /\ busy \in BOOLEAN /\ waiting \in Seq(Calls)
  /\ pinned \in 0 .. MaxLinks /\ parked \in 0 .. MaxLinks
  /\ parkedBusy \in BOOLEAN /\ kept \in BOOLEAN /\ stopping \in BOOLEAN /\ gone \in BOOLEAN
SupTypes ==
  /\ sup \in [Sups -> {"none", "booting", "binding", "up", "closing", "closed", "dead"}]
  /\ session \in [Sups -> BOOLEAN] /\ path \in 0 .. MaxSups
LinkTypesOK == link \in [Links -> Link]
HistoryTypes ==
  /\ handled \in [Calls -> Nat] /\ late \in BOOLEAN
  /\ crashes \in 0 .. MaxCrashes /\ timeouts \in 0 .. MaxTimeouts

LEMMA TypeParts ==
  TypeOK <=> CallTypes /\ ServerTypes /\ SupTypes /\ LinkTypesOK /\ HistoryTypes
BY DEF TypeOK, CallTypes, ServerTypes, SupTypes, LinkTypesOK, HistoryTypes, States, Ops

LEMMA TypePartsNext ==
  CallTypes' /\ ServerTypes' /\ SupTypes' /\ LinkTypesOK' /\ HistoryTypes' => TypeOK'
BY DEF TypeOK, CallTypes, ServerTypes, SupTypes, LinkTypesOK, HistoryTypes, States, Ops

\* The index of a connection or none; a supervisor's too.
LEMMA Numbers ==
  /\ 0 \in 0 .. MaxLinks /\ 0 \in 0 .. MaxSups /\ 1 \in 1 .. 2
  /\ \A l \in Links : l \in 0 .. MaxLinks /\ l # 0
  /\ \A l \in 0 .. MaxLinks : l # 0 => l \in Links
  /\ \A s \in Sups : s \in 0 .. MaxSups /\ s # 0
  /\ \A s \in 0 .. MaxSups : s # 0 => s \in Sups
BY ClientAssumption, SMT DEF Links, Sups

LEMMA CallKeepsTypes ==
  ASSUME TypeOK, NEW k \in Calls, NEW m \in Kinds, Call(k, m)
  PROVE  TypeOK'
<1>1. m \in Methods
  BY ClientAssumption
<1>2. FirstOp(m) \in {"probe", "start", "state", "input", "shutdown"} \/ m = "wait"
  BY <1>1 DEF FirstOp, Methods
<1>3. kind' \in [Calls -> Methods \cup {"none"}]
  BY <1>1, Types DEF Call
<1>4. stopping' \in BOOLEAN
  BY DEF Call
<1>5. CASE m = "wait"
  <2>1. pc' = [pc EXCEPT ![k] = "park"] /\ op' = [op EXCEPT ![k] = "wait"]
        /\ UNCHANGED <<busy, waiting, attempt>>
    BY <1>5 DEF Call
  <2>2. pc' \in [Calls -> States] /\ op' \in [Calls -> Ops]
    BY <2>1, Types DEF States, Ops
  <2>3. CallTypes'
    BY <1>3, <2>1, <2>2, TypeParts DEF CallTypes, Call
  <2>4. ServerTypes' /\ SupTypes' /\ LinkTypesOK' /\ HistoryTypes'
    BY <1>4, <2>1, TypeParts DEF ServerTypes, SupTypes, LinkTypesOK, HistoryTypes, Call
  <2>5. QED
    BY <2>3, <2>4, TypePartsNext
<1>6. CASE m # "wait"
  <2>1. Ask(k, FirstOp(m))
    BY <1>6 DEF Call
  <2>2. /\ busy' \in BOOLEAN /\ waiting' \in Seq(Calls) /\ pc' \in [Calls -> States]
        /\ attempt' \in [Calls -> 1 .. 2] /\ op' \in [Calls -> Ops]
    BY <1>2, <1>6, <2>1, AskTypes
  <2>3. CallTypes'
    BY <1>3, <2>2, TypeParts DEF CallTypes, Call
  <2>4. ServerTypes' /\ SupTypes' /\ LinkTypesOK' /\ HistoryTypes'
    BY <1>4, <2>2, TypeParts DEF ServerTypes, SupTypes, LinkTypesOK, HistoryTypes, Call
  <2>5. QED
    BY <2>3, <2>4, TypePartsNext
<1>7. QED
  BY <1>5, <1>6

\* Starting to talk, by turn or parked.
LEMMA TalkKeepsTypes ==
  ASSUME TypeOK, TurnInv, NEW k \in Calls, UsePinned(k) \/ Connect(k) \/ Park(k)
  PROVE  TypeOK'
<1>1. SupTypes' /\ HistoryTypes'
  BY TypeParts DEF SupTypes, HistoryTypes, UsePinned, Connect, Park
<1>2. op[k] # "none"
  BY DEF TurnInv, UsePinned, Connect, Park
<1>3. CASE UsePinned(k)
  <2>1. pinned \in Links
    BY <1>3, Numbers DEF TypeOK, UsePinned
  <2>2. /\ link' \in [Links -> Link] /\ on' \in [Calls -> 0 .. MaxLinks]
        /\ pc' \in [Calls -> States]
    BY <1>2, <1>3, <2>1, TalkTypes DEF UsePinned
  <2>3. CallTypes' /\ ServerTypes' /\ LinkTypesOK'
    BY <1>3, <2>2, TypeParts DEF CallTypes, ServerTypes, LinkTypesOK, UsePinned
  <2>4. QED
    BY <1>1, <2>3, TypePartsNext
<1>4. CASE Connect(k)
  <2>1. PICK l \in FreeLinks : TalkOnNew(k, path, l) /\ pinned' = l
    BY <1>4 DEF Connect
  <2>2. l \in Links /\ path \in Sups
    BY <1>4, <2>1, Numbers DEF FreeLinks, TypeOK, Connect, Listening
  <2>3. /\ link' \in [Links -> Link] /\ on' \in [Calls -> 0 .. MaxLinks]
        /\ pc' \in [Calls -> States]
    BY <1>2, <2>1, <2>2, TalkTypes
  <2>4. pinned' \in 0 .. MaxLinks
    BY <2>1, <2>2, Numbers
  <2>5. CallTypes' /\ ServerTypes' /\ LinkTypesOK'
    BY <1>4, <2>3, <2>4, TypeParts DEF CallTypes, ServerTypes, LinkTypesOK, Connect
  <2>6. QED
    BY <1>1, <2>5, TypePartsNext
<1>5. CASE Park(k)
  <2>1. /\ attempt' \in [Calls -> 1 .. 2]
        /\ UNCHANGED <<turnVars, kind, op, got, serverVars>>
    BY <1>5, Types, SMT DEF Park
  <2>2. CASE (parkedBusy \/ parked = 0) /\ Listening(path)
    <3>1. PICK l \in FreeLinks :
            TalkOnNew(k, path, l) /\ parked' = IF parkedBusy THEN parked ELSE l
      BY <1>5, <2>2 DEF Park
    <3>2. l \in Links /\ path \in Sups
      BY <2>2, <3>1, Numbers DEF FreeLinks, TypeOK, Listening
    <3>3. /\ link' \in [Links -> Link] /\ on' \in [Calls -> 0 .. MaxLinks]
          /\ pc' \in [Calls -> States]
      BY <1>2, <3>1, <3>2, TalkTypes
    <3>4. parked' \in 0 .. MaxLinks /\ parkedBusy' \in BOOLEAN
      BY <1>5, <2>2, <3>1, <3>2, Numbers DEF TypeOK, Park
    <3>5. CallTypes' /\ ServerTypes' /\ LinkTypesOK'
      BY <2>1, <3>3, <3>4, TypeParts DEF CallTypes, ServerTypes, LinkTypesOK
    <3>6. QED
      BY <1>1, <3>5, TypePartsNext
  <2>3. CASE (parkedBusy \/ parked = 0) /\ ~Listening(path)
    <3>1. pc' = [pc EXCEPT ![k] = "done"] /\ UNCHANGED <<parkVars, on, link>>
      BY <1>5, <2>3 DEF Park
    <3>2. pc' \in [Calls -> States]
      BY <3>1, Types DEF States
    <3>3. CallTypes' /\ ServerTypes' /\ LinkTypesOK'
      BY <2>1, <3>1, <3>2, TypeParts DEF CallTypes, ServerTypes, LinkTypesOK
    <3>4. QED
      BY <1>1, <3>3, TypePartsNext
  <2>4. CASE ~(parkedBusy \/ parked = 0)
    <3>1. TalkOn(k, parked) /\ parkedBusy' = TRUE /\ UNCHANGED parked
      BY <1>5, <2>4 DEF Park
    <3>2. parked \in Links
      BY <2>4, Numbers DEF TypeOK
    <3>3. /\ link' \in [Links -> Link] /\ on' \in [Calls -> 0 .. MaxLinks]
          /\ pc' \in [Calls -> States]
      BY <1>2, <3>1, <3>2, TalkTypes
    <3>4. CallTypes' /\ ServerTypes' /\ LinkTypesOK'
      BY <2>1, <3>1, <3>3, TypeParts DEF CallTypes, ServerTypes, LinkTypesOK
    <3>5. QED
      BY <1>1, <3>4, TypePartsNext
  <2>5. QED
    BY <2>2, <2>3, <2>4
<1>6. QED
  BY <1>3, <1>4, <1>5

LEMMA SpawnKeepsTypes ==
  ASSUME TypeOK, NEW k \in Calls, Spawn(k)
  PROVE  TypeOK'
<1>1. PICK s \in Sups : sup' = [sup EXCEPT ![s] = "booting"]
  BY DEF Spawn, SpareSups
<1>2. SupTypes'
  BY <1>1, TypeParts, Numbers DEF SupTypes, Spawn
<1>3. pc' \in [Calls -> States]
  BY Types DEF Spawn, States
<1>4. CallTypes' /\ ServerTypes' /\ LinkTypesOK' /\ HistoryTypes'
  BY <1>3, TypeParts DEF CallTypes, ServerTypes, LinkTypesOK, HistoryTypes, Spawn
<1>5. QED
  BY <1>2, <1>4, TypePartsNext

LEMMA GiveUpKeepsTypes ==
  ASSUME TypeOK, NEW k \in Calls, GiveUp(k)
  PROVE  TypeOK'
<1>1. link \in [Links -> Link] /\ 0 \in 0 .. MaxLinks /\ Finish(k, link, 0)
  BY Types, Numbers DEF GiveUp
<1>2. /\ busy' \in BOOLEAN /\ waiting' \in Seq(Calls)
      /\ pinned' \in 0 .. MaxLinks /\ parked' \in 0 .. MaxLinks
      /\ pc' \in [Calls -> States] /\ link' \in [Links -> Link] /\ kept' \in BOOLEAN
  BY <1>1, FinishTypes
<1>3. got' \in [Calls -> Request \cup {NoReply}]
  BY Types DEF GiveUp
<1>4. late' \in BOOLEAN
  BY DEF GiveUp, TypeOK
<1>5. CallTypes' /\ ServerTypes' /\ LinkTypesOK' /\ SupTypes' /\ HistoryTypes'
  BY <1>2, <1>3, <1>4, TypeParts
  DEF CallTypes, ServerTypes, LinkTypesOK, SupTypes, HistoryTypes, GiveUp
<1>6. QED
  BY <1>5, TypePartsNext

\* Reading a reply, on a connection that stays open or is closed.
LEMMA ReadTypes ==
  ASSUME TypeOK, NEW l \in Links, link[l].outbox # <<>>, NEW b \in BOOLEAN
  PROVE  /\ Head(link[l].outbox) \in Request
         /\ [link EXCEPT ![l].outbox = Tail(@)] \in [Links -> Link]
         /\ [link EXCEPT ![l].outbox = Tail(@), ![l].open = b] \in [Links -> Link]
<1>1. link[l] \in Link /\ link[l].outbox \in Seq(Request)
  BY Types DEF Link
<1>2. Head(link[l].outbox) \in Request /\ Tail(link[l].outbox) \in Seq(Request)
  BY <1>1, Rest
<1>3. /\ [link[l] EXCEPT !.outbox = Tail(link[l].outbox)] \in Link
      /\ [link[l] EXCEPT !.outbox = Tail(link[l].outbox), !.open = b] \in Link
  BY <1>1, <1>2 DEF Link
<1>4. link \in [Links -> Link]
  BY Types
<1>5. [link EXCEPT ![l].outbox = Tail(@)] \in [Links -> Link]
  BY <1>3, <1>4
<1>6. [link EXCEPT ![l].outbox = Tail(@), ![l].open = b] \in [Links -> Link]
  BY <1>3, <1>4
<1>7. QED
  BY <1>2, <1>5, <1>6

LEMMA ReplyKeepsTypes ==
  ASSUME TypeOK, UseInv, NEW k \in Calls, TalkReplies(k)
  PROVE  TypeOK'
<1> DEFINE l == on[k]
           read == [link EXCEPT ![l].outbox = Tail(@)]
<1>1. l \in Links /\ link[l].outbox # <<>>
  BY DEF UseInv, TalkReplies
<1>2. Head(link[l].outbox) \in Request /\ read \in [Links -> Link]
  BY <1>1, ReadTypes
<1>3. got' \in [Calls -> Request \cup {NoReply}]
  <2>1. got' = [got EXCEPT ![k] = Head(link[l].outbox)]
    BY DEF TalkReplies
  <2>2. QED
    BY <1>2, <2>1, Types
<1>4. SupTypes' /\ HistoryTypes'
  BY TypeParts DEF SupTypes, HistoryTypes, TalkReplies
<1>5. UNCHANGED <<parkedBusy, kind, on, stopping, gone>>
  BY DEF TalkReplies
<1>6. CASE op[k] = "probe"
  <2>1. /\ op' = [op EXCEPT ![k] = "start"] /\ attempt' = [attempt EXCEPT ![k] = 1]
        /\ link' = read /\ UNCHANGED <<pinned, parked, kept>>
    BY <1>6 DEF TalkReplies
  <2>2. op' \in [Calls -> Ops] /\ attempt' \in [Calls -> 1 .. 2]
    BY <2>1, Types, Numbers DEF Ops
  <2>3. busy' \in BOOLEAN /\ waiting' \in Seq(Calls) /\ pc' \in [Calls -> States]
    <3>1. CASE waiting = <<>>
      <4>1. pc' = [pc EXCEPT ![k] = "turn"] /\ UNCHANGED <<busy, waiting>>
        BY <1>6, <3>1 DEF TalkReplies
      <4>2. QED
        BY <4>1, Types, TypeParts DEF States, ServerTypes
    <3>2. CASE waiting # <<>>
      <4>1. pc' = [PassTo(pc) EXCEPT ![k] = "queued"] /\ UNCHANGED busy
            /\ waiting' = Append(Tail(waiting), k)
        BY <1>6, <3>2 DEF TalkReplies
      <4>2. PassTo(pc) \in [Calls -> States]
        BY Types, TurnTypes
      <4>3. Append(Tail(waiting), k) \in Seq(Calls)
        BY <3>2, Types, Rest, Added
      <4>4. QED
        BY <4>1, <4>2, <4>3, TypeParts DEF States, ServerTypes
    <3>3. QED
      BY <3>1, <3>2
  <2>4. CallTypes' /\ ServerTypes' /\ LinkTypesOK'
    BY <1>2, <1>3, <1>5, <2>1, <2>2, <2>3, TypeParts DEF CallTypes, ServerTypes, LinkTypesOK
  <2>5. QED
    BY <1>4, <2>4, TypePartsNext
<1>7. CASE op[k] # "probe"
  <2>1. Finish(k, read, pinned) /\ UNCHANGED <<op, attempt>>
    BY <1>7 DEF TalkReplies
  <2>2. pinned \in 0 .. MaxLinks
    BY DEF TypeOK
  <2>3. /\ busy' \in BOOLEAN /\ waiting' \in Seq(Calls)
        /\ pinned' \in 0 .. MaxLinks /\ parked' \in 0 .. MaxLinks
        /\ pc' \in [Calls -> States] /\ link' \in [Links -> Link] /\ kept' \in BOOLEAN
    BY <1>2, <2>1, <2>2, FinishTypes
  <2>4. CallTypes' /\ ServerTypes' /\ LinkTypesOK'
    BY <1>3, <1>5, <2>1, <2>3, TypeParts DEF CallTypes, ServerTypes, LinkTypesOK
  <2>5. QED
    BY <1>4, <2>4, TypePartsNext
<1>8. QED
  BY <1>6, <1>7

\* A deadline that is missed is counted.
LEMMA BrokenTypes ==
  ASSUME TypeOK, NEW k \in Calls, Broken(k)
  PROVE  timeouts' \in 0 .. MaxTimeouts
BY ClientAssumption, SMT DEF TypeOK, Broken

LEMMA FailKeepsTypes ==
  ASSUME TypeOK, NEW k \in Calls, TalkFails(k)
  PROVE  TypeOK'
<1>1. SupTypes' /\ HistoryTypes'
  BY BrokenTypes, TypeParts DEF SupTypes, HistoryTypes, TalkFails
<1>2. UNCHANGED <<parkedBusy, kind, op, on, stopping, gone>>
  BY DEF TalkFails
<1>3. pinned \in 0 .. MaxLinks /\ link \in [Links -> Link]
      /\ Closed(link, pinned) \in [Links -> Link]
  BY Types, ClosedTypes DEF TypeOK
<1>4. CASE TriesAgain(k)
  <2>1. /\ link' = Closed(link, pinned) /\ pinned' = 0
        /\ attempt' = [attempt EXCEPT ![k] = @ + 1] /\ pc' = [pc EXCEPT ![k] = "turn"]
        /\ UNCHANGED <<busy, waiting, parked, kept, got>>
    BY <1>4 DEF TalkFails, DropPinned
  <2>2. attempt[k] + 1 \in 1 .. 2
    BY <1>4, SMT DEF TriesAgain
  <2>3. attempt' \in [Calls -> 1 .. 2] /\ pc' \in [Calls -> States]
    BY <2>1, <2>2, Types DEF States
  <2>4. CallTypes' /\ ServerTypes' /\ LinkTypesOK'
    BY <1>2, <1>3, <2>1, <2>3, Numbers, TypeParts DEF CallTypes, ServerTypes, LinkTypesOK
  <2>5. QED
    BY <1>1, <2>4, TypePartsNext
<1>5. CASE ~TriesAgain(k)
  <2>1. /\ got' = [got EXCEPT ![k] = NoReply] /\ Finish(k, Closed(link, pinned), 0)
        /\ UNCHANGED attempt
    BY <1>5 DEF TalkFails
  <2>2. /\ busy' \in BOOLEAN /\ waiting' \in Seq(Calls)
        /\ pinned' \in 0 .. MaxLinks /\ parked' \in 0 .. MaxLinks
        /\ pc' \in [Calls -> States] /\ link' \in [Links -> Link] /\ kept' \in BOOLEAN
    BY <1>3, <2>1, Numbers, FinishTypes
  <2>3. got' \in [Calls -> Request \cup {NoReply}]
    BY <2>1, Types
  <2>4. CallTypes' /\ ServerTypes' /\ LinkTypesOK'
    BY <1>2, <2>1, <2>2, <2>3, TypeParts DEF CallTypes, ServerTypes, LinkTypesOK
  <2>5. QED
    BY <1>1, <2>4, TypePartsNext
<1>6. QED
  BY <1>4, <1>5

LEMMA ParkedKeepsTypes ==
  ASSUME TypeOK, UseInv, NEW k \in Calls, ParkedReplies(k) \/ ParkedFails(k)
  PROVE  TypeOK'
<1>1. pc' = [pc EXCEPT ![k] = "done"]
      /\ UNCHANGED <<turnVars, kind, op, attempt, on, serverVars>>
  BY DEF ParkedReplies, ParkedFails
<1>2. pc' \in [Calls -> States]
  BY <1>1, Types DEF States
<1>3. CASE ParkedReplies(k)
  <2> DEFINE l == on[k]
  <2>1. l \in Links /\ link[l].outbox # <<>>
    BY <1>3 DEF UseInv, ParkedReplies
  <2>2. Head(link[l].outbox) \in Request /\ link' \in [Links -> Link]
    BY <1>3, <2>1, ReadTypes DEF ParkedReplies
  <2>3. got' = [got EXCEPT ![k] = Head(link[l].outbox)]
        /\ parkedBusy' = (parkedBusy /\ attempt[k] # 1)
    BY <1>3 DEF ParkedReplies
  <2>4. got' \in [Calls -> Request \cup {NoReply}] /\ parkedBusy' \in BOOLEAN
    BY <2>2, <2>3, Types
  <2>5. CallTypes' /\ ServerTypes' /\ LinkTypesOK' /\ SupTypes' /\ HistoryTypes'
    BY <1>1, <1>2, <1>3, <2>2, <2>4, TypeParts
    DEF CallTypes, ServerTypes, LinkTypesOK, SupTypes, HistoryTypes, ParkedReplies
  <2>6. QED
    BY <2>5, TypePartsNext
<1>4. CASE ParkedFails(k)
  <2>1. /\ link \in [Links -> Link] /\ parked \in 0 .. MaxLinks /\ on[k] \in 0 .. MaxLinks
        /\ parkedBusy \in BOOLEAN
    BY Types DEF TypeOK
  <2>2. link' \in [Links -> Link] /\ parked' \in 0 .. MaxLinks /\ parkedBusy' \in BOOLEAN
    <3>1. Closed(link, parked) \in [Links -> Link] /\ Closed(link, on[k]) \in [Links -> Link]
      BY <2>1, ClosedTypes
    <3>2. CASE attempt[k] = 1
      BY <1>4, <3>1, <3>2, Numbers DEF ParkedFails
    <3>3. CASE attempt[k] # 1
      BY <1>4, <2>1, <3>1, <3>3 DEF ParkedFails
    <3>4. QED
      BY <3>2, <3>3
  <2>3. CallTypes' /\ ServerTypes' /\ LinkTypesOK' /\ SupTypes' /\ HistoryTypes'
    BY <1>1, <1>2, <1>4, <2>2, BrokenTypes, TypeParts
    DEF CallTypes, ServerTypes, LinkTypesOK, SupTypes, HistoryTypes, ParkedFails
  <2>4. QED
    BY <2>3, TypePartsNext
<1>5. QED
  BY <1>3, <1>4

LEMMA ExitKeepsTypes ==
  ASSUME TypeOK, NEW k \in Calls, Exit(k)
  PROVE  TypeOK'
<1>1. \A l \in Links : [link[l] EXCEPT !.open = FALSE] \in Link
  BY Types, OpenTypes
<1>2. link' \in [Links -> Link]
  BY <1>1 DEF Exit
<1>3. CallTypes' /\ ServerTypes' /\ LinkTypesOK' /\ SupTypes' /\ HistoryTypes'
  BY <1>2, TypeParts DEF CallTypes, ServerTypes, LinkTypesOK, SupTypes, HistoryTypes, Exit
<1>4. QED
  BY <1>3, TypePartsNext

LEMMA DiesTypes ==
  ASSUME TypeOK, NEW s \in Sups, Dies(s)
  PROVE  /\ sup' \in [Sups -> {"none", "booting", "binding", "up", "closing", "closed", "dead"}]
         /\ session' \in [Sups -> BOOLEAN] /\ link' \in [Links -> Link]
<1>1. \A l \in Links : [link[l] EXCEPT !.inbox = <<>>, !.work = <<>>] \in Link
  <2> SUFFICES ASSUME NEW l \in Links
      PROVE  [link[l] EXCEPT !.inbox = <<>>, !.work = <<>>] \in Link
    OBVIOUS
  <2>1. link[l] \in Link /\ <<>> \in Seq(Request)
    BY Types, EmptySeq
  <2>2. QED
    BY <2>1 DEF Link
<1>2. link' \in [Links -> Link]
  BY <1>1, Types DEF Dies
<1>3. QED
  BY <1>2, TypeParts DEF SupTypes, Dies

LEMMA SupKeepsTypes ==
  ASSUME TypeOK, NEW s \in Sups, SupStep(s) \/ Crashes(s)
  PROVE  TypeOK'
<1>1. CallTypes' /\ ServerTypes'
  BY TypeParts
  DEF CallTypes, ServerTypes, SupStep, Clears, Binds, Closes, Ends, Watches, Crashes
<1>2. SupTypes' /\ LinkTypesOK'
  <2>1. CASE Clears(s) \/ Binds(s) \/ Closes(s)
    BY <2>1, Numbers, TypeParts DEF SupTypes, LinkTypesOK, Clears, Binds, Closes
  <2>2. CASE Ends(s) \/ Watches(s) \/ Crashes(s)
    BY <2>2, DiesTypes, Numbers, TypeParts DEF SupTypes, LinkTypesOK, Ends, Watches, Crashes
  <2>3. QED
    BY <2>1, <2>2 DEF SupStep
<1>3. late' \in BOOLEAN
  BY DEF TypeOK, SupStep, Clears, Binds, Closes, Ends, Watches, Crashes
<1>4. crashes' \in 0 .. MaxCrashes
  <2>1. crashes < MaxCrashes => crashes + 1 \in 0 .. MaxCrashes
    BY ClientAssumption, SMT DEF TypeOK
  <2>2. QED
    BY <2>1 DEF TypeOK, SupStep, Clears, Binds, Closes, Ends, Watches, Crashes
<1>5. HistoryTypes'
  BY <1>3, <1>4, TypeParts
  DEF HistoryTypes, SupStep, Clears, Binds, Closes, Ends, Watches, Crashes
<1>6. QED
  BY <1>1, <1>2, <1>5, TypePartsNext

\* A message that is taken up or replied to.
LEMMA HandleTypes ==
  ASSUME TypeOK, NEW l \in Links, Handles(l) \/ Replies(l)
  PROVE  TypeOK'
<1>1. /\ link[l] \in Link /\ link[l].inbox \in Seq(Request) /\ link[l].work \in Seq(Request)
      /\ link[l].outbox \in Seq(Request) /\ <<>> \in Seq(Request)
      /\ link[l].to \in 0 .. MaxSups
  BY Types, EmptySeq DEF Link
<1>2. link[l].to \in Sups
  BY <1>1, Numbers DEF Handles, Replies
<1>3. CASE Handles(l)
  <2> DEFINE r == Head(link[l].inbox)
  <2>1. r \in Request /\ Tail(link[l].inbox) \in Seq(Request)
    BY <1>1, <1>3, Rest DEF Handles
  <2>2. <<r>> \in Seq(Request)
    BY <2>1, SingleType
  <2>3. [link[l] EXCEPT !.inbox = Tail(link[l].inbox), !.work = <<r>>] \in Link
    BY <1>1, <2>1, <2>2 DEF Link
  <2>4. link' \in [Links -> Link]
    BY <1>3, <2>3, Types DEF Handles
  <2>5. r.call \in Calls
    BY <2>1 DEF Request
  <2>6. handled' \in [Calls -> Nat]
    <3>1. handled[r.call] + 1 \in Nat
      BY <2>5, Types, SMT
    <3>2. QED
      BY <1>3, <2>5, <3>1, Types DEF Handles
  <2>7. session' \in [Sups -> BOOLEAN]
    <3>1. session[link[l].to] \in BOOLEAN
      BY <1>2 DEF TypeOK
    <3>2. (r.op = "start" \/ (session[link[l].to] /\ r.op # "shutdown")) \in BOOLEAN
      OBVIOUS
    <3>3. QED
      BY <1>2, <1>3, <3>2 DEF TypeOK, Handles
  <2>8. CallTypes' /\ ServerTypes' /\ LinkTypesOK' /\ SupTypes' /\ HistoryTypes'
    BY <1>3, <2>4, <2>6, <2>7, TypeParts
    DEF CallTypes, ServerTypes, LinkTypesOK, SupTypes, HistoryTypes, Handles
  <2>9. QED
    BY <2>8, TypePartsNext
<1>4. CASE Replies(l)
  <2> DEFINE r == Head(link[l].work)
             out == IF link[l].open THEN Append(link[l].outbox, r) ELSE link[l].outbox
  <2>1. r \in Request
    BY <1>1, <1>4, Rest DEF Replies
  <2>2. out \in Seq(Request)
    BY <1>1, <2>1, Added
  <2>3. [link[l] EXCEPT !.work = <<>>, !.outbox = out] \in Link
    BY <1>1, <2>2 DEF Link
  <2>4. link' = [link EXCEPT ![l] = [link[l] EXCEPT !.work = <<>>, !.outbox = out]]
    BY <1>4, Types DEF Replies
  <2>5. link' \in [Links -> Link]
    BY <2>3, <2>4, Types
  <2>6. sup' \in [Sups -> {"none", "booting", "binding", "up", "closing", "closed", "dead"}]
    BY <1>2, <1>4, TypeParts DEF SupTypes, Replies
  <2>7. CallTypes' /\ ServerTypes' /\ LinkTypesOK' /\ SupTypes' /\ HistoryTypes'
    BY <1>4, <2>5, <2>6, TypeParts
    DEF CallTypes, ServerTypes, LinkTypesOK, SupTypes, HistoryTypes, Replies
  <2>8. QED
    BY <2>7, TypePartsNext
<1>5. QED
  BY <1>3, <1>4

LEMMA TypesKept ==
  ASSUME TypeOK, TurnInv, UseInv, Next
  PROVE  TypeOK'
<1>1. CASE \E k \in Calls : \/ \E m \in Kinds : Call(k, m)
                            \/ FiberStep(k) \/ Exit(k)
  BY <1>1, CallKeepsTypes, TalkKeepsTypes, SpawnKeepsTypes, GiveUpKeepsTypes, ReplyKeepsTypes,
     FailKeepsTypes, ParkedKeepsTypes, ExitKeepsTypes DEF FiberStep
<1>2. CASE \E s \in Sups : SupStep(s) \/ Crashes(s)
  BY <1>2, SupKeepsTypes
<1>3. CASE \E l \in Links : Handles(l) \/ Replies(l)
  BY <1>3, HandleTypes
<1>4. QED
  BY <1>1, <1>2, <1>3 DEF Next
-----------------------------------------------------------------------------
(* The turn.                                                               *)

\* A call goes on and keeps the turn, or what it does has none.
LEMMA GoingOn ==
  ASSUME TypeOK, TurnInv, NEW k \in Calls, NEW x \in States \ {"queued"}, NEW o \in Ops,
         pc[k] # "queued", pc' = [pc EXCEPT ![k] = x], op' = [op EXCEPT ![k] = o],
         HasTurn(k) <=> (x \in {"turn", "ensure"} \/ (x = "talk" /\ o # "wait")),
         x \in {"turn", "ensure"} => o # "wait",
         x = "park" => o = "wait", x = "idle" <=> o = "none",
         UNCHANGED <<busy, waiting, gone>>
  PROVE  TurnInv'
<1>1. \A m \in Calls : /\ pc'[m] = IF m = k THEN x ELSE pc[m]
                       /\ op'[m] = IF m = k THEN o ELSE op[m]
  BY Types
<1>2. \A m \in Calls : HasTurn(m)' <=> HasTurn(m)
  BY <1>1 DEF HasTurn, Turned
<1>3. \A m \in Calls : pc'[m] = "queued" <=> pc[m] = "queued"
  BY <1>1
<1>4. \A m \in Calls : /\ pc'[m] \in {"queued", "turn", "ensure"} => op'[m] # "wait"
                       /\ pc'[m] = "park" => op'[m] = "wait"
                       /\ pc'[m] = "idle" <=> op'[m] = "none"
  BY <1>1 DEF TurnInv
<1>5. QED
  BY <1>2, <1>3, <1>4 DEF TurnInv

\* Who has a ticket, when the first one is taken.
LEMMA FirstTicket ==
  ASSUME TypeOK, TurnInv, waiting # <<>>
  PROVE  /\ Head(waiting) \in Calls /\ pc[Head(waiting)] = "queued"
         /\ op[Head(waiting)] \notin {"none", "wait"} /\ ~HasTurn(Head(waiting))
         /\ \A k \in Calls : (\E i \in DOMAIN Tail(waiting) : Tail(waiting)[i] = k)
                               <=> pc[k] = "queued" /\ k # Head(waiting)
         /\ \A i, j \in DOMAIN Tail(waiting) : Tail(waiting)[i] = Tail(waiting)[j] => i = j
<1> DEFINE h == Head(waiting)
           t == Tail(waiting)
<1>1. waiting \in Seq(Calls)
  BY Types
<1>2. /\ h \in Calls /\ h = waiting[1] /\ 1 \in DOMAIN waiting
      /\ \A i \in DOMAIN t : i + 1 \in DOMAIN waiting /\ t[i] = waiting[i + 1]
      /\ \A i \in DOMAIN waiting : i = 1 \/ (i - 1 \in DOMAIN t /\ t[i - 1] = waiting[i])
  BY <1>1, Rest
<1>3. pc[h] = "queued"
  BY <1>2 DEF TurnInv
<1>4. \A i, j \in DOMAIN waiting : waiting[i] = waiting[j] => i = j
  BY DEF TurnInv
<1>5. DOMAIN t \subseteq Nat \ {0}
  <2>1. t \in Seq(Calls)
    BY <1>1, Rest
  <2>2. QED
    BY <2>1, SMT
<1>6. \A i \in DOMAIN t : i + 1 # 1
  BY <1>5, SMT
<1>7. \A i, j \in DOMAIN t : t[i] = t[j] => i = j
  <2> SUFFICES ASSUME NEW i \in DOMAIN t, NEW j \in DOMAIN t, t[i] = t[j] PROVE i = j
    OBVIOUS
  <2>1. i + 1 = j + 1
    BY <1>2, <1>4
  <2>2. QED
    BY <1>5, <2>1, SMT
<1>8. ASSUME NEW k \in Calls
      PROVE  (\E i \in DOMAIN t : t[i] = k) <=> pc[k] = "queued" /\ k # h
  <2>1. ASSUME NEW i \in DOMAIN t, t[i] = k PROVE pc[k] = "queued" /\ k # h
    BY <1>2, <1>4, <1>6, <2>1 DEF TurnInv
  <2>2. ASSUME pc[k] = "queued", k # h PROVE \E i \in DOMAIN t : t[i] = k
    BY <1>2, <2>2 DEF TurnInv
  <2>3. QED
    BY <2>1, <2>2
<1>9. op[h] \notin {"none", "wait"} /\ ~HasTurn(h)
  BY <1>2, <1>3 DEF TurnInv, HasTurn
<1>10. QED
  BY <1>2, <1>3, <1>7, <1>8, <1>9

\* give-turn by the call that has it.
LEMMA GivingOn ==
  ASSUME TypeOK, TurnInv, ~gone, NEW k \in Calls, HasTurn(k),
         NEW x \in {"done", "exiting"}, GiveTurn,
         pc' = PassTo([pc EXCEPT ![k] = x]), UNCHANGED <<op, gone>>
  PROVE  TurnInv'
<1>1. \A m \in Calls : HasTurn(m) => m = k
  BY DEF TurnInv
<1>2. pc[k] # "queued" /\ pc[k] # "park" /\ pc[k] # "idle"
  BY DEF HasTurn
<1>3. CASE waiting = <<>>
  <2>1. pc' = [pc EXCEPT ![k] = x] /\ busy' = FALSE /\ waiting' = <<>>
    BY <1>3 DEF GiveTurn, PassTo
  <2>2. \A m \in Calls : pc'[m] = IF m = k THEN x ELSE pc[m]
    BY <2>1, Types
  <2>3. \A m \in Calls : ~HasTurn(m)'
    BY <1>1, <2>2 DEF HasTurn, Turned
  <2>5. DOMAIN waiting = {} /\ DOMAIN waiting' = {}
    BY <1>3, <2>1
  <2>4. \A m \in Calls : pc'[m] # "queued"
    BY <2>2, <2>5 DEF TurnInv
  <2>6. \A m \in Calls :
          /\ pc'[m] \in {"queued", "turn", "ensure"} => op'[m] # "wait"
          /\ pc'[m] = "park" => op'[m] = "wait"
          /\ pc'[m] = "idle" <=> op'[m] = "none"
    BY <1>2, <2>2 DEF TurnInv
  <2>7. QED
    BY <2>1, <2>3, <2>4, <2>5, <2>6 DEF TurnInv
<1>4. CASE waiting # <<>>
  <2> DEFINE h == Head(waiting)
  <2>1. pc' = [[pc EXCEPT ![k] = x] EXCEPT ![h] = "turn"] /\ busy' = TRUE
        /\ waiting' = Tail(waiting)
    BY <1>4 DEF GiveTurn, PassTo
  <2>2. h \in Calls /\ h # k /\ pc[h] = "queued" /\ op[h] \notin {"none", "wait"}
    BY <1>2, <1>4, FirstTicket
  <2>3. \A m \in Calls : pc'[m] = IF m = h THEN "turn" ELSE IF m = k THEN x ELSE pc[m]
    BY <2>1, <2>2, Types
  <2>4. \A m \in Calls : HasTurn(m)' <=> m = h
    BY <1>1, <2>3 DEF HasTurn, Turned
  <2>5. \A m \in Calls : pc'[m] = "queued" <=> pc[m] = "queued" /\ m # h
    BY <1>2, <2>3
  <2>6. \A m \in Calls :
          /\ pc'[m] \in {"queued", "turn", "ensure"} => op'[m] # "wait"
          /\ pc'[m] = "park" => op'[m] = "wait"
          /\ pc'[m] = "idle" <=> op'[m] = "none"
    <3>1. \A m \in Calls :
            /\ pc[m] \in {"queued", "turn", "ensure"} => op[m] # "wait"
            /\ pc[m] = "park" => op[m] = "wait"
            /\ pc[m] = "idle" <=> op[m] = "none"
      BY DEF TurnInv
    <3>2. op[k] # "none"
      BY <1>2, <3>1
    <3>3. QED
      BY <2>2, <2>3, <3>1, <3>2
  <2>7. QED
    <3>1. \A m \in Calls : pc'[m] = "queued" <=> \E i \in DOMAIN waiting' : waiting'[i] = m
      BY <1>4, <2>1, <2>5, FirstTicket
    <3>2. \A i, j \in DOMAIN waiting' : waiting'[i] = waiting'[j] => i = j
      BY <1>4, <2>1, FirstTicket
    <3>3. \A m, c \in Calls : HasTurn(m)' /\ HasTurn(c)' => m = c
      BY <2>4
    <3>4. ~gone' => (busy' <=> \E m \in Calls : HasTurn(m)')
      BY <2>1, <2>2, <2>4
    <3>5. QED
      BY <2>6, <3>1, <3>2, <3>3, <3>4 DEF TurnInv
<1>5. QED
  BY <1>3, <1>4

LEMMA FinishTurn ==
  ASSUME TypeOK, TurnInv, ~gone, NEW k \in Calls, HasTurn(k), NEW ln, NEW left,
         Finish(k, ln, left), UNCHANGED <<op, gone>>
  PROVE  TurnInv'
<1>1. PICK x \in {"done", "exiting"} : pc' = PassTo([pc EXCEPT ![k] = x])
  BY DEF Finish
<1>2. GiveTurn
  BY DEF Finish
<1>3. QED
  BY <1>1, <1>2, GivingOn

\* The first message of a call.
LEMMA AskTurn ==
  ASSUME TypeOK, TurnInv, ~gone, NEW k \in Calls, pc[k] = "idle",
         NEW m \in Ops \ {"none", "wait"}, Ask(k, m), UNCHANGED gone
  PROVE  TurnInv'
<1>1. \A c \in Calls : op'[c] = IF c = k THEN m ELSE op[c]
  BY Types DEF Ask
<1>2. ~HasTurn(k)
  BY DEF HasTurn
<1>3. CASE busy
  <2>1. pc' = [pc EXCEPT ![k] = "queued"] /\ waiting' = Append(waiting, k) /\ busy' = busy
    BY <1>3 DEF Ask
  <2>2. \A c \in Calls : pc'[c] = IF c = k THEN "queued" ELSE pc[c]
    BY <2>1, Types
  <2>3. \A c \in Calls : HasTurn(c)' <=> HasTurn(c)
    BY <1>1, <1>2, <2>2 DEF HasTurn, Turned
  <2>4. /\ Append(waiting, k)[Len(waiting) + 1] = k
        /\ Len(waiting) + 1 \in DOMAIN Append(waiting, k)
        /\ \A i \in DOMAIN waiting :
             i \in DOMAIN Append(waiting, k) /\ Append(waiting, k)[i] = waiting[i]
        /\ \A i \in DOMAIN Append(waiting, k) : i \in DOMAIN waiting \/ i = Len(waiting) + 1
    BY Types, Added
  <2>5. \A c \in Calls :
          pc'[c] = "queued" <=> \E i \in DOMAIN waiting' : waiting'[i] = c
    BY <2>1, <2>2, <2>4 DEF TurnInv
  <2>6. \A i \in DOMAIN waiting : waiting[i] # k
    BY DEF TurnInv
  <2>7. \A i, j \in DOMAIN waiting' : waiting'[i] = waiting'[j] => i = j
    BY <2>1, <2>4, <2>6 DEF TurnInv
  <2>8. \A c \in Calls :
          /\ pc'[c] \in {"queued", "turn", "ensure"} => op'[c] # "wait"
          /\ pc'[c] = "park" => op'[c] = "wait"
          /\ pc'[c] = "idle" <=> op'[c] = "none"
    BY <1>1, <2>2 DEF TurnInv
  <2>9. QED
    BY <2>1, <2>3, <2>5, <2>7, <2>8 DEF TurnInv
<1>4. CASE ~busy
  <2>1. pc' = [pc EXCEPT ![k] = "turn"] /\ waiting' = waiting /\ busy' = TRUE
    BY <1>4 DEF Ask
  <2>2. \A c \in Calls : pc'[c] = IF c = k THEN "turn" ELSE pc[c]
    BY <2>1, Types
  <2>3. \A c \in Calls : ~HasTurn(c)
    BY <1>4 DEF TurnInv
  <2>4. \A c \in Calls : HasTurn(c)' <=> c = k
    BY <1>1, <2>2, <2>3 DEF HasTurn, Turned
  <2>5. \A c \in Calls :
          /\ pc'[c] = "queued" <=> pc[c] = "queued"
          /\ pc'[c] \in {"queued", "turn", "ensure"} => op'[c] # "wait"
          /\ pc'[c] = "park" => op'[c] = "wait"
          /\ pc'[c] = "idle" <=> op'[c] = "none"
    BY <1>1, <2>2 DEF TurnInv
  <2>6. QED
    BY <2>1, <2>4, <2>5 DEF TurnInv
<1>5. QED
  BY <1>3, <1>4

LEMMA CallKeepsTurn ==
  ASSUME TypeOK, TurnInv, NEW k \in Calls, NEW m \in Kinds, Call(k, m)
  PROVE  TurnInv'
<1>1. FirstOp(m) \in Ops \ {"none", "wait"} \/ m = "wait"
  BY ClientAssumption DEF FirstOp, Methods, Ops
<1>2. pc[k] = "idle" /\ ~gone /\ UNCHANGED gone
  BY DEF Call
<1>3. CASE m = "wait"
  <2>1. pc' = [pc EXCEPT ![k] = "park"] /\ op' = [op EXCEPT ![k] = "wait"]
        /\ UNCHANGED <<busy, waiting>>
    BY <1>3 DEF Call
  <2>2. ~HasTurn(k) /\ "park" \in States \ {"queued"} /\ "wait" \in Ops
    BY <1>2 DEF HasTurn, States, Ops
  <2>3. QED
    BY <1>2, <2>1, <2>2, GoingOn
<1>4. CASE m # "wait"
  BY <1>1, <1>2, <1>4, AskTurn DEF Call
<1>5. QED
  BY <1>3, <1>4

\* The steps of a call that neither take the turn nor give it away.
LEMMA StepKeepsTurn ==
  ASSUME TypeOK, TurnInv, NEW k \in Calls,
         \/ UsePinned(k) \/ Connect(k) \/ Spawn(k) \/ (TalkFails(k) /\ TriesAgain(k))
         \/ Park(k) \/ ParkedReplies(k) \/ ParkedFails(k)
  PROVE  TurnInv'
<1>1. op' = [op EXCEPT ![k] = op[k]] /\ op[k] \in Ops
      /\ UNCHANGED <<busy, waiting, gone>>
  BY Types DEF UsePinned, Connect, Spawn, TalkFails, Park, ParkedReplies, ParkedFails
<1>2. PICK x \in {"talk", "turn", "ensure", "done"} :
        /\ pc' = [pc EXCEPT ![k] = x]
        /\ x = "turn" => pc[k] = "talk" /\ Turned(k)
        /\ x = "ensure" => pc[k] = "turn"
        /\ x = "talk" => pc[k] \in {"turn", "ensure", "park"}
        /\ x = "done" => \/ pc[k] = "park" 
                         \/ pc[k] = "talk" /\ ~Turned(k)
  <2>1. CASE UsePinned(k) \/ Connect(k)
    BY <2>1 DEF UsePinned, Connect, TalkOn, TalkOnNew
  <2>2. CASE Spawn(k)
    BY <2>2 DEF Spawn
  <2>3. CASE TalkFails(k) /\ TriesAgain(k)
    BY <2>3 DEF TalkFails
  <2>4. CASE Park(k)
    BY <2>4 DEF Park, TalkOn, TalkOnNew
  <2>5. CASE ParkedReplies(k) \/ ParkedFails(k)
    BY <2>5 DEF ParkedReplies, ParkedFails
  <2>6. QED
    BY <2>1, <2>2, <2>3, <2>4, <2>5
<1>3. pc[k] \in {"turn", "ensure"} => op[k] # "wait"
  BY DEF TurnInv
<1>4. /\ pc[k] = "park" => op[k] = "wait"
      /\ pc[k] = "idle" <=> op[k] = "none"
  BY DEF TurnInv
<1>5. x \in States \ {"queued"} /\ pc[k] # "queued" /\ x # "idle" /\ pc[k] # "idle"
  BY <1>2 DEF States
<1>6. Turned(k) => op[k] # "wait"
  BY DEF Turned
<1>7. HasTurn(k) <=> (x \in {"turn", "ensure"} \/ (x = "talk" /\ op[k] # "wait"))
  BY <1>2, <1>3, <1>4 DEF HasTurn, Turned
<1>8. QED
  BY <1>1, <1>2, <1>3, <1>4, <1>5, <1>6, <1>7, GoingOn

\* A reply to :probe is followed by the start, for which the call asks again.
LEMMA ReplyKeepsTurn ==
  ASSUME TypeOK, TurnInv, ~gone, NEW k \in Calls, TalkReplies(k)
  PROVE  TurnInv'
<1>1. pc[k] = "talk" /\ Turned(k) /\ HasTurn(k) /\ UNCHANGED gone
  BY DEF TalkReplies, HasTurn
<1>2. CASE op[k] # "probe"
  BY <1>1, <1>2, FinishTurn DEF TalkReplies
<1>3. CASE op[k] = "probe" /\ waiting = <<>>
  <2>1. /\ pc' = [pc EXCEPT ![k] = "turn"] /\ op' = [op EXCEPT ![k] = "start"]
        /\ UNCHANGED <<busy, waiting>>
    BY <1>3 DEF TalkReplies
  <2>2. "turn" \in States \ {"queued"} /\ "start" \in Ops
    BY DEF States, Ops
  <2>3. QED
    BY <1>1, <2>1, <2>2, GoingOn
<1>4. CASE op[k] = "probe" /\ waiting # <<>>
  <2> DEFINE h == Head(waiting)
             t == Tail(waiting)
             w == Append(t, k)
  <2>1. /\ pc' = [[pc EXCEPT ![h] = "turn"] EXCEPT ![k] = "queued"]
        /\ op' = [op EXCEPT ![k] = "start"] /\ waiting' = w /\ busy' = busy
    BY <1>4 DEF TalkReplies, PassTo
  <2>2. /\ h \in Calls /\ h # k /\ op[h] # "wait" /\ op[h] # "none"
    BY <1>1, <1>4, FirstTicket
  <2>3. \A m \in Calls :
          /\ pc'[m] = IF m = k THEN "queued" ELSE IF m = h THEN "turn" ELSE pc[m]
          /\ op'[m] = IF m = k THEN "start" ELSE op[m]
    BY <2>1, <2>2, Types
  <2>4. \A m \in Calls : HasTurn(m) => m = k
    BY <1>1 DEF TurnInv
  <2>5. \A m \in Calls : HasTurn(m)' <=> m = h
    BY <2>2, <2>3, <2>4 DEF HasTurn, Turned
  <2>6. t \in Seq(Calls)
    BY <1>4, Types, Rest
  <2>7. /\ w[Len(t) + 1] = k /\ Len(t) + 1 \in DOMAIN w
        /\ \A i \in DOMAIN t : i \in DOMAIN w /\ w[i] = t[i]
        /\ \A i \in DOMAIN w : i \in DOMAIN t \/ i = Len(t) + 1
    BY <2>6, Added
  <2>8. \A m \in Calls : (\E i \in DOMAIN t : t[i] = m) <=> pc[m] = "queued" /\ m # h
    BY <1>4, FirstTicket
  <2>9. \A i, j \in DOMAIN t : t[i] = t[j] => i = j
    BY <1>4, FirstTicket
  <2>10. \A m \in Calls : pc'[m] = "queued" <=> m = k \/ (pc[m] = "queued" /\ m # h)
    BY <2>2, <2>3
  <2>11. \A m \in Calls : pc'[m] = "queued" <=> \E i \in DOMAIN w : w[i] = m
    BY <2>7, <2>8, <2>10
  <2>12. \A i, j \in DOMAIN w : w[i] = w[j] => i = j
    <3>1. \A i \in DOMAIN t : t[i] # k
      BY <1>1, <2>8
    <3>2. QED
      BY <2>7, <2>9, <3>1
  <2>13. \A m \in Calls :
           /\ pc'[m] \in {"queued", "turn", "ensure"} => op'[m] # "wait"
           /\ pc'[m] = "park" => op'[m] = "wait"
           /\ pc'[m] = "idle" <=> op'[m] = "none"
    BY <2>2, <2>3 DEF TurnInv
  <2>14. ~gone' => (busy' <=> \E m \in Calls : HasTurn(m)')
    BY <1>1, <2>1, <2>2, <2>5 DEF TurnInv
  <2>15. \A m, c \in Calls : HasTurn(m)' /\ HasTurn(c)' => m = c
    BY <2>5
  <2>16. QED
    <3>1. /\ \A m \in Calls : pc'[m] = "queued" <=> \E i \in DOMAIN waiting' : waiting'[i] = m
          /\ \A i, j \in DOMAIN waiting' : waiting'[i] = waiting'[j] => i = j
      BY <2>1, <2>11, <2>12
    <3>2. QED
      BY <2>13, <2>14, <2>15, <3>1 DEF TurnInv
<1>5. QED
  BY <1>2, <1>3, <1>4

LEMMA TurnKept ==
  ASSUME TypeOK, TurnInv, Next
  PROVE  TurnInv'
<1>1. ASSUME NEW k \in Calls, FiberStep(k) PROVE TurnInv'
  <2>1. ~gone
    BY <1>1 DEF FiberStep
  <2>2. CASE GiveUp(k)
    <3>1. HasTurn(k) /\ Finish(k, link, 0) /\ UNCHANGED <<op, gone>>
      BY <2>2 DEF GiveUp, HasTurn
    <3>2. QED
      BY <2>1, <3>1, FinishTurn
  <2>3. CASE TalkFails(k) /\ ~TriesAgain(k)
    <3>1. HasTurn(k) /\ Finish(k, Closed(link, pinned), 0) /\ UNCHANGED <<op, gone>>
      BY <2>3 DEF TalkFails, HasTurn
    <3>2. QED
      BY <2>1, <3>1, FinishTurn
  <2>4. QED
    BY <1>1, <2>1, <2>2, <2>3, StepKeepsTurn, ReplyKeepsTurn DEF FiberStep
<1>2. ASSUME UNCHANGED <<busy, waiting, pc, op>>, gone' = gone \/ gone' = TRUE PROVE TurnInv'
  BY <1>2 DEF TurnInv, HasTurn, Turned
<1>3. ASSUME NEW k \in Calls, Exit(k) PROVE TurnInv'
  BY <1>2, <1>3 DEF Exit
<1>4. ASSUME NEW s \in Sups, SupStep(s) \/ Crashes(s) PROVE TurnInv'
  BY <1>2, <1>4 DEF SupStep, Clears, Binds, Closes, Ends, Watches, Crashes
<1>5. ASSUME NEW l \in Links, Handles(l) \/ Replies(l) PROVE TurnInv'
  BY <1>2, <1>5 DEF Handles, Replies
<1>6. QED
  BY <1>1, <1>3, <1>4, <1>5, CallKeepsTurn DEF Next
-----------------------------------------------------------------------------
(* Connections and the calls that talk on them.                            *)

\* An open connection has one talker.
LEMMA OneTalker ==
  ASSUME TypeOK, TurnInv, UseInv, NEW l \in Links, link[l].open,
         NEW k \in Calls, TalksOn(k, l), NEW c \in Calls, TalksOn(c, l)
  PROVE  k = c
<1>1. ASSUME NEW a \in Calls, NEW b \in Calls, TalksOn(a, l), TalksOn(b, l), Turned(a)
      PROVE  a = b
  <2>1. l = pinned /\ pinned # 0 /\ pinned # parked
    BY <1>1, Numbers DEF UseInv, TalksOn
  <2>2. Turned(b)
    BY <1>1, <2>1 DEF UseInv, TalksOn, Owns, Visits
  <2>3. HasTurn(a) /\ HasTurn(b)
    BY <1>1, <2>2 DEF HasTurn, TalksOn
  <2>4. QED
    BY <2>3 DEF TurnInv
<1>2. CASE Turned(k) \/ Turned(c)
  BY <1>1, <1>2
<1>3. CASE ~Turned(k) /\ ~Turned(c)
  <2>1. Owns(k) \/ Visits(k)
    BY <1>3 DEF Owns, Visits, TalksOn
  <2>2. Owns(c) \/ Visits(c)
    BY <1>3 DEF Owns, Visits, TalksOn
  <2>3. on[k] = l /\ on[c] = l
    BY DEF TalksOn
  <2>4. QED
    BY <2>1, <2>2, <2>3 DEF UseInv
<1>4. QED
  BY <1>2, <1>3

\* What a call reads is the answer to its message, and then nothing is left.
LEMMA OwnReply ==
  ASSUME TypeOK, TurnInv, UseInv, LinkInv, NEW l \in Links, link[l].open,
         NEW k \in Calls, TalksOn(k, l), link[l].outbox # <<>>
  PROVE  /\ Head(link[l].outbox) = Message(k) /\ Tail(link[l].outbox) = <<>>
         /\ link[l].inbox = <<>> /\ link[l].work = <<>>
<1>1. PICK c \in Calls : Carries(l, c)
  BY DEF LinkInv, Empty
<1>2. c = k
  BY <1>1, OneTalker DEF Carries
<1>3. link[l].outbox = <<Message(k)>> /\ link[l].inbox = <<>> /\ link[l].work = <<>>
  BY <1>1, <1>2 DEF Carries
<1>4. QED
  BY <1>3, Single

\* A step after which nobody talks who did not before, and no connection
\* carries what it did not.
SameLoad(l) ==
  /\ link'[l].inbox = link[l].inbox /\ link'[l].work = link[l].work
  /\ link'[l].outbox = link[l].outbox
Fewer ==
  /\ \A m \in Calls : pc'[m] = "talk" =>
       /\ pc[m] = "talk" /\ op'[m] = op[m] /\ attempt'[m] = attempt[m] /\ on'[m] = on[m]
  /\ \A l \in Links : link'[l].open =>
       /\ link[l].open
       /\ \/ Empty(l)'
          \/ SameLoad(l) /\ \A m \in Calls : TalksOn(m, l) => pc'[m] = "talk"
  /\ pinned' \in {0, pinned} /\ (pinned' # 0 => gone' \/ link'[pinned].open)
  /\ parked' \in {0, parked} /\ (parked' # 0 => gone' \/ link'[parked].open)
  /\ \A m \in Calls : pc'[m] = "talk" /\ Turned(m) => pinned' = pinned
  /\ \A m \in Calls : pc'[m] = "talk" /\ Owns(m) =>
       parkedBusy' /\ (link'[on[m]].open => parked' = parked)

LEMMA FewerKeeps ==
  ASSUME TypeOK, UseInv, LinkInv, Fewer
  PROVE  UseInv' /\ LinkInv'
<1>1. \A m \in Calls : pc'[m] = "talk" =>
        /\ pc[m] = "talk" /\ op'[m] = op[m] /\ attempt'[m] = attempt[m] /\ on'[m] = on[m]
        /\ on[m] \in Links
  BY DEF Fewer, UseInv
<1>2. \A m \in Calls : pc'[m] = "talk" =>
        /\ Turned(m)' <=> Turned(m)
        /\ Owns(m)' <=> Owns(m)
        /\ Visits(m)' <=> Visits(m)
  BY <1>1 DEF Turned, Owns, Visits
<1>3. \A m \in Calls : (Owns(m)' \/ Visits(m)') => pc'[m] = "talk"
  BY DEF Owns, Visits
<1>4. \A l \in Links : link'[l].open => link[l].open
  BY DEF Fewer
<1>5. 0 \notin Links
  BY Numbers
<1>6. pinned' \in {0, pinned} /\ parked' \in {0, parked}
  BY DEF Fewer
<1>7. \A m \in Calls : pc'[m] = "talk" => on'[m] \in Links
  BY <1>1
<1>8. \A m \in Calls : pc'[m] = "talk" /\ Turned(m)' => on'[m] = pinned'
  BY <1>1, <1>2 DEF Fewer, UseInv
<1>9. \A m \in Calls : Owns(m)' => parkedBusy' /\ (link'[on'[m]].open => on'[m] = parked')
  BY <1>1, <1>2, <1>3, <1>4 DEF Fewer, UseInv
<1>10. \A m, c \in Calls : Owns(m)' /\ Owns(c)' => m = c
  BY <1>2, <1>3 DEF UseInv
<1>11. \A m \in Calls : Visits(m)' /\ link'[on'[m]].open => on'[m] \notin {pinned', parked'}
  BY <1>1, <1>2, <1>3, <1>4, <1>5, <1>6 DEF UseInv
<1>12. \A m, c \in Calls :
         Visits(m)' /\ Visits(c)' /\ on'[m] = on'[c] /\ link'[on'[m]].open => m = c
  BY <1>1, <1>2, <1>3, <1>4 DEF UseInv
<1>13. /\ pinned' # 0 => pinned' # parked' /\ (gone' \/ link'[pinned'].open)
       /\ parked' # 0 => gone' \/ link'[parked'].open
  BY <1>6 DEF Fewer, UseInv
<1>14. UseInv'
  BY <1>7, <1>8, <1>9, <1>10, <1>11, <1>12, <1>13 DEF UseInv
<1>15. LinkInv'
  <2> SUFFICES ASSUME NEW l \in Links, link'[l].open
      PROVE  Empty(l)' \/ \E k \in Calls : Carries(l, k)'
    BY DEF LinkInv
  <2>1. CASE Empty(l)'
    BY <2>1
  <2>2. CASE SameLoad(l) /\ \A m \in Calls : TalksOn(m, l) => pc'[m] = "talk"
    <3>1. CASE Empty(l)
      BY <2>2, <3>1 DEF Empty, SameLoad
    <3>2. ASSUME NEW k \in Calls, Carries(l, k) PROVE Carries(l, k)'
      <4>1. pc'[k] = "talk" /\ op'[k] = op[k] /\ on'[k] = on[k]
        BY <1>1, <2>2, <3>2 DEF Carries
      <4>2. TalksOn(k, l)' /\ Message(k)' = Message(k)
        BY <3>2, <4>1 DEF Carries, TalksOn, Message
      <4>3. QED
        BY <2>2, <3>2, <4>2 DEF Carries, SameLoad
    <3>3. QED
      BY <1>4, <3>1, <3>2 DEF LinkInv
  <2>3. QED
    BY <2>1, <2>2 DEF Fewer
<1>16. QED
  BY <1>14, <1>15

\* Passing the turn starts no talk.
LEMMA PassingTalks ==
  ASSUME TypeOK, TurnInv, NEW k \in Calls, pc[k] # "queued", NEW x \in States,
         pc' = PassTo([pc EXCEPT ![k] = x])
  PROVE  /\ \A m \in Calls : m # k /\ pc[m] = "talk" => pc'[m] = "talk"
         /\ \A m \in Calls : m # k /\ pc'[m] = "talk" => pc[m] = "talk"
         /\ pc'[k] = x
<1>1. CASE waiting = <<>>
  BY <1>1, Types DEF PassTo
<1>2. CASE waiting # <<>>
  <2>1. Head(waiting) \in Calls /\ pc[Head(waiting)] = "queued"
    BY <1>2, FirstTicket
  <2>2. pc' = [[pc EXCEPT ![k] = x] EXCEPT ![Head(waiting)] = "turn"]
    BY <1>2 DEF PassTo
  <2>3. \A m \in Calls :
          pc'[m] = IF m = Head(waiting) THEN "turn" ELSE IF m = k THEN x ELSE pc[m]
    BY <2>1, <2>2, Types
  <2>4. QED
    BY <2>1, <2>3
<1>3. QED
  BY <1>1, <1>2

\* The end of a call with the turn, after which the connections are as in ln
\* and left is pinned.  Those of ln that are open carry nothing new.
LEMMA FinishFewer ==
  ASSUME TypeOK, TurnInv, UseInv, LinkInv, ~gone, NEW k \in Calls, HasTurn(k),
         NEW ln \in [Links -> Link], NEW left \in {0, pinned}, Finish(k, ln, left),
         left # 0 => ln[left].open,
         \A l \in Links : ln[l].open =>
           /\ link[l].open
           /\ \/ ln[l].inbox = <<>> /\ ln[l].work = <<>> /\ ln[l].outbox = <<>>
              \/ ln[l] = link[l] /\ ~TalksOn(k, l),
         \A l \in Links : l # pinned => ln[l] = link[l],
         UNCHANGED <<op, on, gone, parkedBusy>>,
         \A m \in Calls : m # k => attempt'[m] = attempt[m]
  PROVE  Fewer
<1>1. \E x \in {"exiting", "done"} : pc' = PassTo([pc EXCEPT ![k] = x])
  BY DEF Finish
<1>2. pc[k] # "queued"
  BY DEF HasTurn
<1>3. /\ \A m \in Calls : m # k /\ pc[m] = "talk" => pc'[m] = "talk"
      /\ \A m \in Calls : m # k /\ pc'[m] = "talk" => pc[m] = "talk"
      /\ pc'[k] # "talk"
  BY <1>1, <1>2, PassingTalks DEF States
<1>4. parked \in 0 .. MaxLinks /\ pinned \in 0 .. MaxLinks /\ left \in 0 .. MaxLinks
  BY Numbers DEF TypeOK
<1>5. /\ \A l \in Links : link'[l].open =>
           /\ ln[l].open
           /\ link'[l].inbox = ln[l].inbox /\ link'[l].work = ln[l].work
           /\ link'[l].outbox = ln[l].outbox
      /\ pinned' \in {0, left} /\ parked' \in {0, parked}
      /\ pinned' # 0 => link' = ln
      /\ parked' # 0 => link' = ln /\ parked' = parked
      /\ parked' # parked => \A l \in Links : l = parked => ~link'[l].open
  <2>1. CASE op[k] = "shutdown"
    <3>1. link' = Closed(Closed(ln, left), parked) /\ pinned' = 0 /\ parked' = 0
      BY <2>1 DEF Finish
    <3>2. Closed(ln, left) \in [Links -> Link]
          /\ \A m \in Links :
               /\ Closed(ln, left)[m].open <=> ln[m].open /\ m # left
               /\ Closed(ln, left)[m].inbox = ln[m].inbox
               /\ Closed(ln, left)[m].work = ln[m].work
               /\ Closed(ln, left)[m].outbox = ln[m].outbox
      BY <1>4, ClosedTypes
    <3>3. \A m \in Links :
            /\ link'[m].open <=> Closed(ln, left)[m].open /\ m # parked
            /\ link'[m].inbox = Closed(ln, left)[m].inbox
            /\ link'[m].work = Closed(ln, left)[m].work
            /\ link'[m].outbox = Closed(ln, left)[m].outbox
      BY <1>4, <3>1, <3>2, ClosedTypes
    <3>4. QED
      BY <3>1, <3>2, <3>3
  <2>2. CASE op[k] # "shutdown"
    BY <2>2 DEF Finish
  <2>3. QED
    BY <2>1, <2>2
<1>6. \A m \in Calls : pc'[m] = "talk" =>
        /\ m # k /\ pc[m] = "talk"
        /\ op'[m] = op[m] /\ attempt'[m] = attempt[m] /\ on'[m] = on[m]
  BY <1>3
<1>7. ASSUME NEW l \in Links, link'[l].open
      PROVE  /\ link[l].open
             /\ \/ Empty(l)'
                \/ SameLoad(l) /\ \A m \in Calls : TalksOn(m, l) => pc'[m] = "talk"
  BY <1>3, <1>5, <1>7 DEF Empty, SameLoad, TalksOn
<1>8. pinned' \in {0, pinned} /\ (pinned' # 0 => link'[pinned].open)
  BY <1>5
<1>9. parked' # 0 => link'[parked].open
  <2>1. SUFFICES ASSUME parked' # 0 PROVE link'[parked].open
    OBVIOUS
  <2>2. link' = ln /\ parked # 0 /\ parked \in Links
    BY <1>4, <1>5, <2>1, Numbers
  <2>3. parked # pinned
    BY <2>2 DEF UseInv
  <2>4. QED
    BY <2>2, <2>3 DEF UseInv
<1>10. \A m \in Calls : m # k => ~HasTurn(m)
  BY DEF TurnInv
<1>11. \A m \in Calls : pc'[m] = "talk" /\ Turned(m) => pinned' = pinned
  BY <1>6, <1>10 DEF HasTurn
<1>12. ASSUME NEW m \in Calls, pc'[m] = "talk", Owns(m)
       PROVE  parkedBusy' /\ (link'[on[m]].open => parked' = parked)
  <2>1. on[m] \in Links /\ parkedBusy
    BY <1>12 DEF UseInv, Owns
  <2>2. link'[on[m]].open => on[m] = parked
    BY <1>7, <1>12, <2>1 DEF UseInv
  <2>3. QED
    BY <1>5, <2>1, <2>2
<1>13. QED
  BY <1>5, <1>6, <1>7, <1>8, <1>9, <1>11, <1>12 DEF Fewer

\* Nothing of this changes.
LEMMA NoneFewer ==
  ASSUME TypeOK, UseInv, UNCHANGED <<pinned, parkVars, link, gone>>,
         \A m \in Calls : /\ pc[m] = "talk" => pc'[m] = "talk"
                          /\ pc'[m] = "talk" => /\ pc[m] = "talk" /\ op'[m] = op[m]
                                                /\ attempt'[m] = attempt[m]
                                                /\ on'[m] = on[m]
  PROVE  Fewer
<1>1. \A l \in Links : SameLoad(l) /\ (link'[l].open <=> link[l].open)
  BY DEF SameLoad
<1>2. \A m \in Calls, l \in Links : TalksOn(m, l) => pc'[m] = "talk"
  BY DEF TalksOn
<1>3. \A m \in Calls : Owns(m) => parkedBusy'
  BY DEF UseInv
<1>4. pinned' # 0 => gone' \/ link'[pinned].open
  BY DEF UseInv
<1>5. parked' # 0 => gone' \/ link'[parked].open
  BY DEF UseInv
<1>6. QED
  BY <1>1, <1>2, <1>3, <1>4, <1>5 DEF Fewer

LEMMA CallFewer ==
  ASSUME TypeOK, UseInv, NEW k \in Calls, NEW m \in Kinds, Call(k, m)
  PROVE  Fewer
<1>1. UNCHANGED <<pinned, parkVars, link, gone, on>> /\ pc[k] = "idle"
  BY DEF Call
<1>2. \A c \in Calls : c # k => /\ pc'[c] = pc[c] /\ op'[c] = op[c]
                                /\ attempt'[c] = attempt[c]
  <2>1. CASE m = "wait"
    BY <2>1, Types DEF Call
  <2>2. CASE m # "wait"
    <3>1. Ask(k, FirstOp(m))
      BY <2>2 DEF Call
    <3>2. QED
      BY <3>1, Types DEF Ask
  <2>3. QED
    BY <2>1, <2>2
<1>3. pc'[k] # "talk"
  <2>1. CASE m = "wait"
    BY <2>1, Types DEF Call
  <2>2. CASE m # "wait"
    <3>1. Ask(k, FirstOp(m))
      BY <2>2 DEF Call
    <3>2. QED
      BY <3>1, Types DEF Ask
  <2>3. QED
    BY <2>1, <2>2
<1>4. QED
  BY <1>1, <1>2, <1>3, NoneFewer

LEMMA SpawnFewer ==
  ASSUME TypeOK, UseInv, NEW k \in Calls, Spawn(k)
  PROVE  Fewer
<1>1. UNCHANGED <<pinned, parkVars, link, gone, on, op, attempt>>
      /\ pc[k] = "turn" /\ pc' = [pc EXCEPT ![k] = "ensure"]
  BY DEF Spawn
<1>2. \A m \in Calls : pc'[m] = IF m = k THEN "ensure" ELSE pc[m]
  BY <1>1, Types
<1>3. QED
  BY <1>1, <1>2, NoneFewer

LEMMA GiveUpFewer ==
  ASSUME TypeOK, TurnInv, UseInv, LinkInv, ~gone, NEW k \in Calls, GiveUp(k)
  PROVE  Fewer
<1>1. HasTurn(k) /\ Finish(k, link, 0) /\ UNCHANGED <<op, on, gone, parkedBusy, attempt>>
      /\ pc[k] # "talk"
  BY DEF GiveUp, HasTurn
<1>2. link \in [Links -> Link]
  BY Types
<1>3. \A l \in Links : ~TalksOn(k, l)
  BY <1>1 DEF TalksOn
<1>4. QED
  BY <1>1, <1>2, <1>3, FinishFewer

\* A call with the turn talks on the pinned connection.
LEMMA TurnedTalk ==
  ASSUME TypeOK, TurnInv, UseInv, NEW k \in Calls, pc[k] = "talk", Turned(k)
  PROVE  /\ HasTurn(k) /\ on[k] = pinned /\ pinned \in Links /\ TalksOn(k, pinned)
         /\ \A m \in Calls : m # k => ~HasTurn(m)
BY DEF HasTurn, UseInv, TurnInv, TalksOn

LEMMA ReplyFewer ==
  ASSUME TypeOK, TurnInv, UseInv, LinkInv, ~gone, NEW k \in Calls, TalkReplies(k)
  PROVE  Fewer
<1> DEFINE l == on[k]
           read == [link EXCEPT ![l].outbox = Tail(@)]
<1>1. /\ pc[k] = "talk" /\ Turned(k) /\ link[l].open /\ link[l].outbox # <<>>
      /\ UNCHANGED <<parkedBusy, on, gone>>
  BY DEF TalkReplies
<1>2. /\ HasTurn(k) /\ l = pinned /\ l \in Links /\ TalksOn(k, l)
      /\ \A m \in Calls : m # k => ~HasTurn(m)
  BY <1>1, TurnedTalk
<1>3. Tail(link[l].outbox) = <<>> /\ link[l].inbox = <<>> /\ link[l].work = <<>>
  BY <1>1, <1>2, OwnReply
<1>4. read \in [Links -> Link]
  BY <1>1, <1>2, ReadTypes
<1>5. \A m \in Links : /\ m # l => read[m] = link[m]
                       /\ read[m].open <=> link[m].open
  BY <1>2, Types DEF Link
<1>6. read[l].inbox = <<>> /\ read[l].work = <<>> /\ read[l].outbox = <<>>
  BY <1>2, <1>3, Types DEF Link
<1>7. CASE op[k] # "probe"
  <2>1. Finish(k, read, pinned) /\ UNCHANGED <<op, attempt>>
    BY <1>7 DEF TalkReplies
  <2>2. \A m \in Links : m # l => ~TalksOn(k, m)
    BY DEF TalksOn
  <2>3. \A m \in Links : read[m].open =>
          /\ link[m].open
          /\ \/ read[m].inbox = <<>> /\ read[m].work = <<>> /\ read[m].outbox = <<>>
             \/ read[m] = link[m] /\ ~TalksOn(k, m)
    BY <1>5, <1>6, <2>2
  <2>4. read[pinned].open
    BY <1>1, <1>2, <1>5
  <2>5. \A m \in Links : m # pinned => read[m] = link[m]
    BY <1>2, <1>5
  <2> HIDE DEF read, l
  <2>6. QED
    BY <1>1, <1>2, <1>4, <2>1, <2>3, <2>4, <2>5, FinishFewer
<1>8. CASE op[k] = "probe"
  <2>1. /\ op' = [op EXCEPT ![k] = "start"] /\ attempt' = [attempt EXCEPT ![k] = 1]
        /\ link' = read /\ UNCHANGED <<pinned, parked, kept>>
    BY <1>8 DEF TalkReplies
  <2>2. /\ pc'[k] # "talk"
        /\ \A m \in Calls : m # k => (pc'[m] = "talk" <=> pc[m] = "talk")
    <3>1. CASE waiting = <<>>
      <4>1. pc' = [pc EXCEPT ![k] = "turn"]
        BY <1>8, <3>1 DEF TalkReplies
      <4>2. QED
        BY <4>1, Types
    <3>2. CASE waiting # <<>>
      <4>1. pc' = [[pc EXCEPT ![Head(waiting)] = "turn"] EXCEPT ![k] = "queued"]
        BY <1>8, <3>2 DEF TalkReplies, PassTo
      <4>2. Head(waiting) \in Calls /\ pc[Head(waiting)] = "queued"
        BY <3>2, FirstTicket
      <4>3. \A m \in Calls : pc'[m] = IF m = k THEN "queued"
                                      ELSE IF m = Head(waiting) THEN "turn" ELSE pc[m]
        BY <4>1, <4>2, Types
      <4>4. QED
        BY <4>2, <4>3
    <3>3. QED
      BY <3>1, <3>2
  <2>3. \A m \in Calls : pc'[m] = "talk" =>
          /\ m # k /\ pc[m] = "talk" /\ ~Turned(m)
          /\ op'[m] = op[m] /\ attempt'[m] = attempt[m] /\ on'[m] = on[m]
    BY <1>1, <1>2, <2>1, <2>2, Types DEF HasTurn
  <2>4. \A m \in Links : link'[m].open =>
          /\ link[m].open
          /\ \/ Empty(m)'
             \/ SameLoad(m) /\ \A c \in Calls : TalksOn(c, m) => pc'[c] = "talk"
    BY <1>5, <1>6, <2>1, <2>2 DEF Empty, SameLoad, TalksOn
  <2>5. pinned' # 0 => link'[pinned].open
    BY <1>1, <1>2, <1>5, <2>1
  <2>6. parked' # 0 => link'[parked].open
    BY <1>5, <2>1, Numbers DEF UseInv, TypeOK
  <2>7. \A m \in Calls : Owns(m) => parkedBusy'
    BY <1>1 DEF UseInv
  <2>8. QED
    BY <2>1, <2>3, <2>4, <2>5, <2>6, <2>7 DEF Fewer
<1>9. QED
  BY <1>7, <1>8

LEMMA FailFewer ==
  ASSUME TypeOK, TurnInv, UseInv, LinkInv, ~gone, NEW k \in Calls, TalkFails(k)
  PROVE  Fewer
<1> DEFINE ln == Closed(link, pinned)
<1>1. /\ HasTurn(k) /\ on[k] = pinned /\ pinned \in Links /\ TalksOn(k, pinned)
      /\ \A m \in Calls : m # k => ~HasTurn(m)
  BY TurnedTalk DEF TalkFails
<1>2. pc[k] = "talk" /\ UNCHANGED <<op, on, gone, parkedBusy>>
  BY DEF TalkFails
<1>3. /\ ln \in [Links -> Link]
      /\ \A m \in Links :
           /\ ln[m].open <=> link[m].open /\ m # pinned
           /\ ln[m].inbox = link[m].inbox /\ ln[m].work = link[m].work
           /\ ln[m].outbox = link[m].outbox
  <2>1. link \in [Links -> Link] /\ pinned \in 0 .. MaxLinks
    BY Types DEF TypeOK
  <2>2. QED
    BY <2>1, ClosedTypes
<1>4. \A l \in Links : l # pinned => ln[l] = link[l]
  BY Types DEF Closed
<1>5. \A l \in Links : l # pinned => ~TalksOn(k, l)
  BY <1>1 DEF TalksOn
<1>6. CASE ~TriesAgain(k)
  <2>1. Finish(k, ln, 0) /\ UNCHANGED attempt
    BY <1>6 DEF TalkFails
  <2>2. \A l \in Links : ln[l].open => link[l].open /\ ln[l] = link[l] /\ ~TalksOn(k, l)
    BY <1>3, <1>4, <1>5
  <2> HIDE DEF ln
  <2>3. QED
    BY <1>1, <1>2, <1>3, <1>4, <2>1, <2>2, FinishFewer
<1>7. CASE TriesAgain(k)
  <2>1. /\ link' = ln /\ pinned' = 0 /\ attempt' = [attempt EXCEPT ![k] = @ + 1]
        /\ pc' = [pc EXCEPT ![k] = "turn"] /\ UNCHANGED parked
    BY <1>7 DEF TalkFails, DropPinned
  <2>2. \A m \in Calls : m # k => pc'[m] = pc[m] /\ attempt'[m] = attempt[m]
    BY <2>1, Types
  <2>3. pc'[k] = "turn"
    BY <2>1, Types
  <2>4. \A m \in Calls : pc'[m] = "talk" =>
          /\ pc[m] = "talk" /\ ~Turned(m)
          /\ op'[m] = op[m] /\ attempt'[m] = attempt[m] /\ on'[m] = on[m]
    BY <1>1, <1>2, <2>2, <2>3 DEF HasTurn
  <2>5. \A l \in Links : link'[l].open =>
          link[l].open /\ SameLoad(l) /\ \A m \in Calls : TalksOn(m, l) => pc'[m] = "talk"
    BY <1>3, <1>5, <2>1, <2>2 DEF SameLoad, TalksOn
  <2>6. parked' # 0 => gone' \/ link'[parked].open
    <3>1. parked # 0 => parked \in Links /\ parked # pinned /\ (gone \/ link[parked].open)
      BY <1>1, Numbers DEF UseInv, TypeOK
    <3>2. QED
      BY <1>2, <1>3, <2>1, <3>1
  <2>7. \A m \in Calls : Owns(m) => parkedBusy'
    BY <1>2 DEF UseInv
  <2>8. QED
    BY <2>1, <2>4, <2>5, <2>6, <2>7 DEF Fewer
<1>8. QED
  BY <1>6, <1>7

LEMMA ParkedFewer ==
  ASSUME TypeOK, TurnInv, UseInv, LinkInv, NEW k \in Calls, ParkedReplies(k) \/ ParkedFails(k)
  PROVE  Fewer
<1> DEFINE l == on[k]
<1>1. /\ pc[k] = "talk" /\ ~Turned(k) /\ pc' = [pc EXCEPT ![k] = "done"]
      /\ UNCHANGED <<pinned, op, on, attempt, gone>>
  BY DEF ParkedReplies, ParkedFails
<1>2. l \in Links /\ TalksOn(k, l) /\ (Owns(k) <=> attempt[k] = 1)
  BY <1>1 DEF UseInv, TalksOn, Owns
<1>3. /\ \A m \in Calls : m # k => pc'[m] = pc[m]
      /\ pc'[k] = "done"
  BY <1>1, Types
<1>4. \A m \in Calls : pc'[m] = "talk" =>
        /\ m # k /\ pc[m] = "talk" /\ op'[m] = op[m]
        /\ attempt'[m] = attempt[m] /\ on'[m] = on[m]
  BY <1>1, <1>3
<1>5. /\ pinned # 0 => pinned \in Links /\ pinned # parked /\ (gone \/ link[pinned].open)
      /\ parked # 0 => parked \in Links /\ (gone \/ link[parked].open)
  BY Numbers DEF UseInv, TypeOK
<1>6. \A m \in Calls : pc'[m] = "talk" /\ Owns(m) => parkedBusy /\ attempt[k] # 1
  BY <1>2, <1>4 DEF UseInv
<1>7. CASE ParkedReplies(k)
  <2>1. link[l].open /\ link[l].outbox # <<>>
        /\ link' = [link EXCEPT ![l].outbox = Tail(@), ![l].open = (attempt[k] = 1)]
        /\ parkedBusy' = (parkedBusy /\ attempt[k] # 1) /\ parked' = parked
    BY <1>7 DEF ParkedReplies
  <2>2. Tail(link[l].outbox) = <<>> /\ link[l].inbox = <<>> /\ link[l].work = <<>>
    BY <1>2, <2>1, OwnReply
  <2>3. /\ link'[l].open <=> attempt[k] = 1
        /\ link'[l].inbox = <<>> /\ link'[l].work = <<>> /\ link'[l].outbox = <<>>
        /\ \A m \in Links : m # l => link'[m] = link[m]
    BY <1>2, <2>1, <2>2, Types DEF Link
  <2>4. \A m \in Links : link'[m].open =>
          /\ link[m].open
          /\ \/ Empty(m)'
             \/ SameLoad(m) /\ \A c \in Calls : TalksOn(c, m) => pc'[c] = "talk"
    BY <1>3, <2>1, <2>3 DEF Empty, SameLoad, TalksOn
  <2>5. attempt[k] # 1 => l # pinned /\ l # parked
    BY <1>1, <2>1 DEF UseInv, Visits
  <2>6. /\ pinned' # 0 => gone' \/ link'[pinned].open
        /\ parked' # 0 => gone' \/ link'[parked].open
    BY <1>1, <1>5, <2>1, <2>3, <2>5
  <2>7. QED
    BY <1>1, <1>4, <1>6, <2>1, <2>4, <2>6 DEF Fewer
<1>8. CASE ParkedFails(k)
  <2> DEFINE gives == IF attempt[k] = 1 THEN parked ELSE l
  <2>1. /\ link' = Closed(link, gives)
        /\ parked' = IF attempt[k] = 1 THEN 0 ELSE parked
        /\ attempt[k] # 1 => parkedBusy' = parkedBusy
    BY <1>8 DEF ParkedFails
  <2>2. gives \in 0 .. MaxLinks
    BY <1>2, Numbers DEF TypeOK
  <2>3. \A m \in Links :
          /\ link'[m].open <=> link[m].open /\ m # gives
          /\ link'[m].inbox = link[m].inbox /\ link'[m].work = link[m].work
          /\ link'[m].outbox = link[m].outbox
    <3>1. link \in [Links -> Link]
      BY Types
    <3> HIDE DEF gives
    <3>2. \A m \in Links :
            /\ Closed(link, gives)[m].open <=> link[m].open /\ m # gives
            /\ Closed(link, gives)[m].inbox = link[m].inbox
            /\ Closed(link, gives)[m].work = link[m].work
            /\ Closed(link, gives)[m].outbox = link[m].outbox
      BY <2>2, <3>1, ClosedTypes
    <3>3. QED
      BY <2>1, <3>2
  <2>4. \A m \in Links : link'[m].open => m # l
    BY <1>2, <2>3 DEF UseInv
  <2>5. \A m \in Links : link'[m].open =>
          link[m].open /\ SameLoad(m) /\ \A c \in Calls : TalksOn(c, m) => pc'[c] = "talk"
    BY <1>3, <2>3, <2>4 DEF SameLoad, TalksOn
  <2>6. attempt[k] # 1 /\ link[l].open => l # pinned /\ l # parked
    BY <1>1 DEF UseInv, Visits
  <2>7. pinned' # 0 => gone' \/ link'[pinned].open
    BY <1>1, <1>5, <2>3, <2>6
  <2>8. parked' # 0 => gone' \/ link'[parked].open
    BY <1>1, <1>5, <2>1, <2>3, <2>6
  <2>9. QED
    BY <1>1, <1>4, <1>6, <2>1, <2>5, <2>7, <2>8 DEF Fewer
<1>9. QED
  BY <1>7, <1>8

LEMMA ExitFewer ==
  ASSUME TypeOK, UseInv, NEW k \in Calls, Exit(k)
  PROVE  Fewer
<1>1. gone' /\ UNCHANGED <<pc, op, attempt, on, pinned, parked, parkedBusy>>
  BY DEF Exit
<1>2. \A l \in Links : ~link'[l].open
  BY Types DEF Exit, Link
<1>3. \A m \in Calls : Owns(m) => parkedBusy /\ on[m] \in Links
  BY DEF UseInv, Owns
<1>4. QED
  BY <1>1, <1>2, <1>3 DEF Fewer

\* A supervisor dies with what it has not replied to.
LEMMA DiesFewer ==
  ASSUME TypeOK, UseInv, LinkInv, NEW s \in Sups, Dies(s),
         UNCHANGED <<turnVars, parkVars, callVars, serverVars>>
  PROVE  Fewer
<1>1. \A l \in Links : link'[l] = IF link[l].to # s THEN link[l]
                                  ELSE [link[l] EXCEPT !.inbox = <<>>, !.work = <<>>]
  BY DEF Dies
<1>2. \A l \in Links :
        /\ link'[l].open <=> link[l].open
        /\ link'[l].outbox = link[l].outbox
        /\ SameLoad(l) \/ (link'[l].inbox = <<>> /\ link'[l].work = <<>>)
  BY <1>1, Types DEF Link, SameLoad
<1>3. ASSUME NEW l \in Links, link[l].open
      PROVE  Empty(l)' \/ SameLoad(l)
  BY <1>2, <1>3 DEF LinkInv, Empty, Carries, SameLoad
<1>4. \A m \in Calls, l \in Links : TalksOn(m, l) => pc'[m] = "talk"
  BY DEF TalksOn
<1>5. /\ pinned' # 0 => gone' \/ link'[pinned].open
      /\ parked' # 0 => gone' \/ link'[parked].open
  BY <1>2, Numbers DEF UseInv, TypeOK
<1>6. \A m \in Calls : Owns(m) => parkedBusy'
  BY DEF UseInv
<1>7. QED
  BY <1>2, <1>3, <1>4, <1>5, <1>6 DEF Fewer

LEMMA SupFewer ==
  ASSUME TypeOK, UseInv, LinkInv, NEW s \in Sups, SupStep(s) \/ Crashes(s)
  PROVE  Fewer
<1>1. CASE Clears(s) \/ Binds(s) \/ Closes(s)
  BY <1>1, NoneFewer DEF Clears, Binds, Closes
<1>2. CASE Ends(s) \/ Watches(s) \/ Crashes(s)
  BY <1>2, DiesFewer DEF Ends, Watches, Crashes
<1>3. QED
  BY <1>1, <1>2 DEF SupStep

\* A message is written to a connection that nobody talks on.
LEMMA Starting ==
  ASSUME TypeOK, UseInv, LinkInv, ~gone, NEW k \in Calls, NEW l \in Links,
         pc[k] # "talk", \A m \in Calls : ~TalksOn(m, l),
         link'[l].open, link'[l].inbox = <<Message(k)>>, link'[l].work = <<>>,
         link'[l].outbox = <<>>, \A m \in Links : m # l => link'[m] = link[m],
         pc' = [pc EXCEPT ![k] = "talk"], on' = [on EXCEPT ![k] = l],
         \A m \in Calls : m # k => attempt'[m] = attempt[m], UNCHANGED <<op, gone>>,
         \/ /\ Turned(k) /\ pinned' = l /\ pinned \in {0, l} /\ l # parked
            /\ UNCHANGED <<parked, parkedBusy>> /\ \A m \in Calls : m # k => ~HasTurn(m)
         \/ /\ ~Turned(k) /\ attempt'[k] = 1 /\ ~parkedBusy /\ parkedBusy'
            /\ parked' = l /\ parked \in {0, l} /\ l # pinned /\ UNCHANGED pinned
         \/ /\ ~Turned(k) /\ attempt'[k] # 1 /\ parkedBusy'
            /\ l \notin {pinned, parked} /\ UNCHANGED <<pinned, parked>>
  PROVE  UseInv' /\ LinkInv'
<1>1. /\ \A m \in Calls : pc'[m] = (IF m = k THEN "talk" ELSE pc[m])
                          /\ on'[m] = (IF m = k THEN l ELSE on[m])
  BY Types
<1>2. \A m \in Calls : /\ Turned(m)' <=> Turned(m)
                       /\ Message(m)' = Message(m)
  BY DEF Turned, Message
<1>3. \A m \in Calls : m # k => /\ Owns(m)' <=> Owns(m)
                                /\ Visits(m)' <=> Visits(m)
  BY <1>1, <1>2 DEF Owns, Visits
<1>4. /\ Owns(k)' <=> ~Turned(k) /\ attempt'[k] = 1
      /\ Visits(k)' <=> ~Turned(k) /\ attempt'[k] # 1
  BY <1>1, <1>2 DEF Owns, Visits
<1>5. \A m \in Calls : m # k /\ pc[m] = "talk" => on[m] \in Links /\ on[m] # l
  BY DEF UseInv, TalksOn
<1>6. \A m \in Links : m # l => link'[m].open = link[m].open
  OBVIOUS
<1>7. l # 0 /\ 0 \notin Links
  BY Numbers
<1>8. \A m \in Calls : pc'[m] = "talk" => on'[m] \in Links
  BY <1>1, <1>5
<1>9. \A m \in Calls : pc'[m] = "talk" /\ Turned(m)' => on'[m] = pinned'
  BY <1>1, <1>2, <1>5 DEF UseInv, HasTurn
<1>10. ASSUME NEW m \in Calls, Owns(m)'
       PROVE  parkedBusy' /\ (link'[on'[m]].open => on'[m] = parked')
  <2>1. CASE m = k
    BY <1>1, <1>4, <1>10, <2>1
  <2>2. CASE m # k
    <3>1. Owns(m) /\ on'[m] = on[m] /\ on[m] \in Links /\ on[m] # l
      BY <1>1, <1>3, <1>5, <1>10, <2>2 DEF Owns
    <3>2. parkedBusy /\ (link[on[m]].open => on[m] = parked)
      BY <3>1 DEF UseInv
    <3>3. QED
      BY <1>6, <3>1, <3>2
  <2>3. QED
    BY <2>1, <2>2
<1>11. \A m, c \in Calls : Owns(m)' /\ Owns(c)' => m = c
  BY <1>3, <1>4 DEF UseInv
<1>12. ASSUME NEW m \in Calls, Visits(m)', link'[on'[m]].open
       PROVE  on'[m] \notin {pinned', parked'}
  <2>1. CASE m = k
    BY <1>1, <1>4, <1>12, <2>1
  <2>2. CASE m # k
    <3>1. Visits(m) /\ on'[m] = on[m] /\ on[m] \in Links /\ on[m] # l
      BY <1>1, <1>3, <1>5, <1>12, <2>2 DEF Visits
    <3>2. on[m] \notin {pinned, parked}
      BY <1>6, <1>12, <3>1 DEF UseInv
    <3>3. QED
      BY <3>1, <3>2
  <2>3. QED
    BY <2>1, <2>2
<1>13. ASSUME NEW m \in Calls, NEW c \in Calls, Visits(m)', Visits(c)', on'[m] = on'[c],
              link'[on'[m]].open
       PROVE  m = c
  <2>1. CASE m = k \/ c = k
    BY <1>1, <1>3, <1>5, <1>13, <2>1 DEF Visits
  <2>2. CASE m # k /\ c # k
    BY <1>1, <1>3, <1>5, <1>6, <1>13, <2>2 DEF Visits, UseInv
  <2>3. QED
    BY <2>1, <2>2
<1>14. /\ pinned' # 0 => pinned' # parked' /\ (gone' \/ link'[pinned'].open)
       /\ parked' # 0 => gone' \/ link'[parked'].open
  <2>1. /\ pinned # 0 => pinned \in Links /\ pinned # parked /\ link[pinned].open
        /\ parked # 0 => parked \in Links /\ link[parked].open
    BY Numbers DEF UseInv, TypeOK
  <2>2. QED
    BY <1>6, <1>7, <2>1
<1>15. UseInv'
  BY <1>8, <1>9, <1>10, <1>11, <1>12, <1>13, <1>14 DEF UseInv
<1>16. ASSUME NEW m \in Links, link'[m].open
       PROVE  Empty(m)' \/ \E c \in Calls : Carries(m, c)'
  <2>1. CASE m = l
    <3>1. TalksOn(k, l)'
      BY <1>1 DEF TalksOn
    <3>2. Carries(l, k)'
      BY <1>2, <3>1 DEF Carries
    <3>3. QED
      BY <2>1, <3>2
  <2>2. CASE m # l
    <3>1. link'[m] = link[m]
      BY <2>2
    <3>2. CASE Empty(m)
      BY <3>1, <3>2 DEF Empty
    <3>3. ASSUME NEW c \in Calls, Carries(m, c) PROVE Carries(m, c)'
      <4>1. c # k
        BY <3>3 DEF Carries, TalksOn
      <4>2. TalksOn(c, m)'
        BY <1>1, <3>3, <4>1 DEF Carries, TalksOn
      <4>3. QED
        BY <1>2, <3>1, <3>3, <4>2 DEF Carries
    <3>4. QED
      BY <1>16, <3>1, <3>2, <3>3 DEF LinkInv
  <2>3. QED
    BY <2>1, <2>2
<1>17. QED
  BY <1>15, <1>16 DEF LinkInv

\* On a new connection; nobody talks on it yet, and none that is pinned or
\* parked is free.
LEMMA FreeFacts ==
  ASSUME TypeOK, UseInv, ~gone, NEW l \in FreeLinks
  PROVE  /\ l \in Links /\ l # pinned /\ l # parked /\ ~link[l].open
         /\ link[l].inbox = <<>> /\ link[l].work = <<>> /\ \A m \in Calls : ~TalksOn(m, l)
<1>1. l \in Links /\ ~link[l].open /\ link[l].inbox = <<>> /\ link[l].work = <<>>
      /\ \A m \in Calls : ~TalksOn(m, l)
  BY DEF FreeLinks, TalksOn
<1>2. l # 0
  BY <1>1, Numbers
<1>3. QED
  BY <1>1, <1>2 DEF UseInv

LEMMA NewFacts ==
  ASSUME TypeOK, NEW k \in Calls, NEW s, NEW l \in Links, TalkOnNew(k, s, l)
  PROVE  /\ link'[l].open /\ link'[l].inbox = <<Message(k)>> /\ link'[l].work = <<>>
         /\ link'[l].outbox = <<>> /\ \A m \in Links : m # l => link'[m] = link[m]
         /\ pc' = [pc EXCEPT ![k] = "talk"] /\ on' = [on EXCEPT ![k] = l]
<1>1. link' = [link EXCEPT ![l] =
        [NoLink EXCEPT !.to = s, !.open = TRUE, !.inbox = <<Message(k)>>]]
  BY DEF TalkOnNew, Message
<1>2. link'[l] = [NoLink EXCEPT !.to = s, !.open = TRUE, !.inbox = <<Message(k)>>]
  BY <1>1, Types
<1>3. /\ link'[l].open /\ link'[l].inbox = <<Message(k)>> /\ link'[l].work = <<>>
      /\ link'[l].outbox = <<>>
  BY <1>2 DEF NoLink
<1>4. pc' = [pc EXCEPT ![k] = "talk"] /\ on' = [on EXCEPT ![k] = l]
  BY DEF TalkOnNew
<1>5. QED
  BY <1>1, <1>3, <1>4, Types

LEMMA AgainFacts ==
  ASSUME TypeOK, LinkInv, NEW k \in Calls, NEW l \in Links, link[l].open,
         \A m \in Calls : ~TalksOn(m, l), TalkOn(k, l)
  PROVE  /\ link[l].inbox = <<>>
         /\ link'[l].open /\ link'[l].inbox = <<Message(k)>> /\ link'[l].work = <<>>
         /\ link'[l].outbox = <<>> /\ \A m \in Links : m # l => link'[m] = link[m]
         /\ pc' = [pc EXCEPT ![k] = "talk"] /\ on' = [on EXCEPT ![k] = l]
<1>1. link[l].inbox = <<>> /\ link[l].work = <<>> /\ link[l].outbox = <<>>
  BY DEF LinkInv, Empty, Carries
<1>2. link' = [link EXCEPT ![l].inbox = Append(<<>>, Message(k))]
  BY <1>1 DEF TalkOn, Message
<1>3. Append(<<>>, Message(k)) = <<Message(k)>>
  BY Single
<1>4. link'[l] = [link[l] EXCEPT !.inbox = <<Message(k)>>]
  BY <1>2, <1>3, Types
<1>5. pc' = [pc EXCEPT ![k] = "talk"] /\ on' = [on EXCEPT ![k] = l]
  BY DEF TalkOn
<1>6. link[l] \in Link
  BY Types
<1>7. QED
  BY <1>1, <1>2, <1>4, <1>5, <1>6, Types DEF Link

\* Nobody talks on the pinned connection while a call has the turn for it, and
\* on the parked one while it is not busy.
LEMMA NobodyOnPinned ==
  ASSUME TypeOK, TurnInv, UseInv, ~gone, pinned # 0,
         NEW k \in Calls, HasTurn(k), pc[k] # "talk"
  PROVE  pinned \in Links /\ link[pinned].open /\ pinned # parked
         /\ \A m \in Calls : ~TalksOn(m, pinned)
<1>1. pinned \in Links /\ link[pinned].open /\ pinned # parked
  BY Numbers DEF TypeOK, UseInv
<1>2. ASSUME NEW m \in Calls, TalksOn(m, pinned) PROVE FALSE
  <2>1. m # k /\ ~HasTurn(m) /\ pc[m] = "talk" /\ on[m] = pinned
    BY <1>2 DEF TurnInv, TalksOn
  <2>2. ~Turned(m) /\ (Owns(m) \/ Visits(m))
    BY <2>1 DEF HasTurn, Owns, Visits
  <2>3. QED
    BY <1>1, <2>1, <2>2 DEF UseInv
<1>3. QED
  BY <1>1, <1>2

LEMMA NobodyOnParked ==
  ASSUME TypeOK, UseInv, ~gone, parked # 0, ~parkedBusy
  PROVE  parked \in Links /\ link[parked].open /\ parked # pinned
         /\ \A m \in Calls : ~TalksOn(m, parked)
<1>1. parked \in Links /\ link[parked].open /\ parked # pinned
  BY Numbers DEF TypeOK, UseInv
<1>2. ASSUME NEW m \in Calls, TalksOn(m, parked) PROVE FALSE
  <2>1. pc[m] = "talk" /\ on[m] = parked
    BY <1>2 DEF TalksOn
  <2>2. Turned(m) \/ Owns(m) \/ Visits(m)
    BY <2>1 DEF Owns, Visits
  <2>3. QED
    BY <1>1, <2>1, <2>2 DEF UseInv
<1>3. QED
  BY <1>1, <1>2

LEMMA StartUse ==
  ASSUME TypeOK, TurnInv, UseInv, LinkInv, ~gone, NEW k \in Calls,
         UsePinned(k) \/ Connect(k) \/ Park(k)
  PROVE  UseInv' /\ LinkInv'
<1>1. CASE UsePinned(k)
  <2>1. /\ HasTurn(k) /\ pc[k] # "talk" /\ pinned # 0 /\ TalkOn(k, pinned)
        /\ UNCHANGED <<pinned, parked, parkedBusy, attempt, op, gone>>
    BY <1>1 DEF UsePinned, HasTurn
  <2>2. Turned(k) /\ \A m \in Calls : m # k => ~HasTurn(m)
    BY <1>1, <2>1 DEF UsePinned, TurnInv, Turned
  <2>3. pinned \in Links /\ link[pinned].open /\ pinned # parked
        /\ \A m \in Calls : ~TalksOn(m, pinned)
    BY <2>1, NobodyOnPinned
  <2>4. QED
    BY <2>1, <2>2, <2>3, AgainFacts, Starting
<1>2. CASE Connect(k)
  <2>1. PICK l \in FreeLinks : TalkOnNew(k, path, l) /\ pinned' = l
    BY <1>2 DEF Connect
  <2>2. /\ HasTurn(k) /\ pc[k] # "talk" /\ pinned = 0
        /\ UNCHANGED <<parked, parkedBusy, attempt, op, gone>>
    BY <1>2 DEF Connect, HasTurn
  <2>3. Turned(k) /\ \A m \in Calls : m # k => ~HasTurn(m)
    BY <1>2, <2>2 DEF Connect, TurnInv, Turned
  <2>4. QED
    BY <2>1, <2>2, <2>3, FreeFacts, NewFacts, Starting
<1>3. CASE Park(k)
  <2>1. /\ pc[k] = "park" /\ ~Turned(k) /\ UNCHANGED <<pinned, op, gone>>
        /\ attempt' = [attempt EXCEPT ![k] = IF parkedBusy THEN 2 ELSE 1]
    BY <1>3 DEF Park, Turned, TurnInv
  <2>2. /\ \A m \in Calls : m # k => attempt'[m] = attempt[m]
        /\ attempt'[k] = IF parkedBusy THEN 2 ELSE 1
    BY <2>1, Types
  <2>3. CASE (parkedBusy \/ parked = 0) /\ Listening(path)
    <3>1. PICK l \in FreeLinks : /\ TalkOnNew(k, path, l)
                                 /\ parked' = IF parkedBusy THEN parked ELSE l
      BY <1>3, <2>3 DEF Park
    <3>2. parkedBusy' = TRUE
      BY <1>3, <2>3 DEF Park
    <3>3. /\ l \in Links /\ l # pinned /\ l # parked
          /\ \A m \in Calls : ~TalksOn(m, l)
      BY FreeFacts
    <3>4. /\ link'[l].open /\ link'[l].inbox = <<Message(k)>> /\ link'[l].work = <<>>
          /\ link'[l].outbox = <<>> /\ \A m \in Links : m # l => link'[m] = link[m]
          /\ pc' = [pc EXCEPT ![k] = "talk"] /\ on' = [on EXCEPT ![k] = l]
      BY <3>1, <3>3, NewFacts
    <3>5. \/ /\ ~Turned(k) /\ attempt'[k] = 1 /\ ~parkedBusy /\ parkedBusy'
             /\ parked' = l /\ parked \in {0, l} /\ l # pinned /\ UNCHANGED pinned
          \/ /\ ~Turned(k) /\ attempt'[k] # 1 /\ parkedBusy'
             /\ l \notin {pinned, parked} /\ UNCHANGED <<pinned, parked>>
      <4>1. CASE parkedBusy
        <5>1. attempt'[k] # 1 /\ parked' = parked
          BY <2>2, <3>1, <4>1
        <5>2. QED
          BY <2>1, <3>2, <3>3, <5>1
      <4>2. CASE ~parkedBusy
        <5>1. attempt'[k] = 1 /\ parked' = l /\ parked = 0
          BY <2>2, <2>3, <3>1, <4>2
        <5>2. QED
          BY <2>1, <3>2, <3>3, <4>2, <5>1
      <4>3. QED
        BY <4>1, <4>2
    <3>6. pc[k] # "talk" /\ UNCHANGED <<op, gone>>
      BY <2>1
    <3>7. QED
      BY <2>2, <3>3, <3>4, <3>5, <3>6, Starting
  <2>4. CASE (parkedBusy \/ parked = 0) /\ ~Listening(path)
    <3>1. pc' = [pc EXCEPT ![k] = "done"] /\ UNCHANGED <<parkVars, on, link>>
      BY <1>3, <2>4 DEF Park
    <3>2. \A m \in Calls : pc'[m] = IF m = k THEN "done" ELSE pc[m]
      BY <3>1, Types
    <3>3. Fewer
      BY <2>1, <2>2, <3>1, <3>2, NoneFewer
    <3>4. QED
      BY <3>3, FewerKeeps
  <2>5. CASE ~(parkedBusy \/ parked = 0)
    <3>1. TalkOn(k, parked) /\ parkedBusy' = TRUE /\ UNCHANGED parked
      BY <1>3, <2>5 DEF Park
    <3>2. attempt'[k] = 1
      BY <2>2, <2>5
    <3>3. parked \in Links /\ link[parked].open /\ parked # pinned
          /\ \A m \in Calls : ~TalksOn(m, parked)
      BY <2>5, NobodyOnParked
    <3>4. QED
      BY <2>1, <2>2, <2>5, <3>1, <3>2, <3>3, AgainFacts, Starting
  <2>6. QED
    BY <2>3, <2>4, <2>5
<1>4. QED
  BY <1>1, <1>2, <1>3

\* A message moves on within its connection.
LEMMA MovingOn ==
  ASSUME TypeOK, UseInv, LinkInv, NEW l \in Links, Handles(l) \/ Replies(l)
  PROVE  UseInv' /\ LinkInv'
<1>1. UNCHANGED <<turnVars, parkVars, callVars, serverVars>>
  BY DEF Handles, Replies
<1>2. /\ \A m \in Links : link'[m].open = link[m].open
      /\ \A m \in Links : m # l => link'[m] = link[m]
  <2>1. link[l] \in Link
    BY Types
  <2>2. CASE Handles(l)
    <3>1. link'[l] = [link[l] EXCEPT !.inbox = Tail(link[l].inbox),
                                     !.work = <<Head(link[l].inbox)>>]
      BY <2>2, Types DEF Handles
    <3>2. link'[l].open = link[l].open
      BY <2>1, <3>1 DEF Link
    <3>3. \A m \in Links : m # l => link'[m] = link[m]
      BY <2>2, Types DEF Handles
    <3>4. QED
      BY <3>2, <3>3
  <2>3. CASE Replies(l)
    <3>1. link'[l] = [link[l] EXCEPT !.work = <<>>,
             !.outbox = IF link[l].open THEN Append(link[l].outbox, Head(link[l].work))
                        ELSE link[l].outbox]
      BY <2>3, Types DEF Replies
    <3>2. link'[l].open = link[l].open
      BY <2>1, <3>1 DEF Link
    <3>3. \A m \in Links : m # l => link'[m] = link[m]
      BY <2>3, Types DEF Replies
    <3>4. QED
      BY <3>2, <3>3
  <2>4. QED
    BY <2>2, <2>3
<1>3. \A m \in Calls : /\ Turned(m)' <=> Turned(m)
                       /\ Owns(m)' <=> Owns(m)
                       /\ Visits(m)' <=> Visits(m)
                       /\ Message(m)' = Message(m)
                       /\ \A d \in Links : TalksOn(m, d)' <=> TalksOn(m, d)
  BY <1>1 DEF Turned, Owns, Visits, Message, TalksOn
<1>4. /\ pinned # 0 => pinned \in Links
      /\ parked # 0 => parked \in Links
      /\ \A m \in Calls : Owns(m) \/ Visits(m) => on[m] \in Links
  BY Numbers DEF TypeOK, UseInv, Owns, Visits
<1>5. UseInv'
  BY <1>1, <1>2, <1>3, <1>4 DEF UseInv
<1>6. ASSUME NEW m \in Links, link'[m].open
      PROVE  Empty(m)' \/ \E c \in Calls : Carries(m, c)'
  <2>1. CASE m # l
    <3>1. link'[m] = link[m]
      BY <1>2, <2>1
    <3>2. QED
      BY <1>3, <1>6, <3>1 DEF LinkInv, Empty, Carries
  <2>2. CASE m = l
    <3>1. link[l].open
      BY <1>2, <1>6, <2>2
    <3>2. PICK c \in Calls : Carries(l, c)
      BY <3>1 DEF LinkInv, Empty, Handles, Replies
    <3>3. Head(<<Message(c)>>) = Message(c) /\ Tail(<<Message(c)>>) = <<>>
          /\ Append(<<>>, Message(c)) = <<Message(c)>>
      BY Single
    <3>4. link[l] \in Link
      BY Types
    <3>5. CASE Handles(l)
      <4>1. link[l].inbox = <<Message(c)>> /\ link[l].outbox = <<>>
        BY <3>2, <3>5 DEF Carries, Handles
      <4>2. link'[l] = [link[l] EXCEPT !.inbox = <<>>, !.work = <<Message(c)>>]
        BY <3>3, <3>5, <4>1, Types DEF Handles
      <4>3. link'[l].inbox = <<>> /\ link'[l].work = <<Message(c)>> /\ link'[l].outbox = <<>>
        BY <3>4, <4>1, <4>2 DEF Link
      <4>4. Carries(l, c)'
        BY <1>3, <3>2, <4>3 DEF Carries
      <4>5. QED
        BY <2>2, <4>4
    <3>6. CASE Replies(l)
      <4>1. link[l].inbox = <<>> /\ link[l].work = <<Message(c)>> /\ link[l].outbox = <<>>
        BY <3>2, <3>6 DEF Carries, Replies
      <4>2. link'[l] = [link[l] EXCEPT !.work = <<>>, !.outbox = <<Message(c)>>]
        BY <3>1, <3>3, <3>6, <4>1, Types DEF Replies
      <4>3. link'[l].inbox = <<>> /\ link'[l].work = <<>> /\ link'[l].outbox = <<Message(c)>>
        BY <3>4, <4>1, <4>2 DEF Link
      <4>4. Carries(l, c)'
        BY <1>3, <3>2, <4>3 DEF Carries
      <4>5. QED
        BY <2>2, <4>4
    <3>7. QED
      BY <3>5, <3>6
  <2>3. QED
    BY <2>1, <2>2
<1>7. QED
  BY <1>5, <1>6 DEF LinkInv

LEMMA UseKept ==
  ASSUME TypeOK, TurnInv, UseInv, LinkInv, Next
  PROVE  UseInv' /\ LinkInv'
<1>1. ASSUME NEW k \in Calls, FiberStep(k) PROVE UseInv' /\ LinkInv'
  <2>1. ~gone
    BY <1>1 DEF FiberStep
  <2>2. CASE UsePinned(k) \/ Connect(k) \/ Park(k)
    BY <2>1, <2>2, StartUse
  <2>3. CASE \/ Spawn(k) \/ GiveUp(k) \/ TalkReplies(k) \/ TalkFails(k)
             \/ ParkedReplies(k) \/ ParkedFails(k)
    <3>1. Fewer
      BY <2>1, <2>3, SpawnFewer, GiveUpFewer, ReplyFewer, FailFewer, ParkedFewer
    <3>2. QED
      BY <3>1, FewerKeeps
  <2>4. QED
    BY <1>1, <2>2, <2>3 DEF FiberStep
<1>2. ASSUME NEW k \in Calls, (\E m \in Kinds : Call(k, m)) \/ Exit(k)
      PROVE  UseInv' /\ LinkInv'
  BY <1>2, CallFewer, ExitFewer, FewerKeeps
<1>3. ASSUME NEW s \in Sups, SupStep(s) \/ Crashes(s) PROVE UseInv' /\ LinkInv'
  BY <1>3, SupFewer, FewerKeeps
<1>4. ASSUME NEW l \in Links, Handles(l) \/ Replies(l) PROVE UseInv' /\ LinkInv'
  BY <1>4, MovingOn
<1>5. QED
  BY <1>1, <1>2, <1>3, <1>4 DEF Next
-----------------------------------------------------------------------------
(* What a step does to the calls.                                          *)

\* A call that takes no step is at most given the turn.
Waits(m) ==
  /\ op'[m] = op[m] /\ got'[m] = got[m]
  /\ pc'[m] = pc[m] \/ (pc[m] = "queued" /\ pc'[m] = "turn")

\* A call that takes a step sends a message or starts a supervisor, tries again,
\* is over, or goes on from its probe to the start.
Sends(k) ==
  /\ op'[k] = op[k] /\ got'[k] = got[k]
  /\ \/ pc[k] \in {"turn", "ensure", "park"} /\ pc'[k] = "talk"
     \/ pc[k] = "turn" /\ pc'[k] = "ensure"
Retries(k) ==
  /\ op'[k] = op[k] /\ got'[k] = got[k] /\ op[k] # "input"
  /\ pc[k] = "talk" /\ pc'[k] = "turn"
Over(k) ==
  /\ op'[k] = op[k] /\ pc[k] \in {"turn", "ensure", "park", "talk"}
  /\ pc'[k] = "done" \/ (pc'[k] = "exiting" /\ op[k] = "shutdown")
  /\ \/ got'[k] = NoReply
     \/ got'[k] = Message(k) /\ pc[k] = "talk"
     \/ got'[k] = got[k] /\ op[k] = "wait"
Proceeds(k) ==
  /\ op[k] = "probe" /\ op'[k] = "start" /\ got'[k] = Message(k)
  /\ pc[k] = "talk" /\ pc'[k] \in {"turn", "queued"}
Steps(k) == Sends(k) \/ Retries(k) \/ Over(k) \/ Proceeds(k)

LEMMA Passing ==
  ASSUME TypeOK, TurnInv, NEW k \in Calls, pc[k] # "queued", NEW x \in States,
         pc' = PassTo([pc EXCEPT ![k] = x])
  PROVE  /\ pc'[k] = x
         /\ \A m \in Calls : m # k =>
              pc'[m] = pc[m] \/ (pc[m] = "queued" /\ pc'[m] = "turn")
<1>1. CASE waiting = <<>>
  BY <1>1, Types DEF PassTo
<1>2. CASE waiting # <<>>
  <2>1. Head(waiting) \in Calls /\ pc[Head(waiting)] = "queued"
    BY <1>2, FirstTicket
  <2>2. pc' = [[pc EXCEPT ![k] = x] EXCEPT ![Head(waiting)] = "turn"]
    BY <1>2 DEF PassTo
  <2>3. \A m \in Calls :
          pc'[m] = IF m = Head(waiting) THEN "turn" ELSE IF m = k THEN x ELSE pc[m]
    BY <2>1, <2>2, Types
  <2>4. QED
    BY <2>1, <2>3
<1>3. QED
  BY <1>1, <1>2

LEMMA FinishSteps ==
  ASSUME TypeOK, TurnInv, NEW k \in Calls, HasTurn(k), NEW ln, NEW left,
         Finish(k, ln, left)
  PROVE  /\ pc'[k] = "done" \/ (pc'[k] = "exiting" /\ op[k] = "shutdown")
         /\ \A m \in Calls : m # k =>
              pc'[m] = pc[m] \/ (pc[m] = "queued" /\ pc'[m] = "turn")
<1>1. PICK x \in {"done", "exiting"} : /\ pc' = PassTo([pc EXCEPT ![k] = x])
                                       /\ x = "done" \/ op[k] = "shutdown"
  BY DEF Finish
<1>2. pc[k] # "queued" /\ x \in States
  BY DEF HasTurn, States
<1>3. /\ pc'[k] = x
      /\ \A m \in Calls : m # k =>
           pc'[m] = pc[m] \/ (pc[m] = "queued" /\ pc'[m] = "turn")
  <2>1. pc' = PassTo([pc EXCEPT ![k] = x])
    BY <1>1
  <2>2. QED
    BY <1>2, <2>1, Passing
<1>4. QED
  BY <1>1, <1>3

\* The steps that end with Finish.
LEMMA EndSteps ==
  ASSUME TypeOK, TurnInv, UseInv, LinkInv, NEW k \in Calls,
         \/ GiveUp(k)
         \/ TalkReplies(k) /\ op[k] # "probe"
         \/ TalkFails(k) /\ ~TriesAgain(k)
  PROVE  Over(k) /\ \A m \in Calls : m # k => Waits(m)
<1>1. /\ HasTurn(k) /\ pc[k] \in {"turn", "ensure", "talk"} /\ UNCHANGED op
      /\ \E ln, left : Finish(k, ln, left)
  BY DEF GiveUp, TalkReplies, TalkFails, HasTurn
<1>2. op[k] # "wait"
  BY <1>1 DEF HasTurn, Turned, TurnInv
<1>3. \/ got' = [got EXCEPT ![k] = NoReply]
      \/ got' = [got EXCEPT ![k] = Message(k)] /\ pc[k] = "talk"
  <2>1. CASE GiveUp(k) \/ (TalkFails(k) /\ ~TriesAgain(k))
    BY <2>1 DEF GiveUp, TalkFails
  <2>2. CASE TalkReplies(k)
    <3>1. /\ pc[k] = "talk" /\ Turned(k) /\ link[on[k]].open /\ link[on[k]].outbox # <<>>
          /\ got' = [got EXCEPT ![k] = Head(link[on[k]].outbox)]
      BY <2>2 DEF TalkReplies
    <3>2. on[k] \in Links /\ TalksOn(k, on[k])
      BY <3>1 DEF UseInv, TalksOn
    <3>3. Head(link[on[k]].outbox) = Message(k)
      BY <3>1, <3>2, OwnReply
    <3>4. QED
      BY <3>1, <3>3
  <2>3. QED
    BY <2>1, <2>2
<1>4. \A m \in Calls : m # k => got'[m] = got[m]
  BY <1>3, Types
<1>5. got'[k] = NoReply \/ (got'[k] = Message(k) /\ pc[k] = "talk")
  BY <1>3, Types
<1>6. /\ pc'[k] = "done" \/ (pc'[k] = "exiting" /\ op[k] = "shutdown")
      /\ \A m \in Calls : m # k =>
           pc'[m] = pc[m] \/ (pc[m] = "queued" /\ pc'[m] = "turn")
  BY <1>1, FinishSteps
<1>7. QED
  BY <1>1, <1>2, <1>4, <1>5, <1>6 DEF Over, Waits

LEMMA ProbeSteps ==
  ASSUME TypeOK, TurnInv, UseInv, LinkInv, NEW k \in Calls, TalkReplies(k), op[k] = "probe"
  PROVE  Proceeds(k) /\ \A m \in Calls : m # k => Waits(m)
<1>1. /\ pc[k] = "talk" /\ link[on[k]].open /\ link[on[k]].outbox # <<>>
      /\ got' = [got EXCEPT ![k] = Head(link[on[k]].outbox)]
      /\ op' = [op EXCEPT ![k] = "start"]
  BY DEF TalkReplies
<1>2. on[k] \in Links /\ TalksOn(k, on[k])
  BY <1>1 DEF UseInv, TalksOn
<1>3. Head(link[on[k]].outbox) = Message(k)
  BY <1>1, <1>2, OwnReply
<1>4. /\ got'[k] = Message(k) /\ op'[k] = "start"
      /\ \A m \in Calls : m # k => got'[m] = got[m] /\ op'[m] = op[m]
  BY <1>1, <1>3, Types
<1>5. /\ pc'[k] \in {"turn", "queued"}
      /\ \A m \in Calls : m # k =>
           pc'[m] = pc[m] \/ (pc[m] = "queued" /\ pc'[m] = "turn")
  <2>1. CASE waiting = <<>>
    <3>1. pc' = [pc EXCEPT ![k] = "turn"]
      BY <2>1 DEF TalkReplies
    <3>2. QED
      BY <3>1, Types
  <2>2. CASE waiting # <<>>
    <3>1. pc' = [[pc EXCEPT ![Head(waiting)] = "turn"] EXCEPT ![k] = "queued"]
      BY <2>2 DEF TalkReplies, PassTo
    <3>2. Head(waiting) \in Calls /\ pc[Head(waiting)] = "queued"
      BY <2>2, FirstTicket
    <3>3. \A m \in Calls : pc'[m] = IF m = k THEN "queued"
                                    ELSE IF m = Head(waiting) THEN "turn" ELSE pc[m]
      BY <3>1, <3>2, Types
    <3>4. QED
      BY <3>2, <3>3
  <2>3. QED
    BY <2>1, <2>2
<1>6. QED
  BY <1>1, <1>4, <1>5 DEF Proceeds, Waits

LEMMA FiberSteps ==
  ASSUME TypeOK, TurnInv, UseInv, LinkInv, NEW k \in Calls, FiberStep(k)
  PROVE  Steps(k) /\ \A m \in Calls : m # k => Waits(m)
<1>1. CASE UsePinned(k) \/ Connect(k) \/ Spawn(k)
  <2>1. PICK x \in {"talk", "ensure"} :
          /\ pc' = [pc EXCEPT ![k] = x] /\ UNCHANGED <<op, got>>
          /\ \/ pc[k] \in {"turn", "ensure"} /\ x = "talk"
             \/ pc[k] = "turn" /\ x = "ensure"
    BY <1>1 DEF UsePinned, Connect, Spawn, TalkOn, TalkOnNew
  <2>2. \A m \in Calls : pc'[m] = IF m = k THEN x ELSE pc[m]
    BY <2>1, Types
  <2>3. QED
    BY <2>1, <2>2 DEF Steps, Sends, Waits
<1>2. CASE TalkFails(k) /\ TriesAgain(k)
  <2>1. /\ pc' = [pc EXCEPT ![k] = "turn"] /\ UNCHANGED <<op, got>>
        /\ pc[k] = "talk" /\ op[k] # "input"
    BY <1>2 DEF TalkFails, TriesAgain
  <2>2. \A m \in Calls : pc'[m] = IF m = k THEN "turn" ELSE pc[m]
    BY <2>1, Types
  <2>3. QED
    BY <2>1, <2>2 DEF Steps, Retries, Waits
<1>3. CASE Park(k)
  <2>1. PICK x \in {"talk", "done"} : pc' = [pc EXCEPT ![k] = x]
    BY <1>3 DEF Park, TalkOn, TalkOnNew
  <2>2. pc[k] = "park" /\ op[k] = "wait" /\ UNCHANGED <<op, got>>
    BY <1>3 DEF Park, TurnInv
  <2>3. \A m \in Calls : pc'[m] = IF m = k THEN x ELSE pc[m]
    BY <2>1, Types
  <2>4. QED
    BY <2>2, <2>3 DEF Steps, Sends, Over, Waits
<1>4. CASE ParkedReplies(k)
  <2>1. /\ pc[k] = "talk" /\ ~Turned(k) /\ link[on[k]].open /\ link[on[k]].outbox # <<>>
        /\ got' = [got EXCEPT ![k] = Head(link[on[k]].outbox)]
        /\ pc' = [pc EXCEPT ![k] = "done"] /\ UNCHANGED op
    BY <1>4 DEF ParkedReplies
  <2>2. on[k] \in Links /\ TalksOn(k, on[k])
    BY <2>1 DEF UseInv, TalksOn
  <2>3. Head(link[on[k]].outbox) = Message(k)
    BY <2>1, <2>2, OwnReply
  <2>4. \A m \in Calls : /\ pc'[m] = IF m = k THEN "done" ELSE pc[m]
                         /\ got'[m] = IF m = k THEN Message(k) ELSE got[m]
    BY <2>1, <2>3, Types
  <2>5. QED
    BY <2>1, <2>4 DEF Steps, Over, Waits
<1>5. CASE ParkedFails(k)
  <2>1. /\ pc[k] = "talk" /\ op[k] = "wait" /\ UNCHANGED <<op, got>>
        /\ pc' = [pc EXCEPT ![k] = "done"]
    BY <1>5 DEF ParkedFails, Turned
  <2>2. \A m \in Calls : pc'[m] = IF m = k THEN "done" ELSE pc[m]
    BY <2>1, Types
  <2>3. QED
    BY <2>1, <2>2 DEF Steps, Over, Waits
<1>6. QED
  BY <1>1, <1>2, <1>3, <1>4, <1>5, EndSteps, ProbeSteps DEF FiberStep, Steps

\* A call begins.
Begins(k) ==
  /\ pc[k] = "idle" /\ pc'[k] \in {"park", "turn", "queued"}
  /\ got'[k] = got[k]

LEMMA CallSteps ==
  ASSUME TypeOK, NEW k \in Calls, NEW m \in Kinds, Call(k, m)
  PROVE  Begins(k) /\ \A c \in Calls : c # k => Waits(c)
<1>1. pc[k] = "idle" /\ UNCHANGED got
  BY DEF Call
<1>2. CASE m = "wait"
  <2>1. pc' = [pc EXCEPT ![k] = "park"] /\ op' = [op EXCEPT ![k] = "wait"]
    BY <1>2 DEF Call
  <2>2. QED
    BY <1>1, <2>1, Types DEF Begins, Waits
<1>3. CASE m # "wait"
  <2>1. Ask(k, FirstOp(m))
    BY <1>3 DEF Call
  <2>2. PICK x \in {"turn", "queued"} : pc' = [pc EXCEPT ![k] = x]
    BY <2>1 DEF Ask
  <2>3. op' = [op EXCEPT ![k] = FirstOp(m)]
    BY <2>1 DEF Ask
  <2>4. QED
    BY <1>1, <2>2, <2>3, Types DEF Begins, Waits
<1>4. QED
  BY <1>2, <1>3
-----------------------------------------------------------------------------
(* Replies.                                                                *)

LEMMA RepliesKept ==
  ASSUME TypeOK, TurnInv, UseInv, LinkInv, ReplyInv, Next
  PROVE  ReplyInv'
<1> DEFINE Right(m) ==
             /\ got'[m] # NoReply =>
                  got'[m].call = m /\ (pc'[m] = "done" => got'[m].op = op'[m])
             /\ pc'[m] = "idle" \/ (op'[m] = "wait" /\ pc'[m] # "done") => got'[m] = NoReply
<1>1. SUFFICES \A m \in Calls : Right(m)
  BY DEF ReplyInv, RepliesMatch
<1>2. ASSUME NEW m \in Calls, Waits(m) PROVE Right(m)
  BY <1>2 DEF Waits, ReplyInv, RepliesMatch
<1>3. ASSUME NEW m \in Calls, Begins(m) PROVE Right(m)
  BY <1>3 DEF Begins, ReplyInv
<1>4. ASSUME NEW m \in Calls, Steps(m) PROVE Right(m)
  <2>1. op[m] = "none" <=> pc[m] = "idle"
    BY DEF TurnInv
  <2>2. op[m] # "none" => Message(m).call = m /\ Message(m).op = op[m]
    BY MessageType
  <2>3. CASE Sends(m)
    BY <2>3 DEF Sends, ReplyInv, RepliesMatch
  <2>4. CASE Retries(m)
    BY <2>4 DEF Retries, ReplyInv, RepliesMatch
  <2>5. CASE Over(m)
    BY <2>1, <2>2, <2>5 DEF Over, ReplyInv, RepliesMatch
  <2>6. CASE Proceeds(m)
    BY <2>2, <2>6 DEF Proceeds
  <2>7. QED
    BY <1>4, <2>3, <2>4, <2>5, <2>6 DEF Steps
<1>5. CASE UNCHANGED <<pc, op, got>>
  BY <1>2, <1>5 DEF Waits
<1>6. ASSUME NEW k \in Calls, (\E m \in Kinds : Call(k, m)) \/ FiberStep(k)
      PROVE  \A m \in Calls : Right(m)
  BY <1>2, <1>3, <1>4, <1>6, CallSteps, FiberSteps
<1>7. CASE \/ \E k \in Calls : Exit(k)
           \/ \E s \in Sups : SupStep(s) \/ Crashes(s)
           \/ \E l \in Links : Handles(l) \/ Replies(l)
  BY <1>5, <1>7
  DEF Exit, SupStep, Clears, Binds, Closes, Ends, Watches, Crashes, Handles, Replies
<1>8. QED
  BY <1>6, <1>7 DEF Next
-----------------------------------------------------------------------------
(* Input.                                                                  *)

\* InputInv, for one call.
OnceFor(k) ==
  op[k] \in {"none", "input"} =>
    /\ pc[k] \notin {"talk", "done"} => handled[k] = 0 /\ \A l \in Links : ~Sent(l, k)
    /\ handled[k] <= 1
    /\ handled[k] = 1 => \A l \in Links : ~Sent(l, k)
    /\ \A l, m \in Links : Sent(l, k) /\ Sent(m, k) => l = m

LEMMA InputParts ==
  InputInv <=> (\A l \in Links : Len(link[l].inbox) <= 1) /\ \A k \in Calls : OnceFor(k)
BY DEF InputInv, OnceFor

\* A call does not fall back before its input, and its state says what it did.
Onward(m) ==
  op'[m] \in {"none", "input"} =>
    /\ op[m] \in {"none", "input"}
    /\ pc'[m] \notin {"talk", "done"} => pc[m] \notin {"talk", "done"}

LEMMA WaitsOnward == ASSUME NEW m \in Calls, Waits(m) PROVE Onward(m)
BY DEF Waits, Onward

LEMMA BeginsOnward == ASSUME TurnInv, NEW m \in Calls, Begins(m) PROVE Onward(m)
BY DEF Begins, Onward, TurnInv

LEMMA StepsOnward == ASSUME TurnInv, NEW m \in Calls, Steps(m) PROVE Onward(m)
<1>1. pc[m] = "idle" <=> op[m] = "none"
  BY DEF TurnInv
<1>2. QED
  BY <1>1 DEF Steps, Sends, Retries, Over, Proceeds, Onward

LEMMA NextOnward ==
  ASSUME TypeOK, TurnInv, UseInv, LinkInv, Next
  PROVE  \A m \in Calls : Onward(m)
<1>1. ASSUME NEW k \in Calls, (\E m \in Kinds : Call(k, m)) \/ FiberStep(k)
      PROVE  \A m \in Calls : Onward(m)
  BY <1>1, CallSteps, FiberSteps, WaitsOnward, BeginsOnward, StepsOnward
<1>2. CASE UNCHANGED <<pc, op>>
  BY <1>2 DEF Onward
<1>3. CASE \/ \E k \in Calls : Exit(k)
           \/ \E s \in Sups : SupStep(s) \/ Crashes(s)
           \/ \E l \in Links : Handles(l) \/ Replies(l)
  BY <1>2, <1>3
  DEF Exit, SupStep, Clears, Binds, Closes, Ends, Watches, Crashes, Handles, Replies
<1>4. QED
  BY <1>1, <1>3 DEF Next

\* Nothing is sent or carried out.
NoMail ==
  /\ \A l \in Links : link'[l].inbox \in {link[l].inbox, <<>>}
  /\ handled' = handled

LEMMA FinishMail ==
  ASSUME TypeOK, NEW k \in Calls, NEW ln \in [Links -> Link], NEW left \in 0 .. MaxLinks,
         Finish(k, ln, left)
  PROVE  \A l \in Links : link'[l].inbox = ln[l].inbox
<1>1. CASE op[k] = "shutdown"
  <2>1. link' = Closed(Closed(ln, left), parked) /\ parked \in 0 .. MaxLinks
    BY <1>1 DEF Finish, TypeOK
  <2>2. Closed(ln, left) \in [Links -> Link]
        /\ \A m \in Links : Closed(ln, left)[m].inbox = ln[m].inbox
    BY ClosedTypes
  <2>3. \A m \in Links : link'[m].inbox = Closed(ln, left)[m].inbox
    BY <2>1, <2>2, ClosedTypes
  <2>4. QED
    BY <2>2, <2>3
<1>2. CASE op[k] # "shutdown"
  BY <1>2 DEF Finish
<1>3. QED
  BY <1>1, <1>2

LEMMA ClosedMail ==
  ASSUME TypeOK, NEW l \in 0 .. MaxLinks
  PROVE  /\ Closed(link, l) \in [Links -> Link]
         /\ \A m \in Links : Closed(link, l)[m].inbox = link[m].inbox
<1>1. link \in [Links -> Link]
  BY Types
<1>2. QED
  BY <1>1, ClosedTypes

LEMMA FiberMail ==
  ASSUME TypeOK, UseInv, NEW k \in Calls,
         \/ Spawn(k) \/ GiveUp(k) \/ TalkReplies(k) \/ TalkFails(k)
         \/ ParkedReplies(k) \/ ParkedFails(k)
  PROVE  NoMail
<1>1. handled' = handled
  BY DEF Spawn, GiveUp, TalkReplies, TalkFails, ParkedReplies, ParkedFails
<1>2. pinned \in 0 .. MaxLinks /\ parked \in 0 .. MaxLinks /\ 0 \in 0 .. MaxLinks
  BY Numbers DEF TypeOK
<1>3. link \in [Links -> Link]
  BY Types
<1>4. CASE Spawn(k)
  BY <1>1, <1>4 DEF Spawn, NoMail
<1>5. CASE GiveUp(k)
  <2>1. Finish(k, link, 0)
    BY <1>5 DEF GiveUp
  <2>2. QED
    BY <1>1, <1>2, <1>3, <2>1, FinishMail DEF NoMail
<1>6. CASE TalkReplies(k)
  <2> DEFINE read == [link EXCEPT ![on[k]].outbox = Tail(@)]
  <2>1. on[k] \in Links /\ link[on[k]].outbox # <<>>
    BY <1>6 DEF TalkReplies, UseInv
  <2>2. read \in [Links -> Link]
    BY <2>1, ReadTypes
  <2>3. \A m \in Links : read[m].inbox = link[m].inbox
    BY <2>1, Types DEF Link
  <2>4. link' = read \/ Finish(k, read, pinned)
    BY <1>6 DEF TalkReplies
  <2> HIDE DEF read
  <2>5. \A m \in Links : link'[m].inbox = read[m].inbox
    BY <1>2, <2>2, <2>4, FinishMail
  <2>6. QED
    BY <1>1, <2>3, <2>5 DEF NoMail
<1>7. CASE TalkFails(k)
  <2>1. link' = Closed(link, pinned) \/ Finish(k, Closed(link, pinned), 0)
    BY <1>7 DEF TalkFails, DropPinned
  <2>2. /\ Closed(link, pinned) \in [Links -> Link]
        /\ \A m \in Links : Closed(link, pinned)[m].inbox = link[m].inbox
    BY <1>2, ClosedMail
  <2>3. \A m \in Links : link'[m].inbox = Closed(link, pinned)[m].inbox
    BY <1>2, <2>1, <2>2, FinishMail
  <2>4. QED
    BY <1>1, <2>2, <2>3 DEF NoMail
<1>8. CASE ParkedReplies(k)
  <2>1. /\ on[k] \in Links
        /\ link' = [link EXCEPT ![on[k]].outbox = Tail(@), ![on[k]].open = (attempt[k] = 1)]
    BY <1>8 DEF ParkedReplies, UseInv
  <2>2. \A m \in Links : link'[m].inbox = link[m].inbox
    BY <2>1, Types DEF Link
  <2>3. QED
    BY <1>1, <2>2 DEF NoMail
<1>9. CASE ParkedFails(k)
  <2>1. \E l \in 0 .. MaxLinks : link' = Closed(link, l)
    BY <1>2, <1>9, Types DEF ParkedFails
  <2>2. QED
    BY <1>1, <2>1, ClosedMail DEF NoMail
<1>10. QED
  BY <1>4, <1>5, <1>6, <1>7, <1>8, <1>9

LEMMA OtherMail ==
  ASSUME TypeOK,
         \/ \E k \in Calls : Exit(k) \/ \E m \in Kinds : Call(k, m)
         \/ \E s \in Sups : SupStep(s) \/ Crashes(s)
         \/ \E l \in Links : Replies(l)
         \/ \E k \in Calls : Park(k) /\ UNCHANGED link
  PROVE  NoMail
<1>1. CASE link' = link /\ handled' = handled
  BY <1>1 DEF NoMail
<1>2. ASSUME NEW k \in Calls, Exit(k) PROVE NoMail
  BY <1>2, Types DEF Exit, Link, NoMail
<1>3. ASSUME NEW s \in Sups, Dies(s), handled' = handled PROVE NoMail
  <2>1. \A l \in Links : link'[l] = IF link[l].to # s THEN link[l]
                                    ELSE [link[l] EXCEPT !.inbox = <<>>, !.work = <<>>]
    BY <1>3 DEF Dies
  <2>2. QED
    BY <1>3, <2>1, Types DEF Link, NoMail
<1>4. ASSUME NEW l \in Links, Replies(l) PROVE NoMail
  <2>1. link' = [link EXCEPT ![l].work = <<>>,
          ![l].outbox = IF link[l].open THEN Append(@, Head(link[l].work)) ELSE @]
    BY <1>4 DEF Replies
  <2>2. link'[l].inbox = link[l].inbox
    <3>1. link'[l] = [link[l] EXCEPT !.work = <<>>,
             !.outbox = IF link[l].open THEN Append(link[l].outbox, Head(link[l].work))
                        ELSE link[l].outbox]
      BY <2>1, Types
    <3>2. QED
      BY <3>1, Types DEF Link
  <2>3. \A m \in Links : m # l => link'[m] = link[m]
    BY <2>1, Types
  <2>4. handled' = handled
    BY <1>4 DEF Replies
  <2>5. QED
    BY <2>2, <2>3, <2>4 DEF NoMail
<1>5. QED
  BY <1>1, <1>2, <1>3, <1>4
  DEF Call, Park, SupStep, Clears, Binds, Closes, Ends, Watches, Crashes

\* With no mail, nothing more is sent.
LEMMA NoMailKeeps ==
  ASSUME TypeOK, InputInv, NoMail, \A m \in Calls : Onward(m)
  PROVE  InputInv'
<1>1. \A l \in Links : Len(link'[l].inbox) <= 1
  <2>1. Len(<<>>) <= 1
    BY Single, SMT
  <2>2. QED
    BY <2>1 DEF NoMail, InputInv
<1>2. \A l \in Links, k \in Calls : Sent(l, k)' => Sent(l, k)
  BY DEF NoMail, Sent
<1>3. ASSUME NEW k \in Calls PROVE OnceFor(k)'
  BY <1>2, InputParts DEF Onward, OnceFor, NoMail
<1>4. QED
  BY <1>1, <1>3 DEF InputInv, OnceFor

\* A message is sent by a call that did not talk.
Mails(k, l) ==
  /\ pc[k] \in {"turn", "ensure", "park"} /\ pc'[k] = "talk" /\ UNCHANGED <<op, handled>>
  /\ link'[l].inbox = <<Message(k)>>
  /\ \A m \in Links : m # l => link'[m] = link[m]

LEMMA StartMail ==
  ASSUME TypeOK, TurnInv, UseInv, LinkInv, ~gone, NEW k \in Calls,
         UsePinned(k) \/ Connect(k) \/ Park(k)
  PROVE  NoMail \/ \E l \in Links : Mails(k, l)
<1>1. pc[k] \in {"turn", "ensure", "park"} /\ UNCHANGED <<op, handled>>
  BY DEF UsePinned, Connect, Park
<1>2. ASSUME NEW s, NEW l \in FreeLinks, TalkOnNew(k, s, l)
      PROVE  \E m \in Links : Mails(k, m)
  <2>1. l \in Links
    BY DEF FreeLinks
  <2>2. /\ link'[l].inbox = <<Message(k)>> /\ \A m \in Links : m # l => link'[m] = link[m]
        /\ pc'[k] = "talk"
    BY <1>2, <2>1, NewFacts, Types
  <2>3. Mails(k, l)
    BY <1>1, <2>2 DEF Mails
  <2>4. QED
    BY <2>1, <2>3
<1>3. ASSUME NEW l \in Links, link[l].open, \A m \in Calls : ~TalksOn(m, l), TalkOn(k, l)
      PROVE  Mails(k, l)
  <2>1. /\ link'[l].inbox = <<Message(k)>> /\ \A m \in Links : m # l => link'[m] = link[m]
        /\ pc'[k] = "talk"
    BY <1>3, AgainFacts, Types
  <2>2. QED
    BY <1>1, <2>1 DEF Mails
<1>4. CASE UsePinned(k)
  <2>1. HasTurn(k) /\ pc[k] # "talk" /\ pinned # 0 /\ TalkOn(k, pinned)
    BY <1>4 DEF UsePinned, HasTurn
  <2>2. pinned \in Links /\ link[pinned].open /\ \A m \in Calls : ~TalksOn(m, pinned)
    BY <2>1, NobodyOnPinned
  <2>3. QED
    BY <1>3, <2>1, <2>2
<1>5. CASE Connect(k)
  BY <1>2, <1>5 DEF Connect
<1>6. CASE Park(k)
  <2>1. CASE (parkedBusy \/ parked = 0) /\ Listening(path)
    BY <1>2, <1>6, <2>1 DEF Park
  <2>2. CASE (parkedBusy \/ parked = 0) /\ ~Listening(path)
    <3>1. UNCHANGED link
      BY <1>6, <2>2 DEF Park
    <3>2. QED
      BY <1>6, <3>1, OtherMail
  <2>3. CASE ~(parkedBusy \/ parked = 0)
    <3>1. TalkOn(k, parked)
      BY <1>6, <2>3 DEF Park
    <3>2. parked \in Links /\ link[parked].open /\ \A m \in Calls : ~TalksOn(m, parked)
      BY <2>3, NobodyOnParked
    <3>3. QED
      BY <1>3, <3>1, <3>2
  <2>4. QED
    BY <2>1, <2>2, <2>3
<1>7. QED
  BY <1>4, <1>5, <1>6

LEMMA MailKeeps ==
  ASSUME TypeOK, TurnInv, InputInv, NEW k \in Calls, NEW l \in Links, Mails(k, l),
         \A m \in Calls : Onward(m)
  PROVE  InputInv'
<1>1. /\ link'[l].inbox = <<Message(k)>> /\ UNCHANGED <<op, handled>>
      /\ \A m \in Links : m # l => link'[m] = link[m]
      /\ pc[k] \notin {"talk", "done", "idle"} /\ pc'[k] = "talk"
  BY DEF Mails
<1>2. /\ Len(<<Message(k)>>) = 1 /\ <<Message(k)>> # <<>> /\ <<Message(k)>>[1] = Message(k)
  BY Single
<1>3. \A m \in Links : Len(link'[m].inbox) <= 1
  <2>1. Len(link'[l].inbox) <= 1
    BY <1>1, <1>2, SMT
  <2>2. \A m \in Links : m # l => Len(link'[m].inbox) = Len(link[m].inbox)
    BY <1>1
  <2>3. QED
    BY <2>1, <2>2 DEF InputInv
<1>4. Message(k).call = k
  BY DEF Message
<1>5. \A c \in Calls : Sent(l, c)' <=> c = k
  BY <1>1, <1>2, <1>4 DEF Sent
<1>6. \A m \in Links, c \in Calls : m # l => (Sent(m, c)' <=> Sent(m, c))
  BY <1>1 DEF Sent
<1>7. ASSUME NEW c \in Calls, c # k PROVE OnceFor(c)'
  <2>1. OnceFor(c)
    BY InputParts
  <2>2. \A m \in Links : Sent(m, c)' => Sent(m, c)
    BY <1>5, <1>6, <1>7
  <2>3. QED
    BY <1>1, <2>1, <2>2 DEF Onward, OnceFor
<1>8. OnceFor(k)'
  <2>1. SUFFICES ASSUME op'[k] \in {"none", "input"} PROVE OnceFor(k)'
    BY DEF OnceFor
  <2>2. handled[k] = 0 /\ \A m \in Links : ~Sent(m, k)
    BY <1>1, <2>1, InputParts DEF OnceFor
  <2>3. \A m \in Links : Sent(m, k)' => m = l
    BY <1>6, <2>2
  <2>4. handled'[k] = 0 /\ pc'[k] = "talk"
    BY <1>1, <2>2
  <2>5. QED
    BY <1>1, <2>2, <2>3, <2>4 DEF OnceFor
<1>9. QED
  BY <1>3, <1>7, <1>8 DEF InputInv, OnceFor

\* What is carried out has been sent, and is in no inbox after.
LEMMA HandlesKeeps ==
  ASSUME TypeOK, TurnInv, InputInv, NEW l \in Links, Handles(l)
  PROVE  InputInv'
<1> DEFINE r == Head(link[l].inbox)
<1>1. link[l] \in Link /\ link[l].inbox \in Seq(Request) /\ link[l].inbox # <<>>
  BY Types DEF Link, Handles
<1>2. /\ r \in Request /\ r = link[l].inbox[1] /\ Tail(link[l].inbox) \in Seq(Request)
      /\ Len(Tail(link[l].inbox)) = Len(link[l].inbox) - 1
  BY <1>1, Rest
<1>3. Len(link[l].inbox) <= 1
  BY DEF InputInv
<1>4. Tail(link[l].inbox) = <<>>
  BY <1>1, <1>3, LastOne
<1>5. link' = [link EXCEPT ![l].inbox = Tail(@), ![l].work = <<r>>]
  BY DEF Handles
<1>6. /\ link'[l].inbox = <<>>
      /\ \A m \in Links : m # l => link'[m] = link[m]
  <2>1. link'[l] = [link[l] EXCEPT !.inbox = <<>>, !.work = <<r>>]
    BY <1>4, <1>5, Types
  <2>2. QED
    BY <1>1, <1>5, <2>1, Types DEF Link
<1>7. r.call \in Calls
  BY <1>2 DEF Request
<1>8. /\ \A k \in Calls : k # r.call => handled'[k] = handled[k]
      /\ handled'[r.call] \in {handled[r.call], handled[r.call] + 1}
  BY <1>7, Types DEF Handles
<1>9. UNCHANGED <<pc, op>>
  BY DEF Handles
<1>10. \A m \in Links : Len(link'[m].inbox) <= 1
  <2>1. Len(<<>>) <= 1
    BY Single, SMT
  <2>2. QED
    BY <1>6, <2>1 DEF InputInv
<1>11. \A m \in Links, k \in Calls : Sent(m, k)' <=> Sent(m, k) /\ m # l
  BY <1>6 DEF Sent
<1>12. ASSUME NEW k \in Calls, k # r.call PROVE OnceFor(k)'
  BY <1>8, <1>9, <1>11, <1>12, InputParts DEF OnceFor
<1>13. ASSUME NEW k \in Calls, k = r.call PROVE OnceFor(k)'
  <2>1. SUFFICES ASSUME op'[k] \in {"none", "input"} PROVE OnceFor(k)'
    BY DEF OnceFor
  <2>2. Sent(l, k)
    BY <1>1, <1>2, <1>13 DEF Sent
  <2>3. /\ pc[k] \in {"talk", "done"} /\ handled[k] <= 1 /\ handled[k] # 1
        /\ \A m \in Links : Sent(m, k) => m = l
    BY <1>7, <1>9, <2>1, <2>2, InputParts DEF OnceFor
  <2>4. handled[k] \in Nat
    BY <1>7, Types
  <2>5. handled[k] = 0
    BY <2>3, <2>4, SMT
  <2>6. handled'[k] \in {0, 1}
    BY <1>8, <1>13, <2>5, SMT
  <2>7. handled'[k] <= 1
    BY <2>6, SMT
  <2>8. \A m \in Links : ~Sent(m, k)'
    BY <1>7, <1>11, <2>3
  <2>9. QED
    BY <1>9, <2>3, <2>7, <2>8 DEF OnceFor
<1>14. QED
  BY <1>10, <1>12, <1>13 DEF InputInv, OnceFor

LEMMA InputKept ==
  ASSUME TypeOK, TurnInv, UseInv, LinkInv, InputInv, Next
  PROVE  InputInv'
<1>1. \A m \in Calls : Onward(m)
  BY NextOnward
<1>2. ASSUME NEW k \in Calls, FiberStep(k) PROVE InputInv'
  <2>1. ~gone
    BY <1>2 DEF FiberStep
  <2>2. NoMail \/ \E l \in Links : Mails(k, l)
    BY <1>2, <2>1, StartMail, FiberMail DEF FiberStep
  <2>3. QED
    BY <1>1, <2>2, NoMailKeeps, MailKeeps
<1>3. ASSUME NEW l \in Links, Handles(l) PROVE InputInv'
  BY <1>3, HandlesKeeps
<1>4. CASE \/ \E k \in Calls : Exit(k) \/ \E m \in Kinds : Call(k, m)
           \/ \E s \in Sups : SupStep(s) \/ Crashes(s)
           \/ \E l \in Links : Replies(l)
  BY <1>1, <1>4, OtherMail, NoMailKeeps
<1>5. QED
  BY <1>2, <1>3, <1>4 DEF Next
-----------------------------------------------------------------------------
(* Supervisors.                                                            *)

\* The call that waits for a supervisor goes on waiting.
LEMMA SupSame ==
  ASSUME SupInv, UNCHANGED <<sup, path, late>>,
         \A k \in Calls : pc[k] = "ensure" => pc'[k] = "ensure"
  PROVE  SupInv'
BY DEF SupInv, Coming, Has

\* Nobody is waited for while a supervisor can be reached.
LEMMA NoneComing ==
  ASSUME TypeOK, SupInv, ~late, Listening(path)
  PROVE  \A s \in Sups : ~Coming(s)
<1>1. path \in Sups /\ Has(path)
  BY Numbers DEF Listening, Has, TypeOK
<1>2. QED
  BY <1>1 DEF SupInv, Coming, Has

LEMMA FiberSup ==
  ASSUME TypeOK, TurnInv, UseInv, LinkInv, SupInv, NEW k \in Calls, FiberStep(k)
  PROVE  SupInv'
<1>1. \A m \in Calls : m # k => Waits(m)
  BY FiberSteps
<1>2. \A m \in Calls : m # k /\ pc[m] = "ensure" => pc'[m] = "ensure"
  BY <1>1 DEF Waits
<1>3. CASE pc[k] # "ensure" /\ ~Spawn(k)
  <2>1. UNCHANGED <<sup, path, late>>
    <3>1. CASE GiveUp(k)
      <4>1. late' = late
        BY <1>3, <3>1 DEF GiveUp, TypeOK
      <4>2. QED
        BY <3>1, <4>1 DEF GiveUp
    <3>2. CASE ~GiveUp(k)
      BY <1>3, <3>2
      DEF FiberStep, UsePinned, Connect, TalkReplies, TalkFails, Park, ParkedReplies,
          ParkedFails
    <3>3. QED
      BY <3>1, <3>2
  <2>2. QED
    BY <1>2, <1>3, <2>1, SupSame
<1>4. CASE Spawn(k)
  <2>1. /\ pc[k] = "turn" /\ ~Listening(path) /\ path' = 0 /\ UNCHANGED late
        /\ pc' = [pc EXCEPT ![k] = "ensure"]
    BY <1>4 DEF Spawn
  <2>2. PICK s \in Sups : sup' = [sup EXCEPT ![s] = "booting"]
    BY <1>4 DEF Spawn, SpareSups
  <2>3. \A t \in Sups : sup'[t] = IF t = s THEN "booting" ELSE sup[t]
    BY <2>2 DEF TypeOK
  <2>4. \A m \in Calls : pc[m] # "ensure"
    BY <2>1 DEF TurnInv, HasTurn
  <2>5. ~late => \A t \in Sups : ~Coming(t) /\ ~Has(t)
    <3>1. \A t \in Sups : t # 0
      BY Numbers
    <3>2. QED
      BY <2>1, <2>4, <3>1 DEF SupInv, Listening, Has
  <2>6. pc'[k] = "ensure"
    BY <2>1, Types
  <2>7. ~late => \A t \in Sups : (Coming(t)' <=> t = s) /\ ~Has(t)'
    BY <2>3, <2>5 DEF Coming, Has
  <2>8. QED
    BY <2>1, <2>6, <2>7 DEF SupInv
<1>5. CASE pc[k] = "ensure"
  <2>1. Connect(k) \/ GiveUp(k)
    BY <1>5
    DEF FiberStep, UsePinned, Spawn, TalkReplies, TalkFails, Park, ParkedReplies,
        ParkedFails
  <2>2. UNCHANGED <<sup, path>> /\ (late => late')
    <3>1. CASE Connect(k)
      BY <3>1 DEF Connect
    <3>2. CASE GiveUp(k)
      BY <3>2 DEF GiveUp
    <3>3. QED
      BY <2>1, <3>1, <3>2
  <2>3. ~late' => \A s \in Sups : ~Coming(s)
    <3>1. CASE Connect(k)
      BY <2>2, <3>1, NoneComing DEF Connect
    <3>2. CASE GiveUp(k)
      BY <1>5, <3>2 DEF GiveUp, Coming
    <3>3. QED
      BY <2>1, <3>1, <3>2
  <2>4. \A s \in Sups : (Coming(s)' <=> Coming(s)) /\ (Has(s)' <=> Has(s))
    BY <2>2 DEF Coming, Has
  <2>5. QED
    BY <2>2, <2>3, <2>4 DEF SupInv
<1>6. QED
  BY <1>3, <1>4, <1>5

\* A supervisor goes from booting to dead.
LEMMA LivesSup ==
  ASSUME TypeOK, SupInv, NEW s \in Sups, SupStep(s) \/ Crashes(s)
  PROVE  SupInv'
<1>1. SUFFICES ASSUME ~late' PROVE SupInv'
  BY DEF SupInv
<1>2. ~late /\ UNCHANGED pc
  <2>1. CASE Binds(s)
    BY <1>1, <2>1 DEF Binds
  <2>2. CASE ~Binds(s)
    BY <1>1, <2>2 DEF SupStep, Clears, Closes, Ends, Watches, Crashes
  <2>3. QED
    BY <2>1, <2>2
<1>3. /\ \A a, b \in Sups : Coming(a) /\ (Coming(b) \/ Has(b)) => a = b
      /\ \A a, b \in Sups : Has(a) /\ (Has(b) \/ sup[b] = "closed") => a = b
      /\ \A a \in Sups : Has(a) => path = a
      /\ (\E a \in Sups : Coming(a)) => \E k \in Calls : pc[k] = "ensure"
  BY <1>2 DEF SupInv
<1>4. s # 0
  BY Numbers
<1>5. ASSUME NEW x, sup' = [sup EXCEPT ![s] = x]
      PROVE  \A a \in Sups : sup'[a] = IF a = s THEN x ELSE sup[a]
  BY <1>5 DEF TypeOK
<1>6. CASE Clears(s)
  <2>1. sup[s] = "booting" /\ \A a \in Sups : sup'[a] = IF a = s THEN "binding" ELSE sup[a]
    BY <1>5, <1>6 DEF Clears
  <2>2. \A a \in Sups : ~Has(a)
    BY <1>3, <2>1 DEF Coming, Has
  <2>3. \A a \in Sups : ~Has(a)' /\ (Coming(a)' <=> Coming(a))
    BY <2>1, <2>2 DEF Coming, Has
  <2>4. QED
    BY <1>2, <1>3, <2>3 DEF SupInv
<1>7. CASE Binds(s)
  <2>1. Coming(s) /\ \A a \in Sups : sup[a] # "closed"
    BY <1>1, <1>7 DEF Binds, Coming
  <2>2. \A a \in Sups : a # s => ~Coming(a) /\ ~Has(a)
    BY <1>3, <2>1
  <2>3. CASE path = 0
    <3>1. path' = s /\ \A a \in Sups : sup'[a] = IF a = s THEN "up" ELSE sup[a]
      BY <1>5, <1>7, <2>3 DEF Binds
    <3>2. \A a \in Sups : ~Coming(a)' /\ (Has(a)' <=> a = s) /\ sup'[a] # "closed"
      BY <2>1, <2>2, <3>1 DEF Coming, Has
    <3>3. QED
      BY <3>1, <3>2 DEF SupInv
  <2>4. CASE path # 0
    <3>1. \A a \in Sups : sup'[a] = IF a = s THEN "dead" ELSE sup[a]
      BY <1>5, <1>7, <2>4 DEF Binds
    <3>2. \A a \in Sups : ~Coming(a)' /\ ~Has(a)'
      BY <2>2, <3>1 DEF Coming, Has
    <3>3. QED
      BY <3>2 DEF SupInv
  <2>5. QED
    BY <2>3, <2>4
<1>8. CASE Closes(s)
  <2>1. Has(s) /\ path' = path
        /\ \A a \in Sups : sup'[a] = IF a = s THEN "closed" ELSE sup[a]
    BY <1>5, <1>8 DEF Closes, Has
  <2>2. \A a \in Sups : a # s => ~Has(a)
    BY <1>3, <2>1
  <2>3. \A a \in Sups : ~Has(a)' /\ (Coming(a)' => Coming(a))
    BY <2>1, <2>2 DEF Coming, Has
  <2>4. QED
    BY <1>2, <1>3, <2>3 DEF SupInv
<1>9. CASE Ends(s) \/ Watches(s) \/ Crashes(s)
  <2>1. \A a \in Sups : sup'[a] = IF a = s THEN "dead" ELSE sup[a]
    BY <1>5, <1>9 DEF Ends, Watches, Crashes, Dies
  <2>2. \A a \in Sups : /\ Has(a)' => Has(a) /\ a # s
                        /\ Coming(a)' => Coming(a)
                        /\ sup'[a] = "closed" => sup[a] = "closed"
    BY <2>1 DEF Coming, Has
  <2>3. ASSUME NEW a \in Sups, Has(a)' PROVE path' = a
    <3>1. CASE Ends(s)
      BY <1>3, <2>2, <2>3, <3>1 DEF Ends
    <3>2. CASE Watches(s) \/ Crashes(s)
      BY <1>3, <2>2, <2>3, <3>2 DEF Watches, Crashes
    <3>3. QED
      BY <1>9, <3>1, <3>2
  <2>4. QED
    BY <1>2, <1>3, <2>2, <2>3 DEF SupInv
<1>10. QED
  BY <1>6, <1>7, <1>8, <1>9 DEF SupStep

LEMMA SupKept ==
  ASSUME TypeOK, TurnInv, UseInv, LinkInv, SupInv, Next
  PROVE  SupInv'
<1>1. ASSUME NEW k \in Calls, NEW m \in Kinds, Call(k, m) PROVE SupInv'
  <2>1. Begins(k) /\ \A c \in Calls : c # k => Waits(c)
    BY <1>1, CallSteps
  <2>2. \A c \in Calls : pc[c] = "ensure" => pc'[c] = "ensure"
    BY <2>1 DEF Begins, Waits
  <2>3. UNCHANGED <<sup, path, late>>
    BY <1>1 DEF Call
  <2>4. QED
    BY <2>2, <2>3, SupSame
<1>2. ASSUME NEW k \in Calls, Exit(k) PROVE SupInv'
  BY <1>2, SupSame DEF Exit
<1>3. ASSUME NEW l \in Links, Handles(l) PROVE SupInv'
  BY <1>3, SupSame DEF Handles
<1>4. ASSUME NEW l \in Links, Replies(l) PROVE SupInv'
  <2>1. PICK s \in Sups : /\ sup[s] \in {"up", "closing"}
                          /\ \E x \in {sup[s], "closing"} : sup' = [sup EXCEPT ![s] = x]
    <3>1. link[l].to \in Sups
      BY <1>4, Types, Numbers DEF Replies, Link
    <3>2. QED
      BY <1>4, <3>1 DEF Replies
  <2>2. \A t \in Sups : /\ Has(t)' <=> Has(t)
                        /\ Coming(t)' <=> Coming(t)
                        /\ sup'[t] = "closed" <=> sup[t] = "closed"
    BY <2>1 DEF Has, Coming, TypeOK
  <2>3. UNCHANGED <<path, late, pc>>
    BY <1>4 DEF Replies
  <2>4. QED
    BY <2>2, <2>3 DEF SupInv
<1>5. QED
  BY <1>1, <1>2, <1>3, <1>4, FiberSup, LivesSup DEF Next
-----------------------------------------------------------------------------
(* The theorems.                                                           *)

LEMMA InitTypes == Init => TypeOK
<1> SUFFICES ASSUME Init PROVE TypeOK
  OBVIOUS
<1>1. <<>> \in Seq(Calls) /\ <<>> \in Seq(Request)
  BY EmptySeq
<1>2. 0 \in 0 .. MaxLinks /\ 0 \in 0 .. MaxSups /\ 1 \in 1 .. 2 /\ 1 \in 0 .. MaxSups
      /\ 0 \in 0 .. MaxCrashes /\ 0 \in 0 .. MaxTimeouts
  BY ClientAssumption, SMT
<1>3. NoLink \in Link
  BY <1>1, <1>2 DEF NoLink, Link
<1>4. CallTypes
  BY <1>2 DEF Init, CallTypes, States, Ops
<1>5. ServerTypes
  BY <1>1, <1>2 DEF Init, ServerTypes
<1>6. SupTypes
  BY <1>2 DEF Init, SupTypes
<1>7. LinkTypesOK /\ HistoryTypes
  BY <1>2, <1>3 DEF Init, LinkTypesOK, HistoryTypes
<1>8. QED
  BY <1>4, <1>5, <1>6, <1>7, TypeParts

LEMMA InitInv == Init => IInv
<1> SUFFICES ASSUME Init PROVE IInv
  OBVIOUS
<1>1. TypeOK
  BY InitTypes
<1>2. /\ \A k \in Calls : /\ pc[k] = "idle" /\ op[k] = "none" /\ got[k] = NoReply
                          /\ handled[k] = 0
      /\ \A l \in Links : link[l] = NoLink
      /\ pinned = 0 /\ parked = 0 /\ busy = FALSE /\ waiting = <<>>
  BY DEF Init
<1>3. \A k \in Calls : ~HasTurn(k)
  BY <1>2 DEF HasTurn
<1>4. DOMAIN waiting = {}
  BY <1>2
<1>5. TurnInv
  BY <1>2, <1>3, <1>4 DEF TurnInv
<1>6. UseInv
  BY <1>2 DEF UseInv, Owns, Visits
<1>7. \A l \in Links : link[l].open = FALSE /\ link[l].inbox = <<>>
  BY <1>2 DEF NoLink
<1>8. LinkInv
  BY <1>7 DEF LinkInv
<1>9. ReplyInv
  BY <1>2 DEF ReplyInv, RepliesMatch
<1>10. InputInv
  <2>1. Len(<<>>) <= 1 /\ 0 <= 1 /\ 0 # 1
    BY Single, SMT
  <2>2. QED
    BY <1>2, <1>7, <2>1 DEF InputInv, Sent
<1>11. SupInv
  BY DEF Init, SupInv, Coming, Has
<1>12. QED
  BY <1>1, <1>5, <1>6, <1>8, <1>9, <1>10, <1>11 DEF IInv

LEMMA Inductive == IInv /\ [Next]_vars => IInv'
<1> SUFFICES ASSUME IInv, [Next]_vars PROVE IInv'
  OBVIOUS
<1>1. CASE Next
  <2>1. TypeOK /\ TurnInv /\ UseInv /\ LinkInv /\ ReplyInv /\ InputInv /\ SupInv
    BY DEF IInv
  <2>2. TypeOK'
    BY <1>1, <2>1, TypesKept
  <2>3. TurnInv'
    BY <1>1, <2>1, TurnKept
  <2>4. UseInv' /\ LinkInv'
    BY <1>1, <2>1, UseKept
  <2>5. ReplyInv'
    BY <1>1, <2>1, RepliesKept
  <2>6. InputInv'
    BY <1>1, <2>1, InputKept
  <2>7. SupInv'
    BY <1>1, <2>1, SupKept
  <2>8. QED
    BY <2>2, <2>3, <2>4, <2>5, <2>6, <2>7 DEF IInv
<1>2. CASE UNCHANGED vars
  <2>1. TypeOK' /\ TurnInv'
    BY <1>2 DEF vars, IInv, TypeOK, TurnInv, HasTurn, Turned
  <2>2. UseInv'
    BY <1>2 DEF vars, IInv, UseInv, Owns, Visits, Turned
  <2>3. LinkInv'
    BY <1>2 DEF vars, IInv, LinkInv, Empty, Carries, TalksOn, Message
  <2>4. ReplyInv' /\ InputInv'
    BY <1>2 DEF vars, IInv, ReplyInv, RepliesMatch, InputInv, Sent
  <2>5. SupInv'
    BY <1>2 DEF vars, IInv, SupInv, Coming, Has
  <2>6. QED
    BY <2>1, <2>2, <2>3, <2>4, <2>5 DEF IInv
<1>3. QED
  BY <1>1, <1>2

\* Who has the turn and a ticket for it, which connection each call talks on and
\* what it carries, where an input has got to and which supervisor has the path
\* stay as IInv says through every step of the client and of its supervisors
\* (client.janet 45-232, host.janet 396-464).
THEOREM Invariance == Spec => []IInv
BY InitInv, Inductive, PTL DEF Spec

\* The variables keep their types, for any number of calls and supervisors.
THEOREM Typing == Spec => []TypeOK
<1>1. IInv => TypeOK
  BY DEF IInv
<1>2. QED
  BY <1>1, Invariance, PTL

\* At most one fiber has the turn, it is busy exactly while one has, and every
\* fiber that waits has a ticket that is out (client.janet 45-57, 134).
THEOREM Turn == Spec => []OneTurn
<1>1. IInv => OneTurn
  BY DEF IInv, TurnInv, OneTurn
<1>2. QED
  BY <1>1, Invariance, PTL

\* A fiber reads the reply to its own message, whatever was late, dropped or
\* tried again, on the pinned connection as on a parked one (client.janet
\* 130-192).
THEOREM Matching == Spec => []RepliesMatch
<1>1. IInv => RepliesMatch
  BY DEF IInv, ReplyInv
<1>2. QED
  BY <1>1, Invariance, PTL

\* Input is carried out at most once (client.janet 145).
THEOREM Once == Spec => []InputOnce
<1>1. IInv => InputOnce
  BY DEF IInv, InputInv, InputOnce
<1>2. QED
  BY <1>1, Invariance, PTL

\* Unless a start stopped waiting too early or a supervisor that ended was slow
\* to, no supervisor is hidden behind another one's path (client.janet 104-115,
\* host.janet 405-418, 462-464).
THEOREM Hidden == Spec => []NoneHidden
<1>1. IInv => NoneHidden
  BY DEF IInv, SupInv, NoneHidden, Has
<1>2. QED
  BY <1>1, Invariance, PTL
=============================================================================
