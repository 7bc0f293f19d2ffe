------------------------- MODULE ProjectGraphProofs -------------------------
(***************************************************************************)
(* What TLC checks of ProjectGraph on a small instance holds for any       *)
(* number of pages, callers, texts, versions and server processes.         *)
(***************************************************************************)
EXTENDS ProjectGraph, SequenceTheorems, TLAPS

USE GraphAssumption
USE DEF ForgetsDrawing, ForgetsTree, projectVars, processVars, channelVars, cacheVars, workerVars, vars
-----------------------------------------------------------------------------
(* Queues.                                                                 *)

\* What is left of a queue is what was in it, one place further on.
LEMMA Taken ==
  ASSUME NEW S, NEW q \in Seq(S), q # <<>>
  PROVE  /\ Head(q) \in S /\ Head(q) = q[1] /\ 1 \in DOMAIN q
         /\ Tail(q) \in Seq(S) /\ Len(Tail(q)) = Len(q) - 1
         /\ \A i \in DOMAIN Tail(q) : i + 1 \in DOMAIN q /\ Tail(q)[i] = q[i + 1]
BY HeadTailProperties, SMT

\* What is put into a queue comes last.
LEMMA Given ==
  ASSUME NEW S, NEW q \in Seq(S), NEW x \in S
  PROVE  /\ Append(q, x) \in Seq(S) /\ Len(Append(q, x)) = Len(q) + 1
         /\ Append(q, x)[Len(q) + 1] = x
         /\ \A i \in DOMAIN q : i \in DOMAIN Append(q, x) /\ Append(q, x)[i] = q[i]
         /\ \A i \in DOMAIN Append(q, x) : i \in DOMAIN q \/ i = Len(q) + 1
BY AppendProperties, SMT

-----------------------------------------------------------------------------
(* Data.                                                                   *)

LEMMA DataTypes ==
  /\ NoDrawing \in Drawings /\ Blank \in (0 .. MaxConfig) \X (0 .. MaxSource)
  /\ Blank \in (0 .. Unread) \X (0 .. MaxConfig)
  /\ Unread \in Nat /\ Away \in Page /\ Idle \in Thread
  /\ \A c \in 0 .. MaxConfig, s \in 0 .. MaxSource : Seen(c, s) \in 0 .. MaxSource
  /\ \A c \in 0 .. MaxConfig, t \in 0 .. MaxSource, g \in Nat : Drawing(c, t, g) \in Drawings
BY SMT DEF NoDrawing, Blank, Nothing, Unread, Away, Idle, Page, Thread, Drawings, Seen, Drawing,
  Picture, Ops

\* Changed records are of the same set.
LEMMA ThreadAt ==
  ASSUME NEW t \in Thread, NEW c \in 0 .. MaxConfig,
         NEW a \in {"boot", "idle", "prints", "finds", "rereads", "draws", "ended"}
  PROVE  [t EXCEPT !.at = a] \in Thread /\ [t EXCEPT !.at = a, !.lines = c] \in Thread
BY DEF Thread

LEMMA PageAt ==
  ASSUME NEW p \in Page, NEW a \in {"away", "loading", "polling", "asking", "drawing"}
  PROVE  [p EXCEPT !.at = a] \in Page
BY DEF Page

LEMMA NoticeTypes ==
  ASSUME NEW g \in Nat
  PROVE  [NoDrawing EXCEPT !.generation = g] \in Drawings
BY DataTypes DEF Drawings

LEMMA ScanTypes ==
  ASSUME TypeOK, NEW c \in 0 .. MaxConfig
  PROVE  Scanned(c) \in 0 .. MaxSource
<1>1. tree \in 0 .. Unread /\ source \in 0 .. MaxSource
  BY SMT DEF TypeOK, Sources
<1>2. Seen(c, source) \in 0 .. MaxSource
  BY <1>1, DataTypes
<1>3. tree # Unread => tree \in 0 .. MaxSource
  BY <1>1, SMT DEF Unread
<1>4. QED
  BY <1>2, <1>3 DEF Scanned

-----------------------------------------------------------------------------
(* Types.                                                                  *)

LEMMA InitTypes == Init => TypeOK
<1> SUFFICES ASSUME Init PROVE TypeOK
  OBVIOUS
<1>1. 1 \in Configs /\ 1 \in Sources /\ 1 \in 1 .. MaxServers /\ 0 \in 0 .. MaxConfig
      /\ Unread \in 0 .. Unread
  BY DataTypes, SMT DEF Configs, Sources
<1>2. Blank \in (0 .. Unread) \X (0 .. MaxConfig)
  BY DataTypes
<1>3. [Idle EXCEPT !.at = "boot"] \in Thread
  BY DataTypes, ThreadAt, <1>1
<1>4. NoCalls \in [Callers -> Ops \cup {"none"}]
  BY DEF NoCalls
<1>5. <<>> \in Seq(Request) /\ <<>> \in Seq(Reply)
  BY EmptySeq
<1>6. QED
  BY <1>1, <1>2, <1>3, <1>4, <1>5, DataTypes DEF Init, TypeOK, Nothing

\* The project moves, and only it.
LEMMA ProjectTypes ==
  ASSUME TypeOK, ConfigChanges \/ SourceChanges
  PROVE  TypeOK'
<1>1. config' \in Configs /\ source' \in Sources
  <2>1. source < MaxSource => source + 1 \in Sources
    BY SMT DEF TypeOK, Sources
  <2>2. QED
    BY <2>1 DEF TypeOK, ConfigChanges, SourceChanges
<1>2. QED
  BY <1>1 DEF TypeOK, ConfigChanges, SourceChanges

LEMMA RefreshingTypes ==
  ASSUME TypeOK, NEW op \in Ops \cup {"boot", "watch"}, NEW by \in Callers \cup {"none"}
  PROVE  Refreshing(op, by) \in Thread
BY SMT DEF TypeOK, Refreshing, Thread, Configs

\* A reply of a caller or a notice keeps the queue's type.
LEMMA RepliesTypes ==
  ASSUME TypeOK, NEW to \in Callers \cup {Changed}, NEW d \in Drawings, Replies(to, d)
  PROVE  replies' \in Seq(Reply)
<1>1. [to |-> to, drawing |-> d] \in Reply
  BY DEF Reply
<1>2. QED
  BY <1>1, Given DEF TypeOK, Replies

LEMMA GivesTypes ==
  ASSUME TypeOK, NEW c \in Callers, NEW op \in Ops, Gives(c, op)
  PROVE  requests' \in Seq(Request) /\ calls' \in [Callers -> Ops \cup {"none"}]
<1>1. [by |-> c, op |-> op] \in Request
  BY DEF Request
<1>2. requests' \in Seq(Request)
  BY <1>1, Given DEF TypeOK, Gives
<1>3. QED
  BY <1>2 DEF TypeOK, Gives

LEMMA PageTypes ==
  ASSUME TypeOK, NEW p \in Page, NEW d \in Drawings
  PROVE  Answered(p, d) \in Page /\ Failed(p) \in Page
<1>1. server \in 0 .. MaxServers
  BY SMT DEF TypeOK
<1>2. d.ok \in BOOLEAN /\ d.generation \in Nat /\ d.picture \in (0 .. MaxConfig) \X (0 .. MaxSource)
  BY DEF Drawings
<1>3. Failed(p) \in Page
  BY DataTypes, PageAt DEF Failed
<1>4. [at |-> "polling", token |-> server, gen |-> d.generation, from |-> server,
       shown |-> d.picture] \in Page
  BY <1>1, <1>2 DEF Page
<1>5. [p EXCEPT !.at = "polling", !.gen = d.generation, !.from = server, !.shown = d.picture]
        \in Page
  BY <1>1, <1>2 DEF Page
<1>6. QED
  BY <1>3, <1>4, <1>5, PageAt DEF Answered

\* The worker's steps.
LEMMA WorkerTypes ==
  ASSUME TypeOK, CallersOK, TakesRequest \/ Ticks \/ Works
  PROVE  TypeOK'
<1>1. CASE TakesRequest
  <2>1. Head(requests) \in Request /\ Tail(requests) \in Seq(Request)
    BY <1>1, Taken DEF TypeOK, TakesRequest
  <2>2. thread' \in Thread
    <3>1. CASE Head(requests).op = Stop
      BY <1>1, <3>1, DataTypes DEF TakesRequest, Idle, Thread, Nothing
    <3>2. CASE Head(requests).op # Stop
      BY <1>1, <2>1, <3>2, RefreshingTypes DEF TakesRequest, Request
    <3>3. QED
      BY <3>1, <3>2
  <2>3. QED
    BY <1>1, <2>1, <2>2 DEF TakesRequest, TypeOK
<1>2. CASE Ticks
  <2>1. thread' \in Thread
    BY <1>2, RefreshingTypes DEF Ticks
  <2>2. QED
    BY <1>2, <2>1 DEF Ticks, TypeOK
<1>3. CASE Boots
  <2>1. thread' \in Thread
    <3>1. 0 \in 0 .. MaxConfig
      OBVIOUS
    <3>2. [Idle EXCEPT !.at = "ended"] \in Thread /\ Refreshing("boot", "none") \in Thread
      BY <3>1, RefreshingTypes, DataTypes, ThreadAt
    <3>3. QED
      BY <1>3, <3>2 DEF Boots
  <2>2. QED
    BY <1>3, <2>1 DEF Boots, TypeOK
<1>4. CASE Prints
  <2> DEFINE next == Seen(thread.lines, source)
  <2>1. thread.lines \in 0 .. MaxConfig /\ next \in 0 .. Unread
    <3>1. thread.lines \in 0 .. MaxConfig /\ source \in 0 .. MaxSource
      BY SMT DEF TypeOK, Thread, Sources
    <3>2. next \in 0 .. MaxSource
      BY <3>1, DataTypes
    <3>3. QED
      BY <3>1, <3>2, SMT DEF Unread
  <2>2. thread' \in Thread
    BY <1>4, DataTypes DEF Prints, AfterRefresh, TypeOK, Thread
  <2>3. CASE Differs(thread.lines, next)
    <3>1. [NoDrawing EXCEPT !.generation = generation + 1] \in Drawings
      <4>1. generation + 1 \in Nat
        BY DEF TypeOK
      <4>2. QED
        BY <4>1, NoticeTypes
    <3>2. replies' \in Seq(Reply)
      BY <1>4, <2>3, <3>1, RepliesTypes DEF Prints, Notice
    <3>3. tree' \in 0 .. Unread /\ fingerprint' \in 0 .. Unread /\ generation' \in Nat
          /\ commands' \in 0 .. MaxConfig /\ drawing' \in Drawings
          /\ drawingKey' \in (0 .. Unread) \X (0 .. MaxConfig)
      <4>1. Unread \in 0 .. Unread /\ generation + 1 \in Nat
        BY DataTypes DEF TypeOK
      <4>2. QED
        BY <1>4, <2>1, <2>3, <4>1, DataTypes DEF Prints
    <3>4. QED
      BY <1>4, <2>2, <3>2, <3>3 DEF Prints, TypeOK
  <2>4. CASE ~Differs(thread.lines, next)
    BY <1>4, <2>2, <2>4 DEF Prints, TypeOK
  <2>5. QED
    BY <2>3, <2>4
<1>5. CASE Finds
  <2>1. tree' \in 0 .. Unread
    BY <1>5, ScanTypes, SMT DEF Finds, TypeOK, Unread
  <2>2. replies' \in Seq(Reply)
    BY <1>5, RepliesTypes, DataTypes DEF Finds, CallersOK, Callers
  <2>3. QED
    BY <1>5, <2>1, <2>2, DataTypes DEF Finds, TypeOK
<1>6. CASE Rereads
  <2>1. thread' \in Thread
    <3>1. config \in 0 .. MaxConfig /\ thread \in Thread
      BY SMT DEF TypeOK, Configs
    <3>2. QED
      BY <1>6, <3>1, ThreadAt DEF Rereads
  <2>2. tree' \in 0 .. Unread /\ drawing' \in Drawings
        /\ drawingKey' \in (0 .. Unread) \X (0 .. MaxConfig)
    <3>1. Unread \in 0 .. Unread
      BY DataTypes, SMT
    <3>2. QED
      BY <1>6, <3>1, DataTypes DEF Rereads, TypeOK
  <2>3. QED
    BY <1>6, <2>1, <2>2 DEF Rereads, TypeOK
<1>7. CASE Draws
  <2> DEFINE t == Scanned(thread.lines)
             new == Drawing(thread.lines, t, generation)
             key == <<fingerprint, thread.lines>>
  <2>1. t \in 0 .. MaxSource /\ thread.lines \in 0 .. MaxConfig
    BY ScanTypes DEF TypeOK, Thread
  <2>2. t \in 0 .. Unread
    BY <2>1, SMT DEF Unread
  <2>3. new \in Drawings /\ drawing \in Drawings /\ thread.by \in Callers
    BY <1>7, <2>1, DataTypes DEF TypeOK, Draws, CallersOK
  <2>4. key \in (0 .. Unread) \X (0 .. MaxConfig)
    BY <2>1 DEF TypeOK
  <2>5. replies' \in Seq(Reply)
    BY <1>7, <2>3, RepliesTypes DEF Draws
  <2>6. tree' \in 0 .. Unread /\ drawing' \in Drawings
        /\ drawingKey' \in (0 .. Unread) \X (0 .. MaxConfig)
    BY <1>7, <2>2, <2>3, <2>4 DEF Draws, TypeOK
  <2>7. QED
    BY <1>7, <2>5, <2>6, DataTypes DEF Draws, TypeOK
<1>8. QED
  BY <1>1, <1>2, <1>3, <1>4, <1>5, <1>6, <1>7 DEF Works

\* The server's.
LEMMA ServerTypes ==
  ASSUME TypeOK, TakesReply \/ WorkerEnded \/ Interrupt \/ Restarts
  PROVE  TypeOK'
<1>1. CASE TakesReply
  <2> DEFINE to == Head(replies).to
             d == Head(replies).drawing
  <2>1. Head(replies) \in Reply /\ Tail(replies) \in Seq(Reply)
    BY <1>1, Taken DEF TypeOK, TakesReply
  <2>2. to \in Callers \cup {Changed} /\ d \in Drawings /\ d.generation \in Nat
    BY <2>1 DEF Reply, Drawings
  <2>3. CASE to = Changed
    BY <1>1, <2>1, <2>2, <2>3 DEF TakesReply, TypeOK
  <2>4. CASE to # Changed
    <3>1. calls' \in [Callers -> Ops \cup {"none"}]
      BY <1>1, <2>2, <2>4 DEF TakesReply, TypeOK
    <3>2. page' \in [Pages -> Page]
      <4>1. \A p \in Pages : page[p] \in Page /\ Answered(page[p], d) \in Page
        BY <2>2, PageTypes DEF TypeOK
      <4>2. QED
        BY <1>1, <2>4, <4>1 DEF TakesReply, TypeOK
    <3>3. QED
      BY <1>1, <2>1, <2>4, <3>1, <3>2 DEF TakesReply, TypeOK
  <2>5. QED
    BY <2>3, <2>4
<1>2. CASE WorkerEnded
  <2>0. NoCalls \in [Callers -> Ops \cup {"none"}]
    BY DEF NoCalls
  <2>1. page' \in [Pages -> Page]
    BY <1>2, PageTypes, DataTypes DEF WorkerEnded, TypeOK
  <2>2. QED
    BY <1>2, <2>1, <2>0, EmptySeq DEF WorkerEnded, TypeOK, AllFailed
<1>3. CASE Interrupt
  <2>1. [by |-> "none", op |-> Stop] \in Request
    BY DEF Request
  <2>2. requests' \in Seq(Request)
    BY <1>3, <2>1, Given DEF Interrupt, TypeOK
  <2>3. QED
    BY <1>3, <2>2 DEF Interrupt, TypeOK
<1>4. CASE Restarts
  <2>1. page' \in [Pages -> Page]
    BY <1>4, PageTypes, DataTypes DEF Restarts, TypeOK
  <2>2. thread' \in Thread
    BY <1>4, DataTypes, SMT DEF Restarts, FreshWorker, Thread, Idle, Nothing
  <2>3. server' \in 1 .. MaxServers /\ tree' \in 0 .. Unread /\ fingerprint' \in 0 .. Unread
        /\ commands' \in 0 .. MaxConfig /\ drawingKey' \in (0 .. Unread) \X (0 .. MaxConfig)
    <3>1. server < MaxServers => server + 1 \in 1 .. MaxServers
      BY SMT DEF TypeOK
    <3>2. Unread \in 0 .. Unread /\ 0 \in 0 .. Unread /\ 0 \in 0 .. MaxConfig
      BY DataTypes, SMT
    <3>3. QED
      BY <1>4, <3>1, <3>2 DEF Restarts, FreshWorker, Nothing, Blank
  <2>4. QED
    <3>1. NoCalls \in [Callers -> Ops \cup {"none"}]
      BY DEF NoCalls
    <3>2. QED
      BY <1>4, <2>1, <2>2, <2>3, <3>1, DataTypes, EmptySeq DEF Restarts, FreshWorker, TypeOK
<1>5. QED
  BY <1>1, <1>2, <1>3, <1>4

\* Those of pages and other callers.
LEMMA CallerTypes ==
  ASSUME TypeOK,
         (\E p \in Pages : PageActs(p)) \/ (\E o \in Others : OtherAsks(o))
  PROVE  TypeOK'
<1>1. ASSUME NEW p \in Pages, PageActs(p)
      PROVE  TypeOK'
  <2>1. p \in Callers /\ page[p] \in Page /\ "draw" \in Ops
    BY DEF TypeOK, Callers, Ops
  <2>2. CASE Opens(p)
    BY <2>1, <2>2, GivesTypes DEF Opens, TypeOK, Page
  <2>3. CASE Notices(p)
    BY <2>1, <2>3 DEF Notices, TypeOK, Page
  <2>4. CASE Asks(p)
    <3>1. page' \in [Pages -> Page]
      BY <2>1, <2>4, PageAt DEF Asks, TypeOK
    <3>2. requests' \in Seq(Request) /\ calls' \in [Callers -> Ops \cup {"none"}]
      BY <2>1, <2>4, GivesTypes DEF Asks, TypeOK
    <3>3. QED
      BY <2>4, <3>1, <3>2 DEF Asks, TypeOK, Gives
  <2>5. CASE Refused(p)
    <3>1. server \in 0 .. MaxServers /\ -1 \in Nat \cup {-1}
      BY SMT DEF TypeOK
    <3>2. [page[p] EXCEPT !.token = server, !.gen = -1] \in Page
      BY <2>1, <3>1 DEF Page
    <3>3. QED
      BY <2>1, <2>5, <3>2, PageAt DEF Refused, TypeOK
  <2>6. CASE RenewsToken(p)
    <3>1. server \in 0 .. MaxServers
      BY SMT DEF TypeOK
    <3>2. [page[p] EXCEPT !.token = server] \in Page
      BY <2>1, <3>1 DEF Page
    <3>3. QED
      BY <2>1, <2>6, <3>2 DEF RenewsToken, TypeOK
  <2>7. QED
    BY <1>1, <2>2, <2>3, <2>4, <2>5, <2>6 DEF PageActs
<1>2. ASSUME NEW o \in Others, OtherAsks(o)
      PROVE  TypeOK'
  <2>1. o \in Callers /\ {"regenerate", "file"} \subseteq Ops
    BY DEF Callers, Ops
  <2>2. QED
    BY <1>2, <2>1, GivesTypes DEF OtherAsks, TypeOK
<1>3. QED
  BY <1>1, <1>2

-----------------------------------------------------------------------------
(* Who asks.                                                               *)

LEMMA CallersKept ==
  ASSUME TypeOK, CallersOK, Next
  PROVE  CallersOK'
<1> USE DEF Asked
<1>1. CASE ConfigChanges \/ SourceChanges
  BY <1>1 DEF CallersOK, ConfigChanges, SourceChanges
<1>2. CASE TakesRequest
  <2>1. Head(requests) = requests[1] /\ 1 \in DOMAIN requests /\ Head(requests) \in Request
        /\ \A i \in DOMAIN Tail(requests) :
             i + 1 \in DOMAIN requests /\ Tail(requests)[i] = requests[i + 1]
    BY <1>2, Taken DEF TakesRequest, TypeOK
  <2>2. CASE Head(requests).op = Stop
    BY <1>2, <2>1, <2>2 DEF TakesRequest, CallersOK, Idle
  <2>3. CASE Head(requests).op # Stop
    <3>1. Asked(thread'.by, thread'.op) /\ thread'.op \in Ops /\ thread'.at = "prints"
      BY <1>2, <2>1, <2>3 DEF TakesRequest, CallersOK, Refreshing, Request
    <3>2. QED
      BY <1>2, <2>1, <3>1 DEF TakesRequest, CallersOK
  <2>4. QED
    BY <2>2, <2>3
<1>3. CASE Ticks
  BY <1>3 DEF Ticks, CallersOK, Refreshing, Ops
<1>4. CASE Works
  <2>1. CASE Boots
    BY <1>4, <2>1 DEF Boots, CallersOK, Refreshing, Idle, Ops
  <2>2. CASE Prints
    BY <1>4, <2>2 DEF Prints, AfterRefresh, CallersOK, Idle, Ops, TypeOK, Thread, Callers
  <2>3. CASE Finds \/ Draws
    BY <2>3 DEF Finds, Draws, CallersOK, Idle
  <2>4. CASE Rereads
    BY <2>4 DEF Rereads, CallersOK, TypeOK, Thread
  <2>5. QED
    BY <1>4, <2>1, <2>2, <2>3, <2>4 DEF Works
<1>5. CASE TakesReply
  BY <1>5 DEF TakesReply, CallersOK
<1>6. CASE WorkerEnded
  BY <1>6 DEF WorkerEnded, CallersOK
<1>7. CASE Interrupt
  <2>1. [by |-> "none", op |-> Stop] \in Request
    BY DEF Request
  <2>2. CASE alive
    BY <1>7, <2>1, <2>2, Given DEF Interrupt, CallersOK, TypeOK
  <2>3. CASE ~alive
    BY <1>7, <2>3 DEF Interrupt, CallersOK
  <2>4. QED
    BY <2>2, <2>3
<1>8. CASE Restarts
  BY <1>8 DEF Restarts, FreshWorker, CallersOK, Idle
<1>9. ASSUME NEW c \in Callers, NEW op \in Ops, Gives(c, op), c \in Pages => op = "draw",
             UNCHANGED thread
      PROVE  CallersOK'
  <2>1. [by |-> c, op |-> op] \in Request
    BY DEF Request
  <2>2. QED
    BY <1>9, <2>1, Given DEF Gives, CallersOK, TypeOK
<1>10. ASSUME NEW p \in Pages, PageActs(p)
       PROVE  CallersOK'
  <2>1. p \in Callers /\ "draw" \in Ops
    BY DEF Callers, Ops
  <2>2. CASE Gives(p, "draw") /\ UNCHANGED thread
    BY <1>9, <2>1, <2>2
  <2>3. CASE UNCHANGED <<requests, thread>>
    BY <2>3 DEF CallersOK
  <2>4. QED
    BY <1>10, <2>2, <2>3 DEF PageActs, Opens, Notices, Asks, RenewsToken, Refused
<1>11. ASSUME NEW o \in Others, OtherAsks(o)
       PROVE  CallersOK'
  <2>1. o \in Callers /\ o \notin Pages /\ {"regenerate", "file"} \subseteq Ops
    BY DEF Callers, Ops
  <2>2. QED
    BY <1>9, <1>11, <2>1 DEF OtherAsks
<1>12. QED
  BY <1>1, <1>2, <1>3, <1>4, <1>5, <1>6, <1>7, <1>8, <1>10, <1>11 DEF Next

-----------------------------------------------------------------------------
(* What the worker knows.                                                  *)

Look == <<config, source, commands, fingerprint, generation>>

LEMMA Numbers ==
  ASSUME TypeOK
  PROVE  /\ config \in Nat /\ source \in 1 .. MaxSource /\ commands \in Nat /\ thread.lines \in Nat
         /\ fingerprint \in Nat /\ tree \in Nat /\ generation \in Nat /\ sourceGeneration \in Nat
         /\ server \in Nat
BY DataTypes, SMT DEF TypeOK, Configs, Sources, Thread

\* A project that has moved is no longer as the worker saw it, unless the
\* change was in what is hidden.
LEMMA MovedOn ==
  ASSUME TypeOK, LooksBack, TypeOK', ConfigChanges \/ SourceChanges, LookedLast'
  PROVE  LookedLast /\ config' = config /\ Seen(config, source') = Seen(config, source)
<1>1. config \in Nat /\ config' \in Nat /\ source \in Nat /\ source' \in 1 .. MaxSource
      /\ commands \in Nat /\ fingerprint \in Nat
  BY Numbers, SMT DEF TypeOK, Configs, Sources
<1>2. commands' = commands /\ fingerprint' = fingerprint
  BY DEF ConfigChanges, SourceChanges
<1>3. CASE ConfigChanges
  <2>1. config < config'
    BY <1>1, <1>3, SMT DEF ConfigChanges, Configs
  <2>2. commands' = config' /\ commands <= config
    BY DEF LookedLast, LooksBack
  <2>3. QED
    BY <1>1, <1>2, <2>1, <2>2, SMT
<1>4. CASE SourceChanges
  <2>1. source' = source + 1 /\ config' = config
    BY <1>4 DEF SourceChanges
  <2>2. commands = config /\ fingerprint = Seen(config, source')
    BY <1>2, <2>1 DEF LookedLast
  <2>3. config \in Hides
    BY <1>1, <2>1, <2>2, SMT DEF LooksBack, Seen, Unread
  <2>4. QED
    BY <2>1, <2>2, <2>3 DEF LookedLast, Seen
<1>5. QED
  BY <1>3, <1>4

LEMMA LooksKept ==
  ASSUME TypeOK, LooksBack, TreeRight, TypeOK', Next
  PROVE  LooksBack' /\ TreeRight'
<1>1. config \in Nat /\ config' \in Nat /\ source \in 1 .. MaxSource /\ source' \in Nat
      /\ commands \in Nat /\ thread.lines \in Nat /\ fingerprint \in Nat
  <2>1. config' \in Nat /\ source' \in Nat
    BY SMT DEF TypeOK, Configs, Sources
  <2>2. QED
    BY Numbers, <2>1
<1>2. CASE ConfigChanges \/ SourceChanges
  <2>1. config <= config' /\ source <= source'
    BY <1>1, <1>2, SMT DEF ConfigChanges, SourceChanges, Configs
  <2>2. UNCHANGED <<commands, fingerprint, tree, thread>>
    BY <1>2 DEF ConfigChanges, SourceChanges
  <2>3. LooksBack'
    BY <1>1, <2>1, <2>2, SMT DEF LooksBack
  <2>4. TreeRight'
    BY <1>2, <2>2, MovedOn DEF TreeRight
  <2>5. QED
    BY <2>3, <2>4
<1>3. CASE TakesRequest \/ Ticks \/ Boots
  <2>1. UNCHANGED <<config, source, commands, fingerprint, tree>>
        /\ (thread'.at \in {"prints", "draws"} => thread'.lines = config)
    BY <1>3 DEF TakesRequest, Ticks, Boots, Refreshing, Idle
  <2>2. QED
    BY <1>1, <2>1, SMT DEF LooksBack, TreeRight, LookedLast, Seen
<1>4. CASE Prints
  <2>1. UNCHANGED <<config, source>> /\ thread'.at \notin {"prints", "draws"}
    BY <1>4 DEF Prints, AfterRefresh, Idle, TypeOK, Thread
  <2>2. Seen(thread.lines, source) <= source
    BY <1>1, SMT DEF Seen, Nothing
  <2>3. CASE Differs(thread.lines, Seen(thread.lines, source))
    BY <1>1, <1>4, <2>1, <2>2, <2>3, SMT DEF Prints, LooksBack, TreeRight
  <2>4. CASE ~Differs(thread.lines, Seen(thread.lines, source))
    BY <1>4, <2>1, <2>4 DEF Prints, LooksBack, TreeRight, LookedLast
  <2>5. QED
    BY <2>3, <2>4
<1>5. CASE Finds
  BY <1>1, <1>5, SMT DEF Finds, LooksBack, TreeRight, LookedLast, Scanned, Idle, Seen
<1>6. CASE Rereads
  <2>1. UNCHANGED <<config, source, commands, fingerprint>> /\ tree' \in {tree, Unread}
    BY <1>6 DEF Rereads
  <2>2. thread'.lines = config
    BY <1>6 DEF Rereads, TypeOK, Thread
  <2>3. QED
    BY <1>1, <2>1, <2>2, SMT DEF LooksBack, TreeRight, LookedLast, Seen
<1>7. CASE Draws
  BY <1>1, <1>7, SMT DEF Draws, LooksBack, TreeRight, LookedLast, Scanned, Idle, Seen
<1>8. CASE Restarts
  BY <1>1, <1>8, SMT DEF Restarts, FreshWorker, LooksBack, TreeRight, Idle, Nothing
<1>9. CASE UNCHANGED <<config, source, workerVars>>
  BY <1>9 DEF LooksBack, TreeRight, LookedLast
<1>10. QED
  BY <1>2, <1>3, <1>4, <1>5, <1>6, <1>7, <1>8, <1>9
  DEF Next, Works, TakesReply, WorkerEnded, Interrupt, PageActs, Opens, Notices, Asks, RenewsToken, Refused,
    OtherAsks

-----------------------------------------------------------------------------
(* Drawings.                                                               *)

\* Right, of a drawing as it is now, of the state to come.
RightNext(g, picture) ==
  g <= generation' /\ (g = generation' /\ LookedLast' => picture = Current')

\* A right drawing stays right, or is no longer of the newest generation.
LEMMA Carried ==
  ASSUME TypeOK, LooksBack, TypeOK', Next, ~Restarts
  PROVE  \A g \in Int : \A picture : Right(g, picture) => RightNext(g, picture)
<1>1. CASE ConfigChanges \/ SourceChanges
  <2>1. generation' = generation
    BY <1>1 DEF ConfigChanges, SourceChanges
  <2>2. LookedLast' => LookedLast /\ Current' = Current
    <3>1. SUFFICES ASSUME LookedLast' PROVE LookedLast /\ Current' = Current
      OBVIOUS
    <3>2. LookedLast /\ config' = config /\ Seen(config, source') = Seen(config, source)
      BY <1>1, <3>1, MovedOn
    <3>3. QED
      BY <3>2 DEF Current
  <2>3. QED
    BY <2>1, <2>2 DEF Right, RightNext
<1>2. CASE Prints /\ generation' = generation + 1
  BY <1>2, Numbers, SMT DEF Right, RightNext
<1>3. CASE UNCHANGED Look
  BY <1>3 DEF Look, Right, RightNext, LookedLast, Current
<1>4. QED
  <2>1. Prints => UNCHANGED Look \/ generation' = generation + 1
    BY DEF Prints, Look
  <2>2. TakesRequest \/ Ticks \/ Boots \/ Finds \/ Rereads \/ Draws \/ TakesReply
        \/ WorkerEnded \/ Interrupt => UNCHANGED Look
    BY DEF TakesRequest, Ticks, Boots, Finds, Rereads, Draws, TakesReply, WorkerEnded,
      Interrupt, Look
  <2>3. (\E p \in Pages : PageActs(p)) \/ (\E o \in Others : OtherAsks(o)) => UNCHANGED Look
    BY DEF PageActs, Opens, Notices, Asks, RenewsToken, Refused, OtherAsks, Look
  <2>4. QED
    BY <1>1, <1>2, <1>3, <2>1, <2>2, <2>3 DEF Next, Works

\* What is drawn now is right: if the last look was, the configuration read
\* for it and the one read for the drawing are the same.
LEMMA DrawnRight ==
  ASSUME TypeOK, LooksBack, TreeRight, Draws
  PROVE  LET new == Drawing(thread.lines, Scanned(thread.lines), generation)
         IN new.generation = generation /\ Right(generation, new.picture)
<1> DEFINE t == Scanned(thread.lines)
           new == Drawing(thread.lines, t, generation)
<1>1. new.generation = generation
  BY DEF Drawing
<1>2. ASSUME LookedLast PROVE new.picture = Current
  <2>1. thread.lines = config
    BY <1>2, Numbers, SMT DEF LooksBack, LookedLast, Draws
  <2>2. Seen(config, t) = Seen(config, source)
    BY <1>2, <2>1 DEF Scanned, TreeRight, Seen
  <2>3. Seen(config, Seen(config, source)) = Seen(config, source)
    BY DEF Seen
  <2>4. QED
    BY <2>1, <2>2, <2>3 DEF Drawing, Picture, Current
<1>3. QED
  BY <1>1, <1>2, Numbers, SMT DEF Right

\* The numbers in drawings, replies and pages.
LEMMA Generations ==
  ASSUME TypeOK
  PROVE  /\ drawing.generation \in Int
         /\ \A i \in DOMAIN replies : replies[i] \in Reply /\ replies[i].drawing.generation \in Int
         /\ \A p \in Pages : page[p].gen \in Int /\ page[p].from \in Int /\ page[p] \in Page
<1>1. \A i \in DOMAIN replies : replies[i] \in Reply
  BY ElementOfSeq DEF TypeOK
<1>2. drawing.generation \in Nat /\ \A r \in Reply : r.drawing.generation \in Nat
  BY DEF TypeOK, Drawings, Reply
<1>3. \A p \in Pages : page[p] \in Page
  BY DEF TypeOK
<1>4. \A q \in Page : q.gen \in Int /\ q.from \in Int
  BY SMT DEF Page
<1>5. QED
  BY <1>1, <1>2, <1>3, <1>4

\* No page has a generation of a server that starts.
LEMMA PagesStale ==
  ASSUME TypeOK, DrawingsRight, Restarts, NEW p \in Pages
  PROVE  page'[p].from <= server' /\ page'[p].from # server'
<1>1. server' = server + 1 /\ server \in Nat
  BY Numbers DEF Restarts
<1>2. page[p] \in Page /\ page[p].from \in Int /\ page[p].from <= server
  BY Generations DEF DrawingsRight
<1>3. page'[p].from \in {0, page[p].from}
  BY <1>2 DEF Restarts, Failed, Away, Page
<1>4. QED
  BY <1>1, <1>2, <1>3, SMT

LEMMA DrawingsKept ==
  ASSUME TypeOK, LooksBack, CallersOK, TreeRight, DrawingsRight, TypeOK', Next
  PROVE  DrawingsRight'
<1> DEFINE Cache == drawing' # NoDrawing => RightNext(drawing'.generation, drawing'.picture)
           Sent == \A i \in DOMAIN replies' : replies'[i].to \in Pages =>
                     RightNext(replies'[i].drawing.generation, replies'[i].drawing.picture)
           Shown == \A p \in Pages :
                      page'[p].from <= server'
                        /\ (page'[p].from = server' => RightNext(page'[p].gen, page'[p].shown))
<1>1. SUFFICES Cache /\ Sent /\ Shown
  BY DEF DrawingsRight, Right, RightNext
<1>2. CASE Restarts
  <2>1. \A p \in Pages : page'[p].from <= server' /\ page'[p].from # server'
    BY <1>2, PagesStale
  <2>2. QED
    BY <1>2, <2>1 DEF Restarts, FreshWorker
<1>3. ASSUME ~Restarts PROVE Cache /\ Sent /\ Shown
  <2>1. server' = server
    BY <1>3 DEF Next, ConfigChanges, SourceChanges, TakesRequest, Ticks, Works, Boots, Prints, Finds,
      Rereads, Draws, TakesReply, WorkerEnded, Interrupt, PageActs, Opens, Notices, Asks, RenewsToken, Refused,
      OtherAsks
  <2>2. drawing # NoDrawing => RightNext(drawing.generation, drawing.picture)
    BY <1>3, Carried, Generations DEF DrawingsRight
  <2>3. \A i \in DOMAIN replies : replies[i].to \in Pages =>
          RightNext(replies[i].drawing.generation, replies[i].drawing.picture)
    BY <1>3, Carried, Generations DEF DrawingsRight
  <2>4. \A p \in Pages : page[p].from <= server
          /\ (page[p].from = server => RightNext(page[p].gen, page[p].shown))
    BY <1>3, Carried, Generations DEF DrawingsRight
  <2>5. UNCHANGED drawing => Cache
    BY <2>2
  <2>6. UNCHANGED replies => Sent
    BY <2>3
  <2>7. (\A p \in Pages : /\ page'[p].from = page[p].from /\ page'[p].gen = page[p].gen
                          /\ page'[p].shown = page[p].shown) => Shown
    BY <2>1, <2>4
  <2>8. UNCHANGED page => Shown
    BY <2>7
  <2>9. ASSUME NEW to \in Callers \cup {Changed}, NEW d \in Drawings, Replies(to, d),
               to \in Pages => RightNext(d.generation, d.picture)
        PROVE  Sent
    <3>1. [to |-> to, drawing |-> d] \in Reply
      BY DEF Reply
    <3>2. replies \in Seq(Reply) /\ replies' = Append(replies, [to |-> to, drawing |-> d])
      BY <2>9 DEF Replies, TypeOK
    <3>3. replies'[Len(replies) + 1] = [to |-> to, drawing |-> d]
      BY <3>1, <3>2, Given
    <3>4. \A i \in DOMAIN replies' :
            (i \in DOMAIN replies /\ replies'[i] = replies[i]) \/ i = Len(replies) + 1
      BY <3>1, <3>2, Given
    <3>5. QED
      BY <2>3, <2>9, <3>3, <3>4
  <2>10. CASE ConfigChanges \/ SourceChanges \/ TakesRequest \/ Ticks \/ Boots \/ Interrupt
              \/ \E o \in Others : OtherAsks(o)
    BY <2>5, <2>6, <2>8, <2>10 DEF ConfigChanges, SourceChanges, TakesRequest, Ticks, Boots,
      Interrupt, OtherAsks
  <2>11. CASE Prints
    <3>1. CASE Differs(thread.lines, Seen(thread.lines, source))
      <4>1. [NoDrawing EXCEPT !.generation = generation + 1] \in Drawings
        BY Numbers, NoticeTypes
      <4>2. Changed \notin Pages
        BY DEF Changed
      <4>3. Sent
        BY <2>9, <2>11, <3>1, <4>1, <4>2 DEF Prints, Notice
      <4>4. QED
        BY <2>8, <2>11, <3>1, <4>3 DEF Prints
    <3>2. CASE ~Differs(thread.lines, Seen(thread.lines, source))
      BY <2>5, <2>6, <2>8, <2>11, <3>2 DEF Prints
    <3>3. QED
      BY <3>1, <3>2
  <2>12. CASE Finds
    <3>1. thread.by \in Callers /\ thread.by \notin Pages
      BY <2>12 DEF Finds, CallersOK, Callers
    <3>2. Sent
      BY <2>9, <2>12, <3>1, DataTypes DEF Finds
    <3>3. QED
      BY <2>5, <2>8, <2>12, <3>2 DEF Finds
  <2>13. CASE Rereads
    BY <2>2, <2>6, <2>8, <2>13 DEF Rereads
  <2>14. CASE Draws
    <3> DEFINE t == Scanned(thread.lines)
               new == Drawing(thread.lines, t, generation)
    <3>1. t \in 0 .. MaxSource /\ thread.lines \in 0 .. MaxConfig
      BY ScanTypes DEF TypeOK, Thread
    <3>2. new \in Drawings /\ drawing \in Drawings /\ thread.by \in Callers
      BY <2>14, <3>1, DataTypes DEF TypeOK, Draws, CallersOK
    <3>3. RightNext(new.generation, new.picture)
      BY <1>3, <2>14, Carried, DrawnRight, Numbers
    <3> HIDE DEF new, t
    <3>4. CASE Replies(thread.by, drawing) /\ drawing # NoDrawing /\ UNCHANGED drawing
      BY <2>2, <2>5, <2>8, <2>9, <2>14, <3>2, <3>4 DEF Draws
    <3>5. CASE Replies(thread.by, new) /\ drawing' = new
      BY <2>8, <2>9, <2>14, <3>2, <3>3, <3>5 DEF Draws
    <3>6. QED
      BY <2>14, <3>4, <3>5 DEF Draws, new, t
  <2>15. CASE TakesReply
    <3> DEFINE to == Head(replies).to
               d == Head(replies).drawing
    <3>1. Head(replies) = replies[1] /\ 1 \in DOMAIN replies
          /\ \A i \in DOMAIN Tail(replies) :
               i + 1 \in DOMAIN replies /\ Tail(replies)[i] = replies[i + 1]
      BY <2>15, Taken DEF TakesReply, TypeOK
    <3>2. Sent
      BY <2>3, <2>15, <3>1 DEF TakesReply
    <3>3. Cache
      BY <2>5, <2>15 DEF TakesReply
    <3>4. CASE to = Changed
      BY <2>8, <2>15, <3>2, <3>3, <3>4 DEF TakesReply
    <3>5. CASE to # Changed
      <4>1. to \in Pages => RightNext(d.generation, d.picture)
        BY <2>3, <3>1
      <4>2. ASSUME NEW p \in Pages
            PROVE  page'[p].from <= server'
                     /\ (page'[p].from = server' => RightNext(page'[p].gen, page'[p].shown))
        <5>1. CASE p = to
          <6>1. page'[p] = Answered(page[p], d)
            BY <2>15, <3>5, <5>1 DEF TakesReply, TypeOK
          <6>2. server <= server
            BY Numbers, SMT
          <6>3. page[p] \in Page
            BY DEF TypeOK
          <6> HIDE DEF to, d
          <6>4. QED
            BY <2>1, <2>4, <4>1, <5>1, <6>1, <6>2, <6>3 DEF Answered, Page
        <5>2. CASE p # to
          <6>1. page'[p] = page[p]
            BY <2>15, <3>5, <5>2 DEF TakesReply, TypeOK
          <6>2. QED
            BY <2>1, <2>4, <6>1
        <5>3. QED
          BY <5>1, <5>2
      <4>3. QED
        BY <3>2, <3>3, <4>2
    <3>6. QED
      BY <3>4, <3>5
  <2>16. CASE WorkerEnded
    <3>1. ASSUME NEW p \in Pages
          PROVE  page'[p].from <= server'
                   /\ (page'[p].from = server' => RightNext(page'[p].gen, page'[p].shown))
      <4>1. page'[p] = Failed(page[p]) /\ page[p] \in Page
        BY <2>16 DEF WorkerEnded, TypeOK
      <4>2. 0 <= server' /\ 0 # server'
        BY <2>1, SMT DEF TypeOK
      <4>3. QED
        BY <2>1, <2>4, <4>1, <4>2 DEF Failed, Away, Page
    <3>2. QED
      BY <2>5, <2>16, <3>1 DEF WorkerEnded
  <2>17. ASSUME NEW q \in Pages, PageActs(q)
         PROVE  Cache /\ Sent /\ Shown
    <3>1. UNCHANGED <<drawing, replies>>
      BY <2>17 DEF PageActs, Opens, Notices, Asks, RenewsToken, Refused
    <3>2. CASE page' = [page EXCEPT ![q] = [@ EXCEPT !.token = server, !.gen = -1]]
      <4>1. ASSUME NEW p \in Pages
            PROVE  page'[p].from <= server'
                     /\ (page'[p].from = server' => RightNext(page'[p].gen, page'[p].shown))
        <5>1. CASE p = q
          <6>1. page'[p].from = page[p].from /\ page'[p].gen = -1
            BY <3>2, <5>1 DEF TypeOK, Page
          <6>2. generation' \in Nat
            BY Numbers, SMT DEF TypeOK
          <6>3. QED
            BY <2>1, <2>4, <6>1, <6>2, SMT DEF RightNext
        <5>2. CASE p # q
          BY <2>1, <2>4, <3>2, <5>2 DEF TypeOK
        <5>3. QED
          BY <5>1, <5>2
      <4>2. QED
        BY <2>5, <2>6, <3>1, <4>1
    <3>3. CASE \E a \in {"loading", "polling", "asking", "drawing"} :
                 page' = [page EXCEPT ![q].at = a]
      <4>1. \A p \in Pages : /\ page'[p].from = page[p].from /\ page'[p].gen = page[p].gen
                            /\ page'[p].shown = page[p].shown
        <5>1. PICK a \in {"loading", "polling", "asking", "drawing"} :
                page' = [page EXCEPT ![q].at = a]
          BY <3>3
        <5>2. page[q] \in Page /\ page \in [Pages -> Page]
          BY DEF TypeOK
        <5>3. \A r \in Page : [r EXCEPT !.at = a].from = r.from
                /\ [r EXCEPT !.at = a].gen = r.gen /\ [r EXCEPT !.at = a].shown = r.shown
          BY DEF Page
        <5>4. \A p \in Pages : page'[p] = IF p = q THEN [page[p] EXCEPT !.at = a] ELSE page[p]
          BY <5>1, <5>2
        <5>5. QED
          BY <5>2, <5>3, <5>4
      <4>2. Shown
        BY <2>7, <4>1
      <4>3. QED
        BY <2>5, <2>6, <3>1, <4>2
    <3>4. Opens(q) \/ Notices(q) \/ Asks(q) =>
            \E a \in {"loading", "polling", "asking", "drawing"} : page' = [page EXCEPT ![q].at = a]
      BY DEF Opens, Notices, Asks
    <3>5. Refused(q) => \/ page' = [page EXCEPT ![q] = [@ EXCEPT !.token = server, !.gen = -1]]
                        \/ page' = [page EXCEPT ![q].at = "polling"]
      BY DEF Refused
    <3>6. CASE RenewsToken(q)
      <4>1. page[q] \in Page /\ page \in [Pages -> Page] /\ page' = [page EXCEPT ![q].token = server]
        BY <3>6 DEF TypeOK, RenewsToken
      <4>2. \A r \in Page : [r EXCEPT !.token = server].from = r.from
              /\ [r EXCEPT !.token = server].gen = r.gen
              /\ [r EXCEPT !.token = server].shown = r.shown
        BY DEF Page
      <4>3. \A p \in Pages :
              page'[p] = IF p = q THEN [page[p] EXCEPT !.token = server] ELSE page[p]
        BY <4>1
      <4>4. \A p \in Pages : /\ page'[p].from = page[p].from /\ page'[p].gen = page[p].gen
                            /\ page'[p].shown = page[p].shown
        BY <4>1, <4>2, <4>3
      <4>5. Shown
        BY <2>7, <4>4
      <4>6. QED
        BY <2>5, <2>6, <3>1, <4>5
    <3>7. QED
      BY <2>17, <3>2, <3>3, <3>4, <3>5, <3>6 DEF PageActs
  <2>18. QED
    BY <1>3, <2>10, <2>11, <2>12, <2>13, <2>14, <2>15, <2>16, <2>17 DEF Next, Works
<1>4. QED
  BY <1>2, <1>3

-----------------------------------------------------------------------------
(* Notices.                                                                *)

\* The conjuncts that are about the replies alone.
InOrder ==
  /\ \A i \in DOMAIN replies : replies[i].to = Changed =>
       /\ sourceGeneration <= replies[i].drawing.generation
       /\ replies[i].drawing.generation <= generation
  /\ \A i, j \in DOMAIN replies : i < j /\ replies[i].to = Changed /\ replies[j].to = Changed
       => replies[i].drawing.generation <= replies[j].drawing.generation
  /\ \A i \in DOMAIN replies : replies[i].to \in Pages =>
       Announced(replies[i].drawing.generation, i)
  /\ IF alive THEN Announced(generation, Len(replies)) ELSE thread.at = "ended"
  /\ sourceGeneration <= generation

\* Announced, in the state to come.
AnnouncedNext(g, n) ==
  \/ g <= sourceGeneration'
  \/ \E j \in 1 .. n : replies'[j].to = Changed /\ g <= replies'[j].drawing.generation

\* InOrder', by its conjuncts.
InOrderNext ==
  /\ \A i \in DOMAIN replies' : replies'[i].to = Changed =>
       /\ sourceGeneration' <= replies'[i].drawing.generation
       /\ replies'[i].drawing.generation <= generation'
  /\ \A i, j \in DOMAIN replies' : i < j /\ replies'[i].to = Changed /\ replies'[j].to = Changed
       => replies'[i].drawing.generation <= replies'[j].drawing.generation
  /\ \A i \in DOMAIN replies' : replies'[i].to \in Pages =>
       AnnouncedNext(replies'[i].drawing.generation, i)
  /\ IF alive' THEN AnnouncedNext(generation', Len(replies')) ELSE thread'.at = "ended"
  /\ sourceGeneration' <= generation'

\* Another reply, to a caller, in the generation that has been announced.
LEMMA OrderOfAnswers ==
  ASSUME TypeOK, InOrder, alive, UNCHANGED <<alive, sourceGeneration, generation>>,
         NEW to \in Callers, NEW d \in Drawings, Replies(to, d),
         to \in Pages => d.generation <= generation
  PROVE  InOrderNext
<1> DEFINE r == [to |-> to, drawing |-> d]
           n == Len(replies)
<1>1. r \in Reply /\ to # Changed /\ r.to = to /\ r.drawing = d /\ d.generation \in Nat
  BY DEF Reply, Callers, Changed, Drawings
<1>2. replies \in Seq(Reply) /\ n \in Nat /\ DOMAIN replies = 1 .. n
  BY LenProperties DEF TypeOK
<1>3. replies' = Append(replies, r)
  BY DEF Replies
<1> HIDE DEF r
<1>4. /\ replies'[n + 1] = r /\ Len(replies') = n + 1
      /\ \A i \in 1 .. n : replies'[i] = replies[i]
      /\ \A i \in DOMAIN replies' : i \in 1 .. n \/ i = n + 1
  BY <1>1, <1>2, <1>3, Given
<1>5. \A g, k \in Int : k <= n /\ Announced(g, k) => AnnouncedNext(g, k)
  BY <1>2, <1>4, SMT DEF Announced, AnnouncedNext
<1>6. \A g \in Int : Announced(g, n) => AnnouncedNext(g, n + 1)
  BY <1>2, <1>4, SMT DEF Announced, AnnouncedNext
<1>7. \A i \in DOMAIN replies' : replies'[i].to = Changed =>
        i \in 1 .. n /\ replies'[i] = replies[i]
  BY <1>1, <1>4
<1>8. /\ \A i \in DOMAIN replies' : replies'[i].to = Changed =>
           /\ sourceGeneration' <= replies'[i].drawing.generation
           /\ replies'[i].drawing.generation <= generation'
      /\ \A i, j \in DOMAIN replies' :
           i < j /\ replies'[i].to = Changed /\ replies'[j].to = Changed
           => replies'[i].drawing.generation <= replies'[j].drawing.generation
  BY <1>2, <1>7 DEF InOrder
<1>9. Announced(generation, n) /\ AnnouncedNext(generation', n + 1)
  BY <1>6, Numbers DEF InOrder
<1>10. to \in Pages => AnnouncedNext(d.generation, n + 1)
  <2>1. SUFFICES ASSUME to \in Pages PROVE Announced(d.generation, n)
    BY <1>1, <1>6
  <2>2. d.generation <= generation
    BY <2>1
  <2>3. \A j \in 1 .. n : replies[j].drawing.generation \in Int
    BY <1>2, Generations
  <2>4. ASSUME NEW g \in Int, NEW h \in Int, h <= g, Announced(g, n) PROVE Announced(h, n)
    <3>1. CASE g <= sourceGeneration
      BY <2>4, <3>1, Numbers, SMT DEF Announced
    <3>2. CASE \E j \in 1 .. n : replies[j].to = Changed /\ g <= replies[j].drawing.generation
      BY <2>3, <2>4, <3>2, SMT DEF Announced
    <3>3. QED
      BY <2>4, <3>1, <3>2 DEF Announced
  <2>5. QED
    BY <1>1, <1>9, <2>2, <2>4, Numbers
<1>11. \A i \in DOMAIN replies' : replies'[i].to \in Pages =>
         AnnouncedNext(replies'[i].drawing.generation, i)
  <2>1. TAKE i \in DOMAIN replies'
  <2>2. CASE i \in 1 .. n
    <3>1. replies'[i] = replies[i] /\ replies[i].drawing.generation \in Int
          /\ (replies[i].to \in Pages => Announced(replies[i].drawing.generation, i))
      BY <1>2, <1>4, <2>2, Generations DEF InOrder
    <3>2. QED
      BY <1>2, <1>5, <2>2, <3>1, SMT
  <2>3. CASE i = n + 1
    BY <1>1, <1>4, <1>10, <2>3
  <2>4. QED
    BY <1>4, <2>2, <2>3
<1>12. QED
  BY <1>4, <1>8, <1>9, <1>11 DEF InOrder, InOrderNext

\* The notice of a new generation.
LEMMA OrderOfNotices ==
  ASSUME TypeOK, InOrder, UNCHANGED <<alive, sourceGeneration>>, alive,
         generation' = generation + 1, Notice(generation')
  PROVE  InOrderNext
<1> DEFINE d == [NoDrawing EXCEPT !.generation = generation']
           r == [to |-> Changed, drawing |-> d]
           n == Len(replies)
<1>1. d \in Drawings /\ d.generation = generation'
  BY Numbers, NoticeTypes, DataTypes DEF Drawings
<1>2. r \in Reply /\ r.to = Changed /\ r.drawing.generation = generation' /\ Changed \notin Pages
  BY <1>1 DEF Reply, Changed
<1>3. replies \in Seq(Reply) /\ n \in Nat /\ DOMAIN replies = 1 .. n
  BY LenProperties DEF TypeOK
<1>4. replies' = Append(replies, r)
  BY DEF Notice, Replies
<1> HIDE DEF r
<1>5. /\ replies'[n + 1] = r /\ Len(replies') = n + 1
      /\ \A i \in 1 .. n : replies'[i] = replies[i]
      /\ \A i \in DOMAIN replies' : i \in 1 .. n \/ i = n + 1
  BY <1>2, <1>3, <1>4, Given
<1>6. \A i \in 1 .. n : replies[i].drawing.generation \in Int
  BY <1>3, Generations
<1>7. /\ generation \in Nat /\ generation' \in Nat /\ generation < generation'
      /\ sourceGeneration \in Nat /\ sourceGeneration' = sourceGeneration
  BY Numbers, SMT
<1>8. \A i \in DOMAIN replies' : replies'[i].to = Changed =>
        /\ sourceGeneration' <= replies'[i].drawing.generation
        /\ replies'[i].drawing.generation <= generation'
  <2>1. TAKE i \in DOMAIN replies'
  <2>2. CASE i \in 1 .. n
    <3>1. replies'[i] = replies[i] /\ replies[i].drawing.generation \in Int
          /\ (replies[i].to = Changed => /\ sourceGeneration <= replies[i].drawing.generation
                                        /\ replies[i].drawing.generation <= generation)
      BY <1>3, <1>5, <1>6, <2>2 DEF InOrder
    <3>2. QED
      BY <1>7, <3>1, SMT
  <2>3. CASE i = n + 1
    <3>1. sourceGeneration <= generation
      BY DEF InOrder
    <3>2. QED
      BY <1>2, <1>5, <1>7, <2>3, <3>1, SMT
  <2>4. QED
    BY <1>5, <2>2, <2>3
<1>9. ASSUME NEW i \in DOMAIN replies', NEW j \in DOMAIN replies',
             i < j, replies'[i].to = Changed, replies'[j].to = Changed
      PROVE  replies'[i].drawing.generation <= replies'[j].drawing.generation
  <2>1. i \in 1 .. n
    BY <1>3, <1>5, <1>9, SMT
  <2>2. CASE j \in 1 .. n
    BY <1>3, <1>5, <1>9, <2>1, <2>2 DEF InOrder
  <2>3. CASE j = n + 1
    BY <1>2, <1>5, <1>8, <1>9, <2>3
  <2>4. QED
    BY <1>5, <2>2, <2>3
<1>10. \A i \in DOMAIN replies' : replies'[i].to \in Pages =>
         AnnouncedNext(replies'[i].drawing.generation, i)
  <2>1. TAKE i \in DOMAIN replies'
  <2>2. CASE i \in 1 .. n
    <3>1. replies'[i] = replies[i]
          /\ (replies[i].to \in Pages => Announced(replies[i].drawing.generation, i))
      BY <1>3, <1>5, <2>2 DEF InOrder
    <3>2. \A j \in 1 .. i : replies'[j] = replies[j]
      BY <1>3, <1>5, <2>2, SMT
    <3>3. QED
      BY <1>7, <3>1, <3>2 DEF Announced, AnnouncedNext
  <2>3. CASE i = n + 1
    BY <1>2, <1>5, <2>3
  <2>4. QED
    BY <1>5, <2>2, <2>3
<1>11. AnnouncedNext(generation', n + 1)
  <2>1. n + 1 \in 1 .. n + 1 /\ generation' <= replies'[n + 1].drawing.generation
    BY <1>2, <1>3, <1>5, <1>7, SMT
  <2>2. QED
    BY <1>2, <1>5, <2>1 DEF AnnouncedNext
<1>12. sourceGeneration' <= generation'
  BY <1>7, SMT DEF InOrder
<1>13. QED
  BY <1>5, <1>8, <1>9, <1>10, <1>11, <1>12 DEF InOrderNext

\* The server takes a reply: a notice takes its generation past every drawing
\* the notice announced.
LEMMA OrderOfTaking ==
  ASSUME TypeOK, InOrder, TakesReply
  PROVE  InOrderNext /\ sourceGeneration <= sourceGeneration'
<1> DEFINE n == Len(replies)
           first == replies[1]
<1>1. replies \in Seq(Reply) /\ n \in Nat /\ DOMAIN replies = 1 .. n /\ replies # <<>>
      /\ replies' = Tail(replies) /\ UNCHANGED <<generation, alive>> /\ alive
  BY LenProperties DEF TypeOK, TakesReply
<1>2. /\ Head(replies) = first /\ 1 \in 1 .. n /\ Len(replies') = n - 1
      /\ \A i \in DOMAIN replies' : i + 1 \in 1 .. n /\ replies'[i] = replies[i + 1]
      /\ DOMAIN replies' = 1 .. n - 1
  <2>1. Tail(replies) \in Seq(Reply)
    BY <1>1, Taken
  <2>2. DOMAIN Tail(replies) = 1 .. Len(Tail(replies))
    BY <2>1, LenProperties
  <2>3. QED
    BY <1>1, <2>2, Taken
<1>3. \A i \in 1 .. n : replies[i].drawing.generation \in Int
  BY <1>1, Generations
<1>4. sourceGeneration' = IF first.to = Changed THEN first.drawing.generation ELSE sourceGeneration
  BY <1>2 DEF TakesReply
<1>5. sourceGeneration <= sourceGeneration' /\ sourceGeneration' <= generation'
      /\ sourceGeneration' \in Int
  <2>1. first.drawing.generation \in Int /\ generation' = generation
    BY <1>1, <1>2, <1>3
  <2>2. first.to = Changed => /\ sourceGeneration <= first.drawing.generation
                             /\ first.drawing.generation <= generation
    BY <1>1, <1>2 DEF InOrder
  <2>3. sourceGeneration <= generation
    BY DEF InOrder
  <2>4. QED
    BY <1>4, <2>1, <2>2, <2>3, Numbers, SMT
<1>6. \A i \in 1 .. n : replies[i].to = Changed =>
        /\ sourceGeneration' <= replies[i].drawing.generation
        /\ replies[i].drawing.generation <= generation
  <2>1. TAKE i \in 1 .. n
  <2>2. CASE i = 1
    BY <1>1, <1>2, <1>3, <1>4, <2>2, SMT DEF InOrder
  <2>3. CASE i # 1
    <3>1. 1 < i
      BY <1>1, <2>3, SMT
    <3>2. QED
      BY <1>1, <1>2, <1>4, <3>1 DEF InOrder
  <2>4. QED
    BY <2>2, <2>3
<1>7. ASSUME NEW g \in Int, NEW k \in 1 .. n, Announced(g, k)
      PROVE  AnnouncedNext(g, k - 1)
  <2>1. CASE g <= sourceGeneration
    BY <1>5, <2>1, Numbers, SMT DEF AnnouncedNext
  <2>2. ASSUME NEW j \in 1 .. k, replies[j].to = Changed, g <= replies[j].drawing.generation
        PROVE  AnnouncedNext(g, k - 1)
    <3>1. CASE j = 1
      BY <1>4, <2>2, <3>1 DEF AnnouncedNext
    <3>2. CASE j # 1
      <4>1. j - 1 \in 1 .. k - 1 /\ j - 1 \in 1 .. n - 1 /\ (j - 1) + 1 = j
        BY <1>1, <3>2, SMT
      <4>2. replies'[j - 1] = replies[j]
        BY <1>2, <4>1
      <4>3. QED
        BY <2>2, <4>1, <4>2 DEF AnnouncedNext
    <3>3. QED
      BY <3>1, <3>2
  <2>3. QED
    BY <1>7, <2>1, <2>2 DEF Announced
<1>8. /\ \A i \in DOMAIN replies' : replies'[i].to = Changed =>
           /\ sourceGeneration' <= replies'[i].drawing.generation
           /\ replies'[i].drawing.generation <= generation'
      /\ \A i, j \in DOMAIN replies' :
           i < j /\ replies'[i].to = Changed /\ replies'[j].to = Changed
           => replies'[i].drawing.generation <= replies'[j].drawing.generation
  <2>1. \A i, j \in DOMAIN replies' : i < j => i + 1 < j + 1
    BY <1>1, <1>2, SMT
  <2>2. QED
    BY <1>1, <1>2, <1>6, <2>1 DEF InOrder
<1>9. \A i \in DOMAIN replies' : replies'[i].to \in Pages =>
        AnnouncedNext(replies'[i].drawing.generation, i)
  <2>1. TAKE i \in DOMAIN replies'
  <2>2. i + 1 \in 1 .. n /\ replies'[i] = replies[i + 1] /\ (i + 1) - 1 = i
    BY <1>1, <1>2, SMT
  <2>3. replies[i + 1].to \in Pages => Announced(replies[i + 1].drawing.generation, i + 1)
    BY <1>1, <2>2 DEF InOrder
  <2>4. QED
    BY <1>3, <1>7, <2>2, <2>3
<1>10. AnnouncedNext(generation', n - 1)
  <2>1. n \in 1 .. n
    BY <1>1, <1>2, SMT
  <2>2. QED
    BY <1>1, <1>7, <2>1, Numbers DEF InOrder
<1>11. QED
  BY <1>1, <1>2, <1>5, <1>8, <1>9, <1>10 DEF InOrderNext

LEMMA NoticesKept ==
  ASSUME TypeOK, CallersOK, DrawingsRight, NoticesInOrder, TypeOK', Next
  PROVE  NoticesInOrder'
<1> DEFINE Known == \A p \in Pages :
              page'[p].at \in {"polling", "asking", "drawing"} /\ page'[p].from = server'
              => page'[p].gen <= sourceGeneration'
<1>1. SUFFICES InOrderNext /\ Known
  BY DEF NoticesInOrder, InOrderNext, NoticeComesFirst, Knows, Announced, AnnouncedNext
<1>2. InOrder /\ NoticeComesFirst
  BY DEF NoticesInOrder, InOrder
<1>3. ASSUME UNCHANGED <<replies, sourceGeneration, generation, alive>>,
             UNCHANGED thread \/ thread.at # "ended"
      PROVE  InOrderNext
  BY <1>2, <1>3 DEF InOrder, InOrderNext, Announced, AnnouncedNext
<1>4. ASSUME UNCHANGED <<page, server, sourceGeneration>>
      PROVE  Known
  BY <1>2, <1>4 DEF NoticeComesFirst, Knows
<1>5. thread.at # "ended" => alive
  BY <1>2 DEF InOrder
<1>6. CASE ConfigChanges \/ SourceChanges \/ TakesRequest \/ Ticks \/ Boots \/ Rereads
           \/ Interrupt \/ \E o \in Others : OtherAsks(o)
  BY <1>3, <1>4, <1>6 DEF ConfigChanges, SourceChanges, TakesRequest, Ticks, Boots, Rereads,
    Interrupt, OtherAsks
<1>7. CASE Prints
  <2>1. alive /\ Known
    BY <1>4, <1>5, <1>7 DEF Prints
  <2>2. CASE Differs(thread.lines, Seen(thread.lines, source))
    BY <1>2, <1>7, <2>1, <2>2, OrderOfNotices DEF Prints
  <2>3. CASE ~Differs(thread.lines, Seen(thread.lines, source))
    BY <1>3, <1>7, <2>1, <2>3 DEF Prints
  <2>4. QED
    BY <2>1, <2>2, <2>3
<1>8. CASE Finds
  <2>1. thread.by \in Callers /\ thread.by \notin Pages
    BY <1>8 DEF Finds, CallersOK, Callers
  <2>2. alive /\ Known
    BY <1>4, <1>5, <1>8 DEF Finds
  <2>3. QED
    BY <1>2, <1>8, <2>1, <2>2, DataTypes, OrderOfAnswers DEF Finds
<1>9. CASE Draws
  <2> DEFINE new == Drawing(thread.lines, Scanned(thread.lines), generation)
  <2>1. alive /\ Known
    BY <1>4, <1>5, <1>9 DEF Draws
  <2>2. thread.by \in Callers /\ drawing \in Drawings /\ new \in Drawings
    <3>1. thread.lines \in 0 .. MaxConfig
      BY DEF TypeOK, Thread
    <3>2. QED
      BY <1>9, <3>1, ScanTypes, DataTypes DEF TypeOK, Draws, CallersOK
  <2>3. new.generation <= generation
    BY Numbers, SMT DEF Drawing
  <2>4. drawing # NoDrawing => drawing.generation <= generation
    BY DEF DrawingsRight, Right
  <2> HIDE DEF new
  <2>5. UNCHANGED <<alive, sourceGeneration, generation>>
    BY <1>9 DEF Draws
  <2>6. CASE Replies(thread.by, drawing) /\ drawing # NoDrawing
    BY <1>2, <2>1, <2>2, <2>4, <2>5, <2>6, OrderOfAnswers
  <2>7. CASE Replies(thread.by, new)
    BY <1>2, <2>1, <2>2, <2>3, <2>5, <2>7, OrderOfAnswers
  <2>8. QED
    BY <1>9, <2>6, <2>7 DEF Draws, new
<1>10. CASE TakesReply
  <2> DEFINE to == Head(replies).to
             d == Head(replies).drawing
  <2>1. InOrderNext /\ sourceGeneration <= sourceGeneration' /\ server' = server
    BY <1>2, <1>10, OrderOfTaking DEF TakesReply
  <2>2. Head(replies) = replies[1] /\ 1 \in DOMAIN replies
    BY <1>10, Taken DEF TakesReply, TypeOK
  <2>3. sourceGeneration' \in Int /\ sourceGeneration \in Int
    BY SMT DEF TypeOK
  <2>4. ASSUME NEW p \in Pages, page'[p].at \in {"polling", "asking", "drawing"},
               page'[p].from = server'
        PROVE  page'[p].gen <= sourceGeneration'
    <3>1. CASE page'[p] = page[p]
      <4>1. page[p].gen <= sourceGeneration /\ page[p].gen \in Int
        BY <1>2, <2>1, <2>4, <3>1, Generations DEF NoticeComesFirst, Knows
      <4>2. QED
        BY <2>1, <2>3, <3>1, <4>1, SMT
    <3>2. CASE page'[p] = Answered(page[p], d) /\ to \in Pages
      <4>1. Announced(d.generation, 1)
        BY <1>2, <2>2, <3>2 DEF InOrder
      <4>2. d.generation <= sourceGeneration
        <5>1. \A j \in 1 .. 1 : j = 1
          BY SMT
        <5>2. replies[1].to # Changed
          BY <2>2, <3>2 DEF Changed
        <5>3. QED
          BY <4>1, <5>1, <5>2 DEF Announced
      <4>3. d.generation \in Int /\ d.generation <= sourceGeneration'
        BY <2>1, <2>2, <2>3, <4>2, Generations, SMT
      <4>4. page[p] \in Page
        BY DEF TypeOK
      <4> HIDE DEF to, d
      <4>5. page'[p].gen = d.generation
            \/ (page'[p].gen = page[p].gen /\ page'[p].from = page[p].from
                /\ page[p].at \in {"polling", "asking", "drawing"})
        BY <2>4, <3>2, <4>4 DEF Answered, Page
      <4>6. CASE page'[p].gen = d.generation
        BY <4>3, <4>6
      <4>7. CASE page'[p].gen = page[p].gen /\ page'[p].from = page[p].from
                 /\ page[p].at \in {"polling", "asking", "drawing"}
        <5>1. page[p].gen <= sourceGeneration /\ page[p].gen \in Int
          BY <1>2, <2>1, <2>4, <4>7, Generations DEF NoticeComesFirst, Knows
        <5>2. QED
          BY <2>1, <2>3, <4>7, <5>1, SMT
      <4>8. QED
        BY <4>5, <4>6, <4>7
    <3>3. QED
      BY <1>10, <3>1, <3>2 DEF TakesReply, TypeOK
  <2>5. QED
    BY <2>1, <2>4
<1>11. CASE WorkerEnded
  <2>1. /\ UNCHANGED <<server, sourceGeneration, generation, thread>>
        /\ ~alive' /\ replies' = <<>> /\ thread.at = "ended"
    BY <1>11 DEF WorkerEnded
  <2>2. InOrderNext
    <3>1. DOMAIN replies' = {}
      BY <2>1
    <3>2. QED
      BY <1>2, <2>1, <3>1 DEF InOrder, InOrderNext
  <2>3. ASSUME NEW p \in Pages, page'[p].at \in {"polling", "asking", "drawing"}
        PROVE  page[p].at \in {"polling", "asking", "drawing"} /\ page'[p].from = page[p].from
                 /\ page'[p].gen = page[p].gen
    <3>1. page[p] \in Page /\ page'[p] = Failed(page[p])
      BY <1>11 DEF WorkerEnded, TypeOK
    <3>2. QED
      BY <2>3, <3>1 DEF Failed, Away, Page
  <2>4. QED
    BY <1>2, <2>1, <2>2, <2>3 DEF NoticeComesFirst, Knows
<1>12. CASE Restarts
  <2>1. \A p \in Pages : page'[p].from # server'
    BY <1>12, PagesStale
  <2>2. sourceGeneration' = 0 /\ generation' = 0 /\ alive' /\ DOMAIN replies' = {}
    BY <1>12 DEF Restarts, FreshWorker
  <2>3. InOrderNext
    BY <2>2 DEF InOrderNext, AnnouncedNext
  <2>4. QED
    BY <2>1, <2>3
<1>13. ASSUME NEW q \in Pages, PageActs(q)
       PROVE  InOrderNext /\ Known
  <2>1. UNCHANGED <<replies, sourceGeneration, generation, alive, thread, server>>
    BY <1>13 DEF PageActs, Opens, Notices, Asks, RenewsToken, Refused
  <2>2. ASSUME NEW p \in Pages, page'[p].at \in {"polling", "asking", "drawing"},
               page'[p].from = server'
        PROVE  page'[p].gen <= sourceGeneration'
    <3>1. page[p] \in Page /\ page \in [Pages -> Page] /\ page[p].gen \in Int
      BY Generations DEF TypeOK
    <3>2. CASE page[p].at \in {"polling", "asking", "drawing"} /\ page[p].from = server
                 /\ page'[p].gen = page[p].gen
      BY <1>2, <2>1, <3>2 DEF NoticeComesFirst, Knows
    <3>3. CASE page'[p].gen = -1
      BY <2>1, <3>3, Numbers, SMT
    <3>4. CASE p # q
      <4>1. page'[p] = page[p]
        BY <1>13, <3>1, <3>4 DEF PageActs, Opens, Notices, Asks, RenewsToken, Refused
      <4>2. QED
        BY <2>1, <2>2, <3>2, <4>1
    <3>5. CASE p = q
      <4>1. CASE Opens(q)
        BY <2>2, <3>1, <3>5, <4>1 DEF Opens
      <4>2. CASE Notices(q)
        BY <2>2, <3>1, <3>2, <3>5, <4>2 DEF Notices, Page
      <4>3. CASE Asks(q)
        BY <2>2, <3>1, <3>2, <3>5, <4>3 DEF Asks, Page
      <4>4. CASE Refused(q)
        <5>1. CASE page[q].at = "asking"
          <6>1. page'[q] = [page[q] EXCEPT !.at = "polling"]
            BY <3>1, <4>4, <5>1 DEF Refused
          <6>2. QED
            BY <3>1, <3>2, <3>5, <5>1, <6>1, <2>1, <2>2 DEF Page
        <5>2. CASE page[q].at # "asking"
          BY <3>1, <3>3, <3>5, <4>4, <5>2 DEF Refused, Page
        <5>3. QED
          BY <5>1, <5>2
      <4>5. CASE RenewsToken(q)
        BY <2>1, <2>2, <3>1, <3>2, <3>5, <4>5 DEF RenewsToken, Page
      <4>6. QED
        BY <1>13, <4>1, <4>2, <4>3, <4>4, <4>5 DEF PageActs
    <3>6. QED
      BY <3>4, <3>5
  <2>3. QED
    BY <1>3, <2>1, <2>2
<1>14. QED
  BY <1>6, <1>7, <1>8, <1>9, <1>10, <1>11, <1>12, <1>13 DEF Next, Works

-----------------------------------------------------------------------------
(* The theorems.                                                           *)

LEMMA InitInv == Init => IInv
<1> SUFFICES ASSUME Init PROVE IInv
  OBVIOUS
<1>1. TypeOK
  BY InitTypes
<1>2. /\ config = 1 /\ source = 1 /\ server = 1 /\ sourceGeneration = 0 /\ generation = 0 /\ alive
      /\ DOMAIN requests = {} /\ DOMAIN replies = {} /\ thread.at = "boot"
      /\ commands = 0 /\ fingerprint = Unread /\ tree = Unread /\ drawing = NoDrawing
  BY DEF Init, Idle, Nothing
<1>3. \A p \in Pages : page[p].at = "away" /\ page[p].from = 0 /\ page[p].gen = -1
  BY DEF Init, Away
<1>4. LooksBack /\ CallersOK /\ TreeRight
  BY <1>2, SMT DEF LooksBack, CallersOK, TreeRight
<1>5. DrawingsRight
  BY <1>2, <1>3, SMT DEF DrawingsRight
<1>6. NoticesInOrder
  BY <1>2, <1>3, SMT DEF NoticesInOrder, Announced, NoticeComesFirst, Knows
<1>7. QED
  BY <1>1, <1>4, <1>5, <1>6 DEF IInv

LEMMA Inductive == IInv /\ [Next]_vars => IInv'
<1> SUFFICES ASSUME IInv, [Next]_vars PROVE IInv'
  OBVIOUS
<1>1. CASE Next
  <2>1. TypeOK'
    BY <1>1, ProjectTypes, WorkerTypes, ServerTypes, CallerTypes DEF Next, IInv
  <2>2. CallersOK' /\ LooksBack' /\ TreeRight'
    BY <1>1, <2>1, CallersKept, LooksKept DEF IInv
  <2>3. DrawingsRight' /\ NoticesInOrder'
    BY <1>1, <2>1, DrawingsKept, NoticesKept DEF IInv
  <2>4. QED
    BY <2>1, <2>2, <2>3 DEF IInv
<1>2. CASE UNCHANGED vars
  BY <1>2 DEF IInv, TypeOK, LooksBack, CallersOK, TreeRight, LookedLast, DrawingsRight, Right,
    Current, NoticesInOrder, Announced, NoticeComesFirst, Knows
<1>3. QED
  BY <1>1, <1>2

\* A page with the newest generation, after a look that found the project as it
\* is, shows it.
LEMMA NewestFromInv == IInv => NewestIsCurrent
BY DEF IInv, TypeOK, DrawingsRight, Right, LookedLast, NewestIsCurrent, Knows

\* The invariant of all that follows.
THEOREM Invariance == Spec => []IInv
BY InitInv, Inductive, PTL DEF Spec

\* The variables hold what the code's variables may hold.
THEOREM Typing == Spec => []TypeOK
<1>1. IInv => TypeOK
  BY DEF IInv
<1>2. QED
  BY <1>1, Invariance, PTL

\* A drawing with the newest generation is of the project as the worker's last
\* look found it, whatever was read before and after (graph.janet 63-108).
THEOREM NewestDrawings == Spec => []NewestIsCurrent
BY NewestFromInv, Invariance, PTL

\* No drawing overtakes the notice of its generation (graph.janet 76, 151-158).
THEOREM NoticesFirst == Spec => []NoticeComesFirst
<1>1. IInv => NoticeComesFirst
  BY DEF IInv, NoticesInOrder
<1>2. QED
  BY <1>1, Invariance, PTL

=============================================================================
