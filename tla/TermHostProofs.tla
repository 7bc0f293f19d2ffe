---------------------------- MODULE TermHostProofs --------------------------
(***************************************************************************)
(* What TLC checks of TermHost on a small instance holds for any number of *)
(* connections, sessions, descriptors and chunks: first every step keeps   *)
(* the type invariant, then IInv is inductive.  Most steps touch neither   *)
(* the session, the starts under way nor the descriptors (Quiet); the four *)
(* that do are a start, its end, a stop and forkpty.                       *)
(***************************************************************************)
EXTENDS TermHost, SequenceTheorems, TLAPS

USE DEF fiberVars, drainVars, sessionVars, screenVars, sizeVars, threadVars,
        ptyVars, ResetScreen, Superseded, Discard, More, OpenFails
-----------------------------------------------------------------------------
(* Type correctness.                                                       *)

\* A flush keeps a prefix's rest in the queue and records who got the prefix
\* (flush-unsent, host.janet 88-98).
LEMMA FlushType ==
  ASSUME TypeOK, NEW queue \in Seq(Typed), NEW ended \in BOOLEAN,
         Flush(queue, ended)
  PROVE  /\ unsent' \in Seq(Typed)
         /\ delivered' \subseteq (Typed \X Gens)
<1>1. CASE session # 0 /\ ~ended
  <2>1. PICK k \in 0 .. Len(queue) :
          /\ unsent' = SubSeq(queue, k + 1, Len(queue))
          /\ delivered' = delivered \cup {<<queue[i], session>> : i \in 1 .. k}
    BY <1>1 DEF Flush
  <2>2. \A i \in k + 1 .. Len(queue) : queue[i] \in Typed
    OBVIOUS
  <2>3. SubSeq(queue, k + 1, Len(queue)) \in Seq(Typed)
    BY <2>2, SubSeqProperties
  <2>4. session \in Gens
    BY <1>1, HostAssumption DEF TypeOK, SessionTypes, Gens
  <2>5. \A i \in 1 .. k : queue[i] \in Typed
    OBVIOUS
  <2>6. QED
    BY <2>1, <2>3, <2>4, <2>5 DEF TypeOK, ScreenTypes
<1>2. CASE ~(session # 0 /\ ~ended)
  BY <1>2 DEF Flush, TypeOK, ScreenTypes
<1>3. QED
  BY <1>1, <1>2

\* drain's (ev/take output) and the writer it wakes (66-75).
LEMMA TakeType ==
  ASSUME TypeOK, NEW out \in Gens, NEW f \in Fibers, NEW count \in 0 .. Burst,
         NEW th \in [Gens -> Phases],
         chan[out] # <<>>, TakeFrom(out, f, count, th)
  PROVE  /\ drainer' \in Fibers /\ drained' \in 0 .. Burst /\ taken' \in Item
         /\ pc' \in [Fibers -> {"idle", "ready", "drain"}]
         /\ chan' \in [Gens -> Seq(Item)]
         /\ thread' \in [Gens -> Phases]
<1>1. chan[out] \in Seq(Item)
  BY DEF TypeOK, ThreadTypes
<1>2. Head(chan[out]) \in Item /\ Tail(chan[out]) \in Seq(Item)
  BY <1>1, HeadTailProperties
<1>3. WakeWriter(th, out) \in [Gens -> Phases]
  BY DEF WakeWriter, Woken, Phases
<1>4. chan' \in [Gens -> Seq(Item)]
  BY <1>2 DEF TakeFrom, TypeOK, ThreadTypes
<1>5. pc' \in [Fibers -> {"idle", "ready", "drain"}]
  BY DEF TakeFrom, TypeOK, FiberTypes
<1>6. QED
  BY <1>2, <1>3, <1>4, <1>5 DEF TakeFrom

\* Closing a PTY only frees a descriptor and kills a child (pty.janet 97-103).
LEMMA CloseType ==
  ASSUME TypeOK, NEW g \in Gens, PtyClose(g)
  PROVE  /\ alive' \in [Gens -> BOOLEAN]
         /\ fdTable' \in [Fds -> 0 .. MaxStarts]
BY HostAssumption DEF PtyClose, TypeOK, PtyTypes

LEMMA WakeType ==
  ASSUME NEW th \in [Gens -> Phases], NEW g
  PROVE  WakeWriter(th, g) \in [Gens -> Phases]
BY DEF WakeWriter, Woken, Phases

LEMMA CloseChanType ==
  ASSUME NEW c \in [Gens -> BOOLEAN], NEW g
  PROVE  CloseChan(c, g) \in [Gens -> BOOLEAN]
BY DEF CloseChan

LEMMA SessionStartType ==
  ASSUME TypeOK, NEW f \in Conns, NEW size \in Sizes, SessionStart(f, size)
  PROVE  TypeOK'
<1> USE HostAssumption
<1>1. generation + 1 \in Gens /\ f \in Fibers
  BY DEF SessionStart, TypeOK, SessionTypes, Gens, Fibers
<1>2. SessionTypes'
  BY <1>1 DEF SessionStart, TypeOK, SessionTypes
<1>8. FlagTypes'
  BY DEF SessionStart, FlagTypes
<1>3. ScreenTypes'
  BY DEF SessionStart, TypeOK, ScreenTypes
<1>4. FiberTypes'
  BY <1>1 DEF SessionStart, TypeOK, FiberTypes, SessionTypes, drainVars
<1>5. ThreadTypes'
  <2>1. WakeWriter(thread, output) \in [Gens -> Phases]
    BY WakeType DEF TypeOK, ThreadTypes
  <2>2. thread' \in [Gens -> Phases]
    BY <2>1 DEF SessionStart, Phases
  <2>3. closed' \in [Gens -> BOOLEAN]
    BY CloseChanType DEF SessionStart, TypeOK, ThreadTypes
  <2>4. QED
    BY <2>2, <2>3 DEF SessionStart, TypeOK, ThreadTypes
<1>6. PtyTypes'
  <2>1. session # 0 => session \in Gens
    BY DEF TypeOK, SessionTypes, Gens
  <2>2. alive' \in [Gens -> BOOLEAN] /\ fdTable' \in [Fds -> 0 .. MaxStarts]
    BY <2>1, CloseType DEF SessionStart, TypeOK, PtyTypes
  <2>3. QED
    BY <2>2 DEF SessionStart, TypeOK, PtyTypes
<1>7. QED
  BY <1>2, <1>3, <1>4, <1>5, <1>6, <1>8 DEF TypeOK

\* What session-stop changes (246-259), apart from the blocked writer.
LEMMA StopType ==
  ASSUME TypeOK, NEW ended \in BOOLEAN, Stop(ended)
  PROVE  /\ lifecycle' \in Nat
         /\ session' \in 0 .. MaxStarts /\ output' \in 0 .. MaxStarts
         /\ starting' \in BOOLEAN
         /\ exited' \in BOOLEAN
         /\ closed' \in [Gens -> BOOLEAN]
         /\ alive' \in [Gens -> BOOLEAN]
         /\ fdTable' \in [Fds -> 0 .. MaxStarts]
<1> USE HostAssumption
<1>1. session # 0 => session \in Gens
  BY DEF TypeOK, SessionTypes, Gens
<1>2. closed' \in [Gens -> BOOLEAN]
  BY CloseChanType DEF Stop, TypeOK, ThreadTypes
<1>3. alive' \in [Gens -> BOOLEAN] /\ fdTable' \in [Fds -> 0 .. MaxStarts]
  BY <1>1, CloseType DEF Stop, TypeOK, PtyTypes
<1>4. exited' \in BOOLEAN
  BY DEF Stop
<1>5. starting' \in BOOLEAN
  BY DEF Stop
<1>6. /\ lifecycle' \in Nat
      /\ session' \in 0 .. MaxStarts /\ output' \in 0 .. MaxStarts
  BY DEF Stop, TypeOK, SessionTypes
<1>7. QED
  BY <1>2, <1>3, <1>4, <1>5, <1>6

\* What session-resize changes (269-288).
LEMMA ResizeType ==
  ASSUME TypeOK, NEW size \in Sizes, NEW broken \in BOOLEAN, Resize(size, broken)
  PROVE  /\ fault' \in BOOLEAN
         /\ rows' \in Sizes /\ emuRows' \in Sizes
         /\ ptyRows' \in [Gens -> Sizes]
<1>1. fault' \in BOOLEAN
  BY DEF Resize
<1>2. rows' \in Sizes /\ emuRows' \in Sizes /\ ptyRows' \in [Gens -> Sizes]
  BY DEF Resize, TypeOK, ScreenTypes
<1>3. QED
  BY <1>1, <1>2

\* A chunk joins what the emulator was fed and its reply joins the input (77-86).
LEMMA FeedType ==
  ASSUME TypeOK, drainer # NoFiber, NEW answer
  PROVE  /\ Fed \in Seq(Gens) /\ Answered(answer) \in Seq(Typed)
         /\ Ended \in BOOLEAN
<1>1. taken \in Item
  BY DEF TypeOK, FiberTypes
<1>2. taken.from \in Gens
  BY <1>1 DEF Item
<1>3. Fed \in Seq(Gens)
  BY <1>2 DEF Fed, TypeOK, ScreenTypes
<1>4. [for |-> taken.from, answer |-> TRUE] \in Typed
  BY <1>2 DEF Typed
<1>5. Answered(answer) \in Seq(Typed)
  BY <1>4 DEF Answered, TypeOK, ScreenTypes
<1>6. Ended \in BOOLEAN
  BY DEF Ended
<1>7. QED
  BY <1>3, <1>5, <1>6

LEMMA AnswerType ==
  ASSUME TypeOK, NEW f \in Fibers, Answer(f), LeaveDrain
  PROVE  /\ pc' \in [Fibers -> {"idle", "ready", "drain"}]
         /\ op' \in [Fibers -> {"none", "start", "stop", "resize", "look", "keep"}]
         /\ version' \in [Fibers -> Nat] /\ mine' \in [Fibers -> 0 .. MaxStarts]
         /\ drainer' = NoFiber /\ drained' \in 0 .. Burst
         /\ taken' \in Item \cup {NoItem}
BY HostAssumption DEF Answer, LeaveDrain, TypeOK, FiberTypes, NoItem

LEMMA RequestTypes ==
  ASSUME TypeOK, SessionOwnsPty, NEW f \in Conns, NEW size \in Sizes,
         \/ SessionResize(f, size)
         \/ SessionStop(f)
         \/ SessionSend(f)
         \/ \E o \in {"stop", "resize", "look"} : RequestDrains(f, o, size)
  PROVE  TypeOK'
<1> f \in Fibers
  BY DEF Fibers
<1> USE HostAssumption
<1>1. CASE SessionResize(f, size)
  <2>1. fault \in BOOLEAN
    BY DEF TypeOK, FlagTypes
  <2>2. /\ fault' \in BOOLEAN
        /\ rows' \in Sizes /\ emuRows' \in Sizes
        /\ ptyRows' \in [Gens -> Sizes]
    BY <1>1, <2>1, ResizeType DEF SessionResize
  <2>3. ScreenTypes'
    BY <1>1, <2>2 DEF SessionResize, TypeOK, ScreenTypes
  <2>4. FlagTypes'
    BY <1>1, <2>2 DEF SessionResize, TypeOK, FlagTypes
  <2>5. SessionTypes' /\ FiberTypes' /\ ThreadTypes' /\ PtyTypes'
    BY <1>1 DEF SessionResize, TypeOK, SessionTypes, FiberTypes, ThreadTypes,
                PtyTypes
  <2>6. QED
    BY <2>3, <2>4, <2>5 DEF TypeOK
<1>2. CASE SessionStop(f)
  <2>1. exited \in BOOLEAN /\ fault \in BOOLEAN
    BY DEF TypeOK, FlagTypes
  <2>2. /\ lifecycle' \in Nat
        /\ session' \in 0 .. MaxStarts /\ output' \in 0 .. MaxStarts
        /\ starting' \in BOOLEAN /\ exited' \in BOOLEAN
        /\ closed' \in [Gens -> BOOLEAN]
        /\ alive' \in [Gens -> BOOLEAN]
        /\ fdTable' \in [Fds -> 0 .. MaxStarts]
    BY <1>2, <2>1, StopType DEF SessionStop
  <2>3. thread' \in [Gens -> Phases]
    BY <1>2, WakeType DEF SessionStop, TypeOK, ThreadTypes
  <2>4. SessionTypes'
    BY <1>2, <2>2 DEF SessionStop, TypeOK, SessionTypes
  <2>5. FlagTypes'
    BY <1>2, <2>1, <2>2 DEF SessionStop, FlagTypes
  <2>6. ScreenTypes' /\ FiberTypes'
    BY <1>2 DEF SessionStop, TypeOK, ScreenTypes, FiberTypes
  <2>7. ThreadTypes' /\ PtyTypes'
    BY <1>2, <2>2, <2>3 DEF SessionStop, TypeOK, ThreadTypes, PtyTypes
  <2>8. QED
    BY <2>4, <2>5, <2>6, <2>7 DEF TypeOK
<1>3. CASE SessionSend(f)
  <2>1. [for |-> generation, answer |-> FALSE] \in Typed
    BY <1>3 DEF SessionSend, TypeOK, SessionTypes, SessionOwnsPty, Typed, Gens
  <2>2. Append(unsent, [for |-> generation, answer |-> FALSE]) \in Seq(Typed)
    BY <2>1 DEF TypeOK, ScreenTypes
  <2>3. exited \in BOOLEAN
    BY DEF TypeOK, FlagTypes
  <2>4. unsent' \in Seq(Typed) /\ delivered' \subseteq (Typed \X Gens)
    BY <1>3, <2>2, <2>3, FlushType DEF SessionSend
  <2>5. ScreenTypes'
    BY <1>3, <2>4 DEF SessionSend, TypeOK, ScreenTypes
  <2>6. SessionTypes' /\ FiberTypes' /\ ThreadTypes' /\ PtyTypes'
    BY <1>3 DEF SessionSend, TypeOK, SessionTypes, FiberTypes, ThreadTypes,
                PtyTypes
  <2>7. FlagTypes'
    BY <1>3 DEF SessionSend, TypeOK, FlagTypes
  <2>8. QED
    BY <2>5, <2>6, <2>7 DEF TypeOK
<1>4. ASSUME NEW o \in {"stop", "resize", "look"}, RequestDrains(f, o, size)
      PROVE  TypeOK'
  <2>1. output \in Gens /\ thread \in [Gens -> Phases] /\ chan[output] # <<>>
    BY <1>4 DEF RequestDrains, CanDrain, TypeOK, SessionTypes, ThreadTypes, Gens
  <2>2. /\ drainer' \in Fibers /\ drained' \in 0 .. Burst /\ taken' \in Item
        /\ pc' \in [Fibers -> {"idle", "ready", "drain"}]
        /\ chan' \in [Gens -> Seq(Item)]
        /\ thread' \in [Gens -> Phases]
    BY <1>4, <2>1, TakeType, HostAssumption DEF RequestDrains
  <2>3. SessionTypes' /\ ScreenTypes' /\ PtyTypes'
    BY <1>4 DEF RequestDrains, TypeOK, SessionTypes, ScreenTypes, PtyTypes
  <2>4. FlagTypes'
    BY <1>4 DEF RequestDrains, TypeOK, FlagTypes
  <2>5. FiberTypes'
    BY <1>4, <2>2 DEF RequestDrains, TypeOK, FiberTypes
  <2>6. ThreadTypes'
    BY <1>4, <2>2 DEF RequestDrains, TypeOK, ThreadTypes
  <2>7. QED
    BY <2>3, <2>4, <2>5, <2>6 DEF TypeOK
<1>5. QED
  BY <1>1, <1>2, <1>3, <1>4

LEMMA ThreadStepTypes ==
  ASSUME TypeOK, ThreadsOK, NEW g \in Gens,
         \/ ReadCall(g) \/ ReadChunk(g) \/ ReadEnds(g) \/ GiveEof(g)
         \/ ChildWrites(g) \/ ChildExits(g)
  PROVE  TypeOK'
<1> USE HostAssumption
<1>1. SessionTypes' /\ ScreenTypes' /\ FiberTypes'
  BY DEF ReadCall, ReadChunk, ReadEnds, GiveEof, ChildWrites, ChildExits,
         TypeOK, SessionTypes, ScreenTypes, FiberTypes
<1>2. FlagTypes'
  BY DEF ReadCall, ReadChunk, ReadEnds, GiveEof, ChildWrites, ChildExits,
         TypeOK, FlagTypes
<1>3. PtyTypes'
  <2>1. thread[g] = "read" => source[g] \in Gens
    BY DEF ThreadsOK
  <2>2. CASE ReadChunk(g)
    BY <2>1, <2>2 DEF ReadChunk, TypeOK, PtyTypes
  <2>3. CASE ReadCall(g) \/ ReadEnds(g) \/ GiveEof(g)
    BY <2>3 DEF ReadCall, ReadEnds, GiveEof, TypeOK, PtyTypes
  <2>4. CASE ChildWrites(g)
    BY <2>4 DEF ChildWrites, TypeOK, PtyTypes
  <2>5. CASE ChildExits(g)
    BY <2>5 DEF ChildExits, TypeOK, PtyTypes
  <2>6. QED
    BY <2>2, <2>3, <2>4, <2>5
<1>4. ThreadTypes'
  <2>1. CASE ReadCall(g)
    <3>1. fdTable[fd[g]] \in 0 .. MaxStarts
      BY <2>1 DEF ReadCall, ThreadsOK, TypeOK, PtyTypes
    <3>2. QED
      BY <2>1, <3>1 DEF ReadCall, TypeOK, ThreadTypes, Phases
  <2>2. CASE ReadChunk(g)
    <3>1. [from |-> source[g], eof |-> FALSE] \in Item
      BY <2>2 DEF ReadChunk, ThreadsOK, Item
    <3>5. Append(chan[g], [from |-> source[g], eof |-> FALSE]) \in Seq(Item)
      BY <3>1 DEF TypeOK, ThreadTypes
    <3>2. chan' \in [Gens -> Seq(Item)]
      BY <2>2, <3>5 DEF ReadChunk, TypeOK, ThreadTypes
    <3>3. thread' \in [Gens -> Phases] /\ source' \in [Gens -> 0 .. MaxStarts]
      BY <2>2 DEF ReadChunk, TypeOK, ThreadTypes, Phases
    <3>4. QED
      BY <2>2, <3>2, <3>3 DEF ReadChunk, TypeOK, ThreadTypes
  <2>3. CASE GiveEof(g)
    <3>1. [from |-> g, eof |-> TRUE] \in Item
      BY DEF Item
    <3>2. chan' \in [Gens -> Seq(Item)]
      BY <2>3, <3>1 DEF GiveEof, TypeOK, ThreadTypes
    <3>3. QED
      BY <2>3, <3>2 DEF GiveEof, TypeOK, ThreadTypes, Phases
  <2>4. CASE ReadEnds(g)
    BY <2>4 DEF ReadEnds, TypeOK, ThreadTypes, Phases
  <2>5. CASE ChildWrites(g) \/ ChildExits(g)
    BY <2>5 DEF ChildWrites, ChildExits, TypeOK, ThreadTypes
  <2>6. QED
    BY <2>1, <2>2, <2>3, <2>4, <2>5
<1>5. QED
  BY <1>1, <1>2, <1>3, <1>4 DEF TypeOK

\* Entering drain, or answering at once, keeps the fiber and channel types.
LEMMA EnterType ==
  ASSUME TypeOK, NEW f \in Fibers, NEW out \in 0 .. MaxStarts,
         NEW th \in [Gens -> Phases], EnterDrain(out, f, th)
  PROVE  /\ pc' \in [Fibers -> {"idle", "ready", "drain"}]
         /\ op' \in [Fibers -> {"none", "start", "stop", "resize", "look", "keep"}]
         /\ version' \in [Fibers -> Nat] /\ mine' \in [Fibers -> 0 .. MaxStarts]
         /\ drainer' \in Fibers \cup {NoFiber} /\ drained' \in 0 .. Burst
         /\ drainer' # NoFiber => taken' \in Item
         /\ chan' \in [Gens -> Seq(Item)]
         /\ thread' \in [Gens -> Phases]
<1> USE HostAssumption
<1>1. CASE CanDrain(out) /\ TakeFrom(out, f, 1, th) /\ UNCHANGED <<op, version, mine>>
  <2>1. out \in Gens /\ chan[out] # <<>>
    BY <1>1 DEF CanDrain, Gens
  <2>2. 1 \in 0 .. Burst /\ TakeFrom(out, f, 1, th)
    BY <1>1
  <2>3. /\ drainer' \in Fibers /\ drained' \in 0 .. Burst /\ taken' \in Item
        /\ pc' \in [Fibers -> {"idle", "ready", "drain"}]
        /\ chan' \in [Gens -> Seq(Item)]
        /\ thread' \in [Gens -> Phases]
    BY <2>1, <2>2, TakeType
  <2>4. /\ op' \in [Fibers -> {"none", "start", "stop", "resize", "look", "keep"}]
        /\ version' \in [Fibers -> Nat] /\ mine' \in [Fibers -> 0 .. MaxStarts]
    BY <1>1 DEF TypeOK, FiberTypes
  <2>5. QED
    BY <2>3, <2>4
<1>2. CASE /\ ~CanDrain(out) /\ thread' = th /\ Answer(f)
           /\ UNCHANGED <<drainVars, chan>>
  <2>1. UNCHANGED <<drainer, taken, drained, chan>> /\ thread' = th
    BY <1>2
  <2>2. /\ pc' \in [Fibers -> {"idle", "ready", "drain"}]
        /\ op' \in [Fibers -> {"none", "start", "stop", "resize", "look", "keep"}]
    BY <1>2 DEF Answer, TypeOK, FiberTypes
  <2>3. version' \in [Fibers -> Nat] /\ mine' \in [Fibers -> 0 .. MaxStarts]
    BY <1>2 DEF Answer, TypeOK, FiberTypes
  <2>4. QED
    BY <2>1, <2>2, <2>3 DEF TypeOK, FiberTypes, ThreadTypes
<1>3. QED
  BY <1>1, <1>2 DEF EnterDrain

LEMMA StartResumesType ==
  ASSUME TypeOK, StartersOK, NEW f \in Conns, StartResumes(f)
  PROVE  TypeOK'
<1> USE HostAssumption
<1>1. f \in Fibers /\ mine[f] \in Gens
  BY DEF StartResumes, StartersOK, TypeOK, SessionTypes, Fibers, Gens
<1>2. /\ output' \in 0 .. MaxStarts /\ session' \in 0 .. MaxStarts
      /\ alive' \in [Gens -> BOOLEAN] /\ fdTable' \in [Fds -> 0 .. MaxStarts]
      /\ closed' \in [Gens -> BOOLEAN]
  <2>1. CASE version[f] # lifecycle
    <3>1. closed' \in [Gens -> BOOLEAN]
      <4>1. closed' = CloseChan(closed, mine[f])
        BY <2>1 DEF StartResumes
      <4>2. closed \in [Gens -> BOOLEAN]
        BY DEF TypeOK, ThreadTypes
      <4>3. QED
        BY <4>1, <4>2, CloseChanType
    <3>2. alive' \in [Gens -> BOOLEAN] /\ fdTable' \in [Fds -> 0 .. MaxStarts]
      BY <2>1, <1>1, CloseType DEF StartResumes, TypeOK, PtyTypes
    <3>3. QED
      BY <2>1, <3>1, <3>2 DEF StartResumes, TypeOK, SessionTypes
  <2>2. CASE version[f] = lifecycle
    <3>1. UNCHANGED <<alive, fdTable, closed>>
      BY <2>2 DEF StartResumes
    <3>2. session' \in 0 .. MaxStarts /\ output' \in 0 .. MaxStarts
      <4>1. session' \in {mine[f], 0} /\ output' = session'
        BY <2>2 DEF StartResumes
      <4>2. QED
        BY <4>1, <1>1 DEF Gens
    <3>3. QED
      BY <3>1, <3>2 DEF TypeOK, ThreadTypes, PtyTypes
  <2>3. QED
    BY <2>1, <2>2
<1>3. PICK out \in 0 .. MaxStarts, th \in [Gens -> Phases] : EnterDrain(out, f, th)
  <2>1. WakeWriter(thread, mine[f]) \in [Gens -> Phases]
    BY WakeType DEF TypeOK, ThreadTypes
  <2>2. thread \in [Gens -> Phases] /\ output \in 0 .. MaxStarts
    BY DEF TypeOK, ThreadTypes, SessionTypes
  <2>3. \/ EnterDrain(output, f, WakeWriter(thread, mine[f]))
        \/ EnterDrain(output', f, thread)
    BY DEF StartResumes
  <2>4. QED
    BY <1>2, <2>1, <2>2, <2>3
<1>4. FlagTypes'
  BY DEF StartResumes, TypeOK, FlagTypes
<1>5. SessionTypes' /\ ScreenTypes'
  BY <1>2 DEF StartResumes, TypeOK, SessionTypes, ScreenTypes
<1>6. FiberTypes'
  BY <1>1, <1>3, EnterType DEF StartResumes, TypeOK, FiberTypes
<1>7. ThreadTypes' /\ PtyTypes'
  BY <1>1, <1>2, <1>3, EnterType DEF StartResumes, TypeOK, ThreadTypes, PtyTypes
<1>8. QED
  BY <1>4, <1>5, <1>6, <1>7 DEF TypeOK

LEMMA KeepDrainingType ==
  ASSUME TypeOK, KeepDraining
  PROVE  TypeOK'
<1>1. Keeper \in Fibers
  BY DEF Fibers
<1>2. SessionTypes' /\ PtyTypes'
  BY DEF KeepDraining, TypeOK, SessionTypes, PtyTypes
<1>3. FlagTypes'
  BY DEF KeepDraining, TypeOK, FlagTypes
<1>4. CASE /\ CanDrain(output) /\ TakeFrom(output, Keeper, 1, thread)
           /\ op' = [op EXCEPT ![Keeper] = "keep"]
           /\ UNCHANGED <<unsent, delivered>>
  <2>1. output \in Gens /\ thread \in [Gens -> Phases] /\ chan[output] # <<>>
    BY <1>4, HostAssumption DEF CanDrain, TypeOK, SessionTypes, ThreadTypes, Gens
  <2>0. 1 \in 0 .. Burst
    BY HostAssumption
  <2>2. /\ drainer' \in Fibers /\ drained' \in 0 .. Burst /\ taken' \in Item
        /\ pc' \in [Fibers -> {"idle", "ready", "drain"}]
        /\ chan' \in [Gens -> Seq(Item)]
        /\ thread' \in [Gens -> Phases]
    BY <1>1, <1>4, <2>0, <2>1, TakeType
  <2>3. FiberTypes' /\ ThreadTypes'
    BY <1>4, <2>2 DEF KeepDraining, TypeOK, FiberTypes, ThreadTypes
  <2>4. ScreenTypes'
    BY <1>4 DEF KeepDraining, TypeOK, ScreenTypes
  <2>5. QED
    BY <1>2, <1>3, <2>3, <2>4 DEF TypeOK
<1>5. CASE /\ ~CanDrain(output) /\ unsent # <<>> /\ Flush(unsent, exited)
           /\ UNCHANGED <<pc, op, drainVars, chan, thread>>
  <2>1. unsent \in Seq(Typed) /\ exited \in BOOLEAN
    BY DEF TypeOK, ScreenTypes, FlagTypes
  <2>2. unsent' \in Seq(Typed) /\ delivered' \subseteq (Typed \X Gens)
    BY <1>5, <2>1, FlushType
  <2>3. ScreenTypes'
    BY <2>2 DEF KeepDraining, TypeOK, ScreenTypes
  <2>4. FiberTypes' /\ ThreadTypes'
    BY <1>5 DEF KeepDraining, TypeOK, FiberTypes, ThreadTypes
  <2>5. QED
    BY <1>2, <1>3, <2>3, <2>4 DEF TypeOK
<1>6. QED
  BY <1>4, <1>5 DEF KeepDraining

\* drain after a yield takes the next item.
LEMMA DrainMoreType ==
  ASSUME TypeOK, OneDrainer, NEW f \in Fibers, DrainMore(f)
  PROVE  TypeOK'
<1>1. drainer # NoFiber /\ f \in Fibers
  BY HostAssumption DEF DrainMore, OneDrainer, Fibers
<1>2. output \in Gens /\ thread \in [Gens -> Phases] /\ chan[output] # <<>>
  BY HostAssumption DEF DrainMore, TypeOK, SessionTypes, ThreadTypes, Gens
<1>3. drained + 1 \in 0 .. Burst
  BY HostAssumption DEF DrainMore, TypeOK, FiberTypes
<1>4. /\ drainer' \in Fibers /\ drained' \in 0 .. Burst /\ taken' \in Item
      /\ pc' \in [Fibers -> {"idle", "ready", "drain"}]
      /\ chan' \in [Gens -> Seq(Item)]
      /\ thread' \in [Gens -> Phases]
  BY <1>2, <1>3, TakeType DEF DrainMore
<1>5. exited' = Ended /\ emulated' = Fed
  BY DEF DrainMore
<1>6. unsent' \in Seq(Typed)
  BY <1>1, FeedType DEF DrainMore, TypeOK, ScreenTypes
<1>7. ScreenTypes'
  BY <1>1, <1>5, <1>6, FeedType DEF DrainMore, TypeOK, ScreenTypes
<1>8. fault' \in BOOLEAN
  BY DEF DrainMore, TypeOK, FlagTypes
<1>9. FlagTypes'
  BY <1>1, <1>5, <1>8, FeedType DEF DrainMore, TypeOK, FlagTypes
<1>10. SessionTypes' /\ PtyTypes'
  BY DEF DrainMore, TypeOK, SessionTypes, PtyTypes
<1>11. FiberTypes' /\ ThreadTypes'
  BY <1>4 DEF DrainMore, TypeOK, FiberTypes, ThreadTypes
<1>12. QED
  BY <1>7, <1>9, <1>10, <1>11 DEF TypeOK

\* drain raises, its fiber answers.
LEMMA DrainRaisesType ==
  ASSUME TypeOK, OneDrainer, NEW f \in Fibers, DrainRaises(f)
  PROVE  TypeOK'
<1>1. drainer # NoFiber
  BY HostAssumption DEF DrainRaises, OneDrainer, Fibers
<1>2. exited' = Ended /\ emulated' = Fed /\ Answer(f) /\ LeaveDrain
  BY DEF DrainRaises
<1>3. unsent' \in Seq(Typed)
  BY <1>1, FeedType DEF DrainRaises, TypeOK, ScreenTypes
<1>4. ScreenTypes'
  BY <1>1, <1>2, <1>3, FeedType DEF DrainRaises, TypeOK, ScreenTypes
<1>5. fault' \in BOOLEAN
  BY DEF DrainRaises
<1>6. FlagTypes'
  BY <1>1, <1>2, <1>5, FeedType DEF DrainRaises, TypeOK, FlagTypes
<1>7. SessionTypes' /\ PtyTypes' /\ ThreadTypes'
  BY DEF DrainRaises, TypeOK, SessionTypes, PtyTypes, ThreadTypes
<1>8. FiberTypes'
  BY <1>2, AnswerType DEF DrainRaises, TypeOK, FiberTypes
<1>9. QED
  BY <1>4, <1>6, <1>7, <1>8 DEF TypeOK

\* drain returns and the request it served finishes.
LEMMA DrainDoneType ==
  ASSUME TypeOK, OneDrainer, NEW f \in Fibers, DrainDone(f)
  PROVE  TypeOK'
<1>1. drainer # NoFiber
  BY HostAssumption DEF DrainDone, OneDrainer, Fibers
<1>2. emulated' = Fed /\ Answer(f) /\ LeaveDrain
  BY DEF DrainDone
<1>3. Fed \in Seq(Gens) /\ Ended \in BOOLEAN /\ fault \in BOOLEAN
  BY <1>1, FeedType DEF TypeOK, FlagTypes
<1>4. asked[f] \in Sizes
  BY DEF TypeOK, FiberTypes
<1>5. FiberTypes'
  BY <1>2, AnswerType DEF DrainDone, TypeOK, FiberTypes
<1> DEFINE full(a) == Len(Answered(a)) > MaxUnsent
           queue(a) == IF full(a) THEN unsent ELSE Answered(a)
<1>6. ASSUME NEW a \in Answers PROVE queue(a) \in Seq(Typed)
  BY <1>1, FeedType DEF TypeOK, ScreenTypes
<1>7. ASSUME NEW a \in Answers,
             /\ op[f] \in {"start", "look", "keep"}
             /\ exited' = Ended
             /\ fault' = (fault \/ full(a))
             /\ IF op[f] = "start"
                THEN unsent' = queue(a) /\ UNCHANGED delivered
                ELSE Flush(queue(a), Ended)
             /\ UNCHANGED <<lifecycle, starting, session, output, closed,
                            alive, fdTable, thread, sizeVars>>
      PROVE  TypeOK'
  <2>1. unsent' \in Seq(Typed) /\ delivered' \subseteq (Typed \X Gens)
    BY <1>3, <1>6, <1>7, FlushType DEF TypeOK, ScreenTypes
  <2>2. ScreenTypes'
    BY <1>2, <1>3, <1>7, <2>1 DEF TypeOK, ScreenTypes
  <2>3. FlagTypes'
    BY <1>3, <1>7 DEF TypeOK, FlagTypes
  <2>4. SessionTypes' /\ ThreadTypes' /\ PtyTypes'
    BY <1>7 DEF DrainDone, TypeOK, SessionTypes, ThreadTypes, PtyTypes
  <2>5. QED
    BY <1>5, <2>2, <2>3, <2>4 DEF TypeOK
<1>8. ASSUME NEW a \in Answers,
             /\ Stop(Ended)
             /\ thread' = WakeWriter(thread, output)
             /\ fault' = (fault \/ full(a))
             /\ unsent' = queue(a)
             /\ UNCHANGED <<delivered, sizeVars>>
      PROVE  TypeOK'
  <2>1. /\ lifecycle' \in Nat
        /\ session' \in 0 .. MaxStarts /\ output' \in 0 .. MaxStarts
        /\ starting' \in BOOLEAN /\ exited' \in BOOLEAN
        /\ closed' \in [Gens -> BOOLEAN]
        /\ alive' \in [Gens -> BOOLEAN]
        /\ fdTable' \in [Fds -> 0 .. MaxStarts]
    BY <1>3, <1>8, StopType
  <2>2. thread' \in [Gens -> Phases]
    BY <1>8, WakeType DEF TypeOK, ThreadTypes
  <2>3. ScreenTypes'
    BY <1>2, <1>3, <1>6, <1>8 DEF TypeOK, ScreenTypes
  <2>4. fault' \in BOOLEAN
    BY <1>8
  <2>5. FlagTypes'
    BY <2>1, <2>4 DEF FlagTypes
  <2>6. SessionTypes' /\ ThreadTypes' /\ PtyTypes'
    BY <2>1, <2>2 DEF DrainDone, TypeOK, SessionTypes, ThreadTypes, PtyTypes
  <2>7. QED
    BY <1>5, <2>3, <2>5, <2>6 DEF TypeOK
<1>9. ASSUME NEW a \in Answers,
             /\ exited' = Ended
             /\ Resize(asked[f], fault \/ full(a))
             /\ unsent' = queue(a)
             /\ UNCHANGED <<lifecycle, starting, session, output, closed,
                            alive, fdTable, thread, delivered>>
      PROVE  TypeOK'
  <2>1. (fault \/ full(a)) \in BOOLEAN
    OBVIOUS
  <2>2. /\ fault' \in BOOLEAN
        /\ rows' \in Sizes /\ emuRows' \in Sizes
        /\ ptyRows' \in [Gens -> Sizes]
    BY <1>4, <1>9, <2>1, ResizeType
  <2>3. ScreenTypes'
    BY <1>2, <1>3, <1>6, <1>9, <2>2 DEF TypeOK, ScreenTypes
  <2>4. FlagTypes'
    BY <1>3, <1>9, <2>2 DEF TypeOK, FlagTypes
  <2>5. SessionTypes' /\ ThreadTypes' /\ PtyTypes'
    BY <1>9 DEF DrainDone, TypeOK, SessionTypes, ThreadTypes, PtyTypes
  <2>6. QED
    BY <1>5, <2>3, <2>4, <2>5 DEF TypeOK
<1>10. QED
  BY <1>7, <1>8, <1>9 DEF DrainDone

\* forkpty succeeds or fails (pty.janet 29-56, host.janet 212-230).
LEMMA PtyOpenType ==
  ASSUME TypeOK, NEW g \in Gens, PtyOpen(g)
  PROVE  TypeOK'
<1>1. SessionTypes' /\ FiberTypes'
  BY DEF PtyOpen, TypeOK, SessionTypes, FiberTypes
<1>2. FlagTypes'
  BY DEF PtyOpen, TypeOK, FlagTypes
<1>3. ThreadTypes'
  BY DEF PtyOpen, TypeOK, ThreadTypes, Phases
<1>4. PtyTypes'
  <2>1. g \in 0 .. MaxStarts /\ \A n \in Fds : n \in 0 .. FdCount
    BY HostAssumption DEF Gens, Fds
  <2>2. fdTable' \in [Fds -> 0 .. MaxStarts] /\ fd' \in [Gens -> 0 .. FdCount]
    BY <2>1 DEF PtyOpen, TypeOK, PtyTypes
  <2>3. alive' \in [Gens -> BOOLEAN]
    BY DEF PtyOpen, TypeOK, PtyTypes
  <2>4. QED
    BY <2>2, <2>3 DEF PtyOpen, TypeOK, PtyTypes
<1>5. ScreenTypes'
  <2>1. ptyRows' \in [Gens -> Sizes]
    BY DEF PtyOpen, TypeOK, ScreenTypes, FiberTypes, Fibers
  <2>2. QED
    BY <2>1 DEF PtyOpen, TypeOK, ScreenTypes
<1>6. QED
  BY <1>1, <1>2, <1>3, <1>4, <1>5 DEF TypeOK

LEMMA InitType == Init => TypeOK
<1> SUFFICES ASSUME Init PROVE TypeOK
  OBVIOUS
<1> USE HostAssumption
<1>1. SessionTypes
  BY DEF Init, SessionTypes
<1>2. FlagTypes
  BY DEF Init, FlagTypes
<1>3. ScreenTypes
  BY DEF Init, ScreenTypes
<1>4. FiberTypes
  BY DEF Init, FiberTypes
<1>5. ThreadTypes
  BY DEF Init, ThreadTypes, Phases
<1>6. PtyTypes
  BY DEF Init, PtyTypes
<1>7. QED
  BY <1>1, <1>2, <1>3, <1>4, <1>5, <1>6 DEF TypeOK

\* Types are kept by every step, given the parts of the invariant that say
\* who holds what.
LEMMA NextType ==
  ASSUME TypeOK, SessionOwnsPty, StartersOK, ThreadsOK, OneDrainer, [Next]_vars
  PROVE  TypeOK'
<1>1. CASE UNCHANGED vars
  <2>1. SessionTypes' /\ FiberTypes' /\ ThreadTypes'
    BY <1>1 DEF vars, TypeOK, SessionTypes, FiberTypes, ThreadTypes
  <2>2. FlagTypes'
    BY <1>1 DEF vars, TypeOK, FlagTypes
  <2>3. ScreenTypes' /\ PtyTypes'
    BY <1>1 DEF vars, TypeOK, ScreenTypes, PtyTypes
  <2>4. QED
    BY <2>1, <2>2, <2>3 DEF TypeOK
<1>2. ASSUME NEW f \in Conns,
             \/ \E size \in Sizes : SessionStart(f, size)
             \/ \E size \in Sizes : SessionResize(f, size)
             \/ SessionStop(f)
             \/ SessionSend(f)
             \/ \E o \in {"stop", "resize", "look"}, size \in Sizes :
                  RequestDrains(f, o, size)
             \/ StartResumes(f)
      PROVE  TypeOK'
  BY <1>2, SessionStartType, RequestTypes, StartResumesType, HostAssumption
<1>3. CASE KeepDraining
  BY <1>3, KeepDrainingType
<1>4. ASSUME NEW f \in Fibers, Drains(f) PROVE TypeOK'
  BY <1>4, DrainMoreType, DrainRaisesType, DrainDoneType DEF Drains
<1>5. ASSUME NEW g \in Gens,
             \/ PtyOpen(g)
             \/ ReadCall(g) \/ ReadChunk(g) \/ ReadEnds(g) \/ GiveEof(g)
             \/ ChildWrites(g) \/ ChildExits(g)
      PROVE  TypeOK'
  BY <1>5, PtyOpenType, ThreadStepTypes
<1>6. QED
  BY <1>1, <1>2, <1>3, <1>4, <1>5 DEF Next
-----------------------------------------------------------------------------
(* Sessions and their PTYs.                                                *)

Own ==
  /\ SessionOwnsPty /\ output = session
  /\ StartersOK /\ StartersDiffer /\ StartingHasStarter
  /\ ThreadsOK /\ FdsOK /\ NoLeakedPty

\* Fiber f is not starting a session, before or after the step, and the
\* other fibers stay where they are.
OnlyMoves(f) ==
  /\ pc[f] # "ready" /\ pc'[f] # "ready"
  /\ \A h \in Conns \ {f} : UNCHANGED <<pc[h], version[h], mine[h]>>

\* A reader thread goes its way: it neither begins nor opens a PTY.
Reads(g) ==
  \/ UNCHANGED <<thread[g], source[g]>>
  \/ /\ thread[g] \notin {"none", "opening"}
     /\ thread'[g] \notin {"none", "opening"}
     /\ thread'[g] \in {"call", "blocked", "read"} => fd[g] \in Fds
     /\ thread'[g] = "read" => source'[g] \in Gens

\* What all but four actions are to the ownership of sessions and PTYs.
Quiet ==
  /\ UNCHANGED <<generation, lifecycle, starting, session, output, fd,
                 fdTable, ready, closed>>
  /\ \E f \in Fibers : OnlyMoves(f) \/ UNCHANGED <<pc, version, mine>>
  /\ \A g \in Gens : Reads(g)
-----------------------------------------------------------------------------
LEMMA QuietKeepsOwn ==
  ASSUME TypeOK, Own, Quiet
  PROVE  Own'
<1>1. /\ UNCHANGED <<generation, lifecycle, starting, session, output, fd,
                     fdTable, ready, closed>>
      /\ \A g \in Gens : Reads(g)
  BY DEF Quiet
<1>2. \A h \in Conns :
        /\ pc'[h] = "ready" <=> pc[h] = "ready"
        /\ pc[h] = "ready" => version'[h] = version[h] /\ mine'[h] = mine[h]
  BY DEF Quiet, OnlyMoves
<1>3. SessionOwnsPty' /\ output' = session' /\ FdsOK'
  BY <1>1 DEF Own, SessionOwnsPty, FdsOK
<1>4. StartersOK'
  BY <1>1, <1>2 DEF Own, StartersOK
<1>5. StartersDiffer' /\ StartingHasStarter' /\ NoLeakedPty'
  BY <1>1, <1>2 DEF Own, StartersDiffer, StartingHasStarter, NoLeakedPty
<1>6. ThreadsOK'
  <2> SUFFICES ASSUME NEW g \in Gens
      PROVE  /\ g > generation => thread'[g] = "none" /\ ready[g] = "none" /\ ~closed[g]
             /\ thread'[g] = "opening" =>
                  ready[g] = "none" /\ \E f \in Conns : pc'[f] = "ready" /\ mine'[f] = g
             /\ thread'[g] \in {"call", "blocked", "read"} => fd[g] \in Fds
             /\ thread'[g] = "read" => source'[g] \in Gens
    BY <1>1 DEF ThreadsOK
  <2>1. CASE UNCHANGED <<thread[g], source[g]>>
    BY <1>2, <2>1 DEF Own, ThreadsOK
  <2>2. CASE ~UNCHANGED <<thread[g], source[g]>>
    BY <1>1, <2>2 DEF Own, ThreadsOK, Reads
  <2>3. QED
    BY <2>1, <2>2
<1>7. QED
  BY <1>3, <1>4, <1>5, <1>6 DEF Own

\* A woken writer only goes on reading.
LEMMA WakeReads ==
  ASSUME ThreadsOK, NEW g \in Gens, NEW k,
         thread'[g] = WakeWriter(thread, k)[g], source' = source
  PROVE  Reads(g)
<1>1. thread'[g] = thread[g] \/ (thread[g] = "blocked" /\ thread'[g] = "call")
  BY DEF WakeWriter, Woken
<1>2. QED
  BY <1>1 DEF Reads, ThreadsOK

LEMMA TakeQuiet ==
  ASSUME TypeOK, Own, NEW f \in Fibers, pc[f] # "ready", NEW count,
         TakeFrom(output, f, count, thread),
         UNCHANGED <<version, mine, source, generation, lifecycle, starting,
                     session, output, fd, fdTable, ready, closed>>
  PROVE  Quiet
<1>1. ThreadsOK
  BY DEF Own
<1>2. \A g \in Gens : Reads(g)
  BY <1>1, WakeReads DEF TakeFrom
<1>3. OnlyMoves(f)
  BY DEF OnlyMoves, TakeFrom, TypeOK, FiberTypes, Fibers
<1>4. QED
  BY <1>2, <1>3 DEF Quiet

LEMMA AnswerMoves ==
  ASSUME TypeOK, NEW f \in Fibers, pc[f] # "ready", Answer(f)
  PROVE  OnlyMoves(f)
BY DEF OnlyMoves, Answer, TypeOK, FiberTypes, Fibers

\* Requests that run at once, the keeper and the drains other than those of
\* a stop are quiet.
LEMMA QuietSteps ==
  ASSUME TypeOK, Own, NEW f \in Fibers,
         \/ \E size \in Sizes : SessionResize(f, size)
         \/ SessionSend(f)
         \/ \E o \in {"stop", "resize", "look"}, size \in Sizes :
              RequestDrains(f, o, size)
         \/ f = Keeper /\ KeepDraining
         \/ DrainMore(f) \/ DrainRaises(f)
         \/ DrainDone(f) /\ op[f] # "stop"
  PROVE  Quiet
<1>1. CASE (\E size \in Sizes : SessionResize(f, size)) \/ SessionSend(f)
  <2>1. /\ UNCHANGED <<generation, lifecycle, starting, session, output, fd,
                       fdTable, ready, closed>>
        /\ UNCHANGED <<pc, version, mine, thread, source>>
    BY <1>1 DEF SessionResize, SessionSend
  <2>2. QED
    BY <2>1 DEF Quiet, Reads
<1>2. ASSUME NEW o \in {"stop", "resize", "look"}, NEW size \in Sizes,
             RequestDrains(f, o, size)
      PROVE  Quiet
  <2>1. /\ pc[f] # "ready" /\ TakeFrom(output, f, 1, thread)
        /\ UNCHANGED <<version, mine, source, generation, lifecycle, starting,
                       session, output, fd, fdTable, ready, closed>>
    BY <1>2 DEF RequestDrains
  <2>2. QED
    BY <2>1, TakeQuiet
<1>3. CASE f = Keeper /\ KeepDraining
  <2>1. /\ pc[f] # "ready"
        /\ UNCHANGED <<version, mine, source, generation, lifecycle, starting,
                       session, output, fd, fdTable, ready, closed>>
    BY <1>3 DEF KeepDraining
  <2>2. CASE TakeFrom(output, f, 1, thread)
    BY <2>1, <2>2, TakeQuiet
  <2>3. CASE UNCHANGED <<pc, thread>>
    BY <2>1, <2>3 DEF Quiet, Reads
  <2>4. QED
    BY <1>3, <2>2, <2>3 DEF KeepDraining
<1>4. CASE DrainMore(f)
  <2>1. /\ pc[f] # "ready" /\ TakeFrom(output, f, drained + 1, thread)
        /\ UNCHANGED <<version, mine, source, generation, lifecycle, starting,
                       session, output, fd, fdTable, ready, closed>>
    BY <1>4 DEF DrainMore
  <2>2. QED
    BY <2>1, TakeQuiet
<1>5. CASE DrainRaises(f) \/ (DrainDone(f) /\ op[f] # "stop")
  <2>1. pc[f] # "ready" /\ Answer(f)
    BY <1>5 DEF DrainRaises, DrainDone
  <2>2. UNCHANGED <<generation, lifecycle, starting, session, output, fd,
                    fdTable, ready, closed, thread, source>>
    BY <1>5 DEF DrainRaises, DrainDone
  <2>3. QED
    BY <2>1, <2>2, AnswerMoves DEF Quiet, Reads
<1>6. QED
  BY <1>1, <1>2, <1>3, <1>4, <1>5

LEMMA QuietThreads ==
  ASSUME TypeOK, Own, NEW g \in Gens,
         \/ ReadCall(g) \/ ReadChunk(g) \/ ReadEnds(g) \/ GiveEof(g)
         \/ ChildWrites(g) \/ ChildExits(g)
  PROVE  Quiet
<1>1. /\ UNCHANGED <<generation, lifecycle, starting, session, output, fd,
                     fdTable, ready, closed>>
      /\ UNCHANGED <<pc, version, mine>>
  BY DEF ReadCall, ReadChunk, ReadEnds, GiveEof, ChildWrites, ChildExits
<1>2. \A h \in Gens \ {g} : UNCHANGED <<thread[h], source[h]>>
  BY DEF ReadCall, ReadChunk, ReadEnds, GiveEof, ChildWrites, ChildExits,
         TypeOK, ThreadTypes
<1>3. Reads(g)
  <2>1. CASE ReadCall(g)
    <3>1. fd[g] \in Fds
      BY <2>1 DEF ReadCall, Own, ThreadsOK
    <3>2. fdTable[fd[g]] # 0 => fdTable[fd[g]] \in Gens
      BY <3>1, HostAssumption DEF TypeOK, PtyTypes, Gens
    <3>3. QED
      BY <2>1, <3>1, <3>2 DEF ReadCall, Reads, TypeOK, ThreadTypes
  <2>2. CASE ReadChunk(g) \/ ReadEnds(g) \/ GiveEof(g)
    <3>1. thread[g] = "read" => fd[g] \in Fds
      BY DEF Own, ThreadsOK
    <3>2. QED
      BY <2>2, <3>1 DEF ReadChunk, ReadEnds, GiveEof, Reads, TypeOK, ThreadTypes
  <2>3. CASE ChildWrites(g) \/ ChildExits(g)
    BY <2>3 DEF ChildWrites, ChildExits, Reads
  <2>4. QED
    BY <2>1, <2>2, <2>3
<1>4. \A h \in Gens : Reads(h)
  BY <1>2, <1>3 DEF Reads
<1>5. QED
  BY <1>1, <1>4 DEF Quiet, Fibers
-----------------------------------------------------------------------------
(* The four steps that move a session, a start or a descriptor.            *)

\* Two numbers that name different PTYs are different, so that closing one
\* leaves the other (pty.janet 97-103).
LEMMA CloseSpares ==
  ASSUME TypeOK, NEW g, NEW h \in Gens, fd[g] \in Fds, fd[h] \in Fds,
         fdTable[fd[g]] = g, fdTable[fd[h]] = h, g # h, PtyClose(g)
  PROVE  fdTable'[fd[h]] = h
BY DEF PtyClose

LEMMA CloseFrees ==
  ASSUME TypeOK, FdsOK, NEW g \in Gens, PtyClose(g), NEW n \in Fds,
         fdTable'[n] # 0
  PROVE  fdTable'[n] = fdTable[n] /\ fdTable[n] # g
BY DEF PtyClose, FdsOK

LEMMA StartKeepsOwn ==
  ASSUME TypeOK, Own, NEW f \in Conns, NEW size \in Sizes, SessionStart(f, size)
  PROVE  Own'
<1> DEFINE g == generation + 1
<1>1. /\ g \in Gens /\ generation \in Nat /\ lifecycle \in Nat
      /\ session \in 0 .. MaxStarts /\ MaxStarts \in Nat /\ g # session
      /\ f \in Fibers /\ pc[f] = "idle"
      /\ version \in [Fibers -> Nat] /\ mine \in [Fibers -> 0 .. MaxStarts]
      /\ pc \in [Fibers -> {"idle", "ready", "drain"}]
  <2>1. g \in Gens /\ generation \in Nat /\ MaxStarts \in Nat
    BY HostAssumption DEF SessionStart, TypeOK, SessionTypes, Gens
  <2>2. session # 0 => session = generation
    BY DEF Own, SessionOwnsPty
  <2>3. QED
    BY <2>1, <2>2 DEF SessionStart, TypeOK, SessionTypes, FiberTypes, Fibers
<1>2. /\ generation' = g /\ lifecycle' = lifecycle + 1 /\ starting' = TRUE
      /\ session' = 0 /\ output' = 0
      /\ pc' = [pc EXCEPT ![f] = "ready"]
      /\ version' = [version EXCEPT ![f] = lifecycle + 1]
      /\ mine' = [mine EXCEPT ![f] = g]
      /\ closed' = CloseChan(closed, session)
      /\ UNCHANGED <<ready, source, fd>>
  BY DEF SessionStart, Own
<1>3. /\ pc'[f] = "ready" /\ version'[f] = lifecycle' /\ mine'[f] = g
      /\ \A h \in Conns : h # f => UNCHANGED <<pc[h], version[h], mine[h]>>
  BY <1>1, <1>2 DEF Fibers
<1>4. ready[g] = "none" /\ ~closed[g]
  BY <1>1 DEF Own, ThreadsOK
<1>5. \A n \in Fds : fdTable'[n] # 0 =>
        fdTable'[n] = fdTable[n] /\ fdTable[n] # session
  <2>1. CASE session = 0
    BY <2>1 DEF SessionStart
  <2>2. CASE session # 0
    BY <1>1, <2>2, CloseFrees DEF SessionStart, Own, Gens
  <2>3. QED
    BY <2>1, <2>2
<1>6. SessionOwnsPty' /\ output' = session'
  BY <1>2 DEF SessionOwnsPty
<1>7. StartersOK'
  <2> SUFFICES ASSUME NEW h \in Conns, pc'[h] = "ready"
      PROVE  /\ mine'[h] \in 1 .. generation' /\ version'[h] \in 1 .. lifecycle'
             /\ mine'[h] # session' /\ ~closed'[mine'[h]]
             /\ version'[h] = lifecycle' => mine'[h] = generation' /\ starting'
             /\ ready'[mine'[h]] = "opened" =>
                  fd'[mine'[h]] \in Fds /\ fdTable'[fd'[mine'[h]]] = mine'[h]
    BY DEF StartersOK
  <2>1. CASE h = f
    BY <1>1, <1>2, <1>3, <1>4, <2>1 DEF CloseChan, Gens
  <2>2. CASE h # f
    <3>1. /\ mine[h] \in 1 .. generation /\ version[h] \in 1 .. lifecycle
          /\ mine[h] # session /\ ~closed[mine[h]]
          /\ ready[mine[h]] = "opened" =>
               fd[mine[h]] \in Fds /\ fdTable[fd[mine[h]]] = mine[h]
      BY <1>3, <2>2 DEF Own, StartersOK
    <3>2. mine[h] \in Gens
      BY <1>1, <3>1 DEF Gens
    <3>3. ready[mine[h]] = "opened" => fdTable'[fd[mine[h]]] = mine[h]
      <4>1. CASE session = 0
        BY <3>1, <4>1 DEF SessionStart
      <4>2. CASE session # 0
        BY <3>1, <3>2, <4>2, CloseSpares DEF SessionStart, Own, SessionOwnsPty
      <4>3. QED
        BY <4>1, <4>2
    <3>4. QED
      BY <1>1, <1>2, <1>3, <2>2, <3>1, <3>2, <3>3 DEF CloseChan
  <2>3. QED
    BY <2>1, <2>2
<1>8. StartersDiffer'
  BY <1>1, <1>3 DEF Own, StartersDiffer, StartersOK
<1>9. StartingHasStarter'
  BY <1>2, <1>3 DEF StartingHasStarter
<1>10. FdsOK'
  BY <1>2, <1>5 DEF Own, FdsOK
<1>11. NoLeakedPty'
  BY <1>1, <1>3, <1>5 DEF Own, NoLeakedPty
<1>12. ThreadsOK'
  <2>1. thread' = [WakeWriter(thread, session) EXCEPT ![g] = "opening"]
    BY DEF SessionStart, Own
  <2>2. /\ thread'[g] = "opening"
        /\ \A h \in Gens \ {g} :
             \/ thread'[h] = thread[h]
             \/ thread[h] = "blocked" /\ thread'[h] = "call"
    BY <1>1, <2>1 DEF WakeWriter, Woken
  <2> SUFFICES ASSUME NEW h \in Gens
      PROVE  /\ h > generation' => thread'[h] = "none" /\ ready[h] = "none" /\ ~closed'[h]
             /\ thread'[h] = "opening" =>
                  ready[h] = "none" /\ \E k \in Conns : pc'[k] = "ready" /\ mine'[k] = h
             /\ thread'[h] \in {"call", "blocked", "read"} => fd[h] \in Fds
             /\ thread'[h] = "read" => source[h] \in Gens
    BY <1>2 DEF ThreadsOK
  <2>3. CASE h = g
    BY <1>1, <1>2, <1>3, <1>4, <2>2, <2>3
  <2>4. CASE h # g
    <3>1. h > generation' => thread'[h] = "none" /\ ready[h] = "none" /\ ~closed'[h]
      <4>1. h > generation' => h > generation /\ h # session
        BY <1>1, <1>2 DEF Own, SessionOwnsPty, Gens
      <4>2. QED
        BY <1>2, <2>2, <2>4, <4>1 DEF CloseChan, Own, ThreadsOK
    <3>2. thread'[h] = "opening" =>
            ready[h] = "none" /\ \E k \in Conns : pc'[k] = "ready" /\ mine'[k] = h
      BY <1>1, <1>3, <2>2, <2>4 DEF Own, ThreadsOK
    <3>3. QED
      BY <2>2, <2>4, <3>1, <3>2 DEF Own, ThreadsOK
  <2>5. QED
    BY <2>3, <2>4
<1>13. QED
  BY <1>6, <1>7, <1>8, <1>9, <1>10, <1>11, <1>12 DEF Own

\* session-stop, from a request or at the end of its drain (246-259).
LEMMA StopKeepsOwn ==
  ASSUME TypeOK, Own, NEW f \in Fibers, NEW ended,
         Stop(ended), thread' = WakeWriter(thread, output),
         UNCHANGED <<generation, ready, source, fd>>,
         OnlyMoves(f) \/ UNCHANGED <<pc, version, mine>>
  PROVE  Own'
<1>1. /\ lifecycle' = lifecycle + 1 /\ starting' = FALSE
      /\ session' = 0 /\ output' = 0
      /\ closed' = CloseChan(closed, session)
      /\ UNCHANGED <<generation, ready, source, fd>>
  BY DEF Stop, Own
<1>2. /\ \A h \in Conns : pc'[h] = "ready" <=> pc[h] = "ready"
      /\ \A h \in Conns : pc[h] = "ready" => UNCHANGED <<version[h], mine[h]>>
  BY DEF OnlyMoves
<1>3. \A n \in Fds : fdTable'[n] # 0 =>
        fdTable'[n] = fdTable[n] /\ fdTable[n] # session
  <2>1. CASE session = 0
    BY <2>1 DEF Stop
  <2>2. CASE session # 0
    <3>1. session \in Gens
      BY <2>2, HostAssumption DEF TypeOK, SessionTypes, Gens
    <3>2. QED
      BY <2>2, <3>1, CloseFrees DEF Stop, Own
  <2>3. QED
    BY <2>1, <2>2
<1>4. SessionOwnsPty' /\ output' = session'
  BY <1>1 DEF SessionOwnsPty
<1>5. StartersOK'
  <2> SUFFICES ASSUME NEW h \in Conns, pc'[h] = "ready"
      PROVE  /\ mine'[h] \in 1 .. generation' /\ version'[h] \in 1 .. lifecycle'
             /\ mine'[h] # session' /\ ~closed'[mine'[h]]
             /\ version'[h] = lifecycle' => mine'[h] = generation' /\ starting'
             /\ ready'[mine'[h]] = "opened" =>
                  fd'[mine'[h]] \in Fds /\ fdTable'[fd'[mine'[h]]] = mine'[h]
    BY DEF StartersOK
  <2>1. /\ mine[h] \in 1 .. generation /\ version[h] \in 1 .. lifecycle
        /\ mine[h] # session /\ ~closed[mine[h]]
        /\ ready[mine[h]] = "opened" =>
             fd[mine[h]] \in Fds /\ fdTable[fd[mine[h]]] = mine[h]
    BY <1>2 DEF Own, StartersOK
  <2>2. mine[h] \in Gens /\ lifecycle \in Nat
    BY <2>1, HostAssumption DEF Gens, TypeOK, SessionTypes
  <2>3. ready[mine[h]] = "opened" => fdTable'[fd[mine[h]]] = mine[h]
    <3>1. CASE session = 0
      BY <2>1, <3>1 DEF Stop
    <3>2. CASE session # 0
      BY <2>1, <2>2, <3>2, CloseSpares DEF Stop, Own, SessionOwnsPty
    <3>3. QED
      BY <3>1, <3>2
  <2>4. QED
    BY <1>1, <1>2, <2>1, <2>2, <2>3 DEF CloseChan
<1>6. StartersDiffer'
  BY <1>2 DEF Own, StartersDiffer
<1>7. StartingHasStarter'
  BY <1>1, <1>5 DEF StartingHasStarter, StartersOK
<1>8. FdsOK'
  BY <1>1, <1>3 DEF Own, FdsOK
<1>9. NoLeakedPty'
  BY <1>2, <1>3 DEF Own, NoLeakedPty
<1>10. ThreadsOK'
  <2> SUFFICES ASSUME NEW g \in Gens
      PROVE  /\ g > generation => thread'[g] = "none" /\ ready[g] = "none" /\ ~closed'[g]
             /\ thread'[g] = "opening" =>
                  ready[g] = "none" /\ \E k \in Conns : pc'[k] = "ready" /\ mine'[k] = g
             /\ thread'[g] \in {"call", "blocked", "read"} => fd[g] \in Fds
             /\ thread'[g] = "read" => source[g] \in Gens
    BY <1>1 DEF ThreadsOK
  <2>1. thread'[g] = thread[g] \/ (thread[g] = "blocked" /\ thread'[g] = "call")
    BY DEF WakeWriter, Woken
  <2>2. g > generation => g # session
    BY HostAssumption DEF Own, SessionOwnsPty, Gens, TypeOK, SessionTypes
  <2>3. g > generation => thread'[g] = "none" /\ ready[g] = "none" /\ ~closed'[g]
    BY <1>1, <2>1, <2>2 DEF CloseChan, Own, ThreadsOK
  <2>4. QED
    BY <1>2, <2>1, <2>3 DEF Own, ThreadsOK
<1>11. QED
  BY <1>4, <1>5, <1>6, <1>7, <1>8, <1>9, <1>10 DEF Own

\* After a start resumes its fiber drains or is idle; others stay.
LEMMA EnterMoves ==
  ASSUME TypeOK, NEW f \in Fibers, NEW out, NEW th \in [Gens -> Phases],
         EnterDrain(out, f, th)
  PROVE  /\ pc'[f] # "ready"
         /\ \A h \in Conns : h # f => UNCHANGED <<pc[h], version[h], mine[h]>>
         /\ \A g \in Gens : \/ thread'[g] = th[g]
                            \/ th[g] = "blocked" /\ thread'[g] = "call"
<1>1. CASE TakeFrom(out, f, 1, th) /\ UNCHANGED <<op, version, mine>>
  BY <1>1 DEF TakeFrom, WakeWriter, Woken, TypeOK, FiberTypes, Fibers
<1>2. CASE thread' = th /\ Answer(f)
  BY <1>2 DEF Answer, TypeOK, FiberTypes, Fibers
<1>3. QED
  BY <1>1, <1>2 DEF EnterDrain

LEMMA ResumeKeepsOwn ==
  ASSUME TypeOK, Own, NEW f \in Conns, StartResumes(f)
  PROVE  Own'
<1> DEFINE g == mine[f]
<1>1. /\ pc[f] = "ready" /\ ready[g] # "none" /\ f \in Fibers
      /\ g \in 1 .. generation /\ g \in Gens /\ g # session /\ ~closed[g]
      /\ version[f] = lifecycle => g = generation /\ starting
      /\ ready[g] = "opened" => fd[g] \in Fds /\ fdTable[fd[g]] = g
  BY HostAssumption DEF StartResumes, Own, StartersOK, Fibers, Gens, TypeOK, SessionTypes
<1>2. UNCHANGED <<generation, lifecycle, ready, source, fd>>
  BY DEF StartResumes
<1>3. /\ pc'[f] # "ready"
      /\ \A h \in Conns : h # f => UNCHANGED <<pc[h], version[h], mine[h]>>
      /\ \A h \in Gens : \/ thread'[h] = thread[h]
                         \/ thread[h] = "blocked" /\ thread'[h] = "call"
  <2>1. thread \in [Gens -> Phases] /\ WakeWriter(thread, g) \in [Gens -> Phases]
    BY WakeType DEF TypeOK, ThreadTypes
  <2>2. CASE EnterDrain(output', f, thread)
    BY <1>1, <2>1, <2>2, EnterMoves
  <2>3. CASE EnterDrain(output, f, WakeWriter(thread, g))
    <3>1. \A h \in Gens : \/ thread'[h] = WakeWriter(thread, g)[h]
                          \/ WakeWriter(thread, g)[h] = "blocked" /\ thread'[h] = "call"
      BY <1>1, <2>1, <2>3, EnterMoves
    <3>2. \A h \in Gens : \/ WakeWriter(thread, g)[h] = thread[h]
                          \/ thread[h] = "blocked" /\ WakeWriter(thread, g)[h] = "call"
      BY DEF WakeWriter, Woken
    <3>3. \A h \in Gens : \/ thread'[h] = thread[h]
                          \/ thread[h] = "blocked" /\ thread'[h] = "call"
      BY <3>1, <3>2
    <3>4. QED
      BY <1>1, <2>1, <2>3, <3>3, EnterMoves
  <2>4. QED
    BY <2>2, <2>3 DEF StartResumes
<1>4. StartersDiffer'
  BY <1>3 DEF Own, StartersDiffer
<1>5. \A h \in Conns : h # f /\ pc[h] = "ready" => mine[h] # g
  BY <1>1 DEF Own, StartersDiffer
<1>6. \A h \in Gens : thread'[h] = "opening" =>
        ready[h] = "none" /\ \E k \in Conns : pc'[k] = "ready" /\ mine'[k] = h
  BY <1>1, <1>3 DEF Own, ThreadsOK
<1>7. ASSUME \A h \in Gens : h > generation => ~closed'[h]
      PROVE  ThreadsOK'
  BY <1>2, <1>3, <1>6, <1>7 DEF Own, ThreadsOK
<1>8. CASE version[f] # lifecycle
  <2>1. /\ closed' = CloseChan(closed, g)
        /\ UNCHANGED <<starting, session, output>>
        /\ ready[g] = "opened" => PtyClose(g)
        /\ ready[g] # "opened" => UNCHANGED fdTable
    BY <1>8 DEF StartResumes
  <2>2. \A n \in Fds : fdTable'[n] # 0 =>
          fdTable'[n] = fdTable[n] /\ fdTable[n] # g
    <3>1. CASE ready[g] = "opened"
      BY <1>1, <2>1, <3>1, CloseFrees DEF Own
    <3>2. CASE ready[g] # "opened"
      BY <2>1, <3>2 DEF Own, FdsOK
    <3>3. QED
      BY <3>1, <3>2
  <2>3. \A h \in Gens : h # g /\ fd[h] \in Fds /\ fdTable[fd[h]] = h =>
          fdTable'[fd[h]] = h
    BY <1>1, <2>1, CloseSpares
  <2>4. SessionOwnsPty' /\ output' = session'
    <3>1. output' = session'
      BY <2>1 DEF Own
    <3>2. session # 0 => session \in Gens
      BY HostAssumption DEF TypeOK, SessionTypes, Gens
    <3>3. QED
      BY <1>1, <1>2, <2>1, <2>3, <3>1, <3>2 DEF Own, SessionOwnsPty, CloseChan
  <2>5. StartersOK'
    <3> SUFFICES ASSUME NEW h \in Conns, pc'[h] = "ready"
        PROVE  /\ mine'[h] \in 1 .. generation' /\ version'[h] \in 1 .. lifecycle'
               /\ mine'[h] # session' /\ ~closed'[mine'[h]]
               /\ version'[h] = lifecycle' => mine'[h] = generation' /\ starting'
               /\ ready'[mine'[h]] = "opened" =>
                    fd'[mine'[h]] \in Fds /\ fdTable'[fd'[mine'[h]]] = mine'[h]
      BY DEF StartersOK
    <3>1. /\ mine[h] \in 1 .. generation /\ version[h] \in 1 .. lifecycle
          /\ mine[h] # session /\ ~closed[mine[h]]
          /\ version[h] = lifecycle => mine[h] = generation /\ starting
          /\ ready[mine[h]] = "opened" =>
               fd[mine[h]] \in Fds /\ fdTable[fd[mine[h]]] = mine[h]
      BY <1>3 DEF Own, StartersOK
    <3>2. mine[h] \in Gens /\ mine[h] # g /\ mine'[h] = mine[h] /\ version'[h] = version[h]
      BY <1>3, <1>5, <3>1, HostAssumption DEF Gens, TypeOK, SessionTypes
    <3>3. ~closed'[mine[h]]
      BY <2>1, <3>1, <3>2 DEF CloseChan
    <3>4. QED
      BY <1>2, <2>1, <2>3, <3>1, <3>2, <3>3
  <2>6. StartingHasStarter'
    BY <1>2, <1>3, <1>8, <2>1 DEF Own, StartingHasStarter
  <2>7. FdsOK'
    BY <1>2, <2>2 DEF Own, FdsOK
  <2>8. NoLeakedPty'
    BY <1>3, <2>1, <2>2 DEF Own, NoLeakedPty
  <2>9. ThreadsOK'
    <3>1. generation \in Nat
      BY DEF TypeOK, SessionTypes
    <3>2. \A h \in Gens : h > generation => ~closed'[h]
      BY <1>1, <2>1, <3>1 DEF CloseChan, Own, ThreadsOK, Gens
    <3>3. QED
      BY <1>7, <3>2
  <2>10. QED
    BY <1>4, <2>4, <2>5, <2>6, <2>7, <2>8, <2>9 DEF Own
<1>9. CASE version[f] = lifecycle
  <2>1. /\ starting' = FALSE /\ output' = session'
        /\ session' = IF ready[g] = "opened" THEN g ELSE 0
        /\ UNCHANGED <<fdTable, closed>>
    BY <1>9 DEF StartResumes
  <2>2. g = generation /\ session = 0
    BY <1>1, <1>9 DEF Own, SessionOwnsPty
  <2>3. SessionOwnsPty'
    BY <1>1, <1>2, <2>1, <2>2 DEF SessionOwnsPty
  <2>4. \A h \in Conns : h # f /\ pc[h] = "ready" => version[h] # lifecycle
    BY <1>5, <2>2 DEF Own, StartersOK
  <2>5. StartersOK'
    <3> SUFFICES ASSUME NEW h \in Conns, pc'[h] = "ready"
        PROVE  /\ mine'[h] \in 1 .. generation' /\ version'[h] \in 1 .. lifecycle'
               /\ mine'[h] # session' /\ ~closed'[mine'[h]]
               /\ version'[h] = lifecycle' => mine'[h] = generation' /\ starting'
               /\ ready'[mine'[h]] = "opened" =>
                    fd'[mine'[h]] \in Fds /\ fdTable'[fd'[mine'[h]]] = mine'[h]
      BY DEF StartersOK
    <3>1. /\ mine[h] \in 1 .. generation /\ version[h] \in 1 .. lifecycle
          /\ mine[h] # session /\ ~closed[mine[h]]
          /\ ready[mine[h]] = "opened" =>
               fd[mine[h]] \in Fds /\ fdTable[fd[mine[h]]] = mine[h]
      BY <1>3 DEF Own, StartersOK
    <3>2. h # f /\ mine'[h] = mine[h] /\ version'[h] = version[h] /\ mine[h] # g
      BY <1>3, <1>5
    <3>3. mine[h] # session' /\ version[h] # lifecycle
      BY <1>3, <2>1, <2>2, <2>4, <3>1, <3>2
    <3>4. QED
      BY <1>2, <2>1, <3>1, <3>2, <3>3
  <2>6. StartingHasStarter'
    BY <1>2, <1>3, <2>1, <2>4 DEF StartingHasStarter
  <2>7. FdsOK'
    BY <1>2, <2>1 DEF Own, FdsOK
  <2>8. NoLeakedPty'
    BY <1>3, <2>1, <2>2 DEF Own, NoLeakedPty, FdsOK
  <2>9. ThreadsOK'
    BY <1>7, <2>1 DEF Own, ThreadsOK
  <2>10. QED
    BY <1>4, <2>1, <2>3, <2>5, <2>6, <2>7, <2>8, <2>9 DEF Own
<1>10. QED
  BY <1>8, <1>9

\* forkpty gives a free number to a session that a start still waits for.
LEMMA OpenKeepsOwn ==
  ASSUME TypeOK, Own, NEW g \in Gens, PtyOpen(g)
  PROVE  Own'
<1>1. /\ UNCHANGED <<generation, lifecycle, starting, session, output, closed,
                     source, pc, version, mine>>
      /\ thread[g] = "opening"
  BY DEF PtyOpen
<1>2. ready[g] = "none" /\ session # g /\ generation >= g
  BY <1>1 DEF Own, ThreadsOK, StartersOK, TypeOK, SessionTypes, Gens
<1>3. \A n \in Fds : fdTable[n] # g
  BY <1>2 DEF Own, FdsOK, Gens
<1>4. CASE \E n \in Fds :
             /\ fdTable[n] = 0
             /\ fdTable' = [fdTable EXCEPT ![n] = g]
             /\ fd' = [fd EXCEPT ![g] = n]
             /\ ready' = [ready EXCEPT ![g] = "opened"]
             /\ thread' = [thread EXCEPT ![g] = "call"]
  <2>1. PICK n \in Fds :
             /\ fdTable[n] = 0
             /\ fdTable' = [fdTable EXCEPT ![n] = g]
             /\ fd' = [fd EXCEPT ![g] = n]
             /\ ready' = [ready EXCEPT ![g] = "opened"]
             /\ thread' = [thread EXCEPT ![g] = "call"]
    BY <1>4
  <2>2. /\ fdTable'[n] = g /\ fd'[g] = n /\ ready'[g] = "opened" /\ thread'[g] = "call"
        /\ \A m \in Fds : m # n => fdTable'[m] = fdTable[m]
        /\ \A h \in Gens : h # g => UNCHANGED <<fd[h], ready[h], thread[h]>>
    BY <2>1 DEF TypeOK, PtyTypes, ThreadTypes
  <2>3. \A h \in Gens : h # g /\ fd[h] \in Fds /\ fdTable[fd[h]] = h =>
          fd'[h] = fd[h] /\ fdTable'[fd[h]] = h
    BY <2>1, <2>2, HostAssumption DEF Gens
  <2>4. SessionOwnsPty' /\ output' = session'
    <3>1. session # 0 => session \in Gens
      BY HostAssumption DEF TypeOK, SessionTypes, Gens
    <3>2. QED
      BY <1>1, <1>2, <2>3, <3>1 DEF Own, SessionOwnsPty
  <2>5. StartersOK'
    <3> SUFFICES ASSUME NEW h \in Conns, pc[h] = "ready", ready'[mine[h]] = "opened"
        PROVE  fd'[mine[h]] \in Fds /\ fdTable'[fd'[mine[h]]] = mine[h]
      BY <1>1 DEF Own, StartersOK
    <3>1. mine[h] \in Gens
      BY HostAssumption DEF Own, StartersOK, TypeOK, SessionTypes, Gens
    <3>2. CASE mine[h] = g
      BY <2>2, <3>2
    <3>3. CASE mine[h] # g
      BY <2>2, <2>3, <3>1, <3>3 DEF Own, StartersOK
    <3>4. QED
      BY <3>2, <3>3
  <2>6. StartersDiffer' /\ StartingHasStarter'
    BY <1>1 DEF Own, StartersDiffer, StartingHasStarter
  <2>7. FdsOK'
    <3> SUFFICES ASSUME NEW m \in Fds, fdTable'[m] # 0
        PROVE  ready'[fdTable'[m]] = "opened" /\ fd'[fdTable'[m]] = m
      BY DEF FdsOK
    <3>1. CASE m = n
      BY <2>2, <3>1
    <3>2. CASE m # n
      <4>1. fdTable'[m] = fdTable[m] /\ fdTable[m] \in Gens /\ fdTable[m] # g
        BY <1>3, <2>2, <3>2, HostAssumption DEF TypeOK, PtyTypes, Gens
      <4>2. QED
        BY <2>2, <4>1 DEF Own, FdsOK
    <3>3. QED
      BY <3>1, <3>2
  <2>8. NoLeakedPty'
    <3>1. \E f \in Conns : pc[f] = "ready" /\ mine[f] = g
      BY <1>1 DEF Own, ThreadsOK
    <3>2. QED
      BY <1>1, <2>2, <3>1 DEF Own, NoLeakedPty
  <2>9. ThreadsOK'
    <3>1. generation \in Nat /\ \A h \in Gens : h \in Nat
      BY DEF TypeOK, SessionTypes, Gens
    <3>2. QED
      BY <1>1, <1>2, <2>2, <3>1 DEF Own, ThreadsOK
  <2>10. QED
    BY <2>4, <2>5, <2>6, <2>7, <2>8, <2>9 DEF Own
<1>5. CASE /\ ready' = [ready EXCEPT ![g] = "failed"]
           /\ thread' = [thread EXCEPT ![g] = "done"]
           /\ UNCHANGED <<fdTable, fd>>
  <2>1. /\ ready'[g] = "failed" /\ thread'[g] = "done"
        /\ \A h \in Gens : h # g => UNCHANGED <<ready[h], thread[h]>>
    BY <1>5 DEF TypeOK, ThreadTypes
  <2>2. SessionOwnsPty' /\ output' = session'
    BY <1>1, <1>5 DEF Own, SessionOwnsPty
  <2>3. StartersOK'
    <3> SUFFICES ASSUME NEW h \in Conns, pc[h] = "ready", ready'[mine[h]] = "opened"
        PROVE  fd[mine[h]] \in Fds /\ fdTable[fd[mine[h]]] = mine[h]
      BY <1>1, <1>5 DEF Own, StartersOK
    <3>1. mine[h] \in Gens
      BY HostAssumption DEF Own, StartersOK, TypeOK, SessionTypes, Gens
    <3>2. QED
      BY <2>1, <3>1 DEF Own, StartersOK
  <2>4. StartersDiffer' /\ StartingHasStarter' /\ NoLeakedPty'
    BY <1>1, <1>5 DEF Own, StartersDiffer, StartingHasStarter, NoLeakedPty
  <2>5. FdsOK'
    <3>1. \A n \in Fds : fdTable[n] # 0 => fdTable[n] \in Gens \ {g}
      BY <1>3, HostAssumption DEF TypeOK, PtyTypes, Gens
    <3>2. QED
      BY <1>5, <2>1, <3>1 DEF Own, FdsOK
  <2>6. ThreadsOK'
    <3>1. generation \in Nat /\ \A h \in Gens : h \in Nat
      BY DEF TypeOK, SessionTypes, Gens
    <3>2. QED
      BY <1>1, <1>2, <1>5, <2>1, <3>1 DEF Own, ThreadsOK
  <2>7. QED
    BY <2>2, <2>3, <2>4, <2>5, <2>6 DEF Own
<1>6. QED
  BY <1>4, <1>5 DEF PtyOpen

LEMMA NextKeepsOwn ==
  ASSUME TypeOK, Own, [Next]_vars
  PROVE  Own'
<1>1. CASE UNCHANGED vars
  <2>1. Quiet
    BY <1>1 DEF vars, Quiet, Reads, Fibers
  <2>2. QED
    BY <2>1, QuietKeepsOwn
<1>2. ASSUME NEW f \in Conns,
             \/ \E size \in Sizes : SessionStart(f, size)
             \/ \E size \in Sizes : SessionResize(f, size)
             \/ SessionStop(f)
             \/ SessionSend(f)
             \/ \E o \in {"stop", "resize", "look"}, size \in Sizes :
                  RequestDrains(f, o, size)
             \/ StartResumes(f)
      PROVE  Own'
  <2>1. f \in Fibers
    BY DEF Fibers
  <2>2. CASE SessionStop(f)
    <3>1. /\ Stop(exited) /\ thread' = WakeWriter(thread, output)
          /\ UNCHANGED <<generation, ready, source, fd, pc, version, mine>>
      BY <2>2 DEF SessionStop
    <3>2. QED
      BY <2>1, <3>1, StopKeepsOwn
  <2>3. QED
    BY <1>2, <2>1, <2>2, StartKeepsOwn, ResumeKeepsOwn, QuietSteps, QuietKeepsOwn
<1>3. CASE KeepDraining
  BY <1>3, QuietSteps, QuietKeepsOwn DEF Fibers
<1>4. ASSUME NEW f \in Fibers, Drains(f)
      PROVE  Own'
  <2>1. CASE DrainDone(f) /\ op[f] = "stop"
    <3>1. PICK ended : Stop(ended)
      BY <2>1 DEF DrainDone
    <3>2. /\ thread' = WakeWriter(thread, output)
          /\ UNCHANGED <<generation, ready, source, fd>>
          /\ pc[f] # "ready" /\ Answer(f)
      BY <2>1 DEF DrainDone
    <3>3. OnlyMoves(f)
      BY <3>2, AnswerMoves
    <3>4. QED
      BY <3>1, <3>2, <3>3, StopKeepsOwn
  <2>2. CASE ~(DrainDone(f) /\ op[f] = "stop")
    BY <1>4, <2>2, QuietSteps, QuietKeepsOwn DEF Drains
  <2>3. QED
    BY <2>1, <2>2
<1>5. ASSUME NEW g \in Gens,
             \/ PtyOpen(g)
             \/ ReadCall(g) \/ ReadChunk(g) \/ ReadEnds(g) \/ GiveEof(g)
             \/ ChildWrites(g) \/ ChildExits(g)
      PROVE  Own'
  BY <1>5, OpenKeepsOwn, QuietThreads, QuietKeepsOwn
<1>6. QED
  BY <1>1, <1>2, <1>3, <1>4, <1>5 DEF Next
-----------------------------------------------------------------------------
(* The drain flag and the input queue.                                     *)

LEMMA NextOneDrainer ==
  ASSUME TypeOK, OneDrainer, [Next]_vars
  PROVE  OneDrainer'
<1> USE HostAssumption
<1>1. pc \in [Fibers -> {"idle", "ready", "drain"}] /\ NoFiber \notin Fibers
  BY DEF TypeOK, FiberTypes, Fibers
<1>2. ASSUME NEW f \in Fibers, NEW out, NEW count, NEW th,
             TakeFrom(out, f, count, th), drainer \in {f, NoFiber}
      PROVE  OneDrainer'
  BY <1>1, <1>2 DEF TakeFrom, OneDrainer
<1>3. ASSUME NEW f \in Fibers, Answer(f), LeaveDrain, pc[f] = "drain"
      PROVE  OneDrainer'
  BY <1>1, <1>3 DEF Answer, LeaveDrain, OneDrainer
<1>4. ASSUME UNCHANGED <<pc, drainer>>
      PROVE  OneDrainer'
  BY <1>4 DEF OneDrainer
<1>5. ASSUME NEW f \in Conns,
             \/ \E size \in Sizes : SessionStart(f, size)
             \/ \E size \in Sizes : SessionResize(f, size)
             \/ SessionStop(f)
             \/ SessionSend(f)
             \/ \E o \in {"stop", "resize", "look"}, size \in Sizes :
                  RequestDrains(f, o, size)
             \/ StartResumes(f)
      PROVE  OneDrainer'
  <2>1. f \in Fibers
    BY DEF Fibers
  <2>2. CASE \E size \in Sizes : SessionStart(f, size)
    BY <1>1, <2>1, <2>2 DEF SessionStart, OneDrainer
  <2>3. CASE \/ \E size \in Sizes : SessionResize(f, size)
             \/ SessionStop(f) \/ SessionSend(f)
    BY <1>4, <2>3 DEF SessionResize, SessionStop, SessionSend
  <2>4. CASE \E o \in {"stop", "resize", "look"}, size \in Sizes :
                  RequestDrains(f, o, size)
    BY <1>2, <2>1, <2>4 DEF RequestDrains, CanDrain
  <2>5. CASE StartResumes(f)
    <3>1. PICK out, th : EnterDrain(out, f, th)
      BY <2>5 DEF StartResumes
    <3>2. CASE CanDrain(out) /\ TakeFrom(out, f, 1, th)
      BY <1>2, <2>1, <3>2 DEF CanDrain
    <3>3. CASE Answer(f) /\ UNCHANGED drainVars
      BY <1>1, <2>1, <2>5, <3>3 DEF StartResumes, Answer, OneDrainer
    <3>4. QED
      BY <3>1, <3>2, <3>3 DEF EnterDrain
  <2>6. QED
    BY <1>5, <2>2, <2>3, <2>4, <2>5
<1>6. CASE KeepDraining
  BY <1>2, <1>4, <1>6 DEF KeepDraining, CanDrain, Fibers
<1>7. ASSUME NEW f \in Fibers, Drains(f)
      PROVE  OneDrainer'
  <2>1. pc[f] = "drain" /\ drainer = f
    BY <1>7 DEF Drains, DrainMore, DrainRaises, DrainDone, OneDrainer
  <2>2. CASE DrainMore(f)
    BY <1>2, <2>1, <2>2 DEF DrainMore
  <2>3. CASE DrainRaises(f) \/ DrainDone(f)
    BY <1>3, <2>1, <2>3 DEF DrainRaises, DrainDone
  <2>4. QED
    BY <1>7, <2>2, <2>3 DEF Drains
<1>8. ASSUME NEW g \in Gens,
             \/ PtyOpen(g)
             \/ ReadCall(g) \/ ReadChunk(g) \/ ReadEnds(g) \/ GiveEof(g)
             \/ ChildWrites(g) \/ ChildExits(g)
      PROVE  OneDrainer'
  BY <1>4, <1>8 DEF PtyOpen, ReadCall, ReadChunk, ReadEnds, GiveEof,
                    ChildWrites, ChildExits
<1>9. CASE UNCHANGED vars
  BY <1>4, <1>9 DEF vars
<1>10. QED
  BY <1>5, <1>6, <1>7, <1>8, <1>9 DEF Next

\* Every message of a queue that a client typed names the newest session.
Addressed(queue) ==
  \A i \in DOMAIN queue : ~queue[i].answer => queue[i].for = generation

LEMMA FlushAddressed ==
  ASSUME TypeOK, SessionOwnsPty, InputReachesAddressee,
         NEW queue \in Seq(Typed), Addressed(queue), NEW ended,
         Flush(queue, ended), UNCHANGED generation
  PROVE  UnsentOK' /\ InputReachesAddressee'
<1>1. CASE session # 0 /\ ~ended
  <2>1. PICK k \in 0 .. Len(queue) :
          /\ unsent' = SubSeq(queue, k + 1, Len(queue))
          /\ delivered' = delivered \cup {<<queue[i], session>> : i \in 1 .. k}
    BY <1>1 DEF Flush
  <2>2. \A i \in 1 .. Len(queue) : ~queue[i].answer => queue[i].for = generation
    BY DEF Addressed
  <2>3. UnsentOK'
    <3> SUFFICES ASSUME NEW i \in DOMAIN unsent', ~unsent'[i].answer
        PROVE  unsent'[i].for = generation
      BY DEF UnsentOK
    <3>1. Len(queue) \in Nat /\ k \in Nat /\ k <= Len(queue)
      OBVIOUS
    <3>2. /\ DOMAIN unsent' = 1 .. Len(queue) - k
          /\ unsent'[i] = queue[i + k]
      BY <2>1, <3>1, SubSeqProperties
    <3>3. i + k \in 1 .. Len(queue)
      BY <3>1, <3>2
    <3>4. QED
      BY <2>2, <3>2, <3>3
  <2>4. InputReachesAddressee'
    <3> SUFFICES ASSUME NEW d \in delivered', ~d[1].answer
        PROVE  d[1].for = d[2]
      BY DEF InputReachesAddressee
    <3>1. CASE d \in delivered
      BY <3>1 DEF InputReachesAddressee
    <3>2. CASE \E i \in 1 .. k : d = <<queue[i], session>>
      BY <1>1, <2>2, <3>2 DEF SessionOwnsPty
    <3>3. QED
      BY <2>1, <3>1, <3>2
  <2>5. QED
    BY <2>3, <2>4
<1>2. CASE ~(session # 0 /\ ~ended)
  BY <1>2 DEF Flush, Addressed, UnsentOK, InputReachesAddressee
<1>3. QED
  BY <1>1, <1>2

\* The emulator's replies are not input.
LEMMA AnsweredAddressed ==
  ASSUME TypeOK, UnsentOK, drainer # NoFiber, NEW answer
  PROVE  /\ Answered(answer) \in Seq(Typed) /\ Addressed(Answered(answer))
         /\ unsent \in Seq(Typed) /\ Addressed(unsent)
<1>1. /\ Answered(answer) \in Seq(Typed) /\ unsent \in Seq(Typed)
      /\ Addressed(unsent)
  BY FeedType DEF TypeOK, ScreenTypes, UnsentOK, Addressed
<1>2. \A i \in DOMAIN Answered(answer) :
        Answered(answer)[i].answer \/ (i \in DOMAIN unsent /\ Answered(answer)[i] = unsent[i])
  BY <1>1 DEF Answered
<1>3. Addressed(Answered(answer))
  BY <1>2, <1>1 DEF Addressed
<1>4. QED
  BY <1>1, <1>3

LEMMA NextAddressed ==
  ASSUME TypeOK, SessionOwnsPty, OneDrainer, UnsentOK, InputReachesAddressee,
         [Next]_vars
  PROVE  UnsentOK' /\ InputReachesAddressee'
<1>1. ASSUME UNCHANGED <<generation, delivered>>,
             \/ unsent' = unsent
             \/ drainer # NoFiber /\ \E a : unsent' = Answered(a)
      PROVE  UnsentOK' /\ InputReachesAddressee'
  BY <1>1, AnsweredAddressed DEF Addressed, UnsentOK, InputReachesAddressee
<1>2. ASSUME NEW f \in Conns, NEW size \in Sizes, SessionStart(f, size)
      PROVE  UnsentOK' /\ InputReachesAddressee'
  BY <1>2 DEF SessionStart, UnsentOK, InputReachesAddressee
<1>3. ASSUME NEW f \in Conns, SessionSend(f)
      PROVE  UnsentOK' /\ InputReachesAddressee'
  <2> DEFINE q == Append(unsent, [for |-> generation, answer |-> FALSE])
  <2>1. [for |-> generation, answer |-> FALSE] \in Typed
    BY <1>3, HostAssumption DEF SessionSend, SessionOwnsPty, TypeOK, SessionTypes, Typed, Gens
  <2>2. q \in Seq(Typed) /\ Addressed(q)
    BY <2>1 DEF TypeOK, ScreenTypes, UnsentOK, Addressed
  <2>3. Flush(q, exited) /\ UNCHANGED generation
    BY <1>3 DEF SessionSend
  <2>4. QED
    BY <2>2, <2>3, FlushAddressed
<1>4. ASSUME NEW f \in Conns,
             \/ \E size \in Sizes : SessionResize(f, size)
             \/ SessionStop(f)
             \/ \E o \in {"stop", "resize", "look"}, size \in Sizes :
                  RequestDrains(f, o, size)
             \/ StartResumes(f)
      PROVE  UnsentOK' /\ InputReachesAddressee'
  BY <1>1, <1>4 DEF SessionResize, SessionStop, RequestDrains, StartResumes
<1>5. CASE KeepDraining
  <2>1. unsent \in Seq(Typed) /\ Addressed(unsent) /\ UNCHANGED generation
    BY <1>5 DEF KeepDraining, TypeOK, ScreenTypes, UnsentOK, Addressed
  <2>2. CASE Flush(unsent, exited)
    BY <2>1, <2>2, FlushAddressed
  <2>3. CASE UNCHANGED <<unsent, delivered>>
    BY <1>1, <2>1, <2>3
  <2>4. QED
    BY <1>5, <2>2, <2>3 DEF KeepDraining
<1>6. ASSUME NEW f \in Fibers, Drains(f)
      PROVE  UnsentOK' /\ InputReachesAddressee'
  <2>1. drainer # NoFiber
    BY <1>6, HostAssumption DEF Drains, DrainMore, DrainRaises, DrainDone,
                                OneDrainer, Fibers
  <2>2. CASE DrainMore(f) \/ DrainRaises(f)
    BY <1>1, <2>1, <2>2 DEF DrainMore, DrainRaises
  <2>3. CASE DrainDone(f)
    <3>1. UNCHANGED generation
      BY <2>3 DEF DrainDone
    <3>2. PICK a \in Answers :
            LET queue == IF Len(Answered(a)) > MaxUnsent
                         THEN unsent ELSE Answered(a) IN
            (unsent' = queue /\ UNCHANGED delivered) \/ Flush(queue, Ended)
      BY <2>3 DEF DrainDone
    <3>3. CASE UNCHANGED delivered /\ (unsent' = unsent \/ unsent' = Answered(a))
      BY <1>1, <2>1, <3>1, <3>3
    <3>4. CASE Flush(unsent, Ended) \/ Flush(Answered(a), Ended)
      BY <2>1, <3>1, <3>4, AnsweredAddressed, FlushAddressed
    <3>5. QED
      BY <3>2, <3>3, <3>4
  <2>4. QED
    BY <1>6, <2>2, <2>3 DEF Drains
<1>7. ASSUME NEW g \in Gens,
             \/ PtyOpen(g)
             \/ ReadCall(g) \/ ReadChunk(g) \/ ReadEnds(g) \/ GiveEof(g)
             \/ ChildWrites(g) \/ ChildExits(g)
      PROVE  UnsentOK' /\ InputReachesAddressee'
  BY <1>1, <1>7 DEF PtyOpen, ReadCall, ReadChunk, ReadEnds, GiveEof,
                    ChildWrites, ChildExits
<1>8. CASE UNCHANGED vars
  BY <1>1, <1>8 DEF vars
<1>9. QED
  BY <1>2, <1>3, <1>4, <1>5, <1>6, <1>7, <1>8 DEF Next
-----------------------------------------------------------------------------
(* The theorems.                                                           *)

LEMMA InitIInv == Init => IInv
<1> SUFFICES ASSUME Init PROVE IInv
  OBVIOUS
<1>1. TypeOK
  BY InitType
<1>2. SessionOwnsPty /\ output = session /\ NoLeakedPty /\ FdsOK
  BY DEF Init, SessionOwnsPty, NoLeakedPty, FdsOK
<1>3. StartersOK /\ StartersDiffer /\ StartingHasStarter
  BY DEF Init, StartersOK, StartersDiffer, StartingHasStarter, Fibers
<1>4. ThreadsOK
  BY DEF Init, ThreadsOK
<1>5. OneDrainer
  BY HostAssumption DEF Init, OneDrainer, Fibers
<1>6. UnsentOK /\ InputReachesAddressee
  BY DEF Init, UnsentOK, InputReachesAddressee
<1>7. QED
  BY <1>1, <1>2, <1>3, <1>4, <1>5, <1>6 DEF IInv

LEMMA NextIInv == IInv /\ [Next]_vars => IInv'
<1> SUFFICES ASSUME IInv, [Next]_vars PROVE IInv'
  OBVIOUS
<1>1. TypeOK'
  BY NextType DEF IInv
<1>2. Own'
  BY NextKeepsOwn DEF IInv, Own
<1>3. OneDrainer'
  BY NextOneDrainer DEF IInv
<1>4. UnsentOK' /\ InputReachesAddressee'
  BY NextAddressed DEF IInv
<1>5. QED
  BY <1>1, <1>2, <1>3, <1>4 DEF IInv, Own

\* The supervisor's invariant: every state it reaches, in any interleaving of
\* requests, reader threads and children, satisfies all of IInv.
THEOREM Invariant == Spec => []IInv
BY InitIInv, NextIInv, PTL DEF Spec

\* The state keeps its types (host.janet 50-64).
THEOREM Types == Spec => []TypeOK
<1>1. IInv => TypeOK
  BY DEF IInv
<1>2. QED
  BY Invariant, <1>1, PTL

\* No shell outlives its session unnoticed (176-259).
THEOREM NoLeak == Spec => []NoLeakedPty
<1>1. IInv => NoLeakedPty
  BY DEF IInv
<1>2. QED
  BY Invariant, <1>1, PTL

\* The installed session is the newest one and its descriptor is its own.
THEOREM OwnPty == Spec => []SessionOwnsPty
<1>1. IInv => SessionOwnsPty
  BY DEF IInv
<1>2. QED
  BY Invariant, <1>1, PTL

\* `starting` is true exactly while the newest start is under way.
THEOREM Starting == Spec => []StartingHasStarter
<1>1. IInv => StartingHasStarter
  BY DEF IInv
<1>2. QED
  BY Invariant, <1>1, PTL

\* Input is never written to another session than the one it was typed for.
THEOREM Addressee == Spec => []InputReachesAddressee
<1>1. IInv => InputReachesAddressee
  BY DEF IInv
<1>2. QED
  BY Invariant, <1>1, PTL
=============================================================================
