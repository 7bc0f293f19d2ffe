-------------------------- MODULE PaneStreamProofs --------------------------
(***************************************************************************)
(* What TLC checks of PaneStream on a small instance holds for any number  *)
(* of panes, fibers and requests and queues of any size: the order and the *)
(* answers by IInv, the counts and the types by CountInv on top of it.     *)
(***************************************************************************)
EXTENDS PaneStream, Recursions

USE DEF socketVars, streamVars, logVars
-----------------------------------------------------------------------------
(* Queues.                                                                 *)

\* What is left of a queue is what was in it, one place further on.
LEMMA Rest ==
  ASSUME NEW S, NEW q \in Seq(S), q # <<>>
  PROVE  /\ Head(q) \in S /\ Head(q) = q[1] /\ 1 \in DOMAIN q
         /\ Tail(q) \in Seq(S)
         /\ \A k \in DOMAIN Tail(q) :
              k \in Nat /\ 1 < k + 1 /\ k + 1 \in DOMAIN q /\ Tail(q)[k] = q[k + 1]
BY HeadTailProperties, SMT

\* What is put into a queue comes last.
LEMMA Added ==
  ASSUME NEW S, NEW q \in Seq(S), NEW x \in S
  PROVE  /\ Append(q, x) \in Seq(S) /\ Len(Append(q, x)) = Len(q) + 1
         /\ Append(q, x)[Len(q) + 1] = x
         /\ DOMAIN Append(q, x) = DOMAIN q \union {Len(q) + 1}
         /\ \A k \in DOMAIN q : k < Len(q) + 1 /\ Append(q, x)[k] = q[k]
BY AppendProperties, SMT
-----------------------------------------------------------------------------
(* Sums.                                                                   *)

\* What the sums of the beginnings of a queue are.
LEMMA SumsOf ==
  ASSUME NEW s \in Seq(Nat)
  PROVE  /\ Sums(s) \in [0 .. Len(s) -> Nat] /\ Sums(s)[0] = 0
         /\ \A n \in 1 .. Len(s) : Sums(s)[n] = Sums(s)[n - 1] + s[n]
<1> DEFINE Eq(f) == f = [n \in 0 .. Len(s) |->
                          IF n = 0 THEN 0 ELSE f[n - 1] + s[n]]
           step == [x \in Nat \X Nat |-> x[2] + IF x[1] + 1 \in 1 .. Len(s) THEN s[x[1] + 1] ELSE 0]
<1>1. step \in [Nat \X Nat -> Nat]
  <2>1. \A x \in Nat \X Nat : x[1] + 1 \in 1 .. Len(s) => s[x[1] + 1] \in Nat
    OBVIOUS
  <2>2. QED
    BY <2>1
<1>2. \A n, m \in Nat : n + 1 \in 1 .. Len(s) => step[n, m] = m + s[n + 1]
  OBVIOUS
<1>3. Len(s) \in Nat
  OBVIOUS
<1> HIDE DEF step
<1>4. PICK f \in [0 .. Len(s) -> Nat] : Iterates(f, Len(s), 0, step)
  BY <1>1, <1>3, Iteration
<1>5. \A n \in 1 .. Len(s) : f[n] = f[n - 1] + s[n]
  <2> TAKE n \in 1 .. Len(s)
  <2>1. n - 1 \in 0 .. Len(s) - 1 /\ n - 1 \in Nat /\ n - 1 \in 0 .. Len(s) /\ (n - 1) + 1 = n
    BY <1>3
  <2>2. f[(n - 1) + 1] = step[n - 1, f[n - 1]]
    BY <1>4, <2>1, Zenon DEF Iterates
  <2>3. f[n - 1] \in Nat
    BY <1>4, <2>1
  <2>4. QED
    BY <1>2, <2>1, <2>2, <2>3
<1>6. f[0] = 0
  BY <1>4 DEF Iterates
<1>7. Eq(f)
  <2>1. \A n \in 0 .. Len(s) : f[n] = IF n = 0 THEN 0 ELSE f[n - 1] + s[n]
    BY <1>3, <1>5, <1>6
  <2>2. QED
    BY <1>4, <2>1
<1>8. Sums(s) = CHOOSE g : Eq(g)
  BY DEF Sums
<1>9. Eq(Sums(s))
  <2> HIDE DEF Eq
  <2>1. QED
    BY <1>7, <1>8
<1> DEFINE g == Sums(s)
<1>10. g = [n \in 0 .. Len(s) |-> IF n = 0 THEN 0 ELSE g[n - 1] + s[n]]
  BY <1>9
<1> HIDE DEF g
<1>11. /\ g[0] = 0
       /\ \A n \in 1 .. Len(s) : g[n] = g[n - 1] + s[n]
  BY <1>3, <1>10
<1>12. \A n \in Nat : n \in 0 .. Len(s) => g[n] \in Nat
  <2> DEFINE T == {n \in Nat : n \in 0 .. Len(s) => g[n] \in Nat}
  <2>1. T \subseteq Nat /\ 0 \in T
    BY <1>11
  <2>2. \A n \in T : n + 1 \in T
    <3> SUFFICES ASSUME NEW n \in Nat, n \in T, n + 1 \in 0 .. Len(s) PROVE g[n + 1] \in Nat
      OBVIOUS
    <3>1. g[n] \in Nat
      BY <1>3
    <3>2. n + 1 \in 1 .. Len(s) /\ s[n + 1] \in Nat /\ (n + 1) - 1 = n
      BY <1>3
    <3>3. QED
      BY <1>11, <3>1, <3>2
  <2> HIDE DEF T
  <2>3. T = Nat
    BY <2>1, <2>2, Induction
  <2>4. QED
    BY <2>3 DEF T
<1>13. g \in [0 .. Len(s) -> Nat]
  BY <1>10, <1>12
<1>14. QED
  BY <1>11, <1>13 DEF g

LEMMA SumType ==
  ASSUME NEW s \in Seq(Nat)
  PROVE  Sum(s) \in Nat
BY SumsOf DEF Sum

LEMMA SumEmpty == Sum(<<>>) = 0
<1>1. <<>> \in Seq(Nat) /\ Len(<<>>) = 0
  OBVIOUS
<1>2. QED
  BY <1>1, SumsOf DEF Sum

\* Sums of two queues grow alike where they have the same.
AreSums(f, s) ==
  /\ f \in [0 .. Len(s) -> Nat] /\ f[0] = 0
  /\ \A n \in 1 .. Len(s) : f[n] = f[n - 1] + s[n]

LEMMA SumsSame ==
  ASSUME NEW s \in Seq(Nat), NEW t \in Seq(Nat), NEW off \in Nat, NEW len \in Nat,
         len <= Len(s), len + off <= Len(t),
         \A k \in 1 .. len : s[k] = t[k + off]
  PROVE  \A f, g : AreSums(f, s) /\ AreSums(g, t) =>
           g[len + off] = g[off] + f[len]
<1> SUFFICES ASSUME NEW f, NEW g, AreSums(f, s), AreSums(g, t)
             PROVE  g[len + off] = g[off] + f[len]
  OBVIOUS
<1> DEFINE T == {n \in Nat : n <= len => g[n + off] = g[off] + f[n]}
<1>0. /\ \A n \in 0 .. Len(s) : f[n] \in Nat
      /\ \A n \in 0 .. Len(t) : g[n] \in Nat
      /\ \A n \in 1 .. Len(s) : s[n] \in Nat
      /\ Len(s) \in Nat /\ Len(t) \in Nat
  <2>1. f \in [0 .. Len(s) -> Nat] /\ g \in [0 .. Len(t) -> Nat]
    BY DEF AreSums
  <2>2. /\ \A n \in 1 .. Len(s) : s[n] \in Nat
        /\ Len(s) \in Nat /\ Len(t) \in Nat
    OBVIOUS
  <2>3. QED
    BY <2>1, <2>2
<1>1. T \subseteq Nat /\ 0 \in T
  <2>1. f[0] = 0 /\ 0 + off = off /\ g[off] \in Nat
    BY <1>0 DEF AreSums
  <2>2. QED
    BY <2>1
<1>2. \A n \in Nat : n \in T => n + 1 \in T
  <2> SUFFICES ASSUME NEW n \in Nat, n \in T, n + 1 <= len
               PROVE  g[(n + 1) + off] = g[off] + f[n + 1]
    OBVIOUS
  <2>1. g[n + off] = g[off] + f[n]
    OBVIOUS
  <2> HIDE DEF T
  <2>2. /\ n + 1 \in 1 .. len /\ n + 1 \in 1 .. Len(s) /\ (n + 1) + off \in 1 .. Len(t)
        /\ (n + 1) - 1 = n /\ ((n + 1) + off) - 1 = n + off
        /\ n \in 0 .. Len(s) /\ off \in 0 .. Len(t) /\ (n + 1) + off = n + (1 + off)
    BY <1>0
  <2>3. f[n + 1] = f[n] + s[n + 1]
    BY <2>2 DEF AreSums
  <2>4. g[(n + 1) + off] = g[n + off] + t[(n + 1) + off]
    BY <2>2 DEF AreSums
  <2>5. s[n + 1] = t[(n + 1) + off] /\ s[n + 1] \in Nat
    BY <1>0, <2>2
  <2>6. f[n] \in Nat /\ g[off] \in Nat
    BY <1>0, <2>2
  <2>7. PICK m : m = (n + 1) + off
    OBVIOUS
  <2>8. g[m] = g[n + off] + s[n + 1] /\ g[n + off] = g[off] + f[n]
    BY <2>1, <2>4, <2>5, <2>7
  <2>9. g[m] = g[off] + f[n + 1]
    <3>1. PICK a \in Nat : a = f[n]
      BY <2>6
    <3>2. PICK b \in Nat : b = g[off]
      BY <2>6
    <3>3. PICK c \in Nat : c = s[n + 1]
      BY <2>5
    <3>4. g[m] = (b + a) + c /\ f[n + 1] = a + c
      BY <2>3, <2>8, <3>1, <3>2, <3>3
    <3>5. (b + a) + c = b + (a + c)
      OBVIOUS
    <3>6. QED
      BY <3>2, <3>4, <3>5, Zenon
  <2>10. QED
    BY <2>7, <2>9
<1>3. \A n \in T : n + 1 \in T
  BY <1>1, <1>2
<1> HIDE DEF T
<1>4. T = Nat
  BY <1>1, <1>3, Induction
<1>5. len \in T
  BY <1>4
<1>6. QED
  BY <1>5 DEF T

\* What comes last is added to the sum.
LEMMA SumAdded ==
  ASSUME NEW s \in Seq(Nat), NEW t \in Seq(Nat), Len(t) = Len(s) + 1,
         \A k \in 1 .. Len(s) : t[k] = s[k]
  PROVE  Sum(t) = Sum(s) + t[Len(t)]
<1>1. PICK f : f = Sums(s) /\ AreSums(f, s)
  BY SumsOf DEF AreSums
<1>2. PICK g : g = Sums(t) /\ AreSums(g, t)
  BY SumsOf DEF AreSums
<1>3. g[Len(s) + 0] = g[0] + f[Len(s)]
  <2>1. Len(s) <= Len(s) /\ Len(s) + 0 <= Len(t) /\ Len(s) \in Nat /\ 0 \in Nat
    OBVIOUS
  <2>2. \A k \in 1 .. Len(s) : s[k] = t[k + 0]
    OBVIOUS
  <2>3. \A h, m : AreSums(h, s) /\ AreSums(m, t) =>
          m[Len(s) + 0] = m[0] + h[Len(s)]
    BY <2>1, <2>2, SumsSame
  <2>4. QED
    BY <1>1, <1>2, <2>3
<1>4. g[Len(t)] = f[Len(s)] + t[Len(t)]
  <2>1. Len(s) + 0 = Len(s) /\ Len(t) - 1 = Len(s) /\ Len(t) \in 1 .. Len(t)
    OBVIOUS
  <2>2. g[Len(t)] = g[Len(s)] + t[Len(t)] /\ g[0] = 0
    BY <1>2, <2>1 DEF AreSums
  <2>3. f[Len(s)] \in Nat
    <3>1. f \in [0 .. Len(s) -> Nat]
      BY <1>1 DEF AreSums
    <3>2. Len(s) \in 0 .. Len(s)
      OBVIOUS
    <3>3. QED
      BY <3>1, <3>2
  <2>4. QED
    BY <1>3, <2>1, <2>2, <2>3
<1>5. QED
  BY <1>1, <1>2, <1>4 DEF Sum

\* What comes first is added to the sum of the rest.
LEMMA SumRest ==
  ASSUME NEW s \in Seq(Nat), NEW t \in Seq(Nat), Len(s) = Len(t) + 1,
         \A k \in 1 .. Len(t) : t[k] = s[k + 1]
  PROVE  Sum(s) = s[1] + Sum(t)
<1>1. PICK f : f = Sums(t) /\ AreSums(f, t)
  BY SumsOf DEF AreSums
<1>2. PICK g : g = Sums(s) /\ AreSums(g, s)
  BY SumsOf DEF AreSums
<1>3. g[Len(t) + 1] = g[1] + f[Len(t)]
  <2>1. Len(t) <= Len(t) /\ Len(t) + 1 <= Len(s) /\ Len(t) \in Nat /\ 1 \in Nat
    OBVIOUS
  <2>2. \A h, m : AreSums(h, t) /\ AreSums(m, s) =>
          m[Len(t) + 1] = m[1] + h[Len(t)]
    BY <2>1, SumsSame
  <2>3. QED
    BY <1>1, <1>2, <2>2
<1>4. g[1] = s[1]
  <2>1. 1 \in 1 .. Len(s) /\ 1 - 1 = 0 /\ s[1] \in Nat
    OBVIOUS
  <2>2. g[1] = g[0] + s[1] /\ g[0] = 0
    BY <1>2, <2>1 DEF AreSums
  <2>3. QED
    BY <2>1, <2>2
<1>5. QED
  BY <1>1, <1>2, <1>3, <1>4 DEF Sum

\* The weight of what is in a queue.
Weight(of, q) == Sum([k \in DOMAIN q |-> of[q[k]]])

LEMMA Weighed ==
  ASSUME NEW S, NEW of \in [S -> Nat], NEW q \in Seq(S)
  PROVE  [k \in DOMAIN q |-> of[q[k]]] \in Seq(Nat) /\ Weight(of, q) \in Nat
<1> DEFINE s == [k \in DOMAIN q |-> of[q[k]]]
<1>1. s \in Seq(Nat)
  OBVIOUS
<1>2. Sum(s) \in Nat
  BY <1>1, SumType
<1>3. QED
  BY <1>1, <1>2 DEF Weight

LEMMA NoWeight ==
  ASSUME NEW of
  PROVE  Weight(of, <<>>) = 0
<1>1. [k \in DOMAIN <<>> |-> of[<<>>[k]]] = <<>>
  OBVIOUS
<1>2. QED
  BY <1>1, SumEmpty DEF Weight

LEMMA WeightAdded ==
  ASSUME NEW S, NEW of \in [S -> Nat], NEW q \in Seq(S), NEW x \in S
  PROVE  Weight(of, Append(q, x)) = Weight(of, q) + of[x]
<1>1. PICK r \in Seq(S) :
        /\ r = Append(q, x) /\ Len(r) = Len(q) + 1 /\ r[Len(q) + 1] = x
        /\ \A k \in 1 .. Len(q) : r[k] = q[k]
  <2>1. Append(q, x) \in Seq(S) /\ Len(Append(q, x)) = Len(q) + 1
    OBVIOUS
  <2>2. Append(q, x)[Len(q) + 1] = x
    OBVIOUS
  <2>3. \A k \in 1 .. Len(q) : Append(q, x)[k] = q[k]
    OBVIOUS
  <2>4. QED
    BY <2>1, <2>2, <2>3
<1>2. PICK s \in Seq(Nat) : s = [k \in DOMAIN q |-> of[q[k]]]
  BY Weighed
<1>3. PICK t \in Seq(Nat) : t = [k \in DOMAIN r |-> of[r[k]]]
  BY Weighed
<1>4. Len(s) = Len(q) /\ Len(t) = Len(r) /\ t[Len(t)] = of[x]
  BY <1>1, <1>2, <1>3
<1>5. \A k \in 1 .. Len(s) : t[k] = s[k]
  BY <1>1, <1>2, <1>3, <1>4
<1>6. Sum(t) = Sum(s) + t[Len(t)]
  BY <1>1, <1>4, <1>5, SumAdded
<1>7. QED
  BY <1>1, <1>2, <1>3, <1>4, <1>6 DEF Weight

LEMMA WeightRest ==
  ASSUME NEW S, NEW of \in [S -> Nat], NEW q \in Seq(S), q # <<>>
  PROVE  Weight(of, q) = of[Head(q)] + Weight(of, Tail(q))
<1>1. PICK r \in Seq(S) :
        /\ r = Tail(q) /\ Len(q) = Len(r) + 1 /\ Head(q) = q[1]
        /\ \A k \in 1 .. Len(r) : r[k] = q[k + 1]
  <2>1. Tail(q) \in Seq(S) /\ Len(q) = Len(Tail(q)) + 1 /\ Head(q) = q[1]
    OBVIOUS
  <2>2. \A k \in 1 .. Len(Tail(q)) : Tail(q)[k] = q[k + 1]
    OBVIOUS
  <2>3. QED
    BY <2>1, <2>2
<1>2. PICK s \in Seq(Nat) : s = [k \in DOMAIN q |-> of[q[k]]]
  BY Weighed
<1>3. PICK t \in Seq(Nat) : t = [k \in DOMAIN r |-> of[r[k]]]
  BY Weighed
<1>4. Len(s) = Len(q) /\ Len(t) = Len(r) /\ s[1] = of[Head(q)]
  BY <1>1, <1>2, <1>3
<1>5. \A k \in 1 .. Len(t) : t[k] = s[k + 1]
  BY <1>1, <1>2, <1>3, <1>4
<1>6. Sum(s) = s[1] + Sum(t)
  BY <1>1, <1>4, <1>5, SumRest
<1>7. QED
  BY <1>1, <1>2, <1>3, <1>4, <1>6 DEF Weight
-----------------------------------------------------------------------------
(* What one actor has, a, and what it goes on with, b.                     *)

\* It keeps what it has, or takes the first request of its queue.
Takes(a, b) == a.queue # <<>> /\ b.queue = Tail(a.queue) /\ b.job = Head(a.queue)
Keeps(a, b) == b.queue = a.queue /\ b.job = a.job
Moves(a, b) ==
  /\ b \in ActorRec(Int) /\ b.pane = a.pane
  /\ Keeps(a, b) \/ Takes(a, b)

\* A job that is none is of no request.
LEMMA NoJobId == NoJob.id = 0 /\ \A job \in Job : job.id \in Ids /\ job # NoJob
BY PaneStreamAssumption DEF NoJob, Job, Ids, PaneStreamAssumption

LEMMA JobIds ==
  ASSUME NEW a \in ActorRec(Int)
  PROVE  /\ a.queue \in Seq(Job) /\ a.job \in Job \union {NoJob} /\ a.job.id \in Nat
         /\ a.job # NoJob => a.job.id \in Ids
         /\ \A k \in DOMAIN a.queue : a.queue[k] \in Job /\ a.queue[k].id \in Ids
<1>1. a.queue \in Seq(Job) /\ a.job \in Job \union {NoJob}
  BY DEF ActorRec
<1>2. \A k \in DOMAIN a.queue : a.queue[k] \in Job
  BY <1>1
<1>3. Ids \subseteq Nat
  BY PaneStreamAssumption DEF Ids, PaneStreamAssumption
<1>4. a.job.id \in Nat /\ (a.job # NoJob => a.job.id \in Ids)
  <2>1. CASE a.job = NoJob
    BY <2>1, NoJobId
  <2>2. CASE a.job \in Job
    BY <2>2, <1>3, NoJobId
  <2>3. QED
    BY <1>1, <2>1, <2>2
<1>5. QED
  BY <1>1, <1>2, <1>4, NoJobId

\* The requests it has stay requests of its pane in order.
LEMMA JobsMove ==
  ASSUME NEW i, NEW a \in ActorRec(Int), NEW b, NEW reqs, Moves(a, b),
         JobsOK(i, a, reqs),
         b.pc \in {"took", "running", "replying", "drained"} => b.job # NoJob
  PROVE  JobsOK(i, b, reqs)
<1>1. CASE Keeps(a, b)
  BY <1>1 DEF Keeps, Moves, JobsOK
<1>2. CASE Takes(a, b)
  <2>1. a.queue \in Seq(Job) /\ a.queue # <<>>
    BY <1>2, JobIds DEF Takes
  <2>2. /\ b.job = a.queue[1] /\ 1 \in DOMAIN a.queue
        /\ \A k \in DOMAIN b.queue :
             k \in Nat /\ 1 < k + 1 /\ k + 1 \in DOMAIN a.queue
             /\ b.queue[k] = a.queue[k + 1]
    BY <1>2, <2>1, Rest DEF Takes
  <2>3. \A k, l \in DOMAIN b.queue : k < l => k + 1 < l + 1
    BY <2>2
  <2>4. \A k \in DOMAIN b.queue :
          JobOf(i, b.pane, b.queue[k], reqs) /\ b.job.id < b.queue[k].id
    BY <2>2 DEF JobsOK, Moves
  <2>5. \A k, l \in DOMAIN b.queue : k < l => b.queue[k].id < b.queue[l].id
    BY <2>2, <2>3 DEF JobsOK
  <2>6. JobOf(i, b.pane, b.job, reqs)
    BY <2>2 DEF JobsOK, Moves
  <2>7. QED
    BY <2>4, <2>5, <2>6 DEF JobsOK
<1>3. QED
  BY <1>1, <1>2 DEF Moves

\* What was carried out before all it has was carried out before what it
\* goes on with.
LEMMA AheadMoves ==
  ASSUME NEW a \in ActorRec(Int), NEW b, NEW n, Moves(a, b), Ahead(n, a),
         b.pc = "took" => a.pc = "took" \/ Takes(a, b)
  PROVE  Ahead(n, b)
<1>1. CASE Keeps(a, b) /\ ~Takes(a, b)
  BY <1>1 DEF Keeps, Ahead
<1>2. CASE Takes(a, b)
  <2>1. a.queue \in Seq(Job) /\ a.queue # <<>>
    BY <1>2, JobIds DEF Takes
  <2>2. /\ b.job = a.queue[1] /\ 1 \in DOMAIN a.queue
        /\ \A k \in DOMAIN b.queue :
             k + 1 \in DOMAIN a.queue /\ b.queue[k] = a.queue[k + 1]
    BY <1>2, <2>1, Rest DEF Takes
  <2>3. QED
    BY <2>2 DEF Ahead
<1>3. QED
  BY <1>1, <1>2 DEF Moves

\* What it has is unanswered still, when it has no reply to send.
LEMMA UnansweredMoves ==
  ASSUME NEW a \in ActorRec(Int), NEW b, NEW given, Moves(a, b),
         AnswerOK(a, NoFrame, given),
         b.pc \in {"took", "running", "drained"} =>
           a.pc \in {"took", "running", "drained"} \/ Takes(a, b)
  PROVE  AnswerOK(b, NoFrame, given)
<1>1. CASE Keeps(a, b) /\ ~Takes(a, b)
  BY <1>1 DEF Keeps, AnswerOK
<1>2. CASE Takes(a, b)
  <2>1. a.queue \in Seq(Job) /\ a.queue # <<>>
    BY <1>2, JobIds DEF Takes
  <2>2. /\ b.job = a.queue[1] /\ 1 \in DOMAIN a.queue
        /\ \A k \in DOMAIN b.queue :
             k + 1 \in DOMAIN a.queue /\ b.queue[k] = a.queue[k + 1]
    BY <1>2, <2>1, Rest DEF Takes
  <2>3. QED
    BY <2>2 DEF AnswerOK
<1>3. QED
  BY <1>1, <1>2 DEF Moves

\* The answer to its own request leaves the ones in its queue unanswered.
LEMMA AnsweredOwn ==
  ASSUME NEW i, NEW a \in ActorRec(Int), NEW b, NEW reqs, NEW frame,
         NEW given \in [Ids -> Nat], JobsOK(i, a, reqs), AnswerOK(a, frame, given),
         Keeps(a, b), b.pc \in {"replying", "passing"}
  PROVE  AnswerOK(b, NoFrame, [given EXCEPT ![a.job.id] = @ + 1])
<1>1. \A k \in DOMAIN a.queue :
        /\ a.queue[k].id \in Ids /\ a.queue[k].id # a.job.id
        /\ given[a.queue[k].id] = 0
  <2>1. \A k \in DOMAIN a.queue : a.job.id < a.queue[k].id /\ given[a.queue[k].id] = 0
    BY DEF JobsOK, AnswerOK
  <2>2. QED
    BY <2>1, JobIds, PaneStreamAssumption DEF Ids, PaneStreamAssumption
<1>2. QED
  BY <1>1 DEF AnswerOK, Keeps

\* The answer to a request that is not its own changes nothing for it.
LEMMA AnsweredElsewhere ==
  ASSUME NEW i, NEW a \in ActorRec(Int), NEW reqs, NEW frame, NEW n \in Ids,
         NEW given \in [Ids -> Nat], JobsOK(i, a, reqs), AnswerOK(a, frame, given),
         reqs[n].line # i
  PROVE  AnswerOK(a, frame, [given EXCEPT ![n] = @ + 1])
<1>1. \A k \in DOMAIN a.queue : a.queue[k].id # n
  <2>1. \A k \in DOMAIN a.queue : JobOf(i, a.pane, a.queue[k], reqs)
    BY DEF JobsOK
  <2>2. \A job : JobOf(i, a.pane, job, reqs) => reqs[job.id].line = i
    BY DEF JobOf
  <2>3. QED
    BY <2>1, <2>2
<1>2. a.job # NoJob => a.job.id # n
  BY DEF JobsOK, JobOf
<1>3. a.pc \in {"took", "running", "drained"} => a.job # NoJob
  BY DEF JobsOK
<1>4. /\ \A k \in DOMAIN a.queue : a.queue[k].id \in Ids
      /\ a.job # NoJob => a.job.id \in Ids
  BY JobIds
<1>5. QED
  BY <1>1, <1>2, <1>3, <1>4 DEF AnswerOK

\* Requests that are made later change nothing for it.
LEMMA AskedElsewhere ==
  ASSUME NEW i, NEW a \in ActorRec(Int), NEW reqs \in Seq(Request), NEW r \in Request,
         JobsOK(i, a, reqs)
  PROVE  JobsOK(i, a, Append(reqs, r))
<1>1. \A n \in DOMAIN reqs : n \in DOMAIN Append(reqs, r) /\ Append(reqs, r)[n] = reqs[n]
  BY Added
<1>2. \A job : JobOf(i, a.pane, job, reqs) => JobOf(i, a.pane, job, Append(reqs, r))
  BY <1>1 DEF JobOf
<1>3. QED
  BY <1>2 DEF JobsOK
-----------------------------------------------------------------------------
(* The invariant and its parts, from one state to the next.                *)

LEMMA Shapes ==
  ASSUME IInv
  PROVE  /\ \A i \in Actors : act[i] \in ActorRec(Int)
         /\ DOMAIN requests \subseteq Ids /\ Len(requests) \in Nat
         /\ \A n \in DOMAIN requests : requests[n] \in Request
         /\ \A m \in DOMAIN begun : begun[m] \in Ids
         /\ None \notin Actors /\ Actors \subseteq Fibers /\ Reader \in Fibers
         /\ Subs \subseteq Fibers /\ Reader \notin Actors \union Subs
         /\ \A i \in Actors : i \notin Subs /\ i # Reader
         /\ \A n \in Ids : n \in Nat
<1>1. /\ None \notin Actors /\ Actors \subseteq Fibers /\ Reader \in Fibers
      /\ Subs \subseteq Fibers /\ Reader \notin Actors \union Subs
      /\ \A i \in Actors : i \notin Subs /\ i # Reader
  BY PaneStreamAssumption DEF PaneStreamAssumption, Fibers
<1>2. MaxMessages \in Nat
  BY PaneStreamAssumption DEF PaneStreamAssumption
<1>3. requests \in Seq(Request) /\ Len(requests) <= MaxMessages
  BY DEF IInv, ShapeInv
<1>4. DOMAIN requests \subseteq Ids /\ Len(requests) \in Nat
  BY <1>2, <1>3 DEF Ids
<1>5. QED
  BY <1>1, <1>2, <1>3, <1>4 DEF IInv, ShapeInv, Ids

\* Only the actor of the table carries out a request of its pane.
LEMMA OneOfPane ==
  ASSUME NEW acts, NEW table, NEW reqs,
         \A i \in Actors : TableOK(i, acts[i], table, reqs)
  PROVE  \A i1, i2 \in Actors :
           /\ {acts[i1].pc, acts[i2].pc} \subseteq {"took", "running"}
           /\ acts[i1].pane = acts[i2].pane
           => i1 = i2
<1>1. \A i \in Actors : acts[i].pc \in {"took", "running"} => table[acts[i].pane] = i
  BY DEF TableOK
<1>2. QED
  BY <1>1

LEMMA OrderStays ==
  ASSUME IInv, TableInv', begun' = begun,
         \A n \in DOMAIN requests : requests'[n] = requests[n]
  PROVE  InOrder' /\ ShutdownIsLast'
<1>1. \A m \in DOMAIN begun : requests'[begun[m]] = requests[begun[m]]
  BY DEF IInv, BegunInv, BegunOK
<1>2. \A i1, i2 \in Actors :
        /\ {act'[i1].pc, act'[i2].pc} \subseteq {"took", "running"}
        /\ act'[i1].pane = act'[i2].pane
        => i1 = i2
  <2>1. \A i \in Actors : TableOK(i, act'[i], actors', requests')
    BY DEF TableInv
  <2>2. QED
    BY <2>1, OneOfPane
<1>3. InOrder'
  BY <1>1, <1>2 DEF InOrder, IInv, BegunInv
<1>4. ShutdownIsLast'
  BY <1>1 DEF ShutdownIsLast, IInv, BegunInv
<1>5. QED
  BY <1>3, <1>4

\* A step that only one actor takes, of those of its pane.
LEMMA OneActor ==
  ASSUME IInv, NEW i \in Actors, NEW b \in ActorRec(Int),
         act' = [act EXCEPT ![i] = b], UNCHANGED <<actors, requests, begun>>,
         b.pane = act[i].pane, b.on = act[i].on,
         TableOK(i, b, actors, requests), JobsOK(i, b, requests),
         \A n : Ahead(n, act[i]) => Ahead(n, b),
         \A n : requests[n].op = "shutdown" /\ DoneWith(n, act[i]) => DoneWith(n, b)
  PROVE  act' \in [Actors -> ActorRec(Int)] /\ TableInv' /\ JobsInv' /\ BegunInv'
<1>1. act \in [Actors -> ActorRec(Int)]
  BY DEF IInv, ShapeInv
<1>2. /\ act'[i] = b /\ \A k \in Actors : k # i => act'[k] = act[k]
      /\ act' \in [Actors -> ActorRec(Int)]
      /\ \A k \in Actors : act'[k].on = act[k].on /\ act'[k].pane = act[k].pane
  BY <1>1
<1>3. TableInv'
  <2>1. \A k \in Actors : TableOK(k, act'[k], actors', requests')
    BY <1>2 DEF IInv, TableInv
  <2>2. \A p \in Panes : actors[p] # None => actors[p] \in Actors
    BY DEF IInv, ShapeInv
  <2>3. QED
    BY <1>2, <2>1, <2>2 DEF IInv, TableInv
<1>4. JobsInv'
  BY <1>2 DEF IInv, JobsInv
<1>5. \A m \in DOMAIN begun : BegunOK(begun[m], act', actors, requests)
  <2> SUFFICES ASSUME NEW m \in DOMAIN begun
               PROVE  BegunOK(begun[m], act', actors, requests)
    OBVIOUS
  <2>1. BegunOK(begun[m], act, actors, requests)
    BY DEF IInv, BegunInv
  <2>2. \A k \in Actors : /\ \A n : Ahead(n, act[k]) => Ahead(n, act'[k])
                          /\ \A n : requests[n].op = "shutdown" /\ DoneWith(n, act[k])
                                    => DoneWith(n, act'[k])
    BY <1>2
  <2>3. LET k == actors[requests[begun[m]].pane] IN k # None => k \in Actors
    <3>1. requests[begun[m]] \in Request
      BY <2>1, Shapes DEF BegunOK
    <3>2. QED
      BY <3>1 DEF Request, IInv, ShapeInv
  <2>4. QED
    BY <2>1, <2>2, <2>3 DEF BegunOK
<1>6. InOrder' /\ ShutdownIsLast'
  BY <1>3, OrderStays
<1>7. BegunInv'
  BY <1>5, <1>6 DEF BegunInv
<1>8. QED
  BY <1>2, <1>3, <1>4, <1>7
-----------------------------------------------------------------------------
(* What a send does to answers.                                            *)

\* The frame is put into the channel or waits for room, or the send raises.
Goes(f, frame) ==
  \/ UNCHANGED <<wait, answers>>
  \/ /\ UNCHANGED wait /\ frame.kind = "reply"
     /\ answers' = [answers EXCEPT ![frame.of] = @ + 1]
  \/ wait' = [wait EXCEPT ![f] = frame] /\ UNCHANGED answers

LEMMA SendGoes ==
  ASSUME NEW f, NEW frame, Send(f, frame)
  PROVE  Goes(f, frame)
BY DEF Send, Put, Goes

ReplyFrame(id) == [kind |-> "reply", of |-> id, len |-> 1]

LEMMA ReplyGoes ==
  ASSUME NEW f, NEW id, Reply(f, id)
  PROVE  \/ UNCHANGED <<wait, answers>>
         \/ UNCHANGED wait /\ answers' = [answers EXCEPT ![id] = @ + 1]
         \/ wait' = [wait EXCEPT ![f] = ReplyFrame(id)] /\ UNCHANGED answers
<1>1. CASE open
  <2>1. Send(f, ReplyFrame(id))
    BY <1>1 DEF Reply, ReplyFrame
  <2>2. QED
    BY <2>1, SendGoes DEF Goes, ReplyFrame
<1>2. CASE ~open
  BY <1>2 DEF Reply
<1>3. QED
  BY <1>1, <1>2

LEMMA Frames ==
  /\ \A id \in Ids : ReplyFrame(id) \in Frame
  /\ \A frame \in Frame : frame # NoFrame
  /\ NoFrame.kind # "reply"
BY DEF ReplyFrame, Frame, NoFrame

LEMMA Counted ==
  ASSUME IInv, NEW n \in DOMAIN requests, answers[n] = 0
  PROVE  LET given == [answers EXCEPT ![n] = @ + 1]
         IN /\ given \in [Ids -> Nat]
            /\ \A m \in Ids : given[m] <= 1
            /\ \A m \in Ids : m > Len(requests) => given[m] = 0
<1>1. /\ answers \in [Ids -> Nat] /\ n \in Ids /\ requests \in Seq(Request)
      /\ \A m \in Ids : answers[m] <= 1 /\ (m > Len(requests) => answers[m] = 0)
  BY Shapes DEF IInv, ShapeInv, AnswerInv, AnsweredOnce
<1>2. ~(n > Len(requests))
  BY <1>1
<1>3. QED
  BY <1>1, <1>2

\* An actor replies to the request it has, which has no answer.
LEMMA ActorReplies ==
  ASSUME IInv, NEW i \in Actors, NEW b,
         act' = [act EXCEPT ![i] = b], UNCHANGED <<requests, reader>>,
         Reply(i, act[i].job.id), wait[i] = NoFrame,
         act[i].job # NoJob, answers[act[i].job.id] = 0,
         Keeps(act[i], b), b.pc \in {"replying", "passing"}
  PROVE  /\ AnswerInv' /\ answers' \in [Ids -> Nat]
         /\ wait' \in [Fibers -> Frame \union {NoFrame}]
<1> DEFINE id == act[i].job.id
<1>1. /\ act \in [Actors -> ActorRec(Int)] /\ answers \in [Ids -> Nat]
      /\ wait \in [Fibers -> Frame \union {NoFrame}] /\ requests' = requests
  BY DEF IInv, ShapeInv
<1>2. act'[i] = b /\ \A k \in Actors : k # i => act'[k] = act[k]
  BY <1>1
<1>3. \A k \in Actors : /\ act[k] \in ActorRec(Int) /\ JobsOK(k, act[k], requests)
                        /\ AnswerOK(act[k], wait[k], answers)
  BY <1>1 DEF IInv, JobsInv, AnswerInv
<1>4. id \in DOMAIN requests /\ requests[id].line = i /\ id \in Ids /\ answers[id] = 0
  <2>1. JobOf(i, act[i].pane, act[i].job, requests)
    BY <1>3 DEF JobsOK
  <2>2. QED
    BY <2>1, Shapes DEF JobOf
<1>5. /\ RefusalOK(wait[Reader], reader, requests, answers)
      /\ \A j \in Subs : wait[j].kind # "reply"
      /\ AnsweredOnce
  BY DEF IInv, AnswerInv
<1>6. CASE UNCHANGED <<wait, answers>>
  <2>1. AnswerOK(b, NoFrame, answers)
    BY <1>3 DEF AnswerOK, Keeps
  <2>2. \A k \in Actors : AnswerOK(act'[k], wait[k], answers)
    BY <1>2, <1>3, <2>1
  <2>3. QED
    BY <1>1, <1>5, <1>6, <2>2 DEF AnswerInv, AnsweredOnce
<1>7. CASE UNCHANGED wait /\ answers' = [answers EXCEPT ![id] = @ + 1]
  <2>1. AnswerOK(b, NoFrame, answers')
    BY <1>1, <1>3, <1>7, AnsweredOwn
  <2>2. \A k \in Actors : k # i => AnswerOK(act[k], wait[k], answers')
    BY <1>1, <1>3, <1>4, <1>7, AnsweredElsewhere
  <2>3. \A k \in Actors : AnswerOK(act'[k], wait[k], answers')
    BY <1>2, <2>1, <2>2
  <2>4. \A n \in Ids : n # id => answers'[n] = answers[n]
    BY <1>1, <1>7
  <2>5. RefusalOK(wait[Reader], reader, requests, answers')
    BY <1>4, <1>5, <2>4, Shapes DEF RefusalOK
  <2>6. answers' \in [Ids -> Nat] /\ AnsweredOnce'
    BY <1>1, <1>4, <1>7, Counted DEF AnsweredOnce
  <2>7. QED
    BY <1>1, <1>5, <1>7, <2>3, <2>5, <2>6 DEF AnswerInv
<1>8. CASE wait' = [wait EXCEPT ![i] = ReplyFrame(id)] /\ UNCHANGED answers
  <2>1. /\ wait'[i] = ReplyFrame(id) /\ \A f \in Fibers : f # i => wait'[f] = wait[f]
        /\ wait' \in [Fibers -> Frame \union {NoFrame}]
    <3>1. ReplyFrame(id) \in Frame /\ i \in Fibers
      BY <1>4, Frames, Shapes
    <3>2. QED
      BY <1>1, <1>8, <3>1
  <2>2. AnswerOK(b, ReplyFrame(id), answers)
    BY <1>3, <1>4 DEF AnswerOK, Keeps, ReplyFrame
  <2>3. \A k \in Actors : AnswerOK(act'[k], wait'[k], answers)
    BY <1>2, <1>3, <2>1, <2>2, Shapes
  <2>4. wait'[Reader] = wait[Reader] /\ \A j \in Subs : wait'[j] = wait[j]
    BY <2>1, Shapes
  <2>5. QED
    BY <1>1, <1>5, <1>8, <2>1, <2>3, <2>4 DEF AnswerInv, AnsweredOnce
<1>9. QED
  BY <1>6, <1>7, <1>8, ReplyGoes

\* A step of an actor that sends nothing.
LEMMA ActorSilent ==
  ASSUME IInv, NEW i \in Actors, NEW b,
         act' = [act EXCEPT ![i] = b], UNCHANGED <<requests, reader, wait, answers>>,
         AnswerOK(b, wait[i], answers)
  PROVE  AnswerInv'
<1>1. act'[i] = b /\ \A k \in Actors : k # i => act'[k] = act[k]
  BY DEF IInv, ShapeInv
<1>2. QED
  BY <1>1 DEF IInv, AnswerInv, AnsweredOnce
-----------------------------------------------------------------------------
(* The steps of an actor.                                                  *)

LEMMA LoopedMoves ==
  ASSUME NEW a \in ActorRec(Int), NEW b, b = Looped(a)
  PROVE  /\ Moves(a, b) /\ b.on = a.on
         /\ \/ b.pc = "ended" /\ Keeps(a, b)
            \/ b.pc = "taking" /\ a.on /\ b.queue = <<>> /\ Keeps(a, b)
            \/ b.pc = "took" /\ a.on /\ Takes(a, b) /\ b.job # NoJob
<1>1. a.queue \in Seq(Job)
  BY JobIds
<1>2. CASE ~open \/ ~a.on
  <2>1. b = [a EXCEPT !.pc = "ended"]
    BY <1>2 DEF Looped
  <2>2. QED
    BY <2>1 DEF ActorRec, ActorPcs, Moves, Keeps
<1>3. CASE open /\ a.on /\ a.queue = <<>>
  <2>1. b = [a EXCEPT !.pc = "taking"]
    BY <1>3 DEF Looped
  <2>2. QED
    BY <1>3, <2>1 DEF ActorRec, ActorPcs, Moves, Keeps
<1>4. CASE open /\ a.on /\ a.queue # <<>>
  <2>1. b = [a EXCEPT !.pc = "took", !.job = Head(a.queue), !.queue = Tail(a.queue)]
    BY <1>4 DEF Looped
  <2>2. Head(a.queue) \in Job /\ Tail(a.queue) \in Seq(Job)
    BY <1>1, <1>4, Rest
  <2>3. b.job # NoJob
    BY <2>1, <2>2, NoJobId DEF ActorRec
  <2>4. QED
    BY <1>4, <2>1, <2>2, <2>3 DEF ActorRec, ActorPcs, Moves, Takes
<1>5. QED
  BY <1>2, <1>3, <1>4

LEMMA DrainedMoves ==
  ASSUME NEW a \in ActorRec(Int), NEW b, b = Drained(a)
  PROVE  /\ Moves(a, b) /\ b.on = a.on
         /\ \/ b.pc \in {"ended", "spinning"} /\ Keeps(a, b)
            \/ b.pc = "drained" /\ Takes(a, b) /\ b.job # NoJob
<1>1. a.queue \in Seq(Job)
  BY JobIds
<1>2. CASE a.queue = <<>>
  <2>1. b = [a EXCEPT !.pc = "ended", !.closed = TRUE]
    BY <1>2 DEF Drained
  <2>2. QED
    BY <2>1 DEF ActorRec, ActorPcs, Moves, Keeps
<1>3. CASE a.queue # <<>> /\ a.closed
  <2>1. b = [a EXCEPT !.pc = "spinning"]
    BY <1>3 DEF Drained
  <2>2. QED
    BY <2>1 DEF ActorRec, ActorPcs, Moves, Keeps
<1>4. CASE a.queue # <<>> /\ ~a.closed
  <2>1. b = [a EXCEPT !.pc = "drained", !.job = Head(a.queue), !.queue = Tail(a.queue)]
    BY <1>4 DEF Drained
  <2>2. Head(a.queue) \in Job /\ Tail(a.queue) \in Seq(Job)
    BY <1>1, <1>4, Rest
  <2>3. b.job # NoJob
    BY <2>1, <2>2, NoJobId DEF ActorRec
  <2>4. QED
    BY <1>4, <2>1, <2>2, <2>3 DEF ActorRec, ActorPcs, Moves, Takes
<1>5. QED
  BY <1>2, <1>3, <1>4

\* What the invariant says of one actor.
LEMMA OfActor ==
  ASSUME IInv, NEW i \in Actors
  PROVE  /\ act[i] \in ActorRec(Int) /\ TableOK(i, act[i], actors, requests)
         /\ JobsOK(i, act[i], requests) /\ AnswerOK(act[i], wait[i], answers)
         /\ act[i].pc \notin {"replying", "passing"} => wait[i] = NoFrame
BY Shapes DEF IInv, TableInv, JobsInv, AnswerInv, AnswerOK

LEMMA ActorStartsKeeps ==
  ASSUME IInv, NEW i \in Actors, ActorStarts(i)
  PROVE  IInv'
<1> DEFINE a == act[i]
           b == Looped(a)
<1>1. /\ a.pc = "new" \/ a.pc = "taking"
      /\ act' = [act EXCEPT ![i] = b]
      /\ UNCHANGED <<socketVars, reader, open, actors, streams, sub, logVars>>
  BY DEF ActorStarts
<1>2. /\ a \in ActorRec(Int) /\ TableOK(i, a, actors, requests)
      /\ JobsOK(i, a, requests) /\ AnswerOK(a, wait[i], answers) /\ wait[i] = NoFrame
  BY <1>1, OfActor
<1>3. /\ Moves(a, b) /\ b.on = a.on
      /\ \/ b.pc = "ended" /\ Keeps(a, b)
         \/ b.pc = "taking" /\ a.on /\ b.queue = <<>> /\ Keeps(a, b)
         \/ b.pc = "took" /\ a.on /\ Takes(a, b) /\ b.job # NoJob
  BY <1>2, LoopedMoves
<1> HIDE DEF a, b
<1>4. TableOK(i, b, actors, requests)
  BY <1>2, <1>3 DEF TableOK, Moves
<1>5. JobsOK(i, b, requests)
  BY <1>2, <1>3, JobsMove
<1>6. \A n : Ahead(n, a) => Ahead(n, b)
  BY <1>2, <1>3, AheadMoves
<1>7. \A n : DoneWith(n, a) => DoneWith(n, b)
  BY <1>1, <1>3 DEF DoneWith
<1>8. AnswerOK(b, NoFrame, answers)
  BY <1>2, <1>3, UnansweredMoves
<1>9. act' \in [Actors -> ActorRec(Int)] /\ TableInv' /\ JobsInv' /\ BegunInv'
  BY <1>1, <1>3, <1>4, <1>5, <1>6, <1>7, OneActor DEF a, Moves
<1>10. AnswerInv'
  BY <1>1, <1>2, <1>8, ActorSilent DEF a
<1>11. QED
  BY <1>1, <1>9, <1>10 DEF IInv, ShapeInv
LEMMA EndKeeps ==
  ASSUME IInv, NEW i \in Actors, End(i)
  PROVE  IInv'
<1> DEFINE a == act[i]
           b == [a EXCEPT !.pc = "replying"]
<1>1. /\ a.pc = "running" /\ act' = [act EXCEPT ![i] = b] /\ Reply(i, a.job.id)
      /\ UNCHANGED <<reader, open, actors, streams, sub, logVars>>
  BY DEF End
<1>2. /\ a \in ActorRec(Int) /\ TableOK(i, a, actors, requests)
      /\ JobsOK(i, a, requests) /\ AnswerOK(a, wait[i], answers) /\ wait[i] = NoFrame
  BY <1>1, OfActor
<1>3. Moves(a, b) /\ Keeps(a, b) /\ b.on = a.on /\ b.pc = "replying"
  BY <1>2 DEF Moves, Keeps, ActorRec, ActorPcs
<1> HIDE DEF a, b
<1>4. TableOK(i, b, actors, requests)
  BY <1>1, <1>2, <1>3 DEF TableOK, Moves
<1>5. a.job # NoJob /\ answers[a.job.id] = 0
  BY <1>1, <1>2 DEF JobsOK, AnswerOK
<1>6. JobsOK(i, b, requests)
  BY <1>2, <1>3, <1>5, JobsMove DEF Keeps
<1>7. \A n : Ahead(n, a) => Ahead(n, b)
  BY <1>2, <1>3, AheadMoves
<1>8. \A n : DoneWith(n, a) => DoneWith(n, b)
  BY <1>1, <1>3 DEF DoneWith, Keeps
<1>9. act' \in [Actors -> ActorRec(Int)] /\ TableInv' /\ JobsInv' /\ BegunInv'
  BY <1>1, <1>3, <1>4, <1>6, <1>7, <1>8, OneActor DEF a, Moves
<1>10. /\ AnswerInv' /\ answers' \in [Ids -> Nat]
       /\ wait' \in [Fibers -> Frame \union {NoFrame}]
  BY <1>1, <1>2, <1>3, <1>5, ActorReplies DEF a
<1>11. QED
  BY <1>1, <1>9, <1>10 DEF IInv, ShapeInv

LEMMA DrainKeeps ==
  ASSUME IInv, NEW i \in Actors, Drain(i)
  PROVE  IInv'
<1> DEFINE a == act[i]
           b == [a EXCEPT !.pc = "passing"]
<1>1. /\ a.pc \in {"drained", "spinning"} /\ act' = [act EXCEPT ![i] = b]
      /\ IF a.pc = "drained" THEN Reply(i, a.job.id) ELSE UNCHANGED socketVars
      /\ UNCHANGED <<reader, open, actors, streams, sub, logVars>>
  BY DEF Drain
<1>2. /\ a \in ActorRec(Int) /\ TableOK(i, a, actors, requests)
      /\ JobsOK(i, a, requests) /\ AnswerOK(a, wait[i], answers) /\ wait[i] = NoFrame
  BY <1>1, OfActor
<1>3. Moves(a, b) /\ Keeps(a, b) /\ b.on = a.on /\ b.pc = "passing"
  BY <1>2 DEF Moves, Keeps, ActorRec, ActorPcs
<1> HIDE DEF a, b
<1>4. TableOK(i, b, actors, requests)
  BY <1>1, <1>2, <1>3 DEF TableOK, Moves
<1>5. JobsOK(i, b, requests)
  BY <1>2, <1>3, JobsMove
<1>6. \A n : Ahead(n, a) => Ahead(n, b)
  BY <1>2, <1>3, AheadMoves
<1>7. \A n : DoneWith(n, a) => DoneWith(n, b)
  BY <1>1, <1>3 DEF DoneWith, Keeps
<1>8. act' \in [Actors -> ActorRec(Int)] /\ TableInv' /\ JobsInv' /\ BegunInv'
  BY <1>1, <1>3, <1>4, <1>5, <1>6, <1>7, OneActor DEF a, Moves
<1>9. CASE a.pc = "drained"
  <2>1. a.job # NoJob /\ answers[a.job.id] = 0
    BY <1>2, <1>9 DEF JobsOK, AnswerOK
  <2>2. /\ AnswerInv' /\ answers' \in [Ids -> Nat]
        /\ wait' \in [Fibers -> Frame \union {NoFrame}]
    BY <1>1, <1>2, <1>3, <1>9, <2>1, ActorReplies DEF a
  <2>3. QED
    BY <1>1, <1>8, <2>2 DEF IInv, ShapeInv
<1>10. CASE a.pc = "spinning"
  <2>1. AnswerOK(b, NoFrame, answers)
    BY <1>2, <1>3, UnansweredMoves
  <2>2. AnswerInv'
    BY <1>1, <1>2, <1>10, <2>1, ActorSilent DEF a
  <2>3. QED
    BY <1>1, <1>8, <1>10, <2>2 DEF IInv, ShapeInv
<1>11. QED
  BY <1>1, <1>9, <1>10

LEMMA DrainOnKeeps ==
  ASSUME IInv, NEW i \in Actors, DrainOn(i)
  PROVE  IInv'
<1> DEFINE a == act[i]
           b == Drained(a)
<1>1. /\ a.pc = "passing" /\ wait[i] = NoFrame /\ act' = [act EXCEPT ![i] = b]
      /\ UNCHANGED <<socketVars, reader, open, actors, streams, sub, logVars>>
  BY DEF DrainOn, Sent
<1>2. /\ a \in ActorRec(Int) /\ TableOK(i, a, actors, requests)
      /\ JobsOK(i, a, requests) /\ AnswerOK(a, NoFrame, answers)
  BY <1>1, OfActor
<1>3. /\ Moves(a, b) /\ b.on = a.on
      /\ \/ b.pc \in {"ended", "spinning"} /\ Keeps(a, b)
         \/ b.pc = "drained" /\ Takes(a, b) /\ b.job # NoJob
  BY <1>2, DrainedMoves
<1> HIDE DEF a, b
<1>4. TableOK(i, b, actors, requests)
  BY <1>1, <1>2, <1>3 DEF TableOK, Moves
<1>5. JobsOK(i, b, requests)
  BY <1>2, <1>3, JobsMove
<1>6. \A n : Ahead(n, a) => Ahead(n, b)
  BY <1>2, <1>3, AheadMoves
<1>7. \A n : DoneWith(n, a) => DoneWith(n, b)
  BY <1>1, <1>3 DEF DoneWith
<1>8. act' \in [Actors -> ActorRec(Int)] /\ TableInv' /\ JobsInv' /\ BegunInv'
  BY <1>1, <1>3, <1>4, <1>5, <1>6, <1>7, OneActor DEF a, Moves
<1>9. AnswerOK(b, NoFrame, answers)
  BY <1>2, <1>3, UnansweredMoves
<1>10. AnswerInv'
  BY <1>1, <1>9, ActorSilent DEF a
<1>11. QED
  BY <1>1, <1>8, <1>10 DEF IInv, ShapeInv

LEMMA GoOnKeeps ==
  ASSUME IInv, NEW i \in Actors, GoOn(i), act[i].job.op # "shutdown"
  PROVE  IInv'
<1> DEFINE a == act[i]
           b == Looped(a)
<1>1. /\ a.pc = "replying" /\ wait[i] = NoFrame /\ act' = [act EXCEPT ![i] = b]
      /\ UNCHANGED <<socketVars, reader, open, actors, streams, sub, logVars>>
  BY DEF GoOn, Sent
<1>2. /\ a \in ActorRec(Int) /\ TableOK(i, a, actors, requests)
      /\ JobsOK(i, a, requests) /\ AnswerOK(a, NoFrame, answers)
  BY <1>1, OfActor
<1>3. /\ Moves(a, b) /\ b.on = a.on
      /\ \/ b.pc = "ended" /\ Keeps(a, b)
         \/ b.pc = "taking" /\ a.on /\ b.queue = <<>> /\ Keeps(a, b)
         \/ b.pc = "took" /\ a.on /\ Takes(a, b) /\ b.job # NoJob
  BY <1>2, LoopedMoves
<1>4. requests[a.job.id].op # "shutdown"
  BY <1>1, <1>2 DEF JobsOK, JobOf
<1> HIDE DEF a, b
<1>5. TableOK(i, b, actors, requests)
  BY <1>1, <1>2, <1>3 DEF TableOK, Moves
<1>6. JobsOK(i, b, requests)
  BY <1>2, <1>3, JobsMove
<1>7. \A n : Ahead(n, a) => Ahead(n, b)
  BY <1>2, <1>3, AheadMoves
<1>8. \A n : requests[n].op = "shutdown" /\ DoneWith(n, a) => DoneWith(n, b)
  BY <1>3, <1>4 DEF DoneWith
<1>9. act' \in [Actors -> ActorRec(Int)] /\ TableInv' /\ JobsInv' /\ BegunInv'
  BY <1>1, <1>3, <1>5, <1>6, <1>7, <1>8, OneActor DEF a, Moves
<1>10. AnswerOK(b, NoFrame, answers)
  BY <1>2, <1>3, UnansweredMoves
<1>11. AnswerInv'
  BY <1>1, <1>10, ActorSilent DEF a
<1>12. QED
  BY <1>1, <1>9, <1>11 DEF IInv, ShapeInv
LEMMA ShutdownKeeps ==
  ASSUME IInv, NEW i \in Actors, GoOn(i), act[i].job.op = "shutdown"
  PROVE  IInv'
<1> DEFINE a == act[i]
           off == [a EXCEPT !.on = FALSE]
           b == Drained(off)
           pane == a.pane
<1>1. /\ a.pc = "replying" /\ wait[i] = NoFrame /\ act' = [act EXCEPT ![i] = b]
      /\ actors' = [actors EXCEPT ![pane] = None]
      /\ UNCHANGED <<socketVars, reader, open, logVars>>
  BY DEF GoOn, Sent
<1>2. /\ a \in ActorRec(Int) /\ TableOK(i, a, actors, requests)
      /\ JobsOK(i, a, requests) /\ AnswerOK(a, NoFrame, answers)
  BY <1>1, OfActor
<1>3. /\ off \in ActorRec(Int) /\ off.on = FALSE /\ off.pane = a.pane
      /\ off.queue = a.queue /\ off.job = a.job
  BY <1>2 DEF ActorRec
<1>4. /\ Moves(off, b) /\ b.on = off.on
      /\ \/ b.pc \in {"ended", "spinning"} /\ Keeps(off, b)
         \/ b.pc = "drained" /\ Takes(off, b) /\ b.job # NoJob
  BY <1>3, DrainedMoves
<1>5. /\ Moves(a, b) /\ ~b.on /\ b.pane = pane
      /\ \/ b.pc \in {"ended", "spinning"} /\ Keeps(a, b)
         \/ b.pc = "drained" /\ Takes(a, b) /\ b.job # NoJob
  BY <1>3, <1>4 DEF Moves, Keeps, Takes
<1>6. a.on /\ pane \in Panes /\ actors[pane] = i
  BY <1>1, <1>2 DEF TableOK
<1> HIDE DEF a, b, pane, off
<1>7. /\ act \in [Actors -> ActorRec(Int)] /\ actors \in [Panes -> Actors \union {None}]
      /\ \A k \in Actors : TableOK(k, act[k], actors, requests)
      /\ \A p \in Panes : actors[p] # None => act[actors[p]].on /\ act[actors[p]].pane = p
  BY DEF IInv, ShapeInv, TableInv
<1>8. /\ act' \in [Actors -> ActorRec(Int)] /\ act'[i] = b
      /\ \A k \in Actors : k # i => act'[k] = act[k]
  BY <1>1, <1>5, <1>7 DEF Moves
<1>9. /\ actors' \in [Panes -> Actors \union {None}] /\ actors'[pane] = None
      /\ \A p \in Panes : p # pane => actors'[p] = actors[p] /\ actors[p] # i
  BY <1>1, <1>6, <1>7, Shapes DEF a, pane
<1>10. TableInv'
  <2>1. TableOK(i, b, actors', requests)
    BY <1>5 DEF TableOK
  <2>2. \A k \in Actors : k # i => TableOK(k, act[k], actors', requests)
    BY <1>6, <1>7, <1>9 DEF TableOK
  <2>3. \A k \in Actors : TableOK(k, act'[k], actors', requests')
    BY <1>1, <1>8, <2>1, <2>2
  <2>4. \A p \in Panes :
          actors'[p] # None => act'[actors'[p]].on /\ act'[actors'[p]].pane = p
    BY <1>7, <1>8, <1>9
  <2>5. QED
    BY <2>3, <2>4 DEF TableInv
<1>11. JobsInv'
  <2>1. JobsOK(i, b, requests)
    BY <1>2, <1>5, JobsMove
  <2>2. QED
    BY <1>1, <1>8, <2>1 DEF IInv, JobsInv
<1>12. \A m \in DOMAIN begun : BegunOK(begun[m], act', actors', requests)
  <2> SUFFICES ASSUME NEW m \in DOMAIN begun
               PROVE  BegunOK(begun[m], act', actors', requests)
    OBVIOUS
  <2>1. BegunOK(begun[m], act, actors, requests)
    BY DEF IInv, BegunInv
  <2>2. \A n, k : k \in Actors /\ DoneWith(n, act[k]) => DoneWith(n, act'[k])
    BY <1>5, <1>8 DEF DoneWith
  <2>3. requests[begun[m]].pane \in Panes
    BY <2>1, Shapes DEF BegunOK, Request
  <2>4. QED
    BY <1>7, <1>8, <1>9, <2>1, <2>2, <2>3 DEF BegunOK
<1>13. InOrder' /\ ShutdownIsLast'
  BY <1>1, <1>10, OrderStays
<1>14. AnswerOK(b, NoFrame, answers)
  BY <1>2, <1>5, UnansweredMoves
<1>15. AnswerInv'
  BY <1>1, <1>14, ActorSilent
<1>16. QED
  BY <1>1, <1>8, <1>9, <1>10, <1>11, <1>12, <1>13, <1>15 DEF IInv, ShapeInv, BegunInv

LEMMA BeginKeeps ==
  ASSUME IInv, NEW i \in Actors, Begin(i)
  PROVE  IInv'
<1> DEFINE a == act[i]
           id == a.job.id
<1>1. PICK next \in {"replying", "running"} :
        /\ a.pc = "took" /\ begun' = Append(begun, id)
        /\ act' = [act EXCEPT ![i] = [a EXCEPT !.bytes = @ - a.job.size, !.pc = next]]
        /\ IF next = "replying" THEN Reply(i, id) ELSE UNCHANGED socketVars
        /\ UNCHANGED <<reader, open, actors, streams, sub, credits, requests>>
  BY DEF Begin
<1> DEFINE b == [a EXCEPT !.bytes = @ - a.job.size, !.pc = next]
<1>2. /\ a \in ActorRec(Int) /\ TableOK(i, a, actors, requests)
      /\ JobsOK(i, a, requests) /\ AnswerOK(a, wait[i], answers) /\ wait[i] = NoFrame
  BY <1>1, OfActor
<1>3. a.job # NoJob /\ a.job \in Job
  BY <1>1, <1>2, JobIds DEF JobsOK
<1>4. a.job.size \in Int
  <2>1. \A size \in Sizes : size \in Int
    BY PaneStreamAssumption DEF PaneStreamAssumption
  <2>2. a.job.size \in Sizes
    BY <1>3 DEF Job
  <2>3. QED
    BY <2>1, <2>2
<1>5. Moves(a, b) /\ Keeps(a, b) /\ b.on = a.on /\ b.pc = next
  <2>1. a.bytes \in Int /\ a.bytes - a.job.size \in Int
    BY <1>2, <1>4 DEF ActorRec
  <2>2. b \in ActorRec(Int)
    BY <1>2, <2>1 DEF ActorRec, ActorPcs
  <2>3. QED
    BY <1>2, <2>2 DEF Moves, Keeps, ActorRec
<1>6. /\ id \in DOMAIN requests /\ requests[id].line = i /\ requests[id].pane = a.pane
      /\ id \in Ids /\ answers[id] = 0
  <2>1. JobOf(i, a.pane, a.job, requests) /\ answers[id] = 0
    BY <1>1, <1>2, <1>3 DEF JobsOK, AnswerOK
  <2>2. QED
    BY <2>1, Shapes DEF JobOf
<1>7. a.on /\ a.pane \in Panes /\ actors[a.pane] = i
  BY <1>1, <1>2 DEF TableOK
<1>8. act' = [act EXCEPT ![i] = b]
  BY <1>1
<1> HIDE DEF a, b, id
<1>9. /\ act \in [Actors -> ActorRec(Int)] /\ actors \in [Panes -> Actors \union {None}]
      /\ begun \in Seq(Ids) /\ requests' = requests /\ actors' = actors
  BY <1>1 DEF IInv, ShapeInv
<1>10. /\ act' \in [Actors -> ActorRec(Int)] /\ act'[i] = b
       /\ \A k \in Actors : k # i => act'[k] = act[k]
       /\ \A k \in Actors : act'[k].on = act[k].on /\ act'[k].pane = act[k].pane
  BY <1>5, <1>8, <1>9 DEF Moves, a
<1>11. TableInv'
  <2>1. TableOK(i, b, actors, requests)
    BY <1>1, <1>2, <1>5 DEF TableOK, Moves, Keeps
  <2>2. \A k \in Actors : TableOK(k, act'[k], actors', requests')
    BY <1>9, <1>10, <2>1 DEF IInv, TableInv
  <2>3. QED
    BY <1>9, <1>10, <2>2 DEF IInv, TableInv
<1>12. JobsInv'
  <2>1. JobsOK(i, b, requests)
    BY <1>2, <1>3, <1>5, JobsMove DEF Keeps
  <2>2. QED
    BY <1>9, <1>10, <2>1 DEF IInv, JobsInv
<1>13. /\ begun' \in Seq(Ids) /\ Len(begun') = Len(begun) + 1
       /\ begun'[Len(begun) + 1] = id
       /\ DOMAIN begun' = DOMAIN begun \union {Len(begun) + 1}
       /\ \A m \in DOMAIN begun : m < Len(begun) + 1 /\ begun'[m] = begun[m]
  BY <1>1, <1>6, <1>9, Added
<1>14. \A m \in DOMAIN begun' : BegunOK(begun'[m], act', actors, requests)
  <2>1. BegunOK(id, act', actors, requests)
    <3>1. Ahead(id, b)
      BY <1>1, <1>2, <1>5 DEF JobsOK, Ahead, Keeps, id
    <3>2. DoneWith(id, b)
      BY <1>1, <1>5 DEF DoneWith, Keeps, id
    <3>3. QED
      BY <1>6, <1>7, <1>10, <3>1, <3>2 DEF BegunOK
  <2>2. ASSUME NEW m \in DOMAIN begun
        PROVE  BegunOK(begun[m], act', actors, requests)
    <3>1. BegunOK(begun[m], act, actors, requests)
      BY DEF IInv, BegunInv
    <3>2. \A n : Ahead(n, a) => Ahead(n, b)
      BY <1>1, <1>2, <1>5, AheadMoves
    <3>3. \A n : DoneWith(n, a) => DoneWith(n, b)
      BY <1>1, <1>7 DEF DoneWith
    <3>4. requests[begun[m]].pane \in Panes
      BY <3>1, Shapes DEF BegunOK, Request
    <3>5. QED
      BY <1>9, <1>10, <3>1, <3>2, <3>3, <3>4 DEF BegunOK, a
  <2>3. QED
    BY <1>13, <2>1, <2>2
<1>15. \A m \in DOMAIN begun :
         /\ requests[begun[m]].pane = requests[id].pane => begun[m] < id
         /\ requests[begun[m]].op = "shutdown" => requests[begun[m]].line # i
  <2> SUFFICES ASSUME NEW m \in DOMAIN begun
               PROVE  /\ requests[begun[m]].pane = requests[id].pane => begun[m] < id
                      /\ requests[begun[m]].op = "shutdown" => requests[begun[m]].line # i
    OBVIOUS
  <2>1. BegunOK(begun[m], act, actors, requests)
    BY DEF IInv, BegunInv
  <2>2. requests[begun[m]].pane = requests[id].pane => Ahead(begun[m], a)
    BY <1>6, <1>7, <2>1, Shapes DEF BegunOK, a
  <2>3. ~DoneWith(begun[m], a)
    BY <1>1, <1>7 DEF DoneWith
  <2>4. QED
    BY <1>1, <2>1, <2>2, <2>3 DEF BegunOK, Ahead, a, id
<1>16. InOrder'
  <2>1. \A i1, i2 \in Actors :
          /\ {act'[i1].pc, act'[i2].pc} \subseteq {"took", "running"}
          /\ act'[i1].pane = act'[i2].pane
          => i1 = i2
    <3>1. \A k \in Actors : TableOK(k, act'[k], actors', requests')
      BY <1>11 DEF TableInv
    <3>2. QED
      BY <3>1, OneOfPane
  <2>2. \A m, n \in DOMAIN begun' :
          m < n /\ requests[begun'[m]].pane = requests[begun'[n]].pane
          => begun'[m] < begun'[n]
    <3>1. \A m, n \in DOMAIN begun :
            m < n /\ requests[begun[m]].pane = requests[begun[n]].pane
            => begun[m] < begun[n]
      BY DEF IInv, BegunInv, InOrder
    <3>2. \A m \in DOMAIN begun' : m # Len(begun) + 1 => m \in DOMAIN begun
      BY <1>13
    <3>3. \A n \in DOMAIN begun' : ~(Len(begun) + 1 < n)
      BY <1>9, <1>13
    <3>4. QED
      BY <1>13, <1>15, <3>1, <3>2, <3>3
  <2>3. QED
    BY <1>9, <2>1, <2>2 DEF InOrder
<1>17. ShutdownIsLast'
  <2>1. \A m, n \in DOMAIN begun :
          m < n /\ requests[begun[m]].op = "shutdown"
          => requests[begun[m]].line # requests[begun[n]].line
    BY DEF IInv, BegunInv, ShutdownIsLast
  <2>2. \A n \in DOMAIN begun' : ~(Len(begun) + 1 < n)
    BY <1>9, <1>13
  <2>3. QED
    BY <1>6, <1>9, <1>13, <1>15, <2>1, <2>2 DEF ShutdownIsLast
<1>18. BegunInv'
  BY <1>9, <1>14, <1>16, <1>17 DEF BegunInv
<1>19. CASE next = "replying"
  <2>1. /\ AnswerInv' /\ answers' \in [Ids -> Nat]
        /\ wait' \in [Fibers -> Frame \union {NoFrame}]
    BY <1>1, <1>2, <1>3, <1>5, <1>6, <1>8, <1>19, ActorReplies DEF a, id
  <2>2. QED
    BY <1>1, <1>10, <1>11, <1>12, <1>13, <1>18, <2>1 DEF IInv, ShapeInv
<1>20. CASE next = "running"
  <2>1. AnswerOK(b, NoFrame, answers)
    BY <1>1, <1>2, <1>5, UnansweredMoves
  <2>2. AnswerInv'
    BY <1>1, <1>2, <1>8, <1>20, <2>1, ActorSilent
  <2>3. QED
    BY <1>1, <1>10, <1>11, <1>12, <1>13, <1>18, <1>20, <2>2 DEF IInv, ShapeInv
<1>21. QED
  BY <1>1, <1>19, <1>20
-----------------------------------------------------------------------------
(* The steps of the others.                                                *)

LEMMA ActorsStay ==
  ASSUME IInv, UNCHANGED <<act, actors, requests, begun>>
  PROVE  TableInv' /\ JobsInv' /\ BegunInv'
BY DEF IInv, TableInv, JobsInv, BegunInv, InOrder, ShutdownIsLast

LEMMA QuietKeeps ==
  ASSUME IInv, UNCHANGED <<act, actors, requests, begun, wait, answers>>,
         credits' \in Nat, UNCHANGED reader \/ wait[Reader] = NoFrame
  PROVE  IInv'
<1>1. TableInv' /\ JobsInv' /\ BegunInv'
  BY ActorsStay
<1>2. RefusalOK(wait[Reader], reader', requests, answers)
  BY Frames DEF RefusalOK, IInv, AnswerInv
<1>3. AnswerInv'
  BY <1>2 DEF IInv, AnswerInv, AnsweredOnce
<1>4. QED
  BY <1>1, <1>3 DEF IInv, ShapeInv

\* The reader and the subscriptions send frames that are no replies.
LEMMA OthersSend ==
  ASSUME IInv, NEW f \in Subs \union {Reader}, NEW frame \in Frame,
         frame.kind # "reply", Goes(f, frame),
         UNCHANGED <<act, actors, requests, begun, credits>>,
         \/ f # Reader /\ UNCHANGED reader
         \/ f = Reader /\ wait[Reader] = NoFrame /\ reader' = "closing"
  PROVE  IInv'
<1>1. TableInv' /\ JobsInv' /\ BegunInv'
  BY ActorsStay
<1>2. /\ wait \in [Fibers -> Frame \union {NoFrame}] /\ f \in Fibers
      /\ answers' = answers
  BY Shapes DEF IInv, ShapeInv, Goes
<1>3. /\ wait' \in [Fibers -> Frame \union {NoFrame}]
      /\ \A g \in Fibers : wait'[g] = wait[g] \/ (g = f /\ wait'[g] = frame)
  BY <1>2 DEF Goes
<1>4. \A i \in Actors : wait'[i] = wait[i]
  BY <1>3, Shapes
<1>5. \A j \in Subs : wait'[j].kind # "reply"
  BY <1>3, Shapes DEF IInv, AnswerInv
<1>6. RefusalOK(wait'[Reader], reader', requests, answers)
  <2>1. RefusalOK(wait[Reader], reader, requests, answers)
    BY DEF IInv, AnswerInv
  <2>2. CASE f # Reader
    BY <1>3, <2>1, <2>2, Shapes
  <2>3. CASE f = Reader
    BY <1>3, <2>3, Shapes, Frames DEF RefusalOK
  <2>4. QED
    BY <2>2, <2>3
<1>7. AnswerInv'
  BY <1>2, <1>4, <1>5, <1>6 DEF IInv, AnswerInv, AnsweredOnce
<1>8. QED
  BY <1>1, <1>2, <1>3, <1>7 DEF IInv, ShapeInv

LEMMA ReadingSilent ==
  ASSUME IInv, reader = "reading"
  PROVE  wait[Reader] = NoFrame
BY DEF IInv, AnswerInv, RefusalOK

CloseFrame == [kind |-> "close", of |-> None, len |-> 1]
OutputFrame(j, len) == [kind |-> "output", of |-> j, len |-> len]

LEMMA OtherFrames ==
  /\ CloseFrame \in Frame /\ CloseFrame.kind # "reply"
  /\ \A j \in Subs, len \in Nat \ {0} :
       OutputFrame(j, len) \in Frame /\ OutputFrame(j, len).kind # "reply"
BY DEF CloseFrame, OutputFrame, Frame

LEMMA RaiseKeeps ==
  ASSUME IInv, reader = "reading", Raise
  PROVE  IInv'
<1>1. /\ reader' = "closing" /\ Send(Reader, CloseFrame)
      /\ UNCHANGED <<streamVars, logVars>>
  BY DEF Raise, CloseFrame
<1>2. Goes(Reader, CloseFrame)
  BY <1>1, SendGoes
<1>3. QED
  BY <1>1, <1>2, ReadingSilent, OtherFrames, OthersSend

LEMMA SubscribeKeeps ==
  ASSUME IInv, NEW p, Subscribe(p)
  PROVE  IInv'
<1>1. CASE Full(streams, StreamCap)
  BY <1>1, RaiseKeeps DEF Subscribe
<1>2. CASE ~Full(streams, StreamCap)
  <2>1. UNCHANGED <<socketVars, reader, open, actors, act, logVars>>
    BY <1>2 DEF Subscribe
  <2>2. QED
    BY <2>1, QuietKeeps DEF IInv, ShapeInv
<1>3. QED
  BY <1>1, <1>2

LEMMA PolledKeeps ==
  ASSUME IInv, NEW j \in Subs, Polled(j)
  PROVE  IInv'
<1>1. /\ \/ \E len \in Nat \ {0} : Send(j, OutputFrame(j, len))
         \/ UNCHANGED socketVars
      /\ UNCHANGED <<reader, open, actors, act, streams, logVars>>
  <2>1. \A len \in OutputSizes : len \in Nat \ {0}
    BY PaneStreamAssumption DEF PaneStreamAssumption
  <2>2. CASE SubSends(j)
    BY <2>1, <2>2 DEF SubSends, OutputFrame
  <2>3. CASE SubFails(j)
    BY <2>3 DEF SubFails, OutputFrame
  <2>4. QED
    BY <2>2, <2>3 DEF Polled
<1>2. CASE UNCHANGED socketVars
  BY <1>1, <1>2, QuietKeeps DEF IInv, ShapeInv
<1>3. ASSUME NEW len \in Nat \ {0}, Send(j, OutputFrame(j, len))
      PROVE  IInv'
  <2>1. Goes(j, OutputFrame(j, len))
    BY <1>3, SendGoes
  <2>2. QED
    BY <1>1, <2>1, OtherFrames, OthersSend, Shapes
<1>4. QED
  BY <1>1, <1>2, <1>3

LEMMA SilentKeeps ==
  ASSUME IInv,
         \/ \E p : Unsubscribe(p)
         \/ \E j : Credit(j) \/ SubGoesOn(j) \/ SubDies(j)
         \/ WriterStep \/ ReadOn
  PROVE  IInv'
<1>1. credits \in Nat
  BY DEF IInv, ShapeInv
<1>2. /\ UNCHANGED <<act, actors, requests, begun, wait, answers>> /\ credits' \in Nat
      /\ UNCHANGED reader \/ wait[Reader] = NoFrame
  <2>1. CASE \E p : Unsubscribe(p)
    BY <1>1, <2>1 DEF Unsubscribe
  <2>2. CASE \E j : Credit(j) \/ SubGoesOn(j) \/ SubDies(j)
    <3>1. CASE \E j : Credit(j)
      BY <1>1, <3>1 DEF Credit
    <3>2. CASE \E j : SubGoesOn(j)
      BY <1>1, <3>2 DEF SubGoesOn
    <3>3. CASE \E j : SubDies(j)
      BY <1>1, <3>3 DEF SubDies
    <3>4. QED
      BY <2>2, <3>1, <3>2, <3>3
  <2>3. CASE WriterStep
    BY <1>1, <2>3 DEF WriterStep, WriterGoesOn, WriterFails, WriterEnds
  <2>4. CASE ReadOn
    BY <1>1, <2>4 DEF ReadOn, Sent
  <2>5. QED
    BY <2>1, <2>2, <2>3, <2>4
<1>3. QED
  BY <1>2, QuietKeeps

LEMMA CloseKeeps ==
  ASSUME IInv, HangUp \/ ReaderEnds
  PROVE  IInv'
<1>1. /\ UNCHANGED <<wait, answers>> /\ reader' = "ended"
      /\ act' = [i \in Actors |-> IF \E p \in Panes : actors[p] = i
                                  THEN [act[i] EXCEPT !.closed = TRUE] ELSE act[i]]
      /\ UNCHANGED <<actors, logVars>>
  BY DEF HangUp, ReaderEnds, CloseSocket, CloseStream
<1>2. wait[Reader] = NoFrame
  BY ReadingSilent DEF HangUp, ReaderEnds, Sent
<1>3. \A i \in Actors :
        /\ act'[i] \in ActorRec(Int) /\ act'[i].pane = act[i].pane
        /\ act'[i].queue = act[i].queue /\ act'[i].job = act[i].job
        /\ act'[i].on = act[i].on /\ act'[i].pc = act[i].pc
  <2> SUFFICES ASSUME NEW i \in Actors
               PROVE  /\ act'[i] \in ActorRec(Int) /\ act'[i].pane = act[i].pane
                      /\ act'[i].queue = act[i].queue /\ act'[i].job = act[i].job
                      /\ act'[i].on = act[i].on /\ act'[i].pc = act[i].pc
    OBVIOUS
  <2>1. act[i] \in ActorRec(Int)
    BY Shapes
  <2>2. act'[i] = act[i] \/ act'[i] = [act[i] EXCEPT !.closed = TRUE]
    BY <1>1
  <2>3. QED
    BY <2>1, <2>2 DEF ActorRec
<1>4. act' \in [Actors -> ActorRec(Int)]
  BY <1>1, <1>3
<1>5. actors \in [Panes -> Actors \union {None}]
  BY DEF IInv, ShapeInv
<1>6. TableInv'
  <2>1. \A i \in Actors : TableOK(i, act'[i], actors, requests)
    BY <1>3 DEF TableOK, IInv, TableInv
  <2>2. QED
    BY <1>1, <1>3, <1>5, <2>1 DEF IInv, TableInv
<1>7. JobsInv'
  <2>1. \A i \in Actors : JobsOK(i, act'[i], requests)
    BY <1>3 DEF JobsOK, IInv, JobsInv
  <2>2. QED
    BY <1>1, <2>1 DEF JobsInv
<1>8. \A m \in DOMAIN begun : BegunOK(begun[m], act', actors, requests)
  <2> SUFFICES ASSUME NEW m \in DOMAIN begun
               PROVE  BegunOK(begun[m], act', actors, requests)
    OBVIOUS
  <2>1. BegunOK(begun[m], act, actors, requests)
    BY DEF IInv, BegunInv
  <2>2. \A n, k : k \in Actors => /\ DoneWith(n, act[k]) => DoneWith(n, act'[k])
                                  /\ Ahead(n, act[k]) => Ahead(n, act'[k])
    BY <1>3 DEF DoneWith, Ahead
  <2>3. requests[begun[m]].pane \in Panes
    BY <2>1, Shapes DEF BegunOK, Request
  <2>4. QED
    BY <1>5, <2>1, <2>2, <2>3 DEF BegunOK
<1>9. InOrder' /\ ShutdownIsLast'
  BY <1>1, <1>6, OrderStays
<1>10. AnswerInv'
  <2>1. \A i \in Actors : AnswerOK(act'[i], wait[i], answers)
    BY <1>3 DEF AnswerOK, IInv, AnswerInv
  <2>2. RefusalOK(wait[Reader], reader', requests, answers)
    BY <1>2, Frames DEF RefusalOK
  <2>3. QED
    BY <1>1, <2>1, <2>2 DEF IInv, AnswerInv, AnsweredOnce
<1>11. QED
  BY <1>1, <1>4, <1>6, <1>7, <1>8, <1>9, <1>10 DEF IInv, ShapeInv, BegunInv
\* What waited for room is put into the channel, or gone with the websocket.
LEMMA RetryKeeps ==
  ASSUME IInv, NEW f \in Fibers, Retry(f)
  PROVE  IInv'
<1>1. /\ wait[f] # NoFrame /\ wait' = [wait EXCEPT ![f] = NoFrame]
      /\ UNCHANGED <<streamVars, reader, logVars>>
      /\ \/ answers' = answers
         \/ /\ wait[f].kind = "reply"
            /\ answers' = [answers EXCEPT ![wait[f].of] = @ + 1]
  BY DEF Retry, Put
<1>2. TableInv' /\ JobsInv' /\ BegunInv'
  BY <1>1, ActorsStay
<1>3. /\ wait \in [Fibers -> Frame \union {NoFrame}] /\ answers \in [Ids -> Nat]
      /\ wait' \in [Fibers -> Frame \union {NoFrame}]
      /\ wait'[f] = NoFrame /\ \A g \in Fibers : g # f => wait'[g] = wait[g]
  BY <1>1 DEF IInv, ShapeInv
<1>4. \A i \in Actors : /\ act[i] \in ActorRec(Int) /\ JobsOK(i, act[i], requests)
                        /\ AnswerOK(act[i], wait[i], answers)
  BY OfActor
<1>5. /\ RefusalOK(wait[Reader], reader, requests, answers)
      /\ \A j \in Subs : wait[j].kind # "reply"
      /\ AnsweredOnce
  BY DEF IInv, AnswerInv
<1>6. \A j \in Subs : wait'[j].kind # "reply"
  BY <1>3, <1>5, Frames, Shapes
<1>7. CASE answers' = answers
  <2>1. \A i \in Actors : AnswerOK(act[i], wait'[i], answers)
    BY <1>3, <1>4, Shapes DEF AnswerOK
  <2>2. RefusalOK(wait'[Reader], reader, requests, answers)
    BY <1>3, <1>5, Frames, Shapes DEF RefusalOK
  <2>3. AnswerInv'
    BY <1>1, <1>5, <1>6, <1>7, <2>1, <2>2 DEF AnswerInv, AnsweredOnce
  <2>4. QED
    BY <1>1, <1>2, <1>3, <1>7, <2>3 DEF IInv, ShapeInv
<1>8. CASE wait[f].kind = "reply" /\ answers' = [answers EXCEPT ![wait[f].of] = @ + 1]
  <2> DEFINE n == wait[f].of
  <2>1. /\ n \in DOMAIN requests /\ answers[n] = 0 /\ n \in Ids
        /\ \/ f \in Actors /\ requests[n].line = f
           \/ f = Reader /\ requests[n].line = None
    <3>1. CASE f \in Actors
      <4>1. /\ n = act[f].job.id /\ answers[n] = 0 /\ act[f].job # NoJob
        BY <1>1, <1>4, <3>1 DEF AnswerOK
      <4>2. JobOf(f, act[f].pane, act[f].job, requests)
        BY <1>4, <3>1, <4>1 DEF JobsOK
      <4>3. QED
        BY <3>1, <4>1, <4>2, Shapes DEF JobOf
    <3>2. CASE f = Reader
      BY <1>5, <1>8, <3>2, Shapes DEF RefusalOK
    <3>3. QED
      BY <1>5, <1>8, <3>1, <3>2 DEF Fibers
  <2>2. answers' = [answers EXCEPT ![n] = @ + 1]
    BY <1>8
  <2> HIDE DEF n
  <2>3. answers' \in [Ids -> Nat] /\ AnsweredOnce'
    BY <1>1, <2>1, <2>2, Counted DEF AnsweredOnce
  <2>4. \A m \in Ids : m # n => answers'[m] = answers[m]
    BY <1>3, <2>2
  <2>5. ASSUME NEW i \in Actors
        PROVE  AnswerOK(act[i], wait'[i], answers')
    <3>1. CASE i = f
      <4>1. /\ act[f].pc \in {"replying", "passing"} /\ n = act[f].job.id
        BY <1>1, <1>4, <3>1 DEF AnswerOK, n
      <4>2. AnswerOK(act[f], NoFrame, answers')
        BY <1>3, <1>4, <2>2, <3>1, <4>1, AnsweredOwn DEF Keeps
      <4>3. QED
        BY <1>3, <3>1, <4>2
    <3>2. CASE i # f
      <4>1. requests[n].line # i
        BY <2>1, <3>2, Shapes
      <4>2. AnswerOK(act[i], wait[i], answers')
        BY <1>3, <1>4, <2>1, <2>2, <4>1, AnsweredElsewhere
      <4>3. QED
        BY <1>3, <3>2, <4>2, Shapes
    <3>3. QED
      BY <3>1, <3>2
  <2>6. RefusalOK(wait'[Reader], reader, requests, answers')
    <3>1. CASE f = Reader
      BY <1>3, <3>1, Frames DEF RefusalOK
    <3>2. CASE f # Reader
      <4>1. wait'[Reader] = wait[Reader] /\ requests[n].line # None
        BY <1>3, <2>1, <3>2, Shapes
      <4>2. QED
        BY <1>5, <2>4, <4>1, Shapes DEF RefusalOK
    <3>3. QED
      BY <3>1, <3>2
  <2>7. AnswerInv'
    BY <1>1, <1>6, <2>3, <2>5, <2>6 DEF AnswerInv
  <2>8. QED
    BY <1>1, <1>2, <1>3, <2>3, <2>7 DEF IInv, ShapeInv
<1>9. QED
  BY <1>1, <1>7, <1>8
-----------------------------------------------------------------------------
(* A request of the page.                                                  *)

\* The actor of a pane is the one of the table, or a new one.
ActorOf(p, i, a) ==
  /\ i \in Actors /\ a \in ActorRec(Int) /\ a.pane = p /\ a.on
  /\ \/ actors[p] = i /\ a = act[i]
     \/ /\ actors[p] = None /\ act[i].pc = "unused"
        /\ a.queue = <<>> /\ a.job = NoJob /\ a.pc = "new"

LEMMA ActorFound ==
  ASSUME IInv, NEW p \in Panes, actors[p] = None => FreshActors # {}
  PROVE  ActorOf(p, ActorFor(p)[1], ActorFor(p)[2])
<1>1. CASE actors[p] # None
  <2>1. ActorFor(p)[1] = actors[p] /\ ActorFor(p)[2] = act[actors[p]]
    BY <1>1 DEF ActorFor
  <2>2. actors[p] \in Actors /\ act[actors[p]].on /\ act[actors[p]].pane = p
    BY <1>1 DEF IInv, ShapeInv, TableInv
  <2>3. QED
    BY <2>1, <2>2, Shapes DEF ActorOf
<1>2. CASE actors[p] = None
  <2> DEFINE i == CHOOSE i \in FreshActors : TRUE
             a == [act[i] EXCEPT !.pane = p, !.on = TRUE, !.pc = "new"]
  <2>1. i \in FreshActors
    BY <1>2
  <2>2. i \in Actors /\ act[i].pc = "unused"
    BY <2>1 DEF FreshActors
  <2>3. ActorFor(p)[1] = i /\ ActorFor(p)[2] = a
    BY <1>2 DEF ActorFor
  <2> HIDE DEF i
  <2>4. act[i] \in ActorRec(Int) /\ act[i].queue = <<>> /\ act[i].job = NoJob
    BY <2>2, OfActor DEF TableOK
  <2>5. /\ a \in ActorRec(Int) /\ a.pane = p /\ a.on
        /\ a.queue = <<>> /\ a.job = NoJob /\ a.pc = "new"
    BY <2>4 DEF ActorRec, ActorPcs
  <2>6. QED
    BY <1>2, <2>2, <2>3, <2>5 DEF ActorOf
<1>3. QED
  BY <1>1, <1>2

\* What the invariant says of the actor found.
LEMMA OfFound ==
  ASSUME IInv, NEW p \in Panes, NEW i, NEW a, ActorOf(p, i, a)
  PROVE  /\ JobsOK(i, a, requests) /\ AnswerOK(a, wait[i], answers)
         /\ a.pc # "unused" /\ (a.pc = "taking" => a.queue = <<>>)
         /\ a.pc \notin {"replying", "passing"} => wait[i] = NoFrame
         /\ \A n \in DOMAIN requests :
              requests[n].line = i => actors[p] = i /\ a = act[i]
         /\ \A k \in Actors : actors[p] = k => i = k /\ a = act[i]
<1>1. CASE actors[p] = i /\ a = act[i]
  <2>1. i \in Actors /\ a.on /\ TableOK(i, a, actors, requests)
    BY <1>1, OfActor DEF ActorOf
  <2>2. QED
    BY <1>1, <2>1, OfActor DEF TableOK
<1>2. CASE /\ actors[p] = None /\ act[i].pc = "unused"
           /\ a.queue = <<>> /\ a.job = NoJob /\ a.pc = "new"
  <2>1. i \in Actors /\ wait[i] = NoFrame /\ TableOK(i, act[i], actors, requests)
    BY <1>2, OfActor DEF ActorOf
  <2>2. \A n \in DOMAIN requests : requests[n].line # i
    BY <1>2, <2>1 DEF TableOK
  <2>3. JobsOK(i, a, requests) /\ AnswerOK(a, wait[i], answers)
    BY <1>2, <2>1 DEF JobsOK, AnswerOK
  <2>4. QED
    BY <1>2, <2>1, <2>2, <2>3, Shapes
<1>3. QED
  BY <1>1, <1>2 DEF ActorOf

\* The request is recorded, and its actor goes on with b.
LEMMA Asked ==
  ASSUME IInv, NEW p \in Panes, NEW op \in Ops, NEW i, NEW a, ActorOf(p, i, a),
         NEW line \in {None, i}, NEW b \in ActorRec(Int), Len(requests) < MaxMessages,
         act' = [act EXCEPT ![i] = b], actors' = [actors EXCEPT ![p] = i],
         requests' = Append(requests, [pane |-> p, op |-> op, line |-> line]),
         begun' = begun, b.pane = p, b.on, b.pc # "unused",
         b.pc = "taking" => b.queue = <<>>,
         JobsOK(i, b, requests'),
         \A n \in DOMAIN requests :
           /\ Ahead(n, a) => Ahead(n, b)
           /\ DoneWith(n, a) => DoneWith(n, b)
  PROVE  /\ act' \in [Actors -> ActorRec(Int)]
         /\ actors' \in [Panes -> Actors \union {None}]
         /\ requests' \in Seq(Request) /\ Len(requests') = Len(requests) + 1
         /\ Len(requests') <= MaxMessages
         /\ requests'[Len(requests) + 1].line = line
         /\ DOMAIN requests' = DOMAIN requests \union {Len(requests) + 1}
         /\ \A n \in DOMAIN requests : requests'[n] = requests[n]
         /\ act'[i] = b /\ \A k \in Actors : k # i => act'[k] = act[k]
         /\ TableInv' /\ JobsInv' /\ BegunInv'
<1> DEFINE r == [pane |-> p, op |-> op, line |-> line]
<1>1. /\ act \in [Actors -> ActorRec(Int)] /\ requests \in Seq(Request)
      /\ actors \in [Panes -> Actors \union {None}] /\ i \in Actors
      /\ \A k \in Actors : TableOK(k, act[k], actors, requests)
      /\ \A q \in Panes : actors[q] # None => act[actors[q]].on /\ act[actors[q]].pane = q
  BY DEF IInv, ShapeInv, TableInv, ActorOf
<1>2. r \in Request
  BY <1>1 DEF Request
<1>3. /\ requests' \in Seq(Request) /\ Len(requests') = Len(requests) + 1
      /\ requests'[Len(requests) + 1] = r
      /\ DOMAIN requests' = DOMAIN requests \union {Len(requests) + 1}
      /\ \A n \in DOMAIN requests : requests'[n] = requests[n]
  BY <1>1, <1>2, Added
<1>4. requests'[Len(requests) + 1].line = line
  BY <1>3
<1> HIDE DEF r
<1>5. /\ act' \in [Actors -> ActorRec(Int)] /\ act'[i] = b
      /\ \A k \in Actors : k # i => act'[k] = act[k]
  BY <1>1
<1>6. /\ actors' \in [Panes -> Actors \union {None}] /\ actors'[p] = i
      /\ \A q \in Panes : q # p => actors'[q] = actors[q]
  BY <1>1
<1>7. \A q \in Panes : q # p => actors[q] # i
  BY <1>1, Shapes DEF ActorOf, TableOK
<1>8. TableInv'
  <2>1. TableOK(i, b, actors', requests')
    BY <1>6 DEF TableOK
  <2>2. ASSUME NEW k \in Actors, k # i
        PROVE  TableOK(k, act[k], actors', requests')
    <3>1. TableOK(k, act[k], actors, requests) /\ actors[p] # k
      BY <1>1, <2>2, Shapes DEF ActorOf
    <3>2. line # k
      BY <2>2, Shapes
    <3>3. act[k].on => act[k].pane \in Panes /\ actors'[act[k].pane] = k
      BY <1>6, <3>1 DEF TableOK
    <3>4. (\A n \in DOMAIN requests : requests[n].line # k)
            => \A n \in DOMAIN requests' : requests'[n].line # k
      BY <1>3, <1>4, <3>2
    <3>5. QED
      BY <3>1, <3>3, <3>4 DEF TableOK
  <2>3. \A k \in Actors : TableOK(k, act'[k], actors', requests')
    BY <1>5, <2>1, <2>2
  <2>4. \A q \in Panes :
          actors'[q] # None => act'[actors'[q]].on /\ act'[actors'[q]].pane = q
    BY <1>1, <1>5, <1>6, <1>7
  <2>5. QED
    BY <2>3, <2>4 DEF TableInv
<1>9. JobsInv'
  <2>1. ASSUME NEW k \in Actors, k # i
        PROVE  JobsOK(k, act'[k], requests')
    <3>1. JobsOK(k, act[k], Append(requests, r))
      BY <1>1, <1>2, OfActor, AskedElsewhere
    <3>2. QED
      BY <1>5, <2>1, <3>1 DEF r
  <2>2. QED
    BY <1>5, <2>1 DEF JobsInv
<1>10. \A m \in DOMAIN begun : BegunOK(begun[m], act', actors', requests')
  <2> SUFFICES ASSUME NEW m \in DOMAIN begun
               PROVE  BegunOK(begun[m], act', actors', requests')
    OBVIOUS
  <2> DEFINE n == begun[m]
  <2>1. BegunOK(n, act, actors, requests)
    BY DEF IInv, BegunInv
  <2> HIDE DEF n
  <2>2. n \in DOMAIN requests /\ requests'[n] = requests[n] /\ n \in DOMAIN requests'
    BY <1>3, <2>1 DEF BegunOK
  <2>3. requests[n].op = "shutdown" => DoneWith(n, act'[requests[n].line])
    <3>1. CASE requests[n].line = i
      <4>1. a = act[i]
        BY <2>2, <3>1, OfFound
      <4>2. QED
        BY <1>5, <2>1, <2>2, <3>1, <4>1 DEF BegunOK
    <3>2. CASE requests[n].line # i
      BY <1>5, <2>1, <3>2 DEF BegunOK
    <3>3. QED
      BY <3>1, <3>2
  <2>4. requests[n].pane = p => Ahead(n, b)
    <3>1. requests[n].pane = p => Ahead(n, a)
      <4>1. CASE actors[p] = i /\ a = act[i]
        BY <1>1, <2>1, <4>1, Shapes DEF BegunOK
      <4>2. CASE a.queue = <<>> /\ a.pc = "new"
        BY <4>2 DEF Ahead
      <4>3. QED
        BY <4>1, <4>2 DEF ActorOf
    <3>2. QED
      BY <2>2, <3>1
  <2>5. requests[n].pane \in Panes
    BY <2>2, Shapes DEF Request
  <2>6. LET k == actors'[requests[n].pane] IN k # None => Ahead(n, act'[k])
    <3>1. CASE requests[n].pane = p
      BY <1>5, <1>6, <2>4, <3>1
    <3>2. CASE requests[n].pane # p
      <4>1. /\ actors'[requests[n].pane] = actors[requests[n].pane]
            /\ actors[requests[n].pane] # i
        BY <1>6, <1>7, <2>5, <3>2
      <4>2. QED
        BY <1>1, <1>5, <2>1, <2>5, <4>1 DEF BegunOK
    <3>3. QED
      BY <3>1, <3>2
  <2>7. QED
    BY <2>1, <2>2, <2>3, <2>6 DEF BegunOK, n
<1>11. InOrder' /\ ShutdownIsLast'
  BY <1>3, <1>8, OrderStays
<1>12. BegunInv'
  BY <1>10, <1>11 DEF BegunInv
<1>13. Len(requests') <= MaxMessages
  BY <1>1, <1>3, PaneStreamAssumption DEF PaneStreamAssumption
<1>14. QED
  BY <1>3, <1>4, <1>5, <1>6, <1>8, <1>9, <1>12, <1>13
LEMMA AskRefuses ==
  ASSUME IInv, NEW p \in Panes, NEW op \in Ops, NEW i, NEW a, ActorOf(p, i, a),
         reader = "reading", Len(requests) < MaxMessages,
         act' = [act EXCEPT ![i] = a], actors' = [actors EXCEPT ![p] = i],
         requests' = Append(requests, [pane |-> p, op |-> op, line |-> None]),
         reader' = "refusing", Reply(Reader, Len(requests) + 1),
         UNCHANGED <<credits, begun>>
  PROVE  IInv'
<1> DEFINE id == Len(requests) + 1
<1>1. a \in ActorRec(Int) /\ a.pane = p /\ a.on /\ i \in Actors
  BY DEF ActorOf
<1>2. /\ JobsOK(i, a, requests) /\ AnswerOK(a, wait[i], answers)
      /\ a.pc # "unused" /\ (a.pc = "taking" => a.queue = <<>>)
  BY OfFound
<1>3. JobsOK(i, a, requests')
  <2>1. [pane |-> p, op |-> op, line |-> None] \in Request /\ requests \in Seq(Request)
    BY DEF Request, IInv, ShapeInv
  <2>2. QED
    BY <1>1, <1>2, <2>1, AskedElsewhere
<1>4. /\ act' \in [Actors -> ActorRec(Int)]
      /\ actors' \in [Panes -> Actors \union {None}]
      /\ requests' \in Seq(Request) /\ Len(requests') = id
      /\ id <= MaxMessages /\ requests'[id].line = None
      /\ DOMAIN requests' = DOMAIN requests \union {id}
      /\ \A n \in DOMAIN requests : requests'[n] = requests[n]
      /\ act'[i] = a /\ \A k \in Actors : k # i => act'[k] = act[k]
      /\ TableInv' /\ JobsInv' /\ BegunInv'
  <2>1. None \in {None, i} /\ begun' = begun
    OBVIOUS
  <2>2. \A n \in DOMAIN requests :
          /\ Ahead(n, a) => Ahead(n, a)
          /\ DoneWith(n, a) => DoneWith(n, a)
    OBVIOUS
  <2>3. act' = [act EXCEPT ![i] = a] /\ actors' = [actors EXCEPT ![p] = i]
    OBVIOUS
  <2>4. /\ act' \in [Actors -> ActorRec(Int)]
        /\ actors' \in [Panes -> Actors \union {None}]
        /\ requests' \in Seq(Request) /\ Len(requests') = Len(requests) + 1
        /\ Len(requests') <= MaxMessages
        /\ requests'[Len(requests) + 1].line = None
        /\ DOMAIN requests' = DOMAIN requests \union {Len(requests) + 1}
        /\ \A n \in DOMAIN requests : requests'[n] = requests[n]
        /\ act'[i] = a /\ \A k \in Actors : k # i => act'[k] = act[k]
        /\ TableInv' /\ JobsInv' /\ BegunInv'
    BY <1>1, <1>2, <1>3, <2>1, <2>2, <2>3, Asked
  <2>5. QED
    BY <2>4
<1>5. /\ id \in Ids /\ id \notin DOMAIN requests /\ id > Len(requests)
      /\ \A n \in Ids : n > id => n > Len(requests) /\ n # id
  BY <1>4, Shapes, PaneStreamAssumption DEF Ids, PaneStreamAssumption
<1>6. /\ answers \in [Ids -> Nat] /\ answers[id] = 0
      /\ \A n \in Ids : answers[n] <= 1 /\ (n > Len(requests) => answers[n] = 0)
  BY <1>5 DEF IInv, ShapeInv, AnswerInv, AnsweredOnce
<1> HIDE DEF id
<1>7. \A k \in Actors : AnswerOK(act'[k], wait[k], answers)
  BY <1>2, <1>4, OfActor
<1>8. wait \in [Fibers -> Frame \union {NoFrame}] /\ wait[Reader] = NoFrame
  BY ReadingSilent DEF IInv, ShapeInv
<1>9. \A j \in Subs : wait[j].kind # "reply"
  BY DEF IInv, AnswerInv
<1>10. answers' = answers => AnsweredOnce'
  BY <1>4, <1>5, <1>6 DEF AnsweredOnce
<1>11. CASE UNCHANGED <<wait, answers>>
  <2>1. RefusalOK(wait[Reader], reader', requests', answers)
    BY <1>8, Frames DEF RefusalOK
  <2>2. AnswerInv'
    BY <1>7, <1>9, <1>10, <1>11, <2>1 DEF AnswerInv
  <2>3. QED
    BY <1>4, <1>6, <1>8, <1>11, <2>2 DEF IInv, ShapeInv
<1>12. CASE UNCHANGED wait /\ answers' = [answers EXCEPT ![id] = @ + 1]
  <2>1. \A k \in Actors : AnswerOK(act'[k], wait[k], answers')
    <3> SUFFICES ASSUME NEW k \in Actors
                 PROVE  AnswerOK(act'[k], wait[k], answers')
      OBVIOUS
    <3>1. JobsOK(k, act'[k], requests') /\ act'[k] \in ActorRec(Int)
      BY <1>4 DEF JobsInv
    <3>2. requests'[id].line # k
      BY <1>4, Shapes
    <3>3. QED
      <4>1. AnswerOK(act'[k], wait[k], answers)
        BY <1>7
      <4>2. AnswerOK(act'[k], wait[k], [answers EXCEPT ![id] = @ + 1])
        <5>1. PICK reqs, b : /\ reqs[id].line # k /\ b \in ActorRec(Int)
                             /\ JobsOK(k, b, reqs) /\ b = act'[k]
          BY <3>1, <3>2
        <5>2. AnswerOK(b, wait[k], answers)
          BY <4>1, <5>1
        <5>3. AnswerOK(b, wait[k], [answers EXCEPT ![id] = @ + 1])
          BY <1>5, <1>6, <5>1, <5>2, AnsweredElsewhere
        <5>4. QED
          BY <5>1, <5>3
      <4>3. QED
        BY <1>12, <4>2
  <2>2. answers' \in [Ids -> Nat] /\ AnsweredOnce'
    <3>1. answers' \in [Ids -> Nat] /\ answers'[id] = 1
      BY <1>5, <1>6, <1>12
    <3>2. \A n \in Ids : n # id => answers'[n] = answers[n]
      BY <1>6, <1>12
    <3>3. ~(id > id)
      BY <1>5, Shapes
    <3>4. ASSUME NEW n \in Ids
          PROVE  answers'[n] <= 1 /\ (n > id => answers'[n] = 0)
      <4>1. CASE n = id
        BY <3>1, <3>3, <4>1
      <4>2. CASE n # id
        BY <1>5, <1>6, <3>2, <4>2
      <4>3. QED
        BY <4>1, <4>2
    <3>5. QED
      BY <1>4, <3>1, <3>4 DEF AnsweredOnce
  <2>3. RefusalOK(wait[Reader], reader', requests', answers')
    BY <1>8, Frames DEF RefusalOK
  <2>4. AnswerInv'
    BY <1>9, <1>12, <2>1, <2>2, <2>3 DEF AnswerInv
  <2>5. QED
    BY <1>4, <1>8, <1>12, <2>2, <2>4 DEF IInv, ShapeInv
<1>13. CASE wait' = [wait EXCEPT ![Reader] = ReplyFrame(id)] /\ UNCHANGED answers
  <2>1. ReplyFrame(id) \in Frame
    BY <1>5, Frames
  <2>2. /\ wait' \in [Fibers -> Frame \union {NoFrame}] /\ wait'[Reader] = ReplyFrame(id)
        /\ \A g \in Fibers : g # Reader => wait'[g] = wait[g]
    BY <1>8, <1>13, <2>1, Shapes
  <2>3. \A k \in Actors : AnswerOK(act'[k], wait'[k], answers)
    BY <1>7, <2>2, Shapes
  <2>4. \A j \in Subs : wait'[j].kind # "reply"
    BY <1>9, <2>2, Shapes
  <2>5. RefusalOK(wait'[Reader], reader', requests', answers)
    BY <1>4, <1>6, <2>2 DEF RefusalOK, ReplyFrame
  <2>6. AnswerInv'
    BY <1>10, <1>13, <2>3, <2>4, <2>5 DEF AnswerInv
  <2>7. QED
    BY <1>4, <1>6, <1>13, <2>2, <2>6 DEF IInv, ShapeInv
<1>14. QED
  BY <1>11, <1>12, <1>13, ReplyGoes DEF id

\* A job that an actor is given comes after all it has.
LEMMA GivenLast ==
  ASSUME NEW i, NEW a \in ActorRec(Int), NEW job \in Job, NEW reqs \in Seq(Request),
         NEW r \in Request, JobsOK(i, a, reqs), a.pc = "taking" => a.queue = <<>>,
         job.id = Len(reqs) + 1, r = [pane |-> a.pane, op |-> job.op, line |-> i]
  PROVE  LET b == Given(a, job)
         IN /\ b \in ActorRec(Int) /\ b.pane = a.pane /\ b.on = a.on
            /\ JobsOK(i, b, Append(reqs, r))
            /\ \/ /\ a.pc = "taking" /\ b.pc = "took" /\ b.queue = a.queue
                  /\ b.job = job
               \/ /\ a.pc # "taking" /\ b.pc = a.pc /\ b.job = a.job
                  /\ b.queue = Append(a.queue, job)
<1> DEFINE b == Given(a, job)
           sum == a.bytes + job.size
<1>1. sum \in Int
  <2>1. \A size \in Sizes : size \in Int
    BY PaneStreamAssumption DEF PaneStreamAssumption
  <2>2. job.size \in Sizes /\ a.bytes \in Int
    BY DEF Job, ActorRec
  <2>3. QED
    BY <2>1, <2>2
<1>2. /\ JobsOK(i, a, Append(reqs, r))
      /\ DOMAIN Append(reqs, r) = DOMAIN reqs \union {Len(reqs) + 1}
      /\ Append(reqs, r)[Len(reqs) + 1] = r
      /\ \A n \in DOMAIN reqs : n < Len(reqs) + 1
  BY AskedElsewhere, Added
<1>3. JobOf(i, a.pane, job, Append(reqs, r))
  BY <1>2 DEF JobOf
<1>4. job # NoJob /\ NoJob.id = 0 /\ Len(reqs) \in Nat
  BY NoJobId
<1>5. a.job.id < job.id
  <2>1. a.job # NoJob => a.job.id \in DOMAIN reqs
    BY DEF JobsOK, JobOf
  <2>2. QED
    BY <1>2, <1>4, <2>1
<1>6. CASE a.pc = "taking"
  <2>1. b = [a EXCEPT !.bytes = sum, !.pc = "took", !.job = job]
    BY <1>6 DEF Given
  <2>2. a.queue = <<>>
    BY <1>6
  <2>3. /\ b \in ActorRec(Int) /\ b.pane = a.pane /\ b.on = a.on
        /\ b.pc = "took" /\ b.queue = a.queue /\ b.job = job
    BY <1>1, <2>1 DEF ActorRec, ActorPcs
  <2>4. JobsOK(i, b, Append(reqs, r))
    BY <1>3, <1>4, <2>2, <2>3 DEF JobsOK
  <2>5. QED
    BY <1>6, <2>3, <2>4
<1>7. CASE a.pc # "taking"
  <2>1. b = [a EXCEPT !.bytes = sum, !.queue = Append(a.queue, job)]
    BY <1>7 DEF Given
  <2>2. a.queue \in Seq(Job)
    BY JobIds
  <2>3. /\ Append(a.queue, job) \in Seq(Job)
        /\ Append(a.queue, job)[Len(a.queue) + 1] = job
        /\ DOMAIN Append(a.queue, job) = DOMAIN a.queue \union {Len(a.queue) + 1}
        /\ \A k \in DOMAIN a.queue :
             k < Len(a.queue) + 1 /\ Append(a.queue, job)[k] = a.queue[k]
    BY <2>2, Added
  <2>4. /\ b \in ActorRec(Int) /\ b.pane = a.pane /\ b.on = a.on
        /\ b.pc = a.pc /\ b.queue = Append(a.queue, job) /\ b.job = a.job
    BY <1>1, <2>1, <2>3 DEF ActorRec, ActorPcs
  <2>5. \A k \in DOMAIN a.queue : a.queue[k].id < job.id
    BY <1>2 DEF JobsOK, JobOf
  <2>6. \A k \in DOMAIN b.queue :
          JobOf(i, b.pane, b.queue[k], Append(reqs, r)) /\ b.job.id < b.queue[k].id
    BY <1>2, <1>3, <1>5, <2>3, <2>4 DEF JobsOK
  <2>7. \A k, l \in DOMAIN b.queue : k < l => b.queue[k].id < b.queue[l].id
    <3>1. \A k, l \in DOMAIN a.queue : k < l => a.queue[k].id < a.queue[l].id
      BY DEF JobsOK
    <3>2. \A k \in DOMAIN b.queue : ~(Len(a.queue) + 1 < k)
      BY <2>2, <2>3, <2>4
    <3>3. QED
      BY <2>3, <2>4, <2>5, <3>1, <3>2
  <2>8. JobsOK(i, b, Append(reqs, r))
    BY <1>2, <2>4, <2>6, <2>7 DEF JobsOK
  <2>9. QED
    BY <1>7, <2>4, <2>8
<1>8. QED
  BY <1>6, <1>7
LEMMA AskGives ==
  ASSUME IInv, NEW p \in Panes, NEW op \in Ops, NEW i, NEW a, ActorOf(p, i, a),
         NEW job \in Job, job.id = Len(requests) + 1, job.op = op,
         Len(requests) < MaxMessages,
         act' = [act EXCEPT ![i] = Given(a, job)], actors' = [actors EXCEPT ![p] = i],
         requests' = Append(requests, [pane |-> p, op |-> op, line |-> i]),
         UNCHANGED <<credits, begun, reader, wait, answers>>
  PROVE  IInv'
<1> DEFINE b == Given(a, job)
           r == [pane |-> p, op |-> op, line |-> i]
<1>1. a \in ActorRec(Int) /\ a.pane = p /\ a.on /\ i \in Actors
  BY DEF ActorOf
<1>2. /\ JobsOK(i, a, requests) /\ AnswerOK(a, wait[i], answers)
      /\ a.pc # "unused" /\ (a.pc = "taking" => a.queue = <<>>)
      /\ a.pc \notin {"replying", "passing"} => wait[i] = NoFrame
  BY OfFound
<1>3. r \in Request /\ requests \in Seq(Request) /\ r = [pane |-> a.pane, op |-> job.op, line |-> i]
  BY <1>1 DEF Request, IInv, ShapeInv
<1>4. /\ b \in ActorRec(Int) /\ b.pane = a.pane /\ b.on = a.on
      /\ JobsOK(i, b, Append(requests, r))
      /\ \/ /\ a.pc = "taking" /\ b.pc = "took" /\ b.queue = a.queue
            /\ b.job = job
         \/ /\ a.pc # "taking" /\ b.pc = a.pc /\ b.job = a.job
            /\ b.queue = Append(a.queue, job)
  BY <1>1, <1>2, <1>3, GivenLast
<1>5. /\ act' = [act EXCEPT ![i] = b] /\ requests' = Append(requests, r)
      /\ JobsOK(i, b, requests')
  BY <1>4
<1> HIDE DEF b, r
<1>6. a.queue \in Seq(Job)
  BY <1>1, JobIds
<1>7. /\ Append(a.queue, job)[Len(a.queue) + 1] = job
      /\ DOMAIN Append(a.queue, job) = DOMAIN a.queue \union {Len(a.queue) + 1}
      /\ \A k \in DOMAIN a.queue : Append(a.queue, job)[k] = a.queue[k]
  BY <1>6, Added
<1>8. \A n \in DOMAIN requests : /\ Ahead(n, a) => Ahead(n, b)
                                 /\ DoneWith(n, a) => DoneWith(n, b)
  <2> SUFFICES ASSUME NEW n \in DOMAIN requests
               PROVE  /\ Ahead(n, a) => Ahead(n, b)
                      /\ DoneWith(n, a) => DoneWith(n, b)
    OBVIOUS
  <2>1. n < job.id
    BY <1>3
  <2>2. Ahead(n, a) => Ahead(n, b)
    BY <1>2, <1>4, <1>7, <2>1 DEF Ahead
  <2>3. DoneWith(n, a) => DoneWith(n, b)
    BY <1>1, <1>4 DEF DoneWith
  <2>4. QED
    BY <2>2, <2>3
<1>9. b.pane = p /\ b.on /\ b.pc # "unused" /\ (b.pc = "taking" => b.queue = <<>>)
  BY <1>1, <1>2, <1>4
<1>10. i \in {None, i} /\ begun' = begun
  OBVIOUS
<1>11. /\ act' \in [Actors -> ActorRec(Int)]
       /\ actors' \in [Panes -> Actors \union {None}]
       /\ requests' \in Seq(Request) /\ Len(requests') = Len(requests) + 1
       /\ Len(requests') <= MaxMessages
       /\ requests'[Len(requests) + 1].line = i
       /\ DOMAIN requests' = DOMAIN requests \union {Len(requests) + 1}
       /\ \A n \in DOMAIN requests : requests'[n] = requests[n]
       /\ act'[i] = b /\ \A k \in Actors : k # i => act'[k] = act[k]
       /\ TableInv' /\ JobsInv' /\ BegunInv'
  BY <1>4, <1>5, <1>8, <1>9, <1>10, Asked DEF r
<1>12. /\ answers[job.id] = 0
       /\ \A n \in Ids : answers[n] <= 1 /\ (n > Len(requests) => answers[n] = 0)
  <2>1. job.id \in Ids /\ job.id > Len(requests)
    BY <1>3 DEF Job
  <2>2. QED
    BY <2>1 DEF IInv, AnswerInv, AnsweredOnce
<1>13. AnswerOK(b, wait[i], answers)
  <2>1. CASE a.pc = "taking"
    BY <1>2, <1>4, <1>12, <2>1 DEF AnswerOK
  <2>2. CASE a.pc # "taking"
    <3>1. \A k \in DOMAIN b.queue : answers[b.queue[k].id] = 0
      <4>1. \A k \in DOMAIN a.queue : answers[a.queue[k].id] = 0
        BY <1>2 DEF AnswerOK
      <4>2. /\ b.queue = Append(a.queue, job)
            /\ \A k \in DOMAIN b.queue : k \in DOMAIN a.queue \/ k = Len(a.queue) + 1
        BY <1>4, <1>7, <2>2
      <4>3. \A k \in DOMAIN a.queue : b.queue[k] = a.queue[k]
        BY <1>7, <4>2
      <4>4. b.queue[Len(a.queue) + 1] = job
        BY <1>7, <4>2
      <4>5. QED
        BY <1>12, <4>1, <4>2, <4>3, <4>4
    <3>2. QED
      BY <1>2, <1>4, <2>2, <3>1 DEF AnswerOK
  <2>3. QED
    BY <2>1, <2>2
<1>14. \A k \in Actors : AnswerOK(act'[k], wait[k], answers)
  BY <1>11, <1>13, OfActor
<1>15. RefusalOK(wait[Reader], reader, requests', answers)
  BY <1>11 DEF RefusalOK, IInv, AnswerInv
<1>16. AnsweredOnce'
  <2>1. \A n \in Ids : n > Len(requests) + 1 => n > Len(requests)
    BY Shapes
  <2>2. QED
    BY <1>11, <1>12, <2>1 DEF AnsweredOnce
<1>17. AnswerInv'
  BY <1>14, <1>15, <1>16 DEF IInv, AnswerInv
<1>18. QED
  BY <1>11, <1>17 DEF IInv, ShapeInv

LEMMA AskKeeps ==
  ASSUME IInv, NEW p \in Panes, NEW op \in Ops, NEW size \in Sizes, Ask(p, op, size)
  PROVE  IInv'
<1>1. reader = "reading" /\ Len(requests) < MaxMessages
  <2>1. credits \in Nat /\ credits + Len(requests) < MaxMessages /\ Len(requests) \in Nat
    BY Shapes DEF Ask, IInv, ShapeInv
  <2>2. QED
    BY <2>1, PaneStreamAssumption DEF Ask, PaneStreamAssumption
<1>2. CASE actors[p] = None /\ Full(actors, ActorCap)
  <2>1. Raise
    BY <1>2 DEF Ask, Raise
  <2>2. QED
    BY <1>1, <2>1, RaiseKeeps
<1>3. CASE ~(actors[p] = None /\ Full(actors, ActorCap))
  <2> DEFINE i == ActorFor(p)[1]
             a == ActorFor(p)[2]
             id == Len(requests) + 1
             job == [id |-> id, op |-> op, size |-> size]
  <2>1. ActorOf(p, i, a)
    BY <1>3, ActorFound DEF Ask
  <2>2. actors' = [actors EXCEPT ![p] = i] /\ UNCHANGED <<credits, begun>>
    BY <1>3 DEF Ask
  <2>3. CASE TooMuch(a, size)
    <3>1. /\ act' = [act EXCEPT ![i] = a] /\ reader' = "refusing"
          /\ requests' = Append(requests, [pane |-> p, op |-> op, line |-> None])
          /\ Reply(Reader, Len(requests) + 1)
      BY <1>3, <2>3 DEF Ask
    <3>2. QED
      BY <1>1, <2>1, <2>2, <3>1, AskRefuses
  <2>4. CASE ~TooMuch(a, size)
    <3>1. /\ act' = [act EXCEPT ![i] = Given(a, job)]
          /\ requests' = Append(requests, [pane |-> p, op |-> op, line |-> i])
          /\ UNCHANGED <<reader, socketVars>>
      BY <1>3, <2>4 DEF Ask
    <3>2. id \in Ids
      BY <1>1, Shapes, PaneStreamAssumption DEF Ids, PaneStreamAssumption
    <3>3. job \in Job /\ job.id = Len(requests) + 1 /\ job.op = op
      BY <3>2 DEF Job
    <3>4. QED
      BY <1>1, <2>1, <2>2, <3>1, <3>3, AskGives
  <2>5. QED
    BY <2>3, <2>4
<1>4. QED
  BY <1>2, <1>3
-----------------------------------------------------------------------------
(* The theorems.                                                           *)

LEMMA Starts ==
  ASSUME Init
  PROVE  IInv
<1>1. /\ act = [i \in Actors |->
           [pane |-> None, queue |-> <<>>, bytes |-> 0, on |-> FALSE,
            closed |-> FALSE, job |-> NoJob, pc |-> "unused"]]
      /\ actors = [p \in Panes |-> None] /\ wait = [f \in Fibers |-> NoFrame]
      /\ credits = 0 /\ requests = <<>> /\ begun = <<>>
      /\ answers = [n \in Ids |-> 0] /\ reader = "reading"
  BY DEF Init
<1>2. ShapeInv
  <2>1. 0 <= MaxMessages
    BY PaneStreamAssumption DEF PaneStreamAssumption
  <2>2. act \in [Actors -> ActorRec(Int)]
    BY <1>1 DEF ActorRec, ActorPcs
  <2>3. actors \in [Panes -> Actors \union {None}] /\ answers \in [Ids -> Nat]
    BY <1>1
  <2>4. wait \in [Fibers -> Frame \union {NoFrame}]
    BY <1>1
  <2>5. /\ requests \in Seq(Request) /\ Len(requests) = 0 /\ begun \in Seq(Ids)
        /\ credits \in Nat
    BY <1>1
  <2>6. QED
    BY <2>1, <2>2, <2>3, <2>4, <2>5 DEF ShapeInv
<1>3. \A i \in Actors :
        /\ act[i].pc = "unused" /\ ~act[i].on
        /\ act[i].queue = <<>> /\ act[i].job = NoJob
  BY <1>1
<1>4. TableInv
  BY <1>1, <1>3 DEF TableInv, TableOK
<1>5. JobsInv
  BY <1>3 DEF JobsInv, JobsOK
<1>6. BegunInv
  BY <1>1, <1>3 DEF BegunInv, InOrder, ShutdownIsLast
<1>7. AnswerInv
  <2>1. \A f \in Fibers : wait[f] = NoFrame
    BY <1>1
  <2>2. /\ Actors \subseteq Fibers /\ Subs \subseteq Fibers /\ Reader \in Fibers
    BY DEF Fibers
  <2>3. AnsweredOnce
    BY <1>1 DEF AnsweredOnce
  <2>4. QED
    BY <1>3, <2>1, <2>2, <2>3, Frames DEF AnswerInv, AnswerOK, RefusalOK
<1>8. QED
  BY <1>2, <1>4, <1>5, <1>6, <1>7 DEF IInv

LEMMA Steps ==
  ASSUME IInv, [Next]_vars
  PROVE  IInv'
<1>1. CASE \E f \in Fibers : Retry(f)
  BY <1>1, RetryKeeps
<1>2. CASE \E j \in Subs : SubStep(j) \/ Credit(j)
  BY <1>2, SilentKeeps DEF SubStep
<1>3. CASE \E j \in Subs : Polled(j)
  BY <1>3, PolledKeeps
<1>4. CASE \E i \in Actors : ActorStep(i) \/ End(i)
  BY <1>4, ActorStartsKeeps, BeginKeeps, EndKeeps, GoOnKeeps, ShutdownKeeps,
     DrainKeeps, DrainOnKeeps DEF ActorStep
<1>5. CASE WriterStep \/ ReadOn \/ \E p \in Watches : Unsubscribe(p)
  BY <1>5, SilentKeeps
<1>6. CASE ReaderEnds \/ HangUp
  BY <1>6, CloseKeeps
<1>7. CASE \E p \in Watches : Subscribe(p)
  BY <1>7, SubscribeKeeps
<1>8. CASE \E ask \in Asks, size \in Sizes : Ask(ask[1], ask[2], size)
  <2>1. \A ask \in Asks : ask[1] \in Panes /\ ask[2] \in Ops
    BY PaneStreamAssumption DEF PaneStreamAssumption, Ops
  <2>2. QED
    BY <1>8, <2>1, AskKeeps
<1>9. CASE PageCloses
  BY <1>9, RaiseKeeps DEF PageCloses
<1>10. CASE UNCHANGED vars
  <2>1. credits \in Nat
    BY DEF IInv, ShapeInv
  <2>2. QED
    BY <1>10, <2>1, QuietKeeps DEF vars
<1>11. QED
  BY <1>1, <1>2, <1>3, <1>4, <1>5, <1>6, <1>7, <1>8, <1>9, <1>10
     DEF Next, FiberSteps, PageSteps, ReaderStep

\* The actors, the table, the requests and their answers stay as IInv says,
\* for any number of panes, fibers and requests.
THEOREM Invariance == Spec => []IInv
<1>1. Init => IInv
  BY Starts
<1>2. IInv /\ [Next]_vars => IInv'
  BY Steps
<1>3. QED
  BY <1>1, <1>2, PTL DEF Spec

\* The operations of a pane that one page asks for are carried out one at a
\* time and in the order they were asked for, also when a shutdown has
\* replaced the actor (core.janet's per-pane command queues).
THEOREM Order == Spec => []InOrder
<1>1. IInv => InOrder
  BY DEF IInv, BegunInv
<1>2. QED
  BY <1>1, Invariance, PTL

\* What waits behind a shutdown is not carried out.
THEOREM ShutdownLast == Spec => []ShutdownIsLast
<1>1. IInv => ShutdownIsLast
  BY DEF IInv, BegunInv
<1>2. QED
  BY <1>1, Invariance, PTL

\* No request is answered twice.
THEOREM AtMostOneAnswer == Spec => []AnsweredOnce
<1>1. IInv => AnsweredOnce
  BY DEF IInv, AnswerInv
<1>2. QED
  BY <1>1, Invariance, PTL
-----------------------------------------------------------------------------
(* The counts of bytes.                                                    *)

\* The bytes of requests and of frames are numbers; one more adds its own to
\* them, and taking the first takes its own away.
SizeOf == [job \in Job |-> job.size]
LenOf == [frame \in Frame |-> frame.len]

LEMMA JobBytesOf ==
  ASSUME NEW q \in Seq(Job)
  PROVE  /\ JobBytes(q) \in Nat /\ (q = <<>> => JobBytes(q) = 0)
         /\ \A job \in Job : JobBytes(Append(q, job)) = JobBytes(q) + job.size
         /\ q # <<>> => JobBytes(q) = Head(q).size + JobBytes(Tail(q))
<1>1. SizeOf \in [Job -> Nat] /\ \A job \in Job : SizeOf[job] = job.size
  <2>1. \A size \in Sizes : size \in Nat
    BY PaneStreamAssumption DEF PaneStreamAssumption
  <2>2. \A job \in Job : job.size \in Nat
    BY <2>1 DEF Job
  <2>3. QED
    BY <2>2 DEF SizeOf
<1>2. \A r \in Seq(Job) : JobBytes(r) = Weight(SizeOf, r)
  <2> SUFFICES ASSUME NEW r \in Seq(Job) PROVE JobBytes(r) = Weight(SizeOf, r)
    OBVIOUS
  <2>1. [k \in DOMAIN r |-> r[k].size] = [k \in DOMAIN r |-> SizeOf[r[k]]]
    BY <1>1
  <2>2. QED
    BY <2>1 DEF JobBytes, Weight
<1>3. \A job \in Job : Append(q, job) \in Seq(Job)
  OBVIOUS
<1>4. q # <<>> => Tail(q) \in Seq(Job) /\ Head(q) \in Job
  OBVIOUS
<1>5. \A job \in Job : Weight(SizeOf, Append(q, job)) = Weight(SizeOf, q) + job.size
  BY <1>1, WeightAdded
<1>6. q # <<>> => Weight(SizeOf, q) = Head(q).size + Weight(SizeOf, Tail(q))
  BY <1>1, <1>4, WeightRest
<1>7. Weight(SizeOf, q) \in Nat /\ Weight(SizeOf, <<>>) = 0
  BY <1>1, Weighed, NoWeight
<1>8. QED
  BY <1>2, <1>3, <1>4, <1>5, <1>6, <1>7

LEMMA FrameBytesOf ==
  ASSUME NEW q \in Seq(Frame)
  PROVE  /\ FrameBytes(q) \in Nat /\ (q = <<>> => FrameBytes(q) = 0)
         /\ \A frame \in Frame : FrameBytes(Append(q, frame)) = FrameBytes(q) + frame.len
         /\ q # <<>> => FrameBytes(q) = Head(q).len + FrameBytes(Tail(q))
<1>1. LenOf \in [Frame -> Nat] /\ \A frame \in Frame : LenOf[frame] = frame.len
  <2>1. \A frame \in Frame : frame.len \in Nat
    BY DEF Frame
  <2>2. QED
    BY <2>1 DEF LenOf
<1>2. \A r \in Seq(Frame) : FrameBytes(r) = Weight(LenOf, r)
  <2> SUFFICES ASSUME NEW r \in Seq(Frame) PROVE FrameBytes(r) = Weight(LenOf, r)
    OBVIOUS
  <2>1. [k \in DOMAIN r |-> r[k].len] = [k \in DOMAIN r |-> LenOf[r[k]]]
    BY <1>1
  <2>2. QED
    BY <2>1 DEF FrameBytes, Weight
<1>3. \A frame \in Frame : Append(q, frame) \in Seq(Frame)
  OBVIOUS
<1>4. q # <<>> => Tail(q) \in Seq(Frame) /\ Head(q) \in Frame
  OBVIOUS
<1>5. \A frame \in Frame : Weight(LenOf, Append(q, frame)) = Weight(LenOf, q) + frame.len
  BY <1>1, WeightAdded
<1>6. q # <<>> => Weight(LenOf, q) = Head(q).len + Weight(LenOf, Tail(q))
  BY <1>1, <1>4, WeightRest
<1>7. Weight(LenOf, q) \in Nat /\ Weight(LenOf, <<>>) = 0
  BY <1>1, Weighed, NoWeight
<1>8. QED
  BY <1>2, <1>3, <1>4, <1>5, <1>6, <1>7
\* The outgoing queue, its writer and its bytes.
SocketInv ==
  /\ alive \in BOOLEAN /\ outgoing \in Seq(Frame) /\ queued \in Nat
  /\ writer \in {"idle", "busy", "ended"} /\ writing \in Frame \union {NoFrame}
  /\ parked \in Seq(Fibers)
  /\ OutgoingBounded /\ WriterInv

LEMMA Caps ==
  /\ QueueCap \in Nat \ {0} /\ ByteCap \in Nat \ {0}
  /\ SendCap \in Nat \ {0} /\ MaxMessages \in Nat
BY PaneStreamAssumption DEF PaneStreamAssumption

LEMMA Lengths ==
  /\ \A frame \in Frame : frame.len \in Nat /\ frame.len > 0
  /\ NoFrame.len = 0
BY DEF Frame, NoFrame

\* The bytes that are counted are of the frame in the writer's hands and of
\* those in the channel.
LEMMA SocketBytes ==
  ASSUME SocketInv
  PROVE  /\ writing.len \in Nat /\ FrameBytes(outgoing) \in Nat
         /\ alive => queued = writing.len + FrameBytes(outgoing)
         /\ alive /\ writer = "busy" => writing.len > 0 /\ queued > 0
         /\ alive /\ writer = "idle" => writing = NoFrame /\ outgoing = <<>> /\ queued = 0
         /\ alive => writer \in {"idle", "busy"}
<1>1. writing.len \in Nat
  BY Lengths DEF SocketInv
<1>2. FrameBytes(outgoing) \in Nat /\ (outgoing = <<>> => FrameBytes(outgoing) = 0)
  BY FrameBytesOf DEF SocketInv
<1>3. alive => queued = writing.len + FrameBytes(outgoing)
  BY DEF SocketInv, OutgoingBounded
<1>4. alive /\ writer = "busy" => writing.len > 0 /\ queued > 0
  <2> SUFFICES ASSUME alive, writer = "busy" PROVE writing.len > 0 /\ queued > 0
    OBVIOUS
  <2>1. writing \in Frame
    BY DEF SocketInv, WriterInv
  <2>2. QED
    BY <1>1, <1>2, <1>3, <2>1, Lengths
<1>5. alive /\ writer = "idle" => writing = NoFrame /\ outgoing = <<>> /\ queued = 0
  <2>1. alive /\ writer = "idle" => writing = NoFrame /\ outgoing = <<>>
    BY DEF SocketInv, WriterInv
  <2>2. QED
    BY <1>2, <1>3, <2>1, Lengths
<1>6. alive => writer \in {"idle", "busy"}
  BY DEF SocketInv, WriterInv
<1>7. QED
  BY <1>1, <1>2, <1>3, <1>4, <1>5, <1>6

LEMMA PutCounts ==
  ASSUME SocketInv, alive, alive' = alive, NEW f \in Fibers, NEW frame \in Frame,
         Room(frame.len), Put(f, frame)
  PROVE  SocketInv'
<1>1. /\ queued \in Nat /\ frame.len \in Nat /\ frame.len > 0 /\ SendCap \in Nat
      /\ writing.len \in Nat /\ FrameBytes(outgoing) \in Nat
      /\ queued = writing.len + FrameBytes(outgoing)
      /\ outgoing \in Seq(Frame) /\ parked \in Seq(Fibers)
      /\ queued' = queued + frame.len
  BY SocketBytes, Lengths, Caps DEF SocketInv, Put
<1>2. CASE writer = "idle"
  <2>1. /\ writer' = "busy" /\ writing' = frame /\ UNCHANGED <<outgoing, parked>>
    BY <1>2 DEF Put
  <2>2. outgoing = <<>> /\ queued = 0 /\ FrameBytes(outgoing) = 0
    BY <1>2, <1>1, SocketBytes, FrameBytesOf
  <2>3. OutgoingBounded'
    BY <1>1, <2>1, <2>2 DEF OutgoingBounded
  <2>4. WriterInv'
    BY <2>1 DEF WriterInv
  <2>5. queued' \in Nat
    BY <1>1
  <2>6. QED
    BY <1>1, <2>1, <2>3, <2>4, <2>5 DEF SocketInv
<1>3. CASE writer # "idle"
  <2>1. /\ outgoing' = Append(outgoing, frame) /\ UNCHANGED <<writer, writing>>
        /\ parked' = parked \/ parked' = Append(parked, f)
    BY <1>3 DEF Put
  <2>2. writer = "busy" /\ queued > 0
    BY <1>3, SocketBytes
  <2>3. /\ outgoing' \in Seq(Frame)
        /\ FrameBytes(outgoing') = FrameBytes(outgoing) + frame.len
    <3>1. Append(outgoing, frame) \in Seq(Frame)
      BY <1>1
    <3>2. FrameBytes(Append(outgoing, frame)) = FrameBytes(outgoing) + frame.len
      BY <1>1, FrameBytesOf
    <3>3. QED
      BY <2>1, <3>1, <3>2
  <2>4. queued' <= SendCap
    BY <1>1, <2>2 DEF Room
  <2>5. queued' = writing.len + FrameBytes(outgoing')
    BY <1>1, <2>3
  <2>6. OutgoingBounded'
    BY <1>1, <2>1, <2>4, <2>5 DEF OutgoingBounded
  <2>7. WriterInv'
    BY <2>1, <2>2 DEF WriterInv, SocketInv
  <2>8. parked' \in Seq(Fibers) /\ queued' \in Nat
    <3>1. Append(parked, f) \in Seq(Fibers)
      BY <1>1
    <3>2. queued + frame.len \in Nat
      BY <1>1
    <3>3. QED
      BY <1>1, <2>1, <3>1, <3>2
  <2>9. QED
    BY <2>1, <2>3, <2>6, <2>7, <2>8 DEF SocketInv
<1>4. QED
  BY <1>2, <1>3

LEMMA SocketStays ==
  ASSUME SocketInv, UNCHANGED <<alive, outgoing, queued, writer, writing, parked>>
  PROVE  SocketInv'
BY DEF SocketInv, OutgoingBounded, WriterInv

LEMMA SendCounts ==
  ASSUME SocketInv, NEW f \in Fibers, NEW frame \in Frame, Send(f, frame)
  PROVE  SocketInv'
<1>1. CASE alive /\ Room(frame.len)
  BY <1>1, PutCounts DEF Send
<1>2. CASE ~(alive /\ Room(frame.len))
  BY <1>2, SocketStays DEF Send
<1>3. QED
  BY <1>1, <1>2

LEMMA ReplyCounts ==
  ASSUME SocketInv, NEW f \in Fibers, NEW id \in Ids, Reply(f, id)
  PROVE  SocketInv'
<1>1. CASE open
  <2>1. Send(f, ReplyFrame(id)) /\ ReplyFrame(id) \in Frame
    BY <1>1, Frames DEF Reply, ReplyFrame
  <2>2. QED
    BY <2>1, SendCounts
<1>2. CASE ~open
  BY <1>2, SocketStays DEF Reply
<1>3. QED
  BY <1>1, <1>2

LEMMA WriterCounts ==
  ASSUME SocketInv, WriterStep
  PROVE  SocketInv'
<1>1. CASE WriterGoesOn
  <2>1. /\ alive /\ alive' = alive /\ writer = "busy" /\ queued' = queued - writing.len
        /\ outgoing \in Seq(Frame) /\ parked \in Seq(Fibers) /\ SendCap \in Nat
        /\ writing.len \in Nat /\ FrameBytes(outgoing) \in Nat
        /\ queued = writing.len + FrameBytes(outgoing)
    BY <1>1, SocketBytes, Caps DEF WriterGoesOn, SocketInv
  <2>2. queued' = FrameBytes(outgoing) /\ queued' \in Nat
    BY <2>1
  <2>3. CASE outgoing = <<>>
    <3>1. writer' = "idle" /\ writing' = NoFrame /\ UNCHANGED <<outgoing, parked>>
      BY <1>1, <2>3 DEF WriterGoesOn
    <3>2. FrameBytes(outgoing') = 0 /\ queued' = 0
      BY <2>1, <2>2, <2>3, <3>1, FrameBytesOf
    <3>3. OutgoingBounded'
      <4>1. writing'.len = 0 /\ outgoing' = <<>>
        BY <2>3, <3>1, Lengths
      <4>2. QED
        BY <3>2, <4>1 DEF OutgoingBounded
    <3>4. WriterInv'
      BY <2>3, <3>1 DEF WriterInv
    <3>5. QED
      BY <2>1, <2>2, <3>1, <3>3, <3>4 DEF SocketInv
  <2>4. CASE outgoing # <<>>
    <3>1. /\ writing' = Head(outgoing) /\ outgoing' = Tail(outgoing) /\ writer' = writer
          /\ parked' = IF parked = <<>> THEN parked ELSE Tail(parked)
      BY <1>1, <2>4 DEF WriterGoesOn
    <3>2. Head(outgoing) \in Frame /\ Tail(outgoing) \in Seq(Frame)
      BY <2>1, <2>4
    <3>3. FrameBytes(outgoing) = Head(outgoing).len + FrameBytes(Tail(outgoing))
      BY <2>1, <2>4, FrameBytesOf
    <3>4. ~(queued > SendCap) /\ queued' <= queued
      BY <2>1, <2>2, <2>4 DEF SocketInv, OutgoingBounded
    <3>5. ~(queued' > SendCap)
      BY <2>1, <2>2, <3>4
    <3>6. OutgoingBounded'
      BY <2>2, <3>1, <3>3, <3>5 DEF OutgoingBounded
    <3>7. WriterInv'
      BY <2>1, <3>1, <3>2 DEF WriterInv
    <3>8. parked' \in Seq(Fibers)
      BY <2>1, <3>1
    <3>9. QED
      BY <2>1, <2>2, <3>1, <3>2, <3>6, <3>7, <3>8 DEF SocketInv
  <2>5. QED
    BY <2>3, <2>4
<1>2. CASE WriterFails
  <2>1. /\ alive' = FALSE /\ outgoing' = <<>> /\ parked' = <<>> /\ writer' = "ended"
        /\ writing' = NoFrame /\ queued' = queued
    BY <1>2 DEF WriterFails
  <2>2. <<>> \in Seq(Frame) /\ <<>> \in Seq(Fibers)
    OBVIOUS
  <2>3. OutgoingBounded' /\ WriterInv'
    BY <2>1 DEF OutgoingBounded, WriterInv
  <2>4. QED
    BY <2>1, <2>2, <2>3 DEF SocketInv
<1>3. CASE WriterEnds
  <2>1. /\ ~alive /\ writer' = "ended" /\ writing' = NoFrame
        /\ UNCHANGED <<alive, outgoing, queued, parked>>
    BY <1>3 DEF WriterEnds
  <2>2. QED
    BY <2>1 DEF SocketInv, OutgoingBounded, WriterInv
<1>4. QED
  BY <1>1, <1>2, <1>3 DEF WriterStep

LEMMA CloseCounts ==
  ASSUME SocketInv, CloseSocket
  PROVE  SocketInv'
<1>1. /\ alive' = FALSE /\ outgoing' = <<>> /\ parked' = <<>>
      /\ writer' \in {"idle", "busy", "ended"} /\ UNCHANGED <<queued, writing>>
  BY DEF CloseSocket, SocketInv
<1>2. <<>> \in Seq(Frame) /\ <<>> \in Seq(Fibers)
  OBVIOUS
<1>3. OutgoingBounded' /\ WriterInv'
  BY <1>1 DEF OutgoingBounded, WriterInv
<1>4. QED
  BY <1>1, <1>2, <1>3 DEF SocketInv
\* Every step sends a frame, or a reply, or leaves the outgoing queue to the
\* writer and the close.
LEMMA SocketSteps ==
  ASSUME IInv, SocketInv, [Next]_vars
  PROVE  SocketInv'
<1>1. ASSUME NEW f \in Fibers, Retry(f)
      PROVE  SocketInv'
  <2>1. wait[f] \in Frame
    BY <1>1 DEF Retry, IInv, ShapeInv
  <2>2. CASE alive
    BY <1>1, <2>1, <2>2, PutCounts DEF Retry
  <2>3. CASE ~alive
    BY <1>1, <2>3, SocketStays DEF Retry
  <2>4. QED
    BY <2>2, <2>3
<1>2. CASE \E j \in Subs : SubStep(j) \/ Credit(j)
  BY <1>2, SocketStays DEF SubStep, SubGoesOn, SubDies, Credit
<1>3. ASSUME NEW j \in Subs, Polled(j)
      PROVE  SocketInv'
  <2>1. j \in Fibers
    BY Shapes
  <2>2. \/ \E len \in Nat \ {0} : Send(j, OutputFrame(j, len))
        \/ UNCHANGED socketVars
    <3>1. \A len \in OutputSizes : len \in Nat \ {0}
      BY PaneStreamAssumption DEF PaneStreamAssumption
    <3>2. CASE SubSends(j)
      BY <3>1, <3>2 DEF SubSends, OutputFrame
    <3>3. CASE SubFails(j)
      BY <3>3 DEF SubFails, OutputFrame
    <3>4. QED
      BY <1>3, <3>2, <3>3 DEF Polled
  <2>3. QED
    BY <2>1, <2>2, OtherFrames, SendCounts, SocketStays
<1>4. ASSUME NEW i \in Actors, ActorStep(i) \/ End(i)
      PROVE  SocketInv'
  <2>1. /\ i \in Fibers /\ act[i] \in ActorRec(Int)
        /\ act[i].pc \in {"took", "running", "replying", "drained"} => act[i].job.id \in Ids
    BY Shapes, OfActor, JobIds DEF JobsOK
  <2>2. CASE ActorStarts(i) \/ GoOn(i) \/ DrainOn(i)
    BY <2>2, SocketStays DEF ActorStarts, GoOn, DrainOn
  <2>3. CASE Begin(i)
    <3>1. Reply(i, act[i].job.id) \/ UNCHANGED socketVars
      BY <2>3 DEF Begin
    <3>2. act[i].pc = "took"
      BY <2>3 DEF Begin
    <3>3. QED
      BY <2>1, <3>1, <3>2, ReplyCounts, SocketStays
  <2>4. CASE Drain(i)
    <3>1. \/ act[i].pc = "drained" /\ Reply(i, act[i].job.id)
          \/ UNCHANGED socketVars
      BY <2>4 DEF Drain
    <3>2. QED
      BY <2>1, <3>1, ReplyCounts, SocketStays
  <2>5. CASE End(i)
    <3>1. act[i].pc = "running" /\ Reply(i, act[i].job.id)
      BY <2>5 DEF End
    <3>2. QED
      BY <2>1, <3>1, ReplyCounts
  <2>6. QED
    BY <1>4, <2>2, <2>3, <2>4, <2>5 DEF ActorStep
<1>5. CASE WriterStep
  BY <1>5, WriterCounts
<1>6. CASE ReadOn \/ (\E p \in Watches : Unsubscribe(p)) \/ UNCHANGED vars
  BY <1>6, SocketStays DEF ReadOn, Unsubscribe, vars
<1>7. CASE ReaderEnds \/ HangUp
  BY <1>7, CloseCounts, SocketStays DEF ReaderEnds, HangUp
<1>8. ASSUME Raise
      PROVE  SocketInv'
  <2>1. Send(Reader, CloseFrame) /\ Reader \in Fibers
    BY <1>8, Shapes DEF Raise, CloseFrame
  <2>2. QED
    BY <2>1, OtherFrames, SendCounts
<1>9. CASE PageCloses \/ \E p \in Watches : Subscribe(p)
  BY <1>8, <1>9, SocketStays DEF PageCloses, Subscribe
<1>10. ASSUME NEW p \in Panes, NEW op \in Ops, NEW size \in Sizes, Ask(p, op, size)
       PROVE  SocketInv'
  <2>1. CASE actors[p] = None /\ Full(actors, ActorCap)
    <3>1. Send(Reader, CloseFrame) /\ Reader \in Fibers
      BY <1>10, <2>1, Shapes DEF Ask, CloseFrame
    <3>2. QED
      BY <3>1, OtherFrames, SendCounts
  <2>2. CASE ~(actors[p] = None /\ Full(actors, ActorCap))
    <3>1. Reply(Reader, Len(requests) + 1) \/ UNCHANGED socketVars
      BY <1>10, <2>2 DEF Ask
    <3>2. Len(requests) + 1 \in Ids
      <4>1. credits \in Nat /\ credits + Len(requests) < MaxMessages /\ Len(requests) \in Nat
        BY <1>10, Shapes DEF Ask, IInv, ShapeInv
      <4>2. QED
        BY <4>1, Caps DEF Ids
    <3>3. QED
      BY <3>1, <3>2, Shapes, ReplyCounts, SocketStays
  <2>3. QED
    BY <2>1, <2>2
<1>11. CASE \E ask \in Asks, size \in Sizes : Ask(ask[1], ask[2], size)
  <2>1. \A ask \in Asks : ask[1] \in Panes /\ ask[2] \in Ops
    BY PaneStreamAssumption DEF PaneStreamAssumption, Ops
  <2>2. QED
    BY <1>10, <1>11, <2>1
<1>12. QED
  BY <1>1, <1>2, <1>3, <1>4, <1>5, <1>6, <1>7, <1>9, <1>11
     DEF Next, FiberSteps, PageSteps, ReaderStep

-----------------------------------------------------------------------------
(* The queue of an actor.                                                  *)

CountOK(a) ==
  /\ a.bytes \in Nat /\ Len(a.queue) <= QueueCap /\ a.bytes <= ByteCap
  /\ a.on => a.bytes = InHand(a) + JobBytes(a.queue)
  /\ a.pc = "unused" => a.bytes = 0
  /\ a.pc \in {"drained", "spinning", "passing"} => ~a.on
ActorsInv == \A i \in Actors : CountOK(act[i])

\* What is in the hand of an actor is what it took, until it begins.
InHandMoves(a, b) ==
  \/ Keeps(a, b) /\ (a.pc = "took" <=> b.pc = "took")
  \/ Takes(a, b) /\ a.pc # "took" /\ b.pc = "took"

LEMMA Held ==
  ASSUME NEW a \in ActorRec(Int)
  PROVE  /\ a.queue \in Seq(Job) /\ Len(a.queue) \in Nat /\ JobBytes(a.queue) \in Nat
         /\ \A job \in Job : job.size \in Nat
<1>1. a.queue \in Seq(Job)
  BY DEF ActorRec
<1>2. \A size \in Sizes : size \in Nat
  BY PaneStreamAssumption DEF PaneStreamAssumption
<1>3. \A job \in Job : job.size \in Nat
  BY <1>2 DEF Job
<1>4. Len(a.queue) \in Nat
  BY <1>1
<1>5. QED
  BY <1>1, <1>3, <1>4, JobBytesOf

LEMMA CountsMove ==
  ASSUME NEW a \in ActorRec(Int), NEW b, Moves(a, b), CountOK(a),
         b.bytes = a.bytes, b.pc # "unused",
         b.on => a.on /\ InHandMoves(a, b),
         b.pc \in {"drained", "spinning", "passing"} => ~b.on
  PROVE  CountOK(b)
<1>1. a.queue \in Seq(Job) /\ b.queue \in Seq(Job) /\ a.bytes \in Int
  BY DEF Moves, ActorRec
<1>2. Len(b.queue) <= Len(a.queue)
  <2>1. CASE Keeps(a, b)
    BY <1>1, <2>1 DEF Keeps
  <2>2. CASE Takes(a, b)
    BY <1>1, <2>2 DEF Takes
  <2>3. QED
    BY <2>1, <2>2 DEF Moves
<1>3. Len(b.queue) <= QueueCap
  BY <1>1, <1>2, Caps DEF CountOK
<1>4. ASSUME b.on
      PROVE  b.bytes = InHand(b) + JobBytes(b.queue)
  <2>1. a.bytes = InHand(a) + JobBytes(a.queue)
    BY <1>4 DEF CountOK
  <2>2. CASE Keeps(a, b) /\ (a.pc = "took" <=> b.pc = "took")
    BY <2>1, <2>2 DEF Keeps, InHand
  <2>3. CASE Takes(a, b) /\ a.pc # "took" /\ b.pc = "took"
    <3>1. JobBytes(a.queue) = Head(a.queue).size + JobBytes(Tail(a.queue))
      BY <1>1, <2>3, JobBytesOf DEF Takes
    <3>2. InHand(a) = 0 /\ InHand(b) = Head(a.queue).size
      BY <2>3 DEF InHand, Takes
    <3>3. b.queue = Tail(a.queue)
      BY <2>3 DEF Takes
    <3>4. JobBytes(a.queue) \in Nat
      BY Held
    <3>5. QED
      BY <2>1, <3>1, <3>2, <3>3, <3>4
  <2>4. QED
    BY <1>4, <2>2, <2>3 DEF InHandMoves
<1>5. QED
  BY <1>3, <1>4 DEF CountOK

LEMMA LoopedCounts ==
  ASSUME NEW a \in ActorRec(Int), CountOK(a), a.pc \notin {"took", "unused"}
  PROVE  CountOK(Looped(a))
<1> DEFINE b == Looped(a)
<1>1. /\ Moves(a, b) /\ b.on = a.on
      /\ \/ b.pc = "ended" /\ Keeps(a, b)
         \/ b.pc = "taking" /\ a.on /\ b.queue = <<>> /\ Keeps(a, b)
         \/ b.pc = "took" /\ a.on /\ Takes(a, b) /\ b.job # NoJob
  BY LoopedMoves
<1>2. b.bytes = a.bytes
  BY DEF Looped, ActorRec
<1> HIDE DEF b
<1>3. CountOK(b)
  BY <1>1, <1>2, CountsMove DEF InHandMoves
<1>4. QED
  BY <1>3 DEF b

LEMMA DrainedCounts ==
  ASSUME NEW a \in ActorRec(Int), CountOK(a), ~a.on
  PROVE  CountOK(Drained(a))
<1> DEFINE b == Drained(a)
<1>1. /\ Moves(a, b) /\ b.on = a.on /\ b.pc # "unused"
  BY DrainedMoves
<1>2. b.bytes = a.bytes
  BY DEF Drained, ActorRec
<1> HIDE DEF b
<1>3. CountOK(b)
  BY <1>1, <1>2, CountsMove
<1>4. QED
  BY <1>3 DEF b

LEMMA GivenCounts ==
  ASSUME NEW a \in ActorRec(Int), CountOK(a), a.on, a.pc # "unused",
         a.pc = "taking" => a.queue = <<>>,
         NEW job \in Job, ~TooMuch(a, job.size)
  PROVE  CountOK(Given(a, job))
<1>1. /\ a.queue \in Seq(Job) /\ Len(a.queue) \in Nat /\ JobBytes(a.queue) \in Nat
      /\ job.size \in Nat
  BY Held
<1>2. /\ a.bytes \in Nat /\ a.bytes + job.size <= ByteCap /\ Len(a.queue) < QueueCap
      /\ a.bytes = InHand(a) + JobBytes(a.queue)
  BY <1>1, Caps DEF CountOK, TooMuch
<1>3. CASE a.pc = "taking"
  <2>1. PICK b : b = [a EXCEPT !.bytes = @ + job.size, !.pc = "took", !.job = job]
    OBVIOUS
  <2>2. /\ b.bytes = a.bytes + job.size /\ b.pc = "took" /\ b.job = job
        /\ b.queue = a.queue
    BY <2>1 DEF ActorRec
  <2>3. InHand(a) = 0 /\ InHand(b) = job.size /\ JobBytes(a.queue) = 0
    BY <1>1, <1>3, <2>2, JobBytesOf DEF InHand
  <2>4. b.bytes \in Nat /\ b.bytes = InHand(b) + JobBytes(b.queue)
    BY <1>1, <1>2, <2>2, <2>3
  <2>5. CountOK(b)
    BY <1>1, <1>2, <2>2, <2>4, Caps DEF CountOK
  <2>6. QED
    BY <1>3, <2>1, <2>5 DEF Given
<1>4. CASE a.pc # "taking"
  <2>1. PICK b : b = [a EXCEPT !.bytes = @ + job.size, !.queue = Append(@, job)]
    OBVIOUS
  <2>2. /\ b.bytes = a.bytes + job.size /\ b.pc = a.pc /\ b.job = a.job
        /\ b.queue = Append(a.queue, job)
    BY <2>1 DEF ActorRec
  <2>3. InHand(b) = InHand(a) /\ InHand(a) \in Int
    <3>1. a.pc = "took" => a.job.size \in Int
      BY <1>1, <1>2, JobIds, NoJobId, Held DEF NoJob
    <3>2. QED
      BY <2>2, <3>1 DEF InHand
  <2>4. JobBytes(b.queue) = JobBytes(a.queue) + job.size
    BY <1>1, <2>2, JobBytesOf
  <2>5. b.bytes \in Nat /\ b.bytes = InHand(b) + JobBytes(b.queue)
    BY <1>1, <1>2, <2>2, <2>3, <2>4
  <2>6. Len(b.queue) <= QueueCap
    BY <1>1, <1>2, <2>2, Caps
  <2>7. CountOK(b)
    BY <1>1, <1>2, <2>2, <2>5, <2>6, Caps DEF CountOK
  <2>8. QED
    BY <1>4, <2>1, <2>7 DEF Given
<1>5. QED
  BY <1>3, <1>4
LEMMA OneCounts ==
  ASSUME IInv, ActorsInv, NEW i \in Actors, NEW b, act' = [act EXCEPT ![i] = b],
         CountOK(b)
  PROVE  ActorsInv'
<1>1. act'[i] = b /\ \A k \in Actors : k # i => act'[k] = act[k]
  BY DEF IInv, ShapeInv
<1>2. QED
  BY <1>1 DEF ActorsInv

\* A step in which an actor keeps what it has.
LEMMA KeptCounts ==
  ASSUME NEW a \in ActorRec(Int), CountOK(a), NEW pc \in ActorPcs,
         {a.pc, pc} \intersect {"took", "unused"} = {},
         pc \in {"drained", "spinning", "passing"} => ~a.on
  PROVE  CountOK([a EXCEPT !.pc = pc])
<1>1. PICK b : b = [a EXCEPT !.pc = pc]
  OBVIOUS
<1>2. /\ b \in ActorRec(Int) /\ b.pane = a.pane /\ b.bytes = a.bytes
      /\ b.queue = a.queue /\ b.job = a.job /\ b.pc = pc /\ b.on = a.on
  BY <1>1 DEF ActorRec
<1>3. CountOK(b)
  BY <1>2, CountsMove DEF Moves, Keeps, InHandMoves
<1>4. QED
  BY <1>1, <1>3

LEMMA BegunCounts ==
  ASSUME NEW a \in ActorRec(Int), CountOK(a), a.pc = "took", a.on, a.job # NoJob,
         NEW pc \in {"replying", "running"}
  PROVE  CountOK([a EXCEPT !.bytes = @ - a.job.size, !.pc = pc])
<1>1. PICK b : b = [a EXCEPT !.bytes = @ - a.job.size, !.pc = pc]
  OBVIOUS
<1>2. /\ b.bytes = a.bytes - a.job.size /\ b.queue = a.queue /\ b.pc = pc
  BY <1>1 DEF ActorRec
<1>3. a.job.size \in Nat /\ JobBytes(a.queue) \in Nat /\ a.bytes \in Nat
  BY Held, JobIds DEF CountOK
<1>4. a.bytes = a.job.size + JobBytes(a.queue)
  BY DEF CountOK, InHand
<1>5. b.bytes = JobBytes(b.queue) /\ b.bytes \in Nat /\ b.bytes <= ByteCap
  BY <1>2, <1>3, <1>4, Caps DEF CountOK
<1>6. InHand(b) = 0
  BY <1>2 DEF InHand
<1>7. b.bytes = InHand(b) + JobBytes(b.queue)
  BY <1>3, <1>5, <1>6
<1>8. CountOK(b)
  BY <1>2, <1>5, <1>7 DEF CountOK
<1>9. QED
  BY <1>1, <1>8

LEMMA ActorCounts ==
  ASSUME IInv, ActorsInv, NEW i \in Actors, ActorStep(i) \/ End(i)
  PROVE  ActorsInv'
<1> DEFINE a == act[i]
<1>1. /\ a \in ActorRec(Int) /\ CountOK(a) /\ TableOK(i, a, actors, requests)
      /\ JobsOK(i, a, requests)
  BY OfActor DEF ActorsInv
<1>2. CASE ActorStarts(i)
  <2>1. a.pc \in {"new", "taking"} /\ act' = [act EXCEPT ![i] = Looped(a)]
    BY <1>2 DEF ActorStarts
  <2>2. CountOK(Looped(a))
    BY <1>1, <2>1, LoopedCounts
  <2>3. QED
    BY <2>1, <2>2, OneCounts
<1>3. CASE Begin(i)
  <2>1. PICK next \in {"replying", "running"} :
          act' = [act EXCEPT ![i].bytes = @ - a.job.size, ![i].pc = next]
    BY <1>3 DEF Begin
  <2>2. a.pc = "took" /\ a.on /\ a.job # NoJob
    BY <1>1, <1>3 DEF Begin, TableOK, JobsOK
  <2>3. CountOK([a EXCEPT !.bytes = @ - a.job.size, !.pc = next])
    BY <1>1, <2>2, BegunCounts
  <2>4. act' = [act EXCEPT ![i] = [a EXCEPT !.bytes = @ - a.job.size, !.pc = next]]
    BY <2>1 DEF IInv, ShapeInv
  <2>5. QED
    BY <2>3, <2>4, OneCounts
<1>4. CASE End(i)
  <2>1. a.pc = "running" /\ act' = [act EXCEPT ![i] = [a EXCEPT !.pc = "replying"]]
    BY <1>4 DEF End
  <2>2. CountOK([a EXCEPT !.pc = "replying"])
    BY <1>1, <2>1, KeptCounts DEF ActorPcs
  <2>3. QED
    BY <2>1, <2>2, OneCounts
<1>5. CASE Drain(i)
  <2>1. /\ a.pc \in {"drained", "spinning"}
        /\ act' = [act EXCEPT ![i] = [a EXCEPT !.pc = "passing"]]
    BY <1>5 DEF Drain
  <2>2. CountOK([a EXCEPT !.pc = "passing"])
    BY <1>1, <2>1, KeptCounts DEF ActorPcs, CountOK
  <2>3. QED
    BY <2>1, <2>2, OneCounts
<1>6. CASE DrainOn(i)
  <2>1. a.pc = "passing" /\ act' = [act EXCEPT ![i] = Drained(a)]
    BY <1>6 DEF DrainOn
  <2>2. CountOK(Drained(a))
    BY <1>1, <2>1, DrainedCounts DEF CountOK
  <2>3. QED
    BY <2>1, <2>2, OneCounts
<1>7. CASE GoOn(i) /\ a.job.op = "shutdown"
  <2>1. PICK b : b = [a EXCEPT !.on = FALSE]
    OBVIOUS
  <2>2. a.pc = "replying" /\ act' = [act EXCEPT ![i] = Drained(b)]
    BY <1>7, <2>1 DEF GoOn
  <2>3. /\ b \in ActorRec(Int) /\ ~b.on /\ b.pane = a.pane /\ b.bytes = a.bytes
        /\ b.queue = a.queue /\ b.job = a.job /\ b.pc = "replying"
    BY <1>1, <2>1, <2>2 DEF ActorRec
  <2>4. CountOK(b)
    BY <1>1, <2>3 DEF CountOK
  <2>5. CountOK(Drained(b))
    BY <2>3, <2>4, DrainedCounts
  <2>6. QED
    BY <2>2, <2>5, OneCounts
<1>8. CASE GoOn(i) /\ a.job.op # "shutdown"
  <2>1. a.pc = "replying" /\ act' = [act EXCEPT ![i] = Looped(a)]
    BY <1>8 DEF GoOn
  <2>2. CountOK(Looped(a))
    BY <1>1, <2>1, LoopedCounts
  <2>3. QED
    BY <2>1, <2>2, OneCounts
<1>9. QED
  BY <1>2, <1>3, <1>4, <1>5, <1>6, <1>7, <1>8 DEF ActorStep

LEMMA AskCounts ==
  ASSUME IInv, ActorsInv, NEW p \in Panes, NEW op \in Ops, NEW size \in Sizes,
         Ask(p, op, size)
  PROVE  ActorsInv'
<1>1. CASE actors[p] = None /\ Full(actors, ActorCap)
  BY <1>1 DEF Ask, ActorsInv
<1>2. CASE ~(actors[p] = None /\ Full(actors, ActorCap))
  <2> DEFINE i == ActorFor(p)[1]
             a == ActorFor(p)[2]
             job == [id |-> Len(requests) + 1, op |-> op, size |-> size]
  <2>1. ActorOf(p, i, a)
    BY <1>2, ActorFound DEF Ask
  <2>2. \/ /\ TooMuch(a, size)
           /\ act' = [act EXCEPT ![i] = a]
        \/ /\ ~TooMuch(a, size)
           /\ act' = [act EXCEPT ![i] = Given(a, job)]
    BY <1>2 DEF Ask
  <2>3. /\ i \in Actors /\ a \in ActorRec(Int) /\ a.on /\ a.pc # "unused"
        /\ a.pc = "taking" => a.queue = <<>>
    BY <2>1, OfFound DEF ActorOf
  <2>4. CountOK(a)
    <3>1. CASE a = act[i]
      BY <2>3, <3>1 DEF ActorsInv
    <3>2. CASE actors[p] = None
      <4>1. a.bytes = act[i].bytes
        <5>1. i \in Actors /\ act[i] \in ActorRec(Int)
          BY <2>1, Shapes DEF ActorOf
        <5>2. a = [act[i] EXCEPT !.pane = p, !.on = TRUE, !.pc = "new"]
          BY <3>2 DEF ActorFor
        <5> HIDE DEF i, a
        <5>3. QED
          BY <5>1, <5>2 DEF ActorRec
      <4> HIDE DEF i, a
      <4>2. /\ i \in Actors /\ act[i].pc = "unused"
            /\ a.queue = <<>> /\ a.pc = "new"
        <5>1. i \in Actors /\ None \notin Actors
          BY <2>3, Shapes
        <5>2. QED
          BY <2>1, <3>2, <5>1 DEF ActorOf
      <4>3. a.bytes = 0
        BY <4>1, <4>2 DEF CountOK, ActorsInv
      <4>4. InHand(a) = 0 /\ JobBytes(a.queue) = 0
        <5>1. <<>> \in Seq(Job)
          OBVIOUS
        <5>2. JobBytes(<<>>) = 0
          BY <5>1, JobBytesOf
        <5>3. QED
          BY <4>2, <5>2 DEF InHand
      <4>5. Len(a.queue) = 0
        BY <4>2
      <4>6. QED
        BY <4>2, <4>3, <4>4, <4>5, Caps DEF CountOK
    <3>3. QED
      BY <2>1, <3>1, <3>2 DEF ActorOf
  <2>5. job \in Job /\ job.size = size
    <3>1. credits \in Nat /\ credits + Len(requests) < MaxMessages /\ Len(requests) \in Nat
      BY Shapes DEF Ask, IInv, ShapeInv
    <3>2. Len(requests) + 1 \in Ids
      BY <3>1, Caps DEF Ids
    <3>3. QED
      BY <3>2 DEF Job
  <2> HIDE DEF i, a, job
  <2>6. ~TooMuch(a, size) => CountOK(Given(a, job))
    BY <2>3, <2>4, <2>5, GivenCounts
  <2>7. QED
    BY <2>2, <2>3, <2>4, <2>6, OneCounts
<1>3. QED
  BY <1>1, <1>2

LEMMA ActorsSteps ==
  ASSUME IInv, ActorsInv, [Next]_vars
  PROVE  ActorsInv'
<1>1. CASE \E i \in Actors : ActorStep(i) \/ End(i)
  BY <1>1, ActorCounts
<1>2. CASE \E ask \in Asks, size \in Sizes : Ask(ask[1], ask[2], size)
  <2>1. \A ask \in Asks : ask[1] \in Panes /\ ask[2] \in Ops
    BY PaneStreamAssumption DEF PaneStreamAssumption, Ops
  <2>2. QED
    BY <1>2, <2>1, AskCounts
<1>3. CASE ReaderEnds \/ HangUp
  <2>1. act' = [i \in Actors |-> IF \E p \in Panes : actors[p] = i
                THEN [act[i] EXCEPT !.closed = TRUE] ELSE act[i]]
    BY <1>3 DEF HangUp, ReaderEnds, CloseStream
  <2>2. ASSUME NEW i \in Actors
        PROVE  CountOK(act'[i])
    <3>1. act[i] \in ActorRec(Int) /\ CountOK(act[i])
      BY Shapes DEF ActorsInv
    <3>2. PICK b : b = [act[i] EXCEPT !.closed = TRUE]
      OBVIOUS
    <3>3. /\ b.bytes = act[i].bytes /\ b.queue = act[i].queue /\ b.job = act[i].job
          /\ b.pc = act[i].pc /\ b.on = act[i].on
      BY <3>1, <3>2 DEF ActorRec
    <3>4. CountOK(b)
      BY <3>1, <3>3 DEF CountOK, InHand
    <3>5. QED
      BY <2>1, <3>1, <3>2, <3>4
  <2>3. QED
    BY <2>2 DEF ActorsInv
<1>4. QED
  <2>1. CASE \E f \in Fibers : Retry(f)
    BY <2>1 DEF Retry, ActorsInv
  <2>2. CASE \E j \in Subs : SubStep(j) \/ Polled(j) \/ Credit(j)
    BY <2>2 DEF SubStep, SubGoesOn, SubDies, Polled, SubSends, SubFails, Credit, ActorsInv
  <2>3. CASE WriterStep \/ ReadOn \/ PageCloses \/ UNCHANGED vars
    BY <2>3 DEF WriterStep, WriterGoesOn, WriterFails, WriterEnds, ReadOn, PageCloses,
                Raise, vars, ActorsInv
  <2>4. CASE \E p \in Watches : Subscribe(p) \/ Unsubscribe(p)
    BY <2>4 DEF Subscribe, Raise, Unsubscribe, ActorsInv
  <2>5. QED
    BY <1>1, <1>2, <1>3, <2>1, <2>2, <2>3, <2>4
       DEF Next, FiberSteps, PageSteps, ReaderStep
\* The types that nothing else rests on.
TableTypes ==
  /\ open \in BOOLEAN /\ reader \in {"reading", "refusing", "closing", "ended"}
  /\ streams \in [Panes -> Subs \union {None}] /\ sub \in [Subs -> SubRec]
  /\ credits <= MaxMessages

LEMMA SubRecMoves ==
  ASSUME NEW a \in SubRec
  PROVE  /\ \A pc \in {"ended", "credit", "sending", "failing", "dead"} :
              [a EXCEPT !.pc = pc] \in SubRec
         /\ [a EXCEPT !.owed = TRUE] \in SubRec
         /\ \A n \in 0 .. 1 : [a EXCEPT !.owed = FALSE, !.credit = n] \in SubRec
         /\ [a EXCEPT !.on = FALSE, !.closed = TRUE, !.credit = 0] \in SubRec
         /\ [a EXCEPT !.pc = "polling", !.credit = 0] \in SubRec
         /\ \A p \in Panes :
              [a EXCEPT !.pane = p, !.on = TRUE, !.credit = 1, !.pc = "new"] \in SubRec
<1>1. ASSUME NEW pc \in {"ended", "credit", "sending", "failing", "dead"}
      PROVE  [a EXCEPT !.pc = pc] \in SubRec
  BY DEF SubRec
<1>2. [a EXCEPT !.owed = TRUE] \in SubRec
  BY DEF SubRec
<1>3. ASSUME NEW n \in 0 .. 1
      PROVE  [a EXCEPT !.owed = FALSE, !.credit = n] \in SubRec
  BY DEF SubRec
<1>4. 0 \in 0 .. 1 /\ 1 \in 0 .. 1
  OBVIOUS
<1>5. [a EXCEPT !.on = FALSE, !.closed = TRUE, !.credit = 0] \in SubRec
  BY <1>4 DEF SubRec
<1>6. [a EXCEPT !.pc = "polling", !.credit = 0] \in SubRec
  BY <1>4 DEF SubRec
<1>7. ASSUME NEW p \in Panes
      PROVE  [a EXCEPT !.pane = p, !.on = TRUE, !.credit = 1, !.pc = "new"] \in SubRec
  BY <1>4 DEF SubRec
<1>8. QED
  BY <1>1, <1>2, <1>3, <1>5, <1>6, <1>7

LEMMA SubMoves ==
  ASSUME sub \in [Subs -> SubRec], NEW j
  PROVE  /\ \A pc \in {"ended", "credit", "sending", "failing", "dead"} :
              [sub EXCEPT ![j].pc = pc] \in [Subs -> SubRec]
         /\ [sub EXCEPT ![j].owed = TRUE] \in [Subs -> SubRec]
         /\ \A n \in 0 .. 1 :
              [sub EXCEPT ![j].owed = FALSE, ![j].credit = n] \in [Subs -> SubRec]
         /\ [sub EXCEPT ![j].on = FALSE, ![j].closed = TRUE, ![j].credit = 0]
              \in [Subs -> SubRec]
<1>1. CASE j \in Subs
  <2>1. sub[j] \in SubRec
    BY <1>1
  <2>2. /\ \A pc \in {"ended", "credit", "sending", "failing", "dead"} :
             [sub[j] EXCEPT !.pc = pc] \in SubRec
        /\ [sub[j] EXCEPT !.owed = TRUE] \in SubRec
        /\ \A n \in 0 .. 1 : [sub[j] EXCEPT !.owed = FALSE, !.credit = n] \in SubRec
        /\ [sub[j] EXCEPT !.on = FALSE, !.closed = TRUE, !.credit = 0] \in SubRec
    BY <2>1, SubRecMoves
  <2>3. QED
    BY <1>1, <2>1, <2>2
<1>2. CASE j \notin Subs
  BY <1>2
<1>3. QED
  BY <1>1, <1>2

LEMMA SubscribeTypes ==
  ASSUME TableTypes, NEW p \in Panes, Subscribe(p), ~Full(streams, StreamCap)
  PROVE  TableTypes'
<1> DEFINE j == CHOOSE j \in FreshSubs : TRUE
           k == streams[p]
<1>1. j \in Subs
  BY DEF Subscribe, FreshSubs
<1>2. Unsubscribed(p) \in [Subs -> SubRec]
  <2>1. [sub EXCEPT ![k].on = FALSE, ![k].closed = TRUE, ![k].credit = 0]
          \in [Subs -> SubRec]
    BY SubMoves DEF TableTypes
  <2>2. QED
    BY <2>1 DEF Unsubscribed, TableTypes
<1>3. /\ sub' = [Unsubscribed(p) EXCEPT
                   ![j] = [@ EXCEPT !.pane = p, !.on = TRUE, !.credit = 1, !.pc = "new"]]
      /\ streams' = [streams EXCEPT ![p] = j]
      /\ UNCHANGED <<open, reader, credits>>
  BY DEF Subscribe, logVars
<1> HIDE DEF j, k
<1>4. sub' \in [Subs -> SubRec]
  <2>1. PICK u : u = Unsubscribed(p)
    OBVIOUS
  <2>2. u[j] \in SubRec
    BY <1>1, <1>2, <2>1
  <2>3. [u[j] EXCEPT !.pane = p, !.on = TRUE, !.credit = 1, !.pc = "new"] \in SubRec
    BY <2>2, SubRecMoves
  <2>4. QED
    BY <1>2, <1>3, <2>1, <2>3
<1>5. QED
  BY <1>1, <1>3, <1>4 DEF TableTypes

LEMMA TableSteps ==
  ASSUME IInv, TableTypes, [Next]_vars
  PROVE  TableTypes'
<1> USE DEF TableTypes
<1>1. CASE \E j \in Subs : SubStep(j) \/ Polled(j) \/ Credit(j)
  <2>1. PICK j \in Subs : SubStep(j) \/ Polled(j) \/ Credit(j)
    BY <1>1
  <2>2. CASE SubGoesOn(j)
    <3>1. sub[j] \in SubRec
      OBVIOUS
    <3>2. /\ [sub[j] EXCEPT !.pc = "ended"] \in SubRec
          /\ [sub[j] EXCEPT !.pc = "polling", !.credit = 0] \in SubRec
          /\ [sub[j] EXCEPT !.pc = "credit"] \in SubRec
      BY <3>1, SubRecMoves
    <3>3. QED
      BY <2>2, <3>2 DEF SubGoesOn, logVars
  <2>3. CASE SubDies(j) \/ SubSends(j) \/ SubFails(j)
    <3>1. PICK pc \in {"sending", "failing", "dead"} : sub' = [sub EXCEPT ![j].pc = pc]
      BY <2>3 DEF SubDies, SubSends, SubFails
    <3>2. sub' \in [Subs -> SubRec]
      BY <3>1, SubMoves
    <3>3. UNCHANGED <<open, reader, streams, credits>>
      BY <2>3 DEF SubDies, SubSends, SubFails, logVars
    <3>4. QED
      BY <3>2, <3>3
  <2>4. CASE Credit(j)
    <3>1. credits' <= MaxMessages
      <4>1. credits \in Nat /\ Len(requests) \in Nat /\ MaxMessages \in Nat
        BY Caps, Shapes DEF IInv, ShapeInv
      <4>2. QED
        BY <2>4, <4>1 DEF Credit
    <3>2. sub' \in [Subs -> SubRec]
      <4>1. sub[j].credit \in 0 .. 1 /\ 1 \in 0 .. 1
        BY DEF SubRec
      <4> DEFINE n == IF streams[sub[j].pane] = j THEN 1 ELSE sub[j].credit
      <4>2. n \in 0 .. 1
        BY <4>1
      <4>3. sub' = [sub EXCEPT ![j].owed = FALSE, ![j].credit = n]
        <5>1. sub' = [sub EXCEPT ![j].owed = FALSE,
                        ![j].credit = IF streams[sub[j].pane] = j THEN 1 ELSE @]
          BY <2>4 DEF Credit
        <5>2. QED
          BY <5>1
      <4> HIDE DEF n
      <4>4. QED
        BY <4>2, <4>3, SubMoves
    <3>3. QED
      BY <2>4, <3>1, <3>2 DEF Credit
  <2>5. QED
    BY <2>1, <2>2, <2>3, <2>4 DEF SubStep, Polled
<1>2. CASE \E i \in Actors : ActorStep(i) \/ End(i)
  <2>1. PICK i \in Actors : ActorStep(i) \/ End(i)
    BY <1>2
  <2>2. CASE GoOn(i) /\ act[i].job.op = "shutdown"
    <3> DEFINE k == streams[act[i].pane]
    <3>1. [sub EXCEPT ![k].on = FALSE, ![k].closed = TRUE, ![k].credit = 0]
            \in [Subs -> SubRec]
      BY SubMoves
    <3>2. sub' \in [Subs -> SubRec]
      BY <2>2, <3>1 DEF GoOn, Unsubscribed
    <3>3. QED
      BY <2>2, <3>2 DEF GoOn, logVars
  <2>3. CASE \/ ActorStarts(i) \/ Begin(i) \/ Drain(i) \/ DrainOn(i) \/ End(i)
             \/ GoOn(i) /\ act[i].job.op # "shutdown"
    BY <2>3 DEF ActorStarts, Begin, Drain, DrainOn, End, GoOn, logVars
  <2>4. QED
    BY <2>1, <2>2, <2>3 DEF ActorStep
<1>3. CASE ReaderEnds \/ HangUp
  <2>1. \A j \in Subs :
          /\ sub[j] \in SubRec
          /\ [sub[j] EXCEPT !.on = FALSE, !.closed = TRUE, !.credit = 0] \in SubRec
    BY SubRecMoves
  <2>2. sub' \in [Subs -> SubRec]
    BY <1>3, <2>1 DEF ReaderEnds, HangUp, CloseStream
  <2>3. open' = FALSE /\ reader' = "ended" /\ streams' = [p \in Panes |-> None]
    BY <1>3 DEF ReaderEnds, HangUp, CloseStream
  <2>4. credits' = credits
    BY <1>3 DEF ReaderEnds, HangUp, CloseStream, logVars
  <2>5. QED
    BY <2>2, <2>3, <2>4
<1>4. CASE \E p \in Watches : Subscribe(p) \/ Unsubscribe(p)
  <2>1. PICK p \in Panes : Subscribe(p) \/ Unsubscribe(p)
    BY <1>4, PaneStreamAssumption DEF PaneStreamAssumption
  <2>2. CASE Subscribe(p) /\ Full(streams, StreamCap)
    BY <2>2 DEF Subscribe, Raise, streamVars, logVars
  <2>3. CASE Subscribe(p) /\ ~Full(streams, StreamCap)
    BY <2>3, SubscribeTypes
  <2>4. CASE Unsubscribe(p)
    <3> DEFINE k == streams[p]
    <3>1. [sub EXCEPT ![k].on = FALSE, ![k].closed = TRUE, ![k].credit = 0]
            \in [Subs -> SubRec]
      BY SubMoves
    <3>2. sub' \in [Subs -> SubRec]
      BY <2>4, <3>1 DEF Unsubscribe, Unsubscribed
    <3>3. QED
      BY <2>4, <3>2 DEF Unsubscribe, logVars
  <2>5. QED
    BY <2>1, <2>2, <2>3, <2>4
<1>5. CASE WriterStep
  <2>1. CASE WriterGoesOn
    <3> DEFINE j == writing.of
    <3>1. [sub EXCEPT ![j].owed = TRUE] \in [Subs -> SubRec]
      BY SubMoves
    <3>2. sub' \in [Subs -> SubRec]
      BY <2>1, <3>1 DEF WriterGoesOn, Shown
    <3>3. QED
      BY <2>1, <3>2 DEF WriterGoesOn, logVars
  <2>2. CASE WriterFails \/ WriterEnds
    BY <2>2 DEF WriterFails, WriterEnds, streamVars, logVars
  <2>3. QED
    BY <1>5, <2>1, <2>2 DEF WriterStep
<1>6. CASE \/ \E f \in Fibers : Retry(f)
           \/ \E ask \in Asks, size \in Sizes : Ask(ask[1], ask[2], size)
           \/ ReadOn \/ PageCloses \/ UNCHANGED vars
  BY <1>6 DEF Retry, Ask, ReadOn, PageCloses, Raise, vars, streamVars, logVars
<1>7. QED
  BY <1>1, <1>2, <1>3, <1>4, <1>5, <1>6 DEF Next, FiberSteps, PageSteps, ReaderStep

LEMMA CountStarts ==
  ASSUME Init
  PROVE  SocketInv /\ ActorsInv /\ TableTypes
<1>1. SocketInv
  <2>1. <<>> \in Seq(Frame) /\ <<>> \in Seq(Fibers)
    OBVIOUS
  <2>2. FrameBytes(<<>>) = 0
    BY <2>1, FrameBytesOf
  <2>3. QED
    BY <2>1, <2>2, Caps, Lengths DEF Init, SocketInv, OutgoingBounded, WriterInv
<1>2. ActorsInv
  <2>1. <<>> \in Seq(Job)
    OBVIOUS
  <2>2. JobBytes(<<>>) = 0
    BY <2>1, JobBytesOf
  <2>3. Len(<<>>) = 0
    OBVIOUS
  <2>4. QED
    BY <2>2, <2>3, Caps DEF Init, ActorsInv, CountOK, InHand
<1>3. TableTypes
  BY Caps DEF Init, TableTypes, SubRec
<1>4. QED
  BY <1>1, <1>2, <1>3

\* The parts make up the invariant.
LEMMA CountParts ==
  ASSUME IInv, SocketInv, ActorsInv, TableTypes
  PROVE  CountInv
<1>1. act \in [Actors -> ActorRec(Nat)]
  <2>1. act \in [Actors -> ActorRec(Int)]
    BY DEF IInv, ShapeInv
  <2>2. ASSUME NEW i \in Actors
        PROVE  act[i] \in ActorRec(Nat)
    <3>1. act[i] \in ActorRec(Int) /\ act[i].bytes \in Nat
      BY <2>1 DEF ActorsInv, CountOK
    <3>2. QED
      BY <3>1 DEF ActorRec
  <2>3. QED
    BY <2>1, <2>2
<1>2. TypeOK
  <2>1. credits \in 0 .. MaxMessages
    BY Caps DEF IInv, ShapeInv, TableTypes
  <2>2. QED
    BY <1>1, <2>1 DEF IInv, ShapeInv, SocketInv, TableTypes, TypeOK
<1>3. QueuesBounded /\ SpareInv /\ WriterInv
  BY DEF SocketInv, ActorsInv, CountOK, QueuesBounded, ActorBounded, SpareInv
<1>4. QED
  BY <1>2, <1>3 DEF CountInv

LEMMA CountsStay ==
  Spec => [](IInv /\ SocketInv /\ ActorsInv /\ TableTypes)
<1>1. Init => IInv /\ SocketInv /\ ActorsInv /\ TableTypes
  BY Starts, CountStarts
<1>2. /\ IInv /\ SocketInv /\ ActorsInv /\ TableTypes /\ [Next]_vars
      => (IInv /\ SocketInv /\ ActorsInv /\ TableTypes)'
  BY Steps, SocketSteps, ActorsSteps, TableSteps
<1>3. QED
  BY <1>1, <1>2, PTL DEF Spec

\* Both queues keep their limits, and what is counted is what is queued
\* (serve, terminal-stream).
THEOREM Bounded == Spec => []QueuesBounded
<1>1. IInv /\ SocketInv /\ ActorsInv /\ TableTypes => QueuesBounded
  BY CountParts DEF CountInv
<1>2. QED
  BY <1>1, CountsStay, PTL

\* Every variable keeps its type; the counts of bytes never fall below zero.
THEOREM Types == Spec => []TypeOK
<1>1. IInv /\ SocketInv /\ ActorsInv /\ TableTypes => TypeOK
  BY CountParts DEF CountInv
<1>2. QED
  BY <1>1, CountsStay, PTL
=============================================================================
