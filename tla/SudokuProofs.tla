---------------------------- MODULE SudokuProofs ----------------------------
(***************************************************************************)
(* Proofs about ThreadPool, for any numbers of workers, producers and      *)
(* tasks and any capacity of the queue; about SudokuServer, which gives    *)
(* the requests of a connection to a pool, for any streams of lines and    *)
(* any limits; and about SudokuSolver, which solves one, for any puzzle:   *)
(* covering and uncovering are inverse, and the answer is right.           *)
(***************************************************************************)
EXTENDS ThreadPool, SudokuServer, SudokuSolver, TimerHeapProofs, FiniteSetTheorems,
        SequenceTheorems

Putting == {p \in Producers : ppc[p] = "putting"}

\* What the variables are, and which thread holds a task when.
PoolTypeOK ==
  /\ queue \in Seq(Tasks) /\ done \in Seq(Tasks)
  /\ running \in BOOLEAN
  /\ stopper \in {"new", "started", "joining", "stopped"}
  /\ running <=> stopper = "started"
  /\ wpc \in [Workers -> {"none", "check", "taking", "waiting", "task", "ended"}]
  /\ stopper = "new" => wpc = [w \in Workers |-> "none"]
  /\ ppc \in [Producers -> {"idle", "putting", "waiting"}]
  /\ hand \in [Workers \cup Producers -> Tasks \cup {NoTask}]
  /\ \A w \in Workers : hand[w] # NoTask <=> wpc[w] = "task"
  /\ \A p \in Producers : hand[p] # NoTask <=> ppc[p] # "idle"

\* While a producer waits, as many others are on their way to the queue as it has
\* room for.  NoSleepOverRoom alone is not inductive: the one that puts its task
\* may leave room behind it, for which another must have been woken.
RoomIsClaimed ==
  (\E p \in Producers : ppc[p] = "waiting")
    => MaxQueue > 0 /\ Len(queue) + Cardinality(Putting) >= MaxQueue

-----------------------------------------------------------------------------
(* Type correctness *)

LEMMA TypeInit == Init => PoolTypeOK
<1> SUFFICES ASSUME Init PROVE PoolTypeOK
  OBVIOUS
<1>1. /\ wpc \in [Workers -> {"none", "check", "taking", "waiting", "task", "ended"}]
      /\ ppc \in [Producers -> {"idle", "putting", "waiting"}]
      /\ hand \in [Workers \cup Producers -> Tasks \cup {NoTask}]
  BY DEF Init
<1>2. /\ \A w \in Workers : hand[w] = NoTask /\ wpc[w] = "none"
      /\ \A p \in Producers : hand[p] = NoTask /\ ppc[p] = "idle"
  BY DEF Init
<1>3. queue \in Seq(Tasks) /\ done \in Seq(Tasks)
  BY DEF Init
<1> QED BY <1>1, <1>2, <1>3 DEF Init, PoolTypeOK

LEMMA TypeNext == PoolTypeOK /\ [Next]_vars => PoolTypeOK'
<1> SUFFICES ASSUME PoolTypeOK, [Next]_vars PROVE PoolTypeOK'
  OBVIOUS
<1> USE PoolConstants, NoTaskIsNone DEF PoolTypeOK
<1>1. CASE Start
  BY <1>1 DEF Start
<1>2. CASE Stop
  BY <1>2 DEF Stop
<1>3. CASE Joined
  BY <1>3 DEF Joined
<1>4. ASSUME NEW p \in Producers, NEW f \in Tasks, RunInline(p, f) PROVE PoolTypeOK'
  BY <1>4 DEF RunInline
<1>5. ASSUME NEW p \in Producers, NEW f \in Tasks, CallRun(p, f) PROVE PoolTypeOK'
  BY <1>5 DEF CallRun
<1>6. ASSUME NEW p \in Producers, WaitNotFull(p) PROVE PoolTypeOK'
  BY <1>6 DEF WaitNotFull
<1>7. ASSUME NEW p \in Producers, Put(p) PROVE PoolTypeOK'
  <2>1. hand[p] \in Tasks /\ p \notin Workers
    BY <1>7 DEF Put
  <2>2. /\ queue' \in Seq(Tasks)
        /\ ppc' \in [Producers -> {"idle", "putting", "waiting"}]
        /\ hand' \in [Workers \cup Producers -> Tasks \cup {NoTask}]
        /\ \A q \in Producers : hand'[q] # NoTask <=> ppc'[q] # "idle"
        /\ \A w \in Workers : hand'[w] = hand[w]
    BY <1>7, <2>1 DEF Put
  <2>3. /\ wpc' \in [Workers -> {"none", "check", "taking", "waiting", "task", "ended"}]
        /\ \A w \in Workers : wpc'[w] = "task" <=> wpc[w] = "task"
        /\ stopper = "new" => wpc' = wpc
    BY <1>7 DEF Put, NotifyNotEmpty
  <2> QED BY <1>7, <2>2, <2>3 DEF Put
<1>8. ASSUME NEW p \in Producers, SpuriousProducer(p) PROVE PoolTypeOK'
  BY <1>8 DEF SpuriousProducer
<1>9. ASSUME NEW w \in Workers, CheckRunning(w) PROVE PoolTypeOK'
  BY <1>9 DEF CheckRunning
<1>10. ASSUME NEW w \in Workers, WaitNotEmpty(w) PROVE PoolTypeOK'
  BY <1>10 DEF WaitNotEmpty
<1>11. ASSUME NEW w \in Workers, Take(w) PROVE PoolTypeOK'
  <2>1. Head(queue) \in Tasks /\ w \notin Producers
    BY <1>11 DEF Take
  <2>2. /\ queue' \in Seq(Tasks)
        /\ wpc' \in [Workers -> {"none", "check", "taking", "waiting", "task", "ended"}]
        /\ hand' \in [Workers \cup Producers -> Tasks \cup {NoTask}]
        /\ \A v \in Workers : hand'[v] # NoTask <=> wpc'[v] = "task"
        /\ \A p \in Producers : hand'[p] = hand[p]
        /\ stopper # "new"
    BY <1>11, <2>1 DEF Take
  <2>3. /\ ppc' \in [Producers -> {"idle", "putting", "waiting"}]
        /\ \A p \in Producers : ppc'[p] = "idle" <=> ppc[p] = "idle"
    BY <1>11 DEF Take, NotifyNotFull
  <2> QED BY <1>11, <2>2, <2>3 DEF Take
<1>12. ASSUME NEW w \in Workers, TakeNothing(w) PROVE PoolTypeOK'
  BY <1>12 DEF TakeNothing
<1>13. ASSUME NEW w \in Workers, CallTask(w) PROVE PoolTypeOK'
  BY <1>13 DEF CallTask
<1>14. ASSUME NEW w \in Workers, SpuriousWorker(w) PROVE PoolTypeOK'
  BY <1>14 DEF SpuriousWorker
<1>15. CASE UNCHANGED vars
  BY <1>15 DEF vars
<1> QED
  BY <1>1, <1>2, <1>3, <1>4, <1>5, <1>6, <1>7,
     <1>8, <1>9, <1>10, <1>11, <1>12, <1>13, <1>14, <1>15
     DEF Next, ProducerStep, WorkerStep

\* The tasks of run() are in a sequence of tasks, each thread is where its tasks
\* say, and running_ is set from start() to stop().
THEOREM PoolTypeCorrect == Spec => []PoolTypeOK
<1> QED BY TypeInit, TypeNext, PTL DEF Spec

-----------------------------------------------------------------------------
(* Nobody sleeps through the condition that is waited for *)

LEMMA PuttingFinite == IsFiniteSet(Putting) /\ Cardinality(Putting) \in Nat
<1>1. IsFiniteSet(Putting)
  BY PoolConstants, FS_Subset DEF Putting
<1> QED BY <1>1, FS_CardinalityType

LEMMA SleepOverTaskNext ==
  PoolTypeOK /\ NoSleepOverTask /\ [Next]_vars => NoSleepOverTask'
<1> SUFFICES ASSUME PoolTypeOK, NoSleepOverTask, [Next]_vars PROVE NoSleepOverTask'
  OBVIOUS
<1> USE DEF NoSleepOverTask, PoolTypeOK
<1>0. PICK v : v \in Workers
  BY PoolConstants
<1>1. CASE Start
  BY <1>0, <1>1 DEF Start
<1>2. CASE Stop
  BY <1>2 DEF Stop
<1>3. CASE Joined
  BY <1>3 DEF Joined
<1>4. ASSUME NEW p \in Producers PROVE
        /\ \A f \in Tasks : RunInline(p, f) \/ CallRun(p, f) => NoSleepOverTask'
        /\ WaitNotFull(p) \/ SpuriousProducer(p) => NoSleepOverTask'
  BY <1>4 DEF RunInline, CallRun, WaitNotFull, SpuriousProducer
<1>5. ASSUME NEW p \in Producers, Put(p) PROVE NoSleepOverTask'
  BY <1>0, <1>5 DEF Put, NotifyNotEmpty
<1>6. ASSUME NEW w \in Workers, WorkerStep(w) \/ SpuriousWorker(w) PROVE NoSleepOverTask'
  BY <1>6 DEF WorkerStep, CheckRunning, WaitNotEmpty, Take, TakeNothing, CallTask, SpuriousWorker
<1>7. CASE UNCHANGED vars
  BY <1>7 DEF vars
<1> QED BY <1>1, <1>2, <1>3, <1>4, <1>5, <1>6, <1>7 DEF Next, ProducerStep

LEMMA SleeperToJoinNext ==
  PoolTypeOK /\ NoSleeperToJoin /\ [Next]_vars => NoSleeperToJoin'
<1> SUFFICES ASSUME PoolTypeOK, NoSleeperToJoin, [Next]_vars PROVE NoSleeperToJoin'
  OBVIOUS
<1> USE DEF NoSleeperToJoin, PoolTypeOK
<1>1. CASE Start \/ Stop \/ Joined
  BY <1>1 DEF Start, Stop, Joined
<1>2. ASSUME NEW p \in Producers PROVE
        /\ \A f \in Tasks : RunInline(p, f) \/ CallRun(p, f) => NoSleeperToJoin'
        /\ ProducerStep(p) \/ SpuriousProducer(p) => NoSleeperToJoin'
  BY <1>2 DEF RunInline, CallRun, ProducerStep, WaitNotFull, Put, NotifyNotEmpty,
              SpuriousProducer
<1>3. ASSUME NEW w \in Workers, WorkerStep(w) \/ SpuriousWorker(w) PROVE NoSleeperToJoin'
  BY <1>3 DEF WorkerStep, CheckRunning, WaitNotEmpty, Take, TakeNothing, CallTask, SpuriousWorker
<1>4. CASE UNCHANGED vars
  BY <1>4 DEF vars
<1> QED BY <1>1, <1>2, <1>3, <1>4 DEF Next

LEMMA RoomNext == PoolTypeOK /\ RoomIsClaimed /\ [Next]_vars => RoomIsClaimed'
<1> DEFINE Claimed == MaxQueue > 0 /\ Len(queue) + Cardinality(Putting) >= MaxQueue
<1> SUFFICES ASSUME PoolTypeOK, RoomIsClaimed, [Next]_vars,
                    NEW q \in Producers, ppc'[q] = "waiting"
             PROVE  Claimed'
  BY DEF RoomIsClaimed
<1> USE PoolConstants DEF PoolTypeOK
<1>0. /\ IsFiniteSet(Putting) /\ Cardinality(Putting) \in Nat
      /\ Len(queue) \in Nat /\ MaxQueue \in Nat
  BY PuttingFinite
<1>a. ppc[q] = "waiting" => Claimed
  BY DEF RoomIsClaimed
\* Steps after which no producer has left Putting and the queue is as it was.
<1>b. ASSUME queue' = queue, ppc' = ppc PROVE Claimed'
  BY <1>a, <1>b DEF Putting
<1>c. ASSUME NEW p \in Producers, ppc[p] # "putting", ppc' = [ppc EXCEPT ![p] = "putting"]
      PROVE  Cardinality(Putting') = Cardinality(Putting) + 1 /\ ppc[q] = "waiting"
  <2>1. Putting' = Putting \cup {p} /\ p \notin Putting /\ ppc[q] = "waiting"
    BY <1>c DEF Putting
  <2> QED BY <2>1, <1>0, FS_AddElement
<1>d. ASSUME NEW p \in Producers, NEW s \in {"idle", "waiting"}, ppc[p] = "putting",
             ppc' = [ppc EXCEPT ![p] = s]
      PROVE  Cardinality(Putting') = Cardinality(Putting) - 1 /\ Cardinality(Putting') \in Nat
  <2>1. Putting' = Putting \ {p} /\ p \in Putting
    BY <1>d DEF Putting
  <2> QED BY <2>1, <1>0, FS_RemoveElement, FS_CardinalityType
<1>1. CASE Start \/ Stop \/ Joined
  BY <1>1, <1>b DEF Start, Stop, Joined
<1>2. ASSUME NEW p \in Producers, NEW f \in Tasks, RunInline(p, f)
      PROVE  Claimed'
  BY <1>2, <1>b DEF RunInline
<1>3. ASSUME NEW p \in Producers,
             (\E f \in Tasks : CallRun(p, f)) \/ SpuriousProducer(p)
      PROVE  Claimed'
  <2>1. ppc[p] # "putting" /\ ppc' = [ppc EXCEPT ![p] = "putting"] /\ queue' = queue
    BY <1>3 DEF CallRun, SpuriousProducer
  <2>2. Cardinality(Putting') = Cardinality(Putting) + 1 /\ ppc[q] = "waiting"
    BY <2>1, <1>c
  <2> QED BY <2>1, <2>2, <1>a, <1>0
<1>4. ASSUME NEW p \in Producers, WaitNotFull(p)
      PROVE  Claimed'
  <2>1. Cardinality(Putting') \in Nat /\ queue' = queue
        /\ MaxQueue > 0 /\ Len(queue) >= MaxQueue
    BY <1>4, <1>d DEF WaitNotFull, isFull
  <2> QED BY <2>1, <1>0
<1>5. ASSUME NEW p \in Producers, Put(p)
      PROVE  Claimed'
  <2>1. /\ Cardinality(Putting') = Cardinality(Putting) - 1
        /\ ppc[q] = "waiting"
    BY <1>5, <1>d DEF Put
  <2>2. Len(queue') = Len(queue) + 1
    <3>1. hand[p] \in Tasks
      BY <1>5, NoTaskIsNone DEF Put
    <3> QED BY <1>5, <3>1 DEF Put
  <2> QED BY <2>1, <2>2, <1>a, <1>0
<1>6. ASSUME NEW w \in Workers, Take(w)
      PROVE  Claimed'
  <2>0. MaxQueue > 0
    BY <1>6, <1>a DEF Take
  <2>1. PICK p \in Producers : ppc[p] = "waiting" /\ ppc' = [ppc EXCEPT ![p] = "putting"]
    BY <1>6, <2>0 DEF Take, NotifyNotFull
  <2>2. Len(queue') = Len(queue) - 1
    BY <1>6 DEF Take
  <2>3. Cardinality(Putting') = Cardinality(Putting) + 1 /\ ppc[q] = "waiting"
    BY <2>1, <1>c
  <2> QED BY <2>2, <2>3, <1>a, <1>0
<1>7. ASSUME NEW w \in Workers,
             CheckRunning(w) \/ WaitNotEmpty(w) \/ TakeNothing(w) \/ CallTask(w) \/ SpuriousWorker(w)
      PROVE  Claimed'
  BY <1>7, <1>b DEF CheckRunning, WaitNotEmpty, TakeNothing, CallTask, SpuriousWorker
<1>8. CASE UNCHANGED vars
  BY <1>8, <1>b DEF vars
<1> QED BY <1>1, <1>2, <1>3, <1>4, <1>5, <1>6, <1>7, <1>8 DEF Next, ProducerStep, WorkerStep

\* A producer on its way to the queue exists when there is room and one waits.
LEMMA RoomEnough == PoolTypeOK /\ RoomIsClaimed => NoSleepOverRoom
<1> SUFFICES ASSUME PoolTypeOK, RoomIsClaimed, ~ isFull,
                    NEW q \in Producers, ppc[q] = "waiting"
             PROVE  \E p \in Producers : ppc[p] = "putting"
  BY DEF NoSleepOverRoom
<1>1. /\ Len(queue) + Cardinality(Putting) >= MaxQueue
      /\ Len(queue) < MaxQueue
  BY PoolConstants DEF PoolTypeOK, RoomIsClaimed, isFull
<1>2. Cardinality(Putting) # 0
  BY <1>1, PuttingFinite, PoolConstants DEF PoolTypeOK
<1>3. Putting # {}
  BY <1>2, FS_EmptySet
<1> QED BY <1>3 DEF Putting

\* Whatever waiters a notify_one meets, in whatever order workers and producers
\* wake, nobody sleeps through what it waits for.
THEOREM NotifyMissesNobody == Spec => []NoMissedNotify
<1>1. Init => NoSleepOverTask /\ NoSleeperToJoin /\ RoomIsClaimed
  BY DEF Init, NoSleepOverTask, NoSleeperToJoin, RoomIsClaimed
<1>2. PoolTypeOK /\ NoSleepOverTask /\ NoSleeperToJoin /\ RoomIsClaimed => NoMissedNotify
  BY RoomEnough DEF NoMissedNotify
<1> QED BY <1>1, <1>2, TypeInit, TypeNext, SleepOverTaskNext, SleeperToJoinNext, RoomNext,
           PTL DEF Spec

-----------------------------------------------------------------------------
(* A task is in one place *)

Has(s, x) == \E i \in DOMAIN s : s[i] = x
NoRepeats(s) == \A i, j \in DOMAIN s : s[i] = s[j] => i = j

LEMMA AppendNoRepeats ==
  ASSUME NEW S, NEW s \in Seq(S), NEW e \in S
  PROVE  /\ \A x : Has(Append(s, e), x) <=> Has(s, x) \/ x = e
         /\ NoRepeats(s) /\ ~ Has(s, e) => NoRepeats(Append(s, e))
<1>1. /\ DOMAIN Append(s, e) = 1..(Len(s) + 1) /\ DOMAIN s = 1..Len(s)
      /\ Len(s) \in Nat
      /\ \A i \in 1..Len(s) : Append(s, e)[i] = s[i]
      /\ Append(s, e)[Len(s) + 1] = e
  OBVIOUS
<1>2. \A x : Has(Append(s, e), x) <=> Has(s, x) \/ x = e
  BY <1>1 DEF Has
<1>3. ASSUME NoRepeats(s), ~ Has(s, e) PROVE NoRepeats(Append(s, e))
  BY <1>1, <1>3 DEF Has, NoRepeats
<1> QED BY <1>2, <1>3

LEMMA TailNoRepeats ==
  ASSUME NEW S, NEW s \in Seq(S), s # <<>>, NoRepeats(s)
  PROVE  /\ \A x : Has(Tail(s), x) <=> Has(s, x) /\ x # Head(s)
         /\ Has(s, Head(s))
         /\ NoRepeats(Tail(s))
<1>1. /\ DOMAIN Tail(s) = 1..(Len(s) - 1) /\ DOMAIN s = 1..Len(s)
      /\ Len(s) \in Nat \ {0}
      /\ \A i \in 1..(Len(s) - 1) : Tail(s)[i] = s[i + 1]
      /\ Head(s) = s[1]
  OBVIOUS
<1>2. NoRepeats(Tail(s))
  BY <1>1 DEF NoRepeats
<1>3. Has(s, Head(s))
  BY <1>1 DEF Has
<1>4. ASSUME NEW x, Has(Tail(s), x) PROVE Has(s, x) /\ x # Head(s)
  <2>1. PICK i \in 1..(Len(s) - 1) : s[i + 1] = x
    BY <1>1, <1>4 DEF Has
  <2>2. i + 1 \in DOMAIN s /\ 1 \in DOMAIN s /\ i + 1 # 1
    BY <1>1
  <2> QED BY <1>1, <2>1, <2>2 DEF Has, NoRepeats
<1>5. ASSUME NEW x, Has(s, x), x # Head(s) PROVE Has(Tail(s), x)
  <2>1. PICK i \in 1..Len(s) : s[i] = x
    BY <1>1, <1>5 DEF Has
  <2>2. i - 1 \in 1..(Len(s) - 1)
    BY <1>1, <1>5, <2>1
  <2>3. Tail(s)[i - 1] = x
    BY <1>1, <2>1, <2>2
  <2> QED BY <1>1, <2>2, <2>3 DEF Has
<1> QED BY <1>2, <1>3, <1>4, <1>5

\* TakenOnce counts places; that two of them are never held by one task, whichever
\* of the queue, the hands and the history they are in, is inductive.
OnePlace ==
  /\ NoRepeats(queue) /\ NoRepeats(done)
  /\ \A f \in Tasks : ~ (Has(queue, f) /\ Has(done, f))
  /\ \A h \in Workers \cup Producers : hand[h] # NoTask =>
        /\ ~ Has(queue, hand[h]) /\ ~ Has(done, hand[h])
        /\ \A g \in Workers \cup Producers : hand[g] = hand[h] => g = h

LEMMA OnePlaceNext == PoolTypeOK /\ OnePlace /\ [Next]_vars => OnePlace'
<1> SUFFICES ASSUME PoolTypeOK, OnePlace, [Next]_vars PROVE OnePlace'
  OBVIOUS
<1> USE PoolConstants, NoTaskIsNone DEF PoolTypeOK
<1>a. ASSUME UNCHANGED <<queue, done, hand>> PROVE OnePlace'
  BY <1>a DEF OnePlace, Has, NoRepeats
<1>1. CASE Start \/ Stop \/ Joined
  BY <1>1, <1>a DEF Start, Stop, Joined
<1>2. ASSUME NEW p \in Producers, NEW f \in Tasks, RunInline(p, f) PROVE OnePlace'
  <2>1. ~ Has(queue, f) /\ ~ Has(done, f) /\ \A h \in Workers \cup Producers : hand[h] # f
    BY <1>2 DEF RunInline, Fresh, Has
  <2>2. done' = Append(done, f) /\ queue' = queue /\ hand' = hand
    BY <1>2 DEF RunInline
  <2>3. /\ \A x : Has(done', x) <=> Has(done, x) \/ x = f
        /\ NoRepeats(done')
    BY <2>1, <2>2, AppendNoRepeats DEF OnePlace
  <2> QED BY <2>1, <2>2, <2>3 DEF OnePlace
<1>3. ASSUME NEW p \in Producers, NEW f \in Tasks, CallRun(p, f) PROVE OnePlace'
  <2>1. ~ Has(queue, f) /\ ~ Has(done, f) /\ \A h \in Workers \cup Producers : hand[h] # f
    BY <1>3 DEF CallRun, Fresh, Has
  <2>2. done' = done /\ queue' = queue /\ hand' = [hand EXCEPT ![p] = f]
    BY <1>3 DEF CallRun
  <2> QED BY <2>1, <2>2 DEF OnePlace
<1>4. ASSUME NEW p \in Producers, WaitNotFull(p) \/ SpuriousProducer(p) PROVE OnePlace'
  BY <1>4, <1>a DEF WaitNotFull, SpuriousProducer
<1>5. ASSUME NEW p \in Producers, Put(p) PROVE OnePlace'
  <2>1. hand[p] \in Tasks
    BY <1>5 DEF Put
  <2>2. done' = done /\ queue' = Append(queue, hand[p]) /\ hand' = [hand EXCEPT ![p] = NoTask]
    BY <1>5 DEF Put
  <2>3. /\ \A x : Has(queue', x) <=> Has(queue, x) \/ x = hand[p]
        /\ NoRepeats(queue')
    BY <2>1, <2>2, AppendNoRepeats DEF OnePlace
  <2> QED BY <2>1, <2>2, <2>3 DEF OnePlace
<1>6. ASSUME NEW w \in Workers, Take(w) PROVE OnePlace'
  <2>1. /\ done' = done /\ queue # <<>> /\ queue' = Tail(queue)
        /\ hand' = [hand EXCEPT ![w] = Head(queue)] /\ Head(queue) \in Tasks
    BY <1>6 DEF Take
  <2>2. /\ \A x : Has(queue', x) <=> Has(queue, x) /\ x # Head(queue)
        /\ Has(queue, Head(queue)) /\ NoRepeats(queue')
    BY <2>1, TailNoRepeats DEF OnePlace
  <2> QED BY <2>1, <2>2 DEF OnePlace
<1>7. ASSUME NEW w \in Workers, CallTask(w) PROVE OnePlace'
  <2>1. hand[w] \in Tasks
    BY <1>7 DEF CallTask
  <2>2. done' = Append(done, hand[w]) /\ queue' = queue /\ hand' = [hand EXCEPT ![w] = NoTask]
    BY <1>7 DEF CallTask
  <2>3. /\ \A x : Has(done', x) <=> Has(done, x) \/ x = hand[w]
        /\ NoRepeats(done')
    BY <2>1, <2>2, AppendNoRepeats DEF OnePlace
  <2> QED BY <2>1, <2>2, <2>3 DEF OnePlace
<1>8. ASSUME NEW w \in Workers,
             CheckRunning(w) \/ WaitNotEmpty(w) \/ TakeNothing(w) \/ SpuriousWorker(w)
      PROVE  OnePlace'
  BY <1>8, <1>a DEF CheckRunning, WaitNotEmpty, TakeNothing, SpuriousWorker
<1>9. CASE UNCHANGED vars
  BY <1>9, <1>a DEF vars
<1> QED BY <1>1, <1>2, <1>3, <1>4, <1>5, <1>6, <1>7, <1>8, <1>9
        DEF Next, ProducerStep, WorkerStep

\* A set with no two different elements has at most one.
LEMMA AtMostOne ==
  ASSUME NEW S, \A x, y \in S : x = y
  PROVE  Cardinality(S) = IF S = {} THEN 0 ELSE 1
<1>1. CASE S = {}
  BY <1>1, FS_EmptySet
<1>2. CASE S # {}
  <2>1. PICK x : S = {x}
    BY <1>2
  <2> QED BY <1>2, <2>1, FS_Singleton
<1> QED BY <1>1, <1>2

LEMMA OnePlaceCounts == PoolTypeOK /\ OnePlace => TakenOnce
<1> SUFFICES ASSUME PoolTypeOK, OnePlace, NEW f \in Tasks PROVE InPlaces(f) <= 1
  BY DEF TakenOnce
<1> DEFINE Q == {i \in DOMAIN queue : queue[i] = f}
           D == {i \in DOMAIN done : done[i] = f}
           H == {h \in Workers \cup Producers : hand[h] = f}
<1>1. /\ \A x, y \in Q : x = y
      /\ \A x, y \in D : x = y
      /\ \A x, y \in H : x = y
  BY NoTaskIsNone DEF OnePlace, NoRepeats
<1>2. /\ Q = {} \/ D = {}
      /\ Q = {} \/ H = {}
      /\ D = {} \/ H = {}
  BY NoTaskIsNone DEF OnePlace, Has
<1>3. /\ Cardinality(Q) \in {0, 1} /\ (Q = {} => Cardinality(Q) = 0)
      /\ Cardinality(D) \in {0, 1} /\ (D = {} => Cardinality(D) = 0)
      /\ Cardinality(H) \in {0, 1} /\ (H = {} => Cardinality(H) = 0)
  BY <1>1, AtMostOne
<1>4. Cardinality(Q) + Cardinality(D) + Cardinality(H) <= 1
  <2> HIDE DEF Q, D, H
  <2> QED BY <1>2, <1>3
<1> QED BY <1>4 DEF InPlaces

\* A task passed to run() is in one place only, whatever workers are woken for it:
\* none is taken twice or called again.
THEOREM EachTakenOnce == Spec => []TakenOnce
<1>1. Init => OnePlace
  BY DEF Init, OnePlace, NoRepeats, Has
<1> QED BY <1>1, TypeInit, TypeNext, OnePlaceNext, OnePlaceCounts, PTL DEF Spec

-----------------------------------------------------------------------------
(* SudokuServer: a connection of a server, whose requests workers may solve *)

Replied(k) == \E i \in DOMAIN replies : replies[i][1] = k
RepliedOnce == \A i, j \in DOMAIN replies : replies[i][1] = replies[j][1] => i = j

ServerTypeOK ==
  /\ lines \in Streams /\ pooled \in BOOLEAN
  /\ arrived \in Nat /\ arrived <= Bytes[Len(lines)]
  /\ taken \in 0..Len(lines) /\ Bytes[taken] <= arrived
  /\ pc \in {"idle", "onMessage", "killed"}
  /\ status \in {"Connected", "Disconnecting"}
  /\ queued \in Seq(Nat) /\ solving \subseteq Nat /\ pend \in Seq(Nat)
  /\ replies \in Seq(Nat \X {"answer", "bad", "long"})

\* Without a pool nothing is under way, and while the connection is up every line
\* that was taken has been answered.
AnsweredAtOnce ==
  ~ pooled => /\ queued = <<>> /\ solving = {} /\ pend = <<>>
              /\ status = "Connected" =>
                   /\ Len(replies) = taken
                   /\ \A k \in DOMAIN replies : replies[k] = <<k, "answer">> /\ lines[k].good

\* While the connection is up a line that was taken is in one place, and no other is.
EachRequestKept ==
  status = "Connected" =>
    /\ RepliedOnce /\ NoRepeats(pend) /\ NoRepeats(queued)
    /\ \A k \in Nat : /\ ~ (Replied(k) /\ Has(pend, k)) /\ ~ (Replied(k) /\ Has(queued, k))
                      /\ ~ (Replied(k) /\ k \in solving) /\ ~ (Has(pend, k) /\ Has(queued, k))
                      /\ ~ (Has(pend, k) /\ k \in solving) /\ ~ (Has(queued, k) /\ k \in solving)
    /\ \A k \in Nat : k \in 1..taken <=> Replied(k) \/ Has(pend, k) \/ Has(queued, k) \/ k \in solving

\* onMessage leaves no request that it could have taken.
NothingLeft ==
  status = "Connected" /\ pc = "idle" /\ readableBytes >= kCells + 2 => ~ crlf

ServerInv == ServerTypeOK /\ AnsweredAtOnce /\ RepliesInOrder /\ EachRequestKept /\ NothingLeft

LEMMA StreamTyped == ASSUME ServerTypeOK PROVE lines \in Seq(Line) /\ Len(lines) \in Nat
  BY ServerConstants DEF ServerTypeOK

-----------------------------------------------------------------------------
(* The bytes of the lines: a recursive sum, by induction on the lines *)

IsSum(u, m) == u = [n \in 0..m |-> IF n = 0 THEN 0 ELSE u[n - 1] + lines[n].len]

LEMMA SumExists == ASSUME NEW m \in Nat PROVE \E u : IsSum(u, m)
<1> DEFINE Body(u, n) == IF n = 0 THEN 0 ELSE u[n - 1] + lines[n].len
           S == {n \in Nat : \E u : u = [k \in 0..n |-> Body(u, k)]}
<1>1. 0 \in S
  <2> DEFINE u == [k \in 0..0 |-> 0]
  <2>1. \A k \in 0..0 : Body(u, k) = 0
    OBVIOUS
  <2>2. u = [k \in 0..0 |-> Body(u, k)]
    <3> HIDE DEF Body
    <3> QED BY <2>1
  <2> HIDE DEF u, Body
  <2> QED BY <2>2
<1>2. ASSUME NEW n \in Nat, n \in S PROVE n + 1 \in S
  <2>1. PICK u : u = [k \in 0..n |-> Body(u, k)]
    BY <1>2
  <2> DEFINE v == [k \in 0..n + 1 |-> Body(u, k)]
  <2>2. ASSUME NEW k \in 0..n + 1 PROVE Body(v, k) = Body(u, k)
    <3>1. CASE k # 0
      <4>1. k - 1 \in 0..n /\ k - 1 \in 0..n + 1
        BY <3>1
      <4>2. u[k - 1] = Body(u, k - 1) /\ v[k - 1] = Body(u, k - 1)
        <5> HIDE DEF Body
        <5> QED BY <2>1, <4>1
      <4>3. u[k - 1] = v[k - 1]
        BY <4>2
      <4> HIDE DEF v
      <4> QED BY <4>3
    <3>2. CASE k = 0
      BY <3>2
    <3> QED BY <3>1, <3>2
  <2>3. v = [k \in 0..n + 1 |-> Body(v, k)]
    <3> HIDE DEF Body
    <3> QED BY <2>2
  <2> HIDE DEF v, Body
  <2> QED BY <2>3
<1>3. m \in S
  <2> HIDE DEF S
  <2> QED BY <1>1, <1>2, Induct
<1> QED BY <1>3 DEF IsSum

LEMMA BytesAdd ==
  ASSUME lines \in Seq(Line)
  PROVE  /\ Bytes[0] = 0
         /\ \A n \in 0..Len(lines) : Bytes[n] \in Nat
         /\ \A n \in 0..Len(lines) - 1 : Bytes[n + 1] = Bytes[n] + lines[n + 1].len
<1> DEFINE u == CHOOSE u : IsSum(u, Len(lines))
           m == Len(lines)
<1>1. m \in Nat /\ \A n \in 1..m : lines[n].len \in Nat
  <2>1. m \in Nat /\ \A n \in 1..m : lines[n] \in Line
    OBVIOUS
  <2> QED BY <2>1 DEF Line
<1>2. IsSum(u, m)
  BY <1>1, SumExists
<1>3. Bytes = u
  BY DEF Bytes, IsSum
<1> HIDE DEF u, m
<1>4. u[0] = 0 /\ \A n \in 0..m : n + 1 \in 0..m => u[n + 1] = u[n] + lines[n + 1].len
  <2> DEFINE Body(n) == IF n = 0 THEN 0 ELSE u[n - 1] + lines[n].len
  <2>1. \A n \in 0..m : u[n] = Body(n)
    <3> HIDE DEF Body
    <3> QED BY <1>2 DEF IsSum, Body
  <2>2. u[0] = Body(0)
    BY <1>1, <2>1
  <2>3. ASSUME NEW n \in 0..m, n + 1 \in 0..m PROVE u[n + 1] = u[n] + lines[n + 1].len
    <3>1. u[n + 1] = Body(n + 1)
      BY <2>1, <2>3
    <3>2. n + 1 # 0 /\ (n + 1) - 1 = n
      BY <1>1
    <3> QED BY <3>1, <3>2
  <2> QED BY <2>2, <2>3
<1> DEFINE S == {n \in Nat : n <= m => u[n] \in Nat}
<1>5. 0 \in S
  BY <1>4
<1>6. ASSUME NEW n \in Nat, n \in S PROVE n + 1 \in S
  <2> SUFFICES ASSUME n + 1 <= m PROVE u[n + 1] \in Nat
    OBVIOUS
  <2>1. u[n] \in Nat /\ lines[n + 1].len \in Nat /\ u[n + 1] = u[n] + lines[n + 1].len
    BY <1>1, <1>4, <1>6
  <2> QED BY <2>1
<1>7. \A n \in Nat : n \in S
  <2> HIDE DEF S
  <2> QED BY <1>5, <1>6, Induct
<1>8. \A n \in 0..m : u[n] \in Nat
  BY <1>1, <1>7
<1>9. \A n \in 0..m - 1 : n \in 0..m /\ n + 1 \in 0..m
  BY <1>1
<1> QED BY <1>3, <1>4, <1>8, <1>9 DEF m

LEMMA SameBytes == ASSUME lines' = lines PROVE Bytes' = Bytes
  BY DEF Bytes

-----------------------------------------------------------------------------
(* Types, and what onMessage leaves in the buffer *)

LEMMA ServerTypeNext == ServerTypeOK /\ [ServerNext]_serverVars => ServerTypeOK'
<1> SUFFICES ASSUME ServerTypeOK, [ServerNext]_serverVars PROVE ServerTypeOK'
  OBVIOUS
<1>0. lines' = lines /\ Bytes' = Bytes
  <2>1. lines' = lines
    BY DEF ServerNext, serverVars, Receive, GoodRequest, BadRequest, IdTooLong, Enough, onMessage,
           TakeTask, Solve, SendInLoop
  <2> QED BY <2>1, SameBytes
<1>1. /\ Len(lines) \in Nat /\ \A n \in 0..Len(lines) : Bytes[n] \in Nat
  BY StreamTyped, BytesAdd
<1>2. ASSUME NEW k \in Nat, NEW r \in {"answer", "bad", "long"}, Sent(k, r)
      PROVE  replies' \in Seq(Nat \X {"answer", "bad", "long"})
  <2> DEFINE Reply == Nat \X {"answer", "bad", "long"}
  <2>1. <<k, r>> \in Reply /\ replies \in Seq(Reply)
    BY DEF ServerTypeOK
  <2> HIDE DEF Reply
  <2>2. Append(replies, <<k, r>>) \in Seq(Reply)
    BY <2>1
  <2>3. replies' \in Seq(Reply)
    BY <1>2, <2>1, <2>2 DEF Sent
  <2> QED BY <2>3 DEF Reply
<1>3. taken + 1 \in Nat
  BY <1>1 DEF ServerTypeOK
<1>4. CASE Receive
  <2>1. PICK n \in (arrived + 1)..Bytes[Len(lines)] : arrived' = n
    BY <1>4 DEF Receive
  <2>2. arrived' \in Nat /\ arrived' <= Bytes[Len(lines)] /\ arrived <= arrived'
    BY <1>1, <2>1 DEF ServerTypeOK
  <2>3. Bytes[taken] \in Nat
    BY <1>1 DEF ServerTypeOK
  <2>4. Bytes[taken] <= arrived'
    BY <2>2, <2>3 DEF ServerTypeOK
  <2> QED BY <1>0, <1>4, <2>2, <2>4 DEF Receive, ServerTypeOK
<1>5. CASE GoodRequest \/ BadRequest
  <2>1. /\ taken' = taken + 1 /\ taken < Len(lines) /\ Bytes[taken + 1] <= arrived
        /\ UNCHANGED <<pooled, arrived, solving, pend>>
    BY <1>5 DEF GoodRequest, BadRequest, onMessage, crlf
  <2>2. taken' \in 0..Len(lines)
    BY <1>1, <2>1 DEF ServerTypeOK
  <2>3. replies' \in Seq(Nat \X {"answer", "bad", "long"})
    BY <1>2, <1>3, <1>5 DEF GoodRequest, BadRequest, Rejected, ServerTypeOK
  <2>4. queued' \in Seq(Nat)
    <3>1. queued \in Seq(Nat) /\ Append(queued, taken + 1) \in Seq(Nat)
      BY <1>3 DEF ServerTypeOK
    <3> QED BY <1>5, <3>1 DEF GoodRequest, BadRequest
  <2>5. pc' \in {"idle", "onMessage", "killed"} /\ status' \in {"Connected", "Disconnecting"}
    BY <1>5 DEF GoodRequest, BadRequest, Rejected, ServerTypeOK
  <2> QED BY <1>0, <2>1, <2>2, <2>3, <2>4, <2>5 DEF ServerTypeOK
<1>6. CASE IdTooLong \/ Enough
  <2>1. replies' \in Seq(Nat \X {"answer", "bad", "long"})
    BY <1>2, <1>3, <1>6 DEF IdTooLong, Enough, Rejected, ServerTypeOK
  <2>2. pc' = "idle" /\ status' \in {"Connected", "Disconnecting"}
    BY <1>6 DEF IdTooLong, Enough, Rejected, ServerTypeOK
  <2> QED BY <1>0, <1>6, <2>1, <2>2 DEF IdTooLong, Enough, onMessage, ServerTypeOK
<1>7. CASE TakeTask
  <2>1. Head(queued) \in Nat /\ Tail(queued) \in Seq(Nat)
    BY <1>7 DEF TakeTask, ServerTypeOK
  <2> QED BY <1>0, <1>7, <2>1 DEF TakeTask, ServerTypeOK
<1>8. CASE Solve
  <2>1. PICK k \in solving : /\ solving' = solving \ {k}
                             /\ pend' = IF status = "Connected" THEN Append(pend, k) ELSE pend
    BY <1>8 DEF Solve
  <2>2. pend' \in Seq(Nat) /\ solving' \subseteq Nat
    BY <2>1 DEF ServerTypeOK
  <2> QED BY <1>0, <1>8, <2>2 DEF Solve, ServerTypeOK
<1>9. CASE SendInLoop
  <2>1. Head(pend) \in Nat /\ Tail(pend) \in Seq(Nat)
    BY <1>9 DEF SendInLoop, ServerTypeOK
  <2>2. replies' \in Seq(Nat \X {"answer", "bad", "long"})
    BY <1>2, <1>9, <2>1 DEF SendInLoop, ServerTypeOK
  <2> QED BY <1>0, <1>9, <2>1, <2>2 DEF SendInLoop, ServerTypeOK
<1>10. CASE UNCHANGED serverVars
  BY <1>0, <1>10 DEF serverVars, ServerTypeOK
<1> QED BY <1>4, <1>5, <1>6, <1>7, <1>8, <1>9, <1>10 DEF ServerNext

LEMMA NothingLeftNext == ServerTypeOK /\ NothingLeft /\ [ServerNext]_serverVars => NothingLeft'
<1> SUFFICES ASSUME ServerTypeOK, NothingLeft, [ServerNext]_serverVars PROVE NothingLeft'
  OBVIOUS
<1>1. ASSUME UNCHANGED <<lines, arrived, taken>> PROVE crlf' = crlf /\ readableBytes' = readableBytes
  <2>1. Bytes' = Bytes
    BY <1>1, SameBytes
  <2> QED BY <1>1, <2>1 DEF crlf, readableBytes
<1>2. CASE Receive \/ GoodRequest
  BY <1>2 DEF Receive, GoodRequest, onMessage, NothingLeft
<1>3. CASE BadRequest \/ IdTooLong
  BY <1>3 DEF BadRequest, IdTooLong, Rejected, NothingLeft
<1>4. CASE Enough
  <2>1. crlf' = crlf /\ readableBytes' = readableBytes
    BY <1>1, <1>4 DEF Enough, onMessage
  <2>2. readableBytes \in Nat /\ kCells + 2 \in Nat
    <3>1. Bytes[taken] \in Nat
      BY StreamTyped, BytesAdd DEF ServerTypeOK
    <3> QED BY <3>1, ServerConstants DEF readableBytes, ServerTypeOK
  <2>3. readableBytes < kCells + 2 \/ ~ crlf
    BY <1>4 DEF Enough
  <2> QED BY <2>1, <2>2, <2>3 DEF NothingLeft
<1>5. CASE TakeTask \/ Solve \/ SendInLoop \/ UNCHANGED serverVars
  <2>1. UNCHANGED <<lines, arrived, taken, status>> /\ (pc' = pc \/ pc' = "killed")
    BY <1>5 DEF TakeTask, Solve, SendInLoop, serverVars
  <2> QED BY <1>1, <2>1 DEF NothingLeft
<1> QED BY <1>2, <1>3, <1>4, <1>5 DEF ServerNext

-----------------------------------------------------------------------------
(* The replies *)

\* send() while the connection is up adds one reply.
LEMMA SentAdds ==
  ASSUME ServerTypeOK, status = "Connected", NEW k \in Nat, NEW r \in {"answer", "bad", "long"},
         Sent(k, r)
  PROVE  /\ Len(replies') = Len(replies) + 1 /\ Len(replies) \in Nat
         /\ DOMAIN replies' = 1..Len(replies) + 1 /\ DOMAIN replies = 1..Len(replies)
         /\ replies'[Len(replies) + 1] = <<k, r>>
         /\ \A i \in 1..Len(replies) : replies'[i] = replies[i]
  BY DEF Sent, ServerTypeOK

LEMMA AnsweredNext ==
  ServerTypeOK /\ AnsweredAtOnce /\ RepliesInOrder /\ [ServerNext]_serverVars
     => AnsweredAtOnce' /\ RepliesInOrder'
<1> SUFFICES ASSUME ServerTypeOK, AnsweredAtOnce, RepliesInOrder, [ServerNext]_serverVars
             PROVE  AnsweredAtOnce' /\ RepliesInOrder'
  OBVIOUS
<1>0. lines' = lines /\ pooled' = pooled
  BY DEF ServerNext, serverVars, Receive, GoodRequest, BadRequest, IdTooLong, Enough, onMessage,
         TakeTask, Solve, SendInLoop
<1>1. CASE pooled
  BY <1>0, <1>1 DEF AnsweredAtOnce, RepliesInOrder
<1>2. CASE ~ pooled /\ UNCHANGED <<queued, solving, pend, replies>>
                    /\ (status' = "Connected" => status = "Connected" /\ taken' = taken)
  BY <1>0, <1>2 DEF AnsweredAtOnce, RepliesInOrder
<1>3. ASSUME ~ pooled, status = "Connected", NEW r \in {"answer", "bad", "long"},
             Sent(taken + 1, r), UNCHANGED <<queued, solving, pend>>,
             \/ r = "answer" /\ lines[taken + 1].good /\ taken' = taken + 1
             \/ r = "bad" /\ ~ lines[taken + 1].good /\ status' = "Disconnecting"
             \/ r = "long" /\ lines[taken + 1].len > Limit + 1 /\ status' = "Disconnecting"
      PROVE  AnsweredAtOnce' /\ RepliesInOrder'
  <2> DEFINE t == Len(replies)
  <2>1. t = taken /\ \A k \in DOMAIN replies : replies[k] = <<k, "answer">> /\ lines[k].good
    BY <1>3 DEF AnsweredAtOnce
  <2>2. taken + 1 \in Nat
    BY StreamTyped DEF ServerTypeOK
  <2>3. /\ Len(replies') = t + 1 /\ t \in Nat
        /\ DOMAIN replies' = 1..t + 1 /\ DOMAIN replies = 1..t
        /\ replies'[t + 1] = <<t + 1, r>>
        /\ \A i \in 1..t : replies'[i] = replies[i]
    BY <1>3, <2>1, <2>2, SentAdds
  <2> HIDE DEF t
  <2>4. \A k \in 1..t + 1 : k \in 1..t \/ k = t + 1
    BY <2>3
  <2>5. \A k \in 1..t : replies'[k] = <<k, "answer">> /\ lines[k].good
    BY <2>1, <2>3
  <2>6. AnsweredAtOnce'
    <3>1. CASE r = "answer" /\ lines[t + 1].good /\ taken' = taken + 1
      BY <1>0, <1>3, <2>1, <2>3, <2>4, <2>5, <3>1 DEF AnsweredAtOnce
    <3>2. CASE status' = "Disconnecting"
      BY <1>0, <1>3, <3>2 DEF AnsweredAtOnce
    <3> QED BY <1>3, <2>1, <3>1, <3>2
  <2>7. RepliesInOrder'
    <3> SUFFICES ASSUME NEW k \in 1..t + 1
                 PROVE  /\ replies'[k][1] = k
                        /\ CASE replies'[k][2] = "answer" -> lines[k].good
                             [] replies'[k][2] = "bad" -> ~ lines[k].good /\ k = Len(replies')
                             [] OTHER -> lines[k].len > Limit + 1 /\ k = Len(replies')
      BY <1>0, <2>3 DEF RepliesInOrder
    <3>1. CASE k \in 1..t
      BY <2>5, <3>1
    <3>2. CASE k = t + 1
      BY <1>3, <2>1, <2>3, <3>2
    <3> QED BY <2>4, <3>1, <3>2
  <2> QED BY <2>6, <2>7
<1>4. ASSUME ~ pooled, status # "Connected", NEW k, NEW r, Sent(k, r),
             UNCHANGED <<queued, solving, pend>>, status' # "Connected"
      PROVE  AnsweredAtOnce' /\ RepliesInOrder'
  BY <1>2, <1>4 DEF Sent
<1>5. CASE ~ pooled /\ (Receive \/ Enough)
  BY <1>2, <1>5 DEF Receive, Enough, onMessage
<1>6. CASE ~ pooled /\ GoodRequest
  <2>1. /\ Sent(taken + 1, "answer") /\ UNCHANGED <<queued, solving, pend, status>>
        /\ lines[taken + 1].good /\ taken' = taken + 1
    BY <1>6 DEF GoodRequest, onMessage
  <2>2. CASE status = "Connected"
    BY <1>3, <1>6, <2>1, <2>2
  <2>3. CASE status # "Connected"
    BY <1>4, <1>6, <2>1, <2>3
  <2> QED BY <2>2, <2>3
<1>7. CASE ~ pooled /\ BadRequest
  <2>1. /\ Sent(taken + 1, "bad") /\ UNCHANGED <<queued, solving, pend>>
        /\ ~ lines[taken + 1].good /\ status' = "Disconnecting"
    BY <1>7 DEF BadRequest, Rejected, onMessage
  <2>2. CASE status = "Connected"
    BY <1>3, <1>7, <2>1, <2>2
  <2>3. CASE status # "Connected"
    BY <1>4, <1>7, <2>1, <2>3
  <2> QED BY <2>2, <2>3
<1>8. CASE ~ pooled /\ IdTooLong
  <2>1. /\ Sent(taken + 1, "long") /\ UNCHANGED <<queued, solving, pend>>
        /\ status' = "Disconnecting" /\ ~ crlf /\ readableBytes > Limit
    BY <1>8 DEF IdTooLong, Rejected, onMessage
  <2>2. lines[taken + 1].len > Limit + 1
    <3>1. lines \in Seq(Line) /\ Len(lines) \in Nat /\ arrived \in Nat /\ Limit \in Nat
      BY StreamTyped, ServerConstants DEF ServerTypeOK
    <3>2. taken \in 0..Len(lines) /\ Bytes[taken] \in Nat /\ Bytes[taken] <= arrived
      BY <3>1, BytesAdd DEF ServerTypeOK
    <3>3. taken # Len(lines)
      BY <2>1, <3>1, <3>2 DEF readableBytes, ServerTypeOK
    <3>4. taken \in 0..Len(lines) - 1 /\ taken + 1 \in 0..Len(lines) /\ taken < Len(lines)
      BY <3>1, <3>2, <3>3
    <3>5. Bytes[taken + 1] = Bytes[taken] + lines[taken + 1].len /\ Bytes[taken + 1] \in Nat
      BY <3>1, <3>4, BytesAdd
    <3>6. ~ (Bytes[taken + 1] <= arrived)
      BY <2>1, <3>4 DEF crlf
    <3>7. lines[taken + 1].len \in Nat
      <4>1. lines[taken + 1] \in Line
        BY <3>1, <3>4
      <4> QED BY <4>1 DEF Line
    <3>8. arrived - Bytes[taken] > Limit
      BY <2>1 DEF readableBytes
    <3> QED BY <3>1, <3>2, <3>5, <3>6, <3>7, <3>8
  <2>3. CASE status = "Connected"
    BY <1>3, <1>8, <2>1, <2>2, <2>3
  <2>4. CASE status # "Connected"
    BY <1>4, <1>8, <2>1, <2>4
  <2> QED BY <2>3, <2>4
<1>9. CASE ~ pooled /\ (TakeTask \/ Solve \/ SendInLoop)
  BY <1>9 DEF TakeTask, Solve, SendInLoop, AnsweredAtOnce
<1>10. CASE ~ pooled /\ UNCHANGED serverVars
  BY <1>2, <1>10 DEF serverVars
<1> QED BY <1>1, <1>5, <1>6, <1>7, <1>8, <1>9, <1>10 DEF ServerNext

-----------------------------------------------------------------------------
(* Every request is in one place *)

LEMMA SentReplies ==
  ASSUME ServerTypeOK, status = "Connected", RepliedOnce,
         NEW k \in Nat, NEW r \in {"answer", "bad", "long"}, Sent(k, r), ~ Replied(k)
  PROVE  RepliedOnce' /\ \A x : Replied(x)' <=> Replied(x) \/ x = k
<1> DEFINE t == Len(replies)
<1>1. /\ t \in Nat /\ DOMAIN replies' = 1..t + 1 /\ DOMAIN replies = 1..t
      /\ replies'[t + 1] = <<k, r>> /\ \A i \in 1..t : replies'[i] = replies[i]
  BY SentAdds
<1> HIDE DEF t
<1>2. /\ t + 1 \in 1..t + 1 /\ \A i \in 1..t + 1 : i \in 1..t \/ i = t + 1
      /\ \A i \in 1..t : i \in 1..t + 1 /\ i # t + 1
  BY <1>1
<1>3. replies'[t + 1][1] = k /\ \A i \in 1..t : replies'[i][1] = replies[i][1] /\ replies[i][1] # k
  BY <1>1 DEF Replied
<1>4. RepliedOnce'
  BY <1>1, <1>2, <1>3 DEF RepliedOnce
<1>5. \A x : Replied(x)' <=> Replied(x) \/ x = k
  BY <1>1, <1>2, <1>3 DEF Replied
<1> QED BY <1>4, <1>5

LEMMA KeptNext ==
  ServerTypeOK /\ EachRequestKept /\ [ServerNext]_serverVars => EachRequestKept'
<1> SUFFICES ASSUME ServerTypeOK, EachRequestKept, [ServerNext]_serverVars,
                    status' = "Connected"
             PROVE  EachRequestKept'
  BY DEF EachRequestKept
<1>1. status = "Connected"
  BY DEF ServerNext, serverVars, Receive, GoodRequest, BadRequest, IdTooLong, Enough, onMessage,
         Rejected, TakeTask, Solve, SendInLoop
<1>2. /\ RepliedOnce /\ NoRepeats(pend) /\ NoRepeats(queued)
      /\ \A k \in Nat : /\ ~ (Replied(k) /\ Has(pend, k)) /\ ~ (Replied(k) /\ Has(queued, k))
                        /\ ~ (Replied(k) /\ k \in solving) /\ ~ (Has(pend, k) /\ Has(queued, k))
                        /\ ~ (Has(pend, k) /\ k \in solving) /\ ~ (Has(queued, k) /\ k \in solving)
      /\ \A k \in Nat : k \in 1..taken <=> Replied(k) \/ Has(pend, k) \/ Has(queued, k) \/ k \in solving
  BY <1>1 DEF EachRequestKept
<1>3. /\ taken \in Nat /\ taken + 1 \in Nat /\ taken + 1 \notin 1..taken
      /\ \A k \in Nat : k \in 1..taken + 1 <=> k \in 1..taken \/ k = taken + 1
  BY StreamTyped DEF ServerTypeOK
<1>4. queued \in Seq(Nat) /\ pend \in Seq(Nat) /\ solving \subseteq Nat
  BY DEF ServerTypeOK
<1>5. CASE GoodRequest /\ pooled
  <2>1. /\ taken' = taken + 1 /\ queued' = Append(queued, taken + 1)
        /\ UNCHANGED <<replies, solving, pend>>
    BY <1>5 DEF GoodRequest, onMessage
  <2>2. /\ \A x : Has(queued', x) <=> Has(queued, x) \/ x = taken + 1
        /\ NoRepeats(queued')
    <3>1. ~ Has(queued, taken + 1)
      BY <1>2, <1>3
    <3> QED BY <1>2, <1>3, <1>4, <2>1, <3>1, AppendNoRepeats
  <2>3. RepliedOnce' /\ \A k : Replied(k)' <=> Replied(k)
    BY <1>2, <2>1 DEF RepliedOnce, Replied
  <2> QED BY <1>2, <1>3, <2>1, <2>2, <2>3 DEF EachRequestKept
<1>6. CASE GoodRequest /\ ~ pooled
  <2>1. /\ taken' = taken + 1 /\ Sent(taken + 1, "answer") /\ UNCHANGED <<queued, solving, pend>>
    BY <1>6 DEF GoodRequest, onMessage
  <2>2. RepliedOnce' /\ \A x : Replied(x)' <=> Replied(x) \/ x = taken + 1
    <3>1. ~ Replied(taken + 1)
      BY <1>2, <1>3
    <3> QED BY <1>1, <1>2, <1>3, <2>1, <3>1, SentReplies
  <2> QED BY <1>2, <1>3, <2>1, <2>2 DEF EachRequestKept
<1>7. CASE Receive \/ Enough \/ UNCHANGED serverVars
  <2>1. UNCHANGED <<replies, pend, queued, solving, taken>>
    BY <1>7 DEF Receive, Enough, onMessage, serverVars
  <2> QED BY <1>2, <2>1 DEF EachRequestKept, RepliedOnce, Replied
<1>8. CASE TakeTask
  <2> DEFINE h == Head(queued)
  <2>1. /\ queued # <<>> /\ solving' = solving \cup {h} /\ queued' = Tail(queued)
        /\ UNCHANGED <<replies, pend, taken>>
    BY <1>8 DEF TakeTask
  <2>2. /\ \A x : Has(queued', x) <=> Has(queued, x) /\ x # h
        /\ Has(queued, h) /\ NoRepeats(queued')
    BY <1>2, <1>4, <2>1, TailNoRepeats
  <2>3. h \in Nat
    BY <1>4, <2>1
  <2> HIDE DEF h
  <2>4. RepliedOnce' /\ \A k : Replied(k)' <=> Replied(k)
    BY <1>2, <2>1 DEF RepliedOnce, Replied
  <2> QED BY <1>2, <2>1, <2>2, <2>3, <2>4 DEF EachRequestKept
<1>9. CASE Solve
  <2>1. PICK h \in solving : solving' = solving \ {h} /\ pend' = Append(pend, h)
    BY <1>1, <1>9 DEF Solve
  <2>2. UNCHANGED <<replies, queued, taken>>
    BY <1>9 DEF Solve
  <2>3. h \in Nat /\ ~ Has(pend, h)
    BY <1>2, <1>4
  <2>4. (\A x : Has(pend', x) <=> Has(pend, x) \/ x = h) /\ NoRepeats(pend')
    BY <1>2, <1>4, <2>1, <2>3, AppendNoRepeats
  <2>5. RepliedOnce' /\ \A k : Replied(k)' <=> Replied(k)
    BY <1>2, <2>2 DEF RepliedOnce, Replied
  <2> QED BY <1>2, <2>1, <2>2, <2>3, <2>4, <2>5 DEF EachRequestKept
<1>10. CASE SendInLoop
  <2>1. PICK h : h = Head(pend)
    OBVIOUS
  <2>2. /\ pend # <<>> /\ pend' = Tail(pend) /\ Sent(h, "answer")
        /\ UNCHANGED <<taken, queued, solving>>
    BY <1>1, <1>10, <2>1 DEF SendInLoop
  <2>3. /\ \A x : Has(pend', x) <=> Has(pend, x) /\ x # h
        /\ Has(pend, h) /\ NoRepeats(pend')
    BY <1>2, <1>4, <2>1, <2>2, TailNoRepeats
  <2>4. h \in Nat /\ ~ Replied(h)
    BY <1>2, <1>4, <2>1, <2>2, <2>3
  <2>5. RepliedOnce' /\ \A x : Replied(x)' <=> Replied(x) \/ x = h
    BY <1>1, <1>2, <2>2, <2>4, SentReplies
  <2> QED BY <1>2, <2>2, <2>3, <2>4, <2>5 DEF EachRequestKept
<1>11. CASE BadRequest \/ IdTooLong
  BY <1>11 DEF BadRequest, IdTooLong, Rejected
<1> QED BY <1>5, <1>6, <1>7, <1>8, <1>9, <1>10, <1>11 DEF ServerNext

LEMMA KeptCounts ==
  ASSUME EachRequestKept, NothingLeft, taken \in Nat PROVE NoRequestLost
<1> SUFFICES ASSUME status = "Connected", NEW k \in 1..taken PROVE Places(k) = 1
  BY DEF NoRequestLost, NothingLeft
<1> DEFINE R == {i \in DOMAIN replies : replies[i][1] = k}
           P == {i \in DOMAIN pend : pend[i] = k}
           Q == {i \in DOMAIN queued : queued[i] = k}
           S == {k} \cap solving
<1>1. /\ Cardinality(R) = IF Replied(k) THEN 1 ELSE 0
      /\ Cardinality(P) = IF Has(pend, k) THEN 1 ELSE 0
      /\ Cardinality(Q) = IF Has(queued, k) THEN 1 ELSE 0
      /\ Cardinality(S) = IF k \in solving THEN 1 ELSE 0
  <2>1. /\ \A x, y \in R : x = y
        /\ \A x, y \in P : x = y
        /\ \A x, y \in Q : x = y
        /\ \A x, y \in S : x = y
    BY DEF EachRequestKept, RepliedOnce, NoRepeats
  <2>2. /\ R = {} <=> ~ Replied(k)
        /\ P = {} <=> ~ Has(pend, k)
        /\ Q = {} <=> ~ Has(queued, k)
        /\ S = {} <=> k \notin solving
    BY DEF Replied, Has
  <2> HIDE DEF R, P, Q, S
  <2> QED BY <2>1, <2>2, AtMostOne
<1>2. /\ ~ (Replied(k) /\ Has(pend, k)) /\ ~ (Replied(k) /\ Has(queued, k))
      /\ ~ (Replied(k) /\ k \in solving) /\ ~ (Has(pend, k) /\ Has(queued, k))
      /\ ~ (Has(pend, k) /\ k \in solving) /\ ~ (Has(queued, k) /\ k \in solving)
      /\ Replied(k) \/ Has(pend, k) \/ Has(queued, k) \/ k \in solving
  BY DEF EachRequestKept
<1>3. Cardinality(R) + Cardinality(P) + Cardinality(Q) + Cardinality(S) = 1
  <2> HIDE DEF R, P, Q, S
  <2> QED BY <1>1, <1>2
<1> QED BY <1>3 DEF Places

\* The replies to a stream of lines depend on the lines, not on the pieces in which they
\* arrive: without a pool the lines are answered in their order up to the first that is
\* refused, and with one, whose workers finish in any order, no request that onMessage
\* took is lost or answered twice while the connection is up.
THEOREM RepliesAreRight == ServerSpec => []RepliesMatchLines
<1>1. ServerInit => ServerInv
  <2> SUFFICES ASSUME ServerInit PROVE ServerInv
    OBVIOUS
  <2>1. lines \in Seq(Line) /\ Len(lines) \in Nat
    BY ServerConstants DEF ServerInit
  <2>2. Bytes[0] = 0 /\ Bytes[Len(lines)] \in Nat
    BY <2>1, BytesAdd
  <2>3. ServerTypeOK
    BY <2>1, <2>2 DEF ServerInit, ServerTypeOK
  <2>4. NothingLeft
    BY <2>2, ServerConstants DEF ServerInit, NothingLeft, readableBytes
  <2>5. AnsweredAtOnce /\ RepliesInOrder /\ EachRequestKept
    BY DEF ServerInit, AnsweredAtOnce, RepliesInOrder, EachRequestKept, RepliedOnce, Replied, Has,
           NoRepeats
  <2> QED BY <2>3, <2>4, <2>5 DEF ServerInv
<1>2. ServerInv /\ [ServerNext]_serverVars => ServerInv'
  BY ServerTypeNext, AnsweredNext, KeptNext, NothingLeftNext DEF ServerInv
<1>3. ServerInv => RepliesMatchLines
  <2>1. ServerTypeOK => taken \in Nat
    BY StreamTyped DEF ServerTypeOK
  <2> QED BY <2>1, KeptCounts DEF ServerInv, RepliesMatchLines
<1> QED BY <1>1, <1>2, <1>3, PTL DEF ServerSpec

-----------------------------------------------------------------------------
(* SudokuSolver: loops along links *)

\* u begins with a, and F gives its next.
Follows(u, n, T, a, F) == /\ u \in [0..n -> T] /\ u[0] = a
                          /\ \A k \in 1..n : u[k] = F[<<k, u[k - 1]>>]

\* A function that is given by its value at 0 and a step exists.
LEMMA Recursion ==
  ASSUME NEW T, NEW n \in Nat, NEW a \in T, NEW F \in [(1..n) \X T -> T]
  PROVE  \E u : Follows(u, n, T, a, F)
<1> DEFINE P == {m \in Nat : m <= n => \E u : Follows(u, m, T, a, F)}
<1>1. 0 \in P
  <2>1. Follows([k \in {0} |-> a], 0, T, a, F)
    <3>1. 0..0 = {0} /\ 1..0 = {}
      OBVIOUS
    <3> QED BY <3>1 DEF Follows
  <2> QED BY <2>1
<1>2. ASSUME NEW m \in Nat, m \in P PROVE m + 1 \in P
  <2>1. SUFFICES ASSUME m + 1 <= n PROVE \E u : Follows(u, m + 1, T, a, F)
    OBVIOUS
  <2>2. PICK u : Follows(u, m, T, a, F)
    BY <1>2, <2>1
  <2> DEFINE w == [k \in 0..(m + 1) |-> IF k = m + 1 THEN F[<<m + 1, u[m]>>] ELSE u[k]]
  <2>3. F[<<m + 1, u[m]>>] \in T
    <3>1. u[m] \in T
      BY <2>2, SMTT(30) DEF Follows
    <3>2. m + 1 \in 1..n
      BY <2>1
    <3> QED BY <3>1, <3>2
  <2>4. w \in [0..(m + 1) -> T] /\ w[0] = a
    BY <2>2, <2>3, SMTT(30) DEF Follows
  <2>5. ASSUME NEW k \in 1..(m + 1) PROVE w[k] = F[<<k, w[k - 1]>>]
    <3>1. CASE k = m + 1
      BY <3>1
    <3>2. CASE k # m + 1
      BY <3>2, <2>2 DEF Follows
    <3> QED BY <3>1, <3>2
  <2>6. Follows(w, m + 1, T, a, F)
    <3> HIDE DEF w
    <3> QED BY <2>4, <2>5 DEF Follows
  <2> QED BY <2>6
<1>3. n \in P
  <2> HIDE DEF P
  <2> QED BY <1>1, <1>2, Induct
<1> QED BY <1>3

\* s holds what comes after n along f, before n comes again.
At(n, s, k) == IF k = 0 THEN n ELSE s[k]
IsWalk(f, n, s) == /\ \A k \in 1..Len(s) : s[k] # n /\ s[k] = f[At(n, s, k - 1)]
                   /\ f[At(n, s, Len(s))] = n

\* A function from 1..N is a sequence of N.
LEMMA SequenceOf ==
  ASSUME NEW N \in Nat, NEW T, NEW f \in [1..N -> T]
  PROVE  f \in Seq(T) /\ Len(f) = N /\ DOMAIN f = 1..N
<1>1. f \in Seq(T)
  BY SeqDef
<1>2. Len(f) \in Nat /\ 1..Len(f) = 1..N
  BY <1>1, LenProperties
<1>3. Len(f) = N
  BY <1>2
<1> QED BY <1>1, <1>3

\* Walk is the sequence of which the next is what the link says, up to the first node.
LEMMA WalkIs ==
  ASSUME NEW N \in Nat, NEW f \in [1..N -> 1..N], NEW n \in 1..N,
         NEW s \in Seq(1..N), Len(s) < N, IsWalk(f, n, s)
  PROVE  Walk(f, n) = s
<1> DEFINE IsTo(u) == u = [k \in 0..Len(f) |-> IF k = 0 THEN n ELSE f[u[k - 1]]]
           to == CHOOSE u : IsTo(u)
           Ends(k) == to[k] = n /\ \A j \in 1..(k - 1) : to[j] # n
           end == CHOOSE k \in 1..Len(f) : Ends(k)
<1>1. Len(f) = N
  BY SequenceOf
<1>2. IsTo(to)
  <2> DEFINE F == [p \in (1..N) \X (1..N) |-> f[p[2]]]
             Comes(u, k) == u[k] = f[u[k - 1]]
  <2>1. /\ F \in [(1..N) \X (1..N) -> 1..N]
        /\ \A k, x \in 1..N : F[<<k, x>>] = f[x]
    OBVIOUS
  <2> HIDE DEF F
  <2>2. PICK u : Follows(u, N, 1..N, n, F)
    BY <2>1, Recursion
  <2>5. u \in [0..N -> 1..N] /\ u[0] = n
    BY <2>2 DEF Follows
  <2>3. ASSUME NEW k \in 1..N PROVE Comes(u, k)
    <3>1. u[k] = F[<<k, u[k - 1]>>]
      BY <2>2, ZenonT(30) DEF Follows
    <3>2. k - 1 \in 0..N
      OBVIOUS
    <3>3. u[k - 1] \in 1..N
      BY <3>2, <2>5
    <3> QED BY <3>1, <3>3, <2>1
  <2>4. IsTo(u)
    <3> DEFINE v == [k \in 0..N |-> IF k = 0 THEN n ELSE f[u[k - 1]]]
    <3>1. ASSUME NEW k \in 0..N PROVE u[k] = v[k]
      <4>1. CASE k = 0
        BY <4>1, <2>5
      <4>2. CASE k # 0
        <5>1. k \in 1..N
          BY <4>2
        <5>2. Comes(u, k)
          BY <5>1, <2>3, ZenonT(30)
        <5> QED BY <5>2, <4>2
      <4> QED BY <4>1, <4>2
    <3>2. u = v
      <4> HIDE DEF v
      <4>1. DOMAIN u = 0..N /\ DOMAIN v = 0..N /\ v = [k \in 0..N |-> v[k]]
        BY <2>5 DEF v
      <4> QED BY <3>1, <4>1
    <3> QED BY <3>2, <1>1, ZenonT(30)
  <2> HIDE DEF IsTo
  <2> QED BY <2>4
<1> DEFINE Comes(k) == to[k] = f[to[k - 1]]
<1>3. to[0] = n /\ \A k \in 1..N : Comes(k)
  <2> HIDE DEF to
  <2>1. DOMAIN to = 0..N /\ \A k \in 0..N : to[k] = IF k = 0 THEN n ELSE f[to[k - 1]]
    BY <1>2, <1>1, ZenonT(30)
  <2>2. to[0] = n
    <3>1. 0 \in 0..N
      OBVIOUS
    <3> QED BY <2>1, <3>1, ZenonT(30)
  <2>3. ASSUME NEW k \in 1..N PROVE Comes(k)
    <3>1. k \in 0..N /\ k # 0
      OBVIOUS
    <3> QED BY <2>1, <3>1, ZenonT(30)
  <2> QED BY <2>2, <2>3
<1> HIDE DEF to, Comes
<1>4. \A k \in Nat : k <= Len(s) => to[k] = At(n, s, k)
  <2> DEFINE P == {k \in Nat : k <= Len(s) => to[k] = At(n, s, k)}
  <2>1. 0 \in P
    BY <1>3 DEF At
  <2>2. ASSUME NEW k \in Nat, k \in P PROVE k + 1 \in P
    <3>0. k + 1 \in Nat
      OBVIOUS
    <3>1. SUFFICES ASSUME k + 1 <= Len(s) PROVE to[k + 1] = At(n, s, k + 1)
      BY <3>0, ZenonT(30)
    <3>2. to[k] = At(n, s, k) /\ k + 1 \in 1..N /\ k + 1 \in 1..Len(s) /\ (k + 1) - 1 = k
      BY <2>2, <3>1
    <3>3. to[k + 1] = f[to[k]]
      <4>1. Comes(k + 1)
        BY <3>2, <1>3
      <4> QED BY <4>1, <3>2, ZenonT(30) DEF Comes
    <3>4. s[k + 1] = f[At(n, s, k)]
      BY <3>2, ZenonT(30) DEF IsWalk
    <3>5. At(n, s, k + 1) = s[k + 1]
      BY DEF At
    <3> QED BY <3>2, <3>3, <3>4, <3>5
  <2> HIDE DEF P
  <2>3. \A k \in Nat : k \in P
    BY <2>1, <2>2, Induct
  <2> QED BY <2>3 DEF P
<1> DEFINE e == Len(s) + 1
<1>5. to[e] = n /\ e \in 1..N
  <2>1. e \in 1..N /\ e - 1 = Len(s)
    OBVIOUS
  <2>2. Comes(e)
    BY <1>3, <2>1
  <2>3. to[Len(s)] = At(n, s, Len(s))
    BY <1>4
  <2>4. f[At(n, s, Len(s))] = n
    BY DEF IsWalk
  <2> QED BY <2>1, <2>2, <2>3, <2>4, ZenonT(30) DEF Comes
<1>6. ASSUME NEW j \in 1..Len(s) PROVE to[j] = s[j] /\ to[j] # n
  <2>1. to[j] = At(n, s, j) /\ j # 0
    BY <1>4
  <2>2. s[j] # n
    BY ZenonT(30) DEF IsWalk
  <2> QED BY <2>1, <2>2 DEF At
<1>7. end = e
  <2>1. Ends(e)
    BY <1>5, <1>6
  <2>2. ASSUME NEW k \in 1..Len(f), Ends(k) PROVE k = e
    <3>1. ~ (k < e)
      <4>1. k < e => k \in 1..Len(s)
        BY <1>1
      <4> QED BY <4>1, <1>6, <2>2, ZenonT(30)
    <3>2. ASSUME k > e PROVE FALSE
      <4>1. e \in 1..(k - 1)
        BY <1>1, <1>5, <3>2
      <4>2. to[e] # n
        BY <2>2, <4>1, ZenonT(30)
      <4> QED BY <4>2, <1>5
    <3> QED BY <3>1, <3>2, <1>1, SMTT(30)
  <2>3. e \in 1..Len(f)
    BY <1>5, <1>1
  <2> HIDE DEF Ends, e
  <2> QED BY <2>1, <2>2, <2>3
<1>8. Walk(f, n) = [k \in 1..(end - 1) |-> to[k]]
  BY DEF Walk, to
<1>9. [k \in 1..(e - 1) |-> to[k]] = s
  <2>1. s = [k \in 1..Len(s) |-> s[k]] /\ e - 1 = Len(s)
    OBVIOUS
  <2> QED BY <1>6, <2>1
<1> HIDE DEF end
<1> QED BY <1>7, <1>8, <1>9

-----------------------------------------------------------------------------
(* Rings: two links that undo each other, above a first node *)

\* x has its place in a ring of n and the nodes of S, which are above n, in order.
Joins(f, g, n, S, x) ==
  /\ f[x] \in S \cup {n} /\ g[f[x]] = x
  /\ g[x] \in S \cup {n} /\ f[g[x]] = x
  /\ f[x] # n => x < f[x]
  /\ \A y \in S : x < y => f[x] # n /\ f[x] <= y

\* All of S are in the ring.
Ring(f, g, n, S) == \A x \in S \cup {n} : Joins(f, g, n, S, x)

\* A ring depends on the links of its nodes only.
LEMMA RingSame ==
  ASSUME NEW S, NEW n, NEW f, NEW g, NEW f2, NEW g2, Ring(f, g, n, S),
         \A x \in S \cup {n} : f2[x] = f[x] /\ g2[x] = g[x]
  PROVE  Ring(f2, g2, n, S)
<1>1. SUFFICES ASSUME NEW x \in S \cup {n} PROVE Joins(f2, g2, n, S, x)
  BY DEF Ring
<1>2. Joins(f, g, n, S, x)
  BY DEF Ring
<1>3. f[x] \in S \cup {n} /\ g[x] \in S \cup {n}
  BY <1>2 DEF Joins
<1>4. f2[x] = f[x] /\ g2[x] = g[x] /\ g2[f[x]] = g[f[x]] /\ f2[g[x]] = f[g[x]]
  BY <1>3
<1> QED BY <1>2, <1>4 DEF Joins

\* The nodes of S come after n.
Above(n, S, N) == n \in 1..N /\ \A x \in S : x \in 1..N /\ n < x

\* f2 and g2 pass over j.
Passes(f, g, f2, g2, j, N) ==
  \A x \in 1..N : /\ f2[x] = IF x = g[j] THEN f[j] ELSE f[x]
                  /\ g2[x] = IF x = f[j] THEN g[j] ELSE g[x]

\* A node that is passed over leaves a ring.
LEMMA RingRemove ==
  ASSUME NEW N \in Nat, NEW f, NEW g, NEW n, NEW S, NEW j \in S, NEW f2, NEW g2,
         Above(n, S, N), Ring(f, g, n, S), Passes(f, g, f2, g2, j, N)
  PROVE  Ring(f2, g2, n, S \ {j})
<1> DEFINE T == S \ {j}
<1>0. ASSUME NEW x \in S PROVE x \in 1..N /\ n < x /\ x \in Nat
  BY DEF Above
<1>1. j \in Nat /\ j # n /\ n < j /\ (\A x \in S \cup {n} : x \in 1..N)
  BY <1>0 DEF Above
<1>2. Joins(f, g, n, S, j)
  BY DEF Ring
<1>3. f[j] # j
  <2>1. f[j] # n => j < f[j]
    BY <1>2 DEF Joins
  <2> QED BY <2>1, <1>1
<1>4. g[j] # j
  <2>1. f[g[j]] = j
    BY <1>2 DEF Joins
  <2> QED BY <2>1, <1>3
<1>5. /\ f[j] \in T \cup {n} /\ g[j] \in T \cup {n} /\ f[j] \in 1..N /\ g[j] \in 1..N
      /\ g[f[j]] = j /\ f[g[j]] = j
  BY <1>1, <1>2, <1>3, <1>4 DEF Joins
<1>6. SUFFICES ASSUME NEW x \in T \cup {n} PROVE Joins(f2, g2, n, T, x)
  BY DEF Ring
<1>7. Joins(f, g, n, S, x) /\ x \in 1..N /\ x # j
  BY <1>1 DEF Ring
<1>8. ASSUME NEW z \in 1..N PROVE /\ f2[z] = IF z = g[j] THEN f[j] ELSE f[z]
                                  /\ g2[z] = IF z = f[j] THEN g[j] ELSE g[z]
  BY DEF Passes
<1>9. /\ f[x] \in S \cup {n} /\ g[f[x]] = x /\ g[x] \in S \cup {n} /\ f[g[x]] = x
      /\ (f[x] # n => x < f[x]) /\ (f[j] # n => j < f[j])
  BY <1>2, <1>7 DEF Joins
<1>10. f[x] \in 1..N /\ g[x] \in 1..N
  BY <1>1, <1>9
<1>11. /\ f2[x] = IF x = g[j] THEN f[j] ELSE f[x]
       /\ g2[x] = IF x = f[j] THEN g[j] ELSE g[x]
  BY <1>7, <1>8
<1>12. g2[f[j]] = g[j] /\ f2[g[j]] = f[j]
  BY <1>5, <1>8
<1>13. /\ x # g[j] => g2[f[x]] = x /\ f[x] # j
       /\ x # f[j] => f2[g[x]] = x /\ g[x] # j
  <2>1. x # g[j] => f[x] # f[j] /\ f[x] # j
    BY <1>5, <1>7, <1>9
  <2>2. x # f[j] => g[x] # g[j] /\ g[x] # j
    BY <1>5, <1>7, <1>9
  <2> QED BY <2>1, <2>2, <1>8, <1>9, <1>10
<1>14. f2[x] \in T \cup {n} /\ g2[f2[x]] = x
  BY <1>5, <1>9, <1>11, <1>12, <1>13
<1>15. g2[x] \in T \cup {n} /\ f2[g2[x]] = x
  BY <1>5, <1>9, <1>11, <1>12, <1>13
<1>16. f2[x] # n => x < f2[x]
  <2>1. CASE x = g[j]
    <3>1. x < j
      BY <2>1, <1>1, <1>5, <1>9
    <3>2. f2[x] = f[j]
      BY <2>1, <1>11
    <3>3. f2[x] # n => j < f[j]
      BY <3>2, <1>9
    <3>4. f[j] \in 1..N /\ x \in 1..N /\ j \in Nat
      BY <1>1, <1>5, <1>7
    <3> HIDE DEF T
    <3> QED BY <3>1, <3>2, <3>3, <3>4
  <2>2. CASE x # g[j]
    BY <2>2, <1>9, <1>11
  <2> QED BY <2>1, <2>2
<1>17. ASSUME NEW y \in T, x < y PROVE f2[x] # n /\ f2[x] <= y
  <2>1. f[x] # n /\ f[x] <= y /\ y # j /\ y \in 1..N
    BY <1>1, <1>7, <1>17 DEF Joins
  <2>2. x = g[j] => j < y
    BY <2>1, <1>1, <1>5
  <2>3. x = g[j] => f[j] # n /\ f[j] <= y
    BY <2>2, <1>2 DEF Joins
  <2> QED BY <2>1, <2>3, <1>11
<1> HIDE DEF T
<1> QED BY <1>14, <1>15, <1>16, <1>17 DEF Joins

\* f2 and g2 have j between the last node and n.
Inserts(f, g, f2, g2, n, S, j) ==
  /\ f2[j] = n /\ g2[j] = g[n] /\ f2[g[n]] = j /\ g2[n] = j
  /\ \A x \in S \cup {n} : (x # g[n] => f2[x] = f[x]) /\ (x # n => g2[x] = g[x])

\* A node that comes after all others is put at the end of a ring.
LEMMA RingAppend ==
  ASSUME NEW N \in Nat, NEW n, NEW S, NEW f, NEW g, NEW f2, NEW g2, NEW j,
         Above(n, S, N), j = N + 1, Ring(f, g, n, S), Inserts(f, g, f2, g2, n, S, j)
  PROVE  Ring(f2, g2, n, S \cup {j})
<1> DEFINE e == g[n]
           T == S \cup {j}
<1>1. Joins(f, g, n, S, n)
  BY DEF Ring
<1>2. e \in S \cup {n} /\ f[e] = n
  BY <1>1 DEF Joins
<1>3. (\A x \in S \cup {n} : x \in 1..N /\ x # j /\ x < j) /\ (\A x \in S : n < x) /\ n \in 1..N
  BY DEF Above
<1>4. /\ f2[j] = n /\ g2[n] = j /\ g2[j] = e /\ f2[e] = j
      /\ \A x \in S \cup {n} : x # e => f2[x] = f[x]
      /\ \A x \in S \cup {n} : x # n => g2[x] = g[x]
  BY DEF Inserts
<1>5. Joins(f, g, n, S, e)
  BY <1>2 DEF Ring
<1>6. \A y \in S : ~ (e < y)
  BY <1>2, <1>5 DEF Joins
<1>7. Joins(f2, g2, n, T, j)
  <2>1. f2[j] = n /\ g2[n] = j /\ g2[j] = e /\ f2[e] = j
    BY <1>4
  <2>2. \A y \in T : ~ (j < y)
    BY <1>3
  <2>3. n \in T \cup {n} /\ e \in T \cup {n}
    BY <1>2
  <2> HIDE DEF T, e
  <2> QED BY <2>1, <2>2, <2>3 DEF Joins
<1>8. ASSUME NEW x \in S \cup {n} PROVE Joins(f2, g2, n, T, x)
  <2>1. Joins(f, g, n, S, x) /\ x \in 1..N /\ x < j
    BY <1>3 DEF Ring
  <2>2. /\ f[x] \in S \cup {n} /\ g[f[x]] = x /\ g[x] \in S \cup {n} /\ f[g[x]] = x
        /\ (f[x] # n => x < f[x]) /\ (\A y \in S : x < y => f[x] # n /\ f[x] <= y)
    BY <2>1 DEF Joins
  <2>3. f2[x] = IF x = e THEN j ELSE f[x]
    BY <1>4
  <2>4. g2[x] = IF x = n THEN j ELSE g[x]
    BY <1>4
  <2>5. x # e => f[x] # n
    BY <2>2
  <2>6. x # n => g[x] # e
    BY <2>2, <1>2
  <2>7. f2[x] \in T \cup {n} /\ g2[f2[x]] = x
    <3>1. CASE x = e
      BY <3>1, <2>3, <1>4
    <3>2. CASE x # e
      <4>1. g2[f[x]] = g[f[x]]
        BY <3>2, <2>2, <2>5, <1>4
      <4> QED BY <4>1, <3>2, <2>2, <2>3
    <3> QED BY <3>1, <3>2
  <2>8. g2[x] \in T \cup {n} /\ f2[g2[x]] = x
    <3>1. CASE x = n
      BY <3>1, <2>4, <1>4
    <3>2. CASE x # n
      <4>1. f2[g[x]] = f[g[x]]
        BY <3>2, <2>2, <2>6, <1>4
      <4> QED BY <4>1, <3>2, <2>2, <2>4
    <3> QED BY <3>1, <3>2
  <2>9. f2[x] # n => x < f2[x]
    BY <2>1, <2>2, <2>3
  <2>10. ASSUME NEW y \in T, x < y PROVE f2[x] # n /\ f2[x] <= y
    <3>1. CASE x = e
      <4>1. y = j
        BY <3>1, <1>6, <2>10
      <4>2. n # j /\ j <= j
        <5>1. n \in 1..N
          BY <1>3
        <5> QED BY <5>1
      <4>3. f2[x] = j
        BY <3>1, <2>3
      <4> QED BY <4>1, <4>2, <4>3
    <3>2. CASE x # e
      <4>1. f2[x] = f[x] /\ f[x] # n /\ f[x] < j
        BY <3>2, <2>2, <2>3, <2>5, <1>3
      <4>2. y \in S => f[x] <= y
        BY <2>2, <2>10
      <4>3. f[x] \in 1..N
        BY <2>2, <1>3
      <4> QED BY <4>1, <4>2, <4>3
    <3> QED BY <3>1, <3>2
  <2> HIDE DEF T
  <2> QED BY <2>7, <2>8, <2>9, <2>10 DEF Joins
<1>9. T \cup {n} = (S \cup {n}) \cup {j}
  OBVIOUS
<1>10. ASSUME NEW x \in T \cup {n} PROVE Joins(f2, g2, n, T, x)
  <2> HIDE DEF T
  <2> QED BY <1>7, <1>8, <1>9
<1> HIDE DEF T
<1>11. Ring(f2, g2, n, T)
  BY <1>10 DEF Ring
<1> QED BY <1>11 DEF T

-----------------------------------------------------------------------------
(* The walks of a ring *)

\* s is the d nodes of S, or fewer, in order.
Sorted(s, S, N, d) ==
  /\ s \in Seq(1..N) /\ Len(s) <= d
  /\ \A k \in 1..Len(s) : s[k] \in S
  /\ \A x \in S : \E k \in 1..Len(s) : s[k] = x
  /\ \A j, k \in 1..Len(s) : j < k => s[j] < s[k]

\* There is such a sequence, by induction on the nodes after n.
LEMMA SortedExists ==
  ASSUME NEW N \in Nat, NEW n \in 1..N, NEW S, Above(n, S, N)
  PROVE  \E s : Sorted(s, S, N, N - n)
<1> DEFINE P == {d \in Nat : n + d <= N =>
                   \A Z : Above(n, Z, n + d) => \E s : Sorted(s, Z, N, d)}
<1>1. 0 \in P
  <2>1. SUFFICES ASSUME NEW Z, Above(n, Z, n + 0) PROVE \E s : Sorted(s, Z, N, 0)
    OBVIOUS
  <2>2. \A x \in Z : FALSE
    BY <2>1 DEF Above
  <2>3. Sorted(<<>>, Z, N, 0)
    <3>1. <<>> \in Seq(1..N) /\ Len(<<>>) = 0 /\ 1..0 = {}
      OBVIOUS
    <3> QED BY <2>2, <3>1 DEF Sorted
  <2> QED BY <2>3
<1>2. ASSUME NEW d \in Nat, d \in P PROVE d + 1 \in P
  <2> DEFINE z == n + d + 1
  <2>0. d + 1 \in Nat
    OBVIOUS
  <2>1. SUFFICES ASSUME n + (d + 1) <= N, NEW Z, Above(n, Z, n + (d + 1))
                 PROVE  \E s : Sorted(s, Z, N, d + 1)
    BY <2>0, ZenonT(30)
  <2> DEFINE Y == Z \ {z}
  <2>2. Above(n, Y, n + d)
    <3>1. n \in 1..(n + d)
      BY <2>1
    <3>2. ASSUME NEW x \in Y PROVE x \in 1..(n + d) /\ n < x
      <4>1. x \in 1..(n + (d + 1)) /\ n < x /\ x # z
        BY <2>1 DEF Above
      <4> QED BY <4>1
    <3> QED BY <3>1, <3>2 DEF Above
  <2>3. PICK s : Sorted(s, Y, N, d)
    <3>1. n + d <= N
      BY <2>1
    <3> HIDE DEF Y
    <3> QED BY <2>2, <3>1, <1>2
  <2>4. CASE z \notin Z
    <3>1. Y = Z
      BY <2>4
    <3>2. Sorted(s, Z, N, d + 1)
      BY <2>3, <3>1 DEF Sorted
    <3> QED BY <3>2
  <2>5. CASE z \in Z
    <3> DEFINE t == Append(s, z)
    <3>1. z \in 1..N /\ s \in Seq(1..N) /\ Len(s) <= d
      BY <2>1, <2>3 DEF Sorted
    <3>2. /\ t \in Seq(1..N) /\ Len(t) = Len(s) + 1 /\ t[Len(s) + 1] = z
          /\ \A k \in 1..Len(s) : t[k] = s[k]
      BY <3>1
    <3>3. (\A k \in 1..Len(s) : s[k] \in Y) /\ (\A x \in Y : \E k \in 1..Len(s) : s[k] = x)
          /\ \A j, k \in 1..Len(s) : j < k => s[j] < s[k]
      BY <2>3 DEF Sorted
    <3>4. \A x \in Y : x < z
      BY <2>2 DEF Above
    <3> HIDE DEF t, Y
    <3>5. \A k \in 1..Len(t) : k = Len(s) + 1 \/ k \in 1..Len(s)
      BY <3>1, <3>2
    <3>6. \A k \in 1..Len(t) : t[k] \in Z
      BY <3>2, <3>3, <3>5, <2>5 DEF Y
    <3>7. ASSUME NEW x \in Z PROVE \E k \in 1..Len(t) : t[k] = x
      <4>1. CASE x = z
        <5>1. Len(s) + 1 \in 1..Len(t)
          BY <3>1, <3>2
        <5> QED BY <4>1, <5>1, <3>2
      <4>2. CASE x # z
        <5>1. PICK k \in 1..Len(s) : s[k] = x
          BY <4>2, <3>3 DEF Y
        <5>2. k \in 1..Len(t)
          BY <3>1, <3>2
        <5> QED BY <5>1, <5>2, <3>2
      <4> QED BY <4>1, <4>2
    <3>8. ASSUME NEW j \in 1..Len(t), NEW k \in 1..Len(t), j < k PROVE t[j] < t[k]
      <4>1. j \in 1..Len(s)
        BY <3>8, <3>1, <3>2
      <4>2. t[j] = s[j] /\ s[j] < z
        BY <4>1, <3>2, <3>3, <3>4
      <4>3. CASE k = Len(s) + 1
        BY <4>2, <4>3, <3>2
      <4>4. CASE k \in 1..Len(s)
        BY <4>1, <4>4, <3>2, <3>3, <3>8
      <4> QED BY <4>3, <4>4, <3>5
    <3>9. Len(t) <= d + 1
      BY <3>1, <3>2
    <3>10. Sorted(t, Z, N, d + 1)
      BY <3>2, <3>6, <3>7, <3>8, <3>9 DEF Sorted
    <3> QED BY <3>10
  <2> QED BY <2>4, <2>5
<1>3. N - n \in P
  <2> HIDE DEF P
  <2> QED BY <1>1, <1>2, Induct
<1>4. n + (N - n) = N
  OBVIOUS
<1> QED BY <1>3, <1>4

\* A sequence backward.
Reverse(s) == [k \in 1..Len(s) |-> s[Len(s) + 1 - k]]

\* It has the same length and elements.
LEMMA ReverseSeq ==
  ASSUME NEW T, NEW s \in Seq(T)
  PROVE  /\ Reverse(s) \in Seq(T) /\ Len(Reverse(s)) = Len(s)
         /\ \A k \in 1..Len(s) : /\ Reverse(s)[k] = s[Len(s) + 1 - k]
                                 /\ Len(s) + 1 - k \in 1..Len(s)
<1>1. \A k \in 1..Len(s) : Len(s) + 1 - k \in 1..Len(s)
  OBVIOUS
<1>2. Reverse(s) \in [1..Len(s) -> T]
  BY <1>1 DEF Reverse
<1>3. Reverse(s) \in Seq(T) /\ Len(Reverse(s)) = Len(s)
  BY <1>2, SequenceOf
<1> QED BY <1>1, <1>3 DEF Reverse

\* The walks of a ring in both directions.
Circles(s, f, g, n, S, N) == /\ Sorted(s, S, N, N - n)
                             /\ Walk(f, n) = s /\ Walk(g, n) = Reverse(s)

\* s is what both links go through.
OnRing(s, f, g, n, S, N) == /\ Sorted(s, S, N, N - n) /\ Len(s) < N
                            /\ IsWalk(f, n, s) /\ IsWalk(g, n, Reverse(s))

\* A ring is walked in order by one link, and backward by the other.
LEMMA RingIsWalk ==
  ASSUME NEW N \in Nat, NEW f, NEW g, NEW n, NEW S, Above(n, S, N), Ring(f, g, n, S)
  PROVE  \E s : OnRing(s, f, g, n, S, N)
<1>0. n \in 1..N /\ n \in Nat /\ 1 <= n /\ n <= N
  BY DEF Above
<1>1. PICK s : Sorted(s, S, N, N - n)
  BY <1>0, SortedExists
<1> DEFINE L == Len(s)
<1>2. s \in Seq(1..N) /\ L \in Nat /\ L < N
  <2>1. s \in Seq(1..N) /\ L <= N - n
    BY <1>1 DEF Sorted
  <2> QED BY <2>1, <1>0
<1> HIDE DEF L
<1>3. ASSUME NEW k \in 1..L PROVE s[k] \in S /\ s[k] \in 1..N /\ n < s[k] /\ s[k] # n
  <2>1. s[k] \in S
    BY <1>1 DEF Sorted, L
  <2>2. s[k] \in 1..N /\ n < s[k]
    BY <2>1 DEF Above
  <2>3. s[k] # n
    BY <2>2, <1>0
  <2> QED BY <2>1, <2>2, <2>3
<1>4. \A j, k \in 1..L : s[j] < s[k] => j < k
  <2> TAKE j, k \in 1..L
  <2>1. k < j => s[k] < s[j]
    BY <1>1 DEF Sorted, L
  <2>2. s[j] \in 1..N /\ s[k] \in 1..N
    BY <1>3
  <2> QED BY <2>1, <2>2, <1>2
<1>5. ASSUME NEW k \in 0..L
      PROVE  At(n, s, k) \in S \cup {n} /\ At(n, s, k) \in 1..N
             /\ \A j \in 1..L : At(n, s, k) < s[j] <=> k < j
  <2>1. CASE k = 0
    <3>1. At(n, s, k) = n /\ \A j \in 1..L : n < s[j]
      BY <2>1, <1>3 DEF At
    <3>2. \A j \in 1..L : k < j
      BY <2>1
    <3> QED BY <3>1, <3>2, <1>0
  <2>2. CASE k # 0
    <3>1. k \in 1..L /\ At(n, s, k) = s[k]
      BY <2>2 DEF At
    <3>2. \A j \in 1..L : k < j => s[k] < s[j]
      BY <3>1, <1>1 DEF Sorted, L
    <3>3. \A j \in 1..L : s[k] < s[j] => k < j
      BY <3>1, <1>4
    <3>4. s[k] \in S /\ s[k] \in 1..N
      BY <3>1, <1>3
    <3> QED BY <3>1, <3>2, <3>3, <3>4
  <2> QED BY <2>1, <2>2
<1>6. ASSUME NEW k \in 0..L PROVE f[At(n, s, k)] = IF k = L THEN n ELSE s[k + 1]
  <2> DEFINE x == At(n, s, k)
  <2>1. Joins(f, g, n, S, x)
    BY <1>5 DEF Ring
  <2>2. (f[x] # n => x < f[x] /\ f[x] \in S) /\ \A y \in S : x < y => f[x] # n /\ f[x] <= y
    BY <2>1 DEF Joins
  <2> HIDE DEF x
  <2>3. CASE k = L
    <3>1. ASSUME f[x] # n PROVE FALSE
      <4>1. PICK j \in 1..L : s[j] = f[x]
        BY <1>1, <2>2, <3>1 DEF Sorted, L
      <4>2. k < j
        BY <4>1, <2>2, <3>1, <1>5 DEF x
      <4> QED BY <4>2, <2>3, <1>2
    <3> QED BY <3>1, <2>3 DEF x
  <2>4. CASE k # L
    <3>1. k + 1 \in 1..L /\ k < k + 1
      BY <2>4, <1>2
    <3>2. x < s[k + 1] /\ s[k + 1] \in S /\ s[k + 1] \in 1..N
      BY <3>1, <1>3, <1>5 DEF x
    <3>3. f[x] # n /\ f[x] <= s[k + 1] /\ f[x] \in S /\ x < f[x]
      BY <3>2, <2>2
    <3>4. PICK j \in 1..L : s[j] = f[x]
      BY <1>1, <3>3 DEF Sorted, L
    <3>5. k < j
      BY <3>3, <3>4, <1>5 DEF x
    <3>6. ~ (s[j] < s[k + 1])
      BY <3>1, <3>5, <1>4
    <3>7. s[j] \in 1..N
      BY <1>3
    <3>8. s[j] = s[k + 1]
      BY <3>2, <3>3, <3>4, <3>6, <3>7
    <3> QED BY <3>4, <3>8, <2>4 DEF x
  <2> QED BY <2>3, <2>4
<1>7. ASSUME NEW k \in 0..L PROVE g[IF k = L THEN n ELSE s[k + 1]] = At(n, s, k)
  <2>1. Joins(f, g, n, S, At(n, s, k))
    BY <1>5 DEF Ring
  <2>2. g[f[At(n, s, k)]] = At(n, s, k)
    BY <2>1 DEF Joins
  <2> QED BY <2>2, <1>6
<1>8. IsWalk(f, n, s)
  <2>1. ASSUME NEW k \in 1..L PROVE s[k] # n /\ s[k] = f[At(n, s, k - 1)]
    <3>1. k - 1 \in 0..L /\ k - 1 # L /\ (k - 1) + 1 = k
      BY <1>2
    <3>2. f[At(n, s, k - 1)] = IF k - 1 = L THEN n ELSE s[(k - 1) + 1]
      BY <3>1, <1>6, ZenonT(30)
    <3> QED BY <3>1, <3>2, <1>3
  <2>2. f[At(n, s, L)] = n
    <3>1. L \in 0..L
      BY <1>2
    <3> QED BY <3>1, <1>6
  <2> QED BY <2>1, <2>2 DEF IsWalk, L
<1> DEFINE r == Reverse(s)
<1>9. r \in Seq(1..N) /\ Len(r) = L /\ \A k \in 1..L : r[k] = s[L + 1 - k]
  <2>1. \A k \in 1..L : L + 1 - k \in 1..L
    BY <1>2
  <2>2. r \in [1..L -> 1..N]
    BY <2>1, <1>3 DEF Reverse, L
  <2>3. \A k \in 1..L : r[k] = s[L + 1 - k]
    BY DEF Reverse, L
  <2> HIDE DEF r
  <2> QED BY <2>2, <2>3, <1>2, SequenceOf
<1>10. IsWalk(g, n, r)
  <2>1. ASSUME NEW k \in 1..L PROVE r[k] # n /\ r[k] = g[At(n, r, k - 1)]
    <3>1. L + 1 - k \in 1..L /\ L - k \in 0..L /\ (L - k) + 1 = L + 1 - k
      BY <1>2
    <3>2. r[k] = s[L + 1 - k] /\ r[k] # n /\ r[k] = At(n, s, L + 1 - k)
      <4>1. r[k] = s[L + 1 - k] /\ s[L + 1 - k] # n /\ L + 1 - k # 0
        BY <3>1, <1>9, <1>3, SMTT(30)
      <4> QED BY <4>1 DEF At
    <3>3. CASE k = 1
      <4>1. At(n, r, k - 1) = n /\ L + 1 - k = L /\ L \in 0..L
        BY <3>3, <1>2 DEF At
      <4>2. g[n] = At(n, s, L)
        <5>1. g[IF L = L THEN n ELSE s[L + 1]] = At(n, s, L)
          BY <4>1, <1>7, ZenonT(30)
        <5> QED BY <5>1
      <4> QED BY <4>1, <4>2, <3>2
    <3>4. CASE k # 1
      <4>1. k - 1 \in 1..L /\ L + 1 - (k - 1) = (L + 1 - k) + 1 /\ L + 1 - k \in 0..L
            /\ L + 1 - k # L
        BY <3>4, <1>2
      <4>2. At(n, r, k - 1) = s[(L + 1 - k) + 1]
        <5>1. k - 1 # 0
          BY <3>4, <4>1
        <5>2. r[k - 1] = s[L + 1 - (k - 1)]
          BY <4>1, <1>9
        <5> QED BY <5>1, <5>2, <4>1 DEF At
      <4>3. g[s[(L + 1 - k) + 1]] = At(n, s, L + 1 - k)
        <5> DEFINE i == L + 1 - k
        <5>1. i \in 0..L /\ i # L
          BY <4>1
        <5> HIDE DEF i
        <5>2. g[s[i + 1]] = At(n, s, i)
          BY <5>1, <1>7
        <5> QED BY <5>2 DEF i
      <4> QED BY <4>2, <4>3, <3>2
    <3> QED BY <3>3, <3>4
  <2>2. g[At(n, r, L)] = n
    <3>1. CASE L = 0
      <4>1. 0 \in 0..L /\ At(n, r, L) = n /\ At(n, s, 0) = n
        BY <3>1 DEF At
      <4> QED BY <4>1, <3>1, <1>7
    <3>2. CASE L # 0
      <4>1. 0 \in 0..L /\ 0 # L /\ 0 + 1 = 1 /\ L \in 1..L /\ L + 1 - L = 1
        BY <3>2, <1>2
      <4>2. At(n, r, L) = s[1] /\ At(n, s, 0) = n
        BY <4>1, <1>9 DEF At
      <4>3. g[s[0 + 1]] = At(n, s, 0)
        BY <4>1, <1>7
      <4> QED BY <4>1, <4>2, <4>3
    <3> QED BY <3>1, <3>2
  <2> QED BY <2>1, <2>2, <1>9 DEF IsWalk
<1>11. OnRing(s, f, g, n, S, N)
  BY <1>1, <1>2, <1>8, <1>10 DEF OnRing, L
<1> QED BY <1>11

\* So Walk gives its nodes in order, and backward.
LEMMA RingWalks ==
  ASSUME NEW N \in Nat, NEW f \in [1..N -> 1..N], NEW g \in [1..N -> 1..N], NEW n, NEW S,
         Above(n, S, N), Ring(f, g, n, S)
  PROVE  \E s : Circles(s, f, g, n, S, N)
<1>1. PICK s : OnRing(s, f, g, n, S, N)
  BY RingIsWalk
<1>2. n \in 1..N
  BY DEF Above
<1>3. s \in Seq(1..N) /\ Len(s) < N /\ Len(s) \in Nat
  BY <1>1 DEF OnRing, Sorted
<1>4. Reverse(s) \in Seq(1..N) /\ Len(Reverse(s)) = Len(s)
  BY <1>3, ReverseSeq
<1>5. Walk(f, n) = s /\ Walk(g, n) = Reverse(s)
  BY <1>1, <1>2, <1>3, <1>4, WalkIs DEF OnRing
<1> QED BY <1>1, <1>5 DEF Circles, OnRing

-----------------------------------------------------------------------------
(* Loops over three nodes *)

\* The loops over the three other nodes of a row, written out.
LEMMA UnlinkRow3 ==
  ASSUME NEW l, NEW r, NEW a, NEW b, NEW c, Walk(l.right, r) = <<a, b, c>>
  PROVE  UnlinkRow(l, r) = Unlink(Unlink(Unlink(l, a), b), c)
<1> DEFINE s == Walk(l.right, r)
           x1 == Unlink(l, a)
           x2 == Unlink(x1, b)
           x3 == Unlink(x2, c)
           Is(u) == u = [k \in 0..Len(s) |-> IF k = 0 THEN l ELSE Unlink(u[k - 1], s[k])]
           after == CHOOSE u : Is(u)
           w == [k \in 0..3 |-> IF k = 0 THEN l ELSE IF k = 1 THEN x1 ELSE IF k = 2 THEN x2 ELSE x3]
<1>1. Len(s) = 3 /\ s[1] = a /\ s[2] = b /\ s[3] = c
  OBVIOUS
<1>2. UnlinkRow(l, r) = after[3]
  BY <1>1 DEF UnlinkRow, Along
<1>3. Is(w)
  <2>1. w[0] = l /\ w[1] = x1 /\ w[2] = x2 /\ w[3] = x3
    OBVIOUS
  <2> HIDE DEF x1, x2, x3, s
  <2>2. ASSUME NEW k \in 0..3 PROVE w[k] = IF k = 0 THEN l ELSE Unlink(w[k - 1], s[k])
    <3> HIDE DEF w
    <3>1. k = 0 \/ k = 1 \/ k = 2 \/ k = 3
      OBVIOUS
    <3> QED BY <3>1, <2>1, <1>1 DEF x1, x2, x3
  <2>3. w = [k \in 0..3 |-> w[k]]
    OBVIOUS
  <2> HIDE DEF w
  <2> QED BY <2>2, <2>3, <1>1
<1>4. Is(after)
  <2> HIDE DEF Is
  <2> QED BY <1>3
<1>5. after[0] = l /\ after[1] = x1 /\ after[2] = x2 /\ after[3] = x3
  <2> HIDE DEF after, s
  <2>1. ASSUME NEW k \in 0..3 PROVE after[k] = IF k = 0 THEN l ELSE Unlink(after[k - 1], s[k])
    BY <1>1, <1>4
  <2>2. after[0] = l
    BY <2>1
  <2>3. after[1] = x1
    BY <2>1, <2>2, <1>1
  <2>4. after[2] = x2
    BY <2>1, <2>3, <1>1
  <2>5. after[3] = x3
    BY <2>1, <2>4, <1>1
  <2> QED BY <2>2, <2>3, <2>4, <2>5
<1> QED BY <1>2, <1>5

\* The same for putting them back.
LEMMA RelinkRow3 ==
  ASSUME NEW l, NEW r, NEW a, NEW b, NEW c, Walk(l.left, r) = <<a, b, c>>
  PROVE  RelinkRow(l, r) = Relink(Relink(Relink(l, a), b), c)
<1> DEFINE s == Walk(l.left, r)
           x1 == Relink(l, a)
           x2 == Relink(x1, b)
           x3 == Relink(x2, c)
           Is(u) == u = [k \in 0..Len(s) |-> IF k = 0 THEN l ELSE Relink(u[k - 1], s[k])]
           after == CHOOSE u : Is(u)
           w == [k \in 0..3 |-> IF k = 0 THEN l ELSE IF k = 1 THEN x1 ELSE IF k = 2 THEN x2 ELSE x3]
<1>1. Len(s) = 3 /\ s[1] = a /\ s[2] = b /\ s[3] = c
  OBVIOUS
<1>2. RelinkRow(l, r) = after[3]
  BY <1>1 DEF RelinkRow, Along
<1>3. Is(w)
  <2>1. w[0] = l /\ w[1] = x1 /\ w[2] = x2 /\ w[3] = x3
    OBVIOUS
  <2> HIDE DEF x1, x2, x3, s
  <2>2. ASSUME NEW k \in 0..3 PROVE w[k] = IF k = 0 THEN l ELSE Relink(w[k - 1], s[k])
    <3> HIDE DEF w
    <3>1. k = 0 \/ k = 1 \/ k = 2 \/ k = 3
      OBVIOUS
    <3> QED BY <3>1, <2>1, <1>1 DEF x1, x2, x3
  <2>3. w = [k \in 0..3 |-> w[k]]
    OBVIOUS
  <2> HIDE DEF w
  <2> QED BY <2>2, <2>3, <1>1
<1>4. Is(after)
  <2> HIDE DEF Is
  <2> QED BY <1>3
<1>5. after[0] = l /\ after[1] = x1 /\ after[2] = x2 /\ after[3] = x3
  <2> HIDE DEF after, s
  <2>1. ASSUME NEW k \in 0..3 PROVE after[k] = IF k = 0 THEN l ELSE Relink(after[k - 1], s[k])
    BY <1>1, <1>4
  <2>2. after[0] = l
    BY <2>1
  <2>3. after[1] = x1
    BY <2>1, <2>2, <1>1
  <2>4. after[2] = x2
    BY <2>1, <2>3, <1>1
  <2>5. after[3] = x3
    BY <2>1, <2>4, <1>1
  <2> QED BY <2>2, <2>3, <2>4, <2>5
<1> QED BY <1>2, <1>5

\* The same for covering their columns.
LEMMA CoverRow3 ==
  ASSUME NEW l, NEW r, NEW a, NEW b, NEW c, Walk(l.right, r) = <<a, b, c>>
  PROVE  CoverRow(l, r) = CoverOf(CoverOf(CoverOf(l, a), b), c)
<1> DEFINE s == Walk(l.right, r)
           x1 == CoverOf(l, a)
           x2 == CoverOf(x1, b)
           x3 == CoverOf(x2, c)
           Is(u) == u = [k \in 0..Len(s) |-> IF k = 0 THEN l ELSE CoverOf(u[k - 1], s[k])]
           after == CHOOSE u : Is(u)
           w == [k \in 0..3 |-> IF k = 0 THEN l ELSE IF k = 1 THEN x1 ELSE IF k = 2 THEN x2 ELSE x3]
<1>1. Len(s) = 3 /\ s[1] = a /\ s[2] = b /\ s[3] = c
  OBVIOUS
<1>2. CoverRow(l, r) = after[3]
  BY <1>1 DEF CoverRow, Along
<1>3. Is(w)
  <2>1. w[0] = l /\ w[1] = x1 /\ w[2] = x2 /\ w[3] = x3
    OBVIOUS
  <2> HIDE DEF x1, x2, x3, s
  <2>2. ASSUME NEW k \in 0..3 PROVE w[k] = IF k = 0 THEN l ELSE CoverOf(w[k - 1], s[k])
    <3> HIDE DEF w
    <3>1. k = 0 \/ k = 1 \/ k = 2 \/ k = 3
      OBVIOUS
    <3> QED BY <3>1, <2>1, <1>1 DEF x1, x2, x3
  <2>3. w = [k \in 0..3 |-> w[k]]
    OBVIOUS
  <2> HIDE DEF w
  <2> QED BY <2>2, <2>3, <1>1
<1>4. Is(after)
  <2> HIDE DEF Is
  <2> QED BY <1>3
<1>5. after[0] = l /\ after[1] = x1 /\ after[2] = x2 /\ after[3] = x3
  <2> HIDE DEF after, s
  <2>1. ASSUME NEW k \in 0..3 PROVE after[k] = IF k = 0 THEN l ELSE CoverOf(after[k - 1], s[k])
    BY <1>1, <1>4
  <2>2. after[0] = l
    BY <2>1
  <2>3. after[1] = x1
    BY <2>1, <2>2, <1>1
  <2>4. after[2] = x2
    BY <2>1, <2>3, <1>1
  <2>5. after[3] = x3
    BY <2>1, <2>4, <1>1
  <2> QED BY <2>2, <2>3, <2>4, <2>5
<1> QED BY <1>2, <1>5

\* The same for uncovering them.
LEMMA UncoverRow3 ==
  ASSUME NEW l, NEW r, NEW a, NEW b, NEW c, Walk(l.left, r) = <<a, b, c>>
  PROVE  UncoverRow(l, r) = UncoverOf(UncoverOf(UncoverOf(l, a), b), c)
<1> DEFINE s == Walk(l.left, r)
           x1 == UncoverOf(l, a)
           x2 == UncoverOf(x1, b)
           x3 == UncoverOf(x2, c)
           Is(u) == u = [k \in 0..Len(s) |-> IF k = 0 THEN l ELSE UncoverOf(u[k - 1], s[k])]
           after == CHOOSE u : Is(u)
           w == [k \in 0..3 |-> IF k = 0 THEN l ELSE IF k = 1 THEN x1 ELSE IF k = 2 THEN x2 ELSE x3]
<1>1. Len(s) = 3 /\ s[1] = a /\ s[2] = b /\ s[3] = c
  OBVIOUS
<1>2. UncoverRow(l, r) = after[3]
  BY <1>1 DEF UncoverRow, Along
<1>3. Is(w)
  <2>1. w[0] = l /\ w[1] = x1 /\ w[2] = x2 /\ w[3] = x3
    OBVIOUS
  <2> HIDE DEF x1, x2, x3, s
  <2>2. ASSUME NEW k \in 0..3 PROVE w[k] = IF k = 0 THEN l ELSE UncoverOf(w[k - 1], s[k])
    <3> HIDE DEF w
    <3>1. k = 0 \/ k = 1 \/ k = 2 \/ k = 3
      OBVIOUS
    <3> QED BY <3>1, <2>1, <1>1 DEF x1, x2, x3
  <2>3. w = [k \in 0..3 |-> w[k]]
    OBVIOUS
  <2> HIDE DEF w
  <2> QED BY <2>2, <2>3, <1>1
<1>4. Is(after)
  <2> HIDE DEF Is
  <2> QED BY <1>3
<1>5. after[0] = l /\ after[1] = x1 /\ after[2] = x2 /\ after[3] = x3
  <2> HIDE DEF after, s
  <2>1. ASSUME NEW k \in 0..3 PROVE after[k] = IF k = 0 THEN l ELSE UncoverOf(after[k - 1], s[k])
    BY <1>1, <1>4
  <2>2. after[0] = l
    BY <2>1
  <2>3. after[1] = x1
    BY <2>1, <2>2, <1>1
  <2>4. after[2] = x2
    BY <2>1, <2>3, <1>1
  <2>5. after[3] = x3
    BY <2>1, <2>4, <1>1
  <2> QED BY <2>2, <2>3, <2>4, <2>5
<1> QED BY <1>2, <1>5

-----------------------------------------------------------------------------
(* Loops over a column *)

\* The links of a head are taken out, and put back.
HeadOut(l, c) == [l EXCEPT !.left[l.right[c]] = l.left[c], !.right[l.left[c]] = l.right[c]]
HeadIn(l, c) == [l EXCEPT !.left[l.right[c]] = c, !.right[l.left[c]] = c]

\* The states between the rounds of a loop over a column.
Unlinks(x, l, s, V) == /\ x \in [0..Len(s) -> V] /\ x[0] = l
                       /\ \A k \in 1..Len(s) : x[k] = UnlinkRow(x[k - 1], s[k])
Relinks(x, l, s, V) == /\ x \in [0..Len(s) -> V] /\ x[0] = l
                       /\ \A k \in 1..Len(s) : x[k] = RelinkRow(x[k - 1], s[k])

\* cover() is its loop over the rows of a column.
LEMMA CoverLoop ==
  ASSUME NEW l, NEW c, NEW T, NEW s \in Seq(T), Walk(l.down, c) = s,
         NEW V, NEW x, Unlinks(x, HeadOut(l, c), s, V)
  PROVE  cover(l, c) = x[Len(s)]
<1> DEFINE z == HeadOut(l, c)
           Is(u) == u = [k \in 0..Len(s) |-> IF k = 0 THEN z ELSE UnlinkRow(u[k - 1], s[k])]
           after == CHOOSE u : Is(u)
<1>0. /\ x \in [0..Len(s) -> V] /\ x[0] = z
      /\ \A k \in 1..Len(s) : x[k] = UnlinkRow(x[k - 1], s[k])
  BY DEF Unlinks
<1>1. cover(l, c) = after[Len(s)]
  BY DEF HeadOut, cover, Along
<1> HIDE DEF z
<1>2. Is(x)
  <2>1. ASSUME NEW k \in 0..Len(s) PROVE x[k] = IF k = 0 THEN z ELSE UnlinkRow(x[k - 1], s[k])
    <3>1. k = 0 \/ k \in 1..Len(s)
      OBVIOUS
    <3> QED BY <3>1, <1>0
  <2>2. x = [k \in 0..Len(s) |-> x[k]]
    BY <1>0
  <2> QED BY <2>1, <2>2, ZenonT(30)
<1>3. Is(after)
  <2> HIDE DEF Is
  <2> QED BY <1>2
<1> HIDE DEF after
<1>4. \A k \in 0..Len(s) : after[k] = IF k = 0 THEN z ELSE UnlinkRow(after[k - 1], s[k])
  BY <1>3, ZenonT(30)
<1> DEFINE P == {k \in Nat : k <= Len(s) => after[k] = x[k]}
<1>5. 0 \in P
  <2>1. 0 \in 0..Len(s)
    OBVIOUS
  <2>2. after[0] = z
    BY <1>4, <2>1, ZenonT(30)
  <2> QED BY <2>2, <1>0
<1>6. ASSUME NEW k \in Nat, k \in P PROVE k + 1 \in P
  <2>1. SUFFICES ASSUME k + 1 <= Len(s) PROVE after[k + 1] = x[k + 1]
    OBVIOUS
  <2>2. k + 1 \in 0..Len(s) /\ k + 1 # 0 /\ (k + 1) - 1 = k /\ k + 1 \in 1..Len(s) /\ k <= Len(s)
    BY <2>1
  <2>3. after[k + 1] = UnlinkRow(after[k], s[k + 1])
    BY <1>4, <2>2, ZenonT(30)
  <2>4. x[k + 1] = UnlinkRow(x[k], s[k + 1])
    BY <1>0, <2>2, ZenonT(30)
  <2>5. after[k] = x[k]
    BY <1>6, <2>2
  <2> QED BY <2>3, <2>4, <2>5
<1>7. Len(s) \in P
  <2> HIDE DEF P
  <2>1. Len(s) \in Nat
    OBVIOUS
  <2> QED BY <1>5, <1>6, <2>1, Induct
<1> QED BY <1>1, <1>7

\* uncover() is its loop, and puts the head back.
LEMMA UncoverLoop ==
  ASSUME NEW l, NEW c, NEW T, NEW s \in Seq(T), Walk(l.up, c) = s,
         NEW V, NEW x, Relinks(x, l, s, V)
  PROVE  uncover(l, c) = HeadIn(x[Len(s)], c)
<1> DEFINE z == l
           Is(u) == u = [k \in 0..Len(s) |-> IF k = 0 THEN z ELSE RelinkRow(u[k - 1], s[k])]
           after == CHOOSE u : Is(u)
<1>0. /\ x \in [0..Len(s) -> V] /\ x[0] = z
      /\ \A k \in 1..Len(s) : x[k] = RelinkRow(x[k - 1], s[k])
  BY DEF Relinks
<1>1. uncover(l, c) = HeadIn(after[Len(s)], c)
  BY DEF HeadIn, uncover, Along
<1> HIDE DEF z
<1>2. Is(x)
  <2>1. ASSUME NEW k \in 0..Len(s) PROVE x[k] = IF k = 0 THEN z ELSE RelinkRow(x[k - 1], s[k])
    <3>1. k = 0 \/ k \in 1..Len(s)
      OBVIOUS
    <3> QED BY <3>1, <1>0
  <2>2. x = [k \in 0..Len(s) |-> x[k]]
    BY <1>0
  <2> QED BY <2>1, <2>2, ZenonT(30)
<1>3. Is(after)
  <2> HIDE DEF Is
  <2> QED BY <1>2
<1> HIDE DEF after
<1>4. \A k \in 0..Len(s) : after[k] = IF k = 0 THEN z ELSE RelinkRow(after[k - 1], s[k])
  BY <1>3, ZenonT(30)
<1> DEFINE P == {k \in Nat : k <= Len(s) => after[k] = x[k]}
<1>5. 0 \in P
  <2>1. 0 \in 0..Len(s)
    OBVIOUS
  <2>2. after[0] = z
    BY <1>4, <2>1, ZenonT(30)
  <2> QED BY <2>2, <1>0
<1>6. ASSUME NEW k \in Nat, k \in P PROVE k + 1 \in P
  <2>1. SUFFICES ASSUME k + 1 <= Len(s) PROVE after[k + 1] = x[k + 1]
    OBVIOUS
  <2>2. k + 1 \in 0..Len(s) /\ k + 1 # 0 /\ (k + 1) - 1 = k /\ k + 1 \in 1..Len(s) /\ k <= Len(s)
    BY <2>1
  <2>3. after[k + 1] = RelinkRow(after[k], s[k + 1])
    BY <1>4, <2>2, ZenonT(30)
  <2>4. x[k + 1] = RelinkRow(x[k], s[k + 1])
    BY <1>0, <2>2, ZenonT(30)
  <2>5. after[k] = x[k]
    BY <1>6, <2>2
  <2> QED BY <2>3, <2>4, <2>5
<1>7. Len(s) \in P
  <2> HIDE DEF P
  <2>1. Len(s) \in Nat
    OBVIOUS
  <2> QED BY <1>5, <1>6, <2>1, Induct
<1> QED BY <1>1, <1>7

-----------------------------------------------------------------------------
(* The matrix *)

\* A matrix of N nodes.
Mat(N) == [left : [1..N -> 1..N], right : [1..N -> 1..N], up : [1..N -> 1..N],
           down : [1..N -> 1..N], col : [1..N -> 1..N], name : [1..N -> Int],
           size : [1..N -> Int]]

\* The nodes of rows, and the heads of columns without the root.
RowNodes(l) == {n \in DOMAIN l.col : l.col[n] # n}
Heads(l) == {n \in DOMAIN l.col : n # Root /\ l.col[n] = n}

\* A row has its nodes in the order r, a, b, d, and each in a column of its own.
IsRow(l, r, a, b, d) ==
  /\ {r, a, b, d} \subseteq RowNodes(l)
  /\ l.right[r] = a /\ l.right[a] = b /\ l.right[b] = d /\ l.right[d] = r
  /\ l.left[a] = r /\ l.left[b] = a /\ l.left[d] = b /\ l.left[r] = d
  /\ l.col[r] # l.col[a] /\ l.col[r] # l.col[b] /\ l.col[r] # l.col[d]
  /\ l.col[a] # l.col[b] /\ l.col[a] # l.col[d] /\ l.col[b] # l.col[d]

\* Every node but the root is a head, or in a row of four with a head before it.
Shape(l, N) ==
  /\ N \in Nat /\ 1 \in 1..N /\ l \in Mat(N) /\ l.col[1] = 1
  /\ \A n \in RowNodes(l) : l.col[n] \in Heads(l) /\ l.col[n] < n
  /\ \A n \in RowNodes(l) : \E a, b, d : IsRow(l, n, a, b, d)

\* Only links up and down, and sizes, differ.
SameRows(l, m) == m.col = l.col /\ m.name = l.name /\ m.left = l.left /\ m.right = l.right

\* The fields of a matrix.
LEMMA MatFields ==
  ASSUME NEW N, NEW l \in Mat(N)
  PROVE  /\ l.left \in [1..N -> 1..N] /\ l.right \in [1..N -> 1..N] /\ l.up \in [1..N -> 1..N]
         /\ l.down \in [1..N -> 1..N] /\ l.col \in [1..N -> 1..N] /\ l.name \in [1..N -> Int]
         /\ l.size \in [1..N -> Int] /\ DOMAIN l.col = 1..N
         /\ l = [left |-> l.left, right |-> l.right, up |-> l.up, down |-> l.down,
                 col |-> l.col, name |-> l.name, size |-> l.size]
BY DEF Mat

\* Matrices are equal when their fields are.
LEMMA MatEqual ==
  ASSUME NEW N, NEW l \in Mat(N), NEW m \in Mat(N), SameRows(l, m),
         l.up = m.up, l.down = m.down, l.size = m.size
  PROVE  l = m
BY DEF SameRows, Mat

\* The fields that taking out a node changes.
LEMMA UnlinkFields ==
  ASSUME NEW N, NEW l \in Mat(N), NEW j \in 1..N
  PROVE  /\ Unlink(l, j) \in Mat(N) /\ SameRows(l, Unlink(l, j))
         /\ Unlink(l, j).up = [l.up EXCEPT ![l.down[j]] = l.up[j]]
         /\ Unlink(l, j).down = [l.down EXCEPT ![l.up[j]] = l.down[j]]
         /\ Unlink(l, j).size = [l.size EXCEPT ![l.col[j]] = l.size[l.col[j]] - 1]
<1> DEFINE U == [l.up EXCEPT ![l.down[j]] = l.up[j]]
           D == [l.down EXCEPT ![l.up[j]] = l.down[j]]
           Z == [l.size EXCEPT ![l.col[j]] = l.size[l.col[j]] - 1]
<1>1. Unlink(l, j) = [l EXCEPT !.up = U, !.down = D, !.size = Z]
  BY DEF Unlink, Mat
<1>2. /\ l.up \in [1..N -> 1..N] /\ l.down \in [1..N -> 1..N] /\ l.size \in [1..N -> Int]
      /\ l.up[j] \in 1..N /\ l.down[j] \in 1..N /\ l.col[j] \in 1..N /\ l.size[l.col[j]] \in Int
  BY DEF Mat
<1>3. U \in [1..N -> 1..N] /\ D \in [1..N -> 1..N] /\ Z \in [1..N -> Int]
  BY <1>2
<1> HIDE DEF U, D, Z
<1>4. [l EXCEPT !.up = U, !.down = D, !.size = Z] \in Mat(N)
  BY <1>3 DEF Mat
<1>5. Unlink(l, j).up = U /\ Unlink(l, j).down = D /\ Unlink(l, j).size = Z /\ SameRows(l, Unlink(l, j))
  BY <1>1 DEF Mat, SameRows
<1> QED BY <1>1, <1>4, <1>5 DEF U, D, Z

\* The fields that putting it back changes.
LEMMA RelinkFields ==
  ASSUME NEW N, NEW l \in Mat(N), NEW j \in 1..N
  PROVE  /\ Relink(l, j) \in Mat(N) /\ SameRows(l, Relink(l, j))
         /\ Relink(l, j).up = [l.up EXCEPT ![l.down[j]] = j]
         /\ Relink(l, j).down = [l.down EXCEPT ![l.up[j]] = j]
         /\ Relink(l, j).size = [l.size EXCEPT ![l.col[j]] = l.size[l.col[j]] + 1]
<1> DEFINE U == [l.up EXCEPT ![l.down[j]] = j]
           D == [l.down EXCEPT ![l.up[j]] = j]
           Z == [l.size EXCEPT ![l.col[j]] = l.size[l.col[j]] + 1]
<1>1. Relink(l, j) = [l EXCEPT !.up = U, !.down = D, !.size = Z]
  BY DEF Relink, Mat
<1>2. /\ l.up \in [1..N -> 1..N] /\ l.down \in [1..N -> 1..N] /\ l.size \in [1..N -> Int]
      /\ l.up[j] \in 1..N /\ l.down[j] \in 1..N /\ l.col[j] \in 1..N /\ l.size[l.col[j]] \in Int
  BY DEF Mat
<1>3. U \in [1..N -> 1..N] /\ D \in [1..N -> 1..N] /\ Z \in [1..N -> Int]
  BY <1>2
<1> HIDE DEF U, D, Z
<1>4. [l EXCEPT !.up = U, !.down = D, !.size = Z] \in Mat(N)
  BY <1>3 DEF Mat
<1>5. Relink(l, j).up = U /\ Relink(l, j).down = D /\ Relink(l, j).size = Z /\ SameRows(l, Relink(l, j))
  BY <1>1 DEF Mat, SameRows
<1> QED BY <1>1, <1>4, <1>5 DEF U, D, Z

\* What was taken out of its column last is put back as it was.
LEMMA RelinkUnlink ==
  ASSUME NEW N, NEW l \in Mat(N), NEW j \in 1..N, l.down[l.up[j]] = j, l.up[l.down[j]] = j
  PROVE  Relink(Unlink(l, j), j) = l
<1> DEFINE q == Unlink(l, j)
           p == Relink(q, j)
<1>1. /\ q \in Mat(N) /\ SameRows(l, q)
      /\ q.up = [l.up EXCEPT ![l.down[j]] = l.up[j]]
      /\ q.down = [l.down EXCEPT ![l.up[j]] = l.down[j]]
      /\ q.size = [l.size EXCEPT ![l.col[j]] = l.size[l.col[j]] - 1]
  BY UnlinkFields
<1> HIDE DEF q
<1>2. /\ p \in Mat(N) /\ SameRows(q, p)
      /\ p.up = [q.up EXCEPT ![q.down[j]] = j]
      /\ p.down = [q.down EXCEPT ![q.up[j]] = j]
      /\ p.size = [q.size EXCEPT ![q.col[j]] = q.size[q.col[j]] + 1]
  <2>1. q \in Mat(N)
    BY <1>1
  <2> QED BY <2>1, RelinkFields
<1> HIDE DEF p
<1>3. SameRows(l, p) /\ q.col = l.col
  BY <1>1, <1>2 DEF SameRows
<1>4. /\ l.up \in [1..N -> 1..N] /\ l.down \in [1..N -> 1..N] /\ l.col \in [1..N -> 1..N]
      /\ l.size \in [1..N -> Int]
  BY MatFields
<1>5. q.down[j] = l.down[j] /\ q.up[j] = l.up[j]
  BY <1>1, <1>4
<1>6. p.up = l.up
  BY <1>1, <1>2, <1>4, <1>5
<1>7. p.down = l.down
  BY <1>1, <1>2, <1>4, <1>5
<1>8. p.size = l.size
  <2>1. p.size = [q.size EXCEPT ![l.col[j]] = q.size[l.col[j]] + 1] /\ l.col[j] \in 1..N
    BY <1>2, <1>3, <1>4
  <2> QED BY <2>1, <1>1, <1>4
<1>9. p = l
  BY <1>2, <1>3, <1>6, <1>7, <1>8, MatEqual
<1> QED BY <1>9 DEF p, q

-----------------------------------------------------------------------------
(* Rows *)

\* The nodes of the row of n.
RowOf(l, n) == {n, l.right[n], l.right[l.right[n]], l.right[l.right[l.right[n]]]}

\* A row may be read from any of its nodes.
LEMMA RowTurns ==
  ASSUME NEW l, NEW r, NEW a, NEW b, NEW d, IsRow(l, r, a, b, d)
  PROVE  IsRow(l, a, b, d, r)
BY DEF IsRow

\* These are its nodes.
LEMMA RowIs ==
  ASSUME NEW l, NEW r, NEW a, NEW b, NEW d, IsRow(l, r, a, b, d)
  PROVE  /\ RowOf(l, r) = {r, a, b, d} /\ RowOf(l, a) = {r, a, b, d}
         /\ RowOf(l, b) = {r, a, b, d} /\ RowOf(l, d) = {r, a, b, d}
BY DEF IsRow, RowOf

\* The loops from a node of a row go through the three others.
LEMMA RowWalks ==
  ASSUME NEW N, NEW l, Shape(l, N), NEW r, NEW a, NEW b, NEW d, IsRow(l, r, a, b, d)
  PROVE  Walk(l.right, r) = <<a, b, d>> /\ Walk(l.left, r) = <<d, b, a>>
<1>1. /\ N \in Nat /\ l.left \in [1..N -> 1..N] /\ l.right \in [1..N -> 1..N]
      /\ DOMAIN l.col = 1..N /\ l.col[1] = 1
  BY DEF Shape, Mat
<1>2. /\ r \in 1..N /\ a \in 1..N /\ b \in 1..N /\ d \in 1..N
      /\ r # 1 /\ a # 1 /\ b # 1 /\ d # 1
  BY <1>1 DEF IsRow, RowNodes
<1>3. /\ r # a /\ r # b /\ r # d /\ a # b /\ a # d /\ b # d
      /\ l.right[r] = a /\ l.right[a] = b /\ l.right[b] = d /\ l.right[d] = r
      /\ l.left[a] = r /\ l.left[b] = a /\ l.left[d] = b /\ l.left[r] = d
  BY DEF IsRow
<1>4. 3 < N
  BY <1>1, <1>2, <1>3
<1>5. ASSUME NEW f, NEW x, NEW y, NEW z, f[r] = x, f[x] = y, f[y] = z, f[z] = r,
             x # r, y # r, z # r
      PROVE  IsWalk(f, r, <<x, y, z>>)
  <2> DEFINE s == <<x, y, z>>
  <2>1. Len(s) = 3 /\ s[1] = x /\ s[2] = y /\ s[3] = z
    OBVIOUS
  <2> HIDE DEF s
  <2>2. ASSUME NEW k \in 1..3 PROVE s[k] # r /\ s[k] = f[At(r, s, k - 1)]
    <3>1. k = 1 \/ k = 2 \/ k = 3
      OBVIOUS
    <3> QED BY <3>1, <2>1, <1>5 DEF At
  <2>3. f[At(r, s, 3)] = r
    BY <2>1, <1>5 DEF At
  <2>4. IsWalk(f, r, s)
    BY <2>1, <2>2, <2>3 DEF IsWalk
  <2> QED BY <2>4 DEF s
<1>6. IsWalk(l.right, r, <<a, b, d>>) /\ IsWalk(l.left, r, <<d, b, a>>)
  BY <1>3, <1>5
<1>7. /\ <<a, b, d>> \in Seq(1..N) /\ Len(<<a, b, d>>) = 3
      /\ <<d, b, a>> \in Seq(1..N) /\ Len(<<d, b, a>>) = 3
  BY <1>2
<1> QED BY <1>1, <1>2, <1>4, <1>6, <1>7, WalkIs

\* The nodes of the rows that have all their columns in O.
Live(l, O) == {n \in RowNodes(l) : \A j \in RowOf(l, n) : l.col[j] \in O}

\* A row is live by its columns, all of its nodes at once.
LEMMA LiveRow ==
  ASSUME NEW l, NEW O, NEW r, NEW a, NEW b, NEW d, IsRow(l, r, a, b, d)
  PROVE  /\ r \in Live(l, O) <=> /\ l.col[r] \in O /\ l.col[a] \in O
                                 /\ l.col[b] \in O /\ l.col[d] \in O
         /\ (a \in Live(l, O) <=> r \in Live(l, O)) /\ (b \in Live(l, O) <=> r \in Live(l, O))
         /\ (d \in Live(l, O) <=> r \in Live(l, O))
<1>1. r \in RowNodes(l) /\ a \in RowNodes(l) /\ b \in RowNodes(l) /\ d \in RowNodes(l)
  BY DEF IsRow
<1> QED BY <1>1, RowIs DEF Live

\* m has the rows of l.
Keeps(l, m, N) == /\ m \in Mat(N) /\ m.col = l.col /\ m.name = l.name
                  /\ \A n \in RowNodes(l) : m.left[n] = l.left[n] /\ m.right[n] = l.right[n]

\* Keeping the rows is transitive.
LEMMA KeepsTrans ==
  ASSUME NEW N, NEW l, NEW m, NEW q, Keeps(l, m, N), Keeps(m, q, N)
  PROVE  Keeps(l, q, N)
<1>1. RowNodes(m) = RowNodes(l)
  BY DEF Keeps, RowNodes
<1> QED BY <1>1 DEF Keeps

\* It follows when only columns change.
LEMMA KeepsSame ==
  ASSUME NEW N, NEW l, NEW m \in Mat(N), SameRows(l, m)
  PROVE  Keeps(l, m, N)
BY DEF SameRows, Keeps

\* The nodes and rows are the same then.
LEMMA KeptRow ==
  ASSUME NEW N, NEW l, NEW m, Keeps(l, m, N)
  PROVE  /\ RowNodes(m) = RowNodes(l) /\ Heads(m) = Heads(l)
         /\ \A r, a, b, d : IsRow(l, r, a, b, d) => IsRow(m, r, a, b, d)
<1>1. m.col = l.col
  BY DEF Keeps
<1>2. RowNodes(m) = RowNodes(l) /\ Heads(m) = Heads(l)
  BY <1>1 DEF RowNodes, Heads
<1>3. ASSUME NEW r, NEW a, NEW b, NEW d, IsRow(l, r, a, b, d) PROVE IsRow(m, r, a, b, d)
  <2>1. r \in RowNodes(l) /\ a \in RowNodes(l) /\ b \in RowNodes(l) /\ d \in RowNodes(l)
    BY <1>3 DEF IsRow
  <2>2. /\ m.left[r] = l.left[r] /\ m.right[r] = l.right[r]
        /\ m.left[a] = l.left[a] /\ m.right[a] = l.right[a]
        /\ m.left[b] = l.left[b] /\ m.right[b] = l.right[b]
        /\ m.left[d] = l.left[d] /\ m.right[d] = l.right[d]
    BY <2>1 DEF Keeps
  <2> QED BY <1>1, <1>2, <1>3, <2>2 DEF IsRow
<1> QED BY <1>2, <1>3

\* So is the shape.
LEMMA KeptShape ==
  ASSUME NEW N, NEW l, NEW m, Keeps(l, m, N), Shape(l, N)
  PROVE  Shape(m, N)
<1>1. /\ RowNodes(m) = RowNodes(l) /\ Heads(m) = Heads(l)
      /\ \A r, a, b, d : IsRow(l, r, a, b, d) => IsRow(m, r, a, b, d)
  BY KeptRow
<1>2. m.col = l.col /\ m \in Mat(N)
  BY DEF Keeps
<1>3. \A n \in RowNodes(m) : \E a, b, d : IsRow(m, n, a, b, d)
  BY <1>1 DEF Shape
<1> QED BY <1>1, <1>2, <1>3 DEF Shape

\* And what is live.
LEMMA KeptLive ==
  ASSUME NEW N, NEW l, NEW m, Keeps(l, m, N), Shape(l, N), NEW O
  PROVE  Live(m, O) = Live(l, O)
<1>1. /\ RowNodes(m) = RowNodes(l) /\ m.col = l.col
      /\ \A r, a, b, d : IsRow(l, r, a, b, d) => IsRow(m, r, a, b, d)
  BY KeptRow DEF Keeps
<1>2. ASSUME NEW n \in RowNodes(l) PROVE n \in Live(m, O) <=> n \in Live(l, O)
  <2>1. PICK a, b, d : IsRow(l, n, a, b, d)
    BY DEF Shape
  <2>2. IsRow(m, n, a, b, d)
    BY <2>1, <1>1
  <2>3. RowOf(l, n) = {n, a, b, d} /\ RowOf(m, n) = {n, a, b, d}
    BY <2>1, <2>2, RowIs
  <2> QED BY <1>1, <2>3 DEF Live
<1> QED BY <1>1, <1>2 DEF Live

-----------------------------------------------------------------------------
(* Columns *)

\* Those of G that are in column c.
InCol(l, G, c) == {n \in G : l.col[n] = c}

\* Column c links the nodes of G that are in it.
LinkedAt(l, c, G) == /\ Ring(l.down, l.up, c, InCol(l, G, c))
                     /\ l.size[c] = Cardinality(InCol(l, G, c))

\* Every column of O does.
Linked(l, O, G) == O \subseteq Heads(l) /\ G \subseteq RowNodes(l) /\ \A c \in O : LinkedAt(l, c, G)

\* The nodes of a column come after its head.
Frame(l, N) == /\ N \in Nat /\ 1 \in 1..N /\ l \in Mat(N) /\ l.col[1] = 1
               /\ \A n \in RowNodes(l) : l.col[n] \in Heads(l) /\ l.col[n] < n

\* The two parts of a shape.
LEMMA ShapeIs ==
  \A l, N : Shape(l, N) <=>
    Frame(l, N) /\ \A n \in RowNodes(l) : \E a, b, d : IsRow(l, n, a, b, d)
BY DEF Shape, Frame

\* The nodes of a column are finitely many, after its head.
LEMMA ColAbove ==
  ASSUME NEW N, NEW l, Frame(l, N), NEW c \in Heads(l), NEW G, G \subseteq RowNodes(l)
  PROVE  Above(c, InCol(l, G, c), N) /\ IsFiniteSet(InCol(l, G, c))
<1>1. N \in Nat /\ DOMAIN l.col = 1..N /\ \A n \in RowNodes(l) : n \in 1..N /\ l.col[n] < n
  BY DEF Frame, Mat, RowNodes
<1>2. c \in 1..N
  BY <1>1 DEF Heads
<1>3. \A n \in InCol(l, G, c) : n \in 1..N /\ c < n
  BY <1>1 DEF InCol
<1>4. InCol(l, G, c) \subseteq 1..N
  BY <1>3
<1>5. IsFiniteSet(1..N)
  BY <1>1, FS_Interval
<1>6. IsFiniteSet(InCol(l, G, c))
  BY <1>4, <1>5, FS_Subset
<1> QED BY <1>2, <1>3, <1>6 DEF Above

\* A node is taken out of its column, and putting it back undoes that.
LEMMA UnlinkStep ==
  ASSUME NEW N, NEW l, Shape(l, N), NEW O, NEW G, Linked(l, O, G),
         NEW j \in G, l.col[j] \in O
  PROVE  /\ Linked(Unlink(l, j), O, G \ {j}) /\ Relink(Unlink(l, j), j) = l
         /\ Unlink(l, j) \in Mat(N) /\ SameRows(l, Unlink(l, j))
<1> DEFINE q == Unlink(l, j)
           c == l.col[j]
<1>1. l \in Mat(N) /\ j \in 1..N /\ O \subseteq Heads(l) /\ G \subseteq RowNodes(l)
  BY DEF Shape, Mat, Linked, RowNodes
<1>2. /\ q \in Mat(N) /\ SameRows(l, q)
      /\ q.up = [l.up EXCEPT ![l.down[j]] = l.up[j]]
      /\ q.down = [l.down EXCEPT ![l.up[j]] = l.down[j]]
      /\ q.size = [l.size EXCEPT ![l.col[j]] = l.size[l.col[j]] - 1]
  BY <1>1, UnlinkFields
<1> HIDE DEF q
<1>3. q.col = l.col /\ Heads(q) = Heads(l) /\ RowNodes(q) = RowNodes(l)
  BY <1>2 DEF SameRows, Heads, RowNodes
<1>4. /\ l.up \in [1..N -> 1..N] /\ l.down \in [1..N -> 1..N] /\ l.size \in [1..N -> Int]
  BY <1>1 DEF Mat
<1>5. Passes(l.down, l.up, q.down, q.up, j, N)
  <2>1. ASSUME NEW x \in 1..N PROVE /\ q.down[x] = IF x = l.up[j] THEN l.down[j] ELSE l.down[x]
                                    /\ q.up[x] = IF x = l.down[j] THEN l.up[j] ELSE l.up[x]
    BY <1>2, <1>4
  <2> QED BY <2>1 DEF Passes
<1>6. \A x \in 1..N : q.size[x] = IF x = c THEN l.size[x] - 1 ELSE l.size[x]
  BY <1>2, <1>4
<1>7. j \in InCol(l, G, c) /\ Ring(l.down, l.up, c, InCol(l, G, c)) /\ Above(c, InCol(l, G, c), N)
      /\ IsFiniteSet(InCol(l, G, c)) /\ l.size[c] = Cardinality(InCol(l, G, c)) /\ N \in Nat
  <2>1. Above(c, InCol(l, G, c), N) /\ IsFiniteSet(InCol(l, G, c))
    BY <1>1, ColAbove, ShapeIs
  <2> QED BY <2>1 DEF InCol, Linked, LinkedAt, Shape
<1>8. Joins(l.down, l.up, c, InCol(l, G, c), j)
  BY <1>7 DEF Ring
<1>9. Relink(q, j) = l
  <2>1. l.down[l.up[j]] = j /\ l.up[l.down[j]] = j
    BY <1>8 DEF Joins
  <2> QED BY <2>1, <1>1, RelinkUnlink DEF q
<1>10. ASSUME NEW x \in O PROVE LinkedAt(q, x, G \ {j})
  <2>1. InCol(q, G \ {j}, x) = InCol(l, G, x) \ {j}
    BY <1>3 DEF InCol
  <2>2. CASE x = c
    <3>1. Ring(q.down, q.up, c, InCol(l, G, c) \ {j})
      BY <1>5, <1>7, RingRemove
    <3>2. Cardinality(InCol(l, G, c) \ {j}) = Cardinality(InCol(l, G, c)) - 1
      BY <1>7, FS_RemoveElement
    <3>3. c \in 1..N
      BY <1>7 DEF Above
    <3>4. q.size[c] = l.size[c] - 1
      BY <3>3, <1>6
    <3> QED BY <2>1, <2>2, <3>1, <3>2, <3>4, <1>7 DEF LinkedAt
  <2>3. CASE x # c
    <3>1. InCol(l, G, x) \ {j} = InCol(l, G, x)
      BY <2>3 DEF InCol
    <3>2. LinkedAt(l, x, G) /\ x \in Heads(l)
      BY <1>1 DEF Linked
    <3>3. Above(x, InCol(l, G, x), N)
      BY <3>2, <1>1, ColAbove, ShapeIs
    <3>4. ASSUME NEW y \in InCol(l, G, x) \cup {x}
          PROVE  q.down[y] = l.down[y] /\ q.up[y] = l.up[y]
      <4>1. y \in 1..N
        BY <3>3 DEF Above
      <4>2. Joins(l.down, l.up, x, InCol(l, G, x), y)
        BY <3>2 DEF LinkedAt, Ring
      <4>3. l.down[y] \in InCol(l, G, x) \cup {x} /\ l.up[y] \in InCol(l, G, x) \cup {x}
            /\ l.up[l.down[y]] = y /\ l.down[l.up[y]] = y
        BY <4>2 DEF Joins
      <4>4. j \notin InCol(l, G, x) \cup {x}
        <5>1. l.col[x] = x
          BY <3>2 DEF Heads
        <5> QED BY <5>1, <2>3 DEF InCol
      <4>5. y # l.up[j] /\ y # l.down[j]
        <5>1. l.down[l.up[j]] = j /\ l.up[l.down[j]] = j
          BY <1>8 DEF Joins
        <5> QED BY <5>1, <4>3, <4>4
      <4>6. /\ q.down[y] = IF y = l.up[j] THEN l.down[j] ELSE l.down[y]
            /\ q.up[y] = IF y = l.down[j] THEN l.up[j] ELSE l.up[y]
        BY <4>1, <1>5 DEF Passes
      <4> QED BY <4>5, <4>6
    <3>5. Ring(q.down, q.up, x, InCol(l, G, x))
      BY <3>2, <3>4, RingSame DEF LinkedAt
    <3>6. x \in 1..N
      BY <3>3 DEF Above
    <3>7. q.size[x] = l.size[x]
      BY <3>6, <2>3, <1>6
    <3> QED BY <2>1, <3>1, <3>2, <3>5, <3>7 DEF LinkedAt
  <2> QED BY <2>2, <2>3
<1>11. Linked(q, O, G \ {j})
  BY <1>1, <1>3, <1>10 DEF Linked
<1> QED BY <1>2, <1>9, <1>11 DEF q

\* The other nodes of a row are taken out, and putting them back undoes that.
LEMMA UnlinkRowStep ==
  ASSUME NEW N, NEW l, Shape(l, N), NEW O, NEW G, Linked(l, O, G),
         NEW r, NEW a, NEW b, NEW d, IsRow(l, r, a, b, d), {a, b, d} \subseteq G,
         l.col[a] \in O, l.col[b] \in O, l.col[d] \in O
  PROVE  /\ Linked(UnlinkRow(l, r), O, G \ {a, b, d}) /\ RelinkRow(UnlinkRow(l, r), r) = l
         /\ UnlinkRow(l, r) \in Mat(N) /\ SameRows(l, UnlinkRow(l, r))
<1> DEFINE m1 == Unlink(l, a)
           m2 == Unlink(m1, b)
           m3 == Unlink(m2, d)
<1>0. a # b /\ a # d /\ b # d
  BY DEF IsRow
<1>1. UnlinkRow(l, r) = m3
  <2>1. Walk(l.right, r) = <<a, b, d>>
    BY RowWalks
  <2> QED BY <2>1, UnlinkRow3
<1>2. Linked(m1, O, G \ {a}) /\ Relink(m1, a) = l /\ m1 \in Mat(N) /\ SameRows(l, m1)
  BY UnlinkStep
<1> HIDE DEF m1
<1>3. Shape(m1, N) /\ m1.col = l.col
  BY <1>2, KeepsSame, KeptShape DEF SameRows
<1>4. Linked(m2, O, (G \ {a}) \ {b}) /\ Relink(m2, b) = m1 /\ m2 \in Mat(N) /\ SameRows(m1, m2)
  <2>1. b \in G \ {a} /\ m1.col[b] \in O
    BY <1>0, <1>3
  <2> QED BY <2>1, <1>2, <1>3, UnlinkStep
<1> HIDE DEF m2
<1>5. Shape(m2, N) /\ m2.col = l.col
  BY <1>3, <1>4, KeepsSame, KeptShape DEF SameRows
<1>6. Linked(m3, O, ((G \ {a}) \ {b}) \ {d}) /\ Relink(m3, d) = m2 /\ m3 \in Mat(N)
      /\ SameRows(m2, m3)
  <2>1. d \in (G \ {a}) \ {b} /\ m2.col[d] \in O
    BY <1>0, <1>5
  <2> QED BY <2>1, <1>4, <1>5, UnlinkStep
<1> HIDE DEF m3
<1>7. SameRows(l, m3)
  BY <1>2, <1>4, <1>6 DEF SameRows
<1>8. RelinkRow(m3, r) = l
  <2>1. Shape(m3, N) /\ IsRow(m3, r, a, b, d)
    BY <1>6, <1>7, KeepsSame, KeptShape, KeptRow
  <2>2. Walk(m3.left, r) = <<d, b, a>>
    BY <2>1, RowWalks
  <2>3. RelinkRow(m3, r) = Relink(Relink(Relink(m3, d), b), a)
    BY <2>2, RelinkRow3
  <2> QED BY <2>3, <1>2, <1>4, <1>6
<1>9. ((G \ {a}) \ {b}) \ {d} = G \ {a, b, d}
  OBVIOUS
<1> QED BY <1>1, <1>6, <1>7, <1>8, <1>9

-----------------------------------------------------------------------------
(* Heads *)

\* The fields that taking out a head changes.
LEMMA HeadOutFields ==
  ASSUME NEW N, NEW l \in Mat(N), NEW c \in 1..N
  PROVE  /\ HeadOut(l, c) \in Mat(N)
         /\ HeadOut(l, c).left = [l.left EXCEPT ![l.right[c]] = l.left[c]]
         /\ HeadOut(l, c).right = [l.right EXCEPT ![l.left[c]] = l.right[c]]
         /\ HeadOut(l, c).up = l.up /\ HeadOut(l, c).down = l.down /\ HeadOut(l, c).col = l.col
         /\ HeadOut(l, c).name = l.name /\ HeadOut(l, c).size = l.size
<1> DEFINE U == [l.left EXCEPT ![l.right[c]] = l.left[c]]
           D == [l.right EXCEPT ![l.left[c]] = l.right[c]]
<1>1. HeadOut(l, c) = [l EXCEPT !.left = U, !.right = D]
  BY DEF HeadOut, Mat
<1>2. /\ l.left \in [1..N -> 1..N] /\ l.right \in [1..N -> 1..N]
      /\ l.left[c] \in 1..N /\ l.right[c] \in 1..N
  BY DEF Mat
<1>3. U \in [1..N -> 1..N] /\ D \in [1..N -> 1..N]
  BY <1>2
<1> HIDE DEF U, D
<1>4. [l EXCEPT !.left = U, !.right = D] \in Mat(N)
  BY <1>3 DEF Mat
<1>5. /\ HeadOut(l, c).left = U /\ HeadOut(l, c).right = D
      /\ HeadOut(l, c).up = l.up /\ HeadOut(l, c).down = l.down /\ HeadOut(l, c).col = l.col
      /\ HeadOut(l, c).name = l.name /\ HeadOut(l, c).size = l.size
  BY <1>1 DEF Mat
<1> QED BY <1>1, <1>4, <1>5 DEF U, D

\* The fields that putting it back changes.
LEMMA HeadInFields ==
  ASSUME NEW N, NEW l \in Mat(N), NEW c \in 1..N
  PROVE  /\ HeadIn(l, c) \in Mat(N)
         /\ HeadIn(l, c).left = [l.left EXCEPT ![l.right[c]] = c]
         /\ HeadIn(l, c).right = [l.right EXCEPT ![l.left[c]] = c]
         /\ HeadIn(l, c).up = l.up /\ HeadIn(l, c).down = l.down /\ HeadIn(l, c).col = l.col
         /\ HeadIn(l, c).name = l.name /\ HeadIn(l, c).size = l.size
<1> DEFINE U == [l.left EXCEPT ![l.right[c]] = c]
           D == [l.right EXCEPT ![l.left[c]] = c]
<1>1. HeadIn(l, c) = [l EXCEPT !.left = U, !.right = D]
  BY DEF HeadIn, Mat
<1>2. l.left \in [1..N -> 1..N] /\ l.right \in [1..N -> 1..N]
  BY DEF Mat
<1>3. U \in [1..N -> 1..N] /\ D \in [1..N -> 1..N]
  BY <1>2
<1> HIDE DEF U, D
<1>4. [l EXCEPT !.left = U, !.right = D] \in Mat(N)
  BY <1>3 DEF Mat
<1>5. /\ HeadIn(l, c).left = U /\ HeadIn(l, c).right = D
      /\ HeadIn(l, c).up = l.up /\ HeadIn(l, c).down = l.down /\ HeadIn(l, c).col = l.col
      /\ HeadIn(l, c).name = l.name /\ HeadIn(l, c).size = l.size
  BY <1>1 DEF Mat
<1> QED BY <1>1, <1>4, <1>5 DEF U, D

\* What is taken out of a ring of heads is put back as it was.
LEMMA HeadInOut ==
  ASSUME NEW N, NEW l \in Mat(N), NEW c \in 1..N, l.right[l.left[c]] = c, l.left[l.right[c]] = c
  PROVE  HeadIn(HeadOut(l, c), c) = l
<1> DEFINE q == HeadOut(l, c)
           p == HeadIn(q, c)
<1>1. /\ q \in Mat(N)
      /\ q.left = [l.left EXCEPT ![l.right[c]] = l.left[c]]
      /\ q.right = [l.right EXCEPT ![l.left[c]] = l.right[c]]
      /\ q.up = l.up /\ q.down = l.down /\ q.col = l.col /\ q.name = l.name /\ q.size = l.size
  BY HeadOutFields
<1> HIDE DEF q
<1>2. /\ p \in Mat(N)
      /\ p.left = [q.left EXCEPT ![q.right[c]] = c]
      /\ p.right = [q.right EXCEPT ![q.left[c]] = c]
      /\ p.up = q.up /\ p.down = q.down /\ p.col = q.col /\ p.name = q.name /\ p.size = q.size
  <2>1. q \in Mat(N)
    BY <1>1
  <2> QED BY <2>1, HeadInFields
<1> HIDE DEF p
<1>4. l.left \in [1..N -> 1..N] /\ l.right \in [1..N -> 1..N]
  BY DEF Mat
<1>5. q.left[c] = l.left[c] /\ q.right[c] = l.right[c]
  BY <1>1, <1>4
<1>6. p.left = l.left
  BY <1>1, <1>2, <1>4, <1>5
<1>7. p.right = l.right
  BY <1>1, <1>2, <1>4, <1>5
<1>8. SameRows(l, p) /\ l.up = p.up /\ l.down = p.down /\ l.size = p.size
  BY <1>1, <1>2, <1>6, <1>7 DEF SameRows
<1>9. p = l
  <2>1. p \in Mat(N)
    BY <1>2
  <2> QED BY <1>8, <2>1, MatEqual
<1> QED BY <1>9 DEF p, q

-----------------------------------------------------------------------------
(* Two rings of the same nodes *)

\* The links are the same.
LEMMA RingUnique ==
  ASSUME NEW N \in Nat, NEW f, NEW g, NEW f2, NEW g2, NEW n, NEW S, Above(n, S, N),
         Ring(f, g, n, S), Ring(f2, g2, n, S)
  PROVE  \A x \in S \cup {n} : f2[x] = f[x] /\ g2[x] = g[x]
<1>0. TAKE x \in S \cup {n}
<1>1. ASSUME NEW y \in S \cup {n} PROVE f2[y] = f[y]
  <2>1. Joins(f, g, n, S, y) /\ Joins(f2, g2, n, S, y)
    BY DEF Ring
  <2>2. /\ f[y] \in S \cup {n} /\ (f[y] # n => y < f[y])
        /\ f2[y] \in S \cup {n} /\ (f2[y] # n => y < f2[y])
    BY <2>1 DEF Joins
  <2>3. f[y] # n => f2[y] # n /\ f2[y] <= f[y]
    BY <2>1, <2>2 DEF Joins
  <2>4. f2[y] # n => f[y] # n /\ f[y] <= f2[y]
    BY <2>1, <2>2 DEF Joins
  <2>5. f[y] \in 1..N /\ f2[y] \in 1..N
    BY <2>2 DEF Above
  <2> QED BY <2>3, <2>4, <2>5
<1>2. Joins(f, g, n, S, x) /\ Joins(f2, g2, n, S, x)
  BY DEF Ring
<1>3. g2[x] \in S \cup {n} /\ f2[g2[x]] = x
  BY <1>2 DEF Joins
<1>4. f[g2[x]] = x
  BY <1>1, <1>3
<1>5. Joins(f, g, n, S, g2[x])
  BY <1>3 DEF Ring
<1>6. g[f[g2[x]]] = g2[x]
  BY <1>5 DEF Joins
<1> QED BY <1>1, <1>4, <1>6

\* What is gone through is the same.
LEMMA SameWalk ==
  ASSUME NEW N \in Nat, NEW f, NEW g, NEW f2, NEW g2, NEW n, NEW S, NEW t, Above(n, S, N),
         Ring(f, g, n, S), Ring(f2, g2, n, S), OnRing(t, f2, g2, n, S, N)
  PROVE  IsWalk(f, n, t)
<1>a. Len(t) \in Nat /\ \A k \in 1..Len(t) : t[k] \in S
  BY DEF OnRing, Sorted
<1>b. \A z \in S \cup {n} : f2[z] = f[z]
  BY RingUnique
<1>1. \A k \in 1..Len(t) : t[k] # n /\ t[k] = f2[At(n, t, k - 1)]
  BY DEF OnRing, IsWalk
<1>2. f2[At(n, t, Len(t))] = n
  BY DEF OnRing, IsWalk
<1>3. ASSUME NEW k \in 0..Len(t) PROVE At(n, t, k) \in S \cup {n}
  <2>1. k = 0 \/ k \in 1..Len(t)
    BY <1>a
  <2> QED BY <2>1, <1>a DEF At
<1>4. ASSUME NEW k \in 0..Len(t) PROVE f2[At(n, t, k)] = f[At(n, t, k)]
  BY <1>3, <1>b
<1>5. ASSUME NEW k \in 1..Len(t) PROVE t[k] # n /\ t[k] = f[At(n, t, k - 1)]
  <2>1. k - 1 \in 0..Len(t)
    BY <1>a
  <2> QED BY <2>1, <1>1, <1>4
<1>6. f[At(n, t, Len(t))] = n
  <2>1. Len(t) \in 0..Len(t)
    BY <1>a
  <2> QED BY <2>1, <1>2, <1>4
<1> QED BY <1>5, <1>6 DEF IsWalk

\* So are the walks.
LEMMA SameCircle ==
  ASSUME NEW N \in Nat, NEW f \in [1..N -> 1..N], NEW g \in [1..N -> 1..N],
         NEW f2 \in [1..N -> 1..N], NEW g2 \in [1..N -> 1..N], NEW n, NEW S, NEW s,
         Above(n, S, N), Ring(f, g, n, S), Ring(f2, g2, n, S), Circles(s, f, g, n, S, N)
  PROVE  Circles(s, f2, g2, n, S, N)
<1>1. PICK t : OnRing(t, f2, g2, n, S, N)
  BY RingIsWalk
<1>2. t \in Seq(1..N) /\ Len(t) < N /\ Len(t) \in Nat /\ \A k \in 1..Len(t) : t[k] \in S
  BY <1>1 DEF OnRing, Sorted
<1>3. IsWalk(f, n, t)
  BY <1>1, SameWalk
<1>4. n \in 1..N
  BY DEF Above
<1>5. Walk(f, n) = t
  BY <1>2, <1>3, <1>4, WalkIs
<1>6. s = t
  BY <1>5 DEF Circles
<1>7. Reverse(t) \in Seq(1..N) /\ Len(Reverse(t)) = Len(t)
  BY <1>2, ReverseSeq
<1>8. Walk(f2, n) = t /\ Walk(g2, n) = Reverse(t)
  BY <1>1, <1>2, <1>4, <1>7, WalkIs DEF OnRing
<1> QED BY <1>1, <1>6, <1>8 DEF Circles, OnRing

-----------------------------------------------------------------------------
(* Covering *)

\* The columns of O are open: linked in order, each with the nodes of the rows that have
\* all their columns in O.
Open(l, O, N) == Shape(l, N) /\ Ring(l.right, l.left, Root, O) /\ Linked(l, O, Live(l, O))

\* The nodes that are linked when the rows of Z, in column c, have been taken out.
Part(l, O, c, Z) == {n \in Live(l, O) : l.col[n] = c \/ RowOf(l, n) \cap Z = {}}

\* One more row is taken out.
LEMMA PartStep ==
  ASSUME NEW N, NEW l, Shape(l, N), NEW O, NEW c, NEW Z \in SUBSET InCol(l, Live(l, O), c),
         NEW r \in InCol(l, Live(l, O), c), r \notin Z,
         NEW a, NEW b, NEW d, IsRow(l, r, a, b, d)
  PROVE  /\ {a, b, d} \subseteq Part(l, O, c, Z)
         /\ Part(l, O, c, Z \cup {r}) = Part(l, O, c, Z) \ {a, b, d}
         /\ l.col[a] \in O /\ l.col[b] \in O /\ l.col[d] \in O
<1>1. r \in Live(l, O) /\ l.col[r] = c /\ \A z \in Z : l.col[z] = c
  BY DEF InCol
<1>2. l.col[a] # c /\ l.col[b] # c /\ l.col[d] # c /\ a # r /\ b # r /\ d # r
  BY <1>1 DEF IsRow
<1>3. /\ RowOf(l, a) = {r, a, b, d} /\ RowOf(l, b) = {r, a, b, d} /\ RowOf(l, d) = {r, a, b, d}
      /\ RowOf(l, r) = {r, a, b, d}
  BY RowIs
<1>4. a \in Live(l, O) /\ b \in Live(l, O) /\ d \in Live(l, O)
      /\ l.col[a] \in O /\ l.col[b] \in O /\ l.col[d] \in O
  BY <1>1, LiveRow
<1>5. a \notin Z /\ b \notin Z /\ d \notin Z
  BY <1>1, <1>2
<1>6. {a, b, d} \subseteq Part(l, O, c, Z)
  BY <1>3, <1>4, <1>5 DEF Part
<1>7. ASSUME NEW n \in Live(l, O), n \notin {a, b, d}, l.col[n] # c PROVE r \notin RowOf(l, n)
  <2>1. PICK e, f, g : IsRow(l, n, e, f, g)
    BY DEF Live, Shape
  <2>2. SUFFICES ASSUME r \in RowOf(l, n) PROVE FALSE
    OBVIOUS
  <2>3. RowOf(l, n) = {n, e, f, g} /\ RowOf(l, e) = {n, e, f, g} /\ RowOf(l, f) = {n, e, f, g}
        /\ RowOf(l, g) = {n, e, f, g}
    BY <2>1, RowIs
  <2>4. n \in RowOf(l, r)
    BY <2>2, <2>3
  <2>5. n = r
    BY <2>4, <1>3, <1>7
  <2> QED BY <2>5, <1>1, <1>7
<1>8. ASSUME NEW n PROVE n \in Part(l, O, c, Z \cup {r}) <=> n \in Part(l, O, c, Z) \ {a, b, d}
  <2>1. CASE n \in {a, b, d}
    <3>1. r \in RowOf(l, n) /\ l.col[n] # c
      BY <2>1, <1>2, <1>3
    <3> QED BY <2>1, <3>1 DEF Part
  <2>2. CASE n \notin {a, b, d}
    <3>1. ASSUME n \in Live(l, O), l.col[n] # c PROVE r \notin RowOf(l, n)
      BY <2>2, <3>1, <1>7
    <3> QED BY <2>2, <3>1 DEF Part
  <2> QED BY <2>1, <2>2
<1>9. Part(l, O, c, Z \cup {r}) = Part(l, O, c, Z) \ {a, b, d}
  BY <1>8
<1> QED BY <1>4, <1>6, <1>9

\* That depends on the rows only.
LEMMA KeptPart ==
  ASSUME NEW N, NEW l, NEW m, Keeps(l, m, N), Shape(l, N), NEW O, NEW c, NEW Z
  PROVE  Part(m, O, c, Z) = Part(l, O, c, Z)
<1>1. Live(m, O) = Live(l, O) /\ m.col = l.col
  BY KeptLive DEF Keeps
<1>2. ASSUME NEW n \in Live(l, O) PROVE RowOf(m, n) = RowOf(l, n)
  <2>1. PICK a, b, d : IsRow(l, n, a, b, d)
    BY DEF Live, Shape
  <2>2. IsRow(m, n, a, b, d)
    BY <2>1, KeptRow
  <2> QED BY <2>1, <2>2, RowIs
<1> QED BY <1>1, <1>2 DEF Part

\* What taking out the first column of O leaves: the head first.
LEMMA HeadOutStep ==
  ASSUME NEW N, NEW l, NEW O, Open(l, O, N), NEW c \in O
  PROVE  /\ Keeps(l, HeadOut(l, c), N) /\ HeadOut(l, c) \in Mat(N)
         /\ Ring(HeadOut(l, c).right, HeadOut(l, c).left, Root, O \ {c})
         /\ Linked(HeadOut(l, c), O, Live(l, O))
         /\ HeadIn(HeadOut(l, c), c) = l
<1> DEFINE q == HeadOut(l, c)
<1>1. l \in Mat(N) /\ N \in Nat /\ 1 \in 1..N /\ O \subseteq Heads(l) /\ DOMAIN l.col = 1..N
  BY DEF Open, Shape, Mat, Linked
<1>2. O \subseteq 1..N /\ Root \notin O /\ c \in 1..N
  BY <1>1 DEF Heads
<1>3. /\ q \in Mat(N)
      /\ q.left = [l.left EXCEPT ![l.right[c]] = l.left[c]]
      /\ q.right = [l.right EXCEPT ![l.left[c]] = l.right[c]]
      /\ q.up = l.up /\ q.down = l.down /\ q.col = l.col /\ q.name = l.name /\ q.size = l.size
  BY <1>1, <1>2, HeadOutFields
<1> HIDE DEF q
<1>4. l.left \in [1..N -> 1..N] /\ l.right \in [1..N -> 1..N]
  BY <1>1 DEF Mat
<1>5. Ring(l.right, l.left, Root, O)
  BY DEF Open
<1>6. Above(Root, O, N)
  <2>1. ASSUME NEW x \in O PROVE x \in 1..N /\ Root < x
    <3>1. x \in 1..N /\ x # 1
      BY <1>2 DEF Root
    <3> QED BY <3>1 DEF Root
  <2> QED BY <2>1, <1>1 DEF Above, Root
<1>7. ASSUME NEW x \in 1..N
      PROVE  /\ q.right[x] = IF x = l.left[c] THEN l.right[c] ELSE l.right[x]
             /\ q.left[x] = IF x = l.right[c] THEN l.left[c] ELSE l.left[x]
  BY <1>3, <1>4
<1>8. Ring(q.right, q.left, Root, O \ {c})
  <2>1. Passes(l.right, l.left, q.right, q.left, c, N)
    BY <1>7 DEF Passes
  <2> QED BY <2>1, <1>1, <1>5, <1>6, RingRemove
<1>9. l.right[c] \in O \cup {Root} /\ l.left[c] \in O \cup {Root}
      /\ l.right[l.left[c]] = c /\ l.left[l.right[c]] = c
  <2>1. Joins(l.right, l.left, Root, O, c)
    BY <1>5 DEF Ring
  <2> QED BY <2>1 DEF Joins
<1>10. ASSUME NEW n \in RowNodes(l) PROVE q.left[n] = l.left[n] /\ q.right[n] = l.right[n]
  <2>1. n \in 1..N /\ n \notin O \cup {Root}
    BY <1>1 DEF RowNodes, Heads, Open, Shape, Root
  <2>2. n # l.right[c] /\ n # l.left[c]
    BY <2>1, <1>9
  <2> QED BY <2>1, <2>2, <1>7
<1>11. Keeps(l, q, N)
  BY <1>3, <1>10 DEF Keeps
<1>12. Linked(q, O, Live(l, O))
  <2>1. Linked(l, O, Live(l, O))
    BY DEF Open
  <2>2. Heads(q) = Heads(l) /\ RowNodes(q) = RowNodes(l)
    BY <1>11, KeptRow
  <2> QED BY <2>1, <2>2, <1>3 DEF Linked, LinkedAt, InCol
<1>13. HeadIn(q, c) = l
  BY <1>1, <1>2, <1>9, HeadInOut DEF q
<1> QED BY <1>3, <1>8, <1>11, <1>12, <1>13 DEF q

\* UnlinkRow changes no row, whatever the state of the columns.
LEMMA UnlinkRowKeeps ==
  ASSUME NEW N, NEW l, Shape(l, N), NEW m \in Mat(N), SameRows(l, m), NEW r \in RowNodes(l)
  PROVE  UnlinkRow(m, r) \in Mat(N) /\ SameRows(l, UnlinkRow(m, r))
<1>1. PICK a, b, d : IsRow(l, r, a, b, d)
  BY DEF Shape
<1>2. Keeps(l, m, N)
  BY KeepsSame
<1>3. Shape(m, N) /\ IsRow(m, r, a, b, d)
  BY <1>1, <1>2, KeptShape, KeptRow
<1>4. Walk(m.right, r) = <<a, b, d>>
  BY <1>3, RowWalks
<1> DEFINE m1 == Unlink(m, a)
           m2 == Unlink(m1, b)
           m3 == Unlink(m2, d)
<1>5. UnlinkRow(m, r) = m3
  BY <1>4, UnlinkRow3
<1>6. a \in 1..N /\ b \in 1..N /\ d \in 1..N
  BY <1>1 DEF IsRow, RowNodes, Shape, Mat
<1>7. m1 \in Mat(N) /\ SameRows(m, m1)
  BY <1>6, UnlinkFields
<1> HIDE DEF m1
<1>8. m2 \in Mat(N) /\ SameRows(m1, m2)
  BY <1>6, <1>7, UnlinkFields
<1> HIDE DEF m2
<1>9. m3 \in Mat(N) /\ SameRows(m2, m3)
  BY <1>6, <1>8, UnlinkFields
<1> HIDE DEF m3
<1> QED BY <1>5, <1>7, <1>8, <1>9 DEF SameRows

\* The states between the rows that cover takes out.
Covering(x, l, O, c, s, N) ==
  /\ x \in [0..Len(s) -> Mat(N)] /\ x[0] = HeadOut(l, c)
  /\ \A k \in 1..Len(s) : /\ x[k] = UnlinkRow(x[k - 1], s[k])
                          /\ RelinkRow(x[k], s[k]) = x[k - 1]
  /\ SameRows(HeadOut(l, c), x[Len(s)])
  /\ Linked(x[Len(s)], O, Part(l, O, c, InCol(l, Live(l, O), c)))

\* These states exist: the loop of cover(), by induction on its rows.
LEMMA CoveringExists ==
  ASSUME NEW N \in Nat, NEW l, NEW O, Open(l, O, N), NEW c \in O,
         NEW s, Sorted(s, InCol(l, Live(l, O), c), N, N - c)
  PROVE  \E x : Covering(x, l, O, c, s, N)
<1> DEFINE S == InCol(l, Live(l, O), c)
           q == HeadOut(l, c)
           T == {m \in Mat(N) : SameRows(q, m)}
           F == [p \in (1..Len(s)) \X T |-> UnlinkRow(p[2], s[p[1]])]
           Z(k) == {s[i] : i \in 1..k}
           G(k) == Part(q, O, c, Z(k))
<1>1. /\ Keeps(l, q, N) /\ q \in Mat(N) /\ Linked(q, O, Live(l, O)) /\ Shape(l, N)
  BY HeadOutStep DEF Open
<1>2. /\ Shape(q, N) /\ Live(q, O) = Live(l, O) /\ q.col = l.col /\ RowNodes(q) = RowNodes(l)
      /\ \A Y : Part(q, O, c, Y) = Part(l, O, c, Y)
  BY <1>1, KeptShape, KeptLive, KeptRow, KeptPart DEF Keeps
<1>3. InCol(q, Live(q, O), c) = S
  BY <1>2 DEF InCol
<1>4. /\ s \in Seq(1..N) /\ Len(s) \in Nat
      /\ \A k \in 1..Len(s) : s[k] \in S
      /\ \A x \in S : \E k \in 1..Len(s) : s[k] = x
  BY DEF Sorted
<1>5. \A j, k \in 1..Len(s) : j < k => s[j] < s[k]
  BY DEF Sorted
<1> HIDE DEF q, S
<1>6. S \subseteq RowNodes(q)
  BY <1>2, <1>3 DEF InCol, Live
<1>7. q \in T
  BY <1>1 DEF SameRows
<1>8. F \in [(1..Len(s)) \X T -> T]
  <2>1. ASSUME NEW k \in 1..Len(s), NEW m \in T PROVE UnlinkRow(m, s[k]) \in T
    <3>1. s[k] \in RowNodes(q)
      BY <1>4, <1>6
    <3> QED BY <3>1, <1>2, UnlinkRowKeeps
  <2> HIDE DEF T
  <2> QED BY <2>1
<1>9. \A k \in 1..Len(s), m \in T : F[<<k, m>>] = UnlinkRow(m, s[k])
  OBVIOUS
<1> HIDE DEF F
<1>10. PICK x : Follows(x, Len(s), T, q, F)
  <2> HIDE DEF T
  <2> QED BY <1>4, <1>7, <1>8, Recursion
<1>11. x \in [0..Len(s) -> T] /\ x[0] = q
  BY <1>10 DEF Follows
<1>12. ASSUME NEW k \in 1..Len(s) PROVE x[k] = UnlinkRow(x[k - 1], s[k]) /\ x[k - 1] \in T
  <2>1. x[k] = F[<<k, x[k - 1]>>]
    BY <1>10, ZenonT(30) DEF Follows
  <2>2. k - 1 \in 0..Len(s)
    OBVIOUS
  <2>3. x[k - 1] \in T
    BY <2>2, <1>11
  <2> QED BY <2>1, <2>3, <1>9
<1>13. ASSUME NEW k \in 1..Len(s), Linked(x[k - 1], O, G(k - 1))
       PROVE  Linked(x[k], O, G(k)) /\ RelinkRow(x[k], s[k]) = x[k - 1]
  <2> DEFINE m == x[k - 1]
             r == s[k]
  <2>1. m \in Mat(N) /\ SameRows(q, m)
    BY <1>12
  <2>2. Keeps(q, m, N)
    BY <2>1, KeepsSame
  <2>3. r \in S /\ r \in RowNodes(q)
    BY <1>4, <1>6
  <2>4. PICK a, b, d : IsRow(q, r, a, b, d)
    BY <2>3, <1>2 DEF Shape
  <2>5. Shape(m, N) /\ IsRow(m, r, a, b, d) /\ m.col = q.col
    BY <2>2, <2>4, <1>2, KeptShape, KeptRow DEF Keeps
  <2>6. Z(k - 1) \subseteq S /\ r \notin Z(k - 1) /\ Z(k) = Z(k - 1) \cup {r}
    <3>1. ASSUME NEW i \in 1..(k - 1) PROVE s[i] \in S /\ s[i] # s[k]
      <4>1. i \in 1..Len(s) /\ i < k
        OBVIOUS
      <4>2. s[i] < s[k] /\ s[i] \in 1..N /\ s[k] \in 1..N
        BY <4>1, <1>4, <1>5, SMTT(30)
      <4> QED BY <4>1, <4>2, <1>4
    <3>2. 1..k = (1..(k - 1)) \cup {k}
      BY <1>4
    <3> QED BY <3>1, <3>2
  <2>7. /\ {a, b, d} \subseteq G(k - 1) /\ G(k) = G(k - 1) \ {a, b, d}
        /\ q.col[a] \in O /\ q.col[b] \in O /\ q.col[d] \in O
    <3> HIDE DEF Z
    <3>1. /\ Z(k - 1) \in SUBSET InCol(q, Live(q, O), c) /\ r \in InCol(q, Live(q, O), c)
          /\ Shape(q, N) /\ IsRow(q, r, a, b, d) /\ r \notin Z(k - 1)
      BY <2>3, <2>4, <2>6, <1>2, <1>3
    <3>2. /\ {a, b, d} \subseteq Part(q, O, c, Z(k - 1))
          /\ Part(q, O, c, Z(k - 1) \cup {r}) = Part(q, O, c, Z(k - 1)) \ {a, b, d}
          /\ q.col[a] \in O /\ q.col[b] \in O /\ q.col[d] \in O
      <4> HIDE DEF r
      <4> QED BY <3>1, PartStep
    <3> QED BY <3>2, <2>6
  <2> HIDE DEF G, m
  <2>8. Linked(m, O, G(k - 1))
    BY <1>13 DEF m
  <2>9. Linked(UnlinkRow(m, r), O, G(k - 1) \ {a, b, d}) /\ RelinkRow(UnlinkRow(m, r), r) = m
    <3>1. /\ m.col[a] \in O /\ m.col[b] \in O /\ m.col[d] \in O
          /\ {a, b, d} \subseteq G(k - 1) /\ Shape(m, N) /\ IsRow(m, r, a, b, d)
      BY <2>5, <2>7
    <3> HIDE DEF r
    <3> QED BY <3>1, <2>8, UnlinkRowStep
  <2>10. x[k] = UnlinkRow(m, r)
    BY <1>12 DEF m
  <2> QED BY <2>7, <2>9, <2>10 DEF m
<1>14. \A k \in Nat : k <= Len(s) => Linked(x[k], O, G(k))
  <2> DEFINE P == {k \in Nat : k <= Len(s) => Linked(x[k], O, G(k))}
  <2>1. 0 \in P
    <3>1. Z(0) = {}
      OBVIOUS
    <3>2. G(0) = Live(l, O)
      BY <3>1, <1>2 DEF Part
    <3> HIDE DEF G
    <3> QED BY <3>2, <1>1, <1>11
  <2>2. ASSUME NEW k \in Nat, k \in P PROVE k + 1 \in P
    <3>0. k + 1 \in Nat
      OBVIOUS
    <3> HIDE DEF G
    <3>1. SUFFICES ASSUME k + 1 <= Len(s) PROVE Linked(x[k + 1], O, G(k + 1))
      BY <3>0
    <3>2. k + 1 \in 1..Len(s) /\ (k + 1) - 1 = k /\ Linked(x[k], O, G(k))
      BY <2>2, <3>1, <1>4
    <3> QED BY <3>2, <1>13
  <2> HIDE DEF P
  <2>3. \A k \in Nat : k \in P
    BY <2>1, <2>2, Induct
  <2> QED BY <2>3 DEF P
<1>15. ASSUME NEW k \in 1..Len(s) PROVE RelinkRow(x[k], s[k]) = x[k - 1]
  <2>1. k - 1 \in Nat /\ k - 1 <= Len(s)
    BY <1>4
  <2> HIDE DEF G
  <2> QED BY <2>1, <1>13, <1>14
<1>16. Linked(x[Len(s)], O, Part(l, O, c, S))
  <2>1. Z(Len(s)) = S
    BY <1>4
  <2>2. G(Len(s)) = Part(l, O, c, S)
    BY <2>1, <1>2
  <2> HIDE DEF G
  <2> QED BY <2>2, <1>4, <1>14
<1>17. x \in [0..Len(s) -> Mat(N)] /\ SameRows(q, x[Len(s)])
  <2>1. Len(s) \in 0..Len(s)
    BY <1>4
  <2> QED BY <2>1, <1>11
<1>18. Covering(x, l, O, c, s, N)
  BY <1>11, <1>12, <1>15, <1>16, <1>17 DEF Covering, q, S
<1> QED BY <1>18

\* An open column is walked in both directions.
LEMMA OpenColumn ==
  ASSUME NEW N \in Nat, NEW l, NEW O, Open(l, O, N), NEW c \in O
  PROVE  /\ c \in Heads(l) /\ c \in 1..N /\ LinkedAt(l, c, Live(l, O))
         /\ Above(c, InCol(l, Live(l, O), c), N)
         /\ \E s : Circles(s, l.down, l.up, c, InCol(l, Live(l, O), c), N)
<1>1. c \in Heads(l) /\ LinkedAt(l, c, Live(l, O)) /\ Live(l, O) \subseteq RowNodes(l)
      /\ Shape(l, N) /\ l \in Mat(N)
  BY DEF Open, Linked, Shape
<1>2. Above(c, InCol(l, Live(l, O), c), N)
  BY <1>1, ColAbove, ShapeIs
<1>3. l.down \in [1..N -> 1..N] /\ l.up \in [1..N -> 1..N]
  BY <1>1 DEF Mat
<1>4. \E s : Circles(s, l.down, l.up, c, InCol(l, Live(l, O), c), N)
  BY <1>1, <1>2, <1>3, RingWalks DEF LinkedAt
<1> QED BY <1>1, <1>2, <1>4 DEF Above

\* The rows of the other columns, once those with a node in c are out.
LEMMA PartIs ==
  ASSUME NEW N, NEW l, Shape(l, N), NEW O, NEW c
  PROVE  /\ InCol(l, Part(l, O, c, InCol(l, Live(l, O), c)), c) = InCol(l, Live(l, O), c)
         /\ \A x \in O : x # c =>
              InCol(l, Part(l, O, c, InCol(l, Live(l, O), c)), x) = InCol(l, Live(l, O \ {c}), x)
<1> DEFINE S == InCol(l, Live(l, O), c)
<1>1. InCol(l, Part(l, O, c, S), c) = S
  BY DEF InCol, Part
<1>2. ASSUME NEW n \in RowNodes(l), l.col[n] # c
      PROVE  n \in Part(l, O, c, S) <=> n \in Live(l, O \ {c})
  <2>1. PICK a, b, d : IsRow(l, n, a, b, d)
    BY DEF Shape
  <2>2. RowOf(l, n) = {n, a, b, d}
    BY <2>1, RowIs
  <2>3. /\ n \in Live(l, O) <=> /\ l.col[n] \in O /\ l.col[a] \in O
                                /\ l.col[b] \in O /\ l.col[d] \in O
        /\ (a \in Live(l, O) <=> n \in Live(l, O)) /\ (b \in Live(l, O) <=> n \in Live(l, O))
        /\ (d \in Live(l, O) <=> n \in Live(l, O))
    BY <2>1, LiveRow
  <2>4. n \in Live(l, O \ {c}) <=> /\ l.col[n] \in O \ {c} /\ l.col[a] \in O \ {c}
                                   /\ l.col[b] \in O \ {c} /\ l.col[d] \in O \ {c}
    BY <2>1, LiveRow
  <2>5. n \in Part(l, O, c, S) <=> /\ n \in Live(l, O)
                                   /\ l.col[a] # c /\ l.col[b] # c /\ l.col[d] # c
    BY <2>2, <2>3, <1>2 DEF Part, InCol
  <2> QED BY <2>3, <2>4, <2>5, <1>2
<1>3. ASSUME NEW x \in O, x # c PROVE InCol(l, Part(l, O, c, S), x) = InCol(l, Live(l, O \ {c}), x)
  <2>1. Part(l, O, c, S) \subseteq RowNodes(l) /\ Live(l, O \ {c}) \subseteq RowNodes(l)
    BY DEF Part, Live
  <2>2. ASSUME NEW n
        PROVE  n \in InCol(l, Part(l, O, c, S), x) <=> n \in InCol(l, Live(l, O \ {c}), x)
    <3>1. ASSUME n \in RowNodes(l), l.col[n] = x
          PROVE  n \in Part(l, O, c, S) <=> n \in Live(l, O \ {c})
      BY <3>1, <1>2, <1>3
    <3> HIDE DEF S
    <3> QED BY <3>1, <2>1 DEF InCol
  <2> QED BY <2>2
<1> QED BY <1>1, <1>3

\* Covering a column opens the columns that are left, leaves the column itself as it was,
\* and uncovering gives the lists as they were.
LEMMA CoverStep ==
  ASSUME NEW N \in Nat, NEW l, NEW O, Open(l, O, N), NEW c \in O
  PROVE  /\ Open(cover(l, c), O \ {c}, N) /\ Keeps(l, cover(l, c), N)
         /\ LinkedAt(cover(l, c), c, Live(l, O)) /\ uncover(cover(l, c), c) = l
<1> DEFINE S == InCol(l, Live(l, O), c)
           q == HeadOut(l, c)
           m == cover(l, c)
<1>1. /\ c \in Heads(l) /\ c \in 1..N /\ LinkedAt(l, c, Live(l, O)) /\ Above(c, S, N)
      /\ \E s : Circles(s, l.down, l.up, c, S, N)
  BY OpenColumn
<1>2. PICK s : Circles(s, l.down, l.up, c, S, N)
  BY <1>1
<1>3. /\ Sorted(s, S, N, N - c) /\ Walk(l.down, c) = s
      /\ s \in Seq(1..N) /\ Len(s) \in Nat
  BY <1>2 DEF Circles, Sorted
<1>4. PICK x : Covering(x, l, O, c, s, N)
  BY <1>3, CoveringExists
<1>5. /\ x \in [0..Len(s) -> Mat(N)] /\ x[0] = q
      /\ \A k \in 1..Len(s) : x[k] = UnlinkRow(x[k - 1], s[k])
      /\ \A k \in 1..Len(s) : RelinkRow(x[k], s[k]) = x[k - 1]
      /\ SameRows(q, x[Len(s)]) /\ Linked(x[Len(s)], O, Part(l, O, c, S))
  BY <1>4 DEF Covering
<1>6. m = x[Len(s)]
  <2>1. Unlinks(x, q, s, Mat(N))
    BY <1>5 DEF Unlinks
  <2> QED BY <2>1, <1>3, CoverLoop
<1>7. m \in Mat(N)
  <2>1. Len(s) \in 0..Len(s)
    BY <1>3
  <2> QED BY <2>1, <1>5, <1>6
<1>8. /\ Keeps(l, q, N) /\ q \in Mat(N) /\ Ring(q.right, q.left, Root, O \ {c})
      /\ HeadIn(q, c) = l /\ Shape(l, N) /\ l \in Mat(N)
  BY HeadOutStep DEF Open, Shape
<1> HIDE DEF m, q
<1>9. Keeps(l, m, N)
  BY <1>5, <1>6, <1>7, <1>8, KeepsSame, KeepsTrans
<1>10. /\ Shape(m, N) /\ m.col = l.col /\ Heads(m) = Heads(l) /\ RowNodes(m) = RowNodes(l)
       /\ Live(m, O \ {c}) = Live(l, O \ {c})
  BY <1>8, <1>9, KeptShape, KeptRow, KeptLive DEF Keeps
<1>11. Linked(m, O, Part(l, O, c, S))
  BY <1>5, <1>6
<1>12. /\ InCol(l, Part(l, O, c, S), c) = S
       /\ \A y \in O : y # c => InCol(l, Part(l, O, c, S), y) = InCol(l, Live(l, O \ {c}), y)
  BY <1>8, PartIs
<1> HIDE DEF S
<1>13. LinkedAt(m, c, Live(l, O))
  <2>1. LinkedAt(m, c, Part(l, O, c, S))
    BY <1>11 DEF Linked
  <2>2. InCol(m, Part(l, O, c, S), c) = InCol(m, Live(l, O), c)
    BY <1>10, <1>12 DEF InCol, S
  <2> QED BY <2>1, <2>2 DEF LinkedAt
<1>14. Open(m, O \ {c}, N)
  <2>1. Ring(m.right, m.left, Root, O \ {c})
    BY <1>5, <1>6, <1>8 DEF SameRows
  <2>2. ASSUME NEW y \in O \ {c} PROVE LinkedAt(m, y, Live(m, O \ {c}))
    <3>1. LinkedAt(m, y, Part(l, O, c, S))
      BY <1>11 DEF Linked
    <3>2. InCol(m, Part(l, O, c, S), y) = InCol(l, Part(l, O, c, S), y)
          /\ InCol(m, Live(m, O \ {c}), y) = InCol(l, Live(l, O \ {c}), y)
      BY <1>10 DEF InCol
    <3>3. InCol(m, Part(l, O, c, S), y) = InCol(m, Live(m, O \ {c}), y)
      BY <3>2, <1>12
    <3> QED BY <3>1, <3>3 DEF LinkedAt
  <2>3. Linked(m, O \ {c}, Live(m, O \ {c}))
    <3>1. O \ {c} \subseteq Heads(m)
      BY <1>11 DEF Linked
    <3>2. Live(m, O \ {c}) \subseteq RowNodes(m)
      BY DEF Live
    <3> QED BY <3>1, <3>2, <2>2 DEF Linked
  <2> QED BY <2>1, <2>3, <1>10 DEF Open
<1>15. uncover(m, c) = l
  <2>1. Circles(s, m.down, m.up, c, S, N)
    <3>1. Ring(l.down, l.up, c, S) /\ Ring(m.down, m.up, c, S)
      <4>1. InCol(m, Live(l, O), c) = InCol(l, Live(l, O), c)
        BY <1>10 DEF InCol
      <4> QED BY <4>1, <1>1, <1>13 DEF LinkedAt, S
    <3>2. /\ l.down \in [1..N -> 1..N] /\ l.up \in [1..N -> 1..N]
          /\ m.down \in [1..N -> 1..N] /\ m.up \in [1..N -> 1..N]
      BY <1>7, <1>8 DEF Mat
    <3> QED BY <3>1, <3>2, <1>1, <1>2, SameCircle
  <2> DEFINE r == Reverse(s)
             y == [k \in 0..Len(s) |-> x[Len(s) - k]]
  <2>2. Walk(m.up, c) = r
    BY <2>1 DEF Circles
  <2>3. /\ r \in Seq(1..N) /\ Len(r) = Len(s)
        /\ \A k \in 1..Len(s) : r[k] = s[Len(s) + 1 - k] /\ Len(s) + 1 - k \in 1..Len(s)
    BY <1>3, ReverseSeq
  <2> HIDE DEF r
  <2>4. y \in [0..Len(s) -> Mat(N)] /\ y[0] = m /\ y[Len(s)] = q
    <3>1. \A k \in 0..Len(s) : Len(s) - k \in 0..Len(s)
      BY <1>3
    <3>2. y \in [0..Len(s) -> Mat(N)]
      BY <3>1, <1>5
    <3>3. 0 \in 0..Len(s) /\ Len(s) \in 0..Len(s) /\ Len(s) - 0 = Len(s) /\ Len(s) - Len(s) = 0
      BY <1>3
    <3>4. y[0] = x[Len(s)] /\ y[Len(s)] = x[0]
      BY <3>3
    <3> HIDE DEF y
    <3> QED BY <3>2, <3>4, <1>5, <1>6
  <2>5. ASSUME NEW k \in 1..Len(s) PROVE y[k] = RelinkRow(y[k - 1], r[k])
    <3>1. /\ k \in 0..Len(s) /\ k - 1 \in 0..Len(s) /\ Len(s) - (k - 1) = Len(s) + 1 - k
          /\ Len(s) - k = (Len(s) + 1 - k) - 1 /\ Len(s) + 1 - k \in 1..Len(s)
      BY <1>3
    <3>2. y[k] = x[(Len(s) + 1 - k) - 1] /\ y[k - 1] = x[Len(s) + 1 - k]
      BY <3>1
    <3>3. RelinkRow(x[Len(s) + 1 - k], s[Len(s) + 1 - k]) = x[(Len(s) + 1 - k) - 1]
      BY <3>1, <1>5, ZenonT(30)
    <3> HIDE DEF y
    <3> QED BY <3>2, <3>3, <2>3
  <2> HIDE DEF y
  <2>6. uncover(m, c) = HeadIn(y[Len(r)], c)
    <3>1. Relinks(y, m, r, Mat(N))
      BY <2>3, <2>4, <2>5 DEF Relinks
    <3>2. r \in Seq(1..N) /\ Len(r) \in Nat
      BY <2>3
    <3> QED BY <3>1, <3>2, <2>2, UncoverLoop
  <2> QED BY <2>3, <2>4, <2>6, <1>8
<1> QED BY <1>9, <1>13, <1>14, <1>15 DEF m

\* A row that is taken covers its other columns; giving it up uncovers them.
LEMMA CoverRowStep ==
  ASSUME NEW N \in Nat, NEW l, NEW O, Open(l, O, N), NEW r, NEW a, NEW b, NEW d,
         IsRow(l, r, a, b, d), l.col[a] \in O, l.col[b] \in O, l.col[d] \in O
  PROVE  /\ Open(CoverRow(l, r), O \ {l.col[a], l.col[b], l.col[d]}, N)
         /\ Keeps(l, CoverRow(l, r), N) /\ UncoverRow(CoverRow(l, r), r) = l
<1> DEFINE O1 == O \ {l.col[a]}
           O2 == O1 \ {l.col[b]}
           O3 == O2 \ {l.col[d]}
           m1 == CoverOf(l, a)
           m2 == CoverOf(m1, b)
           m3 == CoverOf(m2, d)
<1>1. l.col[a] # l.col[b] /\ l.col[a] # l.col[d] /\ l.col[b] # l.col[d]
  BY DEF IsRow
<1>2. Shape(l, N)
  BY DEF Open
<1>3. CoverRow(l, r) = m3
  BY <1>2, RowWalks, CoverRow3
<1>4. Open(m1, O1, N) /\ Keeps(l, m1, N) /\ uncover(m1, l.col[a]) = l
  BY CoverStep DEF CoverOf
<1> HIDE DEF m1, O1
<1>5. m1.col = l.col /\ Shape(m1, N)
  BY <1>4 DEF Keeps, Open
<1>6. l.col[b] \in O1 /\ l.col[d] \in O1
  BY <1>1 DEF O1
<1>7. Open(m2, O2, N) /\ Keeps(m1, m2, N) /\ uncover(m2, l.col[b]) = m1
  BY <1>4, <1>5, <1>6, CoverStep DEF CoverOf
<1> HIDE DEF m2, O2
<1>8. m2.col = l.col /\ Shape(m2, N)
  BY <1>5, <1>7 DEF Keeps, Open
<1>9. l.col[d] \in O2
  BY <1>1, <1>6 DEF O2
<1>10. Open(m3, O3, N) /\ Keeps(m2, m3, N) /\ uncover(m3, l.col[d]) = m2
  BY <1>7, <1>8, <1>9, CoverStep DEF CoverOf
<1> HIDE DEF m3, O3
<1>11. m3.col = l.col /\ Shape(m3, N)
  BY <1>8, <1>10 DEF Keeps, Open
<1>12. Keeps(l, m3, N)
  BY <1>4, <1>7, <1>10, KeepsTrans
<1>13. UncoverRow(m3, r) = l
  <2>1. IsRow(m3, r, a, b, d)
    BY <1>12, KeptRow
  <2>2. Walk(m3.left, r) = <<d, b, a>>
    BY <2>1, <1>11, RowWalks
  <2>3. UncoverRow(m3, r) = UncoverOf(UncoverOf(UncoverOf(m3, d), b), a)
    BY <2>2, UncoverRow3
  <2>4. UncoverOf(m3, d) = m2
    BY <1>10, <1>11 DEF UncoverOf
  <2>5. UncoverOf(m2, b) = m1
    BY <1>7, <1>8 DEF UncoverOf
  <2>6. UncoverOf(m1, a) = l
    BY <1>4, <1>5 DEF UncoverOf
  <2> QED BY <2>3, <2>4, <2>5, <2>6
<1>14. O3 = O \ {l.col[a], l.col[b], l.col[d]}
  BY DEF O1, O2, O3
<1> QED BY <1>3, <1>10, <1>12, <1>13, <1>14

-----------------------------------------------------------------------------
(* The search *)

\* The columns of a row.
ColsOf(l, r) == {l.col[j] : j \in RowOf(l, r)}

\* A column is covered and one of its rows is taken, and that is undone.
LEMMA TryStep ==
  ASSUME NEW N \in Nat, NEW l, NEW O, Open(l, O, N), NEW c \in O,
         NEW r \in InCol(l, Live(l, O), c)
  PROVE  /\ Open(CoverRow(cover(l, c), r), O \ ColsOf(l, r), N)
         /\ Keeps(l, CoverRow(cover(l, c), r), N)
         /\ UncoverRow(CoverRow(cover(l, c), r), r) = cover(l, c)
<1> DEFINE m == cover(l, c)
<1>1. Open(m, O \ {c}, N) /\ Keeps(l, m, N)
  BY CoverStep
<1> HIDE DEF m
<1>2. r \in Live(l, O) /\ l.col[r] = c
  BY DEF InCol
<1>3. PICK a, b, d : IsRow(l, r, a, b, d)
  BY <1>2 DEF Open, Shape, Live
<1>4. IsRow(m, r, a, b, d) /\ m.col = l.col
  BY <1>1, <1>3, KeptRow DEF Keeps
<1>5. l.col[a] \in O \ {c} /\ l.col[b] \in O \ {c} /\ l.col[d] \in O \ {c}
  BY <1>2, <1>3, LiveRow DEF IsRow
<1>6. /\ Open(CoverRow(m, r), (O \ {c}) \ {l.col[a], l.col[b], l.col[d]}, N)
      /\ Keeps(m, CoverRow(m, r), N) /\ UncoverRow(CoverRow(m, r), r) = m
  BY <1>1, <1>4, <1>5, CoverRowStep
<1>7. ColsOf(l, r) = {c, l.col[a], l.col[b], l.col[d]}
  BY <1>2, <1>3, RowIs DEF ColsOf
<1>8. (O \ {c}) \ {l.col[a], l.col[b], l.col[d]} = O \ ColsOf(l, r)
  BY <1>7
<1>9. Keeps(l, CoverRow(m, r), N)
  BY <1>1, <1>6, KeepsTrans
<1> QED BY <1>6, <1>8, <1>9 DEF m

\* Downward from a node of a column that is covered last.
LEMMA DownStep ==
  ASSUME NEW N \in Nat, NEW l, NEW O, Open(l, O, N), NEW c \in O,
         NEW x \in InCol(l, Live(l, O), c) \cup {c}
  PROVE  cover(l, c).down[x] \in InCol(l, Live(l, O), c) \cup {c}
<1> DEFINE m == cover(l, c)
<1>1. LinkedAt(m, c, Live(l, O)) /\ m.col = l.col
  <2>1. LinkedAt(m, c, Live(l, O)) /\ Keeps(l, m, N)
    BY CoverStep
  <2> QED BY <2>1 DEF Keeps
<1> HIDE DEF m
<1>2. Ring(m.down, m.up, c, InCol(l, Live(l, O), c))
  BY <1>1 DEF LinkedAt, InCol
<1>3. Joins(m.down, m.up, c, InCol(l, Live(l, O), c), x)
  BY <1>2 DEF Ring
<1>4. m.down[x] \in InCol(l, Live(l, O), c) \cup {c}
  BY <1>3 DEF Joins
<1> QED BY <1>4 DEF m

\* The open columns are walked from the root.
LEMMA OpenHeads ==
  ASSUME NEW N \in Nat, NEW l, NEW O, Open(l, O, N)
  PROVE  /\ Above(Root, O, N) /\ O \subseteq Heads(l)
         /\ \E s : Circles(s, l.right, l.left, Root, O, N)
<1>1. O \subseteq Heads(l) /\ l \in Mat(N) /\ 1 \in 1..N /\ DOMAIN l.col = 1..N
  BY DEF Open, Shape, Linked, Mat
<1>2. Above(Root, O, N)
  <2>1. ASSUME NEW x \in O PROVE x \in 1..N /\ Root < x
    <3>1. x \in 1..N /\ x # 1
      BY <1>1 DEF Root, Heads
    <3> QED BY <3>1 DEF Root
  <2> QED BY <2>1, <1>1 DEF Above, Root
<1>3. l.left \in [1..N -> 1..N] /\ l.right \in [1..N -> 1..N]
  BY <1>1 DEF Mat
<1>4. Ring(l.right, l.left, Root, O)
  BY DEF Open
<1> QED BY <1>1, <1>2, <1>3, <1>4, RingWalks

\* get_min_column() finds an open column when there is one.
LEMMA MinColumn ==
  ASSUME NEW N \in Nat, NEW l, NEW O, Open(l, O, N), l.left[Root] # Root
  PROVE  get_min_column(l) \in O
<1> DEFINE cols == Walk(l.right, Root)
           least(k) == l.size[cols[k]] <= 1 \/ \A j \in DOMAIN cols : l.size[cols[k]] <= l.size[cols[j]]
           Is(k) == least(k) /\ \A j \in 1..(k - 1) : ~ least(j)
<1>1. PICK s : Circles(s, l.right, l.left, Root, O, N)
  BY OpenHeads
<1>2. /\ cols \in Seq(1..N) /\ Len(cols) \in Nat /\ DOMAIN cols = 1..Len(cols)
      /\ \A k \in 1..Len(cols) : cols[k] \in O
      /\ \A x \in O : \E k \in 1..Len(cols) : cols[k] = x
  BY <1>1 DEF Circles, Sorted
<1> HIDE DEF cols
<1>3. ASSUME NEW k \in 1..Len(cols) PROVE l.size[cols[k]] \in Nat
  <2>1. cols[k] \in O
    BY <1>2
  <2>2. /\ LinkedAt(l, cols[k], Live(l, O)) /\ cols[k] \in Heads(l) /\ Shape(l, N)
        /\ Live(l, O) \subseteq RowNodes(l)
    BY <2>1 DEF Open, Linked
  <2>3. IsFiniteSet(InCol(l, Live(l, O), cols[k]))
    BY <2>2, ColAbove, ShapeIs
  <2> QED BY <2>2, <2>3, FS_CardinalityType DEF LinkedAt
<1>4. 1 \in 1..Len(cols)
  <2>1. PICK x : x \in O
    <3>1. Joins(l.right, l.left, Root, O, Root)
      BY DEF Open, Ring
    <3> QED BY <3>1 DEF Joins
  <2>2. PICK k \in 1..Len(cols) : cols[k] = x
    BY <2>1, <1>2
  <2> QED BY <2>2, <1>2
<1>5. \E k \in 1..Len(cols) : least(k)
  <2> DEFINE V == {l.size[cols[k]] : k \in 1..Len(cols)}
  <2>1. V \subseteq Nat /\ l.size[cols[1]] \in V
    BY <1>3, <1>4
  <2>2. PICK v \in V : \A w \in V : v <= w
    <3> HIDE DEF V
    <3> QED BY <2>1, Least
  <2>3. PICK k \in 1..Len(cols) : v = l.size[cols[k]]
    OBVIOUS
  <2>4. \A j \in 1..Len(cols) : l.size[cols[k]] <= l.size[cols[j]]
    BY <2>2, <2>3
  <2>5. least(k)
    BY <2>4, <1>2
  <2> QED BY <2>5
<1> HIDE DEF least
<1>6. \E k \in 1..Len(cols) : Is(k)
  <2> DEFINE V == {k \in 1..Len(cols) : least(k)}
  <2>1. V \subseteq Nat /\ V # {}
    BY <1>5
  <2>2. PICK v \in V : \A w \in V : v <= w
    <3> HIDE DEF V
    <3> QED BY <2>1, Least
  <2>3. ASSUME NEW j \in 1..(v - 1), least(j) PROVE FALSE
    <3>1. j \in 1..Len(cols) /\ j < v
      BY <1>2
    <3>2. v <= j
      BY <3>1, <2>2, <2>3
    <3> QED BY <3>1, <3>2
  <2> QED BY <2>2, <2>3
<1>7. get_min_column(l) = cols[CHOOSE k \in DOMAIN cols : Is(k)]
  BY DEF get_min_column, cols, least
<1> HIDE DEF Is
<1>8. (CHOOSE k \in DOMAIN cols : Is(k)) \in 1..Len(cols)
  BY <1>2, <1>6
<1> QED BY <1>2, <1>7, <1>8

-----------------------------------------------------------------------------
(* Making the matrix *)

\* g is f and x at the end.
Longer(g, f, N, V, x) == g \in [1..(N + 1) -> V] /\ g[N + 1] = x /\ \A k \in 1..N : g[k] = f[k]

\* Appending to a field makes it longer.
LEMMA AppendIs ==
  ASSUME NEW N \in Nat, NEW T, NEW f \in [1..N -> T], NEW V, T \subseteq V, NEW x \in V
  PROVE  Longer(Append(f, x), f, N, V, x)
<1>1. f \in Seq(V) /\ Len(f) = N
  <2>1. f \in [1..N -> V]
    OBVIOUS
  <2> QED BY <2>1, SequenceOf
<1>2. /\ Append(f, x) \in Seq(V) /\ Len(Append(f, x)) = N + 1
      /\ \A k \in 1..N : Append(f, x)[k] = f[k]
      /\ Append(f, x)[N + 1] = x
  BY <1>1, AppendProperties
<1>3. Append(f, x) \in [1..(N + 1) -> V]
  BY <1>2, LenProperties
<1> QED BY <1>2, <1>3 DEF Longer

\* m is l and one node more.
Grown(l, m, N, c, name) ==
  /\ m \in Mat(N + 1)
  /\ m.col[N + 1] = c /\ m.name[N + 1] = name
  /\ \A x \in 1..N : m.col[x] = l.col[x] /\ m.name[x] = l.name[x]

\* The node is linked to itself.
IsNew(l, m, N) ==
  /\ m.left[N + 1] = N + 1 /\ m.right[N + 1] = N + 1
  /\ m.up[N + 1] = N + 1 /\ m.down[N + 1] = N + 1 /\ m.size[N + 1] = 0
  /\ \A x \in 1..N : /\ m.left[x] = l.left[x] /\ m.right[x] = l.right[x]
                     /\ m.up[x] = l.up[x] /\ m.down[x] = l.down[x] /\ m.size[x] = l.size[x]

\* That is what NewNode makes.
LEMMA NewNodeFields ==
  ASSUME NEW N \in Nat, NEW l \in Mat(N), NEW c \in 0..N, NEW name \in Int
  PROVE  /\ Len(l.left) = N /\ IsNew(l, NewNode(l, c, name), N)
         /\ Grown(l, NewNode(l, c, name), N, IF c = 0 THEN N + 1 ELSE c, name)
<1> DEFINE m == NewNode(l, c, name)
           e == IF c = 0 THEN N + 1 ELSE c
<1>1. /\ l.left \in [1..N -> 1..N] /\ l.right \in [1..N -> 1..N] /\ l.up \in [1..N -> 1..N]
      /\ l.down \in [1..N -> 1..N] /\ l.col \in [1..N -> 1..N] /\ l.name \in [1..N -> Int]
      /\ l.size \in [1..N -> Int]
  BY DEF Mat
<1>2. Len(l.left) = N
  BY <1>1, SequenceOf
<1>3. m = [left |-> Append(l.left, N + 1), right |-> Append(l.right, N + 1),
           up |-> Append(l.up, N + 1), down |-> Append(l.down, N + 1),
           col |-> Append(l.col, e), name |-> Append(l.name, name), size |-> Append(l.size, 0)]
  BY <1>2 DEF NewNode
<1>4. 1..N \subseteq 1..(N + 1) /\ N + 1 \in 1..(N + 1) /\ e \in 1..(N + 1)
  OBVIOUS
<1> HIDE DEF m, e
<1>5. /\ m.left = Append(l.left, N + 1) /\ m.right = Append(l.right, N + 1)
      /\ m.up = Append(l.up, N + 1) /\ m.down = Append(l.down, N + 1)
      /\ m.col = Append(l.col, e) /\ m.name = Append(l.name, name) /\ m.size = Append(l.size, 0)
  BY <1>3
<1>6. /\ m.left \in [1..(N + 1) -> 1..(N + 1)] /\ m.left[N + 1] = N + 1
      /\ \A x \in 1..N : m.left[x] = l.left[x]
  <2>1. Longer(Append(l.left, N + 1), l.left, N, 1..(N + 1), N + 1)
    BY <1>1, <1>4, AppendIs
  <2> QED BY <2>1, <1>5 DEF Longer
<1>7. /\ m.right \in [1..(N + 1) -> 1..(N + 1)] /\ m.right[N + 1] = N + 1
      /\ \A x \in 1..N : m.right[x] = l.right[x]
  <2>1. Longer(Append(l.right, N + 1), l.right, N, 1..(N + 1), N + 1)
    BY <1>1, <1>4, AppendIs
  <2> QED BY <2>1, <1>5 DEF Longer
<1>8. /\ m.up \in [1..(N + 1) -> 1..(N + 1)] /\ m.up[N + 1] = N + 1
      /\ \A x \in 1..N : m.up[x] = l.up[x]
  <2>1. Longer(Append(l.up, N + 1), l.up, N, 1..(N + 1), N + 1)
    BY <1>1, <1>4, AppendIs
  <2> QED BY <2>1, <1>5 DEF Longer
<1>9. /\ m.down \in [1..(N + 1) -> 1..(N + 1)] /\ m.down[N + 1] = N + 1
      /\ \A x \in 1..N : m.down[x] = l.down[x]
  <2>1. Longer(Append(l.down, N + 1), l.down, N, 1..(N + 1), N + 1)
    BY <1>1, <1>4, AppendIs
  <2> QED BY <2>1, <1>5 DEF Longer
<1>10. /\ m.col \in [1..(N + 1) -> 1..(N + 1)] /\ m.col[N + 1] = e
       /\ \A x \in 1..N : m.col[x] = l.col[x]
  <2>1. Longer(Append(l.col, e), l.col, N, 1..(N + 1), e)
    BY <1>1, <1>4, AppendIs
  <2> QED BY <2>1, <1>5 DEF Longer
<1>11. /\ m.name \in [1..(N + 1) -> Int] /\ m.name[N + 1] = name
       /\ \A x \in 1..N : m.name[x] = l.name[x]
  <2>1. Longer(Append(l.name, name), l.name, N, Int, name)
    <3>1. l.name \in [1..N -> Int] /\ Int \subseteq Int /\ name \in Int
      BY <1>1
    <3> QED BY <3>1, AppendIs
  <2> QED BY <2>1, <1>5 DEF Longer
<1>12. /\ m.size \in [1..(N + 1) -> Int] /\ m.size[N + 1] = 0
       /\ \A x \in 1..N : m.size[x] = l.size[x]
  <2>1. Longer(Append(l.size, 0), l.size, N, Int, 0)
    <3>1. l.size \in [1..N -> Int] /\ Int \subseteq Int /\ 0 \in Int
      BY <1>1
    <3> QED BY <3>1, AppendIs
  <2> QED BY <2>1, <1>5 DEF Longer
<1>13. m \in Mat(N + 1)
  BY <1>3, <1>5, <1>6, <1>7, <1>8, <1>9, <1>10, <1>11, <1>12 DEF Mat
<1>14. Grown(l, m, N, e, name)
  BY <1>10, <1>11, <1>13 DEF Grown
<1>15. IsNew(l, m, N)
  BY <1>6, <1>7, <1>8, <1>9, <1>12 DEF IsNew
<1> QED BY <1>2, <1>14, <1>15 DEF m, e

\* m is l with n put to the left of old.
PutLeft(l, m, N, old, n) ==
  /\ m \in Mat(N) /\ m.up = l.up /\ m.down = l.down /\ m.size = l.size
  /\ m.col = l.col /\ m.name = l.name
  /\ \A x \in 1..N :
       /\ m.left[x] = IF x = old THEN n ELSE IF x = n THEN l.left[old] ELSE l.left[x]
       /\ m.right[x] = IF x = l.left[old] THEN n ELSE IF x = n THEN old ELSE l.right[x]

\* That is what put_left does.
LEMMA PutLeftFields ==
  ASSUME NEW N, NEW l \in Mat(N), NEW old \in 1..N, NEW n \in 1..N
  PROVE  PutLeft(l, put_left(l, old, n), N, old, n)
<1> DEFINE m == put_left(l, old, n)
           U == [[l.left EXCEPT ![n] = l.left[old]] EXCEPT ![old] = n]
           D == [[l.right EXCEPT ![n] = old] EXCEPT ![l.left[old]] = n]
<1>1. m = [l EXCEPT !.left = U, !.right = D]
  BY DEF put_left, Mat
<1>2. l.left \in [1..N -> 1..N] /\ l.right \in [1..N -> 1..N] /\ l.left[old] \in 1..N
  BY DEF Mat
<1>3. U \in [1..N -> 1..N] /\ D \in [1..N -> 1..N]
  BY <1>2
<1>4. \A x \in 1..N :
        /\ U[x] = IF x = old THEN n ELSE IF x = n THEN l.left[old] ELSE l.left[x]
        /\ D[x] = IF x = l.left[old] THEN n ELSE IF x = n THEN old ELSE l.right[x]
  BY <1>2
<1> HIDE DEF U, D
<1>5. [l EXCEPT !.left = U, !.right = D] \in Mat(N)
  BY <1>3 DEF Mat
<1>6. /\ m.left = U /\ m.right = D /\ m.up = l.up /\ m.down = l.down /\ m.size = l.size
      /\ m.col = l.col /\ m.name = l.name
  BY <1>1 DEF Mat
<1> HIDE DEF m
<1> QED BY <1>1, <1>4, <1>5, <1>6 DEF m, PutLeft

\* m is l with n put above old.
PutUp(l, m, N, old, n) ==
  /\ m \in Mat(N) /\ m.left = l.left /\ m.right = l.right
  /\ m.col = l.col /\ m.name = l.name
  /\ \A x \in 1..N :
       /\ m.up[x] = IF x = old THEN n ELSE IF x = n THEN l.up[old] ELSE l.up[x]
       /\ m.down[x] = IF x = l.up[old] THEN n ELSE IF x = n THEN old ELSE l.down[x]
       /\ m.size[x] = IF x = old THEN l.size[x] + 1 ELSE l.size[x]

\* That is what put_up does.
LEMMA PutUpFields ==
  ASSUME NEW N, NEW l \in Mat(N), NEW old \in 1..N, NEW n \in 1..N
  PROVE  PutUp(l, put_up(l, old, n), N, old, n)
<1> DEFINE m == put_up(l, old, n)
           U == [[l.up EXCEPT ![n] = l.up[old]] EXCEPT ![old] = n]
           D == [[l.down EXCEPT ![n] = old] EXCEPT ![l.up[old]] = n]
           Z == [l.size EXCEPT ![old] = l.size[old] + 1]
<1>1. m = [l EXCEPT !.up = U, !.down = D, !.size = Z]
  BY DEF put_up, Mat
<1>2. l.up \in [1..N -> 1..N] /\ l.down \in [1..N -> 1..N] /\ l.up[old] \in 1..N
      /\ l.size \in [1..N -> Int] /\ l.size[old] + 1 \in Int
  <2>1. l.up \in [1..N -> 1..N] /\ l.down \in [1..N -> 1..N] /\ l.size \in [1..N -> Int]
    BY DEF Mat
  <2>2. l.up[old] \in 1..N /\ l.size[old] \in Int
    BY <2>1
  <2>3. l.size[old] + 1 \in Int
    BY <2>2
  <2> QED BY <2>1, <2>2, <2>3
<1>3. U \in [1..N -> 1..N] /\ D \in [1..N -> 1..N] /\ Z \in [1..N -> Int]
  BY <1>2
<1>4. \A x \in 1..N :
        /\ U[x] = IF x = old THEN n ELSE IF x = n THEN l.up[old] ELSE l.up[x]
        /\ D[x] = IF x = l.up[old] THEN n ELSE IF x = n THEN old ELSE l.down[x]
        /\ Z[x] = IF x = old THEN l.size[x] + 1 ELSE l.size[x]
  BY <1>2
<1> HIDE DEF U, D, Z
<1>5. [l EXCEPT !.up = U, !.down = D, !.size = Z] \in Mat(N)
  BY <1>3 DEF Mat
<1>6. /\ m.up = U /\ m.down = D /\ m.size = Z /\ m.left = l.left /\ m.right = l.right
      /\ m.col = l.col /\ m.name = l.name
  BY <1>1 DEF Mat
<1> HIDE DEF m
<1> QED BY <1>1, <1>4, <1>5, <1>6 DEF m, PutUp

\* m is l and a node in column c, by itself in its row.
NodeAdded(l, m, N, c, name) ==
  /\ Grown(l, m, N, c, name)
  /\ m.left[N + 1] = N + 1 /\ m.right[N + 1] = N + 1
  /\ \A x \in 1..N : m.left[x] = l.left[x] /\ m.right[x] = l.right[x]

\* One node more leaves the heads as they are.
LEMMA GrownFrame ==
  ASSUME NEW N, NEW l, Frame(l, N), NEW m, NEW c, NEW name, Grown(l, m, N, c, name),
         c \in Heads(l) \cup {N + 1}
  PROVE  /\ Frame(m, N + 1)
         /\ Heads(m) = IF c = N + 1 THEN Heads(l) \cup {N + 1} ELSE Heads(l)
         /\ RowNodes(m) = IF c = N + 1 THEN RowNodes(l) ELSE RowNodes(l) \cup {N + 1}
<1>1. /\ N \in Nat /\ 1 \in 1..N /\ DOMAIN l.col = 1..N /\ l.col[1] = 1
      /\ \A n \in RowNodes(l) : l.col[n] \in Heads(l) /\ l.col[n] < n
  BY DEF Frame, Mat
<1>2. /\ m \in Mat(N + 1) /\ DOMAIN m.col = 1..(N + 1) /\ m.col[N + 1] = c
      /\ \A x \in 1..N : m.col[x] = l.col[x]
  BY DEF Grown, Mat
<1>3. 1..(N + 1) = (1..N) \cup {N + 1} /\ N + 1 \notin 1..N /\ N + 1 # 1
  BY <1>1
<1>4. Heads(m) = IF c = N + 1 THEN Heads(l) \cup {N + 1} ELSE Heads(l)
  BY <1>1, <1>2, <1>3 DEF Heads, Root
<1>5. RowNodes(m) = IF c = N + 1 THEN RowNodes(l) ELSE RowNodes(l) \cup {N + 1}
  BY <1>1, <1>2, <1>3 DEF RowNodes
<1>6. ASSUME NEW n \in RowNodes(m) PROVE m.col[n] \in Heads(m) /\ m.col[n] < n
  <2>1. CASE n \in RowNodes(l)
    <3>1. n \in 1..N
      BY <2>1, <1>1 DEF RowNodes
    <3> QED BY <2>1, <3>1, <1>1, <1>2, <1>4
  <2>2. CASE n \notin RowNodes(l)
    <3>1. n = N + 1 /\ c # N + 1
      BY <2>2, <1>5
    <3>2. c \in Heads(l) /\ c \in 1..N
      BY <3>1, <1>1 DEF Heads
    <3>3. c < N + 1
      BY <3>2, <1>1
    <3> QED BY <3>1, <3>2, <3>3, <1>2, <1>4
  <2> QED BY <2>1, <2>2
<1>7. N + 1 \in Nat /\ 1 \in 1..(N + 1) /\ m.col[1] = 1
  BY <1>1, <1>2
<1> QED BY <1>2, <1>4, <1>5, <1>6, <1>7 DEF Frame

\* A node at the end of a column: the column links it too.
LEMMA NewRowStep ==
  ASSUME NEW N, NEW l, Frame(l, N), Linked(l, Heads(l), RowNodes(l)), NEW c \in Heads(l),
         NEW name \in Int
  PROVE  LET m == put_up(NewNode(l, c, name), c, N + 1)
         IN  /\ NodeAdded(l, m, N, c, name) /\ Frame(m, N + 1)
             /\ Heads(m) = Heads(l) /\ RowNodes(m) = RowNodes(l) \cup {N + 1}
             /\ Linked(m, Heads(m), RowNodes(m))
<1> DEFINE q == NewNode(l, c, name)
           m == put_up(q, c, N + 1)
<1>0. N \in Nat /\ l \in Mat(N) /\ 1 \in 1..N /\ DOMAIN l.col = 1..N
  BY DEF Frame, Mat
<1>1. /\ N \in Nat /\ l \in Mat(N) /\ 1 \in 1..N /\ c \in 1..N /\ DOMAIN l.col = 1..N
      /\ N + 1 \in 1..(N + 1) /\ c \in 1..(N + 1) /\ c \in 0..N /\ c # 0 /\ c # N + 1
  <2>1. c \in 1..N
    BY <1>0 DEF Heads
  <2> QED BY <2>1, <1>0
<1>2. IsNew(l, q, N) /\ Grown(l, q, N, c, name)
  <2>1. IsNew(l, q, N) /\ Grown(l, q, N, IF c = 0 THEN N + 1 ELSE c, name)
    BY <1>1, NewNodeFields
  <2> QED BY <2>1, <1>1
<1> HIDE DEF q
<1>3. /\ q \in Mat(N + 1)
      /\ q.left[N + 1] = N + 1 /\ q.right[N + 1] = N + 1
      /\ q.up[N + 1] = N + 1 /\ q.down[N + 1] = N + 1 /\ q.size[N + 1] = 0
  BY <1>2 DEF Grown, IsNew
<1>4. \A x \in 1..N : /\ q.left[x] = l.left[x] /\ q.right[x] = l.right[x]
                      /\ q.up[x] = l.up[x] /\ q.down[x] = l.down[x] /\ q.size[x] = l.size[x]
  BY <1>2 DEF IsNew
<1>5. PutUp(q, m, N + 1, c, N + 1)
  BY <1>1, <1>3, PutUpFields
<1> HIDE DEF m
<1>6. /\ m \in Mat(N + 1) /\ m.left = q.left /\ m.right = q.right
      /\ m.col = q.col /\ m.name = q.name
  BY <1>5 DEF PutUp
<1>7. \A x \in 1..(N + 1) :
        /\ m.up[x] = IF x = c THEN N + 1 ELSE IF x = N + 1 THEN q.up[c] ELSE q.up[x]
        /\ m.down[x] = IF x = q.up[c] THEN N + 1 ELSE IF x = N + 1 THEN c ELSE q.down[x]
        /\ m.size[x] = IF x = c THEN q.size[x] + 1 ELSE q.size[x]
  BY <1>5 DEF PutUp
<1>8. NodeAdded(l, m, N, c, name) /\ Grown(l, m, N, c, name)
  BY <1>3, <1>4, <1>6, <1>2 DEF NodeAdded, Grown
<1>9. Frame(m, N + 1) /\ Heads(m) = Heads(l) /\ RowNodes(m) = RowNodes(l) \cup {N + 1}
  BY <1>1, <1>8, GrownFrame
<1>10. \A x \in 1..N : m.col[x] = l.col[x]
  BY <1>8 DEF Grown
<1>11. m.col[N + 1] = c
  BY <1>8 DEF Grown
<1>12. N + 1 \notin RowNodes(l) /\ RowNodes(l) \subseteq 1..N /\ N + 1 \notin 1..N
  BY <1>1 DEF RowNodes
<1>13. ASSUME NEW x \in Heads(l) PROVE LinkedAt(m, x, RowNodes(m))
  <2> DEFINE S == InCol(l, RowNodes(l), x)
  <2>1. /\ Above(x, S, N) /\ IsFiniteSet(S) /\ Ring(l.down, l.up, x, S)
        /\ l.size[x] = Cardinality(S)
    <3>1. Above(x, S, N) /\ IsFiniteSet(S)
      BY ColAbove
    <3> QED BY <3>1 DEF Linked, LinkedAt
  <2>2. x \in 1..N /\ S \cup {x} \subseteq 1..N /\ N + 1 \notin S
    BY <2>1, <1>1 DEF Above
  <2>3. Joins(l.down, l.up, x, S, x)
    BY <2>1 DEF Ring
  <2>4. l.up[x] \in S \cup {x} /\ l.down[l.up[x]] = x
    BY <2>3 DEF Joins
  <2> HIDE DEF S
  <2>5. CASE x = c
    <3>1. InCol(m, RowNodes(m), x) = S \cup {N + 1}
      BY <2>5, <1>9, <1>10, <1>11, <1>12 DEF InCol, S
    <3>2. q.up[c] = l.up[c] /\ l.up[c] \in 1..N
      BY <2>2, <2>4, <2>5, <1>4
    <3>3. Inserts(l.down, l.up, m.down, m.up, x, S, N + 1)
      <4>1. /\ m.down[N + 1] = x /\ m.up[N + 1] = l.up[x]
            /\ m.down[l.up[x]] = N + 1 /\ m.up[x] = N + 1
        BY <2>5, <3>2, <1>1, <1>7, <1>12
      <4>2. ASSUME NEW y \in S \cup {x}
            PROVE  (y # l.up[x] => m.down[y] = l.down[y]) /\ (y # x => m.up[y] = l.up[y])
        <5>1. y \in 1..N /\ y # N + 1 /\ y \in 1..(N + 1)
          BY <2>2, <1>1
        <5>2. q.up[y] = l.up[y] /\ q.down[y] = l.down[y]
          BY <5>1, <1>4
        <5> QED BY <5>1, <5>2, <2>5, <3>2, <1>7
      <4> QED BY <4>1, <4>2 DEF Inserts
    <3>4. Ring(m.down, m.up, x, S \cup {N + 1})
      BY <2>1, <3>3, <1>1, RingAppend
    <3>5. Cardinality(S \cup {N + 1}) = Cardinality(S) + 1
      BY <2>1, <2>2, FS_AddElement
    <3>6. m.size[x] = l.size[x] + 1
      BY <2>2, <2>5, <1>1, <1>4, <1>7
    <3> QED BY <2>1, <3>1, <3>4, <3>5, <3>6 DEF LinkedAt
  <2>6. CASE x # c
    <3>1. InCol(m, RowNodes(m), x) = S
      BY <2>6, <1>9, <1>10, <1>11, <1>12 DEF InCol, S
    <3>2. LinkedAt(l, c, RowNodes(l)) /\ Above(c, InCol(l, RowNodes(l), c), N)
      BY ColAbove DEF Linked
    <3>3. l.up[c] \in InCol(l, RowNodes(l), c) \cup {c}
      BY <3>2 DEF LinkedAt, Ring, Joins
    <3>4. l.up[c] \notin S \cup {x} /\ c \notin S \cup {x}
      BY <3>3, <2>6 DEF InCol, S, Heads, RowNodes
    <3>5. ASSUME NEW y \in S \cup {x} PROVE m.down[y] = l.down[y] /\ m.up[y] = l.up[y]
      <4>1. y \in 1..N /\ y # N + 1 /\ y \in 1..(N + 1) /\ y # c /\ y # l.up[c]
        BY <2>2, <3>4, <1>1
      <4>2. q.up[y] = l.up[y] /\ q.down[y] = l.down[y] /\ q.up[c] = l.up[c]
        BY <4>1, <1>1, <1>4
      <4> QED BY <4>1, <4>2, <1>7
    <3>6. Ring(m.down, m.up, x, S)
      BY <2>1, <3>5, RingSame
    <3>7. m.size[x] = l.size[x]
      BY <2>2, <2>6, <1>1, <1>4, <1>7
    <3> QED BY <2>1, <3>1, <3>6, <3>7 DEF LinkedAt
  <2> QED BY <2>5, <2>6
<1>14. Linked(m, Heads(m), RowNodes(m))
  BY <1>9, <1>13 DEF Linked
<1> QED BY <1>8, <1>9, <1>14 DEF m, q

\* All columns are open, and every node is a head or in a row.
Full(l, N) == Open(l, Heads(l), N)

\* Every row is live then.
LEMMA LiveAll ==
  ASSUME NEW N, NEW l, Shape(l, N)
  PROVE  Live(l, Heads(l)) = RowNodes(l)
<1>1. ASSUME NEW n \in RowNodes(l) PROVE n \in Live(l, Heads(l))
  <2>1. PICK a, b, d : IsRow(l, n, a, b, d)
    BY DEF Shape
  <2>2. a \in RowNodes(l) /\ b \in RowNodes(l) /\ d \in RowNodes(l)
    BY <2>1 DEF IsRow
  <2>3. l.col[n] \in Heads(l) /\ l.col[a] \in Heads(l) /\ l.col[b] \in Heads(l)
        /\ l.col[d] \in Heads(l)
    BY <2>2 DEF Shape
  <2> QED BY <2>1, <2>3, LiveRow
<1> QED BY <1>1 DEF Live

\* The parts of a full matrix.
LEMMA FullIs ==
  ASSUME NEW N, NEW l
  PROVE  Full(l, N) <=> /\ Shape(l, N) /\ Ring(l.right, l.left, Root, Heads(l))
                        /\ Linked(l, Heads(l), RowNodes(l))
BY LiveAll DEF Full, Open

\* Heads come after the root.
LEMMA HeadsAbove ==
  ASSUME NEW N, NEW l, Frame(l, N)
  PROVE  Above(Root, Heads(l), N)
<1>1. N \in Nat /\ 1 \in 1..N /\ DOMAIN l.col = 1..N
  BY DEF Frame, Mat
<1>2. ASSUME NEW x \in Heads(l) PROVE x \in 1..N /\ Root < x
  <2>1. x \in 1..N /\ x # 1
    BY <1>1 DEF Root, Heads
  <2> QED BY <2>1 DEF Root
<1> QED BY <1>1, <1>2 DEF Above, Root

\* append_column() keeps a matrix full.
LEMMA AppendColumnStep ==
  ASSUME NEW N, NEW l, Full(l, N), RowNodes(l) = {}, NEW name \in Int
  PROVE  /\ Full(append_column(l, name), N + 1) /\ RowNodes(append_column(l, name)) = {}
         /\ Heads(append_column(l, name)) = Heads(l) \cup {N + 1}
         /\ Grown(l, append_column(l, name), N, N + 1, name)
<1> DEFINE q == NewNode(l, 0, name)
           m == put_left(q, Root, N + 1)
           H == Heads(l)
<1>1. Frame(l, N) /\ Ring(l.right, l.left, Root, H) /\ Linked(l, H, {})
  BY FullIs, ShapeIs
<1>2. /\ N \in Nat /\ l \in Mat(N) /\ Root \in 1..N /\ DOMAIN l.col = 1..N /\ 0 \in 0..N
      /\ N + 1 \in 1..(N + 1) /\ Root \in 1..(N + 1) /\ Root # N + 1
  <2>1. N \in Nat /\ l \in Mat(N) /\ 1 \in 1..N /\ DOMAIN l.col = 1..N
    BY <1>1 DEF Frame, Mat
  <2> QED BY <2>1 DEF Root
<1>3. Len(l.left) = N /\ IsNew(l, q, N) /\ Grown(l, q, N, N + 1, name)
  <2>1. /\ Len(l.left) = N /\ IsNew(l, q, N)
        /\ Grown(l, q, N, IF 0 = 0 THEN N + 1 ELSE 0, name)
    BY <1>2, NewNodeFields
  <2> QED BY <2>1
<1>4. append_column(l, name) = m
  BY <1>3 DEF append_column
<1> HIDE DEF q
<1>5. q \in Mat(N + 1)
  BY <1>3 DEF Grown
<1>6. PutLeft(q, m, N + 1, Root, N + 1)
  BY <1>2, <1>5, PutLeftFields
<1> HIDE DEF m
<1>7. /\ m \in Mat(N + 1) /\ m.up = q.up /\ m.down = q.down /\ m.size = q.size
      /\ m.col = q.col /\ m.name = q.name
  BY <1>6 DEF PutLeft
<1>8. Grown(l, m, N, N + 1, name)
  BY <1>3, <1>7 DEF Grown
<1>9. Frame(m, N + 1) /\ Heads(m) = H \cup {N + 1} /\ RowNodes(m) = {}
  BY <1>1, <1>8, GrownFrame
<1>10. Above(Root, H, N)
  BY <1>1, HeadsAbove
<1>11. Inserts(l.right, l.left, m.right, m.left, Root, H, N + 1)
  <2>1. Joins(l.right, l.left, Root, H, Root)
    BY <1>1 DEF Ring
  <2>2. l.left[Root] \in H \cup {Root}
    BY <2>1 DEF Joins
  <2>3. \A x \in H \cup {Root} : x \in 1..N /\ x # N + 1 /\ x \in 1..(N + 1)
    BY <1>2, <1>10 DEF Above
  <2>4. \A x \in 1..N : q.left[x] = l.left[x] /\ q.right[x] = l.right[x]
    BY <1>3 DEF IsNew
  <2>5. \A x \in 1..(N + 1) :
           /\ m.left[x] = IF x = Root THEN N + 1 ELSE IF x = N + 1 THEN q.left[Root] ELSE q.left[x]
           /\ m.right[x] = IF x = q.left[Root] THEN N + 1 ELSE IF x = N + 1 THEN Root ELSE q.right[x]
    BY <1>6 DEF PutLeft
  <2>6. q.left[Root] = l.left[Root] /\ l.left[Root] \in 1..N
    BY <2>2, <2>3, <2>4, <1>2
  <2>7. /\ m.right[N + 1] = Root /\ m.left[N + 1] = l.left[Root]
        /\ m.right[l.left[Root]] = N + 1 /\ m.left[Root] = N + 1
    BY <2>2, <2>3, <2>5, <2>6, <1>2
  <2>8. ASSUME NEW x \in H \cup {Root}
        PROVE  (x # l.left[Root] => m.right[x] = l.right[x]) /\ (x # Root => m.left[x] = l.left[x])
    <3>1. x \in 1..N /\ x # N + 1 /\ x \in 1..(N + 1)
      BY <2>3
    <3> QED BY <3>1, <2>4, <2>5, <2>6
  <2> QED BY <2>7, <2>8 DEF Inserts
<1>12. Ring(m.right, m.left, Root, H \cup {N + 1})
  BY <1>1, <1>2, <1>10, <1>11, RingAppend
<1>13. ASSUME NEW x \in Heads(m) PROVE LinkedAt(m, x, {})
  <2>1. /\ \A y \in 1..N : q.up[y] = l.up[y] /\ q.down[y] = l.down[y] /\ q.size[y] = l.size[y]
        /\ q.up[N + 1] = N + 1 /\ q.down[N + 1] = N + 1 /\ q.size[N + 1] = 0
    BY <1>3 DEF IsNew
  <2>2. InCol(m, {}, x) = {} /\ InCol(l, {}, x) = {} /\ Cardinality({}) = 0
    BY FS_EmptySet DEF InCol
  <2>3. m.down[x] = x /\ m.up[x] = x /\ m.size[x] = 0
    <3>1. CASE x = N + 1
      BY <3>1, <2>1, <1>7
    <3>2. CASE x # N + 1
      <4>1. x \in H /\ x \in 1..N
        BY <3>2, <1>2, <1>9 DEF Heads
      <4>2. LinkedAt(l, x, {})
        BY <4>1, <1>1 DEF Linked
      <4>3. Joins(l.down, l.up, x, {}, x) /\ l.size[x] = 0
        BY <4>2, <2>2 DEF LinkedAt, Ring
      <4>4. l.down[x] = x /\ l.up[x] = x
        BY <4>3 DEF Joins
      <4> QED BY <4>1, <4>3, <4>4, <2>1, <1>7
    <3> QED BY <3>1, <3>2
  <2>4. Ring(m.down, m.up, x, {})
    BY <2>3 DEF Ring, Joins
  <2> QED BY <2>2, <2>3, <2>4 DEF LinkedAt
<1>14. Full(m, N + 1)
  <2>1. Shape(m, N + 1)
    BY <1>9, ShapeIs
  <2>2. Linked(m, Heads(m), RowNodes(m))
    BY <1>9, <1>13 DEF Linked
  <2> QED BY <2>1, <2>2, <1>9, <1>12, FullIs
<1> QED BY <1>4, <1>8, <1>9, <1>14

-----------------------------------------------------------------------------
(* A row *)

\* m is l and a node in the column of that name.
RowNodeAdded(l, m, N, c, name) ==
  /\ NodeAdded(l, m, N, c, name) /\ c \in Heads(l) /\ l.name[c] = name
  /\ Frame(m, N + 1) /\ Heads(m) = Heads(l) /\ RowNodes(m) = RowNodes(l) \cup {N + 1}
  /\ Linked(m, Heads(m), RowNodes(m))

\* That is what new_row() makes.
LEMMA NewRowAdds ==
  ASSUME NEW N, NEW l, Frame(l, N), Linked(l, Heads(l), RowNodes(l)),
         NEW name \in Int, \E c \in Heads(l) : l.name[c] = name
  PROVE  \E c : RowNodeAdded(l, new_row(l, name), N, c, name)
<1> DEFINE Is(c) == c # Root /\ l.name[c] = name /\ l.col[c] = c
           c == CHOOSE x \in DOMAIN l.col : Is(x)
<1>1. \E x \in DOMAIN l.col : Is(x)
  BY DEF Heads
<1>2. c \in DOMAIN l.col /\ Is(c)
  BY <1>1
<1> HIDE DEF c
<1>3. c \in Heads(l) /\ l.name[c] = name
  BY <1>2 DEF Heads
<1>4. Len(l.left) = N
  BY SequenceOf DEF Frame, Mat
<1>5. new_row(l, name) = put_up(NewNode(l, c, name), c, N + 1)
  BY <1>4 DEF new_row, c
<1>6. RowNodeAdded(l, new_row(l, name), N, c, name)
  BY <1>3, <1>5, NewRowStep DEF RowNodeAdded
<1> QED BY <1>6

\* z is l with n2, n3, n4 put to the left of n1.
RowPut(l, z, M, n1, n2, n3, n4) ==
  /\ z \in Mat(M) /\ z.up = l.up /\ z.down = l.down /\ z.size = l.size
  /\ z.col = l.col /\ z.name = l.name
  /\ z.right[n1] = n2 /\ z.right[n2] = n3 /\ z.right[n3] = n4 /\ z.right[n4] = n1
  /\ z.left[n2] = n1 /\ z.left[n3] = n2 /\ z.left[n4] = n3 /\ z.left[n1] = n4
  /\ \A x \in (1..M) \ {n1, n2, n3, n4} : z.left[x] = l.left[x] /\ z.right[x] = l.right[x]

\* Three nodes are put to the left of n1: a ring of four.
LEMMA PutRow ==
  ASSUME NEW M, NEW l \in Mat(M), NEW n1 \in 1..M, NEW n2 \in 1..M, NEW n3 \in 1..M, NEW n4 \in 1..M,
         n1 # n2, n1 # n3, n1 # n4, n2 # n3, n2 # n4, n3 # n4, l.left[n1] = n1, NEW z,
         z = put_left(put_left(put_left(l, n1, n2), n1, n3), n1, n4)
  PROVE  RowPut(l, z, M, n1, n2, n3, n4)
<1> DEFINE p == put_left(l, n1, n2)
           q == put_left(p, n1, n3)
<1>1. PutLeft(l, p, M, n1, n2)
  BY PutLeftFields
<1> HIDE DEF p
<1>2. PutLeft(p, q, M, n1, n3)
  <2>1. p \in Mat(M)
    BY <1>1 DEF PutLeft
  <2> QED BY <2>1, PutLeftFields
<1> HIDE DEF q
<1>3. PutLeft(q, z, M, n1, n4)
  <2>1. q \in Mat(M)
    BY <1>2 DEF PutLeft
  <2>2. z = put_left(q, n1, n4)
    BY DEF p, q
  <2>3. PutLeft(q, put_left(q, n1, n4), M, n1, n4)
    BY <2>1, PutLeftFields
  <2> QED BY <2>2, <2>3
<1>4. \A x \in 1..M :
        /\ p.left[x] = IF x = n1 THEN n2 ELSE IF x = n2 THEN n1 ELSE l.left[x]
        /\ p.right[x] = IF x = n1 THEN n2 ELSE IF x = n2 THEN n1 ELSE l.right[x]
  BY <1>1 DEF PutLeft
<1>5. p.left[n1] = n2
  BY <1>4
<1>6. \A x \in 1..M :
        /\ q.left[x] = IF x = n1 THEN n3 ELSE IF x = n3 THEN n2 ELSE p.left[x]
        /\ q.right[x] = IF x = n2 THEN n3 ELSE IF x = n3 THEN n1 ELSE p.right[x]
  BY <1>2, <1>5 DEF PutLeft
<1>7. q.left[n1] = n3
  BY <1>6
<1>8. \A x \in 1..M :
        /\ z.left[x] = IF x = n1 THEN n4 ELSE IF x = n4 THEN n3 ELSE q.left[x]
        /\ z.right[x] = IF x = n3 THEN n4 ELSE IF x = n4 THEN n1 ELSE q.right[x]
  BY <1>3, <1>7 DEF PutLeft
<1>9. /\ z \in Mat(M) /\ z.up = l.up /\ z.down = l.down /\ z.size = l.size
      /\ z.col = l.col /\ z.name = l.name
  BY <1>1, <1>2, <1>3 DEF PutLeft
<1>10. /\ z.right[n1] = n2 /\ z.right[n2] = n3 /\ z.right[n3] = n4 /\ z.right[n4] = n1
       /\ z.left[n2] = n1 /\ z.left[n3] = n2 /\ z.left[n4] = n3 /\ z.left[n1] = n4
  BY <1>4, <1>6, <1>8
<1>11. \A x \in (1..M) \ {n1, n2, n3, n4} : z.left[x] = l.left[x] /\ z.right[x] = l.right[x]
  BY <1>4, <1>6, <1>8
<1> QED BY <1>9, <1>10, <1>11 DEF RowPut

\* z is l and a row with the columns of four names.
RowAdded(l, z, N, n0, n1, n2, n3) ==
  /\ Full(z, N + 4) /\ Heads(z) = Heads(l) /\ IsRow(z, N + 1, N + 2, N + 3, N + 4)
  /\ RowNodes(z) = RowNodes(l) \cup {N + 1, N + 2, N + 3, N + 4}
  /\ z.name[N + 1] = n0 /\ z.name[N + 2] = n1 /\ z.name[N + 3] = n2 /\ z.name[N + 4] = n3
  /\ \A x \in 1..N : z.col[x] = l.col[x] /\ z.name[x] = l.name[x]
  /\ \A x \in {N + 1, N + 2, N + 3, N + 4} : z.name[z.col[x]] = z.name[x]
  /\ \A n \in RowNodes(l) : z.left[n] = l.left[n] /\ z.right[n] = l.right[n]

\* Four nodes in the columns of four names, put into a ring.
Four(l, N, n0, n1, n2, n3) ==
  LET made == new_row(new_row(new_row(new_row(l, n0), n1), n2), n3)
  IN  put_left(put_left(put_left(made, N + 1, N + 2), N + 1, N + 3), N + 1, N + 4)

\* They are a row, and the matrix is full.
LEMMA FourStep ==
  ASSUME NEW N, NEW l, Full(l, N), NEW n0 \in Int, NEW n1 \in Int, NEW n2 \in Int, NEW n3 \in Int,
         n0 # n1, n0 # n2, n0 # n3, n1 # n2, n1 # n3, n2 # n3,
         \A name \in {n0, n1, n2, n3} : \E c \in Heads(l) : l.name[c] = name
  PROVE  RowAdded(l, Four(l, N, n0, n1, n2, n3), N, n0, n1, n2, n3)
<1> DEFINE m1 == new_row(l, n0)
           m2 == new_row(m1, n1)
           m3 == new_row(m2, n2)
           m4 == new_row(m3, n3)
           z == Four(l, N, n0, n1, n2, n3)
<1>1. /\ Shape(l, N) /\ Frame(l, N) /\ Linked(l, Heads(l), RowNodes(l))
      /\ Ring(l.right, l.left, Root, Heads(l))
  BY FullIs, ShapeIs
<1>2. N \in Nat /\ DOMAIN l.col = 1..N /\ Root \in 1..N
  <2>1. N \in Nat /\ DOMAIN l.col = 1..N /\ 1 \in 1..N
    BY <1>1 DEF Frame, Mat
  <2> QED BY <2>1 DEF Root
<1>3. Heads(l) \subseteq 1..N /\ RowNodes(l) \subseteq 1..N
  BY <1>2 DEF Heads, RowNodes
<1>4. \E c : RowNodeAdded(l, m1, N, c, n0)
  BY <1>1, NewRowAdds
<1> HIDE DEF m1
<1>5. PICK c1 : RowNodeAdded(l, m1, N, c1, n0)
  BY <1>4
<1>6. /\ Frame(m1, N + 1) /\ Linked(m1, Heads(m1), RowNodes(m1))
      /\ Heads(m1) = Heads(l) /\ RowNodes(m1) = RowNodes(l) \cup {N + 1}
      /\ \A x \in 1..N : /\ m1.col[x] = l.col[x] /\ m1.name[x] = l.name[x]
                         /\ m1.left[x] = l.left[x] /\ m1.right[x] = l.right[x]
      /\ m1.col[N + 1] = c1 /\ m1.name[N + 1] = n0 /\ m1.left[N + 1] = N + 1
      /\ c1 \in Heads(l) /\ l.name[c1] = n0
  BY <1>5 DEF RowNodeAdded, NodeAdded, Grown
<1>7. \E c : RowNodeAdded(m1, m2, N + 1, c, n1)
  <2>1. \E c \in Heads(m1) : m1.name[c] = n1
    BY <1>3, <1>6
  <2> QED BY <2>1, <1>6, NewRowAdds
<1> HIDE DEF m2
<1>8. PICK c2 : RowNodeAdded(m1, m2, N + 1, c2, n1)
  BY <1>7
<1>9. (N + 1) + 1 = N + 2 /\ (N + 2) + 1 = N + 3 /\ (N + 3) + 1 = N + 4
  BY <1>2
<1>10. /\ Frame(m2, N + 2) /\ Linked(m2, Heads(m2), RowNodes(m2))
       /\ Heads(m2) = Heads(l) /\ RowNodes(m2) = RowNodes(m1) \cup {N + 2}
       /\ \A x \in 1..(N + 1) : /\ m2.col[x] = m1.col[x] /\ m2.name[x] = m1.name[x]
                                /\ m2.left[x] = m1.left[x] /\ m2.right[x] = m1.right[x]
       /\ m2.col[N + 2] = c2 /\ m2.name[N + 2] = n1
       /\ c2 \in Heads(l) /\ m1.name[c2] = n1
  BY <1>6, <1>8, <1>9 DEF RowNodeAdded, NodeAdded, Grown
<1>11. \E c : RowNodeAdded(m2, m3, N + 2, c, n2)
  <2>1. \E c \in Heads(m2) : m2.name[c] = n2
    <3>1. PICK c \in Heads(l) : l.name[c] = n2
      OBVIOUS
    <3>2. c \in 1..N /\ c \in 1..(N + 1)
      BY <1>2, <1>3
    <3> QED BY <3>1, <3>2, <1>6, <1>10
  <2> QED BY <2>1, <1>10, NewRowAdds
<1> HIDE DEF m3
<1>12. PICK c3 : RowNodeAdded(m2, m3, N + 2, c3, n2)
  BY <1>11
<1>13. /\ Frame(m3, N + 3) /\ Linked(m3, Heads(m3), RowNodes(m3))
       /\ Heads(m3) = Heads(l) /\ RowNodes(m3) = RowNodes(m2) \cup {N + 3}
       /\ \A x \in 1..(N + 2) : /\ m3.col[x] = m2.col[x] /\ m3.name[x] = m2.name[x]
                                /\ m3.left[x] = m2.left[x] /\ m3.right[x] = m2.right[x]
       /\ m3.col[N + 3] = c3 /\ m3.name[N + 3] = n2
       /\ c3 \in Heads(l) /\ m2.name[c3] = n2
  BY <1>9, <1>10, <1>12 DEF RowNodeAdded, NodeAdded, Grown
<1>14. \E c : RowNodeAdded(m3, m4, N + 3, c, n3)
  <2>1. \E c \in Heads(m3) : m3.name[c] = n3
    <3>1. PICK c \in Heads(l) : l.name[c] = n3
      OBVIOUS
    <3>2. c \in 1..N /\ c \in 1..(N + 1) /\ c \in 1..(N + 2)
      BY <1>2, <1>3
    <3> QED BY <3>1, <3>2, <1>6, <1>10, <1>13
  <2> QED BY <2>1, <1>13, NewRowAdds
<1> HIDE DEF m4
<1>15. PICK c4 : RowNodeAdded(m3, m4, N + 3, c4, n3)
  BY <1>14
<1>16. /\ Frame(m4, N + 4) /\ Linked(m4, Heads(m4), RowNodes(m4))
       /\ Heads(m4) = Heads(l) /\ RowNodes(m4) = RowNodes(m3) \cup {N + 4}
       /\ \A x \in 1..(N + 3) : /\ m4.col[x] = m3.col[x] /\ m4.name[x] = m3.name[x]
                                /\ m4.left[x] = m3.left[x] /\ m4.right[x] = m3.right[x]
       /\ m4.col[N + 4] = c4 /\ m4.name[N + 4] = n3
       /\ c4 \in Heads(l) /\ m3.name[c4] = n3
  BY <1>9, <1>13, <1>15 DEF RowNodeAdded, NodeAdded, Grown
<1>17. ASSUME NEW x \in 1..N
       PROVE  /\ m4.col[x] = l.col[x] /\ m4.name[x] = l.name[x]
              /\ m4.left[x] = l.left[x] /\ m4.right[x] = l.right[x]
  <2>1. x \in 1..(N + 1) /\ x \in 1..(N + 2) /\ x \in 1..(N + 3)
    BY <1>2
  <2> QED BY <2>1, <1>6, <1>10, <1>13, <1>16
<1>18. /\ N + 1 \in 1..(N + 1) /\ N + 1 \in 1..(N + 2) /\ N + 1 \in 1..(N + 3)
       /\ N + 2 \in 1..(N + 2) /\ N + 2 \in 1..(N + 3) /\ N + 3 \in 1..(N + 3)
  BY <1>2
<1>19. /\ m4.col[N + 1] = c1 /\ m4.name[N + 1] = n0
       /\ m4.col[N + 2] = c2 /\ m4.name[N + 2] = n1
       /\ m4.col[N + 3] = c3 /\ m4.name[N + 3] = n2
       /\ m4.col[N + 4] = c4 /\ m4.name[N + 4] = n3
  BY <1>6, <1>10, <1>13, <1>16, <1>18
<1>20. m4.left[N + 1] = N + 1
  BY <1>6, <1>10, <1>13, <1>16, <1>18
<1>21. /\ c1 \in 1..N /\ c2 \in 1..N /\ c3 \in 1..N /\ c4 \in 1..N
       /\ m4.name[c1] = n0 /\ m4.name[c2] = n1 /\ m4.name[c3] = n2 /\ m4.name[c4] = n3
  <2>1. c1 \in 1..N /\ c2 \in 1..N /\ c3 \in 1..N /\ c4 \in 1..N
    BY <1>3, <1>6, <1>10, <1>13, <1>16
  <2>2. /\ c2 \in 1..(N + 1) /\ c3 \in 1..(N + 1) /\ c4 \in 1..(N + 1)
        /\ c3 \in 1..(N + 2) /\ c4 \in 1..(N + 2) /\ c4 \in 1..(N + 3)
    BY <2>1, <1>2, SMTT(30)
  <2>3. l.name[c1] = n0 /\ m1.name[c2] = n1 /\ m2.name[c3] = n2 /\ m3.name[c4] = n3
    BY <1>6, <1>10, <1>13, <1>16
  <2>4. l.name[c2] = n1
    BY <2>1, <2>3, <1>6
  <2>5. m1.name[c3] = n2
    BY <2>2, <2>3, <1>10
  <2>6. l.name[c3] = n2
    BY <2>1, <2>5, <1>6
  <2>7. m2.name[c4] = n3
    BY <2>2, <2>3, <1>13
  <2>8. m1.name[c4] = n3
    BY <2>2, <2>7, <1>10
  <2>9. l.name[c4] = n3
    BY <2>1, <2>8, <1>6
  <2> QED BY <2>1, <2>3, <2>4, <2>6, <2>9, <1>17
<1>22. c1 # c2 /\ c1 # c3 /\ c1 # c4 /\ c2 # c3 /\ c2 # c4 /\ c3 # c4
  BY <1>21
<1>23. RowNodes(m4) = RowNodes(l) \cup {N + 1, N + 2, N + 3, N + 4}
  BY <1>6, <1>10, <1>13, <1>16
<1>24. /\ N + 1 \in 1..(N + 4) /\ N + 2 \in 1..(N + 4) /\ N + 3 \in 1..(N + 4)
       /\ N + 4 \in 1..(N + 4) /\ N + 1 # N + 2 /\ N + 1 # N + 3 /\ N + 1 # N + 4
       /\ N + 2 # N + 3 /\ N + 2 # N + 4 /\ N + 3 # N + 4
       /\ \A x \in 1..N : x \in (1..(N + 4)) \ {N + 1, N + 2, N + 3, N + 4}
  BY <1>2
<1>25. z = put_left(put_left(put_left(m4, N + 1, N + 2), N + 1, N + 3), N + 1, N + 4)
  BY DEF Four, m1, m2, m3, m4
<1> HIDE DEF z
<1>26. /\ z \in Mat(N + 4) /\ z.up = m4.up /\ z.down = m4.down /\ z.size = m4.size
       /\ z.col = m4.col /\ z.name = m4.name
       /\ z.right[N + 1] = N + 2 /\ z.right[N + 2] = N + 3 /\ z.right[N + 3] = N + 4
       /\ z.right[N + 4] = N + 1
       /\ z.left[N + 2] = N + 1 /\ z.left[N + 3] = N + 2 /\ z.left[N + 4] = N + 3
       /\ z.left[N + 1] = N + 4
       /\ \A x \in (1..(N + 4)) \ {N + 1, N + 2, N + 3, N + 4} :
            z.left[x] = m4.left[x] /\ z.right[x] = m4.right[x]
  <2>1. m4 \in Mat(N + 4)
    BY <1>16 DEF Frame
  <2>2. m4.left[N + 1] = N + 1
    BY <1>20
  <2>3. RowPut(m4, z, N + 4, N + 1, N + 2, N + 3, N + 4)
    <3> DEFINE M == N + 4  x1 == N + 1  x2 == N + 2  x3 == N + 3  x4 == N + 4
    <3>1. /\ x1 \in 1..M /\ x2 \in 1..M /\ x3 \in 1..M /\ x4 \in 1..M
          /\ x1 # x2 /\ x1 # x3 /\ x1 # x4 /\ x2 # x3 /\ x2 # x4 /\ x3 # x4
      BY <1>24
    <3>2. m4 \in Mat(M) /\ m4.left[x1] = x1
      BY <2>1, <2>2
    <3>3. z = put_left(put_left(put_left(m4, x1, x2), x1, x3), x1, x4)
      BY <1>25
    <3> HIDE DEF M, x1, x2, x3, x4
    <3>4. RowPut(m4, z, M, x1, x2, x3, x4)
      BY <3>1, <3>2, <3>3, PutRow
    <3> QED BY <3>4 DEF M, x1, x2, x3, x4
  <2> QED BY <2>3 DEF RowPut
<1>27. ASSUME NEW x \in 1..N
       PROVE  /\ z.col[x] = l.col[x] /\ z.name[x] = l.name[x]
              /\ z.left[x] = l.left[x] /\ z.right[x] = l.right[x]
  BY <1>17, <1>24, <1>26
<1>28. Heads(z) = Heads(l) /\ RowNodes(z) = RowNodes(m4) /\ Heads(z) = Heads(m4)
  <2>1. Heads(z) = Heads(m4) /\ RowNodes(z) = RowNodes(m4)
    BY <1>26 DEF Heads, RowNodes
  <2> QED BY <2>1, <1>16
<1>29. Frame(z, N + 4)
  BY <1>16, <1>26, <1>28 DEF Frame
<1>30. Linked(z, Heads(z), RowNodes(z))
  BY <1>16, <1>26, <1>28 DEF Linked, LinkedAt, InCol
<1>31. Ring(z.right, z.left, Root, Heads(z))
  <2>1. \A x \in Heads(l) \cup {Root} : x \in 1..N
    BY <1>2, <1>3
  <2>2. \A x \in Heads(l) \cup {Root} : z.right[x] = l.right[x] /\ z.left[x] = l.left[x]
    BY <2>1, <1>27
  <2> QED BY <2>2, <1>1, <1>28, RingSame
<1>32. IsRow(z, N + 1, N + 2, N + 3, N + 4)
  <2>1. {N + 1, N + 2, N + 3, N + 4} \subseteq RowNodes(z)
    BY <1>23, <1>28
  <2>2. /\ z.col[N + 1] = c1 /\ z.col[N + 2] = c2 /\ z.col[N + 3] = c3 /\ z.col[N + 4] = c4
    BY <1>19, <1>26
  <2> QED BY <2>1, <2>2, <1>22, <1>26 DEF IsRow
<1>33. ASSUME NEW n \in RowNodes(z) PROVE \E a, b, d : IsRow(z, n, a, b, d)
  <2>1. CASE n \in RowNodes(l)
    <3>1. PICK a, b, d : IsRow(l, n, a, b, d)
      BY <2>1, <1>1 DEF Shape
    <3>2. {n, a, b, d} \subseteq RowNodes(l)
      BY <3>1 DEF IsRow
    <3>3. n \in 1..N /\ a \in 1..N /\ b \in 1..N /\ d \in 1..N
      BY <3>2, <1>3
    <3>4. /\ z.col[n] = l.col[n] /\ z.left[n] = l.left[n] /\ z.right[n] = l.right[n]
          /\ z.col[a] = l.col[a] /\ z.left[a] = l.left[a] /\ z.right[a] = l.right[a]
          /\ z.col[b] = l.col[b] /\ z.left[b] = l.left[b] /\ z.right[b] = l.right[b]
          /\ z.col[d] = l.col[d] /\ z.left[d] = l.left[d] /\ z.right[d] = l.right[d]
      BY <3>3, <1>27
    <3>5. {n, a, b, d} \subseteq RowNodes(z)
      BY <3>2, <1>23, <1>28
    <3>6. IsRow(z, n, a, b, d)
      BY <3>1, <3>4, <3>5 DEF IsRow
    <3> QED BY <3>6
  <2>2. CASE n \in {N + 1, N + 2, N + 3, N + 4}
    <3>1. IsRow(z, N + 2, N + 3, N + 4, N + 1)
      BY <1>32, RowTurns
    <3>2. IsRow(z, N + 3, N + 4, N + 1, N + 2)
      BY <3>1, RowTurns
    <3>3. IsRow(z, N + 4, N + 1, N + 2, N + 3)
      BY <3>2, RowTurns
    <3> QED BY <2>2, <3>1, <3>2, <3>3, <1>32
  <2> QED BY <2>1, <2>2, <1>23, <1>28
<1>34. Full(z, N + 4)
  BY <1>29, <1>30, <1>31, <1>33, ShapeIs, FullIs
<1>35. \A x \in {N + 1, N + 2, N + 3, N + 4} : z.name[z.col[x]] = z.name[x]
  BY <1>19, <1>21, <1>26
<1>36. \A n \in RowNodes(l) : z.left[n] = l.left[n] /\ z.right[n] = l.right[n]
  BY <1>3, <1>27
<1>37. z.name[N + 1] = n0 /\ z.name[N + 2] = n1 /\ z.name[N + 3] = n2 /\ z.name[N + 4] = n3
  BY <1>19, <1>26
<1> QED BY <1>23, <1>27, <1>28, <1>32, <1>34, <1>35, <1>36, <1>37 DEF RowAdded, z

-----------------------------------------------------------------------------
(* The names of columns *)

\* BoxSide is 1, 2 or 3, and Side its square.
LEMMA SideIs ==
  /\ BoxSide \in 1..3 /\ Side \in Nat /\ Values = 1..Side /\ Cells = 0..(Side * Side - 1)
  /\ BoxSide = 1 => Side = 1
  /\ BoxSide = 2 => Side = 4
  /\ BoxSide = 3 => Side = 9
BY SolverConstants DEF Side, Values, Cells

\* The values of a triple.
LEMMA RangeThree ==
  ASSUME NEW a, NEW b, NEW c
  PROVE  Range(<<a, b, c>>) = {a, b, c}
<1>1. DOMAIN <<a, b, c>> = {1, 2, 3}
  BY DEF Range
<1>2. \A k \in {1, 2, 3} : <<a, b, c>>[k] \in {a, b, c}
  OBVIOUS
<1>3. <<a, b, c>>[1] = a /\ <<a, b, c>>[2] = b /\ <<a, b, c>>[3] = c
  OBVIOUS
<1> QED BY <1>1, <1>2, <1>3 DEF Range

\* The row, column and box of a cell.
RowIdx(i) == i \div Side
ColIdx(i) == i % Side
BoxIdx(i) == ((i \div Side) \div BoxSide) * BoxSide + (i % Side) \div BoxSide

\* They are the indices of the three kinds of unit, by which units are named.
Idx(t, i) == IF t = 1 THEN RowIdx(i) ELSE IF t = 2 THEN ColIdx(i) ELSE BoxIdx(i)
UnitName(t, p, v) == t * 100 + p * 10 + v

\* The indices are below Side.
LEMMA IdxIn ==
  ASSUME NEW i \in Cells, NEW t \in 1..3
  PROVE  Idx(t, i) \in 0..(Side - 1)
<1>1. CASE BoxSide = 1
  BY <1>1, SideIs DEF Idx, RowIdx, ColIdx, BoxIdx
<1>2. CASE BoxSide = 2
  <2>1. Side = 4 /\ i \in 0..15
    BY <1>2, SideIs
  <2>2. i \div 4 \in 0..3 /\ i % 4 \in 0..3
    BY <2>1
  <2>3. (i \div 4) \div 2 \in 0..1 /\ (i % 4) \div 2 \in 0..1
    BY <2>2
  <2> QED BY <1>2, <2>1, <2>2, <2>3 DEF Idx, RowIdx, ColIdx, BoxIdx
<1>3. CASE BoxSide = 3
  <2>1. Side = 9 /\ i \in 0..80
    BY <1>3, SideIs
  <2>2. i \div 9 \in 0..8 /\ i % 9 \in 0..8
    BY <2>1
  <2>3. (i \div 9) \div 3 \in 0..2 /\ (i % 9) \div 3 \in 0..2
    BY <2>2
  <2> QED BY <1>3, <2>1, <2>2, <2>3 DEF Idx, RowIdx, ColIdx, BoxIdx
<1> QED BY <1>1, <1>2, <1>3, SideIs

\* The units of a cell and a value are named by its three indices.
LEMMA UnitsAre ==
  ASSUME NEW i \in Cells, NEW v \in Values
  PROVE  /\ Units(i, v) = <<UnitName(1, Idx(1, i), v), UnitName(2, Idx(2, i), v),
                            UnitName(3, Idx(3, i), v)>>
         /\ Range(Units(i, v)) = {UnitName(t, Idx(t, i), v) : t \in 1..3}
<1>1. Units(i, v) = <<UnitName(1, Idx(1, i), v), UnitName(2, Idx(2, i), v),
                      UnitName(3, Idx(3, i), v)>>
  <2>1. Idx(1, i) = RowIdx(i) /\ Idx(2, i) = ColIdx(i) /\ Idx(3, i) = BoxIdx(i)
    BY DEF Idx
  <2>2. UnitName(1, RowIdx(i), v) = kRow + RowIdx(i) * 10 + v
    BY DEF UnitName, kRow
  <2>3. UnitName(2, ColIdx(i), v) = kCol + ColIdx(i) * 10 + v
    BY DEF UnitName, kCol
  <2>4. UnitName(3, BoxIdx(i), v) = kBox + BoxIdx(i) * 10 + v
    BY DEF UnitName, kBox
  <2> QED BY <2>1, <2>2, <2>3, <2>4 DEF Units, RowIdx, ColIdx, BoxIdx
<1>2. Range(Units(i, v)) = {UnitName(1, Idx(1, i), v), UnitName(2, Idx(2, i), v),
                            UnitName(3, Idx(3, i), v)}
  BY <1>1, RangeThree
<1>3. 1..3 = {1, 2, 3}
  OBVIOUS
<1> QED BY <1>1, <1>2, <1>3

\* The name of a unit is above kRow, has its value as last digit and is no cell.
LEMMA UnitNames ==
  ASSUME NEW t \in 1..3, NEW p \in 0..(Side - 1), NEW v \in Values
  PROVE  /\ UnitName(t, p, v) \in Int /\ UnitName(t, p, v) >= kRow /\ UnitName(t, p, v) % 10 = v
         /\ UnitName(t, p, v) \notin Cells
<1>1. Side \in 0..9 /\ (\A i \in Cells : i \in 0..80) /\ \A w \in Values : w \in 1..9
  BY SideIs
<1>2. p \in 0..8 /\ v \in 1..9
  BY <1>1
<1>3. UnitName(t, p, v) \in Int /\ UnitName(t, p, v) >= kRow /\ UnitName(t, p, v) \notin Cells
  BY <1>1, <1>2 DEF UnitName, kRow
<1>4. UnitName(t, p, v) % 10 = v
  BY <1>2 DEF UnitName
<1> QED BY <1>3, <1>4

\* Distinct kinds, indices or values have distinct names.
LEMMA UnitNamesDiffer ==
  ASSUME NEW t \in 1..3, NEW p \in 0..(Side - 1), NEW v \in Values,
         NEW t2 \in 1..3, NEW p2 \in 0..(Side - 1), NEW v2 \in Values,
         UnitName(t2, p2, v2) = UnitName(t, p, v)
  PROVE  t2 = t /\ p2 = p /\ v2 = v
<1>1. Side \in 0..9 /\ \A w \in Values : w \in 1..9
  BY SideIs
<1>2. p \in 0..8 /\ v \in 1..9 /\ p2 \in 0..8 /\ v2 \in 1..9
  BY <1>1
<1> QED BY <1>2 DEF UnitName

\* The units of the board.
LEMMA AllUnitsAre ==
  AllUnits = {UnitName(t, p, v) : t \in 1..3, p \in 0..(Side - 1), v \in Values}
<1>1. ASSUME NEW u \in AllUnits
      PROVE  u \in {UnitName(t, p, v) : t \in 1..3, p \in 0..(Side - 1), v \in Values}
  <2>1. PICK k \in {kRow, kCol, kBox}, p \in 0..(Side - 1), v \in Values : u = k + p * 10 + v
    BY DEF AllUnits
  <2>2. \E t \in 1..3 : k = t * 100
    BY DEF kRow, kCol, kBox
  <2> QED BY <2>1, <2>2 DEF UnitName
<1>2. ASSUME NEW t \in 1..3, NEW p \in 0..(Side - 1), NEW v \in Values
      PROVE  UnitName(t, p, v) \in AllUnits
  <2>1. t * 100 \in {kRow, kCol, kBox}
    BY DEF kRow, kCol, kBox
  <2> QED BY <2>1 DEF AllUnits, UnitName
<1> QED BY <1>1, <1>2

\* The step at which the constructor comes to a unit.
StepOf(t, p, v) == Side * Side + 1 + 3 * (p * Side + v - 1) + (t - 1)

\* m is t in place p, v of three by S.
Divided(S, t, p, v, m) ==
  m \in Nat /\ m % 3 = t - 1 /\ m \div (3 * S) = p /\ (m \div 3) % S = v - 1

\* Division of a number by the way in which it is put together.
LEMMA Divides ==
  ASSUME NEW S \in {1, 4, 9}, NEW t \in 1..3, NEW p \in 0..(S - 1), NEW v \in 1..S, NEW m,
         m = 3 * (p * S + v - 1) + (t - 1)
  PROVE  Divided(S, t, p, v, m)
<1>1. CASE S = 1
  BY <1>1 DEF Divided
<1>2. CASE S = 4
  <2>1. m \in Nat /\ m % 3 = t - 1 /\ m \div 3 = p * 4 + v - 1 /\ m \div 12 = p
    BY <1>2
  <2> QED BY <2>1, <1>2 DEF Divided
<1>3. CASE S = 9
  <2>1. m \in Nat /\ m % 3 = t - 1 /\ m \div 3 = p * 9 + v - 1 /\ m \div 27 = p
    BY <1>3
  <2> QED BY <2>1, <1>3 DEF Divided
<1> QED BY <1>1, <1>2, <1>3

\* Every number below three times the square is put together like that, in one way.
LEMMA Decomposes ==
  ASSUME NEW S \in {1, 4, 9}, NEW m \in 0..(3 * S * S - 1)
  PROVE  \E t \in 1..3, p \in 0..(S - 1), v \in 1..S : m = 3 * (p * S + v - 1) + (t - 1)
<1> DEFINE q == m \div 3
<1>1. m = 3 * q + (m % 3) /\ m % 3 \in 0..2 /\ q \in 0..(S * S - 1)
  BY DEF q
<1> HIDE DEF q
<1>2. \E p \in 0..(S - 1), v \in 1..S : q = p * S + v - 1
  <2>1. CASE S = 1
    BY <1>1, <2>1
  <2>2. CASE S = 4
    <3>1. q = 4 * (q \div 4) + (q % 4) /\ q % 4 \in 0..3 /\ q \div 4 \in 0..3
      BY <1>1, <2>2
    <3>2. (q % 4) + 1 \in 1..4 /\ q = (q \div 4) * 4 + ((q % 4) + 1) - 1
      BY <1>1, <3>1
    <3> QED BY <3>1, <3>2, <2>2
  <2>3. CASE S = 9
    <3>1. q = 9 * (q \div 9) + (q % 9) /\ q % 9 \in 0..8 /\ q \div 9 \in 0..8
      BY <1>1, <2>3
    <3>2. (q % 9) + 1 \in 1..9 /\ q = (q \div 9) * 9 + ((q % 9) + 1) - 1
      BY <1>1, <3>1
    <3> QED BY <3>1, <3>2, <2>3
  <2> QED BY <2>1, <2>2, <2>3
<1>3. PICK p \in 0..(S - 1), v \in 1..S : q = p * S + v - 1
  BY <1>2
<1>4. (m % 3) + 1 \in 1..3 /\ m = 3 * (p * S + v - 1) + (((m % 3) + 1) - 1)
  BY <1>1, <1>3
<1> QED BY <1>4

\* The constructor comes to every cell and to every unit.
LEMMA NamesAll ==
  /\ \A i \in Cells : i + 1 \in 1..(4 * Side * Side) /\ Name(i + 1) = i
  /\ \A t \in 1..3, p \in 0..(Side - 1), v \in Values :
       StepOf(t, p, v) \in 1..(4 * Side * Side) /\ Name(StepOf(t, p, v)) = UnitName(t, p, v)
<1>1. Side \in {1, 4, 9}
  BY SideIs
<1>2. ASSUME NEW i \in Cells PROVE i + 1 \in 1..(4 * Side * Side) /\ Name(i + 1) = i
  <2>1. CASE Side = 1
    BY <2>1 DEF Cells, Name
  <2>2. CASE Side = 4
    BY <2>2 DEF Cells, Name
  <2>3. CASE Side = 9
    BY <2>3 DEF Cells, Name
  <2> QED BY <1>1, <2>1, <2>2, <2>3
<1>3. ASSUME NEW t \in 1..3, NEW p \in 0..(Side - 1), NEW v \in Values
      PROVE  StepOf(t, p, v) \in 1..(4 * Side * Side) /\ Name(StepOf(t, p, v)) = UnitName(t, p, v)
  <2> DEFINE k == StepOf(t, p, v)
             m == k - Side * Side - 1
  <2>1. k \in 1..(4 * Side * Side) /\ k > Side * Side
    <3>1. CASE Side = 1
      BY <3>1 DEF StepOf, Values
    <3>2. CASE Side = 4
      BY <3>2 DEF StepOf, Values
    <3>3. CASE Side = 9
      BY <3>3 DEF StepOf, Values
    <3> QED BY <1>1, <3>1, <3>2, <3>3
  <2>2. m = 3 * (p * Side + v - 1) + (t - 1)
    <3>1. CASE Side = 1
      BY <3>1 DEF StepOf, Values
    <3>2. CASE Side = 4
      BY <3>2 DEF StepOf, Values
    <3>3. CASE Side = 9
      BY <3>3 DEF StepOf, Values
    <3> QED BY <1>1, <3>1, <3>2, <3>3
  <2>3. m \in Nat /\ m % 3 = t - 1 /\ m \div (3 * Side) = p /\ (m \div 3) % Side = v - 1
    <3>1. v \in 1..Side
      BY DEF Values
    <3> HIDE DEF m
    <3>2. Divided(Side, t, p, v, m)
      BY <2>2, <3>1, <1>1, Divides
    <3> QED BY <3>2 DEF Divided
  <2>4. ~ (k <= Side * Side)
    <3>1. Side * Side \in Int
      BY <1>1
    <3> HIDE DEF k
    <3> QED BY <2>1, <3>1
  <2>5. Name(k) = <<kRow, kCol, kBox>>[(m % 3) + 1] + (m \div (3 * Side)) * 10
                  + ((m \div 3) % Side) + 1
    <3> HIDE DEF k
    <3> QED BY <2>4 DEF Name
  <2>6. <<kRow, kCol, kBox>>[(m % 3) + 1] = t * 100
    <3> HIDE DEF m
    <3>1. (m % 3) + 1 = t
      BY <2>3
    <3> QED BY <3>1 DEF kRow, kCol, kBox
  <2>7. Name(k) = t * 100 + p * 10 + (v - 1) + 1
    <3> HIDE DEF m, k
    <3> QED BY <2>3, <2>5, <2>6
  <2>8. Name(k) = UnitName(t, p, v)
    <3> HIDE DEF m, k
    <3>1. v \in Int /\ p \in Int
      BY SideIs
    <3> QED BY <2>7, <3>1 DEF UnitName
  <2> QED BY <2>1, <2>8
<1> QED BY <1>2, <1>3

\* It comes to nothing else.
LEMMA NameIs ==
  ASSUME NEW k \in 1..(4 * Side * Side)
  PROVE  \/ k - 1 \in Cells /\ Name(k) = k - 1
         \/ \E t \in 1..3, p \in 0..(Side - 1), v \in Values :
              k = StepOf(t, p, v) /\ Name(k) = UnitName(t, p, v)
<1>1. Side \in {1, 4, 9}
  BY SideIs
<1>2. CASE k <= Side * Side
  <2>1. k - 1 \in Cells
    BY <1>1, <1>2 DEF Cells
  <2>2. (k - 1) + 1 = k
    OBVIOUS
  <2> QED BY <2>1, <2>2, NamesAll
<1>3. CASE ~ (k <= Side * Side)
  <2> DEFINE m == k - Side * Side - 1
  <2>1. m \in 0..(3 * Side * Side - 1)
    <3>1. CASE Side = 1
      BY <3>1, <1>3
    <3>2. CASE Side = 4
      BY <3>2, <1>3
    <3>3. CASE Side = 9
      BY <3>3, <1>3
    <3> QED BY <1>1, <3>1, <3>2, <3>3
  <2>2. \E t \in 1..3, p \in 0..(Side - 1), v \in 1..Side : m = 3 * (p * Side + v - 1) + (t - 1)
    <3> HIDE DEF m
    <3> QED BY <2>1, <1>1, Decomposes
  <2>3. PICK t \in 1..3, p \in 0..(Side - 1), v \in 1..Side : m = 3 * (p * Side + v - 1) + (t - 1)
    BY <2>2
  <2>4. k = StepOf(t, p, v)
    <3>1. CASE Side = 1
      BY <3>1, <2>3 DEF StepOf
    <3>2. CASE Side = 4
      BY <3>2, <2>3 DEF StepOf
    <3>3. CASE Side = 9
      BY <3>3, <2>3 DEF StepOf
    <3> QED BY <1>1, <3>1, <3>2, <3>3
  <2>5. v \in Values
    BY DEF Values
  <2>6. Name(k) = UnitName(t, p, v)
    BY <2>4, <2>5, NamesAll
  <2> QED BY <2>4, <2>5, <2>6
<1> QED BY <1>2, <1>3

\* No name is met twice, and every name is a number.
LEMMA NamesDiffer ==
  ASSUME NEW k \in 1..(4 * Side * Side)
  PROVE  /\ Name(k) \in Int /\ Name(k) \in Cells \cup AllUnits
         /\ \A j \in 1..(4 * Side * Side) : Name(j) = Name(k) => j = k
<1>1. Cells \subseteq Int
  BY SideIs
<1>2. CASE k - 1 \in Cells /\ Name(k) = k - 1
  <2>1. ASSUME NEW j \in 1..(4 * Side * Side), Name(j) = Name(k) PROVE j = k
    <3>1. CASE j - 1 \in Cells /\ Name(j) = j - 1
      <4>1. j - 1 = k - 1 /\ j \in Int /\ k \in Int
        BY <3>1, <2>1, <1>2
      <4> QED BY <4>1
    <3>2. CASE \E t \in 1..3, p \in 0..(Side - 1), v \in Values :
                 j = StepOf(t, p, v) /\ Name(j) = UnitName(t, p, v)
      <4>1. PICK t \in 1..3, p \in 0..(Side - 1), v \in Values :
                   j = StepOf(t, p, v) /\ Name(j) = UnitName(t, p, v)
        BY <3>2
      <4>2. UnitName(t, p, v) \notin Cells
        BY UnitNames
      <4> QED BY <4>1, <4>2, <2>1, <1>2
    <3> QED BY <3>1, <3>2, NameIs
  <2> QED BY <2>1, <1>1, <1>2
<1>3. CASE \E t \in 1..3, p \in 0..(Side - 1), v \in Values :
             k = StepOf(t, p, v) /\ Name(k) = UnitName(t, p, v)
  <2>1. PICK t \in 1..3, p \in 0..(Side - 1), v \in Values :
               k = StepOf(t, p, v) /\ Name(k) = UnitName(t, p, v)
    BY <1>3
  <2>2. /\ Name(k) \in Int /\ Name(k) \notin Cells /\ Name(k) \in AllUnits
    BY <2>1, UnitNames, AllUnitsAre
  <2>3. ASSUME NEW j \in 1..(4 * Side * Side), Name(j) = Name(k) PROVE j = k
    <3>1. CASE j - 1 \in Cells /\ Name(j) = j - 1
      BY <3>1, <2>2, <2>3
    <3>2. CASE \E t2 \in 1..3, p2 \in 0..(Side - 1), v2 \in Values :
                 j = StepOf(t2, p2, v2) /\ Name(j) = UnitName(t2, p2, v2)
      <4>1. PICK t2 \in 1..3, p2 \in 0..(Side - 1), v2 \in Values :
                   j = StepOf(t2, p2, v2) /\ Name(j) = UnitName(t2, p2, v2)
        BY <3>2
      <4>2. t2 = t /\ p2 = p /\ v2 = v
        <5>1. UnitName(t2, p2, v2) = UnitName(t, p, v)
          BY <4>1, <2>1, <2>3
        <5> QED BY <5>1, UnitNamesDiffer
      <4> QED BY <4>1, <4>2, <2>1
    <3> QED BY <3>1, <3>2, NameIs
  <2> QED BY <2>2, <2>3
<1> QED BY <1>2, <1>3, NameIs

-----------------------------------------------------------------------------
(* Completed boards *)

\* The place of a cell in its row, column or box.
Pos(t, i) == IF t = 1 THEN ColIdx(i) ELSE IF t = 2 THEN RowIdx(i)
             ELSE ((i \div Side) % BoxSide) * BoxSide + ((i % Side) % BoxSide)

\* Places are below Side.
LEMMA PosIn ==
  ASSUME NEW i \in Cells, NEW t \in 1..3
  PROVE  Pos(t, i) \in 0..(Side - 1)
<1>1. RowIdx(i) \in 0..(Side - 1) /\ ColIdx(i) \in 0..(Side - 1)
  <2>1. 1 \in 1..3 /\ 2 \in 1..3
    OBVIOUS
  <2>2. Idx(1, i) \in 0..(Side - 1) /\ Idx(2, i) \in 0..(Side - 1)
    BY <2>1, IdxIn
  <2> QED BY <2>2 DEF Idx
<1>2. (i \div Side) \in 0..(Side - 1) /\ (i % Side) \in 0..(Side - 1)
  BY <1>1 DEF RowIdx, ColIdx
<1>3. ((i \div Side) % BoxSide) * BoxSide + ((i % Side) % BoxSide) \in 0..(Side - 1)
  <2> DEFINE r == i \div Side
             c == i % Side
  <2>1. r \in Nat /\ c \in Nat
    BY <1>2
  <2> HIDE DEF r, c
  <2> SUFFICES (r % BoxSide) * BoxSide + (c % BoxSide) \in 0..(Side - 1)
    BY DEF r, c
  <2>2. CASE BoxSide = 1
    BY <2>1, <2>2, SideIs
  <2>3. CASE BoxSide = 2
    <3>1. Side = 4 /\ r % 2 \in 0..1 /\ c % 2 \in 0..1
      BY <2>1, <2>3, SideIs
    <3> QED BY <2>3, <3>1
  <2>4. CASE BoxSide = 3
    <3>1. Side = 9 /\ r % 3 \in 0..2 /\ c % 3 \in 0..2
      BY <2>1, <2>4, SideIs
    <3> QED BY <2>4, <3>1
  <2> QED BY <2>2, <2>3, <2>4, SideIs
<1> QED BY <1>1, <1>3 DEF Pos

\* A cell is known by one of its units and its place there.
LEMMA PosTells ==
  ASSUME NEW i \in Cells, NEW j \in Cells, NEW t \in 1..3,
         Idx(t, i) = Idx(t, j), Pos(t, i) = Pos(t, j)
  PROVE  i = j
<1> DEFINE r == i \div Side
           c == i % Side
           s == j \div Side
           d == j % Side
<1>1. /\ r \in 0..(Side - 1) /\ c \in 0..(Side - 1) /\ s \in 0..(Side - 1) /\ d \in 0..(Side - 1)
      /\ i = Side * r + c /\ j = Side * s + d
  <2>1. CASE Side = 1
    BY <2>1 DEF Cells
  <2>2. CASE Side = 4
    BY <2>2 DEF Cells
  <2>3. CASE Side = 9
    BY <2>3 DEF Cells
  <2> QED BY <2>1, <2>2, <2>3, SideIs
<1>2. t = 1 => r = s /\ c = d
  BY DEF Idx, Pos, RowIdx, ColIdx
<1>3. t = 2 => r = s /\ c = d
  BY DEF Idx, Pos, RowIdx, ColIdx
<1>4. t = 3 => /\ (r \div BoxSide) * BoxSide + c \div BoxSide
                    = (s \div BoxSide) * BoxSide + d \div BoxSide
               /\ (r % BoxSide) * BoxSide + (c % BoxSide) = (s % BoxSide) * BoxSide + (d % BoxSide)
  BY DEF Idx, Pos, BoxIdx
<1> HIDE DEF r, c, s, d
<1>5. t = 3 => r = s /\ c = d
  <2> SUFFICES ASSUME t = 3 PROVE r = s /\ c = d
    OBVIOUS
  <2>1. CASE BoxSide = 1
    BY <2>1, <1>1, <1>4, SideIs
  <2>2. CASE BoxSide = 2
    <3>1. /\ r \in 0..3 /\ c \in 0..3 /\ s \in 0..3 /\ d \in 0..3
          /\ (r \div 2) * 2 + c \div 2 = (s \div 2) * 2 + d \div 2
          /\ (r % 2) * 2 + (c % 2) = (s % 2) * 2 + (d % 2)
      BY <2>2, <1>1, <1>4, SideIs
    <3>2. c \div 2 \in 0..1 /\ d \div 2 \in 0..1 /\ c % 2 \in 0..1 /\ d % 2 \in 0..1
      BY <3>1
    <3>3. r \div 2 = s \div 2 /\ c \div 2 = d \div 2 /\ r % 2 = s % 2 /\ c % 2 = d % 2
      BY <3>1, <3>2
    <3> QED BY <3>1, <3>3
  <2>3. CASE BoxSide = 3
    <3>1. /\ r \in 0..8 /\ c \in 0..8 /\ s \in 0..8 /\ d \in 0..8
          /\ (r \div 3) * 3 + c \div 3 = (s \div 3) * 3 + d \div 3
          /\ (r % 3) * 3 + (c % 3) = (s % 3) * 3 + (d % 3)
      BY <2>3, <1>1, <1>4, SideIs
    <3>2. c \div 3 \in 0..2 /\ d \div 3 \in 0..2 /\ c % 3 \in 0..2 /\ d % 3 \in 0..2
      BY <3>1
    <3>3. r \div 3 = s \div 3 /\ c \div 3 = d \div 3 /\ r % 3 = s % 3 /\ c % 3 = d % 3
      BY <3>1, <3>2
    <3> QED BY <3>1, <3>3
  <2> QED BY <2>1, <2>2, <2>3, SideIs
<1>6. r = s /\ c = d
  BY <1>2, <1>3, <1>5
<1> QED BY <1>1, <1>6

\* On a completed board every unit is the unit of one cell only: as many cells as values.
LEMMA RightOnce ==
  ASSUME NEW g \in [Cells -> Values], Right(g), NEW i \in Cells, NEW j \in Cells, NEW u,
         u \in Range(Units(i, g[i])), u \in Range(Units(j, g[j]))
  PROVE  i = j
<1> SUFFICES ASSUME i # j PROVE FALSE
  OBVIOUS
<1>1. g[i] \in Values /\ g[j] \in Values
  OBVIOUS
<1>2. PICK t \in 1..3 : u = UnitName(t, Idx(t, i), g[i])
  BY <1>1, UnitsAre
<1>3. PICK t2 \in 1..3 : u = UnitName(t2, Idx(t2, j), g[j])
  BY <1>1, UnitsAre
<1>4. t2 = t /\ Idx(t2, j) = Idx(t, i) /\ g[j] = g[i]
  <2>1. Idx(t, i) \in 0..(Side - 1) /\ Idx(t2, j) \in 0..(Side - 1)
    BY IdxIn
  <2>2. UnitName(t2, Idx(t2, j), g[j]) = UnitName(t, Idx(t, i), g[i])
    BY <1>2, <1>3
  <2> QED BY <2>1, <2>2, <1>1, UnitNamesDiffer
<1> DEFINE p == Idx(t, i)
           Holds(v, x) == x \in Cells /\ Idx(t, x) = p /\ g[x] = v /\ x # j
<1>5. ASSUME NEW v \in Values PROVE \E x : Holds(v, x)
  <2>1. CASE v = g[i]
    BY <2>1
  <2>2. CASE v # g[i]
    <3>1. p \in 0..(Side - 1)
      BY IdxIn
    <3>2. UnitName(t, p, v) \in AllUnits
      BY <3>1, AllUnitsAre
    <3>3. PICK x \in Cells : UnitName(t, p, v) \in Range(Units(x, g[x]))
      BY <3>2 DEF Right
    <3>4. g[x] \in Values
      OBVIOUS
    <3>5. PICK t3 \in 1..3 : UnitName(t, p, v) = UnitName(t3, Idx(t3, x), g[x])
      BY <3>3, <3>4, UnitsAre
    <3>6. t3 = t /\ Idx(t3, x) = p /\ g[x] = v
      <4>1. Idx(t3, x) \in 0..(Side - 1)
        BY IdxIn
      <4>2. UnitName(t3, Idx(t3, x), g[x]) = UnitName(t, p, v)
        BY <3>5
      <4> HIDE DEF p
      <4> QED BY <4>1, <4>2, <3>1, <3>4, UnitNamesDiffer
    <3>7. x # j
      BY <3>6, <1>4, <2>2
    <3>8. Holds(v, x)
      BY <3>6, <3>7
    <3> QED BY <3>8
  <2> QED BY <2>1, <2>2
<1> HIDE DEF Holds
<1> DEFINE cell[v \in Values] == CHOOSE x : Holds(v, x)
<1>6. \A v \in Values : Holds(v, cell[v])
  BY <1>5
<1> HIDE DEF cell
<1>7. \A v \in Values : /\ cell[v] \in Cells /\ Idx(t, cell[v]) = p /\ g[cell[v]] = v
                        /\ cell[v] # j
  BY <1>6 DEF Holds
<1> DEFINE T == (0..(Side - 1)) \ {Pos(t, j)}
           h == [v \in Values |-> Pos(t, cell[v])]
<1>8. h \in [Values -> T]
  <2>1. ASSUME NEW v \in Values PROVE Pos(t, cell[v]) \in T
    <3>1. Pos(t, cell[v]) \in 0..(Side - 1)
      BY <1>7, PosIn
    <3>2. Pos(t, cell[v]) # Pos(t, j)
      <4>1. Idx(t, cell[v]) = Idx(t, j)
        BY <1>4, <1>7
      <4> QED BY <4>1, <1>7, PosTells
    <3> QED BY <3>1, <3>2
  <2> QED BY <2>1
<1>9. IsFiniteSet(Values) /\ IsFiniteSet(T) /\ Cardinality(T) < Cardinality(Values)
  <2>1. Side \in Nat /\ Side >= 1
    BY SideIs
  <2>2. IsFiniteSet(Values) /\ Cardinality(Values) = Side
    BY <2>1, FS_Interval DEF Values
  <2>3. IsFiniteSet(0..(Side - 1)) /\ Cardinality(0..(Side - 1)) = Side
    BY <2>1, FS_Interval
  <2>4. Pos(t, j) \in 0..(Side - 1)
    BY PosIn
  <2>5. IsFiniteSet(T) /\ Cardinality(T) = Side - 1
    <3> DEFINE S == 0..(Side - 1)
               x == Pos(t, j)
    <3>1. IsFiniteSet(S) /\ Cardinality(S) = Side /\ x \in S
      BY <2>3, <2>4
    <3> HIDE DEF S, x
    <3>2. IsFiniteSet(S \ {x}) /\ Cardinality(S \ {x}) = Side - 1
      BY <3>1, FS_RemoveElement
    <3> QED BY <3>2 DEF S, x
  <2> QED BY <2>1, <2>2, <2>5
<1> HIDE DEF T
<1>10. PICK v, w \in Values : v # w /\ h[v] = h[w]
  <2> HIDE DEF h
  <2> QED BY <1>8, <1>9, FS_PigeonHole
<1>11. cell[v] = cell[w]
  <2>1. Pos(t, cell[v]) = Pos(t, cell[w]) /\ Idx(t, cell[v]) = Idx(t, cell[w])
    BY <1>7, <1>10
  <2> QED BY <2>1, <1>7, PosTells
<1> QED BY <1>7, <1>10, <1>11

\* The names of the columns that a row takes.
RowNames(i, v) == {i} \cup Range(Units(i, v))

\* A row that may be taken takes only columns that are needed.
LEMMA TakesNeeded ==
  ASSUME NEW bd, NEW i \in Cells, NEW v \in Values, MayTake(bd, i, v), NEW name \in RowNames(i, v)
  PROVE  name \in Cells \cup AllUnits /\ Needed(bd, name)
<1>1. CASE name = i
  BY <1>1 DEF MayTake, Needed
<1>2. CASE name \in Range(Units(i, v))
  <2>1. PICK t \in 1..3 : name = UnitName(t, Idx(t, i), v)
    BY <1>2, UnitsAre
  <2>2. Idx(t, i) \in 0..(Side - 1)
    BY IdxIn
  <2>3. name \notin Cells
    BY <2>1, <2>2, UnitNames
  <2>4. name \in AllUnits
    BY <2>1, <2>2, AllUnitsAre
  <2> QED BY <2>3, <2>4, <1>2 DEF MayTake, Needed
<1> QED BY <1>1, <1>2 DEF RowNames

\* What a completed board that agrees with the givens puts into a blank cell may be taken.
LEMMA AgreeingMayTake ==
  ASSUME NEW bd \in [Cells -> {0} \cup Values], NEW g \in [Cells -> Values], Right(g),
         \A i \in Cells : bd[i] # 0 => g[i] = bd[i], NEW i \in Cells, bd[i] = 0
  PROVE  MayTake(bd, i, g[i])
<1> SUFFICES ASSUME NEW u \in Range(Units(i, g[i])), u \in Taken(bd) PROVE FALSE
  BY DEF MayTake
<1>1. PICK j \in Cells : bd[j] # 0 /\ u \in Range(Units(j, bd[j]))
  BY DEF Taken
<1>2. u \in Range(Units(j, g[j]))
  BY <1>1
<1>3. i = j
  BY <1>2, RightOnce
<1> QED BY <1>1, <1>3

-----------------------------------------------------------------------------
(* The constructor: columns *)

\* The names of the columns.
HeadNames(l) == {l.name[c] : c \in Heads(l)}

\* Heads have distinct names.
NamesOnce(l) == \A c, d \in Heads(l) : l.name[c] = l.name[d] => c = d

\* The matrix before the constructor comes to column k.
ColumnsMade(l, N, bd, k) ==
  /\ Full(l, N) /\ RowNodes(l) = {} /\ NamesOnce(l)
  /\ HeadNames(l) = {Name(j) : j \in {x \in 1..(4 * Side * Side) : x < k /\ Needed(bd, Name(x))}}

\* The root alone is a matrix without columns.
LEMMA RootMade ==
  ASSUME NEW bd
  PROVE  ColumnsMade(NewNode(Nodes, 0, 0), 1, bd, 1)
<1> DEFINE l == NewNode(Nodes, 0, 0)
<1>1. IsNew(Nodes, l, 0) /\ Grown(Nodes, l, 0, 1, 0)
  <2>1. 0 \in Nat /\ 0 \in 0..0 /\ 0 \in Int
    OBVIOUS
  <2>2. Nodes \in Mat(0)
    <3>1. <<>> \in [1..0 -> 1..0] /\ <<>> \in [1..0 -> Int]
      OBVIOUS
    <3> QED BY <3>1 DEF Nodes, Mat
  <2>3. IsNew(Nodes, l, 0) /\ Grown(Nodes, l, 0, IF 0 = 0 THEN 0 + 1 ELSE 0, 0)
    BY <2>1, <2>2, NewNodeFields
  <2> QED BY <2>3
<1> HIDE DEF l
<1>2. l \in Mat(1) /\ l.col[1] = 1 /\ l.right[1] = 1 /\ l.left[1] = 1
  <2>1. 0 + 1 = 1
    OBVIOUS
  <2> QED BY <1>1, <2>1 DEF IsNew, Grown
<1>3. DOMAIN l.col = {1}
  <2>1. 1..1 = {1}
    OBVIOUS
  <2> QED BY <1>2, <2>1, MatFields
<1>4. RowNodes(l) = {} /\ Heads(l) = {}
  BY <1>2, <1>3 DEF RowNodes, Heads, Root
<1>5. Shape(l, 1)
  BY <1>2, <1>4 DEF Shape
<1>6. Ring(l.right, l.left, Root, Heads(l))
  BY <1>2, <1>4 DEF Ring, Joins, Root
<1>7. Linked(l, Heads(l), RowNodes(l))
  BY <1>4 DEF Linked
<1>8. Full(l, 1)
  BY <1>5, <1>6, <1>7, FullIs
<1>9. {x \in 1..(4 * Side * Side) : x < 1 /\ Needed(bd, Name(x))} = {}
  <2>1. 4 * Side * Side \in Int
    BY SideIs
  <2>2. \A x \in 1..(4 * Side * Side) : ~ (x < 1)
    BY <2>1
  <2> QED BY <2>2
<1>10. HeadNames(l) = {} /\ NamesOnce(l)
  BY <1>4 DEF HeadNames, NamesOnce
<1> QED BY <1>4, <1>8, <1>9, <1>10 DEF ColumnsMade, l

\* A column is appended, or the step passes a name that is not needed.
LEMMA ColumnsStep ==
  ASSUME NEW N, NEW l, NEW bd, NEW k \in 1..(4 * Side * Side), ColumnsMade(l, N, bd, k)
  PROVE  /\ Needed(bd, Name(k)) => ColumnsMade(append_column(l, Name(k)), N + 1, bd, k + 1)
         /\ ~ Needed(bd, Name(k)) => ColumnsMade(l, N, bd, k + 1)
<1> DEFINE D(j) == {x \in 1..(4 * Side * Side) : x < j /\ Needed(bd, Name(x))}
<1>1. 4 * Side * Side \in Nat /\ k \in Int
  BY SideIs
<1>2. Needed(bd, Name(k)) => D(k + 1) = D(k) \cup {k}
  <2> DEFINE K == 4 * Side * Side
  <2>1. k \in 1..K /\ K \in Nat
    BY <1>1
  <2> HIDE DEF K
  <2>2. \A x \in 1..K : x < k + 1 <=> x < k \/ x = k
    BY <2>1
  <2> QED BY <2>1, <2>2 DEF K
<1>3. ~ Needed(bd, Name(k)) => D(k + 1) = D(k)
  <2> DEFINE K == 4 * Side * Side
  <2>1. k \in 1..K /\ K \in Nat
    BY <1>1
  <2> HIDE DEF K
  <2>2. \A x \in 1..K : x < k + 1 <=> x < k \/ x = k
    BY <2>1
  <2> QED BY <2>1, <2>2 DEF K
<1>4. HeadNames(l) = {Name(j) : j \in D(k)}
  BY DEF ColumnsMade
<1>5. Name(k) \notin HeadNames(l)
  <2> SUFFICES ASSUME NEW j \in D(k), Name(j) = Name(k) PROVE FALSE
    BY <1>4
  <2>1. j \in 1..(4 * Side * Side) /\ j < k
    OBVIOUS
  <2>2. j = k
    BY <2>1, NamesDiffer
  <2> QED BY <2>1, <2>2, <1>1
<1> HIDE DEF D
<1>6. ASSUME ~ Needed(bd, Name(k)) PROVE ColumnsMade(l, N, bd, k + 1)
  BY <1>3, <1>6 DEF ColumnsMade, D
<1>7. ASSUME Needed(bd, Name(k)) PROVE ColumnsMade(append_column(l, Name(k)), N + 1, bd, k + 1)
  <2> DEFINE m == append_column(l, Name(k))
  <2>1. Name(k) \in Int
    BY NamesDiffer
  <2>2. Full(l, N) /\ RowNodes(l) = {}
    BY DEF ColumnsMade
  <2>3. /\ Full(m, N + 1) /\ RowNodes(m) = {} /\ Heads(m) = Heads(l) \cup {N + 1}
        /\ Grown(l, m, N, N + 1, Name(k))
    BY <2>1, <2>2, AppendColumnStep
  <2> HIDE DEF m
  <2>4. m.name[N + 1] = Name(k) /\ \A x \in Heads(l) : m.name[x] = l.name[x]
    <3>1. Heads(l) \subseteq 1..N
      BY <2>2, FullIs, ShapeIs, MatFields DEF Frame, Heads
    <3> QED BY <3>1, <2>3 DEF Grown
  <2>5. HeadNames(m) = HeadNames(l) \cup {Name(k)}
    BY <2>3, <2>4 DEF HeadNames
  <2>6. {Name(j) : j \in D(k + 1)} = {Name(j) : j \in D(k)} \cup {Name(k)}
    BY <1>2, <1>7
  <2>7. NamesOnce(m)
    <3> SUFFICES ASSUME NEW c \in Heads(m), NEW d \in Heads(m), m.name[c] = m.name[d] PROVE c = d
      BY DEF NamesOnce
    <3>1. \A x \in Heads(l) : m.name[x] # Name(k)
      BY <1>5, <2>4 DEF HeadNames
    <3>2. CASE c \in Heads(l) /\ d \in Heads(l)
      BY <3>2, <2>4 DEF ColumnsMade, NamesOnce
    <3> QED BY <3>1, <3>2, <2>3, <2>4
  <2> QED BY <1>4, <2>3, <2>5, <2>6, <2>7 DEF ColumnsMade, D, m
<1> QED BY <1>6, <1>7

-----------------------------------------------------------------------------
(* The constructor: rows *)

\* The names of the columns of a row of the matrix.
NamesOf(l, n) == {l.name[x] : x \in RowOf(l, n)}

\* The names for which there are columns.
NeededNames(bd) == {name \in Cells \cup AllUnits : Needed(bd, name)}

\* The heads and rows of a matrix: what nodes there are, and how they are named.
Named(l, N, bd) ==
  /\ Full(l, N) /\ NamesOnce(l) /\ HeadNames(l) = NeededNames(bd)
  /\ \A n \in RowNodes(l) : l.name[l.col[n]] = l.name[n]

\* Every row may be taken on the board.
RowsFit(l, bd) == \A n \in RowNodes(l) : \E i \in Cells, v \in Values :
                     MayTake(bd, i, v) /\ NamesOf(l, n) = RowNames(i, v)

\* There is a row for value v in cell i.
HasRow(l, i, v) == \E n \in RowNodes(l) : NamesOf(l, n) = RowNames(i, v)

\* The matrix before the constructor comes to row k.
RowsMade(l, N, bd, k) ==
  /\ Named(l, N, bd) /\ RowsFit(l, bd)
  /\ \A i \in Cells, v \in Values : MayTake(bd, i, v) /\ i * Side + v < k => HasRow(l, i, v)

\* When the constructor has come to every column, those that are needed are there.
LEMMA ColumnsAll ==
  ASSUME NEW N, NEW l, NEW bd, ColumnsMade(l, N, bd, 4 * Side * Side + 1)
  PROVE  RowsMade(l, N, bd, 1)
<1> DEFINE K == 4 * Side * Side
<1>1. K \in Nat /\ Side \in Nat
  BY SideIs
<1>2. HeadNames(l) = {Name(j) : j \in {x \in 1..K : x < K + 1 /\ Needed(bd, Name(x))}}
  BY DEF ColumnsMade
<1>3. HeadNames(l) \subseteq NeededNames(bd)
  <2> SUFFICES ASSUME NEW j \in 1..K, Needed(bd, Name(j)) PROVE Name(j) \in NeededNames(bd)
    BY <1>2
  <2>1. Name(j) \in Cells \cup AllUnits
    BY NamesDiffer
  <2> QED BY <2>1 DEF NeededNames
<1>4. ASSUME NEW name \in NeededNames(bd) PROVE name \in HeadNames(l)
  <2>1. \E j \in 1..K : Name(j) = name
    <3>1. CASE name \in Cells
      BY <3>1, NamesAll
    <3>2. CASE name \in AllUnits
      BY <3>2, NamesAll, AllUnitsAre
    <3> QED BY <3>1, <3>2 DEF NeededNames
  <2>2. PICK j \in 1..K : Name(j) = name
    BY <2>1
  <2>3. j < K + 1 /\ Needed(bd, Name(j))
    <3> HIDE DEF K
    <3> QED BY <1>1, <2>2 DEF NeededNames
  <2> HIDE DEF K
  <2> QED BY <1>2, <2>2, <2>3
<1>5. Full(l, N) /\ RowNodes(l) = {} /\ NamesOnce(l)
  BY DEF ColumnsMade
<1>6. \A i \in Cells, v \in Values : ~ (i * Side + v < 1)
  <2> SUFFICES ASSUME NEW i \in Cells, NEW v \in Values PROVE ~ (i * Side + v < 1)
    OBVIOUS
  <2>1. i \in Nat /\ v \in Nat /\ v >= 1 /\ Side \in Nat
    BY SideIs
  <2>2. i * Side \in Nat
    BY <2>1
  <2> QED BY <2>1, <2>2
<1> QED BY <1>3, <1>4, <1>5, <1>6 DEF RowsMade, Named, RowsFit

\* The cell and the value to which the constructor comes with step k.
CellAt(k) == (k - 1) \div Side
ValueAt(k) == ((k - 1) % Side) + 1

\* Which step that is.
LEMMA StepIs ==
  ASSUME NEW k \in 1..(Side * Side * Side)
  PROVE  /\ CellAt(k) \in Cells /\ ValueAt(k) \in Values
         /\ \A i \in Cells, v \in Values :
              i * Side + v < k + 1 => i * Side + v < k \/ (i = CellAt(k) /\ v = ValueAt(k))
<1>1. CASE Side = 1
  BY <1>1, SideIs DEF CellAt, ValueAt
<1>2. CASE Side = 4
  <2> DEFINE q == (k - 1) \div 4
             r == (k - 1) % 4
  <2>1. k \in 1..64
    BY <1>2
  <2>2. q \in 0..15 /\ r \in 0..3 /\ k - 1 = 4 * q + r
    BY <2>1
  <2>3. Cells = 0..15 /\ Values = 1..4
    BY <1>2, SideIs
  <2>4. CellAt(k) = q /\ ValueAt(k) = r + 1
    BY <1>2 DEF CellAt, ValueAt
  <2> HIDE DEF q, r
  <2>5. ASSUME NEW i \in 0..15, NEW v \in 1..4, i * 4 + v < k + 1
        PROVE  i * 4 + v < k \/ (i = q /\ v = r + 1)
    BY <2>1, <2>2, <2>5
  <2> QED BY <1>2, <2>2, <2>3, <2>4, <2>5
<1>3. CASE Side = 9
  <2> DEFINE q == (k - 1) \div 9
             r == (k - 1) % 9
  <2>1. k \in 1..729
    BY <1>3
  <2>2. q \in 0..80 /\ r \in 0..8 /\ k - 1 = 9 * q + r
    BY <2>1
  <2>3. Cells = 0..80 /\ Values = 1..9
    BY <1>3, SideIs
  <2>4. CellAt(k) = q /\ ValueAt(k) = r + 1
    BY <1>3 DEF CellAt, ValueAt
  <2> HIDE DEF q, r
  <2>5. ASSUME NEW i \in 0..80, NEW v \in 1..9, i * 9 + v < k + 1
        PROVE  i * 9 + v < k \/ (i = q /\ v = r + 1)
    BY <2>1, <2>2, <2>5
  <2> QED BY <1>3, <2>2, <2>3, <2>4, <2>5
<1> QED BY <1>1, <1>2, <1>3, SideIs

\* append_row of a cell and a value that may be taken adds a row with the columns of their names.
LEMMA AppendRowAdds ==
  ASSUME NEW N, NEW l, NEW bd, Named(l, N, bd), NEW i \in Cells, NEW v \in Values,
         MayTake(bd, i, v)
  PROVE  \E n1, n2, n3 : /\ RowAdded(l, append_row(l, i, v), N, i, n1, n2, n3)
                         /\ RowNames(i, v) = {i, n1, n2, n3}
<1> DEFINE n1 == UnitName(1, Idx(1, i), v)
           n2 == UnitName(2, Idx(2, i), v)
           n3 == UnitName(3, Idx(3, i), v)
<1>1. Units(i, v) = <<n1, n2, n3>> /\ Range(Units(i, v)) = {n1, n2, n3}
  <2>1. Units(i, v) = <<n1, n2, n3>>
    BY UnitsAre
  <2>2. Range(<<n1, n2, n3>>) = {n1, n2, n3}
    BY RangeThree
  <2> QED BY <2>1, <2>2
<1>2. /\ Idx(1, i) \in 0..(Side - 1) /\ Idx(2, i) \in 0..(Side - 1) /\ Idx(3, i) \in 0..(Side - 1)
      /\ 1 \in 1..3 /\ 2 \in 1..3 /\ 3 \in 1..3
  BY IdxIn
<1>3. /\ n1 \in Int /\ n1 \notin Cells /\ n2 \in Int /\ n2 \notin Cells
      /\ n3 \in Int /\ n3 \notin Cells
  BY <1>2, UnitNames
<1>4. n1 # n2
  BY <1>2, UnitNamesDiffer
<1>5. n1 # n3
  BY <1>2, UnitNamesDiffer
<1>6. n2 # n3
  BY <1>2, UnitNamesDiffer
<1> HIDE DEF n1, n2, n3
<1>7. Full(l, N) /\ HeadNames(l) = NeededNames(bd)
  BY DEF Named
<1>8. N \in Nat /\ l \in Mat(N)
  BY <1>7, FullIs DEF Shape
<1>9. Len(l.left) = N
  BY <1>8, MatFields, SequenceOf
<1>10. append_row(l, i, v) = Four(l, N, i, n1, n2, n3)
  <2>1. /\ Units(i, v)[1] = n1 /\ Units(i, v)[2] = n2 /\ Units(i, v)[3] = n3
    BY <1>1
  <2>2. (N + 1) + 1 = N + 2 /\ (N + 1) + 2 = N + 3 /\ (N + 1) + 3 = N + 4
    BY <1>8
  <2> QED BY <2>1, <2>2, <1>9 DEF append_row, Four
<1>11. RowNames(i, v) = {i, n1, n2, n3}
  BY <1>1 DEF RowNames
<1>12. \A name \in {i, n1, n2, n3} : \E c \in Heads(l) : l.name[c] = name
  <2> SUFFICES ASSUME NEW name \in {i, n1, n2, n3} PROVE \E c \in Heads(l) : l.name[c] = name
    OBVIOUS
  <2>1. name \in RowNames(i, v)
    BY <1>11
  <2>2. name \in Cells \cup AllUnits /\ Needed(bd, name)
    BY <2>1, TakesNeeded
  <2>3. name \in HeadNames(l)
    BY <2>2, <1>7 DEF NeededNames
  <2> QED BY <2>3 DEF HeadNames
<1>13. i \in Int /\ i # n1 /\ i # n2 /\ i # n3
  BY <1>3, SideIs
<1>14. RowAdded(l, Four(l, N, i, n1, n2, n3), N, i, n1, n2, n3)
  BY <1>3, <1>4, <1>5, <1>6, <1>7, <1>12, <1>13, FourStep
<1> QED BY <1>10, <1>11, <1>14

\* Rows keep their nodes and names when another is added.
LEMMA OldRows ==
  ASSUME NEW N, NEW l, NEW z, Full(l, N), NEW n0, NEW n1, NEW n2, NEW n3,
         RowAdded(l, z, N, n0, n1, n2, n3), NEW n \in RowNodes(l)
  PROVE  /\ n \in RowNodes(z) /\ NamesOf(z, n) = NamesOf(l, n)
         /\ z.name[n] = l.name[n] /\ z.col[n] = l.col[n] /\ l.col[n] \in Heads(l)
         /\ z.name[l.col[n]] = l.name[l.col[n]]
<1>1. Shape(l, N) /\ RowNodes(l) \subseteq 1..N /\ Heads(l) \subseteq 1..N
  BY FullIs DEF Shape, Mat, RowNodes, Heads
<1>2. PICK a, b, d : IsRow(l, n, a, b, d)
  BY <1>1 DEF Shape
<1>3. {n, a, b, d} \subseteq RowNodes(l) /\ RowOf(l, n) = {n, a, b, d}
  BY <1>2, RowIs DEF IsRow
<1>4. RowOf(z, n) = {n, a, b, d}
  <2>1. z.right[n] = a /\ z.right[a] = b /\ z.right[b] = d
    <3>1. l.right[n] = a /\ l.right[a] = b /\ l.right[b] = d
      BY <1>2 DEF IsRow
    <3>2. z.right[n] = l.right[n] /\ z.right[a] = l.right[a] /\ z.right[b] = l.right[b]
      BY <1>3 DEF RowAdded
    <3> QED BY <3>1, <3>2
  <2> QED BY <2>1 DEF RowOf
<1>5. \A x \in RowNodes(l) \cup Heads(l) : z.name[x] = l.name[x] /\ z.col[x] = l.col[x]
  BY <1>1 DEF RowAdded
<1>6. NamesOf(z, n) = NamesOf(l, n)
  BY <1>3, <1>4, <1>5 DEF NamesOf
<1>7. l.col[n] \in Heads(l)
  BY <1>1 DEF Shape
<1> QED BY <1>5, <1>6, <1>7 DEF RowAdded

\* The nodes of the added row have the four names.
LEMMA AddedRow ==
  ASSUME NEW N, NEW l, NEW z, NEW n0, NEW n1, NEW n2, NEW n3,
         RowAdded(l, z, N, n0, n1, n2, n3), NEW n \in {N + 1, N + 2, N + 3, N + 4}
  PROVE  /\ n \in RowNodes(z) /\ NamesOf(z, n) = {n0, n1, n2, n3}
         /\ z.name[z.col[n]] = z.name[n]
<1>1. IsRow(z, N + 1, N + 2, N + 3, N + 4)
  BY DEF RowAdded
<1>2. RowOf(z, n) = {N + 1, N + 2, N + 3, N + 4}
  <2> DEFINE x1 == N + 1  x2 == N + 2  x3 == N + 3  x4 == N + 4
  <2>1. IsRow(z, x1, x2, x3, x4) /\ n \in {x1, x2, x3, x4}
    BY <1>1
  <2> HIDE DEF x1, x2, x3, x4
  <2>2. RowOf(z, n) = {x1, x2, x3, x4}
    BY <2>1, RowIs
  <2> QED BY <2>2 DEF x1, x2, x3, x4
<1>3. NamesOf(z, n) = {n0, n1, n2, n3}
  BY <1>2 DEF NamesOf, RowAdded
<1> QED BY <1>3 DEF RowAdded

\* A row is appended, or the step passes one that may not be taken.
LEMMA RowsStep ==
  ASSUME NEW N, NEW l, NEW bd, NEW k \in 1..(Side * Side * Side), RowsMade(l, N, bd, k)
  PROVE  /\ MayTake(bd, CellAt(k), ValueAt(k)) =>
              RowsMade(append_row(l, CellAt(k), ValueAt(k)), N + 4, bd, k + 1)
         /\ ~ MayTake(bd, CellAt(k), ValueAt(k)) => RowsMade(l, N, bd, k + 1)
<1> DEFINE i == CellAt(k)
           v == ValueAt(k)
           z == append_row(l, i, v)
<1>1. i \in Cells /\ v \in Values
  BY StepIs
<1>2. ASSUME NEW j \in Cells, NEW w \in Values, j * Side + w < k + 1
      PROVE  j * Side + w < k \/ (j = i /\ w = v)
  BY <1>2, StepIs
<1>3. Named(l, N, bd) /\ RowsFit(l, bd)
  BY DEF RowsMade
<1>4. ASSUME NEW j \in Cells, NEW w \in Values, MayTake(bd, j, w), j * Side + w < k
      PROVE  HasRow(l, j, w)
  BY <1>4 DEF RowsMade
<1> HIDE DEF i, v
<1>5. ASSUME ~ MayTake(bd, i, v) PROVE RowsMade(l, N, bd, k + 1)
  <2>1. ASSUME NEW j \in Cells, NEW w \in Values, MayTake(bd, j, w), j * Side + w < k + 1
        PROVE  HasRow(l, j, w)
    BY <2>1, <1>2, <1>4, <1>5
  <2> QED BY <2>1, <1>3 DEF RowsMade
<1>6. ASSUME MayTake(bd, i, v) PROVE RowsMade(z, N + 4, bd, k + 1)
  <2>1. PICK n1, n2, n3 : RowAdded(l, z, N, i, n1, n2, n3) /\ RowNames(i, v) = {i, n1, n2, n3}
    BY <1>1, <1>3, <1>6, AppendRowAdds
  <2> HIDE DEF z
  <2>2. Full(l, N) /\ NamesOnce(l) /\ HeadNames(l) = NeededNames(bd)
    BY <1>3 DEF Named
  <2>3. /\ Full(z, N + 4) /\ Heads(z) = Heads(l)
        /\ RowNodes(z) = RowNodes(l) \cup {N + 1, N + 2, N + 3, N + 4}
        /\ \A c \in Heads(l) : z.name[c] = l.name[c]
    <3>1. Heads(l) \subseteq 1..N
      BY <2>2, FullIs DEF Shape, Mat, Heads
    <3> QED BY <2>1, <3>1 DEF RowAdded
  <2>4. NamesOnce(z) /\ HeadNames(z) = NeededNames(bd)
    BY <2>2, <2>3 DEF NamesOnce, HeadNames
  <2>5. ASSUME NEW n \in RowNodes(l)
        PROVE  /\ n \in RowNodes(z) /\ NamesOf(z, n) = NamesOf(l, n)
               /\ z.name[n] = l.name[n] /\ z.col[n] = l.col[n]
               /\ z.name[l.col[n]] = l.name[l.col[n]]
    BY <2>1, <2>2, OldRows
  <2>6. ASSUME NEW n \in {N + 1, N + 2, N + 3, N + 4}
        PROVE  /\ n \in RowNodes(z) /\ NamesOf(z, n) = RowNames(i, v)
               /\ z.name[z.col[n]] = z.name[n]
    <3>1. n \in RowNodes(z) /\ NamesOf(z, n) = {i, n1, n2, n3} /\ z.name[z.col[n]] = z.name[n]
      BY <2>1, AddedRow
    <3> QED BY <3>1, <2>1
  <2>7. Named(z, N + 4, bd)
    <3>1. ASSUME NEW n \in RowNodes(z) PROVE z.name[z.col[n]] = z.name[n]
      <4>1. CASE n \in RowNodes(l)
        BY <4>1, <2>5, <1>3 DEF Named
      <4>2. CASE n \in {N + 1, N + 2, N + 3, N + 4}
        BY <4>2, <2>6
      <4> QED BY <4>1, <4>2, <2>3
    <3> QED BY <3>1, <2>3, <2>4 DEF Named
  <2>8. RowsFit(z, bd)
    <3> SUFFICES ASSUME NEW n \in RowNodes(z)
                 PROVE  \E j \in Cells, w \in Values :
                          MayTake(bd, j, w) /\ NamesOf(z, n) = RowNames(j, w)
      BY DEF RowsFit
    <3>1. CASE n \in RowNodes(l)
      <4>1. NamesOf(z, n) = NamesOf(l, n)
        BY <3>1, <2>5
      <4>2. PICK j \in Cells, w \in Values : MayTake(bd, j, w) /\ NamesOf(l, n) = RowNames(j, w)
        BY <3>1, <1>3 DEF RowsFit
      <4> QED BY <4>1, <4>2
    <3>2. CASE n \in {N + 1, N + 2, N + 3, N + 4}
      <4>1. NamesOf(z, n) = RowNames(i, v)
        BY <3>2, <2>6
      <4> QED BY <4>1, <1>1, <1>6
    <3> QED BY <3>1, <3>2, <2>3
  <2>9. ASSUME NEW j \in Cells, NEW w \in Values, MayTake(bd, j, w), j * Side + w < k + 1
        PROVE  HasRow(z, j, w)
    <3>1. CASE j * Side + w < k
      <4>1. PICK n \in RowNodes(l) : NamesOf(l, n) = RowNames(j, w)
        BY <3>1, <2>9, <1>4 DEF HasRow
      <4> QED BY <4>1, <2>5 DEF HasRow
    <3>2. CASE j = i /\ w = v
      <4>1. N + 1 \in RowNodes(z) /\ NamesOf(z, N + 1) = RowNames(i, v)
        BY <2>6
      <4> QED BY <4>1, <3>2 DEF HasRow
    <3> QED BY <3>1, <3>2, <2>9, <1>2
  <2> QED BY <2>7, <2>8, <2>9 DEF RowsMade
<1> QED BY <1>5, <1>6 DEF i, v, z

-----------------------------------------------------------------------------
(* The history of the calls of solve() *)

\* The nodes of column c of which every row column is open.
OpenRows(l, O, c) == InCol(l, Live(l, O), c)

\* A call of solve() that has taken a row: the matrix and the open columns before and after.
Chosen(l, O, m, P, f) == /\ f.col \in O /\ f.row \in OpenRows(l, O, f.col)
                         /\ m = CoverRow(cover(l, f.col), f.row) /\ P = O \ ColsOf(l, f.row)

\* The matrices at the calls of solve() that have taken a row, and the open columns of each.
History(H, O, N, D, fs) ==
  /\ D \in Nat /\ O[1] = Heads(H[1])
  /\ \A k \in 1..(D + 1) : Open(H[k], O[k], N) /\ Keeps(H[1], H[k], N)
  /\ \A k \in 1..D : Chosen(H[k], O[k], H[k + 1], O[k + 1], fs[k])

\* A full matrix is the beginning of a history.
LEMMA HistoryBegins ==
  ASSUME NEW N, NEW l, Full(l, N), NEW fs
  PROVE  \E H, O : History(H, O, N, 0, fs) /\ H[1] = l
<1> DEFINE H == [k \in 1..1 |-> l]
           O == [k \in 1..1 |-> Heads(l)]
<1>1. \A k \in 1..(0 + 1) : k = 1 /\ H[k] = l /\ O[k] = Heads(l)
  OBVIOUS
<1>2. 1 \in 1..(0 + 1) /\ 0 \in Nat /\ ~ \E k \in 1..0 : TRUE
  OBVIOUS
<1>3. Open(l, Heads(l), N) /\ Keeps(l, l, N)
  BY FullIs DEF Full, Shape, Keeps
<1> HIDE DEF H, O
<1>4. History(H, O, N, 0, fs) /\ H[1] = l
  BY <1>1, <1>2, <1>3 DEF History
<1> QED BY <1>4

\* A row that was taken is taken back.
LEMMA TakenBack ==
  ASSUME NEW N, NEW l, NEW O, Open(l, O, N), NEW m, NEW P, NEW f, Chosen(l, O, m, P, f)
  PROVE  UncoverRow(m, f.row) = cover(l, f.col)
<1> DEFINE c == f.col
           r == f.row
<1>1. c \in O /\ r \in OpenRows(l, O, c) /\ m = CoverRow(cover(l, c), r)
  BY DEF Chosen
<1>2. N \in Nat
  BY DEF Open, Shape
<1> HIDE DEF c, r
<1>3. r \in InCol(l, Live(l, O), c)
  BY <1>1 DEF OpenRows
<1>4. c \in O
  BY <1>1
<1>5. /\ Open(CoverRow(cover(l, c), r), O \ ColsOf(l, r), N)
      /\ Keeps(l, CoverRow(cover(l, c), r), N)
      /\ UncoverRow(CoverRow(cover(l, c), r), r) = cover(l, c)
  BY <1>2, <1>3, <1>4, TryStep
<1> QED BY <1>1, <1>5 DEF c, r

\* A column that was covered is uncovered.
LEMMA CoveredBack ==
  ASSUME NEW N, NEW l, NEW O, Open(l, O, N), NEW c \in O, NEW m, m = cover(l, c)
  PROVE  uncover(m, c) = l
<1>1. N \in Nat
  BY DEF Open, Shape
<1> QED BY <1>1, CoverStep

\* The node below a live node of a column is live, or the head.
LEMMA DownRow ==
  ASSUME NEW N, NEW l, NEW O, Open(l, O, N), NEW c \in O, NEW x \in OpenRows(l, O, c) \cup {c}
  PROVE  cover(l, c).down[x] \in OpenRows(l, O, c) \cup {c}
<1>1. N \in Nat
  BY DEF Open, Shape
<1> QED BY <1>1, DownStep DEF OpenRows

\* What it says depends on the frames below its depth.
LEMMA HistoryFrames ==
  ASSUME NEW H, NEW O, NEW N, NEW D, NEW fs, History(H, O, N, D, fs),
         NEW gs, \A k \in 1..D : gs[k] = fs[k]
  PROVE  History(H, O, N, D, gs)
BY DEF History

\* It stays one when the last call is taken back.
LEMMA HistoryShrinks ==
  ASSUME NEW H, NEW O, NEW N, NEW D \in Nat, NEW fs, History(H, O, N, D + 1, fs)
  PROVE  /\ History(H, O, N, D, fs)
         /\ Chosen(H[D + 1], O[D + 1], H[D + 2], O[D + 2], fs[D + 1])
<1>1. /\ \A k \in 1..D : k \in 1..(D + 1)
      /\ \A k \in 1..(D + 1) : k \in 1..((D + 1) + 1)
      /\ D + 1 \in 1..(D + 1) /\ (D + 1) + 1 = D + 2
  OBVIOUS
<1>2. Chosen(H[D + 1], O[D + 1], H[D + 2], O[D + 2], fs[D + 1])
  <2>1. Chosen(H[D + 1], O[D + 1], H[(D + 1) + 1], O[(D + 1) + 1], fs[D + 1])
    BY <1>1 DEF History
  <2> QED BY <2>1, <1>1
<1>3. \A k \in 1..(D + 1) : Open(H[k], O[k], N) /\ Keeps(H[1], H[k], N)
  BY <1>1 DEF History
<1>4. \A k \in 1..D : Chosen(H[k], O[k], H[k + 1], O[k + 1], fs[k])
  BY <1>1 DEF History
<1>5. O[1] = Heads(H[1])
  BY DEF History
<1> QED BY <1>2, <1>3, <1>4, <1>5 DEF History

\* The matrix after one more row.
Grow(H, D, f) == [k \in 1..(D + 2) |->
                    IF k = D + 2 THEN CoverRow(cover(H[D + 1], f.col), f.row) ELSE H[k]]
GrowOpen(H, O, D, f) == [k \in 1..(D + 2) |->
                           IF k = D + 2 THEN O[D + 1] \ ColsOf(H[D + 1], f.row) ELSE O[k]]

\* What a history G, P of one more row is.
Grew(G, P, H, O, D, f) ==
  /\ G[D + 2] = CoverRow(cover(H[D + 1], f.col), f.row)
  /\ P[D + 2] = O[D + 1] \ ColsOf(H[D + 1], f.row)
  /\ \A k \in 1..(D + 1) : G[k] = H[k] /\ P[k] = O[k]

\* The matrices before stay.
LEMMA GrowIs ==
  ASSUME NEW H, NEW O, NEW D \in Nat, NEW f
  PROVE  Grew(Grow(H, D, f), GrowOpen(H, O, D, f), H, O, D, f)
<1> DEFINE m == CoverRow(cover(H[D + 1], f.col), f.row)
           R == O[D + 1] \ ColsOf(H[D + 1], f.row)
           G == Grow(H, D, f)
           P == GrowOpen(H, O, D, f)
<1>1. D + 2 \in 1..(D + 2) /\ \A k \in 1..(D + 1) : k \in 1..(D + 2) /\ k # D + 2
  OBVIOUS
<1> HIDE DEF m, R
<1>2. G = [k \in 1..(D + 2) |-> IF k = D + 2 THEN m ELSE H[k]]
  BY DEF Grow, m
<1>3. P = [k \in 1..(D + 2) |-> IF k = D + 2 THEN R ELSE O[k]]
  BY DEF GrowOpen, R
<1> HIDE DEF G, P
<1>4. G[D + 2] = m /\ P[D + 2] = R /\ \A k \in 1..(D + 1) : G[k] = H[k] /\ P[k] = O[k]
  BY <1>1, <1>2, <1>3
<1> QED BY <1>4 DEF m, R, G, P, Grew

\* It is longer by one when a row of an open column is taken.
LEMMA HistoryGrows ==
  ASSUME NEW H, NEW O, NEW N, NEW D, NEW fs, History(H, O, N, D, fs),
         fs[D + 1].col \in O[D + 1],
         fs[D + 1].row \in OpenRows(H[D + 1], O[D + 1], fs[D + 1].col)
  PROVE  /\ History(Grow(H, D, fs[D + 1]), GrowOpen(H, O, D, fs[D + 1]), N, D + 1, fs)
         /\ UncoverRow(Grow(H, D, fs[D + 1])[D + 2], fs[D + 1].row) = cover(H[D + 1], fs[D + 1].col)
<1> DEFINE f == fs[D + 1]
           G == Grow(H, D, f)
           P == GrowOpen(H, O, D, f)
           m == CoverRow(cover(H[D + 1], f.col), f.row)
           R == O[D + 1] \ ColsOf(H[D + 1], f.row)
<1>1. D \in Nat
  BY DEF History
<1>2. /\ G[D + 2] = m /\ P[D + 2] = R
      /\ \A k \in 1..(D + 1) : G[k] = H[k] /\ P[k] = O[k]
  <2>1. Grew(G, P, H, O, D, f)
    <3> HIDE DEF f
    <3> QED BY <1>1, GrowIs
  <2> QED BY <2>1 DEF Grew
<1>3. Open(m, R, N) /\ Keeps(H[D + 1], m, N) /\ UncoverRow(m, f.row) = cover(H[D + 1], f.col)
  <2>1. D + 1 \in 1..(D + 1)
    BY <1>1
  <2>2. Open(H[D + 1], O[D + 1], N)
    BY <2>1 DEF History
  <2>3. N \in Nat
    BY <2>2 DEF Open, Shape
  <2>4. f.col \in O[D + 1] /\ f.row \in InCol(H[D + 1], Live(H[D + 1], O[D + 1]), f.col)
    BY DEF OpenRows
  <2> HIDE DEF f
  <2> QED BY <2>2, <2>3, <2>4, TryStep
<1>4. Chosen(H[D + 1], O[D + 1], m, R, f)
  BY DEF Chosen
<1> HIDE DEF G, P, m, R
<1>5. /\ 1 \in 1..(D + 1) /\ (D + 1) + 1 = D + 2 /\ D + 1 \in 1..(D + 1)
      /\ \A k \in 1..D : k \in 1..(D + 1) /\ k + 1 \in 1..(D + 1)
      /\ \A k \in 1..((D + 1) + 1) : k \in 1..(D + 1) \/ k = D + 2
      /\ \A k \in 1..(D + 1) : k \in 1..D \/ k = D + 1
  BY <1>1
<1>6. G[1] = H[1] /\ P[1] = O[1]
  BY <1>2, <1>5
<1>7. ASSUME NEW k \in 1..((D + 1) + 1) PROVE Open(G[k], P[k], N) /\ Keeps(G[1], G[k], N)
  <2>1. CASE k \in 1..(D + 1)
    <3>1. Open(H[k], O[k], N) /\ Keeps(H[1], H[k], N)
      BY <2>1 DEF History
    <3> QED BY <2>1, <3>1, <1>2, <1>6
  <2>2. CASE k = D + 2
    <3>1. Keeps(H[1], H[D + 1], N)
      BY <1>5 DEF History
    <3>2. Keeps(H[1], m, N)
      BY <3>1, <1>3, KeepsTrans
    <3> QED BY <2>2, <3>2, <1>2, <1>3, <1>6
  <2> QED BY <2>1, <2>2, <1>5
<1>8. ASSUME NEW k \in 1..(D + 1) PROVE Chosen(G[k], P[k], G[k + 1], P[k + 1], fs[k])
  <2>1. CASE k \in 1..D
    <3>1. Chosen(H[k], O[k], H[k + 1], O[k + 1], fs[k])
      BY <2>1 DEF History
    <3>2. G[k] = H[k] /\ P[k] = O[k] /\ G[k + 1] = H[k + 1] /\ P[k + 1] = O[k + 1]
      BY <2>1, <1>2, <1>5
    <3> QED BY <3>1, <3>2
  <2>2. CASE k = D + 1
    <3>1. k + 1 = D + 2
      BY <2>2, <1>5
    <3> QED BY <2>2, <3>1, <1>2, <1>4, <1>5
  <2> QED BY <2>1, <2>2, <1>5
<1>9. P[1] = Heads(G[1])
  BY <1>6 DEF History
<1>10. History(G, P, N, D + 1, fs)
  BY <1>1, <1>7, <1>8, <1>9 DEF History
<1>11. UncoverRow(G[D + 2], f.row) = cover(H[D + 1], f.col)
  BY <1>2, <1>3
<1> QED BY <1>10, <1>11 DEF G, P

-----------------------------------------------------------------------------
(* LinksConsistent of an open matrix *)

\* The nodes of a sequence in order are those of its set.
LEMMA SortedRange ==
  ASSUME NEW s, NEW S, NEW N, NEW d, Sorted(s, S, N, d)
  PROVE  Range(s) = S
<1>1. DOMAIN s = 1..Len(s)
  BY DEF Sorted
<1> QED BY <1>1 DEF Sorted, Range

\* The next of a sequence in order is greater.
LEMMA SortedGrows ==
  ASSUME NEW s, NEW S, NEW N, NEW d, Sorted(s, S, N, d), NEW k \in 1..(Len(s) - 1)
  PROVE  s[k] < s[k + 1]
<1>1. Len(s) \in Nat
  BY DEF Sorted
<1>2. k \in 1..Len(s) /\ k + 1 \in 1..Len(s) /\ k < k + 1
  BY <1>1
<1> QED BY <1>2 DEF Sorted

\* The nodes that LinksConsistent expects are the live ones.
LEMMA LiveAre ==
  ASSUME NEW N, NEW O, NEW l, Shape(l, N)
  PROVE  {n \in DOMAIN l.col : /\ n # Root /\ l.col[n] # n
                               /\ \A j \in {n} \cup Range(Walk(l.right, n)) : l.col[j] \in O}
           = Live(l, O)
<1> DEFINE rows == {n \in DOMAIN l.col : /\ n # Root /\ l.col[n] # n
                                         /\ \A j \in {n} \cup Range(Walk(l.right, n)) : l.col[j] \in O}
<1>1. \A n \in DOMAIN l.col : n # Root /\ l.col[n] # n <=> n \in RowNodes(l)
  BY DEF Shape, Root, RowNodes
<1>2. ASSUME NEW n \in RowNodes(l) PROVE {n} \cup Range(Walk(l.right, n)) = RowOf(l, n)
  <2>1. PICK a, b, d : IsRow(l, n, a, b, d)
    BY DEF Shape
  <2>2. Walk(l.right, n) = <<a, b, d>>
    BY <2>1, RowWalks
  <2>3. Range(<<a, b, d>>) = {a, b, d}
    BY RangeThree
  <2>4. RowOf(l, n) = {n, a, b, d}
    BY <2>1, RowIs
  <2> QED BY <2>2, <2>3, <2>4
<1>3. \A n : n \in rows <=> /\ n \in RowNodes(l)
                            /\ \A j \in {n} \cup Range(Walk(l.right, n)) : l.col[j] \in O
  BY <1>1 DEF RowNodes
<1> HIDE DEF rows
<1>4. \A n : n \in rows <=> n \in Live(l, O)
  BY <1>2, <1>3 DEF Live
<1>5. rows = Live(l, O)
  BY <1>4
<1> QED BY <1>5 DEF rows

\* The links of a matrix of which some columns are open are those that LinksConsistent states.
LEMMA OpenConsistent ==
  ASSUME NEW N, NEW O, Open(lists, O, N)
  PROVE  LinksConsistent
<1>1. Shape(lists, N) /\ N \in Nat
  BY DEF Open, Shape
<1>2. PICK s : Circles(s, lists.right, lists.left, Root, O, N)
  BY <1>1, OpenHeads
<1>3. Walk(lists.right, Root) = s /\ Walk(lists.left, Root) = Reverse(s) /\ Range(s) = O
  BY <1>2, SortedRange DEF Circles
<1> DEFINE rows == {n \in DOMAIN lists.col : /\ n # Root /\ lists.col[n] # n
                          /\ \A j \in {n} \cup Range(Walk(lists.right, n)) : lists.col[j] \in O}
<1>4. rows = Live(lists, O)
  BY <1>1, LiveAre
<1> HIDE DEF rows
<1>5. ASSUME NEW c \in O PROVE Links(c, {n \in rows : lists.col[n] = c})
  <2> DEFINE G == InCol(lists, Live(lists, O), c)
  <2>1. {n \in rows : lists.col[n] = c} = G
    BY <1>4 DEF InCol
  <2>2. PICK t : Circles(t, lists.down, lists.up, c, G, N)
    BY <1>1, OpenColumn
  <2>3. lists.size[c] = Cardinality(G)
    <3>1. LinkedAt(lists, c, Live(lists, O))
      BY <1>1, OpenColumn
    <3> QED BY <3>1 DEF LinkedAt
  <2> HIDE DEF G
  <2>4. Walk(lists.down, c) = t /\ Walk(lists.up, c) = Reverse(t) /\ Range(t) = G
    BY <2>2, SortedRange DEF Circles
  <2>5. \A k \in 1..(Len(t) - 1) : t[k] < t[k + 1]
    BY <2>2, SortedGrows DEF Circles
  <2> QED BY <2>1, <2>3, <2>4, <2>5 DEF Links, Reverse
<1>6. /\ Walk(lists.left, Root) = [k \in 1..Len(s) |-> s[Len(s) + 1 - k]]
      /\ \A c \in O : Links(c, {n \in rows : lists.col[n] = c})
  BY <1>3, <1>5 DEF Reverse
<1> QED BY <1>3, <1>6 DEF LinksConsistent, rows

-----------------------------------------------------------------------------
(* The steps of the search *)

\* What a call of solve() may hold in a matrix of N nodes.
Frames(N) == [col : 1..N, row : 1..N]

\* How many calls of solve() have taken a row.
Depth == IF at = "row" THEN Len(frames) - 1 ELSE Len(frames)

\* Where the search is in its history.
Solving(H, O, N) ==
  /\ frames \in Seq(Frames(N)) /\ History(H, O, N, Depth, frames)
  /\ at \in {"solve", "row", "back", "Solution", "NoSolution"}
  /\ at # "row" => lists = H[Depth + 1]
  /\ at = "row" => /\ Len(frames) > 0 /\ Top.col \in O[Depth + 1]
                   /\ Top.row \in OpenRows(H[Depth + 1], O[Depth + 1], Top.col) \cup {Top.col}
                   /\ lists = cover(H[Depth + 1], Top.col)
  /\ at = "back" => Len(frames) > 0
  /\ at = "NoSolution" => Len(frames) = 0
  /\ at = "Solution" => O[Depth + 1] = {}

\* The matrix at the last of the calls that have taken a row.
LEMMA LastOpen ==
  ASSUME NEW H, NEW O, NEW N, NEW D, NEW fs, History(H, O, N, D, fs)
  PROVE  /\ Open(H[D + 1], O[D + 1], N) /\ N \in Nat /\ D \in Nat
         /\ Keeps(H[1], H[D + 1], N) /\ Shape(H[D + 1], N)
<1>1. D \in Nat /\ D + 1 \in 1..(D + 1)
  BY DEF History
<1>2. Open(H[D + 1], O[D + 1], N) /\ Keeps(H[1], H[D + 1], N)
  BY <1>1 DEF History
<1> QED BY <1>1, <1>2 DEF Open, Shape

\* Columns and live rows are nodes.
LEMMA AreNodes ==
  ASSUME NEW N, NEW l, NEW O, Open(l, O, N), NEW c \in O
  PROVE  c \in 1..N /\ OpenRows(l, O, c) \subseteq 1..N /\ \A n \in OpenRows(l, O, c) : c < n
<1>1. Above(c, InCol(l, Live(l, O), c), N) /\ c \in 1..N
  <2>1. N \in Nat
    BY DEF Open, Shape
  <2> QED BY <2>1, OpenColumn
<1> QED BY <1>1 DEF Above, OpenRows

\* A frame is put on top.
LEMMA Pushed ==
  ASSUME NEW T, NEW s \in Seq(T), NEW x \in T
  PROVE  /\ Append(s, x) \in Seq(T) /\ Len(Append(s, x)) = Len(s) + 1
         /\ Append(s, x)[Len(s) + 1] = x /\ \A k \in 1..Len(s) : Append(s, x)[k] = s[k]
OBVIOUS

\* solve() takes a column.
LEMMA ChooseStep ==
  ASSUME NEW H, NEW O, NEW N, Solving(H, O, N), Choose
  PROVE  /\ Solving(H, O, N)' /\ Depth' = Depth /\ Len(frames') = Depth + 1
         /\ \A k \in 1..Depth : frames'[k] = frames[k]
         /\ Top'.row = cover(H[Depth + 1], Top'.col).down[Top'.col]
         /\ Top' = frames'[Depth + 1] /\ Top'.col \in O[Depth + 1]
<1> DEFINE D == Depth
           c == get_min_column(lists)
           r == cover(lists, c).down[c]
           f == [col |-> c, row |-> r]
<1>1. /\ at = "solve" /\ lists.left[Root] # Root /\ lists' = cover(lists, c)
      /\ frames' = Append(frames, f) /\ at' = "row"
  BY DEF Choose
<1>2. D = Len(frames) /\ lists = H[D + 1] /\ frames \in Seq(Frames(N)) /\ History(H, O, N, D, frames)
  BY <1>1 DEF Solving, Depth
<1> HIDE DEF D
<1>3. /\ Open(H[D + 1], O[D + 1], N) /\ N \in Nat /\ D \in Nat
  BY <1>2, LastOpen
<1>4. c \in O[D + 1]
  BY <1>1, <1>2, <1>3, MinColumn
<1> HIDE DEF c
<1>5. r \in OpenRows(H[D + 1], O[D + 1], c) \cup {c}
  <2>1. c \in OpenRows(H[D + 1], O[D + 1], c) \cup {c}
    OBVIOUS
  <2>2. cover(H[D + 1], c).down[c] \in OpenRows(H[D + 1], O[D + 1], c) \cup {c}
    BY <1>3, <1>4, <2>1, DownRow
  <2> QED BY <2>2, <1>2
<1>6. c \in 1..N /\ r \in 1..N
  BY <1>3, <1>4, <1>5, AreNodes
<1>7. r = cover(H[D + 1], c).down[c]
  BY <1>2
<1> HIDE DEF r
<1>8. f \in Frames(N) /\ f.col = c /\ f.row = r
  BY <1>6 DEF Frames
<1> HIDE DEF f
<1>9. /\ frames' \in Seq(Frames(N)) /\ Len(frames') = D + 1 /\ frames'[D + 1] = f
      /\ \A k \in 1..D : frames'[k] = frames[k]
  BY <1>1, <1>2, <1>8, Pushed
<1>10. Depth' = D /\ Top' = f
  <2>1. Len(frames') - 1 = D
    BY <1>3, <1>9
  <2> QED BY <2>1, <1>1, <1>9 DEF Depth, Top
<1>11. History(H, O, N, D, frames')
  BY <1>2, <1>9, HistoryFrames
<1>12. Solving(H, O, N)'
  <2>1. frames' \in Seq(Frames(N)) /\ History(H, O, N, Depth', frames')
    BY <1>9, <1>10, <1>11
  <2>2. Len(frames') > 0
    BY <1>3, <1>9
  <2>3. /\ Top'.col \in O[Depth' + 1]
        /\ Top'.row \in OpenRows(H[Depth' + 1], O[Depth' + 1], Top'.col) \cup {Top'.col}
        /\ lists' = cover(H[Depth' + 1], Top'.col)
    BY <1>1, <1>2, <1>4, <1>5, <1>8, <1>10
  <2> QED BY <2>1, <2>2, <2>3, <1>1 DEF Solving
<1> QED BY <1>4, <1>7, <1>8, <1>9, <1>10, <1>12 DEF D

\* solve() takes a row and calls itself.
LEMMA TryRowStep ==
  ASSUME NEW H, NEW O, NEW N, Solving(H, O, N), TryRow
  PROVE  /\ \E G, P : Grew(G, P, H, O, Depth, Top) /\ Solving(G, P, N)'
         /\ Depth' = Depth + 1 /\ frames' = frames
         /\ Top = frames[Depth + 1] /\ Top.row \in OpenRows(H[Depth + 1], O[Depth + 1], Top.col)
<1> DEFINE D == Depth
           f == Top
<1>1. /\ at = "row" /\ f.row # f.col /\ lists' = CoverRow(lists, f.row)
      /\ at' = "solve" /\ frames' = frames
  BY DEF TryRow
<1>2. /\ D = Len(frames) - 1 /\ frames \in Seq(Frames(N)) /\ History(H, O, N, D, frames)
      /\ Len(frames) > 0 /\ f.col \in O[D + 1] /\ lists = cover(H[D + 1], f.col)
      /\ f.row \in OpenRows(H[D + 1], O[D + 1], f.col)
  BY <1>1 DEF Solving, Depth
<1>3. D \in Nat /\ Len(frames) = D + 1 /\ f = frames[D + 1]
  <2>1. Len(frames) \in Nat
    BY <1>2
  <2> QED BY <2>1, <1>2 DEF Top
<1>4. Depth' = D + 1
  BY <1>1, <1>3 DEF Depth
<1> HIDE DEF D, f
<1>5. PICK G, P : Grew(G, P, H, O, D, f) /\ History(G, P, N, D + 1, frames)
  <2>1. History(Grow(H, D, f), GrowOpen(H, O, D, f), N, D + 1, frames)
    BY <1>2, <1>3, HistoryGrows
  <2>2. Grew(Grow(H, D, f), GrowOpen(H, O, D, f), H, O, D, f)
    BY <1>3, GrowIs
  <2> QED BY <2>1, <2>2
<1>6. G[D + 2] = lists'
  <2>1. Grew(G, P, H, O, D, f)
    BY <1>5
  <2>2. G[D + 2] = CoverRow(cover(H[D + 1], f.col), f.row)
    BY <2>1 DEF Grew
  <2> QED BY <2>2, <1>1, <1>2
<1>7. Solving(G, P, N)'
  <2>1. frames' \in Seq(Frames(N)) /\ History(G, P, N, Depth', frames')
    BY <1>1, <1>2, <1>4, <1>5
  <2>2. lists' = G[Depth' + 1]
    <3>1. (D + 1) + 1 = D + 2
      BY <1>3
    <3> QED BY <3>1, <1>4, <1>6
  <2> QED BY <2>1, <2>2, <1>1 DEF Solving
<1> QED BY <1>1, <1>2, <1>3, <1>4, <1>5, <1>7 DEF D, f

\* The sequence z is s with another row on top.
Changed(s, z, L, r, N) ==
  /\ z \in Seq(Frames(N)) /\ Len(z) = L /\ z[L].col = s[L].col /\ z[L].row = r
  /\ \A k \in 1..(L - 1) : z[k] = s[k]

\* A row field of the frame on top is changed.
LEMMA TopChanged ==
  ASSUME NEW N, NEW s \in Seq(Frames(N)), NEW L, L = Len(s), L > 0, NEW r \in 1..N,
         NEW z, z = [s EXCEPT ![L].row = r]
  PROVE  Changed(s, z, L, r, N)
<1>1. L \in Nat /\ L \in 1..Len(s)
  OBVIOUS
<1>2. s[L] \in Frames(N)
  BY <1>1
<1> DEFINE f == [s[L] EXCEPT !.row = r]
<1>3. f \in Frames(N) /\ f.col = s[L].col /\ f.row = r
  BY <1>2 DEF Frames
<1>4. z = [s EXCEPT ![L] = f]
  OBVIOUS
<1> HIDE DEF f
<1>5. z \in Seq(Frames(N)) /\ Len(z) = L /\ z[L] = f /\ \A k \in 1..(L - 1) : z[k] = s[k]
  BY <1>1, <1>3, <1>4, SMTT(30)
<1> QED BY <1>3, <1>5 DEF Changed

\* solve() takes a row back and comes to the next of the column.
LEMMA NextRowStep ==
  ASSUME NEW H, NEW O, NEW N, Solving(H, O, N), NextRow
  PROVE  /\ Solving(H, O, N)' /\ Depth = Depth' + 1 /\ Len(frames') = Depth
         /\ \A k \in 1..Depth' : frames'[k] = frames[k]
         /\ Top' = frames'[Depth] /\ Top'.col = frames[Depth].col
         /\ frames[Depth].col \in O[Depth]
         /\ frames[Depth].row \in OpenRows(H[Depth], O[Depth], Top'.col)
         /\ Top'.row = cover(H[Depth], Top'.col).down[frames[Depth].row]
<1> DEFINE D == Depth
           E == Len(frames) - 1
           c == Top.col
           x == Top.row
           r == lists'.down[x]
<1>1. /\ at = "back" /\ lists' = UncoverRow(lists, x)
      /\ frames' = [frames EXCEPT ![Len(frames)].row = lists'.down[@]] /\ at' = "row"
  BY DEF NextRow
<1>2. /\ D = Len(frames) /\ lists = H[D + 1] /\ frames \in Seq(Frames(N))
      /\ History(H, O, N, D, frames) /\ Len(frames) > 0
  BY <1>1 DEF Solving, Depth
<1>3. E \in Nat /\ D = E + 1 /\ D + 1 = E + 2 /\ Top = frames[D] /\ D \in 1..Len(frames)
  <2>1. Len(frames) \in Nat
    BY <1>2
  <2> QED BY <2>1, <1>2 DEF Top
<1> HIDE DEF D, E
<1>4. frames' = [frames EXCEPT ![D].row = r]
  <2>1. Top = frames[D] /\ Len(frames) = D
    BY <1>2, <1>3
  <2> QED BY <2>1, <1>1
<1>5. History(H, O, N, E, frames) /\ Chosen(H[D], O[D], H[D + 1], O[D + 1], frames[D])
  BY <1>2, <1>3, HistoryShrinks
<1>6. Open(H[D], O[D], N) /\ N \in Nat
  <2>1. Open(H[E + 1], O[E + 1], N) /\ N \in Nat
    BY <1>5, LastOpen
  <2> QED BY <2>1, <1>3
<1>7. /\ c \in O[D] /\ x \in OpenRows(H[D], O[D], c) /\ lists = CoverRow(cover(H[D], c), x)
  BY <1>2, <1>3, <1>5 DEF Chosen
<1>8. frames[D].col = c /\ frames[D].row = x
  BY <1>3
<1> HIDE DEF c, x
<1>9. lists' = cover(H[D], c)
  <2>1. UncoverRow(H[D + 1], frames[D].row) = cover(H[D], frames[D].col)
    BY <1>5, <1>6, TakenBack
  <2> QED BY <2>1, <1>1, <1>2, <1>8
<1>10. r \in OpenRows(H[D], O[D], c) \cup {c}
  <2>1. x \in OpenRows(H[D], O[D], c) \cup {c}
    BY <1>7
  <2>2. cover(H[D], c).down[x] \in OpenRows(H[D], O[D], c) \cup {c}
    BY <2>1, <1>6, <1>7, DownRow
  <2> QED BY <2>2, <1>9
<1>11. r \in 1..N
  BY <1>6, <1>7, <1>10, AreNodes
<1>12. r = cover(H[D], c).down[x]
  BY <1>9
<1> HIDE DEF r
<1>13. /\ frames' \in Seq(Frames(N)) /\ Len(frames') = D
       /\ frames'[D].col = frames[D].col /\ frames'[D].row = r
       /\ \A k \in 1..E : frames'[k] = frames[k]
  <2>1. D > 0 /\ D = Len(frames) /\ D - 1 = E
    BY <1>2, <1>3
  <2>2. Changed(frames, frames', D, r, N)
    BY <2>1, <1>2, <1>4, <1>11, TopChanged
  <2> QED BY <2>1, <2>2 DEF Changed
<1>14. Depth' = E /\ Top' = frames'[D]
  <2>1. Len(frames') - 1 = E
    BY <1>3, <1>13
  <2> QED BY <2>1, <1>1, <1>13 DEF Depth, Top
<1>15. Solving(H, O, N)'
  <2>1. frames' \in Seq(Frames(N)) /\ History(H, O, N, Depth', frames')
    BY <1>5, <1>13, <1>14, HistoryFrames
  <2>2. Len(frames') > 0
    BY <1>3, <1>13
  <2>3. Depth' + 1 = D
    BY <1>3, <1>14
  <2>4. /\ Top'.col \in O[D] /\ lists' = cover(H[D], Top'.col)
        /\ Top'.row \in OpenRows(H[D], O[D], Top'.col) \cup {Top'.col}
    BY <1>7, <1>9, <1>10, <1>13, <1>14, <1>8
  <2> QED BY <2>1, <2>2, <2>3, <2>4, <1>1 DEF Solving
<1>16. /\ D = Depth' + 1 /\ Top'.col = c /\ Top'.row = r
  BY <1>3, <1>13, <1>14, <1>8
<1> QED BY <1>7, <1>12, <1>13, <1>14, <1>8, <1>15, <1>16 DEF D

\* A prefix of the frames.
LEMMA Popped ==
  ASSUME NEW T, NEW s \in Seq(T), NEW E \in Nat, Len(s) = E + 1
  PROVE  /\ SubSeq(s, 1, E) \in Seq(T) /\ Len(SubSeq(s, 1, E)) = E
         /\ \A k \in 1..E : SubSeq(s, 1, E)[k] = s[k]
OBVIOUS

\* solve() returns false: the column is open again.
LEMMA ReturnStep ==
  ASSUME NEW H, NEW O, NEW N, Solving(H, O, N), Return
  PROVE  /\ Solving(H, O, N)' /\ Depth' = Depth /\ \A k \in 1..Depth : frames'[k] = frames[k]
         /\ at' = IF Depth = 0 THEN "NoSolution" ELSE "back"
<1> DEFINE D == Depth
           c == Top.col
<1>1. /\ at = "row" /\ lists' = uncover(lists, c)
      /\ frames' = SubSeq(frames, 1, Len(frames) - 1)
      /\ at' = IF Len(frames) = 1 THEN "NoSolution" ELSE "back"
  BY DEF Return
<1>2. /\ D = Len(frames) - 1 /\ frames \in Seq(Frames(N)) /\ History(H, O, N, D, frames)
      /\ Len(frames) > 0 /\ c \in O[D + 1] /\ lists = cover(H[D + 1], c)
  BY <1>1 DEF Solving, Depth
<1>3. D \in Nat /\ Len(frames) = D + 1
  <2>1. Len(frames) \in Nat
    BY <1>2
  <2> QED BY <2>1, <1>2
<1> HIDE DEF D, c
<1>4. Open(H[D + 1], O[D + 1], N) /\ N \in Nat
  BY <1>2, LastOpen
<1>5. lists' = H[D + 1]
  <2>1. uncover(cover(H[D + 1], c), c) = H[D + 1]
    BY <1>2, <1>4, CoveredBack
  <2> QED BY <2>1, <1>1, <1>2
<1>6. frames' = SubSeq(frames, 1, D)
  BY <1>1, <1>2
<1>7. /\ frames' \in Seq(Frames(N)) /\ Len(frames') = D
      /\ \A k \in 1..D : frames'[k] = frames[k]
  BY <1>2, <1>3, <1>6, Popped
<1>8. at' = IF D = 0 THEN "NoSolution" ELSE "back"
  BY <1>1, <1>3
<1>9. Depth' = D
  BY <1>7, <1>8 DEF Depth
<1>10. History(H, O, N, D, frames')
  BY <1>2, <1>7, HistoryFrames
<1>11. Solving(H, O, N)'
  <2>1. frames' \in Seq(Frames(N)) /\ History(H, O, N, Depth', frames') /\ lists' = H[Depth' + 1]
    BY <1>5, <1>7, <1>9, <1>10
  <2>2. at' = "back" => Len(frames') > 0
    BY <1>3, <1>7, <1>8
  <2>3. at' = "NoSolution" => Len(frames') = 0
    BY <1>7, <1>8
  <2> QED BY <2>1, <2>2, <2>3, <1>8 DEF Solving
<1> QED BY <1>7, <1>8, <1>9, <1>11 DEF D

\* No column is open: the puzzle is solved.
LEMMA SolvedStep ==
  ASSUME NEW H, NEW O, NEW N, Solving(H, O, N), Solved
  PROVE  Solving(H, O, N)' /\ Depth' = Depth /\ O[Depth + 1] = {} /\ lists = H[Depth + 1]
<1>1. /\ at = "solve" /\ at' = "Solution" /\ lists' = lists /\ frames' = frames
      /\ lists.left[Root] = Root
  BY DEF Solved
<1>2. /\ lists = H[Depth + 1] /\ frames \in Seq(Frames(N)) /\ History(H, O, N, Depth, frames)
  BY <1>1 DEF Solving
<1>3. Depth' = Depth
  BY <1>1 DEF Depth
<1>4. Open(lists, O[Depth + 1], N) /\ N \in Nat
  BY <1>2, LastOpen
<1>5. O[Depth + 1] = {}
  <2> SUFFICES ASSUME NEW y \in O[Depth + 1] PROVE FALSE
    OBVIOUS
  <2>1. Joins(lists.right, lists.left, Root, O[Depth + 1], Root)
    BY <1>4 DEF Open, Ring
  <2>2. Root < y
    BY <1>4, OpenHeads DEF Above
  <2>3. lists.right[Root] # Root
    BY <2>1, <2>2 DEF Joins
  <2>4. lists.right[lists.left[Root]] = Root
    BY <2>1 DEF Joins
  <2> QED BY <2>3, <2>4, <1>1
<1> QED BY <1>1, <1>2, <1>3, <1>5 DEF Solving

\* The search begins with a full matrix.
LEMMA SolvingBegins ==
  ASSUME NEW N, Full(lists, N)', at' = "solve", frames' = <<>>
  PROVE  \E H, O : /\ Solving(H, O, N)' /\ H[1] = lists' /\ Depth' = 0
<1>1. PICK l : l = lists'
  OBVIOUS
<1>2. Full(l, N)
  BY <1>1
<1>3. PICK H, O : History(H, O, N, 0, <<>>) /\ H[1] = l
  BY <1>2, HistoryBegins
<1>4. Len(<<>>) = 0 /\ <<>> \in Seq(Frames(N)) /\ 0 + 1 = 1
  OBVIOUS
<1>5. Depth' = 0
  BY <1>4 DEF Depth
<1>6. Solving(H, O, N)'
  <2>1. frames' \in Seq(Frames(N)) /\ History(H, O, N, Depth', frames')
    BY <1>3, <1>4, <1>5
  <2>2. lists' = H[Depth' + 1]
    BY <1>1, <1>3, <1>4, <1>5
  <2> QED BY <2>1, <2>2 DEF Solving
<1> QED BY <1>1, <1>3, <1>5, <1>6

-----------------------------------------------------------------------------
(* The rows that were taken *)

\* The columns of the first k rows that were taken.
Covered(l, fs, k) == UNION {ColsOf(l, fs[j].row) : j \in 1..k}

\* Rows are the same in every matrix of a history.
LEMMA SameRowOf ==
  ASSUME NEW N, NEW l, NEW m, Shape(l, N), Keeps(l, m, N), NEW n \in RowNodes(l)
  PROVE  /\ RowOf(m, n) = RowOf(l, n) /\ RowOf(l, n) \subseteq RowNodes(l)
         /\ ColsOf(m, n) = ColsOf(l, n)
<1>1. PICK a, b, d : IsRow(l, n, a, b, d)
  BY DEF Shape
<1>2. RowOf(l, n) = {n, a, b, d} /\ RowOf(l, n) \subseteq RowNodes(l)
  BY <1>1, RowIs DEF IsRow
<1>3. IsRow(m, n, a, b, d)
  BY <1>1, KeptRow
<1>4. RowOf(m, n) = {n, a, b, d}
  BY <1>3, RowIs
<1>5. m.col = l.col
  BY DEF Keeps
<1> QED BY <1>2, <1>4, <1>5 DEF ColsOf

\* Every node of a row has the same row.
LEMMA SharedRow ==
  ASSUME NEW N, NEW l, Shape(l, N), NEW n \in RowNodes(l), NEW x \in RowOf(l, n)
  PROVE  x \in RowNodes(l) /\ RowOf(l, x) = RowOf(l, n)
<1>1. PICK a, b, d : IsRow(l, n, a, b, d)
  BY DEF Shape
<1>2. RowOf(l, n) = {n, a, b, d}
  BY <1>1, RowIs
<1>3. \A y \in {n, a, b, d} : RowOf(l, y) = RowOf(l, n)
  BY <1>1, RowIs
<1>4. \A y \in {n, a, b, d} : y \in RowNodes(l)
  BY <1>1 DEF IsRow
<1> QED BY <1>2, <1>3, <1>4

\* A row that was taken is a row of the first matrix.
LEMMA ChosenRow ==
  ASSUME NEW H, NEW O, NEW N, NEW D, NEW fs, History(H, O, N, D, fs), NEW k \in 1..D
  PROVE  /\ fs[k].row \in RowNodes(H[1]) /\ Shape(H[1], N)
         /\ O[k + 1] = O[k] \ ColsOf(H[1], fs[k].row)
         /\ ColsOf(H[1], fs[k].row) \subseteq O[k]
<1>1. D \in Nat /\ 1 \in 1..(D + 1) /\ k \in 1..(D + 1)
  BY DEF History
<1>2. /\ Open(H[1], O[1], N) /\ Keeps(H[1], H[k], N)
      /\ Chosen(H[k], O[k], H[k + 1], O[k + 1], fs[k])
  BY <1>1 DEF History
<1>3. Shape(H[1], N)
  BY <1>2 DEF Open
<1> DEFINE l == H[1]
           m == H[k]
           r == fs[k].row
<1>4. r \in Live(m, O[k]) /\ O[k + 1] = O[k] \ ColsOf(m, r)
  BY <1>2 DEF Chosen, OpenRows, InCol
<1>5. r \in RowNodes(l)
  <2>1. r \in RowNodes(m)
    BY <1>4 DEF Live
  <2>2. RowNodes(m) = RowNodes(l)
    BY <1>2, KeptRow
  <2> QED BY <2>1, <2>2
<1>6. ColsOf(m, r) = ColsOf(l, r)
  <2> HIDE DEF l, m, r
  <2>1. Keeps(l, m, N) /\ Shape(l, N)
    BY <1>2, <1>3 DEF l, m
  <2> QED BY <1>5, <2>1, SameRowOf
<1>7. ColsOf(m, r) \subseteq O[k]
  BY <1>4 DEF Live, ColsOf
<1> QED BY <1>3, <1>4, <1>5, <1>6, <1>7

\* The open columns are those of no row that was taken.
LEMMA OpenIs ==
  ASSUME NEW H, NEW O, NEW N, NEW D, NEW fs, History(H, O, N, D, fs), NEW k \in 0..D
  PROVE  O[k + 1] = Heads(H[1]) \ Covered(H[1], fs, k)
<1> DEFINE S == {n \in Nat : n <= D => O[n + 1] = Heads(H[1]) \ Covered(H[1], fs, n)}
<1>1. 0 \in S
  <2>1. 1..0 = {} /\ 0 + 1 = 1
    OBVIOUS
  <2>2. Covered(H[1], fs, 0) = {}
    BY <2>1 DEF Covered
  <2>3. O[0 + 1] = Heads(H[1])
    BY <2>1 DEF History
  <2> QED BY <2>2, <2>3
<1>2. ASSUME NEW n \in Nat, n \in S PROVE n + 1 \in S
  <2> SUFFICES ASSUME n + 1 <= D
               PROVE  O[(n + 1) + 1] = Heads(H[1]) \ Covered(H[1], fs, n + 1)
    OBVIOUS
  <2>1. D \in Nat
    BY DEF History
  <2>2. n + 1 \in 1..D /\ n <= D
    BY <2>1
  <2>3. O[n + 1] = Heads(H[1]) \ Covered(H[1], fs, n)
    BY <1>2, <2>2
  <2>4. O[(n + 1) + 1] = O[n + 1] \ ColsOf(H[1], fs[n + 1].row)
    BY <2>2, ChosenRow
  <2>5. \A j : j \in 1..(n + 1) <=> j \in 1..n \/ j = n + 1
    OBVIOUS
  <2>6. Covered(H[1], fs, n + 1) = Covered(H[1], fs, n) \cup ColsOf(H[1], fs[n + 1].row)
    BY <2>5 DEF Covered
  <2> QED BY <2>3, <2>4, <2>6
<1>3. \A n \in Nat : n \in S
  <2> HIDE DEF S
  <2> QED BY <1>1, <1>2, Induct
<1>4. k \in Nat /\ k <= D
  BY DEF History
<1> QED BY <1>3, <1>4

\* The names of a row are those of its columns.
LEMMA NamesOfCols ==
  ASSUME NEW N, NEW l, NEW bd, Named(l, N, bd), NEW n \in RowNodes(l)
  PROVE  /\ NamesOf(l, n) = {l.name[c] : c \in ColsOf(l, n)}
         /\ ColsOf(l, n) \subseteq Heads(l)
         /\ \A c \in Heads(l) : l.name[c] \in NamesOf(l, n) => c \in ColsOf(l, n)
<1>1. Shape(l, N) /\ NamesOnce(l)
  BY FullIs DEF Named
<1>2. RowOf(l, n) \subseteq RowNodes(l)
  BY <1>1, SharedRow
<1>3. \A x \in RowOf(l, n) : l.name[x] = l.name[l.col[x]] /\ l.col[x] \in Heads(l)
  BY <1>1, <1>2 DEF Named, Shape
<1>4. NamesOf(l, n) = {l.name[c] : c \in ColsOf(l, n)} /\ ColsOf(l, n) \subseteq Heads(l)
  BY <1>3 DEF NamesOf, ColsOf
<1>5. ASSUME NEW c \in Heads(l), l.name[c] \in NamesOf(l, n) PROVE c \in ColsOf(l, n)
  <2>1. PICK d \in ColsOf(l, n) : l.name[c] = l.name[d]
    BY <1>4, <1>5
  <2>2. c = d
    BY <2>1, <1>1, <1>4 DEF NamesOnce
  <2> QED BY <2>1, <2>2
<1> QED BY <1>4, <1>5

\* On a completed board the rows of two cells share no name.
LEMMA RowNamesOnce ==
  ASSUME NEW g \in [Cells -> Values], Right(g), NEW i \in Cells, NEW j \in Cells, NEW name,
         name \in RowNames(i, g[i]), name \in RowNames(j, g[j])
  PROVE  i = j
<1>1. ASSUME NEW x \in Cells, NEW u \in Range(Units(x, g[x])) PROVE u \notin Cells
  <2>1. g[x] \in Values
    OBVIOUS
  <2>2. PICK t \in 1..3 : u = UnitName(t, Idx(t, x), g[x])
    BY <2>1, UnitsAre
  <2>3. Idx(t, x) \in 0..(Side - 1)
    BY IdxIn
  <2> QED BY <2>1, <2>2, <2>3, UnitNames
<1>2. CASE name \in Cells
  BY <1>1, <1>2 DEF RowNames
<1>3. CASE name \notin Cells
  <2>1. name \in Range(Units(i, g[i])) /\ name \in Range(Units(j, g[j]))
    BY <1>3 DEF RowNames
  <2> QED BY <2>1, RightOnce
<1> QED BY <1>2, <1>3

-----------------------------------------------------------------------------
(* A completed board has a row in every open column *)

\* The matrix when the constructor has come to every row.
Made(l, N, bd) == RowsMade(l, N, bd, Side * Side * Side + 1)

\* What a puzzle is once its characters have been read.
Given(bd) == bd \in [Cells -> {0} \cup Values]

\* g completes bd.
Completes(g, bd) == /\ g \in [Cells -> Values] /\ Right(g)
                    /\ \A i \in Cells : bd[i] # 0 => g[i] = bd[i]

\* A row that puts into a cell what g has there.
FitsGrid(l, g, n) == \E i \in Cells : NamesOf(l, n) = RowNames(i, g[i])

\* All of the first D rows that were taken are such rows.
FitAll(l, g, fs, D) == \A j \in 1..D : FitsGrid(l, g, fs[j].row)

\* For every needed name there is a cell whose row in g has it, and that row may be taken.
LEMMA GridHas ==
  ASSUME NEW bd, Given(bd), NEW g, Completes(g, bd), NEW name \in NeededNames(bd)
  PROVE  \E i \in Cells : name \in RowNames(i, g[i]) /\ MayTake(bd, i, g[i])
<1>1. ASSUME NEW i \in Cells, bd[i] = 0 PROVE MayTake(bd, i, g[i])
  BY <1>1, AgreeingMayTake DEF Given, Completes
<1>2. CASE name \in Cells
  <2>1. bd[name] = 0
    BY <1>2 DEF NeededNames, Needed
  <2>2. name \in RowNames(name, g[name])
    BY DEF RowNames
  <2> QED BY <2>1, <2>2, <1>1, <1>2
<1>3. CASE name \notin Cells
  <2>1. name \in AllUnits /\ name \notin Taken(bd)
    BY <1>3 DEF NeededNames, Needed
  <2>2. PICK i \in Cells : name \in Range(Units(i, g[i]))
    BY <2>1 DEF Completes, Right
  <2>3. bd[i] = 0
    <3> SUFFICES ASSUME bd[i] # 0 PROVE FALSE
      OBVIOUS
    <3>1. g[i] = bd[i]
      BY DEF Completes
    <3>2. name \in Range(Units(i, bd[i]))
      BY <2>2, <3>1
    <3>3. name \in Taken(bd)
      BY <3>2 DEF Taken
    <3> QED BY <3>3, <2>1
  <2>4. name \in RowNames(i, g[i])
    BY <2>2 DEF RowNames
  <2> QED BY <2>3, <2>4, <1>1
<1> QED BY <1>2, <1>3

\* Every row that may be taken is in the matrix.
LEMMA MadeHas ==
  ASSUME NEW N, NEW l, NEW bd, Made(l, N, bd), NEW i \in Cells, NEW v \in Values, MayTake(bd, i, v)
  PROVE  HasRow(l, i, v)
<1>1. i * Side + v < Side * Side * Side + 1
  <2>1. CASE Side = 1
    BY <2>1, SideIs
  <2>2. CASE Side = 4
    BY <2>2, SideIs
  <2>3. CASE Side = 9
    BY <2>3, SideIs
  <2> QED BY <2>1, <2>2, <2>3, SideIs
<1> DEFINE K == Side * Side * Side + 1
<1>2. RowsMade(l, N, bd, K) /\ i * Side + v < K
  BY <1>1 DEF Made
<1> HIDE DEF K
<1> QED BY <1>2 DEF RowsMade

\* While only rows of g are taken, every open column has a live row of g.
LEMMA GridRow ==
  ASSUME NEW H, NEW O, NEW N, NEW D, NEW fs, History(H, O, N, D, fs), NEW bd, Made(H[1], N, bd),
         Given(bd), NEW g, Completes(g, bd), FitAll(H[1], g, fs, D), NEW c \in O[D + 1]
  PROVE  \E n \in OpenRows(H[D + 1], O[D + 1], c) : FitsGrid(H[1], g, n)
<1> DEFINE l == H[1]
           m == H[D + 1]
           P == O[D + 1]
<1>1. D \in Nat /\ D \in 0..D
  BY DEF History
<1>2. P = Heads(l) \ Covered(l, fs, D)
  BY <1>1, OpenIs
<1>3. Named(l, N, bd)
  BY DEF Made, RowsMade
<1>4. Shape(l, N) /\ NamesOnce(l) /\ HeadNames(l) = NeededNames(bd)
  BY <1>3, FullIs DEF Named
<1>5. Keeps(l, m, N)
  BY LastOpen
<1>6. ASSUME NEW j \in 1..D
      PROVE  fs[j].row \in RowNodes(l) /\ FitsGrid(l, g, fs[j].row)
  BY ChosenRow DEF FitAll
<1>7. m.col = l.col /\ Live(m, P) = Live(l, P)
  <2> HIDE DEF l, m, P
  <2> QED BY <1>4, <1>5, KeptLive DEF Keeps
<1>8. c \in P /\ g \in [Cells -> Values] /\ Right(g)
  BY DEF Completes
<1> SUFFICES \E n \in OpenRows(m, P, c) : FitsGrid(l, g, n)
  OBVIOUS
<1> HIDE DEF l, m, P
<1>9. c \in Heads(l) /\ l.name[c] \in NeededNames(bd)
  BY <1>2, <1>4, <1>8 DEF HeadNames
<1>10. PICK i \in Cells : l.name[c] \in RowNames(i, g[i]) /\ MayTake(bd, i, g[i])
  BY <1>9, GridHas
<1>11. PICK r \in RowNodes(l) : NamesOf(l, r) = RowNames(i, g[i])
  <2>1. Made(l, N, bd) /\ g[i] \in Values
    BY <1>8 DEF l
  <2>2. HasRow(l, i, g[i])
    BY <2>1, <1>10, MadeHas
  <2> QED BY <2>2 DEF HasRow
<1>12. PICK x \in RowOf(l, r) : l.name[x] = l.name[c]
  BY <1>10, <1>11 DEF NamesOf
<1>13. x \in RowNodes(l) /\ RowOf(l, x) = RowOf(l, r)
  BY <1>4, SharedRow
<1>14. NamesOf(l, x) = RowNames(i, g[i])
  BY <1>11, <1>13 DEF NamesOf
<1>15. l.col[x] = c
  <2>1. l.col[x] \in Heads(l)
    BY <1>4, <1>13 DEF Shape
  <2>2. l.name[l.col[x]] = l.name[c]
    BY <1>3, <1>12, <1>13 DEF Named
  <2> QED BY <2>1, <2>2, <1>4, <1>9 DEF NamesOnce
<1>16. x \in Live(l, P)
  <2> SUFFICES ASSUME NEW y \in RowOf(l, x), l.col[y] \notin P PROVE FALSE
    BY <1>13 DEF Live
  <2> DEFINE d == l.col[y]
  <2>1. d \in ColsOf(l, x)
    BY DEF ColsOf
  <2>2. d \in Heads(l) /\ l.name[d] \in RowNames(i, g[i])
    BY <2>1, <1>3, <1>13, <1>14, NamesOfCols
  <2>3. d \in Covered(l, fs, D)
    BY <2>2, <1>2
  <2>4. PICK j \in 1..D : d \in ColsOf(l, fs[j].row)
    BY <2>3 DEF Covered
  <2> DEFINE q == fs[j].row
  <2>5. q \in RowNodes(l) /\ FitsGrid(l, g, q)
    BY <1>6
  <2> HIDE DEF d, q
  <2>6. PICK k \in Cells : NamesOf(l, q) = RowNames(k, g[k])
    BY <2>5 DEF FitsGrid
  <2>7. d \in ColsOf(l, q)
    BY <2>4 DEF q
  <2>8. l.name[d] \in RowNames(k, g[k])
    BY <2>5, <2>6, <2>7, <1>3, NamesOfCols
  <2>9. k = i
    BY <2>2, <2>8, <1>8, RowNamesOnce
  <2>10. c \in ColsOf(l, q)
    BY <2>5, <2>6, <2>9, <1>3, <1>9, <1>10, NamesOfCols
  <2>11. c \in Covered(l, fs, D)
    BY <2>10 DEF Covered, q
  <2> QED BY <2>11, <1>2, <1>8
<1>17. x \in OpenRows(m, P, c)
  BY <1>7, <1>15, <1>16 DEF OpenRows, InCol
<1>18. FitsGrid(l, g, x)
  BY <1>14 DEF FitsGrid
<1> QED BY <1>17, <1>18

-----------------------------------------------------------------------------
(* No completed board is passed *)

\* In column c of matrix k a row of g comes after x.
GridAfter(g, H, O, k, c, x) == \E n \in OpenRows(H[k], O[k], c) : FitsGrid(H[1], g, n) /\ x < n

\* At some call of solve() the rows before it are those of g, and in its column a row of g
\* comes after the one that is taken.
AheadBelow(g, H, O, fs, D) ==
  \E k \in 1..D : FitAll(H[1], g, fs, k - 1) /\ GridAfter(g, H, O, k, fs[k].col, fs[k].row)

\* The row of g that comes next, in the column of the call on top.
GridNext(g, H, O, k, f) ==
  f.row # f.col /\ \E n \in OpenRows(H[k], O[k], f.col) : FitsGrid(H[1], g, n) /\ f.row <= n

\* The search has not passed g.
Ahead(g, H, O) ==
  /\ at = "solve" => \/ FitAll(H[1], g, frames, Depth)
                     \/ AheadBelow(g, H, O, frames, Depth)
  /\ at = "row" => \/ FitAll(H[1], g, frames, Depth) /\ GridNext(g, H, O, Depth + 1, Top)
                   \/ AheadBelow(g, H, O, frames, Depth)
  /\ at = "back" => AheadBelow(g, H, O, frames, Depth)
  /\ at # "NoSolution"

\* The next row down is not beyond a row that comes after.
LEMMA DownReaches ==
  ASSUME NEW N, NEW l, NEW O, Open(l, O, N), NEW c \in O, NEW x \in OpenRows(l, O, c) \cup {c},
         NEW n \in OpenRows(l, O, c), x < n
  PROVE  cover(l, c).down[x] # c /\ cover(l, c).down[x] <= n
<1>1. N \in Nat
  BY DEF Open, Shape
<1> DEFINE m == cover(l, c)
<1>2. LinkedAt(m, c, Live(l, O)) /\ Keeps(l, m, N)
  BY <1>1, CoverStep
<1> HIDE DEF m
<1>3. InCol(m, Live(l, O), c) = OpenRows(l, O, c)
  BY <1>2 DEF Keeps, OpenRows, InCol
<1>4. Joins(m.down, m.up, c, OpenRows(l, O, c), x)
  BY <1>2, <1>3 DEF LinkedAt, Ring
<1>5. m.down[x] # c /\ m.down[x] <= n
  BY <1>4 DEF Joins
<1> QED BY <1>5 DEF m

\* What is ahead depends on the frames and matrices below the depth.
LEMMA AheadSame ==
  ASSUME NEW g, NEW H, NEW O, NEW G, NEW P, NEW fs, NEW gs, NEW D \in Nat,
         AheadBelow(g, H, O, fs, D), \A k \in 1..D : gs[k] = fs[k],
         \A k \in 1..(D + 1) : G[k] = H[k] /\ P[k] = O[k]
  PROVE  AheadBelow(g, G, P, gs, D)
<1>1. PICK k \in 1..D :
             FitAll(H[1], g, fs, k - 1) /\ GridAfter(g, H, O, k, fs[k].col, fs[k].row)
  BY DEF AheadBelow
<1>2. G[1] = H[1] /\ G[k] = H[k] /\ P[k] = O[k] /\ gs[k] = fs[k]
  <2>1. 1 \in 1..(D + 1) /\ k \in 1..(D + 1)
    OBVIOUS
  <2> QED BY <2>1
<1>3. FitAll(G[1], g, gs, k - 1)
  <2>1. \A j \in 1..(k - 1) : j \in 1..D
    OBVIOUS
  <2>2. \A j \in 1..(k - 1) : gs[j] = fs[j]
    BY <2>1
  <2> QED BY <2>2, <1>1, <1>2 DEF FitAll
<1>4. GridAfter(g, G, P, k, gs[k].col, gs[k].row)
  BY <1>1, <1>2 DEF GridAfter
<1> QED BY <1>3, <1>4 DEF AheadBelow

\* What is ahead at a lower call stays when calls above return; and the other way round.
LEMMA AheadSplit ==
  ASSUME NEW g, NEW H, NEW O, NEW fs, NEW D \in Nat
  PROVE  AheadBelow(g, H, O, fs, D + 1) <=>
           \/ AheadBelow(g, H, O, fs, D)
           \/ FitAll(H[1], g, fs, D) /\ GridAfter(g, H, O, D + 1, fs[D + 1].col, fs[D + 1].row)
<1>1. \A k : k \in 1..(D + 1) <=> k \in 1..D \/ k = D + 1
  OBVIOUS
<1>2. (D + 1) - 1 = D
  OBVIOUS
<1> QED BY <1>1, <1>2 DEF AheadBelow

\* FitAll depends on the frames that it is about.
LEMMA FitSame ==
  ASSUME NEW l, NEW g, NEW fs, NEW gs, NEW D, \A k \in 1..D : gs[k] = fs[k], FitAll(l, g, fs, D)
  PROVE  FitAll(l, g, gs, D)
BY DEF FitAll

\* solve() takes a column: g has a row in it.
LEMMA ChooseAhead ==
  ASSUME NEW H, NEW O, NEW N, Solving(H, O, N), Choose, Made(H[1], N, puzzle), Given(puzzle),
         NEW g, Completes(g, puzzle), Ahead(g, H, O)
  PROVE  Ahead(g, H, O)'
<1> DEFINE D == Depth
           f == Top'
           c == f.col
<1>1. /\ Solving(H, O, N)' /\ Depth' = D /\ \A k \in 1..D : frames'[k] = frames[k]
  BY ChooseStep
<1>2. f.row = cover(H[D + 1], c).down[c] /\ c \in O[D + 1]
  BY ChooseStep
<1>3. at = "solve" /\ at' = "row"
  BY DEF Choose
<1>4. History(H, O, N, D, frames)
  BY DEF Solving
<1>5. Open(H[D + 1], O[D + 1], N) /\ D \in Nat
  BY <1>4, LastOpen
<1> HIDE DEF D, f
<1>6. CASE FitAll(H[1], g, frames, D)
  <2>1. PICK n \in OpenRows(H[D + 1], O[D + 1], c) : FitsGrid(H[1], g, n)
    BY <1>2, <1>4, <1>6, GridRow
  <2>2. c < n
    BY <1>2, <1>5, AreNodes
  <2>3. f.row # c /\ f.row <= n
    <3>1. c \in OpenRows(H[D + 1], O[D + 1], c) \cup {c}
      OBVIOUS
    <3> QED BY <3>1, <2>2, <1>2, <1>5, DownReaches
  <2>4. GridNext(g, H, O, D + 1, f)
    BY <2>1, <2>3 DEF GridNext
  <2>5. FitAll(H[1], g, frames', D)
    BY <1>1, <1>6, FitSame
  <2> QED BY <2>4, <2>5, <1>1, <1>3 DEF Ahead, f
<1>7. CASE AheadBelow(g, H, O, frames, D)
  <2>1. AheadBelow(g, H, O, frames', D)
    BY <1>1, <1>5, <1>7, AheadSame
  <2> QED BY <2>1, <1>1, <1>3 DEF Ahead
<1> QED BY <1>3, <1>6, <1>7 DEF Ahead, D

\* solve() takes a row: that of g, or one before it.
LEMMA TryRowAhead ==
  ASSUME NEW H, NEW O, NEW N, Solving(H, O, N), TryRow, NEW g, Ahead(g, H, O),
         NEW G, NEW P, Grew(G, P, H, O, Depth, Top)
  PROVE  Ahead(g, G, P)'
<1> DEFINE D == Depth
           f == Top
<1>1. /\ Depth' = D + 1 /\ frames' = frames
      /\ f = frames[D + 1] /\ f.row \in OpenRows(H[D + 1], O[D + 1], f.col)
  BY TryRowStep
<1>2. at = "row" /\ at' = "solve"
  BY DEF TryRow
<1>3. History(H, O, N, D, frames) /\ f.col \in O[D + 1]
  BY <1>2 DEF Solving
<1>4. Open(H[D + 1], O[D + 1], N) /\ D \in Nat /\ N \in Nat
  BY <1>3, LastOpen
<1>5. \A k \in 1..(D + 1) : G[k] = H[k] /\ P[k] = O[k]
  BY DEF Grew
<1> HIDE DEF D, f
<1>6. G[1] = H[1] /\ G[D + 1] = H[D + 1] /\ P[D + 1] = O[D + 1]
  <2>1. 1 \in 1..(D + 1) /\ D + 1 \in 1..(D + 1)
    BY <1>4
  <2> QED BY <2>1, <1>5
<1>7. CASE FitAll(H[1], g, frames, D) /\ GridNext(g, H, O, D + 1, f)
  <2>1. PICK n \in OpenRows(H[D + 1], O[D + 1], f.col) : FitsGrid(H[1], g, n) /\ f.row <= n
    BY <1>7 DEF GridNext
  <2>2. n \in 1..N /\ f.row \in 1..N
    BY <1>1, <1>3, <1>4, AreNodes
  <2>3. CASE f.row = n
    <3>1. \A j \in 1..(D + 1) : j \in 1..D \/ j = D + 1
      BY <1>4
    <3>2. FitAll(G[1], g, frames, D + 1)
      BY <3>1, <2>1, <2>3, <1>1, <1>6, <1>7 DEF FitAll
    <3> QED BY <3>2, <1>1, <1>2 DEF Ahead
  <2>4. CASE f.row < n
    <3>1. GridAfter(g, G, P, D + 1, frames[D + 1].col, frames[D + 1].row)
      BY <2>1, <2>4, <1>1, <1>6 DEF GridAfter
    <3>2. FitAll(G[1], g, frames, D)
      BY <1>6, <1>7
    <3>3. AheadBelow(g, G, P, frames, D + 1)
      BY <3>1, <3>2, <1>4, AheadSplit
    <3> QED BY <3>3, <1>1, <1>2 DEF Ahead
  <2>5. f.row = n \/ f.row < n
    <3>1. n \in Int /\ f.row \in Int /\ f.row <= n
      BY <2>1, <2>2
    <3> QED BY <3>1
  <2> QED BY <2>3, <2>4, <2>5
<1>8. CASE AheadBelow(g, H, O, frames, D)
  <2>1. AheadBelow(g, G, P, frames, D)
    BY <1>4, <1>5, <1>8, AheadSame
  <2>2. AheadBelow(g, G, P, frames, D + 1)
    BY <2>1, <1>4, AheadSplit
  <2> QED BY <2>2, <1>1, <1>2 DEF Ahead
<1> QED BY <1>2, <1>7, <1>8 DEF Ahead, D, f

\* solve() comes to the next row: not beyond that of g.
LEMMA NextRowAhead ==
  ASSUME NEW H, NEW O, NEW N, Solving(H, O, N), NextRow, NEW g, Ahead(g, H, O)
  PROVE  Ahead(g, H, O)'
<1> DEFINE D == Depth
           E == Depth'
           f == Top'
           c == f.col
           x == frames[D].row
<1>1. /\ Solving(H, O, N)' /\ D = E + 1 /\ \A k \in 1..E : frames'[k] = frames[k]
  BY NextRowStep
<1>2. /\ frames[D].col = c /\ c \in O[D] /\ x \in OpenRows(H[D], O[D], c)
      /\ f.row = cover(H[D], c).down[x]
  BY NextRowStep
<1>3. at = "back" /\ at' = "row"
  BY DEF NextRow
<1>4. History(H, O, N, E, frames')
  BY <1>1 DEF Solving
<1>5. Open(H[E + 1], O[E + 1], N) /\ E \in Nat
  BY <1>4, LastOpen
<1> HIDE DEF D, E, f, c, x
<1>6. AheadBelow(g, H, O, frames, E + 1)
  BY <1>1, <1>3 DEF Ahead, D
<1>7. CASE AheadBelow(g, H, O, frames, E)
  <2>1. AheadBelow(g, H, O, frames', E)
    BY <1>1, <1>5, <1>7, AheadSame
  <2> QED BY <2>1, <1>3 DEF Ahead, E
<1>8. CASE /\ FitAll(H[1], g, frames, E)
           /\ GridAfter(g, H, O, E + 1, frames[E + 1].col, frames[E + 1].row)
  <2>1. GridAfter(g, H, O, D, c, x)
    BY <1>1, <1>2, <1>8 DEF x
  <2>2. PICK n \in OpenRows(H[D], O[D], c) : FitsGrid(H[1], g, n) /\ x < n
    BY <2>1 DEF GridAfter
  <2>3. f.row # c /\ f.row <= n
    <3>1. x \in OpenRows(H[D], O[D], c) \cup {c} /\ Open(H[D], O[D], N)
      BY <1>1, <1>2, <1>5
    <3> QED BY <3>1, <2>2, <1>2, DownReaches
  <2>4. GridNext(g, H, O, E + 1, f)
    BY <2>2, <2>3, <1>1 DEF GridNext, c
  <2>5. FitAll(H[1], g, frames', E)
    BY <1>1, <1>8, FitSame
  <2> QED BY <2>4, <2>5, <1>3 DEF Ahead, E, f
<1> QED BY <1>5, <1>6, <1>7, <1>8, AheadSplit

\* solve() returns false: the row of g is at a lower call.
LEMMA ReturnAhead ==
  ASSUME NEW H, NEW O, NEW N, Solving(H, O, N), Return, NEW g, Ahead(g, H, O)
  PROVE  Ahead(g, H, O)'
<1> DEFINE D == Depth
<1>1. /\ Depth' = D /\ \A k \in 1..D : frames'[k] = frames[k]
      /\ at' = IF D = 0 THEN "NoSolution" ELSE "back"
  BY ReturnStep
<1>2. at = "row" /\ Top.row = Top.col
  BY DEF Return
<1>3. History(H, O, N, D, frames)
  BY DEF Solving
<1>4. D \in Nat
  BY <1>3, LastOpen
<1>5. AheadBelow(g, H, O, frames, D)
  BY <1>2 DEF Ahead, GridNext
<1> HIDE DEF D
<1>6. D # 0
  BY <1>5 DEF AheadBelow
<1>7. AheadBelow(g, H, O, frames', D)
  BY <1>1, <1>4, <1>5, AheadSame
<1> QED BY <1>1, <1>6, <1>7 DEF Ahead

-----------------------------------------------------------------------------
(* What the rows that were taken say *)

\* The units of a cell and a value are units of the board, and no cells.
LEMMA UnitsIn ==
  ASSUME NEW i \in Cells, NEW v \in Values, NEW u \in Range(Units(i, v))
  PROVE  u \in AllUnits /\ u \notin Cells /\ u >= kRow /\ u % 10 = v
<1>1. PICK t \in 1..3 : u = UnitName(t, Idx(t, i), v)
  BY UnitsAre
<1>2. Idx(t, i) \in 0..(Side - 1)
  BY IdxIn
<1>3. u \in AllUnits
  BY <1>1, <1>2, AllUnitsAre
<1> QED BY <1>1, <1>2, <1>3, UnitNames

\* Cell and Val read the cell and the value of a row.
LEMMA RowReads ==
  ASSUME NEW N, NEW l, Shape(l, N), NEW m, Keeps(l, m, N), NEW r \in RowNodes(l),
         NEW i \in Cells, NEW v \in Values, NamesOf(l, r) = RowNames(i, v)
  PROVE  Cell(m, r) = i /\ Val(m, r) = v
<1>1. Shape(m, N) /\ r \in RowNodes(m)
  BY KeptShape, KeptRow
<1>2. PICK a, b, d : IsRow(m, r, a, b, d)
  BY <1>1 DEF Shape
<1>3. Walk(m.right, r) = <<a, b, d>>
  BY <1>1, <1>2, RowWalks
<1>4. Range(<<a, b, d>>) = {a, b, d}
  BY RangeThree
<1>5. {r} \cup Range(Walk(m.right, r)) = RowOf(l, r)
  <2>1. RowOf(m, r) = {r, a, b, d}
    BY <1>2, RowIs
  <2>2. RowOf(m, r) = RowOf(l, r)
    BY SameRowOf
  <2> QED BY <2>1, <2>2, <1>3, <1>4
<1>6. NamesOfRow(m, r) = RowNames(i, v)
  BY <1>5 DEF NamesOfRow, NamesOf, Keeps
<1>7. i \in RowNames(i, v) /\ i < kRow
  BY SideIs DEF RowNames, kRow
<1>8. \A u \in RowNames(i, v) : u # i => u >= kRow /\ u % 10 = v
  BY UnitsIn DEF RowNames
<1>9. \E u \in RowNames(i, v) : u >= kRow
  <2>1. UnitName(1, Idx(1, i), v) \in Range(Units(i, v))
    <3>1. 1 \in 1..3
      OBVIOUS
    <3> QED BY <3>1, UnitsAre
  <2> QED BY <2>1, UnitsIn DEF RowNames
<1>10. \A u \in RowNames(i, v) : u \in Int
  <2>1. \A u \in AllUnits : u \in Int
    BY AllUnitsAre, UnitNames
  <2> QED BY <2>1, UnitsIn, SideIs DEF RowNames
<1>11. \A u \in RowNames(i, v) : u < kRow <=> u = i
  BY <1>7, <1>8, <1>10 DEF kRow
<1>12. Cell(m, r) = i
  BY <1>6, <1>7, <1>11 DEF Cell
<1>13. ~ (i >= kRow)
  BY <1>7, <1>10 DEF kRow
<1>14. Val(m, r) = v
  <2> DEFINE w == CHOOSE u \in RowNames(i, v) : u >= kRow
  <2>1. w \in RowNames(i, v) /\ w >= kRow
    BY <1>9
  <2>2. Val(m, r) = w % 10
    BY <1>6 DEF Val
  <2> HIDE DEF w
  <2> QED BY <2>1, <2>2, <1>8, <1>13
<1> QED BY <1>12, <1>14

\* Two calls of solve() have taken rows without a common column.
LEMMA ChosenApart ==
  ASSUME NEW H, NEW O, NEW N, NEW D, NEW fs, History(H, O, N, D, fs),
         NEW j \in 1..D, NEW k \in 1..D, NEW c,
         c \in ColsOf(H[1], fs[j].row), c \in ColsOf(H[1], fs[k].row)
  PROVE  j = k
<1>1. ASSUME NEW x \in 1..D, NEW y \in 1..D, x < y,
             c \in ColsOf(H[1], fs[x].row), c \in ColsOf(H[1], fs[y].row)
      PROVE  FALSE
  <2>1. c \in O[y]
    BY <1>1, ChosenRow
  <2>2. y - 1 \in 0..D /\ (y - 1) + 1 = y /\ x \in 1..(y - 1)
    BY <1>1 DEF History
  <2>3. O[(y - 1) + 1] = Heads(H[1]) \ Covered(H[1], fs, y - 1)
    BY <2>2, OpenIs
  <2>4. c \in Covered(H[1], fs, y - 1)
    BY <2>2, <1>1 DEF Covered
  <2> QED BY <2>1, <2>2, <2>3, <2>4
<1>2. j \in Int /\ k \in Int
  OBVIOUS
<1>3. ~ (j < k)
  BY <1>1
<1>4. ~ (k < j)
  BY <1>1
<1> QED BY <1>2, <1>3, <1>4

\* Row r of l may be taken, and is read from m as it was made.
Reads(l, m, bd, r, i, v) == /\ MayTake(bd, i, v) /\ NamesOf(l, r) = RowNames(i, v)
                            /\ Cell(m, r) = i /\ Val(m, r) = v

\* A row that was taken: its cell is blank and it is read as it was made.
LEMMA ChosenReads ==
  ASSUME NEW H, NEW O, NEW N, NEW D, NEW fs, History(H, O, N, D, fs), NEW bd,
         Made(H[1], N, bd), NEW k \in 1..D
  PROVE  \E i \in Cells, v \in Values : Reads(H[1], H[D + 1], bd, fs[k].row, i, v)
<1>1. fs[k].row \in RowNodes(H[1]) /\ Shape(H[1], N)
  BY ChosenRow
<1>2. PICK i \in Cells, v \in Values : MayTake(bd, i, v) /\ NamesOf(H[1], fs[k].row) = RowNames(i, v)
  BY <1>1 DEF Made, RowsMade, RowsFit
<1>3. Keeps(H[1], H[D + 1], N)
  BY LastOpen
<1>4. Cell(H[D + 1], fs[k].row) = i /\ Val(H[D + 1], fs[k].row) = v
  BY <1>1, <1>2, <1>3, RowReads
<1> QED BY <1>2, <1>4 DEF Reads

-----------------------------------------------------------------------------
(* The board that is written *)

\* The calls whose row is of cell i, and the board that Solved writes.
RowsFor(m, fs, i) == {k \in DOMAIN fs : Cell(m, fs[k].row) = i}
Written(m, fs, bd) == [i \in Cells |-> IF RowsFor(m, fs, i) = {} THEN bd[i]
                                       ELSE Val(m, fs[CHOOSE k \in RowsFor(m, fs, i) : TRUE].row)]

\* When no column is open a row was taken for every name that is needed.
LEMMA AllTaken ==
  ASSUME NEW H, NEW O, NEW N, NEW D, NEW fs, History(H, O, N, D, fs), O[D + 1] = {}, NEW bd,
         Made(H[1], N, bd), NEW name \in NeededNames(bd)
  PROVE  \E k \in 1..D : name \in NamesOf(H[1], fs[k].row)
<1>1. Named(H[1], N, bd)
  BY DEF Made, RowsMade
<1>2. PICK c \in Heads(H[1]) : H[1].name[c] = name
  BY <1>1 DEF Named, HeadNames
<1>3. D \in 0..D
  BY DEF History
<1>4. O[D + 1] = Heads(H[1]) \ Covered(H[1], fs, D)
  BY <1>3, OpenIs
<1>5. PICK k \in 1..D : c \in ColsOf(H[1], fs[k].row)
  BY <1>2, <1>4 DEF Covered
<1>6. fs[k].row \in RowNodes(H[1])
  BY ChosenRow
<1>7. name \in NamesOf(H[1], fs[k].row)
  BY <1>1, <1>2, <1>5, <1>6, NamesOfCols
<1> QED BY <1>7

\* One row is taken for a cell.
LEMMA OneRow ==
  ASSUME NEW H, NEW O, NEW N, NEW D, NEW fs, History(H, O, N, D, fs), NEW bd,
         Made(H[1], N, bd), NEW j \in 1..D, NEW k \in 1..D,
         Cell(H[D + 1], fs[j].row) = Cell(H[D + 1], fs[k].row)
  PROVE  j = k
<1>1. Named(H[1], N, bd)
  BY DEF Made, RowsMade
<1>2. PICK i \in Cells, v \in Values : Reads(H[1], H[D + 1], bd, fs[j].row, i, v)
  BY ChosenReads
<1>3. PICK i2 \in Cells, w \in Values : Reads(H[1], H[D + 1], bd, fs[k].row, i2, w)
  BY ChosenReads
<1>4. i \in NamesOf(H[1], fs[j].row) /\ i \in NamesOf(H[1], fs[k].row) /\ MayTake(bd, i, v)
  BY <1>2, <1>3 DEF RowNames, Reads
<1>5. i \in NeededNames(bd)
  <2>1. i \in RowNames(i, v)
    BY DEF RowNames
  <2> QED BY <2>1, <1>4, TakesNeeded DEF NeededNames
<1>6. PICK c \in Heads(H[1]) : H[1].name[c] = i
  BY <1>1, <1>5 DEF Named, HeadNames
<1>7. fs[j].row \in RowNodes(H[1]) /\ fs[k].row \in RowNodes(H[1])
  BY ChosenRow
<1>8. c \in ColsOf(H[1], fs[j].row)
  BY <1>1, <1>4, <1>6, <1>7, NamesOfCols
<1>9. c \in ColsOf(H[1], fs[k].row)
  BY <1>1, <1>4, <1>6, <1>7, NamesOfCols
<1> QED BY <1>8, <1>9, ChosenApart

\* No cell has two of the rows that were taken.
CellsOnce(m, fs, D) == \A j, k \in 1..D : Cell(m, fs[j].row) = Cell(m, fs[k].row) => j = k

\* A row for each cell, at most.
LEMMA OneRowEach ==
  ASSUME NEW H, NEW O, NEW N, NEW D, NEW fs, History(H, O, N, D, fs), NEW bd, Made(H[1], N, bd)
  PROVE  CellsOnce(H[D + 1], fs, D)
BY OneRow DEF CellsOnce

\* b has what row r says.
Shows(l, b, r) == \E i \in Cells, v \in Values : b[i] = v /\ NamesOf(l, r) = RowNames(i, v)

\* b has a value in every cell, the given one where there is one.
FillsIn(b, bd) == \A i \in Cells : b[i] \in Values /\ (bd[i] # 0 => b[i] = bd[i])

\* What Solved writes is what the rows that were taken say, and else what was given.
LEMMA WrittenIs ==
  ASSUME NEW H, NEW O, NEW N, NEW D, NEW fs, History(H, O, N, D, fs), O[D + 1] = {}, NEW bd,
         Made(H[1], N, bd), Given(bd), DOMAIN fs = 1..D, NEW b, b = Written(H[D + 1], fs, bd)
  PROVE  (\A k \in 1..D : Shows(H[1], b, fs[k].row)) /\ FillsIn(b, bd)
<1>1. ASSUME NEW k \in 1..D
      PROVE  \E i \in Cells, v \in Values : Reads(H[1], H[D + 1], bd, fs[k].row, i, v)
  BY ChosenReads
<1>2. CellsOnce(H[D + 1], fs, D)
  BY OneRowEach
<1> DEFINE m == H[D + 1]
           l == H[1]
<1>3. ASSUME NEW name \in NeededNames(bd) PROVE \E k \in 1..D : name \in NamesOf(l, fs[k].row)
  BY AllTaken
<1>4. b = Written(m, fs, bd)
  OBVIOUS
<1>5. ASSUME NEW k \in 1..D
      PROVE  \E i \in Cells, v \in Values : Reads(l, m, bd, fs[k].row, i, v)
  BY <1>1
<1>6. ASSUME NEW j \in 1..D, NEW k \in 1..D, Cell(m, fs[j].row) = Cell(m, fs[k].row)
      PROVE  j = k
  BY <1>2, <1>6 DEF CellsOnce
<1> HIDE DEF m, l
<1>7. ASSUME NEW i \in Cells
      PROVE  b[i] = IF RowsFor(m, fs, i) = {} THEN bd[i]
                    ELSE Val(m, fs[CHOOSE k \in RowsFor(m, fs, i) : TRUE].row)
  BY <1>4 DEF Written
<1>8. ASSUME NEW i \in Cells
      PROVE  RowsFor(m, fs, i) = {k \in 1..D : Cell(m, fs[k].row) = i}
  BY DEF RowsFor
<1>9. ASSUME NEW k \in 1..D
      PROVE  Shows(l, b, fs[k].row)
  <2>1. PICK i \in Cells, v \in Values :
               /\ NamesOf(l, fs[k].row) = RowNames(i, v)
               /\ Cell(m, fs[k].row) = i /\ Val(m, fs[k].row) = v
    BY <1>5 DEF Reads
  <2>2. RowsFor(m, fs, i) = {k}
    BY <2>1, <1>6, <1>8
  <2>3. b[i] = Val(m, fs[k].row)
    <3>1. (CHOOSE x \in RowsFor(m, fs, i) : TRUE) = k
      BY <2>2
    <3>2. RowsFor(m, fs, i) # {}
      BY <2>2
    <3> QED BY <3>1, <3>2, <1>7
  <2> QED BY <2>1, <2>3 DEF Shows
<1>10. ASSUME NEW i \in Cells PROVE b[i] \in Values /\ (bd[i] # 0 => b[i] = bd[i])
  <2>1. CASE RowsFor(m, fs, i) = {}
    <3>1. b[i] = bd[i]
      BY <2>1, <1>7
    <3>2. bd[i] # 0
      <4> SUFFICES ASSUME bd[i] = 0 PROVE FALSE
        OBVIOUS
      <4>1. i \in NeededNames(bd)
        BY DEF NeededNames, Needed
      <4>2. PICK k \in 1..D : i \in NamesOf(l, fs[k].row)
        BY <4>1, <1>3
      <4>3. PICK j \in Cells, v \in Values :
                   NamesOf(l, fs[k].row) = RowNames(j, v) /\ Cell(m, fs[k].row) = j
        BY <1>5 DEF Reads
      <4>4. i = j
        BY <4>2, <4>3, UnitsIn DEF RowNames
      <4>5. k \in RowsFor(m, fs, i)
        BY <4>3, <4>4, <1>8
      <4> QED BY <4>5, <2>1
    <3> QED BY <3>1, <3>2 DEF Given
  <2>2. CASE RowsFor(m, fs, i) # {}
    <3> DEFINE k == CHOOSE x \in RowsFor(m, fs, i) : TRUE
    <3>1. k \in RowsFor(m, fs, i)
      BY <2>2
    <3>2. b[i] = Val(m, fs[k].row)
      BY <2>2, <1>7
    <3> HIDE DEF k
    <3>3. k \in 1..D /\ Cell(m, fs[k].row) = i
      BY <3>1, <1>8
    <3>4. PICK j \in Cells, v \in Values :
                 MayTake(bd, j, v) /\ Cell(m, fs[k].row) = j /\ Val(m, fs[k].row) = v
      BY <3>3, <1>5 DEF Reads
    <3>5. bd[i] = 0
      BY <3>3, <3>4 DEF MayTake
    <3> QED BY <3>2, <3>4, <3>5
  <2> QED BY <2>1, <2>2
<1> QED BY <1>9, <1>10 DEF l, FillsIn

\* What Solved writes is a completed board that agrees with the givens.
LEMMA WrittenRight ==
  ASSUME NEW H, NEW O, NEW N, NEW D, NEW fs, History(H, O, N, D, fs), O[D + 1] = {}, NEW bd,
         Made(H[1], N, bd), Given(bd), DOMAIN fs = 1..D, NEW b, b = Written(H[D + 1], fs, bd)
  PROVE  Right(b) /\ \A i \in Cells : bd[i] # 0 => b[i] = bd[i]
<1>1. (\A k \in 1..D : Shows(H[1], b, fs[k].row)) /\ FillsIn(b, bd)
  BY WrittenIs
<1>2. ASSUME NEW i \in Cells PROVE b[i] \in Values /\ (bd[i] # 0 => b[i] = bd[i])
  BY <1>1 DEF FillsIn
<1>3. ASSUME NEW name \in NeededNames(bd)
      PROVE  \E k \in 1..D : name \in NamesOf(H[1], fs[k].row)
  BY AllTaken
<1>4. ASSUME NEW i \in Cells, NEW u \in Range(Units(i, b[i])) PROVE u \in AllUnits
  BY <1>2, UnitsIn
<1>5. ASSUME NEW u \in AllUnits PROVE \E i \in Cells : u \in Range(Units(i, b[i]))
  <2>1. CASE u \in Taken(bd)
    <3>1. PICK i \in Cells : bd[i] # 0 /\ u \in Range(Units(i, bd[i]))
      BY <2>1 DEF Taken
    <3>2. b[i] = bd[i]
      BY <3>1, <1>2
    <3> QED BY <3>1, <3>2
  <2>2. CASE u \notin Taken(bd)
    <3>1. u \notin Cells
      BY AllUnitsAre, UnitNames
    <3>2. u \in NeededNames(bd)
      BY <3>1, <2>2 DEF NeededNames, Needed
    <3>3. PICK k \in 1..D : u \in NamesOf(H[1], fs[k].row)
      BY <3>2, <1>3
    <3>4. PICK i \in Cells, v \in Values : b[i] = v /\ NamesOf(H[1], fs[k].row) = RowNames(i, v)
      BY <1>1 DEF Shows
    <3>5. u \in Range(Units(i, b[i]))
      BY <3>1, <3>3, <3>4 DEF RowNames
    <3> QED BY <3>5
  <2> QED BY <2>1, <2>2
<1>6. Right(b)
  BY <1>4, <1>5 DEF Right
<1> QED BY <1>2, <1>6

-----------------------------------------------------------------------------
(* The invariant *)

\* The matrix, the history of the search, and every completed board it has not passed.
Searching == \E N, H, O : /\ Solving(H, O, N) /\ Made(H[1], N, puzzle)
                          /\ at # "Solution" => \A g \in Grids : Completes(g, puzzle) => Ahead(g, H, O)

\* While the constructor runs, the matrix that it has made so far; then the search, if the
\* characters are those of a puzzle; and an answer that is right.
SolverInv ==
  /\ puzzle \in Boards
  /\ at \in {"start", "columns", "rows", "solve", "row", "back", "Solution", "NoSolution"}
  /\ at = "start" => lists = Nodes
  /\ at = "columns" => /\ step \in 1..(4 * Side * Side)
                       /\ \E N : ColumnsMade(lists, N, puzzle, step)
  /\ at = "rows" => /\ step \in 1..(Side * Side * Side)
                    /\ \E N : RowsMade(lists, N, puzzle, step)
  /\ at \in {"start", "columns", "rows"} => frames = <<>>
  /\ at = "start" => step = 1
  /\ at \notin {"Solution", "NoSolution"} => board = puzzle
  /\ at \notin {"start", "NoSolution"} => Given(puzzle)
  /\ at \in {"solve", "row", "back", "Solution"} => Searching
  /\ at = "NoSolution" => (lists = Nodes /\ ~ Given(puzzle)) \/ (Given(puzzle) /\ Searching)
  /\ at = "Solution" => Right(board) /\ Agrees(board)

\* The search begins: every row of a completed board is ahead.
LEMMA SearchBegins ==
  ASSUME NEW N, Made(lists, N, puzzle)', at' = "solve", frames' = <<>>
  PROVE  Searching'
<1>1. Full(lists, N)'
  BY DEF Made, RowsMade, Named
<1>2. PICK H, O : Solving(H, O, N)' /\ H[1] = lists' /\ Depth' = 0
  BY <1>1, SolvingBegins
<1>3. \A g : FitAll(H[1], g, frames', Depth')
  BY <1>2 DEF FitAll
<1>4. \A g : Ahead(g, H, O)'
  BY <1>3 DEF Ahead
<1> QED BY <1>2, <1>4 DEF Searching

\* A step that keeps the history.
LEMMA SearchKept ==
  ASSUME Searching, Choose \/ NextRow \/ Return, Given(puzzle)
  PROVE  Searching' /\ at' # "Solution"
<1>1. PICK N, H, O : /\ Solving(H, O, N) /\ Made(H[1], N, puzzle)
                     /\ at # "Solution" => \A g \in Grids : Completes(g, puzzle) => Ahead(g, H, O)
  BY DEF Searching
<1>2. at # "Solution" /\ at' # "Solution" /\ puzzle' = puzzle
  BY DEF Choose, NextRow, Return
<1>3. Solving(H, O, N)'
  BY <1>1, ChooseStep, NextRowStep, ReturnStep
<1>4. ASSUME NEW g \in Grids, Completes(g, puzzle) PROVE Ahead(g, H, O)'
  <2>1. Ahead(g, H, O)
    BY <1>1, <1>2, <1>4
  <2>2. ASSUME Choose PROVE Ahead(g, H, O)'
    BY <1>1, <1>4, <2>1, <2>2, ChooseAhead
  <2>3. ASSUME NextRow PROVE Ahead(g, H, O)'
    BY <1>1, <2>1, <2>3, NextRowAhead
  <2>4. ASSUME Return PROVE Ahead(g, H, O)'
    BY <1>1, <2>1, <2>4, ReturnAhead
  <2> QED BY <2>2, <2>3, <2>4
<1> QED BY <1>1, <1>2, <1>3, <1>4 DEF Searching

\* A row is taken.
LEMMA SearchGrows ==
  ASSUME Searching, TryRow
  PROVE  Searching'
<1>1. PICK N, H, O : /\ Solving(H, O, N) /\ Made(H[1], N, puzzle)
                     /\ at # "Solution" => \A g \in Grids : Completes(g, puzzle) => Ahead(g, H, O)
  BY DEF Searching
<1>2. at # "Solution" /\ puzzle' = puzzle /\ at = "row"
  BY DEF TryRow
<1>3. PICK G, P : Grew(G, P, H, O, Depth, Top) /\ Solving(G, P, N)'
  BY <1>1, TryRowStep
<1>4. G[1] = H[1]
  <2>1. History(H, O, N, Depth, frames)
    BY <1>1 DEF Solving
  <2>2. 1 \in 1..(Depth + 1)
    BY <2>1 DEF History
  <2> QED BY <2>2, <1>3 DEF Grew
<1>5. ASSUME NEW g \in Grids, Completes(g, puzzle) PROVE Ahead(g, G, P)'
  <2>1. Ahead(g, H, O)
    BY <1>1, <1>2, <1>5
  <2> QED BY <2>1, <1>1, <1>3, TryRowAhead
<1> QED BY <1>1, <1>2, <1>3, <1>4, <1>5 DEF Searching

\* The puzzle is solved.
LEMMA SearchEnds ==
  ASSUME Searching, Solved, Given(puzzle), board = puzzle
  PROVE  Searching' /\ Right(board') /\ Agrees(board)'
<1>1. PICK N, H, O : Solving(H, O, N) /\ Made(H[1], N, puzzle)
  BY DEF Searching
<1>2. at = "solve" /\ at' = "Solution" /\ puzzle' = puzzle
  BY DEF Solved
<1>3. Solving(H, O, N)' /\ O[Depth + 1] = {} /\ lists = H[Depth + 1]
  BY <1>1, SolvedStep
<1>4. Searching'
  BY <1>1, <1>2, <1>3 DEF Searching
<1>5. History(H, O, N, Depth, frames) /\ DOMAIN frames = 1..Depth
  <2>1. frames \in Seq(Frames(N)) /\ Depth = Len(frames)
    BY <1>1, <1>2 DEF Solving, Depth
  <2> QED BY <2>1, <1>1 DEF Solving
<1>6. board' = Written(H[Depth + 1], frames, puzzle)
  <2>1. board' = Written(lists, frames, board)
    BY DEF Solved, Written, RowsFor
  <2> QED BY <2>1, <1>3
<1>7. Right(board') /\ \A i \in Cells : puzzle[i] # 0 => board'[i] = puzzle[i]
  <2> DEFINE D == Depth
             b == board'
             fs == frames
  <2>1. /\ History(H, O, N, D, fs) /\ O[D + 1] = {} /\ Made(H[1], N, puzzle)
        /\ DOMAIN fs = 1..D /\ b = Written(H[D + 1], fs, puzzle)
    BY <1>1, <1>3, <1>5, <1>6
  <2> HIDE DEF D, b, fs
  <2>2. Right(b) /\ \A i \in Cells : puzzle[i] # 0 => b[i] = puzzle[i]
    BY <2>1, WrittenRight
  <2> QED BY <2>2 DEF b
<1> QED BY <1>2, <1>4, <1>7 DEF Agrees

\* The invariant holds at the start.
LEMMA SolverStarts == SolverInit => SolverInv
BY DEF SolverInit, SolverInv

\* The steps of the constructor keep it.
LEMMA BuildKeeps ==
  ASSUME SolverInv, Begin \/ AppendColumn \/ AppendRow
  PROVE  SolverInv'
<1>1. CASE Begin
  <2>1. /\ at = "start" /\ board' = board /\ frames' = frames /\ step' = step /\ puzzle' = puzzle
    BY <1>1 DEF Begin
  <2>2. lists = Nodes /\ frames = <<>> /\ step = 1 /\ board = puzzle /\ puzzle \in Boards
    BY <2>1 DEF SolverInv
  <2>3. Given(puzzle) <=> \A i \in Cells : puzzle[i] \in {0} \cup Values
    <3>1. puzzle \in [Cells -> Int]
      BY <2>2, SolverConstants
    <3> QED BY <3>1 DEF Given
  <2>4. CASE Given(puzzle)
    <3>1. lists' = NewNode(Nodes, 0, 0) /\ at' = "columns"
      BY <2>2, <2>3, <2>4, <1>1 DEF Begin
    <3>2. ColumnsMade(lists', 1, puzzle', step')
      BY <2>1, <2>2, <3>1, RootMade
    <3>3. step' \in 1..(4 * Side * Side)
      <4>1. 1 \in 1..(4 * Side * Side)
        <5>1. CASE Side = 1
          BY <5>1
        <5>2. CASE Side = 4
          BY <5>2
        <5>3. CASE Side = 9
          BY <5>3
        <5> QED BY <5>1, <5>2, <5>3, SideIs
      <4> QED BY <4>1, <2>1, <2>2
    <3> QED BY <2>1, <2>2, <2>4, <3>1, <3>2, <3>3 DEF SolverInv
  <2>5. CASE ~ Given(puzzle)
    <3>1. lists' = lists /\ at' = "NoSolution"
      BY <2>3, <2>5, <1>1 DEF Begin
    <3> QED BY <2>1, <2>2, <2>5, <3>1 DEF SolverInv
  <2> QED BY <2>4, <2>5
<1>2. CASE AppendColumn
  <2> DEFINE K == 4 * Side * Side
  <2>1. /\ at = "columns" /\ board' = board /\ frames' = frames /\ puzzle' = puzzle
        /\ IF Needed(board, Name(step)) THEN lists' = append_column(lists, Name(step))
                                        ELSE lists' = lists
        /\ IF step < K THEN step' = step + 1 /\ at' = at ELSE step' = 1 /\ at' = "rows"
    BY <1>2 DEF AppendColumn
  <2>2. /\ step \in 1..K /\ board = puzzle /\ Given(puzzle) /\ frames = <<>> /\ puzzle \in Boards
    BY <2>1 DEF SolverInv
  <2>3. PICK N : ColumnsMade(lists, N, puzzle, step)
    BY <2>1 DEF SolverInv
  <2>4. \E M : ColumnsMade(lists', M, puzzle, step + 1)
    <3>1. CASE Needed(puzzle, Name(step))
      <4>1. ColumnsMade(append_column(lists, Name(step)), N + 1, puzzle, step + 1)
        BY <3>1, <2>2, <2>3, ColumnsStep
      <4> QED BY <4>1, <3>1, <2>1, <2>2
    <3>2. CASE ~ Needed(puzzle, Name(step))
      <4>1. ColumnsMade(lists, N, puzzle, step + 1)
        BY <3>2, <2>2, <2>3, ColumnsStep
      <4> QED BY <4>1, <3>2, <2>1, <2>2
    <3> QED BY <3>1, <3>2
  <2>5. PICK M : ColumnsMade(lists', M, puzzle, step + 1)
    BY <2>4
  <2>6. K \in Nat
    BY SideIs
  <2> HIDE DEF K
  <2>7. CASE step < K
    <3>1. step' \in 1..K /\ step' = step + 1 /\ at' = "columns"
      BY <2>1, <2>2, <2>6, <2>7
    <3>2. ColumnsMade(lists', M, puzzle', step')
      BY <3>1, <2>1, <2>5
    <3> QED BY <3>1, <3>2, <2>1, <2>2 DEF SolverInv, K
  <2>8. CASE ~ (step < K)
    <3>1. step = K /\ step' = 1 /\ at' = "rows"
      BY <2>1, <2>2, <2>6, <2>8
    <3>2. ColumnsMade(lists', M, puzzle, 4 * Side * Side + 1)
      BY <3>1, <2>5 DEF K
    <3>3. RowsMade(lists', M, puzzle, 1)
      BY <3>2, ColumnsAll
    <3>4. 1 \in 1..(Side * Side * Side)
      <4>1. CASE Side = 1
        BY <4>1
      <4>2. CASE Side = 4
        BY <4>2
      <4>3. CASE Side = 9
        BY <4>3
      <4> QED BY <4>1, <4>2, <4>3, SideIs
    <3> QED BY <3>1, <3>3, <3>4, <2>1, <2>2 DEF SolverInv
  <2> QED BY <2>7, <2>8
<1>3. CASE AppendRow
  <2> DEFINE K == Side * Side * Side
             i == CellAt(step)
             v == ValueAt(step)
  <2>1. /\ at = "rows" /\ board' = board /\ frames' = frames /\ puzzle' = puzzle
        /\ IF MayTake(board, i, v) THEN lists' = append_row(lists, i, v) ELSE lists' = lists
        /\ IF step < K THEN step' = step + 1 /\ at' = at ELSE at' = "solve" /\ step' = step
    BY <1>3 DEF AppendRow, CellAt, ValueAt
  <2>2. /\ step \in 1..K /\ board = puzzle /\ Given(puzzle) /\ frames = <<>> /\ puzzle \in Boards
    BY <2>1 DEF SolverInv
  <2>3. PICK N : RowsMade(lists, N, puzzle, step)
    BY <2>1 DEF SolverInv
  <2>4. \E M : RowsMade(lists', M, puzzle, step + 1)
    <3>1. CASE MayTake(puzzle, i, v)
      <4>1. RowsMade(append_row(lists, i, v), N + 4, puzzle, step + 1)
        BY <3>1, <2>2, <2>3, RowsStep
      <4> QED BY <4>1, <3>1, <2>1, <2>2
    <3>2. CASE ~ MayTake(puzzle, i, v)
      <4>1. RowsMade(lists, N, puzzle, step + 1)
        BY <3>2, <2>2, <2>3, RowsStep
      <4> QED BY <4>1, <3>2, <2>1, <2>2
    <3> QED BY <3>1, <3>2
  <2>5. PICK M : RowsMade(lists', M, puzzle, step + 1)
    BY <2>4
  <2>6. K \in Nat
    BY SideIs
  <2> HIDE DEF K
  <2>7. CASE step < K
    <3>1. step' \in 1..K /\ step' = step + 1 /\ at' = "rows"
      BY <2>1, <2>2, <2>6, <2>7
    <3>2. RowsMade(lists', M, puzzle', step')
      BY <3>1, <2>1, <2>5
    <3> QED BY <3>1, <3>2, <2>1, <2>2 DEF SolverInv, K
  <2>8. CASE ~ (step < K)
    <3>1. step = K /\ at' = "solve"
      BY <2>1, <2>2, <2>6, <2>8
    <3>2. Made(lists', M, puzzle)
      BY <3>1, <2>5 DEF K, Made
    <3>3. Searching'
      <4>1. Made(lists, M, puzzle)'
        BY <3>2, <2>1
      <4>2. at' = "solve" /\ frames' = <<>>
        BY <2>1, <2>2, <3>1
      <4> QED BY <4>1, <4>2, SearchBegins
    <3> QED BY <3>1, <3>3, <2>1, <2>2 DEF SolverInv
  <2> QED BY <2>7, <2>8
<1> QED BY <1>1, <1>2, <1>3

\* So do those of the search.
LEMMA SearchKeeps ==
  ASSUME SolverInv, Solved \/ Choose \/ TryRow \/ Return \/ NextRow
  PROVE  SolverInv'
<1>1. /\ at \in {"solve", "row", "back"} /\ puzzle' = puzzle
  BY DEF Solved, Choose, TryRow, Return, NextRow
<1>2. puzzle \in Boards /\ board = puzzle /\ Given(puzzle) /\ Searching
  BY <1>1 DEF SolverInv
<1>3. CASE Solved
  <2>1. at' = "Solution"
    BY <1>3 DEF Solved
  <2>2. Searching' /\ Right(board') /\ Agrees(board)'
    BY <1>2, <1>3, SearchEnds
  <2> QED BY <1>1, <1>2, <2>1, <2>2 DEF SolverInv
<1>4. CASE Choose \/ NextRow \/ Return
  <2>1. Searching' /\ at' # "Solution"
    BY <1>2, <1>4, SearchKept
  <2>2. board' = board /\ at' \in {"row", "back", "NoSolution"}
    BY <1>4 DEF Choose, NextRow, Return
  <2> QED BY <1>1, <1>2, <2>1, <2>2 DEF SolverInv
<1>5. CASE TryRow
  <2>1. Searching'
    BY <1>2, <1>5, SearchGrows
  <2>2. board' = board /\ at' = "solve"
    BY <1>5 DEF TryRow
  <2> QED BY <1>1, <1>2, <2>1, <2>2 DEF SolverInv
<1> QED BY <1>3, <1>4, <1>5

-----------------------------------------------------------------------------
(* The theorems *)

\* The invariant tells that the links are those of the open columns.
LEMMA InvLinks == SolverInv => LinksConsistent
<1> SUFFICES ASSUME SolverInv PROVE LinksConsistent
  OBVIOUS
<1>1. CASE lists = Nodes
  BY <1>1 DEF LinksConsistent
<1>2. ASSUME NEW N, Full(lists, N) PROVE LinksConsistent
  BY <1>2, OpenConsistent DEF Full
<1>3. CASE at = "columns"
  BY <1>2, <1>3 DEF SolverInv, ColumnsMade
<1>4. CASE at = "rows"
  BY <1>2, <1>4 DEF SolverInv, RowsMade, Named
<1>5. CASE Searching
  <2>1. PICK N, H, O : Solving(H, O, N)
    BY <1>5 DEF Searching
  <2>2. Open(H[Depth + 1], O[Depth + 1], N) /\ N \in Nat
    <3>1. History(H, O, N, Depth, frames)
      BY <2>1 DEF Solving
    <3> QED BY <3>1, LastOpen
  <2>3. CASE at = "row"
    <3>1. Top.col \in O[Depth + 1] /\ lists = cover(H[Depth + 1], Top.col)
      BY <2>1, <2>3 DEF Solving
    <3>2. Open(lists, O[Depth + 1] \ {Top.col}, N)
      BY <2>2, <3>1, CoverStep
    <3> QED BY <3>2, OpenConsistent
  <2>4. CASE at # "row"
    <3>1. lists = H[Depth + 1]
      BY <2>1, <2>4 DEF Solving
    <3> QED BY <3>1, <2>2, OpenConsistent
  <2> QED BY <2>3, <2>4
<1> QED BY <1>1, <1>3, <1>4, <1>5 DEF SolverInv

\* And that the answer is right.
LEMMA InvSolves == SolverInv => SolvesRight
<1> SUFFICES ASSUME SolverInv PROVE SolvesRight
  OBVIOUS
<1>1. ASSUME at = "NoSolution", NEW g \in Grids, Agrees(g) PROVE FALSE
  <2>1. g \in [Cells -> Values] /\ Right(g) /\ puzzle \in [Cells -> Int]
    BY SolverConstants DEF SolverInv
  <2>2. Completes(g, puzzle)
    BY <2>1, <1>1 DEF Completes, Agrees
  <2>3. Given(puzzle)
    BY <2>1, <1>1 DEF Given, Agrees
  <2>4. Searching
    BY <1>1, <2>3 DEF SolverInv
  <2>5. PICK H, O : Ahead(g, H, O)
    BY <1>1, <2>2, <2>4 DEF Searching
  <2> QED BY <2>5, <1>1 DEF Ahead
<1>2. at = "Solution" => Right(board) /\ Agrees(board)
  BY DEF SolverInv
<1> QED BY <1>1, <1>2 DEF SolvesRight

\* Whatever solveSudoku has done, the matrix is what the rows that were taken leave of the
\* one that the constructor makes, and no completed board has been passed: the invariant
\* that the two theorems below need, which every step of the constructor and of solve()
\* keeps.
THEOREM SolverInvariant == SolverSpec => []SolverInv
<1>1. SolverInv /\ [SolverNext]_solverVars => SolverInv'
  <2> SUFFICES ASSUME SolverInv, [SolverNext]_solverVars PROVE SolverInv'
    OBVIOUS
  <2>1. CASE Begin \/ AppendColumn \/ AppendRow
    BY <2>1, BuildKeeps
  <2>2. CASE Solved \/ Choose \/ TryRow \/ Return \/ NextRow
    BY <2>2, SearchKeeps
  <2>3. CASE UNCHANGED solverVars
    <3>1. /\ puzzle' = puzzle /\ at' = at /\ lists' = lists /\ step' = step
          /\ frames' = frames /\ board' = board
      BY <2>3 DEF solverVars
    <3>2. Searching => Searching'
      <4> SUFFICES ASSUME Searching PROVE Searching'
        OBVIOUS
      <4>1. Depth' = Depth /\ Top' = Top
        BY <3>1 DEF Depth, Top
      <4>2. ASSUME NEW H, NEW O, NEW N, Solving(H, O, N) PROVE Solving(H, O, N)'
        BY <4>2, <4>1, <3>1 DEF Solving
      <4>3. ASSUME NEW g, NEW H, NEW O, Ahead(g, H, O) PROVE Ahead(g, H, O)'
        BY <4>3, <4>1, <3>1 DEF Ahead
      <4>4. PICK N, H, O :
               /\ Solving(H, O, N) /\ Made(H[1], N, puzzle)
               /\ at # "Solution" => \A g \in Grids : Completes(g, puzzle) => Ahead(g, H, O)
        BY DEF Searching
      <4> QED BY <3>1, <4>2, <4>3, <4>4 DEF Searching
    <3>3. Agrees(board) => Agrees(board)'
      BY <3>1 DEF Agrees
    <3> QED BY <3>1, <3>2, <3>3 DEF SolverInv
  <2> QED BY <2>1, <2>2, <2>3 DEF SolverNext
<1> QED BY <1>1, SolverStarts, PTL DEF SolverSpec

\* After any number of calls of solve() that took rows and gave them back, the links are
\* those of the columns that are not covered and the rows that have only such columns:
\* uncover() undoes cover(), in the reverse order.
THEOREM LinksStay == SolverSpec => []LinksConsistent
BY SolverInvariant, InvLinks, PTL

\* For every puzzle: the board that solveSudoku writes completes it, with every value in
\* every row, column and box; and when it finds no solution then no completed board agrees
\* with the givens.
THEOREM AnswerRight == SolverSpec => []SolvesRight
BY SolverInvariant, InvSolves, PTL
=============================================================================
