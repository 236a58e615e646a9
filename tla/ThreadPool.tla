----------------------------- MODULE ThreadPool -----------------------------
(***************************************************************************)
(* lotus::net::ThreadPool: worker threads that take tasks from a queue,    *)
(* bounded when MaxQueue > 0, under one mutex with two condition           *)
(* variables.  What a thread does while it holds the mutex is one step; a  *)
(* thread waiting on a condition variable may also wake up for no reason.  *)
(***************************************************************************)
EXTENDS Naturals, Sequences, FiniteSets

CONSTANTS Workers,          \* the threads start() creates
          Producers,        \* threads that call run(), outside the pool
          Tasks,            \* each is passed to run() at most once
          MaxQueue          \* maxQueueSize_; 0 is unbounded

ASSUME PoolConstants == /\ MaxQueue \in Nat
                        /\ Workers # {} /\ IsFiniteSet(Workers)
                        /\ IsFiniteSet(Producers)
                        /\ Workers \cap Producers = {}

VARIABLES queue,            \* queue_
          running,          \* running_
          stopper,          \* the thread that owns the pool: start() and stop()
          wpc,              \* [Workers -> where the worker is]
          ppc,              \* [Producers -> where the producer is in run()]
          hand,             \* [Workers \cup Producers -> the task it holds, or none]
          done              \* history: tasks called, in order

vars == <<queue, running, stopper, wpc, ppc, hand, done>>

NoTask == "none"

ASSUME NoTaskIsNone == NoTask \notin Tasks

isFull == MaxQueue > 0 /\ Len(queue) >= MaxQueue

Fresh(f) == /\ \A i \in DOMAIN queue : queue[i] # f
            /\ \A i \in DOMAIN done : done[i] # f
            /\ \A h \in Workers \cup Producers : hand[h] # f

\* notify_one on notEmpty_ and on notFull_: one waiter, if there is one.
NotifyNotEmpty == \/ \E w \in Workers : /\ wpc[w] = "waiting"
                                        /\ wpc' = [wpc EXCEPT ![w] = "taking"]
                  \/ /\ \A w \in Workers : wpc[w] # "waiting"
                     /\ UNCHANGED wpc

NotifyNotFull == \/ \E p \in Producers : /\ ppc[p] = "waiting"
                                         /\ ppc' = [ppc EXCEPT ![p] = "putting"]
                 \/ /\ \A p \in Producers : ppc[p] # "waiting"
                    /\ UNCHANGED ppc

-----------------------------------------------------------------------------
Init == /\ queue = <<>>
        /\ running = FALSE
        /\ stopper = "new"
        /\ wpc = [w \in Workers |-> "none"]
        /\ ppc = [p \in Producers |-> "idle"]
        /\ hand = [h \in Workers \cup Producers |-> NoTask]
        /\ done = <<>>

\* start(): the workers run from here on.
Start == /\ stopper = "new"
         /\ stopper' = "started"
         /\ running' = TRUE
         /\ wpc' = [w \in Workers |-> "check"]
         /\ UNCHANGED <<queue, ppc, hand, done>>

\* Mutant: stop() does not notify.
StopSilently == /\ stopper = "started"
                /\ stopper' = "joining"
                /\ running' = FALSE
                /\ UNCHANGED <<queue, wpc, ppc, hand, done>>

\* stop(): only notEmpty_ is notified; then the workers are joined.
Stop == /\ stopper = "started"
        /\ stopper' = "joining"
        /\ running' = FALSE
        /\ wpc' = [w \in Workers |-> IF wpc[w] = "waiting" THEN "taking" ELSE wpc[w]]
        /\ UNCHANGED <<queue, ppc, hand, done>>

Joined == /\ stopper = "joining"
          /\ \A w \in Workers : wpc[w] = "ended"
          /\ stopper' = "stopped"
          /\ UNCHANGED <<queue, running, wpc, ppc, hand, done>>

-----------------------------------------------------------------------------
(* run() *)

\* Before start() there are no threads: the caller calls the task itself.
RunInline(p, f) == /\ ppc[p] = "idle" /\ stopper = "new" /\ Fresh(f)
                   /\ done' = Append(done, f)
                   /\ UNCHANGED <<queue, running, stopper, wpc, ppc, hand>>

CallRun(p, f) == /\ ppc[p] = "idle" /\ stopper # "new" /\ Fresh(f)
                 /\ ppc' = [ppc EXCEPT ![p] = "putting"]
                 /\ hand' = [hand EXCEPT ![p] = f]
                 /\ UNCHANGED <<queue, running, stopper, wpc, done>>

WaitNotFull(p) == /\ ppc[p] = "putting" /\ isFull
                  /\ ppc' = [ppc EXCEPT ![p] = "waiting"]
                  /\ UNCHANGED <<queue, running, stopper, wpc, hand, done>>

\* Mutant: no notify_one on notEmpty_.
PutSilently(p) == /\ ppc[p] = "putting" /\ ~ isFull
                  /\ queue' = Append(queue, hand[p])
                  /\ ppc' = [ppc EXCEPT ![p] = "idle"]
                  /\ hand' = [hand EXCEPT ![p] = NoTask]
                  /\ UNCHANGED <<running, stopper, wpc, done>>

Put(p) == /\ ppc[p] = "putting" /\ ~ isFull
          /\ queue' = Append(queue, hand[p])
          /\ ppc' = [ppc EXCEPT ![p] = "idle"]
          /\ hand' = [hand EXCEPT ![p] = NoTask]
          /\ NotifyNotEmpty
          /\ UNCHANGED <<running, stopper, done>>

SpuriousProducer(p) == /\ ppc[p] = "waiting"
                       /\ ppc' = [ppc EXCEPT ![p] = "putting"]
                       /\ UNCHANGED <<queue, running, stopper, wpc, hand, done>>

-----------------------------------------------------------------------------
(* runInThread() and take() *)

CheckRunning(w) == /\ wpc[w] = "check"
                   /\ wpc' = [wpc EXCEPT ![w] = IF running THEN "taking" ELSE "ended"]
                   /\ UNCHANGED <<queue, running, stopper, ppc, hand, done>>

\* Mutant: take() waits for a task even when the pool is stopped.
WaitAnyway(w) == /\ wpc[w] = "taking" /\ queue = <<>>
                 /\ wpc' = [wpc EXCEPT ![w] = "waiting"]
                 /\ UNCHANGED <<queue, running, stopper, ppc, hand, done>>

WaitNotEmpty(w) == /\ wpc[w] = "taking" /\ queue = <<>> /\ running
                   /\ wpc' = [wpc EXCEPT ![w] = "waiting"]
                   /\ UNCHANGED <<queue, running, stopper, ppc, hand, done>>

\* Mutant: the task taken stays in the queue.
TakeFront(w) == /\ wpc[w] = "taking" /\ queue # <<>>
                /\ hand' = [hand EXCEPT ![w] = Head(queue)]
                /\ wpc' = [wpc EXCEPT ![w] = "task"]
                /\ IF MaxQueue > 0 THEN NotifyNotFull ELSE UNCHANGED ppc
                /\ UNCHANGED <<queue, running, stopper, done>>

\* Mutant: no notify_one on notFull_.
TakeSilently(w) == /\ wpc[w] = "taking" /\ queue # <<>>
                   /\ hand' = [hand EXCEPT ![w] = Head(queue)]
                   /\ queue' = Tail(queue)
                   /\ wpc' = [wpc EXCEPT ![w] = "task"]
                   /\ UNCHANGED <<running, stopper, ppc, done>>

Take(w) == /\ wpc[w] = "taking" /\ queue # <<>>
           /\ hand' = [hand EXCEPT ![w] = Head(queue)]
           /\ queue' = Tail(queue)
           /\ wpc' = [wpc EXCEPT ![w] = "task"]
           /\ IF MaxQueue > 0 THEN NotifyNotFull ELSE UNCHANGED ppc
           /\ UNCHANGED <<running, stopper, done>>

TakeNothing(w) == /\ wpc[w] = "taking" /\ queue = <<>> /\ ~ running
                  /\ wpc' = [wpc EXCEPT ![w] = "check"]
                  /\ UNCHANGED <<queue, running, stopper, ppc, hand, done>>

\* The task is called, outside the mutex.
CallTask(w) == /\ wpc[w] = "task"
               /\ done' = Append(done, hand[w])
               /\ hand' = [hand EXCEPT ![w] = NoTask]
               /\ wpc' = [wpc EXCEPT ![w] = "check"]
               /\ UNCHANGED <<queue, running, stopper, ppc>>

SpuriousWorker(w) == /\ wpc[w] = "waiting"
                     /\ wpc' = [wpc EXCEPT ![w] = "taking"]
                     /\ UNCHANGED <<queue, running, stopper, ppc, hand, done>>

-----------------------------------------------------------------------------
ProducerStep(p) == WaitNotFull(p) \/ Put(p)

WorkerStep(w) == \/ CheckRunning(w) \/ WaitNotEmpty(w) \/ Take(w)
                 \/ TakeNothing(w) \/ CallTask(w)

Next == \/ Start \/ Stop \/ Joined
        \/ \E p \in Producers : \/ \E f \in Tasks : RunInline(p, f) \/ CallRun(p, f)
                                \/ ProducerStep(p)
                                \/ SpuriousProducer(p)
        \/ \E w \in Workers : WorkerStep(w) \/ SpuriousWorker(w)

\* Threads that are not blocked are scheduled, the mutex is fair enough that each
\* gets it (strong fairness would be needed for a producer that keeps finding the
\* queue full: it is not assumed), and tasks return.
Fairness == /\ WF_vars(Joined)
            /\ \A p \in Producers : WF_vars(ProducerStep(p))
            /\ \A w \in Workers : WF_vars(WorkerStep(w))

Spec == Init /\ [][Next]_vars /\ Fairness

-----------------------------------------------------------------------------
\* No task waits while every worker sleeps: each notify_one of run() reaches a
\* worker for which the wakeup is meant, whatever waiters it competes with.
NoSleepOverTask ==
  running /\ queue # <<>> => \E w \in Workers : wpc[w] # "waiting"

\* No producer sleeps beside a queue with room, unless one that was woken is on
\* its way to put its task there.
NoSleepOverRoom ==
  ~ isFull /\ (\E p \in Producers : ppc[p] = "waiting")
    => \E p \in Producers : ppc[p] = "putting"

\* After stop() no worker waits for tasks, so that join() cannot wait for one that
\* no notification will reach.
NoSleeperToJoin == stopper = "joining" => \A w \in Workers : wpc[w] # "waiting"

\* Nobody sleeps through the condition that is waited for.
NoMissedNotify == NoSleepOverTask /\ NoSleepOverRoom /\ NoSleeperToJoin

\* A task passed to run() is in one place, whatever threads are woken together: it
\* is never taken by two workers, nor called again.
InPlaces(f) == Cardinality({i \in DOMAIN queue : queue[i] = f})
               + Cardinality({i \in DOMAIN done : done[i] = f})
               + Cardinality({h \in Workers \cup Producers : hand[h] = f})
TakenOnce == \A f \in Tasks : InPlaces(f) <= 1

\* A task that run() has queued is called, unless the pool is stopped first.
QueuedTaskRuns ==
  \A f \in Tasks : (\E i \in DOMAIN queue : queue[i] = f)
                     ~> ((\E i \in DOMAIN done : done[i] = f) \/ ~ running)

\* run() returns, unless the pool is stopped while it waits.
RunReturns == \A p \in Producers : (ppc[p] # "idle") ~> (ppc[p] = "idle" \/ ~ running)

\* stop() returns.
StopReturns == (stopper = "joining") ~> (stopper = "stopped")
=============================================================================
