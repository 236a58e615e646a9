----------------------------- MODULE EventLoop -----------------------------
(***************************************************************************)
(* lotus::net::EventLoop (EventLoop.cc, EventLoop.h, Epoll::poll): one     *)
(* thread polls with an infinite timeout, handles the active channels and  *)
(* then runs the functors that any thread may have queued.  A thread other *)
(* than the loop's own wakes the loop through an eventfd, in a step        *)
(* separate from the one that queues the functor or sets quit_.            *)
(*                                                                         *)
(* The eventfd counter is abstracted to "readable or not" (handleRead      *)
(* reads the whole counter), all channels other than the wakeup channel to *)
(* one channel "io", and a functor or a callback to the calls it makes on  *)
(* its own loop: any number of them, one step each, so that other threads  *)
(* interleave with its body.                                               *)
(***************************************************************************)
EXTENDS Naturals, Sequences

CONSTANTS Threads,          \* threads other than the loop's own
          Tasks             \* functors; each is handed over at most once

VARIABLES lpc,              \* where the loop's own thread is
          quit,             \* quit_
          pending,          \* pendingFunctors_, guarded by mutex_
          fns,              \* what is left of doPendingFunctors' local vector
          calling,          \* callingPendingFunctors_
          wake,             \* wakeupFd_ is readable
          active,           \* activeChannels_ still to be handled
          tpc,              \* [Threads -> where the thread is inside a call]
          ran,              \* history: functors started, in order
          early             \* history: functors queued by the owner before loop()

vars == <<lpc, quit, pending, fns, calling, wake, active, tpc, ran, early>>

Channels == {"wakeup", "io"}

Elems(s) == {s[i] : i \in DOMAIN s}

Fresh(f) == f \notin Elems(pending) \cup Elems(fns) \cup Elems(ran)

Stopped == lpc \in {"returned", "destroyed"}

\* The owner thread executes user code: before loop(), in a channel's callback,
\* or in a functor.
InUserCode == lpc \in {"init", "callback", "functor"}

-----------------------------------------------------------------------------
Init == /\ lpc = "init"
        /\ quit = FALSE
        /\ pending = <<>>
        /\ fns = <<>>
        /\ calling = FALSE
        /\ wake = FALSE
        /\ active = {}
        /\ tpc = [t \in Threads |-> "idle"]
        /\ ran = <<>>
        /\ early = {}

(* The loop's own thread: EventLoop::loop and doPendingFunctors *)

\* Mutant: loop() clears quit_ when it starts.
StartLoopClearsQuit == /\ lpc = "init"
                       /\ lpc' = "check"
                       /\ quit' = FALSE
                       /\ UNCHANGED <<pending, fns, calling, wake, active, tpc, ran, early>>

StartLoop == /\ lpc = "init"
             /\ lpc' = "check"
             /\ UNCHANGED <<quit, pending, fns, calling, wake, active, tpc, ran, early>>

CheckQuit == /\ lpc = "check"
             /\ lpc' = IF quit THEN "returned" ELSE "poll"
             /\ UNCHANGED <<quit, pending, fns, calling, wake, active, tpc, ran, early>>

\* epoll_wait returns: a readable eventfd is always reported (level-triggered),
\* io whenever the outside world wants it; with neither, it was interrupted by
\* a signal and the iteration goes on with no active channel.
PollReturns(io) == /\ lpc = "poll"
                   /\ active' = io \cup (IF wake THEN {"wakeup"} ELSE {})
                   /\ lpc' = "handle"
                   /\ UNCHANGED <<quit, pending, fns, calling, wake, tpc, ran, early>>

HandleRead == /\ lpc = "handle"
              /\ "wakeup" \in active
              /\ wake' = FALSE
              /\ active' = active \ {"wakeup"}
              /\ UNCHANGED <<lpc, quit, pending, fns, calling, tpc, ran, early>>

HandleEvent == /\ lpc = "handle"
               /\ "io" \in active
               /\ active' = active \ {"io"}
               /\ lpc' = "callback"
               /\ UNCHANGED <<quit, pending, fns, calling, wake, tpc, ran, early>>

SwapFunctors == /\ lpc = "handle"
                /\ active = {}
                /\ calling' = TRUE
                /\ fns' = pending
                /\ pending' = <<>>
                /\ lpc' = "run"
                /\ UNCHANGED <<quit, wake, active, tpc, ran, early>>

\* Mutant: the batch is run from its back.
RunLastFunctor == /\ lpc = "run"
                  /\ fns # <<>>
                  /\ ran' = Append(ran, fns[Len(fns)])
                  /\ fns' = SubSeq(fns, 1, Len(fns) - 1)
                  /\ lpc' = "functor"
                  /\ UNCHANGED <<quit, pending, calling, wake, active, tpc, early>>

RunFunctor == /\ lpc = "run"
              /\ fns # <<>>
              /\ ran' = Append(ran, Head(fns))
              /\ fns' = Tail(fns)
              /\ lpc' = "functor"
              /\ UNCHANGED <<quit, pending, calling, wake, active, tpc, early>>

\* Mutant: callingPendingFunctors_ stays set.
FunctorsDoneStillCalling == /\ lpc = "run"
                            /\ fns = <<>>
                            /\ lpc' = "check"
                            /\ UNCHANGED <<quit, pending, fns, calling, wake, active, tpc,
                                           ran, early>>

FunctorsDone == /\ lpc = "run"
                /\ fns = <<>>
                /\ calling' = FALSE
                /\ lpc' = "check"
                /\ UNCHANGED <<quit, pending, fns, wake, active, tpc, ran, early>>

UserCodeReturns == /\ \/ lpc = "callback" /\ lpc' = "handle"
                      \/ lpc = "functor" /\ lpc' = "run"
                   /\ UNCHANGED <<quit, pending, fns, calling, wake, active, tpc, ran, early>>

\* ~EventLoop, after loop() returned: functors still queued are dropped.
Destroy == /\ lpc = "returned"
           /\ lpc' = "destroyed"
           /\ pending' = <<>>
           /\ UNCHANGED <<quit, fns, calling, wake, active, tpc, ran, early>>

-----------------------------------------------------------------------------
(* Calls the owner thread makes from user code *)

\* Mutant: a functor that queues a functor does not wake its loop.
OwnerQueueNoWakeup(f) == /\ InUserCode
                         /\ Fresh(f)
                         /\ pending' = Append(pending, f)
                         /\ early' = IF lpc = "init" THEN early \cup {f} ELSE early
                         /\ UNCHANGED <<lpc, quit, fns, calling, wake, active, tpc, ran>>

OwnerQueueInLoop(f) == /\ InUserCode
                       /\ Fresh(f)
                       /\ pending' = Append(pending, f)
                       /\ wake' = (wake \/ calling)
                       /\ early' = IF lpc = "init" THEN early \cup {f} ELSE early
                       /\ UNCHANGED <<lpc, quit, fns, calling, active, tpc, ran>>

\* runInLoop by the owner calls the functor at once, past everything queued.
OwnerRunInLoop(f) == /\ InUserCode
                     /\ Fresh(f)
                     /\ ran' = Append(ran, f)
                     /\ UNCHANGED <<lpc, quit, pending, fns, calling, wake, active, tpc, early>>

OwnerQuit == /\ InUserCode
             /\ quit' = TRUE
             /\ UNCHANGED <<lpc, pending, fns, calling, wake, active, tpc, ran, early>>

-----------------------------------------------------------------------------
(* Calls of another thread t.  A new call on a destroyed loop is a mistake *)
(* of the caller and is not made; a call that is under way goes on.        *)

\* Mutant: another thread queues and does not wake the loop.
QueueNoWakeup(t, f) == /\ tpc[t] = "idle"
                       /\ lpc # "destroyed"
                       /\ Fresh(f)
                       /\ pending' = Append(pending, f)
                       /\ UNCHANGED <<lpc, quit, fns, calling, wake, active, tpc, ran, early>>

\* queueInLoop, and runInLoop, which does the same from another thread.
QueueInLoop(t, f) == /\ tpc[t] = "idle"
                     /\ lpc # "destroyed"
                     /\ Fresh(f)
                     /\ pending' = Append(pending, f)
                     /\ tpc' = [tpc EXCEPT ![t] = "pushed"]
                     /\ UNCHANGED <<lpc, quit, fns, calling, wake, active, ran, early>>

\* Mutant: quit() from another thread does not wake the loop.
QuitNoWakeup(t) == /\ tpc[t] = "idle"
                   /\ lpc # "destroyed"
                   /\ quit' = TRUE
                   /\ UNCHANGED <<lpc, pending, fns, calling, wake, active, tpc, ran, early>>

Quit(t) == /\ tpc[t] = "idle"
           /\ lpc # "destroyed"
           /\ quit' = TRUE
           /\ tpc' = [tpc EXCEPT ![t] = "quitSet"]
           /\ UNCHANGED <<lpc, pending, fns, calling, wake, active, ran, early>>

\* The write to the eventfd; on a destroyed loop wakeupFd_ is closed and the
\* write reaches nobody.
Wakeup(t) == /\ tpc[t] # "idle"
             /\ wake' = (wake \/ lpc # "destroyed")
             /\ tpc' = [tpc EXCEPT ![t] = "idle"]
             /\ UNCHANGED <<lpc, quit, pending, fns, calling, active, ran, early>>

-----------------------------------------------------------------------------
LoopStep == \/ StartLoop
            \/ CheckQuit
            \/ \E io \in SUBSET {"io"} : PollReturns(io)
            \/ HandleRead
            \/ HandleEvent
            \/ SwapFunctors
            \/ RunFunctor
            \/ FunctorsDone
            \/ UserCodeReturns
            \/ Destroy

OwnerCall == \/ \E f \in Tasks : OwnerQueueInLoop(f) \/ OwnerRunInLoop(f)
             \/ OwnerQuit

ThreadStep(t) == \/ \E f \in Tasks : QueueInLoop(t, f)
                 \/ Quit(t)
                 \/ Wakeup(t)

Next == LoopStep \/ OwnerCall \/ \E t \in Threads : ThreadStep(t)

\* The loop's thread is scheduled while it has something to do: it is blocked
\* in epoll_wait only while nothing is readable.  A callback or functor
\* returns, and a thread inside a call finishes it.  Nothing else is promised:
\* no I/O event, no call, and not that loop() is called at all.
LoopProgress == \/ CheckQuit
                \/ wake /\ PollReturns({})
                \/ HandleRead
                \/ HandleEvent
                \/ SwapFunctors
                \/ RunFunctor
                \/ FunctorsDone
                \/ UserCodeReturns

Fairness == /\ WF_vars(LoopProgress)
            /\ \A t \in Threads : WF_vars(Wakeup(t))

Spec == Init /\ [][Next]_vars /\ Fairness

-----------------------------------------------------------------------------
TypeOK == /\ lpc \in {"init", "check", "poll", "handle", "callback", "run",
                      "functor", "returned", "destroyed"}
          /\ quit \in BOOLEAN
          /\ pending \in Seq(Tasks)
          /\ fns \in Seq(Tasks)
          /\ calling \in BOOLEAN
          /\ (calling <=> lpc \in {"run", "functor"})
          /\ (fns # <<>> => calling)
          /\ wake \in BOOLEAN
          /\ active \subseteq Channels
          /\ tpc \in [Threads -> {"idle", "pushed", "quitSet"}]
          /\ ran \in Seq(Tasks)
          /\ early \subseteq Tasks

Waking == \E t \in Threads : tpc[t] # "idle"

\* A loop blocked in epoll_wait with an unreadable eventfd has no functor
\* waiting that another thread, a callback or a functor queued, unless the
\* thread that queued it is still about to write the eventfd.  The only functors
\* that can be left waiting are those the owner queued before loop()
\* (queueInLoop wakes nobody then: calling is FALSE and it is the loop's thread).
NoLostWakeup == lpc = "poll" /\ ~ wake /\ ~ Waking => Elems(pending) \subseteq early

\* A loop blocked in epoll_wait has not been told to quit, unless the eventfd
\* is readable or the thread that called quit() is still about to write it.
NoLostQuit == lpc = "poll" /\ quit => wake \/ Waking

\* Seen from its clients the loop is one FIFO queue of functors (TaskQueue).
TQ == INSTANCE TaskQueue WITH queue <- fns \o pending, ran <- ran, open <- ~ Stopped
IsTaskQueue == TQ!Spec

\* A functor queued once the loop runs is started, unless the loop stops first.
QueuedRuns ==
  \A f \in Tasks : (lpc # "init" /\ f \in Elems(pending) \ early)
                     ~> (f \in Elems(ran) \/ Stopped)
=============================================================================
