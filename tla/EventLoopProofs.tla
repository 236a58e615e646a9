-------------------------- MODULE EventLoopProofs --------------------------
(***************************************************************************)
(* Proofs about modules EventLoop and EventLoopThread, for any number of   *)
(* threads and functors.  What is shown of a loop holds of the one on the  *)
(* stack of an EventLoopThread's thread, which is told to quit by          *)
(* ~EventLoopThread through a pointer that may dangle.                     *)
(***************************************************************************)
EXTENDS EventLoopThread, TLAPS

-----------------------------------------------------------------------------
(* Sequences *)

\* Appending adds one element: used where queueInLoop pushes a functor.
LEMMA ElemsAppend ==
  ASSUME NEW S, NEW s \in Seq(S), NEW e \in S
  PROVE  Elems(Append(s, e)) = Elems(s) \cup {e}
<1>1. /\ Append(s, e) \in Seq(S)
      /\ Len(Append(s, e)) = Len(s) + 1
      /\ DOMAIN Append(s, e) = 1..(Len(s) + 1)
      /\ DOMAIN s = 1..Len(s)
      /\ Len(s) \in Nat
  OBVIOUS
<1>2. \A i \in 1..Len(s) : Append(s, e)[i] = s[i]
  OBVIOUS
<1>3. Append(s, e)[Len(s) + 1] = e
  OBVIOUS
<1>4. ASSUME NEW x \in Elems(Append(s, e))
      PROVE  x \in Elems(s) \cup {e}
  <2>1. PICK i \in 1..(Len(s) + 1) : x = Append(s, e)[i]
    BY <1>1, <1>4 DEF Elems
  <2>2. CASE i = Len(s) + 1
    BY <2>1, <2>2, <1>3
  <2>3. CASE i \in 1..Len(s)
    BY <2>1, <2>3, <1>1, <1>2 DEF Elems
  <2> QED BY <2>2, <2>3, <1>1
<1>5. e \in Elems(Append(s, e))
  BY <1>1, <1>3 DEF Elems
<1>6. Elems(s) \subseteq Elems(Append(s, e))
  BY <1>1, <1>2 DEF Elems
<1> QED BY <1>4, <1>5, <1>6

LEMMA ElemsEmpty == Elems(<<>>) = {}
  BY DEF Elems

-----------------------------------------------------------------------------
(* Type correctness *)

LEMMA TypeOKInit == Init => TypeOK
<1> SUFFICES ASSUME Init PROVE TypeOK
  OBVIOUS
<1>1. tpc \in [Threads -> {"idle", "pushed", "quitSet"}]
  BY DEF Init
<1>2. pending \in Seq(Tasks) /\ fns \in Seq(Tasks) /\ ran \in Seq(Tasks)
  BY DEF Init
<1>3. active \subseteq Channels /\ early \subseteq Tasks
  BY DEF Init
<1>4. /\ calling \in BOOLEAN /\ quit \in BOOLEAN /\ wake \in BOOLEAN
      /\ (calling <=> lpc \in {"run", "functor"})
  BY DEF Init
<1> QED BY <1>1, <1>2, <1>3, <1>4 DEF Init, TypeOK

LEMMA TypeOKNext == TypeOK /\ [Next]_vars => TypeOK'
<1> SUFFICES ASSUME TypeOK, [Next]_vars PROVE TypeOK'
  OBVIOUS
<1> USE DEF TypeOK
<1>1. CASE StartLoop
  BY <1>1 DEF StartLoop
<1>2. CASE CheckQuit
  BY <1>2 DEF CheckQuit
<1>3. ASSUME NEW io \in SUBSET {"io"}, PollReturns(io) PROVE TypeOK'
  BY <1>3 DEF PollReturns, Channels
<1>4. CASE HandleRead
  BY <1>4 DEF HandleRead
<1>5. CASE HandleEvent
  BY <1>5 DEF HandleEvent
<1>6. CASE SwapFunctors
  BY <1>6 DEF SwapFunctors
<1>7. CASE RunFunctor
  BY <1>7 DEF RunFunctor
<1>8. CASE FunctorsDone
  BY <1>8 DEF FunctorsDone
<1>9. CASE UserCodeReturns
  BY <1>9 DEF UserCodeReturns
<1>10. CASE Destroy
  BY <1>10 DEF Destroy
<1>11. ASSUME NEW f \in Tasks, OwnerQueueInLoop(f) PROVE TypeOK'
  BY <1>11 DEF OwnerQueueInLoop, InUserCode
<1>12. ASSUME NEW f \in Tasks, OwnerRunInLoop(f) PROVE TypeOK'
  BY <1>12 DEF OwnerRunInLoop
<1>13. CASE OwnerQuit
  BY <1>13 DEF OwnerQuit
<1>14. ASSUME NEW t \in Threads, NEW f \in Tasks, QueueInLoop(t, f) PROVE TypeOK'
  BY <1>14 DEF QueueInLoop
<1>15. ASSUME NEW t \in Threads, Quit(t) PROVE TypeOK'
  BY <1>15 DEF Quit
<1>16. ASSUME NEW t \in Threads, Wakeup(t) PROVE TypeOK'
  BY <1>16 DEF Wakeup
<1>17. CASE UNCHANGED vars
  BY <1>17 DEF vars
<1> QED
  BY <1>1, <1>2, <1>3, <1>4, <1>5, <1>6, <1>7, <1>8, <1>9, <1>10, <1>11, <1>12,
     <1>13, <1>14, <1>15, <1>16, <1>17
     DEF Next, LoopStep, OwnerCall, ThreadStep

\* Every variable of the loop keeps its type, callingPendingFunctors_ is TRUE
\* exactly while doPendingFunctors runs, and its local vector is empty elsewhere.
THEOREM TypeCorrect == Spec => []TypeOK
<1> QED BY TypeOKInit, TypeOKNext, PTL DEF Spec

-----------------------------------------------------------------------------
(* No wakeup is lost *)

\* NoLostWakeup speaks of a loop that is blocked.  What makes it inductive is
\* the same fact wherever the loop will reach epoll_wait without another swap:
\* everywhere but between epoll_wait and the swap, where user code may queue
\* without waking because the swap is still to come.
Armed == lpc \in {"init", "check", "poll", "run", "functor"}
           => wake \/ Waking \/ Elems(pending) \subseteq early

LEMMA ArmedNext == TypeOK /\ Armed /\ [Next]_vars => Armed'
<1> SUFFICES ASSUME TypeOK, Armed, [Next]_vars PROVE Armed'
  OBVIOUS
<1> USE DEF Armed, Waking
<1>1. CASE StartLoop
  BY <1>1 DEF StartLoop, Elems
<1>2. CASE CheckQuit
  BY <1>2 DEF CheckQuit, Elems
<1>3. ASSUME NEW io \in SUBSET {"io"}, PollReturns(io) PROVE Armed'
  BY <1>3 DEF PollReturns
<1>4. CASE HandleRead
  BY <1>4 DEF HandleRead
<1>5. CASE HandleEvent
  BY <1>5 DEF HandleEvent
<1>6. CASE SwapFunctors
  BY <1>6, ElemsEmpty DEF SwapFunctors
<1>7. CASE RunFunctor
  BY <1>7 DEF RunFunctor, Elems
<1>8. CASE FunctorsDone
  BY <1>8 DEF FunctorsDone, Elems
<1>9. CASE UserCodeReturns
  BY <1>9 DEF UserCodeReturns, Elems
<1>10. CASE Destroy
  BY <1>10 DEF Destroy
<1>11. ASSUME NEW f \in Tasks, OwnerQueueInLoop(f) PROVE Armed'
  <2>1. CASE lpc = "init"
    <3>1. Elems(pending') = Elems(pending) \cup {f}
      BY <1>11, ElemsAppend DEF OwnerQueueInLoop, TypeOK
    <3>2. early' = early \cup {f} /\ tpc' = tpc /\ lpc' = lpc /\ wake' = (wake \/ calling)
      BY <1>11, <2>1 DEF OwnerQueueInLoop
    <3>3. Elems(pending)' = Elems(pending')
      BY DEF Elems
    <3> QED BY <2>1, <3>1, <3>2, <3>3
  <2>2. CASE lpc = "callback"
    BY <1>11, <2>2 DEF OwnerQueueInLoop
  <2>3. CASE lpc = "functor"
    BY <1>11, <2>3 DEF OwnerQueueInLoop, TypeOK
  <2> QED BY <1>11, <2>1, <2>2, <2>3 DEF OwnerQueueInLoop, InUserCode
<1>12. ASSUME NEW f \in Tasks, OwnerRunInLoop(f) PROVE Armed'
  BY <1>12 DEF OwnerRunInLoop, Elems
<1>13. CASE OwnerQuit
  BY <1>13 DEF OwnerQuit, Elems
<1>14. ASSUME NEW t \in Threads, NEW f \in Tasks, QueueInLoop(t, f) PROVE Armed'
  BY <1>14 DEF QueueInLoop, TypeOK
<1>15. ASSUME NEW t \in Threads, Quit(t) PROVE Armed'
  BY <1>15 DEF Quit, TypeOK
<1>16. ASSUME NEW t \in Threads, Wakeup(t) PROVE Armed'
  BY <1>16 DEF Wakeup
<1>17. CASE UNCHANGED vars
  BY <1>17 DEF vars, Elems
<1> QED
  BY <1>1, <1>2, <1>3, <1>4, <1>5, <1>6, <1>7, <1>8, <1>9, <1>10, <1>11, <1>12,
     <1>13, <1>14, <1>15, <1>16, <1>17
     DEF Next, LoopStep, OwnerCall, ThreadStep

\* A loop blocked in epoll_wait has nothing to run that queueInLoop owed it a
\* wakeup for, whatever the interleaving of the queueing threads with the loop.
THEOREM NoWakeupLost == Spec => []NoLostWakeup
<1>1. Init => Armed
  BY ElemsEmpty DEF Init, Armed
<1>2. Armed => NoLostWakeup
  BY DEF Armed, NoLostWakeup
<1> QED BY <1>1, <1>2, TypeOKInit, TypeOKNext, ArmedNext, PTL DEF Spec

-----------------------------------------------------------------------------
(* No quit() is lost *)

LEMMA NoLostQuitNext == TypeOK /\ NoLostQuit /\ [Next]_vars => NoLostQuit'
<1> SUFFICES ASSUME TypeOK, NoLostQuit, [Next]_vars PROVE NoLostQuit'
  OBVIOUS
<1> USE DEF NoLostQuit, Waking
<1>1. CASE LoopStep
  BY <1>1 DEF LoopStep, StartLoop, CheckQuit, PollReturns, HandleRead, HandleEvent,
              SwapFunctors, RunFunctor, FunctorsDone, UserCodeReturns, Destroy
<1>2. CASE OwnerCall
  BY <1>2 DEF OwnerCall, InUserCode, OwnerQueueInLoop, OwnerRunInLoop, OwnerQuit
<1>3. ASSUME NEW t \in Threads, NEW f \in Tasks, QueueInLoop(t, f) PROVE NoLostQuit'
  BY <1>3 DEF QueueInLoop, TypeOK
<1>4. ASSUME NEW t \in Threads, Quit(t) PROVE NoLostQuit'
  BY <1>4 DEF Quit, TypeOK
<1>5. ASSUME NEW t \in Threads, Wakeup(t) PROVE NoLostQuit'
  BY <1>5 DEF Wakeup
<1>6. CASE UNCHANGED vars
  BY <1>6 DEF vars
<1> QED BY <1>1, <1>2, <1>3, <1>4, <1>5, <1>6 DEF Next, ThreadStep

\* quit() from any thread never leaves the loop blocked with nothing to wake it.
THEOREM NoQuitLost == Spec => []NoLostQuit
<1>1. Init => NoLostQuit
  BY DEF Init, NoLostQuit
<1> QED BY <1>1, TypeOKInit, TypeOKNext, NoLostQuitNext, PTL DEF Spec

-----------------------------------------------------------------------------
(* The loop implements the task queue *)

LEMMA ConcatAppend ==
  ASSUME NEW S, NEW s \in Seq(S), NEW u \in Seq(S), NEW e \in S
  PROVE  s \o Append(u, e) = Append(s \o u, e)
  OBVIOUS

LEMMA ConcatTail ==
  ASSUME NEW S, NEW s \in Seq(S), NEW u \in Seq(S), s # <<>>
  PROVE  /\ s \o u # <<>>
         /\ Head(s \o u) = Head(s)
         /\ Tail(s \o u) = Tail(s) \o u
  OBVIOUS

LEMMA ConcatEmpty ==
  ASSUME NEW S, NEW s \in Seq(S)
  PROVE  s \o <<>> = s /\ <<>> \o s = s
  OBVIOUS

\* Membership in the abstract queue is membership in one of the two vectors.
LEMMA FreshNotHanded ==
  ASSUME TypeOK, NEW f \in Tasks, Fresh(f)
  PROVE  ~ TQ!Handed(f)
<1> DEFINE q == fns \o pending
<1>1. /\ DOMAIN q = 1..(Len(fns) + Len(pending))
      /\ DOMAIN fns = 1..Len(fns) /\ DOMAIN pending = 1..Len(pending)
      /\ Len(fns) \in Nat /\ Len(pending) \in Nat
  BY DEF TypeOK
<1>2. \A i \in 1..Len(fns) : q[i] = fns[i]
  BY DEF TypeOK
<1>3. \A i \in (Len(fns) + 1)..(Len(fns) + Len(pending)) : q[i] = pending[i - Len(fns)]
  BY DEF TypeOK
<1>4. ASSUME NEW i \in DOMAIN q PROVE q[i] # f
  <2>1. CASE i \in 1..Len(fns)
    BY <1>1, <1>2, <2>1 DEF Fresh, Elems
  <2>2. CASE i \notin 1..Len(fns)
    <3>1. i - Len(fns) \in DOMAIN pending /\ q[i] = pending[i - Len(fns)]
      BY <1>1, <1>3, <1>4, <2>2
    <3> QED BY <3>1 DEF Fresh, Elems
  <2> QED BY <2>1, <2>2
<1>5. \A i \in DOMAIN ran : ran[i] # f
  BY DEF Fresh, Elems
<1> QED BY <1>4, <1>5 DEF TQ!Handed

LEMMA StepRefines == TypeOK /\ [Next]_vars => [TQ!Next]_(TQ!vars)
<1> SUFFICES ASSUME TypeOK, [Next]_vars PROVE [TQ!Next]_(TQ!vars)
  OBVIOUS
<1> DEFINE Stutter == /\ (fns \o pending)' = fns \o pending
                      /\ ran' = ran
                      /\ Stopped' = Stopped
<1>0. Stutter => UNCHANGED TQ!vars
  BY DEF TQ!vars
<1>1. CASE StartLoop
  BY <1>1, <1>0 DEF StartLoop, Stopped
<1>2. CASE CheckQuit
  <2>1. CASE quit
    <3>1. TQ!Stop
      BY <1>2, <2>1 DEF CheckQuit, Stopped, TQ!Stop
    <3> QED BY <3>1 DEF TQ!Next
  <2>2. CASE ~ quit
    BY <1>2, <2>2, <1>0 DEF CheckQuit, Stopped
  <2> QED BY <2>1, <2>2
<1>3. ASSUME NEW io \in SUBSET {"io"}, PollReturns(io) PROVE Stutter
  BY <1>3 DEF PollReturns, Stopped
<1>4. CASE HandleRead
  BY <1>4, <1>0 DEF HandleRead, Stopped
<1>5. CASE HandleEvent
  BY <1>5, <1>0 DEF HandleEvent, Stopped
<1>6. CASE SwapFunctors
  <2>1. fns = <<>>
    BY <1>6 DEF SwapFunctors, TypeOK
  <2>2. (fns \o pending)' = fns \o pending
    BY <1>6, <2>1, ConcatEmpty DEF SwapFunctors, TypeOK
  <2> QED BY <1>6, <2>2, <1>0 DEF SwapFunctors, Stopped
<1>7. CASE RunFunctor
  <2>1. /\ fns \o pending # <<>>
        /\ Head(fns \o pending) = Head(fns)
        /\ Tail(fns \o pending) = Tail(fns) \o pending
    BY <1>7, ConcatTail DEF RunFunctor, TypeOK
  <2>2. TQ!Execute
    BY <1>7, <2>1 DEF RunFunctor, Stopped, TQ!Execute
  <2> QED BY <2>2 DEF TQ!Next
<1>8. CASE FunctorsDone
  BY <1>8, <1>0 DEF FunctorsDone, Stopped
<1>9. CASE UserCodeReturns
  BY <1>9, <1>0 DEF UserCodeReturns, Stopped
<1>10. CASE Destroy
  <2>1. fns = <<>>
    BY <1>10 DEF Destroy, TypeOK
  <2>2. (fns \o pending)' = <<>>
    BY <1>10, <2>1 DEF Destroy
  <2>3. TQ!Drop
    BY <1>10, <2>2 DEF Destroy, Stopped, TQ!Drop
  <2> QED BY <2>3 DEF TQ!Next
<1>11. ASSUME NEW f \in Tasks, OwnerQueueInLoop(f) PROVE TQ!Next
  <2>1. (fns \o pending)' = Append(fns \o pending, f)
    BY <1>11, ConcatAppend DEF OwnerQueueInLoop, TypeOK
  <2>2. TQ!Submit(f)
    BY <1>11, <2>1, FreshNotHanded DEF OwnerQueueInLoop, Stopped, TQ!Submit
  <2> QED BY <2>2 DEF TQ!Next
<1>12. ASSUME NEW f \in Tasks, OwnerRunInLoop(f) PROVE TQ!Next
  <2>1. TQ!RunNow(f)
    BY <1>12, FreshNotHanded DEF OwnerRunInLoop, InUserCode, Stopped, TQ!RunNow
  <2> QED BY <2>1 DEF TQ!Next
<1>13. CASE OwnerQuit
  BY <1>13, <1>0 DEF OwnerQuit, Stopped
<1>14. ASSUME NEW t \in Threads, NEW f \in Tasks, QueueInLoop(t, f) PROVE TQ!Next
  <2>1. (fns \o pending)' = Append(fns \o pending, f)
    BY <1>14, ConcatAppend DEF QueueInLoop, TypeOK
  <2>2. TQ!Submit(f)
    BY <1>14, <2>1, FreshNotHanded DEF QueueInLoop, Stopped, TQ!Submit
  <2> QED BY <2>2 DEF TQ!Next
<1>15. ASSUME NEW t \in Threads, Quit(t) PROVE Stutter
  BY <1>15 DEF Quit, Stopped
<1>16. ASSUME NEW t \in Threads, Wakeup(t) PROVE Stutter
  BY <1>16 DEF Wakeup, Stopped
<1>17. CASE UNCHANGED vars
  BY <1>17, <1>0 DEF vars, Stopped
<1> HIDE DEF Stutter
<1> QED
  BY <1>0, <1>1, <1>2, <1>3, <1>4, <1>5, <1>6, <1>7, <1>8, <1>9, <1>10, <1>11, <1>12,
     <1>13, <1>14, <1>15, <1>16, <1>17
     DEF Next, LoopStep, OwnerCall, ThreadStep

\* Every behaviour of the loop, with its two vectors, its swap and its wakeups,
\* is a behaviour of the FIFO task queue its clients rely on.
THEOREM ImplementsTaskQueue == Spec => IsTaskQueue
<1>1. Init => TQ!Init
  BY ConcatEmpty DEF Init, TQ!Init, Stopped
<1> QED BY <1>1, TypeOKInit, TypeOKNext, StepRefines, PTL DEF Spec, IsTaskQueue, TQ!Spec

-----------------------------------------------------------------------------
(* EventLoopThread *)

\* Where Main is says what it knows of the new thread: startLoop() returns a loop
\* that is there, and ~EventLoopThread has told it to quit when it joins.
ThreadInv ==
  /\ mpc \in {"new", "locked", "waiting", "using", "exiting", "quitting", "joining", "joined"}
  /\ published \in BOOLEAN
  /\ mpc \in {"using", "exiting", "quitting", "joining", "joined"} => published
  /\ lpc # "init" => published
  /\ mpc \in {"quitting", "joining"} => quit \/ lpc = "destroyed"
  /\ mpc = "quitting" => tpc[Main] = "quitSet"
  /\ mpc = "exiting" => ~ Waking

\* A step of the two threads is one of the loop and its clients, leaves the loop
\* alone, or is the first half of the destructor's quit().
LEMMA ThreadStepIsLoopStep ==
  ASSUME [ThreadNext]_tvars
  PROVE  [Next]_vars \/ DtorQuit
<1>1. CASE CheckPublished \/ CreateThread \/ Publish \/ BeginDestroy \/ Join \/ UNCHANGED tvars
  BY <1>1 DEF CheckPublished, CreateThread, Publish, BeginDestroy, Join, tvars
<1>2. CASE InThread
  BY <1>2 DEF InThread, Next, LoopStep
<1>3. ASSUME NEW t \in Threads, ClientCall(t) PROVE Next
  BY <1>3 DEF ClientCall, Next
<1>4. CASE DtorWakeup
  BY <1>4, MainIsThread DEF DtorWakeup, Next, ThreadStep
<1> QED BY <1>1, <1>2, <1>3, <1>4 DEF ThreadNext

LEMMA DtorQuitKeeps ==
  ASSUME TypeOK, DtorQuit
  PROVE  TypeOK' /\ (Armed => Armed') /\ NoLostQuit'
<1>1. TypeOK'
  BY MainIsThread DEF TypeOK, DtorQuit
<1>2. Waking'
  BY MainIsThread DEF TypeOK, DtorQuit, Waking
<1> QED BY <1>1, <1>2 DEF Armed, NoLostQuit

LEMMA ThreadTypeNext == TypeOK /\ [ThreadNext]_tvars => TypeOK'
  BY ThreadStepIsLoopStep, DtorQuitKeeps, TypeOKNext

LEMMA ThreadArmedNext == TypeOK /\ Armed /\ [ThreadNext]_tvars => Armed'
  BY ThreadStepIsLoopStep, DtorQuitKeeps, ArmedNext

LEMMA ThreadNoLostQuitNext == TypeOK /\ NoLostQuit /\ [ThreadNext]_tvars => NoLostQuit'
  BY ThreadStepIsLoopStep, DtorQuitKeeps, NoLostQuitNext

\* The loop of an EventLoopThread loses no wakeup, from its initialisation callback
\* to the end of the thread.
THEOREM ThreadLosesNoWakeup == ThreadSpec => []NoLostWakeup
<1>1. ThreadInit => TypeOK /\ Armed
  BY TypeOKInit, ElemsEmpty DEF ThreadInit, Init, Armed
<1>2. Armed => NoLostWakeup
  BY DEF Armed, NoLostWakeup
<1> QED BY <1>1, <1>2, ThreadTypeNext, ThreadArmedNext, PTL DEF ThreadSpec

\* Nor a quit(), that of ~EventLoopThread included.
THEOREM ThreadLosesNoQuit == ThreadSpec => []NoLostQuit
<1>1. ThreadInit => TypeOK /\ NoLostQuit
  BY TypeOKInit DEF ThreadInit, Init, NoLostQuit
<1> QED BY <1>1, ThreadTypeNext, ThreadNoLostQuitNext, PTL DEF ThreadSpec

\* The thread runs the functors of its clients in the order they were queued, each
\* once, whatever startLoop() and the destructor do.
THEOREM ThreadImplementsTaskQueue == ThreadSpec => IsTaskQueue
<1>1. ThreadInit => TypeOK /\ TQ!Init
  BY TypeOKInit, ConcatEmpty DEF ThreadInit, Init, TQ!Init, Stopped
<1>2. TypeOK /\ [ThreadNext]_tvars => [TQ!Next]_(TQ!vars)
  <2> SUFFICES ASSUME TypeOK, [ThreadNext]_tvars PROVE [TQ!Next]_(TQ!vars)
    OBVIOUS
  <2>1. CASE [Next]_vars
    BY <2>1, StepRefines
  <2>2. CASE DtorQuit
    BY <2>2 DEF DtorQuit, Stopped, TQ!vars
  <2> QED BY <2>1, <2>2, ThreadStepIsLoopStep
<1> QED BY <1>1, <1>2, ThreadTypeNext, PTL DEF ThreadSpec, IsTaskQueue, TQ!Spec

\* startLoop() does not sleep through the publication of the loop.
THEOREM NoNotifyLost == ThreadSpec => []NoLostNotify
<1>1. ThreadInit => NoLostNotify
  BY DEF ThreadInit, NoLostNotify
<1>2. NoLostNotify /\ [ThreadNext]_tvars => NoLostNotify'
  BY DEF NoLostNotify, ThreadNext, tvars, CheckPublished, CreateThread, Publish,
         BeginDestroy, Join, InThread, ClientCall, DtorWakeup, DtorQuit
<1> QED BY <1>1, <1>2, PTL DEF ThreadSpec

-----------------------------------------------------------------------------
(* The object: its loop_ and its thread *)

LEMMA ThreadInvNext == TypeOK /\ ThreadInv /\ [ThreadNext]_tvars => ThreadInv'
<1> SUFFICES ASSUME TypeOK, ThreadInv, [ThreadNext]_tvars PROVE ThreadInv'
  OBVIOUS
<1> USE DEF ThreadInv, Waking
<1>1. CASE CreateThread \/ CheckPublished \/ Publish \/ BeginDestroy \/ Join
  BY <1>1 DEF CreateThread, CheckPublished, Publish, BeginDestroy, Join, vars
<1>2. CASE InThread
  <2>1. CASE StartLoop /\ published
    BY <1>2, <2>1 DEF InThread, StartLoop
  <2>2. CASE LoopStep /\ lpc # "init"
    BY <1>2, <2>2 DEF InThread, LoopStep, StartLoop, CheckQuit, PollReturns, HandleRead,
          HandleEvent, SwapFunctors, RunFunctor, FunctorsDone, UserCodeReturns, Destroy
  <2>3. CASE OwnerCall
    BY <1>2, <2>3 DEF InThread, OwnerCall, OwnerQueueInLoop, OwnerRunInLoop, OwnerQuit
  <2> QED BY <1>2, <2>1, <2>2, <2>3 DEF InThread
<1>3. ASSUME NEW t \in Threads, ClientCall(t) PROVE ThreadInv'
  BY <1>3 DEF ClientCall, ThreadStep, QueueInLoop, Quit, Wakeup
<1>4. CASE DtorQuit
  BY <1>4, MainIsThread DEF DtorQuit, TypeOK
<1>5. CASE DtorWakeup
  BY <1>5 DEF DtorWakeup, Wakeup
<1>6. CASE UNCHANGED tvars
  BY <1>6 DEF tvars, vars
<1> QED BY <1>1, <1>2, <1>3, <1>4, <1>5, <1>6 DEF ThreadNext

\* Of ~EventLoopThread: the loop it joins has been told to quit, and is not asleep without
\* a wakeup under way.
JoinIsAnswered == mpc = "joining" /\ lpc # "destroyed" => quit /\ (lpc = "poll" => wake \/ Waking)

\* join() never waits for a loop that has not been told to quit, nor for one that was
\* told but sleeps: wherever the thread was when the destructor came, in its
\* callback, in epoll_wait or already gone.
THEOREM DestructorIsAnswered == ThreadSpec => []JoinIsAnswered
<1>1. ThreadInit => TypeOK /\ ThreadInv /\ NoLostQuit
  BY TypeOKInit DEF ThreadInit, Init, ThreadInv, NoLostQuit
<1>2. ThreadInv /\ NoLostQuit => JoinIsAnswered
  BY DEF ThreadInv, NoLostQuit, JoinIsAnswered
<1> QED BY <1>1, <1>2, ThreadTypeNext, ThreadInvNext, ThreadNoLostQuitNext, PTL DEF ThreadSpec
=============================================================================
