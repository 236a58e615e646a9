-------------------------- MODULE EventLoopThread --------------------------
(***************************************************************************)
(* lotus::net::EventLoopThread: a thread whose stack holds an EventLoop.   *)
(* startLoop() creates the thread and waits on a condition variable until  *)
(* the thread has published the address of its loop; the destructor calls  *)
(* quit() through that address and joins the thread.  The loop and its     *)
(* clients are module EventLoop, whose "owner" is the new thread.          *)
(***************************************************************************)
EXTENDS EventLoop

CONSTANT Main               \* the thread that starts and destroys the object

ASSUME MainIsThread == Main \in Threads

VARIABLES mpc,              \* where Main is in startLoop() or ~EventLoopThread()
          published         \* loop_ is not NULL

tvars == <<vars, mpc, published>>

ThreadInit == Init /\ mpc = "new" /\ published = FALSE

\* startLoop(): thread_ = std::thread(&EventLoopThread::threadFunc, this)
CreateThread == /\ mpc = "new"
                /\ mpc' = "locked"
                /\ UNCHANGED <<vars, published>>

\* Mutant: startLoop() waits without looking at loop_ first.
WaitFirst == /\ mpc = "locked"
             /\ mpc' = "waiting"
             /\ UNCHANGED <<vars, published>>

\* The body of "while (loop_ == NULL) cond_.wait(lock)", under mutex_.
CheckPublished == /\ mpc = "locked"
                  /\ mpc' = IF published THEN "using" ELSE "waiting"
                  /\ UNCHANGED <<vars, published>>

\* Mutant: threadFunc publishes without notify_one.
PublishSilently == /\ mpc # "new"
                   /\ lpc = "init"
                   /\ ~ published
                   /\ published' = TRUE
                   /\ UNCHANGED <<vars, mpc>>

\* threadFunc: loop_ = &loop and notify_one, under mutex_, after callback_.
Publish == /\ mpc # "new"
           /\ lpc = "init"
           /\ ~ published
           /\ published' = TRUE
           /\ mpc' = IF mpc = "waiting" THEN "locked" ELSE mpc
           /\ UNCHANGED vars

\* What the new thread does besides: the calls of callback_ before Publish, then
\* loop(), and the destruction of the EventLoop on its stack as threadFunc ends.
InThread == /\ mpc # "new"
            /\ \/ StartLoop /\ published
               \/ LoopStep /\ lpc # "init"
               \/ OwnerCall /\ (lpc = "init" => ~ published)
            /\ UNCHANGED <<mpc, published>>

\* The threads that were given the loop's address use it until ~EventLoopThread;
\* a call under way then is finished first (the owner of the object sees to it).
ClientCall(t) == /\ mpc = "using"
                 /\ ThreadStep(t)
                 /\ UNCHANGED <<mpc, published>>

-----------------------------------------------------------------------------
(* ~EventLoopThread *)

BeginDestroy == /\ mpc = "using"
                /\ ~ Waking
                /\ mpc' = "exiting"
                /\ UNCHANGED <<vars, published>>

\* loop_->quit(), first half.  Through a dangling loop_ the write goes to the
\* stack of a thread that has ended, where no loop reads it.
DtorQuit == /\ mpc = "exiting"
            /\ quit' = (quit \/ lpc # "destroyed")
            /\ tpc' = [tpc EXCEPT ![Main] = "quitSet"]
            /\ mpc' = "quitting"
            /\ UNCHANGED <<lpc, pending, fns, calling, wake, active, ran, early, published>>

DtorWakeup == /\ mpc = "quitting"
              /\ Wakeup(Main)
              /\ mpc' = "joining"
              /\ UNCHANGED published

Join == /\ mpc = "joining"
        /\ lpc = "destroyed"
        /\ mpc' = "joined"
        /\ UNCHANGED <<vars, published>>

-----------------------------------------------------------------------------
ThreadNext == \/ CreateThread
              \/ CheckPublished
              \/ Publish
              \/ InThread
              \/ \E t \in Threads : ClientCall(t)
              \/ BeginDestroy
              \/ DtorQuit
              \/ DtorWakeup
              \/ Join

\* Both threads are scheduled, and callback_, callbacks and functors return.
ThreadFairness ==
  /\ WF_tvars(CheckPublished \/ DtorQuit \/ DtorWakeup \/ Join)
  /\ WF_tvars(Publish \/ (InThread /\ (StartLoop \/ LoopProgress \/ Destroy)))
  /\ \A t \in Threads : WF_tvars(ClientCall(t) /\ Wakeup(t))

ThreadSpec == ThreadInit /\ [][ThreadNext]_tvars /\ ThreadFairness

-----------------------------------------------------------------------------
\* startLoop() never sleeps through the publication of the loop: a thread that
\* waits on cond_ still has a notify_one coming.
NoLostNotify == mpc = "waiting" => ~ published

\* startLoop() returns, and returns a loop, even if the initialisation callback
\* itself calls quit() or queues functors.
StartReturns == (mpc = "locked") ~> (mpc = "using")

\* ~EventLoopThread() returns: the quit() it makes, or one made earlier by a
\* callback or another thread, ends the thread it joins, wherever that thread is.
JoinReturns == (mpc = "exiting") ~> (mpc = "joined")
=============================================================================
