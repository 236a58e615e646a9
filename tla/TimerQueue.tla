----------------------------- MODULE TimerQueue -----------------------------
(***************************************************************************)
(* lotus::net::TimerQueue and Timer: timers in a heap keyed by expiration, *)
(* one timerfd armed for the earliest of them.  The loop's thread adds,    *)
(* cancels and runs timers; another thread's addTimer and cancel are       *)
(* functors of the loop (module EventLoop), here the queue ops.            *)
(*                                                                         *)
(* A Timer is an object at an address; a freed address may be allocated    *)
(* again.  A TimerId is the address and the sequence number, of which      *)
(* cancelInLoop uses the address only.  Time is a discrete clock that may  *)
(* advance between any two steps.                                          *)
(***************************************************************************)
EXTENDS TimerHeap, FiniteSets

CONSTANTS Addr,             \* addresses the allocator hands out
          MaxTimers,        \* bound: timers created
          MaxTime,          \* bound: the clock stops there
          Delays,           \* delays passed to runAfter and runEvery
          Intervals         \* intervals; 0 is a one-shot timer

ASSUME TimerConstants == /\ MaxTimers \in Nat /\ MaxTime \in Nat
                         /\ Delays \subseteq Nat /\ Intervals \subseteq Nat

VARIABLES now,              \* the clock
          deadline,         \* timerfd: the time it is armed for, 0 when disarmed
          heap,             \* heap_
          timer,            \* [Addr -> the Timer object last put there]
          live,             \* addresses allocated and not deleted
          lpc,              \* where the loop's thread is
          reported,         \* the timerfd's channel is in activeChannels_
          expired,          \* handleRead's local vector
          started,          \* how many of them have been called back
          readAt,           \* handleRead's local now
          canceling,        \* cancelingTimers_
          ops,              \* functors queued by other threads
          returning,        \* ids another thread's addTimer is about to return
          ids,              \* TimerIds clients hold
          seq,              \* Timer::id
          asked,            \* history: sequence numbers clients asked to cancel
          cancelled,        \* history: those whose cancellation took effect
          missed,           \* history: the last timerfd_settime came too late
          bad               \* history: where freed memory was read

tq == <<heap, timer, live>>
batch == <<expired, started, readAt, canceling>>
clients == <<ops, returning, ids, seq, asked>>
vars == <<now, deadline, tq, lpc, reported, batch, clients, cancelled, missed, bad>>

callingExpired == lpc = "expired"
Repeats(a) == timer[a].interval > 0
Refers(id) == id.timer \in live /\ timer[id.timer].seq = id.seq
Readable == deadline # 0 /\ deadline <= now
UserCode == lpc \in {"handle", "functors"} \/ (callingExpired /\ started > 0)

-----------------------------------------------------------------------------
(* Helpers of TimerQueue, on the values they change *)

\* A relative it_value: zero disarms, a negative one is refused (EINVAL) and
\* leaves the timerfd as it was.
resetTimerfd(when) == /\ deadline' = IF when > now THEN when
                                     ELSE IF when = now THEN 0 ELSE deadline
                      /\ missed' = (when <= now)

\* heapIndex_ after the heap changed from h to g.
Reindex(tm, h, g) ==
  [a \in Addr |-> IF \E p \in Moved(h, g) : g[p].timer = a
                    THEN [tm[a] EXCEPT !.index = (CHOOSE p \in Moved(h, g) : g[p].timer = a) - 1]
                    ELSE tm[a]]

\* The one element of a singleton: binds an intermediate value to a name.
The(S) == CHOOSE x \in S : TRUE

insert(h, tm, a) ==
  The({[heap |-> g, timer |-> Reindex(tm, h, g)] :
         g \in {Insert(h, [exp |-> tm[a].exp, timer |-> a])}})

\* Mutant: heapIndex_ is not set to -1.
removeTimerKeepsIndex(h, tm, a) ==
  The({[heap |-> g, timer |-> Reindex(tm, h, g)] :
         g \in {IF tm[a].index + 1 \in DOMAIN h THEN Remove(h, tm[a].index + 1) ELSE h}})

removeTimer(h, tm, a) ==
  The({[heap |-> g, timer |-> [Reindex(tm, h, g) EXCEPT ![a].index = -1]] :
         g \in {IF tm[a].index + 1 \in DOMAIN h THEN Remove(h, tm[a].index + 1) ELSE h}})

\* new Timer(cb, when, interval)
Allocate(a, d, iv) == /\ a \notin live
                      /\ seq < MaxTimers
                      /\ seq' = seq + 1
                      /\ live' = live \cup {a}

NewTimer(d, iv) == [seq |-> seq + 1, exp |-> now + d, interval |-> iv, index |-> -1]

addTimerInLoop(tm, a) ==
  /\ \E r \in {insert(heap, tm, a)} : heap' = r.heap /\ timer' = r.timer
  /\ IF heap = <<>> \/ tm[a].exp < heap[1].exp
       THEN resetTimerfd(tm[a].exp)
       ELSE UNCHANGED <<deadline, missed>>

cancelInLoop(id) ==
  LET a == id.timer IN
  /\ bad' = IF Refers(id) THEN bad ELSE bad \cup {"cancel"}
  /\ \/ /\ a \notin live
        /\ UNCHANGED <<tq, canceling, cancelled>>
     \/ /\ a \in live
        /\ timer[a].index >= 0
        /\ \E r \in {removeTimer(heap, timer, a)} : heap' = r.heap /\ timer' = r.timer
        /\ live' = live \ {a}
        /\ cancelled' = cancelled \cup {timer[a].seq}
        /\ UNCHANGED canceling
     \/ /\ a \in live
        /\ timer[a].index < 0
        /\ callingExpired
        /\ canceling' = canceling \cup {a}
        /\ cancelled' = IF \E i \in DOMAIN expired : expired[i] = a
                          THEN cancelled \cup {timer[a].seq} ELSE cancelled
        /\ UNCHANGED tq
     \/ /\ a \in live
        /\ timer[a].index < 0
        /\ ~ callingExpired
        /\ UNCHANGED <<tq, canceling, cancelled>>

\* A careful client cancels an id once, and only while the timer exists; from
\* another thread, where it may be gone by then, only a repeating timer.
MayCancel(id) == Refers(id) /\ id.seq \notin asked

-----------------------------------------------------------------------------
Init == /\ now = 1
        /\ deadline = 0
        /\ heap = <<>>
        /\ timer = [a \in Addr |-> [seq |-> 0, exp |-> 0, interval |-> 0, index |-> -1]]
        /\ live = {}
        /\ lpc = "poll"
        /\ reported = FALSE
        /\ expired = <<>> /\ started = 0 /\ readAt = 0 /\ canceling = {}
        /\ ops = <<>> /\ returning = {} /\ ids = {} /\ seq = 0 /\ asked = {}
        /\ cancelled = {} /\ missed = FALSE /\ bad = {}

Tick == /\ now < MaxTime
        /\ now' = now + 1
        /\ UNCHANGED <<deadline, tq, lpc, reported, batch, clients, cancelled, missed, bad>>

\* epoll_wait returns, for the timerfd or for another channel.
Poll == /\ lpc = "poll"
        /\ lpc' = "handle"
        /\ reported' = Readable
        /\ UNCHANGED <<now, deadline, tq, batch, clients, cancelled, missed, bad>>

\* getExpired: the queue after popping from heap_[0] while it has expired.
PopFirst(s) ==
  IF s.heap = <<>> \/ s.heap[1].exp > now THEN s
  ELSE The({[heap |-> r.heap, timer |-> r.timer, out |-> Append(s.out, s.heap[1].timer)] :
              r \in {removeTimer(s.heap, s.timer, s.heap[1].timer)}})

getExpired ==
  LET pop[n \in 0..Len(heap)] ==
        IF n = 0 THEN [heap |-> heap, timer |-> timer, out |-> <<>>]
        ELSE The({PopFirst(s) : s \in {pop[n - 1]}})
  IN  pop[Len(heap)]

\* handleRead up to its callbacks.  Reading the timerfd disarms it if it has
\* expired; a callback run before may have armed it anew, the read then fails.
HandleRead == /\ lpc = "handle"
              /\ reported
              /\ reported' = FALSE
              /\ deadline' = IF Readable THEN 0 ELSE deadline
              /\ readAt' = now
              /\ \E s \in {getExpired} : /\ expired' = s.out
                                       /\ heap' = s.heap
                                       /\ timer' = s.timer
              /\ started' = 0
              /\ canceling' = {}
              /\ lpc' = "expired"
              /\ UNCHANGED <<now, live, clients, cancelled, missed, bad>>

RunTimer == /\ lpc = "expired"
            /\ started < Len(expired)
            /\ started' = started + 1
            /\ UNCHANGED <<now, deadline, tq, lpc, reported, expired, readAt, canceling,
                           clients, cancelled, missed, bad>>

\* Mutant: reset() does not look at cancelingTimers_.
RestartedAll == {a \in {expired[i] : i \in DOMAIN expired} : Repeats(a)}

\* Mutant: reset() takes the cancelled timers for the ones to restart.
RestartedInverted == {a \in {expired[i] : i \in DOMAIN expired} : Repeats(a) /\ a \in canceling}

\* reset(): each expired timer in turn is restarted and inserted, or deleted.
Restarted == {a \in {expired[i] : i \in DOMAIN expired} : Repeats(a) /\ a \notin canceling}

Reinserted(s, a) ==
  IF a \notin Restarted THEN s
  ELSE insert(s.heap, [s.timer EXCEPT ![a].exp = readAt + s.timer[a].interval], a)

Reinsert ==
  LET ins[n \in 0..Len(expired)] ==
        IF n = 0 THEN [heap |-> heap, timer |-> timer]
        ELSE The({Reinserted(s, expired[n]) : s \in {ins[n - 1]}})
  IN  ins[Len(expired)]

\* Mutant: reset() does not delete.
ResetLeaks == /\ lpc = "expired"
              /\ started = Len(expired)
              /\ \E s \in {Reinsert} :
                   /\ heap' = s.heap /\ timer' = s.timer
                   /\ IF s.heap # <<>> THEN resetTimerfd(s.timer[s.heap[1].timer].exp)
                                       ELSE UNCHANGED <<deadline, missed>>
              /\ lpc' = "handle" /\ expired' = <<>> /\ started' = 0
              /\ UNCHANGED <<now, live, reported, readAt, canceling, clients, cancelled, bad>>

\* Mutant: reset() does not arm the timerfd again.
ResetUnarmed == /\ lpc = "expired"
                /\ started = Len(expired)
                /\ \E s \in {Reinsert} : heap' = s.heap /\ timer' = s.timer
                /\ live' = live \ ({expired[i] : i \in DOMAIN expired} \ Restarted)
                /\ lpc' = "handle" /\ expired' = <<>> /\ started' = 0
                /\ UNCHANGED <<now, deadline, missed, reported, readAt, canceling, clients,
                               cancelled, bad>>

Reset == /\ lpc = "expired"
         /\ started = Len(expired)
         /\ \E s \in {Reinsert} :
              /\ heap' = s.heap
              /\ timer' = s.timer
              /\ IF s.heap # <<>> THEN resetTimerfd(s.timer[s.heap[1].timer].exp)
                                  ELSE UNCHANGED <<deadline, missed>>
         /\ live' = live \ ({expired[i] : i \in DOMAIN expired} \ Restarted)
         /\ lpc' = "handle"
         /\ expired' = <<>>
         /\ started' = 0
         /\ UNCHANGED <<now, reported, readAt, canceling, clients, cancelled, bad>>

HandlersDone == /\ lpc = "handle"
                /\ ~ reported
                /\ lpc' = "functors"
                /\ UNCHANGED <<now, deadline, tq, reported, batch, clients, cancelled, missed, bad>>

RunOp == /\ lpc = "functors"
         /\ ops # <<>>
         /\ ops' = Tail(ops)
         /\ \/ /\ Head(ops).op = "add"
               /\ addTimerInLoop(timer, Head(ops).id.timer)
               /\ UNCHANGED <<live, canceling, cancelled, bad>>
            \/ /\ Head(ops).op = "cancel"
               /\ cancelInLoop(Head(ops).id)
               /\ UNCHANGED <<deadline, missed>>
         /\ UNCHANGED <<now, lpc, reported, expired, started, readAt, returning, ids, seq, asked>>

FunctorsDone == /\ lpc = "functors"
                /\ ops = <<>>
                /\ lpc' = "poll"
                /\ UNCHANGED <<now, deadline, tq, reported, batch, clients, cancelled, missed, bad>>

\* ~TimerQueue, with its EventLoop, after loop() returned: the timers in the heap are
\* deleted, those that functors were still to add are not.
Destroy == /\ lpc = "poll"
           /\ lpc' = "destroyed"
           /\ live' = {a \in live : ~ \E p \in DOMAIN heap : heap[p].timer = a}
           /\ heap' = <<>>
           /\ deadline' = 0
           /\ UNCHANGED <<now, timer, reported, batch, clients, cancelled, missed, bad>>

-----------------------------------------------------------------------------
(* Calls from callbacks and functors on the loop's thread *)

LoopAdd(a, d, iv) ==
  /\ UserCode
  /\ Allocate(a, d, iv)
  /\ addTimerInLoop([timer EXCEPT ![a] = NewTimer(d, iv)], a)
  /\ ids' = ids \cup {[timer |-> a, seq |-> seq + 1]}
  /\ UNCHANGED <<now, lpc, reported, batch, ops, returning, asked, cancelled, bad>>

LoopCancel(id) ==
  /\ UserCode
  /\ MayCancel(id)
  /\ cancelInLoop(id)
  /\ asked' = asked \cup {id.seq}
  /\ UNCHANGED <<now, deadline, lpc, reported, expired, started, readAt, ops, returning,
                 ids, seq, missed>>

(* Calls from another thread: the functor is queued, and addTimer then reads   *)
(* the sequence number of a Timer that is no longer its own.                   *)

OtherAdd(a, d, iv) ==
  /\ lpc # "destroyed"
  /\ Allocate(a, d, iv)
  /\ timer' = [timer EXCEPT ![a] = NewTimer(d, iv)]
  /\ ops' = Append(ops, [op |-> "add", id |-> [timer |-> a, seq |-> seq + 1]])
  /\ returning' = returning \cup {[timer |-> a, seq |-> seq + 1]}
  /\ UNCHANGED <<now, deadline, heap, lpc, reported, batch, ids, asked, cancelled, missed, bad>>

OtherReturns(id) ==
  /\ returning' = returning \ {id}
  /\ bad' = IF Refers(id) THEN bad ELSE bad \cup {"addTimer"}
  /\ ids' = ids \cup {id}
  /\ UNCHANGED <<now, deadline, tq, lpc, reported, batch, ops, seq, asked, cancelled, missed>>

OtherCancel(id) ==
  /\ lpc # "destroyed"
  /\ MayCancel(id)
  /\ Repeats(id.timer)
  /\ ops' = Append(ops, [op |-> "cancel", id |-> id])
  /\ asked' = asked \cup {id.seq}
  /\ UNCHANGED <<now, deadline, tq, lpc, reported, batch, returning, ids, seq,
                 cancelled, missed, bad>>

-----------------------------------------------------------------------------
LoopStep == Poll \/ HandleRead \/ RunTimer \/ Reset \/ HandlersDone \/ RunOp \/ FunctorsDone

Next == \/ Tick
        \/ LoopStep
        \/ Destroy
        \/ \E a \in Addr, d \in Delays, iv \in Intervals : LoopAdd(a, d, iv) \/ OtherAdd(a, d, iv)
        \/ \E id \in ids : LoopCancel(id) \/ OtherCancel(id)
        \/ \E id \in returning : OtherReturns(id)

\* Time passes, and the loop's thread is scheduled while it is not blocked.
Fairness == /\ WF_vars(Tick)
            /\ WF_vars(LoopStep /\ (lpc = "poll" => Readable \/ ops # <<>>))

Spec == Init /\ [][Next]_vars /\ Fairness

-----------------------------------------------------------------------------
InHeap(a) == \E p \in DOMAIN heap : heap[p].timer = a

\* The heap is ordered, its entries agree with the timers they point to, and
\* heapIndex_ is where the timer's entry is, -1 when it has none; through adds,
\* cancels and restarts in any order, also from inside the callbacks.
HeapConsistent ==
  /\ IsHeap(heap)
  /\ \A p \in DOMAIN heap :
        LET a == heap[p].timer
        IN  a \in live /\ timer[a].index = p - 1 /\ timer[a].exp = heap[p].exp
  /\ \A a \in live : ~ InHeap(a) => timer[a].index = -1

\* No timer is lost or leaked: one that exists is in the heap, in the batch being
\* called back, or in a functor that will add it (and is dropped, the timer with it,
\* only when the loop itself is destroyed).
NoTimerLost ==
  \A a \in live : \/ InHeap(a)
                  \/ \E i \in DOMAIN expired : expired[i] = a
                  \/ \E i \in DOMAIN ops : ops[i].op = "add" /\ ops[i].id.timer = a

\* With clients that cancel a timer once and only while it exists, cancelInLoop
\* never touches a freed timer or another timer at the same address.  (addTimer,
\* called by another thread, may: it reads the sequence number after queueing.)
NoUseAfterFree == bad \subseteq {"addTimer"}

\* A cancellation that took effect is final: the timer is never in the heap again,
\* in particular reset() does not restart one cancelled by a callback of its batch.
CancelIsFinal == \A p \in DOMAIN heap : timer[heap[p].timer].seq \notin cancelled

\* A timer in the heap is called back at its time or cancelled, unless that happened
\* or the loop is destroyed first.
DueTimerRuns ==
  \A s \in 1..MaxTimers, e \in 1..MaxTime :
     (\E p \in DOMAIN heap : heap[p].exp = e /\ timer[heap[p].timer].seq = s)
       ~> (missed \/ ~ \E p \in DOMAIN heap : heap[p].exp = e /\ timer[heap[p].timer].seq = s)

\* The comment on resetTimerfd, and at its two calls: it sets the timerfd to the
\* expiration of the earliest timer.
ArmedForEarliest ==
  lpc # "expired" /\ ~ reported /\ heap # <<>> => deadline # 0
=============================================================================
