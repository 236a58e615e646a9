--------------------------- MODULE TcpConnection ---------------------------
(***************************************************************************)
(* lotus::net::TcpConnection with its Channel, the part of TcpServer that  *)
(* owns it, and the kernel's end of the socket: one accepted connection    *)
(* from the moment TcpServer::newConnection has built it until it is gone. *)
(*                                                                         *)
(* The connection lives on an I/O loop; the server's map lives on the base *)
(* loop, the same one (sameLoop) or another thread's.  A worker thread may *)
(* hold a TcpConnectionPtr, send on it and shut it down.  Loops follow     *)
(* module EventLoop: epoll_wait, the channel's callbacks, then the functors*)
(* swapped out of the pending vector, which keeps them (and the pointers   *)
(* bound in them) until the whole batch has run.                           *)
(*                                                                         *)
(* A message is a few units of data, of which the kernel takes a prefix.   *)
(* A failed assert (asserts are on in the default build) is recorded and   *)
(* ends the process; so does a write to a broken socket, by SIGPIPE, which *)
(* nothing in the library handles, unless the application ignores it.      *)
(***************************************************************************)
EXTENDS Naturals, Sequences

CONSTANTS MaxCalls,         \* bound: send() calls, and shutdown() of the worker
          Sizes,            \* units a message may have
          MaxIn,            \* bound: data arriving from the peer
          Cap,              \* units the kernel's send buffer holds
          HighWaterMark,    \* highWaterMark_, in units; its callback is set
          Ignored           \* {"SIGPIPE"} if the application ignores it, or {}

ASSUME TcpConstants == /\ MaxCalls \in Nat /\ Sizes \subseteq Nat \ {0} /\ MaxIn \in Nat /\ Cap \in Nat
                       /\ HighWaterMark \in Nat
                       /\ Ignored \subseteq {"SIGPIPE"}

VARIABLES
  sameLoop,                 \* the I/O loop is the base loop
  baseUp,                   \* the TcpServer exists and its base loop runs
  inMap,                    \* connections_ has the connection
  baseQ,                    \* removeConnectionInLoop functors on another base loop
  lpc,                      \* where the I/O loop's thread is
  pend,                     \* its pendingFunctors_
  fns,                      \* doPendingFunctors' local vector
  fnext,                    \* how many of fns have run
  status,                   \* status_
  events,                   \* Channel::events_
  interest,                 \* what epoll was last told to watch
  registered,               \* "no", "added", "deleted": the fd in the epoll set
  output,                   \* outputBuffer_
  rcv,                      \* data in the kernel's receive buffer
  arrived,                  \* data the peer has sent
  peerFin,                  \* the peer shut its side
  rst,                      \* the connection was reset
  sockErr,                  \* SO_ERROR is pending
  localFin,                 \* shutdownWrite was called
  wire,                     \* units the kernel accepted, in order
  got,                      \* how many of them the peer has read
  wpc,                      \* the worker: "none" (no pointer), "has", in send() "checked",
                            \* in shutdown() "looked", "shut"
  ncalls,                   \* those calls so far
  accepted,                 \* history: units sendInLoop did not refuse, in order
  ups, downs,               \* history: UP and DOWN connection callbacks
  failed,                   \* history: where the process would have died
  dangling                  \* history: destroyed objects and stale values that were used

server == <<sameLoop, baseUp, inMap, baseQ>>
loop == <<lpc, pend, fns, fnext>>
channel == <<events, interest, registered>>
kernel == <<rcv, arrived, peerFin, rst, sockErr, localFin, wire, got>>
worker == <<wpc, ncalls>>
history == <<accepted, ups, downs, failed, dangling>>
vars == <<server, loop, status, channel, output, kernel, worker, history>>

\* The constructor sets these callbacks on the channel.
Callbacks == {"read", "close", "error"}

\* Functors that bind a TcpConnectionPtr; "send" and "shutdown" bind a plain pointer.
Owning == {"established", "destroy", "complete", "highWater"}

\* Some TcpConnectionPtr exists: the object has not been destroyed.
Held == \/ inMap
        \/ baseQ > 0
        \/ \E i \in DOMAIN pend : pend[i].op \in Owning
        \/ \E i \in DOMAIN fns : fns[i].op \in Owning
        \/ lpc \in {"accept", "up", "hup", "read", "message", "out"}
        \/ wpc # "none"

\* A message is the pair of its number and its size; NoMsg goes with the other functors.
NoMsg == <<0, 0>>
Functor(op, m) == [op |-> op, msg |-> m]
Units(m) == [k \in 1..m[2] |-> <<m[1], k>>]
Space == Cap - (Len(wire) - got)
isWriting == "OUT" \in events
Alive == failed \subseteq Ignored
At(pcs) == Alive /\ lpc \in pcs
Check(ok, name) == IF ok THEN {} ELSE {name}

-----------------------------------------------------------------------------
\* newConnection has put the connection in the map and calls
\* runInLoop(connectEstablished), which on another loop queues it.
Init == /\ sameLoop \in BOOLEAN
        /\ baseUp = TRUE /\ inMap = TRUE /\ baseQ = 0
        /\ lpc = IF sameLoop THEN "accept" ELSE "poll"
        /\ pend = IF sameLoop THEN <<>> ELSE <<Functor("established", NoMsg)>>
        /\ fns = <<>> /\ fnext = 0
        /\ status = "Connecting"
        /\ events = {} /\ interest = {} /\ registered = "no"
        /\ output = <<>>
        /\ rcv = 0 /\ arrived = 0
        /\ peerFin = FALSE /\ rst = FALSE /\ sockErr = FALSE /\ localFin = FALSE
        /\ wire = <<>> /\ got = 0
        /\ wpc = "none" /\ ncalls = 0
        /\ accepted = <<>> /\ ups = 0 /\ downs = 0 /\ failed = {} /\ dangling = {}

(* The peer and the kernel *)

PeerSend == /\ arrived < MaxIn /\ ~ peerFin /\ ~ rst
            /\ rcv' = rcv + 1 /\ arrived' = arrived + 1
            /\ UNCHANGED <<server, loop, status, channel, output, peerFin, rst, sockErr,
                           localFin, wire, got, worker, history>>

PeerShutdown == /\ ~ peerFin /\ ~ rst
                /\ peerFin' = TRUE
                /\ UNCHANGED <<server, loop, status, channel, output, rcv, arrived, rst,
                               sockErr, localFin, wire, got, worker, history>>

PeerReset == /\ ~ rst
             /\ rst' = TRUE /\ sockErr' = TRUE
             /\ UNCHANGED <<server, loop, status, channel, output, rcv, arrived, peerFin,
                            localFin, wire, got, worker, history>>

PeerRead == /\ got < Len(wire) /\ ~ rst
            /\ got' = got + 1
            /\ UNCHANGED <<server, loop, status, channel, output, rcv, arrived, peerFin, rst,
                           sockErr, localFin, wire, worker, history>>

\* What epoll reports of the socket (tcp_poll), for the events watched; HUP and
\* ERR are reported whether watched or not.
Reported == {e \in {"IN", "OUT", "HUP", "ERR"} :
               \/ e = "IN" /\ e \in interest /\ (rcv > 0 \/ peerFin \/ rst)
               \/ e = "OUT" /\ e \in interest /\ (Space > 0 \/ localFin \/ rst)
               \/ e = "HUP" /\ (rst \/ (peerFin /\ localFin))
               \/ e = "ERR" /\ sockErr}

-----------------------------------------------------------------------------
(* Handlers and helpers, as the part of a step that they are *)

\* update(): the channel's events_ become what epoll watches.
update(ev) == /\ events' = ev
              /\ interest' = IF registered = "added" THEN ev ELSE interest

queueInLoop(f) == pend' = Append(pend, f)

\* Mutant: connectDestroyed is not queued when the connection leaves the map.
removeConnectionForgets == IF sameLoop
                             THEN inMap' = FALSE /\ UNCHANGED <<baseQ, pend>>
                             ELSE baseQ' = baseQ + 1 /\ UNCHANGED <<inMap, pend>>

\* TcpServer::removeConnectionInLoop, run at once when the loops are one.
removeConnection == IF sameLoop
                      THEN /\ inMap' = FALSE
                           /\ queueInLoop(Functor("destroy", NoMsg))
                           /\ UNCHANGED baseQ
                      ELSE /\ baseQ' = baseQ + 1
                           /\ UNCHANGED <<inMap, pend>>

\* Mutant: no disableAll().
handleCloseStaysEnabled ==
  /\ status' = "Disconnected"
  /\ UNCHANGED <<events, interest>>
  /\ downs' = downs + 1
  /\ removeConnection
  /\ failed' = failed \cup Check(status \in {"Connected", "Disconnecting"}, "handleClose")
                      \cup Check(sameLoop => inMap, "removeConnection")

handleClose == /\ status' = "Disconnected"
               /\ update({})
               /\ downs' = downs + 1
               /\ removeConnection
               /\ failed' = failed \cup Check(status \in {"Connected", "Disconnecting"}, "handleClose")
                                   \cup Check(sameLoop => inMap, "removeConnection")

\* Mutant: the user is told DOWN whatever the status.
connectDestroyedTwiceDown ==
  LET open == status = "Connected"
      ev == IF open THEN {} ELSE events
  IN  /\ status' = IF open THEN "Disconnected" ELSE status
      /\ events' = ev /\ interest' = {} /\ registered' = "deleted"
      /\ downs' = downs + 1
      /\ failed' = failed \cup Check(ev = {}, "remove")

connectDestroyed ==
  LET open == status = "Connected"
      ev == IF open THEN {} ELSE events
  IN  /\ status' = IF open THEN "Disconnected" ELSE status
      /\ events' = ev
      /\ interest' = {}
      /\ downs' = IF open THEN downs + 1 ELSE downs
      /\ registered' = "deleted"
      /\ failed' = failed \cup Check(ev = {}, "remove")

\* What ::write takes of data: all that fits, nothing when SO_ERROR is pending
\* (that error is returned) or the socket is broken (EPIPE).
Broken == localFin \/ rst
Written(data) == IF sockErr \/ Broken \/ Space = 0 THEN 0
                 ELSE IF Space < Len(data) THEN Space ELSE Len(data)

\* The callback that sendInLoop queues: everything is written, or the output buffer
\* comes to the high water mark with rest.
QueueCallback(rest, epipe) ==
  CASE rest = <<>> -> queueInLoop(Functor("complete", NoMsg))
    [] rest # <<>> /\ ~ epipe /\ Len(output) < HighWaterMark
                  /\ Len(output) + Len(rest) >= HighWaterMark -> queueInLoop(Functor("highWater", NoMsg))
    [] OTHER -> UNCHANGED pend

\* Mutant: the direct write does not look at the output buffer.
sendInLoopOvertakes(m) ==
  LET n     == IF isWriting THEN 0 ELSE Written(Units(m))
      epipe == ~ isWriting /\ ~ sockErr /\ Broken
      rest  == SubSeq(Units(m), n + 1, m[2])
  IN  IF status = "Disconnected"
        THEN UNCHANGED <<wire, output, accepted, sockErr, failed, events, interest, pend>>
        ELSE /\ wire' = wire \o SubSeq(Units(m), 1, n)
             /\ sockErr' = (sockErr /\ isWriting)
             /\ failed' = failed \cup Check(~ epipe, "SIGPIPE")
             /\ accepted' = IF epipe THEN accepted ELSE accepted \o Units(m)
             /\ output' = IF epipe THEN output ELSE output \o rest
             /\ IF ~ epipe /\ rest # <<>> /\ ~ isWriting
                  THEN update(events \cup {"OUT"}) ELSE UNCHANGED <<events, interest>>
             /\ QueueCallback(rest, epipe)

sendInLoop(m) ==
  LET direct == ~ isWriting /\ output = <<>>
      n      == IF direct THEN Written(Units(m)) ELSE 0
      epipe  == direct /\ ~ sockErr /\ Broken
      rest   == SubSeq(Units(m), n + 1, m[2])
  IN  IF status = "Disconnected"
        THEN UNCHANGED <<wire, output, accepted, sockErr, failed, events, interest, pend>>
        ELSE /\ wire' = wire \o SubSeq(Units(m), 1, n)
             /\ sockErr' = (sockErr /\ ~ direct)
             /\ failed' = failed \cup Check(~ epipe, "SIGPIPE")
             /\ accepted' = IF epipe THEN accepted ELSE accepted \o Units(m)
             /\ output' = IF epipe THEN output ELSE output \o rest
             /\ IF ~ epipe /\ rest # <<>> /\ ~ isWriting
                  THEN update(events \cup {"OUT"}) ELSE UNCHANGED <<events, interest>>
             /\ QueueCallback(rest, epipe)

\* handleWrite writes what it can of the output buffer.  When the buffer is empty
\* it stops watching OUT, reports completion, and finishes a shutdown.
handleWrite ==
  LET n == Written(output)
      empty == n > 0 /\ n = Len(output)
  IN  IF ~ isWriting
        THEN UNCHANGED <<wire, output, events, interest, pend, localFin, sockErr, failed>>
        ELSE /\ wire' = wire \o SubSeq(output, 1, n)
             /\ output' = SubSeq(output, n + 1, Len(output))
             /\ sockErr' = FALSE
             /\ failed' = failed \cup Check(sockErr \/ ~ Broken, "SIGPIPE")
             /\ IF empty THEN /\ update(events \ {"OUT"})
                              /\ queueInLoop(Functor("complete", NoMsg))
                         ELSE UNCHANGED <<events, interest, pend>>
             /\ localFin' = (localFin \/ (empty /\ status = "Disconnecting"))

-----------------------------------------------------------------------------
(* The I/O loop's thread *)

\* Mutant: remove() leaves the fd in the epoll set.
PollAfterRemove ==
  /\ At({"poll"})
  /\ IF registered # "no" /\ Reported # {}
       THEN /\ events' = Reported
            /\ lpc' = "hup"
            /\ dangling' = dangling \cup Check(Held, "channel")
       ELSE /\ lpc' = "swap"
            /\ UNCHANGED <<events, dangling>>
  /\ UNCHANGED <<server, pend, fns, fnext, status, interest, registered, output, kernel,
                 worker, accepted, ups, downs, failed>>

\* epoll_wait returns.  What it reports overwrites the channel's events_.
Poll == /\ At({"poll"})
        /\ IF registered = "added" /\ Reported # {}
             THEN /\ events' = Reported
                  /\ lpc' = "hup"
                  /\ dangling' = dangling \cup Check(Held, "channel")
             ELSE /\ lpc' = "swap"
                  /\ UNCHANGED <<events, dangling>>
        /\ UNCHANGED <<server, pend, fns, fnext, status, interest, registered, output, kernel,
                       worker, accepted, ups, downs, failed>>

\* handleError reads SO_ERROR, which clears it.
handleError == sockErr' = (sockErr /\ "ERR" \notin events')

HandleHup == /\ At({"hup"})
             /\ lpc' = "read"
             /\ IF "HUP" \in events /\ "IN" \notin events
                  THEN handleClose
                  ELSE UNCHANGED <<status, events, interest, downs, inMap, baseQ, pend, failed>>
             /\ handleError
             /\ UNCHANGED <<sameLoop, baseUp, fns, fnext, registered, output, rcv, arrived, peerFin,
                            rst, localFin, wire, got, worker, accepted, ups, dangling>>

\* handleRead takes all the data there is; with none, it reports a pending error
\* or closes.
HandleRead ==
  /\ At({"read"})
  /\ \/ /\ "IN" \in events /\ rcv > 0
        /\ rcv' = 0
        /\ lpc' = "message"
        /\ UNCHANGED <<server, pend, status, channel, sockErr, downs, failed>>
     \/ /\ "IN" \in events /\ rcv = 0 /\ sockErr
        /\ sockErr' = FALSE
        /\ lpc' = "out"
        /\ UNCHANGED <<server, pend, status, channel, rcv, downs, failed>>
     \/ /\ "IN" \in events /\ rcv = 0 /\ ~ sockErr /\ (peerFin \/ rst)
        /\ handleClose
        /\ lpc' = "out"
        /\ UNCHANGED <<sameLoop, baseUp, registered, rcv, sockErr>>
     \/ /\ "IN" \notin events
        /\ lpc' = "out"
        /\ UNCHANGED <<server, pend, status, channel, rcv, sockErr, downs, failed>>
  /\ UNCHANGED <<fns, fnext, output, arrived, peerFin, rst, localFin, wire, got, worker,
                 accepted, ups, dangling>>

HandleOut == /\ At({"out"})
             /\ lpc' = "swap"
             /\ IF "OUT" \in events /\ "write" \in Callbacks
                  THEN handleWrite
                  ELSE UNCHANGED <<wire, output, events, interest, pend, localFin, sockErr, failed>>
             /\ UNCHANGED <<server, fns, fnext, status, registered, rcv, arrived, peerFin, rst,
                            got, worker, accepted, ups, downs, dangling>>

SwapFunctors == /\ At({"swap"})
                /\ fns' = pend /\ pend' = <<>> /\ fnext' = 0
                /\ lpc' = "functors"
                /\ UNCHANGED <<server, status, channel, output, kernel, worker, history>>

\* connectEstablished up to its callback.
connectEstablished ==
  /\ status' = "Connected"
  /\ failed' = failed \cup Check(status = "Connecting", "established")
  /\ events' = events \cup {"IN"}
  /\ interest' = events \cup {"IN"}
  /\ registered' = "added"
  /\ ups' = ups + 1
  /\ lpc' = "up"
  /\ UNCHANGED <<server, pend, fns, output, kernel, worker, accepted, downs, dangling>>

EstablishNow == At({"accept"}) /\ connectEstablished /\ UNCHANGED fnext

RunEstablished == /\ At({"functors"}) /\ fnext < Len(fns)
                  /\ fns[fnext + 1].op = "established"
                  /\ fnext' = fnext + 1
                  /\ connectEstablished

RunDestroy == /\ At({"functors"}) /\ fnext < Len(fns)
              /\ fns[fnext + 1].op = "destroy"
              /\ fnext' = fnext + 1
              /\ connectDestroyed
              /\ UNCHANGED <<server, lpc, pend, fns, output, kernel, worker, accepted, ups, dangling>>

\* sendStrInLoop, through the plain pointer another thread bound.
RunSend == /\ At({"functors"}) /\ fnext < Len(fns)
           /\ fns[fnext + 1].op = "send"
           /\ fnext' = fnext + 1
           /\ IF Held THEN sendInLoop(fns[fnext + 1].msg) /\ UNCHANGED dangling
                      ELSE /\ dangling' = dangling \cup {"connection"}
                           /\ UNCHANGED <<wire, output, accepted, sockErr, failed, events,
                                          interest, pend>>
           /\ UNCHANGED <<server, lpc, fns, status, registered, rcv, arrived, peerFin, rst,
                          localFin, got, worker, ups, downs>>

\* shutdownInLoop, through the plain pointer another thread bound.
RunShutdown == /\ At({"functors"}) /\ fnext < Len(fns)
               /\ fns[fnext + 1].op = "shutdown"
               /\ fnext' = fnext + 1
               /\ IF Held THEN localFin' = (localFin \/ ~ isWriting) /\ UNCHANGED dangling
                          ELSE dangling' = dangling \cup {"shutdown"} /\ UNCHANGED localFin
               /\ UNCHANGED <<server, lpc, pend, fns, status, channel, output, rcv, arrived, peerFin,
                              rst, sockErr, wire, got, worker, accepted, ups, downs, failed>>

\* writeCompleteCallback_ and highWaterMarkCallback_ are the user's, they call nothing here.
RunComplete == /\ At({"functors"}) /\ fnext < Len(fns)
               /\ fns[fnext + 1].op \in {"complete", "highWater"}
               /\ fnext' = fnext + 1
               /\ UNCHANGED <<server, lpc, pend, fns, status, channel, output, kernel, worker, history>>

\* The batch is destroyed; a loop told to quit, after ~TcpServer, may end here and
\* drop what is still pending.
FunctorsDone == /\ At({"functors"}) /\ fnext = Len(fns)
                /\ fns' = <<>> /\ fnext' = 0
                /\ \/ lpc' = "poll" /\ UNCHANGED pend
                   \/ ~ baseUp /\ lpc' = "stopped" /\ pend' = <<>>
                /\ UNCHANGED <<server, status, channel, output, kernel, worker, history>>

-----------------------------------------------------------------------------
(* The user's connection and message callbacks, on the I/O loop's thread *)

CallbackReturns == /\ Alive
                   /\ \/ lpc = "up" /\ lpc' = IF sameLoop THEN "swap" ELSE "functors"
                      \/ lpc = "message" /\ lpc' = "out"
                   /\ UNCHANGED <<server, pend, fns, fnext, status, channel, output, kernel,
                                  worker, history>>

UserSend(size) ==
  /\ At({"up", "message"})
  /\ ncalls < MaxCalls
  /\ ncalls' = ncalls + 1
  /\ IF status = "Connected"
       THEN sendInLoop(<<ncalls + 1, size>>)
       ELSE UNCHANGED <<wire, output, accepted, sockErr, failed, events, interest, pend>>
  /\ UNCHANGED <<server, lpc, fns, fnext, status, registered, rcv, arrived, peerFin, rst,
                 localFin, got, wpc, ups, downs, dangling>>

\* shutdown() and shutdownInLoop(), which looks at events_ and not at the buffer.
UserShutdown == /\ At({"up", "message"})
                /\ status = "Connected"
                /\ status' = "Disconnecting"
                /\ localFin' = (localFin \/ ~ isWriting)
                /\ UNCHANGED <<server, loop, channel, output, rcv, arrived, peerFin, rst, sockErr,
                               wire, got, worker, history>>

GiveToWorker == /\ At({"up", "message"})
                /\ baseUp /\ wpc = "none" /\ ncalls < MaxCalls
                /\ wpc' = "has"
                /\ UNCHANGED <<server, loop, status, channel, output, kernel, ncalls, history>>

(* The worker: send() looks at status_, then queues sendStrInLoop; shutdown() looks at  *)
(* it, sets it, then queues shutdownInLoop                                               *)

WorkerChecks == /\ Alive /\ wpc = "has" /\ ncalls < MaxCalls
                /\ status = "Connected"
                /\ wpc' = "checked"
                /\ UNCHANGED <<server, loop, status, channel, output, kernel, ncalls, history>>

WorkerQueues(size) ==
  /\ Alive /\ wpc = "checked"
  /\ ncalls < MaxCalls
  /\ ncalls' = ncalls + 1
  /\ queueInLoop(Functor("send", <<ncalls + 1, size>>))
  /\ wpc' = "has"
  /\ UNCHANGED <<server, lpc, fns, fnext, status, channel, output, kernel, history>>

WorkerLooks == /\ Alive /\ wpc = "has" /\ ncalls < MaxCalls
               /\ status = "Connected"
               /\ wpc' = "looked"
               /\ ncalls' = ncalls + 1
               /\ UNCHANGED <<server, loop, status, channel, output, kernel, history>>

\* The connection may be Disconnected by now.
WorkerSetsStatus == /\ Alive /\ wpc = "looked"
                    /\ wpc' = "shut"
                    /\ status' = "Disconnecting"
                    /\ dangling' = dangling \cup Check(status = "Connected", "status_")
                    /\ UNCHANGED <<server, loop, channel, output, kernel, ncalls, accepted, ups,
                                   downs, failed>>

WorkerQueuesShutdown == /\ Alive /\ wpc = "shut"
                        /\ wpc' = "has"
                        /\ queueInLoop(Functor("shutdown", NoMsg))
                        /\ UNCHANGED <<server, lpc, fns, fnext, status, channel, output, kernel,
                                       ncalls, history>>

WorkerReleases == /\ Alive
                  /\ wpc = "has" \/ (wpc = "checked" /\ ncalls = MaxCalls)
                  /\ wpc' = "none"
                  /\ UNCHANGED <<server, loop, status, channel, output, kernel, ncalls, history>>

-----------------------------------------------------------------------------
(* The base loop's thread, when it is another one, and the end of the server *)

\* Mutant: the base loop does not queue connectDestroyed on the I/O loop.
BaseRemoveForgets == /\ Alive /\ baseUp /\ baseQ > 0
                     /\ baseQ' = baseQ - 1
                     /\ inMap' = FALSE
                     /\ failed' = failed \cup Check(inMap, "removeConnection")
                     /\ UNCHANGED <<sameLoop, baseUp, loop, status, channel, output, kernel,
                                    worker, accepted, ups, downs, dangling>>

BaseRemove == /\ Alive /\ baseUp /\ baseQ > 0
              /\ baseQ' = baseQ - 1
              /\ inMap' = FALSE
              /\ failed' = failed \cup Check(inMap, "removeConnection")
              /\ queueInLoop(Functor("destroy", NoMsg))
              /\ UNCHANGED <<sameLoop, baseUp, lpc, fns, fnext, status, channel, output, kernel,
                             worker, accepted, ups, downs, dangling>>

\* ~TcpServer, after the base loop returned and the workers ended: the connection
\* still in the map is destroyed, here or on its loop; the functors left on the
\* base loop are not run.
ServerDtor == /\ Alive /\ baseUp /\ wpc = "none"
              /\ sameLoop => lpc = "poll"
              /\ baseUp' = FALSE /\ inMap' = FALSE /\ baseQ' = 0
              /\ IF ~ sameLoop
                   THEN /\ pend' = IF inMap THEN Append(pend, Functor("destroy", NoMsg)) ELSE pend
                        /\ UNCHANGED <<lpc, status, channel, downs, failed>>
                   ELSE /\ lpc' = "stopped" /\ pend' = <<>>
                        /\ IF inMap THEN connectDestroyed
                                    ELSE UNCHANGED <<status, channel, downs, failed>>
              /\ UNCHANGED <<sameLoop, fns, fnext, output, kernel, worker, accepted, ups, dangling>>

-----------------------------------------------------------------------------
LoopStep == \/ Poll \/ HandleHup \/ HandleRead \/ HandleOut \/ SwapFunctors
            \/ EstablishNow \/ RunEstablished \/ RunDestroy \/ RunSend \/ RunShutdown \/ RunComplete \/ FunctorsDone
            \/ CallbackReturns

Next == \/ PeerSend \/ PeerShutdown \/ PeerReset \/ PeerRead
        \/ LoopStep
        \/ \E size \in Sizes : UserSend(size) \/ WorkerQueues(size)
        \/ UserShutdown \/ GiveToWorker \/ WorkerChecks \/ WorkerReleases
        \/ WorkerLooks \/ WorkerSetsStatus \/ WorkerQueuesShutdown
        \/ BaseRemove \/ ServerDtor

\* The loops are scheduled and callbacks return; the worker finishes what it does;
\* the peer reads what was sent to it.
Fairness == /\ WF_vars(LoopStep)
            /\ WF_vars(BaseRemove)
            /\ WF_vars(\/ \E size \in Sizes : WorkerQueues(size)
                       \/ WorkerReleases \/ WorkerSetsStatus \/ WorkerQueuesShutdown)
            /\ WF_vars(PeerRead)

Spec == Init /\ [][Next]_vars /\ Fairness

-----------------------------------------------------------------------------
\* What the kernel was given, followed by what is buffered, is what was sent: no
\* unit is reordered, lost or repeated between the direct write of sendInLoop,
\* the buffer, and sends queued by another thread.
StreamIntact == wire \o output = accepted

\* While epoll can return the channel, a TcpConnectionPtr keeps it alive, across
\* close, removal from the map on another thread, and the functors in between.
RegisteredIsHeld == registered = "added" /\ lpc # "stopped" => Held

\* With one loop, and while the server exists, no assert of TcpConnection, Channel
\* or TcpServer fails: after handleClose the destruction is queued before the next
\* epoll_wait, so a socket that keeps reporting HUP is not closed twice.  The exception:
\* shutdown() of another thread made a Disconnected connection Disconnecting again.
OneLoopAssertsHold == sameLoop /\ baseUp => failed \subseteq {"SIGPIPE"} \/ "status_" \in dangling

\* The user sees UP once, then DOWN, which is repeated only where the assert in
\* handleClose has failed, or would have but for a shutdown() of another thread.
UpThenDown == /\ ups <= 1
              /\ \/ downs <= ups
                 \/ "handleClose" \in failed
                 \/ ~ sameLoop /\ "status_" \in dangling

\* Once destroyed, a connection calls the user no more and never comes back.
DestroyedIsQuiet ==
  [][registered = "deleted" => registered' = "deleted" /\ ups' = ups /\ downs' = downs]_vars

\* A connection the peer has shut or reset is taken out of epoll and of the map,
\* and once no worker holds it, it is destroyed; with either arrangement of loops.
PeerCloseDestroys ==
  (registered = "added" /\ (peerFin \/ rst)) 
    ~> (registered = "deleted" /\ ~ inMap) \/ lpc = "stopped" \/ ~ Alive

\* "The kernel's send buffer has room, this function is called back" (handleWrite)
\* and "called when all of the user's data was copied to the kernel's buffer"
\* (writeCompleteCallback_): buffered data goes out while the peer keeps reading.
OutputDrains == output # <<>> ~> (output = <<>> \/ rst \/ status = "Disconnected" \/ ~ baseUp \/ ~ Alive)

\* "Thread safe, can be called across threads" (send): a message sent by a thread
\* that holds the connection is not delivered to a destroyed connection.
SendIsThreadSafe == "connection" \notin dangling
=============================================================================
