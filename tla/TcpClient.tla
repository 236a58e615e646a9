----------------------------- MODULE TcpClient -----------------------------
(***************************************************************************)
(* lotus::net::TcpClient and its Connector: attempts to connect, retries   *)
(* on a timer, the one connection_, and the calls a user makes on the      *)
(* loop's thread or on another one, which only leaves functors for the     *)
(* loop.  What the connection itself does is in module TcpConnection; here *)
(* it is up, closed, destroyed.                                            *)
(*                                                                         *)
(* A timer may fire in any iteration after the one that set it, so that    *)
(* retryDelayMs_ is left out.  A closed descriptor is reused.  Functors    *)
(* and channels bind plain pointers; the Connector is kept alive by its    *)
(* client, its retry timers, and the timer of ~TcpClient (hack).  A failed *)
(* assert is recorded in failed, that of ~Connector read off the state the *)
(* last of its owners leaves (Failed), a use of a destroyed object in      *)
(* dangling, and nothing is said of what the process does after any.  A    *)
(* call on the loop's thread is one step, also when a call of the other    *)
(* thread is half done.                                                    *)
(***************************************************************************)
EXTENDS Naturals, Sequences, FiniteSets

CONSTANTS MaxFd,        \* bound: descriptors of sockets; the kernel takes the lowest free one
          MaxConns,     \* bound: connections the network lets succeed
          MaxCalls,     \* bound: calls of the user
          Again         \* whether the user may call connect() a second time

ASSUME ClientConstants == /\ MaxFd \in Nat /\ MaxConns \in Nat
                          /\ MaxCalls \in Nat /\ Again \in BOOLEAN

VARIABLES
  k,        \* Connector: connect_, state_, channel_ (its descriptor, 0 if none),
            \* whether it is watched by epoll, and the retry timers that are set
  c,        \* TcpClient: retry_, connect_, connection_ (its descriptor, 0 if none),
            \* whether it exists, and whether the timer of its destructor is set
  conn,     \* status_ of the TcpConnection made for a descriptor
  swapped,  \* connections whose closeCallback_ the destructor replaced
  sock,     \* the kernel's view of each descriptor
  loop,     \* the loop's pc, what is left of the reported events, the running functors
  pend,     \* pendingFunctors_
  u,        \* another thread of the user: its pc, and what has been called
  h         \* history: failed, dangling, gaveUp (an error that is not retried)

Fds == 1..MaxFd
vars == <<k, c, conn, swapped, sock, loop, pend, u, h>>

Check(ok, name) == IF ok THEN {} ELSE {name}
Held == c.exists \/ k.timers > 0 \/ c.hack
\* The asserts that have failed; ~Connector, which runs when its last owner lets go, asserts
\* that channel_ is empty.
Failed == h.failed \cup Check(Held \/ k.channel = 0, "~Connector")
Alive == Failed = {} /\ h.dangling = {}
At(pcs) == Alive /\ loop.pc \in pcs
queueInLoop(op, fd) == pend' = Append(pend, <<op, fd>>)
Closed(fd) == sock' = [sock EXCEPT ![fd] = "free"]
Failing(ok, name) == h' = [h EXCEPT !.failed = @ \cup Check(ok, name)]
Using(ok, what) == h' = [h EXCEPT !.dangling = @ \cup Check(ok, what)]
Used == {fd \in Fds : conn[fd] # "none" \/ sock[fd] \in {"connected", "eof"}}

Init == /\ k = [connect |-> FALSE, state |-> "kDisconnected", channel |-> 0, watched |-> FALSE,
                timers |-> 0]
        /\ \E retry \in BOOLEAN : c = [retry |-> retry, connect |-> TRUE, connection |-> 0,
                                       exists |-> TRUE, hack |-> FALSE]
        /\ conn = [fd \in Fds |-> "none"] /\ swapped = {}
        /\ sock = [fd \in Fds |-> "free"]
        /\ loop = [pc |-> "poll", ready |-> "none", due |-> 0, closing |-> 0, fns |-> <<>>]
        /\ pend = <<>>
        /\ u = [pc |-> "idle", calls |-> 0, connected |-> FALSE, stopped |-> FALSE,
                remote |-> {}]
        /\ h = [failed |-> {}, dangling |-> {}, gaveUp |-> FALSE]

-----------------------------------------------------------------------------
(* Connector, on the loop's thread; a handler takes the connector as it is *)
(* when it is entered and says what it becomes.                            *)

\* removeAndResetChannel; its resetChannel is queued by whoever calls it.
removeAndResetChannel(kk) == [kk EXCEPT !.watched = FALSE]

\* Mutant: the retry forgets to set the timer.
retryOnce(kk) == [kk EXCEPT !.state = "kDisconnected"]

\* The socket is closed by whoever calls it.
retry(kk) == [kk EXCEPT !.state = "kDisconnected",
                        !.timers = IF kk.connect THEN @ + 1 ELSE @]

\* connect(2) is under way, has failed and will be retried, or has failed for good.
connect(kk) ==
  \/ \E fd \in Fds : /\ sock[fd] = "free" /\ \A lower \in 1..(fd - 1) : sock[lower] # "free"
                     /\ sock' = [sock EXCEPT ![fd] = "trying"]
                     /\ k' = [kk EXCEPT !.state = "kConnecting", !.channel = fd, !.watched = TRUE]
                     /\ Failing(kk.channel = 0, "connecting")
  \/ k' = retry(kk) /\ UNCHANGED <<sock, h>>
  \/ k' = kk /\ h' = [h EXCEPT !.gaveUp = TRUE] /\ UNCHANGED sock

\* Mutant: connect_ is not looked at.
startAlways(kk) ==
  \/ kk.state # "kDisconnected" /\ k' = kk /\ Failing(FALSE, "startInLoop") /\ UNCHANGED sock
  \/ kk.state = "kDisconnected" /\ connect(kk)

startInLoop(kk) ==
  \/ kk.state # "kDisconnected" /\ k' = kk /\ Failing(FALSE, "startInLoop") /\ UNCHANGED sock
  \/ kk.state = "kDisconnected" /\ kk.connect /\ connect(kk)
  \/ kk.state = "kDisconnected" /\ ~ kk.connect /\ k' = kk /\ UNCHANGED <<sock, h>>

stopInLoop(kk) ==
  IF kk.state = "kConnecting"
    THEN /\ k' = retry(removeAndResetChannel(kk))
         /\ Closed(kk.channel)
         /\ queueInLoop("resetChannel", 0)
    ELSE k' = kk /\ UNCHANGED <<sock, pend>>

-----------------------------------------------------------------------------
(* The loop *)

\* What epoll reports of the socket of channel_.
Reported == IF ~ k.watched \/ sock[k.channel] = "trying" THEN "none"
            ELSE IF sock[k.channel] = "error" THEN "ERR" ELSE "OUT"

\* epoll_wait returns: some timers may be due, channel_ may have an event, and so may
\* an open connection whose peer has closed or reset it.
Poll == /\ At({"poll"})
        /\ \E n \in 0..k.timers, fd \in Fds \cup {0} :
              /\ fd # 0 => conn[fd] \in {"Connected", "Disconnecting"} /\ sock[fd] \in {"eof", "error"}
              /\ loop' = [loop EXCEPT !.pc = "events", !.ready = Reported, !.due = n, !.closing = fd]
        /\ UNCHANGED <<k, c, conn, swapped, sock, pend, u, h>>

RunTimer == /\ At({"events"}) /\ loop.due > 0
            /\ loop' = [loop EXCEPT !.due = @ - 1]
            /\ startInLoop([k EXCEPT !.timers = @ - 1])
            /\ UNCHANGED <<c, conn, swapped, pend, u>>

\* The timer of ~TcpClient lets go of the Connector.
RunRemoveConnector == /\ At({"poll"}) /\ c.hack
                      /\ c' = [c EXCEPT !.hack = FALSE]
                      /\ UNCHANGED <<k, conn, swapped, sock, loop, pend, u, h>>

\* handleError and handleWrite: a channel that was disabled since it was reported
\* has no event left.
HandleDisabled == /\ At({"events"}) /\ loop.ready # "none" /\ ~ k.watched
                  /\ loop' = [loop EXCEPT !.ready = "none"]
                  /\ UNCHANGED <<k, c, conn, swapped, sock, pend, u, h>>

Handle == /\ At({"events"}) /\ loop.ready # "none" /\ k.watched
          /\ loop' = [loop EXCEPT !.ready = "none"]
          /\ queueInLoop("resetChannel", 0)
          /\ UNCHANGED <<swapped, u>>

handleError == /\ Handle /\ loop.ready = "ERR"
               /\ Failing(k.state = "kConnecting", "handleError")
               /\ k' = retry(removeAndResetChannel(k))
               /\ Closed(k.channel)
               /\ UNCHANGED <<c, conn>>

\* The error may have come after the report; the socket may be connected to itself.
handleWriteFails == /\ Handle /\ loop.ready = "OUT"
                    /\ sock[k.channel] \in {"error", "self"}
                    /\ k' = retry(removeAndResetChannel(k))
                    /\ Closed(k.channel)
                    /\ UNCHANGED <<c, conn, h>>

newConnection(fd) == /\ Using(c.exists, "client")
                     /\ conn' = [conn EXCEPT ![fd] = "Connected"]
                     /\ c' = [c EXCEPT !.connection = fd]

\* Mutant: the socket of an attempt that was stopped meanwhile is not closed.
handleWriteLeaks ==
  /\ Handle /\ loop.ready = "OUT"
  /\ sock[k.channel] \in {"connected", "eof"}
  /\ k' = [removeAndResetChannel(k) EXCEPT !.state = "kConnected"]
  /\ IF k.connect
       THEN newConnection(k.channel)
       ELSE UNCHANGED <<c, conn, h>>
  /\ UNCHANGED sock

\* Connected, and a connection unless stop() came first.
handleWrite ==
  /\ Handle /\ loop.ready = "OUT"
  /\ sock[k.channel] \in {"connected", "eof"}
  /\ k' = [removeAndResetChannel(k) EXCEPT !.state = "kConnected"]
  /\ IF k.connect
       THEN newConnection(k.channel) /\ UNCHANGED sock
       ELSE Closed(k.channel) /\ UNCHANGED <<c, conn, h>>

\* The connection closes: TcpConnection::handleClose up to its callbacks.
handleClose == /\ At({"events"}) /\ loop.closing # 0
               /\ conn' = [conn EXCEPT ![loop.closing] = "Disconnected"]
               /\ loop' = [loop EXCEPT !.pc = "close"]
               /\ UNCHANGED <<k, c, swapped, sock, pend, u, h>>

\* Mutant: the close callback that the destructor set is not the one called.
removeConnectionAlways ==
  /\ At({"close"})
  /\ queueInLoop("connectDestroyed", loop.closing)
  /\ Using(c.exists, "client")
  /\ c' = [c EXCEPT !.connection = 0]
  /\ loop' = [loop EXCEPT !.closing = 0,
                          !.pc = IF c.retry /\ c.connect THEN "restart" ELSE "events"]
  /\ UNCHANGED <<k, conn, swapped, sock, u>>

\* closeCallback_: TcpClient::removeConnection up to restart(), or detail's.
removeConnection ==
  /\ At({"close"})
  /\ queueInLoop("connectDestroyed", loop.closing)
  /\ IF loop.closing \in swapped
       THEN /\ loop' = [loop EXCEPT !.pc = "events", !.closing = 0]
            /\ UNCHANGED <<c, h>>
       ELSE /\ h' = [h EXCEPT !.dangling = @ \cup Check(c.exists, "client"),
                              !.failed = @ \cup Check(c.exists => c.connection = loop.closing,
                                                      "removeConnection")]
            /\ c' = [c EXCEPT !.connection = 0]
            /\ loop' = [loop EXCEPT !.closing = 0,
                                     !.pc = IF c.retry /\ c.connect THEN "restart" ELSE "events"]
  /\ UNCHANGED <<k, conn, swapped, sock, u>>

\* Mutant: the state of the connection that was lost is kept.
restartKeepsState == /\ At({"restart"})
                     /\ loop' = [loop EXCEPT !.pc = "events"]
                     /\ startInLoop([k EXCEPT !.connect = TRUE])
                     /\ UNCHANGED <<c, conn, swapped, pend, u>>

restart == /\ At({"restart"})
           /\ loop' = [loop EXCEPT !.pc = "events"]
           /\ startInLoop([k EXCEPT !.state = "kDisconnected", !.connect = TRUE])
           /\ UNCHANGED <<c, conn, swapped, pend, u>>

SwapFunctors == /\ At({"events"})
                /\ loop.ready = "none" /\ loop.due = 0 /\ loop.closing = 0
                /\ loop' = [loop EXCEPT !.pc = "functors", !.fns = pend]
                /\ pend' = <<>>
                /\ UNCHANGED <<k, c, conn, swapped, sock, u, h>>

FunctorsDone == /\ At({"functors"}) /\ loop.fns = <<>>
                /\ loop' = [loop EXCEPT !.pc = "poll"]
                /\ UNCHANGED <<k, c, conn, swapped, sock, pend, u, h>>

Run(op) == /\ At({"functors"}) /\ loop.fns # <<>> /\ Head(loop.fns)[1] = op
           /\ loop' = [loop EXCEPT !.fns = Tail(@)]
           /\ UNCHANGED u

RunStart == /\ Run("startInLoop")
            /\ IF Held THEN startInLoop(k) ELSE Using(FALSE, "connector") /\ UNCHANGED <<k, sock>>
            /\ UNCHANGED <<c, conn, swapped, pend>>

RunStop == /\ Run("stopInLoop")
           /\ IF Held THEN stopInLoop(k) /\ UNCHANGED h
                      ELSE Using(FALSE, "connector") /\ UNCHANGED <<k, sock, pend>>
           /\ UNCHANGED <<c, conn, swapped>>

\* Whatever channel_ is by now is destroyed, watched or not.
RunReset == /\ Run("resetChannel")
            /\ h' = [h EXCEPT !.dangling = @ \cup Check(Held, "connector")
                                             \cup Check(~ k.watched, "channel")]
            /\ k' = IF Held THEN [k EXCEPT !.channel = 0] ELSE k
            /\ UNCHANGED <<c, conn, swapped, sock, pend>>

RunDestroyed == /\ Run("connectDestroyed")
                /\ conn' = [conn EXCEPT ![Head(loop.fns)[2]] = "Destroyed"]
                /\ UNCHANGED <<k, c, swapped, sock, pend, h>>

RunSetCloseCallback == /\ Run("setCloseCallback")
                       /\ swapped' = swapped \cup {Head(loop.fns)[2]}
                       /\ UNCHANGED <<k, c, conn, sock, pend, h>>

-----------------------------------------------------------------------------
(* The user, in a callback, a timer or a functor on the loop's thread *)

Calling == Alive /\ c.exists /\ u.calls < MaxCalls
\* Once, and not after stop().
MayConnect == Again \/ (~ u.connected /\ ~ u.stopped)
\* The other thread may be inside a call, but not inside the destructor.
OnLoop == /\ Calling /\ u.pc \notin {"dtorStop", "dtorQueue", "dtorSwap"}
          /\ loop.pc \in {"events", "close", "functors"} /\ UNCHANGED loop

\* connection_->shutdown().
Shut == conn' = IF c.connection # 0 /\ conn[c.connection] = "Connected"
                  THEN [conn EXCEPT ![c.connection] = "Disconnecting"] ELSE conn

LoopConnect == /\ OnLoop /\ MayConnect
               /\ u' = [u EXCEPT !.calls = @ + 1, !.connected = TRUE, !.stopped = FALSE]
               /\ c' = [c EXCEPT !.connect = TRUE]
               /\ startInLoop([k EXCEPT !.connect = TRUE])
               /\ UNCHANGED <<conn, swapped, pend>>

LoopDisconnect == /\ OnLoop
                  /\ u' = [u EXCEPT !.calls = @ + 1]
                  /\ c' = [c EXCEPT !.connect = FALSE]
                  /\ Shut
                  /\ UNCHANGED <<k, swapped, sock, pend, h>>

LoopStop == /\ OnLoop
            /\ u' = [u EXCEPT !.calls = @ + 1, !.stopped = TRUE]
            /\ c' = [c EXCEPT !.connect = FALSE]
            /\ stopInLoop([k EXCEPT !.connect = FALSE])
            /\ UNCHANGED <<conn, swapped, h>>

LoopDtor == /\ OnLoop /\ u.pc = "idle"
            /\ u' = [u EXCEPT !.calls = @ + 1]
            /\ IF c.connection # 0
                 THEN /\ swapped' = swapped \cup {c.connection}
                      /\ c' = [c EXCEPT !.exists = FALSE]
                      /\ UNCHANGED <<k, sock, pend>>
                 ELSE /\ stopInLoop([k EXCEPT !.connect = FALSE])
                      /\ c' = [c EXCEPT !.exists = FALSE, !.hack = TRUE]
                      /\ UNCHANGED swapped
            /\ UNCHANGED <<conn, h>>

(* The user, on another thread *)

Begin(pc) == /\ Calling /\ u.pc = "idle"
             /\ u' = [u EXCEPT !.pc = pc, !.calls = @ + 1, !.remote = @ \cup {pc},
                               !.connected = @ \/ pc = "connect"]
             /\ UNCHANGED <<k, conn, swapped, sock, loop, pend, h>>

\* stopped: of connect() and stop(), stop() was the last to write Connector::connect_.
Step(pc, next) == /\ Alive /\ u.pc = pc
                  /\ u' = [u EXCEPT !.pc = next,
                                    !.stopped = pc = "stop" \/ (@ /\ pc # "connect")]
                  /\ UNCHANGED <<sock, loop, h>>

Connect == /\ MayConnect /\ Begin("connect")
           /\ c' = [c EXCEPT !.connect = TRUE]

ConnectorStart == /\ Step("connect", "startInLoop")
                  /\ k' = [k EXCEPT !.connect = TRUE]
                  /\ UNCHANGED <<c, conn, swapped, pend>>

Start == /\ Step("startInLoop", "idle")
         /\ queueInLoop("startInLoop", 0)
         /\ UNCHANGED <<k, c, conn, swapped>>

Disconnect == /\ Begin("shutdown")
              /\ c' = [c EXCEPT !.connect = FALSE]

Shutdown == /\ Step("shutdown", "idle")
            /\ Shut
            /\ UNCHANGED <<k, c, swapped, pend>>

Stop == /\ Begin("stop")
        /\ c' = [c EXCEPT !.connect = FALSE]

ConnectorStop == /\ \/ Step("stop", "stopInLoop")
                    \/ Step("dtorStop", "dtorQueue")
                 /\ k' = [k EXCEPT !.connect = FALSE]
                 /\ UNCHANGED <<c, conn, swapped, pend>>

QueueStop == /\ Step("stopInLoop", "idle")
             /\ queueInLoop("stopInLoop", 0)
             /\ UNCHANGED <<k, c, conn, swapped>>

\* ~TcpClient looks at connection_ and goes one of two ways; then the members go.
Dtor == /\ Calling /\ u.pc = "idle"
        /\ u' = [u EXCEPT !.pc = IF c.connection # 0 THEN "dtorSwap" ELSE "dtorStop",
                          !.calls = @ + 1, !.remote = @ \cup {"dtor"}]
        /\ pend' = IF c.connection # 0 THEN Append(pend, <<"setCloseCallback", c.connection>>)
                                       ELSE pend
        /\ UNCHANGED <<k, c, conn, swapped, sock, loop, h>>

DtorQueue == /\ Step("dtorQueue", "dtorSwap")
             /\ queueInLoop("stopInLoop", 0)
             /\ c' = [c EXCEPT !.hack = TRUE]
             /\ UNCHANGED <<k, conn, swapped>>

DtorDone == /\ Step("dtorSwap", "idle")
            /\ c' = [c EXCEPT !.exists = FALSE]
            /\ UNCHANGED <<k, conn, swapped, pend>>

-----------------------------------------------------------------------------
(* The network and the peer *)

Becomes(from, to) == \E fd \in Fds : /\ sock[fd] \in from
                                     /\ sock' = [sock EXCEPT ![fd] = to]
                                     /\ UNCHANGED <<k, c, conn, swapped, loop, pend, u, h>>

\* A reset between connect(2) and the report of the socket looks like a failure to connect.
Established == Cardinality(Used) < MaxConns /\ Becomes({"trying"}, "connected")
SelfConnected == Becomes({"trying"}, "self")
ConnectFails == Becomes({"trying"}, "error")
PeerResets == /\ \/ loop.ready = "OUT"
                 \/ \E fd \in Fds : conn[fd] \in {"Connected", "Disconnecting"}
              /\ Becomes({"connected"}, "error")
PeerCloses == Becomes({"connected"}, "eof")

LoopStep == \/ Poll \/ RunTimer \/ RunRemoveConnector \/ HandleDisabled
            \/ handleError \/ handleWriteFails \/ handleWrite
            \/ handleClose \/ removeConnection \/ restart \/ SwapFunctors \/ FunctorsDone
            \/ RunStart \/ RunStop \/ RunReset \/ RunDestroyed \/ RunSetCloseCallback

UserStep == \/ ConnectorStart \/ Start \/ Shutdown \/ ConnectorStop \/ QueueStop \/ DtorQueue \/ DtorDone

Next == \/ LoopStep \/ UserStep
        \/ LoopConnect \/ LoopDisconnect \/ LoopStop \/ LoopDtor
        \/ Connect \/ Disconnect \/ Stop \/ Dtor
        \/ Established \/ SelfConnected \/ ConnectFails \/ PeerResets \/ PeerCloses

\* Retry timers that are set expire; both threads are scheduled.  A server that is
\* tried again and again accepts at some time, and the loop sees it.
ExpireTimers == Poll /\ loop'.due = k.timers
UnderWay == LoopStep /\ \E fd \in Fds : sock[fd] = "free" /\ sock'[fd] = "trying"
Fairness == /\ WF_vars(LoopStep) /\ SF_vars(ExpireTimers) /\ WF_vars(UserStep)
            /\ SF_vars(UnderWay) /\ SF_vars(Established) /\ SF_vars(handleWrite)

Spec == Init /\ [][Next]_vars /\ Fairness

-----------------------------------------------------------------------------
\* Whatever becomes of an attempt (error, self connection, a stop() before or after
\* it succeeds), its socket is closed or is a connection's: the only other open one
\* is that of the attempt under way, which epoll watches.
SocketsAccountedFor ==
  /\ \A fd \in Fds : sock[fd] # "free" =>
        conn[fd] # "none" \/ (k.state = "kConnecting" /\ k.watched /\ fd = k.channel)
  /\ k.watched => k.state = "kConnecting" /\ sock[k.channel] # "free"

\* assert(state_ == kDisconnected) in startInLoop, assert(!channel_) in connecting and the
\* others of Connector and TcpClient hold for a user who connects once: a retry timer never
\* meets another attempt, and a new attempt never a resetChannel still queued.  The
\* exception: a client with retry_ that was stopped or destroyed from another thread.
\* assert(!channel_) in ~Connector does fail, see ConnectorHasNoChannel: when an attempt has
\* ended and its resetChannel is still queued.  It never fails for an attempt under way,
\* unless the client is destroyed from another thread.
AssertsHold ==
  /\ Failed \ {"~Connector"} # {} => c.retry /\ u.remote \cap {"stop", "dtor"} # {}
  /\ "~Connector" \in Failed => ~ k.watched \/ "dtor" \in u.remote

\* "assert(!channel_)": a Connector let go by a client that was destroyed on its loop's
\* thread, when it had a connection, has no channel.  The code does not keep to it: in the
\* iteration in which handleWrite makes the connection, its resetChannel is still queued.
ConnectorHasNoChannel == u.remote = {} /\ swapped # {} => Held \/ k.channel = 0

StopDone == u.stopped /\ u.pc = "idle"
            /\ \A q \in {pend, loop.fns} : \A i \in DOMAIN q : q[i][1] # "stopInLoop"
\* Once stop() has reached the loop, and until connect() is called after it, no attempt is
\* made and none becomes a connection, whatever timers, functors and events were under
\* way (without retry_).
StopIsFinal == [][StopDone /\ u'.stopped /\ ~ c.retry =>
                    /\ k'.watched => k.watched
                    /\ \A fd \in Fds : conn[fd] = "none" => conn'[fd] = "none"]_vars

\* A client destroyed on its loop's thread, in any callback and with an attempt, a
\* retry or a connection under way, is never called again.
LoopDtorIsSafe == "client" \in h.dangling => "dtor" \in u.remote

\* A client told to connect tries until it has a connection, and with retry_ tries
\* again whenever it lost one, unless it is stopped or meets an error that is not
\* retried.
KeepsTrying == k.connect ~> \/ c.connection # 0 \/ Cardinality(Used) = MaxConns
                            \/ ~ c.retry /\ \E fd \in Fds : conn[fd] # "none"
                            \/ ~ k.connect \/ ~ c.connect \/ h.gaveUp \/ ~ Alive \/ ~ c.exists
=============================================================================
