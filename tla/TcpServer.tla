----------------------------- MODULE TcpServer -----------------------------
(***************************************************************************)
(* lotus::net::TcpServer with its Acceptor and its EventLoopThreadPool:    *)
(* accepting when descriptors run out, the round robin over the loops, the *)
(* way a connection takes between the base loop (0) and its own, and the   *)
(* destructor, which runs on the base loop's thread, in a callback or when *)
(* loop() has returned.                                                    *)
(*                                                                         *)
(* A loop's queue and its quit_ are those of module EventLoop, where a     *)
(* queued functor is never slept over.  Functors and callbacks bind the    *)
(* server by a plain pointer: one that runs when the server is destroyed   *)
(* is recorded in dangling, a failed assert or LOG_FATAL in failed, and    *)
(* nothing is said of what the process does after either.  Nothing closes  *)
(* the descriptor of a connection, which is what the code does; that of    *)
(* the listening socket, which nothing closes either, is not counted.      *)
(***************************************************************************)
EXTENDS Naturals, Sequences, FiniteSets

CONSTANTS MaxThreads,   \* bound: threads of the pool
          MaxClients,   \* bound: clients that connect
          MaxFd,        \* bound: descriptors left to the process
          MaxTaken      \* bound: descriptors other threads of the process hold

ASSUME ServerConstants == MaxThreads \in Nat /\ MaxClients \in Nat /\ MaxFd \in Nat
                          /\ MaxTaken \in Nat

VARIABLES
  srv,          \* started_, nextConnId_, threads and next_ of the pool, and how far
                \* the destructor is
  connections,  \* connections_: the numbers in the names
  conn,         \* the TcpConnections: status_, loop, whether the peer closed,
                \* whether connectDestroyed has run
  acc,          \* Acceptor: idleFd_, and how far handleRead is
  net,          \* the clients, the descriptors left at first, those free, those that
                \* other threads took
  lp,           \* of each loop: pc, channels reported, functors running, quit_
  pend,         \* of each loop: pendingFunctors_
  h             \* history: failed, dangling, whether the loop outlived the server, and
                \* whether another thread took a descriptor while idleFd_ was closed

vars == <<srv, connections, conn, acc, net, lp, pend, h>>

Clients == 1..MaxClients
Loops == 0..srv.threads
Alive == h.failed = {} /\ h.dangling = {}
Waiting == {k \in Clients : net.client[k] = "waiting"}
First == CHOOSE k \in Waiting : \A j \in Waiting : k <= j
Answer(k, how, left) == net' = [net EXCEPT !.client[k] = how, !.free = left]
Failing(name) == h' = [h EXCEPT !.failed = @ \cup {name}]
Using(what) == h' = [h EXCEPT !.dangling = @ \cup {what}]
Exists == srv.dtor # "done"
\* The base loop's thread is not inside the destructor or between two calls of handleRead.
BaseFree == srv.dtor \in {"no", "done"} /\ acc.pc = "idle"
At(l, pc) == Alive /\ lp[l].pc = pc /\ (l = 0 => BaseFree)

Init == /\ \E n \in 0..MaxThreads :
              srv = [started |-> FALSE, threads |-> n, next |-> 0, nextConnId |-> 1,
                     dtor |-> "no", joining |-> 1]
        /\ connections = {}
        /\ conn = [id \in Clients |-> [status |-> "none", loop |-> 0, gone |-> FALSE,
                                       destroyed |-> FALSE]]
        /\ acc = [pc |-> "idle", idleFd |-> "devnull"]
        /\ \E n \in 0..MaxFd :
              net = [client |-> [k \in Clients |-> "away"], limit |-> n, free |-> n, taken |-> 0]
        /\ lp = [l \in 0..MaxThreads |-> [pc |-> IF l = 0 THEN "setup" ELSE "none",
                                          ready |-> {}, fns |-> <<>>, quit |-> FALSE]]
        /\ pend = [l \in 0..MaxThreads |-> <<>>]
        /\ h = [failed |-> {}, dangling |-> {}, outlived |-> FALSE, raced |-> FALSE]

-----------------------------------------------------------------------------
(* TcpServer::start, EventLoopThreadPool::start, Acceptor::listen: a second *)
(* call does nothing.                                                       *)
Start == /\ Alive /\ BaseFree /\ Exists /\ lp[0].pc \in {"setup", "functors"} /\ ~ srv.started
         /\ srv' = [srv EXCEPT !.started = TRUE]
         /\ lp' = [l \in DOMAIN lp |-> IF l \in Loops \ {0} THEN [lp[l] EXCEPT !.pc = "poll"]
                                                            ELSE lp[l]]
         /\ UNCHANGED <<connections, conn, acc, net, pend, h>>

BeginLoop == /\ At(0, "setup")
             /\ lp' = [lp EXCEPT ![0].pc = IF lp[0].quit THEN "ended" ELSE "poll"]
             /\ UNCHANGED <<srv, connections, conn, acc, net, pend, h>>

\* EventLoop::quit of the base loop, from any thread.
Quit == /\ Alive /\ ~ lp[0].quit
        /\ lp' = [lp EXCEPT ![0].quit = TRUE]
        /\ UNCHANGED <<srv, connections, conn, acc, net, pend, h>>

-----------------------------------------------------------------------------
(* A loop: poll, the channels reported, the functors that were queued. *)

\* epoll is level triggered: the acceptor is 0, a connection its number.
Reported(l) == {id \in Clients : conn[id].loop = l /\ conn[id].status = "Connected" /\ conn[id].gone}
               \cup (IF l = 0 /\ srv.started /\ Exists /\ Waiting # {} THEN {0} ELSE {})

Poll(l) == /\ At(l, "poll")
           /\ Reported(l) # {} \/ pend[l] # <<>> \/ lp[l].quit
           /\ lp' = [lp EXCEPT ![l].pc = "events", ![l].ready = Reported(l)]
           /\ UNCHANGED <<srv, connections, conn, acc, net, pend, h>>

SwapFunctors(l) == /\ At(l, "events") /\ lp[l].ready = {}
                   /\ lp' = [lp EXCEPT ![l].pc = "functors", ![l].fns = pend[l]]
                   /\ pend' = [pend EXCEPT ![l] = <<>>]
                   /\ UNCHANGED <<srv, connections, conn, acc, net, h>>

\* The loop's thread ends with what was queued meanwhile not run.
FunctorsDone(l) == /\ At(l, "functors") /\ lp[l].fns = <<>>
                   /\ lp' = [lp EXCEPT ![l].pc = IF lp[l].quit THEN "ended" ELSE "poll"]
                   /\ UNCHANGED <<srv, connections, conn, acc, net, pend, h>>

Run(l, op) == /\ At(l, "functors") /\ lp[l].fns # <<>> /\ Head(lp[l].fns)[1] = op
              /\ lp' = [lp EXCEPT ![l].fns = Tail(@)]
              /\ UNCHANGED <<srv, acc, net>>

Handle(l, ch) == /\ At(l, "events") /\ ch \in lp[l].ready
                 /\ lp' = [lp EXCEPT ![l].ready = @ \ {ch}]

-----------------------------------------------------------------------------
(* Connections *)

queueInLoop(l, op, id) == pend' = [pend EXCEPT ![l] = Append(@, <<op, id>>)]

\* EventLoopThreadPool::getNextLoop; the loops of the pool are 1..threads.
getNextLoop == IF srv.threads = 0 THEN 0 ELSE srv.next + 1

\* Mutant: the connection is not put into connections_.
newConnectionUnkept(k) ==
  LET id == srv.nextConnId  l == getNextLoop
  IN  /\ srv' = [srv EXCEPT !.nextConnId = @ + 1,
                            !.next = IF @ + 1 >= srv.threads THEN 0 ELSE @ + 1]
      /\ conn' = [conn EXCEPT ![id].loop = l,
                              ![id].status = IF l = 0 THEN "Connected" ELSE "Connecting"]
      /\ IF l = 0 THEN UNCHANGED pend ELSE queueInLoop(l, "connectEstablished", id)
      /\ UNCHANGED <<connections, h>>

\* On the base loop connectEstablished runs at once.
newConnection(k) ==
  LET id == srv.nextConnId  l == getNextLoop
  IN  /\ srv' = [srv EXCEPT !.nextConnId = @ + 1,
                            !.next = IF @ + 1 >= srv.threads THEN 0 ELSE @ + 1]
      /\ connections' = connections \cup {id}
      /\ conn' = [conn EXCEPT ![id].loop = l,
                              ![id].status = IF l = 0 THEN "Connected" ELSE "Connecting"]
      /\ IF l = 0 THEN UNCHANGED pend ELSE queueInLoop(l, "connectEstablished", id)
      /\ UNCHANGED h

connectEstablished(l) ==
  /\ Run(l, "connectEstablished")
  /\ LET id == Head(lp[l].fns)[2]
     IN  IF conn[id].status = "Connecting"
           THEN conn' = [conn EXCEPT ![id].status = "Connected"] /\ UNCHANGED h
           ELSE Failing("connectEstablished") /\ UNCHANGED conn
  /\ UNCHANGED <<connections, pend>>

Destroyed(id) == conn' = [conn EXCEPT ![id].destroyed = TRUE, ![id].status =
                             IF @ = "Connected" THEN "Disconnected" ELSE @]

connectDestroyed(l) == /\ Run(l, "connectDestroyed")
                       /\ Destroyed(Head(lp[l].fns)[2])
                       /\ UNCHANGED <<connections, pend, h>>

\* The erase, its assert(n == 1), and connectDestroyed queued for the connection's loop.
Removed(id) == /\ IF id \in connections THEN UNCHANGED h ELSE Failing("removeConnectionInLoop")
               /\ connections' = connections \ {id}
               /\ queueInLoop(conn[id].loop, "connectDestroyed", id)

\* Mutant: the base loop is not told.
handleCloseUntold(l) ==
  \E id \in lp[l].ready \ {0} :
     /\ Handle(l, id)
     /\ conn' = [conn EXCEPT ![id].status = "Disconnected"]
     /\ UNCHANGED <<srv, connections, acc, net, pend, h>>

\* TcpConnection::handleClose and its closeCallback_, TcpServer::removeConnection.
handleClose(l) ==
  \E id \in lp[l].ready \ {0} :
     /\ Handle(l, id)
     /\ conn' = [conn EXCEPT ![id].status = "Disconnected"]
     /\ CASE ~ Exists -> Using("server") /\ UNCHANGED <<connections, pend>>
          [] Exists /\ l = 0 -> Removed(id)
          [] Exists /\ l # 0 -> queueInLoop(0, "removeConnectionInLoop", id)
                                /\ UNCHANGED <<connections, h>>
     /\ UNCHANGED <<srv, acc, net>>

removeConnectionInLoop ==
  /\ Run(0, "removeConnectionInLoop")
  /\ IF Exists THEN Removed(Head(lp[0].fns)[2])
               ELSE Using("server") /\ UNCHANGED <<connections, pend>>
  /\ UNCHANGED conn

-----------------------------------------------------------------------------
(* Acceptor::handleRead, one step to a system call when accept fails *)

\* Mutant: nothing is done about EMFILE.
AcceptGivesUp == /\ Handle(0, 0) /\ Exists
                 /\ IF net.free > 0 /\ Waiting # {}
                      THEN Answer(First, "accepted", net.free - 1) /\ newConnection(First)
                      ELSE UNCHANGED <<srv, connections, conn, net, pend, h>>
                 /\ UNCHANGED acc

Accept == /\ Handle(0, 0)
          /\ Exists
          /\ \/ /\ net.free > 0 /\ Waiting # {}
                /\ Answer(First, "accepted", net.free - 1)
                /\ newConnection(First)
                /\ UNCHANGED acc
             \/ /\ net.free > 0 /\ Waiting = {}
                /\ UNCHANGED <<srv, connections, conn, acc, net, pend, h>>
             \/ /\ net.free = 0
                /\ acc' = [acc EXCEPT !.pc = "closeIdle"]
                /\ UNCHANGED <<srv, connections, conn, net, pend, h>>

\* The acceptor was destroyed by a callback that ran before in the same iteration.
AcceptorGone == /\ Handle(0, 0)
                /\ ~ Exists
                /\ Using("acceptor")
                /\ UNCHANGED <<srv, connections, conn, acc, net, pend>>

\* ENFILE, ENOBUFS and ENOMEM are LOG_FATAL.
AcceptFatal == /\ Handle(0, 0)
               /\ Exists /\ Waiting # {}
               /\ Failing("accept")
               /\ UNCHANGED <<srv, connections, conn, acc, net, pend>>

Syscall(pc, next) == /\ Alive /\ acc.pc = pc
                     /\ acc' = [acc EXCEPT !.pc = next]
                     /\ UNCHANGED <<srv, connections, conn, lp, pend, h>>

\* close(-1) does nothing.
CloseIdle == /\ Syscall("closeIdle", "acceptIdle")
             /\ net' = [net EXCEPT !.free = IF acc.idleFd = "devnull" THEN @ + 1 ELSE @]

AcceptIdle == /\ Alive /\ acc.pc = "acceptIdle"
              /\ IF net.free > 0 /\ Waiting # {}
                   THEN /\ Answer(First, "refused", net.free - 1)
                        /\ acc' = [pc |-> "closeAgain", idleFd |-> "client"]
                   ELSE acc' = [pc |-> "closeAgain", idleFd |-> "none"] /\ UNCHANGED net
              /\ UNCHANGED <<srv, connections, conn, lp, pend, h>>

\* Mutant: the client that was accepted to be turned away is not closed.
CloseAgainLeaks == Syscall("closeAgain", "openIdle") /\ UNCHANGED net

CloseAgain == /\ Syscall("closeAgain", "openIdle")
              /\ net' = [net EXCEPT !.free = IF acc.idleFd = "client" THEN @ + 1 ELSE @]

OpenIdle == /\ Alive /\ acc.pc = "openIdle"
            /\ acc' = [pc |-> "idle", idleFd |-> IF net.free > 0 THEN "devnull" ELSE "none"]
            /\ net' = [net EXCEPT !.free = IF @ > 0 THEN @ - 1 ELSE @]
            /\ UNCHANGED <<srv, connections, conn, lp, pend, h>>

-----------------------------------------------------------------------------
(* ~TcpServer: the connections left, then the members: the pool quits and  *)
(* joins its threads one after the other, the acceptor closes idleFd_.     *)

DtorBegin == /\ Alive /\ BaseFree /\ srv.dtor = "no"
             /\ lp[0].pc \in {"setup", "events", "functors", "ended"}
             /\ srv' = [srv EXCEPT !.dtor = "connections"]
             /\ h' = [h EXCEPT !.outlived = lp[0].pc # "ended"]
             /\ UNCHANGED <<connections, conn, acc, net, lp, pend>>

DtorStep(pc) == Alive /\ srv.dtor = pc /\ UNCHANGED <<acc, net, h>>

DtorConnection == /\ DtorStep("connections")
                  /\ \E id \in connections :
                        /\ connections' = connections \ {id}
                        /\ IF conn[id].loop = 0
                             THEN Destroyed(id) /\ UNCHANGED pend
                             ELSE /\ queueInLoop(conn[id].loop, "connectDestroyed", id)
                                  /\ UNCHANGED conn
                  /\ UNCHANGED <<srv, lp>>

DtorPool == /\ DtorStep("connections") /\ connections = {}
            /\ srv' = [srv EXCEPT !.dtor = "pool"]
            /\ UNCHANGED <<connections, conn, lp, pend>>

Joining == srv.started /\ srv.joining <= srv.threads

QuitThread == /\ DtorStep("pool") /\ Joining /\ ~ lp[srv.joining].quit
              /\ lp' = [lp EXCEPT ![srv.joining].quit = TRUE]
              /\ UNCHANGED <<srv, connections, conn, pend>>

\* Mutant: the destructor of a thread does not join it.
DetachThread == /\ DtorStep("pool") /\ Joining /\ lp[srv.joining].quit
                /\ srv' = [srv EXCEPT !.joining = @ + 1]
                /\ UNCHANGED <<connections, conn, lp, pend>>

JoinThread == /\ DtorStep("pool") /\ Joining /\ lp[srv.joining].quit
              /\ lp[srv.joining].pc = "ended"
              /\ srv' = [srv EXCEPT !.joining = @ + 1]
              /\ UNCHANGED <<connections, conn, lp, pend>>

\* ~Acceptor, the last member that does something.
DtorDone == /\ Alive /\ srv.dtor = "pool" /\ ~ Joining
            /\ srv' = [srv EXCEPT !.dtor = "done"]
            /\ acc' = [acc EXCEPT !.idleFd = "none"]
            /\ net' = [net EXCEPT !.free = IF acc.idleFd = "devnull" THEN @ + 1 ELSE @]
            /\ UNCHANGED <<connections, conn, lp, pend, h>>

-----------------------------------------------------------------------------
(* The clients, and the other threads of the process *)

Environment == Alive /\ UNCHANGED <<srv, connections, acc, lp, pend>>
Client == Environment /\ UNCHANGED <<conn, h>>

ClientConnects == /\ Client /\ srv.started /\ Exists
                  /\ \E k \in Clients : /\ net.client[k] = "away"
                                        /\ \A j \in 1..(k - 1) : net.client[j] # "away"
                                        /\ Answer(k, "waiting", net.free)

ClientLeaves == Client /\ \E k \in Waiting : Answer(k, "left", net.free)

PeerCloses == /\ Environment /\ UNCHANGED <<net, h>>
              /\ \E id \in Clients : /\ conn[id].status = "Connected"
                                     /\ conn' = [conn EXCEPT ![id].gone = TRUE]

\* At other times it is as if there were one less from the start.
TakeFd == /\ Environment /\ UNCHANGED conn
          /\ acc.pc # "idle" /\ net.free > 0 /\ net.taken < MaxTaken
          /\ net' = [net EXCEPT !.free = @ - 1, !.taken = @ + 1]
          /\ h' = [h EXCEPT !.raced = TRUE]

GiveFd == /\ Environment /\ UNCHANGED <<conn, h>>
          /\ net.taken > 0
          /\ net' = [net EXCEPT !.free = @ + 1, !.taken = @ - 1]

LoopStep(l) == \/ Poll(l) \/ SwapFunctors(l) \/ FunctorsDone(l)
               \/ connectEstablished(l) \/ connectDestroyed(l) \/ handleClose(l)

BaseStep == \/ LoopStep(0) \/ BeginLoop \/ removeConnectionInLoop
            \/ Accept \/ AcceptorGone \/ CloseIdle \/ AcceptIdle \/ CloseAgain \/ OpenIdle
            \/ DtorConnection \/ DtorPool \/ QuitThread \/ JoinThread \/ DtorDone

Next == \/ BaseStep \/ AcceptFatal \/ \E l \in 1..MaxThreads : LoopStep(l)
        \/ Start \/ Quit \/ DtorBegin
        \/ ClientConnects \/ ClientLeaves \/ PeerCloses \/ TakeFd \/ GiveFd

\* Every loop's thread is scheduled; nothing is assumed of clients and other threads.
Fairness == WF_vars(BaseStep) /\ \A l \in 1..MaxThreads : WF_vars(LoopStep(l))

Spec == Init /\ [][Next]_vars /\ Fairness

-----------------------------------------------------------------------------
Queued(l, op, id) == \E q \in {pend[l], lp[l].fns} : \E i \in DOMAIN q : q[i] = <<op, id>>
Made == {id \in Clients : conn[id].status # "none"}

\* A connection that was made is in connections_ until the base loop is told of its
\* end, once, and is then on its way to connectDestroyed: none is forgotten and
\* assert(n == 1) holds.  One that ~TcpServer passes on may stay queued for a loop
\* that ends.
NoConnectionForgotten ==
  /\ "removeConnectionInLoop" \notin h.failed
  /\ Exists => \A id \in Made :
        /\ id \in connections \/ conn[id].destroyed
           \/ Queued(conn[id].loop, "connectDestroyed", id) \/ srv.dtor # "no"
        /\ id \in connections => ~ conn[id].destroyed
                                 /\ ~ Queued(conn[id].loop, "connectDestroyed", id)

\* A connection exists while connections_ or a queued functor has a pointer to it.
Existing == {id \in Clients :
               \/ id \in connections
               \/ Queued(0, "removeConnectionInLoop", id)
               \/ Queued(conn[id].loop, "connectEstablished", id)
               \/ Queued(conn[id].loop, "connectDestroyed", id)}

\* Each descriptor is free, another thread's, held by idleFd_, or that of one of S.
Accounted(S) ==
  LET idle == CASE acc.pc \in {"idle", "closeIdle"} -> acc.idleFd = "devnull"
                [] acc.pc = "closeAgain" -> acc.idleFd = "client"
                [] OTHER -> FALSE
  IN  net.free + net.taken + Cardinality(S) + (IF idle THEN 1 ELSE 0) = net.limit + 1

\* Accepting at the limit of descriptors loses none, nor does ~TcpServer: beside those of
\* the connections that exist, only those are missing that ~TcpConnection does not close
\* (DtorClosesFd), of connections for which connectDestroyed has run.
DescriptorsKept == Accounted(Existing \cup {id \in Clients : conn[id].destroyed})

\* "we don't close fd, leave it to dtor, so we can find leaks easily": the descriptor of a
\* connection that does not exist any more is free again.  The code does not do this:
\* neither ~TcpConnection nor ~Channel closes it.
DtorClosesFd == Accounted(Existing)

\* The pool's threads are over before the server is: only a base loop that goes on
\* after ~TcpServer can run something of a server that was destroyed.
NoThreadOutlivesServer == h.dangling # {} => h.outlived

\* A client that waits is accepted or turned away, also when there is no descriptor
\* left, unless another thread took one between two system calls of handleRead.
WaitingIsAnswered ==
  \A k \in Clients : net.client[k] = "waiting" ~>
     net.client[k] # "waiting" \/ h.raced \/ srv.dtor # "no" \/ lp[0].quit \/ ~ Alive

\* A connection whose peer closes is destroyed, after two queues and two threads.
ClosedIsDestroyed ==
  \A id \in Clients : conn[id].gone ~>
     conn[id].destroyed \/ srv.dtor # "no" \/ lp[0].quit \/ ~ Alive
=============================================================================
