-------------------------- MODULE TcpClientProofs --------------------------
(***************************************************************************)
(* Proofs about module TcpClient, for any number of descriptors,           *)
(* connections and calls.                                                  *)
(***************************************************************************)
EXTENDS TcpClient, SequenceTheorems, TLAPS

Plain == {"startInLoop", "stopInLoop", "resetChannel"}
Functors == (Plain \X {0}) \cup ({"connectDestroyed", "setCloseCallback"} \X (0..MaxFd))
StartF == <<"startInLoop", 0>>
StopF == <<"stopInLoop", 0>>
ResetF == <<"resetChannel", 0>>

Has(s, x) == \E i \in DOMAIN s : s[i] = x
Once(s, x) == \A i, j \in DOMAIN s : s[i] = x /\ s[j] = x => i = j
\* A functor that is still to run.
Due(x) == Has(loop.fns, x) \/ Has(pend, x)
DueOnce(x) == /\ Once(loop.fns, x) /\ Once(pend, x)
              /\ ~ (Has(loop.fns, x) /\ Has(pend, x))

KType == [connect : BOOLEAN, state : {"kDisconnected", "kConnecting", "kConnected"},
          channel : 0..MaxFd, watched : BOOLEAN, timers : Nat]
CType == [retry : BOOLEAN, connect : BOOLEAN, connection : 0..MaxFd, exists : BOOLEAN,
          hack : BOOLEAN]
LoopType == [pc : {"poll", "events", "close", "restart", "functors"},
             ready : {"none", "ERR", "OUT"}, due : Nat, closing : 0..MaxFd,
             fns : Seq(Functors)]
UPcs == {"idle", "connect", "startInLoop", "shutdown", "stop", "stopInLoop", "dtorStop",
         "dtorQueue", "dtorSwap"}
UType == [pc : UPcs, calls : Nat, connected : BOOLEAN, stopped : BOOLEAN,
          remote : SUBSET (UPcs \cup {"dtor"})]
Names == {"connecting", "startInLoop", "handleError", "removeConnection", "client",
          "connector", "channel"}
HType == [failed : SUBSET Names, dangling : SUBSET Names, gaveUp : BOOLEAN]

ClientTypeOK ==
  /\ k \in KType /\ c \in CType /\ loop \in LoopType /\ u \in UType /\ h \in HType
  /\ conn \in [Fds -> {"none", "Connected", "Disconnecting", "Disconnected", "Destroyed"}]
  /\ sock \in [Fds -> {"free", "trying", "connected", "eof", "error", "self"}]
  /\ swapped \subseteq 0..MaxFd
  /\ pend \in Seq(Functors)

Up(fd) == conn[fd] \in {"Connected", "Disconnecting"}
Sane == h.failed = {} /\ h.dangling = {}
Excused == c.retry /\ u.remote \cap {"stop", "dtor"} # {}
\* The other thread is inside connect().
ConnectPcs == {"connect", "startInLoop"}
\* Not told to connect, or told and the loop has not run it yet.
Fresh == ~ u.connected \/ u.pc \in ConnectPcs \/ Due(StartF)

\* Timers that are due are set, and only a loop at its functors has some left.
LoopKept == loop.due <= k.timers /\ (loop.pc # "functors" => loop.fns = <<>>)

\* channel_ is watched while an attempt is under way, on an open descriptor that is no
\* connection's; the other open ones are connections'.
SocketsKept ==
  /\ k.watched <=> k.state = "kConnecting"
  /\ k.watched => k.channel \in Fds /\ sock[k.channel] # "free" /\ conn[k.channel] = "none"
  /\ \A fd \in Fds :
        /\ sock[fd] # "free" => conn[fd] # "none" \/ (k.watched /\ fd = k.channel)
        /\ conn[fd] # "none" => sock[fd] # "free"
        /\ Due(<<"connectDestroyed", fd>>) => conn[fd] # "none"

\* After an attempt one resetChannel is due, until it has run.
ResetKept == (Due(ResetF) <=> k.channel # 0 /\ ~ k.watched) /\ DueOnce(ResetF)

\* One connection at a time: the one that is up, or that goes down, is connection_, and
\* the state is kConnected until restart().
OneConnection ==
  /\ \A fd \in Fds : Up(fd) => c.connection = fd
  /\ c.connection # 0 \/ loop.pc = "restart" => k.state = "kConnected"
  /\ loop.pc = "events" /\ loop.closing # 0 => Up(loop.closing)
  /\ loop.pc = "close" => /\ loop.closing # 0 /\ c.connection = loop.closing
                          /\ conn[loop.closing] = "Disconnected"
  /\ loop.pc = "restart" => c.connection = 0 /\ c.retry
  /\ loop.closing # 0 => loop.pc \in {"events", "close"}

\* A client destroyed on its loop's thread has no attempt that could become a connection,
\* and none of the other thread's calls is half done.
GoneQuietly ==
  /\ u.pc \in {"dtorStop", "dtorQueue", "dtorSwap"} => "dtor" \in u.remote
  /\ u.pc # "idle" => c.exists
  /\ ~ c.exists /\ "dtor" \notin u.remote =>
       IF c.connection # 0 THEN c.connection \in swapped
                           ELSE ~ k.connect /\ ~ k.watched /\ loop.pc # "restart"

\* At most one attempt, one retry timer or one connection.
OneAttempt == k.timers <= 1 /\ (k.state # "kDisconnected" => k.timers = 0)

\* A user who connects once: nothing has happened before startInLoop has run.
StartsOnce ==
  /\ Fresh => k.state = "kDisconnected" /\ k.timers = 0 /\ k.channel = 0
              /\ c.connection = 0 /\ loop.pc # "restart"
  /\ ~ u.connected \/ u.pc \in ConnectPcs => ~ Due(StartF)
  /\ u.pc \in ConnectPcs => u.connected
  /\ DueOnce(StartF)

\* A stop that has reached the loop, without retry_.
StopsFinally ==
  /\ Due(StopF) => u.stopped \/ ~ c.exists \/ u.pc = "dtorSwap"
  /\ u.pc = "stopInLoop" => u.stopped
  /\ u.pc = "connect" => ~ Due(StopF)
  /\ Due(StopF) \/ u.pc \in {"stop", "stopInLoop"} => u.remote \cap {"stop", "dtor"} # {}
  /\ ~ c.retry /\ (u.stopped \/ Due(StopF) \/ u.pc \in {"stopInLoop", "dtorQueue"})
       => ~ k.connect

\* A new attempt never meets the channel of the one before.
ChannelIsFree ==
  /\ loop.due > 0 => k.channel = 0 \/ ~ k.connect
  /\ loop.pc \in {"close", "restart"} \/ loop.closing # 0 => k.channel = 0
  /\ loop.pc = "poll" /\ k.channel # 0 /\ ~ k.watched => k.state = "kDisconnected" /\ ~ k.connect
  /\ loop.pc = "functors" /\ k.channel # 0 /\ ~ k.watched =>
       Has(loop.fns, ResetF) \/ (k.state = "kDisconnected" /\ ~ k.connect)

-----------------------------------------------------------------------------
(* The queues *)

LEMMA HasAppend ==
  ASSUME NEW S, NEW s \in Seq(S), NEW e \in S
  PROVE  /\ Append(s, e) \in Seq(S)
         /\ \A x : Has(Append(s, e), x) <=> Has(s, x) \/ x = e
         /\ \A x : Once(s, x) /\ (x # e \/ ~ Has(s, x)) => Once(Append(s, e), x)
<1> DEFINE t == Append(s, e)
<1>1. /\ t \in Seq(S) /\ Len(t) = Len(s) + 1 /\ t[Len(s) + 1] = e
      /\ \A i \in 1..Len(s) : t[i] = s[i]
  BY AppendProperties
<1>2. Len(s) \in Nat /\ DOMAIN s = 1..Len(s) /\ DOMAIN t = 1..(Len(s) + 1)
  BY <1>1, LenProperties
<1>3. \A i \in DOMAIN t : i \in DOMAIN s \/ i = Len(s) + 1
  BY <1>2
<1>4. \A i \in DOMAIN s : i \in DOMAIN t /\ t[i] = s[i]
  BY <1>1, <1>2
<1>5. Len(s) + 1 \in DOMAIN t
  BY <1>2
<1> HIDE DEF t
<1>6. \A x : Has(t, x) <=> Has(s, x) \/ x = e
  BY <1>1, <1>3, <1>4, <1>5 DEF Has
<1>7. ASSUME NEW x, Once(s, x), x # e \/ ~ Has(s, x) PROVE Once(t, x)
  BY <1>1, <1>3, <1>4, <1>7 DEF Has, Once
<1> QED BY <1>1, <1>6, <1>7 DEF t

LEMMA HasTail ==
  ASSUME NEW S, NEW s \in Seq(S), s # <<>>
  PROVE  /\ Head(s) \in S /\ Tail(s) \in Seq(S) /\ Has(s, Head(s))
         /\ \A x : Has(Tail(s), x) => Has(s, x)
         /\ \A x : Has(s, x) => Has(Tail(s), x) \/ x = Head(s)
         /\ \A x : Once(s, x) => Once(Tail(s), x) /\ (x = Head(s) => ~ Has(Tail(s), x))
<1> DEFINE t == Tail(s)
<1>1. /\ t \in Seq(S) /\ Len(t) = Len(s) - 1 /\ Head(s) = s[1] /\ Head(s) \in S
      /\ \A i \in 1..Len(t) : t[i] = s[i + 1]
  BY HeadTailProperties
<1>2. Len(s) \in Nat \ {0} /\ DOMAIN s = 1..Len(s) /\ DOMAIN t = 1..(Len(s) - 1)
  BY <1>1, LenProperties, EmptySeq
<1>3. \A i \in DOMAIN t : i \in Nat /\ i + 1 \in DOMAIN s /\ i + 1 # 1 /\ t[i] = s[i + 1]
  BY <1>1, <1>2
<1>4. \A i \in DOMAIN s : i = 1 \/ \E j \in DOMAIN t : j + 1 = i
  <2>1. ASSUME NEW i \in DOMAIN s, i # 1 PROVE i - 1 \in DOMAIN t /\ (i - 1) + 1 = i
    BY <1>2, <2>1
  <2> QED BY <2>1
<1>5. 1 \in DOMAIN s
  BY <1>2
<1> HIDE DEF t
<1>6. Has(s, Head(s)) /\ \A x : Has(t, x) => Has(s, x)
  BY <1>1, <1>3, <1>5 DEF Has
<1>7. \A x : Has(s, x) => Has(t, x) \/ x = Head(s)
  BY <1>1, <1>3, <1>4 DEF Has
<1>8. ASSUME NEW x, Once(s, x) PROVE Once(t, x) /\ (x = Head(s) => ~ Has(t, x))
  <2>1. \A i, j \in DOMAIN t : t[i] = x /\ t[j] = x => i = j
    <3>1. ASSUME NEW i \in DOMAIN t, NEW j \in DOMAIN t, t[i] = x, t[j] = x PROVE i + 1 = j + 1
      BY <1>3, <1>8, <3>1 DEF Once
    <3> QED BY <1>3, <3>1
  <2>2. ASSUME x = Head(s), NEW i \in DOMAIN t, t[i] = x PROVE FALSE
    BY <1>1, <1>3, <1>5, <1>8, <2>2 DEF Once
  <2> QED BY <2>1, <2>2 DEF Once, Has
<1> QED BY <1>1, <1>6, <1>7, <1>8 DEF t

LEMMA HasEmpty == \A x : ~ Has(<<>>, x) /\ Once(<<>>, x)
BY EmptySeq DEF Has, Once

\* queueInLoop: x is due, and nothing else becomes so.
Queued(x) == /\ \A y : Has(loop'.fns, y) <=> Has(loop.fns, y)
             /\ \A y : Due(y)' <=> Due(y) \/ y = x
             /\ \A y : DueOnce(y) /\ (y # x \/ ~ Due(y)) => DueOnce(y)'
\* A functor leaves what runs.
Taken(x) == /\ Has(loop.fns, x)
            /\ \A y : y # x => (Has(loop'.fns, y) <=> Has(loop.fns, y))
            /\ \A y : y # x => (Due(y)' <=> Due(y))
            /\ \A y : Due(y)' => Due(y)
            /\ \A y : DueOnce(y) => DueOnce(y)' /\ (y = x => ~ Due(y)')
Untouched == /\ \A y : Has(loop'.fns, y) <=> Has(loop.fns, y)
             /\ \A y : Due(y)' <=> Due(y)
             /\ \A y : DueOnce(y) => DueOnce(y)'

LEMMA QueueEffect ==
  ASSUME ClientTypeOK, loop'.fns = loop.fns, NEW op, NEW fd, <<op, fd>> \in Functors,
         queueInLoop(op, fd)
  PROVE  pend' \in Seq(Functors) /\ Queued(<<op, fd>>)
<1> DEFINE x == <<op, fd>>
<1>1. x \in Functors /\ pend \in Seq(Functors) /\ pend' = Append(pend, x)
  BY DEF Functors, ClientTypeOK, queueInLoop
<1> HIDE DEF x
<1>2. /\ pend' \in Seq(Functors) /\ \A y : Has(pend', y) <=> Has(pend, y) \/ y = x
      /\ \A y : Once(pend, y) /\ (y # x \/ ~ Has(pend, y)) => Once(pend', y)
  BY <1>1, HasAppend
<1>3. Queued(x)
  BY <1>2 DEF Queued, Due, DueOnce
<1> QED BY <1>2, <1>3 DEF x

LEMMA NoQueueEffect ==
  ASSUME loop'.fns = loop.fns, pend' = pend
  PROVE  Untouched
BY DEF Untouched, Due, DueOnce

\* Run takes the first functor; the loop stays where it is.
LEMMA RunEffect ==
  ASSUME ClientTypeOK, NEW op, Run(op)
  PROVE  /\ loop.pc = "functors" /\ loop' \in LoopType /\ loop'.pc = loop.pc
         /\ loop'.ready = loop.ready /\ loop'.due = loop.due /\ loop'.closing = loop.closing
         /\ u' = u /\ Head(loop.fns) = <<op, Head(loop.fns)[2]>> /\ Head(loop.fns)[2] \in 0..MaxFd
         /\ op \in Plain => Head(loop.fns) = <<op, 0>>
         /\ pend' = pend => Taken(Head(loop.fns))
         /\ loop'.fns = Tail(loop.fns) /\ loop.fns \in Seq(Functors) /\ loop.fns # <<>>
<1>1. loop.fns \in Seq(Functors) /\ loop.fns # <<>> /\ loop \in LoopType
  BY DEF ClientTypeOK, LoopType, Run
<1> DEFINE new == Tail(loop.fns)
<1>2. /\ Head(loop.fns) \in Functors /\ new \in Seq(Functors) /\ Has(loop.fns, Head(loop.fns))
      /\ \A x : Has(new, x) => Has(loop.fns, x)
      /\ \A x : Has(loop.fns, x) => Has(new, x) \/ x = Head(loop.fns)
      /\ \A x : Once(loop.fns, x) => Once(new, x) /\ (x = Head(loop.fns) => ~ Has(new, x))
  BY <1>1, HasTail
<1>3. loop' = [loop EXCEPT !.fns = new] /\ loop.pc = "functors" /\ u' = u /\ Head(loop.fns)[1] = op
  BY DEF Run, At
<1> HIDE DEF new
<1>4. /\ loop' \in LoopType /\ loop'.pc = loop.pc /\ loop'.fns = new
      /\ loop'.ready = loop.ready /\ loop'.due = loop.due /\ loop'.closing = loop.closing
  BY <1>1, <1>2, <1>3 DEF LoopType
<1>5. /\ Head(loop.fns) = <<op, Head(loop.fns)[2]>> /\ Head(loop.fns)[2] \in 0..MaxFd
      /\ op \in Plain => Head(loop.fns) = <<op, 0>>
  BY <1>2, <1>3, ClientConstants DEF Functors, Plain
<1>6. pend' = pend => Taken(Head(loop.fns))
  BY <1>2, <1>4 DEF Taken, Due, DueOnce
<1> QED BY <1>1, <1>3, <1>4, <1>5, <1>6 DEF new

-----------------------------------------------------------------------------
(* The Connector's operations: what the fields are afterwards *)

LEMMA RetryEffect ==
  ASSUME NEW kk \in KType
  PROVE  /\ retry(kk) \in KType /\ retry(kk).state = "kDisconnected"
         /\ retry(kk).connect = kk.connect /\ retry(kk).channel = kk.channel
         /\ retry(kk).watched = kk.watched
         /\ retry(kk).timers = IF kk.connect THEN kk.timers + 1 ELSE kk.timers
<1> DEFINE n == IF kk.connect THEN kk.timers + 1 ELSE kk.timers
           mid == [kk EXCEPT !.state = "kDisconnected"]
<1>1. n \in Nat
  BY DEF KType
<1>2. /\ mid \in KType /\ mid.state = "kDisconnected" /\ mid.connect = kk.connect
      /\ mid.channel = kk.channel /\ mid.watched = kk.watched /\ mid.timers = kk.timers
  BY DEF KType
<1>3. retry(kk) = [mid EXCEPT !.timers = n]
  BY <1>2 DEF retry
<1> HIDE DEF n, mid
<1>4. /\ retry(kk) \in KType /\ retry(kk).state = mid.state
      /\ retry(kk).connect = mid.connect /\ retry(kk).channel = mid.channel
      /\ retry(kk).watched = mid.watched /\ retry(kk).timers = n
  BY <1>1, <1>2, <1>3 DEF KType
<1> QED BY <1>2, <1>4 DEF n

LEMMA UnwatchEffect ==
  ASSUME NEW kk \in KType, NEW r, r = removeAndResetChannel(kk)
  PROVE  /\ r \in KType /\ r.state = kk.state /\ r.connect = kk.connect
         /\ r.channel = kk.channel /\ r.watched = FALSE /\ r.timers = kk.timers
BY DEF removeAndResetChannel, KType

Trying(kk, fd) == [kk EXCEPT !.state = "kConnecting", !.channel = fd, !.watched = TRUE]

LEMMA TryEffect ==
  ASSUME NEW kk \in KType, NEW fd \in Fds, NEW r, r = Trying(kk, fd)
  PROVE  /\ r \in KType /\ r.state = "kConnecting" /\ r.connect = kk.connect
         /\ r.channel = fd /\ r.watched /\ r.timers = kk.timers
<1> DEFINE m1 == [kk EXCEPT !.state = "kConnecting"]
           m2 == [m1 EXCEPT !.channel = fd]
<1>1. fd \in 0..MaxFd
  BY ClientConstants DEF Fds
<1>2. /\ m1 \in KType /\ m1.state = "kConnecting" /\ m1.connect = kk.connect
      /\ m1.timers = kk.timers
  BY DEF KType
<1> HIDE DEF m1
<1>3. /\ m2 \in KType /\ m2.state = "kConnecting" /\ m2.connect = kk.connect
      /\ m2.timers = kk.timers /\ m2.channel = fd
  BY <1>1, <1>2 DEF KType
<1>4. r = [m2 EXCEPT !.watched = TRUE]
  BY DEF m1, m2, Trying
<1> HIDE DEF m2
<1> QED BY <1>3, <1>4 DEF KType

\* connect_ set, a timer that has fired, and the state of a connection that was lost.
Flagged(kk, b) == [kk EXCEPT !.connect = b]
Fired(kk) == [kk EXCEPT !.timers = @ - 1]
Restarted(kk) == [kk EXCEPT !.state = "kDisconnected", !.connect = TRUE]

LEMMA FlagEffect ==
  ASSUME NEW kk \in KType, NEW b \in BOOLEAN, NEW r, r = Flagged(kk, b)
  PROVE  /\ r \in KType /\ r.state = kk.state /\ r.connect = b /\ r.channel = kk.channel
         /\ r.watched = kk.watched /\ r.timers = kk.timers
BY DEF KType, Flagged

LEMMA FireEffect ==
  ASSUME NEW kk \in KType, kk.timers > 0, NEW r, r = Fired(kk)
  PROVE  /\ r \in KType /\ r.state = kk.state /\ r.connect = kk.connect
         /\ r.channel = kk.channel /\ r.watched = kk.watched /\ r.timers = kk.timers - 1
<1> DEFINE n == kk.timers - 1
<1>1. n \in Nat
  BY DEF KType
<1>2. r = [kk EXCEPT !.timers = n]
  BY DEF Fired
<1> HIDE DEF n
<1>3. /\ r \in KType /\ r.state = kk.state /\ r.connect = kk.connect
      /\ r.channel = kk.channel /\ r.watched = kk.watched /\ r.timers = n
  BY <1>1, <1>2 DEF KType
<1> QED BY <1>3 DEF n

LEMMA RestartEffect ==
  ASSUME NEW kk \in KType, NEW r, r = Restarted(kk)
  PROVE  /\ r \in KType /\ r.state = "kDisconnected" /\ r.connect /\ r.channel = kk.channel
         /\ r.watched = kk.watched /\ r.timers = kk.timers
<1> DEFINE m == [kk EXCEPT !.state = "kDisconnected"]
<1>1. /\ m \in KType /\ m.state = "kDisconnected" /\ m.channel = kk.channel
      /\ m.watched = kk.watched /\ m.timers = kk.timers
  BY DEF KType
<1>2. r = [m EXCEPT !.connect = TRUE]
  BY DEF Restarted
<1> HIDE DEF m
<1> QED BY <1>1, <1>2 DEF KType

\* The three outcomes of startInLoop: nothing is tried, a retry is set, or an attempt is
\* under way on a descriptor that was free.
Alike(kk) == /\ k'.state = kk.state /\ k'.connect = kk.connect /\ k'.channel = kk.channel
             /\ k'.watched = kk.watched
Waits(kk) == Alike(kk) /\ k'.timers = kk.timers /\ sock' = sock
Retries(kk) == /\ Alike(kk) /\ k'.timers = kk.timers + 1 /\ sock' = sock
               /\ kk.state = "kDisconnected" /\ kk.connect
Tries(kk, fd) == /\ kk.state = "kDisconnected" /\ kk.connect
                 /\ k'.state = "kConnecting" /\ k'.connect /\ k'.channel = fd /\ k'.watched
                 /\ k'.timers = kk.timers
                 /\ sock[fd] = "free" /\ sock' = [sock EXCEPT ![fd] = "trying"]

LEMMA StartEffect ==
  ASSUME ClientTypeOK, NEW kk \in KType, startInLoop(kk)
  PROVE  /\ k' \in KType /\ h' \in HType /\ h'.dangling = h.dangling
         /\ sock' \in [Fds -> {"free", "trying", "connected", "eof", "error", "self"}]
         /\ \/ Waits(kk) /\ (kk.state = "kDisconnected" => h'.failed = h.failed)
            \/ Retries(kk) /\ h'.failed = h.failed
            \/ \E fd \in Fds : /\ Tries(kk, fd) /\ (kk.channel = 0 => h'.failed = h.failed)
                               /\ h'.failed = {} => kk.channel = 0
<1>0. h \in HType /\ sock \in [Fds -> {"free", "trying", "connected", "eof", "error", "self"}]
  BY DEF ClientTypeOK
<1>1. \A b \in BOOLEAN, name \in Names : Failing(b, name) =>
         /\ h' \in HType /\ h'.dangling = h.dangling /\ (b => h'.failed = h.failed)
         /\ h'.failed = {} => b
  <2> TAKE b \in BOOLEAN, name \in Names
  <2> HAVE Failing(b, name)
  <2> DEFINE new == h.failed \cup Check(b, name)
  <2>1. new \in SUBSET Names /\ (b => new = h.failed) /\ (new = {} => b)
          /\ h' = [h EXCEPT !.failed = new]
    BY <1>0 DEF Check, HType, Failing
  <2> HIDE DEF new
  <2> QED BY <1>0, <2>1 DEF HType
<1>2. CASE kk.state # "kDisconnected" /\ k' = kk /\ Failing(FALSE, "startInLoop") /\ UNCHANGED sock
  BY <1>0, <1>1, <1>2 DEF Waits, Alike, Names
<1>3. CASE kk.state = "kDisconnected" /\ ~ kk.connect /\ k' = kk /\ UNCHANGED <<sock, h>>
  BY <1>0, <1>3 DEF Waits, Alike
<1>4. CASE kk.state = "kDisconnected" /\ kk.connect /\ connect(kk)
  <2>1. CASE \E fd \in Fds : /\ sock[fd] = "free"
                             /\ sock' = [sock EXCEPT ![fd] = "trying"]
                             /\ k' = [kk EXCEPT !.state = "kConnecting", !.channel = fd, !.watched = TRUE]
                             /\ Failing(kk.channel = 0, "connecting")
    <3>1. PICK fd \in Fds : /\ sock[fd] = "free"
                            /\ sock' = [sock EXCEPT ![fd] = "trying"]
                            /\ k' = [kk EXCEPT !.state = "kConnecting", !.channel = fd, !.watched = TRUE]
                            /\ Failing(kk.channel = 0, "connecting")
      BY <2>1
    <3>2. /\ k' \in KType /\ k'.state = "kConnecting" /\ k'.connect = kk.connect
          /\ k'.channel = fd /\ k'.watched /\ k'.timers = kk.timers
      <4>1. k' = Trying(kk, fd)
        BY <3>1 DEF Trying
      <4> QED BY <4>1, TryEffect
    <3>3. /\ h' \in HType /\ h'.dangling = h.dangling /\ (kk.channel = 0 => h'.failed = h.failed)
          /\ h'.failed = {} => kk.channel = 0
      BY <1>1, <3>1 DEF Names
    <3>4. sock' \in [Fds -> {"free", "trying", "connected", "eof", "error", "self"}]
      BY <1>0, <3>1
    <3> QED BY <1>4, <3>1, <3>2, <3>3, <3>4 DEF Tries
  <2>2. CASE k' = retry(kk) /\ UNCHANGED <<sock, h>>
    BY <1>0, <1>4, <2>2, RetryEffect DEF Retries, Alike
  <2>3. CASE k' = kk /\ h' = [h EXCEPT !.gaveUp = TRUE] /\ UNCHANGED sock
    <3>1. h' \in HType /\ h'.dangling = h.dangling /\ h'.failed = h.failed
      BY <1>0, <2>3 DEF HType
    <3> QED BY <1>0, <1>4, <2>3, <3>1 DEF Waits, Alike
  <2> QED BY <1>4, <2>1, <2>2, <2>3 DEF connect
<1> QED BY <1>2, <1>3, <1>4 DEF startInLoop

\* stopInLoop ends an attempt, whose channel is then to be reset.
Ends(kk) == /\ k'.state = "kDisconnected" /\ k'.connect = kk.connect
            /\ k'.channel = kk.channel /\ ~ k'.watched
            /\ k'.timers = IF kk.connect THEN kk.timers + 1 ELSE kk.timers
            /\ Closed(kk.channel) /\ queueInLoop("resetChannel", 0)

LEMMA EndEffect ==
  ASSUME NEW kk \in KType, k' = retry(removeAndResetChannel(kk)),
         Closed(kk.channel), queueInLoop("resetChannel", 0)
  PROVE  k' \in KType /\ Ends(kk)
<1> DEFINE r == removeAndResetChannel(kk)
<1>1. /\ r \in KType /\ r.state = kk.state /\ r.connect = kk.connect
      /\ r.channel = kk.channel /\ r.watched = FALSE /\ r.timers = kk.timers
  BY UnwatchEffect
<1> HIDE DEF r
<1>2. /\ retry(r) \in KType /\ retry(r).state = "kDisconnected" /\ retry(r).connect = r.connect
      /\ retry(r).channel = r.channel /\ retry(r).watched = r.watched
      /\ retry(r).timers = IF r.connect THEN r.timers + 1 ELSE r.timers
  BY <1>1, RetryEffect
<1> QED BY <1>1, <1>2 DEF Ends, r

LEMMA ClosedEffect ==
  ASSUME ClientTypeOK, NEW fd, Closed(fd)
  PROVE  /\ sock' \in [Fds -> {"free", "trying", "connected", "eof", "error", "self"}]
         /\ \A f \in Fds : sock'[f] = IF f = fd THEN "free" ELSE sock[f]
BY DEF ClientTypeOK, Closed

LEMMA StopEffect ==
  ASSUME ClientTypeOK, NEW kk \in KType, stopInLoop(kk)
  PROVE  /\ k' \in KType
         /\ sock' \in [Fds -> {"free", "trying", "connected", "eof", "error", "self"}]
         /\ \/ kk.state # "kConnecting" /\ Waits(kk) /\ pend' = pend
            \/ kk.state = "kConnecting" /\ Ends(kk)
<1>1. CASE kk.state = "kConnecting"
  <2>1. Closed(kk.channel)
    BY <1>1 DEF stopInLoop
  <2> QED BY <1>1, <2>1, EndEffect, ClosedEffect DEF stopInLoop
<1>2. CASE kk.state # "kConnecting"
  BY <1>2 DEF stopInLoop, Waits, Alike, ClientTypeOK
<1> QED BY <1>1, <1>2

LEMMA StartKeeps ==
  ASSUME ClientTypeOK, NEW kk \in KType, startInLoop(kk)
  PROVE  k'.connect = kk.connect /\ (k'.watched => kk.watched \/ kk.connect)
<1>1. \/ Waits(kk) \/ Retries(kk) \/ \E fd \in Fds : Tries(kk, fd)
  BY StartEffect
<1>2. Waits(kk) \/ Retries(kk) => k'.connect = kk.connect /\ k'.watched = kk.watched
  BY DEF Waits, Retries, Alike
<1>3. \A fd \in Fds : Tries(kk, fd) => k'.connect = kk.connect /\ kk.connect
  BY DEF Tries, KType
<1> QED BY <1>1, <1>2, <1>3

LEMMA StopKeeps ==
  ASSUME ClientTypeOK, NEW kk \in KType, stopInLoop(kk)
  PROVE  k'.connect = kk.connect /\ (k'.watched => kk.watched)
BY StopEffect DEF Waits, Ends, Alike

-----------------------------------------------------------------------------
(* The loop's own steps *)

\* What of the loop stays.
LoopStays == /\ loop'.pc = loop.pc /\ loop'.due = loop.due /\ loop'.closing = loop.closing
             /\ loop'.ready = loop.ready /\ loop'.fns = loop.fns

LEMMA PollEffect ==
  ASSUME ClientTypeOK, Poll
  PROVE  /\ loop' \in LoopType /\ loop.pc = "poll" /\ loop'.pc = "events"
         /\ loop'.fns = loop.fns /\ loop'.due \in 0..k.timers
         /\ loop'.closing # 0 => Up(loop'.closing)
<1>1. PICK n \in 0..k.timers, fd \in Fds \cup {0} :
         /\ fd # 0 => Up(fd)
         /\ loop' = [loop EXCEPT !.pc = "events", !.ready = Reported, !.due = n, !.closing = fd]
  BY DEF Poll, Up
<1> DEFINE rep == Reported
           m1 == [loop EXCEPT !.pc = "events"]
           m2 == [m1 EXCEPT !.ready = rep]
           m3 == [m2 EXCEPT !.due = n]
<1>2. rep \in {"none", "ERR", "OUT"} /\ n \in Nat /\ fd \in 0..MaxFd /\ loop \in LoopType
  BY ClientConstants DEF Reported, Fds, ClientTypeOK, KType
<1>3. loop' = [m3 EXCEPT !.closing = fd] /\ loop.pc = "poll"
  BY <1>1 DEF Poll, At
<1> HIDE DEF rep
<1>4. m1 \in LoopType /\ m1.pc = "events" /\ m1.fns = loop.fns
  BY <1>2 DEF LoopType
<1> HIDE DEF m1
<1>5. m2 \in LoopType /\ m2.pc = "events" /\ m2.fns = loop.fns
  BY <1>2, <1>4 DEF LoopType
<1> HIDE DEF m2
<1>6. m3 \in LoopType /\ m3.pc = "events" /\ m3.fns = loop.fns /\ m3.due = n
  BY <1>2, <1>5 DEF LoopType
<1> HIDE DEF m3
<1>7. /\ loop' \in LoopType /\ loop'.pc = "events" /\ loop'.fns = loop.fns
      /\ loop'.due = n /\ loop'.closing = fd
  BY <1>2, <1>3, <1>6 DEF LoopType
<1> QED BY <1>1, <1>3, <1>7

LEMMA RunTimerEffect ==
  ASSUME ClientTypeOK, RunTimer, loop.due <= k.timers
  PROVE  /\ loop' \in LoopType /\ loop.pc = "events" /\ loop'.pc = "events" /\ loop.due > 0
         /\ loop'.due = loop.due - 1 /\ loop'.closing = loop.closing /\ loop'.fns = loop.fns
         /\ Fired(k) \in KType /\ startInLoop(Fired(k))
         /\ Fired(k).state = k.state /\ Fired(k).connect = k.connect
         /\ Fired(k).channel = k.channel /\ Fired(k).watched = k.watched
         /\ Fired(k).timers = k.timers - 1
<1> DEFINE n == loop.due - 1
<1>1. loop \in LoopType /\ n \in Nat /\ loop' = [loop EXCEPT !.due = n] /\ loop.pc = "events"
  BY DEF RunTimer, At, ClientTypeOK, LoopType
<1>2. k \in KType /\ k.timers > 0 /\ loop.due > 0
  BY DEF RunTimer, ClientTypeOK, KType, LoopType
<1>3. startInLoop(Fired(k))
  BY DEF RunTimer, Fired
<1> HIDE DEF n
<1>4. /\ loop' \in LoopType /\ loop'.pc = loop.pc /\ loop'.due = n
      /\ loop'.closing = loop.closing /\ loop'.fns = loop.fns
  BY <1>1 DEF LoopType
<1>5. /\ Fired(k) \in KType
      /\ Fired(k).state = k.state /\ Fired(k).connect = k.connect
      /\ Fired(k).channel = k.channel /\ Fired(k).watched = k.watched
      /\ Fired(k).timers = k.timers - 1
  BY <1>2, FireEffect
<1> QED BY <1>1, <1>2, <1>3, <1>4, <1>5 DEF n

LEMMA ReadyGone ==
  ASSUME ClientTypeOK, loop' = [loop EXCEPT !.ready = "none"]
  PROVE  /\ loop' \in LoopType /\ loop'.pc = loop.pc /\ loop'.due = loop.due
         /\ loop'.closing = loop.closing /\ loop'.fns = loop.fns
BY DEF ClientTypeOK, LoopType

LEMMA PcEffect ==
  ASSUME ClientTypeOK, NEW v \in {"poll", "events", "close"}, loop' = [loop EXCEPT !.pc = v]
  PROVE  /\ loop' \in LoopType /\ loop'.pc = v /\ loop'.due = loop.due
         /\ loop'.closing = loop.closing /\ loop'.fns = loop.fns
BY DEF ClientTypeOK, LoopType

LEMMA ClosingGone ==
  ASSUME ClientTypeOK, NEW v \in {"events", "restart"},
         loop' = [loop EXCEPT !.closing = 0, !.pc = v]
  PROVE  /\ loop' \in LoopType /\ loop'.pc = v /\ loop'.due = loop.due
         /\ loop'.closing = 0 /\ loop'.fns = loop.fns
<1> DEFINE m == [loop EXCEPT !.closing = 0]
<1>1. /\ m \in LoopType /\ m.due = loop.due /\ m.closing = 0 /\ m.fns = loop.fns
  BY ClientConstants, SMTT(30) DEF ClientTypeOK, LoopType
<1>2. loop' = [m EXCEPT !.pc = v]
  OBVIOUS
<1> HIDE DEF m
<1> QED BY <1>1, <1>2 DEF LoopType

LEMMA SwapEffect ==
  ASSUME ClientTypeOK, SwapFunctors, loop.fns = <<>>
  PROVE  /\ loop' \in LoopType /\ pend' \in Seq(Functors) /\ loop.pc = "events"
         /\ loop'.pc = "functors" /\ loop'.closing = 0 /\ loop'.due = 0 /\ loop'.ready = "none"
         /\ \A y : Due(y)' <=> Due(y)
         /\ \A y : Due(y)' => Has(loop'.fns, y)
         /\ \A y : DueOnce(y) => DueOnce(y)'
<1> DEFINE m == [loop EXCEPT !.pc = "functors"]
<1>1. /\ m \in LoopType /\ m.pc = "functors" /\ m.due = loop.due /\ m.closing = loop.closing
      /\ m.ready = loop.ready
  BY DEF ClientTypeOK, LoopType
<1>2. /\ loop' = [m EXCEPT !.fns = pend] /\ pend \in Seq(Functors) /\ pend' = <<>>
      /\ loop.due = 0 /\ loop.closing = 0 /\ loop.ready = "none" /\ loop.pc = "events"
  BY DEF SwapFunctors, At, ClientTypeOK
<1> HIDE DEF m
<1>3. /\ loop' \in LoopType /\ loop'.pc = "functors" /\ loop'.closing = 0 /\ loop'.due = 0
      /\ loop'.ready = "none" /\ loop'.fns = pend
  BY <1>1, <1>2 DEF LoopType
<1>4. pend' \in Seq(Functors)
  BY <1>2, EmptySeq
<1>5. \A y : Due(y)' <=> Due(y)
  BY <1>2, <1>3, HasEmpty DEF Due
<1>6. \A y : Due(y)' => Has(loop'.fns, y)
  BY <1>2, <1>3, HasEmpty DEF Due
<1>7. \A y : DueOnce(y) => DueOnce(y)'
  BY <1>2, <1>3, HasEmpty DEF DueOnce
<1> QED BY <1>2, <1>3, <1>4, <1>5, <1>6, <1>7

-----------------------------------------------------------------------------
(* The user's calls *)

LEMMA CalledEffect ==
  ASSUME ClientTypeOK,
         \/ u' = [u EXCEPT !.calls = @ + 1]
         \/ u' = [u EXCEPT !.calls = @ + 1, !.connected = TRUE, !.stopped = FALSE]
         \/ u' = [u EXCEPT !.calls = @ + 1, !.stopped = TRUE]
  PROVE  u' \in UType /\ u'.pc = u.pc /\ u'.remote = u.remote
<1> DEFINE n == u.calls + 1
           m == [u EXCEPT !.calls = n]
<1>1. n \in Nat /\ u \in UType
  BY DEF ClientTypeOK, UType
<1>2. \/ u' = m \/ u' = [m EXCEPT !.stopped = TRUE]
      \/ u' = [m EXCEPT !.connected = TRUE, !.stopped = FALSE]
  OBVIOUS
<1> HIDE DEF n
<1>3. m \in UType /\ m.pc = u.pc /\ m.remote = u.remote
  BY <1>1 DEF UType
<1> HIDE DEF m
<1>4. CASE u' = [m EXCEPT !.connected = TRUE, !.stopped = FALSE]
  BY <1>3, <1>4 DEF UType
<1> QED BY <1>2, <1>3, <1>4 DEF UType

LEMMA FlagsEffect ==
  ASSUME ClientTypeOK
  PROVE  /\ u' = [u EXCEPT !.calls = @ + 1] =>
              u'.stopped = u.stopped /\ u'.connected = u.connected
         /\ u' = [u EXCEPT !.calls = @ + 1, !.connected = TRUE, !.stopped = FALSE] =>
              ~ u'.stopped /\ u'.connected
         /\ u' = [u EXCEPT !.calls = @ + 1, !.stopped = TRUE] =>
              u'.stopped /\ u'.connected = u.connected
BY DEF ClientTypeOK, UType

LEMMA BeginEffect ==
  ASSUME ClientTypeOK, NEW p \in UPcs, Begin(p)
  PROVE  /\ u' \in UType /\ u.pc = "idle" /\ u'.pc = p /\ u'.remote = u.remote \cup {p}
         /\ u'.stopped = u.stopped /\ u'.connected = (u.connected \/ p = "connect")
<1> DEFINE n == u.calls + 1
           r == u.remote \cup {p}
           b == u.connected \/ p = "connect"
           m1 == [u EXCEPT !.pc = p]
           m2 == [m1 EXCEPT !.calls = n]
           m3 == [m2 EXCEPT !.remote = r]
<1>1. n \in Nat /\ r \in SUBSET (UPcs \cup {"dtor"}) /\ b \in BOOLEAN /\ u \in UType
  BY DEF ClientTypeOK, UType
<1>2. u' = [m3 EXCEPT !.connected = b] /\ u.pc = "idle"
  BY <1>1 DEF Begin, UType
<1> HIDE DEF n, r, b
<1>3. m1 \in UType /\ m1.pc = p /\ m1.stopped = u.stopped
  BY <1>1 DEF UType
<1> HIDE DEF m1
<1>4. m2 \in UType /\ m2.pc = p /\ m2.stopped = u.stopped
  BY <1>1, <1>3 DEF UType
<1> HIDE DEF m2
<1>5. m3 \in UType /\ m3.pc = p /\ m3.stopped = u.stopped /\ m3.remote = r
  BY <1>1, <1>4 DEF UType
<1> HIDE DEF m3
<1>6. /\ u' \in UType /\ u'.pc = p /\ u'.remote = r
      /\ u'.stopped = u.stopped /\ u'.connected = b
  BY <1>1, <1>2, <1>5 DEF UType
<1> QED BY <1>2, <1>6 DEF r, b

LEMMA DtorEffect ==
  ASSUME ClientTypeOK, NEW p \in UPcs,
         u' = [u EXCEPT !.pc = p, !.calls = @ + 1, !.remote = @ \cup {"dtor"}]
  PROVE  /\ u' \in UType /\ u'.pc = p /\ u'.remote = u.remote \cup {"dtor"}
         /\ u'.stopped = u.stopped /\ u'.connected = u.connected
<1> DEFINE n == u.calls + 1
           r == u.remote \cup {"dtor"}
           m1 == [u EXCEPT !.pc = p]
           m2 == [m1 EXCEPT !.calls = n]
<1>1. n \in Nat /\ r \in SUBSET (UPcs \cup {"dtor"}) /\ u \in UType
  BY DEF ClientTypeOK, UType
<1>2. u' = [m2 EXCEPT !.remote = r]
  OBVIOUS
<1> HIDE DEF n, r
<1>3. m1 \in UType /\ m1.pc = p /\ m1.stopped = u.stopped /\ m1.connected = u.connected
  BY <1>1 DEF UType
<1> HIDE DEF m1
<1>4. m2 \in UType /\ m2.pc = p /\ m2.stopped = u.stopped /\ m2.connected = u.connected
  BY <1>1, <1>3 DEF UType
<1> HIDE DEF m2
<1>5. /\ u' \in UType /\ u'.pc = p /\ u'.remote = r
      /\ u'.stopped = u.stopped /\ u'.connected = u.connected
  BY <1>1, <1>2, <1>4 DEF UType
<1> QED BY <1>5 DEF r

LEMMA StepEffect ==
  ASSUME ClientTypeOK, NEW p, NEW q \in UPcs, Step(p, q)
  PROVE  /\ u' \in UType /\ u.pc = p /\ u'.pc = q /\ u'.remote = u.remote
         /\ u'.stopped = (p = "stop" \/ (u.stopped /\ p # "connect"))
         /\ u'.connected = u.connected /\ Alive /\ UNCHANGED <<sock, loop, h>>
<1> DEFINE s == p = "stop" \/ (u.stopped /\ p # "connect")
           m == [u EXCEPT !.pc = q]
<1>1. s \in BOOLEAN /\ u \in UType
  BY DEF ClientTypeOK, UType
<1>2. u' = [m EXCEPT !.stopped = s] /\ u.pc = p /\ Alive /\ UNCHANGED <<sock, loop, h>>
  BY <1>1 DEF Step, UType
<1> HIDE DEF s
<1>3. m \in UType /\ m.pc = q /\ m.remote = u.remote /\ m.connected = u.connected
  BY <1>1 DEF UType
<1> HIDE DEF m
<1>4. /\ u' \in UType /\ u'.pc = q /\ u'.remote = u.remote
      /\ u'.stopped = s /\ u'.connected = u.connected
  BY <1>1, <1>2, <1>3 DEF UType
<1> QED BY <1>2, <1>4 DEF s

LEMMA ShutEffect ==
  ASSUME ClientTypeOK, Shut
  PROVE  /\ conn' \in [Fds -> {"none", "Connected", "Disconnecting", "Disconnected", "Destroyed"}]
         /\ \A fd \in Fds : (Up(fd)' <=> Up(fd)) /\ (conn'[fd] = "none" <=> conn[fd] = "none")
         /\ \A fd \in Fds : conn'[fd] = conn[fd] \/ (Up(fd) /\ Up(fd)')
BY DEF ClientTypeOK, Shut, Up

LEMMA ConnEffect ==
  ASSUME ClientTypeOK, NEW fd, NEW v \in {"Connected", "Disconnected", "Destroyed"},
         conn' = [conn EXCEPT ![fd] = v]
  PROVE  /\ conn' \in [Fds -> {"none", "Connected", "Disconnecting", "Disconnected", "Destroyed"}]
         /\ \A f \in Fds : conn'[f] = IF f = fd THEN v ELSE conn[f]
BY DEF ClientTypeOK

LEMMA CFields ==
  ASSUME ClientTypeOK
  PROVE  /\ \A b \in BOOLEAN : c' = [c EXCEPT !.connect = b] =>
              /\ c' \in CType /\ c'.connection = c.connection /\ c'.exists = c.exists
              /\ c'.retry = c.retry /\ c'.hack = c.hack /\ c'.connect = b
         /\ \A b \in BOOLEAN : c' = [c EXCEPT !.exists = b] =>
              /\ c' \in CType /\ c'.connection = c.connection /\ c'.exists = b
              /\ c'.retry = c.retry /\ c'.hack = c.hack
         /\ \A b \in BOOLEAN : c' = [c EXCEPT !.hack = b] =>
              /\ c' \in CType /\ c'.connection = c.connection /\ c'.exists = c.exists
              /\ c'.retry = c.retry /\ c'.hack = b
         /\ \A fd \in 0..MaxFd : c' = [c EXCEPT !.connection = fd] =>
              /\ c' \in CType /\ c'.connection = fd /\ c'.exists = c.exists
              /\ c'.retry = c.retry /\ c'.hack = c.hack
BY DEF ClientTypeOK, CType

LEMMA CGone ==
  ASSUME ClientTypeOK, c' = [c EXCEPT !.exists = FALSE, !.hack = TRUE]
  PROVE  /\ c' \in CType /\ c'.connection = c.connection /\ c'.exists = FALSE
         /\ c'.retry = c.retry /\ c'.hack = TRUE
BY DEF ClientTypeOK, CType

\* What a step may record.
LEMMA UsingEffect ==
  ASSUME ClientTypeOK, NEW b \in BOOLEAN, NEW what \in Names, Using(b, what)
  PROVE  /\ h' \in HType /\ h'.failed = h.failed
         /\ h'.dangling = h.dangling \cup (IF b THEN {} ELSE {what})
BY DEF ClientTypeOK, Using, Check, HType

LEMMA FailingEffect ==
  ASSUME ClientTypeOK, NEW b \in BOOLEAN, NEW name \in Names, Failing(b, name)
  PROVE  /\ h' \in HType /\ h'.dangling = h.dangling
         /\ h'.failed = h.failed \cup (IF b THEN {} ELSE {name})
BY DEF ClientTypeOK, Failing, Check, HType

-----------------------------------------------------------------------------
(* Type correctness *)

LEMMA TypeInit == Init => ClientTypeOK /\ LoopKept
<1> SUFFICES ASSUME Init PROVE ClientTypeOK /\ LoopKept
  OBVIOUS
<1>1. <<>> \in Seq(Functors)
  BY EmptySeq
<1>2. k \in KType /\ c \in CType
  BY ClientConstants DEF Init, KType, CType
<1>3. loop \in LoopType /\ pend \in Seq(Functors)
  BY <1>1, ClientConstants DEF Init, LoopType
<1>4. u \in UType /\ h \in HType
  BY DEF Init, UType, UPcs, HType
<1> QED BY <1>2, <1>3, <1>4 DEF Init, ClientTypeOK, LoopKept

\* Handle and what the connector and the connection become.
LEMMA HandleEffect ==
  ASSUME ClientTypeOK, Handle
  PROVE  /\ loop' \in LoopType /\ loop.pc = "events" /\ loop'.pc = "events"
         /\ loop'.due = loop.due /\ loop'.closing = loop.closing /\ loop'.fns = loop.fns
         /\ pend' \in Seq(Functors) /\ Queued(ResetF) /\ k.watched
         /\ UNCHANGED <<swapped, u>>
<1>1. loop' = [loop EXCEPT !.ready = "none"] /\ loop.pc = "events" /\ queueInLoop("resetChannel", 0)
      /\ UNCHANGED <<swapped, u>> /\ k.watched
  BY DEF Handle, At
<1>2. /\ loop' \in LoopType /\ loop'.pc = loop.pc /\ loop'.due = loop.due
      /\ loop'.closing = loop.closing /\ loop'.fns = loop.fns
  BY <1>1, ReadyGone
<1>3. pend' \in Seq(Functors) /\ Queued(ResetF)
  BY <1>1, <1>2, QueueEffect DEF Functors, Plain, ResetF
<1> QED BY <1>1, <1>2, <1>3

\* handleError and handleWriteFails: the attempt ends as by stopInLoop.
LEMMA FailedEffect ==
  ASSUME ClientTypeOK, handleError \/ handleWriteFails
  PROVE  /\ k' \in KType /\ Ends(k) /\ UNCHANGED <<c, conn>> /\ h' \in HType
         /\ h'.dangling = h.dangling
         /\ k.state = "kConnecting" => h'.failed = h.failed
         /\ sock' \in [Fds -> {"free", "trying", "connected", "eof", "error", "self"}]
<1>1. /\ k' = retry(removeAndResetChannel(k)) /\ Closed(k.channel)
      /\ UNCHANGED <<c, conn>> /\ queueInLoop("resetChannel", 0)
      /\ h' = h \/ Failing(k.state = "kConnecting", "handleError")
  BY DEF handleError, handleWriteFails, Handle
<1>2. k \in KType /\ h \in HType
  BY DEF ClientTypeOK
<1>3. k' \in KType /\ Ends(k)
  BY <1>1, <1>2, EndEffect
<1>4. h' \in HType /\ h'.dangling = h.dangling /\ (k.state = "kConnecting" => h'.failed = h.failed)
  <2>1. h' = h \/ \E b \in BOOLEAN : Failing(b, "handleError") /\ (k.state = "kConnecting" => b)
    BY <1>1 DEF Failing, Check
  <2> QED BY <1>2, <2>1, FailingEffect DEF Names
<1>5. sock' \in [Fds -> {"free", "trying", "connected", "eof", "error", "self"}]
  BY <1>1, ClosedEffect
<1> QED BY <1>1, <1>3, <1>4, <1>5

\* handleWrite: the attempt became a connection, or its socket is closed.
LEMMA WroteEffect ==
  ASSUME ClientTypeOK, handleWrite
  PROVE  /\ k' \in KType /\ k'.state = "kConnected" /\ k'.connect = k.connect
         /\ k'.channel = k.channel /\ ~ k'.watched /\ k'.timers = k.timers
         /\ sock' \in [Fds -> {"free", "trying", "connected", "eof", "error", "self"}]
         /\ conn' \in [Fds -> {"none", "Connected", "Disconnecting", "Disconnected", "Destroyed"}]
         /\ c' \in CType /\ h' \in HType /\ h'.failed = h.failed
         /\ c'.exists = c.exists /\ c'.retry = c.retry
         /\ \/ /\ k.connect /\ UNCHANGED sock /\ c'.connection = k.channel
               /\ \A f \in Fds : conn'[f] = IF f = k.channel THEN "Connected" ELSE conn[f]
               /\ h'.dangling = h.dangling \cup (IF c.exists THEN {} ELSE {"client"})
            \/ /\ ~ k.connect /\ Closed(k.channel) /\ UNCHANGED <<c, conn, h>>
<1>1. /\ k' = [removeAndResetChannel(k) EXCEPT !.state = "kConnected"]
      /\ IF k.connect THEN newConnection(k.channel) /\ UNCHANGED sock
                      ELSE Closed(k.channel) /\ UNCHANGED <<c, conn, h>>
  BY DEF handleWrite
<1>2. k \in KType /\ c \in CType /\ h \in HType /\ k.channel \in 0..MaxFd /\ c.exists \in BOOLEAN
  BY DEF ClientTypeOK, KType, CType
<1>3. /\ k' \in KType /\ k'.state = "kConnected" /\ k'.connect = k.connect
      /\ k'.channel = k.channel /\ ~ k'.watched /\ k'.timers = k.timers
  <2> DEFINE r == removeAndResetChannel(k)
  <2>1. /\ r \in KType /\ r.connect = k.connect
        /\ r.channel = k.channel /\ r.watched = FALSE /\ r.timers = k.timers
    BY <1>2, UnwatchEffect
  <2>2. k' = [r EXCEPT !.state = "kConnected"]
    BY <1>1
  <2> HIDE DEF r
  <2> QED BY <2>1, <2>2 DEF KType
<1>4. CASE k.connect
  <2>1. /\ conn' = [conn EXCEPT ![k.channel] = "Connected"] /\ c' = [c EXCEPT !.connection = k.channel]
        /\ Using(c.exists, "client") /\ UNCHANGED sock
    BY <1>1, <1>4 DEF newConnection
  <2>2. /\ conn' \in [Fds -> {"none", "Connected", "Disconnecting", "Disconnected", "Destroyed"}]
        /\ \A f \in Fds : conn'[f] = IF f = k.channel THEN "Connected" ELSE conn[f]
    BY <2>1, ConnEffect
  <2>3. c' \in CType /\ c'.connection = k.channel /\ c'.exists = c.exists /\ c'.retry = c.retry
    BY <1>2, <2>1, CFields
  <2>4. /\ h' \in HType /\ h'.failed = h.failed
        /\ h'.dangling = h.dangling \cup (IF c.exists THEN {} ELSE {"client"})
    BY <1>2, <2>1, UsingEffect DEF Names
  <2> QED BY <1>3, <1>4, <2>1, <2>2, <2>3, <2>4 DEF ClientTypeOK
<1>5. CASE ~ k.connect
  <2>1. Closed(k.channel) /\ UNCHANGED <<c, conn, h>>
    BY <1>1, <1>5
  <2>2. sock' \in [Fds -> {"free", "trying", "connected", "eof", "error", "self"}]
    BY <2>1, ClosedEffect
  <2> QED BY <1>2, <1>3, <1>5, <2>1, <2>2 DEF ClientTypeOK
<1> QED BY <1>4, <1>5

\* removeConnection: the client's close callback, or the one its destructor set.
LEMMA RemovedEffect ==
  ASSUME ClientTypeOK, removeConnection
  PROVE  /\ loop' \in LoopType /\ loop.pc = "close" /\ loop'.closing = 0
         /\ loop'.due = loop.due /\ loop'.fns = loop.fns
         /\ pend' \in Seq(Functors) /\ Queued(<<"connectDestroyed", loop.closing>>)
         /\ c' \in CType /\ h' \in HType /\ UNCHANGED <<k, conn, swapped, sock, u>>
         /\ c'.exists = c.exists /\ c'.retry = c.retry
         /\ \/ loop.closing \in swapped /\ loop'.pc = "events" /\ c' = c /\ h' = h
            \/ /\ loop.closing \notin swapped /\ c'.connection = 0
               /\ loop'.pc = IF c.retry /\ c.connect THEN "restart" ELSE "events"
               /\ h'.dangling = h.dangling \cup (IF c.exists THEN {} ELSE {"client"})
               /\ c.connection = loop.closing => h'.failed = h.failed
<1>1. /\ loop.pc = "close" /\ queueInLoop("connectDestroyed", loop.closing)
      /\ UNCHANGED <<k, conn, swapped, sock, u>>
  BY DEF removeConnection, At
<1>2. /\ loop.closing \in 0..MaxFd /\ c \in CType /\ h \in HType
      /\ c.exists \in BOOLEAN /\ loop \in LoopType
  BY DEF ClientTypeOK, LoopType, CType
<1>3. \E v \in {"events", "restart"} : /\ loop' = [loop EXCEPT !.closing = 0, !.pc = v]
                                       /\ loop.closing \in swapped => v = "events"
                                       /\ loop.closing \notin swapped =>
                                            v = IF c.retry /\ c.connect THEN "restart" ELSE "events"
  <2>1. CASE loop.closing \in swapped
    <3>1. loop' = [loop EXCEPT !.pc = "events", !.closing = 0]
      BY <2>1 DEF removeConnection
    <3>2. [loop EXCEPT !.pc = "events", !.closing = 0] = [loop EXCEPT !.closing = 0, !.pc = "events"]
      BY <1>2 DEF LoopType
    <3> QED BY <2>1, <3>1, <3>2
  <2>2. CASE loop.closing \notin swapped
    BY <2>2 DEF removeConnection
  <2> QED BY <2>1, <2>2
<1>4. /\ loop' \in LoopType /\ loop'.closing = 0
      /\ loop'.due = loop.due /\ loop'.fns = loop.fns
      /\ loop.closing \in swapped => loop'.pc = "events"
      /\ loop.closing \notin swapped =>
           loop'.pc = IF c.retry /\ c.connect THEN "restart" ELSE "events"
  BY <1>3, ClosingGone
<1>5. pend' \in Seq(Functors) /\ Queued(<<"connectDestroyed", loop.closing>>)
  BY <1>1, <1>2, <1>4, QueueEffect DEF Functors
<1>6. CASE loop.closing \in swapped
  <2>1. UNCHANGED <<c, h>>
    BY <1>6 DEF removeConnection
  <2> QED BY <1>1, <1>2, <1>4, <1>5, <1>6, <2>1
<1>7. CASE loop.closing \notin swapped
  <2>1. /\ h' = [h EXCEPT !.dangling = @ \cup Check(c.exists, "client"),
                          !.failed = @ \cup Check(c.exists => c.connection = loop.closing,
                                                  "removeConnection")]
        /\ c' = [c EXCEPT !.connection = 0]
    BY <1>7 DEF removeConnection
  <2>2. c' \in CType /\ c'.connection = 0 /\ c'.exists = c.exists /\ c'.retry = c.retry
    BY <2>1, CFields, ClientConstants
  <2> DEFINE d == h.dangling \cup (IF c.exists THEN {} ELSE {"client"})
             f == h.failed \cup Check(c.exists => c.connection = loop.closing, "removeConnection")
             m == [h EXCEPT !.dangling = d]
  <2>3. d \in SUBSET Names /\ f \in SUBSET Names /\ (c.connection = loop.closing => f = h.failed)
    BY <1>2 DEF Check, HType, Names
  <2>4. h' = [m EXCEPT !.failed = f]
    BY <2>1 DEF Check
  <2> HIDE DEF d, f
  <2>5. m \in HType /\ m.dangling = d
    BY <1>2, <2>3 DEF HType
  <2> HIDE DEF m
  <2>6. h' \in HType /\ h'.dangling = d /\ h'.failed = f
    BY <2>3, <2>4, <2>5 DEF HType
  <2> QED BY <1>1, <1>4, <1>5, <1>7, <2>2, <2>3, <2>6 DEF d
<1> QED BY <1>6, <1>7

\* RunReset: channel_ is empty, unless it was watched or the connector is gone.
LEMMA ResetEffect ==
  ASSUME ClientTypeOK, RunReset
  PROVE  /\ k' \in KType /\ k'.state = k.state /\ k'.connect = k.connect
         /\ k'.watched = k.watched /\ k'.timers = k.timers
         /\ k'.channel = IF Held THEN 0 ELSE k.channel
         /\ h' \in HType /\ h'.failed = h.failed
         /\ h'.dangling = {} => Held /\ ~ k.watched
         /\ "client" \in h'.dangling => "client" \in h.dangling
<1>1. /\ k \in KType /\ h \in HType
      /\ h' = [h EXCEPT !.dangling = @ \cup Check(Held, "connector") \cup Check(~ k.watched, "channel")]
      /\ k' = IF Held THEN [k EXCEPT !.channel = 0] ELSE k
  BY DEF ClientTypeOK, RunReset
<1>2. /\ k' \in KType /\ k'.state = k.state /\ k'.connect = k.connect
      /\ k'.watched = k.watched /\ k'.timers = k.timers
      /\ k'.channel = IF Held THEN 0 ELSE k.channel
  BY <1>1, ClientConstants DEF KType
<1> DEFINE d == h.dangling \cup Check(Held, "connector") \cup Check(~ k.watched, "channel")
<1>3. /\ d \in SUBSET Names /\ (d = {} => Held /\ ~ k.watched)
      /\ "client" \in d => "client" \in h.dangling
  BY <1>1 DEF Check, HType, Names
<1>4. h' = [h EXCEPT !.dangling = d]
  BY <1>1
<1> HIDE DEF d
<1>5. h' \in HType /\ h'.failed = h.failed /\ h'.dangling = d
  BY <1>1, <1>3, <1>4 DEF HType
<1> QED BY <1>2, <1>3, <1>5

-----------------------------------------------------------------------------
\* What the user's calls on the loop's thread, and the functors, do to the type.
LEMMA TypeNext ==
  ClientTypeOK /\ LoopKept /\ [Next]_vars => ClientTypeOK' /\ LoopKept'
<1> SUFFICES ASSUME ClientTypeOK, LoopKept, [Next]_vars PROVE ClientTypeOK' /\ LoopKept'
  OBVIOUS
<1>a. /\ k \in KType /\ c \in CType /\ loop \in LoopType /\ u \in UType /\ h \in HType
      /\ conn \in [Fds -> {"none", "Connected", "Disconnecting", "Disconnected", "Destroyed"}]
      /\ sock \in [Fds -> {"free", "trying", "connected", "eof", "error", "self"}]
      /\ swapped \subseteq 0..MaxFd /\ pend \in Seq(Functors)
      /\ loop.due <= k.timers /\ (loop.pc # "functors" => loop.fns = <<>>)
      /\ k.timers \in Nat /\ loop.due \in Nat /\ loop.closing \in 0..MaxFd
      /\ c.connection \in 0..MaxFd /\ 0 \in 0..MaxFd
  BY ClientConstants DEF ClientTypeOK, LoopKept, KType, LoopType, CType
<1>b. ASSUME k' \in KType, c' \in CType, loop' \in LoopType, u' \in UType, h' \in HType,
             conn' \in [Fds -> {"none", "Connected", "Disconnecting", "Disconnected", "Destroyed"}],
             sock' \in [Fds -> {"free", "trying", "connected", "eof", "error", "self"}],
             swapped' \subseteq 0..MaxFd, pend' \in Seq(Functors),
             loop'.due <= k'.timers, loop'.pc # "functors" => loop'.fns = <<>>
      PROVE  ClientTypeOK' /\ LoopKept'
  BY <1>b DEF ClientTypeOK, LoopKept
<1>c. \A kk \in KType : startInLoop(kk) => k' \in KType /\ k'.timers >= kk.timers /\ h' \in HType
         /\ sock' \in [Fds -> {"free", "trying", "connected", "eof", "error", "self"}]
  <2> TAKE kk \in KType
  <2> HAVE startInLoop(kk)
  <2>1. kk.timers \in Nat
    BY DEF KType
  <2> QED BY <2>1, StartEffect DEF Waits, Retries, Tries
<1>d. \A kk \in KType : stopInLoop(kk) /\ loop'.fns = loop.fns =>
         /\ k' \in KType /\ k'.timers >= kk.timers /\ pend' \in Seq(Functors)
         /\ sock' \in [Fds -> {"free", "trying", "connected", "eof", "error", "self"}]
  <2> TAKE kk \in KType
  <2> HAVE stopInLoop(kk) /\ loop'.fns = loop.fns
  <2>1. kk.timers \in Nat
    BY DEF KType
  <2>2. queueInLoop("resetChannel", 0) => pend' \in Seq(Functors)
    BY <1>a, QueueEffect DEF Functors, Plain
  <2> QED BY <1>a, <2>1, <2>2, StopEffect DEF Waits, Ends
<1> DEFINE SockOK == sock' \in [Fds -> {"free", "trying", "connected", "eof", "error", "self"}]
           ConnOK == conn' \in [Fds -> {"none", "Connected", "Disconnecting", "Disconnected", "Destroyed"}]
<1>1. CASE Poll
  <2>1. UNCHANGED <<k, c, conn, swapped, sock, pend, u, h>>
    BY <1>1 DEF Poll
  <2> QED BY <1>1, <1>a, <1>b, <2>1, PollEffect
<1>2. CASE RunTimer
  <2>1. UNCHANGED <<c, conn, swapped, pend, u>>
    BY <1>2 DEF RunTimer
  <2>2. /\ loop' \in LoopType /\ loop'.pc = "events" /\ loop'.due = loop.due - 1
        /\ loop'.fns = loop.fns /\ Fired(k) \in KType /\ startInLoop(Fired(k)) /\ loop.pc = "events"
        /\ Fired(k).timers = k.timers - 1
    BY <1>2, <1>a, RunTimerEffect
  <2>3. k' \in KType /\ k'.timers >= k.timers - 1 /\ h' \in HType /\ SockOK
    BY <1>c, <2>2
  <2>4. loop'.due <= k'.timers
    BY <1>a, <2>2, <2>3 DEF KType
  <2> QED BY <1>a, <1>b, <2>1, <2>2, <2>3, <2>4
<1>3. CASE RunRemoveConnector
  <2>1. c' \in CType /\ UNCHANGED <<k, conn, swapped, sock, loop, pend, u, h>>
    BY <1>3, CFields DEF RunRemoveConnector
  <2> QED BY <1>a, <1>b, <2>1
<1>4. CASE HandleDisabled
  <2>1. UNCHANGED <<k, c, conn, swapped, sock, pend, u, h>> /\ loop' = [loop EXCEPT !.ready = "none"]
    BY <1>4 DEF HandleDisabled
  <2> QED BY <1>a, <1>b, <2>1, ReadyGone
<1>5. CASE handleError \/ handleWriteFails
  <2>1. Handle
    BY <1>5 DEF handleError, handleWriteFails
  <2>2. k' \in KType /\ Ends(k) /\ UNCHANGED <<c, conn>> /\ h' \in HType /\ SockOK
    BY <1>5, FailedEffect
  <2>3. k'.timers >= k.timers
    BY <1>a, <2>2 DEF Ends
  <2>4. /\ loop' \in LoopType /\ loop'.pc = loop.pc /\ loop'.due = loop.due /\ loop'.fns = loop.fns
        /\ pend' \in Seq(Functors) /\ UNCHANGED <<swapped, u>>
    BY <2>1, HandleEffect
  <2>5. loop'.due <= k'.timers
    BY <1>a, <2>2, <2>3, <2>4 DEF KType
  <2> QED BY <1>a, <1>b, <2>2, <2>4, <2>5
<1>6. CASE handleWrite
  <2>1. Handle
    BY <1>6 DEF handleWrite
  <2> QED BY <1>6, <1>a, <1>b, <2>1, HandleEffect, WroteEffect
<1>7. CASE handleClose
  <2>1. /\ conn' = [conn EXCEPT ![loop.closing] = "Disconnected"]
        /\ loop' = [loop EXCEPT !.pc = "close"] /\ loop.pc = "events"
        /\ UNCHANGED <<k, c, swapped, sock, pend, u, h>>
    BY <1>7 DEF handleClose, At
  <2>2. ConnOK
    BY <2>1, ConnEffect
  <2>3. /\ loop' \in LoopType /\ loop'.pc = "close" /\ loop'.due = loop.due /\ loop'.fns = loop.fns
    BY <2>1, PcEffect
  <2> QED BY <1>a, <1>b, <2>1, <2>2, <2>3
<1>8. CASE removeConnection
  BY <1>8, <1>a, <1>b, RemovedEffect
<1>9. CASE restart
  <2>1. /\ loop' = [loop EXCEPT !.pc = "events"] /\ loop.pc = "restart"
        /\ startInLoop(Restarted(k)) /\ UNCHANGED <<c, conn, swapped, pend, u>>
    BY <1>9 DEF restart, At, Restarted
  <2>2. Restarted(k) \in KType /\ Restarted(k).timers = k.timers
    BY <1>a, RestartEffect
  <2>3. /\ loop' \in LoopType /\ loop'.pc = "events" /\ loop'.due = loop.due /\ loop'.fns = loop.fns
    BY <2>1, PcEffect
  <2>4. k' \in KType /\ k'.timers >= k.timers /\ h' \in HType /\ SockOK
    BY <1>c, <2>1, <2>2
  <2>5. loop'.due <= k'.timers
    BY <1>a, <2>3, <2>4 DEF KType
  <2> QED BY <1>a, <1>b, <2>1, <2>3, <2>4, <2>5
<1>10. CASE SwapFunctors
  <2>1. UNCHANGED <<k, c, conn, swapped, sock, u, h>> /\ loop.pc = "events"
    BY <1>10 DEF SwapFunctors, At
  <2> QED BY <1>10, <1>a, <1>b, <2>1, SwapEffect
<1>11. CASE FunctorsDone
  <2>1. /\ UNCHANGED <<k, c, conn, swapped, sock, pend, u, h>> /\ loop.fns = <<>>
        /\ loop' = [loop EXCEPT !.pc = "poll"]
    BY <1>11 DEF FunctorsDone
  <2> QED BY <1>a, <1>b, <2>1, PcEffect
<1>12. ASSUME NEW op, Run(op)
       PROVE  /\ loop' \in LoopType /\ loop'.due = loop.due /\ loop'.pc = "functors" /\ u' = u
              /\ Tail(loop.fns) = loop'.fns
  BY <1>12, RunEffect
<1>13. CASE RunStart
  <2>1. UNCHANGED <<c, conn, swapped, pend>> /\ Run("startInLoop")
    BY <1>13 DEF RunStart
  <2>2. CASE Held
    <3>1. startInLoop(k)
      BY <1>13, <2>2 DEF RunStart
    <3>2. k' \in KType /\ k'.timers >= k.timers /\ h' \in HType /\ SockOK
      BY <1>a, <1>c, <3>1
    <3>3. loop'.due <= k'.timers
      BY <1>12, <1>a, <2>1, <3>2 DEF KType
    <3> QED BY <1>12, <1>a, <1>b, <2>1, <3>2, <3>3
  <2>3. CASE ~ Held
    <3>1. Using(FALSE, "connector") /\ UNCHANGED <<k, sock>>
      BY <1>13, <2>3 DEF RunStart
    <3>2. h' \in HType
      BY <3>1, UsingEffect DEF Names
    <3> QED BY <1>12, <1>a, <1>b, <2>1, <3>1, <3>2
  <2> QED BY <2>2, <2>3
<1>14. CASE RunStop
  <2>1. UNCHANGED <<c, conn, swapped>> /\ Run("stopInLoop")
    BY <1>14 DEF RunStop
  <2>2. CASE Held
    <3>1. stopInLoop(k) /\ h' = h
      BY <1>14, <2>2 DEF RunStop
    <3>2. queueInLoop("resetChannel", 0) => pend' \in Seq(Functors)
      BY <1>a, AppendProperties DEF queueInLoop, Functors, Plain
    <3>3. /\ k' \in KType /\ k'.timers >= k.timers /\ pend' \in Seq(Functors) /\ SockOK
      BY <1>a, <3>1, <3>2, StopEffect DEF Waits, Ends
    <3>4. loop'.due <= k'.timers
      BY <1>12, <1>a, <2>1, <3>3 DEF KType
    <3> QED BY <1>12, <1>a, <1>b, <2>1, <3>1, <3>3, <3>4
  <2>3. CASE ~ Held
    <3>1. Using(FALSE, "connector") /\ UNCHANGED <<k, sock, pend>>
      BY <1>14, <2>3 DEF RunStop
    <3>2. h' \in HType
      BY <3>1, UsingEffect DEF Names
    <3> QED BY <1>12, <1>a, <1>b, <2>1, <3>1, <3>2
  <2> QED BY <2>2, <2>3
<1>15. CASE RunReset
  <2>1. UNCHANGED <<c, conn, swapped, sock, pend>> /\ Run("resetChannel")
    BY <1>15 DEF RunReset
  <2>2. k' \in KType /\ k'.timers = k.timers /\ h' \in HType
    BY <1>15, ResetEffect
  <2> QED BY <1>12, <1>a, <1>b, <2>1, <2>2
<1>16. CASE RunDestroyed
  <2>1. /\ UNCHANGED <<k, c, swapped, sock, pend, h>> /\ Run("connectDestroyed")
        /\ conn' = [conn EXCEPT ![Head(loop.fns)[2]] = "Destroyed"]
    BY <1>16 DEF RunDestroyed
  <2>2. ConnOK
    BY <2>1, ConnEffect
  <2> QED BY <1>12, <1>a, <1>b, <2>1, <2>2
<1>17. CASE RunSetCloseCallback
  <2>1. /\ UNCHANGED <<k, c, conn, sock, pend, h>> /\ Run("setCloseCallback")
        /\ swapped' = swapped \cup {Head(loop.fns)[2]}
    BY <1>17 DEF RunSetCloseCallback
  <2>2. swapped' \subseteq 0..MaxFd
    BY <1>a, <2>1, RunEffect
  <2> QED BY <1>12, <1>a, <1>b, <2>1, <2>2
<1>18. CASE LoopStep
  BY <1>1, <1>2, <1>3, <1>4, <1>5, <1>6, <1>7, <1>8, <1>9, <1>10, <1>11, <1>13, <1>14, <1>15,
     <1>16, <1>17, <1>18 DEF LoopStep
<1>19. CASE LoopConnect
  <2>1. /\ u' = [u EXCEPT !.calls = @ + 1, !.connected = TRUE, !.stopped = FALSE]
        /\ c' = [c EXCEPT !.connect = TRUE]
        /\ startInLoop(Flagged(k, TRUE)) /\ UNCHANGED <<conn, swapped, pend, loop>>
    BY <1>19 DEF LoopConnect, OnLoop, Flagged
  <2>2. Flagged(k, TRUE) \in KType /\ Flagged(k, TRUE).timers = k.timers
    BY <1>a, FlagEffect
  <2>3. k' \in KType /\ k'.timers >= k.timers /\ h' \in HType /\ SockOK
    BY <1>c, <2>1, <2>2
  <2>4. u' \in UType /\ c' \in CType
    BY <2>1, CalledEffect, CFields
  <2>5. loop'.due <= k'.timers
    BY <1>a, <2>1, <2>3 DEF KType
  <2> QED BY <1>a, <1>b, <2>1, <2>3, <2>4, <2>5
<1>20. CASE LoopDisconnect
  <2>1. /\ u' = [u EXCEPT !.calls = @ + 1] /\ c' = [c EXCEPT !.connect = FALSE]
        /\ Shut /\ UNCHANGED <<k, swapped, sock, pend, h, loop>>
    BY <1>20 DEF LoopDisconnect, OnLoop
  <2>2. u' \in UType /\ c' \in CType /\ ConnOK
    BY <2>1, CalledEffect, CFields, ShutEffect
  <2> QED BY <1>a, <1>b, <2>1, <2>2
<1>21. CASE LoopStop
  <2>1. /\ u' = [u EXCEPT !.calls = @ + 1, !.stopped = TRUE] /\ c' = [c EXCEPT !.connect = FALSE]
        /\ stopInLoop(Flagged(k, FALSE)) /\ UNCHANGED <<conn, swapped, h, loop>>
    BY <1>21 DEF LoopStop, OnLoop, Flagged
  <2>2. Flagged(k, FALSE) \in KType /\ Flagged(k, FALSE).timers = k.timers
    BY <1>a, FlagEffect
  <2>3. k' \in KType /\ k'.timers >= k.timers /\ pend' \in Seq(Functors) /\ SockOK
    BY <1>d, <2>1, <2>2
  <2>4. u' \in UType /\ c' \in CType
    BY <2>1, CalledEffect, CFields
  <2>5. loop'.due <= k'.timers
    BY <1>a, <2>1, <2>3 DEF KType
  <2> QED BY <1>a, <1>b, <2>1, <2>3, <2>4, <2>5
<1>22. CASE LoopDtor
  <2>1. u' = [u EXCEPT !.calls = @ + 1] /\ UNCHANGED <<conn, h, loop>>
    BY <1>22 DEF LoopDtor, OnLoop
  <2>2. u' \in UType
    BY <2>1, CalledEffect
  <2>3. CASE c.connection # 0
    <3>1. /\ swapped' = swapped \cup {c.connection} /\ c' = [c EXCEPT !.exists = FALSE]
          /\ UNCHANGED <<k, sock, pend>>
      BY <1>22, <2>3 DEF LoopDtor
    <3>2. c' \in CType
      BY <3>1, CFields
    <3> QED BY <1>a, <1>b, <2>1, <2>2, <3>1, <3>2
  <2>4. CASE c.connection = 0
    <3>1. /\ stopInLoop(Flagged(k, FALSE)) /\ c' = [c EXCEPT !.exists = FALSE, !.hack = TRUE]
          /\ UNCHANGED swapped
      BY <1>22, <2>4 DEF LoopDtor, Flagged
    <3>2. Flagged(k, FALSE) \in KType /\ Flagged(k, FALSE).timers = k.timers
      BY <1>a, FlagEffect
    <3>3. k' \in KType /\ k'.timers >= k.timers /\ pend' \in Seq(Functors) /\ SockOK
      BY <1>d, <2>1, <3>1, <3>2
    <3>4. c' \in CType
      BY <3>1, CGone
    <3>5. loop'.due <= k'.timers
      BY <1>a, <2>1, <3>3 DEF KType
    <3> QED BY <1>a, <1>b, <2>1, <2>2, <3>1, <3>3, <3>4, <3>5
  <2> QED BY <2>3, <2>4
<1>23. \A p \in UPcs : Begin(p) => u' \in UType /\ UNCHANGED <<k, conn, swapped, sock, loop, pend, h>>
  BY BeginEffect DEF Begin
<1>24. \A b \in BOOLEAN : k' = [k EXCEPT !.connect = b] => k' \in KType /\ k'.timers = k.timers
  BY <1>a DEF KType
<1>25. CASE Connect \/ Disconnect \/ Stop
  <2>1. c' \in CType
    BY <1>25, CFields DEF Connect, Disconnect, Stop
  <2>2. u' \in UType /\ UNCHANGED <<k, conn, swapped, sock, loop, pend, h>>
    BY <1>23, <1>25 DEF Connect, Disconnect, Stop, UPcs
  <2> QED BY <1>a, <1>b, <2>1, <2>2
<1>27. \A p, q \in UPcs : Step(p, q) => u' \in UType /\ UNCHANGED <<sock, loop, h>>
  BY StepEffect
<1>28. CASE Start \/ QueueStop \/ DtorQueue
  <2>1. u' \in UType /\ UNCHANGED <<sock, loop, h, k, conn, swapped>>
    BY <1>27, <1>28 DEF Start, QueueStop, DtorQueue, UPcs
  <2>2. \A op \in Plain : queueInLoop(op, 0) => pend' \in Seq(Functors)
    BY <1>a, <2>1, QueueEffect DEF Functors
  <2>3. c' \in CType /\ pend' \in Seq(Functors)
    BY <1>28, <1>a, <2>2, CFields DEF Start, QueueStop, DtorQueue, Plain
  <2> QED BY <1>a, <1>b, <2>1, <2>3
<1>29. CASE ConnectorStart \/ Shutdown \/ ConnectorStop \/ DtorDone
  <2>1. u' \in UType /\ UNCHANGED <<sock, loop, h, swapped, pend>>
    BY <1>27, <1>29 DEF ConnectorStart, Shutdown, ConnectorStop, DtorDone, UPcs
  <2>2. k' \in KType /\ k'.timers = k.timers
    BY <1>24, <1>29, <1>a DEF ConnectorStart, Shutdown, ConnectorStop, DtorDone
  <2>3. ConnOK /\ c' \in CType
    BY <1>29, <1>a, CFields, ShutEffect DEF ConnectorStart, Shutdown, ConnectorStop, DtorDone
  <2> QED BY <1>a, <1>b, <2>1, <2>2, <2>3
<1>30. CASE Dtor
  <2>1. UNCHANGED <<k, c, conn, swapped, sock, loop, h>>
    BY <1>30 DEF Dtor
  <2>2. u' \in UType
    <3>1. \E p \in UPcs : u' = [u EXCEPT !.pc = p, !.calls = @ + 1, !.remote = @ \cup {"dtor"}]
      BY <1>30 DEF Dtor, UPcs
    <3> QED BY <3>1, DtorEffect
  <2>3. pend' \in Seq(Functors)
    BY <1>30, <1>a, AppendProperties DEF Dtor, Functors
  <2> QED BY <1>a, <1>b, <2>1, <2>2, <2>3
<1>31. ASSUME Established \/ SelfConnected \/ ConnectFails \/ PeerResets \/ PeerCloses
       PROVE  ClientTypeOK' /\ LoopKept'
  <2>1. UNCHANGED <<k, c, conn, swapped, loop, pend, u, h>> /\ SockOK
    BY <1>31, <1>a DEF Established, SelfConnected, ConnectFails, PeerResets, PeerCloses, Becomes
  <2> QED BY <1>a, <1>b, <2>1
<1>32. CASE UNCHANGED vars
  BY <1>32, <1>a, <1>b DEF vars
<1>33. CASE UserStep
  BY <1>28, <1>29, <1>33 DEF UserStep
<1> QED BY <1>18, <1>19, <1>20, <1>21, <1>22, <1>25, <1>30, <1>31, <1>32, <1>33 DEF Next

-----------------------------------------------------------------------------
(* Sockets, channel_ and connection_ *)

LEMMA AliveIsSane == Alive => Sane
BY DEF Alive, Failed, Sane

ClientLife == /\ SocketsKept /\ OneConnection /\ GoneQuietly /\ LoopDtorIsSafe
              /\ Sane => ResetKept

LEMMA LifeInit == Init => ClientLife
<1> SUFFICES ASSUME Init PROVE ClientLife
  OBVIOUS
<1>1. \A y : ~ Due(y) /\ DueOnce(y)
  BY HasEmpty DEF Init, Due, DueOnce
<1> QED BY <1>1 DEF Init, ClientLife, SocketsKept, OneConnection, GoneQuietly, LoopDtorIsSafe,
           ResetKept, Up

\* RunStop takes a functor and queues another.
RunQueued(f, x) == /\ \A y : y # f => (Has(loop'.fns, y) <=> Has(loop.fns, y))
                   /\ \A y : y # f => (Due(y)' <=> Due(y) \/ y = x)
                   /\ \A y : Due(y)' => Due(y) \/ y = x
                   /\ \A y : y # x /\ DueOnce(y) => DueOnce(y)' /\ (y = f => ~ Due(y)')
                   /\ x # f /\ DueOnce(x) /\ ~ Due(x) => DueOnce(x)'

LEMMA RunQueueEffect ==
  ASSUME ClientTypeOK, NEW op, Run(op), NEW q \in Plain, queueInLoop(q, 0)
  PROVE  RunQueued(Head(loop.fns), <<q, 0>>)
<1> DEFINE x == <<q, 0>>
           f == Head(loop.fns)
           t == Tail(loop.fns)
<1>1. x \in Functors /\ pend' = Append(pend, x) /\ pend \in Seq(Functors)
  BY ClientConstants DEF queueInLoop, ClientTypeOK, Functors
<1>2. loop'.fns = t /\ loop.fns \in Seq(Functors) /\ loop.fns # <<>>
  BY RunEffect
<1>3. /\ Has(loop.fns, f)
      /\ \A y : Has(t, y) => Has(loop.fns, y)
      /\ \A y : Has(loop.fns, y) => Has(t, y) \/ y = f
      /\ \A y : Once(loop.fns, y) => Once(t, y) /\ (y = f => ~ Has(t, y))
  BY <1>2, HasTail
<1> HIDE DEF x, f, t
<1>4. /\ \A y : Has(pend', y) <=> Has(pend, y) \/ y = x
      /\ \A y : Once(pend, y) /\ (y # x \/ ~ Has(pend, y)) => Once(pend', y)
  BY <1>1, HasAppend
<1>5. RunQueued(f, x)
  BY <1>2, <1>3, <1>4 DEF RunQueued, Due, DueOnce
<1> QED BY <1>5 DEF f, x

CdKept == \A fd \in Fds : Due(<<"connectDestroyed", fd>>)' => Due(<<"connectDestroyed", fd>>)
ResetsSame == (Due(ResetF)' <=> Due(ResetF)) /\ (DueOnce(ResetF) => DueOnce(ResetF)')

LEMMA SocketsStay ==
  ASSUME SocketsKept, k'.watched = k.watched, k'.state = k.state, k'.channel = k.channel,
         \A fd \in Fds : sock'[fd] = "free" <=> sock[fd] = "free",
         \A fd \in Fds : conn'[fd] = "none" <=> conn[fd] = "none",
         CdKept
  PROVE  SocketsKept'
BY DEF SocketsKept, CdKept

LEMMA ResetStays ==
  ASSUME ResetKept, k'.watched = k.watched, k'.channel = k.channel, ResetsSame
  PROVE  ResetKept'
BY DEF ResetKept, ResetsSame

LEMMA StartLife ==
  ASSUME ClientTypeOK, SocketsKept, ResetKept, NEW kk \in KType, startInLoop(kk),
         kk.channel = k.channel, kk.watched = k.watched,
         kk.state = k.state \/ (kk.state = "kDisconnected" /\ k.state = "kConnected"),
         conn' = conn, CdKept, ResetsSame
  PROVE  /\ SocketsKept' /\ (h'.failed = {} => ResetKept') /\ h'.dangling = h.dangling
         /\ k'.connect = kk.connect /\ (kk.state # "kDisconnected" => k'.state = kk.state)
         /\ k'.watched => k.watched \/ kk.connect
<1>1. CASE Waits(kk)
  BY <1>1, StartEffect DEF Waits, Alike, SocketsKept, ResetKept, ResetsSame, CdKept
<1>2. CASE Retries(kk)
  BY <1>2, StartEffect DEF Retries, Alike, SocketsKept, ResetKept, ResetsSame, CdKept
<1>3. ASSUME NEW fd \in Fds, Tries(kk, fd), h'.failed = {} => kk.channel = 0 PROVE
         /\ SocketsKept' /\ (h'.failed = {} => ResetKept') /\ h'.dangling = h.dangling
         /\ k'.connect = kk.connect /\ (kk.state # "kDisconnected" => k'.state = kk.state)
  <2>1. /\ \A f \in Fds : sock'[f] = IF f = fd THEN "trying" ELSE sock[f]
        /\ h'.dangling = h.dangling
    BY <1>3, StartEffect DEF Tries, ClientTypeOK
  <2>2. SocketsKept'
    <3>1. /\ ~ k.watched /\ sock[fd] = "free" /\ conn[fd] = "none"
          /\ k'.watched /\ k'.state = "kConnecting" /\ k'.channel = fd
      BY <1>3 DEF Tries, SocketsKept
    <3>2. \A f \in Fds : sock[f] # "free" <=> conn[f] # "none"
      BY <3>1 DEF SocketsKept
    <3>3. \A f \in Fds : Due(<<"connectDestroyed", f>>)' => conn'[f] # "none"
      BY DEF SocketsKept, CdKept
    <3>4. /\ k'.watched <=> k'.state = "kConnecting"
          /\ k'.watched => k'.channel \in Fds /\ sock'[k'.channel] # "free"
                           /\ conn'[k'.channel] = "none"
      BY <2>1, <3>1
    <3>5. \A f \in Fds : /\ sock'[f] # "free" => conn'[f] # "none" \/ (k'.watched /\ f = k'.channel)
                         /\ conn'[f] # "none" => sock'[f] # "free"
      BY <2>1, <3>1, <3>2
    <3> QED BY <3>3, <3>4, <3>5 DEF SocketsKept
  <2>3. h'.failed = {} => ResetKept'
    <3>1. fd # 0
      BY ClientConstants DEF Fds
    <3> QED BY <1>3, <3>1 DEF Tries, ResetKept, ResetsSame
  <2> QED BY <1>3, <2>1, <2>2, <2>3 DEF Tries
<1> QED BY <1>1, <1>2, <1>3, StartEffect, StartKeeps

LEMMA EndLife ==
  ASSUME ClientTypeOK, SocketsKept, ResetKept, NEW kk \in KType, Ends(kk),
         kk.channel = k.channel, k.state = "kConnecting", conn' = conn,
         CdKept, Due(ResetF)', DueOnce(ResetF) /\ ~ Due(ResetF) => DueOnce(ResetF)'
  PROVE  SocketsKept' /\ ResetKept' /\ k'.state = "kDisconnected" /\ k'.connect = kk.connect
<1>1. \A f \in Fds : sock'[f] = IF f = k.channel THEN "free" ELSE sock[f]
  BY ClosedEffect DEF Ends
<1>2. k.watched /\ k.channel \in Fds /\ k.channel # 0
  BY ClientConstants DEF SocketsKept, Fds
<1>3. SocketsKept'
  BY <1>1, <1>2 DEF Ends, SocketsKept, CdKept
<1>4. ResetKept'
  BY <1>2 DEF Ends, ResetKept
<1> QED BY <1>3, <1>4 DEF Ends

\* connection_ and the loop's place stay, and so does what they say of the connector.
LEMMA OneStays ==
  ASSUME OneConnection, c'.connection = c.connection, c'.retry = c.retry,
         loop'.pc = loop.pc, loop'.closing = loop.closing,
         \A fd \in Fds : Up(fd)' => Up(fd),
         loop.closing # 0 => \/ conn'[loop.closing] = conn[loop.closing]
                             \/ Up(loop.closing) /\ Up(loop.closing)',
         k.state = "kConnected" => k'.state = "kConnected"
  PROVE  OneConnection'
BY DEF OneConnection, Up

LEMMA GoneStays ==
  ASSUME GoneQuietly, c'.connection = c.connection, c'.exists = c.exists,
         swapped \subseteq swapped', u.remote \subseteq u'.remote,
         loop'.pc = "restart" => loop.pc = "restart",
         u'.pc \in {"dtorStop", "dtorQueue", "dtorSwap"} =>
           "dtor" \in u'.remote \/ u.pc \in {"dtorStop", "dtorQueue", "dtorSwap"},
         u'.pc # "idle" => u.pc # "idle",
         k'.connect => k.connect \/ c.exists,
         k'.watched => k.watched \/ k.connect \/ c.exists
  PROVE  GoneQuietly'
BY DEF GoneQuietly

LEMMA SafeStays ==
  ASSUME LoopDtorIsSafe, u.remote \subseteq u'.remote,
         "client" \in h'.dangling => "client" \in h.dangling \/ "dtor" \in u'.remote
  PROVE  LoopDtorIsSafe'
BY DEF LoopDtorIsSafe

LEMMA LifeNext ==
  ClientTypeOK /\ LoopKept /\ ClientLife /\ [Next]_vars => ClientLife'
<1> SUFFICES ASSUME ClientTypeOK, LoopKept, ClientLife, [Next]_vars PROVE ClientLife'
  OBVIOUS
<1>a. /\ SocketsKept /\ OneConnection /\ GoneQuietly /\ LoopDtorIsSafe
      /\ Alive => ResetKept /\ Sane
  BY AliveIsSane DEF ClientLife
<1>b. /\ k \in KType /\ c \in CType /\ u \in UType /\ h \in HType /\ loop.closing \in 0..MaxFd
      /\ c.connection \in 0..MaxFd /\ 0 \notin Fds /\ \A fd \in 0..MaxFd : fd # 0 => fd \in Fds
      /\ k.channel \in 0..MaxFd
  BY ClientConstants DEF ClientTypeOK, LoopType, CType, KType, Fds
<1>c. \A fd \in Fds : <<"connectDestroyed", fd>> \notin {StartF, StopF, ResetF}
  BY DEF StartF, StopF, ResetF
<1>d. StartF # ResetF /\ StopF # ResetF
  BY DEF StartF, StopF, ResetF
<1>e. loop'.fns = loop.fns /\ pend' = pend => CdKept /\ ResetsSame
  BY NoQueueEffect DEF Untouched, CdKept, ResetsSame
<1>f. \A x : Queued(x) /\ (x \in {StartF, StopF} \/ x[1] = "setCloseCallback") => CdKept /\ ResetsSame
  <2> TAKE x
  <2> HAVE Queued(x) /\ (x \in {StartF, StopF} \/ x[1] = "setCloseCallback")
  <2>1. x # ResetF /\ \A fd \in Fds : x # <<"connectDestroyed", fd>>
    BY DEF StartF, StopF, ResetF
  <2> QED BY <2>1 DEF Queued, CdKept, ResetsSame
<1>g. Queued(ResetF) => CdKept /\ Due(ResetF)' /\ (DueOnce(ResetF) /\ ~ Due(ResetF) => DueOnce(ResetF)')
  BY <1>c DEF Queued, CdKept
<1>h. \A x : Taken(x) => CdKept /\ (x # ResetF => ResetsSame)
  BY DEF Taken, CdKept, ResetsSame
<1>i. ASSUME SocketsKept', OneConnection', GoneQuietly', LoopDtorIsSafe', Sane' => ResetKept'
      PROVE  ClientLife'
  BY <1>i DEF ClientLife
<1> DEFINE Gone(pc) == pc \in {"dtorStop", "dtorQueue", "dtorSwap"}
<1>1. CASE Poll
  <2>1. /\ UNCHANGED <<k, c, conn, swapped, sock, pend, u, h>> /\ loop'.fns = loop.fns /\ Alive
        /\ loop.pc = "poll" /\ loop'.pc = "events" /\ (loop'.closing # 0 => Up(loop'.closing))
    BY <1>1, PollEffect DEF Poll, At
  <2>2. SocketsKept' /\ ResetKept'
    BY <1>a, <1>e, <2>1, SocketsStay, ResetStays
  <2>3. OneConnection'
    BY <1>a, <2>1 DEF OneConnection, Up
  <2>4. GoneQuietly' /\ LoopDtorIsSafe'
    BY <1>a, <2>1 DEF GoneQuietly, LoopDtorIsSafe
  <2> QED BY <1>i, <2>2, <2>3, <2>4
<1>2. CASE RunTimer
  <2>1. /\ UNCHANGED <<c, conn, swapped, pend, u>> /\ Alive
        /\ loop'.pc = "events" /\ loop.pc = "events" /\ loop'.closing = loop.closing
        /\ loop'.fns = loop.fns
    BY <1>2, RunTimerEffect DEF RunTimer, At, LoopKept
  <2>2. PICK kk \in KType : /\ startInLoop(kk) /\ kk.state = k.state /\ kk.connect = k.connect
                            /\ kk.channel = k.channel /\ kk.watched = k.watched
    BY <1>2, RunTimerEffect DEF LoopKept
  <2>3. /\ SocketsKept' /\ (h'.failed = {} => ResetKept') /\ h'.dangling = h.dangling
        /\ k'.connect = kk.connect /\ (kk.state # "kDisconnected" => k'.state = kk.state)
        /\ k'.watched => k.watched \/ kk.connect
    BY <1>a, <1>e, <2>1, <2>2, StartLife
  <2>4. OneConnection'
    BY <1>a, <2>1, <2>2, <2>3, OneStays DEF Up
  <2>5. GoneQuietly' /\ LoopDtorIsSafe'
    BY <1>a, <2>1, <2>2, <2>3, GoneStays, SafeStays
  <2> QED BY <1>i, <2>3, <2>4, <2>5 DEF Sane
<1>3. CASE RunRemoveConnector
  <2>1. /\ UNCHANGED <<k, conn, swapped, sock, loop, pend, u, h>> /\ Alive
        /\ c'.connection = c.connection /\ c'.exists = c.exists /\ c'.retry = c.retry
    BY <1>3, CFields DEF RunRemoveConnector, At
  <2>2. SocketsKept' /\ ResetKept'
    BY <1>a, <1>e, <2>1, SocketsStay, ResetStays
  <2>3. OneConnection' /\ GoneQuietly' /\ LoopDtorIsSafe'
    BY <1>a, <2>1 DEF OneConnection, Up, GoneQuietly, LoopDtorIsSafe
  <2> QED BY <1>i, <2>2, <2>3
<1>4. CASE HandleDisabled
  <2>1. /\ UNCHANGED <<k, c, conn, swapped, sock, pend, u, h>> /\ Alive
        /\ loop' = [loop EXCEPT !.ready = "none"]
    BY <1>4 DEF HandleDisabled, At
  <2>2. loop'.pc = loop.pc /\ loop'.closing = loop.closing /\ loop'.fns = loop.fns
    BY <2>1, ReadyGone
  <2>3. SocketsKept' /\ ResetKept'
    BY <1>a, <1>e, <2>1, <2>2, SocketsStay, ResetStays
  <2>4. OneConnection' /\ GoneQuietly' /\ LoopDtorIsSafe'
    BY <1>a, <2>1, <2>2 DEF OneConnection, Up, GoneQuietly, LoopDtorIsSafe
  <2> QED BY <1>i, <2>3, <2>4
<1>5. CASE handleError \/ handleWriteFails
  <2>1. Handle /\ Alive
    BY <1>5 DEF handleError, handleWriteFails, Handle, At
  <2>2. /\ loop.pc = "events" /\ loop'.pc = "events" /\ loop'.closing = loop.closing
        /\ Queued(ResetF) /\ k.watched /\ UNCHANGED <<swapped, u>>
    BY <2>1, HandleEffect
  <2>3. Ends(k) /\ UNCHANGED <<c, conn>> /\ h'.dangling = h.dangling
    BY <1>5, FailedEffect
  <2>4. k.state = "kConnecting"
    BY <1>a, <2>2 DEF SocketsKept
  <2>5. SocketsKept' /\ ResetKept' /\ k'.connect = k.connect
    BY <1>a, <1>b, <1>g, <2>1, <2>2, <2>3, <2>4, EndLife
  <2>6. OneConnection'
    BY <1>a, <2>2, <2>3, <2>4, OneStays DEF Up
  <2>7. GoneQuietly' /\ LoopDtorIsSafe'
    BY <1>a, <2>2, <2>3, <2>5, GoneStays, SafeStays DEF Ends
  <2> QED BY <1>i, <2>5, <2>6, <2>7
<1>6. CASE handleWrite
  <2>1. Handle /\ Alive
    BY <1>6 DEF handleWrite, Handle, At
  <2>2. /\ loop.pc = "events" /\ loop'.pc = "events" /\ loop'.closing = loop.closing
        /\ Queued(ResetF) /\ k.watched /\ UNCHANGED <<swapped, u>>
    BY <2>1, HandleEffect
  <2>3. /\ k'.state = "kConnected" /\ k'.connect = k.connect
        /\ k'.channel = k.channel /\ ~ k'.watched
        /\ c'.exists = c.exists /\ c'.retry = c.retry
        /\ \/ /\ k.connect /\ UNCHANGED sock /\ c'.connection = k.channel
              /\ \A f \in Fds : conn'[f] = IF f = k.channel THEN "Connected" ELSE conn[f]
              /\ h'.dangling = h.dangling \cup (IF c.exists THEN {} ELSE {"client"})
           \/ /\ ~ k.connect /\ Closed(k.channel) /\ UNCHANGED <<c, conn, h>>
    BY <1>6, WroteEffect
  <2>4. /\ k.state = "kConnecting" /\ k.channel \in Fds /\ sock[k.channel] # "free"
        /\ conn[k.channel] = "none" /\ c.connection = 0
    BY <1>a, <2>2 DEF SocketsKept, OneConnection
  <2>5. (\A fd \in Fds : ~ Up(fd)) /\ loop.closing = 0
    BY <1>a, <1>b, <2>2, <2>4 DEF OneConnection
  <2>6. ResetKept'
    BY <1>a, <1>b, <1>g, <2>1, <2>2, <2>3, <2>4 DEF ResetKept
  <2>7. CdKept
    BY <1>g, <2>2
  <2>8. CASE k.connect
    <3>1. /\ UNCHANGED sock /\ c'.connection = k.channel
          /\ \A f \in Fds : conn'[f] = IF f = k.channel THEN "Connected" ELSE conn[f]
          /\ h'.dangling = h.dangling \cup (IF c.exists THEN {} ELSE {"client"})
      BY <2>3, <2>8
    <3>2. SocketsKept'
      BY <1>a, <2>3, <2>4, <2>7, <3>1 DEF SocketsKept, CdKept
    <3>3. OneConnection'
      BY <2>2, <2>3, <2>4, <2>5, <3>1 DEF OneConnection, Up
    <3>4. GoneQuietly' /\ LoopDtorIsSafe'
      BY <1>a, <2>2, <2>3, <2>4, <2>8, <3>1 DEF GoneQuietly, LoopDtorIsSafe
    <3> QED BY <1>i, <2>6, <3>2, <3>3, <3>4
  <2>9. CASE ~ k.connect
    <3>1. Closed(k.channel) /\ UNCHANGED <<c, conn, h>>
      BY <2>3, <2>9
    <3>2. \A f \in Fds : sock'[f] = IF f = k.channel THEN "free" ELSE sock[f]
      BY <3>1, ClosedEffect
    <3>3. SocketsKept'
      BY <1>a, <2>3, <2>4, <2>7, <3>1, <3>2 DEF SocketsKept, CdKept
    <3>4. OneConnection'
      BY <1>a, <2>2, <2>3, <2>4, <3>1, OneStays DEF Up
    <3>5. GoneQuietly' /\ LoopDtorIsSafe'
      BY <1>a, <2>2, <2>3, <3>1, GoneStays, SafeStays
    <3> QED BY <1>i, <2>6, <3>3, <3>4, <3>5
  <2> QED BY <2>8, <2>9
<1>7. CASE handleClose
  <2>1. /\ conn' = [conn EXCEPT ![loop.closing] = "Disconnected"] /\ loop.closing # 0
        /\ loop' = [loop EXCEPT !.pc = "close"] /\ loop.pc = "events" /\ Alive
        /\ UNCHANGED <<k, c, swapped, sock, pend, u, h>>
    BY <1>7 DEF handleClose, At
  <2>2. /\ loop'.pc = "close" /\ loop'.closing = loop.closing /\ loop'.fns = loop.fns
    BY <2>1, PcEffect
  <2>3. /\ \A f \in Fds : conn'[f] = IF f = loop.closing THEN "Disconnected" ELSE conn[f]
        /\ loop.closing \in Fds /\ Up(loop.closing) /\ c.connection = loop.closing
    BY <1>a, <1>b, <2>1, ConnEffect, ZenonT(60) DEF OneConnection
  <2>4. SocketsKept' /\ ResetKept'
    BY <1>a, <1>e, <2>1, <2>2, <2>3, SocketsStay, ResetStays DEF Up
  <2>5. OneConnection'
    BY <1>a, <2>1, <2>2, <2>3 DEF OneConnection, Up
  <2>6. GoneQuietly' /\ LoopDtorIsSafe'
    BY <1>a, <2>1, <2>2, GoneStays, SafeStays
  <2> QED BY <1>i, <2>4, <2>5, <2>6
<1>8. CASE removeConnection
  <2>0. Alive
    BY <1>8 DEF removeConnection, At
  <2>1. /\ loop.pc = "close" /\ loop'.closing = 0 /\ loop'.fns = loop.fns
        /\ Queued(<<"connectDestroyed", loop.closing>>)
        /\ UNCHANGED <<k, conn, swapped, sock, u>>
        /\ c'.exists = c.exists /\ c'.retry = c.retry
        /\ \/ loop.closing \in swapped /\ loop'.pc = "events" /\ c' = c /\ h' = h
           \/ /\ loop.closing \notin swapped /\ c'.connection = 0
              /\ loop'.pc = IF c.retry /\ c.connect THEN "restart" ELSE "events"
              /\ h'.dangling = h.dangling \cup (IF c.exists THEN {} ELSE {"client"})
    BY <1>8, RemovedEffect
  <2>2. /\ loop.closing # 0 /\ loop.closing \in Fds /\ c.connection = loop.closing
        /\ conn[loop.closing] = "Disconnected" /\ k.state = "kConnected"
        /\ \A fd \in Fds : ~ Up(fd)
    BY <1>a, <1>b, <2>1 DEF OneConnection, Up
  <2>3. /\ \A fd \in Fds : Due(<<"connectDestroyed", fd>>)' =>
              Due(<<"connectDestroyed", fd>>) \/ fd = loop.closing
        /\ ResetsSame
    BY <2>1 DEF Queued, ResetsSame, ResetF
  <2>4. SocketsKept' /\ ResetKept'
    BY <1>a, <2>0, <2>1, <2>2, <2>3, ResetStays DEF SocketsKept
  <2>5. OneConnection'
    BY <1>a, <2>1, <2>2 DEF OneConnection, Up
  <2>6. GoneQuietly' /\ LoopDtorIsSafe'
    BY <1>a, <2>1, <2>2 DEF GoneQuietly, LoopDtorIsSafe
  <2> QED BY <1>i, <2>4, <2>5, <2>6
<1>9. CASE restart
  <2>1. /\ loop' = [loop EXCEPT !.pc = "events"] /\ loop.pc = "restart" /\ Alive
        /\ startInLoop(Restarted(k)) /\ UNCHANGED <<c, conn, swapped, pend, u>>
    BY <1>9 DEF restart, At, Restarted
  <2>2. PICK kk \in KType : /\ startInLoop(kk) /\ kk.state = "kDisconnected"
                            /\ kk.channel = k.channel /\ kk.watched = k.watched
    BY <1>b, <2>1, RestartEffect
  <2>3. /\ loop'.pc = "events" /\ loop'.closing = loop.closing /\ loop'.fns = loop.fns
    BY <2>1, PcEffect
  <2>4. /\ c.connection = 0 /\ k.state = "kConnected" /\ loop.closing = 0
        /\ \A fd \in Fds : ~ Up(fd)
    BY <1>a, <1>b, <2>1 DEF OneConnection
  <2>5. SocketsKept' /\ (h'.failed = {} => ResetKept') /\ h'.dangling = h.dangling
    BY <1>a, <1>e, <2>1, <2>2, <2>3, <2>4, StartLife
  <2>6. OneConnection'
    BY <2>1, <2>3, <2>4 DEF OneConnection, Up
  <2>7. GoneQuietly' /\ LoopDtorIsSafe'
    BY <1>a, <2>1, <2>3, <2>4, <2>5 DEF GoneQuietly, LoopDtorIsSafe
  <2> QED BY <1>i, <2>5, <2>6, <2>7 DEF Sane
<1>10. CASE SwapFunctors
  <2>1. UNCHANGED <<k, c, conn, swapped, sock, u, h>> /\ loop.pc = "events" /\ loop.fns = <<>> /\ Alive
    BY <1>10 DEF SwapFunctors, At, LoopKept
  <2>2. /\ loop'.pc = "functors" /\ loop'.closing = 0 /\ CdKept /\ ResetsSame
    BY <1>10, <2>1, SwapEffect DEF CdKept, ResetsSame
  <2>3. SocketsKept' /\ ResetKept'
    BY <1>a, <2>1, <2>2, SocketsStay, ResetStays
  <2>4. OneConnection' /\ GoneQuietly' /\ LoopDtorIsSafe'
    BY <1>a, <2>1, <2>2 DEF OneConnection, Up, GoneQuietly, LoopDtorIsSafe
  <2> QED BY <1>i, <2>3, <2>4
<1>11. CASE FunctorsDone
  <2>1. /\ UNCHANGED <<k, c, conn, swapped, sock, pend, u, h>> /\ Alive
        /\ loop' = [loop EXCEPT !.pc = "poll"] /\ loop.pc = "functors"
    BY <1>11 DEF FunctorsDone, At
  <2>2. loop'.pc = "poll" /\ loop'.closing = loop.closing /\ loop'.fns = loop.fns
    BY <2>1, PcEffect
  <2>3. SocketsKept' /\ ResetKept'
    BY <1>a, <1>e, <2>1, <2>2, SocketsStay, ResetStays
  <2>4. OneConnection' /\ GoneQuietly' /\ LoopDtorIsSafe'
    BY <1>a, <2>1, <2>2 DEF OneConnection, Up, GoneQuietly, LoopDtorIsSafe
  <2> QED BY <1>i, <2>3, <2>4
<1>12. ASSUME NEW op, Run(op)
       PROVE  /\ loop.pc = "functors" /\ loop'.pc = "functors" /\ loop'.closing = loop.closing
              /\ loop.closing = 0 /\ u' = u /\ Alive /\ Has(loop.fns, Head(loop.fns))
              /\ Head(loop.fns) = <<op, Head(loop.fns)[2]>>
              /\ op \in Plain => Head(loop.fns) = <<op, 0>>
              /\ pend' = pend => Taken(Head(loop.fns))
  <2>1. loop.closing = 0
    BY <1>a, <1>12 DEF OneConnection, Run, At
  <2>2. Has(loop.fns, Head(loop.fns))
    BY <1>12, RunEffect, HasTail
  <2> QED BY <1>12, <2>1, <2>2, RunEffect DEF Run, At
<1>13. CASE RunStart
  <2>1. UNCHANGED <<c, conn, swapped, pend>> /\ Run("startInLoop")
    BY <1>13 DEF RunStart
  <2>2. /\ loop.pc = "functors" /\ loop'.pc = "functors" /\ loop'.closing = loop.closing
        /\ u' = u /\ Alive /\ Taken(Head(loop.fns)) /\ Head(loop.fns) # ResetF
    BY <1>12, <2>1 DEF Plain, ResetF
  <2>3. CdKept /\ ResetsSame
    BY <1>h, <2>2
  <2>4. CASE Held
    <3>1. startInLoop(k)
      BY <1>13, <2>4 DEF RunStart
    <3>2. /\ SocketsKept' /\ (h'.failed = {} => ResetKept') /\ h'.dangling = h.dangling
          /\ k'.connect = k.connect /\ (k.state # "kDisconnected" => k'.state = k.state)
          /\ k'.watched => k.watched \/ k.connect
      BY <1>a, <1>b, <2>1, <2>2, <2>3, <3>1, StartLife
    <3>3. OneConnection'
      BY <1>a, <2>1, <2>2, <3>2, OneStays DEF Up
    <3>4. GoneQuietly' /\ LoopDtorIsSafe'
      BY <1>a, <2>1, <2>2, <3>2, GoneStays, SafeStays
    <3> QED BY <1>i, <3>2, <3>3, <3>4 DEF Sane
  <2>5. CASE ~ Held
    <3>1. Using(FALSE, "connector") /\ UNCHANGED <<k, sock>>
      BY <1>13, <2>5 DEF RunStart
    <3>2. h'.dangling = h.dangling \cup {"connector"}
      BY <3>1, UsingEffect DEF Names
    <3>3. SocketsKept' /\ ResetKept'
      BY <1>a, <2>1, <2>2, <2>3, <3>1, SocketsStay, ResetStays
    <3>4. OneConnection'
      BY <1>a, <2>1, <2>2, <3>1, OneStays DEF Up
    <3>5. GoneQuietly' /\ LoopDtorIsSafe'
      BY <1>a, <2>1, <2>2, <3>1, <3>2, GoneStays, SafeStays
    <3> QED BY <1>i, <3>3, <3>4, <3>5
  <2> QED BY <2>4, <2>5
<1>14. CASE RunStop
  <2>1. UNCHANGED <<c, conn, swapped>> /\ Run("stopInLoop")
    BY <1>14 DEF RunStop
  <2>2. /\ loop.pc = "functors" /\ loop'.pc = "functors" /\ loop'.closing = loop.closing
        /\ u' = u /\ Alive /\ Head(loop.fns) = StopF /\ (pend' = pend => Taken(StopF))
    BY <1>12, <2>1 DEF Plain, StopF
  <2>3. pend' = pend => CdKept /\ ResetsSame
    BY <1>d, <1>h, <2>2
  <2>4. CASE Held
    <3>1. stopInLoop(k) /\ h' = h
      BY <1>14, <2>4 DEF RunStop
    <3>2. CASE k.state # "kConnecting"
      <4>1. Waits(k) /\ pend' = pend
        BY <1>b, <3>1, <3>2, StopEffect
      <4>2. SocketsKept' /\ ResetKept'
        BY <1>a, <2>1, <2>2, <2>3, <4>1, SocketsStay, ResetStays DEF Waits, Alike
      <4>3. OneConnection'
        BY <1>a, <2>1, <2>2, <4>1, OneStays DEF Up, Waits, Alike
      <4>4. GoneQuietly' /\ LoopDtorIsSafe'
        BY <1>a, <2>1, <2>2, <3>1, <4>1, GoneStays, SafeStays DEF Waits, Alike
      <4> QED BY <1>i, <4>2, <4>3, <4>4
    <3>3. CASE k.state = "kConnecting"
      <4>1. Ends(k) /\ queueInLoop("resetChannel", 0)
        BY <1>b, <3>1, <3>3, StopEffect DEF Ends
      <4>2. RunQueued(StopF, ResetF)
        BY <2>1, <2>2, <4>1, RunQueueEffect DEF Plain, ResetF
      <4>3. CdKept /\ Due(ResetF)' /\ (DueOnce(ResetF) /\ ~ Due(ResetF) => DueOnce(ResetF)')
        BY <1>c, <1>d, <4>2 DEF RunQueued, CdKept
      <4>4. SocketsKept' /\ ResetKept' /\ k'.connect = k.connect
        BY <1>a, <1>b, <2>1, <2>2, <3>3, <4>1, <4>3, EndLife
      <4>5. OneConnection'
        BY <1>a, <2>1, <2>2, <3>3, OneStays DEF Up
      <4>6. GoneQuietly' /\ LoopDtorIsSafe'
        BY <1>a, <2>1, <2>2, <3>1, <4>1, <4>4, GoneStays, SafeStays DEF Ends
      <4> QED BY <1>i, <4>4, <4>5, <4>6
    <3> QED BY <3>2, <3>3
  <2>5. CASE ~ Held
    <3>1. Using(FALSE, "connector") /\ UNCHANGED <<k, sock, pend>>
      BY <1>14, <2>5 DEF RunStop
    <3>2. h'.dangling = h.dangling \cup {"connector"}
      BY <3>1, UsingEffect DEF Names
    <3>3. SocketsKept' /\ ResetKept'
      BY <1>a, <2>1, <2>2, <2>3, <3>1, SocketsStay, ResetStays
    <3>4. OneConnection'
      BY <1>a, <2>1, <2>2, <3>1, OneStays DEF Up
    <3>5. GoneQuietly' /\ LoopDtorIsSafe'
      BY <1>a, <2>1, <2>2, <3>1, <3>2, GoneStays, SafeStays
    <3> QED BY <1>i, <3>3, <3>4, <3>5
  <2> QED BY <2>4, <2>5
<1>15. CASE RunReset
  <2>1. UNCHANGED <<c, conn, swapped, sock, pend>> /\ Run("resetChannel")
    BY <1>15 DEF RunReset
  <2>2. /\ loop.pc = "functors" /\ loop'.pc = "functors" /\ loop'.closing = loop.closing
        /\ u' = u /\ Alive /\ Has(loop.fns, ResetF) /\ Taken(ResetF)
    BY <1>12, <2>1 DEF Plain, ResetF
  <2>3. /\ k'.state = k.state /\ k'.connect = k.connect /\ k'.watched = k.watched
        /\ k'.channel = IF Held THEN 0 ELSE k.channel
        /\ h'.dangling = {} => Held /\ ~ k.watched
        /\ "client" \in h'.dangling => "client" \in h.dangling
    BY <1>15, ResetEffect
  <2>4. ~ k.watched /\ DueOnce(ResetF)
    BY <1>a, <2>2 DEF ResetKept, Due
  <2>5. SocketsKept'
    BY <1>a, <1>h, <2>1, <2>2, <2>3, <2>4 DEF SocketsKept, CdKept
  <2>6. Sane' => ResetKept'
    BY <2>2, <2>3, <2>4 DEF Sane, ResetKept, Taken
  <2>7. OneConnection'
    BY <1>a, <2>1, <2>2, <2>3, OneStays DEF Up
  <2>8. GoneQuietly' /\ LoopDtorIsSafe'
    BY <1>a, <2>1, <2>2, <2>3, GoneStays, SafeStays
  <2> QED BY <1>i, <2>5, <2>6, <2>7, <2>8
<1>16. CASE RunDestroyed
  <2> DEFINE fd == Head(loop.fns)[2]
  <2>1. /\ UNCHANGED <<k, c, swapped, sock, pend, h>> /\ Run("connectDestroyed")
        /\ conn' = [conn EXCEPT ![fd] = "Destroyed"]
    BY <1>16 DEF RunDestroyed
  <2>2. /\ loop.pc = "functors" /\ loop'.pc = "functors" /\ loop'.closing = loop.closing
        /\ loop.closing = 0 /\ u' = u /\ Alive /\ Due(<<"connectDestroyed", fd>>)
        /\ Taken(<<"connectDestroyed", fd>>)
    BY <1>12, <2>1 DEF Due
  <2>3. \A f \in Fds : conn'[f] = IF f = fd THEN "Destroyed" ELSE conn[f]
    BY <2>1, ConnEffect
  <2> HIDE DEF fd
  <2>4. CdKept /\ ResetsSame
    BY <1>h, <2>2 DEF ResetF
  <2>5. \A f \in Fds : conn'[f] = "none" <=> conn[f] = "none"
    BY <1>a, <2>2, <2>3 DEF SocketsKept
  <2>6. SocketsKept' /\ ResetKept'
    BY <1>a, <2>1, <2>2, <2>4, <2>5, SocketsStay, ResetStays
  <2>7. OneConnection'
    BY <1>a, <2>1, <2>2, <2>3, OneStays DEF Up
  <2>8. GoneQuietly' /\ LoopDtorIsSafe'
    BY <1>a, <2>1, <2>2, GoneStays, SafeStays
  <2> QED BY <1>i, <2>6, <2>7, <2>8
<1>17. CASE RunSetCloseCallback
  <2>1. /\ UNCHANGED <<k, c, conn, sock, pend, h>> /\ Run("setCloseCallback")
        /\ swapped \subseteq swapped'
    BY <1>17 DEF RunSetCloseCallback
  <2>2. /\ loop.pc = "functors" /\ loop'.pc = "functors" /\ loop'.closing = loop.closing
        /\ u' = u /\ Alive /\ Taken(Head(loop.fns)) /\ Head(loop.fns) # ResetF
    BY <1>12, <2>1 DEF ResetF
  <2>3. SocketsKept' /\ ResetKept'
    BY <1>a, <1>h, <2>1, <2>2, SocketsStay, ResetStays
  <2>4. OneConnection'
    BY <1>a, <2>1, <2>2, OneStays DEF Up
  <2>5. GoneQuietly' /\ LoopDtorIsSafe'
    BY <1>a, <2>1, <2>2, GoneStays, SafeStays
  <2> QED BY <1>i, <2>3, <2>4, <2>5
<1>18. CASE LoopStep
  BY <1>1, <1>2, <1>3, <1>4, <1>5, <1>6, <1>7, <1>8, <1>9, <1>10, <1>11, <1>13, <1>14, <1>15,
     <1>16, <1>17, <1>18 DEF LoopStep
<1>19. CASE LoopConnect
  <2>1. /\ u' = [u EXCEPT !.calls = @ + 1, !.connected = TRUE, !.stopped = FALSE]
        /\ c' = [c EXCEPT !.connect = TRUE]
        /\ startInLoop(Flagged(k, TRUE)) /\ UNCHANGED <<conn, swapped, pend, loop>>
        /\ Alive /\ c.exists
    BY <1>19 DEF LoopConnect, OnLoop, Calling, Flagged
  <2>2. PICK kk \in KType : /\ startInLoop(kk) /\ kk.state = k.state
                            /\ kk.channel = k.channel /\ kk.watched = k.watched
    BY <1>b, <2>1, FlagEffect
  <2>3. /\ u'.pc = u.pc /\ u'.remote = u.remote /\ c'.connection = c.connection
        /\ c'.exists = c.exists /\ c'.retry = c.retry
    BY <2>1, CalledEffect, CFields
  <2>4. /\ SocketsKept' /\ (h'.failed = {} => ResetKept') /\ h'.dangling = h.dangling
        /\ (kk.state # "kDisconnected" => k'.state = kk.state)
    BY <1>a, <1>e, <2>1, <2>2, StartLife
  <2>5. OneConnection'
    BY <1>a, <2>1, <2>2, <2>3, <2>4, OneStays DEF Up
  <2>6. GoneQuietly' /\ LoopDtorIsSafe'
    BY <1>a, <2>1, <2>2, <2>3, <2>4, GoneStays, SafeStays
  <2> QED BY <1>i, <2>4, <2>5, <2>6 DEF Sane
<1>20. CASE LoopDisconnect
  <2>1. /\ u' = [u EXCEPT !.calls = @ + 1] /\ c' = [c EXCEPT !.connect = FALSE]
        /\ Shut /\ UNCHANGED <<k, swapped, sock, pend, h, loop>> /\ Alive
    BY <1>20 DEF LoopDisconnect, OnLoop, Calling
  <2>2. /\ u'.pc = u.pc /\ u'.remote = u.remote /\ c'.connection = c.connection
        /\ c'.exists = c.exists /\ c'.retry = c.retry
    BY <2>1, CalledEffect, CFields
  <2>3. /\ \A fd \in Fds : (Up(fd)' <=> Up(fd)) /\ (conn'[fd] = "none" <=> conn[fd] = "none")
        /\ \A fd \in Fds : conn'[fd] = conn[fd] \/ (Up(fd) /\ Up(fd)')
    BY <2>1, ShutEffect
  <2>4. SocketsKept' /\ ResetKept'
    BY <1>a, <1>e, <2>1, <2>3, SocketsStay, ResetStays
  <2>5. OneConnection'
    BY <1>a, <1>b, <2>1, <2>2, <2>3, OneStays
  <2>6. GoneQuietly' /\ LoopDtorIsSafe'
    BY <1>a, <2>1, <2>2, GoneStays, SafeStays
  <2> QED BY <1>i, <2>4, <2>5, <2>6
\* stopInLoop, by a call on the loop's thread.
<1>j. ASSUME NEW kk \in KType, stopInLoop(kk), kk.state = k.state, kk.channel = k.channel,
             kk.watched = k.watched, UNCHANGED <<conn, loop, h>>, Alive
      PROVE  /\ SocketsKept' /\ ResetKept' /\ k'.connect = kk.connect /\ ~ k'.watched
             /\ k.state = "kConnected" => k'.state = "kConnected"
  <2>1. CASE kk.state # "kConnecting"
    <3>1. Waits(kk) /\ pend' = pend
      BY <1>j, <2>1, StopEffect
    <3>2. ~ k.watched
      BY <1>a, <1>j, <2>1 DEF SocketsKept
    <3> QED BY <1>a, <1>e, <1>j, <3>1, <3>2, SocketsStay, ResetStays DEF Waits, Alike
  <2>2. CASE kk.state = "kConnecting"
    <3>1. Ends(kk) /\ queueInLoop("resetChannel", 0)
      BY <1>j, <2>2, StopEffect DEF Ends
    <3>2. Queued(ResetF)
      BY <1>j, <3>1, QueueEffect DEF Functors, Plain, ResetF
    <3>3. SocketsKept' /\ ResetKept' /\ k'.connect = kk.connect
      BY <1>a, <1>g, <1>j, <2>2, <3>1, <3>2, EndLife
    <3> QED BY <1>j, <2>2, <3>1, <3>3 DEF Ends
  <2> QED BY <2>1, <2>2
<1>21. CASE LoopStop
  <2>1. /\ u' = [u EXCEPT !.calls = @ + 1, !.stopped = TRUE] /\ c' = [c EXCEPT !.connect = FALSE]
        /\ stopInLoop(Flagged(k, FALSE)) /\ UNCHANGED <<conn, swapped, h, loop>> /\ Alive
    BY <1>21 DEF LoopStop, OnLoop, Calling, Flagged
  <2>2. PICK kk \in KType : /\ stopInLoop(kk) /\ kk.state = k.state /\ ~ kk.connect
                            /\ kk.channel = k.channel /\ kk.watched = k.watched
    BY <1>b, <2>1, FlagEffect
  <2>3. /\ u'.pc = u.pc /\ u'.remote = u.remote /\ c'.connection = c.connection
        /\ c'.exists = c.exists /\ c'.retry = c.retry
    BY <2>1, CalledEffect, CFields
  <2>4. /\ SocketsKept' /\ ResetKept' /\ ~ k'.connect /\ ~ k'.watched
        /\ k.state = "kConnected" => k'.state = "kConnected"
    BY <1>j, <2>1, <2>2
  <2>5. OneConnection'
    BY <1>a, <2>1, <2>3, <2>4, OneStays DEF Up
  <2>6. GoneQuietly' /\ LoopDtorIsSafe'
    BY <1>a, <2>1, <2>3, <2>4, GoneStays, SafeStays
  <2> QED BY <1>i, <2>4, <2>5, <2>6
<1>22. CASE LoopDtor
  <2>1. /\ u' = [u EXCEPT !.calls = @ + 1] /\ UNCHANGED <<conn, h, loop>> /\ Alive
        /\ loop.pc # "restart" /\ u.pc = "idle"
    BY <1>22 DEF LoopDtor, OnLoop, Calling
  <2>2. u'.pc = u.pc /\ u'.remote = u.remote
    BY <2>1, CalledEffect
  <2>3. CASE c.connection # 0
    <3>1. /\ swapped' = swapped \cup {c.connection} /\ c' = [c EXCEPT !.exists = FALSE]
          /\ UNCHANGED <<k, sock, pend>>
      BY <1>22, <2>3 DEF LoopDtor
    <3>2. c'.connection = c.connection /\ c'.retry = c.retry
      BY <3>1, CFields
    <3>3. SocketsKept' /\ ResetKept'
      BY <1>a, <1>e, <2>1, <3>1, SocketsStay, ResetStays
    <3>4. OneConnection'
      BY <1>a, <2>1, <3>1, <3>2, OneStays DEF Up
    <3>5. GoneQuietly' /\ LoopDtorIsSafe'
      BY <1>a, <2>1, <2>2, <2>3, <3>1, <3>2 DEF GoneQuietly, LoopDtorIsSafe
    <3> QED BY <1>i, <3>3, <3>4, <3>5
  <2>4. CASE c.connection = 0
    <3>1. /\ stopInLoop(Flagged(k, FALSE)) /\ c' = [c EXCEPT !.exists = FALSE, !.hack = TRUE]
          /\ UNCHANGED swapped
      BY <1>22, <2>4 DEF LoopDtor, Flagged
    <3>2. PICK kk \in KType : /\ stopInLoop(kk) /\ kk.state = k.state /\ ~ kk.connect
                              /\ kk.channel = k.channel /\ kk.watched = k.watched
      BY <1>b, <3>1, FlagEffect
    <3>3. c'.connection = c.connection /\ c'.retry = c.retry
      BY <3>1, CGone
    <3>4. /\ SocketsKept' /\ ResetKept' /\ ~ k'.connect /\ ~ k'.watched
          /\ k.state = "kConnected" => k'.state = "kConnected"
      BY <1>j, <2>1, <3>2
    <3>5. OneConnection'
      BY <1>a, <2>1, <3>3, <3>4, OneStays DEF Up
    <3>6. GoneQuietly' /\ LoopDtorIsSafe'
      BY <1>a, <2>1, <2>2, <2>4, <3>1, <3>3, <3>4 DEF GoneQuietly, LoopDtorIsSafe
    <3> QED BY <1>i, <3>4, <3>5, <3>6
  <2> QED BY <2>3, <2>4
<1>23. \A p \in UPcs : Begin(p) =>
          /\ u'.pc = p /\ u.remote \subseteq u'.remote /\ Alive /\ c.exists
          /\ UNCHANGED <<k, conn, swapped, sock, loop, pend, h>>
  BY BeginEffect DEF Begin, Calling
<1>24. \A b \in BOOLEAN : k' = [k EXCEPT !.connect = b] =>
          /\ k'.state = k.state /\ k'.channel = k.channel /\ k'.watched = k.watched
          /\ k'.connect = b
  BY <1>b DEF KType
\* Steps of the other thread leave the connector's state, the sockets and the loop alone.
<1>k. ASSUME Alive, UNCHANGED <<sock, loop, h>>, swapped \subseteq swapped',
             k'.state = k.state, k'.channel = k.channel, k'.watched = k.watched,
             \A fd \in Fds : (Up(fd)' <=> Up(fd)) /\ (conn'[fd] = "none" <=> conn[fd] = "none"),
             \A fd \in Fds : conn'[fd] = conn[fd] \/ (Up(fd) /\ Up(fd)'),
             CdKept, ResetsSame, c'.connection = c.connection, c'.retry = c.retry,
             c.exists /\ ~ c'.exists => "dtor" \in u.remote, c'.exists => c.exists,
             u.remote \subseteq u'.remote, Gone(u'.pc) => "dtor" \in u'.remote \/ Gone(u.pc),
             u'.pc # "idle" => c'.exists, k'.connect => k.connect \/ c.exists
      PROVE  ClientLife'
  <2>1. SocketsKept' /\ ResetKept'
    BY <1>a, <1>k, SocketsStay, ResetStays
  <2>2. OneConnection'
    BY <1>a, <1>b, <1>k, OneStays
  <2>3. GoneQuietly' /\ LoopDtorIsSafe'
    BY <1>a, <1>k DEF GoneQuietly, LoopDtorIsSafe
  <2> QED BY <1>i, <2>1, <2>2, <2>3
<1>l. conn' = conn => \A fd \in Fds : /\ (Up(fd)' <=> Up(fd)) /\ (conn'[fd] = "none" <=> conn[fd] = "none")
                                      /\ conn'[fd] = conn[fd] \/ (Up(fd) /\ Up(fd)')
  BY DEF Up
<1>25. CASE Connect \/ Disconnect \/ Stop
  <2>1. c'.connection = c.connection /\ c'.exists = c.exists /\ c'.retry = c.retry
    BY <1>25, CFields DEF Connect, Disconnect, Stop
  <2>2. /\ u'.pc \in {"connect", "shutdown", "stop"} /\ u.remote \subseteq u'.remote
        /\ Alive /\ c.exists /\ UNCHANGED <<k, conn, swapped, sock, loop, pend, h>>
    BY <1>23, <1>25 DEF Connect, Disconnect, Stop, UPcs
  <2> QED BY <1>e, <1>k, <1>l, <2>1, <2>2
<1>27. \A p, q \in UPcs : Step(p, q) => /\ u.pc = p /\ u'.pc = q /\ u'.remote = u.remote
                                        /\ Alive /\ UNCHANGED <<sock, loop, h>>
                                        /\ p # "idle" => c.exists
  BY <1>a, StepEffect DEF GoneQuietly
<1>28. CASE Start \/ QueueStop \/ DtorQueue
  <2>1. /\ UNCHANGED <<sock, loop, h, k, conn, swapped>> /\ u'.remote = u.remote /\ Alive
        /\ (Gone(u'.pc) => Gone(u.pc)) /\ c.exists
    BY <1>27, <1>28 DEF Start, QueueStop, DtorQueue, UPcs
  <2>2. \A op \in {"startInLoop", "stopInLoop"} : queueInLoop(op, 0) => CdKept /\ ResetsSame
    <3> TAKE op \in {"startInLoop", "stopInLoop"}
    <3> HAVE queueInLoop(op, 0)
    <3>1. <<op, 0>> \in Functors /\ <<op, 0>> \in {StartF, StopF}
      BY DEF Functors, Plain, StartF, StopF
    <3>2. Queued(<<op, 0>>)
      BY <2>1, <3>1, QueueEffect
    <3> QED BY <1>f, <3>1, <3>2
  <2>3. /\ c'.connection = c.connection /\ c'.exists = c.exists /\ c'.retry = c.retry
        /\ CdKept /\ ResetsSame
    BY <1>28, <2>2, CFields DEF Start, QueueStop, DtorQueue
  <2> QED BY <1>k, <1>l, <2>1, <2>3
<1>29. CASE Shutdown
  <2>1. /\ UNCHANGED <<sock, loop, h, swapped, pend, k, c>> /\ u'.remote = u.remote /\ Alive
        /\ u'.pc = "idle" /\ Shut
    BY <1>27, <1>29 DEF Shutdown, UPcs
  <2>2. /\ \A fd \in Fds : (Up(fd)' <=> Up(fd)) /\ (conn'[fd] = "none" <=> conn[fd] = "none")
        /\ \A fd \in Fds : conn'[fd] = conn[fd] \/ (Up(fd) /\ Up(fd)')
    BY <2>1, ShutEffect
  <2> QED BY <1>e, <1>k, <2>1, <2>2
<1>30. CASE ConnectorStart \/ ConnectorStop
  <2>1. /\ UNCHANGED <<sock, loop, h, swapped, pend, conn, c>> /\ u'.remote = u.remote /\ Alive
        /\ (Gone(u'.pc) => Gone(u.pc)) /\ c.exists
    BY <1>27, <1>30 DEF ConnectorStart, ConnectorStop, UPcs
  <2>2. /\ k'.state = k.state /\ k'.channel = k.channel /\ k'.watched = k.watched
    BY <1>24, <1>30 DEF ConnectorStart, ConnectorStop
  <2> QED BY <1>e, <1>k, <1>l, <2>1, <2>2
<1>31. CASE DtorDone
  <2>1. /\ UNCHANGED <<sock, loop, h, swapped, pend, conn, k>> /\ u'.remote = u.remote /\ Alive
        /\ u.pc = "dtorSwap" /\ u'.pc = "idle" /\ c' = [c EXCEPT !.exists = FALSE]
    BY <1>27, <1>31 DEF DtorDone, UPcs
  <2>2. c'.connection = c.connection /\ ~ c'.exists /\ c'.retry = c.retry
    BY <2>1, CFields
  <2>3. "dtor" \in u.remote
    BY <1>a, <2>1 DEF GoneQuietly
  <2> QED BY <1>e, <1>k, <1>l, <2>1, <2>2, <2>3
<1>32. CASE Dtor
  <2>1. UNCHANGED <<k, c, conn, swapped, sock, loop, h>> /\ Alive /\ c.exists
    BY <1>32 DEF Dtor, Calling
  <2>2. u.remote \subseteq u'.remote /\ "dtor" \in u'.remote
    <3>1. \E p \in UPcs : u' = [u EXCEPT !.pc = p, !.calls = @ + 1, !.remote = @ \cup {"dtor"}]
      BY <1>32 DEF Dtor, UPcs
    <3> QED BY <3>1, DtorEffect
  <2>3. CdKept /\ ResetsSame
    <3>1. CASE c.connection # 0
      <4>1. queueInLoop("setCloseCallback", c.connection)
        BY <1>32, <3>1 DEF Dtor, queueInLoop
      <4>2. Queued(<<"setCloseCallback", c.connection>>)
        BY <1>b, <2>1, <4>1, QueueEffect DEF Functors
      <4> QED BY <1>f, <4>2
    <3>2. CASE c.connection = 0
      BY <1>32, <1>e, <2>1, <3>2 DEF Dtor
    <3> QED BY <3>1, <3>2
  <2> QED BY <1>k, <1>l, <2>1, <2>2, <2>3
<1>33. ASSUME Established \/ SelfConnected \/ ConnectFails \/ PeerResets \/ PeerCloses
       PROVE  ClientLife'
  <2>1. /\ UNCHANGED <<k, c, conn, swapped, loop, pend, u, h>>
        /\ \A fd \in Fds : sock'[fd] = "free" <=> sock[fd] = "free"
    BY <1>33 DEF Established, SelfConnected, ConnectFails, PeerResets, PeerCloses, Becomes,
                 ClientTypeOK
  <2>2. SocketsKept' /\ (ResetKept => ResetKept')
    BY <1>a, <1>e, <2>1, SocketsStay, ResetStays
  <2>3. OneConnection' /\ GoneQuietly' /\ LoopDtorIsSafe'
    BY <1>a, <2>1 DEF OneConnection, Up, GoneQuietly, LoopDtorIsSafe
  <2>4. Sane' => ResetKept'
    BY <2>1, <2>2 DEF Sane, ClientLife
  <2> QED BY <1>i, <2>2, <2>3, <2>4
<1>34. CASE UNCHANGED vars
  <2>1. UNCHANGED <<k, c, conn, swapped, sock, loop, pend, u, h>>
    BY <1>34 DEF vars
  <2>2. SocketsKept' /\ (ResetKept => ResetKept')
    BY <1>a, <1>e, <2>1, SocketsStay, ResetStays
  <2>3. OneConnection' /\ GoneQuietly' /\ LoopDtorIsSafe'
    BY <1>a, <2>1 DEF OneConnection, Up, GoneQuietly, LoopDtorIsSafe
  <2>4. Sane' => ResetKept'
    BY <2>1, <2>2 DEF Sane, ClientLife
  <2> QED BY <1>i, <2>2, <2>3, <2>4
<1>35. CASE UserStep
  BY <1>28, <1>29, <1>30, <1>31, <1>35 DEF UserStep
<1> QED BY <1>18, <1>19, <1>20, <1>21, <1>22, <1>25, <1>32, <1>33, <1>34, <1>35 DEF Next

-----------------------------------------------------------------------------
(* The theorems that hold however often the user connects *)

ClientInv == ClientTypeOK /\ LoopKept /\ ClientLife

LEMMA ClientInvariant == Spec => []ClientInv
<1>1. Init => ClientInv
  BY TypeInit, LifeInit DEF ClientInv
<1>2. ClientInv /\ [Next]_vars => ClientInv'
  BY TypeNext, LifeNext DEF ClientInv
<1> QED BY <1>1, <1>2, PTL DEF Spec

\* Every variable keeps its type: the connector, the client, the queues and the other
\* thread's calls.
THEOREM ClientTypeCorrect == Spec => []ClientTypeOK
<1>1. ClientInv => ClientTypeOK
  BY DEF ClientInv
<1> QED BY <1>1, ClientInvariant, PTL

\* For any number of descriptors, connections and calls, with connect() called again or
\* not: an open socket is that of a connection or of the one attempt under way.
THEOREM SocketsAreAccountedFor == Spec => []SocketsAccountedFor
<1>1. ClientInv => SocketsAccountedFor
  BY DEF ClientInv, ClientLife, SocketsKept, SocketsAccountedFor
<1> QED BY <1>1, ClientInvariant, PTL

\* ~TcpClient on the loop's thread, in any callback and whatever is under way, leaves
\* nothing behind that calls the client.
THEOREM OwnDtorIsSafe == Spec => []LoopDtorIsSafe
<1>1. ClientInv => LoopDtorIsSafe
  BY DEF ClientInv, ClientLife
<1> QED BY <1>1, ClientInvariant, PTL

-----------------------------------------------------------------------------
(* A stop, for a user who connects once *)

\* The step of StopIsFinal.
StopStep == StopDone /\ u'.stopped /\ ~ c.retry =>
              /\ k'.watched => k.watched
              /\ \A fd \in Fds : conn[fd] = "none" => conn'[fd] = "none"

LEMMA StopNext ==
  ~ Again /\ ClientInv /\ StopsFinally /\ [Next]_vars => StopsFinally' /\ StopStep
<1> SUFFICES ASSUME ~ Again, ClientInv, StopsFinally, [Next]_vars PROVE StopsFinally' /\ StopStep
  OBVIOUS
<1>a. /\ ClientTypeOK /\ LoopKept /\ SocketsKept /\ OneConnection /\ GoneQuietly
      /\ k \in KType /\ c \in CType /\ u \in UType /\ h \in HType /\ loop.closing \in 0..MaxFd
      /\ c.connection \in 0..MaxFd /\ loop.fns \in Seq(Functors)
      /\ \A fd \in 0..MaxFd : fd # 0 => fd \in Fds
  BY ClientConstants DEF ClientInv, ClientLife, ClientTypeOK, LoopType, CType, Fds
<1>b. /\ loop'.fns = loop.fns /\ pend' = pend => (Due(StopF)' => Due(StopF))
      /\ \A x : Taken(x) => (Due(StopF)' => Due(StopF))
      /\ \A x : Queued(x) /\ x # StopF => (Due(StopF)' => Due(StopF))
  BY NoQueueEffect DEF Untouched, Taken, Queued
<1>c. /\ StopF # ResetF /\ StopF # StartF
      /\ \A fd : StopF # <<"connectDestroyed", fd>> /\ StopF # <<"setCloseCallback", fd>>
  BY DEF StopF, StartF, ResetF
\* A step of the loop: nothing of the user's changes.
<1>d. ASSUME u' = u, c'.retry = c.retry, c'.exists = c.exists, Due(StopF)' => Due(StopF),
             k'.connect => k.connect, k'.watched => k.watched \/ k.connect,
             k.connect \/ \A fd \in Fds : conn[fd] = "none" => conn'[fd] = "none"
      PROVE  StopsFinally' /\ StopStep
  BY <1>d DEF StopsFinally, StopStep, StopDone
\* A step of the user that leaves the stop as it is.
<1>e. ASSUME c'.retry = c.retry, ~ c.exists => ~ c'.exists, Due(StopF)' => Due(StopF),
             u.remote \subseteq u'.remote, u'.stopped = u.stopped,
             u'.pc \in {"connect", "stopInLoop", "stop", "dtorQueue"} => u'.pc = u.pc,
             u.pc = "dtorSwap" => u'.pc = "dtorSwap" \/ ~ c'.exists,
             k'.connect => k.connect, k'.watched => k.watched,
             \A fd \in Fds : conn[fd] = "none" => conn'[fd] = "none"
      PROVE  StopsFinally' /\ StopStep
  BY <1>e DEF StopsFinally, StopStep, StopDone
<1>1. CASE Poll
  <2>1. UNCHANGED <<k, c, conn, swapped, sock, pend, u, h>> /\ loop'.fns = loop.fns
    BY <1>1, <1>a, PollEffect DEF Poll
  <2> QED BY <1>b, <1>d, <2>1
<1>2. CASE RunTimer
  <2>1. UNCHANGED <<c, conn, swapped, pend, u>> /\ loop'.fns = loop.fns
    BY <1>2, <1>a, RunTimerEffect DEF RunTimer, LoopKept
  <2>2. k'.connect = k.connect /\ (k'.watched => k.watched \/ k.connect)
    BY <1>2, <1>a, RunTimerEffect, StartKeeps DEF LoopKept
  <2> QED BY <1>b, <1>d, <2>1, <2>2
<1>3. CASE RunRemoveConnector
  BY <1>3, <1>a, <1>b, <1>d, CFields DEF RunRemoveConnector
<1>4. CASE HandleDisabled
  <2>1. /\ UNCHANGED <<k, c, conn, swapped, sock, pend, u, h>> /\ loop' = [loop EXCEPT !.ready = "none"]
    BY <1>4 DEF HandleDisabled
  <2> QED BY <1>a, <1>b, <1>d, <2>1, ReadyGone
<1>5. CASE handleError \/ handleWriteFails
  <2>1. Queued(ResetF) /\ u' = u
    BY <1>5, <1>a, HandleEffect DEF handleError, handleWriteFails
  <2>2. Ends(k) /\ UNCHANGED <<c, conn>>
    BY <1>5, <1>a, FailedEffect
  <2> QED BY <1>b, <1>c, <1>d, <2>1, <2>2 DEF Ends
<1>6. CASE handleWrite
  <2>1. Queued(ResetF) /\ u' = u
    BY <1>6, <1>a, HandleEffect DEF handleWrite
  <2>2. /\ k'.connect = k.connect /\ ~ k'.watched /\ c'.exists = c.exists /\ c'.retry = c.retry
        /\ k.connect \/ conn' = conn
    BY <1>6, <1>a, WroteEffect
  <2> QED BY <1>b, <1>c, <1>d, <2>1, <2>2
<1>7. CASE handleClose
  <2>1. /\ conn' = [conn EXCEPT ![loop.closing] = "Disconnected"]
        /\ loop' = [loop EXCEPT !.pc = "close"] /\ UNCHANGED <<k, c, swapped, sock, pend, u, h>>
    BY <1>7 DEF handleClose
  <2>2. loop'.fns = loop.fns /\ \A f \in Fds : conn[f] = "none" \/ conn'[f] # "none"
    BY <1>a, <2>1, PcEffect, ConnEffect
  <2>3. \A f \in Fds : conn[f] = "none" => conn'[f] = "none"
    <3>1. loop.pc = "events" /\ loop.closing # 0
      BY <1>7 DEF handleClose, At
    <3>2. Up(loop.closing)
      BY <1>a, <3>1 DEF OneConnection
    <3>3. \A f \in Fds : conn'[f] = IF f = loop.closing THEN "Disconnected" ELSE conn[f]
      BY <1>a, <2>1, ConnEffect
    <3> QED BY <3>2, <3>3 DEF Up
  <2> QED BY <1>b, <1>d, <2>1, <2>2, <2>3
<1>8. CASE removeConnection
  BY <1>8, <1>a, <1>b, <1>c, <1>d, RemovedEffect
<1>9. CASE restart
  <2>1. /\ loop' = [loop EXCEPT !.pc = "events"] /\ c.retry /\ UNCHANGED <<c, conn, pend, u>>
    BY <1>9, <1>a DEF restart, At, OneConnection
  <2>2. Due(StopF)' => Due(StopF)
    BY <1>a, <1>b, <2>1, PcEffect
  <2> QED BY <2>1, <2>2 DEF StopsFinally, StopStep
<1>10. CASE SwapFunctors
  <2>1. UNCHANGED <<k, c, conn, swapped, sock, u, h>> /\ loop.fns = <<>>
    BY <1>10, <1>a DEF SwapFunctors, At, LoopKept
  <2> QED BY <1>10, <1>a, <1>d, <2>1, SwapEffect
<1>11. CASE FunctorsDone
  <2>1. UNCHANGED <<k, c, conn, swapped, sock, pend, u, h>> /\ loop' = [loop EXCEPT !.pc = "poll"]
    BY <1>11 DEF FunctorsDone
  <2> QED BY <1>a, <1>b, <1>d, <2>1, PcEffect
<1>12. ASSUME NEW op, Run(op)
       PROVE  /\ u' = u /\ Head(loop.fns) = <<op, Head(loop.fns)[2]>> /\ Has(loop.fns, Head(loop.fns))
              /\ pend' = pend => Taken(Head(loop.fns))
  <2>1. Has(loop.fns, Head(loop.fns))
    BY <1>12, <1>a, HasTail DEF Run
  <2> QED BY <1>12, <1>a, <2>1, RunEffect
<1>13. CASE RunStart
  <2>1. UNCHANGED <<c, conn, swapped, pend>> /\ Run("startInLoop")
    BY <1>13 DEF RunStart
  <2>2. k'.connect = k.connect /\ (k'.watched => k.watched \/ k.connect)
    BY <1>13, <1>a, StartKeeps DEF RunStart
  <2> QED BY <1>12, <1>b, <1>d, <2>1, <2>2
<1>14. CASE RunStop
  <2>1. UNCHANGED <<c, conn, swapped>> /\ Run("stopInLoop")
    BY <1>14 DEF RunStop
  <2>2. k'.connect = k.connect /\ (k'.watched => k.watched)
    BY <1>14, <1>a, StopKeeps DEF RunStop
  <2>3. Due(StopF)' => Due(StopF)
    <3>1. pend' = pend \/ queueInLoop("resetChannel", 0)
      BY <1>14 DEF RunStop, stopInLoop
    <3>2. queueInLoop("resetChannel", 0) => RunQueued(Head(loop.fns), ResetF)
      BY <1>a, <2>1, RunQueueEffect DEF Plain, ResetF
    <3> QED BY <1>12, <1>b, <1>c, <2>1, <3>1, <3>2 DEF RunQueued
  <2> QED BY <1>12, <1>d, <2>1, <2>2, <2>3
<1>15. CASE RunReset
  <2>1. UNCHANGED <<c, conn, swapped, sock, pend>> /\ Run("resetChannel")
    BY <1>15 DEF RunReset
  <2> QED BY <1>12, <1>15, <1>a, <1>b, <1>d, <2>1, ResetEffect
<1>16. CASE RunDestroyed
  <2> DEFINE fd == Head(loop.fns)[2]
  <2>1. /\ UNCHANGED <<k, c, swapped, sock, pend, h>> /\ Run("connectDestroyed")
        /\ conn' = [conn EXCEPT ![fd] = "Destroyed"]
    BY <1>16 DEF RunDestroyed
  <2>2. Due(<<"connectDestroyed", fd>>)
    BY <1>12, <2>1 DEF Due
  <2>3. \A f \in Fds : conn'[f] = IF f = fd THEN "Destroyed" ELSE conn[f]
    BY <1>a, <2>1, ConnEffect
  <2> HIDE DEF fd
  <2>4. \A f \in Fds : conn[f] = "none" => conn'[f] = "none"
    BY <1>a, <2>2, <2>3 DEF SocketsKept
  <2> QED BY <1>12, <1>b, <1>d, <2>1, <2>4
<1>17. CASE RunSetCloseCallback
  <2>1. UNCHANGED <<k, c, conn, sock, pend, h>> /\ Run("setCloseCallback")
    BY <1>17 DEF RunSetCloseCallback
  <2> QED BY <1>12, <1>b, <1>d, <2>1
<1>18. CASE LoopStep
  BY <1>1, <1>2, <1>3, <1>4, <1>5, <1>6, <1>7, <1>8, <1>9, <1>10, <1>11, <1>13, <1>14, <1>15,
     <1>16, <1>17, <1>18 DEF LoopStep
<1>f. MayConnect /\ Calling /\ u.pc # "dtorSwap" => ~ u.stopped /\ c.exists /\ ~ Due(StopF)
  BY DEF MayConnect, Calling, StopsFinally
<1>19. CASE LoopConnect
  <2>1. /\ u' = [u EXCEPT !.calls = @ + 1, !.connected = TRUE, !.stopped = FALSE]
        /\ c' = [c EXCEPT !.connect = TRUE]
        /\ UNCHANGED <<conn, swapped, pend, loop>>
        /\ ~ u.stopped /\ u.pc # "dtorQueue" /\ c.exists /\ ~ Due(StopF)
    BY <1>19, <1>f DEF LoopConnect, OnLoop
  <2>2. u'.pc = u.pc /\ u'.remote = u.remote /\ ~ u'.stopped /\ c'.retry = c.retry
    BY <1>a, <2>1, CalledEffect, FlagsEffect, CFields
  <2>3. ~ Due(StopF)'
    BY <1>b, <2>1
  <2> QED BY <2>1, <2>2, <2>3 DEF StopsFinally, StopStep, StopDone
<1>20. CASE LoopDisconnect
  <2>1. /\ u' = [u EXCEPT !.calls = @ + 1] /\ c' = [c EXCEPT !.connect = FALSE]
        /\ Shut /\ UNCHANGED <<k, swapped, sock, pend, h, loop>>
    BY <1>20 DEF LoopDisconnect, OnLoop
  <2>2. /\ u'.pc = u.pc /\ u'.remote = u.remote /\ u'.stopped = u.stopped
        /\ c'.exists = c.exists /\ c'.retry = c.retry
        /\ \A fd \in Fds : conn'[fd] = "none" <=> conn[fd] = "none"
    BY <1>a, <2>1, CalledEffect, FlagsEffect, CFields, ShutEffect
  <2> QED BY <1>b, <1>e, <2>1, <2>2
<1>g. ASSUME stopInLoop(Flagged(k, FALSE)), loop' = loop
      PROVE  ~ k'.connect /\ (k'.watched => k.watched) /\ (Due(StopF)' => Due(StopF))
  <2>1. PICK kk \in KType : stopInLoop(kk) /\ ~ kk.connect /\ kk.watched = k.watched
    BY <1>a, <1>g, FlagEffect
  <2>2. k'.connect = kk.connect /\ (k'.watched => kk.watched)
    BY <1>a, <2>1, StopKeeps
  <2>3. pend' = pend \/ queueInLoop("resetChannel", 0)
    BY <2>1 DEF stopInLoop
  <2>4. queueInLoop("resetChannel", 0) => Queued(ResetF)
    BY <1>a, <1>g, QueueEffect DEF Functors, Plain, ResetF
  <2> QED BY <1>b, <1>c, <1>g, <2>1, <2>2, <2>3, <2>4
<1>21. CASE LoopStop
  <2>1. /\ u' = [u EXCEPT !.calls = @ + 1, !.stopped = TRUE] /\ c' = [c EXCEPT !.connect = FALSE]
        /\ stopInLoop(Flagged(k, FALSE)) /\ UNCHANGED <<conn, loop>>
    BY <1>21 DEF LoopStop, OnLoop, Flagged
  <2>2. /\ u'.pc = u.pc /\ u'.remote = u.remote /\ u'.stopped /\ c'.retry = c.retry
    BY <1>a, <2>1, CalledEffect, FlagsEffect, CFields
  <2> QED BY <1>g, <2>1, <2>2 DEF StopsFinally, StopStep
<1>22. CASE LoopDtor
  <2>1. u' = [u EXCEPT !.calls = @ + 1] /\ UNCHANGED <<conn, loop>>
    BY <1>22 DEF LoopDtor, OnLoop
  <2>2. /\ u'.pc = u.pc /\ u'.remote = u.remote /\ u'.stopped = u.stopped
    BY <1>a, <2>1, CalledEffect, FlagsEffect
  <2>3. c'.retry = c.retry /\ ~ c'.exists
    BY <1>22, <1>a, CFields, CGone DEF LoopDtor
  <2>4. /\ k'.connect => k.connect
        /\ k'.watched => k.watched
        /\ Due(StopF)' => Due(StopF)
    <3>1. CASE c.connection # 0
      <4>1. UNCHANGED <<k, pend>>
        BY <1>22, <3>1 DEF LoopDtor
      <4> QED BY <1>b, <2>1, <4>1
    <3>2. CASE c.connection = 0
      <4>1. stopInLoop(Flagged(k, FALSE))
        BY <1>22, <3>2 DEF LoopDtor, Flagged
      <4> QED BY <1>g, <2>1, <4>1
    <3> QED BY <3>1, <3>2
  <2> QED BY <1>e, <2>1, <2>2, <2>3, <2>4
<1>23. \A p \in UPcs : Begin(p) =>
          /\ u'.pc = p /\ u'.remote = u.remote \cup {p} /\ u'.stopped = u.stopped
          /\ u.pc = "idle" /\ UNCHANGED <<k, conn, loop, pend>>
  BY <1>a, BeginEffect DEF Begin
<1>24. \A b \in BOOLEAN : k' = [k EXCEPT !.connect = b] => k'.connect = b /\ k'.watched = k.watched
  BY <1>a DEF KType
<1>25. CASE Connect
  <2>1. ~ u.stopped /\ c.exists /\ ~ Due(StopF)
    BY <1>25, <1>f DEF Connect, Begin
  <2>2. /\ u'.pc = "connect" /\ u'.stopped = u.stopped /\ u.pc = "idle"
        /\ UNCHANGED <<k, conn, loop, pend>>
    BY <1>23, <1>25 DEF Connect, UPcs
  <2>3. ~ Due(StopF)'
    BY <1>b, <2>1, <2>2
  <2> QED BY <2>1, <2>2, <2>3 DEF StopsFinally, StopStep, StopDone
<1>26. CASE Disconnect
  <2>1. c'.retry = c.retry /\ c'.exists = c.exists /\ k' = k
    BY <1>26, <1>a, CFields DEF Disconnect, Begin
  <2>2. /\ u'.pc = "shutdown" /\ u.remote \subseteq u'.remote /\ u'.stopped = u.stopped
        /\ u.pc = "idle" /\ UNCHANGED <<conn, loop, pend>>
    BY <1>23, <1>26 DEF Disconnect, UPcs
  <2> QED BY <1>b, <1>e, <2>1, <2>2
<1>27. CASE Stop
  <2>1. c'.retry = c.retry /\ c'.exists = c.exists /\ k' = k
    BY <1>27, <1>a, CFields DEF Stop, Begin
  <2>2. /\ u'.pc = "stop" /\ u'.remote = u.remote \cup {"stop"} /\ u'.stopped = u.stopped
        /\ u.pc = "idle" /\ UNCHANGED <<conn, loop, pend>>
    BY <1>23, <1>27 DEF Stop, UPcs
  <2>3. Due(StopF)' => Due(StopF)
    BY <1>b, <2>2
  <2> QED BY <2>1, <2>2, <2>3 DEF StopsFinally, StopStep, StopDone
<1>28. \A p, q \in UPcs : Step(p, q) => /\ u.pc = p /\ u'.pc = q /\ u'.remote = u.remote
                                        /\ u'.stopped = (p = "stop" \/ (u.stopped /\ p # "connect"))
                                        /\ UNCHANGED <<sock, loop, h>>
  BY <1>a, StepEffect
<1>h. \A op \in {"startInLoop", "stopInLoop"} : queueInLoop(op, 0) /\ loop' = loop => Queued(<<op, 0>>)
  <2> TAKE op \in {"startInLoop", "stopInLoop"}
  <2>1. <<op, 0>> \in Functors
    BY DEF Functors, Plain
  <2> QED BY <1>a, <2>1, QueueEffect
<1>39. CASE ConnectorStart
  <2>1. /\ u.pc = "connect" /\ u'.pc = "startInLoop" /\ u'.remote = u.remote /\ ~ u'.stopped
        /\ UNCHANGED <<loop, c, conn, pend>> /\ k' = [k EXCEPT !.connect = TRUE]
    BY <1>28, <1>39 DEF ConnectorStart, UPcs
  <2>2. ~ Due(StopF) /\ ~ Due(StopF)'
    BY <1>b, <2>1 DEF StopsFinally
  <2> QED BY <1>24, <2>1, <2>2 DEF StopsFinally, StopStep, StopDone
<1>29. CASE Start
  <2>1. /\ u.pc = "startInLoop" /\ u'.pc = "idle" /\ u'.remote = u.remote /\ u'.stopped = u.stopped
        /\ UNCHANGED <<loop, k, c, conn>>
    BY <1>28, <1>29, <1>a DEF Start, UPcs, UType
  <2>2. Due(StopF)' => Due(StopF)
    BY <1>29, <1>b, <1>c, <1>h, <2>1 DEF Start, StartF
  <2> QED BY <1>e, <2>1, <2>2
<1>30. CASE QueueStop
  <2>1. /\ u.pc = "stopInLoop" /\ u'.pc = "idle" /\ u'.remote = u.remote /\ u'.stopped
        /\ UNCHANGED <<loop, k, c, conn>>
    BY <1>28, <1>30 DEF QueueStop, UPcs, StopsFinally
  <2> QED BY <2>1 DEF StopsFinally, StopStep
<1>31. CASE DtorQueue
  <2>1. /\ u.pc = "dtorQueue" /\ u'.pc = "dtorSwap" /\ u'.remote = u.remote /\ u'.stopped = u.stopped
        /\ UNCHANGED <<loop, k, conn>> /\ c'.retry = c.retry
    BY <1>28, <1>31, <1>a, CFields DEF DtorQueue, UPcs, UType
  <2>2. "dtor" \in u.remote
    BY <1>a, <2>1 DEF GoneQuietly
  <2> QED BY <2>1, <2>2 DEF StopsFinally, StopStep
<1>32. CASE Shutdown
  <2>1. /\ u.pc = "shutdown" /\ u'.pc = "idle" /\ u'.remote = u.remote /\ u'.stopped = u.stopped
        /\ UNCHANGED <<loop, k, c, pend>> /\ Shut
    BY <1>28, <1>32, <1>a DEF Shutdown, UPcs, UType
  <2>2. \A fd \in Fds : conn'[fd] = "none" <=> conn[fd] = "none"
    BY <1>a, <2>1, ShutEffect
  <2> QED BY <1>b, <1>e, <2>1, <2>2
<1>33. CASE ConnectorStop
  <2>1. /\ u'.remote = u.remote /\ UNCHANGED <<loop, c, pend, conn>>
        /\ \/ u.pc = "stop" /\ u'.pc = "stopInLoop" /\ u'.stopped
           \/ u.pc = "dtorStop" /\ u'.pc = "dtorQueue" /\ u'.stopped = u.stopped
    BY <1>28, <1>33, <1>a DEF ConnectorStop, UPcs, UType
  <2>2. ~ k'.connect /\ k'.watched = k.watched /\ (Due(StopF)' => Due(StopF))
    BY <1>24, <1>33, <1>b, <2>1 DEF ConnectorStop
  <2> QED BY <2>1, <2>2 DEF StopsFinally, StopStep, StopDone
<1>34. CASE DtorDone
  <2>1. /\ u.pc = "dtorSwap" /\ u'.pc = "idle" /\ u'.remote = u.remote /\ u'.stopped = u.stopped
        /\ UNCHANGED <<loop, k, conn, pend>> /\ c'.retry = c.retry /\ ~ c'.exists
    BY <1>28, <1>34, <1>a, CFields DEF DtorDone, UPcs, UType
  <2> QED BY <1>b, <1>e, <2>1
<1>35. CASE Dtor
  <2>1. UNCHANGED <<k, c, conn, loop>> /\ u.pc = "idle"
    BY <1>35 DEF Dtor
  <2>2. u.remote \subseteq u'.remote /\ u'.stopped = u.stopped /\ u'.pc \in {"dtorSwap", "dtorStop"}
    <3>1. \E p \in {"dtorSwap", "dtorStop"} :
             u' = [u EXCEPT !.pc = p, !.calls = @ + 1, !.remote = @ \cup {"dtor"}]
      BY <1>35 DEF Dtor
    <3> QED BY <1>a, <3>1, DtorEffect DEF UPcs
  <2>3. Due(StopF)' => Due(StopF)
    <3>1. CASE c.connection # 0
      <4>1. queueInLoop("setCloseCallback", c.connection)
        BY <1>35, <3>1 DEF Dtor, queueInLoop
      <4>2. Queued(<<"setCloseCallback", c.connection>>)
        BY <1>a, <2>1, <4>1, QueueEffect DEF Functors
      <4> QED BY <1>b, <1>c, <4>2
    <3>2. CASE c.connection = 0
      BY <1>35, <1>b, <2>1, <3>2 DEF Dtor
    <3> QED BY <3>1, <3>2
  <2> QED BY <1>e, <2>1, <2>2, <2>3
<1>36. ASSUME Established \/ SelfConnected \/ ConnectFails \/ PeerResets \/ PeerCloses
       PROVE  StopsFinally' /\ StopStep
  <2>1. UNCHANGED <<k, c, conn, swapped, loop, pend, u, h>>
    BY <1>36 DEF Established, SelfConnected, ConnectFails, PeerResets, PeerCloses, Becomes
  <2> QED BY <1>b, <1>d, <2>1
<1>37. CASE UNCHANGED vars
  BY <1>37, <1>b, <1>d DEF vars
<1>38. CASE UserStep
  BY <1>29, <1>30, <1>31, <1>32, <1>33, <1>34, <1>38, <1>39 DEF UserStep
<1> QED BY <1>18, <1>19, <1>20, <1>21, <1>22, <1>25, <1>26, <1>27, <1>35, <1>36, <1>37, <1>38 DEF Next

\* With ~ Again and without retry_: once stop() has reached the loop, connect_ stays off
\* (StopsFinally), so that no step begins an attempt or makes a connection.
THEOREM StopsForGood == ASSUME ~ Again PROVE Spec => StopIsFinal
<1>1. Init => StopsFinally
  <2>1. Init => ~ Due(StopF)
    BY HasEmpty DEF Init, Due
  <2>2. Init => ~ u.stopped /\ u.pc = "idle"
    BY DEF Init
  <2> QED BY <2>1, <2>2 DEF StopsFinally
<1>2. ClientInv /\ StopsFinally /\ [Next]_vars => StopsFinally' /\ [StopStep]_vars
  BY StopNext
<1>3. StopIsFinal <=> [][StopStep]_vars
  BY DEF StopIsFinal, StopStep
<1> QED BY <1>1, <1>2, <1>3, ClientInvariant, PTL DEF Spec

-----------------------------------------------------------------------------
(* The assertions, for a user who connects once *)

OnceInv == /\ h.failed # {} => Excused
           /\ Sane => OneAttempt /\ StartsOnce /\ (~ Excused => ChannelIsFree)

LEMMA AttemptStays ==
  ASSUME OneAttempt, k'.timers = k.timers, k'.state = k.state
  PROVE  OneAttempt'
BY DEF OneAttempt

LEMMA StartsStay ==
  ASSUME StartsOnce, u'.connected = u.connected, u'.pc \in ConnectPcs => u.pc \in ConnectPcs,
         Due(StartF)' => Due(StartF), DueOnce(StartF) => DueOnce(StartF)',
         Fresh => k'.state = k.state /\ k'.timers = k.timers /\ k'.channel \in {0, k.channel}
                  /\ c'.connection = c.connection /\ (loop'.pc = "restart" => loop.pc = "restart")
  PROVE  StartsOnce'
<1>1. Fresh' => Fresh
  BY DEF Fresh
<1> QED BY <1>1 DEF StartsOnce

\* No longer fresh, once and for all.
LEMMA StartedStays ==
  ASSUME StartsOnce, ~ Fresh, u'.connected = u.connected,
         u'.pc \in ConnectPcs => u.pc \in ConnectPcs,
         Due(StartF)' => Due(StartF), DueOnce(StartF) => DueOnce(StartF)'
  PROVE  StartsOnce'
<1>1. ~ Fresh'
  BY DEF Fresh
<1> QED BY <1>1 DEF StartsOnce, Fresh

LEMMA FreeStays ==
  ASSUME ChannelIsFree, loop'.pc = loop.pc, loop'.due = loop.due, loop'.closing = loop.closing,
         Has(loop.fns, ResetF) => Has(loop'.fns, ResetF),
         k'.state = k.state, k'.channel = k.channel, k'.watched = k.watched,
         k'.connect => k.connect \/ k.channel = 0
  PROVE  ChannelIsFree'
BY DEF ChannelIsFree

\* startInLoop where nothing else is under way.
LEMMA StartOnce ==
  ASSUME ClientTypeOK, h.failed = {}, NEW kk \in KType, startInLoop(kk),
         kk.state = "kDisconnected", kk.timers = 0
  PROVE  /\ OneAttempt'
         /\ kk.channel = 0 \/ ~ kk.connect => h'.failed = {}
         /\ k'.watched \/ k'.channel = kk.channel
<1>1. CASE Waits(kk) /\ (kk.state = "kDisconnected" => h'.failed = h.failed)
  BY <1>1 DEF Waits, Alike, OneAttempt
<1>2. CASE Retries(kk) /\ h'.failed = h.failed
  BY <1>2 DEF Retries, Alike, OneAttempt
<1>3. ASSUME NEW fd \in Fds, Tries(kk, fd), kk.channel = 0 => h'.failed = h.failed
      PROVE  /\ OneAttempt' /\ k'.watched /\ (kk.channel = 0 \/ ~ kk.connect => h'.failed = {})
  BY <1>3 DEF Tries, OneAttempt
<1> QED BY <1>1, <1>2, <1>3, StartEffect

LEMMA OnceNext ==
  ~ Again /\ ClientInv /\ StopsFinally /\ OnceInv /\ [Next]_vars => OnceInv'
<1> SUFFICES ASSUME ~ Again, ClientInv, StopsFinally, OnceInv, [Next]_vars PROVE OnceInv'
  OBVIOUS
<1>a. /\ ClientTypeOK /\ LoopKept /\ SocketsKept /\ OneConnection /\ GoneQuietly
      /\ k \in KType /\ c \in CType /\ u \in UType /\ h \in HType /\ loop.closing \in 0..MaxFd
      /\ c.connection \in 0..MaxFd /\ loop.fns \in Seq(Functors)
      /\ k.timers \in Nat /\ loop.due \in Nat /\ loop.due <= k.timers
      /\ \A fd \in 0..MaxFd : fd # 0 => fd \in Fds
  BY ClientConstants DEF ClientInv, ClientLife, ClientTypeOK, LoopType, CType, KType, Fds, LoopKept
<1>b. Alive => /\ Sane /\ h.failed = {} /\ OneAttempt /\ StartsOnce
               /\ (~ Excused => ChannelIsFree) /\ ResetKept
  BY AliveIsSane DEF ClientInv, ClientLife, OnceInv, Sane
<1> DEFINE Same(x) == (Due(x)' => Due(x)) /\ (DueOnce(x) => DueOnce(x)')
<1>c. /\ loop'.fns = loop.fns /\ pend' = pend => Same(StartF)
      /\ \A x : Taken(x) => Same(StartF)
      /\ \A x : Queued(x) /\ x # StartF => Same(StartF)
  BY NoQueueEffect DEF Untouched, Taken, Queued
<1>d. /\ StartF # ResetF /\ StartF # StopF /\ StopF # ResetF
      /\ \A fd : StartF # <<"connectDestroyed", fd>> /\ StartF # <<"setCloseCallback", fd>>
      /\ \A fd : ResetF # <<"connectDestroyed", fd>> /\ ResetF # <<"setCloseCallback", fd>>
  BY DEF StopF, StartF, ResetF
<1>i. ASSUME h'.failed # {} => Excused, c'.retry = c.retry, u.remote \subseteq u'.remote,
             Sane' => OneAttempt' /\ StartsOnce' /\ (~ Excused => ChannelIsFree')
      PROVE  OnceInv'
  <2>1. Excused => Excused'
    BY <1>i DEF Excused
  <2> QED BY <1>i, <2>1 DEF OnceInv
\* What is under way excludes the rest.
<1>e. Alive /\ k.state # "kConnected" => /\ c.connection = 0 /\ loop.closing = 0
                                         /\ loop.pc \notin {"close", "restart"}
  BY <1>a DEF OneConnection
<1>f. Alive /\ k.state # "kDisconnected" => k.timers = 0 /\ loop.due = 0 /\ ~ Fresh
  BY <1>a, <1>b DEF OneAttempt, StartsOnce
<1>g. Alive /\ Fresh => /\ k.state = "kDisconnected" /\ k.timers = 0 /\ k.channel = 0
                        /\ c.connection = 0 /\ loop.due = 0
  BY <1>a, <1>b DEF StartsOnce
<1>h. loop'.pc = "events" /\ loop'.due = 0 /\ loop'.closing = 0 => ChannelIsFree'
  BY DEF ChannelIsFree
<1>1. CASE Poll
  <2>1. /\ UNCHANGED <<k, c, conn, swapped, sock, pend, u, h>> /\ loop'.fns = loop.fns /\ Alive
        /\ loop.pc = "poll" /\ loop'.pc = "events" /\ (loop'.closing # 0 => Up(loop'.closing))
        /\ loop'.due \in 0..k.timers /\ loop' \in LoopType
    BY <1>1, <1>a, PollEffect DEF Poll, At
  <2>2. ~ Excused => ChannelIsFree'
    <3> SUFFICES ASSUME ~ Excused PROVE ChannelIsFree'
      OBVIOUS
    <3>1. ChannelIsFree
      BY <1>b, <2>1
    <3>2. loop'.due > 0 => k.state = "kDisconnected" /\ ~ k.watched
      BY <1>a, <1>b, <2>1 DEF OneAttempt, SocketsKept
    <3>3. loop'.closing # 0 => k.state = "kConnected" /\ ~ k.watched
      <4>1. loop'.closing # 0 => loop'.closing \in Fds
        BY <1>a, <2>1 DEF LoopType
      <4> QED BY <1>a, <2>1, <4>1 DEF OneConnection, SocketsKept
    <3> QED BY <2>1, <3>1, <3>2, <3>3 DEF ChannelIsFree
  <2>3. OneAttempt' /\ StartsOnce'
    BY <1>b, <1>c, <2>1, AttemptStays, StartsStay
  <2> QED BY <1>b, <1>i, <2>1, <2>2, <2>3
<1>2. CASE RunTimer
  <2>1. /\ UNCHANGED <<c, conn, swapped, pend, u>> /\ Alive
        /\ loop'.pc = "events" /\ loop.pc = "events" /\ loop'.closing = loop.closing
        /\ loop'.fns = loop.fns /\ loop.due > 0 /\ loop'.due = loop.due - 1
    BY <1>2, <1>a, RunTimerEffect DEF RunTimer, At
  <2>2. PICK kk \in KType : /\ startInLoop(kk) /\ kk.state = k.state /\ kk.connect = k.connect
                            /\ kk.channel = k.channel /\ kk.timers = k.timers - 1
    BY <1>2, <1>a, RunTimerEffect
  <2>3. k.timers = 1 /\ k.state = "kDisconnected" /\ loop'.due = 0 /\ ~ Fresh
    BY <1>a, <1>b, <1>g, <2>1 DEF OneAttempt
  <2>4. OneAttempt' /\ (kk.channel = 0 \/ ~ kk.connect => h'.failed = {})
    BY <1>a, <1>b, <2>1, <2>2, <2>3, StartOnce
  <2>5. h'.failed # {} => Excused
    BY <1>b, <2>1, <2>2, <2>4 DEF ChannelIsFree
  <2>6. StartsOnce'
    BY <1>b, <1>c, <2>1, <2>3, StartedStays
  <2>7. ChannelIsFree'
    BY <1>e, <1>h, <2>1, <2>3
  <2> QED BY <1>i, <2>1, <2>4, <2>5, <2>6, <2>7
<1>3. CASE RunRemoveConnector
  <2>1. /\ UNCHANGED <<k, conn, swapped, sock, loop, pend, u, h>> /\ Alive
        /\ c'.connection = c.connection /\ c'.retry = c.retry
    BY <1>3, <1>a, CFields DEF RunRemoveConnector, At
  <2>2. OneAttempt' /\ StartsOnce' /\ (~ Excused => ChannelIsFree')
    BY <1>b, <1>c, <2>1, AttemptStays, StartsStay, FreeStays
  <2> QED BY <1>b, <1>i, <2>1, <2>2
<1>4. CASE HandleDisabled
  <2>1. /\ UNCHANGED <<k, c, conn, swapped, sock, pend, u, h>> /\ Alive
        /\ loop' = [loop EXCEPT !.ready = "none"]
    BY <1>4 DEF HandleDisabled, At
  <2>2. /\ loop'.pc = loop.pc /\ loop'.due = loop.due /\ loop'.closing = loop.closing
        /\ loop'.fns = loop.fns
    BY <1>a, <2>1, ReadyGone
  <2>3. OneAttempt' /\ StartsOnce' /\ (~ Excused => ChannelIsFree')
    BY <1>b, <1>c, <2>1, <2>2, AttemptStays, StartsStay, FreeStays
  <2> QED BY <1>b, <1>i, <2>1, <2>3
<1>5. CASE handleError \/ handleWriteFails
  <2>1. Handle /\ Alive
    BY <1>5 DEF handleError, handleWriteFails, Handle, At
  <2>2. /\ loop.pc = "events" /\ loop'.pc = "events" /\ loop'.closing = loop.closing
        /\ Queued(ResetF) /\ k.watched /\ u' = u /\ loop'.due = loop.due
    BY <1>a, <2>1, HandleEffect
  <2>3. k.state = "kConnecting"
    BY <1>a, <2>2 DEF SocketsKept
  <2>4. Ends(k) /\ c' = c /\ h'.failed = h.failed
    BY <1>5, <1>a, <2>3, FailedEffect
  <2>5. ~ Fresh /\ k.timers = 0 /\ loop.due = 0 /\ loop.closing = 0
    BY <1>e, <1>f, <2>1, <2>3
  <2>6. OneAttempt'
    BY <2>4, <2>5 DEF Ends, OneAttempt
  <2>7. StartsOnce'
    BY <1>b, <1>c, <1>d, <2>1, <2>2, <2>5, StartedStays
  <2> QED BY <1>b, <1>h, <1>i, <2>1, <2>2, <2>4, <2>5, <2>6, <2>7
<1>6. CASE handleWrite
  <2>1. Handle /\ Alive
    BY <1>6 DEF handleWrite, Handle, At
  <2>2. /\ loop.pc = "events" /\ loop'.pc = "events" /\ loop'.closing = loop.closing
        /\ Queued(ResetF) /\ k.watched /\ u' = u /\ loop'.due = loop.due
    BY <1>a, <2>1, HandleEffect
  <2>3. k.state = "kConnecting"
    BY <1>a, <2>2 DEF SocketsKept
  <2>4. k'.timers = k.timers /\ c'.retry = c.retry /\ h'.failed = h.failed
    BY <1>6, <1>a, WroteEffect
  <2>5. ~ Fresh /\ k.timers = 0 /\ loop.due = 0 /\ loop.closing = 0
    BY <1>e, <1>f, <2>1, <2>3
  <2>6. OneAttempt'
    BY <2>4, <2>5 DEF OneAttempt
  <2>7. StartsOnce'
    BY <1>b, <1>c, <1>d, <2>1, <2>2, <2>5, StartedStays
  <2> QED BY <1>b, <1>h, <1>i, <2>1, <2>2, <2>4, <2>5, <2>6, <2>7
<1>7. CASE handleClose
  <2>1. /\ loop' = [loop EXCEPT !.pc = "close"] /\ loop.pc = "events" /\ Alive /\ loop.closing # 0
        /\ UNCHANGED <<k, c, swapped, sock, pend, u, h>>
    BY <1>7 DEF handleClose, At
  <2>2. /\ loop'.pc = "close" /\ loop'.closing = loop.closing /\ loop'.fns = loop.fns
        /\ loop'.due = loop.due
    BY <1>a, <2>1, PcEffect
  <2>3. OneAttempt' /\ StartsOnce'
    BY <1>b, <1>c, <2>1, <2>2, AttemptStays, StartsStay
  <2>4. ~ Excused => ChannelIsFree'
    BY <1>b, <2>1, <2>2 DEF ChannelIsFree
  <2> QED BY <1>b, <1>i, <2>1, <2>3, <2>4
<1>8. CASE removeConnection
  <2>0. Alive
    BY <1>8 DEF removeConnection, At
  <2>1. /\ loop.pc = "close" /\ loop'.closing = 0 /\ loop'.fns = loop.fns /\ loop'.due = loop.due
        /\ Queued(<<"connectDestroyed", loop.closing>>) /\ loop'.pc \in {"events", "restart"}
        /\ UNCHANGED <<k, conn, swapped, sock, u>> /\ c'.retry = c.retry
        /\ c.connection = loop.closing => h'.failed = h.failed
    BY <1>8, <1>a, RemovedEffect
  <2>2. c.connection = loop.closing /\ c.connection # 0
    BY <1>a, <2>1 DEF OneConnection
  <2>3. ~ Fresh
    BY <1>g, <2>0, <2>2
  <2>4. OneAttempt' /\ StartsOnce'
    BY <1>b, <1>c, <1>d, <2>0, <2>1, <2>3, AttemptStays, StartedStays
  <2>5. ~ Excused => ChannelIsFree'
    BY <1>b, <2>0, <2>1 DEF ChannelIsFree
  <2> QED BY <1>b, <1>i, <2>0, <2>1, <2>2, <2>4, <2>5
<1>9. CASE restart
  <2>1. /\ loop' = [loop EXCEPT !.pc = "events"] /\ loop.pc = "restart" /\ Alive
        /\ startInLoop(Restarted(k)) /\ UNCHANGED <<c, conn, swapped, pend, u>>
    BY <1>9 DEF restart, At, Restarted
  <2>2. PICK kk \in KType : /\ startInLoop(kk) /\ kk.state = "kDisconnected"
                            /\ kk.channel = k.channel /\ kk.timers = k.timers
    BY <1>a, <2>1, RestartEffect
  <2>3. /\ loop'.pc = "events" /\ loop'.closing = loop.closing /\ loop'.fns = loop.fns
        /\ loop'.due = loop.due
    BY <1>a, <2>1, PcEffect
  <2>4. k.state = "kConnected" /\ loop.closing = 0
    BY <1>a, <2>1 DEF OneConnection
  <2>5. ~ Fresh /\ k.timers = 0 /\ loop.due = 0
    BY <1>f, <2>1, <2>4
  <2>6. OneAttempt' /\ (kk.channel = 0 => h'.failed = {})
    BY <1>a, <1>b, <2>1, <2>2, <2>5, StartOnce
  <2>7. h'.failed # {} => Excused
    BY <1>b, <2>1, <2>2, <2>6 DEF ChannelIsFree
  <2>8. StartsOnce'
    BY <1>b, <1>c, <2>1, <2>3, <2>5, StartedStays
  <2> QED BY <1>h, <1>i, <2>1, <2>3, <2>4, <2>5, <2>6, <2>7, <2>8
<1>10. CASE SwapFunctors
  <2>1. UNCHANGED <<k, c, conn, swapped, sock, u, h>> /\ loop.pc = "events" /\ loop.fns = <<>> /\ Alive
    BY <1>10, <1>a DEF SwapFunctors, At, LoopKept
  <2>2. /\ loop'.pc = "functors" /\ loop'.closing = 0 /\ loop'.due = 0
        /\ \A y : Due(y) => Has(loop'.fns, y)
        /\ Same(StartF)
    BY <1>10, <1>a, <2>1, SwapEffect
  <2>3. OneAttempt' /\ StartsOnce'
    BY <1>b, <2>1, <2>2, AttemptStays, StartsStay
  <2>4. ChannelIsFree'
    <3>1. k.channel # 0 /\ ~ k.watched => Has(loop'.fns, ResetF)
      BY <1>b, <2>1, <2>2 DEF ResetKept
    <3> QED BY <2>1, <2>2, <3>1 DEF ChannelIsFree
  <2> QED BY <1>b, <1>i, <2>1, <2>3, <2>4
<1>11. CASE FunctorsDone
  <2>1. /\ UNCHANGED <<k, c, conn, swapped, sock, pend, u, h>> /\ Alive /\ loop.fns = <<>>
        /\ loop' = [loop EXCEPT !.pc = "poll"] /\ loop.pc = "functors"
    BY <1>11 DEF FunctorsDone, At
  <2>2. /\ loop'.pc = "poll" /\ loop'.closing = loop.closing /\ loop'.fns = loop.fns
        /\ loop'.due = loop.due
    BY <1>a, <2>1, PcEffect
  <2>3. OneAttempt' /\ StartsOnce'
    BY <1>b, <1>c, <2>1, <2>2, AttemptStays, StartsStay
  <2>4. ~ Excused => ChannelIsFree'
    <3>1. ~ Has(loop.fns, ResetF)
      BY <2>1, HasEmpty
    <3> QED BY <1>b, <2>1, <2>2, <3>1 DEF ChannelIsFree
  <2> QED BY <1>b, <1>i, <2>1, <2>3, <2>4
<1>12. ASSUME NEW op, Run(op)
       PROVE  /\ loop.pc = "functors" /\ loop'.pc = "functors" /\ loop'.closing = loop.closing
              /\ loop'.due = loop.due /\ loop.closing = 0 /\ u' = u /\ Alive
              /\ Has(loop.fns, Head(loop.fns)) /\ Head(loop.fns) = <<op, Head(loop.fns)[2]>>
              /\ op \in Plain => Head(loop.fns) = <<op, 0>>
              /\ pend' = pend => Taken(Head(loop.fns))
  <2>1. loop.closing = 0
    BY <1>a, <1>12 DEF OneConnection, Run, At
  <2>2. Has(loop.fns, Head(loop.fns))
    BY <1>12, <1>a, HasTail DEF Run
  <2> QED BY <1>12, <1>a, <2>1, <2>2, RunEffect DEF Run, At
<1>j. \A x : Taken(x) /\ x # ResetF => (Has(loop.fns, ResetF) => Has(loop'.fns, ResetF))
  BY DEF Taken
<1>13. CASE RunStart
  <2>1. UNCHANGED <<c, conn, swapped, pend>> /\ Run("startInLoop")
    BY <1>13 DEF RunStart
  <2>2. /\ loop.pc = "functors" /\ loop'.pc = "functors" /\ loop'.closing = 0
        /\ loop'.due = loop.due /\ u' = u /\ Alive /\ Has(loop.fns, StartF) /\ Taken(StartF)
    BY <1>12, <2>1 DEF Plain, StartF
  <2>3. /\ Fresh /\ ~ Due(StartF)' /\ DueOnce(StartF)' /\ u.connected
        /\ u.pc \notin ConnectPcs
    BY <1>b, <2>2 DEF StartsOnce, Fresh, Due, Taken
  <2>4. CASE Held
    <3>1. startInLoop(k)
      BY <1>13, <2>4 DEF RunStart
    <3>2. OneAttempt' /\ h'.failed = {} /\ (k'.watched \/ k'.channel = 0)
      BY <1>a, <1>b, <1>g, <2>2, <2>3, <3>1, StartOnce
    <3>3. StartsOnce'
      BY <2>2, <2>3 DEF StartsOnce, Fresh
    <3>4. ChannelIsFree'
      BY <1>g, <2>2, <2>3, <3>2 DEF ChannelIsFree
    <3> QED BY <1>i, <2>1, <2>2, <3>2, <3>3, <3>4
  <2>5. CASE ~ Held
    <3>1. Using(FALSE, "connector")
      BY <1>13, <2>5 DEF RunStart
    <3>2. h'.dangling = h.dangling \cup {"connector"} /\ h'.failed = h.failed
      BY <1>a, <3>1, UsingEffect DEF Names
    <3> QED BY <1>b, <1>i, <2>1, <2>2, <3>2 DEF Sane
  <2> QED BY <2>4, <2>5
<1>14. CASE RunStop
  <2>1. UNCHANGED <<c, conn, swapped>> /\ Run("stopInLoop")
    BY <1>14 DEF RunStop
  <2>2. /\ loop.pc = "functors" /\ loop'.pc = "functors" /\ loop'.closing = 0 /\ loop.closing = 0
        /\ loop'.due = loop.due /\ u' = u /\ Alive /\ Head(loop.fns) = StopF
        /\ Has(loop.fns, StopF) /\ (pend' = pend => Taken(StopF))
    BY <1>12, <2>1 DEF Plain, StopF
  <2>3. CASE Held
    <3>1. stopInLoop(k) /\ h' = h
      BY <1>14, <2>3 DEF RunStop
    <3>2. CASE k.state # "kConnecting"
      <4>1. Waits(k) /\ pend' = pend
        BY <1>a, <3>1, <3>2, StopEffect
      <4>2. Taken(StopF) /\ Same(StartF) /\ (Has(loop.fns, ResetF) => Has(loop'.fns, ResetF))
        BY <1>c, <1>d, <1>j, <2>2, <4>1
      <4>3. OneAttempt' /\ StartsOnce' /\ (~ Excused => ChannelIsFree')
        BY <1>b, <2>1, <2>2, <4>1, <4>2, AttemptStays, StartsStay, FreeStays DEF Waits, Alike
      <4> QED BY <1>b, <1>i, <2>1, <2>2, <3>1, <4>3
    <3>3. CASE k.state = "kConnecting"
      <4>1. Ends(k) /\ queueInLoop("resetChannel", 0)
        BY <1>a, <3>1, <3>3, StopEffect DEF Ends
      <4>2. RunQueued(StopF, ResetF)
        BY <1>a, <2>1, <2>2, <4>1, RunQueueEffect DEF Plain, ResetF
      <4>3. ~ Fresh /\ k.timers = 0 /\ loop.due = 0
        BY <1>f, <2>2, <3>3
      <4>4. OneAttempt'
        BY <4>1, <4>3 DEF Ends, OneAttempt
      <4>5. StartsOnce'
        <5>1. Same(StartF)
          BY <1>d, <4>2 DEF RunQueued
        <5> QED BY <1>b, <2>2, <4>3, <5>1, StartedStays
      <4>6. ~ Excused => ChannelIsFree'
        <5>1. ~ Excused => ~ k.connect
          BY <2>2 DEF StopsFinally, Excused, Due
        <5> QED BY <2>2, <4>1, <4>3, <5>1 DEF Ends, ChannelIsFree
      <4> QED BY <1>b, <1>i, <2>1, <2>2, <3>1, <4>4, <4>5, <4>6
    <3> QED BY <3>2, <3>3
  <2>4. CASE ~ Held
    <3>1. Using(FALSE, "connector")
      BY <1>14, <2>4 DEF RunStop
    <3>2. h'.dangling = h.dangling \cup {"connector"} /\ h'.failed = h.failed
      BY <1>a, <3>1, UsingEffect DEF Names
    <3> QED BY <1>b, <1>i, <2>1, <2>2, <3>2 DEF Sane
  <2> QED BY <2>3, <2>4
<1>15. CASE RunReset
  <2>1. UNCHANGED <<c, conn, swapped, sock, pend>> /\ Run("resetChannel")
    BY <1>15 DEF RunReset
  <2>2. /\ loop.pc = "functors" /\ loop'.pc = "functors" /\ loop'.closing = 0
        /\ loop'.due = loop.due /\ u' = u /\ Alive /\ Taken(Head(loop.fns))
    BY <1>12, <2>1
  <2>3. /\ k'.state = k.state /\ k'.timers = k.timers
        /\ k'.channel = IF Held THEN 0 ELSE k.channel
        /\ h'.dangling = {} => Held
        /\ h'.failed = h.failed
    BY <1>15, <1>a, ResetEffect
  <2>4. OneAttempt' /\ StartsOnce'
    BY <1>b, <1>c, <2>1, <2>2, <2>3, AttemptStays, StartsStay
  <2>5. Sane' => ChannelIsFree'
    BY <2>2, <2>3 DEF Sane, ChannelIsFree
  <2> QED BY <1>b, <1>i, <2>1, <2>2, <2>3, <2>4, <2>5
<1>16. CASE RunDestroyed \/ RunSetCloseCallback
  <2>1. /\ UNCHANGED <<k, c, sock, pend, h>>
        /\ \E op \in {"connectDestroyed", "setCloseCallback"} : Run(op)
    BY <1>16 DEF RunDestroyed, RunSetCloseCallback
  <2>2. /\ loop.pc = "functors" /\ loop'.pc = loop.pc /\ loop'.closing = loop.closing
        /\ loop'.due = loop.due /\ u' = u /\ Alive /\ Taken(Head(loop.fns))
        /\ Head(loop.fns) # ResetF
    BY <1>12, <1>d, <2>1
  <2>3. OneAttempt' /\ StartsOnce' /\ (~ Excused => ChannelIsFree')
    BY <1>b, <1>c, <1>j, <2>1, <2>2, AttemptStays, StartsStay, FreeStays
  <2> QED BY <1>b, <1>i, <2>1, <2>2, <2>3
<1>17. CASE LoopStep
  BY <1>1, <1>2, <1>3, <1>4, <1>5, <1>6, <1>7, <1>8, <1>9, <1>10, <1>11, <1>13, <1>14, <1>15,
     <1>16, <1>17 DEF LoopStep
<1>18. CASE LoopConnect
  <2>1. /\ u' = [u EXCEPT !.calls = @ + 1, !.connected = TRUE, !.stopped = FALSE]
        /\ c' = [c EXCEPT !.connect = TRUE]
        /\ startInLoop(Flagged(k, TRUE)) /\ UNCHANGED <<conn, swapped, pend, loop>>
        /\ Alive /\ ~ u.connected /\ loop.pc \in {"events", "close", "functors"}
    BY <1>18 DEF LoopConnect, OnLoop, Calling, Flagged, MayConnect
  <2>2. PICK kk \in KType : /\ startInLoop(kk) /\ kk.state = k.state
                            /\ kk.channel = k.channel /\ kk.timers = k.timers
    BY <1>a, <2>1, FlagEffect
  <2>3. u'.pc = u.pc /\ u'.remote = u.remote /\ u'.connected /\ c'.retry = c.retry
    BY <1>a, <2>1, CalledEffect, FlagsEffect, CFields
  <2>4. /\ Fresh /\ ~ Due(StartF) /\ DueOnce(StartF) /\ Same(StartF) /\ u.pc \notin ConnectPcs
    BY <1>b, <1>c, <2>1 DEF StartsOnce, Fresh
  <2>5. OneAttempt' /\ h'.failed = {} /\ (k'.watched \/ k'.channel = 0)
    BY <1>a, <1>b, <1>g, <2>1, <2>2, <2>4, StartOnce
  <2>6. StartsOnce'
    BY <2>1, <2>3, <2>4 DEF StartsOnce, Fresh
  <2>7. ChannelIsFree'
    BY <1>e, <1>g, <2>1, <2>4, <2>5 DEF ChannelIsFree
  <2> QED BY <1>i, <2>3, <2>5, <2>6, <2>7
<1>19. CASE LoopDisconnect
  <2>1. /\ u' = [u EXCEPT !.calls = @ + 1] /\ c' = [c EXCEPT !.connect = FALSE]
        /\ UNCHANGED <<k, swapped, sock, pend, h, loop>> /\ Alive
    BY <1>19 DEF LoopDisconnect, OnLoop, Calling
  <2>2. /\ u'.pc = u.pc /\ u'.remote = u.remote /\ u'.connected = u.connected
        /\ c'.connection = c.connection /\ c'.retry = c.retry
    BY <1>a, <2>1, CalledEffect, FlagsEffect, CFields
  <2>3. OneAttempt' /\ StartsOnce' /\ (~ Excused => ChannelIsFree')
    BY <1>b, <1>c, <2>1, <2>2, AttemptStays, StartsStay, FreeStays
  <2> QED BY <1>b, <1>i, <2>1, <2>2, <2>3
\* stopInLoop, by a call on the loop's thread.
<1>k. ASSUME stopInLoop(Flagged(k, FALSE)), loop' = loop, h' = h, Alive,
             loop.pc \in {"events", "close", "functors"},
             u'.connected = u.connected, u'.pc = u.pc, c'.connection = c.connection
      PROVE  OneAttempt' /\ StartsOnce' /\ (~ Excused => ChannelIsFree')
  <2>1. PICK kk \in KType : /\ stopInLoop(kk) /\ kk.state = k.state /\ ~ kk.connect
                            /\ kk.channel = k.channel /\ kk.watched = k.watched
                            /\ kk.timers = k.timers
    BY <1>a, <1>k, FlagEffect
  <2>2. CASE kk.state # "kConnecting"
    <3>1. Waits(kk) /\ pend' = pend
      BY <1>a, <2>1, <2>2, StopEffect
    <3> QED BY <1>b, <1>c, <1>k, <2>1, <3>1, AttemptStays, StartsStay, FreeStays DEF Waits, Alike
  <2>3. CASE kk.state = "kConnecting"
    <3>1. Ends(kk) /\ queueInLoop("resetChannel", 0)
      BY <1>a, <2>1, <2>3, StopEffect DEF Ends
    <3>2. Queued(ResetF)
      BY <1>a, <1>k, <3>1, QueueEffect DEF Functors, Plain, ResetF
    <3>3. /\ ~ Fresh /\ k.timers = 0 /\ loop.due = 0 /\ loop.closing = 0
          /\ loop.pc \notin {"close", "restart"}
      BY <1>e, <1>f, <1>k, <2>1, <2>3
    <3>4. OneAttempt'
      BY <2>1, <3>1, <3>3 DEF Ends, OneAttempt
    <3>5. StartsOnce'
      BY <1>b, <1>c, <1>d, <1>k, <3>2, <3>3, StartedStays
    <3>6. ChannelIsFree'
      BY <1>k, <2>1, <3>1, <3>3 DEF Ends, ChannelIsFree
    <3> QED BY <3>4, <3>5, <3>6
  <2> QED BY <2>2, <2>3
<1>20. CASE LoopStop
  <2>1. /\ u' = [u EXCEPT !.calls = @ + 1, !.stopped = TRUE] /\ c' = [c EXCEPT !.connect = FALSE]
        /\ stopInLoop(Flagged(k, FALSE)) /\ UNCHANGED <<conn, loop, h>> /\ Alive
        /\ loop.pc \in {"events", "close", "functors"}
    BY <1>20 DEF LoopStop, OnLoop, Calling, Flagged
  <2>2. /\ u'.pc = u.pc /\ u'.remote = u.remote /\ u'.connected = u.connected
        /\ c'.retry = c.retry /\ c'.connection = c.connection
    BY <1>a, <2>1, CalledEffect, FlagsEffect, CFields
  <2> QED BY <1>b, <1>i, <1>k, <2>1, <2>2
<1>21. CASE LoopDtor
  <2>1. /\ u' = [u EXCEPT !.calls = @ + 1] /\ UNCHANGED <<conn, loop, h>> /\ Alive
        /\ loop.pc \in {"events", "close", "functors"}
    BY <1>21 DEF LoopDtor, OnLoop, Calling
  <2>2. /\ u'.pc = u.pc /\ u'.remote = u.remote /\ u'.connected = u.connected
    BY <1>a, <2>1, CalledEffect, FlagsEffect
  <2>3. c'.retry = c.retry /\ c'.connection = c.connection
    BY <1>21, <1>a, CFields, CGone DEF LoopDtor
  <2>4. OneAttempt' /\ StartsOnce' /\ (~ Excused => ChannelIsFree')
    <3>1. CASE c.connection # 0
      <4>1. UNCHANGED <<k, pend>>
        BY <1>21, <3>1 DEF LoopDtor
      <4> QED BY <1>b, <1>c, <2>1, <2>2, <2>3, <4>1, AttemptStays, StartsStay, FreeStays
    <3>2. CASE c.connection = 0
      <4>1. stopInLoop(Flagged(k, FALSE))
        BY <1>21, <3>2 DEF LoopDtor, Flagged
      <4> QED BY <1>k, <2>1, <2>2, <2>3, <4>1
    <3> QED BY <3>1, <3>2
  <2> QED BY <1>b, <1>i, <2>1, <2>2, <2>3, <2>4
\* Steps of the other thread leave the connector's state and the loop alone.
<1>l. ASSUME Alive, UNCHANGED <<loop, h>>, c'.retry = c.retry, c'.connection = c.connection,
             u.remote \subseteq u'.remote, StartsOnce',
             k'.state = k.state, k'.channel = k.channel, k'.watched = k.watched,
             k'.timers = k.timers, k'.connect => k.connect \/ k.channel = 0
      PROVE  OnceInv'
  <2>1. OneAttempt' /\ (~ Excused => ChannelIsFree')
    BY <1>b, <1>l, AttemptStays, FreeStays
  <2> QED BY <1>b, <1>i, <1>l, <2>1
<1>22. \A p \in UPcs : Begin(p) =>
          /\ u'.pc = p /\ u.remote \subseteq u'.remote
          /\ u'.connected = (u.connected \/ p = "connect")
          /\ Alive /\ UNCHANGED <<k, conn, loop, pend, h>>
  BY <1>a, BeginEffect DEF Begin, Calling
<1>23. \A b \in BOOLEAN : k' = [k EXCEPT !.connect = b] =>
          /\ k'.state = k.state /\ k'.channel = k.channel /\ k'.watched = k.watched
          /\ k'.timers = k.timers /\ k'.connect = b
  BY <1>a DEF KType
<1>m. u.connected \in BOOLEAN
  BY <1>a DEF UType
<1>24. CASE Connect
  <2>1. c'.connection = c.connection /\ c'.retry = c.retry
    BY <1>24, <1>a, CFields DEF Connect
  <2>2. /\ u'.pc = "connect" /\ u.remote \subseteq u'.remote /\ u'.connected
        /\ Alive /\ UNCHANGED <<k, conn, loop, pend, h>>
    BY <1>22, <1>24 DEF Connect, UPcs
  <2>3. ~ u.connected
    BY <1>24 DEF Connect, MayConnect
  <2>4. Same(StartF)
    BY <1>c, <2>2
  <2>5. StartsOnce'
    BY <1>b, <2>1, <2>2, <2>3, <2>4 DEF StartsOnce, Fresh
  <2> QED BY <1>l, <2>1, <2>2, <2>5
<1>25. CASE Disconnect \/ Stop
  <2>1. c'.connection = c.connection /\ c'.retry = c.retry
    BY <1>25, <1>a, CFields DEF Disconnect, Stop
  <2>2. /\ u'.pc \in {"shutdown", "stop"} /\ u.remote \subseteq u'.remote
        /\ u'.connected = u.connected /\ Alive /\ UNCHANGED <<k, conn, loop, pend, h>>
    BY <1>22, <1>25, <1>m DEF Disconnect, Stop, UPcs
  <2>3. StartsOnce'
    BY <1>b, <1>c, <2>1, <2>2, StartsStay DEF ConnectPcs
  <2> QED BY <1>l, <2>1, <2>2, <2>3
<1>26. \A p, q \in UPcs : Step(p, q) => /\ u.pc = p /\ u'.pc = q /\ u'.remote = u.remote /\ Alive
                                        /\ u'.connected = u.connected
                                        /\ UNCHANGED <<loop, h>>
  BY <1>a, StepEffect
<1>35. CASE ConnectorStart
  <2>1. /\ u.pc = "connect" /\ u'.pc = "startInLoop" /\ u'.remote = u.remote
        /\ u'.connected = u.connected /\ UNCHANGED <<loop, pend, c, h>> /\ Alive
    BY <1>26, <1>35 DEF ConnectorStart, UPcs
  <2>2. /\ k'.state = k.state /\ k'.channel = k.channel /\ k'.watched = k.watched
        /\ k'.timers = k.timers
    BY <1>23, <1>35 DEF ConnectorStart
  <2>3. k.channel = 0
    BY <1>g, <2>1 DEF Fresh, ConnectPcs
  <2>4. StartsOnce'
    BY <1>b, <1>c, <2>1, <2>2, StartsStay DEF ConnectPcs
  <2> QED BY <1>l, <2>1, <2>2, <2>3, <2>4
<1>27. CASE Start
  <2>1. /\ u.pc = "startInLoop" /\ u'.pc = "idle" /\ u'.remote = u.remote
        /\ u'.connected = u.connected /\ UNCHANGED <<loop, k, c, h>> /\ Alive
    BY <1>26, <1>27 DEF Start, UPcs
  <2>2. Queued(StartF)
    BY <1>27, <1>a, <2>1, QueueEffect DEF Start, Functors, Plain, StartF
  <2>3. u.connected /\ Fresh /\ ~ Due(StartF) /\ DueOnce(StartF)'
    BY <1>b, <2>1, <2>2 DEF StartsOnce, Fresh, Queued, ConnectPcs
  <2>4. StartsOnce'
    BY <1>b, <2>1, <2>3 DEF StartsOnce, Fresh, ConnectPcs
  <2> QED BY <1>l, <2>1, <2>4
<1>28. CASE QueueStop \/ DtorQueue
  <2>1. /\ u'.pc \in {"idle", "dtorSwap"} /\ u'.remote = u.remote /\ u'.connected = u.connected
        /\ UNCHANGED <<loop, k, h>> /\ Alive
    BY <1>26, <1>28 DEF QueueStop, DtorQueue, UPcs
  <2>2. Queued(StopF)
    BY <1>28, <1>a, <2>1, QueueEffect DEF QueueStop, DtorQueue, Functors, Plain, StopF
  <2>3. c'.retry = c.retry /\ c'.connection = c.connection
    BY <1>28, <1>a, CFields DEF QueueStop, DtorQueue
  <2>4. StartsOnce'
    BY <1>b, <1>c, <1>d, <2>1, <2>2, <2>3, StartsStay DEF ConnectPcs
  <2> QED BY <1>l, <2>1, <2>3, <2>4
<1>29. CASE Shutdown \/ ConnectorStop \/ DtorDone
  <2>1. /\ u'.pc \in {"idle", "stopInLoop", "dtorQueue"} /\ u'.remote = u.remote
        /\ u'.connected = u.connected /\ UNCHANGED <<loop, h, pend>> /\ Alive
    BY <1>26, <1>29 DEF Shutdown, ConnectorStop, DtorDone, UPcs
  <2>2. /\ k'.state = k.state /\ k'.channel = k.channel /\ k'.watched = k.watched
        /\ k'.timers = k.timers /\ (k'.connect => k.connect)
    BY <1>23, <1>29 DEF Shutdown, ConnectorStop, DtorDone
  <2>3. c'.retry = c.retry /\ c'.connection = c.connection
    BY <1>29, <1>a, CFields DEF Shutdown, ConnectorStop, DtorDone
  <2>4. StartsOnce'
    BY <1>b, <1>c, <2>1, <2>2, <2>3, StartsStay DEF ConnectPcs
  <2> QED BY <1>l, <2>1, <2>2, <2>3, <2>4
<1>30. CASE Dtor
  <2>1. UNCHANGED <<k, c, loop, h>> /\ Alive
    BY <1>30 DEF Dtor, Calling
  <2>2. /\ u.remote \subseteq u'.remote /\ u'.connected = u.connected
        /\ u'.pc \in {"dtorSwap", "dtorStop"}
    <3>1. \E p \in {"dtorSwap", "dtorStop"} :
             u' = [u EXCEPT !.pc = p, !.calls = @ + 1, !.remote = @ \cup {"dtor"}]
      BY <1>30 DEF Dtor
    <3> QED BY <1>a, <3>1, DtorEffect DEF UPcs
  <2>3. Same(StartF)
    <3>1. CASE c.connection # 0
      <4>1. queueInLoop("setCloseCallback", c.connection)
        BY <1>30, <3>1 DEF Dtor, queueInLoop
      <4>2. Queued(<<"setCloseCallback", c.connection>>)
        BY <1>a, <2>1, <4>1, QueueEffect DEF Functors
      <4> QED BY <1>c, <1>d, <4>2
    <3>2. CASE c.connection = 0
      BY <1>30, <1>c, <2>1, <3>2 DEF Dtor
    <3> QED BY <3>1, <3>2
  <2>4. StartsOnce'
    BY <1>b, <2>1, <2>2, <2>3, StartsStay DEF ConnectPcs
  <2> QED BY <1>l, <2>1, <2>2, <2>4
<1>31. ASSUME UNCHANGED <<k, c, loop, pend, u, h>> PROVE OnceInv'
  <2>1. OneAttempt => OneAttempt'
    BY <1>31 DEF OneAttempt
  <2>2. StartsOnce => StartsOnce'
    BY <1>31, <1>c, StartsStay
  <2>3. ChannelIsFree => ChannelIsFree'
    BY <1>31, FreeStays
  <2> QED BY <1>31, <2>1, <2>2, <2>3 DEF OnceInv, Sane, Excused
<1>32. ASSUME Established \/ SelfConnected \/ ConnectFails \/ PeerResets \/ PeerCloses
       PROVE  OnceInv'
  <2>1. UNCHANGED <<k, c, loop, pend, u, h>>
    BY <1>32 DEF Established, SelfConnected, ConnectFails, PeerResets, PeerCloses, Becomes
  <2> QED BY <1>31, <2>1
<1>33. CASE UNCHANGED vars
  BY <1>31, <1>33 DEF vars
<1>34. CASE UserStep
  BY <1>27, <1>28, <1>29, <1>34, <1>35 DEF UserStep
<1> QED BY <1>17, <1>18, <1>19, <1>20, <1>21, <1>24, <1>25, <1>30, <1>32, <1>33, <1>34 DEF Next

\* What Failed adds to the asserts recorded: ~Connector's.
LEMMA AssertsFollow == ClientInv /\ (h.failed # {} => Excused) => AssertsHold
<1> SUFFICES ASSUME ClientInv, h.failed # {} => Excused PROVE AssertsHold
  OBVIOUS
<1>1. Failed \ {"~Connector"} # {} => h.failed # {}
  BY DEF Failed, Check
<1>2. "~Connector" \notin h.failed
  BY DEF ClientInv, ClientTypeOK, HType, Names
<1>3. ASSUME "~Connector" \in Failed, "dtor" \notin u.remote PROVE ~ k.watched
  <2>1. ~ c.exists
    BY <1>2, <1>3 DEF Failed, Check, Held
  <2>2. c.connection # 0 => k.state = "kConnected"
    BY DEF ClientInv, ClientLife, OneConnection
  <2> QED BY <1>3, <2>1, <2>2 DEF ClientInv, ClientLife, GoneQuietly, SocketsKept
<1> QED BY <1>1, <1>3 DEF AssertsHold, Excused

\* With ~ Again: startInLoop's assert(state_ == kDisconnected), connecting's
\* assert(!channel_) and the others that run while the client or its Connector is used hold,
\* whatever timers, events and functors are under way, but for a client with retry_ that
\* another thread stopped or destroyed.  ~Connector's assert(!channel_) may fail, but only
\* for the channel of an attempt that has ended, whose resetChannel is still queued: a
\* Connector never goes with a channel that epoll watches, unless another thread destroyed
\* its client.
THEOREM ConnectOnceAssertsHold == ASSUME ~ Again PROVE Spec => []AssertsHold
<1>1. Init => StopsFinally /\ OnceInv
  <2>1. Init => ~ Due(StopF) /\ ~ Due(StartF) /\ DueOnce(StartF)
    BY HasEmpty DEF Init, Due, DueOnce
  <2>2. Init => ~ u.stopped /\ ~ u.connected /\ u.pc = "idle" /\ h.failed = {}
    BY DEF Init
  <2>3. Init => /\ k.state = "kDisconnected" /\ k.timers = 0 /\ k.channel = 0
                /\ c.connection = 0 /\ loop.pc = "poll" /\ loop.due = 0 /\ loop.closing = 0
    BY DEF Init
  <2> QED BY <2>1, <2>2, <2>3 DEF StopsFinally, OnceInv, OneAttempt, StartsOnce, ConnectPcs,
                                  ChannelIsFree
<1>2. ClientInv /\ StopsFinally /\ OnceInv /\ [Next]_vars => StopsFinally' /\ OnceInv'
  BY StopNext, OnceNext
<1>3. ClientInv /\ OnceInv => AssertsHold
  BY AssertsFollow DEF OnceInv
<1> QED BY <1>1, <1>2, <1>3, ClientInvariant, PTL DEF Spec

=============================================================================
