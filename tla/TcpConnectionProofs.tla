------------------------- MODULE TcpConnectionProofs -------------------------
(***************************************************************************)
(* Proofs about module TcpConnection, for any sizes and bounds: the bytes  *)
(* that were accepted, the life of the connection, what its user is told.  *)
(***************************************************************************)
EXTENDS TcpConnection, SequenceTheorems, TLAPS

Ops == {"established", "destroy", "complete", "highWater", "send", "shutdown"}
Functors == [op : Ops, msg : Nat \X Nat]
Events == {"IN", "OUT", "HUP", "ERR"}
Stream == Seq(Nat \X Nat)

TcpTypeOK ==
  /\ sameLoop \in BOOLEAN /\ baseUp \in BOOLEAN /\ inMap \in BOOLEAN /\ baseQ \in Nat
  /\ lpc \in {"accept", "up", "poll", "hup", "read", "message", "out", "swap", "functors",
              "stopped"}
  /\ pend \in Seq(Functors) /\ fns \in Seq(Functors) /\ fnext \in Nat /\ fnext <= Len(fns)
  /\ status \in {"Connecting", "Connected", "Disconnecting", "Disconnected"}
  /\ events \in SUBSET Events /\ interest \in SUBSET Events
  /\ registered \in {"no", "added", "deleted"}
  /\ wpc \in {"none", "has", "checked", "looked", "shut"} /\ ncalls \in Nat
  /\ ups \in Nat /\ downs \in Nat

\* What the peer has not read fits into the kernel's buffer.
StreamTypeOK ==
  /\ wire \in Stream /\ output \in Stream /\ accepted \in Stream
  /\ got \in Nat /\ got <= Len(wire) /\ Len(wire) <= got + Cap

\* Functor op is in q, after the ones that have run.
Queued(q, run, op) == \E i \in DOMAIN q : i > run /\ q[i].op = op

DestroyQueued == Queued(pend, 0, "destroy") \/ Queued(fns, fnext, "destroy")

\* Before connectEstablished nothing has happened, and it is the next functor to run.
NotYetUp ==
  ups = 0 =>
    /\ status = "Connecting" /\ registered = "no" /\ events = {}
    /\ downs = 0 /\ wpc = "none" /\ baseQ = 0
    /\ \/ sameLoop /\ lpc = "accept" /\ pend = <<>> /\ fns = <<>>
       \/ /\ ~ sameLoop /\ lpc \in {"poll", "swap"} /\ fns = <<>> /\ fnext = 0
          /\ Len(pend) > 0 /\ pend[1].op = "established" /\ ~ Queued(pend, 1, "established")
       \/ /\ ~ sameLoop /\ lpc = "functors" /\ fnext = 0
          /\ Len(fns) > 0 /\ fns[1].op = "established" /\ ~ Queued(fns, 1, "established")
          /\ ~ Queued(pend, 0, "established")

\* After it, it never runs again.
UpOnce ==
  ups > 0 => /\ ups = 1 /\ lpc # "accept" /\ status # "Connecting"
             /\ ~ Queued(pend, 0, "established") /\ ~ Queued(fns, fnext, "established")

\* A connection that left the map is destroyed, or will be by a functor of its loop.
LeavesToDestroy == inMap \/ registered = "deleted" \/ lpc = "stopped" \/ DestroyQueued

AfterDestroy ==
  registered = "deleted" => /\ lpc \in {"functors", "poll", "swap", "stopped"}
                            /\ status \in {"Disconnecting", "Disconnected"}
                            /\ ups = 1

DownOnce ==
  /\ status = "Connected" => downs = 0
  /\ \/ downs <= ups /\ (status = "Disconnecting" => downs = 0)
     \/ "handleClose" \in failed
     \/ "status_" \in dangling

\* With one loop, what happens between handleClose and connectDestroyed is known.
OneLoop ==
  sameLoop =>
    /\ baseQ = 0
    /\ ~ baseUp => lpc = "stopped"
    /\ downs <= ups
    /\ baseUp /\ downs = 0 => ~ DestroyQueued
    /\ baseUp /\ ups = 1 /\ downs = 0 =>
         inMap /\ status \in {"Connected", "Disconnecting"} /\ registered = "added"
    /\ baseUp /\ downs > 0 =>
         \/ registered = "deleted"
         \/ lpc \in {"read", "out"} /\ events = {} /\ Queued(pend, 0, "destroy")
         \/ lpc = "swap" /\ Queued(pend, 0, "destroy")
         \/ lpc = "functors" /\ Queued(fns, fnext, "destroy")
    /\ baseUp /\ downs > 0 => (status = "Disconnected" /\ events = {}) \/ "status_" \in dangling
    /\ baseUp => failed \subseteq {"SIGPIPE"} \/ "status_" \in dangling
    /\ baseUp => inMap \/ downs > 0

\* The batch is there only while its functors run, or the callback of one of them.
BatchOver == lpc = "functors" \/ (lpc = "up" /\ ~ sameLoop) \/ fns = <<>>

LifeInv == /\ NotYetUp /\ UpOnce /\ LeavesToDestroy /\ AfterDestroy /\ DownOnce /\ OneLoop
           /\ BatchOver

-----------------------------------------------------------------------------
(* Queues of functors *)

LEMMA FunctorOK ==
  /\ \A op \in Ops, m \in Nat \X Nat : Functor(op, m) \in Functors /\ Functor(op, m).op = op
  /\ NoMsg \in Nat \X Nat
  BY DEF Functor, Functors, NoMsg

LEMMA QueuedAppend ==
  ASSUME NEW q \in Seq(Functors), NEW f \in Functors, NEW run \in Nat, run <= Len(q), NEW op
  PROVE  /\ Append(q, f) \in Seq(Functors) /\ Len(Append(q, f)) = Len(q) + 1
         /\ Len(q) > 0 => Append(q, f)[1] = q[1]
         /\ Queued(Append(q, f), run, op) <=> Queued(q, run, op) \/ f.op = op
<1> DEFINE a == Append(q, f)
<1>1. /\ a \in Seq(Functors) /\ Len(a) = Len(q) + 1 /\ a[Len(q) + 1] = f
      /\ \A i \in 1..Len(q) : a[i] = q[i]
  OBVIOUS
<1>2. Queued(a, run, op) <=> \E i \in 1..(Len(q) + 1) : i > run /\ a[i].op = op
  <2> HIDE DEF a
  <2> QED BY <1>1 DEF Queued
<1>3. Queued(q, run, op) <=> \E i \in 1..Len(q) : i > run /\ q[i].op = op
  BY DEF Queued
<1>4. Len(q) + 1 \in 1..(Len(q) + 1) /\ Len(q) + 1 > run
  OBVIOUS
<1>5. \A i \in 1..(Len(q) + 1) : i \in 1..Len(q) \/ i = Len(q) + 1
  OBVIOUS
<1>6. \A i \in 1..Len(q) : i \in 1..(Len(q) + 1)
  OBVIOUS
<1> HIDE DEF a
<1>7. Queued(a, run, op) <=> Queued(q, run, op) \/ f.op = op
  BY <1>1, <1>2, <1>3, <1>4, <1>5, <1>6
<1> QED BY <1>1, <1>7 DEF a

LEMMA QueuedNext ==
  ASSUME NEW q \in Seq(Functors), NEW run \in Nat, run < Len(q), NEW op
  PROVE  /\ Queued(q, run + 1, op) => Queued(q, run, op)
         /\ Queued(q, run, op) => Queued(q, run + 1, op) \/ q[run + 1].op = op
         /\ q[run + 1].op = op => Queued(q, run, op)
  BY DEF Queued

LEMMA QueuedEmpty ==
  ASSUME NEW run, NEW op
  PROVE  ~ Queued(<<>>, run, op)
  BY DEF Queued

-----------------------------------------------------------------------------
(* What the helpers do to the loop's queue, the channel and the record of failures *)

Queues(ops) == pend' = pend \/ \E op \in ops : pend' = Append(pend, Functor(op, NoMsg))

LEMMA HandleCloseEffect ==
  ASSUME handleClose
  PROVE  /\ status' = "Disconnected" /\ events' = {} /\ interest' \in {{}, interest}
         /\ downs' = downs + 1
         /\ sameLoop => /\ inMap' = FALSE /\ baseQ' = baseQ
                        /\ pend' = Append(pend, Functor("destroy", NoMsg))
         /\ ~ sameLoop => inMap' = inMap /\ baseQ' = baseQ + 1 /\ pend' = pend
         /\ failed \subseteq failed'
         /\ status \notin {"Connected", "Disconnecting"} => "handleClose" \in failed'
         /\ status \in {"Connected", "Disconnecting"} /\ (sameLoop => inMap) => failed' = failed
  BY DEF handleClose, update, removeConnection, queueInLoop, Check

LEMMA SendEffect ==
  ASSUME NEW m, sendInLoop(m)
  PROVE  /\ Queues({"complete", "highWater"})
         /\ events' = events \/ events' = events \cup {"OUT"}
         /\ interest' \in {interest, events'}
         /\ status = "Disconnected" => events' = events
         /\ failed' = failed \/ failed' = failed \cup {"SIGPIPE"}
<1>1. CASE status = "Disconnected"
  BY <1>1 DEF sendInLoop, Queues
<1>2. CASE status # "Disconnected"
  <2>1. events' = events \/ events' = events \cup {"OUT"}
    BY <1>2 DEF sendInLoop, update
  <2>2. interest' \in {interest, events'}
    BY <1>2 DEF sendInLoop, update
  <2>3. failed' = failed \/ failed' = failed \cup {"SIGPIPE"}
    BY <1>2 DEF sendInLoop, Check
  <2>4. \E rest, epipe : QueueCallback(rest, epipe)
    BY <1>2, Zenon DEF sendInLoop
  <2>5. Queues({"complete", "highWater"})
    BY <2>4 DEF QueueCallback, queueInLoop, Queues
  <2> QED BY <1>2, <2>1, <2>2, <2>3, <2>5
<1> QED BY <1>1, <1>2

LEMMA HandleWriteEffect ==
  ASSUME handleWrite
  PROVE  /\ Queues({"complete"})
         /\ events' = events \/ events' = events \ {"OUT"}
         /\ interest' \in {interest, events'}
         /\ failed' = failed \/ failed' = failed \cup {"SIGPIPE"}
<1>1. CASE ~ isWriting
  BY <1>1 DEF handleWrite, Queues
<1>2. CASE isWriting
  <2>1. failed' = failed \/ failed' = failed \cup {"SIGPIPE"}
    BY <1>2 DEF handleWrite, Check
  <2>2. \/ events' = events \ {"OUT"} /\ interest' \in {interest, events'}
           /\ pend' = Append(pend, Functor("complete", NoMsg))
        \/ UNCHANGED <<events, interest, pend>>
    BY <1>2 DEF handleWrite, update, queueInLoop
  <2> QED BY <2>1, <2>2 DEF Queues
<1> QED BY <1>1, <1>2

LEMMA DestroyEffect ==
  ASSUME connectDestroyed
  PROVE  /\ status' = IF status = "Connected" THEN "Disconnected" ELSE status
         /\ events' = IF status = "Connected" THEN {} ELSE events
         /\ interest' = {} /\ registered' = "deleted"
         /\ downs' = IF status = "Connected" THEN downs + 1 ELSE downs
         /\ failed \subseteq failed'
         /\ events' = {} => failed' = failed
  BY DEF connectDestroyed, Check

-----------------------------------------------------------------------------
(* Types *)

LEMMA TcpTypeOKStep ==
  ASSUME TcpTypeOK, [Next]_vars
  PROVE  TcpTypeOK'
<1> USE DEF TcpTypeOK, server, loop, channel, kernel, worker, history, At
<1>q. \A op \in {"complete", "highWater", "destroy", "shutdown"} :
         Append(pend, Functor(op, NoMsg)) \in Seq(Functors)
  <2>1. \A op \in {"complete", "highWater", "destroy", "shutdown"} : Functor(op, NoMsg) \in Functors
    BY FunctorOK DEF Ops
  <2> QED BY <2>1, AppendProperties
<1>s. \A m \in Nat \X Nat : Append(pend, Functor("send", m)) \in Seq(Functors)
  <2>1. \A m \in Nat \X Nat : Functor("send", m) \in Functors
    BY FunctorOK DEF Ops
  <2> QED BY <2>1, AppendProperties
<1>w. /\ Queues({"complete"}) => pend' \in Seq(Functors)
      /\ Queues({"complete", "highWater"}) => pend' \in Seq(Functors)
  BY <1>q DEF Queues
<1>e. <<>> \in Seq(Functors) /\ Len(<<>>) = 0
  OBVIOUS
<1>c. handleClose => /\ status' = "Disconnected" /\ events' = {} /\ interest' \in SUBSET Events
                     /\ downs' \in Nat /\ inMap' \in BOOLEAN /\ baseQ' \in Nat
                     /\ pend' \in Seq(Functors)
  <2> SUFFICES ASSUME handleClose
               PROVE  /\ status' = "Disconnected" /\ events' = {} /\ interest' \in SUBSET Events
                      /\ downs' \in Nat /\ inMap' \in BOOLEAN /\ baseQ' \in Nat
                      /\ pend' \in Seq(Functors)
    OBVIOUS
  <2>1. CASE sameLoop
    BY <2>1, <1>q, HandleCloseEffect, SMTT(30)
  <2>2. CASE ~ sameLoop
    BY <2>2, HandleCloseEffect
  <2> QED BY <2>1, <2>2
<1>p. Reported \in SUBSET Events
  BY DEF Reported, Events
<1>o. {"IN", "OUT"} \subseteq Events
  BY DEF Events
<1>1. CASE PeerSend
  BY <1>1, <1>o DEF PeerSend
<1>2. CASE PeerShutdown
  BY <1>2, <1>o DEF PeerShutdown
<1>3. CASE PeerReset
  BY <1>3, <1>o DEF PeerReset
<1>4. CASE PeerRead
  BY <1>4, <1>o DEF PeerRead
<1>5. CASE Poll
  BY <1>5, <1>p, <1>o DEF Poll
<1>6. CASE HandleHup
  <2>1. CASE handleClose
    BY <1>6, <2>1, <1>c DEF HandleHup
  <2>2. CASE ~ handleClose
    BY <1>6, <2>2 DEF HandleHup
  <2> QED BY <2>1, <2>2
<1>7. CASE HandleRead
  <2>1. CASE handleClose /\ UNCHANGED <<sameLoop, baseUp, registered>>
    BY <1>7, <2>1, <1>c DEF HandleRead
  <2>2. CASE UNCHANGED <<server, pend, status, channel, downs>>
    <3>1. /\ lpc' \in {"message", "out"}
          /\ UNCHANGED <<fns, fnext, wpc, ncalls, ups>>
      BY <1>7 DEF HandleRead
    <3> QED BY <2>2, <3>1
  <2> QED BY <1>7, <2>1, <2>2 DEF HandleRead
<1>8. CASE HandleOut
  <2>1. CASE handleWrite
    BY <1>8, <2>1, HandleWriteEffect, <1>w DEF HandleOut
  <2>2. CASE ~ handleWrite
    BY <1>8, <2>2 DEF HandleOut
  <2> QED BY <2>1, <2>2
<1>9. CASE SwapFunctors
  BY <1>9, <1>o DEF SwapFunctors
<1>10. CASE EstablishNow
  BY <1>10, <1>o DEF EstablishNow, connectEstablished
<1>11. CASE RunEstablished
  BY <1>11, <1>o DEF RunEstablished, connectEstablished
<1>12. CASE RunDestroy
  BY <1>12, DestroyEffect, <1>o DEF RunDestroy
<1>13. CASE RunSend
  BY <1>13, SendEffect, <1>w, <1>o DEF RunSend
<1>14. CASE RunShutdown
  BY <1>14, <1>o DEF RunShutdown
<1>15. CASE RunComplete
  BY <1>15, <1>o DEF RunComplete
<1>16. CASE FunctorsDone
  <2>1. fns' = <<>> /\ fnext' = 0 /\ lpc' \in {"poll", "stopped"} /\ pend' \in {pend, <<>>}
    BY <1>16 DEF FunctorsDone
  <2>2. UNCHANGED <<server, status, channel, output, kernel, worker, history>>
    BY <1>16 DEF FunctorsDone
  <2>3. pend' \in Seq(Functors) /\ fns' \in Seq(Functors) /\ fnext' \in Nat /\ fnext' <= Len(fns')
    <3>1. pend' \in Seq(Functors)
      <4>1. CASE pend' = pend
        BY <4>1
      <4>2. CASE pend' = <<>>
        BY <4>2
      <4> QED BY <2>1, <4>1, <4>2
    <3> QED BY <2>1, <1>e, <3>1
  <2> QED BY <2>1, <2>2, <2>3
<1>17. CASE CallbackReturns
  BY <1>17, <1>o DEF CallbackReturns
<1>18. CASE UserShutdown
  BY <1>18, <1>o DEF UserShutdown
<1>19. CASE GiveToWorker
  BY <1>19, <1>o DEF GiveToWorker
<1>20. CASE WorkerChecks
  BY <1>20, <1>o DEF WorkerChecks
<1>21. CASE WorkerReleases
  BY <1>21, <1>o DEF WorkerReleases
<1>22. CASE WorkerLooks
  BY <1>22, <1>o DEF WorkerLooks
<1>23. CASE WorkerSetsStatus
  BY <1>23, <1>o DEF WorkerSetsStatus
<1>24. CASE WorkerQueuesShutdown
  BY <1>24, <1>q, <1>o DEF WorkerQueuesShutdown, queueInLoop
<1>25. CASE BaseRemove
  <2>0. baseQ > 0 /\ baseQ' = baseQ - 1 /\ inMap' = FALSE
    BY <1>25 DEF BaseRemove
  <2>1. baseQ' \in Nat /\ inMap' \in BOOLEAN
    <3>1. baseQ \in Nat
      OBVIOUS
    <3>2. baseQ' \in Nat
      <4> HIDE DEF TcpTypeOK
      <4> QED BY <2>0, <3>1
    <3>3. inMap' \in BOOLEAN
      BY <2>0
    <3> QED BY <3>2, <3>3
  <2>2. pend' \in Seq(Functors)
    BY <1>25, <1>q DEF BaseRemove, queueInLoop
  <2> QED BY <1>25, <2>1, <2>2 DEF BaseRemove
<1>26. CASE ServerDtor
  <2>1. pend' \in Seq(Functors)
    BY <1>26, <1>e, <1>q DEF ServerDtor
  <2>2. /\ status' \in {"Connecting", "Connected", "Disconnecting", "Disconnected"}
        /\ events' \in SUBSET Events /\ interest' \in SUBSET Events
        /\ registered' \in {"no", "added", "deleted"} /\ downs' \in Nat
    BY <1>26, DestroyEffect DEF ServerDtor
  <2> QED BY <1>26, <2>1, <2>2 DEF ServerDtor
<1>27. ASSUME NEW size \in Sizes, UserSend(size) PROVE TcpTypeOK'
  BY <1>27, SendEffect, <1>w, <1>o DEF UserSend
<1>28. ASSUME NEW size \in Sizes, WorkerQueues(size) PROVE TcpTypeOK'
  <2>1. <<ncalls + 1, size>> \in Nat \X Nat
    BY TcpConstants
  <2> QED BY <1>28, <2>1, <1>s DEF WorkerQueues, queueInLoop
<1>29. CASE UNCHANGED vars
  BY <1>29 DEF vars
<1> QED BY <1>1, <1>2, <1>3, <1>4, <1>5, <1>6, <1>7, <1>8, <1>9, <1>10, <1>11, <1>12, <1>13, <1>14, <1>15,
          <1>16, <1>17, <1>18, <1>19, <1>20, <1>21, <1>22, <1>23, <1>24, <1>25, <1>26, <1>27, <1>28, <1>29
       DEF Next, LoopStep

LEMMA TcpTypesHold == Spec => []TcpTypeOK
<1>1. Init => TcpTypeOK
  <2> SUFFICES ASSUME Init PROVE TcpTypeOK
    OBVIOUS
  <2>1. Functor("established", NoMsg) \in Functors
    BY FunctorOK DEF Ops
  <2>2. <<Functor("established", NoMsg)>> \in Seq(Functors) /\ <<>> \in Seq(Functors) /\ Len(<<>>) = 0
    BY <2>1
  <2>3. pend \in Seq(Functors)
    BY <2>2 DEF Init
  <2> QED BY <2>2, <2>3 DEF Init, TcpTypeOK, Events
<1> QED BY <1>1, TcpTypeOKStep, PTL DEF Spec

-----------------------------------------------------------------------------
(* The stream of units *)

LEMMA ConcatStream ==
  ASSUME NEW s \in Stream, NEW t \in Stream
  PROVE  /\ s \o t \in Stream /\ Len(s \o t) = Len(s) + Len(t)
         /\ Len(s) \in Nat /\ Len(t) \in Nat
         /\ s \o <<>> = s /\ <<>> \o t = t
  BY ConcatProperties, ConcatEmptySeq DEF Stream

LEMMA StreamAssociative ==
  ASSUME NEW s \in Stream, NEW t \in Stream, NEW u \in Stream
  PROVE  (s \o t) \o u = s \o (t \o u)
<1> DEFINE S == Nat \X Nat
<1>1. s \in Seq(S) /\ t \in Seq(S) /\ u \in Seq(S)
  BY DEF Stream
<1> HIDE DEF S
<1> QED BY <1>1, ConcatAssociative

LEMMA SplitStream ==
  ASSUME NEW data \in Stream, NEW n \in Nat, n <= Len(data)
  PROVE  /\ SubSeq(data, 1, n) \in Stream /\ Len(SubSeq(data, 1, n)) = n
         /\ SubSeq(data, n + 1, Len(data)) \in Stream
         /\ SubSeq(data, 1, n) \o SubSeq(data, n + 1, Len(data)) = data
         /\ n = 0 => SubSeq(data, 1, n) = <<>> /\ SubSeq(data, n + 1, Len(data)) = data
<1>1. 1 \in 1..Len(data)+1 /\ n \in (1-1)..Len(data) /\ Len(data) \in n..Len(data)
  OBVIOUS
<1>2. SubSeq(data, 1, n) \o SubSeq(data, n + 1, Len(data)) = SubSeq(data, 1, Len(data))
  BY <1>1, ConcatAdjacentSubSeq DEF Stream
<1>3. SubSeq(data, 1, Len(data)) = data
  BY SubSeqFull DEF Stream
<1>4. n = 0 => SubSeq(data, 1, n) = <<>>
  BY SubSeqEmpty
<1>5. n = 0 => n + 1 = 1
  OBVIOUS
<1>6. SubSeq(data, 1, n) \in Stream /\ Len(SubSeq(data, 1, n)) = n
  BY DEF Stream
<1>7. SubSeq(data, n + 1, Len(data)) \in Stream
  BY DEF Stream
<1> QED BY <1>2, <1>3, <1>4, <1>5, <1>6, <1>7

LEMMA UnitsOK ==
  ASSUME NEW m \in Nat \X Nat
  PROVE  Units(m) \in Stream /\ Len(Units(m)) = m[2]
<1>1. m[1] \in Nat /\ m[2] \in Nat
  OBVIOUS
<1>2. \A k \in 1..m[2] : <<m[1], k>> \in Nat \X Nat
  BY <1>1
<1> QED BY <1>1, <1>2 DEF Units, Stream

LEMMA WrittenFits ==
  ASSUME StreamTypeOK, NEW data \in Stream
  PROVE  /\ Written(data) \in Nat /\ Written(data) <= Len(data)
         /\ Len(wire) + Written(data) <= got + Cap
         /\ Broken => Written(data) = 0
<1>1. Len(data) \in Nat /\ Len(wire) \in Nat /\ got \in Nat /\ Cap \in Nat
      /\ Len(wire) <= got + Cap
  BY TcpConstants DEF StreamTypeOK, Stream
<1> QED BY <1>1 DEF Written, Space

LEMMA SendStream ==
  ASSUME StreamTypeOK, StreamIntact, NEW m \in Nat \X Nat, sendInLoop(m), got' = got
  PROVE  StreamTypeOK' /\ StreamIntact'
<1>1. CASE status = "Disconnected"
  BY <1>1 DEF sendInLoop, StreamTypeOK, StreamIntact
<1>2. CASE status # "Disconnected"
  <2> DEFINE U      == Units(m)
             direct == ~ isWriting /\ output = <<>>
             n      == IF direct THEN Written(U) ELSE 0
             epipe  == direct /\ ~ sockErr /\ Broken
             first  == SubSeq(U, 1, n)
             rest   == SubSeq(U, n + 1, m[2])
  <2>1. /\ wire' = wire \o first
        /\ accepted' = IF epipe THEN accepted ELSE accepted \o U
        /\ output' = IF epipe THEN output ELSE output \o rest
    BY <1>2 DEF sendInLoop
  <2>2. U \in Stream /\ Len(U) = m[2]
    BY UnitsOK
  <2>3. /\ n \in Nat /\ n <= Len(U) /\ Len(wire) + n <= got + Cap
        /\ epipe => n = 0
        /\ ~ direct => n = 0
        /\ direct => output = <<>>
    <3>1. Len(wire) \in Nat /\ got \in Nat /\ Len(wire) <= got + Cap /\ Len(U) \in Nat
      BY <2>2 DEF StreamTypeOK, Stream
    <3>2. CASE direct
      <4> HIDE DEF U
      <4> QED BY <2>2, <3>2, WrittenFits
    <3>3. CASE ~ direct
      <4> HIDE DEF U
      <4> QED BY <3>1, <3>3
    <3> QED BY <3>2, <3>3
  <2>4. wire \in Stream /\ output \in Stream /\ accepted \in Stream /\ wire \o output = accepted
        /\ got \in Nat /\ got <= Len(wire)
    BY DEF StreamTypeOK, StreamIntact
  <2> HIDE DEF U, direct, n, epipe
  <2>5. /\ first \in Stream /\ Len(first) = n /\ rest \in Stream /\ first \o rest = U
        /\ n = 0 => first = <<>> /\ rest = U
    BY <2>2, <2>3, SplitStream
  <2> HIDE DEF first, rest
  <2>6. wire' \in Stream /\ Len(wire') = Len(wire) + n
    BY <2>1, <2>3, <2>4, <2>5, ConcatStream
  <2>7. output' \in Stream /\ accepted' \in Stream
    BY <2>1, <2>2, <2>4, <2>5, ConcatStream
  <2>8. StreamTypeOK'
    BY <2>3, <2>4, <2>6, <2>7 DEF StreamTypeOK
  <2>9. wire' \o output' = accepted'
    <3>1. CASE epipe
      <4>1. wire' = wire
        BY <2>1, <2>3, <2>4, <2>5, <3>1, ConcatStream
      <4> QED BY <2>1, <2>4, <3>1, <4>1
    <3>2. CASE ~ epipe /\ ~ direct
      <4>1. wire' = wire
        BY <2>1, <2>3, <2>4, <2>5, <3>2, ConcatStream
      <4>2. output' = output \o U /\ accepted' = (wire \o output) \o U
        BY <2>1, <2>3, <2>4, <2>5, <3>2
      <4> QED BY <2>2, <2>4, <4>1, <4>2, StreamAssociative, ZenonT(60)
    <3>3. CASE ~ epipe /\ direct
      <4>1. output' = rest /\ accepted = wire
        BY <2>1, <2>3, <2>4, <2>5, <3>3, ConcatStream
      <4>2. wire' \o output' = (wire \o first) \o rest /\ accepted' = wire \o (first \o rest)
        BY <2>1, <2>5, <3>3, <4>1
      <4> QED BY <2>4, <2>5, <4>2, StreamAssociative, ZenonT(60)
    <3> QED BY <3>1, <3>2, <3>3
  <2> QED BY <2>8, <2>9 DEF StreamIntact
<1> QED BY <1>1, <1>2

LEMMA HandleWriteStream ==
  ASSUME StreamTypeOK, StreamIntact, handleWrite, got' = got, accepted' = accepted
  PROVE  StreamTypeOK' /\ StreamIntact'
<1>1. CASE ~ isWriting
  BY <1>1 DEF handleWrite, StreamTypeOK, StreamIntact
<1>2. CASE isWriting
  <2> DEFINE n == Written(output)
             first == SubSeq(output, 1, n)
             rest  == SubSeq(output, n + 1, Len(output))
  <2>1. wire' = wire \o first /\ output' = rest
    BY <1>2 DEF handleWrite
  <2>2. wire \in Stream /\ output \in Stream /\ accepted \in Stream /\ wire \o output = accepted
        /\ got \in Nat /\ got <= Len(wire)
    BY DEF StreamTypeOK, StreamIntact
  <2>3. n \in Nat /\ n <= Len(output) /\ Len(wire) + n <= got + Cap
    BY <2>2, WrittenFits
  <2> HIDE DEF n
  <2>4. first \in Stream /\ Len(first) = n /\ rest \in Stream /\ first \o rest = output
    BY <2>2, <2>3, SplitStream
  <2> HIDE DEF first, rest
  <2>5. wire' \in Stream /\ Len(wire') = Len(wire) + n
    BY <2>1, <2>2, <2>4, ConcatStream
  <2>6. StreamTypeOK'
    BY <2>1, <2>2, <2>3, <2>4, <2>5 DEF StreamTypeOK, Stream
  <2>7. (wire \o first) \o rest = wire \o (first \o rest)
    <3>1. wire \in Stream /\ first \in Stream /\ rest \in Stream
      BY <2>2, <2>4
    <3> QED BY <3>1, StreamAssociative
  <2> QED BY <2>1, <2>2, <2>4, <2>6, <2>7 DEF StreamIntact
<1> QED BY <1>1, <1>2

\* The steps of a loop, of a callback and of the worker that send nothing.
StreamKept == wire' = wire /\ output' = output /\ accepted' = accepted /\ got' = got

LEMMA StreamStep ==
  ASSUME TcpTypeOK, StreamTypeOK, StreamIntact, [Next]_vars
  PROVE  StreamTypeOK' /\ StreamIntact'
<1> DEFINE Good == StreamTypeOK' /\ StreamIntact'
<1> USE DEF server, loop, channel, kernel, worker, history, At
<1>k. StreamKept => Good
  BY DEF StreamKept, StreamTypeOK, StreamIntact
<1>1. CASE PeerRead
  <2>1. got < Len(wire) /\ got' = got + 1 /\ UNCHANGED <<wire, output, accepted>>
    BY <1>1 DEF PeerRead
  <2>2. Len(wire) \in Nat /\ Cap \in Nat
    BY TcpConstants DEF StreamTypeOK, Stream
  <2> QED BY <2>1, <2>2 DEF StreamTypeOK, StreamIntact
<1>2. CASE HandleOut
  <2>1. CASE handleWrite
    BY <1>2, <2>1, HandleWriteStream DEF HandleOut
  <2>2. CASE ~ handleWrite
    BY <1>2, <2>2, <1>k DEF HandleOut, StreamKept
  <2> QED BY <2>1, <2>2
<1>3. CASE RunSend
  <2>1. CASE Held
    <3>1. fns[fnext + 1].msg \in Nat \X Nat
      <4>1. fnext + 1 \in 1..Len(fns)
        BY <1>3 DEF RunSend, TcpTypeOK
      <4>2. fns[fnext + 1] \in Functors
        BY <4>1, ElementOfSeq DEF TcpTypeOK
      <4> QED BY <4>2 DEF Functors
    <3> QED BY <1>3, <2>1, <3>1, SendStream DEF RunSend
  <2>2. CASE ~ Held
    BY <1>3, <2>2, <1>k DEF RunSend, StreamKept
  <2> QED BY <2>1, <2>2
<1>4. ASSUME NEW size \in Sizes, UserSend(size) PROVE Good
  <2>1. <<ncalls + 1, size>> \in Nat \X Nat
    BY TcpConstants DEF TcpTypeOK
  <2>2. CASE status = "Connected"
    BY <1>4, <2>1, <2>2, SendStream DEF UserSend
  <2>3. CASE status # "Connected"
    BY <1>4, <2>3, <1>k DEF UserSend, StreamKept
  <2> QED BY <2>2, <2>3
<1>5. CASE PeerSend \/ PeerShutdown \/ PeerReset
  BY <1>5, <1>k DEF PeerSend, PeerShutdown, PeerReset, StreamKept
<1>6. CASE \/ Poll \/ HandleHup \/ HandleRead \/ SwapFunctors \/ EstablishNow \/ RunEstablished
           \/ RunDestroy \/ RunShutdown \/ RunComplete \/ FunctorsDone \/ CallbackReturns
  BY <1>6, <1>k DEF Poll, HandleHup, HandleRead, SwapFunctors, EstablishNow, RunEstablished,
     connectEstablished, RunDestroy, RunShutdown, RunComplete, FunctorsDone, CallbackReturns,
     StreamKept
<1>7. CASE \/ UserShutdown \/ GiveToWorker \/ WorkerChecks \/ WorkerReleases \/ WorkerLooks
           \/ WorkerSetsStatus \/ WorkerQueuesShutdown \/ BaseRemove \/ ServerDtor
  BY <1>7, <1>k DEF UserShutdown, GiveToWorker, WorkerChecks, WorkerReleases, WorkerLooks,
     WorkerSetsStatus, WorkerQueuesShutdown, BaseRemove, ServerDtor, StreamKept
<1>8. ASSUME NEW size \in Sizes, WorkerQueues(size) PROVE Good
  BY <1>8, <1>k DEF WorkerQueues, StreamKept
<1>9. CASE UNCHANGED vars
  BY <1>9, <1>k DEF vars, StreamKept
<1> QED BY <1>1, <1>2, <1>3, <1>4, <1>5, <1>6, <1>7, <1>8, <1>9 DEF Next, LoopStep

\* Every unit that send() accepted reaches the kernel once and in order, or is still
\* buffered, whatever the kernel takes of a write and whoever sends.
THEOREM StreamIsIntact == Spec => []StreamIntact
<1>1. Init => StreamTypeOK /\ StreamIntact
  <2> SUFFICES ASSUME Init PROVE StreamTypeOK /\ StreamIntact
    OBVIOUS
  <2>1. <<>> \in Stream /\ Len(<<>>) = 0
    BY DEF Stream
  <2> QED BY <2>1, TcpConstants, ConcatStream DEF Init, StreamTypeOK, StreamIntact
<1> QED BY <1>1, TcpTypesHold, StreamStep, PTL DEF Spec

-----------------------------------------------------------------------------
(* The life of the connection *)

LEMMA CloseStep ==
  ASSUME TcpTypeOK, LifeInv, handleClose,
         lpc = "hup" \/ (lpc = "read" /\ "IN" \in events), lpc' \in {"read", "out"},
         UNCHANGED <<sameLoop, baseUp, fns, fnext, registered, wpc, ups, dangling>>
  PROVE  LifeInv'
<1> USE DEF LifeInv
<1>1. ups = 1 /\ registered # "deleted" /\ lpc \in {"hup", "read"}
  BY DEF TcpTypeOK, NotYetUp, UpOnce, AfterDestroy
<1>2. sameLoop => baseUp /\ downs = 0 /\ inMap /\ status \in {"Connected", "Disconnecting"}
  BY <1>1 DEF OneLoop, TcpTypeOK
<1>3. /\ sameLoop => Queued(pend', 0, "destroy")
      /\ ~ sameLoop => pend' = pend
      /\ ~ Queued(pend', 0, "established")
  <2>1. "destroy" \in Ops /\ NoMsg \in Nat \X Nat
    BY FunctorOK DEF Ops
  <2>2. /\ Queued(Append(pend, Functor("destroy", NoMsg)), 0, "destroy")
        /\ Queued(Append(pend, Functor("destroy", NoMsg)), 0, "established") =>
             Queued(pend, 0, "established")
    BY <2>1, FunctorOK, QueuedAppend DEF TcpTypeOK
  <2>3. ~ Queued(pend, 0, "established")
    BY <1>1 DEF UpOnce
  <2> QED BY <2>2, <2>3, HandleCloseEffect
<1>4. NotYetUp'
  BY <1>1 DEF NotYetUp
<1>5. UpOnce'
  BY <1>1, <1>3, HandleCloseEffect DEF UpOnce
<1>6. LeavesToDestroy'
  BY <1>1, <1>3, HandleCloseEffect DEF LeavesToDestroy, DestroyQueued
<1>7. AfterDestroy'
  BY <1>1 DEF AfterDestroy
<1>8. DownOnce'
  <2>1. /\ failed \subseteq failed' /\ downs' = downs + 1 /\ status' = "Disconnected"
        /\ status \notin {"Connected", "Disconnecting"} => "handleClose" \in failed'
    BY HandleCloseEffect
  <2> QED BY <1>1, <2>1 DEF DownOnce, TcpTypeOK
<1>9. OneLoop'
  <2> SUFFICES ASSUME sameLoop PROVE OneLoop'
    BY DEF OneLoop
  <2>1. /\ status' = "Disconnected" /\ events' = {} /\ downs' = 1 /\ baseQ' = baseQ
        /\ failed' = failed /\ Queued(pend', 0, "destroy")
    BY <1>2, <1>3, HandleCloseEffect
  <2> QED BY <1>1, <1>2, <2>1 DEF OneLoop
<1>10. BatchOver'
  BY <1>1 DEF BatchOver
<1> QED BY <1>4, <1>5, <1>6, <1>7, <1>8, <1>9, <1>10

LEMMA LifeStep ==
  ASSUME TcpTypeOK, LifeInv, [Next]_vars
  PROVE  LifeInv'
<1> USE DEF LifeInv, NotYetUp, UpOnce, LeavesToDestroy, AfterDestroy, DownOnce, OneLoop, BatchOver,
            DestroyQueued, server, loop, channel, kernel, worker, history, At
<1>t. TcpTypeOK'
  BY TcpTypeOKStep
<1>a. \A x \in Ops, m \in Nat \X Nat :
         /\ \A op : Queued(Append(pend, Functor(x, m)), 0, op) <=> Queued(pend, 0, op) \/ x = op
         /\ Len(pend) > 0 =>
              /\ Len(Append(pend, Functor(x, m))) > 0 /\ Append(pend, Functor(x, m))[1] = pend[1]
              /\ \A op : Queued(Append(pend, Functor(x, m)), 1, op) <=> Queued(pend, 1, op) \/ x = op
  BY FunctorOK, QueuedAppend DEF TcpTypeOK
<1>w. \A op \in {"established", "destroy"} :
         Queues({"complete"}) \/ Queues({"complete", "highWater"}) =>
           (Queued(pend', 0, op) <=> Queued(pend, 0, op))
  <2>1. \A x \in {"complete", "highWater"}, op \in {"established", "destroy"} :
           Queued(Append(pend, Functor(x, NoMsg)), 0, op) <=> Queued(pend, 0, op)
    BY <1>a, FunctorOK DEF Ops
  <2> QED BY <2>1 DEF Queues
<1>b. fnext < Len(fns) => \A op : /\ Queued(fns, fnext + 1, op) => Queued(fns, fnext, op)
                                  /\ Queued(fns, fnext, op) =>
                                       Queued(fns, fnext + 1, op) \/ fns[fnext + 1].op = op
                                  /\ fns[fnext + 1].op = op => Queued(fns, fnext, op)
  BY QueuedNext DEF TcpTypeOK
<1>e. \A run, op : ~ Queued(<<>>, run, op) /\ ~ Queued(fns, Len(fns), op)
  BY QueuedEmpty DEF Queued, TcpTypeOK
<1>o. "destroy" \in Ops /\ "shutdown" \in Ops /\ "send" \in Ops /\ NoMsg \in Nat \X Nat
  BY FunctorOK DEF Ops
<1> USE DEF TcpTypeOK
<1>1. CASE PeerSend
  BY <1>1, <1>o DEF PeerSend
<1>2. CASE PeerShutdown
  BY <1>2, <1>o DEF PeerShutdown
<1>3. CASE PeerReset
  BY <1>3, <1>o DEF PeerReset
<1>4. CASE PeerRead
  BY <1>4, <1>o DEF PeerRead
<1>5. CASE Poll
  BY <1>5, <1>o DEF Poll
<1>6. CASE HandleHup
  <2>0. /\ lpc = "hup" /\ lpc' = "read"
        /\ UNCHANGED <<sameLoop, baseUp, fns, fnext, registered, wpc, ups, dangling>>
    BY <1>6 DEF HandleHup
  <2>1. CASE handleClose
    BY <2>0, <2>1, CloseStep
  <2>2. CASE UNCHANGED <<status, events, interest, downs, inMap, baseQ, pend, failed>>
    BY <2>0, <2>2
  <2> QED BY <1>6, <2>1, <2>2 DEF HandleHup
<1>7. CASE HandleRead
  <2>0. lpc = "read" /\ UNCHANGED <<fns, fnext, wpc, ups, dangling>>
    BY <1>7 DEF HandleRead
  <2>1. CASE /\ "IN" \in events /\ handleClose /\ lpc' = "out"
             /\ UNCHANGED <<sameLoop, baseUp, registered>>
    BY <2>0, <2>1, CloseStep
  <2>2. CASE /\ lpc' = "out" \/ (lpc' = "message" /\ "IN" \in events)
             /\ UNCHANGED <<server, pend, status, channel, downs, failed>>
    BY <2>0, <2>2
  <2> QED BY <1>7, <2>1, <2>2 DEF HandleRead
<1>8. CASE HandleOut
  BY <1>8, HandleWriteEffect, <1>w, <1>o DEF HandleOut
<1>9. CASE SwapFunctors
  <2>1. NotYetUp'
    BY <1>9, <1>e DEF SwapFunctors
  <2>2. UpOnce'
    BY <1>9, <1>e DEF SwapFunctors
  <2>3. LeavesToDestroy'
    BY <1>9, <1>e DEF SwapFunctors
  <2>4. AfterDestroy'
    BY <1>9, <1>e DEF SwapFunctors
  <2>5. DownOnce'
    BY <1>9, <1>e DEF SwapFunctors
  <2>6. OneLoop'
    BY <1>9, <1>e DEF SwapFunctors
  <2>7. BatchOver'
    BY <1>9, <1>e DEF SwapFunctors
  <2> QED BY <2>1, <2>2, <2>3, <2>4, <2>5, <2>6, <2>7
<1>10. CASE EstablishNow
  <2>1. NotYetUp'
    BY <1>10, <1>e DEF EstablishNow, connectEstablished, Check
  <2>2. UpOnce'
    BY <1>10, <1>e DEF EstablishNow, connectEstablished, Check
  <2>3. LeavesToDestroy'
    BY <1>10, <1>e DEF EstablishNow, connectEstablished, Check
  <2>4. AfterDestroy'
    BY <1>10, <1>e DEF EstablishNow, connectEstablished, Check
  <2>5. DownOnce'
    BY <1>10, <1>e DEF EstablishNow, connectEstablished, Check
  <2>6. OneLoop'
    BY <1>10, <1>e DEF EstablishNow, connectEstablished, Check
  <2>7. BatchOver'
    BY <1>10, <1>e DEF EstablishNow, connectEstablished, Check
  <2> QED BY <2>1, <2>2, <2>3, <2>4, <2>5, <2>6, <2>7
<1>11. CASE RunEstablished
  BY <1>11, <1>b, <1>e, <1>o DEF RunEstablished, connectEstablished, Check
<1>12. CASE RunDestroy
  BY <1>12, DestroyEffect, <1>b, <1>e, <1>o DEF RunDestroy
<1>13. CASE RunSend
  BY <1>13, SendEffect, <1>w, <1>b, <1>e, <1>o DEF RunSend
<1>14. CASE RunShutdown
  BY <1>14, <1>b, <1>e, <1>o DEF RunShutdown
<1>15. CASE RunComplete
  BY <1>15, <1>b, <1>e, <1>o DEF RunComplete
<1>16. CASE FunctorsDone
  BY <1>16, <1>b, <1>e, <1>o DEF FunctorsDone
<1>17. CASE CallbackReturns
  BY <1>17, <1>o DEF CallbackReturns
<1>18. CASE UserShutdown
  BY <1>18, <1>o DEF UserShutdown
<1>19. CASE GiveToWorker
  BY <1>19, <1>o DEF GiveToWorker
<1>20. CASE WorkerChecks
  BY <1>20, <1>o DEF WorkerChecks
<1>21. CASE WorkerReleases
  BY <1>21, <1>o DEF WorkerReleases
<1>22. CASE WorkerLooks
  BY <1>22, <1>o DEF WorkerLooks
<1>23. CASE WorkerSetsStatus
  BY <1>23, <1>o DEF WorkerSetsStatus, Check
<1>24. CASE WorkerQueuesShutdown
  BY <1>24, <1>a, <1>o DEF WorkerQueuesShutdown, queueInLoop
<1>25. CASE BaseRemove
  BY <1>25, <1>a, <1>o DEF BaseRemove, queueInLoop, Check
<1>26. CASE ServerDtor
  <2>0. /\ baseUp /\ wpc = "none" /\ baseUp' = FALSE /\ inMap' = FALSE /\ baseQ' = 0
        /\ UNCHANGED <<sameLoop, fns, fnext, wpc, ups, dangling>>
    BY <1>26 DEF ServerDtor
  <2>1. CASE ~ sameLoop
    <3>1. /\ UNCHANGED <<lpc, status, channel, downs, failed>>
          /\ \/ inMap /\ pend' = Append(pend, Functor("destroy", NoMsg))
             \/ ~ inMap /\ pend' = pend
      BY <1>26, <2>1 DEF ServerDtor
    <3>2. /\ ~ Queued(pend, 0, "established") => ~ Queued(pend', 0, "established")
          /\ Queued(pend, 0, "destroy") => Queued(pend', 0, "destroy")
          /\ inMap => Queued(pend', 0, "destroy")
          /\ Len(pend) > 0 => /\ Len(pend') > 0 /\ pend'[1] = pend[1]
                              /\ ~ Queued(pend, 1, "established") => ~ Queued(pend', 1, "established")
      <4>1. CASE pend' = pend
        BY <3>1, <4>1
      <4>2. CASE inMap /\ pend' = Append(pend, Functor("destroy", NoMsg))
        BY <4>2, <1>a, <1>o
      <4> QED BY <3>1, <4>1, <4>2
    <3>3. NotYetUp'
      BY <2>0, <2>1, <3>1, <3>2
    <3>4. UpOnce' /\ LeavesToDestroy' /\ AfterDestroy' /\ DownOnce' /\ OneLoop' /\ BatchOver'
      BY <2>0, <2>1, <3>1, <3>2
    <3> QED BY <3>3, <3>4
  <2>2. CASE sameLoop
    <3>1. /\ lpc = "poll" /\ lpc' = "stopped" /\ pend' = <<>>
          /\ connectDestroyed \/ UNCHANGED <<status, channel, downs, failed>>
      BY <1>26, <2>2 DEF ServerDtor
    <3>5. ups = 1
      BY <2>2, <3>1
    <3>2. ~ Queued(pend', 0, "established") /\ ~ Queued(pend', 0, "destroy")
      BY <3>1, <1>e
    <3>3. CASE connectDestroyed
      BY <2>0, <2>2, <3>1, <3>2, <3>3, <3>5, DestroyEffect
    <3>4. CASE UNCHANGED <<status, channel, downs, failed>>
      BY <2>0, <2>2, <3>1, <3>2, <3>4, <3>5
    <3> QED BY <3>1, <3>3, <3>4
  <2> QED BY <2>1, <2>2
<1>27. ASSUME NEW size \in Sizes, UserSend(size) PROVE LifeInv'
  BY <1>27, SendEffect, <1>w DEF UserSend
<1>28. ASSUME NEW size \in Sizes, WorkerQueues(size) PROVE LifeInv'
  <2>1. <<ncalls + 1, size>> \in Nat \X Nat
    BY TcpConstants
  <2> QED BY <1>28, <2>1, <1>a, <1>o DEF WorkerQueues, queueInLoop
<1>29. CASE UNCHANGED vars
  BY <1>29 DEF vars
<1> QED BY <1>1, <1>2, <1>3, <1>4, <1>5, <1>6, <1>7, <1>8, <1>9, <1>10, <1>11, <1>12, <1>13, <1>14, <1>15,
          <1>16, <1>17, <1>18, <1>19, <1>20, <1>21, <1>22, <1>23, <1>24, <1>25, <1>26, <1>27, <1>28, <1>29
       DEF Next, LoopStep

LEMMA LifeHolds == Spec => [](TcpTypeOK /\ LifeInv)
<1>1. Init => LifeInv
  <2> SUFFICES ASSUME Init PROVE LifeInv
    OBVIOUS
  <2> DEFINE est == Functor("established", NoMsg)
  <2>1. /\ ~ sameLoop => pend = <<est>>
        /\ sameLoop => pend = <<>> /\ lpc = "accept"
        /\ ~ sameLoop => lpc = "poll"
    BY DEF Init
  <2>2. est \in Functors /\ est.op = "established"
    BY FunctorOK DEF Ops
  <2> HIDE DEF est
  <2>3. /\ Len(<<est>>) = 1 /\ <<est>>[1] = est
        /\ ~ Queued(<<est>>, 1, "established") /\ ~ Queued(<<est>>, 0, "destroy")
    BY <2>2 DEF Queued
  <2>4. ~ Queued(fns, fnext, "destroy") /\ ~ Queued(pend, 0, "destroy")
    BY <2>1, <2>3, QueuedEmpty DEF Init
  <2>5. NotYetUp
    BY <2>1, <2>2, <2>3 DEF Init, NotYetUp
  <2>6. OneLoop
    BY <2>1, <2>4 DEF Init, OneLoop, DestroyQueued
  <2> QED BY <2>5, <2>6 DEF Init, LifeInv, UpOnce, LeavesToDestroy, AfterDestroy, DownOnce, BatchOver
<1> QED BY <1>1, TcpTypesHold, LifeStep, PTL DEF Spec

\* As long as epoll watches the channel some TcpConnectionPtr exists: the map's, or the
\* one bound in connectDestroyed, on its way through the queues of one loop or two.
THEOREM RegisteredStaysHeld == Spec => []RegisteredIsHeld
<1>1. TcpTypeOK /\ LifeInv => RegisteredIsHeld
  <2> SUFFICES ASSUME TcpTypeOK, LifeInv, registered = "added", lpc # "stopped" PROVE Held
    BY DEF RegisteredIsHeld
  <2>1. inMap \/ Queued(pend, 0, "destroy") \/ Queued(fns, fnext, "destroy")
    BY DEF LifeInv, LeavesToDestroy, DestroyQueued
  <2>2. "destroy" \in Owning
    BY DEF Owning
  <2> QED BY <2>1, <2>2 DEF Queued, Held
<1> QED BY <1>1, LifeHolds, PTL

\* So what epoll_wait returns is never the channel of a destroyed connection.
THEOREM PollFindsNoDanglingChannel == Spec => []("channel" \notin dangling)
<1> DEFINE Sound == "channel" \notin dangling
<1>1. Init => Sound
  BY DEF Init
<1>2. RegisteredIsHeld /\ Sound /\ [Next]_vars => Sound'
  <2> SUFFICES ASSUME RegisteredIsHeld, Sound, [Next]_vars PROVE Sound'
    OBVIOUS
  <2>1. CASE Poll
    BY <2>1 DEF Poll, At, RegisteredIsHeld, Check
  <2>2. CASE dangling' = dangling
    BY <2>2
  <2>3. CASE RunSend \/ RunShutdown \/ WorkerSetsStatus
    BY <2>3 DEF RunSend, RunShutdown, WorkerSetsStatus, Check
  <2>4. CASE PeerSend \/ PeerShutdown \/ PeerReset \/ PeerRead \/ HandleHup \/ HandleRead \/ HandleOut
             \/ SwapFunctors \/ EstablishNow \/ RunEstablished \/ RunDestroy
    BY <2>4, <2>2 DEF PeerSend, PeerShutdown, PeerReset, PeerRead, HandleHup, HandleRead, HandleOut,
       SwapFunctors, EstablishNow, RunEstablished, connectEstablished, RunDestroy, history
  <2>5. CASE RunComplete \/ FunctorsDone \/ CallbackReturns \/ UserShutdown \/ GiveToWorker
             \/ WorkerChecks \/ WorkerReleases \/ WorkerLooks \/ WorkerQueuesShutdown
             \/ BaseRemove \/ ServerDtor
    BY <2>5, <2>2 DEF RunComplete, FunctorsDone, CallbackReturns, UserShutdown, GiveToWorker,
       WorkerChecks, WorkerReleases, WorkerLooks, WorkerQueuesShutdown, BaseRemove, ServerDtor, history
  <2>6. ASSUME NEW size \in Sizes, UserSend(size) \/ WorkerQueues(size) PROVE Sound'
    BY <2>6, <2>2 DEF UserSend, WorkerQueues, history
  <2>7. CASE UNCHANGED vars
    BY <2>7, <2>2 DEF vars, history
  <2> QED BY <2>1, <2>3, <2>4, <2>5, <2>6, <2>7 DEF Next, LoopStep
<1> QED BY <1>1, <1>2, RegisteredStaysHeld, PTL DEF Spec

\* With one loop no assert fails between close, removal and destruction, whatever the
\* peer, the user's callbacks and the worker do, but for the status_ race.
THEOREM OneLoopNeverAsserts == Spec => []OneLoopAssertsHold
<1>1. LifeInv => OneLoopAssertsHold
  BY DEF LifeInv, OneLoop, OneLoopAssertsHold
<1> QED BY <1>1, LifeHolds, PTL

\* UP is told once; DOWN is told again only after the assert of handleClose has failed.
THEOREM UpIsToldOnce == Spec => []UpThenDown
<1>1. TcpTypeOK /\ LifeInv => UpThenDown
  <2> SUFFICES ASSUME TcpTypeOK, LifeInv PROVE UpThenDown
    OBVIOUS
  <2>1. ups <= 1
    BY DEF TcpTypeOK, LifeInv, UpOnce
  <2>2. sameLoop => downs <= ups
    BY DEF LifeInv, OneLoop
  <2>3. downs <= ups \/ "handleClose" \in failed \/ "status_" \in dangling
    BY DEF LifeInv, DownOnce
  <2> QED BY <2>1, <2>2, <2>3 DEF UpThenDown
<1> QED BY <1>1, LifeHolds, PTL

\* No step of any thread brings a destroyed connection back or calls its user.
THEOREM DestroyedStaysQuiet == Spec => DestroyedIsQuiet
<1> DEFINE Quiet == registered' = "deleted" /\ ups' = ups /\ downs' = downs
<1>1. TcpTypeOK /\ LifeInv /\ [Next]_vars =>
        [registered = "deleted" => registered' = "deleted" /\ ups' = ups /\ downs' = downs]_vars
  <2> SUFFICES ASSUME TcpTypeOK, LifeInv, [Next]_vars, registered = "deleted" PROVE Quiet
    OBVIOUS
  <2> USE DEF server, loop, channel, kernel, worker, history, At
  <2>1. /\ lpc \in {"functors", "poll", "swap", "stopped"}
        /\ status \in {"Disconnecting", "Disconnected"} /\ ups = 1
        /\ ~ Queued(fns, fnext, "established")
    BY DEF LifeInv, AfterDestroy, UpOnce
  <2>2. CASE RunEstablished
    <3>1. Queued(fns, fnext, "established")
      BY <2>2, QueuedNext DEF RunEstablished, TcpTypeOK
    <3> QED BY <2>1, <3>1
  <2>3. CASE RunDestroy \/ ServerDtor
    <3>1. CASE connectDestroyed
      BY <2>1, <2>3, <3>1, DestroyEffect DEF RunDestroy, ServerDtor
    <3>2. CASE UNCHANGED <<status, channel, downs, failed>>
      BY <2>3, <3>2 DEF RunDestroy, ServerDtor
    <3> QED BY <2>3, <3>1, <3>2 DEF RunDestroy, ServerDtor
  <2>4. CASE HandleHup \/ HandleRead \/ HandleOut \/ EstablishNow \/ UserShutdown \/ GiveToWorker
    BY <2>1, <2>4 DEF HandleHup, HandleRead, HandleOut, EstablishNow, UserShutdown, GiveToWorker
  <2>5. CASE PeerSend \/ PeerShutdown \/ PeerReset \/ PeerRead \/ Poll \/ SwapFunctors \/ RunSend
             \/ RunShutdown \/ RunComplete \/ FunctorsDone \/ CallbackReturns
    BY <2>5 DEF PeerSend, PeerShutdown, PeerReset, PeerRead, Poll, SwapFunctors, RunSend,
       RunShutdown, RunComplete, FunctorsDone, CallbackReturns
  <2>6. CASE WorkerChecks \/ WorkerReleases \/ WorkerLooks \/ WorkerSetsStatus
             \/ WorkerQueuesShutdown \/ BaseRemove
    BY <2>6 DEF WorkerChecks, WorkerReleases, WorkerLooks, WorkerSetsStatus, WorkerQueuesShutdown,
       BaseRemove
  <2>7. ASSUME NEW size \in Sizes, UserSend(size) \/ WorkerQueues(size) PROVE Quiet
    BY <2>7 DEF UserSend, WorkerQueues
  <2>8. CASE UNCHANGED vars
    BY <2>8 DEF vars
  <2> QED BY <2>2, <2>3, <2>4, <2>5, <2>6, <2>7, <2>8 DEF Next, LoopStep
<1> QED BY <1>1, LifeHolds, PTL DEF Spec, DestroyedIsQuiet
=============================================================================
