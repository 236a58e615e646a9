-------------------------- MODULE TcpServerProofs --------------------------
(***************************************************************************)
(* Proofs about module TcpServer, for any numbers of threads, clients and  *)
(* descriptors.                                                            *)
(***************************************************************************)
EXTENDS TcpServer, FiniteSetTheorems, SequenceTheorems, TLAPS

AllLoops == 0..MaxThreads
Ops == {"connectEstablished", "connectDestroyed", "removeConnectionInLoop"}
Functors == Ops \X Clients
Accepted == {k \in Clients : net.client[k] = "accepted"}
\* The functors each loop has still to run, in their order.
line == [l \in AllLoops |-> lp[l].fns \o pend[l]]

Has(s, x) == \E i \in DOMAIN s : s[i] = x
Once(s, x) == \A i, j \in DOMAIN s : s[i] = x /\ s[j] = x => i = j

SrvType == [started : BOOLEAN, threads : 0..MaxThreads, next : Nat, nextConnId : Nat,
            dtor : {"no", "connections", "pool", "done"}, joining : Nat]
ConnType == [status : {"none", "Connecting", "Connected", "Disconnected"}, loop : AllLoops,
             gone : BOOLEAN, destroyed : BOOLEAN]
AccType == [pc : {"idle", "closeIdle", "acceptIdle", "closeAgain", "openIdle"},
            idleFd : {"devnull", "client", "none"}]
NetType == [client : [Clients -> {"away", "waiting", "accepted", "refused", "left"}],
            limit : Nat, free : Nat, taken : Nat]
LoopType == [pc : {"none", "setup", "poll", "events", "functors", "ended"},
             ready : SUBSET (0..MaxClients), fns : Seq(Functors), quit : BOOLEAN]
Names == {"removeConnectionInLoop", "connectEstablished", "accept", "server", "acceptor"}
HistoryType == [failed : SUBSET Names, dangling : SUBSET Names, outlived : BOOLEAN,
                raced : BOOLEAN]

ServerTypeOK ==
  /\ srv \in SrvType /\ acc \in AccType /\ net \in NetType
  /\ connections \subseteq Clients
  /\ conn \in [Clients -> ConnType]
  /\ lp \in [AllLoops -> LoopType]
  /\ pend \in [AllLoops -> Seq(Functors)]
  /\ h \in HistoryType

\* The numbers in the names: those below nextConnId_ are given, one to each client that
\* was accepted; next_ stays below the number of loops; what is reported has a number.
NumbersGiven ==
  /\ \A id \in Clients : conn[id].status # "none" <=> id < srv.nextConnId
  /\ srv.nextConnId = Cardinality(Accepted) + 1
  /\ srv.next = 0 \/ srv.next < srv.threads
  /\ \A l \in AllLoops, id \in Clients : id \in lp[l].ready => conn[id].status # "none"

\* Only a loop that is at its functors has some left from its queue.
LinesKept == \A l \in AllLoops : lp[l].pc # "functors" => lp[l].fns = <<>>

-----------------------------------------------------------------------------
\* The destructor joins the threads in their order; what it has joined has ended, and
\* what was not started has no thread.  A base loop that ended before ~TcpServer stays so.
ThreadsOver ==
  /\ srv.joining > 1 => srv.started
  /\ \A l \in 1..MaxThreads : ~ srv.started \/ l > srv.threads => lp[l].pc = "none"
  /\ \A l \in 1..MaxThreads : l < srv.joining => lp[l].pc \in {"none", "ended"}
  /\ srv.dtor = "done" => ~ Joining
  /\ srv.dtor # "no" /\ ~ h.outlived => lp[0].pc = "ended"

\* Before ~TcpServer: a connection that is up is kept and nothing of its end is under way;
\* one that went down is kept until the base loop is told, once, and then on its way to
\* connectDestroyed.
Way(id) ==
  /\ conn[id].status \in {"Connecting", "Connected"} =>
       /\ id \in connections /\ ~ conn[id].destroyed
       /\ ~ Has(line[0], <<"removeConnectionInLoop", id>>)
       /\ ~ Has(line[conn[id].loop], <<"connectDestroyed", id>>)
  /\ conn[id].status = "Disconnected" =>
       \/ id \in connections /\ Has(line[0], <<"removeConnectionInLoop", id>>)
       \/ /\ id \notin connections /\ ~ Has(line[0], <<"removeConnectionInLoop", id>>)
          /\ conn[id].destroyed \/ Has(line[conn[id].loop], <<"connectDestroyed", id>>)
  /\ Once(line[0], <<"removeConnectionInLoop", id>>)

\* What is queued names a connection that was made, connectDestroyed in its own loop; what
\* is in connections_ is not destroyed, nor about to be; what was made is in connections_,
\* destroyed, or about to be, also when ~TcpServer is over.
Story(id) ==
  /\ \A l \in AllLoops :
        /\ \A op \in Ops : Has(line[l], <<op, id>>) => conn[id].status # "none"
        /\ Has(line[l], <<"connectDestroyed", id>>) => l = conn[id].loop
  /\ id \in connections \/ conn[id].destroyed => conn[id].status # "none"
  /\ id \in connections => ~ conn[id].destroyed
                           /\ ~ Has(line[conn[id].loop], <<"connectDestroyed", id>>)
  /\ conn[id].status # "none" =>
       id \in connections \/ conn[id].destroyed
       \/ Has(line[conn[id].loop], <<"connectDestroyed", id>>)
  /\ srv.dtor = "no" => Way(id)

\* What a loop is to handle is one of its own connections, up until it has handled it.
ReadyIsUp ==
  srv.dtor = "no" => \A l \in AllLoops : \A id \in lp[l].ready \ {0} :
                        conn[id].status = "Connected" /\ conn[id].loop = l

ServerLife == /\ \A id \in Clients : Story(id)
              /\ ReadyIsUp
              /\ "removeConnectionInLoop" \notin h.failed

-----------------------------------------------------------------------------
(* Type correctness *)

\* The next client to be accepted is one that waits.
LEMMA FirstWaits == Waiting # {} => First \in Waiting
<1> DEFINE Below(k) == {j \in Waiting : j < k}
           Family == {Below(k) : k \in Waiting}
           Less == StrictSubsetOrdering(Clients)
<1>1. Waiting \subseteq Clients /\ Clients \subseteq Nat
  BY ServerConstants DEF Waiting, Clients
<1>2. FiniteSubsetsOf(Clients) = SUBSET Clients
  BY ServerConstants, FS_Interval, FS_FiniteSubsetsOfFinite DEF Clients
<1>3. IsWellFoundedOn(Less, SUBSET Clients)
  BY <1>2, FS_StrictSubsetOrderingWellFounded
<1>4. Family \subseteq SUBSET Clients
  BY <1>1
<1>5. SUFFICES ASSUME Waiting # {} PROVE First \in Waiting
  OBVIOUS
<1>6. Family # {}
  BY <1>5
<1>7. PICK B \in Family : \A C \in Family : <<C, B>> \notin Less
  <2> HIDE DEF Less, Family
  <2> QED BY <1>3, <1>4, <1>6, WFMin
<1>8. PICK k \in Waiting : B = Below(k)
  BY <1>7
<1>9. ASSUME NEW j \in Waiting, j < k PROVE FALSE
  <2>1. Below(j) \subseteq Below(k) /\ j \in Below(k) /\ j \notin Below(j)
    <3>1. j \in Nat /\ k \in Nat /\ j < k
      BY <1>1, <1>9
    <3>2. \A i \in Waiting : i < j => i < k
      BY <1>1, <3>1
    <3>3. j \in Below(k) /\ j \notin Below(j)
      BY <3>1
    <3> QED BY <3>2, <3>3
  <2>2. Below(j) \in Family /\ Below(k) \in SUBSET Clients /\ Below(j) \in SUBSET Clients
    BY <1>1
  <2>3. <<Below(j), Below(k)>> \in Less
    <3> HIDE DEF Below
    <3> QED BY <2>1, <2>2 DEF StrictSubsetOrdering
  <2> QED BY <1>7, <1>8, <2>2, <2>3
<1>10. \A j \in Waiting : k <= j
  BY <1>1, <1>9
<1> QED BY <1>10 DEF First

LEMMA TypeInit == Init => ServerTypeOK /\ NumbersGiven /\ LinesKept
<1> SUFFICES ASSUME Init PROVE ServerTypeOK /\ NumbersGiven /\ LinesKept
  OBVIOUS
<1> USE ServerConstants
<1>1. srv \in SrvType /\ acc \in AccType /\ net \in NetType
  BY DEF Init, SrvType, AccType, NetType
<1>2. conn \in [Clients -> ConnType]
  BY DEF Init, ConnType, AllLoops
<1>3. <<>> \in Seq(Functors)
  BY EmptySeq
<1>4. lp \in [AllLoops -> LoopType] /\ pend \in [AllLoops -> Seq(Functors)]
  BY <1>3 DEF Init, LoopType, AllLoops
<1>5. h \in HistoryType
  BY DEF Init, HistoryType
<1>6. Accepted = {} /\ Cardinality({}) = 0
  BY FS_EmptySet DEF Init, Accepted
<1>7. NumbersGiven
  BY <1>6 DEF Init, NumbersGiven, Clients, AllLoops
<1>8. LinesKept
  BY DEF Init, LinesKept, AllLoops
<1> QED BY <1>1, <1>2, <1>4, <1>5, <1>7, <1>8 DEF Init, ServerTypeOK

\* The number of the next connection is one of Clients when a client waits, and it is
\* given to that client.
LEMMA NumberIsFree ==
  ServerTypeOK /\ NumbersGiven /\ Waiting # {} =>
    /\ srv.nextConnId \in Clients
    /\ \A c : c = [net.client EXCEPT ![First] = "accepted"] =>
          Cardinality({k \in Clients : c[k] = "accepted"}) = srv.nextConnId
<1> SUFFICES ASSUME ServerTypeOK, NumbersGiven, Waiting # {},
                    NEW c, c = [net.client EXCEPT ![First] = "accepted"]
             PROVE /\ srv.nextConnId \in Clients
                   /\ Cardinality({k \in Clients : c[k] = "accepted"}) = srv.nextConnId
  OBVIOUS
<1> DEFINE A == {k \in Clients : c[k] = "accepted"}
<1>1. First \in Clients /\ First \notin Accepted
  BY FirstWaits DEF Waiting, Accepted
<1>2. A = Accepted \cup {First}
  BY <1>1 DEF Accepted, ServerTypeOK, NetType
<1>3. IsFiniteSet(Clients) /\ Cardinality(Clients) = MaxClients /\ MaxClients \in Nat
  <2>1. IsFiniteSet(1..MaxClients) /\ Cardinality(1..MaxClients) = MaxClients - 1 + 1
    <3>1. MaxClients < 1 => MaxClients = 0
      BY ServerConstants
    <3> QED BY <3>1, ServerConstants, FS_Interval
  <2> QED BY <2>1, ServerConstants DEF Clients
<1>4. Accepted \subseteq Clients /\ A \subseteq Clients
  BY DEF Accepted
<1>5. IsFiniteSet(Accepted) /\ Cardinality(Accepted) \in Nat
  BY <1>3, <1>4, FS_Subset, FS_CardinalityType
<1>6. Cardinality(A) = Cardinality(Accepted) + 1
  <2> HIDE DEF A
  <2> QED BY <1>1, <1>2, <1>5, FS_AddElement
<1>7. Cardinality(A) <= MaxClients
  <2> HIDE DEF A
  <2> QED BY <1>3, <1>4, FS_Subset
<1>8. srv.nextConnId = Cardinality(A)
  BY <1>6 DEF NumbersGiven
<1>9. srv.nextConnId \in Clients
  <2> HIDE DEF A
  <2> QED BY <1>3, <1>5, <1>6, <1>7, <1>8 DEF Clients
<1> QED BY <1>8, <1>9

-----------------------------------------------------------------------------
(* The queues of the loops *)

LEMMA HasAppend ==
  ASSUME NEW S, NEW s \in Seq(S), NEW e \in S
  PROVE  /\ \A x : Has(Append(s, e), x) <=> Has(s, x) \/ x = e
         /\ \A x : Once(s, x) /\ (x # e \/ ~ Has(s, x)) => Once(Append(s, e), x)
<1> DEFINE t == Append(s, e)
<1>1. /\ t \in Seq(S) /\ Len(t) = Len(s) + 1 /\ t[Len(s) + 1] = e
      /\ \A i \in 1..Len(s) : t[i] = s[i]
  BY AppendProperties
<1>2. Len(s) \in Nat /\ DOMAIN s = 1..Len(s) /\ DOMAIN t = 1..(Len(s) + 1)
  BY <1>1, LenProperties
<1>3. \A i \in DOMAIN t : i \in DOMAIN s \/ i = Len(s) + 1
  BY <1>2
<1>4. \A i \in DOMAIN s : i \in DOMAIN t /\ t[i] = s[i]
  BY <1>1, <1>2
<1>5. Len(s) + 1 \in DOMAIN t
  BY <1>2
<1> HIDE DEF t
<1>6. \A x : Has(t, x) <=> Has(s, x) \/ x = e
  BY <1>1, <1>3, <1>4, <1>5 DEF Has
<1>7. ASSUME NEW x, Once(s, x), x # e \/ ~ Has(s, x) PROVE Once(t, x)
  BY <1>1, <1>3, <1>4, <1>7 DEF Has, Once
<1> QED BY <1>6, <1>7 DEF t

LEMMA HasTail ==
  ASSUME NEW S, NEW s \in Seq(S), s # <<>>
  PROVE  /\ Head(s) \in S /\ Tail(s) \in Seq(S) /\ Has(s, Head(s))
         /\ \A x : Has(Tail(s), x) => Has(s, x)
         /\ \A x : Has(s, x) => Has(Tail(s), x) \/ x = Head(s)
         /\ \A x : Once(s, x) => Once(Tail(s), x) /\ (x = Head(s) => ~ Has(Tail(s), x))
<1> DEFINE t == Tail(s)
<1>1. /\ t \in Seq(S) /\ Len(t) = Len(s) - 1 /\ Head(s) = s[1] /\ Head(s) \in S
      /\ \A i \in 1..Len(t) : t[i] = s[i + 1]
  BY HeadTailProperties
<1>2. Len(s) \in Nat \ {0} /\ DOMAIN s = 1..Len(s) /\ DOMAIN t = 1..(Len(s) - 1)
  BY <1>1, LenProperties, EmptySeq
<1>3. \A i \in DOMAIN t : i \in Nat /\ i + 1 \in DOMAIN s /\ i + 1 # 1 /\ t[i] = s[i + 1]
  BY <1>1, <1>2
<1>4. \A i \in DOMAIN s : i = 1 \/ \E j \in DOMAIN t : j + 1 = i
  <2>1. ASSUME NEW i \in DOMAIN s, i # 1 PROVE i - 1 \in DOMAIN t /\ (i - 1) + 1 = i
    BY <1>2, <2>1
  <2> QED BY <2>1
<1>5. 1 \in DOMAIN s
  BY <1>2
<1> HIDE DEF t
<1>6. Has(s, Head(s)) /\ \A x : Has(t, x) => Has(s, x)
  BY <1>1, <1>3, <1>5 DEF Has
<1>7. \A x : Has(s, x) => Has(t, x) \/ x = Head(s)
  BY <1>1, <1>3, <1>4 DEF Has
<1>8. ASSUME NEW x, Once(s, x) PROVE Once(t, x) /\ (x = Head(s) => ~ Has(t, x))
  <2>1. \A i, j \in DOMAIN t : t[i] = x /\ t[j] = x => i = j
    <3>1. ASSUME NEW i \in DOMAIN t, NEW j \in DOMAIN t, t[i] = x, t[j] = x PROVE i + 1 = j + 1
      BY <1>3, <1>8, <3>1 DEF Once
    <3> QED BY <1>3, <3>1
  <2>2. ASSUME x = Head(s), NEW i \in DOMAIN t, t[i] = x PROVE FALSE
    BY <1>1, <1>3, <1>5, <1>8, <2>2 DEF Once
  <2> QED BY <2>1, <2>2 DEF Once, Has
<1> QED BY <1>1, <1>6, <1>7, <1>8 DEF t

\* A functor taken from the front of what runs leaves the line at its front, and one put
\* into the queue enters it at its end.
LEMMA LineMoves ==
  ASSUME NEW S, NEW s \in Seq(S), NEW t \in Seq(S)
  PROVE  /\ s \o t \in Seq(S) /\ <<>> \o t = t /\ t \o <<>> = t
         /\ \A x \in S : s \o Append(t, x) = Append(s \o t, x)
         /\ s # <<>> => /\ s \o t # <<>> /\ Head(s \o t) = Head(s)
                        /\ Tail(s \o t) = Tail(s) \o t
<1>1. s \o t \in Seq(S) /\ Len(s \o t) = Len(s) + Len(t) /\ Len(s) \in Nat /\ Len(t) \in Nat
  BY ConcatProperties, LenProperties
<1>2. <<>> \o t = t /\ t \o <<>> = t
  BY ConcatEmptySeq
<1>3. ASSUME NEW x \in S PROVE s \o Append(t, x) = Append(s \o t, x)
  BY <1>3
<1>4. ASSUME s # <<>> PROVE s \o t # <<>> /\ Head(s \o t) = Head(s) /\ Tail(s \o t) = Tail(s) \o t
  BY <1>4
<1> QED BY <1>1, <1>2, <1>3, <1>4

LEMMA HasBoth ==
  ASSUME NEW S, NEW s \in Seq(S), NEW t \in Seq(S)
  PROVE  \A x : Has(s \o t, x) <=> Has(s, x) \/ Has(t, x)
<1> DEFINE c == s \o t
<1>1. /\ c \in Seq(S) /\ Len(c) = Len(s) + Len(t) /\ Len(s) \in Nat /\ Len(t) \in Nat
      /\ DOMAIN s = 1..Len(s) /\ DOMAIN t = 1..Len(t) /\ DOMAIN c = 1..Len(c)
  BY ConcatProperties, LenProperties
<1>2. \A i \in 1..Len(c) : c[i] = IF i <= Len(s) THEN s[i] ELSE t[i - Len(s)]
  BY ConcatProperties
<1>3. \A i \in DOMAIN s : i \in DOMAIN c /\ c[i] = s[i]
  BY <1>1, <1>2
<1>4. \A i \in DOMAIN t : i + Len(s) \in DOMAIN c /\ c[i + Len(s)] = t[i]
  <2> TAKE i \in DOMAIN t
  <2>1. i + Len(s) \in 1..Len(c) /\ ~ (i + Len(s) <= Len(s)) /\ (i + Len(s)) - Len(s) = i
    BY <1>1
  <2> QED BY <1>1, <1>2, <2>1
<1>5. \A i \in DOMAIN c : \/ i \in DOMAIN s /\ c[i] = s[i]
                          \/ \E j \in DOMAIN t : c[i] = t[j]
  <2> TAKE i \in DOMAIN c
  <2>1. i <= Len(s) => i \in DOMAIN s
    BY <1>1
  <2>2. ~ (i <= Len(s)) => i - Len(s) \in DOMAIN t
    BY <1>1
  <2> QED BY <1>1, <1>2, <2>1, <2>2
<1> HIDE DEF c
<1>6. \A x : Has(c, x) <=> Has(s, x) \/ Has(t, x)
  BY <1>3, <1>4, <1>5 DEF Has
<1> QED BY <1>6 DEF c

LEMMA LineType == ServerTypeOK => line \in [AllLoops -> Seq(Functors)]
<1> SUFFICES ASSUME ServerTypeOK, NEW l \in AllLoops PROVE lp[l].fns \o pend[l] \in Seq(Functors)
  BY DEF line
<1>1. lp[l].fns \in Seq(Functors) /\ pend[l] \in Seq(Functors)
  BY DEF ServerTypeOK, LoopType
<1> QED BY <1>1, LineMoves

\* The lines when l has taken the first functor of its own, and when x was put at the end
\* of the line of k.
TookFrom(l) == [line EXCEPT ![l] = Tail(line[l])]
PutTo(L, k, x) == [L EXCEPT ![k] = Append(L[k], x)]

LEMMA FrontLeaves ==
  ASSUME line \in [AllLoops -> Seq(Functors)], NEW l \in AllLoops, line[l] # <<>>
  PROVE  /\ TookFrom(l) \in [AllLoops -> Seq(Functors)]
         /\ Has(line[l], Head(line[l])) /\ Head(line[l]) \in Functors
         /\ \A m \in AllLoops :
               /\ \A x : Has(TookFrom(l)[m], x) => Has(line[m], x)
               /\ \A x : Has(line[m], x) => Has(TookFrom(l)[m], x) \/ (m = l /\ x = Head(line[l]))
               /\ \A x : Once(line[m], x) => Once(TookFrom(l)[m], x)
               /\ m = l /\ Once(line[m], Head(line[l])) => ~ Has(TookFrom(l)[m], Head(line[l]))
<1>1. /\ Tail(line[l]) \in Seq(Functors) /\ Head(line[l]) \in Functors
      /\ Has(line[l], Head(line[l]))
      /\ \A x : Has(Tail(line[l]), x) => Has(line[l], x)
      /\ \A x : Has(line[l], x) => Has(Tail(line[l]), x) \/ x = Head(line[l])
      /\ \A x : Once(line[l], x) => Once(Tail(line[l]), x)
                                    /\ (x = Head(line[l]) => ~ Has(Tail(line[l]), x))
  <2>1. line[l] \in Seq(Functors)
    OBVIOUS
  <2> QED BY <2>1, HasTail
<1>2. TookFrom(l) \in [AllLoops -> Seq(Functors)]
  BY <1>1 DEF TookFrom
<1>3. ASSUME NEW m \in AllLoops
      PROVE TookFrom(l)[m] = IF m = l THEN Tail(line[l]) ELSE line[m]
  BY <1>3 DEF TookFrom
<1> DEFINE Goal(m) ==
               /\ \A x : Has(TookFrom(l)[m], x) => Has(line[m], x)
               /\ \A x : Has(line[m], x) => Has(TookFrom(l)[m], x) \/ (m = l /\ x = Head(line[l]))
               /\ \A x : Once(line[m], x) => Once(TookFrom(l)[m], x)
               /\ m = l /\ Once(line[m], Head(line[l])) => ~ Has(TookFrom(l)[m], Head(line[l]))
<1>4. Goal(l)
  BY <1>1, <1>3, Zenon
<1>5. ASSUME NEW m \in AllLoops, m # l PROVE Goal(m)
  <2>1. TookFrom(l)[m] = line[m]
    BY <1>3, <1>5
  <2> QED BY <1>5, <2>1, Zenon
<1> QED BY <1>1, <1>2, <1>4, <1>5, Zenon

LEMMA EndGrows ==
  ASSUME NEW L \in [AllLoops -> Seq(Functors)], NEW k \in AllLoops, NEW x \in Functors
  PROVE  /\ PutTo(L, k, x) \in [AllLoops -> Seq(Functors)]
         /\ \A m \in AllLoops :
               /\ \A y : Has(PutTo(L, k, x)[m], y) <=> Has(L[m], y) \/ (m = k /\ y = x)
               /\ \A y : Once(L[m], y) /\ (y # x \/ ~ Has(L[m], y)) => Once(PutTo(L, k, x)[m], y)
<1>1. /\ \A y : Has(Append(L[k], x), y) <=> Has(L[k], y) \/ y = x
      /\ \A y : Once(L[k], y) /\ (y # x \/ ~ Has(L[k], y)) => Once(Append(L[k], x), y)
  BY HasAppend
<1>2. PutTo(L, k, x) \in [AllLoops -> Seq(Functors)]
  BY AppendProperties DEF PutTo
<1>3. ASSUME NEW m \in AllLoops
      PROVE PutTo(L, k, x)[m] = IF m = k THEN Append(L[k], x) ELSE L[m]
  BY <1>3 DEF PutTo
<1> DEFINE Goal(m) ==
               /\ \A y : Has(PutTo(L, k, x)[m], y) <=> Has(L[m], y) \/ (m = k /\ y = x)
               /\ \A y : Once(L[m], y) /\ (y # x \/ ~ Has(L[m], y)) => Once(PutTo(L, k, x)[m], y)
<1>4. Goal(k)
  <2>1. PutTo(L, k, x)[k] = Append(L[k], x)
    BY <1>3
  <2> QED BY <1>1, <2>1, Zenon
<1>5. ASSUME NEW m \in AllLoops, m # k PROVE Goal(m)
  <2>1. PutTo(L, k, x)[m] = L[m]
    BY <1>3, <1>5
  <2> QED BY <1>5, <2>1, Zenon
<1> QED BY <1>2, <1>4, <1>5, Zenon

\* queueInLoop, when what runs is f and the line without the new functor would be L.
LEMMA Queues ==
  ASSUME pend \in [AllLoops -> Seq(Functors)], lp' \in [AllLoops -> LoopType],
         NEW L, L = [m \in AllLoops |-> lp'[m].fns \o pend[m]],
         NEW k \in AllLoops, NEW x \in Functors, queueInLoop(k, x[1], x[2])
  PROVE  pend' \in [AllLoops -> Seq(Functors)] /\ line' = PutTo(L, k, x)
<1>1. x = <<x[1], x[2]>>
  BY DEF Functors, Ops
<1>2. pend' = [pend EXCEPT ![k] = Append(pend[k], x)]
  BY <1>1 DEF queueInLoop
<1>3. pend' \in [AllLoops -> Seq(Functors)]
  BY <1>2, AppendProperties
<1>4. ASSUME NEW m \in AllLoops
      PROVE lp'[m].fns \o pend'[m] = IF m = k THEN Append(L[k], x) ELSE L[m]
  <2>1. lp'[m].fns \in Seq(Functors) /\ pend[m] \in Seq(Functors)
    BY DEF LoopType
  <2>2. lp'[m].fns \o Append(pend[m], x) = Append(lp'[m].fns \o pend[m], x)
    <3> DEFINE s == lp'[m].fns  t == pend[m]
    <3>1. s \in Seq(Functors) /\ t \in Seq(Functors)
      BY <2>1
    <3> HIDE DEF s, t
    <3>2. s \o Append(t, x) = Append(s \o t, x)
      BY <3>1, LineMoves, SMTT(30)
    <3> QED BY <3>2 DEF s, t
  <2> QED BY <1>2, <2>2
<1> QED BY <1>3, <1>4 DEF line, PutTo

\* Run: the functor at the front of the loop's line leaves it.
LEMMA RunEffect ==
  ASSUME ServerTypeOK, NEW l \in AllLoops, NEW op, Run(l, op)
  PROVE  /\ Head(lp[l].fns)[2] \in Clients
         /\ line[l] # <<>> /\ Head(line[l]) = <<op, Head(lp[l].fns)[2]>>
         /\ lp' \in [AllLoops -> LoopType] /\ lp[l].pc = "functors"
         /\ \A m \in AllLoops : lp'[m].pc = lp[m].pc /\ lp'[m].ready = lp[m].ready
         /\ \A m \in AllLoops : lp[m].fns = <<>> => lp'[m].fns = <<>>
         /\ pend' = pend => line' = TookFrom(l)
         /\ \A k \in AllLoops, x \in Functors : queueInLoop(k, x[1], x[2]) =>
               pend' \in [AllLoops -> Seq(Functors)] /\ line' = PutTo(TookFrom(l), k, x)
<1>1. lp[l].fns \in Seq(Functors) /\ pend[l] \in Seq(Functors) /\ lp[l].fns # <<>>
  BY DEF ServerTypeOK, LoopType, Run
<1>2. Head(lp[l].fns) \in Functors /\ Tail(lp[l].fns) \in Seq(Functors)
  BY <1>1, HasTail
<1>3. Head(lp[l].fns) = <<op, Head(lp[l].fns)[2]>> /\ Head(lp[l].fns)[2] \in Clients
  BY <1>2 DEF Run, Functors, Ops
<1>4. lp' = [lp EXCEPT ![l].fns = Tail(lp[l].fns)]
  BY DEF Run
<1>5. /\ lp' \in [AllLoops -> LoopType] /\ lp'[l].fns = Tail(lp[l].fns) /\ lp'[l].pc = lp[l].pc
      /\ lp'[l].ready = lp[l].ready /\ \A m \in AllLoops : m # l => lp'[m] = lp[m]
  <2>1. lp \in [AllLoops -> LoopType]
    BY DEF ServerTypeOK
  <2> DEFINE new == Tail(lp[l].fns)
  <2>2. new \in Seq(Functors) /\ lp' = [lp EXCEPT ![l].fns = new]
    BY <1>2, <1>4
  <2> HIDE DEF new
  <2>3. /\ lp' \in [AllLoops -> LoopType] /\ lp'[l].fns = new /\ lp'[l].pc = lp[l].pc
        /\ lp'[l].ready = lp[l].ready /\ \A m \in AllLoops : m # l => lp'[m] = lp[m]
    BY <2>1, <2>2 DEF LoopType
  <2> QED BY <2>3 DEF new
<1>6. line[l] = lp[l].fns \o pend[l] /\ \A m \in AllLoops : line[m] = lp[m].fns \o pend[m]
  BY DEF line
<1>7. line[l] # <<>> /\ Head(line[l]) = Head(lp[l].fns) /\ Tail(line[l]) = Tail(lp[l].fns) \o pend[l]
  <2> DEFINE s == lp[l].fns  t == pend[l]
  <2>1. s \in Seq(Functors) /\ t \in Seq(Functors) /\ s # <<>> /\ line[l] = s \o t
    BY <1>1, <1>6
  <2> HIDE DEF s, t
  <2>2. line[l] # <<>> /\ Head(line[l]) = Head(s) /\ Tail(line[l]) = Tail(s) \o t
    BY <2>1, LineMoves
  <2> QED BY <2>2 DEF s, t
<1>8. TookFrom(l) = [m \in AllLoops |-> lp'[m].fns \o pend[m]]
  BY <1>5, <1>6, <1>7 DEF TookFrom, line
<1>9. pend \in [AllLoops -> Seq(Functors)]
  BY DEF ServerTypeOK
<1>10. ASSUME NEW k \in AllLoops, NEW x \in Functors, queueInLoop(k, x[1], x[2])
       PROVE  pend' \in [AllLoops -> Seq(Functors)] /\ line' = PutTo(TookFrom(l), k, x)
  BY <1>5, <1>8, <1>9, <1>10, Queues
<1>11. pend' = pend => line' = TookFrom(l)
  BY <1>8 DEF line
<1>12. lp[l].pc = "functors"
  BY DEF Run, At
<1> QED BY <1>1, <1>3, <1>5, <1>7, <1>10, <1>11, <1>12

\* Handle: the lines stay, and the channel is not to be handled any more.
LEMMA HandleEffect ==
  ASSUME ServerTypeOK, NEW l \in AllLoops, NEW ch, Handle(l, ch)
  PROVE  /\ lp' \in [AllLoops -> LoopType] /\ lp[l].pc = "events"
         /\ ch \in lp[l].ready /\ lp'[l].ready = lp[l].ready \ {ch}
         /\ \A m \in AllLoops : lp'[m].pc = lp[m].pc /\ lp'[m].fns = lp[m].fns
         /\ \A m \in AllLoops : m # l => lp'[m].ready = lp[m].ready
         /\ pend' = pend => line' = line
         /\ \A k \in AllLoops, x \in Functors : queueInLoop(k, x[1], x[2]) =>
               pend' \in [AllLoops -> Seq(Functors)] /\ line' = PutTo(line, k, x)
<1>1. lp[l].ready \ {ch} \in SUBSET (0..MaxClients) /\ lp \in [AllLoops -> LoopType]
  BY DEF ServerTypeOK, LoopType
<1>2. lp' = [lp EXCEPT ![l].ready = lp[l].ready \ {ch}]
  BY DEF Handle
<1>3. /\ lp' \in [AllLoops -> LoopType] /\ lp'[l].ready = lp[l].ready \ {ch}
      /\ lp'[l].pc = lp[l].pc /\ lp'[l].fns = lp[l].fns
      /\ \A m \in AllLoops : m # l => lp'[m] = lp[m]
  <2> DEFINE new == lp[l].ready \ {ch}
  <2> HIDE DEF new
  <2> QED BY <1>1, <1>2 DEF LoopType, new
<1>4. line = [m \in AllLoops |-> lp'[m].fns \o pend[m]]
  BY <1>3 DEF line
<1>5. pend \in [AllLoops -> Seq(Functors)]
  BY DEF ServerTypeOK
<1>6. ASSUME NEW k \in AllLoops, NEW x \in Functors, queueInLoop(k, x[1], x[2])
      PROVE  pend' \in [AllLoops -> Seq(Functors)] /\ line' = PutTo(line, k, x)
  BY <1>3, <1>4, <1>5, <1>6, Queues
<1>7. pend' = pend => line' = line
  BY <1>4 DEF line
<1>8. ch \in lp[l].ready /\ lp[l].pc = "events"
  BY DEF Handle, At
<1> QED BY <1>3, <1>6, <1>7, <1>8

\* The steps that change what a loop does change nothing of its type.
LEMMA PcEffect ==
  ASSUME ServerTypeOK, NEW l \in AllLoops,
         NEW v \in {"poll", "events", "functors", "ended"}, lp' = [lp EXCEPT ![l].pc = v]
  PROVE  /\ lp' \in [AllLoops -> LoopType] /\ lp'[l].pc = v
         /\ \A m \in AllLoops : lp'[m].fns = lp[m].fns /\ lp'[m].ready = lp[m].ready
         /\ \A m \in AllLoops : m # l => lp'[m].pc = lp[m].pc
BY DEF ServerTypeOK, LoopType

LEMMA QuitEffect ==
  ASSUME ServerTypeOK, NEW l \in AllLoops, lp' = [lp EXCEPT ![l].quit = TRUE]
  PROVE  /\ lp' \in [AllLoops -> LoopType]
         /\ \A m \in AllLoops : /\ lp'[m].fns = lp[m].fns /\ lp'[m].ready = lp[m].ready
                                /\ lp'[m].pc = lp[m].pc
BY DEF ServerTypeOK, LoopType

LEMMA StartEffect ==
  ASSUME ServerTypeOK, Start
  PROVE  /\ lp' \in [AllLoops -> LoopType]
         /\ \A m \in AllLoops : /\ lp'[m].fns = lp[m].fns /\ lp'[m].ready = lp[m].ready
                                /\ lp'[m].pc = IF m \in Loops \ {0} THEN "poll" ELSE lp[m].pc
<1>1. lp \in [AllLoops -> LoopType]
  BY DEF ServerTypeOK
<1>2. lp' = [m \in AllLoops |-> IF m \in Loops \ {0} THEN [lp[m] EXCEPT !.pc = "poll"] ELSE lp[m]]
  BY <1>1 DEF Start
<1>3. ASSUME NEW m \in AllLoops, m \in Loops \ {0}
      PROVE  /\ lp'[m] \in LoopType /\ lp'[m].fns = lp[m].fns /\ lp'[m].ready = lp[m].ready
             /\ lp'[m].pc = "poll"
  <2>1. lp'[m] = [lp[m] EXCEPT !.pc = "poll"] /\ lp[m] \in LoopType
    BY <1>1, <1>2, <1>3
  <2> QED BY <2>1 DEF LoopType
<1>4. ASSUME NEW m \in AllLoops, ~ (m \in Loops \ {0}) PROVE lp'[m] = lp[m] /\ lp[m] \in LoopType
  BY <1>1, <1>2, <1>4
<1>5. lp' \in [AllLoops -> LoopType]
  BY <1>2, <1>3, <1>4
<1> QED BY <1>3, <1>4, <1>5

\* Poll: what is reported is the acceptor or a connection of the loop that is up.
LEMMA PollEffect ==
  ASSUME ServerTypeOK, NEW l \in AllLoops, Poll(l)
  PROVE  /\ lp' \in [AllLoops -> LoopType] /\ lp[l].pc = "poll" /\ lp'[l].pc = "events"
         /\ \A m \in AllLoops : lp'[m].fns = lp[m].fns
         /\ \A m \in AllLoops : m # l => lp'[m].pc = lp[m].pc /\ lp'[m].ready = lp[m].ready
         /\ \A id \in lp'[l].ready \ {0} : /\ id \in Clients
                                           /\ conn[id].loop = l /\ conn[id].status = "Connected"
<1> DEFINE new == Reported(l)
           mid == [lp EXCEPT ![l].pc = "events"]
<1>1. new \in SUBSET (0..MaxClients)
      /\ \A id \in new \ {0} : id \in Clients /\ conn[id].loop = l /\ conn[id].status = "Connected"
  BY ServerConstants DEF Reported, Clients
<1>2. lp' = [mid EXCEPT ![l].ready = new] /\ lp[l].pc = "poll"
  BY DEF Poll, At
<1> HIDE DEF new
<1>3. /\ mid \in [AllLoops -> LoopType] /\ mid[l].pc = "events"
      /\ \A m \in AllLoops : mid[m].fns = lp[m].fns /\ mid[m].ready = lp[m].ready
      /\ \A m \in AllLoops : m # l => mid[m].pc = lp[m].pc
  BY DEF ServerTypeOK, LoopType
<1> HIDE DEF mid
<1>4. /\ lp' \in [AllLoops -> LoopType] /\ lp'[l].pc = mid[l].pc /\ lp'[l].ready = new
      /\ lp'[l].fns = mid[l].fns /\ \A m \in AllLoops : m # l => lp'[m] = mid[m]
  BY <1>1, <1>2, <1>3 DEF LoopType
<1> QED BY <1>1, <1>2, <1>3, <1>4

LEMMA SwapEffect ==
  ASSUME ServerTypeOK, LinesKept, NEW l \in AllLoops, SwapFunctors(l)
  PROVE  /\ lp' \in [AllLoops -> LoopType] /\ pend' \in [AllLoops -> Seq(Functors)]
         /\ lp[l].pc = "events" /\ lp'[l].pc = "functors" /\ line' = line
         /\ \A m \in AllLoops : lp'[m].ready = lp[m].ready
         /\ \A m \in AllLoops : m # l => lp'[m].pc = lp[m].pc /\ lp'[m].fns = lp[m].fns
<1> DEFINE new == pend[l]
           mid == [lp EXCEPT ![l].pc = "functors"]
<1>1. new \in Seq(Functors) /\ pend' = [pend EXCEPT ![l] = <<>>] /\ lp[l].pc = "events"
  BY DEF ServerTypeOK, SwapFunctors, At
<1>2. lp' = [mid EXCEPT ![l].fns = new]
  BY DEF SwapFunctors
<1> HIDE DEF new
<1>3. /\ mid \in [AllLoops -> LoopType] /\ mid[l].pc = "functors"
      /\ \A m \in AllLoops : mid[m].fns = lp[m].fns /\ mid[m].ready = lp[m].ready
      /\ \A m \in AllLoops : m # l => mid[m].pc = lp[m].pc
  BY DEF ServerTypeOK, LoopType
<1> HIDE DEF mid
<1>4. /\ lp' \in [AllLoops -> LoopType] /\ lp'[l].pc = mid[l].pc /\ lp'[l].fns = new
      /\ lp'[l].ready = mid[l].ready /\ \A m \in AllLoops : m # l => lp'[m] = mid[m]
  BY <1>1, <1>2, <1>3 DEF LoopType
<1>5. pend' \in [AllLoops -> Seq(Functors)]
  BY <1>1, EmptySeq DEF ServerTypeOK
<1>6. lp[l].fns = <<>>
  BY <1>1 DEF LinesKept
<1>7. lp'[l].fns \o pend'[l] = lp[l].fns \o pend[l]
  <2>1. pend'[l] = <<>> /\ lp'[l].fns = new
    BY <1>1, <1>4 DEF ServerTypeOK
  <2>2. new \o <<>> = new /\ <<>> \o new = new
    BY <1>1, ConcatEmptySeq
  <2> QED BY <1>6, <2>1, <2>2 DEF new
<1>8. ASSUME NEW m \in AllLoops, m # l PROVE lp'[m].fns \o pend'[m] = lp[m].fns \o pend[m]
  BY <1>1, <1>3, <1>4, <1>8 DEF ServerTypeOK
<1>9. line' = line
  BY <1>7, <1>8 DEF line
<1> QED BY <1>1, <1>3, <1>4, <1>5, <1>9

\* Destroyed: the end of a connection, whatever its state.
LEMMA DestroyedEffect ==
  ASSUME ServerTypeOK, NEW id \in Clients, Destroyed(id)
  PROVE  /\ conn' \in [Clients -> ConnType]
         /\ conn'[id].destroyed /\ conn'[id].loop = conn[id].loop
         /\ conn'[id].status = IF conn[id].status = "Connected" THEN "Disconnected"
                                                                ELSE conn[id].status
         /\ \A c \in Clients : c # id => conn'[c] = conn[c]
<1> DEFINE new == IF conn[id].status = "Connected" THEN "Disconnected" ELSE conn[id].status
           mid == [conn EXCEPT ![id].destroyed = TRUE]
<1>1. /\ mid \in [Clients -> ConnType] /\ mid[id].destroyed /\ mid[id].loop = conn[id].loop
      /\ mid[id].status = conn[id].status /\ \A c \in Clients : c # id => mid[c] = conn[c]
  BY DEF ServerTypeOK, ConnType
<1>2. new \in {"none", "Connecting", "Connected", "Disconnected"}
  BY DEF ServerTypeOK, ConnType
<1>3. conn' = [mid EXCEPT ![id].status = new]
  BY <1>1 DEF Destroyed
<1> HIDE DEF new, mid
<1>4. /\ conn' \in [Clients -> ConnType] /\ conn'[id].destroyed = mid[id].destroyed
      /\ conn'[id].loop = mid[id].loop /\ conn'[id].status = new
      /\ \A c \in Clients : c # id => conn'[c] = mid[c]
  BY <1>1, <1>2, <1>3 DEF ConnType
<1> QED BY <1>1, <1>4 DEF new

LEMMA StatusEffect ==
  ASSUME ServerTypeOK, NEW id \in Clients, NEW v \in {"Connected", "Disconnected"},
         conn' = [conn EXCEPT ![id].status = v]
  PROVE  /\ conn' \in [Clients -> ConnType] /\ conn'[id].status = v
         /\ conn'[id].loop = conn[id].loop /\ conn'[id].destroyed = conn[id].destroyed
         /\ \A c \in Clients : c # id => conn'[c] = conn[c]
BY DEF ServerTypeOK, ConnType

LEMMA NewConnectionEffect ==
  ASSUME ServerTypeOK, NumbersGiven, Handle(0, 0), Waiting # {}, newConnection(First)
  PROVE  /\ srv.nextConnId \in Clients /\ getNextLoop \in AllLoops
         /\ srv' \in SrvType /\ srv'.nextConnId = srv.nextConnId + 1 /\ srv'.dtor = srv.dtor
         /\ srv'.started = srv.started /\ srv'.threads = srv.threads
         /\ srv'.joining = srv.joining /\ (srv'.next = 0 \/ srv'.next < srv'.threads)
         /\ conn' \in [Clients -> ConnType]
         /\ conn'[srv.nextConnId].loop = getNextLoop
         /\ conn'[srv.nextConnId].status = IF getNextLoop = 0 THEN "Connected" ELSE "Connecting"
         /\ conn'[srv.nextConnId].destroyed = conn[srv.nextConnId].destroyed
         /\ \A c \in Clients : c # srv.nextConnId => conn'[c] = conn[c]
         /\ pend' \in [AllLoops -> Seq(Functors)]
         /\ getNextLoop = 0 => line' = line
         /\ getNextLoop # 0 =>
              line' = PutTo(line, getNextLoop, <<"connectEstablished", srv.nextConnId>>)
         /\ connections' = connections \cup {srv.nextConnId} /\ h' = h
<1> DEFINE id == srv.nextConnId
           l == getNextLoop
           next == IF srv.next + 1 >= srv.threads THEN 0 ELSE srv.next + 1
           up == IF l = 0 THEN "Connected" ELSE "Connecting"
           midSrv == [srv EXCEPT !.nextConnId = id + 1]
           mid == [conn EXCEPT ![id].loop = l]
<1>1. id \in Clients
  BY NumberIsFree
<1>2. srv \in SrvType /\ srv.threads \in 0..MaxThreads /\ srv.next \in Nat /\ id \in Nat
  BY DEF ServerTypeOK, SrvType
<1>3. l \in AllLoops
  BY <1>2, ServerConstants DEF getNextLoop, NumbersGiven, AllLoops
<1>4. next \in Nat /\ (next = 0 \/ next < srv.threads)
  BY <1>2, ServerConstants
<1>5. srv' = [midSrv EXCEPT !.next = next]
  BY <1>2 DEF newConnection, SrvType
<1>6. conn' = [mid EXCEPT ![id].status = up]
  BY DEF newConnection
<1>7. up \in {"Connected", "Connecting"}
  OBVIOUS
<1>8. connections' = connections \cup {id} /\ h' = h
  BY DEF newConnection
<1>9. IF l = 0 THEN pend' = pend ELSE queueInLoop(l, "connectEstablished", id)
  BY DEF newConnection
<1> HIDE DEF l, next, up, id
<1>10. /\ midSrv \in SrvType /\ midSrv.nextConnId = id + 1 /\ midSrv.dtor = srv.dtor
       /\ midSrv.started = srv.started /\ midSrv.threads = srv.threads
       /\ midSrv.joining = srv.joining
  BY <1>2 DEF SrvType
<1>11. /\ mid \in [Clients -> ConnType] /\ mid[id].loop = l
       /\ mid[id].destroyed = conn[id].destroyed /\ \A c \in Clients : c # id => mid[c] = conn[c]
  BY <1>1, <1>3 DEF ServerTypeOK, ConnType
<1> HIDE DEF midSrv, mid
<1>12. /\ srv' \in SrvType /\ srv'.nextConnId = midSrv.nextConnId /\ srv'.dtor = midSrv.dtor
       /\ srv'.started = midSrv.started /\ srv'.threads = midSrv.threads
       /\ srv'.joining = midSrv.joining /\ srv'.next = next
  BY <1>4, <1>5, <1>10 DEF SrvType
<1>13. /\ conn' \in [Clients -> ConnType] /\ conn'[id].loop = mid[id].loop
       /\ conn'[id].status = up /\ conn'[id].destroyed = mid[id].destroyed
       /\ \A c \in Clients : c # id => conn'[c] = mid[c]
  BY <1>1, <1>6, <1>7, <1>11 DEF ConnType
<1>14. /\ pend' \in [AllLoops -> Seq(Functors)]
       /\ l = 0 => line' = line
       /\ l # 0 => line' = PutTo(line, l, <<"connectEstablished", id>>)
  <2>0. 0 \in AllLoops
    BY ServerConstants DEF AllLoops
  <2>1. CASE l = 0
    BY <1>9, <2>0, <2>1, HandleEffect DEF ServerTypeOK
  <2>2. CASE l # 0
    <3> DEFINE x == <<"connectEstablished", id>>
    <3>1. x \in Functors /\ queueInLoop(l, x[1], x[2])
      BY <1>1, <1>9, <2>2 DEF Functors, Ops
    <3> HIDE DEF x
    <3>2. pend' \in [AllLoops -> Seq(Functors)] /\ line' = PutTo(line, l, x)
      BY <1>3, <2>0, <3>1, HandleEffect
    <3> QED BY <2>2, <3>2 DEF x
  <2> QED BY <2>1, <2>2
<1> QED BY <1>1, <1>3, <1>4, <1>8, <1>10, <1>11, <1>12, <1>13, <1>14 DEF id, l, up

-----------------------------------------------------------------------------
(* The type and the numbers are kept by every step *)

ReadyShrinks == \A l \in AllLoops : lp'[l].ready \subseteq lp[l].ready
NumbersStay == /\ srv'.nextConnId = srv.nextConnId /\ srv'.next = srv.next
               /\ srv'.threads = srv.threads
               /\ \A id \in Clients : conn'[id].status = "none" <=> conn[id].status = "none"
               /\ \A k \in Clients : net'.client[k] = "accepted" <=> net.client[k] = "accepted"
               /\ ReadyShrinks

LEMMA NumbersUnchanged == NumbersGiven /\ NumbersStay => NumbersGiven'
<1> SUFFICES ASSUME NumbersGiven, NumbersStay PROVE NumbersGiven'
  OBVIOUS
<1>1. Accepted' = Accepted
  BY DEF NumbersStay, Accepted
<1>2. ASSUME NEW l \in AllLoops, NEW id \in Clients, id \in lp'[l].ready PROVE conn'[id].status # "none"
  BY <1>2 DEF NumbersGiven, NumbersStay, ReadyShrinks
<1> QED BY <1>1, <1>2 DEF NumbersGiven, NumbersStay

\* The count of free descriptors changes, and perhaps that of those taken.
LEMMA FdEffect ==
  ASSUME ServerTypeOK, NEW n \in Nat, NEW t \in Nat,
         net' = [net EXCEPT !.free = n, !.taken = t]
  PROVE  /\ net' \in NetType /\ net'.client = net.client /\ net'.limit = net.limit
         /\ net'.free = n /\ net'.taken = t
<1> DEFINE mid == [net EXCEPT !.free = n]
<1>1. /\ mid \in NetType /\ mid.client = net.client /\ mid.limit = net.limit
      /\ mid.free = n
  BY DEF ServerTypeOK, NetType
<1>2. net' = [mid EXCEPT !.taken = t]
  OBVIOUS
<1> HIDE DEF mid
<1>3. /\ net' \in NetType /\ net'.client = mid.client /\ net'.free = mid.free
      /\ net'.limit = mid.limit /\ net'.taken = t
  BY <1>1, <1>2 DEF NetType
<1> QED BY <1>1, <1>3

LEMMA FreeEffect ==
  ASSUME ServerTypeOK, NEW n \in Nat, net' = [net EXCEPT !.free = n]
  PROVE  /\ net' \in NetType /\ net'.client = net.client /\ net'.limit = net.limit
         /\ net'.free = n /\ net'.taken = net.taken
BY DEF ServerTypeOK, NetType

LEMMA AnswerEffect ==
  ASSUME ServerTypeOK, NEW k \in Clients,
         NEW how \in {"waiting", "accepted", "refused", "left"}, NEW n \in Nat, Answer(k, how, n)
  PROVE  /\ net' \in NetType /\ net'.client = [net.client EXCEPT ![k] = how]
         /\ net'.free = n /\ net'.limit = net.limit /\ net'.taken = net.taken
<1> DEFINE mid == [net EXCEPT !.client[k] = how]
<1>1. /\ mid \in NetType /\ mid.client = [net.client EXCEPT ![k] = how]
      /\ mid.limit = net.limit /\ mid.taken = net.taken
  BY DEF ServerTypeOK, NetType
<1>2. net' = [mid EXCEPT !.free = n]
  BY DEF Answer
<1> HIDE DEF mid
<1>3. /\ net' \in NetType /\ net'.client = mid.client /\ net'.free = n
      /\ net'.limit = mid.limit /\ net'.taken = mid.taken
  BY <1>1, <1>2 DEF NetType
<1> QED BY <1>1, <1>3

LEMMA FailingEffect ==
  ASSUME ServerTypeOK, NEW name \in Names, Failing(name)
  PROVE  /\ h' \in HistoryType /\ h'.failed = h.failed \cup {name}
         /\ h'.dangling = h.dangling /\ h'.outlived = h.outlived
BY DEF ServerTypeOK, Failing, HistoryType

LEMMA UsingEffect ==
  ASSUME ServerTypeOK, NEW name \in Names, Using(name)
  PROVE  /\ h' \in HistoryType /\ h'.failed = h.failed
         /\ h'.dangling = h.dangling \cup {name} /\ h'.outlived = h.outlived
BY DEF ServerTypeOK, Using, HistoryType

\* Removed, of a connection whose place in the lines would be L without its new functor.
LEMMA RemovedEffect ==
  ASSUME ServerTypeOK, NEW id \in Clients, Removed(id)
  PROVE  /\ connections' = connections \ {id} /\ conn[id].loop \in AllLoops
         /\ <<"connectDestroyed", id>> \in Functors
         /\ queueInLoop(conn[id].loop, "connectDestroyed", id)
         /\ h' \in HistoryType
         /\ h'.dangling = h.dangling /\ h'.outlived = h.outlived
         /\ id \in connections => h'.failed = h.failed
<1>1. conn[id].loop \in AllLoops
  BY DEF ServerTypeOK, ConnType
<1>2. CASE id \in connections
  BY <1>1, <1>2 DEF ServerTypeOK, Removed, Functors, Ops
<1>3. CASE id \notin connections
  <2>1. Failing("removeConnectionInLoop")
    BY <1>3 DEF Removed
  <2>2. h' \in HistoryType /\ h'.dangling = h.dangling /\ h'.outlived = h.outlived
    BY <2>1, FailingEffect DEF Names
  <2> QED BY <1>1, <1>3, <2>2 DEF Removed, Functors, Ops
<1> QED BY <1>2, <1>3

LEMMA TypeNext ==
  ServerTypeOK /\ NumbersGiven /\ LinesKept /\ [Next]_vars => ServerTypeOK' /\ NumbersGiven'
<1> SUFFICES ASSUME ServerTypeOK, NumbersGiven, LinesKept, [Next]_vars
             PROVE  ServerTypeOK' /\ NumbersGiven'
  OBVIOUS
<1> DEFINE Goal == ServerTypeOK' /\ NumbersGiven'
<1>0. 0 \in AllLoops
  BY ServerConstants DEF AllLoops
<1>a. /\ srv \in SrvType /\ acc \in AccType /\ net \in NetType /\ connections \subseteq Clients
      /\ conn \in [Clients -> ConnType] /\ lp \in [AllLoops -> LoopType]
      /\ pend \in [AllLoops -> Seq(Functors)]
      /\ h \in HistoryType
  BY DEF ServerTypeOK
<1>b. UNCHANGED <<srv, conn>> /\ net'.client = net.client /\ ReadyShrinks => NumbersGiven'
  BY NumbersUnchanged DEF NumbersStay
<1>c. UNCHANGED lp => ReadyShrinks
  BY DEF ReadyShrinks
<1>1. CASE Start
  <2>1. /\ srv' \in SrvType /\ srv'.nextConnId = srv.nextConnId /\ srv'.next = srv.next
        /\ srv'.threads = srv.threads /\ UNCHANGED <<connections, conn, acc, net, pend, h>>
    BY <1>a, <1>1 DEF Start, SrvType
  <2> QED BY <1>a, <1>1, <2>1, StartEffect, NumbersUnchanged DEF ServerTypeOK, NumbersStay, ReadyShrinks
<1>2. CASE Quit
  <2>1. lp' = [lp EXCEPT ![0].quit = TRUE] /\ UNCHANGED <<srv, connections, conn, acc, net, pend, h>>
    BY <1>2 DEF Quit
  <2> QED BY <1>0, <1>b, <2>1, QuitEffect DEF ServerTypeOK, ReadyShrinks
<1>3. CASE DtorBegin
  <2>1. /\ srv' = [srv EXCEPT !.dtor = "connections"]
        /\ h' = [h EXCEPT !.outlived = lp[0].pc # "ended"]
        /\ UNCHANGED <<connections, conn, acc, net, lp, pend>>
    BY <1>3 DEF DtorBegin
  <2>2. /\ srv' \in SrvType /\ srv'.nextConnId = srv.nextConnId /\ srv'.next = srv.next
        /\ srv'.threads = srv.threads
    BY <1>a, <2>1 DEF SrvType
  <2>3. h' \in HistoryType
    BY <1>a, <2>1 DEF HistoryType
  <2> QED BY <1>c, <2>1, <2>2, <2>3, NumbersUnchanged DEF ServerTypeOK, NumbersStay
<1>4. CASE BeginLoop
  <2> DEFINE v == IF lp[0].quit THEN "ended" ELSE "poll"
  <2>1. /\ v \in {"poll", "ended"} /\ lp' = [lp EXCEPT ![0].pc = v]
        /\ UNCHANGED <<srv, connections, conn, acc, net, pend, h>>
    BY <1>4 DEF BeginLoop
  <2> HIDE DEF v
  <2>2. lp' \in [AllLoops -> LoopType] /\ ReadyShrinks
    BY <1>0, <2>1, PcEffect DEF ReadyShrinks
  <2> QED BY <1>b, <2>1, <2>2 DEF ServerTypeOK
<1>5. CASE Accept
  <2>1. Handle(0, 0) /\ lp' \in [AllLoops -> LoopType] /\ ReadyShrinks
    BY <1>0, <1>5, HandleEffect DEF Accept, ReadyShrinks
  <2>2. CASE Answer(First, "accepted", net.free - 1) /\ newConnection(First) /\ UNCHANGED acc
             /\ net.free > 0 /\ Waiting # {}
    <3>1. First \in Clients /\ net.free - 1 \in Nat
      BY <1>a, <2>2, FirstWaits DEF Waiting, NetType
    <3>2. net' \in NetType /\ net'.client = [net.client EXCEPT ![First] = "accepted"]
      BY <2>2, <3>1, AnswerEffect
    <3>3. Cardinality(Accepted') = srv.nextConnId
      BY <2>2, <3>2, NumberIsFree DEF Accepted
    <3>4. ServerTypeOK'
      BY <2>1, <2>2, <3>2, NewConnectionEffect DEF ServerTypeOK
    <3>5. \A id \in Clients : conn'[id].status # "none" <=> id < srv'.nextConnId
      <4>1. /\ srv.nextConnId \in Clients /\ srv'.nextConnId = srv.nextConnId + 1
            /\ conn'[srv.nextConnId].status # "none"
            /\ \A c \in Clients : c # srv.nextConnId => conn'[c] = conn[c]
        BY <2>1, <2>2, NewConnectionEffect
      <4>2. \A c \in Clients : c < srv.nextConnId + 1 <=> c < srv.nextConnId \/ c = srv.nextConnId
        BY <4>1, ServerConstants DEF Clients
      <4> QED BY <4>1, <4>2 DEF NumbersGiven
    <3>6. srv'.nextConnId = Cardinality(Accepted') + 1 /\ (srv'.next = 0 \/ srv'.next < srv'.threads)
      BY <2>1, <2>2, <3>3, NewConnectionEffect
    <3>7. ASSUME NEW m \in AllLoops, NEW id \in Clients, id \in lp'[m].ready PROVE conn'[id].status # "none"
      <4>1. conn[id].status # "none"
        BY <2>1, <3>7 DEF NumbersGiven, ReadyShrinks
      <4> QED BY <2>1, <2>2, <4>1, NewConnectionEffect
    <3> QED BY <3>4, <3>5, <3>6, <3>7 DEF NumbersGiven
  <2>3. CASE UNCHANGED <<srv, connections, conn, net, pend, h>>
    <3>1. acc' \in AccType
      BY <1>5, <1>a, <2>3 DEF Accept, AccType
    <3> QED BY <1>b, <2>1, <2>3, <3>1 DEF ServerTypeOK
  <2> QED BY <1>5, <2>2, <2>3 DEF Accept
<1>6. CASE AcceptorGone
  <2>1. /\ lp' \in [AllLoops -> LoopType] /\ ReadyShrinks
        /\ UNCHANGED <<srv, connections, conn, acc, net, pend>>
    BY <1>0, <1>6, HandleEffect DEF AcceptorGone, ReadyShrinks
  <2>2. h' \in HistoryType
    BY <1>6, UsingEffect DEF AcceptorGone, Names
  <2> QED BY <1>b, <2>1, <2>2 DEF ServerTypeOK
<1>7. CASE AcceptFatal
  <2>1. /\ lp' \in [AllLoops -> LoopType] /\ ReadyShrinks
        /\ UNCHANGED <<srv, connections, conn, acc, net, pend>>
    BY <1>0, <1>7, HandleEffect DEF AcceptFatal, ReadyShrinks
  <2>2. h' \in HistoryType
    BY <1>7, FailingEffect DEF AcceptFatal, Names
  <2> QED BY <1>b, <2>1, <2>2 DEF ServerTypeOK
<1>8. ASSUME CloseIdle \/ CloseAgain PROVE Goal
  <2>1. /\ acc' \in AccType /\ UNCHANGED <<srv, connections, conn, lp, pend, h>>
    BY <1>8, <1>a DEF CloseIdle, CloseAgain, Syscall, AccType
  <2>2. PICK n \in Nat : net' = [net EXCEPT !.free = n]
    BY <1>8, <1>a DEF CloseIdle, CloseAgain, NetType
  <2> QED BY <1>b, <1>c, <2>1, <2>2, FreeEffect DEF ServerTypeOK
<1>9. CASE AcceptIdle
  <2>1. acc' \in AccType /\ UNCHANGED <<srv, connections, conn, lp, pend, h>>
    BY <1>9 DEF AcceptIdle, AccType
  <2>2. CASE net.free > 0 /\ Waiting # {}
    <3>1. First \in Clients /\ net.client[First] = "waiting" /\ net.free - 1 \in Nat
      BY <1>a, <2>2, FirstWaits DEF Waiting, NetType
    <3>2. net' \in NetType /\ net'.client = [net.client EXCEPT ![First] = "refused"]
      BY <1>9, <2>2, <3>1, AnswerEffect DEF AcceptIdle
    <3>3. NumbersStay
      BY <1>a, <1>c, <2>1, <3>1, <3>2 DEF NumbersStay, NetType
    <3> QED BY <2>1, <3>2, <3>3, NumbersUnchanged DEF ServerTypeOK
  <2>3. CASE ~ (net.free > 0 /\ Waiting # {})
    BY <1>9, <1>b, <1>c, <2>1, <2>3 DEF AcceptIdle, ServerTypeOK
  <2> QED BY <2>2, <2>3
<1>10. CASE OpenIdle
  <2>1. acc' \in AccType /\ UNCHANGED <<srv, connections, conn, lp, pend, h>>
    BY <1>10 DEF OpenIdle, AccType
  <2> DEFINE n == IF net.free > 0 THEN net.free - 1 ELSE net.free
  <2>2. n \in Nat /\ net' = [net EXCEPT !.free = n]
    BY <1>10, <1>a DEF OpenIdle, NetType
  <2> HIDE DEF n
  <2> QED BY <1>b, <1>c, <2>1, <2>2, FreeEffect DEF ServerTypeOK
<1>11. CASE DtorConnection
  <2>1. PICK id \in connections :
           /\ connections' = connections \ {id}
           /\ IF conn[id].loop = 0
                THEN Destroyed(id) /\ UNCHANGED pend
                ELSE queueInLoop(conn[id].loop, "connectDestroyed", id) /\ UNCHANGED conn
    BY <1>11 DEF DtorConnection
  <2>2. UNCHANGED <<srv, lp, acc, net, h>>
    BY <1>11 DEF DtorConnection, DtorStep
  <2>3. id \in Clients
    BY <1>a
  <2>4. CASE conn[id].loop = 0
    <3>1. conn' \in [Clients -> ConnType] /\ NumbersStay
      BY <1>c, <2>1, <2>2, <2>3, <2>4, DestroyedEffect DEF NumbersStay
    <3> QED BY <1>a, <2>1, <2>2, <2>4, <3>1, NumbersUnchanged DEF ServerTypeOK
  <2>5. CASE conn[id].loop # 0
    <3> DEFINE x == <<"connectDestroyed", id>>
    <3>1. x \in Functors /\ queueInLoop(conn[id].loop, x[1], x[2]) /\ conn[id].loop \in AllLoops
      BY <1>a, <2>1, <2>3, <2>5 DEF Functors, Ops, ConnType
    <3>2. line = [m \in AllLoops |-> lp'[m].fns \o pend[m]]
      BY <2>2 DEF line
    <3> HIDE DEF x
    <3>3. pend' \in [AllLoops -> Seq(Functors)]
      BY <1>a, <2>2, <3>1, <3>2, Queues
    <3> QED BY <1>a, <1>b, <1>c, <2>1, <2>2, <2>5, <3>3 DEF ServerTypeOK
  <2> QED BY <2>4, <2>5
<1>12. ASSUME DtorPool \/ JoinThread PROVE Goal
  <2>1. /\ srv' \in SrvType /\ srv'.nextConnId = srv.nextConnId /\ srv'.next = srv.next
        /\ srv'.threads = srv.threads
    <3>1. CASE DtorPool
      BY <3>1, <1>a DEF DtorPool, SrvType
    <3>2. CASE JoinThread
      <4> DEFINE n == srv.joining + 1
      <4>1. n \in Nat /\ srv' = [srv EXCEPT !.joining = n]
        BY <3>2, <1>a DEF JoinThread, SrvType
      <4> HIDE DEF n
      <4> QED BY <4>1, <1>a DEF SrvType
    <3> QED BY <1>12, <3>1, <3>2
  <2>2. UNCHANGED <<connections, conn, acc, net, lp, pend, h>>
    BY <1>12 DEF DtorPool, JoinThread, DtorStep
  <2> QED BY <1>c, <2>1, <2>2, NumbersUnchanged DEF ServerTypeOK, NumbersStay
<1>29. CASE DtorDone
  <2>1. /\ srv' \in SrvType /\ srv'.nextConnId = srv.nextConnId /\ srv'.next = srv.next
        /\ srv'.threads = srv.threads /\ acc' \in AccType
    BY <1>29, <1>a DEF DtorDone, SrvType, AccType
  <2>2. UNCHANGED <<connections, conn, lp, pend, h>>
    BY <1>29 DEF DtorDone
  <2> DEFINE n == IF acc.idleFd = "devnull" THEN net.free + 1 ELSE net.free
  <2>3. n \in Nat /\ net' = [net EXCEPT !.free = n]
    BY <1>29, <1>a DEF DtorDone, NetType
  <2> HIDE DEF n
  <2>4. net' \in NetType /\ net'.client = net.client
    BY <2>3, FreeEffect
  <2> QED BY <1>a, <1>c, <2>1, <2>2, <2>4, NumbersUnchanged DEF ServerTypeOK, NumbersStay
<1>13. CASE QuitThread
  <2>1. srv.joining \in AllLoops
    BY <1>13, <1>a, ServerConstants DEF QuitThread, Joining, SrvType, AllLoops
  <2>2. /\ lp' = [lp EXCEPT ![srv.joining].quit = TRUE]
        /\ UNCHANGED <<srv, connections, conn, acc, net, pend, h>>
    BY <1>13 DEF QuitThread, DtorStep
  <2> QED BY <1>b, <2>1, <2>2, QuitEffect DEF ServerTypeOK, ReadyShrinks
<1>14. ASSUME ClientConnects \/ ClientLeaves PROVE Goal
  <2>1. PICK k \in Clients : \/ Answer(k, "waiting", net.free) /\ net.client[k] = "away"
                             \/ Answer(k, "left", net.free) /\ net.client[k] = "waiting"
    BY <1>14 DEF ClientConnects, ClientLeaves, Waiting
  <2>2. UNCHANGED <<srv, connections, conn, acc, lp, pend, h>> /\ net.free \in Nat
    BY <1>14, <1>a DEF ClientConnects, ClientLeaves, Client, Environment, NetType
  <2>3. /\ net' \in NetType
        /\ \/ net'.client = [net.client EXCEPT ![k] = "waiting"]
           \/ net'.client = [net.client EXCEPT ![k] = "left"]
    BY <2>1, <2>2, AnswerEffect
  <2>4. NumbersStay
    BY <1>a, <1>c, <2>1, <2>2, <2>3 DEF NumbersStay, NetType
  <2> QED BY <2>2, <2>3, <2>4, NumbersUnchanged DEF ServerTypeOK
<1>15. CASE PeerCloses
  <2>1. PICK id \in Clients : conn' = [conn EXCEPT ![id].gone = TRUE]
    BY <1>15 DEF PeerCloses
  <2>2. conn' \in [Clients -> ConnType] /\ \A c \in Clients : conn'[c].status = conn[c].status
    BY <1>a, <2>1 DEF ConnType
  <2>3. UNCHANGED <<srv, connections, acc, net, lp, pend, h>>
    BY <1>15 DEF PeerCloses, Environment
  <2> QED BY <1>c, <2>2, <2>3, NumbersUnchanged DEF ServerTypeOK, NumbersStay
<1>16. CASE TakeFd
  <2>1. net' = [net EXCEPT !.free = net.free - 1, !.taken = net.taken + 1]
        /\ net.free - 1 \in Nat /\ net.taken + 1 \in Nat
    BY <1>16, <1>a DEF TakeFd, NetType
  <2>2. /\ h' \in HistoryType
        /\ UNCHANGED <<srv, connections, conn, acc, lp, pend>>
    BY <1>16, <1>a DEF TakeFd, Environment, HistoryType
  <2> QED BY <1>b, <1>c, <2>1, <2>2, FdEffect DEF ServerTypeOK
<1>17. CASE GiveFd
  <2>1. net' = [net EXCEPT !.free = net.free + 1, !.taken = net.taken - 1]
        /\ net.free + 1 \in Nat /\ net.taken - 1 \in Nat
    BY <1>17, <1>a DEF GiveFd, NetType
  <2>2. UNCHANGED <<srv, connections, conn, acc, lp, pend, h>>
    BY <1>17 DEF GiveFd, Environment
  <2> QED BY <1>b, <1>c, <2>1, <2>2, FdEffect DEF ServerTypeOK
<1>18. CASE removeConnectionInLoop
  <2> DEFINE id == Head(lp[0].fns)[2]
  <2>1. Run(0, "removeConnectionInLoop") /\ UNCHANGED <<srv, conn, acc, net>>
    BY <1>18 DEF removeConnectionInLoop, Run
  <2>2. id \in Clients /\ lp' \in [AllLoops -> LoopType] /\ ReadyShrinks
    BY <1>0, <2>1, RunEffect DEF ReadyShrinks
  <2>3. CASE Exists
    <3>1. Removed(id)
      BY <1>18, <2>3 DEF removeConnectionInLoop
    <3> HIDE DEF id
    <3> DEFINE x == <<"connectDestroyed", id>>
    <3>2. x \in Functors /\ queueInLoop(conn[id].loop, x[1], x[2]) /\ conn[id].loop \in AllLoops
      BY <2>2, <3>1, RemovedEffect
    <3> HIDE DEF x
    <3>3. pend' \in [AllLoops -> Seq(Functors)]
      BY <1>0, <2>1, <3>2, RunEffect
    <3>4. connections' \subseteq Clients
      BY <1>a, <2>2, <3>1, RemovedEffect
    <3> QED BY <1>b, <2>1, <2>2, <3>1, <3>3, <3>4, RemovedEffect DEF ServerTypeOK
  <2>4. CASE ~ Exists
    <3>1. Using("server") /\ UNCHANGED <<connections, pend>>
      BY <1>18, <2>4 DEF removeConnectionInLoop
    <3>2. h' \in HistoryType
      BY <3>1, UsingEffect DEF Names
    <3> QED BY <1>b, <2>1, <2>2, <3>1, <3>2 DEF ServerTypeOK
  <2> QED BY <2>3, <2>4
<1>19. ASSUME NEW l \in AllLoops, Poll(l) PROVE Goal
  <2>1. /\ UNCHANGED <<srv, connections, conn, acc, net, pend, h>>
        /\ lp' \in [AllLoops -> LoopType]
    BY <1>19, PollEffect DEF Poll
  <2>2. ASSUME NEW m \in AllLoops, NEW id \in Clients, id \in lp'[m].ready PROVE conn'[id].status # "none"
    <3>1. id # 0
      BY ServerConstants DEF Clients
    <3> QED BY <1>19, <2>1, <2>2, <3>1, PollEffect DEF NumbersGiven
  <2>3. Accepted' = Accepted
    BY <2>1 DEF Accepted
  <2> QED BY <2>1, <2>2, <2>3 DEF ServerTypeOK, NumbersGiven
<1>20. ASSUME NEW l \in AllLoops, SwapFunctors(l) PROVE Goal
  <2>1. UNCHANGED <<srv, connections, conn, acc, net, h>>
    BY <1>20 DEF SwapFunctors
  <2>2. /\ lp' \in [AllLoops -> LoopType] /\ pend' \in [AllLoops -> Seq(Functors)]
        /\ ReadyShrinks
    BY <1>20, SwapEffect DEF ReadyShrinks
  <2> QED BY <1>b, <2>1, <2>2 DEF ServerTypeOK
<1>21. ASSUME NEW l \in AllLoops, FunctorsDone(l) PROVE Goal
  <2> DEFINE v == IF lp[l].quit THEN "ended" ELSE "poll"
  <2>1. /\ v \in {"poll", "ended"} /\ lp' = [lp EXCEPT ![l].pc = v]
        /\ UNCHANGED <<srv, connections, conn, acc, net, pend, h>>
    BY <1>21 DEF FunctorsDone
  <2> HIDE DEF v
  <2>2. lp' \in [AllLoops -> LoopType] /\ ReadyShrinks
    BY <2>1, PcEffect DEF ReadyShrinks
  <2> QED BY <1>b, <2>1, <2>2 DEF ServerTypeOK
<1>22. ASSUME NEW l \in AllLoops, connectEstablished(l) PROVE Goal
  <2> DEFINE id == Head(lp[l].fns)[2]
  <2>1. /\ Run(l, "connectEstablished") /\ UNCHANGED <<srv, acc, net, connections, pend>>
    BY <1>22 DEF connectEstablished, Run
  <2>2. id \in Clients /\ lp' \in [AllLoops -> LoopType] /\ ReadyShrinks
    BY <2>1, RunEffect DEF ReadyShrinks
  <2>3. CASE conn[id].status = "Connecting"
    <3>1. conn' = [conn EXCEPT ![id].status = "Connected"] /\ h' = h
      BY <1>22, <2>3 DEF connectEstablished
    <3> HIDE DEF id
    <3>2. conn' \in [Clients -> ConnType] /\ NumbersStay
      BY <2>1, <2>2, <2>3, <3>1, StatusEffect DEF NumbersStay
    <3> QED BY <2>1, <2>2, <3>1, <3>2, NumbersUnchanged DEF ServerTypeOK
  <2>4. CASE conn[id].status # "Connecting"
    <3>1. Failing("connectEstablished") /\ UNCHANGED conn
      BY <1>22, <2>4 DEF connectEstablished
    <3>2. h' \in HistoryType
      BY <3>1, FailingEffect DEF Names
    <3> QED BY <1>b, <2>1, <2>2, <3>1, <3>2 DEF ServerTypeOK
  <2> QED BY <2>3, <2>4
<1>23. ASSUME NEW l \in AllLoops, connectDestroyed(l) PROVE Goal
  <2> DEFINE id == Head(lp[l].fns)[2]
  <2>1. /\ Run(l, "connectDestroyed") /\ UNCHANGED <<srv, acc, net, connections, pend, h>>
        /\ Destroyed(id)
    BY <1>23 DEF connectDestroyed, Run
  <2>2. id \in Clients /\ lp' \in [AllLoops -> LoopType] /\ ReadyShrinks
    BY <2>1, RunEffect DEF ReadyShrinks
  <2> HIDE DEF id
  <2>3. conn' \in [Clients -> ConnType] /\ NumbersStay
    BY <2>1, <2>2, DestroyedEffect DEF NumbersStay
  <2> QED BY <2>1, <2>2, <2>3, NumbersUnchanged DEF ServerTypeOK
<1>24. ASSUME NEW l \in AllLoops, handleClose(l) PROVE Goal
  <2>1. PICK id \in lp[l].ready \ {0} :
           /\ Handle(l, id)
           /\ conn' = [conn EXCEPT ![id].status = "Disconnected"]
           /\ CASE ~ Exists -> Using("server") /\ UNCHANGED <<connections, pend>>
                [] Exists /\ l = 0 -> Removed(id)
                [] Exists /\ l # 0 -> queueInLoop(0, "removeConnectionInLoop", id)
                                      /\ UNCHANGED <<connections, h>>
    BY <1>24 DEF handleClose
  <2>2. UNCHANGED <<srv, acc, net>>
    BY <1>24 DEF handleClose
  <2>3. id \in Clients /\ lp' \in [AllLoops -> LoopType] /\ ReadyShrinks
    <3>1. id \in 0..MaxClients /\ id # 0
      BY <1>a, <2>1 DEF LoopType
    <3> QED BY <2>1, <3>1, ServerConstants, HandleEffect DEF Clients, ReadyShrinks
  <2>4. conn' \in [Clients -> ConnType]
    BY <2>1, <2>3, StatusEffect
  <2>5. NumbersStay
    <3>1. conn[id].status # "none"
      BY <2>1, <2>3 DEF NumbersGiven
    <3> QED BY <2>1, <2>2, <2>3, <3>1, StatusEffect DEF NumbersStay
  <2>6. CASE ~ Exists
    <3>1. Using("server") /\ UNCHANGED <<connections, pend>>
      BY <2>1, <2>6
    <3>2. h' \in HistoryType
      BY <3>1, UsingEffect DEF Names
    <3> QED BY <2>2, <2>3, <2>4, <2>5, <3>1, <3>2, NumbersUnchanged DEF ServerTypeOK
  <2>7. CASE Exists /\ l = 0
    <3>1. Removed(id)
      BY <2>1, <2>7
    <3> DEFINE x == <<"connectDestroyed", id>>
    <3>2. x \in Functors /\ queueInLoop(conn[id].loop, x[1], x[2]) /\ conn[id].loop \in AllLoops
      BY <2>3, <3>1, RemovedEffect
    <3> HIDE DEF x
    <3>3. pend' \in [AllLoops -> Seq(Functors)]
      BY <2>1, <3>2, HandleEffect
    <3>4. connections' \subseteq Clients
      BY <1>a, <2>3, <3>1, RemovedEffect
    <3> QED BY <2>2, <2>3, <2>4, <2>5, <3>1, <3>3, <3>4, RemovedEffect, NumbersUnchanged DEF ServerTypeOK
  <2>8. CASE Exists /\ l # 0
    <3> DEFINE x == <<"removeConnectionInLoop", id>>
    <3>1. /\ x \in Functors /\ queueInLoop(0, x[1], x[2])
          /\ UNCHANGED <<connections, h>>
      BY <2>1, <2>3, <2>8 DEF Functors, Ops
    <3> HIDE DEF x
    <3>2. pend' \in [AllLoops -> Seq(Functors)]
      BY <1>0, <2>1, <3>1, HandleEffect
    <3> QED BY <2>2, <2>3, <2>4, <2>5, <3>1, <3>2, NumbersUnchanged DEF ServerTypeOK
  <2> QED BY <2>6, <2>7, <2>8
<1>25. CASE UNCHANGED vars
  BY <1>25, <1>b, <1>c DEF vars, ServerTypeOK
<1>26. ASSUME NEW l \in AllLoops, LoopStep(l) PROVE Goal
  BY <1>19, <1>20, <1>21, <1>22, <1>23, <1>24, <1>26 DEF LoopStep
<1>27. CASE BaseStep
  BY <1>0, <1>4, <1>5, <1>6, <1>8, <1>9, <1>10, <1>11, <1>12, <1>13, <1>18, <1>26, <1>27,
     <1>29 DEF BaseStep
<1>28. \A l \in 1..MaxThreads : l \in AllLoops
  BY ServerConstants DEF AllLoops
<1> QED
  BY <1>1, <1>2, <1>3, <1>7, <1>14, <1>15, <1>16, <1>17, <1>25, <1>26, <1>27, <1>28 DEF Next

-----------------------------------------------------------------------------
(* The threads of the pool and the destructor *)

SrvStays == /\ srv'.started = srv.started /\ srv'.threads = srv.threads
            /\ srv'.joining = srv.joining /\ srv'.dtor = srv.dtor
            /\ h'.outlived = h.outlived
PcsStay == \A l \in AllLoops : lp'[l].pc = lp[l].pc
\* Loop l goes on, from a place where its thread runs.
PcMoves(l) == /\ lp[l].pc \notin {"none", "ended"} /\ lp'[l].pc # "none"
              /\ \A m \in AllLoops : m # l => lp'[m].pc = lp[m].pc

LEMMA ThreadsGoOn ==
  ASSUME ServerTypeOK, ThreadsOver, SrvStays, NEW l \in AllLoops, PcsStay \/ PcMoves(l)
  PROVE  ThreadsOver'
<1>1. /\ \A m \in AllLoops : m = 0 \/ m \in 1..MaxThreads
      /\ \A m \in 1..MaxThreads : m \in AllLoops /\ m # 0
      /\ 0 \in AllLoops
  BY ServerConstants DEF AllLoops
<1>2. CASE PcsStay
  BY <1>1, <1>2 DEF ThreadsOver, SrvStays, PcsStay, Joining
<1>3. CASE PcMoves(l)
  <2>1. ASSUME NEW m \in 1..MaxThreads, ~ srv.started \/ m > srv.threads PROVE lp'[m].pc = "none"
    BY <1>1, <1>3, <2>1 DEF ThreadsOver, PcMoves
  <2>2. ASSUME NEW m \in 1..MaxThreads, m < srv.joining PROVE lp'[m].pc \in {"none", "ended"}
    BY <1>1, <1>3, <2>2 DEF ThreadsOver, PcMoves
  <2>3. srv.dtor # "no" /\ ~ h.outlived => lp'[0].pc = "ended"
    BY <1>1, <1>3 DEF ThreadsOver, PcMoves
  <2> QED BY <2>1, <2>2, <2>3 DEF ThreadsOver, SrvStays, Joining
<1> QED BY <1>2, <1>3

LEMMA ThreadsInit == Init => ThreadsOver /\ NoThreadOutlivesServer
<1> SUFFICES ASSUME Init PROVE ThreadsOver /\ NoThreadOutlivesServer
  OBVIOUS
<1>1. srv.joining = 1 /\ ~ srv.started /\ srv.dtor = "no" /\ h.dangling = {}
  BY DEF Init
<1>2. \A l \in 1..MaxThreads : lp[l].pc = "none"
  BY DEF Init
<1> QED BY <1>1, <1>2 DEF ThreadsOver, NoThreadOutlivesServer

LEMMA ThreadsNext == ServerTypeOK /\ NumbersGiven /\ LinesKept /\ ThreadsOver /\ [Next]_vars => ThreadsOver'
<1> SUFFICES ASSUME ServerTypeOK, NumbersGiven, LinesKept, ThreadsOver, [Next]_vars PROVE ThreadsOver'
  OBVIOUS
<1>0. /\ 0 \in AllLoops /\ \A l \in 1..MaxThreads : l \in AllLoops /\ l # 0
      /\ AllLoops = 0..MaxThreads
  BY ServerConstants DEF AllLoops
<1>a. /\ srv \in SrvType /\ lp \in [AllLoops -> LoopType] /\ h \in HistoryType
      /\ srv.threads \in 0..MaxThreads /\ srv.joining \in Nat
  BY DEF ServerTypeOK, SrvType
<1>b. SrvStays /\ PcsStay => ThreadsOver'
  BY <1>0, ThreadsGoOn
<1>c. UNCHANGED <<srv, h>> => SrvStays
  BY DEF SrvStays
<1>d. UNCHANGED lp => PcsStay
  BY DEF PcsStay
<1>1. CASE Start
  <2>1. /\ srv'.started /\ srv'.threads = srv.threads /\ srv'.joining = srv.joining
        /\ srv'.dtor = srv.dtor /\ ~ srv.started /\ srv.dtor # "done" /\ h' = h
    BY <1>1, <1>a DEF Start, Exists, SrvType
  <2>2. srv.joining <= 1
    BY <1>a, <2>1 DEF ThreadsOver
  <2>3. \A m \in 1..MaxThreads : m > srv.threads => lp'[m].pc = "none"
    <3> SUFFICES ASSUME NEW m \in 1..MaxThreads, m > srv.threads PROVE lp'[m].pc = "none"
      OBVIOUS
    <3>1. m \notin Loops
      BY <1>a, ServerConstants DEF Loops
    <3> QED BY <1>0, <1>1, <2>1, <3>1, StartEffect DEF ThreadsOver
  <2>4. lp'[0].pc = lp[0].pc
    BY <1>0, <1>1, StartEffect
  <2> QED BY <1>a, <2>1, <2>2, <2>3, <2>4 DEF ThreadsOver, Joining
<1>2. CASE DtorBegin
  <2>1. /\ srv'.started = srv.started /\ srv'.threads = srv.threads /\ srv'.joining = srv.joining
        /\ srv'.dtor = "connections" /\ lp' = lp /\ h'.outlived = (lp[0].pc # "ended")
    BY <1>2, <1>a DEF DtorBegin, SrvType, HistoryType
  <2> QED BY <2>1 DEF ThreadsOver
<1>3. ASSUME DtorPool \/ DtorDone PROVE ThreadsOver'
  <2>1. /\ srv'.started = srv.started /\ srv'.threads = srv.threads /\ srv'.joining = srv.joining
        /\ srv.dtor # "no" /\ lp' = lp /\ h' = h
        /\ srv'.dtor = "pool" \/ (srv'.dtor = "done" /\ ~ Joining)
    BY <1>3, <1>a DEF DtorPool, DtorDone, DtorStep, SrvType
  <2> QED BY <2>1 DEF ThreadsOver, Joining
<1>4. CASE JoinThread
  <2>1. /\ srv'.started = srv.started /\ srv'.threads = srv.threads
        /\ srv'.joining = srv.joining + 1 /\ srv'.dtor = srv.dtor /\ srv.dtor = "pool"
        /\ lp' = lp /\ h' = h /\ srv.started /\ lp[srv.joining].pc = "ended"
    BY <1>4, <1>a DEF JoinThread, DtorStep, Joining, SrvType
  <2>2. \A m \in 1..MaxThreads : m < srv.joining + 1 => m < srv.joining \/ m = srv.joining
    BY <1>a, ServerConstants
  <2> QED BY <2>1, <2>2 DEF ThreadsOver
<1>5. CASE BeginLoop
  <2> DEFINE v == IF lp[0].quit THEN "ended" ELSE "poll"
  <2>1. /\ v \in {"poll", "ended"} /\ lp' = [lp EXCEPT ![0].pc = v] /\ lp[0].pc = "setup"
        /\ UNCHANGED <<srv, h>>
    BY <1>5 DEF BeginLoop, At
  <2> HIDE DEF v
  <2>2. PcMoves(0)
    BY <1>0, <2>1, PcEffect DEF PcMoves
  <2> QED BY <1>0, <1>c, <2>1, <2>2, ThreadsGoOn
<1>6. CASE Accept
  <2>1. Handle(0, 0) /\ PcsStay
    BY <1>0, <1>6, HandleEffect DEF Accept, PcsStay
  <2>2. SrvStays
    <3>1. CASE newConnection(First) /\ Waiting # {}
      BY <2>1, <3>1, NewConnectionEffect DEF SrvStays
    <3>2. CASE UNCHANGED <<srv, h>>
      BY <1>c, <3>2
    <3> QED BY <1>6, <3>1, <3>2 DEF Accept
  <2> QED BY <1>b, <2>1, <2>2
<1>7. ASSUME AcceptorGone \/ AcceptFatal PROVE ThreadsOver'
  <2>1. Handle(0, 0) /\ srv' = srv
    BY <1>7 DEF AcceptorGone, AcceptFatal
  <2>2. PcsStay
    BY <1>0, <2>1, HandleEffect DEF PcsStay
  <2>3. h'.outlived = h.outlived
    BY <1>7, <1>a DEF AcceptorGone, AcceptFatal, Using, Failing, HistoryType
  <2> QED BY <1>b, <2>1, <2>2, <2>3 DEF SrvStays
<1>8. ASSUME CloseIdle \/ CloseAgain \/ AcceptIdle \/ OpenIdle \/ ClientConnects \/ ClientLeaves
             \/ PeerCloses \/ GiveFd \/ TakeFd \/ UNCHANGED vars
      PROVE ThreadsOver'
  <2>1. srv' = srv /\ lp' = lp
    BY <1>8 DEF CloseIdle, CloseAgain, AcceptIdle, OpenIdle, Syscall, ClientConnects, ClientLeaves,
                Client, PeerCloses, GiveFd, TakeFd, Environment, vars
  <2>2. h'.outlived = h.outlived
    BY <1>8, <1>a DEF CloseIdle, CloseAgain, AcceptIdle, OpenIdle, Syscall, ClientConnects,
                ClientLeaves, Client, PeerCloses, GiveFd, TakeFd, Environment, vars, HistoryType
  <2> QED BY <1>b, <1>d, <2>1, <2>2 DEF SrvStays
<1>9. CASE Quit
  <2>1. lp' = [lp EXCEPT ![0].quit = TRUE] /\ UNCHANGED <<srv, h>>
    BY <1>9 DEF Quit
  <2> QED BY <1>0, <1>b, <1>c, <2>1, QuitEffect DEF PcsStay
<1>10. CASE QuitThread
  <2>1. srv.joining \in AllLoops
    BY <1>10, <1>a, ServerConstants DEF QuitThread, Joining, AllLoops
  <2>2. lp' = [lp EXCEPT ![srv.joining].quit = TRUE] /\ UNCHANGED <<srv, h>>
    BY <1>10 DEF QuitThread, DtorStep
  <2> QED BY <1>b, <1>c, <2>1, <2>2, QuitEffect DEF PcsStay
<1>11. CASE DtorConnection
  <2>1. UNCHANGED <<srv, lp, h>>
    BY <1>11 DEF DtorConnection, DtorStep
  <2> QED BY <1>b, <1>c, <1>d, <2>1
<1>12. CASE removeConnectionInLoop
  <2>1. Run(0, "removeConnectionInLoop") /\ srv' = srv
    BY <1>12 DEF removeConnectionInLoop, Run
  <2>2. PcsStay
    BY <1>0, <2>1, RunEffect DEF PcsStay
  <2>3. h'.outlived = h.outlived
    BY <1>12, <1>a DEF removeConnectionInLoop, Removed, Using, Failing, HistoryType
  <2> QED BY <1>b, <2>1, <2>2, <2>3 DEF SrvStays
<1>13. ASSUME NEW l \in AllLoops, LoopStep(l) PROVE ThreadsOver'
  <2>1. CASE Poll(l)
    BY <1>c, <2>1, PollEffect, ThreadsGoOn DEF PcMoves, Poll
  <2>2. CASE SwapFunctors(l)
    BY <1>c, <2>2, SwapEffect, ThreadsGoOn DEF PcMoves, SwapFunctors
  <2>3. CASE FunctorsDone(l)
    <3> DEFINE v == IF lp[l].quit THEN "ended" ELSE "poll"
    <3>1. /\ v \in {"poll", "ended"} /\ lp' = [lp EXCEPT ![l].pc = v] /\ lp[l].pc = "functors"
          /\ UNCHANGED <<srv, h>>
      BY <2>3 DEF FunctorsDone, At
    <3> HIDE DEF v
    <3>2. PcMoves(l)
      BY <3>1, PcEffect DEF PcMoves
    <3> QED BY <1>c, <3>1, <3>2, ThreadsGoOn
  <2>4. CASE connectEstablished(l)
    <3>1. Run(l, "connectEstablished") /\ srv' = srv
      BY <2>4 DEF connectEstablished, Run
    <3>2. PcsStay
      BY <3>1, RunEffect DEF PcsStay
    <3>3. h'.outlived = h.outlived
      BY <2>4, <1>a DEF connectEstablished, Failing, HistoryType
    <3> QED BY <1>b, <3>1, <3>2, <3>3 DEF SrvStays
  <2>5. CASE connectDestroyed(l)
    <3>1. Run(l, "connectDestroyed") /\ UNCHANGED <<srv, h>>
      BY <2>5 DEF connectDestroyed, Run
    <3> QED BY <1>b, <1>c, <3>1, RunEffect DEF PcsStay
  <2>6. CASE handleClose(l)
    <3>1. PICK id : Handle(l, id) /\ srv' = srv
      BY <2>6 DEF handleClose
    <3>2. PcsStay
      BY <3>1, HandleEffect DEF PcsStay
    <3>3. h'.outlived = h.outlived
      BY <2>6, <1>a DEF handleClose, Removed, Using, Failing, HistoryType, Exists
    <3> QED BY <1>b, <3>1, <3>2, <3>3 DEF SrvStays
  <2> QED BY <1>13, <2>1, <2>2, <2>3, <2>4, <2>5, <2>6 DEF LoopStep
<1>14. CASE BaseStep
  BY <1>0, <1>3, <1>4, <1>5, <1>6, <1>7, <1>8, <1>10, <1>11, <1>12, <1>13, <1>14 DEF BaseStep
<1> QED BY <1>0, <1>1, <1>2, <1>7, <1>8, <1>9, <1>13, <1>14 DEF Next

-----------------------------------------------------------------------------
(* What runs after ~TcpServer runs on the base loop, and what is queued stays in line *)

LEMMA LinesNext == ServerTypeOK /\ LinesKept /\ ThreadsOver /\ [Next]_vars => LinesKept'
<1> SUFFICES ASSUME ServerTypeOK, LinesKept, ThreadsOver, [Next]_vars PROVE LinesKept'
  OBVIOUS
<1> DEFINE FnsStay == \A l \in AllLoops : /\ lp'[l].fns = lp[l].fns
                                          /\ lp'[l].pc = lp[l].pc \/ lp[l].fns = <<>>
<1>0. 0 \in AllLoops /\ \A l \in 1..MaxThreads : l \in AllLoops
  BY ServerConstants DEF AllLoops
<1>a. FnsStay => LinesKept'
  BY DEF LinesKept
<1>b. UNCHANGED lp => FnsStay
  OBVIOUS
<1>c. \A l \in AllLoops : lp[l].pc # "functors" => lp[l].fns = <<>>
  BY DEF LinesKept
<1> HIDE DEF FnsStay
<1>1. CASE Start
  <2>1. \A m \in Loops \ {0} : m \in AllLoops => lp[m].pc = "none"
    BY <1>1, ServerConstants DEF Start, ThreadsOver, AllLoops
  <2> QED BY <1>1, <1>a, <1>c, <2>1, StartEffect DEF FnsStay
<1>2. CASE BeginLoop
  <2> DEFINE v == IF lp[0].quit THEN "ended" ELSE "poll"
  <2>1. v \in {"poll", "ended"} /\ lp' = [lp EXCEPT ![0].pc = v] /\ lp[0].pc = "setup"
    BY <1>2 DEF BeginLoop, At
  <2> HIDE DEF v
  <2> QED BY <1>0, <1>a, <1>c, <2>1, PcEffect DEF FnsStay
<1>3. ASSUME Accept \/ AcceptorGone \/ AcceptFatal PROVE LinesKept'
  <2>1. Handle(0, 0)
    BY <1>3 DEF Accept, AcceptorGone, AcceptFatal
  <2> QED BY <1>0, <1>a, <2>1, HandleEffect DEF FnsStay
<1>4. ASSUME UNCHANGED lp PROVE LinesKept'
  BY <1>4, <1>a, <1>b
<1>5. ASSUME Quit \/ QuitThread PROVE LinesKept'
  <2>1. PICK m \in AllLoops : lp' = [lp EXCEPT ![m].quit = TRUE]
    <3>1. QuitThread => srv.joining \in AllLoops
      BY ServerConstants DEF QuitThread, Joining, AllLoops, ServerTypeOK, SrvType
    <3> QED BY <1>0, <1>5, <3>1 DEF Quit, QuitThread
  <2> QED BY <1>a, <2>1, QuitEffect DEF FnsStay
<1>6. ASSUME NEW l \in AllLoops, NEW op, Run(l, op) PROVE LinesKept'
  BY <1>6, RunEffect DEF LinesKept
<1>7. ASSUME NEW l \in AllLoops, LoopStep(l) PROVE LinesKept'
  <2>1. CASE Poll(l)
    BY <1>a, <1>c, <2>1, PollEffect DEF FnsStay
  <2>2. CASE SwapFunctors(l)
    BY <2>2, SwapEffect DEF LinesKept
  <2>3. CASE FunctorsDone(l)
    <3> DEFINE v == IF lp[l].quit THEN "ended" ELSE "poll"
    <3>1. v \in {"poll", "ended"} /\ lp' = [lp EXCEPT ![l].pc = v] /\ lp[l].fns = <<>>
      BY <2>3 DEF FunctorsDone
    <3> HIDE DEF v
    <3> QED BY <1>a, <3>1, PcEffect DEF FnsStay
  <2>4. CASE connectEstablished(l) \/ connectDestroyed(l)
    BY <1>6, <2>4 DEF connectEstablished, connectDestroyed
  <2>5. CASE handleClose(l)
    <3>1. PICK id : Handle(l, id)
      BY <2>5 DEF handleClose
    <3> QED BY <1>a, <3>1, HandleEffect DEF FnsStay
  <2> QED BY <1>7, <2>1, <2>2, <2>3, <2>4, <2>5 DEF LoopStep
<1>8. CASE removeConnectionInLoop
  BY <1>0, <1>6, <1>8 DEF removeConnectionInLoop
<1>9. ASSUME \/ CloseIdle \/ AcceptIdle \/ CloseAgain \/ OpenIdle \/ DtorConnection \/ DtorPool
             \/ JoinThread \/ DtorDone \/ DtorBegin \/ ClientConnects \/ ClientLeaves \/ PeerCloses
             \/ TakeFd \/ GiveFd \/ UNCHANGED vars
      PROVE LinesKept'
  BY <1>4, <1>9 DEF CloseIdle, CloseAgain, AcceptIdle, OpenIdle, Syscall, DtorConnection, DtorPool,
     JoinThread, DtorDone, DtorBegin, ClientConnects, ClientLeaves, Client, PeerCloses, TakeFd,
     GiveFd, Environment, vars
<1>10. CASE BaseStep
  BY <1>0, <1>2, <1>3, <1>5, <1>7, <1>8, <1>9, <1>10 DEF BaseStep
<1> QED BY <1>0, <1>1, <1>3, <1>5, <1>7, <1>9, <1>10 DEF Next

\* A thread of the pool does not run any more when the destructor is through.
LEMMA OnlyTheBaseRuns ==
  ASSUME ServerTypeOK, ThreadsOver, ~ Exists, NEW l \in AllLoops,
         lp[l].pc \in {"events", "functors"}
  PROVE  h.outlived
<1>1. srv.dtor = "done" /\ ~ Joining /\ srv.threads \in 0..MaxThreads /\ srv.joining \in Nat
  BY DEF Exists, ThreadsOver, ServerTypeOK, SrvType
<1>2. CASE l = 0
  BY <1>1, <1>2 DEF ThreadsOver, ServerTypeOK, HistoryType
<1>3. CASE l # 0
  <2>1. l \in 1..MaxThreads
    BY <1>3, ServerConstants DEF AllLoops
  <2>2. srv.started /\ ~ (l > srv.threads) /\ ~ (l < srv.joining)
    BY <2>1 DEF ThreadsOver
  <2> QED BY <1>1, <2>1, <2>2, ServerConstants DEF Joining
<1> QED BY <1>2, <1>3

LEMMA OutlivedNext ==
  ServerTypeOK /\ ThreadsOver /\ NoThreadOutlivesServer /\ [Next]_vars => NoThreadOutlivesServer'
<1> SUFFICES ASSUME ServerTypeOK, ThreadsOver, NoThreadOutlivesServer, [Next]_vars
             PROVE  NoThreadOutlivesServer'
  OBVIOUS
<1>0. 0 \in AllLoops /\ \A l \in 1..MaxThreads : l \in AllLoops
  BY ServerConstants DEF AllLoops
<1>a. h.dangling' = h.dangling /\ h.outlived' = h.outlived => NoThreadOutlivesServer'
  BY DEF NoThreadOutlivesServer
<1>b. h \in HistoryType
  BY DEF ServerTypeOK
<1>c. ASSUME NEW what, Using(what) PROVE h'.outlived = h.outlived
  BY <1>b, <1>c DEF Using, HistoryType
<1>d. ASSUME NEW name, Failing(name) PROVE NoThreadOutlivesServer'
  BY <1>a, <1>b, <1>d DEF Failing, HistoryType
<1>e. ASSUME UNCHANGED h PROVE NoThreadOutlivesServer'
  BY <1>a, <1>e
<1>1. CASE DtorBegin
  <2>1. h.dangling = {} /\ h' = [h EXCEPT !.outlived = lp[0].pc # "ended"]
    BY <1>1 DEF DtorBegin, Alive
  <2>2. h'.dangling = {}
    BY <1>b, <2>1 DEF HistoryType
  <2> QED BY <2>2 DEF NoThreadOutlivesServer
<1>2. CASE AcceptorGone
  <2>1. Handle(0, 0) /\ ~ Exists /\ Using("acceptor")
    BY <1>2 DEF AcceptorGone
  <2>2. h.outlived
    BY <1>0, <2>1, HandleEffect, OnlyTheBaseRuns
  <2> QED BY <1>c, <2>1, <2>2 DEF NoThreadOutlivesServer
<1>3. CASE AcceptFatal
  BY <1>3, <1>d DEF AcceptFatal
<1>4. CASE removeConnectionInLoop
  <2>1. CASE Exists
    BY <1>4, <1>d, <1>e, <2>1 DEF removeConnectionInLoop, Removed
  <2>2. CASE ~ Exists
    <3>1. Run(0, "removeConnectionInLoop") /\ Using("server")
      BY <1>4, <2>2 DEF removeConnectionInLoop
    <3>2. h.outlived
      BY <1>0, <2>2, <3>1, RunEffect, OnlyTheBaseRuns
    <3> QED BY <1>c, <3>1, <3>2 DEF NoThreadOutlivesServer
  <2> QED BY <2>1, <2>2
<1>5. ASSUME NEW l \in AllLoops, LoopStep(l) PROVE NoThreadOutlivesServer'
  <2>1. CASE handleClose(l)
    <3>1. CASE Exists
      BY <1>d, <1>e, <2>1, <3>1 DEF handleClose, Removed
    <3>2. CASE ~ Exists
      <4>1. PICK id : Handle(l, id) /\ Using("server")
        BY <2>1, <3>2 DEF handleClose
      <4>2. h.outlived
        BY <3>2, <4>1, HandleEffect, OnlyTheBaseRuns
      <4> QED BY <1>c, <4>1, <4>2 DEF NoThreadOutlivesServer
    <3> QED BY <3>1, <3>2
  <2>2. CASE connectEstablished(l)
    BY <1>d, <1>e, <2>2 DEF connectEstablished
  <2>3. CASE Poll(l) \/ SwapFunctors(l) \/ FunctorsDone(l) \/ connectDestroyed(l)
    BY <1>e, <2>3 DEF Poll, SwapFunctors, FunctorsDone, connectDestroyed
  <2> QED BY <1>5, <2>1, <2>2, <2>3 DEF LoopStep
<1>6. CASE TakeFd
  BY <1>6, <1>a, <1>b DEF TakeFd, HistoryType
<1>7. ASSUME \/ CloseIdle \/ AcceptIdle \/ CloseAgain \/ OpenIdle \/ DtorConnection \/ DtorPool
             \/ JoinThread \/ DtorDone \/ QuitThread \/ Quit \/ Start \/ BeginLoop \/ Accept
             \/ ClientConnects \/ ClientLeaves \/ PeerCloses \/ GiveFd \/ UNCHANGED vars
      PROVE NoThreadOutlivesServer'
  <2>1. UNCHANGED h
    BY <1>7 DEF CloseIdle, CloseAgain, AcceptIdle, OpenIdle, Syscall, DtorConnection, DtorPool,
       JoinThread, DtorDone, DtorStep, QuitThread, Quit, Start, BeginLoop, Accept, newConnection,
       ClientConnects, ClientLeaves, Client, PeerCloses, GiveFd, Environment, vars
  <2> QED BY <1>e, <2>1
<1>8. CASE BaseStep
  BY <1>0, <1>2, <1>4, <1>5, <1>7, <1>8 DEF BaseStep
<1> QED BY <1>0, <1>1, <1>3, <1>5, <1>6, <1>7, <1>8 DEF Next

-----------------------------------------------------------------------------
(* The descriptors *)

\* The number of descriptors, counted by the numbers given to connections; the destructor
\* does not run inside handleRead.
DescriptorsCounted ==
  /\ net.free + net.taken + (srv.nextConnId - 1)
       + (IF \/ acc.pc \in {"idle", "closeIdle"} /\ acc.idleFd = "devnull"
             \/ acc.pc = "closeAgain" /\ acc.idleFd = "client" THEN 1 ELSE 0) = net.limit + 1
  /\ srv.dtor # "no" => acc.pc = "idle"

LEMMA CountedInit == Init => DescriptorsCounted
<1> SUFFICES ASSUME Init PROVE DescriptorsCounted
  OBVIOUS
<1>1. PICK n \in 0..MaxFd : net = [client |-> [k \in Clients |-> "away"], limit |-> n, free |-> n, taken |-> 0]
  BY DEF Init
<1> QED BY <1>1, ServerConstants DEF Init, DescriptorsCounted

LEMMA CountedNext ==
  ServerTypeOK /\ NumbersGiven /\ DescriptorsCounted /\ [Next]_vars => DescriptorsCounted'
<1> SUFFICES ASSUME ServerTypeOK, NumbersGiven, DescriptorsCounted, [Next]_vars
             PROVE  DescriptorsCounted'
  OBVIOUS
<1>0. 0 \in AllLoops
  BY ServerConstants DEF AllLoops
<1>a. /\ net \in NetType /\ acc \in AccType /\ srv \in SrvType
      /\ net.free \in Nat /\ net.taken \in Nat /\ net.limit \in Nat /\ srv.nextConnId \in Nat
  BY DEF ServerTypeOK, NetType, SrvType
<1>b. /\ srv'.nextConnId = srv.nextConnId /\ acc' = acc
      /\ srv'.dtor = srv.dtor \/ acc.pc = "idle"
      /\ net'.free = net.free /\ net'.taken = net.taken /\ net'.limit = net.limit
      => DescriptorsCounted'
  BY DEF DescriptorsCounted
<1>1. CASE Accept
  <2>1. CASE /\ net.free > 0 /\ Waiting # {} /\ Answer(First, "accepted", net.free - 1)
             /\ newConnection(First) /\ UNCHANGED acc
    <3>1. First \in Clients /\ net.free - 1 \in Nat
      BY <1>a, <2>1, FirstWaits DEF Waiting
    <3>2. net'.free = net.free - 1 /\ net'.limit = net.limit /\ net'.taken = net.taken
      BY <2>1, <3>1, AnswerEffect
    <3>3. srv'.nextConnId = srv.nextConnId + 1 /\ srv'.dtor = srv.dtor
      BY <1>1, <2>1, NewConnectionEffect DEF Accept
    <3> QED BY <1>a, <2>1, <3>2, <3>3 DEF DescriptorsCounted
  <2>2. CASE UNCHANGED <<srv, net, acc>>
    BY <1>b, <2>2
  <2>3. CASE acc' = [acc EXCEPT !.pc = "closeIdle"] /\ UNCHANGED <<srv, net>>
    <3>1. /\ acc.pc = "idle" /\ acc'.pc = "closeIdle" /\ acc'.idleFd = acc.idleFd
          /\ srv.dtor = "no"
      BY <1>1, <1>a, <2>3 DEF Accept, Handle, At, BaseFree, Exists, AccType
    <3> QED BY <2>3, <3>1 DEF DescriptorsCounted
  <2> QED BY <1>1, <2>1, <2>2, <2>3 DEF Accept
<1>2. CASE CloseIdle
  <2> DEFINE n == IF acc.idleFd = "devnull" THEN net.free + 1 ELSE net.free
  <2>1. /\ acc.pc = "closeIdle" /\ acc'.pc = "acceptIdle" /\ srv' = srv
        /\ n \in Nat /\ net' = [net EXCEPT !.free = n]
    BY <1>2, <1>a DEF CloseIdle, Syscall, AccType, NetType
  <2>2. net'.free = n /\ net'.taken = net.taken /\ net'.limit = net.limit
    <3> HIDE DEF n
    <3> QED BY <2>1, FreeEffect
  <2> QED BY <1>a, <2>1, <2>2 DEF DescriptorsCounted
<1>3. CASE AcceptIdle
  <2>1. CASE net.free > 0 /\ Waiting # {}
    <3>1. First \in Clients /\ net.free - 1 \in Nat
      BY <1>a, <2>1, FirstWaits DEF Waiting
    <3>2. net'.free = net.free - 1 /\ net'.limit = net.limit /\ net'.taken = net.taken
      BY <1>3, <2>1, <3>1, AnswerEffect DEF AcceptIdle
    <3>3. /\ acc.pc = "acceptIdle" /\ acc'.pc = "closeAgain" /\ acc'.idleFd = "client"
          /\ srv' = srv
      BY <1>3, <2>1 DEF AcceptIdle
    <3> QED BY <1>a, <2>1, <3>2, <3>3 DEF DescriptorsCounted
  <2>2. CASE ~ (net.free > 0 /\ Waiting # {})
    <3>1. /\ acc.pc = "acceptIdle" /\ acc'.pc = "closeAgain" /\ acc'.idleFd = "none"
          /\ srv' = srv /\ net' = net
      BY <1>3, <2>2 DEF AcceptIdle
    <3> QED BY <1>a, <3>1 DEF DescriptorsCounted
  <2> QED BY <2>1, <2>2
<1>4. CASE CloseAgain
  <2> DEFINE n == IF acc.idleFd = "client" THEN net.free + 1 ELSE net.free
  <2>1. /\ acc.pc = "closeAgain" /\ acc'.pc = "openIdle" /\ srv' = srv
        /\ n \in Nat /\ net' = [net EXCEPT !.free = n]
    BY <1>4, <1>a DEF CloseAgain, Syscall, AccType, NetType
  <2>2. net'.free = n /\ net'.taken = net.taken /\ net'.limit = net.limit
    <3> HIDE DEF n
    <3> QED BY <2>1, FreeEffect
  <2> QED BY <1>a, <2>1, <2>2 DEF DescriptorsCounted
<1>5. CASE OpenIdle
  <2> DEFINE n == IF net.free > 0 THEN net.free - 1 ELSE net.free
  <2>1. /\ acc.pc = "openIdle" /\ acc'.pc = "idle" /\ srv' = srv
        /\ acc'.idleFd = IF net.free > 0 THEN "devnull" ELSE "none"
        /\ n \in Nat /\ net' = [net EXCEPT !.free = n]
    BY <1>5, <1>a DEF OpenIdle, NetType
  <2>2. net'.free = n /\ net'.taken = net.taken /\ net'.limit = net.limit
    <3> HIDE DEF n
    <3> QED BY <2>1, FreeEffect
  <2> QED BY <1>a, <2>1, <2>2 DEF DescriptorsCounted
<1>6. ASSUME ClientConnects \/ ClientLeaves PROVE DescriptorsCounted'
  <2>1. PICK k \in Clients : Answer(k, "waiting", net.free) \/ Answer(k, "left", net.free)
    BY <1>6 DEF ClientConnects, ClientLeaves, Waiting
  <2>2. srv' = srv /\ acc' = acc
    BY <1>6 DEF ClientConnects, ClientLeaves, Client, Environment
  <2>3. net'.free = net.free /\ net'.taken = net.taken /\ net'.limit = net.limit
    BY <1>a, <2>1, AnswerEffect
  <2> QED BY <1>b, <2>2, <2>3
<1>7. CASE TakeFd
  <2>1. net' = [net EXCEPT !.free = net.free - 1, !.taken = net.taken + 1]
        /\ net.free - 1 \in Nat /\ net.taken + 1 \in Nat /\ srv' = srv /\ acc' = acc
    BY <1>7, <1>a DEF TakeFd, Environment
  <2>2. net'.free = net.free - 1 /\ net'.taken = net.taken + 1 /\ net'.limit = net.limit
    BY <2>1, FdEffect
  <2> QED BY <1>a, <2>1, <2>2 DEF DescriptorsCounted
<1>8. CASE GiveFd
  <2>1. net' = [net EXCEPT !.free = net.free + 1, !.taken = net.taken - 1]
        /\ net.free + 1 \in Nat /\ net.taken - 1 \in Nat /\ srv' = srv /\ acc' = acc
    BY <1>8, <1>a DEF GiveFd, Environment
  <2>2. net'.free = net.free + 1 /\ net'.taken = net.taken - 1 /\ net'.limit = net.limit
    BY <2>1, FdEffect
  <2> QED BY <1>a, <2>1, <2>2 DEF DescriptorsCounted
<1>9. ASSUME \/ Start \/ Quit \/ DtorBegin \/ BeginLoop \/ removeConnectionInLoop \/ AcceptorGone
             \/ AcceptFatal \/ DtorConnection \/ DtorPool \/ QuitThread \/ JoinThread
             \/ PeerCloses \/ UNCHANGED vars \/ \E l \in AllLoops : LoopStep(l)
      PROVE DescriptorsCounted'
  <2>1. acc' = acc /\ net' = net
    BY <1>9 DEF Start, Quit, DtorBegin, BeginLoop, removeConnectionInLoop, Run, AcceptorGone,
       AcceptFatal, DtorConnection, DtorPool, QuitThread, JoinThread, DtorStep, PeerCloses,
       Environment, vars, LoopStep, Poll, SwapFunctors, FunctorsDone, connectEstablished,
       connectDestroyed, handleClose
  <2>2. srv'.nextConnId = srv.nextConnId
    BY <1>9, <1>a DEF Start, Quit, DtorBegin, BeginLoop, removeConnectionInLoop, Run, AcceptorGone,
       AcceptFatal, DtorConnection, DtorPool, QuitThread, JoinThread, PeerCloses,
       Environment, vars, LoopStep, Poll, SwapFunctors, FunctorsDone, connectEstablished,
       connectDestroyed, handleClose, SrvType
  <2>3. srv'.dtor = srv.dtor \/ acc.pc = "idle"
    <3>1. DtorPool => acc.pc = "idle"
      BY DEF DtorPool, DtorStep, DescriptorsCounted
    <3> QED BY <1>9, <1>a, <3>1 DEF Start, Quit, DtorBegin, BaseFree, BeginLoop,
       removeConnectionInLoop, Run, AcceptorGone, AcceptFatal, DtorConnection, QuitThread,
       JoinThread, PeerCloses, Environment, vars, LoopStep, Poll, SwapFunctors, FunctorsDone,
       connectEstablished, connectDestroyed, handleClose, SrvType
  <2> QED BY <1>b, <2>1, <2>2, <2>3
<1>12. CASE DtorDone
  <2> DEFINE n == IF acc.idleFd = "devnull" THEN net.free + 1 ELSE net.free
  <2>1. /\ acc.pc = "idle" /\ acc'.pc = "idle" /\ acc'.idleFd = "none"
        /\ srv'.nextConnId = srv.nextConnId
        /\ n \in Nat /\ net' = [net EXCEPT !.free = n]
    BY <1>12, <1>a DEF DtorDone, DescriptorsCounted, AccType, NetType, SrvType
  <2>2. net'.free = n /\ net'.taken = net.taken /\ net'.limit = net.limit
    <3> HIDE DEF n
    <3> QED BY <2>1, FreeEffect
  <2> QED BY <1>a, <2>1, <2>2 DEF DescriptorsCounted
<1>10. \A l \in 1..MaxThreads : l \in AllLoops
  BY ServerConstants DEF AllLoops
<1>11. CASE BaseStep
  BY <1>0, <1>1, <1>2, <1>3, <1>4, <1>5, <1>9, <1>11, <1>12 DEF BaseStep
<1> QED BY <1>6, <1>7, <1>8, <1>9, <1>10, <1>11 DEF Next

-----------------------------------------------------------------------------
(* The way of a connection from the base loop to its own, and back *)

LEMMA LifeInit == Init => ServerLife
<1> SUFFICES ASSUME Init PROVE ServerLife
  OBVIOUS
<1>1. /\ srv.dtor = "no" /\ connections = {} /\ h.failed = {}
      /\ \A id \in Clients : conn[id].status = "none" /\ ~ conn[id].destroyed
      /\ \A l \in AllLoops : lp[l].ready = {} /\ lp[l].fns = <<>> /\ pend[l] = <<>>
  BY DEF Init, AllLoops
<1>2. \A l \in AllLoops : \A x : ~ Has(line[l], x) /\ Once(line[l], x)
  <2> TAKE l \in AllLoops
  <2>1. line[l] = <<>>
    BY <1>1, ConcatEmptySeq, EmptySeq DEF line
  <2> QED BY <2>1 DEF Has, Once
<1>3. 0 \in AllLoops
  BY ServerConstants DEF AllLoops
<1> QED BY <1>1, <1>2, <1>3 DEF ServerLife, Story, Way, ReadyIsUp, Ops

\* Steps after which each connection is where it was.
ConnStays(id) == /\ conn'[id].status = conn[id].status /\ conn'[id].loop = conn[id].loop
                 /\ conn'[id].destroyed = conn[id].destroyed

LEMMA LifeStays ==
  ASSUME ServerTypeOK, ServerLife, line' = line, connections' = connections,
         \A id \in Clients : ConnStays(id), srv'.dtor = srv.dtor \/ srv'.dtor # "no",
         "removeConnectionInLoop" \notin h'.failed,
         \A l \in AllLoops : \A id \in lp'[l].ready \ {0} :
            id \in lp[l].ready \/ (id \in Clients /\ conn[id].status = "Connected" /\ conn[id].loop = l)
  PROVE  ServerLife'
<1>1. ASSUME NEW id \in Clients PROVE Story(id)'
  <2>1. Story(id) /\ ConnStays(id) /\ (srv'.dtor = "no" => srv.dtor = "no")
    BY DEF ServerLife
  <2>2. srv'.dtor = "no" => Way(id)'
    BY <2>1 DEF Story, Way, ConnStays
  <2> QED BY <2>1, <2>2 DEF Story, ConnStays
<1>2. ReadyIsUp'
  <2> SUFFICES ASSUME srv'.dtor = "no", NEW l \in AllLoops, NEW id \in lp'[l].ready \ {0}
               PROVE  conn'[id].status = "Connected" /\ conn'[id].loop = l
    BY DEF ReadyIsUp
  <2>1. conn[id].status = "Connected" /\ conn[id].loop = l
    BY DEF ServerLife, ReadyIsUp
  <2>2. id \in Clients
    <3>1. lp[l].ready \subseteq 0..MaxClients
      BY DEF ServerTypeOK, LoopType
    <3> QED BY <3>1, ServerConstants DEF Clients
  <2> QED BY <2>1, <2>2 DEF ConnStays
<1> QED BY <1>1, <1>2 DEF ServerLife

\* What is in the lines when a functor was put to the line of k, and when the loop l has
\* taken its first.
PutIn(L, M, k, x) ==
  \A m \in AllLoops :
     /\ \A y : Has(M[m], y) <=> Has(L[m], y) \/ (m = k /\ y = x)
     /\ \A y : Once(L[m], y) /\ (y # x \/ ~ Has(L[m], y)) => Once(M[m], y)
TakenFrom(L, M, l, x) ==
  /\ Has(L[l], x)
  /\ \A m \in AllLoops :
        /\ \A y : Has(M[m], y) => Has(L[m], y)
        /\ \A y : Has(L[m], y) => Has(M[m], y) \/ (m = l /\ y = x)
        /\ \A y : Once(L[m], y) => Once(M[m], y)
        /\ m = l /\ Once(L[m], x) => ~ Has(M[m], x)

LEMMA PutIsIn ==
  ASSUME NEW L \in [AllLoops -> Seq(Functors)], NEW k \in AllLoops, NEW x \in Functors
  PROVE  PutIn(L, PutTo(L, k, x), k, x) /\ PutTo(L, k, x) \in [AllLoops -> Seq(Functors)]
BY EndGrows, ZenonT(60) DEF PutIn

LEMMA TakenIsOut ==
  ASSUME line \in [AllLoops -> Seq(Functors)], NEW l \in AllLoops, line[l] # <<>>
  PROVE  TakenFrom(line, TookFrom(l), l, Head(line[l])) /\ TookFrom(l) \in [AllLoops -> Seq(Functors)]
BY FrontLeaves DEF TakenFrom

\* A step about one connection: what is said of the others stays.
LEMMA OthersStay ==
  ASSUME ServerTypeOK, ServerLife, NEW id \in Clients,
         \A c \in Clients : c # id => ConnStays(c) /\ (c \in connections' <=> c \in connections),
         \A m \in AllLoops, op \in Ops, c \in Clients : c # id =>
            /\ Has(line'[m], <<op, c>>) <=> Has(line[m], <<op, c>>)
            /\ Once(line[m], <<op, c>>) => Once(line'[m], <<op, c>>),
         srv'.dtor = srv.dtor
  PROVE  \A c \in Clients : c # id => Story(c)'
<1> SUFFICES ASSUME NEW c \in Clients, c # id PROVE Story(c)'
  OBVIOUS
<1>1. /\ conn'[c].status = conn[c].status /\ conn'[c].loop = conn[c].loop
      /\ conn'[c].destroyed = conn[c].destroyed /\ (c \in connections' <=> c \in connections)
      /\ conn[c].loop \in AllLoops
  BY DEF ConnStays, ServerTypeOK, ConnType
<1>2. 0 \in AllLoops
  BY ServerConstants DEF AllLoops
<1>3. Story(c)
  BY DEF ServerLife
<1>4. \A m \in AllLoops, op \in Ops :
            /\ Has(line'[m], <<op, c>>) <=> Has(line[m], <<op, c>>)
            /\ Once(line[m], <<op, c>>) => Once(line'[m], <<op, c>>)
  OBVIOUS
<1>5. srv.dtor = "no" => Way(c)'
  BY <1>1, <1>2, <1>3, <1>4 DEF Story, Way, Ops
<1> QED BY <1>1, <1>3, <1>4, <1>5 DEF Story, Ops

\* ... and what the loops are to handle is up, if the connection is not among it.
LEMMA ReadyStays ==
  ASSUME ServerTypeOK, ServerLife, NEW id \in Clients,
         \A c \in Clients : c # id => ConnStays(c),
         \A m \in AllLoops : lp'[m].ready \subseteq lp[m].ready,
         \A m \in AllLoops : id \in lp'[m].ready => srv.dtor # "no",
         srv'.dtor = srv.dtor
  PROVE  ReadyIsUp'
<1> SUFFICES ASSUME srv.dtor = "no", NEW m \in AllLoops, NEW c \in lp'[m].ready \ {0}
             PROVE  conn'[c].status = "Connected" /\ conn'[c].loop = m
  BY DEF ReadyIsUp
<1>1. c \in lp[m].ready \ {0} /\ conn[c].status = "Connected" /\ conn[c].loop = m /\ c # id
  BY DEF ServerLife, ReadyIsUp
<1>2. c \in Clients
  <2>1. lp[m].ready \subseteq 0..MaxClients
    BY DEF ServerTypeOK, LoopType
  <2> QED BY <1>1, <2>1, ServerConstants DEF Clients
<1> QED BY <1>1, <1>2 DEF ConnStays

\* A new connection is in connections_, and connectEstablished may be queued for it.
LEMMA NewConnectionLife ==
  ASSUME ServerTypeOK, NumbersGiven, ServerLife, Handle(0, 0), Waiting # {}, newConnection(First)
  PROVE  ServerLife'
<1>p. PICK id \in Clients : id = srv.nextConnId
  BY NewConnectionEffect
<1> DEFINE l == getNextLoop
           x == <<"connectEstablished", id>>
<1>0. 0 \in AllLoops
  BY ServerConstants DEF AllLoops
<1>1. /\ id \in Clients /\ l \in AllLoops /\ srv'.dtor = srv.dtor
      /\ conn'[id].loop = l /\ conn'[id].status \in {"Connected", "Connecting"}
      /\ conn'[id].destroyed = conn[id].destroyed
      /\ \A c \in Clients : c # id => conn'[c] = conn[c]
      /\ connections' = connections \cup {id} /\ h' = h
      /\ l = 0 => line' = line
      /\ l # 0 => line' = PutTo(line, l, x)
  BY <1>p, NewConnectionEffect
<1>2. \A m \in AllLoops : lp'[m].ready \subseteq lp[m].ready
  BY <1>0, HandleEffect
<1>3. x \in Functors /\ line \in [AllLoops -> Seq(Functors)]
  BY <1>1, LineType DEF Functors, Ops
<1>4. conn[id].status = "none"
  BY <1>p, ServerConstants DEF NumbersGiven, Clients
<1>5. \A m \in AllLoops : id \notin lp[m].ready
  BY <1>1, <1>4 DEF NumbersGiven
<1> HIDE DEF l
<1>6. \A m \in AllLoops : \A op, c :
         /\ Has(line[m], <<op, c>>) => Has(line'[m], <<op, c>>)
         /\ Has(line'[m], <<op, c>>) =>
               Has(line[m], <<op, c>>) \/ (op = "connectEstablished" /\ c = id)
         /\ Once(line[m], <<op, c>>) /\ (op # "connectEstablished" \/ c # id) => Once(line'[m], <<op, c>>)
  <2>1. CASE l = 0
    BY <1>1, <2>1
  <2>2. CASE l # 0
    <3>1. PutIn(line, line', l, x)
      <4> HIDE DEF x
      <4> QED BY <1>1, <1>3, <2>2, PutIsIn
    <3> QED BY <3>1 DEF PutIn
  <2> QED BY <2>1, <2>2
<1>7. /\ id \notin connections /\ ~ conn[id].destroyed
      /\ \A m \in AllLoops, op \in Ops : ~ Has(line[m], <<op, id>>)
      /\ srv.dtor = "no" => Once(line[0], <<"removeConnectionInLoop", id>>)
  BY <1>1, <1>4 DEF ServerLife, Story, Way
<1>8. Story(id)'
  BY <1>0, <1>1, <1>6, <1>7 DEF Story, Way, Ops
<1>9. \A c \in Clients : c # id => Story(c)'
  BY <1>1, <1>6, OthersStay DEF ConnStays
<1>10. ReadyIsUp'
  BY <1>1, <1>2, <1>5, ReadyStays DEF ConnStays
<1> QED BY <1>1, <1>8, <1>9, <1>10 DEF ServerLife

LEMMA EstablishedLife ==
  ASSUME ServerTypeOK, ServerLife, NEW l \in AllLoops, connectEstablished(l)
  PROVE  ServerLife'
<1>0. 0 \in AllLoops
  BY ServerConstants DEF AllLoops
<1>p. PICK id \in Clients : id = Head(lp[l].fns)[2]
  BY RunEffect DEF connectEstablished
<1> DEFINE x == <<"connectEstablished", id>>
<1>1. Run(l, "connectEstablished") /\ UNCHANGED <<connections, pend>> /\ srv' = srv
  BY DEF connectEstablished, Run
<1>2. /\ line[l] # <<>> /\ Head(line[l]) = x /\ line' = TookFrom(l)
      /\ \A m \in AllLoops : lp'[m].ready = lp[m].ready
  BY <1>p, <1>1, RunEffect
<1>3. IF conn[id].status = "Connecting"
        THEN conn' = [conn EXCEPT ![id].status = "Connected"] /\ UNCHANGED h
        ELSE Failing("connectEstablished") /\ UNCHANGED conn
  BY <1>p DEF connectEstablished
<1>4. line \in [AllLoops -> Seq(Functors)]
  BY LineType
<1>5. TakenFrom(line, line', l, x)
  BY <1>2, <1>4, TakenIsOut
<1> HIDE DEF x
<1>6. \A m \in AllLoops : \A op, c :
         /\ Has(line'[m], <<op, c>>) => Has(line[m], <<op, c>>)
         /\ Has(line[m], <<op, c>>) =>
               Has(line'[m], <<op, c>>) \/ (op = "connectEstablished" /\ c = id)
         /\ Once(line[m], <<op, c>>) => Once(line'[m], <<op, c>>)
  BY <1>5 DEF TakenFrom, x
<1>7. /\ conn'[id].loop = conn[id].loop /\ conn'[id].destroyed = conn[id].destroyed
      /\ conn'[id].status = conn[id].status
         \/ (conn[id].status = "Connecting" /\ conn'[id].status = "Connected")
      /\ \A c \in Clients : c # id => conn'[c] = conn[c]
  BY <1>2, <1>3, StatusEffect
<1>8. "removeConnectionInLoop" \notin h'.failed
  BY <1>3 DEF Failing, ServerLife, ServerTypeOK, HistoryType
<1>9. conn[id].loop \in AllLoops
  BY <1>2 DEF ServerTypeOK, ConnType
<1>10. Story(id)'
  BY <1>0, <1>1, <1>2, <1>6, <1>7, <1>9 DEF ServerLife, Story, Way, Ops
<1>11. \A c \in Clients : c # id => Story(c)'
  BY <1>1, <1>2, <1>6, <1>7, OthersStay DEF ConnStays
<1>12. ReadyIsUp'
  <2> SUFFICES ASSUME srv.dtor = "no", NEW m \in AllLoops, NEW c \in lp'[m].ready \ {0}
               PROVE  conn'[c].status = "Connected" /\ conn'[c].loop = m
    BY <1>1 DEF ReadyIsUp
  <2>1. conn[c].status = "Connected" /\ conn[c].loop = m
    BY <1>2 DEF ServerLife, ReadyIsUp
  <2>2. c \in Clients
    <3>1. lp[m].ready \subseteq 0..MaxClients /\ c \in lp[m].ready
      BY <1>2 DEF ServerTypeOK, LoopType
    <3> QED BY <3>1, ServerConstants DEF Clients
  <2> QED BY <1>7, <2>1, <2>2
<1> QED BY <1>8, <1>10, <1>11, <1>12 DEF ServerLife

\* The end of a connection of which the base loop knows: it is in connections_ no more.
LEMMA DestroyedLife ==
  ASSUME ServerTypeOK, ServerLife, NEW l \in AllLoops, connectDestroyed(l)
  PROVE  ServerLife'
<1>0. 0 \in AllLoops
  BY ServerConstants DEF AllLoops
<1>p. PICK id \in Clients : id = Head(lp[l].fns)[2]
  BY RunEffect DEF connectDestroyed
<1> DEFINE x == <<"connectDestroyed", id>>
<1>1. Run(l, "connectDestroyed") /\ UNCHANGED <<connections, pend, h>> /\ srv' = srv /\ Destroyed(id)
  BY <1>p DEF connectDestroyed, Run
<1>2. /\ line[l] # <<>> /\ Head(line[l]) = x /\ line' = TookFrom(l)
      /\ \A m \in AllLoops : lp'[m].ready = lp[m].ready
  BY <1>p, <1>1, RunEffect
<1>4. line \in [AllLoops -> Seq(Functors)]
  BY LineType
<1>5. TakenFrom(line, line', l, x)
  BY <1>2, <1>4, TakenIsOut
<1> HIDE DEF x
<1>6. /\ \A m \in AllLoops : \A op, c :
         /\ Has(line'[m], <<op, c>>) => Has(line[m], <<op, c>>)
         /\ Has(line[m], <<op, c>>) =>
               Has(line'[m], <<op, c>>) \/ (op = "connectDestroyed" /\ c = id)
         /\ Once(line[m], <<op, c>>) => Once(line'[m], <<op, c>>)
      /\ Has(line[l], <<"connectDestroyed", id>>)
  BY <1>5 DEF TakenFrom, x
<1>7. /\ conn'[id].loop = conn[id].loop /\ conn'[id].destroyed
      /\ conn'[id].status = IF conn[id].status = "Connected" THEN "Disconnected" ELSE conn[id].status
      /\ \A c \in Clients : c # id => conn'[c] = conn[c]
  BY <1>1, <1>2, DestroyedEffect
<1>8. Story(id) /\ conn[id].loop = l /\ conn[id].status # "none" /\ id \notin connections
      /\ (srv.dtor = "no" => conn[id].status = "Disconnected")
  <2>1. Story(id) /\ conn[id].loop = l /\ conn[id].status # "none"
    BY <1>2, <1>6 DEF ServerLife, Story, Ops
  <2>2. conn[id].status \in {"none", "Connecting", "Connected", "Disconnected"}
    BY <1>2 DEF ServerTypeOK, ConnType
  <2> QED BY <1>6, <2>1, <2>2 DEF Story, Way
<1>9. Story(id)'
  BY <1>0, <1>1, <1>6, <1>7, <1>8 DEF Story, Way, Ops
<1>10. \A c \in Clients : c # id => Story(c)'
  BY <1>1, <1>2, <1>6, <1>7, OthersStay DEF ConnStays
<1>11. ReadyIsUp'
  <2>1. \A m \in AllLoops : id \in lp'[m].ready => srv.dtor # "no"
    <3>1. id # 0
      BY <1>2, ServerConstants DEF Clients
    <3> QED BY <1>2, <1>8, <3>1 DEF ServerLife, ReadyIsUp
  <2> QED BY <1>1, <1>2, <1>7, <2>1, ReadyStays DEF ConnStays
<1> QED BY <1>1, <1>9, <1>10, <1>11 DEF ServerLife

\* The erase in connections_ and connectDestroyed queued, on the base loop.
LEMMA HandleCloseLife ==
  ASSUME ServerTypeOK, NumbersGiven, ServerLife, NEW l \in AllLoops, handleClose(l)
  PROVE  ServerLife'
<1>0. 0 \in AllLoops
  BY ServerConstants DEF AllLoops
<1>1. PICK id \in lp[l].ready \ {0} :
         /\ Handle(l, id)
         /\ conn' = [conn EXCEPT ![id].status = "Disconnected"]
         /\ CASE ~ Exists -> Using("server") /\ UNCHANGED <<connections, pend>>
              [] Exists /\ l = 0 -> Removed(id)
              [] Exists /\ l # 0 -> queueInLoop(0, "removeConnectionInLoop", id)
                                    /\ UNCHANGED <<connections, h>>
  BY DEF handleClose
<1>2. srv' = srv
  BY DEF handleClose
<1>3. id \in Clients /\ line \in [AllLoops -> Seq(Functors)]
  <2>1. lp[l].ready \subseteq 0..MaxClients
    BY DEF ServerTypeOK, LoopType
  <2> QED BY <2>1, ServerConstants, LineType DEF Clients
<1>4. /\ conn'[id].status = "Disconnected" /\ conn'[id].loop = conn[id].loop
      /\ conn'[id].destroyed = conn[id].destroyed
      /\ \A c \in Clients : c # id => conn'[c] = conn[c]
      /\ conn[id].loop \in AllLoops
  BY <1>1, <1>3, StatusEffect DEF ServerTypeOK, ConnType
<1>5. /\ lp'[l].ready = lp[l].ready \ {id}
      /\ \A m \in AllLoops : m # l => lp'[m].ready = lp[m].ready
      /\ pend' = pend => line' = line
      /\ \A k \in AllLoops, x \in Functors :
            queueInLoop(k, x[1], x[2]) => line' = PutTo(line, k, x)
  BY <1>1, HandleEffect
<1>6. /\ Story(id) /\ conn[id].status # "none"
      /\ srv.dtor = "no" => conn[id].status = "Connected" /\ conn[id].loop = l
  BY <1>1, <1>3 DEF ServerLife, ReadyIsUp, NumbersGiven
<1>7. ReadyIsUp'
  <2>1. \A m \in AllLoops : id \in lp'[m].ready => srv.dtor # "no"
    <3> SUFFICES ASSUME srv.dtor = "no", NEW m \in AllLoops, id \in lp'[m].ready PROVE FALSE
      OBVIOUS
    <3>1. id \in lp[m].ready \ {0} /\ m # l
      BY <1>1, <1>5
    <3> QED BY <1>6, <3>1 DEF ServerLife, ReadyIsUp
  <2>2. \A m \in AllLoops : lp'[m].ready \subseteq lp[m].ready
    BY <1>5
  <2> QED BY <1>2, <1>3, <1>4, <2>1, <2>2, ReadyStays DEF ConnStays
<1>8. \A op \in Ops, k \in AllLoops : queueInLoop(k, op, id) => PutIn(line, line', k, <<op, id>>)
  <2> TAKE op \in Ops, k \in AllLoops
  <2> HAVE queueInLoop(k, op, id)
  <2> DEFINE x == <<op, id>>
  <2>1. x \in Functors /\ queueInLoop(k, x[1], x[2])
    BY <1>3 DEF Functors
  <2> HIDE DEF x
  <2>2. line' = PutTo(line, k, x)
    BY <1>5, <2>1
  <2>3. PutIn(line, line', k, x)
    BY <1>3, <2>1, <2>2, PutIsIn
  <2> QED BY <2>3 DEF x
<1>9. CASE ~ Exists
  <2>1. Using("server") /\ UNCHANGED <<connections, pend>>
    BY <1>1, <1>9
  <2>2. line' = line /\ connections' = connections /\ "removeConnectionInLoop" \notin h'.failed
    BY <1>5, <2>1, UsingEffect DEF ServerLife, Names
  <2>3. srv'.dtor # "no"
    BY <1>2, <1>9 DEF Exists
  <2>4. Story(id)'
    BY <1>4, <1>6, <2>2, <2>3 DEF Story
  <2>5. \A c \in Clients : c # id => Story(c)'
    BY <1>2, <1>3, <1>4, <2>2, OthersStay DEF ConnStays
  <2> QED BY <1>7, <2>2, <2>4, <2>5 DEF ServerLife
<1>10. CASE Exists /\ l = 0
  <2>1. srv.dtor = "no"
    BY <1>1, <1>10 DEF Handle, At, BaseFree, Exists
  <2>2. /\ id \in connections /\ ~ conn[id].destroyed /\ conn[id].loop = 0
        /\ ~ Has(line[0], <<"removeConnectionInLoop", id>>)
        /\ Once(line[0], <<"removeConnectionInLoop", id>>)
    BY <1>6, <1>10, <2>1 DEF Story, Way
  <2>3. /\ h' = h /\ connections' = connections \ {id}
        /\ queueInLoop(conn[id].loop, "connectDestroyed", id)
    BY <1>1, <1>10, <2>2 DEF Removed
  <2>4. \A m \in AllLoops : \A o, c :
           /\ Has(line'[m], <<o, c>>) <=>
                Has(line[m], <<o, c>>) \/ (m = conn[id].loop /\ o = "connectDestroyed" /\ c = id)
           /\ Once(line[m], <<o, c>>)
              /\ (o # "connectDestroyed" \/ c # id \/ ~ Has(line[m], <<o, c>>)) =>
                Once(line'[m], <<o, c>>)
    <3>1. PutIn(line, line', conn[id].loop, <<"connectDestroyed", id>>)
      BY <1>4, <1>8, <2>3 DEF Ops
    <3> QED BY <3>1 DEF PutIn
  <2>5. Story(id)'
    BY <1>0, <1>4, <1>6, <2>2, <2>3, <2>4 DEF Story, Way, Ops
  <2>6. \A c \in Clients : c # id => Story(c)'
    BY <1>2, <1>3, <1>4, <2>3, <2>4, OthersStay DEF ConnStays
  <2> QED BY <1>7, <2>3, <2>5, <2>6 DEF ServerLife
<1>11. CASE Exists /\ l # 0
  <2>1. /\ connections' = connections /\ h' = h
        /\ queueInLoop(0, "removeConnectionInLoop", id)
    BY <1>1, <1>11
  <2>2. \A m \in AllLoops : \A o, c :
           /\ Has(line'[m], <<o, c>>) <=>
                Has(line[m], <<o, c>>) \/ (m = 0 /\ o = "removeConnectionInLoop" /\ c = id)
           /\ Once(line[m], <<o, c>>)
              /\ (o # "removeConnectionInLoop" \/ c # id \/ ~ Has(line[m], <<o, c>>)) =>
                Once(line'[m], <<o, c>>)
    <3>1. PutIn(line, line', 0, <<"removeConnectionInLoop", id>>)
      BY <1>0, <1>8, <2>1 DEF Ops
    <3> QED BY <3>1 DEF PutIn
  <2>3. srv.dtor = "no" => /\ id \in connections /\ ~ conn[id].destroyed
                           /\ ~ Has(line[0], <<"removeConnectionInLoop", id>>)
                           /\ Once(line[0], <<"removeConnectionInLoop", id>>)
    BY <1>6 DEF Story, Way
  <2>4. Story(id)'
    BY <1>0, <1>2, <1>4, <1>6, <2>1, <2>2, <2>3 DEF Story, Way, Ops
  <2>5. \A c \in Clients : c # id => Story(c)'
    BY <1>2, <1>3, <1>4, <2>1, <2>2, OthersStay DEF ConnStays
  <2> QED BY <1>7, <2>1, <2>4, <2>5 DEF ServerLife
<1> QED BY <1>9, <1>10, <1>11

\* The base loop is told of the end: the erase, and connectDestroyed queued.
LEMMA RemoveInLoopLife ==
  ASSUME ServerTypeOK, ServerLife, removeConnectionInLoop
  PROVE  ServerLife'
<1>0. 0 \in AllLoops
  BY ServerConstants DEF AllLoops
<1>1. Run(0, "removeConnectionInLoop") /\ conn' = conn /\ srv' = srv
  BY DEF removeConnectionInLoop, Run
<1>p. PICK id \in Clients : id = Head(lp[0].fns)[2]
  BY <1>0, <1>1, RunEffect
<1> DEFINE x == <<"removeConnectionInLoop", id>>
           T == TookFrom(0)
<1>2. /\ line[0] # <<>> /\ Head(line[0]) = x
      /\ \A m \in AllLoops : lp'[m].ready = lp[m].ready
      /\ pend' = pend => line' = T
      /\ \A k \in AllLoops, y \in Functors : queueInLoop(k, y[1], y[2]) => line' = PutTo(T, k, y)
  BY <1>0, <1>p, <1>1, RunEffect
<1>3. line \in [AllLoops -> Seq(Functors)] /\ conn[id].loop \in AllLoops
  BY <1>p, LineType DEF ServerTypeOK, ConnType
<1>4. TakenFrom(line, T, 0, x) /\ T \in [AllLoops -> Seq(Functors)]
  BY <1>0, <1>2, <1>3, TakenIsOut
<1> HIDE DEF T, x
<1>5. \A m \in AllLoops : \A op, c :
         /\ Has(T[m], <<op, c>>) => Has(line[m], <<op, c>>)
         /\ Has(line[m], <<op, c>>) =>
               Has(T[m], <<op, c>>) \/ (op = "removeConnectionInLoop" /\ c = id)
         /\ Once(line[m], <<op, c>>) => Once(T[m], <<op, c>>)
  BY <1>4 DEF TakenFrom, x
<1>6. /\ Has(line[0], <<"removeConnectionInLoop", id>>)
      /\ Once(line[0], <<"removeConnectionInLoop", id>>) =>
           ~ Has(T[0], <<"removeConnectionInLoop", id>>)
  BY <1>0, <1>4 DEF TakenFrom, x
<1>7. Story(id)
  BY DEF ServerLife
<1>8. ReadyIsUp'
  BY <1>1, <1>2 DEF ServerLife, ReadyIsUp
<1>9. CASE ~ Exists
  <2>1. Using("server") /\ UNCHANGED <<connections, pend>> /\ srv.dtor # "no"
    BY <1>9 DEF removeConnectionInLoop, Exists
  <2>2. line' = T /\ connections' = connections /\ "removeConnectionInLoop" \notin h'.failed
    BY <1>2, <2>1, UsingEffect DEF ServerLife, Names
  <2>3. Story(id)'
    BY <1>1, <1>3, <1>5, <1>7, <2>1, <2>2 DEF Story, Ops
  <2>4. \A c \in Clients : c # id => Story(c)'
    BY <1>1, <1>5, <2>2, OthersStay DEF ConnStays
  <2> QED BY <1>8, <2>2, <2>3, <2>4 DEF ServerLife
<1>10. CASE Exists
  <2>1. srv.dtor = "no"
    BY <1>1, <1>10 DEF Run, At, BaseFree, Exists
  <2>2. /\ conn[id].status # "none" /\ Way(id)
        /\ conn[id].status \in {"none", "Connecting", "Connected", "Disconnected"}
    BY <1>0, <1>6, <1>7, <2>1 DEF Story, Ops, ServerTypeOK, ConnType
  <2>3. /\ id \in connections /\ ~ conn[id].destroyed /\ conn[id].status = "Disconnected"
        /\ ~ Has(T[0], <<"removeConnectionInLoop", id>>)
    BY <1>6, <1>7, <2>2 DEF Way, Story
  <2>4. /\ h' = h /\ connections' = connections \ {id}
        /\ queueInLoop(conn[id].loop, "connectDestroyed", id)
    BY <1>10, <1>p, <2>3 DEF Removed, removeConnectionInLoop
  <2> DEFINE y == <<"connectDestroyed", id>>
  <2>5. y \in Functors /\ queueInLoop(conn[id].loop, y[1], y[2])
    BY <1>p, <2>4 DEF Functors, Ops
  <2>6. PutIn(T, line', conn[id].loop, y)
    <3> HIDE DEF y
    <3>1. line' = PutTo(T, conn[id].loop, y)
      BY <1>2, <1>3, <2>5
    <3> QED BY <1>3, <1>4, <2>5, <3>1, PutIsIn
  <2>7. \A m \in AllLoops : \A o, c :
           /\ Has(line'[m], <<o, c>>) <=>
                Has(T[m], <<o, c>>) \/ (m = conn[id].loop /\ o = "connectDestroyed" /\ c = id)
           /\ Once(T[m], <<o, c>>) /\ (o # "connectDestroyed" \/ c # id) =>
                Once(line'[m], <<o, c>>)
    BY <2>6 DEF PutIn
  <2>8. Story(id)'
    <3>1. Way(id)'
      BY <1>0, <1>1, <1>3, <1>5, <2>2, <2>3, <2>4, <2>7 DEF Way
    <3> QED BY <1>1, <1>3, <1>5, <1>7, <2>3, <2>4, <2>7, <3>1 DEF Story, Ops
  <2>9. \A c \in Clients : c # id => Story(c)'
    <3>1. \A m \in AllLoops, o \in Ops, c \in Clients : c # id =>
            /\ Has(line'[m], <<o, c>>) <=> Has(line[m], <<o, c>>)
            /\ Once(line[m], <<o, c>>) => Once(line'[m], <<o, c>>)
      BY <1>5, <2>7
    <3> QED BY <1>1, <2>4, <3>1, OthersStay DEF ConnStays
  <2> QED BY <1>8, <2>4, <2>8, <2>9 DEF ServerLife
<1> QED BY <1>9, <1>10

\* ~TcpServer passes on one connection that is left.
LEMMA DtorConnectionLife ==
  ASSUME ServerTypeOK, ServerLife, DtorConnection
  PROVE  ServerLife'
<1>1. /\ srv.dtor = "connections" /\ srv' = srv /\ lp' = lp /\ h' = h
  BY DEF DtorConnection, DtorStep
<1>2. PICK id \in connections :
         /\ connections' = connections \ {id}
         /\ IF conn[id].loop = 0
              THEN Destroyed(id) /\ UNCHANGED pend
              ELSE queueInLoop(conn[id].loop, "connectDestroyed", id) /\ UNCHANGED conn
  BY DEF DtorConnection
<1>3. /\ id \in Clients /\ conn[id].loop \in AllLoops
      /\ line \in [AllLoops -> Seq(Functors)]
  <2>1. id \in Clients
    BY DEF ServerTypeOK
  <2> QED BY <2>1, LineType DEF ServerTypeOK, ConnType
<1>4. Story(id) /\ conn[id].status # "none"
  BY <1>2, <1>3 DEF ServerLife, Story
<1>5. ReadyIsUp'
  BY <1>1 DEF ReadyIsUp
<1>6. CASE conn[id].loop = 0
  <2>1. /\ conn'[id].loop = conn[id].loop /\ conn'[id].status # "none" /\ conn'[id].destroyed
        /\ \A c \in Clients : c # id => conn'[c] = conn[c]
    BY <1>2, <1>3, <1>4, <1>6, DestroyedEffect
  <2>2. line' = line
    BY <1>1, <1>2, <1>6 DEF line
  <2>3. Story(id)'
    BY <1>1, <1>2, <1>4, <2>1, <2>2 DEF Story
  <2>4. \A c \in Clients : c # id => Story(c)'
    BY <1>1, <1>2, <1>3, <2>1, <2>2, OthersStay DEF ConnStays
  <2> QED BY <1>1, <1>5, <2>3, <2>4 DEF ServerLife
<1>7. CASE conn[id].loop # 0
  <2>1. conn' = conn /\ queueInLoop(conn[id].loop, "connectDestroyed", id)
    BY <1>2, <1>7
  <2> DEFINE y == <<"connectDestroyed", id>>
  <2>2. y \in Functors /\ queueInLoop(conn[id].loop, y[1], y[2])
    BY <1>3, <2>1 DEF Functors, Ops
  <2>3. PutIn(line, line', conn[id].loop, y)
    <3> HIDE DEF y
    <3>1. pend \in [AllLoops -> Seq(Functors)] /\ lp' \in [AllLoops -> LoopType]
      BY <1>1 DEF ServerTypeOK
    <3>2. line = [m \in AllLoops |-> lp'[m].fns \o pend[m]]
      BY <1>1 DEF line
    <3>3. line' = PutTo(line, conn[id].loop, y)
      BY <1>3, <2>2, <3>1, <3>2, Queues
    <3> QED BY <1>3, <2>2, <3>3, PutIsIn
  <2>4. \A m \in AllLoops : \A o, c :
           /\ Has(line'[m], <<o, c>>) <=>
                Has(line[m], <<o, c>>) \/ (m = conn[id].loop /\ o = "connectDestroyed" /\ c = id)
           /\ Once(line[m], <<o, c>>) /\ (o # "connectDestroyed" \/ c # id) =>
                Once(line'[m], <<o, c>>)
    BY <2>3 DEF PutIn
  <2>5. Story(id)'
    BY <1>1, <1>2, <1>3, <1>4, <2>1, <2>4 DEF Story, Ops
  <2>6. \A c \in Clients : c # id => Story(c)'
    BY <1>1, <1>2, <1>3, <2>1, <2>4, OthersStay DEF ConnStays
  <2> QED BY <1>1, <1>5, <2>5, <2>6 DEF ServerLife
<1> QED BY <1>6, <1>7

\* The steps that move no functor, and report nothing but connections that are up.
LoopsQuiet ==
  \A l \in AllLoops :
     /\ line'[l] = line[l]
     /\ \A id \in lp'[l].ready \ {0} :
           id \in lp[l].ready \/ (id \in Clients /\ conn[id].status = "Connected" /\ conn[id].loop = l)
RestQuiet ==
  /\ connections' = connections /\ \A id \in Clients : ConnStays(id)
  /\ srv'.dtor = srv.dtor \/ srv'.dtor # "no"
  /\ "removeConnectionInLoop" \notin h'.failed

LEMMA QuietLife == ServerTypeOK /\ ServerLife /\ LoopsQuiet /\ RestQuiet => ServerLife'
<1> SUFFICES ASSUME ServerTypeOK, ServerLife, LoopsQuiet, RestQuiet PROVE ServerLife'
  OBVIOUS
<1>1. line' = line
  BY DEF LoopsQuiet, line
<1> QED BY <1>1, LifeStays DEF LoopsQuiet, RestQuiet

LEMMA FnsStay ==
  ASSUME pend' = pend, \A l \in AllLoops : lp'[l].fns = lp[l].fns
  PROVE  \A l \in AllLoops : line'[l] = line[l]
BY DEF line

LEMMA LifeNext ==
  ServerTypeOK /\ NumbersGiven /\ LinesKept /\ ServerLife /\ [Next]_vars => ServerLife'
<1> SUFFICES ASSUME ServerTypeOK, NumbersGiven, LinesKept, ServerLife, [Next]_vars
             PROVE  ServerLife'
  OBVIOUS
<1>0. 0 \in AllLoops /\ \A l \in 1..MaxThreads : l \in AllLoops
  BY ServerConstants DEF AllLoops
<1>a. /\ "removeConnectionInLoop" \notin h.failed
      /\ conn' = conn => \A id \in Clients : ConnStays(id)
      /\ srv \in SrvType
  BY DEF ServerLife, ConnStays, ServerTypeOK
<1>b. lp' = lp /\ pend' = pend => LoopsQuiet
  BY FnsStay DEF LoopsQuiet
<1>c. connections' = connections /\ conn' = conn /\ srv' = srv /\ h' = h => RestQuiet
  BY <1>a DEF RestQuiet
<1>1. CASE Start
  <2>1. LoopsQuiet
    BY <1>1, StartEffect, FnsStay DEF Start, LoopsQuiet
  <2>2. RestQuiet
    BY <1>1, <1>a DEF Start, RestQuiet, SrvType
  <2> QED BY <2>1, <2>2, QuietLife
<1>2. CASE BeginLoop
  <2> DEFINE v == IF lp[0].quit THEN "ended" ELSE "poll"
  <2>1. v \in {"poll", "ended"} /\ lp' = [lp EXCEPT ![0].pc = v] /\ pend' = pend /\ RestQuiet
    BY <1>2, <1>c DEF BeginLoop
  <2> HIDE DEF v
  <2>2. LoopsQuiet
    BY <1>0, <2>1, PcEffect, FnsStay DEF LoopsQuiet
  <2> QED BY <2>1, <2>2, QuietLife
<1>3. CASE Accept
  <2>1. Handle(0, 0)
    BY <1>3 DEF Accept
  <2>2. CASE Waiting # {} /\ newConnection(First)
    BY <2>1, <2>2, NewConnectionLife
  <2>3. CASE UNCHANGED <<srv, connections, conn, pend, h>>
    <3>1. LoopsQuiet
      BY <1>0, <2>1, <2>3, HandleEffect, FnsStay DEF LoopsQuiet
    <3> QED BY <1>c, <2>3, <3>1, QuietLife
  <2> QED BY <1>3, <2>2, <2>3 DEF Accept
<1>4. ASSUME AcceptorGone \/ AcceptFatal PROVE ServerLife'
  <2>1. Handle(0, 0) /\ UNCHANGED <<srv, connections, conn, pend>>
    BY <1>4 DEF AcceptorGone, AcceptFatal
  <2>2. LoopsQuiet
    BY <1>0, <2>1, HandleEffect, FnsStay DEF LoopsQuiet
  <2>3. "removeConnectionInLoop" \notin h'.failed
    BY <1>4, <1>a, UsingEffect, FailingEffect DEF AcceptorGone, AcceptFatal, Names
  <2> QED BY <1>a, <2>1, <2>2, <2>3, QuietLife DEF RestQuiet
<1>5. ASSUME Quit \/ QuitThread PROVE ServerLife'
  <2>1. PICK m \in AllLoops : lp' = [lp EXCEPT ![m].quit = TRUE]
    <3>1. QuitThread => srv.joining \in AllLoops
      BY ServerConstants DEF QuitThread, Joining, AllLoops, ServerTypeOK, SrvType
    <3> QED BY <1>0, <1>5, <3>1 DEF Quit, QuitThread
  <2>2. pend' = pend /\ RestQuiet
    BY <1>5, <1>c DEF Quit, QuitThread, DtorStep
  <2>3. LoopsQuiet
    BY <2>1, <2>2, QuitEffect, FnsStay DEF LoopsQuiet
  <2> QED BY <2>2, <2>3, QuietLife
<1>6. ASSUME NEW l \in AllLoops, LoopStep(l) PROVE ServerLife'
  <2>1. CASE Poll(l)
    <3>1. pend' = pend /\ RestQuiet
      BY <1>c, <2>1 DEF Poll
    <3>2. LoopsQuiet
      BY <2>1, <3>1, PollEffect, FnsStay DEF LoopsQuiet
    <3> QED BY <3>1, <3>2, QuietLife
  <2>2. CASE SwapFunctors(l)
    <3>1. RestQuiet
      BY <1>c, <2>2 DEF SwapFunctors
    <3>2. LoopsQuiet
      BY <2>2, SwapEffect DEF LoopsQuiet
    <3> QED BY <3>1, <3>2, QuietLife
  <2>3. CASE FunctorsDone(l)
    <3> DEFINE v == IF lp[l].quit THEN "ended" ELSE "poll"
    <3>1. v \in {"poll", "ended"} /\ lp' = [lp EXCEPT ![l].pc = v] /\ pend' = pend /\ RestQuiet
      BY <1>c, <2>3 DEF FunctorsDone
    <3> HIDE DEF v
    <3>2. LoopsQuiet
      BY <3>1, PcEffect, FnsStay DEF LoopsQuiet
    <3> QED BY <3>1, <3>2, QuietLife
  <2> QED BY <1>6, <2>1, <2>2, <2>3, EstablishedLife, DestroyedLife, HandleCloseLife DEF LoopStep
<1>7. ASSUME DtorPool \/ JoinThread \/ DtorDone \/ DtorBegin PROVE ServerLife'
  <2>1. /\ lp' = lp /\ pend' = pend /\ connections' = connections /\ conn' = conn
    BY <1>7 DEF DtorPool, JoinThread, DtorDone, DtorBegin, DtorStep
  <2>2. srv'.dtor = srv.dtor \/ srv'.dtor # "no"
    BY <1>7, <1>a DEF DtorPool, JoinThread, DtorDone, DtorBegin, SrvType
  <2>3. h'.failed = h.failed
    BY <1>7 DEF DtorPool, JoinThread, DtorDone, DtorBegin, DtorStep, ServerTypeOK, HistoryType
  <2> QED BY <1>a, <1>b, <2>1, <2>2, <2>3, QuietLife DEF RestQuiet
<1>8. ASSUME CloseIdle \/ AcceptIdle \/ CloseAgain \/ OpenIdle \/ ClientConnects \/ ClientLeaves
             \/ GiveFd \/ UNCHANGED vars
      PROVE ServerLife'
  <2>1. UNCHANGED <<srv, connections, conn, lp, pend, h>>
    BY <1>8 DEF CloseIdle, AcceptIdle, CloseAgain, OpenIdle, Syscall, ClientConnects, ClientLeaves,
       Client, GiveFd, Environment, vars
  <2> QED BY <1>b, <1>c, <2>1, QuietLife
<1>9. CASE PeerCloses
  <2>1. UNCHANGED <<srv, connections, lp, pend, h>>
    BY <1>9 DEF PeerCloses, Environment
  <2>2. \A id \in Clients : ConnStays(id)
    BY <1>9 DEF PeerCloses, ConnStays, ServerTypeOK, ConnType
  <2> QED BY <1>a, <1>b, <2>1, <2>2, QuietLife DEF RestQuiet
<1>10. CASE TakeFd
  <2>1. UNCHANGED <<srv, connections, conn, lp, pend>> /\ h'.failed = h.failed
    BY <1>10 DEF TakeFd, Environment, ServerTypeOK, HistoryType
  <2> QED BY <1>a, <1>b, <2>1, QuietLife DEF RestQuiet
<1>11. CASE BaseStep
  BY <1>0, <1>2, <1>3, <1>4, <1>5, <1>6, <1>7, <1>8, <1>11, RemoveInLoopLife, DtorConnectionLife
     DEF BaseStep
<1> QED BY <1>0, <1>1, <1>4, <1>5, <1>6, <1>7, <1>8, <1>9, <1>10, <1>11 DEF Next

\* Queued looks at the two parts of a loop's line.
LEMMA QueuedIsInLine ==
  ASSUME ServerTypeOK
  PROVE  \A l \in AllLoops : \A op, id : Queued(l, op, id) <=> Has(line[l], <<op, id>>)
<1> TAKE l \in AllLoops
<1> TAKE op, id
<1>1. lp[l].fns \in Seq(Functors) /\ pend[l] \in Seq(Functors) /\ line[l] = lp[l].fns \o pend[l]
  BY DEF ServerTypeOK, LoopType, line
<1>2. Queued(l, op, id) <=> Has(lp[l].fns, <<op, id>>) \/ Has(pend[l], <<op, id>>)
  BY DEF Queued, Has
<1> DEFINE s == lp[l].fns  t == pend[l]  x == <<op, id>>
<1> HIDE DEF s, t, x
<1>3. Has(s \o t, x) <=> Has(s, x) \/ Has(t, x)
  BY <1>1, HasBoth DEF s, t
<1> QED BY <1>1, <1>2, <1>3 DEF s, t, x

LEMMA LifeForgetsNone == ServerTypeOK /\ ServerLife => NoConnectionForgotten
<1> SUFFICES ASSUME ServerTypeOK, ServerLife PROVE NoConnectionForgotten
  OBVIOUS
<1>1. \A l \in AllLoops : \A op, id : Queued(l, op, id) <=> Has(line[l], <<op, id>>)
  BY QueuedIsInLine
<1>2. ASSUME NEW id \in Made
      PROVE  /\ id \in connections \/ conn[id].destroyed
                \/ Queued(conn[id].loop, "connectDestroyed", id) \/ srv.dtor # "no"
             /\ id \in connections => ~ conn[id].destroyed
                                      /\ ~ Queued(conn[id].loop, "connectDestroyed", id)
  <2>1. /\ id \in Clients /\ conn[id].status # "none" /\ conn[id].loop \in AllLoops
        /\ conn[id].status \in {"none", "Connecting", "Connected", "Disconnected"}
    BY DEF Made, ServerTypeOK, ConnType
  <2>2. Story(id)
    BY <2>1 DEF ServerLife
  <2> QED BY <1>1, <2>1, <2>2 DEF Story, Way
<1> QED BY <1>2 DEF NoConnectionForgotten, ServerLife

\* The connections that were made are those whose number was given; each of them exists or
\* was destroyed.
LEMMA CountedKept == ServerTypeOK /\ NumbersGiven /\ DescriptorsCounted /\ ServerLife => DescriptorsKept
<1> SUFFICES ASSUME ServerTypeOK, NumbersGiven, DescriptorsCounted, ServerLife
             PROVE  DescriptorsKept
  OBVIOUS
<1>1. IsFiniteSet(Clients) /\ Cardinality(Clients) = MaxClients /\ MaxClients \in Nat
  <2>1. MaxClients < 1 => MaxClients = 0
    BY ServerConstants
  <2>2. IsFiniteSet(1..MaxClients) /\ Cardinality(1..MaxClients) = MaxClients - 1 + 1
    BY <2>1, ServerConstants, FS_Interval
  <2> QED BY <2>2, ServerConstants DEF Clients
<1>2. Accepted \subseteq Clients
  BY DEF Accepted
<1>3. Cardinality(Accepted) \in Nat /\ Cardinality(Accepted) <= MaxClients
  BY <1>1, <1>2, FS_Subset, FS_CardinalityType
<1>4. srv.nextConnId \in Nat /\ srv.nextConnId - 1 \in Nat /\ srv.nextConnId - 1 <= MaxClients
  BY <1>3 DEF NumbersGiven
<1> DEFINE n == srv.nextConnId - 1
<1>5. Made = 1..n
  <2>1. n \in Nat /\ n <= MaxClients /\ srv.nextConnId = n + 1
    BY <1>4
  <2>2. \A id \in Clients : id \in Made <=> id < srv.nextConnId
    BY DEF NumbersGiven, Made
  <2>3. Made \subseteq Clients /\ Clients = 1..MaxClients
    BY DEF Made, Clients
  <2> HIDE DEF n
  <2>4. \A id : id \in 1..n <=> id \in Clients /\ id < srv.nextConnId
    BY <1>1, <2>1, <2>3
  <2> QED BY <2>2, <2>3, <2>4
<1>6. Cardinality(Made) = n
  <2>1. n \in Nat
    BY <1>4
  <2> HIDE DEF n
  <2>2. n < 1 => n = 0
    BY <2>1
  <2>3. Cardinality(1..n) = n
    BY <2>1, <2>2, FS_Interval
  <2> QED BY <1>5, <2>3
<1>7. Existing \cup {id \in Clients : conn[id].destroyed} = Made
  <2>1. 0 \in AllLoops
    BY ServerConstants DEF AllLoops
  <2>2. ASSUME NEW id \in Clients
        PROVE  id \in Existing \/ conn[id].destroyed <=> conn[id].status # "none"
    <3>1. conn[id].loop \in AllLoops /\ Story(id)
      BY DEF ServerTypeOK, ConnType, ServerLife
    <3>2. id \in Existing <=> \/ id \in connections
                             \/ Has(line[0], <<"removeConnectionInLoop", id>>)
                             \/ Has(line[conn[id].loop], <<"connectEstablished", id>>)
                             \/ Has(line[conn[id].loop], <<"connectDestroyed", id>>)
      BY <2>1, <3>1, QueuedIsInLine DEF Existing
    <3> QED BY <2>1, <3>1, <3>2 DEF Story, Ops
  <2> QED BY <2>2 DEF Existing, Made
<1> QED BY <1>6, <1>7 DEF DescriptorsCounted, DescriptorsKept, Accounted, ServerTypeOK, AccType

-----------------------------------------------------------------------------
\* The inductive invariant: the parts of it that need each other.
ServerInv == /\ ServerTypeOK /\ NumbersGiven /\ LinesKept
             /\ ThreadsOver /\ NoThreadOutlivesServer
             /\ DescriptorsCounted /\ ServerLife

LEMMA ServerInductive == Spec => []ServerInv
<1>1. Init => ServerInv
  BY TypeInit, ThreadsInit, CountedInit, LifeInit DEF ServerInv
<1>2. ServerInv /\ [Next]_vars => ServerInv'
  BY TypeNext, LinesNext, ThreadsNext, OutlivedNext, CountedNext, LifeNext DEF ServerInv
<1> QED BY <1>1, <1>2, PTL DEF Spec

\* The variables of TcpServer, its acceptor and its loops keep their types, whatever the
\* numbers of threads, clients and descriptors; the number of a new connection is never
\* out of the range of the clients, nor next_ out of that of the pool's loops.
THEOREM ServerTypeCorrect == Spec => []ServerTypeOK
<1>1. ServerInv => ServerTypeOK
  BY DEF ServerInv
<1> QED BY <1>1, ServerInductive, PTL

\* A connection made by newConnection is in connections_ until removeConnectionInLoop has
\* erased it, which finds it there each time (assert(n == 1)), and is from then on queued
\* for connectDestroyed or destroyed.
THEOREM NoneForgotten == Spec => []NoConnectionForgotten
<1>1. ServerInv => NoConnectionForgotten
  BY LifeForgetsNone DEF ServerInv
<1> QED BY <1>1, ServerInductive, PTL

\* Whatever the order of the system calls of Acceptor::handleRead and of the other threads
\* of the process, up to the end of ~TcpServer, which closes idleFd_, each descriptor is
\* free, another thread's, idleFd_'s or that of a connection that exists, or it is lost with
\* a connection that connectDestroyed has run for, as nothing closes it.
THEOREM DescriptorsAreKept == Spec => []DescriptorsKept
<1>1. ServerInv => DescriptorsKept
  BY CountedKept DEF ServerInv
<1> QED BY <1>1, ServerInductive, PTL

\* No thread of the pool runs a functor or a callback of the server after ~TcpServer, which
\* has joined them all.
THEOREM NoThreadOutlives == Spec => []NoThreadOutlivesServer
<1>1. ServerInv => NoThreadOutlivesServer
  BY DEF ServerInv
<1> QED BY <1>1, ServerInductive, PTL

=============================================================================
