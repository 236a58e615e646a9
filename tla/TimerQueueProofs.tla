------------------------ MODULE TimerQueueProofs ------------------------
(***************************************************************************)
(* Proofs about module TimerQueue, for any number of addresses, timers and *)
(* clients' calls.                                                         *)
(***************************************************************************)
EXTENDS TimerQueue, TimerHeapProofs

-----------------------------------------------------------------------------
(* The inductive invariant *)

Entry == [exp : Nat, timer : Addr]
TimerObject == [seq : Nat, exp : Nat, interval : Nat, index : Int]
Id == [timer : Addr, seq : Nat]
Op == [op : {"add", "cancel"}, id : Id]

TimersIn(h) == {h[p].timer : p \in DOMAIN h}
InBatch(a) == \E i \in DOMAIN expired : expired[i] = a
Adds(j, a) == ops[j].op = "add" /\ ops[j].id.timer = a
Cancels(j, n) == ops[j].op = "cancel" /\ ops[j].id.seq = n
Queued(a) == \E j \in DOMAIN ops : Adds(j, a)
AddsOnce == \A j, k \in DOMAIN ops, a \in Addr : Adds(j, a) /\ Adds(k, a) => j = k
CancelsOnce == \A j, k \in DOMAIN ops, n \in Nat : Cancels(j, n) /\ Cancels(k, n) => j = k

TimerTypeOK ==
  /\ now \in Nat /\ seq \in Nat /\ readAt \in Nat
  /\ live \subseteq Addr /\ canceling \subseteq Addr
  /\ lpc \in {"poll", "handle", "expired", "functors", "destroyed"}
  /\ expired \in Seq(Addr) /\ ops \in Seq(Op)
  /\ returning \subseteq Id /\ ids \subseteq Id
  /\ asked \subseteq Nat /\ cancelled \subseteq Nat

\* The heap h, the timers tm and the addresses L agree.
Agree(h, tm, L) ==
  /\ h \in Seq(Entry) /\ tm \in [Addr -> TimerObject] /\ L \subseteq Addr
  /\ IsHeap(h)
  /\ \A p \in DOMAIN h : /\ h[p].timer \in L
                         /\ tm[h[p].timer].index = p - 1
                         /\ tm[h[p].timer].exp = h[p].exp
  /\ \A a \in L : a \notin TimersIn(h) => tm[a].index = -1

HeapAgrees == Agree(heap, timer, live)

\* A timer that exists is in one place: the heap, the batch or a functor that will add it.
OnePlace ==
  /\ \A i \in DOMAIN expired : expired[i] \in live /\ expired[i] \notin TimersIn(heap)
  /\ \A i, j \in DOMAIN expired : expired[i] = expired[j] => i = j
  /\ \A j \in DOMAIN ops, a \in Addr :
        Adds(j, a) => a \in live /\ a \notin TimersIn(heap) /\ ~ InBatch(a)
  /\ AddsOnce
  /\ \A a \in live : a \in TimersIn(heap) \/ InBatch(a) \/ Queued(a)
  /\ lpc # "expired" => expired = <<>>

\* Sequence numbers are given once.
Numbered ==
  /\ \A a \in live : timer[a].seq <= seq
  /\ \A a, b \in live : timer[a].seq = timer[b].seq => a = b
  /\ \A n \in cancelled : n <= seq

\* A cancellation that took effect is of a timer that has gone, or that reset() is
\* about to delete.
CancelledGo ==
  \A a \in live : timer[a].seq \in cancelled =>
     lpc = "expired" /\ a \in canceling /\ InBatch(a)

\* What a queued cancel refers to is a repeating timer, and nothing else cancels it.
CancelsRefer ==
  /\ lpc # "destroyed" => \A j \in DOMAIN ops : ops[j].op = "cancel" =>
        Refers(ops[j].id) /\ Repeats(ops[j].id.timer) /\ ops[j].id.seq \in asked
  /\ CancelsOnce

\* What reset() takes for cancelled was asked for, by a call that is over.
CancelingAsked ==
  lpc = "expired" => \A a \in canceling :
     /\ a \in live /\ a \notin TimersIn(heap) /\ timer[a].seq \in asked
     /\ \A j \in DOMAIN ops : ~ Cancels(j, timer[a].seq)

TimerInv == /\ TimerTypeOK /\ HeapAgrees /\ OnePlace /\ Numbered /\ CancelledGo
            /\ CancelsRefer /\ CancelingAsked /\ NoUseAfterFree

-----------------------------------------------------------------------------
(* The heap and the timers *)

LEMMA EntryTimed == Timed(Entry)
  BY DEF Timed, Entry

\* Only heapIndex_ of some timers differs.
SameTimers(tm, tn) ==
  \A a \in Addr : /\ tn[a].seq = tm[a].seq /\ tn[a].exp = tm[a].exp
                  /\ tn[a].interval = tm[a].interval

LEMMA AgreeDistinct ==
  ASSUME NEW h, NEW tm, NEW L, Agree(h, tm, L)
  PROVE  Distinct(h)
<1> SUFFICES ASSUME NEW p \in DOMAIN h, NEW q \in DOMAIN h, h[p].timer = h[q].timer PROVE p = q
  BY DEF Distinct
<1>1. tm[h[p].timer].index = p - 1 /\ tm[h[q].timer].index = q - 1
  BY DEF Agree
<1>2. p \in Nat /\ q \in Nat
  BY DEF Agree
<1> QED BY <1>1, <1>2

LEMMA TimersOfEntries == ASSUME NEW h PROVE TimersIn(h) = {e.timer : e \in Entries(h)}
<1>1. \A t : t \in TimersIn(h) <=> \E p \in DOMAIN h : t = h[p].timer
  BY DEF TimersIn
<1>2. \A t : t \in {e.timer : e \in Entries(h)} <=> \E p \in DOMAIN h : t = h[p].timer
  BY DEF Entries
<1> QED BY <1>1, <1>2

\* Reindex: the entries that moved have their positions written.
LEMMA ReindexWrites ==
  ASSUME NEW h \in Seq(Entry), NEW g \in Seq(Entry), NEW tm \in [Addr -> TimerObject],
         Distinct(g),
         \A p \in DOMAIN g : p \in DOMAIN h /\ h[p] = g[p] => tm[g[p].timer].index = p - 1
  PROVE  /\ Reindex(tm, h, g) \in [Addr -> TimerObject]
         /\ SameTimers(tm, Reindex(tm, h, g))
         /\ \A p \in DOMAIN g : Reindex(tm, h, g)[g[p].timer].index = p - 1
         /\ \A a \in Addr : a \notin TimersIn(g) => Reindex(tm, h, g)[a] = tm[a]
<1> DEFINE tn == Reindex(tm, h, g)
           Put(a) == \E p \in Moved(h, g) : g[p].timer = a
           at(a) == CHOOSE p \in Moved(h, g) : g[p].timer = a
           new(a) == [tm[a] EXCEPT !.index = at(a) - 1]
<1>1. tn = [a \in Addr |-> IF Put(a) THEN new(a) ELSE tm[a]]
  BY DEF Reindex
<1>2. \A p \in DOMAIN g : g[p].timer \in Addr /\ p \in Nat
  <2>1. \A p \in DOMAIN g : g[p] \in Entry /\ p \in Nat
    OBVIOUS
  <2>2. \A x \in Entry : x.timer \in Addr
    BY DEF Entry
  <2> QED BY <2>1, <2>2
<1>3. ASSUME NEW a \in Addr, Put(a)
      PROVE  at(a) \in Moved(h, g) /\ g[at(a)].timer = a /\ at(a) \in DOMAIN g
  BY <1>3 DEF Moved
<1> HIDE DEF tn, at
<1>4. ASSUME NEW a \in Addr, Put(a)
      PROVE  /\ new(a) \in TimerObject /\ new(a).index = at(a) - 1
             /\ new(a).seq = tm[a].seq /\ new(a).exp = tm[a].exp
             /\ new(a).interval = tm[a].interval
  <2>1. at(a) - 1 \in Int /\ tm[a] \in TimerObject
    BY <1>2, <1>3, <1>4
  <2> QED BY <2>1 DEF TimerObject
<1> HIDE DEF new
<1>5. tn \in [Addr -> TimerObject]
  <2> HIDE DEF Put
  <2> QED BY <1>1, <1>4
<1>6. SameTimers(tm, tn)
  <2> HIDE DEF Put
  <2> QED BY <1>1, <1>4 DEF SameTimers
<1>7. ASSUME NEW p \in DOMAIN g PROVE tn[g[p].timer].index = p - 1
  <2> DEFINE a == g[p].timer
  <2>1. a \in Addr
    BY <1>2
  <2>2. CASE Put(a)
    <3>1. at(a) = p
      BY <1>3, <2>1, <2>2 DEF Distinct
    <3>2. tn[a] = new(a)
      <4> HIDE DEF Put, a
      <4> QED BY <1>1, <2>1, <2>2
    <3> QED BY <1>4, <2>1, <2>2, <3>1, <3>2
  <2>3. CASE ~ Put(a)
    <3>1. p \notin Moved(h, g)
      BY <2>3
    <3>2. p \in DOMAIN h /\ h[p] = g[p]
      BY <3>1 DEF Moved
    <3>3. tn[a] = tm[a]
      <4> HIDE DEF Put, a
      <4> QED BY <1>1, <2>1, <2>3
    <3> QED BY <3>2, <3>3
  <2> QED BY <2>2, <2>3
<1>8. ASSUME NEW a \in Addr, a \notin TimersIn(g) PROVE tn[a] = tm[a]
  <2>1. ~ Put(a)
    BY <1>8 DEF TimersIn, Moved
  <2> HIDE DEF Put
  <2> QED BY <1>1, <2>1
<1> QED BY <1>5, <1>6, <1>7, <1>8 DEF tn

LEMMA TheOne == ASSUME NEW x PROVE The({x}) = x
  BY DEF The

\* insert(): a timer that was not in the heap is, and everything else stays.
LEMMA InsertAgrees ==
  ASSUME NEW h, NEW tm, NEW L, Agree(h, tm, L), NEW a \in L, a \notin TimersIn(h)
  PROVE  /\ Agree(insert(h, tm, a).heap, insert(h, tm, a).timer, L)
         /\ TimersIn(insert(h, tm, a).heap) = TimersIn(h) \cup {a}
         /\ SameTimers(tm, insert(h, tm, a).timer)
<1> DEFINE e == [exp |-> tm[a].exp, timer |-> a]
           g == Insert(h, e)
           tn == Reindex(tm, h, g)
<1>1. insert(h, tm, a) = [heap |-> g, timer |-> tn]
  <2>1. {[heap |-> x, timer |-> Reindex(tm, h, x)] : x \in {g}} = {[heap |-> g, timer |-> tn]}
    OBVIOUS
  <2> HIDE DEF g, tn
  <2> QED BY <2>1, TheOne DEF insert, g
<1>2. h \in Seq(Entry) /\ tm \in [Addr -> TimerObject] /\ L \subseteq Addr /\ IsHeap(h) /\ Distinct(h)
  BY AgreeDistinct DEF Agree
<1>3. e \in Entry /\ e.timer = a /\ e.exp = tm[a].exp
  BY <1>2 DEF Entry, TimerObject
<1>4. \A p \in DOMAIN h : h[p].timer # a
  BY DEF TimersIn
<1> HIDE DEF e
<1>5. /\ g \in Seq(Entry) /\ Entries(g) = Entries(h) \cup {e} /\ IsHeap(g) /\ Distinct(g)
  <2>1. \A p \in DOMAIN h : h[p].timer # e.timer
    BY <1>3, <1>4
  <2>2. Entries(g) = Entries(h) \cup {e} /\ g \in Seq(Entry) /\ IsHeap(g)
    BY <1>2, <1>3, EntryTimed, InsertOrders
  <2>3. Distinct(g)
    BY <1>2, <1>3, <2>1, EntryTimed, InsertOrders
  <2> QED BY <2>2, <2>3
<1> HIDE DEF g
<1>6. TimersIn(g) = TimersIn(h) \cup {a}
  BY <1>3, <1>5, TimersOfEntries
<1>7. \A p \in DOMAIN g : p \in DOMAIN h /\ h[p] = g[p] => tm[g[p].timer].index = p - 1
  BY DEF Agree
<1>8. /\ tn \in [Addr -> TimerObject] /\ SameTimers(tm, tn)
      /\ \A p \in DOMAIN g : tn[g[p].timer].index = p - 1
      /\ \A b \in Addr : b \notin TimersIn(g) => tn[b] = tm[b]
  BY <1>2, <1>5, <1>7, ReindexWrites, SMTT(30)
<1> HIDE DEF tn
<1>9. ASSUME NEW p \in DOMAIN g
      PROVE  g[p].timer \in L /\ tn[g[p].timer].exp = g[p].exp
  <2>1. g[p] \in Entries(h) \cup {e}
    BY <1>5 DEF Entries
  <2>2. CASE g[p] = e
    BY <1>2, <1>3, <1>8, <2>2 DEF SameTimers
  <2>3. CASE g[p] \in Entries(h)
    <3>1. PICK q \in DOMAIN h : g[p] = h[q]
      BY <2>3 DEF Entries
    <3>2. h[q].timer \in L /\ tm[h[q].timer].exp = h[q].exp
      BY DEF Agree
    <3> QED BY <1>2, <1>8, <3>1, <3>2 DEF SameTimers
  <2> QED BY <2>1, <2>2, <2>3
<1>10. ASSUME NEW b \in L, b \notin TimersIn(g) PROVE tn[b].index = -1
  <2>1. tn[b] = tm[b] /\ b \notin TimersIn(h)
    BY <1>2, <1>6, <1>8, <1>10
  <2> QED BY <2>1 DEF Agree
<1>11. Agree(g, tn, L)
  BY <1>2, <1>5, <1>8, <1>9, <1>10 DEF Agree
<1> QED BY <1>1, <1>6, <1>8, <1>11

\* removeTimer(): a timer that was in the heap is not any more.
LEMMA RemoveAgrees ==
  ASSUME NEW h, NEW tm, NEW L, Agree(h, tm, L), NEW a, a \in TimersIn(h)
  PROVE  /\ Agree(removeTimer(h, tm, a).heap, removeTimer(h, tm, a).timer, L)
         /\ TimersIn(removeTimer(h, tm, a).heap) = TimersIn(h) \ {a}
         /\ SameTimers(tm, removeTimer(h, tm, a).timer)
<1> DEFINE i == tm[a].index + 1
           g == Remove(h, i)
           tr == Reindex(tm, h, g)
           tn == [tr EXCEPT ![a].index = -1]
<1>1. h \in Seq(Entry) /\ tm \in [Addr -> TimerObject] /\ L \subseteq Addr /\ IsHeap(h) /\ Distinct(h)
  BY AgreeDistinct DEF Agree
<1>2. PICK p \in DOMAIN h : h[p].timer = a
  BY DEF TimersIn
<1>3. i \in DOMAIN h /\ h[i].timer = a /\ a \in L /\ a \in Addr
  <2>1. tm[a].index = p - 1 /\ a \in L /\ p \in Nat
    BY <1>1, <1>2 DEF Agree
  <2>2. i = p
    BY <2>1
  <2> QED BY <1>1, <1>2, <2>1, <2>2
<1>4. removeTimer(h, tm, a) = [heap |-> g, timer |-> tn]
  <2>1. {[heap |-> x, timer |-> [Reindex(tm, h, x) EXCEPT ![a].index = -1]] : x \in {g}}
          = {[heap |-> g, timer |-> tn]}
    OBVIOUS
  <2>2. (IF tm[a].index + 1 \in DOMAIN h THEN Remove(h, tm[a].index + 1) ELSE h) = g
    BY <1>3
  <2> HIDE DEF g, tn
  <2> QED BY <2>1, <2>2, TheOne DEF removeTimer
<1> HIDE DEF i
<1>5. g \in Seq(Entry) /\ Entries(g) = Entries(h) \ {h[i]} /\ IsHeap(g) /\ Distinct(g)
  <2>1. i \in 1..Len(h)
    BY <1>1, <1>3
  <2> QED BY <1>1, <2>1, EntryTimed, RemoveOrders
<1> HIDE DEF g
<1>6. TimersIn(g) = TimersIn(h) \ {a}
  <2>1. \A e \in Entries(h) : e.timer = a <=> e = h[i]
    BY <1>1, <1>3 DEF Entries, Distinct
  <2> QED BY <1>5, <2>1, TimersOfEntries
<1>7. \A q \in DOMAIN g : q \in DOMAIN h /\ h[q] = g[q] => tm[g[q].timer].index = q - 1
  BY DEF Agree
<1>8. /\ tr \in [Addr -> TimerObject] /\ SameTimers(tm, tr)
      /\ \A q \in DOMAIN g : tr[g[q].timer].index = q - 1
      /\ \A b \in Addr : b \notin TimersIn(g) => tr[b] = tm[b]
  BY <1>1, <1>5, <1>7, ReindexWrites
<1> HIDE DEF tr
<1>9. /\ tn \in [Addr -> TimerObject] /\ SameTimers(tm, tn) /\ tn[a].index = -1
      /\ \A b \in Addr : b # a => tn[b] = tr[b]
  <2>1. tn = [b \in Addr |-> IF b = a THEN [tr[a] EXCEPT !.index = -1] ELSE tr[b]]
    BY <1>3, <1>8
  <2>2. /\ [tr[a] EXCEPT !.index = -1] \in TimerObject
        /\ [tr[a] EXCEPT !.index = -1].index = -1
        /\ [tr[a] EXCEPT !.index = -1].seq = tr[a].seq
        /\ [tr[a] EXCEPT !.index = -1].exp = tr[a].exp
        /\ [tr[a] EXCEPT !.index = -1].interval = tr[a].interval
    BY <1>3, <1>8 DEF TimerObject
  <2> HIDE DEF tn
  <2> QED BY <1>3, <1>8, <2>1, <2>2 DEF SameTimers
<1> HIDE DEF tn
<1>10. ASSUME NEW q \in DOMAIN g
       PROVE  /\ g[q].timer \in L /\ tn[g[q].timer].exp = g[q].exp
              /\ tn[g[q].timer].index = q - 1
  <2>1. PICK r \in DOMAIN h : g[q] = h[r]
    BY <1>5 DEF Entries
  <2>2. h[r].timer \in L /\ tm[h[r].timer].exp = h[r].exp
    BY DEF Agree
  <2>3. g[q].timer \in TimersIn(g)
    BY DEF TimersIn
  <2> QED BY <1>1, <1>6, <1>8, <1>9, <2>1, <2>2, <2>3 DEF SameTimers
<1>11. ASSUME NEW b \in L, b \notin TimersIn(g) PROVE tn[b].index = -1
  <2>1. CASE b = a
    BY <1>9, <2>1
  <2>2. CASE b # a
    <3>1. tn[b] = tm[b] /\ b \notin TimersIn(h)
      BY <1>1, <1>6, <1>8, <1>9, <1>11, <2>2
    <3> QED BY <3>1 DEF Agree
  <2> QED BY <2>1, <2>2
<1>12. Agree(g, tn, L)
  BY <1>1, <1>5, <1>9, <1>10, <1>11 DEF Agree
<1> QED BY <1>4, <1>6, <1>9, <1>12

\* A timer that is not in the heap may become another, without an index.
LEMMA ReplaceAgrees ==
  ASSUME NEW h, NEW tm, NEW L, Agree(h, tm, L), NEW a \in Addr, a \notin TimersIn(h),
         NEW o \in TimerObject, o.index = -1
  PROVE  Agree(h, [tm EXCEPT ![a] = o], L \cup {a})
<1> DEFINE tn == [tm EXCEPT ![a] = o]
<1>1. tn \in [Addr -> TimerObject] /\ tn[a] = o /\ \A b \in Addr : b # a => tn[b] = tm[b]
  BY DEF Agree
<1> HIDE DEF tn
<1>2. \A p \in DOMAIN h : h[p].timer # a /\ h[p].timer \in L /\ h[p].timer \in Addr
  BY DEF Agree, TimersIn
<1>3. \A p \in DOMAIN h : /\ h[p].timer \in L \cup {a}
                          /\ tn[h[p].timer].index = p - 1
                          /\ tn[h[p].timer].exp = h[p].exp
  BY <1>1, <1>2 DEF Agree
<1>4. \A b \in L \cup {a} : b \notin TimersIn(h) => tn[b].index = -1
  BY <1>1 DEF Agree
<1>5. Agree(h, tn, L \cup {a})
  BY <1>1, <1>3, <1>4 DEF Agree
<1> QED BY <1>5 DEF tn

\* Timers that are not in the heap may go.
LEMMA FewerAgree ==
  ASSUME NEW h, NEW tm, NEW L, NEW M, Agree(h, tm, L), M \subseteq L, TimersIn(h) \subseteq M
  PROVE  Agree(h, tm, M)
  BY DEF Agree, TimersIn

-----------------------------------------------------------------------------
(* getExpired: popping from the heap, as often as there are timers in it *)

PopStart == [heap |-> heap, timer |-> timer, out |-> <<>>]
IsPop(u, m) ==
  u = [n \in 0..m |-> IF n = 0 THEN [heap |-> heap, timer |-> timer, out |-> <<>>]
                      ELSE The({PopFirst(s) : s \in {u[n - 1]}})]

LEMMA PopExists == ASSUME NEW m \in Nat PROVE \E u : IsPop(u, m)
<1> DEFINE Body(u, n) == IF n = 0 THEN PopStart ELSE The({PopFirst(s) : s \in {u[n - 1]}})
           S == {n \in Nat : \E u : u = [k \in 0..n |-> Body(u, k)]}
<1>1. 0 \in S
  <2> DEFINE u == [k \in 0..0 |-> PopStart]
  <2>1. \A k \in 0..0 : Body(u, k) = PopStart
    OBVIOUS
  <2>2. u = [k \in 0..0 |-> Body(u, k)]
    <3> HIDE DEF Body, PopStart
    <3> QED BY <2>1
  <2> HIDE DEF u, Body
  <2> QED BY <2>2
<1>2. ASSUME NEW n \in Nat, n \in S PROVE n + 1 \in S
  <2>1. PICK u : u = [k \in 0..n |-> Body(u, k)]
    BY <1>2
  <2> DEFINE v == [k \in 0..n + 1 |-> Body(u, k)]
  <2>2. ASSUME NEW k \in 0..n + 1 PROVE Body(v, k) = Body(u, k)
    <3>1. CASE k # 0
      <4>1. k - 1 \in 0..n /\ k - 1 \in 0..n + 1
        BY <3>1
      <4>2. u[k - 1] = Body(u, k - 1) /\ v[k - 1] = Body(u, k - 1)
        <5> HIDE DEF Body
        <5> QED BY <2>1, <4>1
      <4>3. u[k - 1] = v[k - 1]
        BY <4>2
      <4> HIDE DEF v
      <4> QED BY <4>3
    <3>2. CASE k = 0
      BY <3>2
    <3> QED BY <3>1, <3>2
  <2>3. v = [k \in 0..n + 1 |-> Body(v, k)]
    <3> HIDE DEF Body
    <3> QED BY <2>2
  <2> HIDE DEF v, Body
  <2> QED BY <2>3
<1>3. m \in S
  <2> HIDE DEF S
  <2> QED BY <1>1, <1>2, Induct
<1> QED BY <1>3 DEF IsPop, PopStart

LEMMA PopIsPop ==
  ASSUME Len(heap) \in Nat PROVE \E u : IsPop(u, Len(heap)) /\ getExpired = u[Len(heap)]
<1> DEFINE u == CHOOSE u : IsPop(u, Len(heap))
<1>1. IsPop(u, Len(heap))
  BY PopExists
<1>2. getExpired = u[Len(heap)]
  BY DEF getExpired, IsPop
<1> HIDE DEF u
<1> QED BY <1>1, <1>2

\* What s.heap has lost is in s.out.
Popped(s) ==
  /\ Agree(s.heap, s.timer, live) /\ SameTimers(timer, s.timer)
  /\ s.out \in Seq(Addr)
  /\ \A i, j \in 1..Len(s.out) : s.out[i] = s.out[j] => i = j
  /\ \A i \in 1..Len(s.out) : s.out[i] \in TimersIn(heap) /\ s.out[i] \notin TimersIn(s.heap)
  /\ TimersIn(s.heap) \subseteq TimersIn(heap)
  /\ \A a \in TimersIn(heap) :
        a \in TimersIn(s.heap) \/ \E i \in 1..Len(s.out) : s.out[i] = a

LEMMA PopFirstPops == ASSUME NEW s, Popped(s) PROVE Popped(PopFirst(s))
<1>1. CASE s.heap = <<>> \/ s.heap[1].exp > now
  <2>1. PopFirst(s) = s
    BY <1>1 DEF PopFirst
  <2> QED BY <2>1
<1>2. CASE ~ (s.heap = <<>> \/ s.heap[1].exp > now)
  <2> DEFINE a == s.heap[1].timer
             r == removeTimer(s.heap, s.timer, a)
             o == Append(s.out, a)
  <2>1. PopFirst(s) = [heap |-> r.heap, timer |-> r.timer, out |-> o]
    <3>1. {[heap |-> x.heap, timer |-> x.timer, out |-> o] : x \in {r}}
            = {[heap |-> r.heap, timer |-> r.timer, out |-> o]}
      OBVIOUS
    <3> HIDE DEF r
    <3> QED BY <1>2, <3>1, TheOne DEF PopFirst, r
  <2>2. 1 \in DOMAIN s.heap
    BY <1>2 DEF Popped, Agree
  <2>3. a \in TimersIn(s.heap) /\ a \in live /\ a \in Addr
    BY <2>2 DEF Popped, Agree, TimersIn
  <2> HIDE DEF a
  <2>4. /\ Agree(r.heap, r.timer, live) /\ SameTimers(s.timer, r.timer)
        /\ TimersIn(r.heap) = TimersIn(s.heap) \ {a}
    BY <2>3, RemoveAgrees DEF Popped
  <2> HIDE DEF r
  <2>5. SameTimers(timer, r.timer)
    BY <2>4 DEF SameTimers, Popped
  <2>6. /\ s.out \in Seq(Addr) /\ o \in Seq(Addr) /\ Len(o) = Len(s.out) + 1
        /\ o[Len(s.out) + 1] = a /\ \A i \in 1..Len(s.out) : o[i] = s.out[i]
    BY <2>3 DEF Popped
  <2> HIDE DEF o
  <2>7. /\ Len(s.out) \in Nat /\ Len(s.out) + 1 \in 1..Len(o)
        /\ \A i \in 1..Len(o) : i \in 1..Len(s.out) \/ i = Len(s.out) + 1
        /\ \A i \in 1..Len(s.out) : i \in 1..Len(o)
    BY <2>6
  <2>8. \A i, j \in 1..Len(o) : o[i] = o[j] => i = j
    BY <2>3, <2>6, <2>7 DEF Popped
  <2>9. \A i \in 1..Len(o) : o[i] \in TimersIn(heap) /\ o[i] \notin TimersIn(r.heap)
    BY <2>3, <2>4, <2>6, <2>7 DEF Popped
  <2>10. \A b \in TimersIn(heap) : b \in TimersIn(r.heap) \/ \E i \in 1..Len(o) : o[i] = b
    <3> SUFFICES ASSUME NEW b \in TimersIn(heap), b \notin TimersIn(r.heap)
                 PROVE  \E i \in 1..Len(o) : o[i] = b
      OBVIOUS
    <3>1. CASE b = a
      BY <2>6, <2>7, <3>1
    <3>2. CASE b # a
      <4>1. \E i \in 1..Len(s.out) : s.out[i] = b
        BY <2>4, <3>2 DEF Popped
      <4> QED BY <2>6, <2>7, <4>1
    <3> QED BY <3>1, <3>2
  <2>11. TimersIn(r.heap) \subseteq TimersIn(heap)
    BY <2>4 DEF Popped
  <2> QED BY <2>1, <2>4, <2>5, <2>6, <2>8, <2>9, <2>10, <2>11 DEF Popped
<1> QED BY <1>1, <1>2

LEMMA ExpiredPopped == ASSUME HeapAgrees PROVE Popped(getExpired)
<1>0. Len(heap) \in Nat
  BY DEF HeapAgrees, Agree
<1>1. PICK u : IsPop(u, Len(heap)) /\ getExpired = u[Len(heap)]
  BY <1>0, PopIsPop
<1> DEFINE S == {n \in Nat : n <= Len(heap) => Popped(u[n])}
<1>2. 0 \in S
  <2>1. u[0] = [heap |-> heap, timer |-> timer, out |-> <<>>]
    BY <1>0, <1>1 DEF IsPop
  <2>2. Popped([heap |-> heap, timer |-> timer, out |-> <<>>])
    BY DEF Popped, HeapAgrees, SameTimers
  <2> QED BY <2>1, <2>2
<1>3. ASSUME NEW n \in Nat, n \in S PROVE n + 1 \in S
  <2> SUFFICES ASSUME n + 1 <= Len(heap) PROVE Popped(u[n + 1])
    OBVIOUS
  <2>1. Popped(u[n])
    BY <1>0, <1>3
  <2>2. u[n + 1] = The({PopFirst(s) : s \in {u[(n + 1) - 1]}})
    <3> DEFINE Body(k) == IF k = 0 THEN [heap |-> heap, timer |-> timer, out |-> <<>>]
                          ELSE The({PopFirst(s) : s \in {u[k - 1]}})
    <3>1. u = [k \in 0..Len(heap) |-> Body(k)]
      BY <1>1 DEF IsPop
    <3>2. n + 1 \in 0..Len(heap) /\ n + 1 # 0
      BY <1>0
    <3>3. u[n + 1] = Body(n + 1)
      <4> HIDE DEF Body
      <4> QED BY <3>1, <3>2
    <3> QED BY <3>2, <3>3
  <2>3. (n + 1) - 1 = n
    OBVIOUS
  <2>4. {PopFirst(s) : s \in {u[n]}} = {PopFirst(u[n])}
    OBVIOUS
  <2>5. u[n + 1] = PopFirst(u[n])
    BY <2>2, <2>3, <2>4, TheOne
  <2> QED BY <2>1, <2>5, PopFirstPops
<1>4. Len(heap) \in S
  <2> HIDE DEF S
  <2> QED BY <1>0, <1>2, <1>3, Induct
<1> QED BY <1>0, <1>1, <1>4

-----------------------------------------------------------------------------
(* reset(): the batch inserted again, one timer after the other *)

IsIns(u, m) ==
  u = [n \in 0..m |-> IF n = 0 THEN [heap |-> heap, timer |-> timer]
                      ELSE The({Reinserted(s, expired[n]) : s \in {u[n - 1]}})]

LEMMA InsExists == ASSUME NEW m \in Nat PROVE \E u : IsIns(u, m)
<1> DEFINE Start == [heap |-> heap, timer |-> timer]
           Body(u, n) == IF n = 0 THEN Start
                         ELSE The({Reinserted(s, expired[n]) : s \in {u[n - 1]}})
           S == {n \in Nat : \E u : u = [k \in 0..n |-> Body(u, k)]}
<1>1. 0 \in S
  <2> DEFINE u == [k \in 0..0 |-> Start]
  <2>1. \A k \in 0..0 : Body(u, k) = Start
    OBVIOUS
  <2>2. u = [k \in 0..0 |-> Body(u, k)]
    <3> HIDE DEF Body, Start
    <3> QED BY <2>1
  <2> HIDE DEF u, Body
  <2> QED BY <2>2
<1>2. ASSUME NEW n \in Nat, n \in S PROVE n + 1 \in S
  <2>1. PICK u : u = [k \in 0..n |-> Body(u, k)]
    BY <1>2
  <2> DEFINE v == [k \in 0..n + 1 |-> Body(u, k)]
  <2>2. ASSUME NEW k \in 0..n + 1 PROVE Body(v, k) = Body(u, k)
    <3>1. CASE k # 0
      <4>1. k - 1 \in 0..n /\ k - 1 \in 0..n + 1
        BY <3>1
      <4>2. u[k - 1] = Body(u, k - 1) /\ v[k - 1] = Body(u, k - 1)
        <5> HIDE DEF Body
        <5> QED BY <2>1, <4>1
      <4>3. u[k - 1] = v[k - 1]
        BY <4>2
      <4> HIDE DEF v
      <4> QED BY <4>3
    <3>2. CASE k = 0
      BY <3>2
    <3> QED BY <3>1, <3>2
  <2>3. v = [k \in 0..n + 1 |-> Body(v, k)]
    <3> HIDE DEF Body
    <3> QED BY <2>2
  <2> HIDE DEF v, Body
  <2> QED BY <2>3
<1>3. m \in S
  <2> HIDE DEF S
  <2> QED BY <1>1, <1>2, Induct
<1> QED BY <1>3 DEF IsIns

LEMMA InsIsIns ==
  ASSUME Len(expired) \in Nat PROVE \E u : IsIns(u, Len(expired)) /\ Reinsert = u[Len(expired)]
<1> DEFINE u == CHOOSE u : IsIns(u, Len(expired))
<1>1. IsIns(u, Len(expired))
  BY InsExists
<1>2. Reinsert = u[Len(expired)]
  BY DEF Reinsert, IsIns
<1> HIDE DEF u
<1> QED BY <1>1, <1>2

SameNumbers(tm, tn) ==
  \A a \in Addr : tn[a].seq = tm[a].seq /\ tn[a].interval = tm[a].interval

\* After n timers of the batch, those of them to restart are back in the heap.
Inserted(s, n) ==
  /\ Agree(s.heap, s.timer, live) /\ SameNumbers(timer, s.timer)
  /\ \A a \in Addr : a \in TimersIn(s.heap) <=>
       a \in TimersIn(heap) \/ (a \in Restarted /\ \E i \in 1..n : expired[i] = a)

LEMMA ReinsertedInserts ==
  ASSUME TimerTypeOK, OnePlace, NEW n \in Nat, n + 1 <= Len(expired), NEW s, Inserted(s, n)
  PROVE  Inserted(Reinserted(s, expired[n + 1]), n + 1)
<1> DEFINE a == expired[n + 1]
<1>1. /\ expired \in Seq(Addr) /\ n + 1 \in 1..Len(expired) /\ n + 1 \in DOMAIN expired
      /\ (\A i \in 1..n : i \in DOMAIN expired /\ i \in 1..n + 1 /\ i # n + 1)
      /\ (\A i \in 1..n + 1 : i \in 1..n \/ i = n + 1) /\ n + 1 \in 1..n + 1
  BY DEF TimerTypeOK
<1>2. a \in live /\ a \notin TimersIn(heap) /\ a \in Addr /\ \A i \in 1..n : expired[i] # a
  BY <1>1 DEF OnePlace, TimerTypeOK
<1> HIDE DEF a
<1>3. \A b \in Addr : (\E i \in 1..n + 1 : expired[i] = b) <=>
                      b = a \/ \E i \in 1..n : expired[i] = b
  BY <1>1 DEF a
<1>4. CASE a \notin Restarted
  <2>1. Reinserted(s, a) = s
    BY <1>4 DEF Reinserted
  <2> QED BY <1>3, <1>4, <2>1 DEF Inserted, a
<1>5. CASE a \in Restarted
  <2> DEFINE x == readAt + s.timer[a].interval
             o == [s.timer[a] EXCEPT !.exp = x]
             tm == [s.timer EXCEPT ![a] = o]
             r == insert(s.heap, tm, a)
  <2>0. a \notin TimersIn(s.heap)
    BY <1>2 DEF Inserted
  <2>1. Reinserted(s, a) = r
    BY <1>5 DEF Reinserted
  <2>2. s.timer \in [Addr -> TimerObject] /\ s.timer[a].index = -1
    BY <1>2, <2>0 DEF Inserted, Agree
  <2>3. /\ o \in TimerObject /\ o.index = -1 /\ o.seq = s.timer[a].seq
        /\ o.interval = s.timer[a].interval
    <3>1. x \in Nat
      <4>1. readAt \in Nat
        BY DEF TimerTypeOK
      <4>2. s.timer[a] \in TimerObject
        BY <1>2, <2>2
      <4>3. s.timer[a].interval \in Nat
        BY <4>2 DEF TimerObject
      <4> QED BY <4>1, <4>3
    <3> HIDE DEF x
    <3> QED BY <1>2, <2>2, <3>1 DEF TimerObject
  <2> HIDE DEF o
  <2>4. Agree(s.heap, tm, live)
    <3>1. live \cup {a} = live
      BY <1>2
    <3>2. Agree(s.heap, s.timer, live)
      BY DEF Inserted
    <3>3. Agree(s.heap, tm, live \cup {a})
      BY <1>2, <2>0, <2>3, <3>2, ReplaceAgrees
    <3> QED BY <3>1, <3>3
  <2>5. SameNumbers(timer, tm)
    <3>1. \A b \in Addr : tm[b] = IF b = a THEN o ELSE s.timer[b]
      BY <2>2
    <3> HIDE DEF tm
    <3> QED BY <2>3, <3>1 DEF Inserted, SameNumbers
  <2> HIDE DEF tm
  <2>6. /\ Agree(r.heap, r.timer, live) /\ SameTimers(tm, r.timer)
        /\ TimersIn(r.heap) = TimersIn(s.heap) \cup {a}
    BY <1>2, <2>0, <2>4, InsertAgrees
  <2> HIDE DEF r
  <2>7. SameNumbers(timer, r.timer)
    BY <2>5, <2>6 DEF SameNumbers, SameTimers
  <2>8. \A b \in Addr : b \in TimersIn(r.heap) <=>
          b \in TimersIn(heap) \/ (b \in Restarted /\ \E i \in 1..n + 1 : expired[i] = b)
    BY <1>3, <1>5, <2>6 DEF Inserted
  <2>9. Inserted(r, n + 1)
    BY <2>6, <2>7, <2>8 DEF Inserted
  <2> QED BY <2>1, <2>9 DEF a
<1> QED BY <1>4, <1>5

LEMMA BatchReinserted ==
  ASSUME TimerTypeOK, HeapAgrees, OnePlace PROVE Inserted(Reinsert, Len(expired))
<1>0. Len(expired) \in Nat
  BY DEF TimerTypeOK
<1>1. PICK u : IsIns(u, Len(expired)) /\ Reinsert = u[Len(expired)]
  BY <1>0, InsIsIns
<1> DEFINE S == {n \in Nat : n <= Len(expired) => Inserted(u[n], n)}
<1>2. 0 \in S
  <2>1. u[0] = [heap |-> heap, timer |-> timer]
    BY <1>0, <1>1 DEF IsIns
  <2>2. Inserted([heap |-> heap, timer |-> timer], 0)
    BY DEF Inserted, HeapAgrees, SameNumbers
  <2> QED BY <2>1, <2>2
<1>3. ASSUME NEW n \in Nat, n \in S PROVE n + 1 \in S
  <2> SUFFICES ASSUME n + 1 <= Len(expired) PROVE Inserted(u[n + 1], n + 1)
    OBVIOUS
  <2>1. Inserted(u[n], n)
    BY <1>0, <1>3
  <2>2. u[n + 1] = The({Reinserted(s, expired[n + 1]) : s \in {u[(n + 1) - 1]}})
    <3> DEFINE Body(k) == IF k = 0 THEN [heap |-> heap, timer |-> timer]
                          ELSE The({Reinserted(s, expired[k]) : s \in {u[k - 1]}})
    <3>1. u = [k \in 0..Len(expired) |-> Body(k)]
      BY <1>1 DEF IsIns
    <3>2. n + 1 \in 0..Len(expired) /\ n + 1 # 0
      BY <1>0
    <3>3. u[n + 1] = Body(n + 1)
      <4> HIDE DEF Body
      <4> QED BY <3>1, <3>2
    <3> QED BY <3>2, <3>3
  <2>3. (n + 1) - 1 = n
    OBVIOUS
  <2>4. {Reinserted(s, expired[n + 1]) : s \in {u[n]}} = {Reinserted(u[n], expired[n + 1])}
    OBVIOUS
  <2>5. u[n + 1] = Reinserted(u[n], expired[n + 1])
    BY <2>2, <2>3, <2>4, TheOne
  <2> QED BY <2>1, <2>5, ReinsertedInserts
<1>4. Len(expired) \in S
  <2> HIDE DEF S
  <2> QED BY <1>0, <1>2, <1>3, Induct
<1> QED BY <1>0, <1>1, <1>4

-----------------------------------------------------------------------------
(* The steps that leave the timers alone *)

Quiet == /\ UNCHANGED <<heap, timer, live, expired, canceling, ops, seq, asked, cancelled>>
         /\ lpc' = "expired" <=> lpc = "expired"
         /\ lpc' = "destroyed" <=> lpc = "destroyed"

LEMMA QuietKeeps ==
  ASSUME TimerInv, Quiet, TimerTypeOK', NoUseAfterFree' PROVE TimerInv'
<1>1. HeapAgrees'
  BY DEF TimerInv, HeapAgrees, Quiet
<1>2. OnePlace'
  BY DEF TimerInv, OnePlace, Quiet, Adds, AddsOnce, InBatch, Queued
<1>3. Numbered' /\ CancelledGo'
  BY DEF TimerInv, Numbered, CancelledGo, Quiet, InBatch
<1>4. CancelsRefer' /\ CancelingAsked'
  BY DEF TimerInv, CancelsRefer, CancelingAsked, Quiet, CancelsOnce, Cancels, Refers, Repeats
<1> QED BY <1>1, <1>2, <1>3, <1>4 DEF TimerInv

-----------------------------------------------------------------------------
(* HandleRead and Reset *)

LEMMA HandleReadKeeps ==
  ASSUME TimerInv, HandleRead, TimerTypeOK' PROVE TimerInv'
<1>1. /\ lpc = "handle" /\ lpc' = "expired" /\ canceling' = {}
      /\ ops' = ops /\ live' = live /\ seq' = seq /\ asked' = asked /\ cancelled' = cancelled
      /\ bad' = bad
  BY DEF HandleRead, clients
<1>2. /\ expired' = getExpired.out /\ heap' = getExpired.heap /\ timer' = getExpired.timer
  BY DEF HandleRead
<1>3. Popped(getExpired)
  BY ExpiredPopped DEF TimerInv
<1>4. /\ Agree(heap', timer', live) /\ SameTimers(timer, timer') /\ expired' \in Seq(Addr)
      /\ \A i, j \in 1..Len(expired') : expired'[i] = expired'[j] => i = j
      /\ \A i \in 1..Len(expired') :
            expired'[i] \in TimersIn(heap) /\ expired'[i] \notin TimersIn(heap')
      /\ TimersIn(heap') \subseteq TimersIn(heap)
      /\ \A a \in TimersIn(heap) :
            a \in TimersIn(heap') \/ \E i \in 1..Len(expired') : expired'[i] = a
  BY <1>2, <1>3 DEF Popped
<1>5. expired = <<>> /\ TimersIn(heap) \subseteq live /\ live \subseteq Addr
  BY <1>1 DEF TimerInv, OnePlace, HeapAgrees, Agree, TimersIn
<1>6. DOMAIN expired' = 1..Len(expired')
  BY <1>4
<1>7. \A a \in live : timer'[a].seq = timer[a].seq /\ timer'[a].interval = timer[a].interval
  BY <1>4, <1>5 DEF SameTimers
<1>8. HeapAgrees'
  BY <1>1, <1>4 DEF HeapAgrees
<1>9. OnePlace'
  <2>1. \A i \in DOMAIN expired' : expired'[i] \in live /\ expired'[i] \notin TimersIn(heap')
    BY <1>4, <1>5, <1>6
  <2>2. \A i, j \in DOMAIN expired' : expired'[i] = expired'[j] => i = j
    BY <1>4, <1>6
  <2>3. \A j \in DOMAIN ops, a \in Addr :
           Adds(j, a) => a \in live /\ a \notin TimersIn(heap') /\ ~ InBatch(a)'
    BY <1>4, <1>6 DEF TimerInv, OnePlace, InBatch
  <2>4. \A a \in live : a \in TimersIn(heap') \/ InBatch(a)' \/ Queued(a)
    BY <1>4, <1>5, <1>6 DEF TimerInv, OnePlace, InBatch
  <2>5. AddsOnce
    BY DEF TimerInv, OnePlace
  <2> QED BY <1>1, <2>1, <2>2, <2>3, <2>4, <2>5 DEF OnePlace, AddsOnce, Adds, Queued
<1>10. Numbered'
  BY <1>1, <1>7 DEF TimerInv, Numbered
<1>11. CancelledGo'
  BY <1>1, <1>7 DEF TimerInv, CancelledGo
<1>12. CancelsRefer'
  BY <1>1, <1>7 DEF TimerInv, CancelsRefer, CancelsOnce, Cancels, Refers, Repeats
<1>13. CancelingAsked'
  BY <1>1 DEF CancelingAsked
<1>14. NoUseAfterFree'
  BY <1>1 DEF TimerInv, NoUseAfterFree
<1> QED BY <1>8, <1>9, <1>10, <1>11, <1>12, <1>13, <1>14 DEF TimerInv

LEMMA ResetKeeps ==
  ASSUME TimerInv, Reset, TimerTypeOK' PROVE TimerInv'
<1> DEFINE Gone == {expired[i] : i \in DOMAIN expired} \ Restarted
<1>1. /\ lpc = "expired" /\ lpc' = "handle" /\ expired' = <<>> /\ live' = live \ Gone
      /\ ops' = ops /\ seq' = seq /\ asked' = asked /\ cancelled' = cancelled
      /\ bad' = bad /\ canceling' = canceling
  BY DEF Reset, clients
<1>2. heap' = Reinsert.heap /\ timer' = Reinsert.timer
  BY DEF Reset
<1>3. Inserted(Reinsert, Len(expired))
  BY BatchReinserted DEF TimerInv
<1>4. /\ expired \in Seq(Addr) /\ DOMAIN expired = 1..Len(expired) /\ live \subseteq Addr
  BY DEF TimerInv, TimerTypeOK
<1>5. /\ Agree(heap', timer', live) /\ SameNumbers(timer, timer')
      /\ \A a \in Addr : a \in TimersIn(heap') <=>
            a \in TimersIn(heap) \/ (a \in Restarted /\ InBatch(a))
  BY <1>2, <1>3, <1>4 DEF Inserted, InBatch
<1>6. \A a : a \in Restarted <=> InBatch(a) /\ Repeats(a) /\ a \notin canceling
  BY DEF Restarted, InBatch
<1>7. \A a : a \in Gone <=> InBatch(a) /\ ~ (Repeats(a) /\ a \notin canceling)
  BY <1>6 DEF InBatch
<1> HIDE DEF Gone
<1>8. \A a \in live : timer'[a].seq = timer[a].seq /\ timer'[a].interval = timer[a].interval
  BY <1>4, <1>5 DEF SameNumbers
<1>9. \A a \in TimersIn(heap) : a \in live /\ ~ InBatch(a)
  BY DEF TimerInv, OnePlace, HeapAgrees, Agree, TimersIn, InBatch
<1>10. HeapAgrees'
  <2>1. TimersIn(heap') \subseteq live
    BY <1>5 DEF Agree, TimersIn
  <2>2. TimersIn(heap') \subseteq live \ Gone
    BY <1>4, <1>5, <1>6, <1>7, <1>9, <2>1
  <2>3. live \ Gone \subseteq live
    OBVIOUS
  <2>4. Agree(heap', timer', live \ Gone)
    BY <1>5, <2>2, <2>3, FewerAgree
  <2> QED BY <1>1, <2>4 DEF HeapAgrees
<1>11. OnePlace'
  <2>1. \A j \in DOMAIN ops, a \in Addr : Adds(j, a) => a \in live' /\ a \notin TimersIn(heap')
    BY <1>1, <1>5, <1>7 DEF TimerInv, OnePlace
  <2>2. \A a \in live' : a \in TimersIn(heap') \/ Queued(a)
    BY <1>1, <1>4, <1>5, <1>6, <1>7 DEF TimerInv, OnePlace
  <2>3. AddsOnce
    BY DEF TimerInv, OnePlace
  <2> QED BY <1>1, <2>1, <2>2, <2>3 DEF OnePlace, AddsOnce, Adds, Queued, InBatch
<1>12. Numbered'
  BY <1>1, <1>8 DEF TimerInv, Numbered
<1>13. CancelledGo'
  <2>1. \A a \in live' : timer'[a].seq \notin cancelled
    BY <1>1, <1>7, <1>8 DEF TimerInv, CancelledGo
  <2> QED BY <1>1, <2>1 DEF CancelledGo
<1>14. CancelsRefer'
  <2>1. ASSUME NEW j \in DOMAIN ops, ops[j].op = "cancel"
        PROVE  /\ ops[j].id.timer \in live' /\ timer'[ops[j].id.timer].seq = ops[j].id.seq
               /\ timer'[ops[j].id.timer].interval > 0 /\ ops[j].id.seq \in asked
    <3> DEFINE a == ops[j].id.timer
    <3>1. /\ a \in live /\ timer[a].seq = ops[j].id.seq /\ Repeats(a)
          /\ ops[j].id.seq \in asked
      BY <1>1, <2>1 DEF TimerInv, CancelsRefer, Refers
    <3>2. a \notin canceling
      BY <1>1, <2>1, <3>1 DEF TimerInv, CancelingAsked, Cancels
    <3>3. a \notin Gone
      BY <1>7, <3>1, <3>2
    <3> QED BY <1>1, <1>8, <3>1, <3>3 DEF Repeats
  <2>2. CancelsOnce
    BY DEF TimerInv, CancelsRefer
  <2> QED BY <1>1, <2>1, <2>2 DEF CancelsRefer, CancelsOnce, Cancels, Refers, Repeats
<1>15. CancelingAsked'
  BY <1>1 DEF CancelingAsked
<1>16. NoUseAfterFree'
  BY <1>1 DEF TimerInv, NoUseAfterFree
<1> QED BY <1>10, <1>11, <1>12, <1>13, <1>14, <1>15, <1>16 DEF TimerInv

-----------------------------------------------------------------------------
(* The functors queued, and cancelInLoop *)

LEMMA TailOps ==
  ASSUME ops \in Seq(Op), AddsOnce, CancelsOnce, ops # <<>>, ops' = Tail(ops)
  PROVE  /\ ops' \in Seq(Op) /\ 1 \in DOMAIN ops /\ Head(ops) = ops[1]
         /\ \A j \in DOMAIN ops' : \E k \in DOMAIN ops : k # 1 /\ ops'[j] = ops[k]
         /\ \A k \in DOMAIN ops : k # 1 => \E j \in DOMAIN ops' : ops'[j] = ops[k]
         /\ AddsOnce' /\ CancelsOnce'
         /\ \A j \in DOMAIN ops', a \in Addr : Adds(1, a) => ~ Adds(j, a)'
         /\ \A j \in DOMAIN ops', n \in Nat : Cancels(1, n) => ~ Cancels(j, n)'
<1>1. /\ ops' \in Seq(Op) /\ 1 \in DOMAIN ops /\ Head(ops) = ops[1]
      /\ \A j \in DOMAIN ops' : j \in Nat /\ j + 1 # 1 /\ j + 1 \in DOMAIN ops /\ ops'[j] = ops[j + 1]
  OBVIOUS
<1>2. \A k \in DOMAIN ops : k # 1 => k - 1 \in DOMAIN ops' /\ ops'[k - 1] = ops[k]
  OBVIOUS
<1>3. AddsOnce'
  BY <1>1 DEF AddsOnce, Adds
<1>4. CancelsOnce'
  BY <1>1 DEF CancelsOnce, Cancels
<1>5. \A j \in DOMAIN ops', a \in Addr : Adds(1, a) => ~ Adds(j, a)'
  BY <1>1 DEF AddsOnce, Adds
<1>6. \A j \in DOMAIN ops', n \in Nat : Cancels(1, n) => ~ Cancels(j, n)'
  BY <1>1 DEF CancelsOnce, Cancels
<1> QED BY <1>1, <1>2, <1>3, <1>4, <1>5, <1>6

LEMMA AppendOps ==
  ASSUME ops \in Seq(Op), NEW o \in Op, ops' = Append(ops, o)
  PROVE  /\ ops' \in Seq(Op) /\ DOMAIN ops' = DOMAIN ops \cup {Len(ops) + 1}
         /\ Len(ops) + 1 \notin DOMAIN ops /\ ops'[Len(ops) + 1] = o
         /\ \A j \in DOMAIN ops : ops'[j] = ops[j]
  OBVIOUS

\* What cancelInLoop does to a timer that is still the one the id was given for.
LEMMA CancelDoes ==
  ASSUME HeapAgrees, NEW id \in Id, Refers(id), cancelInLoop(id)
  PROVE  /\ bad' = bad
         /\ \/ /\ id.timer \in TimersIn(heap)
               /\ Agree(heap', timer', live \ {id.timer}) /\ SameTimers(timer, timer')
               /\ TimersIn(heap') = TimersIn(heap) \ {id.timer}
               /\ live' = live \ {id.timer}
               /\ cancelled' = cancelled \cup {id.seq} /\ canceling' = canceling
            \/ /\ id.timer \notin TimersIn(heap) /\ lpc = "expired"
               /\ heap' = heap /\ timer' = timer /\ live' = live
               /\ canceling' = canceling \cup {id.timer}
               /\ cancelled' = IF InBatch(id.timer) THEN cancelled \cup {id.seq} ELSE cancelled
            \/ /\ heap' = heap /\ timer' = timer /\ live' = live
               /\ canceling' = canceling /\ cancelled' = cancelled
<1> DEFINE a == id.timer
<1>1. a \in live /\ timer[a].seq = id.seq /\ bad' = bad
  BY DEF cancelInLoop, Refers
<1>2. CASE /\ timer[a].index >= 0
           /\ \E r \in {removeTimer(heap, timer, a)} : heap' = r.heap /\ timer' = r.timer
           /\ live' = live \ {a} /\ cancelled' = cancelled \cup {timer[a].seq}
           /\ canceling' = canceling
  <2>1. a \in TimersIn(heap)
    BY <1>1, <1>2 DEF HeapAgrees, Agree
  <2>2. heap' = removeTimer(heap, timer, a).heap /\ timer' = removeTimer(heap, timer, a).timer
    BY <1>2
  <2>3. /\ Agree(heap', timer', live) /\ TimersIn(heap') = TimersIn(heap) \ {a}
        /\ SameTimers(timer, timer')
    BY <2>1, <2>2, RemoveAgrees DEF HeapAgrees
  <2>4. TimersIn(heap') \subseteq live \ {a}
    BY <2>3 DEF Agree, TimersIn
  <2>5. Agree(heap', timer', live \ {a})
    BY <2>3, <2>4, FewerAgree
  <2> QED BY <1>1, <1>2, <2>1, <2>3, <2>5
<1>3. CASE timer[a].index < 0
  <2>1. a \notin TimersIn(heap)
    <3> SUFFICES ASSUME NEW p \in DOMAIN heap, heap[p].timer = a PROVE FALSE
      BY DEF TimersIn
    <3>1. timer[a].index = p - 1 /\ p >= 1 /\ p \in Nat
      BY DEF HeapAgrees, Agree
    <3> QED BY <1>3, <3>1
  <2>2. ~ (timer[a].index >= 0)
    <3>1. timer[a].index \in Int
      BY <1>1 DEF HeapAgrees, Agree, TimerObject
    <3> QED BY <1>3, <3>1
  <2> QED BY <1>1, <1>3, <2>1, <2>2 DEF cancelInLoop, tq, callingExpired, InBatch
<1> QED BY <1>1, <1>2, <1>3 DEF cancelInLoop

LEMMA CancelKeeps ==
  ASSUME TimerInv, TimerTypeOK', NEW id \in Id, Refers(id), cancelInLoop(id),
         UNCHANGED <<lpc, expired, seq>>,
         \A j \in DOMAIN ops' : \E k \in DOMAIN ops : ops'[j] = ops[k],
         \A a \in Addr : Queued(a) => Queued(a)',
         AddsOnce', CancelsOnce',
         \A j \in DOMAIN ops' : ~ Cancels(j, id.seq)',
         asked \subseteq asked', id.seq \in asked'
  PROVE  TimerInv'
<1> DEFINE a == id.timer
           n == id.seq
<1>0. a \in live /\ timer[a].seq = n /\ a \in Addr /\ live \subseteq Addr /\ n \in Nat /\ n <= seq
  BY DEF Refers, TimerInv, TimerTypeOK, Numbered, Id
<1>2. \A j \in DOMAIN ops', b \in Addr : Adds(j, b)' => \E k \in DOMAIN ops : Adds(k, b)
  BY DEF Adds
<1>3. \A m : \A j \in DOMAIN ops' : Cancels(j, m)' => \E k \in DOMAIN ops : Cancels(k, m)
  BY DEF Cancels
<1>4. \A j \in DOMAIN ops' : ops'[j].op = "cancel" =>
        /\ ops'[j].id.seq # n /\ \E k \in DOMAIN ops : ops'[j] = ops[k]
  BY DEF Cancels
<1>5. bad' = bad /\ NoUseAfterFree'
  BY CancelDoes DEF TimerInv, NoUseAfterFree
<1>6. CASE /\ a \in TimersIn(heap)
           /\ Agree(heap', timer', live \ {a}) /\ SameTimers(timer, timer')
           /\ TimersIn(heap') = TimersIn(heap) \ {a}
           /\ live' = live \ {a}
           /\ cancelled' = cancelled \cup {n} /\ canceling' = canceling
  <2>1. \A b \in live : timer'[b].seq = timer[b].seq /\ timer'[b].interval = timer[b].interval
    BY <1>0, <1>6 DEF SameTimers
  <2>2. HeapAgrees'
    BY <1>6 DEF HeapAgrees
  <2>3. OnePlace'
    <3>1. \A i \in DOMAIN expired : expired[i] \in live' /\ expired[i] \notin TimersIn(heap')
      BY <1>6 DEF TimerInv, OnePlace
    <3>2. \A j \in DOMAIN ops', b \in Addr :
             Adds(j, b)' => b \in live' /\ b \notin TimersIn(heap') /\ ~ InBatch(b)
      BY <1>2, <1>6 DEF TimerInv, OnePlace
    <3>3. \A b \in live' : b \in TimersIn(heap') \/ InBatch(b) \/ Queued(b)'
      BY <1>0, <1>6 DEF TimerInv, OnePlace
    <3> QED BY <3>1, <3>2, <3>3 DEF TimerInv, OnePlace, InBatch
  <2>4. Numbered'
    BY <1>0, <1>6, <2>1 DEF TimerInv, Numbered
  <2>5. CancelledGo'
    <3> SUFFICES ASSUME NEW b \in live', timer'[b].seq \in cancelled'
                 PROVE  lpc = "expired" /\ b \in canceling /\ InBatch(b)
      BY <1>6 DEF CancelledGo, InBatch
    <3>1. b \in live /\ b # a /\ timer[b].seq \in cancelled \cup {n}
      BY <1>6, <2>1
    <3>2. timer[b].seq # n
      BY <1>0, <3>1 DEF TimerInv, Numbered
    <3> QED BY <3>1, <3>2 DEF TimerInv, CancelledGo
  <2>6. CancelsRefer'
    <3> SUFFICES ASSUME lpc # "destroyed", NEW j \in DOMAIN ops', ops'[j].op = "cancel"
                 PROVE  /\ ops'[j].id.timer \in live' /\ timer'[ops'[j].id.timer].seq = ops'[j].id.seq
                        /\ timer'[ops'[j].id.timer].interval > 0 /\ ops'[j].id.seq \in asked'
      BY DEF CancelsRefer, Refers, Repeats
    <3>1. PICK k \in DOMAIN ops : ops'[j] = ops[k]
      OBVIOUS
    <3>2. /\ ops[k].id.timer \in live /\ timer[ops[k].id.timer].seq = ops[k].id.seq
          /\ timer[ops[k].id.timer].interval > 0 /\ ops[k].id.seq \in asked
      BY <3>1 DEF TimerInv, CancelsRefer, Refers, Repeats
    <3>3. ops[k].id.timer # a
      BY <1>0, <1>4, <3>1, <3>2
    <3> QED BY <1>6, <2>1, <3>1, <3>2, <3>3
  <2>7. CancelingAsked'
    <3> SUFFICES ASSUME lpc = "expired", NEW b \in canceling
                 PROVE  /\ b \in live' /\ b \notin TimersIn(heap') /\ timer'[b].seq \in asked'
                        /\ \A j \in DOMAIN ops' : ~ Cancels(j, timer[b].seq)'
      BY <1>6 DEF CancelingAsked
    <3>1. /\ b \in live /\ b \notin TimersIn(heap) /\ timer[b].seq \in asked
          /\ \A j \in DOMAIN ops : ~ Cancels(j, timer[b].seq)
      BY DEF TimerInv, CancelingAsked
    <3>2. timer'[b].seq = timer[b].seq
      BY <2>1, <3>1
    <3>3. \A j \in DOMAIN ops' : ~ Cancels(j, timer[b].seq)'
      BY <1>3, <3>1, <3>2
    <3> QED BY <1>6, <3>1, <3>2, <3>3
  <2> QED BY <1>5, <2>2, <2>3, <2>4, <2>5, <2>6, <2>7 DEF TimerInv
<1>7. CASE /\ a \notin TimersIn(heap) /\ lpc = "expired"
           /\ heap' = heap /\ timer' = timer /\ live' = live
           /\ canceling' = canceling \cup {a}
           /\ cancelled' = IF InBatch(a) THEN cancelled \cup {n} ELSE cancelled
  <2>1. HeapAgrees'
    BY <1>7 DEF TimerInv, HeapAgrees
  <2>2. OnePlace'
    <3>1. \A j \in DOMAIN ops', b \in Addr :
             Adds(j, b)' => b \in live' /\ b \notin TimersIn(heap') /\ ~ InBatch(b)
      BY <1>2, <1>7 DEF TimerInv, OnePlace
    <3>2. \A b \in live' : b \in TimersIn(heap') \/ InBatch(b) \/ Queued(b)'
      BY <1>0, <1>7 DEF TimerInv, OnePlace
    <3> QED BY <1>7, <3>1, <3>2 DEF TimerInv, OnePlace, InBatch
  <2>3. Numbered'
    BY <1>0, <1>7 DEF TimerInv, Numbered
  <2>4. CancelledGo'
    <3> SUFFICES ASSUME NEW b \in live, timer[b].seq \in cancelled'
                 PROVE  b \in canceling' /\ InBatch(b)
      BY <1>7 DEF CancelledGo, InBatch
    <3>1. CASE timer[b].seq \in cancelled
      BY <1>7, <3>1 DEF TimerInv, CancelledGo
    <3>2. CASE timer[b].seq \notin cancelled
      <4>1. InBatch(a) /\ timer[b].seq = n
        BY <1>7, <3>2
      <4>2. b = a
        BY <1>0, <4>1 DEF TimerInv, Numbered
      <4> QED BY <1>7, <4>1, <4>2
    <3> QED BY <3>1, <3>2
  <2>5. CancelsRefer'
    BY <1>4, <1>7 DEF TimerInv, CancelsRefer, Refers, Repeats
  <2>6. CancelingAsked'
    <3> SUFFICES ASSUME NEW b \in canceling'
                 PROVE  /\ b \in live /\ b \notin TimersIn(heap) /\ timer[b].seq \in asked'
                        /\ \A j \in DOMAIN ops' : ~ Cancels(j, timer[b].seq)'
      BY <1>7 DEF CancelingAsked, Cancels
    <3>1. CASE b = a
      BY <1>0, <1>7, <3>1
    <3>2. CASE b # a
      BY <1>3, <1>7, <3>2 DEF TimerInv, CancelingAsked
    <3> QED BY <3>1, <3>2
  <2> QED BY <1>5, <2>1, <2>2, <2>3, <2>4, <2>5, <2>6 DEF TimerInv
<1>8. CASE /\ heap' = heap /\ timer' = timer /\ live' = live
           /\ canceling' = canceling /\ cancelled' = cancelled
  <2>1. HeapAgrees' /\ Numbered'
    BY <1>8 DEF TimerInv, HeapAgrees, Numbered
  <2>2. OnePlace'
    <3>1. \A j \in DOMAIN ops', b \in Addr :
             Adds(j, b)' => b \in live' /\ b \notin TimersIn(heap') /\ ~ InBatch(b)
      BY <1>2, <1>8 DEF TimerInv, OnePlace
    <3>2. \A b \in live' : b \in TimersIn(heap') \/ InBatch(b) \/ Queued(b)'
      BY <1>0, <1>8 DEF TimerInv, OnePlace
    <3> QED BY <1>8, <3>1, <3>2 DEF TimerInv, OnePlace, InBatch
  <2>3. CancelledGo'
    BY <1>8 DEF TimerInv, CancelledGo, InBatch
  <2>4. CancelsRefer'
    BY <1>4, <1>8 DEF TimerInv, CancelsRefer, Refers, Repeats
  <2>5. CancelingAsked'
    BY <1>3, <1>8 DEF TimerInv, CancelingAsked
  <2> QED BY <1>5, <2>1, <2>2, <2>3, <2>4, <2>5 DEF TimerInv
<1> HIDE DEF a, n
<1>9. \/ /\ a \in TimersIn(heap)
         /\ Agree(heap', timer', live \ {a}) /\ SameTimers(timer, timer')
         /\ TimersIn(heap') = TimersIn(heap) \ {a}
         /\ live' = live \ {a}
         /\ cancelled' = cancelled \cup {n} /\ canceling' = canceling
      \/ /\ a \notin TimersIn(heap) /\ lpc = "expired"
         /\ heap' = heap /\ timer' = timer /\ live' = live
         /\ canceling' = canceling \cup {a}
         /\ cancelled' = IF InBatch(a) THEN cancelled \cup {n} ELSE cancelled
      \/ /\ heap' = heap /\ timer' = timer /\ live' = live
         /\ canceling' = canceling /\ cancelled' = cancelled
  BY CancelDoes DEF TimerInv, a, n
<1> QED BY <1>6, <1>7, <1>8, <1>9

-----------------------------------------------------------------------------
(* Timers added *)

LEMMA NewTimerTyped ==
  ASSUME TimerTypeOK, NEW d \in Delays, NEW iv \in Intervals
  PROVE  /\ NewTimer(d, iv) \in TimerObject
         /\ NewTimer(d, iv).index = -1 /\ NewTimer(d, iv).seq = seq + 1
<1>1. now + d \in Nat /\ seq + 1 \in Nat /\ iv \in Nat
  BY TimerConstants DEF TimerTypeOK
<1> QED BY <1>1 DEF NewTimer, TimerObject

\* addTimerInLoop: the timer is in the heap after it.
LEMMA AddDoes ==
  ASSUME NEW tm, NEW L, Agree(heap, tm, L), NEW a \in L, a \notin TimersIn(heap),
         addTimerInLoop(tm, a)
  PROVE  /\ Agree(heap', timer', L) /\ SameTimers(tm, timer')
         /\ TimersIn(heap') = TimersIn(heap) \cup {a}
<1>1. heap' = insert(heap, tm, a).heap /\ timer' = insert(heap, tm, a).timer
  BY DEF addTimerInLoop
<1> QED BY <1>1, InsertAgrees

\* A timer just allocated disturbs no other.
LEMMA NewTimerKeeps ==
  ASSUME TimerInv, NEW a \in Addr, a \notin live, live' = live \cup {a}, seq' = seq + 1,
         \A b \in live : timer'[b].seq = timer[b].seq /\ timer'[b].interval = timer[b].interval,
         timer'[a].seq = seq + 1,
         TimersIn(heap') \subseteq TimersIn(heap) \cup {a},
         UNCHANGED <<lpc, expired, canceling, asked, cancelled, bad>>,
         \A j \in DOMAIN ops' : ops'[j].op = "cancel" => \E k \in DOMAIN ops : ops'[j] = ops[k],
         CancelsOnce'
  PROVE  Numbered' /\ CancelledGo' /\ CancelsRefer' /\ CancelingAsked' /\ NoUseAfterFree'
<1>0. seq \in Nat /\ \A b \in live : timer[b].seq \in Nat /\ timer[b].seq <= seq
  BY DEF TimerInv, TimerTypeOK, Numbered, HeapAgrees, Agree, TimerObject
<1>1. \A b \in live : timer[b].seq # seq + 1 /\ timer[b].seq <= seq + 1
  BY <1>0
<1>2. seq + 1 \notin cancelled /\ \A n \in cancelled : n <= seq + 1
  BY <1>0 DEF TimerInv, Numbered, TimerTypeOK
<1>3. Numbered'
  BY <1>0, <1>1, <1>2 DEF TimerInv, Numbered
<1>4. CancelledGo'
  BY <1>2 DEF TimerInv, CancelledGo, InBatch
<1>5. CancelsRefer'
  <2>1. ASSUME lpc # "destroyed", NEW j \in DOMAIN ops', ops'[j].op = "cancel"
        PROVE  /\ ops'[j].id.timer \in live' /\ timer'[ops'[j].id.timer].seq = ops'[j].id.seq
               /\ timer'[ops'[j].id.timer].interval > 0 /\ ops'[j].id.seq \in asked
    BY <2>1 DEF TimerInv, CancelsRefer, Refers, Repeats
  <2> QED BY <2>1 DEF CancelsRefer, Refers, Repeats
<1>6. CancelingAsked'
  <2> SUFFICES ASSUME lpc = "expired", NEW b \in canceling
               PROVE  /\ b \in live' /\ b \notin TimersIn(heap') /\ timer'[b].seq \in asked
                      /\ \A j \in DOMAIN ops' : ~ Cancels(j, timer[b].seq)'
    BY DEF CancelingAsked
  <2>1. /\ b \in live /\ b \notin TimersIn(heap) /\ timer[b].seq \in asked
        /\ \A j \in DOMAIN ops : ~ Cancels(j, timer[b].seq)
    BY DEF TimerInv, CancelingAsked
  <2>2. timer'[b].seq = timer[b].seq /\ b # a
    BY <2>1
  <2>3. \A j \in DOMAIN ops' : ~ Cancels(j, timer[b].seq)'
    BY <2>1, <2>2 DEF Cancels
  <2> QED BY <2>1, <2>2, <2>3
<1>7. NoUseAfterFree'
  BY DEF TimerInv, NoUseAfterFree
<1> QED BY <1>3, <1>4, <1>5, <1>6, <1>7

LEMMA LoopAddKeeps ==
  ASSUME TimerInv, NEW a \in Addr, NEW d \in Delays, NEW iv \in Intervals,
         LoopAdd(a, d, iv), TimerTypeOK'
  PROVE  TimerInv'
<1> DEFINE tm == [timer EXCEPT ![a] = NewTimer(d, iv)]
<1>1. /\ a \notin live /\ live' = live \cup {a} /\ seq' = seq + 1 /\ addTimerInLoop(tm, a)
      /\ UNCHANGED <<lpc, expired, canceling, ops, asked, cancelled, bad>>
  BY DEF LoopAdd, Allocate, batch
<1>2. timer \in [Addr -> TimerObject] /\ live \subseteq Addr /\ TimersIn(heap) \subseteq live
  BY DEF TimerInv, HeapAgrees, Agree, TimersIn
<1>3. /\ tm[a] = NewTimer(d, iv) /\ \A b \in Addr : b # a => tm[b] = timer[b]
  BY <1>2
<1>4. Agree(heap, tm, live \cup {a})
  BY <1>1, <1>2, NewTimerTyped, ReplaceAgrees DEF TimerInv, HeapAgrees
<1> HIDE DEF tm
<1>5. /\ Agree(heap', timer', live') /\ SameTimers(tm, timer')
      /\ TimersIn(heap') = TimersIn(heap) \cup {a}
  <2>1. a \in live \cup {a} /\ a \notin TimersIn(heap)
    BY <1>1, <1>2
  <2> QED BY <1>1, <1>4, <2>1, AddDoes
<1>6. \A b \in live : timer'[b].seq = timer[b].seq /\ timer'[b].interval = timer[b].interval
  BY <1>1, <1>2, <1>3, <1>5 DEF SameTimers
<1>7. timer'[a].seq = seq + 1
  BY <1>3, <1>5, NewTimerTyped DEF SameTimers, TimerInv
<1>8. HeapAgrees'
  BY <1>5 DEF HeapAgrees
<1>9. OnePlace'
  <2>1. \A i \in DOMAIN expired : expired[i] \in live' /\ expired[i] \notin TimersIn(heap')
    BY <1>1, <1>5 DEF TimerInv, OnePlace
  <2>2. \A j \in DOMAIN ops, b \in Addr :
           Adds(j, b) => b \in live' /\ b \notin TimersIn(heap') /\ ~ InBatch(b)
    BY <1>1, <1>5 DEF TimerInv, OnePlace
  <2>3. \A b \in live' : b \in TimersIn(heap') \/ InBatch(b) \/ Queued(b)
    BY <1>1, <1>5 DEF TimerInv, OnePlace
  <2> QED BY <1>1, <2>1, <2>2, <2>3 DEF TimerInv, OnePlace, InBatch, Queued, Adds, AddsOnce
<1>10. CancelsOnce'
  BY <1>1 DEF TimerInv, CancelsRefer, CancelsOnce, Cancels
<1>11. Numbered' /\ CancelledGo' /\ CancelsRefer' /\ CancelingAsked' /\ NoUseAfterFree'
  <2>1. \A j \in DOMAIN ops' : ops'[j].op = "cancel" => \E k \in DOMAIN ops : ops'[j] = ops[k]
    BY <1>1
  <2>2. TimersIn(heap') \subseteq TimersIn(heap) \cup {a}
    BY <1>5
  <2> QED BY <1>1, <1>6, <1>7, <1>10, <2>1, <2>2, NewTimerKeeps
<1> QED BY <1>8, <1>9, <1>11 DEF TimerInv

LEMMA OtherAddKeeps ==
  ASSUME TimerInv, NEW a \in Addr, NEW d \in Delays, NEW iv \in Intervals,
         OtherAdd(a, d, iv), TimerTypeOK'
  PROVE  TimerInv'
<1> DEFINE o == [op |-> "add", id |-> [timer |-> a, seq |-> seq + 1]]
           e == Len(ops) + 1
<1>1. /\ a \notin live /\ live' = live \cup {a} /\ seq' = seq + 1 /\ heap' = heap
      /\ timer' = [timer EXCEPT ![a] = NewTimer(d, iv)] /\ ops' = Append(ops, o)
      /\ UNCHANGED <<lpc, expired, canceling, asked, cancelled, bad>>
  BY DEF OtherAdd, Allocate, batch
<1>2. timer \in [Addr -> TimerObject] /\ live \subseteq Addr /\ TimersIn(heap) \subseteq live
  BY DEF TimerInv, HeapAgrees, Agree, TimersIn
<1>3. /\ timer'[a] = NewTimer(d, iv) /\ \A b \in Addr : b # a => timer'[b] = timer[b]
  BY <1>1, <1>2
<1>4. HeapAgrees'
  BY <1>1, <1>2, NewTimerTyped, ReplaceAgrees DEF TimerInv, HeapAgrees
<1>5. o \in Op /\ o.op = "add" /\ o.id.timer = a
  <2>1. seq + 1 \in Nat
    BY DEF TimerInv, TimerTypeOK
  <2> QED BY <2>1 DEF Op, Id
<1> HIDE DEF o
<1>6. /\ DOMAIN ops' = DOMAIN ops \cup {e} /\ e \notin DOMAIN ops /\ ops'[e] = o
      /\ \A j \in DOMAIN ops : ops'[j] = ops[j]
  <2>1. ops \in Seq(Op)
    BY DEF TimerInv, TimerTypeOK
  <2> QED BY <1>1, <1>5, <2>1, AppendOps
<1> HIDE DEF e
<1>7. \A j \in DOMAIN ops', b \in Addr : Adds(j, b)' <=> (j \in DOMAIN ops /\ Adds(j, b)) \/ (j = e /\ b = a)
  BY <1>5, <1>6 DEF Adds
<1>8. \A j \in DOMAIN ops, b \in Addr : Adds(j, b) => b # a
  BY <1>1 DEF TimerInv, OnePlace
<1>9. OnePlace'
  <2>1. \A i \in DOMAIN expired : expired[i] # a
    BY <1>1 DEF TimerInv, OnePlace
  <2>2. \A j \in DOMAIN ops', b \in Addr :
           Adds(j, b)' => b \in live' /\ b \notin TimersIn(heap) /\ ~ InBatch(b)
    BY <1>1, <1>2, <1>7, <2>1 DEF TimerInv, OnePlace, InBatch
  <2>3. AddsOnce'
    BY <1>6, <1>7, <1>8 DEF TimerInv, OnePlace, AddsOnce
  <2>4. \A b \in live' : b \in TimersIn(heap) \/ InBatch(b) \/ Queued(b)'
    <3>1. \A b \in Addr : Queued(b) => Queued(b)'
      BY <1>6, <1>7 DEF Queued
    <3>2. Queued(a)'
      BY <1>6, <1>7 DEF Queued
    <3> QED BY <1>1, <1>2, <3>1, <3>2 DEF TimerInv, OnePlace
  <2>5. \A i \in DOMAIN expired : expired[i] \in live' /\ expired[i] \notin TimersIn(heap)
    BY <1>1 DEF TimerInv, OnePlace
  <2> QED BY <1>1, <2>2, <2>3, <2>4, <2>5 DEF TimerInv, OnePlace, InBatch
<1>10. \A j \in DOMAIN ops' : ops'[j].op = "cancel" => j \in DOMAIN ops /\ ops'[j] = ops[j]
  BY <1>5, <1>6
<1>11. CancelsOnce'
  BY <1>10 DEF TimerInv, CancelsRefer, CancelsOnce, Cancels
<1>12. Numbered' /\ CancelledGo' /\ CancelsRefer' /\ CancelingAsked' /\ NoUseAfterFree'
  <2>1. \A j \in DOMAIN ops' : ops'[j].op = "cancel" => \E k \in DOMAIN ops : ops'[j] = ops[k]
    BY <1>10
  <2>2. TimersIn(heap') \subseteq TimersIn(heap) \cup {a}
    BY <1>1
  <2>3. \A b \in live : timer'[b].seq = timer[b].seq /\ timer'[b].interval = timer[b].interval
    BY <1>1, <1>2, <1>3
  <2>4. timer'[a].seq = seq + 1
    BY <1>3, NewTimerTyped DEF TimerInv
  <2> QED BY <1>1, <1>11, <2>1, <2>2, <2>3, <2>4, NewTimerKeeps
<1> QED BY <1>4, <1>9, <1>12 DEF TimerInv

-----------------------------------------------------------------------------
(* The functors run, the cancels and the destructor *)

LEMMA RunOpKeeps ==
  ASSUME TimerInv, RunOp, TimerTypeOK' PROVE TimerInv'
<1>1. /\ lpc = "functors" /\ ops # <<>> /\ ops' = Tail(ops)
      /\ UNCHANGED <<lpc, expired, seq, asked>>
  BY DEF RunOp
<1>2. ops \in Seq(Op) /\ AddsOnce /\ CancelsOnce /\ expired = <<>>
  BY <1>1 DEF TimerInv, TimerTypeOK, OnePlace, CancelsRefer
<1>3. /\ 1 \in DOMAIN ops /\ Head(ops) = ops[1]
      /\ \A j \in DOMAIN ops' : \E k \in DOMAIN ops : k # 1 /\ ops'[j] = ops[k]
      /\ \A k \in DOMAIN ops : k # 1 => \E j \in DOMAIN ops' : ops'[j] = ops[k]
      /\ AddsOnce' /\ CancelsOnce'
      /\ \A j \in DOMAIN ops', a \in Addr : Adds(1, a) => ~ Adds(j, a)'
      /\ \A j \in DOMAIN ops', n \in Nat : Cancels(1, n) => ~ Cancels(j, n)'
  BY <1>1, <1>2, TailOps
<1>4. PICK id \in Id : id = ops[1].id
  <2>1. ops[1] \in Op
    BY <1>2, <1>3
  <2> QED BY <2>1 DEF Op
<1> DEFINE a == id.timer
<1>40. a \in Addr /\ id.seq \in Nat
  BY DEF Id
<1>5. CASE /\ ops[1].op = "add" /\ addTimerInLoop(timer, a)
           /\ UNCHANGED <<live, canceling, cancelled, bad>>
  <2>1. Adds(1, a)
    BY <1>4, <1>5 DEF Adds
  <2>2. a \in live /\ a \notin TimersIn(heap)
    BY <1>3, <1>40, <2>1 DEF TimerInv, OnePlace
  <2>3. /\ Agree(heap', timer', live) /\ SameTimers(timer, timer')
        /\ TimersIn(heap') = TimersIn(heap) \cup {a}
    BY <1>5, <2>2, AddDoes DEF TimerInv, HeapAgrees
  <2>4. live \subseteq Addr
    BY DEF TimerInv, TimerTypeOK
  <2>5. \A b \in live : timer'[b].seq = timer[b].seq /\ timer'[b].interval = timer[b].interval
    BY <2>3, <2>4 DEF SameTimers
  <2>6. HeapAgrees'
    BY <1>5, <2>3 DEF HeapAgrees
  <2>7. OnePlace'
    <3>1. \A j \in DOMAIN ops', b \in Addr : Adds(j, b)' => b # a /\ \E k \in DOMAIN ops : Adds(k, b)
      BY <1>3, <1>40, <2>1 DEF Adds
    <3>2. \A j \in DOMAIN ops', b \in Addr : Adds(j, b)' => b \in live /\ b \notin TimersIn(heap')
      BY <2>3, <3>1 DEF TimerInv, OnePlace
    <3>3. ASSUME NEW b \in live PROVE b \in TimersIn(heap') \/ Queued(b)'
      <4>1. CASE b \in TimersIn(heap) \/ b = a
        BY <2>3, <4>1
      <4>2. CASE b \notin TimersIn(heap) /\ b # a
        <5>1. PICK k \in DOMAIN ops : Adds(k, b)
          BY <1>2, <4>2 DEF TimerInv, OnePlace, InBatch, Queued
        <5>2. k # 1
          BY <1>4, <4>2, <5>1 DEF Adds
        <5> QED BY <1>3, <5>1, <5>2 DEF Queued, Adds
      <4> QED BY <4>1, <4>2
    <3> QED BY <1>1, <1>2, <1>3, <1>5, <3>2, <3>3 DEF OnePlace, InBatch
  <2>8. Numbered' /\ CancelledGo' /\ NoUseAfterFree'
    <3>1. Numbered'
      BY <1>1, <1>5, <2>5 DEF TimerInv, Numbered
    <3>2. CancelledGo'
      BY <1>1, <1>5, <2>5 DEF TimerInv, CancelledGo
    <3> QED BY <1>5, <3>1, <3>2 DEF TimerInv, NoUseAfterFree
  <2>9. CancelsRefer' /\ CancelingAsked'
    <3>1. \A j \in DOMAIN ops' : ops'[j].op = "cancel" =>
            Refers(ops'[j].id) /\ Repeats(ops'[j].id.timer) /\ ops'[j].id.seq \in asked
      BY <1>1, <1>3 DEF TimerInv, CancelsRefer
    <3>2. \A j \in DOMAIN ops' : ops'[j].op = "cancel" =>
            /\ ops'[j].id.timer \in live /\ timer'[ops'[j].id.timer].seq = ops'[j].id.seq
            /\ timer'[ops'[j].id.timer].interval > 0 /\ ops'[j].id.seq \in asked
      BY <2>5, <3>1 DEF Refers, Repeats
    <3>3. CancelsRefer'
      BY <1>1, <1>3, <1>5, <3>2 DEF CancelsRefer, Refers, Repeats
    <3> QED BY <1>1, <3>3 DEF CancelingAsked
  <2> QED BY <2>6, <2>7, <2>8, <2>9 DEF TimerInv
<1>6. CASE ops[1].op = "cancel" /\ cancelInLoop(id)
  <2>1. Refers(id) /\ id.seq \in asked
    BY <1>1, <1>3, <1>4, <1>6 DEF TimerInv, CancelsRefer
  <2>2. \A j \in DOMAIN ops' : ~ Cancels(j, id.seq)'
    <3>1. Cancels(1, id.seq)
      BY <1>4, <1>6 DEF Cancels
    <3> QED BY <1>3, <1>40, <3>1
  <2>3. \A j \in DOMAIN ops' : \E k \in DOMAIN ops : ops'[j] = ops[k]
    BY <1>3
  <2>4. \A b \in Addr : Queued(b) => Queued(b)'
    <3> SUFFICES ASSUME NEW b \in Addr, NEW k \in DOMAIN ops, Adds(k, b) PROVE Queued(b)'
      BY DEF Queued
    <3>1. k # 1
      BY <1>6 DEF Adds
    <3> QED BY <1>3, <3>1 DEF Queued, Adds
  <2>5. asked \subseteq asked' /\ id.seq \in asked'
    BY <1>1, <2>1
  <2> QED BY <1>1, <1>3, <1>6, <2>1, <2>2, <2>3, <2>4, <2>5, CancelKeeps
<1>7. \/ /\ ops[1].op = "add" /\ addTimerInLoop(timer, a)
         /\ UNCHANGED <<live, canceling, cancelled, bad>>
      \/ ops[1].op = "cancel" /\ cancelInLoop(id)
  BY <1>3, <1>4 DEF RunOp
<1> QED BY <1>5, <1>6, <1>7

LEMMA LoopCancelKeeps ==
  ASSUME TimerInv, NEW id \in Id, LoopCancel(id), TimerTypeOK' PROVE TimerInv'
<1>1. /\ UserCode /\ Refers(id) /\ id.seq \notin asked /\ cancelInLoop(id)
      /\ asked' = asked \cup {id.seq} /\ UNCHANGED <<lpc, expired, seq, ops>>
  BY DEF LoopCancel, MayCancel
<1>2. lpc # "destroyed"
  BY <1>1 DEF UserCode, callingExpired
<1>3. \A j \in DOMAIN ops' : ~ Cancels(j, id.seq)'
  BY <1>1, <1>2 DEF TimerInv, CancelsRefer, Cancels
<1>4. AddsOnce' /\ CancelsOnce' /\ \A b \in Addr : Queued(b) => Queued(b)'
  BY <1>1 DEF TimerInv, OnePlace, CancelsRefer, AddsOnce, CancelsOnce, Adds, Cancels, Queued
<1>5. \A j \in DOMAIN ops' : \E k \in DOMAIN ops : ops'[j] = ops[k]
  BY <1>1
<1>6. asked \subseteq asked' /\ id.seq \in asked'
  BY <1>1
<1> QED BY <1>1, <1>3, <1>4, <1>5, <1>6, CancelKeeps

LEMMA OtherCancelKeeps ==
  ASSUME TimerInv, NEW id \in Id, OtherCancel(id), TimerTypeOK' PROVE TimerInv'
<1> DEFINE o == [op |-> "cancel", id |-> id]
           e == Len(ops) + 1
<1>1. /\ lpc # "destroyed" /\ Refers(id) /\ id.seq \notin asked /\ Repeats(id.timer)
      /\ ops' = Append(ops, o) /\ asked' = asked \cup {id.seq}
      /\ UNCHANGED <<heap, timer, live, lpc, expired, canceling, seq, cancelled, bad>>
  BY DEF OtherCancel, MayCancel, tq, batch
<1>2. o \in Op /\ o.op = "cancel" /\ o.id = id
  BY DEF Op
<1> HIDE DEF o
<1>3. /\ DOMAIN ops' = DOMAIN ops \cup {e} /\ e \notin DOMAIN ops /\ ops'[e] = o
      /\ \A j \in DOMAIN ops : ops'[j] = ops[j]
  <2>1. ops \in Seq(Op)
    BY DEF TimerInv, TimerTypeOK
  <2> QED BY <1>1, <1>2, <2>1, AppendOps
<1> HIDE DEF e
<1>4. \A j \in DOMAIN ops', b \in Addr : Adds(j, b)' <=> j \in DOMAIN ops /\ Adds(j, b)
  BY <1>2, <1>3 DEF Adds
<1>5. \A j \in DOMAIN ops', m \in Nat :
        Cancels(j, m)' <=> (j \in DOMAIN ops /\ Cancels(j, m)) \/ (j = e /\ m = id.seq)
  BY <1>2, <1>3 DEF Cancels
<1>6. \A j \in DOMAIN ops : ~ Cancels(j, id.seq)
  BY <1>1 DEF TimerInv, CancelsRefer, Cancels
<1>7. HeapAgrees' /\ Numbered' /\ NoUseAfterFree'
  BY <1>1 DEF TimerInv, HeapAgrees, Numbered, NoUseAfterFree
<1>8. OnePlace'
  <2>1. \A b \in Addr : Queued(b)' <=> Queued(b)
    BY <1>3, <1>4 DEF Queued
  <2>2. AddsOnce'
    BY <1>3, <1>4 DEF TimerInv, OnePlace, AddsOnce
  <2>3. live \subseteq Addr
    BY DEF TimerInv, TimerTypeOK
  <2>4. \A j \in DOMAIN ops', b \in Addr :
           Adds(j, b)' => b \in live /\ b \notin TimersIn(heap) /\ ~ InBatch(b)
    BY <1>4 DEF TimerInv, OnePlace
  <2>5. \A b \in live : b \in TimersIn(heap) \/ InBatch(b) \/ Queued(b)'
    BY <2>1, <2>3 DEF TimerInv, OnePlace
  <2> QED BY <1>1, <2>2, <2>4, <2>5 DEF TimerInv, OnePlace, InBatch
<1>9. CancelledGo'
  BY <1>1 DEF TimerInv, CancelledGo, InBatch
<1>10. CancelsRefer'
  <2>1. CancelsOnce'
    BY <1>3, <1>5, <1>6 DEF TimerInv, CancelsRefer, CancelsOnce
  <2>2. \A j \in DOMAIN ops' : ops'[j].op = "cancel" =>
          Refers(ops'[j].id) /\ Repeats(ops'[j].id.timer) /\ ops'[j].id.seq \in asked'
    BY <1>1, <1>2, <1>3 DEF TimerInv, CancelsRefer
  <2> QED BY <1>1, <2>1, <2>2 DEF CancelsRefer, Refers, Repeats
<1>11. CancelingAsked'
  <2> SUFFICES ASSUME lpc = "expired", NEW b \in canceling
               PROVE  /\ b \in live /\ b \notin TimersIn(heap) /\ timer[b].seq \in asked'
                      /\ \A j \in DOMAIN ops' : ~ Cancels(j, timer[b].seq)'
    BY <1>1 DEF CancelingAsked
  <2>1. /\ b \in live /\ b \notin TimersIn(heap) /\ timer[b].seq \in asked
        /\ \A j \in DOMAIN ops : ~ Cancels(j, timer[b].seq)
    BY DEF TimerInv, CancelingAsked
  <2>2. timer[b].seq # id.seq /\ timer'[b].seq = timer[b].seq
    BY <1>1, <2>1
  <2>3. \A j \in DOMAIN ops' : ~ Cancels(j, timer[b].seq)'
    BY <1>2, <1>3, <2>1, <2>2 DEF Cancels
  <2> QED BY <1>1, <2>1, <2>3
<1> QED BY <1>7, <1>8, <1>9, <1>10, <1>11 DEF TimerInv

LEMMA DestroyKeeps ==
  ASSUME TimerInv, Destroy, TimerTypeOK' PROVE TimerInv'
<1>1. /\ lpc = "poll" /\ lpc' = "destroyed" /\ heap' = <<>>
      /\ live' = live \ TimersIn(heap)
      /\ UNCHANGED <<timer, expired, canceling, ops, seq, asked, cancelled, bad>>
  BY DEF Destroy, batch, clients, TimersIn
<1>2. expired = <<>> /\ TimersIn(heap') = {}
  BY <1>1 DEF TimerInv, OnePlace, TimersIn
<1>3. HeapAgrees'
  <2>1. heap' \in Seq(Entry) /\ IsHeap(heap') /\ DOMAIN heap' = {}
    BY <1>1 DEF IsHeap
  <2>2. timer \in [Addr -> TimerObject] /\ live \subseteq Addr
    BY DEF TimerInv, HeapAgrees, Agree
  <2>3. \A b \in live' : timer[b].index = -1
    BY <1>1 DEF TimerInv, HeapAgrees, Agree
  <2> QED BY <1>1, <2>1, <2>2, <2>3 DEF HeapAgrees, Agree
<1>4. OnePlace'
  <2>1. \A j \in DOMAIN ops, b \in Addr : Adds(j, b) => b \in live'
    BY <1>1 DEF TimerInv, OnePlace
  <2>2. \A b \in live' : Queued(b)
    BY <1>1, <1>2 DEF TimerInv, OnePlace, InBatch
  <2> QED BY <1>1, <1>2, <2>1, <2>2 DEF TimerInv, OnePlace, AddsOnce, Adds, Queued, InBatch
<1>5. Numbered'
  BY <1>1 DEF TimerInv, Numbered
<1>6. CancelledGo'
  BY <1>1 DEF TimerInv, CancelledGo
<1>7. CancelsRefer' /\ CancelingAsked' /\ NoUseAfterFree'
  BY <1>1 DEF TimerInv, CancelsRefer, CancelsOnce, Cancels, CancelingAsked, NoUseAfterFree
<1> QED BY <1>3, <1>4, <1>5, <1>6, <1>7 DEF TimerInv

-----------------------------------------------------------------------------
(* The invariant of every step *)

LEMMA CancelTyped ==
  ASSUME TimerTypeOK, HeapAgrees, NEW id \in Id, cancelInLoop(id)
  PROVE  live' \subseteq Addr /\ canceling' \subseteq Addr /\ cancelled' \subseteq Nat
<1>1. timer \in [Addr -> TimerObject] /\ live \subseteq Addr /\ id.timer \in Addr
  BY DEF HeapAgrees, Agree, Id
<1>2. timer[id.timer].seq \in Nat
  BY <1>1 DEF TimerObject
<1> QED BY <1>1, <1>2 DEF cancelInLoop, TimerTypeOK, tq

LEMMA TypeStep ==
  ASSUME TimerInv, Next PROVE TimerTypeOK'
<1> USE DEF TimerTypeOK
<1>0. TimerTypeOK /\ HeapAgrees
  BY DEF TimerInv
<1>1. CASE Tick
  BY <1>0, <1>1 DEF Tick, tq, batch, clients
<1>2. CASE Poll
  BY <1>0, <1>2 DEF Poll, tq, batch, clients
<1>3. CASE HandleRead
  <2>1. expired' \in Seq(Addr)
    <3>1. Popped(getExpired)
      BY ExpiredPopped DEF TimerInv
    <3> QED BY <1>3, <3>1 DEF HandleRead, Popped
  <2> QED BY <1>0, <1>3, <2>1 DEF HandleRead, clients
<1>4. CASE RunTimer
  BY <1>0, <1>4 DEF RunTimer, tq, clients
<1>5. CASE Reset
  <2>1. live' \subseteq live /\ expired' = <<>>
    BY <1>5 DEF Reset
  <2> QED BY <1>0, <1>5, <2>1 DEF Reset, clients
<1>6. CASE HandlersDone
  BY <1>0, <1>6 DEF HandlersDone, tq, batch, clients
<1>7. CASE RunOp
  <2>1. Head(ops) \in Op /\ ops' \in Seq(Op)
    BY <1>0, <1>7 DEF RunOp
  <2>2. Head(ops).id \in Id
    BY <2>1 DEF Op
  <2>3. live' \subseteq Addr /\ canceling' \subseteq Addr /\ cancelled' \subseteq Nat
    BY <1>0, <1>7, <2>2, CancelTyped DEF RunOp
  <2> QED BY <1>0, <1>7, <2>1, <2>3 DEF RunOp
<1>8. CASE FunctorsDone
  BY <1>0, <1>8 DEF FunctorsDone, tq, batch, clients
<1>9. CASE Destroy
  BY <1>0, <1>9 DEF Destroy, batch, clients
<1>10. ASSUME NEW a \in Addr, NEW d \in Delays, NEW iv \in Intervals,
              LoopAdd(a, d, iv) \/ OtherAdd(a, d, iv)
       PROVE  TimerTypeOK'
  <2>1. seq' \in Nat /\ live' \subseteq Addr /\ [timer |-> a, seq |-> seq + 1] \in Id
    BY <1>0, <1>10 DEF LoopAdd, OtherAdd, Allocate, Id
  <2>2. CASE LoopAdd(a, d, iv)
    BY <1>0, <2>1, <2>2 DEF LoopAdd, batch
  <2>3. CASE OtherAdd(a, d, iv)
    <3>1. [op |-> "add", id |-> [timer |-> a, seq |-> seq + 1]] \in Op
      BY <2>1 DEF Op
    <3>2. ops' \in Seq(Op)
      BY <1>0, <2>3, <3>1 DEF OtherAdd
    <3> QED BY <1>0, <2>1, <2>3, <3>2 DEF OtherAdd, batch
  <2> QED BY <1>10, <2>2, <2>3
<1>11. ASSUME NEW id \in ids, LoopCancel(id) \/ OtherCancel(id) PROVE TimerTypeOK'
  <2>1. id \in Id /\ asked \cup {id.seq} \subseteq Nat
    BY <1>0 DEF Id
  <2>2. CASE LoopCancel(id)
    <3>1. live' \subseteq Addr /\ canceling' \subseteq Addr /\ cancelled' \subseteq Nat
      BY <1>0, <2>1, <2>2, CancelTyped DEF LoopCancel
    <3> QED BY <1>0, <2>1, <2>2, <3>1 DEF LoopCancel
  <2>3. CASE OtherCancel(id)
    <3>1. [op |-> "cancel", id |-> id] \in Op
      BY <2>1 DEF Op
    <3>2. ops' \in Seq(Op)
      BY <1>0, <2>3, <3>1 DEF OtherCancel
    <3> QED BY <1>0, <2>1, <2>3, <3>2 DEF OtherCancel, tq, batch
  <2> QED BY <1>11, <2>2, <2>3
<1>12. ASSUME NEW id \in returning, OtherReturns(id) PROVE TimerTypeOK'
  BY <1>0, <1>12 DEF OtherReturns, tq, batch
<1> QED BY <1>1, <1>2, <1>3, <1>4, <1>5, <1>6, <1>7, <1>8, <1>9, <1>10, <1>11, <1>12
        DEF Next, LoopStep

LEMMA TimerInit == Init => TimerInv
<1> SUFFICES ASSUME Init PROVE TimerInv
  OBVIOUS
<1>1. TimerTypeOK
  BY DEF Init, TimerTypeOK
<1>2. HeapAgrees
  <2>1. timer \in [Addr -> TimerObject]
    BY DEF Init, TimerObject
  <2> QED BY <2>1 DEF Init, HeapAgrees, Agree, IsHeap
<1>3. OnePlace /\ Numbered /\ CancelledGo
  BY DEF Init, OnePlace, AddsOnce, Numbered, CancelledGo
<1>4. CancelsRefer /\ CancelingAsked /\ NoUseAfterFree
  BY DEF Init, CancelsRefer, CancelsOnce, CancelingAsked, NoUseAfterFree
<1> QED BY <1>1, <1>2, <1>3, <1>4 DEF TimerInv

LEMMA TimerStep == TimerInv /\ [Next]_vars => TimerInv'
<1> SUFFICES ASSUME TimerInv, [Next]_vars PROVE TimerInv'
  OBVIOUS
<1>1. CASE UNCHANGED vars
  <2>1. Quiet /\ TimerTypeOK' /\ NoUseAfterFree'
    BY <1>1 DEF TimerInv, TimerTypeOK, NoUseAfterFree, Quiet, vars, tq, batch, clients
  <2> QED BY <2>1, QuietKeeps
<1>2. CASE Next
  <2>0. TimerTypeOK'
    BY <1>2, TypeStep
  <2>1. CASE Tick \/ Poll \/ RunTimer \/ HandlersDone \/ FunctorsDone
    <3>1. Quiet
      BY <2>1 DEF Quiet, Tick, Poll, RunTimer, HandlersDone, FunctorsDone, tq, batch, clients
    <3>2. NoUseAfterFree'
      BY <2>1 DEF TimerInv, NoUseAfterFree, Tick, Poll, RunTimer, HandlersDone, FunctorsDone
    <3> QED BY <2>0, <3>1, <3>2, QuietKeeps
  <2>2. CASE HandleRead
    BY <2>0, <2>2, HandleReadKeeps
  <2>3. CASE Reset
    BY <2>0, <2>3, ResetKeeps
  <2>4. CASE RunOp
    BY <2>0, <2>4, RunOpKeeps
  <2>5. CASE Destroy
    BY <2>0, <2>5, DestroyKeeps
  <2>6. ASSUME NEW a \in Addr, NEW d \in Delays, NEW iv \in Intervals,
               LoopAdd(a, d, iv) \/ OtherAdd(a, d, iv)
        PROVE  TimerInv'
    BY <2>0, <2>6, LoopAddKeeps, OtherAddKeeps
  <2>7. ASSUME NEW id \in ids, LoopCancel(id) \/ OtherCancel(id) PROVE TimerInv'
    <3>1. id \in Id
      BY DEF TimerInv, TimerTypeOK
    <3> QED BY <2>0, <2>7, <3>1, LoopCancelKeeps, OtherCancelKeeps
  <2>8. ASSUME NEW id \in returning, OtherReturns(id) PROVE TimerInv'
    <3>1. Quiet
      BY <2>8 DEF Quiet, OtherReturns, tq, batch
    <3>2. NoUseAfterFree'
      BY <2>8 DEF TimerInv, NoUseAfterFree, OtherReturns
    <3> QED BY <2>0, <3>1, <3>2, QuietKeeps
  <2> QED BY <1>2, <2>1, <2>2, <2>3, <2>4, <2>5, <2>6, <2>7, <2>8 DEF Next, LoopStep
<1> QED BY <1>1, <1>2

LEMMA TimerInvariant == Spec => []TimerInv
<1>1. Init => TimerInv
  BY TimerInit
<1>2. TimerInv /\ [Next]_vars => TimerInv'
  BY TimerStep
<1> QED BY <1>1, <1>2, PTL DEF Spec

-----------------------------------------------------------------------------
(* What the invariant says of the queue *)

LEMMA InHeapIsIn == ASSUME NEW a PROVE InHeap(a) <=> a \in TimersIn(heap)
  BY DEF InHeap, TimersIn

\* In every reachable state the heap is ordered by expiration, every entry agrees with
\* the Timer it points to, and heapIndex_ is the entry's position, -1 for a timer that
\* has none: insert(), removeTimer(), getExpired() and reset() keep the index in any
\* order of adds and cancels, so cancelInLoop removes the entry it means.
THEOREM HeapIsConsistent == Spec => []HeapConsistent
<1>1. TimerInv => HeapConsistent
  <2> SUFFICES ASSUME TimerInv PROVE HeapConsistent
    OBVIOUS
  <2>1. Agree(heap, timer, live)
    BY DEF TimerInv, HeapAgrees
  <2> QED BY <2>1, InHeapIsIn DEF Agree, HeapConsistent
<1> QED BY <1>1, TimerInvariant, PTL

\* A Timer that exists is in the heap, in the batch handleRead took out, or in a
\* functor that will add it: none is leaked by a cancel, by reset() or by the hand-over
\* from another thread.
THEOREM NoTimerIsLost == Spec => []NoTimerLost
<1>1. TimerInv => NoTimerLost
  BY InHeapIsIn DEF TimerInv, OnePlace, NoTimerLost, InBatch, Queued, Adds
<1> QED BY <1>1, TimerInvariant, PTL

\* cancelInLoop reads no freed Timer and none that took a freed one's address, when
\* clients cancel a timer once and while it exists: a cancel queued by another thread
\* still finds its timer, because nothing else deletes a repeating timer.
THEOREM CancelUsesNoFreedTimer == Spec => []NoUseAfterFree
<1>1. TimerInv => NoUseAfterFree
  BY DEF TimerInv
<1> QED BY <1>1, TimerInvariant, PTL

\* A timer whose cancellation took effect is never in the heap again: one in the heap
\* is gone at once, one in the batch being called back is deleted by reset().
THEOREM CancellationIsFinal == Spec => []CancelIsFinal
<1>1. TimerInv => CancelIsFinal
  <2> SUFFICES ASSUME TimerInv, NEW p \in DOMAIN heap, timer[heap[p].timer].seq \in cancelled
               PROVE  FALSE
    BY DEF CancelIsFinal
  <2>1. heap[p].timer \in live /\ heap[p].timer \in TimersIn(heap)
    BY DEF TimerInv, HeapAgrees, Agree, TimersIn
  <2>2. InBatch(heap[p].timer)
    BY <2>1 DEF TimerInv, CancelledGo
  <2> QED BY <2>1, <2>2 DEF TimerInv, OnePlace, InBatch
<1> QED BY <1>1, TimerInvariant, PTL

=============================================================================
