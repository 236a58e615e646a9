----------------------------- MODULE TimerHeap -----------------------------
(***************************************************************************)
(* The binary min-heap of TimerQueue (heap_, UpHeap, DownHeap, SwapHeap).  *)
(* A heap is a sequence of entries [exp, timer]; position p here is index  *)
(* p-1 of the vector.  A chain of SwapHeap calls along a path moves the    *)
(* first entry of the path to its end and every other one a place back.    *)
(***************************************************************************)
EXTENDS Integers, Sequences

\* The positions UpHeap visits from position i.
UpPath(h, i) ==
  LET up[p \in 0..i] == IF p > 1 /\ h[i].exp < h[p \div 2].exp
                          THEN <<p>> \o up[p \div 2] ELSE <<p>>
  IN  up[i]

MinChild(h, p) == IF 2*p = Len(h) \/ h[2*p].exp < h[2*p + 1].exp
                    THEN 2*p ELSE 2*p + 1

\* The positions DownHeap visits from position i: an equal child is swapped too.
DownPath(h, i) ==
  LET down[p \in i..Len(h)] ==
        IF 2*p <= Len(h) /\ ~ (h[i].exp < h[MinChild(h, p)].exp)
          THEN <<p>> \o down[MinChild(h, p)] ELSE <<p>>
  IN  down[i]

Rotate(h, path) ==
  [p \in DOMAIN h |->
     IF \E k \in DOMAIN path : path[k] = p
       THEN LET k == CHOOSE k \in DOMAIN path : path[k] = p
            IN  h[IF k = Len(path) THEN path[1] ELSE path[k + 1]]
       ELSE h[p]]

UpHeap(h, i) == Rotate(h, UpPath(h, i))
DownHeap(h, i) == Rotate(h, DownPath(h, i))

SwapHeap(h, i, j) == [h EXCEPT ![i] = h[j], ![j] = h[i]]

PopBack(h) == SubSeq(h, 1, Len(h) - 1)

\* insert(): push_back, then up.
Insert(h, e) == UpHeap(Append(h, e), Len(h) + 1)

\* Mutant: the entry that replaces the removed one only moves down.
RemoveDownOnly(h, i) ==
  IF i = Len(h) THEN PopBack(h) ELSE DownHeap(PopBack(SwapHeap(h, i, Len(h))), i)

\* removeTimer(): the last entry takes the place of entry i, then moves up or down.
Remove(h, i) ==
  IF i = Len(h) THEN PopBack(h)
  ELSE LET g == PopBack(SwapHeap(h, i, Len(h)))
       IN  IF i > 1 /\ g[i].exp < g[i \div 2].exp THEN UpHeap(g, i) ELSE DownHeap(g, i)

\* The positions whose entry an operation moved: SwapHeap writes heapIndex_ there.
Moved(h, g) == {p \in DOMAIN g : p \notin DOMAIN h \/ h[p] # g[p]}

IsHeap(h) == \A p \in 2..Len(h) : h[p \div 2].exp <= h[p].exp
=============================================================================
