-------------------------- MODULE MCDataStructures --------------------------
(***************************************************************************)
(* TLC instance of the data structures, side by side: a behaviour is one   *)
(* of Buffer, or one of the heap operations of TimerHeap alone, on every   *)
(* heap they can build: timers are inserted with any expiration and        *)
(* removed from any position.  Six entries are the fewest with which the   *)
(* entry that replaces a removed one may have to move up.                  *)
(***************************************************************************)
EXTENDS Buffer, TimerHeap

CONSTANTS Timers,           \* the timers that may be in the heap
          Expirations       \* the expirations they may have

ASSUME ExpirationsAreTimes == Expirations \subseteq Int

VARIABLE heap, driven

Held(h) == {h[p].timer : p \in DOMAIN h}

Add(t, x) == t \notin Held(heap) /\ heap' = Insert(heap, [exp |-> x, timer |-> t])

Take(p) == heap' = Remove(heap, p)

HeapStep == \/ \E t \in Timers, x \in Expirations : Add(t, x)
            \/ \E p \in DOMAIN heap : Take(p)

InitOne == Init /\ heap = <<>> /\ driven \in {"buffer", "heap"}

NextOne == \/ driven = "buffer" /\ Next /\ UNCHANGED <<heap, driven>>
           \/ driven = "heap" /\ HeapStep /\ UNCHANGED <<b, call, driven>>

SpecOne == InitOne /\ [][NextOne]_<<b, call, heap, driven>>

-----------------------------------------------------------------------------
\* Every parent expires no later than its children, after any insertion and any
\* removal: heap_[0] is the earliest timer, the one the timerfd is armed for.  The
\* entries are told apart by their timers: SwapHeap loses and duplicates none.
HeapOrdered == IsHeap(heap) /\ \A p, q \in DOMAIN heap : heap[p].timer = heap[q].timer => p = q
=============================================================================
