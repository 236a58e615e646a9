----------------------------- MODULE TaskQueue -----------------------------
(***************************************************************************)
(* What an event loop promises to the code that hands it functors          *)
(* (EventLoop::runInLoop and EventLoop::queueInLoop): the functors form    *)
(* one queue, in the order in which the calls took effect; a functor       *)
(* leaves the queue from its head, at the moment it starts to run, and     *)
(* runs once; a loop that has stopped starts no functor.  A functor run at *)
(* once, by the loop's own thread, never enters the queue.                 *)
(***************************************************************************)
EXTENDS Sequences

CONSTANT Tasks              \* the functors; each is handed over at most once

VARIABLES queue,            \* functors accepted and not yet started
          ran,              \* functors started, in the order they started
          open              \* FALSE once the loop has stopped

vars == <<queue, ran, open>>

Handed(t) == \/ \E i \in DOMAIN queue : queue[i] = t
             \/ \E i \in DOMAIN ran : ran[i] = t

Init == queue = <<>> /\ ran = <<>> /\ open = TRUE

Submit(t) == /\ ~ Handed(t)
             /\ queue' = Append(queue, t)
             /\ UNCHANGED <<ran, open>>

Execute == /\ open
           /\ queue # <<>>
           /\ ran' = Append(ran, Head(queue))
           /\ queue' = Tail(queue)
           /\ UNCHANGED open

RunNow(t) == /\ open
             /\ ~ Handed(t)
             /\ ran' = Append(ran, t)
             /\ UNCHANGED <<queue, open>>

Stop == open' = FALSE /\ UNCHANGED <<queue, ran>>

\* A stopped loop may be destroyed, with the functors it never started.
Drop == /\ ~ open
        /\ queue' = <<>>
        /\ UNCHANGED <<ran, open>>

Next == \/ \E t \in Tasks : Submit(t) \/ RunNow(t)
        \/ Execute
        \/ Stop
        \/ Drop

Spec == Init /\ [][Next]_vars
=============================================================================
