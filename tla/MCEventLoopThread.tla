------------------------- MODULE MCEventLoopThread -------------------------
(***************************************************************************)
(* TLC instance of EventLoopThread, and of the EventLoop in its thread:    *)
(* the thread that owns the object and one more client thread, which both  *)
(* call the loop, and three functors.                                      *)
(***************************************************************************)
EXTENDS EventLoopThread
=============================================================================
