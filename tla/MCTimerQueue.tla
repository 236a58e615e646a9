--------------------------- MODULE MCTimerQueue ---------------------------
(***************************************************************************)
(* TLC instance of TimerQueue.                                             *)
(***************************************************************************)
EXTENDS TimerQueue
=============================================================================
