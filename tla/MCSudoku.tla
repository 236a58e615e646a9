------------------------------ MODULE MCSudoku ------------------------------
(***************************************************************************)
(* TLC instance of the Sudoku examples and of the ThreadPool they use: a   *)
(* behaviour is the search of one puzzle of 4 by 4 cells, one connection   *)
(* of a server, or a pool with two workers, two producers, three tasks and *)
(* room for one in the queue, so that both kinds of waiters meet.          *)
(***************************************************************************)
EXTENDS SudokuServer, SudokuSolver, ThreadPool

VARIABLE driven

\* Requests with and without an id, one that is longer than Limit + 1, and other lines.
MCLines == [len : {5, 7, 10}, good : {TRUE}] \cup [len : {2, 6}, good : {FALSE}]
MCStreams == UNION {[1..n -> MCLines] : n \in 1..3}

-----------------------------------------------------------------------------
\* The completed boards, by bands of two lines.
Lines4 == {p \in [1..4 -> 1..4] : Range(p) = 1..4}
Bands == {<<p, q>> \in Lines4 \X Lines4 :
            \A k \in {1, 3} : {p[k], p[k + 1]} \cap {q[k], q[k + 1]} = {}}
BandPairs == {h \in Bands \X Bands :
                \A k \in 1..4 : {h[1][1][k], h[1][2][k]} \cap {h[2][1][k], h[2][2][k]} = {}}
Grids4 == {[i \in 0..15 |-> h[(i \div 8) + 1][((i \div 4) % 2) + 1][(i % 4) + 1]] : h \in BandPairs}

-----------------------------------------------------------------------------
\* A full board, or one with two equal values in a unit; and every character in some
\* cells, in one of them also one that is no value.
MCBoards ==
  LET full == CHOOSE g \in Grids4 : TRUE
  IN  {[full EXCEPT ![5] = v] : v \in 1..4}
        \cup {[i \in 0..15 |-> CASE i = 0 -> a [] i = 6 -> b [] i = 9 -> c [] i = 11 -> d
                                 [] OTHER -> 0]
                : a \in 0..1, b, c \in 0..3, d \in {0, 1, 5}}

-----------------------------------------------------------------------------
\* What is not driven stays as it begins.
Fixed == CHOOSE b \in Boards : TRUE
NoServer == /\ lines = <<>> /\ pooled = FALSE /\ arrived = 0 /\ taken = 0 /\ pc = "idle"
            /\ status = "none" /\ queued = <<>> /\ solving = {} /\ pend = <<>> /\ replies = <<>>
NoSolver == /\ puzzle = Fixed /\ board = Fixed /\ lists = Nodes /\ frames = <<>> /\ step = 1
            /\ at = "none"

InitOne == /\ Init
           /\ \/ driven = "solver" /\ SolverInit /\ NoServer
              \/ driven = "server" /\ ServerInit /\ NoSolver
              \/ driven = "pool" /\ NoServer /\ NoSolver

NextOne == \/ driven = "solver" /\ SolverNext /\ UNCHANGED <<serverVars, vars, driven>>
           \/ driven = "server" /\ ServerNext /\ UNCHANGED <<solverVars, vars, driven>>
           \/ driven = "pool" /\ Next /\ UNCHANGED <<serverVars, solverVars, driven>>

\* The fairness is that of the pool, whose threads have nothing to do in other behaviours.
SpecOne == InitOne /\ [][NextOne]_<<serverVars, solverVars, vars, driven>> /\ Fairness
=============================================================================
