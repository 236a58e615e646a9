---------------------------- MODULE SudokuServer ----------------------------
(***************************************************************************)
(* One connection of the Sudoku servers: requests are lines, which arrive  *)
(* in pieces of any size, are cut out of the input buffer by onMessage and *)
(* answered by processRequest on the loop's thread (server_basic,          *)
(* server_multiloop) or by workers of a ThreadPool (server_threadpool,     *)
(* server_hybrid), whose answers come back through the loop's queue.       *)
(*                                                                         *)
(* A line is its length with the CR LF at its end, and whether its puzzle  *)
(* has kCells characters; what solveSudoku returns is in SudokuSolver.     *)
(***************************************************************************)
EXTENDS Naturals, Sequences, FiniteSets

CONSTANTS kCells, Limit,    \* 81 and 100 in the code
          Streams,          \* the sequences of lines a client sends
          NumThreads        \* workers of the pool

Line == [len : Nat, good : BOOLEAN]

ASSUME ServerConstants == /\ kCells \in Nat /\ Limit \in Nat /\ Limit > kCells + 2
                          /\ NumThreads \in Nat \ {0}
                          /\ Streams \subseteq Seq(Line)

VARIABLES lines,            \* the lines sent
          pooled,           \* whether workers solve
          arrived, taken,   \* bytes that arrived, and lines cut out of the buffer
          pc,               \* the loop's thread: idle, in onMessage, or ended by SIGPIPE
          status,           \* of the connection
          queued, solving,  \* the pool: its queue, and what its workers are at
          pend,             \* answers in the loop's queue
          replies           \* what was written: the line and the reply

serverVars == <<lines, pooled, arrived, taken, pc, status, queued, solving, pend, replies>>

\* The bytes of the first k lines.
Bytes[k \in 0..Len(lines)] == IF k = 0 THEN 0 ELSE Bytes[k - 1] + lines[k].len

readableBytes == arrived - Bytes[taken]
\* findCRLF: the first line in the buffer is there in full.
crlf == taken < Len(lines) /\ Bytes[taken + 1] <= arrived

ServerInit == /\ lines \in Streams /\ pooled \in BOOLEAN
              /\ arrived = 0 /\ taken = 0 /\ pc = "idle" /\ status = "Connected"
              /\ queued = <<>> /\ solving = {} /\ pend = <<>> /\ replies = <<>>

-----------------------------------------------------------------------------
Receive == /\ pc = "idle"
           /\ \E n \in (arrived + 1)..Bytes[Len(lines)] : arrived' = n
           /\ pc' = "onMessage"
           /\ UNCHANGED <<lines, pooled, taken, status, queued, solving, pend, replies>>

\* TcpConnection::send on the loop's thread, and shutdown.
Sent(k, reply) == replies' = IF status = "Connected" THEN Append(replies, <<k, reply>>) ELSE replies
Rejected(reply) == Sent(taken + 1, reply) /\ status' = "Disconnecting" /\ pc' = "idle"

onMessage == pc = "onMessage" /\ UNCHANGED <<lines, pooled, arrived, solving, pend>>

\* processRequest, with ThreadPool::run where there is a pool.
GoodRequest == /\ onMessage /\ readableBytes >= kCells + 2 /\ crlf /\ lines[taken + 1].good
               /\ taken' = taken + 1
               /\ IF pooled THEN queued' = Append(queued, taken + 1) /\ UNCHANGED replies
                            ELSE Sent(taken + 1, "answer") /\ UNCHANGED queued
               /\ UNCHANGED <<pc, status>>

BadRequest == /\ onMessage /\ readableBytes >= kCells + 2 /\ crlf /\ ~ lines[taken + 1].good
              /\ taken' = taken + 1
              /\ Rejected("bad")
              /\ UNCHANGED queued

\* Mutant: the length is looked at before the end of the line.
IdTooLongFirst == /\ onMessage /\ readableBytes > Limit
                  /\ Rejected("long")
                  /\ UNCHANGED <<taken, queued>>

IdTooLong == /\ onMessage /\ ~ crlf /\ readableBytes > Limit
             /\ Rejected("long")
             /\ UNCHANGED <<taken, queued>>

\* Mutant: the loop may end after one request.
EnoughOnce == /\ onMessage
              /\ taken > 0 \/ readableBytes < kCells + 2 \/ (~ crlf /\ readableBytes <= Limit)
              /\ pc' = "idle"
              /\ UNCHANGED <<taken, queued, status, replies>>

\* Too little for a request, or not all of it.
Enough == /\ onMessage /\ (readableBytes < kCells + 2 \/ (~ crlf /\ readableBytes <= Limit))
          /\ pc' = "idle"
          /\ UNCHANGED <<taken, queued, status, replies>>

-----------------------------------------------------------------------------
(* The pool, while the process lives *)

TakeTask == /\ pc # "killed" /\ queued # <<>> /\ Cardinality(solving) < NumThreads
            /\ solving' = solving \cup {Head(queued)}
            /\ queued' = Tail(queued)
            /\ UNCHANGED <<lines, pooled, arrived, taken, pc, status, pend, replies>>

\* solve(): send from another thread looks at the status and queues sendInLoop.
Solve == /\ pc # "killed"
         /\ \E k \in solving : /\ solving' = solving \ {k}
                               /\ pend' = IF status = "Connected" THEN Append(pend, k) ELSE pend
         /\ UNCHANGED <<lines, pooled, arrived, taken, pc, status, queued, replies>>

\* sendInLoop does not look whether the write side is shut down: write() raises SIGPIPE.
SendInLoop == /\ pc = "idle" /\ pend # <<>>
              /\ pend' = Tail(pend)
              /\ IF status = "Connected" THEN Sent(Head(pend), "answer") /\ UNCHANGED pc
                                         ELSE pc' = "killed" /\ UNCHANGED replies
              /\ UNCHANGED <<lines, pooled, arrived, taken, status, queued, solving>>

ServerNext == \/ Receive \/ GoodRequest \/ BadRequest \/ IdTooLong \/ Enough
              \/ TakeTask \/ Solve \/ SendInLoop

ServerSpec == ServerInit /\ [][ServerNext]_serverVars

-----------------------------------------------------------------------------
\* However the stream is cut into pieces, the lines are answered in their order, one
\* reply to each, up to the first that is refused: one that is no request, or one of
\* more than Limit + 1 bytes, which is refused only if it comes in pieces.
RepliesInOrder ==
  ~ pooled => \A k \in DOMAIN replies :
                 /\ replies[k][1] = k
                 /\ CASE replies[k][2] = "answer" -> lines[k].good
                      [] replies[k][2] = "bad" -> ~ lines[k].good /\ k = Len(replies)
                      [] OTHER -> lines[k].len > Limit + 1 /\ k = Len(replies)

\* No line that is there is left in the buffer for the next piece, which may not come,
\* and no reply is lost or doubled, in the pool or in a queue, unless a line was refused.
Places(k) == Cardinality({i \in DOMAIN replies : replies[i][1] = k})
             + Cardinality({i \in DOMAIN pend : pend[i] = k})
             + Cardinality({i \in DOMAIN queued : queued[i] = k})
             + Cardinality({k} \cap solving)
NoRequestLost ==
  status = "Connected" => /\ pc = "idle" /\ readableBytes >= kCells + 2 => ~ crlf
                          /\ \A k \in 1..taken : Places(k) = 1

\* The replies to a stream of lines depend on the lines alone, not on the pieces in
\* which they arrive, and with a pool every request keeps its one reply.
RepliesMatchLines == RepliesInOrder /\ NoRequestLost
=============================================================================
