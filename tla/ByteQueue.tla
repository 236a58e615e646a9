----------------------------- MODULE ByteQueue -----------------------------
(***************************************************************************)
(* What lotus::net::Buffer promises: a queue of bytes.  Bytes are put in   *)
(* at the end, or in front; they are taken from the front, a number of     *)
(* them, or the first line, all bytes up to the first CR LF, if there is   *)
(* one.                                                                    *)
(***************************************************************************)
EXTENDS Naturals, Sequences

CONSTANTS CR, LF

VARIABLES content,      \* the readable bytes
          call          \* the last call, and the bytes it was given or gave

vars == <<content, call>>

First(s, n) == SubSeq(s, 1, n)
Rest(s, n) == SubSeq(s, n + 1, Len(s))

EndsLine(s, n) == n > 1 /\ s[n - 1] = CR /\ s[n] = LF
FirstLineEnd(s, n) == EndsLine(s, n) /\ \A m \in 1..(n - 1) : ~ EndsLine(s, m)

Init == content = <<>> /\ call = [name |-> "none", bytes |-> <<>>]

Put == call'.name = "put" /\ content' = content \o call'.bytes

PutInFront == call'.name = "prepend" /\ content' = call'.bytes \o content

Give(name, n) == /\ call' = [name |-> name, bytes |-> First(content, n)]
                 /\ content' = Rest(content, n)

Take == \E n \in 0..Len(content) : Give("take", n)

TakeLine == \E n \in 1..Len(content) : FirstLineEnd(content, n) /\ Give("line", n)

NoLine == (\A n \in 1..Len(content) : ~ EndsLine(content, n)) /\ Give("line", 0)

\* Making room or giving it back changes nothing that can be read.
Resize == call' = [name |-> "resize", bytes |-> <<>>] /\ UNCHANGED content

Next == Put \/ PutInFront \/ Take \/ TakeLine \/ NoLine \/ Resize

Spec == Init /\ [][Next]_vars
=============================================================================
