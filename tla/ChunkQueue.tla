----------------------------- MODULE ChunkQueue -----------------------------
(***************************************************************************)
(* What the ring of swap buffers, its semaphores and its byte counts        *)
(* promise to main_loop of sender.c: a bounded FIFO of chunks of the input  *)
(* file, one of which the consumer holds while it is being sent.  Nothing   *)
(* here is a buffer, a semaphore or a process.                             *)
(***************************************************************************)
EXTENDS Integers, Sequences

CONSTANTS Capacity,   \* chunks queued and held, together; positive
          MaxChunk,   \* bytes of the longest chunk, positive
          MaxTotal    \* bound: bytes of the longest input, a natural number

VARIABLES total,      \* bytes of the input
          supplied,   \* bytes the producer has put
          closed,     \* the producer has put the end mark
          queue, held, \* the chunks waiting, the chunk the consumer holds
          delivered,  \* bytes of the chunks the consumer is done with
          ended       \* the consumer has seen the end mark

vars == <<total, supplied, closed, queue, held, delivered, ended>>

Chunk(at, n) == [at |-> at, n |-> n]
EndMark == Chunk(-1, 0)
None    == Chunk(-1, -1)

Room == Len(queue) + (IF held = None THEN 0 ELSE 1) < Capacity

Init ==
  /\ total \in 0 .. MaxTotal /\ supplied = 0 /\ closed = FALSE
  /\ queue = <<>> /\ held = None /\ delivered = 0 /\ ended = FALSE

\* The producer reads some of what is left.
Put ==
  /\ ~closed /\ Room
  /\ \E n \in 1 .. MaxChunk :
       /\ supplied + n <= total
       /\ queue' = Append(queue, Chunk(supplied, n))
       /\ supplied' = supplied + n
  /\ UNCHANGED <<total, closed, held, delivered, ended>>

\* The producer finds that nothing is left.
Close ==
  /\ ~closed /\ Room /\ supplied = total
  /\ queue' = Append(queue, EndMark) /\ closed' = TRUE
  /\ UNCHANGED <<total, supplied, held, delivered, ended>>

Take ==
  /\ held = None /\ queue # <<>>
  /\ held' = Head(queue) /\ queue' = Tail(queue)
  /\ UNCHANGED <<total, supplied, closed, delivered, ended>>

\* The consumer is done with the chunk: every byte of it was sent.
Release ==
  /\ held \notin {None, EndMark}
  /\ held' = None /\ delivered' = delivered + held.n
  /\ UNCHANGED <<total, supplied, closed, queue, ended>>

End ==
  /\ held = EndMark /\ held' = None /\ ended' = TRUE
  /\ UNCHANGED <<total, supplied, closed, queue, delivered>>

Next == Put \/ Close \/ Take \/ Release \/ End

Fairness == WF_vars(Next)
Spec == Init /\ [][Next]_vars /\ Fairness
=============================================================================
