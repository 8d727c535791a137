---------------------------- MODULE SenderQueue -----------------------------
(***************************************************************************)
(* The sender's ring of swap buffers implements ChunkQueue up to the first  *)
(* semop() that is cut short or read() that fails.                         *)
(***************************************************************************)
EXTENDS SenderProperties, Sequences

\* What a published buffer holds: a count of 0 marks the end.
Published(b) ==
  IF active_bytes[b] = 0 THEN [at |-> NoData, n |-> 0]
  ELSE [at |-> swap_at[b], n |-> active_bytes[b]]

Full == {b \in Buf : swap_sem[b] = 3}

\* The oldest full buffer is the one main_loop takes next.
Oldest == IF Draining THEN NextBuf(swp_idx) ELSE swp_idx

RingQueue ==
  [k \in 1 .. Cardinality(Full) |-> Published((Oldest + k - 1) % N_SWAP_BUFFERS)]

\* A read() counts once its buffer is published.
Supplied == IF rt_pc \in {"mark", "publish"} THEN file_pos - readed ELSE file_pos

Queue == INSTANCE ChunkQueue WITH
  Capacity <- N_SWAP_BUFFERS, MaxChunk <- SWAP_BUF_SIZE, MaxTotal <- MaxFileLen,
  total <- file_len, supplied <- Supplied, closed <- rt_pc = "done",
  queue <- RingQueue,
  held <- IF Draining THEN Published(swp_idx) ELSE [at |-> NoData, n |-> -1],
  delivered <- sent,
  ended <- main_pc \in {"say", "quit", "reap", "exit"} /\ readed_bytes = 0

\* Nothing has gone wrong so far.
Healthy == Calm /\ readed # -1

\* As long as nothing has: the chunks main_loop takes are the chunks reader_thread read,
\* each once, in file order, never more than N_SWAP_BUFFERS at a time.
KeepsQueue == Queue!Init /\ [][Healthy' => Queue!Next]_(Queue!vars)

\* And for good: every step of the queue that is due is taken, as long as nothing has
\* gone wrong.
ImplementsQueue == KeepsQueue /\ (Queue!Fairness \/ <>~Healthy)

-----------------------------------------------------------------------------
\* Steps round the ring from buffer o to b.
Steps(o, b) == IF b >= o THEN b - o ELSE b - o + N_SWAP_BUFFERS

\* The full buffers follow one another from the oldest; one is not full while main_loop
\* holds it, and none is after the end mark.
QueueShape ==
  /\ Oldest \in Buf /\ Cardinality(Full) \in 0 .. N_SWAP_BUFFERS
  /\ Full = {b \in Buf : Steps(Oldest, b) < Cardinality(Full)}
  /\ Draining => Cardinality(Full) < N_SWAP_BUFFERS
  /\ Owns /\ ~Draining => Full = {}

=============================================================================
