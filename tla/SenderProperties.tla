-------------------------- MODULE SenderProperties --------------------------
(***************************************************************************)
(* What the sender program promises: its invariants, the claims its own    *)
(* comments make, its termination, and the inductive invariant behind      *)
(* them (proved in SenderProofs).                                          *)
(***************************************************************************)
EXTENDS Sender

RtPcs    == {"set", "free", "claim", "read", "mark", "publish", "done"}
MainPcs  == {"boot", "chain", "take", "get", "send", "childs", "free", "say",
             "quit", "reap", "exit"}
ChildPcs == {"start", "idle", "load", "sync", "final", "post", "exit"}
LinkSts  == {"idle", "req", "go", "data", "ack", "stop"}

\* Every variable keeps its type: semaphores never go below zero, indices stay
\* inside the ring (reader_thread, main_loop), byte counts may be -1 (read()).
TypeOK ==
  /\ file_len \in 0 .. MaxFileLen /\ file_pos \in Nat
  /\ rt_pc \in RtPcs /\ rt_buf \in Buf /\ readed \in Int
  /\ swap_sem \in [Buf -> Nat]
  /\ active_bytes \in [Buf -> Int] /\ swap_at \in [Buf -> Int]
  /\ main_pc \in MainPcs /\ swp_idx \in Buf /\ readed_bytes \in Int
  /\ is_first \in BOOLEAN /\ waits \in Nat /\ alarm \in {"armed", "fired"}
  /\ eintr \in {"none", "boot", "take", "childs", "free", "wait", "Z"}
  /\ sent \in Nat /\ master \in Nat
  /\ cfgs \in [Child -> [cur_buf_idx : Buf, n_bytes_to_send : Int]]
  /\ usr2 \in [Child -> BOOLEAN] /\ sigquit \in [Child -> BOOLEAN]
  /\ child_pc \in [Child -> ChildPcs] /\ child_buf \in [Child -> Buf]
  /\ link \in [Child -> [st : LinkSts, n : Int, at : Int]]
  /\ urg \in BOOLEAN /\ reader_urg \in BOOLEAN /\ reader_busy \in BOOLEAN

-----------------------------------------------------------------------------
\* No semop() was cut short (wait() may have been: it comes after the transfer).
Calm == eintr \in {"none", "wait"}

\* Child i has been told to send buffer b and has not finished.
Sending(i, b) ==
  \/ usr2[i] /\ cfgs[i].cur_buf_idx = b
  \/ child_pc[i] = "load" /\ cfgs[i].cur_buf_idx = b
  \/ child_pc[i] \in {"sync", "final"} /\ child_buf[i] = b

Idle(i)  == child_pc[i] = "idle" /\ ~usr2[i]
Filling  == rt_pc \in {"read", "mark", "publish"}
Draining == main_pc \in {"get", "send", "childs", "free"}

\* reader_thread never writes into a swap buffer that a child of the sender was
\* told to send and has not finished sending.
NoOverwriteInFlight ==
  Calm => \A i \in Child, b \in Buf : Sending(i, b) => ~(Filling /\ rt_buf = b)

\* sender.c:290, "wait untial all out childs are ready": once the master is past
\* that wait, every child sits in read(sfd) with nothing to do.
AllChildsReady == main_pc = "free" => \A i \in Child : Idle(i)

\* The same at every other point between two rounds, as long as no semop() of
\* the process family was cut short: D(master_chid_sem, N_CHILDS) is a barrier.
BarrierHolds ==
  Calm /\ main_pc \in {"chain", "take", "get", "send", "free", "say", "quit"}
    => \A i \in Child : Idle(i)

\* The bytes child i hands to its peer in this round.
Handed(i) == {link[i].at + k : k \in 0 .. link[i].n - 1}

\* Once every child has handed over its slice, the slices are exactly the next
\* readed_bytes bytes of the file, child i holding those that belong at
\* BUFFER_SIZE * i and only the last child with data holding a partial slice
\* (send_swap_buffer, work_for_child, reader_thread).
RoundSendsNextChunk ==
  Calm /\ readed_bytes > 0 /\ (\A i \in Child : link[i].st \in {"data", "ack"}) =>
    /\ UNION {Handed(i) : i \in Child} = sent .. sent + readed_bytes - 1
    /\ \A i, j \in Child : i < j /\ link[j].n > 0 => link[i].n = BUFFER_SIZE
    /\ \A i \in Child : link[i].n > 0 => link[i].at = sent + BUFFER_SIZE * i

\* The sender returns, unless a semop() was cut short or a read() failed: a ring
\* of buffers, a barrier of children and a ping-pong with the reader, none of
\* which waits for ever on another.
Termination == <>(main_pc = "exit" \/ ~Calm \/ readed = -1)

-----------------------------------------------------------------------------
(* The inductive invariant.  master_chid_sem counts the children that have *)
(* posted and wait for a command, so D(master_chid_sem, N_CHILDS) is a     *)
(* barrier; swap_sem says who owns a buffer: 0 reader_thread may take it,  *)
(* 1 one side works on it, 3 it is full.                                   *)

Posted == {i \in Child : Idle(i)}

BootInv ==
  main_pc = "boot" =>
    /\ \A i \in Child : child_pc[i] \in {"start", "idle"} /\ ~usr2[i]
    /\ master = Cardinality(Posted)

RoundInv ==
  main_pc = "childs" =>
    /\ \A i \in Child :
         /\ child_pc[i] \in {"idle", "load", "sync", "final", "post"}
         /\ usr2[i] => child_pc[i] = "idle"
         /\ cfgs[i].cur_buf_idx = swp_idx
         /\ child_pc[i] \in {"sync", "final"} => child_buf[i] = swp_idx
    /\ master = Cardinality(Posted)

RestInv ==
  main_pc \notin {"boot", "childs"} =>
    /\ master = 0
    /\ \A i \in Child :
         /\ child_pc[i] \in {"idle", "exit"} /\ ~usr2[i]
         /\ child_pc[i] = "exit" => main_pc \in {"reap", "exit"}

QuitInv == main_pc \notin {"reap", "exit"} => \A i \in Child : ~sigquit[i]

SwapInv ==
  /\ \A b \in Buf : swap_sem[b] \in {0, 1, 3}
  /\ rt_pc = "claim" => swap_sem[rt_buf] = 0
  /\ Filling => swap_sem[rt_buf] = 1
  /\ Draining => swap_sem[swp_idx] = 1
  /\ ~(Filling /\ Draining /\ rt_buf = swp_idx)

\* As long as no semop() was cut short, children, barrier and ring are in step.
IInv == Calm => BootInv /\ RoundInv /\ RestInv /\ QuitInv /\ SwapInv
-----------------------------------------------------------------------------
(* The content of the ring and of the links: the inductive invariant of    *)
(* RoundSendsNextChunk, on top of IInv.                                    *)

\* main_loop has a buffer: the one it sends, or the one that held no byte.
Owns == Draining \/ (main_pc \in {"say", "quit", "reap", "exit"} /\ readed_bytes = 0)

\* Buffer b holds bytes, or the end mark, that main_loop has not given back.
Occupied(b) == swap_sem[b] = 3 \/ (Owns /\ b = swp_idx)

\* Where reader_thread's published buffers end in the file.
Pos == IF rt_pc \in {"mark", "publish"} /\ readed > 0 THEN file_pos - readed ELSE file_pos

\* The file offsets of buffer b's first byte and of the byte after its last.
Begin(b) == IF active_bytes[b] > 0 THEN swap_at[b] ELSE Pos
Upto(b)  == IF active_bytes[b] > 0 THEN swap_at[b] + active_bytes[b] ELSE Pos

\* Each occupied buffer begins where the one before ends, the last one ends where
\* reader_thread goes on, and nothing follows a buffer without bytes.
ChainInv ==
  \A b \in Buf : Occupied(b) =>
    /\ active_bytes[b] <= SWAP_BUF_SIZE
    /\ active_bytes[b] <= 0 => rt_pc = "done" /\ NextBuf(b) = rt_buf
    /\ IF NextBuf(b) = rt_buf THEN Upto(b) = Pos
       ELSE Occupied(NextBuf(b)) /\ Begin(NextBuf(b)) = Upto(b)

\* Steps round the ring from swp_idx to b.
Dist(b) == IF b >= swp_idx THEN b - swp_idx ELSE b - swp_idx + N_SWAP_BUFFERS

\* The occupied buffers are those from swp_idx up to rt_buf, or all; the first begins
\* where the master has got to.
EndsInv ==
  /\ Occupied(rt_buf) => rt_buf = swp_idx
  /\ \A b \in Buf : Occupied(b) <=> Occupied(rt_buf) \/ Dist(b) < Dist(rt_buf)
  /\ sent = IF Occupied(swp_idx) THEN Begin(swp_idx) ELSE Pos

\* What reader_thread and main_loop know of the buffer they work on.
HandsInv ==
  /\ rt_pc = "set" => \A b \in Buf : swap_sem[b] = 0
  /\ Owns => swap_sem[swp_idx] = 1 /\ ~(Filling /\ rt_buf = swp_idx)
  /\ main_pc \in {"send", "childs", "free"} => readed_bytes # 0
  /\ Owns /\ main_pc # "get" => readed_bytes = active_bytes[swp_idx]
  /\ rt_pc \in {"mark", "publish"} =>
       /\ readed <= SWAP_BUF_SIZE
       /\ readed > 0 => swap_at[rt_buf] = Pos
  /\ rt_pc = "publish" => active_bytes[rt_buf] = readed

RingInv == ChainInv /\ EndsInv /\ HandsInv

\* What a child has announced is its share of the round; what it has sent begins at its
\* place in the buffer.
LinkInv ==
  /\ main_pc = "childs" => \A i \in Child :
       /\ cfgs[i].n_bytes_to_send = Share(readed_bytes, i)
       /\ child_pc[i] \in {"sync", "final"} => link[i].n = Share(readed_bytes, i)
       /\ child_pc[i] = "final" => link[i].at = swap_at[swp_idx] + BUFFER_SIZE * i
  /\ \A i \in Child : /\ link[i].st \in {"data", "ack"} => child_pc[i] = "final"
                      /\ link[i].st = "stop" => child_pc[i] = "exit"

\* As long as no semop() was cut short, the ring holds the file in order.
ContentInv == Calm => RingInv /\ LinkInv
-----------------------------------------------------------------------------
(* What else the reader program relies on (Session): how a child, its link, *)
(* the chain and the last read() go together.                              *)

\* The link is in the phase of its child.
PhaseInv ==
  \A i \in Child :
    /\ child_pc[i] \in {"start", "idle", "load", "post"} => link[i] = Quiet
    /\ child_pc[i] = "sync"  => link[i].st \in {"req", "go"}
    /\ child_pc[i] = "final" => link[i].st \in {"data", "ack"}
    /\ child_pc[i] = "exit"  => link[i] = Quiet \/ link[i].st = "stop"

\* The first iteration of the chain, and the last.
StageInv ==
  /\ main_pc = "boot" => is_first
  /\ main_pc \notin {"boot", "chain"} => ~is_first
  /\ main_pc \in {"send", "childs", "free"} => readed_bytes # 0
  /\ main_pc \in {"quit", "reap", "exit"} => readed_bytes = 0

\* What the last read() returned: 0 only at the end of the file.
FileInv ==
  /\ file_pos <= file_len /\ readed \in -1 .. SWAP_BUF_SIZE
  /\ readed = -1 => rt_pc \in {"mark", "publish", "done"}
  /\ rt_pc \in {"mark", "publish"} /\ readed > 0 => readed <= file_pos
  /\ rt_pc \in {"mark", "publish", "done"} /\ readed = 0 => file_pos = file_len
  /\ rt_pc = "done" => readed <= 0

\* No published buffer reaches beyond Pos, and one without bytes holds the last result.
BookInv ==
  \A b \in Buf : Occupied(b) =>
    /\ Upto(b) <= Pos
    /\ active_bytes[b] > 0 => swap_at[b] >= 0
    /\ active_bytes[b] <= 0 => active_bytes[b] = readed

\* Once the result of a failed read() has been sent, main_loop waits for ever.
StuckInv ==
  readed_bytes < 0 =>
    /\ readed = -1 /\ rt_pc = "done" /\ sent = file_pos
    /\ \/ main_pc \in {"send", "childs", "free"}
       \/ main_pc \in {"say", "chain", "take"} /\ swap_sem[swp_idx] < 2

BoundaryInv == PhaseInv /\ StageInv /\ FileInv /\ (Calm => BookInv /\ StuckInv)
=============================================================================
