------------------------- MODULE SessionProperties --------------------------
(***************************************************************************)
(* What the sender and the reader promise together.                        *)
(***************************************************************************)
EXTENDS Session

Calm == eintr \in {"none", "wait"}

\* Nothing has gone wrong so far: in the sender and between the two; in the reader either.
Healthy == Calm /\ readed # -1 /\ ~lost
Intact  == Healthy /\ ~short /\ ~r_cut

\* The file is copied byte by byte in order, as long as no semop() is cut short and
\* no write() writes less; a read() that fails spoils no byte that was read
\* before it, and at most the one round that is sent for it (reader_thread,
\* send_swap_buffer, reader_chain_action).
OutputIsPrefix ==
  Calm /\ ~short /\ ~r_cut =>
    /\ Len(out) <= file_pos + (IF readed = -1 THEN BUFFER_SIZE * N_CHILDS ELSE 0)
    /\ \A p \in 1 .. Len(out) : p <= file_pos => out[p] = p - 1

\* When the reader has left its main loop, the whole file is there.
WholeFileCopied ==
  Intact /\ r_main_pc \in {"quit", "reap", "exit"} => Len(out) = file_len

\* The masters take turns: the sender's does not send, nor free a buffer, while the
\* reader's gathers and writes (chain_interation of the two programs).
MastersTakeTurns ==
  ~(main_pc \in {"take", "get", "send", "childs", "free", "say"}
      /\ r_main_pc \in {"sum", "write", "say"})

\* reader.c:164, "after this line all childs readed it's piece of data": no reader child
\* is at work while the reader's master adds up and writes, as long as the D in front of
\* that line waits, whatever semop() of the sender is cut short.
AllPiecesRead ==
  r_main_pc \in {"sum", "write"} /\ ~r_cut =>
    \A i \in Child : r_child_pc[i] = "idle"

\* The sender's master rewrites the configuration of a child only when the child is
\* done with the previous one (send_swap_buffer, work_for_child).
CfgStable ==
  [][\A i \in Child : cfgs'[i] # cfgs[i] /\ Calm
       => ~usr2[i] /\ child_pc[i] \notin {"load", "sync", "final"}]_vars

\* Both programs return, unless a semop() was cut short, a read() failed, or a SIGURG
\* of the sender's master was merged with the handshake's.
BothReturn ==
  <>((main_pc = "exit" /\ r_main_pc = "exit") \/ ~Healthy \/ r_cut)

-----------------------------------------------------------------------------
Transfer == INSTANCE FileTransfer WITH
  MaxChunk <- BUFFER_SIZE * N_CHILDS, copy <- out,
  over <- r_main_pc \in {"quit", "reap", "exit"}

\* The two programs together are a file copy by chunks, as long as nothing goes wrong:
\* every step copies the next chunk, stops at the end of the file, or does neither.
CopiesByChunks == Transfer!Init /\ [][Intact' => Transfer!Next]_(Transfer!vars)

\* And the copy goes on until it is complete.
ImplementsTransfer == CopiesByChunks /\ (Transfer!Fairness \/ <>~Intact)

\* Each program is for the other the environment it assumes: the reader's for a sender
\* with any fault, unless the handshake's SIGURG swallowed one of the chain; the
\* sender's for the reader as long as nothing goes wrong in the sender.
ImplementsSender == S!Init /\ [][~lost' => S!Next]_(S!vars)
ImplementsReader == R!Init /\ [][Healthy' => R!Next]_(R!vars)
-----------------------------------------------------------------------------
(* The invariants of the two programs together, on top of those of Sender   *)
(* and of Reader.  TurnInv and SizeInv hold whatever goes wrong, PieceInv   *)
(* as long as every D of the reader's master waits.                        *)

SWAP_BUF_SIZE == BUFFER_SIZE * N_CHILDS

SenderTurn ==
  \/ main_pc \in {"boot", "take", "get", "send", "childs", "free", "say"}
  \/ main_pc = "chain" /\ is_first
ReaderTurn == r_main_pc \in {"gather", "sum", "write", "say"}

\* The turn is with one of the masters, or under way between them, or lost.
TurnInv ==
  /\ SenderTurn => ~ReaderTurn
  /\ SenderTurn \/ ReaderTurn => ~urg /\ ~reader_urg /\ ~lost
  /\ ~(urg /\ reader_urg) /\ (lost => ~urg /\ ~reader_urg)
  /\ lagging \/ lost => r_main_pc = "chain" /\ ~urg /\ out = <<>>
  /\ lagging => ~lost

SenderOver == main_pc \in {"quit", "reap", "exit"}

\* The sender's master has commanded its children, or is about to tell them to quit,
\* and the reader's has not yet gathered what they bring.
InRound ==
  \/ main_pc \in {"childs", "free"} \/ (main_pc = "say" /\ readed_bytes # 0)
  \/ ~SenderTurn /\ (reader_urg \/ lost \/ r_main_pc = "gather")

\* Pair i has still to go through one of these stages before the reader's child posts.
Told(i)    == usr2[i] \/ child_pc[i] = "load"
OnTheWay(i) == link[i].st \in {"req", "go", "data", "stop"}
Storing(i) == r_child_pc[i] \in {"store", "post"}
Staying(i) == SenderOver /\ child_pc[i] # "exit"
Owes(i)    == Told(i) \/ OnTheWay(i) \/ Storing(i) \/ Staying(i)

Rested     == {i \in Child : ~Owes(i)}

PairInv(i) ==
  /\ ~r_quit[i] /\ r_child_pc[i] # "exit"
  /\ ~InRound => ~Owes(i)
  /\ usr2[i] => child_pc[i] # "load"
  /\ Told(i) => ~OnTheWay(i) /\ ~Storing(i) /\ ~Staying(i)
  /\ OnTheWay(i) => ~Storing(i) /\ ~Staying(i)
  /\ Storing(i) => ~Staying(i)
  /\ r_child_pc[i] = "words" <=> link[i].st \in {"go", "data"}
  /\ main_pc \notin {"reap", "exit"} => child_pc[i] # "exit" /\ ~sigquit[i]

\* One command, one piece, one post of each child in a round.
PieceInv ==
  r_main_pc \notin {"reap", "exit"} /\ ~r_cut =>
    /\ r_master = IF InRound THEN Cardinality(Rested) ELSE 0
    /\ \A i \in Child : PairInv(i)

\* The reader's variables keep their types, and no count that a child stores exceeds its
\* slice, whatever read() returned.
SizeInv ==
  /\ r_main_pc \in {"chain", "gather", "sum", "write", "say", "quit", "reap", "exit"}
  /\ need_write \in 0 .. SWAP_BUF_SIZE /\ adding \in Child /\ r_waits \in Nat
  /\ r_main_pc = "sum" => need_write <= BUFFER_SIZE * adding
  /\ out \in Seq(Int) /\ short \in BOOLEAN /\ r_cut \in BOOLEAN /\ lagging \in BOOLEAN /\ lost \in BOOLEAN
  /\ r_master \in Nat /\ r_quit \in [Child -> BOOLEAN]
  /\ r_child_pc \in [Child -> {"idle", "words", "store", "post", "exit"}]
  /\ fdsi_n \in [Child -> 0 .. BUFFER_SIZE] /\ slice_at \in [Child -> Int]
  /\ n_bytes_to_send \in [Child -> 0 .. BUFFER_SIZE]
  /\ \A i \in Child : cfgs[i].n_bytes_to_send \in 0 .. BUFFER_SIZE /\ link[i].n \in 0 .. BUFFER_SIZE

\* What the reader sees is a sender that keeps the protocol.
Sane == Calm /\ ~lost /\ readed_bytes >= 0

\* The round that is sent for a failed read() is not written yet.
LastRound ==
  main_pc \in {"send", "childs", "free", "say"} \/ reader_urg \/ r_main_pc \in {"gather", "sum", "write"}

\* What a failed read() leaves: the file so far, then at most one round of anything.
FailInv ==
  Calm /\ ~lost /\ readed_bytes < 0 /\ ~short /\ ~r_cut =>
    /\ \A p \in 1 .. sent : out[p] = p - 1
    /\ IF LastRound THEN Len(out) = sent ELSE Len(out) \in sent .. sent + SWAP_BUF_SIZE
=============================================================================
