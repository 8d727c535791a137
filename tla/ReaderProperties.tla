-------------------------- MODULE ReaderProperties --------------------------
(***************************************************************************)
(* What the reader program promises.                                       *)
(***************************************************************************)
EXTENDS Reader

\* reader.c:175: the output file holds bytes the sender has sent, in file order and none
\* twice, whatever write() leaves out; as long as it left nothing out, the file is a
\* prefix of the input file.  (After a D that did not wait, it may be anything.)
OutputInOrder ==
  ~r_cut =>
    /\ \A p \in 1 .. Len(out) : out[p] \in 0 .. peer_sent + peer_n - 1
    /\ \A p \in 1 .. Len(out) - 1 : out[p] < out[p + 1]
    /\ ~short => \A p \in 1 .. Len(out) : out[p] = p - 1

\* reader.c:175-177: what a round brought is in the file before the sender is told
\* to go on, if every write() so far wrote all it was given (nobody looks) and D
\* waited for the children.
RoundWritten == r_main_pc = "say" /\ ~short /\ ~r_cut => Len(out) = peer_sent

\* The reader leaves once the sender has told it that the file is over, unless a
\* D did not wait.
Termination == peer_pc = "over" ~> r_main_pc = "exit" \/ r_cut

-----------------------------------------------------------------------------
(* The inductive invariant: where a round of n bytes is between the turns   *)
(* of the two masters, n = 0 when all of them are written.  It holds as    *)
(* long as every D of the reader's master waited (~r_cut).                 *)

SWAP_BUF_SIZE == BUFFER_SIZE * N_CHILDS

\* Every variable keeps its type; master_chid_sem never goes below zero.
TypeOK ==
  /\ r_main_pc \in {"chain", "gather", "sum", "write", "say", "quit", "reap", "exit"}
  /\ need_write \in Nat /\ adding \in Child /\ r_waits \in Nat
  /\ out \in Seq(Nat) /\ short \in BOOLEAN /\ r_cut \in BOOLEAN
  /\ r_master \in Nat /\ n_bytes_to_send \in [Child -> Nat] /\ r_quit \in [Child -> BOOLEAN]
  /\ r_child_pc \in [Child -> {"idle", "words", "store", "post", "exit"}]
  /\ fdsi_n \in [Child -> Nat] /\ slice_at \in [Child -> Int]
  /\ link \in [Child -> [st : {"idle", "req", "go", "data", "ack", "stop"}, n : Nat, at : Int]]
  /\ urg \in BOOLEAN /\ reader_urg \in BOOLEAN
  /\ peer_pc \in {"wait", "own", "told", "tell", "over"} /\ peer_left \subseteq Child
  /\ peer_n \in 0 .. SWAP_BUF_SIZE /\ peer_sent \in Nat

\* The children that have posted and wait for the next round.
Posted == {i \in Child : i \notin peer_left /\ r_child_pc[i] = "idle"
                           /\ link[i].st \in {"idle", "ack"}}

AtRest(i) == i \notin peer_left /\ link[i] = Quiet /\ r_child_pc[i] = "idle"
Fresh(i)  == i \in peer_left /\ link[i] = Quiet /\ r_child_pc[i] = "idle"

\* Where the round begins in the file.
Base(n) == peer_sent + peer_n - n

\* Child i has its share of the round, and stored the count unless it is about to.
Has(i, n) ==
  /\ slice_at[i] = Base(n) + BUFFER_SIZE * i /\ fdsi_n[i] = Share(n, i)
  /\ r_child_pc[i] # "store" => n_bytes_to_send[i] = Share(n, i)

Working(i, n) ==
  \/ Fresh(i)
  \/ /\ i \notin peer_left
     /\ \/ /\ r_child_pc[i] = "idle" /\ link[i].st = "req" /\ link[i].n = Share(n, i)
        \/ /\ r_child_pc[i] = "words" /\ fdsi_n[i] = Share(n, i)
           /\ \/ link[i].st = "go"
              \/ link[i].st = "data" /\ link[i].at = Base(n) + BUFFER_SIZE * i
        \/ /\ r_child_pc[i] \in {"store", "post", "idle"} /\ Has(i, n)
           /\ (link[i].st = "ack" \/ link[i] = Quiet)

Leaving(i) ==
  \/ Fresh(i)
  \/ /\ i \notin peer_left
     /\ \/ r_child_pc[i] = "idle" /\ link[i].st = "stop"
        \/ r_child_pc[i] \in {"post", "idle"} /\ link[i] = Quiet /\ n_bytes_to_send[i] = 0

\* The sender's master has the turn, or is told to take it.
Turn(n) ==
  /\ n = 0 /\ peer_n = 0 /\ r_main_pc = "chain" /\ ~reader_urg
  /\ peer_pc = (IF urg THEN "wait" ELSE "own")
  /\ r_master = 0 /\ \A i \in Child : AtRest(i)

\* The round is sent; everything is sent; the reader's master has been told.
Round(n) ==
  /\ n > 0 /\ ~urg /\ r_master = Cardinality(Posted)
  /\ \/ /\ peer_pc = "told" /\ n = peer_n /\ r_main_pc = "chain" /\ ~reader_urg
        /\ \A i \in Child : Working(i, n)
     \/ /\ peer_n = 0 /\ peer_left = {}
        /\ \A i \in Child : link[i] = Quiet /\ Has(i, n)
                            /\ r_child_pc[i] \in {"store", "post", "idle"}
        /\ \/ peer_pc = "tell" /\ r_main_pc = "chain" /\ ~reader_urg
           \/ peer_pc = "wait" /\ r_main_pc = (IF reader_urg THEN "chain" ELSE "gather")

\* The reader's master adds up, writes, and says that it has.
Gather(n) ==
  /\ peer_pc = "wait" /\ peer_n = 0 /\ ~urg /\ ~reader_urg
  /\ r_master = 0 /\ \A i \in Child : AtRest(i)
  /\ \/ /\ n > 0 /\ \A i \in Child : Has(i, n)
        /\ \/ /\ r_main_pc = "sum"
              /\ need_write = IF n < BUFFER_SIZE * adding THEN n ELSE BUFFER_SIZE * adding
           \/ r_main_pc = "write" /\ need_write = n
     \/ n = 0 /\ r_main_pc = "say" /\ need_write > 0

\* The sender has no more: its children say so, or have said so.
Over(n) ==
  /\ n = 0 /\ peer_n = 0 /\ peer_pc = "over"
  /\ \/ /\ ~urg /\ r_master = Cardinality(Posted) /\ \A i \in Child : Leaving(i)
        /\ r_main_pc = (IF reader_urg THEN "chain" ELSE "gather")
     \/ /\ r_main_pc \in {"sum", "say", "quit"} /\ need_write = 0 /\ ~reader_urg
        /\ \A i \in Child : AtRest(i) /\ n_bytes_to_send[i] = 0
     \/ /\ r_main_pc \in {"reap", "exit"} /\ ~reader_urg
        /\ \A i \in Child : i \notin peer_left /\ link[i] = Quiet /\ r_child_pc[i] \in {"idle", "exit"}

\* The output file holds what was written of the rounds before this one.
Output(n) ==
  /\ Base(n) \in Nat
  /\ \A p \in 1 .. Len(out) : out[p] < Base(n)
  /\ \A p, q \in 1 .. Len(out) : p < q => out[p] < out[q]
  /\ ~short => Len(out) = Base(n) /\ \A p \in 1 .. Len(out) : out[p] = p - 1

QuitInv == r_main_pc \notin {"reap", "exit"} => \A i \in Child : ~r_quit[i]
SumInv  == r_main_pc # "sum" => adding = 0

RoundInv(n) ==
  /\ n <= SWAP_BUF_SIZE /\ Output(n)
  /\ Turn(n) \/ Round(n) \/ Gather(n) \/ Over(n)

IInv == QuitInv /\ SumInv /\ \E n \in 0 .. SWAP_BUF_SIZE : RoundInv(n)
=============================================================================
