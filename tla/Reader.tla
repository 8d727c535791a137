------------------------------- MODULE Reader -------------------------------
(***************************************************************************)
(* The process family of hw_signals/reader/reader.c once send_pids() is     *)
(* over: the master (main, main_loop, chain_interation,                     *)
(* reader_chain_action) and N_CHILDS children in work_for_child.  They      *)
(* share master_chid_sem, cfgs and buf_for_file.  The sender program is the *)
(* environment (Env actions).                                              *)
(*                                                                         *)
(* Bytes are offsets of the input file, as in Sender.                       *)
(***************************************************************************)
EXTENDS Integers, Sequences, FiniteSets, Shares

CONSTANTS
  MaxFileLen,      \* bound: bytes of the input file
  ShortWrites,     \* write() on the output file may write less, or fail
  NoWait           \* the garbage in sem_flg may have IPC_NOWAIT set

ASSUME ReaderAssumption ==
  /\ N_CHILDS \in Nat \ {0} /\ BUFFER_SIZE \in Nat \ {0}
  /\ MaxFileLen \in Nat /\ ShortWrites \in BOOLEAN /\ NoWait \in BOOLEAN

VARIABLES
  r_main_pc, need_write,   \* the master: control point, bytes of the round
  adding,                  \* the child whose count it adds next
  r_waits,                 \* iterations of the final wait() loop
  out,                     \* the output file
  short,                   \* history: a write() wrote less, nobody noticed
  r_cut,                   \* history: a D of the master returned without waiting
  r_master, n_bytes_to_send, \* master_chid_sem; the count in the shared cfgs
  r_quit,                  \* SIGQUIT pending at each child
  r_child_pc, fdsi_n,      \* the children: control point, fdsi.ssi_int
  slice_at,                \* buf_for_file: the content of each child's slice
  link, urg, reader_urg,   \* as in Sender
  peer_pc, peer_left,      \* the sender: its master, the children it commanded
  peer_n, peer_sent        \* and bytes of this round and of the rounds before

r_mainVars  == <<r_main_pc, need_write, adding, r_waits, out, short, r_cut>>
r_childVars == <<r_child_pc, fdsi_n, slice_at, n_bytes_to_send>>
peerVars    == <<peer_pc, peer_left, peer_n, peer_sent>>
chainVars   == <<urg, reader_urg>>
vars == <<r_mainVars, r_childVars, r_master, r_quit, link, chainVars, peerVars>>

NoData == -1
Quiet  == [st |-> "idle", n |-> 0, at |-> NoData]

\* send_pids() has returned: every child listens and the sender has the pids.  If the
\* D of sub_process_creation did not wait for them, nobody has taken their posts.
Init ==
  /\ r_main_pc = "chain" /\ need_write = 0 /\ adding = 0 /\ r_waits = 0 /\ out = <<>> /\ short = FALSE
  /\ \/ r_cut = FALSE /\ r_master = 0
     \/ r_cut = TRUE /\ NoWait /\ r_master = N_CHILDS
  /\ n_bytes_to_send = [i \in Child |-> 0]
  /\ r_quit = [i \in Child |-> FALSE]
  /\ r_child_pc = [i \in Child |-> "idle"] /\ fdsi_n = [i \in Child |-> 0]
  /\ slice_at = [i \in Child |-> NoData]
  /\ link = [i \in Child |-> Quiet] /\ urg = FALSE /\ reader_urg = FALSE
  /\ peer_pc = "own" /\ peer_left = {} /\ peer_n = 0 /\ peer_sent = 0

-----------------------------------------------------------------------------
(* The master *)

R_MainPc(from, to) == r_main_pc = from /\ r_main_pc' = to

RM_ChainWait_Skips ==                      \* mutant: the test of stage is forgotten
  /\ R_MainPc("chain", "gather")
  /\ UNCHANGED <<need_write, adding, r_waits, out, short, r_master, r_quit, chainVars>>

\* chain_interation: stage 1 always waits for SIGURG.
RM_ChainWait ==
  /\ R_MainPc("chain", "gather")
  /\ reader_urg /\ reader_urg' = FALSE
  /\ UNCHANGED <<need_write, adding, r_waits, out, short, r_master, r_quit, urg>>

RM_Gather_OneShort ==                      \* mutant: D(master_chid_sem, N_CHILDS - 1)
  /\ R_MainPc("gather", "sum")
  /\ r_master >= N_CHILDS - 1 /\ r_master' = r_master - N_CHILDS + 1
  /\ need_write' = 0
  /\ UNCHANGED <<adding, r_waits, out, short, r_quit, chainVars>>

\* reader_chain_action: D(master_chid_sem, N_CHILDS), need_write = 0.
RM_Gather ==
  /\ R_MainPc("gather", "sum")
  /\ r_master >= N_CHILDS /\ r_master' = r_master - N_CHILDS
  /\ need_write' = 0
  /\ UNCHANGED <<adding, r_waits, out, short, r_quit, chainVars>>

\* After the last child: return on 0, or write.
AfterSum == IF adding + 1 < N_CHILDS THEN "sum" ELSE IF need_write' = 0 THEN "say" ELSE "write"
NextChild == adding' = (adding + 1) % N_CHILDS

RM_Sum_LastOnly ==                         \* mutant: = for +=
  /\ need_write' = n_bytes_to_send[adding] /\ NextChild
  /\ R_MainPc("sum", AfterSum)
  /\ UNCHANGED <<r_waits, out, short, r_master, r_quit, chainVars>>

\* reader_chain_action: add what one more child got.
RM_Sum ==
  /\ need_write' = need_write + n_bytes_to_send[adding] /\ NextChild
  /\ R_MainPc("sum", AfterSum)
  /\ UNCHANGED <<r_waits, out, short, r_master, r_quit, chainVars>>

Gathered_Shifted(n) ==                     \* mutant: offsets of the whole buffer
  [p \in 1 .. n |-> slice_at[(p - 1) \div BUFFER_SIZE] + p - 1]

\* The first n bytes of buf_for_file: byte p is in the slice of child p \div BUFFER_SIZE.
Gathered(n) ==
  [p \in 1 .. n |-> slice_at[(p - 1) \div BUFFER_SIZE] + ((p - 1) % BUFFER_SIZE)]

\* write(): its result is ignored.
RM_Write ==
  /\ R_MainPc("write", "say")
  /\ \E n \in 0 .. need_write :
       /\ ShortWrites \/ n = need_write
       /\ out' = out \o Gathered(n) /\ short' = (short \/ n < need_write)
  /\ UNCHANGED <<need_write, adding, r_waits, r_master, r_quit, chainVars>>

\* chain_interation: say_we_ready(sender); main_loop goes on while need_write > 0.
RM_SayReady ==
  /\ R_MainPc("say", IF need_write > 0 THEN "chain" ELSE "quit")
  /\ urg' = TRUE
  /\ UNCHANGED <<need_write, adding, r_waits, out, short, r_master, r_quit, reader_urg>>

\* main: sigqueue(child_pids[i], SIGQUIT) for every child.
RM_QuitChilds ==
  /\ R_MainPc("quit", "reap")
  /\ r_quit' = [i \in Child |-> TRUE]
  /\ UNCHANGED <<need_write, adding, r_waits, out, short, r_master, chainVars>>

R_Exited == Cardinality({i \in Child : r_child_pc[i] = "exit"})

RM_Wait ==
  /\ R_MainPc("reap", "reap")
  /\ r_waits < N_CHILDS /\ R_Exited > r_waits
  /\ r_waits' = r_waits + 1
  /\ UNCHANGED <<need_write, adding, out, short, r_master, r_quit, chainVars>>

\* main: full_cleanup(), return.
RM_Cleanup ==
  /\ R_MainPc("reap", "exit")
  /\ r_waits = N_CHILDS
  /\ UNCHANGED <<need_write, adding, r_waits, out, short, r_master, r_quit, chainVars>>

\* IPC_NOWAIT in the garbage sem_flg: the D of reader_chain_action returns at once,
\* and takes nothing.  Bound: one semop() is cut short per behaviour.
R_NoWaitSemop ==
  /\ NoWait /\ ~r_cut /\ r_cut' = TRUE
  /\ R_MainPc("gather", "sum")
  /\ r_master < N_CHILDS
  /\ need_write' = 0
  /\ UNCHANGED <<adding, r_waits, out, short, r_master, r_quit, chainVars>>
  /\ UNCHANGED <<r_childVars, link, peerVars>>

R_Main ==
  /\ \/ RM_ChainWait \/ RM_Gather \/ RM_Sum \/ RM_Write \/ RM_SayReady
     \/ RM_QuitChilds \/ RM_Wait \/ RM_Cleanup
  /\ UNCHANGED <<r_cut, r_childVars, link, peerVars>>

-----------------------------------------------------------------------------
(* work_for_child(i) *)

R_ChildPc(i, from, to) ==
  r_child_pc[i] = from /\ r_child_pc' = [r_child_pc EXCEPT ![i] = to]

\* read(sfd) returns SIGUSR1 and read_buff_via_signal says that we are ready.  While
\* the words come the slice holds a bit of the old chunk and a bit of the new one.
RC_Request(i) ==
  /\ R_ChildPc(i, "idle", "words")
  /\ link[i].st = "req" /\ ~r_quit[i]
  /\ link' = [link EXCEPT ![i].st = "go"]
  /\ fdsi_n' = [fdsi_n EXCEPT ![i] = link[i].n]
  /\ slice_at' = [slice_at EXCEPT ![i] = NoData]
  /\ UNCHANGED <<n_bytes_to_send, r_master, r_quit>>

\* read_buff_via_signal: every word is in its place, say so.  A SIGQUIT that came
\* meanwhile (from a master that left too early) was read as one of the words.
RC_Words(i) ==
  /\ R_ChildPc(i, "words", "store")
  /\ link[i].st = "data"
  /\ link' = [link EXCEPT ![i].st = "ack"]
  /\ slice_at' = [slice_at EXCEPT ![i] = IF r_quit[i] THEN NoData ELSE link[i].at]
  /\ r_quit' = [r_quit EXCEPT ![i] = FALSE]
  /\ UNCHANGED <<fdsi_n, n_bytes_to_send, r_master>>

\* cfgs->n_bytes_to_send = fdsi.ssi_int.
RC_Store(i) ==
  /\ R_ChildPc(i, "store", "post")
  /\ n_bytes_to_send' = [n_bytes_to_send EXCEPT ![i] = fdsi_n[i]]
  /\ UNCHANGED <<fdsi_n, slice_at, r_master, r_quit, link>>

RC_Post_NoA(i) ==                          \* mutant: A is forgotten
  /\ R_ChildPc(i, "post", "idle")
  /\ UNCHANGED <<fdsi_n, slice_at, n_bytes_to_send, r_master, r_quit, link>>

\* A(master_chid_sem, 1).
RC_Post(i) ==
  /\ R_ChildPc(i, "post", "idle")
  /\ r_master' = r_master + 1
  /\ UNCHANGED <<fdsi_n, slice_at, n_bytes_to_send, r_quit, link>>

RC_Stop_KeepsCount(i) ==                   \* mutant: the count is not reset
  /\ R_ChildPc(i, "idle", "post")
  /\ link[i].st = "stop" /\ ~r_quit[i]
  /\ link' = [link EXCEPT ![i] = Quiet]
  /\ UNCHANGED <<fdsi_n, slice_at, n_bytes_to_send, r_master, r_quit>>

\* read(sfd) returns SIGUSR2: the peer is gone, there is nothing more to read.
RC_Stop(i) ==
  /\ R_ChildPc(i, "idle", "post")
  /\ link[i].st = "stop" /\ ~r_quit[i]
  /\ link' = [link EXCEPT ![i] = Quiet]
  /\ n_bytes_to_send' = [n_bytes_to_send EXCEPT ![i] = 0]
  /\ UNCHANGED <<fdsi_n, slice_at, r_master, r_quit>>

\* read(sfd) returns SIGQUIT, the lowest of the numbers in the mask.
RC_Quit(i) ==
  /\ R_ChildPc(i, "idle", "exit")
  /\ r_quit[i] /\ r_quit' = [r_quit EXCEPT ![i] = FALSE]
  /\ n_bytes_to_send' = [n_bytes_to_send EXCEPT ![i] = 0]
  /\ r_master' = r_master + 1
  /\ UNCHANGED <<fdsi_n, slice_at, link>>

R_ChildStep(i) ==
  /\ \/ RC_Request(i) \/ RC_Words(i) \/ RC_Store(i) \/ RC_Post(i)
     \/ RC_Stop(i) \/ RC_Quit(i)
  /\ UNCHANGED <<r_mainVars, chainVars, peerVars>>

-----------------------------------------------------------------------------
(* The sender program, as far as the reader can tell.  Its master owns the  *)
(* turn from the start, or from the reader's SIGURG on, until its own       *)
(* SIGURG.  In a turn it sends the next 1 .. SWAP_BUF_SIZE bytes of the     *)
(* file through its children, or nothing: then the transfer is over and     *)
(* every child tells its peer with SIGUSR2.                                *)

EnvMaster(from, to) == peer_pc = from /\ peer_pc' = to

EnvTake ==
  /\ EnvMaster("wait", "own") /\ urg /\ urg' = FALSE
  /\ UNCHANGED <<peer_left, peer_n, peer_sent, reader_urg>>

EnvRound ==
  /\ EnvMaster("own", "told")
  /\ \E n \in 1 .. BUFFER_SIZE * N_CHILDS : peer_sent + n <= MaxFileLen /\ peer_n' = n
  /\ peer_left' = Child
  /\ UNCHANGED <<peer_sent, chainVars>>

EnvRoundOver ==
  /\ EnvMaster("told", "tell")
  /\ peer_left = {} /\ \A i \in Child : link[i] = Quiet
  /\ peer_sent' = peer_sent + peer_n /\ peer_n' = 0
  /\ UNCHANGED <<peer_left, chainVars>>

EnvSay ==
  /\ reader_urg' = TRUE
  /\ \/ EnvMaster("tell", "wait") /\ UNCHANGED peer_left
     \/ EnvMaster("own", "over") /\ peer_left' = Child
  /\ UNCHANGED <<peer_n, peer_sent, urg>>

EnvSender ==
  /\ EnvTake \/ EnvRound \/ EnvRoundOver \/ EnvSay
  /\ UNCHANGED <<r_mainVars, r_childVars, r_master, r_quit, link>>

EnvChild(i) ==
  /\ \/ /\ i \in peer_left /\ peer_left' = peer_left \ {i}
        /\ \/ /\ peer_pc = "told"
              /\ link' = [link EXCEPT ![i] = [st |-> "req", n |-> Share(peer_n, i), at |-> NoData]]
           \/ /\ peer_pc = "over"
              /\ link' = [link EXCEPT ![i] = [st |-> "stop", n |-> 0, at |-> NoData]]
     \/ /\ link[i].st = "go"
        /\ link' = [link EXCEPT ![i].st = "data", ![i].at = peer_sent + BUFFER_SIZE * i]
        /\ UNCHANGED peer_left
     \/ /\ link[i].st = "ack"
        /\ link' = [link EXCEPT ![i] = Quiet]
        /\ UNCHANGED peer_left
  /\ UNCHANGED <<r_mainVars, r_childVars, r_master, r_quit, chainVars, peer_pc, peer_n, peer_sent>>

-----------------------------------------------------------------------------
R_Ended == r_main_pc = "exit" /\ UNCHANGED vars

Next ==
  \/ R_Main \/ EnvSender \/ R_NoWaitSemop
  \/ \E i \in Child : R_ChildStep(i) \/ EnvChild(i)
  \/ R_Ended

\* Every process is scheduled, and the sender program keeps its part of the protocol.
Fairness ==
  /\ WF_vars(R_Main) /\ WF_vars(EnvSender)
  /\ \A i \in Child : WF_vars(R_ChildStep(i)) /\ WF_vars(EnvChild(i))

SafeSpec == Init /\ [][Next]_vars
Spec == SafeSpec /\ Fairness
=============================================================================
