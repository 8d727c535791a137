------------------------------ MODULE Session -------------------------------
(***************************************************************************)
(* The sender program and the reader program together, from the end of      *)
(* their handshake on.  Each is the other's environment: the links between  *)
(* the children and the two SIGURGs between the masters are shared, and     *)
(* what Sender and Reader assume of their environment is read off the other *)
(* program's state (reader_busy and the peer_ variables).                   *)
(***************************************************************************)
EXTENDS Integers, Sequences, FiniteSets

CONSTANTS
  N_CHILDS, N_SWAP_BUFFERS, BUFFER_SIZE, MaxFileLen,
  AlarmFires, NoWait, ReadFails, ShortWrites,   \* as in Sender and Reader
  LateReader    \* the reader's master may still wait for the handshake's last SIGURG

ASSUME SessionAssumption ==
  /\ N_CHILDS \in Nat \ {0} /\ N_SWAP_BUFFERS \in Nat \ {0} /\ BUFFER_SIZE \in Nat \ {0}
  /\ MaxFileLen \in Nat /\ AlarmFires \in BOOLEAN /\ NoWait \in BOOLEAN
  /\ ReadFails \in BOOLEAN /\ ShortWrites \in BOOLEAN /\ LateReader \in BOOLEAN

VARIABLES
  file_len, file_pos, rt_pc, rt_buf, readed, swap_sem, active_bytes, swap_at,
  main_pc, swp_idx, readed_bytes, is_first, waits, alarm, eintr, sent,
  master, cfgs, usr2, sigquit, child_pc, child_buf,          \* of Sender
  r_main_pc, need_write, adding, r_waits, out, short, r_cut, r_master, n_bytes_to_send,
  r_quit, r_child_pc, fdsi_n, slice_at,                      \* of Reader
  link, urg, reader_urg,                                     \* of both
  lagging,   \* the reader's master is in the last wait_until_readyp of send_pids_thread
  lost       \* history: a SIGURG of the sender's master met one still pending

senderVars == <<file_len, file_pos, rt_pc, rt_buf, readed, swap_sem, active_bytes, swap_at,
                main_pc, swp_idx, readed_bytes, is_first, waits, alarm, eintr, sent,
                master, cfgs, usr2, sigquit, child_pc, child_buf>>
readerVars == <<r_main_pc, need_write, adding, r_waits, out, short, r_cut, r_master, n_bytes_to_send,
                r_quit, r_child_pc, fdsi_n, slice_at>>
vars == <<senderVars, readerVars, link, urg, reader_urg, lagging, lost>>

\* The sender sees of the reader's master whether it is between a wait and a say.
S == INSTANCE Sender WITH reader_busy <- r_main_pc \in {"gather", "sum", "write", "say"}

\* The reader sees of the sender's master whose turn it is.
PeerPc ==
  CASE main_pc \in {"boot", "take", "get", "send"} -> "own"
    [] main_pc = "chain" -> IF is_first THEN "own" ELSE "wait"
    [] main_pc \in {"childs", "free"} -> "told"
    [] main_pc = "say" -> IF readed_bytes = 0 THEN "own" ELSE "tell"
    [] OTHER -> "over"

\* The children the sender's master has commanded, or told to quit.
PeerLeft ==
  IF PeerPc = "over" THEN {i \in S!Child : child_pc[i] # "exit"}
  ELSE {i \in S!Child : usr2[i] \/ child_pc[i] = "load"}

R == INSTANCE Reader WITH
  peer_pc <- PeerPc, peer_left <- PeerLeft, peer_sent <- sent,
  peer_n <- IF PeerPc = "told" THEN readed_bytes ELSE 0

Child == S!Child

-----------------------------------------------------------------------------
Init ==
  /\ r_main_pc = "chain" /\ S!Init /\ R!Init   \* (S!Init reads r_main_pc)
  /\ lagging \in {FALSE, LateReader} /\ lost = FALSE

SenderProcess(A) == UNCHANGED <<readerVars, lagging, lost>> /\ A
ReaderProcess(A) == UNCHANGED <<senderVars, lagging, lost>> /\ A

ReaderThread  == SenderProcess(S!ReaderThread)
SenderMain    == SenderProcess(S!Main)
SenderChild(i) == SenderProcess(S!ChildStep(i))
CutShort      == SenderProcess(S!Alarm \/ S!NoWaitSemop)
ReaderMain    == ~lagging /\ ReaderProcess(R!R_Main)
ReaderCutShort == ReaderProcess(R!R_NoWaitSemop)
ReaderChild(i) == ReaderProcess(R!R_ChildStep(i))

\* wait_until_readyp takes the handshake's last SIGURG; a SIGURG of the chain that
\* came while it was pending was merged with it, and is gone.
LastPid ==
  /\ lagging /\ lagging' = FALSE
  /\ lost' = reader_urg /\ reader_urg' = FALSE
  /\ UNCHANGED <<senderVars, readerVars, link, urg>>

Ended == main_pc = "exit" /\ r_main_pc = "exit" /\ UNCHANGED vars

Next ==
  \/ ReaderThread \/ SenderMain \/ ReaderMain \/ LastPid
  \/ CutShort \/ ReaderCutShort
  \/ \E i \in Child : SenderChild(i) \/ ReaderChild(i)
  \/ Ended

\* Every process of the two programs is scheduled.
Fairness ==
  /\ WF_vars(ReaderThread) /\ WF_vars(SenderMain) /\ WF_vars(ReaderMain \/ LastPid)
  /\ \A i \in Child : WF_vars(SenderChild(i)) /\ WF_vars(ReaderChild(i))

SafeSpec == Init /\ [][Next]_vars
Spec == SafeSpec /\ Fairness
=============================================================================
