------------------------------- MODULE Sender -------------------------------
(***************************************************************************)
(* The process family of hw_signals/sender/sender.c once init() is over:   *)
(* reader_thread (a forked process that reads the file into the ring of    *)
(* swap buffers), the master (main, chain_interation, main_loop,           *)
(* send_swap_buffer) and N_CHILDS children in work_for_child.  They share  *)
(* one semaphore per swap buffer, master_chid_sem, the buffers and cfgs.   *)
(* The reader program is the environment (Env actions).                   *)
(*                                                                         *)
(* A byte is identified by its offset in the input file, so the content of *)
(* a swap buffer is the offset its first byte came from.                   *)
(***************************************************************************)
EXTENDS Integers, FiniteSets, Shares

CONSTANTS
  N_SWAP_BUFFERS,  \* swap buffers in the ring
  MaxFileLen,      \* bound: the input file has at most this many bytes
  AlarmFires,      \* the transfer may outlast the alarm(3) of init_buf_for_cfg
  NoWait,          \* sem_flg, never initialised, may hold IPC_NOWAIT in one semop
  ReadFails        \* read() on the input file may return -1

ASSUME SenderAssumption ==
  /\ N_CHILDS \in Nat \ {0} /\ N_SWAP_BUFFERS \in Nat \ {0} /\ BUFFER_SIZE \in Nat \ {0}
  /\ MaxFileLen \in Nat /\ AlarmFires \in BOOLEAN
  /\ NoWait \in BOOLEAN /\ ReadFails \in BOOLEAN

VARIABLES
  file_len, file_pos,        \* the input file and the offset of fd
  rt_pc, rt_buf, readed,     \* reader_thread: control point, buf_idx, last read()
  swap_sem, active_bytes, swap_at, \* per swap buffer: semaphore, count, content
  main_pc, swp_idx, readed_bytes,  \* the master: control point, buffer, count
  is_first,                  \* sender_chain.is_first
  waits,                     \* iterations of the final wait() loop
  alarm, eintr,              \* SIGALRM "armed" or "fired"; the call it cut short
  sent,                      \* history: bytes of the rounds the master completed
  master, cfgs,              \* master_chid_sem and the shared Sender_child_cfg's
  usr2, sigquit,             \* SIGUSR2, SIGQUIT pending at each child
  child_pc, child_buf,       \* the children: control point, buff__
  link,                      \* what is between child i and its peer
  urg, reader_urg,           \* SIGURG pending at the two masters
  reader_busy                \* the reader's master is working on a round

rtVars    == <<file_len, file_pos, rt_pc, rt_buf, readed>>
swapVars  == <<swap_sem, active_bytes, swap_at>>
mainData  == <<swp_idx, readed_bytes, is_first, waits, alarm, eintr, sent>>
mainVars  == <<main_pc, mainData>>
cmdVars   == <<master, cfgs, usr2, sigquit>>
childVars == <<child_pc, child_buf>>
chainVars == <<urg, reader_urg, reader_busy>>
peerVars  == <<link, chainVars>>
vars == <<rtVars, swapVars, mainVars, cmdVars, childVars, peerVars>>

Buf == 0 .. N_SWAP_BUFFERS - 1
SWAP_BUF_SIZE == BUFFER_SIZE * N_CHILDS

NoData == -1                       \* content of a buffer never filled
Quiet  == [st |-> "idle", n |-> 0, at |-> NoData]

\* init() has run and the N_CHILDS + 1 processes are forked; none has moved.
Init ==
  /\ file_len \in 0 .. MaxFileLen /\ file_pos = 0
  /\ rt_pc = "set" /\ rt_buf = 0 /\ readed = 0
  /\ swap_sem = [b \in Buf |-> 0]
  /\ active_bytes = [b \in Buf |-> 0]
  /\ swap_at = [b \in Buf |-> NoData]
  /\ main_pc = "boot" /\ swp_idx = 0 /\ readed_bytes = 0
  /\ is_first = TRUE /\ waits = 0 /\ alarm = "armed" /\ eintr = "none" /\ sent = 0
  /\ master = 0
  /\ cfgs = [i \in Child |-> [cur_buf_idx |-> 0, n_bytes_to_send |-> 0]]
  /\ usr2 = [i \in Child |-> FALSE] /\ sigquit = [i \in Child |-> FALSE]
  /\ child_pc = [i \in Child |-> "start"] /\ child_buf = [i \in Child |-> 0]
  /\ link = [i \in Child |-> Quiet]
  /\ urg = FALSE /\ reader_urg = FALSE /\ reader_busy = FALSE

-----------------------------------------------------------------------------
(* reader_thread(fd) *)

RT(from, to) == rt_pc = from /\ rt_pc' = to

NextBuf_NoWrap(b) == b + 1                 \* mutant: the modulo is forgotten

\* buf_idx++; buf_idx %= N_SWAP_BUFFERS, in reader_thread and in main_loop.
NextBuf(b) == (b + 1) % N_SWAP_BUFFERS

\* for each buffer: set_active_bytes(swap_buffer[i], 1).
RT_SetAll ==
  /\ RT("set", "free")
  /\ active_bytes' = [b \in Buf |-> 1]
  /\ UNCHANGED <<file_pos, rt_buf, readed, swap_sem, swap_at>>

RT_WaitFree_NoZ ==                         \* mutant: Z is forgotten
  RT("free", "claim") /\ UNCHANGED <<file_pos, rt_buf, readed, swapVars>>

\* Z(swap_buffer[buf_idx].sem): sleep until the semaphore is zero.
RT_WaitFree ==
  /\ RT("free", "claim")
  /\ swap_sem[rt_buf] = 0
  /\ UNCHANGED <<file_pos, rt_buf, readed, swapVars>>

\* A(swap_buffer[buf_idx].sem, 1), a semop of its own.
RT_Claim ==
  /\ RT("claim", "read")
  /\ swap_sem' = [swap_sem EXCEPT ![rt_buf] = @ + 1]
  /\ UNCHANGED <<file_pos, rt_buf, readed, active_bytes, swap_at>>

\* read(): a short read is possible, 0 is the end of the file, -1 an error that
\* leaves the buffer as it was.
RT_Read ==
  /\ RT("read", "mark")
  /\ \/ \E n \in 1 .. SWAP_BUF_SIZE :
          /\ file_pos + n <= file_len
          /\ readed' = n /\ file_pos' = file_pos + n
          /\ swap_at' = [swap_at EXCEPT ![rt_buf] = file_pos]
     \/ file_pos = file_len /\ readed' = 0 /\ UNCHANGED <<file_pos, swap_at>>
     \/ ReadFails /\ readed' = -1 /\ UNCHANGED <<file_pos, swap_at>>
  /\ UNCHANGED <<rt_buf, swap_sem, active_bytes>>

RT_SetActive_Dropped ==                    \* mutant: the count is not stored
  RT("mark", "publish") /\ UNCHANGED <<file_pos, rt_buf, readed, swapVars>>

\* set_active_bytes(swap_buffer[buf_idx], readed).
RT_SetActive ==
  /\ RT("mark", "publish")
  /\ active_bytes' = [active_bytes EXCEPT ![rt_buf] = readed]
  /\ UNCHANGED <<file_pos, rt_buf, readed, swap_sem, swap_at>>

\* A(swap_buffer[buf_idx].sem, 2), next buffer, and leave unless readed > 0.
RT_Publish ==
  /\ RT("publish", IF readed > 0 THEN "free" ELSE "done")
  /\ swap_sem' = [swap_sem EXCEPT ![rt_buf] = @ + 2]
  /\ rt_buf' = NextBuf(rt_buf)
  /\ UNCHANGED <<file_pos, readed, active_bytes, swap_at>>

ReaderThread ==
  /\ RT_SetAll \/ RT_WaitFree \/ RT_Claim \/ RT_Read \/ RT_SetActive \/ RT_Publish
  /\ UNCHANGED <<file_len, mainVars, cmdVars, childVars, peerVars>>

-----------------------------------------------------------------------------
(* The master *)

MainPc(from, to) == main_pc = from /\ main_pc' = to

D_master_OneShort ==                       \* mutant: D(master_chid_sem, N_CHILDS - 1)
  /\ master >= N_CHILDS - 1
  /\ master' = master - (N_CHILDS - 1)
  /\ UNCHANGED <<cfgs, usr2, sigquit>>
D_master_OneMore ==                        \* mutant: D(master_chid_sem, N_CHILDS + 1)
  /\ master > N_CHILDS
  /\ master' = master - N_CHILDS - 1
  /\ UNCHANGED <<cfgs, usr2, sigquit>>

\* D(master_chid_sem, N_CHILDS).
D_master ==
  /\ master >= N_CHILDS
  /\ master' = master - N_CHILDS
  /\ UNCHANGED <<cfgs, usr2, sigquit>>

\* sub_process_creation: wait until every child listens to signals.
Main_Boot ==
  /\ MainPc("boot", "chain")
  /\ D_master
  /\ UNCHANGED <<mainData, swap_sem, urg, reader_urg>>

Main_ChainWait_Skips ==                    \* mutant: is_first is never cleared
  /\ MainPc("chain", "take")
  /\ UNCHANGED <<mainData, swap_sem, cmdVars, urg, reader_urg>>

\* chain_interation: stage 0 skips the wait for SIGURG the first time only.
Main_ChainWait ==
  /\ MainPc("chain", "take")
  /\ \/ is_first /\ is_first' = FALSE /\ UNCHANGED urg
     \/ ~is_first /\ urg /\ urg' = FALSE /\ UNCHANGED is_first
  /\ UNCHANGED <<swp_idx, readed_bytes, waits, alarm, eintr, sent, swap_sem, cmdVars, reader_urg>>

\* main_loop: D(swap_buffer[swp_buf_idx].sem, 2).
Main_TakeFull ==
  /\ MainPc("take", "get")
  /\ swap_sem[swp_idx] >= 2
  /\ swap_sem' = [swap_sem EXCEPT ![swp_idx] = @ - 2]
  /\ UNCHANGED <<mainData, cmdVars, urg, reader_urg>>

\* main_loop: get_active_bytes, and return at once when it is 0.
Main_GetBytes ==
  /\ MainPc("get", IF active_bytes[swp_idx] = 0 THEN "say" ELSE "send")
  /\ readed_bytes' = active_bytes[swp_idx]
  /\ UNCHANGED <<swp_idx, is_first, waits, alarm, eintr, sent, swap_sem, cmdVars, urg, reader_urg>>

\* send_swap_buffer: rewrite every cfg, then kill(child_pids[i], SIGUSR2).  (One
\* step: a child signalled later is a child scheduled later.)
Main_SendSwapBuffer ==
  /\ MainPc("send", "childs")
  /\ cfgs' = [i \in Child |-> [cur_buf_idx |-> swp_idx,
                               n_bytes_to_send |-> Share(readed_bytes, i)]]
  /\ usr2' = [i \in Child |-> TRUE]
  /\ UNCHANGED <<mainData, swap_sem, master, sigquit, urg, reader_urg>>

\* send_swap_buffer: wait for all the children.
Main_WaitChilds ==
  /\ MainPc("childs", "free")
  /\ D_master
  /\ UNCHANGED <<mainData, swap_sem, urg, reader_urg>>

\* The end of main_loop, after D(swap_buffer[swp_buf_idx].sem, 1).
Advance ==
  /\ swp_idx' = NextBuf(swp_idx)
  /\ sent' = IF readed_bytes > 0 THEN sent + readed_bytes ELSE sent

Main_FreeBuffer ==
  /\ MainPc("free", "say")
  /\ swap_sem[swp_idx] >= 1
  /\ swap_sem' = [swap_sem EXCEPT ![swp_idx] = @ - 1]
  /\ Advance
  /\ UNCHANGED <<readed_bytes, is_first, waits, alarm, eintr, cmdVars, urg, reader_urg>>

Main_SayReady_StopOnShort ==               \* mutant: a short read ends the transfer
  /\ MainPc("say", IF readed_bytes = SWAP_BUF_SIZE THEN "chain" ELSE "quit")
  /\ reader_urg' = TRUE
  /\ UNCHANGED <<mainData, swap_sem, cmdVars, urg>>

\* chain_interation: say_we_ready(reader); main's do-while stops on 0 bytes.
Main_SayReady ==
  /\ MainPc("say", IF readed_bytes # 0 THEN "chain" ELSE "quit")
  /\ reader_urg' = TRUE
  /\ UNCHANGED <<mainData, swap_sem, cmdVars, urg>>

\* main: sigqueue(child_pids[i], SIGQUIT) for every child.
Main_QuitChilds ==
  /\ MainPc("quit", "reap")
  /\ sigquit' = [i \in Child |-> TRUE]
  /\ UNCHANGED <<mainData, swap_sem, master, cfgs, usr2, urg, reader_urg>>

\* Forked processes that have exited, those wait() has returned, and the bound
\* of the wait() loop.
Exited == Cardinality({i \in Child : child_pc[i] = "exit"})
            + (IF rt_pc = "done" THEN 1 ELSE 0)
Reaped == IF eintr = "wait" THEN waits - 1 ELSE waits
WaitCount == N_CHILDS + 1

\* main: wait() returns an exited process.
Main_Wait ==
  /\ MainPc("reap", "reap")
  /\ waits < WaitCount /\ Exited > Reaped
  /\ waits' = waits + 1
  /\ UNCHANGED <<swp_idx, readed_bytes, is_first, alarm, eintr, sent,
                 swap_sem, cmdVars, urg, reader_urg>>

\* main: full_cleanup() removes the semaphores and shared memory; return.
Main_Cleanup ==
  /\ MainPc("reap", "exit")
  /\ waits = WaitCount
  /\ UNCHANGED <<mainData, swap_sem, cmdVars, urg, reader_urg>>

Main ==
  /\ \/ Main_Boot \/ Main_ChainWait \/ Main_TakeFull \/ Main_GetBytes
     \/ Main_SendSwapBuffer \/ Main_WaitChilds \/ Main_FreeBuffer
     \/ Main_SayReady \/ Main_QuitChilds \/ Main_Wait \/ Main_Cleanup
  /\ UNCHANGED <<rtVars, active_bytes, swap_at, childVars, link, reader_busy>>

(***************************************************************************)
(* A and D ignore what semop() returns, so a process whose semop() is cut   *)
(* short goes on as if it had waited.  Two things cut it short: SIGALRM     *)
(* (alarm(3) is never cancelled; timer_header then does nothing, but the    *)
(* signal ends a semop() of the master with EINTR, SA_RESTART or not), and  *)
(* IPC_NOWAIT in the uninitialised sem_flg.  wait() is restarted or not,    *)
(* act.sa_flags being uninitialised; sigwait() is not interrupted.          *)
(* Bound: at most one call of a behaviour is cut short (eintr names it).    *)
(***************************************************************************)
AfterSemop == [boot |-> "chain", take |-> "get", childs |-> "free", free |-> "say"]

Asleep ==
  \/ main_pc \in {"boot", "childs"} /\ master < N_CHILDS
  \/ main_pc = "take" /\ swap_sem[swp_idx] < 2
  \/ main_pc = "free" /\ swap_sem[swp_idx] < 1

\* The master leaves the semop() it sleeps in.
LeaveSemop ==
  /\ Asleep
  /\ eintr' = main_pc /\ main_pc' = AfterSemop[main_pc]
  /\ IF main_pc = "free" THEN Advance ELSE UNCHANGED <<swp_idx, sent>>
  /\ UNCHANGED waits

Alarm ==
  /\ AlarmFires /\ alarm = "armed" /\ alarm' = "fired" /\ eintr = "none"
  /\ \/ LeaveSemop
     \/ /\ main_pc = "reap" /\ waits < WaitCount /\ Exited <= Reaped
        /\ eintr' = "wait" /\ waits' = waits + 1
        /\ UNCHANGED <<main_pc, swp_idx, sent>>
     \/ ~Asleep /\ UNCHANGED <<main_pc, swp_idx, sent, waits, eintr>>
  /\ UNCHANGED <<readed_bytes, is_first, rtVars, swapVars, cmdVars, childVars, peerVars>>

\* The children only add to semaphores and never sleep.
NoWaitSemop ==
  /\ NoWait /\ eintr = "none"
  /\ \/ LeaveSemop /\ UNCHANGED rtVars
     \/ /\ RT("free", "claim") /\ swap_sem[rt_buf] # 0
        /\ eintr' = "Z"
        /\ UNCHANGED <<main_pc, swp_idx, sent, waits, file_len, file_pos, rt_buf, readed>>
  /\ UNCHANGED <<alarm, readed_bytes, is_first, swapVars, cmdVars, childVars, peerVars>>

-----------------------------------------------------------------------------
(* work_for_child(i).  send_buffer_via_signal is reduced to its phases:    *)
(* SIGUSR1 with the byte count, the peer's first SIGURG, the words, the    *)
(* peer's last SIGURG.                                                     *)

ChildPc(i, from, to) == child_pc[i] = from /\ child_pc' = [child_pc EXCEPT ![i] = to]

\* A(master_chid_sem, 1).
A_master == master' = master + 1 /\ UNCHANGED <<cfgs, usr2, sigquit>>

\* The signalfd exists: tell the master.
Child_Ready(i) ==
  /\ ChildPc(i, "start", "idle")
  /\ A_master
  /\ UNCHANGED <<child_buf, link>>

\* read(sfd) returns SIGUSR2; SIGQUIT has a lower number and would come first.
Child_Command(i) ==
  /\ ChildPc(i, "idle", "load")
  /\ usr2[i] /\ ~sigquit[i]
  /\ usr2' = [usr2 EXCEPT ![i] = FALSE]
  /\ UNCHANGED <<child_buf, link, master, cfgs, sigquit>>

\* Take buff__ and n_bytes from cfgs, queue SIGUSR1 with the count.
Child_Announce(i) ==
  /\ ChildPc(i, "load", "sync")
  /\ child_buf' = [child_buf EXCEPT ![i] = cfgs[i].cur_buf_idx]
  /\ link' = [link EXCEPT ![i] =
                  [st |-> "req", n |-> cfgs[i].n_bytes_to_send, at |-> NoData]]
  /\ UNCHANGED cmdVars

SlicePos_NoOffset(b, i) == swap_at[b]      \* mutant: BUFFER_SIZE * i is forgotten

\* buff__ = swap_buffer[...].shm.ptr + BUFFER_SIZE * internal_index.
SlicePos(b, i) == swap_at[b] + BUFFER_SIZE * i

\* The words of the slice are read from the swap buffer and queued.
Child_Words(i) ==
  /\ ChildPc(i, "sync", "final")
  /\ link[i].st = "go"
  /\ link' = [link EXCEPT ![i].st = "data", ![i].at = SlicePos(child_buf[i], i)]
  /\ UNCHANGED <<child_buf, cmdVars>>

\* wait_until_ready() at the end of send_buffer_via_signal.
Child_Final(i) ==
  /\ ChildPc(i, "final", "post")
  /\ link[i].st = "ack"
  /\ link' = [link EXCEPT ![i] = Quiet]
  /\ UNCHANGED <<child_buf, cmdVars>>

\* Tell the master that the slice is sent.
Child_Done(i) ==
  /\ ChildPc(i, "post", "idle")
  /\ A_master
  /\ UNCHANGED <<child_buf, link>>

\* SIGQUIT: tell the peer with SIGUSR2 and leave.
Child_Quit(i) ==
  /\ ChildPc(i, "idle", "exit")
  /\ sigquit[i] /\ sigquit' = [sigquit EXCEPT ![i] = FALSE]
  /\ link' = [link EXCEPT ![i] = [st |-> "stop", n |-> 0, at |-> NoData]]
  /\ UNCHANGED <<child_buf, master, cfgs, usr2>>

ChildStep(i) ==
  /\ \/ Child_Ready(i) \/ Child_Command(i) \/ Child_Announce(i) \/ Child_Words(i)
     \/ Child_Final(i) \/ Child_Done(i) \/ Child_Quit(i)
  /\ UNCHANGED <<rtVars, swapVars, mainVars, chainVars>>

-----------------------------------------------------------------------------
(* The reader program, as far as the sender can tell: child i gets SIGUSR1  *)
(* and says it is ready (req -> go), has read every word and says so (data *)
(* -> ack), reads SIGUSR2 (stop -> idle); the master takes SIGURG, and says *)
(* it is ready when its chain action has returned.                         *)

EnvLink(i) ==
  /\ \/ link[i].st = "req"  /\ link' = [link EXCEPT ![i].st = "go"]
     \/ link[i].st = "data" /\ link' = [link EXCEPT ![i].st = "ack"]
     \/ link[i].st = "stop" /\ link' = [link EXCEPT ![i] = Quiet]
  /\ UNCHANGED <<rtVars, swapVars, mainVars, cmdVars, childVars, chainVars>>

EnvMaster ==
  /\ \/ reader_urg /\ ~reader_busy /\ reader_urg' = FALSE /\ reader_busy' = TRUE /\ UNCHANGED urg
     \/ reader_busy /\ reader_busy' = FALSE /\ urg' = TRUE /\ UNCHANGED reader_urg
  /\ UNCHANGED <<rtVars, swapVars, mainVars, cmdVars, childVars, link>>

-----------------------------------------------------------------------------
\* Nothing is left to do once the program has returned.
Ended == main_pc = "exit" /\ UNCHANGED vars

Next ==
  \/ ReaderThread \/ Main \/ Alarm \/ NoWaitSemop
  \/ \E i \in Child : ChildStep(i) \/ EnvLink(i)
  \/ EnvMaster \/ Ended

\* Every process is scheduled and the reader program keeps answering; the alarm
\* and a failing read() are never owed.
Fairness ==
  /\ WF_vars(ReaderThread) /\ WF_vars(Main) /\ WF_vars(EnvMaster)
  /\ \A i \in Child : WF_vars(ChildStep(i)) /\ WF_vars(EnvLink(i))

SafeSpec == Init /\ [][Next]_vars
Spec == SafeSpec /\ Fairness
=============================================================================
