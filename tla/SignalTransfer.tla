--------------------------- MODULE SignalTransfer ---------------------------
(***************************************************************************)
(* One child of the sender and its peer, signal by signal:                  *)
(* send_buffer_via_signal, read_buff_via_signal and the work_for_child      *)
(* loops around them.  A slice of Words words is sent in arrays of          *)
(* SIGNAL_RANGE words, word k of an array as the value of real-time signal  *)
(* START_SIGNAL + k; SIGURG says "I am ready".                             *)
(*                                                                         *)
(* The kernel: a standard signal that is sent again while it is pending is  *)
(* merged with it; a real-time signal is queued; read() on the signalfd     *)
(* returns the pending signal of the mask with the lowest number; sigwait() *)
(* takes SIGURG, which is not in the mask; a sigqueue() over                *)
(* RLIMIT_SIGPENDING loses a real-time signal, but only the value and the   *)
(* pid of a standard one.                                                  *)
(***************************************************************************)
EXTENDS Integers, Sequences

CONSTANTS
  SIGNAL_RANGE,   \* SIGRTMAX - SIGRTMIN
  Words,          \* words of a slice, BUFFER_SIZE / sizeof(Sended_t)
  MaxTransfers,   \* bound: slices the sender's master has sent
  SigqueueFails   \* sigqueue() may fail with EAGAIN

ASSUME TransferAssumption ==
  /\ SIGNAL_RANGE \in Nat \ {0} /\ Words \in Nat \ {0}
  /\ MaxTransfers \in Nat /\ SigqueueFails \in BOOLEAN

VARIABLES
  s,        \* the sender's child: control point, array i, word k
  to_s,     \* signals pending at the sender's child
  r,        \* the reader's child: the same, and the SIGUSR1 it serves (fdsi)
  to_r,     \* signals pending at the reader's child; q: those of the mask, by number
  buffer,   \* the reader's slice
  begun, helloed, acked,   \* slices announced; first and last SIGURGs for them
  merged, failed           \* history: a SIGURG met one pending; a sigqueue() failed

counts == <<begun, helloed, acked>>
vars == <<s, to_s, r, to_r, buffer, counts, merged, failed>>

\* The mask of the reader's child, in the order of the signal numbers.
SIGQUIT == 0
SIGUSR1 == 1
SIGUSR2 == 2
START_SIGNAL == 3
Mask == 0 .. START_SIGNAL + SIGNAL_RANGE - 1

Slot   == 0 .. Words - 1
Arrays_OneShort == Words \div SIGNAL_RANGE - 1                        \* mutant: the last array stays
\* BUFFER_SIZE / SIGNAL_RANGE__ / sizeof(Sended_t)
Arrays == Words \div SIGNAL_RANGE

\* What a siginfo tells: who sent it (pid 0 reads as a process group) and its value.
Info(pid, value) == [pid |-> pid, value |-> value]
Word(t, p) == <<t, p>>       \* word p of slice t
NoValue == <<>>

Init ==
  /\ s = [pc |-> "idle", i |-> 0, k |-> 0]
  /\ r = [pc |-> "idle", i |-> 0, k |-> 0, fdsi |-> Info("nobody", NoValue)]
  /\ to_s = [quit |-> FALSE, usr2 |-> FALSE, urg |-> FALSE]
  /\ to_r = [urg |-> FALSE, q |-> [n \in Mask |-> <<>>]]
  /\ buffer = [p \in Slot |-> NoValue]
  /\ begun = 0 /\ helloed = 0 /\ acked = 0
  /\ merged = FALSE /\ failed = FALSE

\* kill(pid, SIGURG): merged with a SIGURG that is still pending.
SayToReader == to_r' = [to_r EXCEPT !.urg = TRUE] /\ merged' = (merged \/ to_r.urg)
SayToSender == to_s' = [to_s EXCEPT !.urg = TRUE] /\ merged' = (merged \/ to_s.urg)

\* kill() or sigqueue() of signal n to the reader's child.
Queue(n, info) ==
  to_r' = [to_r EXCEPT !.q[n] = IF n < START_SIGNAL /\ @ # <<>> THEN @ ELSE Append(@, info)]

\* read(sfd) of the reader's child returns signal n.
Read(n) ==
  /\ to_r.q[n] # <<>> /\ \A j \in 0 .. n - 1 : to_r.q[j] = <<>>
  /\ to_r' = [to_r EXCEPT !.q[n] = Tail(@)]

-----------------------------------------------------------------------------
(* The child of the sender *)

\* SIGUSR2 of the master: announce the slice with SIGUSR1.
S_Command ==
  /\ s.pc = "idle" /\ to_s.usr2 /\ ~to_s.quit
  /\ to_s' = [to_s EXCEPT !.usr2 = FALSE]
  /\ s' = [pc |-> "ready", i |-> 0, k |-> 0] /\ begun' = begun + 1
  /\ \/ Queue(SIGUSR1, Info("child", <<begun + 1>>)) /\ UNCHANGED failed
     \/ SigqueueFails /\ failed' = TRUE /\ Queue(SIGUSR1, Info("group", NoValue))
  /\ UNCHANGED merged

S_Ready_NoWait ==                                        \* mutant: the peer is not waited for
  /\ s.pc = "ready"
  /\ s' = [s EXCEPT !.pc = IF s.i < Arrays THEN "word" ELSE "post"]
  /\ UNCHANGED <<to_s, to_r, begun, merged, failed>>

\* send_buffer_via_signal: wait_until_ready before each array and after the last.
S_Ready ==
  /\ s.pc = "ready" /\ to_s.urg
  /\ to_s' = [to_s EXCEPT !.urg = FALSE]
  /\ s' = [s EXCEPT !.pc = IF s.i < Arrays THEN "word" ELSE "post"]
  /\ UNCHANGED <<to_r, begun, merged, failed>>

\* send_arr_via_signal: one sigqueue(), whose result is ignored.
S_Word ==
  /\ s.pc = "word"
  /\ \/ /\ Queue(START_SIGNAL + s.k, Info("child", Word(begun, s.i * SIGNAL_RANGE + s.k)))
        /\ UNCHANGED failed
     \/ SigqueueFails /\ failed' = TRUE /\ UNCHANGED to_r
  /\ s' = [s EXCEPT !.k = @ + 1, !.pc = IF s.k + 1 = SIGNAL_RANGE THEN "say" ELSE "word"]
  /\ UNCHANGED <<to_s, begun, merged>>

\* send_buffer_via_signal: say_we_ready after each array.
S_SayReady ==
  /\ s.pc = "say" /\ SayToReader
  /\ s' = [pc |-> "ready", i |-> s.i + 1, k |-> 0]
  /\ UNCHANGED <<to_s, begun, failed>>

\* A(master_chid_sem, 1) and back to read(sfd).
S_Post ==
  /\ s.pc = "post" /\ s' = [s EXCEPT !.pc = "idle"]
  /\ UNCHANGED <<to_s, to_r, begun, merged, failed>>

\* SIGQUIT of the master: tell the peer with SIGUSR2 and leave.
S_Quit ==
  /\ s.pc = "idle" /\ to_s.quit
  /\ to_s' = [to_s EXCEPT !.quit = FALSE]
  /\ s' = [s EXCEPT !.pc = "exit"]
  /\ Queue(SIGUSR2, Info("child", NoValue))
  /\ UNCHANGED <<begun, merged, failed>>

S_Step ==
  /\ S_Command \/ S_Ready \/ S_Word \/ S_SayReady \/ S_Post \/ S_Quit
  /\ UNCHANGED <<r, buffer, helloed, acked>>

-----------------------------------------------------------------------------
(* The child of the reader *)

\* say_we_ready(fdsi.ssi_pid): pid 0 is the process group of the reader itself.
R_Say == IF r.fdsi.pid = "child" THEN SayToSender /\ UNCHANGED to_r
                                 ELSE SayToReader /\ UNCHANGED to_s

\* read(sfd) in work_for_child returns SIGUSR1.
R_Request ==
  /\ r.pc = "idle" /\ Read(SIGUSR1)
  /\ r' = [pc |-> "hello", i |-> 0, k |-> 0, fdsi |-> Head(to_r.q[SIGUSR1])]
  /\ UNCHANGED <<to_s, buffer, helloed, acked, merged>>

\* read_buff_via_signal: say_we_ready before the first array.
R_Hello ==
  /\ r.pc = "hello" /\ r' = [r EXCEPT !.pc = "ready"] /\ R_Say
  /\ helloed' = helloed + 1
  /\ UNCHANGED <<buffer, acked>>

R_Ready_NoWait ==                                        \* mutant: the SIGURG is not taken
  /\ r.pc = "ready"
  /\ r' = [r EXCEPT !.pc = "word"]
  /\ UNCHANGED <<to_r, to_s, buffer, helloed, acked, merged>>

\* read_buff_via_signal: wait_until_ready before each array.
R_Ready ==
  /\ r.pc = "ready" /\ to_r.urg
  /\ to_r' = [to_r EXCEPT !.urg = FALSE]
  /\ r' = [r EXCEPT !.pc = "word"]
  /\ UNCHANGED <<to_s, buffer, helloed, acked, merged>>

\* read_arr_via_signal: whichever signal read(sfd) returns, its value is the next word.
R_Word ==
  /\ r.pc = "word"
  /\ \E n \in Mask :
       /\ Read(n)
       /\ buffer' = [buffer EXCEPT ![r.i * SIGNAL_RANGE + r.k] = Head(to_r.q[n]).value]
  /\ r' = [r EXCEPT !.k = @ + 1, !.pc = IF r.k + 1 = SIGNAL_RANGE THEN "say" ELSE "word"]
  /\ UNCHANGED <<to_s, helloed, acked, merged>>

\* The say_we_ready of read_buff_via_signal was for the last array.
R_Next ==
  /\ r' = [r EXCEPT !.i = @ + 1, !.k = 0, !.pc = IF r.i + 1 < Arrays THEN "ready" ELSE "post"]
  /\ acked' = IF r.i + 1 < Arrays THEN acked ELSE acked + 1

R_SayReady_NotLast ==                                    \* mutant: no SIGURG after the last array
  /\ r.pc = "say" /\ R_Next
  /\ IF r.i + 1 < Arrays THEN R_Say ELSE UNCHANGED <<to_s, to_r, merged>>
  /\ UNCHANGED <<buffer, helloed>>

R_SayReady_OneShort ==                                   \* mutant: the last array is left
  /\ r.pc = "say" /\ R_Say
  /\ r' = [r EXCEPT !.i = @ + 1, !.k = 0, !.pc = IF r.i + 2 < Arrays THEN "ready" ELSE "post"]
  /\ acked' = IF r.i + 2 < Arrays THEN acked ELSE acked + 1
  /\ UNCHANGED <<buffer, helloed>>

\* read_buff_via_signal: say_we_ready after each array.
R_SayReady == r.pc = "say" /\ R_Say /\ R_Next /\ UNCHANGED <<buffer, helloed>>

\* Store the count (fdsi.ssi_int), A(master_chid_sem, 1) and back to read(sfd).
R_Post ==
  /\ r.pc = "post" /\ r' = [r EXCEPT !.pc = "idle"]
  /\ UNCHANGED <<to_s, to_r, buffer, helloed, acked, merged>>

\* read(sfd) in work_for_child returns SIGUSR2: A(master_chid_sem, 1).
R_Stop ==
  /\ r.pc = "idle" /\ Read(SIGUSR2)
  /\ UNCHANGED <<r, to_s, buffer, helloed, acked, merged>>

\* read(sfd) in work_for_child returns SIGQUIT.
R_Quit ==
  /\ r.pc = "idle" /\ Read(SIGQUIT) /\ r' = [r EXCEPT !.pc = "exit"]
  /\ UNCHANGED <<to_s, buffer, helloed, acked, merged>>

R_Step ==
  /\ \/ R_Request \/ R_Hello \/ R_Ready \/ R_Word \/ R_SayReady \/ R_Post
     \/ R_Stop \/ R_Quit
  /\ UNCHANGED <<s, begun, failed>>

-----------------------------------------------------------------------------
(* The masters.  SIGUSR2 or SIGQUIT may reach the sender's child while it    *)
(* still sends (in Sender, after a semop() was cut short); the reader's      *)
(* master sends SIGQUIT once its children have read SIGUSR2.                *)

MasterStep == UNCHANGED <<s, r, buffer, counts, merged, failed>>

\* Bound: MaxTransfers commands.
Command ==
  /\ begun < MaxTransfers
  /\ to_s' = [to_s EXCEPT !.usr2 = TRUE] /\ UNCHANGED to_r /\ MasterStep

Quit == s.pc # "exit" /\ to_s' = [to_s EXCEPT !.quit = TRUE] /\ UNCHANGED to_r /\ MasterStep

QuitReader ==
  /\ s.pc = "exit" /\ r.pc = "idle" /\ to_r.q[SIGUSR2] = <<>>
  /\ Queue(SIGQUIT, Info("master", NoValue)) /\ UNCHANGED to_s /\ MasterStep

Ended == s.pc = "exit" /\ r.pc = "exit" /\ UNCHANGED vars

Next == S_Step \/ R_Step \/ Command \/ Quit \/ QuitReader \/ Ended

\* Both children are scheduled; of the masters only the final SIGQUITs are owed.
Fairness ==
  /\ WF_vars(S_Step) /\ WF_vars(R_Step)
  /\ WF_vars(Quit) /\ WF_vars(QuitReader)

SafeSpec == Init /\ [][Next]_vars
Spec == SafeSpec /\ Fairness
=============================================================================
