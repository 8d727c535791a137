------------------------------ MODULE Handshake ------------------------------
(***************************************************************************)
(* How the two masters meet: init_buf_for_cfg and sender_get_pids_thread of *)
(* the sender, init, send_pids and send_pids_thread of the reader.  The     *)
(* reader's pid is given to the sender by hand; the sender asks with        *)
(* SIGUSR2, the reader sends the pid of each of its children as the value   *)
(* of a SIGUSR1 and waits for a SIGURG after each.  alarm(3) is all that    *)
(* guards the sender.                                                      *)
(*                                                                         *)
(* One signal of a number is pending at most; its siginfo is that of the    *)
(* first.  Other processes may send SIGURG, which everybody ignores who has *)
(* not blocked it.                                                         *)
(***************************************************************************)
EXTENDS Integers

CONSTANTS
  N_CHILDS,
  Attempts,     \* SIGURGs wait_until_readyp looks at, 100
  Strangers,    \* bound: SIGURGs of other processes
  AlarmFires    \* the handshake may take more than three seconds

ASSUME HandshakeAssumption ==
  /\ N_CHILDS \in Nat \ {0} /\ Attempts \in Nat \ {0, 1}
  /\ Strangers \in Nat /\ AlarmFires \in BOOLEAN

VARIABLES
  s_pc, s_i,      \* the sender's master; i of its loop
  cfg,            \* cfg[i].pid_to_send
  armed,          \* alarm(3) has not gone off
  r_pc, r_i,      \* the reader's master; i of its loop
  attempts,       \* of wait_until_readyp
  usr1,           \* SIGUSR1 pending at the sender: the pid it carries
  urg,            \* SIGURG pending at the reader: who sent it
  strangers       \* SIGURGs other processes may still send

senderVars == <<s_pc, s_i, cfg, armed>>
readerVars == <<r_pc, r_i, attempts>>
vars == <<senderVars, readerVars, usr1, urg, strangers>>

Child == 0 .. N_CHILDS - 1       \* child i of the reader has child_pids[i] = i
None == -1                       \* no pid, no signal

Init ==
  /\ s_pc = "off" /\ s_i = 0 /\ cfg = [i \in Child |-> None] /\ armed = FALSE
  /\ r_pc = "init" /\ r_i = 0 /\ attempts = 0
  /\ usr1 = None /\ urg = "none" /\ strangers = Strangers

\* SIGURG to the reader: ignored until init_signals_for_reader has blocked it.
Blocked == r_pc \notin {"init", "spin", "dead", "error"}
SayToReader(who) == urg' = IF Blocked /\ urg = "none" THEN who ELSE urg

-----------------------------------------------------------------------------
(* The sender's master *)

\* main, init_buf_for_cfg: started with the pid the reader printed; sets the timer.
S_Start ==
  /\ s_pc = "off" /\ s_pc' = "ask" /\ armed' = TRUE
  /\ UNCHANGED <<s_i, cfg, readerVars, usr1, urg, strangers>>

\* SIGUSR2 asks the reader.  Its default action is to terminate.
S_Ask ==
  /\ s_pc = "ask" /\ s_pc' = "read"
  /\ r_pc' = IF r_pc = "init" THEN "dead" ELSE "send"
  /\ UNCHANGED <<s_i, cfg, armed, r_i, attempts, usr1, urg, strangers>>

\* read(sfd) returns a SIGUSR1; its value is the pid of the next child.
S_Read ==
  /\ s_pc = "read" /\ usr1 # None /\ s_pc' = "say"
  /\ cfg' = [cfg EXCEPT ![s_i] = usr1] /\ usr1' = None
  /\ UNCHANGED <<s_i, armed, readerVars, urg, strangers>>

S_Say_OneShort ==                                       \* mutant: i < N_CHILDS - 1
  /\ s_pc = "say" /\ SayToReader("sender")
  /\ s_pc' = IF s_i + 2 >= N_CHILDS THEN "done" ELSE "read"
  /\ s_i' = s_i + 1
  /\ UNCHANGED <<cfg, armed, readerVars, usr1, strangers>>

\* say_we_ready after each pid.
S_Say ==
  /\ s_pc = "say" /\ SayToReader("sender")
  /\ s_pc' = IF s_i + 1 = N_CHILDS THEN "done" ELSE "read"
  /\ s_i' = s_i + 1
  /\ UNCHANGED <<cfg, armed, readerVars, usr1, strangers>>

\* ignore_timeout = 1: from here on the timer only interrupts.
S_IgnoreTimeout ==
  /\ s_pc = "done" /\ s_pc' = "chain"
  /\ UNCHANGED <<s_i, cfg, armed, readerVars, usr1, urg, strangers>>

\* The first SIGURG of the chain, after a whole buffer went from child to child.
S_Chain ==
  /\ s_pc = "chain" /\ s_pc' = "turn" /\ SayToReader("sender")
  /\ UNCHANGED <<s_i, cfg, armed, readerVars, usr1, strangers>>

S_Alarm_Kept ==                                         \* mutant: a handler that does nothing
  /\ AlarmFires /\ armed /\ armed' = FALSE
  /\ UNCHANGED <<s_pc, s_i, cfg, readerVars, usr1, urg, strangers>>

\* timer_header: SIGINT to oneself, whose action is still the default one.
S_Alarm ==
  /\ AlarmFires /\ armed /\ armed' = FALSE
  /\ s_pc' = IF s_pc \in {"chain", "turn"} THEN s_pc ELSE "dead"
  /\ UNCHANGED <<s_i, cfg, readerVars, usr1, urg, strangers>>

S_Step == S_Start \/ S_Ask \/ S_Read \/ S_Say \/ S_IgnoreTimeout \/ S_Chain

-----------------------------------------------------------------------------
(* The reader's master.  sigsuspend(NULL) fails at once, so that it spins on *)
(* sender_pid until helper_handler has set it.                              *)

\* send_pids: the handler of SIGUSR2, long after init has printed the pid.
R_SetHandler ==
  /\ r_pc = "init" /\ r_pc' = "spin"
  /\ UNCHANGED <<senderVars, r_i, attempts, usr1, urg, strangers>>

R_Send_NoReset ==                                       \* mutant: attempts is static, too
  /\ r_pc = "send" /\ r_pc' = "wait"
  /\ attempts' = IF r_i = 0 THEN Attempts ELSE attempts
  /\ usr1' = IF usr1 = None /\ s_pc # "dead" THEN r_i ELSE usr1
  /\ UNCHANGED <<senderVars, r_i, urg, strangers>>

\* sigqueue() of the next pid (lost if one is pending), then wait_until_readyp.
R_Send ==
  /\ r_pc = "send" /\ r_pc' = "wait" /\ attempts' = Attempts
  /\ usr1' = IF usr1 = None /\ s_pc # "dead" THEN r_i ELSE usr1
  /\ UNCHANGED <<senderVars, r_i, urg, strangers>>

R_NextPid ==
  IF r_i + 1 < N_CHILDS THEN r_pc' = "send" /\ r_i' = r_i + 1
                        ELSE r_pc' = "chain" /\ r_i' = r_i

R_TakeUrg_AnyPid ==                                     \* mutant: wait_until_ready instead
  /\ r_pc = "wait" /\ urg # "none" /\ urg' = "none"
  /\ attempts' = attempts - 1 /\ R_NextPid
  /\ UNCHANGED <<senderVars, usr1, strangers>>

\* wait_until_readyp: gives up when attempts is 0, whoever sent the last SIGURG.
R_TakeUrg ==
  /\ r_pc = "wait" /\ urg # "none" /\ urg' = "none"
  /\ attempts' = attempts - 1
  /\ CASE attempts' = 0 -> r_pc' = "error" /\ r_i' = r_i
       [] attempts' # 0 /\ urg = "sender" -> R_NextPid
       [] OTHER -> UNCHANGED <<r_pc, r_i>>
  /\ UNCHANGED <<senderVars, usr1, strangers>>

\* wait_until_ready of the chain takes any SIGURG.
R_Chain ==
  /\ r_pc = "chain" /\ urg # "none" /\ urg' = "none" /\ r_pc' = "turn"
  /\ UNCHANGED <<senderVars, r_i, attempts, usr1, strangers>>

R_Step == R_SetHandler \/ R_Send \/ R_TakeUrg \/ R_Chain

-----------------------------------------------------------------------------
\* SIGURG of another process.
Stranger ==
  /\ strangers > 0 /\ strangers' = strangers - 1 /\ SayToReader("stranger")
  /\ UNCHANGED <<senderVars, readerVars, usr1>>

\* A sender that reads for ever is only ended by its timer, a reader by nobody.
Stop ==
  /\ s_pc \in {"read", "dead", "turn"} /\ r_pc \notin {"init", "send"}
  /\ UNCHANGED vars

Next == S_Step \/ R_Step \/ S_Alarm \/ Stranger \/ Stop

\* Both masters are scheduled and the timer goes off; the user starts the sender.
Fairness == WF_vars(S_Step) /\ WF_vars(R_Step) /\ WF_vars(S_Alarm)

SafeSpec == Init /\ [][Next]_vars
Spec == SafeSpec /\ Fairness
=============================================================================
