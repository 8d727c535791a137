------------------------------ MODULE Lifecycle ------------------------------
(***************************************************************************)
(* The processes of both programs from start to end: fork (RUN_IN_FG),      *)
(* SIGINT and kill_all, the wait() loops, full_cleanup.  What the masters   *)
(* and their children do with the data is left out: the transfer ends when  *)
(* everybody is there, and hangs otherwise (nobody looks for SIGCHLD).      *)
(* A SIGKILL is only posted by kill(): the process it is for may run on     *)
(* until the signal is delivered, on another CPU or asleep in a read().     *)
(***************************************************************************)
EXTENDS Integers

CONSTANTS
  N_CHILDS,
  ForkFails,       \* fork() may return -1
  KidsDie,         \* a child may be killed from outside
  AlarmFires,      \* alarm(3) may go off
  MaxInterrupts    \* bound: SIGINTs of the user

ASSUME LifecycleAssumption ==
  /\ N_CHILDS \in Nat \ {0} /\ MaxInterrupts \in Nat
  /\ {ForkFails, KidsDie, AlarmFires} \subseteq BOOLEAN

VARIABLES
  m,            \* m[p]: where the master of program p is
  kid,          \* kid[p][i]: state of process i forked by it
  told,         \* told[p]: the children it has sent SIGQUIT
  ipc,          \* ipc[p]: its IPC objects exist
  done,         \* the whole file is with the reader's children
  wide,         \* history: a kill(-1, ...), to every process of the user
  doomed,       \* the programs whose master has been sent SIGKILL
  interrupts    \* history: SIGINTs of the user

vars == <<m, kid, told, ipc, done, wide, doomed, interrupts>>

Prog == {"sender", "reader"}
Peer(p) == IF p = "sender" THEN "reader" ELSE "sender"
Child == 1 .. N_CHILDS
ReaderThread == 0
Kids(p) == IF p = "sender" THEN Child \cup {ReaderThread} ELSE Child

Armed    == {"run", "reap", "clean"}                  \* SIGINT runs kill_all
Handling == {"k_kids", "k_clean", "k_peer"}           \* in kill_all, SIGINT blocked
Over     == {"exit", "killed"}                        \* left by return or by kill_all
Alive(p) == {i \in Kids(p) : kid[p][i] = "alive"}
Running(p) == {i \in Kids(p) : kid[p][i] \in {"alive", "dying"}}  \* or with a signal to come
Failed(p) == {i \in Kids(p) : kid[p][i] = "failed"}   \* their stored pid is -1

Init ==
  /\ m = [p \in Prog |-> "off"]
  /\ kid = [p \in Prog |-> [i \in Kids(p) |-> "none"]]
  /\ told = [p \in Prog |-> {}]
  /\ ipc = [p \in Prog |-> FALSE]
  /\ done = FALSE /\ wide = FALSE /\ doomed = {} /\ interrupts = 0

Go(p, from, to) == m[p] = from /\ m' = [m EXCEPT ![p] = to]

-----------------------------------------------------------------------------
(* Starting *)

\* init: the reader goes on to fork, the sender to the handshake.
Start(p) ==
  /\ Go(p, "off", IF p = "reader" THEN "fork" ELSE "meet")
  /\ ipc' = [ipc EXCEPT ![p] = TRUE]
  /\ UNCHANGED <<kid, told, done, wide, doomed, interrupts>>

\* sub_process_creation: RUN_IN_FG stores what fork() returns, -1 included.  A fork() with
\* a SIGKILL pending does not return.
Fork(p) ==
  /\ Go(p, "fork", "boot") /\ p \notin doomed
  /\ \E F \in SUBSET Kids(p) :
       /\ F # {} => ForkFails
       /\ kid' = [kid EXCEPT ![p] = [i \in Kids(p) |-> IF i \in F THEN "failed" ELSE "alive"]]
  /\ UNCHANGED <<told, ipc, done, wide, doomed, interrupts>>

\* D(master_chid_sem, N_CHILDS): every child has posted (reader_thread does not).
\* In the sender SIGALRM may end it.
Boot(p) ==
  /\ Go(p, "boot", IF p = "reader" THEN "meet" ELSE "late")
  /\ \/ Failed(p) \subseteq {ReaderThread}
     \/ p = "sender" /\ AlarmFires
  /\ UNCHANGED <<kid, told, ipc, done, wide, doomed, interrupts>>

\* The handshake (Handshake).
Meet ==
  /\ m["sender"] = "meet" /\ m["reader"] = "meet"
  /\ m' = [sender |-> "fork", reader |-> "late"]
  /\ UNCHANGED <<kid, told, ipc, done, wide, doomed, interrupts>>

\* timer_header during the handshake: SIGINT to oneself.
Timeout ==
  /\ AlarmFires /\ Go("sender", "meet", "dead")
  /\ UNCHANGED <<kid, told, ipc, done, wide, doomed, interrupts>>

\* set_sigint_handler.
Arm(p) ==
  /\ Go(p, "late", "run")
  /\ UNCHANGED <<kid, told, ipc, done, wide, doomed, interrupts>>

-----------------------------------------------------------------------------
(* Transfer and normal end *)

\* send_swap_buffer: kill(child_pids[i], SIGUSR2) with a pid of -1.  The reader's
\* master and all children have blocked SIGUSR2.
CommandAll ==
  /\ m["sender"] = "run" /\ Failed("sender") \cap Child # {} /\ ~wide
  /\ kid["sender"][ReaderThread] # "failed"
  /\ wide' = TRUE
  /\ UNCHANGED <<m, kid, told, ipc, done, doomed, interrupts>>

\* The loops of chain_interation, when all processes are there (Session).
Transfer ==
  /\ ~done /\ done' = TRUE
  /\ \A p \in Prog : m[p] = "run" /\ Running(p) = Kids(p)
  /\ UNCHANGED <<m, kid, told, ipc, wide, doomed, interrupts>>

Quit_OneShort(p) ==                                     \* mutant: i < N_CHILDS - 1
  /\ done /\ Go(p, "run", "reap")
  /\ p = "reader" => \A i \in Child : kid["sender"][i] = "exited"
  /\ told' = [told EXCEPT ![p] = 1 .. N_CHILDS - 1]
  /\ UNCHANGED <<kid, ipc, done, wide, doomed, interrupts>>

\* SIGQUIT to the children.  The reader's master gets there when every child of the
\* sender has told its peer that it leaves.
Quit(p) ==
  /\ done /\ Go(p, "run", "reap")
  /\ p = "reader" => \A i \in Child : kid["sender"][i] = "exited"
  /\ told' = [told EXCEPT ![p] = Child]
  /\ UNCHANGED <<kid, ipc, done, wide, doomed, interrupts>>

\* A child returns from its loop at SIGQUIT, reader_thread at the end of the file.
KidExits(p, i) ==
  /\ i \in Running(p) /\ (i \in told[p] \/ (i = ReaderThread /\ done))
  /\ kid' = [kid EXCEPT ![p][i] = "exited"]
  /\ UNCHANGED <<m, told, ipc, done, wide, doomed, interrupts>>

Reap_OneShort(p) ==                                     \* mutant: the reader_thread is not waited for
  /\ Go(p, "reap", "clean") /\ Running(p) \subseteq {ReaderThread}
  /\ UNCHANGED <<kid, told, ipc, done, wide, doomed, interrupts>>

\* As many wait()s as forks were tried; without children wait() fails at once.
Reap(p) ==
  /\ Go(p, "reap", "clean") /\ Running(p) = {}
  /\ UNCHANGED <<kid, told, ipc, done, wide, doomed, interrupts>>

\* full_cleanup and return.
Cleanup(p) ==
  /\ Go(p, "clean", "exit")
  /\ ipc' = [ipc EXCEPT ![p] = FALSE]
  /\ UNCHANGED <<kid, told, done, wide, doomed, interrupts>>

-----------------------------------------------------------------------------
(* SIGINT *)

\* What SIGINT does to the master of p: kill_all, or the default action.
Hit(p) ==
  IF m[p] \in Armed THEN "k_kids"
  ELSE IF m[p] \in Handling \cup Over \cup {"off"} THEN m[p] ELSE "dead"

\* kill(): a fatal signal is posted to every process of k that still lives.
Kill(k) == [i \in DOMAIN k |-> IF k[i] = "alive" THEN "dying" ELSE k[i]]

\* The signal is delivered.
KidGone(p, i) ==
  /\ kid[p][i] = "dying"
  /\ kid' = [kid EXCEPT ![p][i] = "killed"]
  /\ UNCHANGED <<m, told, ipc, done, wide, doomed, interrupts>>

MasterGone(p) ==
  /\ p \in doomed /\ m[p] \notin Over \cup {"dead"}
  /\ m' = [m EXCEPT ![p] = "dead"]
  /\ UNCHANGED <<kid, told, ipc, done, wide, doomed, interrupts>>

\* Ctrl-C reaches the children, too, whose action is the default one; kill -INT the
\* master only.  Bound: MaxInterrupts.
Interrupt(p) ==
  /\ interrupts < MaxInterrupts /\ m[p] \notin Over \cup {"off", "dead"}
  /\ m' = [m EXCEPT ![p] = Hit(p)] /\ interrupts' = interrupts + 1
  /\ \/ kid' = [kid EXCEPT ![p] = Kill(@)]
     \/ UNCHANGED kid
  /\ UNCHANGED <<told, ipc, done, wide, doomed>>

KillKids_ChildsOnly(p) ==                               \* mutant: reader_thread_pid is forgotten
  /\ Go(p, "k_kids", "k_clean")
  /\ kid' = [kid EXCEPT ![p] = [i \in Kids(p) |-> IF i \in Child THEN Kill(@)[i] ELSE @[i]]]
  /\ UNCHANGED <<told, ipc, done, wide, doomed, interrupts>>

\* kill_all: SIGKILL to every stored pid.  A pid of -1 stands for every process of the
\* user but the caller.  Nobody waits for them.
KillKids(p) ==
  /\ Go(p, "k_kids", "k_clean")
  /\ IF Failed(p) = {}
     THEN kid' = [kid EXCEPT ![p] = Kill(@)] /\ UNCHANGED <<wide, doomed>>
     ELSE /\ kid' = [q \in Prog |-> Kill(kid[q])] /\ wide' = TRUE
          /\ doomed' = doomed \cup {q \in {Peer(p)} : m[q] # "off"}
  /\ UNCHANGED <<told, ipc, done, interrupts>>

\* kill_all: full_cleanup.
KillCleanup(p) ==
  /\ Go(p, "k_clean", "k_peer")
  /\ ipc' = [ipc EXCEPT ![p] = FALSE]
  /\ UNCHANGED <<kid, told, done, wide, doomed, interrupts>>

KillPeer_Silent(p) ==                                   \* mutant: the other program is not told
  /\ Go(p, "k_peer", "killed")
  /\ UNCHANGED <<kid, told, ipc, done, wide, doomed, interrupts>>

\* kill_all: SIGINT to the other program's master, and exit.
KillPeer(p) ==
  /\ m[p] = "k_peer"
  /\ m' = [m EXCEPT ![p] = "killed", ![Peer(p)] = Hit(Peer(p))]
  /\ UNCHANGED <<kid, told, ipc, done, wide, doomed, interrupts>>

\* A child is killed from outside; nobody looks.
KidDies(p, i) ==
  /\ KidsDie /\ i \in Alive(p)
  /\ kid' = [kid EXCEPT ![p][i] = "dying"]
  /\ UNCHANGED <<m, told, ipc, done, wide, doomed, interrupts>>

-----------------------------------------------------------------------------
Master(p) ==
  \/ Start(p) \/ Fork(p) \/ Boot(p) \/ Arm(p)
  \/ Quit(p) \/ Reap(p) \/ Cleanup(p)
  \/ KillKids(p) \/ KillCleanup(p) \/ KillPeer(p)

Next ==
  \/ Meet \/ Timeout \/ CommandAll \/ Transfer
  \/ \E p \in Prog :
       \/ Master(p) \/ Interrupt(p) \/ MasterGone(p)
       \/ \E i \in Kids(p) : KidExits(p, i) \/ KidDies(p, i) \/ KidGone(p, i)

\* Every process is scheduled, every SIGKILL is delivered, the user starts both programs.
Fairness ==
  /\ WF_vars(Meet) /\ WF_vars(Transfer)
  /\ \A p \in Prog :
       /\ WF_vars(Master(p)) /\ WF_vars(MasterGone(p))
       /\ \A i \in Kids(p) : WF_vars(KidExits(p, i)) /\ WF_vars(KidGone(p, i))

SafeSpec == Init /\ [][Next]_vars
Spec == SafeSpec /\ Fairness
=============================================================================
