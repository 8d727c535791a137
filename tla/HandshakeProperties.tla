------------------------- MODULE HandshakeProperties -------------------------
(***************************************************************************)
(* What the handshake promises.                                            *)
(***************************************************************************)
EXTENDS Handshake

SenderPcs == {"off", "ask", "read", "say", "done", "chain", "turn", "dead"}
ReaderPcs == {"init", "spin", "send", "wait", "chain", "turn", "dead", "error"}

\* Every variable keeps its type (sender_get_pids_thread, send_pids_thread).
TypeOK ==
  /\ s_pc \in SenderPcs /\ s_i \in 0 .. N_CHILDS
  /\ cfg \in [Child -> Child \cup {None}] /\ armed \in BOOLEAN
  /\ r_pc \in ReaderPcs /\ r_i \in Child /\ attempts \in 0 .. Attempts
  /\ usr1 \in Child \cup {None} /\ urg \in {"none", "sender", "stranger"}
  /\ strangers \in 0 .. Strangers

\* sender.c:80-87, reader.c:205-211: at every moment the first s_i entries of the
\* sender are the pids of the first s_i children of the reader, in their order, and a
\* sender that leaves the handshake has them all; whatever strangers send, and although
\* a SIGUSR1 would be merged with a pending one.
CfgsRight ==
  /\ \A i \in Child : i < s_i => cfg[i] = i
  /\ s_pc \in {"done", "chain", "turn"} => s_i = N_CHILDS

\* The two loops keep step: what is under way is the pid the sender waits for, or the
\* answer the reader waits for, never both (CfgsRight rests on it).
InStep ==
  /\ s_pc = "off" => s_i = 0 /\ r_pc \in {"init", "spin"}
  /\ s_pc = "ask" => s_i = 0 /\ r_pc \in {"init", "spin"}
  /\ r_pc \in {"init", "spin", "dead"} => r_i = 0 /\ s_i = 0 /\ usr1 = None /\ urg = "none"
                                            /\ s_pc \in {"off", "ask", "read", "dead"}
  /\ s_pc \in {"read", "say"} => s_i < N_CHILDS
  /\ s_pc = "say" => cfg[s_i] = s_i /\ r_i = s_i /\ usr1 = None
                       /\ r_pc \in {"wait", "error"} /\ urg # "sender"
  /\ usr1 # None => /\ usr1 = s_i /\ r_i = s_i /\ urg # "sender"
                    /\ r_pc \in {"wait", "error"}
  /\ r_pc = "send" => s_pc \in {"read", "dead"} /\ s_i = r_i /\ usr1 = None
                        /\ urg # "sender"
  /\ r_pc = "wait" /\ urg = "sender" => s_i = r_i + 1
  /\ r_pc = "wait" => attempts > 0 /\ s_i \in {r_i, r_i + 1}

\* The sender that has left the handshake finds the reader as Session starts with it:
\* waiting for its first turn, or still for the SIGURG of the last pid, which is there
\* already (the first SIGURG of the chain may then meet it and be lost).  Only a
\* stranger's SIGURG brings anything else.
SessionStart ==
  s_pc = "chain" =>
    \/ r_pc = "chain" /\ urg = "none"
    \/ r_pc = "wait" /\ r_i = N_CHILDS - 1 /\ urg = "sender"
    \/ strangers < Strangers

\* transfer.c:32, "Too many processes sending signals": a reader that gives up was sent
\* at least Attempts - 1 SIGURGs by others.  (The one looked at last may be the one it
\* waits for all the same, transfer.c:29: the attempts are counted first.)
GivesUpForStrangers == r_pc = "error" => Strangers - strangers >= Attempts - 1

\* A sender that was started gets all pids or is ended by its timer: it never reads for
\* ever (sender.c:111-115).
SenderNeverHangs == s_pc = "ask" ~> s_pc \in {"turn", "dead"}

\* Left alone by strangers and the timer, both masters come to the chain: the sender has
\* said its first SIGURG there, and the reader has it or lost it in the handshake's last
\* one; unless the sender asked before the reader was ready.
Completes ==
  \/ <>(s_pc = "turn" /\ r_pc \in {"chain", "turn"})
  \/ <>(r_pc = "dead" \/ s_pc = "dead" \/ strangers < Strangers)
=============================================================================
