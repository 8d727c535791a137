------------------------- MODULE LifecycleProperties -------------------------
(***************************************************************************)
(* What starting, interrupting and ending the two programs promises.        *)
(***************************************************************************)
EXTENDS Lifecycle

\* A program that returned, or that kill_all ended at whatever point of the transfer or
\* of its normal end SIGINT came, leaves no IPC object behind, and no process but those
\* that have a fatal signal on the way (sender.c:326-334, 394-403, reader.c:260-267,
\* 323-332).
NobodyLeft == \A p \in Prog : m[p] \in Over => Alive(p) = {} /\ ~ipc[p]

\* On the normal path the IPC objects are removed under no process that still runs: the
\* wait() loop comes first, whatever SIGKILLs and SIGINTs are about.  kill_all does not
\* wait, so there a child may outlive them, but only one that has its SIGKILL or SIGINT
\* on the way (sender.c:327-330, 394-403, reader.c:261-263, 323-332).
OnlyDyingOutlive ==
  \A p \in Prog : m[p] \notin {"off", "dead"} /\ ~ipc[p] =>
    /\ Alive(p) = {}
    /\ m[p] = "exit" => Running(p) = {}

\* A SIGINT that one program handles ends both, masters and children, whatever the other
\* is doing by then, whoever died before and although both may be interrupted at once
\* (kill_all); only a peer that has not set its handler yet dies without cleaning up.
InterruptEndsBoth ==
  \A p \in Prog :
    m[p] = "k_kids" /\ m[Peer(p)] \in Armed \cup Handling \cup Over
      ~> wide \/ \A q \in Prog : m[q] \in Over /\ Running(q) = {}

\* Left alone, both programs return: reader_thread and all children leave in the order
\* in which the masters wait for them.
NormalEnd ==
  <>(\/ \A p \in Prog : m[p] = "exit"
     \/ interrupts > 0 \/ m["sender"] = "dead"
     \/ \E p \in Prog, i \in Child \cup {ReaderThread} :
          i \in Kids(p) /\ kid[p][i] \in {"failed", "dying", "killed"})

\* sender.c:324, "For correct execution kill all minor-process": the signals of
\* kill_all and of send_swap_buffer go to the program's own processes.  Does not hold:
\* after a fork() that failed they go to every process of the user.
OnlyMinorProcesses == ~wide
=============================================================================
