----------------------------- MODULE IpcObjects ------------------------------
(***************************************************************************)
(* The System V objects of successive and simultaneous runs of the two      *)
(* programs: found or made by key in init, used, removed by id in           *)
(* full_cleanup.  A key is a program's file name and an index (ftok);       *)
(* objects outlive the processes.  A segment that is removed loses its key  *)
(* at once, whoever is still attached.                                     *)
(***************************************************************************)
EXTENDS Integers, Sequences

CONSTANTS
  N_SWAP_BUFFERS,
  Runs,         \* bound: the runs of either program
  Garbage,      \* the sync that shared_calloc_local leaves unset may be the id of a set
  Crashes       \* a run may end without full_cleanup

ASSUME IpcAssumption ==
  /\ N_SWAP_BUFFERS \in Nat \ {0} /\ {Garbage, Crashes} \subseteq BOOLEAN

VARIABLES
  objs,       \* the kernel's objects that have a key; val: a semaphore's, cut to 0 or 1
  next_id,
  prog,       \* the program of each run
  pc, at,     \* where it is; position in Made(r) or Freed(r)
  holds,      \* the ids it has stored
  alone       \* history: no other process of its program was there, no script, and
              \* nobody's sync named a set of it

vars == <<objs, next_id, prog, pc, at, holds, alone>>

Shm(p, i) == <<p, "shm", i>>
Sem(p, i) == <<p, "sem", i>>

\* What init makes, in its order; get_swap_buff makes a segment and a set.
Swaps(p) == [k \in 1 .. 2 * N_SWAP_BUFFERS |->
               IF k % 2 = 1 THEN Shm(p, (k + 1) \div 2) ELSE Sem(p, k \div 2)]
Made(r) ==
  LET p == prog[r]
  IN IF p = "sender" THEN <<Shm(p, 0), Sem(p, 0)>> \o Swaps(p)
                     ELSE <<Sem(p, 0), Shm(p, 0), Shm(p, 1)>>

Freed_NoMaster(r) ==                                    \* mutant: master_chid_sem stays
  LET p == prog[r]
  IN IF p = "sender" THEN Swaps(p) \o <<Shm(p, 0)>> ELSE <<Shm(p, 0), Shm(p, 1)>>

\* What full_cleanup removes, in its order.
Freed(r) ==
  LET p == prog[r]
  IN IF p = "sender" THEN Swaps(p) \o <<Sem(p, 0), Shm(p, 0)>>
                     ELSE <<Shm(p, 0), Shm(p, 1), Sem(p, 0)>>

Live(r) == pc[r] \in {"make", "run", "free"}
There(r) == Live(r) \/ pc[r] = "orphans"       \* some process of it is alive
IsSem(o) == o.key[2] = "sem"
Fellows(r) == {q \in Runs \ {r} : prog[q] = prog[r] /\ There(q)}

Init ==
  /\ objs = {} /\ next_id = 1
  /\ prog \in [Runs -> {"sender", "reader"}]
  /\ pc = [r \in Runs |-> "off"] /\ at = [r \in Runs |-> 1]
  /\ holds = [r \in Runs |-> {}] /\ alone = [r \in Runs |-> TRUE]

Start(r) ==
  /\ pc[r] = "off" /\ pc' = [pc EXCEPT ![r] = "make"]
  /\ alone' = [q \in Runs |-> IF q = r THEN Fellows(r) = {} ELSE alone[q] /\ q \notin Fellows(r)]
  /\ UNCHANGED <<objs, next_id, prog, at, holds>>

\* The next position of a list, or the state after its end.
Advance(r, list, over) ==
  IF at[r] < Len(list) THEN at' = [at EXCEPT ![r] = @ + 1] /\ UNCHANGED pc
  ELSE at' = [at EXCEPT ![r] = 1] /\ pc' = [pc EXCEPT ![r] = over]

Cleared_Never(o) == o                                   \* mutant: the loop "clear sems" is missing

\* gen_semaphores_local sets a semaphore to 0, whoever made it; shared_calloc_local
\* leaves the memory as it is.
Cleared(o) == IF IsSem(o) THEN [o EXCEPT !.val = 0] ELSE o

\* What shmget and semget with IPC_CREAT find: the object that has the key, if any.
Owners(key) == {o \in objs : o.key = key}

\* shared_calloc_local, gen_semaphores_local: the object that has the key, or a new one.
Make(r) ==
  LET key == Made(r)[at[r]]
      old == Owners(key)
      o   == IF old = {} THEN [id |-> next_id, key |-> key, val |-> 0]
                         ELSE CHOOSE x \in old : TRUE
  IN /\ pc[r] = "make" /\ Advance(r, Made(r), "run")
     /\ objs' = (objs \ old) \cup {Cleared(o)}
     /\ next_id' = IF old = {} THEN next_id + 1 ELSE next_id
     /\ holds' = [holds EXCEPT ![r] = @ \cup {o.id}]
     /\ UNCHANGED <<prog, alone>>

\* A semop() of a run, or of the children that a killed one left.
Use(r) ==
  /\ pc[r] \in {"run", "orphans"}
  /\ \E o \in objs : /\ IsSem(o) /\ o.id \in holds[r]
                     /\ objs' = (objs \ {o}) \cup {[o EXCEPT !.val = 1]}
  /\ UNCHANGED <<next_id, prog, pc, at, holds, alone>>

Leave(r) ==
  /\ pc[r] = "run" /\ pc' = [pc EXCEPT ![r] = "free"]
  /\ UNCHANGED <<objs, next_id, prog, at, holds, alone>>

\* cleanup_swap, shared_free, semctl(IPC_RMID): by the stored id.  shared_free removes
\* the set mem.sync first, a number from the stack.
Free(r) ==
  LET key == Freed(r)[at[r]]
      own == {o \in objs : o.key = key /\ o.id \in holds[r]}
  IN /\ pc[r] = "free" /\ Advance(r, Freed(r), "over")
     /\ \/ objs' = objs \ own /\ UNCHANGED alone
        \/ /\ Garbage /\ key[2] = "shm"
           /\ \E o \in objs :
                /\ IsSem(o) /\ objs' = objs \ (own \cup {o})
                /\ alone' = [q \in Runs |-> alone[q] /\ ~(q # r /\ Live(q) /\ o.id \in holds[q])]
     /\ UNCHANGED <<next_id, prog, holds>>

\* SIGKILL, or SIGINT before set_sigint_handler: of the master only, or of its children too.
Crash(r) ==
  /\ Crashes /\ Live(r)
  /\ \E left \in {"crashed", "orphans"} : pc' = [pc EXCEPT ![r] = left]
  /\ UNCHANGED <<objs, next_id, prog, at, holds, alone>>

\* cleanup.py: every segment that nobody has attached, and every set.
Script ==
  /\ objs' = {o \in objs : ~IsSem(o) /\ \E r \in Runs : There(r) /\ o.id \in holds[r]}
  /\ alone' = [r \in Runs |-> alone[r] /\ ~There(r)]
  /\ UNCHANGED <<next_id, prog, pc, at, holds>>

Next ==
  \/ Script
  \/ \E r \in Runs : Start(r) \/ Make(r) \/ Use(r) \/ Leave(r) \/ Free(r) \/ Crash(r)

Spec == Init /\ [][Next]_vars
=============================================================================
