------------------------ MODULE IpcObjectsProperties -------------------------
(***************************************************************************)
(* What init and full_cleanup promise about the kernel's objects.           *)
(***************************************************************************)
EXTENDS IpcObjects, TLC

Symmetric == Permutations(Runs)
\* A run that meets nobody of its program finds all its objects there and its
\* semaphores at 0, whatever earlier runs left behind by crashing in init, in the middle
\* or in full_cleanup (gen_semaphores_local, "clear sems").  Only a set that some
\* shared_free takes for its own, by the garbage in sync, may be missing (shm.h:103).
FreshStart ==
  [][\A r \in Runs : pc[r] = "make" /\ pc'[r] = "run" /\ alone[r] =>
       \A i \in 1 .. Len(Made(r)) :
         \E o \in objs' : /\ o.key = Made(r)[i] /\ o.id \in holds'[r]
                          /\ IsSem(o) => o.val = 0]_vars

\* When such a run has cleaned up, nothing of its program is left, what crashed runs
\* before it had left included (full_cleanup of both programs): the garbage may remove
\* a set too many, never keep one.
NothingLeft ==
  [][\A r \in Runs : pc[r] = "free" /\ pc'[r] = "over" /\ alone[r] =>
       \A o \in objs' : o.key[1] # prog[r]]_vars

-----------------------------------------------------------------------------
(* The inductive invariant of both.                                        *)

Programs == {"sender", "reader"}
Keys     == Programs \X {"shm", "sem"} \X Nat
Pcs      == {"off", "make", "run", "free", "over", "crashed", "orphans"}

\* Every variable keeps its type, and a position is one of the list it is for.
TypeInv ==
  /\ objs \subseteq [id : Int, key : Keys, val : {0, 1}] /\ next_id \in Int
  /\ prog \in [Runs -> Programs] /\ pc \in [Runs -> Pcs] /\ at \in [Runs -> Nat]
  /\ holds \in [Runs -> SUBSET Int] /\ alone \in [Runs -> BOOLEAN]
  /\ \A r \in Runs :
       /\ pc[r] \in {"off", "run"} => at[r] = 1
       /\ pc[r] = "make" => at[r] \in 1 .. Len(Made(r))
       /\ pc[r] = "free" => at[r] \in 1 .. Len(Freed(r))

\* An id or a key names one object; a run holds ids of its own program's objects.
IdInv ==
  /\ \A o, u \in objs : o.id = u.id \/ o.key = u.key => o = u
  /\ \A o \in objs : o.id < next_id
  /\ \A r \in Runs : \A x \in holds[r] : x < next_id
  /\ \A r \in Runs : \A o \in objs : o.id \in holds[r] => o.key[1] = prog[r]
  /\ \A r \in Runs : \A o \in objs : o.key[1] = prog[r] =>
       \E i \in 1 .. Len(Made(r)) : Made(r)[i] = o.key

\* A run that is alone has no other process of its program beside it.
AloneInv == \A r \in Runs : alone[r] /\ Live(r) => Fellows(r) = {}

\* It has what it has made, fresh; from then on it holds all that is its program's, and
\* what is left of that is still to be removed.
OwnInv ==
  \A r \in Runs : alone[r] =>
    /\ pc[r] = "make" => \A i \in 1 .. at[r] - 1 :
         \E o \in objs : /\ o.key = Made(r)[i] /\ o.id \in holds[r]
                         /\ IsSem(o) => o.val = 0
    /\ pc[r] = "run" => \A o \in objs : o.key[1] = prog[r] => o.id \in holds[r]
    /\ pc[r] = "free" => \A o \in objs : o.key[1] = prog[r] =>
         /\ o.id \in holds[r]
         /\ \E j \in at[r] .. Len(Freed(r)) : Freed(r)[j] = o.key

IpcInv == TypeInv /\ IdInv /\ AloneInv /\ OwnInv
=============================================================================
