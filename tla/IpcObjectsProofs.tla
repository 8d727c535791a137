-------------------------- MODULE IpcObjectsProofs --------------------------
(***************************************************************************)
(* Proofs, for every set of runs, every number of swap buffers, crashes and *)
(* any garbage, of what IpcObjectsProperties states.                       *)
(***************************************************************************)
EXTENDS IpcObjectsProperties, SequenceTheorems, TLAPS

USE IpcAssumption

\* Writing one entry of a function.
LEMMA EntrySet ==
  ASSUME NEW S, NEW f \in [Runs -> S], NEW r \in Runs, NEW v \in S, NEW g, g = [f EXCEPT ![r] = v]
  PROVE  g \in [Runs -> S] /\ g[r] = v /\ \A q \in Runs : q # r => g[q] = f[q]
  OBVIOUS

\* The keys of the swap buffers are keys of the program, two to a buffer.
LEMMA SwapsAre ==
  ASSUME NEW p \in Programs
  PROVE  /\ Swaps(p) \in Seq(Keys) /\ Len(Swaps(p)) = 2 * N_SWAP_BUFFERS
         /\ \A k \in 1 .. Len(Swaps(p)) : Swaps(p)[k] \in Keys /\ Swaps(p)[k][1] = p
  <1>1. ASSUME NEW k \in 1 .. 2 * N_SWAP_BUFFERS
        PROVE  Swaps(p)[k] \in Keys /\ Swaps(p)[k][1] = p
    <2>1. (k + 1) \div 2 \in Nat /\ k \div 2 \in Nat
      OBVIOUS
    <2> QED BY <2>1 DEF Swaps, Shm, Sem, Keys
  <1>2. 2 * N_SWAP_BUFFERS \in Nat
    OBVIOUS
  <1>3. Swaps(p) \in [1 .. 2 * N_SWAP_BUFFERS -> Keys]
    <2>1. Swaps(p) = [k \in 1 .. 2 * N_SWAP_BUFFERS |-> Swaps(p)[k]]
      BY DEF Swaps
    <2> QED BY <1>1, <2>1
  <1>4. Swaps(p) \in Seq(Keys) /\ Len(Swaps(p)) = 2 * N_SWAP_BUFFERS
    BY <1>2, <1>3
  <1> QED BY <1>1, <1>4

\* Both lists are of keys of the program; what is made is freed.
LEMMA ListsAre ==
  ASSUME NEW r \in Runs, prog[r] \in Programs
  PROVE  /\ Made(r) \in Seq(Keys) /\ Freed(r) \in Seq(Keys)
         /\ 1 \in 1 .. Len(Made(r)) /\ 1 \in 1 .. Len(Freed(r))
         /\ \A i \in 1 .. Len(Made(r)) : Made(r)[i] \in Keys /\ Made(r)[i][1] = prog[r]
         /\ \A i \in 1 .. Len(Made(r)) : \E j \in 1 .. Len(Freed(r)) : Freed(r)[j] = Made(r)[i]
  <1> DEFINE p == prog[r]
             sw == Swaps(p)
             n == Len(sw)
  <1>1. /\ sw \in Seq(Keys) /\ n \in Nat
        /\ \A k \in 1 .. n : sw[k] \in Keys /\ sw[k][1] = p
    BY SwapsAre
  <1>2. /\ Shm(p, 0) \in Keys /\ Sem(p, 0) \in Keys /\ Shm(p, 1) \in Keys
        /\ Shm(p, 0)[1] = p /\ Sem(p, 0)[1] = p /\ Shm(p, 1)[1] = p
    BY DEF Shm, Sem, Keys
  <1>3. CASE p = "sender"
    <2>1. Made(r) = <<Shm(p, 0), Sem(p, 0)>> \o sw /\ Freed(r) = sw \o <<Sem(p, 0), Shm(p, 0)>>
      BY <1>3 DEF Made, Freed
    <2> HIDE DEF p, sw
    <2>2. /\ <<Shm(p, 0), Sem(p, 0)>> \in Seq(Keys) /\ Len(<<Shm(p, 0), Sem(p, 0)>>) = 2
          /\ <<Sem(p, 0), Shm(p, 0)>> \in Seq(Keys) /\ Len(<<Sem(p, 0), Shm(p, 0)>>) = 2
      BY <1>2
    <2>3. /\ Made(r) \in Seq(Keys) /\ Len(Made(r)) = n + 2
          /\ \A i \in 1 .. n + 2 : Made(r)[i] = IF i <= 2 THEN <<Shm(p, 0), Sem(p, 0)>>[i] ELSE sw[i - 2]
      BY <1>1, <2>1, <2>2, ConcatProperties
    <2>4. /\ Freed(r) \in Seq(Keys) /\ Len(Freed(r)) = n + 2
          /\ \A j \in 1 .. n + 2 : Freed(r)[j] = IF j <= n THEN sw[j] ELSE <<Sem(p, 0), Shm(p, 0)>>[j - n]
      BY <1>1, <2>1, <2>2, ConcatProperties
    <2>5. \A i \in 1 .. n + 2 : Made(r)[i] \in Keys /\ Made(r)[i][1] = p
      BY <1>1, <1>2, <2>3
    <2>6. ASSUME NEW i \in 1 .. n + 2 PROVE \E j \in 1 .. n + 2 : Freed(r)[j] = Made(r)[i]
      <3>1. CASE i = 1
        <4>1. Freed(r)[n + 2] = Made(r)[i]
          BY <1>1, <2>3, <2>4, <3>1
        <4> QED BY <1>1, <4>1
      <3>2. CASE i = 2
        <4>1. Freed(r)[n + 1] = Made(r)[i]
          BY <1>1, <2>3, <2>4, <3>2
        <4> QED BY <1>1, <4>1
      <3>3. CASE i > 2
        <4>1. i - 2 \in 1 .. n + 2 /\ Freed(r)[i - 2] = Made(r)[i]
          BY <1>1, <2>3, <2>4, <3>3
        <4> QED BY <4>1
      <3> QED BY <1>1, <3>1, <3>2, <3>3
    <2> QED BY <1>1, <2>3, <2>4, <2>5, <2>6 DEF p
  <1>4. CASE p = "reader"
    <2>1. /\ Made(r) = <<Sem(p, 0), Shm(p, 0), Shm(p, 1)>>
          /\ Freed(r) = <<Shm(p, 0), Shm(p, 1), Sem(p, 0)>>
      BY <1>4 DEF Made, Freed
    <2> HIDE DEF p
    <2>2. Made(r) \in Seq(Keys) /\ Freed(r) \in Seq(Keys) /\ Len(Made(r)) = 3 /\ Len(Freed(r)) = 3
      BY <1>2, <2>1
    <2>3. /\ Made(r)[1] = Freed(r)[3] /\ Made(r)[2] = Freed(r)[1] /\ Made(r)[3] = Freed(r)[2]
      BY <2>1
    <2>4. \A i \in 1 .. 3 : Made(r)[i] \in Keys /\ Made(r)[i][1] = p
      BY <1>2, <2>1
    <2> QED BY <2>2, <2>3, <2>4 DEF p
  <1> QED BY <1>3, <1>4 DEF Programs

\* The lists depend on the program only, which no step changes.
LEMMA SameLists ==
  /\ \A r, q \in Runs : prog[r] = prog[q] => Made(r) = Made(q)
  /\ prog' = prog => \A r \in Runs : Made(r)' = Made(r) /\ Freed(r)' = Freed(r)
  BY DEF Made, Freed, Swaps, Shm, Sem

\* A step that moves no run along a list, adds no object and gives nobody an id.
LEMMA TypeKept ==
  ASSUME TypeInv, IdInv, UNCHANGED <<prog, next_id, holds>>, objs' \subseteq objs
  PROVE  /\ objs' \subseteq [id : Int, key : Keys, val : {0, 1}] /\ IdInv'
  BY SameLists DEF TypeInv, IdInv

\* A run of another program, or one that is gone, has no part in what a run owns.
LEMMA OthersAway ==
  ASSUME AloneInv, NEW r \in Runs, NEW q \in Runs, q # r, alone[r], Live(r), There(q)
  PROVE  prog[q] # prog[r]
  BY DEF AloneInv, Fellows

LEMMA InitIpc == Init => IpcInv
  <1> SUFFICES ASSUME Init PROVE IpcInv
    OBVIOUS
  <1>1. TypeInv
    BY DEF Init, TypeInv, Pcs, Programs
  <1> QED BY <1>1 DEF Init, IpcInv, IdInv, AloneInv, OwnInv, Live

LEMMA StartIpc == ASSUME IpcInv, NEW r \in Runs, Start(r) PROVE IpcInv'
  <1> USE DEF IpcInv
  <1>1. /\ pc[r] = "off" /\ pc' = [pc EXCEPT ![r] = "make"]
        /\ UNCHANGED <<objs, next_id, prog, at, holds>>
        /\ alone' = [q \in Runs |-> IF q = r THEN Fellows(r) = {} ELSE alone[q] /\ q \notin Fellows(r)]
    BY DEF Start
  <1>2. TypeInv'
    <2>1. at[r] = 1 /\ 1 \in 1 .. Len(Made(r))
      BY <1>1, ListsAre DEF TypeInv
    <2>2. pc' \in [Runs -> Pcs] /\ alone' \in [Runs -> BOOLEAN]
      BY <1>1 DEF TypeInv, Pcs
    <2> QED BY <1>1, <2>1, <2>2, SameLists DEF TypeInv
  <1>3. IdInv'
    BY <1>1, TypeKept
  <1>4. AloneInv'
    <2> SUFFICES ASSUME NEW q \in Runs, alone'[q], Live(q)', NEW u \in Runs \ {q},
                        prog[u] = prog[q], There(u)'
                 PROVE  FALSE
      BY <1>1 DEF AloneInv, Fellows
    <2>1. CASE q = r
      BY <1>1, <2>1 DEF TypeInv, Fellows, There, Live
    <2>2. CASE q # r
      BY <1>1, <2>2 DEF TypeInv, Fellows, There, Live, AloneInv
    <2> QED BY <2>1, <2>2
  <1>5. OwnInv'
    <2> SUFFICES ASSUME NEW q \in Runs, alone'[q]
                 PROVE  /\ pc'[q] = "make" => \A i \in 1 .. at[q] - 1 :
                             \E o \in objs : /\ o.key = Made(q)[i] /\ o.id \in holds[q]
                                             /\ IsSem(o) => o.val = 0
                        /\ pc'[q] = "run" => \A o \in objs : o.key[1] = prog[q] => o.id \in holds[q]
                        /\ pc'[q] = "free" => \A o \in objs : o.key[1] = prog[q] =>
                             /\ o.id \in holds[q]
                             /\ \E j \in at[q] .. Len(Freed(q)) : Freed(q)[j] = o.key
      BY <1>1, SameLists DEF OwnInv, IsSem
    <2>1. CASE q = r
      BY <1>1, <2>1 DEF TypeInv
    <2>2. CASE q # r
      BY <1>1, <2>2 DEF TypeInv, OwnInv
    <2> QED BY <2>1, <2>2
  <1> QED BY <1>2, <1>3, <1>4, <1>5

\* A step that only ends something: processes, objects, or the history of being alone.
LEMMA LessIpc ==
  ASSUME IpcInv, UNCHANGED <<prog, next_id, holds, at>>, objs' \subseteq objs,
         pc' \in [Runs -> Pcs], alone' \in [Runs -> BOOLEAN],
         \A q \in Runs : pc'[q] # pc[q] => pc'[q] \in {"crashed", "orphans"} /\ Live(q),
         \A q \in Runs : alone'[q] => alone[q],
         \A q \in Runs, o \in objs : alone'[q] /\ Live(q) /\ o.id \in holds[q] => o \in objs'
  PROVE  IpcInv'
  <1> USE DEF IpcInv
  <1>1. TypeInv' /\ IdInv'
    BY TypeKept, SameLists DEF TypeInv
  <1>2. AloneInv'
    BY DEF AloneInv, Fellows, There, Live
  <1>3. OwnInv'
    <2> SUFFICES ASSUME NEW q \in Runs, alone'[q]
                 PROVE  /\ pc'[q] = "make" => \A i \in 1 .. at[q] - 1 :
                             \E o \in objs' : /\ o.key = Made(q)[i] /\ o.id \in holds[q]
                                              /\ IsSem(o) => o.val = 0
                        /\ pc'[q] = "run" => \A o \in objs' : o.key[1] = prog[q] => o.id \in holds[q]
                        /\ pc'[q] = "free" => \A o \in objs' : o.key[1] = prog[q] =>
                             /\ o.id \in holds[q]
                             /\ \E j \in at[q] .. Len(Freed(q)) : Freed(q)[j] = o.key
      BY SameLists DEF OwnInv, IsSem
    <2>1. pc'[q] = "make" => \A i \in 1 .. at[q] - 1 :
            \E o \in objs' : o.key = Made(q)[i] /\ o.id \in holds[q] /\ (IsSem(o) => o.val = 0)
      BY DEF OwnInv, Live
    <2>2. pc'[q] = "run" => \A o \in objs' : o.key[1] = prog[q] => o.id \in holds[q]
      BY DEF OwnInv
    <2>3. pc'[q] = "free" => \A o \in objs' : o.key[1] = prog[q] =>
            o.id \in holds[q] /\ \E j \in at[q] .. Len(Freed(q)) : Freed(q)[j] = o.key
      BY DEF OwnInv
    <2> QED BY <2>1, <2>2, <2>3
  <1> QED BY <1>1, <1>2, <1>3

LEMMA CrashIpc == ASSUME IpcInv, NEW r \in Runs, Crash(r) PROVE IpcInv'
  <1>1. PICK left \in {"crashed", "orphans"} : pc' = [pc EXCEPT ![r] = left]
    BY DEF Crash
  <1>2. pc \in [Runs -> Pcs] /\ alone \in [Runs -> BOOLEAN]
    BY DEF IpcInv, TypeInv
  <1>3. pc' \in [Runs -> Pcs]
    BY <1>1, <1>2 DEF Pcs
  <1> QED BY <1>1, <1>2, <1>3, LessIpc DEF Crash

LEMMA ScriptIpc == ASSUME IpcInv, Script PROVE IpcInv'
  <1>1. pc \in [Runs -> Pcs] /\ alone \in [Runs -> BOOLEAN]
    BY DEF IpcInv, TypeInv
  <1>2. alone' = [r \in Runs |-> alone[r] /\ ~There(r)]
    BY DEF Script
  <1>3. \A q \in Runs : alone'[q] => alone[q] /\ ~Live(q)
    BY <1>2 DEF There
  <1>4. alone' \in [Runs -> BOOLEAN]
    BY <1>1, <1>2
  <1> QED BY <1>1, <1>3, <1>4, LessIpc DEF Script

LEMMA LeaveIpc == ASSUME IpcInv, NEW r \in Runs, Leave(r) PROVE IpcInv'
  <1> USE DEF IpcInv
  <1>1. /\ pc[r] = "run" /\ pc' = [pc EXCEPT ![r] = "free"]
        /\ UNCHANGED <<objs, next_id, prog, at, holds, alone>>
    BY DEF Leave
  <1>2. TypeInv'
    <2>1. at[r] = 1 /\ 1 \in 1 .. Len(Freed(r))
      BY <1>1, ListsAre DEF TypeInv
    <2>2. pc' \in [Runs -> Pcs]
      BY <1>1 DEF TypeInv, Pcs
    <2> QED BY <1>1, <2>1, <2>2, SameLists DEF TypeInv
  <1>3. IdInv'
    BY <1>1, TypeKept
  <1>4. AloneInv'
    BY <1>1 DEF AloneInv, Fellows, There, Live, TypeInv
  <1>5. OwnInv'
    <2>1. ASSUME alone[r], NEW o \in objs, o.key[1] = prog[r]
          PROVE  o.id \in holds[r] /\ \E j \in at[r] .. Len(Freed(r)) : Freed(r)[j] = o.key
      <3>1. o.id \in holds[r] /\ at[r] = 1
        BY <1>1, <2>1 DEF OwnInv, TypeInv
      <3>2. PICK i \in 1 .. Len(Made(r)) : Made(r)[i] = o.key
        BY <2>1 DEF IdInv
      <3>3. prog[r] \in Programs
        BY DEF TypeInv
      <3> QED BY <3>1, <3>2, <3>3, ListsAre
    <2>2. \A q \in Runs : q # r => pc'[q] = pc[q]
      BY <1>1 DEF TypeInv
    <2>3. pc'[r] = "free"
      BY <1>1 DEF TypeInv
    <2> QED BY <1>1, <2>1, <2>2, <2>3, SameLists DEF OwnInv, IsSem
  <1> QED BY <1>2, <1>3, <1>4, <1>5

LEMMA UseIpc == ASSUME IpcInv, NEW r \in Runs, Use(r) PROVE IpcInv'
  <1> USE DEF IpcInv
  <1>1. PICK o \in objs : /\ IsSem(o) /\ o.id \in holds[r]
                          /\ objs' = (objs \ {o}) \cup {[o EXCEPT !.val = 1]}
    BY DEF Use
  <1>2. /\ pc[r] \in {"run", "orphans"} /\ There(r)
        /\ UNCHANGED <<next_id, prog, pc, at, holds, alone>>
    BY DEF Use, There, Live
  <1> DEFINE used == [o EXCEPT !.val = 1]
  <1>3. /\ o \in [id : Int, key : Keys, val : {0, 1}]
        /\ used \in [id : Int, key : Keys, val : {0, 1}] /\ used.id = o.id /\ used.key = o.key
    BY DEF TypeInv
  <1> HIDE DEF used
  <1>4. objs' = (objs \ {o}) \cup {used}
    BY <1>1 DEF used
  <1>5. TypeInv'
    BY <1>2, <1>3, <1>4, SameLists DEF TypeInv
  <1>6. IdInv'
    <2>1. \A x \in objs' : \E y \in objs : y.id = x.id /\ y.key = x.key /\ (x = used <=> y = o)
      <3>1. \A y \in objs : y.id = o.id => y = o
        BY DEF IdInv
      <3>2. \A y \in objs \ {o} : y # used
        BY <1>3, <3>1
      <3> QED BY <1>3, <1>4, <3>2
    <2>2. \A x, u \in objs' : x.id = u.id \/ x.key = u.key => x = u
      BY <1>3, <1>4 DEF IdInv
    <2> QED BY <1>2, <2>1, <2>2, SameLists DEF IdInv
  <1>7. AloneInv'
    BY <1>2 DEF AloneInv, Fellows, There, Live
  <1>8. OwnInv'
    <2> SUFFICES ASSUME NEW q \in Runs, alone[q]
                 PROVE  /\ pc[q] = "make" => \A i \in 1 .. at[q] - 1 :
                             \E x \in objs' : /\ x.key = Made(q)[i] /\ x.id \in holds[q]
                                              /\ IsSem(x) => x.val = 0
                        /\ pc[q] = "run" => \A x \in objs' : x.key[1] = prog[q] => x.id \in holds[q]
                        /\ pc[q] = "free" => \A x \in objs' : x.key[1] = prog[q] =>
                             /\ x.id \in holds[q]
                             /\ \E j \in at[q] .. Len(Freed(q)) : Freed(q)[j] = x.key
      BY <1>2, SameLists DEF OwnInv, IsSem
    <2>1. ASSUME pc[q] = "make", NEW i \in 1 .. at[q] - 1
          PROVE  \E x \in objs' : x.key = Made(q)[i] /\ x.id \in holds[q] /\ (IsSem(x) => x.val = 0)
      <3>1. PICK x \in objs : x.key = Made(q)[i] /\ x.id \in holds[q] /\ (IsSem(x) => x.val = 0)
        BY <2>1 DEF OwnInv
      <3>2. prog[q] # prog[r]
        BY <1>2, <2>1, OthersAway DEF Live
      <3>3. x # o
        BY <1>1, <3>1, <3>2 DEF IdInv
      <3> QED BY <1>4, <3>1, <3>3
    <2>2. ASSUME pc[q] = "run", NEW x \in objs', x.key[1] = prog[q] PROVE x.id \in holds[q]
      BY <1>3, <1>4, <2>2 DEF OwnInv
    <2>3. ASSUME pc[q] = "free", NEW x \in objs', x.key[1] = prog[q]
          PROVE  x.id \in holds[q] /\ \E j \in at[q] .. Len(Freed(q)) : Freed(q)[j] = x.key
      BY <1>3, <1>4, <2>3 DEF OwnInv
    <2> QED BY <2>1, <2>2, <2>3
  <1> QED BY <1>5, <1>6, <1>7, <1>8

\* The object of the key is there, is the run's and is fresh; no other is touched.
LEMMA MakeDoes ==
  ASSUME TypeInv, IdInv, NEW r \in Runs, Make(r)
  PROVE  \E c \in [id : Int, key : Keys, val : {0, 1}] :
           /\ at[r] \in 1 .. Len(Made(r)) /\ c.key = Made(r)[at[r]] /\ c.key[1] = prog[r]
           /\ IsSem(c) => c.val = 0
           /\ objs' = {o \in objs : o.key # c.key} \cup {c}
           /\ holds' = [holds EXCEPT ![r] = @ \cup {c.id}]
           /\ next_id' \in Int /\ next_id <= next_id' /\ c.id < next_id'
           /\ \/ \E o \in objs : o.id = c.id /\ o.key = c.key
              \/ c.id = next_id
  <1> DEFINE key == Made(r)[at[r]]
             old == Owners(key)
             o   == IF old = {} THEN [id |-> next_id, key |-> key, val |-> 0]
                                ELSE CHOOSE x \in old : TRUE
  <1>1. /\ pc[r] = "make" /\ objs' = (objs \ old) \cup {Cleared(o)}
        /\ next_id' = IF old = {} THEN next_id + 1 ELSE next_id
        /\ holds' = [holds EXCEPT ![r] = @ \cup {o.id}]
    BY DEF Make
  <1>2. at[r] \in 1 .. Len(Made(r)) /\ key \in Keys /\ key[1] = prog[r]
    BY <1>1, ListsAre DEF TypeInv
  <1>3. old = {x \in objs : x.key = key}
    BY DEF Owners
  <1>4. /\ o \in [id : Int, key : Keys, val : {0, 1}] /\ o.key = key
        /\ old # {} => o \in objs
        /\ old = {} => o.id = next_id
    <2>1. CASE old = {}
      BY <1>2, <2>1 DEF TypeInv
    <2>2. CASE old # {}
      <3>1. o \in old
        BY <2>2
      <3> QED BY <1>3, <2>2, <3>1 DEF TypeInv
    <2> QED BY <2>1, <2>2
  <1> HIDE DEF o, old, key
  <1>5. /\ Cleared(o) \in [id : Int, key : Keys, val : {0, 1}]
        /\ Cleared(o).id = o.id /\ Cleared(o).key = o.key
        /\ IsSem(Cleared(o)) => Cleared(o).val = 0
    BY <1>4 DEF Cleared, IsSem
  <1> DEFINE c == Cleared(o)
  <1> HIDE DEF c
  <1>6. objs' = {x \in objs : x.key # c.key} \cup {c}
    BY <1>1, <1>3, <1>4, <1>5 DEF c
  <1>7. next_id' \in Int /\ next_id <= next_id' /\ c.id < next_id'
    BY <1>1, <1>4, <1>5 DEF TypeInv, IdInv, c
  <1>8. (\E x \in objs : x.id = c.id /\ x.key = c.key) \/ c.id = next_id
    BY <1>4, <1>5 DEF c
  <1>9. holds' = [holds EXCEPT ![r] = @ \cup {c.id}]
    BY <1>1, <1>5 DEF c
  <1>10. at[r] \in 1 .. Len(Made(r)) /\ c.key = Made(r)[at[r]] /\ c.key[1] = prog[r]
    BY <1>2, <1>4, <1>5 DEF c, key
  <1>11. c \in [id : Int, key : Keys, val : {0, 1}] /\ (IsSem(c) => c.val = 0)
    BY <1>5 DEF c
  <1> QED BY <1>6, <1>7, <1>8, <1>9, <1>10, <1>11

LEMMA MakeIpc == ASSUME IpcInv, NEW r \in Runs, Make(r) PROVE IpcInv'
  <1> USE DEF IpcInv
  <1>1. PICK c \in [id : Int, key : Keys, val : {0, 1}] :
           /\ at[r] \in 1 .. Len(Made(r)) /\ c.key = Made(r)[at[r]] /\ c.key[1] = prog[r]
           /\ IsSem(c) => c.val = 0
           /\ objs' = {o \in objs : o.key # c.key} \cup {c}
           /\ holds' = [holds EXCEPT ![r] = @ \cup {c.id}]
           /\ next_id' \in Int /\ next_id <= next_id' /\ c.id < next_id'
           /\ \/ \E o \in objs : o.id = c.id /\ o.key = c.key
              \/ c.id = next_id
    BY MakeDoes
  <1>2. /\ pc[r] = "make" /\ UNCHANGED <<prog, alone>>
        /\ \/ at[r] < Len(Made(r)) /\ at' = [at EXCEPT ![r] = @ + 1] /\ pc' = pc
           \/ ~(at[r] < Len(Made(r))) /\ at' = [at EXCEPT ![r] = 1] /\ pc' = [pc EXCEPT ![r] = "run"]
    BY DEF Make, Advance
  <1>3. Made(r) \in Seq(Keys) /\ Len(Made(r)) \in Nat
    BY ListsAre DEF TypeInv
  <1>4. TypeInv'
    <2>1. objs' \subseteq [id : Int, key : Keys, val : {0, 1}] /\ holds' \in [Runs -> SUBSET Int]
      BY <1>1 DEF TypeInv
    <2>2. /\ at' \in [Runs -> Nat] /\ pc' \in [Runs -> Pcs]
          /\ \A q \in Runs : q # r => at'[q] = at[q] /\ pc'[q] = pc[q]
          /\ \/ pc'[r] = "make" /\ at'[r] \in 1 .. Len(Made(r))
             \/ pc'[r] = "run" /\ at'[r] = 1
      <3>1. at[r] \in Nat /\ at[r] + 1 \in Nat /\ "run" \in Pcs
        BY DEF TypeInv, Pcs
      <3>2. CASE at[r] < Len(Made(r))
        BY <1>1, <1>2, <1>3, <3>1, <3>2 DEF TypeInv
      <3>3. CASE ~(at[r] < Len(Made(r)))
        <4>1. at' = [at EXCEPT ![r] = 1] /\ pc' = [pc EXCEPT ![r] = "run"]
          BY <1>2, <3>3
        <4>2. at \in [Runs -> Nat] /\ pc \in [Runs -> Pcs] /\ 1 \in Nat
          BY DEF TypeInv
        <4>3. at' \in [Runs -> Nat] /\ at'[r] = 1 /\ \A q \in Runs : q # r => at'[q] = at[q]
          BY <4>1, <4>2, EntrySet
        <4>4. pc' \in [Runs -> Pcs] /\ pc'[r] = "run" /\ \A q \in Runs : q # r => pc'[q] = pc[q]
          BY <3>1, <4>1, <4>2, EntrySet
        <4> QED BY <4>3, <4>4
      <3> QED BY <3>2, <3>3
    <2> QED BY <1>1, <1>2, <2>1, <2>2, SameLists DEF TypeInv
  <1>5. IdInv'
    <2>1. \A o \in objs : o.id = c.id => o.key = c.key
      BY <1>1 DEF IdInv, TypeInv
    <2>2. \A o, u \in objs' : o.id = u.id \/ o.key = u.key => o = u
      BY <1>1, <2>1 DEF IdInv
    <2>3. \A o \in objs' : o.id < next_id'
      BY <1>1 DEF IdInv, TypeInv
    <2>4. ASSUME NEW q \in Runs PROVE \A x \in holds'[q] : x < next_id'
      BY <1>1 DEF IdInv, TypeInv
    <2>5. ASSUME NEW q \in Runs, NEW o \in objs', o.id \in holds'[q] PROVE o.key[1] = prog[q]
      <3>1. CASE o = c /\ q # r
        <4>1. c.id \in holds[q]
          BY <1>1, <2>5, <3>1 DEF TypeInv
        <4> QED BY <1>1, <3>1, <4>1 DEF IdInv, TypeInv
      <3>2. CASE o # c
        <4>1. o \in objs /\ o.id # c.id
          BY <1>1, <2>1, <3>2
        <4>2. o.id \in holds[q]
          BY <1>1, <2>5, <4>1 DEF TypeInv
        <4> QED BY <4>1, <4>2 DEF IdInv
      <3> QED BY <1>1, <3>1, <3>2
    <2>6. ASSUME NEW q \in Runs, NEW o \in objs', o.key[1] = prog[q]
          PROVE  \E i \in 1 .. Len(Made(q)) : Made(q)[i] = o.key
      <3>1. CASE o = c
        <4>1. Made(q) = Made(r)
          BY <1>1, <2>6, <3>1, SameLists
        <4> QED BY <1>1, <3>1, <4>1
      <3>2. CASE o # c
        BY <1>1, <2>6, <3>2 DEF IdInv
      <3> QED BY <3>1, <3>2
    <2> QED BY <1>2, <2>2, <2>3, <2>4, <2>5, <2>6, SameLists DEF IdInv
  <1>6. AloneInv'
    BY <1>2 DEF AloneInv, Fellows, There, Live, TypeInv
  <1>7. OwnInv'
    <2> SUFFICES ASSUME NEW q \in Runs, alone[q]
                 PROVE  /\ pc'[q] = "make" => \A i \in 1 .. at'[q] - 1 :
                             \E x \in objs' : /\ x.key = Made(q)[i] /\ x.id \in holds'[q]
                                              /\ IsSem(x) => x.val = 0
                        /\ pc'[q] = "run" => \A x \in objs' : x.key[1] = prog[q] => x.id \in holds'[q]
                        /\ pc'[q] = "free" => \A x \in objs' : x.key[1] = prog[q] =>
                             /\ x.id \in holds'[q]
                             /\ \E j \in at'[q] .. Len(Freed(q)) : Freed(q)[j] = x.key
      BY <1>2, SameLists DEF OwnInv, IsSem
    <2>1. CASE q # r
      <3>1. pc'[q] = pc[q] /\ at'[q] = at[q] /\ holds'[q] = holds[q]
        BY <1>1, <1>2, <2>1 DEF TypeInv
      <3>2. Live(q) => c.key[1] # prog[q]
        BY <1>1, <1>2, <2>1, OthersAway DEF There, Live
      <3>3. \A x \in objs' : Live(q) /\ x.key[1] = prog[q] => x \in objs
        BY <1>1, <3>2
      <3>4. ASSUME pc[q] = "make", NEW i \in 1 .. at[q] - 1
            PROVE  \E x \in objs' : x.key = Made(q)[i] /\ x.id \in holds[q] /\ (IsSem(x) => x.val = 0)
        <4>1. PICK x \in objs : x.key = Made(q)[i] /\ x.id \in holds[q] /\ (IsSem(x) => x.val = 0)
          BY <3>4 DEF OwnInv
        <4>2. x.key # c.key
          BY <3>2, <3>4, <4>1 DEF IdInv, Live
        <4> QED BY <1>1, <4>1, <4>2
      <3> QED BY <3>1, <3>3, <3>4 DEF OwnInv, Live
    <2>2. CASE q = r
      <3>1. holds'[r] = holds[r] \cup {c.id}
        BY <1>1 DEF TypeInv
      <3>2. ASSUME NEW i \in 1 .. at[r]
            PROVE  \E x \in objs' : x.key = Made(r)[i] /\ x.id \in holds'[r] /\ (IsSem(x) => x.val = 0)
        <4>1. CASE Made(r)[i] = c.key
          BY <1>1, <3>1, <4>1
        <4>2. CASE Made(r)[i] # c.key
          <5>1. i \in 1 .. at[r] - 1
            BY <1>1, <1>3, <4>2
          <5>2. PICK x \in objs : x.key = Made(r)[i] /\ x.id \in holds[r] /\ (IsSem(x) => x.val = 0)
            BY <1>2, <2>2, <5>1 DEF OwnInv
          <5> QED BY <1>1, <3>1, <4>2, <5>2
        <4> QED BY <4>1, <4>2
      <3>3. CASE at[r] < Len(Made(r))
        <4>1. pc'[r] = "make" /\ at'[r] - 1 = at[r]
          BY <1>1, <1>2, <1>3, <3>3 DEF TypeInv
        <4> QED BY <2>2, <3>2, <4>1
      <3>4. CASE ~(at[r] < Len(Made(r)))
        <4>1. pc'[r] = "run" /\ at[r] = Len(Made(r))
          BY <1>1, <1>2, <1>3, <3>4 DEF TypeInv
        <4>2. ASSUME NEW x \in objs', x.key[1] = prog[r] PROVE x.id \in holds'[r]
          <5>1. PICK i \in 1 .. Len(Made(r)) : Made(r)[i] = x.key
            BY <1>1, <4>2 DEF IdInv
          <5>2. PICK y \in objs' : y.key = Made(r)[i] /\ y.id \in holds'[r]
            BY <3>2, <4>1, <5>1
          <5>3. x = y
            BY <1>5, <5>1, <5>2 DEF IdInv
          <5> QED BY <5>2, <5>3
        <4> QED BY <2>2, <4>1, <4>2
      <3> QED BY <3>3, <3>4
    <2> QED BY <2>1, <2>2
  <1> QED BY <1>4, <1>5, <1>6, <1>7

\* What the run holds of the key is gone, and perhaps a set that sync named.
LEMMA FreeDoes ==
  ASSUME TypeInv, NEW r \in Runs, Free(r)
  PROVE  /\ pc[r] = "free" /\ objs' \subseteq objs /\ UNCHANGED <<next_id, prog, holds>>
         /\ \A o \in objs' : ~(o.key = Freed(r)[at[r]] /\ o.id \in holds[r])
         /\ alone' \in [Runs -> BOOLEAN] /\ alone'[r] = alone[r]
         /\ \A q \in Runs : alone'[q] => alone[q]
         /\ \A q \in Runs, o \in objs :
              alone'[q] /\ q # r /\ Live(q) /\ o.id \in holds[q] =>
                o \in objs' \/ (o.key = Freed(r)[at[r]] /\ o.id \in holds[r])
         /\ \/ at[r] < Len(Freed(r)) /\ at' = [at EXCEPT ![r] = @ + 1] /\ pc' = pc
            \/ ~(at[r] < Len(Freed(r))) /\ at' = [at EXCEPT ![r] = 1] /\ pc' = [pc EXCEPT ![r] = "over"]
  <1> DEFINE own == {o \in objs : o.key = Freed(r)[at[r]] /\ o.id \in holds[r]}
  <1>1. /\ pc[r] = "free" /\ Advance(r, Freed(r), "over") /\ UNCHANGED <<next_id, prog, holds>>
        /\ \/ objs' = objs \ own /\ UNCHANGED alone
           \/ \E o \in objs :
                /\ IsSem(o) /\ objs' = objs \ (own \cup {o})
                /\ alone' = [q \in Runs |-> alone[q] /\ ~(q # r /\ Live(q) /\ o.id \in holds[q])]
    BY DEF Free
  <1>2. CASE objs' = objs \ own /\ UNCHANGED alone
    BY <1>1, <1>2 DEF Advance, TypeInv
  <1>3. CASE \E o \in objs :
                /\ IsSem(o) /\ objs' = objs \ (own \cup {o})
                /\ alone' = [q \in Runs |-> alone[q] /\ ~(q # r /\ Live(q) /\ o.id \in holds[q])]
    <2>1. PICK o \in objs :
                /\ IsSem(o) /\ objs' = objs \ (own \cup {o})
                /\ alone' = [q \in Runs |-> alone[q] /\ ~(q # r /\ Live(q) /\ o.id \in holds[q])]
      BY <1>3
    <2>2. alone \in [Runs -> BOOLEAN]
      BY DEF TypeInv
    <2>3. alone' \in [Runs -> BOOLEAN] /\ alone'[r] = alone[r] /\ \A q \in Runs : alone'[q] => alone[q]
      BY <2>1, <2>2
    <2>4. \A q \in Runs, x \in objs :
              alone'[q] /\ q # r /\ Live(q) /\ x.id \in holds[q] =>
                x \in objs' \/ (x.key = Freed(r)[at[r]] /\ x.id \in holds[r])
      BY <2>1
    <2> QED BY <1>1, <2>1, <2>3, <2>4 DEF Advance
  <1> QED BY <1>1, <1>2, <1>3

LEMMA FreeIpc == ASSUME IpcInv, NEW r \in Runs, Free(r) PROVE IpcInv'
  <1> USE DEF IpcInv
  <1>1. /\ pc[r] = "free" /\ objs' \subseteq objs /\ UNCHANGED <<next_id, prog, holds>>
        /\ \A o \in objs' : ~(o.key = Freed(r)[at[r]] /\ o.id \in holds[r])
        /\ alone' \in [Runs -> BOOLEAN] /\ alone'[r] = alone[r]
        /\ \A q \in Runs : alone'[q] => alone[q]
        /\ \A q \in Runs, o \in objs :
             alone'[q] /\ q # r /\ Live(q) /\ o.id \in holds[q] =>
               o \in objs' \/ (o.key = Freed(r)[at[r]] /\ o.id \in holds[r])
    BY FreeDoes
  <1>2. \/ at[r] < Len(Freed(r)) /\ at' = [at EXCEPT ![r] = @ + 1] /\ pc' = pc
        \/ ~(at[r] < Len(Freed(r))) /\ at' = [at EXCEPT ![r] = 1] /\ pc' = [pc EXCEPT ![r] = "over"]
    BY FreeDoes
  <1>3. Freed(r) \in Seq(Keys) /\ Len(Freed(r)) \in Nat /\ at[r] \in 1 .. Len(Freed(r))
    BY <1>1, ListsAre DEF TypeInv
  <1>4. /\ at' \in [Runs -> Nat] /\ pc' \in [Runs -> Pcs]
        /\ \A q \in Runs : q # r => at'[q] = at[q] /\ pc'[q] = pc[q]
        /\ \/ pc'[r] = "free" /\ at'[r] = at[r] + 1 /\ at'[r] \in 1 .. Len(Freed(r))
           \/ pc'[r] = "over"
    <2>1. at[r] \in Nat /\ at[r] + 1 \in Nat /\ "over" \in Pcs
      BY DEF TypeInv, Pcs
    <2>2. at \in [Runs -> Nat] /\ pc \in [Runs -> Pcs] /\ 1 \in Nat
      BY DEF TypeInv
    <2>3. CASE at[r] < Len(Freed(r))
      <3>1. at' = [at EXCEPT ![r] = at[r] + 1] /\ pc' = pc
        BY <1>2, <2>3
      <3>2. at' \in [Runs -> Nat] /\ at'[r] = at[r] + 1 /\ \A q \in Runs : q # r => at'[q] = at[q]
        BY <2>1, <2>2, <3>1, EntrySet
      <3>3. at[r] + 1 \in 1 .. Len(Freed(r))
        BY <1>3, <2>1, <2>3
      <3> QED BY <1>1, <2>2, <3>1, <3>2, <3>3
    <2>4. CASE ~(at[r] < Len(Freed(r)))
      <3>1. at' = [at EXCEPT ![r] = 1] /\ pc' = [pc EXCEPT ![r] = "over"]
        BY <1>2, <2>4
      <3>2. at' \in [Runs -> Nat] /\ \A q \in Runs : q # r => at'[q] = at[q]
        BY <2>2, <3>1, EntrySet
      <3>3. pc' \in [Runs -> Pcs] /\ pc'[r] = "over" /\ \A q \in Runs : q # r => pc'[q] = pc[q]
        BY <2>1, <2>2, <3>1, EntrySet
      <3> QED BY <3>2, <3>3
    <2> QED BY <2>3, <2>4
  <1>5. TypeInv' /\ IdInv'
    BY <1>1, <1>4, TypeKept, SameLists DEF TypeInv
  <1>6. AloneInv'
    BY <1>1, <1>4 DEF AloneInv, Fellows, There, Live
  <1>7. OwnInv'
    <2> SUFFICES ASSUME NEW q \in Runs, alone'[q]
                 PROVE  /\ pc'[q] = "make" => \A i \in 1 .. at'[q] - 1 :
                             \E x \in objs' : /\ x.key = Made(q)[i] /\ x.id \in holds[q]
                                              /\ IsSem(x) => x.val = 0
                        /\ pc'[q] = "run" => \A x \in objs' : x.key[1] = prog[q] => x.id \in holds[q]
                        /\ pc'[q] = "free" => \A x \in objs' : x.key[1] = prog[q] =>
                             /\ x.id \in holds[q]
                             /\ \E j \in at'[q] .. Len(Freed(q)) : Freed(q)[j] = x.key
      BY <1>1, SameLists DEF OwnInv, IsSem
    <2>1. CASE q # r
      <3>1. pc'[q] = pc[q] /\ at'[q] = at[q] /\ alone[q]
        BY <1>1, <1>4, <2>1
      <3>2. ASSUME pc[q] = "make", NEW i \in 1 .. at[q] - 1
            PROVE  \E x \in objs' : x.key = Made(q)[i] /\ x.id \in holds[q] /\ (IsSem(x) => x.val = 0)
        <4>1. PICK x \in objs : x.key = Made(q)[i] /\ x.id \in holds[q] /\ (IsSem(x) => x.val = 0)
          BY <3>1, <3>2 DEF OwnInv
        <4>2. prog[q] # prog[r]
          BY <1>1, <2>1, <3>1, <3>2, OthersAway DEF There, Live
        <4>3. x.id \notin holds[r]
          BY <4>1, <4>2 DEF IdInv
        <4> QED BY <1>1, <2>1, <3>2, <4>1, <4>3 DEF Live
      <3> QED BY <1>1, <3>1, <3>2 DEF OwnInv
    <2>2. CASE q = r
      <3>1. pc'[r] # "make" /\ pc'[r] # "run" /\ alone[r]
        BY <1>1, <1>4, <2>2
      <3>2. ASSUME pc'[r] = "free", NEW x \in objs', x.key[1] = prog[r]
            PROVE  x.id \in holds[r] /\ \E j \in at'[r] .. Len(Freed(r)) : Freed(r)[j] = x.key
        <4>1. x.id \in holds[r] /\ \E j \in at[r] .. Len(Freed(r)) : Freed(r)[j] = x.key
          BY <1>1, <3>1, <3>2 DEF OwnInv
        <4>2. x.key # Freed(r)[at[r]]
          BY <1>1, <4>1
        <4>3. at'[r] = at[r] + 1
          BY <1>4, <3>2
        <4> QED BY <1>3, <4>1, <4>2, <4>3
      <3> QED BY <2>2, <3>1, <3>2
    <2> QED BY <2>1, <2>2
  <1> QED BY <1>5, <1>6, <1>7

\* In every state, whatever crashes and whoever runs beside: an id or a key names one
\* object, and a run that is alone has what it has made.
THEOREM ObjectsInv == Spec => []IpcInv
  <1>1. ASSUME IpcInv, [Next]_vars PROVE IpcInv'
    <2>1. CASE UNCHANGED vars
      <3>1. UNCHANGED <<objs, next_id, prog, pc, at, holds, alone>>
        BY <2>1 DEF vars
      <3>2. IpcInv \in BOOLEAN /\ pc \in [Runs -> Pcs] /\ alone \in [Runs -> BOOLEAN]
        BY <1>1 DEF IpcInv, TypeInv
      <3> QED BY <1>1, <3>1, <3>2, LessIpc
    <2>2. CASE Script
      BY <1>1, <2>2, ScriptIpc
    <2>3. ASSUME NEW r \in Runs, Start(r) \/ Make(r) \/ Use(r) \/ Leave(r) \/ Free(r) \/ Crash(r)
          PROVE  IpcInv'
      BY <1>1, <2>3, StartIpc, MakeIpc, UseIpc, LeaveIpc, FreeIpc, CrashIpc
    <2> QED BY <1>1, <2>1, <2>2, <2>3 DEF Next
  <1> QED BY <1>1, InitIpc, PTL DEF Spec

\* A step from "make" to "run" is the last Make of that run, and one from "free" to
\* "over" its last Free.
LEMMA LastSteps ==
  ASSUME TypeInv, [Next]_vars, NEW r \in Runs
  PROVE  /\ pc[r] = "make" /\ pc'[r] = "run" => Make(r)
         /\ pc[r] = "free" /\ pc'[r] = "over" => Free(r)
  <1>1. ASSUME NEW q \in Runs, q # r, Start(q) \/ Make(q) \/ Use(q) \/ Leave(q) \/ Free(q) \/ Crash(q)
        PROVE  pc'[r] = pc[r]
    BY <1>1 DEF Start, Make, Use, Leave, Free, Crash, Advance, TypeInv
  <1>2. ASSUME Start(r) \/ Use(r) \/ Leave(r) \/ Crash(r)
        PROVE  /\ ~(pc[r] = "make" /\ pc'[r] = "run")
               /\ ~(pc[r] = "free" /\ pc'[r] = "over")
    BY <1>2 DEF Start, Use, Leave, Crash, TypeInv
  <1>3. Make(r) => pc[r] = "make"
    BY DEF Make
  <1>4. Free(r) => pc[r] = "free"
    BY DEF Free
  <1>5. Script \/ UNCHANGED vars => pc' = pc
    BY DEF Script, vars
  <1> QED BY <1>1, <1>2, <1>3, <1>4, <1>5 DEF Next

\* A run that is alone finds all its objects there and its semaphores at 0, for any
\* number of swap buffers and of runs that crashed, or run beside it, wherever.
THEOREM FindsFresh == Spec => FreshStart
  <1>1. ASSUME IpcInv, IpcInv', [Next]_vars, NEW r \in Runs,
               pc[r] = "make", pc'[r] = "run", alone[r],
               NEW i \in 1 .. Len(Made(r))
        PROVE  \E o \in objs' : o.key = Made(r)[i] /\ o.id \in holds'[r] /\ (IsSem(o) => o.val = 0)
    <2>1. Make(r)
      BY <1>1, LastSteps DEF IpcInv
    <2>2. PICK c \in [id : Int, key : Keys, val : {0, 1}] :
             /\ at[r] \in 1 .. Len(Made(r)) /\ c.key = Made(r)[at[r]]
             /\ IsSem(c) => c.val = 0
             /\ objs' = {o \in objs : o.key # c.key} \cup {c}
             /\ holds' = [holds EXCEPT ![r] = @ \cup {c.id}]
      BY <1>1, <2>1, MakeDoes DEF IpcInv
    <2>3. holds'[r] = holds[r] \cup {c.id}
      BY <1>1, <2>2 DEF IpcInv, TypeInv
    <2>4. at[r] = Len(Made(r)) /\ Len(Made(r)) \in Nat
      <3>1. pc'[r] = pc[r] \/ ~(at[r] < Len(Made(r)))
        BY <2>1 DEF Make, Advance
      <3>2. Len(Made(r)) \in Nat
        BY <1>1, ListsAre DEF IpcInv, TypeInv
      <3> QED BY <1>1, <2>2, <3>1, <3>2
    <2>5. CASE Made(r)[i] = c.key
      BY <2>2, <2>3, <2>5
    <2>6. CASE Made(r)[i] # c.key
      <3>1. i \in 1 .. at[r] - 1
        BY <2>2, <2>4, <2>6
      <3>2. PICK x \in objs : x.key = Made(r)[i] /\ x.id \in holds[r] /\ (IsSem(x) => x.val = 0)
        BY <1>1, <3>1 DEF IpcInv, OwnInv
      <3> QED BY <2>2, <2>3, <2>6, <3>2
    <2> QED BY <2>5, <2>6
  <1>2. IpcInv /\ IpcInv' /\ [Next]_vars =>
          [\A r \in Runs : pc[r] = "make" /\ pc'[r] = "run" /\ alone[r] =>
             \A i \in 1 .. Len(Made(r)) :
               \E o \in objs' : /\ o.key = Made(r)[i] /\ o.id \in holds'[r]
                                /\ IsSem(o) => o.val = 0]_vars
    BY <1>1
  <1> QED BY <1>2, ObjectsInv, PTL DEF FreshStart, Spec

\* Nothing of its program is left when such a run has cleaned up.
THEOREM LeavesNothing == Spec => NothingLeft
  <1>1. ASSUME IpcInv, [Next]_vars, NEW r \in Runs,
               pc[r] = "free", pc'[r] = "over", alone[r], NEW o \in objs', o.key[1] = prog[r]
        PROVE  FALSE
    <2>1. Free(r)
      BY <1>1, LastSteps DEF IpcInv
    <2>2. /\ objs' \subseteq objs /\ ~(o.key = Freed(r)[at[r]] /\ o.id \in holds[r])
          /\ ~(at[r] < Len(Freed(r)))
      BY <1>1, <2>1, FreeDoes DEF IpcInv
    <2>3. o.id \in holds[r] /\ \E j \in at[r] .. Len(Freed(r)) : Freed(r)[j] = o.key
      BY <1>1, <2>2 DEF IpcInv, OwnInv
    <2>4. at[r] \in 1 .. Len(Freed(r)) /\ Len(Freed(r)) \in Nat
      BY <1>1, ListsAre DEF IpcInv, TypeInv
    <2> QED BY <2>2, <2>3, <2>4
  <1>2. IpcInv /\ [Next]_vars =>
          [\A r \in Runs : pc[r] = "free" /\ pc'[r] = "over" /\ alone[r] =>
             \A o \in objs' : o.key[1] # prog[r]]_vars
    BY <1>1
  <1> QED BY <1>2, ObjectsInv, PTL DEF NothingLeft, Spec
=============================================================================
