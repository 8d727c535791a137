--------------------------- MODULE LifecycleProofs ---------------------------
(***************************************************************************)
(* Proofs, for every number of children and of SIGINTs and any fault, of    *)
(* what LifecycleProperties states.                                        *)
(***************************************************************************)
EXTENDS LifecycleProperties, TLAPS

Pcs == {"off", "fork", "boot", "meet", "late", "dead"} \cup Armed \cup Handling \cup Over

\* The part of the type invariant the argument needs.
Shape ==
  /\ m \in [Prog -> Pcs] /\ DOMAIN ipc = Prog /\ DOMAIN kid = Prog
  /\ \A p \in Prog : DOMAIN (kid[p]) = Kids(p)

\* The inductive invariant: past the SIGKILLs every child has ended or has one to come,
\* past the wait()s every child has ended, and the objects are there from init to
\* full_cleanup.
Settled(p) ==
  /\ m[p] \in {"k_clean", "k_peer", "clean"} \cup Over => \A i \in Kids(p) : kid[p][i] # "alive"
  /\ m[p] \in {"clean", "exit"} => \A i \in Kids(p) : kid[p][i] # "dying"
  /\ m[p] \in {"k_peer"} \cup Over => ~ipc[p]
  /\ m[p] \notin {"off", "k_peer", "dead"} \cup Over => ipc[p]

LInv == Shape /\ \A p \in Prog : Settled(p)

LEMMA Programs == ASSUME NEW p \in Prog PROVE Peer(p) \in Prog /\ Peer(p) # p
  BY DEF Prog, Peer

\* A fatal signal makes nobody alive, and is posted to those only that are.
LEMMA KillLeaves ==
  ASSUME NEW k
  PROVE  /\ DOMAIN Kill(k) = DOMAIN k
         /\ \A i \in DOMAIN k : Kill(k)[i] # "alive" /\ (Kill(k)[i] = "dying" => k[i] \in {"alive", "dying"})
  BY DEF Kill

\* A step that posts fatal signals, or none.
Posts ==
  /\ DOMAIN kid' = Prog
  /\ \A q \in Prog : DOMAIN (kid'[q]) = Kids(q)
  /\ \A q \in Prog : \A i \in Kids(q) :
       /\ kid'[q][i] = "alive" => kid[q][i] = "alive"
       /\ kid'[q][i] = "dying" => kid[q][i] \in {"alive", "dying"}

\* SIGINT brings a master into kill_all only from where its objects are there.
LEMMA HitPcs == ASSUME NEW p \in Prog, m[p] \in Pcs
                PROVE  /\ Hit(p) \in Pcs
                       /\ Hit(p) = m[p] \/ Hit(p) = "dead" \/ (Hit(p) = "k_kids" /\ m[p] \in Armed)
  BY DEF Hit, Pcs, Armed, Handling, Over

LEMMA LInit == Init => LInv
  BY DEF Init, LInv, Shape, Settled, Pcs, Armed, Handling, Over, Prog

\* One step of a master.
LEMMA LMaster == ASSUME LInv, NEW p \in Prog, Master(p) PROVE LInv'
  <1> USE DEF LInv, Shape, Settled, Go
  <1> USE DEF Armed, Handling, Over, Pcs
  <1>1. CASE Start(p)
    BY <1>1 DEF Start
  <1>2. CASE Fork(p)
    BY <1>2 DEF Fork
  <1>3. CASE Boot(p)
    BY <1>3 DEF Boot
  <1>4. CASE Arm(p)
    BY <1>4 DEF Arm
  <1>5. CASE Quit(p)
    BY <1>5 DEF Quit
  <1>6. CASE Reap(p)
    <2>1. \A i \in Kids(p) : kid[p][i] \notin {"alive", "dying"}
      BY <1>6 DEF Reap, Running
    <2> QED BY <1>6, <2>1 DEF Reap
  <1>7. CASE Cleanup(p)
    BY <1>7 DEF Cleanup
  <1>8. CASE KillKids(p)
    <2>1. Posts /\ \A i \in Kids(p) : kid'[p][i] # "alive"
      <3>1. CASE Failed(p) = {}
        <4>1. kid' = [kid EXCEPT ![p] = Kill(kid[p])]
          BY <1>8, <3>1 DEF KillKids
        <4>2. /\ DOMAIN Kill(kid[p]) = Kids(p)
              /\ \A i \in Kids(p) : /\ Kill(kid[p])[i] # "alive"
                                    /\ Kill(kid[p])[i] = "dying" => kid[p][i] \in {"alive", "dying"}
          BY KillLeaves
        <4> QED BY <4>1, <4>2 DEF Posts
      <3>2. CASE Failed(p) # {}
        <4>1. kid' = [q \in Prog |-> Kill(kid[q])]
          BY <1>8, <3>2 DEF KillKids
        <4>2. \A q \in Prog :
                /\ DOMAIN Kill(kid[q]) = Kids(q)
                /\ \A i \in Kids(q) : /\ Kill(kid[q])[i] # "alive"
                                      /\ Kill(kid[q])[i] = "dying" => kid[q][i] \in {"alive", "dying"}
          BY KillLeaves
        <4> QED BY <4>1, <4>2 DEF Posts
      <3> QED BY <3>1, <3>2
    <2>2. m' = [m EXCEPT ![p] = "k_clean"] /\ ipc' = ipc /\ m[p] = "k_kids"
      BY <1>8 DEF KillKids
    <2> QED BY <2>1, <2>2 DEF Posts
  <1>9. CASE KillCleanup(p)
    BY <1>9 DEF KillCleanup
  <1>10. CASE KillPeer(p)
    <2>1. Peer(p) \in Prog /\ Peer(p) # p
      BY Programs
    <2>2. m' = [m EXCEPT ![p] = "killed", ![Peer(p)] = Hit(Peer(p))] /\ m[p] = "k_peer"
          /\ UNCHANGED <<kid, ipc>>
      BY <1>10 DEF KillPeer
    <2>3. \A q \in Prog : q = p \/ q = Peer(p)
      BY DEF Prog, Peer
    <2> QED BY <2>1, <2>2, <2>3, HitPcs
  <1> QED BY <1>1, <1>2, <1>3, <1>4, <1>5, <1>6, <1>7, <1>8, <1>9, <1>10 DEF Master

LEMMA LInterrupt == ASSUME LInv, NEW p \in Prog, Interrupt(p) PROVE LInv'
  <1> USE DEF LInv, Shape, Settled
  <1>1. m' = [m EXCEPT ![p] = Hit(p)] /\ ipc' = ipc
    BY DEF Interrupt
  <1>2. Posts
    <2>1. kid' = [kid EXCEPT ![p] = Kill(kid[p])] \/ kid' = kid
      BY DEF Interrupt
    <2>2. /\ DOMAIN Kill(kid[p]) = Kids(p)
          /\ \A i \in Kids(p) : /\ Kill(kid[p])[i] # "alive"
                                /\ Kill(kid[p])[i] = "dying" => kid[p][i] \in {"alive", "dying"}
      BY KillLeaves
    <2> QED BY <2>1, <2>2 DEF Posts
  <1> QED BY <1>1, <1>2, HitPcs DEF Posts, Armed, Handling, Over, Pcs

LEMMA LKid == ASSUME LInv, NEW p \in Prog, NEW i \in Kids(p),
                     KidExits(p, i) \/ KidDies(p, i) \/ KidGone(p, i)
              PROVE  LInv'
  <1> USE DEF LInv, Shape, Settled
  <1>1. CASE KidExits(p, i)
    BY <1>1 DEF KidExits
  <1>2. CASE KidDies(p, i)
    BY <1>2 DEF KidDies, Alive, Over
  <1>3. CASE KidGone(p, i)
    BY <1>3 DEF KidGone
  <1> QED BY <1>1, <1>2, <1>3

LEMMA LGone == ASSUME LInv, NEW p \in Prog, MasterGone(p) PROVE LInv'
  BY DEF LInv, Shape, Settled, MasterGone, Pcs, Over

LEMMA LBoth == ASSUME LInv, Meet \/ Timeout \/ CommandAll \/ Transfer PROVE LInv'
  BY DEF LInv, Shape, Settled, Meet, Timeout, CommandAll, Transfer, Go, Prog,
         Armed, Handling, Over, Pcs

LEMMA LStutter == ASSUME LInv, UNCHANGED vars PROVE LInv'
  BY DEF LInv, Shape, Settled, vars

\* The invariant holds in every state of the two programs, however late the SIGKILLs are
\* delivered (sender.c:326-403, reader.c:260-332).
THEOREM LifecycleInv == Spec => []LInv
  <1>1. LInv /\ [Next]_vars => LInv'
    BY LMaster, LInterrupt, LKid, LGone, LBoth, LStutter DEF Next
  <1> QED BY <1>1, LInit, PTL DEF Spec, SafeSpec

\* kill_all and the normal end leave no object, and no process that has no fatal signal to
\* come (sender.c:326-334, 394-403, reader.c:260-267, 323-332), for any number of children.
THEOREM NobodyIsLeft == Spec => []NobodyLeft
  <1>1. LInv => NobodyLeft
    BY DEF LInv, Settled, NobodyLeft, Alive
  <1> QED BY <1>1, LifecycleInv, PTL

\* On the normal path full_cleanup comes after every child's end, and in kill_all after
\* the SIGKILLs, for any number of children and however late those are delivered.
THEOREM CleanupInOrder == Spec => []OnlyDyingOutlive
  <1>1. LInv => OnlyDyingOutlive
    BY DEF LInv, Settled, OnlyDyingOutlive, Alive, Running, Over
  <1> QED BY <1>1, LifecycleInv, PTL
=============================================================================
