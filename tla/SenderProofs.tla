---------------------------- MODULE SenderProofs ----------------------------
(***************************************************************************)
(* Proofs, for every number of children, swap buffers and bytes, of what    *)
(* SenderProperties states.                                                *)
(***************************************************************************)
EXTENDS SenderQueue, FiniteSetTheorems, SequenceTheorems, TLAPS

USE SenderAssumption

-----------------------------------------------------------------------------
(* Arithmetic of the ring and of the byte counts *)

\* The next buffer is in the ring: buf_idx %= N_SWAP_BUFFERS.
LEMMA NextBufInRing == ASSUME NEW b \in Buf PROVE NextBuf(b) \in Buf
  BY DEF NextBuf, Buf

\* n_bytes_to_send is an int whatever read() returned.
LEMMA ShareIsInt == ASSUME NEW n \in Int, NEW i \in Child PROVE Share(n, i) \in Int
  <1>1. BUFFER_SIZE * (i + 1) \in Int /\ BUFFER_SIZE * i \in Int
    BY DEF Child, Buf
  <1> QED BY <1>1 DEF Share

-----------------------------------------------------------------------------
(* Type correctness *)

LEMMA InitType == Init => TypeOK
  <1>1. 0 \in Buf
    BY DEF Buf
  <1>2. Quiet \in [st : LinkSts, n : Int, at : Int]
    BY DEF Quiet, NoData, LinkSts
  <1>3. [cur_buf_idx |-> 0, n_bytes_to_send |-> 0] \in [cur_buf_idx : Buf, n_bytes_to_send : Int]
    BY <1>1
  <1>4. NoData \in Int
    BY DEF NoData
  <1> SUFFICES ASSUME Init PROVE TypeOK
    OBVIOUS
  <1>5. /\ link \in [Child -> [st : LinkSts, n : Int, at : Int]]
        /\ cfgs \in [Child -> [cur_buf_idx : Buf, n_bytes_to_send : Int]]
    BY <1>2, <1>3 DEF Init
  <1>6. /\ swap_sem \in [Buf -> Nat]
        /\ active_bytes \in [Buf -> Int] /\ swap_at \in [Buf -> Int]
    BY <1>4 DEF Init
  <1>7. /\ usr2 \in [Child -> BOOLEAN] /\ sigquit \in [Child -> BOOLEAN]
        /\ child_pc \in [Child -> ChildPcs] /\ child_buf \in [Child -> Buf]
    BY <1>1 DEF Init, ChildPcs
  <1> QED BY <1>1, <1>5, <1>6, <1>7 DEF Init, TypeOK, RtPcs, MainPcs

LEMMA ReaderThreadType == ASSUME TypeOK, ReaderThread PROVE TypeOK'
  <1> USE DEF TypeOK, RT, RtPcs
  <1>0. UNCHANGED <<file_len, mainVars, cmdVars, childVars, peerVars>>
    BY DEF ReaderThread
  <1> USE <1>0 DEF mainVars, mainData, cmdVars, childVars, peerVars, chainVars
  <1>1. CASE RT_SetAll
    BY <1>1 DEF RT_SetAll
  <1>2. CASE RT_WaitFree
    BY <1>2 DEF RT_WaitFree, swapVars
  <1>3. CASE RT_Claim
    BY <1>3 DEF RT_Claim
  <1>4. CASE RT_Read
    <2>1. CASE \E n \in 1 .. SWAP_BUF_SIZE :
                 /\ file_pos + n <= file_len
                 /\ readed' = n /\ file_pos' = file_pos + n
                 /\ swap_at' = [swap_at EXCEPT ![rt_buf] = file_pos]
      BY <1>4, <2>1 DEF RT_Read, SWAP_BUF_SIZE
    <2>2. CASE file_pos = file_len /\ readed' = 0 /\ UNCHANGED <<file_pos, swap_at>>
      BY <1>4, <2>2 DEF RT_Read
    <2>3. CASE ReadFails /\ readed' = -1 /\ UNCHANGED <<file_pos, swap_at>>
      BY <1>4, <2>3 DEF RT_Read
    <2> QED BY <1>4, <2>1, <2>2, <2>3 DEF RT_Read
  <1>5. CASE RT_SetActive
    BY <1>5 DEF RT_SetActive
  <1>6. CASE RT_Publish
    BY <1>6, NextBufInRing DEF RT_Publish
  <1> QED BY <1>1, <1>2, <1>3, <1>4, <1>5, <1>6 DEF ReaderThread

LEMMA AdvanceType == ASSUME TypeOK, Advance PROVE swp_idx' \in Buf /\ sent' \in Nat
  BY NextBufInRing DEF TypeOK, Advance

LEMMA MainType == ASSUME TypeOK, Main PROVE TypeOK'
  <1> USE DEF TypeOK, MainPc, MainPcs, mainData, cmdVars, D_master
  <1>0. UNCHANGED <<rtVars, active_bytes, swap_at, childVars, link, reader_busy>>
    BY DEF Main
  <1> USE <1>0 DEF rtVars, childVars
  <1>1. CASE Main_Boot
    BY <1>1 DEF Main_Boot
  <1>2. CASE Main_ChainWait
    BY <1>2 DEF Main_ChainWait
  <1>3. CASE Main_TakeFull
    BY <1>3 DEF Main_TakeFull
  <1>4. CASE Main_GetBytes
    BY <1>4 DEF Main_GetBytes
  <1>5. CASE Main_SendSwapBuffer
    BY <1>5, ShareIsInt DEF Main_SendSwapBuffer
  <1>6. CASE Main_WaitChilds
    BY <1>6 DEF Main_WaitChilds
  <1>7. CASE Main_FreeBuffer
    BY <1>7, AdvanceType DEF Main_FreeBuffer
  <1>8. CASE Main_SayReady
    BY <1>8 DEF Main_SayReady
  <1>9. CASE Main_QuitChilds
    BY <1>9 DEF Main_QuitChilds
  <1>10. CASE Main_Wait
    BY <1>10 DEF Main_Wait
  <1>11. CASE Main_Cleanup
    BY <1>11 DEF Main_Cleanup
  <1> QED
    BY <1>1, <1>2, <1>3, <1>4, <1>5, <1>6, <1>7, <1>8, <1>9, <1>10, <1>11 DEF Main

LEMMA LeaveSemopType ==
  ASSUME TypeOK, LeaveSemop
  PROVE  /\ main_pc' \in MainPcs /\ eintr' \in {"boot", "take", "childs", "free"}
         /\ swp_idx' \in Buf /\ sent' \in Nat /\ waits' = waits
  BY AdvanceType DEF TypeOK, LeaveSemop, Asleep, AfterSemop, MainPcs

LEMMA AlarmType == ASSUME TypeOK, Alarm PROVE TypeOK'
  <1> USE DEF TypeOK, rtVars, swapVars, cmdVars, childVars, peerVars, chainVars
  <1>1. CASE LeaveSemop
    BY <1>1, LeaveSemopType DEF Alarm
  <1>2. CASE ~LeaveSemop
    BY <1>2 DEF Alarm
  <1> QED BY <1>1, <1>2

LEMMA NoWaitSemopType == ASSUME TypeOK, NoWaitSemop PROVE TypeOK'
  <1> USE DEF TypeOK, rtVars, swapVars, cmdVars, childVars, peerVars, chainVars
  <1>1. CASE LeaveSemop /\ UNCHANGED rtVars
    BY <1>1, LeaveSemopType DEF NoWaitSemop
  <1>2. CASE ~(LeaveSemop /\ UNCHANGED rtVars)
    BY <1>2 DEF NoWaitSemop, RT, RtPcs
  <1> QED BY <1>1, <1>2

LEMMA ChildStepType == ASSUME TypeOK, NEW i \in Child, ChildStep(i) PROVE TypeOK'
  <1> USE DEF TypeOK, ChildPc, ChildPcs, LinkSts, Quiet, NoData, cmdVars, A_master
  <1>0. UNCHANGED <<rtVars, swapVars, mainVars, chainVars>>
    BY DEF ChildStep
  <1> USE <1>0 DEF rtVars, swapVars, mainVars, mainData, chainVars
  <1>1. CASE Child_Ready(i)
    BY <1>1 DEF Child_Ready
  <1>2. CASE Child_Command(i)
    BY <1>2 DEF Child_Command
  <1>3. CASE Child_Announce(i)
    <2>1. cfgs[i].n_bytes_to_send \in Int /\ cfgs[i].cur_buf_idx \in Buf
      OBVIOUS
    <2>2. link' \in [Child -> [st : LinkSts, n : Int, at : Int]]
      BY <1>3, <2>1 DEF Child_Announce
    <2>3. child_buf' \in [Child -> Buf]
      BY <1>3, <2>1 DEF Child_Announce
    <2> QED BY <1>3, <2>2, <2>3 DEF Child_Announce
  <1>4. CASE Child_Words(i)
    <2>1. BUFFER_SIZE * i \in Int
      BY DEF Child
    <2>2. swap_at[child_buf[i]] \in Int
      OBVIOUS
    <2>3. SlicePos(child_buf[i], i) \in Int
      BY <2>1, <2>2 DEF SlicePos
    <2>4. link' \in [Child -> [st : LinkSts, n : Int, at : Int]]
      BY <1>4, <2>3 DEF Child_Words
    <2> QED BY <1>4, <2>4 DEF Child_Words
  <1>5. CASE Child_Final(i)
    BY <1>5 DEF Child_Final
  <1>6. CASE Child_Done(i)
    BY <1>6 DEF Child_Done
  <1>7. CASE Child_Quit(i)
    BY <1>7 DEF Child_Quit
  <1> QED BY <1>1, <1>2, <1>3, <1>4, <1>5, <1>6, <1>7 DEF ChildStep

LEMMA EnvType ==
  ASSUME TypeOK, EnvMaster \/ \E i \in Child : EnvLink(i) PROVE TypeOK'
  <1> USE DEF TypeOK, LinkSts, Quiet, NoData, rtVars, swapVars, mainVars, mainData,
              cmdVars, childVars, chainVars
  <1>1. CASE EnvMaster
    BY <1>1 DEF EnvMaster
  <1>2. ASSUME NEW i \in Child, EnvLink(i) PROVE TypeOK'
    <2>1. link[i].n \in Int /\ link[i].at \in Int
      OBVIOUS
    <2>2. ASSUME NEW st \in LinkSts, link' = [link EXCEPT ![i].st = st]
          PROVE  link' \in [Child -> [st : LinkSts, n : Int, at : Int]]
      BY <2>2
    <2>3. ASSUME link' = [link EXCEPT ![i] = Quiet]
          PROVE  link' \in [Child -> [st : LinkSts, n : Int, at : Int]]
      BY <2>3
    <2>4. link' \in [Child -> [st : LinkSts, n : Int, at : Int]]
      BY <1>2, <2>2, <2>3 DEF EnvLink
    <2> QED BY <1>2, <2>4 DEF EnvLink
  <1> QED BY <1>1, <1>2

LEMMA NextType == ASSUME TypeOK, [Next]_vars PROVE TypeOK'
  <1>1. CASE UNCHANGED vars
    BY <1>1 DEF TypeOK, vars, rtVars, swapVars, mainVars, mainData, cmdVars,
                childVars, peerVars, chainVars
  <1>2. CASE Ended
    BY <1>1, <1>2 DEF Ended
  <1> QED
    BY <1>1, <1>2, ReaderThreadType, MainType, AlarmType, NoWaitSemopType,
       ChildStepType, EnvType DEF Next

\* The type invariant holds in every reachable state: no semaphore below zero, no
\* index outside the ring, whatever read() returns and whatever is cut short.
THEOREM TypeCorrect == SafeSpec => []TypeOK
  <1>1. TypeOK /\ [Next]_vars => TypeOK'
    BY NextType
  <1> QED BY InitType, <1>1, PTL DEF SafeSpec

-----------------------------------------------------------------------------
(* The barrier of master_chid_sem *)

\* There are N_CHILDS children.
LEMMA ChildCount == IsFiniteSet(Child) /\ Cardinality(Child) = N_CHILDS
  BY FS_Interval, 0 \in Int, N_CHILDS - 1 \in Int DEF Child

\* When D(master_chid_sem, N_CHILDS) may pass, every child has posted.
LEMMA BarrierFull ==
  ASSUME master = Cardinality(Posted), master >= N_CHILDS
  PROVE  master = N_CHILDS /\ \A i \in Child : Idle(i)
  <1>1. Posted \in SUBSET Child
    BY DEF Posted
  <1>2. Cardinality(Posted) <= Cardinality(Child) /\ IsFiniteSet(Posted)
    BY <1>1, ChildCount, FS_Subset
  <1>3. Cardinality(Posted) \in Nat
    BY <1>2, FS_CardinalityType
  <1>4. Cardinality(Posted) = Cardinality(Child)
    BY <1>2, <1>3, ChildCount
  <1>5. Posted = Child
    BY <1>1, <1>4, ChildCount, FS_Subset
  <1> QED BY <1>4, <1>5, ChildCount DEF Posted

\* A(master_chid_sem, 1) keeps the semaphore equal to the children that posted.
LEMMA PostCounts ==
  ASSUME NEW i \in Child, ~Idle(i), master = Cardinality(Posted),
         master' = master + 1, Posted' = Posted \cup {i}
  PROVE  master' = Cardinality(Posted)'
  <1>1. Posted \in SUBSET Child /\ i \notin Posted
    BY DEF Posted
  <1>2. IsFiniteSet(Posted)
    BY <1>1, ChildCount, FS_Subset
  <1>3. Cardinality(Posted \cup {i}) = Cardinality(Posted) + 1
    BY <1>1, <1>2, FS_AddElement
  <1> QED BY <1>3

-----------------------------------------------------------------------------
(* IInv is inductive *)

LEMMA InitInv == Init => IInv
  <1> SUFFICES ASSUME Init PROVE IInv
    OBVIOUS
  <1>1. Posted = {}
    BY DEF Init, Posted, Idle
  <1>2. BootInv
    BY <1>1, FS_EmptySet DEF Init, BootInv
  <1>3. SwapInv
    BY DEF Init, SwapInv, Filling, Draining
  <1> QED BY <1>2, <1>3 DEF Init, IInv, RoundInv, RestInv, QuitInv

\* reader_thread takes a buffer only when its semaphore is 0, and nobody else
\* adds to it: the ring stays consistent, the children are not concerned.
LEMMA ReaderThreadInv == ASSUME TypeOK, IInv, Calm, ReaderThread PROVE IInv'
  <1>0. UNCHANGED <<mainVars, cmdVars, childVars, Posted>>
    BY DEF ReaderThread, Posted, Idle, cmdVars, childVars
  <1>1. (BootInv /\ RoundInv /\ RestInv /\ QuitInv)'
    BY <1>0 DEF IInv, BootInv, RoundInv, RestInv, QuitInv, mainVars, mainData,
               cmdVars, childVars
  <1>2. SwapInv'
    <2> USE <1>0 DEF TypeOK, SwapInv, Filling, Draining, RT, mainVars, mainData
    <2>0. SwapInv
      BY DEF IInv
    <2>1. CASE RT_SetAll
      BY <2>0, <2>1 DEF RT_SetAll
    <2>2. CASE RT_WaitFree
      BY <2>0, <2>2 DEF RT_WaitFree, swapVars
    <2>3. CASE RT_Claim
      BY <2>0, <2>3 DEF RT_Claim
    <2>4. CASE RT_Read
      BY <2>0, <2>4 DEF RT_Read
    <2>5. CASE RT_SetActive
      BY <2>0, <2>5 DEF RT_SetActive
    <2>6. CASE RT_Publish
      BY <2>0, <2>6 DEF RT_Publish
    <2> QED BY <2>1, <2>2, <2>3, <2>4, <2>5, <2>6 DEF ReaderThread
  <1> QED BY <1>1, <1>2 DEF IInv

\* The master passes a barrier only when every child waits for a command, and
\* sends commands only between two barriers.
LEMMA MainInv == ASSUME TypeOK, IInv, Calm, Main PROVE IInv'
  <1>0. UNCHANGED <<rtVars, childVars>>
    BY DEF Main
  <1> USE DEF MainPc, D_master
  <1>1. (BootInv /\ RoundInv /\ RestInv /\ QuitInv)'
    <2> USE <1>0 DEF IInv, BootInv, RoundInv, RestInv, QuitInv, Idle, childVars, cmdVars
    <2>1. CASE Main_Boot \/ Main_WaitChilds
      BY <2>1, BarrierFull DEF Main_Boot, Main_WaitChilds, TypeOK
    <2>2. CASE Main_ChainWait
      BY <2>2 DEF Main_ChainWait
    <2>3. CASE Main_TakeFull \/ Main_GetBytes
      BY <2>3 DEF Main_TakeFull, Main_GetBytes
    <2>4. CASE Main_SendSwapBuffer
      <3>1. Posted' = {}
        BY <2>4 DEF Main_SendSwapBuffer, Posted
      <3>2. master' = Cardinality(Posted)'
        BY <2>4, <3>1, FS_EmptySet DEF Main_SendSwapBuffer
      <3> QED BY <2>4, <3>2 DEF Main_SendSwapBuffer, mainData
    <2>5. CASE Main_FreeBuffer \/ Main_SayReady
      BY <2>5 DEF Main_FreeBuffer, Main_SayReady
    <2>6. CASE Main_QuitChilds
      BY <2>6 DEF Main_QuitChilds
    <2>7. CASE Main_Wait \/ Main_Cleanup
      BY <2>7 DEF Main_Wait, Main_Cleanup
    <2> QED BY <2>1, <2>2, <2>3, <2>4, <2>5, <2>6, <2>7 DEF Main
  <1>2. SwapInv'
    <2> USE <1>0 DEF TypeOK, SwapInv, Filling, Draining, rtVars, mainData
    <2>0. SwapInv
      BY DEF IInv
    <2>1. CASE Main_Boot \/ Main_ChainWait
      BY <2>0, <2>1 DEF Main_Boot, Main_ChainWait
    <2>2. CASE Main_TakeFull
      BY <2>0, <2>2 DEF Main_TakeFull
    <2>3. CASE Main_GetBytes \/ Main_SendSwapBuffer \/ Main_WaitChilds
      BY <2>0, <2>3 DEF Main_GetBytes, Main_SendSwapBuffer, Main_WaitChilds
    <2>4. CASE Main_FreeBuffer
      BY <2>0, <2>4 DEF Main_FreeBuffer
    <2>5. CASE Main_SayReady \/ Main_QuitChilds \/ Main_Wait \/ Main_Cleanup
      BY <2>0, <2>5 DEF Main_SayReady, Main_QuitChilds, Main_Wait, Main_Cleanup
    <2> QED BY <2>1, <2>2, <2>3, <2>4, <2>5 DEF Main
  <1> QED BY <1>1, <1>2 DEF IInv

\* A child posts once per command, after it has finished sending.
LEMMA ChildStepInv == ASSUME TypeOK, IInv, Calm, NEW i \in Child, ChildStep(i) PROVE IInv'
  <1>0. UNCHANGED <<rtVars, swapVars, mainVars>>
    BY DEF ChildStep
  <1>1. SwapInv'
    BY <1>0 DEF IInv, SwapInv, Filling, Draining, rtVars, swapVars, mainVars, mainData
  <1> USE DEF TypeOK, IInv, ChildPc, A_master, cmdVars, mainVars, mainData
  <1>2. QuitInv'
    BY <1>0 DEF QuitInv, ChildStep, Child_Ready, Child_Command, Child_Announce,
                Child_Words, Child_Final, Child_Done, Child_Quit
  <1>3. CASE main_pc = "boot"
    <2>1. Child_Ready(i)
      BY <1>3 DEF BootInv, QuitInv, ChildStep, Child_Command, Child_Announce,
                  Child_Words, Child_Final, Child_Done, Child_Quit
    <2>2. ~Idle(i) /\ Posted' = Posted \cup {i}
      BY <1>3, <2>1 DEF Child_Ready, BootInv, Posted, Idle
    <2>3. master' = Cardinality(Posted)'
      BY <1>3, <2>1, <2>2, PostCounts DEF Child_Ready, BootInv
    <2>4. BootInv'
      BY <1>0, <1>3, <2>1, <2>3 DEF Child_Ready, BootInv
    <2> QED BY <1>0, <1>1, <1>2, <1>3, <2>4 DEF RoundInv, RestInv
  <1>4. CASE main_pc = "childs"
    <2>1. RoundInv
      BY DEF IInv
    <2>2. CASE Child_Command(i)
      <3>1. Posted' = Posted
        BY <1>4, <2>1, <2>2 DEF Child_Command, RoundInv, Posted, Idle
      <3> QED BY <1>0, <1>1, <1>2, <1>4, <2>1, <2>2, <3>1
              DEF Child_Command, RoundInv, BootInv, RestInv
    <2>3. CASE Child_Announce(i) \/ Child_Words(i) \/ Child_Final(i)
      <3>1. Posted' = Posted
        BY <1>4, <2>1, <2>3
        DEF Child_Announce, Child_Words, Child_Final, RoundInv, Posted, Idle
      <3> QED BY <1>0, <1>1, <1>2, <1>4, <2>1, <2>3, <3>1
              DEF Child_Announce, Child_Words, Child_Final, RoundInv, BootInv, RestInv
    <2>4. CASE Child_Done(i)
      <3>1. ~Idle(i) /\ Posted' = Posted \cup {i}
        BY <1>4, <2>1, <2>4 DEF Child_Done, RoundInv, Posted, Idle
      <3>2. master' = Cardinality(Posted)'
        BY <1>4, <2>1, <2>4, <3>1, PostCounts DEF Child_Done, RoundInv
      <3> QED BY <1>0, <1>1, <1>2, <1>4, <2>1, <2>4, <3>2
              DEF Child_Done, RoundInv, BootInv, RestInv
    <2> QED BY <1>4, <2>1, <2>2, <2>3, <2>4
            DEF RoundInv, QuitInv, ChildStep, Child_Ready, Child_Quit
  <1>5. CASE main_pc \notin {"boot", "childs"}
    <2>1. RestInv
      BY DEF IInv
    <2>2. Child_Quit(i) /\ main_pc \in {"reap", "exit"}
      BY <1>5, <2>1 DEF RestInv, QuitInv, ChildStep, Child_Ready, Child_Command,
                        Child_Announce, Child_Words, Child_Final, Child_Done, Child_Quit
    <2> QED BY <1>0, <1>1, <1>2, <1>5, <2>1, <2>2 DEF Child_Quit, RestInv, BootInv, RoundInv
  <1> QED BY <1>3, <1>4, <1>5

\* The reader program touches neither the barrier nor the ring; an alarm that
\* cuts no semop() short only counts an iteration of the wait() loop.
LEMMA OtherInv ==
  ASSUME IInv, Calm, UNCHANGED <<rtVars, swapVars, cmdVars, childVars, main_pc, swp_idx>>
  PROVE  IInv'
  BY DEF IInv, BootInv, RoundInv, RestInv, QuitInv, SwapInv, Posted, Idle, Filling,
         Draining, rtVars, swapVars, cmdVars, childVars

\* A call that was cut short stays known: Calm is never regained.
LEMMA CalmBack == ASSUME [Next]_vars, Calm' PROVE Calm
  <1> USE DEF Calm, mainVars, mainData
  <1>1. CASE ReaderThread
    BY <1>1 DEF ReaderThread
  <1>2. CASE Main
    BY <1>2 DEF Main, Main_Boot, Main_ChainWait, Main_TakeFull, Main_GetBytes,
         Main_SendSwapBuffer, Main_WaitChilds, Main_FreeBuffer, Main_SayReady,
         Main_QuitChilds, Main_Wait, Main_Cleanup
  <1>3. CASE Alarm \/ NoWaitSemop
    BY <1>3 DEF Alarm, NoWaitSemop
  <1>4. ASSUME NEW i \in Child, ChildStep(i) \/ EnvLink(i) PROVE Calm
    BY <1>4 DEF ChildStep, EnvLink
  <1>5. CASE EnvMaster
    BY <1>5 DEF EnvMaster
  <1>6. CASE UNCHANGED vars
    BY <1>6 DEF vars
  <1> QED BY <1>1, <1>2, <1>3, <1>4, <1>5, <1>6 DEF Next, Ended

LEMMA CutShort == ASSUME LeaveSemop PROVE ~Calm'
  BY DEF LeaveSemop, Asleep, Calm

LEMMA NextInv == ASSUME TypeOK, IInv, [Next]_vars PROVE IInv'
  <1> SUFFICES ASSUME Calm' PROVE IInv'
    BY DEF IInv
  <1>0. Calm
    BY CalmBack
  <1>1. CASE Alarm
    <2>1. main_pc' = main_pc /\ swp_idx' = swp_idx
      BY <1>1, CutShort DEF Alarm
    <2> QED BY <1>0, <1>1, <2>1, OtherInv DEF Alarm
  <1>2. CASE NoWaitSemop
    BY <1>2, CutShort DEF NoWaitSemop, Calm
  <1>3. ASSUME NEW i \in Child, EnvLink(i) PROVE IInv'
    BY <1>0, <1>3, OtherInv DEF EnvLink, mainVars, mainData
  <1>4. CASE EnvMaster
    BY <1>0, <1>4, OtherInv DEF EnvMaster, mainVars, mainData
  <1>5. CASE UNCHANGED vars
    BY <1>0, <1>5, OtherInv DEF vars, mainVars, mainData
  <1> QED
    BY <1>0, <1>1, <1>2, <1>3, <1>4, <1>5, ReaderThreadInv, MainInv, ChildStepInv
    DEF Next, Ended

\* IInv holds in every reachable state: as long as no semop() was cut short, the
\* semaphore of the children is a barrier and those of the buffers say who owns them.
THEOREM InvCorrect == SafeSpec => []IInv
  <1>1. TypeOK /\ IInv /\ [Next]_vars => IInv'
    BY NextInv
  <1> QED BY InitInv, <1>1, TypeCorrect, PTL DEF SafeSpec

-----------------------------------------------------------------------------
(* What follows from it *)

LEMMA NobodySends ==
  ASSUME TypeOK, IInv, Calm, NEW i \in Child, NEW b \in Buf, Sending(i, b)
  PROVE  main_pc = "childs" /\ b = swp_idx
  BY DEF IInv, BootInv, RoundInv, RestInv, Sending

\* reader_thread never overwrites a buffer a child still has to send.
THEOREM NoOverwrite == SafeSpec => []NoOverwriteInFlight
  <1>1. TypeOK /\ IInv => NoOverwriteInFlight
    BY NobodySends DEF NoOverwriteInFlight, IInv, SwapInv, Draining
  <1> QED BY <1>1, TypeCorrect, InvCorrect, PTL

\* Between two rounds every child waits for a command.
THEOREM Barrier == SafeSpec => []BarrierHolds
  <1>1. IInv => BarrierHolds
    BY DEF BarrierHolds, IInv, RestInv, Idle
  <1> QED BY <1>1, InvCorrect, PTL
-----------------------------------------------------------------------------
(* The ring holds the file in order *)

\* The modulo of NextBuf only wraps the last buffer.
LEMMA NextBufIs ==
  \A b \in Buf : /\ NextBuf(b) = IF b = N_SWAP_BUFFERS - 1 THEN 0 ELSE b + 1
                 /\ NextBuf(b) \in Buf
  <1> SUFFICES ASSUME NEW b \in Buf
               PROVE  NextBuf(b) = IF b = N_SWAP_BUFFERS - 1 THEN 0 ELSE b + 1
    BY DEF Buf
  <1>1. CASE b = N_SWAP_BUFFERS - 1
    BY <1>1 DEF NextBuf, Buf
  <1>2. CASE b # N_SWAP_BUFFERS - 1
    <2>1. b + 1 \in 0 .. N_SWAP_BUFFERS - 1
      BY <1>2 DEF Buf
    <2> QED BY <1>2, <2>1 DEF NextBuf
  <1> QED BY <1>1, <1>2

\* Round the ring nobody follows two buffers.
LEMMA NextBufInjective ==
  /\ \A b \in Buf : NextBuf(b) \in Buf
  /\ \A b, c \in Buf : NextBuf(b) = NextBuf(c) => b = c
  BY NextBufIs DEF Buf

\* A buffer is one step further from swp_idx than the one before, unless it is swp_idx.
LEMMA DistIs ==
  ASSUME swp_idx \in Buf
  PROVE  /\ \A b \in Buf : Dist(b) \in Int /\ 0 <= Dist(b) /\ Dist(b) < N_SWAP_BUFFERS
         /\ \A b \in Buf : Dist(b) = 0 <=> b = swp_idx
         /\ \A b, c \in Buf : Dist(b) = Dist(c) => b = c
         /\ \A b \in Buf : Dist(NextBuf(b)) = IF NextBuf(b) = swp_idx THEN 0 ELSE Dist(b) + 1
         /\ \A b \in Buf : NextBuf(b) = swp_idx <=> Dist(b) = N_SWAP_BUFFERS - 1
  BY NextBufIs DEF Dist, Buf

\* What EndsInv speaks of stays the same.
LEMMA EndsKept ==
  ASSUME TypeOK, EndsInv, UNCHANGED <<swp_idx, rt_buf, sent, Pos>>,
         \A b \in Buf : Occupied(b)' <=> Occupied(b),
         \A b \in Buf : Occupied(b) => Begin(b)' = Begin(b)
  PROVE  EndsInv'
  <1> PICK first \in Buf : first = swp_idx
    BY DEF TypeOK
  <1> PICK last \in Buf : last = rt_buf
    BY DEF TypeOK
  <1>1. \A b \in Buf : Dist(b)' = Dist(b)
    BY DEF Dist
  <1>2. Occupied(first)' = Occupied(swp_idx)' /\ Begin(first)' = Begin(swp_idx)'
    BY DEF Occupied, Begin
  <1>3. sent' = IF Occupied(swp_idx)' THEN Begin(swp_idx)' ELSE Pos'
    BY <1>2 DEF EndsInv
  <1>4. (Occupied(rt_buf)' <=> Occupied(last)') /\ Dist(rt_buf)' = Dist(last)'
    BY DEF Occupied, Dist
  <1> QED BY <1>1, <1>3, <1>4 DEF EndsInv

LEMMA RoundBytes == SWAP_BUF_SIZE \in Nat
  BY DEF SWAP_BUF_SIZE

LEMMA InitContent == Init => ContentInv
  <1> SUFFICES ASSUME Init PROVE RingInv /\ LinkInv
    BY DEF ContentInv
  <1>1. \A b \in Buf : ~Occupied(b)
    BY DEF Init, Occupied, Owns, Draining
  <1>2. 0 \in Buf
    BY DEF Buf
  <1>3. ChainInv
    BY <1>1 DEF ChainInv
  <1>4. EndsInv
    <2>1. rt_buf \in Buf /\ swp_idx \in Buf /\ rt_buf = swp_idx /\ Pos = sent
      BY <1>2 DEF Init, Pos
    <2>2. ~Occupied(rt_buf) /\ ~Occupied(swp_idx)
      BY <1>1, <2>1
    <2>3. \A b \in Buf : ~(Dist(b) < Dist(rt_buf))
      BY <2>1, DistIs
    <2> QED BY <1>1, <2>1, <2>2, <2>3 DEF EndsInv
  <1>5. HandsInv
    BY DEF Init, HandsInv, Owns, Draining, Filling
  <1> QED BY <1>3, <1>4, <1>5 DEF Init, RingInv, LinkInv, Quiet

\* reader_thread adds the next bytes of the file at rt_buf, which nobody else touches.
LEMMA ReaderThreadRing ==
  ASSUME TypeOK, SwapInv, RingInv, ReaderThread
  PROVE  RingInv'
  <1> USE DEF TypeOK, RT
  <1>0. UNCHANGED <<file_len, main_pc, swp_idx, readed_bytes, sent, Owns, Draining>>
    BY DEF ReaderThread, mainVars, mainData, Owns, Draining
  <1>1. CASE RT_SetAll
    <2>1. /\ rt_pc = "set" /\ rt_pc' = "free" /\ UNCHANGED <<file_pos, rt_buf, readed, swap_sem, swap_at>>
      BY <1>1 DEF RT_SetAll
    <2>2. \A b \in Buf : swap_sem[b] = 0
      BY <2>1 DEF RingInv, HandsInv
    <2>3. ~Owns /\ \A b \in Buf : ~Occupied(b)
      BY <2>2 DEF RingInv, HandsInv, Occupied
    <2>4. ~Owns' /\ \A b \in Buf : ~Occupied(b)'
      BY <1>0, <2>1, <2>2, <2>3 DEF Occupied
    <2>5. Pos' = Pos
      BY <2>1 DEF Pos
    <2>6. ChainInv'
      BY <2>4 DEF ChainInv
    <2>7. EndsInv'
      BY <1>0, <2>1, <2>3, <2>4, <2>5, EndsKept DEF RingInv
    <2>8. HandsInv'
      BY <1>0, <2>1, <2>4 DEF RingInv, HandsInv
    <2> QED BY <2>6, <2>7, <2>8 DEF RingInv
  <1>2. CASE RT_WaitFree \/ RT_Claim \/ RT_Read \/ RT_SetActive
    <2>1. rt_buf' = rt_buf /\ rt_pc # "set" /\ rt_pc # "done" /\ rt_pc' \notin {"set", "done"}
      BY <1>2 DEF RT_WaitFree, RT_Claim, RT_Read, RT_SetActive
    <2>2. swap_sem' \in [Buf -> Nat] /\ \A b \in Buf : (swap_sem'[b] = 3 <=> swap_sem[b] = 3)
      BY <1>2 DEF RT_WaitFree, RT_Claim, RT_Read, RT_SetActive, swapVars, SwapInv
    <2>3. \A b \in Buf : Occupied(b)' <=> Occupied(b)
      BY <1>0, <2>2 DEF Occupied
    <2>4. Pos' = Pos
      BY <1>2 DEF RT_WaitFree, RT_Claim, RT_Read, RT_SetActive, Pos
    <2>5. \A b \in Buf : Occupied(b) => active_bytes'[b] = active_bytes[b] /\ swap_at'[b] = swap_at[b]
      <3>1. CASE RT_WaitFree \/ RT_Claim
        BY <3>1 DEF RT_WaitFree, RT_Claim, swapVars
      <3>2. CASE RT_Read \/ RT_SetActive
        <4>1. Filling /\ ~Occupied(rt_buf)
          BY <3>2 DEF RT_Read, RT_SetActive, Filling, Occupied, SwapInv, RingInv, HandsInv
        <4> QED BY <3>2, <4>1 DEF RT_Read, RT_SetActive
      <3> QED BY <1>2, <3>1, <3>2
    <2>6. \A b \in Buf : Occupied(b) => Begin(b)' = Begin(b) /\ Upto(b)' = Upto(b)
      BY <2>4, <2>5 DEF Begin, Upto
    <2>7. ChainInv'
      BY <2>1, <2>3, <2>4, <2>5, <2>6, NextBufInjective DEF RingInv, ChainInv
    <2>8. EndsInv'
      BY <1>0, <2>1, <2>3, <2>4, <2>6, EndsKept DEF RingInv
    <2>9. HandsInv'
      <3>1. Owns => swap_sem'[swp_idx] = 1 /\ ~(Filling' /\ rt_buf = swp_idx)
        BY <1>2 DEF RingInv, HandsInv, RT_WaitFree, RT_Claim, RT_Read, RT_SetActive,
                    swapVars, Filling, SwapInv
      <3>2. Owns /\ main_pc # "get" => readed_bytes = active_bytes'[swp_idx]
        BY <2>5 DEF RingInv, HandsInv, Occupied
      <3>3. rt_pc' \in {"mark", "publish"} =>
              /\ readed' <= SWAP_BUF_SIZE
              /\ readed' > 0 => swap_at'[rt_buf] = Pos'
        BY <1>2, RoundBytes DEF RingInv, HandsInv, RT_WaitFree, RT_Claim, RT_Read, RT_SetActive, Pos
      <3>4. rt_pc' = "publish" => active_bytes'[rt_buf] = readed'
        BY <1>2 DEF RT_WaitFree, RT_Claim, RT_Read, RT_SetActive
      <3> QED BY <1>0, <2>1, <3>1, <3>2, <3>3, <3>4 DEF RingInv, HandsInv
    <2> QED BY <2>7, <2>8, <2>9 DEF RingInv
  <1>3. CASE RT_Publish
    <2>1. /\ rt_pc = "publish" /\ rt_pc' = (IF readed > 0 THEN "free" ELSE "done")
          /\ UNCHANGED <<file_pos, readed, active_bytes, swap_at>>
          /\ rt_buf' = NextBuf(rt_buf) /\ Filling
          /\ swap_sem[rt_buf] = 1 /\ swap_sem'[rt_buf] = 3
          /\ \A b \in Buf : b # rt_buf => swap_sem'[b] = swap_sem[b]
      BY <1>3 DEF RT_Publish, SwapInv, Filling
    <2> PICK last \in Buf : last = rt_buf
      OBVIOUS
    <2>2. ~Occupied(last) /\ Occupied(last)' /\ (Owns => swp_idx # last)
      BY <1>0, <2>1 DEF Occupied, RingInv, HandsInv
    <2>3. \A b \in Buf : b # rt_buf => (Occupied(b)' <=> Occupied(b))
      BY <1>0, <2>1 DEF Occupied
    <2>4. \A b \in Buf : Occupied(b) => active_bytes[b] > 0
      BY <2>1 DEF RingInv, ChainInv
    <2>5. \A b \in Buf : Occupied(b) => Begin(b)' = Begin(b) /\ Upto(b)' = Upto(b)
      BY <2>1, <2>4 DEF Begin, Upto
    <2>6. active_bytes[rt_buf] = readed /\ readed <= SWAP_BUF_SIZE
      BY <2>1 DEF RingInv, HandsInv
    <2>7. Begin(last)' = Pos /\ Upto(last)' = Pos'
      <3>1. CASE readed > 0
        BY <2>1, <2>6, <3>1 DEF RingInv, HandsInv, Begin, Upto, Pos
      <3>2. CASE readed <= 0
        BY <2>1, <2>6, <3>2 DEF Begin, Upto, Pos
      <3> QED BY <3>1, <3>2
    <2>8. ChainInv'
      <3> SUFFICES ASSUME NEW b \in Buf, Occupied(b)'
                   PROVE  /\ active_bytes'[b] <= SWAP_BUF_SIZE
                          /\ active_bytes'[b] <= 0 => rt_pc' = "done" /\ NextBuf(b) = rt_buf'
                          /\ IF NextBuf(b) = rt_buf' THEN Upto(b)' = Pos'
                             ELSE Occupied(NextBuf(b))' /\ Begin(NextBuf(b))' = Upto(b)'
        BY DEF ChainInv, NextBuf
      <3>1. CASE b = rt_buf
        BY <2>1, <2>6, <2>7, <3>1
      <3>2. CASE b # rt_buf
        <4>1. Occupied(b) /\ active_bytes'[b] > 0 /\ active_bytes'[b] <= SWAP_BUF_SIZE
          BY <2>1, <2>3, <2>4, <3>2 DEF RingInv, ChainInv
        <4>2. NextBuf(b) # rt_buf'
          BY <2>1, <3>2, NextBufInjective
        <4>3. CASE NextBuf(b) = rt_buf
          BY <2>1, <2>2, <2>5, <2>7, <4>1, <4>2, <4>3 DEF RingInv, ChainInv, Begin, Upto, Occupied
        <4>4. CASE NextBuf(b) # rt_buf
          <5>1. Occupied(NextBuf(b)) /\ Begin(NextBuf(b)) = Upto(b)
            BY <4>1, <4>4 DEF RingInv, ChainInv
          <5>2. NextBuf(b) \in Buf
            BY NextBufInjective
          <5> QED BY <2>1, <2>3, <2>5, <4>1, <4>2, <4>4, <5>1, <5>2 DEF Begin, Upto, Occupied
        <4> QED BY <4>1, <4>3, <4>4
      <3> QED BY <3>1, <3>2
    <2>9. EndsInv'
      <3>1. sent = IF Occupied(swp_idx)' THEN Begin(swp_idx)' ELSE Pos'
        <4>1. CASE swp_idx = rt_buf
          BY <1>0, <2>2, <2>7, <4>1 DEF RingInv, EndsInv, Begin, Occupied
        <4>2. CASE swp_idx # rt_buf
          <5>1. Occupied(swp_idx)
            BY <4>2, DistIs DEF RingInv, EndsInv, Buf
          <5> QED BY <1>0, <2>1, <2>3, <2>5, <4>2, <5>1 DEF RingInv, EndsInv, Begin, Occupied
        <4> QED BY <4>1, <4>2
      <3> PICK next \in Buf : next = rt_buf'
        BY <2>1, NextBufInjective
      <3>2. \A b \in Buf : Occupied(b)' <=> Dist(b) <= Dist(rt_buf)
        <4>1. ~Occupied(rt_buf)
          BY <2>2
        <4>2. \A b \in Buf : Occupied(b) <=> Dist(b) < Dist(rt_buf)
          BY <4>1 DEF RingInv, EndsInv
        <4>3. ASSUME NEW b \in Buf
              PROVE  (Dist(b) <= Dist(rt_buf)) <=> (Dist(b) < Dist(rt_buf) \/ b = rt_buf)
          <5>1. Dist(b) \in Int /\ Dist(rt_buf) \in Int /\ (Dist(b) = Dist(rt_buf) <=> b = rt_buf)
            BY DistIs
          <5> QED BY <5>1
        <4> QED BY <2>2, <2>3, <4>2, <4>3
      <3>3. Dist(next) = (IF next = swp_idx THEN 0 ELSE Dist(rt_buf) + 1)
            /\ (next = swp_idx <=> Dist(rt_buf) = N_SWAP_BUFFERS - 1)
        BY <2>1, DistIs
      <3>4. Occupied(next)' <=> next = swp_idx
        BY <3>2, <3>3, DistIs
      <3>5. ASSUME NEW b \in Buf
            PROVE  Occupied(b)' <=> Occupied(next)' \/ Dist(b) < Dist(next)
        BY <3>2, <3>3, <3>4, DistIs
      <3> QED BY <1>0, <3>1, <3>4, <3>5 DEF EndsInv, Occupied, Dist
    <2>10. HandsInv'
      BY <1>0, <2>1, <2>2 DEF RingInv, HandsInv, Filling
    <2> QED BY <2>8, <2>9, <2>10 DEF RingInv
  <1> QED BY <1>1, <1>2, <1>3 DEF ReaderThread
\* A step that touches neither the ring nor who has which buffer.
LEMMA RingKept ==
  ASSUME TypeOK, RingInv, UNCHANGED <<rtVars, swapVars, swp_idx, readed_bytes, sent, Owns, Draining>>,
         main_pc' \in {"send", "childs", "free"} => readed_bytes # 0,
         main_pc' # "get" => main_pc # "get" \/ ~Owns
  PROVE  RingInv'
  <1> USE DEF rtVars, swapVars
  <1>1. \A b \in Buf : Occupied(b)' <=> Occupied(b)
    BY DEF Occupied
  <1>2. Pos' = Pos
    BY DEF Pos
  <1>3. ChainInv'
    BY <1>1, <1>2, NextBufInjective DEF RingInv, ChainInv, Begin, Upto, Occupied
  <1>4. EndsInv'
    <2>1. \A b \in Buf : Begin(b)' = Begin(b)
      BY <1>2 DEF Begin
    <2> QED BY <1>1, <1>2, <2>1, EndsKept DEF RingInv
  <1>5. HandsInv'
    BY <1>2 DEF RingInv, HandsInv, Filling
  <1> QED BY <1>3, <1>4, <1>5 DEF RingInv

\* main_loop takes the oldest buffer and frees it when it is sent.
LEMMA MainRing ==
  ASSUME TypeOK, SwapInv, RestInv, RingInv, Main
  PROVE  RingInv'
  <1> USE DEF TypeOK, MainPc
  <1>0. UNCHANGED <<rtVars, active_bytes, swap_at>>
    BY DEF Main
  <1>1. CASE Main_Boot \/ Main_ChainWait \/ Main_SendSwapBuffer \/ Main_WaitChilds
             \/ Main_SayReady \/ Main_QuitChilds \/ Main_Wait \/ Main_Cleanup
    <2>1. UNCHANGED <<swap_sem, swp_idx, readed_bytes, sent, Owns, Draining>>
      BY <1>1 DEF Main_Boot, Main_ChainWait, Main_SendSwapBuffer, Main_WaitChilds,
         Main_SayReady, Main_QuitChilds, Main_Wait, Main_Cleanup, mainData, Owns, Draining
    <2>2. /\ main_pc' \in {"send", "childs", "free"} => readed_bytes # 0
          /\ main_pc' # "get" => main_pc # "get" \/ ~Owns
      BY <1>1 DEF Main_Boot, Main_ChainWait, Main_SendSwapBuffer, Main_WaitChilds,
         Main_SayReady, Main_QuitChilds, Main_Wait, Main_Cleanup, RingInv, HandsInv
    <2> QED BY <1>0, <2>1, <2>2, RingKept DEF swapVars
  <1>2. CASE Main_TakeFull
    <2>1. /\ main_pc = "take" /\ main_pc' = "get" /\ UNCHANGED <<swp_idx, readed_bytes, sent>>
          /\ swap_sem[swp_idx] = 3 /\ swap_sem'[swp_idx] = 1
          /\ \A b \in Buf : b # swp_idx => swap_sem'[b] = swap_sem[b]
      BY <1>2 DEF Main_TakeFull, mainData, SwapInv
    <2>2. ~Owns /\ Owns'
      BY <2>1 DEF Owns, Draining
    <2>3. \A b \in Buf : Occupied(b)' <=> Occupied(b)
      BY <2>1, <2>2 DEF Occupied
    <2>4. Pos' = Pos
      BY <1>0 DEF Pos, rtVars
    <2>5. ChainInv'
      BY <1>0, <2>3, <2>4, NextBufInjective DEF RingInv, ChainInv, Begin, Upto, Occupied, rtVars
    <2>6. EndsInv'
      <3>1. \A b \in Buf : Begin(b)' = Begin(b)
        BY <1>0, <2>4 DEF Begin
      <3> QED BY <1>0, <2>1, <2>3, <2>4, <3>1, EndsKept DEF RingInv, rtVars
    <2>7. ~(Filling' /\ rt_buf' = swp_idx)
      BY <1>0, <2>1 DEF SwapInv, Filling, rtVars
    <2>8. HandsInv'
      BY <1>0, <2>1, <2>4, <2>7 DEF RingInv, HandsInv, rtVars
    <2> QED BY <2>5, <2>6, <2>8 DEF RingInv
  <1>3. CASE Main_GetBytes
    <2>1. /\ main_pc = "get" /\ main_pc' = (IF active_bytes[swp_idx] = 0 THEN "say" ELSE "send")
          /\ readed_bytes' = active_bytes[swp_idx] /\ UNCHANGED <<swap_sem, swp_idx, sent>>
      BY <1>3 DEF Main_GetBytes
    <2>2. Owns /\ Owns'
      BY <2>1 DEF Owns, Draining
    <2>3. \A b \in Buf : Occupied(b)' <=> Occupied(b)
      BY <2>1, <2>2 DEF Occupied
    <2>4. Pos' = Pos
      BY <1>0 DEF Pos, rtVars
    <2>5. ChainInv'
      BY <1>0, <2>3, <2>4, NextBufInjective DEF RingInv, ChainInv, Begin, Upto, Occupied, rtVars
    <2>6. EndsInv'
      <3>1. \A b \in Buf : Begin(b)' = Begin(b)
        BY <1>0, <2>4 DEF Begin
      <3> QED BY <1>0, <2>1, <2>3, <2>4, <3>1, EndsKept DEF RingInv, rtVars
    <2>7. HandsInv'
      BY <1>0, <2>1, <2>2, <2>4 DEF RingInv, HandsInv, Filling, rtVars
    <2> QED BY <2>5, <2>6, <2>7 DEF RingInv
  <1>4. CASE Main_FreeBuffer
    <2>1. /\ main_pc = "free" /\ main_pc' = "say" /\ UNCHANGED readed_bytes
          /\ swap_sem[swp_idx] = 1 /\ swap_sem'[swp_idx] = 0
          /\ \A b \in Buf : b # swp_idx => swap_sem'[b] = swap_sem[b]
          /\ swp_idx' = NextBuf(swp_idx)
          /\ sent' = IF readed_bytes > 0 THEN sent + readed_bytes ELSE sent
      BY <1>4 DEF Main_FreeBuffer, Advance, SwapInv, Draining
    <2>2. Owns /\ ~Owns' /\ readed_bytes = active_bytes[swp_idx] /\ readed_bytes # 0
      BY <2>1 DEF Owns, Draining, RingInv, HandsInv
    <2>3. /\ \A b \in Buf : b # swp_idx => (Occupied(b)' <=> Occupied(b))
          /\ \A b \in Buf : b = swp_idx => Occupied(b) /\ ~Occupied(b)'
      BY <2>1, <2>2 DEF Occupied
    <2>4. Pos' = Pos /\ \A b \in Buf : Begin(b)' = Begin(b) /\ Upto(b)' = Upto(b)
      BY <1>0 DEF Pos, Begin, Upto, rtVars
    <2>5. sent' = Upto(swp_idx)
      BY <2>1, <2>2, <2>3 DEF RingInv, EndsInv, Begin, Upto
    <2> PICK next \in Buf : next = NextBuf(swp_idx)
      BY NextBufInjective
    <2>6. ChainInv'
      <3> SUFFICES ASSUME NEW b \in Buf, Occupied(b)'
                   PROVE  /\ active_bytes'[b] <= SWAP_BUF_SIZE
                          /\ active_bytes'[b] <= 0 => rt_pc' = "done" /\ NextBuf(b) = rt_buf'
                          /\ IF NextBuf(b) = rt_buf' THEN Upto(b)' = Pos'
                             ELSE Occupied(NextBuf(b))' /\ Begin(NextBuf(b))' = Upto(b)'
        BY DEF ChainInv, NextBuf
      <3>1. Occupied(b) /\ b # swp_idx
        BY <2>3
      <3>2. NextBuf(b) = rt_buf \/ NextBuf(b) # swp_idx
        <4>1. Dist(swp_idx) = 0 /\ Dist(rt_buf) \in Int /\ Dist(b) \in Int /\ Dist(b) > 0
          BY <3>1, DistIs
        <4>2. ASSUME NextBuf(b) = swp_idx, NextBuf(b) # rt_buf PROVE FALSE
          <5>1. Dist(b) = N_SWAP_BUFFERS - 1 /\ ~Occupied(rt_buf)
            BY <4>2, DistIs DEF RingInv, EndsInv
          <5>2. Dist(b) < Dist(rt_buf)
            BY <3>1, <5>1 DEF RingInv, EndsInv
          <5> QED BY <5>1, <5>2, DistIs
        <4> QED BY <4>2
      <3> QED BY <1>0, <2>3, <2>4, <3>1, <3>2, NextBufInjective
              DEF RingInv, ChainInv, Begin, Upto, Occupied, rtVars
    <2>7. EndsInv'
      <3>1. /\ next = IF swp_idx = N_SWAP_BUFFERS - 1 THEN 0 ELSE swp_idx + 1
            /\ swp_idx' = next
        BY <2>1, NextBufIs
      <3>2. /\ \A b \in Buf : Dist(b)' = IF b = swp_idx THEN N_SWAP_BUFFERS - 1 ELSE Dist(b) - 1
            /\ Dist(next)' = 0
        <4>1. Dist(next)' = 0
          BY <3>1 DEF Dist, Buf
        <4>2. ASSUME NEW b \in Buf
              PROVE  Dist(b)' = IF b = swp_idx THEN N_SWAP_BUFFERS - 1 ELSE Dist(b) - 1
          <5>1. Dist(b)' = IF b >= next THEN b - next ELSE b - next + N_SWAP_BUFFERS
            BY <3>1 DEF Dist
          <5>2. /\ b \in Int /\ 0 <= b /\ b < N_SWAP_BUFFERS
                /\ swp_idx \in Int /\ 0 <= swp_idx /\ swp_idx < N_SWAP_BUFFERS
            BY DEF Buf
          <5> HIDE DEF TypeOK
          <5>3. Dist(b) = IF b >= swp_idx THEN b - swp_idx ELSE b - swp_idx + N_SWAP_BUFFERS
            BY DEF Dist
          <5>4. CASE swp_idx = N_SWAP_BUFFERS - 1
            BY <3>1, <5>1, <5>2, <5>3, <5>4
          <5>5. CASE swp_idx # N_SWAP_BUFFERS - 1
            BY <3>1, <5>1, <5>2, <5>3, <5>5
          <5> QED BY <5>4, <5>5
        <4> QED BY <4>1, <4>2
      <3> PICK last \in Buf : last = rt_buf
        OBVIOUS
      <3>3. ~Occupied(last)'
        BY <2>1, <2>3 DEF RingInv, EndsInv, Occupied
      <3>4. ASSUME NEW b \in Buf
            PROVE  Occupied(b)' <=> Dist(b)' < Dist(last)'
        <4>1. CASE Occupied(rt_buf)
          BY <2>3, <3>2, <4>1, DistIs DEF RingInv, EndsInv
        <4>2. CASE ~Occupied(rt_buf)
          BY <2>3, <3>2, <4>2, DistIs DEF RingInv, EndsInv
        <4> QED BY <4>1, <4>2
      <3>5. Upto(swp_idx) = IF Occupied(next)' THEN Begin(next)' ELSE Pos'
        <4>1. next # last => 0 < Dist(last)'
          <5>1. Dist(last)' = IF last >= next THEN last - next ELSE last - next + N_SWAP_BUFFERS
            BY <3>1 DEF Dist
          <5> QED BY <5>1 DEF Buf
        <4>2. CASE next = last
          BY <2>3, <2>4, <3>3, <4>2 DEF RingInv, ChainInv
        <4>3. CASE next # last
          BY <2>3, <2>4, <3>2, <3>4, <4>1, <4>3 DEF RingInv, ChainInv
        <4> QED BY <4>2, <4>3
      <3> QED BY <1>0, <2>5, <3>1, <3>3, <3>4, <3>5 DEF EndsInv, rtVars, Occupied, Dist, Begin
    <2>8. HandsInv'
      BY <1>0, <2>1, <2>2, <2>4 DEF RingInv, HandsInv, Filling, rtVars
    <2> QED BY <2>6, <2>7, <2>8 DEF RingInv
  <1> QED BY <1>1, <1>2, <1>3, <1>4 DEF Main
\* reader_thread does not write into the buffer that is being sent.
LEMMA ReaderThreadLink ==
  ASSUME TypeOK, SwapInv, RingInv, LinkInv, ReaderThread PROVE LinkInv'
  <1>1. UNCHANGED <<main_pc, swp_idx, readed_bytes, cfgs, child_pc, link>>
    BY DEF ReaderThread, mainVars, mainData, cmdVars, childVars, peerVars
  <1>2. main_pc = "childs" => swap_at'[swp_idx] = swap_at[swp_idx]
    BY DEF TypeOK, ReaderThread, RT, RT_SetAll, RT_WaitFree, RT_Claim, RT_Read, RT_SetActive,
           RT_Publish, swapVars, SwapInv, Filling, Draining
  <1> QED BY <1>1, <1>2 DEF LinkInv

\* send_swap_buffer gives each child its share of the round.
LEMMA MainLink == ASSUME TypeOK, RestInv, LinkInv, Main PROVE LinkInv'
  <1> USE DEF MainPc
  <1>0. UNCHANGED <<swap_at, child_pc, link>>
    BY DEF Main, childVars
  <1>1. CASE Main_SendSwapBuffer
    <2>1. /\ main_pc = "send" /\ UNCHANGED readed_bytes
          /\ \A i \in Child : cfgs'[i].n_bytes_to_send = Share(readed_bytes, i)
      BY <1>1 DEF Main_SendSwapBuffer, mainData
    <2>2. \A i \in Child : child_pc[i] \notin {"sync", "final"}
      BY <2>1 DEF RestInv
    <2>3. \A i \in Child : Share(readed_bytes, i)' = Share(readed_bytes, i)
      BY <2>1 DEF Share
    <2> QED BY <1>0, <2>1, <2>2, <2>3 DEF LinkInv
  <1>2. CASE ~Main_SendSwapBuffer
    <2>1. main_pc' # "childs"
      BY <1>2 DEF Main, Main_Boot, Main_ChainWait, Main_TakeFull, Main_GetBytes,
         Main_WaitChilds, Main_FreeBuffer, Main_SayReady, Main_QuitChilds, Main_Wait, Main_Cleanup
    <2> QED BY <1>0, <2>1 DEF LinkInv
  <1> QED BY <1>1, <1>2

\* A child sends what it was told to.
LEMMA ChildStepLink ==
  ASSUME TypeOK, RoundInv, LinkInv, NEW i \in Child, ChildStep(i) PROVE LinkInv'
  <1> USE DEF TypeOK, ChildPc, Quiet
  <1>1. UNCHANGED <<main_pc, swp_idx, readed_bytes, swap_at>>
    BY DEF ChildStep, mainVars, mainData, swapVars
  <1>2. UNCHANGED cfgs
    BY DEF ChildStep, Child_Ready, Child_Command, Child_Announce, Child_Words, Child_Final,
           Child_Done, Child_Quit, A_master, cmdVars
  <1>3. \A j \in Child \ {i} : child_pc'[j] = child_pc[j] /\ link'[j] = link[j]
    BY DEF ChildStep, Child_Ready, Child_Command, Child_Announce, Child_Words, Child_Final,
           Child_Done, Child_Quit
  <1>4. /\ link'[i].st \in {"data", "ack"} => child_pc'[i] = "final"
        /\ link'[i].st = "stop" => child_pc'[i] = "exit"
    BY DEF LinkInv, ChildStep, Child_Ready, Child_Command, Child_Announce, Child_Words,
           Child_Final, Child_Done, Child_Quit
  <1>5. ASSUME main_pc = "childs"
        PROVE  /\ child_pc'[i] \in {"sync", "final"} => link'[i].n = Share(readed_bytes, i)
               /\ child_pc'[i] = "final" => link'[i].at = swap_at[swp_idx] + BUFFER_SIZE * i
    <2>1. /\ cfgs[i].n_bytes_to_send = Share(readed_bytes, i)
          /\ child_pc[i] \in {"sync", "final"} => link[i].n = Share(readed_bytes, i)
          /\ child_pc[i] = "final" => link[i].at = swap_at[swp_idx] + BUFFER_SIZE * i
          /\ child_pc[i] \in {"sync", "final"} => child_buf[i] = swp_idx
      BY <1>5 DEF LinkInv, RoundInv
    <2>2. CASE Child_Announce(i)
      BY <2>1, <2>2 DEF Child_Announce
    <2>3. CASE Child_Words(i)
      BY <2>1, <2>3 DEF Child_Words, SlicePos
    <2>4. CASE ~(Child_Announce(i) \/ Child_Words(i))
      BY <2>1, <2>4 DEF ChildStep, Child_Ready, Child_Command, Child_Final, Child_Done, Child_Quit
    <2> QED BY <2>2, <2>3, <2>4
  <1> QED BY <1>1, <1>2, <1>3, <1>4, <1>5 DEF LinkInv, Share

\* The peer only answers.
LEMMA EnvLinkLink == ASSUME TypeOK, LinkInv, NEW i \in Child, EnvLink(i) PROVE LinkInv'
  <1> USE DEF TypeOK, Quiet
  <1>1. UNCHANGED <<main_pc, swp_idx, readed_bytes, swap_at, cfgs, child_pc>>
    BY DEF EnvLink, mainVars, mainData, swapVars, cmdVars, childVars
  <1>2. \A j \in Child \ {i} : link'[j] = link[j]
    BY DEF EnvLink
  <1>3. /\ link'[i].st \in {"data", "ack"} => child_pc[i] = "final"
        /\ link'[i].st = "stop" => child_pc[i] = "exit"
        /\ main_pc = "childs" =>
             /\ child_pc[i] \in {"sync", "final"} => link'[i].n = Share(readed_bytes, i)
             /\ child_pc[i] = "final" => link'[i].at = swap_at[swp_idx] + BUFFER_SIZE * i
    BY DEF EnvLink, LinkInv
  <1> QED BY <1>1, <1>2, <1>3 DEF LinkInv, Share

LEMMA NextContent == ASSUME TypeOK, IInv, ContentInv, [Next]_vars PROVE ContentInv'
  <1> SUFFICES ASSUME Calm' PROVE RingInv' /\ LinkInv'
    BY DEF ContentInv
  <1>0. Calm /\ RingInv /\ LinkInv /\ SwapInv /\ RestInv /\ RoundInv
    BY CalmBack DEF ContentInv, IInv
  <1>1. ASSUME UNCHANGED <<rtVars, swapVars, main_pc, swp_idx, readed_bytes, sent, child_pc,
                           cfgs, link>>
        PROVE  RingInv' /\ LinkInv'
    <2>1. Owns' = Owns /\ Draining' = Draining
      BY <1>1 DEF Owns, Draining
    <2>2. RingInv'
      BY <1>0, <1>1, <2>1, RingKept DEF RingInv, HandsInv
    <2> QED BY <1>0, <1>1, <2>2 DEF LinkInv, Share, swapVars
  <1>2. ASSUME UNCHANGED <<rtVars, swapVars, mainVars>> PROVE RingInv'
    <2>1. Owns' = Owns /\ Draining' = Draining
      BY <1>2 DEF Owns, Draining, mainVars, mainData
    <2> QED BY <1>0, <1>2, <2>1, RingKept DEF RingInv, HandsInv, mainVars, mainData
  <1>3. CASE Alarm
    <2>1. main_pc' = main_pc /\ swp_idx' = swp_idx /\ sent' = sent
      BY <1>3, CutShort DEF Alarm
    <2> QED BY <1>1, <1>3, <2>1 DEF Alarm, cmdVars, childVars, peerVars
  <1>4. CASE NoWaitSemop
    BY <1>4, CutShort DEF NoWaitSemop, Calm
  <1>5. CASE EnvMaster
    BY <1>1, <1>5 DEF EnvMaster, mainVars, mainData, cmdVars, childVars
  <1>6. CASE UNCHANGED vars
    BY <1>1, <1>6 DEF vars, mainVars, mainData, cmdVars, childVars, peerVars
  <1>7. ASSUME NEW i \in Child, ChildStep(i) \/ EnvLink(i) PROVE RingInv' /\ LinkInv'
    BY <1>0, <1>2, <1>7, ChildStepLink, EnvLinkLink DEF ChildStep, EnvLink
  <1>8. CASE ReaderThread
    BY <1>0, <1>8, ReaderThreadRing, ReaderThreadLink
  <1>9. CASE Main
    BY <1>0, <1>9, MainRing, MainLink
  <1> QED BY <1>3, <1>4, <1>5, <1>6, <1>7, <1>8, <1>9 DEF Next, Ended

\* ContentInv holds in every reachable state: until a semop() is cut short, the ring holds
\* the next bytes of the file in order, and each child its share of the round.
THEOREM ContentCorrect == SafeSpec => []ContentInv
  <1>1. TypeOK /\ IInv /\ ContentInv /\ [Next]_vars => ContentInv'
    BY NextContent
  <1> QED BY InitContent, <1>1, TypeCorrect, InvCorrect, PTL DEF SafeSpec

\* The shares of n bytes of a round, laid at BUFFER_SIZE * i, make up these n bytes.
LEMMA SharesCover ==
  ASSUME NEW n \in 1 .. SWAP_BUF_SIZE, NEW x \in 0 .. n - 1
  PROVE  \E i \in Child : x - BUFFER_SIZE * i \in 0 .. Share(n, i) - 1
  <1> DEFINE i == x \div BUFFER_SIZE
             r == x % BUFFER_SIZE
  <1>1. i \in Nat /\ r \in 0 .. BUFFER_SIZE - 1 /\ x = BUFFER_SIZE * i + r
    BY DEF SWAP_BUF_SIZE
  <1> HIDE DEF i, r
  <1>2. i < N_CHILDS
    <2>1. BUFFER_SIZE * i < BUFFER_SIZE * N_CHILDS
      BY <1>1 DEF SWAP_BUF_SIZE
    <2> QED BY <1>1, <2>1
  <1>3. i \in Child
    BY <1>1, <1>2 DEF Child
  <1>4. BUFFER_SIZE * (i + 1) = BUFFER_SIZE * i + BUFFER_SIZE /\ BUFFER_SIZE * i \in Nat
    BY <1>1
  <1>5. r < Share(n, i) /\ Share(n, i) \in Int
    BY <1>1, <1>4 DEF Share, SWAP_BUF_SIZE
  <1>6. x - BUFFER_SIZE * i = r
    BY <1>1, <1>4
  <1> QED BY <1>1, <1>3, <1>5, <1>6

LEMMA SharesInside ==
  ASSUME NEW n \in 1 .. SWAP_BUF_SIZE, NEW i \in Child, NEW k \in 0 .. Share(n, i) - 1
  PROVE  BUFFER_SIZE * i + k \in 0 .. n - 1
  <1>1. BUFFER_SIZE * (i + 1) = BUFFER_SIZE * i + BUFFER_SIZE /\ BUFFER_SIZE * i \in Nat /\ n \in Nat
    BY DEF Child, SWAP_BUF_SIZE
  <1> QED BY <1>1 DEF Share

\* Only the last child with data has a partial slice.
LEMMA SharesFull ==
  ASSUME NEW n \in 1 .. SWAP_BUF_SIZE, NEW i \in Child, NEW j \in Child, i < j, Share(n, j) > 0
  PROVE  Share(n, i) = BUFFER_SIZE
  <1>1. /\ n \in Nat /\ BUFFER_SIZE * j \in Nat /\ BUFFER_SIZE * (i + 1) \in Nat
        /\ BUFFER_SIZE * (j + 1) = BUFFER_SIZE * j + BUFFER_SIZE
    BY DEF Child, SWAP_BUF_SIZE
  <1>2. BUFFER_SIZE * (i + 1) <= BUFFER_SIZE * j
    BY DEF Child
  <1> QED BY <1>1, <1>2 DEF Share

\* Each round sends exactly the next bytes of the file, shared out in order.
THEOREM NextChunk == SafeSpec => []RoundSendsNextChunk
  <1>1. TypeOK /\ IInv /\ ContentInv => RoundSendsNextChunk
    <2> SUFFICES ASSUME TypeOK, IInv, ContentInv, Calm, readed_bytes > 0,
                        \A i \in Child : link[i].st \in {"data", "ack"}
                 PROVE  /\ UNION {Handed(i) : i \in Child} = sent .. sent + readed_bytes - 1
                        /\ \A i, j \in Child : i < j /\ link[j].n > 0 => link[i].n = BUFFER_SIZE
                        /\ \A i \in Child : link[i].n > 0 => link[i].at = sent + BUFFER_SIZE * i
      BY DEF RoundSendsNextChunk
    <2>1. \A i \in Child : child_pc[i] = "final"
      BY DEF ContentInv, LinkInv
    <2>2. main_pc = "childs"
      <3>1. 0 \in Child
        BY DEF Child
      <3> QED BY <2>1, <3>1 DEF IInv, BootInv, RestInv
    <2>3. /\ Occupied(swp_idx) /\ readed_bytes = active_bytes[swp_idx] /\ swap_at[swp_idx] = sent
          /\ readed_bytes \in 1 .. SWAP_BUF_SIZE
      BY <2>2, RoundBytes DEF TypeOK, ContentInv, RingInv, HandsInv, ChainInv, EndsInv, Occupied, Owns,
                  Draining, Begin
    <2>4. \A i \in Child : link[i].n = Share(readed_bytes, i) /\ link[i].at = sent + BUFFER_SIZE * i
      BY <2>1, <2>2, <2>3 DEF ContentInv, LinkInv
    <2>5. sent \in Nat /\ \A i \in Child : BUFFER_SIZE * i \in Nat
      BY DEF TypeOK, Child
    <2>6. ASSUME NEW i \in Child, NEW y \in Handed(i) PROVE y \in sent .. sent + readed_bytes - 1
      <3>1. PICK k \in 0 .. Share(readed_bytes, i) - 1 : y = sent + BUFFER_SIZE * i + k
        BY <2>4 DEF Handed
      <3>2. BUFFER_SIZE * i + k \in 0 .. readed_bytes - 1
        BY <2>3, SharesInside
      <3> QED BY <2>3, <2>5, <3>1, <3>2
    <2>7. ASSUME NEW y \in sent .. sent + readed_bytes - 1 PROVE \E i \in Child : y \in Handed(i)
      <3>1. y - sent \in 0 .. readed_bytes - 1
        BY <2>3, <2>5
      <3>2. PICK i \in Child : (y - sent) - BUFFER_SIZE * i \in 0 .. Share(readed_bytes, i) - 1
        BY <2>3, <3>1, SharesCover
      <3>3. y = sent + BUFFER_SIZE * i + ((y - sent) - BUFFER_SIZE * i)
        BY <2>5
      <3> QED BY <2>4, <3>2, <3>3 DEF Handed
    <2> QED BY <2>3, <2>4, <2>6, <2>7, SharesFull
  <1> QED BY <1>1, TypeCorrect, InvCorrect, ContentCorrect, PTL
-----------------------------------------------------------------------------
(* BoundaryInv: what the reader program relies on *)

LEMMA InitBoundary == Init => BoundaryInv
  <1> SUFFICES ASSUME Init PROVE PhaseInv /\ StageInv /\ FileInv /\ BookInv /\ StuckInv
    BY DEF BoundaryInv
  <1>1. PhaseInv /\ StageInv /\ StuckInv
    BY DEF Init, PhaseInv, StageInv, StuckInv
  <1>2. FileInv
    BY RoundBytes DEF Init, FileInv
  <1>3. \A b \in Buf : ~Occupied(b)
    BY DEF Init, Occupied, Owns, Draining
  <1> QED BY <1>1, <1>2, <1>3 DEF BookInv

LEMMA PhaseKept == ASSUME TypeOK, PhaseInv, [Next]_vars PROVE PhaseInv'
  <1> USE DEF TypeOK, ChildPc, Quiet
  <1>1. CASE UNCHANGED <<child_pc, link>>
    BY <1>1 DEF PhaseInv
  <1>2. ASSUME NEW i \in Child, ChildStep(i) PROVE PhaseInv'
    <2>1. \A j \in Child \ {i} : child_pc'[j] = child_pc[j] /\ link'[j] = link[j]
      BY <1>2 DEF ChildStep, Child_Ready, Child_Command, Child_Announce, Child_Words,
                  Child_Final, Child_Done, Child_Quit
    <2>2. CASE Child_Ready(i) \/ Child_Command(i) \/ Child_Done(i)
      BY <2>1, <2>2 DEF PhaseInv, Child_Ready, Child_Command, Child_Done
    <2>3. CASE Child_Announce(i) \/ Child_Words(i)
      BY <2>1, <2>3 DEF PhaseInv, Child_Announce, Child_Words
    <2>4. CASE Child_Final(i) \/ Child_Quit(i)
      BY <2>1, <2>4 DEF PhaseInv, Child_Final, Child_Quit
    <2> QED BY <1>2, <2>2, <2>3, <2>4 DEF ChildStep
  <1>3. ASSUME NEW i \in Child, EnvLink(i) PROVE PhaseInv'
    <2>1. child_pc' = child_pc /\ \A j \in Child \ {i} : link'[j] = link[j]
      BY <1>3 DEF EnvLink, childVars
    <2>2. /\ link[i].st = "req" => link'[i].st = "go"
          /\ link[i].st = "data" => link'[i].st = "ack"
          /\ link[i].st = "stop" => link'[i] = Quiet
          /\ link[i].st \in {"req", "data", "stop"}
      BY <1>3 DEF EnvLink
    <2>3. /\ child_pc[i] \in {"start", "idle", "load", "post"} => link'[i] = Quiet
          /\ child_pc[i] = "sync"  => link'[i].st \in {"req", "go"}
          /\ child_pc[i] = "final" => link'[i].st \in {"data", "ack"}
          /\ child_pc[i] = "exit"  => link'[i] = Quiet \/ link'[i].st = "stop"
      BY <2>2 DEF PhaseInv
    <2> QED BY <2>1, <2>3 DEF PhaseInv
  <1>4. (ReaderThread \/ Main \/ Alarm \/ NoWaitSemop \/ EnvMaster \/ UNCHANGED vars)
          => UNCHANGED <<child_pc, link>>
    BY DEF ReaderThread, Main, Alarm, NoWaitSemop, EnvMaster, vars, childVars, peerVars
  <1> QED BY <1>1, <1>2, <1>3, <1>4 DEF Next, Ended

LEMMA StageKept == ASSUME TypeOK, StageInv, [Next]_vars PROVE StageInv'
  <1> USE DEF StageInv
  <1>1. CASE UNCHANGED <<main_pc, is_first, readed_bytes>>
    BY <1>1
  <1>2. CASE Main
    <2> USE DEF MainPc, mainData
    <2>1. CASE Main_Boot \/ Main_ChainWait \/ Main_TakeFull \/ Main_SendSwapBuffer
      BY <2>1 DEF Main_Boot, Main_ChainWait, Main_TakeFull, Main_SendSwapBuffer
    <2>2. CASE Main_GetBytes
      BY <2>2 DEF Main_GetBytes, TypeOK
    <2>3. CASE Main_WaitChilds \/ Main_FreeBuffer \/ Main_SayReady
      BY <2>3 DEF Main_WaitChilds, Main_FreeBuffer, Main_SayReady
    <2>4. CASE Main_QuitChilds \/ Main_Wait \/ Main_Cleanup
      BY <2>4 DEF Main_QuitChilds, Main_Wait, Main_Cleanup
    <2> QED BY <1>2, <2>1, <2>2, <2>3, <2>4 DEF Main
  <1>3. CASE LeaveSemop /\ UNCHANGED <<is_first, readed_bytes>>
    BY <1>3 DEF LeaveSemop, Asleep, AfterSemop
  <1>4. ASSUME NEW i \in Child, ChildStep(i) \/ EnvLink(i)
        PROVE  UNCHANGED <<main_pc, is_first, readed_bytes>>
    BY <1>4 DEF ChildStep, EnvLink, mainVars, mainData
  <1>5. (ReaderThread \/ EnvMaster \/ UNCHANGED vars) => UNCHANGED <<main_pc, is_first, readed_bytes>>
    BY DEF ReaderThread, EnvMaster, vars, mainVars, mainData
  <1>6. Alarm => \/ LeaveSemop /\ UNCHANGED <<is_first, readed_bytes>>
                 \/ UNCHANGED <<main_pc, is_first, readed_bytes>>
    BY DEF Alarm
  <1>7. NoWaitSemop => \/ LeaveSemop /\ UNCHANGED <<is_first, readed_bytes>>
                       \/ UNCHANGED <<main_pc, is_first, readed_bytes>>
    BY DEF NoWaitSemop
  <1> QED BY <1>1, <1>2, <1>3, <1>4, <1>5, <1>6, <1>7 DEF Next, Ended

LEMMA FileKept == ASSUME TypeOK, FileInv, [Next]_vars PROVE FileInv'
  <1> USE DEF FileInv
  <1>1. CASE UNCHANGED <<file_len, file_pos, rt_pc, readed>>
    BY <1>1 DEF SWAP_BUF_SIZE
  <1>2. CASE ReaderThread
    <2>1. file_len' = file_len
      BY <1>2 DEF ReaderThread
    <2> USE DEF RT
    <2>2. CASE RT_SetAll \/ RT_WaitFree \/ RT_Claim \/ RT_SetActive
      BY <2>1, <2>2 DEF RT_SetAll, RT_WaitFree, RT_Claim, RT_SetActive, SWAP_BUF_SIZE
    <2>3. CASE RT_Publish
      BY <2>1, <2>3 DEF RT_Publish, SWAP_BUF_SIZE
    <2>4. CASE RT_Read
      <3>1. /\ rt_pc' = "mark" /\ file_pos \in Nat /\ file_len \in Nat
            /\ SWAP_BUF_SIZE' = SWAP_BUF_SIZE /\ SWAP_BUF_SIZE \in Nat
        BY <2>4, RoundBytes DEF RT_Read, TypeOK, SWAP_BUF_SIZE
      <3>2. CASE \E n \in 1 .. SWAP_BUF_SIZE :
                   file_pos + n <= file_len /\ readed' = n /\ file_pos' = file_pos + n
        BY <2>1, <3>1, <3>2
      <3>3. CASE file_pos = file_len /\ readed' = 0 /\ file_pos' = file_pos
        BY <2>1, <3>1, <3>3
      <3>4. CASE readed' = -1 /\ file_pos' = file_pos
        BY <2>1, <3>1, <3>4
      <3> QED BY <2>4, <3>2, <3>3, <3>4 DEF RT_Read
    <2> QED BY <1>2, <2>2, <2>3, <2>4 DEF ReaderThread
  <1>3. CASE NoWaitSemop
    <2>1. /\ UNCHANGED <<file_len, file_pos, readed>>
          /\ rt_pc' = rt_pc \/ (rt_pc = "free" /\ rt_pc' = "claim")
      BY <1>3 DEF NoWaitSemop, RT, rtVars
    <2> QED BY <2>1 DEF SWAP_BUF_SIZE
  <1>4. ASSUME NEW i \in Child, ChildStep(i) \/ EnvLink(i) PROVE UNCHANGED rtVars
    BY <1>4 DEF ChildStep, EnvLink
  <1>5. (Main \/ Alarm \/ EnvMaster \/ UNCHANGED vars) => UNCHANGED rtVars
    BY DEF Main, Alarm, EnvMaster, vars
  <1> QED BY <1>1, <1>2, <1>3, <1>4, <1>5 DEF Next, Ended, rtVars

\* A buffer gets occupied by RT_Publish only, and its bytes stay while it is.
LEMMA ReaderThreadBook ==
  ASSUME TypeOK, SwapInv, RingInv, FileInv, BookInv, ReaderThread
  PROVE  BookInv'
  <1> USE DEF TypeOK, RT
  <1>0. UNCHANGED <<main_pc, swp_idx, readed_bytes, Owns, Draining>>
    BY DEF ReaderThread, mainVars, mainData, Owns, Draining
  <1>1. CASE RT_SetAll
    <2>1. rt_pc = "set" /\ swap_sem' = swap_sem
      BY <1>1 DEF RT_SetAll
    <2>2. ~Owns /\ \A b \in Buf : swap_sem[b] = 0
      BY <2>1 DEF RingInv, HandsInv
    <2>3. \A b \in Buf : ~Occupied(b)'
      BY <1>0, <2>1, <2>2 DEF Occupied
    <2> QED BY <2>3 DEF BookInv
  <1>2. CASE RT_WaitFree \/ RT_Claim \/ RT_Read \/ RT_SetActive
    <2>1. rt_buf' = rt_buf /\ rt_pc # "done"
      BY <1>2 DEF RT_WaitFree, RT_Claim, RT_Read, RT_SetActive
    <2>2. swap_sem' \in [Buf -> Nat] /\ \A b \in Buf : (swap_sem'[b] = 3 <=> swap_sem[b] = 3)
      BY <1>2 DEF RT_WaitFree, RT_Claim, RT_Read, RT_SetActive, swapVars, SwapInv
    <2>3. \A b \in Buf : Occupied(b)' <=> Occupied(b)
      BY <1>0, <2>2 DEF Occupied
    <2>4. Pos' = Pos
      BY <1>2 DEF RT_WaitFree, RT_Claim, RT_Read, RT_SetActive, Pos
    <2>5. \A b \in Buf : Occupied(b) => active_bytes'[b] = active_bytes[b] /\ swap_at'[b] = swap_at[b]
      <3>1. CASE RT_WaitFree \/ RT_Claim
        BY <3>1 DEF RT_WaitFree, RT_Claim, swapVars
      <3>2. CASE RT_Read \/ RT_SetActive
        <4>1. Filling /\ ~Occupied(rt_buf)
          BY <3>2 DEF RT_Read, RT_SetActive, Filling, Occupied, SwapInv, RingInv, HandsInv
        <4> QED BY <3>2, <4>1 DEF RT_Read, RT_SetActive
      <3> QED BY <1>2, <3>1, <3>2
    <2>6. \A b \in Buf : Occupied(b) => Upto(b)' = Upto(b) /\ active_bytes[b] > 0
      BY <2>1, <2>4, <2>5 DEF Upto, RingInv, ChainInv
    <2> QED BY <2>3, <2>4, <2>5, <2>6 DEF BookInv
  <1>3. CASE RT_Publish
    <2>1. /\ rt_pc = "publish" /\ rt_pc' \in {"free", "done"}
          /\ UNCHANGED <<file_pos, readed, active_bytes, swap_at>>
          /\ \A b \in Buf : b # rt_buf => swap_sem'[b] = swap_sem[b]
          /\ active_bytes[rt_buf] = readed /\ (readed > 0 => swap_at[rt_buf] = Pos)
      BY <1>3 DEF RT_Publish, RingInv, HandsInv
    <2>2. \A b \in Buf : Occupied(b)' => b = rt_buf \/ Occupied(b)
      BY <1>0, <2>1 DEF Occupied
    <2>3. /\ Pos \in Int /\ Pos' = file_pos /\ Pos <= file_pos
          /\ readed > 0 => Pos + readed = file_pos /\ Pos >= 0
          /\ readed <= 0 => Pos = file_pos
      BY <2>1 DEF Pos, FileInv
    <2>4. ASSUME NEW b \in Buf, Occupied(b)'
          PROVE  /\ Upto(b)' <= Pos'
                 /\ active_bytes'[b] > 0 => swap_at'[b] >= 0
                 /\ active_bytes'[b] <= 0 => active_bytes'[b] = readed'
      <3>1. CASE b = rt_buf
        BY <2>1, <2>3, <3>1 DEF Upto
      <3>2. CASE b # rt_buf
        <4>1. Occupied(b) /\ active_bytes[b] > 0 /\ Upto(b) <= Pos /\ swap_at[b] >= 0
          BY <2>1, <2>2, <2>4, <3>2 DEF BookInv, RingInv, ChainInv
        <4> QED BY <2>1, <2>3, <4>1 DEF Upto
      <3> QED BY <3>1, <3>2
    <2> QED BY <2>4 DEF BookInv
  <1> QED BY <1>1, <1>2, <1>3 DEF ReaderThread

\* The master only gives buffers back.
LEMMA MainBook ==
  ASSUME TypeOK, SwapInv, RingInv, StageInv, BookInv, Main
  PROVE  BookInv'
  <1> USE DEF TypeOK, MainPc
  <1>0. UNCHANGED <<rtVars, active_bytes, swap_at, Pos>>
    BY DEF Main, rtVars, Pos
  <1>1. \A b \in Buf : Occupied(b)' => Occupied(b)
    <2>1. CASE Main_Boot \/ Main_ChainWait \/ Main_SendSwapBuffer \/ Main_WaitChilds
               \/ Main_SayReady \/ Main_QuitChilds \/ Main_Wait \/ Main_Cleanup
      BY <2>1 DEF Main_Boot, Main_ChainWait, Main_SendSwapBuffer, Main_WaitChilds,
         Main_SayReady, Main_QuitChilds, Main_Wait, Main_Cleanup, mainData, Owns, Draining, Occupied
    <2>2. CASE Main_TakeFull
      BY <2>2 DEF Main_TakeFull, mainData, SwapInv, Owns, Draining, Occupied
    <2>3. CASE Main_GetBytes
      BY <2>3 DEF Main_GetBytes, Owns, Draining, Occupied
    <2>4. CASE Main_FreeBuffer
      <3>1. /\ main_pc = "free" /\ main_pc' = "say" /\ readed_bytes' = readed_bytes /\ readed_bytes # 0
            /\ swap_sem' = [swap_sem EXCEPT ![swp_idx] = @ - 1] /\ swap_sem[swp_idx] = 1
        BY <2>4 DEF Main_FreeBuffer, StageInv, SwapInv, Draining
      <3>2. ~Owns' /\ \A b \in Buf : swap_sem'[b] = 3 => swap_sem[b] = 3
        BY <3>1 DEF Owns, Draining
      <3> QED BY <3>2 DEF Occupied
    <2> QED BY <2>1, <2>2, <2>3, <2>4 DEF Main
  <1> QED BY <1>0, <1>1 DEF BookInv, Upto, rtVars

\* After a buffer without a byte comes none.
LEMMA MainStuck ==
  ASSUME TypeOK, SwapInv, RingInv, StageInv, FileInv, BookInv, StuckInv, Main
  PROVE  StuckInv'
  <1> USE DEF TypeOK, MainPc
  <1>0. UNCHANGED <<rtVars, active_bytes, swap_at>>
    BY DEF Main
  <1> SUFFICES ASSUME readed_bytes' < 0
               PROVE  /\ readed = -1 /\ rt_pc = "done" /\ sent' = file_pos
                      /\ \/ main_pc' \in {"send", "childs", "free"}
                         \/ main_pc' \in {"say", "chain", "take"} /\ swap_sem'[swp_idx'] < 2
    BY <1>0 DEF StuckInv, rtVars
  <1>1. CASE Main_GetBytes
    <2>1. /\ main_pc = "get" /\ main_pc' = (IF active_bytes[swp_idx] = 0 THEN "say" ELSE "send")
          /\ readed_bytes' = active_bytes[swp_idx] /\ sent' = sent
      BY <1>1 DEF Main_GetBytes
    <2>2. Occupied(swp_idx) /\ active_bytes[swp_idx] < 0
      BY <2>1 DEF Occupied, Owns, Draining
    <2>3. active_bytes[swp_idx] = readed /\ rt_pc = "done"
      BY <2>2 DEF BookInv, RingInv, ChainInv
    <2>4. sent = Pos /\ Pos = file_pos
      BY <2>2, <2>3 DEF RingInv, EndsInv, Begin, Pos
    <2>5. readed = -1
      BY <2>2, <2>3, RoundBytes DEF FileInv
    <2> QED BY <2>1, <2>2, <2>3, <2>4, <2>5
  <1>2. CASE Main_FreeBuffer
    <2>1. /\ main_pc = "free" /\ main_pc' = "say" /\ readed_bytes < 0
          /\ swap_sem' = [swap_sem EXCEPT ![swp_idx] = @ - 1] /\ swap_sem[swp_idx] = 1
          /\ swp_idx' = NextBuf(swp_idx) /\ sent' = sent
      BY <1>2 DEF Main_FreeBuffer, Advance, SwapInv, Draining
    <2>2. Owns /\ Occupied(swp_idx) /\ readed_bytes = active_bytes[swp_idx]
      BY <2>1 DEF Occupied, Owns, Draining, RingInv, HandsInv
    <2>3. NextBuf(swp_idx) = rt_buf
      BY <2>1, <2>2 DEF RingInv, ChainInv
    <2>4. swap_sem'[rt_buf] < 2
      <3>1. rt_buf # swp_idx => swap_sem[rt_buf] # 3
        BY DEF RingInv, EndsInv, Occupied
      <3> QED BY <2>1, <3>1 DEF SwapInv
    <2> QED BY <2>1, <2>3, <2>4 DEF StuckInv
  <1>3. CASE Main_Boot \/ Main_ChainWait \/ Main_TakeFull
    BY <1>3 DEF Main_Boot, Main_ChainWait, Main_TakeFull, mainData, StuckInv
  <1>4. CASE Main_SendSwapBuffer \/ Main_WaitChilds \/ Main_SayReady
    BY <1>4 DEF Main_SendSwapBuffer, Main_WaitChilds, Main_SayReady, mainData, StuckInv
  <1>5. CASE Main_QuitChilds \/ Main_Wait \/ Main_Cleanup
    BY <1>5 DEF Main_QuitChilds, Main_Wait, Main_Cleanup, mainData, StuckInv
  <1> QED BY <1>1, <1>2, <1>3, <1>4, <1>5 DEF Main

LEMMA NextBoundary == ASSUME TypeOK, IInv, ContentInv, BoundaryInv, [Next]_vars PROVE BoundaryInv'
  <1>1. PhaseInv' /\ StageInv' /\ FileInv'
    BY PhaseKept, StageKept, FileKept DEF BoundaryInv
  <1> SUFFICES ASSUME Calm' PROVE BookInv' /\ StuckInv'
    BY <1>1 DEF BoundaryInv
  <1>0. /\ Calm /\ RingInv /\ SwapInv /\ RestInv
        /\ StageInv /\ FileInv /\ BookInv /\ StuckInv
    BY CalmBack DEF ContentInv, IInv, BoundaryInv
  <1>2. CASE UNCHANGED <<rtVars, swapVars, main_pc, swp_idx, readed_bytes, sent>>
    BY <1>0, <1>2 DEF BookInv, StuckInv, Occupied, Owns, Draining, Upto, Pos, rtVars, swapVars
  <1>3. CASE Alarm
    BY <1>2, <1>3, CutShort DEF Alarm
  <1>4. CASE NoWaitSemop
    BY <1>4, CutShort DEF NoWaitSemop, Calm
  <1>5. CASE EnvMaster \/ UNCHANGED vars
    BY <1>2, <1>5 DEF EnvMaster, vars, mainVars, mainData
  <1>6. ASSUME NEW i \in Child, ChildStep(i) \/ EnvLink(i)
        PROVE  UNCHANGED <<rtVars, swapVars, main_pc, swp_idx, readed_bytes, sent>>
    BY <1>6 DEF ChildStep, EnvLink, mainVars, mainData
  <1>7. CASE ReaderThread
    <2>1. /\ UNCHANGED <<main_pc, swp_idx, readed_bytes, sent>> /\ rt_pc # "done"
      BY <1>7 DEF ReaderThread, mainVars, mainData, RT, RT_SetAll, RT_WaitFree, RT_Claim,
                  RT_Read, RT_SetActive, RT_Publish
    <2> QED BY <1>0, <1>7, <2>1, ReaderThreadBook DEF StuckInv
  <1>8. CASE Main
    BY <1>0, <1>8, MainBook, MainStuck
  <1> QED BY <1>2, <1>3, <1>4, <1>5, <1>6, <1>7, <1>8 DEF Next, Ended

\* A child and its link are in the same phase, and 0 bytes come at the end of the file
\* only, whatever goes wrong; until a semop() is cut short, what follows a failed
\* read() is nothing.
THEOREM BoundaryCorrect == SafeSpec => []BoundaryInv
  <1>1. TypeOK /\ IInv /\ ContentInv /\ BoundaryInv /\ [Next]_vars => BoundaryInv'
    BY NextBoundary
  <1> QED BY InitBoundary, <1>1, TypeCorrect, InvCorrect, ContentCorrect, PTL DEF SafeSpec

\* None of the invariants depends on the SIGURGs.
LEMMA OnlyUrgs ==
  ASSUME TypeOK, IInv, ContentInv, BoundaryInv,
         UNCHANGED <<rtVars, swapVars, mainVars, cmdVars, childVars, link>>,
         urg' \in BOOLEAN, reader_urg' \in BOOLEAN, reader_busy' \in BOOLEAN
  PROVE  TypeOK' /\ IInv' /\ ContentInv' /\ BoundaryInv'
  <1> USE DEF rtVars, swapVars, mainVars, mainData, cmdVars, childVars
  <1>1. TypeOK' /\ Calm' = Calm /\ Owns' = Owns /\ Draining' = Draining
    BY DEF TypeOK, Calm, Owns, Draining
  <1>2. IInv'
    BY <1>1, OtherInv DEF IInv
  <1>3. ContentInv'
    <2>1. LinkInv => LinkInv'
      BY DEF LinkInv, Share
    <2> QED BY <1>1, <2>1, RingKept DEF ContentInv, RingInv, HandsInv
  <1>4. BoundaryInv'
    <2>1. PhaseInv' = PhaseInv /\ StageInv' = StageInv
      BY DEF PhaseInv, StageInv, Quiet
    <2>2. FileInv' = FileInv /\ StuckInv' = StuckInv
      BY DEF FileInv, StuckInv, SWAP_BUF_SIZE
    <2>3. BookInv => BookInv'
      BY <1>1 DEF BookInv, Occupied, Upto, Pos
    <2> QED BY <1>1, <2>1, <2>2, <2>3 DEF BoundaryInv
  <1> QED BY <1>1, <1>2, <1>3, <1>4

-----------------------------------------------------------------------------
(* The ring implements the queue *)

\* The k-th buffer from o round the ring.
Place(o, k) == (o + k - 1) % N_SWAP_BUFFERS

\* Going round the ring and counting the steps are inverse.
LEMMA PlaceIs ==
  ASSUME NEW o \in Buf, NEW k \in 1 .. N_SWAP_BUFFERS
  PROVE  /\ Place(o, k) = IF o + k - 1 < N_SWAP_BUFFERS THEN o + k - 1 ELSE o + k - 1 - N_SWAP_BUFFERS
         /\ Place(o, k) \in Buf
         /\ Steps(o, Place(o, k)) = k - 1
  <1>1. CASE o + k - 1 < N_SWAP_BUFFERS
    <2>1. o + k - 1 \in 0 .. N_SWAP_BUFFERS - 1
      BY <1>1 DEF Buf
    <2>2. Place(o, k) = o + k - 1
      BY <2>1 DEF Place
    <2> QED BY <1>1, <2>1, <2>2 DEF Steps, Buf
  <1>2. CASE ~(o + k - 1 < N_SWAP_BUFFERS)
    <2> DEFINE r == o + k - 1 - N_SWAP_BUFFERS
    <2>1. r \in 0 .. N_SWAP_BUFFERS - 1 /\ r < o
      BY <1>2 DEF Buf
    <2>2. Place(o, k) = r
      BY <2>1 DEF Place, Buf
    <2> QED BY <1>2, <2>1, <2>2 DEF Steps, Buf
  <1> QED BY <1>1, <1>2

LEMMA PlaceOnto ==
  ASSUME NEW o \in Buf, NEW b \in Buf
  PROVE  /\ Steps(o, b) \in 0 .. N_SWAP_BUFFERS - 1
         /\ Place(o, Steps(o, b) + 1) = b
  <1>1. Steps(o, b) \in 0 .. N_SWAP_BUFFERS - 1
    BY DEF Steps, Buf
  <1>2. Steps(o, b) + 1 \in 1 .. N_SWAP_BUFFERS
    BY <1>1
  <1>3. Place(o, Steps(o, b) + 1)
          = IF o + Steps(o, b) < N_SWAP_BUFFERS THEN o + Steps(o, b)
            ELSE o + Steps(o, b) - N_SWAP_BUFFERS
    BY <1>1, <1>2, PlaceIs DEF Buf
  <1> QED BY <1>1, <1>3 DEF Steps, Buf

\* The buffers at fewer than q steps are q.
LEMMA FirstOfRing ==
  ASSUME NEW o \in Buf, NEW q \in 0 .. N_SWAP_BUFFERS
  PROVE  Cardinality({b \in Buf : Steps(o, b) < q}) = q
  <1> DEFINE First == {b \in Buf : Steps(o, b) < q}
             At == [k \in 1 .. q |-> Place(o, k)]
  <1>1. ASSUME NEW k \in 1 .. q PROVE Place(o, k) \in First /\ Steps(o, Place(o, k)) = k - 1
    <2>1. k \in 1 .. N_SWAP_BUFFERS
      OBVIOUS
    <2> QED BY <2>1, PlaceIs
  <1>2. At \in [1 .. q -> First]
    BY <1>1
  <1>3. \A j, k \in 1 .. q : At[j] = At[k] => j = k
    <2> SUFFICES ASSUME NEW j \in 1 .. q, NEW k \in 1 .. q, At[j] = At[k] PROVE j = k
      OBVIOUS
    <2>1. j - 1 = k - 1
      BY <1>1
    <2> QED BY <2>1
  <1>4. \A b \in First : \E k \in 1 .. q : At[k] = b
    <2> SUFFICES ASSUME NEW b \in First PROVE \E k \in 1 .. q : At[k] = b
      OBVIOUS
    <2>1. Steps(o, b) + 1 \in 1 .. q
      BY PlaceOnto
    <2> QED BY <2>1, PlaceOnto
  <1>5. At \in Bijection(1 .. q, First)
    <2> HIDE DEF At, First
    <2> QED BY <1>2, <1>3, <1>4 DEF Bijection, Injection, Surjection, IsInjective
  <1>6. ExistsBijection(1 .. q, First)
    BY <1>5 DEF ExistsBijection
  <1> QED BY <1>6, FS_CountingElements

\* The shape of the queue follows from where the occupied buffers are.
LEMMA Shape == TypeOK /\ IInv /\ ContentInv /\ Calm => QueueShape
  <1> SUFFICES ASSUME TypeOK, SwapInv, RingInv PROVE QueueShape
    BY DEF IInv, ContentInv
  <1>1. swp_idx \in Buf /\ rt_buf \in Buf /\ Oldest \in Buf
    BY NextBufIs DEF TypeOK, Oldest
  <1>2. \A b \in Buf : Dist(b) = Steps(swp_idx, b)
    BY DEF Dist, Steps
  <1>3. SUFFICES \E q \in 0 .. N_SWAP_BUFFERS :
                   /\ Full = {b \in Buf : Steps(Oldest, b) < q}
                   /\ Draining => q < N_SWAP_BUFFERS
                   /\ Owns /\ ~Draining => q = 0
    <2>1. PICK q \in 0 .. N_SWAP_BUFFERS :
            /\ Full = {b \in Buf : Steps(Oldest, b) < q}
            /\ Draining => q < N_SWAP_BUFFERS
            /\ Owns /\ ~Draining => q = 0
      BY <1>3
    <2>2. Cardinality(Full) = q
      BY <1>1, <2>1, FirstOfRing
    <2>3. q = 0 => Full = {}
      BY <1>1, <2>1, PlaceOnto
    <2> QED BY <1>1, <2>1, <2>2, <2>3 DEF QueueShape
  <1>4. CASE ~Owns
    <2>1. Oldest = swp_idx /\ ~Draining /\ Full = {b \in Buf : Occupied(b)}
      BY <1>4 DEF Oldest, Owns, Full, Occupied
    <2>2. CASE Occupied(rt_buf)
      <3>1. Full = {b \in Buf : Steps(Oldest, b) < N_SWAP_BUFFERS}
        BY <1>1, <2>1, <2>2, PlaceOnto DEF RingInv, EndsInv
      <3> QED BY <1>4, <2>1, <3>1
    <2>3. CASE ~Occupied(rt_buf)
      <3>1. Full = {b \in Buf : Steps(Oldest, b) < Dist(rt_buf)}
        BY <1>2, <2>1, <2>3 DEF RingInv, EndsInv
      <3>2. Dist(rt_buf) \in 0 .. N_SWAP_BUFFERS
        BY <1>1, DistIs
      <3> QED BY <1>4, <2>1, <3>1, <3>2
    <2> QED BY <2>2, <2>3
  <1>5. CASE Draining
    <2>1. /\ Occupied(swp_idx) /\ swap_sem[swp_idx] = 1 /\ Oldest = NextBuf(swp_idx)
          /\ Full = {b \in Buf : Occupied(b) /\ b # swp_idx}
      BY <1>1, <1>5 DEF Oldest, Owns, Full, Occupied, SwapInv
    <2>2. \A b \in Buf : Steps(Oldest, b) = IF b = swp_idx THEN N_SWAP_BUFFERS - 1
                                            ELSE Steps(swp_idx, b) - 1
      BY <1>1, <2>1, NextBufIs DEF Steps, Buf
    <2>3. \A b \in Buf : b # swp_idx => Steps(swp_idx, b) \in 1 .. N_SWAP_BUFFERS - 1
      BY <1>1 DEF Steps, Buf
    <2>4. CASE Occupied(rt_buf)
      <3>1. Full = {b \in Buf : Steps(Oldest, b) < N_SWAP_BUFFERS - 1}
        BY <1>1, <2>1, <2>2, <2>3, <2>4 DEF RingInv, EndsInv
      <3>2. N_SWAP_BUFFERS - 1 \in 0 .. N_SWAP_BUFFERS
        OBVIOUS
      <3> QED BY <1>5, <3>1, <3>2
    <2>5. CASE ~Occupied(rt_buf)
      <3> DEFINE d == Steps(swp_idx, rt_buf)
      <3>1. d \in 1 .. N_SWAP_BUFFERS - 1
        BY <1>1, <2>1, <2>3, <2>5
      <3>2. Full = {b \in Buf : Steps(Oldest, b) < d - 1}
        <4>1. \A b \in Buf : Occupied(b) <=> Steps(swp_idx, b) < d
          BY <1>1, <1>2, <2>5 DEF RingInv, EndsInv
        <4> HIDE DEF d
        <4>2. \A b \in Buf : Steps(Oldest, b) < d - 1 <=> Occupied(b) /\ b # swp_idx
          BY <2>2, <2>3, <3>1, <4>1
        <4> QED BY <2>1, <4>2
      <3>3. d - 1 \in 0 .. N_SWAP_BUFFERS /\ d - 1 < N_SWAP_BUFFERS
        BY <3>1
      <3> QED BY <1>5, <3>2, <3>3
    <2> QED BY <2>4, <2>5
  <1>6. CASE Owns /\ ~Draining
    <2>1. /\ Occupied(swp_idx) /\ swap_sem[swp_idx] = 1 /\ Oldest = swp_idx
          /\ active_bytes[swp_idx] = 0
      BY <1>1, <1>6 DEF Oldest, Owns, Occupied, RingInv, HandsInv, Draining
    <2>2. NextBuf(swp_idx) = rt_buf
      BY <1>1, <2>1 DEF RingInv, ChainInv
    <2>3. ASSUME NEW b \in Buf, swap_sem[b] = 3 PROVE FALSE
      <3>1. Occupied(b) /\ b # swp_idx /\ Dist(b) # 0
        BY <1>1, <2>1, <2>3, DistIs DEF Occupied
      <3>2. ~Occupied(rt_buf) => Dist(b) < Dist(rt_buf)
        BY <3>1 DEF RingInv, EndsInv
      <3>3. CASE Occupied(rt_buf)
        BY <1>1, <2>2, <3>1, <3>3, NextBufIs DEF RingInv, EndsInv, Buf
      <3>4. CASE ~Occupied(rt_buf)
        BY <1>1, <2>1, <2>2, <3>1, <3>2, <3>4, DistIs
      <3> QED BY <3>3, <3>4
    <2>4. Full = {b \in Buf : Steps(Oldest, b) < 0}
      BY <1>1, <2>1, <2>3, PlaceOnto DEF Full
    <2> QED BY <1>6, <2>4
  <1> QED BY <1>4, <1>5, <1>6

Chunks == [at : Int, n : Int]

\* The k-th chunk of the queue is in the k-th buffer from the oldest, which is full.
QueueCells ==
  /\ RingQueue \in Seq(Chunks) /\ Len(RingQueue) = Cardinality(Full)
  /\ \A k \in 1 .. Cardinality(Full) :
       /\ Place(Oldest, k) \in Full
       /\ RingQueue[k] = Published(Place(Oldest, k))

LEMMA QueueIs == TypeOK /\ QueueShape => QueueCells
  <1> SUFFICES ASSUME TypeOK, QueueShape PROVE QueueCells
    OBVIOUS
  <1>1. Cardinality(Full) \in Nat /\ Oldest \in Buf
    BY DEF QueueShape
  <1>2. \A b \in Buf : Published(b) \in Chunks
    BY DEF Published, Chunks, TypeOK, NoData
  <1>3. ASSUME NEW k \in 1 .. Cardinality(Full) PROVE Place(Oldest, k) \in Full
    <2>1. k \in 1 .. N_SWAP_BUFFERS
      BY <1>1 DEF QueueShape
    <2>2. Place(Oldest, k) \in Buf /\ Steps(Oldest, Place(Oldest, k)) < Cardinality(Full)
      BY <1>1, <2>1, PlaceIs
    <2> QED BY <2>2 DEF QueueShape
  <1>4. RingQueue = [k \in 1 .. Cardinality(Full) |-> Published(Place(Oldest, k))]
    BY DEF RingQueue, Place
  <1>5. \A k \in 1 .. Cardinality(Full) : Published(Place(Oldest, k)) \in Chunks
    BY <1>2, <1>3 DEF Full
  <1> HIDE DEF QueueShape
  <1>6. RingQueue \in Seq(Chunks) /\ Len(RingQueue) = Cardinality(Full)
    BY <1>1, <1>4, <1>5
  <1> QED BY <1>3, <1>4, <1>6 DEF QueueCells

\* A step that changes no full buffer leaves the queue alone.
LEMMA QueueKept ==
  ASSUME TypeOK, QueueShape, Full' = Full, Oldest' = Oldest,
         \A b \in Full : Published(b)' = Published(b)
  PROVE  RingQueue' = RingQueue
  <1>1. \A k \in 1 .. Cardinality(Full) : Published(Place(Oldest, k))' = Published(Place(Oldest, k))
    <2> SUFFICES ASSUME NEW k \in 1 .. Cardinality(Full)
                 PROVE  Published(Place(Oldest, k))' = Published(Place(Oldest, k))
      OBVIOUS
    <2>1. PICK b \in Full : b = Place(Oldest, k)
      BY QueueIs DEF QueueCells
    <2>2. Place(Oldest, k)' = b
      BY <2>1 DEF Place
    <2> QED BY <2>1, <2>2 DEF Published
  <1> QED BY <1>1 DEF RingQueue, Place

\* So does a step that touches neither the ring nor who has which buffer.
LEMMA QueueUnchanged ==
  ASSUME UNCHANGED <<rtVars, swapVars, swp_idx, sent, Draining>>,
         main_pc' \in {"say", "quit", "reap", "exit"} /\ readed_bytes' = 0
           <=> main_pc \in {"say", "quit", "reap", "exit"} /\ readed_bytes = 0
  PROVE  UNCHANGED Queue!vars
  BY DEF Queue!vars, rtVars, swapVars, Supplied, RingQueue, Oldest, Full, Published

\* reader_thread publishes a buffer: it puts what it has read, or the end mark.
LEMMA PublishQueue ==
  ASSUME TypeOK, SwapInv, RingInv, FileInv, QueueShape, QueueShape', QueueCells, QueueCells',
         ReaderThread, RT_Publish, readed # -1
  PROVE  Queue!Put \/ Queue!Close
  <1> DEFINE q == Cardinality(Full)
             c == Published(rt_buf)
  <1>1. /\ rt_pc = "publish" /\ rt_pc' = (IF readed > 0 THEN "free" ELSE "done")
        /\ UNCHANGED <<file_len, file_pos, readed, active_bytes, swap_at, main_pc, swp_idx,
                       readed_bytes, sent>>
        /\ swap_sem' = [swap_sem EXCEPT ![rt_buf] = @ + 2] /\ swap_sem[rt_buf] = 1
        /\ rt_buf \in Buf
    BY DEF ReaderThread, RT_Publish, RT, mainVars, mainData, SwapInv, Filling, TypeOK
  <1>2. Full' = Full \cup {rt_buf} /\ rt_buf \notin Full
    BY <1>1 DEF Full, TypeOK
  <1>3. Oldest' = Oldest /\ (Draining <=> Draining') /\ Oldest \in Buf
    BY <1>1 DEF Oldest, Draining, QueueShape, NextBuf
  <1>4. q \in Nat /\ q' = q + 1 /\ q' <= N_SWAP_BUFFERS /\ (Draining => q' < N_SWAP_BUFFERS)
    <2>1. IsFiniteSet(Full)
      <3>1. IsFiniteSet(Buf)
        BY FS_Interval, 0 \in Int, N_SWAP_BUFFERS - 1 \in Int DEF Buf
      <3> QED BY <3>1, FS_Subset, Full \in SUBSET Buf DEF Full
    <2>2. Cardinality(Full \cup {rt_buf}) = Cardinality(Full) + 1
      BY <1>2, <2>1, FS_AddElement
    <2> QED BY <1>2, <1>3, <2>2 DEF QueueShape
  <1>5. Steps(Oldest, rt_buf) = q /\ q + 1 \in 1 .. N_SWAP_BUFFERS /\ Place(Oldest, q + 1) = rt_buf
    <2>1. Steps(Oldest, rt_buf) \in Nat /\ Place(Oldest, Steps(Oldest, rt_buf) + 1) = rt_buf
      BY <1>1, <1>3, PlaceOnto
    <2>2. ~(Steps(Oldest, rt_buf) < q)
      BY <1>1, <1>2 DEF QueueShape
    <2>3. Steps(Oldest, rt_buf) < q + 1
      BY <1>1, <1>2, <1>3, <1>4 DEF QueueShape, Steps
    <2>4. Steps(Oldest, rt_buf) = q
      BY <1>4, <2>1, <2>2, <2>3
    <2> QED BY <1>4, <2>1, <2>4
  <1>6. RingQueue' = Append(RingQueue, c)
    <2>1. \A b \in Buf : Published(b)' = Published(b)
      BY <1>1 DEF Published
    <2>2. c \in Chunks
      BY <1>1 DEF Published, Chunks, TypeOK, NoData
    <2>3. Append(RingQueue, c) \in Seq(Chunks) /\ Len(Append(RingQueue, c)) = q'
      BY <1>4, <2>2 DEF QueueCells
    <2>4. ASSUME NEW k \in 1 .. q' PROVE RingQueue'[k] = Append(RingQueue, c)[k]
      <3>1. Place(Oldest, k)' = Place(Oldest, k) /\ RingQueue'[k] = Published(Place(Oldest, k))'
        BY <1>3, <2>4 DEF QueueCells, Place
      <3>2. CASE k = q + 1
        <4>1. RingQueue'[k] = c
          BY <1>1, <1>5, <2>1, <3>1, <3>2 DEF Published
        <4> QED BY <1>4, <2>2, <3>2, <4>1 DEF QueueCells
      <3>3. CASE k # q + 1
        <4>1. k \in 1 .. q
          BY <1>4, <2>4, <3>3
        <4>2. Place(Oldest, k) \in Buf /\ RingQueue[k] = Published(Place(Oldest, k))
          BY <4>1 DEF QueueCells, Full
        <4>3. RingQueue'[k] = RingQueue[k]
          BY <2>1, <3>1, <4>2 DEF Published
        <4> QED BY <1>4, <2>2, <4>1, <4>3 DEF QueueCells
      <3> QED BY <3>2, <3>3
    <2>5. RingQueue' \in Seq(Chunks) /\ Len(RingQueue') = q'
      BY DEF QueueCells, Chunks
    <2> QED BY <2>3, <2>4, <2>5, SeqEqual
  <1>7. Queue!Room
    <2>1. ~Draining => (IF Draining THEN Published(swp_idx) ELSE [at |-> NoData, n |-> -1]) = Queue!None
      BY DEF Queue!None, Queue!Chunk, NoData
    <2> QED BY <1>4, <2>1 DEF Queue!Room, QueueCells
  <1>8. /\ active_bytes[rt_buf] = readed /\ readed \in 0 .. SWAP_BUF_SIZE
        /\ Supplied = file_pos - readed /\ Supplied' = file_pos
        /\ readed > 0 => swap_at[rt_buf] = file_pos - readed /\ file_pos <= file_len
        /\ readed = 0 => file_pos = file_len
    BY <1>1, RoundBytes DEF RingInv, HandsInv, FileInv, Supplied, Pos, TypeOK
  <1>9. UNCHANGED <<file_len, IF Draining THEN Published(swp_idx) ELSE [at |-> NoData, n |-> -1], sent,
                    main_pc \in {"say", "quit", "reap", "exit"} /\ readed_bytes = 0>>
    BY <1>1, <1>3 DEF Published
  <1>10. CASE readed > 0
    <2>1. c = Queue!Chunk(Supplied, readed)
      BY <1>8, <1>10 DEF Published, Queue!Chunk
    <2>2. /\ readed \in 1 .. SWAP_BUF_SIZE /\ Supplied + readed <= file_len
          /\ Supplied' = Supplied + readed
      BY <1>8, <1>10 DEF TypeOK
    <2>3. (rt_pc = "done") = FALSE /\ (rt_pc' = "done") = FALSE
      BY <1>1, <1>10
    <2> QED BY <1>6, <1>7, <1>9, <2>1, <2>2, <2>3 DEF Queue!Put
  <1>11. CASE ~(readed > 0)
    <2>1. c = Queue!EndMark
      BY <1>8, <1>11 DEF Published, Queue!EndMark, Queue!Chunk, NoData
    <2>2. Supplied = file_len /\ Supplied' = Supplied
      BY <1>8, <1>11 DEF TypeOK
    <2>3. (rt_pc = "done") = FALSE /\ (rt_pc' = "done") = TRUE
      BY <1>1, <1>11
    <2> QED BY <1>6, <1>7, <1>9, <2>1, <2>2, <2>3 DEF Queue!Close
  <1> QED BY <1>10, <1>11

\* reader_thread works on a buffer that is not full and that main_loop does not hold.
LEMMA FillQueue ==
  ASSUME TypeOK, SwapInv, RingInv, QueueShape, ReaderThread, ~RT_Publish, readed' # -1
  PROVE  UNCHANGED Queue!vars
  <1> USE DEF RT
  <1>1. /\ UNCHANGED <<file_len, main_pc, swp_idx, readed_bytes, sent>>
        /\ rt_pc \in {"set", "free", "claim", "read", "mark"}
        /\ rt_pc' \in {"free", "claim", "read", "mark", "publish"}
    BY DEF ReaderThread, mainVars, mainData, RT_SetAll, RT_WaitFree, RT_Claim, RT_Read, RT_SetActive
  <1>2. Draining' = Draining /\ Oldest' = Oldest
    BY <1>1 DEF Draining, Oldest, NextBuf
  <1>3. Supplied' = Supplied
    <2>1. CASE RT_Read
      BY <2>1 DEF RT_Read, Supplied, TypeOK, SWAP_BUF_SIZE
    <2>2. CASE ~RT_Read
      BY <2>2 DEF ReaderThread, RT_SetAll, RT_WaitFree, RT_Claim, RT_SetActive, Supplied
    <2> QED BY <2>1, <2>2
  <1>4. Full' = Full
    BY DEF ReaderThread, RT_SetAll, RT_WaitFree, RT_Claim, RT_Read, RT_SetActive, swapVars,
           Full, SwapInv, TypeOK
  <1>5. \A b \in Buf : b \in Full \/ (Draining /\ b = swp_idx) => Published(b)' = Published(b)
    <2> SUFFICES ASSUME NEW b \in Buf, b \in Full \/ (Draining /\ b = swp_idx)
                 PROVE  active_bytes'[b] = active_bytes[b] /\ swap_at'[b] = swap_at[b]
      BY DEF Published
    <2>1. CASE RT_SetAll
      BY <2>1 DEF RT_SetAll, Full, RingInv, HandsInv, SwapInv
    <2>2. CASE RT_WaitFree \/ RT_Claim
      BY <2>2 DEF RT_WaitFree, RT_Claim, swapVars
    <2>3. CASE RT_Read \/ RT_SetActive
      <3>1. Filling /\ b # rt_buf
        BY <2>3 DEF RT_Read, RT_SetActive, Filling, Full, SwapInv
      <3> QED BY <2>3, <3>1 DEF RT_Read, RT_SetActive, TypeOK
    <2> QED BY <2>1, <2>2, <2>3 DEF ReaderThread
  <1>6. RingQueue' = RingQueue
    BY <1>2, <1>4, <1>5, QueueKept DEF Full
  <1>7. (IF Draining THEN Published(swp_idx) ELSE [at |-> NoData, n |-> -1])'
          = IF Draining THEN Published(swp_idx) ELSE [at |-> NoData, n |-> -1]
    <2> PICK b \in Buf : b = swp_idx
      BY DEF TypeOK
    <2>1. Draining => Published(b)' = Published(b)
      BY <1>5
    <2> QED BY <1>1, <1>2, <2>1 DEF Published
  <1>8. (rt_pc' = "done") = (rt_pc = "done")
    BY <1>1
  <1> QED BY <1>1, <1>3, <1>6, <1>7, <1>8 DEF Queue!vars

\* What main_loop has not given back, in the terms of the queue.
Held == IF Draining THEN Published(swp_idx) ELSE Queue!None

LEMMA HeldIs ==
  /\ (IF Draining THEN Published(swp_idx) ELSE [at |-> NoData, n |-> -1]) = Held
  /\ (IF Draining THEN Published(swp_idx) ELSE [at |-> NoData, n |-> -1])' = Held'
  BY DEF Held, Queue!None, Queue!Chunk, NoData, Published

\* main_loop waits for the oldest buffer to be full and takes it.
LEMMA TakeQueue ==
  ASSUME TypeOK, SwapInv, QueueShape, QueueShape', QueueCells, QueueCells', Main, Main_TakeFull
  PROVE  Queue!Take
  <1> DEFINE q == Cardinality(Full)
  <1>1. /\ main_pc = "take" /\ main_pc' = "get"
        /\ UNCHANGED <<rtVars, active_bytes, swap_at, swp_idx, readed_bytes, sent>>
        /\ swap_sem' = [swap_sem EXCEPT ![swp_idx] = @ - 2] /\ swap_sem[swp_idx] = 3
        /\ swp_idx \in Buf
    BY DEF Main, Main_TakeFull, MainPc, mainData, SwapInv, TypeOK
  <1>2. /\ ~Draining /\ Draining' /\ Oldest = swp_idx /\ Oldest' = NextBuf(swp_idx)
        /\ NextBuf(swp_idx) \in Buf
    BY <1>1, NextBufIs DEF Draining, Oldest, NextBuf
  <1>3. swp_idx \in Full /\ Full' = Full \ {swp_idx}
    BY <1>1 DEF Full, TypeOK
  <1>4. q \in Nat /\ q >= 1 /\ q' = q - 1 /\ q <= N_SWAP_BUFFERS
    <2>1. IsFiniteSet(Full)
      <3>1. IsFiniteSet(Buf)
        BY FS_Interval, 0 \in Int, N_SWAP_BUFFERS - 1 \in Int DEF Buf
      <3> QED BY <3>1, FS_Subset, Full \in SUBSET Buf DEF Full
    <2>2. Cardinality(Full \ {swp_idx}) = Cardinality(Full) - 1
      BY <1>3, <2>1, FS_RemoveElement
    <2> QED BY <1>3, <2>2 DEF QueueShape
  <1>5. \A b \in Buf : Published(b)' = Published(b)
    BY <1>1 DEF Published
  <1>6. RingQueue # <<>> /\ Head(RingQueue) = RingQueue[1]
    BY <1>4 DEF QueueCells
  <1>7. Head(RingQueue) = Published(swp_idx)
    <2>1. 1 \in 1 .. N_SWAP_BUFFERS /\ Place(swp_idx, 1) = swp_idx
      BY <1>1, PlaceIs DEF Buf
    <2> QED BY <1>2, <1>4, <1>6, <2>1 DEF QueueCells
  <1>8. RingQueue' = Tail(RingQueue)
    <2>1. /\ Tail(RingQueue) \in Seq(Chunks) /\ Len(Tail(RingQueue)) = q'
          /\ \A k \in 1 .. q' : Tail(RingQueue)[k] = RingQueue[k + 1]
      BY <1>4, <1>6, HeadTailProperties DEF QueueCells
    <2>2. ASSUME NEW k \in 1 .. q' PROVE RingQueue'[k] = Tail(RingQueue)[k]
      <3>1. k \in 1 .. N_SWAP_BUFFERS /\ k + 1 \in 1 .. N_SWAP_BUFFERS /\ k + 1 \in 1 .. q
        BY <1>4
      <3>2. Place(NextBuf(swp_idx), k) = Place(swp_idx, k + 1)
        <4> DEFINE next == NextBuf(swp_idx)
        <4>1. Place(next, k) = IF next + k - 1 < N_SWAP_BUFFERS THEN next + k - 1
                               ELSE next + k - 1 - N_SWAP_BUFFERS
          BY <1>2, <3>1, PlaceIs
        <4>2. Place(swp_idx, k + 1) = IF swp_idx + k < N_SWAP_BUFFERS THEN swp_idx + k
                                      ELSE swp_idx + k - N_SWAP_BUFFERS
          <5>1. swp_idx + (k + 1) - 1 = swp_idx + k
            BY <1>1, <3>1 DEF Buf
          <5> QED BY <1>1, <3>1, <5>1, PlaceIs
        <4>3. next = IF swp_idx = N_SWAP_BUFFERS - 1 THEN 0 ELSE swp_idx + 1
          BY <1>1, NextBufIs
        <4> QED BY <1>1, <3>1, <4>1, <4>2, <4>3 DEF Buf
      <3>3. Place(Oldest, k)' = Place(NextBuf(swp_idx), k)
        BY <1>2 DEF Place
      <3>4. PICK b \in Buf : b = Place(swp_idx, k + 1)
        BY <1>1, <3>1, PlaceIs
      <3>5. RingQueue[k + 1] = Published(b)
        BY <1>2, <3>1, <3>4 DEF QueueCells
      <3>6. RingQueue'[k] = Published(b)'
        BY <2>2, <3>2, <3>3, <3>4 DEF QueueCells, Published
      <3> QED BY <1>5, <2>1, <2>2, <3>5, <3>6
    <2>3. RingQueue' \in Seq(Chunks) /\ Len(RingQueue') = q'
      BY DEF QueueCells, Chunks
    <2> QED BY <2>1, <2>2, <2>3, SeqEqual
  <1>9. Held = Queue!None /\ Held' = Published(swp_idx)
    BY <1>1, <1>2, <1>5 DEF Held, Published, Queue!None, Queue!Chunk
  <1>10. UNCHANGED <<file_len, Supplied, rt_pc = "done", sent,
                     main_pc \in {"say", "quit", "reap", "exit"} /\ readed_bytes = 0>>
    BY <1>1 DEF rtVars, Supplied
  <1> QED BY <1>6, <1>7, <1>8, <1>9, <1>10, HeldIs DEF Queue!Take

\* The buffer main_loop holds was the end mark.
LEMMA EndQueue ==
  ASSUME TypeOK, QueueShape, QueueShape', Main, Main_GetBytes, active_bytes[swp_idx] = 0
  PROVE  Queue!End
  <1>1. /\ main_pc = "get" /\ main_pc' = "say" /\ readed_bytes' = 0
        /\ UNCHANGED <<rtVars, swap_sem, active_bytes, swap_at, swp_idx, sent>>
    BY DEF Main, Main_GetBytes, MainPc
  <1>2. Draining /\ ~Draining' /\ Owns'
    BY <1>1 DEF Draining, Owns
  <1>3. Full' = {} /\ Full = {}
    BY <1>1, <1>2 DEF QueueShape, Full
  <1>4. RingQueue' = RingQueue
    BY <1>3, FS_EmptySet DEF RingQueue
  <1>5. Held = Queue!EndMark /\ Held' = Queue!None
    BY <1>1, <1>2 DEF Held, Published, Queue!None, Queue!EndMark, Queue!Chunk, NoData
  <1>6. UNCHANGED <<file_len, Supplied, rt_pc = "done", sent>>
    BY <1>1 DEF rtVars, Supplied
  <1> QED BY <1>1, <1>4, <1>5, <1>6, HeldIs DEF Queue!End

\* main_loop gives the buffer back once it is sent.
LEMMA ReleaseQueue ==
  ASSUME TypeOK, SwapInv, RingInv, StuckInv, QueueShape, Main, Main_FreeBuffer, readed # -1
  PROVE  Queue!Release
  <1>1. /\ main_pc = "free" /\ main_pc' = "say"
        /\ UNCHANGED <<rtVars, active_bytes, swap_at, readed_bytes>>
        /\ swap_sem' = [swap_sem EXCEPT ![swp_idx] = @ - 1] /\ swap_sem[swp_idx] = 1
        /\ swp_idx' = NextBuf(swp_idx)
        /\ sent' = IF readed_bytes > 0 THEN sent + readed_bytes ELSE sent
        /\ swp_idx \in Buf /\ Draining /\ ~Draining'
    BY DEF Main, Main_FreeBuffer, Advance, MainPc, SwapInv, Draining, TypeOK
  <1>2. readed_bytes > 0 /\ active_bytes[swp_idx] = readed_bytes
    BY <1>1 DEF RingInv, HandsInv, Owns, StuckInv, TypeOK
  <1>3. Oldest' = Oldest
    BY <1>1 DEF Oldest, NextBuf
  <1>4. Full' = Full
    BY <1>1 DEF Full, TypeOK
  <1>5. \A b \in Buf : Published(b)' = Published(b)
    BY <1>1 DEF Published
  <1>6. RingQueue' = RingQueue
    BY <1>3, <1>4, <1>5, QueueKept DEF Full
  <1>7. Held = [at |-> swap_at[swp_idx], n |-> readed_bytes] /\ Held' = Queue!None
    BY <1>1, <1>2 DEF Held, Published, Queue!None, Queue!Chunk, TypeOK
  <1>8. Held \notin {Queue!None, Queue!EndMark} /\ Held.n = readed_bytes
    <2>1. Queue!None.n = -1 /\ Queue!EndMark.n = 0
      BY DEF Queue!None, Queue!EndMark, Queue!Chunk
    <2>2. Held.n = readed_bytes
      BY <1>7
    <2> QED BY <1>2, <2>1, <2>2
  <1>9. UNCHANGED <<file_len, Supplied, rt_pc = "done",
                    main_pc \in {"say", "quit", "reap", "exit"} /\ readed_bytes = 0>>
    BY <1>1, <1>2 DEF rtVars, Supplied
  <1> QED BY <1>1, <1>2, <1>6, <1>7, <1>8, <1>9, HeldIs DEF Queue!Release

LEMMA MainQueue ==
  ASSUME TypeOK, SwapInv, RingInv, StageInv, StuckInv,
         QueueShape, QueueShape', QueueCells, QueueCells', Main, readed # -1
  PROVE  [Queue!Next]_(Queue!vars)
  <1>0. UNCHANGED <<rtVars, active_bytes, swap_at>>
    BY DEF Main
  <1>1. CASE Main_TakeFull
    BY <1>1, TakeQueue DEF Queue!Next
  <1>2. CASE Main_GetBytes
    <2>1. CASE active_bytes[swp_idx] = 0
      BY <1>2, <2>1, EndQueue DEF Queue!Next
    <2>2. CASE active_bytes[swp_idx] # 0
      BY <1>0, <1>2, <2>2, QueueUnchanged DEF Main_GetBytes, MainPc, Draining, swapVars
    <2> QED BY <2>1, <2>2
  <1>3. CASE Main_FreeBuffer
    BY <1>3, ReleaseQueue DEF Queue!Next
  <1>4. CASE Main_Boot \/ Main_ChainWait \/ Main_SendSwapBuffer \/ Main_WaitChilds
    <2>1. /\ UNCHANGED <<swap_sem, swp_idx, sent, readed_bytes, Draining>>
          /\ main_pc \notin {"say", "quit", "reap", "exit"}
          /\ main_pc' \notin {"say", "quit", "reap", "exit"}
      BY <1>4 DEF Main_Boot, Main_ChainWait, Main_SendSwapBuffer, Main_WaitChilds, MainPc,
         mainData, Draining
    <2> QED BY <1>0, <2>1, QueueUnchanged DEF swapVars
  <1>5. CASE Main_SayReady \/ Main_QuitChilds \/ Main_Wait \/ Main_Cleanup
    <2>1. /\ UNCHANGED <<swap_sem, swp_idx, sent, readed_bytes, Draining>>
          /\ main_pc \in {"say", "quit", "reap", "exit"}
          /\ \/ main_pc' \in {"say", "quit", "reap", "exit"}
             \/ main_pc' = "chain" /\ readed_bytes # 0
      BY <1>5 DEF Main_SayReady, Main_QuitChilds, Main_Wait, Main_Cleanup, MainPc,
         mainData, Draining
    <2> QED BY <1>0, <2>1, QueueUnchanged DEF swapVars
  <1> QED BY <1>1, <1>2, <1>3, <1>4, <1>5 DEF Main

\* Until a semop() is cut short or a read() fails, every step of the sender is a step of
\* the queue or leaves it alone: no chunk is lost, taken twice or taken out of order, for
\* any number of children, buffers and bytes.
THEOREM QueueSafety == SafeSpec => KeepsQueue
  <1>1. Init => Queue!Init
    <2> SUFFICES ASSUME Init PROVE Queue!Init
      OBVIOUS
    <2>1. Full = {} /\ Cardinality(Full) = 0
      BY FS_EmptySet DEF Init, Full
    <2>2. RingQueue = <<>>
      BY <2>1 DEF RingQueue
    <2>3. Held = Queue!None
      BY DEF Init, Held, Draining
    <2> QED BY <2>2, <2>3, HeldIs DEF Init, Queue!Init, Supplied
  <1> DEFINE Invs == TypeOK /\ IInv /\ ContentInv /\ BoundaryInv
             Cells == Calm => QueueShape /\ QueueCells
  <1>2. Invs => Cells
    BY Shape, QueueIs
  <1>3. ASSUME Invs, Cells, Cells', [Next]_vars, Healthy' PROVE [Queue!Next]_(Queue!vars)
    <2>1. Calm /\ Calm' /\ readed' # -1 /\ readed # -1
      <3>1. readed = -1 => readed' = -1
        BY <1>3 DEF BoundaryInv, FileInv, Next, ReaderThread, RT, RT_SetAll, RT_WaitFree, RT_Claim,
           RT_Read, RT_SetActive, RT_Publish, Main, Alarm, NoWaitSemop, ChildStep, EnvLink, EnvMaster,
           Ended, vars, rtVars
      <3> QED BY <1>3, <3>1, CalmBack DEF Healthy
    <2>2. /\ SwapInv /\ RingInv /\ StageInv /\ FileInv /\ StuckInv
          /\ QueueShape /\ QueueShape' /\ QueueCells /\ QueueCells'
      BY <1>3, <2>1 DEF IInv, ContentInv, BoundaryInv
    <2>3. CASE ReaderThread
      BY <1>3, <2>1, <2>2, <2>3, PublishQueue, FillQueue DEF Queue!Next
    <2>4. CASE Main
      BY <1>3, <2>1, <2>2, <2>4, MainQueue
    <2>5. CASE UNCHANGED <<rtVars, swapVars, main_pc, swp_idx, readed_bytes, sent>>
      BY <2>5, QueueUnchanged DEF Draining
    <2>6. CASE Alarm
      BY <2>1, <2>5, <2>6, CutShort DEF Alarm
    <2>7. CASE NoWaitSemop
      BY <2>1, <2>7, CutShort DEF NoWaitSemop, Calm
    <2>8. CASE EnvMaster \/ UNCHANGED vars
      BY <2>5, <2>8 DEF EnvMaster, vars, mainVars, mainData
    <2>9. ASSUME NEW i \in Child, ChildStep(i) \/ EnvLink(i)
          PROVE  UNCHANGED <<rtVars, swapVars, main_pc, swp_idx, readed_bytes, sent>>
      BY <2>9 DEF ChildStep, EnvLink, mainVars, mainData
    <2> QED BY <1>3, <2>3, <2>4, <2>5, <2>6, <2>7, <2>8, <2>9 DEF Next, Ended
  <1>4. Invs /\ Cells /\ Cells' /\ [Next]_vars => [Healthy' => Queue!Next]_(Queue!vars)
    BY <1>3
  <1> QED BY <1>1, <1>2, <1>4, TypeCorrect, InvCorrect, ContentCorrect, BoundaryCorrect, PTL
          DEF SafeSpec, KeepsQueue
=============================================================================
